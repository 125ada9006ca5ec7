----------------------------- MODULE EditorProofs -----------------------------
(***************************************************************************)
(* For every set of keys and of texts, of any size: the cursor of Editor   *)
(* stays inside its text, and Editor implements TextBuffer.                *)
(***************************************************************************)
EXTENDS Editor, TLAPS, FiniteSetTheorems, SequenceTheorems, WellFoundedInduction

-----------------------------------------------------------------------------
(***************************************************************************)
(* The lines of a text.                                                    *)
(***************************************************************************)

Line == Seq(Char \ {NewLine})

\* The members of S up to e.
UpTo(S, e) == {k \in S : k <= e}

\* A finite set of numbers has a first member, a second, and so on.
LEMMA Nth ==
  ASSUME NEW S, IsFiniteSet(S), S \subseteq Int, NEW n, n = Cardinality(S)
  PROVE  /\ n \in Nat
         /\ \A e \in S : Cardinality(UpTo(S, e)) \in 1 .. n
         /\ \A e, f \in S : e < f => Cardinality(UpTo(S, e)) < Cardinality(UpTo(S, f))
         /\ \A j \in 1 .. n : \E e \in S : Cardinality(UpTo(S, e)) = j
<1>1. n \in Nat
  BY FS_CardinalityType
<1>2. ASSUME NEW e \in S
      PROVE  IsFiniteSet(UpTo(S, e)) /\ Cardinality(UpTo(S, e)) \in 1 .. n
  <2>1. UpTo(S, e) \in SUBSET S /\ e \in UpTo(S, e)
    BY DEF UpTo
  <2>2. IsFiniteSet(UpTo(S, e)) /\ Cardinality(UpTo(S, e)) <= n
    BY <2>1, FS_Subset
  <2>3. Cardinality(UpTo(S, e)) \in Nat /\ Cardinality(UpTo(S, e)) # 0
    BY <2>1, <2>2, FS_CardinalityType, FS_EmptySet
  <2> QED
    BY <1>1, <2>2, <2>3
<1>3. ASSUME NEW e \in S, NEW f \in S, e < f
      PROVE  Cardinality(UpTo(S, e)) < Cardinality(UpTo(S, f))
  <2>0. e \in Int /\ f \in Int /\ \A k \in S : k \in Int
    OBVIOUS
  <2>1. UpTo(S, e) \in SUBSET UpTo(S, f) /\ f \in UpTo(S, f) /\ f \notin UpTo(S, e)
    <3>1. \A k \in S : k <= e => k <= f
      BY <1>3, <2>0
    <3>2. ~(f <= e) /\ f <= f
      BY <1>3, <2>0
    <3> QED
      BY <3>1, <3>2 DEF UpTo
  <2>2. IsFiniteSet(UpTo(S, f))
    BY <1>2
  <2>3. /\ Cardinality(UpTo(S, e)) <= Cardinality(UpTo(S, f))
        /\ Cardinality(UpTo(S, e)) # Cardinality(UpTo(S, f))
    BY <2>1, <2>2, FS_Subset
  <2>4. Cardinality(UpTo(S, e)) \in Nat /\ Cardinality(UpTo(S, f)) \in Nat
    BY <1>2
  <2> QED
    BY <2>3, <2>4
<1>4. PICK rank : rank = [e \in S |-> Cardinality(UpTo(S, e))]
  OBVIOUS
<1>5. rank \in [S -> 1 .. n]
  BY <1>2, <1>4
<1>6. ASSUME NEW e \in S, NEW f \in S, rank[e] = rank[f] PROVE e = f
  <2>1. Cardinality(UpTo(S, e)) = Cardinality(UpTo(S, f)) /\ e \in Int /\ f \in Int
    BY <1>4, <1>6
  <2>2. Cardinality(UpTo(S, e)) \in Nat
    BY <1>2
  <2> QED
    BY <1>3, <2>1, <2>2
<1>7. rank \in Injection(S, 1 .. n)
  BY <1>5, <1>6 DEF Injection, IsInjective
<1>8. IsFiniteSet(1 .. n) /\ Cardinality(1 .. n) = n
  BY <1>1, FS_Interval
<1>9. rank \in Surjection(S, 1 .. n)
  BY <1>7, <1>8, FS_Injection
<1>10. \A j \in 1 .. n : \E e \in S : rank[e] = j
  BY <1>9 DEF Surjection
<1> QED
  BY <1>1, <1>2, <1>3, <1>4, <1>10

\* E holds the ends of the n lines of a text, after the 0 that the first begins at.
Cuts(text, n, E) ==
  /\ n \in Nat \ {0} /\ E \in [0 .. n -> Nat] /\ E[0] = 0
  /\ \A j \in 1 .. n : E[j - 1] < E[j] /\ E[j] <= E[n]
  /\ \A j \in 1 .. n : E[j] <= Len(text) => text[E[j]] = NewLine
  /\ \A j \in 1 .. n : \A k \in E[j - 1] + 1 .. E[j] - 1 : text[k] # NewLine
  /\ E[n] = IF text[Len(text)] = NewLine THEN Len(text) ELSE Len(text) + 1

LEMMA SplitCuts ==
  ASSUME NEW text \in Seq(Char), text # <<>>
  PROVE  \E n, E : /\ Cuts(text, n, E)
                   /\ Split(text) = [j \in 1 .. n |-> SubSeq(text, E[j - 1] + 1, E[j] - 1)]
<1>1. PICK S, n, m : S = Ends(text) /\ n = Cardinality(S) /\ m = Len(text)
  OBVIOUS
<1>2. m \in Nat \ {0} /\ DOMAIN text = 1 .. m
  BY <1>1, LenProperties, EmptySeq
<1>3. PICK last : last = IF text[m] = NewLine THEN m ELSE m + 1
  OBVIOUS
<1>4. /\ S \subseteq 1 .. m + 1
      /\ \A k \in 1 .. m : k \in S <=> text[k] = NewLine
      /\ last \in S /\ \A k \in S : k <= last
  <2>1. Last(text) = text[m]
    BY <1>1 DEF Last
  <2> QED
    BY <1>1, <1>2, <1>3, <2>1 DEF Ends
<1>5. IsFiniteSet(S) /\ S \subseteq Int
  <2>1. IsFiniteSet(1 .. m + 1)
    BY <1>2, FS_Interval
  <2>2. S \in SUBSET (1 .. m + 1)
    BY <1>4
  <2>3. IsFiniteSet(S)
    BY <2>1, <2>2, FS_Subset
  <2> QED
    BY <1>2, <1>4, <2>3
<1>6. PICK rank : rank = [e \in S |-> Cardinality(UpTo(S, e))]
  OBVIOUS
<1>7. /\ n \in Nat
      /\ \A e \in S : rank[e] \in 1 .. n
      /\ \A e, f \in S : e < f => rank[e] < rank[f]
      /\ \A j \in 1 .. n : \E e \in S : rank[e] = j
  <2>1. /\ n \in Nat
        /\ \A e \in S : Cardinality(UpTo(S, e)) \in 1 .. n
        /\ \A e, f \in S : e < f => Cardinality(UpTo(S, e)) < Cardinality(UpTo(S, f))
        /\ \A j \in 1 .. n : \E e \in S : Cardinality(UpTo(S, e)) = j
    BY <1>1, <1>5, Nth
  <2> QED
    BY <1>6, <2>1
<1>8. n \in Nat \ {0}
  BY <1>4, <1>7
<1>9. PICK E : E = [j \in 0 .. n |-> IF j = 0 THEN 0 ELSE End(text, j)]
  OBVIOUS
<1>10. ASSUME NEW j \in 1 .. n PROVE E[j] = End(text, j) /\ E[j] \in S /\ rank[E[j]] = j
  <2>1. End(text, j) = CHOOSE e \in S : Cardinality(UpTo(S, e)) = j
    BY <1>1 DEF End, UpTo
  <2>2. \E e \in S : Cardinality(UpTo(S, e)) = j
    BY <1>6, <1>7
  <2>3. End(text, j) \in S /\ Cardinality(UpTo(S, End(text, j))) = j
    BY <2>1, <2>2
  <2>4. E[j] = End(text, j)
    <3>1. j \in 0 .. n /\ j # 0
      BY <1>8
    <3> QED
      BY <1>9, <3>1
  <2> QED
    BY <1>6, <2>3, <2>4
<1>11. E[0] = 0 /\ E \in [0 .. n -> Nat]
  <2>1. 0 \in 0 .. n
    BY <1>8
  <2>2. \A j \in 0 .. n : j = 0 \/ j \in 1 .. n
    BY <1>8
  <2>3. E[0] = 0 /\ \A j \in 1 .. n : E[j] \in Nat
    <3>1. \A e \in S : e \in Nat
      BY <1>2, <1>4
    <3>2. E[0] = 0
      BY <1>9, <2>1
    <3> QED
      BY <1>10, <3>1, <3>2
  <2>4. \A j \in 0 .. n : E[j] \in Nat
    BY <2>2, <2>3
  <2> QED
    BY <1>9, <2>3, <2>4
<1>12. ASSUME NEW e \in S, NEW f \in S, rank[e] < rank[f] PROVE e < f
  <2>1. e \in Int /\ f \in Int /\ rank[e] \in Int /\ rank[f] \in Int
    BY <1>5, <1>7
  <2>2. f < e => rank[f] < rank[e]
    BY <1>7
  <2>3. CASE f < e
    BY <1>12, <2>1, <2>2, <2>3
  <2>4. CASE f = e
    BY <1>12, <2>1, <2>4
  <2> QED
    BY <2>1, <2>3, <2>4
<1>13. ASSUME NEW j \in 1 .. n
       PROVE  /\ E[j - 1] < E[j] /\ E[j] <= last
              /\ E[j] <= m => text[E[j]] = NewLine
              /\ \A k \in E[j - 1] + 1 .. E[j] - 1 : text[k] # NewLine
  <2>1. PICK i : i = j - 1
    OBVIOUS
  <2>2. j \in Nat /\ (j = 1 \/ i \in 1 .. n) /\ i < j /\ i \in Nat /\ i \in 0 .. n /\ j \in 0 .. n
    BY <1>8, <2>1
  <2>3. E[j] \in S /\ rank[E[j]] = j /\ E[j] \in 1 .. m + 1 /\ E[j] <= last
    BY <1>4, <1>10
  <2>4. E[i] < E[j]
    <3>1. CASE i = 0
      BY <1>2, <1>11, <2>3, <3>1
    <3>2. CASE i \in 1 .. n
      <4>1. E[i] \in S /\ rank[E[i]] = i
        BY <1>10, <3>2
      <4> QED
        BY <1>12, <2>2, <2>3, <4>1
    <3> QED
      BY <2>1, <2>2, <3>1, <3>2
  <2>5. E[j] <= m => text[E[j]] = NewLine
    BY <1>2, <1>4, <2>3
  <2>6. ASSUME NEW k \in E[i] + 1 .. E[j] - 1, text[k] = NewLine PROVE FALSE
    <3>1. E[i] \in Nat /\ E[j] \in Nat
      BY <1>11, <2>2
    <3>2. k \in 1 .. m /\ E[i] < k /\ k < E[j]
      BY <1>2, <2>3, <2>6, <3>1
    <3>3. k \in S
      BY <1>4, <2>6, <3>2
    <3>4. PICK r : r = rank[k] /\ r \in 1 .. n
      BY <1>7, <3>3
    <3>5. r < j
      BY <1>7, <2>3, <3>2, <3>3, <3>4
    <3>6. i < r
      <4>1. CASE i = 0
        BY <1>8, <3>4, <4>1
      <4>2. CASE i \in 1 .. n
        <5>1. E[i] \in S /\ rank[E[i]] = i
          BY <1>10, <4>2
        <5> QED
          BY <1>7, <3>2, <3>3, <3>4, <5>1
      <4> QED
        BY <2>1, <2>2, <4>1, <4>2
    <3> QED
      BY <1>8, <2>1, <2>2, <3>4, <3>5, <3>6
  <2> QED
    BY <2>1, <2>3, <2>4, <2>5, <2>6
<1>14. E[n] = last
  <2>1. n \in 1 .. n
    BY <1>8
  <2>2. E[n] \in S /\ rank[E[n]] = n
    BY <1>10, <2>1
  <2>3. E[n] <= last /\ ~(E[n] < last)
    <3>1. rank[last] \in 1 .. n
      BY <1>4, <1>7
    <3>2. E[n] < last => n < rank[last]
      BY <1>4, <1>7, <2>2
    <3>3. ~(n < rank[last])
      BY <1>8, <3>1
    <3>4. E[n] <= last
      BY <1>4, <2>2
    <3> QED
      BY <3>2, <3>3, <3>4
  <2>4. E[n] \in Int /\ last \in Int
    BY <1>4, <1>5, <2>2
  <2> QED
    BY <2>3, <2>4
<1>15. Split(text) = [j \in 1 .. n |-> SubSeq(text, E[j - 1] + 1, E[j] - 1)]
  <2>1. ASSUME NEW j \in 1 .. n
        PROVE  SubSeq(text, IF j = 1 THEN 1 ELSE End(text, j - 1) + 1, End(text, j) - 1)
                 = SubSeq(text, E[j - 1] + 1, E[j] - 1)
    <3>1. E[j] = End(text, j)
      BY <1>10
    <3>2. CASE j = 1
      BY <1>11, <3>1, <3>2
    <3>3. CASE j # 1
      <4>1. j - 1 \in 1 .. n
        BY <1>8, <3>3
      <4>2. E[j - 1] = End(text, j - 1)
        BY <1>10, <4>1
      <4> QED
        BY <3>1, <3>3, <4>2
    <3> QED
      BY <3>2, <3>3
  <2>2. Split(text) = [j \in 1 .. n |->
          SubSeq(text, IF j = 1 THEN 1 ELSE End(text, j - 1) + 1, End(text, j) - 1)]
    BY <1>1 DEF Split
  <2> QED
    BY <2>1, <2>2
<1>16. Cuts(text, n, E)
  BY <1>1, <1>3, <1>8, <1>11, <1>13, <1>14 DEF Cuts
<1> QED
  BY <1>15, <1>16

\* The lines that a text is split into: as many as it has ends.
LEMMA SplitLines ==
  ASSUME NEW text \in Seq(Char), text # <<>>
  PROVE  Split(text) \in Seq(Line) /\ Len(Split(text)) >= 1
<1>1. PICK n, E : /\ Cuts(text, n, E)
                  /\ Split(text) = [j \in 1 .. n |-> SubSeq(text, E[j - 1] + 1, E[j] - 1)]
  BY SplitCuts
<1>2. PICK m \in Nat : m = Len(text)
  OBVIOUS
<1>3. /\ n \in Nat \ {0} /\ E \in [0 .. n -> Nat] /\ E[n] <= m + 1
      /\ \A j \in 1 .. n : E[j] <= E[n]
      /\ \A j \in 1 .. n : \A k \in E[j - 1] + 1 .. E[j] - 1 : text[k] # NewLine
  <2>1. E[n] <= m + 1
    <3>1. E[n] = IF text[m] = NewLine THEN m ELSE m + 1
      BY <1>1, <1>2 DEF Cuts
    <3>2. m <= m + 1 /\ m + 1 <= m + 1
      BY <1>2
    <3> QED
      BY <3>1, <3>2
  <2> QED
    BY <1>1, <2>1 DEF Cuts
<1>4. ASSUME NEW j \in 1 .. n PROVE SubSeq(text, E[j - 1] + 1, E[j] - 1) \in Line
  <2>1. E[j - 1] \in Nat /\ E[j] \in Nat /\ E[n] \in Nat
    <3>1. j - 1 \in 0 .. n /\ j \in 0 .. n /\ n \in 0 .. n
      BY <1>3
    <3> QED
      BY <1>3, <3>1
  <2>2. PICK a \in Nat, b \in Int : a = E[j - 1] + 1 /\ a >= 1 /\ b = E[j] - 1 /\ b <= m
    <3>1. E[j] <= m + 1
      BY <1>2, <1>3, <2>1
    <3> QED
      BY <1>2, <2>1, <3>1
  <2>3. ASSUME NEW k \in a .. b PROVE text[k] \in Char \ {NewLine}
    <3>1. k \in 1 .. m
      BY <1>2, <2>2
    <3>2. text[k] # NewLine
      BY <1>3, <2>2
    <3> QED
      BY <1>2, <3>1, <3>2
  <2>4. SubSeq(text, a, b) \in Seq(Char \ {NewLine})
    BY <2>2, <2>3, SubSeqProperties
  <2> QED
    BY <2>2, <2>4 DEF Line
<1>5. PICK ls : ls = [j \in 1 .. n |-> SubSeq(text, E[j - 1] + 1, E[j] - 1)]
  OBVIOUS
<1>6. ls \in Seq(Line) /\ Len(ls) = n
  <2>1. ls \in [1 .. n -> Line]
    BY <1>4, <1>5
  <2> QED
    BY <1>3, <2>1
<1> QED
  BY <1>1, <1>3, <1>5, <1>6

-----------------------------------------------------------------------------
(***************************************************************************)
(* The keys.                                                               *)
(***************************************************************************)

\* The lines ls have the cursor at column c of line l.
Stands(ls, l, c) ==
  /\ ls \in Seq(Line)
  /\ l \in 0 .. Len(ls) - 1
  /\ c \in 0 .. Len(ls[l + 1])

IInv == Stands(lines, line, col)

LEMMA LinesTyped ==
  ASSUME NEW ls, NEW l, NEW c, Stands(ls, l, c)
  PROVE  /\ Len(ls) \in Nat /\ l \in Nat /\ l + 1 \in 1 .. Len(ls)
         /\ ls[l + 1] \in Line /\ Len(ls[l + 1]) \in Nat /\ c \in Nat
         /\ \A j \in 1 .. Len(ls) : ls[j] \in Line /\ Len(ls[j]) \in Nat
<1>1. Len(ls) \in Nat /\ ls \in [1 .. Len(ls) -> Line]
  BY LenProperties DEF Stands
<1>2. l \in Nat /\ l + 1 \in 1 .. Len(ls)
  BY <1>1 DEF Stands
<1>3. \A j \in 1 .. Len(ls) : ls[j] \in Line /\ Len(ls[j]) \in Nat
  BY <1>1, LenProperties DEF Line
<1> QED
  BY <1>1, <1>2, <1>3 DEF Stands

\* A part of a line is one.
LEMMA Part ==
  ASSUME NEW s \in Line, NEW m \in 1 .. Len(s) + 1, NEW n \in 0 .. Len(s), m <= n + 1
  PROVE  SubSeq(s, m, n) \in Line /\ Len(SubSeq(s, m, n)) = n - m + 1
<1>1. Len(s) \in Nat /\ s \in [1 .. Len(s) -> Char \ {NewLine}]
  BY LenProperties DEF Line
<1>2. m \in Int /\ n \in Int /\ \A i \in m .. n : s[i] \in Char \ {NewLine}
  BY <1>1
<1> QED
  BY <1>2, SubSeqProperties DEF Line

LEMMA Joint ==
  ASSUME NEW s \in Line, NEW t \in Line
  PROVE  s \o t \in Line /\ Len(s \o t) = Len(s) + Len(t)
BY ConcatProperties DEF Line

\* The current line, cut at the cursor.
LEMMA CutAtCursor ==
  ASSUME IInv
  PROVE  /\ Before \in Line /\ Len(Before) = col
         /\ After \in Line /\ Len(After) = Len(Cur) - col
         /\ Cur \in Line /\ Len(Cur) \in Nat /\ col \in 0 .. Len(Cur)
<1>1. Cur \in Line /\ Len(Cur) \in Nat /\ col \in 0 .. Len(Cur)
  BY LinesTyped DEF IInv, Stands, Cur
<1>2. Before \in Line /\ Len(Before) = col
  <2>1. 1 \in 1 .. Len(Cur) + 1 /\ 1 <= col + 1 /\ col - 1 + 1 = col
    BY <1>1
  <2> QED
    BY <1>1, <2>1, Part DEF Before
<1>3. After \in Line /\ Len(After) = Len(Cur) - col
  <2>1. /\ col + 1 \in 1 .. Len(Cur) + 1 /\ Len(Cur) \in 0 .. Len(Cur)
        /\ col + 1 <= Len(Cur) + 1 /\ Len(Cur) - (col + 1) + 1 = Len(Cur) - col
    BY <1>1
  <2> QED
    BY <1>1, <2>1, Part DEF After
<1> QED
  BY <1>1, <1>2, <1>3

\* A line is replaced by another, of which the cursor has its column.
LEMMA Replaced ==
  ASSUME IInv, NEW l, l = line, NEW s \in Line, NEW ls, ls = [lines EXCEPT ![l + 1] = s],
         NEW c \in 0 .. Len(s)
  PROVE  Stands(ls, l, c)
<1>1. /\ lines \in Seq(Line) /\ l + 1 \in 1 .. Len(lines)
      /\ l \in 0 .. Len(lines) - 1
  BY LinesTyped DEF IInv, Stands
<1>2. ls \in Seq(Line) /\ Len(ls) = Len(lines) /\ ls[l + 1] = s
  BY <1>1, ExceptSeq
<1> QED
  BY <1>1, <1>2 DEF Stands

LEMMA EnterInv ==
  ASSUME IInv, NEW k, Enter(k)
  PROVE  IInv'
<1>1. PICK l, n, b, a : l = line /\ n = Len(lines) /\ b = Before /\ a = After
  OBVIOUS
<1>2. /\ lines \in Seq(Line) /\ n \in Nat /\ l \in Nat /\ l + 1 \in 1 .. n
      /\ lines \in [1 .. n -> Line] /\ b \in Line /\ a \in Line /\ Len(a) \in Nat
  BY <1>1, LinesTyped, CutAtCursor, LenProperties DEF IInv, Stands, Line
<1>3. PICK top, two, rest :
        top = SubSeq(lines, 1, l) /\ two = <<b, a>> /\ rest = SubSeq(lines, l + 2, n)
  OBVIOUS
<1>4. top \in Seq(Line) /\ Len(top) = l
  <2>1. 1 \in Int /\ l \in Int /\ \A i \in 1 .. l : lines[i] \in Line
    BY <1>2
  <2>2. top \in Seq(Line) /\ Len(top) = IF 1 <= l THEN l - 1 + 1 ELSE 0
    BY <1>3, <2>1, SubSeqProperties
  <2> QED
    BY <1>2, <2>2
<1>5. two \in Seq(Line) /\ Len(two) = 2 /\ two[2] = a
  BY <1>2, <1>3
<1>6. rest \in Seq(Line) /\ Len(rest) \in Nat
  <2>1. l + 2 \in Int /\ n \in Int /\ \A i \in l + 2 .. n : lines[i] \in Line
    BY <1>2
  <2> QED
    BY <1>3, <2>1, SubSeqProperties, LenProperties
<1>7. PICK up : up = top \o two
  OBVIOUS
<1>8. up \in Seq(Line) /\ Len(up) = l + 2 /\ up[l + 2] = a
  <2>1. /\ up \in Seq(Line) /\ Len(up) = Len(top) + Len(two)
        /\ \A i \in 1 .. Len(top) + Len(two) :
             up[i] = IF i <= Len(top) THEN top[i] ELSE two[i - Len(top)]
    BY <1>4, <1>5, <1>7, ConcatProperties
  <2>2. l + 2 \in 1 .. l + 2 /\ ~(l + 2 <= l) /\ l + 2 - l = 2
    BY <1>2
  <2> QED
    BY <1>4, <1>5, <2>1, <2>2
<1>9. PICK ls : ls = up \o rest
  OBVIOUS
<1>10. ls \in Seq(Line) /\ Len(ls) = l + 2 + Len(rest) /\ ls[l + 2] = a
  <2>1. /\ ls \in Seq(Line) /\ Len(ls) = Len(up) + Len(rest)
        /\ \A i \in 1 .. Len(up) + Len(rest) :
             ls[i] = IF i <= Len(up) THEN up[i] ELSE rest[i - Len(up)]
    BY <1>6, <1>8, <1>9, ConcatProperties
  <2>2. l + 2 \in 1 .. l + 2 + Len(rest) /\ l + 2 <= l + 2
    BY <1>2, <1>6
  <2> QED
    BY <1>8, <2>1, <2>2
<1>11. Stands(ls, l + 1, 0)
  <2>1. l + 1 \in 0 .. Len(ls) - 1 /\ l + 1 + 1 = l + 2
    BY <1>2, <1>6, <1>10
  <2> QED
    BY <1>2, <1>10, <2>1 DEF Stands
<1>12. lines' = ls /\ line' = l + 1 /\ col' = 0
  BY <1>1, <1>3, <1>7, <1>9 DEF Enter
<1> QED
  BY <1>11, <1>12 DEF IInv

\* A member is removed.
LEMMA Removed ==
  ASSUME NEW S, NEW s \in Seq(S), NEW i \in 1 .. Len(s), NEW t, t = RemoveAt(s, i)
  PROVE  /\ t \in Seq(S) /\ Len(t) = Len(s) - 1
         /\ \A j \in 1 .. i - 1 : t[j] = s[j]
<1>1. PICK n : n = Len(s)
  OBVIOUS
<1>2. n \in Nat /\ s \in [1 .. n -> S]
  BY <1>1, LenProperties
<1>3. PICK a, b : a = SubSeq(s, 1, i - 1) /\ b = SubSeq(s, i + 1, n)
  OBVIOUS
<1>4. a \in Seq(S) /\ Len(a) = i - 1 /\ \A j \in 1 .. i - 1 : a[j] = s[j]
  <2>1. /\ 1 \in Int /\ i - 1 \in Int /\ \A j \in 1 .. i - 1 : s[j] \in S
        /\ i - 1 - 1 + 1 = i - 1
    BY <1>1, <1>2
  <2>2. /\ a \in Seq(S) /\ Len(a) = IF 1 <= i - 1 THEN i - 1 - 1 + 1 ELSE 0
        /\ \A j \in 1 .. i - 1 - 1 + 1 : a[j] = s[1 + j - 1]
    BY <1>3, <2>1, SubSeqProperties
  <2>3. \A j \in 1 .. i - 1 : 1 + j - 1 = j
    OBVIOUS
  <2> QED
    BY <1>1, <1>2, <2>1, <2>2, <2>3
<1>5. b \in Seq(S) /\ Len(b) = n - i
  <2>1. i + 1 \in Int /\ n \in Int /\ \A j \in i + 1 .. n : s[j] \in S
    BY <1>1, <1>2
  <2>2. b \in Seq(S) /\ Len(b) = IF i + 1 <= n THEN n - (i + 1) + 1 ELSE 0
    BY <1>3, <2>1, SubSeqProperties
  <2> QED
    BY <1>1, <1>2, <2>2
<1>6. t = a \o b
  BY <1>1, <1>3 DEF RemoveAt
<1>7. /\ t \in Seq(S) /\ Len(t) = Len(a) + Len(b)
      /\ \A j \in 1 .. Len(a) + Len(b) :
           t[j] = IF j <= Len(a) THEN a[j] ELSE b[j - Len(a)]
  BY <1>4, <1>5, <1>6, ConcatProperties
<1>8. \A j \in 1 .. i - 1 : j \in 1 .. Len(a) + Len(b) /\ j <= Len(a)
  BY <1>1, <1>2, <1>4, <1>5
<1>9. Len(a) + Len(b) = Len(s) - 1
  BY <1>1, <1>2, <1>4, <1>5
<1>10. \A j \in 1 .. i - 1 : t[j] = a[j]
  BY <1>7, <1>8
<1> QED
  BY <1>4, <1>7, <1>9, <1>10

LEMMA BackspaceInv ==
  ASSUME IInv, NEW k, Backspace(k)
  PROVE  IInv'
<1>1. PICK l, n, c : l = line /\ n = Len(lines) /\ c = col
  OBVIOUS
<1>2. /\ lines \in Seq(Line) /\ n \in Nat /\ l \in Nat /\ l + 1 \in 1 .. n
      /\ lines \in [1 .. n -> Line] /\ Cur = lines[l + 1]
      /\ Cur \in Line /\ Len(Cur) \in Nat /\ c \in 0 .. Len(Cur)
  BY <1>1, LinesTyped, CutAtCursor, LenProperties DEF IInv, Stands, Cur
<1>3. CASE c > 0
  <2>1. lines' = [lines EXCEPT ![l + 1] = RemoveAt(Cur, c)] /\ line' = l /\ col' = c - 1
    BY <1>1, <1>2, <1>3 DEF Backspace
  <2>2. PICK s : s = RemoveAt(Cur, c)
    OBVIOUS
  <2>3. s \in Line /\ Len(s) = Len(Cur) - 1
    BY <1>2, <1>3, <2>2, Removed DEF Line
  <2>4. c - 1 \in 0 .. Len(s)
    BY <1>2, <1>3, <2>3
  <2>5. PICK ls : ls = [lines EXCEPT ![l + 1] = s]
    OBVIOUS
  <2>6. Stands(ls, l, c - 1)
    BY <1>1, <2>3, <2>4, <2>5, Replaced
  <2> QED
    BY <2>1, <2>2, <2>5, <2>6 DEF IInv
<1>4. CASE ~(c > 0)
  <2>1. /\ l > 0
        /\ lines' = RemoveAt([lines EXCEPT ![l] = lines[l] \o Cur], l + 1)
        /\ line' = l - 1 /\ col' = Len(lines[l])
    BY <1>1, <1>4 DEF Backspace
  <2>2. l \in 1 .. n /\ lines[l] \in Line /\ Len(lines[l]) \in Nat
    BY <1>1, <1>2, <2>1, LinesTyped DEF IInv
  <2>3. PICK s : s = lines[l] \o Cur
    OBVIOUS
  <2>4. s \in Line /\ Len(s) = Len(lines[l]) + Len(Cur)
    BY <1>2, <2>2, <2>3, Joint
  <2>5. PICK ls : ls = [lines EXCEPT ![l] = s]
    OBVIOUS
  <2>6. ls \in Seq(Line) /\ Len(ls) = n /\ ls[l] = s
    BY <1>1, <1>2, <2>2, <2>4, <2>5, ExceptSeq
  <2>7. PICK t : t = RemoveAt(ls, l + 1)
    OBVIOUS
  <2>8. /\ t \in Seq(Line) /\ Len(t) = n - 1
        /\ \A j \in 1 .. l + 1 - 1 : t[j] = ls[j]
    BY <1>2, <2>6, <2>7, Removed
  <2>9. t[l] = s
    BY <1>2, <2>2, <2>6, <2>8
  <2>10. Stands(t, l - 1, Len(lines[l]))
    <3>1. l - 1 \in 0 .. Len(t) - 1 /\ l - 1 + 1 = l
      BY <1>2, <2>2, <2>8
    <3>2. Len(lines[l]) \in 0 .. Len(t[l])
      BY <1>2, <2>2, <2>4, <2>9
    <3> QED
      BY <2>8, <3>1, <3>2 DEF Stands
  <2> QED
    BY <2>1, <2>3, <2>5, <2>7, <2>10 DEF IInv
<1> QED
  BY <1>3, <1>4

LEMMA TypeInv ==
  ASSUME IInv, NEW k, Type(k)
  PROVE  IInv'
<1>1. PICK l, c, b, a : l = line /\ c = col /\ b = Before /\ a = After
  OBVIOUS
<1>2. /\ b \in Line /\ Len(b) = c /\ a \in Line /\ Len(a) \in Nat /\ c \in Nat
  BY <1>1, CutAtCursor, LenProperties DEF Line
<1>3. /\ k \in Printable /\ line' = l /\ col' = c + 1
      /\ lines' = [lines EXCEPT ![l + 1] = b \o <<k>> \o a]
  BY <1>1 DEF Type
<1>4. PICK one : one = <<k>>
  OBVIOUS
<1>5. one \in Line /\ Len(one) = 1
  BY <1>3, <1>4 DEF Line, Printable, Char, NewLine
<1>6. PICK d, s : d = b \o one /\ s = d \o a
  OBVIOUS
<1>7. d \in Line /\ Len(d) = c + 1
  BY <1>2, <1>5, <1>6, Joint, ZenonT(60)
<1>8. s \in Line /\ Len(s) = c + 1 + Len(a)
  BY <1>2, <1>6, <1>7, Joint
<1>9. c + 1 \in 0 .. Len(s)
  BY <1>2, <1>8
<1>10. PICK ls : ls = [lines EXCEPT ![l + 1] = s]
  OBVIOUS
<1>11. Stands(ls, l, c + 1)
  BY <1>1, <1>8, <1>9, <1>10, Replaced
<1> QED
  BY <1>3, <1>4, <1>6, <1>10, <1>11 DEF IInv

LEMMA ArrowInv ==
  ASSUME IInv, NEW k, Arrow(k)
  PROVE  IInv'
<1>1. PICK key, l, c : key = Append(prefix, k) /\ l = line /\ c = col
  OBVIOUS
<1>2. /\ lines \in Seq(Line) /\ Len(lines) \in Nat /\ l \in Nat
      /\ l \in 0 .. Len(lines) - 1 /\ c \in 0 .. Len(lines[l + 1])
      /\ \A j \in 1 .. Len(lines) : Len(lines[j]) \in Nat
  BY <1>1, LinesTyped DEF IInv, Stands
<1>3. Len(Cur) = Len(lines[l + 1]) /\ Len(Cur) \in Nat
  BY <1>1, <1>2 DEF Cur
<1>4. lines' = lines /\ line' = Target(key)[1] /\ col' = Target(key)[2]
  BY <1>1 DEF Arrow
<1>5. PICK at : at = Target(key)
  OBVIOUS
<1>6. \/ l > 0 /\ at = <<l - 1, Len(lines[l - 1 + 1])>>
      \/ l < Len(lines) - 1 /\ at = <<l + 1, Len(lines[l + 1 + 1])>>
      \/ c < Len(Cur) /\ at = <<l, c + 1>>
      \/ c > 0 /\ at = <<l, c - 1>>
      \/ at = <<l, c>>
  BY <1>1, <1>5 DEF Target, EndOf
<1>7. Stands(lines, at[1], at[2])
  <2>1. CASE l > 0 /\ at = <<l - 1, Len(lines[l - 1 + 1])>>
    BY <1>2, <2>1 DEF Stands
  <2>2. CASE l < Len(lines) - 1 /\ at = <<l + 1, Len(lines[l + 1 + 1])>>
    BY <1>2, <2>2 DEF Stands
  <2>3. CASE c < Len(Cur) /\ at = <<l, c + 1>>
    BY <1>2, <1>3, <2>3 DEF Stands
  <2>4. CASE c > 0 /\ at = <<l, c - 1>>
    BY <1>2, <2>4 DEF Stands
  <2>5. CASE at = <<l, c>>
    BY <1>2, <2>5 DEF Stands
  <2> QED
    BY <1>6, <2>1, <2>2, <2>3, <2>4, <2>5
<1> QED
  BY <1>4, <1>5, <1>7 DEF IInv

-----------------------------------------------------------------------------
(***************************************************************************)
(* The theorem.                                                            *)
(***************************************************************************)

LEMMA InitInv == Init => IInv
<1> SUFFICES ASSUME Init PROVE IInv
  OBVIOUS
<1>1. lines \in Seq(Line) /\ Len(lines) >= 1
  <2>1. CASE existing = <<>>
    <3>1. lines = << <<>> >> /\ <<>> \in Line
      BY <2>1 DEF Init, Line
    <3> QED
      BY <3>1
  <2>2. CASE existing # <<>>
    <3>1. existing \in Seq(Char) /\ lines = Split(existing)
      BY <2>2, EditorAssumption DEF Init
    <3> QED
      BY <2>2, <3>1, SplitLines
  <2> QED
    BY <2>1, <2>2
<1>2. Len(lines) \in Nat /\ lines \in [1 .. Len(lines) -> Line]
  BY <1>1, LenProperties
<1>3. line = Len(lines) - 1 /\ col = Len(lines[line + 1])
  BY DEF Init, Cur
<1>4. line \in 0 .. Len(lines) - 1 /\ line + 1 \in 1 .. Len(lines)
  BY <1>1, <1>2, <1>3
<1>5. Len(lines[line + 1]) \in Nat
  BY <1>2, <1>4, LenProperties DEF Line
<1> QED
  BY <1>1, <1>3, <1>4, <1>5 DEF IInv, Stands

LEMMA NextInv == IInv /\ [Next]_vars => IInv'
<1> SUFFICES ASSUME IInv, [Next]_vars PROVE IInv'
  OBVIOUS
<1>1. ASSUME lines' = lines, line' = line, col' = col PROVE IInv'
  BY <1>1 DEF IInv
<1>2. ASSUME NEW k \in Keys, Press(k) PROVE IInv'
  <2>1. CASE Prefix(k) \/ Finish(k) \/ Ignored(k)
    BY <1>1, <2>1 DEF Prefix, Finish, Ignored
  <2> QED
    BY <1>2, <2>1, ArrowInv, EnterInv, BackspaceInv, TypeInv DEF Press
<1>3. CASE UNCHANGED vars
  BY <1>1, <1>3 DEF vars
<1> QED
  BY <1>2, <1>3 DEF Next

\* The cursor stands in a line that exists, at a column it has, after whatever
\* keys, in whatever text the editor was opened with: what Editor::run() takes for
\* granted when it inserts, erases and cuts lines at the cursor.
THEOREM CursorStays == Spec => []CursorInText
<1>1. IInv => CursorInText
  <2> SUFFICES ASSUME IInv PROVE CursorInText
    OBVIOUS
  <2>1. line \in 0 .. Len(lines) - 1 /\ col \in 0 .. Len(Cur)
    BY DEF IInv, Stands, Cur
  <2>2. ASSUME NEW l \in DOMAIN lines, NEW k \in DOMAIN lines[l]
        PROVE  lines[l][k] \in Char \ {NewLine}
    <3>1. lines \in Seq(Line)
      BY DEF IInv, Stands
    <3>2. lines[l] \in Line
      BY <3>1, LenProperties
    <3>3. lines[l] \in [1 .. Len(lines[l]) -> Char \ {NewLine}]
      BY <3>2, LenProperties DEF Line
    <3> QED
      BY <3>3
  <2> QED
    BY <2>1, <2>2 DEF CursorInText
<1> QED
  BY <1>1, InitInv, NextInv, PTL DEF Spec

-----------------------------------------------------------------------------
(***************************************************************************)
(* Loops over numbers.                                                     *)
(***************************************************************************)

\* What holds at first and is kept by every turn of a loop holds after each.
LEMMA Rise ==
  ASSUME NEW n \in Nat, NEW T, 0 \in T, \A k \in 0 .. n - 1 : k \in T => k + 1 \in T
  PROVE  0 .. n \subseteq T
<1> DEFINE U == {k \in 0 .. n : k \notin T}
<1>1. SUFFICES ASSUME U # {} PROVE FALSE
  OBVIOUS
<1>2. U \in SUBSET Nat
  OBVIOUS
<1>3. IsWellFoundedOn(OpToRel(<, Nat), Nat)
  BY NatLessThanWellFounded
<1>4. PICK k \in U : \A y \in U : ~(<<y, k>> \in OpToRel(<, Nat))
  BY <1>1, <1>2, <1>3, WFMin
<1>5. \A y \in U : ~(y < k)
  <2> HIDE DEF U
  <2>1. \A y \in U : y \in Nat /\ k \in Nat
    BY <1>2, <1>4
  <2> QED
    BY <1>4, <2>1 DEF OpToRel
<1>6. k \in 0 .. n /\ k \notin T
  BY <1>4
<1>7. k # 0 /\ k - 1 \in 0 .. n - 1 /\ k - 1 + 1 = k /\ k - 1 \in 0 .. n /\ k - 1 < k
  BY <1>6
<1>8. k - 1 \in T
  BY <1>5, <1>7
<1> QED
  BY <1>7, <1>8, <1>6

\* f holds the values of a loop from a: before each of n turns and after the last.
Turns(n, V, a, step, f) ==
  f \in [0 .. n -> V] /\ f[0] = a /\ \A k \in 1 .. n : f[k] = step[k][f[k - 1]]

\* A loop that goes on from any value in V to one in V can take any number of turns.
LEMMA Loop ==
  ASSUME NEW n \in Nat, NEW V, NEW a \in V, NEW step,
         \A k \in 1 .. n : \A s \in V : step[k][s] \in V
  PROVE  \E f : Turns(n, V, a, step, f)
<1> DEFINE T == {m \in 0 .. n : \E f : Turns(m, V, a, step, f)}
<1>1. 0 \in T
  <2>1. PICK f : f = [i \in 0 .. 0 |-> a]
    OBVIOUS
  <2>2. f \in [0 .. 0 -> V] /\ f[0] = a /\ \A k \in 1 .. 0 : FALSE
    BY <2>1
  <2> QED
    BY <2>2 DEF Turns
<1>2. ASSUME NEW m \in 0 .. n - 1, m \in T PROVE m + 1 \in T
  <2>1. PICK f : Turns(m, V, a, step, f)
    BY <1>2
  <2>2. PICK g : g = [i \in 0 .. m + 1 |-> IF i <= m THEN f[i] ELSE step[m + 1][f[m]]]
    OBVIOUS
  <2>3. m + 1 \in 1 .. n /\ f[m] \in V /\ step[m + 1][f[m]] \in V
    BY <2>1 DEF Turns
  <2>4. g \in [0 .. m + 1 -> V]
    BY <2>1, <2>2, <2>3 DEF Turns
  <2>5. g[0] = a
    BY <2>1, <2>2 DEF Turns
  <2>6. ASSUME NEW k \in 1 .. m + 1 PROVE g[k] = step[k][g[k - 1]]
    <3>1. k - 1 \in 0 .. m /\ k - 1 \in 0 .. m + 1 /\ g[k - 1] = f[k - 1]
      BY <2>2
    <3>2. CASE k <= m
      <4>1. k \in 1 .. m /\ g[k] = f[k]
        BY <2>2, <3>2
      <4> QED
        BY <2>1, <3>1, <4>1 DEF Turns
    <3>3. CASE ~(k <= m)
      <4>1. k = m + 1 /\ k - 1 = m /\ g[k] = step[m + 1][f[m]]
        BY <2>2, <3>3
      <4> QED
        BY <3>1, <4>1
    <3> QED
      BY <3>2, <3>3
  <2>7. Turns(m + 1, V, a, step, g)
    BY <2>4, <2>5, <2>6 DEF Turns
  <2> QED
    BY <2>3, <2>7
<1>3. n \in T
  <2> HIDE DEF T
  <2>1. 0 .. n \subseteq T
    BY <1>1, <1>2, Rise
  <2> QED
    BY <2>1
<1> QED
  BY <1>3

-----------------------------------------------------------------------------
(***************************************************************************)
(* Lines with their newlines.                                              *)
(***************************************************************************)

Bytes == Seq(Char)

LEMMA LineBytes ==
  ASSUME NEW s \in Line
  PROVE  /\ s \in Bytes /\ Append(s, NewLine) \in Bytes
         /\ Len(s) \in Nat /\ Len(Append(s, NewLine)) = Len(s) + 1
         /\ Append(s, NewLine)[Len(s) + 1] = NewLine
         /\ \A i \in 1 .. Len(s) : s[i] \in Char /\ s[i] # NewLine /\ Append(s, NewLine)[i] = s[i]
<1>1. NewLine \in Char
  BY DEF NewLine, Char
<1>2. s \in Seq(Char \ {NewLine}) /\ s \in Seq(Char)
  BY DEF Line
<1>3. PICK t : t = Append(s, NewLine)
  OBVIOUS
<1>4. /\ t \in Seq(Char) /\ Len(t) = Len(s) + 1 /\ t[Len(s) + 1] = NewLine
      /\ \A i \in 1 .. Len(s) : t[i] = s[i]
  BY <1>1, <1>2, <1>3
<1> QED
  BY <1>2, <1>3, <1>4 DEF Bytes

\* f holds the text of the first lines: of none, of one, and so on.
Grows(ls, f) ==
  /\ f \in [0 .. Len(ls) -> Bytes]
  /\ f[0] = <<>>
  /\ \A k \in 1 .. Len(ls) : f[k] = f[k - 1] \o Append(ls[k], NewLine)

LEMMA TerminatedValue ==
  ASSUME NEW ls \in Seq(Line)
  PROVE  \E f : Grows(ls, f) /\ Terminated(ls) = f[Len(ls)]
<1>1. PICK n \in Nat : n = Len(ls)
  OBVIOUS
<1>2. PICK add : add = [k \in 1 .. n |-> Append(ls[k], NewLine)]
  OBVIOUS
<1>3. \A k \in 1 .. n : add[k] = Append(ls[k], NewLine) /\ add[k] \in Bytes
  <2> TAKE k \in 1 .. n
  <2>1. ls[k] \in Line
    BY <1>1
  <2> QED
    BY <1>2, <2>1, LineBytes
<1>4. PICK step : step = [k \in 1 .. n |-> [s \in Bytes |-> s \o add[k]]]
  OBVIOUS
<1>5. \A k \in 1 .. n : \A s \in Bytes : step[k][s] = s \o add[k] /\ step[k][s] \in Bytes
  BY <1>3, <1>4 DEF Bytes
<1>6. PICK none : none = <<>> /\ none \in Bytes
  <2>1. <<>> \in Seq(Char)
    OBVIOUS
  <2> QED
    BY <2>1 DEF Bytes
<1>7. PICK g : Turns(n, Bytes, none, step, g)
  BY <1>5, <1>6, Loop
<1>8. g[0] = none /\ \A k \in 1 .. n : g[k] = g[k - 1] \o Append(ls[k], NewLine)
  <2>1. \A k \in 1 .. n : k - 1 \in 0 .. n
    BY <1>1
  <2>2. \A k \in 1 .. n : g[k] = step[k][g[k - 1]] /\ g[k - 1] \in Bytes
    BY <1>7, <2>1 DEF Turns
  <2>3. \A k \in 1 .. n : g[k] = g[k - 1] \o add[k]
    BY <1>5, <2>2
  <2>4. g[0] = none
    BY <1>7 DEF Turns
  <2> QED
    BY <1>3, <2>3, <2>4
<1>9. g = [k \in 0 .. n |-> IF k = 0 THEN none ELSE g[k - 1] \o Append(ls[k], NewLine)]
  <2>1. \A k \in 0 .. n : k = 0 \/ k \in 1 .. n
    BY <1>1
  <2>2. \A k \in 0 .. n : g[k] = IF k = 0 THEN none ELSE g[k - 1] \o Append(ls[k], NewLine)
    BY <1>8, <2>1
  <2>3. g = [k \in 0 .. n |-> g[k]]
    BY <1>7 DEF Turns
  <2> QED
    BY <2>2, <2>3
<1> DEFINE text[k \in 0 .. Len(ls)] ==
             IF k = 0 THEN <<>> ELSE text[k - 1] \o Append(ls[k], NewLine)
<1>10. Terminated(ls) = text[Len(ls)]
  BY DEF Terminated
<1>11. text = [k \in 0 .. n |-> IF k = 0 THEN none ELSE text[k - 1] \o Append(ls[k], NewLine)]
  BY <1>1, <1>6, <1>9
<1> HIDE DEF text
<1>12. text[0] = none /\ \A k \in 1 .. n : text[k] = text[k - 1] \o Append(ls[k], NewLine)
  <2>1. 0 \in 0 .. n /\ \A k \in 1 .. n : k \in 0 .. n /\ k # 0
    BY <1>1
  <2> QED
    BY <1>11, <2>1
<1> DEFINE T == {k \in 0 .. n : text[k] = g[k]}
<1>13. 0 \in T
  BY <1>1, <1>8, <1>12
<1>14. ASSUME NEW k \in 0 .. n - 1, k \in T PROVE k + 1 \in T
  <2>1. PICK j \in 1 .. n : j = k + 1 /\ j - 1 = k /\ j \in 0 .. n
    BY <1>1
  <2>2. text[k] = g[k]
    BY <1>14
  <2>3. text[j] = text[k] \o Append(ls[j], NewLine) /\ g[j] = g[k] \o Append(ls[j], NewLine)
    BY <1>8, <1>12, <2>1
  <2> QED
    BY <2>1, <2>2, <2>3
<1>15. text[n] = g[n]
  <2> HIDE DEF T
  <2>1. 0 .. n \subseteq T
    BY <1>1, <1>13, <1>14, Rise
  <2>2. n \in T
    BY <1>1, <2>1
  <2> QED
    BY <2>2 DEF T
<1>16. Grows(ls, g)
  BY <1>1, <1>6, <1>7, <1>8 DEF Grows, Turns
<1> QED
  BY <1>1, <1>10, <1>15, <1>16

\* There is one text of the first lines.
LEMMA GrowsOnly ==
  ASSUME NEW ls \in Seq(Line), NEW ms \in Seq(Line), NEW f, NEW g, Grows(ls, f), Grows(ms, g),
         NEW k \in Nat, k <= Len(ls), k <= Len(ms), \A i \in 1 .. k : ls[i] = ms[i]
  PROVE  f[k] = g[k]
<1> DEFINE T == {j \in 0 .. k : f[j] = g[j]}
<1>1. 0 \in T
  BY DEF Grows
<1>2. ASSUME NEW j \in 0 .. k - 1, j \in T PROVE j + 1 \in T
  <2>1. PICK i : i = j + 1 /\ i - 1 = j /\ i \in 1 .. k /\ i \in 1 .. Len(ls) /\ i \in 1 .. Len(ms)
    OBVIOUS
  <2>2. f[i] = f[j] \o Append(ls[i], NewLine) /\ g[i] = g[j] \o Append(ms[i], NewLine)
    BY <2>1 DEF Grows
  <2>3. f[j] = g[j] /\ ls[i] = ms[i] /\ j + 1 \in 0 .. k
    BY <1>2, <2>1
  <2> QED
    BY <2>1, <2>2, <2>3
<1>3. k \in T
  <2> HIDE DEF T
  <2>1. 0 .. k \subseteq T
    BY <1>1, <1>2, Rise
  <2> QED
    BY <2>1
<1> QED
  BY <1>3

\* No line, and one line more.
LEMMA TerminatedStep ==
  ASSUME NEW ls \in Seq(Line), NEW s \in Line
  PROVE  /\ Terminated(<<>>) = <<>>
         /\ Terminated(ls) \in Bytes
         /\ Append(ls, s) \in Seq(Line)
         /\ Terminated(Append(ls, s)) = Terminated(ls) \o Append(s, NewLine)
<1>1. Terminated(<<>>) = <<>>
  <2>1. PICK none : none = <<>>
    OBVIOUS
  <2>2. none \in Seq(Line) /\ Len(none) = 0
    BY <2>1
  <2>3. PICK f : Grows(none, f) /\ Terminated(none) = f[Len(none)]
    BY <2>2, TerminatedValue
  <2> QED
    BY <2>1, <2>2, <2>3 DEF Grows
<1>2. PICK n \in Nat : n = Len(ls)
  OBVIOUS
<1>3. PICK ms : ms = Append(ls, s)
  OBVIOUS
<1>4. ms \in Seq(Line) /\ Len(ms) = n + 1 /\ ms[n + 1] = s /\ \A i \in 1 .. n : ms[i] = ls[i]
  BY <1>2, <1>3
<1>5. PICK f : Grows(ls, f) /\ Terminated(ls) = f[n]
  BY <1>2, TerminatedValue
<1>6. PICK g : Grows(ms, g) /\ Terminated(ms) = g[n + 1]
  BY <1>4, TerminatedValue
<1>7. f[n] = g[n] /\ f[n] \in Bytes
  <2>1. n <= Len(ls) /\ n <= Len(ms) /\ n \in 0 .. Len(ls)
    BY <1>2, <1>4
  <2>2. f[n] = g[n]
    BY <1>4, <1>5, <1>6, <2>1, GrowsOnly
  <2> QED
    BY <1>5, <2>1, <2>2 DEF Grows
<1>8. g[n + 1] = g[n] \o Append(s, NewLine)
  <2>1. PICK j \in 1 .. Len(ms) : j = n + 1 /\ j - 1 = n
    BY <1>4
  <2>2. g[j] = g[j - 1] \o Append(ms[j], NewLine)
    BY <1>6 DEF Grows
  <2> QED
    BY <1>4, <2>1, <2>2
<1> QED
  BY <1>1, <1>3, <1>4, <1>5, <1>6, <1>7, <1>8

\* Lines and more lines.
LEMMA TerminatedJoin ==
  ASSUME NEW ls \in Seq(Line), NEW ms \in Seq(Line)
  PROVE  /\ ls \o ms \in Seq(Line)
         /\ Terminated(ls \o ms) = Terminated(ls) \o Terminated(ms)
<1>1. PICK n \in Nat : n = Len(ms)
  OBVIOUS
<1>2. PICK part : part = [k \in 0 .. n |-> SubSeq(ms, 1, k)]
  OBVIOUS
<1>3. \A k \in 0 .. n : part[k] \in Seq(Line) /\ Len(part[k]) = k
                        /\ \A i \in 1 .. k : part[k][i] = ms[i]
  <2> TAKE k \in 0 .. n
  <2>1. part[k] = SubSeq(ms, 1, k)
    BY <1>2
  <2> QED
    BY <1>1, <2>1
<1>4. part[0] = <<>> /\ part[n] = ms
  <2>1. PICK a, b : a = part[0] /\ b = part[n]
    OBVIOUS
  <2>2. 0 \in 0 .. n /\ n \in 0 .. n
    BY <1>1
  <2>3. a = <<>>
    BY <1>3, <2>1, <2>2, EmptySeq
  <2>4. b = ms
    BY <1>1, <1>3, <2>1, <2>2, SeqEqual
  <2> QED
    BY <2>1, <2>3, <2>4
<1>5. ASSUME NEW k \in 0 .. n - 1
      PROVE  ms[k + 1] \in Line /\ part[k + 1] = Append(part[k], ms[k + 1])
  <2>1. k \in 0 .. n /\ k + 1 \in 0 .. n /\ k + 1 \in 1 .. n
    BY <1>1
  <2>2. ms[k + 1] \in Line
    BY <1>1, <2>1
  <2>3. PICK a, b, c : a = part[k] /\ b = part[k + 1] /\ c = Append(a, ms[k + 1])
    OBVIOUS
  <2>4. /\ a \in Seq(Line) /\ Len(a) = k /\ \A i \in 1 .. k : a[i] = ms[i]
        /\ b \in Seq(Line) /\ Len(b) = k + 1 /\ \A i \in 1 .. k + 1 : b[i] = ms[i]
    BY <1>3, <2>1, <2>3
  <2>5. c \in Seq(Line) /\ Len(c) = k + 1 /\ \A i \in 1 .. k + 1 : c[i] = ms[i]
    BY <2>2, <2>3, <2>4
  <2>6. b = c
    BY <2>4, <2>5, SeqEqual
  <2> QED
    BY <2>2, <2>3, <2>6
<1> DEFINE T == {k \in 0 .. n : /\ ls \o part[k] \in Seq(Line)
                                /\ Terminated(ls \o part[k]) = Terminated(ls) \o Terminated(part[k])}
<1>6. 0 \in T
  <2>1. ls \o part[0] = ls
    BY <1>4, ConcatEmptySeq
  <2>2. Terminated(ls) \in Seq(Char) /\ Terminated(part[0]) = <<>>
    <3>1. PICK s \in Line : s = <<>>
      <4>1. <<>> \in Line
        BY DEF Line
      <4> QED
        BY <4>1
    <3> QED
      BY <1>4, <3>1, TerminatedStep DEF Bytes
  <2>3. Terminated(ls) \o <<>> = Terminated(ls)
    BY <2>2, ConcatEmptySeq
  <2>4. ls \o part[0] \in Seq(Line) /\ 0 \in 0 .. n
    BY <1>1, <2>1
  <2>5. Terminated(ls \o part[0]) = Terminated(ls) \o Terminated(part[0])
    BY <2>1, <2>2, <2>3
  <2> QED
    BY <2>4, <2>5
<1>7. ASSUME NEW k \in 0 .. n - 1, k \in T PROVE k + 1 \in T
  <2>1. PICK p, s, q : p = part[k] /\ s = ms[k + 1] /\ q = part[k + 1]
    OBVIOUS
  <2>2. p \in Seq(Line) /\ s \in Line /\ q = Append(p, s) /\ k + 1 \in 0 .. n
    <3>1. k \in 0 .. n /\ k + 1 \in 0 .. n
      BY <1>1
    <3> QED
      BY <1>3, <1>5, <2>1, <3>1
  <2>3. PICK u : u = ls \o p
    OBVIOUS
  <2>4. u \in Seq(Line) /\ Terminated(u) = Terminated(ls) \o Terminated(p)
    BY <1>7, <2>1, <2>3
  <2>5. ls \o q = Append(u, s)
    <3>1. q = p \o <<s>> /\ Append(u, s) = u \o <<s>> /\ <<s>> \in Seq(Line)
      BY <2>2, <2>4, AppendIsConcat
    <3>2. (ls \o p) \o <<s>> = ls \o (p \o <<s>>)
      BY <2>2, <3>1, ConcatAssociative
    <3> QED
      BY <2>3, <3>1, <3>2
  <2>6. PICK e : e = Append(s, NewLine) /\ e \in Seq(Char)
    BY <2>2, LineBytes DEF Bytes
  <2>7. /\ Terminated(Append(u, s)) = Terminated(u) \o e /\ Append(u, s) \in Seq(Line)
        /\ Terminated(q) = Terminated(p) \o e
    BY <2>2, <2>4, <2>6, TerminatedStep
  <2>8. Terminated(ls) \in Seq(Char) /\ Terminated(p) \in Seq(Char)
    BY <2>2, TerminatedStep DEF Bytes
  <2>9. (Terminated(ls) \o Terminated(p)) \o e = Terminated(ls) \o (Terminated(p) \o e)
    <3>1. PICK a \in Seq(Char), b \in Seq(Char) : a = Terminated(ls) /\ b = Terminated(p)
      BY <2>8
    <3>2. e \in Seq(Char)
      BY <2>6
    <3>3. (a \o b) \o e = a \o (b \o e)
      BY <3>2, ConcatAssociative
    <3> QED
      BY <3>1, <3>3
  <2> QED
    BY <2>1, <2>2, <2>4, <2>5, <2>7, <2>9
<1>8. n \in T
  <2> HIDE DEF T
  <2>1. 0 .. n \subseteq T
    BY <1>1, <1>6, <1>7, Rise
  <2> QED
    BY <1>1, <2>1
<1> QED
  BY <1>4, <1>8

-----------------------------------------------------------------------------
(***************************************************************************)
(* The text, as the line of the cursor cuts it.                            *)
(***************************************************************************)

LEMMA Joins ==
  ASSUME NEW S, NEW a \in Seq(S), NEW b \in Seq(S)
  PROVE  /\ Len(a) \in Nat /\ Len(b) \in Nat
         /\ a \o b \in Seq(S) /\ Len(a \o b) = Len(a) + Len(b)
         /\ \A i \in 1 .. Len(a) : (a \o b)[i] = a[i]
         /\ \A i \in Len(a) + 1 .. Len(a) + Len(b) : (a \o b)[i] = b[i - Len(a)]
<1>1. PICK m \in Nat, n \in Nat : m = Len(a) /\ n = Len(b)
  BY LenProperties
<1>2. PICK u : u = a \o b
  OBVIOUS
<1>3. /\ u \in Seq(S) /\ Len(u) = m + n
      /\ \A i \in 1 .. m + n : u[i] = IF i <= m THEN a[i] ELSE b[i - m]
  BY <1>1, <1>2, ConcatProperties
<1>4. \A i \in 1 .. m : u[i] = a[i]
  <2> TAKE i \in 1 .. m
  <2>1. i \in 1 .. m + n /\ i <= m
    BY <1>1
  <2> QED
    BY <1>3, <2>1
<1>5. \A i \in m + 1 .. m + n : u[i] = b[i - m]
  <2> TAKE i \in m + 1 .. m + n
  <2>1. i \in 1 .. m + n /\ ~(i <= m)
    BY <1>1
  <2> QED
    BY <1>3, <2>1
<1> QED
  BY <1>1, <1>2, <1>3, <1>4, <1>5

WholeOf(ls) == Terminated(Front(ls)) \o Last(ls)
OffsetOf(ls, l, c) == Len(Terminated(SubSeq(ls, 1, l))) + c

\* The lines top, the line s and the lines rest.
At(top, s, rest) == Append(top, s) \o rest

\* The text w is the text t, then the line s, then, after a newline, the text r but for
\* its last newline, or nothing when r is empty.
Reads(w, t, s, r) ==
  /\ w \in Bytes /\ t \in Bytes /\ s \in Line /\ r \in Bytes
  /\ Len(w) = Len(t) + Len(s) + Len(r)
  /\ \A i \in 1 .. Len(t) : w[i] = t[i]
  /\ \A i \in Len(t) + 1 .. Len(t) + Len(s) : w[i] = s[i - Len(t)]
  /\ Len(r) > 0 => w[Len(t) + Len(s) + 1] = NewLine
  /\ \A i \in Len(t) + Len(s) + 2 .. Len(w) : w[i] = r[i - Len(t) - Len(s) - 1]

LEMMA AtIs ==
  ASSUME NEW top \in Seq(Line), NEW s \in Line, NEW rest \in Seq(Line)
  PROVE  /\ At(top, s, rest) \in Seq(Line) /\ Len(top) \in Nat /\ Len(rest) \in Nat
         /\ Len(At(top, s, rest)) = Len(top) + 1 + Len(rest)
         /\ At(top, s, rest)[Len(top) + 1] = s
         /\ SubSeq(At(top, s, rest), 1, Len(top)) = top
         /\ Terminated(At(top, s, rest)) =
              (Terminated(top) \o Append(s, NewLine)) \o Terminated(rest)
<1>1. PICK l, u, ls : l = Len(top) /\ u = Append(top, s) /\ ls = u \o rest
  OBVIOUS
<1>2. l \in Nat /\ u \in Seq(Line) /\ Len(u) = l + 1 /\ u[l + 1] = s /\ \A i \in 1 .. l : u[i] = top[i]
  BY <1>1
<1>3. ls = At(top, s, rest)
  BY <1>1 DEF At
<1>4. /\ ls \in Seq(Line) /\ Len(rest) \in Nat /\ Len(ls) = l + 1 + Len(rest)
      /\ \A i \in 1 .. l + 1 : ls[i] = u[i]
  <2>1. /\ u \o rest \in Seq(Line) /\ Len(u \o rest) = Len(u) + Len(rest)
        /\ \A i \in 1 .. Len(u) : (u \o rest)[i] = u[i]
        /\ Len(rest) \in Nat
    BY <1>2, Joins
  <2> QED
    BY <1>1, <1>2, <2>1
<1>5. SubSeq(ls, 1, l) = top
  <2>1. PICK t : t = SubSeq(ls, 1, l)
    OBVIOUS
  <2>2. l \in 0 .. Len(ls)
    BY <1>2, <1>4
  <2>3. t \in Seq(Line) /\ Len(t) = l /\ \A i \in 1 .. l : t[i] = ls[i]
    BY <1>2, <1>4, <2>1, <2>2
  <2>4. \A i \in 1 .. l : t[i] = top[i]
    BY <1>2, <1>4, <2>3
  <2> QED
    BY <1>1, <2>1, <2>3, <2>4, SeqEqual
<1>6. Terminated(ls) = (Terminated(top) \o Append(s, NewLine)) \o Terminated(rest)
  <2>1. Terminated(u) = Terminated(top) \o Append(s, NewLine)
    BY <1>1, TerminatedStep
  <2>2. Terminated(u \o rest) = Terminated(u) \o Terminated(rest)
    BY <1>2, TerminatedJoin
  <2> QED
    BY <1>1, <2>1, <2>2
<1>7. ls[l + 1] = s
  BY <1>2, <1>4
<1> QED
  BY <1>1, <1>2, <1>3, <1>4, <1>5, <1>6, <1>7

\* With the newline that it lacks, the text is that of the terminated lines.
LEMMA WholeIs ==
  ASSUME NEW ls \in Seq(Line), ls # <<>>
  PROVE  /\ WholeOf(ls) \in Bytes
         /\ Terminated(ls) = Append(WholeOf(ls), NewLine)
         /\ Len(WholeOf(ls)) = OffsetOf(ls, Len(ls) - 1, Len(ls[Len(ls)]))
<1>1. PICK n \in Nat : n = Len(ls)
  OBVIOUS
<1>2. n # 0 /\ ls[n] \in Line
  BY <1>1
<1>3. PICK front, s : front = Front(ls) /\ s = Last(ls)
  OBVIOUS
<1>4. s = ls[n] /\ front = SubSeq(ls, 1, n - 1)
  BY <1>1, <1>3 DEF Front, Last
<1>5. front \in Seq(Line) /\ Len(front) = n - 1 /\ \A i \in 1 .. n - 1 : front[i] = ls[i]
  BY <1>1, <1>2, <1>4
<1>6. Append(front, s) = ls
  <2>1. PICK t : t = Append(front, s)
    OBVIOUS
  <2>2. t \in Seq(Line) /\ Len(t) = n /\ \A i \in 1 .. n : t[i] = ls[i]
    BY <1>2, <1>4, <1>5, <2>1
  <2> QED
    BY <1>1, <2>1, <2>2, SeqEqual
<1>7. PICK a : a = Terminated(front) /\ a \in Seq(Char)
  BY <1>2, <1>4, <1>5, TerminatedStep DEF Bytes
<1>8. Terminated(ls) = a \o Append(s, NewLine)
  BY <1>2, <1>4, <1>5, <1>6, <1>7, TerminatedStep
<1>9. s \in Seq(Char) /\ NewLine \in Char
  BY <1>2, <1>4, LineBytes DEF Bytes, NewLine, Char
<1>10. a \o Append(s, NewLine) = Append(a \o s, NewLine) /\ a \o s \in Seq(Char)
  <2>1. PICK e : e = <<NewLine>> /\ e \in Seq(Char)
    <3>1. PICK x \in Char : x = NewLine
      BY <1>9
    <3>2. <<x>> \in Seq(Char)
      OBVIOUS
    <3> QED
      BY <3>1, <3>2
  <2>2. Append(s, NewLine) = s \o e /\ a \o s \in Seq(Char)
    BY <1>7, <1>9, <2>1, AppendIsConcat
  <2>3. Append(a \o s, NewLine) = (a \o s) \o e
    BY <1>9, <2>1, <2>2, AppendIsConcat
  <2>4. (a \o s) \o e = a \o (s \o e)
    <3>1. a \in Seq(Char) /\ s \in Seq(Char) /\ e \in Seq(Char)
      BY <1>7, <1>9, <2>1
    <3> QED
      BY <3>1, ConcatAssociative
  <2> QED
    BY <2>2, <2>3, <2>4
<1>11. WholeOf(ls) = a \o s
  BY <1>3, <1>7 DEF WholeOf
<1>12. Len(a \o s) = Len(a) + Len(s)
  BY <1>7, <1>9
<1>13. OffsetOf(ls, n - 1, Len(ls[n])) = Len(a) + Len(s)
  BY <1>4, <1>7 DEF OffsetOf
<1> QED
  BY <1>1, <1>8, <1>10, <1>11, <1>12, <1>13 DEF Bytes

LEMMA WholeReads ==
  ASSUME NEW top \in Seq(Line), NEW s \in Line, NEW rest \in Seq(Line)
  PROVE  /\ Reads(WholeOf(At(top, s, rest)), Terminated(top), s, Terminated(rest))
         /\ \A c : OffsetOf(At(top, s, rest), Len(top), c) = Len(Terminated(top)) + c
<1>1. PICK l, ls, t, r, w :
        /\ l = Len(top) /\ ls = At(top, s, rest)
        /\ t = Terminated(top) /\ r = Terminated(rest) /\ w = WholeOf(ls)
  OBVIOUS
<1>2. /\ ls \in Seq(Line) /\ l \in Nat /\ Len(rest) \in Nat /\ Len(ls) = l + 1 + Len(rest)
      /\ SubSeq(ls, 1, l) = top
      /\ Terminated(ls) = (t \o Append(s, NewLine)) \o r
  BY <1>1, AtIs
<1>3. t \in Seq(Char) /\ r \in Seq(Char)
  BY <1>1, TerminatedStep DEF Bytes
<1>4. w \in Seq(Char) /\ Terminated(ls) = Append(w, NewLine)
  <2>1. ls # <<>>
    BY <1>2
  <2> QED
    BY <1>1, <1>2, <2>1, WholeIs DEF Bytes
<1>5. PICK m \in Nat, n \in Nat, k \in Nat : m = Len(t) /\ n = Len(s) /\ k = Len(r)
  BY <1>3, LineBytes
<1>6. PICK e, u, v : e = Append(s, NewLine) /\ u = t \o e /\ v = u \o r
  OBVIOUS
<1>7. e \in Seq(Char) /\ Len(e) = n + 1 /\ e[n + 1] = NewLine /\ \A i \in 1 .. n : e[i] = s[i]
  BY <1>5, <1>6, LineBytes DEF Bytes
<1>8. /\ u \in Seq(Char) /\ Len(u) = m + n + 1
      /\ \A i \in 1 .. m : u[i] = t[i]
      /\ \A i \in m + 1 .. m + n + 1 : u[i] = e[i - m]
  <2>1. /\ t \o e \in Seq(Char) /\ Len(t \o e) = Len(t) + Len(e)
        /\ \A i \in 1 .. Len(t) : (t \o e)[i] = t[i]
        /\ \A i \in Len(t) + 1 .. Len(t) + Len(e) : (t \o e)[i] = e[i - Len(t)]
    BY <1>3, <1>7, Joins
  <2>2. /\ u \in Seq(Char) /\ Len(u) = m + Len(e)
        /\ \A i \in 1 .. m : u[i] = t[i]
        /\ \A i \in m + 1 .. m + Len(e) : u[i] = e[i - m]
    BY <1>5, <1>6, <2>1, Zenon
  <2>3. m + Len(e) = m + n + 1
    BY <1>7
  <2> QED
    BY <2>2, <2>3, Zenon
<1>9. /\ v \in Seq(Char) /\ Len(v) = m + n + 1 + k
      /\ \A i \in 1 .. m + n + 1 : v[i] = u[i]
      /\ \A i \in m + n + 2 .. m + n + 1 + k : v[i] = r[i - m - n - 1]
  <2>1. /\ u \o r \in Seq(Char) /\ Len(u \o r) = Len(u) + Len(r)
        /\ \A i \in 1 .. Len(u) : (u \o r)[i] = u[i]
        /\ \A i \in Len(u) + 1 .. Len(u) + Len(r) : (u \o r)[i] = r[i - Len(u)]
    BY <1>3, <1>8, Joins
  <2>0. /\ v \in Seq(Char) /\ Len(v) = Len(u) + k
        /\ \A i \in 1 .. Len(u) : v[i] = u[i]
        /\ \A i \in Len(u) + 1 .. Len(u) + k : v[i] = r[i - Len(u)]
    BY <1>5, <1>6, <2>1, Zenon
  <2>2. /\ v \in Seq(Char) /\ Len(v) = m + n + 1 + k
        /\ \A i \in 1 .. m + n + 1 : v[i] = u[i]
        /\ \A i \in (m + n + 1) + 1 .. (m + n + 1) + k : v[i] = r[i - (m + n + 1)]
    BY <1>8, <2>0, Zenon
  <2>3. ASSUME NEW i \in m + n + 2 .. m + n + 1 + k PROVE v[i] = r[i - m - n - 1]
    <3>1. i \in (m + n + 1) + 1 .. (m + n + 1) + k /\ i - (m + n + 1) = i - m - n - 1
      OBVIOUS
    <3> QED
      BY <2>2, <3>1
  <2> QED
    BY <2>2, <2>3
<1>10. v = Append(w, NewLine)
  BY <1>2, <1>4, <1>6
<1>11. Len(w) = m + n + k /\ \A i \in 1 .. m + n + k : w[i] = v[i]
  <2>1. Len(v) = Len(w) + 1 /\ \A i \in 1 .. Len(w) : v[i] = w[i]
    BY <1>4, <1>10
  <2>2. Len(w) \in Nat
    BY <1>4
  <2>3. Len(w) = m + n + k
    BY <1>9, <2>1, <2>2
  <2> QED
    BY <2>1, <2>3
<1>12. \A i \in 1 .. m : w[i] = t[i]
  <2> TAKE i \in 1 .. m
  <2>1. i \in 1 .. m + n + k /\ i \in 1 .. m + n + 1
    OBVIOUS
  <2> QED
    BY <1>8, <1>9, <1>11, <2>1
<1>13. \A i \in m + 1 .. m + n : w[i] = s[i - m]
  <2> TAKE i \in m + 1 .. m + n
  <2>1. i \in 1 .. m + n + k /\ i \in 1 .. m + n + 1 /\ i \in m + 1 .. m + n + 1 /\ i - m \in 1 .. n
    OBVIOUS
  <2> QED
    BY <1>7, <1>8, <1>9, <1>11, <2>1
<1>14. k > 0 => w[m + n + 1] = NewLine
  <2>1. SUFFICES ASSUME k > 0 PROVE w[m + n + 1] = NewLine
    OBVIOUS
  <2>2. PICK i \in Nat : i = m + n + 1
    OBVIOUS
  <2>3. i \in 1 .. m + n + k /\ i \in 1 .. m + n + 1 /\ i \in m + 1 .. m + n + 1 /\ i - m = n + 1
    BY <2>1, <2>2
  <2>4. w[i] = v[i] /\ v[i] = u[i] /\ u[i] = e[i - m]
    BY <1>8, <1>9, <1>11, <2>3
  <2> QED
    BY <1>7, <2>2, <2>3, <2>4
<1>15. \A i \in m + n + 2 .. m + n + k : w[i] = r[i - m - n - 1]
  <2> TAKE i \in m + n + 2 .. m + n + k
  <2>1. i \in 1 .. m + n + k /\ i \in m + n + 2 .. m + n + 1 + k
    OBVIOUS
  <2> QED
    BY <1>9, <1>11, <2>1
<1>16. Reads(w, t, s, r)
  BY <1>3, <1>4, <1>5, <1>11, <1>12, <1>13, <1>14, <1>15 DEF Reads, Bytes
<1>17. \A c : OffsetOf(ls, l, c) = m + c
  BY <1>1, <1>2, <1>5 DEF OffsetOf
<1> QED
  BY <1>1, <1>5, <1>16, <1>17

-----------------------------------------------------------------------------
(***************************************************************************)
(* What the keys do to the text.                                           *)
(***************************************************************************)

\* v is w with one character more, after the first p.
Inserted(w, v, p) ==
  /\ w \in Bytes /\ v \in Bytes /\ p \in 0 .. Len(w) /\ Len(v) = Len(w) + 1
  /\ \A i \in 1 .. p : v[i] = w[i]
  /\ \A i \in p + 2 .. Len(v) : v[i] = w[i - 1]

LEMMA InsertedMeans ==
  ASSUME NEW w, NEW v, NEW p, Inserted(w, v, p)
  PROVE  /\ p \in Nat /\ Len(w) \in Nat /\ Len(v) = Len(w) + 1 /\ v[p + 1] \in Char
         /\ w = SubSeq(v, 1, p) \o SubSeq(v, p + 2, Len(v))
<1>1. PICK n : n = Len(w)
  OBVIOUS
<1>2. /\ w \in Seq(Char) /\ v \in Seq(Char) /\ n \in Nat /\ p \in 0 .. n /\ Len(v) = n + 1
      /\ \A i \in 1 .. p : v[i] = w[i]
      /\ \A i \in p + 2 .. n + 1 : v[i] = w[i - 1]
  BY <1>1 DEF Inserted, Bytes
<1>3. p \in Nat /\ v[p + 1] \in Char
  BY <1>2
<1>4. PICK a, b : a = SubSeq(v, 1, p) /\ b = SubSeq(v, p + 2, n + 1)
  OBVIOUS
<1>5. a \in Seq(Char) /\ Len(a) = p /\ \A i \in 1 .. p : a[i] = v[i]
  BY <1>2, <1>3, <1>4
<1>6. b \in Seq(Char) /\ Len(b) = n - p /\ \A i \in 1 .. n - p : \A j : j = p + 1 + i => b[i] = v[j]
  BY <1>2, <1>3, <1>4
<1>7. PICK u : u = a \o b
  OBVIOUS
<1>8. /\ u \in Seq(Char) /\ Len(u) = n
      /\ \A i \in 1 .. p : u[i] = a[i]
      /\ \A i \in p + 1 .. n : u[i] = b[i - p]
  <2>1. /\ a \o b \in Seq(Char) /\ Len(a \o b) = Len(a) + Len(b)
        /\ \A i \in 1 .. Len(a) : (a \o b)[i] = a[i]
        /\ \A i \in Len(a) + 1 .. Len(a) + Len(b) : (a \o b)[i] = b[i - Len(a)]
    <3>1. a \in Seq(Char) /\ b \in Seq(Char)
      BY <1>5, <1>6
    <3> QED
      BY <3>1, Joins
  <2>2. Len(a) = p /\ Len(a) + Len(b) = n
    BY <1>2, <1>5, <1>6
  <2> QED
    BY <1>7, <2>1, <2>2, Zenon
<1>9. \A i \in 1 .. n : u[i] = w[i]
  <2> TAKE i \in 1 .. n
  <2>1. CASE i <= p
    BY <1>2, <1>5, <1>8, <2>1
  <2>2. CASE ~(i <= p)
    <3>1. PICK j : j = i + 1 /\ j = p + 1 + (i - p) /\ j - 1 = i
      BY <1>2
    <3>2. i \in p + 1 .. n /\ i - p \in 1 .. n - p /\ j \in p + 2 .. n + 1
      BY <1>2, <2>2, <3>1
    <3>3. u[i] = b[i - p] /\ b[i - p] = v[j] /\ v[j] = w[j - 1]
      BY <1>2, <1>6, <1>8, <3>1, <3>2
    <3> QED
      BY <3>1, <3>3
  <2> QED
    BY <2>1, <2>2
<1>10. u = w
  BY <1>1, <1>2, <1>8, <1>9, SeqEqual
<1> QED
  BY <1>1, <1>2, <1>3, <1>4, <1>7, <1>10

\* A character more in the line is one more in the text.
LEMMA InsertedInLine ==
  ASSUME NEW w, NEW v, NEW t, NEW s, NEW x, NEW r, NEW c, Inserted(s, x, c),
         Reads(w, t, s, r), Reads(v, t, x, r)
  PROVE  Inserted(w, v, Len(t) + c)
<1>1. PICK m, n, k : m = Len(t) /\ n = Len(s) /\ k = Len(r)
  OBVIOUS
<1>2. /\ m \in Nat /\ n \in Nat /\ k \in Nat /\ c \in 0 .. n /\ Len(x) = n + 1
      /\ \A i \in 1 .. c : x[i] = s[i]
      /\ \A i \in c + 2 .. n + 1 : x[i] = s[i - 1]
  <2>1. t \in Seq(Char) /\ s \in Seq(Char) /\ r \in Seq(Char)
    BY DEF Reads, Inserted, Bytes
  <2> QED
    BY <1>1, <2>1, LenProperties DEF Inserted
<1>3. /\ w \in Bytes /\ Len(w) = m + n + k
      /\ \A i \in 1 .. m : w[i] = t[i]
      /\ \A i \in m + 1 .. m + n : w[i] = s[i - m]
      /\ k > 0 => \A i : i = m + n + 1 => w[i] = NewLine
      /\ \A i \in m + n + 2 .. m + n + k : w[i] = r[i - m - n - 1]
  BY <1>1 DEF Reads
<1>4. /\ v \in Bytes /\ Len(v) = m + n + k + 1
      /\ \A i \in 1 .. m : v[i] = t[i]
      /\ \A i \in m + 1 .. m + n + 1 : v[i] = x[i - m]
      /\ k > 0 => \A i : i = m + n + 2 => v[i] = NewLine
      /\ \A i \in m + n + 3 .. m + n + k + 1 : v[i] = r[i - m - n - 2]
  <2>1. PICK q : q = n + 1
    OBVIOUS
  <2>2. /\ v \in Bytes /\ Len(v) = m + q + k
        /\ \A i \in 1 .. m : v[i] = t[i]
        /\ \A i \in m + 1 .. m + q : v[i] = x[i - m]
        /\ k > 0 => v[m + q + 1] = NewLine
        /\ \A i \in m + q + 2 .. m + q + k : v[i] = r[i - m - q - 1]
    BY <1>1, <1>2, <2>1 DEF Reads
  <2>3. \A i \in m + n + 3 .. m + n + k + 1 : v[i] = r[i - m - n - 2]
    <3> TAKE i \in m + n + 3 .. m + n + k + 1
    <3>1. i \in m + q + 2 .. m + q + k /\ i - m - q - 1 = i - m - n - 2
      BY <1>2, <2>1
    <3> QED
      BY <2>2, <3>1
  <2>4. m + q = m + n + 1 /\ m + q + 1 = m + n + 2 /\ m + q + k = m + n + k + 1
    BY <1>2, <2>1
  <2> QED
    BY <2>2, <2>3, <2>4
<1>5. PICK p \in Nat : p = m + c
  BY <1>2
<1>6. p \in 0 .. Len(w) /\ Len(v) = Len(w) + 1 /\ p \in m .. m + n
  BY <1>2, <1>3, <1>4, <1>5
<1>7. \A i \in 1 .. p : v[i] = w[i]
  <2> TAKE i \in 1 .. p
  <2>1. CASE i <= m
    BY <1>3, <1>4, <2>1
  <2>2. CASE ~(i <= m)
    <3>1. PICK j : j = i - m
      OBVIOUS
    <3>2. i \in m + 1 .. m + n /\ i \in m + 1 .. m + n + 1 /\ j \in 1 .. c
      BY <1>2, <1>5, <2>2, <3>1
    <3> QED
      BY <1>2, <1>3, <1>4, <3>1, <3>2
  <2> QED
    BY <2>1, <2>2
<1>8. \A i \in p + 2 .. Len(v) : v[i] = w[i - 1]
  <2> TAKE i \in p + 2 .. Len(v)
  <2>1. PICK h \in Int : h = i - 1
    OBVIOUS
  <2>2. CASE i <= m + n + 1
    <3>1. PICK j, g : j = i - m /\ g = h - m
      OBVIOUS
    <3>2. i \in m + 1 .. m + n + 1 /\ h \in m + 1 .. m + n /\ j \in c + 2 .. n + 1 /\ j - 1 = g
      BY <1>2, <1>4, <1>5, <2>1, <2>2, <3>1
    <3>3. v[i] = x[j] /\ x[j] = s[j - 1] /\ w[h] = s[g]
      BY <1>2, <1>3, <1>4, <3>1, <3>2
    <3> QED
      BY <2>1, <3>2, <3>3
  <2>3. CASE i = m + n + 2
    <3>1. k > 0 /\ h = m + n + 1
      BY <1>2, <1>4, <2>1, <2>3
    <3> QED
      BY <1>3, <1>4, <2>1, <2>3, <3>1
  <2>4. CASE i > m + n + 2
    <3>1. /\ i \in m + n + 3 .. m + n + k + 1 /\ h \in m + n + 2 .. m + n + k
          /\ i - m - n - 2 = h - m - n - 1
      BY <1>2, <1>4, <2>1, <2>4
    <3>2. v[i] = r[i - m - n - 2] /\ w[h] = r[h - m - n - 1]
      BY <1>3, <1>4, <3>1
    <3> QED
      BY <2>1, <3>1, <3>2
  <2> QED
    BY <1>2, <1>5, <2>2, <2>3, <2>4
<1> QED
  BY <1>1, <1>3, <1>4, <1>5, <1>6, <1>7, <1>8 DEF Inserted

\* A line cut in two is a newline more in the text.
LEMMA InsertedNewLine ==
  ASSUME NEW w, NEW v, NEW t, NEW b, NEW a, NEW r,
         NEW x, x = b \o a, NEW y, y = t \o Append(b, NewLine), b \in Line, a \in Line,
         Reads(w, t, x, r), Reads(v, y, a, r)
  PROVE  Inserted(w, v, Len(t) + Len(b))
<1>1. PICK m, n, l, k, e :
        m = Len(t) /\ n = Len(b) /\ l = Len(a) /\ k = Len(r) /\ e = Append(b, NewLine)
  OBVIOUS
<1>2. /\ b \in Seq(Char) /\ a \in Seq(Char) /\ t \in Seq(Char) /\ r \in Seq(Char)
      /\ m \in Nat /\ n \in Nat /\ l \in Nat /\ k \in Nat
      /\ e \in Seq(Char) /\ Len(e) = n + 1 /\ e[n + 1] = NewLine /\ \A i \in 1 .. n : e[i] = b[i]
  <2>1. t \in Seq(Char) /\ r \in Seq(Char)
    BY DEF Reads, Bytes
  <2> QED
    BY <1>1, <2>1, LineBytes, LenProperties DEF Bytes
<1>3. /\ Len(x) = n + l
      /\ \A i \in 1 .. n : x[i] = b[i]
      /\ \A i \in n + 1 .. n + l : x[i] = a[i - n]
  <2>1. /\ b \o a \in Seq(Char) /\ Len(b \o a) = Len(b) + Len(a)
        /\ \A i \in 1 .. Len(b) : (b \o a)[i] = b[i]
        /\ \A i \in Len(b) + 1 .. Len(b) + Len(a) : (b \o a)[i] = a[i - Len(b)]
    BY <1>2, Joins
  <2> QED
    BY <1>1, <2>1, Zenon
<1>4. /\ Len(y) = m + n + 1
      /\ \A i \in 1 .. m : y[i] = t[i]
      /\ \A i \in m + 1 .. m + n + 1 : y[i] = e[i - m]
  <2>1. /\ t \o e \in Seq(Char) /\ Len(t \o e) = Len(t) + Len(e)
        /\ \A i \in 1 .. Len(t) : (t \o e)[i] = t[i]
        /\ \A i \in Len(t) + 1 .. Len(t) + Len(e) : (t \o e)[i] = e[i - Len(t)]
    BY <1>2, Joins
  <2>2. m + Len(e) = m + n + 1
    BY <1>2
  <2> QED
    BY <1>1, <2>1, <2>2, Zenon
<1>5. PICK z \in Nat, p \in Nat, q \in Nat : z = n + l /\ p = m + n /\ q = p + 1
  BY <1>2
<1>6. /\ w \in Bytes /\ Len(w) = m + z + k
      /\ \A i \in 1 .. m : w[i] = t[i]
      /\ \A i \in m + 1 .. m + z : w[i] = x[i - m]
      /\ k > 0 => w[m + z + 1] = NewLine
      /\ \A i \in m + z + 2 .. m + z + k : w[i] = r[i - m - z - 1]
  <2>1. Len(x) = z
    BY <1>3, <1>5
  <2> QED
    BY <1>1, <2>1 DEF Reads
<1>7. /\ v \in Bytes /\ Len(v) = q + l + k
      /\ \A i \in 1 .. q : v[i] = y[i]
      /\ \A i \in q + 1 .. q + l : v[i] = a[i - q]
      /\ k > 0 => v[q + l + 1] = NewLine
      /\ \A i \in q + l + 2 .. q + l + k : v[i] = r[i - q - l - 1]
  <2>1. Len(y) = q
    BY <1>4, <1>5
  <2> QED
    BY <1>1, <2>1 DEF Reads
<1>8. /\ Len(w) = m + z + k /\ Len(v) = q + l + k
      /\ \A i \in m + 1 .. m + n + 1 : y[i] = e[i - m]
      /\ \A i \in n + 1 .. n + l : x[i] = a[i - n]
  <2>1. Len(w) = m + z + k /\ Len(v) = q + l + k
    BY <1>6, <1>7
  <2>2. \A i \in m + 1 .. m + n + 1 : y[i] = e[i - m]
    BY <1>4
  <2>3. \A i \in n + 1 .. n + l : x[i] = a[i - n]
    BY <1>3, Zenon
  <2> QED
    BY <2>1, <2>2, <2>3, Zenon
<1>9. /\ m \in Nat /\ n \in Nat /\ l \in Nat /\ k \in Nat
       /\ p \in 0 .. Len(w) /\ Len(v) = Len(w) + 1
  <2>1. Len(w) = m + z + k /\ Len(v) = q + l + k
    BY <1>8
  <2>2. m \in Nat /\ n \in Nat /\ l \in Nat /\ k \in Nat
    BY <1>2
  <2> QED
    BY <1>5, <2>1, <2>2
<1>10. ASSUME NEW i \in 1 .. p PROVE v[i] = w[i]
  <2>1. v[i] = y[i]
    <3>1. i \in 1 .. q
      BY <1>5
    <3> QED
      BY <1>7, <3>1
  <2>2. CASE i <= m
    <3>1. i \in 1 .. m
      BY <1>5, <2>2
    <3> QED
      BY <1>4, <1>6, <2>1, <3>1
  <2>3. CASE ~(i <= m)
    <3>1. PICK j : j = i - m
      OBVIOUS
    <3>2. i \in m + 1 .. m + z /\ i \in m + 1 .. m + n + 1 /\ j \in 1 .. n
      BY <1>2, <1>5, <2>3, <3>1
    <3>3. y[i] = e[j]
      <4>1. y[i] = e[i - m]
        BY <1>8, <3>2, Zenon
      <4> QED
        BY <3>1, <4>1
    <3>4. w[i] = x[j]
      BY <1>6, <3>1, <3>2
    <3>5. e[j] = b[j] /\ x[j] = b[j]
      BY <1>2, <1>3, <3>2
    <3> QED
      BY <2>1, <3>3, <3>4, <3>5
  <2> QED
    BY <2>2, <2>3
<1>11. ASSUME NEW i \in p + 2 .. Len(v) PROVE v[i] = w[i - 1]
  <2>0. i \in Int /\ p + 2 <= i /\ i <= q + l + k
    BY <1>2, <1>5, <1>7
  <2>1. PICK h \in Int : h = i - 1
    BY <2>0
  <2>2. CASE i <= q + l
    <3>1. PICK j, g : j = i - q /\ g = h - m
      OBVIOUS
    <3>2. /\ i \in q + 1 .. q + l /\ h \in m + 1 .. m + z
          /\ g \in n + 1 .. n + l /\ g - n = j
      BY <1>2, <1>5, <2>0, <2>1, <2>2, <3>1
    <3>3. v[i] = a[j]
      BY <1>7, <3>1, <3>2
    <3>4. w[h] = x[g]
      BY <1>6, <3>1, <3>2
    <3>5. x[g] = a[g - n]
      BY <1>8, <3>2, Zenon
    <3> QED
      BY <2>1, <3>2, <3>3, <3>4, <3>5
  <2>3. CASE i = q + l + 1
    <3>1. k > 0 /\ h = m + z + 1
      BY <1>9, <1>5, <2>0, <2>1, <2>3
    <3> QED
      BY <1>6, <1>7, <2>1, <2>3, <3>1
  <2>4. CASE i > q + l + 1
    <3>1. /\ i \in q + l + 2 .. q + l + k /\ h \in m + z + 2 .. m + z + k
          /\ i - q - l - 1 = h - m - z - 1
      BY <1>2, <1>5, <2>0, <2>1, <2>4
    <3>2. v[i] = r[i - q - l - 1] /\ w[h] = r[h - m - z - 1]
      BY <1>6, <1>7, <3>1
    <3> QED
      BY <2>1, <3>1, <3>2
  <2> QED
    BY <1>2, <1>5, <2>0, <2>2, <2>3, <2>4
<1> QED
  BY <1>1, <1>5, <1>6, <1>7, <1>9, <1>10, <1>11 DEF Inserted

\* What comes before and after in sequences that agree there.
LEMMA SameFront ==
  ASSUME NEW S, NEW ls \in Seq(S), NEW ms \in Seq(S), NEW i \in Nat, i <= Len(ls), i <= Len(ms),
         \A j \in 1 .. i : ms[j] = ls[j]
  PROVE  /\ SubSeq(ls, 1, i) \in Seq(S) /\ Len(SubSeq(ls, 1, i)) = i
         /\ \A j \in 1 .. i : SubSeq(ls, 1, i)[j] = ls[j]
         /\ SubSeq(ms, 1, i) = SubSeq(ls, 1, i)
<1>1. PICK a, b : a = SubSeq(ls, 1, i) /\ b = SubSeq(ms, 1, i)
  OBVIOUS
<1>2. a \in Seq(S) /\ Len(a) = i /\ \A j \in 1 .. i : a[j] = ls[j]
  BY <1>1
<1>3. b \in Seq(S) /\ Len(b) = i /\ \A j \in 1 .. i : b[j] = a[j]
  BY <1>1, <1>2
<1>4. a = b
  BY <1>2, <1>3, SeqEqual
<1> QED
  BY <1>1, <1>2, <1>4

LEMMA SameBack ==
  ASSUME NEW S, NEW ls \in Seq(S), NEW ms \in Seq(S), Len(ms) = Len(ls),
         NEW i \in Nat, i >= 1, i <= Len(ls) + 1,
         \A j \in i .. Len(ls) : ms[j] = ls[j]
  PROVE  /\ SubSeq(ls, i, Len(ls)) \in Seq(S) /\ Len(SubSeq(ls, i, Len(ls))) = Len(ls) - i + 1
         /\ \A j \in i .. Len(ls) : SubSeq(ls, i, Len(ls))[j - i + 1] = ls[j]
         /\ SubSeq(ms, i, Len(ls)) = SubSeq(ls, i, Len(ls))
<1>0. PICK n \in Nat : n = Len(ls)
  OBVIOUS
<1>1. PICK a, b : n = Len(ls) /\ a = SubSeq(ls, i, n) /\ b = SubSeq(ms, i, n)
  BY <1>0
<1>2. /\ a \in Seq(S) /\ Len(a) = n - i + 1
      /\ b \in Seq(S) /\ Len(b) = n - i + 1
  BY <1>1
<1>3. ASSUME NEW h \in 1 .. n - i + 1, NEW j, j = i + h - 1
      PROVE  a[h] = ls[j] /\ b[h] = ms[j] /\ j \in i .. n
  BY <1>1, <1>3
<1>4. a = b
  <2>1. ASSUME NEW h \in 1 .. n - i + 1 PROVE a[h] = b[h]
    <3>1. PICK j : j = i + h - 1
      OBVIOUS
    <3> QED
      BY <1>1, <1>3, <3>1
  <2> QED
    BY <1>2, <2>1, SeqEqual
<1>5. \A j \in i .. n : a[j - i + 1] = ls[j]
  <2> TAKE j \in i .. n
  <2>1. PICK h : h = j - i + 1
    OBVIOUS
  <2>2. h \in 1 .. n - i + 1 /\ j = i + h - 1
    BY <1>1, <2>1
  <2>3. a[h] = ls[j]
    BY <1>3, <2>2
  <2> QED
    BY <2>1, <2>3
<1> QED
  BY <1>1, <1>2, <1>4, <1>5

\* The lines are those before, a line, and those after.
LEMMA CutLines ==
  ASSUME NEW ls \in Seq(Line), NEW l \in Nat, NEW s, NEW i, i = l + 1, i <= Len(ls), s = ls[i]
  PROVE  /\ s \in Line /\ SubSeq(ls, 1, l) \in Seq(Line) /\ Len(SubSeq(ls, 1, l)) = l
         /\ SubSeq(ls, l + 2, Len(ls)) \in Seq(Line)
         /\ SubSeq(ls, 1, i) = Append(SubSeq(ls, 1, l), s)
         /\ ls = At(SubSeq(ls, 1, l), s, SubSeq(ls, l + 2, Len(ls)))
<1>1. PICK n, top, rest : n = Len(ls) /\ top = SubSeq(ls, 1, l) /\ rest = SubSeq(ls, l + 2, n)
  OBVIOUS
<1>2. n \in Nat /\ i \in 1 .. n /\ l <= n /\ s \in Line /\ l + 2 \in Nat /\ l + 2 <= n + 1
  <2>1. n \in Nat /\ i \in 1 .. n /\ l <= n /\ l + 2 \in Nat /\ l + 2 <= n + 1
    BY <1>1
  <2> QED
    BY <1>1, <2>1
<1>3. top \in Seq(Line) /\ Len(top) = l /\ \A j \in 1 .. l : top[j] = ls[j]
  BY <1>1, <1>2, SameFront
<1>4. /\ rest \in Seq(Line) /\ Len(rest) = n - l - 1
      /\ \A j \in l + 2 .. n : rest[j - (l + 1)] = ls[j]
  <2>1. PICK h \in Nat : h = l + 2 /\ h >= 1 /\ h <= n + 1
    BY <1>2
  <2>2. /\ rest \in Seq(Line) /\ Len(rest) = n - h + 1
        /\ \A j \in h .. n : rest[j - h + 1] = ls[j]
    <3>1. /\ h <= Len(ls) + 1 /\ Len(ls) = Len(ls)
          /\ \A j \in h .. Len(ls) : ls[j] = ls[j]
      BY <1>1, <2>1
    <3>2. /\ SubSeq(ls, h, Len(ls)) \in Seq(Line)
          /\ Len(SubSeq(ls, h, Len(ls))) = Len(ls) - h + 1
          /\ \A j \in h .. Len(ls) : SubSeq(ls, h, Len(ls))[j - h + 1] = ls[j]
      BY <2>1, <3>1, SameBack
    <3> QED
      BY <1>1, <2>1, <3>2, Zenon
  <2>3. \A j \in h .. n : j - h + 1 = j - (l + 1)
    BY <1>2, <2>1
  <2> QED
    BY <1>2, <2>1, <2>2, <2>3
<1>5. PICK u : u = Append(top, s)
  OBVIOUS
<1>6. u \in Seq(Line) /\ Len(u) = i /\ \A j \in 1 .. i : u[j] = ls[j]
  BY <1>2, <1>3, <1>5
<1>7. SubSeq(ls, 1, i) = u
  <2>1. PICK t : t = SubSeq(ls, 1, i)
    OBVIOUS
  <2>2. t \in Seq(Line) /\ Len(t) = i /\ \A j \in 1 .. i : t[j] = ls[j]
    <3>1. i \in Nat /\ i <= Len(ls) /\ \A j \in 1 .. i : ls[j] = ls[j]
      BY <1>1, <1>2
    <3> QED
      BY <2>1, <3>1, SameFront
  <2>3. \A j \in 1 .. i : t[j] = u[j]
    BY <1>6, <2>2
  <2> QED
    BY <1>6, <2>1, <2>2, <2>3, SeqEqual
<1>8. PICK v : v = u \o rest
  OBVIOUS
<1>9. /\ v \in Seq(Line) /\ Len(v) = n
      /\ \A j \in 1 .. i : v[j] = u[j]
      /\ \A j \in i + 1 .. n : v[j] = rest[j - i]
  <2>1. /\ u \o rest \in Seq(Line) /\ Len(u \o rest) = Len(u) + Len(rest)
        /\ \A j \in 1 .. Len(u) : (u \o rest)[j] = u[j]
        /\ \A j \in Len(u) + 1 .. Len(u) + Len(rest) : (u \o rest)[j] = rest[j - Len(u)]
    <3>1. u \in Seq(Line) /\ rest \in Seq(Line)
      BY <1>4, <1>6
    <3> QED
      BY <3>1, Joins
  <2>2. Len(u) = i /\ Len(u) + Len(rest) = n
    BY <1>2, <1>4, <1>6
  <2> QED
    BY <1>8, <2>1, <2>2, Zenon
<1>10. \A j \in 1 .. n : v[j] = ls[j]
  <2> TAKE j \in 1 .. n
  <2>1. CASE j <= i
    BY <1>2, <1>6, <1>9, <2>1
  <2>2. CASE ~(j <= i)
    <3>1. j \in i + 1 .. n /\ j \in l + 2 .. n /\ j - i = j - (l + 1)
      BY <1>2, <2>2
    <3>2. v[j] = rest[j - i] /\ rest[j - (l + 1)] = ls[j]
      BY <1>4, <1>9, <3>1
    <3> QED
      BY <3>1, <3>2
  <2> QED
    BY <1>2, <2>1, <2>2
<1>11. v = ls
  BY <1>1, <1>9, <1>10, SeqEqual
<1> QED
  BY <1>1, <1>2, <1>3, <1>4, <1>5, <1>7, <1>8, <1>11 DEF At

\* The text before the line l, which is line l + 1 of TLA+.
Above(ls, l) == Terminated(SubSeq(ls, 1, l))
Below(ls, l) == Terminated(SubSeq(ls, l + 2, Len(ls)))

LEMMA ReadsAt ==
  ASSUME NEW ls \in Seq(Line), NEW l \in Nat, l < Len(ls)
  PROVE  /\ Reads(WholeOf(ls), Above(ls, l), ls[l + 1], Below(ls, l))
         /\ \A c : OffsetOf(ls, l, c) = Len(Above(ls, l)) + c
         /\ Above(ls, l) \in Bytes
         /\ Above(ls, l + 1) = Above(ls, l) \o Append(ls[l + 1], NewLine)
<1>1. PICK i, s, top, rest :
        /\ i = l + 1 /\ s = ls[i] /\ top = SubSeq(ls, 1, l) /\ rest = SubSeq(ls, l + 2, Len(ls))
  OBVIOUS
<1>2. /\ s \in Line /\ top \in Seq(Line) /\ Len(top) = l /\ rest \in Seq(Line)
      /\ SubSeq(ls, 1, i) = Append(top, s) /\ ls = At(top, s, rest)
  <2>1. i <= Len(ls)
    BY <1>1
  <2> QED
    BY <1>1, <2>1, CutLines
<1>3. /\ Reads(WholeOf(At(top, s, rest)), Terminated(top), s, Terminated(rest))
      /\ \A c : OffsetOf(At(top, s, rest), Len(top), c) = Len(Terminated(top)) + c
  BY <1>2, WholeReads
<1>4. /\ Terminated(Append(top, s)) = Terminated(top) \o Append(s, NewLine)
      /\ Terminated(top) \in Bytes
  BY <1>2, TerminatedStep
<1> QED
  BY <1>1, <1>2, <1>3, <1>4 DEF Above, Below

\* A sequence up to one place and from another.
LEMMA Halves ==
  ASSUME NEW S, NEW s \in Seq(S), NEW i \in 0 .. Len(s), NEW h \in 1 .. Len(s) + 1
  PROVE  /\ SubSeq(s, 1, i) \in Seq(S) /\ Len(SubSeq(s, 1, i)) = i
         /\ SubSeq(s, h, Len(s)) \in Seq(S) /\ Len(SubSeq(s, h, Len(s))) = Len(s) - h + 1
         /\ \A j \in 1 .. i : SubSeq(s, 1, i)[j] = s[j]
         /\ \A j \in h .. Len(s) : SubSeq(s, h, Len(s))[j - h + 1] = s[j]
<1>1. /\ i \in Nat /\ i <= Len(s) /\ h \in Nat /\ h >= 1 /\ h <= Len(s) + 1
      /\ Len(s) = Len(s)
  <2>1. Len(s) \in Nat
    OBVIOUS
  <2> QED
    BY <2>1
<1>2. /\ \A j \in 1 .. i : s[j] = s[j]
      /\ \A j \in h .. Len(s) : s[j] = s[j]
  OBVIOUS
<1>3. /\ SubSeq(s, 1, i) \in Seq(S) /\ Len(SubSeq(s, 1, i)) = i
      /\ \A j \in 1 .. i : SubSeq(s, 1, i)[j] = s[j]
  BY <1>1, <1>2, SameFront
<1>4. /\ SubSeq(s, h, Len(s)) \in Seq(S) /\ Len(SubSeq(s, h, Len(s))) = Len(s) - h + 1
      /\ \A j \in h .. Len(s) : SubSeq(s, h, Len(s))[j - h + 1] = s[j]
  BY <1>1, <1>2, SameBack
<1> QED
  BY <1>3, <1>4, Zenon

\* A character put into a line, or taken from it.
LEMMA TypedIntoLine ==
  ASSUME NEW s \in Line, NEW c \in 0 .. Len(s), NEW k \in Char \ {NewLine},
         NEW b, b = SubSeq(s, 1, c), NEW a, a = SubSeq(s, c + 1, Len(s)),
         NEW x, x = b \o <<k>> \o a
  PROVE  Inserted(s, x, c)
<1>1. PICK n : n = Len(s)
  OBVIOUS
<1>2. s \in Seq(Char) /\ s \in Bytes /\ n \in Nat /\ c \in 0 .. n /\ c \in Nat
  BY <1>1, LineBytes DEF Bytes
<1>3. PICK h \in 1 .. n + 1 : h = c + 1
  BY <1>2
<1>4. /\ b \in Seq(Char) /\ Len(b) = c /\ a \in Seq(Char) /\ Len(a) = n - h + 1
      /\ \A j \in 1 .. c : b[j] = s[j]
      /\ \A j \in h .. n : a[j - h + 1] = s[j]
  <2>1. c \in 0 .. Len(s) /\ h \in 1 .. Len(s) + 1
    BY <1>1, <1>3
  <2>2. /\ SubSeq(s, 1, c) \in Seq(Char) /\ Len(SubSeq(s, 1, c)) = c
        /\ SubSeq(s, h, Len(s)) \in Seq(Char) /\ Len(SubSeq(s, h, Len(s))) = Len(s) - h + 1
        /\ \A j \in 1 .. c : SubSeq(s, 1, c)[j] = s[j]
        /\ \A j \in h .. Len(s) : SubSeq(s, h, Len(s))[j - h + 1] = s[j]
    BY <1>2, <2>1, Halves
  <2>3. b = SubSeq(s, 1, c) /\ a = SubSeq(s, h, Len(s)) /\ Len(s) = n
    BY <1>1, <1>3
  <2> QED
    BY <2>2, <2>3, Zenon
<1>5. PICK one, d : one = <<k>> /\ d = b \o one
  OBVIOUS
<1>6. one \in Seq(Char) /\ Len(one) = 1
  BY <1>5
<1>7. d \in Seq(Char) /\ Len(d) = c + 1 /\ \A j \in 1 .. c : d[j] = b[j]
  <2>1. b \in Seq(Char) /\ one \in Seq(Char) /\ Len(b) = c
    BY <1>4, <1>6
  <2>2. /\ b \o one \in Seq(Char) /\ Len(b \o one) = Len(b) + Len(one)
        /\ \A j \in 1 .. Len(b) : (b \o one)[j] = b[j]
    BY <2>1, Joins
  <2> QED
    BY <1>5, <1>6, <2>1, <2>2
<1>8. /\ x \in Seq(Char) /\ Len(x) = n + 1
      /\ \A j \in 1 .. c + 1 : x[j] = d[j]
      /\ \A j \in c + 2 .. n + 1 : x[j] = a[j - (c + 1)]
  <2>1. d \in Seq(Char) /\ a \in Seq(Char) /\ Len(d) = c + 1 /\ Len(a) = n - h + 1
    BY <1>4, <1>7
  <2>2. /\ d \o a \in Seq(Char) /\ Len(d \o a) = Len(d) + Len(a)
        /\ \A j \in 1 .. Len(d) : (d \o a)[j] = d[j]
        /\ \A j \in Len(d) + 1 .. Len(d) + Len(a) : (d \o a)[j] = a[j - Len(d)]
    BY <2>1, Joins
  <2>3. Len(d) + 1 = c + 2 /\ Len(d) + Len(a) = n + 1
    <3>1. \A p, q : p = c + 1 /\ q = n - h + 1 => p + 1 = c + 2 /\ p + q = n + 1
      BY <1>2, <1>3
    <3> QED
      BY <2>1, <3>1, Zenon
  <2>4. x = d \o a
    BY <1>5
  <2> QED
    BY <2>1, <2>2, <2>3, <2>4, Zenon
<1>9. ASSUME NEW j \in 1 .. c PROVE x[j] = s[j]
  <2>1. j \in 1 .. c + 1
    BY <1>2
  <2> QED
    BY <1>4, <1>7, <1>8, <2>1
<1>10. ASSUME NEW j \in c + 2 .. n + 1 PROVE x[j] = s[j - 1]
  <2>1. PICK g : g = j - 1
    OBVIOUS
  <2>2. g \in h .. n /\ g - h + 1 = j - (c + 1)
    BY <1>2, <1>3, <2>1
  <2>3. a[g - h + 1] = s[g] /\ x[j] = a[j - (c + 1)]
    BY <1>4, <1>8, <2>2
  <2> QED
    BY <2>1, <2>2, <2>3
<1> QED
  BY <1>1, <1>2, <1>8, <1>9, <1>10 DEF Inserted, Bytes

LEMMA ErasedFromLine ==
  ASSUME NEW s \in Line, NEW c \in 1 .. Len(s), NEW x, x = RemoveAt(s, c)
  PROVE  Inserted(x, s, c - 1)
<1>1. PICK n, e : n = Len(s) /\ e = c - 1
  OBVIOUS
<1>2. s \in Seq(Char) /\ s \in Bytes /\ n \in Nat /\ c \in 1 .. n /\ c \in Nat /\ e \in 0 .. n
  <2>1. s \in Seq(Char) /\ s \in Bytes /\ n \in Nat
    BY <1>1, LineBytes DEF Bytes
  <2> QED
    BY <1>1, <2>1
<1>3. PICK h \in 1 .. n + 1 : h = c + 1
  BY <1>2
<1>4. PICK a, b : b = SubSeq(s, 1, e) /\ a = SubSeq(s, h, n)
  OBVIOUS
<1>5. /\ b \in Seq(Char) /\ Len(b) = e /\ a \in Seq(Char) /\ Len(a) = n - h + 1
      /\ \A j \in 1 .. e : b[j] = s[j]
      /\ \A j \in h .. n : a[j - h + 1] = s[j]
  <2>1. e \in 0 .. Len(s) /\ h \in 1 .. Len(s) + 1
    BY <1>1, <1>2
  <2>2. /\ SubSeq(s, 1, e) \in Seq(Char) /\ Len(SubSeq(s, 1, e)) = e
        /\ SubSeq(s, h, Len(s)) \in Seq(Char) /\ Len(SubSeq(s, h, Len(s))) = Len(s) - h + 1
        /\ \A j \in 1 .. e : SubSeq(s, 1, e)[j] = s[j]
        /\ \A j \in h .. Len(s) : SubSeq(s, h, Len(s))[j - h + 1] = s[j]
    BY <1>2, <2>1, Halves
  <2>3. b = SubSeq(s, 1, e) /\ a = SubSeq(s, h, Len(s)) /\ Len(s) = n
    BY <1>1, <1>4
  <2> QED
    BY <2>2, <2>3, Zenon
<1>6. x = b \o a
  BY <1>1, <1>3, <1>4 DEF RemoveAt
<1>7. /\ x \in Seq(Char) /\ Len(x) = n - 1
      /\ \A j \in 1 .. e : x[j] = b[j]
      /\ \A j \in c .. n - 1 : x[j] = a[j - e]
  <2>1. b \in Seq(Char) /\ a \in Seq(Char) /\ Len(b) = e /\ Len(a) = n - h + 1
    BY <1>5
  <2>2. /\ b \o a \in Seq(Char) /\ Len(b \o a) = Len(b) + Len(a)
        /\ \A j \in 1 .. Len(b) : (b \o a)[j] = b[j]
        /\ \A j \in Len(b) + 1 .. Len(b) + Len(a) : (b \o a)[j] = a[j - Len(b)]
    BY <2>1, Joins
  <2>3. Len(b) + 1 = c /\ Len(b) + Len(a) = n - 1
    BY <1>1, <1>2, <1>3, <2>1
  <2> QED
    BY <1>6, <2>1, <2>2, <2>3, Zenon
<1>8. ASSUME NEW j \in 1 .. e PROVE s[j] = x[j]
  BY <1>5, <1>7
<1>9. ASSUME NEW j \in c + 1 .. n PROVE s[j] = x[j - 1]
  <2>1. PICK g : g = j - 1
    OBVIOUS
  <2>2. j \in h .. n /\ g \in c .. n - 1 /\ j - h + 1 = g - e
    BY <1>1, <1>2, <1>3, <2>1
  <2>3. a[j - h + 1] = s[j] /\ x[g] = a[g - e]
    BY <1>5, <1>7, <2>2
  <2> QED
    BY <2>1, <2>2, <2>3
<1>10. e + 2 = c + 1 /\ e \in 0 .. Len(x) /\ n = Len(x) + 1
  BY <1>1, <1>2, <1>7
<1> QED
  BY <1>1, <1>2, <1>7, <1>8, <1>9, <1>10 DEF Inserted, Bytes

\* Another line in the place of one.
LEMMA LineChanged ==
  ASSUME NEW ls \in Seq(Line), NEW l \in Nat, l < Len(ls), NEW x \in Line,
         NEW ms, ms = [ls EXCEPT ![l + 1] = x]
  PROVE  /\ ms \in Seq(Line) /\ Above(ms, l) = Above(ls, l)
         /\ Reads(WholeOf(ms), Above(ls, l), x, Below(ls, l))
<1>1. PICK n, i : n = Len(ls) /\ i = l + 1
  OBVIOUS
<1>2. n \in Nat /\ i \in 1 .. n /\ l < n
  <2>1. n \in Nat
    BY <1>1
  <2> QED
    BY <1>1, <2>1
<1>3. /\ ms \in Seq(Line) /\ Len(ms) = n /\ ms[i] = x
      /\ \A j \in 1 .. n : j # i => ms[j] = ls[j]
  BY <1>1, <1>2, ExceptSeq
<1>4. SubSeq(ms, 1, l) = SubSeq(ls, 1, l)
  <2>1. \A j \in 1 .. l : ms[j] = ls[j]
    BY <1>1, <1>2, <1>3
  <2>2. l <= Len(ms) /\ l <= Len(ls)
    BY <1>1, <1>2, <1>3
  <2> QED
    BY <1>3, <2>1, <2>2, SameFront
<1>5. SubSeq(ms, l + 2, n) = SubSeq(ls, l + 2, n)
  <2>1. PICK h \in Nat : h = l + 2
    OBVIOUS
  <2>2. \A j \in h .. Len(ls) : ms[j] = ls[j]
    BY <1>1, <1>2, <1>3, <2>1
  <2>3. h >= 1 /\ h <= Len(ls) + 1 /\ Len(ms) = Len(ls)
    BY <1>1, <1>2, <1>3, <2>1
  <2>4. SubSeq(ms, h, Len(ls)) = SubSeq(ls, h, Len(ls))
    BY <1>3, <2>2, <2>3, SameBack
  <2> QED
    BY <1>1, <2>1, <2>4
<1>6. l < Len(ms) /\ Reads(WholeOf(ms), Above(ms, l), ms[l + 1], Below(ms, l))
  <2>1. l < Len(ms)
    BY <1>2, <1>3
  <2> QED
    BY <1>3, <2>1, ReadsAt
<1> QED
  BY <1>1, <1>3, <1>4, <1>5, <1>6 DEF Above, Below

-----------------------------------------------------------------------------
(***************************************************************************)
(* The keys, on the text.                                                  *)
(***************************************************************************)

\* The text and the place of the cursor in it, at a key.
LEMMA TextAtCursor ==
  ASSUME IInv, NEW l, l = line, NEW c, c = col
  PROVE  /\ lines \in Seq(Line) /\ l \in Nat /\ l < Len(lines) /\ Len(lines) \in Nat
         /\ Cur = lines[l + 1] /\ Cur \in Line /\ Len(Cur) \in Nat /\ c \in 0 .. Len(Cur)
         /\ Joined = WholeOf(lines) /\ Offset = OffsetOf(lines, l, c)
         /\ Offset = Len(Above(lines, l)) + c
         /\ Above(lines, l) \in Bytes /\ Len(Above(lines, l)) \in Nat
         /\ Reads(Joined, Above(lines, l), Cur, Below(lines, l))
<1>1. /\ lines \in Seq(Line) /\ l \in Nat /\ l + 1 \in 1 .. Len(lines) /\ Len(lines) \in Nat
      /\ Cur = lines[l + 1] /\ Cur \in Line /\ Len(Cur) \in Nat /\ c \in 0 .. Len(Cur)
  BY LinesTyped, CutAtCursor DEF IInv, Stands, Cur
<1>2. l < Len(lines)
  BY <1>1
<1>3. Joined = WholeOf(lines) /\ Offset = OffsetOf(lines, l, c)
  BY DEF Joined, Offset, WholeOf, OffsetOf
<1>4. /\ Reads(WholeOf(lines), Above(lines, l), lines[l + 1], Below(lines, l))
      /\ OffsetOf(lines, l, c) = Len(Above(lines, l)) + c
      /\ Above(lines, l) \in Bytes
  BY <1>1, <1>2, ReadsAt
<1>5. Len(Above(lines, l)) \in Nat
  BY <1>4, LenProperties DEF Bytes
<1> QED
  BY <1>1, <1>2, <1>3, <1>4, <1>5

LEMMA TextAfterKey ==
  /\ Joined' = WholeOf(lines')
  /\ Offset' = OffsetOf(lines', line', col')
BY DEF Joined, Offset, WholeOf, OffsetOf

LEMMA TypeInserts ==
  ASSUME IInv, NEW k, Type(k)
  PROVE  Inserted(Joined, Joined', Offset) /\ Offset' = Offset + 1
<1>1. PICK l, c, s, b, a : l = line /\ c = col /\ s = Cur /\ b = Before /\ a = After
  OBVIOUS
<1>2. /\ lines \in Seq(Line) /\ l \in Nat /\ l < Len(lines) /\ s = lines[l + 1]
      /\ s \in Line /\ c \in 0 .. Len(s) /\ Len(s) \in Nat
      /\ Offset = Len(Above(lines, l)) + c /\ Len(Above(lines, l)) \in Nat
      /\ Reads(Joined, Above(lines, l), s, Below(lines, l))
  BY <1>1, TextAtCursor
<1>3. b \in Line /\ a \in Line
  BY <1>1, CutAtCursor
<1>4. k \in Char \ {NewLine}
  BY DEF Type, Printable, Char, NewLine
<1>5. PICK one, d, x : one = <<k>> /\ d = b \o one /\ x = d \o a
  OBVIOUS
<1>6. x \in Line
  <2>1. one \in Line
    BY <1>4, <1>5 DEF Line
  <2>2. d \in Line
    BY <1>3, <1>5, <2>1, Joint, ZenonT(60)
  <2> QED
    BY <1>3, <1>5, <2>2, Joint, ZenonT(60)
<1>7. Inserted(s, x, c)
  <2>1. b = SubSeq(s, 1, c) /\ a = SubSeq(s, c + 1, Len(s)) /\ x = b \o <<k>> \o a
    BY <1>1, <1>5 DEF Before, After
  <2> QED
    BY <1>2, <1>4, <2>1, TypedIntoLine
<1>8. PICK ms : ms = [lines EXCEPT ![l + 1] = x]
  OBVIOUS
<1>9. /\ Reads(WholeOf(ms), Above(lines, l), x, Below(lines, l))
      /\ ms \in Seq(Line) /\ Above(ms, l) = Above(lines, l)
  BY <1>2, <1>6, <1>8, LineChanged
<1>10. lines' = ms /\ line' = l /\ col' = c + 1
  BY <1>1, <1>5, <1>8 DEF Type
<1>11. Joined' = WholeOf(ms) /\ Offset' = OffsetOf(ms, l, c + 1)
  BY <1>10, TextAfterKey
<1>12. Inserted(Joined, Joined', Offset)
  BY <1>2, <1>7, <1>9, <1>11, InsertedInLine
<1>13. OffsetOf(ms, l, c + 1) = Len(Above(lines, l)) + (c + 1)
  BY <1>9 DEF OffsetOf, Above
<1> QED
  BY <1>2, <1>11, <1>12, <1>13

\* The two parts of a line are the line.
LEMMA Rejoined ==
  ASSUME NEW s \in Line, NEW c \in 0 .. Len(s)
  PROVE  s = SubSeq(s, 1, c) \o SubSeq(s, c + 1, Len(s))
<1>1. PICK n, h : n = Len(s) /\ h = c + 1
  OBVIOUS
<1>2. s \in Seq(Char) /\ n \in Nat /\ c \in 0 .. n /\ c \in Nat /\ h \in 1 .. n + 1
  <2>1. s \in Seq(Char) /\ n \in Nat
    BY <1>1, LineBytes DEF Bytes
  <2> QED
    BY <1>1, <2>1
<1>3. PICK a, b : b = SubSeq(s, 1, c) /\ a = SubSeq(s, h, n)
  OBVIOUS
<1>4. /\ b \in Seq(Char) /\ Len(b) = c /\ a \in Seq(Char) /\ Len(a) = n - h + 1
      /\ \A j \in 1 .. c : b[j] = s[j]
      /\ \A j \in h .. n : a[j - h + 1] = s[j]
  <2>1. c \in 0 .. Len(s) /\ h \in 1 .. Len(s) + 1
    BY <1>1, <1>2
  <2>2. /\ SubSeq(s, 1, c) \in Seq(Char) /\ Len(SubSeq(s, 1, c)) = c
        /\ SubSeq(s, h, Len(s)) \in Seq(Char) /\ Len(SubSeq(s, h, Len(s))) = Len(s) - h + 1
        /\ \A j \in 1 .. c : SubSeq(s, 1, c)[j] = s[j]
        /\ \A j \in h .. Len(s) : SubSeq(s, h, Len(s))[j - h + 1] = s[j]
    BY <1>2, <2>1, Halves
  <2> QED
    BY <1>1, <1>3, <2>2, Zenon
<1>5. PICK u : u = b \o a
  OBVIOUS
<1>6. /\ u \in Seq(Char) /\ Len(u) = n
      /\ \A j \in 1 .. c : u[j] = b[j]
      /\ \A j \in h .. n : u[j] = a[j - c]
  <2>1. b \in Seq(Char) /\ a \in Seq(Char) /\ Len(b) = c /\ Len(a) = n - h + 1
    BY <1>4
  <2>2. /\ b \o a \in Seq(Char) /\ Len(b \o a) = Len(b) + Len(a)
        /\ \A j \in 1 .. Len(b) : (b \o a)[j] = b[j]
        /\ \A j \in Len(b) + 1 .. Len(b) + Len(a) : (b \o a)[j] = a[j - Len(b)]
    BY <2>1, Joins
  <2>3. c + 1 = h /\ \A p : p = n - h + 1 => c + p = n
    BY <1>1, <1>2
  <2> QED
    BY <1>5, <2>1, <2>2, <2>3, Zenon
<1>7. \A j \in 1 .. n : u[j] = s[j]
  <2> TAKE j \in 1 .. n
  <2>1. CASE j <= c
    BY <1>4, <1>6, <2>1
  <2>2. CASE ~(j <= c)
    <3>1. j \in h .. n /\ j - h + 1 = j - c
      BY <1>1, <1>2, <2>2
    <3>2. a[j - h + 1] = s[j] /\ u[j] = a[j - c]
      BY <1>4, <1>6, <3>1
    <3> QED
      BY <3>1, <3>2
  <2> QED
    BY <1>2, <2>1, <2>2
<1>8. u = s
  BY <1>1, <1>2, <1>6, <1>7, SeqEqual
<1> QED
  BY <1>1, <1>3, <1>5, <1>8

LEMMA EnterInserts ==
  ASSUME IInv, NEW k, Enter(k)
  PROVE  Inserted(Joined, Joined', Offset) /\ Offset' = Offset + 1
<1>1. PICK l, c, s, b, a, n : /\ l = line /\ c = col /\ s = Cur /\ b = Before /\ a = After
                              /\ n = Len(lines)
  OBVIOUS
<1>2. /\ lines \in Seq(Line) /\ l \in Nat /\ l < n /\ s = lines[l + 1]
      /\ s \in Line /\ c \in 0 .. Len(s) /\ Len(s) \in Nat
      /\ Offset = Len(Above(lines, l)) + c /\ Len(Above(lines, l)) \in Nat
      /\ Reads(Joined, Above(lines, l), s, Below(lines, l))
  BY <1>1, TextAtCursor
<1>3. b \in Line /\ a \in Line /\ Len(b) = c /\ s = b \o a
  <2>1. b = SubSeq(s, 1, c) /\ a = SubSeq(s, c + 1, Len(s))
    BY <1>1 DEF Before, After
  <2>2. s = b \o a
    BY <1>2, <2>1, Rejoined
  <2> QED
    BY <1>1, <2>2, CutAtCursor
<1>4. PICK top, rest : top = SubSeq(lines, 1, l) /\ rest = SubSeq(lines, l + 2, n)
  OBVIOUS
<1>5. top \in Seq(Line) /\ Len(top) = l /\ rest \in Seq(Line)
  <2>1. PICK i : i = l + 1 /\ i <= Len(lines)
    BY <1>1, <1>2
  <2> QED
    BY <1>1, <1>2, <1>4, <2>1, CutLines
<1>6. PICK up : up = Append(top, b)
  OBVIOUS
<1>7. up \in Seq(Line) /\ Len(up) = l + 1
  BY <1>2, <1>3, <1>5, <1>6
<1>8. top \o <<b, a>> = Append(up, a)
  <2>1. PICK two, u, v : two = <<b, a>> /\ u = top \o two /\ v = Append(up, a)
    OBVIOUS
  <2>2. two \in Seq(Line) /\ Len(two) = 2 /\ two[1] = b /\ two[2] = a
    BY <1>3, <2>1
  <2>3. /\ v \in Seq(Line) /\ Len(v) = l + 2 /\ v[l + 1] = b /\ v[l + 2] = a
        /\ \A i \in 1 .. l : v[i] = top[i]
    BY <1>2, <1>3, <1>5, <1>6, <2>1
  <2>4. /\ u \in Seq(Line) /\ Len(u) = l + 2
        /\ \A i \in 1 .. l : u[i] = top[i]
        /\ \A i \in l + 1 .. l + 2 : u[i] = two[i - l]
    <3>1. /\ top \o two \in Seq(Line) /\ Len(top \o two) = Len(top) + Len(two)
          /\ \A i \in 1 .. Len(top) : (top \o two)[i] = top[i]
          /\ \A i \in Len(top) + 1 .. Len(top) + Len(two) : (top \o two)[i] = two[i - Len(top)]
      BY <1>5, <2>2, Joins
    <3> QED
      BY <1>5, <2>1, <2>2, <3>1, Zenon
  <2>5. \A i \in 1 .. l + 2 : u[i] = v[i]
    <3> TAKE i \in 1 .. l + 2
    <3>1. CASE i \in 1 .. l
      BY <2>3, <2>4, <3>1
    <3>2. CASE i = l + 1
      <4>1. i \in l + 1 .. l + 2 /\ i - l = 1
        BY <1>2, <3>2
      <4> QED
        BY <2>2, <2>3, <2>4, <3>2, <4>1
    <3>3. CASE i = l + 2
      <4>1. i \in l + 1 .. l + 2 /\ i - l = 2
        BY <1>2, <3>3
      <4> QED
        BY <2>2, <2>3, <2>4, <3>3, <4>1
    <3> QED
      BY <1>2, <3>1, <3>2, <3>3
  <2>6. u = v
    BY <2>3, <2>4, <2>5, SeqEqual
  <2> QED
    BY <2>1, <2>6
<1>9. PICK ms : ms = At(up, a, rest)
  OBVIOUS
<1>10. lines' = ms /\ line' = Len(up) /\ col' = 0
  BY <1>1, <1>4, <1>7, <1>8, <1>9 DEF Enter, At
<1>11. /\ Reads(WholeOf(ms), Terminated(up), a, Terminated(rest))
       /\ OffsetOf(ms, Len(up), 0) = Len(Terminated(up)) + 0
  BY <1>3, <1>5, <1>7, <1>9, WholeReads
<1>12. Joined' = WholeOf(ms) /\ Offset' = Len(Terminated(up)) + 0
  BY <1>10, <1>11, TextAfterKey
<1>13. PICK t, y, r : t = Terminated(top) /\ y = Terminated(up) /\ r = Terminated(rest)
  OBVIOUS
<1>14. y = t \o Append(b, NewLine) /\ t \in Bytes
  BY <1>3, <1>5, <1>6, <1>13, TerminatedStep
<1>15. t = Above(lines, l) /\ r = Below(lines, l)
  BY <1>1, <1>4, <1>13 DEF Above, Below
<1>16. Inserted(Joined, Joined', Len(t) + Len(b))
  <2>1. Reads(Joined, t, s, r) /\ Reads(Joined', y, a, r)
    BY <1>2, <1>11, <1>12, <1>13, <1>15
  <2> QED
    BY <1>3, <1>14, <2>1, InsertedNewLine
<1>17. Len(y) = Len(t) + c + 1
  <2>1. PICK e : e = Append(b, NewLine)
    OBVIOUS
  <2>2. e \in Seq(Char) /\ Len(e) = c + 1 /\ t \in Seq(Char)
    BY <1>3, <1>14, <2>1, LineBytes DEF Bytes
  <2>3. Len(t \o e) = Len(t) + Len(e) /\ Len(t) \in Nat
    BY <2>2, Joins
  <2> QED
    BY <1>2, <1>14, <2>1, <2>2, <2>3
<1> QED
  BY <1>2, <1>3, <1>12, <1>13, <1>15, <1>16, <1>17

LEMMA BackspaceErases ==
  ASSUME IInv, NEW k, Backspace(k)
  PROVE  Inserted(Joined', Joined, Offset') /\ Offset = Offset' + 1
<1>1. PICK l, c, s, n : l = line /\ c = col /\ s = Cur /\ n = Len(lines)
  OBVIOUS
<1>2. /\ lines \in Seq(Line) /\ l \in Nat /\ l < n /\ n \in Nat /\ s = lines[l + 1]
      /\ s \in Line /\ c \in 0 .. Len(s) /\ Len(s) \in Nat
      /\ Offset = Len(Above(lines, l)) + c /\ Len(Above(lines, l)) \in Nat
      /\ Reads(Joined, Above(lines, l), s, Below(lines, l))
  BY <1>1, TextAtCursor
<1>3. CASE c > 0
  <2>1. PICK x, ms : x = RemoveAt(s, c) /\ ms = [lines EXCEPT ![l + 1] = x]
    OBVIOUS
  <2>2. lines' = ms /\ line' = l /\ col' = c - 1
    BY <1>1, <1>2, <1>3, <2>1 DEF Backspace
  <2>3. c \in 1 .. Len(s) /\ c - 1 \in Nat
    BY <1>2, <1>3
  <2>4. x \in Line /\ Inserted(x, s, c - 1)
    <3>1. x \in Line
      BY <1>2, <2>1, <2>3, Removed DEF Line
    <3> QED
      BY <1>2, <2>1, <2>3, <3>1, ErasedFromLine
  <2>5. /\ Reads(WholeOf(ms), Above(lines, l), x, Below(lines, l))
        /\ Above(ms, l) = Above(lines, l)
    <3>1. l < Len(lines)
      BY <1>1, <1>2
    <3> QED
      <4>1. ms = [lines EXCEPT ![l + 1] = x] /\ x \in Line
        BY <2>1, <2>4
      <4>2. lines \in Seq(Line) /\ l \in Nat
        BY <1>2
      <4> QED
        BY <3>1, <4>1, <4>2, LineChanged
  <2>6. Joined' = WholeOf(ms) /\ Offset' = OffsetOf(ms, l, c - 1)
    BY <2>2, TextAfterKey
  <2>7. OffsetOf(ms, l, c - 1) = Len(Above(lines, l)) + (c - 1)
    BY <2>5 DEF OffsetOf, Above
  <2>8. Inserted(Joined', Joined, Len(Above(lines, l)) + (c - 1))
    BY <1>2, <2>4, <2>5, <2>6, InsertedInLine
  <2> QED
    BY <1>2, <2>6, <2>7, <2>8
<1>4. CASE ~(c > 0)
  <2>1. c = 0 /\ l > 0
    BY <1>1, <1>2, <1>4 DEF Backspace
  <2>2. PICK g \in Nat : g = l - 1 /\ g + 1 = l /\ g < n /\ g < Len(lines) /\ l \in 1 .. n
    BY <1>1, <1>2, <2>1
  <2>3. PICK p, x, ls : p = lines[l] /\ x = p \o s /\ ls = [lines EXCEPT ![l] = x]
    OBVIOUS
  <2>4. p \in Line /\ x \in Line
    <3>1. p \in Line
      BY <1>1, <1>2, <2>2, <2>3
    <3> QED
      BY <1>2, <2>3, <3>1, Joint
  <2>5. /\ ls \in Seq(Line) /\ Len(ls) = n /\ ls[l] = x
        /\ \A j \in 1 .. n : j # l => ls[j] = lines[j]
    <3>1. l \in 1 .. Len(lines)
      BY <1>1, <2>2
    <3>2. /\ ls \in Seq(Line) /\ Len(ls) = Len(lines) /\ ls[l] = x
          /\ \A j \in 1 .. Len(lines) : j # l => ls[j] = lines[j]
      <4>1. /\ [lines EXCEPT ![l] = x] \in Seq(Line)
            /\ Len([lines EXCEPT ![l] = x]) = Len(lines)
            /\ \A j \in 1 .. Len(lines) :
                 [lines EXCEPT ![l] = x][j] = IF j = l THEN x ELSE lines[j]
        BY <1>2, <2>4, <3>1, ExceptSeq
      <4> QED
        BY <2>3, <3>1, <4>1
    <3> QED
      BY <1>1, <3>2
  <2>6. PICK top, rest : top = SubSeq(lines, 1, g) /\ rest = SubSeq(lines, l + 2, n)
    OBVIOUS
  <2>7. top \in Seq(Line) /\ Len(top) = g /\ rest \in Seq(Line)
    <3>1. PICK i : i = l + 1 /\ i <= Len(lines)
      BY <1>1, <1>2
    <3>2. rest \in Seq(Line)
      BY <1>1, <1>2, <2>6, <3>1, CutLines
    <3>3. g <= Len(lines) /\ \A j \in 1 .. g : lines[j] = lines[j]
      BY <2>2
    <3> QED
      BY <1>2, <2>6, <3>2, <3>3, SameFront
  <2>8. SubSeq(ls, 1, g) = top
    <3>1. \A j \in 1 .. g : ls[j] = lines[j]
      BY <2>2, <2>5
    <3>2. g <= Len(ls) /\ g <= Len(lines)
      BY <2>2, <2>5
    <3> QED
      BY <1>2, <2>5, <2>6, <3>1, <3>2, SameFront
  <2>9. SubSeq(ls, l + 2, n) = rest
    <3>1. PICK h \in Nat : h = l + 2
      BY <1>2
    <3>2. h >= 1 /\ h <= Len(lines) + 1 /\ Len(ls) = Len(lines)
      BY <1>1, <1>2, <2>5, <3>1
    <3>3. \A j \in h .. Len(lines) : ls[j] = lines[j]
      BY <1>1, <1>2, <2>5, <3>1
    <3>4. SubSeq(ls, h, Len(lines)) = SubSeq(lines, h, Len(lines))
      BY <1>2, <2>5, <3>2, <3>3, SameBack
    <3> QED
      BY <1>1, <2>6, <3>1, <3>4
  <2>10. SubSeq(ls, 1, l) = Append(top, x)
    <3>1. l = g + 1 /\ l <= Len(ls) /\ x = ls[l]
      BY <2>2, <2>5
    <3>2. SubSeq(ls, 1, l) = Append(SubSeq(ls, 1, g), x)
      BY <2>5, <3>1, CutLines
    <3> QED
      BY <2>8, <3>2
  <2>11. PICK ms : ms = At(top, x, rest)
    OBVIOUS
  <2>12. lines' = ms /\ line' = g /\ col' = Len(p)
    <3>1. lines' = RemoveAt(ls, l + 1) /\ line' = l - 1 /\ col' = Len(p)
      BY <1>1, <1>4, <2>3 DEF Backspace
    <3>2. RemoveAt(ls, l + 1) = SubSeq(ls, 1, l) \o SubSeq(ls, l + 2, n)
      <4>1. PICK i : i = l + 1 /\ i - 1 = l /\ i + 1 = l + 2
        BY <1>2
      <4>2. RemoveAt(ls, i) = SubSeq(ls, 1, i - 1) \o SubSeq(ls, i + 1, Len(ls))
        BY Zenon DEF RemoveAt
      <4> QED
        BY <2>5, <4>1, <4>2, Zenon
    <3> QED
      BY <2>2, <2>9, <2>10, <2>11, <3>1, <3>2 DEF At
  <2>13. PICK t, r : t = Terminated(top) /\ r = Terminated(rest)
    OBVIOUS
  <2>14. Reads(WholeOf(ms), t, x, r) /\ OffsetOf(ms, g, Len(p)) = Len(t) + Len(p)
    BY <2>4, <2>7, <2>11, <2>13, WholeReads
  <2>15. Joined' = WholeOf(ms) /\ Offset' = Len(t) + Len(p)
    BY <2>12, <2>14, TextAfterKey
  <2>16. t = Above(lines, g) /\ r = Below(lines, l)
    BY <1>1, <2>6, <2>13 DEF Above, Below
  <2>17. PICK y : y = Above(lines, l)
    OBVIOUS
  <2>18. y = t \o Append(p, NewLine) /\ t \in Bytes
    <3>1. /\ Above(lines, g + 1) = Above(lines, g) \o Append(lines[g + 1], NewLine)
          /\ Above(lines, g) \in Bytes
      BY <1>2, <2>2, ReadsAt
    <3> QED
      BY <2>2, <2>3, <2>16, <2>17, <3>1
  <2>19. Inserted(Joined', Joined, Len(t) + Len(p))
    <3>1. Reads(Joined', t, x, r) /\ Reads(Joined, y, s, r)
      BY <1>2, <2>14, <2>15, <2>16, <2>17
    <3> QED
      BY <1>2, <2>3, <2>4, <2>18, <3>1, InsertedNewLine
  <2>20. Len(y) = Len(t) + Len(p) + 1 /\ Len(t) \in Nat /\ Len(p) \in Nat
    <3>1. PICK e : e = Append(p, NewLine)
      OBVIOUS
    <3>2. e \in Seq(Char) /\ Len(e) = Len(p) + 1 /\ t \in Seq(Char) /\ Len(p) \in Nat
      BY <2>4, <2>18, <3>1, LineBytes DEF Bytes
    <3>3. Len(t \o e) = Len(t) + Len(e) /\ Len(t) \in Nat
      BY <3>2, Joins
    <3> QED
      BY <2>18, <3>1, <3>2, <3>3
  <2> QED
    BY <1>2, <2>1, <2>15, <2>17, <2>19, <2>20
<1> QED
  BY <1>3, <1>4

-----------------------------------------------------------------------------
(***************************************************************************)
(* What the keys do to the text is what TextBuffer promises.               *)
(***************************************************************************)

LEMMA InsertsText ==
  ASSUME Inserted(Joined, Joined', Offset), Offset' = Offset + 1
  PROVE  Text!Insert
<1>1. PICK w, v, p : w = Joined /\ v = Joined' /\ p = Offset
  OBVIOUS
<1>2. /\ p \in Nat /\ Len(v) = Len(w) + 1 /\ v[p + 1] \in Char
      /\ w = SubSeq(v, 1, p) \o SubSeq(v, p + 2, Len(v))
  BY <1>1, InsertedMeans
<1> QED
  BY <1>1, <1>2 DEF Text!Insert

LEMMA ErasesText ==
  ASSUME Inserted(Joined', Joined, Offset'), Offset = Offset' + 1
  PROVE  Text!Erase
<1>1. PICK w, v, p, q : w = Joined' /\ v = Joined /\ p = Offset' /\ q = Offset
  OBVIOUS
<1>2. p \in Nat /\ w = SubSeq(v, 1, p) \o SubSeq(v, p + 2, Len(v))
  BY <1>1, InsertedMeans
<1>3. q > 0 /\ p = q - 1 /\ p + 2 = q + 1
  <2>1. p \in Nat /\ q = p + 1
    BY <1>1, <1>2
  <2> QED
    BY <2>1
<1> QED
  BY <1>1, <1>2, <1>3 DEF Text!Erase

\* Where the newlines of a text are, and where they are not.
LEMMA BreaksAt ==
  ASSUME NEW w, NEW t, NEW s, NEW r, Reads(w, t, s, r)
  PROVE  /\ Len(t) \in Nat /\ Len(s) \in Nat /\ Len(w) \in Nat /\ DOMAIN w = 1 .. Len(w)
         /\ Len(t) + Len(s) <= Len(w)
         /\ \A i \in Len(t) + 1 .. Len(t) + Len(s) : w[i] # NewLine
         /\ Len(w) > Len(t) + Len(s) => w[Len(t) + Len(s) + 1] = NewLine
         /\ \A i \in 1 .. Len(t) : w[i] = t[i]
<1>0. PICK m, n : m = Len(t) /\ n = Len(s)
  OBVIOUS
<1>1. w \in Seq(Char) /\ t \in Seq(Char) /\ s \in Line /\ r \in Seq(Char)
  BY DEF Reads, Bytes
<1>2. m \in Nat /\ n \in Nat /\ Len(w) \in Nat /\ Len(r) \in Nat /\ DOMAIN w = 1 .. Len(w)
  BY <1>0, <1>1, LineBytes, LenProperties
<1>3. Len(w) = m + n + Len(r)
  BY <1>0 DEF Reads
<1>4. ASSUME NEW i \in m + 1 .. m + n PROVE w[i] # NewLine
  <2>1. PICK j : j = i - m
    OBVIOUS
  <2>2. w[i] = s[j] /\ j \in 1 .. n
    <3>1. \A h \in m + 1 .. m + n : w[h] = s[h - m]
      BY <1>0 DEF Reads
    <3> QED
      BY <1>2, <2>1, <3>1
  <2>3. s[j] # NewLine
    BY <1>0, <1>1, <2>2, LineBytes
  <2> QED
    BY <2>2, <2>3
<1>5. Len(w) > m + n => w[m + n + 1] = NewLine
  <2>1. Len(r) > 0 => w[m + n + 1] = NewLine
    BY <1>0 DEF Reads
  <2> QED
    BY <1>2, <1>3, <2>1
<1>6. \A i \in 1 .. m : w[i] = t[i]
  BY <1>0 DEF Reads
<1> QED
  BY <1>0, <1>2, <1>3, <1>4, <1>5, <1>6

\* The text before a line ends with the newline of the line above.
LEMMA AboveEnds ==
  ASSUME NEW ls \in Seq(Line), NEW g \in Nat, g < Len(ls)
  PROVE  /\ Len(ls[g + 1]) \in Nat /\ Len(Above(ls, g)) \in Nat
         /\ Len(Above(ls, g + 1)) = Len(Above(ls, g)) + Len(ls[g + 1]) + 1
         /\ Above(ls, g + 1)[Len(Above(ls, g)) + Len(ls[g + 1]) + 1] = NewLine
<1>1. PICK p, t, e, y : p = ls[g + 1] /\ t = Above(ls, g) /\ e = Append(p, NewLine) /\ y = Above(ls, g + 1)
  OBVIOUS
<1>2. p \in Line
  <2>1. g + 1 \in 1 .. Len(ls)
    OBVIOUS
  <2> QED
    BY <1>1, <2>1
<1>3. y = t \o e /\ t \in Seq(Char)
  BY <1>1, ReadsAt DEF Bytes
<1>4. e \in Seq(Char) /\ Len(e) = Len(p) + 1 /\ e[Len(p) + 1] = NewLine /\ Len(p) \in Nat
  BY <1>1, <1>2, LineBytes DEF Bytes
<1>5. PICK m \in Nat, n \in Nat : m = Len(t) /\ n = Len(p)
  BY <1>3, <1>4, LenProperties
<1>6. Len(y) = m + Len(e) /\ \A i \in m + 1 .. m + Len(e) : y[i] = e[i - m]
  <2>1. /\ Len(t \o e) = Len(t) + Len(e)
        /\ \A i \in Len(t) + 1 .. Len(t) + Len(e) : (t \o e)[i] = e[i - Len(t)]
    BY <1>3, <1>4, Joins
  <2> QED
    BY <1>3, <1>5, <2>1, Zenon
<1>7. y[m + n + 1] = NewLine
  <2>0. PICK i : i = m + n + 1
    OBVIOUS
  <2>1. i - m = n + 1 /\ i \in m + 1 .. m + Len(e)
    <3>1. Len(e) = n + 1
      BY <1>4, <1>5
    <3>2. i - m = n + 1 /\ i \in m + 1 .. m + (n + 1)
      BY <1>5, <2>0
    <3> QED
      BY <3>1, <3>2, Zenon
  <2>2. y[i] = e[i - m]
    BY <1>6, <2>1
  <2> QED
    BY <1>4, <1>5, <2>0, <2>1, <2>2
<1> QED
  BY <1>1, <1>2, <1>4, <1>5, <1>6, <1>7

LEMMA ArrowMoves ==
  ASSUME IInv, NEW k, Arrow(k)
  PROVE  /\ Joined' = Joined
         /\ Text!Left \/ Text!Right \/ Text!Up \/ Text!Down \/ Offset' = Offset
<1>1. PICK key, at, l, c, n, w, m :
        /\ key = Append(prefix, k) /\ at = Target(key) /\ l = line /\ c = col
        /\ n = Len(Cur) /\ w = Joined /\ m = Len(Above(lines, l))
  OBVIOUS
<1>2. /\ lines \in Seq(Line) /\ l \in Nat /\ l < Len(lines) /\ Len(lines) \in Nat
      /\ Cur = lines[l + 1] /\ n \in Nat /\ c \in 0 .. n /\ m \in Nat
      /\ Offset = m + c /\ Offset = OffsetOf(lines, l, c) /\ w = WholeOf(lines)
      /\ Reads(w, Above(lines, l), Cur, Below(lines, l))
  BY <1>1, TextAtCursor
<1>3. lines' = lines /\ line' = at[1] /\ col' = at[2]
  BY <1>1 DEF Arrow
<1>4. Joined' = w /\ Offset' = OffsetOf(lines, at[1], at[2])
  BY <1>2, <1>3, TextAfterKey
<1>5. \/ l > 0 /\ at = <<l - 1, Len(lines[l - 1 + 1])>>
      \/ l < Len(lines) - 1 /\ at = <<l + 1, Len(lines[l + 1 + 1])>>
      \/ c < n /\ at = <<l, c + 1>>
      \/ c > 0 /\ at = <<l, c - 1>>
      \/ at = <<l, c>>
  BY <1>1 DEF Target, EndOf
<1>6. /\ Len(w) \in Nat /\ DOMAIN w = 1 .. Len(w) /\ m + n <= Len(w)
      /\ \A i \in m + 1 .. m + n : w[i] # NewLine
      /\ Len(w) > m + n => w[m + n + 1] = NewLine
      /\ \A i \in 1 .. m : w[i] = Above(lines, l)[i]
  <2>1. PICK t, s : t = Above(lines, l) /\ s = Cur
    OBVIOUS
  <2>2. Reads(w, t, s, Below(lines, l))
    BY <1>2, <2>1
  <2>3. /\ Len(w) \in Nat /\ DOMAIN w = 1 .. Len(w) /\ Len(t) + Len(s) <= Len(w)
        /\ \A i \in Len(t) + 1 .. Len(t) + Len(s) : w[i] # NewLine
        /\ Len(w) > Len(t) + Len(s) => w[Len(t) + Len(s) + 1] = NewLine
        /\ \A i \in 1 .. Len(t) : w[i] = t[i]
    BY <2>2, BreaksAt
  <2>4. Len(t) = m /\ Len(s) = n
    BY <1>1, <2>1
  <2> QED
    BY <2>1, <2>3, <2>4, Zenon
<1>7. \A i : i \in Text!Breaks <=> i \in 1 .. Len(w) /\ w[i] = NewLine
  BY <1>1, <1>6 DEF Text!Breaks
<1>8. PICK o, q : o = Offset /\ q = Offset'
  OBVIOUS
<1>9. CASE c < n /\ at = <<l, c + 1>>
  <2>1. q = m + (c + 1)
    BY <1>1, <1>4, <1>8, <1>9 DEF OffsetOf, Above
  <2>2. q = o + 1 /\ q \in m + 1 .. m + n /\ q \in 1 .. Len(w)
    BY <1>2, <1>6, <1>8, <1>9, <2>1
  <2>3. q \in DOMAIN w \ Text!Breaks
    BY <1>6, <1>7, <2>2
  <2> QED
    BY <1>1, <1>4, <1>8, <2>2, <2>3 DEF Text!Right
<1>10. CASE c > 0 /\ at = <<l, c - 1>>
  <2>1. q = m + (c - 1)
    BY <1>1, <1>4, <1>8, <1>10 DEF OffsetOf, Above
  <2>2. q = o - 1 /\ o \in m + 1 .. m + n /\ o \in 1 .. Len(w)
    BY <1>2, <1>6, <1>8, <1>10, <2>1
  <2>3. o \in 1 .. Len(w) \ Text!Breaks
    BY <1>6, <1>7, <2>2
  <2> QED
    BY <1>1, <1>4, <1>8, <2>2, <2>3 DEF Text!Left
<1>11. CASE at = <<l, c>>
  BY <1>1, <1>2, <1>4, <1>11
<1>12. CASE l > 0 /\ at = <<l - 1, Len(lines[l - 1 + 1])>>
  <2>1. PICK g \in Nat : g = l - 1 /\ g + 1 = l /\ g < Len(lines)
    BY <1>2, <1>12
  <2>2. PICK p : p = lines[g + 1]
    OBVIOUS
  <2>3. /\ Len(p) \in Nat /\ Len(Above(lines, g)) \in Nat
        /\ Len(Above(lines, g + 1)) = Len(Above(lines, g)) + Len(p) + 1
        /\ Above(lines, g + 1)[Len(Above(lines, g)) + Len(p) + 1] = NewLine
    <3>1. /\ Len(lines[g + 1]) \in Nat /\ Len(Above(lines, g)) \in Nat
          /\ Len(Above(lines, g + 1)) = Len(Above(lines, g)) + Len(lines[g + 1]) + 1
          /\ Above(lines, g + 1)[Len(Above(lines, g)) + Len(lines[g + 1]) + 1] = NewLine
      BY <1>2, <2>1, AboveEnds
    <3> QED
      BY <2>2, <3>1, Zenon
  <2>4. m = Len(Above(lines, g)) + Len(p) + 1 /\ Above(lines, l)[m] = NewLine
    BY <1>1, <2>1, <2>3
  <2>5. q = Len(Above(lines, g)) + Len(p)
    BY <1>4, <1>8, <1>12, <2>1, <2>2 DEF OffsetOf, Above
  <2>6. m \in Text!Breaks
    <3>1. m \in 1 .. m /\ m \in 1 .. Len(w)
      BY <1>2, <1>6, <2>3, <2>4
    <3>2. w[m] = NewLine
      BY <1>6, <2>4, <3>1
    <3> QED
      BY <1>7, <3>1, <3>2
  <2>7. m <= o /\ q = m - 1
    BY <1>2, <1>8, <2>3, <2>4, <2>5
  <2>8. ASSUME NEW j \in Text!Breaks, j <= o PROVE j <= m
    <3>1. j \in 1 .. Len(w) /\ w[j] = NewLine
      BY <1>7
    <3>2. j \notin m + 1 .. m + n
      BY <1>6, <3>1
    <3> QED
      BY <1>2, <1>8, <2>8, <3>1, <3>2
  <2> QED
    BY <1>1, <1>4, <1>8, <2>6, <2>7, <2>8 DEF Text!Up
<1>13. CASE l < Len(lines) - 1 /\ at = <<l + 1, Len(lines[l + 1 + 1])>>
  <2>1. PICK g \in Nat : g = l + 1 /\ g < Len(lines)
    BY <1>2, <1>13
  <2>2. PICK p, b : p = lines[g + 1] /\ b = m + n + 1
    OBVIOUS
  <2>3. /\ Len(Above(lines, g)) = b /\ Above(lines, g)[b] = NewLine /\ b \in Nat
    <3>1. /\ Len(Above(lines, l + 1)) = Len(Above(lines, l)) + Len(Cur) + 1
          /\ Above(lines, l + 1)[Len(Above(lines, l)) + Len(Cur) + 1] = NewLine
      <4>1. /\ Len(Above(lines, l + 1)) = Len(Above(lines, l)) + Len(lines[l + 1]) + 1
            /\ Above(lines, l + 1)[Len(Above(lines, l)) + Len(lines[l + 1]) + 1] = NewLine
        BY <1>2, AboveEnds
      <4> QED
        BY <1>2, <4>1, Zenon
    <3>2. Len(Above(lines, l)) + Len(Cur) + 1 = b
      BY <1>1, <2>2
    <3>3. b \in Nat
      BY <1>2, <2>2
    <3> QED
      BY <2>1, <3>1, <3>2, <3>3, Zenon
  <2>4. PICK d : d = Len(p)
    OBVIOUS
  <2>5. Reads(w, Above(lines, g), p, Below(lines, g))
    BY <1>2, <2>1, <2>2, ReadsAt
  <2>6. /\ d \in Nat /\ b + d <= Len(w)
        /\ \A i \in b + 1 .. b + d : w[i] # NewLine
        /\ Len(w) > b + d => w[b + d + 1] = NewLine
        /\ \A i \in 1 .. b : w[i] = Above(lines, g)[i]
    <3>1. PICK t : t = Above(lines, g)
      OBVIOUS
    <3>2. Reads(w, t, p, Below(lines, g))
      BY <2>5, <3>1
    <3>3. /\ Len(p) \in Nat /\ Len(t) + Len(p) <= Len(w)
          /\ \A i \in Len(t) + 1 .. Len(t) + Len(p) : w[i] # NewLine
          /\ Len(w) > Len(t) + Len(p) => w[Len(t) + Len(p) + 1] = NewLine
          /\ \A i \in 1 .. Len(t) : w[i] = t[i]
      BY <3>2, BreaksAt
    <3> QED
      BY <2>3, <2>4, <3>1, <3>3, Zenon
  <2>7. q = b + d
    BY <1>4, <1>8, <1>13, <2>1, <2>2, <2>3, <2>4 DEF OffsetOf, Above
  <2>8. b \in Text!Breaks
    <3>1. b \in 1 .. b /\ b \in 1 .. Len(w)
      BY <1>2, <1>6, <2>2, <2>3, <2>6
    <3> QED
      BY <1>7, <2>3, <2>6, <3>1
  <2>9. b > o /\ q >= b
    BY <1>2, <1>8, <2>2, <2>3, <2>6, <2>7
  <2>10. ASSUME NEW j \in Text!Breaks, j > o PROVE j >= b
    <3>1. j \in 1 .. Len(w) /\ w[j] = NewLine
      BY <1>7
    <3>2. j \notin m + 1 .. m + n
      BY <1>6, <3>1
    <3> QED
      BY <1>2, <1>8, <2>2, <2>10, <3>1, <3>2
  <2>11. q + 1 \in Text!Breaks \cup {Len(w) + 1}
    <3>1. CASE Len(w) > b + d
      <4>1. PICK i : i = b + d + 1
        OBVIOUS
      <4>2. i \in 1 .. Len(w) /\ w[i] = NewLine
        BY <1>6, <2>3, <2>6, <3>1, <4>1
      <4> QED
        BY <1>7, <2>7, <4>1, <4>2
    <3>2. CASE ~(Len(w) > b + d)
      BY <1>6, <2>3, <2>6, <2>7, <3>2
    <3> QED
      BY <3>1, <3>2
  <2>12. ASSUME NEW j \in Text!Breaks, j > b PROVE j > q
    <3>1. j \in 1 .. Len(w) /\ w[j] = NewLine
      BY <1>7
    <3>2. j \notin b + 1 .. b + d
      BY <2>6, <3>1
    <3> QED
      BY <1>6, <2>3, <2>6, <2>7, <2>12, <3>1, <3>2
  <2> QED
    BY <1>1, <1>4, <1>8, <2>8, <2>9, <2>10, <2>11, <2>12 DEF Text!Down
<1> QED
  BY <1>1, <1>4, <1>5, <1>9, <1>10, <1>11, <1>12, <1>13

\* The lines of a text, terminated, are the text with a newline at its end.
LEMMA SplitTerminated ==
  ASSUME NEW text \in Seq(Char), text # <<>>, NEW full,
         full = IF text[Len(text)] = NewLine THEN text ELSE Append(text, NewLine)
  PROVE  Terminated(Split(text)) = full
<1>1. PICK n, E : /\ Cuts(text, n, E)
                  /\ Split(text) = [j \in 1 .. n |-> SubSeq(text, E[j - 1] + 1, E[j] - 1)]
  BY SplitCuts
<1>2. PICK ls, m : ls = Split(text) /\ m = Len(text)
  OBVIOUS
<1>3. m \in Nat \ {0} /\ text \in Seq(Char) /\ NewLine \in Char
  BY <1>2, LenProperties, EmptySeq DEF NewLine, Char
<1>4. /\ n \in Nat \ {0} /\ E \in [0 .. n -> Nat] /\ E[0] = 0
      /\ \A j \in 1 .. n : E[j - 1] < E[j] /\ E[j] <= E[n]
      /\ \A j \in 1 .. n : E[j] <= m => text[E[j]] = NewLine
      /\ E[n] = IF text[m] = NewLine THEN m ELSE m + 1
  BY <1>1, <1>2 DEF Cuts
<1>5. /\ ls \in Seq(Line) /\ Len(ls) = n
      /\ \A j \in 1 .. n : ls[j] = SubSeq(text, E[j - 1] + 1, E[j] - 1)
  <2>1. ls \in Seq(Line)
    BY <1>2, SplitLines
  <2>2. DOMAIN ls = 1 .. n
    BY <1>1, <1>2
  <2>3. Len(ls) = n
    BY <1>4, <2>1, <2>2, LenProperties
  <2> QED
    BY <1>1, <1>2, <2>1, <2>3
<1>6. /\ full \in Seq(Char) /\ Len(full) = E[n] /\ E[n] \in Nat
      /\ \A i \in 1 .. m : full[i] = text[i]
      /\ \A i : i = m + 1 /\ i <= E[n] => full[i] = NewLine
  <2>1. CASE text[m] = NewLine
    BY <1>2, <1>3, <1>4, <2>1
  <2>2. CASE text[m] # NewLine
    <3>1. PICK u : u = Append(text, NewLine)
      OBVIOUS
    <3>2. u \in Seq(Char) /\ Len(u) = m + 1 /\ u[m + 1] = NewLine /\ \A i \in 1 .. m : u[i] = text[i]
      BY <1>2, <1>3, <3>1
    <3>3. full = u /\ E[n] = m + 1
      BY <1>2, <1>4, <2>2, <3>1
    <3> QED
      BY <1>3, <3>2, <3>3
  <2> QED
    BY <2>1, <2>2
<1>7. ASSUME NEW j \in 1 .. n
      PROVE  /\ E[j] \in Nat /\ E[j] \in 1 .. m + 1 /\ E[j] <= E[n]
             /\ full[E[j]] = NewLine
             /\ \A i \in 1 .. E[j] - 1 : full[i] = text[i]
  <2>1. j \in 0 .. n /\ j - 1 \in 0 .. n
    BY <1>4
  <2>2. E[j] \in Nat /\ E[j] \in 1 .. m + 1 /\ E[j] <= E[n]
    <3>1. E[j] \in Nat /\ E[j - 1] \in Nat
      BY <1>4, <2>1
    <3>2. E[j - 1] < E[j] /\ E[j] <= E[n] /\ E[n] <= m + 1
      BY <1>3, <1>4
    <3> QED
      BY <1>3, <1>6, <3>1, <3>2
  <2>3. \A i \in 1 .. E[j] - 1 : full[i] = text[i]
    <3>1. \A i \in 1 .. E[j] - 1 : i \in 1 .. m
      BY <1>3, <2>2
    <3> QED
      BY <1>6, <3>1
  <2>4. CASE E[j] <= m
    <3>1. full[E[j]] = NewLine
      BY <1>4, <1>6, <2>2, <2>4
    <3> QED
      BY <2>2, <2>3, <3>1
  <2>5. CASE ~(E[j] <= m)
    <3>1. E[j] = m + 1
      BY <1>3, <2>2, <2>5
    <3> QED
      BY <1>6, <2>2, <2>3, <3>1
  <2> QED
    BY <2>4, <2>5
<1> DEFINE T == {j \in 0 .. n : Above(ls, j) = SubSeq(full, 1, E[j])}
<1>8. 0 \in T
  <2>1. SubSeq(ls, 1, 0) = <<>> /\ SubSeq(full, 1, 0) = <<>>
    <3>1. PICK a, b : a = SubSeq(ls, 1, 0) /\ b = SubSeq(full, 1, 0)
      OBVIOUS
    <3>2. a \in Seq(Line) /\ Len(a) = 0 /\ b \in Seq(Char) /\ Len(b) = 0
      BY <1>5, <1>6, <3>1
    <3> QED
      BY <3>1, <3>2, EmptySeq
  <2>2. Terminated(<<>>) = <<>>
    <3>1. PICK s \in Line : s = <<>>
      <4>1. <<>> \in Line
        BY DEF Line
      <4> QED
        BY <4>1
    <3> QED
      BY <1>5, TerminatedStep
  <2>3. 0 \in 0 .. n
    BY <1>4
  <2> QED
    BY <1>4, <2>1, <2>2, <2>3 DEF Above
<1>9. ASSUME NEW j \in 0 .. n - 1, j \in T PROVE j + 1 \in T
  <2>0. PICK h : h = j + 1
    OBVIOUS
  <2>1. h = j + 1 /\ h \in 1 .. n /\ h - 1 = j /\ j \in Nat /\ j < Len(ls) /\ h \in 0 .. n
    <3>1. n \in Nat /\ j \in 0 .. n - 1 /\ Len(ls) = n
      BY <1>4, <1>5
    <3> QED
      BY <2>0, <3>1
  <2>2. PICK x, y, e, z, p, q :
          /\ x = SubSeq(full, 1, p) /\ y = ls[h] /\ e = Append(y, NewLine)
          /\ z = SubSeq(full, 1, q) /\ p = E[j] /\ q = E[h]
    OBVIOUS
  <2>3. p \in Nat /\ q \in Nat /\ p < q /\ q <= E[n] /\ q \in 1 .. m + 1
    <3>1. E[j] \in Nat /\ E[h] \in Nat
      BY <1>4, <2>1
    <3>2. E[h - 1] < E[h] /\ E[h] <= E[n]
      BY <1>4, <2>1
    <3> QED
      BY <1>7, <2>1, <2>2, <3>1, <3>2
  <2>4. full[q] = NewLine /\ \A i \in 1 .. q - 1 : full[i] = text[i]
    BY <1>7, <2>1, <2>2
  <2>5. /\ x \in Seq(Char) /\ Len(x) = p /\ \A i \in 1 .. p : x[i] = full[i]
    <3>1. p <= Len(full) /\ \A i \in 1 .. p : full[i] = full[i]
      BY <1>6, <2>3
    <3> QED
      BY <1>6, <2>2, <2>3, <3>1, SameFront
  <2>6. /\ z \in Seq(Char) /\ Len(z) = q /\ \A i \in 1 .. q : z[i] = full[i]
    <3>1. q <= Len(full) /\ \A i \in 1 .. q : full[i] = full[i]
      BY <1>6, <2>3
    <3> QED
      BY <1>6, <2>2, <2>3, <3>1, SameFront
  <2>7. y = SubSeq(text, p + 1, q - 1)
    BY <1>5, <2>1, <2>2
  <2>8. /\ Len(y) = q - 1 - p
        /\ \A i \in p + 1 .. q - 1 : y[i - p] = text[i]
    <3>1. /\ p + 1 \in Int /\ q - 1 \in Int
          /\ \A i \in p + 1 .. q - 1 : text[i] \in Char
      BY <1>2, <1>3, <2>3
    <3>2. /\ Len(y) = IF p + 1 <= q - 1 THEN q - 1 - (p + 1) + 1 ELSE 0
          /\ \A i \in 1 .. q - 1 - (p + 1) + 1 : y[i] = text[p + 1 + i - 1]
      BY <2>7, <3>1, SubSeqProperties
    <3>3. Len(y) = q - 1 - p
      BY <2>3, <3>2
    <3>4. ASSUME NEW i \in p + 1 .. q - 1 PROVE y[i - p] = text[i]
      <4>1. PICK g : g = i - p
        OBVIOUS
      <4>2. g \in 1 .. q - 1 - (p + 1) + 1 /\ p + 1 + g - 1 = i
        BY <2>3, <4>1
      <4>3. y[g] = text[p + 1 + g - 1]
        BY <3>2, <4>2
      <4> QED
        BY <4>1, <4>2, <4>3
    <3> QED
      BY <3>3, <3>4
  <2>9. /\ e \in Seq(Char) /\ Len(e) = q - p /\ e[q - p] = NewLine
        /\ \A i \in p + 1 .. q - 1 : e[i - p] = text[i]
    <3>1. y \in Line
      BY <1>5, <2>1, <2>2
    <3>2. /\ e \in Seq(Char) /\ Len(e) = Len(y) + 1 /\ e[Len(y) + 1] = NewLine
          /\ \A i \in 1 .. Len(y) : e[i] = y[i]
      BY <2>2, <3>1, LineBytes DEF Bytes
    <3>3. Len(y) + 1 = q - p
      BY <2>3, <2>8
    <3>4. ASSUME NEW i \in p + 1 .. q - 1 PROVE e[i - p] = text[i]
      <4>1. PICK g : g = i - p
        OBVIOUS
      <4>2. g \in 1 .. Len(y)
        BY <2>3, <2>8, <4>1
      <4>3. e[g] = y[g] /\ y[i - p] = text[i]
        BY <2>8, <3>2, <4>2
      <4> QED
        BY <4>1, <4>3
    <3> QED
      BY <3>2, <3>3, <3>4
  <2>10. PICK u : u = x \o e
    OBVIOUS
  <2>11. /\ u \in Seq(Char) /\ Len(u) = q
         /\ \A i \in 1 .. p : u[i] = x[i]
         /\ \A i \in p + 1 .. q : u[i] = e[i - p]
    <3>1. /\ x \o e \in Seq(Char) /\ Len(x \o e) = Len(x) + Len(e)
          /\ \A i \in 1 .. Len(x) : (x \o e)[i] = x[i]
          /\ \A i \in Len(x) + 1 .. Len(x) + Len(e) : (x \o e)[i] = e[i - Len(x)]
      <4>1. x \in Seq(Char) /\ e \in Seq(Char)
        BY <2>5, <2>9
      <4> QED
        BY <4>1, Joins
    <3>2. Len(x) = p /\ p + Len(e) = q
      BY <2>3, <2>5, <2>9
    <3> QED
      BY <2>10, <3>1, <3>2, Zenon
  <2>12. \A i \in 1 .. q : u[i] = z[i]
    <3> TAKE i \in 1 .. q
    <3>1. CASE i <= p
      <4>1. i \in 1 .. p
        BY <2>3, <3>1
      <4> QED
        BY <2>5, <2>6, <2>11, <4>1
    <3>2. CASE p < i /\ i < q
      <4>1. i \in p + 1 .. q - 1 /\ i \in p + 1 .. q /\ i \in 1 .. q - 1
        BY <2>3, <3>2
      <4>2. u[i] = e[i - p] /\ e[i - p] = text[i]
        BY <2>9, <2>11, <4>1
      <4>3. z[i] = full[i] /\ full[i] = text[i]
        BY <2>4, <2>6, <4>1
      <4> QED
        BY <4>2, <4>3
    <3>3. CASE i = q
      <4>1. q \in p + 1 .. q /\ q \in 1 .. q
        BY <2>3
      <4>2. u[q] = e[q - p] /\ z[q] = full[q]
        BY <2>6, <2>11, <4>1
      <4> QED
        BY <2>4, <2>9, <3>3, <4>2
    <3> QED
      BY <2>3, <3>1, <3>2, <3>3
  <2>13. u = z
    BY <2>6, <2>11, <2>12, SeqEqual
  <2>14. Above(ls, j + 1) = Above(ls, j) \o Append(ls[j + 1], NewLine)
    BY <1>5, <2>1, ReadsAt
  <2>15. Above(ls, j) = x
    BY <1>9, <2>2
  <2>16. Above(ls, h) = z
    BY <2>1, <2>2, <2>10, <2>13, <2>14, <2>15, Zenon
  <2> QED
    BY <2>1, <2>2, <2>16
<1>10. Above(ls, n) = SubSeq(full, 1, E[n])
  <2> HIDE DEF T
  <2>1. 0 .. n \subseteq T
    BY <1>4, <1>8, <1>9, Rise
  <2>2. n \in T
    BY <1>4, <2>1
  <2> QED
    BY <2>2 DEF T
<1>11. SubSeq(ls, 1, n) = ls /\ SubSeq(full, 1, E[n]) = full
  <2>1. PICK a, b : a = SubSeq(ls, 1, n) /\ b = SubSeq(full, 1, E[n])
    OBVIOUS
  <2>2. /\ a \in Seq(Line) /\ Len(a) = n /\ \A i \in 1 .. n : a[i] = ls[i]
    BY <1>4, <1>5, <2>1
  <2>3. /\ b \in Seq(Char) /\ Len(b) = E[n] /\ \A i \in 1 .. E[n] : b[i] = full[i]
    BY <1>6, <2>1
  <2>4. a = ls
    BY <1>5, <2>2, SeqEqual
  <2>5. b = full
    BY <1>6, <2>3, SeqEqual
  <2> QED
    BY <2>1, <2>4, <2>5
<1> QED
  BY <1>2, <1>10, <1>11 DEF Above

LEMMA InitText == Init => Text!Init
<1> SUFFICES ASSUME Init PROVE Text!Init
  OBVIOUS
<1>1. IInv
  BY InitInv
<1>2. PICK ls, w, n : ls = lines /\ w = Joined /\ n = Len(lines)
  OBVIOUS
<1>3. /\ ls \in Seq(Line) /\ n \in Nat \ {0} /\ ls # <<>> /\ w = WholeOf(ls)
      /\ Offset = OffsetOf(ls, n - 1, Len(ls[n]))
  <2>1. /\ lines \in Seq(Line) /\ line \in Nat /\ line < Len(lines) /\ Len(lines) \in Nat
        /\ Joined = WholeOf(lines) /\ Offset = OffsetOf(lines, line, col)
    BY <1>1, TextAtCursor
  <2>2. line = n - 1 /\ col = Len(lines[line + 1])
    BY <1>2 DEF Init, Cur
  <2>3. n - 1 + 1 = n /\ n # 0
    BY <1>2, <2>1
  <2>4. ls # <<>>
    BY <1>2, <2>1
  <2> QED
    BY <1>2, <2>1, <2>2, <2>3, <2>4
<1>4. w \in Seq(Char) /\ Terminated(ls) = Append(w, NewLine) /\ Len(w) = Offset
  BY <1>2, <1>3, WholeIs DEF Bytes
<1>5. PICK u : u = Append(w, NewLine)
  OBVIOUS
<1>6. /\ NewLine \in Char /\ Len(w) \in Nat /\ u \in Seq(Char) /\ Len(u) = Len(w) + 1
      /\ u[Len(w) + 1] = NewLine /\ \A i \in 1 .. Len(w) : u[i] = w[i]
      /\ u = w \o <<NewLine>>
  <2>1. NewLine \in Char
    BY DEF NewLine, Char
  <2>2. u = w \o <<NewLine>>
    BY <1>4, <1>5, <2>1, AppendIsConcat
  <2> QED
    BY <1>4, <1>5, <2>1, <2>2
<1>7. /\ existing \in {w, w \o <<NewLine>>}
      /\ existing = w /\ w # <<>> => w[Len(w)] # NewLine
  <2>1. CASE existing = <<>>
    <3>1. PICK s \in Line, none \in Seq(Line) : s = <<>> /\ none = <<>>
      <4>1. <<>> \in Line /\ <<>> \in Seq(Line)
        BY DEF Line
      <4> QED
        BY <4>1
    <3>2. ls = Append(none, s)
      <4>1. ls = <<s>>
        BY <1>2, <2>1, <3>1 DEF Init
      <4> QED
        BY <3>1, <4>1
    <3>3. Terminated(ls) = Terminated(none) \o Append(s, NewLine) /\ Terminated(none) = <<>>
      BY <3>1, <3>2, TerminatedStep
    <3>4. Len(u) = 1
      <4>1. PICK e : e = Append(s, NewLine)
        OBVIOUS
      <4>2. e \in Seq(Char) /\ Len(e) = 1
        BY <1>6, <3>1, <4>1
      <4>3. u = <<>> \o e
        BY <1>4, <1>5, <3>3, <4>1
      <4>4. <<>> \o e = e
        BY <4>2, ConcatEmptySeq
      <4> QED
        BY <4>2, <4>3, <4>4
    <3>5. w = <<>>
      <4>1. Len(w) = 0
        BY <1>6, <3>4
      <4> QED
        BY <1>4, <4>1, EmptySeq
    <3> QED
      BY <2>1, <3>5
  <2>2. CASE existing # <<>>
    <3>1. PICK m : m = Len(existing)
      OBVIOUS
    <3>2. existing \in Seq(Char) /\ ls = Split(existing) /\ m \in Nat \ {0}
      <4>1. existing \in Seq(Char) /\ ls = Split(existing)
        BY <1>2, <2>2, EditorAssumption DEF Init
      <4> QED
        BY <2>2, <3>1, <4>1, EmptySeq, LenProperties
    <3>3. u = IF existing[m] = NewLine THEN existing ELSE Append(existing, NewLine)
      BY <1>4, <1>5, <2>2, <3>1, <3>2, SplitTerminated
    <3>4. CASE existing[m] = NewLine
      <4>1. existing = u
        BY <3>3, <3>4
      <4>2. existing # w
        BY <1>6, <4>1
      <4> QED
        BY <1>6, <4>1, <4>2
    <3>5. CASE existing[m] # NewLine
      <4>1. PICK v : v = Append(existing, NewLine)
        OBVIOUS
      <4>2. Len(v) = m + 1 /\ \A i \in 1 .. m : v[i] = existing[i]
        BY <1>6, <3>1, <3>2, <4>1
      <4>3. v = u
        BY <3>3, <3>5, <4>1
      <4>4. Len(w) = m
        BY <1>6, <3>2, <4>2, <4>3
      <4>5. \A i \in 1 .. m : existing[i] = w[i]
        BY <1>6, <4>2, <4>3, <4>4
      <4>6. existing = w
        BY <1>4, <3>1, <3>2, <4>4, <4>5, SeqEqual
      <4> QED
        BY <3>5, <4>4, <4>6
    <3> QED
      BY <3>4, <3>5
  <2> QED
    BY <2>1, <2>2
<1>8. running = TRUE
  BY DEF Init
<1> QED
  BY <1>2, <1>4, <1>7, <1>8 DEF Text!Init

LEMMA NextText == IInv /\ [Next]_vars => [Text!Next]_(Text!vars)
<1> SUFFICES ASSUME IInv, [Next]_vars PROVE [Text!Next]_(Text!vars)
  OBVIOUS
<1>1. ASSUME UNCHANGED <<existing, lines, line, col, running>> PROVE UNCHANGED Text!vars
  BY <1>1 DEF Text!vars, Joined, Offset
<1>2. ASSUME NEW k \in Keys, Press(k) PROVE [Text!Next]_(Text!vars)
  <2>1. ASSUME Key(k) PROVE running /\ UNCHANGED existing
    BY <2>1 DEF Key
  <2>2. CASE Prefix(k) \/ Ignored(k)
    BY <1>1, <2>2 DEF Prefix, Ignored, Key
  <2>3. CASE Finish(k)
    <3>1. UNCHANGED <<lines, line, col>> /\ running /\ running' = FALSE /\ UNCHANGED existing
      BY <2>3 DEF Finish, Key
    <3>2. UNCHANGED <<Joined, Offset>>
      BY <3>1 DEF Joined, Offset
    <3> QED
      BY <3>1, <3>2 DEF Text!Next, Text!Finish
  <2>4. CASE Enter(k) \/ Type(k)
    <3>1. running /\ UNCHANGED existing /\ UNCHANGED running
      BY <2>4 DEF Enter, Type, Key
    <3>2. Text!Insert
      BY <2>4, EnterInserts, TypeInserts, InsertsText
    <3> QED
      BY <3>1, <3>2 DEF Text!Next, Text!Edit
  <2>5. CASE Backspace(k)
    <3>1. running /\ UNCHANGED existing /\ UNCHANGED running
      BY <2>5 DEF Backspace, Key
    <3>2. Text!Erase
      BY <2>5, BackspaceErases, ErasesText
    <3> QED
      BY <3>1, <3>2 DEF Text!Next, Text!Edit
  <2>6. CASE Arrow(k)
    <3>1. running /\ UNCHANGED existing /\ UNCHANGED running
      BY <2>6 DEF Arrow, Key
    <3>2. /\ Joined' = Joined
          /\ Text!Left \/ Text!Right \/ Text!Up \/ Text!Down \/ Offset' = Offset
      BY <2>6, ArrowMoves
    <3>3. CASE Offset' = Offset
      BY <3>1, <3>2, <3>3 DEF Text!vars
    <3>4. CASE Text!Left \/ Text!Right \/ Text!Up \/ Text!Down
      BY <3>1, <3>2, <3>4 DEF Text!Next, Text!Move
    <3> QED
      BY <3>2, <3>3, <3>4
  <2> QED
    BY <1>2, <2>2, <2>3, <2>4, <2>5, <2>6 DEF Press
<1>3. CASE UNCHANGED vars
  BY <1>1, <1>3 DEF vars
<1> QED
  BY <1>2, <1>3 DEF Next

\* The lines and their cursor behave as one text with a position, for every text
\* the editor is opened with and whatever keys: run() inserts, erases and moves as
\* TextBuffer promises, and returns the text that the editing has left.
THEOREM ImplementsTextBuffer == Spec => ImplementsText
<1> QED
  BY InitInv, NextInv, InitText, NextText, PTL DEF Spec, ImplementsText, Text!Spec
===============================================================================
