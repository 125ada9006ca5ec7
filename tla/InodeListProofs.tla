--------------------------- MODULE InodeListProofs ---------------------------
(***************************************************************************)
(* For every disk geometry: the free-inode stack of InodeList never holds  *)
(* an inode twice or one in use, never forgets a free inode, and together  *)
(* with the scan of ialloc() implements FreePool.                          *)
(*                                                                         *)
(* The invariant is stated of the parts of a superblock, not of the        *)
(* variable sb, because ialloc() passes through an intermediate            *)
(* superblock: the one its scan refills.                                   *)
(***************************************************************************)
EXTENDS InodeList, TLAPS

\* m entries of f are stacked, r is the remembered inode, n is the column of
\* di_number on the disk and h the inodes in use.
StackOK(m, f, r, n, h) ==
  /\ m \in 0 .. NICINOD
  /\ f \in [0 .. NICINOD - 1 -> Inode]
  /\ r \in 4 .. NINODE
  /\ n \in [Inode -> 0 .. 1]
  /\ h \subseteq Inode
  /\ FormatInodes \subseteq h
  /\ \A j, k \in 0 .. m - 1 : f[j] = f[k] => j = k
  /\ \A k \in 0 .. m - 1 : f[k] \notin h
  /\ \A i \in h \ FormatInodes : n[i] # 0
  /\ \A i \in Inode \ h :
        (\E k \in 0 .. m - 1 : f[k] = i) \/ (n[i] = 0 /\ i >= r)

ListOK(s, n, h) ==
  /\ s \in Filsys
  /\ s.s_pinode = Wrap16(s.s_ninode - 1)
  /\ StackOK(s.s_ninode, s.s_inode, s.s_rinode, n, h)

\* The inductive invariant.
IInv == ListOK(sb, num, held) /\ got \in Inode \cup {NoInode}

-----------------------------------------------------------------------------
(***************************************************************************)
(* The stack, apart from the record that holds it.                         *)
(***************************************************************************)

\* Popping the top inode and marking it used on disk.
LEMMA PopStack ==
  ASSUME NEW m, NEW f, NEW r, NEW n, NEW h, StackOK(m, f, r, n, h),
         NEW d \in Nat, m = d + 1, NEW t, t = f[d],
         NEW z \in [Inode -> 0 .. 1],
         z[t] = 1, \A i \in Inode \ {t} : z[i] = n[i]
  PROVE  /\ t \in Inode \ h
         /\ StackOK(d, f, r, z, h \cup {t})
<1>1. /\ d \in 0 .. NICINOD - 1 /\ d \in 0 .. NICINOD /\ d \in 0 .. m - 1
      /\ \A k \in 0 .. d - 1 : k \in 0 .. m - 1 /\ k # d
      /\ \A k \in 0 .. m - 1 : k \in 0 .. d - 1 \/ k = d
      /\ t = f[d]
  BY SuperblockAssumption DEF StackOK
<1>2. t \in Inode \ h
  BY <1>1 DEF StackOK
<1>3. \A k \in 0 .. d - 1 : f[k] \notin h \cup {t}
  BY <1>1 DEF StackOK
<1>4. \A j, k \in 0 .. d - 1 : f[j] = f[k] => j = k
  BY <1>1 DEF StackOK
<1>5. /\ z \in [Inode -> 0 .. 1] /\ z[t] = 1
      /\ \A i \in Inode \ {t} : z[i] = n[i]
  OBVIOUS
<1>6. ASSUME NEW i \in Inode \ (h \cup {t})
      PROVE  (\E k \in 0 .. d - 1 : f[k] = i) \/ (z[i] = 0 /\ i >= r)
  BY <1>1, <1>5 DEF StackOK
<1>7. \A i \in (h \cup {t}) \ FormatInodes : z[i] # 0
  BY <1>2, <1>5 DEF StackOK
<1>8. /\ f \in [0 .. NICINOD - 1 -> Inode]
      /\ r \in 4 .. NINODE
      /\ h \cup {t} \subseteq Inode
      /\ FormatInodes \subseteq h \cup {t}
  BY <1>2 DEF StackOK
<1>9. StackOK(d, f, r, z, h \cup {t})
  BY <1>1, <1>3, <1>4, <1>5, <1>6, <1>7, <1>8 DEF StackOK
<1> QED
  BY <1>2, <1>9

\* The top inode is popped and pushed again, but keeps its mark on the disk.
LEMMA UndoStack ==
  ASSUME NEW m, NEW f, NEW r, NEW n, NEW h, StackOK(m, f, r, n, h), m # 0,
         NEW t, t = f[m - 1], NEW z, z = [n EXCEPT ![t] = 1],
         NEW q, q = IF t < r THEN t ELSE r
  PROVE  StackOK(m, f, q, z, h)
<1>1. m \in 1 .. NICINOD /\ m - 1 \in 0 .. NICINOD - 1 /\ m - 1 \in 0 .. m - 1
  BY SuperblockAssumption DEF StackOK
<1>2. t \in Inode \ h
  BY <1>1 DEF StackOK
<1>3. t \in 4 .. NINODE
  <2>1. t \in 0 .. NINODE - 1 /\ t \notin 0 .. 3 /\ NINODE \in Nat
    BY <1>2, SuperblockAssumption DEF StackOK, Inode, FormatInodes
  <2> QED
    BY <2>1
<1>4. r \in 4 .. NINODE /\ q \in 4 .. NINODE /\ q <= r
  BY <1>3, SuperblockAssumption DEF StackOK
<1>5. /\ z \in [Inode -> 0 .. 1] /\ z[t] = 1
      /\ \A i \in Inode \ {t} : z[i] = n[i]
  BY <1>2 DEF StackOK
<1>6. ASSUME NEW i \in Inode \ h
      PROVE  (\E k \in 0 .. m - 1 : f[k] = i) \/ (z[i] = 0 /\ i >= q)
  <2>1. CASE i = t
    BY <2>1, <1>1
  <2>2. CASE i # t
    <3>1. (\E k \in 0 .. m - 1 : f[k] = i) \/ (z[i] = 0 /\ i >= r)
      BY <2>2, <1>5 DEF StackOK
    <3> QED
      BY <3>1, <1>4, SuperblockAssumption DEF Inode
  <2> QED
    BY <2>1, <2>2
<1>7. \A i \in h \ FormatInodes : z[i] # 0
  BY <1>2, <1>5 DEF StackOK
<1> QED
  BY <1>4, <1>5, <1>6, <1>7 DEF StackOK

\* A freed inode is remembered if it lies below r, and pushed if there is room.
LEMMA PushStack ==
  ASSUME NEW m, NEW f, NEW r, NEW n, NEW h, StackOK(m, f, r, n, h),
         NEW i \in h \ FormatInodes, NEW q, q = IF i < r THEN i ELSE r
  PROVE  /\ m # NICINOD => StackOK(m + 1, [f EXCEPT ![m] = i], q,
                                   [n EXCEPT ![i] = 0], h \ {i})
         /\ StackOK(m, f, q, [n EXCEPT ![i] = 0], h \ {i})
<1>1. /\ m \in 0 .. NICINOD /\ NICINOD \in Nat /\ NINODE \in Nat /\ r \in 4 .. NINODE
      /\ i \in Inode /\ i \in 4 .. NINODE /\ q \in 4 .. NINODE /\ q <= r /\ q <= i
  BY SuperblockAssumption DEF StackOK, FormatInodes, Inode
<1>2. /\ [n EXCEPT ![i] = 0] \in [Inode -> 0 .. 1]
      /\ [n EXCEPT ![i] = 0][i] = 0
      /\ \A j \in Inode \ {i} : [n EXCEPT ![i] = 0][j] = n[j]
  BY <1>1 DEF StackOK
<1>3. \A j \in (h \ {i}) \ FormatInodes : [n EXCEPT ![i] = 0][j] # 0
  BY <1>2 DEF StackOK
<1>4. ASSUME NEW j \in Inode \ (h \ {i})
      PROVE  (\E k \in 0 .. m - 1 : f[k] = j) \/ ([n EXCEPT ![i] = 0][j] = 0 /\ j >= q)
  <2>1. CASE j = i
    BY <2>1, <1>1, <1>2
  <2>2. CASE j # i
    BY <2>2, <1>1, <1>2 DEF StackOK, Inode
  <2> QED
    BY <2>1, <2>2
<1>5. h \ {i} \subseteq Inode /\ FormatInodes \subseteq h \ {i}
  BY DEF StackOK
<1>6. StackOK(m, f, q, [n EXCEPT ![i] = 0], h \ {i})
  BY <1>1, <1>2, <1>3, <1>4, <1>5 DEF StackOK
<1>7. ASSUME m # NICINOD, NEW g, g = [f EXCEPT ![m] = i]
      PROVE  StackOK(m + 1, g, q, [n EXCEPT ![i] = 0], h \ {i})
  <2>1. /\ m + 1 \in 0 .. NICINOD /\ m \in 0 .. NICINOD - 1 /\ m + 1 - 1 = m
        /\ m \in 0 .. m
        /\ \A k \in 0 .. m - 1 : k \in 0 .. m /\ k \in 0 .. NICINOD - 1 /\ k # m
        /\ \A k \in 0 .. m : k \in 0 .. m - 1 \/ k = m
    BY <1>1, <1>7
  <2>2. /\ g \in [0 .. NICINOD - 1 -> Inode]
        /\ g[m] = i
        /\ \A k \in 0 .. m - 1 : g[k] = f[k] /\ f[k] # i
    BY <1>1, <1>7, <2>1 DEF StackOK
  <2>3. \A j, k \in 0 .. m : g[j] = g[k] => j = k
    BY <2>1, <2>2 DEF StackOK
  <2>4. \A k \in 0 .. m : g[k] \notin h \ {i}
    BY <2>1, <2>2 DEF StackOK
  <2>5. \A j \in Inode \ (h \ {i}) :
          (\E k \in 0 .. m : g[k] = j) \/ ([n EXCEPT ![i] = 0][j] = 0 /\ j >= q)
    BY <1>4, <2>1, <2>2
  <2> QED
    BY <1>1, <1>2, <1>3, <1>5, <2>1, <2>2, <2>3, <2>4, <2>5 DEF StackOK
<1> QED
  BY <1>6, <1>7

\* The scan of ialloc() fills an empty stack with the first c free inodes at or
\* above r; what it does not collect lies at or above the new r.
LEMMA RefillStack ==
  ASSUME NEW s0, NEW f0, NEW r, NEW n, NEW h, StackOK(0, f0, r, n, h),
         s0.s_rinode = r,
         NEW c \in 1 .. NICINOD, NEW f \in [0 .. NICINOD - 1 -> Inode],
         Scanned(s0, n, c, f),
         NEW q, q = IF c = NICINOD THEN f[c - 1] + 1 ELSE r
  PROVE  StackOK(c, f, q, n, h)
<1>1. /\ NICINOD \in Nat /\ NINODE \in Nat /\ r \in 4 .. NINODE
      /\ c - 1 \in 0 .. c - 1 /\ c \in 0 .. NICINOD
      /\ \A k \in 0 .. c - 1 : k \in 0 .. NICINOD - 1
      /\ n \in [Inode -> 0 .. 1] /\ h \subseteq Inode /\ FormatInodes \subseteq h
      /\ \A i \in h \ FormatInodes : n[i] # 0
      /\ \A i \in Inode \ h : n[i] = 0 /\ i >= r
  BY SuperblockAssumption DEF StackOK
<1>2. \A k \in 0 .. c - 1 : f[k] \in Inode /\ f[k] >= r /\ n[f[k]] = 0
  BY DEF Scanned, FoundFree
<1>3. \A k \in 0 .. c - 1 : f[k] \notin h
  BY <1>1, <1>2 DEF FormatInodes, Inode
<1>4. ASSUME NEW j \in 0 .. c - 1, NEW k \in 0 .. c - 1, f[j] = f[k], j # k
      PROVE  FALSE
  <2>1. f[j] < f[k] \/ f[k] < f[j]
    BY <1>4 DEF Scanned
  <2> QED
    BY <2>1, <1>2, <1>4, <1>1 DEF Inode
<1>5. q \in 4 .. NINODE
  BY <1>1, <1>2 DEF Inode
<1>6. ASSUME NEW i \in Inode \ h
      PROVE  (\E k \in 0 .. c - 1 : f[k] = i) \/ (n[i] = 0 /\ i >= q)
  <2>1. i \in FoundFree(s0, n)
    BY <1>1 DEF FoundFree
  <2>2. c < NICINOD \/ i < f[c - 1] => \E k \in 0 .. c - 1 : f[k] = i
    BY <2>1 DEF Scanned
  <2>3. CASE c = NICINOD /\ ~(i < f[c - 1]) /\ i # f[c - 1]
    BY <2>3, <1>1, <1>2 DEF Inode
  <2> QED
    BY <2>2, <2>3, <1>1
<1> QED
  BY <1>1, <1>3, <1>4, <1>5, <1>6 DEF StackOK

-----------------------------------------------------------------------------
(***************************************************************************)
(* The superblocks the four operations leave.                              *)
(***************************************************************************)

\* The uint16_t stack pointer.
LEMMA WrapInRange ==
  /\ MaxWord \in Nat
  /\ \A x \in 0 .. MaxWord : Wrap16(x) = x
  /\ \A x \in Int : x < 0 /\ x >= -1 => Wrap16(x) = x + MaxWord + 1
  /\ Wrap16(MaxWord + 1) = 0
<1>1. MaxWord \in Nat
  BY SMT DEF MaxWord
<1>2. \A x \in 0 .. MaxWord : Wrap16(x) = x
  BY SMT, <1>1 DEF Wrap16
<1>3. \A x \in Int : x < 0 /\ x >= -1 => Wrap16(x) = x + MaxWord + 1
  BY SMT DEF Wrap16, MaxWord
<1>4. Wrap16(MaxWord + 1) = 0
  BY SMT DEF Wrap16, MaxWord
<1> QED
  BY <1>1, <1>2, <1>3, <1>4

\* The field s_pinode designates the top entry, or wraps below the first.
LEMMA PointerValue ==
  ASSUME NEW m \in 0 .. NICINOD, NEW p, p = Wrap16(m - 1)
  PROVE  /\ p \in 0 .. MaxWord
         /\ m # 0 => p = m - 1
         /\ m # NICINOD => Wrap16(p + 1) = m
<1>1. NICINOD \in 1 .. MaxWord /\ MaxWord \in Nat
  BY SuperblockAssumption, WrapInRange
<1>2. CASE m = 0
  BY <1>1, <1>2, WrapInRange
<1>3. CASE m # 0
  BY <1>1, <1>3, WrapInRange
<1> QED
  BY <1>2, <1>3

\* What popping leaves in each field of the superblock.
LEMMA PopRecord ==
  ASSUME NEW s \in Filsys, s.s_ninode \in 1 .. NICINOD,
         s.s_pinode = Wrap16(s.s_ninode - 1)
  PROVE  /\ TopInode(s) = s.s_inode[s.s_ninode - 1]
         /\ PopInode(s) \in Filsys
         /\ PopInode(s).s_ninode = s.s_ninode - 1
         /\ PopInode(s).s_inode = s.s_inode
         /\ PopInode(s).s_rinode = s.s_rinode
         /\ PopInode(s).s_pinode = Wrap16(PopInode(s).s_ninode - 1)
<1>1. NICINOD \in 1 .. MaxWord /\ MaxWord \in Nat
  BY SuperblockAssumption, WrapInRange
<1>2. s.s_pinode = s.s_ninode - 1
  BY <1>1, PointerValue
<1>3. TopInode(s) = s.s_inode[s.s_ninode - 1]
  BY <1>2 DEF TopInode
<1>4. s.s_ninode - 1 \in Nat /\ s.s_ninode - 1 \in 0 .. NICINOD
  BY <1>1
<1>5. Wrap16(s.s_pinode - 1) = Wrap16(s.s_ninode - 1 - 1)
  BY <1>2
<1>6. Wrap16(s.s_ninode - 1 - 1) \in 0 .. MaxWord
  BY <1>4, PointerValue
<1>7. /\ PopInode(s) \in Filsys
      /\ PopInode(s).s_ninode = s.s_ninode - 1
      /\ PopInode(s).s_inode = s.s_inode
      /\ PopInode(s).s_rinode = s.s_rinode
      /\ PopInode(s).s_pinode = Wrap16(s.s_pinode - 1)
  BY <1>4, <1>5, <1>6 DEF PopInode, Filsys
<1> QED
  BY <1>3, <1>5, <1>7

\* What ifree() leaves in each field of the superblock, and why its write into
\* s_inode lands on top of the stack although the pointer wraps.
LEMMA PushRecord ==
  ASSUME NEW s \in Filsys, s.s_ninode \in 0 .. NICINOD,
         s.s_pinode = Wrap16(s.s_ninode - 1), NEW i \in Inode, i >= 4
  PROVE  LET q == IfreeSb(s, i)
         IN  /\ q \in Filsys
             /\ q.s_pinode = Wrap16(q.s_ninode - 1)
             /\ q.s_rinode = IF i < s.s_rinode THEN i ELSE s.s_rinode
             /\ \/ /\ s.s_ninode # NICINOD
                   /\ q.s_ninode = s.s_ninode + 1
                   /\ q.s_inode = [s.s_inode EXCEPT ![s.s_ninode] = i]
                \/ /\ s.s_ninode = NICINOD
                   /\ q.s_ninode = s.s_ninode
                   /\ q.s_inode = s.s_inode
<1> DEFINE m == s.s_ninode
           r == IF i < s.s_rinode THEN i ELSE s.s_rinode
<1>1. /\ NICINOD \in 1 .. MaxWord /\ MaxWord \in Nat /\ NINODE \in Nat
      /\ i \in 0 .. NINODE
  BY SuperblockAssumption, WrapInRange DEF Inode
<1>2. r \in 0 .. NINODE
  BY <1>1 DEF Filsys
<1>3. CASE m # NICINOD
  <2>1. Wrap16(s.s_pinode + 1) = m /\ m < NICINOD /\ m + 1 \in Nat /\ m + 1 - 1 = m
    BY <1>1, <1>3, PointerValue
  <2>2. IfreeSb(s, i) = [s EXCEPT !.s_ninode = m + 1, !.s_pinode = m,
                                  !.s_inode = [s.s_inode EXCEPT ![m] = i],
                                  !.s_rinode = r]
    BY <2>1 DEF IfreeSb, Filsys
  <2>3. [s.s_inode EXCEPT ![m] = i] \in [0 .. NICINOD - 1 -> Inode]
    BY DEF Filsys
  <2>4. Wrap16(m) = m /\ m \in 0 .. MaxWord
    BY <1>1, WrapInRange
  <2>5. /\ IfreeSb(s, i) \in Filsys
        /\ IfreeSb(s, i).s_ninode = m + 1
        /\ IfreeSb(s, i).s_pinode = m
        /\ IfreeSb(s, i).s_inode = [s.s_inode EXCEPT ![m] = i]
        /\ IfreeSb(s, i).s_rinode = r
    BY <1>2, <2>1, <2>2, <2>3, <2>4 DEF Filsys
  <2> QED
    BY <1>3, <2>1, <2>4, <2>5
<1>4. CASE m = NICINOD
  <2>1. IfreeSb(s, i) = [s EXCEPT !.s_rinode = r]
    BY <1>1, <1>4 DEF IfreeSb, Filsys
  <2> QED
    BY <1>2, <1>4, <2>1 DEF Filsys
<1> QED
  BY <1>3, <1>4

-----------------------------------------------------------------------------
(***************************************************************************)
(* Each operation keeps the list in order.                                 *)
(***************************************************************************)

\* The superblock ialloc() pops from, refilled or not.
LEMMA StockedOK ==
  ASSUME NEW s0, NEW n, NEW h, ListOK(s0, n, h), NEW s \in Stocked(s0, n)
  PROVE  ListOK(s, n, h) /\ s.s_ninode \in 1 .. NICINOD
<1>1. CASE s0.s_ninode # 0
  BY <1>1 DEF Stocked, ListOK, StackOK
<1>2. CASE s0.s_ninode = 0
  <2>1. s \in Refilled(s0, n)
    BY <1>2 DEF Stocked
  <2>2. PICK c \in 1 .. NICINOD, f \in [0 .. NICINOD - 1 -> Inode] :
          /\ Scanned(s0, n, c, f)
          /\ s = [s0 EXCEPT !.s_inode = f, !.s_ninode = c, !.s_pinode = c - 1,
                            !.s_rinode = IF c = NICINOD THEN f[c - 1] + 1 ELSE @]
    BY <2>1 DEF Refilled
  <2>3. PICK q : q = IF c = NICINOD THEN f[c - 1] + 1 ELSE s0.s_rinode
    OBVIOUS
  <2>4. s0 \in Filsys /\ StackOK(0, s0.s_inode, s0.s_rinode, n, h)
    BY <1>2 DEF ListOK
  <2>5. StackOK(c, f, q, n, h)
    <3>1. Scanned(s0, n, c, f)
      BY <2>2
    <3>2. \A r : r = s0.s_rinode /\ StackOK(0, s0.s_inode, r, n, h)
                   => StackOK(c, f, IF c = NICINOD THEN f[c - 1] + 1 ELSE r, n, h)
      BY <3>1, RefillStack, ZenonT(60)
    <3> QED
      BY <2>3, <2>4, <3>2
  <2>6. q \in 0 .. NINODE
    BY <2>5 DEF StackOK
  <2>7. /\ c \in Nat /\ c \in 0 .. NICINOD /\ c - 1 \in 0 .. MaxWord
        /\ Wrap16(c - 1) = c - 1
    BY SuperblockAssumption, WrapInRange
  <2>8. /\ s \in Filsys
        /\ s.s_ninode = c
        /\ s.s_inode = f
        /\ s.s_pinode = c - 1
        /\ s.s_rinode = q
    BY <2>2, <2>3, <2>4, <2>6, <2>7 DEF Filsys
  <2> QED
    BY <2>5, <2>7, <2>8 DEF ListOK
<1> QED
  BY <1>1, <1>2

\* ialloc() hands out the top inode: it was not in use, and marking it keeps the
\* list in order.
LEMMA PopOK ==
  ASSUME NEW s, NEW n, NEW h, ListOK(s, n, h), s.s_ninode \in 1 .. NICINOD
  PROVE  /\ TopInode(s) \in Inode \ h
         /\ ListOK(PopInode(s), [n EXCEPT ![TopInode(s)] = 1],
                   h \cup {TopInode(s)})
<1>1. PICK t, z : t = s.s_inode[s.s_ninode - 1] /\ z = [n EXCEPT ![t] = 1]
  OBVIOUS
<1>2. s \in Filsys /\ s.s_pinode = Wrap16(s.s_ninode - 1) /\ s.s_ninode # 0
  BY SuperblockAssumption DEF ListOK
<1>3. StackOK(s.s_ninode, s.s_inode, s.s_rinode, n, h)
  BY DEF ListOK
<1>4. t \in Inode
  <2>1. \A m \in 1 .. NICINOD : m - 1 \in 0 .. m - 1 /\ m - 1 \in 0 .. NICINOD - 1
    BY SuperblockAssumption, WrapInRange
  <2> QED
    BY <1>1, <1>3, <2>1 DEF StackOK
<1>5. /\ z \in [Inode -> 0 .. 1] /\ z[t] = 1
      /\ \A i \in Inode \ {t} : z[i] = n[i]
  BY <1>1, <1>3, <1>4 DEF StackOK
<1>6. PICK d \in Nat : s.s_ninode = d + 1 /\ d = s.s_ninode - 1
  BY SuperblockAssumption, WrapInRange
<1>7. t = s.s_inode[d]
  BY <1>1, <1>6
<1>8. t \in Inode \ h /\ StackOK(d, s.s_inode, s.s_rinode, z, h \cup {t})
  BY <1>3, <1>5, <1>6, <1>7, PopStack
<1> QED
  BY <1>1, <1>2, <1>6, <1>8, PopRecord DEF ListOK

\* mkdir() gives the inode back after it was marked used on disk.
LEMMA UndoOK ==
  ASSUME NEW s, NEW n, NEW h, ListOK(s, n, h), s.s_ninode \in 1 .. NICINOD
  PROVE  ListOK(IfreeSb(PopInode(s), TopInode(s)),
                [n EXCEPT ![TopInode(s)] = 1], h)
<1>1. PICK t, z, p : /\ t = s.s_inode[s.s_ninode - 1]
                     /\ z = [n EXCEPT ![t] = 1]
                     /\ p = PopInode(s)
  OBVIOUS
<1>2. PICK q, u : /\ q = IF t < s.s_rinode THEN t ELSE s.s_rinode
                  /\ u = IfreeSb(p, t)
  OBVIOUS
<1>3. /\ s \in Filsys
      /\ s.s_pinode = Wrap16(s.s_ninode - 1)
      /\ s.s_ninode # 0
      /\ NICINOD \in Nat
  BY SuperblockAssumption DEF ListOK
<1>4. StackOK(s.s_ninode, s.s_inode, q, z, h)
  BY <1>1, <1>2, <1>3, UndoStack DEF ListOK
<1>5. t \in Inode \ h /\ t \notin FormatInodes
  <2>1. StackOK(s.s_ninode, s.s_inode, s.s_rinode, n, h)
    BY DEF ListOK
  <2>2. \A m \in 1 .. NICINOD : m - 1 \in 0 .. m - 1 /\ m - 1 \in 0 .. NICINOD - 1
    BY <1>3
  <2> QED
    BY <1>1, <2>1, <2>2 DEF StackOK
<1>6. t \in Inode /\ t >= 4
  BY <1>5, SuperblockAssumption DEF FormatInodes, Inode
<1>7. /\ TopInode(s) = t
      /\ p \in Filsys
      /\ p.s_ninode = s.s_ninode - 1
      /\ p.s_inode = s.s_inode
      /\ p.s_rinode = s.s_rinode
      /\ p.s_pinode = Wrap16(p.s_ninode - 1)
  BY <1>1, <1>3, PopRecord
<1>8. p.s_ninode \in 0 .. NICINOD /\ p.s_ninode # NICINOD
  BY <1>3, <1>7
<1>9. /\ u \in Filsys
      /\ u.s_pinode = Wrap16(u.s_ninode - 1)
      /\ u.s_rinode = q
      /\ u.s_ninode = p.s_ninode + 1
      /\ u.s_inode = [p.s_inode EXCEPT ![p.s_ninode] = t]
  BY <1>2, <1>6, <1>7, <1>8, PushRecord
<1>10. u.s_ninode = s.s_ninode
  BY <1>3, <1>7, <1>9
<1>11. u.s_inode = s.s_inode
  BY <1>1, <1>3, <1>7, <1>9 DEF Filsys
<1> QED
  BY <1>1, <1>2, <1>4, <1>7, <1>9, <1>10, <1>11 DEF ListOK

\* ifree() of an inode in use keeps the list in order.
LEMMA PushOK ==
  ASSUME NEW s, NEW n, NEW h, ListOK(s, n, h), NEW i \in h \ FormatInodes
  PROVE  ListOK(IfreeSb(s, i), [n EXCEPT ![i] = 0], h \ {i})
<1>1. PICK q, u : /\ q = IF i < s.s_rinode THEN i ELSE s.s_rinode
                  /\ u = IfreeSb(s, i)
  OBVIOUS
<1>2. i \in Inode /\ i >= 4
  BY SuperblockAssumption DEF ListOK, StackOK, FormatInodes, Inode
<1>3. /\ s \in Filsys
      /\ s.s_ninode \in 0 .. NICINOD
      /\ s.s_pinode = Wrap16(s.s_ninode - 1)
  BY DEF ListOK, StackOK
<1>4. /\ s.s_ninode # NICINOD =>
           StackOK(s.s_ninode + 1, [s.s_inode EXCEPT ![s.s_ninode] = i], q,
                   [n EXCEPT ![i] = 0], h \ {i})
      /\ StackOK(s.s_ninode, s.s_inode, q, [n EXCEPT ![i] = 0], h \ {i})
  BY <1>1, PushStack DEF ListOK
<1>5. /\ u \in Filsys
      /\ u.s_pinode = Wrap16(u.s_ninode - 1)
      /\ u.s_rinode = q
      /\ \/ /\ s.s_ninode # NICINOD
            /\ u.s_ninode = s.s_ninode + 1
            /\ u.s_inode = [s.s_inode EXCEPT ![s.s_ninode] = i]
         \/ /\ s.s_ninode = NICINOD
            /\ u.s_ninode = s.s_ninode
            /\ u.s_inode = s.s_inode
  BY <1>1, <1>2, <1>3, PushRecord
<1> QED
  BY <1>1, <1>4, <1>5 DEF ListOK

-----------------------------------------------------------------------------
(***************************************************************************)
(* The inductive invariant.                                                *)
(***************************************************************************)

\* format() stacks the highest inodes, and leaves the others to the scan.
LEMMA InitOK == Init => IInv
<1> SUFFICES ASSUME Init PROVE IInv
  OBVIOUS
<1>1. PICK m, f : /\ m = FormatNinode
                  /\ f = [k \in 0 .. NICINOD - 1 |->
                            IF k < m THEN NINODE - 1 - k ELSE 0]
  OBVIOUS
<1>2. /\ m \in 0 .. NICINOD /\ m \in Nat /\ m <= NINODE - 4
      /\ NICINOD \in Nat /\ NINODE \in Nat /\ NINODE >= 4
  BY <1>1, SuperblockAssumption, WrapInRange DEF FormatNinode
<1>3. f \in [0 .. NICINOD - 1 -> Inode]
  BY <1>1, <1>2 DEF Inode
<1>4. \A k \in 0 .. m - 1 : k \in 0 .. NICINOD - 1 /\ f[k] = NINODE - 1 - k
  BY <1>1, <1>2
<1>5. num \in [Inode -> 0 .. 1] /\ held = FormatInodes /\ got = NoInode
  BY DEF Init
<1>6. StackOK(m, f, 4, num, held)
  <2>1. \A j, k \in 0 .. m - 1 : f[j] = f[k] => j = k
    BY <1>2, <1>4
  <2>2. \A k \in 0 .. m - 1 : f[k] \notin held
    BY <1>2, <1>4, <1>5 DEF FormatInodes
  <2>3. held \subseteq Inode
    BY <1>2, <1>5 DEF FormatInodes, Inode
  <2>4. \A i \in Inode \ held : num[i] = 0 /\ i >= 4
    BY <1>2, <1>5 DEF Init, FormatInodes, Inode
  <2> QED
    BY <1>2, <1>3, <1>5, <2>1, <2>2, <2>3, <2>4 DEF StackOK
<1>7. sb \in Filsys
  <2>1. Section(0).ids \in [0 .. NICFREE - 1 -> Nat]
    BY SuperblockAssumption DEF Section
  <2>2. NICFREE - 1 \in 0 .. NICFREE /\ NICFREE \in 0 .. NICFREE
    BY SuperblockAssumption
  <2>3. Wrap16(m - 1) \in 0 .. MaxWord
    BY <1>2, PointerValue
  <2>4. 4 \in 0 .. NINODE
    BY <1>2
  <2> QED
    BY <1>1, <1>2, <1>3, <2>1, <2>2, <2>3, <2>4 DEF Init, FormatSuperblock, Filsys
<1>8. /\ sb.s_ninode = m
      /\ sb.s_inode = f
      /\ sb.s_rinode = 4
      /\ sb.s_pinode = Wrap16(m - 1)
  BY <1>1 DEF Init, FormatSuperblock
<1> QED
  BY <1>5, <1>6, <1>7, <1>8 DEF IInv, ListOK

\* ialloc() that finds an inode: an inode of the disk that was not in use.
LEMMA IallocOK ==
  ASSUME IInv, Ialloc
  PROVE  IInv' /\ got' \in Inode \ held /\ held' = held \cup {got'}
<1>1. PICK s \in Stocked(sb, num) :
        /\ got' = TopInode(s)
        /\ sb' = PopInode(s)
        /\ num' = [num EXCEPT ![got'] = 1]
        /\ held' = held \cup {got'}
  BY DEF Ialloc
<1>2. ListOK(s, num, held) /\ s.s_ninode \in 1 .. NICINOD
  BY StockedOK DEF IInv
<1>3. /\ TopInode(s) \in Inode \ held
      /\ ListOK(PopInode(s), [num EXCEPT ![TopInode(s)] = 1],
                held \cup {TopInode(s)})
  BY <1>2, PopOK
<1> QED
  BY <1>1, <1>3 DEF IInv

\* The invariant survives a mkdir() that gets an inode and no block.
LEMMA MkdirNoSpaceOK ==
  ASSUME IInv, MkdirNoSpace
  PROVE  IInv'
<1>1. PICK s \in Stocked(sb, num) :
        /\ sb' = IfreeSb(PopInode(s), TopInode(s))
        /\ num' = [num EXCEPT ![TopInode(s)] = 1]
        /\ held' = held /\ got' = got
  BY DEF MkdirNoSpace
<1>2. ListOK(s, num, held) /\ s.s_ninode \in 1 .. NICINOD
  BY StockedOK DEF IInv
<1>3. ListOK(IfreeSb(PopInode(s), TopInode(s)),
             [num EXCEPT ![TopInode(s)] = 1], held)
  BY <1>2, UndoOK
<1> QED
  BY <1>1, <1>3 DEF IInv

\* The invariant survives the deletion of a file.
LEMMA IfreeOK ==
  ASSUME IInv, NEW i \in held \ FormatInodes, Ifree(i)
  PROVE  IInv'
<1>1. ListOK(IfreeSb(sb, i), [num EXCEPT ![i] = 0], held \ {i})
  BY PushOK DEF IInv
<1> QED
  BY <1>1 DEF IInv, Ifree

\* Every step keeps the invariant.
LEMMA NextOK == IInv /\ [Next]_vars => IInv'
<1> SUFFICES ASSUME IInv, [Next]_vars PROVE IInv'
  OBVIOUS
<1>1. CASE Ialloc
  BY <1>1, IallocOK
<1>2. CASE IallocNone
  BY <1>2 DEF IallocNone, IInv
<1>3. CASE MkdirNoSpace
  BY <1>3, MkdirNoSpaceOK
<1>4. ASSUME NEW i \in held \ FormatInodes, Ifree(i) PROVE IInv'
  BY <1>4, IfreeOK
<1>5. CASE UNCHANGED vars
  BY <1>5 DEF vars, IInv
<1> QED
  BY <1>1, <1>2, <1>3, <1>4, <1>5 DEF Next

\* The invariant holds in every reachable state.
LEMMA InductiveInvariant == Spec => []IInv
BY InitOK, NextOK, PTL DEF Spec

-----------------------------------------------------------------------------
(***************************************************************************)
(* What follows from it.                                                   *)
(***************************************************************************)

\* Every field of the superblock and every di_number stays in its range: in
\* particular neither array index nor the 16-bit pointer goes astray.
THEOREM TypeCorrect == Spec => []TypeOK
<1>1. IInv => TypeOK
  <2> SUFFICES ASSUME IInv PROVE TypeOK
    OBVIOUS
  <2>1. sb.s_ninode \in 0 .. NICINOD /\ sb.s_rinode \in 4 .. NINODE /\ NICINOD \in Nat
    BY SuperblockAssumption DEF IInv, ListOK, StackOK
  <2>2. sb.s_ninode <= NICINOD /\ sb.s_rinode >= 4
    BY <2>1
  <2> QED
    BY <2>2 DEF TypeOK, IInv, ListOK, StackOK
<1> QED
  BY <1>1, InductiveInvariant, PTL

\* s_pinode always designates the top of the stack that s_ninode counts.
THEOREM PointerCorrect == Spec => []PointerAtTop
<1>1. IInv => PointerAtTop
  BY DEF IInv, ListOK, PointerAtTop
<1> QED
  BY <1>1, InductiveInvariant, PTL

\* No inode is stacked twice, or stacked while a file uses it: ialloc() cannot
\* give one inode to two files.
THEOREM NeverTwice == Spec => []NoInodeTwice
<1>1. IInv => NoInodeTwice
  BY DEF IInv, ListOK, StackOK, NoInodeTwice, OnStack
<1> QED
  BY <1>1, InductiveInvariant, PTL

\* An inode in use is marked used on the disk, where the scan of ialloc() reads.
THEOREM MarkedOnDisk == Spec => []UsedOnDisk
<1>1. IInv => UsedOnDisk
  BY DEF IInv, ListOK, StackOK, UsedOnDisk
<1> QED
  BY <1>1, InductiveInvariant, PTL

\* No free inode is forgotten: it is stacked, or it lies where a scan will look.
THEOREM NeverLost == Spec => []NoInodeLost
<1>1. IInv => NoInodeLost
  BY DEF IInv, ListOK, StackOK, NoInodeLost, Stacked, OnStack
<1> QED
  BY <1>1, InductiveInvariant, PTL

\* The stack, the scan and s_rinode together implement the abstract pool: an
\* inode handed out was free, and ialloc() fails only when none is.
THEOREM Implements == Spec => ImplementsPool
<1>1. Init => Pool!Init
  BY DEF Init, Pool!Init
<1>2. ASSUME IInv, [Next]_vars PROVE [Pool!Next]_Pool!vars
  <2>1. CASE Ialloc
    BY <1>2, <2>1, IallocOK DEF Pool!Next, Pool!Allocate
  <2>2. CASE IallocNone
    <3>1. sb.s_ninode = 0 /\ FoundFree(sb, num) = {} /\ got' = NoInode
          /\ held' = held
      BY <2>2 DEF IallocNone
    <3>2. StackOK(0, sb.s_inode, sb.s_rinode, num, held)
      BY <1>2, <3>1 DEF IInv, ListOK
    <3>3. \A k \in 0 .. 0 - 1 : FALSE
      OBVIOUS
    <3>4. held \subseteq Inode /\ \A i \in Inode \ held : i \in FoundFree(sb, num)
      BY <3>2, <3>3 DEF StackOK, FoundFree
    <3>5. held = Inode
      BY <3>1, <3>4
    <3> QED
      BY <3>1, <3>5 DEF Pool!Next, Pool!Refuse
  <2>3. CASE MkdirNoSpace
    BY <2>3 DEF MkdirNoSpace, Pool!vars
  <2>4. ASSUME NEW i \in held \ FormatInodes, Ifree(i)
        PROVE  [Pool!Next]_Pool!vars
    BY <2>4 DEF Ifree, Pool!Next, Pool!Release
  <2>5. CASE UNCHANGED vars
    BY <2>5 DEF vars, Pool!vars
  <2> QED
    BY <1>2, <2>1, <2>2, <2>3, <2>4, <2>5 DEF Next
<1> QED
  BY <1>1, <1>2, InductiveInvariant, PTL DEF Spec, ImplementsPool, Pool!Spec
===============================================================================
