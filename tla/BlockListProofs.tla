--------------------------- MODULE BlockListProofs ---------------------------
(***************************************************************************)
(* For every disk geometry and whatever the files write into their blocks: *)
(* the chain of free groups of BlockList holds each free block once and no *)
(* block in use, and implements FreePool, as long as no block is freed     *)
(* while the list is empty.                                                *)
(***************************************************************************)
EXTENDS BlockList, TLAPS, SequenceTheorems

-----------------------------------------------------------------------------
(***************************************************************************)
(* The chain, apart from the variables that hold it: m groups, the oldest  *)
(* first, G[m] being the one in the superblock; what the blocks read as;   *)
(* and the blocks in use.                                                  *)
(***************************************************************************)

Entry == 0 .. NICFREE - 1

\* The groups have a block each, unless everything is in use.
GroupsOK(m, G) ==
  /\ m \in Nat \ {0}
  /\ \A g \in 1 .. m : G[g].n \in 0 .. NICFREE /\ G[g].ids \in [Entry -> Nat]
  /\ \A g \in 1 .. m : G[g].n = 0 => m = 1

\* A free block is in one place of the chain, a block in use in none.
FreeOnce(m, G, h) ==
  /\ \A g \in 1 .. m, i \in Entry : i < G[g].n => G[g].ids[i] \in Block \ h
  /\ \A g, k \in 1 .. m, i, j \in Entry :
       i < G[g].n /\ j < G[k].n /\ G[g].ids[i] = G[k].ids[j] => g = k /\ i = j
  /\ \A b \in Block \ h : \E g \in 1 .. m, i \in Entry : i < G[g].n /\ G[g].ids[i] = b

\* The bottom block of a group holds the group below, and that of the oldest holds
\* no group.
Linked(m, G, bl) ==
  /\ \A g \in 1 .. m - 1 : bl[G[g + 1].ids[0]] = G[g]
  /\ G[1].n # 0 => ~IsLink(bl[G[1].ids[0]])

ChainOK(m, G, bl, h) ==
  /\ GroupsOK(m, G) /\ FreeOnce(m, G, h) /\ Linked(m, G, bl)
  /\ bl \in [Block -> Words] /\ h \subseteq Block

\* The n oldest groups are the same in G and G2; the n lowest entries of a group
\* in e and e2; and at most block t differs between bl and b2.
Same(n, G, G2) == \A g \in 1 .. n : G2[g] = G[g]
Below(n, e, e2) == \A i \in Entry : i < n => e2[i] = e[i]
OnlyAt(t, bl, b2) ==
  b2 \in [Block -> Words] /\ \A b \in Block \ {t} : b2[b] = bl[b]

LEMMA Sizes ==
  /\ NICFREE \in Nat \ {0} /\ FILEBLK \in Nat /\ FILEBLK >= NICFREE + 3
  /\ 0 \in Entry /\ Entry \subseteq Nat /\ DISKFULL \notin Block
BY SuperblockAssumption, SMTT(30) DEF Entry, DISKFULL, MaxWord, Block

\* balloc() takes the top block of the group in the superblock, which keeps others.
LEMMA PopOne ==
  ASSUME NEW m, NEW G, NEW bl, NEW h, ChainOK(m, G, bl, h),
         NEW n \in Nat, n > 1, n = G[m].n, NEW t, t = G[m].ids[n - 1],
         NEW b2, OnlyAt(t, bl, b2), NEW G2, Same(m - 1, G, G2),
         G2[m].n = n - 1, G2[m].ids = G[m].ids
  PROVE  t \in Block \ h /\ ChainOK(m, G2, b2, h \cup {t})
<1>1. /\ m \in Nat \ {0} /\ m \in 1 .. m /\ n \in 0 .. NICFREE /\ n - 1 \in Entry
      /\ NICFREE \in Nat
      /\ \A g \in 1 .. m : g # m => g \in 1 .. m - 1
  BY Sizes, SMTT(30) DEF ChainOK, GroupsOK, Entry
<1>2. t \in Block \ h
  BY <1>1 DEF ChainOK, FreeOnce
<1>3. \A g \in 1 .. m : /\ G2[g].ids = G[g].ids
                        /\ G2[g].n = IF g = m THEN n - 1 ELSE G[g].n
  BY <1>1 DEF Same
<1>4. \A g \in 1 .. m, i \in Entry :
        i < G2[g].n <=> i < G[g].n /\ ~(g = m /\ i = n - 1)
  BY <1>1, <1>3 DEF Entry
<1>5. \A g \in 1 .. m, i \in Entry :
        i < G[g].n => (G[g].ids[i] = t <=> g = m /\ i = n - 1)
  BY <1>1 DEF ChainOK, FreeOnce
<1>6. GroupsOK(m, G2)
  BY <1>1, <1>3 DEF ChainOK, GroupsOK
<1>7. FreeOnce(m, G2, h \cup {t})
  <2>1. \A g \in 1 .. m, i \in Entry : i < G2[g].n => G2[g].ids[i] \in Block \ (h \cup {t})
    BY <1>3, <1>4, <1>5 DEF ChainOK, FreeOnce
  <2>2. \A g, k \in 1 .. m, i, j \in Entry :
          i < G2[g].n /\ j < G2[k].n /\ G2[g].ids[i] = G2[k].ids[j] => g = k /\ i = j
    BY <1>3, <1>4 DEF ChainOK, FreeOnce
  <2>3. ASSUME NEW b \in Block \ (h \cup {t})
        PROVE  \E g \in 1 .. m, i \in Entry : i < G2[g].n /\ G2[g].ids[i] = b
    <3>1. PICK g \in 1 .. m, i \in Entry : i < G[g].n /\ G[g].ids[i] = b
      BY DEF ChainOK, FreeOnce
    <3>2. i < G2[g].n
      BY <1>4, <3>1
    <3> QED
      BY <1>3, <3>1, <3>2
  <2> QED
    BY <2>1, <2>2, <2>3 DEF FreeOnce
<1>8. \A g \in 1 .. m : G[g].n # 0 => b2[G[g].ids[0]] = bl[G[g].ids[0]]
  <2>1. ASSUME NEW g \in 1 .. m, G[g].n # 0 PROVE b2[G[g].ids[0]] = bl[G[g].ids[0]]
    <3>1. 0 < G[g].n /\ 0 \in Entry
      BY <2>1, Sizes DEF ChainOK, GroupsOK
    <3>2. G[g].ids[0] # t
      BY <1>1, <1>5, <3>1
    <3>3. G[g].ids[0] \in Block
      BY <3>1 DEF ChainOK, FreeOnce
    <3> QED
      BY <3>2, <3>3 DEF OnlyAt
  <2> QED
    BY <2>1
<1>9. Linked(m, G2, b2)
  <2>1. ASSUME NEW g \in 1 .. m - 1 PROVE b2[G2[g + 1].ids[0]] = G2[g]
    <3>1. g + 1 \in 1 .. m /\ g \in 1 .. m
      BY <1>1
    <3>2. m # 1
      BY <1>1
    <3>3. G[g + 1].n # 0
      BY <3>1, <3>2 DEF ChainOK, GroupsOK
    <3>4. bl[G[g + 1].ids[0]] = G[g]
      BY DEF ChainOK, Linked
    <3> QED
      BY <1>3, <1>8, <3>1, <3>3, <3>4 DEF Same
  <2>2. ~IsLink(b2[G2[1].ids[0]])
    <3>1. 1 \in 1 .. m /\ G[1].n # 0
      BY <1>1 DEF ChainOK, GroupsOK
    <3> QED
      BY <1>3, <1>8, <3>1 DEF ChainOK, Linked
  <2> QED
    BY <2>1, <2>2 DEF Linked
<1> QED
  BY <1>2, <1>6, <1>7, <1>9 DEF ChainOK, OnlyAt

\* balloc() takes the only block of the only group: everything is in use.
LEMMA PopLast ==
  ASSUME NEW G, NEW bl, NEW h, ChainOK(1, G, bl, h),
         G[1].n = 1, NEW t, t = G[1].ids[0],
         NEW b2, OnlyAt(t, bl, b2),
         NEW G2, G2[1].n = 0, G2[1].ids = G[1].ids
  PROVE  t \in Block \ h /\ ChainOK(1, G2, b2, h \cup {t})
<1>1. 1 \in 1 .. 1 /\ 0 \in Entry /\ 0 < G[1].n /\ \A g \in 1 .. 1 : g = 1
  BY Sizes
<1>2. t \in Block \ h
  BY <1>1 DEF ChainOK, FreeOnce
<1>3. \A g \in 1 .. 1, i \in Entry : i < G[g].n => g = 1 /\ i = 0
  BY <1>1 DEF Entry
<1>4. GroupsOK(1, G2)
  BY <1>1, Sizes DEF ChainOK, GroupsOK
<1>5. \A g \in 1 .. 1, i \in Entry : ~(i < G2[g].n)
  BY <1>1 DEF Entry
<1>6. ASSUME NEW b \in Block \ (h \cup {t}) PROVE FALSE
  <2>1. PICK g \in 1 .. 1, i \in Entry : i < G[g].n /\ G[g].ids[i] = b
    BY DEF ChainOK, FreeOnce
  <2> QED
    BY <1>3, <2>1
<1>7. FreeOnce(1, G2, h \cup {t})
  BY <1>5, <1>6 DEF FreeOnce
<1>8. Linked(1, G2, b2)
  BY DEF Linked
<1> QED
  BY <1>2, <1>4, <1>7, <1>8 DEF ChainOK, OnlyAt

\* balloc() takes the bottom block of the group in the superblock, and brings the
\* group stored in that block into the superblock.
LEMMA PopLoad ==
  ASSUME NEW m, NEW G, NEW bl, NEW h, ChainOK(m, G, bl, h), m # 1,
         G[m].n = 1, NEW t, t = G[m].ids[0],
         NEW b2, OnlyAt(t, bl, b2), NEW G2, Same(m - 2, G, G2),
         G2[m - 1].n = G[m - 1].n, G2[m - 1].ids \in [Entry -> Nat],
         Below(G[m - 1].n, G[m - 1].ids, G2[m - 1].ids)
  PROVE  /\ t \in Block \ h /\ bl[t] = G[m - 1] /\ G[m - 1].n # 0
         /\ ChainOK(m - 1, G2, b2, h \cup {t})
<1>1. /\ m \in Nat \ {0} /\ m \in 1 .. m /\ m - 1 \in Nat \ {0} /\ m - 1 \in 1 .. m
      /\ m - 1 \in 1 .. m - 1 /\ m - 1 + 1 = m /\ m - 1 - 1 = m - 2
      /\ \A g \in 1 .. m : g # m => g \in 1 .. m - 1
      /\ \A g \in 1 .. m - 1 : g \in 1 .. m /\ (g # m - 1 => g \in 1 .. m - 2) /\ g # m
      /\ \A g \in 1 .. m - 2 : g \in 1 .. m - 1 /\ g + 1 \in 1 .. m - 1 /\ g \in 1 .. m
      /\ 1 \in 1 .. m - 1
  BY DEF ChainOK, GroupsOK
<1>2. 0 \in Entry /\ 0 < G[m].n /\ \A i \in Entry : i < G[m].n => i = 0
  BY Sizes DEF Entry
<1>3. t \in Block \ h
  BY <1>1, <1>2 DEF ChainOK, FreeOnce
<1>4. \A g \in 1 .. m : G[g].n # 0 /\ 0 < G[g].n
  BY <1>1 DEF ChainOK, GroupsOK
<1>5. bl[t] = G[m - 1] /\ G[m - 1].n # 0
  BY <1>1, <1>4 DEF ChainOK, Linked
<1>6. \A g \in 1 .. m - 1 :
        /\ G2[g].n = G[g].n
        /\ \A i \in Entry : i < G[g].n => G2[g].ids[i] = G[g].ids[i]
  BY <1>1 DEF Same, Below
<1>7. \A g \in 1 .. m, i \in Entry :
        i < G[g].n => (G[g].ids[i] = t <=> g = m /\ i = 0)
  BY <1>1, <1>2 DEF ChainOK, FreeOnce
<1>8. GroupsOK(m - 1, G2)
  <2>1. \A g \in 1 .. m - 1 : G2[g].n \in 0 .. NICFREE /\ G2[g].n # 0
    BY <1>1, <1>4, <1>6 DEF ChainOK, GroupsOK
  <2>2. \A g \in 1 .. m - 1 : G2[g].ids \in [Entry -> Nat]
    BY <1>1 DEF ChainOK, GroupsOK, Same
  <2> QED
    BY <1>1, <2>1, <2>2 DEF GroupsOK
<1>9. FreeOnce(m - 1, G2, h \cup {t})
  <2>1. \A g \in 1 .. m - 1, i \in Entry :
          i < G2[g].n => G2[g].ids[i] \in Block \ (h \cup {t})
    BY <1>1, <1>6, <1>7 DEF ChainOK, FreeOnce
  <2>2. \A g, k \in 1 .. m - 1, i, j \in Entry :
          i < G2[g].n /\ j < G2[k].n /\ G2[g].ids[i] = G2[k].ids[j] => g = k /\ i = j
    BY <1>1, <1>6 DEF ChainOK, FreeOnce
  <2>3. ASSUME NEW b \in Block \ (h \cup {t})
        PROVE  \E g \in 1 .. m - 1, i \in Entry : i < G2[g].n /\ G2[g].ids[i] = b
    <3>1. PICK g \in 1 .. m, i \in Entry : i < G[g].n /\ G[g].ids[i] = b
      BY DEF ChainOK, FreeOnce
    <3>2. g \in 1 .. m - 1
      BY <1>1, <1>2, <3>1
    <3> QED
      BY <1>6, <3>1, <3>2
  <2> QED
    BY <2>1, <2>2, <2>3 DEF FreeOnce
<1>10. \A g \in 1 .. m - 1 : b2[G2[g].ids[0]] = bl[G[g].ids[0]]
  <2>1. ASSUME NEW g \in 1 .. m - 1 PROVE b2[G2[g].ids[0]] = bl[G[g].ids[0]]
    <3>1. g \in 1 .. m /\ g # m /\ 0 < G[g].n
      BY <1>1, <1>4
    <3>2. G2[g].ids[0] = G[g].ids[0]
      BY <1>2, <1>6, <3>1
    <3>3. G[g].ids[0] # t
      BY <1>2, <1>7, <3>1
    <3>4. G[g].ids[0] \in Block
      BY <1>2, <3>1 DEF ChainOK, FreeOnce
    <3> QED
      BY <3>2, <3>3, <3>4 DEF OnlyAt
  <2> QED
    BY <2>1
<1>11. Linked(m - 1, G2, b2)
  <2>1. ASSUME NEW g \in 1 .. m - 2 PROVE b2[G2[g + 1].ids[0]] = G2[g]
    <3>1. bl[G[g + 1].ids[0]] = G[g]
      BY <1>1 DEF ChainOK, Linked
    <3> QED
      BY <1>1, <1>10, <3>1 DEF Same
  <2>2. ~IsLink(b2[G2[1].ids[0]])
    BY <1>1, <1>4, <1>10 DEF ChainOK, Linked
  <2> QED
    BY <1>1, <2>1, <2>2 DEF Linked
<1> QED
  BY <1>3, <1>5, <1>8, <1>9, <1>11 DEF ChainOK, OnlyAt

\* bfree() stacks the block on top of the group in the superblock.
LEMMA PushOne ==
  ASSUME NEW m, NEW G, NEW bl, NEW h, ChainOK(m, G, bl, h),
         NEW n \in Nat, n = G[m].n, n # 0, n # NICFREE, NEW b \in h,
         NEW G2, Same(m - 1, G, G2),
         G2[m].n = n + 1, G2[m].ids = [G[m].ids EXCEPT ![n] = b]
  PROVE  ChainOK(m, G2, bl, h \ {b})
<1>1. /\ m \in Nat \ {0} /\ m \in 1 .. m /\ n \in Entry /\ n + 1 \in 0 .. NICFREE
      /\ n + 1 # 0 /\ n # 0 /\ G[m].ids \in [Entry -> Nat] /\ b \in Nat /\ b \in Block
      /\ \A g \in 1 .. m : g # m => g \in 1 .. m - 1
      /\ \A g \in 1 .. m - 1 : g \in 1 .. m /\ g # m /\ g + 1 \in 1 .. m
  <2>1. m \in Nat \ {0} /\ m \in 1 .. m
    BY DEF ChainOK, GroupsOK
  <2>2. n \in 0 .. NICFREE /\ G[m].ids \in [Entry -> Nat] /\ b \in Block
    BY <2>1 DEF ChainOK, GroupsOK
  <2>3. n \in Entry /\ n + 1 \in 0 .. NICFREE /\ n + 1 # 0
    BY <2>2, Sizes DEF Entry
  <2>4. b \in Nat
    BY <2>2, Sizes DEF Block
  <2> QED
    BY <2>1, <2>2, <2>3, <2>4
<1>2. /\ G2[m].ids \in [Entry -> Nat] /\ G2[m].ids[n] = b
      /\ \A i \in Entry : i # n => G2[m].ids[i] = G[m].ids[i]
  BY <1>1
<1>3. \A g \in 1 .. m, i \in Entry :
        /\ i < G2[g].n <=> i < G[g].n \/ (g = m /\ i = n)
        /\ ~(g = m /\ i = n) => G2[g].ids[i] = G[g].ids[i]
  <2>1. ASSUME NEW i \in Entry
        PROVE  /\ i < G2[m].n <=> i < G[m].n \/ i = n
               /\ i # n => G2[m].ids[i] = G[m].ids[i]
    <3>1. i \in Nat /\ n \in Nat
      BY Sizes
    <3>2. i < n + 1 <=> i < n \/ i = n
      BY <3>1
    <3> QED
      BY <1>2, <3>2
  <2> QED
    BY <1>1, <2>1 DEF Same
<1>4. GroupsOK(m, G2)
  BY <1>1, <1>2 DEF ChainOK, GroupsOK, Same
<1>5. \A g \in 1 .. m, i \in Entry : i < G[g].n => G[g].ids[i] \in Block \ h
  BY DEF ChainOK, FreeOnce
<1>6. FreeOnce(m, G2, h \ {b})
  <2>1. \A g \in 1 .. m, i \in Entry : i < G2[g].n => G2[g].ids[i] \in Block \ (h \ {b})
    BY <1>1, <1>2, <1>3, <1>5
  <2>2. ASSUME NEW g \in 1 .. m, NEW k \in 1 .. m, NEW i \in Entry, NEW j \in Entry,
               i < G2[g].n, j < G2[k].n, G2[g].ids[i] = G2[k].ids[j]
        PROVE  g = k /\ i = j
    <3>1. CASE (g = m /\ i = n) \/ (k = m /\ j = n)
      BY <1>2, <1>3, <1>5, <2>2, <3>1
    <3>2. CASE ~(g = m /\ i = n) /\ ~(k = m /\ j = n)
      <4>1. i < G[g].n /\ j < G[k].n /\ G[g].ids[i] = G[k].ids[j]
        BY <1>3, <2>2, <3>2
      <4> QED
        BY <4>1 DEF ChainOK, FreeOnce
    <3> QED
      BY <3>1, <3>2
  <2>3. ASSUME NEW c \in Block \ (h \ {b})
        PROVE  \E g \in 1 .. m, i \in Entry : i < G2[g].n /\ G2[g].ids[i] = c
    <3>1. CASE c = b
      BY <1>1, <1>2, <1>3, <3>1
    <3>2. CASE c # b
      <4>1. PICK g \in 1 .. m, i \in Entry : i < G[g].n /\ G[g].ids[i] = c
        BY <3>2 DEF ChainOK, FreeOnce
      <4>2. ~(g = m /\ i = n)
        BY <1>1, <4>1
      <4> QED
        BY <1>3, <4>1, <4>2
    <3> QED
      BY <3>1, <3>2
  <2> QED
    BY <2>1, <2>2, <2>3 DEF FreeOnce
<1>7. \A g \in 1 .. m : G2[g].ids[0] = G[g].ids[0] /\ G[g].n # 0
  BY <1>1, <1>3, Sizes DEF ChainOK, GroupsOK
<1>8. Linked(m, G2, bl)
  <2>1. ASSUME NEW g \in 1 .. m - 1 PROVE bl[G2[g + 1].ids[0]] = G2[g]
    BY <1>1, <1>7 DEF ChainOK, Linked, Same
  <2>2. 1 \in 1 .. m
    BY <1>1
  <2>3. ~IsLink(bl[G2[1].ids[0]])
    BY <1>7, <2>2 DEF ChainOK, Linked
  <2> QED
    BY <2>1, <2>3 DEF Linked
<1> QED
  BY <1>4, <1>6, <1>8 DEF ChainOK

\* bfree() writes the full group into the block, which opens a group of its own.
LEMMA Spill ==
  ASSUME NEW m, NEW G, NEW bl, NEW h, ChainOK(m, G, bl, h),
         G[m].n = NICFREE, NEW b \in h, G[m] \in Words,
         NEW b2, b2 = [bl EXCEPT ![b] = G[m]],
         NEW G2, Same(m, G, G2),
         G2[m + 1].n = 1, G2[m + 1].ids \in [Entry -> Nat], G2[m + 1].ids[0] = b
  PROVE  ChainOK(m + 1, G2, b2, h \ {b})
<1>1. /\ m \in Nat \ {0} /\ m \in 1 .. m /\ m + 1 \in Nat \ {0} /\ m + 1 \in 1 .. m + 1
      /\ m + 1 # 1 /\ m + 1 - 1 = m /\ b \in Block /\ 0 \in Entry /\ 1 \in 1 .. m
      /\ NICFREE # 0 /\ 1 \in 0 .. NICFREE
      /\ \A g \in 1 .. m + 1 : g \in 1 .. m \/ g = m + 1
      /\ \A g \in 1 .. m : g \in 1 .. m + 1 /\ g # m + 1
      /\ \A g \in 1 .. m : g = m \/ (g \in 1 .. m - 1 /\ g + 1 \in 1 .. m)
  BY Sizes DEF ChainOK, GroupsOK
<1>2. /\ b2 \in [Block -> Words] /\ b2[b] = G[m]
      /\ \A c \in Block : c # b => b2[c] = bl[c]
  BY <1>1 DEF ChainOK
<1>3. \A g \in 1 .. m : G2[g] = G[g]
  BY DEF Same
<1>4. \A i \in Entry : i < G2[m + 1].n <=> i = 0
  BY Sizes DEF Entry
<1>5. \A g \in 1 .. m : G[g].n # 0 /\ 0 < G[g].n
  <2>1. m = 1 => \A g \in 1 .. m : g = m
    BY <1>1
  <2> QED
    BY <1>1, <2>1, Sizes DEF ChainOK, GroupsOK
<1>6. GroupsOK(m + 1, G2)
  <2>1. \A g \in 1 .. m : G2[g].n \in 0 .. NICFREE /\ G2[g].ids \in [Entry -> Nat] /\ G2[g].n # 0
    BY <1>5, <1>3 DEF ChainOK, GroupsOK
  <2> QED
    BY <1>1, <2>1 DEF GroupsOK
<1>7. \A g \in 1 .. m, i \in Entry : i < G[g].n => G[g].ids[i] \in Block \ h
  BY DEF ChainOK, FreeOnce
<1>8. FreeOnce(m + 1, G2, h \ {b})
  <2>1. ASSUME NEW g \in 1 .. m + 1, NEW i \in Entry, i < G2[g].n
        PROVE  G2[g].ids[i] \in Block \ (h \ {b})
    BY <1>1, <1>4, <1>7, <1>3, <2>1
  <2>2. ASSUME NEW g \in 1 .. m + 1, NEW k \in 1 .. m + 1, NEW i \in Entry, NEW j \in Entry,
               i < G2[g].n, j < G2[k].n, G2[g].ids[i] = G2[k].ids[j]
        PROVE  g = k /\ i = j
    <3>1. CASE g = m + 1 \/ k = m + 1
      BY <1>1, <1>4, <1>7, <1>3, <2>2, <3>1
    <3>2. CASE g \in 1 .. m /\ k \in 1 .. m
      BY <1>3, <2>2, <3>2 DEF ChainOK, FreeOnce
    <3> QED
      BY <1>1, <3>1, <3>2
  <2>3. ASSUME NEW c \in Block \ (h \ {b})
        PROVE  \E g \in 1 .. m + 1, i \in Entry : i < G2[g].n /\ G2[g].ids[i] = c
    <3>1. CASE c = b
      BY <1>1, <1>4, <3>1
    <3>2. CASE c # b
      <4>1. PICK g \in 1 .. m, i \in Entry : i < G[g].n /\ G[g].ids[i] = c
        BY <3>2 DEF ChainOK, FreeOnce
      <4> QED
        BY <1>1, <1>3, <4>1
    <3> QED
      BY <3>1, <3>2
  <2> QED
    BY <2>1, <2>2, <2>3 DEF FreeOnce
<1>9. \A g \in 1 .. m : b2[G[g].ids[0]] = bl[G[g].ids[0]]
  <2>1. ASSUME NEW g \in 1 .. m PROVE b2[G[g].ids[0]] = bl[G[g].ids[0]]
    <3>1. G[g].ids[0] \in Block \ h
      BY <1>1, <1>5, <1>7
    <3> QED
      BY <1>2, <3>1
  <2> QED
    BY <2>1
<1>10. Linked(m + 1, G2, b2)
  <2>1. ASSUME NEW g \in 1 .. m PROVE b2[G2[g + 1].ids[0]] = G2[g]
    <3>1. CASE g = m
      BY <1>2, <1>3, <3>1
    <3>2. CASE g # m
      BY <1>1, <1>9, <1>3, <3>2 DEF ChainOK, Linked
    <3> QED
      BY <3>1, <3>2
  <2>2. ~IsLink(b2[G2[1].ids[0]])
    BY <1>1, <1>5, <1>9, <1>3 DEF ChainOK, Linked
  <2> QED
    BY <1>1, <2>1, <2>2 DEF Linked
<1> QED
  BY <1>2, <1>6, <1>8, <1>10 DEF ChainOK

\* Files write only what is theirs.
LEMMA WriteHeld ==
  ASSUME NEW m, NEW G, NEW bl, NEW h, ChainOK(m, G, bl, h),
         NEW b \in h, NEW b2, OnlyAt(b, bl, b2)
  PROVE  ChainOK(m, G, b2, h)
<1>1. m \in Nat \ {0} /\ 1 \in 1 .. m /\ 0 \in Entry
  BY Sizes DEF ChainOK, GroupsOK
<1>2. \A g \in 1 .. m : G[g].n # 0 => b2[G[g].ids[0]] = bl[G[g].ids[0]]
  <2>1. ASSUME NEW g \in 1 .. m, G[g].n # 0 PROVE b2[G[g].ids[0]] = bl[G[g].ids[0]]
    <3>1. 0 < G[g].n
      BY <2>1, Sizes DEF ChainOK, GroupsOK
    <3>2. G[g].ids[0] \in Block \ h
      BY <1>1, <3>1 DEF ChainOK, FreeOnce
    <3> QED
      BY <3>2 DEF OnlyAt
  <2> QED
    BY <2>1
<1>3. ASSUME NEW g \in 1 .. m - 1 PROVE b2[G[g + 1].ids[0]] = G[g]
  <2>1. g + 1 \in 1 .. m /\ g + 1 # 1 /\ m # 1
    BY <1>1
  <2>2. G[g + 1].n # 0
    BY <2>1 DEF ChainOK, GroupsOK
  <2> QED
    BY <1>2, <2>1, <2>2 DEF ChainOK, Linked
<1> QED
  BY <1>1, <1>2, <1>3 DEF ChainOK, Linked, OnlyAt

-----------------------------------------------------------------------------
(***************************************************************************)
(* The inductive invariant.                                                *)
(***************************************************************************)

\* The groups gs on the disk, and the one in the superblock s.
Chain(gs, s) ==
  [g \in 1 .. Len(gs) + 1 |->
     IF g <= Len(gs) THEN gs[g] ELSE [n |-> s.s_nfree, ids |-> s.s_free]]

ListOK(s, gs, bl, h) ==
  /\ s \in Filsys /\ gs \in Seq(Words)
  /\ s.s_nfree # 0 => s.s_pfree = s.s_nfree - 1
  /\ ChainOK(Len(gs) + 1, Chain(gs, s), bl, h)

IInv == ListOK(sb, groups, blk, held) /\ got \in Block \cup {DISKFULL}

\* What a position of the chain holds.
LEMMA ChainParts ==
  ASSUME NEW gs \in Seq(Words), NEW s, NEW m, m = Len(gs) + 1
  PROVE  /\ m \in Nat \ {0} /\ m - 1 = Len(gs) /\ m \in 1 .. m
         /\ Chain(gs, s)[m] = [n |-> s.s_nfree, ids |-> s.s_free]
         /\ \A g \in 1 .. m - 1 : Chain(gs, s)[g] = gs[g] /\ gs[g] \in Words
<1>1. Len(gs) \in Nat /\ \A g \in 1 .. Len(gs) : gs[g] \in Words
  BY LenProperties, ElementOfSeq
<1>2. /\ m \in Nat \ {0} /\ m - 1 = Len(gs) /\ m \in 1 .. m /\ ~(m <= Len(gs))
      /\ \A g \in 1 .. m - 1 : g \in 1 .. m /\ g <= Len(gs) /\ g \in 1 .. Len(gs)
  BY <1>1
<1> QED
  BY <1>1, <1>2 DEF Chain

\* The groups left on the disk once balloc() has taken a block, and once bfree() has
\* stacked one.
Rest(s, gs) ==
  IF s.s_nfree = 1 /\ gs # << >> THEN SubSeq(gs, 1, Len(gs) - 1) ELSE gs
Grown(s, gs) ==
  IF s.s_nfree = NICFREE THEN Append(gs, [n |-> NICFREE, ids |-> s.s_free]) ELSE gs

\* balloc() on a list in order: the block was free, and the list stays in order
\* whatever is then written into the block.
LEMMA PopOK ==
  ASSUME NEW s, NEW gs, NEW bl, NEW h, ListOK(s, gs, bl, h), s.s_nfree # 0,
         NEW t, t = BallocBlock(s),
         NEW b2, OnlyAt(t, bl, b2),
         NEW g2, g2 = Rest(s, gs)
  PROVE  t \in Block \ h /\ ListOK(BallocSb(s, bl), g2, b2, h \cup {t})
<1>1. PICK m, n, G : m = Len(gs) + 1 /\ n = s.s_nfree /\ G = Chain(gs, s)
  OBVIOUS
<1>2. /\ s \in Filsys /\ gs \in Seq(Words) /\ ChainOK(m, G, bl, h)
      /\ s.s_pfree = n - 1
  BY <1>1 DEF ListOK
<1>3. n \in 1 .. NICFREE /\ n \in Nat /\ s.s_free \in [Entry -> Nat] /\ n - 1 \in Entry
  <2>1. n \in 0 .. NICFREE /\ s.s_free \in [Entry -> Nat]
    BY <1>1, <1>2 DEF Filsys, Entry
  <2> QED
    BY <1>1, <2>1, Sizes DEF Entry
<1>4. t = s.s_free[n - 1]
  BY <1>1, <1>2, <1>3, Sizes DEF BallocBlock, FreeWord, Entry
<1>5. /\ m \in Nat \ {0} /\ m - 1 = Len(gs) /\ G[m] = [n |-> n, ids |-> s.s_free]
      /\ \A g \in 1 .. m - 1 : G[g] = gs[g] /\ gs[g] \in Words
  BY <1>1, <1>2, ChainParts
<1>6. G[m].n = n /\ G[m].ids = s.s_free
  BY <1>5
<1>7. PICK s2, G2 : s2 = BallocSb(s, bl) /\ G2 = Chain(g2, s2)
  OBVIOUS
<1>8. CASE n > 1
  <2>1. g2 = gs
    BY <1>1, <1>3, <1>8 DEF Rest
  <2>2. s2 = [s EXCEPT !.s_pfree = n - 1 - 1, !.s_nfree = n - 1]
    BY <1>1, <1>2, <1>7, <1>8 DEF BallocSb, Filsys
  <2>3. n - 1 \in 0 .. NICFREE /\ n - 1 - 1 \in 0 .. NICFREE
    BY <1>3, <1>8, Sizes
  <2>4. /\ s2 \in Filsys /\ s2.s_nfree = n - 1 /\ s2.s_pfree = n - 1 - 1
        /\ s2.s_free = s.s_free
    BY <1>2, <2>2, <2>3 DEF Filsys
  <2>5. /\ G2[m].n = n - 1 /\ G2[m].ids = G[m].ids
        /\ Same(m - 1, G, G2)
    <3>1. /\ G2[m] = [n |-> s2.s_nfree, ids |-> s2.s_free]
          /\ \A g \in 1 .. m - 1 : G2[g] = gs[g]
      BY <1>1, <1>2, <1>7, <2>1, ChainParts
    <3> QED
      BY <1>5, <1>6, <2>4, <3>1 DEF Same
  <2>6. t \in Block \ h /\ ChainOK(m, G2, b2, h \cup {t})
    <3>1. n = G[m].n /\ t = G[m].ids[n - 1] /\ ChainOK(m, G, bl, h) /\ n \in Nat
      BY <1>2, <1>3, <1>4, <1>6
    <3> QED
      BY <1>8, <2>5, <3>1, PopOne
  <2> QED
    BY <1>1, <1>2, <1>7, <2>1, <2>4, <2>6 DEF ListOK
<1>9. CASE n = 1 /\ gs = << >>
  <2>1. g2 = gs /\ m = 1
    BY <1>1, <1>9 DEF Rest
  <2>2. t = G[1].ids[0] /\ G[1].n = 1
    BY <1>4, <1>6, <1>9, <2>1
  <2>3. ~IsLink(bl[t])
    BY <1>2, <2>1, <2>2 DEF ChainOK, Linked
  <2>4. FreeWord(s, s.s_pfree) = t
    BY <1>1, <1>9 DEF BallocBlock
  <2>5. s2 = [s EXCEPT !.s_nfree = 0, !.s_pfree = 0]
    BY <1>1, <1>7, <1>9, <2>3, <2>4 DEF BallocSb
  <2>6. 0 \in 0 .. NICFREE
    BY Sizes
  <2>7. s2 \in Filsys /\ s2.s_nfree = 0 /\ s2.s_free = s.s_free
    BY <1>2, <2>5, <2>6 DEF Filsys
  <2>8. G2[1].n = 0 /\ G2[1].ids = G[1].ids
    <3>1. G2[1] = [n |-> s2.s_nfree, ids |-> s2.s_free]
      BY <1>1, <1>2, <1>7, <2>1, ChainParts
    <3> QED
      BY <1>6, <2>1, <2>7, <3>1
  <2>9. t \in Block \ h /\ ChainOK(1, G2, b2, h \cup {t})
    BY <1>2, <2>1, <2>2, <2>8, PopLast
  <2> QED
    BY <1>1, <1>2, <1>7, <2>1, <2>7, <2>9 DEF ListOK
<1>10. CASE n = 1 /\ gs # << >>
  <2>1. g2 = SubSeq(gs, 1, Len(gs) - 1)
    BY <1>1, <1>10 DEF Rest
  <2>2. /\ Len(gs) \in Nat \ {0} /\ m # 1 /\ m - 1 \in Nat \ {0} /\ m - 1 \in 1 .. m - 1
        /\ m - 1 - 1 = m - 2
    BY <1>2, <1>5, <1>10, EmptySeq, LenProperties
  <2>3. /\ g2 \in Seq(Words) /\ Len(g2) = m - 2
        /\ \A g \in 1 .. m - 2 : g2[g] = gs[g]
    BY <1>2, <1>5, <2>1, <2>2, SubSeqProperties
  <2>4. t = G[m].ids[0] /\ G[m].n = 1
    BY <1>4, <1>6, <1>10
  <2>5. bl[t] = G[m - 1] /\ G[m - 1].n # 0
    BY <1>2, <2>2, <2>4 DEF ChainOK, Linked, GroupsOK
  <2>6. G[m - 1].n \in 1 .. NICFREE /\ G[m - 1].ids \in [Entry -> Nat]
    BY <1>2, <1>5, <2>2, <2>5, Sizes DEF ChainOK, GroupsOK
  <2>7. FreeWord(s, s.s_pfree) = t
    BY <1>1, <1>10 DEF BallocBlock
  <2>8. PICK f : f = [i \in Entry |-> IF i < G[m - 1].n THEN G[m - 1].ids[i]
                                                       ELSE s.s_free[i]]
    OBVIOUS
  <2>9. s2 = [s EXCEPT !.s_free = f, !.s_nfree = G[m - 1].n, !.s_pfree = G[m - 1].n - 1]
    <3>1. IsLink(bl[t])
      BY <2>5, <2>6 DEF IsLink
    <3>2. s2 = LoadGroup(s, bl[t])
      BY <1>1, <1>7, <1>10, <2>7, <3>1 DEF BallocSb
    <3>3. LoadGroup(s, G[m - 1]) =
            [s EXCEPT !.s_free = f, !.s_nfree = G[m - 1].n, !.s_pfree = G[m - 1].n - 1]
      BY <2>8, Zenon DEF LoadGroup, Entry
    <3> QED
      BY <2>5, <3>2, <3>3
  <2>10. /\ f \in [Entry -> Nat]
         /\ \A i \in Entry : i < G[m - 1].n => f[i] = G[m - 1].ids[i]
    BY <1>3, <2>6, <2>8
  <2>11. G[m - 1].n \in 0 .. NICFREE /\ G[m - 1].n - 1 \in 0 .. NICFREE
    BY <2>6, Sizes
  <2>12. /\ s2 \in Filsys /\ s2.s_nfree = G[m - 1].n /\ s2.s_pfree = G[m - 1].n - 1
         /\ s2.s_free = f
    BY <1>2, <2>9, <2>10, <2>11 DEF Filsys, Entry
  <2>13. /\ G2[m - 1].n = G[m - 1].n /\ G2[m - 1].ids = f
         /\ Same(m - 2, G, G2)
    <3>1. PICK k : k = m - 1 /\ k = Len(g2) + 1
      BY <2>2, <2>3
    <3>2. /\ Chain(g2, s2)[k] = [n |-> s2.s_nfree, ids |-> s2.s_free]
          /\ \A g \in 1 .. k - 1 : Chain(g2, s2)[g] = g2[g]
      <4>1. g2 \in Seq(Words)
        BY <2>3
      <4> QED
        BY <3>1, <4>1, ChainParts
    <3>3. \A g \in 1 .. m - 2 : g \in 1 .. m - 1
      BY <1>5
    <3> QED
      BY <1>5, <1>7, <2>2, <2>3, <2>12, <3>1, <3>2, <3>3 DEF Same
  <2>14. t \in Block \ h /\ ChainOK(m - 1, G2, b2, h \cup {t})
    <3>1. G2[m - 1].ids \in [Entry -> Nat]
      BY <2>10, <2>13
    <3>2. Below(G[m - 1].n, G[m - 1].ids, G2[m - 1].ids)
      BY <2>10, <2>13 DEF Below
    <3> QED
      <4>1. ChainOK(m, G, bl, h) /\ m # 1 /\ G[m].n = 1 /\ t = G[m].ids[0]
        BY <1>2, <2>2, <2>4
      <4> QED
        BY <2>13, <3>1, <3>2, <4>1, PopLoad
  <2>15. m - 1 = Len(g2) + 1
    BY <2>2, <2>3
  <2> QED
    BY <1>7, <2>3, <2>12, <2>14, <2>15 DEF ListOK
<1> QED
  BY <1>3, <1>8, <1>9, <1>10

\* bfree() on a list in order that is not empty.
LEMMA PushOK ==
  ASSUME NEW s, NEW gs, NEW bl, NEW h, ListOK(s, gs, bl, h), s.s_nfree # 0,
         NEW b \in h
  PROVE  ListOK(BfreeSb(s, b), Grown(s, gs), BfreeBlk(s, bl, b), h \ {b})
<1>1. PICK m, n, G : m = Len(gs) + 1 /\ n = s.s_nfree /\ G = Chain(gs, s)
  OBVIOUS
<1>2. /\ s \in Filsys /\ gs \in Seq(Words) /\ ChainOK(m, G, bl, h)
      /\ s.s_pfree = n - 1
  BY <1>1 DEF ListOK
<1>3. n \in 1 .. NICFREE /\ n \in Nat /\ s.s_free \in [Entry -> Nat] /\ n # 0
  <2>1. n \in 0 .. NICFREE /\ s.s_free \in [Entry -> Nat]
    BY <1>1, <1>2 DEF Filsys, Entry
  <2> QED
    BY <1>1, <2>1, Sizes DEF Entry
<1>4. /\ m \in Nat \ {0} /\ m - 1 = Len(gs) /\ G[m] = [n |-> n, ids |-> s.s_free]
      /\ \A g \in 1 .. m - 1 : G[g] = gs[g] /\ gs[g] \in Words
  BY <1>1, <1>2, ChainParts
<1>5. G[m].n = n /\ G[m].ids = s.s_free
  BY <1>4
<1>6. b \in Block /\ b \in Nat
  <2>1. b \in Block
    BY <1>2 DEF ChainOK
  <2> QED
    BY <2>1, Sizes DEF Block
<1>7. PICK s2, g2, b2 : /\ s2 = BfreeSb(s, b) /\ g2 = Grown(s, gs)
                        /\ b2 = BfreeBlk(s, bl, b)
  OBVIOUS
<1>8. PICK G2 : G2 = Chain(g2, s2)
  OBVIOUS
<1>9. CASE n # NICFREE
  <2>1. g2 = gs /\ b2 = bl
    BY <1>1, <1>7, <1>9 DEF Grown, BfreeBlk
  <2>2. PICK f : f = [s.s_free EXCEPT ![n] = b]
    OBVIOUS
  <2>3. n \in Entry /\ n < NICFREE /\ n - 1 + 1 = n
    BY <1>3, <1>9, Sizes DEF Entry
  <2>4. s2 = [s EXCEPT !.s_pfree = n, !.s_nfree = n + 1, !.s_free = f]
    <3>1. PICK r : r = [s EXCEPT !.s_pfree = n, !.s_nfree = n + 1]
      OBVIOUS
    <3>2. s2 = SetFreeWord(r, n, b)
      BY <1>1, <1>2, <1>7, <1>9, <2>3, <3>1 DEF BfreeSb, Filsys
    <3>3. SetFreeWord(r, n, b) = [r EXCEPT !.s_free[n] = b]
      BY <2>3 DEF SetFreeWord
    <3>4. r.s_free = s.s_free
      BY <1>2, <3>1 DEF Filsys
    <3> QED
      BY <1>2, <2>2, <3>1, <3>2, <3>3, <3>4 DEF Filsys
  <2>5. f \in [Entry -> Nat]
    BY <1>3, <1>6, <2>2, <2>3
  <2>6. n \in 0 .. NICFREE /\ n + 1 \in 0 .. NICFREE /\ n + 1 - 1 = n
    BY <1>3, <2>3, Sizes
  <2>7. /\ s2 \in Filsys /\ s2.s_nfree = n + 1 /\ s2.s_pfree = n /\ s2.s_free = f
    BY <1>2, <2>4, <2>5, <2>6 DEF Filsys, Entry
  <2>8. /\ G2[m].n = n + 1 /\ G2[m].ids = [G[m].ids EXCEPT ![n] = b]
        /\ Same(m - 1, G, G2)
    <3>1. /\ G2[m] = [n |-> s2.s_nfree, ids |-> s2.s_free]
          /\ \A g \in 1 .. m - 1 : G2[g] = gs[g]
      BY <1>1, <1>2, <1>8, <2>1, ChainParts
    <3>2. G2[m].n = n + 1 /\ G2[m].ids = f
      BY <2>7, <3>1
    <3> QED
      BY <1>4, <1>5, <2>2, <3>1, <3>2 DEF Same
  <2>9. ChainOK(m, G2, bl, h \ {b})
    BY <1>2, <1>3, <1>5, <1>9, <2>8, PushOne
  <2> QED
    BY <1>1, <1>2, <1>7, <1>8, <2>1, <2>6, <2>7, <2>9 DEF ListOK
<1>10. CASE n = NICFREE
  <2>1. PICK f : f = [s.s_free EXCEPT ![0] = b]
    OBVIOUS
  <2>2. f \in [Entry -> Nat] /\ f[0] = b
    BY <1>3, <1>6, <2>1, Sizes
  <2>3. s2 = [s EXCEPT !.s_free = f, !.s_nfree = 1, !.s_pfree = 0]
    BY <1>1, <1>2, <1>7, <1>10, <2>1 DEF BfreeSb, Filsys
  <2>4. 1 \in 0 .. NICFREE /\ 0 \in 0 .. NICFREE
    BY Sizes
  <2>5. s2 \in Filsys /\ s2.s_nfree = 1 /\ s2.s_pfree = 0 /\ s2.s_free = f
    BY <1>2, <2>2, <2>3, <2>4 DEF Filsys, Entry
  <2>6. G[m] \in Words
    BY <1>3, <1>4 DEF Words, Entry
  <2>7. g2 = Append(gs, G[m]) /\ b2 = [bl EXCEPT ![b] = G[m]]
    BY <1>1, <1>4, <1>7, <1>10 DEF Grown, BfreeBlk
  <2>8. /\ g2 \in Seq(Words) /\ Len(g2) = m
        /\ g2[m] = G[m] /\ \A g \in 1 .. m - 1 : g2[g] = gs[g]
    BY <1>2, <1>4, <2>6, <2>7, AppendProperties
  <2>9. /\ G2[m + 1].n = 1 /\ G2[m + 1].ids = f /\ Same(m, G, G2)
    <3>1. PICK k : k = m + 1 /\ k = Len(g2) + 1
      BY <2>8
    <3>2. /\ G2[k] = [n |-> s2.s_nfree, ids |-> s2.s_free]
          /\ \A g \in 1 .. k - 1 : G2[g] = g2[g]
      BY <1>8, <2>8, <3>1, ChainParts
    <3>3. k - 1 = m /\ \A g \in 1 .. m : g = m \/ g \in 1 .. m - 1
      BY <1>4, <3>1
    <3>4. \A g \in 1 .. m : G2[g] = G[g]
      BY <1>4, <2>8, <3>2, <3>3
    <3>5. G2[k].n = 1 /\ G2[k].ids = f
      BY <2>5, <3>2
    <3> QED
      BY <3>1, <3>4, <3>5 DEF Same
  <2>10. ChainOK(m + 1, G2, b2, h \ {b})
    BY <1>2, <1>5, <1>10, <2>2, <2>6, <2>7, <2>9, Spill
  <2> QED
    BY <1>7, <1>8, <2>5, <2>8, <2>10 DEF ListOK
<1> QED
  BY <1>9, <1>10

-----------------------------------------------------------------------------
(***************************************************************************)
(* The chain that format() writes.                                         *)
(***************************************************************************)

LEMMA Division ==
  ASSUME NEW x \in Nat
  PROVE  /\ x \div NICFREE \in Nat /\ x % NICFREE \in Entry
         /\ x = (x \div NICFREE) * NICFREE + (x % NICFREE)
BY Sizes DEF Entry

LEMMA NextMultiple ==
  ASSUME NEW j \in Nat, NEW k \in Nat, j < k
  PROVE  /\ j * NICFREE \in Nat /\ k * NICFREE \in Nat
         /\ j * NICFREE + NICFREE <= k * NICFREE
<1>1. PICK d \in Nat : k = j + 1 + d
  <2>1. k - j - 1 \in Nat /\ k = j + 1 + (k - j - 1)
    OBVIOUS
  <2> QED
    BY <2>1
<1>2. NICFREE \in Nat
  BY Sizes
<1>3. d * NICFREE \in Nat /\ j * NICFREE \in Nat /\ k * NICFREE \in Nat
  BY <1>2
<1>4. k * NICFREE = j * NICFREE + NICFREE + d * NICFREE
  BY <1>1, <1>2
<1> QED
  BY <1>2, <1>3, <1>4

\* A block is in one place of one group only.
LEMMA OnePlace ==
  ASSUME NEW j \in Nat, NEW k \in Nat, NEW p \in Entry, NEW q \in Entry,
         j * NICFREE + p = k * NICFREE + q
  PROVE  j = k /\ p = q
<1>1. /\ NICFREE \in Nat /\ p \in Nat /\ q \in Nat /\ p < NICFREE /\ q < NICFREE
  BY Sizes DEF Entry
<1>2. j * NICFREE \in Nat /\ k * NICFREE \in Nat
  BY <1>1
<1>3. ~(j < k)
  BY <1>1, <1>2, NextMultiple
<1>4. ~(k < j)
  BY <1>1, <1>2, NextMultiple
<1>5. j = k
  BY <1>3, <1>4
<1> QED
  BY <1>1, <1>2, <1>5

\* The groups are numbered from 0, the one in the superblock, to Sections.
LEMMA SectionsValue ==
  /\ Sections \in Nat /\ TotalFree \in Nat /\ TotalFree >= NICFREE
  /\ \A k \in Nat : k <= Sections => k * NICFREE < TotalFree /\ k * NICFREE \in Nat
  /\ \A k \in Nat, i \in Entry : k * NICFREE + i < TotalFree => k <= Sections
<1>1. /\ TotalFree \in Nat /\ TotalFree >= NICFREE /\ TotalFree - 1 \in Nat
      /\ NICFREE \in Nat
  BY Sizes DEF TotalFree
<1>2. PICK t : t = TotalFree - 1 /\ t \in Nat /\ TotalFree = t + 1
  BY <1>1
<1>3. /\ Sections \in Nat /\ t % NICFREE \in Entry
      /\ t = Sections * NICFREE + (t % NICFREE)
  BY <1>2, Division DEF Sections
<1>4. PICK r \in Entry : t = Sections * NICFREE + r
  BY <1>3
<1>5. r \in Nat /\ r < NICFREE
  BY Sizes DEF Entry
<1>6. Sections * NICFREE \in Nat
  BY <1>1, <1>3
<1>7. ASSUME NEW k \in Nat, k <= Sections
      PROVE  k * NICFREE < TotalFree /\ k * NICFREE \in Nat
  <2>1. CASE k = Sections
    BY <1>2, <1>4, <1>5, <1>6, <2>1
  <2>2. CASE k # Sections
    <3>1. k < Sections
      BY <1>3, <1>7, <2>2
    <3>2. k * NICFREE \in Nat /\ k * NICFREE + NICFREE <= Sections * NICFREE
      BY <1>3, <3>1, NextMultiple
    <3> QED
      BY <1>1, <1>2, <1>4, <1>5, <1>6, <3>2
  <2> QED
    BY <2>1, <2>2
<1>8. ASSUME NEW k \in Nat, NEW i \in Entry, k * NICFREE + i < TotalFree
      PROVE  k <= Sections
  <2>1. i \in Nat
    BY Sizes
  <2>2. SUFFICES ASSUME Sections < k PROVE FALSE
    BY <1>3
  <2>3. Sections * NICFREE + NICFREE <= k * NICFREE /\ k * NICFREE \in Nat
    BY <1>3, <2>2, NextMultiple
  <2> QED
    BY <1>1, <1>2, <1>4, <1>5, <1>6, <1>8, <2>1, <2>3
<1> QED
  BY <1>1, <1>3, <1>7, <1>8

\* What a group holds.
LEMMA SectionParts ==
  ASSUME NEW k \in Nat, k <= Sections
  PROVE  /\ Section(k) \in Words /\ Section(k).n \in 1 .. NICFREE
         /\ Section(k).ids \in [Entry -> Nat]
         /\ \A i \in Entry :
              /\ i < Section(k).n <=> k * NICFREE + i < TotalFree
              /\ i < Section(k).n => Section(k).ids[i] = 3 + k * NICFREE + i
<1>1. PICK p : p = k * NICFREE
  OBVIOUS
<1>2. /\ p \in Nat /\ p < TotalFree /\ TotalFree \in Nat
      /\ NICFREE \in Nat \ {0} /\ Entry \subseteq Nat
  BY <1>1, SectionsValue, Sizes
<1>3. PICK n : n = IF TotalFree - p < NICFREE THEN TotalFree - p ELSE NICFREE
  OBVIOUS
<1>4. n \in 1 .. NICFREE /\ \A i \in Entry : i < n <=> p + i < TotalFree
  <2>1. \A i \in Entry : i \in Nat /\ i < NICFREE
    BY <1>2 DEF Entry
  <2> QED
    BY <1>2, <1>3, <2>1
<1>5. PICK f : f = [i \in Entry |-> IF i < n THEN 3 + p + i ELSE 0]
  OBVIOUS
<1>6. f \in [Entry -> Nat] /\ \A i \in Entry : i < n => f[i] = 3 + p + i
  BY <1>2, <1>5
<1>7. Section(k) = [n |-> n, ids |-> f]
  BY <1>1, <1>3, <1>5 DEF Section, Entry
<1>8. Section(k) \in Words
  BY <1>4, <1>6, <1>7 DEF Words, Entry
<1> QED
  BY <1>1, <1>4, <1>6, <1>7, <1>8

\* What format() writes into a block.
LEMMA FormatParts ==
  /\ \A b \in Block : FormatWords(b) \in Words
  /\ \A k \in Nat : k < Sections => FormatWords(3 + k * NICFREE) = Section(k + 1)
  /\ ~IsLink(FormatWords(3 + Sections * NICFREE))
<1>1. ZeroWords \in Words /\ ~IsLink(ZeroWords)
  BY Sizes DEF ZeroWords, Words, IsLink
<1>2. ASSUME NEW b \in Block PROVE FormatWords(b) \in Words
  <2>1. b \in Nat
    BY Sizes DEF Block
  <2>2. CASE b >= 3 /\ (b - 3) % NICFREE = 0 /\ (b - 3) \div NICFREE < Sections
    <3>1. b - 3 \in Nat
      BY <2>1, <2>2
    <3>2. PICK q \in Nat : q = (b - 3) \div NICFREE
      BY <3>1, Division
    <3>3. q + 1 \in Nat /\ q + 1 <= Sections
      BY <2>2, <3>2, SectionsValue
    <3>4. FormatWords(b) = Section(q + 1)
      BY <2>2, <3>2 DEF FormatWords
    <3> QED
      BY <3>3, <3>4, SectionParts
  <2>3. CASE ~(b >= 3 /\ (b - 3) % NICFREE = 0 /\ (b - 3) \div NICFREE < Sections)
    BY <1>1, <2>3 DEF FormatWords
  <2> QED
    BY <2>2, <2>3
<1>3. ASSUME NEW k \in Nat
      PROVE  FormatWords(3 + k * NICFREE) =
               IF k < Sections THEN Section(k + 1) ELSE ZeroWords
  <2>1. k * NICFREE \in Nat /\ 0 \in Entry
    BY Sizes
  <2>2. PICK b \in Nat : b = 3 + k * NICFREE /\ b >= 3 /\ b - 3 = k * NICFREE
    BY <2>1
  <2>3. /\ (b - 3) \div NICFREE \in Nat /\ (b - 3) % NICFREE \in Entry
        /\ b - 3 = ((b - 3) \div NICFREE) * NICFREE + ((b - 3) % NICFREE)
    BY <2>1, <2>2, Division
  <2>4. PICK q \in Nat, r \in Entry : q = (b - 3) \div NICFREE /\ r = (b - 3) % NICFREE
    BY <2>3
  <2>5. k * NICFREE + 0 = q * NICFREE + r
    BY <2>1, <2>2, <2>3, <2>4
  <2>6. q = k /\ r = 0
    BY <2>1, <2>5, OnePlace
  <2>7. FormatWords(b) = IF b >= 3 /\ r = 0 /\ q < Sections THEN Section(q + 1) ELSE ZeroWords
    BY <2>4 DEF FormatWords
  <2> QED
    BY <2>2, <2>6, <2>7
<1> QED
  BY <1>1, <1>2, <1>3, SectionsValue

-----------------------------------------------------------------------------
(***************************************************************************)
(* Every reachable state satisfies the invariant.                          *)
(***************************************************************************)

LEMMA WrapRange == \A x \in Int : Wrap16(x) \in 0 .. MaxWord
<1>1. \A x, n \in Int : n > 0 => x % n \in 0 .. n - 1
  BY SMT
<1>2. PICK n \in Int : n = MaxWord + 1 /\ n > 0 /\ MaxWord = n - 1
  BY DEF MaxWord
<1> QED
  BY <1>1, <1>2 DEF Wrap16

LEMMA InitOK == Init => IInv
<1> SUFFICES ASSUME Init PROVE IInv
  OBVIOUS
<1>1. PICK z : z = Sections
  OBVIOUS
<1>2. /\ z \in Nat /\ TotalFree \in Nat /\ TotalFree >= NICFREE
      /\ \A k \in Nat : k <= z => k * NICFREE < TotalFree /\ k * NICFREE \in Nat
      /\ \A k \in Nat, i \in Entry : k * NICFREE + i < TotalFree => k <= z
  BY <1>1, SectionsValue
<1>3. \A g \in 1 .. z + 1 :
        /\ z + 1 - g \in Nat /\ z + 1 - g <= z
        /\ Section(z + 1 - g) \in Words
        /\ Section(z + 1 - g).n \in 1 .. NICFREE
        /\ Section(z + 1 - g).ids \in [Entry -> Nat]
  BY <1>1, <1>2, SectionParts
<1>4. /\ groups \in [1 .. z -> Words]
      /\ \A g \in 1 .. z : groups[g] = Section(z + 1 - g)
  BY <1>1, <1>2, <1>3 DEF Init
<1>5. groups \in Seq(Words) /\ Len(groups) = z
  <2>1. groups \in Seq(Words)
    BY <1>2, <1>4, SeqDef
  <2>2. Len(groups) \in Nat /\ 1 .. Len(groups) = 1 .. z
    BY <1>4, <2>1, LenProperties
  <2> QED
    BY <1>2, <2>1, <2>2
<1>6. /\ sb.s_nfree = NICFREE /\ sb.s_pfree = NICFREE - 1 /\ sb.s_free = Section(0).ids
      /\ sb.s_ninode = FormatNinode /\ sb.s_pinode = Wrap16(FormatNinode - 1)
      /\ sb.s_rinode = 4
      /\ sb.s_inode = [k \in 0 .. NICINOD - 1 |->
                         IF k < FormatNinode THEN NINODE - 1 - k ELSE 0]
      /\ sb = [s_nfree |-> sb.s_nfree, s_pfree |-> sb.s_pfree, s_free |-> sb.s_free,
               s_ninode |-> sb.s_ninode, s_pinode |-> sb.s_pinode,
               s_inode |-> sb.s_inode, s_rinode |-> sb.s_rinode]
  BY DEF Init, FormatSuperblock
<1>7. Section(0) = [n |-> NICFREE, ids |-> sb.s_free]
  <2>1. 0 * NICFREE = 0 /\ NICFREE \in Nat
    BY Sizes
  <2>2. ~(TotalFree - 0 < NICFREE) /\ TotalFree - 0 = TotalFree
    BY <1>2, <2>1
  <2>3. PICK n, f : /\ n = IF TotalFree - 0 < NICFREE THEN TotalFree - 0 ELSE NICFREE
                    /\ f = [i \in Entry |-> IF i < n THEN 3 + 0 + i ELSE 0]
    OBVIOUS
  <2>4. Section(0) = [n |-> n, ids |-> f]
    BY <2>1, <2>3 DEF Section, Entry
  <2>5. n = NICFREE
    BY <2>2, <2>3
  <2> QED
    BY <1>6, <2>4, <2>5
<1>8. sb \in Filsys
  <2>1. FormatNinode \in Nat /\ FormatNinode <= NICINOD /\ FormatNinode <= NINODE - 4
    BY SuperblockAssumption, SMTT(30) DEF FormatNinode, MaxWord
  <2>2. sb.s_inode \in [0 .. NICINOD - 1 -> Inode]
    <3>1. \A k \in 0 .. NICINOD - 1 :
            (IF k < FormatNinode THEN NINODE - 1 - k ELSE 0) \in Inode
      BY <2>1, SuperblockAssumption DEF Inode
    <3> QED
      BY <1>6, <3>1
  <2>3. sb.s_pinode \in 0 .. MaxWord
    <3>1. PICK x \in Int : x = FormatNinode - 1
      BY <2>1
    <3>2. Wrap16(x) \in 0 .. MaxWord
      BY WrapRange
    <3> QED
      BY <1>6, <3>1, <3>2
  <2>4. sb.s_rinode \in 0 .. NINODE
    BY <1>6, SuperblockAssumption
  <2>5. sb.s_nfree \in 0 .. NICFREE /\ sb.s_pfree \in 0 .. NICFREE
    BY <1>6, Sizes
  <2>6. sb.s_free \in [0 .. NICFREE - 1 -> Nat]
    <3>1. 0 \in Nat /\ 0 <= Sections
      BY <1>1, <1>2
    <3> QED
      BY <1>6, <3>1, SectionParts DEF Entry
  <2> QED
    BY <1>6, <2>1, <2>2, <2>3, <2>4, <2>5, <2>6 DEF Filsys
<1>9. PICK G : G = Chain(groups, sb)
  OBVIOUS
<1>10. /\ z + 1 \in Nat \ {0} /\ 1 \in 1 .. z + 1
       /\ \A g \in 1 .. z : g + 1 \in 1 .. z + 1 /\ g \in 1 .. z + 1
       /\ \A k \in Nat : k <= z => z + 1 - k \in 1 .. z + 1 /\ z + 1 - (z + 1 - k) = k
  BY <1>2
<1>11. \A g \in 1 .. z + 1 : G[g] = Section(z + 1 - g)
  <2>1. /\ G[z + 1] = [n |-> sb.s_nfree, ids |-> sb.s_free]
        /\ \A g \in 1 .. z + 1 - 1 : G[g] = groups[g]
    BY <1>5, <1>9, ChainParts
  <2>2. ASSUME NEW g \in 1 .. z + 1 PROVE G[g] = Section(z + 1 - g)
    <3>1. CASE g = z + 1
      <4>1. z + 1 - g = 0
        BY <1>2, <3>1
      <4> QED
        BY <1>6, <1>7, <2>1, <3>1, <4>1
    <3>2. CASE g # z + 1
      <4>1. g \in 1 .. z /\ g \in 1 .. z + 1 - 1
        BY <1>2, <3>2
      <4> QED
        BY <1>4, <2>1, <4>1
    <3> QED
      BY <3>1, <3>2
  <2> QED
    BY <2>2
<1>12. GroupsOK(z + 1, G)
  <2>1. \A x \in 1 .. NICFREE : x \in 0 .. NICFREE /\ x # 0
    BY Sizes
  <2> QED
    BY <1>3, <1>10, <1>11, <2>1 DEF GroupsOK
<1>13. \A g \in 1 .. z + 1, i \in Entry :
         /\ i < G[g].n <=> (z + 1 - g) * NICFREE + i < TotalFree
         /\ i < G[g].n => G[g].ids[i] = 3 + (z + 1 - g) * NICFREE + i
  BY <1>1, <1>3, <1>11, SectionParts
<1>14. /\ TotalFree = FILEBLK - 3 /\ FILEBLK \in Nat /\ held = 0 .. 2
       /\ Block = 0 .. FILEBLK - 1 /\ held \subseteq Block
  <2>1. NICFREE >= 1 /\ FILEBLK \in Nat /\ FILEBLK >= 4
    BY Sizes
  <2> QED
    BY <2>1 DEF TotalFree, Init, FormatBlocks, Block
<1>15. FreeOnce(z + 1, G, held)
  <2>1. ASSUME NEW g \in 1 .. z + 1, NEW i \in Entry, i < G[g].n
        PROVE  G[g].ids[i] \in Block \ held
    <3>1. PICK p : p = (z + 1 - g) * NICFREE
      OBVIOUS
    <3>2. p \in Nat /\ i \in Nat
      BY <1>2, <1>3, <3>1, Sizes
    <3>3. p + i < TotalFree /\ G[g].ids[i] = 3 + p + i
      BY <1>13, <2>1, <3>1
    <3> QED
      BY <1>14, <3>2, <3>3
  <2>2. ASSUME NEW g \in 1 .. z + 1, NEW k \in 1 .. z + 1, NEW i \in Entry, NEW j \in Entry,
               i < G[g].n, j < G[k].n, G[g].ids[i] = G[k].ids[j]
        PROVE  g = k /\ i = j
    <3>1. PICK p, q : p = (z + 1 - g) * NICFREE /\ q = (z + 1 - k) * NICFREE
      OBVIOUS
    <3>2. p \in Nat /\ q \in Nat /\ i \in Nat /\ j \in Nat
      BY <1>2, <1>3, <3>1, Sizes
    <3>3. 3 + p + i = 3 + q + j
      BY <1>13, <2>2, <3>1
    <3>4. p + i = q + j
      BY <3>2, <3>3
    <3>5. z + 1 - g \in Nat /\ z + 1 - k \in Nat
      BY <1>3
    <3>6. z + 1 - g = z + 1 - k /\ i = j
      BY <3>1, <3>4, <3>5, OnePlace
    <3> QED
      BY <1>2, <3>6
  <2>3. ASSUME NEW b \in Block \ held
        PROVE  \E g \in 1 .. z + 1, i \in Entry : i < G[g].n /\ G[g].ids[i] = b
    <3>1. PICK x \in Nat : b = x + 3 /\ x < TotalFree
      <4>1. b - 3 \in Nat /\ b = b - 3 + 3 /\ b - 3 < TotalFree
        BY <1>14
      <4> QED
        BY <4>1
    <3>2. PICK k \in Nat, i \in Entry : x = k * NICFREE + i
      BY Division
    <3>3. k <= z
      BY <1>2, <3>1, <3>2
    <3>4. PICK g \in 1 .. z + 1 : z + 1 - g = k
      BY <1>10, <3>3
    <3>5. i < G[g].n /\ G[g].ids[i] = 3 + k * NICFREE + i
      BY <1>13, <3>1, <3>2, <3>4
    <3>6. 3 + k * NICFREE + i = b
      BY <1>2, <3>1, <3>2, <3>3, Sizes
    <3> QED
      BY <3>5, <3>6
  <2> QED
    BY <2>1, <2>2, <2>3 DEF FreeOnce
<1>16. /\ blk \in [Block -> Words] /\ \A b \in Block : blk[b] = FormatWords(b)
  BY FormatParts DEF Init
<1>17. \A g \in 1 .. z + 1 : /\ G[g].ids[0] = 3 + (z + 1 - g) * NICFREE
                             /\ G[g].ids[0] \in Block
  <2>1. ASSUME NEW g \in 1 .. z + 1
        PROVE  /\ G[g].ids[0] = 3 + (z + 1 - g) * NICFREE
               /\ G[g].ids[0] \in Block
    <3>1. 0 \in Entry /\ 0 < G[g].n
      BY <1>3, <1>11, Sizes
    <3>2. G[g].ids[0] = 3 + (z + 1 - g) * NICFREE + 0
      BY <1>13, <3>1
    <3>3. (z + 1 - g) * NICFREE \in Nat
      BY <1>2, <1>3
    <3> QED
      BY <1>15, <3>1, <3>2, <3>3 DEF FreeOnce
  <2> QED
    BY <2>1
<1>18. Linked(z + 1, G, blk)
  <2>1. ASSUME NEW g \in 1 .. z PROVE blk[G[g + 1].ids[0]] = G[g]
    <3>1. PICK k \in Nat : /\ k = z + 1 - (g + 1) /\ k < z /\ k + 1 = z + 1 - g
      <4>1. z + 1 - (g + 1) \in Nat /\ z + 1 - (g + 1) < z /\ z + 1 - (g + 1) + 1 = z + 1 - g
        BY <1>2
      <4> QED
        BY <4>1
    <3>2. G[g + 1].ids[0] = 3 + k * NICFREE /\ G[g + 1].ids[0] \in Block
      BY <1>10, <1>17, <3>1
    <3>3. FormatWords(3 + k * NICFREE) = Section(k + 1)
      BY <1>1, <3>1, FormatParts
    <3> QED
      BY <1>10, <1>11, <1>16, <3>1, <3>2, <3>3
  <2>2. ~IsLink(blk[G[1].ids[0]])
    <3>1. z + 1 - 1 = z
      BY <1>2
    <3>2. G[1].ids[0] = 3 + z * NICFREE /\ G[1].ids[0] \in Block
      BY <1>10, <1>17, <3>1
    <3> QED
      BY <1>1, <1>16, <3>2, FormatParts
  <2>3. ASSUME NEW m, m = z + 1 PROVE Linked(m, G, blk)
    <3>1. \A g \in 1 .. m - 1 : g \in 1 .. z
      BY <1>2, <2>3
    <3>2. \A g \in 1 .. m - 1 : blk[G[g + 1].ids[0]] = G[g]
      BY <2>1, <3>1
    <3> QED
      BY <2>2, <3>2 DEF Linked
  <2> QED
    BY <2>3
<1>19. ChainOK(z + 1, G, blk, held)
  BY <1>12, <1>14, <1>15, <1>16, <1>18 DEF ChainOK
<1>20. got = DISKFULL
  BY DEF Init
<1> QED
  BY <1>5, <1>6, <1>8, <1>9, <1>19, <1>20 DEF IInv, ListOK

\* What a block reads as after a write is again the words of a block.
LEMMA StoredWords ==
  ASSUME NEW b \in Block, blk \in [Block -> Words], NEW w \in Stored(b)
  PROVE  w \in Words
<1>1. blk[b] \in Words /\ Payloads \subseteq Words
  BY BlockListAssumption
<1>2. CASE w \in Payloads
  BY <1>1, <1>2
<1>3. ASSUME NEW p \in Payloads, w = [blk[b] EXCEPT !.n = p.n] PROVE w \in Words
  <2>1. p.n \in Nat
    BY <1>1 DEF Words
  <2> QED
    BY <1>1, <1>3, <2>1 DEF Words
<1> QED
  BY <1>2, <1>3 DEF Stored

LEMMA Overwritten ==
  ASSUME NEW b \in Block, blk \in [Block -> Words], NEW w \in Stored(b),
         NEW b2, b2 = [blk EXCEPT ![b] = w]
  PROVE  OnlyAt(b, blk, b2)
BY StoredWords DEF OnlyAt

\* balloc() with its caller's write.
LEMMA BallocOK ==
  ASSUME IInv, Balloc
  PROVE  IInv' /\ got' \in Block \ held /\ held' = held \cup {got'}
<1>1. PICK t, g2 : t = BallocBlock(sb) /\ g2 = Rest(sb, groups)
  OBVIOUS
<1>2. /\ got' = t /\ sb' = BallocSb(sb, blk) /\ held' = held \cup {t}
      /\ groups' = g2 /\ sb.s_nfree # 0
  BY <1>1 DEF Balloc, GroupsLoaded, Rest
<1>3. PICK w \in Stored(t) : blk' = [blk EXCEPT ![t] = w]
  BY <1>2 DEF Balloc
<1>4. ListOK(sb, groups, blk, held) /\ blk \in [Block -> Words]
  BY DEF IInv, ListOK, ChainOK
<1>5. t \in Block \ held
  <2>1. OnlyAt(t, blk, blk)
    BY <1>4 DEF OnlyAt
  <2> QED
    BY <1>1, <1>2, <1>4, <2>1, PopOK
<1>6. PICK b2 : b2 = [blk EXCEPT ![t] = w] /\ blk' = b2
  BY <1>3
<1>7. OnlyAt(t, blk, b2)
  BY <1>3, <1>4, <1>5, <1>6, Overwritten
<1>8. ListOK(BallocSb(sb, blk), g2, b2, held \cup {t})
  BY <1>1, <1>2, <1>4, <1>7, PopOK
<1> QED
  BY <1>2, <1>5, <1>6, <1>8 DEF IInv

\* bfree() of a block in use, the list not being empty.
LEMMA BfreeOK ==
  ASSUME IInv, ~RefillsEmpty, NEW b \in held \ FormatBlocks, Bfree(b)
  PROVE  IInv'
<1>1. /\ sb.s_nfree # 0 /\ sb' = BfreeSb(sb, b) /\ blk' = BfreeBlk(sb, blk, b)
      /\ held' = held \ {b} /\ groups' = Grown(sb, groups) /\ got' = got
  BY DEF Bfree, GroupsSpilled, Grown
<1>2. ListOK(BfreeSb(sb, b), Grown(sb, groups), BfreeBlk(sb, blk, b), held \ {b})
  BY <1>1, PushOK DEF IInv
<1> QED
  BY <1>1, <1>2 DEF IInv

\* A write into a block in use.
LEMMA WriteOK ==
  ASSUME IInv, NEW b \in held \ FormatBlocks, Write(b)
  PROVE  IInv'
<1>0. PICK w \in Stored(b) : blk' = [blk EXCEPT ![b] = w]
  BY DEF Write
<1>1. PICK b2 : b2 = [blk EXCEPT ![b] = w] /\ blk' = b2
  BY <1>0
<1>2. /\ blk \in [Block -> Words] /\ b \in Block
      /\ ChainOK(Len(groups) + 1, Chain(groups, sb), blk, held)
  BY DEF IInv, ListOK, ChainOK
<1>3. OnlyAt(b, blk, b2)
  BY <1>1, <1>2, Overwritten
<1>4. ChainOK(Len(groups) + 1, Chain(groups, sb), b2, held)
  BY <1>2, <1>3, WriteHeld
<1>5. sb' = sb /\ held' = held /\ got' = got /\ groups' = groups
  BY DEF Write
<1> QED
  BY <1>1, <1>4, <1>5 DEF IInv, ListOK

LEMMA NextOK ==
  ASSUME ~RefillsEmpty
  PROVE  IInv /\ [Next]_vars => IInv'
<1> SUFFICES ASSUME IInv, [Next]_vars PROVE IInv'
  OBVIOUS
<1>1. CASE Balloc
  BY <1>1, BallocOK
<1>2. CASE BallocFull
  <2>1. got' = DISKFULL /\ UNCHANGED <<sb, blk, held, groups>>
    BY <1>2 DEF BallocFull, BallocBlock
  <2> QED
    BY <2>1 DEF IInv
<1>3. ASSUME NEW b \in held \ FormatBlocks, Bfree(b) PROVE IInv'
  BY <1>3, BfreeOK
<1>4. ASSUME NEW b \in held \ FormatBlocks, Write(b) PROVE IInv'
  BY <1>4, WriteOK
<1>5. CASE UNCHANGED vars
  BY <1>5 DEF vars, IInv
<1> QED
  BY <1>1, <1>2, <1>3, <1>4, <1>5 DEF Next

LEMMA InductiveInvariant ==
  ASSUME ~RefillsEmpty
  PROVE  Spec => []IInv
BY InitOK, NextOK, PTL DEF Spec

-----------------------------------------------------------------------------
(***************************************************************************)
(* What follows from it.                                                   *)
(***************************************************************************)

\* The places of the free list, as the properties name them.
LEMMA PlacesOfChain ==
  ASSUME IInv
  PROVE  /\ Level = 1 .. Len(groups) + 1
         /\ \A g \in Level : /\ Chain(groups, sb)[g] = Group(g)
                             /\ Group(g).n = 0 => Len(groups) = 0
         /\ \A p \in Places : /\ p[1] \in Level /\ p[2] \in Entry
                              /\ p = <<p[1], p[2]>> /\ p[2] < Group(p[1]).n
         /\ \A g \in Level, i \in Entry : i < Group(g).n => <<g, i>> \in Places
<1>1. Level = 1 .. Len(groups) + 1 /\ Len(groups) \in Nat
  BY LenProperties DEF Level, IInv, ListOK
<1>2. \A g \in Level : Chain(groups, sb)[g] = Group(g)
  BY <1>1 DEF Chain, Group
<1>3. \A g \in Level : Group(g).n = 0 => Len(groups) = 0
  BY <1>1, <1>2 DEF IInv, ListOK, ChainOK, GroupsOK
<1>4. \A p \in Places : /\ p[1] \in Level /\ p[2] \in Entry
                        /\ p = <<p[1], p[2]>> /\ p[2] < Group(p[1]).n
  BY DEF Places, Entry
<1>5. \A g \in Level, i \in Entry : i < Group(g).n => <<g, i>> \in Places
  BY DEF Places, Entry
<1> QED
  BY <1>1, <1>2, <1>3, <1>4, <1>5

\* Every field of the superblock keeps its range, whatever the files write into
\* the blocks from which balloc() fills it: s_pfree designates a word of s_free.
THEOREM TypeCorrect ==
  ASSUME ~RefillsEmpty
  PROVE  Spec => []TypeOK
<1>1. IInv => TypeOK
  BY DEF IInv, ListOK, ChainOK, TypeOK
<1> QED
  BY <1>1, InductiveInvariant, PTL

\* No block is twice in the free list, or there while a file owns it: balloc()
\* cannot give one block to two files.
THEOREM NeverTwice ==
  ASSUME ~RefillsEmpty
  PROVE  Spec => []NoBlockTwice
<1>1. ASSUME IInv PROVE NoBlockTwice
  <2>1. FreeOnce(Len(groups) + 1, Chain(groups, sb), held)
    BY <1>1 DEF IInv, ListOK, ChainOK
  <2>2. ASSUME NEW p \in Places, NEW q \in Places, BlockAt(p) = BlockAt(q)
        PROVE  p = q
    <3>1. p[1] = q[1] /\ p[2] = q[2]
      BY <1>1, <2>1, <2>2, PlacesOfChain DEF FreeOnce, BlockAt
    <3> QED
      BY <1>1, <3>1, PlacesOfChain
  <2>3. \A p \in Places : BlockAt(p) \notin held
    BY <1>1, <2>1, PlacesOfChain DEF FreeOnce, BlockAt
  <2> QED
    BY <2>2, <2>3 DEF NoBlockTwice
<1> QED
  BY <1>1, InductiveInvariant, PTL

\* No block leaks: one that no file owns is in s_free or in a group on the disk.
THEOREM NeverLost ==
  ASSUME ~RefillsEmpty
  PROVE  Spec => []NoBlockLost
<1>1. ASSUME IInv PROVE NoBlockLost
  <2>1. FreeOnce(Len(groups) + 1, Chain(groups, sb), held)
    BY <1>1 DEF IInv, ListOK, ChainOK
  <2>2. ASSUME NEW b \in Block \ held PROVE \E p \in Places : BlockAt(p) = b
    <3>1. PICK g \in Level, i \in Entry : i < Group(g).n /\ Group(g).ids[i] = b
      BY <1>1, <2>1, PlacesOfChain DEF FreeOnce
    <3>2. <<g, i>> \in Places /\ BlockAt(<<g, i>>) = b
      BY <1>1, <3>1, PlacesOfChain DEF BlockAt
    <3> QED
      BY <3>2
  <2> QED
    BY <2>2 DEF NoBlockLost
<1> QED
  BY <1>1, InductiveInvariant, PTL

\* The links on the disk outlive all the data written into the blocks: the bottom
\* block of each group holds the group below, that of the oldest holds none, and
\* s_pfree designates the top of s_free.
THEOREM ChainKept ==
  ASSUME ~RefillsEmpty
  PROVE  Spec => []ChainIntact
<1>1. ASSUME IInv PROVE ChainIntact
  <2>1. /\ Linked(Len(groups) + 1, Chain(groups, sb), blk)
        /\ sb.s_nfree # 0 => sb.s_pfree = sb.s_nfree - 1
        /\ Len(groups) \in Nat
    BY <1>1, LenProperties DEF IInv, ListOK, ChainOK
  <2>2. ASSUME NEW g \in Level \ {1} PROVE blk[Group(g).ids[0]] = groups[g - 1]
    <3>1. PICK k \in 1 .. Len(groups) + 1 - 1 : k = g - 1 /\ g = k + 1
      <4>1. g - 1 \in 1 .. Len(groups) + 1 - 1 /\ g = g - 1 + 1
        BY <1>1, <2>1, PlacesOfChain
      <4> QED
        BY <4>1
    <3>2. k \in Level /\ Group(k) = groups[k]
      BY <1>1, <2>1, <3>1, PlacesOfChain DEF Group
    <3>3. blk[Chain(groups, sb)[k + 1].ids[0]] = Chain(groups, sb)[k]
      BY <2>1, <3>1 DEF Linked
    <3> QED
      BY <1>1, <3>1, <3>2, <3>3, PlacesOfChain
  <2>3. ASSUME sb.s_nfree # 0 PROVE ~IsLink(blk[Group(1).ids[0]])
    <3>1. 1 \in Level /\ Group(1).n # 0
      <4>1. 1 \in Level
        BY <1>1, <2>1, PlacesOfChain
      <4>2. Len(groups) = 0 => Group(1).n = sb.s_nfree
        BY DEF Group
      <4> QED
        BY <1>1, <2>3, <4>1, <4>2, PlacesOfChain
    <3> QED
      BY <1>1, <2>1, <3>1, PlacesOfChain DEF Linked
  <2> QED
    BY <2>1, <2>2, <2>3 DEF ChainIntact
<1> QED
  BY <1>1, InductiveInvariant, PTL

\* balloc() returns free blocks only, which fails once blocks are freed while the
\* list is empty: that hypothesis is all that separates the two.
THEOREM ReturnsFree ==
  ASSUME ~RefillsEmpty
  PROVE  Spec => ReturnsFreeBlock
<1>1. ASSUME IInv, [Next]_vars PROVE [Balloc => got' \notin held]_vars
  BY <1>1, BallocOK
<1> QED
  BY <1>1, InductiveInvariant, PTL DEF Spec, ReturnsFreeBlock

\* The list of groups implements the abstract pool: a block handed out belonged to
\* nobody, and balloc() reports a full disk only when every block is owned.
THEOREM Implements ==
  ASSUME ~RefillsEmpty
  PROVE  Spec => ImplementsPool
<1>1. Init => Pool!Init
  BY DEF Init, Pool!Init
<1>2. ASSUME IInv, [Next]_vars PROVE [Pool!Next]_Pool!vars
  <2>1. CASE Balloc
    BY <1>2, <2>1, BallocOK DEF Pool!Next, Pool!Allocate
  <2>2. CASE BallocFull
    <3>1. sb.s_nfree = 0 /\ got' = DISKFULL /\ held' = held
      BY <2>2 DEF BallocFull, BallocBlock
    <3>2. PICK m, G : m = Len(groups) + 1 /\ G = Chain(groups, sb)
      OBVIOUS
    <3>3. groups \in Seq(Words) /\ ChainOK(m, G, blk, held)
      BY <1>2, <3>2 DEF IInv, ListOK
    <3>4. m \in 1 .. m /\ G[m].n = 0
      <4>1. m \in 1 .. m /\ G[m] = [n |-> sb.s_nfree, ids |-> sb.s_free]
        BY <3>2, <3>3, ChainParts
      <4> QED
        BY <3>1, <4>1
    <3>5. m = 1 /\ \A g \in 1 .. m : g = m
      BY <3>3, <3>4 DEF ChainOK, GroupsOK
    <3>6. \A g \in 1 .. m, i \in Entry : ~(i < G[g].n)
      BY <3>4, <3>5 DEF Entry
    <3>7. held = Block
      BY <3>3, <3>6 DEF ChainOK, FreeOnce
    <3> QED
      BY <3>1, <3>7 DEF Pool!Next, Pool!Refuse
  <2>3. ASSUME NEW b \in held \ FormatBlocks, Bfree(b) PROVE [Pool!Next]_Pool!vars
    BY <2>3 DEF Bfree, Pool!Next, Pool!Release
  <2>4. ASSUME NEW b \in held \ FormatBlocks, Write(b) PROVE [Pool!Next]_Pool!vars
    BY <2>4 DEF Write, Pool!vars
  <2>5. CASE UNCHANGED vars
    BY <2>5 DEF vars, Pool!vars
  <2> QED
    BY <1>2, <2>1, <2>2, <2>3, <2>4, <2>5 DEF Next
<1> QED
  BY <1>1, <1>2, InductiveInvariant, PTL DEF Spec, ImplementsPool, Pool!Spec
==============================================================================
