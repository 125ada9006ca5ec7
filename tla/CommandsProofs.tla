---------------------------- MODULE CommandsProofs ----------------------------
(***************************************************************************)
(* For every number of sessions, paths, files and table places: the map of *)
(* the shell from paths to descriptors agrees with the open files whenever *)
(* the shell is at its prompt, as long as a path and a file belong to each *)
(* other, the directory has room, and a login follows a logout.            *)
(***************************************************************************)
EXTENDS Commands, FilesProofs

-----------------------------------------------------------------------------
(***************************************************************************)
(* What the shell can tell of the files: the inode behind each descriptor, *)
(* and the inodes listed under each name.                                  *)
(***************************************************************************)

Reach ==
  [u \in Users |-> [fd \in Fd |->
     IF uofile[u][fd] = None THEN NoIno ELSE ofile[uofile[u][fd]].ino]]

Listing ==
  [n \in Names |-> {j \in AllInodes :
     j # NoIno /\ \E x \in 3 .. Len(dir) : dir[x].name = n /\ dir[x].ino = j}]

\* Descriptor fd of u comes to lead to j, or to NoIno when it is closed.
Led(u, fd, j, r, r2) ==
  \A v \in Users, g \in Fd : r2[v][g] = IF v = u /\ g = fd THEN j ELSE r[v][g]

\* Nothing listed under the names N is lost.
Grown(N, l, l2) == \A n \in N : l[n] \subseteq l2[n]

LEMMA ReachValue ==
  ASSUME IInv, NEW u \in Users, NEW fd \in Fd
  PROVE  /\ Reach[u][fd] = IF uofile[u][fd] = None THEN NoIno
                           ELSE ofile[uofile[u][fd]].ino
         /\ Reach[u][fd] = NoIno <=> uofile[u][fd] = None
<1>1. /\ NoIno \notin AllInodes
      /\ uofile[u][fd] \in Slot \cup {None}
      /\ Reach[u][fd] = IF uofile[u][fd] = None THEN NoIno ELSE ofile[uofile[u][fd]].ino
  BY FilesAssumption DEF Reach, AllInodes, IInv, TypeInv
<1>2. uofile[u][fd] # None => ofile[uofile[u][fd]].ino \in AllInodes
  BY <1>1 DEF IInv, TypeInv
<1> QED
  BY <1>1, <1>2

\* namei() finds what is listed, and nothing else.
LEMMA Looked ==
  ASSUME IInv, NEW n \in Names, NEW j
  PROVE  j \in Listing[n] <=> Exists(n) /\ dir[Namei(n)].ino = j
<1>1. ASSUME Exists(n), dir[Namei(n)].ino = j PROVE j \in Listing[n]
  <2>1. Namei(n) \in 3 .. Len(dir) /\ dir[Namei(n)].name = n /\ j \in Inodes
    BY <1>1, FoundEntry DEF IInv
  <2>2. j # NoIno /\ j \in AllInodes
    BY <2>1, FilesAssumption DEF AllInodes
  <2> QED
    BY <1>1, <2>1, <2>2 DEF Listing
<1>2. ASSUME j \in Listing[n] PROVE Exists(n) /\ dir[Namei(n)].ino = j
  <2>1. PICK x \in 3 .. Len(dir) : dir[x].name = n /\ dir[x].ino = j /\ j # NoIno
    BY <1>2 DEF Listing
  <2>2. x \in DOMAIN dir
    BY DirTyped DEF IInv
  <2>3. Exists(n)
    BY <2>1, <2>2 DEF Exists, Matches
  <2>4. PICK y \in 3 .. Len(dir) : y = Namei(n) /\ dir[y].name = n /\ dir[y].ino \in Inodes
    BY <2>3, FoundEntry DEF IInv
  <2>5. dir[y].ino # NoIno
    BY <2>4, FilesAssumption
  <2>6. x = y
    BY <2>1, <2>4, <2>5 DEF IInv, DirInv
  <2> QED
    BY <2>1, <2>3, <2>4, <2>6
<1> QED
  BY <1>1, <1>2

\* Offsets may change, but nothing is opened or closed.
LEMMA ReachKept ==
  ASSUME IInv, IInv', uofile' = uofile, \A s \in Slot : ofile'[s].ino = ofile[s].ino
  PROVE  Reach' = Reach
<1>1. \A u \in Users, fd \in Fd : Reach'[u][fd] = Reach[u][fd]
  <2>1. ASSUME NEW u \in Users, NEW fd \in Fd PROVE Reach'[u][fd] = Reach[u][fd]
    <3>1. uofile[u][fd] \in Slot \cup {None}
      BY DEF IInv, TypeInv
    <3> QED
      BY <3>1 DEF Reach
  <2> QED
    BY <2>1
<1> QED
  BY <1>1 DEF Reach
-----------------------------------------------------------------------------
(***************************************************************************)
(* The map f of the current session c, apart from the files: own are the   *)
(* descriptors that the command under way has opened for itself, r what    *)
(* the descriptors lead to, l what the names lead to.                      *)
(***************************************************************************)

\* The hypotheses of the theorem.
OnePath ==
  /\ \A p \in Typed : \A m, n \in Leads[p] : m = n
  /\ \A p, q \in Typed : p # q => Leads[p] \cap Leads[q] = {}
  /\ ~Relogin

\* A path that is bound has a descriptor of its own, on its file; whatever is open
\* is bound, unless the command under way will close it.
MapOK(c, f, own, r, l) ==
  /\ f \in [Typed -> Fd \cup {NoFd}]
  /\ c = Nobody \/ c \in Users
  /\ \A u \in Users, fd \in Fd : r[u][fd] # NoIno => u = c /\ c # Nobody
  /\ \A p \in Typed : f[p] # NoFd =>
       /\ c # Nobody /\ f[p] \notin own
       /\ r[c][f[p]] # NoIno /\ \E n \in Leads[p] : r[c][f[p]] \in l[n]
  /\ \A p, q \in Typed : f[p] = f[q] /\ f[p] # NoFd => p = q
  /\ c # Nobody => \A fd \in Fd : r[c][fd] # NoIno => fd \in own \/ \E p \in Typed : f[p] = fd

LEMMA PathsNamed ==
  /\ \A p \in Typed : Leads[p] \subseteq Names
  /\ NoFd \notin Fd
BY CommandsAssumption, FilesAssumption DEF Fd, NoFd

\* Names may come to lead to more files.
LEMMA MapGrown ==
  ASSUME NEW c, NEW f, NEW own, NEW r, NEW l, MapOK(c, f, own, r, l),
         NEW l2, Grown(Names, l, l2)
  PROVE  MapOK(c, f, own, r, l2)
BY PathsNamed DEF MapOK, Grown

\* The command under way opens a descriptor for itself.
LEMMA MapOpened ==
  ASSUME NEW c \in Users, NEW f, NEW own, NEW r, NEW l, MapOK(c, f, own, r, l), c # Nobody,
         NEW fd \in Fd, r[c][fd] = NoIno, NEW j, NEW r2, Led(c, fd, j, r, r2)
  PROVE  MapOK(c, f, own \cup {fd}, r2, l)
<1>1. \A p \in Typed : f[p] # NoFd => f[p] \in Fd /\ f[p] # fd
  BY DEF MapOK
<1> QED
  BY <1>1 DEF MapOK, Led

\* Such a descriptor is bound to a path that has none.
LEMMA MapBound ==
  ASSUME NEW c \in Users, NEW f, NEW own, NEW r, NEW l, NEW fd \in Fd, fd \notin own,
         MapOK(c, f, own \cup {fd}, r, l), c # Nobody,
         NEW p \in Typed, f[p] = NoFd, NEW n \in Leads[p], r[c][fd] # NoIno, r[c][fd] \in l[n]
  PROVE  MapOK(c, [f EXCEPT ![p] = fd], own, r, l)
<1>1. PICK g : g = [f EXCEPT ![p] = fd]
  OBVIOUS
<1>2. /\ g \in [Typed -> Fd \cup {NoFd}]
      /\ \A q \in Typed : g[q] = IF q = p THEN fd ELSE f[q]
  BY <1>1 DEF MapOK
<1>3. fd # NoFd /\ \A q \in Typed : f[q] # fd
  BY PathsNamed DEF MapOK
<1>4. \A q \in Typed : g[q] # NoFd =>
        g[q] \notin own /\ r[c][g[q]] # NoIno /\ \E m \in Leads[q] : r[c][g[q]] \in l[m]
  BY <1>2 DEF MapOK
<1>5. \A q, s \in Typed : g[q] = g[s] /\ g[q] # NoFd => q = s
  BY <1>2, <1>3 DEF MapOK
<1>6. \A h \in Fd : r[c][h] # NoIno => h \in own \/ \E q \in Typed : g[q] = h
  <2>1. ASSUME NEW h \in Fd, r[c][h] # NoIno, h \notin own, h # fd
        PROVE  \E q \in Typed : g[q] = h
    <3>1. PICK q \in Typed : f[q] = h
      BY <2>1 DEF MapOK
    <3>2. q # p
      BY <2>1, <3>1, PathsNamed
    <3> QED
      BY <1>2, <3>1, <3>2
  <2> QED
    BY <1>2, <2>1
<1> QED
  BY <1>1, <1>2, <1>4, <1>5, <1>6 DEF MapOK

\* The command under way closes a descriptor of its own.
LEMMA MapClosedOwn ==
  ASSUME NEW c \in Users, NEW f, NEW own, NEW r, NEW l, MapOK(c, f, own, r, l), c # Nobody,
         NEW fd \in own, NEW own2, own2 \subseteq own, own \subseteq own2 \cup {fd},
         NEW r2, Led(c, fd, NoIno, r, r2)
  PROVE  MapOK(c, f, own2, r2, l)
<1>1. \A p \in Typed : f[p] # NoFd => f[p] \in Fd /\ f[p] # fd /\ f[p] \notin own2
  BY DEF MapOK
<1> QED
  BY <1>1 DEF MapOK, Led

\* A descriptor is closed and its path forgets it.
LEMMA MapUnbound ==
  ASSUME NEW c \in Users, NEW f, NEW own, NEW r, NEW l, MapOK(c, f, own, r, l), c # Nobody,
         NEW p \in Typed, f[p] # NoFd, NEW r2, Led(c, f[p], NoIno, r, r2)
  PROVE  MapOK(c, [f EXCEPT ![p] = NoFd], own, r2, l)
<1>1. PICK g, fd : g = [f EXCEPT ![p] = NoFd] /\ fd = f[p]
  OBVIOUS
<1>2. /\ g \in [Typed -> Fd \cup {NoFd}] /\ fd \in Fd
      /\ \A q \in Typed : g[q] = IF q = p THEN NoFd ELSE f[q]
      /\ \A q \in Typed : g[q] # NoFd => f[q] = g[q] /\ q # p /\ g[q] # fd /\ g[q] \in Fd
  BY <1>1 DEF MapOK
<1>3. \A u \in Users, h \in Fd : r2[u][h] = IF u = c /\ h = fd THEN NoIno ELSE r[u][h]
  BY <1>1 DEF Led
<1>4. \A q \in Typed : g[q] # NoFd =>
        g[q] \notin own /\ r2[c][g[q]] # NoIno /\ \E m \in Leads[q] : r2[c][g[q]] \in l[m]
  BY <1>2, <1>3 DEF MapOK
<1>5. \A q, s \in Typed : g[q] = g[s] /\ g[q] # NoFd => q = s
  BY <1>2 DEF MapOK
<1>6. \A h \in Fd : r2[c][h] # NoIno => h \in own \/ \E q \in Typed : g[q] = h
  <2>1. ASSUME NEW h \in Fd, r2[c][h] # NoIno, h \notin own PROVE \E q \in Typed : g[q] = h
    <3>1. h # fd /\ r[c][h] # NoIno
      BY <1>3, <2>1
    <3>2. PICK q \in Typed : f[q] = h
      BY <2>1, <3>1 DEF MapOK
    <3> QED
      BY <1>1, <1>2, <3>1, <3>2
  <2> QED
    BY <2>1
<1>7. \A u \in Users, h \in Fd : r2[u][h] # NoIno => u = c
  BY <1>3 DEF MapOK
<1> QED
  BY <1>1, <1>2, <1>4, <1>5, <1>6, <1>7 DEF MapOK

\* A name that no bound path leads to is lost.
LEMMA MapDeleted ==
  ASSUME OnePath, NEW c, NEW f, NEW own, NEW r, NEW l, MapOK(c, f, own, r, l),
         NEW p \in Typed, f[p] = NoFd, NEW n \in Leads[p], NEW l2, Grown(Names \ {n}, l, l2)
  PROVE  MapOK(c, f, own, r, l2)
<1>1. ASSUME NEW q \in Typed, f[q] # NoFd
      PROVE  \E m \in Leads[q] : r[c][f[q]] \in l2[m]
  <2>1. PICK m \in Leads[q] : r[c][f[q]] \in l[m]
    BY <1>1 DEF MapOK
  <2>2. m # n /\ m \in Names
    BY <1>1, PathsNamed DEF OnePath
  <2> QED
    BY <2>1, <2>2 DEF Grown
<1> QED
  BY <1>1 DEF MapOK
-----------------------------------------------------------------------------
(***************************************************************************)
(* The operations of the files, as the shell can tell.                     *)
(***************************************************************************)

\* The first free slot and the first free descriptor are linked to inode i.
LEMMA LinkLed ==
  ASSUME IInv, NEW u \in Users, CanOpen(u), NEW i \in AllInodes, NEW flag, NEW off,
         NEW table, SameSlots(table), Link(u, i, flag, off, table),
         NEW fd, fd = First(FreeFds(u))
  PROVE  /\ fd \in Fd /\ Reach[u][fd] = NoIno /\ uofile' # uofile
         /\ i # NoIno /\ Led(u, fd, i, Reach, Reach')
<1>1. PICK s : s = First(FreeSlots)
  OBVIOUS
<1>2. s \in Slot /\ ofile[s].count = 0
  <2>1. FreeSlots \in SUBSET Nat /\ FreeSlots # {}
    BY Constants DEF FreeSlots, CanOpen
  <2> QED
    BY <1>1, <2>1, FirstIsLeast DEF FreeSlots
<1>3. fd \in Fd /\ uofile[u][fd] = None
  <2>1. FreeFds(u) \in SUBSET Nat /\ FreeFds(u) # {}
    BY Constants DEF FreeFds, CanOpen
  <2> QED
    BY <2>1, FirstIsLeast DEF FreeFds
<1>4. PICK e : e = [count |-> 1, ino |-> i, flag |-> flag, off |-> off]
  OBVIOUS
<1>5. ofile' = [table EXCEPT ![s] = e] /\ uofile' = [uofile EXCEPT ![u][fd] = s]
  BY <1>1, <1>4 DEF Link
<1>6. /\ \A t \in Slot : ofile'[t].ino = IF t = s THEN i ELSE ofile[t].ino
      /\ s # None
  BY <1>2, <1>4, <1>5, Constants DEF SameSlots
<1>7. \A v \in Users, g \in Fd :
        uofile'[v][g] = IF v = u /\ g = fd THEN s ELSE uofile[v][g]
  BY <1>3, <1>5 DEF IInv, TypeInv
<1>8. \A v \in Users, g \in Fd : uofile[v][g] \in Slot \cup {None} /\ uofile[v][g] # s
  <2>1. \A v \in Users, g \in Fd : uofile[v][g] \in Slot \cup {None}
    BY DEF IInv, TypeInv
  <2>2. \A v \in Users, g \in Fd : uofile[v][g] # s
    BY <1>2 DEF IInv, TableInv, SlotsOwned
  <2> QED
    BY <2>1, <2>2
<1>9. ASSUME NEW v \in Users, NEW g \in Fd
      PROVE  Reach'[v][g] = IF v = u /\ g = fd THEN i ELSE Reach[v][g]
  <2>1. Reach'[v][g] = IF uofile'[v][g] = None THEN NoIno ELSE ofile'[uofile'[v][g]].ino
    BY DEF Reach
  <2>2. Reach[v][g] = IF uofile[v][g] = None THEN NoIno ELSE ofile[uofile[v][g]].ino
    BY DEF Reach
  <2>3. CASE v = u /\ g = fd
    BY <1>2, <1>6, <1>7, <2>1, <2>3
  <2>4. CASE ~(v = u /\ g = fd)
    BY <1>6, <1>7, <1>8, <2>1, <2>2, <2>4
  <2> QED
    BY <2>3, <2>4
<1>10. Led(u, fd, i, Reach, Reach')
  BY <1>9 DEF Led
<1>11. i # NoIno
  BY FilesAssumption DEF AllInodes
<1> QED
  BY <1>3, <1>6, <1>7, <1>10, <1>11, ReachValue

LEMMA OpenView ==
  ASSUME IInv, NEW u \in Users, NEW n \in Names, NEW flag \in OpenModes, Open(u, n, flag),
         NEW fd, fd = First(FreeFds(u))
  PROVE  /\ IInv' /\ Listing' = Listing
         /\ fd \in Fd /\ Reach[u][fd] = NoIno
         /\ \E j \in Listing[n] : j # NoIno /\ Led(u, fd, j, Reach, Reach')
<1>1. IInv'
  BY OpenInv
<1>2. PICK j : j = dir[Namei(n)].ino
  OBVIOUS
<1>3. /\ Exists(n) /\ CanOpen(u) /\ dir' = dir
      /\ Link(u, j, flag, IF "A" \in flag THEN Current(j).size ELSE 0, ofile)
  BY <1>2 DEF Open
<1>4. j \in Listing[n] /\ j \in AllInodes
  BY <1>2, <1>3, Looked, FoundEntry DEF AllInodes, IInv
<1>5. SameSlots(ofile)
  BY RewoundSame DEF IInv
<1>6. fd \in Fd /\ Reach[u][fd] = NoIno /\ j # NoIno /\ Led(u, fd, j, Reach, Reach')
  BY <1>3, <1>4, <1>5, LinkLed
<1>7. Listing' = Listing
  BY <1>3 DEF Listing
<1> QED
  BY <1>1, <1>4, <1>6, <1>7

LEMMA CloseView ==
  ASSUME IInv, NEW u \in Users, NEW fd \in Fd, Close(u, fd)
  PROVE  IInv' /\ Listing' = Listing /\ Led(u, fd, NoIno, Reach, Reach')
<1>1. IInv'
  BY CloseInv
<1>2. PICK s : s = uofile[u][fd]
  OBVIOUS
<1>3. /\ s < SYSOPENFILE /\ dir' = dir
      /\ ofile' = [ofile EXCEPT ![s] = Closed]
      /\ uofile' = [uofile EXCEPT ![u][fd] = None]
  BY <1>2 DEF Close
<1>4. s \in Slot /\ s # None
  BY <1>2, <1>3, Constants DEF IInv, TypeInv
<1>5. \A t \in Slot : t # s => ofile'[t] = ofile[t]
  BY <1>3, <1>4 DEF IInv, TypeInv
<1>6. \A v \in Users, g \in Fd :
        uofile'[v][g] = IF v = u /\ g = fd THEN None ELSE uofile[v][g]
  BY <1>3 DEF IInv, TypeInv
<1>7. ASSUME NEW v \in Users, NEW g \in Fd
      PROVE  Reach'[v][g] = IF v = u /\ g = fd THEN NoIno ELSE Reach[v][g]
  <2>1. Reach'[v][g] = IF uofile'[v][g] = None THEN NoIno ELSE ofile'[uofile'[v][g]].ino
    BY DEF Reach
  <2>2. Reach[v][g] = IF uofile[v][g] = None THEN NoIno ELSE ofile[uofile[v][g]].ino
    BY DEF Reach
  <2>3. CASE v = u /\ g = fd
    BY <1>6, <2>1, <2>3
  <2>4. CASE ~(v = u /\ g = fd)
    <3>1. uofile[v][g] \in Slot \cup {None} /\ uofile[v][g] # s
      BY <1>2, <1>4, <2>4 DEF IInv, TypeInv, TableInv, SlotsOwned
    <3> QED
      BY <1>5, <1>6, <2>1, <2>2, <2>4, <3>1
  <2> QED
    BY <2>3, <2>4
<1>8. Led(u, fd, NoIno, Reach, Reach')
  BY <1>7 DEF Led
<1>9. Listing' = Listing
  BY <1>3 DEF Listing
<1> QED
  BY <1>1, <1>8, <1>9

\* read() and write() leave all that as it is.
LEMMA TransferView ==
  ASSUME IInv, NEW u \in Users, NEW fd \in Fd,
         \/ \E n \in Nat \ {0} : Read(u, fd, n)
         \/ \E n \in Sizes : Write(u, fd, n)
  PROVE  IInv' /\ Listing' = Listing /\ Reach' = Reach
<1>1. IInv'
  BY ReadInv, WriteInv
<1>2. uofile' = uofile /\ dir' = dir
  BY DEF Read, Write
<1>3. uofile[u][fd] \in Slot
  <2>1. uofile[u][fd] < SYSOPENFILE
    BY DEF Read, Write
  <2> QED
    BY <2>1, Constants DEF IInv, TypeInv
<1>4. \E off : ofile' = [ofile EXCEPT ![uofile[u][fd]].off = off]
  BY DEF Read, Write
<1>5. \A s \in Slot : ofile'[s].ino = ofile[s].ino
  BY <1>3, <1>4 DEF IInv, TypeInv
<1>6. Reach' = Reach
  BY <1>1, <1>2, <1>5, ReachKept
<1> QED
  BY <1>1, <1>2, <1>6 DEF Listing

\* delete_file() loses what its name leads to, and nothing else.
LEMMA DeleteView ==
  ASSUME IInv, NEW n \in Names, Delete(n)
  PROVE  IInv' /\ Reach' = Reach /\ Grown(Names \ {n}, Listing, Listing')
<1>1. IInv'
  BY DeleteInv
<1>2. uofile' = uofile /\ ofile' = ofile
  BY DEF Delete
<1>3. PICK x : x = Namei(n)
  OBVIOUS
<1>4. x \in 3 .. Len(dir) /\ dir[x].name = n
  BY <1>3, FoundEntry DEF IInv, Delete
<1>5. dir' = Without(x) \/ dir' = dir
  BY <1>3 DEF Delete
<1>6. Reach' = Reach
  BY <1>1, <1>2, ReachKept
<1>7. ASSUME NEW m \in Names \ {n}, NEW j \in Listing[m] PROVE j \in Listing'[m]
  <2>1. PICK y \in 3 .. Len(dir) : dir[y].name = m /\ dir[y].ino = j
    BY <1>7 DEF Listing
  <2>2. j \in AllInodes /\ j # NoIno
    BY <1>7 DEF Listing
  <2>3. \E z \in 3 .. Len(dir') : dir'[z].name = m /\ dir'[z].ino = j
    <3>1. CASE dir' = Without(x)
      <4>1. /\ Len(dir) \in Nat /\ Len(dir') = Len(dir) - 1
            /\ \A z \in 1 .. Len(dir) - 1 :
                 dir'[z] = IF z < x THEN dir[z] ELSE dir[z + 1]
        BY <1>4, <3>1, WithoutEffect, DirTyped DEF IInv
      <4>2. y # x
        BY <1>4, <2>1
      <4>3. PICK z \in 3 .. Len(dir) - 1 : y = IF z < x THEN z ELSE z + 1
        <5>1. CASE y < x
          BY <1>4, <4>1, <5>1
        <5>2. CASE y > x
          <6>1. y - 1 \in 3 .. Len(dir) - 1 /\ ~(y - 1 < x) /\ y = (y - 1) + 1
            BY <1>4, <4>1, <5>2
          <6> QED
            BY <6>1
        <5> QED
          BY <1>4, <4>1, <4>2, <5>1, <5>2
      <4>4. dir'[z] = dir[y] /\ z \in 3 .. Len(dir')
        BY <4>1, <4>3
      <4> QED
        BY <2>1, <4>4
    <3>2. CASE dir' = dir
      BY <2>1, <3>2
    <3> QED
      BY <1>5, <3>1, <3>2
  <2> QED
    BY <2>2, <2>3 DEF Listing
<1>8. Grown(Names \ {n}, Listing, Listing')
  BY <1>7 DEF Grown
<1> QED
  BY <1>1, <1>6, <1>8
\* creat() of a new name in its place loses nothing.
LEMMA NamedGrown ==
  ASSUME IInv, NEW n \in Names, NEW p, p = Iname + 1, Iname # 0,
         NEW v \in AllInodes \cup {NoIno},
         dir' = [Named(n) EXCEPT ![p].ino = v] \/ (v = NoIno /\ dir' = Named(n))
  PROVE  Grown(Names, Listing, Listing') /\ (v # NoIno => v \in Listing'[n])
<1>1. /\ p \in 3 .. Len(dir') /\ dir'[p].name = n /\ dir'[p].ino = v
      /\ Len(dir) <= Len(dir') /\ Len(dir') \in 2 .. DIRNUM
      /\ p <= Len(dir) => dir[p].ino = NoIno
      /\ \A x \in 1 .. Len(dir') : x # p => x \in 1 .. Len(dir) /\ dir'[x] = dir[x]
  BY EntryWritten DEF IInv
<1>2. Len(dir) \in Nat /\ Len(dir') \in Nat
  BY <1>1, DirTyped, Constants DEF IInv
<1>3. ASSUME NEW m \in Names, NEW j \in Listing[m] PROVE j \in Listing'[m]
  <2>1. /\ j \in AllInodes /\ j # NoIno
        /\ \E x \in 3 .. Len(dir) : dir[x].name = m /\ dir[x].ino = j
    BY <1>3 DEF Listing
  <2>2. PICK x \in 3 .. Len(dir) : dir[x].name = m /\ dir[x].ino = j
    BY <2>1
  <2>3. x # p /\ x \in 3 .. Len(dir') /\ x \in 1 .. Len(dir')
    BY <1>1, <1>2, <2>1, <2>2
  <2>4. dir'[x].name = m /\ dir'[x].ino = j
    BY <1>1, <2>2, <2>3
  <2> QED
    BY <2>1, <2>3, <2>4 DEF Listing
<1>4. v # NoIno => v \in Listing'[n]
  BY <1>1 DEF Listing
<1> QED
  BY <1>3, <1>4 DEF Grown

\* creat() loses nothing, and may open a descriptor on what its name leads to.
LEMMA CreatView ==
  ASSUME IInv, Room, cur \in Users, NEW n \in Names, NEW m \in Modes, Creat(n, m),
         NEW fd, fd = NextFd
  PROVE  /\ IInv' /\ Grown(Names, Listing, Listing')
         /\ Created => /\ fd \in Fd /\ Reach[cur][fd] = NoIno
                       /\ \E j \in Listing'[n] : j # NoIno /\ Led(cur, fd, j, Reach, Reach')
         /\ ~Created => Reach' = Reach
<1>1. fd = First(FreeFds(cur))
  BY DEF NextFd
<1>2. CASE Denied(cur, n, "W")
  <2>1. IInv'
    BY <1>2, DeniedInv DEF Kinds
  <2>2. dir' = dir /\ ofile' = ofile /\ uofile' = uofile
    BY <1>2 DEF Denied
  <2>3. Reach' = Reach /\ Listing' = Listing /\ ~Created
    BY <2>2 DEF Reach, Listing, Created
  <2> QED
    BY <2>1, <2>3 DEF Grown
<1>3. CASE CreatTruncate(cur, n)
  <2>1. IInv'
    BY <1>3, CreatTruncateInv
  <2>2. PICK i : i = dir[Namei(n)].ino
    OBVIOUS
  <2>3. /\ Exists(n) /\ dir' = dir
        /\ \/ CanOpen(cur) /\ Link(cur, i, {"W"}, 0, Rewound(i))
           \/ ofile' = Rewound(i) /\ uofile' = uofile
    BY <1>3, <2>2 DEF CreatTruncate
  <2>4. i \in Listing[n] /\ i \in AllInodes
    BY <2>2, <2>3, Looked, FoundEntry DEF AllInodes, IInv
  <2>5. SameSlots(Rewound(i))
    BY RewoundSame DEF IInv
  <2>6. Listing' = Listing
    BY <2>3 DEF Listing
  <2>7. CASE CanOpen(cur) /\ Link(cur, i, {"W"}, 0, Rewound(i))
    <3>1. /\ fd \in Fd /\ Reach[cur][fd] = NoIno /\ uofile' # uofile
          /\ i # NoIno /\ Led(cur, fd, i, Reach, Reach')
      BY <1>1, <2>4, <2>5, <2>7, LinkLed
    <3> QED
      BY <2>1, <2>4, <2>6, <3>1 DEF Grown, Created
  <2>8. CASE ofile' = Rewound(i) /\ uofile' = uofile
    <3>1. Reach' = Reach
      BY <2>1, <2>5, <2>8, ReachKept DEF SameSlots
    <3> QED
      BY <2>1, <2>6, <2>8, <3>1 DEF Grown, Created
  <2> QED
    BY <2>3, <2>7, <2>8
<1>4. CASE CreatNew(cur, n, m)
  <2>1. IInv'
    BY <1>4, CreatNewInv
  <2>2. PICK p : p = Iname + 1
    OBVIOUS
  <2>3. PICK i \in Inodes \ inodes :
          /\ dir' = [Named(n) EXCEPT ![p].ino = i]
          /\ \/ CanOpen(cur) /\ Link(cur, i, {"W"}, 0, ofile)
             \/ ofile' = ofile /\ uofile' = uofile
    BY <1>4, <2>2 DEF CreatNew
  <2>4. ~Exists(n) /\ i \in AllInodes /\ i # NoIno
    BY <1>4, FilesAssumption DEF CreatNew, AllInodes
  <2>5. Iname # 0
    BY <2>4, PlaceForNew DEF IInv
  <2>6. Grown(Names, Listing, Listing') /\ i \in Listing'[n]
    BY <2>2, <2>3, <2>4, <2>5, NamedGrown
  <2>7. CASE CanOpen(cur) /\ Link(cur, i, {"W"}, 0, ofile)
    <3>1. SameSlots(ofile)
      BY RewoundSame DEF IInv
    <3>2. /\ fd \in Fd /\ Reach[cur][fd] = NoIno /\ uofile' # uofile
          /\ Led(cur, fd, i, Reach, Reach')
      BY <1>1, <2>4, <2>7, <3>1, LinkLed
    <3> QED
      BY <2>1, <2>4, <2>6, <3>2 DEF Created
  <2>8. CASE ofile' = ofile /\ uofile' = uofile
    BY <2>1, <2>6, <2>8 DEF Reach, Created
  <2> QED
    BY <2>3, <2>7, <2>8
<1>5. CASE CreatNoInode(n)
  <2>1. IInv'
    BY <1>5, CreatNoInodeInv
  <2>2. ~Exists(n) /\ dir' = Named(n) /\ ofile' = ofile /\ uofile' = uofile
    BY <1>5 DEF CreatNoInode
  <2>3. Iname # 0
    BY <2>2, PlaceForNew DEF IInv
  <2>4. PICK p : p = Iname + 1
    OBVIOUS
  <2>5. Grown(Names, Listing, Listing')
    BY <2>2, <2>3, <2>4, NamedGrown
  <2> QED
    BY <2>1, <2>2, <2>5 DEF Reach, Created
<1> QED
  BY <1>2, <1>3, <1>4, <1>5 DEF Creat
-----------------------------------------------------------------------------
(***************************************************************************)
(* The inductive invariant.                                                *)
(***************************************************************************)

JobRecord ==
  [cmd : {"rm", "read", "write", "edit"}, path : Typed, name : Names,
   fd : Fd \cup {NoFd}, aux : Fd \cup {NoFd}, left : Int, whole : BOOLEAN]

\* The local variables of the command under way, at each of its calls.
JobInv ==
  /\ pc \in {"prompt", "rm", "read", "shown", "open", "load", "loaded", "save",
             "text", "written", "logout"}
  /\ pc # "prompt" => cur # Nobody
  /\ pc \notin {"prompt", "logout"} => job \in JobRecord /\ job.name \in Leads[job.path]
  /\ pc = "rm" => fdOf[job.path] = NoFd
  /\ pc \in {"read", "shown"} => job.fd # NoFd /\ fdOf[job.path] = job.fd
  /\ pc = "open" => job.cmd = "write"
  /\ pc \in {"load", "loaded"} => (job.cmd = "edit" <=> job.fd = NoFd)
  /\ pc = "loaded" => job.aux # NoFd
  /\ pc \in {"text", "written"} => job.fd # NoFd

\* The descriptors that the command under way has opened and will close.
Own ==
  ((IF pc \in {"load", "loaded", "text", "written"} THEN {job.fd} ELSE {})
   \cup (IF pc = "loaded" THEN {job.aux} ELSE {})) \ {NoFd}

\* A logout leaves the map alone until everything is closed.
LogoutOK == cur \in Users /\ \A u \in Users, fd \in Fd : Reach[u][fd] # NoIno => u = cur

MapInv ==
  /\ IInv /\ JobInv
  /\ IF pc = "logout" THEN LogoutOK ELSE MapOK(cur, fdOf, Own, Reach, Listing)

LEMMA MapStep ==
  ASSUME IInv', JobInv', pc' # "logout", NEW c, c = cur', NEW f, f = fdOf',
         NEW own, own = Own', NEW r, r = Reach', NEW l, l = Listing', MapOK(c, f, own, r, l)
  PROVE  MapInv'
<1>1. MapOK(cur, fdOf, Own, Reach, Listing)'
  BY DEF MapOK
<1> QED
  BY <1>1 DEF MapInv

LEMMA StillView ==
  ASSUME IInv, UNCHANGED files
  PROVE  IInv' /\ Reach' = Reach /\ Listing' = Listing
<1>1. UNCHANGED vars
  BY DEF files, vars
<1>2. IInv'
  BY <1>1, NextInv
<1> QED
  BY <1>1, <1>2 DEF vars, Reach, Listing

\* At the prompt, with somebody logged in.
LEMMA Prompted ==
  ASSUME MapInv, NEW p \in Typed, NEW n, AtPrompt(p, n)
  PROVE  /\ IInv /\ pc = "prompt" /\ cur \in Users /\ cur # Nobody
         /\ n \in Leads[p] /\ n \in Names
         /\ MapOK(cur, fdOf, {}, Reach, Listing)
         /\ fdOf \in [Typed -> Fd \cup {NoFd}]
<1>1. pc = "prompt" /\ cur # Nobody /\ n \in Leads[p] /\ Own = {}
  BY DEF AtPrompt, Own
<1>2. MapOK(cur, fdOf, {}, Reach, Listing) /\ IInv
  BY <1>1 DEF MapInv
<1> QED
  BY <1>1, <1>2, PathsNamed DEF MapOK

\* A command under way other than a logout.
LEMMA UnderWay ==
  ASSUME MapInv, pc # "prompt", pc # "logout"
  PROVE  /\ IInv /\ JobInv /\ cur \in Users /\ cur # Nobody
         /\ MapOK(cur, fdOf, Own, Reach, Listing)
         /\ job \in JobRecord /\ job.path \in Typed /\ job.name \in Names
         /\ job.name \in Leads[job.path]
         /\ fdOf \in [Typed -> Fd \cup {NoFd}]
<1>1. IInv /\ JobInv /\ MapOK(cur, fdOf, Own, Reach, Listing)
  BY DEF MapInv
<1>2. cur # Nobody /\ job \in JobRecord /\ job.name \in Leads[job.path]
  BY <1>1 DEF JobInv
<1>3. job.path \in Typed /\ job.name \in Names
  BY <1>2 DEF JobRecord
<1> QED
  BY <1>1, <1>2, <1>3 DEF MapOK

LEMMA NewJob ==
  ASSUME NEW c \in {"rm", "read", "write", "edit"}, NEW p \in Typed, NEW n \in Names,
         NEW j, j = Job(c, p, n)
  PROVE  j \in JobRecord /\ j.cmd = c /\ j.path = p /\ j.name = n /\ j.fd = NoFd
BY DEF Job, JobRecord

LEMMA JobHolds ==
  ASSUME NEW j \in JobRecord, NEW fd \in Fd
  PROVE  /\ [j EXCEPT !.fd = fd] \in JobRecord
         /\ [j EXCEPT !.aux = fd] \in JobRecord
BY DEF JobRecord

LEMMA JobChanged ==
  ASSUME NEW j \in JobRecord, NEW fd \in Fd, NEW k \in Int
  PROVE  /\ [j EXCEPT !.left = k] \in JobRecord
         /\ [j EXCEPT !.fd = fd, !.left = k] \in JobRecord
         /\ [j EXCEPT !.fd = fd, !.whole = TRUE, !.left = k] \in JobRecord
BY DEF JobRecord

\* Only a file that exists is bound.
LEMMA BoundExists ==
  ASSUME OnePath, MapInv, NEW p \in Typed, NEW n, AtPrompt(p, n), fdOf[p] # NoFd
  PROVE  Exists(n) /\ Reach[cur][fdOf[p]] # NoIno /\ fdOf[p] \in Fd
<1>1. /\ IInv /\ n \in Names /\ n \in Leads[p]
      /\ MapOK(cur, fdOf, {}, Reach, Listing)
  BY Prompted
<1>2. PICK m \in Leads[p] : Reach[cur][fdOf[p]] \in Listing[m]
  BY <1>1 DEF MapOK
<1>3. m = n
  BY <1>1 DEF OnePath
<1> QED
  BY <1>1, <1>2, <1>3, Looked DEF MapOK
-----------------------------------------------------------------------------
(***************************************************************************)
(* creat and rm.                                                           *)
(***************************************************************************)

LEMMA CreatCommandMap ==
  ASSUME OnePath, Room, MapInv, NEW p \in Typed, NEW n \in Names, NEW m \in Modes,
         CreatCommand(p, n, m)
  PROVE  MapInv'
<1>1. AtPrompt(p, n) /\ ~Exists(n) /\ Creat(n, m) /\ cur' = cur /\ pc' = pc
  BY DEF CreatCommand
<1>2. /\ IInv /\ pc = "prompt" /\ cur \in Users /\ cur # Nobody /\ n \in Leads[p]
      /\ MapOK(cur, fdOf, {}, Reach, Listing)
      /\ fdOf \in [Typed -> Fd \cup {NoFd}] /\ fdOf[p] = NoFd
  BY <1>1, Prompted, BoundExists
<1>3. PICK fd, f : /\ fd = NextFd /\ f = fdOf'
                   /\ f = IF Created THEN [fdOf EXCEPT ![p] = fd] ELSE fdOf
  BY DEF CreatCommand
<1>4. /\ IInv' /\ Grown(Names, Listing, Listing')
      /\ Created => /\ fd \in Fd /\ Reach[cur][fd] = NoIno
                    /\ \E j \in Listing'[n] : j # NoIno /\ Led(cur, fd, j, Reach, Reach')
      /\ ~Created => Reach' = Reach
  BY <1>1, <1>2, <1>3, CreatView
<1>5. MapOK(cur, f, {}, Reach', Listing')
  <2>1. CASE Created
    <3>1. PICK j \in Listing'[n] : j # NoIno /\ Led(cur, fd, j, Reach, Reach')
      BY <1>4, <2>1
    <3>2. PICK r2, l2 : r2 = Reach' /\ l2 = Listing'
      OBVIOUS
    <3>3. MapOK(cur, fdOf, {} \cup {fd}, r2, Listing)
      BY <1>2, <1>4, <2>1, <3>1, <3>2, MapOpened
    <3>4. MapOK(cur, fdOf, {} \cup {fd}, r2, l2)
      BY <1>4, <3>2, <3>3, MapGrown
    <3>5. r2[cur][fd] = j
      BY <1>2, <1>4, <2>1, <3>1, <3>2 DEF Led
    <3>6. MapOK(cur, [fdOf EXCEPT ![p] = fd], {}, r2, l2)
      BY <1>2, <1>4, <2>1, <3>1, <3>2, <3>4, <3>5, MapBound
    <3> QED
      BY <1>3, <2>1, <3>2, <3>6
  <2>2. CASE ~Created
    BY <1>2, <1>3, <1>4, <2>2, MapGrown
  <2> QED
    BY <2>1, <2>2
<1>6. JobInv' /\ Own' = {} /\ pc' # "logout"
  BY <1>1, <1>2 DEF JobInv, Own
<1> QED
  BY <1>1, <1>3, <1>4, <1>5, <1>6, MapStep

LEMMA RmCloseMap ==
  ASSUME OnePath, MapInv, NEW p \in Typed, NEW n \in Names, RmClose(p, n)
  PROVE  MapInv'
<1>1. /\ AtPrompt(p, n) /\ fdOf[p] # NoFd /\ cur' = cur
      /\ pc' = "rm" /\ job' = Job("rm", p, n)
      /\ Close(cur, fdOf[p]) \/ uofile[cur][fdOf[p]] = None
  BY DEF RmClose, Begin
<1>2. /\ IInv /\ pc = "prompt" /\ cur \in Users /\ cur # Nobody /\ n \in Leads[p]
      /\ MapOK(cur, fdOf, {}, Reach, Listing)
      /\ fdOf \in [Typed -> Fd \cup {NoFd}]
      /\ fdOf[p] \in Fd /\ Reach[cur][fdOf[p]] # NoIno
  BY <1>1, Prompted, BoundExists
<1>3. Close(cur, fdOf[p])
  BY <1>1, <1>2, ReachValue
<1>4. IInv' /\ Listing' = Listing /\ Led(cur, fdOf[p], NoIno, Reach, Reach')
  BY <1>2, <1>3, CloseView
<1>5. PICK f, r2 : f = fdOf' /\ f = [fdOf EXCEPT ![p] = NoFd] /\ r2 = Reach'
  BY DEF RmClose
<1>6. MapOK(cur, f, {}, r2, Listing)
  <2>1. Led(cur, fdOf[p], NoIno, Reach, r2)
    BY <1>4, <1>5
  <2>2. MapOK(cur, [fdOf EXCEPT ![p] = NoFd], {}, r2, Listing)
    BY <1>1, <1>2, <2>1, MapUnbound
  <2> QED
    BY <1>5, <2>2
<1>7. f[p] = NoFd
  BY <1>2, <1>5
<1>8. PICK j : j = job' /\ j = Job("rm", p, n)
  BY <1>1
<1>9. j \in JobRecord /\ j.path = p /\ j.name = n
  BY <1>8, NewJob
<1>10. JobInv' /\ Own' = {}
  BY <1>1, <1>2, <1>5, <1>7, <1>8, <1>9 DEF JobInv, Own, JobRecord
<1> QED
  BY <1>1, <1>4, <1>5, <1>6, <1>10, MapStep

LEMMA RmUnboundMap ==
  ASSUME MapInv, NEW p \in Typed, NEW n \in Names, RmUnbound(p, n)
  PROVE  MapInv'
<1>1. /\ AtPrompt(p, n) /\ fdOf[p] = NoFd /\ cur' = cur /\ fdOf' = fdOf
      /\ pc' = "rm" /\ job' = Job("rm", p, n) /\ UNCHANGED files
  BY DEF RmUnbound, Begin
<1>2. /\ IInv /\ pc = "prompt" /\ cur # Nobody /\ n \in Leads[p]
      /\ MapOK(cur, fdOf, {}, Reach, Listing)
  BY <1>1, Prompted
<1>3. IInv' /\ Reach' = Reach /\ Listing' = Listing
  BY <1>1, <1>2, StillView
<1>4. PICK j : j = job' /\ j = Job("rm", p, n)
  BY <1>1
<1>5. j \in JobRecord /\ j.path = p /\ j.name = n
  BY <1>4, NewJob
<1>6. JobInv' /\ Own' = {}
  BY <1>1, <1>2, <1>4, <1>5 DEF JobInv, Own, JobRecord
<1> QED
  BY <1>1, <1>2, <1>3, <1>6, MapStep

\* Back at the prompt.
LEMMA ResumeJob ==
  ASSUME Resume
  PROVE  JobInv' /\ Own' = {} /\ pc' = "prompt"
BY DEF Resume, JobInv, Own

LEMMA RmDeleteMap ==
  ASSUME OnePath, MapInv, RmDelete
  PROVE  MapInv'
<1>1. /\ pc = "rm" /\ Resume /\ cur' = cur /\ fdOf' = fdOf
      /\ Delete(job.name) \/ UNCHANGED files
  BY DEF RmDelete
<1>2. PICK p, n : p = job.path /\ n = job.name
  OBVIOUS
<1>3. /\ IInv /\ JobInv /\ Own = {} /\ MapOK(cur, fdOf, {}, Reach, Listing)
      /\ p \in Typed /\ n \in Names /\ n \in Leads[p] /\ fdOf[p] = NoFd
  BY <1>1, <1>2, UnderWay DEF JobInv, Own
<1>4. JobInv' /\ Own' = {} /\ pc' = "prompt"
  BY <1>1, ResumeJob
<1>5. CASE Delete(n)
  <2>1. IInv' /\ Reach' = Reach /\ Grown(Names \ {n}, Listing, Listing')
    BY <1>3, <1>5, DeleteView
  <2>2. PICK l2 : l2 = Listing'
    OBVIOUS
  <2>3. MapOK(cur, fdOf, {}, Reach, l2)
    BY <1>3, <2>1, <2>2, MapDeleted
  <2> QED
    BY <1>1, <1>4, <2>1, <2>2, <2>3, MapStep
<1>6. CASE UNCHANGED files
  <2>1. IInv' /\ Reach' = Reach /\ Listing' = Listing
    BY <1>3, <1>6, StillView
  <2> QED
    BY <1>1, <1>3, <1>4, <2>1, MapStep
<1> QED
  BY <1>1, <1>2, <1>5, <1>6
-----------------------------------------------------------------------------
(***************************************************************************)
(* read.                                                                   *)
(***************************************************************************)

LEMMA ReadBegun ==
  ASSUME IInv, NEW p \in Typed, NEW n \in Names, NEW fd \in Fd, NEW i \in AllInodes,
         ReadBegin(p, n, fd, i)
  PROVE  /\ pc' = "read" /\ job' \in JobRecord
         /\ job'.path = p /\ job'.name = n /\ job'.fd = fd
<1>1. Current(i).size \in Int /\ Sizes \subseteq Int
  <2>1. Current(i) \in DinodeRecord
    BY CurrentTyped DEF IInv
  <2>2. NADDR * BLOCKSIZ \in Nat
    BY Constants
  <2> QED
    BY <2>1, <2>2, Constants DEF DinodeRecord
<1>2. PICK j : j = Job("read", p, n)
  OBVIOUS
<1>3. j \in JobRecord /\ j.path = p /\ j.name = n
  BY <1>2, NewJob
<1>4. PICK k \in Int : \/ job' = [j EXCEPT !.fd = fd, !.whole = TRUE, !.left = k]
                       \/ job' = [j EXCEPT !.fd = fd, !.left = k]
  BY <1>1, <1>2 DEF ReadBegin
<1>5. job' \in JobRecord
  <2>1. /\ [j EXCEPT !.fd = fd, !.left = k] \in JobRecord
        /\ [j EXCEPT !.fd = fd, !.whole = TRUE, !.left = k] \in JobRecord
    BY <1>3, JobChanged
  <2> QED
    BY <1>4, <2>1
<1>6. job'.path = p /\ job'.name = n /\ job'.fd = fd
  BY <1>3, <1>4 DEF JobRecord
<1> QED
  BY <1>5, <1>6 DEF ReadBegin

\* The loop of read, with its path bound to the descriptor it reads from.
LEMMA ReadJob ==
  ASSUME pc' \in {"read", "shown"}, cur' # Nobody, NEW j \in JobRecord, j = job',
         j.name \in Leads[j.path], j.fd \in Fd, NEW f, f = fdOf', f[j.path] = j.fd
  PROVE  JobInv' /\ Own' = {} /\ pc' # "logout"
<1>1. NoFd \notin Fd
  BY PathsNamed
<1> QED
  BY <1>1 DEF JobInv, Own

LEMMA ReadBoundMap ==
  ASSUME OnePath, MapInv, NEW p \in Typed, NEW n \in Names, ReadBound(p, n)
  PROVE  MapInv'
<1>1. PICK fd : fd = fdOf[p]
  OBVIOUS
<1>2. /\ AtPrompt(p, n) /\ fd # NoFd /\ uofile[cur][fd] # None
      /\ ReadBegin(p, n, fd, ofile[uofile[cur][fd]].ino)
      /\ UNCHANGED files /\ cur' = cur /\ fdOf' = fdOf
  BY <1>1 DEF ReadBound
<1>3. /\ IInv /\ cur \in Users /\ cur # Nobody /\ n \in Leads[p] /\ fd \in Fd
      /\ MapOK(cur, fdOf, {}, Reach, Listing)
  BY <1>1, <1>2, Prompted, BoundExists
<1>4. ofile[uofile[cur][fd]].ino \in AllInodes
  BY <1>2, <1>3 DEF IInv, TypeInv
<1>5. /\ pc' = "read" /\ job' \in JobRecord
      /\ job'.path = p /\ job'.name = n /\ job'.fd = fd
  BY <1>2, <1>3, <1>4, ReadBegun
<1>6. IInv' /\ Reach' = Reach /\ Listing' = Listing
  BY <1>2, <1>3, StillView
<1>7. PICK j \in JobRecord : j = job'
  BY <1>5
<1>8. JobInv' /\ Own' = {} /\ pc' # "logout"
  BY <1>1, <1>2, <1>3, <1>5, <1>7, ReadJob
<1> QED
  BY <1>2, <1>3, <1>6, <1>8, MapStep

LEMMA ReadOpenMap ==
  ASSUME MapInv, NEW p \in Typed, NEW n \in Names, ReadOpen(p, n)
  PROVE  MapInv'
<1>1. PICK fd : fd = NextFd /\ fd = First(FreeFds(cur))
  BY DEF NextFd
<1>2. PICK f, r2 : f = fdOf' /\ f = [fdOf EXCEPT ![p] = fd] /\ r2 = Reach'
  BY <1>1 DEF ReadOpen
<1>3. /\ AtPrompt(p, n) /\ fdOf[p] = NoFd /\ Open(cur, n, {"R"}) /\ cur' = cur
      /\ ReadBegin(p, n, fd, dir[Namei(n)].ino)
  BY <1>1 DEF ReadOpen
<1>4. /\ IInv /\ cur \in Users /\ cur # Nobody /\ n \in Leads[p]
      /\ MapOK(cur, fdOf, {}, Reach, Listing)
      /\ fdOf \in [Typed -> Fd \cup {NoFd}]
  BY <1>3, Prompted
<1>5. {"R"} \in OpenModes
  BY DEF OpenModes
<1>6. IInv' /\ Listing' = Listing /\ fd \in Fd /\ Reach[cur][fd] = NoIno
  BY <1>1, <1>3, <1>4, <1>5, OpenView
<1>7. PICK i \in Listing[n] : i # NoIno /\ Led(cur, fd, i, Reach, Reach')
  BY <1>1, <1>3, <1>4, <1>5, OpenView
<1>8. MapOK(cur, fdOf, {} \cup {fd}, r2, Listing)
  BY <1>2, <1>4, <1>6, <1>7, MapOpened
<1>9. r2[cur][fd] = i
  BY <1>2, <1>4, <1>6, <1>7 DEF Led
<1>10. MapOK(cur, [fdOf EXCEPT ![p] = fd], {}, r2, Listing)
  BY <1>3, <1>4, <1>6, <1>7, <1>8, <1>9, MapBound
<1>11. dir[Namei(n)].ino \in AllInodes
  BY <1>3, <1>4, FoundEntry DEF Open, IInv, AllInodes
<1>12. /\ pc' = "read" /\ job' \in JobRecord
       /\ job'.path = p /\ job'.name = n /\ job'.fd = fd
  BY <1>3, <1>4, <1>6, <1>11, ReadBegun
<1>13. PICK j \in JobRecord : j = job'
  BY <1>12
<1>14. f[p] = fd
  BY <1>2, <1>4
<1>15. JobInv' /\ Own' = {} /\ pc' # "logout"
  BY <1>2, <1>3, <1>4, <1>6, <1>12, <1>13, <1>14, ReadJob
<1> QED
  BY <1>2, <1>3, <1>6, <1>10, <1>15, MapStep

\* The local variables of read, wherever its loop stands.
LEMMA Reading ==
  ASSUME MapInv, pc \in {"read", "shown"}
  PROVE  /\ IInv /\ cur \in Users /\ cur # Nobody /\ Own = {}
         /\ MapOK(cur, fdOf, {}, Reach, Listing)
         /\ fdOf \in [Typed -> Fd \cup {NoFd}]
         /\ job \in JobRecord /\ job.path \in Typed /\ job.name \in Leads[job.path]
         /\ job.fd \in Fd /\ job.fd # NoFd /\ fdOf[job.path] = job.fd
<1>1. pc # "prompt" /\ pc # "logout" /\ Own = {}
  BY DEF Own
<1>2. /\ IInv /\ JobInv /\ cur \in Users /\ cur # Nobody
      /\ MapOK(cur, fdOf, {}, Reach, Listing)
      /\ job \in JobRecord /\ job.path \in Typed /\ job.name \in Leads[job.path]
      /\ fdOf \in [Typed -> Fd \cup {NoFd}]
  BY <1>1, UnderWay
<1>3. job.fd # NoFd /\ fdOf[job.path] = job.fd
  BY <1>2 DEF JobInv
<1> QED
  BY <1>1, <1>2, <1>3

\* A chunk is a number of bytes.
LEMMA ReturnedInt ==
  ASSUME IInv, cur \in Users, NEW fd \in Fd, uofile[cur][fd] < SYSOPENFILE, NEW n \in Nat
  PROVE  Returned(fd, n) \in Int
<1>1. PICK s, i : s = uofile[cur][fd] /\ i = ofile[s].ino
  OBVIOUS
<1>2. PICK di, off : di = core[i].di /\ off = ofile[s].off
  OBVIOUS
<1>3. di \in DinodeRecord /\ s \in Slot
  BY <1>1, <1>2, OpenDescriptor
<1>4. off \in Nat /\ di.size \in Nat
  BY <1>2, <1>3, Constants, SMTT(30) DEF DinodeRecord, IInv, TypeInv
<1>5. CASE off >= di.size \/ "R" \notin ofile[s].flag
  <2>1. Returned(fd, n) = 0
    BY <1>1, <1>2, <1>5 DEF Returned
  <2> QED
    BY <2>1
<1>6. CASE ~(off >= di.size) /\ "R" \in ofile[s].flag
  <2>1. PICK k \in Nat : k = Least(n, di.size - off)
    BY <1>4, <1>6 DEF Least
  <2>2. Extent(di.addr, off, k) \in Nat
    BY <1>4, ExtentEffect
  <2>3. Returned(fd, n) = Extent(di.addr, off, k) - off
    BY <1>1, <1>2, <1>6, <2>1 DEF Returned
  <2> QED
    BY <1>4, <2>2, <2>3
<1> QED
  BY <1>5, <1>6

LEMMA ReadChunkMap ==
  ASSUME MapInv, ReadChunk
  PROVE  MapInv'
<1>1. PICK n, k : n = Least(job.left, BLOCKSIZ) /\ k = job.left - Chunk
  OBVIOUS
<1>2. /\ pc = "read" /\ job.left > 0 /\ Read(cur, job.fd, n)
      /\ job' = [job EXCEPT !.left = k]
      /\ cur' = cur /\ fdOf' = fdOf /\ pc' = pc
  BY <1>1 DEF ReadChunk
<1>3. /\ IInv /\ cur \in Users /\ cur # Nobody /\ MapOK(cur, fdOf, {}, Reach, Listing)
      /\ job \in JobRecord /\ job.name \in Leads[job.path]
      /\ job.fd \in Fd /\ fdOf[job.path] = job.fd
  BY <1>2, Reading
<1>4. job.left \in Int
  BY <1>3 DEF JobRecord
<1>5. n \in Nat \ {0}
  BY <1>1, <1>2, <1>4, Constants DEF Least
<1>6. uofile[cur][job.fd] < SYSOPENFILE
  BY <1>2 DEF Read
<1>7. k \in Int
  <2>1. Returned(job.fd, n) \in Int
    BY <1>3, <1>5, <1>6, ReturnedInt
  <2> QED
    BY <1>1, <1>4, <2>1 DEF Chunk
<1>8. IInv' /\ Listing' = Listing /\ Reach' = Reach
  BY <1>2, <1>3, <1>5, TransferView
<1>9. PICK j : j = job' /\ j = [job EXCEPT !.left = k]
  BY <1>2
<1>10. j \in JobRecord
  BY <1>3, <1>7, <1>9, JobChanged
<1>11. j.path = job.path /\ j.name = job.name /\ j.fd = job.fd
  BY <1>3, <1>9 DEF JobRecord
<1>12. JobInv' /\ Own' = {} /\ pc' # "logout"
  BY <1>2, <1>3, <1>9, <1>10, <1>11, ReadJob
<1> QED
  BY <1>2, <1>3, <1>8, <1>12, MapStep

LEMMA ReadEndMap ==
  ASSUME MapInv, ReadEnd
  PROVE  MapInv'
<1>1. /\ pc = "read" /\ pc' = "shown" /\ UNCHANGED files
      /\ cur' = cur /\ fdOf' = fdOf /\ job' = job
  BY DEF ReadEnd, Goto
<1>2. /\ IInv /\ cur \in Users /\ cur # Nobody /\ MapOK(cur, fdOf, {}, Reach, Listing)
      /\ job \in JobRecord /\ job.name \in Leads[job.path]
      /\ job.fd \in Fd /\ fdOf[job.path] = job.fd
  BY <1>1, Reading
<1>3. IInv' /\ Reach' = Reach /\ Listing' = Listing
  BY <1>1, <1>2, StillView
<1>4. JobInv' /\ Own' = {} /\ pc' # "logout"
  BY <1>1, <1>2, ReadJob
<1> QED
  BY <1>1, <1>2, <1>3, <1>4, MapStep

LEMMA ReadCloseMap ==
  ASSUME MapInv, ReadClose
  PROVE  MapInv'
<1>1. PICK p, fd : p = job.path /\ fd = job.fd
  OBVIOUS
<1>2. PICK f, r2 : f = fdOf' /\ f = [fdOf EXCEPT ![p] = NoFd] /\ r2 = Reach'
  BY <1>1 DEF ReadClose
<1>3. pc = "shown" /\ Close(cur, fd) /\ Resume /\ cur' = cur
  BY <1>1 DEF ReadClose
<1>4. /\ IInv /\ cur \in Users /\ cur # Nobody /\ MapOK(cur, fdOf, {}, Reach, Listing)
      /\ p \in Typed /\ fd \in Fd /\ fdOf[p] = fd /\ fd # NoFd
  BY <1>1, <1>3, Reading
<1>5. IInv' /\ Listing' = Listing /\ Led(cur, fd, NoIno, Reach, Reach')
  BY <1>3, <1>4, CloseView
<1>6. MapOK(cur, f, {}, r2, Listing)
  <2>1. Led(cur, fdOf[p], NoIno, Reach, r2)
    BY <1>2, <1>4, <1>5
  <2>2. MapOK(cur, [fdOf EXCEPT ![p] = NoFd], {}, r2, Listing)
    BY <1>4, <2>1, MapUnbound
  <2> QED
    BY <1>2, <2>2
<1>7. JobInv' /\ Own' = {} /\ pc' = "prompt"
  BY <1>3, ResumeJob
<1> QED
  BY <1>2, <1>3, <1>5, <1>6, <1>7, MapStep
-----------------------------------------------------------------------------
(***************************************************************************)
(* write and edit.                                                         *)
(***************************************************************************)

\* What write and edit have opened, when they are at place at and their local
\* variables are j.
Opened(at, j) ==
  ((IF at \in {"load", "loaded", "text", "written"} THEN {j.fd} ELSE {})
   \cup (IF at = "loaded" THEN {j.aux} ELSE {})) \ {NoFd}

WriteOK(at, j) ==
  /\ at \in {"open", "load", "loaded", "save", "text", "written"}
  /\ j \in JobRecord /\ j.name \in Leads[j.path]
  /\ at = "open" => j.cmd = "write"
  /\ at \in {"load", "loaded"} => (j.cmd = "edit" <=> j.fd = NoFd)
  /\ at = "loaded" => j.aux # NoFd
  /\ at \in {"text", "written"} => j.fd # NoFd

LEMMA WriteJob ==
  ASSUME cur' # Nobody, NEW at, at = pc', NEW j, j = job', WriteOK(at, j)
  PROVE  JobInv' /\ Own' = Opened(at, j) /\ pc' # "logout"
<1>1. pc' \in {"open", "load", "loaded", "save", "text", "written"}
  BY DEF WriteOK
<1>2. JobInv'
  BY <1>1 DEF JobInv, WriteOK
<1> QED
  BY <1>1, <1>2 DEF Own, Opened

\* Where write and edit stand, with what they have opened.
LEMMA Writing ==
  ASSUME MapInv, pc \in {"open", "load", "loaded", "save", "text", "written"}
  PROVE  /\ IInv /\ cur \in Users /\ cur # Nobody /\ WriteOK(pc, job)
         /\ MapOK(cur, fdOf, Opened(pc, job), Reach, Listing)
         /\ job \in JobRecord /\ job.name \in Names /\ job.path \in Typed
<1>1. pc # "prompt" /\ pc # "logout" /\ Own = Opened(pc, job)
  BY DEF Own, Opened
<1>2. /\ IInv /\ JobInv /\ cur \in Users /\ cur # Nobody
      /\ MapOK(cur, fdOf, Own, Reach, Listing)
      /\ job \in JobRecord /\ job.path \in Typed /\ job.name \in Names
      /\ job.name \in Leads[job.path]
  BY <1>1, UnderWay
<1>3. WriteOK(pc, job)
  BY <1>1, <1>2 DEF JobInv, WriteOK
<1> QED
  BY <1>1, <1>2, <1>3

LEMMA WriteBeginMap ==
  ASSUME MapInv, NEW p \in Typed, NEW n \in Names, WriteBegin(p, n)
  PROVE  MapInv'
<1>1. /\ AtPrompt(p, n) /\ UNCHANGED files /\ cur' = cur /\ fdOf' = fdOf
      /\ \/ pc' = "open" /\ job' = Job("write", p, n)
         \/ pc' = "load" /\ job' = Job("edit", p, n)
  BY DEF WriteBegin, Begin
<1>2. /\ IInv /\ cur # Nobody /\ n \in Leads[p]
      /\ MapOK(cur, fdOf, {}, Reach, Listing)
  BY <1>1, Prompted
<1>3. IInv' /\ Reach' = Reach /\ Listing' = Listing
  BY <1>1, <1>2, StillView
<1>4. PICK at, j : at = pc' /\ j = job'
  OBVIOUS
<1>5. /\ j \in JobRecord /\ j.path = p /\ j.name = n /\ j.fd = NoFd
      /\ \/ at = "open" /\ j.cmd = "write"
         \/ at = "load" /\ j.cmd = "edit"
  BY <1>1, <1>4, NewJob
<1>6. WriteOK(at, j)
  BY <1>2, <1>5 DEF WriteOK
<1>7. Opened(at, j) = {}
  BY <1>5 DEF Opened
<1>8. JobInv' /\ Own' = {} /\ pc' # "logout"
  BY <1>1, <1>2, <1>4, <1>6, <1>7, WriteJob
<1> QED
  BY <1>1, <1>2, <1>3, <1>8, MapStep

LEMMA WriteOpenMap ==
  ASSUME MapInv, WriteOpen
  PROVE  MapInv'
<1>1. PICK fd : fd = NextFd /\ fd = First(FreeFds(cur))
  BY DEF NextFd
<1>2. PICK n, flag : n = job.name /\ flag = {"W", "A"} /\ flag \in OpenModes
  BY DEF OpenModes
<1>3. PICK j : j = job' /\ j = [job EXCEPT !.fd = fd]
  BY <1>1 DEF WriteOpen
<1>4. /\ pc = "open" /\ pc' = "load" /\ Open(cur, n, flag)
      /\ cur' = cur /\ fdOf' = fdOf
  BY <1>2 DEF WriteOpen, Goto
<1>5. /\ IInv /\ cur \in Users /\ cur # Nobody /\ WriteOK(pc, job)
      /\ MapOK(cur, fdOf, Opened(pc, job), Reach, Listing)
      /\ job \in JobRecord /\ n \in Names
  BY <1>2, <1>4, Writing
<1>6. IInv' /\ Listing' = Listing /\ fd \in Fd /\ Reach[cur][fd] = NoIno
  BY <1>1, <1>2, <1>4, <1>5, OpenView
<1>7. PICK i : Led(cur, fd, i, Reach, Reach')
  BY <1>1, <1>2, <1>4, <1>5, OpenView
<1>8. Opened(pc, job) = {}
  BY <1>4 DEF Opened
<1>9. PICK r2 : r2 = Reach'
  OBVIOUS
<1>10. MapOK(cur, fdOf, {} \cup {fd}, r2, Listing)
  BY <1>5, <1>6, <1>7, <1>8, <1>9, MapOpened
<1>11. /\ j \in JobRecord /\ j.fd = fd /\ j.name = job.name /\ j.path = job.path
       /\ j.cmd = "write"
  <2>1. j \in JobRecord
    BY <1>3, <1>5, <1>6, JobHolds
  <2>2. job.cmd = "write"
    BY <1>4, <1>5 DEF WriteOK
  <2> QED
    BY <1>3, <1>5, <2>1, <2>2 DEF JobRecord
<1>12. fd # NoFd
  BY <1>6, PathsNamed
<1>13. WriteOK("load", j) /\ Opened("load", j) = {fd}
  BY <1>5, <1>11, <1>12 DEF WriteOK, Opened
<1>14. JobInv' /\ Own' = {fd} /\ pc' # "logout"
  BY <1>3, <1>4, <1>5, <1>13, WriteJob
<1> QED
  BY <1>4, <1>5, <1>6, <1>9, <1>10, <1>14, MapStep

\* creat(), tried with nothing of its own open: what it opens is written to.
LEMMA CreatOrMap ==
  ASSUME Room, MapInv, pc \in {"open", "save"}, NEW next, next \in {"load", "text"},
         next = "load" => job.cmd = "write", CreatOr(next)
  PROVE  MapInv'
<1>1. PICK fd, n : fd = NextFd /\ n = job.name
  OBVIOUS
<1>2. /\ Creat(n, DefaultMode) /\ cur' = cur /\ fdOf' = fdOf
      /\ IF Created THEN pc' = next /\ job' = [job EXCEPT !.fd = fd] ELSE Resume
  BY <1>1 DEF CreatOr
<1>3. /\ IInv /\ cur \in Users /\ cur # Nobody /\ WriteOK(pc, job)
      /\ MapOK(cur, fdOf, {}, Reach, Listing) /\ job \in JobRecord /\ n \in Names
  <2>1. Opened(pc, job) = {}
    BY DEF Opened
  <2> QED
    BY <1>1, <2>1, Writing
<1>4. DefaultMode \in Modes
  BY CommandsAssumption
<1>5. /\ IInv' /\ Grown(Names, Listing, Listing')
      /\ Created => /\ fd \in Fd /\ Reach[cur][fd] = NoIno
                    /\ \E j \in Listing'[n] : j # NoIno /\ Led(cur, fd, j, Reach, Reach')
      /\ ~Created => Reach' = Reach
  BY <1>1, <1>2, <1>3, <1>4, CreatView
<1>6. PICK r2, l2 : r2 = Reach' /\ l2 = Listing'
  OBVIOUS
<1>7. CASE Created
  <2>1. PICK i : Led(cur, fd, i, Reach, Reach')
    BY <1>5, <1>7
  <2>2. MapOK(cur, fdOf, {} \cup {fd}, r2, Listing)
    BY <1>3, <1>5, <1>6, <1>7, <2>1, MapOpened
  <2>3. MapOK(cur, fdOf, {} \cup {fd}, r2, l2)
    BY <1>5, <1>6, <2>2, MapGrown
  <2>4. PICK j : j = job' /\ j = [job EXCEPT !.fd = fd]
    BY <1>2, <1>7
  <2>5. j \in JobRecord
    BY <1>3, <1>5, <1>7, <2>4, JobHolds
  <2>6. j.fd = fd /\ j.name = job.name /\ j.path = job.path /\ j.cmd = job.cmd
    BY <1>3, <2>4 DEF JobRecord
  <2>7. fd # NoFd
    BY <1>5, <1>7, PathsNamed
  <2>8. WriteOK(next, j) /\ Opened(next, j) = {fd}
    BY <1>3, <2>5, <2>6, <2>7 DEF WriteOK, Opened
  <2>9. JobInv' /\ Own' = {fd} /\ pc' # "logout"
    BY <1>2, <1>3, <1>7, <2>4, <2>8, WriteJob
  <2> QED
    BY <1>2, <1>5, <1>6, <2>3, <2>9, MapStep
<1>8. CASE ~Created
  <2>1. MapOK(cur, fdOf, {}, Reach, l2)
    BY <1>3, <1>5, <1>6, MapGrown
  <2>2. JobInv' /\ Own' = {} /\ pc' = "prompt"
    BY <1>2, <1>8, ResumeJob
  <2> QED
    BY <1>2, <1>5, <1>6, <1>8, <2>1, <2>2, MapStep
<1> QED
  BY <1>7, <1>8

LEMMA WriteCreatMap ==
  ASSUME Room, MapInv, WriteCreat
  PROVE  MapInv'
<1>1. pc = "open" /\ CreatOr("load")
  BY DEF WriteCreat
<1>2. job.cmd = "write"
  BY <1>1, Writing DEF WriteOK
<1> QED
  BY <1>1, <1>2, CreatOrMap

LEMMA EditSaveMap ==
  ASSUME Room, MapInv, EditSave
  PROVE  MapInv'
<1>1. pc = "save" /\ CreatOr("text")
  BY DEF EditSave
<1> QED
  BY <1>1, CreatOrMap

LEMMA LoadOpenMap ==
  ASSUME MapInv, LoadOpen
  PROVE  MapInv'
<1>1. PICK fd : fd = NextFd /\ fd = First(FreeFds(cur))
  BY DEF NextFd
<1>2. PICK n, flag : n = job.name /\ flag = {"R"} /\ flag \in OpenModes
  BY DEF OpenModes
<1>3. PICK j : j = job' /\ j = [job EXCEPT !.aux = fd]
  BY <1>1 DEF LoadOpen
<1>4. /\ pc = "load" /\ pc' = "loaded" /\ Open(cur, n, flag)
      /\ cur' = cur /\ fdOf' = fdOf
  BY <1>2 DEF LoadOpen, Goto
<1>5. /\ IInv /\ cur \in Users /\ cur # Nobody /\ WriteOK(pc, job)
      /\ MapOK(cur, fdOf, Opened(pc, job), Reach, Listing)
      /\ job \in JobRecord /\ n \in Names
  BY <1>2, <1>4, Writing
<1>6. IInv' /\ Listing' = Listing /\ fd \in Fd /\ Reach[cur][fd] = NoIno
  BY <1>1, <1>2, <1>4, <1>5, OpenView
<1>7. PICK i : Led(cur, fd, i, Reach, Reach')
  BY <1>1, <1>2, <1>4, <1>5, OpenView
<1>8. PICK own, r2 : own = Opened(pc, job) \cup {fd} /\ r2 = Reach'
  OBVIOUS
<1>9. MapOK(cur, fdOf, own, r2, Listing)
  BY <1>5, <1>6, <1>7, <1>8, MapOpened
<1>10. /\ j \in JobRecord /\ j.aux = fd /\ j.fd = job.fd
       /\ j.name = job.name /\ j.path = job.path /\ j.cmd = job.cmd
  <2>1. j \in JobRecord
    BY <1>3, <1>5, <1>6, JobHolds
  <2> QED
    BY <1>3, <1>5, <2>1 DEF JobRecord
<1>11. fd # NoFd
  BY <1>6, PathsNamed
<1>12. WriteOK("loaded", j)
  BY <1>4, <1>5, <1>10, <1>11 DEF WriteOK
<1>13. Opened("loaded", j) = own
  BY <1>4, <1>8, <1>10, <1>11 DEF Opened
<1>14. JobInv' /\ Own' = own /\ pc' # "logout"
  BY <1>3, <1>4, <1>5, <1>12, <1>13, WriteJob
<1> QED
  BY <1>4, <1>5, <1>6, <1>8, <1>9, <1>14, MapStep

\* After the text was shown: edit goes on without a descriptor, write with its own.
LEMMA LoadedJob ==
  ASSUME NEW at \in {"load", "loaded"}, NEW j, WriteOK(at, j),
         NEW next, next = IF j.cmd = "edit" THEN "save" ELSE "text"
  PROVE  WriteOK(next, j) /\ Opened(next, j) = {j.fd} \ {NoFd}
<1>1. j.cmd = "edit" <=> j.fd = NoFd
  BY DEF WriteOK
<1> QED
  BY <1>1 DEF WriteOK, Opened

LEMMA LoadFailsMap ==
  ASSUME MapInv, LoadFails
  PROVE  MapInv'
<1>1. PICK next : next = pc' /\ next = IF job.cmd = "edit" THEN "save" ELSE "text"
  BY DEF LoadFails, Goto, Loaded
<1>2. pc = "load" /\ UNCHANGED files /\ cur' = cur /\ fdOf' = fdOf /\ job' = job
  BY DEF LoadFails, Goto
<1>3. /\ IInv /\ cur # Nobody /\ WriteOK(pc, job)
      /\ MapOK(cur, fdOf, Opened(pc, job), Reach, Listing)
  BY <1>2, Writing
<1>4. WriteOK(next, job) /\ Opened(next, job) = {job.fd} \ {NoFd}
  BY <1>1, <1>2, <1>3, LoadedJob
<1>5. Opened(pc, job) = {job.fd} \ {NoFd}
  BY <1>2 DEF Opened
<1>6. IInv' /\ Reach' = Reach /\ Listing' = Listing
  BY <1>2, <1>3, StillView
<1>7. JobInv' /\ Own' = Opened(pc, job) /\ pc' # "logout"
  BY <1>1, <1>2, <1>3, <1>4, <1>5, WriteJob
<1> QED
  BY <1>2, <1>3, <1>6, <1>7, MapStep

LEMMA LoadCloseMap ==
  ASSUME MapInv, LoadClose
  PROVE  MapInv'
<1>1. PICK next : next = pc' /\ next = IF job.cmd = "edit" THEN "save" ELSE "text"
  BY DEF LoadClose, Goto, Loaded
<1>2. PICK fd : fd = job.aux
  OBVIOUS
<1>3. pc = "loaded" /\ Close(cur, fd) /\ cur' = cur /\ fdOf' = fdOf /\ job' = job
  BY <1>2 DEF LoadClose, Goto
<1>4. PICK own : own = Opened(pc, job)
  OBVIOUS
<1>5. /\ IInv /\ cur \in Users /\ cur # Nobody /\ WriteOK(pc, job)
      /\ MapOK(cur, fdOf, own, Reach, Listing) /\ job \in JobRecord
  BY <1>3, <1>4, Writing
<1>6. fd \in Fd /\ fd # NoFd
  BY <1>2, <1>3, <1>5 DEF WriteOK, JobRecord
<1>7. PICK own2 : own2 = {job.fd} \ {NoFd}
  OBVIOUS
<1>8. fd \in own /\ own2 \subseteq own /\ own \subseteq own2 \cup {fd}
  BY <1>2, <1>3, <1>4, <1>6, <1>7 DEF Opened
<1>9. IInv' /\ Listing' = Listing /\ Led(cur, fd, NoIno, Reach, Reach')
  BY <1>3, <1>5, <1>6, CloseView
<1>10. PICK r2 : r2 = Reach'
  OBVIOUS
<1>11. MapOK(cur, fdOf, own2, r2, Listing)
  BY <1>5, <1>8, <1>9, <1>10, MapClosedOwn
<1>12. WriteOK(next, job) /\ Opened(next, job) = own2
  BY <1>1, <1>3, <1>5, <1>7, LoadedJob
<1>13. JobInv' /\ Own' = own2 /\ pc' # "logout"
  BY <1>1, <1>3, <1>5, <1>12, WriteJob
<1> QED
  BY <1>3, <1>5, <1>9, <1>10, <1>11, <1>13, MapStep

LEMMA WriteTextMap ==
  ASSUME MapInv, WriteText
  PROVE  MapInv'
<1>1. PICK fd : fd = job.fd
  OBVIOUS
<1>2. /\ pc = "text" /\ pc' = "written" /\ cur' = cur /\ fdOf' = fdOf /\ job' = job
      /\ (\E k \in Sizes : Write(cur, fd, k)) \/ UNCHANGED files
  BY <1>1 DEF WriteText, Goto
<1>3. /\ IInv /\ cur \in Users /\ cur # Nobody /\ WriteOK(pc, job)
      /\ MapOK(cur, fdOf, Opened(pc, job), Reach, Listing) /\ job \in JobRecord
  BY <1>2, Writing
<1>4. fd \in Fd
  BY <1>1, <1>2, <1>3 DEF WriteOK, JobRecord
<1>5. IInv' /\ Listing' = Listing /\ Reach' = Reach
  <2>1. CASE \E k \in Sizes : Write(cur, fd, k)
    BY <1>3, <1>4, <2>1, TransferView
  <2>2. CASE UNCHANGED files
    BY <1>3, <2>2, StillView
  <2> QED
    BY <1>2, <2>1, <2>2
<1>6. WriteOK("written", job) /\ Opened("written", job) = Opened(pc, job)
  BY <1>2, <1>3 DEF WriteOK, Opened
<1>7. JobInv' /\ Own' = Opened(pc, job) /\ pc' # "logout"
  BY <1>2, <1>3, <1>6, WriteJob
<1> QED
  BY <1>2, <1>3, <1>5, <1>7, MapStep

LEMMA WriteCloseMap ==
  ASSUME MapInv, WriteClose
  PROVE  MapInv'
<1>1. PICK fd : fd = job.fd
  OBVIOUS
<1>2. pc = "written" /\ Close(cur, fd) /\ Resume /\ cur' = cur /\ fdOf' = fdOf
  BY <1>1 DEF WriteClose
<1>3. PICK own : own = Opened(pc, job)
  OBVIOUS
<1>4. /\ IInv /\ cur \in Users /\ cur # Nobody /\ WriteOK(pc, job)
      /\ MapOK(cur, fdOf, own, Reach, Listing) /\ job \in JobRecord
  BY <1>2, <1>3, Writing
<1>5. fd \in Fd /\ own = {fd}
  BY <1>1, <1>2, <1>3, <1>4 DEF WriteOK, JobRecord, Opened
<1>6. IInv' /\ Listing' = Listing /\ Led(cur, fd, NoIno, Reach, Reach')
  BY <1>2, <1>4, <1>5, CloseView
<1>7. PICK own2, r2 : own2 = {} /\ r2 = Reach'
  OBVIOUS
<1>8. fd \in own /\ own2 \subseteq own /\ own \subseteq own2 \cup {fd}
  BY <1>5, <1>7
<1>9. MapOK(cur, fdOf, own2, r2, Listing)
  BY <1>4, <1>6, <1>7, <1>8, MapClosedOwn
<1>10. JobInv' /\ Own' = {} /\ pc' = "prompt"
  BY <1>2, ResumeJob
<1> QED
  BY <1>2, <1>6, <1>7, <1>9, <1>10, MapStep
-----------------------------------------------------------------------------
(***************************************************************************)
(* login and logout.                                                       *)
(***************************************************************************)

\* With nothing open and nothing bound, anybody or nobody may be the current one.
LEMMA MapNothing ==
  ASSUME NEW c, c = Nobody \/ c \in Users, NEW f, f \in [Typed -> Fd \cup {NoFd}],
         \A p \in Typed : f[p] = NoFd,
         NEW r, \A u \in Users, fd \in Fd : r[u][fd] = NoIno, NEW l
  PROVE  MapOK(c, f, {}, r, l)
BY DEF MapOK

LEMMA LoginMap ==
  ASSUME OnePath, MapInv, NEW u \in Users, Login(u)
  PROVE  MapInv'
<1>1. /\ pc = "prompt" /\ pc' = pc /\ cur = Nobody /\ cur' = u
      /\ fdOf' = fdOf /\ UNCHANGED files
  BY DEF Login, OnePath
<1>2. IInv /\ MapOK(cur, fdOf, Own, Reach, Listing)
  BY <1>1 DEF MapInv
<1>3. IInv' /\ Reach' = Reach /\ Listing' = Listing
  BY <1>1, <1>2, StillView
<1>4. /\ fdOf \in [Typed -> Fd \cup {NoFd}] /\ \A p \in Typed : fdOf[p] = NoFd
      /\ \A v \in Users, fd \in Fd : Reach[v][fd] = NoIno
  BY <1>1, <1>2 DEF MapOK
<1>5. MapOK(u, fdOf, {}, Reach, Listing)
  BY <1>4, MapNothing
<1>6. JobInv' /\ Own' = {}
  BY <1>1 DEF JobInv, Own
<1> QED
  BY <1>1, <1>3, <1>5, <1>6, MapStep

LEMMA LogoutMap ==
  ASSUME MapInv, Logout
  PROVE  MapInv'
<1>1. /\ pc = "prompt" /\ pc' = "logout" /\ cur # Nobody /\ cur' = cur
      /\ UNCHANGED files
  BY DEF Logout, Goto
<1>2. IInv /\ MapOK(cur, fdOf, Own, Reach, Listing)
  BY <1>1 DEF MapInv
<1>3. IInv' /\ Reach' = Reach
  BY <1>1, <1>2, StillView
<1>4. LogoutOK'
  BY <1>1, <1>2, <1>3 DEF MapOK, LogoutOK
<1>5. JobInv'
  BY <1>1 DEF JobInv
<1> QED
  BY <1>1, <1>3, <1>4, <1>5 DEF MapInv

LEMMA LogoutCloseMap ==
  ASSUME MapInv, LogoutClose
  PROVE  MapInv'
<1>1. PICK fd : fd = First(OpenFds(cur))
  OBVIOUS
<1>2. /\ pc = "logout" /\ pc' = pc /\ cur' = cur
      /\ OpenFds(cur) # {} /\ Close(cur, fd)
  BY <1>1 DEF LogoutClose, shell
<1>3. IInv /\ cur \in Users /\ cur # Nobody /\ LogoutOK
  BY <1>2 DEF MapInv, LogoutOK, JobInv
<1>4. fd \in Fd
  <2>1. OpenFds(cur) \in SUBSET Nat
    BY Constants DEF OpenFds
  <2> QED
    BY <1>1, <1>2, <2>1, FirstIsLeast DEF OpenFds
<1>5. IInv' /\ Led(cur, fd, NoIno, Reach, Reach')
  BY <1>2, <1>3, <1>4, CloseView
<1>6. LogoutOK'
  BY <1>2, <1>3, <1>5 DEF LogoutOK, Led
<1>7. JobInv'
  BY <1>2, <1>3 DEF JobInv
<1> QED
  BY <1>2, <1>5, <1>6, <1>7 DEF MapInv

LEMMA LogoutEndMap ==
  ASSUME MapInv, LogoutEnd
  PROVE  MapInv'
<1>1. /\ pc = "logout" /\ pc' = "prompt" /\ OpenFds(cur) = {}
      /\ cur' = Nobody /\ fdOf' = Unbound /\ UNCHANGED files
  BY DEF LogoutEnd, Goto
<1>2. IInv /\ LogoutOK
  BY <1>1 DEF MapInv
<1>3. \A u \in Users, fd \in Fd : Reach[u][fd] = NoIno
  <2>1. \A fd \in Fd : uofile[cur][fd] = None
    BY <1>1 DEF OpenFds, FreeFds
  <2>2. \A fd \in Fd : Reach[cur][fd] = NoIno
    BY <1>2, <2>1, ReachValue DEF LogoutOK
  <2> QED
    BY <1>2, <2>2 DEF LogoutOK
<1>4. IInv' /\ Reach' = Reach /\ Listing' = Listing
  BY <1>1, <1>2, StillView
<1>5. MapOK(Nobody, Unbound, {}, Reach, Listing)
  BY <1>3, MapNothing DEF Unbound
<1>6. JobInv' /\ Own' = {}
  BY <1>1 DEF JobInv, Own
<1> QED
  BY <1>1, <1>4, <1>5, <1>6, MapStep
-----------------------------------------------------------------------------
(***************************************************************************)
(* The map is exact.                                                       *)
(***************************************************************************)

LEMMA MapInit == CommandsInit => MapInv
<1> SUFFICES ASSUME CommandsInit PROVE MapInv
  OBVIOUS
<1>1. /\ IInv /\ cur = Nobody /\ fdOf = Unbound /\ pc = "prompt"
      /\ uofile = [u \in Users |-> [fd \in Fd |-> None]]
  BY InitInv DEF CommandsInit, Init
<1>2. \A u \in Users, fd \in Fd : Reach[u][fd] = NoIno
  BY <1>1, ReachValue
<1>3. MapOK(cur, fdOf, {}, Reach, Listing)
  BY <1>1, <1>2, MapNothing DEF Unbound
<1>4. JobInv /\ Own = {}
  BY <1>1 DEF JobInv, Own
<1> QED
  BY <1>1, <1>3, <1>4 DEF MapInv

LEMMA MapStill ==
  ASSUME MapInv, UNCHANGED allvars
  PROVE  MapInv'
<1>1. UNCHANGED files /\ cur' = cur /\ fdOf' = fdOf /\ pc' = pc /\ job' = job
  BY DEF allvars, shell
<1>2. IInv' /\ Reach' = Reach /\ Listing' = Listing
  BY <1>1, StillView DEF MapInv
<1> QED
  BY <1>1, <1>2 DEF MapInv, JobInv, LogoutOK, MapOK, Own

\* Whatever is typed and however far it has got.
LEMMA MapNext ==
  ASSUME OnePath, Room
  PROVE  MapInv /\ [CommandsNext]_allvars => MapInv'
<1> SUFFICES ASSUME MapInv, [CommandsNext]_allvars PROVE MapInv'
  OBVIOUS
<1>1. CASE Step
  BY <1>1, RmDeleteMap, ReadChunkMap, ReadEndMap, ReadCloseMap, WriteOpenMap, WriteCreatMap,
     LoadOpenMap, LoadFailsMap, LoadCloseMap, EditSaveMap, WriteTextMap, WriteCloseMap,
     LogoutCloseMap, LogoutEndMap DEF Step
<1>2. CASE Command
  BY <1>2, CreatCommandMap, RmCloseMap, RmUnboundMap, ReadBoundMap, ReadOpenMap,
     WriteBeginMap, LoginMap, LogoutMap DEF Command
<1>3. CASE UNCHANGED allvars
  BY <1>3, MapStill
<1> QED
  BY <1>1, <1>2, <1>3 DEF CommandsNext

\* What the invariant says at the prompt.
LEMMA MapAtPrompt == MapInv => MapExact
<1> SUFFICES ASSUME MapInv, pc = "prompt"
             PROVE  /\ \A p \in Typed : fdOf[p] # NoFd =>
                         /\ cur # Nobody /\ uofile[cur][fdOf[p]] # None
                         /\ \E n \in Leads[p] : Exists(n) /\
                              ofile[uofile[cur][fdOf[p]]].ino = dir[Namei(n)].ino
                    /\ \A u \in Users : \A fd \in OpenFds(u) :
                         u = cur /\ \E p \in Typed : fdOf[p] = fd
  BY DEF MapExact
<1>1. IInv /\ MapOK(cur, fdOf, {}, Reach, Listing)
  BY DEF MapInv, Own
<1>2. ASSUME NEW p \in Typed, fdOf[p] # NoFd
      PROVE  /\ cur # Nobody /\ uofile[cur][fdOf[p]] # None
             /\ \E n \in Leads[p] : Exists(n) /\
                  ofile[uofile[cur][fdOf[p]]].ino = dir[Namei(n)].ino
  <2>1. PICK fd : fd = fdOf[p]
    OBVIOUS
  <2>2. /\ fd \in Fd /\ cur \in Users /\ cur # Nobody /\ Reach[cur][fd] # NoIno
        /\ \E n \in Leads[p] : Reach[cur][fd] \in Listing[n]
    BY <1>1, <1>2, <2>1 DEF MapOK
  <2>3. uofile[cur][fd] # None /\ Reach[cur][fd] = ofile[uofile[cur][fd]].ino
    BY <1>1, <2>2, ReachValue
  <2>4. PICK n \in Leads[p] : Reach[cur][fd] \in Listing[n]
    BY <2>2
  <2>5. Exists(n) /\ dir[Namei(n)].ino = Reach[cur][fd]
    BY <1>1, <2>4, Looked, PathsNamed
  <2> QED
    BY <2>1, <2>2, <2>3, <2>5
<1>3. ASSUME NEW u \in Users, NEW fd \in OpenFds(u)
      PROVE  u = cur /\ \E p \in Typed : fdOf[p] = fd
  <2>1. fd \in Fd /\ uofile[u][fd] # None
    BY <1>3 DEF OpenFds, FreeFds
  <2>2. Reach[u][fd] # NoIno
    BY <1>1, <2>1, ReachValue
  <2> QED
    BY <1>1, <2>1, <2>2 DEF MapOK
<1> QED
  BY <1>2, <1>3

\* At the prompt every path that s_path2fd binds has an open descriptor of the
\* current session, on the file the path leads to, and every open descriptor is
\* bound to a path: with one path to a file, room in the directory and no login
\* on top of another, no sequence of commands leaves a descriptor that nothing
\* can close.
THEOREM MapCorrect ==
  ASSUME OnePath, Room
  PROVE  CommandsSpec => []MapExact
<1>1. CommandsInit => MapInv
  BY MapInit
<1>2. MapInv /\ [CommandsNext]_allvars => MapInv'
  BY MapNext
<1>3. MapInv => MapExact
  BY MapAtPrompt
<1> QED
  BY <1>1, <1>2, <1>3, PTL DEF CommandsSpec
================================================================================
