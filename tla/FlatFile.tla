-------------------------------- MODULE FlatFile --------------------------------
(***************************************************************************)
(* What files promise, whatever blocks and caches they are made of: each   *)
(* file is a sequence of bytes, each open place (a cursor) stands at an    *)
(* offset of one file, and reading returns what was last written there.    *)
(***************************************************************************)
EXTENDS Integers, Sequences, FiniteSets

CONSTANTS
  File, Place, Byte,
  Closed,       \* a place that is not open
  BlockSize,    \* storage is given out in blocks of this many bytes,
  MaxBlocks,    \* so many to a file at most
  Total         \* and so many in all

VARIABLES content, cursor, got

vars == <<content, cursor, got>>

At(f, o) == [file |-> f, off |-> o]
Cursors(f) == {p \in Place : cursor[p] # Closed /\ cursor[p].file = f}
Emptied(f) == [content EXCEPT ![f] = <<>>]
Rewound(f) == [p \in Place |-> IF p \in Cursors(f) THEN At(f, 0) ELSE cursor[p]]

TypeOK ==
  /\ content \in [File -> Seq(Byte)]
  /\ cursor \in [Place -> {Closed} \cup [file : File, off : Nat]]
  /\ got \in Seq(Byte)

Init ==
  /\ content = [f \in File |-> <<>>]
  /\ cursor = [p \in Place |-> Closed]
  /\ got = <<>>

\* A place is opened on a file, at its beginning or at its end.
Open(p, f) ==
  /\ cursor[p] = Closed
  /\ \E o \in {0, Len(content[f])} : cursor' = [cursor EXCEPT ![p] = At(f, o)]
  /\ got' = <<>>
  /\ UNCHANGED content

\* A file is emptied, and every place on it goes back to the beginning; one more
\* may be opened on it.
Truncate(f) ==
  /\ content' = Emptied(f)
  /\ \/ cursor' = Rewound(f)
     \/ \E p \in Place :
          cursor[p] = Closed /\ cursor' = [Rewound(f) EXCEPT ![p] = At(f, 0)]
  /\ got' = <<>>

\* A place is closed; a file that has no name any more goes with its last place.
Close(p) ==
  /\ cursor[p] # Closed
  /\ \/ UNCHANGED content
     \/ /\ Cursors(cursor[p].file) = {p}
        /\ content' = Emptied(cursor[p].file)
  /\ cursor' = [cursor EXCEPT ![p] = Closed]
  /\ got' = <<>>

\* A file that is removed goes at once, or stays for the places open on it.
Remove(f) ==
  /\ content' = IF Cursors(f) = {} THEN Emptied(f) ELSE content
  /\ got' = <<>>
  /\ UNCHANGED cursor

Read(p, n) ==
  /\ cursor[p] # Closed
  /\ LET c == content[cursor[p].file]
         o == cursor[p].off
     IN  got' = SubSeq(c, o + 1, IF o + n < Len(c) THEN o + n ELSE Len(c))
  /\ cursor' = [cursor EXCEPT ![p].off = @ + Len(got')]
  /\ UNCHANGED content

\* Whether there is storage for all files when c is what f holds: the storage of a
\* file is the blocks its bytes begin.
Fits(f, c) ==
  LET after == [content EXCEPT ![f] = c]
      storage == {b \in File \X (0 .. MaxBlocks - 1) : b[2] * BlockSize < Len(after[b[1]])}
  IN  Len(c) <= MaxBlocks * BlockSize /\ Cardinality(storage) <= Total

\* c with the first n of the bytes put over what is at offset o and beyond.
Over(c, o, bytes, n) ==
  SubSeq(c, 1, o) \o SubSeq(bytes, 1, n) \o SubSeq(c, o + n + 1, Len(c))

\* As many of the bytes are written as there is room for.
Write(p, bytes) ==
  /\ cursor[p] # Closed
  /\ LET f == cursor[p].file
         o == cursor[p].off
         After(n) == Over(content[f], o, bytes, n)
     IN  \E n \in 0 .. Len(bytes) :
           /\ Fits(f, After(n))
           /\ \A m \in n + 1 .. Len(bytes) : ~Fits(f, After(m))
           /\ content' = [content EXCEPT ![f] = After(n)]
           /\ cursor' = [cursor EXCEPT ![p].off = o + n]
  /\ got' = <<>>

Next(Lengths, Strings) ==
  \/ \E f \in File : Truncate(f) \/ Remove(f)
  \/ \E p \in Place :
       \/ \E f \in File : Open(p, f)
       \/ Close(p)
       \/ \E n \in Lengths : Read(p, n)
       \/ \E bytes \in Strings : Write(p, bytes)
=================================================================================
