---------------------------------- MODULE Bytes ----------------------------------
(***************************************************************************)
(* The bytes of the files of Files: what is in the blocks, which are never *)
(* cleared when they are freed or handed out, what write() puts there and  *)
(* what read() returns.                                                    *)
(***************************************************************************)
EXTENDS Files

CONSTANTS
  Byte,
  Strings       \* the buffers given to write()

ASSUME BytesAssumption ==
  /\ Strings \subseteq Seq(Byte) /\ {Len(str) : str \in Strings} \subseteq Sizes
  /\ IsFiniteSet(Blocks)

VARIABLES
  data,         \* the bytes of each block
  buf           \* what read() has just returned

bvars == <<vars, data, buf>>

Offset == 0 .. BLOCKSIZ - 1

\* A disk that has been used before has anything in its free blocks.
BytesInit ==
  /\ Init
  /\ data \in [Blocks -> [Offset -> Byte]]
  /\ buf = <<>>

\* Byte p of a file, from 0.
ByteOf(di, p) == data[di.addr[p \div BLOCKSIZ]][p % BLOCKSIZ]

\* The place in a file of byte j of block b.
Position(addr, b, j) == (CHOOSE k \in Index : addr[k] = b) * BLOCKSIZ + j

\* Mutant: a block that is written in part is not read first.
StoredUnread(addr, b, off, end, str) ==
  [j \in Offset |-> IF Position(addr, b, j) \in off .. end - 1
                    THEN str[Position(addr, b, j) - off + 1] ELSE First(Byte)]

\* Block b once the bytes from off to end are written: a block written in part
\* is read first, and keeps the others.
Stored(addr, b, off, end, str) ==
  [j \in Offset |-> IF Position(addr, b, j) \in off .. end - 1
                    THEN str[Position(addr, b, j) - off + 1] ELSE data[b][j]]

ReadBytes(u, fd, n) ==
  /\ Read(u, fd, n)
  /\ LET s == uofile[u][fd]
         di == core[ofile[s].ino].di
     IN  buf' = [x \in 1 .. ofile'[s].off - ofile[s].off |->
                   ByteOf(di, ofile[s].off + x - 1)]
  /\ UNCHANGED data

WriteBytes(u, fd, str) ==
  /\ Write(u, fd, Len(str))
  /\ LET s == uofile[u][fd]
         addr == core'[ofile[s].ino].di.addr
     IN  data' = [b \in Blocks |->
                    IF b \in AddrBlocks([addr |-> addr])
                    THEN Stored(addr, b, ofile[s].off, ofile'[s].off, str)
                    ELSE data[b]]
  /\ buf' = <<>>

\* A call that is refused shows its caller nothing.
Refused ==
  /\ \/ \E u \in Users, n \in Names :
          OpenNoSlot(u, n) \/ \E kind \in Kinds : Denied(u, n, kind)
     \/ \E n \in Names : CreatNoInode(n)
  /\ UNCHANGED <<data, buf>>

\* Everything else leaves the blocks as they are.
Others ==
  /\ \/ \E u \in Users, n \in Names :
          \/ CreatTruncate(u, n)
          \/ \E m \in Modes : CreatNew(u, n, m)
          \/ \E flag \in OpenModes : Open(u, n, flag)
     \/ \E n \in Names : Delete(n)
     \/ \E u \in Users, fd \in Fd : Close(u, fd)
  /\ buf' = <<>>
  /\ UNCHANGED data

BytesNext ==
  \/ \E u \in Users, fd \in Fd :
       \/ \E n \in Sizes : ReadBytes(u, fd, n)
       \/ \E str \in Strings : WriteBytes(u, fd, str)
  \/ Others
  \/ Refused

BytesSpec == BytesInit /\ [][BytesNext]_bvars

-----------------------------------------------------------------------------
(***************************************************************************)
(* Properties.                                                             *)
(***************************************************************************)

Contents ==
  [i \in Inodes |-> [p \in 1 .. Current(i).size |-> ByteOf(Current(i), p - 1)]]

Cursors ==
  [s \in Slot |-> IF ofile[s].count = 0 THEN Closed
                  ELSE [file |-> ofile[s].ino, off |-> ofile[s].off]]

Flat == INSTANCE FlatFile
          WITH File <- Inodes, Place <- Slot, BlockSize <- BLOCKSIZ,
               MaxBlocks <- NADDR, Total <- Cardinality(Blocks),
               content <- Contents, cursor <- Cursors, got <- buf

\* Files made of blocks that come and go, of inodes in memory and on disk, and
\* of a table of open slots are plain sequences of bytes to whoever uses them:
\* read() returns what was last written there and never what a freed block had
\* in it, and write() stops short only when there is no room.
ImplementsFlat == Flat!Init /\ [][Flat!Next(Sizes, Strings)]_Flat!vars
==================================================================================
