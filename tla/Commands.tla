------------------------------ MODULE Commands ------------------------------
(***************************************************************************)
(* The file commands of the shell: creat, read, write, edit, rm, login and *)
(* logout, each a sequence of calls of FileOperator with early returns.    *)
(* Between commands the shell remembers, for a path it was given, the      *)
(* descriptor that creat() or open() returned for it (s_path2fd).          *)
(*                                                                         *)
(* A command takes one action for each call that changes the files; the    *)
(* walk along its path is in Paths.  A path leads to a file, to another    *)
(* one when it is typed in another directory.                              *)
(***************************************************************************)
EXTENDS Files

CONSTANTS
  Typed,        \* the paths that are typed
  Leads,        \* for each of them, the files it may lead to
  DefaultMode,  \* DEFAULTMODE
  Relogin       \* whether a login is given while somebody is logged in

ASSUME CommandsAssumption ==
  /\ Leads \in [Typed -> SUBSET Names]
  /\ DefaultMode \in Modes
  /\ Relogin \in BOOLEAN

VARIABLES
  live,         \* the sessions that are logged in
  cur,          \* the current one, or Nobody
  fdOf,         \* s_path2fd
  pc,           \* how far the command under way has got, or "prompt"
  job           \* its local variables

files == <<disk, core, blocks, inodes, dir, ofile, uofile>>
shell == <<live, cur, fdOf, pc, job>>
allvars == <<files, shell>>

Nobody == "nobody"
NoFd == -1
Unbound == [p \in Typed |-> NoFd]

\* The path typed and the name it leads to, the descriptors in use, the bytes
\* that read has yet to show, and whether it was asked for the whole file.
Job(c, p, n) ==
  [cmd |-> c, path |-> p, name |-> n, fd |-> NoFd, aux |-> NoFd,
   left |-> 0, whole |-> FALSE]
Idle == [cmd |-> "none"]

\* After a logout the shell looks its user up at index -1: nothing can be said
\* of a command given then, except login.
AtPrompt(p, n) == pc = "prompt" /\ cur # Nobody /\ n \in Leads[p]
Begin(next, c, p, n) == pc' = next /\ job' = Job(c, p, n)
Goto(from, next) == pc = from /\ pc' = next
Resume == pc' = "prompt" /\ job' = Idle

CommandsInit ==
  /\ Init
  /\ live = {} /\ cur = Nobody
  /\ fdOf = Unbound
  /\ pc = "prompt" /\ job = Idle

\* The descriptor that creat() and open() return.
NextFd == First(FreeFds(cur))

\* creat(), to whatever outcome.
Creat(n, m) ==
  \/ Denied(cur, n, "W")
  \/ CreatTruncate(cur, n)
  \/ CreatNew(cur, n, m)
  \/ CreatNoInode(n)

Created == uofile' # uofile

-----------------------------------------------------------------------------
(***************************************************************************)
(* creat and rm.                                                           *)
(***************************************************************************)

\* A file that exists is refused by the shell before creat() could truncate it.
CreatCommand(p, n, m) ==
  /\ AtPrompt(p, n)
  /\ ~Exists(n)
  /\ Creat(n, m)
  /\ fdOf' = IF Created THEN [fdOf EXCEPT ![p] = NextFd] ELSE fdOf
  /\ UNCHANGED <<live, cur, pc, job>>

\* Mutant: rm closes the descriptor of its path and does not forget it.
RmCloseStillBound(p, n) ==
  /\ AtPrompt(p, n)
  /\ fdOf[p] # NoFd
  /\ \/ Close(cur, fdOf[p])
     \/ uofile[cur][fdOf[p]] = None /\ UNCHANGED files
  /\ Begin("rm", "rm", p, n)
  /\ UNCHANGED <<live, cur, fdOf>>

\* rm first closes the descriptor that its path is bound to; close() of one that
\* is not open does nothing.
RmClose(p, n) ==
  /\ AtPrompt(p, n)
  /\ fdOf[p] # NoFd
  /\ \/ Close(cur, fdOf[p])
     \/ uofile[cur][fdOf[p]] = None /\ UNCHANGED files
  /\ fdOf' = [fdOf EXCEPT ![p] = NoFd]
  /\ Begin("rm", "rm", p, n)
  /\ UNCHANGED <<live, cur>>

RmUnbound(p, n) ==
  /\ AtPrompt(p, n)
  /\ fdOf[p] = NoFd
  /\ Begin("rm", "rm", p, n)
  /\ UNCHANGED <<files, live, cur, fdOf>>

RmDelete ==
  /\ pc = "rm"
  /\ \/ Delete(job.name)
     \/ ~Exists(job.name) /\ UNCHANGED files
  /\ Resume
  /\ UNCHANGED <<live, cur, fdOf>>

-----------------------------------------------------------------------------
(***************************************************************************)
(* read.                                                                   *)
(***************************************************************************)

\* The loop is entered with the size of the file or with the number typed.
ReadBegin(p, n, fd, i) ==
  /\ pc' = "read"
  /\ \/ job' = [Job("read", p, n) EXCEPT !.fd = fd, !.whole = TRUE,
                                         !.left = Current(i).size]
     \/ \E k \in Sizes : job' = [Job("read", p, n) EXCEPT !.fd = fd, !.left = k]

\* A path that is bound is read through its descriptor.  When that one is not
\* open the code goes beyond the end of m_ofile, and nothing can be said of it.
ReadBound(p, n) ==
  /\ AtPrompt(p, n)
  /\ fdOf[p] # NoFd /\ uofile[cur][fdOf[p]] # None
  /\ ReadBegin(p, n, fdOf[p], ofile[uofile[cur][fdOf[p]]].ino)
  /\ UNCHANGED <<files, live, cur, fdOf>>

ReadOpen(p, n) ==
  /\ AtPrompt(p, n)
  /\ fdOf[p] = NoFd
  /\ Open(cur, n, {"R"})
  /\ fdOf' = [fdOf EXCEPT ![p] = NextFd]
  /\ ReadBegin(p, n, NextFd, dir[Namei(n)].ino)
  /\ UNCHANGED <<live, cur>>

\* What read() returns when it is asked for n bytes.
Returned(fd, n) ==
  LET f == ofile[uofile[cur][fd]]
      di == core[f.ino].di
  IN  IF "R" \notin f.flag \/ f.off >= di.size THEN 0
      ELSE Extent(di.addr, f.off, Least(n, di.size - f.off)) - f.off

Chunk == Returned(job.fd, Least(job.left, BLOCKSIZ))

\* One turn of the loop: a chunk of at most one block.
ReadChunk ==
  /\ pc = "read"
  /\ job.left > 0 /\ Chunk > 0
  /\ Read(cur, job.fd, Least(job.left, BLOCKSIZ))
  /\ job' = [job EXCEPT !.left = @ - Chunk]
  /\ UNCHANGED <<live, cur, fdOf, pc>>

\* Mutant: the loop goes on when read() returns nothing.
ReadGoesOn ==
  /\ pc = "read"
  /\ IF job.left = 0 THEN pc' = "shown" ELSE Chunk = 0 /\ pc' = pc
  /\ UNCHANGED <<files, live, cur, fdOf, job>>

\* The loop ends when everything asked for has come, or nothing came.
ReadEnd ==
  /\ Goto("read", "shown")
  /\ job.left = 0 \/ Chunk = 0
  /\ UNCHANGED <<files, live, cur, fdOf, job>>

ReadClose ==
  /\ pc = "shown"
  /\ Close(cur, job.fd)
  /\ fdOf' = [fdOf EXCEPT ![job.path] = NoFd]
  /\ Resume
  /\ UNCHANGED <<live, cur>>

-----------------------------------------------------------------------------
(***************************************************************************)
(* write with a text, and edit, which is write without one.                *)
(***************************************************************************)

WriteBegin(p, n) ==
  /\ AtPrompt(p, n)
  /\ Begin("open", "write", p, n) \/ Begin("load", "edit", p, n)
  /\ UNCHANGED <<files, live, cur, fdOf>>

WriteOpen ==
  /\ Goto("open", "load")
  /\ Open(cur, job.name, {"W", "A"})
  /\ job' = [job EXCEPT !.fd = NextFd]
  /\ UNCHANGED <<live, cur, fdOf>>

MayOpen(n, flag) ==
  /\ Exists(n) /\ CanOpen(cur)
  /\ \A kind \in Needs(flag) : Access(cur, Current(dir[Namei(n)].ino), kind)

\* When open() fails, for whatever reason, creat() is tried; then the text
\* follows, or the command is over.
CreatOr(next) ==
  /\ Creat(job.name, DefaultMode)
  /\ IF Created THEN pc' = next /\ job' = [job EXCEPT !.fd = NextFd] ELSE Resume
  /\ UNCHANGED <<live, cur, fdOf>>

WriteCreat ==
  /\ pc = "open"
  /\ ~MayOpen(job.name, {"W", "A"})
  /\ CreatOr("load")

\* read_entire_file(): what it reads is only shown or compared, and its
\* descriptor is closed again; when it cannot open the file it returns nothing.
Loaded == IF job.cmd = "edit" THEN "save" ELSE "text"

LoadOpen ==
  /\ Goto("load", "loaded")
  /\ Open(cur, job.name, {"R"})
  /\ job' = [job EXCEPT !.aux = NextFd]
  /\ UNCHANGED <<live, cur, fdOf>>

LoadFails ==
  /\ Goto("load", Loaded)
  /\ ~MayOpen(job.name, {"R"})
  /\ UNCHANGED <<files, live, cur, fdOf, job>>

LoadClose ==
  /\ Goto("loaded", Loaded)
  /\ Close(cur, job.aux)
  /\ UNCHANGED <<live, cur, fdOf, job>>

EditSave == pc = "save" /\ CreatOr("text")

\* The text typed has a byte at least, the text edited may be empty.
WriteText ==
  /\ Goto("text", "written")
  /\ \/ \E k \in Sizes : Write(cur, job.fd, k)
     \/ job.cmd = "edit" /\ UNCHANGED files
  /\ UNCHANGED <<live, cur, fdOf, job>>

WriteClose ==
  /\ pc = "written"
  /\ Close(cur, job.fd)
  /\ Resume
  /\ UNCHANGED <<live, cur, fdOf>>

-----------------------------------------------------------------------------
(***************************************************************************)
(* login and logout.                                                       *)
(***************************************************************************)

\* A slot of the session table is free for a login when its uid is 0: nobody
\* logs in after the root (Sessions has the logins that take over its slot).
Login(u) ==
  /\ pc = "prompt"
  /\ cur = Nobody \/ Relogin
  /\ u \notin live /\ Root \notin live
  /\ live' = live \cup {u} /\ cur' = u
  /\ UNCHANGED <<files, fdOf, pc, job>>

Logout ==
  /\ Goto("prompt", "logout")
  /\ cur # Nobody
  /\ UNCHANGED <<files, live, cur, fdOf, job>>

OpenFds(u) == Fd \ FreeFds(u)

LogoutClose ==
  /\ pc = "logout"
  /\ OpenFds(cur) # {}
  /\ Close(cur, First(OpenFds(cur)))
  /\ UNCHANGED shell

LogoutEnd ==
  /\ Goto("logout", "prompt")
  /\ OpenFds(cur) = {}
  /\ live' = live \ {cur} /\ cur' = Nobody
  /\ fdOf' = Unbound
  /\ UNCHANGED <<files, job>>

\* The command under way goes on.
Step ==
  \/ RmDelete
  \/ ReadChunk \/ ReadEnd \/ ReadClose
  \/ WriteOpen \/ WriteCreat \/ LoadOpen \/ LoadFails \/ LoadClose
  \/ EditSave \/ WriteText \/ WriteClose
  \/ LogoutClose \/ LogoutEnd

\* The user types one.
Command ==
  \/ \E p \in Typed, n \in Names :
       \/ \E m \in Modes : CreatCommand(p, n, m)
       \/ RmClose(p, n) \/ RmUnbound(p, n)
       \/ ReadBound(p, n) \/ ReadOpen(p, n)
       \/ WriteBegin(p, n)
  \/ \E u \in Users : Login(u)
  \/ Logout

CommandsNext == Step \/ Command

\* The program goes on with a command it has begun; nothing makes the user type.
CommandsSpec == CommandsInit /\ [][CommandsNext]_allvars /\ WF_allvars(Step)

-----------------------------------------------------------------------------
(***************************************************************************)
(* Properties.                                                             *)
(***************************************************************************)

\* Between commands the map and the open files agree: a path that is bound has
\* an open descriptor of the current session, on the file the path leads to,
\* and whatever is open is bound, so that a later command can close it.
MapExact ==
  pc = "prompt" =>
    /\ \A p \in Typed : fdOf[p] # NoFd =>
         /\ cur # Nobody /\ uofile[cur][fdOf[p]] # None
         /\ \E n \in Leads[p] : Exists(n) /\
              ofile[uofile[cur][fdOf[p]]].ino = dir[Namei(n)].ino
    /\ \A u \in Users : \A fd \in OpenFds(u) :
         u = cur /\ \E p \in Typed : fdOf[p] = fd

\* Every command comes back to the prompt, whatever tables are full and
\* whatever its descriptors allow.
CommandReturns == pc # "prompt" ~> pc = "prompt"

\* Refuted: write with a text, which appends, never makes a file shorter.
AppendKeeps ==
  [][job.cmd = "write" =>
       \A i \in Inodes : Current(i)'.size >= Current(i).size]_allvars

\* Refuted: read without a number shows all the bytes of the file.
ReadShowsAll == pc = "shown" /\ job.whole => job.left = 0
================================================================================
