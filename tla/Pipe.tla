-------------------------------- MODULE Pipe --------------------------------
(***************************************************************************)
(* Pipes (pipe.c) with the table of open files (file.c), the descriptors   *)
(* of processes (sysfile.c) and fork, exit and kill as far as they touch   *)
(* descriptors and sleepers (proc.c).  One step is one critical section of *)
(* ftable.lock or of the lock of a pipe; a copy loop under the lock of its *)
(* pipe is one step.  The counters nread and nwrite wrap at Wrap, as the   *)
(* 32-bit ones do at 2^32, a multiple of PIPESIZE.                         *)
(***************************************************************************)
EXTENDS Naturals, Sequences, FiniteSets, FiniteSetsExt, Sleep

CONSTANTS First,      \* the process there is at the start; it neither exits nor is killed
          Fds,        \* descriptors of a process, 0..NOFILE-1
          Files,      \* the NFILE entries of ftable
          Pages,      \* the pages kalloc can give to pipes
          PIPESIZE, Wrap, Values,
          Counts      \* the n of read and write

ASSUME PipeAssumption ==
    /\ PIPESIZE \in Nat \ {0} /\ Wrap \in Nat /\ Wrap % PIPESIZE = 0 /\ Wrap > PIPESIZE
    /\ Values \in Nat \ {0} /\ Counts \subseteq Nat \ {0}
    /\ Fds \subseteq Nat /\ Files \subseteq Nat /\ \A S \in {Procs, Fds, Files} : IsFiniteSet(S)
    /\ First \in Procs /\ None \notin Procs \cup Pages \cup Files

VARIABLES
    alive,    \* the processes there are
    ofile,    \* p->ofile
    file,     \* ref, type, pipe and writable of each entry of ftable
    pipe,     \* the page of each pipe; not live when it is on the free list
    call,     \* what each process is doing in the kernel
    killed,   \* p->killed
    last,     \* the last byte a read returned
    panic     \* a panic of the code was reached

vars == <<spin, nap, alive, ofile, file, pipe, call, killed, last, panic>>
tables == <<ofile, file>>

NoFile == [ref |-> 0, type |-> "NONE", pipe |-> None, writable |-> FALSE]
Idle == [op |-> "user", pipe |-> None, n |-> 0, i |-> 0]

\* Two fields are not in the code: sent numbers the bytes, and silent tells that a
\* killed writer put bytes in and failed, and nobody has woken the readers since.
FreePage == [live |-> FALSE, data |-> [x \in 0..PIPESIZE-1 |-> 0], nread |-> 0, nwrite |-> 0,
             readopen |-> FALSE, writeopen |-> FALSE, sent |-> 0, silent |-> FALSE]

Init ==
    /\ spin = [c \in Pages |-> None] /\ nap = [p \in Procs |-> Awake]
    /\ alive = {First}
    /\ ofile = [p \in Procs |-> [d \in Fds |-> None]]
    /\ file = [f \in Files |-> NoFile]
    /\ pipe = [c \in Pages |-> FreePage]
    /\ call = [p \in Procs |-> Idle]
    /\ killed = {} /\ last = 0 /\ panic = FALSE

InUser(p) == p \in alive /\ call[p].op = "user" /\ p \notin killed
Runs(p, op) == call[p].op = op /\ nap[p] = Awake /\ ~panic
Returns(p) == call' = [call EXCEPT ![p] = Idle]
FreeFds(p) == {d \in Fds : ofile[p][d] = None}
-----------------------------------------------------------------------------
(* sysfile.c, file.c *)

FreeFiles == {f \in Files : file[f].ref = 0}
filealloc(free) == Min(free)

\* pipealloc has two entries and a page, fdalloc the two lowest free descriptors.
PipeMade(p) ==
    /\ InUser(p)
    /\ Cardinality(FreeFiles) >= 2 /\ Cardinality(FreeFds(p)) >= 2
    /\ \E rf \in {filealloc(FreeFiles)}, c \in {x \in Pages : ~pipe[x].live} :
        LET wf == filealloc(FreeFiles \ {rf}) IN
        /\ file' = [file EXCEPT ![rf] = [ref |-> 1, type |-> "PIPE", pipe |-> c, writable |-> FALSE],
                                ![wf] = [ref |-> 1, type |-> "PIPE", pipe |-> c, writable |-> TRUE]]
        /\ pipe' = [pipe EXCEPT ![c] = [FreePage EXCEPT !.live = TRUE, !.readopen = TRUE, !.writeopen = TRUE]]
        /\ LET r == Min(FreeFds(p)) w == Min(FreeFds(p) \ {r}) IN
           ofile' = [ofile EXCEPT ![p][r] = rf, ![p][w] = wf]
    /\ UNCHANGED <<alive, call, killed, last, panic, spin, nap>>

\* pipealloc fails, at any time: calls on their way may hold the last entries, and kalloc
\* serves others too.  The entry it got, still of type NONE, is free again.
PipeallocFails(p) == InUser(p) /\ UNCHANGED vars

\* fdalloc fails: sys_pipe empties the descriptor it got, and fileclose of both ends, which
\* nobody else has seen, frees the entries and with the second one the page, whichever it was.
FdallocFails(p) ==
    /\ InUser(p)
    /\ Cardinality(FreeFiles) >= 2 /\ Cardinality(FreeFds(p)) < 2
    /\ LET rf == filealloc(FreeFiles) wf == filealloc(FreeFiles \ {rf}) IN
       file' = [file EXCEPT ![rf] = NoFile, ![wf] = NoFile]
    /\ UNCHANGED <<ofile, pipe, alive, call, killed, last, panic, spin, nap>>

sys_pipe(p) == PipeMade(p) \/ PipeallocFails(p) \/ FdallocFails(p)

sys_dup(p, d) ==
    /\ InUser(p) /\ ofile[p][d] # None /\ FreeFds(p) # {}
    /\ ofile' = [ofile EXCEPT ![p][Min(FreeFds(p))] = ofile[p][d]]
    /\ file' = [file EXCEPT ![ofile[p][d]].ref = @ + 1]
    /\ UNCHANGED <<alive, pipe, call, killed, last, panic, spin, nap>>

\* The rest of fileclose: the last reference of a pipe's end closes the end.  The
\* entry may belong to another file by then, so the code works on a copy of it.  Here
\* pipe and writable are cleared with it: nobody reads them before pipealloc sets them.
Closes(p, f) ==
    /\ panic' = (panic \/ file[f].ref < 1)
    /\ \/ /\ file[f].ref > 1
          /\ file' = [file EXCEPT ![f].ref = @ - 1]
          /\ UNCHANGED call
       \/ /\ file[f].ref <= 1
          /\ file' = [file EXCEPT ![f] = NoFile]
          /\ call' = [call EXCEPT ![p] = [@ EXCEPT !.pipe = file[f].pipe,
                        !.n = IF file[f].writable THEN 1 ELSE 0, !.i = IF call[p].op = "exit" THEN 1 ELSE 0,
                        !.op = "close"]]

sys_close(p, d) ==
    /\ InUser(p) \/ Runs(p, "exit")
    /\ ofile[p][d] # None
    /\ ofile' = [ofile EXCEPT ![p][d] = None]
    /\ Closes(p, ofile[p][d])
    /\ UNCHANGED <<alive, pipe, killed, last, spin, nap>>

\* Two slips: an end that is closed without a wakeup, and a page that is freed too soon.
WokenByNobody(writable, c) == nap
FreedByReader(c, writable) == ~writable

\* Who sleeps on the other end's counter, and whether the page goes back to kfree.
WokenByClose(writable, c) == Woken(<<IF writable THEN "nread" ELSE "nwrite", c>>)
FreedBy(c, writable) == IF writable THEN ~pipe[c].readopen ELSE ~pipe[c].writeopen

pipeclose(p) ==
    LET c == call[p].pipe  writable == call[p].n = 1 IN
    /\ Runs(p, "close") /\ Open(c)
    /\ pipe' = [pipe EXCEPT ![c] =
                  IF FreedBy(c, writable) THEN FreePage
                  ELSE IF writable THEN [@ EXCEPT !.writeopen = FALSE, !.silent = FALSE] ELSE [@ EXCEPT !.readopen = FALSE]]
    /\ nap' = WokenByClose(writable, c)
    /\ call' = [call EXCEPT ![p] = IF @.i = 1 THEN [Idle EXCEPT !.op = "exit"] ELSE Idle]
    /\ UNCHANGED <<alive, tables, killed, last, panic, spin>>

\* sys_read and sys_write through fileread and filewrite; a wrong end returns -1.
StartsIO(p, d, n) ==
    /\ InUser(p) /\ ofile[p][d] # None
    /\ LET f == file[ofile[p][d]] IN
       call' = [call EXCEPT ![p] = [op |-> IF f.writable THEN "write" ELSE "read",
                                    pipe |-> f.pipe, n |-> n, i |-> 0]]
    /\ UNCHANGED <<alive, tables, pipe, killed, last, panic, spin, nap>>
-----------------------------------------------------------------------------
(* pipe.c *)

\* How many bytes there are; first as a difference that ignores the wrap of nwrite.
FilledNoWrap(c) == IF pipe[c].nwrite > pipe[c].nread THEN pipe[c].nwrite - pipe[c].nread ELSE 0
Filled(c) == (pipe[c].nwrite + Wrap - pipe[c].nread) % Wrap

Empty(c) == pipe[c].nread = pipe[c].nwrite

\* The bytes with the numbers sent, sent+1, ... go to nwrite, nwrite+1, ...
Stored(c, n) ==
    [pipe[c] EXCEPT
       !.data = [x \in 0..PIPESIZE-1 |->
                   IF \E j \in 0..n-1 : (pipe[c].nwrite + j) % PIPESIZE = x
                   THEN (pipe[c].sent + (CHOOSE j \in 0..n-1 : (pipe[c].nwrite + j) % PIPESIZE = x)) % Values
                   ELSE @[x]],
       !.nwrite = (@ + n) % Wrap, !.sent = (@ + n) % Values]

\* Bytes go in until all n are written or the pipe is full; then the writer fails or
\* wakes the readers and sleeps.
pipewrite(p) ==
    LET c == call[p].pipe
        n == Min({PIPESIZE - Filled(c), call[p].n - call[p].i}) IN
    /\ Runs(p, "write") /\ Open(c)
    /\ pipe' = [pipe EXCEPT ![c] = [Stored(c, n) EXCEPT !.silent =
                  call[p].i + n < call[p].n /\ p \in killed /\ (@ \/ n > 0)]]
    /\ \/ /\ call[p].i + n = call[p].n
          /\ wakeup(<<"nread", c>>) /\ Returns(p) /\ UNCHANGED spin
       \/ /\ call[p].i + n < call[p].n /\ (~pipe[c].readopen \/ p \in killed)
          /\ Returns(p) /\ UNCHANGED <<nap, spin>>
       \/ /\ call[p].i + n < call[p].n /\ pipe[c].readopen /\ p \notin killed
          /\ SleepAfter(Woken(<<"nread", c>>), p, <<"nwrite", c>>, c)
          /\ call' = [call EXCEPT ![p].i = @ + n]
    /\ UNCHANGED <<alive, tables, killed, last, panic>>

\* The bytes at nread, nread+1, ... go.  What was read is cleared here and stays in the
\* ring in the code; nobody reads it again.
Taken(c, n) ==
    [pipe[c] EXCEPT
       !.data = [x \in 0..PIPESIZE-1 |-> IF \E j \in 0..n-1 : (pipe[c].nread + j) % PIPESIZE = x THEN 0 ELSE @[x]],
       !.nread = (@ + n) % Wrap]

\* An empty pipe with a writing end makes the reader sleep, or fail if it was killed;
\* else it takes what there is, nothing at the end of the stream.
piperead(p) ==
    LET c == call[p].pipe
        n == Min({Filled(c), call[p].n}) IN
    /\ Runs(p, "read") /\ Open(c)
    /\ \/ /\ Empty(c) /\ pipe[c].writeopen /\ p \notin killed
          /\ CallsSleep(p, <<"nread", c>>, c) /\ UNCHANGED <<pipe, call, last>>
       \/ /\ Empty(c) /\ pipe[c].writeopen /\ p \in killed
          /\ Returns(p) /\ UNCHANGED <<pipe, last, nap, spin>>
       \/ /\ ~Empty(c) \/ ~pipe[c].writeopen
          /\ pipe' = [pipe EXCEPT ![c] = Taken(c, n)]
          /\ last' = IF n = 0 THEN last ELSE pipe[c].data[(pipe[c].nread + n - 1) % PIPESIZE]
          /\ wakeup(<<"nwrite", c>>) /\ Returns(p) /\ UNCHANGED spin
    /\ UNCHANGED <<alive, tables, killed, panic>>
-----------------------------------------------------------------------------
(* proc.c, as far as descriptors and sleepers are concerned *)

\* The child gets the parent's descriptors, each one a reference more.
fork(p, q) ==
    /\ InUser(p) /\ q \notin alive
    /\ alive' = alive \cup {q}
    /\ ofile' = [ofile EXCEPT ![q] = ofile[p]]
    /\ file' = [f \in Files |-> [file[f] EXCEPT !.ref =
                  @ + Cardinality({d \in Fds : ofile[p][d] = f})]]
    /\ UNCHANGED <<pipe, call, killed, last, panic, spin, nap>>

\* exit, called or forced by trap on a killed process, closes every descriptor.
exit(p) ==
    /\ p \in alive \ {First} /\ call[p].op = "user"
    /\ call' = [call EXCEPT ![p].op = "exit"]
    /\ UNCHANGED <<alive, tables, pipe, killed, last, panic, spin, nap>>

\* The slot that wait frees forgets the kill.
Dies(p) ==
    /\ Runs(p, "exit") /\ FreeFds(p) = Fds
    /\ alive' = alive \ {p} /\ killed' = killed \ {p} /\ Returns(p)
    /\ UNCHANGED <<tables, pipe, last, panic, spin, nap>>

\* kill marks the process and wakes it if it is SLEEPING by then.
kill(q) ==
    /\ q \in alive \ {First} /\ killed' = killed \cup {q}
    /\ nap' = IF nap[q].stage = "sleeps" THEN [nap EXCEPT ![q] = Awake] ELSE nap
    /\ UNCHANGED <<alive, tables, pipe, call, last, panic, spin>>

Falls(p) == FallsAsleep(p) /\ UNCHANGED <<alive, tables, pipe, call, killed, last, panic>>
-----------------------------------------------------------------------------
\* What a process in the kernel does next, and what it may ask for in user mode.
Kernel(p) == pipewrite(p) \/ piperead(p) \/ pipeclose(p) \/ Falls(p) \/ Dies(p)
             \/ \E d \in Fds : Runs(p, "exit") /\ sys_close(p, d)
User(p) == sys_pipe(p) \/ exit(p) \/ (\E q \in Procs : fork(p, q) \/ kill(q))
           \/ \E d \in Fds : sys_dup(p, d) \/ sys_close(p, d) \/ \E n \in Counts : StartsIO(p, d, n)

Next == \E p \in Procs : Kernel(p) \/ User(p)

\* Every process in the kernel is scheduled again and again.
Spec == Init /\ [][Next]_vars /\ \A p \in Procs : WF_vars(Kernel(p))
-----------------------------------------------------------------------------
(* The types of the variables. *)
TablesType ==
    /\ ofile \in [Procs -> [Fds -> Files \cup {None}]]
    /\ file \in [Files -> [ref : 0..Cardinality(Procs) * Cardinality(Fds), type : {"NONE", "PIPE"},
                           pipe : Pages \cup {None}, writable : BOOLEAN]]
PipesType ==
    /\ pipe \in [Pages -> [live : BOOLEAN, data : [0..PIPESIZE-1 -> 0..Values-1], nread : 0..Wrap-1,
                           nwrite : 0..Wrap-1, readopen : BOOLEAN, writeopen : BOOLEAN, sent : 0..Values-1, silent : BOOLEAN]]
    /\ last \in 0..Values-1
CallsType ==
    /\ alive \subseteq Procs /\ killed \subseteq alive
    /\ call \in [Procs -> [op : {"user", "read", "write", "close", "exit"}, pipe : Pages \cup {None},
                           n : Nat, i : Nat]]
TypeOK ==
    /\ spin \in [Pages -> Procs \cup {None}] /\ panic \in BOOLEAN
    /\ TablesType /\ PipesType /\ CallsType

\* An open file is this end of c, or a process is about to close it.
Referenced(c, w) ==
    \/ \E f \in Files : file[f].ref > 0 /\ file[f].type = "PIPE" /\ file[f].pipe = c /\ file[f].writable = w
    \/ \E p \in Procs : call[p].op = "close" /\ call[p].pipe = c /\ (call[p].n = 1) = w

\* The counts of ftable are the descriptors there are, an end of a pipe is open exactly
\* while somebody has it or is closing it, and nobody reads or writes a page that kfree has.
EndsMatchDescriptors ==
    /\ ~panic
    /\ \A f \in Files : file[f].ref = Cardinality({x \in Procs \X Fds : ofile[x[1]][x[2]] = f})
    /\ \A c \in Pages : /\ pipe[c].readopen = Referenced(c, FALSE)
                        /\ pipe[c].writeopen = Referenced(c, TRUE)
    /\ \A p \in Procs : call[p].op \in {"read", "write", "close"} => pipe[call[p].pipe].live

\* A reader sleeps only beside an empty pipe somebody may still write, a writer only
\* beside a full one somebody may still read: no wakeup is lost, except that of a
\* writer that is killed, fills the pipe and fails.
SleepersHaveReason == \A c \in Pages :
    /\ Sleepers(<<"nread", c>>) # {} => pipe[c].writeopen /\ (Empty(c) \/ pipe[c].silent)
    /\ Sleepers(<<"nwrite", c>>) # {} => Filled(c) = PIPESIZE /\ pipe[c].readopen

Bytes(c) == [i \in 1..Filled(c) |-> pipe[c].data[(pipe[c].nread + i - 1) % PIPESIZE]]

Queues == [c \in Pages |-> Bytes(c)]
SentBytes == [c \in Pages |-> pipe[c].sent]
OpenEnds == [c \in Pages |-> {e \in {"read", "write"} : IF e = "read" THEN pipe[c].readopen ELSE pipe[c].writeopen}]

Streams == INSTANCE Channel WITH Pipes <- Pages, Capacity <- PIPESIZE, q <- Queues, sent <- SentBytes, ends <- OpenEnds

\* Pipes are queues: bytes arrive in order, once, across the wrap of the counters.
ImplementsChannel == Streams!Spec

\* A process in read or write on a pipe whose other end is closed leaves the kernel.
OtherEndClosed(p) ==
    \/ call[p].op = "read" /\ ~pipe[call[p].pipe].writeopen
    \/ call[p].op = "write" /\ ~pipe[call[p].pipe].readopen
OtherEndClosedEndsCall == \A p \in Procs : OtherEndClosed(p) ~> call[p].op \notin {"read", "write"}
-----------------------------------------------------------------------------
(* Why it holds: an inductive invariant *)

\* The descriptors that refer to each entry of ftable.
Refs == [f \in Files |-> {x \in Procs \X Fds : ofile[x[1]][x[2]] = f}]

\* The two ends of a pipe, and what holds one open: an entry of ftable, or a process in pipeclose.
Ends == {"read", "write"}
IsOpen(c, e) == IF e = "write" THEN pipe[c].writeopen ELSE pipe[c].readopen
End(writable) == IF writable THEN "write" ELSE "read"
Opens(f, c, e) == file[f].ref > 0 /\ file[f].pipe = c /\ End(file[f].writable) = e
Closing(p, c, e) == call[p].op = "close" /\ call[p].pipe = c /\ End(call[p].n = 1) = e

\* An entry counts its descriptors.
CountInv ==
    /\ ~panic
    /\ \A f \in Files : /\ file[f].ref = Cardinality(Refs[f])
                        /\ file[f].ref > 0 => file[f].type = "PIPE" /\ file[f].pipe \in Pages

\* One entry of ftable, or one process in pipeclose, for each end that is open.
EndInv == \A c \in Pages, e \in Ends :
    /\ \A f, g \in Files : Opens(f, c, e) /\ Opens(g, c, e) => f = g
    /\ \A p, q \in Procs : Closing(p, c, e) /\ Closing(q, c, e) => p = q
    /\ \A f \in Files, p \in Procs : ~(Opens(f, c, e) /\ Closing(p, c, e))
    /\ IsOpen(c, e) <=> (\E f \in Files : Opens(f, c, e)) \/ (\E p \in Procs : Closing(p, c, e))

\* A page is a pipe's while an end is open, and has room for what is in it.
PageInv == \A c \in Pages :
    /\ pipe[c].live <=> IsOpen(c, "read") \/ IsOpen(c, "write")
    /\ ~pipe[c].live => pipe[c] = FreePage
    /\ Filled(c) <= PIPESIZE

\* A process that reads or writes has the end it uses; one that there is not has nothing.
InCall == {p \in Procs : call[p].op \in Ends}
CallInv == \A p \in Procs :
    /\ p \notin alive => call[p].op = "user" /\ \A d \in Fds : ofile[p][d] = None
    /\ p \in InCall => \E d \in Fds : /\ ofile[p][d] \in Files
                                      /\ Opens(ofile[p][d], call[p].pipe, call[p].op)
    /\ call[p].op = "write" => call[p].i < call[p].n
    /\ call[p].op = "close" => call[p].pipe \in Pages

\* A process in sleep is in the call whose condition was false; until it is SLEEPING the lock of
\* the pipe is its own.
Chan(p) == <<IF call[p].op = "read" THEN "nread" ELSE "nwrite", call[p].pipe>>
NapInv ==
    /\ \A p \in Procs :
         \/ nap[p] = Awake
         \/ p \in InCall /\ nap[p] \in [stage : {"falls", "sleeps"}, chan : {Chan(p)}, lk : {call[p].pipe}]
    /\ nap = [p \in Procs |-> nap[p]]
    /\ \A c \in Pages, p \in Procs : spin[c] = p <=> nap[p].stage = "falls" /\ nap[p].lk = c

\* The reason to sleep, from the section that finds it on.
ReasonInv == \A p \in Procs : nap[p] # Awake =>
    LET c == call[p].pipe IN
    IF call[p].op = "read" THEN pipe[c].writeopen /\ (Empty(c) \/ pipe[c].silent)
                           ELSE Filled(c) = PIPESIZE /\ pipe[c].readopen

IndInv == TypeOK /\ CountInv /\ EndInv /\ PageInv /\ CallInv /\ NapInv /\ ReasonInv
=============================================================================
