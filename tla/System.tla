------------------------------- MODULE System -------------------------------
(***************************************************************************)
(* The system calls as programs see them: processes with descriptors, a    *)
(* current directory and memory, over the file system of FileSystem and    *)
(* the pipes of Channel.  A call is one step, or waits, except that a long *)
(* write is several; what interleaves inside a call is the matter of Proc, *)
(* Pipe, Buffers, Log, Inodes and Memory.  Each process runs a program, a  *)
(* sequence of calls with the results its author expects.                  *)
(***************************************************************************)
EXTENDS FileSystem, Adoption

CONSTANTS NPROC, NOFILE, NFILE,
          MaxWrite,     \* cells that filewrite puts in one transaction
          PIPESIZE, Pipes,
          Pages,        \* pages of memory, of which a process takes KernelPages,
          KernelPages,  \* the pages of its image and those it asks for, up to
          MaxPages,
          MaxArgument,  \* arguments that exec accepts
          Images,       \* the programs, by the first cell of their file, and the pages of each
          Program(_, _),\* what such a program does with its arguments
          Files,        \* what mkfs puts in the root directory
          Startups      \* programs that init may run

VARIABLES fs, file, pipe, proc,
          failed        \* some call has not given what its program expects

vars == <<fs, file, pipe, proc, failed>>
Procs == 1..NPROC
init == 1
Fds == 0..NOFILE - 1

NoFile == [ref |-> 0, type |-> "none", readable |-> FALSE, writable |-> FALSE, pipe |-> 0, ip |-> 0, off |-> 0]
NoPipe == [data |-> <<>>, readopen |-> FALSE, writeopen |-> FALSE]
NoProc == [state |-> "unused", parent |-> 0, killed |-> FALSE, deaf |-> FALSE, cwd |-> 0, sz |-> 0,
           ofile |-> [d \in Fds |-> 0], prog |-> <<>>, env |-> <<>>, got |-> <<>>, done |-> 0]

-----------------------------------------------------------------------------
(* Programs.  A call has arguments a, a variable for its result, and the   *)
(* results expected; body runs after a result above zero, again and again  *)
(* if so, and fails, if it is not empty, instead of all that follows a     *)
(* result below zero.  The argument of fork is the program of the child.   *)

Call(op, a, to, want) == [op |-> op, a |-> a, to |-> to, want |-> want, body |-> <<>>, again |-> FALSE, fails |-> <<>>]
If(call, body) == [call EXCEPT !.body = body]
OrElse(call, fails) == [call EXCEPT !.fails = fails]
While(call, body) == [call EXCEPT !.body = body, !.again = TRUE]
Exit == Call("exit", <<>>, "", <<>>)

Standard == [stdin |-> 0, stdout |-> 1, stderr |-> 2]

\* What is expected of a result is an interval.
Fits(v, want) == want[1] <= v /\ v <= want[2]

Runs(p) == proc[p].state = "runs" /\ ~proc[p].killed /\ ~fs.panic
Here(p, op) == Runs(p) /\ proc[p].prog # <<>> /\ proc[p].prog[1].op = op
Arg(p, i) == proc[p].prog[1].a[i]

\* A variable of p; the descriptors 0, 1 and 2 have names; whether the last cell read is an entry.
Var(p, x) ==
    LET env == proc[p].env got == proc[p].got IN
    CASE x \in DOMAIN env -> env[x]
      [] x \in DOMAIN Standard -> Standard[x]
      [] x = "found" -> IF got # <<>> /\ Last(got) # <<>> THEN 1 ELSE 0
      [] OTHER -> -1

Bound(env, x, v) == [y \in DOMAIN env \cup {x} |-> IF y = x THEN v ELSE env[y]]

\* The process after its call has returned v.
After(rec, v) ==
    LET c == rec.prog[1] IN
    [rec EXCEPT !.env = IF c.to = "" THEN @ ELSE Bound(@, c.to, v), !.done = 0,
                !.prog = IF ~Fits(v, c.want) THEN <<Exit>>
                         ELSE IF v < 0 /\ c.fails # <<>> THEN c.fails
                         ELSE IF v <= 0 THEN Tail(@) ELSE c.body \o (IF c.again THEN @ ELSE Tail(@))]

\* p, which is now rec, gets v.
Returns(p, rec, v) ==
    /\ proc' = [proc EXCEPT ![p] = After(rec, v)]
    /\ failed' = (failed \/ ~Fits(v, proc[p].prog[1].want))
-----------------------------------------------------------------------------
(* Files and descriptors: file.c, pipe.c, sysfile.c. *)

Kernel == [fs |-> fs, file |-> file, pipe |-> pipe]
Becomes(x) == fs' = x.fs /\ file' = x.file /\ pipe' = x.pipe

\* Pages that no process, alive or zombie, and no pipe has.
FreePages == Pages - Cardinality({q \in Pipes : pipe[q] # NoPipe})
                   - MapThenSumSet(LAMBDA p : IF proc[p].state = "unused" THEN 0 ELSE KernelPages + proc[p].sz, Procs)

FreeFds(rec) == {d \in Fds : rec.ofile[d] = 0}
FreeFiles == {f \in 1..NFILE : file[f].ref = 0}

\* Entry 0 is no file.
entry(f) == IF f = 0 THEN NoFile ELSE file[f]

\* argfd: 0 if the variable x of p does not hold a descriptor that is open.
argfd(p, x) == IF Var(p, x) \in Fds THEN proc[p].ofile[Var(p, x)] ELSE 0

\* A slip drops the inode when a duplicate is closed.
filecloseEarly(x, f) ==
    LET e == x.file[f] IN
    IF e.ref > 1 THEN [x EXCEPT !.file[f].ref = @ - 1, !.fs = IF e.ip = 0 THEN @ ELSE iput(@, e.ip)]
    ELSE [x EXCEPT !.file[f] = NoFile, !.fs = IF e.ip = 0 THEN @ ELSE iput(@, e.ip)]

fileclose(x, f) ==
    LET e == x.file[f]
        c == [x EXCEPT !.file[f] = NoFile] IN
    IF e.ref > 1 THEN [x EXCEPT !.file[f].ref = @ - 1]
    ELSE IF e.type = "inode" THEN [c EXCEPT !.fs = iput(@, e.ip)]
    ELSE IF e.writable THEN [c EXCEPT !.pipe[e.pipe].writeopen = FALSE, !.pipe[e.pipe].data = IF x.pipe[e.pipe].readopen THEN @ ELSE <<>>]
    ELSE [c EXCEPT !.pipe[e.pipe].readopen = FALSE, !.pipe[e.pipe].data = IF x.pipe[e.pipe].writeopen THEN @ ELSE <<>>]

\* A path, whose last name may be that of the entry last read.
Path(p) ==
    LET path == Arg(p, 1) IN
    IF path # <<>> /\ Last(path) = "*" THEN Front(path) \o <<Last(proc[p].got)[1]>> ELSE path

\* What is left of open when it has locked inode ip: a directory is opened only to read.
Opens(p, locked, ip, mode) ==
    LET rec == proc[p]
        refuses == "create" \notin mode /\ locked.inode[ip].type = "dir" /\ mode # {}
        f == Min(FreeFiles)
        d == Min(FreeFds(rec)) IN
    \/ /\ refuses \/ FreeFiles = {} \/ FreeFds(rec) = {}
       /\ fs' = iput(locked, ip) /\ Returns(p, rec, -1) /\ UNCHANGED file
    \/ /\ ~refuses /\ FreeFiles # {} /\ FreeFds(rec) # {}
       /\ fs' = locked
       /\ file' = [file EXCEPT ![f] = [ref |-> 1, type |-> "inode", readable |-> "wronly" \notin mode,
              writable |-> mode \cap {"wronly", "rdwr"} # {}, pipe |-> 0, ip |-> ip, off |-> 0]]
       /\ Returns(p, [rec EXCEPT !.ofile[d] = f], d)

OpensWhat(p, x, mode) ==
    \/ x[2] = 0 /\ fs' = x[1] /\ Returns(p, proc[p], -1) /\ UNCHANGED file
    \/ x[2] # 0 /\ Opens(p, ilock(x[1], x[2]), x[2], mode)

sys_open(p) ==
    /\ Here(p, "open")
    /\ UNCHANGED pipe
    /\ OpensWhat(p, IF "create" \in Arg(p, 2) THEN create(fs, proc[p].cwd, Path(p), "file", 0)
                    ELSE namei(fs, proc[p].cwd, Path(p)), Arg(p, 2))

sys_close(p) ==
    LET f == argfd(p, Arg(p, 1)) IN
    /\ Here(p, "close")
    /\ IF f = 0 THEN Returns(p, proc[p], -1) /\ UNCHANGED <<fs, file, pipe>>
       ELSE Becomes(fileclose(Kernel, f)) /\ Returns(p, [proc[p] EXCEPT !.ofile[Var(p, Arg(p, 1))] = 0], 0)

sys_dup(p) ==
    LET f == argfd(p, Arg(p, 1))
        free == FreeFds(proc[p]) IN
    /\ Here(p, "dup")
    /\ UNCHANGED <<fs, pipe>>
    /\ IF f = 0 \/ free = {} THEN Returns(p, proc[p], -1) /\ UNCHANGED file
       ELSE file' = [file EXCEPT ![f].ref = @ + 1] /\ Returns(p, [proc[p] EXCEPT !.ofile[Min(free)] = f], Min(free))

sys_fstat(p) ==
    LET f == argfd(p, Arg(p, 1)) IN
    /\ Here(p, "fstat")
    /\ IF entry(f).type = "inode"
       THEN /\ fs' = ilock(fs, file[f].ip)
            /\ Returns(p, [proc[p] EXCEPT !.env = Bound(@, "isdir", IF fs'.inode[file[f].ip].type = "dir" THEN 1 ELSE 0)], 0)
       ELSE Returns(p, proc[p], -1) /\ UNCHANGED fs
    /\ UNCHANGED <<file, pipe>>

\* What is read is appended to got.  A pipe that is empty is read when it has no writer.
sys_read(p) ==
    LET f == argfd(p, Arg(p, 1))
        n == Arg(p, 2)
        r == readi(ilock(fs, file[f].ip), file[f].ip, file[f].off, n)
        q == file[f].pipe
        m == Min({n, Len(pipe[q].data)}) IN
    /\ Here(p, "read")
    /\ \/ /\ ~entry(f).readable \/ n < 0
          /\ Returns(p, proc[p], -1) /\ UNCHANGED <<fs, file, pipe>>
       \/ /\ n >= 0 /\ entry(f).readable /\ file[f].type = "inode"
          /\ fs' = r.fs /\ file' = [file EXCEPT ![f].off = IF r.n > 0 THEN @ + r.n ELSE @] /\ UNCHANGED pipe
          /\ Returns(p, [proc[p] EXCEPT !.got = @ \o r.cells], r.n)
       \/ /\ n >= 0 /\ entry(f).readable /\ file[f].type = "pipe"
          /\ pipe[q].data # <<>> \/ ~pipe[q].writeopen
          /\ pipe' = [pipe EXCEPT ![q].data = SubSeq(@, m + 1, Len(@))] /\ UNCHANGED <<fs, file>>
          /\ Returns(p, [proc[p] EXCEPT !.got = @ \o SubSeq(pipe[q].data, 1, m)], m)

\* The cells to write: those given, or those that have been read.
Data(p) == IF Len(proc[p].prog[1].a) = 1 THEN proc[p].got ELSE Arg(p, 2)
Emptied(p, rec) == IF Len(proc[p].prog[1].a) = 1 THEN [rec EXCEPT !.got = <<>>] ELSE rec

\* p has put n of the cells; the call returns after the last of them.
Puts(p, n) ==
    LET rec == [proc[p] EXCEPT !.done = @ + n] IN
    IF rec.done = Len(Data(p)) THEN Returns(p, Emptied(p, rec), rec.done)
    ELSE proc' = [proc EXCEPT ![p] = rec] /\ UNCHANGED failed

\* A file is written MaxWrite cells at a time, a pipe as it has room.  Between two pieces
\* other processes go on.
sys_write(p) ==
    LET f == argfd(p, Arg(p, 1))
        rest == SubSeq(Data(p), proc[p].done + 1, Len(Data(p)))
        piece == SubSeq(rest, 1, Min({MaxWrite, Len(rest)}))
        w == writei(ilock(fs, file[f].ip), file[f].ip, file[f].off, piece)
        q == file[f].pipe
        m == Min({Len(rest), PIPESIZE - Len(pipe[q].data)}) IN
    /\ Here(p, "write")
    /\ \/ /\ ~entry(f).writable
          /\ Returns(p, proc[p], -1) /\ UNCHANGED <<fs, file, pipe>>
       \/ /\ entry(f).writable /\ file[f].type = "inode"
          /\ fs' = w[1] /\ file' = [file EXCEPT ![f].off = IF w[2] > 0 THEN @ + w[2] ELSE @] /\ UNCHANGED pipe
          /\ IF w[2] < 0 THEN Returns(p, proc[p], -1) ELSE Puts(p, w[2])
       \/ /\ entry(f).writable /\ file[f].type = "pipe"
          /\ UNCHANGED <<fs, file>>
          /\ \/ ~pipe[q].readopen /\ m = 0 /\ rest # <<>> /\ Returns(p, proc[p], -1) /\ UNCHANGED pipe
             \/ (m > 0 \/ rest = <<>>) /\ Puts(p, m) /\ pipe' = [pipe EXCEPT ![q].data = @ \o SubSeq(rest, 1, m)]

\* Two files and a page for the pipe, then two descriptors; what is missing, and the rest goes back.
sys_pipe(p) ==
    LET rec == proc[p]
        ends == {f \in 1..NFILE : f \in FreeFiles /\ Cardinality({g \in FreeFiles : g < f}) < 2}
        r == Min(ends) w == Max(ends)
        q == Min({i \in Pipes : pipe[i] = NoPipe})
        d == Min(FreeFds(rec)) e == Min(FreeFds(rec) \ {d})
        end == [NoFile EXCEPT !.ref = 1, !.type = "pipe", !.pipe = q] IN
    /\ Here(p, "pipe")
    /\ UNCHANGED fs
    /\ IF Cardinality(ends) < 2 \/ FreePages < 1 \/ Cardinality(FreeFds(rec)) < 2
       THEN Returns(p, rec, -1) /\ UNCHANGED <<file, pipe>>
       ELSE /\ pipe' = [pipe EXCEPT ![q] = [data |-> <<>>, readopen |-> TRUE, writeopen |-> TRUE]]
            /\ file' = [file EXCEPT ![r] = [end EXCEPT !.readable = TRUE], ![w] = [end EXCEPT !.writable = TRUE]]
            /\ Returns(p, [rec EXCEPT !.ofile[d] = r, !.ofile[e] = w,
                                      !.env = Bound(Bound(@, Arg(p, 1), d), Arg(p, 2), e)], 0)

\* The calls on names.  A path may lie outside the memory of p: argstr.
BadPath == <<"(bad)">>

OnNames(p, op, paths, x) ==
    /\ Here(p, op)
    /\ IF BadPath \in paths
       THEN Returns(p, proc[p], -1) /\ UNCHANGED fs
       ELSE fs' = x[1] /\ Returns(p, proc[p], x[2])
    /\ UNCHANGED <<file, pipe>>

Created(x) == IF x[2] = 0 THEN <<x[1], -1>> ELSE <<iput(x[1], x[2]), 0>>
sys_link(p) == OnNames(p, "link", {Arg(p, 1), Arg(p, 2)}, link(fs, proc[p].cwd, Arg(p, 1), Arg(p, 2)))
sys_unlink(p) == OnNames(p, "unlink", {Arg(p, 1)}, unlink(fs, proc[p].cwd, Arg(p, 1)))
sys_mkdir(p) == OnNames(p, "mkdir", {Arg(p, 1)}, Created(create(fs, proc[p].cwd, Arg(p, 1), "dir", 0)))
sys_mknod(p) == OnNames(p, "mknod", {Arg(p, 1)}, Created(create(fs, proc[p].cwd, Arg(p, 1), "dev", Arg(p, 2))))

sys_chdir(p) ==
    LET x == namei(fs, proc[p].cwd, Arg(p, 1))
        ip == x[2]
        locked == ilock(x[1], ip) IN
    /\ Here(p, "chdir")
    /\ UNCHANGED <<file, pipe>>
    /\ \/ ip = 0 /\ fs' = x[1] /\ Returns(p, proc[p], -1)
       \/ ip # 0 /\ locked.inode[ip].type # "dir" /\ fs' = iput(locked, ip) /\ Returns(p, proc[p], -1)
       \/ /\ ip # 0 /\ locked.inode[ip].type = "dir"
          /\ fs' = iput(locked, proc[p].cwd) /\ Returns(p, [proc[p] EXCEPT !.cwd = ip], 0)
-----------------------------------------------------------------------------
(* Processes: proc.c, sysproc.c, exec.c. *)

Children(p) == {q \in Procs : proc[q].parent = p}

sys_fork(p) ==
    LET rec == proc[p]
        free == {q \in Procs : proc[q].state = "unused"}
        q == Min(free)
        opens == [f \in 1..NFILE |-> Cardinality({d \in Fds : rec.ofile[d] = f})]
        child == [rec EXCEPT !.parent = p, !.prog = Arg(p, 1), !.env = Bound(@, rec.prog[1].to, 0),
                             !.got = <<>>, !.done = 0] IN
    /\ Here(p, "fork")
    /\ UNCHANGED pipe
    /\ IF free = {} \/ FreePages < KernelPages + rec.sz
       THEN Returns(p, rec, -1) /\ UNCHANGED <<fs, file>>
       ELSE /\ file' = [f \in 1..NFILE |-> [file[f] EXCEPT !.ref = @ + opens[f]]]
            /\ fs' = idup(fs, rec.cwd)
            /\ proc' = [proc EXCEPT ![p] = After(rec, q), ![q] = child]
            /\ failed' = (failed \/ ~Fits(q, rec.prog[1].want))

\* A slip keeps the directory of a process that ends.
ClosedButDirectory(p) ==
    FoldLeft(LAMBDA k, d : IF proc[p].ofile[d] = 0 THEN k ELSE fileclose(k, proc[p].ofile[d]),
             Kernel, [i \in 1..NOFILE |-> i - 1])

\* Everything p has open is closed, in order, and its directory put.
Closed(p) ==
    LET x == FoldLeft(LAMBDA k, d : IF proc[p].ofile[d] = 0 THEN k ELSE fileclose(k, proc[p].ofile[d]),
                      Kernel, [i \in 1..NOFILE |-> i - 1]) IN
    [x EXCEPT !.fs = iput(@, proc[p].cwd)]

\* A process in wait that has no zombie may sleep already: it sleeps on when it is given one and
\* is not woken.
MayStayAsleep(r, parent, wakes) ==
    /\ Here(r, "wait") /\ r \notin wakes
    /\ Children(r) # {} /\ \A q \in Children(r) : proc[q].state # "zombie"
    /\ \E q \in Procs : proc[q].state = "zombie" /\ parent[q] = r

\* exit: by a call, at the end of a program, by a fault, or because p was killed.  A process with
\* children kills itself, so that the loop over them passes it by.  The parent of p wakes, and init
\* if there is a zombie among the children, whoever gets it.
exit(p) ==
    LET killed == [q \in Procs |-> proc[q].killed \/ (q = p /\ Children(p) # {})]
        wakes == {proc[p].parent} \cup (IF \E q \in Children(p) : proc[q].state = "zombie" THEN {init} ELSE {}) IN
    /\ proc[p].state = "runs" /\ p # init /\ ~fs.panic
    /\ proc[p].killed \/ proc[p].prog = <<>> \/ proc[p].prog[1].op \in {"exit", "fault"}
    /\ Becomes(Closed(p))
    /\ \E parent \in Adoptions(p, init, [q \in Procs |-> proc[q].parent], killed) :
       \E deaf \in SUBSET {r \in Procs : MayStayAsleep(r, parent, wakes)} :
         proc' = [q \in Procs |->
           IF q = p THEN [NoProc EXCEPT !.state = "zombie", !.parent = parent[p], !.killed = killed[p], !.sz = proc[p].sz]
           ELSE [proc[q] EXCEPT !.parent = parent[q], !.deaf = (@ /\ q \notin wakes) \/ q \in deaf]]
    /\ UNCHANGED failed

\* The first zombie among the children, in the order of the table.
sys_wait(p) ==
    LET zombies == {q \in Children(p) : proc[q].state = "zombie"}
        q == Min(zombies) IN
    /\ Here(p, "wait") /\ ~proc[p].deaf
    /\ UNCHANGED <<fs, file, pipe>>
    /\ \/ Children(p) = {} /\ Returns(p, proc[p], -1)
       \/ /\ zombies # {}
          /\ proc' = [proc EXCEPT ![p] = After(@, q), ![q] = NoProc]
          /\ failed' = (failed \/ ~Fits(q, proc[p].prog[1].want))

\* kill of process n, or of the one that variable x names.
sys_kill(p) ==
    LET q == Var(p, Arg(p, 1)) IN
    /\ Here(p, "kill")
    /\ UNCHANGED <<fs, file, pipe>>
    /\ IF q \notin Procs \/ proc[q].state = "unused" THEN Returns(p, proc[p], -1)
       ELSE /\ proc' = [proc EXCEPT ![p] = After(@, 0), ![q].killed = TRUE]
            /\ failed' = (failed \/ ~Fits(0, proc[p].prog[1].want))

\* sbrk of n pages gives the old size.
sys_sbrk(p) ==
    LET n == Arg(p, 1)
        sz == proc[p].sz IN
    /\ Here(p, "sbrk")
    /\ UNCHANGED <<fs, file, pipe>>
    /\ IF n <= FreePages /\ sz + n \in 1..MaxPages THEN Returns(p, [proc[p] EXCEPT !.sz = @ + n], sz)
       ELSE Returns(p, proc[p], -1)

\* The program is looked up and its first cell read, which gave r; the new image is built beside
\* the old one.
Executes(p, r, ip) ==
    LET pages == Images[r.cells[1]]
        fits == r.n = 1 /\ r.cells[1] \in DOMAIN Images /\ FreePages >= KernelPages + pages /\ Len(Arg(p, 2)) <= MaxArgument IN
    /\ fs' = iput(r.fs, ip)
    /\ \/ ~fits /\ Returns(p, proc[p], -1)
       \/ /\ fits
          /\ proc' = [proc EXCEPT ![p].prog = Program(r.cells[1], Arg(p, 2)), ![p].sz = pages,
                                    ![p].env = <<>>, ![p].got = <<>>]
          /\ UNCHANGED failed

ExecutesWhat(p, x) ==
    \/ x[2] = 0 /\ fs' = x[1] /\ Returns(p, proc[p], -1)
    \/ x[2] # 0 /\ Executes(p, readi(ilock(x[1], x[2]), x[2], 0, 1), x[2])

sys_exec(p) ==
    /\ Here(p, "exec")
    /\ UNCHANGED <<file, pipe>>
    /\ ExecutesWhat(p, namei(fs, proc[p].cwd, Arg(p, 1)))

\* Calls that only give a value, and sleep, which ends some time.
sys_getpid(p) == Here(p, "getpid") /\ Returns(p, proc[p], p) /\ UNCHANGED <<fs, file, pipe>>
sys_getppid(p) ==
    /\ Here(p, "getppid")
    /\ \E pid \in IF proc[p].parent \in Procs THEN {proc[p].parent} ELSE {-1, 0} : Returns(p, proc[p], pid)
    /\ UNCHANGED <<fs, file, pipe>>
sys_numvp(p) == Here(p, "numvp") /\ Returns(p, proc[p], proc[p].sz) /\ UNCHANGED <<fs, file, pipe>>
sys_sleep(p) == Here(p, "sleep") /\ Returns(p, proc[p], 0) /\ UNCHANGED <<fs, file, pipe>>

\* What a program does itself: it computes with a variable, compares what it has read, or goes
\* one of several ways.
computes(p) ==
    /\ Here(p, "value")
    /\ Returns(p, proc[p], Var(p, Arg(p, 1)) + Arg(p, 2))
    /\ UNCHANGED <<fs, file, pipe>>

\* got is the cells asked for, has n of one cell, or has each name of a set once.
Holds(got, test) ==
    CASE test.kind = "is" -> got = test.cells
      [] test.kind = "count" -> Cardinality({k \in DOMAIN got : got[k] = test.cell}) = test.n
      [] test.kind = "names" -> \A x \in test.names : Cardinality({k \in DOMAIN got : got[k] # <<>> /\ got[k][1] = x}) = 1

compares(p) ==
    /\ Here(p, "compare")
    /\ LET same == Holds(proc[p].got, Arg(p, 1)) IN
       /\ proc' = [proc EXCEPT ![p].got = IF Arg(p, 2) THEN @ ELSE <<>>, ![p].prog = IF same THEN Tail(@) ELSE <<Exit>>]
       /\ failed' = (failed \/ ~same)
    /\ UNCHANGED <<fs, file, pipe>>

chooses(p) ==
    /\ Here(p, "choose")
    /\ \E way \in Arg(p, 1) : proc' = [proc EXCEPT ![p].prog = way \o Tail(@)]
    /\ UNCHANGED <<fs, file, pipe, failed>>

Steps(p) ==
    \/ sys_open(p) \/ sys_close(p) \/ sys_dup(p) \/ sys_fstat(p) \/ sys_read(p) \/ sys_write(p) \/ sys_pipe(p)
    \/ sys_link(p) \/ sys_unlink(p) \/ sys_mkdir(p) \/ sys_mknod(p) \/ sys_chdir(p)
    \/ sys_fork(p) \/ exit(p) \/ sys_wait(p) \/ sys_kill(p) \/ sys_sbrk(p) \/ sys_exec(p)
    \/ sys_getpid(p) \/ sys_getppid(p) \/ sys_numvp(p) \/ sys_sleep(p) \/ computes(p) \/ compares(p) \/ chooses(p)

\* init has run out of program: it has waited for the last of its children, and nobody runs.
Done == proc[init].prog = <<>> /\ \A p \in Procs : proc[p].state = "runs" => p = init
Ends == Done /\ UNCHANGED vars

Init ==
    /\ fs = idup(mkfs(Files), ROOTINO)
    /\ file = [f \in 1..NFILE |-> NoFile] /\ pipe = [q \in Pipes |-> NoPipe]
    /\ \E start \in Startups :
        proc = [p \in Procs |-> IF p # init THEN NoProc
                                ELSE [NoProc EXCEPT !.state = "runs", !.cwd = ROOTINO, !.sz = 1, !.prog = start]]
    /\ failed = FALSE

Next == (\E p \in Procs : Steps(p)) \/ Ends
Spec == Init /\ [][Next]_vars
-----------------------------------------------------------------------------
\* Every call of every program gives what its author tests for: usertests.c and the others.
AsExpected == ~failed

\* No program reaches a panic of fs.c.
NoPanic == ~fs.panic

\* No reference is lost or left over, whichever way a call ended: an inode is referenced by the
\* files and processes that use it, a file by the descriptors that do, a pipe is open at an end as
\* long as there is a file for it.
ReferencesCounted ==
    /\ \A i \in Inums : fs.ref[i] = Cardinality({f \in 1..NFILE : file[f].type = "inode" /\ file[f].ip = i})
                                    + Cardinality({p \in Procs : proc[p].cwd = i})
    /\ \A f \in 1..NFILE : file[f].ref = Cardinality({<<p, d>> \in Procs \X Fds : proc[p].ofile[d] = f})
    /\ \A q \in Pipes : /\ pipe[q].readopen = (\E f \in 1..NFILE : file[f].pipe = q /\ file[f].readable)
                        /\ pipe[q].writeopen = (\E f \in 1..NFILE : file[f].pipe = q /\ file[f].writable)

\* The disk is in order between any two calls, so after a crash as well, which the log takes back
\* to such a moment; an inode without names is then left to those that use it.
DiskConsistent == Consistent(OnDisk(fs), {i \in Inums : fs.ref[i] > 0})

\* An inode in the cache that has been read is the one on the disk.
WriteThrough == \A i \in fs.valid : fs.ref[i] > 0 => fs.inode[i] = fs.disk[i]

\* When init has waited for the last of its children and nobody runs, all that programs used is
\* back, pages, files, pipes and references to inodes, but for the pages of zombies whose parent is
\* no process, which the loop of exit leaves.  That it always gets there is the absence of deadlock.
Lost == {p \in Procs \ {init} : proc[p].state = "zombie" /\ proc[p].parent = Wild}
AllReturned ==
    Done =>
        /\ \A p \in Procs \ {init} : proc[p].state = "unused" \/ p \in Lost
        /\ FreePages = Pages - KernelPages - proc[init].sz - MapThenSumSet(LAMBDA p : KernelPages + proc[p].sz, Lost)
        /\ {f \in 1..NFILE : file[f].ref > 0} \subseteq {proc[init].ofile[d] : d \in Fds}
        /\ {i \in Inums : fs.ref[i] > 0} \subseteq {ROOTINO} \cup {file[f].ip : f \in 1..NFILE}
        /\ \A i \in Allocated(OnDisk(fs)) : fs.disk[i].nlink > 0
=============================================================================
