--------------------------------- MODULE Proc ---------------------------------
(***************************************************************************)
(* The process table (proc.c): fork, exit, wait, sleep, wakeup, kill, the  *)
(* per-CPU scheduler and the places of trap.c that decide when a process   *)
(* yields or exits.  The kernel is the one of week3/findingPPID, in which  *)
(* exit hands its children to init; ProcAdopt adds what the later weeks    *)
(* changed.                                                                *)
(*                                                                         *)
(* A critical section of ptable.lock is one action (SpinLock shows that    *)
(* such sections exclude each other and take no interrupts), except that a *)
(* process that gives up its CPU leaves the lock to the CPU's scheduler,   *)
(* which passes it on to the process it runs next: ptlock is that holder.  *)
(* Writes the code makes without the lock are actions that do not need it. *)
(***************************************************************************)
EXTENDS Integers, FiniteSets

CONSTANTS
  CPUs,    \* the processors
  NPROC,   \* number of slots of the process table
  Chans,   \* wait channels other than processes: pipes, buffers, &ticks, ...
  MaxPid,  \* bound: pids stay below it, so that nextpid does not grow for ever
  NoCpu    \* no CPU

Slots == 0 .. NPROC - 1
Null == -1           \* the null pointer
initproc == 0        \* userinit takes the first slot

\* A process waits for its children on the address of its own slot; every other
\* channel is some other address.
ASSUME ProcAssumption ==
  /\ NPROC \in Nat \ {0}
  /\ MaxPid \in Nat \ {0}
  /\ Chans \subseteq Nat
  /\ Chans \cap Slots = {}
  /\ NoCpu \notin CPUs

VARIABLES
  state,    \* p->state
  pid,      \* p->pid
  parent,   \* p->parent
  chan,     \* p->chan
  killed,   \* p->killed
  kpc,      \* what the process's kernel stack will do next
  np,       \* the local np of fork
  nextpid,  \* nextpid
  cpuproc,  \* cpu->proc
  scan,     \* the p of each scheduler loop
  ptlock    \* the CPU that keeps ptable.lock across a context switch

table == <<state, pid, parent, chan, killed, nextpid>>
vars == <<table, kpc, np, cpuproc, scan, ptlock>>

States == {"UNUSED", "EMBRYO", "SLEEPING", "RUNNABLE", "RUNNING", "ZOMBIE"}

\* "user": in user mode, or about to return to it; "kernel": in a system call;
\* "fork1", "fork2": in fork, before and after it copies the parent;
\* "exit", "wait1": in exit, wait before they acquire ptable.lock;
\* "wait", "sleep": asleep there; "forkret": never run; "gone": past its last instruction.
Places == {"user", "kernel", "fork1", "fork2", "exit", "wait1", "wait",
          "sleep", "forkret", "gone"}

TableOK ==
  /\ state \in [Slots -> States]
  /\ pid \in [Slots -> 0 .. MaxPid]
  /\ chan \in [Slots -> Slots \cup Chans \cup {Null}]
  /\ killed \in [Slots -> BOOLEAN]
  /\ nextpid \in 1 .. MaxPid + 1

PlacesOK ==
  /\ kpc \in [Slots -> Places]
  /\ np \in [Slots -> Slots \cup {Null}]
  /\ cpuproc \in [CPUs -> Slots \cup {Null}]
  /\ scan \in [CPUs -> 0 .. NPROC]
  /\ ptlock \in CPUs \cup {NoCpu}

TypeOK == TableOK /\ PlacesOK /\ parent \in [Slots -> Slots \cup {Null}]

\* main() zeroes the table and calls userinit; then the schedulers start.
userinit ==
  /\ state = [p \in Slots |-> IF p = initproc THEN "RUNNABLE" ELSE "UNUSED"]
  /\ pid = [p \in Slots |-> IF p = initproc THEN 1 ELSE 0]
  /\ kpc = [p \in Slots |-> IF p = initproc THEN "forkret" ELSE "gone"]
  /\ nextpid = 2

Init ==
  /\ userinit
  /\ parent = [p \in Slots |-> Null]
  /\ chan = [p \in Slots |-> Null]
  /\ killed = [p \in Slots |-> FALSE]
  /\ np = [p \in Slots |-> Null]
  /\ cpuproc = [c \in CPUs |-> Null]
  /\ scan = [c \in CPUs |-> 0]
  /\ ptlock = NoCpu

-----------------------------------------------------------------------------
(* Helpers *)

\* The process p runs on CPU c and has reached a place in S.
At(c, p, S) == cpuproc[c] = p /\ kpc[p] \in S

\* acquire(&ptable.lock) succeeds.
LockFree == ptlock = NoCpu

Move(p, place) == kpc' = [kpc EXCEPT ![p] = place]

\* Fault of the scheduler: c->proc is not reset when a process comes back.
schedKeepsProc(c) == ptlock' = c /\ UNCHANGED cpuproc

\* sched(): the process leaves the CPU and the scheduler of the CPU goes on,
\* with ptable.lock held.
sched(c) ==
  /\ cpuproc' = [cpuproc EXCEPT ![c] = Null]
  /\ ptlock' = c

\* wakeup1(ch) on the given states.
wakeup1(st, ch) ==
  [p \in Slots |-> IF st[p] = "SLEEPING" /\ chan[p] = ch THEN "RUNNABLE" ELSE st[p]]

\* The first slot of a nonempty set, in the order of the loops over the table.
First(S) == CHOOSE p \in S : \A q \in S : p <= q

Children(p) == {q \in Slots : parent[q] = p}
ZombieChildren(p) == {q \in Children(p) : state[q] = "ZOMBIE"}

-----------------------------------------------------------------------------
(* Entering and leaving the kernel *)

\* trap: a system call of a process that is not killed starts, ...
SyscallEnter(c, p) ==
  /\ At(c, p, {"user"})
  /\ ~killed[p]
  /\ Move(p, "kernel")
  /\ UNCHANGED <<table, np, cpuproc, scan, ptlock>>

\* ... one that leaves the process table alone is done ...
SyscallReturn(c, p) ==
  /\ At(c, p, {"kernel"})
  /\ Move(p, "user")
  /\ UNCHANGED <<table, np, cpuproc, scan, ptlock>>

\* ... and a killed process that enters or leaves user mode calls exit.
ExitKilled(c, p) ==
  /\ At(c, p, {"user"})
  /\ killed[p]
  /\ p # initproc
  /\ Move(p, "exit")
  /\ UNCHANGED <<table, np, cpuproc, scan, ptlock>>

\* User code that faults is killed by trap.
Fault(c, p) ==
  /\ At(c, p, {"user"})
  /\ p # initproc
  /\ killed' = [killed EXCEPT ![p] = TRUE]
  /\ UNCHANGED <<state, pid, parent, chan, nextpid, kpc, np, cpuproc, scan, ptlock>>

\* The exit system call; init does not make it (exit would panic).
sys_exit(c, p) ==
  /\ At(c, p, {"kernel"})
  /\ p # initproc
  /\ Move(p, "exit")
  /\ UNCHANGED <<table, np, cpuproc, scan, ptlock>>

\* The timer interrupt makes the RUNNING process yield wherever it holds no
\* lock; it goes on from there later.
yield(c, p) ==
  /\ At(c, p, {"user", "kernel", "fork1", "fork2", "exit", "wait1"})
  /\ LockFree
  /\ state[p] = "RUNNING"
  /\ state' = [state EXCEPT ![p] = "RUNNABLE"]
  /\ sched(c)
  /\ UNCHANGED <<pid, parent, chan, killed, nextpid, kpc, np, scan>>

-----------------------------------------------------------------------------
(* fork *)

\* p->pid = nextpid++, and its faults: ++nextpid, and no increment at all.
NewPidTooLate == nextpid + 1
NewPid == nextpid
SamePidAgain == nextpid
NextPid == nextpid + 1

Free == {s \in Slots : state[s] = "UNUSED"}

\* allocproc takes the first UNUSED slot ...
allocproc(c, p) ==
  /\ At(c, p, {"kernel"})
  /\ LockFree
  /\ nextpid <= MaxPid
  /\ \E s \in Free :
     /\ s = First(Free)
     /\ state' = [state EXCEPT ![s] = "EMBRYO"]
     /\ pid' = [pid EXCEPT ![s] = NewPid]
     /\ np' = [np EXCEPT ![p] = s]
     /\ kpc' = [kpc EXCEPT ![p] = "fork1", ![s] = "forkret"]
  /\ nextpid' = NextPid
  /\ UNCHANGED <<parent, chan, killed, cpuproc, scan, ptlock>>

\* ... kalloc or copyuvm may find no memory: the slot is given back, without
\* the lock and without clearing its pid or killed ...
ForkFails(c, p) ==
  /\ At(c, p, {"fork1"})
  /\ state' = [state EXCEPT ![np[p]] = "UNUSED"]
  /\ np' = [np EXCEPT ![p] = Null]
  /\ Move(p, "user")
  /\ UNCHANGED <<pid, parent, chan, killed, nextpid, cpuproc, scan, ptlock>>

\* ... or the address space is copied and the parent recorded ...
ForkCopies(c, p) ==
  /\ At(c, p, {"fork1"})
  /\ parent' = [parent EXCEPT ![np[p]] = p]
  /\ Move(p, "fork2")
  /\ UNCHANGED <<state, pid, chan, killed, nextpid, np, cpuproc, scan, ptlock>>

\* ... and the child may run.
ForkDone(c, p) ==
  /\ At(c, p, {"fork2"})
  /\ LockFree
  /\ state' = [state EXCEPT ![np[p]] = "RUNNABLE"]
  /\ np' = [np EXCEPT ![p] = Null]
  /\ Move(p, "user")
  /\ UNCHANGED <<pid, parent, chan, killed, nextpid, cpuproc, scan, ptlock>>

-----------------------------------------------------------------------------
(* exit and wait *)

\* exit wakes the parent, which may be in wait, and init if it gets a zombie; its
\* faults wake nobody, or not init.
WakesNobody(p) == state
WakesOnlyParent(p) == wakeup1(state, parent[p])
ExitWakes(p) ==
  LET woken == wakeup1(state, parent[p])
  IN  IF ZombieChildren(p) # {} THEN wakeup1(woken, initproc) ELSE woken

\* It passes its children to init; its fault forgets them.
KeepsChildren(p) == parent
Reparented(p) == [q \in Slots |-> IF parent[q] = p THEN initproc ELSE parent[q]]

\* It leaves the CPU for ever.  (Its files were closed before.)
Leave(c, p) ==
  /\ At(c, p, {"exit"})
  /\ LockFree
  /\ state' = [ExitWakes(p) EXCEPT ![p] = "ZOMBIE"]
  /\ Move(p, "gone")
  /\ sched(c)
  /\ UNCHANGED <<pid, chan, nextpid, np, scan>>

exit(c, p) ==
  /\ Leave(c, p)
  /\ parent' = Reparented(p)
  /\ UNCHANGED killed

\* The wait system call.
sys_wait(c, p) ==
  /\ At(c, p, {"kernel"})
  /\ Move(p, "wait1")
  /\ UNCHANGED <<table, np, cpuproc, scan, ptlock>>

\* wait's loop runs with the lock that it acquired, or that sleep returned with.
InWait(c, p) ==
  \/ At(c, p, {"wait1"}) /\ LockFree
  \/ At(c, p, {"wait"}) /\ ptlock = c

\* It frees the first zombie child ...
WaitReaps(c, p) ==
  /\ InWait(c, p)
  /\ \E z \in ZombieChildren(p) :
     /\ z = First(ZombieChildren(p))
     /\ state' = [state EXCEPT ![z] = "UNUSED"]
     /\ pid' = [pid EXCEPT ![z] = 0]
     /\ parent' = [parent EXCEPT ![z] = Null]
     /\ killed' = [killed EXCEPT ![z] = FALSE]
  /\ Move(p, "user")
  /\ ptlock' = NoCpu
  /\ UNCHANGED <<chan, nextpid, np, cpuproc, scan>>

\* ... or fails if there is nothing to wait for, or the process is killed ...
WaitFails(c, p) ==
  /\ InWait(c, p)
  /\ ZombieChildren(p) = {}
  /\ Children(p) = {} \/ killed[p]
  /\ Move(p, "user")
  /\ ptlock' = NoCpu
  /\ UNCHANGED <<table, np, cpuproc, scan>>

\* ... or sleeps on the process itself.
WaitSleeps(c, p) ==
  /\ InWait(c, p)
  /\ ZombieChildren(p) = {}
  /\ Children(p) # {} /\ ~killed[p]
  /\ chan' = [chan EXCEPT ![p] = p]
  /\ state' = [state EXCEPT ![p] = "SLEEPING"]
  /\ Move(p, "wait")
  /\ sched(c)
  /\ UNCHANGED <<pid, parent, killed, nextpid, np, scan>>

\* The loop goes on after a sleep.
WaitResumes(c, p) ==
  /\ ptlock = c
  /\ WaitReaps(c, p) \/ WaitFails(c, p) \/ WaitSleeps(c, p)

-----------------------------------------------------------------------------
(* sleep, wakeup, kill *)

\* sleep(ch, lk) with another lock lk, from anywhere in a system call.
sleep(c, p, ch) ==
  /\ At(c, p, {"kernel"})
  /\ LockFree
  /\ chan' = [chan EXCEPT ![p] = ch]
  /\ state' = [state EXCEPT ![p] = "SLEEPING"]
  /\ Move(p, "sleep")
  /\ sched(c)
  /\ UNCHANGED <<pid, parent, killed, nextpid, np, scan>>

\* wakeup(ch), by a process or an interrupt handler.
wakeup(ch) ==
  /\ LockFree
  /\ state' = wakeup1(state, ch)
  /\ UNCHANGED <<pid, parent, chan, killed, nextpid, kpc, np, cpuproc, scan, ptlock>>

\* The slots with pid n, whatever their state.
WithPid(n) == {q \in Slots : pid[q] = n}

\* kill wakes its victim; its fault would raise the dead.
KillWakesAll(q) == "RUNNABLE"
KillWakes(q) == IF state[q] = "SLEEPING" THEN "RUNNABLE" ELSE state[q]

\* kill(n) marks the first slot with pid n.  Nobody kills init (its exit panics).
kill(c, p, n) ==
  /\ At(c, p, {"kernel"})
  /\ LockFree
  /\ n # pid[initproc]
  /\ \E q \in WithPid(n) :
     /\ q = First(WithPid(n))
     /\ killed' = [killed EXCEPT ![q] = TRUE]
     /\ state' = [state EXCEPT ![q] = KillWakes(q)]
  /\ Move(p, "user")
  /\ UNCHANGED <<pid, parent, chan, nextpid, np, cpuproc, scan, ptlock>>

-----------------------------------------------------------------------------
(* The scheduler *)

\* The scheduler of c looks at the table, with the lock or after acquiring it.
InScheduler(c) == cpuproc[c] = Null /\ ptlock \in {c, NoCpu}

\* The processes of E that its loop has still to look at.
Ahead(c, E) == {q \in E : q >= scan[c]}

\* Afterwards the loop goes on with the next slot; its fault starts again.
ScanFromStart(q) == 0
ScanAfter(q) == q + 1

\* It runs the first one.  That process releases the lock (at the end of sleep,
\* of yield or in forkret), or goes round the loop of wait with it.
Dispatch(c, E, q) ==
  /\ InScheduler(c)
  /\ q \in Ahead(c, E)
  /\ q = First(Ahead(c, E))
  /\ cpuproc' = [cpuproc EXCEPT ![c] = q]
  /\ state' = [state EXCEPT ![q] = "RUNNING"]
  /\ scan' = [scan EXCEPT ![c] = ScanAfter(q)]
  /\ ptlock' = IF kpc[q] = "wait" THEN c ELSE NoCpu
  /\ chan' = IF kpc[q] \in {"wait", "sleep"} THEN [chan EXCEPT ![q] = Null] ELSE chan
  /\ kpc' = [kpc EXCEPT ![q] = CASE @ = "forkret" -> "user"
                                 [] @ = "sleep"   -> "kernel"
                                 [] OTHER         -> @]
  /\ UNCHANGED <<pid, parent, killed, nextpid, np>>

\* The loop reaches the end of the table, releases the lock and starts again.
PassEnds(c, E) ==
  /\ InScheduler(c)
  /\ Ahead(c, E) = {}
  /\ scan' = [scan EXCEPT ![c] = 0]
  /\ ptlock' = NoCpu
  /\ UNCHANGED <<table, kpc, np, cpuproc>>

\* E is the set of processes that the loop would run.
Schedules(c, E) == PassEnds(c, E) \/ \E q \in E : Dispatch(c, E, q)

Runnable == {q \in Slots : state[q] = "RUNNABLE"}
scheduler(c) == Schedules(c, Runnable)

-----------------------------------------------------------------------------

\* What process p does on CPU c, apart from exit's critical section.
Running(c, p) ==
  \/ SyscallEnter(c, p)
  \/ SyscallReturn(c, p)
  \/ ExitKilled(c, p)
  \/ Fault(c, p)
  \/ sys_exit(c, p)
  \/ yield(c, p)
  \/ allocproc(c, p)
  \/ ForkFails(c, p)
  \/ ForkCopies(c, p)
  \/ ForkDone(c, p)
  \/ sys_wait(c, p)
  \/ WaitReaps(c, p)
  \/ WaitFails(c, p)
  \/ WaitSleeps(c, p)
  \/ \E ch \in Chans : sleep(c, p, ch)
  \/ \E n \in 1 .. MaxPid : kill(c, p, n)

\* What the later weeks leave as it is.
KernelSteps ==
  \/ \E c \in CPUs, p \in Slots : Running(c, p)
  \/ \E ch \in Chans : wakeup(ch)

Next ==
  \/ KernelSteps
  \/ \E c \in CPUs, p \in Slots : exit(c, p)
  \/ \E c \in CPUs : scheduler(c)

Spec == Init /\ [][Next]_vars

\* The schedulers loop for ever, timer interrupts make processes yield, a process
\* that holds ptable.lock in wait goes on.  The fairness is strong where the
\* code spins for ptable.lock: the hardware lets every CPU that spins get the
\* lock sometimes.
KernelFairness ==
  \A c \in CPUs :
    /\ SF_vars(scheduler(c))
    /\ SF_vars(\E p \in Slots : yield(c, p))
    /\ WF_vars(\E p \in Slots : WaitResumes(c, p))

\* init.c calls wait again and again, its forks come to an end, and the devices
\* answer what it sleeps for.
InitWaits ==
  /\ \A ch \in Chans : SF_vars(wakeup(ch))
  /\ SF_vars(\E c \in CPUs : SyscallEnter(c, initproc))
  /\ SF_vars(\E c \in CPUs : ForkCopies(c, initproc) \/ ForkFails(c, initproc))
  /\ SF_vars(\E c \in CPUs : ForkDone(c, initproc))
  /\ SF_vars(\E c \in CPUs : sys_wait(c, initproc))
  /\ SF_vars(\E c \in CPUs : WaitReaps(c, initproc))

SchedSpec == Spec /\ KernelFairness
FairSpec == SchedSpec /\ InitWaits

-----------------------------------------------------------------------------
(* Properties *)

\* A process is RUNNING exactly while one CPU, and only one, runs it: no two
\* schedulers ever run the same kernel stack.
OnOneCpu ==
  /\ \A p \in Slots : state[p] = "RUNNING" <=> \E c \in CPUs : cpuproc[c] = p
  /\ \A c, d \in CPUs : cpuproc[c] = cpuproc[d] /\ cpuproc[c] # Null => c = d

\* No orphans: the parent of every process but init is a process that can still
\* wait for it, whatever exits happened in between.
ParentCanReap ==
  \A p \in Slots \ {initproc} :
    state[p] \notin {"UNUSED", "EMBRYO"} =>
      /\ parent[p] # Null
      /\ state[parent[p]] \notin {"UNUSED", "EMBRYO", "ZOMBIE"}

\* wait misses no exit and no kill: a process asleep in wait has a child, no
\* child of it is a zombie, and it is not killed.
WaiterNotForgotten ==
  \A p \in Slots :
    state[p] = "SLEEPING" /\ kpc[p] = "wait" =>
      Children(p) # {} /\ ZombieChildren(p) = {} /\ ~killed[p]

\* A pid other than 0 names one slot, stale pids of failed forks included: the
\* loops of kill and signalProcess take the first slot with a pid, used or not.
PidsUnique ==
  \A p, q \in Slots : pid[p] # 0 /\ pid[p] = pid[q] => p = q

\* An exited process remains a zombie until its parent, on a CPU, calls wait.
ZombieUntilWait ==
  [][\A p \in Slots :
       state[p] = "ZOMBIE" /\ state'[p] # "ZOMBIE" =>
         /\ state'[p] = "UNUSED"
         /\ \E c \in CPUs : cpuproc[c] = parent[p] /\ InWait(c, parent[p])]_vars

\* The invariant behind these properties.  A fork under way owns an EMBRYO slot,
\* no other fork has it, and it has no parent before the parent is recorded ...
Forking(p) == kpc[p] \in {"fork1", "fork2"}

ForkInv ==
  \A p \in Slots :
    Forking(p) =>
      /\ np[p] \in Slots
      /\ state[np[p]] = "EMBRYO"
      /\ parent[np[p]] = IF kpc[p] = "fork1" THEN Null ELSE p
      /\ \A q \in Slots : Forking(q) /\ np[q] = np[p] => q = p

\* ... a free slot is nobody's child, no process is its own child, init nobody's,
\* a process in wait sleeps on its own slot ...
FreeHasNoParent == \A p \in Slots : state[p] = "UNUSED" => parent[p] = Null

NotOwnParent == parent[initproc] = Null /\ \A p \in Slots : parent[p] # p

SleepsOnSelf ==
  \A p \in Slots : state[p] = "SLEEPING" /\ kpc[p] = "wait" => chan[p] = p

\* ... init is always there to adopt, and nextpid is ahead of every pid.
InitAlive ==
  /\ state[initproc] \notin {"UNUSED", "EMBRYO", "ZOMBIE"}
  /\ kpc[initproc] # "exit"

PidsBelow == \A p \in Slots : pid[p] < nextpid

IndInv ==
  /\ TypeOK
  /\ OnOneCpu
  /\ ParentCanReap
  /\ WaiterNotForgotten
  /\ PidsUnique
  /\ ForkInv
  /\ FreeHasNoParent
  /\ NotOwnParent
  /\ SleepsOnSelf
  /\ InitAlive
  /\ PidsBelow

\* The round-robin loop of scheduler starves no process.
RunnableRuns ==
  \A p \in Slots : state[p] = "RUNNABLE" ~> state[p] = "RUNNING"

\* init gets to free every zombie that is its child, adopted ones included.
OrphanReaped ==
  \A p \in Slots : state[p] = "ZOMBIE" /\ parent[p] = initproc ~> state[p] = "UNUSED"
===============================================================================
