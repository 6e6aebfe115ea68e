-------------------------------- MODULE MyLock --------------------------------
(***************************************************************************)
(* The user-visible locks of week 5 (init_mylock, acquire_mylock,          *)
(* release_mylock in spinlock.c and proc.c) and the shared counters of     *)
(* sysproc.c that they are meant to protect.  Every mylock is the word     *)
(* ptable.lock.locked plus a status word of its own; the same locked word  *)
(* is the kernel's ptable.lock.                                            *)
(*                                                                         *)
(* One process per CPU; every access to shared memory is a step.           *)
(* A process acquires only ids that init_mylock gave it and releases only  *)
(* what it acquired: what the code does with other calls is not modelled.  *)
(***************************************************************************)
EXTENDS Integers, FiniteSets

CONSTANTS
  CPUs,        \* the processors, each with one process
  NLOCKS,      \* length of the arrays exists and status (10)
  MaxInits,    \* bound: init_mylock calls of a process
  MaxUpdates   \* bound: update_cnt calls of a process, and its acquire_mylock calls

ASSUME MyLockAssumption ==
  NLOCKS \in Nat \ {0} /\ MaxInits \in Nat /\ MaxUpdates \in Nat

VARIABLES
  locked,    \* ptable.lock.locked
  mem,       \* exists, then status, then ptable.proc[0].sz, word by word
  ncli,      \* cpu->ncli
  pc,        \* where each process is
  id,        \* the id that init_mylock returned to it, or NoId
  n,         \* the local counter of init_mylockLC
  ret,       \* where a trap returns to
  counter,   \* the global counter of sysproc.c
  seen,      \* the register that update_cnt loads it into
  inits, updates, acquires   \* calls made so far

vars == <<locked, mem, ncli, pc, id, n, ret, counter, seen, inits, updates, acquires>>

NoId == -1
status(i) == NLOCKS + i                \* the word that status[i] names
Words == 0 .. 2 * NLOCKS               \* the last one is proc[0].sz
PGSIZE == 4096

\* "user" and "held": in user mode, without and with a mylock; "lost": with a
\* mylock that release_mylock refused to release.
UserModes == {"user", "held", "lost"}
Kernel == {"kspin", "kcs", "krelease"}   \* in a section of ptable.lock
PCs == UserModes \cup Kernel \cup
       {"scan", "mark", "status", "locked", "claim", "spin", "write",
        "clear", "clear2", "unlock", "panic"}

TypeOK ==
  /\ locked \in {0, 1}
  /\ mem \in [Words -> {0, 1, PGSIZE}]
  /\ ncli \in [CPUs -> 0 .. MaxUpdates + 1]
  /\ pc \in [CPUs -> PCs]
  /\ id \in [CPUs -> 0 .. NLOCKS \cup {NoId}]
  /\ n \in [CPUs -> 0 .. NLOCKS + 1]
  /\ ret \in [CPUs -> UserModes]
  /\ counter \in Nat
  /\ seen \in [CPUs -> Nat]
  /\ inits \in [CPUs -> 0 .. MaxInits]
  /\ updates \in [CPUs -> 0 .. MaxUpdates]
  /\ acquires \in [CPUs -> 0 .. MaxUpdates]

Init ==
  /\ locked = 0
  /\ mem = [w \in Words |-> IF w = 2 * NLOCKS THEN PGSIZE ELSE 0]
  /\ ncli = [c \in CPUs |-> 0]
  /\ pc = [c \in CPUs |-> "user"]
  /\ id = [c \in CPUs |-> NoId]
  /\ n = [c \in CPUs |-> 0]
  /\ ret = [c \in CPUs |-> "user"]
  /\ counter = 0
  /\ seen = [c \in CPUs |-> 0]
  /\ inits = [c \in CPUs |-> 0]
  /\ updates = [c \in CPUs |-> 0]
  /\ acquires = [c \in CPUs |-> 0]

Goto(c, from, to) == pc[c] = from /\ pc' = [pc EXCEPT ![c] = to]
pushcli(c) == ncli' = [ncli EXCEPT ![c] = @ + 1]
popcli(c) == ncli' = [ncli EXCEPT ![c] = @ - 1]

counting == <<counter, seen, inits, updates, acquires>>

-----------------------------------------------------------------------------
(* init_mylockLC: no lock, and the test of the word before that of the bound *)

init_mylock(c) ==
  /\ inits[c] < MaxInits
  /\ Goto(c, "user", "scan")
  /\ n' = [n EXCEPT ![c] = 0]
  /\ inits' = [inits EXCEPT ![c] = @ + 1]
  /\ UNCHANGED <<locked, mem, ncli, id, ret, counter, seen, updates, acquires>>

\* The loop goes on while exists[counter] == 1 && counter <= 10.
ScanOn(c) == mem[n[c]] = 1 /\ n[c] <= NLOCKS

InitScans(c) ==
  /\ ScanOn(c)
  /\ Goto(c, "scan", "scan")
  /\ n' = [n EXCEPT ![c] = @ + 1]
  /\ UNCHANGED <<locked, mem, ncli, id, ret, counting>>

\* It ends: 11 means that no lock is left.
InitEnds(c) ==
  /\ ~ScanOn(c)
  /\ Goto(c, "scan", IF n[c] = NLOCKS + 1 THEN "user" ELSE "mark")
  /\ UNCHANGED <<locked, mem, ncli, id, n, ret, counting>>

InitMarks(c) ==
  /\ Goto(c, "mark", "user")
  /\ mem' = [mem EXCEPT ![n[c]] = 1]
  /\ id' = [id EXCEPT ![c] = n[c]]
  /\ UNCHANGED <<locked, ncli, n, ret, counting>>

-----------------------------------------------------------------------------
(* acquire_mylockLC *)

\* A lock that exists: pushcli, whose popcli never comes.
acquire_mylock(c) ==
  /\ id[c] # NoId
  /\ acquires[c] < MaxUpdates
  /\ mem[id[c]] = 1
  /\ Goto(c, "user", "status")
  /\ pushcli(c)
  /\ acquires' = [acquires EXCEPT ![c] = @ + 1]
  /\ UNCHANGED <<locked, mem, id, n, ret, counter, seen, inits, updates>>

\* holding_mylockLC reads status[id] ...
HoldingReadsStatus(c) ==
  /\ Goto(c, "status", IF mem[status(id[c])] # 0 THEN "locked" ELSE "claim")
  /\ UNCHANGED <<locked, mem, ncli, id, n, ret, counting>>

\* ... and locked; both set mean panic("lcLocks").
HoldingReadsLocked(c) ==
  /\ Goto(c, "locked", IF locked = 1 THEN "panic" ELSE "claim")
  /\ UNCHANGED <<locked, mem, ncli, id, n, ret, counting>>

\* Fault: the status word is the lock.
ClaimHolds(c) ==
  /\ Goto(c, "claim", "held")
  /\ mem' = [mem EXCEPT ![status(id[c])] = 1]
  /\ UNCHANGED <<locked, ncli, id, n, ret, counting>>
\* status[id] = 1, before the lock is taken.
Claim(c) ==
  /\ Goto(c, "claim", "spin")
  /\ mem' = [mem EXCEPT ![status(id[c])] = 1]
  /\ UNCHANGED <<locked, ncli, id, n, ret, counting>>

\* Fault of the two xchg loops: the lock is taken whether it is free or not.
xchgOnce == locked' = 1
\* while(xchg(&lk->locked, 1) != 0): the round that ends the loop.
xchg == locked = 0 /\ locked' = 1

Locks(c) ==
  /\ Goto(c, "spin", "held")
  /\ xchg
  /\ UNCHANGED <<mem, ncli, id, n, ret, counting>>

-----------------------------------------------------------------------------
(* update_cnt: counter = counter + 1, a load and a store *)

update_cnt(c) ==
  /\ updates[c] < MaxUpdates
  /\ Goto(c, "held", "write")
  /\ seen' = [seen EXCEPT ![c] = counter]
  /\ updates' = [updates EXCEPT ![c] = @ + 1]
  /\ UNCHANGED <<locked, mem, ncli, id, n, ret, counter, inits, acquires>>

UpdateWrites(c) ==
  /\ Goto(c, "write", "held")
  /\ counter' = seen[c] + 1
  /\ UNCHANGED <<locked, mem, ncli, id, n, ret, seen, inits, updates, acquires>>

-----------------------------------------------------------------------------
(* release_mylockLC *)

\* It gives up if status[id] is not 1 ...
ReleaseChecks(c) ==
  /\ Goto(c, "held", IF mem[status(id[c])] = 1 THEN "clear" ELSE "lost")
  /\ UNCHANGED <<locked, mem, ncli, id, n, ret, counting>>

\* ... and clears it, twice ...
ReleaseClears(c, from, to) ==
  /\ Goto(c, from, to)
  /\ mem' = [mem EXCEPT ![status(id[c])] = 0]
  /\ UNCHANGED <<locked, ncli, id, n, ret, counting>>

\* ... before the lock word.
Unlocks(c) ==
  /\ Goto(c, "unlock", "user")
  /\ locked' = 0
  /\ UNCHANGED <<mem, ncli, id, n, ret, counting>>

-----------------------------------------------------------------------------
(* The kernel on the same CPU: user mode takes interrupts whatever ncli is, and
   makes system calls.  Both acquire ptable.lock, to wake somebody or to yield. *)

\* acquire(&ptable.lock).  Its check does not see a mylock, whose cpu is 0.
Trap(c) ==
  /\ pc[c] \in UserModes
  /\ Goto(c, pc[c], "kspin")
  /\ ret' = [ret EXCEPT ![c] = pc[c]]
  /\ pushcli(c)
  /\ UNCHANGED <<locked, mem, id, n, counting>>

KernelLocks(c) ==
  /\ xchg
  /\ Goto(c, "kspin", "kcs")
  /\ UNCHANGED <<mem, ncli, id, n, ret, counting>>

\* sched panics unless ptable.lock is the only reason for interrupts to be off.
sched(c) ==
  /\ Goto(c, "kcs", IF ncli[c] = 1 THEN "krelease" ELSE "panic")
  /\ UNCHANGED <<locked, mem, ncli, id, n, ret, counting>>

wakeup(c) ==
  /\ Goto(c, "kcs", "krelease")
  /\ UNCHANGED <<locked, mem, ncli, id, n, ret, counting>>

KernelReleases(c) ==
  /\ Goto(c, "krelease", ret[c])
  /\ locked' = 0
  /\ popcli(c)
  /\ UNCHANGED <<mem, id, n, ret, counting>>

-----------------------------------------------------------------------------

MyLockStep(c) ==
  \/ InitScans(c) \/ InitEnds(c) \/ InitMarks(c)
  \/ acquire_mylock(c) \/ HoldingReadsStatus(c) \/ HoldingReadsLocked(c)
  \/ Claim(c) \/ Locks(c)
  \/ update_cnt(c) \/ UpdateWrites(c)
  \/ ReleaseClears(c, "clear", "clear2") \/ ReleaseClears(c, "clear2", "unlock")
  \/ Unlocks(c)

KernelStep(c) == KernelLocks(c) \/ sched(c) \/ wakeup(c) \/ KernelReleases(c)

Next ==
  \E c \in CPUs :
    MyLockStep(c) \/ KernelStep(c) \/ init_mylock(c) \/ ReleaseChecks(c) \/ Trap(c)

Spec == Init /\ [][Next]_vars

\* Every CPU goes on executing, and between two traps the process gets on; a
\* spin loop that finds the lock free again and again gets it.  The programs call
\* init_mylock, acquire, make their updates, release.
FairSpec ==
  /\ Spec
  /\ \A c \in CPUs :
       /\ SF_vars(MyLockStep(c) /\ pc[c] # "spin")
       /\ SF_vars(Locks(c))
       /\ SF_vars(inits[c] = 0 /\ init_mylock(c))
       /\ SF_vars(updates[c] = MaxUpdates /\ ReleaseChecks(c))
       /\ SF_vars(KernelLocks(c))
       /\ WF_vars(sched(c) \/ wakeup(c) \/ KernelReleases(c))

-----------------------------------------------------------------------------
(* Properties *)

\* The CPUs between the end of a spin loop and the store that frees the word.
Owners ==
  {c \in CPUs :
     \/ pc[c] \in {"held", "lost", "write", "clear", "clear2", "unlock", "kcs", "krelease"}
     \/ pc[c] = "kspin" /\ ret[c] \in {"held", "lost"}}

\* mylocks of different ids, and the kernel, exclude each other, since all of
\* them take the one word.
OneOwner == Cardinality(Owners) <= 1

\* No update of the counter is lost, whichever ids the processes hold.
NoLostUpdate == \A c \in CPUs : pc[c] = "write" => seen[c] = counter

\* The invariant behind these properties: the word is 1 while it has its one owner;
\* the kernel gets it only where the process had no mylock; ids are in range; ncli
\* counts the acquire_mylock calls and the section of ptable.lock.
WordOwned ==
  /\ \A c, d \in Owners : c = d
  /\ locked = 0 => Owners = {}

KernelOwns == \A c \in CPUs : pc[c] \in {"kcs", "krelease"} => ret[c] = "user"

ScanInRange == \A c \in CPUs : pc[c] = "mark" => n[c] <= NLOCKS

NcliCounts ==
  \A c \in CPUs :
    pc[c] # "panic" => ncli[c] = acquires[c] + IF pc[c] \in Kernel THEN 1 ELSE 0

IndInv == TypeOK /\ WordOwned /\ NoLostUpdate /\ KernelOwns /\ ScanInRange /\ NcliCounts

\* Processes that update the counter under a mylock get all their updates done.
UpdatesDone == <>(\A c \in CPUs : updates[c] = MaxUpdates /\ pc[c] = "user")
===============================================================================
