------------------------------- MODULE ProcAdopt -------------------------------
(***************************************************************************)
(* What the later weeks changed in proc.c, on top of Proc:                 *)
(*   - exit gives its children to an ancestor instead of init;             *)
(*   - a process has a PAUSE flag that the scheduler respects;             *)
(*   - signalProcess pauses, continues or kills the process with a pid.    *)
(***************************************************************************)
EXTENDS Proc, Adoption

CONSTANT Signals   \* the signals that processes send

ASSUME SignalAssumption == Signals \subseteq {"PAUSE", "CONTINUE", "KILL"}

VARIABLE PAUSE     \* p->PAUSE

varsA == <<vars, PAUSE>>

TypeOKA ==
  /\ TableOK /\ PlacesOK
  /\ parent \in [Slots -> Slots \cup {Null, Wild}]
  /\ PAUSE \in [Slots -> BOOLEAN]

InitA == Init /\ PAUSE = [p \in Slots |-> FALSE]

-----------------------------------------------------------------------------
(* exit *)

\* exit kills itself, if it has children, so that the loop passes it by.
exitA(c, p) ==
  LET k == [killed EXCEPT ![p] = @ \/ Children(p) # {}] IN
  /\ Leave(c, p)
  /\ killed' = k
  /\ parent' \in Adoptions(p, 0, parent, k)
  /\ UNCHANGED PAUSE

-----------------------------------------------------------------------------
(* signalProcess and the scheduler *)

\* The first slot with that pid gets the signal, whatever its state, init's too.  A pid is
\* what fork returned: 0 in a child (tes.c passes that on), which is the pid of
\* every slot that was never used or has been freed.
signalProcess(c, p, n, type) ==
  /\ At(c, p, {"kernel"})
  /\ LockFree
  /\ \E q \in WithPid(n) :
       /\ q = First(WithPid(n))
       /\ PAUSE' = IF type = "KILL" THEN PAUSE ELSE [PAUSE EXCEPT ![q] = type = "PAUSE"]
       /\ state' = IF type = "KILL" THEN [state EXCEPT ![q] = "ZOMBIE"] ELSE state
  /\ Move(p, "user")
  /\ UNCHANGED <<pid, parent, chan, killed, nextpid, np, cpuproc, scan, ptlock>>

\* Fault of the scheduler: it stops at a paused process.
ContinuedOnly == IF \E q \in Runnable : PAUSE[q] THEN {} ELSE Runnable

\* The scheduler passes paused processes by.
NotPaused == {q \in Runnable : ~PAUSE[q]}
schedulerA(c) == Schedules(c, NotPaused) /\ UNCHANGED PAUSE

-----------------------------------------------------------------------------

NextA ==
  \/ KernelSteps /\ UNCHANGED PAUSE
  \/ \E c \in CPUs, p \in Slots :
       \/ exitA(c, p)
       \/ \E n \in 0 .. MaxPid, type \in Signals : signalProcess(c, p, n, type)
  \/ \E c \in CPUs : schedulerA(c)

SpecA == InitA /\ [][NextA]_varsA

\* As KernelFairness.
FairSpecA ==
  /\ SpecA
  /\ \A c \in CPUs :
       /\ SF_varsA(schedulerA(c))
       /\ SF_varsA(\E p \in Slots : yield(c, p) /\ UNCHANGED PAUSE)
       /\ WF_varsA(\E p \in Slots : WaitResumes(c, p) /\ UNCHANGED PAUSE)

\* As InitWaits: init.c calls wait again and again, as long as it is not paused.
FairInitA ==
  /\ \A ch \in Chans : SF_varsA(wakeup(ch) /\ UNCHANGED PAUSE)
  /\ SF_varsA(\E c \in CPUs :
       \/ SyscallEnter(c, initproc) /\ UNCHANGED PAUSE
       \/ ForkCopies(c, initproc) /\ UNCHANGED PAUSE
       \/ ForkFails(c, initproc) /\ UNCHANGED PAUSE
       \/ ForkDone(c, initproc) /\ UNCHANGED PAUSE)
  /\ SF_varsA(\E c \in CPUs : sys_wait(c, initproc) /\ UNCHANGED PAUSE)
  /\ SF_varsA(\E c \in CPUs : WaitReaps(c, initproc) /\ UNCHANGED PAUSE)

LiveSpecA == FairSpecA /\ FairInitA

-----------------------------------------------------------------------------
(* Properties *)

\* Pausing a process, asleep or not, delays nobody else, and one that is
\* continued runs again.  (A process that gets KILL while it runs is no longer
\* RUNNING, so no timer interrupt makes it yield; this is about the other signals.)
UnpausedRuns ==
  \A p \in Slots :
    state[p] = "RUNNABLE" /\ ~PAUSE[p] ~> state[p] = "RUNNING" \/ PAUSE[p]

\* init gets to free every zombie that is its child, adopted ones included, unless it is paused
\* itself, which any process may do: a zombie that finds init continued is freed, or init paused again.
OrphanReapedUnlessPaused ==
  \A p \in Slots :
    state[p] = "ZOMBIE" /\ parent[p] = initproc ~> state[p] = "UNUSED" \/ PAUSE[initproc]

\* The nearest ancestor of q that has not been killed.
RECURSIVE FirstAlive(_)
FirstAlive(q) ==
  IF parent[q] \in Slots /\ killed[parent[q]] THEN FirstAlive(parent[q]) ELSE parent[q]

\* exit gives every child of the dead process to its first alive ancestor.
AdoptedByAncestor ==
  [][\A p, q \in Slots :
       parent[p] = q /\ state[q] # "ZOMBIE" /\ state'[q] = "ZOMBIE" =>
         parent'[p] = FirstAlive(q)]_varsA

\* allocproc hands out a slot that can be scheduled: neither paused nor killed,
\* unless somebody pauses or kills the new process itself.
BornClean ==
  [][\A p \in Slots :
       state[p] = "UNUSED" /\ state'[p] = "EMBRYO" => ~PAUSE'[p] /\ ~killed'[p]]_varsA
===============================================================================
