------------------------------- MODULE Sleep -------------------------------
(***************************************************************************)
(* sleep and wakeup (proc.c) for the code that sleeps in the kernel.  A    *)
(* process that finds its condition false still holds the lock lk of the   *)
(* condition; sleep takes ptable.lock, gives lk back and becomes SLEEPING  *)
(* in one section of ptable.lock, as wakeup is.  A critical section of     *)
(* another lock that does not sleep is one step of its module, with the    *)
(* guard Open(lk): nobody holds lk across steps.                           *)
(***************************************************************************)
CONSTANTS Procs, None

VARIABLES
    spin,   \* the process that holds each spin lock between two steps
    nap     \* how far each process is in sleep, on which channel, under which lock

Awake == [stage |-> "runs", chan |-> None, lk |-> None]

\* lk can be taken: nobody holds it between steps.
Open(lk) == spin[lk] = None

\* The processes that are SLEEPING on ch.
Sleepers(ch) == {p \in Procs : nap[p].stage = "sleeps" /\ nap[p].chan = ch}

\* p holds lk, its condition is false, and it calls sleep(ch, lk), after what it did
\* in the same section made nap of it; the first form lets go of lk too early.
SleepAfterOpen(before, p, ch, lk) ==
    /\ nap' = [before EXCEPT ![p] = [stage |-> "falls", chan |-> ch, lk |-> lk]]
    /\ UNCHANGED spin

SleepAfter(before, p, ch, lk) ==
    /\ nap' = [before EXCEPT ![p] = [stage |-> "falls", chan |-> ch, lk |-> lk]]
    /\ spin' = [spin EXCEPT ![lk] = p]

CallsSleep(p, ch, lk) == SleepAfter(nap, p, ch, lk)

\* acquire(&ptable.lock); release(lk); p->state = SLEEPING; sched()
FallsAsleep(p) ==
    /\ nap[p].stage = "falls"
    /\ spin' = [spin EXCEPT ![nap[p].lk] = None]
    /\ nap' = [nap EXCEPT ![p].stage = "sleeps"]

\* What wakeup(ch) makes of nap: every process asleep on ch runs again, and will
\* take its lock again before it looks at its condition.
Woken(ch) == [p \in Procs |-> IF p \in Sleepers(ch) THEN Awake ELSE nap[p]]

wakeup(ch) == nap' = Woken(ch)
=============================================================================
