----------------------------- MODULE Transactions -----------------------------
(***************************************************************************)
(* What log.c promises to the file system: the writes of the system calls  *)
(* that overlap reach the disk together, when none of them is active, or   *)
(* not at all.                                                             *)
(***************************************************************************)
CONSTANTS Procs, Blocks, Vals

VARIABLES
  stable,   \* what a crash leaves of the file system
  cur,      \* what the system calls see
  active    \* the system calls between begin_op and end_op

txvars == <<stable, cur, active>>

TxInit ==
  /\ stable \in [Blocks -> Vals]
  /\ cur = stable
  /\ active = {}

Begin(p) ==
  /\ p \notin active
  /\ active' = active \cup {p}
  /\ UNCHANGED <<stable, cur>>

Write(p, b, v) ==
  /\ p \in active
  /\ cur' = [cur EXCEPT ![b] = v]
  /\ UNCHANGED <<stable, active>>

End(p) ==
  /\ p \in active
  /\ active' = active \ {p}
  /\ UNCHANGED <<stable, cur>>

Commit ==
  /\ active = {}
  /\ stable' = cur
  /\ UNCHANGED <<cur, active>>

Crash ==
  /\ cur' = stable
  /\ active' = {}
  /\ UNCHANGED stable

TxNext ==
  \/ \E p \in Procs : Begin(p) \/ End(p) \/ \E b \in Blocks, v \in Vals : Write(p, b, v)
  \/ Commit
  \/ Crash

TxSpec == TxInit /\ [][TxNext]_txvars
===============================================================================
