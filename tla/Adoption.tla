------------------------------ MODULE Adoption ------------------------------
(***************************************************************************)
(* The loop with which exit gives away the children of the process that    *)
(* dies (proc.c of the later weeks).  par and killed are the parents and   *)
(* the killed flags of the slots, a range of numbers; a parent is a slot,  *)
(* the null pointer or Wild.                                               *)
(***************************************************************************)
EXTENDS Integers

\* A word of user memory taken for a struct proc pointer.
Wild == -2

\* The loop reads ptable.proc[n].parent->killed and ->parent.  Through a null or
\* wild pointer, or below the table, it reads whatever word is there.
ReadsSlot(n, par) == n \in DOMAIN par /\ par[n] \in DOMAIN par

LoopTests(n, par, killed) == IF ReadsSlot(n, par) THEN {killed[par[n]]} ELSE BOOLEAN
Grandparent(n, par) == IF ReadsSlot(n, par) THEN par[par[n]] ELSE Wild

\* while(nproc->parent->killed!=0): the parents that the loop can leave behind
\* when it is at slot n on behalf of child p.  The loop ends below the table.
RECURSIVE Climb(_, _, _, _)
Climb(n, p, par, killed) ==
  LET g    == Grandparent(n, par)
      par2 == [q \in DOMAIN par |-> IF q \in {n, p} THEN g ELSE par[q]]
  IN  (IF FALSE \in LoopTests(n, par, killed) \/ n \notin DOMAIN par THEN {par} ELSE {})
      \cup (IF TRUE \in LoopTests(n, par, killed) /\ n \in DOMAIN par THEN Climb(n - 1, p, par2, killed) ELSE {})

\* The for loop of exit, from slot s on.
RECURSIVE Adoptions(_, _, _, _)
Adoptions(dying, s, par, killed) ==
  IF s \notin DOMAIN par THEN {par}
  ELSE IF par[s] # dying THEN Adoptions(dying, s + 1, par, killed)
  ELSE UNION {Adoptions(dying, s + 1, par2, killed) : par2 \in Climb(s, s, par, killed)}
=============================================================================
