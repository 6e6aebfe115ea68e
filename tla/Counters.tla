------------------------------ MODULE Counters ------------------------------
(***************************************************************************)
(* What the buffer cache promises: a disk is a set of blocks, each a       *)
(* register.  A process that has read a block owns it until it is done,    *)
(* and what it then writes is based on the last value written.  A block    *)
(* the disk has failed on may come to hold something else while nobody     *)
(* owns it, until a command on it succeeds.                                *)
(***************************************************************************)
EXTENDS Naturals
CONSTANTS Procs, Blocks, Values, None

VARIABLES store,   \* the contents of each block, counted modulo Values
          at,      \* the block each process owns
          got,     \* what it read of it
          bad      \* the blocks the disk has failed on

Init == store = [k \in Blocks |-> 0] /\ bad = {} /\ at = [p \in Procs |-> None] /\ got = [p \in Procs |-> None]

Read(p, k) ==
    /\ got[p] = None /\ \A q \in Procs : at[q] # k
    /\ at' = [at EXCEPT ![p] = k] /\ got' = [got EXCEPT ![p] = store[k]]
    /\ UNCHANGED <<store, bad>>

Lets(p) == at' = [at EXCEPT ![p] = None] /\ got' = [got EXCEPT ![p] = None]

Bump(p, k) ==
    /\ at[p] = k /\ got[p] = store[k] /\ Lets(p)
    /\ store' = [store EXCEPT ![k] = (@ + 1) % Values] /\ UNCHANGED bad

Done(p) == got[p] # None /\ Lets(p) /\ UNCHANGED <<store, bad>>

\* A command on block k fails, or one succeeds.
Fails(k) == bad' = bad \cup {k} /\ UNCHANGED <<store, at, got>>
Recovers(k) == bad' = bad \ {k} /\ UNCHANGED <<store, at, got>>

\* What the failure left in the block shows.
Spoils(k) ==
    /\ k \in bad /\ \A p \in Procs : at[p] # k
    /\ \E v \in 0..Values-1 : store' = [store EXCEPT ![k] = v]
    /\ UNCHANGED <<at, got, bad>>

Next ==
    \/ \E p \in Procs : Done(p) \/ \E k \in Blocks : Read(p, k) \/ Bump(p, k)
    \/ \E k \in Blocks : Fails(k) \/ Recovers(k) \/ Spoils(k)

Spec == Init /\ [][Next]_<<store, at, got, bad>>
=============================================================================
