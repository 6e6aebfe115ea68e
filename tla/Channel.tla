------------------------------ MODULE Channel ------------------------------
(***************************************************************************)
(* What a pipe promises: a bounded queue of bytes with a reading and a     *)
(* writing end.  Bytes leave in the order they entered, none is lost       *)
(* unless both ends are closed, and an end that is closed stays closed.    *)
(* The bytes written to a pipe are numbered modulo Values.                 *)
(***************************************************************************)
EXTENDS Naturals, Sequences
CONSTANTS Pipes, Capacity, Values

VARIABLES q,      \* the bytes in each pipe
          sent,   \* the number of the next byte written
          ends,   \* the open ends, {} for a pipe that does not exist
          last    \* the last byte a read returned

Init ==
    /\ q = [c \in Pipes |-> <<>>] /\ sent = [c \in Pipes |-> 0]
    /\ ends = [c \in Pipes |-> {}] /\ last = 0

Create(c) ==
    /\ ends[c] = {} /\ ends' = [ends EXCEPT ![c] = {"read", "write"}]
    /\ UNCHANGED <<q, sent, last>>

Put(c, n) ==
    /\ "write" \in ends[c] /\ Len(q[c]) + n <= Capacity
    /\ q' = [q EXCEPT ![c] = @ \o [i \in 1..n |-> (sent[c] + i - 1) % Values]]
    /\ sent' = [sent EXCEPT ![c] = (@ + n) % Values]
    /\ UNCHANGED <<ends, last>>

Take(c, n) ==
    /\ "read" \in ends[c] /\ n <= Len(q[c])
    /\ q' = [q EXCEPT ![c] = SubSeq(@, n + 1, Len(@))]
    /\ last' = q[c][n]
    /\ UNCHANGED <<sent, ends>>

\* Closing the last end drops what nobody can read any more.
Close(c, e) ==
    /\ e \in ends[c] /\ ends' = [ends EXCEPT ![c] = @ \ {e}]
    /\ IF ends'[c] = {} THEN q' = [q EXCEPT ![c] = <<>>] /\ sent' = [sent EXCEPT ![c] = 0]
                        ELSE UNCHANGED <<q, sent>>
    /\ UNCHANGED last

Next == \E c \in Pipes :
    Create(c) \/ (\E n \in 1..Capacity : Put(c, n) \/ Take(c, n)) \/ \E e \in {"read", "write"} : Close(c, e)

Spec == Init /\ [][Next]_<<q, sent, ends, last>>
=============================================================================
