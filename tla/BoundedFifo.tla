----------------------------- MODULE BoundedFifo -----------------------------
(***************************************************************************)
(* What eph::containers::BoundedQueue promises its users: a FIFO of at     *)
(* most Capacity elements.  A batch is enqueued whole or not at all, the   *)
(* consumer is handed a prefix of the contents, in order, and nothing is   *)
(* dropped except by clear().                                              *)
(***************************************************************************)
EXTENDS Integers, Sequences

CONSTANTS Data,      \* element values (the template parameter T)
          Capacity,  \* the template parameter Capacity
          Batches    \* the batches a producer may offer, sequences over Data

VARIABLES q,    \* the elements enqueued and not yet consumed
          out   \* the last batch handed to the consumer's visitor

vars == <<q, out>>

Init == q = <<>> /\ out = <<>>

Push(ds) ==
    /\ Len(q) + Len(ds) <= Capacity
    /\ q' = q \o ds
    /\ UNCHANGED out

Pop(n) ==
    /\ n <= Len(q)
    /\ out' = SubSeq(q, 1, n)
    /\ q' = SubSeq(q, n + 1, Len(q))

Peek ==
    /\ q # <<>>
    /\ out' = SubSeq(q, 1, 1)
    /\ UNCHANGED q

Clear ==
    /\ q' = <<>>
    /\ UNCHANGED out

Next ==
    \/ \E ds \in Batches : Push(ds)
    \/ \E n \in 1..Capacity : Pop(n)
    \/ Peek
    \/ Clear

Spec == Init /\ [][Next]_vars
=============================================================================
