---------------------------- MODULE MCContainers ----------------------------
(***************************************************************************)
(* The other containers, each by itself.  The seqlock ring: two slots,     *)
(* elements of two words and six pushes, so every slot is reused twice     *)
(* while a read may be in progress.  The cell: three words, four pushes.   *)
(* The history ring: four slots and seven pushes, it fills and laps during *)
(* a read.  The byte queues: two records of two bytes and every length and *)
(* buffer up to the first that does not fit.                               *)
(***************************************************************************)
EXTENDS EvictingCell, RingBuffer, QueueBytes

VARIABLE subject

Is(s) == subject = s
vars == <<subject, EQvars, ECvars, RBvars, bvars, evars>>

Init ==
    /\ subject \in {"queue", "cell", "ring", "bytes", "evicting_bytes"}
    /\ EQInit /\ ECInit /\ RBInit /\ BBInit /\ EBInit

Next ==
    /\ UNCHANGED subject
    /\ \/ Is("queue") /\ EQNext /\ UNCHANGED <<ECvars, RBvars, bvars, evars>>
       \/ Is("cell") /\ ECNext /\ UNCHANGED <<EQvars, RBvars, bvars, evars>>
       \/ Is("ring") /\ RBNext /\ UNCHANGED <<EQvars, ECvars, bvars, evars>>
       \/ Is("bytes") /\ BBNext /\ UNCHANGED <<EQvars, ECvars, RBvars, evars>>
       \/ Is("evicting_bytes") /\ EBNext /\ UNCHANGED <<EQvars, ECvars, RBvars, bvars>>

Spec == Init /\ [][Next]_vars
\* EQFairness, for the behaviours of the seqlock ring.
LiveSpec ==
    /\ Spec
    /\ WF_EQvars(Is("queue") /\ WriterStep) /\ WF_EQvars(Is("queue") /\ ReaderStep)
    /\ SF_EQvars(Is("queue") /\ Call("consume", "try"))
=============================================================================
