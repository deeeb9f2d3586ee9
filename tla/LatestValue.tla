---------------------------- MODULE LatestValue ----------------------------
(***************************************************************************)
(* What the evicting queues promise: the reader is handed whole elements,  *)
(* each newer than the one it consumed before, none of them older than the *)
(* newest element that was there when its read began.  Elements in between *)
(* are lost.  The n-th element written is the value n in each of its words.*)
(***************************************************************************)
EXTENDS Naturals

CONSTANTS Words    \* the machine words an element is copied by

VARIABLES written,  \* how many elements have been completely written
          got,      \* the element consumed last, 0 before the first
          floor,    \* the newest element when the read in progress began
          handed    \* the element handed to the caller last

vars == <<written, got, floor, handed>>

Element(n) == [w \in Words |-> n]

Init == written = 0 /\ got = 0 /\ floor = 0 /\ handed = Element(0)

Write == written' = written + 1 /\ UNCHANGED <<got, floor, handed>>

BeginRead == \E n \in 0..written : floor' = n /\ UNCHANGED <<written, got, handed>>

Fresh(n) == n > got /\ n >= floor /\ n <= written

Consume == \E n \in 0..written :
    Fresh(n) /\ got' = n /\ handed' = Element(n) /\ UNCHANGED <<written, floor>>

Peek == \E n \in 0..written :
    Fresh(n) /\ handed' = Element(n) /\ UNCHANGED <<written, got, floor>>

\* Everything written so far is discarded unread.
Clear == got' = written /\ UNCHANGED <<written, floor, handed>>

Next == Write \/ BeginRead \/ Consume \/ Peek \/ Clear

Spec == Init /\ [][Next]_vars
=============================================================================
