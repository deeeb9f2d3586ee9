----------------------------- MODULE RingBuffer -----------------------------
(***************************************************************************)
(* eph::containers::RingBuffer<T, RingSlots>: a history ring for one writer *)
(* and any readers, without a lock.  push() stores the element, then       *)
(* head_, then count_; a reader loads head_, then count_, then the element.*)
(* Elements are numbered in the order they are pushed, from 1: every word  *)
(* of the n-th one is n, and a slot that was never written holds 0.  The   *)
(* elements are plain memory, copied word by word.  One reader stands for  *)
(* all: a read changes nothing shared.                                     *)
(***************************************************************************)
EXTENDS Integers

CONSTANTS RingSlots,  \* number of slots, a power of two
          RingWords,  \* words per element
          RingPushes    \* bound on the pushes

ASSUME RingSlotsAssumption == RingSlots \in Nat \ {0}
ASSUME RingWordsAssumption == RingWords \in Nat \ {0}
ASSUME RingPushesAssumption == RingPushes \in Nat

RSlots == 0..(RingSlots - 1)
RWords == 1..RingWords
RElement(n) == [w \in RWords |-> n]
None == -1        \* std::nullopt, as the element of that number
Back == RingSlots  \* the offset that stands for back()

VARIABLES
    head, count, ring,   \* head_, count_, data_
    pushed, cleared,     \* history: elements pushed, and pushed before the last clear()
    rwpc, rwi,             \* the writer's step within push(), words written
    rrpc, roff, rhead, rri,    \* the reader's call: offset, head it loaded, words read
    result,              \* what the last read returned
    exact, quiet, wasFull \* history: the right answer when the read began; no
                         \* push has run since; the ring was full then

RBwvars == <<head, count, ring, pushed, cleared, rwpc, rwi>>
RBrvars == <<rrpc, roff, rhead, rri, result, exact, wasFull>>
RBvars == <<RBwvars, RBrvars, quiet>>

RBInit ==
    /\ head = 0 /\ count = 0 /\ ring = [s \in RSlots |-> RElement(0)]
    /\ pushed = 0 /\ cleared = 0 /\ rwpc = "idle" /\ rwi = 0
    /\ rrpc = "idle" /\ roff = 0 /\ rhead = 0 /\ rri = 0 /\ result = RElement(None)
    /\ exact = None /\ quiet = TRUE /\ wasFull = FALSE
-----------------------------------------------------------------------------
\* push(): the element, word by word, then the two stores.
BeginPush ==
    /\ rwpc = "idle" /\ pushed < RingPushes
    /\ pushed' = pushed + 1
    /\ rwpc' = "data" /\ rwi' = 0 /\ quiet' = FALSE
    /\ UNCHANGED <<head, count, ring, cleared, RBrvars>>

StoreWord ==
    /\ rwpc = "data" /\ rwi < RingWords
    /\ ring' = [ring EXCEPT ![head % RingSlots][rwi + 1] = pushed]
    /\ rwi' = rwi + 1
    /\ UNCHANGED <<head, count, pushed, cleared, rwpc, RBrvars, quiet>>

StoreHead ==
    /\ rwpc = "data" /\ rwi = RingWords
    /\ head' = head + 1
    /\ rwpc' = "count" /\ rwi' = 0
    /\ UNCHANGED <<count, ring, pushed, cleared, RBrvars, quiet>>

Counted == IF count < RingSlots THEN count + 1 ELSE count

StoreCount ==
    /\ rwpc = "count"
    /\ count' = Counted
    /\ rwpc' = "idle"
    /\ UNCHANGED <<head, ring, pushed, cleared, rwi, RBrvars, quiet>>
-----------------------------------------------------------------------------
\* The k-th newest of the elements behind head_, if it is still stored.
Nth(k) == IF k < count THEN cleared + head - k ELSE None

\* at(k), front() = at(0), and back(), whose offset is the count it loads.
LoadHead(k) ==
    /\ rrpc = "idle"
    /\ rrpc' = "count" /\ roff' = k /\ rhead' = head
    /\ quiet' = (rwpc = "idle") /\ wasFull' = (count = RingSlots)
    /\ exact' = Nth(IF k = Back /\ count > 0 THEN count - 1 ELSE k)
    /\ UNCHANGED <<rri, result, RBwvars>>

LoadCount ==
    /\ rrpc = "count"
    /\ LET k == IF roff = Back /\ count > 0 THEN count - 1 ELSE roff
       IN  \/ k >= count /\ rrpc' = "idle" /\ result' = RElement(None) /\ roff' = 0
           \/ k < count /\ rrpc' = "data" /\ roff' = k /\ UNCHANGED result
    /\ UNCHANGED <<rhead, rri, exact, wasFull, quiet, RBwvars>>

ReadIndexPast == (rhead - roff) % RingSlots
ReadIndex == (rhead - 1 - roff) % RingSlots

\* The copy of the element into the returned optional.
LoadWord ==
    /\ rrpc = "data"
    /\ result' = [result EXCEPT ![rri + 1] = ring[ReadIndex][rri + 1]]
    /\ \/ rri + 1 < RingWords /\ rri' = rri + 1 /\ UNCHANGED <<rrpc, roff>>
       \/ rri + 1 = RingWords /\ rri' = 0 /\ rrpc' = "idle" /\ roff' = 0
    /\ UNCHANGED <<rhead, exact, wasFull, quiet, RBwvars>>

\* clear(), with nobody else inside.  The slots keep their old elements.
RBClear ==
    /\ rwpc = "idle" /\ rrpc = "idle"
    /\ head' = 0 /\ count' = 0 /\ cleared' = pushed
    /\ UNCHANGED <<ring, pushed, rwpc, rwi, RBrvars, quiet>>

RBNext ==
    \/ BeginPush \/ StoreWord \/ StoreHead \/ StoreCount
    \/ \E k \in 0..RingSlots : LoadHead(k)
    \/ LoadCount \/ LoadWord
    \/ RBClear

RBSpec == RBInit /\ [][RBNext]_RBvars
-----------------------------------------------------------------------------
\* Type invariant: the indices, the ring and each side's place in its call.
RBTypeOK ==
    /\ head \in 0..RingPushes /\ count \in 0..RingSlots
    /\ ring \in [RSlots -> [RWords -> 0..RingPushes]]
    /\ pushed \in 0..RingPushes /\ cleared \in 0..pushed
    /\ rwpc \in {"idle", "data", "count"} /\ rwi \in 0..RingWords
    /\ rrpc \in {"idle", "count", "data"} /\ roff \in 0..RingSlots
    /\ rhead \in 0..RingPushes /\ rri \in 0..(RingWords - 1)
    /\ result \in [RWords -> {None} \cup 0..RingPushes]
    /\ exact \in {None} \cup 0..RingPushes
    /\ quiet \in BOOLEAN /\ wasFull \in BOOLEAN

\* A read that no push overlaps returns exactly the element at its offset, or
\* nothing when fewer are stored, also after the ring has lapped or been cleared.
QuietReadExact == (rrpc = "idle" /\ quiet) => result = RElement(exact)

\* Once the ring has filled, a read that races with pushes returns the element
\* asked for or words of ones that replaced it, never an older one.
FullRingNeverOlder ==
    (rrpc = "idle" /\ wasFull /\ exact # None) => \A w \in RWords : result[w] >= exact

\* ring_buffer.hpp says of a writer that runs between the two loads of at():
\* "the worst case is returning a slightly stale element (never an invalid
\* index)".  So whatever at(), front() or back() returns is an element that
\* was pushed since the last clear().
ReadReturnsPushed ==
    [][(rrpc = "data" /\ rrpc' = "idle") => \E n \in (cleared + 1)..pushed : result' = RElement(n)]_RBvars

\* What a reader of the history ring may count on while pushes go on around it.
RingReadsTrue ==
    /\ RBTypeOK /\ QuietReadExact /\ FullRingNeverOlder
=============================================================================
