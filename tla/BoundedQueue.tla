---------------------------- MODULE BoundedQueue ----------------------------
(***************************************************************************)
(* eph::containers::BoundedQueue<T, Capacity>: the lock-free single-       *)
(* producer single-consumer ring with back-pressure.                       *)
(*                                                                         *)
(* One producer thread and one consumer thread interleave at the accesses  *)
(* to shared memory: the acquire load of the other side's index, the write *)
(* or read of one slot, and the release store of the own index.  The own   *)
(* index and the shadow of the other one are touched by one thread only.   *)
(* Indices are size_t: they wrap modulo IndexMod (2^64 in the code).       *)
(***************************************************************************)
EXTENDS Integers, Sequences

CONSTANTS Capacity,   \* number of slots
          IndexMod,   \* number of values of a size_t index
          Data,       \* element values
          Default,    \* the value of a value-initialised slot
          MaxBatch    \* bound on the batches and counts callers ask for

ASSUME CapacityAssumption == Capacity \in Nat \ {0}
ASSUME IndexModAssumption == IndexMod \in Nat /\ IndexMod > Capacity
ASSUME PowerOfTwoAssumption == IndexMod % Capacity = 0
ASSUME DataAssumption == Default \in Data
ASSUME MaxBatchAssumption == MaxBatch \in Nat \ {0} /\ MaxBatch < IndexMod

Batches == UNION {[1..n -> Data] : n \in 1..MaxBatch}

\* How a call treats a full (or an empty) queue: the try_* family returns at
\* once, the blocking family spins, the *_for family spins until a deadline.
Modes == {"try", "block", "timed"}

Index == 0..(IndexMod - 1)
Slots == 0..(Capacity - 1)

VARIABLES
    tail, shadow_head,          \* WriterLine
    head, shadow_tail,          \* ReaderLine
    buffer,                     \* the slots
    wpc, wop, wmode, wdata, wi, \* the producer's call in progress
    rpc, rop, rmode, rn, ri, rout, \* the consumer's call in progress
    out                         \* what the last completed read handed over

wvars == <<wpc, wop, wmode, wdata, wi>>
rvars == <<rpc, rop, rmode, rn, ri, rout>>
vars == <<tail, shadow_head, head, shadow_tail, buffer, wvars, rvars, out>>

\* size_t arithmetic and index masking.
Add(a, n) == (a + n) % IndexMod
Diff(a, b) == (a - b) % IndexMod
Slot(a) == a % Capacity

\* No call in progress on either side.
WIdle == wpc = "idle" /\ wop = "one" /\ wmode = "try" /\ wdata = <<>> /\ wi = 0
RIdle == /\ rpc = "idle" /\ rop = "consume" /\ rmode = "try"
         /\ rn = 0 /\ ri = 0 /\ rout = <<>>

Init ==
    /\ tail = 0 /\ shadow_head = 0
    /\ head = 0 /\ shadow_tail = 0
    /\ buffer = [s \in Slots |-> Default]
    /\ WIdle /\ RIdle
    /\ out = <<>>
-----------------------------------------------------------------------------
\* Producer.

\* try_produce / try_emplace / try_push and their blocking and timed forms.
ProduceCall(d, mode) ==
    /\ wpc = "idle"
    /\ wpc' = "check" /\ wop' = "one" /\ wmode' = mode
    /\ wdata' = <<d>> /\ wi' = 0
    /\ UNCHANGED <<tail, shadow_head, head, shadow_tail, buffer, rvars, out>>

\* try_push_n / try_produce_n and their blocking and timed forms.  A batch of
\* zero elements returns before it touches the queue.
ProduceNCall(ds, mode) ==
    /\ wpc = "idle"
    /\ wpc' = "check" /\ wop' = "n" /\ wmode' = mode
    /\ wdata' = ds /\ wi' = 0
    /\ UNCHANGED <<tail, shadow_head, head, shadow_tail, buffer, rvars, out>>

\* The call returns; its local variables are dead.
WReturn == wpc' = "idle" /\ wop' = "one" /\ wmode' = "try" /\ wdata' = <<>> /\ wi' = 0

\* The two forms of the space test, against a value h of the read index.
HasRoomOneOff(h) == Diff(tail, h) <= Capacity
HasRoomOne(h) == Diff(tail, h) < Capacity
HasRoomNStrict(h, n) == Diff(Capacity, Diff(tail, h)) > n
HasRoomN(h, n) == Diff(Capacity, Diff(tail, h)) >= n
HasRoom(h) == IF wop = "one" THEN HasRoomOne(h) ELSE HasRoomN(h, Len(wdata))

\* The fast path: the test against the cached index only.
CheckShadowHead ==
    /\ wpc = "check"
    /\ wpc' = IF HasRoom(shadow_head) THEN "write" ELSE "reload"
    /\ UNCHANGED <<tail, shadow_head, head, shadow_tail, buffer,
                   wop, wmode, wdata, wi, rvars, out>>

\* The acquire load of head_, the refresh of the shadow and the second test.
\* On failure the call returns false or, when it may wait, starts over.
ReloadHead ==
    /\ wpc = "reload"
    /\ shadow_head' = head
    /\ \/ /\ HasRoom(head)
          /\ wpc' = "write"
          /\ UNCHANGED <<wop, wmode, wdata, wi>>
       \/ /\ ~HasRoom(head) /\ wmode \in {"try", "timed"}
          /\ WReturn
       \/ /\ ~HasRoom(head) /\ wmode \in {"block", "timed"}
          /\ wpc' = "check"
          /\ UNCHANGED <<wop, wmode, wdata, wi>>
    /\ UNCHANGED <<tail, head, shadow_tail, buffer, rvars, out>>

WriteSlot ==
    /\ wpc = "write" /\ wi < Len(wdata)
    /\ buffer' = [buffer EXCEPT ![Slot(tail + wi)] = wdata[wi + 1]]
    /\ wi' = wi + 1
    /\ UNCHANGED <<tail, shadow_head, head, shadow_tail,
                   wpc, wop, wmode, wdata, rvars, out>>

\* The release store of tail_ publishes the whole batch.
PublishTail ==
    /\ wpc = "write" /\ wi = Len(wdata)
    /\ tail' = Add(tail, Len(wdata))
    /\ WReturn
    /\ UNCHANGED <<shadow_head, head, shadow_tail, buffer, rvars, out>>
-----------------------------------------------------------------------------
\* Consumer.

\* try_consume / try_pop (n = 1), try_pop_n / try_consume_n, try_consume_all
\* (n = Capacity) and their blocking and timed forms.
ConsumeCall(n, mode) ==
    /\ rpc = "idle"
    /\ rpc' = "check" /\ rop' = "consume" /\ rmode' = mode
    /\ rn' = n /\ ri' = 0 /\ rout' = <<>>
    /\ UNCHANGED <<tail, shadow_head, head, shadow_tail, buffer, wvars, out>>

\* try_peek: the head element, without advancing head_.
PeekCall ==
    /\ rpc = "idle"
    /\ rpc' = "check" /\ rop' = "peek" /\ rmode' = "try"
    /\ rn' = 1 /\ ri' = 0 /\ rout' = <<>>
    /\ UNCHANGED <<tail, shadow_head, head, shadow_tail, buffer, wvars, out>>

RReturn == /\ rpc' = "idle" /\ rop' = "consume" /\ rmode' = "try"
           /\ rn' = 0 /\ ri' = 0 /\ rout' = <<>>

\* The number of elements a call takes: min(available, n).
Take(t) == IF Diff(t, head) < rn THEN Diff(t, head) ELSE rn

CheckShadowTail ==
    /\ rpc = "check"
    /\ \/ shadow_tail = head /\ rpc' = "reload" /\ UNCHANGED rn
       \/ shadow_tail # head /\ rpc' = "read" /\ rn' = Take(shadow_tail)
    /\ UNCHANGED <<tail, shadow_head, head, shadow_tail, buffer, wvars,
                   rop, rmode, ri, rout, out>>

\* The acquire load of tail_ and the refresh of the shadow.
ReloadTail ==
    /\ rpc = "reload"
    /\ shadow_tail' = tail
    /\ \/ /\ tail # head
          /\ rpc' = "read" /\ rn' = Take(tail)
          /\ UNCHANGED <<rop, rmode, ri, rout>>
       \/ /\ tail = head /\ rmode \in {"try", "timed"}
          /\ RReturn
       \/ /\ tail = head /\ rmode \in {"block", "timed"}
          /\ rpc' = "check"
          /\ UNCHANGED <<rop, rmode, rn, ri, rout>>
    /\ UNCHANGED <<tail, shadow_head, head, buffer, wvars, out>>

ReadHeadSlot ==
    /\ rpc = "read" /\ ri < rn
    /\ rout' = Append(rout, buffer[Slot(head)])
    /\ ri' = ri + 1
    /\ UNCHANGED <<tail, shadow_head, head, shadow_tail, buffer, wvars,
                   rpc, rop, rmode, rn, out>>
ReadSlot ==
    /\ rpc = "read" /\ ri < rn
    /\ rout' = Append(rout, buffer[Slot(head + ri)])
    /\ ri' = ri + 1
    /\ UNCHANGED <<tail, shadow_head, head, shadow_tail, buffer, wvars,
                   rpc, rop, rmode, rn, out>>

\* The release store of head_ gives the slots back to the producer.
PublishHead ==
    /\ rpc = "read" /\ ri = rn /\ rop = "consume"
    /\ head' = Add(head, rn)
    /\ out' = rout
    /\ RReturn
    /\ UNCHANGED <<tail, shadow_head, shadow_tail, buffer, wvars>>

PeekReturn ==
    /\ rpc = "read" /\ ri = rn /\ rop = "peek"
    /\ out' = rout
    /\ RReturn
    /\ UNCHANGED <<tail, shadow_head, head, shadow_tail, buffer, wvars>>
-----------------------------------------------------------------------------

\* clear() may only be called while neither thread is inside the queue.
Clear ==
    /\ wpc = "idle" /\ rpc = "idle"
    /\ head' = tail /\ shadow_head' = tail /\ shadow_tail' = tail
    /\ UNCHANGED <<tail, buffer, wvars, rvars, out>>

WriterStep == CheckShadowHead \/ ReloadHead \/ WriteSlot \/ PublishTail
ReaderStep == CheckShadowTail \/ ReloadTail \/ ReadSlot \/ PublishHead \/ PeekReturn

Consume == \E n \in 1..MaxBatch, mode \in Modes : ConsumeCall(n, mode)

Next ==
    \/ \E d \in Data, mode \in Modes : ProduceCall(d, mode)
    \/ \E ds \in Batches, mode \in Modes : ProduceNCall(ds, mode)
    \/ WriterStep
    \/ Consume
    \/ PeekCall
    \/ ReaderStep
    \/ Clear

Spec == Init /\ [][Next]_vars

\* Both threads keep executing the call they are in, and the consumer calls
\* consume again and again (the blocking calls ask for an active peer).
Fairness ==
    /\ WF_vars(WriterStep)
    /\ WF_vars(ReaderStep)
    /\ SF_vars(Consume)

LiveSpec == Spec /\ Fairness
-----------------------------------------------------------------------------
\* Type invariant: every index and shadow stays a size_t, and each side's call
\* in progress is well formed.
TypeOK ==
    /\ tail \in Index /\ shadow_head \in Index
    /\ head \in Index /\ shadow_tail \in Index
    /\ buffer \in [Slots -> Data]
    /\ wpc \in {"idle", "check", "reload", "write"}
    /\ wop \in {"one", "n"} /\ wmode \in Modes
    /\ wdata \in Batches \cup {<<>>} /\ wi \in 0..MaxBatch
    /\ rpc \in {"idle", "check", "reload", "read"}
    /\ rop \in {"consume", "peek"} /\ rmode \in Modes
    /\ rn \in 0..MaxBatch /\ ri \in 0..MaxBatch
    /\ rout \in Seq(Data)
    /\ out \in Seq(Data)

\* The slots the producer is about to write, and those the consumer may read.
Writing == IF wpc = "write" THEN {Slot(tail + k) : k \in wi..(Len(wdata) - 1)} ELSE {}
Reading == IF rpc = "read" THEN {Slot(head + k) : k \in 0..(rn - 1)} ELSE {}

\* No slot is written while the consumer's visitor may still look at it: the
\* reason why the elements themselves need not be atomic.
NoSlotRace == Writing \cap Reading = {}

\* The stale shadows are safe: what the consumer believes available is, and
\* what the producer believes free is.
ShadowsConservative ==
    /\ Diff(shadow_tail, head) <= Diff(tail, head)
    /\ Diff(tail, head) <= Diff(tail, shadow_head)
    /\ Diff(tail, shadow_head) <= Capacity

\* A producer past its space test has room for its whole batch, by the index
\* it tested against, and what it wrote so far is behind the tail.
WriterInv ==
    /\ wpc # "idle" => wdata # <<>>
    /\ wop = "one" => Len(wdata) <= 1
    /\ wi <= Len(wdata)
    /\ wpc # "write" => wi = 0
    /\ wpc = "write" =>
          /\ Diff(tail, shadow_head) + Len(wdata) <= Capacity
          /\ \A k \in 0..(wi - 1) : buffer[Slot(tail + k)] = wdata[k + 1]

\* A consumer past its emptiness test takes no more than it saw published,
\* and has collected the oldest elements in order.
ReaderInv ==
    /\ rpc # "idle" => rn >= 1
    /\ rop = "peek" => rn <= 1
    /\ ri <= rn /\ Len(rout) = ri
    /\ rpc # "read" => ri = 0
    /\ rpc = "read" =>
          /\ rn <= Diff(shadow_tail, head)
          /\ \A k \in 1..ri : rout[k] = buffer[Slot(head + k - 1)]

\* The inductive strengthening: the shadows are conservative and each side's
\* half-finished call stays within what they allow it.
IndInv == TypeOK /\ ShadowsConservative /\ WriterInv /\ ReaderInv

\* The abstract contents: the published, unconsumed slots in order.
Contents == [i \in 1..Diff(tail, head) |-> buffer[Slot(head + i - 1)]]

Fifo == INSTANCE BoundedFifo WITH q <- Contents

\* The ring implements a bounded FIFO: every publication appends one whole
\* offered batch, every completed read hands over exactly the oldest
\* elements, and no other step disturbs the contents.
ImplementsFifo == Fifo!Spec

\* A blocked push of a batch that fits completes as long as the consumer
\* keeps consuming: the back-pressure never wedges the producer.
BlockedPushCompletes ==
    (wpc # "idle" /\ Len(wdata) <= Capacity) ~> (wpc = "idle")
=============================================================================
