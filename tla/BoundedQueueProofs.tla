------------------------- MODULE BoundedQueueProofs -------------------------
(***************************************************************************)
(* Machine-checked proofs about BoundedQueue, for every capacity, index    *)
(* width, element type and batch bound.                                    *)
(***************************************************************************)
EXTENDS BoundedQueue, WrapArithmetic

\* Index arithmetic is well typed.
LEMMA IndexType ==
    ASSUME NEW a \in Int, NEW b \in Int
    PROVE  Add(a, b) \in Index /\ Diff(a, b) \in Index /\ Slot(a) \in Slots
BY CapacityAssumption, IndexModAssumption DEF Add, Diff, Slot, Index, Slots

\* Both, without the modulus.
LEMMA DiffForm ==
    ASSUME NEW a \in Index, NEW b \in Index
    PROVE  Diff(a, b) = IF a >= b THEN a - b ELSE a - b + IndexMod
BY CapacityAssumption, IndexModAssumption DEF Diff, Index

LEMMA AddForm ==
    ASSUME NEW a \in Index, NEW n \in 0..(IndexMod - 1)
    PROVE  Add(a, n) = IF a + n < IndexMod THEN a + n ELSE a + n - IndexMod
BY CapacityAssumption, IndexModAssumption DEF Add, Index

\* Publishing n elements makes the distance to the other index n larger ...
LEMMA DiffAddLeft ==
    ASSUME NEW a \in Index, NEW b \in Index, NEW n \in Nat,
           Diff(a, b) + n < IndexMod
    PROVE  Diff(Add(a, n), b) = Diff(a, b) + n
<1>1. n \in 0..(IndexMod - 1)
  BY IndexModAssumption, DiffForm DEF Index
<1> DEFINE c == Add(a, n)
<1>2. c \in Index
  BY IndexType DEF Index
<1>3. c = IF a + n < IndexMod THEN a + n ELSE a + n - IndexMod
  BY <1>1, AddForm
<1> HIDE DEF c
<1>4. Diff(c, b) = IF c >= b THEN c - b ELSE c - b + IndexMod
  BY <1>2, DiffForm
<1>5. Diff(a, b) = IF a >= b THEN a - b ELSE a - b + IndexMod
  BY DiffForm
<1>6. Diff(c, b) = Diff(a, b) + n
  BY <1>2, <1>3, <1>4, <1>5, IndexModAssumption DEF Index
<1>7. QED
  BY <1>6 DEF c

\* ... and consuming n makes it n smaller.
LEMMA DiffAddRight ==
    ASSUME NEW a \in Index, NEW b \in Index, NEW n \in Nat, n <= Diff(a, b)
    PROVE  Diff(a, Add(b, n)) = Diff(a, b) - n
<1>1. n \in 0..(IndexMod - 1)
  BY IndexModAssumption, DiffForm DEF Index
<1> DEFINE c == Add(b, n)
<1>2. c \in Index
  BY IndexType DEF Index
<1>3. c = IF b + n < IndexMod THEN b + n ELSE b + n - IndexMod
  BY <1>1, AddForm
<1> HIDE DEF c
<1>4. Diff(a, c) = IF a >= c THEN a - c ELSE a - c + IndexMod
  BY <1>2, DiffForm
<1>5. Diff(a, b) = IF a >= b THEN a - b ELSE a - b + IndexMod
  BY DiffForm
<1>6. Diff(a, c) = Diff(a, b) - n
  BY <1>2, <1>3, <1>4, <1>5, IndexModAssumption DEF Index
<1>7. QED
  BY <1>6 DEF c

LEMMA DiffSelf ==
    ASSUME NEW a \in Index
    PROVE  Diff(a, a) = 0
BY CapacityAssumption, IndexModAssumption DEF Diff, Index

LEMMA DiffZero ==
    ASSUME NEW a \in Index, NEW b \in Index, Diff(a, b) = 0
    PROVE  a = b
BY IndexModAssumption, DiffForm DEF Index

\* The size_t wrap does not disturb the masking, because Capacity divides
\* IndexMod.
LEMMA SlotWrap ==
    ASSUME NEW x \in Int
    PROVE  Slot(x + IndexMod) = Slot(x) /\ Slot(x - IndexMod) = Slot(x)
<1> DEFINE K == IndexMod \div Capacity
<1>1. K \in Int /\ IndexMod = Capacity * K
  BY CapacityAssumption, IndexModAssumption, PowerOfTwoAssumption, DivMod
<1> HIDE DEF K
<1>2. Slot(x + IndexMod) = Slot(x)
  BY <1>1, CapacityAssumption, ModPlusMultiple DEF Slot
<1>3. x - IndexMod = x + Capacity * (-K) /\ -K \in Int
  BY <1>1, CapacityAssumption
<1>4. Slot(x - IndexMod) = Slot(x)
  BY <1>3, CapacityAssumption, ModPlusMultiple DEF Slot
<1>5. QED
  BY <1>2, <1>4

\* A slot counted from one index, counted from another.
LEMMA SlotShift ==
    ASSUME NEW a \in Index, NEW b \in Index, NEW k \in Int
    PROVE  Slot(a + k) = Slot(b + (Diff(a, b) + k))
<1>1. CASE a >= b
  <2>1. b + (Diff(a, b) + k) = a + k
    BY <1>1, IndexModAssumption, DiffForm DEF Index
  <2>2. QED
    BY <2>1
<1>2. CASE a < b
  <2>1. b + (Diff(a, b) + k) = (a + k) + IndexMod
    BY <1>2, IndexModAssumption, DiffForm DEF Index
  <2>2. QED
    BY <2>1, SlotWrap DEF Index
<1>3. QED
  BY <1>1, <1>2 DEF Index

LEMMA SlotAdd ==
    ASSUME NEW a \in Index, NEW n \in 0..(IndexMod - 1), NEW k \in Int
    PROVE  Slot(Add(a, n) + k) = Slot(a + (n + k))
<1>1. CASE a + n < IndexMod
  BY <1>1, IndexModAssumption, AddForm DEF Index
<1>2. CASE a + n >= IndexMod
  <2>1. Add(a, n) + k = (a + (n + k)) - IndexMod
    BY <1>2, IndexModAssumption, AddForm DEF Index
  <2>2. QED
    BY <2>1, SlotWrap DEF Index
<1>3. QED
  BY <1>1, <1>2, IndexModAssumption DEF Index

\* Two positions less than Capacity apart do not share a slot.
LEMMA SlotInjective ==
    ASSUME NEW a \in Int, NEW j \in Int, NEW k \in Int,
           j < k, k < j + Capacity
    PROVE  Slot(a + j) # Slot(a + k)
<1> DEFINE x == a + j
           y == a + k
<1>1. x \in Int /\ y \in Int /\ x <= y /\ y < x + Capacity /\ x # y
  BY CapacityAssumption
<1> HIDE DEF x, y
<1>2. x % Capacity # y % Capacity
  BY <1>1, CapacityAssumption, ModInjective
<1>3. QED
  BY <1>2 DEF Slot, x, y

LEMMA BatchType ==
    ASSUME NEW ds \in Batches
    PROVE  ds \in Seq(Data) /\ Len(ds) \in 1..MaxBatch /\ ds # <<>>
BY MaxBatchAssumption DEF Batches
-----------------------------------------------------------------------------
\* The type invariant, one lemma for the steps of each thread.
LEMMA TypeInit == Init => TypeOK
BY CapacityAssumption, IndexModAssumption, DataAssumption, MaxBatchAssumption
   DEF Init, WIdle, RIdle, TypeOK, Index, Slots, Modes

LEMMA TypeWriter ==
    ASSUME TypeOK, WriterStep, wi <= Len(wdata)
    PROVE  TypeOK'
<1> USE DEF TypeOK, Index, Modes
<1>1. CASE CheckShadowHead
  BY <1>1 DEF CheckShadowHead, rvars
<1>2. CASE ReloadHead
  BY <1>2, MaxBatchAssumption DEF ReloadHead, WReturn, rvars
<1>3. CASE WriteSlot
  <2>1. Slot(tail + wi) \in Slots
    BY IndexType
  <2>2. wdata \in Batches
    BY <1>3 DEF WriteSlot
  <2>3. wdata \in Seq(Data) /\ Len(wdata) <= MaxBatch
    BY <2>2, BatchType
  <2>4. wdata[wi + 1] \in Data /\ wi + 1 \in 0..MaxBatch
    BY <1>3, <2>3, MaxBatchAssumption DEF WriteSlot
  <2>5. QED
    BY <1>3, <2>1, <2>4 DEF WriteSlot, rvars
<1>4. CASE PublishTail
  <2>1. tail' \in Index
    BY <1>4, BatchType, IndexType DEF PublishTail
  <2>2. QED
    BY <1>4, <2>1, MaxBatchAssumption DEF PublishTail, WReturn, rvars
<1>5. QED
  BY <1>1, <1>2, <1>3, <1>4 DEF WriterStep

LEMMA TypeReader ==
    ASSUME TypeOK, ReaderStep, ri <= rn
    PROVE  TypeOK'
<1> USE DEF TypeOK, Index, Modes
<1>1. ASSUME NEW t \in Index PROVE Take(t) \in 0..MaxBatch
  <2>1. Diff(t, head) \in Index
    BY IndexType
  <2>2. QED
    BY <2>1, MaxBatchAssumption DEF Take
<1>2. CASE CheckShadowTail
  <2>1. Take(shadow_tail) \in 0..MaxBatch
    BY <1>1
  <2>2. QED
    BY <2>1, <1>2 DEF CheckShadowTail, wvars
<1>3. CASE ReloadTail
  <2>1. Take(tail) \in 0..MaxBatch
    BY <1>1
  <2>2. CASE tail # head
    BY <2>1, <2>2, <1>3 DEF ReloadTail, wvars
  <2>3. CASE tail = head /\ rpc' = "idle"
    BY <2>3, <1>3, MaxBatchAssumption DEF ReloadTail, RReturn, wvars
  <2>4. CASE tail = head /\ rpc' = "check"
    BY <2>4, <1>3, MaxBatchAssumption DEF ReloadTail, RReturn, wvars
  <2>5. QED
    BY <1>3, <2>2, <2>3, <2>4 DEF ReloadTail, RReturn
<1>4. CASE ReadSlot
  <2>1. buffer[Slot(head + ri)] \in Data
    BY IndexType
  <2>2. QED
    BY <1>4, <2>1, MaxBatchAssumption DEF ReadSlot, wvars
<1>5. CASE PublishHead
  <2>1. head' \in Index
    BY <1>5, IndexType DEF PublishHead
  <2>2. QED
    BY <1>5, <2>1, MaxBatchAssumption DEF PublishHead, RReturn, wvars
<1>6. CASE PeekReturn
  BY <1>6, MaxBatchAssumption DEF PeekReturn, RReturn, wvars
<1>7. QED
  BY <1>2, <1>3, <1>4, <1>5, <1>6 DEF ReaderStep

\* The calls and clear().
LEMMA TypeCalls ==
    ASSUME TypeOK,
           \/ \E d \in Data, mode \in Modes : ProduceCall(d, mode)
           \/ \E ds \in Batches, mode \in Modes : ProduceNCall(ds, mode)
           \/ Consume \/ PeekCall \/ Clear
    PROVE  TypeOK'
<1>1. ASSUME NEW d \in Data, NEW mode \in Modes, ProduceCall(d, mode) PROVE TypeOK'
  <2>1. MaxBatch >= 1 => <<d>> \in Batches
    BY MaxBatchAssumption DEF Batches
  <2>2. QED
    BY <1>1, <2>1, MaxBatchAssumption DEF ProduceCall, TypeOK, rvars
<1>2. ASSUME NEW ds \in Batches, NEW mode \in Modes, ProduceNCall(ds, mode)
      PROVE  TypeOK'
  BY <1>2, MaxBatchAssumption DEF ProduceNCall, TypeOK, rvars
<1>3. CASE Consume
  BY <1>3, MaxBatchAssumption DEF Consume, ConsumeCall, TypeOK, wvars
<1>4. CASE PeekCall
  BY <1>4, MaxBatchAssumption DEF PeekCall, TypeOK, Modes, wvars
<1>5. CASE Clear
  BY <1>5 DEF Clear, TypeOK, wvars, rvars
<1>6. QED
  BY <1>1, <1>2, <1>3, <1>4, <1>5
-----------------------------------------------------------------------------
\* What the producer's space test establishes, in either of its two forms.
LEMMA HasRoomMeaning ==
    ASSUME IndInv, NEW h \in Index, Diff(tail, h) <= Capacity, wpc # "idle",
           HasRoom(h)
    PROVE  Diff(tail, h) + Len(wdata) <= Capacity
<1>1. Diff(tail, h) \in Index /\ Len(wdata) \in Nat
  BY IndexType, BatchType, MaxBatchAssumption DEF IndInv, TypeOK, Index
<1>2. CASE wop = "one"
  BY <1>1, <1>2, CapacityAssumption DEF IndInv, WriterInv, HasRoom, HasRoomOne, Index
<1>3. CASE wop = "n"
  <2>1. Diff(Capacity, Diff(tail, h)) = Capacity - Diff(tail, h)
    BY <1>1, CapacityAssumption, IndexModAssumption, DiffForm DEF Index
  <2>2. QED
    BY <1>1, <1>3, <2>1, CapacityAssumption DEF HasRoom, HasRoomN, Index
<1>4. QED
  BY <1>2, <1>3 DEF IndInv, TypeOK

\* What the consumer's emptiness test establishes.
LEMMA TakeMeaning ==
    ASSUME IndInv, NEW t \in Index, t # head, rpc # "idle"
    PROVE  Take(t) \in 1..rn /\ Take(t) <= Diff(t, head)
<1>1. Diff(t, head) \in Index /\ Diff(t, head) # 0
  BY IndexType, DiffZero DEF IndInv, TypeOK, Index
<1>2. rn \in Nat /\ rn >= 1
  BY MaxBatchAssumption DEF IndInv, TypeOK, ReaderInv
<1>3. QED
  BY <1>1, <1>2 DEF Take, Index

\* The slots ahead of the tail that the producer may write are none of those
\* that hold published elements ...
LEMMA SlotsApart ==
    ASSUME IndInv, wpc = "write",
           NEW k \in 0..(Len(wdata) - 1), NEW j \in 0..(Diff(tail, head) - 1)
    PROVE  Slot(head + j) # Slot(tail + k)
<1> DEFINE N == Diff(tail, head)
           L == Len(wdata)
<1>1. N \in Nat /\ L \in Nat
  BY IndexType, BatchType, MaxBatchAssumption DEF IndInv, TypeOK, Index
<1>2. N + L <= Capacity
  <2>1. /\ Diff(tail, shadow_head) \in Nat
        /\ N <= Diff(tail, shadow_head)
        /\ Diff(tail, shadow_head) + L <= Capacity
    BY IndexType DEF IndInv, TypeOK, Index, ShadowsConservative, WriterInv
  <2> HIDE DEF N, L
  <2>2. QED
    BY <1>1, <2>1, CapacityAssumption
<1>3. Slot(tail + k) = Slot(head + (N + k))
  BY SlotShift, <1>1 DEF IndInv, TypeOK
<1>4. k \in 0..(L - 1) /\ j \in 0..(N - 1)
  OBVIOUS
<1> HIDE DEF N, L
<1>5. Slot(head + j) # Slot(head + (N + k))
  <2>1. j < N + k /\ N + k < j + Capacity /\ N + k \in Int /\ j \in Int /\ head \in Int
    BY <1>1, <1>2, <1>4, CapacityAssumption DEF IndInv, TypeOK, Index
  <2>2. QED
    BY <2>1, SlotInjective
<1>6. QED
  BY <1>3, <1>5

\* ... and a consumer in the middle of a read looks at published elements only.
LEMMA ReadsPublished ==
    ASSUME IndInv, rpc = "read"
    PROVE  rn \in 1..Diff(tail, head) /\ Diff(tail, head) \in 0..Capacity
<1>1. /\ Diff(shadow_tail, head) \in Nat /\ Diff(tail, head) \in Nat
      /\ Diff(tail, shadow_head) \in Nat /\ rn \in Nat
  BY IndexType DEF IndInv, TypeOK, Index
<1>2. QED
  BY <1>1, CapacityAssumption DEF IndInv, ShadowsConservative, ReaderInv
-----------------------------------------------------------------------------
\* Inductive step, producer.
LEMMA InvCheckShadowHead ==
    ASSUME IndInv, CheckShadowHead
    PROVE  IndInv'
<1>1. TypeOK'
  BY TypeWriter DEF IndInv, WriterInv, WriterStep
<1>2. ShadowsConservative'
  BY DEF IndInv, ShadowsConservative, CheckShadowHead
<1>3. WriterInv'
  <2>1. HasRoom(shadow_head) => Diff(tail, shadow_head) + Len(wdata) <= Capacity
    BY HasRoomMeaning DEF IndInv, TypeOK, ShadowsConservative, CheckShadowHead
  <2>2. wi = 0
    BY DEF IndInv, WriterInv, CheckShadowHead
  <2>3. QED
    BY <2>1, <2>2 DEF IndInv, WriterInv, CheckShadowHead
<1>4. ReaderInv'
  BY DEF IndInv, ReaderInv, CheckShadowHead, rvars
<1>5. QED
  BY <1>1, <1>2, <1>3, <1>4 DEF IndInv

LEMMA InvReloadHead ==
    ASSUME IndInv, ReloadHead
    PROVE  IndInv'
<1>1. TypeOK'
  BY TypeWriter DEF IndInv, WriterInv, WriterStep
<1>2. /\ Diff(tail, head) \in Nat /\ Diff(tail, head) <= Capacity
      /\ Diff(shadow_tail, head) <= Diff(tail, head)
  <2>1. /\ Diff(tail, head) \in Index /\ Diff(shadow_tail, head) \in Index
        /\ Diff(tail, shadow_head) \in Index
    BY IndexType DEF IndInv, TypeOK, Index
  <2>2. QED
    BY <2>1, CapacityAssumption DEF IndInv, Index, ShadowsConservative
<1>3. ShadowsConservative'
  BY <1>2 DEF ShadowsConservative, ReloadHead
<1>4. WriterInv'
  <2>1. HasRoom(head) => Diff(tail, head) + Len(wdata) <= Capacity
    BY <1>2, HasRoomMeaning DEF IndInv, TypeOK, ReloadHead
  <2>2. wi = 0
    BY DEF IndInv, WriterInv, ReloadHead
  <2>3. CASE wpc' = "idle"
    BY <2>3 DEF ReloadHead, WReturn, WriterInv
  <2>4. CASE wpc' # "idle"
    BY <2>1, <2>2, <2>4 DEF IndInv, WriterInv, ReloadHead, WReturn
  <2>5. QED
    BY <2>3, <2>4
<1>5. ReaderInv'
  BY DEF IndInv, ReaderInv, ReloadHead, rvars
<1>6. QED
  BY <1>1, <1>3, <1>4, <1>5 DEF IndInv

LEMMA InvWriteSlot ==
    ASSUME IndInv, WriteSlot
    PROVE  IndInv'
<1>1. TypeOK'
  BY TypeWriter DEF IndInv, WriterInv, WriterStep
<1>2. ShadowsConservative'
  BY DEF IndInv, ShadowsConservative, WriteSlot
<1>3. /\ wpc = "write" /\ wi \in 0..(Len(wdata) - 1) /\ Len(wdata) \in Nat
      /\ tail \in Int /\ head \in Int
      /\ buffer \in [Slots -> Data] /\ Slot(tail + wi) \in Slots
  <2>1. wdata \in Batches /\ wi \in Nat /\ wpc = "write"
    BY MaxBatchAssumption DEF IndInv, TypeOK, WriterInv, WriteSlot
  <2>2. Len(wdata) \in Nat
    BY <2>1, BatchType, MaxBatchAssumption
  <2>3. tail \in Int /\ head \in Int /\ buffer \in [Slots -> Data]
    BY DEF IndInv, TypeOK, Index
  <2>4. Slot(tail + wi) \in Slots
    BY <2>1, <2>3, IndexType
  <2>5. wi < Len(wdata)
    BY DEF WriteSlot
  <2>6. QED
    BY <2>1, <2>2, <2>3, <2>4, <2>5
<1>4. WriterInv'
  <2>1. Diff(tail, shadow_head) \in Nat /\ Diff(tail, shadow_head) + Len(wdata) <= Capacity
    BY <1>3, IndexType DEF IndInv, WriterInv, TypeOK, Index
  <2>2. ASSUME NEW k \in 0..(wi' - 1)
        PROVE  buffer'[Slot(tail + k)] = wdata[k + 1]
    <3>1. CASE k = wi
      BY <1>3, <3>1 DEF WriteSlot
    <3>2. CASE k < wi
      <4>1. Slot(tail + k) # Slot(tail + wi)
        <5>1. wi < k + Capacity /\ k \in Int /\ wi \in Int
          BY <1>3, <2>1, <3>2, CapacityAssumption
        <5>2. QED
          BY <1>3, <3>2, <5>1, SlotInjective
      <4>2. buffer[Slot(tail + k)] = wdata[k + 1]
        BY <1>3, <3>2 DEF IndInv, WriterInv
      <4>3. QED
        BY <1>3, <4>1, <4>2, IndexType DEF WriteSlot
    <3>3. QED
      BY <1>3, <3>1, <3>2 DEF WriteSlot
  <2>3. QED
    BY <1>3, <2>1, <2>2 DEF IndInv, WriterInv, WriteSlot
<1>5. ReaderInv'
  <2>1. ASSUME rpc = "read", NEW k \in 1..ri
        PROVE  buffer'[Slot(head + k - 1)] = buffer[Slot(head + k - 1)]
    <3>1. k - 1 \in 0..(Diff(tail, head) - 1) /\ head + (k - 1) = head + k - 1
      BY <1>3, <2>1, ReadsPublished DEF IndInv, ReaderInv, TypeOK
    <3>2. Slot(head + (k - 1)) # Slot(tail + wi)
      BY <1>3, <2>1, <3>1, SlotsApart
    <3>3. Slot(head + k - 1) \in Slots
      BY <1>3, IndexType
    <3>4. QED
      BY <1>3, <3>1, <3>2, <3>3 DEF WriteSlot
  <2>2. QED
    BY <2>1 DEF IndInv, ReaderInv, WriteSlot, rvars
<1>6. QED
  BY <1>1, <1>2, <1>4, <1>5 DEF IndInv

LEMMA InvPublishTail ==
    ASSUME IndInv, PublishTail
    PROVE  IndInv'
<1>1. TypeOK'
  BY TypeWriter DEF IndInv, WriterInv, WriterStep
<1> DEFINE L == Len(wdata)
<1>2. /\ tail \in Index /\ head \in Index /\ shadow_head \in Index
      /\ L \in Nat
      /\ Diff(tail, head) \in Nat /\ Diff(tail, shadow_head) \in Nat
      /\ Diff(shadow_tail, head) \in Nat
  BY IndexType, BatchType, MaxBatchAssumption DEF IndInv, TypeOK, Index
<1>3. /\ Diff(tail, head) <= Diff(tail, shadow_head)
      /\ Diff(tail, shadow_head) + L <= Capacity
      /\ Diff(shadow_tail, head) <= Diff(tail, head)
  BY DEF IndInv, ShadowsConservative, WriterInv, PublishTail
<1>4. /\ Diff(tail', head) = Diff(tail, head) + L
      /\ Diff(tail', shadow_head) = Diff(tail, shadow_head) + L
  <2> HIDE DEF L
  <2>1. /\ Diff(tail, head) + L < IndexMod
        /\ Diff(tail, shadow_head) + L < IndexMod
    BY <1>2, <1>3, CapacityAssumption, IndexModAssumption
  <2>2. tail' = Add(tail, L)
    BY DEF PublishTail, L
  <2>3. QED
    BY <1>2, <2>1, <2>2, DiffAddLeft
<1>5. ShadowsConservative'
  <2> HIDE DEF L
  <2>1. QED
    BY <1>2, <1>3, <1>4, CapacityAssumption DEF ShadowsConservative, PublishTail
<1>6. WriterInv'
  BY DEF WriterInv, PublishTail, WReturn
<1>7. ReaderInv'
  BY DEF IndInv, ReaderInv, PublishTail, rvars
<1>8. QED
  BY <1>1, <1>5, <1>6, <1>7 DEF IndInv
-----------------------------------------------------------------------------
\* Inductive step, consumer.
LEMMA InvCheckShadowTail ==
    ASSUME IndInv, CheckShadowTail
    PROVE  IndInv'
<1>1. TypeOK'
  BY TypeReader DEF IndInv, ReaderInv, ReaderStep
<1>2. ShadowsConservative' /\ WriterInv'
  BY DEF IndInv, ShadowsConservative, WriterInv, CheckShadowTail, wvars
<1>3. ReaderInv'
  <2>1. shadow_tail # head =>
            Take(shadow_tail) \in 1..rn /\ Take(shadow_tail) <= Diff(shadow_tail, head)
    BY TakeMeaning DEF IndInv, TypeOK, CheckShadowTail
  <2>2. rn \in Nat
    BY DEF IndInv, TypeOK
  <2>3. QED
    BY <2>1, <2>2 DEF IndInv, ReaderInv, CheckShadowTail
<1>4. QED
  BY <1>1, <1>2, <1>3 DEF IndInv

LEMMA InvReloadTail ==
    ASSUME IndInv, ReloadTail
    PROVE  IndInv'
<1>1. TypeOK'
  BY TypeReader DEF IndInv, ReaderInv, ReaderStep
<1>2. ShadowsConservative'
  <2>1. Diff(tail, head) \in Nat
    BY IndexType DEF IndInv, TypeOK, Index
  <2>2. QED
    BY <2>1 DEF IndInv, ShadowsConservative, ReloadTail
<1>3. WriterInv'
  BY DEF IndInv, WriterInv, ReloadTail, wvars
<1>4. ReaderInv'
  <2>1. rn \in Nat /\ ri = 0 /\ rn >= 1 /\ (rop = "peek" => rn <= 1) /\ Len(rout) = ri
    BY DEF IndInv, TypeOK, ReaderInv, ReloadTail
  <2>2. CASE tail # head
    <3>1. Take(tail) \in 1..rn /\ Take(tail) <= Diff(tail, head)
      BY <2>2, TakeMeaning DEF IndInv, TypeOK, ReloadTail
    <3>2. QED
      BY <2>1, <2>2, <3>1 DEF ReaderInv, ReloadTail
  <2>3. CASE tail = head /\ rpc' = "idle"
    BY <2>3 DEF ReloadTail, RReturn, ReaderInv
  <2>4. CASE tail = head /\ rpc' = "check"
    BY <2>1, <2>4 DEF ReloadTail, RReturn, ReaderInv
  <2>5. QED
    BY <2>2, <2>3, <2>4 DEF ReloadTail, RReturn
<1>5. QED
  BY <1>1, <1>2, <1>3, <1>4 DEF IndInv

LEMMA InvReadSlot ==
    ASSUME IndInv, ReadSlot
    PROVE  IndInv'
<1>1. TypeOK'
  BY TypeReader DEF IndInv, ReaderInv, ReaderStep
<1>2. ShadowsConservative' /\ WriterInv'
  BY DEF IndInv, ShadowsConservative, WriterInv, ReadSlot, wvars
<1>3. ReaderInv'
  <2>1. /\ rn \in Nat /\ ri \in Nat /\ ri < rn /\ Len(rout) = ri
        /\ rout \in Seq(Data) /\ head \in Int
    BY DEF IndInv, TypeOK, ReaderInv, ReadSlot, Index
  <2>2. ASSUME NEW k \in 1..ri'
        PROVE  rout'[k] = buffer[Slot(head + k - 1)]
    <3>1. CASE k = ri + 1
      <4>1. head + k - 1 = head + ri
        BY <2>1, <3>1
      <4>2. rout'[k] = buffer[Slot(head + ri)]
        BY <2>1, <3>1 DEF ReadSlot
      <4>3. QED
        BY <4>1, <4>2
    <3>2. CASE k \in 1..ri
      <4>1. rout'[k] = rout[k]
        BY <2>1, <3>2 DEF ReadSlot
      <4>2. QED
        BY <3>2, <4>1 DEF IndInv, ReaderInv, ReadSlot
    <3>3. QED
      BY <2>1, <3>1, <3>2 DEF ReadSlot
  <2>3. Len(rout') = ri'
    BY <2>1 DEF ReadSlot
  <2>4. QED
    BY <2>1, <2>2, <2>3 DEF IndInv, ReaderInv, ReadSlot
<1>4. QED
  BY <1>1, <1>2, <1>3 DEF IndInv

LEMMA InvPublishHead ==
    ASSUME IndInv, PublishHead
    PROVE  IndInv'
<1>1. TypeOK'
  BY TypeReader DEF IndInv, ReaderInv, ReaderStep
<1>2. /\ tail \in Index /\ head \in Index /\ shadow_tail \in Index /\ rn \in Nat
      /\ Diff(tail, head) \in Nat /\ Diff(tail, shadow_head) \in Nat
      /\ Diff(shadow_tail, head) \in Nat
  BY IndexType DEF IndInv, TypeOK, Index
<1>3. /\ rn <= Diff(shadow_tail, head)
      /\ Diff(shadow_tail, head) <= Diff(tail, head)
      /\ Diff(tail, head) <= Diff(tail, shadow_head)
      /\ Diff(tail, shadow_head) <= Capacity
  BY DEF IndInv, ShadowsConservative, ReaderInv, PublishHead
<1>4. /\ Diff(tail, head') = Diff(tail, head) - rn
      /\ Diff(shadow_tail, head') = Diff(shadow_tail, head) - rn
  BY <1>2, <1>3, DiffAddRight DEF PublishHead
<1>5. ShadowsConservative'
  BY <1>2, <1>3, <1>4 DEF ShadowsConservative, PublishHead
<1>6. WriterInv'
  BY DEF IndInv, WriterInv, PublishHead, wvars
<1>7. ReaderInv'
  BY DEF ReaderInv, PublishHead, RReturn
<1>8. QED
  BY <1>1, <1>5, <1>6, <1>7 DEF IndInv

LEMMA InvPeekReturn ==
    ASSUME IndInv, PeekReturn
    PROVE  IndInv'
<1>1. TypeOK'
  BY TypeReader DEF IndInv, ReaderInv, ReaderStep
<1>2. ShadowsConservative' /\ WriterInv'
  BY DEF IndInv, ShadowsConservative, WriterInv, PeekReturn, wvars
<1>3. ReaderInv'
  BY DEF ReaderInv, PeekReturn, RReturn
<1>4. QED
  BY <1>1, <1>2, <1>3 DEF IndInv
-----------------------------------------------------------------------------
\* Inductive step, calls and clear().
LEMMA InvProduceCall ==
    ASSUME IndInv, NEW d \in Data, NEW mode \in Modes, ProduceCall(d, mode)
    PROVE  IndInv'
<1>1. TypeOK'
  BY TypeCalls DEF IndInv
<1>2. ShadowsConservative' /\ ReaderInv'
  BY DEF IndInv, ShadowsConservative, ReaderInv, ProduceCall, rvars
<1>3. WriterInv'
  BY DEF WriterInv, ProduceCall
<1>4. QED
  BY <1>1, <1>2, <1>3 DEF IndInv

LEMMA InvProduceNCall ==
    ASSUME IndInv, NEW ds \in Batches, NEW mode \in Modes, ProduceNCall(ds, mode)
    PROVE  IndInv'
<1>1. TypeOK'
  BY TypeCalls DEF IndInv
<1>2. ShadowsConservative' /\ ReaderInv'
  BY DEF IndInv, ShadowsConservative, ReaderInv, ProduceNCall, rvars
<1>3. WriterInv'
  BY BatchType, MaxBatchAssumption DEF WriterInv, ProduceNCall
<1>4. QED
  BY <1>1, <1>2, <1>3 DEF IndInv

LEMMA InvReaderCalls ==
    ASSUME IndInv, Consume \/ PeekCall
    PROVE  IndInv'
<1>1. TypeOK'
  BY TypeCalls DEF IndInv
<1>2. ShadowsConservative' /\ WriterInv'
  BY DEF IndInv, ShadowsConservative, WriterInv, Consume, ConsumeCall, PeekCall, wvars
<1>3. ReaderInv'
  BY MaxBatchAssumption DEF ReaderInv, Consume, ConsumeCall, PeekCall
<1>4. QED
  BY <1>1, <1>2, <1>3 DEF IndInv

LEMMA InvClear ==
    ASSUME IndInv, Clear
    PROVE  IndInv'
<1>1. TypeOK'
  BY TypeCalls DEF IndInv
<1>2. ShadowsConservative'
  BY DiffSelf, CapacityAssumption DEF IndInv, TypeOK, ShadowsConservative, Clear
<1>3. WriterInv' /\ ReaderInv'
  BY DEF IndInv, WriterInv, ReaderInv, Clear, wvars, rvars
<1>4. QED
  BY <1>1, <1>2, <1>3 DEF IndInv

LEMMA InvInit == Init => IndInv
<1> SUFFICES ASSUME Init PROVE IndInv
  OBVIOUS
<1>1. TypeOK
  BY TypeInit
<1>2. ShadowsConservative
  BY <1>1, DiffSelf, CapacityAssumption DEF Init, TypeOK, ShadowsConservative
<1>3. WriterInv /\ ReaderInv
  BY DEF Init, WIdle, RIdle, WriterInv, ReaderInv
<1>4. QED
  BY <1>1, <1>2, <1>3 DEF IndInv

LEMMA InvNext == IndInv /\ [Next]_vars => IndInv'
<1> SUFFICES ASSUME IndInv, [Next]_vars PROVE IndInv'
  OBVIOUS
<1>1. CASE UNCHANGED vars
  BY <1>1 DEF vars, wvars, rvars, IndInv, TypeOK, ShadowsConservative, WriterInv, ReaderInv
<1>2. CASE WriterStep
  BY <1>2, InvCheckShadowHead, InvReloadHead, InvWriteSlot, InvPublishTail DEF WriterStep
<1>3. CASE ReaderStep
  BY <1>3, InvCheckShadowTail, InvReloadTail, InvReadSlot, InvPublishHead, InvPeekReturn
     DEF ReaderStep
<1>4. QED
  BY <1>1, <1>2, <1>3, InvProduceCall, InvProduceNCall, InvReaderCalls, InvClear DEF Next

\* The indices stay in range and every slot holds an element: TypeOK always.
THEOREM BoundedQueueTypeCorrect == Spec => []TypeOK
<1>1. IndInv => TypeOK
  BY DEF IndInv
<1>2. QED
  BY <1>1, InvInit, InvNext, PTL DEF Spec

\* The shadow indices are always conservative, whatever the interleaving and
\* however often the indices wrap.
THEOREM BoundedQueueShadows == Spec => []ShadowsConservative
<1>1. IndInv => ShadowsConservative
  BY DEF IndInv
<1>2. QED
  BY <1>1, InvInit, InvNext, PTL DEF Spec

\* The producer never writes a slot the consumer may be reading.
THEOREM BoundedQueueNoSlotRace == Spec => []NoSlotRace
<1>1. IndInv => NoSlotRace
  <2> SUFFICES ASSUME IndInv, NEW s \in Writing, s \in Reading PROVE FALSE
    BY DEF NoSlotRace
  <2>1. wpc = "write" /\ rpc = "read"
    BY DEF Writing, Reading
  <2>2. PICK k \in wi..(Len(wdata) - 1) : s = Slot(tail + k)
    BY <2>1 DEF Writing
  <2>3. PICK j \in 0..(rn - 1) : s = Slot(head + j)
    BY <2>1 DEF Reading
  <2>4. k \in 0..(Len(wdata) - 1)
    BY BatchType, MaxBatchAssumption DEF IndInv, TypeOK
  <2>5. j \in 0..(Diff(tail, head) - 1)
    BY <2>1, ReadsPublished
  <2>6. QED
    BY <2>1, <2>2, <2>3, <2>4, <2>5, SlotsApart
<1>2. QED
  BY <1>1, InvInit, InvNext, PTL DEF Spec
-----------------------------------------------------------------------------
\* Refinement: the abstract contents.
LEMMA ContentsType ==
    ASSUME IndInv
    PROVE  /\ Contents \in Seq(Data) /\ Len(Contents) = Diff(tail, head)
           /\ Diff(tail, head) \in Nat
           /\ \A i \in 1..Diff(tail, head) : Contents[i] = buffer[Slot(head + i - 1)]
<1>1. Diff(tail, head) \in Nat /\ head \in Int
  BY IndexType DEF IndInv, TypeOK, Index
<1>2. \A i \in 1..Diff(tail, head) : buffer[Slot(head + i - 1)] \in Data
  BY <1>1, IndexType DEF IndInv, TypeOK
<1>3. QED
  BY <1>1, <1>2 DEF Contents

\* Writing a slot that is not published yet is invisible.
LEMMA RefWriteSlot ==
    ASSUME IndInv, WriteSlot
    PROVE  UNCHANGED <<Contents, out>>
<1>1. Diff(tail, head) \in Nat /\ head \in Int /\ wpc = "write" /\ wi \in 0..(Len(wdata) - 1)
  <2>1. wdata \in Batches /\ wi \in Nat /\ wpc = "write" /\ wi < Len(wdata)
    BY MaxBatchAssumption DEF IndInv, TypeOK, WriterInv, WriteSlot
  <2>2. QED
    BY <2>1, IndexType, BatchType DEF IndInv, TypeOK, Index
<1>2. ASSUME NEW i \in 1..Diff(tail, head)
      PROVE  buffer'[Slot(head + i - 1)] = buffer[Slot(head + i - 1)]
  <2>1. i - 1 \in 0..(Diff(tail, head) - 1) /\ head + (i - 1) = head + i - 1
    BY <1>1
  <2>2. Slot(head + i - 1) # Slot(tail + wi)
    BY <1>1, <2>1, SlotsApart
  <2>3. Slot(head + i - 1) \in Slots
    BY <1>1, IndexType
  <2>4. QED
    BY <2>2, <2>3 DEF WriteSlot, IndInv, TypeOK
<1>3. QED
  BY <1>2 DEF Contents, WriteSlot

\* The release store of tail_ appends the whole batch.
LEMMA RefPublishTail ==
    ASSUME IndInv, PublishTail
    PROVE  \E ds \in Batches : Fifo!Push(ds)
<1> DEFINE N == Diff(tail, head)
           L == Len(wdata)
<1>1. IndInv'
  BY InvPublishTail
<1>2. /\ wdata \in Batches /\ wdata \in Seq(Data) /\ L \in Nat /\ wpc = "write" /\ wi = L
      /\ tail \in Index /\ head \in Index /\ N \in Nat
  <2>1. wdata \in Batches /\ wpc = "write" /\ wi = L /\ tail \in Index /\ head \in Index
    BY DEF IndInv, TypeOK, WriterInv, PublishTail
  <2>2. QED
    BY <2>1, BatchType, IndexType DEF Index
<1>3. N + L <= Capacity
  <2>1. /\ Diff(tail, shadow_head) \in Nat
        /\ N <= Diff(tail, shadow_head)
        /\ Diff(tail, shadow_head) + L <= Capacity
    BY <1>2, IndexType DEF IndInv, TypeOK, Index, ShadowsConservative, WriterInv
  <2> HIDE DEF N, L
  <2>2. QED
    BY <1>2, <2>1, CapacityAssumption
<1>4. Diff(tail', head') = N + L
  <2>1. N + L < IndexMod
    BY <1>2, <1>3, CapacityAssumption, IndexModAssumption
  <2>2. QED
    BY <1>2, <2>1, DiffAddLeft DEF PublishTail
<1>5. /\ Contents \in Seq(Data) /\ Len(Contents) = N
      /\ \A i \in 1..N : Contents[i] = buffer[Slot(head + i - 1)]
  BY ContentsType
<1>6. /\ Contents' \in Seq(Data) /\ Len(Contents') = N + L
      /\ \A i \in 1..(N + L) : Contents'[i] = buffer[Slot(head + i - 1)]
  <2>1. Contents' = [i \in 1..(N + L) |-> buffer[Slot(head + i - 1)]]
    BY <1>4 DEF Contents, PublishTail
  <2>2. \A i \in 1..(N + L) : buffer[Slot(head + i - 1)] \in Data
    BY <1>2, IndexType DEF IndInv, TypeOK, Index
  <2> HIDE DEF N, L
  <2>3. QED
    BY <1>2, <2>1, <2>2
<1>7. ASSUME NEW i \in 1..(N + L)
      PROVE  Contents'[i] = (Contents \o wdata)[i]
  <2>1. CASE i \in 1..N
    BY <1>2, <1>5, <1>6, <2>1
  <2>2. CASE i \in (N + 1)..(N + L)
    <3> DEFINE k == i - N - 1
    <3>1. k \in 0..(L - 1) /\ k \in Int /\ head + (N + k) = head + i - 1 /\ k + 1 = i - N
      BY <1>2, <2>2 DEF Index
    <3>2. Slot(tail + k) = Slot(head + (N + k))
      BY <1>2, <3>1, SlotShift
    <3>3. buffer[Slot(tail + k)] = wdata[k + 1]
      BY <1>2, <3>1 DEF IndInv, WriterInv
    <3>4. (Contents \o wdata)[i] = wdata[i - N]
      BY <1>2, <1>5, <2>2
    <3>5. QED
      BY <1>6, <3>1, <3>2, <3>3, <3>4
  <2>3. N \in Nat /\ L \in Nat /\ i \in 1..(N + L)
    BY <1>2
  <2>4. i \in 1..N \/ i \in (N + 1)..(N + L)
    <3> HIDE DEF N, L
    <3>1. QED
      BY <2>3
  <2>5. QED
    BY <2>1, <2>2, <2>4
<1>8. Contents' = Contents \o wdata
  <2>1. Contents \o wdata \in Seq(Data) /\ Len(Contents \o wdata) = N + L
    BY <1>2, <1>5
  <2> DEFINE r == Contents \o wdata
             c == Contents'
  <2>2. /\ r \in Seq(Data) /\ c \in Seq(Data) /\ Len(c) = Len(r)
        /\ \A i \in 1..Len(c) : c[i] = r[i]
    BY <1>2, <1>6, <1>7, <2>1
  <2> HIDE DEF r, c
  <2>3. c = r
    BY <2>2, SeqEqual
  <2>4. QED
    BY <2>3 DEF c, r
<1>9. QED
  BY <1>2, <1>3, <1>5, <1>8 DEF Fifo!Push, PublishTail
\* The oldest n elements, and what is left of the contents without them.
LEMMA ContentsPrefix ==
    ASSUME IndInv, NEW n \in 1..Diff(tail, head)
    PROVE  /\ SubSeq(Contents, 1, n) \in Seq(Data) /\ Len(SubSeq(Contents, 1, n)) = n
           /\ \A i \in 1..n : SubSeq(Contents, 1, n)[i] = buffer[Slot(head + i - 1)]
BY ContentsType

\* What a reader past its last slot has collected is the oldest elements.
LEMMA ReadsOldest ==
    ASSUME IndInv, rpc = "read", ri = rn
    PROVE  rout = SubSeq(Contents, 1, rn)
<1>1. rn \in 1..Diff(tail, head)
  BY ReadsPublished
<1>2. /\ rout \in Seq(Data) /\ Len(rout) = rn
      /\ \A i \in 1..rn : rout[i] = buffer[Slot(head + i - 1)]
  BY DEF IndInv, TypeOK, ReaderInv
<1> DEFINE c == SubSeq(Contents, 1, rn)
<1>3. /\ c \in Seq(Data) /\ Len(c) = rn
      /\ \A i \in 1..rn : c[i] = buffer[Slot(head + i - 1)]
  BY <1>1, ContentsPrefix
<1> HIDE DEF c
<1>4. rout = c
  BY <1>2, <1>3, SeqEqual
<1>5. QED
  BY <1>4 DEF c

\* The release store of head_ removes exactly the elements handed over.
LEMMA RefPublishHead ==
    ASSUME IndInv, PublishHead
    PROVE  \E n \in 1..Capacity : Fifo!Pop(n)
<1> DEFINE N == Diff(tail, head)
<1>1. /\ rpc = "read" /\ ri = rn /\ rn \in 1..N /\ N \in 0..Capacity
      /\ tail \in Index /\ head \in Index
  BY ReadsPublished DEF PublishHead, IndInv, TypeOK
<1>2. out' = SubSeq(Contents, 1, rn)
  BY <1>1, ReadsOldest DEF PublishHead
<1>3. head' = Add(head, rn) /\ Diff(tail', head') = N - rn
  BY <1>1, DiffAddRight DEF PublishHead
<1>4. /\ Contents \in Seq(Data) /\ Len(Contents) = N /\ N \in Nat
      /\ \A i \in 1..N : Contents[i] = buffer[Slot(head + i - 1)]
  BY ContentsType
<1>5. Contents' = [i \in 1..(N - rn) |-> buffer[Slot(Add(head, rn) + i - 1)]]
  BY <1>3 DEF Contents, PublishHead
<1> HIDE DEF N
<1>6. ASSUME NEW i \in 1..(N - rn)
      PROVE  buffer[Slot(Add(head, rn) + i - 1)] = Contents[rn + i]
  <2>1. rn \in 0..(IndexMod - 1)
    BY <1>1, IndexModAssumption, CapacityAssumption
  <2>2. Add(head, rn) + i - 1 = Add(head, rn) + (i - 1)
    BY IndexType, <1>1 DEF Index
  <2>3. Slot(Add(head, rn) + (i - 1)) = Slot(head + (rn + (i - 1)))
    BY <1>1, <2>1, SlotAdd
  <2>4. head + (rn + (i - 1)) = head + (rn + i) - 1 /\ rn + i \in 1..N
    BY <1>1, <1>4 DEF Index
  <2>5. QED
    BY <1>4, <2>2, <2>3, <2>4
<1>7. Contents' = SubSeq(Contents, rn + 1, N)
  <2> DEFINE c == SubSeq(Contents, rn + 1, N)
             r == Contents'
  <2>1. /\ c \in Seq(Data) /\ Len(c) = N - rn
        /\ \A i \in 1..(N - rn) : c[i] = Contents[rn + i]
    BY <1>1, <1>4
  <2>2. /\ r \in Seq(Data) /\ Len(r) = N - rn
        /\ \A i \in 1..(N - rn) : r[i] = Contents[rn + i]
    BY <1>1, <1>4, <1>5, <1>6
  <2> HIDE DEF c, r
  <2>3. c = r
    BY <1>1, <1>4, <2>1, <2>2, SeqEqual
  <2>4. QED
    BY <2>3 DEF c, r
<1>8. rn \in 1..Capacity /\ rn <= Len(Contents)
  BY <1>1, <1>4, CapacityAssumption
<1>9. Fifo!Pop(rn)
  BY <1>2, <1>4, <1>7, <1>8 DEF Fifo!Pop
<1>10. QED
  BY <1>8, <1>9

LEMMA RefPeekReturn ==
    ASSUME IndInv, PeekReturn
    PROVE  Fifo!Peek
<1>1. rpc = "read" /\ ri = rn /\ rn = 1 /\ Diff(tail, head) >= 1
  BY ReadsPublished DEF PeekReturn, IndInv, ReaderInv
<1>2. out' = SubSeq(Contents, 1, 1) /\ Contents' = Contents
  BY <1>1, ReadsOldest DEF PeekReturn, Contents
<1>3. Contents # <<>>
  BY <1>1, ContentsType
<1>4. QED
  BY <1>2, <1>3 DEF Fifo!Peek

LEMMA RefClear ==
    ASSUME IndInv, Clear
    PROVE  Fifo!Clear
<1>1. Diff(tail', head') = 0
  BY DiffSelf DEF Clear, IndInv, TypeOK
<1>2. Contents' = <<>>
  BY <1>1 DEF Contents
<1>3. QED
  BY <1>2 DEF Fifo!Clear, Clear

\* The ring implements the bounded FIFO: the refinement mapping takes every
\* step of the two threads to a FIFO operation or to a stutter.
THEOREM BoundedQueueImplementsFifo == Spec => ImplementsFifo
<1>1. Init => Fifo!Init
  <2> SUFFICES ASSUME Init PROVE Fifo!Init
    OBVIOUS
  <2>1. Diff(tail, head) = 0
    BY TypeInit, DiffSelf DEF Init, TypeOK
  <2>2. Contents = <<>>
    BY <2>1 DEF Contents
  <2>3. QED
    BY <2>2 DEF Init, Fifo!Init
<1>2. IndInv /\ [Next]_vars => [Fifo!Next]_(Fifo!vars)
  <2> SUFFICES ASSUME IndInv, [Next]_vars PROVE Fifo!Next \/ UNCHANGED <<Contents, out>>
    BY DEF Fifo!vars
  <2>1. CASE UNCHANGED <<tail, head, buffer, out>>
    BY <2>1 DEF Contents
  <2>2. CASE WriteSlot
    BY <2>2, RefWriteSlot
  <2>3. CASE PublishTail
    BY <2>3, RefPublishTail DEF Fifo!Next
  <2>4. CASE PublishHead
    BY <2>4, RefPublishHead DEF Fifo!Next
  <2>5. CASE PeekReturn
    BY <2>5, RefPeekReturn DEF Fifo!Next
  <2>6. CASE Clear
    BY <2>6, RefClear DEF Fifo!Next
  <2>7. CASE UNCHANGED vars
    BY <2>1, <2>7 DEF vars
  <2>8. CASE CheckShadowHead \/ ReloadHead \/ CheckShadowTail \/ ReloadTail \/ ReadSlot
    BY <2>1, <2>8 DEF CheckShadowHead, ReloadHead, CheckShadowTail, ReloadTail, ReadSlot
  <2>9. CASE \/ \E d \in Data, mode \in Modes : ProduceCall(d, mode)
             \/ \E ds \in Batches, mode \in Modes : ProduceNCall(ds, mode)
             \/ Consume \/ PeekCall
    BY <2>1, <2>9 DEF ProduceCall, ProduceNCall, Consume, ConsumeCall, PeekCall
  <2>10. QED
    BY <2>2, <2>3, <2>4, <2>5, <2>6, <2>7, <2>8, <2>9 DEF Next, WriterStep, ReaderStep
<1>3. QED
  BY <1>1, <1>2, InvInit, InvNext, PTL DEF Spec, ImplementsFifo, Fifo!Spec
=============================================================================
