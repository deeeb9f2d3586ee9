-------------------------- MODULE ContainersProofs --------------------------
(***************************************************************************)
(* The evicting queues implement the latest-value register, the history    *)
(* ring's reads are what they should be, and the byte queues hand over     *)
(* whole messages and report their losses, for every size of ring and      *)
(* element and any number of pushes.                                       *)
(***************************************************************************)
EXTENDS EvictingCell, RingBuffer, QueueBytes, WrapArithmetic, FiniteSetTheorems,
        SequenceTheorems

-----------------------------------------------------------------------------
(* EvictingQueue: the inductive invariant of the seqlock ring.             *)

\* How far the writer is: written is one ahead of the indices between the
\* slot's unlocking and the publication.
WriterPlace ==
    /\ global_index = shadow_global_index
    /\ written = IF wpc = "publish" THEN next_idx ELSE global_index
    /\ wpc # "idle" => next_idx <= MaxPush

\* An unlocked slot holds one whole element; the locked one is the writer's,
\* and the words it has written are the new element's.
SlotsWhole ==
    /\ \A s \in Slots : slots[s].seq.idx <= next_idx
    /\ \A s \in Slots : ~slots[s].seq.locked =>
          /\ slots[s].seq.idx <= written
          /\ \A w \in Words : slots[s].data[w] = slots[s].seq.idx
    /\ \A s \in Slots : slots[s].seq.locked => wpc = "write" /\ s = SlotOf(next_idx)
    /\ wpc = "write" =>
          /\ slots[SlotOf(next_idx)].seq = Locked(next_idx)
          /\ \A w \in Words : w <= wi => slots[SlotOf(next_idx)].data[w] = next_idx

\* The slot a published index points at holds that element or a newer one.
PointsAtNewest ==
    /\ global_index > 0 => slots[SlotOf(global_index)].seq.idx >= global_index
    /\ wpc = "publish" => slots[SlotOf(next_idx)].seq.idx >= next_idx

\* A read in progress: the slot still holds what its first load of the sequence
\* saw, and so do the words copied so far, or the slot has moved on for good.
ReadConsistent ==
    /\ floor <= written /\ last_global_index <= written
    /\ rpc \in {"seq1", "read"} =>
          /\ idx = floor /\ idx > last_global_index
          /\ slots[SlotOf(idx)].seq.idx >= idx
    /\ rpc # "read" => ri = 0
    /\ rpc = "read" =>
          /\ ~seq1.locked /\ seq1.idx > last_global_index
          /\ seq1.idx >= idx /\ seq1.idx <= written
          /\ \/ slots[SlotOf(idx)].seq.idx > seq1.idx
             \/ /\ slots[SlotOf(idx)].seq = seq1
                /\ \A w \in Words : w <= ri => out[w] = seq1.idx

EQInv == EQTypeOK /\ WriterPlace /\ SlotsWhole /\ PointsAtNewest /\ ReadConsistent

\* An index is masked to a slot of the ring.
LEMMA SlotOfTyped == ASSUME NEW n \in Nat PROVE SlotOf(n) \in Slots
BY CapacityAssumption, DivMod DEF SlotOf, Slots

LEMMA EQInitInv == EQInit => EQInv
<1> SUFFICES ASSUME EQInit PROVE EQInv
    OBVIOUS
<1> USE CapacityAssumption, NumWordsAssumption, MaxPushAssumption
    DEF EQInit, Words, Slots, Counts, next_idx, Unlocked
<1>1. EQTypeOK
    BY DEF EQTypeOK, SeqWord, Ops, Modes
<1>2. WriterPlace /\ SlotsWhole
    BY DEF WriterPlace, SlotsWhole
<1>3. PointsAtNewest /\ ReadConsistent
    BY DEF PointsAtNewest, ReadConsistent
<1> QED
    BY <1>1, <1>2, <1>3 DEF EQInv

\* What a store does to the slots' type.
LEMMA SlotsTyped ==
    ASSUME EQTypeOK, next_idx \in Counts
    PROVE  /\ LockSlot => slots' \in [Slots -> [seq : SeqWord, data : [Words -> Counts]]]
           /\ WriteWord => slots' \in [Slots -> [seq : SeqWord, data : [Words -> Counts]]]
           /\ UnlockSlot => slots' \in [Slots -> [seq : SeqWord, data : [Words -> Counts]]]
<1>1. SlotOf(next_idx) \in Slots /\ Locked(next_idx) \in SeqWord /\ Unlocked(next_idx) \in SeqWord
    BY SlotOfTyped, MaxPushAssumption DEF Counts, SeqWord, Locked, Unlocked
<1>2. slots \in [Slots -> [seq : SeqWord, data : [Words -> Counts]]]
    BY DEF EQTypeOK
<1>3. WriteWord => wi + 1 \in Words
    BY NumWordsAssumption DEF EQTypeOK, WriteWord, Words
<1>4. LockSlot => slots' \in [Slots -> [seq : SeqWord, data : [Words -> Counts]]]
    BY <1>1, <1>2 DEF LockSlot
<1>5. WriteWord => slots' \in [Slots -> [seq : SeqWord, data : [Words -> Counts]]]
  <2> SUFFICES ASSUME WriteWord
               PROVE  slots' \in [Slots -> [seq : SeqWord, data : [Words -> Counts]]]
      OBVIOUS
  <2>1. PICK s \in Slots, w \in Words, v \in Counts : slots' = [slots EXCEPT ![s].data[w] = v]
      BY <1>1, <1>3 DEF WriteWord
  <2> QED
      BY <1>2, <2>1
<1>6. UnlockSlot => slots' \in [Slots -> [seq : SeqWord, data : [Words -> Counts]]]
    BY <1>1, <1>2 DEF UnlockSlot
<1> QED
    BY <1>4, <1>5, <1>6

LEMMA EQNextInv == EQInv /\ [EQNext]_EQvars => EQInv'
<1> SUFFICES ASSUME EQInv, [EQNext]_EQvars PROVE EQInv'
    OBVIOUS
<1> DEFINE n == shadow_global_index + 1
<1> n \in Nat /\ SlotOf(n) \in Slots /\ SlotOf(global_index) \in Slots /\ SlotOf(idx) \in Slots
    BY SlotOfTyped DEF EQInv, EQTypeOK, Counts
<1> USE CapacityAssumption, NumWordsAssumption, MaxPushAssumption
    DEF EQInv, EQTypeOK, WriterPlace, SlotsWhole, PointsAtNewest, ReadConsistent,
        Words, Counts, next_idx, SeqWord, Locked, Unlocked, EQwvars, EQrvars, Ops, Modes
<1>1. CASE LockSlot
  <2>0. slots' \in [Slots -> [seq : SeqWord, data : [Words -> Counts]]]
    <3>1. EQTypeOK
        BY Zenon
    <3>2. next_idx \in Counts
        BY <1>1 DEF LockSlot
    <3> HIDE DEF EQTypeOK, next_idx, Counts, Words, SeqWord
    <3> QED
        BY <1>1, <3>1, <3>2, SlotsTyped
  <2>1. EQTypeOK'
    <3> HIDE DEF SeqWord, Words
    <3> QED
        BY <1>1, <2>0 DEF LockSlot
  <2>2. WriterPlace'
      BY <1>1 DEF LockSlot
  <2>3. SlotsWhole'
      BY <1>1 DEF LockSlot
  <2>4. PointsAtNewest'
      BY <1>1 DEF LockSlot
  <2>5. ReadConsistent'
      BY <1>1 DEF LockSlot
  <2> QED
      BY <2>1, <2>2, <2>3, <2>4, <2>5
<1>2. CASE WriteWord
  <2>0. slots' \in [Slots -> [seq : SeqWord, data : [Words -> Counts]]]
    <3>1. EQTypeOK
        BY Zenon
    <3>2. next_idx \in Counts
        BY <1>2 DEF WriteWord
    <3> HIDE DEF EQTypeOK, next_idx, Counts, Words, SeqWord
    <3> QED
        BY <1>2, <3>1, <3>2, SlotsTyped
  <2>1. EQTypeOK'
    <3> HIDE DEF SeqWord, Words
    <3> QED
        BY SMTT(30), <1>2, <2>0 DEF WriteWord
  <2>2. WriterPlace'
      BY <1>2 DEF WriteWord
  <2>3. SlotsWhole'
    <3>1. PICK k \in Words : k = wi + 1 /\ wi' = k
      <4>1. wi + 1 \in Words
          BY <1>2 DEF WriteWord
      <4> HIDE DEF EQInv, Words
      <4> QED
          BY <1>2, <4>1 DEF WriteWord
    <3>2. /\ slots' = [slots EXCEPT ![SlotOf(n)].data[k] = n]
          /\ wpc' = "write" /\ wpc = "write" /\ shadow_global_index' = shadow_global_index
          /\ written' = written
        BY <1>2, <3>1 DEF WriteWord
    <3>3. /\ \A s \in Slots : slots'[s].seq = slots[s].seq
          /\ \A s \in Slots : s # SlotOf(n) => slots'[s].data = slots[s].data
          /\ \A w \in Words : slots'[SlotOf(n)].data[w] =
                 IF w = k THEN n ELSE slots[SlotOf(n)].data[w]
      <4>1. slots \in [Slots -> [seq : SeqWord, data : [Words -> Counts]]]
          OBVIOUS
      <4> HIDE DEF EQInv, EQTypeOK, Words, Counts, SeqWord, next_idx, n
      <4> QED
          BY <3>2, <4>1
    <3>4. slots[SlotOf(n)].seq = Locked(n) /\ Locked(n).locked
        BY <3>2
    <3>5. ASSUME NEW w \in Words, w <= k PROVE slots'[SlotOf(n)].data[w] = n
      <4>1. w = k \/ w <= wi
          BY <3>1, <3>5
      <4>2. w <= wi => slots[SlotOf(n)].data[w] = n
          BY <3>2
      <4> HIDE DEF EQInv
      <4> QED
          BY <3>3, <4>1, <4>2
    <3>6. /\ \A s \in Slots : slots[s].seq.idx <= n
          /\ \A s \in Slots : ~slots[s].seq.locked =>
                /\ slots[s].seq.idx <= written /\ s # SlotOf(n)
                /\ \A w \in Words : slots[s].data[w] = slots[s].seq.idx
          /\ \A s \in Slots : slots[s].seq.locked => s = SlotOf(n)
        BY SMTT(30), <3>2, <3>4
    <3> HIDE DEF EQInv, Words, Locked
    <3> QED
        BY <3>1, <3>2, <3>3, <3>4, <3>5, <3>6
  <2>4. PointsAtNewest'
      BY <1>2 DEF WriteWord
  <2>5. ReadConsistent'
      BY <1>2 DEF WriteWord
  <2> QED
      BY <2>1, <2>2, <2>3, <2>4, <2>5
<1>3. CASE UnlockSlot
  <2>0. slots' \in [Slots -> [seq : SeqWord, data : [Words -> Counts]]]
    <3>1. EQTypeOK
        BY Zenon
    <3>2. next_idx \in Counts
        BY <1>3 DEF UnlockSlot
    <3> HIDE DEF EQTypeOK, next_idx, Counts, Words, SeqWord
    <3> QED
        BY <1>3, <3>1, <3>2, SlotsTyped
  <2>1. EQTypeOK'
    <3>1. written' \in Counts
        BY <1>3 DEF UnlockSlot
    <3> HIDE DEF SeqWord, Words
    <3> QED
        BY <1>3, <2>0, <3>1 DEF UnlockSlot
  <2>2. WriterPlace'
      BY <1>3 DEF UnlockSlot
  <2>3. SlotsWhole'
      BY SMTT(30), <1>3 DEF UnlockSlot
  <2>4. PointsAtNewest'
      BY <1>3 DEF UnlockSlot
  <2>5. ReadConsistent'
      BY <1>3 DEF UnlockSlot
  <2> QED
      BY <2>1, <2>2, <2>3, <2>4, <2>5
<1>4. CASE PublishIndex
  <2>0. PICK m \in Counts : /\ m = next_idx /\ written = m /\ written' = m /\ next_idx' = m + 1
                            /\ global_index' = m /\ shadow_global_index' = m
      BY <1>4 DEF PublishIndex
  <2>1. EQTypeOK'
      BY SMTT(30), <1>4, <2>0 DEF PublishIndex
  <2>2. WriterPlace'
      BY <1>4 DEF PublishIndex
  <2>3. SlotsWhole'
    <3>1. /\ \A s \in Slots : ~slots[s].seq.locked /\ slots[s].seq.idx <= m
          /\ wpc' = "idle" /\ slots' = slots
        BY <1>4, <2>0 DEF PublishIndex
    <3>3. ASSUME NEW s \in Slots PROVE slots[s].seq.idx <= m + 1
      <4>1. PICK x \in Counts : x = slots[s].seq.idx
          OBVIOUS
      <4>2. x <= m + 1
        <5> HIDE DEF EQInv
        <5> QED
            BY <3>1, <4>1
      <4> QED
          BY <4>1, <4>2
    <3> QED
        BY <1>4, <2>0, <3>1, <3>3
  <2>4. PointsAtNewest'
      BY <1>4 DEF PublishIndex
  <2>5. ReadConsistent'
      BY <1>4 DEF PublishIndex
  <2> QED
      BY <2>1, <2>2, <2>3, <2>4, <2>5
<1>5. ASSUME NEW op \in Ops, NEW mode \in Modes, Call(op, mode) PROVE EQInv'
    BY <1>5 DEF Call
<1>6. CASE LoadIndex
  <2>1. EQTypeOK'
      BY <1>6 DEF LoadIndex, Fail
  <2>2. WriterPlace'
      BY <1>6 DEF LoadIndex, Fail
  <2>3. SlotsWhole'
      BY <1>6 DEF LoadIndex, Fail
  <2>4. PointsAtNewest'
      BY <1>6 DEF LoadIndex, Fail
  <2>5. ReadConsistent'
      BY SMTT(30), <1>6 DEF LoadIndex, Fail
  <2> QED
      BY <2>1, <2>2, <2>3, <2>4, <2>5
<1>7. CASE LoadSeq1
  <2>1. EQTypeOK'
      BY <1>7 DEF LoadSeq1, Fail, NewerThan
  <2>2. WriterPlace'
      BY <1>7 DEF LoadSeq1, Fail, NewerThan
  <2>3. SlotsWhole'
      BY <1>7 DEF LoadSeq1, Fail, NewerThan
  <2>4. PointsAtNewest'
      BY <1>7 DEF LoadSeq1, Fail, NewerThan
  <2>5. ReadConsistent'
    <3>1. CASE rpc' = "read"
      <4>1. ~seq1'.locked /\ seq1'.idx > last_global_index /\ ri' = ri
          BY <1>7, <3>1 DEF LoadSeq1, Fail, NewerThan
      <4>2. seq1'.idx <= written /\ seq1'.idx >= idx
          BY <1>7, <4>1 DEF LoadSeq1
      <4>3. \A w \in Words : ~(w <= ri)
          BY <1>7 DEF LoadSeq1
      <4> QED
          BY <1>7, <3>1, <4>1, <4>2, <4>3 DEF LoadSeq1
    <3>2. CASE rpc' # "read"
        BY <1>7, <3>2 DEF LoadSeq1, Fail
    <3> QED
        BY <3>1, <3>2
  <2> QED
      BY <2>1, <2>2, <2>3, <2>4, <2>5
<1>8. CASE ReadWord
  <2>0. PICK k \in Words : /\ k = ri + 1 /\ ri' = k /\ k \in 1..NumWords
                           /\ out' = [out EXCEPT ![k] = slots[SlotOf(idx)].data[k]]
    <3>1. ri + 1 \in Words
        BY <1>8 DEF ReadWord
    <3> HIDE DEF EQInv, Words
    <3> QED
        BY <1>8, <3>1 DEF ReadWord, Words
  <2>1. EQTypeOK'
    <3>1. slots[SlotOf(idx)].data[k] \in Counts
        OBVIOUS
    <3>2. out' \in [Words -> Counts]
        BY <2>0, <3>1
    <3>3. ri' \in 0..NumWords
        BY <2>0
    <3> HIDE DEF SeqWord, Words
    <3> QED
        BY <1>8, <3>2, <3>3 DEF ReadWord
  <2>2. WriterPlace'
      BY <1>8 DEF ReadWord
  <2>3. SlotsWhole'
      BY <1>8 DEF ReadWord
  <2>4. PointsAtNewest'
      BY <1>8 DEF ReadWord
  <2>5. ReadConsistent'
    <3>1. slots[SlotOf(idx)].seq = seq1 => slots[SlotOf(idx)].data[k] = seq1.idx
        BY <1>8 DEF ReadWord
    <3>2. ASSUME NEW w \in Words, w <= k PROVE w = k \/ (w <= ri /\ out'[w] = out[w])
        BY <2>0, <3>2
    <3>3. out'[k] = slots[SlotOf(idx)].data[k]
        BY <2>0
    <3>4. \/ slots[SlotOf(idx)].seq.idx > seq1.idx
          \/ /\ slots[SlotOf(idx)].seq = seq1
             /\ \A w \in Words : w <= k => out'[w] = seq1.idx
        BY <1>8, <3>1, <3>2, <3>3 DEF ReadWord
    <3> QED
        BY <1>8, <2>0, <3>4 DEF ReadWord
  <2> QED
      BY <2>1, <2>2, <2>3, <2>4, <2>5
<1>9. CASE LoadSeq2
  <2>1. EQTypeOK'
    <3>1. Mark \in Counts
        BY DEF Mark
    <3> HIDE DEF SeqWord, Words, Mark
    <3> QED
        BY <1>9, <3>1 DEF LoadSeq2, Fail
  <2>2. WriterPlace'
      BY <1>9 DEF LoadSeq2, Fail, Same, Mark
  <2>3. SlotsWhole'
      BY <1>9 DEF LoadSeq2, Fail, Same, Mark
  <2>4. PointsAtNewest'
      BY <1>9 DEF LoadSeq2, Fail, Same, Mark
  <2>5. ReadConsistent'
      BY <1>9 DEF LoadSeq2, Fail, Same, Mark
  <2> QED
      BY <2>1, <2>2, <2>3, <2>4, <2>5
<1>10. CASE EQClear
  <2>1. EQTypeOK'
      BY <1>10 DEF EQClear
  <2>2. WriterPlace'
      BY <1>10 DEF EQClear
  <2>3. SlotsWhole'
      BY <1>10 DEF EQClear
  <2>4. PointsAtNewest'
      BY <1>10 DEF EQClear
  <2>5. ReadConsistent'
      BY <1>10 DEF EQClear
  <2> QED
      BY <2>1, <2>2, <2>3, <2>4, <2>5
<1>11. CASE UNCHANGED EQvars
    BY SMTT(30), <1>11 DEF EQvars
<1> QED
    BY <1>1, <1>2, <1>3, <1>4, <1>5, <1>6, <1>7, <1>8, <1>9, <1>10, <1>11
       DEF EQNext, WriterStep, ReaderStep

\* Every step of the ring is a step of the register, or leaves it alone: the
\* unlocking of a slot writes an element, the load of the index begins a read,
\* the second load of the sequence hands the element over.
LEMMA EQStepRefines == EQInv /\ EQInv' /\ [EQNext]_EQvars => [Register!Next]_(Register!vars)
<1> SUFFICES ASSUME EQInv, [EQNext]_EQvars PROVE [Register!Next]_(Register!vars)
    OBVIOUS
<1> USE DEF Register!vars, EQwvars, EQrvars
<1>1. CASE UnlockSlot
  <2>1. written' = written + 1 /\ UNCHANGED <<last_global_index, floor, handed>>
      BY <1>1 DEF UnlockSlot, EQInv, WriterPlace, next_idx
  <2> QED
      BY <2>1 DEF Register!Next, Register!Write
<1>2. CASE LoadIndex
  <2>1. /\ floor' = global_index /\ global_index \in 0..written
        /\ UNCHANGED <<written, last_global_index, handed>>
      BY <1>2, MaxPushAssumption
      DEF LoadIndex, EQInv, WriterPlace, EQTypeOK, Counts, next_idx
  <2> QED
      BY <2>1 DEF Register!Next, Register!BeginRead
<1>3. CASE LoadSeq2
  <2>1. CASE ~Same(slots[SlotOf(idx)].seq)
      BY <1>3, <2>1 DEF LoadSeq2
  <2>2. CASE Same(slots[SlotOf(idx)].seq)
    <3>1. seq1.idx \in Counts /\ written \in Counts /\ floor \in Counts
          /\ last_global_index \in Counts
        BY DEF EQInv, EQTypeOK, SeqWord
    <3>2. \A w \in Words : out[w] = seq1.idx
        BY <1>3, <2>2, <3>1 DEF LoadSeq2, Same, EQInv, ReadConsistent, Words, Counts
    <3>3. out = Register!Element(seq1.idx)
        BY <3>2 DEF EQInv, EQTypeOK, Register!Element
    <3>4. Register!Fresh(seq1.idx) /\ seq1.idx \in 0..written
        BY <1>3, <3>1 DEF LoadSeq2, EQInv, ReadConsistent, Register!Fresh, Counts
    <3>5. CASE rop = "consume"
      <4>1. /\ last_global_index' = seq1.idx /\ handed' = Register!Element(seq1.idx)
            /\ UNCHANGED <<written, floor>>
          BY <1>3, <2>2, <3>3, <3>5 DEF LoadSeq2, Mark
      <4> QED
          BY <3>4, <4>1 DEF Register!Next, Register!Consume
    <3>6. CASE rop # "consume"
      <4>1. /\ handed' = Register!Element(seq1.idx)
            /\ UNCHANGED <<written, last_global_index, floor>>
          BY <1>3, <2>2, <3>3, <3>6 DEF LoadSeq2, Mark
      <4> QED
          BY <3>4, <4>1 DEF Register!Next, Register!Peek
    <3> QED
        BY <3>5, <3>6
  <2> QED
      BY <2>1, <2>2
<1>4. CASE EQClear
  <2>1. last_global_index' = written /\ UNCHANGED <<written, floor, handed>>
      BY <1>4 DEF EQClear, EQInv, WriterPlace
  <2> QED
      BY <2>1 DEF Register!Next, Register!Clear
<1>5. CASE LockSlot \/ WriteWord \/ PublishIndex \/ LoadSeq1 \/ ReadWord
    BY <1>5 DEF LockSlot, WriteWord, PublishIndex, LoadSeq1, ReadWord
<1>6. CASE \E op \in Ops, mode \in Modes : Call(op, mode)
    BY <1>6 DEF Call
<1>7. CASE UNCHANGED EQvars
    BY <1>7 DEF EQvars
<1> QED
    BY <1>1, <1>2, <1>3, <1>4, <1>5, <1>6, <1>7 DEF EQNext, WriterStep, ReaderStep

LEMMA EQImplements == EQSpec => ImplementsLatestValue
<1>1. EQInit => Register!Init
    BY DEF EQInit, Register!Init, Register!Element
<1> QED
    BY <1>1, EQInitInv, EQNextInv, EQStepRefines, PTL
       DEF EQSpec, ImplementsLatestValue, Register!Spec

-----------------------------------------------------------------------------
(* EvictingQueue<T, 1>: the cell.                                          *)

\* The sequence is even, and the cell holds one whole element, while nobody
\* writes; during a write the words written so far are the new element's.
CellWhole ==
    /\ cwpc = "idle" => ~Odd(cell_seq) /\ \A w \in CellWords : cell_data[w] = cell_seq \div 2
    /\ cwpc = "write" =>
          /\ Odd(cell_seq) /\ cell_seq + 1 \in Seqs
          /\ \A w \in CellWords : w <= cwi => cell_data[w] = (cell_seq + 1) \div 2

\* A read in progress: the sequence it began with is still there, and the words
\* copied are that element's, or the sequence has moved on for good.
CellReadConsistent ==
    /\ last_seq <= cell_seq /\ ~Odd(last_seq) /\ cfloor <= cell_seq \div 2
    /\ crpc # "read" => cri = 0
    /\ crpc = "read" =>
          /\ ~Odd(cseq0) /\ cseq0 > last_seq /\ cseq0 <= cell_seq /\ cfloor = cseq0 \div 2
          /\ cseq0 = cell_seq => \A w \in CellWords : w <= cri => cout[w] = cseq0 \div 2

ECInv == ECTypeOK /\ CellWhole /\ CellReadConsistent

\* Halving a sequence word: one for two, and in order.
LEMMA HalfNext ==
    ASSUME NEW s \in Nat
    PROVE  /\ s \div 2 \in Nat
           /\ ~Odd(s) => Odd(s + 1) /\ (s + 1) \div 2 = s \div 2
           /\ Odd(s) => ~Odd(s + 1) /\ (s + 1) \div 2 = (s \div 2) + 1
BY DEF Odd

LEMMA HalfOrder ==
    ASSUME NEW s \in Nat, NEW t \in Nat, s <= t
    PROVE  s \div 2 <= t \div 2 /\ (s < t /\ ~Odd(s) /\ ~Odd(t) => s \div 2 < t \div 2)
BY DEF Odd

LEMMA ECInitInv == ECInit => ECInv
<1> SUFFICES ASSUME ECInit PROVE ECInv
    OBVIOUS
<1> USE CellSizeAssumption, CellPushesAssumption DEF ECInit, CellWords, CellCounts, Seqs
<1>1. ECTypeOK
    BY DEF ECTypeOK, CellOps, CellModes
<1>2. ~Odd(0) /\ 0 \div 2 = 0
    BY DEF Odd
<1>3. CellWhole /\ CellReadConsistent
    BY <1>2 DEF CellWhole, CellReadConsistent
<1> QED
    BY <1>1, <1>3 DEF ECInv

LEMMA ECNextInv == ECInv /\ [ECNext]_ECvars => ECInv'
<1> SUFFICES ASSUME ECInv, [ECNext]_ECvars PROVE ECInv'
    OBVIOUS
<1> cell_seq \in Nat
    BY CellPushesAssumption DEF ECInv, ECTypeOK, Seqs
<1> USE CellSizeAssumption, CellPushesAssumption
    DEF ECInv, ECTypeOK, CellWhole, CellReadConsistent, CellWords, CellCounts, Seqs,
        ECwvars, ECrvars, CellOps, CellModes
<1>1. CASE BeginWrite
  <2>1. PICK q \in Nat : /\ q = cell_seq + 1 /\ cell_seq' = q /\ Odd(q) /\ q \div 2 = cell_seq \div 2
                         /\ q \in Seqs /\ q + 1 \in Seqs
    <3>1. ~Odd(cell_seq) /\ cell_seq + 2 \in Seqs /\ cell_seq' = cell_seq + 1
        BY <1>1 DEF BeginWrite
    <3>2. cell_seq + 1 \in Seqs /\ (cell_seq + 1) + 1 \in Seqs
        BY <3>1
    <3> HIDE DEF ECInv, Seqs
    <3>3. /\ cell_seq + 1 \in Nat /\ Odd(cell_seq + 1) /\ (cell_seq + 1) \div 2 = cell_seq \div 2
        BY <3>1, HalfNext
    <3> QED
        BY <3>1, <3>2, <3>3
  <2>2. ECTypeOK'
      BY <1>1, <2>1 DEF BeginWrite
  <2>3. CellWhole'
      BY <1>1, <2>1 DEF BeginWrite
  <2>4. CellReadConsistent'
      BY <1>1, <2>1 DEF BeginWrite
  <2> QED
      BY <2>2, <2>3, <2>4
<1>2. CASE CellWriteWord
  <2>1. PICK k \in CellWords : /\ k = cwi + 1 /\ cwi' = k
                               /\ cell_data' = [cell_data EXCEPT ![k] = (cell_seq + 1) \div 2]
    <3>1. cwi + 1 \in CellWords
        BY <1>2 DEF CellWriteWord
    <3> HIDE DEF ECInv, CellWords
    <3> QED
        BY <1>2, <3>1 DEF CellWriteWord
  <2>2. (cell_seq + 1) \div 2 \in CellCounts
      BY <1>2 DEF CellWriteWord
  <2>3. ECTypeOK'
    <3>1. cell_data' \in [CellWords -> CellCounts] /\ cwi' \in 0..CellSize
        BY <2>1, <2>2
    <3> QED
        BY <1>2, <3>1 DEF CellWriteWord
  <2>4. CellWhole'
    <3>1. ASSUME NEW w \in CellWords, w <= k PROVE cell_data'[w] = (cell_seq + 1) \div 2
      <4>1. w = k \/ w <= cwi
          BY <2>1, <3>1
      <4> QED
          BY <1>2, <2>1, <4>1 DEF CellWriteWord
    <3> QED
        BY <1>2, <2>1, <3>1 DEF CellWriteWord
  <2>5. CellReadConsistent'
      BY <1>2 DEF CellWriteWord
  <2> QED
      BY <2>3, <2>4, <2>5
<1>3. CASE EndWrite
  <2>1. PICK q \in Nat : /\ q = cell_seq + 1 /\ cell_seq' = q /\ ~Odd(q)
                         /\ q \div 2 = (cell_seq \div 2) + 1 /\ cell_seq \div 2 \in Nat
                         /\ q \in Seqs
    <3>1. Odd(cell_seq) /\ cell_seq + 1 \in Seqs /\ cell_seq' = cell_seq + 1
        BY <1>3 DEF EndWrite
    <3> HIDE DEF ECInv, Seqs
    <3>2. /\ cell_seq + 1 \in Nat /\ ~Odd(cell_seq + 1) /\ cell_seq \div 2 \in Nat
          /\ (cell_seq + 1) \div 2 = (cell_seq \div 2) + 1
        BY <3>1, HalfNext
    <3> QED
        BY <3>1, <3>2
  <2>2. ECTypeOK'
      BY <1>3, <2>1 DEF EndWrite
  <2>3. CellWhole'
      BY <1>3, <2>1 DEF EndWrite
  <2>4. CellReadConsistent'
    <3>1. cfloor <= q \div 2 /\ last_seq <= q
        BY <2>1
    <3> QED
        BY <1>3, <2>1, <3>1 DEF EndWrite
  <2> QED
      BY <2>2, <2>3, <2>4
<1>4. ASSUME NEW op \in CellOps, NEW mode \in CellModes, CellCall(op, mode) PROVE ECInv'
    BY <1>4 DEF CellCall
<1>5. CASE CellLoadSeq0
  <2>1. cell_seq \div 2 \in CellCounts
      BY HalfNext
  <2>2. ECTypeOK'
      BY <1>5, <2>1 DEF CellLoadSeq0, CellFail
  <2>3. CellWhole'
      BY <1>5 DEF CellLoadSeq0
  <2>4. CellReadConsistent'
    <3>1. crpc' = "read" => Readable(cell_seq) /\ cri' = 0
        BY <1>5 DEF CellLoadSeq0, CellFail
    <3>2. crpc' # "read" => cri' = 0
        BY <1>5 DEF CellLoadSeq0, CellFail
    <3>3. \A w \in CellWords : ~(w <= 0)
        OBVIOUS
    <3> QED
        BY <1>5, <2>1, <3>1, <3>2, <3>3 DEF CellLoadSeq0, Readable
  <2> QED
      BY <2>2, <2>3, <2>4
<1>6. CASE CellReadWord
    BY <1>6 DEF CellReadWord
<1>7. CASE CellLoadSeq1
  <2>1. ECTypeOK'
      BY <1>7 DEF CellLoadSeq1, CellFail, CellUnchanged
  <2>2. CellWhole'
      BY <1>7 DEF CellLoadSeq1, CellFail, CellUnchanged
  <2>3. CellReadConsistent'
      BY <1>7 DEF CellLoadSeq1, CellFail, CellUnchanged
  <2> QED
      BY <2>1, <2>2, <2>3
<1>8. CASE ECClear
    BY <1>8 DEF ECClear
<1>9. CASE UNCHANGED ECvars
    BY <1>9 DEF ECvars
<1> QED
    BY <1>1, <1>2, <1>3, <1>4, <1>5, <1>6, <1>7, <1>8, <1>9
       DEF ECNext, CellWriterStep, CellReaderStep

LEMMA ECStepRefines == ECInv /\ [ECNext]_ECvars => [CellRegister!Next]_(CellRegister!vars)
<1> SUFFICES ASSUME ECInv, [ECNext]_ECvars PROVE [CellRegister!Next]_(CellRegister!vars)
    OBVIOUS
<1> USE DEF CellRegister!vars, ECwvars, ECrvars
<1>0. cell_seq \in Nat /\ last_seq \in Nat /\ cseq0 \in Nat
    BY CellPushesAssumption DEF ECInv, ECTypeOK, Seqs
<1>1. CASE EndWrite
  <2>1. /\ (cell_seq \div 2)' = (cell_seq \div 2) + 1
        /\ UNCHANGED <<last_seq, cfloor, chanded>>
      BY <1>0, <1>1, HalfNext DEF EndWrite, ECInv, CellWhole
  <2> QED
      BY <2>1 DEF CellRegister!Next, CellRegister!Write
<1>2. CASE BeginWrite
  <2>1. /\ (cell_seq \div 2)' = cell_seq \div 2 /\ UNCHANGED <<last_seq, cfloor, chanded>>
      BY <1>0, <1>2, HalfNext DEF BeginWrite, ECInv, CellWhole
  <2> QED
      BY <2>1
<1>3. CASE CellLoadSeq0
  <2>1. /\ cfloor' = cell_seq \div 2 /\ cell_seq \div 2 \in 0..(cell_seq \div 2)
        /\ UNCHANGED <<cell_seq, last_seq, chanded>>
      BY <1>0, <1>3, HalfNext DEF CellLoadSeq0
  <2> QED
      BY <2>1 DEF CellRegister!Next, CellRegister!BeginRead
<1>4. CASE CellLoadSeq1
  <2>1. CASE ~CellUnchanged(cell_seq)
      BY <1>4, <2>1 DEF CellLoadSeq1
  <2>2. CASE CellUnchanged(cell_seq)
    <3> DEFINE n == cell_seq \div 2
    <3>1. /\ cell_seq = cseq0 /\ crpc = "read" /\ cri = CellSize /\ chanded' = cout
          /\ UNCHANGED <<cell_seq, cfloor>>
          /\ last_seq' = IF crop = "consume" THEN cell_seq ELSE last_seq
        BY <1>4, <2>2 DEF CellLoadSeq1, CellUnchanged
    <3>2. \A w \in CellWords : cout[w] = n
        BY <3>1, CellSizeAssumption DEF ECInv, CellReadConsistent, CellWords
    <3>3. cout = CellRegister!Element(n)
        BY <3>2 DEF ECInv, ECTypeOK, CellRegister!Element
    <3>4. /\ n \in Nat /\ last_seq \div 2 \in Nat /\ n > last_seq \div 2 /\ cfloor = n
        BY <1>0, <3>1, HalfNext, HalfOrder DEF ECInv, CellReadConsistent
    <3>5. CellRegister!Fresh(n) /\ n \in 0..n
        BY <3>4 DEF CellRegister!Fresh
    <3>6. CASE crop = "consume"
      <4>1. (last_seq \div 2)' = n /\ chanded' = CellRegister!Element(n)
            /\ (cell_seq \div 2)' = n /\ cfloor' = cfloor
          BY <3>1, <3>3, <3>6
      <4> QED
          BY <3>5, <4>1 DEF CellRegister!Next, CellRegister!Consume
    <3>7. CASE crop # "consume"
      <4>1. (last_seq \div 2)' = last_seq \div 2 /\ chanded' = CellRegister!Element(n)
            /\ (cell_seq \div 2)' = n /\ cfloor' = cfloor
          BY <3>1, <3>3, <3>7
      <4> QED
          BY <3>5, <4>1 DEF CellRegister!Next, CellRegister!Peek
    <3> QED
        BY <3>6, <3>7
  <2> QED
      BY <2>1, <2>2
<1>5. CASE ECClear
  <2>1. /\ (last_seq \div 2)' = cell_seq \div 2 /\ (cell_seq \div 2)' = cell_seq \div 2
        /\ UNCHANGED <<cfloor, chanded>>
      BY <1>5 DEF ECClear
  <2> QED
      BY <2>1 DEF CellRegister!Next, CellRegister!Clear
<1>6. CASE CellWriteWord \/ CellReadWord
    BY <1>6 DEF CellWriteWord, CellReadWord
<1>7. CASE \E op \in CellOps, mode \in CellModes : CellCall(op, mode)
    BY <1>7 DEF CellCall
<1>8. CASE UNCHANGED ECvars
    BY <1>8 DEF ECvars
<1> QED
    BY <1>1, <1>2, <1>3, <1>4, <1>5, <1>6, <1>7, <1>8 DEF ECNext, CellWriterStep, CellReaderStep

LEMMA ECImplements == ECSpec => CellImplementsLatestValue
<1>1. ECInit => CellRegister!Init
    BY DEF ECInit, CellRegister!Init, CellRegister!Element
<1> QED
    BY <1>1, ECInitInv, ECNextInv, ECStepRefines, PTL
       DEF ECSpec, CellImplementsLatestValue, CellRegister!Spec

\* try_consume_latest, try_peek_latest: for every capacity, element size and
\* number of pushes, a read that races with any number of writes hands over one
\* whole element, newer than what was consumed before and not older than the
\* newest one that was there when the read began, or nothing.
THEOREM EvictersRefineLatestValue == EQSpec /\ ECSpec => EvictersImplementLatestValue
BY EQImplements, ECImplements, PTL DEF EvictersImplementLatestValue

-----------------------------------------------------------------------------
(* RingBuffer: the inductive invariant of the history ring.                *)

\* head_ runs ahead of count_ by one store, and count_ stops at the capacity.
RingPlace ==
    /\ rwpc = "data" => pushed = cleared + head + 1
    /\ rwpc # "data" => pushed = cleared + head /\ rwi = 0
    /\ rwpc = "count" => head >= 1 /\ (count = head - 1 \/ (count = RingSlots /\ head > RingSlots))
    /\ rwpc # "count" => count = head \/ (count = RingSlots /\ head >= RingSlots)

\* The slots hold the last RingSlots elements behind head_, less the one that
\* the element being pushed replaces.
RingStored ==
    \A h \in 0..RingPushes :
        (h < head /\ head - h <= RingSlots /\ (rwpc = "data" => head - h < RingSlots))
        => \A w \in RWords : ring[h % RingSlots][w] = cleared + h + 1

\* The slot being written: new words, and behind them the element replaced.
RingWriting ==
    rwpc = "data" => \A w \in RWords :
        /\ w <= rwi => ring[head % RingSlots][w] = pushed
        /\ w > rwi /\ head >= RingSlots => ring[head % RingSlots][w] = cleared + head - RingSlots + 1

\* The offset a read of a full ring asks for, also before it has loaded count_.
FullOffset == IF roff = Back THEN RingSlots - 1 ELSE roff

\* A read that began on a full ring: its slot has the element asked for, or
\* words of ones that replaced it.
FullRead ==
    (rrpc # "idle" /\ wasFull) =>
        /\ count = RingSlots /\ rhead >= RingSlots /\ exact = cleared + rhead - FullOffset
        /\ \A w \in RWords : ring[(rhead - 1 - FullOffset) % RingSlots][w] >= exact
        /\ rrpc = "data" => \A w \in RWords : w <= rri => result[w] >= exact

\* A read that no push has overlapped yet: nothing has moved since it began.
QuietRead ==
    (rrpc # "idle" /\ quiet) =>
        /\ rwpc = "idle" /\ rhead = head
        /\ rrpc = "count" => exact = Nth(IF roff = Back /\ count > 0 THEN count - 1 ELSE roff)
        /\ rrpc = "data" => /\ roff < count /\ exact = cleared + head - roff
                            /\ \A w \in RWords : w <= rri => result[w] = exact

\* The reader's place: it loaded a head_ that the writer has not taken back.
ReaderPlace ==
    /\ rrpc # "data" => rri = 0
    /\ rrpc = "data" => roff < RingSlots
    /\ rrpc # "idle" => rhead <= head

RBInv ==
    /\ RBTypeOK /\ RingPlace /\ RingStored /\ RingWriting
    /\ ReaderPlace /\ FullRead /\ QuietRead /\ QuietReadExact /\ FullRingNeverOlder

LEMMA RBInitInv == RBInit => RBInv
<1> SUFFICES ASSUME RBInit PROVE RBInv
    OBVIOUS
<1> USE RingSlotsAssumption, RingWordsAssumption, RingPushesAssumption
    DEF RBInit, RElement, None, RSlots, RWords
<1>1. quiet \in BOOLEAN /\ wasFull \in BOOLEAN
    BY Zenon
<1>2. RBTypeOK
    BY <1>1 DEF RBTypeOK
<1> QED
    BY <1>2 DEF RBInv, RingPlace, RingStored, RingWriting, ReaderPlace, FullRead, QuietRead,
       QuietReadExact, FullRingNeverOlder

\* A slot index is one, also for a position before the first element.
LEMMA SlotIndex == \A x \in Int : x % RingSlots \in RSlots
BY RingSlotsAssumption, DivMod DEF RSlots

\* The element RingSlots positions back is in the same slot.
LEMMA SlotLapped ==
    ASSUME NEW x \in Int
    PROVE  (x - RingSlots) % RingSlots = x % RingSlots
<1>1. -1 \in Int /\ x + RingSlots * (-1) = x - RingSlots
    BY RingSlotsAssumption
<1>2. (x + RingSlots * (-1)) % RingSlots = x % RingSlots
    BY <1>1, RingSlotsAssumption, ModPlusMultiple
<1> QED
    BY <1>1, <1>2

\* Positions less than RingSlots apart have different slots.
LEMMA SlotDistinct ==
    ASSUME NEW x \in Int, NEW y \in Int, x < y, y - x < RingSlots
    PROVE  x % RingSlots # y % RingSlots
<1>1. x <= y /\ y < x + RingSlots
    BY RingSlotsAssumption
<1>2. ASSUME x % RingSlots = y % RingSlots PROVE FALSE
  <2>1. x = y
      BY <1>1, <1>2, RingSlotsAssumption, ModInjective
  <2> QED
      BY <2>1
<1> QED
    BY <1>2

LEMMA WriterKeeps ==
    ASSUME RBInv, BeginPush \/ StoreWord \/ StoreHead \/ StoreCount
    PROVE  RBInv'
<1> USE RingSlotsAssumption, RingWordsAssumption, RingPushesAssumption
    DEF RBInv, RBTypeOK, RBrvars, None
<1>1. CASE BeginPush
  <2>1. RBTypeOK'
    <3>1. quiet' \in BOOLEAN
        BY <1>1, Zenon DEF BeginPush
    <3>2. pushed' \in 0..RingPushes /\ cleared \in 0..pushed'
        BY <1>1 DEF BeginPush
    <3> QED
        BY <1>1, <3>1, <3>2 DEF BeginPush
  <2>2. RingPlace'
      BY <1>1 DEF BeginPush, RingPlace
  <2>3. RingStored'
      BY <1>1 DEF BeginPush, RingStored
  <2>4. RingWriting'
    <3>1. ASSUME NEW w \in RWords, head >= RingSlots
          PROVE  ring[head % RingSlots][w] = cleared + head - RingSlots + 1
      <4>1. PICK h \in 0..RingPushes : h = head - RingSlots /\ h < head /\ head - h <= RingSlots
          BY <3>1
      <4>2. (head - RingSlots) % RingSlots = head % RingSlots
        <5>1. head \in Int
            OBVIOUS
        <5> HIDE DEF RBInv
        <5> QED
            BY <5>1, SlotLapped
      <4>3. ring[h % RingSlots][w] = cleared + h + 1
          BY <1>1, <4>1 DEF BeginPush, RingStored
      <4> QED
          BY <4>1, <4>2, <4>3
    <3>2. \A w \in RWords : ~(w <= 0)
        BY DEF RWords
    <3> QED
        BY <1>1, <3>1, <3>2 DEF BeginPush, RingWriting
  <2>5. ReaderPlace' /\ FullRead' /\ QuietRead' /\ QuietReadExact' /\ FullRingNeverOlder'
      BY <1>1 DEF BeginPush, ReaderPlace, FullRead, FullOffset, QuietRead, QuietReadExact, FullRingNeverOlder
  <2> QED
      BY <2>1, <2>2, <2>3, <2>4, <2>5
<1>2. CASE StoreWord
  <2>1. PICK k \in RWords, s \in RSlots :
            /\ k = rwi + 1 /\ s = head % RingSlots /\ rwi' = k
            /\ ring' = [ring EXCEPT ![s][k] = pushed]
    <3>1. rwi + 1 \in RWords
        BY <1>2 DEF StoreWord, RWords
    <3>2. head % RingSlots \in RSlots
      <4>1. head \in Int
          OBVIOUS
      <4> HIDE DEF RBInv
      <4> QED
          BY <4>1, SlotIndex
    <3> HIDE DEF RBInv
    <3> QED
        BY <1>2, <3>1, <3>2 DEF StoreWord
  <2>2. \A t \in RSlots, w \in RWords :
            ring'[t][w] = IF t = s /\ w = k THEN pushed ELSE ring[t][w]
      BY <2>1
  <2>3. RBTypeOK'
    <3>1. ring' \in [RSlots -> [RWords -> 0..RingPushes]]
        BY <2>1
    <3>2. rwi' \in 0..RingWords
        BY <2>1 DEF RWords
    <3> QED
        BY <1>2, <3>1, <3>2 DEF StoreWord
  <2>4. RingPlace'
      BY <1>2 DEF StoreWord, RingPlace
  <2>5. RingStored'
    <3> SUFFICES ASSUME NEW h \in 0..RingPushes, h < head, head - h < RingSlots, NEW w \in RWords
                 PROVE  ring'[h % RingSlots][w] = cleared + h + 1
        BY <1>2 DEF StoreWord, RingStored
    <3>1. h % RingSlots # s /\ h % RingSlots \in RSlots
      <4>1. h \in Int /\ head \in Int
          OBVIOUS
      <4> HIDE DEF RBInv
      <4> QED
          BY <2>1, <4>1, SlotDistinct, SlotIndex
    <3>2. head - h <= RingSlots
        OBVIOUS
    <3>3. ring[h % RingSlots][w] = cleared + h + 1
        BY <1>2, <3>2 DEF StoreWord, RingStored
    <3> QED
        BY <2>2, <3>1, <3>3
  <2>6. RingWriting'
    <3> SUFFICES ASSUME NEW w \in RWords
                 PROVE  /\ w <= k => ring'[s][w] = pushed
                        /\ w > k /\ head >= RingSlots => ring'[s][w] = cleared + head - RingSlots + 1
        BY <1>2, <2>1 DEF StoreWord, RingWriting
    <3>1. w = k \/ (w < k /\ w <= rwi) \/ (w > k /\ w > rwi)
        BY <2>1 DEF RWords
    <3>2. ring'[s][w] = IF w = k THEN pushed ELSE ring[s][w]
        BY <2>2
    <3>3. /\ w <= rwi => ring[s][w] = pushed
          /\ w > rwi /\ head >= RingSlots => ring[s][w] = cleared + head - RingSlots + 1
        BY <1>2, <2>1 DEF StoreWord, RingWriting
    <3> QED
        BY <3>1, <3>2, <3>3 DEF RWords
  <2>7. FullRead'
    <3> SUFFICES ASSUME rrpc # "idle", wasFull, NEW w \in RWords
                 PROVE  ring'[(rhead - 1 - FullOffset) % RingSlots][w] >= exact
        BY <1>2 DEF StoreWord, FullRead, FullOffset
    <3>1. pushed >= exact /\ FullOffset \in 0..RingSlots
        BY <1>2 DEF StoreWord, RingPlace, FullRead, FullOffset, ReaderPlace, Back
    <3>2. (rhead - 1 - FullOffset) % RingSlots \in RSlots
      <4>1. rhead - 1 - FullOffset \in Int
          BY <3>1
      <4> HIDE DEF RBInv
      <4> QED
          BY <4>1, SlotIndex
    <3>3. ring[(rhead - 1 - FullOffset) % RingSlots][w] >= exact
        BY DEF FullRead
    <3> QED
        BY <2>2, <3>1, <3>2, <3>3
  <2>8. ReaderPlace' /\ QuietRead' /\ QuietReadExact' /\ FullRingNeverOlder'
      BY <1>2 DEF StoreWord, ReaderPlace, QuietRead, QuietReadExact, FullRingNeverOlder
  <2> QED
      BY <2>3, <2>4, <2>5, <2>6, <2>7, <2>8
<1>3. CASE StoreHead
  <2>1. RBTypeOK' /\ RingPlace'
      BY <1>3 DEF StoreHead, RingPlace
  <2>2. RingStored'
    <3> SUFFICES ASSUME NEW h \in 0..RingPushes, h < head + 1, head + 1 - h <= RingSlots, NEW w \in RWords
                 PROVE  ring[h % RingSlots][w] = cleared + h + 1
      <4>1. head \in Int /\ head' = head + 1 /\ rwpc' = "count" /\ ring' = ring /\ cleared' = cleared
          BY <1>3 DEF StoreHead
      <4> HIDE DEF RBInv
      <4> QED
          BY <4>1 DEF RingStored
    <3>1. CASE h = head
        BY <1>3, <3>1 DEF StoreHead, RingWriting, RingPlace, RWords
    <3>2. CASE h # head
      <4>1. h < head /\ head - h < RingSlots /\ head - h <= RingSlots
          BY <3>2
      <4> QED
          BY <1>3, <4>1 DEF StoreHead, RingStored
    <3> QED
        BY <3>1, <3>2
  <2>3. RingWriting'
      BY <1>3 DEF StoreHead, RingWriting
  <2>4. ReaderPlace' /\ FullRead' /\ QuietRead' /\ QuietReadExact' /\ FullRingNeverOlder'
      BY <1>3 DEF StoreHead, ReaderPlace, FullRead, FullOffset, QuietRead, QuietReadExact, FullRingNeverOlder
  <2> QED
      BY <2>1, <2>2, <2>3, <2>4
<1>4. CASE StoreCount
  <2>1. RBTypeOK' /\ RingPlace'
      BY <1>4 DEF StoreCount, Counted, RingPlace
  <2>2. RingStored' /\ RingWriting'
      BY <1>4 DEF StoreCount, RingStored, RingWriting
  <2>3. ReaderPlace' /\ QuietRead' /\ QuietReadExact' /\ FullRingNeverOlder'
      BY <1>4 DEF StoreCount, ReaderPlace, QuietRead, QuietReadExact, FullRingNeverOlder
  <2>4. FullRead'
      BY <1>4 DEF StoreCount, Counted, FullRead, FullOffset
  <2> QED
      BY <2>1, <2>2, <2>3, <2>4
<1> QED
    BY <1>1, <1>2, <1>3, <1>4

LEMMA ReaderKeeps ==
    ASSUME RBInv, LoadCount \/ LoadWord \/ \E k \in 0..RingSlots : LoadHead(k)
    PROVE  RBInv'
<1> USE RingSlotsAssumption, RingWordsAssumption, RingPushesAssumption
    DEF RBInv, RBTypeOK, RBwvars, None
<1>1. ASSUME NEW k \in 0..RingSlots, LoadHead(k) PROVE RBInv'
  <2>1. RBTypeOK'
    <3>1. quiet' \in BOOLEAN /\ wasFull' \in BOOLEAN
        BY <1>1, Zenon DEF LoadHead
    <3>2. exact' \in {None} \cup 0..RingPushes
        BY <1>1 DEF LoadHead, Nth, RingPlace
    <3> QED
        BY <1>1, <3>1, <3>2 DEF LoadHead
  <2>2. RingPlace' /\ RingStored' /\ RingWriting'
      BY <1>1 DEF LoadHead, RingPlace, RingStored, RingWriting
  <2>3. ReaderPlace' /\ QuietReadExact' /\ FullRingNeverOlder'
      BY <1>1 DEF LoadHead, ReaderPlace, QuietReadExact, FullRingNeverOlder
  <2>4. QuietRead'
      BY <1>1 DEF LoadHead, QuietRead, Nth
  <2>5. FullRead'
    <3> SUFFICES ASSUME count = RingSlots
                 PROVE  /\ head >= RingSlots /\ exact' = cleared + head - FullOffset'
                        /\ \A w \in RWords : ring[(head - 1 - FullOffset') % RingSlots][w] >= exact'
        BY <1>1 DEF LoadHead, FullRead
    <3>1. PICK q \in 0..(RingSlots - 1) : FullOffset' = q /\ exact' = cleared + head - q
      <4>1. CASE k = Back
        <5>1. FullOffset' = RingSlots - 1 /\ exact' = cleared + head - (RingSlots - 1)
            BY <1>1, <4>1 DEF LoadHead, Nth, FullOffset
        <5> QED
            BY <5>1
      <4>2. CASE k # Back
        <5>1. k \in 0..(RingSlots - 1) /\ FullOffset' = k /\ exact' = cleared + head - k
            BY <1>1, <4>2 DEF LoadHead, Nth, FullOffset, Back
        <5> QED
            BY <5>1
      <4> QED
          BY <4>1, <4>2
    <3>2. head >= RingSlots
        BY DEF RingPlace
    <3>3. ASSUME NEW w \in RWords PROVE ring[(head - 1 - q) % RingSlots][w] >= cleared + head - q
      <4>1. PICK h \in 0..RingPushes : h = head - 1 - q /\ h < head /\ head - h <= RingSlots
          BY <3>2
      <4>2. CASE rwpc = "data" => head - h < RingSlots
        <5>1. ring[h % RingSlots][w] = cleared + h + 1
            BY <4>1, <4>2 DEF RingStored
        <5> QED
            BY <4>1, <5>1
      <4>3. CASE rwpc = "data" /\ ~(head - h < RingSlots)
        <5>1. h = head - RingSlots /\ head \in Int
            BY <4>1, <4>3
        <5>2. ring[head % RingSlots][w] >= cleared + head - RingSlots + 1
          <6>1. /\ w <= rwi => ring[head % RingSlots][w] = pushed
                /\ w > rwi => ring[head % RingSlots][w] = cleared + head - RingSlots + 1
              BY <3>2, <4>3 DEF RingWriting
          <6>2. pushed >= cleared + head - RingSlots + 1 /\ (w <= rwi \/ w > rwi)
              BY <4>3 DEF RingPlace, RWords
          <6> QED
              BY <6>1, <6>2
        <5>3. (head - RingSlots) % RingSlots = head % RingSlots
          <6> HIDE DEF RBInv
          <6> QED
              BY <5>1, SlotLapped
        <5>4. head - 1 - q = head - RingSlots /\ cleared + head - q = cleared + head - RingSlots + 1
            BY <4>1, <5>1
        <5> HIDE DEF RBInv
        <5> QED
            BY <5>2, <5>3, <5>4
      <4> QED
          BY <4>2, <4>3
    <3> QED
        BY <3>1, <3>2, <3>3
  <2> QED
      BY <2>1, <2>2, <2>3, <2>4, <2>5
<1>2. CASE LoadCount
  <2>1. RBTypeOK'
      BY <1>2 DEF LoadCount, RElement
  <2>2. RingPlace' /\ RingStored' /\ RingWriting'
      BY <1>2 DEF LoadCount, RingPlace, RingStored, RingWriting
  <2>3. ReaderPlace'
      BY <1>2 DEF LoadCount, ReaderPlace, Back
  <2>4. FullRead'
    <3> SUFFICES ASSUME rrpc' # "idle", wasFull
                 PROVE  FullRead'
        BY <1>2 DEF LoadCount, FullRead
    <3>1. rrpc' = "data" /\ count = RingSlots /\ roff' = FullOffset /\ roff' # Back
        BY <1>2 DEF LoadCount, FullRead, FullOffset, Back
    <3>2. FullOffset' = FullOffset
        BY <3>1 DEF FullOffset
    <3>3. \A w \in RWords : ~(w <= rri)
        BY <1>2 DEF LoadCount, ReaderPlace, RWords
    <3> QED
        BY <1>2, <3>1, <3>2, <3>3 DEF LoadCount, FullRead
  <2>5. QuietRead'
      BY <1>2 DEF LoadCount, QuietRead, Nth, Back, RWords, ReaderPlace
  <2>6. QuietReadExact'
      BY <1>2 DEF LoadCount, QuietReadExact, QuietRead, Nth, Back
  <2>7. FullRingNeverOlder'
      BY <1>2 DEF LoadCount, FullRingNeverOlder, FullRead, Back
  <2> QED
      BY <2>1, <2>2, <2>3, <2>4, <2>5, <2>6, <2>7
<1>3. CASE LoadWord
  <2>1. PICK k \in RWords, s \in RSlots :
            /\ k = rri + 1 /\ s = (rhead - 1 - roff) % RingSlots
            /\ result' = [result EXCEPT ![k] = ring[s][k]]
            /\ \/ k < RingWords /\ rri' = k /\ rrpc' = "data" /\ roff' = roff
               \/ k = RingWords /\ rri' = 0 /\ rrpc' = "idle" /\ roff' = 0
    <3>1. rri + 1 \in RWords /\ rhead - 1 - roff \in Int
        BY DEF RWords
    <3> HIDE DEF RBInv
    <3>2. (rhead - 1 - roff) % RingSlots \in RSlots
        BY <3>1, SlotIndex
    <3> QED
        BY <1>3, <3>1, <3>2 DEF LoadWord, ReadIndex
  <2>2. RBTypeOK'
    <3>1. result' \in [RWords -> {None} \cup 0..RingPushes]
        BY <2>1
    <3> QED
        BY <1>3, <2>1, <3>1 DEF LoadWord, RWords
  <2>3. RingPlace' /\ RingStored' /\ RingWriting'
      BY <1>3 DEF LoadWord, RingPlace, RingStored, RingWriting
  <2>4. ReaderPlace'
      BY <1>3, <2>1 DEF LoadWord, ReaderPlace
  <2>5. \A w \in RWords : w <= k => (w = k /\ result'[w] = ring[s][k]) \/ (w <= rri /\ result'[w] = result[w])
      BY <2>1 DEF RWords
  <2>6. wasFull => \A w \in RWords : w <= k => result'[w] >= exact
    <3>1. wasFull => ring[s][k] >= exact
        BY <1>3, <2>1 DEF LoadWord, FullRead, FullOffset, ReaderPlace, Back
    <3> QED
        BY <1>3, <2>5, <3>1 DEF LoadWord, FullRead
  <2>7. quiet => \A w \in RWords : w <= k => result'[w] = exact
    <3>1. ASSUME quiet PROVE ring[s][k] = exact
      <4>1. /\ rwpc = "idle" /\ rhead = head /\ roff < count /\ exact = cleared + head - roff
            /\ count <= head
          BY <1>3, <3>1 DEF LoadWord, QuietRead, RingPlace
      <4>2. PICK h \in 0..RingPushes : h = head - 1 - roff /\ h < head /\ head - h <= RingSlots
          BY <4>1
      <4>3. ring[h % RingSlots][k] = cleared + h + 1
          BY <4>1, <4>2 DEF RingStored
      <4>4. rhead - 1 - roff = h /\ cleared + h + 1 = exact
          BY <4>1, <4>2
      <4> HIDE DEF RBInv
      <4> QED
          BY <2>1, <4>3, <4>4
    <3> QED
        BY <1>3, <2>5, <3>1 DEF LoadWord, QuietRead
  <2>8. FullRead'
      BY <1>3, <2>1, <2>6 DEF LoadWord, FullRead, FullOffset
  <2>9. QuietRead'
      BY <1>3, <2>1, <2>7 DEF LoadWord, QuietRead
  <2>10. QuietReadExact' /\ FullRingNeverOlder'
    <3> SUFFICES ASSUME rrpc' = "idle"
                 PROVE  QuietReadExact' /\ FullRingNeverOlder'
        BY <1>3 DEF QuietReadExact, FullRingNeverOlder
    <3>1. \A w \in RWords : w <= k
        BY <2>1 DEF RWords
    <3>2. wasFull' = wasFull /\ quiet' = quiet /\ exact' = exact
        BY <1>3 DEF LoadWord
    <3>3. result' \in [RWords -> {None} \cup 0..RingPushes]
        BY <2>2
    <3> HIDE DEF RBInv
    <3>4. quiet => result' = [w \in RWords |-> exact]
        BY <2>7, <3>1, <3>3
    <3> QED
        BY <2>6, <3>1, <3>2, <3>4 DEF QuietReadExact, FullRingNeverOlder, RElement
  <2> QED
      BY <2>2, <2>3, <2>4, <2>8, <2>9, <2>10
<1> QED
    BY <1>1, <1>2, <1>3

LEMMA RBNextInv == RBInv /\ [RBNext]_RBvars => RBInv'
<1> SUFFICES ASSUME RBInv, [RBNext]_RBvars PROVE RBInv'
    OBVIOUS
<1>1. CASE RBClear
    BY <1>1, RingSlotsAssumption, RingPushesAssumption
       DEF RBClear, RBInv, RBTypeOK, RBrvars, RingPlace, RingStored, RingWriting,
           ReaderPlace, FullRead, QuietRead, QuietReadExact, FullRingNeverOlder
<1>2. CASE UNCHANGED RBvars
    BY <1>2 DEF RBvars, RBwvars, RBrvars, RBInv, RBTypeOK, RingPlace, RingStored, RingWriting,
           ReaderPlace, FullRead, FullOffset, QuietRead, QuietReadExact, FullRingNeverOlder, Nth
<1> QED
    BY <1>1, <1>2, WriterKeeps, ReaderKeeps DEF RBNext

\* at(), front(), back(): for every capacity and element size and any number
\* of pushes, a read that no push overlaps returns exactly the element at its
\* offset, and a read that races with pushes on a full ring returns no word
\* older than the element asked for.
THEOREM RingReadsTrueAlways == RBSpec => []RingReadsTrue
<1>1. RBInv => RingReadsTrue
    BY DEF RBInv, RingReadsTrue
<1> QED
    BY <1>1, RBInitInv, RBNextInv, PTL DEF RBSpec

-----------------------------------------------------------------------------
(* The byte queues: what a record or a slot holds.                          *)

\* The records between the two counts hold the messages accepted last, each its
\* own length, timestamp and bytes; what a record holds behind them is free.
RecordsHold ==
    /\ bpush \in Seq([len : 0..MaxDataSize, ts : 0..MaxMessages])
    /\ bpop \in Nat /\ bpop <= Len(bpush) /\ Len(bpush) - bpop <= BCapacity
    /\ \A n \in 1..Len(bpush) : n > bpop =>
          LET slot == bslots[(n - 1) % BCapacity]
          IN  /\ slot.len = bpush[n].len /\ slot.ts = bpush[n].ts
              /\ \A i \in 1..MaxDataSize : i <= slot.len => slot.data[i] = n

BBInv == BBTypeOK /\ RecordsHold /\ bgot.msg <= Len(bpush) /\ NoStaleBytes

\* How far the push in progress is.
Naming == IF ewriter \in {"named", "unlocked"} THEN 1 ELSE 0
PushPlace ==
    /\ eindex \in Nat /\ push_count = eindex + Naming
    /\ eindex <= EMaxPush /\ (ewriter # "idle" => eindex < EMaxPush)
    /\ ewriter \in {"idle", "locked", "named", "unlocked"}

\* A slot that is not being written holds one message, number and body; the one
\* that is holds the number of the push in progress.
NumberedSlots ==
    /\ eslots \in [0..(ECapacity - 1) -> [seq : Nat, locked : BOOLEAN, id : Nat, body : Nat]]
    /\ \A s \in 0..(ECapacity - 1) :
          /\ eslots[s].seq <= eindex \/ (ewriter # "idle" /\ s = Slot(eindex + 1) /\ eslots[s].seq = eindex + 1)
          /\ eslots[s].seq > 0 => s = Slot(eslots[s].seq)
          /\ eslots[s].locked <=> ewriter \in {"locked", "named"} /\ s = Slot(eindex + 1)
          /\ eslots[s].locked => eslots[s].seq = eindex + 1
          /\ ~eslots[s].locked => eslots[s].id = eslots[s].seq /\ eslots[s].body = eslots[s].seq
    /\ ewriter = "named" => eslots[Slot(eindex + 1)].id = eindex + 1

\* A read in progress: as long as the slot is the one it began with, what it has
\* read is of that message; and the message is newer than the last one popped.
NumberedRead ==
    /\ ereader \in [at : Nat, on : BOOLEAN, seq : Nat, id : Nat, body : Nat, discarded : Nat, keep : BOOLEAN]
    /\ ereader.at = 0 => ereader = NoRead
    /\ ~ereader.on => ereader.id = 0 /\ ereader.body = 0
    /\ ereader.on =>
          /\ ereader.seq > elast
          /\ ereader.seq <= eindex \/ (ewriter = "unlocked" /\ ereader.seq = eindex + 1)
          /\ eslots[Slot(ereader.seq)].seq >= ereader.seq
          /\ eslots[Slot(ereader.seq)].seq = ereader.seq =>
                /\ ~eslots[Slot(ereader.seq)].locked
                /\ ereader.id \in {0, ereader.seq} /\ ereader.body \in {0, ereader.seq}
          /\ ereader.id # 0 => ereader.discarded = Discarded(ereader.id)
          /\ ereader.body # 0 => ereader.id # 0

\* The reader's count, the queue's, and the three histories.
PoppedSoFar ==
    /\ elast \in Nat /\ last_pop_id = elast
    /\ elast <= eindex \/ (ewriter = "unlocked" /\ elast = eindex + 1)
    /\ ehanded \subseteq 1..elast /\ ecleared \subseteq 1..elast
    /\ ewts \in BOOLEAN /\ ereported \in Nat /\ (~ewts => ereported = 0)

EBInv == PushPlace /\ NumberedSlots /\ NumberedRead /\ PoppedSoFar /\ LossesReported /\ eread.id = eread.body

ESlots == 0..(ECapacity - 1)

LEMMA ESlotTyped == ASSUME NEW n \in Nat PROVE Slot(n) \in ESlots
BY EBytesAssumption, DivMod DEF Slot, ESlots

LEMMA EBInitInv == EBInit => EBInv
<1> SUFFICES ASSUME EBInit PROVE EBInv
    OBVIOUS
<1> USE EBytesAssumption DEF EBInit
<1>1. PushPlace
    BY DEF PushPlace, Naming
<1>2. NumberedSlots
    BY DEF NumberedSlots
<1>3. NumberedRead
    BY DEF NumberedRead, NoRead
<1>4. ewts \in BOOLEAN
    BY Zenon
<1>5. PoppedSoFar
    BY <1>4 DEF PoppedSoFar
<1>6. LossesReported
  <2>1. (1..last_pop_id) \ (ehanded \cup ecleared) = {}
      OBVIOUS
  <2> QED
      BY <2>1, FS_EmptySet DEF LossesReported
<1> QED
    BY <1>1, <1>2, <1>3, <1>5, <1>6 DEF EBInv

\* The writer's steps change one slot, which no read that can still succeed has
\* begun with, and none of the reader's counts.
LEMMA EBWriterInv ==
    ASSUME EBInv, PushBegin \/ PushName \/ PushBody \/ PushPublish
    PROVE  EBInv'
<1> DEFINE s0 == Slot(eindex + 1)
<1> USE EBytesAssumption DEF EBInv
<1>1. s0 \in ESlots /\ \A n \in Nat : Slot(n) \in ESlots
    BY ESlotTyped DEF PushPlace
<1>2. UNCHANGED <<elast, last_pop_id, ereader, ehanded, ecleared, ereported, eread, ewts>>
    BY DEF PushBegin, PushName, PushBody, PushPublish, ereadvars
<1>3. LossesReported' /\ eread'.id = eread'.body
    BY <1>2 DEF LossesReported
<1>4. CASE PushBegin
  <2>1. /\ ewriter = "idle" /\ eindex < EMaxPush /\ ewriter' = "locked" /\ UNCHANGED <<eindex, push_count>>
        /\ eslots' = [eslots EXCEPT ![s0].locked = TRUE, ![s0].seq = eindex + 1]
      BY <1>4 DEF PushBegin
  <2> HIDE DEF s0
  <2>2. /\ eslots' \in [ESlots -> [seq : Nat, locked : BOOLEAN, id : Nat, body : Nat]]
        /\ \A s \in ESlots : s # s0 => eslots'[s] = eslots[s]
        /\ eslots'[s0].seq = eindex + 1 /\ eslots'[s0].locked = TRUE
      BY <1>1, <2>1 DEF NumberedSlots, PushPlace, ESlots
  <2>3. PushPlace'
      BY <2>1 DEF PushPlace, Naming
  <2>4. NumberedSlots'
      BY <1>1, <2>1, <2>2 DEF NumberedSlots, PushPlace, s0, ESlots
  <2>5. NumberedRead'
      BY <1>1, <1>2, <2>1, <2>2 DEF NumberedRead, NumberedSlots, PushPlace, Discarded, ESlots
  <2>6. PoppedSoFar'
      BY <1>2, <2>1 DEF PoppedSoFar
  <2> QED
      BY <1>3, <2>3, <2>4, <2>5, <2>6
<1>5. CASE PushName
  <2>1. /\ ewriter = "locked" /\ ewriter' = "named" /\ push_count' = push_count + 1 /\ UNCHANGED eindex
        /\ eslots' = [eslots EXCEPT ![s0].id = push_count + 1]
      BY <1>5 DEF PushName
  <2> HIDE DEF s0
  <2>2. /\ eslots' \in [ESlots -> [seq : Nat, locked : BOOLEAN, id : Nat, body : Nat]]
        /\ \A s \in ESlots : s # s0 => eslots'[s] = eslots[s]
        /\ eslots'[s0].seq = eslots[s0].seq /\ eslots'[s0].locked = eslots[s0].locked
        /\ eslots'[s0].id = eindex + 1
    <3>1. push_count + 1 = eindex + 1 /\ eindex + 1 \in Nat
        BY <2>1 DEF PushPlace, Naming
    <3>2. eslots \in [ESlots -> [seq : Nat, locked : BOOLEAN, id : Nat, body : Nat]]
        BY DEF NumberedSlots, ESlots
    <3>3. eslots' = [eslots EXCEPT ![s0].id = eindex + 1]
        BY <2>1, <3>1
    <3> QED
        BY <1>1, <3>1, <3>2, <3>3
  <2>3. PushPlace'
      BY <2>1 DEF PushPlace, Naming
  <2>4. NumberedSlots'
      BY <1>1, <2>1, <2>2 DEF NumberedSlots, PushPlace, s0, ESlots
  <2>5. NumberedRead'
      BY <1>1, <1>2, <2>1, <2>2 DEF NumberedRead, NumberedSlots, PushPlace, Discarded, ESlots
  <2>6. PoppedSoFar'
      BY <1>2, <2>1 DEF PoppedSoFar
  <2> QED
      BY <1>3, <2>3, <2>4, <2>5, <2>6
<1>6. CASE PushBody
  <2>1. /\ ewriter = "named" /\ ewriter' = "unlocked" /\ UNCHANGED <<push_count, eindex>>
        /\ eslots' = [eslots EXCEPT ![s0].body = eindex + 1, ![s0].locked = FALSE]
      BY <1>6 DEF PushBody
  <2> HIDE DEF s0
  <2>2. /\ eslots' \in [ESlots -> [seq : Nat, locked : BOOLEAN, id : Nat, body : Nat]]
        /\ \A s \in ESlots : s # s0 => eslots'[s] = eslots[s]
        /\ eslots'[s0].seq = eslots[s0].seq /\ eslots'[s0].locked = FALSE
        /\ eslots'[s0].id = eslots[s0].id /\ eslots'[s0].body = eindex + 1
    <3>1. eindex + 1 \in Nat
        BY DEF PushPlace
    <3>2. eslots \in [ESlots -> [seq : Nat, locked : BOOLEAN, id : Nat, body : Nat]]
        BY DEF NumberedSlots, ESlots
    <3> QED
        BY <1>1, <2>1, <3>1, <3>2
  <2>3. PushPlace'
      BY <2>1 DEF PushPlace, Naming
  <2>4. NumberedSlots'
      BY <1>1, <2>1, <2>2 DEF NumberedSlots, PushPlace, s0, ESlots
  <2>5. NumberedRead'
      BY <1>1, <1>2, <2>1, <2>2 DEF NumberedRead, NumberedSlots, PushPlace, Discarded, ESlots
  <2>6. PoppedSoFar'
      BY <1>2, <2>1 DEF PoppedSoFar
  <2> QED
      BY <1>3, <2>3, <2>4, <2>5, <2>6
<1>7. CASE PushPublish
  <2>1. ewriter = "unlocked" /\ ewriter' = "idle" /\ eindex' = eindex + 1 /\ UNCHANGED <<push_count, eslots>>
      BY <1>7 DEF PushPublish
  <2> HIDE DEF s0
  <2>3. PushPlace'
      BY <2>1 DEF PushPlace, Naming
  <2>2. eindex \in Nat /\ \A s \in ESlots : eslots[s].seq <= eindex + 1 /\ ~eslots[s].locked
      BY <2>1 DEF NumberedSlots, PushPlace, ESlots
  <2>4. NumberedSlots'
      BY <2>1, <2>2 DEF NumberedSlots, ESlots
  <2>5. NumberedRead'
      BY <1>2, <2>1, <2>2 DEF NumberedRead, Discarded
  <2>6. PoppedSoFar'
      BY <1>2, <2>1 DEF PoppedSoFar, PushPlace
  <2> QED
      BY <1>3, <2>3, <2>4, <2>5, <2>6
<1> QED
    BY <1>4, <1>5, <1>6, <1>7

\* The messages up to the one popped next that were neither handed over nor
\* cleared: those before, and the ones it skips.
LEMMA Skipped ==
    ASSUME NEW a \in Nat, NEW q \in Nat, a < q, NEW H \in SUBSET (1..a)
    PROVE  Cardinality((1..q) \ (H \cup {q})) = Cardinality((1..a) \ H) + (q - a - 1)
<1> DEFINE A == (1..a) \ H
           B == (a + 1)..(q - 1)
<1>1. (1..q) \ (H \cup {q}) = A \cup B /\ A \cap B = {}
    OBVIOUS
<1>2. IsFiniteSet(A)
  <2>1. 1 \in Int /\ a \in Int
      OBVIOUS
  <2>2. IsFiniteSet(1..a)
      BY <2>1, FS_Interval
  <2> QED
      BY <2>2, FS_Difference
<1>3. IsFiniteSet(B) /\ Cardinality(B) = q - a - 1
  <2>1. a + 1 \in Int /\ q - 1 \in Int /\ (a + 1 > q - 1 => q - a - 1 = 0)
      OBVIOUS
  <2> QED
      BY <2>1, FS_Interval
<1>4. Cardinality(A) \in Nat
    BY <1>2, FS_CardinalityType
<1> HIDE DEF A, B
<1>5. Cardinality(A \cup B) = Cardinality(A) + Cardinality(B) - Cardinality(A \cap B)
    BY <1>2, <1>3, FS_Union
<1>6. Cardinality(A \cap B) = 0
    BY <1>1, FS_EmptySet
<1>7. Cardinality(A \cup B) = Cardinality(A) + (q - a - 1)
    BY <1>3, <1>4, <1>5, <1>6
<1> QED
    BY <1>1, <1>7 DEF A

\* The reader's steps leave the slots and the writer alone.
LEMMA EBReaderInv ==
    ASSUME EBInv, pop_latest \/ peek_latest \/ EVisit \/ ENumber \/ ECopy \/ EFinish \/ clear_evicting
    PROVE  EBInv'
<1> USE EBytesAssumption DEF EBInv
<1>1. UNCHANGED <<eslots, eindex, push_count, ewriter, ewts>>
    BY DEF pop_latest, peek_latest, EReadBegin, EVisit, ENumber, ECopy, EFinish, clear_evicting
<1>2. PushPlace' /\ NumberedSlots'
    BY <1>1 DEF PushPlace, NumberedSlots, Naming
<1>3. \A n \in Nat : Slot(n) \in ESlots
    BY ESlotTyped
<1>4. CASE pop_latest \/ peek_latest
  <2>1. PICK keep \in BOOLEAN : EReadBegin(keep)
      BY <1>4 DEF pop_latest, peek_latest
  <2>2. /\ UNCHANGED <<elast, last_pop_id, ehanded, ecleared, ereported, eread>>
        /\ ereader' = [NoRead EXCEPT !.at = eindex, !.keep = keep] /\ eindex > elast
      BY <2>1 DEF EReadBegin
  <2>3. NumberedRead'
    <3>1. eindex \in Nat /\ eindex # 0
        BY <2>2 DEF PushPlace, PoppedSoFar
    <3>2. /\ ereader' \in [at : Nat, on : BOOLEAN, seq : Nat, id : Nat, body : Nat, discarded : Nat, keep : BOOLEAN]
          /\ ereader'.at # 0 /\ ~ereader'.on /\ ereader'.id = 0 /\ ereader'.body = 0
        BY <2>2, <3>1 DEF NoRead
    <3> QED
        BY <3>2 DEF NumberedRead
  <2> QED
      BY <1>1, <1>2, <2>2, <2>3 DEF PoppedSoFar, LossesReported
<1>5. CASE EVisit
  <2> DEFINE slot == eslots[Slot(ereader.at)]
  <2>1. UNCHANGED <<elast, last_pop_id, ehanded, ecleared, ereported, eread>>
      BY <1>5 DEF EVisit
  <2>2. NumberedRead'
    <3>1. CASE ereader' = NoRead
        BY <3>1 DEF NumberedRead, NoRead
    <3>2. CASE ~slot.locked /\ slot.seq > elast /\ ereader' = [ereader EXCEPT !.on = TRUE, !.seq = slot.seq]
      <4>1. ereader.at \in Nat /\ ereader.at # 0 /\ ~ereader.on /\ ereader.id = 0 /\ ereader.body = 0
          BY <1>5 DEF EVisit, NumberedRead
      <4>2. /\ Slot(ereader.at) \in ESlots /\ slot.seq \in Nat
            /\ slot.seq > 0 => Slot(ereader.at) = Slot(slot.seq)
          BY <1>3, <4>1 DEF NumberedSlots, ESlots
      <4>3. elast \in Nat /\ Slot(slot.seq) = Slot(ereader.at)
          BY <3>2, <4>2 DEF PoppedSoFar
      <4>4. slot.seq <= eindex \/ (ewriter = "unlocked" /\ slot.seq = eindex + 1)
          BY <3>2, <4>2 DEF NumberedSlots, PushPlace, ESlots
      <4> HIDE DEF slot
      <4>5. /\ ereader' \in [at : Nat, on : BOOLEAN, seq : Nat, id : Nat, body : Nat, discarded : Nat, keep : BOOLEAN]
            /\ ereader'.at # 0 /\ ereader'.on /\ ereader'.seq = slot.seq /\ ereader'.id = 0 /\ ereader'.body = 0
          BY <3>2, <4>1, <4>2 DEF NumberedRead
      <4>6. eslots'[Slot(ereader'.seq)] = slot
          BY <1>1, <4>3, <4>5 DEF slot
      <4> QED
          BY <1>1, <2>1, <3>2, <4>2, <4>3, <4>4, <4>5, <4>6 DEF NumberedRead
    <3> QED
        BY <1>5, <3>1, <3>2 DEF EVisit
  <2> QED
      BY <1>1, <1>2, <2>1, <2>2 DEF PoppedSoFar, LossesReported
<1>6. CASE ENumber
  <2> DEFINE id == eslots[Slot(ereader.seq)].id
  <2>1. /\ UNCHANGED <<elast, last_pop_id, ehanded, ecleared, ereported, eread>>
        /\ ereader.on /\ ereader.id = 0
        /\ ereader' = [ereader EXCEPT !.id = id, !.discarded = Discarded(id)]
      BY <1>6 DEF ENumber
  <2>2. Slot(ereader.seq) \in ESlots /\ id \in Nat
      BY <1>3 DEF NumberedRead, NumberedSlots, ESlots
  <2>3. eslots[Slot(ereader.seq)].seq = ereader.seq => id = ereader.seq
      BY <2>1, <2>2 DEF NumberedRead, NumberedSlots, ESlots
  <2> HIDE DEF id
  <2>4. Discarded(id) \in Nat
      BY <2>2 DEF Discarded, PoppedSoFar
  <2>5. /\ ereader' \in [at : Nat, on : BOOLEAN, seq : Nat, id : Nat, body : Nat, discarded : Nat, keep : BOOLEAN]
        /\ ereader'.at = ereader.at /\ ereader'.on /\ ereader'.seq = ereader.seq /\ ereader'.id = id
        /\ ereader'.body = 0 /\ ereader'.discarded = Discarded(id) /\ ereader.at # 0
    <3>1. ereader \in [at : Nat, on : BOOLEAN, seq : Nat, id : Nat, body : Nat, discarded : Nat, keep : BOOLEAN] /\ ereader.at # 0 /\ ereader.body = 0
        BY <2>1 DEF NumberedRead, NoRead
    <3> HIDE DEF EBInv
    <3> QED
        BY <2>1, <2>2, <2>4, <3>1
  <2>7. NumberedRead'
      BY <1>1, <2>1, <2>3, <2>5 DEF NumberedRead, Discarded
  <2> QED
      BY <1>1, <1>2, <2>1, <2>7 DEF PoppedSoFar, LossesReported
<1>7. CASE ECopy
  <2> DEFINE body == eslots[Slot(ereader.seq)].body
  <2>1. /\ UNCHANGED <<elast, last_pop_id, ehanded, ecleared, ereported, eread>>
        /\ ereader.on /\ ereader.id # 0 /\ ereader.body = 0
        /\ ereader' = [ereader EXCEPT !.body = body]
      BY <1>7 DEF ECopy
  <2>2. Slot(ereader.seq) \in ESlots /\ body \in Nat
      BY <1>3 DEF NumberedRead, NumberedSlots, ESlots
  <2>3. eslots[Slot(ereader.seq)].seq = ereader.seq => body = ereader.seq
      BY <2>1, <2>2 DEF NumberedRead, NumberedSlots, ESlots
  <2> HIDE DEF body
  <2>5. /\ ereader' \in [at : Nat, on : BOOLEAN, seq : Nat, id : Nat, body : Nat, discarded : Nat, keep : BOOLEAN]
        /\ ereader'.at = ereader.at /\ ereader'.on /\ ereader'.seq = ereader.seq /\ ereader'.id = ereader.id
        /\ ereader'.body = body /\ ereader'.discarded = ereader.discarded /\ ereader.at # 0
      BY <2>1, <2>2 DEF NumberedRead, NoRead
  <2>7. NumberedRead'
      BY <1>1, <2>1, <2>3, <2>5 DEF NumberedRead, Discarded
  <2> QED
      BY <1>1, <1>2, <2>1, <2>7 DEF PoppedSoFar, LossesReported
<1>8. CASE EFinish
  <2>1. ereader.on /\ ereader.body # 0 /\ ereader' = NoRead /\ UNCHANGED ecleared
      BY <1>8 DEF EFinish
  <2>2. NumberedRead'
      BY <2>1 DEF NumberedRead, NoRead
  <2>3. CASE ~EUnchanged
    <3>1. UNCHANGED <<elast, last_pop_id, ehanded, ereported, eread>>
        BY <1>8, <2>3 DEF EFinish
    <3> QED
        BY <1>1, <1>2, <2>1, <2>2, <3>1 DEF PoppedSoFar, LossesReported
  <2>4. CASE EUnchanged
    <3>1. ereader.seq \in Nat /\ ereader.id = ereader.seq /\ ereader.body = ereader.seq /\ ereader.seq > elast
        BY <2>1, <2>4 DEF NumberedRead, EUnchanged
    <3>2. eread'.id = eread'.body
        BY <1>8, <2>4, <3>1 DEF EFinish
    <3>3. CASE ereader.keep
      <4>1. UNCHANGED <<elast, last_pop_id, ehanded, ereported>>
          BY <1>8, <2>4, <3>3 DEF EFinish
      <4> QED
          BY <1>1, <1>2, <2>1, <2>2, <3>2, <4>1 DEF PoppedSoFar, LossesReported
    <3>4. CASE ~ereader.keep
      <4> DEFINE q == ereader.seq
      <4>1. /\ elast' = q /\ last_pop_id' = q /\ ehanded' = ehanded \cup {q}
            /\ ereported' = ereported + (IF ewts THEN ereader.discarded ELSE 0)
          BY <1>8, <2>4, <3>1, <3>4 DEF EFinish, Popped
      <4>2. q \in Nat /\ elast \in Nat /\ elast < q /\ last_pop_id = elast
          BY <3>1 DEF PoppedSoFar
      <4>3. ereader.discarded = q - elast - 1
          BY <2>1, <3>1, <4>2 DEF NumberedRead, Discarded
      <4>4. q <= eindex \/ (ewriter = "unlocked" /\ q = eindex + 1)
          BY <2>1 DEF NumberedRead
      <4> HIDE DEF q
      <4>5. PoppedSoFar'
        <5>1. ehanded' \subseteq 1..q /\ ecleared' \subseteq 1..q
          <6>1. ehanded \subseteq 1..elast /\ ecleared \subseteq 1..elast
              BY DEF PoppedSoFar
          <6>2. 1..elast \subseteq 1..q /\ q \in 1..q
              BY <4>2
          <6> QED
              BY <2>1, <4>1, <6>1, <6>2, Zenon
        <5>2. ereported' \in Nat /\ (~ewts => ereported' = 0)
            BY <4>1, <4>2, <4>3 DEF PoppedSoFar
        <5>3. ewts' \in BOOLEAN
            BY <1>1, Zenon DEF PoppedSoFar
        <5> QED
            BY <1>1, <4>1, <4>2, <4>4, <5>1, <5>2, <5>3 DEF PoppedSoFar
      <4>6. LossesReported'
        <5> SUFFICES ASSUME ewts PROVE ereported' = Cardinality((1..last_pop_id') \ (ehanded' \cup ecleared'))
            BY <1>1 DEF LossesReported
        <5> DEFINE H == ehanded \cup ecleared
        <5>1. H \in SUBSET (1..elast)
            BY DEF PoppedSoFar
        <5>2. ehanded' \cup ecleared' = H \cup {q}
            BY <2>1, <4>1
        <5>3. ereported = Cardinality((1..elast) \ H)
            BY <4>2 DEF LossesReported
        <5> HIDE DEF H
        <5>4. Cardinality((1..q) \ (H \cup {q})) = Cardinality((1..elast) \ H) + (q - elast - 1)
            BY <4>2, <5>1, Skipped
        <5> QED
            BY <4>1, <4>3, <5>2, <5>3, <5>4
      <4> QED
          BY <1>2, <2>2, <3>2, <4>5, <4>6
    <3> QED
        BY <3>3, <3>4
  <2> QED
      BY <2>3, <2>4
<1>9. CASE clear_evicting
  <2>1. /\ ewriter = "idle" /\ elast' = eindex /\ last_pop_id' = push_count
        /\ ecleared' = ecleared \cup ((elast + 1)..eindex)
        /\ UNCHANGED <<ereader, ehanded, ereported, eread>> /\ ereader.at = 0
      BY <1>9 DEF clear_evicting, ClearedTo
  <2>2. push_count = eindex /\ eindex \in Nat /\ elast \in Nat /\ elast <= eindex /\ last_pop_id = elast
      BY <2>1 DEF PushPlace, Naming, PoppedSoFar
  <2>3. NumberedRead'
      BY <1>1, <2>1 DEF NumberedRead, NoRead
  <2>4. PoppedSoFar'
    <3>1. ehanded' \subseteq 1..eindex /\ ecleared' \subseteq 1..eindex
      <4>1. ehanded \subseteq 1..elast /\ ecleared \subseteq 1..elast
          BY DEF PoppedSoFar
      <4>2. 1..elast \subseteq 1..eindex /\ (elast + 1)..eindex \subseteq 1..eindex
          BY <2>2
      <4> QED
          BY <2>1, <4>1, <4>2, Zenon
    <3> QED
        BY <1>1, <2>1, <2>2, <3>1 DEF PoppedSoFar
  <2>5. LossesReported'
    <3>1. ehanded \subseteq 1..elast /\ ecleared \subseteq 1..elast
        BY DEF PoppedSoFar
    <3>2. (1..eindex) \ (ehanded \cup ecleared') = (1..elast) \ (ehanded \cup ecleared)
        BY <2>1, <2>2, <3>1
    <3> QED
        BY <1>1, <2>1, <2>2, <3>2 DEF LossesReported
  <2> QED
      BY <1>2, <2>1, <2>3, <2>4, <2>5
<1> QED
    BY <1>4, <1>5, <1>6, <1>7, <1>8, <1>9

LEMMA EBNextInv == EBInv /\ [EBNext]_evars => EBInv'
<1> SUFFICES ASSUME EBInv, [EBNext]_evars PROVE EBInv'
    OBVIOUS
<1>1. CASE UNCHANGED evars
    BY <1>1 DEF evars, EBInv, PushPlace, Naming, NumberedSlots, NumberedRead, Discarded, PoppedSoFar, LossesReported
<1> QED
    BY <1>1, EBWriterInv, EBReaderInv DEF EBNext

LEMMA EBAlways == EBSpec => [](EBTypeOK /\ LossesReported /\ NumberNamesBody)
<1>1. EBInv => EBTypeOK /\ LossesReported /\ NumberNamesBody
  <2> SUFFICES ASSUME EBInv PROVE EBTypeOK /\ LossesReported /\ NumberNamesBody
      OBVIOUS
  <2> USE EBytesAssumption DEF EBInv
  <2>1. eindex \in 0..EMaxPush /\ elast \in 0..EMaxPush /\ push_count \in 0..EMaxPush /\ last_pop_id = elast
      BY DEF PushPlace, Naming, PoppedSoFar
  <2>2. ehanded \subseteq 1..EMaxPush /\ ecleared \subseteq 1..EMaxPush
    <3>1. 1..elast \subseteq 1..EMaxPush
        BY <2>1
    <3> QED
        BY <3>1, Zenon DEF PoppedSoFar
  <2>3. ereported \in 0..EMaxPush
    <3>1. CASE ewts
      <4> DEFINE D == (1..elast) \ (ehanded \cup ecleared)
      <4>1. 1 \in Int /\ elast \in Int
          BY <2>1
      <4>2. IsFiniteSet(1..elast) /\ Cardinality(1..elast) = IF 1 > elast THEN 0 ELSE elast - 1 + 1
          BY <4>1, FS_Interval
      <4>3. Cardinality(D) <= Cardinality(1..elast) /\ D \in SUBSET (1..elast)
          BY <4>2, FS_Subset
      <4>4. ereported = Cardinality(D) /\ ereported \in Nat
          BY <2>1, <3>1 DEF LossesReported, PoppedSoFar
      <4> QED
          BY <2>1, <4>2, <4>3, <4>4
    <3>2. CASE ~ewts
        BY <3>2 DEF PoppedSoFar
    <3> QED
        BY <3>1, <3>2
  <2> QED
      BY <2>1, <2>2, <2>3 DEF EBTypeOK, NumberNamesBody, PushPlace
<1> QED
    BY <1>1, EBInitInv, EBNextInv, PTL DEF EBSpec

\* BoundedQueueBytes.
BRecord == [ts : 0..MaxMessages, len : 0..MaxDataSize, data : [1..MaxDataSize -> 0..MaxMessages]]
BMsgs == [len : 0..MaxDataSize, ts : 0..MaxMessages]

LEMMA SmallerOfTwo ==
    ASSUME NEW a \in Nat, NEW b \in Nat
    PROVE  Min({a, b}) \in {a, b} /\ Min({a, b}) <= a /\ Min({a, b}) <= b
<1>1. \E x \in {a, b} : \A y \in {a, b} : x <= y
  <2>1. CASE a <= b
      BY <2>1
  <2>2. CASE b <= a
      BY <2>2
  <2> QED
      BY <2>1, <2>2
<1>2. Min({a, b}) \in {a, b} /\ \A y \in {a, b} : Min({a, b}) <= y
    BY <1>1, Zenon DEF Min
<1> QED
    BY <1>2

LEMMA BBInitInv == BBInit => BBInv
<1> SUFFICES ASSUME BBInit PROVE BBInv
    OBVIOUS
<1> USE BytesAssumption DEF BBInit, NothingRead
<1>1. Range(bpush) = {}
    BY DEF Range
<1>2. BBTypeOK
    BY <1>1 DEF BBTypeOK
<1>3. RecordsHold
    BY DEF RecordsHold
<1> QED
    BY <1>2, <1>3 DEF BBInv, NoStaleBytes

\* A batch that fits goes to records of its own: each to one that holds no
\* message that is still to be read, and no two to the same.
LEMMA BatchRecords ==
    ASSUME BBInv, NEW ms \in Seq(BMsgs), Room(ms), Len(bpush) + Len(ms) <= MaxMessages,
           bslots' = [s \in DOMAIN bslots |->
                 LET hit == {i \in DOMAIN ms : (Len(bpush) + i - 1) % BCapacity = s}
                 IN  IF hit = {} THEN bslots[s]
                     ELSE LET i == CHOOSE j \in hit : TRUE IN Fill(bslots[s], Len(bpush) + i, ms[i])]
    PROVE  /\ bslots' \in [0..(BCapacity - 1) -> BRecord]
           /\ \A i \in 1..Len(ms) : LET s == (Len(bpush) + i - 1) % BCapacity
                                    IN  bslots'[s] = Fill(bslots[s], Len(bpush) + i, ms[i])
           /\ \A n \in 1..Len(bpush) : n > bpop => LET s == (n - 1) % BCapacity IN bslots'[s] = bslots[s]
<1> USE BytesAssumption
<1> DEFINE N == Len(bpush)
           k == Len(ms)
           at(i) == (N + i - 1) % BCapacity
           hit(s) == {i \in DOMAIN ms : at(i) = s}
           pick(s) == CHOOSE j \in hit(s) : TRUE
           S == 0..(BCapacity - 1)
<1>1. N \in Nat /\ k \in Nat /\ bpop \in Nat /\ bpop <= N /\ N + k - bpop <= BCapacity /\ DOMAIN ms = 1..k
    BY DEF BBInv, RecordsHold, Room
<1>2. bslots \in [S -> BRecord]
    BY DEF BBInv, BBTypeOK, BRecord
<1>3. bslots' = [s \in S |-> IF hit(s) = {} THEN bslots[s] ELSE Fill(bslots[s], N + pick(s), ms[pick(s)])]
    BY <1>2
<1>4. \A s \in S : hit(s) # {} => pick(s) \in 1..k /\ at(pick(s)) = s
    BY <1>1, Zenon
<1>5. \A x \in Int : x % BCapacity \in S
    BY DivMod
<1> HIDE DEF pick, S, N, k
<1>6. \A i \in 1..k, j \in 1..k : at(i) = at(j) => i = j
  <2> SUFFICES ASSUME NEW i \in 1..k, NEW j \in 1..k, at(i) = at(j), i <= j PROVE i = j
      BY <1>1
  <2>1. N + i - 1 \in Int /\ N + j - 1 \in Int /\ N + i - 1 <= N + j - 1 /\ N + j - 1 < N + i - 1 + BCapacity
      BY <1>1
  <2>2. N + i - 1 = N + j - 1
      BY <2>1, ModInjective
  <2> QED
      BY <1>1, <2>2
<1>7. ASSUME NEW n \in 1..N, n > bpop, NEW i \in 1..k PROVE at(i) # (n - 1) % BCapacity
  <2> SUFFICES ASSUME at(i) = (n - 1) % BCapacity PROVE FALSE
      OBVIOUS
  <2>1. n - 1 \in Int /\ N + i - 1 \in Int /\ n - 1 < N + i - 1 /\ N + i - 1 < n - 1 + BCapacity
      BY <1>1, <1>7
  <2>2. n - 1 = N + i - 1
      BY <2>1, ModInjective
  <2> QED
      BY <2>1, <2>2
<1>8. ASSUME NEW i \in 1..k PROVE bslots'[at(i)] = Fill(bslots[at(i)], N + i, ms[i])
  <2>0. N + i - 1 \in Int
      BY <1>1
  <2>1. at(i) \in S
      BY <1>5, <2>0, Zenon
  <2>2. i \in hit(at(i))
      BY <1>1
  <2>3. pick(at(i)) \in 1..k /\ at(pick(at(i))) = at(i)
      BY <1>4, <2>1, <2>2, Zenon
  <2>4. pick(at(i)) = i
      BY <1>6, <2>3
  <2> QED
      BY <1>3, <2>1, <2>2, <2>4, Zenon
<1>9. ASSUME NEW n \in 1..N, n > bpop PROVE bslots'[(n - 1) % BCapacity] = bslots[(n - 1) % BCapacity]
  <2>0. n - 1 \in Int
      OBVIOUS
  <2>1. (n - 1) % BCapacity \in S
      BY <1>5, <2>0, Zenon
  <2>2. hit((n - 1) % BCapacity) = {}
      BY <1>1, <1>7, <1>9
  <2> QED
      BY <1>3, <2>1, <2>2, Zenon
<1>10. ASSUME NEW s \in S, NEW i \in 1..k PROVE Fill(bslots[s], N + i, ms[i]) \in BRecord
  <2>1. N + i \in 0..MaxMessages
      BY <1>1 DEF N, k
  <2>2. ms[i] \in BMsgs /\ bslots[s] \in BRecord
      BY <1>1, <1>2 DEF k
  <2> QED
      BY <2>1, <2>2 DEF Fill, LenField, BRecord, BMsgs
<1>11. bslots' \in [S -> BRecord]
  <2>1. ASSUME NEW s \in S
        PROVE  (IF hit(s) = {} THEN bslots[s] ELSE Fill(bslots[s], N + pick(s), ms[pick(s)])) \in BRecord
    <3>1. CASE hit(s) = {}
        BY <1>2, <3>1
    <3>2. CASE hit(s) # {}
      <4>1. pick(s) \in 1..k
          BY <1>4, <3>2, Zenon
      <4>2. Fill(bslots[s], N + pick(s), ms[pick(s)]) \in BRecord
          BY <1>10, <4>1, Zenon
      <4> QED
          BY <3>2, <4>2, Zenon
    <3> QED
        BY <3>1, <3>2
  <2> QED
      BY <1>3, <2>1, Zenon
<1> QED
    BY <1>8, <1>9, <1>11 DEF S, N, k

LEMMA BPushInv ==
    ASSUME BBInv, NEW ms \in Seq([len : Nat, ts : 0..MaxMessages]), try_push_n_wts(ms)
    PROVE  BBInv'
<1> USE BytesAssumption
<1>1. UNCHANGED <<bpop, bgot>> /\ Len(bpush) + Len(ms) <= MaxMessages
    BY DEF try_push_n_wts
<1>2. CASE ~(AllFit(ms) /\ Room(ms))
  <2>1. UNCHANGED <<bpush, bslots>>
      BY <1>2 DEF try_push_n_wts
  <2> QED
      BY <1>1, <2>1 DEF BBInv, BBTypeOK, RecordsHold, NoStaleBytes
<1>3. CASE AllFit(ms) /\ Room(ms)
  <2>1. ms \in Seq(BMsgs)
    <3>1. \A i \in 1..Len(ms) : ms[i] \in BMsgs
      <4> SUFFICES ASSUME NEW i \in 1..Len(ms) PROVE ms[i] \in BMsgs
          OBVIOUS
      <4>1. i \in DOMAIN ms /\ ms[i] \in [len : Nat, ts : 0..MaxMessages]
          BY LenProperties
      <4>2. ms[i].len <= MaxDataSize
          BY <1>3, <4>1 DEF AllFit
      <4> QED
          BY <4>1, <4>2 DEF BMsgs
    <3> QED
        BY <3>1
  <2> DEFINE N == Len(bpush)
             k == Len(ms)
  <2>2. bpush \in Seq(BMsgs) /\ N \in Nat /\ k \in Nat /\ bpop \in Nat /\ bpop <= N /\ N + k - bpop <= BCapacity
      BY <1>3 DEF BBInv, RecordsHold, Room, BMsgs
  <2>3. bpush' = bpush \o ms
      BY <1>3 DEF try_push_n_wts
  <2>4. /\ bpush' \in Seq(BMsgs) /\ Len(bpush') = N + k
        /\ \A n \in 1..N : bpush'[n] = bpush[n]
        /\ \A n \in 1..(N + k) : n > N => n - N \in 1..k /\ bpush'[n] = ms[n - N]
      BY <2>1, <2>2, <2>3
  <2>5. /\ bslots' \in [0..(BCapacity - 1) -> BRecord]
        /\ \A i \in 1..k : LET s == (N + i - 1) % BCapacity IN bslots'[s] = Fill(bslots[s], N + i, ms[i])
        /\ \A n \in 1..N : n > bpop => LET s == (n - 1) % BCapacity IN bslots'[s] = bslots[s]
      BY <1>1, <1>3, <2>1, BatchRecords DEF try_push_n_wts
  <2>6. BBTypeOK'
    <3>1. Range(bpush') \subseteq BMsgs
        BY <2>4 DEF Range
    <3>2. Len(bpush') <= MaxMessages /\ bpop' \in 0..Len(bpush')
        BY <1>1, <2>2, <2>4
    <3> QED
        BY <1>1, <2>5, <3>1, <3>2 DEF BBInv, BBTypeOK, BRecord, BMsgs
  <2> HIDE DEF N, k
  <2>7. RecordsHold'
    <3>1. ASSUME NEW n \in 1..Len(bpush'), n > bpop
          PROVE  LET slot == bslots'[(n - 1) % BCapacity]
                 IN  /\ slot.len = bpush'[n].len /\ slot.ts = bpush'[n].ts
                     /\ \A i \in 1..MaxDataSize : i <= slot.len => slot.data[i] = n
      <4>1. CASE n <= N
        <5>1. n \in 1..N
            BY <2>2, <2>4, <4>1
        <5>2. bslots'[(n - 1) % BCapacity] = bslots[(n - 1) % BCapacity] /\ bpush'[n] = bpush[n]
            BY <2>4, <2>5, <3>1, <5>1
        <5> QED
            BY <3>1, <5>1, <5>2 DEF BBInv, RecordsHold, N
      <4>2. CASE n > N
        <5> DEFINE j == n - N
        <5>1. j \in 1..k /\ bpush'[n] = ms[j] /\ N + j = n /\ N + j - 1 = n - 1
            BY <2>2, <2>4, <4>2
        <5>2. ms[j] \in BMsgs
            BY <2>1, <5>1 DEF k
        <5> HIDE DEF j
        <5>3. bslots'[(n - 1) % BCapacity] = Fill(bslots[(n - 1) % BCapacity], n, ms[j])
            BY <2>5, <5>1
        <5> QED
            BY <5>1, <5>2, <5>3 DEF Fill, LenField, BMsgs
      <4> QED
          BY <2>2, <2>4, <4>1, <4>2
    <3>2. bpop' \in Nat /\ bpop' <= Len(bpush') /\ Len(bpush') - bpop' <= BCapacity
        BY <1>1, <2>2, <2>4
    <3> QED
        BY <1>1, <2>4, <3>1, <3>2 DEF RecordsHold, BMsgs
  <2>8. bgot'.msg <= Len(bpush') /\ (bgot.msg # 0 => bpush'[bgot.msg] = bpush[bgot.msg])
    <3>1. bgot.msg \in Nat /\ bgot.msg <= N
        BY DEF BBInv, BBTypeOK, N
    <3> QED
        BY <1>1, <2>2, <2>4, <3>1
  <2>9. NoStaleBytes'
      BY <1>1, <2>8 DEF BBInv, NoStaleBytes
  <2> QED
      BY <2>6, <2>7, <2>8, <2>9 DEF BBInv
<1> QED
    BY <1>2, <1>3

\* A read of the n-th message hands over no more than the message, and nothing
\* but its bytes.
LEMMA CopiedTrue ==
    ASSUME BBInv, NEW n \in 1..Len(bpush), n > bpop, NEW size \in Nat
    PROVE  LET got == Copied(n, size)
           IN  /\ got.msg = n /\ got.ts = bpush[n].ts /\ got.ts \in 0..MaxMessages
               /\ Len(got.bytes) <= bpush[n].len /\ Range(got.bytes) \subseteq {n}
<1> USE BytesAssumption
<1> DEFINE slot == bslots[(n - 1) % BCapacity]
           m == Min({SafeLen(slot), size})
<1>1. (n - 1) % BCapacity \in 0..(BCapacity - 1)
  <2>1. n - 1 \in Int
      OBVIOUS
  <2> QED
      BY <2>1, DivMod
<1>2. slot \in BRecord
    BY <1>1 DEF BBInv, BBTypeOK, BRecord
<1>3. slot.len = bpush[n].len /\ slot.ts = bpush[n].ts /\ \A i \in 1..MaxDataSize : i <= slot.len => slot.data[i] = n
    BY DEF BBInv, RecordsHold
<1> HIDE DEF slot
<1>4. SafeLen(slot) \in Nat /\ SafeLen(slot) <= slot.len /\ SafeLen(slot) <= MaxDataSize
  <2>1. slot.len \in Nat /\ MaxDataSize \in Nat
      BY <1>2 DEF BRecord
  <2> QED
      BY <2>1, SmallerOfTwo DEF SafeLen
<1>5. m \in Nat /\ m <= slot.len /\ m <= MaxDataSize
  <2>1. m \in {SafeLen(slot), size} /\ m <= SafeLen(slot)
      BY <1>4, SmallerOfTwo
  <2> HIDE DEF m
  <2>2. slot.len \in Nat
      BY <1>2 DEF BRecord
  <2> QED
      BY <1>4, <2>1, <2>2
<1> HIDE DEF m
<1> DEFINE b == SubSeq(slot.data, 1, m)
<1>6. \A i \in 1..m : slot.data[i] = n
    BY <1>2, <1>3, <1>5 DEF BRecord
<1>7. b \in Seq({n}) /\ Len(b) = m
  <2>1. 1 \in Int /\ m \in Int /\ \A i \in 1..m : slot.data[i] \in {n}
      BY <1>5, <1>6
  <2>2. b \in Seq({n}) /\ Len(b) = IF 1 <= m THEN m - 1 + 1 ELSE 0
      BY <2>1, SubSeqProperties
  <2> QED
      BY <1>5, <2>2
<1>8. Copied(n, size) = [msg |-> n, bytes |-> b, ts |-> slot.ts]
    BY DEF Copied, slot, m
<1> HIDE DEF b
<1>9. Range(b) \subseteq {n}
    BY <1>7 DEF Range
<1> QED
    BY <1>2, <1>3, <1>5, <1>7, <1>8, <1>9 DEF BRecord

LEMMA PayloadTyped ==
    ASSUME NEW n \in Nat, n <= MaxMessages, NEW m \in PayloadsOf(n)
    PROVE  m \in [len : Nat, ts : 0..MaxMessages]
BY BytesAssumption DEF PayloadsOf, Msg, Lengths

LEMMA BBNextInv == BBInv /\ [BBNext]_bvars => BBInv'
<1> SUFFICES ASSUME BBInv, [BBNext]_bvars PROVE BBInv'
    OBVIOUS
<1> USE BytesAssumption
<1>0. Len(bpush) \in Nat /\ bpop \in Nat /\ bpop <= Len(bpush) /\ Len(bpush) - bpop <= BCapacity
    BY DEF BBInv, RecordsHold
<1>1. CASE UNCHANGED bvars
    BY <1>1 DEF bvars, BBInv, BBTypeOK, RecordsHold, NoStaleBytes
<1>2. ASSUME NEW m \in PayloadsOf(Len(bpush) + 1), try_push_n_wts(<<m>>) PROVE BBInv'
  <2>1. Len(bpush) + 1 \in Nat /\ Len(bpush) + 1 <= MaxMessages
      BY <1>0, <1>2 DEF try_push_n_wts
  <2>2. m \in [len : Nat, ts : 0..MaxMessages]
      BY <2>1, PayloadTyped
  <2>3. <<m>> \in Seq([len : Nat, ts : 0..MaxMessages])
      BY <2>2
  <2> QED
      BY <1>2, <2>3, BPushInv
<1>3. ASSUME NEW m1 \in PayloadsOf(Len(bpush) + 1), NEW m2 \in PayloadsOf(Len(bpush) + 2), try_push_n_wts(<<m1, m2>>)
      PROVE  BBInv'
  <2>1. /\ Len(bpush) + 1 \in Nat /\ Len(bpush) + 1 <= MaxMessages
        /\ Len(bpush) + 2 \in Nat /\ Len(bpush) + 2 <= MaxMessages
      BY <1>0, <1>3 DEF try_push_n_wts
  <2>2. m1 \in [len : Nat, ts : 0..MaxMessages] /\ m2 \in [len : Nat, ts : 0..MaxMessages]
      BY <2>1, PayloadTyped
  <2>3. <<m1, m2>> \in Seq([len : Nat, ts : 0..MaxMessages])
      BY <2>2
  <2> QED
      BY <1>3, <2>3, BPushInv
<1>4. ASSUME NEW n \in 1..Len(bpush), n > bpop, NEW size \in Buffers, bgot' = Copied(n, size),
             UNCHANGED <<bslots, bpush>>, bpop' \in {bpop, n}
      PROVE  BBInv'
  <2>1. size \in Nat
      BY DEF Buffers
  <2>2. /\ bgot'.msg = n /\ bgot'.ts = bpush[n].ts /\ bgot'.ts \in 0..MaxMessages
        /\ Len(bgot'.bytes) <= bpush[n].len /\ Range(bgot'.bytes) \subseteq {n}
      BY <1>4, <2>1, CopiedTrue
  <2>3. bpop' \in Nat /\ bpop' >= bpop /\ bpop' <= Len(bpush)
      BY <1>0, <1>4
  <2>4. BBTypeOK'
      BY <1>0, <1>4, <2>2, <2>3 DEF BBInv, BBTypeOK
  <2>5. RecordsHold'
    <3>1. Len(bpush) - bpop' <= BCapacity /\ \A i \in 1..Len(bpush) : i > bpop' => i > bpop
        BY <1>0, <2>3
    <3> QED
        BY <1>4, <2>3, <3>1 DEF BBInv, RecordsHold
  <2> QED
      BY <1>4, <2>2, <2>4, <2>5 DEF BBInv, NoStaleBytes
<1>5. ASSUME NEW n \in 1..BCapacity, NEW size \in Buffers, try_pop(n, size) PROVE BBInv'
  <2>1. bpop + n \in 1..Len(bpush) /\ bpop + n > bpop
      BY <1>0, <1>5 DEF try_pop
  <2> QED
      BY <1>4, <1>5, <2>1 DEF try_pop
<1>6. ASSUME NEW size \in Buffers, try_peek(size) PROVE BBInv'
  <2>1. bpop + 1 \in 1..Len(bpush) /\ bpop + 1 > bpop
      BY <1>0, <1>6 DEF try_peek
  <2> QED
      BY <1>4, <1>6, <2>1 DEF try_peek
<1>7. CASE clear_bytes
  <2>1. bpop' = Len(bpush) /\ UNCHANGED <<bslots, bpush, bgot>>
      BY <1>7 DEF clear_bytes
  <2>2. RecordsHold'
      BY <1>0, <2>1 DEF BBInv, RecordsHold
  <2> QED
      BY <1>0, <2>1, <2>2 DEF BBInv, BBTypeOK, NoStaleBytes
<1> QED
    BY <1>1, <1>2, <1>3, <1>5, <1>6, <1>7 DEF BBNext

\* What a reader of either byte queue may count on, for every capacity, record
\* size and any number of messages: no byte of an older message comes with a
\* newer one, number and body are of one message, and what was lost is reported.
THEOREM ByteMessagesAlwaysWhole == BBSpec /\ EBSpec => []MessagesWhole
<1>1. BBInv => BBTypeOK /\ NoStaleBytes
    BY DEF BBInv
<1>2. BBSpec => [](BBTypeOK /\ NoStaleBytes)
    BY <1>1, BBInitInv, BBNextInv, PTL DEF BBSpec
<1> QED
    BY <1>2, EBAlways, PTL DEF MessagesWhole
=============================================================================
