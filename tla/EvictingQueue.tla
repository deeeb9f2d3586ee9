--------------------------- MODULE EvictingQueue ---------------------------
(***************************************************************************)
(* eph::containers::EvictingQueue<T, Capacity> with Capacity > 1: a ring   *)
(* of seqlock-guarded slots.  The writer never waits and overwrites the    *)
(* oldest slot; the reader reads the newest one optimistically.            *)
(*                                                                         *)
(* The writer and the reader interleave at every access to shared memory;  *)
(* an element is copied word by word, so a read may be torn.  The fences   *)
(* of the code order each side's accesses as written here: a reader that   *)
(* saw a word of a later write also sees that write's locked sequence.     *)
(* The value of the n-th element is n.  Indices are uint64_t and the model *)
(* stops at MaxPush elements, far below their wrap.                        *)
(***************************************************************************)
EXTENDS Integers, FiniteSets

CONSTANTS Capacity,   \* number of slots, a power of two above 1
          NumWords,   \* words per element
          MaxPush     \* bound on the elements written

ASSUME CapacityAssumption == Capacity \in Nat \ {0, 1}
ASSUME NumWordsAssumption == NumWords \in Nat \ {0}
ASSUME MaxPushAssumption == MaxPush \in Nat

Words == 1..NumWords
Slots == 0..(Capacity - 1)
Counts == 0..MaxPush

VARIABLES
    global_index,               \* the newest published element
    shadow_global_index,        \* the writer's own copy
    last_global_index,          \* the newest element the reader consumed
    slots,                      \* per slot: idx and locked (the seq_ word), data
    wpc, wi,                    \* the writer's step, words written so far
    rpc, rop, rmode, idx, seq1, ri, \* the reader's call in progress
    out,                        \* the caller's destination object
    handed,                     \* history: the element last handed over
    written, floor              \* history: elements complete; newest at call start

EQwvars == <<global_index, shadow_global_index, wpc, wi, written>>
EQrvars == <<last_global_index, rpc, rop, rmode, idx, seq1, ri, out, handed, floor>>
EQvars == <<EQwvars, EQrvars, slots>>

Unlocked(n) == [idx |-> n, locked |-> FALSE]
Locked(n) == [idx |-> n, locked |-> TRUE]
SlotOf(n) == n % Capacity

EQInit ==
    /\ global_index = 0 /\ shadow_global_index = 0 /\ last_global_index = 0
    /\ slots = [s \in Slots |-> [seq |-> Unlocked(0), data |-> [w \in Words |-> 0]]]
    /\ wpc = "idle" /\ wi = 0 /\ written = 0
    /\ rpc = "idle" /\ rop = "consume" /\ rmode = "try"
    /\ idx = 0 /\ seq1 = Unlocked(0) /\ ri = 0
    /\ out = [w \in Words |-> 0] /\ handed = [w \in Words |-> 0] /\ floor = 0
-----------------------------------------------------------------------------
\* produce / push / emplace, and each element of produce_n / push_n.

next_idx == shadow_global_index + 1

\* The slot is locked before any of its words changes.
LockSlot ==
    /\ wpc = "idle" /\ next_idx <= MaxPush
    /\ slots' = [slots EXCEPT ![SlotOf(next_idx)].seq = Locked(next_idx)]
    /\ wpc' = "write" /\ wi' = 0
    /\ UNCHANGED <<global_index, shadow_global_index, written, EQrvars>>

WriteWord ==
    /\ wpc = "write" /\ wi < NumWords
    /\ slots' = [slots EXCEPT ![SlotOf(next_idx)].data[wi + 1] = next_idx]
    /\ wi' = wi + 1
    /\ UNCHANGED <<global_index, shadow_global_index, wpc, written, EQrvars>>

UnlockSlot ==
    /\ wpc = "write" /\ wi = NumWords
    /\ slots' = [slots EXCEPT ![SlotOf(next_idx)].seq = Unlocked(next_idx)]
    /\ wpc' = "publish" /\ written' = next_idx
    /\ UNCHANGED <<global_index, shadow_global_index, wi, EQrvars>>

PublishIndex ==
    /\ wpc = "publish"
    /\ global_index' = next_idx /\ shadow_global_index' = next_idx
    /\ wpc' = "idle" /\ wi' = 0
    /\ UNCHANGED <<slots, written, EQrvars>>
-----------------------------------------------------------------------------
\* try_consume_latest / try_peek_latest and the pop, blocking and *_for forms.

Call(op, mode) ==
    /\ rpc = "idle"
    /\ rpc' = "index" /\ rop' = op /\ rmode' = mode
    /\ UNCHANGED <<last_global_index, idx, seq1, ri, out, handed, floor, slots, EQwvars>>

\* One attempt failed: the call returns false or starts over.
Fail ==
    /\ \/ rmode \in {"try", "timed"} /\ rpc' = "idle"
       \/ rmode \in {"block", "timed"} /\ rpc' = "index"
    /\ ri' = 0

LoadIndex ==
    /\ rpc = "index"
    /\ idx' = global_index /\ floor' = global_index
    /\ \/ global_index > last_global_index /\ rpc' = "seq1" /\ UNCHANGED ri
       \/ global_index <= last_global_index /\ Fail
    /\ UNCHANGED <<last_global_index, rop, rmode, seq1, out, handed, slots, EQwvars>>

\* A slot that holds nothing newer than what was consumed is not read again.
NewerThanNext(s) == s.idx > last_global_index + 1
NewerThan(s) == s.idx > last_global_index

LoadSeq1 ==
    /\ rpc = "seq1"
    /\ seq1' = slots[SlotOf(idx)].seq
    /\ \/ ~seq1'.locked /\ NewerThan(seq1') /\ rpc' = "read" /\ UNCHANGED ri
       \/ (seq1'.locked \/ ~NewerThan(seq1')) /\ Fail
    /\ UNCHANGED <<last_global_index, rop, rmode, idx, out, handed, floor, slots, EQwvars>>

\* The visitor copies the element into the caller's object.
ReadWord ==
    /\ rpc = "read" /\ ri < NumWords
    /\ out' = [out EXCEPT ![ri + 1] = slots[SlotOf(idx)].data[ri + 1]]
    /\ ri' = ri + 1
    /\ UNCHANGED <<last_global_index, rpc, rop, rmode, idx, seq1, handed, floor, slots, EQwvars>>

Same(s) == s = seq1

\* What a successful read marks as consumed: the element it found in the slot,
\* which may be newer than the one the index pointed at.
MarkPointedAt == IF rop = "consume" THEN idx ELSE last_global_index
Mark == IF rop = "consume" THEN seq1.idx ELSE last_global_index

LoadSeq2 ==
    /\ rpc = "read" /\ ri = NumWords
    /\ \/ /\ Same(slots[SlotOf(idx)].seq)
          /\ last_global_index' = Mark
          /\ handed' = out
          /\ rpc' = "idle" /\ ri' = 0
       \/ /\ ~Same(slots[SlotOf(idx)].seq)
          /\ Fail
          /\ UNCHANGED <<last_global_index, handed>>
    /\ UNCHANGED <<rop, rmode, idx, seq1, out, floor, slots, EQwvars>>

\* clear(), with no reader or writer active.
EQClear ==
    /\ wpc = "idle" /\ rpc = "idle"
    /\ last_global_index' = global_index
    /\ UNCHANGED <<rpc, rop, rmode, idx, seq1, ri, out, handed, floor, slots, EQwvars>>

Modes == {"try", "block", "timed"}
Ops == {"consume", "peek"}

WriterStep == LockSlot \/ WriteWord \/ UnlockSlot \/ PublishIndex
ReaderStep == LoadIndex \/ LoadSeq1 \/ ReadWord \/ LoadSeq2

EQNext ==
    \/ WriterStep
    \/ \E op \in Ops, mode \in Modes : Call(op, mode)
    \/ ReaderStep
    \/ EQClear

EQSpec == EQInit /\ [][EQNext]_EQvars

\* Both threads run; the reader polls for as long as the program does.
EQFairness ==
    /\ WF_EQvars(WriterStep)
    /\ WF_EQvars(ReaderStep)
    /\ SF_EQvars(Call("consume", "try"))

EQLiveSpec == EQSpec /\ EQFairness
-----------------------------------------------------------------------------
SeqWord == [idx : Counts, locked : BOOLEAN]

\* Type invariant: no index runs ahead of the pushes, and the words of a slot
\* stay within the element.
EQTypeOK ==
    /\ global_index \in Counts /\ shadow_global_index \in Counts
    /\ last_global_index \in Counts
    /\ slots \in [Slots -> [seq : SeqWord, data : [Words -> Counts]]]
    /\ wpc \in {"idle", "write", "publish"} /\ wi \in 0..NumWords
    /\ rpc \in {"idle", "index", "seq1", "read"}
    /\ rop \in Ops /\ rmode \in Modes
    /\ idx \in Counts /\ seq1 \in SeqWord /\ ri \in 0..NumWords
    /\ out \in [Words -> Counts] /\ handed \in [Words -> Counts]
    /\ written \in Counts /\ floor \in Counts

Element(n) == [w \in Words |-> n]

\* The ring implements the latest-value register.
Register == INSTANCE LatestValue WITH got <- last_global_index
ImplementsLatestValue == Register!Spec

\* A reader that keeps polling gets the last element once the writer is done:
\* no retry, lock or stale index hides it for ever.
LastElementRead == (global_index = MaxPush) ~> (last_global_index = MaxPush)
=============================================================================
