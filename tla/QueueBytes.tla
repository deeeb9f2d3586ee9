----------------------------- MODULE QueueBytes -----------------------------
(***************************************************************************)
(* The queues of byte messages: records of fixed size over the bounded and *)
(* the evicting queue.                                                     *)
(***************************************************************************)
EXTENDS Integers, Sequences, FiniteSets, SequencesExt

-----------------------------------------------------------------------------
(***************************************************************************)
(* eph::containers::BoundedQueueBytes: messages of up to MaxDataSize bytes *)
(* in fixed-size records of a BoundedQueue.  The queue is taken by what it *)
(* promises (BoundedFifo): one atomic step per operation.  What is left is *)
(* the record: a slot keeps the bytes of an older, longer message behind   *)
(* the new one's.  Every byte of the n-th accepted message is n; its       *)
(* timestamp is n, or 0 when the call gave none.                           *)
(***************************************************************************)

CONSTANTS MaxDataSize,  \* the template parameters
          BCapacity,
          MaxMessages   \* bound on the messages accepted

ASSUME BytesAssumption == MaxDataSize \in Nat \ {0} /\ BCapacity \in Nat \ {0} /\ MaxMessages \in Nat

VARIABLES bslots,    \* the records of the ring
          bpush,     \* history: the accepted messages, their length and timestamp
          bpop,      \* how many were consumed
          bgot       \* what the last read handed over: message, bytes, length, timestamp

bvars == <<bslots, bpush, bpop, bgot>>

Lengths == 0..(MaxDataSize + 1)      \* of a payload, the first that does not fit included
Buffers == 0..(MaxDataSize + 1)      \* of a caller's buffer
Msg(l, t) == [len |-> l, ts |-> t]
NothingRead == [msg |-> 0, bytes |-> <<>>, ts |-> 0]

BBInit ==
    /\ bslots = [s \in 0..(BCapacity - 1) |-> [ts |-> 0, len |-> 0, data |-> [i \in 1..MaxDataSize |-> 0]]]
    /\ bpush = <<>> /\ bpop = 0 /\ bgot = NothingRead

LenField(old, l) == l

\* The visitor of every push: timestamp, length and the payload's bytes; the rest
\* of the record is left as it was.
Fill(slot, n, m) ==
    [ts |-> m.ts, len |-> LenField(slot.len, m.len),
     data |-> [i \in 1..MaxDataSize |-> IF i <= m.len THEN n ELSE slot.data[i]]]

AllFit(ms) == \A i \in DOMAIN ms : ms[i].len <= MaxDataSize

Room(ms) == Len(bpush) + Len(ms) - bpop <= BCapacity

\* try_push_wts, try_push, try_push_n, push_wts and the *_for forms: a batch
\* that does not fit, or a payload too long, changes nothing.
try_push_n_wts(ms) ==
    /\ Len(bpush) + Len(ms) <= MaxMessages
    /\ IF AllFit(ms) /\ Room(ms)
       THEN /\ bpush' = bpush \o ms
            /\ bslots' = [s \in DOMAIN bslots |->
                 LET hit == {i \in DOMAIN ms : (Len(bpush) + i - 1) % BCapacity = s}
                 IN  IF hit = {} THEN bslots[s]
                     ELSE LET i == CHOOSE j \in hit : TRUE IN Fill(bslots[s], Len(bpush) + i, ms[i])]
       ELSE UNCHANGED <<bpush, bslots>>
    /\ UNCHANGED <<bpop, bgot>>

SafeLen(slot) == Min({slot.len, MaxDataSize})

\* The bytes a read copies: what the record says it holds, as far as the buffer goes.
Copied(n, size) ==
    LET slot == bslots[(n - 1) % BCapacity]
    IN  [msg |-> n, bytes |-> SubSeq(slot.data, 1, Min({SafeLen(slot), size})), ts |-> slot.ts]

\* try_pop, try_consume, pop, consume and the *_for forms; consume_n hands over
\* n messages, of which the last is kept here.
try_pop(n, size) ==
    /\ bpop + n <= Len(bpush)
    /\ bgot' = Copied(bpop + n, size) /\ bpop' = bpop + n
    /\ UNCHANGED <<bslots, bpush>>

try_peek(size) ==
    /\ bpop < Len(bpush)
    /\ bgot' = Copied(bpop + 1, size)
    /\ UNCHANGED <<bslots, bpush, bpop>>

clear_bytes ==
    /\ bpop' = Len(bpush)
    /\ UNCHANGED <<bslots, bpush, bgot>>

PayloadsOf(n) == {Msg(l, t) : l \in Lengths, t \in {0, n}}

BBNext ==
    \/ \E m \in PayloadsOf(Len(bpush) + 1) : try_push_n_wts(<<m>>)
    \/ \E m1 \in PayloadsOf(Len(bpush) + 1), m2 \in PayloadsOf(Len(bpush) + 2) : try_push_n_wts(<<m1, m2>>)
    \/ \E n \in 1..BCapacity, size \in Buffers : try_pop(n, size)
    \/ \E size \in Buffers : try_peek(size)
    \/ clear_bytes

BBSpec == BBInit /\ [][BBNext]_bvars
-----------------------------------------------------------------------------
BBTypeOK ==
    /\ bslots \in [0..(BCapacity - 1) -> [ts : 0..MaxMessages, len : 0..MaxDataSize, data : [1..MaxDataSize -> 0..MaxMessages]]]
    /\ Len(bpush) <= MaxMessages /\ Range(bpush) \subseteq [len : 0..MaxDataSize, ts : 0..MaxMessages]
    /\ bpop \in 0..Len(bpush)
    /\ bgot.msg \in 0..MaxMessages /\ bgot.ts \in 0..MaxMessages

\* What a read hands over is the beginning of the message whose turn it is, with
\* that message's timestamp: no byte of the longer message that had the record
\* before, and all of it when the buffer is large enough.
NoStaleBytes ==
    bgot.msg # 0 =>
        LET m == bpush[bgot.msg]
        IN  /\ bgot.ts = m.ts
            /\ Len(bgot.bytes) <= m.len
            /\ Range(bgot.bytes) \subseteq {bgot.msg}

-----------------------------------------------------------------------------
(***************************************************************************)
(* eph::containers::EvictingQueueBytes: numbered messages in the slots of  *)
(* an EvictingQueue.  The number is drawn inside the produce visitor, the  *)
(* reader keeps the number it popped last and reports how many it missed.  *)
(* The seqlock is the one of EvictingQueue: a read loads the index, looks  *)
(* at the slot, copies it and validates it; a slot is written in three     *)
(* steps and published by a fourth.                                        *)
(***************************************************************************)

CONSTANTS ECapacity, EMaxPush

ASSUME EBytesAssumption == ECapacity \in Nat \ {0, 1} /\ EMaxPush \in Nat

VARIABLES
    eslots,        \* per slot: seq (the push that holds it), locked, id, body
    eindex,        \* the queue's global index
    elast,         \* the queue's last_global_index
    push_count,    \* push_count_
    last_pop_id,   \* last_pop_id_
    ewriter,       \* the push in progress: "idle", "locked", "named", "unlocked"
    ereader,       \* the read in progress: the index it loaded and what it saw
    ewts,          \* whether the reader uses the calls that report losses
    ehanded,       \* history: the messages handed over
    ecleared,      \* history: the messages a clear() threw away
    ereported,     \* history: the losses reported so far
    eread          \* history: the last message handed over, its number and its body

evars == <<eslots, eindex, elast, push_count, last_pop_id, ewriter, ereader, ewts, ehanded, ecleared, ereported, eread>>
ereadvars == <<elast, last_pop_id, ereader, ehanded, ecleared, ereported, eread>>

NoRead == [at |-> 0, on |-> FALSE, seq |-> 0, id |-> 0, body |-> 0, discarded |-> 0, keep |-> FALSE]

EBInit ==
    /\ eslots = [s \in 0..(ECapacity - 1) |-> [seq |-> 0, locked |-> FALSE, id |-> 0, body |-> 0]]
    /\ eindex = 0 /\ elast = 0 /\ push_count = 0 /\ last_pop_id = 0
    /\ ewriter = "idle" /\ ereader = NoRead /\ ewts \in BOOLEAN
    /\ ehanded = {} /\ ecleared = {} /\ ereported = 0 /\ eread = [id |-> 0, body |-> 0]

Slot(n) == n % ECapacity

PushBegin ==
    /\ ewriter = "idle" /\ eindex < EMaxPush
    /\ eslots' = [eslots EXCEPT ![Slot(eindex + 1)].locked = TRUE, ![Slot(eindex + 1)].seq = eindex + 1]
    /\ ewriter' = "locked"
    /\ UNCHANGED <<eindex, push_count, ewts, ereadvars>>

\* push_count_.fetch_add(1) + 1, the timestamp and the length.
PushName ==
    /\ ewriter = "locked"
    /\ push_count' = push_count + 1
    /\ eslots' = [eslots EXCEPT ![Slot(eindex + 1)].id = push_count + 1]
    /\ ewriter' = "named"
    /\ UNCHANGED <<eindex, ewts, ereadvars>>

PushBody ==
    /\ ewriter = "named"
    /\ eslots' = [eslots EXCEPT ![Slot(eindex + 1)].body = eindex + 1, ![Slot(eindex + 1)].locked = FALSE]
    /\ ewriter' = "unlocked"
    /\ UNCHANGED <<eindex, push_count, ewts, ereadvars>>

PushPublish ==
    /\ ewriter = "unlocked"
    /\ eindex' = eindex + 1 /\ ewriter' = "idle"
    /\ UNCHANGED <<eslots, push_count, ewts, ereadvars>>

Discarded(id) == IF id > last_pop_id + 1 THEN id - last_pop_id - 1 ELSE 0

EReadBegin(keep) ==
    /\ ereader.at = 0 /\ eindex > elast
    /\ ereader' = [NoRead EXCEPT !.at = eindex, !.keep = keep]
    /\ UNCHANGED <<eslots, eindex, elast, push_count, last_pop_id, ewriter, ewts, ehanded, ecleared, ereported, eread>>

pop_latest == EReadBegin(FALSE)     \* try_consume_latest, try_pop_latest, blocking and timed
peek_latest == EReadBegin(TRUE)     \* try_peek_latest_visit and its forms

\* The slot holds the message the index named or a later one by now; one being
\* written ends the attempt.
EVisit ==
    /\ ereader.at # 0 /\ ~ereader.on
    /\ LET slot == eslots[Slot(ereader.at)]
       IN  \/ (slot.locked \/ slot.seq <= elast) /\ ereader' = NoRead
           \/ ~slot.locked /\ slot.seq > elast /\ ereader' = [ereader EXCEPT !.on = TRUE, !.seq = slot.seq]
    /\ UNCHANGED <<eslots, eindex, elast, push_count, last_pop_id, ewriter, ewts, ehanded, ecleared, ereported, eread>>

\* The visitor reads the number and then the bytes, of one message or of two.
ENumber ==
    /\ ereader.on /\ ereader.id = 0
    /\ LET id == eslots[Slot(ereader.seq)].id
       IN  ereader' = [ereader EXCEPT !.id = id, !.discarded = Discarded(id)]
    /\ UNCHANGED <<eslots, eindex, elast, push_count, last_pop_id, ewriter, ewts, ehanded, ecleared, ereported, eread>>

ECopy ==
    /\ ereader.on /\ ereader.id # 0 /\ ereader.body = 0
    /\ ereader' = [ereader EXCEPT !.body = eslots[Slot(ereader.seq)].body]
    /\ UNCHANGED <<eslots, eindex, elast, push_count, last_pop_id, ewriter, ewts, ehanded, ecleared, ereported, eread>>

EUnchanged == ~eslots[Slot(ereader.seq)].locked /\ eslots[Slot(ereader.seq)].seq = ereader.seq

Popped(id) == id

\* The read is validated; only then does the caller's side advance.
EFinish ==
    /\ ereader.on /\ ereader.body # 0
    /\ ereader' = NoRead
    /\ IF EUnchanged
       THEN /\ eread' = [id |-> ereader.id, body |-> ereader.body]
            /\ IF ereader.keep THEN UNCHANGED <<elast, last_pop_id, ehanded, ereported>>
               ELSE /\ elast' = ereader.seq
                    /\ last_pop_id' = Popped(ereader.id)
                    /\ ehanded' = ehanded \cup {ereader.id}
                    /\ ereported' = ereported + (IF ewts THEN ereader.discarded ELSE 0)
       ELSE UNCHANGED <<elast, last_pop_id, ehanded, ereported, eread>>
    /\ UNCHANGED <<eslots, eindex, push_count, ewriter, ewts, ecleared>>

QueueOnly == last_pop_id
ClearedTo == push_count

clear_evicting ==
    /\ ewriter = "idle" /\ ereader.at = 0
    /\ elast' = eindex /\ last_pop_id' = ClearedTo
    /\ ecleared' = ecleared \cup ((elast + 1)..eindex)
    /\ UNCHANGED <<eslots, eindex, push_count, ewriter, ereader, ewts, ehanded, ereported, eread>>

EBNext ==
    \/ PushBegin \/ PushName \/ PushBody \/ PushPublish
    \/ pop_latest \/ peek_latest \/ EVisit \/ ENumber \/ ECopy \/ EFinish \/ clear_evicting

EBSpec == EBInit /\ [][EBNext]_evars
-----------------------------------------------------------------------------
EBTypeOK ==
    /\ eindex \in 0..EMaxPush /\ elast \in 0..EMaxPush
    /\ push_count \in 0..EMaxPush /\ last_pop_id \in 0..EMaxPush
    /\ ewriter \in {"idle", "locked", "named", "unlocked"}
    /\ ehanded \subseteq 1..EMaxPush /\ ecleared \subseteq 1..EMaxPush /\ ereported \in 0..EMaxPush

\* Nothing is lost unreported: with the calls that report losses, what was
\* handed over, what clear() threw away and what was reported as discarded add
\* up to the messages up to the one popped last, also when a read fails or meets
\* a message newer than the one it went for.
LossesReported ==
    ewts => ereported = Cardinality((1..last_pop_id) \ (ehanded \cup ecleared))

\* The number and the body handed over are of one message, and no number is
\* popped that the queue itself has not passed.
NumberNamesBody ==
    /\ eread.id = eread.body
    /\ last_pop_id = elast

\* What a reader of either byte queue may count on: its message is one that was
\* pushed, whole and alone, and it is told what it missed.
MessagesWhole ==
    /\ BBTypeOK /\ NoStaleBytes /\ EBTypeOK /\ LossesReported
    /\ NumberNamesBody
=============================================================================
