---------------------------- MODULE EvictingCell ----------------------------
(***************************************************************************)
(* eph::containers::EvictingQueue<T, 1>: the single-slot specialisation, a *)
(* classic sequence lock over one element.  seq_ counts up by one when a   *)
(* write begins (odd) and by one when it ends (even).                      *)
(* Interleaving and values are those of EvictingQueue.                     *)
(***************************************************************************)
EXTENDS EvictingQueue

CONSTANTS CellSize,   \* words per element
          CellPushes     \* bound on the elements written

ASSUME CellSizeAssumption == CellSize \in Nat \ {0}
ASSUME CellPushesAssumption == CellPushes \in Nat

CellWords == 1..CellSize
CellCounts == 0..CellPushes
Seqs == 0..(2 * CellPushes)

VARIABLES
    cell_seq, last_seq, cell_data,            \* seq_, last_seq_, data_
    cwpc, cwi,                        \* the writer's step, words written so far
    crpc, crop, crmode, cseq0, cri,      \* the reader's call in progress
    cout,                            \* the caller's destination object
    chanded, cfloor                   \* history: last element chanded over; newest at call start

ECwvars == <<cell_seq, cell_data, cwpc, cwi>>
ECrvars == <<last_seq, crpc, crop, crmode, cseq0, cri, cout, chanded, cfloor>>
ECvars == <<ECwvars, ECrvars>>

Odd(s) == s % 2 = 1

ECInit ==
    /\ cell_seq = 0 /\ last_seq = 0 /\ cell_data = [w \in CellWords |-> 0]
    /\ cwpc = "idle" /\ cwi = 0
    /\ crpc = "idle" /\ crop = "consume" /\ crmode = "try" /\ cseq0 = 0 /\ cri = 0
    /\ cout = [w \in CellWords |-> 0] /\ chanded = [w \in CellWords |-> 0] /\ cfloor = 0

\* produce / push / emplace and their batch forms.
BeginWrite ==
    /\ cwpc = "idle" /\ cell_seq + 2 \in Seqs
    /\ cell_seq' = cell_seq + 1
    /\ cwpc' = "write" /\ cwi' = 0
    /\ UNCHANGED <<cell_data, ECrvars>>

CellWriteWord ==
    /\ cwpc = "write" /\ cwi < CellSize
    /\ cell_data' = [cell_data EXCEPT ![cwi + 1] = (cell_seq + 1) \div 2]
    /\ cwi' = cwi + 1
    /\ UNCHANGED <<cell_seq, cwpc, ECrvars>>

EndWrite ==
    /\ cwpc = "write" /\ cwi = CellSize
    /\ cell_seq' = cell_seq + 1
    /\ cwpc' = "idle" /\ cwi' = 0
    /\ UNCHANGED <<cell_data, ECrvars>>

\* try_consume_latest / try_peek_latest and the pop, blocking and *_for forms.
CellCall(op, mode) ==
    /\ crpc = "idle"
    /\ crpc' = "seq0" /\ crop' = op /\ crmode' = mode
    /\ UNCHANGED <<last_seq, cseq0, cri, cout, chanded, cfloor, ECwvars>>

CellFail ==
    /\ \/ crmode \in {"try", "timed"} /\ crpc' = "idle"
       \/ crmode \in {"block", "timed"} /\ crpc' = "seq0"
    /\ cri' = 0

Readable(s) == s > last_seq /\ ~Odd(s)

CellLoadSeq0 ==
    /\ crpc = "seq0"
    /\ cseq0' = cell_seq /\ cfloor' = cell_seq \div 2
    /\ \/ Readable(cell_seq) /\ crpc' = "read" /\ UNCHANGED cri
       \/ ~Readable(cell_seq) /\ CellFail
    /\ UNCHANGED <<last_seq, crop, crmode, cout, chanded, ECwvars>>

CellReadWord ==
    /\ crpc = "read" /\ cri < CellSize
    /\ cout' = [cout EXCEPT ![cri + 1] = cell_data[cri + 1]]
    /\ cri' = cri + 1
    /\ UNCHANGED <<last_seq, crpc, crop, crmode, cseq0, chanded, cfloor, ECwvars>>

CellUnchanged(s) == s = cseq0

CellLoadSeq1 ==
    /\ crpc = "read" /\ cri = CellSize
    /\ \/ /\ CellUnchanged(cell_seq)
          /\ last_seq' = IF crop = "consume" THEN cell_seq ELSE last_seq
          /\ chanded' = cout
          /\ crpc' = "idle" /\ cri' = 0
       \/ /\ ~CellUnchanged(cell_seq)
          /\ CellFail
          /\ UNCHANGED <<last_seq, chanded>>
    /\ UNCHANGED <<crop, crmode, cseq0, cout, cfloor, ECwvars>>

\* clear(), with no reader or writer active.
ECClear ==
    /\ cwpc = "idle" /\ crpc = "idle"
    /\ last_seq' = cell_seq
    /\ UNCHANGED <<crpc, crop, crmode, cseq0, cri, cout, chanded, cfloor, ECwvars>>

CellModes == {"try", "block", "timed"}
CellOps == {"consume", "peek"}

CellWriterStep == BeginWrite \/ CellWriteWord \/ EndWrite
CellReaderStep == CellLoadSeq0 \/ CellReadWord \/ CellLoadSeq1

ECNext ==
    \/ CellWriterStep
    \/ \E op \in CellOps, mode \in CellModes : CellCall(op, mode)
    \/ CellReaderStep
    \/ ECClear

ECSpec == ECInit /\ [][ECNext]_ECvars
-----------------------------------------------------------------------------
\* Type invariant of the cell, its writer and its reader.
ECTypeOK ==
    /\ cell_seq \in Seqs /\ last_seq \in Seqs /\ cell_data \in [CellWords -> CellCounts]
    /\ cwpc \in {"idle", "write"} /\ cwi \in 0..CellSize
    /\ crpc \in {"idle", "seq0", "read"} /\ crop \in CellOps /\ crmode \in CellModes
    /\ cseq0 \in Seqs /\ cri \in 0..CellSize
    /\ cout \in [CellWords -> CellCounts] /\ chanded \in [CellWords -> CellCounts] /\ cfloor \in CellCounts

\* The cell implements the same latest-value register as the ring.
CellRegister == INSTANCE LatestValue WITH Words <- CellWords, written <- cell_seq \div 2,
    got <- last_seq \div 2, floor <- cfloor, handed <- chanded
CellImplementsLatestValue == CellRegister!Spec

\* Both evicting queues implement the latest-value register: whatever the writer
\* does to a slot in the middle of a read, what is handed over was pushed whole,
\* is newer than what was consumed before and not older than what was there when
\* the read began.
EvictersImplementLatestValue == ImplementsLatestValue /\ CellImplementsLatestValue
=============================================================================
