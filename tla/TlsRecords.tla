---------------------------- MODULE TlsRecords -----------------------------
(***************************************************************************)
(* The record layer a stream runs by itself once it has the keys:          *)
(* TlsEncryptor, the copying TlsDecryptor (kernel streams) and the         *)
(* TlsInPlaceDecryptor (DPDK streams), in the three formats.  One writer   *)
(* seals records onto a wire; both readers are given the same bytes.       *)
(*                                                                         *)
(* The AEAD is ideal: a record opens exactly under the key, nonce and      *)
(* additional data it was sealed with, and only undamaged.  A nonce is the *)
(* fixed IV combined one-to-one with a number, so the number stands for it.*)
(* Lengths are bytes, with the real header, tag and nonce sizes.           *)
(***************************************************************************)
EXTENDS Integers, Sequences, SequencesExt

CONSTANTS kMaxRecordPayload,   \* plaintext bytes of one record
          kMaxSequenceNumber,  \* records under one key
          SendSizes,           \* sizes given to encrypt_for_send
          MaxRecords,          \* bound: records sealed
          MaxFaults,           \* bound: records lost, repeated, swapped, damaged
          FullGcm              \* TLS 1.2 AES-GCM records may be full

ASSUME RecordsAssumption ==
  /\ kMaxRecordPayload \in Nat \ {0} /\ kMaxSequenceNumber \in Nat /\ SendSizes \subseteq Nat
  /\ MaxRecords \in Nat /\ MaxFaults \in Nat /\ FullGcm \in BOOLEAN

kRecordHeaderLen  == 5
kAuthTagLen       == 16
kExplicitNonceLen == 8
AppData   == 23
Handshake == 22
Alert     == 21

VARIABLES tfmt,      \* TlsRecordFormat
          wseq,      \* TlsEncryptor::seq_
          tkey,      \* generation of the writer's key
          wlatched,  \* a send failed: the stream sends no more
          twire,     \* records under way
          tsealed,   \* of every record sealed: key, nonce, buffer size, size
          tsent,     \* data records put on the wire, in order
          tfaults,
          copy,      \* the copying reader: [seq, state, got]
          inplace    \* the in-place reader

tvars == <<tfmt, wseq, tkey, wlatched, twire, tsealed, tsent, tfaults, copy, inplace>>

Formats == {"Tls13", "Tls12AesGcm", "Tls12Chacha20"}
IsTls13 == tfmt = "Tls13"
Reader0(seq) == [seq |-> seq, state |-> "ok", got |-> <<>>]

\* TlsRecordCrypto::create and TlsInPlaceDecryptor::create: both sides start
\* at the sequence number of the hot state.
TRInit ==
  /\ tfmt \in Formats /\ wseq = 0 /\ tkey = 1 /\ wlatched = FALSE
  /\ twire = <<>> /\ tsealed = <<>> /\ tsent = <<>> /\ tfaults = 0
  /\ copy = Reader0(0) /\ inplace = Reader0(0)

-----------------------------------------------------------------------------
\* Sealing

encrypted_size_for(n) ==
  kRecordHeaderLen + n + kAuthTagLen + (CASE tfmt = "Tls13" -> 1
                                          [] tfmt = "Tls12AesGcm" -> kExplicitNonceLen
                                          [] OTHER -> 0)

\* The additional data of TLS 1.2; in TLS 1.3 the record header takes its place.
AadWithoutSeq(seq, type, n) == <<type, n>>
build_aad(seq, type, n) == <<seq, type, n>>

Sealed(ct, len, seq, aad, type, id) ==
  [ct |-> ct, len |-> len, explicit |-> seq, key |-> tkey, nonce |-> seq,
   aad |-> aad, inner |-> type, id |-> id, good |-> TRUE]

\* n bytes of the given type in each format; TLS 1.3 hides the type inside.
encrypt_tls13(type, n, id, seq) ==
  LET len == n + 1 + kAuthTagLen
  IN Sealed(AppData, len, seq, <<AppData, len>>, type, id)
encrypt_tls12_aes_gcm(type, n, id, seq) ==
  Sealed(type, kExplicitNonceLen + n + kAuthTagLen, seq, build_aad(seq, type, n), type, id)
encrypt_tls12_chacha20(type, n, id, seq) ==
  Sealed(type, n + kAuthTagLen, seq, build_aad(seq, type, n), type, id)

Seal(type, n, id, seq) ==
  CASE tfmt = "Tls13"       -> encrypt_tls13(type, n, id, seq)
    [] tfmt = "Tls12AesGcm" -> encrypt_tls12_aes_gcm(type, n, id, seq)
    [] OTHER                -> encrypt_tls12_chacha20(type, n, id, seq)

\* The buffer is made by encrypted_size_for before the record is written.
Sealing(rec, n) ==
  [key |-> rec.key, nonce |-> rec.nonce, room |-> encrypted_size_for(n),
   written |-> kRecordHeaderLen + rec.len]

\* encrypt: seq_++ after every record sealed.
SeqAfter(seq, n) == seq + 1

\* encrypt_for_send: pieces of at most kMaxRecordPayload.
Pieces(n) ==
  [i \in 1..((n + kMaxRecordPayload - 1) \div kMaxRecordPayload) |->
     IF i * kMaxRecordPayload <= n THEN kMaxRecordPayload ELSE n % kMaxRecordPayload]

\* The cap of parse_record_header, one byte over a full TLS 1.3 record.
HeaderCap == kMaxRecordPayload + kAuthTagLen + 1
OverCap(rec) == rec.len > HeaderCap

\* Pieces are sealed up to the limit of the key; if one is refused, none is
\* sent and the stream latches, because seq_ is ahead of the wire.
encrypt_for_send(n) ==
  /\ ~wlatched /\ n > 0
  /\ LET ps   == Pieces(n)
         room == IF wseq >= kMaxSequenceNumber THEN 0 ELSE kMaxSequenceNumber - wseq
         k    == IF Len(ps) <= room THEN Len(ps) ELSE room
         recs == [i \in 1..k |-> Seal(AppData, ps[i], Len(tsealed) + i, wseq + i - 1)]
     IN /\ Len(tsealed) + k <= MaxRecords
        /\ \A i \in 1..k : OverCap(recs[i]) => FullGcm
        /\ wseq' = wseq + k
        /\ tsealed' = tsealed \o [i \in 1..k |-> Sealing(recs[i], ps[i])]
        /\ wlatched' = (k < Len(ps))
        /\ IF k < Len(ps) THEN UNCHANGED <<twire, tsent>>
           ELSE /\ twire' = twire \o recs
                /\ tsent' = tsent \o [i \in 1..k |-> recs[i].id]
  /\ UNCHANGED <<tfmt, tkey, tfaults, copy, inplace>>

\* A peer also sends records of other kinds, and empty ones, and changes its
\* key; its limit is its own.
PeerSends(type, n) ==
  /\ ~wlatched /\ Len(tsealed) < MaxRecords
  /\ LET rec == Seal(type, n, Len(tsealed) + 1, wseq)
     IN /\ twire' = Append(twire, rec)
        /\ tsealed' = Append(tsealed, Sealing(rec, n))
  /\ wseq' = SeqAfter(wseq, n)
  /\ UNCHANGED <<tfmt, tkey, wlatched, tsent, tfaults, copy, inplace>>

PeerKeyUpdate ==
  /\ IsTls13 /\ ~wlatched /\ Len(tsealed) < MaxRecords /\ tkey = 1
  /\ LET rec == Seal(Handshake, 5, Len(tsealed) + 1, wseq)
     IN twire' = Append(twire, rec) /\ tsealed' = Append(tsealed, Sealing(rec, 5))
  /\ tkey' = tkey + 1 /\ wseq' = 0
  /\ UNCHANGED <<tfmt, wlatched, tsent, tfaults, copy, inplace>>

\* What happens to records between the two ends.
RecordFault ==
  /\ tfaults < MaxFaults /\ tfaults' = tfaults + 1
  /\ \E i \in 1..Len(twire) :
       \/ twire' = RemoveAt(twire, i)
       \/ twire' = InsertAt(twire, i, twire[i])
       \/ twire' = [twire EXCEPT ![i].good = FALSE]
       \/ /\ i < Len(twire)
          /\ twire' = [twire EXCEPT ![i] = twire[i + 1], ![i + 1] = twire[i]]
  /\ UNCHANGED <<tfmt, wseq, tkey, wlatched, tsealed, tsent, copy, inplace>>

-----------------------------------------------------------------------------
\* Opening

\* EVP_AEAD_CTX_open under the reader's key, which never changes.
AeadOpens(rec, nonce, aad) ==
  rec.good /\ rec.key = 1 /\ rec.nonce = nonce /\ rec.aad = aad

\* Only data goes on, and an empty record adds nothing.
Accept(rec, r, n) ==
  [r EXCEPT !.seq = r.seq + 1,
            !.got = IF rec.inner = AppData /\ n > 0 THEN Append(r.got, rec.id) ELSE r.got]
Refuse(r) == [r EXCEPT !.state = "failed"]

parse_record_header(rec) == rec.ct = AppData /\ rec.len <= HeaderCap

\* TlsDecryptor: the plaintext length, or -1, from the header's length.  The
\* nonce of AES-GCM is the record's, the others count.
decrypt_tls13(rec, seq) ==
  IF rec.len >= kAuthTagLen + 1 /\ AeadOpens(rec, seq, <<rec.ct, rec.len>>)
  THEN rec.len - kAuthTagLen - 1 ELSE -1
decrypt_tls12_aes_gcm(rec, seq) ==
  LET n == rec.len - kExplicitNonceLen - kAuthTagLen
  IN IF n >= 0 /\ AeadOpens(rec, rec.explicit, build_aad(seq, rec.ct, n)) THEN n ELSE -1
decrypt_tls12_chacha20(rec, seq) ==
  LET n == rec.len - kAuthTagLen
  IN IF n >= 0 /\ AeadOpens(rec, seq, build_aad(seq, rec.ct, n)) THEN n ELSE -1

decrypt(rec, r) ==
  LET n == CASE tfmt = "Tls13"       -> decrypt_tls13(rec, r.seq)
             [] tfmt = "Tls12AesGcm" -> decrypt_tls12_aes_gcm(rec, r.seq)
             [] OTHER                -> decrypt_tls12_chacha20(rec, r.seq)
  IN IF /\ kRecordHeaderLen + rec.len >= kRecordHeaderLen + kAuthTagLen
        /\ r.seq < kMaxSequenceNumber /\ parse_record_header(rec) /\ n >= 0
     THEN Accept(rec, r, n) ELSE Refuse(r)

\* TlsInPlaceDecryptor goes by the length of the record it is given.
open_tls13(rec, record_len, seq) ==
  LET payload_len == record_len - kRecordHeaderLen
  IN IF /\ record_len >= kRecordHeaderLen + kAuthTagLen + 1
        /\ AeadOpens(rec, seq, <<rec.ct, payload_len>>)
     THEN payload_len - kAuthTagLen - 1 ELSE -1
open_tls12_aes_gcm(rec, record_len, seq) ==
  LET n == record_len - kRecordHeaderLen - kExplicitNonceLen - kAuthTagLen
  IN IF /\ record_len >= kRecordHeaderLen + kExplicitNonceLen + kAuthTagLen
        /\ AeadOpens(rec, rec.explicit, build_aad(seq, rec.ct, n))
     THEN n ELSE -1
open_tls12_chacha20(rec, record_len, seq) ==
  LET n == record_len - kRecordHeaderLen - kAuthTagLen
  IN IF /\ record_len >= kRecordHeaderLen + kAuthTagLen
        /\ AeadOpens(rec, seq, build_aad(seq, rec.ct, n))
     THEN n ELSE -1

InPlaceWithin(seq) == seq < kMaxSequenceNumber
open_in_place(rec, record_len, r) ==
  LET n == CASE tfmt = "Tls13"       -> open_tls13(rec, record_len, r.seq)
             [] tfmt = "Tls12AesGcm" -> open_tls12_aes_gcm(rec, record_len, r.seq)
             [] OTHER                -> open_tls12_chacha20(rec, record_len, r.seq)
  IN IF InPlaceWithin(r.seq) /\ n >= 0 THEN Accept(rec, r, n) ELSE Refuse(r)

\* process_records_in_place parses the header for it.
process_in_place(rec, r) ==
  IF parse_record_header(rec) THEN open_in_place(rec, kRecordHeaderLen + rec.len, r)
  ELSE Refuse(r)

\* Both readers get the next record; the first refusal ends a connection.
ReadRecord ==
  /\ twire # <<>> /\ "ok" \in {copy.state, inplace.state}
  /\ copy' = IF copy.state = "ok" THEN decrypt(Head(twire), copy) ELSE copy
  /\ inplace' = IF inplace.state = "ok" THEN process_in_place(Head(twire), inplace) ELSE inplace
  /\ twire' = Tail(twire)
  /\ UNCHANGED <<tfmt, wseq, tkey, wlatched, tsealed, tsent, tfaults>>

TRNext ==
  \/ \E n \in SendSizes : encrypt_for_send(n)
  \/ \E type \in {AppData, Handshake, Alert} : PeerSends(type, IF type = AppData THEN 0 ELSE 2)
  \/ PeerKeyUpdate \/ RecordFault \/ ReadRecord

TRSpec == TRInit /\ [][TRNext]_tvars

-----------------------------------------------------------------------------

TRTypeOK ==
  /\ tfmt \in Formats /\ wseq \in Nat /\ tkey \in 1..2 /\ wlatched \in BOOLEAN
  /\ Len(tsealed) <= MaxRecords /\ tfaults \in 0..MaxFaults
  /\ \A r \in {copy, inplace} : r.state \in {"ok", "failed"} /\ r.seq <= kMaxSequenceNumber

\* Whatever is lost, repeated, swapped or damaged on the way, a reader hands
\* on a prefix of the data sent: with the nonce of AES-GCM read from the
\* record, only the sequence number in the additional data says so (build_aad).
RecordsInOrder == IsPrefix(copy.got, tsent) /\ IsPrefix(inplace.got, tsent)

\* The two decryptors, written separately, agree on every stream of records:
\* the kernel and the DPDK streams read the same thing.
ReadersAgree == copy = inplace

\* No two records are ever sealed with one key and one nonce, also when a
\* send is refused half way (TlsEncryptor::encrypt).
NoncesUnique ==
  \A i, j \in 1..Len(tsealed) :
    tsealed[i].key = tsealed[j].key /\ tsealed[i].nonce = tsealed[j].nonce => i = j

\* No format writes past the buffer that encrypted_size_for gave it.
RecordsFit == \A i \in 1..Len(tsealed) : tsealed[i].written <= tsealed[i].room

\* Over a wire without faults every application record opens that is not past
\* the limit of the key, not sealed with a later key and not over the cap of
\* the header: the two ends compute the same nonce, lengths and data.
Clean(rec) ==
  tfaults = 0 /\ rec.ct = AppData /\ rec.key = 1 /\ copy.seq < kMaxSequenceNumber

\* A record that encrypt writes within its own limit is opened by decrypt
\* ("within the maximum TLS record size", parse_record_header).
FullRecordsOpen ==
  [][ ReadRecord /\ Clean(Head(twire)) /\ copy.state = "ok" => copy'.state = "ok" ]_tvars

\* The record layer on both sides: what opens was sealed, next in order, under
\* a nonce of its own and within its buffer.
RecordsTrue ==
    /\ TRTypeOK /\ RecordsInOrder /\ ReadersAgree /\ NoncesUnique /\ RecordsFit
=============================================================================
