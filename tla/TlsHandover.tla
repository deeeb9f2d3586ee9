---------------------------- MODULE TlsHandover ----------------------------
(***************************************************************************)
(* The end of a TLS handshake, where the connection changes hands.  Until  *)
(* then the SSL library reads the socket through a BIO with a buffer of    *)
(* its own (TlsSession, BioContext); after it the stream reads the socket  *)
(* itself and opens records with the keys and the sequence numbers that    *)
(* extract_hot_state took from the library.  Whatever bytes the library    *)
(* or the BIO still hold at that moment are gone.                          *)
(*                                                                         *)
(* The server's stream is a list of records of two bytes each, enough for  *)
(* a record to arrive in two pieces.  Positions in that stream say who has *)
(* read how far: harrived (on the socket), hread (taken into the BIO's     *)
(* buffer), hssl (taken by the library), hhot (the stream's own reader).   *)
(***************************************************************************)
EXTENDS Naturals, Sequences, FiniteSets, SequencesExt

CONSTANTS kDrainMaxRounds,     \* rounds of the post-handshake drain
          MaxServerRecords,    \* bound: records of the server
          MaxHotWrites,        \* bound: records this side sends
          ServerSpeaksFirst    \* the server may send data unasked

ASSUME HandoverAssumption ==
  /\ kDrainMaxRounds \in Nat \ {0} /\ MaxServerRecords \in Nat /\ MaxHotWrites \in Nat
  /\ ServerSpeaksFirst \in BOOLEAN

VARIABLES hphase,     \* handshaking, draining, peeking, finalizing, established, failed
          hcfg,       \* what was configured and negotiated
          hrecs,      \* the server's records: fin, nst, data
          harrived, hread, hssl, hhot,
          hrounds,    \* drain rounds done
          hflight,    \* bytes there when Finished was read
          hticket,    \* captured_ticket_ of TlsState
          hseq,       \* TlsHotState.read.seq, then the reader's own
          hgot,       \* data records handed to the codec
          hdead,      \* the reader met a record it could not open
          hbroken,    \* the socket reports an error
          hwrites     \* write sequence numbers used: [by, seq]

hvars == <<hphase, hcfg, hrecs, harrived, hread, hssl, hhot, hrounds, hflight,
           hticket, hseq, hgot, hdead, hbroken, hwrites>>

Ciphers == {"aes_gcm", "chacha20", "other"}
Pins    == {"none", "match", "mismatch", "allowed"}

\* What create() accepts: any version, cipher and pin set may be negotiated.
HOInit ==
  /\ hcfg \in [blocking : BOOLEAN, tls13 : BOOLEAN, cipher : Ciphers, pin : Pins]
  /\ hphase = "handshaking" /\ hrecs = <<"fin">>
  /\ harrived = 0 /\ hread = 0 /\ hssl = 0 /\ hhot = 0
  /\ hrounds = 0 /\ hflight = 0 /\ hticket = FALSE /\ hseq = 0
  /\ hgot = <<>> /\ hdead = FALSE /\ hbroken = FALSE /\ hwrites = <<>>

Established == hphase = "established"
Least(S) == CHOOSE x \in S : \A y \in S : x <= y

-----------------------------------------------------------------------------
\* The server, the network, and this side's requests.

ServerWrites(kind) ==
  /\ Len(hrecs) < MaxServerRecords /\ hphase # "failed"
  /\ kind = "nst" => hcfg.tls13
  /\ kind = "data" => ServerSpeaksFirst \/ hwrites # <<>>
  /\ hrecs' = Append(hrecs, kind)
  /\ UNCHANGED <<hphase, hcfg, harrived, hread, hssl, hhot, hrounds, hflight,
                 hticket, hseq, hgot, hdead, hbroken, hwrites>>

HandshakeArrives(n) ==
  /\ ~hbroken /\ harrived + n <= 2 * Len(hrecs)
  /\ harrived' = harrived + n
  /\ UNCHANGED <<hphase, hcfg, hrecs, hread, hssl, hhot, hrounds, hflight,
                 hticket, hseq, hgot, hdead, hbroken, hwrites>>

TcpBreaks ==
  /\ ~hbroken /\ hbroken' = TRUE
  /\ UNCHANGED <<hphase, hcfg, hrecs, harrived, hread, hssl, hhot, hrounds,
                 hflight, hticket, hseq, hgot, hdead, hwrites>>

-----------------------------------------------------------------------------
\* The handshake

\* bio_read_cb: an empty buffer is refilled from the socket, once.
Refill(enough) == IF hread >= enough \/ hbroken THEN hread ELSE harrived

\* SSL_do_handshake, as handshake() loops on it and handshake_step() calls it
\* once.  Only the server's Finished is left to read.
HandshakeStep ==
  /\ hphase = "handshaking"
  /\ LET r == Refill(2)
         done == r >= 2
     IN /\ r # hread \/ done \/ hbroken
        /\ hread' = r
        /\ hssl' = IF done THEN 2 ELSE r
        /\ hphase' = IF done THEN "draining" ELSE IF hbroken THEN "failed" ELSE hphase
        /\ hflight' = IF done THEN harrived ELSE hflight
  /\ UNCHANGED <<hcfg, hrecs, harrived, hhot, hrounds, hticket, hseq, hgot,
                 hdead, hbroken, hwrites>>

\* The deadline of handshake(), or of the stream that steps it.
HandshakeTimesOut ==
  /\ hphase = "handshaking" /\ hphase' = "failed"
  /\ UNCHANGED <<hcfg, hrecs, harrived, hread, hssl, hhot, hrounds, hflight,
                 hticket, hseq, hgot, hdead, hbroken, hwrites>>

-----------------------------------------------------------------------------
\* on_handshake_complete_: the drain of what follows Finished

\* The first whole data record the library meets reading from hssl up to r.
DataUpTo(r) == {k \in 1..Len(hrecs) : hrecs[k] = "data" /\ 2 * k > hssl /\ 2 * k <= r}

\* new_session_cb_ runs for every ticket the library gets past.
TicketUpTo(s) == \E k \in 1..Len(hrecs) : hrecs[k] = "nst" /\ 2 * k <= s

\* SSL_peek decrypts records until one is data, or the bytes run out: then a
\* blocking session waits for more in bio_read_cb.
Peek(r) ==
  /\ hread' = r
  /\ IF DataUpTo(r) # {}
     THEN hssl' = 2 * Least(DataUpTo(r)) /\ hphase' = "finalizing" /\ UNCHANGED hrounds
     ELSE /\ hssl' = r
          /\ IF hcfg.blocking
             THEN hphase' = "peeking" /\ UNCHANGED hrounds
             ELSE hphase' = "draining" /\ hrounds' = hrounds + 1

\* Nothing in the buffer and nothing new: the drain is over.
NothingToDrain(r) == r = hread /\ hread = hssl

DrainRound ==
  /\ hphase = "draining"
  /\ IF hrounds = kDrainMaxRounds \/ hbroken \/ NothingToDrain(harrived)
     THEN hphase' = "finalizing" /\ UNCHANGED <<hread, hssl, hrounds>>
     ELSE Peek(harrived)
  /\ UNCHANGED <<hcfg, hrecs, harrived, hhot, hflight, hticket, hseq, hgot,
                 hdead, hbroken, hwrites>>

\* poll_rx_blocking inside SSL_peek: bytes come, an error, or the timeout.
PeekGoesOn ==
  /\ hphase = "peeking" /\ harrived > hread /\ Peek(harrived)
  /\ UNCHANGED <<hcfg, hrecs, harrived, hhot, hflight, hticket, hseq, hgot,
                 hdead, hbroken, hwrites>>

PeekTimesOut ==
  /\ hphase = "peeking"
  /\ hphase' = IF hbroken THEN "finalizing" ELSE "draining"
  /\ hrounds' = IF hbroken THEN hrounds ELSE hrounds + 1
  /\ UNCHANGED <<hcfg, hrecs, harrived, hread, hssl, hhot, hflight, hticket,
                 hseq, hgot, hdead, hbroken, hwrites>>

-----------------------------------------------------------------------------
\* finalize_from_session_

\* verify_spki_pin: a mismatch is let through only by the callback.
PinRefused == hcfg.pin = "mismatch"

\* extract_hot_state knows AES-GCM, and ChaCha20 below TLS 1.3.
Extractable == hcfg.cipher = "aes_gcm" \/ (hcfg.cipher = "chacha20" /\ ~hcfg.tls13)

\* The sequence number read from the library: it counts whole records.
ReadSequence == hssl \div 2

\* The stream's reader starts at the first byte the session has not taken.
HotStart == hread

\* ~TlsSession says close_notify unless the keys were taken.
AlwaysNotify(suppress) == IF hbroken THEN <<>> ELSE <<[by |-> "ssl", seq |-> 0]>>
CloseNotify(suppress) == IF suppress \/ hbroken THEN <<>> ELSE <<[by |-> "ssl", seq |-> 0]>>

Finalize ==
  /\ hphase = "finalizing"
  /\ hphase' = IF ~PinRefused /\ Extractable THEN "established" ELSE "failed"
  /\ hticket' = (~PinRefused /\ TicketUpTo(hssl))
  /\ hwrites' = IF PinRefused THEN hwrites ELSE hwrites \o CloseNotify(Extractable)
  /\ hseq' = ReadSequence /\ hhot' = HotStart
  /\ UNCHANGED <<hcfg, hrecs, harrived, hread, hssl, hrounds, hflight, hgot,
                 hdead, hbroken>>

-----------------------------------------------------------------------------
\* The stream's own reader and writer

\* A record opens when the reader stands at its first byte and expects its
\* sequence number; in the middle of one the header it reads is noise.
Opens == hhot % 2 = 0 /\ hhot \div 2 = hseq

\* Only application data goes on; tickets and alerts are consumed.
IsApplicationData == hrecs[hseq + 1] = "data"

HotRead ==
  /\ Established /\ ~hdead /\ ~hbroken
  /\ harrived >= hhot + (IF hhot % 2 = 0 THEN 2 ELSE 1)
  /\ IF Opens
     THEN /\ hseq' = hseq + 1 /\ hhot' = hhot + 2 /\ UNCHANGED hdead
          /\ hgot' = IF IsApplicationData THEN Append(hgot, hseq + 1) ELSE hgot
     ELSE hdead' = TRUE /\ UNCHANGED <<hseq, hhot, hgot>>
  /\ UNCHANGED <<hphase, hcfg, hrecs, harrived, hread, hssl, hrounds, hflight,
                 hticket, hbroken, hwrites>>

\* The writer goes on from write.seq, which the library had at 0 or 1: the
\* first number after the handshake is 0 here.
HotWrite ==
  /\ Established /\ ~hbroken /\ Len(hwrites) < MaxHotWrites
  /\ hwrites' = Append(hwrites,
       [by |-> "hot", seq |-> Cardinality({i \in DOMAIN hwrites : hwrites[i].by = "hot"})])
  /\ UNCHANGED <<hphase, hcfg, hrecs, harrived, hread, hssl, hhot, hrounds,
                 hflight, hticket, hseq, hgot, hdead, hbroken>>

HONext ==
  \/ \E k \in {"nst", "data"} : ServerWrites(k)
  \/ \E n \in 1..2 * MaxServerRecords : HandshakeArrives(n)
  \/ TcpBreaks
  \/ HandshakeStep \/ HandshakeTimesOut
  \/ DrainRound \/ PeekGoesOn \/ PeekTimesOut
  \/ Finalize
  \/ HotRead \/ HotWrite

HOSpec == HOInit /\ [][HONext]_hvars

-----------------------------------------------------------------------------

HOTypeOK ==
  /\ hphase \in {"handshaking", "draining", "peeking", "finalizing", "established", "failed"}
  /\ hssl <= hread /\ hread <= harrived /\ harrived <= 2 * Len(hrecs)
  /\ hhot <= harrived /\ hrounds \in 0..kDrainMaxRounds
  /\ {hticket, hdead, hbroken} \subseteq BOOLEAN

\* The codec gets the server's data from the first byte on, without a hole:
\* what the handover loses makes the next record fail to open, it is never
\* skipped (on_handshake_complete_ and finalize_from_session_).
NothingSkipped ==
  /\ \E n \in 0..Len(hrecs) : ToSet(hgot) = {k \in 1..n : hrecs[k] = "data"}
  /\ \A i, j \in DOMAIN hgot : i < j => hgot[i] < hgot[j]

\* No write sequence number, hence no nonce, is used both by the library's
\* close_notify and by the stream (suppress_close_notify_).
WritesOnce ==
  \A i, j \in 1..Len(hwrites) : hwrites[i].seq = hwrites[j].seq => i = j

\* A ticket that came with Finished over a sound socket is captured, whether
\* the BIO had read it already or not (the drain), and handed on before the
\* session goes.
TicketCaptured ==
  Established /\ ~hbroken /\ hflight >= 4 /\ hrecs[2] = "nst" => hticket

\* A stream whose server shows none of the pinned keys never opens
\* (verify_spki_pin after the drain).
PinHolds == hcfg.pin = "mismatch" => ~Established

\* The handover from the TLS library to the stream loses no record, uses no
\* record number twice, keeps the ticket and lets no unpinned key through.
HandoverTrue ==
    /\ HOTypeOK /\ NothingSkipped /\ WritesOnce /\ TicketCaptured /\ PinHolds
=============================================================================
