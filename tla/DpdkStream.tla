----------------------------- MODULE DpdkStream -----------------------------
(***************************************************************************)
(* eph::net::dpdk::TcpStream: the handshake driven by packets or by a      *)
(* blocking caller, the receive path from the session's bytes through TLS  *)
(* and the codec, and send in segments with the report of a dead daemon.   *)
(*                                                                         *)
(* The session (module UserTcp) gives the server's bytes in order or ends. *)
(* Units, records and frames are those of module KernelStream.             *)
(***************************************************************************)
EXTENDS Integers, Sequences, SequencesExt

CONSTANTS Units, FrameLen, RecLen, ReasmCap, MaxSends,
          RxWindow,       \* units the session holds for the reader
          Segments,       \* segments a message, or its record, is cut into
          BadFrames       \* frames the codec refuses

ASSUME DpdkStreamAssumption ==
    /\ Units \in Nat /\ FrameLen \in Nat \ {0} /\ RecLen \in Nat \ {0} /\ MaxSends \in Nat
    /\ ReasmCap \in Nat /\ RxWindow \in Nat /\ Segments \in Nat \ {0} /\ BadFrames \subseteq Nat

VARIABLES
    mode,        \* [tls, ws]: the configuration
    phase,       \* hs_phase_
    sess,        \* the session's state
    attached, blocking,  \* on a poller; in connect_blocking
    expired,     \* connect_deadline_ has passed
    asked,       \* the handshake leg has sent its first bytes
    seen,        \* [ct, pt]: the WsSink's buffers
    reasm,       \* reasm_
    pending,     \* tls_codec_pending_
    corrupt, overflowed,
    daemon,      \* platform_->is_alive()
    net,         \* external: [synack, sent, taken] of the server
    decSeq, encSeq,
    wire, told,  \* history: segments sent; what a failed send said of its message
    frames,      \* history: what on_message was given
    refused      \* history: the codec has refused a frame

DSvars == <<mode, phase, sess, attached, blocking, expired, asked, seen, reasm, pending, corrupt,
            overflowed, daemon, net, decSeq, encSeq, wire, told, frames, refused>>
data == <<pending, corrupt, overflowed, encSeq, wire, told, frames, refused>>

Handshaking == {"TcpConnecting", "TlsHandshaking", "WsHandshaking"}
Messages == 1..MaxSends
FirstUnit == IF mode.ws THEN 1 - RecLen ELSE 1
Kind == IF mode.tls THEN "ct" ELSE "pt"

DSInit ==
    /\ mode \in [tls : BOOLEAN, ws : BOOLEAN]
    /\ phase = "TcpConnecting" /\ sess = "SynSent" /\ attached = FALSE /\ blocking = FALSE
    /\ expired = FALSE /\ asked = FALSE /\ seen = [ct |-> << >>, pt |-> << >>]
    /\ reasm = << >> /\ pending = << >> /\ corrupt = FALSE /\ overflowed = FALSE /\ daemon = TRUE
    /\ net = [synack |-> FALSE, sent |-> FirstUnit - 1, taken |-> FirstUnit - 1]
    /\ decSeq = 0 /\ encSeq = 0 /\ wire = << >> /\ told = [m \in Messages |-> "none"]
    /\ frames = << >> /\ refused = FALSE

-----------------------------------------------------------------------------
(* The world: the server, the clock, the daemon. *)

\* The server answers what it was asked; its frames follow at once.
ServerSends ==
    /\ \/ ~net.synack /\ net' = [net EXCEPT !.synack = TRUE]
       \/ /\ net.synack /\ sess = "Established" /\ net.sent < Units
          /\ net.sent - net.taken < RxWindow
          /\ IF mode.ws THEN phase = "Established" \/ (phase = "WsHandshaking" /\ asked)
                        ELSE mode.tls => phase \in {"Established", "Failed"}
          /\ net' = [net EXCEPT !.sent = @ + 1]
    /\ UNCHANGED <<mode, phase, sess, attached, blocking, expired, asked, seen, reasm, daemon, decSeq,
                   data>>

SessionEnds ==
    /\ sess # "Closed" /\ sess' = "Closed"
    /\ UNCHANGED <<mode, phase, attached, blocking, expired, asked, seen, reasm, daemon, net, decSeq,
                   data>>

Expire ==
    /\ phase \in Handshaking /\ ~expired /\ expired' = TRUE
    /\ UNCHANGED <<mode, phase, sess, attached, blocking, asked, seen, reasm, daemon, net, decSeq, data>>

DaemonDies ==
    /\ daemon /\ daemon' = FALSE
    /\ UNCHANGED <<mode, phase, sess, attached, blocking, expired, asked, seen, reasm, net, decSeq, data>>

-----------------------------------------------------------------------------
(* The handshake. *)

fail_handshake ==
    /\ phase' = "Failed" /\ sess' = "Closed" /\ UNCHANGED <<expired, asked>>

become_established == phase' = "Established" /\ UNCHANGED <<sess, expired, asked>>

EnterLeg(p) == phase' = p /\ expired' = FALSE /\ asked' = FALSE /\ UNCHANGED sess

advance_after_tls == IF mode.ws THEN EnterLeg("WsHandshaking") ELSE become_established

\* Out of SynSent: the session is Established, the next leg is not begun yet.
advance_after_tcp ==
    /\ sess' = "Established"
    /\ phase' = IF mode.tls THEN "TlsHandshaking" ELSE IF mode.ws THEN "WsHandshaking" ELSE "Established"
    /\ IF mode.tls \/ mode.ws THEN expired' = FALSE /\ asked' = FALSE ELSE UNCHANGED <<expired, asked>>

StepTcp ==
    /\ phase = "TcpConnecting"
    /\ \/ net.synack /\ sess = "SynSent" /\ advance_after_tcp
       \/ (net.synack \/ sess = "Closed") /\ fail_handshake
    /\ UNCHANGED <<seen, reasm, net, decSeq>>

StepTls ==
    /\ phase = "TlsHandshaking"
    /\ \/ ~asked /\ sess = "Established" /\ asked' = TRUE /\ UNCHANGED <<phase, sess, expired>>
       \/ asked /\ sess = "Established" /\ advance_after_tls
       \/ fail_handshake
    /\ UNCHANGED <<seen, reasm, net, decSeq>>

Arrived == [i \in 1..(net.sent - net.taken) |-> <<Kind, net.taken + i>>]
Took(n) == [net EXCEPT !.taken = @ + n]

\* process_records_in_place: the whole records at the head of b, in plaintext.
IsRecord(b, d) == SubSeq(b, 1, RecLen) = [i \in 1..RecLen |-> <<"ct", FirstUnit - 1 + d * RecLen + i>>]
process_records_in_place(b, d) ==
    LET n == Len(b) \div RecLen
        Part(k) == SubSeq(b, k * RecLen + 1, Len(b))
    IN  [ok |-> \A k \in 0..(n - 1) : IsRecord(Part(k), d + k), n |-> n,
         pt |-> [i \in 1..(n * RecLen) |-> <<"pt", b[i][2]>>], rest |-> Part(n)]

\* The WsSink: straight from the session, or through records.
SinkRecv ==
    IF mode.tls THEN process_records_in_place(seen.ct \o Arrived, decSeq)
    ELSE [ok |-> TRUE, n |-> 0, pt |-> Arrived, rest |-> << >>]

\* What was read behind the response.
Leftover(b) == SubSeq(b, RecLen + 1, Len(b))

\* More than reasm_ holds resets the session; the phase is Established all the same.
finalize_ws(b) ==
    IF Len(Leftover(b)) > ReasmCap
    THEN phase' = "Established" /\ sess' = "Closed" /\ UNCHANGED <<reasm, expired, asked>>
    ELSE reasm' = reasm \o Leftover(b) /\ become_established

StepWs ==
    LET r == SinkRecv
        b == seen.pt \o r.pt
    IN  /\ phase = "WsHandshaking"
        /\ \/ sess = "Closed" /\ fail_handshake /\ UNCHANGED <<seen, reasm, net, decSeq>>
           \/ /\ ~asked /\ sess = "Established" /\ asked' = TRUE
              /\ UNCHANGED <<phase, sess, expired, seen, reasm, net, decSeq>>
           \/ /\ asked /\ sess = "Established" /\ Arrived # << >>
              /\ net' = Took(Len(Arrived)) /\ decSeq' = decSeq + r.n
              /\ seen' = [ct |-> r.rest, pt |-> b]
              /\ IF Len(b) < RecLen THEN UNCHANGED <<phase, sess, expired, asked, reasm>>
                 ELSE finalize_ws(b) \/ (fail_handshake /\ UNCHANGED reasm)

\* Mutant: the deadline is not looked at.
NeverLate == FALSE

Late == expired

drive_handshake ==
    /\ phase \in Handshaking
    /\ IF Late THEN fail_handshake /\ UNCHANGED <<seen, reasm, net, decSeq>>
       ELSE StepTcp \/ StepTls \/ StepWs
    /\ UNCHANGED <<mode, attached, daemon, data>>

connect_blocking ==
    /\ ~attached /\ ~blocking /\ phase \in Handshaking /\ blocking' = TRUE
    /\ UNCHANGED <<mode, phase, sess, attached, expired, asked, seen, reasm, daemon, net, decSeq, data>>
BlockingStep == blocking /\ drive_handshake /\ blocking' = (phase' \in Handshaking)
BlockingTimeout ==
    /\ blocking /\ blocking' = FALSE
    /\ UNCHANGED <<mode, phase, sess, attached, expired, asked, seen, reasm, daemon, net, decSeq, data>>

attach ==
    /\ ~attached /\ ~blocking /\ attached' = TRUE
    /\ UNCHANGED <<mode, phase, sess, blocking, expired, asked, seen, reasm, daemon, net, decSeq, data>>
detach ==
    /\ attached /\ attached' = FALSE
    /\ UNCHANGED <<mode, phase, sess, blocking, expired, asked, seen, reasm, daemon, net, decSeq, data>>

\* A packet of this connection reaches the poller: an answer to what was asked,
\* or the server's bytes.  Nothing else makes the poller drive a handshake.
PacketDue ==
    CASE phase = "TcpConnecting" -> net.synack
      [] phase = "TlsHandshaking" -> asked
      [] OTHER -> Arrived # << >>
PollHandshake ==
    /\ attached /\ daemon /\ PacketDue /\ drive_handshake /\ UNCHANGED blocking

-----------------------------------------------------------------------------
(* Receiving. *)

\* The loop of drain_codec_ over a plaintext buffer: the frames before the
\* first that is partial or refused.
FrameIds(b) == [k \in 1..(Len(b) \div FrameLen) |-> ((b[(k - 1) * FrameLen + 1][2] - 1) \div FrameLen) + 1]
Refusals(b) == {k \in DOMAIN FrameIds(b) : FrameIds(b)[k] \in BadFrames}
Decoded(b) ==
    LET n == Len(FrameIds(b))
        stop == IF Refusals(b) = {} THEN n
                ELSE (CHOOSE k \in Refusals(b) : \A j \in Refusals(b) : k <= j) - 1
    IN  [out |-> [i \in 1..(stop * FrameLen) |-> b[i][2]], rest |-> SubSeq(b, stop * FrameLen + 1, Len(b)),
         bad |-> Refusals(b) # {}]

KeepPending(b) == b

ResetOnRefusal == sess' = "Closed" /\ overflowed' = TRUE

DrainTls(b) ==
    LET r == process_records_in_place(b, decSeq)
        d == Decoded(pending \o r.pt)
    IN  IF ~r.ok
        THEN /\ sess' = "Closed" /\ overflowed' = TRUE /\ reasm' = b
             /\ UNCHANGED <<pending, decSeq, frames, refused>>
        ELSE /\ reasm' = r.rest /\ decSeq' = decSeq + r.n /\ frames' = frames \o d.out
             /\ refused' = (refused \/ d.bad)
             /\ IF d.bad THEN pending' = << >> /\ ResetOnRefusal
                ELSE pending' = KeepPending(d.rest) /\ UNCHANGED <<sess, overflowed>>

\* A frame the codec refuses stays at the head of reasm_.
DrainPlain(b) ==
    LET d == Decoded(b)
    IN  /\ reasm' = d.rest /\ frames' = frames \o d.out /\ refused' = (refused \/ d.bad)
        /\ UNCHANGED <<sess, overflowed, pending, decSeq>>

Room == ReasmCap - Len(reasm)

process_burst ==
    LET n == Len(Arrived)
    IN  /\ attached /\ daemon /\ n > 0 /\ phase \notin Handshaking
        /\ net' = Took(n)
        /\ IF (mode.tls /\ corrupt) \/ sess # "Established" \/ overflowed
           THEN UNCHANGED <<sess, overflowed, reasm, pending, decSeq, frames, refused>>
           ELSE IF n > Room
                THEN /\ overflowed' = TRUE /\ sess' = "Closed"
                     /\ UNCHANGED <<reasm, pending, decSeq, frames, refused>>
                ELSE IF mode.tls THEN DrainTls(reasm \o Arrived) ELSE DrainPlain(reasm \o Arrived)
        /\ UNCHANGED <<mode, phase, attached, blocking, expired, asked, seen, corrupt, daemon, encSeq,
                       wire, told>>

-----------------------------------------------------------------------------
(* Sending and closing. *)

InFlight(n) == IF n = Segments THEN "Sent" ELSE IF n = 0 THEN "Unsent" ELSE "Uncertain"

\* Mutant: a record cut short does not stop the stream.
NoLatch(n) == corrupt

LatchIfCut(n) == corrupt \/ (mode.tls /\ n < Segments)

Sendable == attached /\ sess = "Established" /\ ~(mode.tls /\ corrupt)

\* check_post_burst_: only a dead daemon is reported.  The daemon may die
\* while the segments go out.
send(m) ==
    /\ told[m] = "none" /\ \A k \in 1..(m - 1) : told[k] # "none"
    /\ \E n \in 0..Segments, up \in BOOLEAN :
          LET k == IF Sendable /\ daemon THEN n ELSE 0
          IN  /\ up => daemon
              /\ ~(Sendable /\ daemon) => up = daemon /\ n = 0
              /\ daemon' = up
              /\ wire' = wire \o [i \in 1..k |-> [msg |-> m, rec |-> encSeq, seg |-> i]]
              /\ corrupt' = (IF Sendable /\ daemon THEN LatchIfCut(k) ELSE corrupt)
              /\ encSeq' = encSeq + (IF Sendable /\ daemon /\ mode.tls THEN 1 ELSE 0)
              /\ told' = [told EXCEPT ![m] = IF up \/ ~attached \/ (mode.tls /\ corrupt) THEN "other"
                                             ELSE InFlight(k)]
    /\ UNCHANGED <<mode, phase, sess, attached, blocking, expired, asked, seen, reasm, net, decSeq,
                   pending, overflowed, frames, refused>>

\* close_gracefully ends in FIN_WAIT; drain polls the session until it is closed.
close_gracefully ==
    /\ sess = "Established" /\ phase = "Established" /\ sess' = "FinWait1"
    /\ UNCHANGED <<mode, phase, attached, blocking, expired, asked, seen, reasm, daemon, net, decSeq,
                   data>>
drain ==
    /\ sess = "Established" /\ phase = "Established" /\ sess' = "Closed" /\ net' = Took(Len(Arrived))
    /\ UNCHANGED <<mode, phase, attached, blocking, expired, asked, seen, reasm, daemon, decSeq, data>>

-----------------------------------------------------------------------------
DSNext ==
    \/ ServerSends \/ SessionEnds \/ Expire \/ DaemonDies
    \/ connect_blocking \/ BlockingStep \/ BlockingTimeout \/ attach \/ detach
    \/ PollHandshake \/ process_burst
    \/ (\E m \in Messages : send(m)) \/ close_gracefully \/ drain

DSSpec == DSInit /\ [][DSNext]_DSvars

\* A blocking caller spins; the poller's loop takes what has arrived; time passes.
DSFairness ==
    /\ WF_DSvars(BlockingStep) /\ WF_DSvars(Expire)
    /\ WF_DSvars(PollHandshake) /\ WF_DSvars(process_burst)

DSTypeOK ==
    /\ phase \in Handshaking \cup {"Established", "Failed"}
    /\ sess \in {"SynSent", "Established", "FinWait1", "Closed"}
    /\ {attached, blocking, expired, asked, corrupt, overflowed, daemon, refused} \subseteq BOOLEAN
    /\ Len(reasm) <= ReasmCap /\ net.taken <= net.sent
    /\ told \in [Messages -> {"none", "other", "Unsent", "Uncertain", "Sent"}]

\* on_message is given the server's bytes in order, each once, whatever the
\* cuts between packets, records and frames.
DpdkFramesInOrder == frames = [i \in 1..Len(frames) |-> i]

\* On a TLS stream nothing follows a record that was cut short.
DpdkTlsWireIntact ==
    mode.tls => \A i, j \in DOMAIN wire : i < j /\ wire[i].msg # wire[j].msg =>
                    \E k \in DOMAIN wire : wire[k].msg = wire[i].msg /\ wire[k].seg = Segments

\* A message reported for a dead daemon is on the wire as far as the report says.
DaemonReportTrue ==
    \A m \in Messages :
        LET out == {i \in DOMAIN wire : wire[i].msg = m}
        IN  /\ told[m] = "Unsent" => out = {}
            /\ told[m] = "Sent" => \E i \in out : wire[i].seg = Segments
            /\ told[m] = "Uncertain" => out # {} /\ \A i \in out : wire[i].seg < Segments

\* A TLS stream whose codec refused a frame is closed and delivers nothing more.
RefusalCloses == mode.tls /\ refused => sess = "Closed" /\ overflowed

\* connect_blocking comes to an end by itself.
BlockingEnds == blocking ~> ~blocking

\* "Every registered pollable is driven every cycle": an attached stream ends
\* its handshake, whatever the server does.
DpdkHandshakeResolves ==
    (attached /\ daemon) ~> (phase \in {"Established", "Failed"} \/ ~attached \/ ~daemon)

\* Both directions of the user-space stream: frames in order, the TLS wire
\* unbroken, reports that agree with it, no frame after a refused one.
DpdkStreamTrue ==
    /\ DSTypeOK /\ DpdkFramesInOrder /\ DpdkTlsWireIntact /\ DaemonReportTrue
    /\ RefusalCloses
=============================================================================
