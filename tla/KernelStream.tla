---------------------------- MODULE KernelStream ----------------------------
(***************************************************************************)
(* eph::net::kernel::TcpStream over a kernel socket: the non-blocking      *)
(* connect, proxy, TLS and WebSocket handshake driven by readiness, the    *)
(* receive buffers of its layers, send with its in-flight report, and the  *)
(* two ways of closing.                                                    *)
(*                                                                         *)
(* The server's bytes are units 1, 2, ...: a frame is FrameLen of them, a  *)
(* TLS record RecLen.  The 101 response is the record that ends at unit 0. *)
(* A buffer holds <<"ct", u>> for a unit of ciphertext, <<"pt", u>> for    *)
(* plaintext.  A step between two frames is a call made by on_message.     *)
(***************************************************************************)
EXTENDS Integers, Sequences, SequencesExt

CONSTANTS Units,          \* bound: units the server sends
          FrameLen, RecLen, RxCap, MaxSends,
          MaxWrites,      \* bound: writes before the caller closes
          Pings           \* frames the codec answers by itself

ASSUME KernelStreamAssumption ==
    /\ Units \in Nat /\ FrameLen \in Nat \ {0} /\ RecLen \in Nat \ {0} /\ RxCap \in Nat
    /\ MaxSends \in Nat /\ MaxWrites \in Nat /\ Pings \subseteq Nat

VARIABLES
    mode,        \* [tls, ws, proxy]: the configuration; sink: on_message is set
    phase,       \* hs_phase_
    streamState, \* state_
    attached, interest,
    corrupt,     \* tls_corrupt_
    rx,          \* rx_bytes_
    plain,       \* rx_plaintext_ from its head on
    ws,          \* the upgrade: [sent, ct, buf] of WsHandshakeDriver and its sink
    decoding,    \* drain_codec_ is on the stack
    expired,     \* connect_deadline_ has passed
    sock,        \* external: [conn, arrived, read, fin, shut] of the socket
    encSeq, decSeq,  \* the AEAD's record numbers
    wire,        \* history: what was written after the handshake
    report,      \* history: what send reported of each message
    frames,      \* history: what on_message was given
    dead         \* history: the stream has been Closed

KSvars == <<mode, phase, streamState, attached, interest, corrupt, rx, plain, ws, decoding,
            expired, sock, encSeq, decSeq, wire, report, frames, dead>>

Handshaking == {"TcpConnecting", "TlsHandshaking", "WsHandshaking"}
Statuses == {"none", "Ok", "Unsent", "Uncertain"}
Messages == 1..MaxSends
FirstUnit == IF mode.ws THEN 1 - RecLen ELSE 1

\* create: the connect is under way and the caller attaches or blocks.
KSInit ==
    /\ mode \in [tls : BOOLEAN, ws : BOOLEAN, proxy : BOOLEAN, sink : BOOLEAN]
    /\ phase = "TcpConnecting" /\ streamState = "SynSent"
    /\ attached = FALSE /\ interest = {} /\ corrupt = FALSE
    /\ rx = << >> /\ plain = << >> /\ ws = [sent |-> FALSE, ct |-> << >>, buf |-> << >>]
    /\ decoding = FALSE /\ expired = FALSE
    /\ sock = [conn |-> "connecting", arrived |-> FirstUnit - 1, read |-> FirstUnit - 1,
               fin |-> FALSE, shut |-> FALSE]
    /\ encSeq = 0 /\ decSeq = 0 /\ wire = << >> /\ report = [m \in Messages |-> "none"]
    /\ frames = << >> /\ dead = FALSE

Unread == sock.arrived - sock.read
NextUnits(n, kind) == [i \in 1..n |-> <<kind, sock.read + i>>]
Kind == IF mode.tls THEN "ct" ELSE "pt"
\* recv: what has arrived, up to the room there is.
Received(room) == NextUnits(IF Unread < room THEN Unread ELSE room, Kind)
ReadSock(n) == [sock EXCEPT !.read = @ + n]

-----------------------------------------------------------------------------
(* The socket. *)

ConnectResolves ==
    /\ sock.conn = "connecting"
    /\ sock' \in {[sock EXCEPT !.conn = c] : c \in {"up", "refused"}}
    /\ UNCHANGED <<mode, phase, streamState, attached, interest, corrupt, rx, plain, ws, decoding,
                   expired, encSeq, decSeq, wire, report, frames, dead>>

\* The 101 response follows the request; frames follow it at once.
Arrives ==
    /\ sock.conn = "up" /\ ~sock.fin /\ ~decoding
    /\ mode.ws => ws.sent
    /\ mode.tls => phase \notin {"TcpConnecting", "TlsHandshaking"}
    /\ \/ sock.arrived < Units /\ sock' = [sock EXCEPT !.arrived = @ + 1]
       \/ sock' = [sock EXCEPT !.fin = TRUE]
    /\ UNCHANGED <<mode, phase, streamState, attached, interest, corrupt, rx, plain, ws, decoding,
                   expired, encSeq, decSeq, wire, report, frames, dead>>

Expire ==
    /\ phase \in Handshaking /\ ~expired /\ expired' = TRUE
    /\ UNCHANGED <<mode, phase, streamState, attached, interest, corrupt, rx, plain, ws, decoding,
                   sock, encSeq, decSeq, wire, report, frames, dead>>

-----------------------------------------------------------------------------
(* The handshake: one step each time the socket is ready. *)

\* Mutant: EPOLLOUT is not asked for.
ReadInterest == {"in"}

HandshakeInterest == {"in", "out"}
Armed(want) == interest' = IF attached THEN want ELSE interest

fail_handshake ==
    /\ phase' = "Failed" /\ streamState' = "Closed" /\ dead' = TRUE
    /\ UNCHANGED <<interest, expired>>

become_established ==
    /\ phase' = "Established" /\ streamState' = "Established"
    /\ Armed({"in"}) /\ UNCHANGED <<expired, dead>>

EnterPhase(p) ==
    /\ phase' = p /\ expired' = FALSE /\ Armed(HandshakeInterest)
    /\ UNCHANGED <<streamState, dead>>

advance_after_tls == IF mode.ws THEN EnterPhase("WsHandshaking") ELSE become_established

AdvancePastProxy ==
    IF mode.tls THEN EnterPhase("TlsHandshaking") \/ fail_handshake ELSE advance_after_tls

\* What the CONNECT reply is followed by in the same recv can only be kept when
\* no layer is above it.
run_proxy_connect ==
    \/ fail_handshake /\ UNCHANGED <<rx, sock>>
    \/ IF Unread = 0 \/ mode.tls \/ mode.ws
       THEN AdvancePastProxy /\ UNCHANGED <<rx, sock>>
       ELSE /\ advance_after_tls
            /\ rx' = rx \o Received(RxCap) /\ sock' = ReadSock(Len(Received(RxCap)))

StepTcp ==
    /\ phase = "TcpConnecting" /\ sock.conn # "connecting"
    /\ \/ sock.conn = "refused" /\ fail_handshake /\ UNCHANGED <<rx, sock>>
       \/ sock.conn = "up" /\ mode.proxy /\ run_proxy_connect
       \/ sock.conn = "up" /\ ~mode.proxy /\ AdvancePastProxy /\ UNCHANGED <<rx, sock>>
    /\ UNCHANGED <<ws, decSeq>>

StepTls ==
    /\ phase = "TlsHandshaking"
    /\ \/ ~sock.shut /\ advance_after_tls
       \/ fail_handshake
    /\ UNCHANGED <<rx, sock, ws, decSeq>>

\* process_records on the buffer b when d records have been read: the records
\* at its head in plaintext, or "bad" at anything that does not decrypt.
IsRecord(b, d) ==
    LET base == FirstUnit - 1 + d * RecLen
    IN  SubSeq(b, 1, RecLen) = [i \in 1..RecLen |-> <<"ct", base + i>>]
WholeRecords(b) == Len(b) \div RecLen
process_records(b, d) ==
    LET n == WholeRecords(b)
        Part(k) == SubSeq(b, k * RecLen + 1, Len(b))
    IN  [ok |-> \A k \in 0..(n - 1) : IsRecord(Part(k), d + k), n |-> n,
         pt |-> [i \in 1..(n * RecLen) |-> <<"pt", b[i][2]>>], rest |-> Part(n)]

UpgradeSend ==
    /\ ~ws.sent
    /\ IF sock.shut THEN fail_handshake /\ UNCHANGED ws
       ELSE ws' = [ws EXCEPT !.sent = TRUE] /\ UNCHANGED <<phase, streamState, expired, interest, dead>>
    /\ UNCHANGED <<rx, sock, decSeq>>

\* What was read behind the response.
Leftover(b) == SubSeq(b, RecLen + 1, Len(b))

\* The plaintext the upgrade reads: through TlsWsSink's own ciphertext buffer.
SinkRecv(in) ==
    IF mode.tls THEN process_records(ws.ct \o in, decSeq)
    ELSE [ok |-> TRUE, n |-> 0, pt |-> in, rest |-> << >>]

\* Read what has arrived; the response complete, what follows it seeds rx_bytes_.
UpgradeRead ==
    LET in == Received(Unread)
        rec == SinkRecv(in)
        buf == ws.buf \o rec.pt
    IN  /\ ws.sent
        /\ sock' = ReadSock(Len(in))
        /\ decSeq' = decSeq + rec.n
        /\ ws' = [ws EXCEPT !.ct = rec.rest, !.buf = buf]
        /\ IF Len(buf) < RecLen
           THEN /\ IF sock.fin /\ Unread = 0 THEN fail_handshake
                   ELSE Unread > 0 /\ UNCHANGED <<phase, streamState, expired, interest, dead>>
                /\ UNCHANGED rx
           ELSE \/ fail_handshake /\ UNCHANGED rx
                \/ IF Len(Leftover(buf)) > RxCap THEN fail_handshake /\ UNCHANGED rx
                   ELSE rx' = rx \o Leftover(buf) /\ become_established

drive_handshake ==
    /\ \/ expired /\ fail_handshake /\ UNCHANGED <<rx, sock, ws, decSeq>>
       \/ ~expired /\ (StepTcp \/ StepTls)
       \/ ~expired /\ phase = "WsHandshaking" /\ (UpgradeSend \/ UpgradeRead)
    /\ phase \in Handshaking
    /\ UNCHANGED <<mode, attached, corrupt, plain, decoding, encSeq, wire, report, frames>>

connect_blocking == ~attached /\ drive_handshake

attach ==
    /\ ~attached /\ ~decoding /\ phase # "Failed" /\ attached' = TRUE
    /\ interest' = IF phase = "Established" THEN {"in"} ELSE HandshakeInterest
    /\ UNCHANGED <<mode, phase, streamState, corrupt, rx, plain, ws, decoding, expired, sock,
                   encSeq, decSeq, wire, report, frames, dead>>

detach ==
    /\ attached /\ attached' = FALSE /\ interest' = {}
    /\ UNCHANGED <<mode, phase, streamState, corrupt, rx, plain, ws, decoding, expired, sock,
                   encSeq, decSeq, wire, report, frames, dead>>

Ready ==
    \/ sock.conn = "refused"
    \/ "out" \in interest /\ sock.conn = "up"
    \/ "in" \in interest /\ (Unread > 0 \/ sock.fin)

-----------------------------------------------------------------------------
(* Sending. *)

\* ByteSocket::send puts all of the bytes in, or fails with some of them in.
Outcomes == {[ok |-> ~sock.shut, put |-> IF sock.shut THEN "none" ELSE "all"]}
            \cup {[ok |-> FALSE, put |-> p] : p \in IF sock.shut THEN {"none"} ELSE {"none", "part"}}
Written(m, put, n) ==
    IF put = "none" THEN wire ELSE Append(wire, [msg |-> m, whole |-> put = "all", rec |-> n])

Told(m, what) == report' = IF m = 0 THEN report ELSE [report EXCEPT ![m] = what]

\* Mutant: the failed write of a record does not stop the stream.
NotLatched == FALSE

Latched == TRUE

TlsReport == "Uncertain"

\* A message of two records can fail to encrypt after the first has its number.
SendTls(m) ==
    \/ /\ \E k \in 0..1 : encSeq' = encSeq + k
       /\ corrupt' = Latched /\ Told(m, "Unsent") /\ UNCHANGED wire
    \/ /\ encSeq' = encSeq + 1
       /\ \E o \in Outcomes :
             /\ wire' = Written(m, o.put, encSeq)
             /\ corrupt' = (IF o.ok THEN corrupt ELSE Latched)
             /\ Told(m, IF o.ok THEN "Ok" ELSE TlsReport)

SendPlain(m) ==
    /\ \E o \in Outcomes : /\ wire' = Written(m, o.put, 0)
                           /\ Told(m, IF o.ok THEN "Ok" ELSE "Unsent")
    /\ UNCHANGED <<encSeq, corrupt>>

Writable == attached /\ streamState = "Established"

\* send of a message, or of the codec's own answer (0).  A corrupt TLS stream
\* refuses and leaves the report of the send before.
SendBytes(m) ==
    IF ~Writable
    THEN Told(m, "Unsent") /\ UNCHANGED <<wire, encSeq, corrupt>>
    ELSE IF mode.tls
         THEN IF corrupt THEN UNCHANGED <<wire, encSeq, corrupt, report>> ELSE SendTls(m)
         ELSE SendPlain(m)

NextMessage == CHOOSE m \in Messages : report[m] = "none" /\ \A k \in 1..(m - 1) : report[k] # "none"

send ==
    /\ \E m \in Messages : report[m] = "none"
    /\ SendBytes(NextMessage)
    /\ UNCHANGED <<mode, phase, streamState, attached, interest, rx, plain, ws, decoding, expired,
                   sock, decSeq, frames, dead>>

-----------------------------------------------------------------------------
(* Receiving. *)

\* Bytes of the layer below become plaintext; the frames come from there.
Buffered == IF mode.tls THEN plain ELSE rx

StopReading == /\ streamState' = "Closed" /\ dead' = TRUE

\* drain_codec_ up to its loop, on a receive buffer b.
StartDecoding(b) ==
    LET rec == process_records(b, decSeq)
    IN  IF ~mode.tls
        THEN rx' = b /\ decoding' = TRUE /\ UNCHANGED <<plain, decSeq, streamState, dead>>
        ELSE IF rec.ok
             THEN /\ rx' = rec.rest /\ plain' = plain \o rec.pt /\ decSeq' = decSeq + rec.n
                  /\ decoding' = TRUE /\ UNCHANGED <<streamState, dead>>
             ELSE /\ StopReading /\ rx' = b /\ UNCHANGED <<plain, decSeq, decoding>>

\* What is left in the buffers makes a frame, or a record, only when the
\* handshake seeded it.
Seeded == Len(rx) >= IF mode.tls THEN RecLen ELSE FrameLen

WritableCapacity == RxCap - Len(rx)

\* recv fails, or finds the peer's FIN; without on_message the bytes are dropped.
ReadSocket ==
    LET in == Received(WritableCapacity)
    IN  \/ StopReading /\ UNCHANGED <<rx, plain, decSeq, decoding, sock>>
        \/ /\ Unread > 0 /\ sock' = ReadSock(Len(in))
           /\ IF mode.sink THEN StartDecoding(rx \o in)
              ELSE UNCHANGED <<rx, plain, decSeq, decoding, streamState, dead>>

\* poll_once_ on an established stream: first what the handshake left in the
\* buffer, then what the socket has.
poll_once ==
    /\ attached /\ ~decoding /\ Ready /\ phase = "Established" /\ streamState = "Established"
    /\ IF corrupt \/ (mode.sink /\ ~Seeded /\ WritableCapacity = 0)
       THEN StopReading /\ UNCHANGED <<rx, plain, decSeq, decoding, sock>>
       ELSE IF mode.sink /\ Seeded
            THEN StartDecoding(rx) /\ UNCHANGED sock
            ELSE ReadSocket
    /\ UNCHANGED <<mode, phase, attached, interest, corrupt, ws, expired, encSeq, wire, report, frames>>

\* One turn of drain_codec_'s loop: a frame to on_message, or an answer of the
\* codec's, or the end of what is whole.
TakeFrame ==
    LET f == SubSeq(Buffered, 1, FrameLen)
        rest == SubSeq(Buffered, FrameLen + 1, Len(Buffered))
    IN  /\ IF mode.tls THEN plain' = rest /\ UNCHANGED rx ELSE rx' = rest /\ UNCHANGED plain
        /\ IF f[1][2] \in {FrameLen * (p - 1) + 1 : p \in Pings}
           THEN SendBytes(0)
           ELSE UNCHANGED <<wire, encSeq, corrupt, report>>
        /\ frames' = frames \o [i \in 1..FrameLen |-> f[i][2]]
        /\ UNCHANGED decoding

drain_codec ==
    /\ decoding
    /\ IF Len(Buffered) >= FrameLen THEN TakeFrame
       ELSE decoding' = FALSE /\ UNCHANGED <<rx, plain, frames, wire, encSeq, corrupt, report>>
    /\ UNCHANGED <<mode, phase, streamState, attached, interest, ws, expired, sock, decSeq, dead>>

-----------------------------------------------------------------------------
(* Closing, by the caller or from on_message. *)

\* shutdown(SHUT_WR), which may fail; on a socket still connecting it does nothing.
ShutDown == [sock EXCEPT !.shut = (sock.conn = "up")]

close_gracefully ==
    /\ Len(wire) < MaxWrites
    /\ IF mode.ws /\ streamState = "Established" THEN SendBytes(0)
       ELSE UNCHANGED <<wire, encSeq, corrupt, report>>
    /\ \/ sock' = ShutDown /\ streamState' = "FinWait1"
       \/ UNCHANGED <<sock, streamState>>
    /\ UNCHANGED <<mode, phase, attached, interest, rx, plain, ws, decoding, expired, decSeq, frames,
                   dead>>

\* Blocks until the peer's FIN, an error or the timeout.
drain ==
    /\ streamState = "Established"
    /\ \/ UNCHANGED <<sock, streamState, dead>>
       \/ sock' = [ShutDown EXCEPT !.read = sock.arrived] /\ StopReading
    /\ UNCHANGED <<mode, phase, attached, interest, corrupt, rx, plain, ws, decoding, expired, encSeq,
                   decSeq, wire, report, frames>>

-----------------------------------------------------------------------------
PollHandshake == attached /\ Ready /\ drive_handshake

KSNext ==
    \/ ConnectResolves \/ Arrives \/ Expire \/ connect_blocking \/ attach \/ detach
    \/ PollHandshake \/ poll_once \/ drain_codec
    \/ send \/ close_gracefully \/ drain

KSSpec == KSInit /\ [][KSNext]_KSvars

\* The application keeps polling; the kernel ends every connect; time passes.
KSFairness ==
    /\ WF_KSvars(PollHandshake) /\ WF_KSvars(poll_once) /\ WF_KSvars(drain_codec)
    /\ WF_KSvars(ConnectResolves) /\ WF_KSvars(Expire)

-----------------------------------------------------------------------------
KSTypeOK ==
    /\ phase \in Handshaking \cup {"Established", "Failed"}
    /\ streamState \in {"SynSent", "Established", "FinWait1", "Closed"}
    /\ {attached, corrupt, decoding, expired, dead} \subseteq BOOLEAN
    /\ interest \subseteq {"in", "out"} /\ Len(rx) <= RxCap
    /\ sock.read <= sock.arrived /\ sock.arrived <= Units
    /\ report \in [Messages -> Statuses]

\* on_message is given the server's bytes in order, each once, whatever the
\* layers' buffers held when the handshake ended and wherever reads were cut.
FramesInOrder == frames = [i \in 1..Len(frames) |-> i]

\* A TLS stream writes its records in the order of their numbers, and nothing
\* follows a record that went out in part.
TlsWireIntact ==
    mode.tls => \A i \in DOMAIN wire : wire[i].rec = i - 1 /\ (i < Len(wire) => wire[i].whole)

Reported(m) == \E i \in DOMAIN wire : wire[i].msg = m
\* On a TLS stream, a message reported Unsent has no byte on the wire.
TlsUnsentIsUnsent == mode.tls => \A m \in Messages : report[m] = "Unsent" => ~Reported(m)

\* "Unsent: bytes never left this process", on every stream.
UnsentIsUnsent == \A m \in Messages : report[m] = "Unsent" => ~Reported(m)

\* An attached stream that is polled ends its handshake, whatever the server does.
HandshakeResolves == attached ~> (phase \in {"Established", "Failed"} \/ ~attached)

\* Bytes read behind the handshake are delivered without more from the server.
SeededFramesDelivered ==
    (attached /\ phase = "Established" /\ Len(rx) >= FrameLen)
        ~> (Len(rx) < FrameLen \/ ~attached \/ streamState # "Established")

\* Both directions of the kernel stream: frames arrive whole and in order, and
\* the TLS wire and what send reports of it agree.
KernelStreamTrue ==
    /\ KSTypeOK /\ FramesInOrder /\ TlsWireIntact /\ TlsUnsentIsUnsent
=============================================================================
