------------------------------ MODULE UserTcp ------------------------------
(***************************************************************************)
(* eph::dpdk::TcpSession, the user-space TCP client of the DPDK backend,   *)
(* against a peer over a network that loses, repeats and reorders.         *)
(*                                                                         *)
(* The session keeps sequence numbers modulo SeqSpace; a byte is known by  *)
(* its position in its stream, which history variables keep, and the       *)
(* peer's FIN is the position after its last byte.  Any segment cut from   *)
(* what the peer has sent may arrive at any time, any number of times and  *)
(* with any acknowledgement the peer has ever sent.  A segment of ours is  *)
(* sent once: from the first one lost on, the peer gets nothing.           *)
(***************************************************************************)
EXTENDS Integers, Sequences, FiniteSetsExt

CONSTANTS SeqSpace,         \* 2^32 in the code; even
          Window,         \* rcv_wnd_
          ReorderSlots, MaxMss, Probes, Keepalive,
          Isns,           \* what generate_isn may return
          PeerIsn, PeerBytes,
          OurBytes,       \* bound: bytes handed to send
          MayRst,         \* the network may carry an RST
          AckLoss         \* a bare ACK may be lost

\* Neither end sends more than there are sequence numbers.
ASSUME UserTcpAssumption ==
    /\ SeqSpace \in Nat /\ PeerBytes \in Nat /\ OurBytes \in Nat
    /\ PeerBytes + 2 <= SeqSpace /\ OurBytes + 2 <= SeqSpace
    /\ Isns \subseteq 0..(SeqSpace - 1) /\ PeerIsn \in 0..(SeqSpace - 1)
    /\ ReorderSlots \in Nat /\ MaxMss \in Nat \ {0} /\ Probes \in Nat

VARIABLES
    tcpState, sndNxt, sndUna, rcvNxt, reorder,
    ackDue,      \* ack_pending_since_tsc_ # 0
    mss,         \* effective_mss_
    misses,      \* keepalive_misses_
    failed,      \* process_rx has reported the reorder buffer full
    isn,
    got,         \* history: positions handed to the data callback
    sent,        \* history: positions of ours put on the wire, the FIN included
    lostAt,      \* history: the first of them that was lost
    endedBy,     \* history: what brought the session to Closed
    peer         \* external: [up, sent, fin, rcv, una] of the other end

UTvars == <<tcpState, sndNxt, sndUna, rcvNxt, reorder, ackDue, mss, misses, failed,
            isn, got, sent, lostAt, endedBy, peer>>
history == <<isn, got, sent, lostAt, endedBy>>

TcpStates == {"Closed", "SynSent", "Established", "FinWait1", "FinWait2", "CloseWait",
              "Closing", "LastAck", "TimeWait"}
NotLost == OurBytes + 2
FreshPeer == [up |-> "listening", sent |-> 0, fin |-> FALSE, rcv |-> 0, una |-> 0]
PeerStates == [up : {"listening", "handshake", "open", "dead"}, sent : 0..PeerBytes,
          fin : BOOLEAN, rcv : 0..(OurBytes + 1), una : 0..(PeerBytes + 1)]

Wrap(n) == n % SeqSpace
PeerSeq(pos) == Wrap(PeerIsn + 1 + pos)
OurSeq(pos) == Wrap(isn + 1 + pos)
RcvPos == Wrap(rcvNxt - PeerIsn - 1)
UnaPos == Wrap(sndUna - isn - 1)

seq_after(a, b) == LET d == Wrap(a - b) IN d # 0 /\ d < SeqSpace \div 2

UTInit ==
    /\ tcpState = "Closed" /\ sndNxt = 0 /\ sndUna = 0 /\ rcvNxt = 0 /\ reorder = << >>
    /\ ackDue = FALSE /\ mss = MaxMss /\ misses = 0 /\ failed = FALSE
    /\ isn \in Isns /\ got = << >> /\ sent = 0 /\ lostAt = NotLost
    /\ endedBy = "none" /\ peer = FreshPeer

-----------------------------------------------------------------------------
(* Connecting. *)

\* Mutant: a new connection keeps what the last one had buffered.
KeptReorder == reorder

ClearedReorder == << >>

\* TIME_WAIT counts as Closed once 2MSL have passed.  A SYN that cannot be
\* built or sent leaves the session Closed with its counters reset.
begin_connect ==
    /\ tcpState \in {"Closed", "TimeWait"}
    /\ isn' \in Isns
    /\ \E ok \in BOOLEAN :
          /\ tcpState' = (IF ok THEN "SynSent" ELSE "Closed")
          /\ sndNxt' = Wrap(isn' + (IF ok THEN 1 ELSE 0))
    /\ sndUna' = isn' /\ rcvNxt' = 0 /\ reorder' = ClearedReorder
    /\ ackDue' = FALSE /\ mss' = MaxMss /\ misses' = 0
    /\ failed' = FALSE /\ got' = << >> /\ sent' = 0 /\ lostAt' = NotLost
    /\ endedBy' = "none" /\ peer' = FreshPeer

\* The SYN is sent again every 200 ms until one arrives.
maybe_retransmit_syn ==
    /\ tcpState = "SynSent" /\ peer.up = "listening"
    /\ peer' = [peer EXCEPT !.up = "handshake"]
    /\ UNCHANGED <<tcpState, sndNxt, sndUna, rcvNxt, reorder, ackDue, mss, misses, failed,
                   history>>

\* The bare ACK reaches the peer, or it does not.
AckArrives(p) ==
    [p EXCEPT !.una = IF RcvPos > @ THEN RcvPos ELSE @]
AckSent(p) == {AckArrives(p)} \cup (IF AckLoss THEN {p} ELSE {})

SynAcked == sndNxt

\* handle_handshake_burst_ on the SYN-ACK.  If the ACK cannot be sent the
\* session stays in SynSent, its numbers already set.
HandshakeSynAck ==
    /\ tcpState = "SynSent" /\ peer.up \in {"handshake", "open"}
    /\ rcvNxt' = PeerSeq(0) /\ sndUna' = SynAcked
    /\ mss' \in 1..mss
    /\ \/ UNCHANGED <<tcpState, peer>>
       \/ /\ tcpState' = "Established"
          /\ \/ peer' = [peer EXCEPT !.up = "open"]
             \/ AckLoss /\ UNCHANGED peer
    /\ UNCHANGED <<sndNxt, reorder, ackDue, misses, failed, history>>

\* A RST in SynSent is taken whatever its numbers; connect's deadline has the
\* same effect.
HandshakeEnds ==
    /\ tcpState = "SynSent" /\ tcpState' = "Closed"
    /\ endedBy' \in {"timeout"} \cup (IF MayRst THEN {"rst"} ELSE {})
    /\ UNCHANGED <<sndNxt, sndUna, rcvNxt, reorder, ackDue, mss, misses, failed, isn,
                   got, sent, lostAt, peer>>

-----------------------------------------------------------------------------
(* Sending.  Nothing is kept for retransmission. *)

Live == ~failed /\ tcpState \notin {"Closed", "SynSent"}

\* n positions go out; from the first lost one on the peer gets none.
PutOnWire(n) ==
    /\ sndNxt' = Wrap(sndNxt + n) /\ sent' = sent + n
    /\ \/ /\ UNCHANGED lostAt
          /\ peer' = AckArrives(peer)
       \/ /\ lostAt' = Min({lostAt, sent})
          /\ UNCHANGED peer

send(n) ==
    /\ Live /\ tcpState = "Established" /\ n <= mss /\ sent + n <= OurBytes
    /\ PutOnWire(n)
    /\ ackDue' = FALSE
    /\ UNCHANGED <<tcpState, sndUna, rcvNxt, reorder, mss, misses, failed, isn, got,
                   endedBy>>

\* Two segments in one burst, the first of which at least the NIC takes.
send_batch(n1, n2) ==
    /\ Live /\ tcpState = "Established" /\ n1 <= mss /\ n2 <= mss /\ sent + n1 + n2 <= OurBytes
    /\ \E taken \in {n1, n1 + n2} : PutOnWire(taken)
    /\ ackDue' = FALSE
    /\ UNCHANGED <<tcpState, sndUna, rcvNxt, reorder, mss, misses, failed, isn, got,
                   endedBy>>

\* snd_nxt_ moves when the packet is built; the caller transmits it, or drops it.
build_data_packet(n) ==
    /\ Live /\ tcpState = "Established" /\ n <= mss /\ sent + n <= OurBytes
    /\ PutOnWire(n)
    /\ UNCHANGED <<tcpState, sndUna, rcvNxt, reorder, ackDue, mss, misses, failed, isn,
                   got, endedBy>>

\* Mutant: the pending ACK is forgotten even though the send failed.
FlushForgets == ackDue' = FALSE /\ UNCHANGED peer

FlushFails == UNCHANGED <<ackDue, peer>>
flush_pending_ack ==
    /\ Live /\ ackDue
    /\ UNCHANGED <<tcpState, sndNxt, sndUna, rcvNxt, reorder, mss, misses, failed, history>>
    /\ \/ ackDue' = FALSE /\ peer' \in AckSent(peer)
       \/ FlushFails

Probed == tcpState = "Established"

\* Nothing received for an interval: a probe, which carries an ACK, or the end.
tick_keepalive ==
    /\ Live /\ Keepalive /\ Probed
    /\ IF misses >= Probes
       THEN /\ tcpState' = "Closed" /\ endedBy' = "keepalive"
            /\ UNCHANGED <<misses, peer>>
       ELSE /\ \E ok \in BOOLEAN :
                  /\ misses' = misses + 1
                  /\ peer' \in (IF ok THEN AckSent(peer) ELSE {peer})
            /\ UNCHANGED <<tcpState, endedBy>>
    /\ UNCHANGED <<sndNxt, sndUna, rcvNxt, reorder, ackDue, mss, failed, isn, got, sent,
                   lostAt>>

FinLength == 1
CloseTo == [Established |-> "FinWait1", CloseWait |-> "LastAck"]
close ==
    /\ Live /\ tcpState \in DOMAIN CloseTo
    /\ PutOnWire(FinLength)
    /\ tcpState' = CloseTo[tcpState]
    /\ UNCHANGED <<sndUna, rcvNxt, reorder, ackDue, mss, misses, failed, isn, got,
                   endedBy>>

reset ==
    /\ tcpState # "Closed" /\ tcpState' = "Closed" /\ endedBy' = "reset"
    /\ reorder' = << >> /\ ackDue' = FALSE /\ rcvNxt' = 0 /\ mss' = MaxMss /\ misses' = 0
    /\ UNCHANGED <<sndNxt, sndUna, failed, isn, got, sent, lostAt, peer>>

on_icmp_frag_needed ==
    /\ Live
    /\ \E m \in 1..MaxMss : mss' = Min({mss, m})
    /\ UNCHANGED <<tcpState, sndNxt, sndUna, rcvNxt, reorder, ackDue, misses, failed,
                   history, peer>>

-----------------------------------------------------------------------------
(* Receiving: process_rx on one segment of the connection. *)

Acked(ack) == IF seq_after(ack, sndUna) /\ ~seq_after(ack, sndNxt) THEN ack ELSE sndUna
AfterAck(una) ==
    IF una = sndNxt /\ tcpState \in {"FinWait1", "Closing", "LastAck"}
    THEN [FinWait1 |-> "FinWait2", Closing |-> "TimeWait", LastAck |-> "Closed"][tcpState]
    ELSE tcpState

Receiving == {"Established", "FinWait1", "FinWait2", "CloseWait", "Closing"}

RemoveSwap(s, i) == SubSeq([s EXCEPT ![i] = s[Len(s)]], 1, Len(s) - 1)

Positions(pos, len) == [i \in 1..len |-> pos + i - 1]
DrainOnce(x) ==
    LET hits == {i \in DOMAIN x.buf : x.buf[i].seq = x.next}
        i == Min(hits)
        e == x.buf[i]
    IN  IF hits = {} THEN x
        ELSE [next |-> Wrap(x.next + e.len), buf |-> RemoveSwap(x.buf, i),
              got |-> x.got \o Positions(e.pos, e.len)]
drain_reorder_buf(x) ==
    LET d[k \in 0..ReorderSlots] == IF k = 0 THEN x ELSE DrainOnce(d[k - 1])
    IN  d[ReorderSlots]

Ahead(seq) == seq_after(seq, rcvNxt)

Room == Len(reorder) < ReorderSlots

\* A segment with data that is not the next one.
OutOfOrder(seg, st) ==
    /\ tcpState' = st
    /\ IF Ahead(PeerSeq(seg.pos))
       THEN IF Room
            THEN /\ reorder' = Append(reorder, [seq |-> PeerSeq(seg.pos), pos |-> seg.pos,
                                                len |-> seg.len])
                 /\ UNCHANGED failed
            ELSE failed' = TRUE /\ UNCHANGED reorder
       ELSE UNCHANGED <<reorder, failed>>
    /\ UNCHANGED <<rcvNxt, got, ackDue>>

AfterFin(st, una) ==
    CASE st = "Established" -> "CloseWait"
      [] st = "FinWait1" -> IF una = sndNxt THEN "TimeWait" ELSE "Closing"
      [] st \in {"Closing", "FinWait2"} -> "TimeWait"
      [] OTHER -> st

FinSeq(seg) == PeerSeq(seg.pos + seg.len)

\* What process_rx holds after the segment's data, and what it had drained.
Taken(seg, st) ==
    LET here == [next |-> rcvNxt, buf |-> reorder, got |-> got]
    IN  IF seg.len > 0 /\ st \in Receiving
        THEN drain_reorder_buf([here EXCEPT !.next = Wrap(@ + seg.len),
                                            !.got = @ \o Positions(seg.pos, seg.len)])
        ELSE here

InOrder(seg, st, una) ==
    \E taken \in {Taken(seg, st)} :
        LET fin == seg.fin /\ FinSeq(seg) = taken.next /\ AfterFin(st, una) # st
        IN  /\ rcvNxt' = Wrap(taken.next + (IF fin THEN 1 ELSE 0))
            /\ reorder' = taken.buf /\ got' = taken.got
            /\ ackDue' = (ackDue \/ taken.next # rcvNxt \/ fin)
            /\ tcpState' = IF fin THEN AfterFin(st, una) ELSE st
            /\ UNCHANGED failed

process_rx(seg, ack) ==
    LET una == Acked(ack)
        st == AfterAck(una)
    IN  /\ Live /\ peer.up = "open"
        /\ UNCHANGED <<sndNxt, mss, isn, sent, lostAt, peer>>
        /\ sndUna' = una /\ misses' = 0
        /\ endedBy' = IF st = "Closed" THEN "acked" ELSE endedBy
        /\ IF st \in Receiving /\ seg.len > 0 /\ PeerSeq(seg.pos) # rcvNxt
           THEN OutOfOrder(seg, st)
           ELSE InOrder(seg, st, una)

\* A RST is taken if it lies in the receive window.
process_rx_rst(seq) ==
    /\ Live /\ MayRst
    /\ seq = rcvNxt \/ (seq_after(seq, rcvNxt) /\ ~seq_after(seq, Wrap(rcvNxt + Window)))
    /\ tcpState' = "Closed" /\ endedBy' = "rst" /\ misses' = 0
    /\ UNCHANGED <<sndNxt, sndUna, rcvNxt, reorder, ackDue, mss, failed, isn, got,
                   sent, lostAt, peer>>

-----------------------------------------------------------------------------
(* The peer and the network. *)

\* What the peer may have sent; one without data has its next number.
Segments ==
    {s \in [pos : 0..PeerBytes, len : 0..2, fin : BOOLEAN] :
        /\ s.pos + s.len <= peer.sent
        /\ s.len = 0 => s.pos = peer.sent
        /\ s.fin => peer.fin /\ s.pos + s.len = PeerBytes}

\* It writes byte by byte, then closes.
PeerSends ==
    /\ peer.up = "open"
    /\ \/ peer.sent < PeerBytes /\ peer' = [peer EXCEPT !.sent = @ + 1]
       \/ peer.sent = PeerBytes /\ ~peer.fin /\ peer' = [peer EXCEPT !.fin = TRUE]
    /\ UNCHANGED <<tcpState, sndNxt, sndUna, rcvNxt, reorder, ackDue, mss, misses, failed,
                   history>>

PeerReceives ==
    /\ peer.up = "open" /\ peer.rcv < Min({sent, lostAt})
    /\ peer' = [peer EXCEPT !.rcv = @ + 1]
    /\ UNCHANGED <<tcpState, sndNxt, sndUna, rcvNxt, reorder, ackDue, mss, misses, failed,
                   history>>

PeerDies ==
    /\ peer.up # "dead" /\ peer' = [peer EXCEPT !.up = "dead"]
    /\ UNCHANGED <<tcpState, sndNxt, sndUna, rcvNxt, reorder, ackDue, mss, misses, failed,
                   history>>

Receive == Live /\ \E s \in Segments, a \in 0..peer.rcv : process_rx(s, OurSeq(a))

\* The peer sends again from the first position not acknowledged to it.
Resent ==
    LET len == Min({2, peer.sent - peer.una})
    IN  [pos |-> peer.una, len |-> len, fin |-> peer.fin /\ peer.una + len = PeerBytes]
PeerRetransmits == Live /\ peer.una <= PeerBytes /\ process_rx(Resent, OurSeq(peer.rcv))

UTNext ==
    \/ begin_connect \/ maybe_retransmit_syn \/ HandshakeSynAck \/ HandshakeEnds
    \/ \E n \in 1..MaxMss : send(n) \/ build_data_packet(n)
    \/ \E n1, n2 \in 1..MaxMss : send_batch(n1, n2)
    \/ flush_pending_ack \/ tick_keepalive \/ close \/ reset \/ on_icmp_frag_needed
    \/ Receive \/ \E off \in {0, Window, Window + 1} : process_rx_rst(Wrap(rcvNxt + off))
    \/ PeerSends \/ PeerReceives \/ PeerDies

\* The Poller's turns: each calls flush_pending_ack and tick_keepalive and
\* takes what has arrived.  The peer retransmits.
UTFairness ==
    /\ WF_UTvars(flush_pending_ack /\ ~ackDue') /\ WF_UTvars(tick_keepalive)
    /\ WF_UTvars(PeerSends) /\ WF_UTvars(PeerRetransmits)

UTSpec == UTInit /\ [][UTNext]_UTvars /\ UTFairness

-----------------------------------------------------------------------------
(* Properties. *)

UTTypeOK ==
    /\ tcpState \in TcpStates /\ {sndNxt, sndUna, rcvNxt, isn} \subseteq 0..(SeqSpace - 1)
    /\ Len(reorder) <= ReorderSlots
    /\ \A i \in DOMAIN reorder : reorder[i] \in [seq : 0..(SeqSpace - 1), pos : 0..PeerBytes, len : 1..2]
    /\ ackDue \in BOOLEAN /\ mss \in 1..MaxMss /\ misses \in 0..Probes /\ failed \in BOOLEAN
    /\ sent \in 0..(OurBytes + 1) /\ peer \in PeerStates

\* The data callback sees the peer's bytes in order, each once, whatever the
\* network repeats, reorders or cuts anew, across the wrap of the sequence
\* numbers and across connections.
DeliveredInOrder ==
    /\ got = Positions(0, Len(got)) /\ Len(got) <= peer.sent
    /\ tcpState \notin {"Closed", "SynSent"} => RcvPos - Len(got) \in {0, 1}

\* snd_una_ never passes what the peer has received, and an ACK never passes
\* what was delivered.
AcksAreTrue ==
    /\ tcpState \notin {"Closed", "SynSent"} => UnaPos <= peer.rcv /\ peer.una <= RcvPos
    /\ peer.rcv <= sent

\* The closing states say what happened: the peer's FIN was reached after all
\* of its data, and ours was acknowledged.
CloseStatesTrue ==
    /\ tcpState \in {"CloseWait", "Closing", "LastAck", "TimeWait"} =>
          Len(got) = PeerBytes /\ peer.fin /\ RcvPos = PeerBytes + 1
    /\ tcpState \in {"FinWait2", "TimeWait"} \/ endedBy = "acked" => peer.rcv = sent

\* While the connection lasts, the peer lives and no segment of ours is lost,
\* everything the peer sends is delivered.
AllDelivered ==
    (tcpState = "Established" /\ peer.up = "open")
        ~> (Len(got) = PeerBytes \/ ~Live \/ peer.up = "dead" \/ lostAt # NotLost)

\* "Automatically sends ACKs": the peer learns that its data was received.
PeerLearns ==
    (tcpState = "Established" /\ peer.sent = PeerBytes /\ Len(got) = PeerBytes)
        ~> (peer.una >= PeerBytes \/ tcpState # "Established" \/ failed \/ peer.up = "dead")

\* With keepalive on, a connection whose peer is gone does not stay up.
DeadPeerNoticed ==
    Keepalive => ((tcpState = "Established" /\ peer.up = "dead") ~> tcpState # "Established" \/ failed)

\* The session agrees with its peer on what was received, acknowledged and
\* closed, whatever the network did.
TransferTrue ==
    /\ UTTypeOK /\ DeliveredInOrder /\ AcksAreTrue /\ CloseStatesTrue

\* What the peer keeps sending is delivered, and a peer that vanished is
\* noticed.
TransferEnds ==
    /\ AllDelivered /\ DeadPeerNoticed
============================================================================
