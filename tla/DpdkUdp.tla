------------------------------ MODULE DpdkUdp -------------------------------
(***************************************************************************)
(* Datagrams over the NIC: the socket, the multicast receiver and the      *)
(* sender, each with its own part of the state.                            *)
(***************************************************************************)
EXTENDS Integers, Sequences, FiniteSets, SequencesExt, FiniteSetsExt

-----------------------------------------------------------------------------
(***************************************************************************)
(* eph::net::dpdk::DpdkUdpSocket: the multicast list each socket keeps and *)
(* writes over the port's filter, connect_to, the datagrams handed to      *)
(* on_datagram, and send_to with its report of a dead daemon.              *)
(***************************************************************************)

CONSTANTS Sockets, Groups, MacOf(_),  \* the 23 low bits: groups may share one
          kMaxMulticastGroups,
          Peers, WirePeer             \* the senders, and the one in the configuration

ASSUME UdpSocketAssumption == kMaxMulticastGroups \in Nat

VARIABLES
    macs,        \* mcast_macs_[0 .. mcast_count_) of each socket
    filter,      \* external: the port's multicast list
    lastApply,   \* history: the socket whose list the port took last
    up,          \* the socket exists and is on a poller
    connected,   \* connected_
    alive,       \* platform_->is_alive()
    heard,       \* history: senders of what on_datagram was given since connect_to
    last         \* history: [burst, said] of the latest send_to

DUvars == <<macs, filter, lastApply, up, connected, alive, heard, last>>
nicState == <<macs, filter, lastApply>>

NoSend == [burst |-> FALSE, said |-> "none"]
DUInit ==
    /\ macs = [s \in Sockets |-> << >>] /\ filter = << >> /\ lastApply = {} /\ up = Sockets
    /\ connected = {} /\ alive = TRUE /\ heard = [s \in Sockets |-> {}] /\ last = NoSend

\* rte_eth_dev_set_mc_addr_list: the list replaces the port's, or nothing happens.
apply_mcast_list(s, list) == filter' = list /\ lastApply' = {s} /\ macs' = [macs EXCEPT ![s] = list]

RollBack(s, list) == UNCHANGED nicState

Apply(s, list) == apply_mcast_list(s, list) \/ RollBack(s, list)

join_multicast(s, g) ==
    /\ s \in up /\ Len(macs[s]) < kMaxMulticastGroups
    /\ MacOf(g) \notin ToSet(macs[s])
    /\ Apply(s, Append(macs[s], MacOf(g)))
    /\ UNCHANGED <<up, connected, alive, heard, last>>

leave_multicast(s, g) ==
    /\ s \in up
    /\ \E i \in DOMAIN macs[s] : macs[s][i] = MacOf(g) /\ Apply(s, RemoveAt(macs[s], i))
    /\ UNCHANGED <<up, connected, alive, heard, last>>

\* The destructor leaves its poller and, if it joined a group, empties the filter.
destroy_socket(s) ==
    /\ s \in up /\ up' = up \ {s} /\ connected' = connected \ {s}
    /\ heard' = [heard EXCEPT ![s] = {}]
    /\ IF macs[s] = << >> THEN UNCHANGED nicState
       ELSE /\ macs' = [macs EXCEPT ![s] = << >>]
            /\ \/ filter' = << >> /\ lastApply' = {s}
               \/ UNCHANGED <<filter, lastApply>>
    /\ UNCHANGED <<alive, last>>

\* Any peer but the configured one is refused.
connect_to(s, p) ==
    /\ s \in up /\ p = WirePeer /\ connected' = connected \cup {s}
    /\ heard' = [heard EXCEPT ![s] = {}]
    /\ UNCHANGED <<nicState, up, alive, last>>

FromPeer(s, p) == s \in connected => p = WirePeer

SendReport(burst, before, after) ==
    IF ~before THEN "Unsent"
    ELSE IF ~after THEN (IF burst THEN "Sent" ELSE "Unsent")
    ELSE IF burst THEN "ok" ELSE "BufferFull"

send_to(s, p) ==
    /\ s \in up
    /\ IF p # WirePeer THEN last' = [NoSend EXCEPT !.said = "InvalidConfig"] /\ UNCHANGED alive
       ELSE \E b, a \in BOOLEAN :
                /\ b => alive
                /\ a => alive
                /\ alive' = a
                /\ last' = [burst |-> b, said |-> SendReport(b, alive, a)]
    /\ UNCHANGED <<nicState, up, connected, heard>>

\* A packet the poller routed here: bad checksums and fragments are dropped, an
\* answer of the codec goes back through send_to.
process_burst_udp(s, p) ==
    /\ s \in up /\ alive
    /\ \/ UNCHANGED heard
       \/ FromPeer(s, p) /\ heard' = [heard EXCEPT ![s] = @ \cup {p}]
    /\ UNCHANGED <<nicState, up, connected, alive, last>>

DaemonGone == alive /\ alive' = FALSE /\ UNCHANGED <<nicState, up, connected, heard, last>>

DUNext ==
    \/ DaemonGone
    \/ \E s \in Sockets :
        \/ destroy_socket(s)
        \/ \E g \in Groups : join_multicast(s, g) \/ leave_multicast(s, g)
        \/ \E p \in Peers : connect_to(s, p) \/ send_to(s, p) \/ process_burst_udp(s, p)

DUSpec == DUInit /\ [][DUNext]_DUvars

DUTypeOK ==
    /\ \A s \in Sockets : /\ Len(macs[s]) <= kMaxMulticastGroups
                          /\ Cardinality(ToSet(macs[s])) = Len(macs[s])
    /\ connected \subseteq up /\ up \subseteq Sockets /\ alive \in BOOLEAN

\* The port's filter is the list of the living socket that wrote it last, also
\* when the port refused a list in between.
FilterIsLastList == \A s \in lastApply : s \in up => filter = macs[s]

\* A connected socket hands its application datagrams of its peer alone.
OnlyPeerHeard == \A s \in connected : heard[s] \subseteq {WirePeer}

\* A datagram reported Unsent is not on the wire and one reported Sent is.
UdpReportTrue == /\ last.said = "Unsent" => ~last.burst
                 /\ last.said \in {"Sent", "ok"} => last.burst

-----------------------------------------------------------------------------
(***************************************************************************)
(* eph::dpdk::MulticastReceiver: group slots and the port's filter before  *)
(* start(), the receive thread that matches packets to groups after it.    *)
(* A group is [dst, src]: its address and port, and the source it accepts. *)
(***************************************************************************)

CONSTANTS Dsts, Srcs, AnySource, MacOfDst(_), MaxGroups, MaxPackets

ASSUME MulticastAssumption == MaxGroups \in Nat /\ MaxPackets \in Nat

MGroups == [dst : Dsts, src : Srcs \cup {AnySource}]
Free == [active |-> FALSE, group |-> CHOOSE g \in MGroups : TRUE, rx |-> 0]

VARIABLES
    slots,       \* groups_[0 .. group_count_)
    macList,     \* external: the port's multicast list, as a set
    running,     \* running_
    thread,      \* "none", "loop", "ended"
    counters,    \* [total, unmatched, ssm]
    offered,     \* history: packets process_packet saw past the parse
    missed       \* history: a packet a joined group accepts was not delivered

MRvars == <<slots, macList, running, thread, counters, offered, missed>>
MRtraffic == <<running, thread, counters, offered, missed>>

MRInit == /\ slots = << >> /\ macList = {} /\ running = FALSE /\ thread = "none"
          /\ counters = [total |-> 0, unmatched |-> 0, ssm |-> 0] /\ offered = 0 /\ missed = FALSE

Active(ss) == {i \in DOMAIN ss : ss[i].active}
Joined(ss) == {ss[i].group : i \in Active(ss)}

\* apply_mc_addr_list: the addresses of the active groups, each once.
MacsOf(ss) == {MacOfDst(g.dst) : g \in Joined(ss)}

\* Mutant: leaving a group takes its address off although another group has it.
LeaveMac(ss, left) == MacsOf(ss) \ {MacOfDst(left.dst)}

ListAfterLeave(ss, left) == MacsOf(ss)

\* The owner's calls: stop() returns when the thread has ended.
Stopped == ~running /\ thread = "none"

\* The first inactive slot, or a new one at the end.
SlotFor == IF Active(slots) = DOMAIN slots THEN Len(slots) + 1
           ELSE CHOOSE i \in DOMAIN slots \ Active(slots) : \A j \in DOMAIN slots \ Active(slots) : i <= j

\* A list the port refuses leaves the slot inactive, its group overwritten.
join_group(g) ==
    LET i == SlotFor
        e == [active |-> TRUE, group |-> g, rx |-> 0]
        taken == IF i \in DOMAIN slots THEN [slots EXCEPT ![i] = e] ELSE Append(slots, e)
    IN  /\ Stopped /\ g \notin Joined(slots) /\ i <= MaxGroups
        /\ \/ slots' = taken /\ macList' = MacsOf(taken)
           \/ /\ slots' = IF i \in DOMAIN slots THEN [taken EXCEPT ![i].active = FALSE] ELSE slots
              /\ UNCHANGED macList
        /\ UNCHANGED MRtraffic

leave_group(i) ==
    /\ Stopped /\ i \in Active(slots)
    /\ \/ LET left == [slots EXCEPT ![i].active = FALSE]
          IN  slots' = left /\ macList' = ListAfterLeave(left, slots[i].group)
       \/ UNCHANGED <<slots, macList>>         \* the port refused the list
    /\ UNCHANGED MRtraffic

start ==
    /\ Stopped /\ Active(slots) # {}
    /\ \/ running' = TRUE /\ thread' = "loop"
       \/ UNCHANGED <<running, thread>>       \* the thread could not be made
    /\ UNCHANGED <<slots, macList, counters, offered, missed>>

\* stop() clears the flag and joins the thread, which leaves its loop at the test.
stop == running /\ running' = FALSE /\ UNCHANGED <<slots, macList, thread, counters, offered, missed>>
LoopEnds ==
    /\ thread = "loop" /\ ~running /\ thread' = "none"
    /\ UNCHANGED <<slots, macList, running, counters, offered, missed>>

\* Slots that name the packet's destination; the first decides.
Matching(d) == {i \in Active(slots) : slots[i].group.dst = d}
FirstMatch(d) == CHOOSE i \in Matching(d) : \A j \in Matching(d) : i <= j
Accepts(g, s) == g.src \in {AnySource, s}

CountRejected(c) == [c EXCEPT !.ssm = @ + 1]

\* The rest of the burst is processed after stop() cleared the flag.
process_packet(d, s) ==
    /\ thread = "loop" /\ offered < MaxPackets /\ MacOfDst(d) \in macList
    /\ offered' = offered + 1
    /\ IF Matching(d) = {}
       THEN counters' = [counters EXCEPT !.unmatched = @ + 1] /\ UNCHANGED <<slots, missed>>
       ELSE LET i == FirstMatch(d)
            IN  IF Accepts(slots[i].group, s)
                THEN /\ counters' = [counters EXCEPT !.total = @ + 1]
                     /\ slots' = [slots EXCEPT ![i].rx = @ + 1] /\ UNCHANGED missed
                ELSE /\ counters' = CountRejected(counters) /\ UNCHANGED slots
                     /\ missed' = (missed \/ \E j \in Matching(d) : Accepts(slots[j].group, s))
    /\ UNCHANGED <<macList, running, thread>>

MRNext ==
    \/ \E g \in MGroups : join_group(g)
    \/ \E i \in 1..MaxGroups : leave_group(i)
    \/ start \/ stop \/ LoopEnds
    \/ \E d \in Dsts, s \in Srcs : process_packet(d, s)

MRSpec == MRInit /\ [][MRNext]_MRvars

MRTypeOK == /\ Len(slots) <= MaxGroups /\ {running, missed} \subseteq BOOLEAN
            /\ thread \in {"none", "loop"} /\ (running => thread = "loop")

\* Every joined group's address passes the port's filter, and no other does:
\* groups that share an address, and refused lists, included.
FilterIsGroups == macList = MacsOf(slots)

\* "The two together-with-matched account for every packet process_packet saw."
PacketsAccounted == counters.total + counters.unmatched + counters.ssm = offered

-----------------------------------------------------------------------------
(***************************************************************************)
(* eph::dpdk::UdpSender: single sends and batches, where a packet may not  *)
(* be built (no mbuf, payload too long) or not be taken by the NIC, and    *)
(* the counters an operator reads the difference from.                     *)
(***************************************************************************)

CONSTANTS kMaxBatchSize,
          MaxSegLen,      \* bound on payload lengths
          MaxRequests     \* bound on the payloads a caller hands over

ASSUME UdpSenderAssumption ==
    kMaxBatchSize \in Nat \ {0} /\ MaxSegLen \in Nat /\ MaxRequests \in Nat

VARIABLES tx_packets, tx_bytes, tx_errors,   \* UdpSenderStats
          umbufs,                            \* history: mbufs neither freed nor taken by the NIC
          urequested, uwirebytes             \* history: payloads handed over, bytes on the wire

USvars == <<tx_packets, tx_bytes, tx_errors, umbufs, urequested, uwirebytes>>

USInit == /\ tx_packets = 0 /\ tx_bytes = 0 /\ tx_errors = 0
          /\ umbufs = 0 /\ urequested = 0 /\ uwirebytes = 0

SumLens(s) == FoldSeq(LAMBDA x, acc : x + acc, 0, s)

\* send(): build, then hand to the NIC, which may not take it.
send_one(len, built, taken) ==
    /\ urequested < MaxRequests /\ urequested' = urequested + 1
    /\ taken => built
    /\ IF taken
       THEN /\ tx_packets' = tx_packets + 1 /\ tx_bytes' = tx_bytes + len
            /\ uwirebytes' = uwirebytes + len /\ UNCHANGED tx_errors
       ELSE tx_errors' = tx_errors + 1 /\ UNCHANGED <<tx_packets, tx_bytes, uwirebytes>>
    /\ UNCHANGED umbufs

Capped(segs) == SubSeq(segs, 1, IF Len(segs) > kMaxBatchSize THEN kMaxBatchSize ELSE Len(segs))
Dropped(segs) == Len(segs) - Len(Capped(segs))

\* The segments that were built, in order, with the lengths they have.
Built(segs, fails) == LET c == Capped(segs) IN [i \in 1..Cardinality(DOMAIN c \ fails) |->
                          c[CHOOSE j \in DOMAIN c \ fails : Cardinality({k \in DOMAIN c \ fails : k <= j}) = i]]

LensOfSent(segs, fails, sent) == SubSeq(Built(segs, fails), 1, sent)

Frees(built, sent) == built - sent

\* send_batch(): what exceeds a burst is dropped, what cannot be built is left out,
\* what the NIC does not take is freed; each counts as an error.
send_batch(segs, fails, sent) ==
    /\ urequested + Len(segs) <= MaxRequests /\ urequested' = urequested + Len(segs)
    /\ LET built == Len(Built(segs, fails))
       IN  /\ sent <= built
           /\ tx_packets' = tx_packets + sent
           /\ tx_errors' = tx_errors + Dropped(segs) + Cardinality(fails \cap DOMAIN Capped(segs)) + (built - sent)
           /\ tx_bytes' = tx_bytes + SumLens(LensOfSent(segs, fails, sent))
           /\ uwirebytes' = uwirebytes + SumLens(SubSeq(Built(segs, fails), 1, sent))
           /\ umbufs' = umbufs + built - sent - Frees(built, sent)

Batches == UNION {[1..n -> 1..MaxSegLen] : n \in 1..(kMaxBatchSize + 1)}

USNext ==
    \/ \E len \in 1..MaxSegLen, b \in BOOLEAN, t \in BOOLEAN : send_one(len, b, t)
    \/ \E segs \in Batches, fails \in SUBSET (1..kMaxBatchSize), sent \in 0..kMaxBatchSize :
         send_batch(segs, fails, sent)

USSpec == USInit /\ [][USNext]_USvars
-----------------------------------------------------------------------------
\* Every payload handed over was sent or is an error, so that the operator can tell
\* back-pressure of the NIC from losses before it; no mbuf stays behind.
RequestsAccounted == tx_packets + tx_errors = urequested /\ umbufs = 0

\* tx_bytes counts the bytes that went out, also when segments in the middle of a
\* batch could not be built.
BytesMatchWire == tx_bytes = uwirebytes

\* The port's filter follows the groups, and every datagram in or out is
\* counted and reported once, as what it was.
DatagramsAccounted ==
    /\ DUTypeOK /\ FilterIsLastList /\ OnlyPeerHeard /\ UdpReportTrue
    /\ MRTypeOK /\ FilterIsGroups /\ PacketsAccounted /\ RequestsAccounted
    /\ BytesMatchWire
=============================================================================
