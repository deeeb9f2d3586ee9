------------------------------- MODULE MCDpdk -------------------------------
(***************************************************************************)
(* The user-space network path, each part by itself: the TCP stream, the   *)
(* poller, the datagram sockets, the multicast receiver, the resolvers,    *)
(* DNS names, the packets on the wire and the batches they are sent in;    *)
(* and the histogram and the recorders that keep the latencies.            *)
(* They share no state; subject says which of them a behaviour is of.      *)
(***************************************************************************)
EXTENDS DpdkStream, DpdkPoller, DpdkUdp, Resolvers, PacketWire, Measurements

CONSTANTS tcp1, tcp2, udp1, g1, g2, g3
VARIABLE subject

\* A udp tuple meets a tcp tuple in a slot, and the next slot is another's.
MCHash(p, k) == IF k = "udp" THEN 1 ELSE p - 1
MCProto(o) == IF o = udp1 THEN "udp" ELSE "tcp"
MCMacOfDst(d) == IF d = 3 THEN "m2" ELSE "m1"
MCMac(g) == IF g = g3 THEN "m2" ELSE "m1"

Is(s) == subject = s
netvars == <<DPvars, DUvars, MRvars>>
packets == <<DNvars, PWvars, USvars>>
measures == <<HGvars, RCvars>>
vars == <<subject, DSvars, netvars, RSvars, packets, measures>>

Init ==
    /\ subject \in {"stream", "poller", "udp", "mcast", "resolver",
                    "dns", "packet", "sender", "histogram", "recorder"}
    /\ IF Is("stream") THEN DSInit ELSE DSInit /\ mode = [tls |-> FALSE, ws |-> FALSE]
    /\ DPInit /\ DUInit /\ MRInit
    /\ IF Is("resolver") THEN RSInit ELSE RSInit /\ rkind = "async"
    /\ IF Is("dns") THEN DNInit
       ELSE nlabels = <<1>> /\ nmsg = encode_qname(nlabels) /\ noff = 0 /\ nend = -1
    /\ IF Is("packet") THEN PWInit
       ELSE pkind = "udp" /\ pbuilt = 0 /\ frame = fill_udp(0) /\ parsed = NotYet
    /\ USInit /\ HGInit /\ RCInit

Next ==
    /\ UNCHANGED subject
    /\ \/ Is("stream") /\ DSNext /\ UNCHANGED <<netvars, RSvars, packets, measures>>
       \/ Is("poller") /\ DPNext /\ UNCHANGED <<DSvars, DUvars, MRvars, RSvars, packets, measures>>
       \/ Is("udp") /\ DUNext /\ UNCHANGED <<DSvars, DPvars, MRvars, RSvars, packets, measures>>
       \/ Is("mcast") /\ MRNext /\ UNCHANGED <<DSvars, DPvars, DUvars, RSvars, packets, measures>>
       \/ Is("resolver") /\ RSNext /\ UNCHANGED <<DSvars, netvars, packets, measures>>
       \/ Is("dns") /\ DNNext /\ UNCHANGED <<DSvars, netvars, RSvars, PWvars, USvars, measures>>
       \/ Is("packet") /\ PWNext /\ UNCHANGED <<DSvars, netvars, RSvars, DNvars, USvars, measures>>
       \/ Is("sender") /\ USNext /\ UNCHANGED <<DSvars, netvars, RSvars, DNvars, PWvars, measures>>
       \/ Is("histogram") /\ HGNext /\ UNCHANGED <<DSvars, netvars, RSvars, packets, RCvars>>
       \/ Is("recorder") /\ RCNext /\ UNCHANGED <<DSvars, netvars, RSvars, packets, HGvars>>

\* DSFairness and RSFairness, each for the behaviours of its own subject.
Fairness ==
    /\ WF_DSvars(Is("stream") /\ BlockingStep) /\ WF_DSvars(Is("stream") /\ Expire)
    /\ WF_DSvars(Is("stream") /\ PollHandshake) /\ WF_DSvars(Is("stream") /\ process_burst)
    /\ WF_RSvars(Is("resolver") /\ RSTick) /\ WF_RSvars(Is("resolver") /\ begin_poll)
    /\ WF_RSvars(Is("resolver") /\ \E o \in Outcomes : end_poll(o))
    /\ WF_RSvars(Is("resolver") /\ turn)

Spec == Init /\ [][Next]_vars /\ Fairness

\* A blocking connect returns and a resolution is decided, in their time,
\* whatever arrives or does not.
DpdkCallsEnd == BlockingEnds /\ QueryEnds
=============================================================================
