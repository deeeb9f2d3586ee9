------------------------------ MODULE MCKernel ------------------------------
(***************************************************************************)
(* Connections over the kernel, each part by itself: the TCP stream, the   *)
(* poller and the UDP socket, the TLS record layer and its handover, the   *)
(* HTTP exchanges.  They share no state; subject says which of them a      *)
(* behaviour is of.                                                        *)
(***************************************************************************)
EXTENDS KernelStream, KernelSockets, TlsRecords, TlsHandover, HttpExchange

VARIABLE subject

Is(s) == subject = s
sockets == <<KSvars, KPvars, KUvars>>
above == <<tvars, hvars, qvars>>
vars == <<subject, sockets, above>>

Init ==
    /\ subject \in {"stream", "poller", "udp", "records", "handover", "http"}
    /\ KSInit /\ KPInit /\ KUInit
    /\ ~Is("stream") => mode = [tls |-> FALSE, ws |-> FALSE, proxy |-> FALSE, sink |-> TRUE]
    /\ IF Is("records") THEN TRInit ELSE TRInit /\ tfmt = "Tls13"
    /\ IF Is("handover") THEN HOInit
       ELSE HOInit /\ hcfg = [blocking |-> TRUE, tls13 |-> TRUE, cipher |-> "aes_gcm", pin |-> "none"]
    /\ QInit /\ (~Is("http") => qkind = "client")

Next ==
    /\ UNCHANGED subject
    /\ \/ Is("stream") /\ KSNext /\ UNCHANGED <<KPvars, KUvars, above>>
       \/ Is("poller") /\ KPNext /\ UNCHANGED <<KSvars, KUvars, above>>
       \/ Is("udp") /\ KUNext /\ UNCHANGED <<KSvars, KPvars, above>>
       \/ Is("records") /\ TRNext /\ UNCHANGED <<sockets, hvars, qvars>>
       \/ Is("handover") /\ HONext /\ UNCHANGED <<sockets, tvars, qvars>>
       \/ Is("http") /\ QNext /\ UNCHANGED <<sockets, tvars, hvars>>

\* KSFairness, for the behaviours of the stream.
Fairness ==
    /\ WF_KSvars(Is("stream") /\ PollHandshake) /\ WF_KSvars(Is("stream") /\ poll_once)
    /\ WF_KSvars(Is("stream") /\ drain_codec) /\ WF_KSvars(Is("stream") /\ ConnectResolves)
    /\ WF_KSvars(Is("stream") /\ Expire)

Spec == Init /\ [][Next]_vars /\ Fairness
=============================================================================
