------------------------------- MODULE MCData -------------------------------
(***************************************************************************)
(* What turns bytes into messages and books, and the tables the processes  *)
(* of a NIC keep together, each by itself: the WebSocket codec, the        *)
(* MoldUDP64 feed, the stream framers, order books; the pool of queues,    *)
(* the registry of processes, the directory of ICMP targets and the flow   *)
(* rules.  They share no state; subject says which of them a behaviour is  *)
(* of.                                                                     *)
(***************************************************************************)
EXTENDS WsCodec, Framing, Books,
        QueueAllocator, MpRegistry, IcmpDirectory, FlowAttach

CONSTANTS a, b, c

VARIABLE subject

\* b and c ask for the same slot, a and b for a common lcore.
MCIndex(p) == CASE p = primary -> 0 [] p = a -> 1 [] OTHER -> 2
MCMask(p) == CASE p = primary -> {0} [] p = a -> {1} [] p = b -> {1, 2} [] OTHER -> {3}

\* Two targets of different processes for one tuple, and one for another.
MCTargets == {"s1", "s2", "s3"}
MCProcOf(t) == IF t = "s1" THEN a ELSE b
MCTupleOfTarget(t) == IF t = "s3" THEN "T2" ELSE "T1"
MCIsTcp(conn) == conn = "t1"

Is(s) == subject = s
codecs == <<WSvars, MDvars, FRvars>>
tables == <<allocVars, MPvars, ICvars, FAvars>>
vars == <<subject, codecs, bkvars, tables>>

Subjects == {"ws", "mold", "framing", "book",
             "pool", "procs", "icmp", "flow"}

\* The other subjects rest in one of their initial states.
Init ==
    /\ subject \in Subjects
    /\ IF Is("ws") THEN WSInit ELSE WSInit /\ deflate /\ no_takeover
    /\ IF Is("framing") THEN FRInit ELSE FRInit /\ flayout = FixFramer
    /\ IF Is("book") THEN BKInit ELSE BKInit /\ feed = "direct"
    /\ IF Is("flow") THEN FAInit ELSE FAInit /\ dispatch = "Software"
    /\ MDInit /\ AllocInit /\ MPInit /\ ICInit

Next ==
    /\ UNCHANGED subject
    /\ \/ Is("ws") /\ WSNext /\ UNCHANGED <<MDvars, FRvars, bkvars, tables>>
       \/ Is("mold") /\ MDNext /\ UNCHANGED <<WSvars, FRvars, bkvars, tables>>
       \/ Is("framing") /\ FRNext /\ UNCHANGED <<WSvars, MDvars, bkvars, tables>>
       \/ Is("book") /\ BKNext /\ UNCHANGED <<codecs, tables>>
       \/ Is("pool") /\ AllocNext /\ UNCHANGED <<codecs, bkvars, MPvars, ICvars, FAvars>>
       \/ Is("procs") /\ MPNext /\ UNCHANGED <<codecs, bkvars, allocVars, ICvars, FAvars>>
       \/ Is("icmp") /\ ICNext /\ UNCHANGED <<codecs, bkvars, allocVars, MPvars, FAvars>>
       \/ Is("flow") /\ FANext /\ UNCHANGED <<codecs, bkvars, allocVars, MPvars, ICvars>>

Spec == Init /\ [][Next]_vars
=============================================================================
