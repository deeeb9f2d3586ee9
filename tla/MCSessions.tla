----------------------------- MODULE MCSessions -----------------------------
(***************************************************************************)
(* What keeps a session to an exchange alive: the FIX session, the         *)
(* reconnect orchestrator, the token bucket, the kill switch and the retry *)
(* loop, each by itself; subject says which of them a behaviour is of.     *)
(* A session's numbers run up to 4 for the 32-bit range, so three messages *)
(* exhaust it, over two logons: what a session leaves behind meets the     *)
(* next one.                                                               *)
(***************************************************************************)
EXTENDS FixSession, Reconnect, Governors

VARIABLE subject

Is(s) == subject = s
vars == <<subject, FSvars, ROvars, GOvars>>

Init ==
    /\ subject \in {"fix", "reconnect", "bucket", "killswitch", "retry"}
    /\ FSInit /\ ROInit /\ GOInit

Next ==
    /\ UNCHANGED subject
    /\ \/ Is("fix") /\ FSNext /\ UNCHANGED <<ROvars, GOvars>>
       \/ Is("reconnect") /\ RONext /\ UNCHANGED <<FSvars, GOvars>>
       \/ Is("bucket") /\ BucketNext /\ UNCHANGED <<FSvars, ROvars>>
       \/ Is("killswitch") /\ KillNext /\ UNCHANGED <<FSvars, ROvars>>
       \/ Is("retry") /\ RetryNext /\ UNCHANGED <<FSvars, ROvars>>

\* FSFairness and ROFairness, each for the behaviours of its own subject.
Fairness ==
    /\ WF_FSvars(Is("fix") /\ TxStep) /\ WF_FSvars(Is("fix") /\ RxStep)
    /\ SF_FSvars(Is("fix") /\ TickCall) /\ SF_FSvars(Is("fix") /\ Elapse)
    /\ \A th \in Threads : SF_FSvars(Is("fix") /\ Transmitted(th))
    /\ WF_ROvars(Is("reconnect") /\ ROStep) /\ WF_ROvars(Is("reconnect") /\ CallTick)
    /\ WF_ROvars(Is("reconnect") /\ TimePasses) /\ WF_ROvars(Is("reconnect") /\ HandshakeEnds)

Spec == Init /\ [][Next]_vars /\ Fairness
=============================================================================
