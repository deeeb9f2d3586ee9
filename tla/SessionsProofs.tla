--------------------------- MODULE SessionsProofs ---------------------------
(***************************************************************************)
(* What holds of the FIX session, for every range of MsgSeqNums, every     *)
(* configuration and any number of logons; of the token bucket, the kill   *)
(* switch and retry, for every capacity, rate and budget; of the           *)
(* reconnecting stream, for every policy and any nesting of callbacks; and *)
(* of the order path, for any number of orders, symbols and prices.        *)
(***************************************************************************)
EXTENDS FixSession, Reconnect, Governors, OrderFlow, WrapArithmetic, SequenceTheorems

-----------------------------------------------------------------------------
(* FixSession: the inductive invariant.                                    *)

TxLabels == {"idle", "claim", "transmit", "logon.set", "logon.wait", "logon.timeout",
             "logon.end", "logout.set", "logout.wait", "logout.timeout"}
RxLabels == {"idle", "claim", "transmit", "rx.type", "rx.active", "rx.down",
             "tick.check", "tick.pending", "tick.dead"}

MsgTypes == {"none", "Logon", "Logout", "App", "ResendRequest", "Heartbeat", "GapFill",
             "TestRequest"}
TxMsgs == [type : MsgTypes, seq : 0..MaxSeqNum,
           ok : {"idle", "logon.set", "logout.set"}, fail : {"idle"}]
RxMsgs == [type : MsgTypes, seq : 0..MaxSeqNum,
           ok : {"idle", "rx.type", "rx.down", "tick.check", "tick.pending"},
           fail : {"idle", "rx.type", "rx.down", "tick.check"}]

\* Where each thread may be, and what it may be sending.
Places ==
    /\ pc \in [Threads -> Labels] /\ pc["tx"] \in TxLabels /\ pc["rx"] \in RxLabels
    /\ msg \in [Threads -> TxMsgs \cup RxMsgs]
    /\ msg["tx"] \in TxMsgs /\ msg["rx"] \in RxMsgs
    /\ (msg["rx"].fail = "idle" \/ msg["rx"].fail = msg["rx"].ok)

\* The numbers below outbound_seq are the ones taken: those on the wire and
\* those of the messages being sent.
NumbersTaken ==
    /\ \A n \in sent : n < outbound_seq
    /\ \A th \in Threads : pc[th] = "transmit" =>
          msg[th].seq > 0 /\ msg[th].seq < outbound_seq

Sending(th, next) == pc[th] \in {"claim", "transmit"} /\ msg[th].ok = next

\* The poll thread is in on_rx, so that it has just heard from the counterparty.
InOnRx == \/ pc["rx"] \in {"rx.type", "rx.active", "rx.down"}
          \/ Sending("rx", "rx.type") \/ Sending("rx", "rx.down")
InTick == \/ pc["rx"] \in {"tick.check", "tick.pending", "tick.dead"}
          \/ Sending("rx", "tick.check") \/ Sending("rx", "tick.pending")

\* logon() has been called and has not yet set its state.
LoggingOn == Sending("tx", "logon.set") \/ pc["tx"] = "logon.set"
Awaiting == pc["tx"] \in {"logon.wait", "logon.timeout", "logon.end"}

\* A TestRequest is on record as pending only after it went out.
ProbesTrue ==
    /\ Sending("rx", "tick.pending") => msg["rx"].type = "TestRequest"
    /\ pc["rx"] = "tick.pending" => probed
    /\ told = "in" /\ test_request_pending => probed

\* The poll thread hears of nothing stale while logon() is under way: it has no
\* tick to finish, and an answer has just come when the state has changed.
LogonQuiet ==
    /\ InOnRx => silence = 0
    /\ LoggingOn => state = "Disconnected" /\ ~InTick
    /\ Awaiting /\ state = "LogonSent" => ~InTick /\ pc["tx"] # "logon.end"
    /\ Awaiting /\ state # "LogonSent" => silence = 0 /\ pc["rx"] # "tick.dead"

\* The poll thread makes a session active only in a logon() that waits for it,
\* or has just given up; no other step of a session that is down does.
ActiveOnlyByLogon ==
    /\ state = "LogonSent" => pc["tx"] \in {"logon.wait", "logon.timeout"}
    /\ pc["rx"] = "rx.active" =>
          \/ state = "LogonSent" /\ pc["tx"] \in {"logon.wait", "logon.timeout"}
          \/ state = "Disconnected" /\ pc["tx"] = "idle" /\ told = "error"
    /\ pc["tx"] \in {"logout.wait", "logout.timeout"} => state \in {"LogoutSent", "Disconnected"}
    /\ told = "out" => pc["tx"] = "idle"

FSInv ==
    /\ FSTypeOK /\ Places /\ NumbersTaken /\ UniqueSeqNums /\ GapsAccounted
    /\ ProbesTrue /\ LogonQuiet /\ ActiveOnlyByLogon /\ NoFalseDeath /\ LogoutMeansDown

-----------------------------------------------------------------------------

\* What on_rx keeps of an inbound message is one, and its numbers are in range.
LEMMA InboundKept ==
    ASSUME NEW m \in Inbound
    PROVE  /\ [m EXCEPT !.seq = 0, !.dup = FALSE] \in Inbound
           /\ m.seq \in 0..MaxSeqNum /\ m.dup \in BOOLEAN
           /\ m.type = "SequenceReset" => m.new \in SeqNums
<1> DEFINE r == [m EXCEPT !.seq = 0, !.dup = FALSE]
<1> 0 \in 0..MaxSeqNum /\ FALSE \in BOOLEAN
    BY MaxSeqNumAssumption
<1>1. CASE m \in [type : Plain, seq : 0..MaxSeqNum, dup : BOOLEAN, gapFill : {FALSE}, new : {0}]
  <2>1. r \in [type : Plain, seq : 0..MaxSeqNum, dup : BOOLEAN, gapFill : {FALSE}, new : {0}]
      BY <1>1
  <2>2. m.type # "SequenceReset" /\ m.seq \in 0..MaxSeqNum /\ m.dup \in BOOLEAN
      BY <1>1 DEF Plain
  <2> QED
      BY <2>1, <2>2 DEF Inbound
<1>2. CASE m \in [type : {"SequenceReset"}, seq : 0..MaxSeqNum, dup : BOOLEAN,
                   gapFill : BOOLEAN, new : SeqNums]
  <2>1. r \in [type : {"SequenceReset"}, seq : 0..MaxSeqNum, dup : BOOLEAN,
                gapFill : BOOLEAN, new : SeqNums]
      BY <1>2
  <2>2. m.new \in SeqNums /\ m.seq \in 0..MaxSeqNum /\ m.dup \in BOOLEAN
      BY <1>2
  <2> QED
      BY <2>1, <2>2 DEF Inbound
<1> QED
    BY <1>1, <1>2 DEF Inbound

LEMMA NoInboundKept == NoInbound \in Inbound
BY MaxSeqNumAssumption DEF NoInbound, Inbound, Plain

\* The message on_rx handles is an inbound message.
LEMMA RmsgTyped == rmsg \in Inbound /\ [FSNext]_FSvars => rmsg' \in Inbound
BY InboundKept, NoInboundKept
   DEF FSNext, TxStep, TxCall, RxStep, SendStep, FSvars, Claim, Transmitted, NotTransmitted,
       LogonSet, LogonWait, LogonTimeout, LogonEnd, LogoutSet, LogoutWait, LogoutTimeout,
       LogonCall, LogoutCall, SendApp, Reset, BecomeActive, GoDown, HandleLogon,
       HandleLogout, HandleHeartbeat, HandleTestRequest, HandleSequenceReset,
       HandleResendRequest, HandleApp, TickCheck, TickPending, TickDead, TickCall, OnRx,
       Elapse, ServerStops, SetState, Returned

\* Initially the session is down and neither thread does anything.
LEMMA FSInitInv == FSInit => FSInv
<1> SUFFICES ASSUME FSInit PROVE FSInv
    OBVIOUS
<1> USE MaxSeqNumAssumption, MaxLogonsAssumption
    DEF FSInit, Threads, Labels, TxLabels, RxLabels, States, SeqNums, TxMsgs, RxMsgs,
        MsgTypes, NoMsg, Outbound, At
<1>1. sent \subseteq SeqNums /\ missed \subseteq SeqNums
    BY Zenon
<1>2. /\ test_request_pending \in BOOLEAN /\ connected \in BOOLEAN
      /\ serverUp \in BOOLEAN /\ probed \in BOOLEAN
    BY Zenon
<1>3. FSTypeOK /\ Places
    BY <1>1, <1>2, NoInboundKept DEF FSTypeOK, Places
<1>4. NumbersTaken /\ UniqueSeqNums /\ GapsAccounted
    BY DEF NumbersTaken, UniqueSeqNums, GapsAccounted
<1>5. ProbesTrue /\ LogonQuiet /\ ActiveOnlyByLogon /\ NoFalseDeath /\ LogoutMeansDown
    BY DEF ProbesTrue, LogonQuiet, ActiveOnlyByLogon, NoFalseDeath, LogoutMeansDown,
           Sending, InOnRx, InTick, LoggingOn, Awaiting
<1> QED
    BY <1>3, <1>4, <1>5 DEF FSInv

LEMMA FSNextInv == FSInv /\ [FSNext]_FSvars => FSInv'
<1> SUFFICES ASSUME FSInv, [FSNext]_FSvars PROVE FSInv'
    OBVIOUS
<1> rmsg' \in Inbound
    BY RmsgTyped DEF FSInv, FSTypeOK
<1> USE MaxSeqNumAssumption, MaxLogonsAssumption, ConfigAssumption
    DEF FSInv, FSTypeOK, Places, NumbersTaken, UniqueSeqNums, GapsAccounted,
        ProbesTrue, LogonQuiet, ActiveOnlyByLogon, NoFalseDeath, LogoutMeansDown,
        Threads, Labels, TxLabels, RxLabels, States, SeqNums, TxMsgs, RxMsgs, MsgTypes,
        NoMsg, Outbound, At, Goto, Sending, InOnRx, InTick, LoggingOn, Awaiting,
        session, history, BeginSend, SetState, Returned, Elsewhere, Handling
<1>1. CASE UNCHANGED FSvars
    BY <1>1 DEF FSvars
<1>2. CASE Claim("tx")
    BY <1>2 DEF Claim
<1>3. CASE Transmitted("tx")
  <2>1. FSTypeOK'
    <3>1. probed' \in BOOLEAN /\ connected' \in BOOLEAN
        BY <1>3, Zenon DEF Transmitted
    <3>2. msg["tx"].seq \in SeqNums
        BY <1>3 DEF Transmitted
    <3>3. sent' = sent \cup {msg["tx"].seq} /\ sent \subseteq SeqNums
        BY <1>3, Zenon DEF Transmitted
    <3>4. sent' \subseteq SeqNums
        <4> HIDE DEF SeqNums
        <4> QED BY <3>2, <3>3, Zenon
    <3> QED
        BY <1>3, <3>1, <3>4 DEF Transmitted
  <2>2. Places'
      BY <1>3 DEF Transmitted
  <2>3. NumbersTaken'
      BY <1>3 DEF Transmitted
  <2>4. UniqueSeqNums'
      BY <1>3 DEF Transmitted
  <2>5. GapsAccounted'
      BY <1>3 DEF Transmitted
  <2>6. ProbesTrue'
      BY <1>3 DEF Transmitted
  <2>7. LogonQuiet'
      BY <1>3 DEF Transmitted
  <2>8. ActiveOnlyByLogon'
      BY <1>3 DEF Transmitted
  <2>9. NoFalseDeath'
      BY <1>3 DEF Transmitted
  <2>10. LogoutMeansDown'
      BY <1>3 DEF Transmitted
  <2> QED
      BY <2>1, <2>2, <2>3, <2>4, <2>5, <2>6, <2>7, <2>8, <2>9, <2>10
<1>4. CASE NotTransmitted("tx")
    BY <1>4 DEF NotTransmitted
<1>5. CASE Claim("rx")
  <2>1. FSTypeOK'
      BY <1>5 DEF Claim
  <2>2. Places'
      BY <1>5 DEF Claim
  <2>3. NumbersTaken'
      BY <1>5 DEF Claim
  <2>4. UniqueSeqNums'
      BY <1>5 DEF Claim
  <2>5. GapsAccounted'
      BY <1>5 DEF Claim
  <2>6. ProbesTrue'
      BY <1>5 DEF Claim
  <2>7. LogonQuiet'
      BY <1>5 DEF Claim
  <2>8. ActiveOnlyByLogon'
      BY <1>5 DEF Claim
  <2>9. NoFalseDeath'
      BY <1>5 DEF Claim
  <2>10. LogoutMeansDown'
      BY <1>5 DEF Claim
  <2> QED
      BY <2>1, <2>2, <2>3, <2>4, <2>5, <2>6, <2>7, <2>8, <2>9, <2>10
<1>6. CASE Transmitted("rx")
  <2>1. FSTypeOK'
    <3>1. probed' \in BOOLEAN /\ connected' \in BOOLEAN
        BY <1>6, Zenon DEF Transmitted
    <3>2. msg["rx"].seq \in SeqNums
        BY <1>6 DEF Transmitted
    <3>3. sent' = sent \cup {msg["rx"].seq} /\ sent \subseteq SeqNums
        BY <1>6, Zenon DEF Transmitted
    <3>4. sent' \subseteq SeqNums
        <4> HIDE DEF SeqNums
        <4> QED BY <3>2, <3>3, Zenon
    <3> QED
        BY <1>6, <3>1, <3>4 DEF Transmitted
  <2>2. Places'
      BY <1>6 DEF Transmitted
  <2>3. NumbersTaken'
      BY <1>6 DEF Transmitted
  <2>4. UniqueSeqNums'
      BY <1>6 DEF Transmitted
  <2>5. GapsAccounted'
      BY <1>6 DEF Transmitted
  <2>6. ProbesTrue'
      BY <1>6 DEF Transmitted
  <2>7. LogonQuiet'
      BY <1>6 DEF Transmitted
  <2>8. ActiveOnlyByLogon'
      BY <1>6 DEF Transmitted
  <2>9. NoFalseDeath'
      BY <1>6 DEF Transmitted
  <2>10. LogoutMeansDown'
      BY <1>6 DEF Transmitted
  <2> QED
      BY <2>1, <2>2, <2>3, <2>4, <2>5, <2>6, <2>7, <2>8, <2>9, <2>10
<1>7. CASE NotTransmitted("rx")
  <2>1. FSTypeOK'
      BY <1>7 DEF NotTransmitted
  <2>2. Places'
      BY <1>7 DEF NotTransmitted
  <2>3. NumbersTaken'
      BY <1>7 DEF NotTransmitted
  <2>4. UniqueSeqNums'
      BY <1>7 DEF NotTransmitted
  <2>5. GapsAccounted'
      BY <1>7 DEF NotTransmitted
  <2>6. ProbesTrue'
      BY <1>7 DEF NotTransmitted
  <2>7. LogonQuiet'
      BY <1>7 DEF NotTransmitted
  <2>8. ActiveOnlyByLogon'
      BY <1>7 DEF NotTransmitted
  <2>9. NoFalseDeath'
      BY <1>7 DEF NotTransmitted
  <2>10. LogoutMeansDown'
      BY <1>7 DEF NotTransmitted
  <2> QED
      BY <2>1, <2>2, <2>3, <2>4, <2>5, <2>6, <2>7, <2>8, <2>9, <2>10
<1>8. CASE LogonSet
    BY <1>8 DEF LogonSet
<1>9. CASE LogonWait
    BY <1>9 DEF LogonWait
<1>10. CASE LogonTimeout
    BY <1>10 DEF LogonTimeout
<1>11. CASE LogonEnd
    BY <1>11 DEF LogonEnd
<1>12. CASE LogoutSet
    BY <1>12 DEF LogoutSet
<1>13. CASE LogoutWait
    BY <1>13 DEF LogoutWait
<1>14. CASE LogoutTimeout
    BY <1>14 DEF LogoutTimeout
<1>15. CASE LogonCall
  <2>0. \/ outbound_seq' = 1 /\ expected_inbound_seq' = 1 /\ sent' = {} /\ missed' = {}
        \/ UNCHANGED <<outbound_seq, expected_inbound_seq, sent, missed>>
      BY <1>15, Zenon DEF LogonCall, ResetCounters, KeepCounters
  <2>1. FSTypeOK'
    <3>1. sent' \subseteq SeqNums /\ missed' \subseteq SeqNums
        BY <2>0, Zenon
    <3>2. outbound_seq' \in SeqNums /\ expected_inbound_seq' \in SeqNums
        BY <2>0
    <3>3. connected' \in BOOLEAN /\ probed' \in BOOLEAN
        BY <1>15, Zenon DEF LogonCall, NewConnection
    <3> QED
        BY <1>15, <3>1, <3>2, <3>3 DEF LogonCall, NewConnection
  <2>2. Places'
      BY <1>15 DEF LogonCall, NewConnection, ResetCounters, KeepCounters
  <2>3. NumbersTaken'
    <3>1. \A n \in sent' : n < outbound_seq'
      <4>1. CASE sent' = {}
          BY <4>1, Zenon
      <4>2. CASE outbound_seq' = outbound_seq /\ sent' = sent
        <5>1. \A n \in sent : n < outbound_seq
            OBVIOUS
        <5> QED
            BY <4>2, <5>1, Zenon
      <4> QED
          BY <2>0, <4>1, <4>2, Zenon
    <3>2. pc' = [pc EXCEPT !["tx"] = "claim"] /\ msg'["rx"] = msg["rx"]
        BY <1>15 DEF LogonCall
    <3>3. pc["rx"] # "transmit" \/ UNCHANGED <<outbound_seq, sent>>
        BY <1>15 DEF LogonCall, NewConnection, ResetCounters, KeepCounters
    <3>4. \A th \in Threads : pc'[th] = "transmit" => msg'[th].seq > 0 /\ msg'[th].seq < outbound_seq'
        BY <3>2, <3>3
    <3> QED
        BY <3>1, <3>4
  <2>4. UniqueSeqNums'
      BY <1>15 DEF LogonCall, NewConnection, ResetCounters, KeepCounters
  <2>5. GapsAccounted'
      BY <1>15 DEF LogonCall, NewConnection, ResetCounters, KeepCounters
  <2>6. ProbesTrue'
      BY <1>15 DEF LogonCall, NewConnection, ResetCounters, KeepCounters
  <2>7. LogonQuiet'
      BY <1>15 DEF LogonCall, NewConnection, ResetCounters, KeepCounters
  <2>8. ActiveOnlyByLogon'
      BY <1>15 DEF LogonCall, NewConnection, ResetCounters, KeepCounters
  <2>9. NoFalseDeath'
      BY <1>15 DEF LogonCall, NewConnection, ResetCounters, KeepCounters
  <2>10. LogoutMeansDown'
      BY <1>15 DEF LogonCall, NewConnection, ResetCounters, KeepCounters
  <2> QED
      BY <2>1, <2>2, <2>3, <2>4, <2>5, <2>6, <2>7, <2>8, <2>9, <2>10
<1>16. CASE LogoutCall
    BY <1>16 DEF LogoutCall
<1>17. CASE SendApp
    BY <1>17 DEF SendApp
<1>18. CASE Reset
  <2>1. FSTypeOK'
    <3>1. sent' \subseteq SeqNums /\ missed' \subseteq SeqNums
        BY <1>18, Zenon DEF Reset, ResetCounters
    <3>2. connected' \in BOOLEAN /\ probed' \in BOOLEAN /\ test_request_pending' \in BOOLEAN
        BY <1>18, Zenon DEF Reset, NewConnection
    <3> QED
        BY <1>18, <3>1, <3>2 DEF Reset, NewConnection, ResetCounters
  <2>2. Places'
      BY <1>18 DEF Reset, NewConnection, ResetCounters
  <2>3. NumbersTaken'
      BY <1>18 DEF Reset, NewConnection, ResetCounters
  <2>4. UniqueSeqNums'
      BY <1>18 DEF Reset, NewConnection, ResetCounters
  <2>5. GapsAccounted'
      BY <1>18 DEF Reset, NewConnection, ResetCounters
  <2>6. ProbesTrue'
      BY <1>18 DEF Reset, NewConnection, ResetCounters
  <2>7. LogonQuiet'
      BY <1>18 DEF Reset, NewConnection, ResetCounters
  <2>8. ActiveOnlyByLogon'
      BY <1>18 DEF Reset, NewConnection, ResetCounters
  <2>9. NoFalseDeath'
      BY <1>18 DEF Reset, NewConnection, ResetCounters
  <2>10. LogoutMeansDown'
      BY <1>18 DEF Reset, NewConnection, ResetCounters
  <2> QED
      BY <2>1, <2>2, <2>3, <2>4, <2>5, <2>6, <2>7, <2>8, <2>9, <2>10
<1>19. CASE BecomeActive
    BY <1>19 DEF BecomeActive
<1>20. CASE GoDown
    BY <1>20 DEF GoDown
<1>21. CASE HandleLogon
  <2>1. FSTypeOK'
      BY <1>21 DEF HandleLogon
  <2>2. Places'
      BY <1>21 DEF HandleLogon
  <2>3. NumbersTaken'
      BY <1>21 DEF HandleLogon
  <2>4. UniqueSeqNums'
      BY <1>21 DEF HandleLogon
  <2>5. GapsAccounted'
      BY <1>21 DEF HandleLogon
  <2>6. ProbesTrue'
      BY <1>21 DEF HandleLogon
  <2>7. LogonQuiet'
      BY <1>21 DEF HandleLogon
  <2>8. ActiveOnlyByLogon'
      BY <1>21 DEF HandleLogon
  <2>9. NoFalseDeath'
      BY <1>21 DEF HandleLogon
  <2>10. LogoutMeansDown'
      BY <1>21 DEF HandleLogon
  <2> QED
      BY <2>1, <2>2, <2>3, <2>4, <2>5, <2>6, <2>7, <2>8, <2>9, <2>10
<1>22. CASE HandleLogout
  <2>1. FSTypeOK'
      BY <1>22 DEF HandleLogout
  <2>2. Places'
      BY <1>22 DEF HandleLogout
  <2>3. NumbersTaken'
      BY <1>22 DEF HandleLogout
  <2>4. UniqueSeqNums'
      BY <1>22 DEF HandleLogout
  <2>5. GapsAccounted'
      BY <1>22 DEF HandleLogout
  <2>6. ProbesTrue'
      BY <1>22 DEF HandleLogout
  <2>7. LogonQuiet'
      BY <1>22 DEF HandleLogout
  <2>8. ActiveOnlyByLogon'
      BY <1>22 DEF HandleLogout
  <2>9. NoFalseDeath'
      BY <1>22 DEF HandleLogout
  <2>10. LogoutMeansDown'
      BY <1>22 DEF HandleLogout
  <2> QED
      BY <2>1, <2>2, <2>3, <2>4, <2>5, <2>6, <2>7, <2>8, <2>9, <2>10
<1>23. CASE HandleHeartbeat
  <2>1. FSTypeOK'
      BY <1>23 DEF HandleHeartbeat
  <2>2. Places'
      BY <1>23 DEF HandleHeartbeat
  <2>3. NumbersTaken'
      BY <1>23 DEF HandleHeartbeat
  <2>4. UniqueSeqNums'
      BY <1>23 DEF HandleHeartbeat
  <2>5. GapsAccounted'
      BY <1>23 DEF HandleHeartbeat
  <2>6. ProbesTrue'
      BY <1>23 DEF HandleHeartbeat
  <2>7. LogonQuiet'
      BY <1>23 DEF HandleHeartbeat
  <2>8. ActiveOnlyByLogon'
      BY <1>23 DEF HandleHeartbeat
  <2>9. NoFalseDeath'
      BY <1>23 DEF HandleHeartbeat
  <2>10. LogoutMeansDown'
      BY <1>23 DEF HandleHeartbeat
  <2> QED
      BY <2>1, <2>2, <2>3, <2>4, <2>5, <2>6, <2>7, <2>8, <2>9, <2>10
<1>24. CASE HandleTestRequest
    BY <1>24 DEF HandleTestRequest
<1>25. CASE HandleSequenceReset
  <2>1. FSTypeOK'
      BY <1>25, InboundKept DEF HandleSequenceReset
  <2>2. Places'
      BY <1>25 DEF HandleSequenceReset
  <2>3. NumbersTaken'
      BY <1>25, InboundKept DEF HandleSequenceReset
  <2>4. UniqueSeqNums'
      BY <1>25, InboundKept DEF HandleSequenceReset
  <2>5. GapsAccounted'
      BY <1>25, InboundKept DEF HandleSequenceReset
  <2>6. ProbesTrue'
      BY <1>25, InboundKept DEF HandleSequenceReset
  <2>7. LogonQuiet'
      BY <1>25, InboundKept DEF HandleSequenceReset
  <2>8. ActiveOnlyByLogon'
      BY <1>25, InboundKept DEF HandleSequenceReset
  <2>9. NoFalseDeath'
      BY <1>25, InboundKept DEF HandleSequenceReset
  <2>10. LogoutMeansDown'
      BY <1>25, InboundKept DEF HandleSequenceReset
  <2> QED
      BY <2>1, <2>2, <2>3, <2>4, <2>5, <2>6, <2>7, <2>8, <2>9, <2>10
<1>26. CASE HandleResendRequest
    BY <1>26 DEF HandleResendRequest
<1>27. CASE HandleApp
    BY <1>27 DEF HandleApp
<1>28. CASE TickCheck
    BY <1>28 DEF TickCheck, Dead, Idle, ProbeFailed
<1>29. CASE TickPending
    BY <1>29 DEF TickPending
<1>30. CASE TickDead
    BY <1>30 DEF TickDead
<1>31. CASE TickCall
    BY <1>31 DEF TickCall
<1>32. CASE Elapse
    BY <1>32 DEF Elapse
<1>33. CASE ServerStops
  <2>1. FSTypeOK'
      BY <1>33 DEF ServerStops
  <2>2. Places'
      BY <1>33 DEF ServerStops
  <2>3. NumbersTaken'
      BY <1>33 DEF ServerStops
  <2>4. UniqueSeqNums'
      BY <1>33 DEF ServerStops
  <2>5. GapsAccounted'
      BY <1>33 DEF ServerStops
  <2>6. ProbesTrue'
      BY <1>33 DEF ServerStops
  <2>7. LogonQuiet'
      BY <1>33 DEF ServerStops
  <2>8. ActiveOnlyByLogon'
      BY <1>33 DEF ServerStops
  <2>9. NoFalseDeath'
      BY <1>33 DEF ServerStops
  <2>10. LogoutMeansDown'
      BY <1>33 DEF ServerStops
  <2> QED
      BY <2>1, <2>2, <2>3, <2>4, <2>5, <2>6, <2>7, <2>8, <2>9, <2>10
<1>34. ASSUME NEW m \in Inbound, OnRx(m) PROVE FSInv'
  <2> m.seq \in 0..MaxSeqNum /\ m.dup \in BOOLEAN
      BY InboundKept
  <2>1. FSTypeOK'
      BY <1>34 DEF OnRx, Advances, Gap, NextExpected, PassedOver, ResendRange
  <2>2. Places'
      BY <1>34 DEF OnRx, Advances, Gap, NextExpected, PassedOver, ResendRange
  <2>3. NumbersTaken'
      BY <1>34 DEF OnRx, Advances, Gap, NextExpected, PassedOver, ResendRange
  <2>4. UniqueSeqNums'
      BY <1>34 DEF OnRx, Advances, Gap, NextExpected, PassedOver, ResendRange
  <2>5. GapsAccounted'
      BY <1>34 DEF OnRx, Advances, Gap, NextExpected, PassedOver, ResendRange
  <2>6. ProbesTrue'
      BY <1>34 DEF OnRx, Advances, Gap, NextExpected, PassedOver, ResendRange
  <2>7. LogonQuiet'
      BY <1>34 DEF OnRx, Advances, Gap, NextExpected, PassedOver, ResendRange
  <2>8. ActiveOnlyByLogon'
      BY <1>34 DEF OnRx, Advances, Gap, NextExpected, PassedOver, ResendRange
  <2>9. NoFalseDeath'
      BY <1>34 DEF OnRx, Advances, Gap, NextExpected, PassedOver, ResendRange
  <2>10. LogoutMeansDown'
      BY <1>34 DEF OnRx, Advances, Gap, NextExpected, PassedOver, ResendRange
  <2> QED
      BY <2>1, <2>2, <2>3, <2>4, <2>5, <2>6, <2>7, <2>8, <2>9, <2>10
<1> QED
    BY <1>1, <1>2, <1>3, <1>4, <1>5, <1>6, <1>7, <1>8, <1>9, <1>10, <1>11, <1>12, <1>13, <1>14, <1>15, <1>16, <1>17, <1>18, <1>19, <1>20, <1>21, <1>22, <1>23, <1>24, <1>25, <1>26, <1>27, <1>28, <1>29, <1>30, <1>31, <1>32, <1>33, <1>34
       DEF FSNext, TxStep, TxCall, RxStep, SendStep

\* FixSession: the inductive invariant -- what each thread knows of the numbers,
\* the state and the counterparty at every step between two shared accesses --
\* holds of every behaviour.
THEOREM FixSessionInvariant == FSSpec => []FSInv
BY FSInitInv, FSNextInv, PTL DEF FSSpec

\* fill_session_header: for every range of numbers, whichever threads send and
\* whatever sends fail, no MsgSeqNum is used twice.
THEOREM FixSessionUniqueSeqNums == FSSpec => []UniqueSeqNums
<1>1. FSInv => UniqueSeqNums
    BY DEF FSInv
<1> QED
    BY FixSessionInvariant, <1>1, PTL

\* on_rx, tick, logout: what the session tells its caller is so.
THEOREM FixSessionHonest == FSSpec => []SessionHonest
<1>1. FSInv => SessionHonest
    BY DEF FSInv, SessionHonest
<1> QED
    BY FixSessionInvariant, <1>1, PTL

-----------------------------------------------------------------------------
(* Governors.                                                              *)

\* Nothing is granted after the last refill, and what was granted since any
\* time up to it, with what is left, is within one burst and the refill.
TokensAccounted ==
    /\ granted \in [0..MaxClock -> Nat]
    /\ \A t \in lastRefill..MaxClock : granted[t] = granted[lastRefill]
    /\ \A a \in 0..lastRefill :
          GrantedIn(a, lastRefill) + tokens <= BucketCapacity + RefillRate * (lastRefill - a)

\* The bucket is blocked until every penalty has ended.
PenaltiesKept ==
    \A p \in penalties :
        p[1] \in 0..clock /\ p[2] \in 0..MaxClock /\ p[2] <= blockedUntil

\* The switch has been tripped by the one thread that calls, or has called,
\* the callback.
OneTripper ==
    /\ trip_pc \in [Trippers -> {"idle", "cas", "callback", "returned"}]
    /\ tripped \in BOOLEAN /\ fired \in 0..1
    /\ ~tripped => fired = 0
    /\ \A th \in Trippers : trip_pc[th] = "callback" =>
          /\ tripped /\ fired = 0
          /\ \A other \in Trippers : trip_pc[other] = "callback" => other = th

\* fn has been called once for every delay taken, and once more.
RetryCounts ==
    /\ backoff_used \in 0..RetryBudget
    /\ \/ retry_pc = "calling" /\ fnCalls = backoff_used
       \/ retry_pc \in {"succeeded", "gave_up", "failed"} /\ fnCalls = backoff_used + 1

GOInv ==
    /\ GOTypeOK /\ TokensAccounted /\ RateHolds /\ PenaltiesKept /\ PenaltiesHold
    /\ OneTripper /\ RetryCounts

\* The smaller and the larger of two numbers.
LEMMA MinPair ==
    ASSUME NEW x \in Int, NEW y \in Int
    PROVE  Min({x, y}) = IF x <= y THEN x ELSE y
BY DEF Min

LEMMA MaxPair ==
    ASSUME NEW x \in Int, NEW y \in Int
    PROVE  Max({x, y}) = IF x >= y THEN x ELSE y
BY DEF Max

\* What is refilled over two spans in turn is what is refilled over both.
LEMMA RefillAdds ==
    ASSUME NEW a \in Int, NEW b \in Int, NEW c \in Int
    PROVE  /\ RefillRate * (c - a) = RefillRate * (c - b) + RefillRate * (b - a)
           /\ a <= b => RefillRate * (b - a) >= 0
           /\ RefillRate * (b - a) \in Int
BY GovernorAssumption

LEMMA GOInitInv == GOInit => GOInv
<1> SUFFICES ASSUME GOInit PROVE GOInv
    OBVIOUS
<1> USE GovernorAssumption DEF GOInit
<1>1. GOTypeOK /\ PenaltiesKept /\ PenaltiesHold /\ RetryCounts
    BY DEF GOTypeOK, PenaltiesKept, PenaltiesHold, RetryCounts
<1>2. TokensAccounted /\ RateHolds
    BY RefillAdds DEF TokensAccounted, RateHolds, GrantedIn
<1>3. tripped \in BOOLEAN
    BY Zenon
<1>4. OneTripper
    BY <1>3 DEF OneTripper
<1> QED
    BY <1>1, <1>2, <1>4 DEF GOInv

BucketInv == GOTypeOK /\ TokensAccounted /\ RateHolds /\ PenaltiesKept /\ PenaltiesHold

LEMMA BucketAcquires ==
    ASSUME BucketInv, NEW w \in 1..BucketCapacity, try_acquire(w)
    PROVE  BucketInv'
<1> USE GovernorAssumption DEF BucketInv, bucket, killswitch, retrying
<1> DEFINE elapsed == RefillRate * (clock - lastRefill)
<1>1. /\ tokens \in 0..BucketCapacity /\ clock \in 0..MaxClock /\ lastRefill \in 0..clock
      /\ clock' = clock /\ lastRefill' = clock /\ blockedUntil' = blockedUntil
      /\ penalties' = penalties /\ blockedUntil <= clock /\ blockedUntil \in 0..MaxClock
      /\ fired' = fired /\ fnCalls' = fnCalls
    BY DEF try_acquire, GOTypeOK
<1>2. /\ elapsed \in Int /\ elapsed >= 0
      /\ Refilled = IF BucketCapacity <= tokens + elapsed THEN BucketCapacity
                    ELSE tokens + elapsed
  <2>1. elapsed \in Int /\ elapsed >= 0 /\ (clock - lastRefill) * RefillRate = elapsed
      BY <1>1, RefillAdds
  <2> QED
      BY <1>1, <2>1, MinPair DEF Refilled
<1> HIDE DEF elapsed
<1>3. \E g \in 0..BucketCapacity, k \in 0..BucketCapacity :
          /\ tokens' = k /\ k + g <= BucketCapacity /\ k + g <= tokens + elapsed
          /\ granted' = GrantAt(clock, g)
    <2>1. CASE Refilled >= w
        <3>1. w \in 0..BucketCapacity /\ tokens' = Refilled - w /\ granted' = GrantAt(clock, w)
            BY <2>1 DEF try_acquire
        <3>2. Refilled - w \in 0..BucketCapacity
            BY <1>1, <1>2, <2>1
        <3> QED
            BY <1>1, <1>2, <3>1, <3>2
    <2>2. CASE ~(Refilled >= w)
        <3>1. tokens' = Refilled /\ granted' = GrantAt(clock, 0)
            BY <2>2, <1>1 DEF try_acquire, GrantAt, TokensAccounted
        <3>2. Refilled \in 0..BucketCapacity
            BY <1>1, <1>2
        <3> QED
            BY <1>1, <1>2, <3>1, <3>2
    <2> QED
        BY <2>1, <2>2
<1>4. PICK g \in 0..BucketCapacity, k \in 0..BucketCapacity :
          /\ tokens' = k /\ k + g <= BucketCapacity /\ k + g <= tokens + elapsed
          /\ granted' = GrantAt(clock, g)
    BY <1>3
<1>5. /\ granted \in [0..MaxClock -> Nat] /\ granted' \in [0..MaxClock -> Nat]
      /\ \A t \in 0..MaxClock : granted'[t] = IF t >= clock THEN granted[t] + g ELSE granted[t]
      /\ \A t \in lastRefill..MaxClock : granted[t] = granted[lastRefill]
    BY <1>4 DEF GrantAt, TokensAccounted
<1>6. GOTypeOK'
  <2>1. tokens' \in 0..BucketCapacity
      BY <1>4
  <2> QED
      BY <1>1, <2>1 DEF GOTypeOK
<1>7. ASSUME NEW a \in 0..clock
      PROVE  GrantedIn(a, clock)' + tokens' <= BucketCapacity + RefillRate * (clock - a)
    <2> DEFINE before == IF a = 0 THEN 0 ELSE granted[a - 1]
    <2>1. GrantedIn(a, clock)' = granted[lastRefill] + g - before /\ before \in Int
        BY <1>1, <1>5 DEF GrantedIn
    <2>2. CASE a <= lastRefill
        <3>1. granted[lastRefill] - before + tokens <= BucketCapacity + RefillRate * (lastRefill - a)
            BY <2>2, <1>1 DEF TokensAccounted, GrantedIn
        <3>2. RefillRate * (clock - a) = elapsed + RefillRate * (lastRefill - a)
              /\ RefillRate * (lastRefill - a) \in Int
            BY <1>1, RefillAdds DEF elapsed
        <3> DEFINE sum == RefillRate * (clock - a)
                   part == RefillRate * (lastRefill - a)
                   last == granted[lastRefill]
        <3>3. /\ GrantedIn(a, clock)' = last + g - before /\ last \in Int /\ before \in Int
              /\ last - before + tokens <= BucketCapacity + part
              /\ sum = elapsed + part /\ part \in Int
            BY <2>1, <3>1, <3>2, <1>1, <1>5
        <3> HIDE DEF before, sum, part, last
        <3>4. GrantedIn(a, clock)' + tokens' <= BucketCapacity + sum
            BY <3>3, <1>1, <1>2, <1>4
        <3> QED
            BY <3>4 DEF sum
    <2>3. CASE a > lastRefill
        <3>1. before = granted[lastRefill]
            BY <2>3, <1>1, <1>5
        <3>2. RefillRate * (clock - a) \in Int /\ RefillRate * (clock - a) >= 0
            BY <1>1, RefillAdds
        <3>3. granted[lastRefill] \in Int
            BY <1>1, <1>5
        <3>4. GrantedIn(a, clock)' + tokens' <= BucketCapacity
          <4> DEFINE last == granted[lastRefill]
          <4>1. GrantedIn(a, clock)' = last + g - last /\ last \in Int
              BY <2>1, <3>1, <3>3
          <4> HIDE DEF last
          <4> QED
              BY <4>1, <1>4
        <3>5. GrantedIn(a, clock)' \in Int
            BY <2>1, <3>1, <3>3
        <3> QED
            BY <3>2, <3>4, <3>5, <1>4
    <2> QED
        BY <2>2, <2>3, <1>1
<1>8. TokensAccounted'
  <2>1. \A t \in clock..MaxClock : granted'[t] = granted'[clock]
    <3>1. \A t \in clock..MaxClock : granted'[t] = granted[lastRefill] + g
        BY <1>1, <1>5
    <3>2. clock \in clock..MaxClock
        BY <1>1
    <3> QED
        BY <3>1, <3>2
  <2>2. \A a \in 0..clock :
            GrantedIn(a, clock)' + tokens' <= BucketCapacity + RefillRate * (clock - a)
      BY <1>7
  <2>3. \A a \in 0..clock : GrantedIn(a, lastRefill)' = GrantedIn(a, clock)'
      BY <1>1 DEF GrantedIn
  <2> QED
      BY <1>1, <1>5, <2>1, <2>2, <2>3 DEF TokensAccounted
<1>9. RateHolds'
    <2> SUFFICES ASSUME NEW a \in 0..clock, NEW b \in a..clock
                 PROVE  GrantedIn(a, b)' <= BucketCapacity + RefillRate * (b - a)
        BY <1>1 DEF RateHolds
    <2>1. CASE b = clock
        <3>1. GrantedIn(a, clock)' + tokens' <= BucketCapacity + RefillRate * (clock - a)
            BY <1>7
        <3>2. GrantedIn(a, clock)' \in Int /\ RefillRate * (clock - a) \in Int
            BY <1>1, <1>5, RefillAdds DEF GrantedIn
        <3>3. GrantedIn(a, clock)' = GrantedIn(a, b)'
            BY <2>1, <1>1 DEF GrantedIn
        <3> QED
            BY <3>1, <3>2, <3>3, <2>1, <1>4
    <2>2. CASE b < clock
        <3>1. GrantedIn(a, b)' = GrantedIn(a, b)
            BY <2>2, <1>1, <1>5 DEF GrantedIn
        <3> QED
            BY <3>1 DEF RateHolds
    <2> QED
        BY <2>1, <2>2, <1>1
<1>10. PenaltiesKept'
    BY <1>1 DEF PenaltiesKept
<1>11. PenaltiesHold'
    <2> SUFFICES ASSUME NEW p \in penalties, NEW t \in (p[1] + 1)..(p[2] - 1)
                 PROVE  GrantedIn(t, t)' = 0
        BY <1>1 DEF PenaltiesHold
    <2>1. /\ GrantedIn(t, t) = 0 /\ p[2] <= clock /\ p[1] \in 0..clock /\ p[2] \in 0..MaxClock
        BY <1>1 DEF PenaltiesHold, PenaltiesKept
    <2>2. t \in Int /\ 0 < t /\ t < clock
        BY <2>1, <1>1
    <2>3. granted'[t] = granted[t] /\ granted'[t - 1] = granted[t - 1]
        BY <2>2, <1>1, <1>5
    <2> QED
        BY <2>1, <2>2, <2>3 DEF GrantedIn
<1> QED
    BY <1>6, <1>8, <1>9, <1>10, <1>11

LEMMA BucketPenalized ==
    ASSUME BucketInv, NEW d \in 1..MaxClock, penalize_for(d)
    PROVE  BucketInv'
<1> USE GovernorAssumption DEF BucketInv, bucket, killswitch, retrying
<1>1. /\ tokens \in 0..BucketCapacity /\ clock \in 0..MaxClock /\ lastRefill \in 0..clock
      /\ clock' = clock /\ lastRefill' = lastRefill /\ granted' = granted
      /\ blockedUntil \in 0..MaxClock /\ clock + d <= MaxClock /\ tokens' = 0
      /\ penalties' = penalties \cup {<<clock, clock + d>>}
      /\ fired' = fired /\ fnCalls' = fnCalls
    BY DEF penalize_for, GOTypeOK
<1>2. /\ granted \in [0..MaxClock -> Nat]
      /\ \A t \in lastRefill..MaxClock : granted[t] = granted[lastRefill]
    BY DEF TokensAccounted
<1>3. PICK u \in 0..MaxClock : blockedUntil' = u /\ u >= blockedUntil /\ u >= clock + d
    BY <1>1, MaxPair DEF penalize_for, PenaltyEnd
<1>4. GOTypeOK'
    BY <1>1, <1>3 DEF GOTypeOK
<1>5. \A a, b : GrantedIn(a, b)' = GrantedIn(a, b)
    BY <1>1 DEF GrantedIn
<1>6. RateHolds'
    BY <1>1, <1>5 DEF RateHolds
<1>7. TokensAccounted'
  <2> SUFFICES ASSUME NEW a \in 0..lastRefill
               PROVE  GrantedIn(a, lastRefill)' + tokens' <= BucketCapacity + RefillRate * (lastRefill - a)
      BY <1>1, <1>2 DEF TokensAccounted, GrantedIn
  <2>1. PICK x \in Int, y \in Int : x = GrantedIn(a, lastRefill) /\ y = RefillRate * (lastRefill - a)
      BY <1>1, <1>2, RefillAdds DEF GrantedIn
  <2>2. x + tokens <= BucketCapacity + y
      BY <2>1 DEF TokensAccounted
  <2>3. x + 0 <= BucketCapacity + y
      BY <2>2, <1>1
  <2> QED
      BY <2>1, <2>3, <1>1, <1>5
<1>8. PenaltiesKept'
  <2> SUFFICES ASSUME NEW p \in penalties'
               PROVE  p[1] \in 0..clock /\ p[2] \in 0..MaxClock /\ p[2] <= u
      BY <1>1, <1>3 DEF PenaltiesKept
  <2>1. CASE p \in penalties
      BY <2>1, <1>1, <1>3 DEF PenaltiesKept
  <2>2. CASE p = <<clock, clock + d>>
      BY <2>2, <1>1, <1>3
  <2> QED
      BY <2>1, <2>2, <1>1
<1>9. PenaltiesHold'
  <2> SUFFICES ASSUME NEW p \in penalties', NEW t \in (p[1] + 1)..(p[2] - 1)
               PROVE  GrantedIn(t, t) = 0
      BY <1>5 DEF PenaltiesHold
  <2>1. CASE p \in penalties
      BY <2>1 DEF PenaltiesHold
  <2>2. CASE p = <<clock, clock + d>>
    <3>0. p[1] = clock /\ p[2] = clock + d
        BY <2>2
    <3>1. t \in (clock + 1)..(clock + d - 1)
        BY <3>0, <1>1
    <3>2. granted[t] = granted[lastRefill] /\ granted[t - 1] = granted[lastRefill]
          /\ granted[lastRefill] \in Nat /\ t # 0
        BY <3>1, <1>1, <1>2
    <3> QED
        BY <3>2 DEF GrantedIn
  <2> QED
      BY <2>1, <2>2, <1>1
<1> QED
    BY <1>4, <1>6, <1>7, <1>8, <1>9

LEMMA BucketTime ==
    ASSUME BucketInv, ClockAdvances
    PROVE  BucketInv'
<1> USE GovernorAssumption DEF BucketInv, bucket, killswitch, retrying
<1>1. /\ tokens \in 0..BucketCapacity /\ clock \in 0..MaxClock /\ lastRefill \in 0..clock
      /\ clock' = clock + 1 /\ clock < MaxClock /\ lastRefill' = lastRefill
      /\ granted' = granted /\ blockedUntil \in 0..MaxClock /\ tokens' = tokens
      /\ penalties' = penalties /\ blockedUntil' = blockedUntil
      /\ fired' = fired /\ fnCalls' = fnCalls
    BY DEF ClockAdvances, GOTypeOK
<1>2. /\ granted \in [0..MaxClock -> Nat]
      /\ \A t \in lastRefill..MaxClock : granted[t] = granted[lastRefill]
    BY DEF TokensAccounted
<1>3. \A a, b : GrantedIn(a, b)' = GrantedIn(a, b)
    BY <1>1 DEF GrantedIn
<1>4. GOTypeOK'
    BY <1>1 DEF GOTypeOK
<1>5. TokensAccounted'
    BY <1>1, <1>2, <1>3 DEF TokensAccounted, GrantedIn
<1>6. RateHolds'
  <2> SUFFICES ASSUME NEW a \in 0..(clock + 1), NEW b \in a..(clock + 1)
               PROVE  GrantedIn(a, b) <= BucketCapacity + RefillRate * (b - a)
      BY <1>1, <1>3 DEF RateHolds
  <2>1. CASE b <= clock
      BY <2>1, <1>1 DEF RateHolds
  <2>2. CASE b = clock + 1 /\ a <= clock
    <3>1. GrantedIn(a, b) = GrantedIn(a, clock)
        BY <2>2, <1>1, <1>2 DEF GrantedIn
    <3>2. PICK x \in Int, y \in Int, z \in Int :
              x = GrantedIn(a, clock) /\ y = RefillRate * (clock - a) /\ z = RefillRate * (b - clock)
        BY <1>1, <1>2, RefillAdds DEF GrantedIn
    <3>3. x <= BucketCapacity + y
        BY <2>2, <1>1, <3>2 DEF RateHolds
    <3>4. z >= 0 /\ RefillRate * (b - a) = z + y
        BY <2>2, <1>1, <3>2, RefillAdds
    <3>5. x <= BucketCapacity + (z + y)
        BY <3>3, <3>4
    <3> QED
        BY <3>1, <3>2, <3>4, <3>5
  <2>3. CASE b = clock + 1 /\ a = clock + 1
    <3>1. GrantedIn(a, b) = 0 /\ b - a = 0
        BY <2>3, <1>1, <1>2 DEF GrantedIn
    <3> QED
        BY <3>1
  <2> QED
      BY <2>1, <2>2, <2>3, <1>1
<1>7. PenaltiesKept'
    BY <1>1 DEF PenaltiesKept
<1>8. PenaltiesHold'
    BY <1>1, <1>3 DEF PenaltiesHold
<1> QED
    BY <1>4, <1>5, <1>6, <1>7, <1>8

LEMMA TripsKept ==
    ASSUME OneTripper, NEW th \in Trippers,
           TripLoad(th) \/ TripExchange(th) \/ TripCallback(th) \/ TripAgain(th)
    PROVE  OneTripper'
<1>1. tripped' \in BOOLEAN
    BY Zenon DEF OneTripper, TripLoad, TripExchange, TripCallback, TripAgain
<1>2. CASE TripLoad(th)
    BY <1>1, <1>2 DEF OneTripper, TripLoad
<1>3. CASE TripExchange(th)
    BY <1>1, <1>3 DEF OneTripper, TripExchange
<1>4. CASE TripCallback(th)
    BY <1>1, <1>4 DEF OneTripper, TripCallback
<1>5. CASE TripAgain(th)
    BY <1>1, <1>5 DEF OneTripper, TripAgain
<1> QED
    BY <1>2, <1>3, <1>4, <1>5

LEMMA GONextInv == GOInv /\ [GONext]_GOvars => GOInv'
<1> SUFFICES ASSUME GOInv, [GONext]_GOvars PROVE GOInv'
    OBVIOUS
<1>1. CASE BucketNext
  <2>1. BucketInv'
      BY <1>1, BucketAcquires, BucketPenalized, BucketTime DEF BucketNext, BucketInv, GOInv
  <2>2. UNCHANGED <<killswitch, retrying>>
      BY <1>1 DEF BucketNext, try_acquire, penalize_for, ClockAdvances
  <2>3. OneTripper' /\ RetryCounts'
      BY <2>2 DEF GOInv, OneTripper, RetryCounts, killswitch, retrying
  <2> QED
      BY <2>1, <2>3 DEF BucketInv, GOInv
<1>2. CASE KillNext
  <2>1. OneTripper' /\ UNCHANGED <<bucket, retrying>>
      BY <1>2, TripsKept DEF KillNext, GOInv
  <2>2. fired' \in Nat
      BY <2>1 DEF OneTripper
  <2>3. GOTypeOK'
      BY <2>1, <2>2 DEF GOInv, GOTypeOK, bucket, retrying
  <2>4. RetryCounts' /\ TokensAccounted' /\ RateHolds' /\ PenaltiesKept' /\ PenaltiesHold'
      BY <2>1 DEF GOInv, RetryCounts, TokensAccounted, RateHolds, PenaltiesKept, PenaltiesHold,
                  GrantedIn, bucket, retrying
  <2> QED
      BY <2>1, <2>3, <2>4 DEF GOInv
<1>3. CASE RetryNext
  <2>1. UNCHANGED <<bucket, killswitch>>
      BY <1>3 DEF RetryNext
  <2>2. RetryCounts' /\ fnCalls' \in Nat
      BY <1>3, GovernorAssumption DEF RetryNext, RetryCall, RetryBackoff, NextDelay, RetryCounts, GOInv
  <2>3. GOTypeOK'
      BY <2>1, <2>2 DEF GOInv, GOTypeOK, bucket, killswitch
  <2>4. OneTripper' /\ TokensAccounted' /\ RateHolds' /\ PenaltiesKept' /\ PenaltiesHold'
      BY <2>1 DEF GOInv, OneTripper, TokensAccounted, RateHolds, PenaltiesKept, PenaltiesHold,
                  GrantedIn, bucket, killswitch
  <2> QED
      BY <2>2, <2>3, <2>4 DEF GOInv
<1>4. CASE UNCHANGED GOvars
    BY <1>4 DEF GOInv, GOTypeOK, OneTripper, RetryCounts, TokensAccounted, RateHolds, PenaltiesKept,
                PenaltiesHold, GrantedIn, GOvars, bucket, killswitch, retrying
<1> QED
    BY <1>1, <1>2, <1>3, <1>4 DEF GONext

\* TokenBucket, KillSwitch, retry: for every capacity, rate, number of threads
\* and budget, over every window of time the grants are within one burst and
\* the refill, nothing is granted inside a penalty, the callback runs at most
\* once and fn at most once more than the budget.
THEOREM GovernorsHoldAlways == GOSpec => []GovernorsHold
<1>1. GOInv => GovernorsHold
    BY GovernorAssumption DEF GOInv, GovernorsHold, GOTypeOK, OneTripper, TripsOnce, RetryCounts, RetryBounded
<1> QED
    BY GOInitInv, GONextInv, <1>1, PTL DEF GOSpec

-----------------------------------------------------------------------------
(* Reconnect.  The calls in progress are a stack of unknown depth: a       *)
(* callback of mark_disconnected may call mark_disconnected again.         *)

\* What may be left of calls that other calls interrupted.
LeftOver == {"on_disconnect", "reset", "DisconnectDetected", "enter_backoff", "on_reconnect",
             "Connected", "policy_reset", "BackoffScheduled", "Failed"}
StepLabels == LeftOver \cup {"detach", "promote", "connecting", "AttemptStarted", "factory",
                             "AttemptFailed", "AttachFailed"}

GivingUp == {<<"on_disconnect", "AttemptFailed", "enter_backoff">>, <<"AttemptFailed", "enter_backoff">>,
             <<"on_disconnect", "AttachFailed", "enter_backoff">>, <<"AttachFailed", "enter_backoff">>,
             <<"enter_backoff">>}
TearingDown == {<<"on_disconnect", "reset", "AttemptFailed", "enter_backoff">>,
                <<"reset", "AttemptFailed", "enter_backoff">>}
Trying == {<<"AttemptStarted", "factory">>, <<"factory">>}

NoStream == stream = "none" /\ ~polled
HasStream == stream # "none" /\ polled

\* What a connecting, waiting, failed or idle orchestrator has, by what is left to do.
StreamByWork ==
    /\ rstate = "Idle" => todo \in {<< >>, Attempt} /\ NoStream /\ wait = 0
    /\ rstate = "Connecting" =>
          \/ todo = << >> /\ HasStream
          \/ todo = TearDown /\ HasStream
          \/ todo = Promote /\ HasStream
          \/ todo \in TearingDown /\ ~polled
          \/ todo \in Trying \cup GivingUp /\ NoStream
    /\ rstate = "Backoff" =>
          NoStream /\ (todo \in Seq(LeftOver) \/ (todo = Attempt /\ wait = 0))
    /\ rstate = "Failed" => NoStream /\ todo \in Seq(LeftOver)

\* A connected orchestrator keeps its stream until the first reset that is
\* pending, and each pending reset comes after its detach and before the
\* enter_backoff that leaves the state.
ConnectedWork ==
    rstate = "Connected" =>
        /\ \A i \in 1..Len(todo) : todo[i] \in LeftOver \/ (i = 1 /\ todo[i] = "detach")
        /\ polled => stream # "none"
        /\ \A i \in 1..Len(todo) : todo[i] = "reset" => ~polled \/ todo[1] = "detach"
        /\ \A i \in 1..Len(todo) : todo[i] = "enter_backoff" =>
              stream = "none" \/ \E j \in 1..Len(todo) : j < i /\ todo[j] = "reset"
        /\ \A i \in 1..Len(todo) : todo[i] \in {"detach", "reset"} =>
              \E j \in 1..Len(todo) : i < j /\ todo[j] = "enter_backoff"
        /\ (\A i \in 1..Len(todo) : todo[i] # "enter_backoff") => HasStream

\* The factory's calls are paid for by attempts of the budget.
TriesPaid ==
    /\ tries \in Nat
    /\ MaxAttempts # 0 =>
        /\ attempts <= MaxAttempts
        /\ rstate \in {"Idle", "Backoff"} => tries <= attempts
        /\ rstate = "Connecting" => tries <= (IF todo \in Trying THEN attempts ELSE attempts + 1)
        /\ rstate = "Failed" => tries <= MaxAttempts + 1
    /\ rstate = "Connected" => tries = 0
    /\ rstate # "Connecting" =>
          \A i \in 1..Len(todo) : todo[i] \in {"enter_backoff", "policy_reset"} => tries = 0

ROInv == ROTypeOK /\ todo \in Seq(StepLabels) /\ StreamByWork /\ ConnectedWork /\ TriesPaid

LEMMA GoSteps ==
    ASSUME NEW S, NEW t \in Seq(S), t # << >>, NEW steps \in Seq(S)
    PROVE  /\ steps \o Tail(t) \in Seq(S) /\ Len(steps \o Tail(t)) = Len(steps) + Len(t) - 1
           /\ Len(steps) \in Nat /\ Len(t) \in Nat
           /\ \A i \in 1..Len(steps) : (steps \o Tail(t))[i] = steps[i]
           /\ \A i \in (Len(steps) + 1)..(Len(steps) + Len(t) - 1) : (steps \o Tail(t))[i] = t[i - Len(steps) + 1]
OBVIOUS

LEMMA DoneSteps ==
    ASSUME NEW S, NEW t \in Seq(S), t # << >>
    PROVE  /\ << >> \o Tail(t) = Tail(t) /\ Tail(t) \in Seq(S) /\ Len(Tail(t)) = Len(t) - 1
           /\ Len(t) \in Nat \ {0} /\ \A i \in 1..(Len(t) - 1) : Tail(t)[i] = t[i + 1]
           /\ t[1] = Head(t) /\ Head(t) \in S
OBVIOUS

LEMMA ROInitInv == ROInit => ROInv
<1> SUFFICES ASSUME ROInit PROVE ROInv
    OBVIOUS
<1> USE PolicyAssumption DEF ROInit
<1>1. {polled, stopped, reachable} \subseteq BOOLEAN
    BY Zenon
<1>2. ROTypeOK
    BY <1>1 DEF ROTypeOK, ReconnectStates
<1> QED
    BY <1>2 DEF ROInv, StreamByWork, ConnectedWork, TriesPaid, NoStream

LEMMA CallsLabelled ==
    /\ Attempt \in Seq(StepLabels) /\ Promote \in Seq(StepLabels)
    /\ TearDown \in Seq(StepLabels) /\ MarkDisconnected \in Seq(StepLabels)
<1> USE DEF StepLabels, LeftOver
<1>1. Attempt \in Seq(StepLabels)
    BY DEF Attempt
<1>2. Promote \in Seq(StepLabels)
    BY DEF Promote
<1>3. TearDown \in Seq(StepLabels)
    BY DEF TearDown
<1>4. MarkDisconnected \in Seq(StepLabels)
    BY DEF MarkDisconnected
<1> QED
    BY <1>1, <1>2, <1>3, <1>4

\* Calls begin only when none is in progress.
LEMMA CallsKeep ==
    ASSUME ROInv, CallStart \/ CallTick \/ CallMarkDisconnected PROVE ROInv'
<1> USE DEF NoStream, HasStream
<1>1. /\ todo = << >> /\ todo' \in {Attempt, Promote, TearDown, MarkDisconnected}
      /\ todo' = Attempt => wait = 0 /\ rstate \in {"Idle", "Backoff"}
      /\ todo' \in {Promote, TearDown} => rstate = "Connecting"
      /\ todo' = MarkDisconnected => rstate = "Connected"
    BY DEF CallStart, CallTick, CallMarkDisconnected, TickWork, Quiet, MayDisconnect, ROInv, StreamByWork,
           Attempt, Promote, TearDown, MarkDisconnected
<1>2. /\ UNCHANGED <<rstate, stream, polled, stopped, policy, wait, waited, reentries,
                     reachable, tries, lastEvent>>
    BY DEF CallStart, CallTick, CallMarkDisconnected
<1>3. ROTypeOK' /\ todo' \in Seq(StepLabels)
  <2>1. ROTypeOK'
      BY <1>2 DEF ROInv, ROTypeOK, policy
  <2> QED
      BY <1>1, <2>1, CallsLabelled
<1>4. CASE todo' = Attempt
    BY <1>1, <1>2, <1>3, <1>4 DEF ROInv, StreamByWork, ConnectedWork, TriesPaid, policy, Attempt
<1>5. CASE todo' = Promote \/ todo' = TearDown
  <2>1. todo' \notin Trying
      BY <1>5 DEF Promote, TearDown, Trying
  <2> QED
      BY <1>1, <1>2, <1>3, <1>5, <2>1 DEF ROInv, StreamByWork, ConnectedWork, TriesPaid, policy, Trying,
         GivingUp, TearingDown
<1>6. CASE todo' = MarkDisconnected
    BY <1>1, <1>2, <1>3, <1>6 DEF ROInv, StreamByWork, ConnectedWork, TriesPaid, policy, MarkDisconnected, LeftOver
<1> QED
    BY <1>1, <1>4, <1>5, <1>6

\* A step at the top of the stack gives way to nothing.
LEMMA DoneLeaves ==
    ASSUME ROInv, ~Quiet, Done
    PROVE  /\ todo' = Tail(todo) /\ todo' \in Seq(StepLabels) /\ Len(todo') = Len(todo) - 1
           /\ Len(todo) \in Nat \ {0} /\ \A i \in 1..Len(todo') : todo'[i] = todo[i + 1]
           /\ todo[1] = Head(todo) /\ todo # << >>
           /\ \A i \in 1..Len(todo) : i = 1 \/ i - 1 \in 1..Len(todo')
           /\ todo \in Seq(LeftOver) => todo' \in Seq(LeftOver)
BY DoneSteps DEF ROInv, Quiet, Done, Go

\* ... or to the steps of another call, or to an event.
LEMMA GoLeaves ==
    ASSUME ROInv, ~Quiet, NEW steps \in Seq(StepLabels), Go(steps)
    PROVE  /\ todo' \in Seq(StepLabels) /\ Len(todo') = Len(steps) + Len(todo) - 1
           /\ Len(steps) \in Nat /\ Len(todo) \in Nat \ {0} /\ todo # << >> /\ todo[1] = Head(todo)
           /\ \A i \in 1..Len(steps) : todo'[i] = steps[i]
           /\ \A i \in (Len(steps) + 1)..Len(todo') : todo'[i] = todo[i - Len(steps) + 1]
           /\ todo \in Seq(LeftOver) /\ steps \in Seq(LeftOver) => todo' \in Seq(LeftOver)
BY GoSteps DEF ROInv, Quiet, Go

\* Connected: a callback, or policy_reset, that ends.
LEMMA ConnectedDone ==
    ASSUME ROInv, ~Quiet, Done, rstate = "Connected", Head(todo) \notin {"detach", "reset", "enter_backoff"},
           UNCHANGED <<rstate, stream, polled, tries>>
    PROVE  ConnectedWork'
<1>1. /\ todo' = Tail(todo) /\ todo' \in Seq(StepLabels) /\ Len(todo') = Len(todo) - 1
      /\ Len(todo) \in Nat \ {0} /\ \A i \in 1..Len(todo') : todo'[i] = todo[i + 1]
      /\ todo[1] = Head(todo) /\ \A i \in 1..Len(todo) : i = 1 \/ i - 1 \in 1..Len(todo')
    BY DoneLeaves
<1> USE DEF ROInv, ConnectedWork, HasStream
<1>2. \A i \in 1..Len(todo') : i + 1 \in 1..Len(todo) /\ todo'[i] = todo[i + 1] /\ todo'[i] \in LeftOver
    BY <1>1
<1>3. \A i \in 1..Len(todo') : todo'[i] = "reset" => ~polled
    BY <1>1, <1>2
<1>4. ASSUME NEW i \in 1..Len(todo'), todo'[i] = "enter_backoff"
      PROVE  stream = "none" \/ \E j \in 1..Len(todo') : j < i /\ todo'[j] = "reset"
  <2>1. CASE stream # "none"
    <3>1. PICK j \in 1..Len(todo) : j < i + 1 /\ todo[j] = "reset"
        BY <1>2, <1>4, <2>1
    <3>2. j # 1 /\ j - 1 \in 1..Len(todo') /\ j - 1 < i /\ todo'[j - 1] = "reset"
        BY <1>1, <3>1
    <3> QED
        BY <3>2
  <2> QED
      BY <2>1
<1>5. ASSUME NEW i \in 1..Len(todo'), todo'[i] \in {"detach", "reset"}
      PROVE  \E j \in 1..Len(todo') : i < j /\ todo'[j] = "enter_backoff"
  <2>1. PICK j \in 1..Len(todo) : i + 1 < j /\ todo[j] = "enter_backoff"
      BY <1>2, <1>5
  <2>2. j - 1 \in 1..Len(todo') /\ i < j - 1 /\ todo'[j - 1] = "enter_backoff"
      BY <1>1, <2>1
  <2> QED
      BY <2>2
<1>6. (\A i \in 1..Len(todo') : todo'[i] # "enter_backoff") => HasStream
  <2> SUFFICES ASSUME \A i \in 1..Len(todo') : todo'[i] # "enter_backoff", NEW k \in 1..Len(todo)
               PROVE  todo[k] # "enter_backoff"
      OBVIOUS
  <2>1. CASE k = 1
      BY <1>1, <2>1
  <2>2. CASE k # 1
    <3>1. k - 1 \in 1..Len(todo') /\ todo'[k - 1] = todo[k]
        BY <1>1, <2>2
    <3> QED
        BY <3>1
  <2> QED
      BY <2>1, <2>2
<1> QED
    BY <1>2, <1>3, <1>4, <1>5, <1>6

\* Connected: a callback that calls mark_disconnected.
LEMMA ConnectedNested ==
    ASSUME ROInv, ~Quiet, Go(MarkDisconnected), rstate = "Connected", UNCHANGED <<rstate, stream, polled>>
    PROVE  ConnectedWork'
<1> DEFINE n == Len(todo')
<1>1. /\ Len(MarkDisconnected) = 5 /\ n = 5 + Len(todo) - 1 /\ Len(todo) \in Nat \ {0}
      /\ \A i \in 1..5 : todo'[i] = MarkDisconnected[i]
      /\ \A i \in 6..n : todo'[i] = todo[i - 4]
  <2>1. Len(MarkDisconnected) = 5
      BY DEF MarkDisconnected
  <2>2. /\ n = Len(MarkDisconnected) + Len(todo) - 1 /\ Len(todo) \in Nat \ {0}
        /\ \A i \in 1..Len(MarkDisconnected) : todo'[i] = MarkDisconnected[i]
        /\ \A i \in (Len(MarkDisconnected) + 1)..n : todo'[i] = todo[i - Len(MarkDisconnected) + 1]
      BY GoLeaves, CallsLabelled
  <2>3. \A i \in 6..n : i - 5 + 1 = i - 4
      BY <2>1, <2>2
  <2> QED
      BY <2>1, <2>2, <2>3
<1>2. /\ n \in Nat /\ n >= 5 /\ 3 \in 1..n /\ 5 \in 1..n
      /\ todo'[1] = "detach" /\ todo'[2] = "on_disconnect" /\ todo'[3] = "reset"
      /\ todo'[4] = "DisconnectDetected" /\ todo'[5] = "enter_backoff"
    BY <1>1 DEF MarkDisconnected
<1>3. \A i \in 1..n : i = 1 \/ i = 2 \/ i = 3 \/ i = 4 \/ i = 5 \/ i \in 6..n
    BY <1>2
<1>4. \A i \in 6..n : i - 4 \in 2..Len(todo) /\ i - 4 \in 1..Len(todo) /\ i - 4 # 1 /\ i > 5
    BY <1>1
<1> USE DEF ROInv, ConnectedWork
<1>5. \A i \in 6..n : todo'[i] \in LeftOver
    BY <1>1, <1>4
<1>6. \A i \in 1..n : todo'[i] \in LeftOver \/ (i = 1 /\ todo'[i] = "detach")
    BY <1>2, <1>3, <1>5 DEF LeftOver
<1>7. ASSUME NEW i \in 1..n, todo'[i] = "enter_backoff"
      PROVE  \E j \in 1..n : j < i /\ todo'[j] = "reset"
  <2>1. 3 < i
      BY <1>2, <1>3, <1>4, <1>7
  <2> QED
      BY <1>2, <2>1
<1>8. ASSUME NEW i \in 1..n, todo'[i] \in {"detach", "reset"}
      PROVE  \E j \in 1..n : i < j /\ todo'[j] = "enter_backoff"
  <2>1. CASE i \in 6..n
    <3>1. PICK j \in 1..Len(todo) : i - 4 < j /\ todo[j] = "enter_backoff"
        BY <1>1, <1>4, <1>8, <2>1
    <3>2. j + 4 \in 6..n /\ j + 4 \in 1..n /\ i < j + 4 /\ j + 4 - 4 = j
        BY <1>1, <2>1, <3>1
    <3>3. todo'[j + 4] = todo[j]
        BY <1>1, <3>2
    <3> QED
        BY <3>1, <3>2, <3>3
  <2>2. CASE i \in 1..3
      BY <1>2, <2>2
  <2> QED
      BY <1>2, <1>3, <1>8, <2>1, <2>2
<1>9. polled' => stream' # "none"
    OBVIOUS
<1>10. ~(\A i \in 1..n : todo'[i] # "enter_backoff")
    BY <1>2
<1> QED
    BY <1>2, <1>6, <1>7, <1>8, <1>9, <1>10

\* Elsewhere what is left is one of a few lists, or left-over steps.
LEMMA OtherDone ==
    ASSUME ROInv, ~Quiet, Done, rstate # "Connected", Head(todo) \in LeftOver \cup Callbacks,
           Head(todo) \notin {"enter_backoff", "reset"}, UNCHANGED <<rstate, stream, polled, wait>>
    PROVE  StreamByWork' /\ (rstate = "Connecting" => (todo' \in Trying <=> todo \in Trying))
<1>1. /\ todo' = Tail(todo) /\ todo # << >>
      /\ todo \in Seq(LeftOver) => todo' \in Seq(LeftOver)
    BY DoneLeaves
<1>2. Head(todo) \notin {"connecting", "factory", "detach", "promote"}
    BY DEF LeftOver, Callbacks, Events
<1> USE DEF ROInv, StreamByWork, NoStream, HasStream
<1>3. CASE rstate = "Idle"
    BY <1>1, <1>2, <1>3 DEF Attempt
<1>4. CASE rstate \in {"Backoff", "Failed"}
    BY <1>1, <1>2, <1>4 DEF Attempt
<1>5. CASE rstate = "Connecting"
  <2>1. CASE todo = TearDown \/ todo = Promote
      BY <1>2, <2>1 DEF TearDown, Promote
  <2>2. CASE todo \in TearingDown /\ ~polled
    <3>1. /\ todo = <<"on_disconnect", "reset", "AttemptFailed", "enter_backoff">>
          /\ todo' = <<"reset", "AttemptFailed", "enter_backoff">>
      <4>1. Head(<<"reset", "AttemptFailed", "enter_backoff">>) = "reset"
          OBVIOUS
      <4>2. todo = <<"on_disconnect", "reset", "AttemptFailed", "enter_backoff">>
          BY <2>2, <4>1 DEF TearingDown
      <4> QED
          BY <1>1, <4>2
    <3>2. todo' \in TearingDown /\ todo' \notin Trying /\ todo \notin Trying
        BY <3>1 DEF TearingDown, Trying
    <3> QED
        BY <1>5, <2>2, <3>2
  <2>3. CASE todo \in Trying /\ NoStream
    <3>1. todo = <<"AttemptStarted", "factory">> /\ todo' = <<"factory">>
      <4>1. Head(<<"factory">>) = "factory"
          OBVIOUS
      <4>2. todo = <<"AttemptStarted", "factory">>
          BY <1>2, <2>3, <4>1 DEF Trying
      <4> QED
          BY <1>1, <4>2
    <3>2. todo' \in Trying
        BY <3>1 DEF Trying
    <3> QED
        BY <1>5, <2>3, <3>2
  <2>4. CASE todo \in GivingUp /\ NoStream
    <3>1. \/ /\ todo = <<"on_disconnect", "AttemptFailed", "enter_backoff">>
             /\ todo' = <<"AttemptFailed", "enter_backoff">>
          \/ /\ todo = <<"on_disconnect", "AttachFailed", "enter_backoff">>
             /\ todo' = <<"AttachFailed", "enter_backoff">>
          \/ /\ todo \in {<<"AttachFailed", "enter_backoff">>, <<"AttemptFailed", "enter_backoff">>}
             /\ todo' = <<"enter_backoff">>
      <4>1. /\ Head(<<"enter_backoff">>) = "enter_backoff"
            /\ Tail(<<"on_disconnect", "AttemptFailed", "enter_backoff">>) = <<"AttemptFailed", "enter_backoff">>
            /\ Tail(<<"on_disconnect", "AttachFailed", "enter_backoff">>) = <<"AttachFailed", "enter_backoff">>
            /\ Tail(<<"AttemptFailed", "enter_backoff">>) = <<"enter_backoff">>
            /\ Tail(<<"AttachFailed", "enter_backoff">>) = <<"enter_backoff">>
          OBVIOUS
      <4>2. todo # <<"enter_backoff">>
          BY <4>1
      <4>3. todo \in {<<"on_disconnect", "AttemptFailed", "enter_backoff">>, <<"on_disconnect", "AttachFailed", "enter_backoff">>,
                      <<"AttemptFailed", "enter_backoff">>, <<"AttachFailed", "enter_backoff">>}
          BY <2>4, <4>2 DEF GivingUp
      <4> QED
          BY <1>1, <4>1, <4>3
    <3>2. todo' \in GivingUp /\ todo' \notin Trying /\ todo \notin Trying
        BY <3>1 DEF GivingUp, Trying
    <3> QED
        BY <1>5, <2>4, <3>2
  <2> QED
      BY <1>1, <1>5, <2>1, <2>2, <2>3, <2>4
<1> QED
    BY <1>3, <1>4, <1>5 DEF ROTypeOK, ReconnectStates

LEMMA TriesDone ==
    ASSUME ROInv, ~Quiet, Done, UNCHANGED <<rstate, attempts, tries>>,
           rstate = "Connecting" => (todo' \in Trying <=> todo \in Trying)
    PROVE  TriesPaid'
<1>1. \A i \in 1..Len(todo') : i + 1 \in 1..Len(todo) /\ todo'[i] = todo[i + 1]
    BY DoneLeaves
<1> QED
    BY <1>1 DEF ROInv, TriesPaid

LEMMA CallbackKeeps ==
    ASSUME ROInv, Callback PROVE ROInv'
<1>1. /\ ~Quiet /\ Head(todo) \in Callbacks
      /\ UNCHANGED <<rstate, stream, polled, policy, wait, waited, reachable, tries>>
    BY DEF Callback
<1>2. Head(todo) \notin {"detach", "reset", "enter_backoff"}
    BY <1>1 DEF Callbacks, Events
<1>3. stopped' \in BOOLEAN
  <2>1. stopped' = TRUE \/ stopped' = stopped
      BY DEF Callback
  <2>2. stopped \in BOOLEAN
      BY DEF ROInv, ROTypeOK
  <2> QED
      BY <2>1, <2>2, Zenon
<1>4. reentries' \in 0..MaxReentries
    BY PolicyAssumption DEF Callback, ROInv, ROTypeOK
<1>5. ROTypeOK'
    BY <1>1, <1>3, <1>4 DEF ROInv, ROTypeOK, policy
<1>6. CASE Done
  <2>1. todo' \in Seq(StepLabels)
      BY <1>1, <1>6, DoneLeaves
  <2>2. CASE rstate = "Connected"
    <3>1. ConnectedWork'
        BY <1>1, <1>2, <1>6, <2>2, ConnectedDone
    <3>2. StreamByWork'
        BY <1>1, <2>2 DEF StreamByWork
    <3>3. TriesPaid'
        BY <1>1, <1>6, <2>2, TriesDone DEF policy
    <3> QED
        BY <1>5, <2>1, <3>1, <3>2, <3>3 DEF ROInv
  <2>3. CASE rstate # "Connected"
    <3>1. StreamByWork' /\ (rstate = "Connecting" => (todo' \in Trying <=> todo \in Trying))
        BY <1>1, <1>2, <1>6, <2>3, OtherDone
    <3>2. TriesPaid'
        BY <1>1, <1>6, <3>1, TriesDone DEF policy
    <3>3. ConnectedWork'
        BY <1>1, <2>3 DEF ConnectedWork
    <3> QED
        BY <1>5, <2>1, <3>1, <3>2, <3>3 DEF ROInv
  <2> QED
      BY <2>2, <2>3
<1>7. CASE MayDisconnect /\ Go(MarkDisconnected)
  <2>1. rstate = "Connected" /\ rstate' = "Connected" /\ tries = 0 /\ tries' = 0
      BY <1>1, <1>7 DEF MayDisconnect, ROInv, TriesPaid
  <2>2. ConnectedWork' /\ todo' \in Seq(StepLabels)
      BY <1>1, <1>7, <2>1, ConnectedNested, GoLeaves, CallsLabelled
  <2>3. TriesPaid'
      BY <1>1, <2>1 DEF policy, ROInv, TriesPaid
  <2> QED
      BY <1>5, <2>1, <2>2, <2>3 DEF ROInv, StreamByWork
<1> QED
    BY <1>6, <1>7 DEF Callback

\* The label at the top of the stack, by state.
LEMMA HeadByState ==
    ASSUME ROInv, ~Quiet
    PROVE  /\ rstate = "Idle" => todo = Attempt /\ Head(todo) = "connecting"
           /\ rstate = "Backoff" => Head(todo) \in LeftOver \/ (todo = Attempt /\ Head(todo) = "connecting")
           /\ rstate = "Failed" => Head(todo) \in LeftOver
           /\ rstate = "Connected" => Head(todo) \in LeftOver \cup {"detach"}
           /\ rstate = "Connecting" =>
                 /\ Head(todo) = "detach" => todo = TearDown
                 /\ Head(todo) = "promote" => todo = Promote
                 /\ Head(todo) = "reset" => todo = <<"reset", "AttemptFailed", "enter_backoff">>
                 /\ Head(todo) = "factory" => todo = <<"factory">>
                 /\ Head(todo) = "enter_backoff" => todo = <<"enter_backoff">>
                 /\ Head(todo) \notin {"connecting", "policy_reset"}
<1> USE DEF ROInv, StreamByWork, Quiet
<1>1. todo \in Seq(StepLabels) /\ todo # << >> /\ Head(todo) = todo[1] /\ 1 \in 1..Len(todo)
    OBVIOUS
<1>2. rstate = "Idle" => todo = Attempt /\ Head(todo) = "connecting"
    BY <1>1 DEF Attempt
<1>3. rstate = "Backoff" => Head(todo) \in LeftOver \/ (todo = Attempt /\ Head(todo) = "connecting")
    BY <1>1 DEF Attempt
<1>4. rstate = "Failed" => Head(todo) \in LeftOver
    BY <1>1
<1>5. rstate = "Connected" => Head(todo) \in LeftOver \cup {"detach"}
    BY <1>1 DEF ConnectedWork
<1>6. ASSUME rstate = "Connecting"
      PROVE  /\ Head(todo) = "detach" => todo = TearDown
             /\ Head(todo) = "promote" => todo = Promote
             /\ Head(todo) = "reset" => todo = <<"reset", "AttemptFailed", "enter_backoff">>
             /\ Head(todo) = "factory" => todo = <<"factory">>
             /\ Head(todo) = "enter_backoff" => todo = <<"enter_backoff">>
             /\ Head(todo) \notin {"connecting", "policy_reset"}
  <2>1. Head(TearDown) = "detach" /\ Head(Promote) = "promote"
      BY DEF TearDown, Promote
  <2>2. \A t \in TearingDown : Head(t) = "on_disconnect" \/ t = <<"reset", "AttemptFailed", "enter_backoff">>
      BY DEF TearingDown
  <2>3. Head(<<"reset", "AttemptFailed", "enter_backoff">>) = "reset"
      OBVIOUS
  <2>4. \A t \in Trying : Head(t) = "AttemptStarted" \/ (t = <<"factory">> /\ Head(t) = "factory")
      BY DEF Trying
  <2>5. \A t \in GivingUp : Head(t) \in {"on_disconnect", "AttemptFailed", "AttachFailed"}
                            \/ (t = <<"enter_backoff">> /\ Head(t) = "enter_backoff")
      BY DEF GivingUp
  <2>6. todo = TearDown \/ todo = Promote \/ todo \in TearingDown \/ todo \in Trying \/ todo \in GivingUp
      BY <1>1, <1>6
  <2> QED
      BY <2>1, <2>2, <2>3, <2>4, <2>5, <2>6
<1> QED
    BY <1>2, <1>3, <1>4, <1>5, <1>6

LEMMA DetachKeeps ==
    ASSUME ROInv, Detach PROVE ROInv'
<1>1. /\ ~Quiet /\ Head(todo) = "detach" /\ Done /\ rstate \in {"Connecting", "Connected"}
      /\ UNCHANGED <<rstate, stream, stopped, policy, wait, waited, reentries, reachable, tries, lastEvent>>
    BY HeadByState DEF Detach, Doing, LeftOver, ROInv, ROTypeOK, ReconnectStates
<1>2. polled' \in BOOLEAN
    BY Zenon DEF Detach
<1>3. ROTypeOK'
    BY <1>1, <1>2 DEF ROInv, ROTypeOK, policy
<1>4. /\ todo' = Tail(todo) /\ todo' \in Seq(StepLabels) /\ Len(todo') = Len(todo) - 1
      /\ Len(todo) \in Nat \ {0} /\ \A i \in 1..Len(todo') : todo'[i] = todo[i + 1]
      /\ todo[1] = Head(todo) /\ \A i \in 1..Len(todo) : i = 1 \/ i - 1 \in 1..Len(todo')
    BY <1>1, DoneLeaves
<1>5. CASE rstate = "Connecting"
  <2>1. todo = TearDown /\ HasStream
      BY <1>1, <1>5, HeadByState DEF ROInv, StreamByWork, TearDown, TearingDown, Promote, Trying, GivingUp
  <2>2. todo' = <<"on_disconnect", "reset", "AttemptFailed", "enter_backoff">> /\ ~polled'
    <3>1. Tail(TearDown) = <<"on_disconnect", "reset", "AttemptFailed", "enter_backoff">>
        BY DEF TearDown
    <3> QED
        BY <1>4, <2>1, <3>1 DEF HasStream, Detach
  <2>3. todo' \in TearingDown /\ todo' \notin Trying /\ todo \notin Trying
      BY <2>1, <2>2 DEF TearingDown, Trying, TearDown
  <2>4. TriesPaid'
      BY <1>1, <2>3, TriesDone DEF policy
  <2> QED
      BY <1>1, <1>3, <1>4, <1>5, <2>2, <2>3, <2>4 DEF ROInv, StreamByWork, ConnectedWork
<1>6. CASE rstate = "Connected"
  <2>1. ~polled'
      BY <1>6 DEF Detach, ROInv, ConnectedWork
  <2>2. TriesPaid'
      BY <1>1, <1>6, TriesDone DEF policy
  <2> USE DEF ROInv, ConnectedWork
  <2>3. \A i \in 1..Len(todo') : i + 1 \in 1..Len(todo) /\ i + 1 # 1 /\ todo'[i] = todo[i + 1]
      BY <1>4
  <2>4. \A i \in 1..Len(todo') : todo'[i] \in LeftOver
      BY <1>6, <2>3
  <2>5. ASSUME NEW i \in 1..Len(todo'), todo'[i] = "enter_backoff"
        PROVE  stream = "none" \/ \E j \in 1..Len(todo') : j < i /\ todo'[j] = "reset"
    <3>1. CASE stream # "none"
      <4>1. PICK j \in 1..Len(todo) : j < i + 1 /\ todo[j] = "reset"
          BY <1>6, <2>3, <2>5, <3>1
      <4>2. j # 1
          BY <1>1, <1>4, <4>1
      <4>3. j - 1 \in 1..Len(todo') /\ j - 1 < i /\ j - 1 + 1 = j
          BY <1>4, <4>1, <4>2
      <4>4. todo'[j - 1] = "reset"
          BY <1>4, <4>1, <4>3
      <4> QED
          BY <4>3, <4>4
    <3> QED
        BY <3>1
  <2>6. ASSUME NEW i \in 1..Len(todo')
        PROVE  /\ todo'[i] \in {"detach", "reset"} =>
                     \E j \in 1..Len(todo') : i < j /\ todo'[j] = "enter_backoff"
               /\ \E k \in 1..Len(todo') : todo'[k] = "enter_backoff"
    <3>1. PICK k \in 1..Len(todo) : 1 < k /\ todo[k] = "enter_backoff"
        BY <1>1, <1>4, <1>6
    <3>2. k - 1 \in 1..Len(todo') /\ todo'[k - 1] = "enter_backoff"
        BY <1>4, <3>1
    <3>3. CASE todo'[i] \in {"detach", "reset"}
      <4>1. PICK j \in 1..Len(todo) : i + 1 < j /\ todo[j] = "enter_backoff"
          BY <1>6, <2>3, <3>3
      <4>2. j - 1 \in 1..Len(todo') /\ i < j - 1 /\ todo'[j - 1] = "enter_backoff"
          BY <1>4, <4>1
      <4> QED
          BY <3>2, <4>2
    <3> QED
        BY <3>2, <3>3
  <2>7. \E k \in 1..Len(todo') : todo'[k] = "enter_backoff"
    <3>1. PICK k \in 1..Len(todo) : 1 < k /\ todo[k] = "enter_backoff"
        BY <1>1, <1>4, <1>6
    <3>2. k - 1 \in 1..Len(todo') /\ todo'[k - 1] = "enter_backoff"
        BY <1>4, <3>1
    <3> QED
        BY <3>2
  <2>8. ConnectedWork'
      BY <1>1, <2>1, <2>4, <2>5, <2>6, <2>7
  <2> QED
      BY <1>1, <1>3, <1>4, <1>6, <2>2, <2>8 DEF StreamByWork
<1> QED
    BY <1>1, <1>5, <1>6

LEMMA ResetKeeps ==
    ASSUME ROInv, ResetStream PROVE ROInv'
<1>1. /\ ~Quiet /\ Head(todo) = "reset" /\ Done /\ rstate # "Idle" /\ stream' = "none"
      /\ UNCHANGED <<rstate, polled, stopped, policy, wait, waited, reentries, reachable, tries, lastEvent>>
    BY HeadByState DEF ResetStream, Doing, LeftOver
<1>2. ROTypeOK'
    BY <1>1 DEF ROInv, ROTypeOK, policy
<1>3. /\ todo' = Tail(todo) /\ todo' \in Seq(StepLabels) /\ Len(todo') = Len(todo) - 1
      /\ Len(todo) \in Nat \ {0} /\ \A i \in 1..Len(todo') : todo'[i] = todo[i + 1]
      /\ todo[1] = Head(todo) /\ \A i \in 1..Len(todo) : i = 1 \/ i - 1 \in 1..Len(todo')
      /\ todo \in Seq(LeftOver) => todo' \in Seq(LeftOver)
    BY <1>1, DoneLeaves
<1>4. CASE rstate = "Connecting"
  <2>1. todo = <<"reset", "AttemptFailed", "enter_backoff">>
      BY <1>1, <1>4, HeadByState
  <2>2. todo' = <<"AttemptFailed", "enter_backoff">>
      BY <1>3, <2>1
  <2>3. ~polled /\ todo' \in GivingUp /\ todo' \notin Trying /\ todo \notin Trying
      BY <1>4, <2>1, <2>2 DEF ROInv, StreamByWork, TearDown, TearingDown, Promote, Trying, GivingUp, NoStream
  <2>4. TriesPaid'
      BY <1>1, <2>3, TriesDone DEF policy
  <2> QED
      BY <1>1, <1>2, <1>3, <1>4, <2>3, <2>4 DEF ROInv, StreamByWork, ConnectedWork, NoStream
<1>5. CASE rstate \in {"Backoff", "Failed"}
  <2>1. todo \in Seq(LeftOver) /\ NoStream
      BY <1>1, <1>5 DEF ROInv, StreamByWork, Attempt
  <2>2. TriesPaid'
      BY <1>1, <1>5, TriesDone DEF policy
  <2> QED
      BY <1>1, <1>2, <1>3, <1>5, <2>1, <2>2 DEF ROInv, StreamByWork, ConnectedWork, NoStream
<1>6. CASE rstate = "Connected"
  <2>1. TriesPaid'
      BY <1>1, <1>6, TriesDone DEF policy
  <2> USE DEF ROInv, ConnectedWork
  <2>2. ~polled /\ 1 \in 1..Len(todo) /\ todo[1] = "reset"
      BY <1>1, <1>3, <1>6
  <2>3. \A i \in 1..Len(todo') : i + 1 \in 1..Len(todo) /\ todo'[i] = todo[i + 1] /\ todo'[i] \in LeftOver
      BY <1>3, <1>6
  <2>4. \E k \in 1..Len(todo') : todo'[k] = "enter_backoff"
    <3>1. PICK k \in 1..Len(todo) : 1 < k /\ todo[k] = "enter_backoff"
        BY <1>6, <2>2
    <3>2. k - 1 \in 1..Len(todo') /\ todo'[k - 1] = "enter_backoff"
        BY <1>3, <3>1
    <3> QED
        BY <3>2
  <2>5. ASSUME NEW i \in 1..Len(todo'), todo'[i] \in {"detach", "reset"}
        PROVE  \E j \in 1..Len(todo') : i < j /\ todo'[j] = "enter_backoff"
    <3>1. PICK j \in 1..Len(todo) : i + 1 < j /\ todo[j] = "enter_backoff"
        BY <1>6, <2>3, <2>5
    <3>2. j - 1 \in 1..Len(todo') /\ i < j - 1 /\ todo'[j - 1] = "enter_backoff"
        BY <1>3, <3>1
    <3> QED
        BY <3>2
  <2>6. ConnectedWork'
      BY <1>1, <2>2, <2>3, <2>4, <2>5
  <2> QED
      BY <1>1, <1>2, <1>3, <1>6, <2>1, <2>6 DEF StreamByWork
<1> QED
    BY <1>1, <1>4, <1>5, <1>6 DEF ROInv, ROTypeOK, ReconnectStates

LEMMA BeginAttemptKeeps ==
    ASSUME ROInv, BeginAttempt PROVE ROInv'
<1>1. /\ ~Quiet /\ Head(todo) = "connecting" /\ Done /\ rstate' = "Connecting"
      /\ UNCHANGED <<stream, polled, stopped, policy, wait, waited, reentries, reachable, tries, lastEvent>>
    BY DEF BeginAttempt, Doing
<1>2. rstate \in {"Idle", "Backoff"} /\ todo = Attempt
    BY <1>1, HeadByState DEF ROInv, ROTypeOK, ReconnectStates, LeftOver
<1>3. ROTypeOK'
    BY <1>1 DEF ROInv, ROTypeOK, policy, ReconnectStates
<1>4. todo' \in Seq(StepLabels) /\ todo' = Tail(todo)
    BY <1>1, DoneLeaves
<1>5. Tail(Attempt) = <<"AttemptStarted", "factory">>
    BY DEF Attempt
<1>6. todo' \in Trying
    BY <1>2, <1>4, <1>5 DEF Trying
<1>7. NoStream'
    BY <1>1, <1>2 DEF ROInv, StreamByWork, NoStream
<1>8. TriesPaid'
    BY <1>1, <1>2, <1>6 DEF ROInv, TriesPaid, policy
<1> QED
    BY <1>1, <1>3, <1>4, <1>6, <1>7, <1>8 DEF ROInv, StreamByWork, ConnectedWork

LEMMA FactoryKeeps ==
    ASSUME ROInv, Factory PROVE ROInv'
<1>1. /\ ~Quiet /\ Head(todo) = "factory" /\ tries' = tries + 1
      /\ UNCHANGED <<stopped, policy, wait, reentries, reachable, lastEvent>>
    BY DEF Factory, Doing
<1>2. rstate = "Connecting" /\ todo = <<"factory">> /\ Tail(todo) = << >>
  <2>1. rstate = "Connecting" /\ todo = <<"factory">>
      BY <1>1, HeadByState DEF ROInv, ROTypeOK, ReconnectStates, LeftOver
  <2> QED
      BY <2>1
<1>3. NoStream /\ todo \in Trying
    BY <1>2 DEF ROInv, StreamByWork, TearDown, TearingDown, Promote, Trying, GivingUp
<1>4. \/ /\ todo' \in {<<"on_disconnect", "AttemptFailed", "enter_backoff">>, <<"on_disconnect", "AttachFailed", "enter_backoff">>}
         /\ UNCHANGED <<stream, polled, waited, rstate>>
      \/ /\ polled' = TRUE /\ waited' = 0 /\ rstate' = "Connecting"
         /\ \/ stream' = "SynSent" /\ todo' = << >>
            \/ stream' = "Established" /\ todo' = Promote
  <2>1. /\ <<"on_disconnect", "AttemptFailed", "enter_backoff">> \o << >> = <<"on_disconnect", "AttemptFailed", "enter_backoff">>
        /\ <<"on_disconnect", "AttachFailed", "enter_backoff">> \o << >> = <<"on_disconnect", "AttachFailed", "enter_backoff">>
        /\ << >> \o << >> = << >>
      OBVIOUS
  <2>2. Promote \o << >> = Promote
      BY DEF Promote
  <2> QED
      BY <1>2, <2>1, <2>2 DEF Factory, Go, Done
<1>5. polled' \in BOOLEAN
  <2>1. polled \in BOOLEAN
      BY DEF ROInv, ROTypeOK
  <2> QED
      BY <1>4, <2>1, Zenon
<1>6. ROTypeOK'
    BY <1>1, <1>4, <1>5, PolicyAssumption DEF ROInv, ROTypeOK, policy, ReconnectStates
<1>7. todo' \in Seq(StepLabels)
  <2>1. /\ <<"on_disconnect", "AttemptFailed", "enter_backoff">> \in Seq(StepLabels)
        /\ <<"on_disconnect", "AttachFailed", "enter_backoff">> \in Seq(StepLabels)
        /\ << >> \in Seq(StepLabels)
      BY DEF StepLabels, LeftOver
  <2> QED
      BY <1>4, <2>1, CallsLabelled
<1>8. StreamByWork'
    BY <1>2, <1>3, <1>4 DEF StreamByWork, NoStream, HasStream, GivingUp
<1>9. todo' \notin Trying
    BY <1>4 DEF Trying, Promote
<1>10. TriesPaid'
    BY <1>1, <1>2, <1>3, <1>4, <1>9 DEF ROInv, ROTypeOK, TriesPaid, policy
<1> QED
    BY <1>2, <1>4, <1>6, <1>7, <1>8, <1>10 DEF ROInv, ConnectedWork

LEMMA PromoteKeeps ==
    ASSUME ROInv, PromoteToConnected PROVE ROInv'
<1>1. /\ ~Quiet /\ Head(todo) = "promote" /\ Done /\ rstate' = "Connected" /\ tries' = 0
      /\ UNCHANGED <<stream, polled, stopped, policy, wait, waited, reentries, reachable, lastEvent>>
    BY DEF PromoteToConnected, Doing
<1>2. rstate = "Connecting" /\ todo = Promote
    BY <1>1, HeadByState DEF ROInv, ROTypeOK, ReconnectStates, LeftOver
<1>3. HasStream
    BY <1>2 DEF ROInv, StreamByWork, TearDown, TearingDown, Promote, Trying, GivingUp
<1>4. todo' \in Seq(StepLabels) /\ todo' = Tail(todo)
    BY <1>1, DoneLeaves
<1>5. todo' = <<"on_reconnect", "Connected", "policy_reset">>
  <2>1. Tail(Promote) = <<"on_reconnect", "Connected", "policy_reset">>
      BY DEF Promote
  <2> QED
      BY <1>2, <1>4, <2>1
<1>6. Len(todo') = 3 /\ \A i \in 1..3 : todo'[i] \in {"on_reconnect", "Connected", "policy_reset"}
    BY <1>5
<1>7. ROTypeOK'
    BY <1>1 DEF ROInv, ROTypeOK, policy, ReconnectStates
<1>8. ConnectedWork'
    BY <1>1, <1>3, <1>6 DEF ConnectedWork, HasStream, LeftOver
<1>9. TriesPaid'
    BY <1>1, <1>6 DEF ROInv, TriesPaid, policy
<1> QED
    BY <1>1, <1>4, <1>7, <1>8, <1>9 DEF ROInv, StreamByWork

LEMMA PolicyResetKeeps ==
    ASSUME ROInv, PolicyReset PROVE ROInv'
<1>1. /\ ~Quiet /\ Head(todo) = "policy_reset" /\ Done /\ attempts' = 0 /\ currentBase' = InitialBackoff
      /\ UNCHANGED <<rstate, stream, polled, stopped, wait, waited, reentries, reachable, tries, lastEvent>>
    BY DEF PolicyReset, Doing
<1>2. rstate \notin {"Idle", "Connecting"}
    BY <1>1, HeadByState
<1>3. ROTypeOK'
    BY <1>1, PolicyAssumption DEF ROInv, ROTypeOK
<1>4. /\ todo' \in Seq(StepLabels) /\ todo[1] = "policy_reset" /\ 1 \in 1..Len(todo)
      /\ \A i \in 1..Len(todo') : i + 1 \in 1..Len(todo) /\ todo'[i] = todo[i + 1]
    BY <1>1, DoneLeaves
<1>5. tries = 0
    BY <1>2, <1>4 DEF ROInv, TriesPaid
<1>6. TriesPaid'
    BY <1>1, <1>2, <1>5, PolicyAssumption DEF TriesPaid
<1>7. StreamByWork' /\ ConnectedWork'
  <2>1. CASE rstate = "Connected"
    <3>1. ConnectedWork'
        BY <1>1, <2>1, ConnectedDone
    <3> QED
        BY <1>1, <2>1, <3>1 DEF StreamByWork
  <2>2. CASE rstate # "Connected"
    <3>1. StreamByWork'
        BY <1>1, <2>2, OtherDone DEF LeftOver
    <3> QED
        BY <1>1, <2>2, <3>1 DEF ConnectedWork
  <2> QED
      BY <2>1, <2>2
<1> QED
    BY <1>3, <1>4, <1>6, <1>7 DEF ROInv

LEMMA EnterBackoffKeeps ==
    ASSUME ROInv, EnterBackoff PROVE ROInv'
<1>1. /\ ~Quiet /\ Head(todo) = "enter_backoff"
      /\ UNCHANGED <<stream, polled, stopped, waited, reentries, reachable, tries, lastEvent>>
    BY DEF EnterBackoff, Doing
<1>2. todo[1] = "enter_backoff" /\ 1 \in 1..Len(todo) /\ Len(todo) \in Nat
    BY <1>1 DEF ROInv, Quiet
<1>3. rstate # "Idle" /\ NoStream
  <2>1. CASE rstate = "Connected"
    <3>1. ~\E j \in 1..Len(todo) : j < 1 /\ todo[j] = "reset"
        BY <1>2
    <3>2. stream = "none"
        BY <1>2, <2>1, <3>1 DEF ROInv, ConnectedWork
    <3> QED
        BY <2>1, <3>2 DEF ROInv, ConnectedWork, NoStream
  <2>2. CASE rstate = "Connecting"
    <3>1. todo = <<"enter_backoff">>
        BY <1>1, <2>2, HeadByState
    <3> QED
        BY <2>2, <3>1 DEF ROInv, StreamByWork, TearDown, TearingDown, Promote, Trying, GivingUp
  <2>3. CASE rstate \in {"Backoff", "Failed"}
      BY <2>3 DEF ROInv, StreamByWork
  <2> QED
      BY <1>1, <2>1, <2>2, <2>3, HeadByState DEF ROInv, ROTypeOK, ReconnectStates
<1>4. PICK e \in {"Failed", "BackoffScheduled"} : Go(<<e>>)
    BY DEF EnterBackoff
<1>5. Tail(todo) \in Seq(LeftOver)
  <2>1. CASE rstate = "Connecting"
    <3>1. todo = <<"enter_backoff">> /\ Tail(<<"enter_backoff">>) = << >>
        BY <1>1, <2>1, HeadByState
    <3> QED
        BY <3>1
  <2>2. CASE rstate # "Connecting"
    <3>1. \A i \in 1..Len(todo) : todo[i] \in LeftOver
      <4>1. CASE rstate = "Connected"
          BY <1>2, <4>1 DEF ROInv, ConnectedWork
      <4>2. CASE rstate \in {"Backoff", "Failed"}
        <5>1. todo \in Seq(LeftOver)
            BY <1>1, <4>2 DEF ROInv, StreamByWork, Attempt
        <5> QED
            BY <5>1
      <4> QED
          BY <1>3, <2>2, <4>1, <4>2 DEF ROInv, ROTypeOK, ReconnectStates
    <3>2. todo \in Seq(LeftOver) /\ todo # << >>
        BY <1>1, <3>1 DEF ROInv, Quiet
    <3> QED
        BY <3>2
  <2> QED
      BY <2>1, <2>2
<1>6. <<e>> \in Seq(StepLabels) /\ <<e>> \in Seq(LeftOver) /\ Len(<<e>>) = 1 /\ <<e>>[1] = e
    BY DEF StepLabels, LeftOver
<1>7. /\ todo' \in Seq(StepLabels) /\ Len(todo') = Len(todo)
      /\ todo'[1] = e /\ \A i \in 2..Len(todo') : todo'[i] = todo[i]
  <2>1. /\ todo' \in Seq(StepLabels) /\ Len(todo') = Len(<<e>>) + Len(todo) - 1
        /\ \A i \in 1..Len(<<e>>) : todo'[i] = <<e>>[i]
        /\ \A i \in (Len(<<e>>) + 1)..Len(todo') : todo'[i] = todo[i - Len(<<e>>) + 1]
      BY <1>1, <1>4, <1>6, GoLeaves
  <2>2. \A i \in 2..Len(todo') : i - 1 + 1 = i
      BY <1>2, <1>6, <2>1
  <2> QED
      BY <1>2, <1>6, <2>1, <2>2
<1>8. todo' \in Seq(LeftOver)
    BY <1>4, <1>5, <1>6 DEF Go
<1>9. ROTypeOK' /\ rstate' \in {"Backoff", "Failed"}
  <2>1. /\ attempts \in Nat /\ currentBase \in Nat /\ currentBase <= MaxBackoff /\ MaxBackoff \in Nat /\ MaxAttempts \in Nat
        /\ InitialBackoff \in Nat /\ InitialBackoff <= currentBase
      BY PolicyAssumption DEF ROInv, ROTypeOK
  <2>2. NextBase \in InitialBackoff..MaxBackoff /\ Capped(attempts + 1, MaxAttempts + 1) \in 0..(MaxAttempts + 1)
      BY <2>1 DEF NextBase, Capped
  <2>3. JitterAround(currentBase) \subseteq 0..(2 * MaxBackoff)
      BY <2>1 DEF JitterAround
  <2>4. /\ attempts' \in 0..(MaxAttempts + 1) /\ currentBase' \in InitialBackoff..MaxBackoff
        /\ wait' \in 0..(2 * MaxBackoff) /\ rstate' \in {"Backoff", "Failed"}
      BY <2>2, <2>3 DEF EnterBackoff, policy, ROInv, ROTypeOK
  <2> QED
      BY <1>1, <2>4 DEF ROInv, ROTypeOK, ReconnectStates
<1>10. TriesPaid'
  <2>1. tries \in Nat /\ attempts \in Nat /\ MaxAttempts \in Nat
      BY PolicyAssumption DEF ROInv, TriesPaid, ROTypeOK
  <2>2. rstate # "Connecting" => tries = 0
      BY <1>2 DEF ROInv, TriesPaid
  <2>3. rstate = "Connecting" => Len(todo') = 1
      BY <1>1, <1>7, HeadByState
  <2>4. \A i \in 1..Len(todo') : todo'[i] \in {"enter_backoff", "policy_reset"} => tries = 0
      BY <1>7, <2>2, <2>3
  <2>5. MaxAttempts # 0 =>
          /\ attempts' <= MaxAttempts
          /\ rstate' = "Backoff" => tries <= attempts'
          /\ rstate' = "Failed" => tries <= MaxAttempts + 1
    <3> SUFFICES ASSUME MaxAttempts # 0
                 PROVE  /\ attempts' <= MaxAttempts
                        /\ rstate' = "Backoff" => tries <= attempts'
                        /\ rstate' = "Failed" => tries <= MaxAttempts + 1
        OBVIOUS
    <3>1. attempts <= MaxAttempts /\ tries <= attempts + 1
        BY <2>1, <2>2 DEF ROInv, TriesPaid
    <3>2. CASE Exhausted
        BY <2>1, <3>1, <3>2 DEF EnterBackoff, policy
    <3>3. CASE ~Exhausted
        BY <2>1, <3>1, <3>3 DEF EnterBackoff, Exhausted, Capped
    <3> QED
        BY <3>2, <3>3
  <2> QED
      BY <1>1, <1>9, <2>1, <2>4, <2>5 DEF TriesPaid
<1> QED
    BY <1>1, <1>3, <1>7, <1>8, <1>9, <1>10 DEF ROInv, StreamByWork, ConnectedWork, NoStream

LEMMA RONextInv == ROInv /\ [RONext]_ROvars => ROInv'
<1> SUFFICES ASSUME ROInv, [RONext]_ROvars PROVE ROInv'
    OBVIOUS
<1> USE DEF StreamByWork, ConnectedWork, TriesPaid, NoStream, HasStream
<1>1. CASE UNCHANGED ROvars
    BY <1>1 DEF ROvars, ROInv, ROTypeOK, policy
<1>2. CASE CallStop
  <2>1. stopped' \in BOOLEAN
      BY <1>2, Zenon DEF CallStop
  <2> QED
      BY <1>2, <2>1 DEF CallStop, ROInv, ROTypeOK, policy
<1>3. CASE TimePasses
  <2>1. ROTypeOK'
      BY <1>3, PolicyAssumption DEF TimePasses, TimedOut, ROInv, ROTypeOK, policy
  <2>2. wait = 0 => wait' = 0
      BY <1>3 DEF TimePasses, ROInv, ROTypeOK
  <2> QED
      BY <1>3, <2>1, <2>2 DEF TimePasses, ROInv, policy
<1>4. CASE HandshakeEnds \/ StreamCloses
  <2>1. todo = << >> /\ stream \in {"SynSent", "Established"} /\ stream' \in {"Established", "Closed"}
      BY <1>4 DEF HandshakeEnds, StreamCloses, Quiet
  <2>2. UNCHANGED <<rstate, polled, stopped, policy, wait, waited, todo, reentries, reachable, tries, lastEvent>>
      BY <1>4 DEF HandshakeEnds, StreamCloses
  <2>3. rstate \in {"Connecting", "Connected"}
      BY <2>1 DEF ROInv, ROTypeOK, ReconnectStates
  <2>4. HasStream
      BY <2>1, <2>3 DEF ROInv, TearDown, TearingDown, Promote, Trying, GivingUp
  <2> QED
      BY <2>1, <2>2, <2>3, <2>4 DEF ROInv, ROTypeOK, policy
<1>5. CASE NetworkChanges
  <2>1. reachable' \in BOOLEAN
      BY <1>5, Zenon DEF NetworkChanges
  <2> QED
      BY <1>5, <2>1 DEF NetworkChanges, ROInv, ROTypeOK, policy
<1> QED
    BY <1>1, <1>2, <1>3, <1>4, <1>5, CallsKeep, CallbackKeeps, DetachKeeps, ResetKeeps, BeginAttemptKeeps,
       FactoryKeeps, PromoteKeeps, PolicyResetKeeps, EnterBackoffKeeps DEF RONext, ROStep

\* ReconnectOrchestrator: for every policy and timeout, and calls from inside
\* callbacks nested to any depth, the Poller never holds a destroyed stream, the
\* state and the stream agree between calls, the factory's calls stay within the
\* budget and no attempt starts before its delay is over.
THEOREM StreamAlwaysAccounted == ROSpec => []StreamAccounted
<1>1. ROInv => StreamAccounted
  <2> SUFFICES ASSUME ROInv PROVE StreamAccounted
      OBVIOUS
  <2>1. NoDanglingPoll
    <3>1. CASE rstate = "Connecting"
        BY <3>1 DEF ROInv, StreamByWork, NoDanglingPoll, NoStream, HasStream
    <3>2. CASE rstate # "Connecting"
        BY <3>2 DEF ROInv, StreamByWork, ConnectedWork, ROTypeOK, ReconnectStates, NoDanglingPoll, NoStream
    <3> QED
        BY <3>1, <3>2
  <2>2. StateMatchesStream
    <3> SUFFICES ASSUME Quiet PROVE StateMatchesStream
        BY DEF StateMatchesStream
    <3>1. todo = << >> /\ todo # TearDown /\ todo # Promote /\ todo \notin TearingDown \cup Trying \cup GivingUp
        BY DEF Quiet, TearDown, TearingDown, Promote, Trying, GivingUp
    <3>2. rstate \in {"Connecting", "Connected"} => HasStream
        BY <3>1 DEF ROInv, StreamByWork, ConnectedWork
    <3>3. rstate \notin {"Connecting", "Connected"} => NoStream
        BY DEF ROInv, StreamByWork, ROTypeOK, ReconnectStates
    <3>4. polled \in BOOLEAN
        BY DEF ROInv, ROTypeOK
    <3> QED
        BY <3>2, <3>3, <3>4, Zenon DEF StateMatchesStream, HasStream, NoStream
  <2>3. BudgetHolds
      BY PolicyAssumption DEF ROInv, TriesPaid, ROTypeOK, ReconnectStates, BudgetHolds
  <2>4. AttemptsAreSpaced
    <3> SUFFICES ASSUME Doing("connecting") PROVE wait = 0
        BY DEF AttemptsAreSpaced
    <3>1. ~Quiet /\ Head(todo) = "connecting" /\ rstate \in {"Idle", "Backoff"}
        BY HeadByState DEF Doing, ROInv, ROTypeOK, ReconnectStates, LeftOver
    <3>2. CASE rstate = "Idle"
        BY <3>2 DEF ROInv, StreamByWork
    <3>3. CASE rstate = "Backoff"
      <4>1. todo \notin Seq(LeftOver)
          BY <3>1 DEF LeftOver, Quiet
      <4> QED
          BY <3>3, <4>1 DEF ROInv, StreamByWork
    <3> QED
        BY <3>1, <3>2, <3>3
  <2> QED
      BY <2>1, <2>2, <2>3, <2>4 DEF StreamAccounted, ROInv
<1>2. ROSpec => ROInit /\ [][RONext]_ROvars
    BY DEF ROSpec
<1> QED
    BY <1>1, <1>2, ROInitInv, RONextInv, PTL

-----------------------------------------------------------------------------
(* OrderFlow: fractions in lowest terms.                                   *)

-----------------------------------------------------------------------------
(* Fractions. *)

Rat == Int \X (Nat \ {0})

\* p has the value n / d.
IsFrac(p, n, d) == p \in Rat /\ p[1] * d = n * p[2]

\* Max is what it says on a bounded set of naturals.
LEMMA Greatest ==
    ASSUME NEW d \in Nat, NEW T, T \subseteq 0..d, T # {}
    PROVE  Max(T) \in T /\ \A y \in T : y <= Max(T)
<1> DEFINE U == {k \in Nat : d - k \in T}
<1>1. U \subseteq Nat
    OBVIOUS
<1>2. U # {}
  <2>1. PICK t \in T : t \in 0..d
      OBVIOUS
  <2>2. d - t \in U
      BY <2>1
  <2> QED
      BY <2>2
<1> HIDE DEF U
<1>3. PICK k \in U : \A j \in U : k <= j
    BY <1>1, <1>2, LeastNat
<1>4. k \in Nat /\ d - k \in T
    BY <1>3 DEF U
<1>5. ASSUME NEW y \in T PROVE d - k >= y
  <2>1. y \in 0..d /\ d - y \in Nat /\ d - (d - y) = y
      OBVIOUS
  <2>2. d - y \in U
      BY <2>1 DEF U
  <2> QED
      BY <1>3, <1>4, <2>1, <2>2
<1>6. \E x \in T : \A y \in T : x >= y
    BY <1>4, <1>5
<1>7. Max(T) \in T /\ \A y \in T : Max(T) >= y
    BY <1>6 DEF Max
<1>8. PICK x \in T : x = Max(T)
    BY <1>7
<1>9. x \in Nat /\ (\A y \in T : x >= y) /\ T \subseteq Nat
    BY <1>7, <1>8
<1> QED
    BY <1>8, <1>9

\* Two fractions over different denominators have one value.
LEMMA IsFracTrans ==
    ASSUME NEW p, NEW n \in Int, NEW d \in Nat \ {0}, NEW m \in Int, NEW e \in Nat \ {0},
           IsFrac(p, n, d), n * e = m * d
    PROVE  IsFrac(p, m, e)
<1>1. PICK a \in Int, b \in Nat \ {0} : p = <<a, b>>
    BY DEF IsFrac, Rat
<1>2. a * d = n * b
    BY <1>1 DEF IsFrac
<1>3. d * (a * e) = (a * d) * e
    BY Mul3
<1>4. (a * d) * e = (n * b) * e
    BY <1>2
<1>5. (n * b) * e = (n * e) * b
    BY Mul3
<1>6. (n * e) * b = (m * d) * b
    OBVIOUS
<1>7. (m * d) * b = d * (m * b)
    BY Mul3
<1>8. a * e \in Int /\ m * b \in Int /\ d * (a * e) = d * (m * b)
    BY <1>3, <1>4, <1>5, <1>6, <1>7, Mul3
<1>9. a * e = m * b
    BY <1>8, Cancel
<1> QED
    BY <1>1, <1>9 DEF IsFrac, Rat

\* Frac divides both parts by their greatest common divisor.
Lowest(n, d, g, a, b) ==
    /\ Frac(n, d) = <<a, b>> /\ n = g * a /\ d = g * b
    /\ \A k \in Nat \ {0}, x \in Int, y \in Nat \ {0} : n = k * x /\ d = k * y => k <= g

\* What Frac computes: the quotients by the greatest common divisor.
LEMMA FracParts ==
    ASSUME NEW n \in Int, NEW d \in Nat \ {0}
    PROVE  \E g \in Nat \ {0}, a \in Int, b \in Nat \ {0} : Lowest(n, d, g, a, b)
<1> DEFINE D == {k \in 1..d : Divides(k, d) /\ Divides(k, Abs(n))}
           s == IF n < 0 THEN -1 ELSE 1
<1>1. Abs(n) \in Nat /\ n = s * Abs(n) /\ Abs(n) = s * n /\ s \in {1, -1}
    BY DEF Abs
<1>2. PICK m \in Nat : m = Abs(n)
    BY <1>1
<1>3. D \subseteq 0..d /\ D # {}
  <2>1. d % 1 = 0 /\ m % 1 = 0 /\ 1 \in 1..d
      OBVIOUS
  <2> QED
      BY <1>2, <2>1 DEF Divides
<1>4. PICK g \in D : g = Max(D) /\ \A k \in D : k <= g
    BY <1>3, Greatest
<1>5. g \in Nat \ {0} /\ d % g = 0 /\ m % g = 0
    BY <1>2 DEF Divides
<1>6. PICK b \in Int : b = d \div g /\ d = g * b
  <2>1. d \in Int /\ d \div g \in Int /\ d = g * (d \div g) + (d % g)
      BY <1>5, DivMod
  <2> QED
      BY <1>5, <2>1
<1>7. PICK c \in Int : c = m \div g /\ m = g * c
  <2>1. m \in Int /\ m \div g \in Int /\ m = g * (m \div g) + (m % g)
      BY <1>5, DivMod
  <2> QED
      BY <1>5, <2>1
<1>8. b \in Nat \ {0}
    BY <1>5, <1>6
<1>9. PICK a \in Int : a = s * c
    BY <1>1
<1>10. n = g * a
    BY <1>1, <1>2, <1>5, <1>7, <1>9
<1>11. Frac(n, d) = <<a, b>>
    BY <1>2, <1>4, <1>6, <1>7, <1>9 DEF Frac
<1>12. ASSUME NEW k \in Nat \ {0}, NEW x \in Int, NEW y \in Nat \ {0}, n = k * x, d = k * y
       PROVE  k <= g
  <2>1. y >= 1 /\ k * y >= k
      BY Mul3, MulGe
  <2>2. k \in 1..d
      BY <1>12, <2>1
  <2>3. \A z \in Int : (k * z) % k = 0
    <3> TAKE z \in Int
    <3>0. PICK w \in Int : w = k * z
        BY Mul3
    <3>a. w \div k \in Int /\ w % k \in 0..(k - 1) /\ w = k * (w \div k) + (w % k)
        BY DivMod
    <3>1. PICK q \in Int, r \in 0..(k - 1) : r = w % k /\ w = k * q + r
        BY <3>a
    <3>2. 0 \in 0..(k - 1) /\ k * q + r = k * z + 0
        BY <3>0, <3>1
    <3>3. r = 0
        BY <3>2, DivUnique
    <3> QED
        BY <3>0, <3>1, <3>3
  <2>4. d % k = 0
      BY <1>12, <2>3
  <2>5. m = k * (s * x) /\ s * x \in Int
      BY <1>1, <1>2, <1>12
  <2>6. m % k = 0
      BY <2>3, <2>5
  <2>7. k \in D
      BY <1>2, <2>2, <2>4, <2>6 DEF Divides
  <2> QED
      BY <1>4, <2>7
<1> HIDE DEF D, s
<1> QED
    BY <1>5, <1>8, <1>10, <1>6, <1>11, <1>12 DEF Lowest

\* Frac keeps the value.
LEMMA FracValue ==
    ASSUME NEW n \in Int, NEW d \in Nat \ {0}
    PROVE  IsFrac(Frac(n, d), n, d)
<1>1. PICK g \in Nat \ {0}, a \in Int, b \in Nat \ {0} : Lowest(n, d, g, a, b)
    BY FracParts
<1>2. Frac(n, d) = <<a, b>> /\ n = g * a /\ d = g * b
    BY <1>1 DEF Lowest
<1>3. a * d = n * b
    BY <1>2, Mul3
<1> QED
    BY <1>2, <1>3 DEF IsFrac, Rat

\* The denominator Frac leaves is the least one the value has.
LEMMA FracLeast ==
    ASSUME NEW n \in Int, NEW d \in Nat \ {0}, NEW p \in Int, NEW q \in Nat \ {0}, p * d = n * q
    PROVE  Frac(n, d)[2] <= q
<1>0. PICK g \in Nat \ {0}, a \in Int, b \in Nat \ {0} : Lowest(n, d, g, a, b)
    BY FracParts
<1>1. /\ Frac(n, d) = <<a, b>> /\ n = g * a /\ d = g * b
      /\ \A k \in Nat \ {0}, x \in Int, y \in Nat \ {0} : n = k * x /\ d = k * y => k <= g
    BY <1>0 DEF Lowest
<1> DEFINE Y == {y \in Nat \ {0} : \E x \in Int : x * d = n * y}
<1>2. Y \subseteq Nat /\ q \in Y /\ d \in Y
    BY Mul3
<1>3. PICK y \in Y : \A z \in Y : y <= z
  <2> HIDE DEF Y
  <2> QED
      BY <1>2, LeastNat
<1>4. PICK x \in Int : x * d = n * y
    OBVIOUS
<1>5. y \in Nat \ {0}
    OBVIOUS
<1>6. PICK k \in Int, r \in 0..(y - 1) : d = y * k + r
  <2>1. d \in Int /\ d \div y \in Int /\ d % y \in 0..(y - 1) /\ d = y * (d \div y) + (d % y)
      BY <1>5, DivMod
  <2> QED
      BY <2>1
<1>7. r = 0
  <2> SUFFICES ASSUME r # 0 PROVE FALSE
      OBVIOUS
  <2>1. (n - k * x) * d = n * r
    <3>1. (n - k * x) * d = n * d - (k * x) * d /\ k * x \in Int
        BY Mul3
    <3>2. (k * x) * d = k * (x * d) /\ k * (x * d) = k * (n * y) /\ k * (n * y) = n * (y * k)
        BY <1>4, <1>5, Mul3
    <3>3. n * d = n * (y * k + r) /\ n * (y * k + r) = n * (y * k) + n * r /\ n * (y * k) \in Int /\ n * r \in Int
        BY <1>5, <1>6, Mul3
    <3> QED
        BY <3>1, <3>2, <3>3
  <2>2. r \in Nat \ {0} /\ n - k * x \in Int
      BY Mul3
  <2>3. r \in Y
      BY <2>1, <2>2
  <2> QED
      BY <1>3, <1>5, <2>2, <2>3
<1>8. d = k * y /\ k \in Nat \ {0}
    BY <1>5, <1>6, <1>7, Mul3
<1>9. n = k * x
  <2>1. y * n = y * (k * x)
    <3>1. y * n = x * d /\ x * d = x * (k * y) /\ x * (k * y) = y * (k * x)
        BY <1>4, <1>5, <1>8, Mul3
    <3> QED
        BY <3>1
  <2>2. k * x \in Int
      BY Mul3
  <2> QED
      BY <1>5, <2>1, <2>2, Cancel
<1>10. k <= g
    BY <1>1, <1>5, <1>8, <1>9
<1>11. g * b = k * y
    BY <1>1, <1>8
<1>12. b <= y
  <2> SUFFICES ASSUME b >= y + 1 PROVE FALSE
      BY <1>5
  <2>1. g * b >= k * b
    <3>1. (g - k) * b >= 0 /\ (g - k) * b = g * b - k * b
        BY <1>8, <1>10, Mul3
    <3> QED
        BY <1>8, <3>1
  <2>2. k * b >= k * (y + 1) /\ k * (y + 1) = k * y + k
    <3>1. k * (b - (y + 1)) >= 0 /\ k * (b - (y + 1)) = k * b - k * (y + 1)
        BY <1>5, <1>8, Mul3
    <3>2. k * (y + 1) = k * y + k
        BY <1>5, <1>8, Mul3
    <3> QED
        BY <1>5, <1>8, <3>1, <3>2
  <2> QED
      BY <1>5, <1>8, <1>11, <2>1, <2>2
<1>13. y <= q
    BY <1>2, <1>3
<1> QED
    BY <1>1, <1>5, <1>12, <1>13

\* Equal values have one form.
LEMMA FracSame ==
    ASSUME NEW n \in Int, NEW d \in Nat \ {0}, NEW m \in Int, NEW e \in Nat \ {0}, n * e = m * d
    PROVE  Frac(n, d) = Frac(m, e)
<1>1. IsFrac(Frac(n, d), n, d) /\ IsFrac(Frac(m, e), m, e)
    BY FracValue
<1>2. IsFrac(Frac(n, d), m, e) /\ IsFrac(Frac(m, e), n, d)
    BY <1>1, IsFracTrans
<1>3. PICK a \in Int, b \in Nat \ {0} : Frac(n, d) = <<a, b>>
    BY <1>1 DEF IsFrac, Rat
<1>4. PICK p \in Int, q \in Nat \ {0} : Frac(m, e) = <<p, q>>
    BY <1>1 DEF IsFrac, Rat
<1>5. a * d = n * b /\ p * d = n * q /\ a * e = m * b
    BY <1>1, <1>2, <1>3, <1>4 DEF IsFrac
<1>6. b <= q /\ q <= b
  <2>1. Frac(n, d)[2] <= q
      BY <1>5, FracLeast
  <2>2. Frac(m, e)[2] <= b
      BY <1>5, FracLeast
  <2> QED
      BY <1>3, <1>4, <2>1, <2>2
<1>7. d * a = d * p
    BY <1>5, <1>6, Mul3
<1>8. a = p
    BY <1>7, Cancel
<1> QED
    BY <1>3, <1>4, <1>6, <1>8

\* The value over a multiple of the denominator.
LEMMA IsFracScaled ==
    ASSUME NEW p, NEW n \in Int, NEW d \in Nat \ {0}, NEW k \in Nat \ {0}, IsFrac(p, n, d)
    PROVE  n * k \in Int /\ d * k \in Nat \ {0} /\ IsFrac(p, n * k, d * k)
<1>1. n * k \in Int /\ d * k \in Int /\ d * k >= d
    BY Mul3, MulGe
<1>2. PICK m \in Int, e \in Nat \ {0} : m = n * k /\ e = d * k
    BY <1>1
<1>3. n * e = m * d
    BY <1>2, Mul3
<1> QED
    BY <1>2, <1>3, IsFracTrans

\* An integer over any denominator.
LEMMA IntValue ==
    ASSUME NEW n \in Int, NEW d \in Nat \ {0}
    PROVE  n * d \in Int /\ IsFrac(Int2Frac(n), n * d, d)
<1>1. <<n, 1>> \in Rat /\ n * d \in Int /\ n * d = (n * d) * 1
    BY Mul3 DEF Rat
<1> QED
    BY <1>1 DEF IsFrac, Int2Frac

\* Plus and Minus add and subtract values over one denominator.
LEMMA PlusValue ==
    ASSUME NEW p, NEW q, NEW n \in Int, NEW m \in Int, NEW d \in Nat \ {0}, IsFrac(p, n, d), IsFrac(q, m, d)
    PROVE  Plus(p, q) = Frac(n + m, d) /\ Minus(p, q) = Frac(n - m, d)
<1>1. PICK a \in Int, b \in Nat \ {0} : p = <<a, b>>
    BY DEF IsFrac, Rat
<1>2. PICK x \in Int, y \in Nat \ {0} : q = <<x, y>>
    BY DEF IsFrac, Rat
<1>3. a * d = n * b /\ x * d = m * y
    BY <1>1, <1>2 DEF IsFrac
<1>4. PICK u \in Int, v \in Int, w \in Nat \ {0} : u = a * y /\ v = x * b /\ w = b * y
  <2>1. a * y \in Int /\ x * b \in Int /\ b * y \in Int /\ b * y >= b
      BY Mul3, MulGe
  <2> QED
      BY <2>1
<1>5. u * d = n * w
  <2>1. u * d = (a * d) * y
      BY <1>4, Mul3
  <2>2. (n * b) * y = n * w
      BY <1>4, Mul3
  <2> QED
      BY <1>3, <2>1, <2>2
<1>6. v * d = m * w
  <2>1. v * d = (x * d) * b
      BY <1>4, Mul3
  <2>2. (m * y) * b = m * w
      BY <1>4, Mul3
  <2> QED
      BY <1>3, <2>1, <2>2
<1>7. (u + v) * d = (n + m) * w /\ (u - v) * d = (n - m) * w
    BY <1>5, <1>6, Mul3
<1>8. Frac(u + v, w) = Frac(n + m, d) /\ Frac(u - v, w) = Frac(n - m, d)
  <2>1. u + v \in Int /\ n + m \in Int /\ u - v \in Int /\ n - m \in Int
      OBVIOUS
  <2>2. Frac(u + v, w) = Frac(n + m, d)
      BY <1>7, <2>1, FracSame
  <2>3. Frac(u - v, w) = Frac(n - m, d)
      BY <1>7, <2>1, FracSame
  <2> QED
      BY <2>2, <2>3
<1>9. Plus(p, q) = Frac(u + v, w) /\ Minus(p, q) = Frac(u - v, w)
    BY <1>1, <1>2, <1>4 DEF Plus, Minus
<1> QED
    BY <1>8, <1>9

\* Times multiplies by an integer.
LEMMA TimesValue ==
    ASSUME NEW q, NEW m \in Int, NEW d \in Nat \ {0}, IsFrac(q, m, d), NEW k \in Int
    PROVE  k * m \in Int /\ Times(k, q) = Frac(k * m, d)
<1>2. PICK x \in Int, y \in Nat \ {0} : q = <<x, y>>
    BY DEF IsFrac, Rat
<1>3. x * d = m * y
    BY <1>2 DEF IsFrac
<1>4. PICK u \in Int, v \in Int : u = k * x /\ v = k * m
    BY Mul3
<1>5. u * d = v * y
  <2>1. u * d = k * (x * d)
      BY <1>4, Mul3
  <2>2. k * (m * y) = v * y
      BY <1>4, Mul3
  <2> QED
      BY <1>3, <2>1, <2>2
<1>6. Frac(u, y) = Frac(v, d)
    BY <1>5, FracSame
<1> QED
    BY <1>2, <1>4, <1>6 DEF Times

\* Over divides by a positive integer.
LEMMA OverValue ==
    ASSUME NEW q, NEW m \in Int, NEW d \in Nat \ {0}, IsFrac(q, m, d), NEW k \in Nat \ {0}
    PROVE  d * k \in Nat \ {0} /\ Over(q, k) = Frac(m, d * k)
<1>2. PICK x \in Int, y \in Nat \ {0} : q = <<x, y>>
    BY DEF IsFrac, Rat
<1>3. x * d = m * y
    BY <1>2 DEF IsFrac
<1>4. PICK u \in Nat \ {0}, v \in Nat \ {0} : u = y * k /\ v = d * k
  <2>1. y * k \in Int /\ y * k >= y /\ d * k \in Int /\ d * k >= d
      BY Mul3, MulGe
  <2> QED
      BY <2>1
<1>5. x * v = m * u
  <2>1. x * v = (x * d) * k
      BY <1>4, Mul3
  <2>2. (m * y) * k = m * u
      BY <1>4, Mul3
  <2> QED
      BY <1>3, <2>1, <2>2
<1>6. Frac(x, u) = Frac(m, v)
    BY <1>5, FracSame
<1> QED
    BY <1>2, <1>4, <1>6 DEF Over

-----------------------------------------------------------------------------
(* OrderFlow: what the orders of a symbol filled.                          *)

OnSymbol(ids, book, s) == {i \in ids : book[i].symbol = s}

\* SumOver is the sum over the orders of the symbol.
LEMMA SumOverIs ==
    ASSUME NEW ids, IsFiniteSet(ids), NEW book, NEW s, NEW v, NEW F,
           \A i \in OnSymbol(ids, book, s) : v[i] = SignedFill(book[i]),
           Sums(F, v, OnSymbol(ids, book, s))
    PROVE  SumOver(ids, book, s) = F[OnSymbol(ids, book, s)]
<1> DEFINE S == OnSymbol(ids, book, s)
           Step(g) == [T \in SUBSET S |-> IF T = {} THEN 0
                         ELSE g[T \ {CHOOSE x \in T : TRUE}] + SignedFill(book[CHOOSE x \in T : TRUE])]
           G == CHOOSE g : g = Step(g)
<1>1. SumOver(ids, book, s) = G[S]
    BY DEF SumOver, FoldSet, MapThenFoldSet, OnSymbol
<1>2. F = Step(F)
  <2>1. ASSUME NEW T \in SUBSET S PROVE F[T] = Step(F)[T]
    <3>1. CASE T = {}
        BY <3>1 DEF Sums
    <3>2. CASE T # {}
      <4>1. PICK x \in T : x = CHOOSE y \in T : TRUE
          BY <3>2
      <4>2. F[T] = F[T \ {x}] + v[x] /\ v[x] = SignedFill(book[x])
          BY <4>1 DEF Sums
      <4> QED
          BY <3>2, <4>1, <4>2
    <3> QED
        BY <3>1, <3>2
  <2> QED
      BY <2>1 DEF Sums
<1>3. G = Step(G)
    BY <1>2
<1>4. G[{}] = 0
    BY <1>3
<1>5. ASSUME NEW T \in SUBSET S, T # {}
      PROVE  \E x \in T : G[T \ {x}] \in Int => G[T] = G[T \ {x}] + v[x]
  <2>1. PICK x \in T : x = CHOOSE y \in T : TRUE
      BY <1>5
  <2>2. G[T] = G[T \ {x}] + SignedFill(book[x])
      BY <1>3, <1>5, <2>1
  <2> QED
      BY <2>1, <2>2
<1>6. IsFiniteSet(S)
    BY FS_Subset DEF OnSymbol
<1>s. Sums(F, v, S)
    OBVIOUS
<1> HIDE DEF G, S
<1>7. G[S] = F[S]
  <2>1. TakesOff(G, v, S)
      BY <1>4, <1>5 DEF TakesOff
  <2> QED
      BY <1>6, <1>s, <2>1, SumsUnique
<1> QED
    BY <1>1, <1>7 DEF S

\* What one order adds to the sum of a symbol.
Part(order, s) == IF order.symbol = s THEN SignedFill(order) ELSE 0

\* The sum over some orders of a book in which every quantity is an integer.
LEMMA SumOverWitness ==
    ASSUME NEW ids, IsFiniteSet(ids), NEW book, NEW s, \A i \in ids : SignedFill(book[i]) \in Int
    PROVE  \E F, v : /\ \A i \in ids : v[i] = SignedFill(book[i])
                     /\ Sums(F, v, OnSymbol(ids, book, s))
<1> DEFINE v == [i \in ids |-> SignedFill(book[i])]
           S == OnSymbol(ids, book, s)
<1>1. S \subseteq ids /\ IsFiniteSet(S)
    BY FS_Subset DEF OnSymbol
<1>2. \A i \in S : v[i] \in Int
    BY <1>1
<1>3. \A i \in ids : v[i] = SignedFill(book[i])
    OBVIOUS
<1> HIDE DEF v, S
<1>4. \E F : Sums(F, v, S)
    BY <1>1, <1>2, SumsExist
<1> QED
    BY <1>3, <1>4 DEF S

\* Sums over a set are sums over its subsets.
LEMMA SumsWithin ==
    ASSUME NEW S, NEW T \in SUBSET S, NEW v, NEW F, Sums(F, v, S),
           NEW G, G = [U \in SUBSET T |-> F[U]]
    PROVE  Sums(G, v, T)
<1>1. \A U \in SUBSET T : U \in SUBSET S
    OBVIOUS
<1>2. \A U \in SUBSET T : \A x \in U : U \ {x} \in SUBSET T
    OBVIOUS
<1> QED
    BY <1>1, <1>2 DEF Sums

\* One order taken off.
LEMMA SumOverTake ==
    ASSUME NEW ids, IsFiniteSet(ids), NEW book, NEW s, \A i \in ids : SignedFill(book[i]) \in Int,
           NEW x \in ids
    PROVE  /\ SumOver(ids, book, s) \in Int /\ SumOver(ids \ {x}, book, s) \in Int
           /\ SumOver(ids, book, s) = SumOver(ids \ {x}, book, s) + Part(book[x], s)
<1> DEFINE S == OnSymbol(ids, book, s)
           T == OnSymbol(ids \ {x}, book, s)
<1>1. PICK F, v : (\A i \in ids : v[i] = SignedFill(book[i])) /\ Sums(F, v, S)
    BY SumOverWitness
<1>2. T \in SUBSET S /\ T = S \ {x} /\ IsFiniteSet(ids \ {x})
    BY FS_Subset DEF OnSymbol
<1>a. Sums(F, v, S)
    BY <1>1
<1>b. PICK G : G = [U \in SUBSET T |-> F[U]]
    OBVIOUS
<1>c. T \in SUBSET S
    BY <1>2
<1> HIDE DEF S, T
<1>3. Sums(G, v, T)
    BY <1>a, <1>b, <1>c, SumsWithin
<1> USE DEF S, T
<1>4. SumOver(ids, book, s) = F[S]
    BY <1>1, SumOverIs DEF OnSymbol
<1>t. (\A i \in T : v[i] = SignedFill(book[i]))
    BY <1>1 DEF OnSymbol
<1>g. G[T] = F[T]
    BY <1>b
<1>5. SumOver(ids \ {x}, book, s) = G[T]
    BY <1>2, <1>3, <1>t, SumOverIs
<1>6. F[S] \in Int /\ F[T] \in Int
    BY <1>1, <1>2 DEF Sums
<1>7. CASE x \in S
  <2>1. F[S] = F[T] + v[x] /\ Part(book[x], s) = v[x]
      BY <1>1, <1>2, <1>7 DEF Sums, Part, OnSymbol
  <2> QED
      BY <1>4, <1>5, <1>6, <1>g, <2>1
<1>8. CASE x \notin S
  <2>1. T = S /\ Part(book[x], s) = 0
      BY <1>2, <1>8 DEF Part, OnSymbol
  <2> QED
      BY <1>4, <1>5, <1>6, <1>g, <2>1
<1> QED
    BY <1>7, <1>8

\* No orders, no sum.
LEMMA SumOverEmpty ==
    ASSUME NEW book, NEW s
    PROVE  SumOver({}, book, s) = 0
<1> DEFINE F == [T \in SUBSET {} |-> 0]
<1>1. Sums(F, F, {}) /\ OnSymbol({}, book, s) = {} /\ IsFiniteSet({})
    BY FS_EmptySet DEF Sums, OnSymbol
<1>2. F[{}] = 0
    OBVIOUS
<1> HIDE DEF F
<1>3. SumOver({}, book, s) = F[OnSymbol({}, book, s)]
    BY <1>1, SumOverIs
<1> QED
    BY <1>1, <1>2, <1>3

\* The sum is an integer.
LEMMA SumOverInt ==
    ASSUME NEW ids, IsFiniteSet(ids), NEW book, NEW s, \A i \in ids : SignedFill(book[i]) \in Int
    PROVE  SumOver(ids, book, s) \in Int
<1>1. CASE ids = {}
    BY <1>1, SumOverEmpty
<1>2. CASE ids # {}
    BY <1>2, SumOverTake
<1> QED
    BY <1>1, <1>2

\* The sum looks at the orders summed alone.
LEMMA SumOverAgree ==
    ASSUME NEW ids, IsFiniteSet(ids), NEW book, NEW other, NEW s,
           \A i \in ids : SignedFill(book[i]) \in Int /\ other[i] = book[i]
    PROVE  SumOver(ids, other, s) = SumOver(ids, book, s)
<1>1. PICK F, v : (\A i \in ids : v[i] = SignedFill(book[i])) /\ Sums(F, v, OnSymbol(ids, book, s))
    BY SumOverWitness
<1>2. OnSymbol(ids, other, s) = OnSymbol(ids, book, s)
    BY DEF OnSymbol
<1>3. \A i \in OnSymbol(ids, book, s) : v[i] = SignedFill(book[i]) /\ v[i] = SignedFill(other[i])
    BY <1>1 DEF OnSymbol
<1>4. SumOver(ids, book, s) = F[OnSymbol(ids, book, s)]
    BY <1>1, <1>3, SumOverIs
<1>5. SumOver(ids, other, s) = F[OnSymbol(ids, other, s)]
    BY <1>1, <1>2, <1>3, SumOverIs
<1> QED
    BY <1>2, <1>4, <1>5

\* A new order that has filled nothing.
LEMMA SumOverAdd ==
    ASSUME NEW ids, IsFiniteSet(ids), NEW book, NEW other, NEW s, NEW x, x \notin ids,
           \A i \in ids : SignedFill(book[i]) \in Int /\ other[i] = book[i], Part(other[x], s) = 0,
           SignedFill(other[x]) \in Int
    PROVE  SumOver(ids \cup {x}, other, s) = SumOver(ids, book, s)
<1>1. IsFiniteSet(ids \cup {x}) /\ (ids \cup {x}) \ {x} = ids
    BY FS_AddElement
<1>2. \A i \in ids \cup {x} : SignedFill(other[i]) \in Int
    OBVIOUS
<1>3. SumOver(ids, other, s) = SumOver(ids, book, s)
    BY SumOverAgree
<1>4. SumOver(ids \cup {x}, other, s) = SumOver(ids, other, s) + 0 /\ SumOver(ids, other, s) \in Int
  <2> DEFINE J == ids \cup {x}
  <2>1. x \in J /\ J \ {x} = ids /\ IsFiniteSet(J) /\ \A i \in J : SignedFill(other[i]) \in Int
      BY <1>1, <1>2
  <2> HIDE DEF J
  <2>2. SumOver(J, other, s) = SumOver(J \ {x}, other, s) + Part(other[x], s)
      BY <2>1, SumOverTake
  <2>3. SumOver(ids, other, s) \in Int
      BY SumOverInt
  <2> QED
      BY <2>1, <2>2, <2>3 DEF J
<1> QED
    BY <1>3, <1>4

\* One order replaced.
Replaced(ids, book, other, s, x) ==
    SumOver(ids, other, s) = SumOver(ids, book, s) + (Part(other[x], s) - Part(book[x], s))

\* The sum after the replacement.
LEMMA SumOverChange ==
    ASSUME NEW ids, IsFiniteSet(ids), NEW book, NEW other, NEW s, NEW x \in ids,
           \A i \in ids : SignedFill(book[i]) \in Int,
           \A i \in ids \ {x} : other[i] = book[i], SignedFill(other[x]) \in Int
    PROVE  Replaced(ids, book, other, s, x)
<1>1. IsFiniteSet(ids \ {x}) /\ \A i \in ids : SignedFill(other[i]) \in Int
    BY FS_Subset
<1>2. SumOver(ids \ {x}, other, s) = SumOver(ids \ {x}, book, s)
    BY <1>1, SumOverAgree
<1>a. SumOver(ids, book, s) = SumOver(ids \ {x}, book, s) + Part(book[x], s)
    BY SumOverTake
<1>b. SumOver(ids \ {x}, book, s) \in Int
    BY <1>1, SumOverInt
<1>3. SumOver(ids \ {x}, book, s) \in Int /\ SumOver(ids, book, s) = SumOver(ids \ {x}, book, s) + Part(book[x], s)
    BY <1>a, <1>b
<1>4. SumOver(ids, other, s) = SumOver(ids \ {x}, other, s) + Part(other[x], s)
    BY <1>1, SumOverTake
<1>5. Part(book[x], s) \in Int /\ Part(other[x], s) \in Int
    BY DEF Part
<1>6. PICK a \in Int, b \in Int, c \in Int :
         a = SumOver(ids \ {x}, book, s) /\ b = Part(book[x], s) /\ c = Part(other[x], s)
    BY <1>3, <1>5
<1>7. SumOver(ids, other, s) = a + c /\ SumOver(ids, book, s) = a + b
    BY <1>2, <1>3, <1>4, <1>6
<1> QED
    BY <1>6, <1>7 DEF Replaced

\* A set of orders taken out.
LEMMA SumOverSplit ==
    ASSUME NEW ids, IsFiniteSet(ids), NEW book, NEW s, \A i \in ids : SignedFill(book[i]) \in Int,
           NEW gone \in SUBSET ids
    PROVE  /\ SumOver(gone, book, s) \in Int /\ SumOver(ids \ gone, book, s) \in Int
           /\ SumOver(ids, book, s) = SumOver(ids \ gone, book, s) + SumOver(gone, book, s)
<1> DEFINE P == {A \in SUBSET ids : SumOver(ids, book, s) = SumOver(ids \ A, book, s) + SumOver(A, book, s)}
<1>0. \A A \in SUBSET ids : SumOver(A, book, s) \in Int
    BY FS_Subset, SumOverInt
<1>1. {} \in P
  <2>1. ids \ {} = ids /\ SumOver({}, book, s) = 0 /\ SumOver(ids, book, s) \in Int
      BY <1>0, SumOverEmpty
  <2> QED
      BY <2>1
<1>2. ASSUME NEW A \in SUBSET ids, NEW x \in ids, A \in P, x \notin A PROVE A \cup {x} \in P
  <2> DEFINE B == A \cup {x}
             C == ids \ A
  <2>a. /\ B \in SUBSET ids /\ C \in SUBSET ids
        /\ x \in B /\ x \in C /\ B \ {x} = A /\ C \ {x} = ids \ B
      BY <1>2
  <2> HIDE DEF B, C
  <2>1. /\ IsFiniteSet(B) /\ IsFiniteSet(C) /\ B \in SUBSET ids /\ C \in SUBSET ids
        /\ x \in B /\ x \in C /\ B \ {x} = A /\ C \ {x} = ids \ B
      BY <2>a, FS_Subset
  <2> HIDE DEF B, C
  <2>2. SumOver(B, book, s) = SumOver(B \ {x}, book, s) + Part(book[x], s) /\ SumOver(B \ {x}, book, s) \in Int
      BY <2>1, SumOverTake
  <2>3. SumOver(C, book, s) = SumOver(C \ {x}, book, s) + Part(book[x], s) /\ SumOver(C \ {x}, book, s) \in Int
      BY <2>1, SumOverTake
  <2>4. Part(book[x], s) \in Int
      BY DEF Part
  <2>5. PICK a \in Int, b \in Int, c \in Int :
            a = SumOver(B \ {x}, book, s) /\ b = Part(book[x], s) /\ c = SumOver(C \ {x}, book, s)
      BY <2>2, <2>3, <2>4
  <2>6. SumOver(ids, book, s) = (c + b) + a
      BY <1>2, <2>1, <2>3, <2>5 DEF C
  <2>b. SumOver(ids \ B, book, s) = c /\ SumOver(B, book, s) = a + b
      BY <2>1, <2>2, <2>5
  <2>7. SumOver(ids, book, s) = SumOver(ids \ B, book, s) + SumOver(B, book, s)
      BY <2>b, <2>5, <2>6
  <2> QED
      BY <2>1, <2>7 DEF B
<1> HIDE DEF P
<1>3. \A A \in SUBSET ids : A \in P
    BY <1>1, <1>2, FiniteInduction
<1> QED
    BY <1>0, <1>3 DEF P

-----------------------------------------------------------------------------
(* OrderFlow: what one fill does to a position.                            *)

Sides == {"Buy", "Sell"}
PositionRec == [qty : Int, avg_price : Rat, realized_pnl : Rat]

\* The profit of a position whose trades brought in the given cash.
Accounted(pos, money) ==
    pos.realized_pnl = Plus(Int2Frac(money), Times(pos.qty, pos.avg_price))

\* cash + quantity * average, over any denominator of the average.
LEMMA ProfitForm ==
    ASSUME NEW C \in Int, NEW Q \in Int, NEW p, NEW n \in Int, NEW d \in Nat \ {0}, IsFrac(p, n, d)
    PROVE  /\ C * d + Q * n \in Int
           /\ Plus(Int2Frac(C), Times(Q, p)) = Frac(C * d + Q * n, d)
<1>1. C * d \in Int /\ IsFrac(Int2Frac(C), C * d, d)
    BY IntValue
<1>2. Q * n \in Int /\ Times(Q, p) = Frac(Q * n, d)
    BY TimesValue
<1>3. PICK x \in Int, y \in Int : x = C * d /\ y = Q * n
    BY <1>1, <1>2
<1>4. IsFrac(Frac(y, d), y, d)
    BY FracValue
<1>5. Plus(Int2Frac(C), Frac(y, d)) = Frac(x + y, d)
    BY <1>1, <1>3, <1>4, PlusValue
<1> QED
    BY <1>2, <1>3, <1>5

\* A price less the average, times a quantity.
LEMMA GainForm ==
    ASSUME NEW px \in Int, NEW k \in Int, NEW p, NEW n \in Int, NEW d \in Nat \ {0}, IsFrac(p, n, d)
    PROVE  /\ k * (px * d - n) \in Int /\ px * d \in Int
           /\ Times(k, Minus(Int2Frac(px), p)) = Frac(k * (px * d - n), d)
<1>1. px * d \in Int /\ IsFrac(Int2Frac(px), px * d, d)
    BY IntValue
<1>2. PICK x \in Int : x = px * d
    BY <1>1
<1>3. Minus(Int2Frac(px), p) = Frac(x - n, d)
    BY <1>1, <1>2, PlusValue
<1>4. PICK y \in Int : y = x - n
    OBVIOUS
<1>5. IsFrac(Frac(y, d), y, d)
    BY FracValue
<1>6. k * y \in Int /\ Times(k, Frac(y, d)) = Frac(k * y, d)
    BY <1>5, TimesValue
<1> QED
    BY <1>1, <1>2, <1>3, <1>4, <1>6

\* Frac is a fraction.
LEMMA FracType ==
    ASSUME NEW n \in Int, NEW d \in Nat \ {0}
    PROVE  Frac(n, d) \in Rat
BY FracValue DEF IsFrac

\* What Increase makes of the average: the same profit over more units.
Moves(C, Q, q, px, a, b, W, K, avg) ==
    avg = Plus(<<a, b>>, Over(Times(K, Minus(Int2Frac(px), <<a, b>>)), W)) =>
        /\ avg \in Rat
        /\ Plus(Int2Frac(C - q * px), Times(Q + q, avg)) = Plus(Int2Frac(C), Times(Q, <<a, b>>))

\* The average moves and the profit does not.
LEMMA AverageMoves ==
    ASSUME NEW C \in Int, NEW Q \in Int, NEW q \in Int, NEW px \in Int, NEW a \in Int, NEW b \in Nat \ {0},
           NEW W \in Nat \ {0}, NEW K \in Nat, NEW sign \in {1, -1}, Q + q = sign * W, q = sign * K,
           NEW avg
    PROVE  Moves(C, Q, q, px, a, b, W, K, avg)
<1> SUFFICES ASSUME avg = Plus(<<a, b>>, Over(Times(K, Minus(Int2Frac(px), <<a, b>>)), W))
             PROVE  /\ avg \in Rat
                    /\ Plus(Int2Frac(C - q * px), Times(Q + q, avg)) = Plus(Int2Frac(C), Times(Q, <<a, b>>))
    BY DEF Moves
<1>1. IsFrac(<<a, b>>, a, b)
    BY DEF IsFrac, Rat
<1>2. PICK Y \in Int : Y = px * b - a
    BY Mul3
<1>3. PICK Z \in Int : Z = K * Y
    BY Mul3
<1>4. Times(K, Minus(Int2Frac(px), <<a, b>>)) = Frac(Z, b)
    BY <1>1, <1>2, <1>3, GainForm
<1>5. IsFrac(Frac(Z, b), Z, b)
    BY FracValue
<1>6. b * W \in Nat \ {0} /\ Over(Frac(Z, b), W) = Frac(Z, b * W)
    BY <1>5, OverValue
<1>7. PICK D \in Nat \ {0} : D = b * W
    BY <1>6
<1>8. a * W \in Int /\ IsFrac(<<a, b>>, a * W, D)
    BY <1>1, <1>7, IsFracScaled
<1>9. PICK A \in Int : A = a * W
    BY <1>8
<1>10. IsFrac(Frac(Z, D), Z, D)
    BY FracValue
<1>11. avg = Frac(A + Z, D)
  <2>1. Plus(<<a, b>>, Frac(Z, D)) = Frac(A + Z, D)
      BY <1>8, <1>9, <1>10, PlusValue
  <2> QED
      BY <1>4, <1>6, <1>7, <2>1
<1>12. PICK N \in Int : N = A + Z
    OBVIOUS
<1>13. IsFrac(avg, N, D)
    BY <1>11, <1>12, FracValue
<1>14. PICK c \in Int, T \in Int : c = C - q * px /\ T = Q + q
    BY Mul3
<1>15. PICK u \in Int : u = c * D + T * N
    BY Mul3
<1>16. Plus(Int2Frac(c), Times(T, avg)) = Frac(u, D)
    BY <1>13, <1>15, ProfitForm
<1>17. PICK v \in Int : v = C * b + Q * a
    BY Mul3
<1>18. Plus(Int2Frac(C), Times(Q, <<a, b>>)) = Frac(v, b)
    BY <1>1, <1>17, ProfitForm
<1>19. u = v * W
  <2>1. PICK X \in Int, H \in Int : X = sign * N /\ H = q * px
      BY Mul3
  <2>a. a * T \in Int /\ q * Y \in Int
      BY Mul3
  <2>2. X = a * T + q * Y
    <3>1. CASE sign = 1
      <4>1. X = A + Z /\ T = W /\ q = K
          BY <1>12, <1>14, <2>1, <3>1
      <4> QED
          BY <1>3, <1>9, <4>1
    <3>2. CASE sign = -1
      <4>1. X = -(A + Z) /\ T = -W /\ q = -K
          BY <1>12, <1>14, <2>1, <3>2
      <4>2. a * (-W) = -(a * W) /\ (-K) * Y = -(K * Y)
          BY Mul3
      <4> QED
          BY <1>3, <1>9, <4>1, <4>2
    <3> QED
        BY <3>1, <3>2
  <2>3. T * N = X * W
    <3>1. CASE sign = 1
      <4>1. X = N /\ T = W
          BY <1>14, <2>1, <3>1
      <4> QED
          BY <4>1, Mul3
    <3>2. CASE sign = -1
      <4>1. X = -N /\ T = -W
          BY <1>14, <2>1, <3>2
      <4>2. (-W) * N = -(W * N) /\ (-N) * W = -(N * W) /\ W * N = N * W
          BY Mul3
      <4> QED
          BY <4>1, <4>2
    <3> QED
        BY <3>1, <3>2
  <2>4. c * D = (c * b) * W
      BY <1>7, Mul3
  <2>5. PICK e \in Int : e = c * b
      BY Mul3
  <2>6. u = (e + X) * W
    <3>1. e * W + X * W = (e + X) * W
        BY Mul3
    <3> QED
        BY <1>15, <2>3, <2>4, <2>5, <3>1
  <2>7. e + X = v
    <3>1. e = C * b - H * b
      <4>1. c = C - H
          BY <1>14, <2>1
      <4>2. (C - H) * b = C * b - H * b
          BY Mul3
      <4> QED
          BY <2>5, <4>1, <4>2
    <3>2. a * T = Q * a + q * a
      <4>1. a * (Q + q) = a * Q + a * q
          BY Mul3
      <4>2. a * Q = Q * a /\ a * q = q * a
          BY Mul3
      <4> QED
          BY <1>14, <4>1, <4>2
    <3>3. q * Y = H * b - q * a
      <4>1. PICK w \in Int : w = px * b
          BY Mul3
      <4>2. q * (w - a) = q * w - q * a
          BY Mul3
      <4>3. q * w = H * b
          BY <2>1, <4>1, Mul3
      <4> QED
          BY <1>2, <4>1, <4>2, <4>3
    <3>4. PICK i \in Int, j \in Int, k \in Int, l \in Int : i = C * b /\ j = H * b /\ k = Q * a /\ l = q * a
        BY Mul3
    <3>5. e = i - j /\ X = (k + l) + (j - l) /\ v = i + k
        BY <1>17, <2>2, <3>1, <3>2, <3>3, <3>4
    <3> QED
        BY <3>4, <3>5
  <2> QED
      BY <2>6, <2>7
<1>20. Frac(u, D) = Frac(v, b)
  <2>1. u * b = v * D
    <3>1. (v * W) * b = v * (W * b) /\ W * b = b * W
        BY Mul3
    <3> QED
        BY <1>7, <1>19, <3>1
  <2> QED
      BY <2>1, FracSame
<1> QED
    BY <1>13, <1>14, <1>16, <1>18, <1>20 DEF IsFrac

\* What Reduce makes of the profit.
Taken(C, Q, q, px, a, b, pnl) ==
    /\ Plus(Int2Frac(C - q * px), Times(Q + q, <<a, b>>))
           = Plus(pnl, Times(-q, Minus(Int2Frac(px), <<a, b>>)))
    /\ Plus(Int2Frac(C - q * px), Times(Q + q, Int2Frac(px)))
           = Plus(pnl, Times(Q, Minus(Int2Frac(px), <<a, b>>)))
    /\ Plus(pnl, Times(-q, Minus(Int2Frac(px), <<a, b>>))) \in Rat
    /\ Plus(pnl, Times(Q, Minus(Int2Frac(px), <<a, b>>))) \in Rat

\* The part that is closed takes its profit; past zero all of it does.
LEMMA ProfitTaken ==
    ASSUME NEW C \in Int, NEW Q \in Int, NEW q \in Int, NEW px \in Int, NEW a \in Int, NEW b \in Nat \ {0},
           NEW pnl, pnl = Plus(Int2Frac(C), Times(Q, <<a, b>>))
    PROVE  Taken(C, Q, q, px, a, b, pnl)
<1>1. IsFrac(<<a, b>>, a, b)
    BY DEF IsFrac, Rat
<1>2. PICK w \in Int : w = px * b
    BY Mul3
<1>3. PICK Y \in Int : Y = w - a
    OBVIOUS
<1>4. PICK v \in Int : v = C * b + Q * a
    BY Mul3
<1>5. pnl = Frac(v, b)
    BY <1>1, <1>4, ProfitForm
<1>6. IsFrac(pnl, v, b)
    BY <1>5, FracValue
<1>7. PICK c \in Int, T \in Int, H \in Int : c = C - q * px /\ T = Q + q /\ H = q * px
    BY Mul3
<1>8. ASSUME NEW k \in Int
      PROVE  /\ v + k * Y \in Int /\ Plus(pnl, Times(k, Minus(Int2Frac(px), <<a, b>>))) = Frac(v + k * Y, b)
  <2>1. PICK z \in Int : z = k * Y
      BY Mul3
  <2>2. Times(k, Minus(Int2Frac(px), <<a, b>>)) = Frac(z, b)
      BY <1>1, <1>2, <1>3, <2>1, GainForm
  <2>3. IsFrac(Frac(z, b), z, b)
      BY FracValue
  <2>4. Plus(pnl, Frac(z, b)) = Frac(v + z, b)
      BY <1>6, <2>3, PlusValue
  <2> QED
      BY <2>1, <2>2, <2>4
<1>9. PICK i \in Int, j \in Int, k \in Int, l \in Int, m \in Int :
        i = C * b /\ j = H * b /\ k = Q * a /\ l = q * a /\ m = Q * w
    BY Mul3
<1>10. v = i + k /\ c * b = i - j
  <2>1. c = C - H /\ (C - H) * b = C * b - H * b
      BY <1>7, Mul3
  <2> QED
      BY <1>4, <1>9, <2>1
<1>11. q * w = j
    BY <1>2, <1>7, <1>9, Mul3
<1>12. Plus(Int2Frac(c), Times(T, <<a, b>>)) = Frac(v + (-q) * Y, b)
  <2>1. T * a = k + l
    <3>1. (Q + q) * a = Q * a + q * a
        BY Mul3
    <3> QED
        BY <1>7, <1>9, <3>1
  <2>2. (-q) * Y = l - j
    <3>1. (-q) * Y = -(q * Y) /\ q * (w - a) = q * w - q * a
        BY Mul3
    <3> QED
        BY <1>3, <1>9, <1>11, <3>1
  <2>3. c * b + T * a = v + (-q) * Y
      BY <1>10, <2>1, <2>2
  <2>4. Plus(Int2Frac(c), Times(T, <<a, b>>)) = Frac(c * b + T * a, b)
      BY <1>1, ProfitForm
  <2> QED
      BY <2>3, <2>4
<1>13. Plus(Int2Frac(c), Times(T, Int2Frac(px))) = Frac(v + Q * Y, b)
  <2>1. T * w = m + j
    <3>1. (Q + q) * w = Q * w + q * w
        BY Mul3
    <3> QED
        BY <1>7, <1>9, <1>11, <3>1
  <2>2. Q * Y = m - k
    <3>1. Q * (w - a) = Q * w - Q * a
        BY Mul3
    <3> QED
        BY <1>3, <1>9, <3>1
  <2>3. c * b + T * w = v + Q * Y
      BY <1>10, <2>1, <2>2, <1>9
  <2>4. IsFrac(Int2Frac(px), w, b)
      BY <1>2, IntValue
  <2>5. Plus(Int2Frac(c), Times(T, Int2Frac(px))) = Frac(c * b + T * w, b)
      BY <2>4, ProfitForm
  <2> QED
      BY <2>3, <2>5
<1>14. PICK g \in Int : g = -q
    OBVIOUS
<1>15. /\ Plus(pnl, Times(g, Minus(Int2Frac(px), <<a, b>>))) = Frac(v + g * Y, b) /\ v + g * Y \in Int
    BY <1>8
<1>16. /\ Plus(pnl, Times(Q, Minus(Int2Frac(px), <<a, b>>))) = Frac(v + Q * Y, b) /\ v + Q * Y \in Int
    BY <1>8
<1>17. Frac(v + g * Y, b) \in Rat /\ Frac(v + Q * Y, b) \in Rat
    BY <1>15, <1>16, FracType
<1> QED
    BY <1>7, <1>12, <1>13, <1>14, <1>15, <1>16, <1>17 DEF Taken

\* A fill moves the quantity by what was filled and keeps the accounts true.
LEMMA OnFillTrue ==
    ASSUME NEW pos \in PositionRec, NEW C \in Int, Accounted(pos, C), NEW side \in Sides,
           NEW qty \in Nat \ {0}, NEW px \in Nat \ {0}
    PROVE  /\ OnFill(pos, side, qty, px) \in PositionRec
           /\ OnFill(pos, side, qty, px).qty = pos.qty + Signed(side, qty)
           /\ Accounted(OnFill(pos, side, qty, px), C - Signed(side, qty) * px)
<1>1. PICK q \in Int : q = Signed(side, qty) /\ q # 0 /\ Abs(q) = qty
    BY DEF Signed, Sides, Abs
<1>2. PICK Q \in Int, a \in Int, b \in Nat \ {0} : Q = pos.qty /\ pos.avg_price = <<a, b>>
    BY DEF PositionRec, Rat
<1>3. PICK pnl : pnl = pos.realized_pnl /\ pnl = Plus(Int2Frac(C), Times(Q, <<a, b>>)) /\ pnl \in Rat
    BY <1>2 DEF Accounted, PositionRec
<1>4. ASSUME NEW moved \in PositionRec, moved.qty = Q, NEW after, after = [moved EXCEPT !.qty = @ + q],
             Plus(Int2Frac(C - q * px), Times(Q + q, moved.avg_price)) = moved.realized_pnl
      PROVE  after \in PositionRec /\ after.qty = Q + q /\ Accounted(after, C - q * px)
  <2>1. after \in PositionRec /\ after.qty = Q + q
        /\ after.avg_price = moved.avg_price /\ after.realized_pnl = moved.realized_pnl
      BY <1>4 DEF PositionRec
  <2> QED
      BY <1>4, <2>1 DEF Accounted
<1> DEFINE reducing == Q # 0 /\ (Q > 0) # (q > 0)
<1>5. CASE ~reducing
  <2>1. PICK W \in Nat \ {0}, sign \in {1, -1} : W = Abs(Q + q) /\ Q + q = sign * W /\ q = sign * qty
    <3>1. CASE q > 0
      <4>1. Q >= 0 /\ Abs(Q + q) = Q + q /\ Q + q > 0 /\ q = qty
          BY <1>1, <1>5, <3>1 DEF Abs
      <4> QED
          BY <4>1
    <3>2. CASE q < 0
      <4>1. Q <= 0 /\ Abs(Q + q) = -(Q + q) /\ Q + q < 0 /\ q = -qty
          BY <1>1, <1>5, <3>2 DEF Abs
      <4>2. PICK W \in Nat \ {0} : W = -(Q + q)
          BY <4>1
      <4>3. Q + q = (-1) * W /\ q = (-1) * qty
          BY <4>1, <4>2
      <4> QED
          BY <4>1, <4>2, <4>3
    <3> QED
        BY <1>1, <3>1, <3>2
  <2>2. PICK avg : avg = Plus(<<a, b>>, Over(Times(qty, Minus(Int2Frac(px), <<a, b>>)), W))
      OBVIOUS
  <2>a. qty \in Nat /\ px \in Int /\ Q + q = sign * W /\ q = sign * qty
      BY <2>1
  <2>b. Moves(C, Q, q, px, a, b, W, qty, avg)
      BY <2>a, AverageMoves
  <2>3. /\ avg \in Rat
        /\ Plus(Int2Frac(C - q * px), Times(Q + q, avg)) = pnl
      BY <1>3, <2>2, <2>b DEF Moves
  <2>4. PICK moved : moved = Increase(pos, q, px)
      OBVIOUS
  <2>5. moved = [pos EXCEPT !.avg_price = avg]
      BY <1>1, <1>2, <2>1, <2>2, <2>4 DEF Increase
  <2>6. moved \in PositionRec /\ moved.qty = Q /\ moved.avg_price = avg /\ moved.realized_pnl = pnl
      BY <1>2, <1>3, <2>3, <2>5 DEF PositionRec
  <2>7. OnFill(pos, side, qty, px) = [moved EXCEPT !.qty = @ + q]
      BY <1>1, <1>2, <1>5, <2>4 DEF OnFill
  <2> QED
      BY <1>1, <1>2, <1>4, <2>3, <2>6, <2>7
<1>6. CASE reducing
  <2>1. PICK gain : gain = Minus(Int2Frac(px), <<a, b>>)
      OBVIOUS
  <2>2. PICK moved : moved = Reduce(pos, q, px)
      OBVIOUS
  <2>3. Abs(Q) \in Int /\ Min({Abs(q), Abs(Q)}) = IF Abs(q) <= Abs(Q) THEN Abs(q) ELSE Abs(Q)
    <3>1. Abs(Q) \in Int /\ Abs(q) \in Int
        BY DEF Abs
    <3> QED
        BY <3>1, MinPair
  <2>4. OnFill(pos, side, qty, px) = [moved EXCEPT !.qty = @ + q]
      BY <1>1, <1>2, <1>6, <2>2 DEF OnFill
  <2>5. ASSUME NEW k \in Int, k = (IF Q > 0 THEN Min({Abs(q), Abs(Q)}) ELSE -Min({Abs(q), Abs(Q)})),
               NEW avg, avg = (IF Abs(q) > Abs(Q) THEN Int2Frac(px) ELSE <<a, b>>),
               NEW won, won = Plus(pnl, Times(k, gain)), won \in Rat, avg \in Rat,
               Plus(Int2Frac(C - q * px), Times(Q + q, avg)) = won
        PROVE  moved \in PositionRec /\ moved.qty = Q
               /\ Plus(Int2Frac(C - q * px), Times(Q + q, moved.avg_price)) = moved.realized_pnl
    <3>1. moved = [pos EXCEPT !.realized_pnl = won, !.avg_price = avg]
        BY <1>2, <1>3, <2>1, <2>2, <2>5 DEF Reduce
    <3>2. moved \in PositionRec /\ moved.qty = Q /\ moved.avg_price = avg /\ moved.realized_pnl = won
        BY <1>2, <2>5, <3>1 DEF PositionRec
    <3> QED
        BY <2>5, <3>2
  <2>6. ASSUME Abs(q) <= Abs(Q)
        PROVE  moved \in PositionRec /\ moved.qty = Q
               /\ Plus(Int2Frac(C - q * px), Times(Q + q, moved.avg_price)) = moved.realized_pnl
    <3>1. PICK k \in Int : k = -q
        OBVIOUS
    <3>2. k = (IF Q > 0 THEN Min({Abs(q), Abs(Q)}) ELSE -Min({Abs(q), Abs(Q)}))
        BY <1>1, <1>6, <2>3, <2>6, <3>1 DEF Abs
    <3>3. PICK won : won = Plus(pnl, Times(k, gain))
        OBVIOUS
    <3>a. pnl = Plus(Int2Frac(C), Times(Q, <<a, b>>)) /\ px \in Int
        BY <1>3
    <3>b. Taken(C, Q, q, px, a, b, pnl)
        BY <3>a, ProfitTaken
    <3>4. Plus(Int2Frac(C - q * px), Times(Q + q, <<a, b>>)) = won /\ won \in Rat
        BY <3>b, <2>1, <3>1, <3>3 DEF Taken
    <3>5. <<a, b>> \in Rat /\ <<a, b>> = (IF Abs(q) > Abs(Q) THEN Int2Frac(px) ELSE <<a, b>>)
        BY <1>1, <2>3, <2>6 DEF Rat
    <3> QED
        BY <2>5, <3>2, <3>3, <3>4, <3>5
  <2>7. ASSUME Abs(q) > Abs(Q)
        PROVE  moved \in PositionRec /\ moved.qty = Q
               /\ Plus(Int2Frac(C - q * px), Times(Q + q, moved.avg_price)) = moved.realized_pnl
    <3>2. Q = (IF Q > 0 THEN Min({Abs(q), Abs(Q)}) ELSE -Min({Abs(q), Abs(Q)}))
        BY <1>1, <1>6, <2>3, <2>7 DEF Abs
    <3>3. PICK won : won = Plus(pnl, Times(Q, gain))
        OBVIOUS
    <3>a. pnl = Plus(Int2Frac(C), Times(Q, <<a, b>>)) /\ px \in Int
        BY <1>3
    <3>b. Taken(C, Q, q, px, a, b, pnl)
        BY <3>a, ProfitTaken
    <3>4. Plus(Int2Frac(C - q * px), Times(Q + q, Int2Frac(px))) = won /\ won \in Rat
        BY <3>b, <2>1, <3>3 DEF Taken
    <3>5. Int2Frac(px) \in Rat /\ Int2Frac(px) = (IF Abs(q) > Abs(Q) THEN Int2Frac(px) ELSE <<a, b>>)
        BY <2>7 DEF Rat, Int2Frac
    <3> QED
        BY <2>5, <3>2, <3>3, <3>4, <3>5
  <2>8. Abs(q) <= Abs(Q) \/ Abs(q) > Abs(Q)
      BY <1>1, <2>3
  <2>9. moved \in PositionRec /\ moved.qty = Q
        /\ Plus(Int2Frac(C - q * px), Times(Q + q, moved.avg_price)) = moved.realized_pnl
      BY <2>6, <2>7, <2>8
  <2> QED
      BY <1>1, <1>2, <1>4, <2>4, <2>9
<1> QED
    BY <1>5, <1>6

\* A position never filled.
LEMMA FlatTrue == Flat \in PositionRec /\ Flat.qty = 0 /\ Accounted(Flat, 0)
<1>1. IsFrac(<<0, 1>>, 0, 1)
    BY DEF IsFrac, Rat
<1>2. Plus(Int2Frac(0), Times(0, <<0, 1>>)) = Frac(0 * 1 + 0 * 0, 1)
    BY <1>1, ProfitForm
<1>3. 0 * 1 + 0 * 0 = 0
    OBVIOUS
<1>4. Frac(0, 1) = <<0, 1>>
  <2>1. IsFrac(Frac(0, 1), 0, 1)
      BY FracValue
  <2>2. PICK a \in Int, b \in Nat \ {0} : Frac(0, 1) = <<a, b>> /\ a * 1 = 0 * b
      BY <2>1 DEF IsFrac, Rat
  <2>3. Frac(0, 1)[2] <= 1
      BY FracLeast
  <2> QED
      BY <2>2, <2>3
<1> QED
    BY <1>2, <1>3, <1>4 DEF Flat, Accounted, PositionRec, Rat, Int2Frac

-----------------------------------------------------------------------------
(* OrderFlow: the inductive invariant.                                     *)

OrderRec == [symbol : Symbols, side : Sides, orig_qty : 1..MaxQty, filled_qty : Nat,
             avg_fill_price : Rat, leaves_qty : Nat, state : OrderStates]
ExchRec == [phase : {"unseen", "received", "open", "done"}, leaves : Nat, filled : Nat,
            cancels : Nat, asked : Nat]
FillTypes == {"PartialFill", "Trade", "Fill"}
PlainTypes == {"New", "Rejected", "Canceled", "PendingCancel", "Suspended", "CancelReject"}
Reports == [id : OrderIds, type : FillTypes, qty : Nat \ {0}, px : Nat \ {0}]
             \cup [id : OrderIds, type : {"Trade"}, qty : {-1}, px : {0}]
             \cup [id : OrderIds, type : PlainTypes, qty : {0}, px : {0}]

OFTyped ==
    /\ orders \in [Known -> OrderRec] /\ Known \subseteq OrderIds /\ IsFiniteSet(Known)
    /\ positions \in [Symbols -> PositionRec]
    /\ limits \in LimitSets
    /\ exch \in [OrderIds -> ExchRec]
    /\ wire \in Seq(Reports) /\ Len(wire) <= MaxInFlight
    /\ past \subseteq Reports /\ resends \in 0..MaxResends
    /\ overlapped \subseteq Symbols
    /\ base \in [Symbols -> Int] /\ cash \in [Symbols -> Int]

\* The exchange reports orders it was sent, and only those are open.
OrdersSeen ==
    /\ \A id \in Known : exch[id].phase # "unseen"
    /\ \A k \in 1..Len(wire) : exch[wire[k].id].phase # "unseen"
    /\ \A id \in OrderIds : exch[id].phase = "unseen" => exch[id].cancels = 0

\* What an order has filled and has left, and whether it is over.
Views == [filled : Int, leaves : Int, over : BOOLEAN]
View(o) == [filled |-> o.filled_qty, leaves |-> o.leaves_qty, over |-> o.state \in Terminal]
FillCounts(v, orig, r) == r.type \in FillTypes /\ r.qty >= 0 /\ v.filled + r.qty <= orig
ViewAfter(v, orig, r) ==
    IF v.over THEN v
    ELSE IF FillCounts(v, orig, r)
         THEN [filled |-> v.filled + r.qty, over |-> r.type = "Fill",
               leaves |-> IF r.type = "Fill" THEN 0 ELSE orig - (v.filled + r.qty)]
    ELSE IF r.type \in {"Canceled", "Rejected"} THEN [filled |-> v.filled, leaves |-> 0, over |-> TRUE]
    ELSE v

\* An order that is over has nothing left; another has what it has not filled.
Sound(v, orig) == IF v.over THEN v.leaves = 0 ELSE v.filled + v.leaves = orig

\* t: what the reports on the wire make of the order, one after the other; the
\* last is what the exchange has.
Trace(id, t) ==
    /\ t \in [0..Len(wire) -> Views] /\ t[0] = View(orders[id])
    /\ \A k \in 1..Len(wire) :
        t[k] = IF wire[k].id = id THEN ViewAfter(t[k - 1], orders[id].orig_qty, wire[k]) ELSE t[k - 1]
    /\ t[Len(wire)].filled = exch[id].filled /\ t[Len(wire)].leaves = exch[id].leaves
    /\ Sound(t[Len(wire)], orders[id].orig_qty)
WillAgree == resends = 0 => past = {} /\ \A id \in Known : \E t : Trace(id, t)

\* The answer to the last cancel request is on its way, or has arrived.
AnswerAt(id, p) ==
    /\ \A k \in (p + 1)..Len(wire) : wire[k].id = id => wire[k].type # "PendingCancel"
    /\ IF p = 0 THEN orders[id].state # "PendingCancel"
       ELSE wire[p].id = id /\ wire[p].type \in {"CancelReject", "Canceled"}
CancelsAnswered ==
    resends = 0 => \A id \in Known : exch[id].cancels = 0 => \E p \in 0..Len(wire) : AnswerAt(id, p)

\* What is open may fill: at most one order of the symbol is.
Open(id, s) == orders[id].symbol = s /\ ~is_terminal(id)
ExposureBounded ==
    (\A l \in LimitSets : l.max_position_qty > 0) =>
        \A s \in Symbols \ overlapped :
            /\ Permitted(positions[s].qty)
            /\ \A i \in Known : Open(i, s) =>
                /\ Permitted(positions[s].qty + Signed(orders[i].side, orders[i].leaves_qty))
                /\ \A j \in Known : Open(j, s) => j = i

OFInv ==
    /\ OFTyped /\ LeavesConsistent /\ PositionsFollowOrders /\ PnlAccountsForCash
    /\ OrdersSeen /\ WillAgree /\ CancelsAnswered /\ ExposureBounded

-----------------------------------------------------------------------------
\* What a report may make of its order.
Handled(old, new, r) ==
    /\ new \in OrderRec
    /\ new.symbol = old.symbol /\ new.side = old.side /\ new.orig_qty = old.orig_qty
    /\ new.filled_qty <= new.orig_qty
    /\ new.leaves_qty = IF new.state \in Terminal THEN 0 ELSE new.orig_qty - new.filled_qty
    /\ old.state \in Terminal => new = old
    /\ View(new) = ViewAfter(View(old), old.orig_qty, r)
    /\ new.state = "PendingCancel" => old.state = "PendingCancel" \/ r.type = "PendingCancel"
    /\ r.type \in {"CancelReject", "Canceled"} => new.state # "PendingCancel"

Still(r) == UNCHANGED <<manager, cash>> /\ (r.id \in Known => Handled(orders[r.id], orders[r.id], r))
Restates(r, o) ==
    /\ r.id \in Known /\ Handled(orders[r.id], o, r) /\ o.filled_qty = orders[r.id].filled_qty
    /\ orders' = [orders EXCEPT ![r.id] = o] /\ UNCHANGED <<positions, cash>>
Fills(r, o) ==
    /\ r.id \in Known /\ Handled(orders[r.id], o, r) /\ ~is_terminal(r.id)
    /\ r.qty \in Nat \ {0} /\ r.px \in Nat \ {0}
    /\ o.filled_qty = orders[r.id].filled_qty + r.qty
    /\ orders' = [orders EXCEPT ![r.id] = o]
    /\ positions' = [positions EXCEPT ![o.symbol] = OnFill(@, o.side, r.qty, r.px)]
    /\ cash' = [cash EXCEPT ![o.symbol] = @ - Signed(o.side, r.qty) * r.px]
Effect(r) == Still(r) \/ \E o : Restates(r, o) \/ Fills(r, o)

\* The running average stays a fraction.
LEMMA FilledType ==
    ASSUME NEW o \in OrderRec, NEW qty \in Nat \ {0}, NEW px \in Nat \ {0}
    PROVE  /\ Filled(o, qty, px) \in [symbol : Symbols, side : Sides, orig_qty : 1..MaxQty, filled_qty : Nat,
                                      avg_fill_price : Rat, leaves_qty : Nat, state : OrderStates]
           /\ Filled(o, qty, px).filled_qty = o.filled_qty + qty
           /\ Filled(o, qty, px).symbol = o.symbol /\ Filled(o, qty, px).side = o.side
           /\ Filled(o, qty, px).orig_qty = o.orig_qty
<1>1. PICK f \in Nat, a \in Int, b \in Nat \ {0} : o.filled_qty = f /\ o.avg_fill_price = <<a, b>>
    BY DEF OrderRec, Rat
<1>2. IsFrac(<<a, b>>, a, b)
    BY DEF IsFrac, Rat
<1>3. PICK m \in Int, T \in Nat \ {0} : m = px * qty /\ T = f + qty
    BY Mul3
<1>4. PICK p : p = Plus(Times(f, <<a, b>>), Int2Frac(m))
    OBVIOUS
<1>5. PICK x \in Int, y \in Int : x = f * a /\ y = m * b
    BY Mul3
<1>6. Times(f, <<a, b>>) = Frac(x, b)
    BY <1>2, <1>5, TimesValue
<1>7. IsFrac(Frac(x, b), x, b) /\ IsFrac(Int2Frac(m), y, b)
    BY <1>5, FracValue, IntValue
<1>8. p = Frac(x + y, b)
  <2>1. Plus(Frac(x, b), Int2Frac(m)) = Frac(x + y, b)
      BY <1>7, PlusValue
  <2> QED
      BY <1>4, <1>6, <2>1
<1>9. PICK z \in Int : z = x + y
    OBVIOUS
<1>10. IsFrac(p, z, b)
    BY <1>8, <1>9, FracValue
<1>11. b * T \in Nat \ {0} /\ Over(p, T) = Frac(z, b * T)
    BY <1>10, OverValue
<1>12. PICK D \in Nat \ {0} : D = b * T
    BY <1>11
<1>13. Over(p, T) \in Rat
    BY <1>11, <1>12, FracType
<1>a. Filled(o, qty, px) = [o EXCEPT !.filled_qty = T, !.avg_fill_price = IF T > 0 THEN Over(p, T) ELSE @]
    BY <1>1, <1>3, <1>4 DEF Filled
<1>15. PICK w \in Rat : w = Over(p, T)
    BY <1>13
<1>14. Filled(o, qty, px) = [o EXCEPT !.filled_qty = T, !.avg_fill_price = w]
  <2>1. (IF T > 0 THEN Over(p, T) ELSE o.avg_fill_price) = w
      BY <1>15
  <2>2. Filled(o, qty, px) = [o EXCEPT !.filled_qty = T, !.avg_fill_price = IF T > 0 THEN Over(p, T) ELSE o.avg_fill_price]
      BY <1>a DEF OrderRec
  <2> QED
      BY <2>1, <2>2
<1> QED
    BY <1>1, <1>3, <1>14, <1>15 DEF OrderRec

\* Every report the exchange sends is one of these.
LEMMA ReportKinds ==
    ASSUME NEW r \in Reports
    PROVE  /\ r.id \in OrderIds
           /\ \/ r.type \in FillTypes /\ r.qty \in Nat \ {0} /\ r.px \in Nat \ {0}
              \/ r.type = "Trade" /\ r.qty = -1
              \/ r.type \in PlainTypes
BY DEF Reports

\* A report that leaves the quantities alone.
LEMMA OnlyState ==
    ASSUME NEW o \in OrderRec, NEW r \in Reports, NEW s \in OrderStates \ Terminal, o.state \notin Terminal,
           o.filled_qty <= o.orig_qty, o.leaves_qty = o.orig_qty - o.filled_qty,
           ~FillCounts(View(o), o.orig_qty, r), r.type \notin {"Canceled", "Rejected"},
           s = "PendingCancel" => o.state = "PendingCancel" \/ r.type = "PendingCancel",
           r.type = "CancelReject" => s # "PendingCancel"
    PROVE  LET new == [o EXCEPT !.state = s] IN Handled(o, new, r) /\ new.filled_qty = o.filled_qty
<1>1. PICK new : new = [o EXCEPT !.state = s]
    OBVIOUS
<1>2. /\ new \in OrderRec /\ new.symbol = o.symbol /\ new.side = o.side /\ new.orig_qty = o.orig_qty
      /\ new.filled_qty = o.filled_qty /\ new.leaves_qty = o.leaves_qty /\ new.state = s
    BY <1>1 DEF OrderRec
<1>3. ~View(o).over
    BY DEF View
<1>4. ViewAfter(View(o), o.orig_qty, r) = View(o)
    BY <1>3 DEF ViewAfter
<1>5. View(new) = View(o)
    BY <1>2 DEF View
<1>6. Handled(o, new, r)
    BY <1>2, <1>4, <1>5 DEF Handled
<1> QED
    BY <1>1, <1>2, <1>6

\* A report closes the order.
LEMMA OnlyClose ==
    ASSUME NEW o \in OrderRec, NEW r \in Reports, o.state \notin Terminal,
           o.filled_qty <= o.orig_qty, r.type \in {"Canceled", "Rejected"}
    PROVE  Handled(o, Close(o, r.type), r) /\ Close(o, r.type).filled_qty = o.filled_qty
<1>1. PICK new : new = Close(o, r.type)
    OBVIOUS
<1>2. r.type \in OrderStates /\ r.type \in Terminal
    BY DEF OrderStates, Terminal
<1>3. /\ new \in OrderRec /\ new.symbol = o.symbol /\ new.side = o.side /\ new.orig_qty = o.orig_qty
      /\ new.filled_qty = o.filled_qty /\ new.leaves_qty = 0 /\ new.state = r.type
    BY <1>1, <1>2 DEF OrderRec, Close
<1>4. ~View(o).over /\ ~FillCounts(View(o), o.orig_qty, r) /\ View(o).filled = o.filled_qty
    BY DEF View, FillCounts, FillTypes
<1>5. ViewAfter(View(o), o.orig_qty, r) = [filled |-> o.filled_qty, leaves |-> 0, over |-> TRUE]
    BY <1>4 DEF ViewAfter
<1>6. View(new) = [filled |-> o.filled_qty, leaves |-> 0, over |-> TRUE]
    BY <1>2, <1>3 DEF View
<1>7. Handled(o, new, r)
    BY <1>2, <1>3, <1>5, <1>6 DEF Handled
<1> QED
    BY <1>1, <1>3, <1>7

\* Nothing happens to a terminal order, nor on a fill past the ordered quantity.
LEMMA NothingDone ==
    ASSUME NEW o \in OrderRec, NEW r \in Reports, o.filled_qty <= o.orig_qty,
           o.leaves_qty = (IF o.state \in Terminal THEN 0 ELSE o.orig_qty - o.filled_qty),
           \/ o.state \in Terminal
           \/ ~FillCounts(View(o), o.orig_qty, r) /\ r.type \notin {"Canceled", "Rejected"},
           r.type \in {"Canceled", "CancelReject"} => o.state # "PendingCancel"
    PROVE  Handled(o, o, r)
<1>1. View(o).over = (o.state \in Terminal)
    BY DEF View
<1>2. ViewAfter(View(o), o.orig_qty, r) = View(o)
    BY <1>1 DEF ViewAfter
<1> QED
    BY <1>2 DEF Handled

\* A fill that counts.
LEMMA FillHandled ==
    ASSUME NEW o \in OrderRec, NEW r \in Reports, o.state \notin Terminal, r.type \in FillTypes,
           r.qty \in Nat \ {0}, r.px \in Nat \ {0}, o.filled_qty + r.qty <= o.orig_qty,
           NEW s, s = IF r.type = "Fill" THEN "Filled" ELSE "PartiallyFilled",
           NEW done, done = Filled(o, r.qty, r.px),
           NEW new, new = [done EXCEPT !.leaves_qty = LeavesIn(done, s), !.state = s]
    PROVE  Handled(o, new, r) /\ new.filled_qty = o.filled_qty + r.qty
<1>1. done \in OrderRec /\ done.filled_qty = o.filled_qty + r.qty /\ done.symbol = o.symbol
      /\ done.side = o.side /\ done.orig_qty = o.orig_qty
    BY FilledType DEF OrderRec
<1>2. PICK f \in Nat, g \in Nat, q \in Nat : f = done.filled_qty /\ g = done.orig_qty /\ q = o.filled_qty
        /\ f <= g /\ f = q + r.qty
    BY <1>1 DEF OrderRec
<1>3. LeavesIn(done, s) = (IF r.type = "Fill" THEN 0 ELSE g - f) /\ LeavesIn(done, s) \in Nat
    BY <1>2 DEF LeavesIn
<1>4. s \in OrderStates /\ (s \in Terminal <=> r.type = "Fill") /\ s # "PendingCancel"
    BY DEF OrderStates, Terminal
<1>5. PICK l \in Nat : l = LeavesIn(done, s)
    BY <1>3
<1>6. /\ new \in OrderRec /\ new.symbol = o.symbol /\ new.side = o.side /\ new.orig_qty = o.orig_qty
      /\ new.filled_qty = f /\ new.leaves_qty = l /\ new.state = s
    BY <1>1, <1>2, <1>4, <1>5 DEF OrderRec
<1>a. ~View(o).over /\ View(o).filled = q
    BY <1>2 DEF View
<1>7. ~View(o).over /\ FillCounts(View(o), o.orig_qty, r) /\ View(o).filled = q
    BY <1>1, <1>2, <1>a DEF FillCounts
<1>8. ViewAfter(View(o), o.orig_qty, r)
        = [filled |-> f, over |-> r.type = "Fill", leaves |-> IF r.type = "Fill" THEN 0 ELSE g - f]
    BY <1>1, <1>2, <1>7 DEF ViewAfter
<1>9. View(new) = [filled |-> f, over |-> s \in Terminal, leaves |-> l]
    BY <1>6 DEF View
<1>10. (s \in Terminal) = (r.type = "Fill")
    BY <1>4
<1>11. View(new) = ViewAfter(View(o), o.orig_qty, r)
    BY <1>3, <1>5, <1>8, <1>9, <1>10
<1>12. r.type \notin {"CancelReject", "Canceled"}
    BY DEF FillTypes
<1> QED
    BY <1>1, <1>2, <1>3, <1>4, <1>5, <1>6, <1>11, <1>12 DEF Handled

\* The handlers do one of three things.
LEMMA HandleEffect ==
    ASSUME OFTyped, LeavesConsistent, NEW r \in Reports, Handle(r)
    PROVE  Effect(r)
<1>1. CASE r.id \notin Known
    BY <1>1 DEF Handle, on_cancel_reject, on_execution_report, Effect, Still
<1>2. CASE r.id \in Known
  <2>1. PICK o \in OrderRec : o = orders[r.id]
      BY <1>2 DEF OFTyped
  <2>2. /\ o.filled_qty <= o.orig_qty
        /\ o.leaves_qty = (IF o.state \in Terminal THEN 0 ELSE o.orig_qty - o.filled_qty)
        /\ (is_terminal(r.id) <=> o.state \in Terminal)
      BY <1>2, <2>1 DEF LeavesConsistent, is_terminal
  <2>s. "New" \in OrderStates \ Terminal /\ "PartiallyFilled" \in OrderStates \ Terminal
        /\ "PendingCancel" \in OrderStates \ Terminal
      BY DEF OrderStates, Terminal
  <2>3. ASSUME UNCHANGED <<manager, cash>>, Handled(o, o, r) PROVE Effect(r)
      BY <2>1, <2>3 DEF Effect, Still
  <2>4. ASSUME NEW new, SetOrder(r.id, new), Handled(o, new, r), new.filled_qty = o.filled_qty PROVE Effect(r)
      BY <1>2, <2>1, <2>4 DEF Effect, Restates, SetOrder
  <2>5. ASSUME NEW s \in OrderStates \ Terminal, SetOrder(r.id, [o EXCEPT !.state = s]), o.state \notin Terminal,
               ~FillCounts(View(o), o.orig_qty, r), r.type \notin {"Canceled", "Rejected"},
               s = "PendingCancel" => o.state = "PendingCancel" \/ r.type = "PendingCancel",
               r.type = "CancelReject" => s # "PendingCancel"
        PROVE Effect(r)
    <3>1. PICK new : new = [o EXCEPT !.state = s]
        OBVIOUS
    <3>2. Handled(o, new, r) /\ new.filled_qty = o.filled_qty
        BY <2>2, <2>5, <3>1, OnlyState
    <3> QED
        BY <2>4, <2>5, <3>1, <3>2
  <2>6. CASE r.type = "CancelReject"
    <3>a. ~FillCounts(View(o), o.orig_qty, r)
        BY <2>6 DEF FillCounts, FillTypes
    <3>1. CASE o.state = "PendingCancel"
      <4>1. PICK s \in OrderStates \ Terminal :
                /\ s = (IF o.filled_qty > 0 THEN "PartiallyFilled" ELSE "New") /\ s # "PendingCancel"
          BY <2>s
      <4>2. SetOrder(r.id, [o EXCEPT !.state = s]) /\ o.state \notin Terminal
          BY <1>2, <2>1, <2>6, <3>1, <4>1 DEF Handle, on_cancel_reject, Terminal
      <4> QED
          BY <2>5, <2>6, <3>1, <3>a, <4>1, <4>2
    <3>2. CASE o.state # "PendingCancel"
      <4>1. UNCHANGED <<manager, cash>>
          BY <2>1, <2>6, <3>2 DEF Handle, on_cancel_reject
      <4>2. Handled(o, o, r)
          BY <2>2, <2>6, <3>2, <3>a, NothingDone
      <4> QED
          BY <2>3, <4>1, <4>2
    <3> QED
        BY <3>1, <3>2
  <2>7. CASE r.type # "CancelReject" /\ o.state \in Terminal
    <3>1. UNCHANGED <<manager, cash>>
        BY <2>2, <2>7 DEF Handle, on_execution_report
    <3>2. Handled(o, o, r)
      <4>1. o.state # "PendingCancel"
          BY <2>7 DEF Terminal
      <4> QED
          BY <2>2, <2>7, <4>1, NothingDone
    <3> QED
        BY <2>3, <3>1, <3>2
  <2>8. CASE r.type # "CancelReject" /\ o.state \notin Terminal
    <3>1. ApplyReport(r)
        BY <1>2, <2>2, <2>8 DEF Handle, on_execution_report
    <3>2. CASE r.type \in FillTypes /\ r.qty \in Nat \ {0} /\ r.px \in Nat \ {0}
      <4>1. PICK s : s = IF r.type = "Fill" THEN "Filled" ELSE "PartiallyFilled"
          OBVIOUS
      <4>2. ApplyFill(r, s)
          BY <3>1, <3>2, <4>1 DEF ApplyReport, FillTypes
      <4>3. CASE OverFill(o, r.qty)
        <5>1. UNCHANGED <<manager, cash>>
            BY <2>1, <3>2, <4>2, <4>3 DEF ApplyFill
        <5>2. ~FillCounts(View(o), o.orig_qty, r) /\ r.type \notin {"Canceled", "Rejected", "CancelReject"}
            BY <3>2, <4>3 DEF FillCounts, View, OverFill, FillTypes, OrderRec
        <5>3. Handled(o, o, r)
            BY <2>2, <5>2, NothingDone
        <5> QED
            BY <2>3, <5>1, <5>3
      <4>4. CASE ~OverFill(o, r.qty)
        <5>1. PICK done : done = Filled(o, r.qty, r.px)
            OBVIOUS
        <5>2. PICK new : new = [done EXCEPT !.leaves_qty = LeavesIn(done, s), !.state = s]
            OBVIOUS
        <5>3. o.filled_qty + r.qty <= o.orig_qty
            BY <3>2, <4>4 DEF OverFill, OrderRec
        <5>4. Handled(o, new, r) /\ new.filled_qty = o.filled_qty + r.qty
            BY <2>8, <3>2, <4>1, <5>1, <5>2, <5>3, FillHandled
        <5>5. ~(r.qty < 0)
            BY <3>2
        <5>6. /\ orders' = [orders EXCEPT ![r.id] = new]
              /\ positions' = [positions EXCEPT ![o.symbol] = OnFill(@, o.side, r.qty, r.px)]
              /\ cash' = [cash EXCEPT ![o.symbol] = @ - Signed(o.side, r.qty) * r.px]
            BY <2>1, <4>2, <4>4, <5>1, <5>2, <5>5 DEF ApplyFill
        <5>7. new.symbol = o.symbol /\ new.side = o.side
            BY <5>4 DEF Handled
        <5>8. Fills(r, new)
            BY <1>2, <2>1, <2>2, <2>8, <3>2, <5>4, <5>6, <5>7 DEF Fills
        <5> QED
            BY <5>8 DEF Effect
      <4> QED
          BY <4>3, <4>4
    <3>3. CASE r.type = "Trade" /\ r.qty = -1
      <4>1. SetOrder(r.id, [o EXCEPT !.state = "PartiallyFilled"])
          BY <2>1, <3>1, <3>3 DEF ApplyReport, ApplyFill
      <4>2. ~FillCounts(View(o), o.orig_qty, r)
          BY <3>3 DEF FillCounts
      <4> QED
          BY <2>5, <2>8, <2>s, <3>3, <4>1, <4>2
    <3>4. CASE r.type \in PlainTypes
      <4>0. ~FillCounts(View(o), o.orig_qty, r)
          BY <3>4 DEF FillCounts, FillTypes, PlainTypes
      <4>1. CASE r.type = "New"
        <5>1. SetOrder(r.id, [o EXCEPT !.state = "New"])
            BY <2>1, <3>1, <4>1 DEF ApplyReport
        <5> QED
            BY <2>5, <2>8, <2>s, <4>0, <4>1, <5>1
      <4>2. CASE r.type = "PendingCancel"
        <5>1. SetOrder(r.id, [o EXCEPT !.state = "PendingCancel"])
            BY <2>1, <3>1, <4>2 DEF ApplyReport
        <5> QED
            BY <2>5, <2>8, <2>s, <4>0, <4>2, <5>1
      <4>3. CASE r.type \in {"Canceled", "Rejected"}
        <5>1. SetOrder(r.id, Close(o, r.type))
            BY <2>1, <3>1, <4>3 DEF ApplyReport
        <5>2. Handled(o, Close(o, r.type), r) /\ Close(o, r.type).filled_qty = o.filled_qty
            BY <2>2, <2>8, <4>3, OnlyClose
        <5> QED
            BY <2>4, <5>1, <5>2
      <4>4. CASE r.type = "Suspended"
        <5>1. UNCHANGED <<manager, cash>>
            BY <3>1, <4>4 DEF ApplyReport
        <5>2. Handled(o, o, r)
            BY <2>2, <4>0, <4>4, NothingDone
        <5> QED
            BY <2>3, <5>1, <5>2
      <4> QED
          BY <2>8, <3>4, <4>1, <4>2, <4>3, <4>4 DEF PlainTypes
    <3> QED
        BY <3>2, <3>3, <3>4, ReportKinds
  <2> QED
      BY <2>6, <2>7, <2>8
<1> QED
    BY <1>1, <1>2

-----------------------------------------------------------------------------
(* The ledger: types, leaves, positions and profit.                        *)

\* An empty book fills nothing.
LEMMA EmptySums ==
    ASSUME NEW s
    PROVE  SumOver({}, << >>, s) = 0
BY SumOverEmpty

\* What an order filled is an integer.
LEMMA SignedFillInt ==
    ASSUME NEW o \in OrderRec
    PROVE  SignedFill(o) \in Int
BY DEF SignedFill, Signed, OrderRec

\* The invariant holds before the first order.
LEMMA OFInitHolds == OFInit => OFInv
<1> SUFFICES ASSUME OFInit PROVE OFInv
    OBVIOUS
<1> USE DEF OFInit
<1>1. Known = {} /\ IsFiniteSet(Known) /\ Len(wire) = 0
    BY FS_EmptySet DEF Known
<1>2. Unseen \in ExchRec
    BY DEF Unseen, ExchRec
<1>3. OFTyped
  <2>1. orders \in [Known -> OrderRec] /\ Known \subseteq OrderIds
      BY <1>1 DEF Known
  <2>2. wire \in Seq(Reports) /\ 0 <= MaxInFlight /\ 0 \in 0..MaxResends
      BY BoundsAssumption
  <2> QED
      BY <1>1, <1>2, <2>1, <2>2, FlatTrue DEF OFTyped
<1>4. PositionsFollowOrders
  <2> SUFFICES ASSUME NEW s \in Symbols PROVE positions[s].qty = base[s] + SumOver(Known, orders, s)
      BY DEF PositionsFollowOrders
  <2>1. SumOver(Known, orders, s) = 0
      BY <1>1, EmptySums
  <2> QED
      BY <2>1, FlatTrue
<1>5. PnlAccountsForCash
    BY FlatTrue DEF PnlAccountsForCash, Accounted
<1>6. LeavesConsistent /\ OrdersSeen /\ WillAgree /\ CancelsAnswered
    BY <1>1 DEF Unseen, LeavesConsistent, OrdersSeen, WillAgree, CancelsAnswered
<1>7. ExposureBounded
  <2>1. ASSUME \A l \in LimitSets : l.max_position_qty > 0, NEW s \in Symbols PROVE Permitted(positions[s].qty)
    <3>1. positions[s].qty = 0 /\ Abs(0) = 0
        BY FlatTrue DEF Abs
    <3> QED
        BY <2>1, <3>1, LimitsAssumption DEF Permitted
  <2> QED
      BY <1>1, <2>1 DEF ExposureBounded
<1> QED
    BY <1>3, <1>4, <1>5, <1>6, <1>7 DEF OFInv

Ledger == OFTyped /\ LeavesConsistent /\ PositionsFollowOrders /\ PnlAccountsForCash

\* The ledger does not look at the exchange.
LEMMA LedgerFrame ==
    ASSUME Ledger, UNCHANGED <<orders, positions, base, cash>>, limits' \in LimitSets,
           exch' \in [OrderIds -> ExchRec], wire' \in Seq(Reports), Len(wire') <= MaxInFlight,
           past' \subseteq Reports, resends' \in 0..MaxResends, overlapped' \subseteq Symbols
    PROVE  Ledger'
<1>1. OFTyped'
    BY DEF Ledger, OFTyped, Known
<1>2. LeavesConsistent' /\ PnlAccountsForCash'
    BY DEF Ledger, LeavesConsistent, PnlAccountsForCash, is_terminal, Known
<1>3. PositionsFollowOrders'
  <2>1. Known' = Known
      BY DEF Known
  <2> QED
      BY <2>1 DEF Ledger, PositionsFollowOrders
<1> QED
    BY <1>1, <1>2, <1>3 DEF Ledger

\* A new order has filled nothing.
LEMMA SubmitKeepsLedger ==
    ASSUME Ledger, NEW id \in OrderIds, NEW symbol \in Symbols, NEW side \in Sides, NEW qty \in 1..MaxQty,
           NEW price \in FillPrices, Submit(id, symbol, side, qty, price)
    PROVE  Ledger'
<1> USE QtyAssumption
<1>1. PICK o : o = [symbol |-> symbol, side |-> side, orig_qty |-> qty, filled_qty |-> 0,
                    avg_fill_price |-> Int2Frac(0), leaves_qty |-> qty, state |-> "PendingNew"]
    OBVIOUS
<1>2. o \in OrderRec /\ o.filled_qty = 0 /\ o.leaves_qty = qty /\ o.orig_qty = qty /\ o.state \notin Terminal
    BY <1>1 DEF OrderRec, Int2Frac, Rat, OrderStates, Terminal
<1>3. /\ id \notin Known /\ Known' = Known \cup {id} /\ orders'[id] = o
      /\ \A i \in Known : orders'[i] = orders[i]
      /\ orders' \in [Known \cup {id} -> OrderRec] /\ IsFiniteSet(Known')
  <2>1. orders' = [i \in Known \cup {id} |-> IF i = id THEN o ELSE orders[i]] /\ id \notin Known
      BY <1>1 DEF Submit
  <2>2. \A i \in Known : orders[i] \in OrderRec
      BY DEF Ledger, OFTyped
  <2>3. Known' = Known \cup {id}
      BY <2>1 DEF Known
  <2>4. IsFiniteSet(Known \cup {id})
      BY FS_AddElement DEF Ledger, OFTyped
  <2> QED
      BY <1>2, <2>1, <2>2, <2>3, <2>4
<1>4. OFTyped'
  <2>1. exch' \in [OrderIds -> ExchRec]
      BY DEF Submit, Ledger, OFTyped, ExchRec
  <2>2. overlapped' \subseteq Symbols
      BY DEF Submit, Ledger, OFTyped
  <2> QED
      BY <1>3, <2>1, <2>2 DEF Submit, Ledger, OFTyped, bookkeeping
<1>5. LeavesConsistent'
    BY <1>2, <1>3 DEF Ledger, LeavesConsistent, is_terminal
<1>6. PnlAccountsForCash'
    BY DEF Ledger, PnlAccountsForCash, Submit, bookkeeping
<1>7. PositionsFollowOrders'
  <2> SUFFICES ASSUME NEW s \in Symbols PROVE positions'[s].qty = base'[s] + SumOver(Known', orders', s)
      BY DEF PositionsFollowOrders
  <2>1. IsFiniteSet(Known) /\ \A i \in Known : SignedFill(orders[i]) \in Int
      BY SignedFillInt DEF Ledger, OFTyped
  <2>2. SignedFill(orders'[id]) = 0
      BY <1>2, <1>3 DEF SignedFill, Signed
  <2>3. PICK book : book = orders'
      OBVIOUS
  <2>4. \A i \in Known : SignedFill(orders[i]) \in Int /\ book[i] = orders[i]
      BY <1>3, <2>1, <2>3
  <2>5. Part(book[id], s) = 0 /\ SignedFill(book[id]) \in Int
      BY <2>2, <2>3 DEF Part
  <2>6. SumOver(Known \cup {id}, book, s) = SumOver(Known, orders, s)
      BY <1>3, <2>1, <2>4, <2>5, SumOverAdd
  <2> QED
      BY <1>3, <2>3, <2>6 DEF Ledger, PositionsFollowOrders, Submit, bookkeeping
<1> QED
    BY <1>4, <1>5, <1>6, <1>7 DEF Ledger

\* One order replaced by one that agrees with the exchange's report.
LEMMA ReplaceKeepsLedger ==
    ASSUME Ledger, NEW id \in Known, NEW o \in OrderRec, o.symbol = orders[id].symbol,
           orders' = [orders EXCEPT ![id] = o], o.filled_qty <= o.orig_qty,
           o.leaves_qty = (IF o.state \in Terminal THEN 0 ELSE o.orig_qty - o.filled_qty),
           NEW d \in Int, SignedFill(o) = SignedFill(orders[id]) + d,
           positions' \in [Symbols -> PositionRec], cash' \in [Symbols -> Int], PnlAccountsForCash',
           \A s \in Symbols : positions'[s].qty = positions[s].qty + (IF s = o.symbol THEN d ELSE 0),
           UNCHANGED <<limits, exch, overlapped, base>>, wire' \in Seq(Reports), Len(wire') <= MaxInFlight,
           past' \subseteq Reports, resends' \in 0..MaxResends
    PROVE  Ledger'
<1>1. /\ Known' = Known /\ orders' \in [Known -> OrderRec] /\ orders'[id] = o
      /\ \A i \in Known \ {id} : orders'[i] = orders[i]
    BY DEF Ledger, OFTyped, Known
<1>2. OFTyped'
    BY <1>1 DEF Ledger, OFTyped
<1>3. LeavesConsistent'
    BY <1>1 DEF Ledger, LeavesConsistent, is_terminal
<1>4. PositionsFollowOrders'
  <2> SUFFICES ASSUME NEW s \in Symbols PROVE positions'[s].qty = base'[s] + SumOver(Known', orders', s)
      BY DEF PositionsFollowOrders
  <2>1. IsFiniteSet(Known) /\ \A i \in Known : SignedFill(orders[i]) \in Int
      BY SignedFillInt DEF Ledger, OFTyped
  <2>2. PICK book : book = orders'
      OBVIOUS
  <2>3. SignedFill(book[id]) \in Int /\ \A i \in Known \ {id} : book[i] = orders[i]
      BY <1>1, <2>2, SignedFillInt
  <2>4. SumOver(Known, book, s) = SumOver(Known, orders, s) + (Part(book[id], s) - Part(orders[id], s))
    <3>1. Replaced(Known, orders, book, s, id)
        BY <2>1, <2>3, SumOverChange
    <3> QED
        BY <3>1 DEF Replaced
  <2>5. Part(book[id], s) - Part(orders[id], s) = IF s = o.symbol THEN d ELSE 0
    <3>1. SignedFill(orders[id]) \in Int /\ book[id] = o
        BY <1>1, <2>1, <2>2
    <3> QED
        BY <3>1 DEF Part
  <2>6. SumOver(Known, orders, s) \in Int
      BY <2>1, SumOverInt
  <2>7. PICK x \in Int, y \in Int, z \in Int : x = SumOver(Known, orders, s) /\ y = base[s]
          /\ z = IF s = o.symbol THEN d ELSE 0
      BY <2>6 DEF Ledger, OFTyped
  <2>8. positions[s].qty = y + x
      BY <2>7 DEF Ledger, PositionsFollowOrders
  <2>9. positions'[s].qty = (y + x) + z
      BY <2>7, <2>8
  <2>10. base'[s] + SumOver(Known', orders', s) = y + (x + z)
      BY <1>1, <2>2, <2>4, <2>5, <2>7
  <2> QED
      BY <2>9, <2>10, <2>7
<1> QED
    BY <1>2, <1>3, <1>4 DEF Ledger

\* Reports keep the ledger.
LEMMA EffectKeepsLedger ==
    ASSUME Ledger, NEW r \in Reports, Effect(r), UNCHANGED <<limits, exch, overlapped, base>>,
           wire' \in Seq(Reports), Len(wire') <= MaxInFlight,
           past' \subseteq Reports, resends' \in 0..MaxResends
    PROVE  Ledger'
<1>t. /\ positions \in [Symbols -> PositionRec] /\ cash \in [Symbols -> Int] /\ PnlAccountsForCash
      /\ orders \in [Known -> OrderRec]
    BY DEF Ledger, OFTyped
<1>1. CASE Still(r)
  <2>1. UNCHANGED <<orders, positions, base, cash>>
      BY <1>1 DEF Still, manager
  <2>2. limits' \in LimitSets /\ exch' \in [OrderIds -> ExchRec] /\ overlapped' \subseteq Symbols
      BY DEF Ledger, OFTyped
  <2> QED
      BY <2>1, <2>2, LedgerFrame
<1>2. ASSUME NEW o, Restates(r, o) PROVE Ledger'
  <2>1. /\ r.id \in Known /\ o \in OrderRec /\ o.symbol = orders[r.id].symbol /\ o.side = orders[r.id].side
        /\ orders' = [orders EXCEPT ![r.id] = o] /\ o.filled_qty <= o.orig_qty
        /\ o.leaves_qty = (IF o.state \in Terminal THEN 0 ELSE o.orig_qty - o.filled_qty)
        /\ o.filled_qty = orders[r.id].filled_qty /\ UNCHANGED <<positions, cash>>
      BY <1>2 DEF Restates, Handled
  <2>2. SignedFill(o) = SignedFill(orders[r.id]) /\ SignedFill(o) \in Int
      BY <2>1, SignedFillInt DEF SignedFill
  <2>3. SignedFill(o) = SignedFill(orders[r.id]) + 0
      BY <2>2
  <2>4. PnlAccountsForCash'
      BY <1>t, <2>1 DEF PnlAccountsForCash
  <2>5. \A s \in Symbols : positions'[s].qty = positions[s].qty + (IF s = o.symbol THEN 0 ELSE 0)
      BY <1>t, <2>1 DEF PositionRec
  <2>6. PICK id \in Known, d \in Int : id = r.id /\ d = 0
      BY <2>1
  <2>7. \A s \in Symbols : positions'[s].qty = positions[s].qty + (IF s = o.symbol THEN d ELSE 0)
      BY <2>5, <2>6
  <2>8. SignedFill(o) = SignedFill(orders[id]) + d
      BY <2>3, <2>6
  <2>9. positions' \in [Symbols -> PositionRec] /\ cash' \in [Symbols -> Int]
      BY <1>t, <2>1
  <2> QED
      BY <2>1, <2>4, <2>6, <2>7, <2>8, <2>9, ReplaceKeepsLedger
<1>3. ASSUME NEW o, Fills(r, o) PROVE Ledger'
  <2>1. /\ r.id \in Known /\ o \in OrderRec /\ o.symbol = orders[r.id].symbol /\ o.side = orders[r.id].side
        /\ orders' = [orders EXCEPT ![r.id] = o] /\ o.filled_qty <= o.orig_qty
        /\ o.leaves_qty = (IF o.state \in Terminal THEN 0 ELSE o.orig_qty - o.filled_qty)
        /\ o.filled_qty = orders[r.id].filled_qty + r.qty
        /\ r.qty \in Nat \ {0} /\ r.px \in Nat \ {0}
        /\ positions' = [positions EXCEPT ![o.symbol] = OnFill(@, o.side, r.qty, r.px)]
        /\ cash' = [cash EXCEPT ![o.symbol] = @ - Signed(o.side, r.qty) * r.px]
      BY <1>3 DEF Fills, Handled
  <2>2. PICK m \in Symbols, side \in Sides, q \in Nat \ {0}, px \in Nat \ {0} :
            m = o.symbol /\ side = o.side /\ q = r.qty /\ px = r.px
      BY <2>1 DEF OrderRec
  <2>3. PICK d \in Int : d = Signed(side, q)
      BY DEF Signed
  <2>4. PICK pos \in PositionRec, C \in Int : pos = positions[m] /\ C = cash[m]
      BY <1>t
  <2>5. Accounted(pos, C)
      BY <1>t, <2>4 DEF PnlAccountsForCash, Accounted
  <2>6. PICK after : after = OnFill(pos, side, q, px)
      OBVIOUS
  <2>7. PICK paid \in Int : paid = d * px
      BY Mul3
  <2>8. after \in PositionRec /\ after.qty = pos.qty + d /\ Accounted(after, C - paid)
    <3>1. after \in PositionRec
        BY <2>5, <2>6, OnFillTrue
    <3>2. after.qty = pos.qty + Signed(side, q)
        BY <2>5, <2>6, OnFillTrue
    <3>3. Accounted(after, C - Signed(side, q) * px)
        BY <2>5, <2>6, OnFillTrue
    <3> QED
        BY <2>3, <2>7, <3>1, <3>2, <3>3
  <2>9. positions' = [positions EXCEPT ![m] = after] /\ cash' = [cash EXCEPT ![m] = C - paid]
      BY <2>1, <2>2, <2>3, <2>4, <2>6, <2>7
  <2>10. positions' \in [Symbols -> PositionRec] /\ cash' \in [Symbols -> Int]
      BY <1>t, <2>8, <2>9
  <2>11. PnlAccountsForCash'
    <3>1. \A s \in Symbols : s # m => positions'[s] = positions[s] /\ cash'[s] = cash[s]
        BY <1>t, <2>9
    <3>2. positions'[m] = after /\ cash'[m] = C - paid
        BY <1>t, <2>9
    <3> QED
        BY <1>t, <2>8, <3>1, <3>2 DEF PnlAccountsForCash, Accounted
  <2>12. \A s \in Symbols : positions'[s].qty = positions[s].qty + (IF s = o.symbol THEN d ELSE 0)
    <3> TAKE s \in Symbols
    <3>1. CASE s = m
        BY <1>t, <2>2, <2>4, <2>8, <2>9, <3>1
    <3>2. CASE s # m
      <4>1. positions'[s] = positions[s] /\ positions[s].qty \in Int
          BY <1>t, <2>9, <3>2 DEF PositionRec
      <4> QED
          BY <2>2, <3>2, <4>1
    <3> QED
        BY <3>1, <3>2
  <2>13. SignedFill(o) = SignedFill(orders[r.id]) + d
    <3>1. PICK f \in Int : f = orders[r.id].filled_qty
        BY <1>t, <2>1 DEF OrderRec
    <3>2. SignedFill(o) = Signed(side, f + q) /\ SignedFill(orders[r.id]) = Signed(side, f)
        BY <2>1, <2>2, <3>1 DEF SignedFill
    <3>3. Signed(side, f + q) = Signed(side, f) + Signed(side, q)
        BY DEF Signed
    <3> QED
        BY <2>3, <3>2, <3>3
  <2>14. PICK id \in Known : id = r.id
      BY <2>1
  <2>15. SignedFill(o) = SignedFill(orders[id]) + d
      BY <2>13, <2>14
  <2>16. /\ o \in OrderRec /\ o.symbol = orders[id].symbol
         /\ orders' = [orders EXCEPT ![id] = o] /\ o.filled_qty <= o.orig_qty
         /\ o.leaves_qty = (IF o.state \in Terminal THEN 0 ELSE o.orig_qty - o.filled_qty)
      BY <2>1, <2>14
  <2> QED
      BY <2>10, <2>11, <2>12, <2>15, <2>16, ReplaceKeepsLedger
<1> QED
    BY <1>1, <1>2, <1>3 DEF Effect

\* What is purged moves to the history, symbol by symbol.
LEMMA PurgeKeepsLedger ==
    ASSUME Ledger, purge_terminal
    PROVE  Ledger'
<1>1. /\ Known' = Known \ Purged /\ Purged \subseteq Known
      /\ orders' \in [Known \ Purged -> OrderRec] /\ \A i \in Known \ Purged : orders'[i] = orders[i]
      /\ IsFiniteSet(Known \ Purged) /\ IsFiniteSet(Purged) /\ IsFiniteSet(Known)
  <2>1. orders' = [id \in Known \ Purged |-> orders[id]] /\ Purged \subseteq Known
      BY DEF purge_terminal, Purged
  <2>2. Known' = Known \ Purged
      BY <2>1 DEF Known
  <2>3. IsFiniteSet(Known) /\ orders \in [Known -> OrderRec]
      BY DEF Ledger, OFTyped
  <2>4. IsFiniteSet(Known \ Purged) /\ IsFiniteSet(Purged)
      BY <2>1, <2>3, FS_Subset
  <2> QED
      BY <2>1, <2>2, <2>3, <2>4
<1>2. \A i \in Known : SignedFill(orders[i]) \in Int
    BY SignedFillInt DEF Ledger, OFTyped
<1>3. ASSUME NEW s \in Symbols
      PROVE  /\ SumOver(Purged, orders, s) \in Int
             /\ SumOver(Known, orders, s) = SumOver(Known', orders', s) + SumOver(Purged, orders, s)
             /\ SumOver(Known', orders', s) \in Int
  <2>1. PICK gone, kept, book : gone = Purged /\ kept = Known \ gone /\ book = orders'
      OBVIOUS
  <2>2. gone \in SUBSET Known /\ IsFiniteSet(kept) /\ \A i \in kept : SignedFill(orders[i]) \in Int /\ book[i] = orders[i]
      BY <1>1, <1>2, <2>1
  <2>3. SumOver(kept, book, s) = SumOver(kept, orders, s)
      BY <2>2, SumOverAgree
  <2>4. SumOver(kept, orders, s) \in Int
      BY <2>2, SumOverInt
  <2>5. SumOver(gone, orders, s) \in Int
      BY <1>1, <1>2, <2>1, SumOverInt
  <2>6. SumOver(Known, orders, s) = SumOver(Known \ gone, orders, s) + SumOver(gone, orders, s)
      BY <1>1, <1>2, <2>2, SumOverSplit
  <2> QED
      BY <1>1, <2>1, <2>3, <2>4, <2>5, <2>6
<1>4. base' = [s \in Symbols |-> base[s] + SumOver(Purged, orders, s)]
      /\ UNCHANGED <<positions, limits, exch, wire, past, resends, overlapped, cash>>
    BY DEF purge_terminal, external
<1>5. OFTyped'
    BY <1>1, <1>3, <1>4 DEF Ledger, OFTyped
<1>6. LeavesConsistent'
    BY <1>1 DEF Ledger, LeavesConsistent, is_terminal
<1>7. PnlAccountsForCash'
    BY <1>4 DEF Ledger, PnlAccountsForCash
<1>8. PositionsFollowOrders'
  <2> SUFFICES ASSUME NEW s \in Symbols PROVE positions'[s].qty = base'[s] + SumOver(Known', orders', s)
      BY DEF PositionsFollowOrders
  <2>1. PICK x \in Int, y \in Int, z \in Int :
            x = base[s] /\ y = SumOver(Purged, orders, s) /\ z = SumOver(Known', orders', s)
      BY <1>3 DEF Ledger, OFTyped
  <2>2. positions[s].qty = x + (z + y)
      BY <1>3, <2>1 DEF Ledger, PositionsFollowOrders
  <2>3. positions'[s] = positions[s] /\ base'[s] = x + y
      BY <1>4, <2>1
  <2> QED
      BY <2>1, <2>2, <2>3
<1> QED
    BY <1>5, <1>6, <1>7, <1>8 DEF Ledger

\* What is cleared is taken off the history.
LEMMA ClearKeepsLedger ==
    ASSUME Ledger, clear
    PROVE  Ledger'
<1>1. /\ positions' = [s \in Symbols |-> Flat] /\ cash' = [s \in Symbols |-> 0]
      /\ base' = [s \in Symbols |-> base[s] - positions[s].qty]
      /\ UNCHANGED <<orders, limits, exch, wire, past, resends, overlapped>>
    BY DEF clear, external
<1>2. \A s \in Symbols : base[s] \in Int /\ positions[s].qty \in Int
    BY DEF Ledger, OFTyped, PositionRec
<1>3. OFTyped'
    BY <1>1, <1>2, FlatTrue DEF Ledger, OFTyped, Known
<1>4. LeavesConsistent'
    BY <1>1 DEF Ledger, LeavesConsistent, is_terminal, Known
<1>5. PnlAccountsForCash'
    BY <1>1, FlatTrue DEF PnlAccountsForCash, Accounted
<1>6. PositionsFollowOrders'
  <2> SUFFICES ASSUME NEW s \in Symbols PROVE positions'[s].qty = base'[s] + SumOver(Known', orders', s)
      BY DEF PositionsFollowOrders
  <2>1. Known' = Known /\ orders' = orders
      BY <1>1 DEF Known
  <2>2. SumOver(Known, orders, s) \in Int
    <3>1. IsFiniteSet(Known) /\ \A i \in Known : SignedFill(orders[i]) \in Int
        BY SignedFillInt DEF Ledger, OFTyped
    <3> QED
        BY <3>1, SumOverInt
  <2>3. PICK x \in Int, y \in Int : x = base[s] /\ y = SumOver(Known, orders, s)
      BY <1>2, <2>2
  <2>4. positions[s].qty = x + y
      BY <2>3 DEF Ledger, PositionsFollowOrders
  <2>5. base'[s] = x - (x + y) /\ positions'[s].qty = 0
      BY <1>1, <2>3, <2>4, FlatTrue
  <2> QED
      BY <2>1, <2>3, <2>5
<1> QED
    BY <1>3, <1>4, <1>5, <1>6 DEF Ledger

-----------------------------------------------------------------------------
(* The reports on the wire: the book will agree with the exchange.         *)

\* The first report leaves the wire.
LEMMA TailFacts ==
    ASSUME NEW w \in Seq(Reports), w # << >>
    PROVE  /\ Head(w) \in Reports /\ Head(w) = w[1] /\ Len(w) \in Nat \ {0}
           /\ Tail(w) \in Seq(Reports) /\ Len(Tail(w)) = Len(w) - 1
           /\ \A k \in 1..Len(Tail(w)) : Tail(w)[k] = w[k + 1]
BY HeadTailProperties, LenProperties, EmptySeq, SeqDef

\* A report joins the wire.
LEMMA AppendFacts ==
    ASSUME NEW w \in Seq(Reports), NEW r \in Reports
    PROVE  /\ Append(w, r) \in Seq(Reports) /\ Len(Append(w, r)) = Len(w) + 1 /\ Len(w) \in Nat
           /\ \A k \in 1..Len(w) : Append(w, r)[k] = w[k]
           /\ Append(w, r)[Len(w) + 1] = r
BY AppendProperties, LenProperties

\* A view stays a view.
LEMMA ViewType ==
    ASSUME NEW v \in Views, NEW orig \in Int, NEW r \in Reports
    PROVE  ViewAfter(v, orig, r) \in Views
<1>1. CASE v.over
    BY <1>1 DEF ViewAfter
<1>2. CASE ~v.over /\ FillCounts(v, orig, r)
  <2>1. PICK f \in Int, q \in Int : f = v.filled + r.qty /\ q = IF r.type = "Fill" THEN 0 ELSE orig - f
      BY ReportKinds, <1>2 DEF Views, FillCounts, FillTypes, PlainTypes, Reports
  <2>2. ViewAfter(v, orig, r) = [filled |-> f, over |-> r.type = "Fill", leaves |-> q]
      BY <1>2, <2>1 DEF ViewAfter
  <2>3. (r.type = "Fill") \in BOOLEAN
      OBVIOUS
  <2> QED
      BY <2>1, <2>2, <2>3 DEF Views
<1>3. CASE ~v.over /\ ~FillCounts(v, orig, r)
    BY <1>3 DEF ViewAfter, Views
<1> QED
    BY <1>1, <1>2, <1>3

\* The first report is handled: the trace loses its head.
LEMMA DeliverKeepsTrace ==
    ASSUME OFTyped, LeavesConsistent, wire # << >>, Effect(Head(wire)), wire' = Tail(wire), exch' = exch,
           NEW id \in Known, NEW t, Trace(id, t), orders'[id] \in OrderRec, Known' = Known
    PROVE  \E u : Trace(id, u)'
<1> DEFINE n == Len(wire)
           u == [k \in 0..(n - 1) |-> t[k + 1]]
<1>0. /\ Head(wire) \in Reports /\ Head(wire) = wire[1] /\ n \in Nat \ {0} /\ Len(wire') = n - 1
      /\ \A k \in 1..(n - 1) : wire'[k] = wire[k + 1]
    BY TailFacts DEF OFTyped
<1>1. orders'[id].orig_qty = orders[id].orig_qty
      /\ View(orders'[id]) = IF wire[1].id = id THEN ViewAfter(View(orders[id]), orders[id].orig_qty, wire[1]) ELSE View(orders[id])
  <2>1. CASE Still(Head(wire))
      BY <1>0, <2>1 DEF Still, Handled, manager
  <2>2. ASSUME NEW o, Restates(Head(wire), o) \/ Fills(Head(wire), o)
        PROVE  /\ orders'[id].orig_qty = orders[id].orig_qty
               /\ View(orders'[id]) = IF wire[1].id = id THEN ViewAfter(View(orders[id]), orders[id].orig_qty, wire[1]) ELSE View(orders[id])
    <3>1. orders' = [orders EXCEPT ![wire[1].id] = o] /\ Handled(orders[wire[1].id], o, wire[1]) /\ wire[1].id \in Known
        BY <1>0, <2>2 DEF Restates, Fills
    <3>2. wire[1].id = id => orders'[id] = o
        BY <3>1 DEF OFTyped
    <3>3. wire[1].id # id => orders'[id] = orders[id]
        BY <3>1 DEF OFTyped
    <3> QED
        BY <3>1, <3>2, <3>3 DEF Handled
  <2> QED
      BY <2>1, <2>2 DEF Effect
<1>2. t \in [0..n -> Views] /\ t[0] = View(orders[id])
      /\ \A k \in 1..n : t[k] = IF wire[k].id = id THEN ViewAfter(t[k - 1], orders[id].orig_qty, wire[k]) ELSE t[k - 1]
    BY DEF Trace
<1>3. u \in [0..(n - 1) -> Views] /\ u[0] = t[1] /\ u[n - 1] = t[n]
    BY <1>0, <1>2
<1>4. t[1] = View(orders'[id])
  <2>1. 1 \in 1..n /\ 1 - 1 = 0
      BY <1>0
  <2> QED
      BY <1>1, <1>2, <2>1
<1>5. ASSUME NEW k \in 1..(n - 1)
      PROVE  u[k] = IF wire'[k].id = id THEN ViewAfter(u[k - 1], orders'[id].orig_qty, wire'[k]) ELSE u[k - 1]
  <2>1. k \in 0..(n - 1) /\ k - 1 \in 0..(n - 1) /\ k + 1 \in 1..n /\ (k + 1) - 1 = k /\ (k - 1) + 1 = k
      BY <1>0
  <2>2. u[k] = t[k + 1] /\ u[k - 1] = t[k]
      BY <2>1
  <2>3. t[k + 1] = IF wire[k + 1].id = id THEN ViewAfter(t[k], orders[id].orig_qty, wire[k + 1]) ELSE t[k]
      BY <1>2, <2>1
  <2> QED
      BY <1>0, <1>1, <2>2, <2>3
<1>u. PICK U, m : U = u /\ m = n
    OBVIOUS
<1> HIDE DEF u
<1>6. Trace(id, U)'
  <2>1. Len(wire') = n - 1 /\ exch' = exch
      BY <1>0
  <2>2. /\ t[n].filled = exch[id].filled /\ t[n].leaves = exch[id].leaves
        /\ Sound(t[n], orders[id].orig_qty)
      BY DEF Trace
  <2> HIDE DEF n
  <2> QED
      BY <1>1, <1>3, <1>4, <1>5, <1>u, <2>1, <2>2 DEF Trace
<1> QED
    BY <1>6

\* A report of another order, or of this one with the exchange's new state.
LEMMA EmitKeepsTrace ==
    ASSUME OFTyped, NEW r \in Reports, wire' = Append(wire, r), orders' = orders,
           NEW id \in Known, NEW t, Trace(id, t), NEW last \in Views,
           last = (IF r.id = id THEN ViewAfter(t[Len(wire)], orders[id].orig_qty, r) ELSE t[Len(wire)]),
           last.filled = exch'[id].filled, last.leaves = exch'[id].leaves,
           Sound(last, orders[id].orig_qty)
    PROVE  \E u : Trace(id, u)'
<1> DEFINE n == Len(wire)
           u == [k \in 0..(n + 1) |-> IF k = n + 1 THEN last ELSE t[k]]
<1>0. /\ Len(wire') = n + 1 /\ n \in Nat
      /\ \A k \in 1..n : wire'[k] = wire[k]
      /\ wire'[n + 1] = r
    BY AppendFacts DEF OFTyped
<1>2. t \in [0..n -> Views] /\ t[0] = View(orders[id])
      /\ \A k \in 1..n : t[k] = IF wire[k].id = id THEN ViewAfter(t[k - 1], orders[id].orig_qty, wire[k]) ELSE t[k - 1]
    BY DEF Trace
<1>3. u \in [0..(n + 1) -> Views] /\ u[0] = t[0] /\ u[n + 1] = last
    BY <1>0, <1>2
<1>5. ASSUME NEW k \in 1..(n + 1)
      PROVE  u[k] = IF wire'[k].id = id THEN ViewAfter(u[k - 1], orders[id].orig_qty, wire'[k]) ELSE u[k - 1]
  <2>1. CASE k = n + 1
    <3>1. u[k] = last /\ u[k - 1] = t[n] /\ wire'[k] = r
        BY <1>0, <2>1
    <3> QED
        BY <3>1
  <2>2. CASE k \in 1..n
    <3>1. u[k] = t[k] /\ u[k - 1] = t[k - 1] /\ wire'[k] = wire[k]
        BY <1>0, <2>2
    <3> QED
        BY <1>2, <2>2, <3>1
  <2> QED
      BY <1>0, <2>1, <2>2
<1>u. PICK U, m : U = u /\ m = n
    OBVIOUS
<1> HIDE DEF u
<1>6. Trace(id, U)'
  <2>1. Len(wire') = n + 1
      BY <1>0
  <2> HIDE DEF n
  <2> QED
      BY <1>2, <1>3, <1>5, <1>u, <2>1 DEF Trace
<1> QED
    BY <1>6

\* An order the wire says nothing new about.
LEMMA TraceFrame ==
    ASSUME NEW id, NEW t, Trace(id, t), wire' = wire, View(orders'[id]) = View(orders[id]),
           orders'[id].orig_qty = orders[id].orig_qty,
           exch'[id].filled = exch[id].filled, exch'[id].leaves = exch[id].leaves
    PROVE  Trace(id, t)'
BY DEF Trace

\* What the exchange's new state must be to agree with its report.
Follows(r, e) ==
    \A v \in Views : \A orig \in Int :
        v.filled = exch[r.id].filled /\ v.leaves = exch[r.id].leaves /\ Sound(v, orig) =>
            LET after == ViewAfter(v, orig, r)
            IN  after.filled = e.filled /\ after.leaves = e.leaves /\ Sound(after, orig)
Answers(r, e) ==
    e.cancels = 0 => \/ r.type \in {"CancelReject", "Canceled"}
                     \/ exch[r.id].cancels = 0 /\ r.type # "PendingCancel"

\* A report joins the wire and the exchange moves with it.
LEMMA EmitKeeps ==
    ASSUME OFInv, NEW r \in Reports, NEW e \in ExchRec, Emit(r, e), exch[r.id].phase # "unseen",
           e.phase # "unseen", Follows(r, e), Answers(r, e)
    PROVE  OFInv'
<1>0. /\ wire' = Append(wire, r) /\ Len(wire) < MaxInFlight /\ exch' = [exch EXCEPT ![r.id] = e]
      /\ UNCHANGED <<orders, positions, limits, past, resends, overlapped, base, cash>>
    BY DEF Emit, manager, bookkeeping
<1>t. OFTyped
    BY DEF OFInv
<1>n. PICK n \in Nat : n = Len(wire)
    BY <1>t, AppendFacts DEF OFTyped
<1>1. /\ wire' \in Seq(Reports) /\ Len(wire') = n + 1
      /\ \A k \in 1..n : wire'[k] = wire[k]
      /\ wire'[n + 1] = r
    BY <1>0, <1>n, <1>t, AppendFacts DEF OFTyped
<1>2. /\ r.id \in OrderIds /\ exch' \in [OrderIds -> ExchRec] /\ exch'[r.id] = e
      /\ \A i \in OrderIds : i # r.id => exch'[i] = exch[i]
    BY <1>0, <1>t, ReportKinds DEF OFTyped
<1>3. Known' = Known /\ Known \subseteq OrderIds
    BY <1>0, <1>t DEF Known, OFTyped
<1>4. Ledger'
  <2>1. Ledger /\ UNCHANGED <<orders, positions, base, cash>> /\ limits' \in LimitSets
        /\ past' \subseteq Reports /\ resends' \in 0..MaxResends /\ overlapped' \subseteq Symbols
      BY <1>0, <1>t DEF OFInv, Ledger, OFTyped
  <2>2. Len(wire') <= MaxInFlight
      BY <1>0, <1>1, <1>n, BoundsAssumption
  <2> QED
      BY <1>1, <1>2, <2>1, <2>2, LedgerFrame
<1>5. OrdersSeen'
  <2>1. \A i \in OrderIds : exch[i].phase # "unseen" => exch'[i].phase # "unseen"
      BY <1>2
  <2>2. \A k \in 1..n : wire[k].id \in OrderIds
      BY <1>n, <1>t, ReportKinds DEF OFTyped
  <2>3. \A k \in 1..(n + 1) : k \in 1..n \/ k = n + 1
      BY <1>n
  <2>4. \A i \in OrderIds : exch'[i].phase = "unseen" => exch'[i].cancels = 0
      BY <1>2 DEF OrdersSeen, OFInv
  <2> QED
      BY <1>1, <1>2, <1>3, <1>n, <2>1, <2>2, <2>3, <2>4 DEF OrdersSeen, OFInv
<1>6. WillAgree'
  <2> SUFFICES ASSUME resends' = 0 PROVE past' = {} /\ \A id \in Known' : \E t : Trace(id, t)'
      BY DEF WillAgree
  <2>1. past' = {} /\ \A id \in Known : \E t : Trace(id, t)
      BY <1>0 DEF OFInv, WillAgree
  <2>2. ASSUME NEW id \in Known PROVE \E t : Trace(id, t)'
    <3>1. PICK t : Trace(id, t)
        BY <2>1
    <3>2. PICK v \in Views : v = t[n]
        BY <1>n, <3>1 DEF Trace
    <3>3. PICK orig \in Int : orig = orders[id].orig_qty
        BY <1>t DEF OFTyped, OrderRec
    <3>4. v.filled = exch[id].filled /\ v.leaves = exch[id].leaves /\ Sound(v, orig)
        BY <1>n, <3>1, <3>2, <3>3 DEF Trace
    <3>5. PICK last : last = IF r.id = id THEN ViewAfter(v, orig, r) ELSE v
        OBVIOUS
    <3>6. last \in Views /\ last.filled = exch'[id].filled /\ last.leaves = exch'[id].leaves /\ Sound(last, orig)
      <4>1. CASE r.id = id
        <5>1. last = ViewAfter(v, orig, r)
            BY <3>5, <4>1
        <5>2. last.filled = e.filled /\ last.leaves = e.leaves /\ Sound(last, orig)
            BY <3>4, <4>1, <5>1 DEF Follows
        <5>3. last \in Views
            BY <5>1, ViewType
        <5> QED
            BY <1>2, <4>1, <5>2, <5>3
      <4>2. CASE r.id # id
          BY <1>2, <1>3, <3>4, <3>5, <4>2
      <4> QED
          BY <4>1, <4>2
    <3>7. last = (IF r.id = id THEN ViewAfter(t[Len(wire)], orders[id].orig_qty, r) ELSE t[Len(wire)])
        BY <1>n, <3>2, <3>3, <3>5
    <3>8. wire' = Append(wire, r) /\ orders' = orders /\ Sound(last, orders[id].orig_qty)
        BY <1>0, <3>3, <3>6
    <3> QED
        BY <1>t, <3>1, <3>6, <3>7, <3>8, EmitKeepsTrace
  <2> QED
      BY <1>3, <2>1, <2>2
<1>7. CancelsAnswered'
  <2> SUFFICES ASSUME resends' = 0, NEW id \in Known', exch'[id].cancels = 0 PROVE \E p \in 0..Len(wire') : AnswerAt(id, p)'
      BY DEF CancelsAnswered
  <2>1. CASE r.id = id /\ r.type \in {"CancelReject", "Canceled"}
    <3>1. AnswerAt(id, n + 1)'
        BY <1>1, <1>n, <2>1 DEF AnswerAt
    <3> QED
        BY <1>1, <1>n, <3>1
  <2>2. CASE ~(r.id = id /\ r.type \in {"CancelReject", "Canceled"})
    <3>1. exch[id].cancels = 0 /\ (r.id = id => r.type # "PendingCancel")
        BY <1>2, <1>3, <2>2 DEF Answers
    <3>2. PICK p \in 0..n : AnswerAt(id, p)
        BY <1>0, <1>3, <1>n, <3>1 DEF OFInv, CancelsAnswered
    <3>3. AnswerAt(id, p)'
      <4>1. \A k \in (p + 1)..(n + 1) : wire'[k].id = id => wire'[k].type # "PendingCancel"
        <5> TAKE k \in (p + 1)..(n + 1)
        <5>1. CASE k = n + 1
            BY <1>1, <3>1, <5>1
        <5>2. CASE k # n + 1
          <6>1. k \in (p + 1)..n /\ k \in 1..n
              BY <5>2
          <6> QED
              BY <1>1, <1>n, <3>2, <6>1 DEF AnswerAt
        <5> QED
            BY <5>1, <5>2
      <4>2. p # 0 => wire'[p] = wire[p]
          BY <1>1
      <4> QED
          BY <1>0, <1>1, <1>n, <3>2, <4>1, <4>2 DEF AnswerAt
    <3> QED
        BY <1>1, <3>2, <3>3
  <2> QED
      BY <2>1, <2>2
<1>8. ExposureBounded'
    BY <1>0, <1>3 DEF OFInv, ExposureBounded, Open, is_terminal
<1> QED
    BY <1>4, <1>5, <1>6, <1>7, <1>8 DEF OFInv, Ledger

-----------------------------------------------------------------------------
(* The exchange's steps.                                                   *)

\* Reports without quantities leave the view alone.
LEMMA ViewSame ==
    ASSUME NEW v \in Views, NEW orig \in Int, NEW r \in Reports,
           r.type \in PlainTypes \ {"Canceled", "Rejected"} \/ r.qty = -1
    PROVE  ViewAfter(v, orig, r) = v
<1>1. ~FillCounts(v, orig, r) /\ r.type \notin {"Canceled", "Rejected"}
    BY ReportKinds DEF FillCounts, FillTypes, PlainTypes, Reports
<1> QED
    BY <1>1 DEF ViewAfter

\* A report that says nothing about quantities.
LEMMA StatusFollows ==
    ASSUME NEW r \in Reports, NEW e, e.filled = exch[r.id].filled, e.leaves = exch[r.id].leaves,
           r.type \in PlainTypes \ {"Canceled", "Rejected"} \/ r.qty = -1
    PROVE  Follows(r, e)
BY ViewSame DEF Follows

\* Canceled or Rejected: nothing is left.
LEMMA CloseFollows ==
    ASSUME NEW r \in Reports, NEW e, e.filled = exch[r.id].filled, e.leaves = 0, r.type \in {"Canceled", "Rejected"}
    PROVE  Follows(r, e)
<1> SUFFICES ASSUME NEW v \in Views, NEW orig \in Int, v.filled = exch[r.id].filled, v.leaves = exch[r.id].leaves,
                    Sound(v, orig)
             PROVE  LET after == ViewAfter(v, orig, r)
                    IN  after.filled = e.filled /\ after.leaves = e.leaves /\ Sound(after, orig)
    BY DEF Follows
<1>1. ~FillCounts(v, orig, r)
    BY DEF FillCounts, FillTypes
<1>2. CASE v.over
    BY <1>2 DEF ViewAfter, Sound
<1>3. CASE ~v.over
  <2>1. ViewAfter(v, orig, r) = [filled |-> v.filled, leaves |-> 0, over |-> TRUE]
      BY <1>1, <1>3 DEF ViewAfter
  <2> QED
      BY <2>1 DEF Sound
<1> QED
    BY <1>2, <1>3

\* A fill of what is left, or of part of it.
LEMMA FillFollows ==
    ASSUME NEW r \in Reports, NEW e, NEW left \in Nat, NEW done \in Nat, left = exch[r.id].leaves, done = exch[r.id].filled,
           r.type \in FillTypes, r.qty \in 1..left, r.qty = left <=> r.type # "PartialFill",
           e.filled = done + r.qty, e.leaves = left - r.qty
    PROVE  Follows(r, e)
<1> SUFFICES ASSUME NEW v \in Views, NEW orig \in Int, v.filled = done, v.leaves = left, Sound(v, orig)
             PROVE  LET after == ViewAfter(v, orig, r)
                    IN  after.filled = e.filled /\ after.leaves = e.leaves /\ Sound(after, orig)
    BY DEF Follows
<1>1. ~v.over /\ done + left = orig
    BY DEF Sound
<1>2. FillCounts(v, orig, r)
    BY <1>1 DEF FillCounts
<1>3. PICK q \in Nat : q = r.qty
    OBVIOUS
<1>4. PICK after : after = ViewAfter(v, orig, r)
    OBVIOUS
<1>5. after = [filled |-> done + q, over |-> r.type = "Fill",
               leaves |-> IF r.type = "Fill" THEN 0 ELSE orig - (done + q)]
    BY <1>1, <1>2, <1>3, <1>4 DEF ViewAfter
<1>6. after.filled = done + q /\ (after.over <=> r.type = "Fill")
      /\ after.leaves = IF r.type = "Fill" THEN 0 ELSE orig - (done + q)
    BY <1>5
<1>7. r.type = "Fill" => q = left
    BY <1>3
<1>8. after.leaves = left - q
    BY <1>1, <1>6, <1>7
<1>9. Sound(after, orig)
    BY <1>1, <1>6, <1>8 DEF Sound
<1> QED
    BY <1>3, <1>4, <1>6, <1>8, <1>9

\* Every step of the exchange sends a report that says what it did.
LEMMA ExchangeKeeps ==
    ASSUME OFInv, NEW id \in OrderIds,
           ExchangeAccepts(id) \/ ExchangeFills(id) \/ ExchangeStatus(id) \/ ExchangeAnswersCancel(id)
    PROVE  OFInv'
<1>1. PICK x \in ExchRec : x = exch[id]
    BY DEF OFInv, OFTyped
<1>2. ASSUME NEW type \in PlainTypes
      PROVE  Report(id, type, 0, 0) \in Reports /\ Report(id, type, 0, 0).id = id /\ Report(id, type, 0, 0).type = type
    BY DEF Report, Reports
<1>p. {"New", "Rejected", "Canceled", "PendingCancel", "Suspended", "CancelReject"} = PlainTypes
    BY DEF PlainTypes
<1>3. CASE ExchangeAccepts(id)
  <2>0. x.phase = "received"
      BY <1>1, <1>3 DEF ExchangeAccepts
  <2>1. ASSUME Emit(Report(id, "New", 0, 0), [exch[id] EXCEPT !.phase = "open"]) PROVE OFInv'
    <3>1. PICK r \in Reports : r = Report(id, "New", 0, 0) /\ r.id = id /\ r.type = "New"
        BY <1>2, <1>p
    <3>e. PICK e : e = [x EXCEPT !.phase = "open"]
        OBVIOUS
    <3>2. e \in ExchRec /\ e.phase # "unseen" /\ e.filled = x.filled
            /\ e.leaves = x.leaves /\ e.cancels = x.cancels
        BY <3>e DEF ExchRec
    <3>3. Follows(r, e)
        BY <1>1, <1>p, <3>1, <3>2, StatusFollows
    <3>4. Answers(r, e)
        BY <1>1, <3>1, <3>2 DEF Answers
    <3>5. Emit(r, e) /\ exch[r.id].phase # "unseen"
        BY <1>1, <2>0, <2>1, <3>1, <3>e
    <3> QED
        BY <3>2, <3>3, <3>4, <3>5, EmitKeeps
  <2>2. ASSUME Emit(Report(id, "Rejected", 0, 0), [exch[id] EXCEPT !.phase = "done", !.leaves = 0]) PROVE OFInv'
    <3>1. PICK r \in Reports : r = Report(id, "Rejected", 0, 0) /\ r.id = id /\ r.type = "Rejected"
        BY <1>2, <1>p
    <3>e. PICK e : e = [x EXCEPT !.phase = "done", !.leaves = 0]
        OBVIOUS
    <3>2. e \in ExchRec /\ e.phase # "unseen" /\ e.filled = x.filled
            /\ e.leaves = 0 /\ e.cancels = x.cancels
        BY <3>e DEF ExchRec
    <3>3. Follows(r, e)
        BY <1>1, <3>1, <3>2, CloseFollows
    <3>4. Answers(r, e)
        BY <1>1, <3>1, <3>2 DEF Answers
    <3>5. Emit(r, e) /\ exch[r.id].phase # "unseen"
        BY <1>1, <2>0, <2>2, <3>1, <3>e
    <3> QED
        BY <3>2, <3>3, <3>4, <3>5, EmitKeeps
  <2> QED
      BY <1>3, <2>1, <2>2 DEF ExchangeAccepts
<1>4. CASE ExchangeFills(id)
  <2>1. PICK qty \in 1..x.leaves, px \in FillPrices, type \in FillTypes :
            /\ qty = x.leaves <=> type # "PartialFill"
            /\ Emit(Report(id, type, qty, px), [exch[id] EXCEPT !.leaves = @ - qty, !.filled = @ + qty])
      BY <1>1, <1>4 DEF ExchangeFills, FillTypes
  <2>2. PICK left \in Nat, done \in Nat : left = x.leaves /\ done = x.filled /\ x.phase = "open"
      BY <1>1, <1>4 DEF ExchRec, ExchangeFills, Live
  <2>3. PICK r \in Reports : r = Report(id, type, qty, px) /\ r.id = id /\ r.type = type /\ r.qty = qty
    <3>1. qty \in Nat \ {0} /\ px \in Nat \ {0}
        BY <2>2, QtyAssumption
    <3>2. PICK r : r = Report(id, type, qty, px)
        OBVIOUS
    <3>3. r \in Reports /\ r.id = id /\ r.type = type /\ r.qty = qty
        BY <3>1, <3>2 DEF Report, Reports
    <3> QED
        BY <3>2, <3>3
  <2>a. PICK m \in Nat, k \in Nat : m = left - qty /\ k = done + qty
      BY <2>2
  <2>e. PICK e : e = [x EXCEPT !.leaves = m, !.filled = k]
      OBVIOUS
  <2>4. e \in ExchRec /\ e.phase = "open"
            /\ e.filled = done + qty /\ e.leaves = left - qty /\ e.cancels = x.cancels
      BY <2>e, <2>2, <2>a DEF ExchRec
  <2>5. e = [exch[id] EXCEPT !.leaves = @ - qty, !.filled = @ + qty]
      BY <1>1, <2>2, <2>a, <2>e DEF ExchRec
  <2>6. Follows(r, e)
    <3>1. left = exch[r.id].leaves /\ done = exch[r.id].filled /\ r.type \in FillTypes /\ r.qty \in 1..left
          /\ (r.qty = left <=> r.type # "PartialFill") /\ e.filled = done + r.qty /\ e.leaves = left - r.qty
        BY <1>1, <2>1, <2>2, <2>3, <2>4
    <3> QED
        BY <3>1, FillFollows
  <2>7. Answers(r, e)
      BY <1>1, <2>3, <2>4 DEF Answers, FillTypes
  <2>8. Emit(r, e) /\ exch[r.id].phase # "unseen" /\ e.phase # "unseen"
      BY <1>1, <2>1, <2>2, <2>3, <2>4, <2>5
  <2> QED
      BY <2>4, <2>6, <2>7, <2>8, EmitKeeps
<1>5. CASE ExchangeStatus(id)
  <2>1. x.phase = "open" /\ x.cancels > 0 /\ x.cancels \in Nat
      BY <1>1, <1>5 DEF ExchangeStatus, Live, ExchRec
  <2>2. PICK r \in Reports : /\ r.id = id /\ Emit(r, x)
                             /\ r.type \in {"PendingCancel", "Suspended"} \/ r.qty = -1
    <3>1. Report(id, "Trade", -1, 0) \in Reports /\ Report(id, "Trade", -1, 0).id = id /\ Report(id, "Trade", -1, 0).qty = -1
        BY DEF Report, Reports
    <3> QED
        BY <1>1, <1>2, <1>5, <1>p, <3>1 DEF ExchangeStatus
  <2>3. Follows(r, x)
      BY <1>1, <1>p, <2>2, StatusFollows
  <2>4. Answers(r, x)
      BY <2>1 DEF Answers
  <2>5. exch[r.id].phase # "unseen" /\ x.phase # "unseen"
      BY <1>1, <2>1, <2>2
  <2> QED
      BY <2>2, <2>3, <2>4, <2>5, EmitKeeps
<1>6. CASE ExchangeAnswersCancel(id)
  <2>1. x.cancels > 0 /\ x.phase # "received" /\ x.cancels \in Nat /\ x.phase # "unseen"
    <3>1. x.cancels > 0 /\ x.phase # "received" /\ x.cancels \in Nat
        BY <1>1, <1>6 DEF ExchangeAnswersCancel, ExchRec
    <3>2. x.phase = "unseen" => x.cancels = 0
        BY <1>1 DEF OFInv, OrdersSeen
    <3> QED
        BY <3>1, <3>2
  <2>e. PICK a : a = [exch[id] EXCEPT !.cancels = @ - 1]
      OBVIOUS
  <2>2. a \in ExchRec /\ a.phase # "unseen" /\ a.filled = x.filled
            /\ a.leaves = x.leaves
      BY <2>e, <1>1, <2>1 DEF ExchRec
  <2>3. ASSUME Emit(Report(id, "CancelReject", 0, 0), a) PROVE OFInv'
    <3>1. PICK r \in Reports : r = Report(id, "CancelReject", 0, 0) /\ r.id = id /\ r.type = "CancelReject"
        BY <1>2, <1>p
    <3>3. Follows(r, a)
        BY <1>1, <1>p, <2>2, <3>1, StatusFollows
    <3>4. Answers(r, a)
        BY <3>1 DEF Answers
    <3>5. Emit(r, a) /\ exch[r.id].phase # "unseen"
        BY <1>1, <2>1, <2>3, <3>1
    <3> QED
        BY <2>2, <3>3, <3>4, <3>5, EmitKeeps
  <2>4. ASSUME Emit(Report(id, "Canceled", 0, 0), [a EXCEPT !.leaves = 0]) PROVE OFInv'
    <3>1. PICK r \in Reports : r = Report(id, "Canceled", 0, 0) /\ r.id = id /\ r.type = "Canceled"
        BY <1>2, <1>p
    <3>e. PICK e : e = [a EXCEPT !.leaves = 0]
        OBVIOUS
    <3>2. e \in ExchRec /\ e.phase # "unseen" /\ e.filled = x.filled /\ e.leaves = 0
        BY <3>e, <2>2 DEF ExchRec
    <3>3. Follows(r, e)
        BY <1>1, <3>1, <3>2, CloseFollows
    <3>4. Answers(r, e)
        BY <3>1 DEF Answers
    <3>5. Emit(r, e) /\ exch[r.id].phase # "unseen"
        BY <1>1, <2>1, <2>4, <3>1, <3>e
    <3> QED
        BY <3>2, <3>3, <3>4, <3>5, EmitKeeps
  <2> QED
      BY <1>6, <2>e, <2>3, <2>4 DEF ExchangeAnswersCancel
<1> QED
    BY <1>3, <1>4, <1>5, <1>6

-----------------------------------------------------------------------------
(* The position limit.                                                     *)

\* What lies between two permitted positions is permitted.
LEMMA Between ==
    ASSUME NEW a \in Int, NEW b \in Int, NEW c \in Int, Permitted(a), Permitted(b),
           (a <= c /\ c <= b) \/ (b <= c /\ c <= a)
    PROVE  Permitted(c)
<1>1. PICK k \in LimitSets : Abs(a) <= k.max_position_qty
    BY DEF Permitted
<1>2. PICK l \in LimitSets : Abs(b) <= l.max_position_qty
    BY DEF Permitted
<1>3. PICK x \in Nat, y \in Nat : x = k.max_position_qty /\ y = l.max_position_qty
    BY LimitsAssumption
<1>4. Abs(c) <= x \/ Abs(c) <= y
    BY <1>1, <1>2, <1>3 DEF Abs
<1> QED
    BY <1>3, <1>4 DEF Permitted

\* check_order lets through what some limit permits.
LEMMA CheckedPermitted ==
    ASSUME NEW symbol \in Symbols, NEW side \in Sides, NEW qty \in Nat \ {0}, NEW price \in Nat \ {0},
           limits \in LimitSets, limits.max_position_qty > 0, positions[symbol].qty \in Int,
           CheckOrder(limits, positions, symbol, side, qty, price) = "Ok"
    PROVE  Permitted(positions[symbol].qty + Signed(side, qty))
<1>1. ~Breaks(limits.max_position_qty, Int2Frac(Abs(positions[symbol].qty + Signed(side, qty))))
    BY DEF CheckOrder
<1>2. PICK p \in Int, m \in Nat : p = Abs(positions[symbol].qty + Signed(side, qty)) /\ m = limits.max_position_qty
    BY LimitsAssumption DEF Abs, Signed
<1>3. p <= m
    BY <1>1, <1>2 DEF Breaks, Exceeds, Int2Frac
<1> QED
    BY <1>2, <1>3 DEF Permitted

\* A fill moves the position towards what its order may still reach.
LEMMA EffectKeepsBound ==
    ASSUME Ledger, ExposureBounded, NEW r \in Reports, Effect(r), UNCHANGED overlapped
    PROVE  ExposureBounded'
<1> SUFFICES ASSUME \A l \in LimitSets : l.max_position_qty > 0, NEW s \in Symbols \ overlapped
             PROVE  /\ Permitted(positions'[s].qty)
                    /\ \A i \in Known' : Open(i, s)' =>
                        /\ Permitted(positions'[s].qty + Signed(orders'[i].side, orders'[i].leaves_qty))
                        /\ \A j \in Known' : Open(j, s)' => j = i
    BY DEF ExposureBounded
<1>t. /\ positions \in [Symbols -> PositionRec] /\ orders \in [Known -> OrderRec] /\ LeavesConsistent
      /\ cash \in [Symbols -> Int] /\ PnlAccountsForCash
    BY DEF Ledger, OFTyped
<1>0. /\ Permitted(positions[s].qty)
      /\ \A i \in Known : Open(i, s) =>
            /\ Permitted(positions[s].qty + Signed(orders[i].side, orders[i].leaves_qty))
            /\ \A j \in Known : Open(j, s) => j = i
    BY DEF ExposureBounded
<1>1. CASE Still(r)
    BY <1>0, <1>1 DEF Still, manager, Open, is_terminal, Known
<1>2. ASSUME NEW o, r.id \in Known, orders' = [orders EXCEPT ![r.id] = o], Handled(orders[r.id], o, r)
      PROVE  /\ Known' = Known /\ orders'[r.id] = o /\ \A i \in Known : i # r.id => orders'[i] = orders[i]
             /\ \A i \in Known : Open(i, s)' => Open(i, s)
             /\ \A i \in Known : i # r.id => (Open(i, s)' <=> Open(i, s))
  <2>1. Known' = Known /\ orders'[r.id] = o /\ \A i \in Known : i # r.id => orders'[i] = orders[i]
      BY <1>2, <1>t DEF Known
  <2>2. o.symbol = orders[r.id].symbol /\ (orders[r.id].state \in Terminal => o.state \in Terminal)
      BY <1>2 DEF Handled
  <2> QED
      BY <2>1, <2>2 DEF Open, is_terminal
<1>3. ASSUME NEW o, Restates(r, o)
      PROVE  /\ Permitted(positions'[s].qty)
             /\ \A i \in Known' : Open(i, s)' =>
                        /\ Permitted(positions'[s].qty + Signed(orders'[i].side, orders'[i].leaves_qty))
                        /\ \A j \in Known' : Open(j, s)' => j = i
  <2>1. /\ r.id \in Known /\ orders' = [orders EXCEPT ![r.id] = o] /\ Handled(orders[r.id], o, r) /\ positions' = positions
        /\ o.filled_qty = orders[r.id].filled_qty
      BY <1>3 DEF Restates
  <2>2. /\ Known' = Known /\ orders'[r.id] = o /\ \A i \in Known : i # r.id => orders'[i] = orders[i]
        /\ \A i \in Known : Open(i, s)' => Open(i, s)
      BY <1>2, <2>1
  <2>3. Open(r.id, s)' => o.side = orders[r.id].side /\ o.leaves_qty = orders[r.id].leaves_qty
    <3>1. o.side = orders[r.id].side /\ o.orig_qty = orders[r.id].orig_qty
          /\ o.leaves_qty = IF o.state \in Terminal THEN 0 ELSE o.orig_qty - o.filled_qty
        BY <2>1 DEF Handled
    <3>2. orders[r.id].leaves_qty = IF orders[r.id].state \in Terminal THEN 0
                                    ELSE orders[r.id].orig_qty - orders[r.id].filled_qty
        BY <1>t, <2>1 DEF LeavesConsistent, is_terminal
    <3>3. Open(r.id, s)' => o.state \notin Terminal /\ orders[r.id].state \notin Terminal
        BY <2>1, <2>2 DEF Open, is_terminal
    <3> QED
        BY <2>1, <3>1, <3>2, <3>3
  <2> QED
      BY <1>0, <2>1, <2>2, <2>3
<1>4. ASSUME NEW o, Fills(r, o)
      PROVE  /\ Permitted(positions'[s].qty)
             /\ \A i \in Known' : Open(i, s)' =>
                        /\ Permitted(positions'[s].qty + Signed(orders'[i].side, orders'[i].leaves_qty))
                        /\ \A j \in Known' : Open(j, s)' => j = i
  <2>1. /\ r.id \in Known /\ orders' = [orders EXCEPT ![r.id] = o] /\ Handled(orders[r.id], o, r) /\ ~is_terminal(r.id)
        /\ o.filled_qty = orders[r.id].filled_qty + r.qty /\ r.qty \in Nat \ {0} /\ r.px \in Nat \ {0}
        /\ positions' = [positions EXCEPT ![o.symbol] = OnFill(@, o.side, r.qty, r.px)]
      BY <1>4 DEF Fills
  <2>2. /\ Known' = Known /\ orders'[r.id] = o /\ \A i \in Known : i # r.id => orders'[i] = orders[i]
        /\ \A i \in Known : Open(i, s)' => Open(i, s)
      BY <1>2, <2>1
  <2>3. o \in OrderRec /\ o.symbol = orders[r.id].symbol /\ o.side = orders[r.id].side /\ o.orig_qty = orders[r.id].orig_qty
        /\ o.filled_qty <= o.orig_qty /\ (o.state \notin Terminal => o.leaves_qty = o.orig_qty - o.filled_qty)
      BY <2>1 DEF Handled
  <2>4. CASE o.symbol # s
    <3>1. positions'[s] = positions[s]
        BY <1>t, <2>1, <2>4
    <3>2. ~Open(r.id, s)'
        BY <2>2, <2>4 DEF Open
    <3> QED
        BY <1>0, <2>2, <3>1, <3>2
  <2>5. CASE o.symbol = s
    <3>1. Open(r.id, s)
        BY <2>1, <2>3, <2>5 DEF Open
    <3>2. PICK side \in Sides, q \in Nat \ {0}, px \in Nat \ {0}, Q \in Int, f \in Nat, g \in Nat, l \in Nat, pos \in PositionRec, C \in Int :
            /\ side = o.side /\ q = r.qty /\ px = r.px /\ pos = positions[s] /\ Q = pos.qty
            /\ f = orders[r.id].filled_qty /\ g = o.orig_qty /\ l = orders[r.id].leaves_qty /\ C = cash[s]
      <4>1. PICK pos \in PositionRec, C \in Int : pos = positions[s] /\ C = cash[s]
          BY <1>t
      <4>2. pos.qty \in Int
          BY DEF PositionRec
      <4>3. /\ o.side \in Sides /\ orders[r.id].filled_qty \in Nat /\ o.orig_qty \in Nat
            /\ orders[r.id].leaves_qty \in Nat
          BY <1>t, <2>1, <2>3, QtyAssumption DEF OrderRec
      <4> QED
          BY <2>1, <4>1, <4>2, <4>3
    <3>3. f + q <= g /\ l = g - f
        BY <1>t, <2>1, <2>3, <3>2 DEF LeavesConsistent
    <3>4. PICK d \in Int, m \in Int : d = Signed(side, q) /\ m = Signed(side, l)
        BY DEF Signed
    <3>5. positions'[s].qty = Q + d
      <4>1. Accounted(pos, C)
          BY <1>t, <3>2 DEF PnlAccountsForCash, Accounted
      <4>2. OnFill(pos, side, q, px).qty = pos.qty + Signed(side, q)
          BY <4>1, OnFillTrue
      <4>3. positions'[s] = OnFill(pos, side, q, px)
          BY <1>t, <2>1, <2>5, <3>2
      <4> QED
          BY <3>2, <3>4, <4>2, <4>3
    <3>6. Permitted(Q) /\ Permitted(Q + m)
        BY <1>0, <2>1, <2>3, <3>1, <3>2, <3>4
    <3>7. PICK w \in Int, z \in Int : w = Q + d /\ z = Q + m
        OBVIOUS
    <3>8. (Q <= w /\ w <= z) \/ (z <= w /\ w <= Q)
        BY <3>3, <3>4, <3>7 DEF Signed
    <3>9. Permitted(w)
        BY <3>6, <3>7, <3>8, Between
    <3>10. Open(r.id, s)' => Permitted(positions'[s].qty + Signed(orders'[r.id].side, orders'[r.id].leaves_qty))
      <4> SUFFICES ASSUME Open(r.id, s)' PROVE Permitted(positions'[s].qty + Signed(orders'[r.id].side, orders'[r.id].leaves_qty))
          OBVIOUS
      <4>1. o.leaves_qty = l - q
          BY <2>1, <2>2, <2>3, <3>2, <3>3 DEF Open, is_terminal
      <4>2. d + Signed(side, l - q) = m
          BY <3>4 DEF Signed
      <4>3. PICK y \in Int : y = Signed(side, l - q)
        <5>1. Signed(side, l - q) \in Int
            BY DEF Signed
        <5> QED
            BY <5>1
      <4>4. positions'[s].qty + Signed(orders'[r.id].side, orders'[r.id].leaves_qty) = (Q + d) + y
          BY <2>2, <3>2, <3>5, <4>1, <4>3
      <4>5. (Q + d) + y = Q + m
          BY <4>2, <4>3
      <4> QED
          BY <3>6, <4>4, <4>5
    <3>11. \A i \in Known : Open(i, s)' => i = r.id
        BY <1>0, <2>1, <2>2, <3>1
    <3>12. Permitted(positions'[s].qty)
        BY <3>5, <3>7, <3>9
    <3> QED
        BY <2>2, <3>10, <3>11, <3>12
  <2> QED
      BY <2>4, <2>5
<1> QED
    BY <1>1, <1>3, <1>4 DEF Effect

-----------------------------------------------------------------------------
(* Deliveries.                                                             *)

\* Handling a report keeps everything, once the wire and the reports to come
\* again are accounted for.
LEMMA EffectKnown ==
    ASSUME OFTyped, NEW r, Effect(r)
    PROVE  Known' = Known /\ \A i \in Known : orders'[i] \in OrderRec /\ (i # r.id => orders'[i] = orders[i])
<1>1. CASE Still(r)
    BY <1>1 DEF Still, manager, Known, OFTyped
<1>2. ASSUME NEW o, Restates(r, o) \/ Fills(r, o)
      PROVE  Known' = Known /\ \A i \in Known : orders'[i] \in OrderRec /\ (i # r.id => orders'[i] = orders[i])
  <2>1. r.id \in Known /\ o \in OrderRec /\ orders' = [orders EXCEPT ![r.id] = o]
      BY <1>2 DEF Restates, Fills, Handled
  <2> QED
      BY <2>1 DEF OFTyped, Known
<1> QED
    BY <1>1, <1>2 DEF Effect

\* The order a report names is handled.
LEMMA EffectState ==
    ASSUME OFTyped, NEW r, Effect(r), r.id \in Known
    PROVE  Handled(orders[r.id], orders'[r.id], r)
<1>1. CASE Still(r)
    BY <1>1 DEF Still, manager
<1>2. ASSUME NEW o, Restates(r, o) \/ Fills(r, o) PROVE Handled(orders[r.id], orders'[r.id], r)
  <2>1. Handled(orders[r.id], o, r) /\ orders' = [orders EXCEPT ![r.id] = o]
      BY <1>2 DEF Restates, Fills
  <2>2. orders'[r.id] = o
      BY <2>1 DEF OFTyped
  <2> QED
      BY <2>1, <2>2
<1> QED
    BY <1>1, <1>2 DEF Effect

\* A report delivered in order.
LEMMA DeliverKeeps ==
    ASSUME OFInv, Deliver
    PROVE  OFInv'
<1>0. /\ wire # << >> /\ wire' = Tail(wire) /\ Handle(Head(wire))
      /\ UNCHANGED <<limits, exch, overlapped, base>>
      /\ \/ UNCHANGED <<past, resends>>
         \/ resends < MaxResends /\ past' = past \cup {Head(wire)} /\ resends' = resends + 1
    BY DEF Deliver
<1>t. OFTyped /\ LeavesConsistent /\ Ledger
    BY DEF OFInv, Ledger
<1>n. PICK n \in Nat \ {0}, r \in Reports : n = Len(wire) /\ r = Head(wire) /\ r = wire[1] /\ Len(wire') = n - 1
        /\ wire' \in Seq(Reports) /\ \A k \in 1..(n - 1) : wire'[k] = wire[k + 1]
    BY <1>0, <1>t, TailFacts DEF OFTyped
<1>1. Effect(r)
    BY <1>0, <1>n, <1>t, HandleEffect
<1>2. Known' = Known /\ \A i \in Known : orders'[i] \in OrderRec /\ (i # r.id => orders'[i] = orders[i])
    BY <1>1, <1>t, EffectKnown
<1>3. past' \subseteq Reports /\ resends' \in 0..MaxResends
    BY <1>0, <1>n, <1>t, BoundsAssumption DEF OFTyped
<1>4. Ledger'
  <2>1. Len(wire') <= MaxInFlight
      BY <1>n, <1>t, BoundsAssumption DEF OFTyped
  <2> QED
      BY <1>0, <1>1, <1>3, <1>n, <1>t, <2>1, EffectKeepsLedger
<1>5. OrdersSeen'
  <2>1. \A k \in 1..(n - 1) : k + 1 \in 1..n
      BY <1>n
  <2>2. \A k \in 1..(n - 1) : exch[wire'[k].id].phase # "unseen"
      BY <1>n, <2>1 DEF OFInv, OrdersSeen
  <2> QED
      BY <1>0, <1>2, <1>n, <2>2 DEF OFInv, OrdersSeen
<1>6. WillAgree'
  <2> SUFFICES ASSUME resends' = 0 PROVE past' = {} /\ \A id \in Known' : \E t : Trace(id, t)'
      BY DEF WillAgree
  <2>0. resends \in Nat
      BY <1>t DEF OFTyped
  <2>1. UNCHANGED <<past, resends>>
      BY <1>0, <2>0
  <2>2. past = {} /\ \A id \in Known : \E t : Trace(id, t)
      BY <2>1 DEF OFInv, WillAgree
  <2>3. ASSUME NEW id \in Known PROVE \E t : Trace(id, t)'
    <3>1. PICK t : Trace(id, t)
        BY <2>2
    <3> QED
        BY <1>0, <1>1, <1>2, <1>n, <1>t, <3>1, DeliverKeepsTrace
  <2> QED
      BY <1>2, <2>1, <2>2, <2>3
<1>7. CancelsAnswered'
  <2> SUFFICES ASSUME resends' = 0, NEW id \in Known', exch'[id].cancels = 0 PROVE \E p \in 0..Len(wire') : AnswerAt(id, p)'
      BY DEF CancelsAnswered
  <2>0. resends \in Nat
      BY <1>t DEF OFTyped
  <2>1. resends = 0
      BY <1>0, <2>0
  <2>2. PICK p \in 0..n : AnswerAt(id, p)
      BY <1>0, <1>2, <1>n, <2>1 DEF OFInv, CancelsAnswered
  <2>3. id = r.id => Handled(orders[id], orders'[id], r)
      BY <1>1, <1>2, <1>t, EffectState
  <2>4. \A q \in 0..(n - 1) : q + 1 >= p =>
            \A k \in (q + 1)..(n - 1) : wire'[k].id = id => wire'[k].type # "PendingCancel"
    <3> SUFFICES ASSUME NEW q \in 0..(n - 1), q + 1 >= p, NEW k \in (q + 1)..(n - 1), wire'[k].id = id
                 PROVE  wire'[k].type # "PendingCancel"
        OBVIOUS
    <3>1. k \in 1..(n - 1) /\ k + 1 \in (p + 1)..n
        OBVIOUS
    <3> QED
        BY <1>n, <2>2, <3>1 DEF AnswerAt
  <2>5. CASE p = 0
    <3>1. orders[id].state # "PendingCancel" /\ (r.id = id => r.type # "PendingCancel")
      <4>1. 1 \in (p + 1)..n
          BY <2>5
      <4> QED
          BY <1>n, <2>2, <2>5, <4>1 DEF AnswerAt
    <3>2. orders'[id].state # "PendingCancel"
        BY <1>2, <2>3, <3>1 DEF Handled
    <3>3. 0 \in 0..(n - 1) /\ 0 + 1 >= p
        BY <2>5
    <3>4. AnswerAt(id, 0)'
        BY <1>n, <2>4, <3>2, <3>3 DEF AnswerAt
    <3> QED
        BY <1>n, <3>3, <3>4
  <2>6. CASE p = 1
    <3>1. r.id = id /\ r.type \in {"CancelReject", "Canceled"}
        BY <1>n, <2>2, <2>6 DEF AnswerAt
    <3>2. orders'[id].state # "PendingCancel"
        BY <2>3, <3>1 DEF Handled
    <3>3. 0 \in 0..(n - 1) /\ 0 + 1 >= p
        BY <2>6
    <3>4. AnswerAt(id, 0)'
        BY <1>n, <2>4, <3>2, <3>3 DEF AnswerAt
    <3> QED
        BY <1>n, <3>3, <3>4
  <2>7. CASE p > 1
    <3>1. PICK q \in 1..(n - 1) : q = p - 1
        BY <2>7
    <3>2. wire'[q] = wire[p]
        BY <1>n, <3>1
    <3>3. wire'[q].id = id /\ wire'[q].type \in {"CancelReject", "Canceled"}
        BY <2>2, <2>7, <3>2 DEF AnswerAt
    <3>4. q \in 0..(n - 1) /\ q + 1 >= p /\ q # 0
        BY <3>1
    <3>5. AnswerAt(id, q)'
        BY <1>n, <2>4, <3>3, <3>4 DEF AnswerAt
    <3> QED
        BY <1>n, <3>4, <3>5
  <2> QED
      BY <2>5, <2>6, <2>7
<1>8. ExposureBounded'
    BY <1>0, <1>1, <1>t, EffectKeepsBound DEF OFInv
<1> QED
    BY <1>4, <1>5, <1>6, <1>7, <1>8 DEF OFInv, Ledger

\* A report that comes again finds an exchange that has been asked to resend:
\* only the ledger and the limit are promised then.
LEMMA DeliverAgainKeeps ==
    ASSUME OFInv, NEW r \in past, DeliverAgain(r)
    PROVE  OFInv'
<1>0. Handle(r) /\ past' = past \ {r} /\ UNCHANGED <<limits, exch, wire, resends, overlapped, base>>
    BY DEF DeliverAgain
<1>t. OFTyped /\ LeavesConsistent /\ Ledger /\ r \in Reports
    BY DEF OFInv, Ledger, OFTyped
<1>1. Effect(r)
    BY <1>0, <1>t, HandleEffect
<1>2. Known' = Known
    BY <1>1, <1>t, EffectKnown
<1>3. Ledger'
  <2>1. wire' \in Seq(Reports) /\ Len(wire') <= MaxInFlight /\ past' \subseteq Reports /\ resends' \in 0..MaxResends
      BY <1>0, <1>t DEF OFTyped
  <2> QED
      BY <1>0, <1>1, <1>t, <2>1, EffectKeepsLedger
<1>4. OrdersSeen'
    BY <1>0, <1>2 DEF OFInv, OrdersSeen
<1>5. resends # 0
    BY DEF OFInv, WillAgree
<1>6. WillAgree' /\ CancelsAnswered'
    BY <1>0, <1>5 DEF WillAgree, CancelsAnswered
<1>7. ExposureBounded'
    BY <1>0, <1>1, <1>t, EffectKeepsBound DEF OFInv
<1> QED
    BY <1>3, <1>4, <1>6, <1>7 DEF OFInv, Ledger

-----------------------------------------------------------------------------
(* The caller's steps.                                                     *)

\* A new order that check_order let through.
LEMMA SubmitKeeps ==
    ASSUME OFInv, NEW id \in OrderIds, NEW symbol \in Symbols, NEW side \in Sides, NEW qty \in 1..MaxQty,
           NEW price \in FillPrices, Submit(id, symbol, side, qty, price)
    PROVE  OFInv'
<1> USE QtyAssumption
<1>1. PICK o, e : /\ o = [symbol |-> symbol, side |-> side, orig_qty |-> qty, filled_qty |-> 0,
                          avg_fill_price |-> Int2Frac(0), leaves_qty |-> qty, state |-> "PendingNew"]
                  /\ e = [phase |-> "received", leaves |-> qty, filled |-> 0, cancels |-> 0, asked |-> 0]
    OBVIOUS
<1>2. /\ o.symbol = symbol /\ o.side = side /\ o.filled_qty = 0 /\ o.leaves_qty = qty /\ o.orig_qty = qty
      /\ o.state = "PendingNew" /\ o.state \notin Terminal
      /\ e.phase = "received" /\ e.leaves = qty /\ e.filled = 0 /\ e.cancels = 0
    BY <1>1 DEF Terminal
<1>t. OFTyped /\ Ledger
    BY DEF OFInv, Ledger
<1>3. /\ id \notin Known /\ exch[id].phase = "unseen" /\ Known' = Known \cup {id} /\ orders'[id] = o
      /\ \A i \in Known : orders'[i] = orders[i]
      /\ exch'[id] = e /\ \A i \in OrderIds : i # id => exch'[i] = exch[i]
      /\ CheckOrder(limits, positions, symbol, side, qty, price) = "Ok"
      /\ UNCHANGED <<positions, limits, wire, past, resends, base, cash>>
  <2>1. /\ orders' = [i \in Known \cup {id} |-> IF i = id THEN o ELSE orders[i]] /\ id \notin Known
        /\ exch' = [exch EXCEPT ![id] = e]
      BY <1>1 DEF Submit
  <2>2. Known' = Known \cup {id}
      BY <2>1 DEF Known
  <2> QED
      BY <1>t, <2>1, <2>2 DEF Submit, OFTyped, bookkeeping
<1>4. Ledger'
    BY <1>t, SubmitKeepsLedger
<1>w. \A k \in 1..Len(wire) : wire[k].id # id /\ wire[k].id \in OrderIds
  <2> TAKE k \in 1..Len(wire)
  <2>1. wire[k] \in Reports
      BY <1>t DEF OFTyped
  <2> QED
      BY <1>3, <2>1, ReportKinds DEF OFInv, OrdersSeen
<1>5. OrdersSeen'
  <2>1. \A i \in Known : i \in OrderIds /\ i # id
      BY <1>3, <1>t DEF OFTyped
  <2> QED
      BY <1>2, <1>3, <1>w, <2>1 DEF OFInv, OrdersSeen
<1>6. WillAgree'
  <2> SUFFICES ASSUME resends' = 0 PROVE past' = {} /\ \A i \in Known' : \E t : Trace(i, t)'
      BY DEF WillAgree
  <2>1. past' = {} /\ \A i \in Known : \E t : Trace(i, t)
      BY <1>3 DEF OFInv, WillAgree
  <2>2. ASSUME NEW i \in Known PROVE \E t : Trace(i, t)'
    <3>1. PICK t : Trace(i, t)
        BY <2>1
    <3>2. orders'[i] = orders[i] /\ exch'[i] = exch[i] /\ wire' = wire
        BY <1>3, <1>t DEF OFTyped
    <3>3. Trace(i, t)'
        BY <3>1, <3>2, TraceFrame
    <3> QED
        BY <3>3
  <2>3. \E t : Trace(id, t)'
    <3>1. PICK v : v = View(o)
        OBVIOUS
    <3>2. v \in Views /\ v.filled = 0 /\ v.leaves = qty /\ ~v.over
      <4>1. v.filled = 0 /\ v.leaves = qty /\ ~v.over
          BY <1>2, <3>1 DEF View
      <4>2. (o.state \in Terminal) \in BOOLEAN /\ 0 \in Int /\ qty \in Int
          OBVIOUS
      <4>3. v = [filled |-> 0, leaves |-> qty, over |-> o.state \in Terminal]
          BY <1>2, <3>1 DEF View
      <4>4. v \in Views
          BY <4>2, <4>3 DEF Views
      <4> QED
          BY <4>1, <4>4
    <3>3. View(o) = v
        BY <3>1
    <3>n. PICK n \in Nat : n = Len(wire)
        BY <1>t, LenProperties DEF OFTyped
    <3>4. PICK t : n = Len(wire) /\ t = [k \in 0..n |-> v]
        BY <3>n
    <3>5. t \in [0..n -> Views] /\ t[0] = v /\ t[n] = v /\ \A k \in 1..n : t[k] = t[k - 1]
        BY <3>2, <3>4
    <3>6. v.filled = 0 /\ v.leaves = qty /\ Sound(v, qty)
        BY <3>2 DEF Sound
    <3>7. wire' = wire /\ exch'[id].filled = 0 /\ exch'[id].leaves = qty /\ orders'[id] = o /\ o.orig_qty = qty
        BY <1>2, <1>3
    <3>8. Trace(id, t)'
        BY <1>w, <3>3, <3>4, <3>5, <3>6, <3>7 DEF Trace
    <3> QED
        BY <3>8
  <2> QED
      BY <1>3, <2>1, <2>2, <2>3
<1>7. CancelsAnswered'
  <2> SUFFICES ASSUME resends' = 0, NEW i \in Known', exch'[i].cancels = 0 PROVE \E p \in 0..Len(wire') : AnswerAt(i, p)'
      BY DEF CancelsAnswered
  <2>1. CASE i = id
    <3>1. AnswerAt(id, 0)'
      <4>1. \A k \in 1..Len(wire') : wire'[k].id # id
          BY <1>3, <1>w
      <4>2. orders'[id].state # "PendingCancel" /\ 0 + 1 = 1
          BY <1>2, <1>3
      <4> QED
          BY <4>1, <4>2 DEF AnswerAt
    <3>2. 0 \in 0..Len(wire')
        BY <1>3, <1>t, LenProperties DEF OFTyped
    <3> QED
        BY <2>1, <3>1, <3>2
  <2>2. CASE i # id
    <3>1. i \in Known /\ exch[i].cancels = 0 /\ orders'[i] = orders[i]
        BY <1>3, <1>t, <2>2 DEF OFTyped
    <3>2. PICK p \in 0..Len(wire) : AnswerAt(i, p)
        BY <1>3, <3>1 DEF OFInv, CancelsAnswered
    <3>3. AnswerAt(i, p)'
        BY <1>3, <3>1, <3>2 DEF AnswerAt
    <3> QED
        BY <1>3, <3>2, <3>3
  <2> QED
      BY <2>1, <2>2
<1>8. ExposureBounded'
  <2> SUFFICES ASSUME \A l \in LimitSets : l.max_position_qty > 0, NEW s \in Symbols \ overlapped'
               PROVE  /\ Permitted(positions[s].qty)
                      /\ \A i \in Known' : Open(i, s)' =>
                          /\ Permitted(positions[s].qty + Signed(orders'[i].side, orders'[i].leaves_qty))
                          /\ \A j \in Known' : Open(j, s)' => j = i
      BY <1>3 DEF ExposureBounded
  <2>1. s \notin overlapped /\ (s = symbol => \A i \in Known : ~Open(i, s))
      BY DEF Submit, Open
  <2>2. /\ Permitted(positions[s].qty)
        /\ \A i \in Known : Open(i, s) =>
              /\ Permitted(positions[s].qty + Signed(orders[i].side, orders[i].leaves_qty))
              /\ \A j \in Known : Open(j, s) => j = i
      BY <2>1 DEF OFInv, ExposureBounded
  <2>3. \A i \in Known : Open(i, s)' <=> Open(i, s)
      BY <1>3 DEF Open, is_terminal
  <2>4. Open(id, s)' => s = symbol
      BY <1>2, <1>3 DEF Open
  <2>5. s = symbol => Permitted(positions[s].qty + Signed(orders'[id].side, orders'[id].leaves_qty))
    <3> SUFFICES ASSUME s = symbol PROVE Permitted(positions[s].qty + Signed(orders'[id].side, orders'[id].leaves_qty))
        OBVIOUS
    <3>1. limits \in LimitSets /\ limits.max_position_qty > 0 /\ positions[symbol].qty \in Int
        BY <1>t DEF OFTyped, PositionRec
    <3>2. qty \in Nat \ {0} /\ price \in Nat \ {0}
        OBVIOUS
    <3>3. Permitted(positions[symbol].qty + Signed(side, qty))
        BY <1>3, <3>1, <3>2, CheckedPermitted
    <3> QED
        BY <1>2, <1>3, <3>3
  <2> QED
      BY <1>3, <2>1, <2>2, <2>3, <2>4, <2>5
<1> QED
    BY <1>4, <1>5, <1>6, <1>7, <1>8 DEF OFInv, Ledger

\* A cancel request changes the state alone.
LEMMA CancelKeeps ==
    ASSUME OFInv, NEW id \in OrderIds, CancelOrder(id)
    PROVE  OFInv'
<1>t. OFTyped /\ Ledger
    BY DEF OFInv, Ledger
<1>0. /\ id \in Known /\ ~is_terminal(id) /\ orders' = [orders EXCEPT ![id].state = "PendingCancel"]
      /\ exch' = [exch EXCEPT ![id].cancels = @ + 1, ![id].asked = @ + 1]
      /\ UNCHANGED <<positions, limits, wire, past, resends, overlapped, base, cash>>
    BY DEF CancelOrder, bookkeeping
<1>1. PICK o \in OrderRec, x \in ExchRec : o = orders[id] /\ x = exch[id]
    BY <1>0, <1>t DEF OFTyped
<1>2. PICK new, e : new = [o EXCEPT !.state = "PendingCancel"] /\ e = [x EXCEPT !.cancels = @ + 1, !.asked = @ + 1]
    OBVIOUS
<1>3. /\ new \in OrderRec /\ new.symbol = o.symbol /\ new.side = o.side /\ new.orig_qty = o.orig_qty
      /\ new.filled_qty = o.filled_qty /\ new.leaves_qty = o.leaves_qty /\ new.state = "PendingCancel"
      /\ new.state \notin Terminal /\ o.state \notin Terminal
    BY <1>0, <1>1, <1>2 DEF OrderRec, OrderStates, Terminal, is_terminal
<1>4. e \in ExchRec /\ e.phase = x.phase /\ e.filled = x.filled /\ e.leaves = x.leaves /\ e.cancels = x.cancels + 1 /\ e.cancels # 0
  <2>1. PICK c \in Nat, a \in Nat : c = x.cancels /\ a = x.asked
      BY DEF ExchRec
  <2>2. PICK d \in Nat \ {0}, b \in Nat : d = c + 1 /\ b = a + 1
      OBVIOUS
  <2>3. e = [x EXCEPT !.cancels = d, !.asked = b]
      BY <1>2, <2>1, <2>2 DEF ExchRec
  <2>4. e \in ExchRec /\ e.phase = x.phase /\ e.filled = x.filled /\ e.leaves = x.leaves /\ e.cancels = d
      BY <2>3 DEF ExchRec
  <2> QED
      BY <2>1, <2>2, <2>4
<1>5. orders' = [orders EXCEPT ![id] = new] /\ exch' = [exch EXCEPT ![id] = e]
    BY <1>0, <1>1, <1>2, <1>t DEF OFTyped
<1>6. /\ Known' = Known /\ orders'[id] = new /\ \A i \in Known : i # id => orders'[i] = orders[i]
      /\ exch'[id] = e /\ (\A i \in OrderIds : i # id => exch'[i] = exch[i])
      /\ orders' \in [Known -> OrderRec] /\ exch' \in [OrderIds -> ExchRec] /\ Known \subseteq OrderIds
  <2>1. orders \in [Known -> OrderRec] /\ exch \in [OrderIds -> ExchRec] /\ Known \subseteq OrderIds
      BY <1>t DEF OFTyped
  <2>2. orders' \in [Known -> OrderRec] /\ orders'[id] = new /\ \A i \in Known : i # id => orders'[i] = orders[i]
      BY <1>0, <1>3, <1>5, <2>1
  <2>3. exch' \in [OrderIds -> ExchRec] /\ exch'[id] = e /\ \A i \in OrderIds : i # id => exch'[i] = exch[i]
      BY <1>4, <1>5, <2>1
  <2>4. Known' = Known
      BY <2>2 DEF Known
  <2> QED
      BY <2>1, <2>2, <2>3, <2>4
<1>7. Ledger'
  <2>1. OFTyped'
      BY <1>0, <1>6, <1>t DEF OFTyped
  <2>2. LeavesConsistent'
      BY <1>0, <1>1, <1>3, <1>6, <1>t DEF Ledger, LeavesConsistent, is_terminal
  <2>3. PnlAccountsForCash'
      BY <1>0, <1>t DEF Ledger, PnlAccountsForCash
  <2>4. PositionsFollowOrders'
    <3> SUFFICES ASSUME NEW s \in Symbols PROVE positions'[s].qty = base'[s] + SumOver(Known', orders', s)
        BY DEF PositionsFollowOrders
    <3>1. IsFiniteSet(Known) /\ \A i \in Known : SignedFill(orders[i]) \in Int
        BY <1>t, SignedFillInt DEF OFTyped
    <3>2. PICK book : book = orders'
        OBVIOUS
    <3>3. SignedFill(book[id]) \in Int /\ \A i \in Known \ {id} : book[i] = orders[i]
        BY <1>3, <1>6, <3>2, SignedFillInt
    <3>4. Replaced(Known, orders, book, s, id)
        BY <1>0, <3>1, <3>3, SumOverChange
    <3>5. Part(book[id], s) = Part(orders[id], s) /\ Part(orders[id], s) \in Int
        BY <1>0, <1>1, <1>3, <1>6, <3>1, <3>2 DEF Part, SignedFill
    <3>6. SumOver(Known, orders, s) \in Int
        BY <3>1, SumOverInt
    <3>7. SumOver(Known, book, s) = SumOver(Known, orders, s)
        BY <3>4, <3>5, <3>6 DEF Replaced
    <3> QED
        BY <1>0, <1>6, <1>t, <3>2, <3>7 DEF Ledger, PositionsFollowOrders
  <2> QED
      BY <2>1, <2>2, <2>3, <2>4 DEF Ledger
<1>8. OrdersSeen'
  <2>1. \A i \in OrderIds : exch[i].phase = exch'[i].phase
      BY <1>1, <1>4, <1>6
  <2>2. \A k \in 1..Len(wire) : wire[k].id \in OrderIds
      BY <1>t, ReportKinds DEF OFTyped
  <2>3. exch[id].phase # "unseen"
      BY <1>0 DEF OFInv, OrdersSeen
  <2> QED
      BY <1>0, <1>6, <2>1, <2>2, <2>3 DEF OFInv, OrdersSeen
<1>9. WillAgree'
  <2> SUFFICES ASSUME resends' = 0 PROVE past' = {} /\ \A i \in Known' : \E t : Trace(i, t)'
      BY DEF WillAgree
  <2>1. past' = {} /\ \A i \in Known : \E t : Trace(i, t)
      BY <1>0 DEF OFInv, WillAgree
  <2>2. View(new) = View(o)
    <3>1. (new.state \in Terminal) = (o.state \in Terminal)
        BY <1>3
    <3> QED
        BY <1>3, <3>1 DEF View
  <2>3. ASSUME NEW i \in Known PROVE \E t : Trace(i, t)'
    <3>1. PICK t : Trace(i, t)
        BY <2>1
    <3>2. /\ View(orders'[i]) = View(orders[i]) /\ orders'[i].orig_qty = orders[i].orig_qty
          /\ exch'[i].filled = exch[i].filled /\ exch'[i].leaves = exch[i].leaves /\ wire' = wire
        BY <1>0, <1>1, <1>3, <1>4, <1>6, <2>2
    <3>3. Trace(i, t)'
        BY <3>1, <3>2, TraceFrame
    <3> QED
        BY <3>3
  <2> QED
      BY <1>6, <2>1, <2>3
<1>10. CancelsAnswered'
  <2> SUFFICES ASSUME resends' = 0, NEW i \in Known', exch'[i].cancels = 0 PROVE \E p \in 0..Len(wire') : AnswerAt(i, p)'
      BY DEF CancelsAnswered
  <2>1. i # id /\ i \in Known /\ exch[i].cancels = 0 /\ orders'[i] = orders[i]
      BY <1>4, <1>6
  <2>2. PICK p \in 0..Len(wire) : AnswerAt(i, p)
      BY <1>0, <2>1 DEF OFInv, CancelsAnswered
  <2>3. AnswerAt(i, p)'
      BY <1>0, <2>1, <2>2 DEF AnswerAt
  <2> QED
      BY <1>0, <2>2, <2>3
<1>11. ExposureBounded'
  <2>1. \A i \in Known, s \in Symbols : Open(i, s)' <=> Open(i, s)
      BY <1>1, <1>3, <1>6 DEF Open, is_terminal
  <2>2. \A i \in Known : orders'[i].side = orders[i].side /\ orders'[i].leaves_qty = orders[i].leaves_qty
      BY <1>1, <1>3, <1>6
  <2> QED
      BY <1>0, <1>6, <2>1, <2>2 DEF OFInv, ExposureBounded
<1> QED
    BY <1>7, <1>8, <1>9, <1>10, <1>11 DEF OFInv, Ledger

\* Terminal orders leave the book, and nothing else changes but the history.
LEMMA PurgeKeeps ==
    ASSUME OFInv, purge_terminal
    PROVE  OFInv'
<1>1. Ledger'
    BY PurgeKeepsLedger DEF OFInv, Ledger
<1>2. /\ Known' \subseteq Known /\ \A i \in Known' : orders'[i] = orders[i]
      /\ UNCHANGED <<positions, limits, exch, wire, past, resends, overlapped>>
  <2>1. orders' = [id \in Known \ Purged |-> orders[id]]
      BY DEF purge_terminal
  <2>2. Known' = Known \ Purged
      BY <2>1 DEF Known
  <2> QED
      BY <2>1, <2>2 DEF purge_terminal, external
<1>3. OrdersSeen'
    BY <1>2 DEF OFInv, OrdersSeen
<1>4. WillAgree'
  <2>1. ASSUME NEW i \in Known', NEW t, Trace(i, t) PROVE Trace(i, t)'
      BY <1>2, <2>1 DEF Trace
  <2> QED
      BY <1>2, <2>1 DEF OFInv, WillAgree
<1>5. CancelsAnswered'
  <2>1. ASSUME NEW i \in Known', NEW p, AnswerAt(i, p) PROVE AnswerAt(i, p)'
      BY <1>2, <2>1 DEF AnswerAt
  <2> QED
      BY <1>2, <2>1 DEF OFInv, CancelsAnswered
<1>6. ExposureBounded'
    BY <1>2 DEF OFInv, ExposureBounded, Open, is_terminal
<1> QED
    BY <1>1, <1>3, <1>4, <1>5, <1>6 DEF OFInv, Ledger

\* The tracker is cleared when no order is open.
LEMMA ClearKeeps ==
    ASSUME OFInv, clear
    PROVE  OFInv'
<1>1. Ledger'
    BY ClearKeepsLedger DEF OFInv, Ledger
<1>2. /\ Known' = Known /\ positions' = [s \in Symbols |-> Flat]
      /\ UNCHANGED <<orders, limits, exch, wire, past, resends, overlapped>>
    BY DEF clear, external, Known
<1>3. OrdersSeen' /\ WillAgree' /\ CancelsAnswered'
    BY <1>2 DEF OFInv, OrdersSeen, WillAgree, CancelsAnswered, Trace, AnswerAt
<1>4. \A i \in Known : is_terminal(i)
  <2>1. IsFiniteSet(Known)
      BY DEF OFInv, OFTyped
  <2>2. PICK A : A = {i \in Known : ~is_terminal(i)}
      OBVIOUS
  <2>3. IsFiniteSet(A) /\ Cardinality(A) = 0
      BY <2>1, <2>2, FS_Subset DEF clear, active_count
  <2>4. A = {}
      BY <2>3, FS_EmptySet
  <2> QED
      BY <2>2, <2>4
<1>5. ExposureBounded'
  <2>1. \A i \in Known : is_terminal(i)'
      BY <1>2, <1>4 DEF is_terminal
  <2>2. ASSUME \A l \in LimitSets : l.max_position_qty > 0, NEW s \in Symbols PROVE Permitted(positions'[s].qty)
    <3>1. positions'[s].qty = 0 /\ Abs(0) = 0 /\ limits \in LimitSets
        BY <1>2, FlatTrue DEF Abs, OFInv, OFTyped
    <3> QED
        BY <2>2, <3>1, LimitsAssumption DEF Permitted
  <2> QED
      BY <1>2, <2>1, <2>2 DEF ExposureBounded, Open
<1> QED
    BY <1>1, <1>3, <1>5 DEF OFInv, Ledger

\* New limits change nothing that was done.
LEMMA SetLimitsKeeps ==
    ASSUME OFInv, NEW l \in LimitSets, set_limits(l)
    PROVE  OFInv'
<1>1. limits' = l /\ UNCHANGED <<orders, positions, exch, wire, past, resends, overlapped, base, cash>>
    BY DEF set_limits, manager, external, bookkeeping
<1>2. Ledger'
  <2>1. Ledger /\ OFTyped
      BY DEF OFInv, Ledger
  <2>2. /\ limits' \in LimitSets /\ exch' \in [OrderIds -> ExchRec] /\ wire' \in Seq(Reports) /\ Len(wire') <= MaxInFlight
        /\ past' \subseteq Reports /\ resends' \in 0..MaxResends /\ overlapped' \subseteq Symbols
      BY <1>1, <2>1 DEF OFTyped
  <2> QED
      BY <1>1, <2>1, <2>2, LedgerFrame
<1>3. Known' = Known
    BY <1>1 DEF Known
<1>4. OrdersSeen' /\ WillAgree' /\ CancelsAnswered' /\ ExposureBounded'
    BY <1>1, <1>3 DEF OFInv, OrdersSeen, WillAgree, CancelsAnswered, Trace, AnswerAt, ExposureBounded, Open, is_terminal
<1> QED
    BY <1>2, <1>4 DEF OFInv, Ledger

\* Steps that change nothing.
LEMMA OFStutterKeeps ==
    ASSUME OFInv, UNCHANGED OFvars
    PROVE  OFInv'
<1>1. UNCHANGED <<orders, positions, limits, exch, wire, past, resends, overlapped, base, cash>>
    BY DEF OFvars
<1>2. Ledger'
  <2>1. Ledger /\ OFTyped
      BY DEF OFInv, Ledger
  <2>2. /\ limits' \in LimitSets /\ exch' \in [OrderIds -> ExchRec] /\ wire' \in Seq(Reports) /\ Len(wire') <= MaxInFlight
        /\ past' \subseteq Reports /\ resends' \in 0..MaxResends /\ overlapped' \subseteq Symbols
      BY <1>1, <2>1 DEF OFTyped
  <2> QED
      BY <1>1, <2>1, <2>2, LedgerFrame
<1>3. Known' = Known
    BY <1>1 DEF Known
<1>4. OrdersSeen' /\ WillAgree' /\ CancelsAnswered' /\ ExposureBounded'
    BY <1>1, <1>3 DEF OFInv, OrdersSeen, WillAgree, CancelsAnswered, Trace, AnswerAt, ExposureBounded, Open, is_terminal
<1> QED
    BY <1>2, <1>4 DEF OFInv, Ledger

\* Every step keeps the invariant.
LEMMA OFNextKeeps ==
    ASSUME OFInv, OFNext
    PROVE  OFInv'
<1>1. ASSUME NEW id \in OrderIds, NEW symbol \in Symbols, NEW side \in {"Buy", "Sell"}, NEW qty \in 1..MaxQty,
             NEW price \in FillPrices, Submit(id, symbol, side, qty, price)
      PROVE  OFInv'
    BY <1>1, SubmitKeeps DEF Sides
<1>2. ASSUME NEW id \in OrderIds, CancelOrder(id) PROVE OFInv'
    BY <1>2, CancelKeeps
<1>3. ASSUME NEW id \in OrderIds,
             ExchangeAccepts(id) \/ ExchangeFills(id) \/ ExchangeStatus(id) \/ ExchangeAnswersCancel(id)
      PROVE  OFInv'
    BY <1>3, ExchangeKeeps
<1>4. ASSUME Deliver PROVE OFInv'
    BY <1>4, DeliverKeeps
<1>5. ASSUME NEW r \in past, DeliverAgain(r) PROVE OFInv'
    BY <1>5, DeliverAgainKeeps
<1>6. ASSUME purge_terminal \/ clear PROVE OFInv'
    BY <1>6, PurgeKeeps, ClearKeeps
<1>7. ASSUME NEW l \in LimitSets, set_limits(l) PROVE OFInv'
    BY <1>7, SetLimitsKeeps
<1> QED
    BY <1>1, <1>2, <1>3, <1>4, <1>5, <1>6, <1>7 DEF OFNext

\* The invariant says what the runs check.
LEMMA OFInvImplies ==
    ASSUME OFInv
    PROVE  LedgerTrue /\ AgreesWithExchange
<1>t. OFTyped /\ LeavesConsistent
    BY DEF OFInv
<1>1. OFTypeOK
  <2>1. ASSUME NEW id \in Known
        PROVE  /\ orders[id].state \in OrderStates
               /\ orders[id].filled_qty \in 0..MaxQty /\ orders[id].leaves_qty \in 0..MaxQty
               /\ orders[id].orig_qty \in 1..MaxQty
    <3>1. PICK o \in OrderRec : o = orders[id]
        BY <1>t DEF OFTyped
    <3>2. PICK f \in Nat, l \in Nat, g \in 1..MaxQty : f = o.filled_qty /\ l = o.leaves_qty /\ g = o.orig_qty
        BY DEF OrderRec
    <3>3. f <= g /\ (l = 0 \/ l = g - f)
        BY <1>t, <3>1, <3>2 DEF LeavesConsistent
    <3>4. f \in 0..MaxQty /\ l \in 0..MaxQty
        BY <3>3, QtyAssumption
    <3> QED
        BY <3>1, <3>2, <3>4 DEF OrderRec
  <2>2. \A s \in Symbols : positions[s].qty \in Int
      BY <1>t DEF OFTyped, PositionRec
  <2> QED
      BY <1>t, <2>1, <2>2 DEF OFTypeOK, OFTyped
<1>2. ASSUME wire = << >>, resends = 0, NEW id \in Known
      PROVE  orders[id].filled_qty = exch[id].filled /\ orders[id].leaves_qty = exch[id].leaves
  <2>1. PICK t : Trace(id, t)
      BY <1>2 DEF OFInv, WillAgree
  <2>2. Len(wire) = 0
      BY <1>2
  <2>3. t[0] = View(orders[id]) /\ t[0].filled = exch[id].filled /\ t[0].leaves = exch[id].leaves
      BY <2>1, <2>2 DEF Trace
  <2> QED
      BY <2>3 DEF View
<1>3. AgreesWithExchange
    BY <1>2 DEF AgreesWithExchange, Delivered
<1>4. NoStuckCancel
  <2> SUFFICES ASSUME wire = << >>, resends = 0, NEW id \in Known, orders[id].state = "PendingCancel"
               PROVE  exch[id].cancels > 0
      BY DEF NoStuckCancel, Delivered
  <2>1. Len(wire) = 0
      OBVIOUS
  <2>2. exch[id].cancels # 0
      BY <2>1 DEF OFInv, CancelsAnswered, AnswerAt
  <2>3. exch[id].cancels \in Nat
      BY <1>t DEF OFTyped, ExchRec
  <2> QED
      BY <2>2, <2>3
<1>5. PositionWithinLimit
    BY DEF OFInv, ExposureBounded, PositionWithinLimit
<1> QED
    BY <1>1, <1>3, <1>4, <1>5 DEF OFInv, LedgerTrue

\* The invariant is one.
LEMMA OFInvAlways == OFSpec => []OFInv
<1>1. OFInv /\ [OFNext]_OFvars => OFInv'
    BY OFNextKeeps, OFStutterKeeps
<1> QED
    BY <1>1, OFInitHolds, PTL DEF OFSpec

\* PositionTracker, OrderManager and RiskChecker agree with each other after any
\* sequence of orders, cancels and reports, repeated ones included, for any number
\* of orders, symbols, quantities, prices and limits: positions are what the
\* orders filled, profit is the cash that came in plus the open quantity at its
\* average, no order fills more than was ordered or stays PendingCancel once its
\* requests are answered, and orders that never overlap stay within the limit.
THEOREM LedgerHolds == OFSpec => []LedgerTrue
<1>1. OFInv => LedgerTrue
    BY OFInvImplies
<1> QED
    BY <1>1, OFInvAlways, PTL

\* With every report delivered once and in order, OrderManager's quantities are
\* the exchange's, however cancels and fills cross.
THEOREM ExchangeAgreed == OFSpec => []AgreesWithExchange
<1>1. OFInv => AgreesWithExchange
    BY OFInvImplies
<1> QED
    BY <1>1, OFInvAlways, PTL
=============================================================================
