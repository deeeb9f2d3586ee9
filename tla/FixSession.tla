----------------------------- MODULE FixSession -----------------------------
(***************************************************************************)
(* eph::fix::FixSession: the FIX 4.4 session layer.                        *)
(*                                                                         *)
(* Two threads share it.  "tx" is the caller's: logon, logout, send_app,   *)
(* reset.  "rx" is the poll thread: on_rx for every inbound message and    *)
(* tick.  They meet in the atomics state_, outbound_seq_,                  *)
(* expected_inbound_seq_ and test_request_pending_, and on the transport;  *)
(* each step below touches one of them.  Time is counted in heartbeat      *)
(* intervals of silence.                                                   *)
(***************************************************************************)
EXTENDS Integers

CONSTANTS MaxSeqNum,        \* UINT32_MAX
          ResetSeqOnLogon,  \* cfg_.reset_seq_on_logon
          ResendOnGap,      \* cfg_.resend_on_gap
          MaxLogons         \* bound: calls of logon()

ASSUME MaxSeqNumAssumption == MaxSeqNum \in Nat \ {0}
ASSUME ConfigAssumption == ResetSeqOnLogon \in BOOLEAN /\ ResendOnGap \in BOOLEAN
ASSUME MaxLogonsAssumption == MaxLogons \in Nat

VARIABLES
    state,                 \* state_
    outbound_seq,          \* the next MsgSeqNum to use
    expected_inbound_seq,  \* the next MsgSeqNum to see
    test_request_pending,
    silence,               \* 0, 1: HeartBtInt passed, 2: the timeout passed
    pc,                    \* where each thread is
    msg,                   \* the message each thread is building or sending
    rmsg,                  \* the message on_rx is handling
    connected,             \* the counterparty has our Logon and may send
    serverUp,              \* external: the counterparty is alive
    logons,                \* calls of logon() so far
    sent,                  \* history: MsgSeqNums on this session's wire
    missed,                \* history: inbound numbers passed over in silence
    probed,                \* history: TestRequest sent, no Heartbeat since
    told                   \* history: what logon() or logout() last returned

session == <<state, outbound_seq, expected_inbound_seq, test_request_pending>>
history == <<sent, missed, probed, told>>
FSvars == <<session, silence, pc, msg, rmsg, connected, serverUp, logons, history>>

Threads == {"tx", "rx"}
States == {"Disconnected", "LogonSent", "Active", "LogoutSent"}
SeqNums == 1..MaxSeqNum

\* Inbound messages.  seq = 0: no MsgSeqNum field.  "Junk" is whatever on_rx
\* drops after update_recv_time: unparsable, or a MsgSeqNum out of range.
Plain == {"Logon", "Logout", "Heartbeat", "TestRequest", "ResendRequest", "App", "Junk"}
Inbound ==
    [type : Plain, seq : 0..MaxSeqNum, dup : BOOLEAN, gapFill : {FALSE}, new : {0}]
    \cup [type : {"SequenceReset"}, seq : 0..MaxSeqNum, dup : BOOLEAN,
          gapFill : BOOLEAN, new : SeqNums]

NoInbound == [type |-> "Junk", seq |-> 0, dup |-> FALSE, gapFill |-> FALSE, new |-> 0]

\* An outbound message, and where its sender goes on when it was sent, or not.
Outbound(type, ok, fail) ==
    [type |-> type, seq |-> 0, ok |-> ok, fail |-> fail]
NoMsg == Outbound("none", "idle", "idle")

FSInit ==
    /\ state = "Disconnected" /\ outbound_seq = 1 /\ expected_inbound_seq = 1
    /\ test_request_pending = FALSE
    /\ silence = 0
    /\ pc = [th \in Threads |-> "idle"]
    /\ msg = [th \in Threads |-> NoMsg]
    /\ rmsg = NoInbound
    /\ connected = FALSE /\ serverUp = TRUE /\ logons = 0
    /\ sent = {} /\ missed = {} /\ probed = FALSE /\ told = "nothing"

At(th, label) == pc[th] = label
Goto(th, label) == pc' = [pc EXCEPT ![th] = label]

BeginSend(th, type, ok, fail) ==
    /\ Goto(th, "claim")
    /\ msg' = [msg EXCEPT ![th] = Outbound(type, ok, fail)]

-----------------------------------------------------------------------------
\* Sending, on either thread.

\* The claim without the exhaustion test: the counter wraps.
ClaimWrapping(th) ==
    /\ At(th, "claim")
    /\ msg' = [msg EXCEPT ![th].seq = outbound_seq]
    /\ outbound_seq' = (outbound_seq % MaxSeqNum) + 1
    /\ Goto(th, "transmit")
    /\ UNCHANGED <<state, expected_inbound_seq, test_request_pending, silence,
                   rmsg, connected, serverUp, logons, history>>

\* fill_session_header: the compare-and-swap that takes the next MsgSeqNum,
\* refused once the numbers are used up.
Claim(th) ==
    /\ At(th, "claim")
    /\ \/ /\ outbound_seq < MaxSeqNum
          /\ msg' = [msg EXCEPT ![th].seq = outbound_seq]
          /\ outbound_seq' = outbound_seq + 1
          /\ Goto(th, "transmit")
       \/ /\ outbound_seq >= MaxSeqNum
          /\ Goto(th, msg[th].fail)
          /\ msg' = [msg EXCEPT ![th] = NoMsg]
          /\ UNCHANGED outbound_seq
    /\ UNCHANGED <<state, expected_inbound_seq, test_request_pending, silence,
                   rmsg, connected, serverUp, logons, history>>

\* send_message: the transport takes the bytes, or refuses them.  The
\* counterparty answers a session once it has seen its Logon.
Transmitted(th) ==
    /\ At(th, "transmit")
    /\ sent' = sent \cup {msg[th].seq}
    /\ probed' = (probed \/ msg[th].type = "TestRequest")
    /\ connected' = (connected \/ msg[th].type = "Logon")
    /\ Goto(th, msg[th].ok)
    /\ msg' = [msg EXCEPT ![th] = NoMsg]
    /\ UNCHANGED <<session, silence, rmsg, serverUp, logons, missed, told>>

NotTransmitted(th) ==
    /\ At(th, "transmit")
    /\ Goto(th, msg[th].fail)
    /\ msg' = [msg EXCEPT ![th] = NoMsg]
    /\ UNCHANGED <<session, silence, rmsg, connected, serverUp, logons, history>>

\* set_state: an unconditional exchange.
SetState(th, s, next) ==
    /\ state' = s
    /\ Goto(th, next)
    /\ UNCHANGED <<outbound_seq, expected_inbound_seq, msg, rmsg, connected,
                   serverUp, logons, sent, missed, probed>>

-----------------------------------------------------------------------------
\* The caller's thread.

\* A logon or reset follows the replacement of the connection: the poll thread
\* is done with the old one and the new one carries nothing yet.
NewConnection == At("rx", "idle") /\ connected' = FALSE

\* The counters set back to 1, and with them what the histories are about.
ResetCounters ==
    /\ outbound_seq' = 1 /\ expected_inbound_seq' = 1
    /\ sent' = {} /\ missed' = {}

KeepCounters == UNCHANGED <<outbound_seq, expected_inbound_seq, sent, missed>>

\* logon() up to send_logon.
LogonCall ==
    /\ At("tx", "idle") /\ state = "Disconnected"
    /\ logons < MaxLogons /\ logons' = logons + 1
    /\ NewConnection
    /\ IF ResetSeqOnLogon THEN ResetCounters ELSE KeepCounters
    /\ BeginSend("tx", "Logon", "logon.set", "idle")
    /\ probed' = FALSE /\ told' = "nothing"
    /\ UNCHANGED <<state, test_request_pending, silence, rmsg, serverUp>>

LogonSet ==
    /\ At("tx", "logon.set")
    /\ SetState("tx", "LogonSent", "logon.wait")
    /\ UNCHANGED <<test_request_pending, silence, told>>

\* The spin: left when the state has changed, or towards the timeout.
LogonWait ==
    /\ At("tx", "logon.wait")
    /\ Goto("tx", IF state = "LogonSent" THEN "logon.timeout" ELSE "logon.end")
    /\ UNCHANGED <<session, silence, msg, rmsg, connected, serverUp, logons, history>>

LogonTimeout ==
    /\ At("tx", "logon.timeout")
    /\ SetState("tx", "Disconnected", "idle")
    /\ told' = "error"
    /\ UNCHANGED <<test_request_pending, silence>>

\* logon() returns: an active session starts its timers, anything else is an
\* error.
LogonEnd ==
    /\ At("tx", "logon.end")
    /\ Goto("tx", "idle")
    /\ silence' = IF state = "Active" THEN 0 ELSE silence
    /\ told' = IF state = "Active" THEN "in" ELSE "error"
    /\ test_request_pending' = (test_request_pending /\ state # "Active")
    /\ UNCHANGED <<state, outbound_seq, expected_inbound_seq, msg, rmsg, connected,
                   serverUp, logons, sent, missed, probed>>

LogoutCall ==
    /\ At("tx", "idle") /\ state = "Active"
    /\ BeginSend("tx", "Logout", "logout.set", "idle")
    /\ UNCHANGED <<session, silence, rmsg, connected, serverUp, logons, history>>

LogoutSet ==
    /\ At("tx", "logout.set")
    /\ SetState("tx", "LogoutSent", "logout.wait")
    /\ UNCHANGED <<test_request_pending, silence, told>>

LogoutWait ==
    /\ At("tx", "logout.wait")
    /\ \/ state = "LogoutSent" /\ Goto("tx", "logout.timeout") /\ UNCHANGED told
       \/ state # "LogoutSent" /\ Goto("tx", "idle") /\ told' = "out"
    /\ UNCHANGED <<session, silence, msg, rmsg, connected, serverUp, logons,
                   sent, missed, probed>>

\* The timeout that reports success and leaves the state alone.
LogoutTimeoutQuiet ==
    /\ At("tx", "logout.timeout")
    /\ SetState("tx", state, "idle")
    /\ told' = "out"
    /\ UNCHANGED <<test_request_pending, silence>>

LogoutTimeout ==
    /\ At("tx", "logout.timeout")
    /\ SetState("tx", "Disconnected", "idle")
    /\ told' = "out"
    /\ UNCHANGED <<test_request_pending, silence>>

SendApp ==
    /\ At("tx", "idle") /\ state = "Active"
    /\ BeginSend("tx", "App", "idle", "idle")
    /\ UNCHANGED <<session, silence, rmsg, connected, serverUp, logons, history>>

Reset ==
    /\ At("tx", "idle") /\ NewConnection
    /\ state' = "Disconnected" /\ test_request_pending' = FALSE
    /\ ResetCounters
    /\ probed' = FALSE
    /\ UNCHANGED <<silence, pc, msg, rmsg, serverUp, logons, told>>

-----------------------------------------------------------------------------
\* The poll thread: on_rx.

\* The numbers a ResendRequest asks for.
ResendRange(expected, recv) == expected..(recv - 1)

\* expected_inbound_seq_ moves past the number, or freezes at the last one.
NextExpected(recv) == IF recv = MaxSeqNum THEN MaxSeqNum ELSE recv + 1

Gap(m) == m.seq > expected_inbound_seq /\ ~m.dup
Advances(m) == m.seq = expected_inbound_seq \/ Gap(m)

\* What a message leaves behind when it moves the expected number.
PassedOver(m) ==
    (expected_inbound_seq..(m.seq - 1))
        \ IF ResendOnGap THEN ResendRange(expected_inbound_seq, m.seq) ELSE {}

\* on_rx up to the dispatch on the type: update_recv_time; what cannot be read
\* is dropped; the MsgSeqNum is checked, a gap asked for, and the expected
\* number moved.  No other thread uses expected_inbound_seq_ in between.
OnRx(m) ==
    /\ At("rx", "idle") /\ connected /\ serverUp
    /\ silence' = 0
    /\ \/ /\ m.type = "Junk"
          /\ UNCHANGED <<pc, msg, rmsg, expected_inbound_seq, missed>>
       \/ /\ m.type # "Junk"
          /\ rmsg' = [m EXCEPT !.seq = 0, !.dup = FALSE]
          /\ IF Advances(m)
             THEN /\ expected_inbound_seq' = NextExpected(m.seq)
                  /\ missed' = missed \cup PassedOver(m)
             ELSE UNCHANGED <<expected_inbound_seq, missed>>
          /\ IF Gap(m) /\ ResendOnGap
             THEN BeginSend("rx", "ResendRequest", "rx.type", "rx.type")
             ELSE Goto("rx", "rx.type") /\ UNCHANGED msg
    /\ UNCHANGED <<state, outbound_seq, test_request_pending, connected, serverUp,
                   logons, sent, probed, told>>

\* One step per message type, each on the state it has loaded.  Returned is
\* the end of on_rx.
Handling(type) == At("rx", "rx.type") /\ rmsg.type = type
Returned == Goto("rx", "idle") /\ rmsg' = NoInbound
Elsewhere == UNCHANGED <<silence, connected, serverUp, logons, sent, missed, told>>

HandleLogon ==
    /\ Handling("Logon")
    /\ \/ state = "LogonSent" /\ Goto("rx", "rx.active") /\ UNCHANGED rmsg
       \/ state # "LogonSent" /\ Returned
    /\ UNCHANGED <<session, msg, probed>> /\ Elsewhere

HandleLogout ==
    /\ Handling("Logout")
    /\ \/ /\ state \in {"LogoutSent", "LogonSent"}
          /\ Goto("rx", "rx.down") /\ UNCHANGED <<msg, rmsg>>
       \/ /\ state = "Active"
          /\ BeginSend("rx", "Logout", "rx.down", "rx.down") /\ UNCHANGED rmsg
       \/ /\ state = "Disconnected"
          /\ Returned /\ UNCHANGED msg
    /\ UNCHANGED <<session, probed>> /\ Elsewhere

BecomeActive ==
    /\ At("rx", "rx.active")
    /\ state' = "Active" /\ Returned
    /\ UNCHANGED <<outbound_seq, expected_inbound_seq, test_request_pending, msg, probed>>
    /\ Elsewhere

GoDown ==
    /\ At("rx", "rx.down")
    /\ state' = "Disconnected" /\ Returned
    /\ UNCHANGED <<outbound_seq, expected_inbound_seq, test_request_pending, msg, probed>>
    /\ Elsewhere

HandleHeartbeat ==
    /\ Handling("Heartbeat")
    /\ test_request_pending' = FALSE /\ probed' = FALSE
    /\ Returned
    /\ UNCHANGED <<state, outbound_seq, expected_inbound_seq, msg>> /\ Elsewhere

HandleTestRequest ==
    /\ Handling("TestRequest")
    /\ BeginSend("rx", "Heartbeat", "idle", "idle") /\ rmsg' = NoInbound
    /\ UNCHANGED <<session, probed>> /\ Elsewhere

\* A GapFill moves the expected number forward only; a reset sets it.
HandleSequenceReset ==
    /\ Handling("SequenceReset")
    /\ LET new == rmsg.new
       IN IF rmsg.gapFill /\ new <= expected_inbound_seq
          THEN UNCHANGED expected_inbound_seq
          ELSE expected_inbound_seq' = new
    /\ Returned
    /\ UNCHANGED <<state, outbound_seq, test_request_pending, msg, probed>>
    /\ Elsewhere

\* There is no journal: the answer is a GapFill to the next number.
HandleResendRequest ==
    /\ Handling("ResendRequest")
    /\ BeginSend("rx", "GapFill", "idle", "idle") /\ rmsg' = NoInbound
    /\ UNCHANGED <<session, probed>> /\ Elsewhere

HandleApp ==
    /\ Handling("App")
    /\ Returned
    /\ UNCHANGED <<session, msg, probed>> /\ Elsewhere

-----------------------------------------------------------------------------
\* The poll thread: tick.

\* Nothing was sent for HeartBtInt, or something was.
TickCall ==
    /\ At("rx", "idle") /\ state = "Active"
    /\ \/ BeginSend("rx", "Heartbeat", "tick.check", "tick.check")
       \/ Goto("rx", "tick.check") /\ UNCHANGED msg
    /\ UNCHANGED <<session, silence, rmsg, connected, serverUp, logons, history>>

\* Where send_test_request goes on when the TestRequest was not sent: back,
\* and not to the store of test_request_pending_.
ProbeFailed == "idle"

\* No answer to the TestRequest within the timeout; idle and not probed yet.
DeadLate == silence > 2 /\ test_request_pending
Dead == silence = 2 /\ test_request_pending
Idle == silence >= 1 /\ ~test_request_pending

TickCheck ==
    /\ At("rx", "tick.check")
    /\ \/ /\ Dead
          /\ Goto("rx", "tick.dead") /\ UNCHANGED msg
       \/ /\ Idle
          /\ BeginSend("rx", "TestRequest", "tick.pending", ProbeFailed)
       \/ /\ ~Dead /\ ~Idle
          /\ Goto("rx", "idle") /\ UNCHANGED msg
    /\ UNCHANGED <<session, silence, rmsg, connected, serverUp, logons, history>>

TickPending ==
    /\ At("rx", "tick.pending")
    /\ test_request_pending' = TRUE
    /\ Goto("rx", "idle")
    /\ UNCHANGED <<state, outbound_seq, expected_inbound_seq, silence, msg, rmsg,
                   connected, serverUp, logons, history>>

TickDead ==
    /\ At("rx", "tick.dead")
    /\ SetState("rx", "Disconnected", "idle")
    /\ UNCHANGED <<test_request_pending, silence, told>>

-----------------------------------------------------------------------------
\* Time passes in units far longer than a thread's steps: no thread is in the
\* middle of anything but a wait that is not over.
Elapse ==
    /\ silence < 2 /\ silence' = silence + 1
    /\ At("rx", "idle")
    /\ \/ At("tx", "idle")
       \/ At("tx", "logon.wait") /\ state = "LogonSent"
       \/ At("tx", "logout.wait") /\ state = "LogoutSent"
    /\ UNCHANGED <<session, pc, msg, rmsg, connected, serverUp, logons, history>>

ServerStops ==
    /\ serverUp /\ serverUp' = FALSE
    /\ UNCHANGED <<session, silence, pc, msg, rmsg, connected, logons, history>>

SendStep(th) == Claim(th) \/ Transmitted(th) \/ NotTransmitted(th)

TxStep == \/ SendStep("tx")
          \/ LogonSet \/ LogonWait \/ LogonTimeout \/ LogonEnd
          \/ LogoutSet \/ LogoutWait \/ LogoutTimeout

TxCall == LogonCall \/ LogoutCall \/ SendApp \/ Reset

RxStep == \/ SendStep("rx")
          \/ BecomeActive \/ GoDown
          \/ HandleLogon \/ HandleLogout \/ HandleHeartbeat \/ HandleTestRequest
          \/ HandleSequenceReset \/ HandleResendRequest \/ HandleApp
          \/ TickCheck \/ TickPending \/ TickDead

FSNext == \/ TxStep \/ TxCall
          \/ RxStep \/ TickCall \/ \E m \in Inbound : OnRx(m)
          \/ Elapse \/ ServerStops

FSSpec == FSInit /\ [][FSNext]_FSvars

\* Both threads run, tick is called again and again, time passes, and the
\* transport does not refuse every message for ever.
FSFairness ==
    /\ WF_FSvars(TxStep) /\ WF_FSvars(RxStep)
    /\ SF_FSvars(TickCall) /\ SF_FSvars(Elapse)
    /\ \A th \in Threads : SF_FSvars(Transmitted(th))

-----------------------------------------------------------------------------
Labels == {"idle", "claim", "transmit", "logon.set", "logon.wait", "logon.timeout",
           "logon.end", "logout.set", "logout.wait", "logout.timeout",
           "rx.type", "rx.active", "rx.down",
           "tick.check", "tick.pending", "tick.dead"}

\* Type invariant: in particular neither counter ever leaves 1..UINT32_MAX.
FSTypeOK ==
    /\ state \in States
    /\ outbound_seq \in SeqNums /\ expected_inbound_seq \in SeqNums
    /\ test_request_pending \in BOOLEAN
    /\ silence \in 0..2
    /\ pc \in [Threads -> Labels]
    /\ \A th \in Threads : msg[th].seq \in 0..MaxSeqNum
    /\ rmsg \in Inbound
    /\ connected \in BOOLEAN /\ serverUp \in BOOLEAN /\ logons \in 0..MaxLogons
    /\ sent \subseteq SeqNums /\ missed \subseteq SeqNums
    /\ probed \in BOOLEAN /\ told \in {"nothing", "in", "error", "out"}

\* fill_session_header: no MsgSeqNum is used twice in a session, whichever
\* threads send and whatever sends fail; a number in flight is fresh.
UniqueSeqNums ==
    \A th \in Threads : At(th, "transmit") =>
          /\ msg[th].seq \notin sent
          /\ \A other \in Threads \ {th} :
                At(other, "transmit") => msg[other].seq # msg[th].seq

\* on_rx: with resend_on_gap no inbound number is passed over in silence.
\* Whatever expected_inbound_seq_ moved past was received, asked for again or
\* given up by the counterparty's SequenceReset.
GapsAccounted == ResendOnGap => missed = {}

\* tick: a session logon() has established is declared dead only after a
\* TestRequest really went out in it and no Heartbeat has been handled since.
NoFalseDeath == At("rx", "tick.dead") /\ told = "in" => probed

\* logout(): once it has returned success the session is down, however the
\* two sides' Logouts and the timeout crossed, until the next logon().
LogoutMeansDown == told = "out" => state = "Disconnected"

\* tick: a counterparty that goes silent for good is found out, unless the
\* session has no number left to probe it with.
DeadServerDetected ==
    (~serverUp /\ state = "Active")
        ~> (state # "Active" \/ outbound_seq = MaxSeqNum)

\* FIX needs "monotonically increasing sequence numbers within a session": the
\* numbers go out in the order they were claimed.
WireInSequence == [][\A n \in sent' \ sent : \A k \in sent : k < n]_FSvars

\* logon() returns "void on success, or error string on timeout/failure": a
\* caller told of a failure does not have an active session.
LogonErrorMeansDown == told = "error" => state # "Active"

\* What the session tells its caller is so: which messages were missed, that
\* the counterparty is dead, that the session is down.
SessionHonest ==
    /\ FSTypeOK /\ GapsAccounted /\ NoFalseDeath /\ LogoutMeansDown
=============================================================================
