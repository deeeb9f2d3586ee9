----------------------------- MODULE Reconnect -----------------------------
(***************************************************************************)
(* eph::net::ReconnectOrchestrator over eph::utils::ExponentialBackoff.    *)
(*                                                                         *)
(* One thread calls start, tick, mark_disconnected and stop.  Each runs    *)
(* user callbacks in the middle, and a callback may call back: todo is the *)
(* rest of the calls in progress, innermost first, so that a nested call's *)
(* steps come before those of the call it interrupted.  Time is counted in *)
(* units that pass only between calls.                                     *)
(***************************************************************************)
EXTENDS Integers, Sequences

CONSTANTS InitialBackoff, MaxBackoff, MaxAttempts,  \* the policy; 0 attempts: no limit
          ConnectTimeout,
          AutoDetect,        \* cfg_.auto_detect_via_state
          MaxReentries       \* bound: calls made from inside callbacks

ASSUME PolicyAssumption ==
    /\ InitialBackoff \in Nat \ {0} /\ MaxBackoff \in Nat /\ MaxBackoff >= InitialBackoff
    /\ MaxAttempts \in Nat /\ ConnectTimeout \in Nat /\ MaxReentries \in Nat
    /\ AutoDetect \in BOOLEAN

VARIABLES
    rstate,       \* state_
    stream,       \* stream_, by its own state; "none": null
    polled,       \* the caller's Poller holds the stream: attach ran, detach did not
    stopped,      \* stopped_
    attempts,     \* policy_.attempts_
    currentBase,  \* policy_.current_base_
    wait,         \* next_attempt_tsc_, as time left
    waited,       \* time since connect_start_tsc_
    todo,
    reentries,
    reachable,    \* external: a handshake started now would succeed
    tries,        \* history: factory calls since the last connection
    lastEvent     \* history: the last ReconnectEvent emitted

policy == <<attempts, currentBase>>
ROvars == <<rstate, stream, polled, stopped, policy, wait, waited, todo, reentries,
            reachable, tries, lastEvent>>

ReconnectStates == {"Idle", "Connecting", "Connected", "Backoff", "Failed"}
Quiet == todo = << >>
Capped(n, cap) == IF n > cap THEN cap ELSE n

\* apply_symmetric_jitter with factor 1/4.
JitterAround(d) == {x \in 0..(2 * d) : 4 * (x - d) <= d /\ 4 * (d - x) <= d}

ROInit ==
    /\ rstate = "Idle" /\ stream = "none" /\ polled = FALSE /\ stopped = FALSE
    /\ attempts = 0 /\ currentBase = InitialBackoff /\ wait = 0 /\ waited = 0
    /\ todo = << >> /\ reentries = 0
    /\ reachable \in BOOLEAN
    /\ tries = 0 /\ lastEvent = "none"

-----------------------------------------------------------------------------
(* The steps each call is made of. *)

\* Mutant: the stream is destroyed before the Poller has let go of it.
TearDownDropFirst == <<"on_disconnect", "reset", "detach", "AttemptFailed", "enter_backoff">>

MarkDisconnected == <<"detach", "on_disconnect", "reset", "DisconnectDetected", "enter_backoff">>
TearDown == <<"detach", "on_disconnect", "reset", "AttemptFailed", "enter_backoff">>
Attempt == <<"connecting", "AttemptStarted", "factory">>
Promote == <<"promote", "on_reconnect", "Connected", "policy_reset">>

Events == {"DisconnectDetected", "AttemptStarted", "AttemptFailed", "AttachFailed",
           "Connected", "BackoffScheduled", "Failed"}
Callbacks == {"on_disconnect", "on_reconnect"} \cup Events

CallStart ==
    /\ Quiet /\ rstate = "Idle"
    /\ todo' = Attempt
    /\ UNCHANGED <<rstate, stream, polled, stopped, policy, wait, waited, reentries,
                   reachable, tries, lastEvent>>

TimedOut == waited > ConnectTimeout

\* Mutant: a connecting stream that closed is left to the timeout it has passed.
TickWorkNotClosed ==
    CASE rstate = "Connecting" /\ stream = "Established" -> Promote
      [] rstate = "Connecting" /\ stream = "SynSent" /\ TimedOut -> TearDown
      [] rstate = "Connected" /\ AutoDetect /\ stream # "Established" -> MarkDisconnected
      [] rstate = "Backoff" /\ wait = 0 -> Attempt
      [] OTHER -> << >>

\* What one tick sets going.
TickWork ==
    CASE rstate = "Connecting" /\ stream = "Established" -> Promote
      [] rstate = "Connecting" /\ (stream = "Closed" \/ (stream = "SynSent" /\ TimedOut)) -> TearDown
      [] rstate = "Connected" /\ AutoDetect /\ stream # "Established" -> MarkDisconnected
      [] rstate = "Backoff" /\ wait = 0 -> Attempt
      [] OTHER -> << >>

CallTick ==
    /\ Quiet /\ ~stopped /\ TickWork # << >>
    /\ todo' = TickWork
    /\ UNCHANGED <<rstate, stream, polled, stopped, policy, wait, waited, reentries,
                   reachable, tries, lastEvent>>

MayDisconnect == ~stopped /\ rstate = "Connected"
CallMarkDisconnected ==
    /\ Quiet /\ MayDisconnect
    /\ todo' = MarkDisconnected
    /\ UNCHANGED <<rstate, stream, polled, stopped, policy, wait, waited, reentries,
                   reachable, tries, lastEvent>>

CallStop ==
    /\ Quiet /\ ~stopped
    /\ stopped' = TRUE
    /\ UNCHANGED <<rstate, stream, polled, policy, wait, waited, todo, reentries,
                   reachable, tries, lastEvent>>

-----------------------------------------------------------------------------
(* Carrying them out. *)

Doing(label) == ~Quiet /\ Head(todo) = label
Go(steps) == todo' = steps \o Tail(todo)
Done == Go(<< >>)

\* A callback returns, or calls stop() or mark_disconnected() first.  An event
\* callback has seen its event when it does.
Callback ==
    /\ ~Quiet /\ Head(todo) \in Callbacks
    /\ lastEvent' = IF Head(todo) \in Events THEN Head(todo) ELSE lastEvent
    /\ \/ /\ Done
          /\ UNCHANGED <<stopped, reentries>>
       \/ /\ reentries < MaxReentries /\ ~stopped
          /\ stopped' = TRUE /\ reentries' = reentries + 1
          /\ Done
       \/ /\ reentries < MaxReentries /\ MayDisconnect
          /\ reentries' = reentries + 1
          /\ Go(MarkDisconnected)
          /\ UNCHANGED stopped
    /\ UNCHANGED <<rstate, stream, polled, policy, wait, waited, reachable, tries>>

\* detach_ runs when there is a stream to detach.
Detach ==
    /\ Doing("detach")
    /\ polled' = (polled /\ stream = "none")
    /\ Done
    /\ UNCHANGED <<rstate, stream, stopped, policy, wait, waited, reentries,
                   reachable, tries, lastEvent>>

ResetStream ==
    /\ Doing("reset")
    /\ stream' = "none"
    /\ Done
    /\ UNCHANGED <<rstate, polled, stopped, policy, wait, waited, reentries,
                   reachable, tries, lastEvent>>

BeginAttempt ==
    /\ Doing("connecting")
    /\ rstate' = "Connecting"
    /\ Done
    /\ UNCHANGED <<stream, polled, stopped, policy, wait, waited, reentries,
                   reachable, tries, lastEvent>>

\* factory_ fails; or attach_ fails and the fresh stream is dropped; or the
\* stream is kept, its handshake still under way or, from a blocking factory,
\* done.
Factory ==
    /\ Doing("factory")
    /\ tries' = tries + 1
    /\ \/ /\ Go(<<"on_disconnect", "AttemptFailed", "enter_backoff">>)
          /\ UNCHANGED <<stream, polled, waited, rstate>>
       \/ /\ Go(<<"on_disconnect", "AttachFailed", "enter_backoff">>)
          /\ UNCHANGED <<stream, polled, waited, rstate>>
       \/ /\ polled' = TRUE /\ waited' = 0 /\ rstate' = "Connecting"
          /\ \/ stream' = "SynSent" /\ Done
             \/ reachable /\ stream' = "Established" /\ Go(Promote)
    /\ UNCHANGED <<stopped, policy, wait, reentries, reachable, lastEvent>>

PromoteToConnected ==
    /\ Doing("promote")
    /\ rstate' = "Connected" /\ tries' = 0
    /\ Done
    /\ UNCHANGED <<stream, polled, stopped, policy, wait, waited, reentries, reachable, lastEvent>>

NextBase == Capped(2 * currentBase, MaxBackoff)

Exhausted == MaxAttempts # 0 /\ attempts >= MaxAttempts

PolicyReset ==
    /\ Doing("policy_reset")
    /\ attempts' = 0 /\ currentBase' = InitialBackoff
    /\ Done
    /\ UNCHANGED <<rstate, stream, polled, stopped, wait, waited, reentries,
                   reachable, tries, lastEvent>>

\* next_delay: the budget, then the base doubled for next time and the jitter.
EnterBackoff ==
    /\ Doing("enter_backoff")
    /\ IF Exhausted
       THEN /\ rstate' = "Failed" /\ Go(<<"Failed">>)
            /\ UNCHANGED <<policy, wait>>
       ELSE /\ rstate' = "Backoff" /\ Go(<<"BackoffScheduled">>)
            /\ attempts' = Capped(attempts + 1, MaxAttempts + 1)
            /\ currentBase' = NextBase
            /\ wait' \in JitterAround(currentBase)
    /\ UNCHANGED <<stream, polled, stopped, waited, reentries, reachable, tries, lastEvent>>

-----------------------------------------------------------------------------
(* The world between two calls: time, the handshake, the peer. *)

TimePasses ==
    /\ Quiet
    /\ \/ rstate = "Backoff" /\ wait > 0
       \/ rstate = "Connecting" /\ stream = "SynSent" /\ ~TimedOut
    /\ wait' = IF rstate = "Backoff" THEN wait - 1 ELSE wait
    /\ waited' = IF rstate = "Connecting" THEN waited + 1 ELSE waited
    /\ UNCHANGED <<rstate, stream, polled, stopped, policy, todo, reentries,
                   reachable, tries, lastEvent>>

\* Poller::poll drives the stream: its handshake ends, or the peer goes.
HandshakeEnds ==
    /\ Quiet /\ stream = "SynSent" /\ reachable
    /\ stream' = "Established"
    /\ UNCHANGED <<rstate, polled, stopped, policy, wait, waited, todo, reentries,
                   reachable, tries, lastEvent>>

StreamCloses ==
    /\ Quiet /\ stream \in {"SynSent", "Established"} /\ ~reachable
    /\ stream' = "Closed"
    /\ UNCHANGED <<rstate, polled, stopped, policy, wait, waited, todo, reentries,
                   reachable, tries, lastEvent>>

NetworkChanges ==
    /\ Quiet
    /\ reachable' = ~reachable
    /\ UNCHANGED <<rstate, stream, polled, stopped, policy, wait, waited, todo, reentries,
                   tries, lastEvent>>

-----------------------------------------------------------------------------

ROStep ==
    \/ Callback \/ Detach \/ ResetStream \/ BeginAttempt \/ Factory
    \/ PromoteToConnected \/ PolicyReset \/ EnterBackoff

RONext ==
    \/ CallStart \/ CallTick \/ CallMarkDisconnected \/ CallStop
    \/ ROStep
    \/ TimePasses \/ HandshakeEnds \/ StreamCloses \/ NetworkChanges

\* The caller's loop calls poll and tick for ever; time passes.
ROFairness ==
    /\ WF_ROvars(ROStep) /\ WF_ROvars(CallTick) /\ WF_ROvars(TimePasses)
    /\ WF_ROvars(HandshakeEnds)

ROSpec == ROInit /\ [][RONext]_ROvars /\ ROFairness

-----------------------------------------------------------------------------
(* Properties *)

ROTypeOK ==
    /\ rstate \in ReconnectStates
    /\ stream \in {"none", "SynSent", "Established", "Closed"}
    /\ {polled, stopped, reachable} \subseteq BOOLEAN
    /\ attempts \in 0..(MaxAttempts + 1) /\ currentBase \in InitialBackoff..MaxBackoff
    /\ wait \in 0..(2 * MaxBackoff) /\ waited \in 0..(ConnectTimeout + 1)
    /\ reentries \in 0..MaxReentries

\* The caller's Poller never holds a stream that was destroyed: detach comes
\* before every reset, on every path and from inside every callback.
NoDanglingPoll == polled => stream # "none"

\* Between calls the state and the stream agree: a live or connecting
\* orchestrator has a stream in the Poller, a waiting or failed one has none.
StateMatchesStream ==
    Quiet => /\ rstate \in {"Connecting", "Connected"} <=> stream # "none"
             /\ polled <=> stream # "none"

\* The factory is called at most once per attempt of the budget and once for
\* start(), whatever fails and whoever disconnects in between.
BudgetHolds == MaxAttempts # 0 => tries <= MaxAttempts + 1

\* No retry storm: an attempt starts only from start() or when the delay of
\* the backoff before it has passed.
AttemptsAreSpaced == Doing("connecting") => wait = 0

\* Once stopped, with no call in progress, nothing is torn down or tried again
\* but by start().
StopIsFinal ==
    [][stopped /\ Quiet /\ rstate # "Idle" => UNCHANGED <<todo, rstate, polled, tries>>]_ROvars

\* A network that is up and stays up is used: the orchestrator connects,
\* unless it was stopped or its budget was spent before.
EventuallyConnects ==
    (<>[]reachable /\ <>(rstate # "Idle")) =>
        <>(rstate \in {"Connected", "Failed"} \/ stopped)

\* The event that says the stream is live is true when the call returns.
ConnectedEventTrue == Quiet /\ lastEvent = "Connected" => rstate = "Connected"

\* The orchestrator's state, its stream, the poller's list and the retry budget
\* agree between any two calls, whatever the callbacks did.
StreamAccounted ==
    /\ ROTypeOK /\ NoDanglingPoll /\ StateMatchesStream /\ BudgetHolds
    /\ AttemptsAreSpaced

\* A stopped orchestrator makes no further attempt, and one that is not stopped
\* reaches a server that can be reached.
StopsOrConnects ==
    /\ StopIsFinal /\ EventuallyConnects
=============================================================================
