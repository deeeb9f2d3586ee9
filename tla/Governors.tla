----------------------------- MODULE Governors -----------------------------
(***************************************************************************)
(* eph-utils: what holds a sender back.  TokenBucket (weights against a    *)
(* refilled budget, under one mutex), KillSwitch (a latch any thread may   *)
(* trip, whose callback runs once) and retry (a call repeated on a         *)
(* ConstantBackoff).                                                       *)
(***************************************************************************)
EXTENDS Integers, FiniteSetsExt

CONSTANTS BucketCapacity, RefillRate,  \* tokens, and tokens per unit of time
          MaxClock,                    \* bound: units of time
          Trippers,                    \* threads that may trip the switch
          RetryBudget                  \* ConstantBackoff's max_attempts

ASSUME GovernorAssumption ==
    /\ BucketCapacity \in Nat \ {0} /\ RefillRate \in Nat /\ MaxClock \in Nat
    /\ RetryBudget \in Nat \ {0}

VARIABLES
    tokens, lastRefill, blockedUntil,  \* TokenBucket
    clock,
    granted,      \* history: tokens handed out up to each time
    penalties,    \* history: [begin, end) of every penalty
    tripped, trip_pc,                  \* KillSwitch, and each thread's place in trip()
    fired,        \* history: calls of on_trip_
    retry_pc, backoff_used,            \* retry(), and its backoff's attempts_
    fnCalls       \* history: calls of fn

bucket == <<tokens, lastRefill, blockedUntil, clock, granted, penalties>>
killswitch == <<tripped, trip_pc, fired>>
retrying == <<retry_pc, backoff_used, fnCalls>>
GOvars == <<bucket, killswitch, retrying>>

GOInit ==
    /\ tokens = BucketCapacity /\ lastRefill = 0 /\ blockedUntil = 0 /\ clock = 0
    /\ granted = [t \in 0..MaxClock |-> 0] /\ penalties = {}
    /\ tripped = FALSE /\ trip_pc = [th \in Trippers |-> "idle"] /\ fired = 0
    /\ retry_pc = "calling" /\ backoff_used = 0 /\ fnCalls = 0

-----------------------------------------------------------------------------
(* TokenBucket.  Each call is one step: the clock is read under the lock.  *)

\* Mutant: the bucket fills past its capacity.
RefilledUncapped == tokens + (clock - lastRefill) * RefillRate
Refilled == Min({BucketCapacity, tokens + (clock - lastRefill) * RefillRate})

\* The history with a grant of the weight at the time.
GrantAt(now, weight) ==
    [t \in 0..MaxClock |-> IF t >= now THEN granted[t] + weight ELSE granted[t]]

PenaltyEnd(d) == Max({blockedUntil, clock + d})

\* weight 0 and weights over the capacity are decided without the lock and
\* change nothing.
try_acquire(weight) ==
    /\ weight \in 1..BucketCapacity
    /\ clock >= blockedUntil
    /\ lastRefill' = clock
    /\ IF Refilled >= weight
       THEN tokens' = Refilled - weight /\ granted' = GrantAt(clock, weight)
       ELSE tokens' = Refilled /\ UNCHANGED granted
    /\ UNCHANGED <<blockedUntil, clock, penalties, killswitch, retrying>>

penalize_for(d) ==
    /\ d > 0 /\ clock + d <= MaxClock
    /\ tokens' = 0
    /\ blockedUntil' = PenaltyEnd(d)
    /\ penalties' = penalties \cup {<<clock, clock + d>>}
    /\ UNCHANGED <<lastRefill, clock, granted, killswitch, retrying>>

ClockAdvances ==
    /\ clock < MaxClock
    /\ clock' = clock + 1
    /\ UNCHANGED <<tokens, lastRefill, blockedUntil, granted, penalties, killswitch, retrying>>

BucketNext ==
    \/ \E w \in 1..BucketCapacity : try_acquire(w)
    \/ \E d \in 1..MaxClock : penalize_for(d)
    \/ ClockAdvances

-----------------------------------------------------------------------------
(* KillSwitch::trip: a load, a compare-and-swap, the callback. *)

TripLoad(th) ==
    /\ trip_pc[th] = "idle"
    /\ trip_pc' = [trip_pc EXCEPT ![th] = IF tripped THEN "returned" ELSE "cas"]
    /\ UNCHANGED <<tripped, fired>>

TripExchange(th) ==
    /\ trip_pc[th] = "cas"
    /\ tripped' = TRUE
    /\ trip_pc' = [trip_pc EXCEPT ![th] = IF tripped THEN "returned" ELSE "callback"]
    /\ UNCHANGED fired

TripCallback(th) ==
    /\ trip_pc[th] = "callback"
    /\ fired' = fired + 1
    /\ trip_pc' = [trip_pc EXCEPT ![th] = "returned"]
    /\ UNCHANGED tripped

TripAgain(th) ==
    /\ trip_pc[th] = "returned"
    /\ trip_pc' = [trip_pc EXCEPT ![th] = "idle"]
    /\ UNCHANGED <<tripped, fired>>

KillNext ==
    /\ \E th \in Trippers : TripLoad(th) \/ TripExchange(th) \/ TripCallback(th) \/ TripAgain(th)
    /\ UNCHANGED <<bucket, retrying>>

-----------------------------------------------------------------------------
(* retry: fn() until it succeeds, refuses for good, or the backoff ends. *)

NextDelay == backoff_used < RetryBudget

RetryCall ==
    /\ retry_pc = "calling"
    /\ fnCalls' = fnCalls + 1
    /\ retry_pc' \in {"succeeded", "gave_up", "failed"}
    /\ UNCHANGED backoff_used

RetryBackoff ==
    /\ retry_pc = "failed"
    /\ IF NextDelay THEN backoff_used' = backoff_used + 1 /\ retry_pc' = "calling"
       ELSE retry_pc' = "gave_up" /\ UNCHANGED backoff_used
    /\ UNCHANGED fnCalls

RetryNext == (RetryCall \/ RetryBackoff) /\ UNCHANGED <<bucket, killswitch>>

GONext == BucketNext \/ KillNext \/ RetryNext
GOSpec == GOInit /\ [][GONext]_GOvars

-----------------------------------------------------------------------------
(* Properties *)

GOTypeOK ==
    /\ tokens \in 0..BucketCapacity /\ clock \in 0..MaxClock
    /\ lastRefill \in 0..clock /\ blockedUntil \in 0..MaxClock
    /\ fired \in Nat /\ fnCalls \in Nat

GrantedIn(a, b) == granted[b] - (IF a = 0 THEN 0 ELSE granted[a - 1])

\* The rate holds over every window: what was granted between two times never
\* exceeds one burst and the refill between them.
RateHolds ==
    \A a \in 0..clock : \A b \in a..clock :
        GrantedIn(a, b) <= BucketCapacity + RefillRate * (b - a)

\* Nothing is granted inside any penalty, though a shorter one came later.
PenaltiesHold ==
    \A p \in penalties : \A t \in (p[1] + 1)..(p[2] - 1) : GrantedIn(t, t) = 0

\* The kill switch's callback runs at most once, and whoever finds the switch
\* tripped finds it so for ever.
TripsOnce == fired <= 1 /\ (fired = 1 => tripped)

\* retry calls fn once, and once more for every attempt of its budget.
RetryBounded == fnCalls <= RetryBudget + 1

\* penalize_for drains the bucket: what is granted after a penalty was
\* refilled after it began.
PenaltyDrains ==
    \A p \in penalties : \A b \in p[2]..clock :
        GrantedIn(p[1] + 1, b) <= RefillRate * (b - p[1])

\* The limits hold: requests over any window, penalties to their end, one trip,
\* and the retry loop's count and delays.
GovernorsHold ==
    /\ GOTypeOK /\ RateHolds /\ PenaltiesHold /\ TripsOnce /\ RetryBounded
=============================================================================
