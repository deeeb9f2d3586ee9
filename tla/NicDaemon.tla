------------------------------ MODULE NicDaemon ------------------------------
(* The NIC daemon (Platform::serve_nic, eph-nicd), its tenants               *)
(* (Platform::create) and the IPC between them.  A tenant asks for queues    *)
(* with a synchronous request that may time out; the daemon's message thread *)
(* takes one message at a time from its socket, claims or releases queues,   *)
(* rewrites the NIC's redirection table and answers.  Tenants leave by a     *)
(* fire-and-forget release, or die without one.                              *)
EXTENDS QueueAllocator, Sequences

CONSTANTS
    Tenants,      \* tenant processes
    Counts,       \* the values of cfg.queues tenants ask for
    RetaSize,     \* buckets of the redirection table
    MaxCreates,   \* bound: calls of Platform::create per tenant
    MaxRestarts   \* bound: daemon restarts (NextAcrossRestarts only)

ASSUME CountsAssumption   == Counts \subseteq Nat \ {0}
ASSUME RetaSizeAssumption == RetaSize \in Nat \ {0}
ASSUME BoundsAssumption   == MaxCreates \in Nat /\ MaxRestarts \in Nat

VARIABLES
    inbox,        \* datagrams queued at the daemon's socket
    rollback,     \* the range on_queue_claim_thunk is about to roll back
    reta,         \* the NIC's redirection table
    state,        \* state[t]: where tenant t is in Platform::create / ~Impl
    range,        \* range[t]: granted / owned_queues_range
    reply,        \* reply[t]: answers queued at the tenant's socket
    attempt,      \* attempt[t]: which socket (which call of create) t is on
    orphans,      \* ranges whose holder crashed
    incarnation,  \* restarts of the daemon so far
    origin        \* origin[t]: the incarnation that last answered t

tenantVars == <<state, range, reply, attempt, orphans, origin>>
NDvars == <<allocVars, inbox, rollback, reta, tenantVars, incarnation>>

NoRange == [lo |-> 0, hi |-> 0, gen |-> 0]

\* The zeroed reply with ok = 0.
Refused == NoRange

ClaimMsg(t, n) == [kind |-> "claim", from |-> t, attempt |-> attempt[t], count |-> n]

ReleaseMsg(r) == [kind |-> "release", range |-> r]

Buckets == 0 .. RetaSize - 1

(***************************************************************************)
(* refresh_reta_for_claimed_: the claimed queues in ascending order,       *)
(* round-robin over the buckets; queue 0 when nothing is claimed.          *)
(***************************************************************************)
Rank(S, q) == Cardinality({x \in S : x < q})

RoundRobin(S) ==
    [b \in Buckets |-> IF S = {} THEN 0
                       ELSE CHOOSE q \in S : Rank(S, q) = b % Cardinality(S)]

Refresh == reta' = RoundRobin(pool'.claimed)

-----------------------------------------------------------------------------

NDInit == /\ AllocInit
          /\ inbox = <<>>
          /\ rollback = NoRange
          /\ reta = RoundRobin({})
          /\ state = [t \in Tenants |-> "off"]
          /\ range = [t \in Tenants |-> NoRange]
          /\ reply = [t \in Tenants |-> {}]
          /\ attempt = [t \in Tenants |-> 0]
          /\ orphans = {}
          /\ incarnation = 0
          /\ origin = [t \in Tenants |-> 0]

Post(m) == inbox' = Append(inbox, m)

\* mp_ipc_send_oneway: the datagram is queued, or dropped (socket full).
Send(m) == Post(m) \/ UNCHANGED inbox

SameDaemon == UNCHANGED <<allocVars, rollback, reta, incarnation>>

\* t has been told of its range and has not given it back.
Holding(t) == state[t] \in {"bringup", "up"}

\* Platform::create up to the request: a new socket, the claim request queued.
Create(t, n) ==
    /\ state[t] = "off" /\ attempt[t] < MaxCreates
    /\ state' = [state EXCEPT ![t] = "waiting"]
    /\ attempt' = [attempt EXCEPT ![t] = @ + 1]
    /\ inbox' = Append(inbox, [ClaimMsg(t, n) EXCEPT !.attempt = @ + 1])
    /\ UNCHANGED <<range, reply, orphans, origin>>
    /\ SameDaemon

\* rte_mp_request_sync gives up after two seconds; create cleans up the EAL
\* and returns an error.  Whatever was queued at its socket is gone.
Timeout(t) ==
    /\ state[t] = "waiting"
    /\ state' = [state EXCEPT ![t] = "off"]
    /\ reply' = [reply EXCEPT ![t] = {}]
    /\ UNCHANGED <<range, attempt, inbox, orphans, origin>>
    /\ SameDaemon

\* The request returns: create goes on to secondary_bringup_, or reports that
\* the daemon rejected the claim.
TakeReply(t) ==
    /\ state[t] = "waiting"
    /\ \E r \in reply[t] :
          /\ state' = [state EXCEPT ![t] = IF r = Refused THEN "off" ELSE "bringup"]
          /\ range' = [range EXCEPT ![t] = r]
    /\ reply' = [reply EXCEPT ![t] = {}]
    /\ UNCHANGED <<attempt, inbox, orphans, origin>>
    /\ SameDaemon

BringupDone(t) ==
    /\ state[t] = "bringup"
    /\ state' = [state EXCEPT ![t] = "up"]
    /\ UNCHANGED <<range, reply, attempt, inbox, orphans, origin>>
    /\ SameDaemon

\* secondary_bringup_ fails, or the Platform is destroyed: both send the
\* release and forget the range.
GiveBack(t) ==
    /\ Holding(t)
    /\ Send(ReleaseMsg(range[t]))
    /\ state' = [state EXCEPT ![t] = "off"]
    /\ range' = [range EXCEPT ![t] = NoRange]
    /\ UNCHANGED <<reply, attempt, orphans, origin>>
    /\ SameDaemon

\* SEGV, OOM, kill -9: no destructor runs.
Crash(t) ==
    /\ state[t] # "off"
    /\ orphans' = IF state[t] = "waiting" THEN orphans ELSE orphans \cup {range[t]}
    /\ state' = [state EXCEPT ![t] = "off"]
    /\ range' = [range EXCEPT ![t] = NoRange]
    /\ reply' = [reply EXCEPT ![t] = {}]
    /\ UNCHANGED <<attempt, inbox, origin>>
    /\ SameDaemon

-----------------------------------------------------------------------------

TakeMessage(kind) ==
    /\ rollback = NoRange
    /\ inbox # <<>> /\ Head(inbox).kind = kind
    /\ inbox' = Tail(inbox)

\* rte_mp_reply: it reaches the requester while that call of create is still
\* waiting; later it either fails (the socket is gone) or is swallowed.
Deliver(m, r) ==
    /\ state[m.from] = "waiting" /\ attempt[m.from] = m.attempt
    /\ reply' = [reply EXCEPT ![m.from] = @ \cup {r}]
    /\ origin' = [origin EXCEPT ![m.from] = incarnation]

Swallowed(m) ==
    /\ state[m.from] # "waiting" \/ attempt[m.from] # m.attempt
    /\ UNCHANGED <<reply, origin>>

\* on_queue_claim_thunk, the pool has no run: an error reply, its own failure
\* ignored.
RefuseClaim ==
    /\ TakeMessage("claim")
    /\ ~CanClaim(pool, Head(inbox).count)
    /\ Deliver(Head(inbox), Refused) \/ UNCHANGED <<reply, origin>>
    /\ UNCHANGED <<allocVars, rollback, reta, incarnation,
                   state, range, attempt, orphans>>

\* on_queue_claim_thunk, granted: claim, refresh the table, answer; when the
\* answer cannot be sent the range is rolled back next.
GrantClaim ==
    /\ TakeMessage("claim")
    /\ Claim(Head(inbox).count)
    /\ Refresh
    /\ LET r == GrantOf(pool, Head(inbox).count)
       IN \/ /\ Deliver(Head(inbox), r) \/ Swallowed(Head(inbox))
             /\ UNCHANGED rollback
          \/ /\ rollback' = r
             /\ UNCHANGED <<reply, origin>>
    /\ UNCHANGED <<state, range, attempt, orphans, incarnation>>

\* A rollback that also takes the generation counter back.
RollBackCounter ==
    /\ rollback # NoRange
    /\ pool' = [AfterRelease(pool, rollback) EXCEPT !.generation = @ - 1]
    /\ live' = live \ {rollback}
    /\ Refresh
    /\ rollback' = NoRange
    /\ UNCHANGED <<granted, inbox, tenantVars, incarnation>>

\* The tail of on_queue_claim_thunk after a failed reply.
RollBack ==
    /\ rollback # NoRange
    /\ Release(rollback)
    /\ Refresh
    /\ rollback' = NoRange
    /\ UNCHANGED <<inbox, tenantVars, incarnation>>

\* on_queue_release_thunk.
HandleRelease ==
    /\ TakeMessage("release")
    /\ pool' = AfterRelease(pool, Head(inbox).range)
    /\ live' = live \ {Head(inbox).range}
    /\ Refresh
    /\ UNCHANGED <<granted, rollback, tenantVars, incarnation>>

TenantStep == \E t \in Tenants :
    \/ \E n \in Counts : Create(t, n)
    \/ Timeout(t)
    \/ TakeReply(t)
    \/ BringupDone(t)
    \/ GiveBack(t)
    \/ Crash(t)

DaemonStep == RefuseClaim \/ GrantClaim \/ RollBack \/ HandleRelease

NDNext == TenantStep \/ DaemonStep

NDSpec == NDInit /\ [][NDNext]_NDvars

\* The daemon dies and systemd revives it: the socket's queue is lost and
\* create_primary resets the header, the generation included.  Tenants live on.
Restart ==
    /\ incarnation < MaxRestarts
    /\ incarnation' = incarnation + 1
    /\ pool' = FreshPool
    /\ granted' = {} /\ live' = {}
    /\ inbox' = <<>>
    /\ rollback' = NoRange
    /\ reta' = RoundRobin({})
    /\ UNCHANGED tenantVars

NextAcrossRestarts == NDNext \/ Restart

RestartSpec == NDInit /\ [][NextAcrossRestarts]_NDvars

\* The daemon's message thread runs, and create's request and bring-up end.
NDFairness ==
    /\ WF_NDvars(DaemonStep)
    /\ \A t \in Tenants : WF_NDvars(Timeout(t)) /\ WF_NDvars(BringupDone(t))

-----------------------------------------------------------------------------

(* Type invariant of the composition.                                        *)
NDTypeOK == /\ AllocTypeOK
            /\ rollback \in QueueRanges
            /\ reta \in [Buckets -> Queues]
            /\ state \in [Tenants -> {"off", "waiting", "bringup", "up"}]
            /\ range \in [Tenants -> QueueRanges]
            /\ \A t \in Tenants : reply[t] \subseteq granted \cup {Refused}
            /\ attempt \in [Tenants -> 0 .. MaxCreates]
            /\ orphans \subseteq QueueRanges
            /\ incarnation \in 0 .. MaxRestarts
            /\ origin \in [Tenants -> 0 .. MaxRestarts]

(* Platform::create / on_queue_claim_thunk: two tenants never hold the same  *)
(* receive queue, whatever requests time out, replies come late, sends fail  *)
(* or tenants crash.                                                         *)
ExclusiveQueues ==
    \A t, u \in Tenants :
        t # u /\ Holding(t) /\ Holding(u)
            => QueuesOf(range[t]) \cap QueuesOf(range[u]) = {}

(* on_queue_release_thunk: within one life of the daemon every release that  *)
(* arrives is of a range still granted, so release() never rejects one.      *)
NoReleaseRejected == pool.stale = 0

(* refresh_reta_for_claimed_: the NIC spreads its traffic over exactly the   *)
(* claimed queues, as evenly as the table allows; with none claimed it all   *)
(* goes to queue 0.                                                          *)
TableFollowsPool ==
    LET S       == pool.claimed
        Load(q) == Cardinality({b \in Buckets : reta[b] = q})
    IN /\ S = {} => \A b \in Buckets : reta[b] = 0
       /\ S # {} => /\ \A b \in Buckets : reta[b] \in S
                    /\ \A p, q \in S : Load(p) - Load(q) \in {-1, 0, 1}

(* The daemon drives the allocator only through claim() and release() of     *)
(* ranges it granted: the composition implements QueueAllocator.             *)
ImplementsAllocator == AllocSpec

GrantRanges == {r \in AnyRange : r.lo < r.hi /\ r.hi <= TotalQueues /\ r.gen \in 1 .. MaxClaims}

Freed(r) == \A q \in QueuesOf(r) : q \notin pool.claimed \/ pool.claimGen[q] # r.gen

(* ~Impl: a release that reached the daemon's socket is eventually processed *)
(* and its queues go back to the pool.                                       *)
QueuedReleaseFrees ==
    \A r \in GrantRanges :
        (\E i \in DOMAIN inbox : inbox[i] = ReleaseMsg(r)) ~> Freed(r)

(* The deployment guide: a tenant that dies gives its queues back.           *)
CrashReleasesQueues == \A r \in GrantRanges : (r \in orphans) ~> Freed(r)

(* queue_allocator.hpp: a stale release from a previous incarnation cannot   *)
(* free a queue that has been claimed by a different tenant.                 *)
CurrentGrantsStand ==
    \A t \in Tenants :
        Holding(t) /\ origin[t] = incarnation => QueuesOf(range[t]) \subseteq pool.claimed

\* What a tenant may count on: its queues are its own, its release is taken,
\* and the redirection table sends packets to held queues only.
TenantsIsolated ==
    /\ NDTypeOK /\ ExclusiveQueues /\ NoReleaseRejected /\ TableFollowsPool
=============================================================================
