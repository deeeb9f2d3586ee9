--------------------------- MODULE QueueAllocator ---------------------------
(* The daemon's queue-pair pool: eph::dpdk::detail::QueueAllocator.          *)
(* claim() grants the first contiguous run of free queues and stamps it with *)
(* a fresh generation; release() frees a range only while every queue of it  *)
(* still carries the generation the caller was granted.  Callers keep copies *)
(* of the ranges they were given and may hand any of them back, any number   *)
(* of times, in any order.                                                   *)
EXTENDS Integers, FiniteSets

CONSTANTS
    TotalQueues,   \* hdr->total_queues
    MaxClaims,     \* bound: successful claims (the 64-bit generation counter)
    MaxStale       \* bound: rejected releases (the 64-bit diagnostic counter)

ASSUME TotalQueuesAssumption == TotalQueues \in Nat \ {0}
ASSUME MaxClaimsAssumption   == MaxClaims \in Nat
ASSUME MaxStaleAssumption    == MaxStale \in Nat \ {0}

VARIABLES
    pool,      \* the shared Header: [claimed, claimGen, generation, stale]
    granted,   \* every QueueRange claim() has ever returned
    live       \* the granted ranges not handed back yet

allocVars == <<pool, granted, live>>

Queues == 0 .. TotalQueues - 1

Pools == [claimed : SUBSET Queues, claimGen : [Queues -> Nat],
          generation : Nat, stale : Nat]

QueueRanges == [lo : Nat, hi : Nat, gen : Nat]

QueuesOf(r) == r.lo .. r.hi - 1

(***************************************************************************)
(* The pool as init_header leaves it.                                      *)
(***************************************************************************)
FreshPool == [claimed    |-> {},
              claimGen   |-> [q \in Queues |-> 0],
              generation |-> 0,
              stale      |-> 0]

(***************************************************************************)
(* claim(count): the least start of a free run of count queues.            *)
(***************************************************************************)

\* The run accepted one free queue too early.
FreeRunAtShort(p, lo, count) ==
    /\ \A q \in lo .. lo + count - 1 : q \in Queues
    /\ \A q \in lo .. lo + count - 2 : q \notin p.claimed

FreeRunAt(p, lo, count) ==
    \A q \in lo .. lo + count - 1 : q \in Queues /\ q \notin p.claimed

CanClaim(p, count) ==
    /\ count >= 1
    /\ count <= TotalQueues
    /\ \E lo \in Queues : FreeRunAt(p, lo, count)

FirstFit(p, count) ==
    CHOOSE lo \in Queues : /\ FreeRunAt(p, lo, count)
                           /\ \A other \in Queues :
                                 FreeRunAt(p, other, count) => lo <= other

GrantOf(p, count) == [lo  |-> FirstFit(p, count),
                      hi  |-> FirstFit(p, count) + count,
                      gen |-> p.generation + 1]

AfterClaim(p, r) ==
    [p EXCEPT !.claimed    = @ \cup QueuesOf(r),
              !.claimGen   = [q \in Queues |->
                                 IF q \in QueuesOf(r) THEN r.gen ELSE @[q]],
              !.generation = r.gen]

(***************************************************************************)
(* release(range): the early returns, then the per-queue check.            *)
(***************************************************************************)
EmptyRange(r) == r.lo >= r.hi

Malformed(p, r) == r.hi > TotalQueues \/ r.gen > p.generation

\* The check the comment above release() still describes: bits only.
CurrentBitsOnly(p, r) == \A q \in QueuesOf(r) : q \in p.claimed

Current(p, r) ==
    \A q \in QueuesOf(r) : q \in p.claimed /\ p.claimGen[q] = r.gen

\* A release that forgets the last queue of the range.
AfterReleaseShort(p, r) ==
    IF EmptyRange(r) THEN p
    ELSE IF Malformed(p, r) \/ ~Current(p, r)
         THEN [p EXCEPT !.stale = @ + 1]
         ELSE [p EXCEPT !.claimed = @ \ (r.lo .. r.hi - 2)]

AfterRelease(p, r) ==
    IF EmptyRange(r) THEN p
    ELSE IF Malformed(p, r) \/ ~Current(p, r)
         THEN [p EXCEPT !.stale = @ + 1]
         ELSE [p EXCEPT !.claimed = @ \ QueuesOf(r)]

-----------------------------------------------------------------------------

AllocInit == /\ pool = FreshPool
             /\ granted = {}
             /\ live = {}

Claim(count) ==
    /\ pool.generation < MaxClaims
    /\ CanClaim(pool, count)
    /\ LET r == GrantOf(pool, count)
       IN /\ pool' = AfterClaim(pool, r)
          /\ granted' = granted \cup {r}
          /\ live' = live \cup {r}

\* A caller hands back a range it was granted, or one no claim ever returned.
Release(r) ==
    /\ pool.stale < MaxStale
    /\ r \in granted \/ EmptyRange(r) \/ Malformed(pool, r)
    /\ pool' = AfterRelease(pool, r)
    /\ live' = live \ {r}
    /\ UNCHANGED granted

AnyRange == [lo : 0 .. TotalQueues, hi : 0 .. TotalQueues + 1,
             gen : 0 .. MaxClaims + 1]

AllocNext == \/ \E count \in 0 .. TotalQueues + 1 : Claim(count)
             \/ \E r \in AnyRange : Release(r)

AllocSpec == AllocInit /\ [][AllocNext]_allocVars

-----------------------------------------------------------------------------

(* Type invariant: the bitmap names queues of the pool, the stamps and the   *)
(* counters are naturals, and callers only hold well formed ranges.          *)
AllocTypeOK == /\ pool \in Pools
               /\ granted \subseteq QueueRanges
               /\ live \subseteq granted
               /\ \A r \in granted : r.lo < r.hi /\ r.hi <= TotalQueues

(* claim()/release(): two grants nobody has handed back never share a queue, *)
(* whatever stale or repeated releases arrived in between (the ABA case the  *)
(* claim_gen comment describes).                                             *)
LiveGrantsDisjoint ==
    \A r, s \in live : r # s => QueuesOf(r) \cap QueuesOf(s) = {}

(* The bitmap is exactly the queues of the grants not handed back: a live    *)
(* grant is never freed by someone else's release, and a returned range is   *)
(* never kept.                                                               *)
BitmapIsLiveGrants ==
    \A q \in Queues : q \in pool.claimed <=> \E r \in live : q \in QueuesOf(r)

(* The generation stamped on a queue names the grant that holds it, and no   *)
(* two grants of one allocator ever carry the same generation.               *)
GenerationNamesGrant ==
    /\ \A r \in live : \A q \in QueuesOf(r) : pool.claimGen[q] = r.gen
    /\ \A r \in granted : r.gen >= 1 /\ r.gen <= pool.generation
    /\ \A r, s \in granted : r.gen = s.gen => r = s

AllocInv == /\ AllocTypeOK
            /\ LiveGrantsDisjoint
            /\ BitmapIsLiveGrants
            /\ GenerationNamesGrant
=============================================================================
