-------------------------- MODULE NicDaemonProofs --------------------------
(* Proofs that the queue pool of the NIC daemon keeps its grants apart, for  *)
(* every pool size and every sequence of claims and releases; and that the   *)
(* daemon and its tenants keep theirs, for any number of tenants. The second *)
(* half is about the user-space TCP of a tenant (UserTcp): for every         *)
(* sequence space and any loss, repetition and reordering, what it delivers  *)
(* is the peer's stream, and what it calls acknowledged was received.        *)
EXTENDS NicDaemon, UserTcp, WrapArithmetic, FiniteSetTheorems, SequenceTheorems

USE TotalQueuesAssumption, MaxClaimsAssumption, MaxStaleAssumption

(* Every nonempty set of queue numbers has a least member: the order on the  *)
(* naturals is well founded.                                                 *)
LEMMA LeastQueue ==
    ASSUME NEW S, S \subseteq Queues, S # {}
    PROVE  \E lo \in S : \A other \in S : lo <= other
  <1>1. IsWellFoundedOn(OpToRel(<, Nat), Nat)
    BY NatLessThanWellFounded
  <1>2. S \subseteq Nat
    BY DEF Queues
  <1>3. PICK x \in S : \A y \in S : ~(<<y, x>> \in OpToRel(<, Nat))
    BY <1>1, <1>2, WFMin, Zenon
  <1>4. \A y \in S : ~(y < x)
    BY <1>2, <1>3 DEF OpToRel
  <1>. QED  BY <1>2, <1>4

(* claim(): when some run of count queues is free, FirstFit is the start of  *)
(* one.                                                                      *)
LEMMA FirstFitIsFree ==
    ASSUME NEW p, NEW count, CanClaim(p, count)
    PROVE  /\ FirstFit(p, count) \in Queues
           /\ FreeRunAt(p, FirstFit(p, count), count)
  <1>. DEFINE S == {lo \in Queues : FreeRunAt(p, lo, count)}
  <1>1. S \subseteq Queues /\ S # {}
    BY DEF CanClaim
  <1>. HIDE DEF S
  <1>2. \E lo \in S : \A other \in S : lo <= other
    BY <1>1, LeastQueue
  <1>3. \E lo \in Queues : /\ FreeRunAt(p, lo, count)
                           /\ \A other \in Queues :
                                 FreeRunAt(p, other, count) => lo <= other
    BY <1>2 DEF S
  <1>. QED  BY <1>3, Zenon DEF FirstFit

(* claim(): the granted range is a nonempty range of free queues of the pool *)
(* under a generation no earlier grant carries.                              *)
LEMMA GrantIsFree ==
    ASSUME NEW p, p \in Pools, NEW count \in Nat, CanClaim(p, count)
    PROVE  LET r == GrantOf(p, count)
           IN /\ r \in QueueRanges
              /\ r.lo < r.hi /\ r.hi <= TotalQueues
              /\ r.gen = p.generation + 1
              /\ QueuesOf(r) \subseteq Queues
              /\ \A q \in QueuesOf(r) : q \notin p.claimed
  <1>. DEFINE lo == FirstFit(p, count)
  <1>1. lo \in Queues /\ FreeRunAt(p, lo, count)
    BY FirstFitIsFree
  <1>2. count >= 1 /\ p.generation \in Nat
    BY DEF CanClaim, Pools
  <1>. HIDE DEF lo
  <1>3. lo \in Nat /\ \A q \in lo .. lo + count - 1 : q \in Queues /\ q \notin p.claimed
    BY <1>1 DEF FreeRunAt, Queues
  <1>4. lo + count - 1 \in Queues
    BY <1>2, <1>3
  <1>5. lo + count <= TotalQueues
    BY <1>2, <1>3, <1>4 DEF Queues
  <1>6. GrantOf(p, count) = [lo |-> lo, hi |-> lo + count, gen |-> p.generation + 1]
    BY DEF GrantOf, lo
  <1>. QED  BY <1>2, <1>3, <1>5, <1>6 DEF QueueRanges, QueuesOf

(* release(): a range that passes the per-queue check is a grant nobody has  *)
(* handed back, so a stale release frees nothing.                            *)
LEMMA CurrentIsLive ==
    ASSUME AllocInv, NEW r \in granted, Current(pool, r)
    PROVE  r \in live
  <1>1. r.lo \in Nat /\ r.hi \in Nat /\ r.lo < r.hi /\ r.hi <= TotalQueues
    BY DEF AllocInv, AllocTypeOK, QueueRanges
  <1>2. r.lo \in QueuesOf(r) /\ r.lo \in Queues
    BY <1>1 DEF QueuesOf, Queues
  <1>3. r.lo \in pool.claimed /\ pool.claimGen[r.lo] = r.gen
    BY <1>2 DEF Current
  <1>4. PICK s \in live : r.lo \in QueuesOf(s)
    BY <1>2, <1>3 DEF AllocInv, BitmapIsLiveGrants
  <1>5. s.gen = r.gen /\ s \in granted
    BY <1>3, <1>4 DEF AllocInv, GenerationNamesGrant, AllocTypeOK
  <1>. QED  BY <1>4, <1>5 DEF AllocInv, GenerationNamesGrant

(* Init: an empty pool with no grants.                                       *)
LEMMA AllocInitInv ==
    AllocInit => AllocInv
  BY DEF AllocInit, AllocInv, AllocTypeOK, LiveGrantsDisjoint,
         BitmapIsLiveGrants, GenerationNamesGrant, FreshPool, Pools

(* claim() preserves the invariant: the new grant takes free queues only and *)
(* carries a new generation.                                                 *)
LEMMA ClaimInv ==
    ASSUME AllocInv, NEW count \in Nat, Claim(count)
    PROVE  AllocInv'
  <1>. DEFINE r == GrantOf(pool, count)
  <1>1. pool \in Pools /\ CanClaim(pool, count)
    BY DEF AllocInv, AllocTypeOK, Claim
  <1>2. /\ r \in QueueRanges
        /\ r.lo < r.hi /\ r.hi <= TotalQueues
        /\ r.gen = pool.generation + 1
        /\ QueuesOf(r) \subseteq Queues
        /\ \A q \in QueuesOf(r) : q \notin pool.claimed
    BY <1>1, GrantIsFree
  <1>3. /\ pool' = AfterClaim(pool, r)
        /\ granted' = granted \cup {r}
        /\ live' = live \cup {r}
    BY DEF Claim
  <1>. HIDE DEF r
  <1>4. /\ pool'.claimed = pool.claimed \cup QueuesOf(r)
        /\ pool'.generation = r.gen
        /\ pool'.stale = pool.stale
        /\ \A q \in Queues : pool'.claimGen[q] =
                IF q \in QueuesOf(r) THEN r.gen ELSE pool.claimGen[q]
        /\ pool' \in Pools
    BY <1>1, <1>2, <1>3 DEF AfterClaim, Pools, QueueRanges
  <1>5. AllocTypeOK'
    BY <1>2, <1>3, <1>4 DEF AllocInv, AllocTypeOK
  <1>6. \A s \in live : QueuesOf(s) \subseteq pool.claimed
    <2>1. \A s \in live : QueuesOf(s) \subseteq Queues
      BY DEF AllocInv, AllocTypeOK, QueueRanges, QueuesOf, Queues
    <2>. QED  BY <2>1 DEF AllocInv, BitmapIsLiveGrants
  <1>7. \A s \in live : QueuesOf(s) \cap QueuesOf(r) = {}
    BY <1>2, <1>6
  <1>8. LiveGrantsDisjoint'
    <2>. SUFFICES ASSUME NEW a \in live', NEW b \in live', a # b
                  PROVE  QueuesOf(a) \cap QueuesOf(b) = {}
      BY DEF LiveGrantsDisjoint
    <2>1. CASE a \in live /\ b \in live
      BY <2>1 DEF AllocInv, LiveGrantsDisjoint
    <2>2. CASE a = r /\ b \in live
      BY <2>2, <1>7
    <2>3. CASE a \in live /\ b = r
      BY <2>3, <1>7
    <2>. QED  BY <2>1, <2>2, <2>3, <1>3
  <1>9. BitmapIsLiveGrants'
    BY <1>3, <1>4 DEF AllocInv, BitmapIsLiveGrants
  <1>10. GenerationNamesGrant'
    <2>1. \A s \in live' : \A q \in QueuesOf(s) : pool'.claimGen[q] = s.gen
      <3>. SUFFICES ASSUME NEW s \in live', NEW q \in QueuesOf(s)
                    PROVE  pool'.claimGen[q] = s.gen
        OBVIOUS
      <3>1. CASE s = r
        BY <3>1, <1>2, <1>4
      <3>2. CASE s \in live
        <4>1. q \in pool.claimed /\ q \in Queues /\ q \notin QueuesOf(r)
          BY <3>2, <1>6, <1>7, <1>1 DEF Pools
        <4>. QED  BY <4>1, <3>2, <1>4 DEF AllocInv, GenerationNamesGrant
      <3>. QED  BY <3>1, <3>2, <1>3
    <2>2. \A s \in granted : s.gen >= 1 /\ s.gen <= pool.generation /\ s.gen \in Nat
      BY DEF AllocInv, AllocTypeOK, GenerationNamesGrant, QueueRanges
    <2>3. pool.generation \in Nat
      BY <1>1 DEF Pools
    <2>4. \A s \in granted' : s.gen >= 1 /\ s.gen <= pool'.generation
      BY <2>2, <2>3, <1>2, <1>3, <1>4
    <2>5. \A s \in granted : s.gen # r.gen
      BY <2>2, <2>3, <1>2
    <2>6. \A a, b \in granted' : a.gen = b.gen => a = b
      BY <2>5, <1>3 DEF AllocInv, GenerationNamesGrant
    <2>. QED  BY <2>1, <2>4, <2>6 DEF GenerationNamesGrant
  <1>. QED  BY <1>5, <1>8, <1>9, <1>10 DEF AllocInv

(* release() preserves the invariant: an accepted range is a live grant, and *)
(* a rejected one only moves the diagnostic counter.                         *)
LEMMA ReleaseInv ==
    ASSUME AllocInv, NEW r, Release(r)
    PROVE  AllocInv'
  <1>1. /\ pool \in Pools
        /\ pool' = AfterRelease(pool, r)
        /\ live' = live \ {r}
        /\ granted' = granted
    BY DEF AllocInv, AllocTypeOK, Release
  <1>2. r \in granted => ~EmptyRange(r) /\ ~Malformed(pool, r)
    BY <1>1 DEF AllocInv, AllocTypeOK, GenerationNamesGrant, EmptyRange,
                Malformed, QueueRanges, Pools
  <1>3. CASE r \in live
    <2>1. r \in granted /\ Current(pool, r)
      <3>1. r \in granted /\ \A q \in QueuesOf(r) : q \in Queues
        BY <1>3 DEF AllocInv, AllocTypeOK, QueueRanges, QueuesOf, Queues
      <3>. QED  BY <3>1, <1>3 DEF Current, AllocInv, BitmapIsLiveGrants,
                                  GenerationNamesGrant
    <2>2. pool' = [pool EXCEPT !.claimed = @ \ QueuesOf(r)]
      BY <2>1, <1>1, <1>2 DEF AfterRelease
    <2>3. /\ pool' \in Pools
          /\ pool'.claimed = pool.claimed \ QueuesOf(r)
          /\ pool'.claimGen = pool.claimGen
          /\ pool'.generation = pool.generation
      BY <2>2, <1>1 DEF Pools
    <2>4. AllocTypeOK'
      BY <2>3, <1>1 DEF AllocInv, AllocTypeOK
    <2>5. LiveGrantsDisjoint'
      BY <1>1 DEF AllocInv, LiveGrantsDisjoint
    <2>6. BitmapIsLiveGrants'
      <3>1. \A s \in live : s # r => QueuesOf(s) \cap QueuesOf(r) = {}
        BY <1>3 DEF AllocInv, LiveGrantsDisjoint
      <3>. QED  BY <3>1, <2>3, <1>1, <1>3 DEF AllocInv, BitmapIsLiveGrants
    <2>7. GenerationNamesGrant'
      BY <2>3, <1>1 DEF AllocInv, GenerationNamesGrant
    <2>. QED  BY <2>4, <2>5, <2>6, <2>7 DEF AllocInv
  <1>4. CASE r \notin live
    <2>1. EmptyRange(r) \/ Malformed(pool, r) \/ ~Current(pool, r)
      BY <1>4, CurrentIsLive DEF Release
    <2>2. \/ pool' = pool
          \/ pool' = [pool EXCEPT !.stale = @ + 1]
      BY <2>1, <1>1 DEF AfterRelease
    <2>3. /\ pool' \in Pools
          /\ pool'.claimed = pool.claimed
          /\ pool'.claimGen = pool.claimGen
          /\ pool'.generation = pool.generation
      BY <2>2, <1>1 DEF Pools
    <2>4. live' = live
      BY <1>1, <1>4
    <2>. QED  BY <2>3, <2>4, <1>1
             DEF AllocInv, AllocTypeOK, LiveGrantsDisjoint,
                 BitmapIsLiveGrants, GenerationNamesGrant
  <1>. QED  BY <1>3, <1>4

(* claim() and release() keep the whole invariant: types, disjoint grants,   *)
(* a bitmap that is exactly the live grants, and generations that name them. *)
THEOREM AllocatorInvariant == AllocSpec => []AllocInv
  <1>1. AllocInv /\ [AllocNext]_allocVars => AllocInv'
    <2>. SUFFICES ASSUME AllocInv, [AllocNext]_allocVars
                  PROVE  AllocInv'
      OBVIOUS
    <2>1. ASSUME NEW count \in 0 .. TotalQueues + 1, Claim(count)
          PROVE  AllocInv'
      BY <2>1, ClaimInv
    <2>2. ASSUME NEW r \in AnyRange, Release(r)
          PROVE  AllocInv'
      BY <2>2, ReleaseInv
    <2>3. CASE UNCHANGED allocVars
      BY <2>3 DEF allocVars, AllocInv, AllocTypeOK, LiveGrantsDisjoint,
                  BitmapIsLiveGrants, GenerationNamesGrant
    <2>. QED  BY <2>1, <2>2, <2>3 DEF AllocNext
  <1>. QED  BY <1>1, AllocInitInv, PTL DEF AllocSpec

(* QueueAllocator: no two ranges that have not been handed back ever share a *)
(* queue.                                                                    *)
THEOREM AllocatorGrantsDisjoint == AllocSpec => []LiveGrantsDisjoint
  BY AllocatorInvariant, PTL DEF AllocInv

(* QueueAllocator: a stale, repeated or malformed release never frees a      *)
(* queue some holder still owns, and a valid one always frees its queues.    *)
THEOREM AllocatorBitmapExact == AllocSpec => []BitmapIsLiveGrants
  BY AllocatorInvariant, PTL DEF AllocInv

-----------------------------------------------------------------------------
(* The daemon and its tenants.  Every live grant is in at most one place:    *)
(* with its tenant, in an answer, in a release on its way, or about to be    *)
(* rolled back.                                                              *)

Messages == [kind : {"claim"}, from : Tenants, attempt : Nat, count : Counts]
            \cup [kind : {"release"}, range : QueueRanges]

Granted(t) == reply[t] \ {Refused}

Releases == {i \in 1 .. Len(inbox) : inbox[i].kind = "release"}

\* The shape of what the composition adds to the pool.
NDShape ==
    /\ inbox \in Seq(Messages)
    /\ reply \in [Tenants -> SUBSET (live \cup {Refused})]
    /\ pool.generation <= MaxClaims /\ pool.stale = 0
    /\ reta = RoundRobin(pool.claimed)

\* What is in a place is a live grant.
PlacesLive ==
    /\ \A t \in Tenants : Holding(t) => range[t] \in live
    /\ rollback # NoRange => rollback \in live
    /\ \A i \in Releases : inbox[i].range \in live

\* No grant is in two places.
PlacesApart ==
    /\ \A t, u \in Tenants : t # u =>
          /\ Granted(t) \cap Granted(u) = {}
          /\ Holding(t) /\ Holding(u) => range[t] # range[u]
    /\ \A t, u \in Tenants : Holding(u) => range[u] \notin Granted(t)
    /\ \A t \in Tenants : Holding(t) => range[t] # rollback
    /\ \A t \in Tenants : rollback \notin Granted(t)
    /\ \A i \in Releases :
          /\ inbox[i].range # rollback
          /\ \A t \in Tenants : /\ inbox[i].range \notin Granted(t)
                                /\ Holding(t) => inbox[i].range # range[t]
          /\ \A j \in Releases : i # j => inbox[i].range # inbox[j].range

NDInv == NDTypeOK /\ AllocInv /\ NDShape /\ PlacesLive /\ PlacesApart

-----------------------------------------------------------------------------
(* The redirection table.                                                    *)

LEMMA ClaimedFinite ==
    ASSUME NEW S, S \subseteq Queues
    PROVE  IsFiniteSet(S)
  <1>1. IsFiniteSet(Queues)
    BY FS_Interval DEF Queues
  <1>. QED  BY <1>1, FS_Subset

(* The ranks of the claimed queues are exactly 0, 1, ..., one queue each.    *)
LEMMA RankBijective ==
    ASSUME NEW S, S \subseteq Queues
    PROVE  /\ Cardinality(S) \in Nat
           /\ \A q \in S : Rank(S, q) \in 0 .. Cardinality(S) - 1
           /\ \A p, q \in S : Rank(S, p) = Rank(S, q) => p = q
           /\ \A k \in 0 .. Cardinality(S) - 1 : \E q \in S : Rank(S, q) = k
  <1>. DEFINE n == Cardinality(S)
              T == 0 .. n - 1
              Below(q) == {x \in S : x < q}
              f == [q \in S |-> Rank(S, q)]
  <1>1. IsFiniteSet(S) /\ n \in Nat /\ S \subseteq Nat
    <2>1. IsFiniteSet(S)
      BY ClaimedFinite
    <2>2. n \in Nat
      BY <2>1, FS_CardinalityType
    <2>. QED  BY <2>1, <2>2 DEF Queues
  <1>. HIDE DEF n
  <1>2. ASSUME NEW q \in S PROVE Rank(S, q) \in Nat /\ Rank(S, q) < n
    <2>1. Below(q) \subseteq S /\ q \notin Below(q)
      BY <1>1
    <2>2. IsFiniteSet(Below(q)) /\ Cardinality(Below(q)) <= n /\ Cardinality(Below(q)) # n
      BY <1>1, <2>1, FS_Subset DEF n
    <2>. QED  BY <1>1, <2>2, FS_CardinalityType DEF Rank
  <1>3. ASSUME NEW p \in S, NEW q \in S, p < q PROVE Rank(S, p) < Rank(S, q)
    <2>1. Below(p) \subseteq Below(q) /\ p \in Below(q) /\ p \notin Below(p)
      <3>1. \A x \in S : x \in Nat
        BY <1>1
      <3>2. \A x \in S : x < p => x < q
        BY <1>3, <3>1
      <3>3. ~(p < p)
        BY <3>1
      <3>. QED  BY <1>3, <3>2, <3>3
    <2>2. Below(q) \subseteq S
      OBVIOUS
    <2>3. IsFiniteSet(Below(q))
      BY <1>1, <2>2, FS_Subset
    <2>4. Cardinality(Below(p)) <= Cardinality(Below(q)) /\ Cardinality(Below(p)) # Cardinality(Below(q))
      BY <2>1, <2>3, FS_Subset
    <2>. QED  BY <1>2, <2>4 DEF Rank
  <1>4. \A p, q \in S : Rank(S, p) = Rank(S, q) => p = q
    <2>. SUFFICES ASSUME NEW p \in S, NEW q \in S, p # q PROVE Rank(S, p) # Rank(S, q)
      OBVIOUS
    <2>1. p < q \/ q < p
      BY <1>1
    <2>. QED  BY <1>2, <1>3, <2>1
  <1>5. f \in Injection(S, T)
    <2>1. f \in [S -> T]
      BY <1>1, <1>2
    <2>. QED  BY <1>4, <2>1 DEF Injection, IsInjective
  <1>6. IsFiniteSet(T) /\ Cardinality(T) = n
    BY <1>1, FS_Interval
  <1>7. f \in Surjection(S, T)
    BY <1>5, <1>6, FS_Injection DEF n
  <1>8. \A k \in T : \E q \in S : Rank(S, q) = k
    BY <1>7 DEF Surjection
  <1>. QED  BY <1>1, <1>2, <1>4, <1>8 DEF n

(* A shift that does not leave the period shifts the remainder.              *)
LEMMA ModShift ==
    ASSUME NEW n \in Nat \ {0}, NEW x \in Int, NEW d \in Int, (x % n) + d \in 0 .. n - 1
    PROVE  (x + d) % n = (x % n) + d
  <1>. DEFINE q == x \div n
              r == x % n
              y == x + d
              yq == y \div n
              yr == y % n
  <1>1. q \in Int /\ r \in 0 .. n - 1 /\ x = n * q + r
    BY DivMod
  <1>2. y \in Int
    OBVIOUS
  <1>3. yq \in Int /\ yr \in 0 .. n - 1 /\ y = n * yq + yr
    BY <1>2, DivMod
  <1>4. r + d \in 0 .. n - 1
    OBVIOUS
  <1>. HIDE DEF q, r, yq, yr
  <1>5. n * q + (r + d) = n * yq + yr
    <2>1. n * q \in Int /\ n * yq \in Int
      BY <1>1, <1>3
    <2>. HIDE DEF y
    <2>2. y = x + d
      BY DEF y
    <2>. QED  BY <1>1, <1>3, <2>1, <2>2
  <1>6. r + d = yr
    BY <1>1, <1>3, <1>4, <1>5, DivUnique
  <1>. QED  BY <1>6 DEF r, yr

LEMMA ModSmall ==
    ASSUME NEW n \in Nat \ {0}, NEW x \in 0 .. n - 1
    PROVE  x % n = x
  <1>1. x \div n \in Int /\ x % n \in 0 .. n - 1 /\ x = n * (x \div n) + (x % n)
    BY DivMod
  <1>2. n * 0 + x = n * (x \div n) + (x % n) /\ 0 \in Int
    BY <1>1
  <1>. QED  BY <1>1, <1>2, DivUnique

Class(n, k) == {b \in Buckets : b % n = k}

(* Of two remainders the smaller has as many buckets as the larger, or one   *)
(* more.                                                                     *)
LEMMA ClassesEven ==
    ASSUME NEW n \in Nat \ {0}, NEW i \in 0 .. n - 1, NEW k \in 0 .. n - 1, i <= k
    PROVE  /\ Cardinality(Class(n, i)) \in Nat /\ Cardinality(Class(n, k)) \in Nat
           /\ Cardinality(Class(n, k)) <= Cardinality(Class(n, i))
           /\ Cardinality(Class(n, i)) <= Cardinality(Class(n, k)) + 1
  <1>. USE RetaSizeAssumption
  <1>. DEFINE d == k - i
              I == Class(n, i)
              K == Class(n, k)
  <1>1. d \in Nat /\ d < n /\ i + d = k /\ k - d = i
    OBVIOUS
  <1>2. IsFiniteSet(I) /\ IsFiniteSet(K) /\ I \subseteq Buckets /\ K \subseteq Buckets
    <2>1. IsFiniteSet(Buckets)
      BY FS_Interval DEF Buckets
    <2>2. I \subseteq Buckets /\ K \subseteq Buckets
      BY DEF Class
    <2>. QED  BY <2>1, <2>2, FS_Subset
  <1>3. Cardinality(I) \in Nat /\ Cardinality(K) \in Nat
    BY <1>2, FS_CardinalityType
  <1>. HIDE DEF d
  <1>4. ASSUME NEW b \in K PROVE b - d \in I
    <2>1. b \in Int /\ 0 <= b /\ b < RetaSize /\ b % n = k /\ -d \in Int
      BY <1>1 DEF Class, Buckets
    <2>2. b >= k
      <3>1. CASE b <= n - 1
        BY <2>1, <3>1, ModSmall
      <3>. QED  BY <2>1, <3>1
    <2>3. (b + (-d)) % n = (b % n) + (-d)
      <3>1. (b % n) + (-d) \in 0 .. n - 1
        BY <1>1, <2>1
      <3>. QED  BY <2>1, <3>1, ModShift
    <2>4. b + (-d) = b - d /\ b - d \in Buckets
      BY <1>1, <2>1, <2>2 DEF Buckets
    <2>. QED  BY <1>1, <2>1, <2>3, <2>4 DEF Class
  <1>5. Cardinality(K) <= Cardinality(I)
    <2>. DEFINE f == [b \in K |-> b - d]
    <2>1. f \in [K -> I]
      BY <1>4
    <2>2. \A a, b \in K : f[a] = f[b] => a = b
      BY <1>1, <1>2 DEF Buckets
    <2>3. f \in Injection(K, I)
      BY <2>1, <2>2 DEF Injection, IsInjective
    <2>. QED  BY <1>2, <2>3, FS_Injection
  <1>6. ASSUME NEW b \in I, b + d < RetaSize PROVE b + d \in K
    <2>1. b \in Int /\ 0 <= b /\ b % n = i
      BY DEF Class, Buckets
    <2>2. (b + d) % n = (b % n) + d
      BY <1>1, <2>1, ModShift
    <2>3. b + d \in Buckets
      BY <1>1, <1>6, <2>1 DEF Buckets
    <2>. QED  BY <1>1, <2>1, <2>2, <2>3 DEF Class
  <1>7. ASSUME NEW J \in SUBSET I, \A b \in J : b + d < RetaSize
        PROVE  Cardinality(J) <= Cardinality(K)
    <2>. DEFINE g == [b \in J |-> b + d]
    <2>1. g \in [J -> K]
      BY <1>6, <1>7
    <2>2. \A a, b \in J : g[a] = g[b] => a = b
      BY <1>1, <1>2 DEF Buckets
    <2>3. g \in Injection(J, K)
      BY <2>1, <2>2 DEF Injection, IsInjective
    <2>. QED  BY <1>2, <2>3, FS_Injection
  <1>8. ASSUME NEW a \in I, NEW b \in I, a < b PROVE a + d < RetaSize
    <2>1. a \in Int /\ b \in Int /\ a % n = b % n /\ b < RetaSize
      BY DEF Class, Buckets
    <2>2. ~(b < a + n)
      <3>1. ASSUME b < a + n PROVE FALSE
        <4>1. a <= b
          BY <1>8, <2>1
        <4>2. a = b
          BY <2>1, <3>1, <4>1, ModInjective
        <4>. QED  BY <1>8, <2>1, <4>2
      <3>. QED  BY <3>1
    <2>. QED  BY <1>1, <2>1, <2>2
  <1>9. Cardinality(I) <= Cardinality(K) + 1
    <2>1. CASE \A b \in I : b + d < RetaSize
      BY <1>3, <1>7, <2>1
    <2>2. CASE \E b \in I : ~(b + d < RetaSize)
      <3>1. PICK z \in I : ~(z + d < RetaSize)
        BY <2>2
      <3>2. \A b \in I \ {z} : b + d < RetaSize
        <4>. SUFFICES ASSUME NEW b \in I, b # z PROVE b + d < RetaSize
          OBVIOUS
        <4>1. b \in Int /\ z \in Int
          BY <1>2 DEF Buckets
        <4>2. b < z \/ z < b
          BY <4>1
        <4>. QED  BY <1>8, <3>1, <4>2
      <3>3. Cardinality(I \ {z}) <= Cardinality(K)
        BY <1>7, <3>2
      <3>4. Cardinality(I \ {z}) = Cardinality(I) - 1
        BY <1>2, FS_RemoveElement
      <3>. QED  BY <1>3, <3>3, <3>4
    <2>. QED  BY <2>1, <2>2
  <1>. QED  BY <1>3, <1>5, <1>9

(* refresh_reta_for_claimed_ fills the table evenly from the claimed queues. *)
LEMMA RoundRobinEven ==
    ASSUME NEW S, S \subseteq Queues
    PROVE  /\ RoundRobin(S) \in [Buckets -> Queues]
           /\ S = {} => \A b \in Buckets : RoundRobin(S)[b] = 0
           /\ S # {} => /\ \A b \in Buckets : RoundRobin(S)[b] \in S
                        /\ \A p, q \in S :
                              Cardinality({b \in Buckets : RoundRobin(S)[b] = p})
                              - Cardinality({b \in Buckets : RoundRobin(S)[b] = q}) \in {-1, 0, 1}
  <1>. DEFINE n == Cardinality(S)
  <1>1. CASE S = {}
    BY <1>1 DEF RoundRobin, Queues
  <1>2. CASE S # {}
    <2>1. n \in Nat \ {0}
      <3>1. IsFiniteSet(S)
        BY ClaimedFinite
      <3>. QED  BY <1>2, <3>1, FS_EmptySet, FS_CardinalityType
    <2>. HIDE DEF n
    <2>2. \A b \in Buckets : b % n \in 0 .. n - 1
      BY <2>1, RetaSizeAssumption, DivMod DEF Buckets
    <2>3. /\ \A q \in S : Rank(S, q) \in 0 .. n - 1
          /\ \A p, q \in S : Rank(S, p) = Rank(S, q) => p = q
          /\ \A k \in 0 .. n - 1 : \E q \in S : Rank(S, q) = k
      BY RankBijective DEF n
    <2>4. \A b \in Buckets : RoundRobin(S)[b] \in S /\ Rank(S, RoundRobin(S)[b]) = b % n
      <3>. SUFFICES ASSUME NEW b \in Buckets
                    PROVE  RoundRobin(S)[b] \in S /\ Rank(S, RoundRobin(S)[b]) = b % n
        OBVIOUS
      <3>1. RoundRobin(S)[b] = CHOOSE q \in S : Rank(S, q) = b % n
        BY <1>2 DEF RoundRobin, n
      <3>2. \E q \in S : Rank(S, q) = b % n
        BY <2>2, <2>3
      <3>. QED  BY <3>1, <3>2, Zenon
    <2>5. \A q \in S : {b \in Buckets : RoundRobin(S)[b] = q} = Class(n, Rank(S, q))
      BY <2>3, <2>4 DEF Class
    <2>6. ASSUME NEW p \in S, NEW q \in S
          PROVE  Cardinality({b \in Buckets : RoundRobin(S)[b] = p})
                 - Cardinality({b \in Buckets : RoundRobin(S)[b] = q}) \in {-1, 0, 1}
      <3>1. PICK i \in 0 .. n - 1, k \in 0 .. n - 1 : i = Rank(S, p) /\ k = Rank(S, q)
        BY <2>3
      <3>2. Cardinality(Class(n, i)) - Cardinality(Class(n, k)) \in {-1, 0, 1}
        <4>1. CASE i <= k
          BY <2>1, <4>1, ClassesEven
        <4>2. CASE k <= i
          BY <2>1, <4>2, ClassesEven
        <4>. QED  BY <2>1, <4>1, <4>2
      <3>. QED  BY <2>5, <3>1, <3>2
    <2>7. RoundRobin(S) \in [Buckets -> Queues]
      <3>1. RoundRobin(S) = [b \in Buckets |-> RoundRobin(S)[b]]
        BY DEF RoundRobin
      <3>2. \A b \in Buckets : RoundRobin(S)[b] \in Queues
        BY <2>4
      <3>. QED  BY <3>1, <3>2
    <2>. QED  BY <1>2, <2>4, <2>6, <2>7
  <1>. QED  BY <1>1, <1>2

-----------------------------------------------------------------------------
(* The composition's invariant.                                              *)

LEMMA LiveIsGrant ==
    ASSUME AllocInv
    PROVE  /\ live \subseteq granted /\ granted \subseteq QueueRanges
           /\ \A r \in live : r # NoRange /\ r.gen <= pool.generation
           /\ pool.claimed \subseteq Queues /\ pool.generation \in Nat
  BY DEF AllocInv, AllocTypeOK, GenerationNamesGrant, NoRange, Pools, QueueRanges

LEMMA AllocUnchanged == AllocInv /\ UNCHANGED allocVars => AllocInv'
  BY DEF allocVars, AllocInv, AllocTypeOK, LiveGrantsDisjoint, BitmapIsLiveGrants,
         GenerationNamesGrant

(* Queueing a message leaves the releases before it where they are.          *)
LEMMA ReleasesAppend ==
    ASSUME inbox \in Seq(Messages), NEW m \in Messages, inbox' = Append(inbox, m)
    PROVE  /\ inbox' \in Seq(Messages)
           /\ \A i \in Releases : inbox'[i] = inbox[i] /\ i # Len(inbox) + 1
           /\ m.kind # "release" => Releases' = Releases
           /\ m.kind = "release" =>
                 /\ Releases' = Releases \cup {Len(inbox) + 1}
                 /\ inbox'[Len(inbox) + 1] = m
  <1>1. Len(inbox) \in Nat
    OBVIOUS
  <1>2. /\ inbox' \in Seq(Messages)
        /\ Len(inbox') = Len(inbox) + 1
        /\ \A i \in 1 .. Len(inbox) : inbox'[i] = inbox[i]
        /\ inbox'[Len(inbox) + 1] = m
    BY AppendProperties
  <1>3. \A i : i \in 1 .. Len(inbox') <=> i \in 1 .. Len(inbox) \/ i = Len(inbox) + 1
    BY <1>1, <1>2
  <1>4. \A i \in 1 .. Len(inbox) : i # Len(inbox) + 1
    BY <1>1
  <1>. QED  BY <1>2, <1>3, <1>4 DEF Releases

(* Taking the first message moves the others forward by one.                 *)
LEMMA ReleasesTail ==
    ASSUME inbox \in Seq(Messages), inbox # <<>>, inbox' = Tail(inbox)
    PROVE  /\ inbox' \in Seq(Messages) /\ Head(inbox) \in Messages
           /\ Head(inbox).kind = "release" => 1 \in Releases /\ inbox[1] = Head(inbox)
           /\ \A i \in Releases' :
                 /\ i + 1 \in Releases /\ i + 1 # 1 /\ inbox'[i] = inbox[i + 1]
                 /\ \A j \in Releases' : i # j => i + 1 # j + 1
  <1>1. Len(inbox) \in Nat /\ Len(inbox) >= 1 /\ Head(inbox) = inbox[1]
    OBVIOUS
  <1>2. /\ Head(inbox) \in Messages /\ inbox' \in Seq(Messages)
        /\ Len(inbox') = Len(inbox) - 1
        /\ \A i \in 1 .. Len(inbox') : inbox'[i] = inbox[i + 1]
    BY HeadTailProperties
  <1>3. \A i \in 1 .. Len(inbox') : i \in Nat /\ i + 1 \in 1 .. Len(inbox) /\ i + 1 # 1
    BY <1>1, <1>2
  <1>4. \A i, j \in Nat : i # j => i + 1 # j + 1
    OBVIOUS
  <1>. QED  BY <1>1, <1>2, <1>3, <1>4 DEF Releases

LEMMA NDInitInv == NDInit => NDInv
  <1>. SUFFICES ASSUME NDInit PROVE NDInv
    OBVIOUS
  <1>. USE BoundsAssumption
  <1>1. AllocInv
    BY AllocInitInv DEF NDInit
  <1>2. pool = FreshPool /\ live = {} /\ granted = {} /\ pool.claimed = {} /\ pool.generation = 0 /\ pool.stale = 0
    BY DEF NDInit, AllocInit, FreshPool
  <1>3. RoundRobin({}) \in [Buckets -> Queues]
    BY RoundRobinEven
  <1>4. NDTypeOK
    BY <1>1, <1>3 DEF NDTypeOK, NDInit, AllocInv, NoRange, QueueRanges
  <1>5. inbox \in Seq(Messages) /\ Releases = {}
    BY DEF NDInit, Releases
  <1>6. NDShape
    BY <1>2, <1>5 DEF NDShape, NDInit
  <1>7. PlacesLive /\ PlacesApart
    BY <1>5 DEF PlacesLive, PlacesApart, NDInit, Holding, Granted
  <1>. QED  BY <1>1, <1>4, <1>6, <1>7 DEF NDInv

LEMMA TenantStepInv ==
    ASSUME NDInv, TenantStep
    PROVE  NDInv'
  <1>1. PICK t \in Tenants :
            \/ \E n \in Counts : Create(t, n)
            \/ Timeout(t) \/ TakeReply(t) \/ BringupDone(t) \/ GiveBack(t) \/ Crash(t)
    BY DEF TenantStep
  <1>2. UNCHANGED <<pool, granted, live, rollback, reta, incarnation, origin>>
    BY <1>1 DEF Create, Timeout, TakeReply, BringupDone, GiveBack, Crash, SameDaemon, allocVars
  <1>3. AllocInv' /\ AllocInv
    BY <1>2, AllocUnchanged DEF NDInv, allocVars
  <1>4. /\ live \subseteq granted /\ granted \subseteq QueueRanges /\ NoRange \notin live
        /\ NoRange \in QueueRanges
    BY <1>3, LiveIsGrant DEF NoRange, QueueRanges
  <1>5. NDTypeOK /\ NDShape /\ PlacesLive /\ PlacesApart
    BY DEF NDInv
  <1>6. AllocTypeOK'
    BY <1>3 DEF AllocInv
  <1>7. \A u \in Tenants : Granted(u) \subseteq live
    BY <1>5 DEF NDShape, Granted
  <1>. USE DEF Refused
  <1>8. ASSUME NEW n \in Counts, Create(t, n) PROVE NDInv'
    <2>. DEFINE m == [ClaimMsg(t, n) EXCEPT !.attempt = @ + 1]
    <2>1. m \in Messages /\ m.kind = "claim" /\ inbox' = Append(inbox, m)
      <3>1. attempt[t] + 1 \in Nat
        BY <1>5, BoundsAssumption DEF NDTypeOK
      <3>2. m = [kind |-> "claim", from |-> t, attempt |-> attempt[t] + 1, count |-> n]
        BY DEF ClaimMsg
      <3>3. inbox' = Append(inbox, m)
        BY <1>8 DEF Create
      <3>. QED  BY <3>1, <3>2, <3>3 DEF Messages
    <2>. HIDE DEF m
    <2>2. /\ inbox' \in Seq(Messages) /\ Releases' = Releases
          /\ \A i \in Releases : inbox'[i] = inbox[i]
      BY <1>5, <2>1, ReleasesAppend DEF NDShape
    <2>3. \A u \in Tenants : Holding(u)' <=> Holding(u)
      BY <1>5, <1>8 DEF Create, Holding, NDTypeOK
    <2>4. NDTypeOK'
      BY <1>2, <1>5, <1>6, <1>8, BoundsAssumption DEF Create, NDTypeOK
    <2>5. NDShape'
      BY <1>2, <1>5, <1>8, <2>2 DEF Create, NDShape
    <2>6. PlacesLive'
      BY <1>2, <1>5, <1>8, <2>2, <2>3 DEF Create, PlacesLive
    <2>7. PlacesApart'
      <3>1. range' = range /\ \A u \in Tenants : Granted(u)' = Granted(u)
        BY <1>8 DEF Create, Granted
      <3>. QED  BY <1>2, <1>5, <2>2, <2>3, <3>1 DEF PlacesApart
    <2>. QED  BY <1>3, <2>4, <2>5, <2>6, <2>7 DEF NDInv
  <1>9. CASE Timeout(t) \/ BringupDone(t) \/ Crash(t)
    <2>1. /\ \A u \in Tenants : Holding(u)' => Holding(u) /\ range'[u] = range[u]
          /\ \A u \in Tenants : reply'[u] \subseteq reply[u]
          /\ inbox' = inbox /\ Releases' = Releases
      BY <1>5, <1>9 DEF Timeout, BringupDone, Crash, Holding, NDTypeOK, NDShape, Releases
    <2>2. NDTypeOK'
      BY <1>2, <1>4, <1>5, <1>6, <1>9, <2>1 DEF Timeout, BringupDone, Crash, NDTypeOK
    <2>3. NDShape'
      BY <1>2, <1>5, <1>9 DEF Timeout, BringupDone, Crash, NDShape
    <2>4. PlacesLive'
      BY <1>2, <1>5, <2>1 DEF PlacesLive
    <2>5. PlacesApart'
      BY <1>2, <1>5, <2>1 DEF PlacesApart, Granted
    <2>. QED  BY <1>3, <2>2, <2>3, <2>4, <2>5 DEF NDInv
  <1>10. CASE TakeReply(t)
    <2>1. PICK r \in reply[t] :
              /\ state' = [state EXCEPT ![t] = IF r = Refused THEN "off" ELSE "bringup"]
              /\ range' = [range EXCEPT ![t] = r]
              /\ reply' = [reply EXCEPT ![t] = {}]
              /\ UNCHANGED <<attempt, inbox, orphans>>
      BY <1>10 DEF TakeReply
    <2>2. r \in live \cup {NoRange} /\ (r # NoRange => r \in Granted(t) /\ r \in live)
      BY <1>5 DEF NDShape, Granted
    <2>3. /\ Holding(t)' <=> r # NoRange
          /\ \A u \in Tenants : u # t => (Holding(u)' <=> Holding(u)) /\ range'[u] = range[u]
          /\ range'[t] = r
          /\ \A u \in Tenants : reply'[u] = IF u = t THEN {} ELSE reply[u]
          /\ Releases' = Releases
      BY <1>5, <2>1 DEF Holding, NDTypeOK, NDShape, Releases
    <2>4. NDTypeOK'
      BY <1>2, <1>4, <1>5, <1>6, <2>1, <2>2 DEF NDTypeOK
    <2>5. NDShape'
      BY <1>2, <1>5, <2>1 DEF NDShape
    <2>6. PlacesLive'
      BY <1>2, <1>5, <2>1, <2>2, <2>3 DEF PlacesLive
    <2>7. \A u \in Tenants : Granted(u)' = IF u = t THEN {} ELSE Granted(u)
      BY <2>3 DEF Granted
    <2>8. PlacesApart'
      <3>1. ASSUME NEW u \in Tenants, NEW v \in Tenants, u # v
            PROVE  /\ Granted(u)' \cap Granted(v)' = {}
                   /\ Holding(u)' /\ Holding(v)' => range'[u] # range'[v]
        BY <1>5, <2>2, <2>3, <2>7, <3>1 DEF PlacesApart
      <3>2. ASSUME NEW u \in Tenants, NEW v \in Tenants, Holding(v)'
            PROVE  range'[v] \notin Granted(u)'
        BY <1>5, <2>2, <2>3, <2>7, <3>2 DEF PlacesApart
      <3>3. \A u \in Tenants : (Holding(u)' => range'[u] # rollback) /\ rollback \notin Granted(u)'
        BY <1>5, <2>2, <2>3, <2>7 DEF PlacesApart
      <3>4. ASSUME NEW i \in Releases
            PROVE  /\ inbox[i].range # rollback
                   /\ \A u \in Tenants : /\ inbox[i].range \notin Granted(u)'
                                         /\ Holding(u)' => inbox[i].range # range'[u]
                   /\ \A j \in Releases : i # j => inbox[i].range # inbox[j].range
        BY <1>5, <2>2, <2>3, <2>7 DEF PlacesApart
      <3>. QED  BY <1>2, <2>1, <2>3, <3>1, <3>2, <3>3, <3>4 DEF PlacesApart
    <2>. QED  BY <1>3, <2>4, <2>5, <2>6, <2>8 DEF NDInv
  <1>11. CASE GiveBack(t)
    <2>1. /\ ~Holding(t)' /\ Holding(t) /\ range[t] \in live
          /\ \A u \in Tenants : Holding(u)' => Holding(u) /\ u # t /\ range'[u] = range[u]
          /\ reply' = reply
      BY <1>5, <1>11 DEF GiveBack, Holding, NDTypeOK, PlacesLive
    <2>2. NDTypeOK'
      BY <1>2, <1>4, <1>5, <1>6, <1>11 DEF GiveBack, NDTypeOK
    <2>3. CASE inbox' = inbox
      <3>1. Releases' = Releases
        BY <2>3 DEF Releases
      <3>2. NDShape'
        BY <1>2, <1>5, <2>1, <2>3 DEF NDShape
      <3>3. PlacesLive'
        BY <1>2, <1>5, <2>1, <2>3, <3>1 DEF PlacesLive
      <3>4. PlacesApart'
        BY <1>2, <1>5, <2>1, <2>3, <3>1 DEF PlacesApart, Granted
      <3>. QED  BY <1>3, <2>2, <3>2, <3>3, <3>4 DEF NDInv
    <2>4. CASE inbox' = Append(inbox, ReleaseMsg(range[t]))
      <3>. DEFINE k == Len(inbox) + 1
                  m == ReleaseMsg(range[t])
      <3>1. m \in Messages /\ m.kind = "release" /\ m.range = range[t]
        BY <1>5 DEF ReleaseMsg, Messages, NDTypeOK
      <3>. HIDE DEF m
      <3>2. /\ inbox' \in Seq(Messages) /\ Releases' = Releases \cup {k} /\ inbox'[k] = m
            /\ \A i \in Releases : inbox'[i] = inbox[i] /\ i # k
        BY <1>5, <2>4, <3>1, ReleasesAppend DEF NDShape, m
      <3>. HIDE DEF k
      <3>3. NDShape'
        BY <1>2, <1>5, <2>1, <3>2 DEF NDShape
      <3>4. PlacesLive'
        BY <1>2, <1>5, <2>1, <3>1, <3>2 DEF PlacesLive
      <3>5. PlacesApart'
        <4>1. \A u \in Tenants : Granted(u)' = Granted(u)
          BY <2>1 DEF Granted
        <4>2. ASSUME NEW i \in Releases'
              PROVE  /\ inbox'[i].range # rollback
                     /\ \A u \in Tenants : /\ inbox'[i].range \notin Granted(u)
                                           /\ Holding(u)' => inbox'[i].range # range'[u]
                     /\ \A j \in Releases' : i # j => inbox'[i].range # inbox'[j].range
          BY <1>5, <2>1, <3>1, <3>2, <4>2 DEF PlacesApart
        <4>. QED  BY <1>2, <1>5, <2>1, <4>1, <4>2 DEF PlacesApart
      <3>. QED  BY <1>3, <2>2, <3>3, <3>4, <3>5 DEF NDInv
    <2>. QED  BY <1>11, <2>3, <2>4 DEF GiveBack, Send, Post
  <1>. QED  BY <1>1, <1>8, <1>9, <1>10, <1>11

(* The part of a daemon step that takes the next message.                    *)
LEMMA TakeMessageFacts ==
    ASSUME NDInv, NEW kind, TakeMessage(kind)
    PROVE  /\ inbox' \in Seq(Messages) /\ Head(inbox) \in Messages /\ Head(inbox).kind = kind
           /\ kind = "release" => 1 \in Releases /\ inbox[1] = Head(inbox)
           /\ kind = "claim" => /\ Head(inbox).from \in Tenants
                               /\ Head(inbox).count \in Counts /\ Head(inbox).count \in Nat
           /\ \A i \in Releases' :
                 /\ i + 1 \in Releases /\ i + 1 # 1 /\ inbox'[i] = inbox[i + 1]
                 /\ \A j \in Releases' : i # j => i + 1 # j + 1
           /\ rollback = NoRange
  <1>1. inbox \in Seq(Messages) /\ inbox # <<>> /\ inbox' = Tail(inbox)
    BY DEF TakeMessage, NDInv, NDShape
  <1>2. Head(inbox) \in Messages /\ Head(inbox).kind = kind
    BY <1>1, ReleasesTail DEF TakeMessage
  <1>3. kind = "claim" => /\ Head(inbox).from \in Tenants
                          /\ Head(inbox).count \in Counts /\ Head(inbox).count \in Nat
    BY <1>2, CountsAssumption DEF Messages
  <1>. QED  BY <1>1, <1>2, <1>3, ReleasesTail DEF TakeMessage

LEMMA ReleaseOfLive ==
    ASSUME AllocInv, NEW r \in live
    PROVE  AfterRelease(pool, r) = [pool EXCEPT !.claimed = @ \ QueuesOf(r)]
  <1>1. r \in granted /\ ~EmptyRange(r) /\ ~Malformed(pool, r)
    BY DEF AllocInv, AllocTypeOK, GenerationNamesGrant, EmptyRange, Malformed, QueueRanges, Pools
  <1>2. \A q \in QueuesOf(r) : q \in Queues
    BY <1>1 DEF AllocInv, AllocTypeOK, QueueRanges, QueuesOf, Queues
  <1>3. Current(pool, r)
    BY <1>2 DEF Current, AllocInv, BitmapIsLiveGrants, GenerationNamesGrant
  <1>. QED  BY <1>1, <1>3 DEF AfterRelease

LEMMA RefuseClaimInv ==
    ASSUME NDInv, RefuseClaim
    PROVE  NDInv'
  <1>1. /\ UNCHANGED <<pool, granted, live, rollback, reta, incarnation, state, range, attempt, orphans>>
        /\ TakeMessage("claim")
        /\ Deliver(Head(inbox), Refused) \/ UNCHANGED <<reply, origin>>
    BY DEF RefuseClaim, allocVars
  <1>2. AllocInv /\ AllocInv' /\ AllocTypeOK'
    BY <1>1, AllocUnchanged DEF NDInv, allocVars, AllocInv
  <1>3. NDTypeOK /\ NDShape /\ PlacesLive /\ PlacesApart
    BY DEF NDInv
  <1>4. /\ inbox' \in Seq(Messages)
        /\ \A i \in Releases' :
              /\ i + 1 \in Releases /\ inbox'[i] = inbox[i + 1]
              /\ \A j \in Releases' : i # j => i + 1 # j + 1
    BY <1>1, TakeMessageFacts
  <1>5. /\ reply' \in [Tenants -> SUBSET (live \cup {Refused})]
        /\ \A t \in Tenants : Granted(t)' = Granted(t)
        /\ origin' \in [Tenants -> 0 .. MaxRestarts]
    <2>1. Head(inbox).from \in Tenants
      BY <1>1, TakeMessageFacts
    <2>2. CASE Deliver(Head(inbox), Refused)
      <3>. DEFINE u == Head(inbox).from
      <3>1. /\ reply' = [reply EXCEPT ![u] = @ \cup {Refused}]
            /\ origin' = [origin EXCEPT ![u] = incarnation]
        BY <2>2 DEF Deliver
      <3>. HIDE DEF u
      <3>2. u \in Tenants
        BY <2>1 DEF u
      <3>. QED  BY <1>3, <3>1, <3>2 DEF NDShape, NDTypeOK, Granted
    <2>. QED  BY <1>1, <1>3, <2>2 DEF NDShape, NDTypeOK, Granted
  <1>6. live \subseteq granted
    BY <1>2, LiveIsGrant
  <1>7. NDTypeOK'
    BY <1>1, <1>2, <1>3, <1>5, <1>6 DEF NDTypeOK
  <1>8. NDShape'
    BY <1>1, <1>3, <1>4, <1>5 DEF NDShape
  <1>9. PlacesLive'
    BY <1>1, <1>3, <1>4 DEF PlacesLive, Holding
  <1>10. PlacesApart'
    <2>1. \A t \in Tenants : Holding(t)' <=> Holding(t)
      BY <1>1 DEF Holding
    <2>2. ASSUME NEW i \in Releases'
          PROVE  /\ inbox'[i].range # rollback
                 /\ \A u \in Tenants : /\ inbox'[i].range \notin Granted(u)
                                       /\ Holding(u) => inbox'[i].range # range[u]
                 /\ \A j \in Releases' : i # j => inbox'[i].range # inbox'[j].range
      BY <1>3, <1>4, <2>2 DEF PlacesApart
    <2>. QED  BY <1>1, <1>3, <1>5, <2>1, <2>2 DEF PlacesApart
  <1>. QED  BY <1>2, <1>7, <1>8, <1>9, <1>10 DEF NDInv

LEMMA GrantClaimInv ==
    ASSUME NDInv, GrantClaim
    PROVE  NDInv'
  <1>. DEFINE n == Head(inbox).count
              r == GrantOf(pool, n)
  <1>1. /\ UNCHANGED <<incarnation, state, range, attempt, orphans>>
        /\ TakeMessage("claim") /\ Claim(n) /\ Refresh
        /\ \/ /\ Deliver(Head(inbox), r) \/ Swallowed(Head(inbox))
              /\ UNCHANGED rollback
           \/ rollback' = r /\ UNCHANGED <<reply, origin>>
    BY DEF GrantClaim
  <1>2. NDTypeOK /\ NDShape /\ PlacesLive /\ PlacesApart /\ AllocInv
    BY DEF NDInv
  <1>3. /\ inbox' \in Seq(Messages) /\ rollback = NoRange
        /\ n \in Counts /\ n \in Nat /\ Head(inbox).from \in Tenants
        /\ \A i \in Releases' :
              /\ i + 1 \in Releases /\ inbox'[i] = inbox[i + 1]
              /\ \A j \in Releases' : i # j => i + 1 # j + 1
    BY <1>1, TakeMessageFacts
  <1>4. AllocInv' /\ AllocTypeOK'
    BY <1>1, <1>2, <1>3, ClaimInv DEF AllocInv
  <1>5. /\ live' = live \cup {r} /\ granted' = granted \cup {r}
        /\ pool' = AfterClaim(pool, r) /\ pool.generation < MaxClaims
        /\ r.gen = pool.generation + 1
    BY <1>1 DEF Claim, GrantOf
  <1>6. r \notin live /\ r # NoRange /\ live' \subseteq granted' /\ granted' \subseteq QueueRanges
    <2>1. \A s \in live : s.gen <= pool.generation
      BY <1>2, LiveIsGrant
    <2>2. \A s \in live' : s # NoRange
      BY <1>4, LiveIsGrant DEF NoRange, AllocInv, AllocTypeOK
    <2>3. pool.generation \in Nat
      BY <1>2, LiveIsGrant
    <2>4. live' \subseteq granted' /\ granted' \subseteq QueueRanges
      BY <1>4 DEF AllocTypeOK
    <2>. QED  BY <1>5, <2>1, <2>2, <2>3, <2>4
  <1>7. /\ pool'.generation = r.gen /\ pool'.stale = pool.stale /\ pool'.claimed \subseteq Queues
        /\ pool.generation \in Nat
    <2>1. pool \in Pools /\ pool' \in Pools
      BY <1>2, <1>4 DEF AllocInv, AllocTypeOK
    <2>. QED  BY <1>5, <2>1 DEF AfterClaim, Pools
  <1>8. reta' = RoundRobin(pool'.claimed) /\ reta' \in [Buckets -> Queues]
    BY <1>1, <1>7, RoundRobinEven DEF Refresh
  <1>. HIDE DEF r, n
  <1>9. /\ reply' \in [Tenants -> SUBSET (live' \cup {Refused})]
        /\ origin' \in [Tenants -> 0 .. MaxRestarts]
    <2>1. CASE Deliver(Head(inbox), r)
      <3>. DEFINE u == Head(inbox).from
      <3>1. /\ reply' = [reply EXCEPT ![u] = @ \cup {r}]
            /\ origin' = [origin EXCEPT ![u] = incarnation]
        BY <2>1 DEF Deliver
      <3>2. u \in Tenants
        BY <1>3
      <3>. HIDE DEF u
      <3>. QED  BY <1>2, <1>5, <3>1, <3>2 DEF NDShape, NDTypeOK
    <2>2. CASE UNCHANGED <<reply, origin>>
      BY <1>2, <1>5, <2>2 DEF NDShape, NDTypeOK
    <2>. QED  BY <1>1, <2>1, <2>2 DEF Swallowed
  <1>10. NDTypeOK'
    <2>1. rollback' \in QueueRanges
      BY <1>1, <1>2, <1>5, <1>6 DEF NDTypeOK
    <2>2. \A t \in Tenants : reply'[t] \subseteq granted' \cup {Refused}
      BY <1>6, <1>9
    <2>. QED  BY <1>1, <1>2, <1>4, <1>8, <1>9, <2>1, <2>2 DEF NDTypeOK
  <1>11. NDShape'
    <2>1. pool'.generation <= MaxClaims /\ pool'.stale = 0
      BY <1>2, <1>5, <1>7 DEF NDShape
    <2>. QED  BY <1>3, <1>8, <1>9, <2>1 DEF NDShape
  <1>12. \A t \in Tenants : Holding(t)' <=> Holding(t)
    BY <1>1 DEF Holding
  <1>13. PlacesLive'
    BY <1>1, <1>2, <1>3, <1>5, <1>12 DEF PlacesLive
  <1>14. \/ rollback' = NoRange /\ \A t \in Tenants : Granted(t)' = Granted(t)
         \/ rollback' = NoRange /\ \E u \in Tenants : \A t \in Tenants :
                Granted(t)' = IF t = u THEN Granted(u) \cup {r} ELSE Granted(t)
         \/ rollback' = r /\ \A t \in Tenants : Granted(t)' = Granted(t)
    <2>1. CASE rollback' = r /\ UNCHANGED <<reply, origin>>
      BY <2>1 DEF Granted
    <2>2. CASE Swallowed(Head(inbox)) /\ UNCHANGED rollback
      BY <1>3, <2>2 DEF Granted, Swallowed
    <2>3. CASE Deliver(Head(inbox), r) /\ UNCHANGED rollback
      <3>. DEFINE u == Head(inbox).from
      <3>1. \A t \in Tenants : reply'[t] = IF t = u THEN reply[u] \cup {r} ELSE reply[t]
        BY <1>2, <1>3, <2>3 DEF Deliver, NDShape
      <3>2. \A t \in Tenants : Granted(t)' = IF t = u THEN Granted(u) \cup {r} ELSE Granted(t)
        BY <1>6, <3>1 DEF Granted, Refused
      <3>. QED  BY <1>3, <2>3, <3>2
    <2>. QED  BY <1>1, <2>1, <2>2, <2>3
  <1>15. /\ \A t \in Tenants : Granted(t) \subseteq live /\ NoRange \notin Granted(t)
         /\ \A t \in Tenants : Holding(t) => range[t] \in live
         /\ \A i \in Releases : inbox[i].range \in live
    BY <1>2 DEF NDShape, Granted, PlacesLive, Refused
  <1>16. \A s \in live : s # NoRange /\ s # r
    BY <1>2, <1>6, LiveIsGrant
  <1>17. PlacesApart'
    <2>1. ASSUME NEW i \in Releases'
          PROVE  /\ inbox'[i].range # rollback'
                 /\ \A u \in Tenants : /\ inbox'[i].range \notin Granted(u)'
                                       /\ Holding(u)' => inbox'[i].range # range[u]
                 /\ \A j \in Releases' : i # j => inbox'[i].range # inbox'[j].range
      <3>1. inbox'[i].range \in live
        BY <1>3, <1>15
      <3>. QED  BY <1>2, <1>3, <1>12, <1>14, <1>16, <2>1, <3>1 DEF PlacesApart
    <2>2. ASSUME NEW t \in Tenants, NEW u \in Tenants
          PROVE  /\ t # u => Granted(t)' \cap Granted(u)' = {}
                 /\ t # u /\ Holding(t)' /\ Holding(u)' => range[t] # range[u]
                 /\ Holding(u)' => range[u] \notin Granted(t)'
      BY <1>2, <1>12, <1>14, <1>15, <1>16 DEF PlacesApart
    <2>3. ASSUME NEW t \in Tenants
          PROVE  (Holding(t)' => range[t] # rollback') /\ rollback' \notin Granted(t)'
      BY <1>6, <1>12, <1>14, <1>15, <1>16
    <2>. QED  BY <1>1, <2>1, <2>2, <2>3 DEF PlacesApart
  <1>. QED  BY <1>4, <1>10, <1>11, <1>13, <1>17 DEF NDInv

(* RollBack and HandleRelease hand a live grant back, and it leaves its      *)
(* place.                                                                    *)
LEMMA ReturnInv ==
    ASSUME NDInv, NEW r \in live,
           pool' = AfterRelease(pool, r), live' = live \ {r}, granted' = granted, Refresh,
           rollback' = NoRange, UNCHANGED <<tenantVars, incarnation>>, inbox' \in Seq(Messages),
           \A t \in Tenants : Holding(t) => range[t] # r,
           \A t \in Tenants : r \notin Granted(t),
           \A i \in Releases' : inbox'[i].range \in live \ {r}
                                /\ \E k \in Releases : inbox'[i] = inbox[k],
           \A i, j \in Releases' : i # j => inbox'[i].range # inbox'[j].range
    PROVE  NDInv' /\ Release(r)
  <1>1. NDTypeOK /\ NDShape /\ PlacesLive /\ PlacesApart /\ AllocInv
    BY DEF NDInv
  <1>2. live \subseteq granted /\ granted \subseteq QueueRanges /\ NoRange \notin live
    BY <1>1, LiveIsGrant
  <1>3. Release(r)
    BY <1>1, <1>2 DEF Release, NDShape
  <1>4. AllocInv' /\ AllocTypeOK'
    BY <1>1, <1>3, ReleaseInv DEF AllocInv
  <1>5. /\ pool'.generation = pool.generation /\ pool'.stale = pool.stale
        /\ pool'.claimed \subseteq Queues
    <2>1. pool \in Pools /\ pool' = [pool EXCEPT !.claimed = @ \ QueuesOf(r)]
      BY <1>1, ReleaseOfLive DEF AllocInv, AllocTypeOK
    <2>. QED  BY <2>1 DEF Pools
  <1>6. reta' = RoundRobin(pool'.claimed) /\ reta' \in [Buckets -> Queues]
    BY <1>5, RoundRobinEven DEF Refresh
  <1>7. /\ UNCHANGED <<state, range, reply, attempt, orphans, origin>>
        /\ \A t \in Tenants : (Holding(t)' <=> Holding(t)) /\ Granted(t)' = Granted(t)
    BY DEF tenantVars, Holding, Granted
  <1>8. reply \in [Tenants -> SUBSET (live' \cup {Refused})]
    <2>1. \A t \in Tenants : reply[t] \subseteq live' \cup {Refused}
      BY <1>1 DEF NDShape, Granted
    <2>. QED  BY <1>1, <2>1 DEF NDShape
  <1>9. NDTypeOK'
    <2>1. NoRange \in QueueRanges
      BY DEF NoRange, QueueRanges
    <2>2. \A t \in Tenants : reply'[t] \subseteq granted' \cup {Refused}
      BY <1>2, <1>7, <1>8
    <2>. QED  BY <1>1, <1>4, <1>6, <1>7, <2>1, <2>2 DEF NDTypeOK
  <1>10. NDShape'
    BY <1>1, <1>5, <1>6, <1>7, <1>8 DEF NDShape
  <1>11. PlacesLive'
    BY <1>1, <1>7 DEF PlacesLive
  <1>12. PlacesApart'
    <2>1. ASSUME NEW i \in Releases'
          PROVE  /\ inbox'[i].range # NoRange
                 /\ \A u \in Tenants : /\ inbox'[i].range \notin Granted(u)
                                       /\ Holding(u) => inbox'[i].range # range[u]
      BY <1>1, <1>2, <2>1 DEF PlacesApart
    <2>2. \A t \in Tenants : (Holding(t) => range[t] # NoRange) /\ NoRange \notin Granted(t)
      BY <1>1, <1>2 DEF PlacesLive, Granted, Refused
    <2>. QED  BY <1>1, <1>7, <2>1, <2>2 DEF PlacesApart
  <1>. QED  BY <1>3, <1>4, <1>9, <1>10, <1>11, <1>12 DEF NDInv

LEMMA RollBackInv ==
    ASSUME NDInv, RollBack
    PROVE  NDInv' /\ Release(rollback)
  <1>1. NDShape /\ PlacesLive /\ PlacesApart
    BY DEF NDInv
  <1>2. /\ rollback \in live /\ Release(rollback) /\ Refresh
        /\ rollback' = NoRange /\ inbox' = inbox /\ UNCHANGED <<tenantVars, incarnation>>
    BY <1>1 DEF RollBack, PlacesLive
  <1>3. pool' = AfterRelease(pool, rollback) /\ live' = live \ {rollback} /\ granted' = granted
    BY <1>2 DEF Release
  <1>4. Releases' = Releases /\ \A i \in Releases : inbox[i].range \in live \ {rollback}
    BY <1>1, <1>2 DEF Releases, PlacesLive, PlacesApart
  <1>5. /\ inbox' \in Seq(Messages)
        /\ \A t \in Tenants : (Holding(t) => range[t] # rollback) /\ rollback \notin Granted(t)
        /\ \A i, j \in Releases' : i # j => inbox'[i].range # inbox'[j].range
    BY <1>1, <1>2, <1>4 DEF NDShape, PlacesApart
  <1>. QED  BY <1>2, <1>3, <1>4, <1>5, ReturnInv

LEMMA HandleReleaseInv ==
    ASSUME NDInv, HandleRelease
    PROVE  NDInv' /\ inbox[1].range \in live /\ Release(inbox[1].range)
  <1>. DEFINE r == inbox[1].range
  <1>1. NDShape /\ PlacesLive /\ PlacesApart
    BY DEF NDInv
  <1>2. /\ inbox' \in Seq(Messages) /\ rollback = NoRange
        /\ 1 \in Releases /\ inbox[1] = Head(inbox)
        /\ \A i \in Releases' :
              /\ i + 1 \in Releases /\ i + 1 # 1 /\ inbox'[i] = inbox[i + 1]
              /\ \A j \in Releases' : i # j => i + 1 # j + 1
    BY TakeMessageFacts DEF HandleRelease
  <1>3. r \in live
    BY <1>1, <1>2 DEF PlacesLive
  <1>4. /\ pool' = AfterRelease(pool, r) /\ live' = live \ {r} /\ granted' = granted
        /\ Refresh /\ rollback' = NoRange /\ UNCHANGED <<tenantVars, incarnation>>
    BY <1>2 DEF HandleRelease
  <1>5. \A t \in Tenants : (Holding(t) => range[t] # r) /\ r \notin Granted(t)
    BY <1>1, <1>2 DEF PlacesApart
  <1>6. \A i \in Releases' : inbox'[i].range \in live \ {r} /\ \E k \in Releases : inbox'[i] = inbox[k]
    BY <1>1, <1>2 DEF PlacesLive, PlacesApart
  <1>7. \A i, j \in Releases' : i # j => inbox'[i].range # inbox'[j].range
    BY <1>1, <1>2 DEF PlacesApart
  <1>. HIDE DEF r
  <1>8. NDInv' /\ Release(r)
    BY <1>2, <1>3, <1>4, <1>5, <1>6, <1>7, ReturnInv
  <1>. QED  BY <1>3, <1>8 DEF r

LEMMA NDNextInv == NDInv /\ [NDNext]_NDvars => NDInv'
  <1>. SUFFICES ASSUME NDInv, [NDNext]_NDvars PROVE NDInv'
    OBVIOUS
  <1>1. CASE UNCHANGED NDvars
    <2>1. UNCHANGED <<pool, granted, live, inbox, rollback, reta, state, range, reply, attempt,
                      orphans, incarnation, origin>>
      BY <1>1 DEF NDvars, allocVars, tenantVars
    <2>2. AllocInv' /\ AllocTypeOK'
      BY <2>1, AllocUnchanged DEF NDInv, allocVars, AllocInv
    <2>. QED  BY <2>1, <2>2 DEF NDInv, NDTypeOK, NDShape, PlacesLive, PlacesApart, Holding,
                                Granted, Releases
  <1>. QED  BY <1>1, TenantStepInv, RefuseClaimInv, GrantClaimInv, RollBackInv, HandleReleaseInv
            DEF NDNext, DaemonStep

(* Platform::create, serve_nic and their handlers: for any number of queues, *)
(* tenants and requests, whatever times out, is lost or dies, two tenants    *)
(* never hold one queue, no release is refused, and the redirection table    *)
(* spreads the traffic evenly over the claimed queues.                       *)
THEOREM TenantsAlwaysIsolated == NDSpec => []TenantsIsolated
  <1>1. NDInv => TenantsIsolated
    <2>. SUFFICES ASSUME NDInv PROVE TenantsIsolated
      OBVIOUS
    <2>1. NDTypeOK /\ NDShape /\ PlacesLive /\ PlacesApart /\ AllocInv
      BY DEF NDInv
    <2>2. ExclusiveQueues
      BY <2>1 DEF ExclusiveQueues, PlacesLive, PlacesApart, AllocInv, LiveGrantsDisjoint
    <2>3. pool.claimed \subseteq Queues
      BY <2>1, LiveIsGrant
    <2>4. TableFollowsPool
      BY <2>1, <2>3, RoundRobinEven DEF TableFollowsPool, NDShape
    <2>. QED  BY <2>1, <2>2, <2>4 DEF TenantsIsolated, NoReleaseRejected, NDShape
  <1>. QED  BY <1>1, NDInitInv, NDNextInv, PTL DEF NDSpec

LEMMA NDStepRefines == NDInv /\ [NDNext]_NDvars => [AllocNext]_allocVars
  <1>. SUFFICES ASSUME NDInv, [NDNext]_NDvars PROVE [AllocNext]_allocVars
    OBVIOUS
  <1>1. AllocInv /\ NDShape
    BY DEF NDInv
  <1>2. ASSUME NEW r \in granted, Release(r) PROVE AllocNext
    <2>1. r \in AnyRange
      <3>1. /\ r.lo \in Nat /\ r.hi \in Nat /\ r.gen \in Nat /\ r.lo < r.hi /\ r.hi <= TotalQueues
            /\ r.gen <= pool.generation /\ pool.generation \in Nat /\ r \in QueueRanges
        BY <1>1 DEF AllocInv, AllocTypeOK, GenerationNamesGrant, Pools, QueueRanges
      <3>2. r.lo \in 0 .. TotalQueues /\ r.hi \in 0 .. TotalQueues + 1 /\ r.gen \in 0 .. MaxClaims + 1
        BY <1>1, <3>1 DEF NDShape
      <3>. QED  BY <3>1, <3>2 DEF AnyRange, QueueRanges
    <2>. QED  BY <1>2, <2>1 DEF AllocNext
  <1>3. CASE GrantClaim
    <2>1. Claim(Head(inbox).count) /\ Head(inbox).count \in Nat
      BY <1>3, TakeMessageFacts DEF GrantClaim
    <2>2. Head(inbox).count \in 0 .. TotalQueues + 1
      BY <2>1 DEF Claim, CanClaim
    <2>. QED  BY <2>1, <2>2 DEF AllocNext
  <1>4. CASE RollBack
    BY <1>1, <1>2, <1>4, RollBackInv, LiveIsGrant DEF RollBack, NDInv, PlacesLive
  <1>5. CASE HandleRelease
    BY <1>1, <1>2, <1>5, HandleReleaseInv, LiveIsGrant
  <1>6. CASE RefuseClaim \/ TenantStep \/ UNCHANGED NDvars
    BY <1>6 DEF RefuseClaim, TenantStep, Create, Timeout, TakeReply, BringupDone, GiveBack, Crash,
                SameDaemon, NDvars
  <1>. QED  BY <1>3, <1>4, <1>5, <1>6 DEF NDNext, DaemonStep

(* The daemon drives the allocator only through claim() and release() of     *)
(* ranges it granted, so every theorem of the allocator holds in it.         *)
THEOREM DaemonImplementsAllocator == NDSpec => ImplementsAllocator
  <1>1. NDInit => AllocInit
    BY DEF NDInit
  <1>. QED  BY <1>1, NDInitInv, NDNextInv, NDStepRefines, PTL
            DEF NDSpec, ImplementsAllocator, AllocSpec

-----------------------------------------------------------------------------
(* UserTcp: sequence numbers.                                              *)

USE UserTcpAssumption

\* The sequence number of position p of a stream whose initial number is b.
SeqAt(b, p) == Wrap(b + 1 + p)

\* Adding before or after the wrap.
LEMMA WrapPlus ==
    ASSUME NEW C \in Nat \ {0}, NEW x \in Int, NEW l \in Int
    PROVE  ((x % C) + l) % C = (x + l) % C
<1>1. PICK q \in Int, r \in 0..(C - 1) : r = x % C /\ x = C * q + r
    BY DivMod
<1>2. C * q \in Int /\ r \in Int
    BY <1>1
<1>3. x + l = (r + l) + C * q
    BY <1>1, <1>2
<1>4. r + l \in Int
    BY <1>2
<1>5. ((r + l) + C * q) % C = (r + l) % C
    BY <1>4, ModPlusMultiple
<1> QED
    BY <1>1, <1>3, <1>5

\* Positions below the wrap have numbers of their own, and come back from them.
LEMMA SeqAtFacts ==
    ASSUME NEW b \in 0..(SeqSpace - 1)
    PROVE  /\ \A p \in Nat : SeqAt(b, p) \in 0..(SeqSpace - 1)
           /\ \A p, q \in 0..(SeqSpace - 1) : SeqAt(b, p) = SeqAt(b, q) => p = q
           /\ \A p, l \in Nat : Wrap(SeqAt(b, p) + l) = SeqAt(b, p + l)
           /\ \A p \in 0..(SeqSpace - 1) : Wrap(SeqAt(b, p) - b - 1) = p
<1>0. PICK C \in Nat \ {0} : C = SeqSpace
    OBVIOUS
<1>1. ASSUME NEW p \in Nat PROVE SeqAt(b, p) \in 0..(SeqSpace - 1)
  <2>1. b + 1 + p \in Int
      OBVIOUS
  <2>2. (b + 1 + p) % C \in 0..(C - 1)
      BY <2>1, DivMod
  <2> QED
      BY <1>0, <2>2 DEF SeqAt, Wrap
<1>2. ASSUME NEW p \in 0..(SeqSpace - 1), NEW q \in 0..(SeqSpace - 1), p <= q, SeqAt(b, p) = SeqAt(b, q)
      PROVE  p = q
  <2>1. PICK x \in Int, y \in Int : x = b + 1 + p /\ y = b + 1 + q /\ x <= y /\ y < x + C
      BY <1>0, <1>2
  <2>2. x % C = y % C
      BY <1>0, <1>2, <2>1 DEF SeqAt, Wrap
  <2>3. x = y
      BY <2>1, <2>2, ModInjective
  <2> QED
      BY <2>1, <2>3
<1>3. ASSUME NEW p \in Nat, NEW l \in Nat PROVE Wrap(SeqAt(b, p) + l) = SeqAt(b, p + l)
  <2>1. PICK x \in Int : x = b + 1 + p
      OBVIOUS
  <2>2. ((x % C) + l) % C = (x + l) % C
    <3>1. l \in Int
        OBVIOUS
    <3> QED
        BY <3>1, WrapPlus
  <2>3. x + l = b + 1 + (p + l)
      BY <2>1
  <2> QED
      BY <1>0, <2>1, <2>2, <2>3 DEF SeqAt, Wrap
<1>4. ASSUME NEW p \in 0..(SeqSpace - 1) PROVE Wrap(SeqAt(b, p) - b - 1) = p
  <2>1. PICK x \in Int, l \in Int : x = b + 1 + p /\ l = -(b + 1)
      OBVIOUS
  <2>2. ((x % C) + l) % C = (x + l) % C
      BY WrapPlus
  <2>3. x + l = p /\ p \in Nat /\ p < C
      BY <1>0, <2>1
  <2>4. p % C = p
      BY <2>3
  <2>5. x % C \in Int /\ (x % C) + l = (x % C) - b - 1
    <3>1. x % C \in Int
        BY DivMod
    <3> QED
        BY <2>1, <3>1
  <2> QED
      BY <1>0, <2>1, <2>2, <2>3, <2>4, <2>5 DEF SeqAt, Wrap
<1>5. \A p, q \in 0..(SeqSpace - 1) : SeqAt(b, p) = SeqAt(b, q) => p = q
  <2> SUFFICES ASSUME NEW p \in 0..(SeqSpace - 1), NEW q \in 0..(SeqSpace - 1), SeqAt(b, p) = SeqAt(b, q)
               PROVE  p = q
      OBVIOUS
  <2>1. p <= q \/ q <= p
      OBVIOUS
  <2> QED
      BY <1>2, <2>1
<1> QED
    BY <1>1, <1>3, <1>4, <1>5

\* The peer's and our numbers are of that form.
LEMMA SeqNames ==
    \A p \in Nat : PeerSeq(p) = SeqAt(PeerIsn, p) /\ OurSeq(p) = SeqAt(isn, p)
BY DEF PeerSeq, OurSeq, SeqAt

-----------------------------------------------------------------------------
(* Positions delivered, and the reorder buffer.                            *)

\* Positions are a sequence of numbers, and consecutive ones join.
LEMMA PositionsJoin ==
    ASSUME NEW n \in Nat, NEW m \in Nat
    PROVE  /\ Positions(0, n) \in Seq(Nat) /\ Len(Positions(0, n)) = n
           /\ Positions(0, n) \o Positions(n, m) = Positions(0, n + m)
<1>1. \A a, k \in Nat : /\ Positions(a, k) \in Seq(Nat) /\ Len(Positions(a, k)) = k
                        /\ \A i \in 1..k : Positions(a, k)[i] = a + i - 1
  <2> SUFFICES ASSUME NEW a \in Nat, NEW k \in Nat
               PROVE  /\ Positions(a, k) \in Seq(Nat) /\ Len(Positions(a, k)) = k
                      /\ \A i \in 1..k : Positions(a, k)[i] = a + i - 1
      OBVIOUS
  <2>1. \A i \in 1..k : a + i - 1 \in Nat
      OBVIOUS
  <2>2. Positions(a, k) \in [1..k -> Nat] /\ \A i \in 1..k : Positions(a, k)[i] = a + i - 1
      BY <2>1 DEF Positions
  <2> QED
      BY <2>2
<1>2. PICK u \in Seq(Nat), v \in Seq(Nat), w \in Seq(Nat) :
          /\ u = Positions(0, n) /\ v = Positions(n, m) /\ w = Positions(0, n + m)
          /\ Len(u) = n /\ Len(v) = m /\ Len(w) = n + m
          /\ \A i \in 1..n : u[i] = i - 1
          /\ \A i \in 1..m : v[i] = n + i - 1
          /\ \A i \in 1..(n + m) : w[i] = i - 1
  <2>1. 0 \in Nat /\ n + m \in Nat
      OBVIOUS
  <2>2. Positions(0, n) \in Seq(Nat) /\ Len(Positions(0, n)) = n /\ \A i \in 1..n : Positions(0, n)[i] = 0 + i - 1
      BY <1>1, <2>1
  <2>3. Positions(n, m) \in Seq(Nat) /\ Len(Positions(n, m)) = m /\ \A i \in 1..m : Positions(n, m)[i] = n + i - 1
      BY <1>1
  <2>4. /\ Positions(0, n + m) \in Seq(Nat) /\ Len(Positions(0, n + m)) = n + m
        /\ \A i \in 1..(n + m) : Positions(0, n + m)[i] = 0 + i - 1
      BY <1>1, <2>1
  <2> QED
      BY <2>2, <2>3, <2>4
<1>3. /\ u \o v \in Seq(Nat) /\ Len(u \o v) = n + m
      /\ \A i \in 1..(n + m) : (u \o v)[i] = IF i <= n THEN u[i] ELSE v[i - n]
  <2>1. /\ u \o v \in Seq(Nat) /\ Len(u \o v) = Len(u) + Len(v)
        /\ \A i \in 1..(Len(u) + Len(v)) : (u \o v)[i] = IF i <= Len(u) THEN u[i] ELSE v[i - Len(u)]
      BY ConcatProperties
  <2>2. Len(u) = n /\ Len(v) = m
      BY <1>2
  <2> QED
      BY <2>1, <2>2
<1>4. \A i \in 1..(n + m) : (u \o v)[i] = w[i]
  <2> SUFFICES ASSUME NEW i \in 1..(n + m) PROVE (u \o v)[i] = w[i]
      OBVIOUS
  <2>1. CASE i <= n
    <3>1. i \in 1..n
        BY <2>1
    <3> QED
        BY <1>2, <1>3, <2>1, <3>1
  <2>2. CASE ~(i <= n)
    <3>1. i - n \in 1..m /\ n + (i - n) - 1 = i - 1
        BY <2>2
    <3> QED
        BY <1>2, <1>3, <2>2, <3>1
  <2> QED
      BY <2>1, <2>2
<1>5. u \o v = w
    BY <1>2, <1>3, <1>4, SeqEqual
<1> QED
    BY <1>2, <1>5

Entries == [seq : 0..(SeqSpace - 1), pos : 0..PeerBytes, len : 1..2]

\* A buffer of segments the peer has sent, when it has sent s bytes.
Buffered(buf, s) ==
    /\ buf \in Seq(Entries) /\ Len(buf) <= ReorderSlots
    /\ \A i \in 1..Len(buf) : buf[i].seq = PeerSeq(buf[i].pos) /\ buf[i].pos + buf[i].len <= s

\* The states draining goes through when s bytes were sent and m delivered before:
\* what is delivered was sent, and the number of the byte behind it is next.
Drains(s, m) ==
    {x \in [next : 0..(SeqSpace - 1), buf : Seq(Entries), got : Seq(Nat)] :
        /\ Buffered(x.buf, s) /\ x.got = Positions(0, Len(x.got)) /\ Len(x.got) \in m..s
        /\ x.next = PeerSeq(Len(x.got))}

\* Taking an element out and putting the last in its place.
LEMMA RemoveSwapped ==
    ASSUME NEW s \in Nat, NEW buf, Buffered(buf, s), NEW i \in 1..Len(buf)
    PROVE  Buffered(RemoveSwap(buf, i), s)
<1>1. PICK n \in Nat : n = Len(buf) /\ n >= 1 /\ buf \in Seq(Entries) /\ n <= ReorderSlots
    BY DEF Buffered
<1>2. PICK b : b = [buf EXCEPT ![i] = buf[n]]
    OBVIOUS
<1>3. b \in Seq(Entries) /\ Len(b) = n /\ \A j \in 1..n : b[j] = IF j = i THEN buf[n] ELSE buf[j]
    BY <1>1, <1>2
<1>4. PICK c : c = SubSeq(b, 1, n - 1)
    OBVIOUS
<1>5. c \in Seq(Entries) /\ Len(c) = n - 1 /\ \A j \in 1..(n - 1) : c[j] = b[j]
  <2>1. c = [j \in 1..(n - 1) |-> b[j]]
      BY <1>1, <1>3, <1>4
  <2>2. \A j \in 1..(n - 1) : b[j] \in Entries
      BY <1>1, <1>3
  <2> QED
      BY <1>1, <2>1, <2>2
<1>6. RemoveSwap(buf, i) = c
    BY <1>1, <1>2, <1>3, <1>4 DEF RemoveSwap
<1>7. ASSUME NEW j \in 1..Len(c) PROVE c[j].seq = PeerSeq(c[j].pos) /\ c[j].pos + c[j].len <= s
  <2>1. PICK k \in 1..n : c[j] = buf[k]
      BY <1>1, <1>3, <1>5
  <2> QED
      BY <1>1, <2>1 DEF Buffered
<1> QED
    BY <1>1, <1>5, <1>6, <1>7 DEF Buffered

\* One turn of the drain loop stays within them.
LEMMA DrainOnceStays ==
    ASSUME NEW s \in 0..PeerBytes, NEW m \in Nat, NEW x \in Drains(s, m)
    PROVE  DrainOnce(x) \in Drains(s, m)
<1> DEFINE hits == {i \in DOMAIN x.buf : x.buf[i].seq = x.next}
<1>1. PICK n \in Nat, buf \in Seq(Entries) :
          /\ n = Len(x.got) /\ n <= s /\ m <= n /\ buf = x.buf /\ Buffered(buf, s)
          /\ x.got = Positions(0, n) /\ x.next = PeerSeq(n)
    BY DEF Drains
<1>2. CASE hits = {}
    BY <1>2 DEF DrainOnce
<1>3. CASE hits # {}
  <2>1. hits \subseteq 1..Len(buf)
      BY <1>1
  <2>2. PICK i \in 1..Len(buf) : i = Min(hits) /\ i \in hits
    <3>0. hits \subseteq Nat
        BY <2>1
    <3> HIDE DEF hits
    <3>1. \E y \in hits : \A z \in hits : y <= z
        BY <1>3, <3>0, LeastNat
    <3>2. Min(hits) \in hits
        BY <3>1 DEF Min
    <3> QED
        BY <2>1, <3>2
  <2>3. PICK e \in Entries : e = buf[i]
      OBVIOUS
  <2>4. PICK p \in 0..PeerBytes, l \in 1..2 : p = e.pos /\ l = e.len
      BY DEF Entries
  <2>5. e.seq = PeerSeq(n) /\ e.seq = PeerSeq(p) /\ p + l <= s
      BY <1>1, <2>2, <2>3, <2>4 DEF Buffered
  <2>6. p = n
    <3>1. p \in 0..(SeqSpace - 1) /\ n \in 0..(SeqSpace - 1) /\ p \in Nat
        BY <1>1, <2>4
    <3>2. SeqAt(PeerIsn, p) = SeqAt(PeerIsn, n)
        BY <2>5, <3>1, SeqNames
    <3> QED
        BY <3>1, <3>2, SeqAtFacts
  <2>7. /\ Wrap(PeerSeq(n) + l) = PeerSeq(n + l) /\ PeerSeq(n + l) \in 0..(SeqSpace - 1)
        /\ n + l \in Nat
    <3>1. n \in Nat /\ l \in Nat /\ n + l \in Nat
        OBVIOUS
    <3>2. PeerSeq(n) = SeqAt(PeerIsn, n) /\ PeerSeq(n + l) = SeqAt(PeerIsn, n + l)
        BY <3>1, SeqNames
    <3> QED
        BY <3>1, <3>2, SeqAtFacts
  <2>8. PICK r : r = RemoveSwap(buf, i) /\ Buffered(r, s)
      BY <1>1, RemoveSwapped
  <2>9. /\ Positions(0, n + l) \in Seq(Nat) /\ Len(Positions(0, n + l)) = n + l
        /\ Positions(0, n) \o Positions(n, l) = Positions(0, n + l)
    <3>1. n \in Nat /\ l \in Nat /\ n + l \in Nat
        OBVIOUS
    <3>2. Positions(0, n) \o Positions(n, l) = Positions(0, n + l)
        BY <3>1, PositionsJoin
    <3>3. Positions(0, n + l) \in Seq(Nat) /\ Len(Positions(0, n + l)) = n + l
        BY <3>1, PositionsJoin
    <3> QED
        BY <3>2, <3>3
  <2>10. DrainOnce(x) = [next |-> PeerSeq(n + l), buf |-> r, got |-> Positions(0, n + l)]
    <3>1. DrainOnce(x) = [next |-> Wrap(x.next + x.buf[Min(hits)].len), buf |-> RemoveSwap(x.buf, Min(hits)),
                          got |-> x.got \o Positions(x.buf[Min(hits)].pos, x.buf[Min(hits)].len)]
        BY <1>3 DEF DrainOnce
    <3> HIDE DEF hits
    <3>2. x.buf[Min(hits)] = e
        BY <1>1, <2>2, <2>3
    <3> QED
        BY <1>1, <2>2, <2>4, <2>6, <2>7, <2>8, <2>9, <3>1, <3>2
  <2>11. r \in Seq(Entries)
      BY <2>8 DEF Buffered
  <2>12. n + l \in m..s
    <3>0. m <= n /\ p + l <= s /\ p = n
        BY <1>1, <2>5, <2>6
    <3>1. n + l <= s /\ m <= n /\ n + l \in Nat
        BY <3>0
    <3> QED
        BY <3>1
  <2>13. PICK y : y = [next |-> PeerSeq(n + l), buf |-> r, got |-> Positions(0, n + l)]
      OBVIOUS
  <2>14. y \in [next : 0..(SeqSpace - 1), buf : Seq(Entries), got : Seq(Nat)]
      BY <2>7, <2>9, <2>11, <2>13
  <2>15. Buffered(y.buf, s) /\ Len(y.got) = n + l /\ y.got = Positions(0, n + l) /\ y.next = PeerSeq(n + l)
      BY <2>8, <2>9, <2>13
  <2>16. y \in Drains(s, m)
      BY <2>12, <2>14, <2>15 DEF Drains
  <2> QED
      BY <2>10, <2>13, <2>16
<1> QED
    BY <1>2, <1>3

\* f repeats the step D from x on, n times, and stays within S.
RepeatsOn(f, S, x, D, n) ==
    f = [k \in 0..n |-> IF k = 0 THEN x ELSE D[f[k - 1]]] /\ \A k \in 0..n : f[k] \in S

\* A step on a set may be repeated n times.
LEMMA Repeats ==
    ASSUME NEW S, NEW x \in S, NEW D \in [S -> S], NEW n \in Nat
    PROVE  \E f : RepeatsOn(f, S, x, D, n)
<1> DEFINE Good == {m \in Nat : \E f : RepeatsOn(f, S, x, D, m)}
<1>1. 0 \in Good
  <2>1. PICK f : f = [k \in 0..0 |-> x]
      OBVIOUS
  <2>2. \A k \in 0..0 : k = 0
      OBVIOUS
  <2>3. f = [k \in 0..0 |-> IF k = 0 THEN x ELSE D[f[k - 1]]]
      BY <2>1, <2>2
  <2>4. RepeatsOn(f, S, x, D, 0)
      BY <2>1, <2>3 DEF RepeatsOn
  <2> QED
      BY <2>4
<1>2. ASSUME NEW m \in Nat, m \in Good PROVE m + 1 \in Good
  <2>1. PICK f : /\ f = [k \in 0..m |-> IF k = 0 THEN x ELSE D[f[k - 1]]]
                 /\ \A k \in 0..m : f[k] \in S
      BY <1>2 DEF RepeatsOn
  <2>2. PICK g : g = [k \in 0..(m + 1) |-> IF k = m + 1 THEN D[f[m]] ELSE f[k]]
      OBVIOUS
  <2>3. ASSUME NEW k \in 0..(m + 1) PROVE g[k] = (IF k = 0 THEN x ELSE D[g[k - 1]]) /\ g[k] \in S
    <3>1. CASE k = m + 1
      <4>1. k # 0 /\ k - 1 = m /\ m \in 0..(m + 1) /\ m # m + 1 /\ m \in 0..m
          BY <3>1
      <4>2. g[k] = D[f[m]] /\ g[m] = f[m]
          BY <2>2, <3>1, <4>1
      <4> QED
          BY <2>1, <4>1, <4>2
    <3>2. CASE k # m + 1
      <4>1. k \in 0..m /\ g[k] = f[k]
          BY <2>2, <3>2
      <4>2. k # 0 => k - 1 \in 0..(m + 1) /\ k - 1 # m + 1 /\ k - 1 \in 0..m
          BY <4>1
      <4>3. k # 0 => g[k - 1] = f[k - 1]
          BY <2>2, <4>2
      <4>4. f[k] = IF k = 0 THEN x ELSE D[f[k - 1]]
          BY <2>1, <4>1
      <4> QED
          BY <2>1, <4>1, <4>3, <4>4
    <3> QED
        BY <3>1, <3>2
  <2>4. g = [k \in 0..(m + 1) |-> g[k]]
      BY <2>2
  <2>5. g = [k \in 0..(m + 1) |-> IF k = 0 THEN x ELSE D[g[k - 1]]]
      BY <2>3, <2>4
  <2>6. RepeatsOn(g, S, x, D, m + 1)
      BY <2>3, <2>5 DEF RepeatsOn
  <2> QED
      BY <2>6
<1> HIDE DEF Good
<1>3. Nat \subseteq Good
    BY <1>1, <1>2, SetInduction
<1> QED
    BY <1>3 DEF Good

\* So does the loop.
LEMMA DrainStays ==
    ASSUME NEW s \in 0..PeerBytes, NEW m \in Nat, NEW x \in Drains(s, m)
    PROVE  drain_reorder_buf(x) \in Drains(s, m)
<1> DEFINE S == Drains(s, m)
           D == [y \in S |-> DrainOnce(y)]
           d == CHOOSE f : f = [k \in 0..ReorderSlots |-> IF k = 0 THEN x ELSE DrainOnce(f[k - 1])]
<1>1. D \in [S -> S]
    BY DrainOnceStays
<1>2. \E f : f = [k \in 0..ReorderSlots |-> IF k = 0 THEN x ELSE DrainOnce(f[k - 1])]
  <2>1. PICK f : /\ f = [k \in 0..ReorderSlots |-> IF k = 0 THEN x ELSE D[f[k - 1]]]
                 /\ \A k \in 0..ReorderSlots : f[k] \in S
    <3> HIDE DEF S, D
    <3>1. x \in S
        BY DEF S
    <3>2. \E f : RepeatsOn(f, S, x, D, ReorderSlots)
        BY <1>1, <3>1, Repeats
    <3> QED
        BY <3>2 DEF RepeatsOn
  <2>2. ASSUME NEW k \in 0..ReorderSlots, k # 0 PROVE D[f[k - 1]] = DrainOnce(f[k - 1])
    <3>1. k - 1 \in 0..ReorderSlots
        BY <2>2
    <3> QED
        BY <2>1, <3>1
  <2> HIDE DEF D, S
  <2>3. f = [k \in 0..ReorderSlots |-> IF k = 0 THEN x ELSE DrainOnce(f[k - 1])]
      BY <2>1, <2>2
  <2> QED
      BY <2>3
<1>3. d = [k \in 0..ReorderSlots |-> IF k = 0 THEN x ELSE DrainOnce(d[k - 1])]
    BY <1>2
<1>4. drain_reorder_buf(x) = d[ReorderSlots]
    BY DEF drain_reorder_buf
<1> HIDE DEF d
<1> DEFINE G == {k \in Nat : k <= ReorderSlots => d[k] \in Drains(s, m)}
<1>5. 0 \in G
    BY <1>3
<1>6. ASSUME NEW k \in Nat, k \in G PROVE k + 1 \in G
  <2> SUFFICES ASSUME k + 1 <= ReorderSlots PROVE d[k + 1] \in Drains(s, m)
      OBVIOUS
  <2>1. k + 1 \in 0..ReorderSlots /\ k + 1 # 0 /\ (k + 1) - 1 = k
      OBVIOUS
  <2>2. d[k + 1] = DrainOnce(d[k])
      BY <1>3, <2>1
  <2>3. d[k] \in Drains(s, m)
      BY <1>6
  <2> QED
      BY <2>2, <2>3, DrainOnceStays
<1> HIDE DEF G
<1>7. Nat \subseteq G
    BY <1>5, <1>6, SetInduction
<1> QED
    BY <1>4, <1>7 DEF G

-----------------------------------------------------------------------------
(* The inductive invariant.                                                *)

FinSeen == {"CloseWait", "Closing", "LastAck", "TimeWait"}
Up(st) == st \notin {"Closed", "SynSent"}
\* The peer's FIN is counted in rcv_nxt_ from the states on that have seen it.
Counted(st) == IF st \in FinSeen THEN 1 ELSE 0

SessionTyped ==
    /\ tcpState \in TcpStates
    /\ sndNxt \in 0..(SeqSpace - 1) /\ sndUna \in 0..(SeqSpace - 1)
    /\ rcvNxt \in 0..(SeqSpace - 1) /\ isn \in 0..(SeqSpace - 1)
    /\ ackDue \in BOOLEAN /\ mss \in 1..MaxMss /\ misses \in 0..Probes /\ failed \in BOOLEAN
    /\ sent \in 0..(OurBytes + 1) /\ peer \in PeerStates

\* rcv_nxt_ is the number behind what was delivered, and the FIN once it was seen.
ReceivedTrue ==
    /\ got = Positions(0, Len(got)) /\ Len(got) \in 0..peer.sent
    /\ Buffered(reorder, peer.sent)
    /\ tcpState = "SynSent" => Len(got) = 0 /\ peer.una = 0
    /\ Up(tcpState) => /\ rcvNxt = PeerSeq(Len(got) + Counted(tcpState))
                       /\ peer.una <= Len(got) + Counted(tcpState)
    /\ tcpState \in FinSeen => Len(got) = PeerBytes /\ peer.fin

\* snd_nxt_ is the number behind what was sent, and snd_una_ that of a position the
\* peer has reached.
SentTrue ==
    /\ peer.rcv <= sent /\ lostAt \in Nat
    /\ tcpState = "SynSent" => sent = 0 /\ sndNxt = SeqAt(isn, 0)
    /\ Up(tcpState) => /\ sndNxt = SeqAt(isn, sent)
                       /\ \E u \in 0..peer.rcv : sndUna = SeqAt(isn, u)
    /\ tcpState \in {"FinWait2", "TimeWait"} => peer.rcv = sent
    /\ endedBy = "acked" => tcpState = "Closed" /\ peer.rcv = sent
    /\ tcpState \in {"SynSent", "Established", "CloseWait"} => sent <= OurBytes

UTInv == SessionTyped /\ ReceivedTrue /\ SentTrue

\* The smaller of two.
LEMMA MinOfTwo ==
    ASSUME NEW a \in Int, NEW b \in Int
    PROVE  Min({a, b}) = IF a <= b THEN a ELSE b
<1>1. PICK c \in Int : c = (IF a <= b THEN a ELSE b) /\ c \in {a, b} /\ c <= a /\ c <= b
    OBVIOUS
<1>2. \A x \in {a, b} : (\A y \in {a, b} : x <= y) => x = c
    BY <1>1
<1>3. \E x \in {a, b} : \A y \in {a, b} : x <= y
    BY <1>1
<1>4. Min({a, b}) \in {a, b} /\ \A y \in {a, b} : Min({a, b}) <= y
    BY <1>3 DEF Min
<1> QED
    BY <1>1, <1>2, <1>4

\* Where rcv_nxt_ lies in the peer's stream.
LEMMA RcvPosIs ==
    ASSUME UTInv, Up(tcpState)
    PROVE  RcvPos = Len(got) + Counted(tcpState) /\ RcvPos \in 0..(PeerBytes + 1) /\ peer.una <= RcvPos
<1>1. PICK n \in 0..PeerBytes, c \in 0..1 : n = Len(got) /\ c = Counted(tcpState)
    BY DEF UTInv, SessionTyped, PeerStates, ReceivedTrue, Counted
<1>2. PICK p \in 0..(SeqSpace - 1) : p = n + c /\ p \in 0..(PeerBytes + 1) /\ p \in Nat
    BY <1>1
<1>3. rcvNxt = SeqAt(PeerIsn, p)
    BY <1>1, <1>2, SeqNames DEF UTInv, ReceivedTrue
<1>4. Wrap(SeqAt(PeerIsn, p) - PeerIsn - 1) = p
    BY SeqAtFacts
<1>5. RcvPos = p
    BY <1>3, <1>4 DEF RcvPos
<1> QED
    BY <1>1, <1>2, <1>5 DEF UTInv, ReceivedTrue

\* Where snd_una_ lies in ours.
LEMMA UnaPosIs ==
    ASSUME UTInv, Up(tcpState)
    PROVE  UnaPos <= peer.rcv
<1>1. PICK u \in 0..peer.rcv : sndUna = SeqAt(isn, u)
    BY DEF UTInv, SentTrue
<1>2. u \in 0..(SeqSpace - 1) /\ isn \in 0..(SeqSpace - 1) /\ u <= peer.rcv
    BY DEF UTInv, SessionTyped, PeerStates
<1>3. Wrap(SeqAt(isn, u) - isn - 1) = u
    BY <1>2, SeqAtFacts
<1> QED
    BY <1>1, <1>2, <1>3 DEF UnaPos

\* The peer sends and learns more, the session's receive side unchanged.
LEMMA ReceivedKept ==
    ASSUME UTInv, UNCHANGED <<got, reorder, rcvNxt, tcpState>>, peer' \in PeerStates,
           peer'.sent >= peer.sent, peer.fin => peer'.fin,
           peer'.una = peer.una \/ (Up(tcpState) /\ peer'.una = RcvPos)
    PROVE  ReceivedTrue'
<1>1. PICK n \in Nat, s \in 0..PeerBytes, t \in 0..PeerBytes :
          n = Len(got) /\ s = peer.sent /\ t = peer'.sent /\ n <= s /\ s <= t
    BY DEF UTInv, SessionTyped, PeerStates, ReceivedTrue
<1>2. Buffered(reorder, t)
  <2>1. reorder \in Seq(Entries) /\ Len(reorder) <= ReorderSlots
      BY DEF UTInv, ReceivedTrue, Buffered
  <2>2. ASSUME NEW i \in 1..Len(reorder)
        PROVE  reorder[i].seq = PeerSeq(reorder[i].pos) /\ reorder[i].pos + reorder[i].len <= t
    <3>1. PICK e \in Entries : e = reorder[i]
        BY <2>1
    <3>2. e.seq = PeerSeq(e.pos) /\ e.pos + e.len <= s
        BY <1>1, <3>1 DEF UTInv, ReceivedTrue, Buffered
    <3>3. e.pos + e.len \in Nat
        BY DEF Entries
    <3> QED
        BY <1>1, <3>1, <3>2, <3>3
  <2> QED
      BY <2>1, <2>2 DEF Buffered
<1>3. Up(tcpState) => peer'.una <= Len(got) + Counted(tcpState)
    BY RcvPosIs DEF UTInv, ReceivedTrue
<1>4. tcpState = "SynSent" => peer'.una = 0
    BY DEF UTInv, ReceivedTrue, Up
<1>5. Len(got') \in 0..peer'.sent /\ got' = Positions(0, Len(got'))
    BY <1>1 DEF UTInv, ReceivedTrue
<1>6. Buffered(reorder', peer'.sent)
    BY <1>1, <1>2
<1> QED
    BY <1>3, <1>4, <1>5, <1>6 DEF UTInv, ReceivedTrue, Up, Counted, FinSeen

\* The peer receives more of what was sent, the session's send side unchanged.
LEMMA SentKept ==
    ASSUME UTInv, UNCHANGED <<isn, sndNxt, sndUna, sent, tcpState, endedBy, lostAt>>, peer' \in PeerStates,
           peer'.rcv >= peer.rcv, peer'.rcv <= sent
    PROVE  SentTrue'
<1>1. PICK r \in Nat, q \in Nat, n \in Nat :
          r = peer.rcv /\ q = peer'.rcv /\ n = sent /\ r <= q /\ q <= n
    BY DEF UTInv, SessionTyped, PeerStates
<1>2. Up(tcpState) => \E u \in 0..q : sndUna = SeqAt(isn, u)
  <2> SUFFICES ASSUME Up(tcpState) PROVE \E u \in 0..q : sndUna = SeqAt(isn, u)
      OBVIOUS
  <2>1. PICK u \in 0..r : sndUna = SeqAt(isn, u)
      BY <1>1 DEF UTInv, SentTrue
  <2>2. u \in 0..q
      BY <1>1
  <2> QED
      BY <2>1, <2>2
<1>3. r = n => q = n
    BY <1>1
<1> QED
    BY <1>1, <1>2, <1>3 DEF UTInv, SentTrue, Up

\* An acknowledgement that arrives.
LEMMA AckArrived ==
    ASSUME UTInv, Up(tcpState)
    PROVE  LET q == AckArrives(peer) IN
           /\ q \in PeerStates /\ q.sent = peer.sent /\ q.fin = peer.fin /\ q.rcv = peer.rcv
           /\ q.una = peer.una \/ q.una = RcvPos
<1>1. PICK p \in PeerStates, k \in 0..(PeerBytes + 1) : p = peer /\ k = RcvPos
    BY RcvPosIs DEF UTInv, SessionTyped
<1>2. PICK v \in 0..(PeerBytes + 1) : v = (IF k > p.una THEN k ELSE p.una) /\ (v = p.una \/ v = k)
    BY DEF PeerStates
<1>3. AckArrives(peer) = [p EXCEPT !.una = v]
    BY <1>1, <1>2 DEF AckArrives
<1>4. PICK q : q = [p EXCEPT !.una = v]
    OBVIOUS
<1>5. q \in PeerStates /\ q.sent = p.sent /\ q.fin = p.fin /\ q.rcv = p.rcv /\ q.una = v
    BY <1>4 DEF PeerStates
<1> QED
    BY <1>1, <1>2, <1>3, <1>4, <1>5

\* The session ends, or is reset.
LEMMA EndKeeps ==
    ASSUME UTInv, tcpState' = "Closed", endedBy' # "acked", UNCHANGED <<got, sent, lostAt, peer>>,
           reorder' = reorder \/ reorder' = << >>
    PROVE  ReceivedTrue' /\ SentTrue'
<1>1. Buffered(<< >>, peer.sent)
  <2>1. << >> \in Seq(Entries) /\ Len(<< >>) = 0
      OBVIOUS
  <2> QED
      BY <2>1 DEF Buffered
<1>2. Buffered(reorder', peer'.sent)
    BY <1>1 DEF UTInv, ReceivedTrue
<1>3. ReceivedTrue'
    BY <1>2 DEF UTInv, ReceivedTrue, Up, FinSeen
<1>4. SentTrue'
    BY DEF UTInv, SentTrue, Up
<1> QED
    BY <1>3, <1>4

\* Positions go out, and the state that follows is open to no less.
LEMMA PutKeeps ==
    ASSUME UTInv, Up(tcpState), NEW n \in Nat, PutOnWire(n), sent + n <= OurBytes + 1,
           UNCHANGED <<sndUna, rcvNxt, reorder, got, isn, endedBy>>,
           \/ tcpState' = tcpState /\ tcpState = "Established" /\ sent + n <= OurBytes
           \/ tcpState = "Established" /\ tcpState' = "FinWait1"
           \/ tcpState = "CloseWait" /\ tcpState' = "LastAck"
    PROVE  /\ ReceivedTrue' /\ SentTrue'
           /\ sndNxt' \in 0..(SeqSpace - 1) /\ sent' \in 0..(OurBytes + 1) /\ peer' \in PeerStates
           /\ tcpState' \in TcpStates
<1>1. PICK w \in 0..(OurBytes + 1) : w = sent /\ w \in Nat
    BY DEF UTInv, SessionTyped
<1>2. sndNxt' = Wrap(sndNxt + n) /\ sent' = w + n /\ sent' \in 0..(OurBytes + 1)
    BY <1>1 DEF PutOnWire
<1>3. sndNxt' = SeqAt(isn, w + n) /\ sndNxt' \in 0..(SeqSpace - 1)
  <2>1. sndNxt = SeqAt(isn, w) /\ isn \in 0..(SeqSpace - 1) /\ w + n \in Nat
      BY <1>1 DEF UTInv, SentTrue, SessionTyped
  <2>2. Wrap(SeqAt(isn, w) + n) = SeqAt(isn, w + n)
      BY <1>1, <2>1, SeqAtFacts
  <2>3. SeqAt(isn, w + n) \in 0..(SeqSpace - 1)
      BY <2>1, SeqAtFacts
  <2> QED
      BY <1>2, <2>1, <2>2, <2>3
<1>4. /\ peer' \in PeerStates /\ peer'.sent = peer.sent /\ peer'.fin = peer.fin /\ peer'.rcv = peer.rcv
      /\ peer'.una = peer.una \/ peer'.una = RcvPos
  <2>1. peer' = peer \/ peer' = AckArrives(peer)
      BY DEF PutOnWire
  <2> QED
      BY <2>1, AckArrived DEF UTInv, SessionTyped
<1>5. lostAt' \in Nat
  <2>1. lostAt \in Int /\ sent \in Int /\ lostAt \in Nat /\ sent \in Nat
      BY <1>1 DEF UTInv, SentTrue
  <2>2. Min({lostAt, sent}) \in Nat
      BY <2>1, MinOfTwo
  <2> QED
      BY <2>1, <2>2 DEF PutOnWire
<1>6. /\ Up(tcpState') /\ Counted(tcpState') = Counted(tcpState) /\ (tcpState' \in FinSeen <=> tcpState \in FinSeen)
      /\ tcpState' \notin {"FinWait2", "TimeWait", "SynSent", "CloseWait"} /\ tcpState' \in TcpStates
      /\ tcpState' = "Established" => sent + n <= OurBytes
    BY DEF Up, Counted, FinSeen, TcpStates
<1>7. ReceivedTrue'
  <2>1. peer'.una <= Len(got) + Counted(tcpState)
      BY <1>4, RcvPosIs DEF UTInv, ReceivedTrue
  <2>2. rcvNxt = PeerSeq(Len(got) + Counted(tcpState))
      BY DEF UTInv, ReceivedTrue
  <2> HIDE DEF Counted
  <2> QED
      BY <1>4, <1>6, <2>1, <2>2 DEF UTInv, ReceivedTrue
<1>8. SentTrue'
  <2>1. endedBy # "acked"
      BY DEF UTInv, SentTrue, Up
  <2>2. \E u \in 0..peer'.rcv : sndUna' = SeqAt(isn', u)
      BY <1>4 DEF UTInv, SentTrue
  <2>3. peer'.rcv <= sent'
    <3>1. PICK r \in Nat : r = peer.rcv /\ r <= w
        BY <1>1 DEF UTInv, SentTrue, SessionTyped, PeerStates
    <3> QED
        BY <1>1, <1>2, <1>4, <3>1
  <2> QED
      BY <1>1, <1>2, <1>3, <1>5, <1>6, <2>1, <2>2, <2>3 DEF SentTrue
<1> QED
    BY <1>2, <1>3, <1>4, <1>6, <1>7, <1>8

\* What the acknowledgement makes of the state.
AckTrue(st, una) ==
    /\ st \in TcpStates /\ st # "SynSent"
    /\ Up(st) => Counted(st) = Counted(tcpState) /\ (st \in FinSeen <=> tcpState \in FinSeen)
    /\ st \in {"FinWait2", "TimeWait", "Closed"} => peer.rcv = sent
    /\ st \in {"Established", "CloseWait"} => st = tcpState
    /\ una = sndNxt => peer.rcv = sent
    /\ una \in 0..(SeqSpace - 1) /\ \E u \in 0..peer.rcv : una = SeqAt(isn, u)

\* An acknowledgement of the peer's moves snd_una_ to a position it has reached, and
\* a state that says all is acknowledged is entered only when it is.
LEMMA AckIsTrue ==
    ASSUME UTInv, Up(tcpState), NEW a \in 0..peer.rcv
    PROVE  AckTrue(AfterAck(Acked(OurSeq(a))), Acked(OurSeq(a)))
<1>1. PICK r \in 0..(OurBytes + 1), w \in 0..(OurBytes + 1) : r = peer.rcv /\ w = sent /\ r <= w
    BY DEF UTInv, SessionTyped, PeerStates, SentTrue
<1>2. isn \in 0..(SeqSpace - 1)
    BY DEF UTInv, SessionTyped
<1>3. PICK una : una = Acked(OurSeq(a))
    OBVIOUS
<1>4. PICK u \in 0..r : una = SeqAt(isn, u)
  <2>1. a \in Nat /\ a \in 0..r
      BY <1>1
  <2>2. OurSeq(a) = SeqAt(isn, a)
      BY <2>1, SeqNames
  <2>3. una = OurSeq(a) \/ una = sndUna
      BY <1>3 DEF Acked
  <2>4. \E u \in 0..r : sndUna = SeqAt(isn, u)
      BY <1>1 DEF UTInv, SentTrue
  <2> QED
      BY <2>1, <2>2, <2>3, <2>4
<1>5. una \in 0..(SeqSpace - 1)
    BY <1>1, <1>2, <1>4, SeqAtFacts
<1>6. una = sndNxt => r = w
  <2> SUFFICES ASSUME una = sndNxt PROVE r = w
      OBVIOUS
  <2>1. SeqAt(isn, u) = SeqAt(isn, w)
      BY <1>1, <1>4 DEF UTInv, SentTrue
  <2>2. u \in 0..(SeqSpace - 1) /\ w \in 0..(SeqSpace - 1)
      BY <1>1
  <2>3. u = w
      BY <1>2, <2>1, <2>2, SeqAtFacts
  <2> QED
      BY <1>1, <2>3
<1>7. PICK st : st = AfterAck(una)
    OBVIOUS
<1>8. \/ st = tcpState
      \/ una = sndNxt /\ tcpState = "FinWait1" /\ st = "FinWait2"
      \/ una = sndNxt /\ tcpState = "Closing" /\ st = "TimeWait"
      \/ una = sndNxt /\ tcpState = "LastAck" /\ st = "Closed"
  <2>1. CASE una = sndNxt /\ tcpState = "FinWait1"
      BY <1>7, <2>1 DEF AfterAck
  <2>2. CASE una = sndNxt /\ tcpState = "Closing"
      BY <1>7, <2>2 DEF AfterAck
  <2>3. CASE una = sndNxt /\ tcpState = "LastAck"
      BY <1>7, <2>3 DEF AfterAck
  <2>4. CASE ~(una = sndNxt /\ tcpState \in {"FinWait1", "Closing", "LastAck"})
      BY <1>7, <2>4 DEF AfterAck
  <2> QED
      BY <2>1, <2>2, <2>3, <2>4
<1>9. st \in TcpStates /\ st # "SynSent"
    BY <1>8 DEF UTInv, SessionTyped, Up, TcpStates
<1>10. Up(st) => Counted(st) = Counted(tcpState) /\ (st \in FinSeen <=> tcpState \in FinSeen)
    BY <1>8 DEF Up, Counted, FinSeen
<1>11. st \in {"FinWait2", "TimeWait", "Closed"} => r = w
    BY <1>1, <1>6, <1>8 DEF UTInv, SentTrue, Up
<1>12. st \in {"Established", "CloseWait"} => st = tcpState
    BY <1>8
<1> QED
    BY <1>1, <1>3, <1>4, <1>5, <1>6, <1>7, <1>9, <1>10, <1>11, <1>12 DEF AckTrue

\* A segment of data that is not next: kept if there is room for it.
LEMMA OutOfOrderKeeps ==
    ASSUME UTInv, Up(tcpState), NEW st, NEW una, AckTrue(st, una), st \in Receiving,
           NEW seg \in Segments, seg.len > 0, OutOfOrder(seg, st), UNCHANGED peer
    PROVE  ReceivedTrue' /\ tcpState' = st /\ rcvNxt' = rcvNxt /\ ackDue' = ackDue /\ failed' \in BOOLEAN
<1>1. tcpState' = st /\ UNCHANGED <<rcvNxt, got, ackDue>>
    BY DEF OutOfOrder
<1>2. failed' \in BOOLEAN
    BY DEF OutOfOrder, UTInv, SessionTyped
<1>3. PICK s \in 0..PeerBytes, p \in 0..PeerBytes, l \in 1..2 :
          s = peer.sent /\ p = seg.pos /\ l = seg.len /\ p + l <= s
    BY DEF Segments, UTInv, SessionTyped, PeerStates
<1>4. Buffered(reorder', s)
  <2>1. Buffered(reorder, s)
      BY <1>3 DEF UTInv, ReceivedTrue
  <2>2. CASE UNCHANGED reorder
      BY <2>1, <2>2
  <2>3. CASE Room /\ reorder' = Append(reorder, [seq |-> PeerSeq(seg.pos), pos |-> seg.pos, len |-> seg.len])
    <3>1. PICK e : e = [seq |-> PeerSeq(p), pos |-> p, len |-> l]
        OBVIOUS
    <3>2. PeerSeq(p) \in 0..(SeqSpace - 1)
      <4>1. p \in Nat
          OBVIOUS
      <4> QED
          BY <4>1, SeqNames, SeqAtFacts
    <3>3. e \in Entries /\ e.seq = PeerSeq(e.pos) /\ e.pos + e.len <= s
        BY <1>3, <3>1, <3>2 DEF Entries
    <3>4. reorder' = Append(reorder, e)
        BY <1>3, <2>3, <3>1
    <3>5. PICK k \in Nat : k = Len(reorder) /\ reorder \in Seq(Entries) /\ k < ReorderSlots
        BY <2>1, <2>3 DEF Buffered, Room
    <3>6. reorder' \in Seq(Entries) /\ Len(reorder') = k + 1 /\ Len(reorder') <= ReorderSlots
        BY <3>3, <3>4, <3>5
    <3>7. ASSUME NEW i \in 1..Len(reorder')
          PROVE  reorder'[i].seq = PeerSeq(reorder'[i].pos) /\ reorder'[i].pos + reorder'[i].len <= s
      <4>1. i = k + 1 \/ i \in 1..k
          BY <3>5, <3>6
      <4>2. CASE i = k + 1
        <5>1. reorder'[i] = e
            BY <3>3, <3>4, <3>5, <4>2
        <5> QED
            BY <3>3, <5>1
      <4>3. CASE i \in 1..k
        <5>1. reorder'[i] = reorder[i]
            BY <3>3, <3>4, <3>5, <4>3
        <5> QED
            BY <2>1, <3>5, <4>3, <5>1 DEF Buffered
      <4> QED
          BY <4>1, <4>2, <4>3
    <3> QED
        BY <3>6, <3>7 DEF Buffered
  <2> QED
      BY <2>2, <2>3 DEF OutOfOrder
<1>5. Up(st) /\ st # "SynSent"
    BY DEF Receiving, Up
<1>6. Counted(st) = Counted(tcpState) /\ (st \in FinSeen <=> tcpState \in FinSeen)
    BY <1>5 DEF AckTrue
<1> HIDE DEF Counted
<1>7. ReceivedTrue'
    BY <1>1, <1>3, <1>4, <1>5, <1>6 DEF UTInv, ReceivedTrue
<1> QED
    BY <1>1, <1>2, <1>7

\* What has been taken in when the data of a segment that is next was handed on.
TakenTrue(x, st) ==
    /\ Buffered(x.buf, peer.sent) /\ x.got = Positions(0, Len(x.got))
    /\ Len(x.got) \in Len(got)..peer.sent /\ x.next \in 0..(SeqSpace - 1)
    /\ Up(st) => x.next = PeerSeq(Len(x.got) + Counted(st))
    /\ st \in FinSeen => Len(x.got) = PeerBytes

\* Whatever Taken makes of a segment the peer sent is true of the stream.
LEMMA TakenIsTrue ==
    ASSUME UTInv, Up(tcpState), NEW st, NEW una, AckTrue(st, una), NEW seg \in Segments,
           ~(st \in Receiving /\ seg.len > 0 /\ PeerSeq(seg.pos) # rcvNxt)
    PROVE  TakenTrue(Taken(seg, st), st)
<1>1. PICK s \in 0..PeerBytes, p \in 0..PeerBytes, l \in 0..2, n \in 0..PeerBytes :
          s = peer.sent /\ p = seg.pos /\ l = seg.len /\ p + l <= s /\ n = Len(got) /\ n <= s
    BY DEF Segments, UTInv, SessionTyped, PeerStates, ReceivedTrue
<1>2. /\ Buffered(reorder, s) /\ got = Positions(0, n) /\ rcvNxt \in 0..(SeqSpace - 1)
      /\ rcvNxt = PeerSeq(n + Counted(tcpState))
      /\ tcpState \in FinSeen => n = PeerBytes
    BY <1>1 DEF UTInv, ReceivedTrue, SessionTyped
<1>3. st \in FinSeen => tcpState \in FinSeen
    BY DEF AckTrue, Up, FinSeen
<1>4. Up(st) => Counted(st) = Counted(tcpState)
    BY DEF AckTrue
<1>5. PICK here : here = [next |-> rcvNxt, buf |-> reorder, got |-> got]
    OBVIOUS
<1>6. CASE ~(seg.len > 0 /\ st \in Receiving)
  <2>1. Taken(seg, st) = here
      BY <1>5, <1>6 DEF Taken
  <2>2. here.next = rcvNxt /\ here.buf = reorder /\ here.got = got
      BY <1>5
  <2> HIDE DEF Counted
  <2>3. n \in n..s
      BY <1>1
  <2> QED
      BY <1>1, <1>2, <1>3, <1>4, <2>1, <2>2, <2>3 DEF TakenTrue
<1>7. CASE seg.len > 0 /\ st \in Receiving
  <2>1. PeerSeq(p) = PeerSeq(n + Counted(tcpState)) /\ l \in 1..2 /\ Up(st)
    <3>1. Up(st)
        BY <1>7 DEF Receiving, Up
    <3>2. l > 0 /\ l \in 1..2
        BY <1>1, <1>7
    <3>3. PeerSeq(p) = rcvNxt
        BY <1>1, <1>7
    <3> QED
        BY <1>2, <3>1, <3>2, <3>3
  <2>2. PICK c \in 0..1 : c = Counted(tcpState) /\ (c = 1 => n = PeerBytes) /\ c = Counted(st)
                          /\ (st \in FinSeen => c = 1)
      BY <1>2, <1>3, <1>4, <2>1 DEF Counted
  <2>3. p = n + c
    <3>1. p \in 0..(SeqSpace - 1) /\ n + c \in 0..(SeqSpace - 1) /\ p \in Nat /\ n + c \in Nat
        BY <1>1
    <3>2. SeqAt(PeerIsn, p) = SeqAt(PeerIsn, n + c)
        BY <2>1, <2>2, <3>1, SeqNames
    <3> QED
        BY <3>1, <3>2, SeqAtFacts
  <2>4. c = 0 /\ p = n /\ n + l <= s
    <3>1. p + l <= s /\ l \in 1..2 /\ (c = 1 => n = PeerBytes) /\ p = n + c
        BY <1>1, <2>1, <2>2, <2>3
    <3> QED
        BY <3>1
  <2>5. Wrap(rcvNxt + l) = PeerSeq(n + l) /\ PeerSeq(n + l) \in 0..(SeqSpace - 1)
    <3>1. n \in Nat /\ l \in Nat /\ n + l \in Nat /\ n + c = n
        BY <2>4
    <3>2. rcvNxt = SeqAt(PeerIsn, n) /\ PeerSeq(n + l) = SeqAt(PeerIsn, n + l)
        BY <1>2, <2>2, <3>1, SeqNames
    <3> QED
        BY <3>1, <3>2, SeqAtFacts
  <2>6. /\ Positions(0, n + l) \in Seq(Nat) /\ Len(Positions(0, n + l)) = n + l
        /\ got \o Positions(p, l) = Positions(0, n + l)
    <3>1. n \in Nat /\ l \in Nat /\ n + l \in Nat
        OBVIOUS
    <3>2. Positions(0, n) \o Positions(n, l) = Positions(0, n + l)
        BY <3>1, PositionsJoin
    <3>3. Positions(0, n + l) \in Seq(Nat) /\ Len(Positions(0, n + l)) = n + l
        BY <3>1, PositionsJoin
    <3> QED
        BY <1>2, <2>4, <3>2, <3>3
  <2>7. PICK x : x = [next |-> PeerSeq(n + l), buf |-> reorder, got |-> Positions(0, n + l)]
      OBVIOUS
  <2>8. Taken(seg, st) = drain_reorder_buf(x)
    <3>1. [here EXCEPT !.next = Wrap(here.next + seg.len), !.got = here.got \o Positions(seg.pos, seg.len)] = x
      <4>1. here.next = rcvNxt /\ here.buf = reorder /\ here.got = got
          BY <1>5
      <4>2. Wrap(here.next + seg.len) = PeerSeq(n + l) /\ here.got \o Positions(seg.pos, seg.len) = Positions(0, n + l)
          BY <1>1, <2>5, <2>6, <4>1
      <4>3. [here EXCEPT !.next = PeerSeq(n + l), !.got = Positions(0, n + l)] = x
        <5>1. PICK k, g : k = PeerSeq(n + l) /\ g = Positions(0, n + l)
            OBVIOUS
        <5>2. [here EXCEPT !.next = k, !.got = g] = [next |-> k, buf |-> reorder, got |-> g]
          <6>1. here = [next |-> rcvNxt, buf |-> reorder, got |-> got]
              BY <1>5
          <6> QED
            <7>1. PICK i : i = [here EXCEPT !.next = k]
                OBVIOUS
            <7>2. i = [next |-> k, buf |-> reorder, got |-> got]
                BY <6>1, <7>1
            <7>3. [i EXCEPT !.got = g] = [next |-> k, buf |-> reorder, got |-> g]
                BY <7>2
            <7>4. [here EXCEPT !.next = k, !.got = g] = [[here EXCEPT !.next = k] EXCEPT !.got = g]
                OBVIOUS
            <7> QED
                BY <7>1, <7>3, <7>4
        <5> QED
            BY <2>7, <5>1, <5>2
      <4> QED
          BY <4>2, <4>3
    <3>2. Taken(seg, st) = drain_reorder_buf([here EXCEPT !.next = Wrap(here.next + seg.len),
                                                          !.got = here.got \o Positions(seg.pos, seg.len)])
        BY <1>5, <1>7 DEF Taken
    <3> QED
        BY <3>1, <3>2
  <2>9. x \in Drains(s, n)
    <3>1. reorder \in Seq(Entries)
        BY <1>2 DEF Buffered
    <3>2. x \in [next : 0..(SeqSpace - 1), buf : Seq(Entries), got : Seq(Nat)]
        BY <2>5, <2>6, <2>7, <3>1
    <3>3. n + l \in n..s
        BY <2>4
    <3>4. Buffered(x.buf, s) /\ Len(x.got) = n + l /\ x.got = Positions(0, n + l) /\ x.next = PeerSeq(n + l)
        BY <1>2, <2>6, <2>7
    <3> QED
        BY <3>2, <3>3, <3>4 DEF Drains
  <2>10. PICK y : y = Taken(seg, st) /\ y \in Drains(s, n)
    <3>1. n \in Nat
        OBVIOUS
    <3> QED
        BY <2>8, <2>9, <3>1, DrainStays
  <2>11. /\ Buffered(y.buf, s) /\ y.got = Positions(0, Len(y.got)) /\ Len(y.got) \in n..s
         /\ y.next = PeerSeq(Len(y.got)) /\ y.next \in 0..(SeqSpace - 1)
      BY <2>10 DEF Drains
  <2>12. Len(y.got) + Counted(st) = Len(y.got)
      BY <2>2, <2>4, <2>11
  <2>13. st \notin FinSeen
      BY <2>2, <2>4
  <2> HIDE DEF Counted
  <2> QED
      BY <1>1, <2>10, <2>11, <2>12, <2>13 DEF TakenTrue
<1> QED
    BY <1>6, <1>7

\* A segment that is next, with the peer's FIN or without: the FIN is taken only
\* behind all of the peer's data, and once.
LEMMA InOrderKeeps ==
    ASSUME UTInv, Up(tcpState), NEW st, NEW una, AckTrue(st, una), NEW seg \in Segments,
           ~(st \in Receiving /\ seg.len > 0 /\ PeerSeq(seg.pos) # rcvNxt),
           InOrder(seg, st, una), UNCHANGED peer
    PROVE  /\ ReceivedTrue' /\ rcvNxt' \in 0..(SeqSpace - 1) /\ ackDue' \in BOOLEAN /\ UNCHANGED failed
           /\ \/ tcpState' = st
              \/ st = "Established" /\ tcpState' = "CloseWait"
              \/ st = "FinWait1" /\ tcpState' = "Closing"
              \/ ((st = "FinWait1" /\ una = sndNxt) \/ st = "FinWait2") /\ tcpState' = "TimeWait"
<1>1. PICK x : x = Taken(seg, st) /\ TakenTrue(x, st)
    BY TakenIsTrue
<1>2. PICK s \in 0..PeerBytes, n \in 0..PeerBytes, o \in 0..PeerBytes :
          s = peer.sent /\ n = Len(x.got) /\ o = Len(got) /\ o <= n /\ n <= s
    BY <1>1 DEF TakenTrue, UTInv, SessionTyped, PeerStates, ReceivedTrue
<1>3. /\ Buffered(x.buf, s) /\ x.got = Positions(0, n) /\ x.next \in 0..(SeqSpace - 1)
      /\ Up(st) => x.next = PeerSeq(n + Counted(st))
      /\ st \in FinSeen => n = PeerBytes
    BY <1>1, <1>2 DEF TakenTrue
<1>4. PICK fin \in BOOLEAN : fin = (seg.fin /\ FinSeq(seg) = x.next /\ AfterFin(st, una) # st)
    OBVIOUS
<1>5. /\ rcvNxt' = Wrap(x.next + (IF fin THEN 1 ELSE 0)) /\ reorder' = x.buf /\ got' = x.got
      /\ ackDue' = (ackDue \/ x.next # rcvNxt \/ fin)
      /\ tcpState' = (IF fin THEN AfterFin(st, una) ELSE st) /\ UNCHANGED failed
    BY <1>1, <1>4 DEF InOrder
<1>6. ackDue' \in BOOLEAN
    BY <1>5 DEF UTInv, SessionTyped
<1>7. Up(tcpState) /\ peer.una <= o + Counted(tcpState)
    BY <1>2 DEF UTInv, ReceivedTrue
<1>8. st # "SynSent" /\ (Up(st) => Counted(st) = Counted(tcpState) /\ (st \in FinSeen => peer.fin))
    BY DEF AckTrue, UTInv, ReceivedTrue
<1>9. PICK v \in Nat : v = peer.una
    BY DEF UTInv, SessionTyped, PeerStates
<1>10. CASE ~fin
  <2>1. tcpState' = st /\ rcvNxt' = Wrap(x.next)
      BY <1>3, <1>5, <1>10
  <2>2. Wrap(x.next) = x.next
    <3>1. PICK k \in 0..(SeqSpace - 1) : k = x.next
        BY <1>3
    <3>2. k % SeqSpace = k
        OBVIOUS
    <3> QED
        BY <3>1, <3>2 DEF Wrap
  <2>3. Up(st) => v <= n + Counted(st)
    <3>1. Counted(tcpState) \in 0..1
        BY DEF Counted
    <3> HIDE DEF Counted
    <3> QED
        BY <1>2, <1>7, <1>8, <1>9, <3>1
  <2>4. st \in FinSeen => peer.fin
      BY <1>8 DEF Up, FinSeen
  <2> HIDE DEF Counted
  <2>5. n \in 0..s
      BY <1>2
  <2>6. ReceivedTrue'
      BY <1>2, <1>3, <1>5, <1>8, <1>9, <2>1, <2>2, <2>3, <2>4, <2>5 DEF ReceivedTrue
  <2> QED
      BY <1>3, <1>5, <1>6, <2>1, <2>2, <2>6
<1>11. CASE fin
  <2>1. seg.fin /\ FinSeq(seg) = x.next /\ AfterFin(st, una) # st
      BY <1>4, <1>11
  <2>2. st \in {"Established", "FinWait1", "Closing", "FinWait2"} /\ Up(st)
      BY <2>1 DEF AfterFin, Up
  <2>3. PICK c \in 0..1 : c = Counted(st) /\ (c = 1 => n = PeerBytes) /\ (c = 0 => st \notin FinSeen)
      BY <1>3 DEF Counted
  <2>4. peer.fin /\ seg.pos + seg.len = PeerBytes
      BY <2>1 DEF Segments
  <2>5. PeerSeq(PeerBytes) = PeerSeq(n + c)
      BY <1>3, <2>1, <2>2, <2>3, <2>4 DEF FinSeq
  <2>6. PeerBytes = n + c
    <3>1. PeerBytes \in 0..(SeqSpace - 1) /\ n + c \in 0..(SeqSpace - 1) /\ n + c \in Nat
        BY <1>2
    <3>2. SeqAt(PeerIsn, PeerBytes) = SeqAt(PeerIsn, n + c)
        BY <2>5, <3>1, SeqNames
    <3> QED
        BY <3>1, <3>2, SeqAtFacts
  <2>7. c = 0 /\ n = PeerBytes
      BY <2>3, <2>6
  <2>8. st \in {"Established", "FinWait1", "FinWait2"}
      BY <2>2, <2>3, <2>7 DEF FinSeen
  <2>9. \/ st = "Established" /\ tcpState' = "CloseWait"
        \/ st = "FinWait1" /\ tcpState' = "Closing"
        \/ ((st = "FinWait1" /\ una = sndNxt) \/ st = "FinWait2") /\ tcpState' = "TimeWait"
      BY <1>5, <1>11, <2>8 DEF AfterFin
  <2>10. tcpState' \in FinSeen /\ Up(tcpState') /\ Counted(tcpState') = 1 /\ tcpState' # "SynSent"
      BY <2>9 DEF FinSeen, Up, Counted
  <2>11. rcvNxt' = PeerSeq(n + 1) /\ rcvNxt' \in 0..(SeqSpace - 1)
    <3>1. n \in Nat /\ 1 \in Nat /\ n + 1 \in Nat /\ n + c = n
        BY <2>7
    <3>2. x.next = SeqAt(PeerIsn, n) /\ PeerSeq(n + 1) = SeqAt(PeerIsn, n + 1)
        BY <1>3, <2>2, <2>3, <3>1, SeqNames
    <3>3. rcvNxt' = Wrap(SeqAt(PeerIsn, n) + 1)
        BY <1>5, <1>11, <3>2
    <3>4. Wrap(SeqAt(PeerIsn, n) + 1) = SeqAt(PeerIsn, n + 1)
        BY <3>1, SeqAtFacts
    <3>5. SeqAt(PeerIsn, n + 1) \in 0..(SeqSpace - 1)
        BY <3>1, SeqAtFacts
    <3> QED
        BY <3>2, <3>3, <3>4, <3>5
  <2>12. v <= n + 1
    <3>1. Counted(tcpState) \in 0..1
        BY DEF Counted
    <3> HIDE DEF Counted
    <3> QED
        BY <1>2, <1>7, <1>9, <3>1
  <2> HIDE DEF Counted
  <2>13. n \in 0..s
      BY <1>2
  <2>14. ReceivedTrue'
      BY <1>2, <1>3, <1>5, <1>9, <2>4, <2>7, <2>10, <2>11, <2>12, <2>13 DEF ReceivedTrue
  <2> QED
      BY <1>5, <1>6, <2>9, <2>11, <2>14
<1> QED
    BY <1>10, <1>11

\* process_rx on any segment of the peer's, with any acknowledgement it has sent.
LEMMA RxKeeps ==
    ASSUME UTInv, NEW seg \in Segments, NEW a \in 0..peer.rcv, process_rx(seg, OurSeq(a))
    PROVE  UTInv'
<1>1. PICK una, st : una = Acked(OurSeq(a)) /\ st = AfterAck(una)
    OBVIOUS
<1>2. /\ Live /\ UNCHANGED <<sndNxt, mss, isn, sent, lostAt, peer>>
      /\ sndUna' = una /\ misses' = 0 /\ endedBy' = (IF st = "Closed" THEN "acked" ELSE endedBy)
      /\ IF st \in Receiving /\ seg.len > 0 /\ PeerSeq(seg.pos) # rcvNxt
         THEN OutOfOrder(seg, st) ELSE InOrder(seg, st, una)
    BY <1>1 DEF process_rx
<1>3. Up(tcpState)
    BY <1>2 DEF Live, Up
<1>4. AckTrue(st, una)
    BY <1>1, <1>3, AckIsTrue
<1>5. /\ ReceivedTrue' /\ rcvNxt' \in 0..(SeqSpace - 1) /\ ackDue' \in BOOLEAN /\ failed' \in BOOLEAN
      /\ \/ tcpState' = st
         \/ st = "Established" /\ tcpState' = "CloseWait"
         \/ st = "FinWait1" /\ tcpState' = "Closing"
         \/ ((st = "FinWait1" /\ una = sndNxt) \/ st = "FinWait2") /\ tcpState' = "TimeWait"
  <2>1. CASE st \in Receiving /\ seg.len > 0 /\ PeerSeq(seg.pos) # rcvNxt
    <3>1. OutOfOrder(seg, st)
        BY <1>2, <2>1
    <3>2. ReceivedTrue' /\ tcpState' = st /\ rcvNxt' = rcvNxt /\ ackDue' = ackDue /\ failed' \in BOOLEAN
        BY <1>2, <1>3, <1>4, <2>1, <3>1, OutOfOrderKeeps
    <3> QED
        BY <3>2 DEF UTInv, SessionTyped
  <2>2. CASE ~(st \in Receiving /\ seg.len > 0 /\ PeerSeq(seg.pos) # rcvNxt)
    <3>1. InOrder(seg, st, una)
        BY <1>2, <2>2
    <3>2. /\ ReceivedTrue' /\ rcvNxt' \in 0..(SeqSpace - 1) /\ ackDue' \in BOOLEAN /\ UNCHANGED failed
          /\ \/ tcpState' = st
             \/ st = "Established" /\ tcpState' = "CloseWait"
             \/ st = "FinWait1" /\ tcpState' = "Closing"
             \/ ((st = "FinWait1" /\ una = sndNxt) \/ st = "FinWait2") /\ tcpState' = "TimeWait"
        BY <1>2, <1>3, <1>4, <2>2, <3>1, InOrderKeeps
    <3> QED
        BY <3>2 DEF UTInv, SessionTyped
  <2> QED
      BY <2>1, <2>2
<1>6. tcpState' \in TcpStates /\ tcpState' # "SynSent"
    BY <1>4, <1>5 DEF AckTrue, TcpStates
<1>7. SessionTyped'
    BY <1>2, <1>4, <1>5, <1>6 DEF UTInv, SessionTyped, AckTrue
<1>8. /\ peer.rcv <= sent /\ lostAt \in Nat /\ sndNxt = SeqAt(isn, sent)
      /\ \E u \in 0..peer.rcv : una = SeqAt(isn, u)
    BY <1>3, <1>4 DEF UTInv, SentTrue, AckTrue
<1>9. tcpState' \in {"FinWait2", "TimeWait"} => peer.rcv = sent
    BY <1>4, <1>5 DEF AckTrue
<1>10. endedBy' = "acked" => tcpState' = "Closed" /\ peer.rcv = sent
    BY <1>2, <1>3, <1>4, <1>5 DEF UTInv, SentTrue, AckTrue, Up
<1>11. tcpState' \in {"Established", "CloseWait"} => sent <= OurBytes
    BY <1>4, <1>5 DEF UTInv, SentTrue, AckTrue
<1>12. SentTrue'
    BY <1>2, <1>6, <1>8, <1>9, <1>10, <1>11 DEF SentTrue
<1> QED
    BY <1>5, <1>7, <1>12 DEF UTInv

\* A session that was never connected.
LEMMA UTInitInv == UTInit => UTInv
<1> SUFFICES ASSUME UTInit PROVE UTInv
    OBVIOUS
<1>1. FreshPeer \in PeerStates /\ FreshPeer.sent = 0 /\ FreshPeer.rcv = 0 /\ FreshPeer.una = 0
    BY DEF FreshPeer, PeerStates
<1>2. SessionTyped
  <2>1. ackDue \in BOOLEAN /\ failed \in BOOLEAN
      BY DEF UTInit
  <2> QED
      BY <1>1, <2>1 DEF UTInit, SessionTyped, TcpStates
<1>3. Len(got) = 0 /\ got = Positions(0, 0)
    BY DEF UTInit, Positions
<1>4. Buffered(reorder, 0)
  <2>1. reorder \in Seq(Entries) /\ Len(reorder) = 0
      BY DEF UTInit
  <2> QED
      BY <2>1 DEF Buffered
<1>5. tcpState = "Closed" /\ endedBy = "none" /\ sent = 0 /\ lostAt \in Nat /\ peer = FreshPeer
    BY DEF UTInit, NotLost
<1>6. ReceivedTrue
    BY <1>1, <1>3, <1>4, <1>5 DEF ReceivedTrue, Up, FinSeen
<1>7. SentTrue
    BY <1>1, <1>5 DEF SentTrue, Up
<1> QED
    BY <1>2, <1>6, <1>7 DEF UTInv

\* A new connection starts from nothing, whatever the last one left.
LEMMA ConnectKeeps ==
    ASSUME UTInv, begin_connect
    PROVE  UTInv'
<1>1. FreshPeer \in PeerStates /\ FreshPeer.sent = 0 /\ FreshPeer.rcv = 0 /\ FreshPeer.una = 0
    BY DEF FreshPeer, PeerStates
<1>2. PICK ok \in BOOLEAN : /\ tcpState' = (IF ok THEN "SynSent" ELSE "Closed")
                            /\ sndNxt' = Wrap(isn' + (IF ok THEN 1 ELSE 0))
    BY DEF begin_connect
<1>3. /\ isn' \in Isns /\ sndUna' = isn' /\ rcvNxt' = 0 /\ reorder' = << >> /\ ackDue' = FALSE
      /\ mss' = MaxMss /\ misses' = 0 /\ failed' = FALSE /\ got' = << >> /\ sent' = 0 /\ lostAt' = NotLost
      /\ endedBy' = "none" /\ peer' = FreshPeer
    BY DEF begin_connect, ClearedReorder
<1>4. PICK b \in 0..(SeqSpace - 1) : b = isn'
    BY <1>3
<1>5. sndNxt' \in 0..(SeqSpace - 1) /\ (ok => sndNxt' = SeqAt(b, 0))
  <2>1. CASE ok
    <3>1. sndNxt' = Wrap(b + 1) /\ b + 1 = b + 1 + 0 /\ 0 \in Nat
        BY <1>2, <1>4, <2>1
    <3>2. sndNxt' = SeqAt(b, 0)
        BY <3>1 DEF SeqAt
    <3> QED
        BY <3>1, <3>2, SeqAtFacts
  <2>2. CASE ~ok
    <3>1. sndNxt' = Wrap(b + 0)
        BY <1>2, <1>4, <2>2
    <3>2. (b + 0) % SeqSpace = b
        OBVIOUS
    <3> QED
        BY <2>2, <3>1, <3>2 DEF Wrap
  <2> QED
      BY <2>1, <2>2
<1>6. SessionTyped'
  <2>1. ackDue' \in BOOLEAN /\ failed' \in BOOLEAN
      BY <1>3
  <2>2. tcpState' \in TcpStates
      BY <1>2 DEF TcpStates
  <2>3. mss' \in 1..MaxMss /\ misses' \in 0..Probes /\ rcvNxt' \in 0..(SeqSpace - 1) /\ sent' \in 0..(OurBytes + 1)
      BY <1>3
  <2> QED
      BY <1>1, <1>3, <1>4, <1>5, <2>1, <2>2, <2>3 DEF SessionTyped
<1>7. Len(got') = 0 /\ got' = Positions(0, 0)
    BY <1>3 DEF Positions
<1>8. Buffered(reorder', 0)
  <2>1. reorder' \in Seq(Entries) /\ Len(reorder') = 0
      BY <1>3
  <2> QED
      BY <2>1 DEF Buffered
<1>9. ReceivedTrue'
    BY <1>1, <1>2, <1>3, <1>7, <1>8 DEF ReceivedTrue, Up, FinSeen
<1>10. SentTrue'
  <2>1. lostAt' \in Nat
      BY <1>3 DEF NotLost
  <2>2. tcpState' = "SynSent" => ok
      BY <1>2
  <2> QED
      BY <1>1, <1>2, <1>3, <1>4, <1>5, <2>1, <2>2 DEF SentTrue, Up
<1> QED
    BY <1>6, <1>9, <1>10 DEF UTInv

\* The handshake's last step sets the numbers of both directions.
LEMMA SynAckKeeps ==
    ASSUME UTInv, HandshakeSynAck
    PROVE  UTInv'
<1>1. /\ tcpState = "SynSent" /\ rcvNxt' = PeerSeq(0) /\ sndUna' = sndNxt /\ mss' \in 1..mss
      /\ UNCHANGED <<sndNxt, reorder, ackDue, misses, failed, isn, got, sent, lostAt, endedBy>>
      /\ \/ UNCHANGED <<tcpState, peer>>
         \/ tcpState' = "Established" /\ (peer' = [peer EXCEPT !.up = "open"] \/ UNCHANGED peer)
    BY DEF HandshakeSynAck, SynAcked, history
<1>2. PICK p \in PeerStates : p = peer
    BY DEF UTInv, SessionTyped
<1>3. /\ peer' \in PeerStates /\ peer'.sent = peer.sent /\ peer'.fin = peer.fin
      /\ peer'.rcv = peer.rcv /\ peer'.una = peer.una
  <2>1. CASE peer' = peer
      BY <1>2, <2>1
  <2>2. CASE peer' = [p EXCEPT !.up = "open"]
      BY <1>2, <2>2 DEF PeerStates
  <2> QED
      BY <1>1, <1>2, <2>1, <2>2
<1>4. PeerSeq(0) \in 0..(SeqSpace - 1)
  <2>1. 0 \in Nat
      OBVIOUS
  <2> QED
      BY <2>1, SeqNames, SeqAtFacts
<1>5. tcpState' \in {"SynSent", "Established"}
    BY <1>1
<1>6. SessionTyped'
  <2>1. mss' \in 1..MaxMss
      BY <1>1 DEF UTInv, SessionTyped
  <2> QED
      BY <1>1, <1>3, <1>4, <1>5, <2>1 DEF UTInv, SessionTyped, TcpStates
<1>7. Len(got) = 0 /\ peer.una = 0 /\ sent = 0 /\ sndNxt = SeqAt(isn, 0) /\ peer.rcv \in Nat /\ endedBy # "acked"
    BY <1>1, <1>2 DEF UTInv, ReceivedTrue, SentTrue, PeerStates
<1>8. Counted(tcpState') = 0 /\ tcpState' \notin FinSeen
    BY <1>5 DEF Counted, FinSeen
<1>9. ReceivedTrue'
  <2>1. Len(got') + Counted(tcpState') = 0
      BY <1>1, <1>7, <1>8
  <2> HIDE DEF Counted
  <2> QED
      BY <1>1, <1>3, <1>7, <1>8, <2>1 DEF UTInv, ReceivedTrue
<1>10. SentTrue'
  <2>1. 0 \in 0..peer'.rcv
      BY <1>3, <1>7
  <2>2. peer'.rcv <= sent' /\ lostAt' \in Nat
      BY <1>1, <1>3 DEF UTInv, SentTrue
  <2> QED
      BY <1>1, <1>5, <1>7, <2>1, <2>2 DEF SentTrue
<1> QED
    BY <1>6, <1>9, <1>10 DEF UTInv

\* The peer's own steps.
LEMMA PeerKeeps ==
    ASSUME UTInv, maybe_retransmit_syn \/ PeerSends \/ PeerReceives \/ PeerDies
    PROVE  UTInv'
<1>1. UNCHANGED <<tcpState, sndNxt, sndUna, rcvNxt, reorder, ackDue, mss, misses, failed,
                  isn, got, sent, lostAt, endedBy>>
    BY DEF maybe_retransmit_syn, PeerSends, PeerReceives, PeerDies, history
<1>2. PICK p \in PeerStates : p = peer
    BY DEF UTInv, SessionTyped
<1>3. \/ peer' = [p EXCEPT !.up = "handshake"] \/ peer' = [p EXCEPT !.up = "dead"]
      \/ p.sent < PeerBytes /\ peer' = [p EXCEPT !.sent = p.sent + 1]
      \/ peer' = [p EXCEPT !.fin = TRUE]
      \/ p.rcv < sent /\ peer' = [p EXCEPT !.rcv = p.rcv + 1]
  <2>1. CASE PeerReceives
    <3>1. p.rcv < Min({sent, lostAt}) /\ peer' = [p EXCEPT !.rcv = p.rcv + 1]
        BY <1>2, <2>1 DEF PeerReceives
    <3>2. sent \in Int /\ lostAt \in Int
        BY DEF UTInv, SessionTyped, SentTrue
    <3>3. Min({sent, lostAt}) = IF sent <= lostAt THEN sent ELSE lostAt
        BY <3>2, MinOfTwo
    <3>4. p.rcv \in Int
        BY DEF PeerStates
    <3> QED
        BY <3>1, <3>2, <3>3, <3>4
  <2>2. CASE maybe_retransmit_syn \/ PeerSends \/ PeerDies
      BY <1>2, <2>2 DEF maybe_retransmit_syn, PeerSends, PeerDies
  <2> QED
      BY <2>1, <2>2
<1>4. sent \in 0..(OurBytes + 1) /\ p.rcv <= sent
    BY <1>2 DEF UTInv, SessionTyped, SentTrue
<1>5. /\ peer' \in PeerStates /\ peer'.sent >= p.sent /\ (p.fin => peer'.fin) /\ peer'.una = p.una
      /\ peer'.rcv >= p.rcv /\ peer'.rcv <= sent
  <2>1. CASE peer' = [p EXCEPT !.up = "handshake"] \/ peer' = [p EXCEPT !.up = "dead"]
      BY <1>4, <2>1 DEF PeerStates
  <2>2. CASE p.sent < PeerBytes /\ peer' = [p EXCEPT !.sent = p.sent + 1]
      BY <1>4, <2>2 DEF PeerStates
  <2>3. CASE peer' = [p EXCEPT !.fin = TRUE]
    <3>1. peer'.fin = TRUE /\ peer'.sent = p.sent /\ peer'.una = p.una /\ peer'.rcv = p.rcv
        BY <2>3 DEF PeerStates
    <3>2. TRUE \in BOOLEAN
        OBVIOUS
    <3>3. peer' \in PeerStates
        BY <2>3, <3>2 DEF PeerStates
    <3>4. peer'.sent >= p.sent /\ peer'.rcv >= p.rcv /\ peer'.rcv <= sent
        BY <1>4, <3>1 DEF PeerStates
    <3>5. p.fin => peer'.fin
        BY <3>1
    <3> QED
        BY <3>1, <3>3, <3>4, <3>5
  <2>4. CASE p.rcv < sent /\ peer' = [p EXCEPT !.rcv = p.rcv + 1]
      BY <1>4, <2>4 DEF PeerStates
  <2> QED
      BY <1>3, <2>1, <2>2, <2>3, <2>4
<1>6. ReceivedTrue'
    BY <1>1, <1>2, <1>5, ReceivedKept
<1>7. SentTrue'
    BY <1>1, <1>2, <1>5, SentKept
<1>8. SessionTyped'
    BY <1>1, <1>5 DEF UTInv, SessionTyped
<1> QED
    BY <1>6, <1>7, <1>8 DEF UTInv

\* A bare acknowledgement, which arrives or is lost.
LEMMA BareAckKeeps ==
    ASSUME UTInv, Up(tcpState), peer' \in AckSent(peer) \cup {peer},
           UNCHANGED <<tcpState, sndNxt, sndUna, rcvNxt, reorder, mss, failed, isn, got, sent, lostAt, endedBy>>,
           ackDue' \in BOOLEAN, misses' \in 0..Probes
    PROVE  UTInv'
<1>1. peer' = peer \/ peer' = AckArrives(peer)
    BY DEF AckSent
<1>2. PICK p \in PeerStates : p = peer
    BY DEF UTInv, SessionTyped
<1>3. /\ peer' \in PeerStates /\ peer'.sent = p.sent /\ peer'.fin = p.fin /\ peer'.rcv = p.rcv
      /\ peer'.una = p.una \/ peer'.una = RcvPos
    BY <1>1, <1>2, AckArrived
<1>4. p.sent \in Nat /\ p.rcv \in Nat /\ p.rcv <= sent
    BY <1>2 DEF UTInv, SentTrue, PeerStates
<1>5. ReceivedTrue'
    BY <1>2, <1>3, <1>4, ReceivedKept
<1>6. SentTrue'
    BY <1>2, <1>3, <1>4, SentKept
<1>7. SessionTyped'
    BY <1>3 DEF UTInv, SessionTyped
<1> QED
    BY <1>5, <1>6, <1>7 DEF UTInv

\* Data or a FIN goes out.
LEMMA OutKeeps ==
    ASSUME UTInv, Up(tcpState), NEW n \in Nat, PutOnWire(n),
           UNCHANGED <<sndUna, rcvNxt, reorder, mss, misses, failed, got, isn, endedBy>>, ackDue' \in BOOLEAN,
           \/ tcpState' = tcpState /\ tcpState = "Established" /\ sent + n <= OurBytes
           \/ n = 1 /\ tcpState = "Established" /\ tcpState' = "FinWait1"
           \/ n = 1 /\ tcpState = "CloseWait" /\ tcpState' = "LastAck"
    PROVE  UTInv'
<1>1. sent + n <= OurBytes + 1
    BY DEF UTInv, SessionTyped, SentTrue
<1>2. /\ ReceivedTrue' /\ SentTrue' /\ sndNxt' \in 0..(SeqSpace - 1) /\ sent' \in 0..(OurBytes + 1)
      /\ peer' \in PeerStates /\ tcpState' \in TcpStates
    BY <1>1, PutKeeps
<1>3. SessionTyped'
    BY <1>2 DEF UTInv, SessionTyped
<1> QED
    BY <1>2, <1>3 DEF UTInv

\* Every step of the session, of its peer and of the network keeps the invariant.
LEMMA UTNextInv == UTInv /\ [UTNext]_UTvars => UTInv'
<1> SUFFICES ASSUME UTInv, [UTNext]_UTvars PROVE UTInv'
    OBVIOUS
<1>1. CASE HandshakeEnds
  <2>1. /\ tcpState' = "Closed" /\ endedBy' # "acked"
        /\ UNCHANGED <<sndNxt, sndUna, rcvNxt, reorder, ackDue, mss, misses, failed, isn, got, sent, lostAt, peer>>
      BY <1>1 DEF HandshakeEnds
  <2>2. ReceivedTrue' /\ SentTrue'
      BY <2>1, EndKeeps
  <2>3. SessionTyped'
      BY <2>1 DEF UTInv, SessionTyped, TcpStates
  <2> QED
      BY <2>2, <2>3 DEF UTInv
<1>2. ASSUME NEW n \in 1..MaxMss, send(n) \/ build_data_packet(n) PROVE UTInv'
  <2>1. /\ Up(tcpState) /\ PutOnWire(n) /\ tcpState = "Established" /\ sent + n <= OurBytes
        /\ UNCHANGED <<tcpState, sndUna, rcvNxt, reorder, mss, misses, failed, isn, got, endedBy>>
      BY <1>2 DEF send, build_data_packet, Live, Up
  <2>2. ackDue' \in BOOLEAN
      BY <1>2 DEF send, build_data_packet, UTInv, SessionTyped
  <2>3. n \in Nat
      OBVIOUS
  <2> QED
      BY <2>1, <2>2, <2>3, OutKeeps
<1>3. ASSUME NEW n1 \in 1..MaxMss, NEW n2 \in 1..MaxMss, send_batch(n1, n2) PROVE UTInv'
  <2>1. PICK n \in {n1, n1 + n2} : PutOnWire(n)
      BY <1>3 DEF send_batch
  <2>2. /\ Up(tcpState) /\ tcpState = "Established" /\ sent + n1 + n2 <= OurBytes
        /\ UNCHANGED <<tcpState, sndUna, rcvNxt, reorder, mss, misses, failed, isn, got, endedBy>>
      BY <1>3 DEF send_batch, Live, Up
  <2>3. ackDue' \in BOOLEAN
      BY <1>3 DEF send_batch
  <2>4. n \in Nat /\ sent + n <= OurBytes
    <3>1. sent \in Nat
        BY DEF UTInv, SessionTyped
    <3> QED
        BY <2>2, <3>1
  <2> QED
      BY <2>1, <2>2, <2>3, <2>4, OutKeeps
<1>4. CASE flush_pending_ack
  <2>1. /\ Up(tcpState) /\ peer' \in AckSent(peer) \cup {peer}
        /\ UNCHANGED <<tcpState, sndNxt, sndUna, rcvNxt, reorder, mss, misses, failed, isn, got, sent, lostAt, endedBy>>
      BY <1>4 DEF flush_pending_ack, FlushFails, history, Live, Up
  <2>2. ackDue' \in BOOLEAN
      BY <1>4 DEF flush_pending_ack, FlushFails, UTInv, SessionTyped
  <2>3. misses' \in 0..Probes
      BY <2>1 DEF UTInv, SessionTyped
  <2> QED
      BY <2>1, <2>2, <2>3, BareAckKeeps
<1>5. CASE tick_keepalive
  <2>1. CASE misses >= Probes
    <3>1. /\ tcpState' = "Closed" /\ endedBy' # "acked"
          /\ UNCHANGED <<sndNxt, sndUna, rcvNxt, reorder, ackDue, mss, misses, failed, isn, got, sent, lostAt, peer>>
        BY <1>5, <2>1 DEF tick_keepalive
    <3>2. ReceivedTrue' /\ SentTrue'
        BY <3>1, EndKeeps
    <3>3. SessionTyped'
        BY <3>1 DEF UTInv, SessionTyped, TcpStates
    <3> QED
        BY <3>2, <3>3 DEF UTInv
  <2>2. CASE ~(misses >= Probes)
    <3>1. /\ Up(tcpState) /\ peer' \in AckSent(peer) \cup {peer} /\ misses' = misses + 1
          /\ UNCHANGED <<tcpState, sndNxt, sndUna, rcvNxt, reorder, ackDue, mss, failed, isn, got, sent, lostAt, endedBy>>
        BY <1>5, <2>2 DEF tick_keepalive, Live, Up
    <3>2. misses' \in 0..Probes
        BY <2>2, <3>1 DEF UTInv, SessionTyped
    <3>3. ackDue' \in BOOLEAN
        BY <3>1 DEF UTInv, SessionTyped
    <3> QED
        BY <3>1, <3>2, <3>3, BareAckKeeps
  <2> QED
      BY <2>1, <2>2
<1>6. CASE close
  <2>1. /\ Up(tcpState) /\ PutOnWire(1) /\ tcpState \in {"Established", "CloseWait"}
        /\ tcpState' = CloseTo[tcpState]
        /\ UNCHANGED <<sndUna, rcvNxt, reorder, ackDue, mss, misses, failed, isn, got, endedBy>>
      BY <1>6 DEF close, CloseTo, FinLength, Live, Up
  <2>2. \/ tcpState = "Established" /\ tcpState' = "FinWait1"
        \/ tcpState = "CloseWait" /\ tcpState' = "LastAck"
      BY <2>1 DEF CloseTo
  <2>3. 1 \in Nat /\ ackDue' \in BOOLEAN
      BY <2>1 DEF UTInv, SessionTyped
  <2> QED
      BY <2>1, <2>2, <2>3, OutKeeps
<1>7. CASE reset
  <2>1. /\ tcpState' = "Closed" /\ endedBy' # "acked" /\ reorder' = << >> /\ ackDue' = FALSE /\ rcvNxt' = 0
        /\ mss' = MaxMss /\ misses' = 0 /\ UNCHANGED <<sndNxt, sndUna, failed, isn, got, sent, lostAt, peer>>
      BY <1>7 DEF reset
  <2>2. ReceivedTrue' /\ SentTrue'
      BY <2>1, EndKeeps
  <2>3. ackDue' \in BOOLEAN
      BY <2>1
  <2>4. tcpState' \in TcpStates /\ rcvNxt' \in 0..(SeqSpace - 1)
      BY <2>1 DEF TcpStates
  <2>5. SessionTyped'
      BY <2>1, <2>3, <2>4 DEF UTInv, SessionTyped
  <2> QED
      BY <2>2, <2>5 DEF UTInv
<1>8. CASE on_icmp_frag_needed
  <2>1. PICK m \in 1..MaxMss : mss' = Min({mss, m})
      BY <1>8 DEF on_icmp_frag_needed
  <2>2. mss \in 1..MaxMss /\ mss \in Int /\ m \in Int
      BY DEF UTInv, SessionTyped
  <2>3. mss' \in 1..MaxMss
      BY <2>1, <2>2, MinOfTwo
  <2>4. UNCHANGED <<tcpState, sndNxt, sndUna, rcvNxt, reorder, ackDue, misses, failed, isn, got, sent, lostAt, endedBy, peer>>
      BY <1>8 DEF on_icmp_frag_needed, history
  <2> QED
      BY <2>3, <2>4 DEF UTInv, SessionTyped, ReceivedTrue, SentTrue
<1>9. CASE Receive
    BY <1>9, RxKeeps DEF Receive
<1>10. ASSUME NEW q, process_rx_rst(q) PROVE UTInv'
  <2>1. /\ tcpState' = "Closed" /\ endedBy' # "acked" /\ misses' = 0
        /\ UNCHANGED <<sndNxt, sndUna, rcvNxt, reorder, ackDue, mss, failed, isn, got, sent, lostAt, peer>>
      BY <1>10 DEF process_rx_rst
  <2>2. ReceivedTrue' /\ SentTrue'
      BY <2>1, EndKeeps
  <2>3. SessionTyped'
      BY <2>1 DEF UTInv, SessionTyped, TcpStates
  <2> QED
      BY <2>2, <2>3 DEF UTInv
<1>11. CASE UNCHANGED UTvars
    BY <1>11 DEF UTvars, UTInv, SessionTyped, ReceivedTrue, SentTrue
<1> QED
    BY <1>1, <1>2, <1>3, <1>4, <1>5, <1>6, <1>7, <1>8, <1>9, <1>10, <1>11, ConnectKeeps, SynAckKeeps, PeerKeeps
    DEF UTNext

\* UserTcp: for every sequence space, initial numbers, window and reorder buffer,
\* streams of any length that fits the sequence space, and whatever the network
\* loses, repeats, reorders or cuts anew: the data callback sees the peer's bytes in
\* order and once, acknowledgements never pass what was received, and the closing
\* states say what happened.
THEOREM TransferAlwaysTrue == UTSpec => []TransferTrue
<1>1. UTInv => TransferTrue
  <2> SUFFICES ASSUME UTInv PROVE TransferTrue
      OBVIOUS
  <2>1. UTTypeOK
    <3>1. \A i \in DOMAIN reorder : reorder[i] \in [seq : 0..(SeqSpace - 1), pos : 0..PeerBytes, len : 1..2]
      <4>1. \A e \in Entries : e \in [seq : 0..(SeqSpace - 1), pos : 0..PeerBytes, len : 1..2]
          BY DEF Entries
      <4>2. reorder \in Seq(Entries)
          BY DEF UTInv, ReceivedTrue, Buffered
      <4>3. \A i \in DOMAIN reorder : reorder[i] \in Entries
          BY <4>2
      <4> QED
          BY <4>1, <4>3
    <3>2. Len(reorder) <= ReorderSlots
        BY DEF UTInv, ReceivedTrue, Buffered
    <3> QED
        BY <3>1, <3>2 DEF UTInv, SessionTyped, UTTypeOK
  <2>2. DeliveredInOrder
    <3>1. Len(got) \in Nat /\ got = Positions(0, Len(got)) /\ Len(got) <= peer.sent
        BY DEF UTInv, ReceivedTrue, SessionTyped, PeerStates
    <3>2. Counted(tcpState) \in {0, 1}
        BY DEF Counted
    <3> HIDE DEF Counted
    <3>3. Up(tcpState) => RcvPos - Len(got) \in {0, 1}
        BY <3>1, <3>2, RcvPosIs
    <3> QED
        BY <3>1, <3>3 DEF DeliveredInOrder, Up
  <2>3. AcksAreTrue
      BY RcvPosIs, UnaPosIs DEF AcksAreTrue, Up, UTInv, SentTrue
  <2>4. CloseStatesTrue
    <3>1. ASSUME tcpState \in {"CloseWait", "Closing", "LastAck", "TimeWait"}
          PROVE  Len(got) = PeerBytes /\ peer.fin /\ RcvPos = PeerBytes + 1
      <4>1. tcpState \in FinSeen /\ Up(tcpState) /\ Counted(tcpState) = 1
          BY <3>1 DEF FinSeen, Up, Counted
      <4>2. Len(got) = PeerBytes /\ peer.fin
          BY <4>1 DEF UTInv, ReceivedTrue
      <4> QED
          BY <4>1, <4>2, RcvPosIs
    <3> QED
        BY <3>1 DEF CloseStatesTrue, UTInv, SentTrue
  <2> QED
      BY <2>1, <2>2, <2>3, <2>4 DEF TransferTrue
<1> QED
    BY <1>1, UTInitInv, UTNextInv, PTL DEF UTSpec
=============================================================================
