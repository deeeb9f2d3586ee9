----------------------------- MODULE DpdkProofs -----------------------------
(***************************************************************************)
(* The poller of the DPDK backend: for any number of objects and any       *)
(* table, whatever was added, removed and destroyed by callbacks before, a *)
(* packet reaches the entry of its tuple, and a poll ticks every object    *)
(* that stays. And the TLS record layer its streams run, as those over     *)
(* kernel sockets do: what a reader hands on is what was sent, whatever    *)
(* the wire loses, repeats, swaps or changes. And the datagram sockets,    *)
(* the multicast receiver and the sender: the port's filter follows the    *)
(* groups, and the counters account for every datagram. And the streams    *)
(* over user-space TCP: frames in order and once, whatever the cuts        *)
(* between packets, records and frames, a wire without a hole behind a     *)
(* record cut short, and reports that agree with the wire.                 *)
(***************************************************************************)
EXTENDS DpdkPoller, TlsRecords, DpdkUdp, DpdkStream, WrapArithmetic, FiniteSetTheorems, SequenceTheorems

USE PollerAssumption

-----------------------------------------------------------------------------
(* The inductive invariant.                                                *)

Occupied(s) == route[s].state = "Occupied"
Routes == [state : {"Occupied"}, tuple : Tuples, entry : Nat]

\* No two entries have one tuple.
OwnTuples ==
    \A i, j \in 1..Len(entries) : FiveTuple(entries[i]) = FiveTuple(entries[j]) => i = j

\* An occupied slot names an entry and its tuple, and no other slot does.
SlotsName ==
    /\ \A s \in Slots : Occupied(s) =>
          /\ route[s] \in Routes /\ route[s].entry \in 1..Len(entries)
          /\ route[s].tuple = FiveTuple(entries[route[s].entry])
    /\ \A s, u \in Slots : Occupied(s) /\ Occupied(u) /\ route[s].tuple = route[u].tuple => s = u

\* The search for t passes no empty slot before its k-th step, which finds it.
Reached(t, k) ==
    /\ Holds(Probe(t, k), t)
    /\ \A j \in 0..(k - 1) : route[Probe(t, j)].state # "Empty"

EntriesReached == \A i \in 1..Len(entries) : \E k \in Slots : Reached(FiveTuple(entries[i]), k)

\* What has to be ticked is still registered, and not behind the loop.
TickPlace ==
    /\ \A o \in stayed : \E i \in 1..Len(entries) : entries[i] = o
    /\ stage = "tick" => \A i \in 1..Len(entries) :
          entries[i] \in stayed => entries[i] \in ticked \/ i <= cursor

DPInv == DPTypeOK /\ EntriesLive /\ OwnTuples /\ SlotsName /\ EntriesReached /\ TickPlace

\* An empty table and no entries: every part holds.
LEMMA DPInitInv == DPInit => DPInv
<1> SUFFICES ASSUME DPInit PROVE DPInv
    OBVIOUS
<1>1. entries = << >> /\ Len(entries) = 0 /\ DOMAIN entries = {} /\ entries \in Seq(Objects)
    BY DEF DPInit
<1>2. DPTypeOK
    BY <1>1 DEF DPInit, DPTypeOK
<1>3. \A s \in Slots : ~Occupied(s)
    BY DEF DPInit, Occupied, kEmpty
<1> QED
    BY <1>1, <1>2, <1>3 DEF DPInit, DPInv, EntriesLive, OwnTuples, SlotsName, EntriesReached, TickPlace

\* The entries are a sequence of objects, and each has a tuple.
LEMMA EntriesTyped ==
    ASSUME DPInv
    PROVE  /\ entries \in Seq(Objects) /\ Len(entries) \in Nat /\ DOMAIN entries = 1..Len(entries)
           /\ \A i \in 1..Len(entries) : entries[i] \in Objects /\ FiveTuple(entries[i]) \in Tuples
<1>1. entries \in Seq(Objects) /\ portOf \in [Objects -> Ports \cup {0}]
    BY DEF DPInv, DPTypeOK
<1>2. Len(entries) \in Nat /\ DOMAIN entries = 1..Len(entries)
    BY <1>1
<1>3. \A i \in 1..Len(entries) : entries[i] \in Objects /\ portOf[entries[i]] # 0
    BY <1>1, <1>2 DEF DPInv, EntriesLive
<1>4. \A i \in 1..Len(entries) : FiveTuple(entries[i]) \in Tuples
    BY <1>1, <1>3 DEF FiveTuple, Tuples
<1> QED
    BY <1>1, <1>2, <1>3, <1>4

\* A probe sequence stays in the table and visits all of it.
LEMMA ProbeOnto ==
    ASSUME NEW t \in Tuples
    PROVE  /\ \A k \in Nat : Probe(t, k) \in Slots
           /\ \A s \in Slots : \E k \in Slots : Probe(t, k) = s
<1> DEFINE h == HashOf(t[1], t[2])
           N == kRouteTableSize
<1>1. h \in Nat /\ N \in Nat \ {0}
    BY DEF Tuples
<1>2. Slots = 0..(N - 1) /\ \A k : Probe(t, k) = (h + k) % N
    BY DEF Slots, Probe
<1> HIDE DEF h, N
<1>3. \A x \in Int : x % N \in 0..(N - 1)
    BY <1>1, DivMod
<1>4. \A k \in Nat : h + k \in Int
    BY <1>1
<1>5. ASSUME NEW s \in 0..(N - 1) PROVE \E k \in 0..(N - 1) : (h + k) % N = s
  <2> DEFINE k == (s - h) % N
             q == (s - h) \div N
  <2>1. s - h \in Int
      BY <1>1
  <2>2. k \in 0..(N - 1) /\ q \in Int /\ s - h = N * q + k
      BY <1>1, <2>1, DivMod
  <2> HIDE DEF k, q
  <2>3. s \in Int /\ -q \in Int /\ N * q \in Int /\ N * (-q) = -(N * q)
      BY <1>1, <2>2
  <2>4. h + k = s + N * (-q)
      BY <1>1, <2>2, <2>3
  <2>5. (s + N * (-q)) % N = s % N
      BY <1>1, <2>3, ModPlusMultiple
  <2>6. s % N = s
      BY <1>1
  <2> QED
      BY <2>2, <2>4, <2>5, <2>6
<1> QED
    BY <1>2, <1>3, <1>4, <1>5, Zenon

\* A condition that some step meets has a first step.
LEMMA LeastStep ==
    ASSUME NEW S, S \subseteq Slots, S # {}
    PROVE  \E k \in S : \A j \in 0..(k - 1) : j \notin S
<1>1. IsWellFoundedOn(OpToRel(<, Nat), Nat)
    BY NatLessThanWellFounded
<1>2. S \subseteq Nat
    BY DEF Slots
<1>3. PICK x \in S : \A y \in S : ~(<<y, x>> \in OpToRel(<, Nat))
    BY <1>1, <1>2, WFMin, Zenon
<1>4. \A y \in S : ~(y < x)
    BY <1>2, <1>3 DEF OpToRel
<1>5. x \in Nat /\ \A j \in 0..(x - 1) : j < x
    BY <1>2
<1> QED
    BY <1>4, <1>5

\* The slots that the search for t ends at, spelled out.
LEMMA SlotsOfMeaning ==
    ASSUME NEW t, NEW s
    PROVE  s \in SlotsOf(t) <=>
              \E k \in Slots :
                 /\ s = Probe(t, k) /\ Holds(s, t)
                 /\ \A j \in 0..(k - 1) : route[Probe(t, j)].state # "Empty" /\ ~Holds(Probe(t, j), t)
BY Zenon DEF SlotsOf, FirstStep

\* find_route_slot finds the entry that owns the tuple...
LEMMA FindOwner ==
    ASSUME DPInv, NEW i \in 1..Len(entries), NEW t, t = FiveTuple(entries[i])
    PROVE  /\ find_route_slot(t) = i
           /\ \E s \in Slots : SlotsOf(t) = {s} /\ Holds(s, t) /\ route[s].entry = i
<1>1. t \in Tuples
    BY EntriesTyped
<1>2. PICK k \in Slots : Reached(t, k)
    BY DEF DPInv, EntriesReached
<1> DEFINE s == Probe(t, k)
<1>3. s \in Slots /\ \A n \in Nat : Probe(t, n) \in Slots
  <2>1. k \in Nat
      BY DEF Slots
  <2> QED
      BY <1>1, <2>1, ProbeOnto, Zenon
<1>4. Holds(s, t) /\ \A j \in 0..(k - 1) : route[Probe(t, j)].state # "Empty"
    BY <1>2 DEF Reached
<1>5. \A u \in Slots : Holds(u, t) => u = s
    BY <1>3, <1>4 DEF Holds, DPInv, SlotsName, Occupied
<1>6. route[s].entry = i
    BY <1>3, <1>4 DEF Holds, DPInv, SlotsName, Occupied, OwnTuples
<1> HIDE DEF s
<1>7. {n \in Slots : Probe(t, n) = s} # {} /\ {n \in Slots : Probe(t, n) = s} \subseteq Slots
    BY DEF s
<1>8. PICK m \in Slots : Probe(t, m) = s /\ \A j \in 0..(m - 1) : j \notin {n \in Slots : Probe(t, n) = s}
    BY <1>7, LeastStep
<1>9. m <= k
  <2> SUFFICES ASSUME k < m PROVE FALSE
      BY DEF Slots
  <2>1. k \in 0..(m - 1)
      BY DEF Slots
  <2> QED
      BY <1>8, <2>1 DEF s
<1>10. \A j \in 0..(m - 1) : j \in Slots /\ j \in 0..(k - 1) /\ j \in Nat
    BY <1>9 DEF Slots
<1>11. \A j \in 0..(m - 1) : route[Probe(t, j)].state # "Empty" /\ ~Holds(Probe(t, j), t)
    BY <1>3, <1>4, <1>5, <1>8, <1>10, Zenon
<1>12. s \in SlotsOf(t)
    BY <1>4, <1>8, <1>11, SlotsOfMeaning, Zenon
<1>13. \A u \in SlotsOf(t) : u = s
  <2> SUFFICES ASSUME NEW u \in SlotsOf(t) PROVE u = s
      OBVIOUS
  <2>1. PICK n \in Slots : u = Probe(t, n) /\ Holds(u, t)
      BY SlotsOfMeaning, Zenon
  <2>2. n \in Nat
      BY DEF Slots
  <2> QED
      BY <1>3, <1>5, <2>1, <2>2
<1>14. SlotsOf(t) = {s}
    BY <1>12, <1>13, Zenon
<1>15. (CHOOSE u \in {s} : TRUE) = s
    OBVIOUS
<1> QED
    BY <1>3, <1>4, <1>6, <1>14, <1>15 DEF find_route_slot

\* ... and nothing for a tuple that no entry owns.
LEMMA FindNobody ==
    ASSUME DPInv, NEW t \in Tuples, \A i \in 1..Len(entries) : FiveTuple(entries[i]) # t
    PROVE  SlotsOf(t) = {} /\ find_route_slot(t) = kInvalidSlot
<1>1. \A s \in Slots : ~Holds(s, t)
    BY DEF Holds, DPInv, SlotsName, Occupied
<1>2. \A n \in Slots : n \in Nat /\ Probe(t, n) \in Slots
  <2>1. \A n \in Slots : n \in Nat
      BY DEF Slots
  <2> QED
      BY <2>1, ProbeOnto, Zenon
<1>3. ASSUME NEW s \in SlotsOf(t) PROVE FALSE
  <2>1. PICK n \in Slots : s = Probe(t, n) /\ Holds(s, t)
      BY SlotsOfMeaning, Zenon
  <2> QED
      BY <1>1, <1>2, <2>1
<1>4. SlotsOf(t) = {}
    BY <1>3, Zenon
<1> QED
    BY <1>4 DEF find_route_slot

\* The table has a slot left while an object may be added: distinct occupied
\* slots name distinct entries.
LEMMA SlotLeft ==
    ASSUME DPInv, Len(entries) < max_connections
    PROVE  \E s \in Slots : ~Occupied(s)
<1> SUFFICES ASSUME \A s \in Slots : Occupied(s) PROVE FALSE
    OBVIOUS
<1> DEFINE f == [s \in Slots |-> route[s].entry]
           n == Len(entries)
<1>1. n \in Nat /\ n < kRouteTableSize
    BY EntriesTyped
<1>2. f \in [Slots -> 1..n]
    BY DEF DPInv, SlotsName
<1>3. \A s, u \in Slots : f[s] = f[u] => s = u
    BY DEF DPInv, SlotsName
<1>4. f \in Injection(Slots, 1..n)
    BY <1>2, <1>3, Zenon DEF Injection, IsInjective
<1> HIDE DEF f, n
<1>5. IsFiniteSet(1..n) /\ Cardinality(1..n) = n
  <2>1. 1 \in Int /\ n \in Int
      BY <1>1
  <2>2. IsFiniteSet(1..n) /\ Cardinality(1..n) = IF 1 > n THEN 0 ELSE n - 1 + 1
      BY <2>1, FS_Interval
  <2> QED
      BY <1>1, <2>2
<1>6. Cardinality(Slots) = kRouteTableSize
  <2>1. 0 \in Int /\ kRouteTableSize - 1 \in Int
      OBVIOUS
  <2>2. Cardinality(0..(kRouteTableSize - 1)) = IF 0 > kRouteTableSize - 1 THEN 0 ELSE kRouteTableSize - 1 - 0 + 1
      BY <2>1, FS_Interval
  <2> QED
      BY <2>2 DEF Slots
<1>7. Cardinality(Slots) <= Cardinality(1..n)
    BY <1>4, <1>5, FS_Injection
<1> QED
    BY <1>1, <1>5, <1>6, <1>7

-----------------------------------------------------------------------------
(* What the application does, in a callback or outside a poll.             *)

\* The invariant without the poll's own place.
Registered ==
    /\ portOf \in [Objects -> Ports \cup {0}] /\ entries \in Seq(Objects) /\ Len(entries) <= max_connections
    /\ EntriesLive /\ OwnTuples /\ SlotsName /\ EntriesReached

\* What stayed is registered, and no farther up than it was.
StayedMoveDown ==
    /\ \A o \in stayed' : \E i \in 1..Len(entries') : entries'[i] = o
    /\ \A i \in 1..Len(entries') : entries'[i] \in stayed' =>
          \E j \in 1..Len(entries) : j >= i /\ entries[j] = entries'[i] /\ entries[j] \in stayed

\* add (poller.hpp): the new entry takes the first slot that is not occupied, so no
\* other search path gains an empty slot.
LEMMA AddKeeps ==
    ASSUME DPInv, NEW o \in Objects, add(o)
    PROVE  Registered' /\ StayedMoveDown
<1>0. PICK n \in Nat : n = Len(entries)
    BY EntriesTyped
<1>1. /\ portOf[o] # 0 /\ n < max_connections /\ find_route_slot(FiveTuple(o)) = kInvalidSlot
      /\ entries' = Append(entries, o) /\ UNCHANGED <<portOf, stayed>>
      /\ route' = insert_route(route, FiveTuple(o), n + 1)
    BY <1>0 DEF add
<1>2. portOf \in [Objects -> Ports \cup {0}]
    BY DEF DPInv, DPTypeOK
<1>3. PICK t \in Tuples : t = FiveTuple(o)
    BY <1>1, <1>2 DEF FiveTuple, Tuples
<1>4. \A i \in 1..n : FiveTuple(entries[i]) # t
  <2> SUFFICES ASSUME NEW i \in 1..n, FiveTuple(entries[i]) = t PROVE FALSE
      OBVIOUS
  <2>1. find_route_slot(t) = i
      BY <1>0, FindOwner
  <2> QED
      BY <1>1, <1>3, <2>1 DEF kInvalidSlot
<1>5. /\ entries' \in Seq(Objects) /\ Len(entries') = n + 1 /\ n \in Nat /\ DOMAIN entries' = 1..(n + 1)
      /\ entries'[n + 1] = o /\ \A i \in 1..n : entries'[i] = entries[i]
    BY <1>0, <1>1, EntriesTyped
<1> DEFINE S == {k \in Slots : ~Occupied(Probe(t, k))}
<1>6. S # {} /\ S \subseteq Slots
  <2>1. PICK s \in Slots : ~Occupied(s)
      BY <1>0, <1>1, SlotLeft
  <2>2. PICK k \in Slots : Probe(t, k) = s
      BY ProbeOnto
  <2> QED
      BY <2>1, <2>2
<1>7. PICK k \in S : \A j \in 0..(k - 1) : j \notin S
    BY <1>6, LeastStep
<1>8. k \in Slots /\ ~Occupied(Probe(t, k)) /\ \A j \in 0..(k - 1) : j \in Slots /\ Occupied(Probe(t, j))
  <2>1. \A j \in 0..(k - 1) : j \in Slots
      BY <1>6, <1>7 DEF Slots
  <2> QED
      BY <1>7, <2>1
<1> DEFINE s1 == Probe(t, k)
           new == [state |-> "Occupied", tuple |-> t, entry |-> n + 1]
<1>9. s1 \in Slots
    BY <1>8, ProbeOnto DEF Slots
<1>10. FirstStep(LAMBDA m : route[Probe(t, m)].state # "Occupied") = {k}
  <2>1. FirstStep(LAMBDA m : route[Probe(t, m)].state # "Occupied")
          = {m \in Slots : ~Occupied(Probe(t, m)) /\ \A j \in 0..(m - 1) : Occupied(Probe(t, j))}
      BY DEF FirstStep, Occupied
  <2>2. ASSUME NEW m \in Slots, ~Occupied(Probe(t, m)), \A j \in 0..(m - 1) : Occupied(Probe(t, j)) PROVE m = k
    <3>1. ~(m < k) /\ ~(k < m)
        BY <1>8, <2>2 DEF Slots
    <3> QED
        BY <1>8, <3>1 DEF Slots
  <2> QED
      BY <1>8, <2>1, <2>2
<1>11. route' = [s \in Slots |-> IF s = s1 THEN new ELSE route[s]]
  <2>1. {Probe(t, m) : m \in {k}} = {s1}
      OBVIOUS
  <2>2. insert_route(route, t, n + 1) =
          [s \in Slots |-> IF s \in {Probe(t, m) : m \in FirstStep(LAMBDA m : route[Probe(t, m)].state # "Occupied")}
                           THEN new ELSE route[s]]
      BY DEF insert_route
  <2>3. insert_route(route, t, n + 1) = [s \in Slots |-> IF s \in {s1} THEN new ELSE route[s]]
      BY <1>10, <2>1, <2>2
  <2> HIDE DEF new, s1
  <2> QED
      BY <1>1, <1>3, <2>3
<1>12. new \in Routes /\ new.state = "Occupied" /\ new.tuple = t /\ new.entry = n + 1
    BY <1>5 DEF Routes
<1> HIDE DEF new, S
<1>13. /\ route'[s1] = new /\ \A s \in Slots : s # s1 => route'[s] = route[s]
       /\ \A s \in Slots : Occupied(s)' <=> s = s1 \/ Occupied(s)
       /\ \A s \in Slots : route'[s].state = "Empty" => route[s].state = "Empty"
  <2>1. route'[s1] = new /\ \A s \in Slots : s # s1 => route'[s] = route[s]
      BY <1>9, <1>11
  <2> QED
      BY <2>1, <1>12 DEF Occupied
<1> HIDE DEF s1
<1>14. /\ \A i \in 1..n : FiveTuple(entries[i])' = FiveTuple(entries[i])
       /\ FiveTuple(entries[n + 1])' = t
    BY <1>1, <1>3, <1>5 DEF FiveTuple
<1>15. EntriesLive'
    BY <1>0, <1>1, <1>5, EntriesTyped DEF EntriesLive, DPInv
<1>16. OwnTuples'
  <2> SUFFICES ASSUME NEW i \in 1..(n + 1), NEW j \in 1..(n + 1), FiveTuple(entries[i])' = FiveTuple(entries[j])'
               PROVE  i = j
      BY <1>5 DEF OwnTuples
  <2>1. CASE i \in 1..n /\ j \in 1..n
      BY <1>0, <1>14, <2>1 DEF DPInv, OwnTuples
  <2>2. CASE i \notin 1..n \/ j \notin 1..n
    <3>1. i \in 1..n \/ i = n + 1
        BY <1>5
    <3>2. j \in 1..n \/ j = n + 1
        BY <1>5
    <3> QED
        BY <1>4, <1>14, <2>2, <3>1, <3>2
  <2> QED
      BY <2>1, <2>2
<1>17. \A s \in Slots : Occupied(s) => route[s].tuple # t /\ route[s].entry \in 1..n
    BY <1>0, <1>4 DEF DPInv, SlotsName
<1>18. SlotsName'
  <2>1. ASSUME NEW s \in Slots, Occupied(s)'
        PROVE  /\ route'[s] \in Routes /\ route'[s].entry \in 1..(n + 1)
               /\ route'[s].tuple = FiveTuple(entries[route[s].entry])'
    <3>1. CASE s = s1
        BY <1>5, <1>12, <1>13, <1>14, <3>1
    <3>2. CASE s # s1
      <4>1. Occupied(s) /\ route'[s] = route[s]
          BY <1>13, <2>1, <3>2
      <4>2. route[s] \in Routes /\ route[s].entry \in 1..n /\ route[s].tuple = FiveTuple(entries[route[s].entry])
          BY <1>0, <4>1 DEF DPInv, SlotsName
      <4> QED
          BY <1>5, <1>14, <4>1, <4>2
    <3> QED
        BY <3>1, <3>2
  <2>2. ASSUME NEW s \in Slots, NEW u \in Slots, Occupied(s)', Occupied(u)', route'[s].tuple = route'[u].tuple
        PROVE  s = u
    <3>1. CASE s = s1 \/ u = s1
        BY <1>12, <1>13, <1>17, <2>2, <3>1
    <3>2. CASE s # s1 /\ u # s1
        BY <1>13, <2>2, <3>2 DEF DPInv, SlotsName
    <3> QED
        BY <3>1, <3>2
  <2> QED
      BY <1>5, <2>1, <2>2 DEF SlotsName
<1>19. EntriesReached'
  <2> SUFFICES ASSUME NEW i \in 1..(n + 1) PROVE (\E m \in Slots : Reached(FiveTuple(entries[i]), m))'
      BY <1>5 DEF EntriesReached
  <2>1. CASE i \in 1..n
    <3>1. PICK u \in Tuples : u = FiveTuple(entries[i])
        BY <1>0, <2>1, EntriesTyped
    <3>2. PICK m \in Slots : Reached(u, m)
        BY <1>0, <2>1, <3>1 DEF DPInv, EntriesReached
    <3>3. \A j \in 0..m : Probe(u, j) \in Slots
        BY ProbeOnto DEF Slots
    <3>4. m \in 0..m /\ \A j \in 0..(m - 1) : j \in 0..m
        BY DEF Slots
    <3>5. Probe(u, m) # s1
        BY <1>8, <3>2 DEF Reached, Holds, Occupied, s1
    <3>6. Reached(u, m)'
        BY <1>13, <3>2, <3>3, <3>4, <3>5 DEF Reached, Holds
    <3> QED
        BY <1>14, <2>1, <3>1, <3>6
  <2>2. CASE i = n + 1
    <3>1. Holds(s1, t)'
        BY <1>12, <1>13 DEF Holds
    <3>2. \A j \in 0..(k - 1) : Probe(t, j) \in Slots
        BY <1>8, ProbeOnto DEF Slots
    <3>3. \A j \in 0..(k - 1) : route'[Probe(t, j)].state # "Empty"
        BY <1>8, <1>13, <3>2 DEF Occupied
    <3>4. Reached(t, k)'
        BY <3>1, <3>3 DEF Reached, s1
    <3> QED
        BY <1>8, <1>14, <2>2, <3>4
  <2> QED
      BY <1>5, <2>1, <2>2
<1>20. StayedMoveDown
  <2>1. \A p \in stayed : \E i \in 1..n : entries[i] = p
      BY <1>0 DEF DPInv, TickPlace
  <2>2. \A p \in stayed' : \E i \in 1..(n + 1) : entries'[i] = p
      BY <1>1, <1>5, <2>1
  <2>3. ASSUME NEW i \in 1..(n + 1), entries'[i] \in stayed'
        PROVE  \E j \in 1..n : j >= i /\ entries[j] = entries'[i] /\ entries[j] \in stayed
    <3>1. CASE i \in 1..n
        BY <1>1, <1>5, <2>3, <3>1
    <3>2. CASE i = n + 1
      <4>1. PICK j \in 1..n : entries[j] = o
          BY <1>1, <1>5, <2>1, <2>3, <3>2
      <4> QED
          BY <1>3, <1>4, <4>1
    <3> QED
        BY <1>5, <3>1, <3>2
  <2> QED
      BY <1>0, <1>5, <2>2, <2>3 DEF StayedMoveDown
<1> QED
    BY <1>1, <1>2, <1>5, <1>15, <1>16, <1>18, <1>19, <1>20 DEF Registered

\* Removing the i-th element moves the ones above it down by one.
LEMMA RemoveAtShifts ==
    ASSUME NEW T, NEW e \in Seq(T), NEW i \in 1..Len(e)
    PROVE  /\ RemoveAt(e, i) \in Seq(T) /\ Len(RemoveAt(e, i)) = Len(e) - 1
           /\ \A j \in 1..(Len(e) - 1) : RemoveAt(e, i)[j] = IF j < i THEN e[j] ELSE e[j + 1]
<1> DEFINE a == SubSeq(e, 1, i - 1)
           b == SubSeq(e, i + 1, Len(e))
<1>1. Len(e) \in Nat /\ i \in Nat /\ \A j \in 1..Len(e) : e[j] \in T
    OBVIOUS
<1>2. a \in Seq(T) /\ Len(a) = i - 1 /\ \A j \in 1..(i - 1) : a[j] = e[j]
  <2>1. 1 \in Int /\ i - 1 \in Int /\ \A j \in 1..(i - 1) : e[j] \in T
      BY <1>1
  <2>2. /\ a \in Seq(T) /\ Len(a) = IF 1 <= i - 1 THEN i - 1 - 1 + 1 ELSE 0
        /\ \A j \in 1..(i - 1 - 1 + 1) : a[j] = e[1 + j - 1]
      BY <2>1, SubSeqProperties
  <2> QED
      BY <1>1, <2>2
<1>3. b \in Seq(T) /\ Len(b) = Len(e) - i /\ \A j \in 1..(Len(e) - i) : b[j] = e[i + j]
  <2>1. i + 1 \in Int /\ Len(e) \in Int /\ \A j \in (i + 1)..Len(e) : e[j] \in T
      BY <1>1
  <2>2. /\ b \in Seq(T) /\ Len(b) = IF i + 1 <= Len(e) THEN Len(e) - (i + 1) + 1 ELSE 0
        /\ \A j \in 1..(Len(e) - (i + 1) + 1) : b[j] = e[i + 1 + j - 1]
      BY <2>1, SubSeqProperties
  <2> QED
      BY <1>1, <2>2
<1> HIDE DEF a, b
<1>4. /\ a \o b \in Seq(T) /\ Len(a \o b) = Len(a) + Len(b)
      /\ \A j \in 1..(Len(a) + Len(b)) : (a \o b)[j] = IF j <= Len(a) THEN a[j] ELSE b[j - Len(a)]
    BY <1>2, <1>3, ConcatProperties
<1>5. RemoveAt(e, i) = a \o b
    BY DEF RemoveAt, a, b
<1>6. ASSUME NEW j \in 1..(Len(e) - 1) PROVE (a \o b)[j] = IF j < i THEN e[j] ELSE e[j + 1]
  <2>1. CASE j < i
      BY <1>1, <1>2, <1>3, <1>4, <2>1
  <2>2. CASE ~(j < i)
    <3>1. j - (i - 1) \in 1..(Len(e) - i) /\ i + (j - (i - 1)) = j + 1 /\ ~(j <= Len(a))
        BY <1>1, <1>2, <2>2
    <3>2. PICK d \in 1..(Len(e) - i) : d = j - (i - 1) /\ i + d = j + 1
        BY <3>1
    <3>3. j - Len(a) = d /\ j \in 1..(Len(a) + Len(b))
      <4>1. Len(a) = i - 1 /\ Len(a) + Len(b) = Len(e) - 1
          BY <1>1, <1>2, <1>3
      <4> QED
          BY <3>2, <4>1
    <3>4. (a \o b)[j] = b[d]
        BY <1>4, <3>1, <3>3
    <3>5. b[d] = e[j + 1]
        BY <1>3, <3>2
    <3> QED
        BY <2>2, <3>4, <3>5
  <2> QED
      BY <2>1, <2>2
<1>7. Len(a \o b) = Len(e) - 1
    BY <1>1, <1>2, <1>3, <1>4
<1> QED
    BY <1>4, <1>5, <1>6, <1>7, Zenon

\* Removal leaves a tombstone in the object's slot and moves the entries above
\* down, in the array and in the table.  The object's port may go with it.
LEMMA UnregisterKeeps ==
    ASSUME DPInv, NEW o \in Objects, Unregister(o), portOf' \in [Objects -> Ports \cup {0}],
           \A p \in Objects : p # o => portOf'[p] = portOf[p]
    PROVE  Registered' /\ StayedMoveDown
<1>0. PICK n \in Nat : n = Len(entries) /\ n <= max_connections
    BY EntriesTyped DEF DPInv, DPTypeOK
<1>1. PICK i \in 1..n :
        /\ entries[i] = o /\ entries' = RemoveAt(entries, i) /\ stayed' = stayed \ {o}
        /\ route' = shift_down_route_indices_above(tombstone_route(FiveTuple(o)), i)
    BY <1>0, EntriesTyped DEF Unregister
<1>2. PICK t \in Tuples : t = FiveTuple(o)
    BY <1>0, <1>1, EntriesTyped
<1>3. PICK s0 \in Slots : SlotsOf(t) = {s0} /\ Holds(s0, t) /\ route[s0].entry = i
    BY <1>0, <1>1, <1>2, FindOwner
<1> DEFINE old(j) == IF j < i THEN j ELSE j + 1
<1>4. \A j \in 1..(n - 1) : old(j) \in 1..n /\ old(j) # i /\ old(j) >= j
    OBVIOUS
<1>5. /\ entries' \in Seq(Objects) /\ Len(entries') = n - 1 /\ DOMAIN entries' = 1..(n - 1)
      /\ \A j \in 1..(n - 1) : entries'[j] = entries[old(j)]
  <2>1. entries \in Seq(Objects)
      BY EntriesTyped
  <2>2. /\ RemoveAt(entries, i) \in Seq(Objects) /\ Len(RemoveAt(entries, i)) = n - 1
        /\ \A j \in 1..(n - 1) : RemoveAt(entries, i)[j] = IF j < i THEN entries[j] ELSE entries[j + 1]
      BY <1>0, <2>1, RemoveAtShifts
  <2>3. DOMAIN entries' = 1..Len(entries')
      BY <1>1, <2>2, LenProperties
  <2> QED
      BY <1>1, <2>2, <2>3
<1>6. \A j \in 1..n : j # i => entries[j] \in Objects /\ entries[j] # o
    BY <1>0, <1>1, EntriesTyped DEF DPInv, OwnTuples
<1>7. \A j \in 1..(n - 1) : FiveTuple(entries[j])' = FiveTuple(entries[old(j)])
  <2> SUFFICES ASSUME NEW j \in 1..(n - 1) PROVE FiveTuple(entries[j])' = FiveTuple(entries[old(j)])
      OBVIOUS
  <2>1. entries'[j] = entries[old(j)] /\ entries[old(j)] \in Objects /\ entries[old(j)] # o
      BY <1>4, <1>5, <1>6
  <2> QED
      BY <2>1 DEF FiveTuple
<1> HIDE DEF old
<1>8. ASSUME NEW s \in Slots
      PROVE  route'[s] = IF s = s0 THEN kTombstone
                         ELSE IF Occupied(s) /\ route[s].entry > i THEN [route[s] EXCEPT !.entry = @ - 1]
                         ELSE route[s]
  <2> DEFINE r == tombstone_route(t)
  <2>1. r[s] = IF s = s0 THEN kTombstone ELSE route[s]
      BY <1>3 DEF tombstone_route
  <2>2. route'[s] = IF r[s].state = "Occupied" /\ r[s].entry > i THEN [r[s] EXCEPT !.entry = @ - 1] ELSE r[s]
      BY <1>1, <1>2 DEF shift_down_route_indices_above
  <2> HIDE DEF r
  <2>3. kTombstone.state # "Occupied"
      BY DEF kTombstone
  <2> QED
      BY <2>1, <2>2, <2>3 DEF Occupied
<1>9. Occupied(s0) /\ route[s0].tuple = t
    BY <1>3 DEF Holds, Occupied
<1>10. \A s \in Slots : Occupied(s) /\ s # s0 =>
          /\ route[s] \in Routes /\ route[s].entry \in 1..n /\ route[s].entry # i /\ route[s].tuple # t
          /\ route[s].tuple = FiveTuple(entries[route[s].entry])
  <2> SUFFICES ASSUME NEW s \in Slots, Occupied(s), s # s0
               PROVE  /\ route[s] \in Routes /\ route[s].entry \in 1..n /\ route[s].entry # i /\ route[s].tuple # t
                      /\ route[s].tuple = FiveTuple(entries[route[s].entry])
      OBVIOUS
  <2>1. /\ route[s] \in Routes /\ route[s].entry \in 1..n
        /\ route[s].tuple = FiveTuple(entries[route[s].entry])
      BY <1>0 DEF DPInv, SlotsName
  <2>2. route[s].tuple # t
      BY <1>9 DEF DPInv, SlotsName
  <2> QED
      BY <1>1, <1>2, <2>1, <2>2
<1>11. ASSUME NEW s \in Slots, Occupied(s), s # s0
       PROVE  /\ Occupied(s)' /\ route'[s] \in Routes /\ route'[s].tuple = route[s].tuple
              /\ route'[s].entry \in 1..(n - 1) /\ old(route'[s].entry) = route[s].entry
  <2>1. /\ route[s] \in Routes /\ route[s].entry \in 1..n /\ route[s].entry # i
      BY <1>10, <1>11
  <2>2. CASE route[s].entry > i
    <3>1. route'[s] = [route[s] EXCEPT !.entry = @ - 1]
        BY <1>8, <1>11, <2>2
    <3>2. route'[s] \in Routes /\ route'[s].state = "Occupied" /\ route'[s].tuple = route[s].tuple
          /\ route'[s].entry = route[s].entry - 1
        BY <2>1, <2>2, <3>1 DEF Routes
    <3> QED
        BY <2>1, <2>2, <3>2 DEF old, Occupied
  <2>3. CASE ~(route[s].entry > i)
    <3>1. route'[s] = route[s]
        BY <1>8, <1>11, <2>3
    <3> QED
        BY <1>11, <2>1, <2>3, <3>1 DEF old, Occupied
  <2> QED
      BY <2>2, <2>3
<1>12. /\ \A s \in Slots : Occupied(s)' => Occupied(s) /\ s # s0
       /\ \A s \in Slots : route'[s].state = "Empty" => route[s].state = "Empty"
  <2> SUFFICES ASSUME NEW s \in Slots
               PROVE  /\ Occupied(s)' => Occupied(s) /\ s # s0
                      /\ route'[s].state = "Empty" => route[s].state = "Empty"
      OBVIOUS
  <2>1. CASE s = s0
    <3>1. route'[s] = kTombstone
        BY <1>8, <2>1
    <3>2. route'[s].state = "Tombstone"
        BY <3>1 DEF kTombstone
    <3> QED
        BY <3>2 DEF Occupied
  <2>2. CASE s # s0 /\ Occupied(s)
      BY <1>11, <2>2 DEF Occupied
  <2>3. CASE s # s0 /\ ~Occupied(s)
      BY <1>8, <2>3 DEF Occupied
  <2> QED
      BY <2>1, <2>2, <2>3
<1>13. EntriesLive'
  <2> SUFFICES ASSUME NEW j \in 1..(n - 1) PROVE portOf'[entries'[j]] # 0
      BY <1>5 DEF EntriesLive
  <2>1. PICK m \in 1..n : m = old(j) /\ m # i /\ entries'[j] = entries[m]
      BY <1>4, <1>5
  <2>2. entries[m] \in Objects /\ entries[m] # o /\ portOf[entries[m]] # 0
      BY <1>0, <1>6, <2>1, EntriesTyped DEF DPInv, EntriesLive
  <2> QED
      BY <2>1, <2>2
<1>14. OwnTuples'
  <2> SUFFICES ASSUME NEW j \in 1..(n - 1), NEW k \in 1..(n - 1), FiveTuple(entries[j])' = FiveTuple(entries[k])'
               PROVE  j = k
      BY <1>5 DEF OwnTuples
  <2>1. old(j) = old(k)
      BY <1>0, <1>4, <1>7 DEF DPInv, OwnTuples
  <2> QED
      BY <2>1 DEF old
<1>15. SlotsName'
  <2>1. ASSUME NEW s \in Slots, Occupied(s)'
        PROVE  /\ route'[s] \in Routes /\ route'[s].entry \in 1..(n - 1)
               /\ route'[s].tuple = FiveTuple(entries[route[s].entry])'
    <3>1. Occupied(s) /\ s # s0
        BY <1>12, <2>1
    <3>2. /\ route'[s] \in Routes /\ route'[s].tuple = route[s].tuple
          /\ route'[s].entry \in 1..(n - 1) /\ old(route'[s].entry) = route[s].entry
        BY <1>11, <3>1
    <3>3. route[s].tuple = FiveTuple(entries[route[s].entry])
        BY <1>10, <3>1
    <3>4. PICK e \in 1..(n - 1) : e = route'[s].entry
        BY <3>2
    <3>5. FiveTuple(entries[e])' = FiveTuple(entries[old(e)])
        BY <1>7
    <3> QED
        BY <3>2, <3>3, <3>4, <3>5
  <2>2. ASSUME NEW s \in Slots, NEW u \in Slots, Occupied(s)', Occupied(u)', route'[s].tuple = route'[u].tuple
        PROVE  s = u
    <3>1. Occupied(s) /\ Occupied(u) /\ route[s].tuple = route[u].tuple
        BY <1>11, <1>12, <2>2
    <3> QED
        BY <3>1 DEF DPInv, SlotsName
  <2> QED
      BY <1>5, <2>1, <2>2 DEF SlotsName
<1>16. EntriesReached'
  <2> SUFFICES ASSUME NEW j \in 1..(n - 1) PROVE (\E m \in Slots : Reached(FiveTuple(entries[j]), m))'
      BY <1>5 DEF EntriesReached
  <2>1. PICK u \in Tuples : u = FiveTuple(entries[old(j)])
      BY <1>0, <1>4, EntriesTyped
  <2>2. PICK m \in Slots : Reached(u, m)
      BY <1>0, <1>4, <2>1 DEF DPInv, EntriesReached
  <2>3. \A k \in 0..m : Probe(u, k) \in Slots
      BY ProbeOnto DEF Slots
  <2>4. m \in 0..m /\ \A k \in 0..(m - 1) : k \in 0..m
      BY DEF Slots
  <2>5. u # t
      BY <1>0, <1>1, <1>2, <1>4, <2>1 DEF DPInv, OwnTuples
  <2>6. Occupied(Probe(u, m)) /\ route[Probe(u, m)].tuple = u
      BY <2>2 DEF Reached, Holds, Occupied
  <2>7. Probe(u, m) \in Slots /\ Probe(u, m) # s0
      BY <1>9, <2>3, <2>4, <2>5, <2>6
  <2>8. Holds(Probe(u, m), u)'
      BY <1>11, <2>6, <2>7 DEF Holds, Occupied
  <2>9. \A k \in 0..(m - 1) : route'[Probe(u, k)].state # "Empty"
      BY <1>12, <2>2, <2>3, <2>4 DEF Reached
  <2>10. Reached(u, m)'
      BY <2>8, <2>9 DEF Reached
  <2>11. FiveTuple(entries[j])' = u
      BY <1>7, <2>1
  <2> QED
      BY <2>10, <2>11
<1>17. StayedMoveDown
  <2>1. ASSUME NEW p \in stayed' PROVE \E j \in 1..(n - 1) : entries'[j] = p
    <3>1. p \in stayed /\ p # o
        BY <1>1, <2>1
    <3>2. PICK m \in 1..n : entries[m] = p
        BY <1>0, <3>1 DEF DPInv, TickPlace
    <3>3. m # i
        BY <1>1, <3>1, <3>2
    <3>4. PICK j \in 1..(n - 1) : old(j) = m
      <4>1. CASE m < i
          BY <4>1 DEF old
      <4>2. CASE m > i
        <5>1. m - 1 \in 1..(n - 1) /\ old(m - 1) = m
            BY <4>2 DEF old
        <5> QED
            BY <5>1
      <4> QED
          BY <3>3, <4>1, <4>2
    <3> QED
        BY <1>5, <3>2, <3>4
  <2>2. ASSUME NEW j \in 1..(n - 1), entries'[j] \in stayed'
        PROVE  \E m \in 1..n : m >= j /\ entries[m] = entries'[j] /\ entries[m] \in stayed
      BY <1>1, <1>4, <1>5, <2>2
  <2> QED
      BY <1>0, <1>5, <2>1, <2>2 DEF StayedMoveDown
<1>18. Len(entries') <= max_connections
    BY <1>0, <1>5
<1> QED
    BY <1>5, <1>13, <1>14, <1>15, <1>16, <1>17, <1>18 DEF Registered

\* Every call of the application keeps the registrations, in a callback too.
LEMMA AppStepKeeps ==
    ASSUME DPInv, NEW o \in Objects, AppStep(o)
    PROVE  Registered' /\ StayedMoveDown
<1>1. portOf \in [Objects -> Ports \cup {0}]
    BY DEF DPInv, DPTypeOK
<1>2. CASE add(o)
    BY <1>2, AddKeeps
<1>3. CASE remove(o)
    BY <1>1, <1>3, UnregisterKeeps DEF remove
<1>4. ASSUME portOf' \in [Objects -> Ports \cup {0}], UNCHANGED <<entries, route, stayed>>,
             \A p \in Objects : p # o => portOf'[p] = portOf[p], \A i \in 1..Len(entries) : entries[i] # o
      PROVE  Registered' /\ StayedMoveDown
  <2>1. \A i \in 1..Len(entries) : entries[i] \in Objects /\ portOf'[entries[i]] = portOf[entries[i]]
      BY <1>4, EntriesTyped
  <2>2. PICK n \in Nat : n = Len(entries) /\ n = Len(entries') /\ DOMAIN entries = 1..n
      BY <1>4, EntriesTyped
  <2>3. \A i \in 1..n : FiveTuple(entries[i])' = FiveTuple(entries[i])
      BY <1>4, <2>1, <2>2 DEF FiveTuple
  <2>4. EntriesLive' /\ OwnTuples'
    <3>1. entries' = entries
        BY <1>4
    <3>2. \A i \in 1..n : portOf[entries[i]] # 0
        BY <2>2 DEF DPInv, EntriesLive
    <3>3. EntriesLive'
        BY <2>1, <2>2, <3>1, <3>2 DEF EntriesLive
    <3>4. \A i, j \in 1..n : FiveTuple(entries[i]) = FiveTuple(entries[j]) => i = j
        BY <2>2 DEF DPInv, OwnTuples
    <3>5. OwnTuples'
        BY <2>2, <2>3, <3>1, <3>4 DEF OwnTuples
    <3> QED
        BY <3>3, <3>5
  <2>5. SlotsName'
    <3>1. \A s \in Slots : Occupied(s)' <=> Occupied(s)
        BY <1>4 DEF Occupied
    <3> QED
        BY <1>4, <2>2, <2>3, <3>1 DEF DPInv, SlotsName
  <2>6. EntriesReached'
    <3> SUFFICES ASSUME NEW i \in 1..n PROVE (\E m \in Slots : Reached(FiveTuple(entries[i]), m))'
        BY <2>2 DEF EntriesReached
    <3>1. PICK u : u = FiveTuple(entries[i])
        OBVIOUS
    <3>2. PICK m \in Slots : Reached(u, m)
        BY <2>2, <3>1 DEF DPInv, EntriesReached
    <3>3. Reached(u, m)'
        BY <1>4, <3>2 DEF Reached, Holds
    <3> QED
        BY <2>3, <3>1, <3>3
  <2>7. StayedMoveDown
      BY <1>4, <2>2 DEF StayedMoveDown, DPInv, TickPlace
  <2> QED
      BY <1>4, <2>4, <2>5, <2>6, <2>7 DEF Registered, DPInv, DPTypeOK
<1>5. CASE pick_src_port(o)
  <2>1. \A i \in 1..Len(entries) : entries[i] # o
      BY <1>5, EntriesTyped DEF pick_src_port, DPInv, EntriesLive
  <2>2. PICK p \in Ports : portOf' = [portOf EXCEPT ![o] = p]
      BY <1>5 DEF pick_src_port
  <2>3. portOf' \in [Objects -> Ports \cup {0}] /\ \A q \in Objects : q # o => portOf'[q] = portOf[q]
      BY <1>1, <2>2
  <2> QED
      BY <1>4, <1>5, <2>1, <2>3 DEF pick_src_port
<1>6. CASE destroy(o)
  <2>1. portOf' \in [Objects -> Ports \cup {0}] /\ \A q \in Objects : q # o => portOf'[q] = portOf[q]
      BY <1>1, <1>6 DEF destroy
  <2>2. CASE o \in ToSet(entries)
    <3>1. Unregister(o)
        BY <1>6, <2>2 DEF destroy, LeaveFirst
    <3> QED
        BY <2>1, <3>1, UnregisterKeeps
  <2>3. CASE o \notin ToSet(entries)
    <3>1. \A i \in 1..Len(entries) : entries[i] # o
        BY <2>3, EntriesTyped DEF ToSet
    <3> QED
        BY <1>4, <1>6, <2>1, <2>3, <3>1 DEF destroy, LeaveFirst
  <2> QED
      BY <2>2, <2>3
<1> QED
    BY <1>2, <1>3, <1>5, <1>6 DEF AppStep

\* A step that leaves the table and the entries alone leaves every search path.
LEMMA ReachedKept ==
    ASSUME DPInv, UNCHANGED <<portOf, entries, route>>
    PROVE  EntriesReached'
<1> SUFFICES ASSUME NEW i \in 1..Len(entries) PROVE (\E m \in Slots : Reached(FiveTuple(entries[i]), m))'
    BY DEF EntriesReached
<1>1. PICK u : u = FiveTuple(entries[i]) /\ u = FiveTuple(entries[i])'
    BY DEF FiveTuple
<1>2. PICK m \in Slots : Reached(u, m)
    BY <1>1 DEF DPInv, EntriesReached
<1>3. Reached(u, m)'
    BY <1>2 DEF Reached, Holds
<1> QED
    BY <1>1, <1>3

\* A step that registers and removes nothing keeps the registrations.
LEMMA QuiescentKeeps ==
    ASSUME DPInv, Quiescent
    PROVE  Registered' /\ StayedMoveDown
<1>1. UNCHANGED <<portOf, entries, route, stayed>> /\ Len(entries) \in Nat
    BY EntriesTyped DEF Quiescent
<1>2. EntriesLive' /\ OwnTuples' /\ SlotsName'
    BY <1>1 DEF DPInv, EntriesLive, OwnTuples, SlotsName, FiveTuple, Occupied
<1>3. EntriesReached'
    BY <1>1, ReachedKept
<1>4. StayedMoveDown
    BY <1>1 DEF StayedMoveDown, DPInv, TickPlace
<1> QED
    BY <1>1, <1>2, <1>3, <1>4 DEF Registered, DPInv, DPTypeOK

\* Every step of the poller and of the callbacks keeps the invariant.
LEMMA DPNextInv == DPInv /\ [DPNext]_DPvars => DPInv'
<1> SUFFICES ASSUME DPInv, [DPNext]_DPvars PROVE DPInv'
    OBVIOUS
<1>0. Len(entries) \in Nat /\ cursor \in Nat /\ cursor <= max_connections /\ stage \in {"idle", "burst", "tick"}
    BY EntriesTyped DEF DPInv, DPTypeOK
<1>1. ASSUME Registered', stage' \in {"idle", "burst", "tick"}, cursor' \in 0..max_connections, TickPlace'
      PROVE  DPInv'
    BY <1>1 DEF Registered, DPInv, DPTypeOK
<1>2. ASSUME StayedMoveDown, stage' = "tick" => \A i \in 1..Len(entries) : entries[i] \in stayed => entries[i] \in ticked' \/ i <= cursor',
             cursor' \in Nat, Len(entries') \in Nat
      PROVE  TickPlace'
  <2>1. ASSUME stage' = "tick", NEW i \in 1..Len(entries'), entries'[i] \in stayed'
        PROVE  entries'[i] \in ticked' \/ i <= cursor'
    <3>1. PICK j \in 1..Len(entries) : j >= i /\ entries[j] = entries'[i] /\ entries[j] \in stayed
        BY <1>2, <2>1 DEF StayedMoveDown
    <3>2. entries[j] \in ticked' \/ j <= cursor'
        BY <1>2, <2>1, <3>1
    <3>3. i \in Nat /\ j \in Nat
        BY <1>0, <1>2
    <3> QED
        BY <1>2, <3>1, <3>2, <3>3
  <2> QED
      BY <1>2, <2>1 DEF TickPlace, StayedMoveDown
<1>3. ASSUME Callback PROVE Registered' /\ StayedMoveDown /\ Len(entries') \in Nat
  <2>1. Registered' /\ StayedMoveDown
      BY <1>3, AppStepKeeps, QuiescentKeeps DEF Callback
  <2> QED
      BY <2>1 DEF Registered
<1>4. Quiescent => Callback
    BY DEF Callback
<1>5. CASE Application
  <2>1. Callback /\ stage' = "idle" /\ cursor' = cursor
      BY <1>5 DEF Application, inPoll, Callback
  <2> QED
      BY <1>0, <1>1, <1>2, <1>3, <2>1
<1>6. CASE rx_burst
  <2>1. stage' = "burst" /\ UNCHANGED <<portOf, entries, route, cursor>> /\ stayed' = ToSet(entries)
      BY <1>6 DEF rx_burst
  <2>2. Registered'
    <3>1. EntriesLive' /\ OwnTuples' /\ SlotsName'
        BY <2>1 DEF DPInv, EntriesLive, OwnTuples, SlotsName, FiveTuple, Occupied
    <3>2. EntriesReached'
        BY <2>1, ReachedKept
    <3> QED
        BY <2>1, <3>1, <3>2 DEF Registered, DPInv, DPTypeOK
  <2>3. TickPlace'
      BY <2>1, EntriesTyped DEF TickPlace, ToSet
  <2> QED
      BY <1>0, <1>1, <2>1, <2>2, <2>3
<1>7. CASE Dispatch
  <2>1. Callback /\ stage' = "burst" /\ cursor' = cursor
      BY <1>4, <1>7 DEF Dispatch
  <2> QED
      BY <1>0, <1>1, <1>2, <1>3, <2>1
<1>8. CASE BurstEnds
  <2>1. Callback /\ stage' = "tick" /\ cursor' = Len(entries)
      BY <1>4, <1>8 DEF BurstEnds, TickFrom
  <2>2. Len(entries) <= max_connections
      BY DEF DPInv, DPTypeOK
  <2>3. cursor' \in 0..max_connections /\ \A i \in 1..Len(entries) : i <= cursor'
      BY <1>0, <2>1, <2>2
  <2>4. TickPlace'
      BY <1>0, <1>2, <1>3, <2>1, <2>3
  <2> QED
      BY <1>1, <1>3, <2>1, <2>3, <2>4
<1>9. CASE Tick
  <2>1. stage = "tick" /\ stage' = "tick" /\ cursor > 0 /\ cursor' = cursor - 1 /\ Callback
      BY <1>4, <1>9 DEF Tick
  <2>2. ticked \subseteq ticked' /\ (cursor \in 1..Len(entries) => entries[cursor] \in ticked')
      BY <1>9, EntriesTyped DEF Tick
  <2>3. \A i \in 1..Len(entries) : entries[i] \in stayed => entries[i] \in ticked \/ i <= cursor
      BY <2>1 DEF DPInv, TickPlace
  <2>4. cursor' \in 0..max_connections /\ cursor' \in Nat
      BY <1>0, <2>1
  <2>5. ASSUME NEW i \in 1..Len(entries), entries[i] \in stayed PROVE entries[i] \in ticked' \/ i <= cursor'
    <3>1. CASE i = cursor
        BY <2>2, <3>1
    <3>2. CASE i # cursor
        BY <1>0, <2>1, <2>2, <2>3, <2>5, <3>2
    <3> QED
        BY <3>1, <3>2
  <2>6. TickPlace'
      BY <1>2, <1>3, <2>1, <2>4, <2>5
  <2> QED
      BY <1>1, <1>3, <2>1, <2>4, <2>6
<1>10. CASE PollReturns
  <2>1. Callback /\ stage' = "idle" /\ cursor' = cursor
      BY <1>4, <1>10 DEF PollReturns
  <2> QED
      BY <1>0, <1>1, <1>2, <1>3, <2>1
<1>11. CASE UNCHANGED DPvars
  <2>1. Quiescent /\ UNCHANGED <<stage, cursor, ticked>>
      BY <1>11 DEF DPvars, Quiescent
  <2>2. TickPlace'
      BY <2>1 DEF DPInv, TickPlace, Quiescent
  <2> QED
      BY <1>0, <1>1, <1>3, <1>4, <2>1, <2>2
<1> QED
    BY <1>5, <1>6, <1>7, <1>8, <1>9, <1>10, <1>11 DEF DPNext

\* DpdkPoller: for every table, hash and number of objects, whatever callbacks
\* add, remove and destroy: a tuple leads to the entry that owns it and to
\* nothing else, entries are alive, and a poll ticks every object that stays.
THEOREM DispatchAlwaysReaches == DPSpec => []DispatchReaches
<1>1. DPInv => DispatchReaches
  <2> SUFFICES ASSUME DPInv PROVE DispatchReaches
      OBVIOUS
  <2>1. RoutesReachEntries
    <3> SUFFICES ASSUME NEW t \in Tuples
                 PROVE  LET owners == {i \in DOMAIN entries : FiveTuple(entries[i]) = t}
                        IN  IF owners = {} THEN find_route_slot(t) = kInvalidSlot ELSE owners = {find_route_slot(t)}
        BY DEF RoutesReachEntries
    <3> DEFINE owners == {i \in DOMAIN entries : FiveTuple(entries[i]) = t}
    <3>0. DOMAIN entries = 1..Len(entries)
        BY EntriesTyped
    <3>1. CASE owners = {}
      <4>1. \A i \in 1..Len(entries) : FiveTuple(entries[i]) # t
          BY <3>0, <3>1
      <4> QED
          BY <3>1, <4>1, FindNobody
    <3>2. CASE owners # {}
      <4>1. PICK i \in 1..Len(entries) : FiveTuple(entries[i]) = t
          BY <3>0, <3>2
      <4>2. find_route_slot(t) = i
          BY <4>1, FindOwner
      <4>3. owners = {i}
          BY <3>0, <4>1 DEF DPInv, OwnTuples
      <4> QED
          BY <3>2, <4>2, <4>3
    <3> QED
        BY <3>1, <3>2
  <2>2. StayedAreTicked
    <3> SUFFICES ASSUME stage = "tick", cursor = 0, NEW o \in stayed PROVE o \in ticked
        BY DEF StayedAreTicked
    <3>1. PICK i \in 1..Len(entries) : entries[i] = o
        BY DEF DPInv, TickPlace
    <3>2. entries[i] \in ticked \/ i <= 0
        BY <3>1 DEF DPInv, TickPlace
    <3> QED
        BY <3>1, <3>2
  <2> QED
      BY <2>1, <2>2 DEF DPInv, DispatchReaches
<1> QED
    BY <1>1, DPInitInv, DPNextInv, PTL DEF DPSpec

-----------------------------------------------------------------------------
(* Sequences joined and with an element repeated.                          *)

HIDE PollerAssumption
USE RecordsAssumption

\* r is a, then b.
IsConcat(T, r, a, b) ==
    /\ r \in Seq(T) /\ Len(r) = Len(a) + Len(b)
    /\ \A j \in 1..Len(a) : r[j] = a[j]
    /\ \A j \in 1..Len(b) : r[Len(a) + j] = b[j]

\* What the concatenation of two sequences holds, and where.
LEMMA ConcatParts ==
    ASSUME NEW T, NEW a \in Seq(T), NEW b \in Seq(T)
    PROVE  IsConcat(T, a \o b, a, b)
<1>1. /\ a \o b \in Seq(T) /\ Len(a \o b) = Len(a) + Len(b)
      /\ \A j \in 1..(Len(a) + Len(b)) : (a \o b)[j] = IF j <= Len(a) THEN a[j] ELSE b[j - Len(a)]
    BY ConcatProperties
<1>2. Len(a) \in Nat /\ Len(b) \in Nat
    OBVIOUS
<1>3. ASSUME NEW j \in 1..Len(a) PROVE (a \o b)[j] = a[j]
  <2>1. j \in 1..(Len(a) + Len(b)) /\ j <= Len(a)
      BY <1>2
  <2> QED
      BY <1>1, <2>1
<1>4. ASSUME NEW j \in 1..Len(b) PROVE (a \o b)[Len(a) + j] = b[j]
  <2>1. Len(a) + j \in 1..(Len(a) + Len(b)) /\ ~(Len(a) + j <= Len(a)) /\ Len(a) + j - Len(a) = j
      BY <1>2
  <2> QED
      BY <1>1, <2>1
<1> QED
    BY <1>1, <1>3, <1>4, Zenon DEF IsConcat

\* A sequence whose elements are all of e.
CopiesOf(c, e, T) == c \in Seq(T) /\ \A k \in 1..Len(c) : \E j \in 1..Len(e) : c[k] = e[j]

\* Repeating an element adds nothing that was not there.
LEMMA InsertAtCopies ==
    ASSUME NEW T, NEW e \in Seq(T), NEW i \in 1..Len(e), NEW c, c = InsertAt(e, i, e[i])
    PROVE  CopiesOf(c, e, T)
<1> DEFINE a == SubSeq(e, 1, i - 1)
           b == SubSeq(e, i, Len(e))
           E == {e[j] : j \in 1..Len(e)}
<1>1. /\ Len(e) \in Nat /\ i \in Nat /\ e[i] \in E /\ \A j \in 1..Len(e) : e[j] \in E
      /\ E \subseteq T /\ 1 \in Int /\ i - 1 \in Int /\ i \in Int /\ Len(e) \in Int
    OBVIOUS
<1>2. \A j \in 1..(i - 1) : e[j] \in E
    BY <1>1
<1>3. \A j \in i..Len(e) : e[j] \in E
    BY <1>1
<1> HIDE DEF E
<1>4. a \in Seq(E) /\ b \in Seq(E) /\ <<e[i]>> \in Seq(E)
    BY <1>1, <1>2, <1>3, SubSeqProperties
<1> HIDE DEF a, b
<1>5. a \o <<e[i]>> \in Seq(E)
    BY <1>4, ConcatProperties
<1>6. a \o <<e[i]>> \o b \in Seq(E)
    BY <1>4, <1>5, ConcatProperties
<1>7. PICK r \in Seq(E) : r = InsertAt(e, i, e[i])
    BY <1>6 DEF InsertAt, a, b
<1>8. r \in Seq(T) /\ \A k \in 1..Len(r) : r[k] \in E
    BY <1>1, SeqMonotonic, ElementOfSeq
<1>9. CopiesOf(r, e, T)
    BY <1>8 DEF E, CopiesOf
<1> QED
    BY <1>7, <1>9

-----------------------------------------------------------------------------
(* The record layer: what a reader hands on is a prefix of what was sent.  *)

Types == {AppData, Handshake, Alert}
Aads == (Int \X Int) \cup (Int \X Int \X Int)
Records == [ct : Int, len : Int, explicit : Nat, key : Nat, nonce : Nat, aad : Aads,
            inner : Int, id : Nat, good : BOOLEAN]
Sealings == [key : Nat, nonce : Nat, room : Int, written : Int]
Readers == [seq : Nat, state : {"ok", "failed"}, got : Seq(Nat)]

TRTyped ==
    /\ tsealed \in Seq(Sealings) /\ twire \in Seq(Records) /\ tsent \in Seq(Nat) /\ copy \in Readers
    /\ tfmt \in Formats /\ wseq \in Nat /\ tkey \in Nat

\* What a record adds to its plaintext and tag, and the plaintext of a record.
Overhead == IF tfmt = "Tls13" THEN 1 ELSE IF tfmt = "Tls12AesGcm" THEN kExplicitNonceLen ELSE 0
PlainLen(rec) == rec.len - kAuthTagLen - Overhead
IsSent(id) == \E j \in 1..Len(tsent) : tsent[j] = id

\* A record says where it belongs: in its nonce, or in the data sealed with it;
\* and it carries data exactly if it is one of those sent.
RecordTrue(rec) ==
    /\ rec.id \in 1..Len(tsealed) /\ rec.explicit = rec.nonce
    /\ rec.key = 1 => rec.nonce + 1 = rec.id
    /\ ~IsTls13 => rec.aad[1] = rec.nonce
    /\ rec.inner = AppData /\ PlainLen(rec) > 0 <=> IsSent(rec.id)

WireRecordsTrue == \A i \in 1..Len(twire) : RecordTrue(twire[i])

\* The first key counts all records; no nonce at or above seq_ is in use.
NoncesBelow ==
    /\ tkey = 1 => wseq = Len(tsealed)
    /\ \A i \in 1..Len(tsealed) : /\ tsealed[i].key <= tkey
                                  /\ tsealed[i].key = tkey => tsealed[i].nonce < wseq

SentRising ==
    /\ \A j \in 1..Len(tsent) : tsent[j] \in 1..Len(tsealed)
    /\ \A i, j \in 1..Len(tsent) : i < j => tsent[i] < tsent[j]

\* The reader has handed on exactly what was sent up to its own number.
HandedOn ==
    /\ copy.seq <= Len(tsealed) /\ Len(copy.got) <= Len(tsent)
    /\ \A j \in 1..Len(copy.got) : copy.got[j] = tsent[j] /\ tsent[j] <= copy.seq
    /\ \A j \in 1..Len(tsent) : j > Len(copy.got) => tsent[j] > copy.seq

TRInv ==
    /\ TRTyped /\ TRTypeOK /\ WireRecordsTrue /\ NoncesBelow /\ SentRising /\ HandedOn
    /\ ReadersAgree /\ NoncesUnique /\ RecordsFit

SealedAs(rec, type, n, id, seq) ==
    /\ rec \in Records /\ rec.id = id /\ rec.inner = type /\ rec.key = tkey /\ rec.nonce = seq
    /\ rec.explicit = seq /\ PlainLen(rec) = n /\ (~IsTls13 => rec.aad[1] = seq)
    /\ kRecordHeaderLen + rec.len = encrypted_size_for(n)

\* Sealing n bytes, whatever the format, gives a record of its number that is as
\* long as encrypted_size_for said.
LEMMA SealMeaning ==
    ASSUME TRTyped, NEW type \in Types, NEW n \in Nat, NEW id \in Nat, NEW seq \in Nat,
           NEW rec, rec = Seal(type, n, id, seq)
    PROVE  SealedAs(rec, type, n, id, seq)
<1>1. type \in Int /\ AppData \in Int /\ tkey \in Nat
    BY DEF Types, AppData, Handshake, Alert, TRTyped
<1>2. CASE tfmt = "Tls13"
  <2>1. rec = Sealed(AppData, n + 1 + kAuthTagLen, seq, <<AppData, n + 1 + kAuthTagLen>>, type, id)
      BY <1>2 DEF Seal, encrypt_tls13
  <2>2. encrypted_size_for(n) = kRecordHeaderLen + n + kAuthTagLen + 1 /\ Overhead = 1 /\ IsTls13
      BY <1>2 DEF encrypted_size_for, Overhead, IsTls13
  <2> QED
      BY <1>1, <2>1, <2>2 DEF SealedAs, Sealed, Records, Aads, PlainLen, kAuthTagLen, kRecordHeaderLen
<1>3. CASE tfmt = "Tls12AesGcm"
  <2>1. rec = Sealed(type, kExplicitNonceLen + n + kAuthTagLen, seq, <<seq, type, n>>, type, id)
      BY <1>3 DEF Seal, encrypt_tls12_aes_gcm, build_aad
  <2>2. encrypted_size_for(n) = kRecordHeaderLen + n + kAuthTagLen + kExplicitNonceLen /\ Overhead = kExplicitNonceLen
      BY <1>3 DEF encrypted_size_for, Overhead
  <2> QED
      BY <1>1, <2>1, <2>2 DEF SealedAs, Sealed, Records, Aads, PlainLen, kAuthTagLen, kRecordHeaderLen, kExplicitNonceLen
<1>4. CASE tfmt = "Tls12Chacha20"
  <2>1. rec = Sealed(type, n + kAuthTagLen, seq, <<seq, type, n>>, type, id)
      BY <1>4 DEF Seal, encrypt_tls12_chacha20, build_aad
  <2>2. encrypted_size_for(n) = kRecordHeaderLen + n + kAuthTagLen + 0 /\ Overhead = 0
      BY <1>4 DEF encrypted_size_for, Overhead
  <2> QED
      BY <1>1, <2>1, <2>2 DEF SealedAs, Sealed, Records, Aads, PlainLen, kAuthTagLen, kRecordHeaderLen
<1> QED
    BY <1>2, <1>3, <1>4 DEF TRTyped, Formats

\* What is noted of a sealed record fits into the buffer made for it.
LEMMA SealingMeaning ==
    ASSUME NEW rec, NEW type, NEW n, NEW id, NEW seq, SealedAs(rec, type, n, id, seq)
    PROVE  /\ Sealing(rec, n) \in Sealings /\ Sealing(rec, n).key = tkey /\ Sealing(rec, n).nonce = seq
           /\ Sealing(rec, n).written <= Sealing(rec, n).room
<1>1. /\ rec.len \in Int /\ rec.key \in Nat /\ rec.nonce \in Nat /\ rec.key = tkey /\ rec.nonce = seq
      /\ kRecordHeaderLen + rec.len = encrypted_size_for(n)
    BY DEF SealedAs, Records
<1>2. kRecordHeaderLen + rec.len \in Int
    BY <1>1 DEF kRecordHeaderLen
<1> HIDE DEF kRecordHeaderLen
<1> QED
    BY <1>1, <1>2 DEF Sealing, Sealings

\* TlsDecryptor and TlsInPlaceDecryptor do the same with every record.
LEMMA ReadersSame ==
    ASSUME TRTyped, NEW rec \in Records, NEW r \in Readers
    PROVE  decrypt(rec, r) = process_in_place(rec, r)
<1> DEFINE rl == kRecordHeaderLen + rec.len
<1>1. rec.len \in Int /\ rl \in Int /\ r.seq \in Nat
    BY DEF Records, Readers, kRecordHeaderLen
<1>2. CASE tfmt = "Tls13"
  <2>1. decrypt_tls13(rec, r.seq) = open_tls13(rec, rl, r.seq)
      BY <1>1 DEF decrypt_tls13, open_tls13, kRecordHeaderLen, kAuthTagLen
  <2>2. decrypt_tls13(rec, r.seq) >= 0 => rl >= kRecordHeaderLen + kAuthTagLen
      BY <1>1 DEF decrypt_tls13, kRecordHeaderLen, kAuthTagLen
  <2> QED
      BY <1>2, <2>1, <2>2 DEF decrypt, process_in_place, open_in_place, InPlaceWithin
<1>3. CASE tfmt = "Tls12AesGcm"
  <2>1. decrypt_tls12_aes_gcm(rec, r.seq) = open_tls12_aes_gcm(rec, rl, r.seq)
    <3>1. rl - kRecordHeaderLen - kExplicitNonceLen - kAuthTagLen = rec.len - kExplicitNonceLen - kAuthTagLen
        BY <1>1 DEF kRecordHeaderLen, kAuthTagLen, kExplicitNonceLen
    <3>2. rl >= kRecordHeaderLen + kExplicitNonceLen + kAuthTagLen <=> rec.len - kExplicitNonceLen - kAuthTagLen >= 0
        BY <1>1 DEF kRecordHeaderLen, kAuthTagLen, kExplicitNonceLen
    <3> QED
        BY <3>1, <3>2, Zenon DEF decrypt_tls12_aes_gcm, open_tls12_aes_gcm
  <2>2. decrypt_tls12_aes_gcm(rec, r.seq) >= 0 => rl >= kRecordHeaderLen + kAuthTagLen
      BY <1>1 DEF decrypt_tls12_aes_gcm, kRecordHeaderLen, kAuthTagLen, kExplicitNonceLen
  <2> QED
      BY <1>3, <2>1, <2>2 DEF decrypt, process_in_place, open_in_place, InPlaceWithin
<1>4. CASE tfmt = "Tls12Chacha20"
  <2>1. decrypt_tls12_chacha20(rec, r.seq) = open_tls12_chacha20(rec, rl, r.seq)
    <3>1. rl - kRecordHeaderLen - kAuthTagLen = rec.len - kAuthTagLen
        BY <1>1 DEF kRecordHeaderLen, kAuthTagLen
    <3>2. rl >= kRecordHeaderLen + kAuthTagLen <=> rec.len - kAuthTagLen >= 0
        BY <1>1 DEF kRecordHeaderLen, kAuthTagLen
    <3> QED
        BY <3>1, <3>2, Zenon DEF decrypt_tls12_chacha20, open_tls12_chacha20
  <2>2. decrypt_tls12_chacha20(rec, r.seq) >= 0 => rl >= kRecordHeaderLen + kAuthTagLen
      BY <1>1 DEF decrypt_tls12_chacha20, kRecordHeaderLen, kAuthTagLen
  <2> QED
      BY <1>4, <2>1, <2>2 DEF decrypt, process_in_place, open_in_place, InPlaceWithin
<1> QED
    BY <1>2, <1>3, <1>4 DEF TRTyped, Formats

\* A record opens only if it is the next one, under the first key.
LEMMA OpensOnlyNext ==
    ASSUME TRTyped, NEW rec \in Records, RecordTrue(rec), NEW r \in Readers
    PROVE  \/ decrypt(rec, r) = Refuse(r)
           \/ /\ decrypt(rec, r) = Accept(rec, r, PlainLen(rec))
              /\ r.seq < kMaxSequenceNumber /\ rec.id = r.seq + 1
<1>1. /\ rec.len \in Int /\ r.seq \in Nat /\ rec.nonce \in Nat
      /\ rec.explicit = rec.nonce /\ (rec.key = 1 => rec.nonce + 1 = rec.id)
    BY DEF Records, Readers, RecordTrue
<1>2. CASE tfmt = "Tls13"
  <2>1. decrypt_tls13(rec, r.seq) >= 0 =>
          /\ decrypt_tls13(rec, r.seq) = PlainLen(rec) /\ rec.key = 1 /\ rec.nonce = r.seq
      BY <1>1, <1>2 DEF decrypt_tls13, PlainLen, Overhead, AeadOpens, kAuthTagLen
  <2>8. \/ decrypt(rec, r) = Refuse(r)
        \/ /\ decrypt(rec, r) = Accept(rec, r, decrypt_tls13(rec, r.seq))
           /\ r.seq < kMaxSequenceNumber /\ decrypt_tls13(rec, r.seq) >= 0
      BY <1>2 DEF decrypt
  <2> QED
      BY <1>1, <2>1, <2>8
<1>3. CASE tfmt = "Tls12AesGcm"
  <2> DEFINE n == rec.len - kExplicitNonceLen - kAuthTagLen
  <2>1. rec.aad[1] = rec.nonce /\ n = PlainLen(rec)
      BY <1>1, <1>3 DEF RecordTrue, IsTls13, PlainLen, Overhead, kAuthTagLen, kExplicitNonceLen
  <2>2. AeadOpens(rec, rec.explicit, build_aad(r.seq, rec.ct, n)) => rec.key = 1 /\ rec.nonce = r.seq
      BY <2>1 DEF AeadOpens, build_aad
  <2>3. decrypt_tls12_aes_gcm(rec, r.seq) >= 0 =>
          /\ decrypt_tls12_aes_gcm(rec, r.seq) = PlainLen(rec) /\ rec.key = 1 /\ rec.nonce = r.seq
      BY <2>1, <2>2 DEF decrypt_tls12_aes_gcm
  <2>8. \/ decrypt(rec, r) = Refuse(r)
        \/ /\ decrypt(rec, r) = Accept(rec, r, decrypt_tls12_aes_gcm(rec, r.seq))
           /\ r.seq < kMaxSequenceNumber /\ decrypt_tls12_aes_gcm(rec, r.seq) >= 0
      BY <1>3 DEF decrypt
  <2> QED
      BY <1>1, <2>3, <2>8
<1>4. CASE tfmt = "Tls12Chacha20"
  <2>1. decrypt_tls12_chacha20(rec, r.seq) >= 0 =>
          /\ decrypt_tls12_chacha20(rec, r.seq) = PlainLen(rec) /\ rec.key = 1 /\ rec.nonce = r.seq
      BY <1>1, <1>4 DEF decrypt_tls12_chacha20, PlainLen, Overhead, AeadOpens, kAuthTagLen
  <2>8. \/ decrypt(rec, r) = Refuse(r)
        \/ /\ decrypt(rec, r) = Accept(rec, r, decrypt_tls12_chacha20(rec, r.seq))
           /\ r.seq < kMaxSequenceNumber /\ decrypt_tls12_chacha20(rec, r.seq) >= 0
      BY <1>4 DEF decrypt
  <2> QED
      BY <1>1, <2>1, <2>8
<1> QED
    BY <1>2, <1>3, <1>4 DEF TRTyped, Formats

\* A send is cut into pieces none of which is empty.
LEMMA PiecesFull ==
    ASSUME NEW n \in Nat, n > 0
    PROVE  /\ Len(Pieces(n)) \in Nat
           /\ \A i \in 1..Len(Pieces(n)) : Pieces(n)[i] \in Nat /\ Pieces(n)[i] > 0
<1> DEFINE K == kMaxRecordPayload
           c == (n + K - 1) \div K
           p == (n + K - 1) % K
           q == n \div K
           m == n % K
<1>1. K \in Nat \ {0} /\ n + K - 1 \in Int /\ n + K - 1 >= K
    OBVIOUS
<1>2. /\ c \in Int /\ p \in 0..(K - 1) /\ n + K - 1 = K * c + p
      /\ q \in Int /\ m \in 0..(K - 1) /\ n = K * q + m
  <2>1. c \in Int /\ p \in 0..(K - 1) /\ n + K - 1 = K * c + p
      BY ONLY <1>1, DivMod, Zenon
  <2>2. n \in Int
      OBVIOUS
  <2>3. q \in Int /\ m \in 0..(K - 1) /\ n = K * q + m
      BY ONLY <1>1, <2>2, DivMod, Zenon
  <2> QED
      BY <2>1, <2>3
<1>3. Pieces(n) = [i \in 1..c |-> IF i * K <= n THEN K ELSE m]
    BY DEF Pieces
<1> HIDE DEF K, c, p, q, m
<1>4. c \in Nat
  <2> SUFFICES ASSUME c <= -1 PROVE FALSE
      BY <1>2
  <2>1. -c \in Int /\ -c >= 1
      BY <1>2
  <2>2. K * (-c) >= K
      BY <1>1, <2>1, MulGe
  <2>3. K * (-c) = -(K * c) /\ K * c \in Int
      BY <1>1, <1>2
  <2> QED
      BY <1>1, <1>2, <2>2, <2>3
<1>5. Len(Pieces(n)) = c
    BY <1>3, <1>4
<1>6. ASSUME NEW i \in 1..c, ~(i * K <= n) PROVE m > 0
  <2> SUFFICES ASSUME m = 0 PROVE FALSE
      BY <1>1, <1>2
  <2>1. i \in Int /\ i * K = K * i /\ K * i \in Int /\ K * q \in Int /\ K * c \in Int /\ K * q < K * i
      BY <1>1, <1>2, <1>4, <1>6
  <2>2. K * i - K * q = K * (i - q) /\ K * c - K * q = K * (c - q) /\ K * q - K * i = K * (q - i)
      BY <1>1, <1>2, <2>1, MulDiff
  <2>3. i - q >= 1
    <3> SUFFICES ASSUME q - i >= 0 PROVE FALSE
        BY <1>2, <2>1
    <3>1. CASE q = i
        BY <2>1, <3>1
    <3>2. CASE q - i >= 1
      <4>1. q - i \in Int
          BY <1>2, <2>1
      <4>2. K * (q - i) >= K
          BY <1>1, <3>2, <4>1, MulGe
      <4> QED
          BY <1>1, <2>1, <2>2, <4>2
    <3> QED
        BY <1>2, <2>1, <3>1, <3>2
  <2>4. c - q \in Int /\ c - q >= 1
      BY <1>2, <1>4, <2>1, <2>3
  <2>5. K * (c - q) >= K
      BY <1>1, <2>4, MulGe
  <2> QED
      BY <1>1, <1>2, <2>1, <2>2, <2>5
<1>7. ASSUME NEW i \in 1..c PROVE Pieces(n)[i] \in Nat /\ Pieces(n)[i] > 0
  <2>1. Pieces(n)[i] = IF i * K <= n THEN K ELSE m
      BY <1>3, <1>7
  <2> QED
      BY <1>1, <1>2, <1>6, <2>1
<1> QED
    BY <1>4, <1>5, <1>7
\* Nothing sealed, sent or read: every part holds.
LEMMA TRInitInv == TRInit => TRInv
<1> SUFFICES ASSUME TRInit PROVE TRInv
    OBVIOUS
<1>1. /\ tfmt \in Formats /\ wseq = 0 /\ tkey = 1 /\ wlatched = FALSE /\ tfaults = 0
      /\ copy = [seq |-> 0, state |-> "ok", got |-> << >>] /\ inplace = copy
      /\ Len(twire) = 0 /\ Len(tsealed) = 0 /\ Len(tsent) = 0
      /\ twire \in Seq(Records) /\ tsealed \in Seq(Sealings) /\ tsent \in Seq(Nat)
    BY DEF TRInit, Reader0
<1>2. copy \in Readers /\ copy.seq = 0 /\ copy.state = "ok" /\ Len(copy.got) = 0
  <2>1. << >> \in Seq(Nat) /\ Len(<< >>) = 0
      OBVIOUS
  <2> QED
      BY <1>1, <2>1 DEF Readers
<1>3. TRTyped /\ TRTypeOK
  <2>1. wlatched \in BOOLEAN
      BY <1>1, Zenon
  <2>2. 0 <= MaxRecords /\ 0 \in 0..MaxFaults /\ 0 <= kMaxSequenceNumber
      OBVIOUS
  <2>3. TRTyped
      BY <1>1, <1>2 DEF TRTyped
  <2> QED
      BY <1>1, <1>2, <2>1, <2>2, <2>3 DEF TRTypeOK
<1>4. WireRecordsTrue /\ NoncesBelow /\ SentRising /\ HandedOn
    BY <1>1, <1>2 DEF WireRecordsTrue, NoncesBelow, SentRising, HandedOn
<1>5. ReadersAgree /\ NoncesUnique /\ RecordsFit
    BY <1>1 DEF ReadersAgree, NoncesUnique, RecordsFit
<1> QED
    BY <1>3, <1>4, <1>5 DEF TRInv

\* Records sealed with the next numbers, and a new key that starts over, use no
\* nonce again.
LEMMA SealingKeeps ==
    ASSUME TRInv, NEW k \in Nat, NEW news \in Seq(Sealings), Len(news) = k,
           \A i \in 1..k : news[i].key = tkey /\ news[i].nonce = wseq + i - 1 /\ news[i].written <= news[i].room,
           tsealed' = tsealed \o news,
           (tkey' = tkey /\ wseq' = wseq + k) \/ (tkey' = tkey + 1 /\ wseq' = 0)
    PROVE  /\ tsealed' \in Seq(Sealings) /\ Len(tsealed') = Len(tsealed) + k
           /\ tkey' \in Nat /\ wseq' \in Nat /\ NoncesBelow' /\ NoncesUnique' /\ RecordsFit'
<1> DEFINE n == Len(tsealed)
<1>1. tsealed \in Seq(Sealings) /\ n \in Nat /\ wseq \in Nat /\ tkey \in Nat /\ tkey # 0
    BY DEF TRInv, TRTyped, TRTypeOK
<1>2. \A i \in 1..n : tsealed[i] \in Sealings
    BY <1>1, ElementOfSeq
<1>3. /\ tsealed' \in Seq(Sealings) /\ Len(tsealed') = n + k
      /\ \A i \in 1..(n + k) : tsealed'[i] = IF i <= n THEN tsealed[i] ELSE news[i - n]
    BY <1>1, ConcatProperties
<1>4. \A i \in 1..n : /\ tsealed[i].key \in Nat /\ tsealed[i].nonce \in Nat
                      /\ tsealed[i].key <= tkey /\ tsealed[i].written <= tsealed[i].room
                      /\ tsealed[i].key = tkey => tsealed[i].nonce < wseq
    BY <1>2 DEF Sealings, TRInv, NoncesBelow, RecordsFit
<1> HIDE DEF n
<1>5. \A i \in 1..(n + k) : \/ i \in 1..n /\ tsealed'[i] = tsealed[i]
                            \/ /\ i - n \in 1..k /\ i > n /\ tsealed'[i] = news[i - n]
                               /\ tsealed'[i].key = tkey /\ tsealed'[i].nonce = wseq + (i - n) - 1
                               /\ tsealed'[i].written <= tsealed'[i].room
  <2> SUFFICES ASSUME NEW i \in 1..(n + k), i \notin 1..n
               PROVE  /\ i - n \in 1..k /\ i > n /\ tsealed'[i] = news[i - n]
                      /\ tsealed'[i].key = tkey /\ tsealed'[i].nonce = wseq + (i - n) - 1
                      /\ tsealed'[i].written <= tsealed'[i].room
    <3>1. \A i \in 1..(n + k) : i \in 1..n => i <= n
        BY <1>1
    <3>2. \A i \in 1..(n + k) : i \in 1..n => tsealed'[i] = tsealed[i]
        BY <1>3, <3>1
    <3> QED
        BY <3>2
  <2>1. i - n \in 1..k /\ i > n /\ ~(i <= n)
      BY <1>1
  <2>2. tsealed'[i] = news[i - n]
      BY <1>3, <2>1
  <2> QED
      BY <2>1, <2>2
<1>6. RecordsFit'
    BY <1>3, <1>4, <1>5 DEF RecordsFit
<1>7. NoncesUnique'
  <2> SUFFICES ASSUME NEW i \in 1..(n + k), NEW j \in 1..(n + k),
                      tsealed'[i].key = tsealed'[j].key, tsealed'[i].nonce = tsealed'[j].nonce
               PROVE  i = j
      BY <1>3 DEF NoncesUnique
  <2>0. i \in Int /\ j \in Int /\ n \in Int /\ wseq \in Int
      BY <1>1
  <2>1. CASE i \in 1..n /\ j \in 1..n
      BY <1>3, <2>1 DEF TRInv, NoncesUnique, n
  <2>2. CASE i \in 1..n /\ j \notin 1..n
    <3>1. tsealed'[i] = tsealed[i]
        BY <1>3, <2>2
    <3>2. tsealed'[j].key = tkey /\ tsealed'[j].nonce = wseq + (j - n) - 1 /\ j > n
        BY <1>5, <2>2
    <3>3. PICK a \in Nat : a = tsealed[i].nonce /\ a < wseq
        BY <1>4, <2>2, <3>1, <3>2
    <3>4. a = wseq + (j - n) - 1
        BY <3>1, <3>2, <3>3
    <3> QED
        BY <2>0, <3>2, <3>3, <3>4
  <2>3. CASE i \notin 1..n /\ j \in 1..n
    <3>1. tsealed'[j] = tsealed[j]
        BY <1>3, <2>3
    <3>2. tsealed'[i].key = tkey /\ tsealed'[i].nonce = wseq + (i - n) - 1 /\ i > n
        BY <1>5, <2>3
    <3>3. PICK a \in Nat : a = tsealed[j].nonce /\ a < wseq
        BY <1>4, <2>3, <3>1, <3>2
    <3>4. a = wseq + (i - n) - 1
        BY <3>1, <3>2, <3>3
    <3> QED
        BY <2>0, <3>2, <3>3, <3>4
  <2>4. CASE i \notin 1..n /\ j \notin 1..n
    <3>1. tsealed'[i].nonce = wseq + (i - n) - 1 /\ tsealed'[j].nonce = wseq + (j - n) - 1
        BY <1>5, <2>4
    <3>2. wseq + (i - n) - 1 = wseq + (j - n) - 1
        BY <3>1
    <3> QED
        BY <2>0, <3>2
  <2> QED
      BY <2>1, <2>2, <2>3, <2>4
<1>8. tkey' = 1 => wseq' = n + k
  <2>1. tkey = 1 => wseq = n
      BY DEF TRInv, NoncesBelow, n
  <2> QED
      BY <1>1, <2>1
<1>9. ASSUME NEW i \in 1..(n + k)
      PROVE  tsealed'[i].key <= tkey' /\ (tsealed'[i].key = tkey' => tsealed'[i].nonce < wseq')
  <2>1. CASE i \in 1..n
    <3>1. tsealed'[i] = tsealed[i]
        BY <1>3, <2>1
    <3>2. PICK a \in Nat, b \in Nat : a = tsealed[i].key /\ b = tsealed[i].nonce
        BY <1>4, <2>1
    <3> QED
        BY <1>1, <1>4, <2>1, <3>1, <3>2
  <2>2. CASE i \notin 1..n
    <3>1. tsealed'[i].key = tkey /\ tsealed'[i].nonce = wseq + (i - n) - 1 /\ i - n \in 1..k
        BY <1>5, <2>2
    <3>2. PICK e \in 1..k : e = i - n
        BY <3>1
    <3> QED
        BY <1>1, <3>1, <3>2
  <2> QED
      BY <2>1, <2>2
<1>10. NoncesBelow'
    BY <1>3, <1>8, <1>9 DEF NoncesBelow
<1> QED
    BY <1>1, <1>3, <1>6, <1>7, <1>10 DEF n

\* Records sealed and data sent later change nothing for the records under way
\* and for what was handed on.
LEMMA SendingKeeps ==
    ASSUME TRInv, tfmt' = tfmt, copy' = copy, NEW k \in Nat, NEW m \in 0..k,
           Len(tsealed') = Len(tsealed) + k, tsent' \in Seq(Nat), Len(tsent') = Len(tsent) + m,
           \A j \in 1..Len(tsent) : tsent'[j] = tsent[j],
           \A j \in 1..m : tsent'[Len(tsent) + j] = Len(tsealed) + j
    PROVE  /\ \A rec \in Records : RecordTrue(rec) => RecordTrue(rec)'
           /\ SentRising' /\ HandedOn'
<1>0. PICK n \in Nat, s \in Nat : n = Len(tsealed) /\ s = Len(tsent)
    BY DEF TRInv, TRTyped
<1>1. /\ \A j \in 1..s : tsent[j] \in 1..n /\ tsent'[j] = tsent[j]
      /\ \A i, j \in 1..s : i < j => tsent[i] < tsent[j]
      /\ Len(tsealed') = n + k /\ Len(tsent') = s + m
    BY <1>0 DEF TRInv, SentRising
<1>2. \A j \in 1..(s + m) : \/ j \in 1..s /\ tsent'[j] = tsent[j]
                            \/ j > s /\ j - s \in 1..m /\ tsent'[j] = n + (j - s)
  <2> SUFFICES ASSUME NEW j \in 1..(s + m), j \notin 1..s
               PROVE  j > s /\ j - s \in 1..m /\ tsent'[j] = n + (j - s)
      BY <1>1
  <2>1. j > s /\ j - s \in 1..m /\ s + (j - s) = j
      OBVIOUS
  <2>2. tsent'[s + (j - s)] = n + (j - s)
      BY <1>0, <2>1
  <2> QED
      BY <2>1, <2>2
<1>3. ASSUME NEW id \in 1..n PROVE IsSent(id)' <=> IsSent(id)
  <2>1. IsSent(id) => IsSent(id)'
    <3> SUFFICES ASSUME NEW j \in 1..s, tsent[j] = id PROVE IsSent(id)'
        BY <1>0 DEF IsSent
    <3>1. j \in 1..(s + m) /\ tsent'[j] = id
        BY <1>1
    <3> QED
        BY <1>1, <3>1 DEF IsSent
  <2>2. IsSent(id)' => IsSent(id)
    <3> SUFFICES ASSUME NEW j \in 1..(s + m), tsent'[j] = id PROVE IsSent(id)
        BY <1>1 DEF IsSent
    <3>1. j \in 1..s
      <4> SUFFICES ASSUME j \notin 1..s PROVE FALSE
          OBVIOUS
      <4>1. j - s \in 1..m /\ id = n + (j - s)
          BY <1>2
      <4> QED
          BY <4>1
    <3>2. tsent[j] = id
        BY <1>1, <3>1
    <3> QED
        BY <1>0, <3>1, <3>2 DEF IsSent
  <2> QED
      BY <2>1, <2>2
<1>4. ASSUME NEW rec \in Records, RecordTrue(rec) PROVE RecordTrue(rec)'
  <2>1. rec.id \in 1..n /\ rec.id \in 1..(n + k)
      BY <1>0, <1>4 DEF RecordTrue
  <2>2. IsSent(rec.id)' <=> IsSent(rec.id)
      BY <1>3, <2>1
  <2>3. PlainLen(rec)' = PlainLen(rec) /\ (IsTls13' <=> IsTls13)
      BY DEF PlainLen, Overhead, IsTls13
  <2>4. /\ rec.explicit = rec.nonce /\ (rec.key = 1 => rec.nonce + 1 = rec.id)
        /\ (~IsTls13 => rec.aad[1] = rec.nonce) /\ (rec.inner = AppData /\ PlainLen(rec) > 0 <=> IsSent(rec.id))
      BY <1>4 DEF RecordTrue
  <2> HIDE DEF PlainLen, IsSent, IsTls13
  <2> QED
      BY <1>1, <2>1, <2>2, <2>3, <2>4 DEF RecordTrue
<1>5. SentRising'
  <2>1. ASSUME NEW j \in 1..(s + m) PROVE tsent'[j] \in 1..(n + k)
    <3>1. CASE j \in 1..s
      <4>1. tsent'[j] \in 1..n
          BY <1>1, <3>1
      <4> QED
          BY <4>1
    <3>2. CASE j \notin 1..s
      <4>1. j - s \in 1..m /\ tsent'[j] = n + (j - s)
          BY <1>2, <3>2
      <4> QED
          BY <4>1
    <3> QED
        BY <3>1, <3>2
  <2>2. ASSUME NEW i \in 1..(s + m), NEW j \in 1..(s + m), i < j PROVE tsent'[i] < tsent'[j]
    <3>1. CASE j \in 1..s
      <4>1. i \in 1..s
          BY <2>2, <3>1
      <4>2. tsent'[i] = tsent[i] /\ tsent'[j] = tsent[j] /\ tsent[i] < tsent[j]
          BY <1>1, <2>2, <3>1, <4>1
      <4> QED
          BY <4>2
    <3>2. CASE j \notin 1..s
      <4>1. j - s \in 1..m /\ j > s /\ tsent'[j] = n + (j - s)
          BY <1>2, <3>2
      <4>2. CASE i \in 1..s
        <5>1. tsent'[i] \in 1..n
            BY <1>1, <4>2
        <5> QED
            BY <4>1, <5>1
      <4>3. CASE i \notin 1..s
        <5>1. tsent'[i] = n + (i - s)
            BY <1>2, <4>3
        <5> QED
            BY <2>2, <4>1, <5>1
      <4> QED
          BY <4>2, <4>3
    <3> QED
        BY <3>1, <3>2
  <2> QED
      BY <1>1, <2>1, <2>2 DEF SentRising
<1>6. HandedOn'
  <2>1. PICK g \in Nat, q \in Nat : g = Len(copy.got) /\ q = copy.seq
      BY DEF TRInv, TRTyped, Readers
  <2>2. /\ q <= n /\ g <= s /\ \A j \in 1..g : copy.got[j] = tsent[j] /\ tsent[j] <= q
        /\ \A j \in 1..s : j > g => tsent[j] > q
      BY <1>0, <2>1 DEF TRInv, HandedOn
  <2>3. q <= n + k /\ g <= s + m
      BY <2>2
  <2>4. \A j \in 1..g : copy.got[j] = tsent'[j] /\ tsent'[j] <= q
    <3>1. \A j \in 1..g : j \in 1..s
        BY <2>2
    <3> QED
        BY <1>1, <2>2, <3>1
  <2>5. \A j \in 1..(s + m) : j > g => tsent'[j] > q
    <3> SUFFICES ASSUME NEW j \in 1..(s + m), j > g PROVE tsent'[j] > q
        OBVIOUS
    <3>1. CASE j \in 1..s
        BY <1>1, <2>2, <3>1
    <3>2. CASE j \notin 1..s
      <4>1. j - s \in 1..m /\ tsent'[j] = n + (j - s)
          BY <1>2, <3>2
      <4> QED
          BY <2>2, <4>1
    <3> QED
        BY <3>1, <3>2
  <2> QED
      BY <1>1, <2>1, <2>3, <2>4, <2>5 DEF HandedOn
<1> QED
    BY <1>4, <1>5, <1>6

\* The wire is true if each record on it is one that is true.
LEMMA WireFrom ==
    ASSUME twire' \in Seq(Records), \A i \in 1..Len(twire') : \E rec \in Records : twire'[i] = rec /\ RecordTrue(rec)'
    PROVE  WireRecordsTrue'
<1> SUFFICES ASSUME NEW i \in 1..Len(twire') PROVE RecordTrue(twire[i])'
    BY DEF WireRecordsTrue
<1>1. PICK rec \in Records : twire'[i] = rec /\ RecordTrue(rec)'
    OBVIOUS
<1> QED
    BY <1>1 DEF RecordTrue, PlainLen, IsSent

\* Bytes to send, cut into records up to the limit of the key.
LEMMA EncryptKeeps ==
    ASSUME TRInv, NEW n \in SendSizes, encrypt_for_send(n)
    PROVE  TRInv'
<1> DEFINE ps == Pieces(n)
           room == IF wseq >= kMaxSequenceNumber THEN 0 ELSE kMaxSequenceNumber - wseq
           k == IF Len(ps) <= room THEN Len(ps) ELSE room
           recs == [i \in 1..k |-> Seal(AppData, ps[i], Len(tsealed) + i, wseq + i - 1)]
           news == [i \in 1..k |-> Sealing(recs[i], ps[i])]
           ids == [i \in 1..k |-> recs[i].id]
<1>1. /\ n > 0 /\ Len(tsealed) + k <= MaxRecords /\ wseq' = wseq + k /\ tsealed' = tsealed \o news
      /\ wlatched' = (k < Len(ps)) /\ UNCHANGED <<tfmt, tkey, tfaults, copy, inplace>>
      /\ \/ UNCHANGED <<twire, tsent>>
         \/ k = Len(ps) /\ twire' = twire \o recs /\ tsent' = tsent \o ids
  <2>1. \/ k < Len(ps) /\ UNCHANGED <<twire, tsent>>
        \/ ~(k < Len(ps)) /\ twire' = twire \o recs /\ tsent' = tsent \o ids
      BY Zenon DEF encrypt_for_send
  <2>2. /\ n > 0 /\ Len(tsealed) + k <= MaxRecords /\ wseq' = wseq + k /\ tsealed' = tsealed \o news
        /\ wlatched' = (k < Len(ps)) /\ UNCHANGED <<tfmt, tkey, tfaults, copy, inplace>>
      BY Zenon DEF encrypt_for_send
  <2>3. n \in Nat /\ n > 0
      BY <2>2
  <2>4. Len(ps) \in Nat
      BY <2>3, PiecesFull
  <2>5. wseq \in Nat
      BY DEF TRInv, TRTyped
  <2>6. ~(k < Len(ps)) => k = Len(ps)
      BY <2>4, <2>5
  <2> QED
      BY <2>1, <2>2, <2>6, Zenon
<1>2. /\ n \in Nat /\ TRTyped /\ wseq \in Nat /\ tkey \in Nat /\ Len(tsealed) \in Nat /\ Len(tsent) \in Nat
      /\ tsent \in Seq(Nat)
    BY DEF TRInv, TRTyped
<1>3. Len(ps) \in Nat /\ \A i \in 1..Len(ps) : ps[i] \in Nat /\ ps[i] > 0
    BY <1>1, <1>2, PiecesFull
<1>4. k \in Nat /\ k <= Len(ps)
    BY <1>2, <1>3
<1> HIDE DEF ps, room, k
<1>5. ASSUME NEW i \in 1..k
      PROVE  /\ recs[i] \in Records /\ recs[i].id = Len(tsealed) + i /\ recs[i].inner = AppData
             /\ recs[i].key = tkey /\ recs[i].nonce = wseq + i - 1 /\ recs[i].explicit = recs[i].nonce
             /\ PlainLen(recs[i]) > 0 /\ (~IsTls13 => recs[i].aad[1] = recs[i].nonce)
             /\ SealedAs(recs[i], AppData, ps[i], Len(tsealed) + i, wseq + i - 1)
  <2>1. ps[i] \in Nat /\ ps[i] > 0 /\ Len(tsealed) + i \in Nat /\ wseq + i - 1 \in Nat
      BY <1>2, <1>3, <1>4
  <2>2. AppData \in Types /\ recs[i] = Seal(AppData, ps[i], Len(tsealed) + i, wseq + i - 1)
      BY DEF Types
  <2> HIDE DEF recs
  <2>3. PICK rec : rec = recs[i] /\ rec = Seal(AppData, ps[i], Len(tsealed) + i, wseq + i - 1)
      BY <2>2
  <2>4. SealedAs(rec, AppData, ps[i], Len(tsealed) + i, wseq + i - 1)
      BY <1>2, <2>1, <2>2, <2>3, SealMeaning, Zenon
  <2>5. PlainLen(recs[i]) > 0
      BY <2>1, <2>3, <2>4 DEF SealedAs
  <2> QED
      BY <2>3, <2>4, <2>5, Zenon DEF SealedAs
<1>6. recs \in Seq(Records) /\ Len(recs) = k
    BY <1>4, <1>5
<1>7. ASSUME NEW i \in 1..k
      PROVE  /\ news[i] \in Sealings /\ news[i].key = tkey /\ news[i].nonce = wseq + i - 1
             /\ news[i].written <= news[i].room /\ ids[i] \in Nat /\ ids[i] = Len(tsealed) + i
  <2>1. news[i] = Sealing(recs[i], ps[i]) /\ ids[i] = recs[i].id
      OBVIOUS
  <2>2. Len(tsealed) + i \in Nat
      BY <1>2
  <2> HIDE DEF recs, news, ids
  <2>3. /\ news[i] \in Sealings /\ news[i].key = tkey /\ news[i].nonce = wseq + i - 1
        /\ news[i].written <= news[i].room
      BY <1>5, <2>1, SealingMeaning
  <2> QED
      BY <1>5, <2>1, <2>2, <2>3
<1>8. news \in Seq(Sealings) /\ Len(news) = k /\ ids \in Seq(Nat) /\ Len(ids) = k
    BY <1>4, <1>7
<1> HIDE DEF recs, news, ids
<1>15. IsConcat(Nat, tsent \o ids, tsent, ids)
    BY <1>2, <1>8, ConcatParts, Zenon
<1>9. /\ tsealed' \in Seq(Sealings) /\ Len(tsealed') = Len(tsealed) + k
      /\ tkey' \in Nat /\ wseq' \in Nat /\ NoncesBelow' /\ NoncesUnique' /\ RecordsFit'
  <2>1. tkey' = tkey /\ wseq' = wseq + k
      BY <1>1
  <2>2. \A i \in 1..k : news[i].key = tkey /\ news[i].nonce = wseq + i - 1 /\ news[i].written <= news[i].room
      BY <1>7
  <2> QED
      BY <1>1, <1>4, <1>8, <2>1, <2>2, SealingKeeps
<1>10. wlatched' \in BOOLEAN
  <2>1. (k < Len(ps)) \in BOOLEAN
      OBVIOUS
  <2> QED
      BY <1>1, <2>1, Zenon
<1>11. /\ \A rec \in Records : RecordTrue(rec) => RecordTrue(rec)'
       /\ SentRising' /\ HandedOn' /\ tsent' \in Seq(Nat)
  <2>1. CASE UNCHANGED <<twire, tsent>>
    <3>1. tsent' \in Seq(Nat) /\ Len(tsent') = Len(tsent) + 0 /\ 0 \in 0..k
        BY <1>2, <1>4, <2>1 DEF TRTyped
    <3>2. \A j \in 1..Len(tsent) : tsent'[j] = tsent[j]
        BY <2>1
    <3>3. \A j \in 1..0 : tsent'[Len(tsent) + j] = Len(tsealed) + j
        OBVIOUS
    <3> QED
        BY <1>1, <1>4, <1>9, <3>1, <3>2, <3>3, SendingKeeps
  <2>2. CASE k = Len(ps) /\ twire' = twire \o recs /\ tsent' = tsent \o ids
    <3>0. IsConcat(Nat, tsent', tsent, ids)
        BY <1>15, <2>2, Zenon
    <3>1. tsent' \in Seq(Nat) /\ Len(tsent') = Len(tsent) + k
        BY <1>8, <3>0, Zenon DEF IsConcat
    <3>2. \A j \in 1..Len(tsent) : tsent'[j] = tsent[j]
        BY <3>0, Zenon DEF IsConcat
    <3>3. \A j \in 1..k : tsent'[Len(tsent) + j] = Len(tsealed) + j
        BY <1>7, <1>8, <3>0 DEF IsConcat
    <3>4. k \in 0..k
        BY <1>4
    <3> QED
        BY <1>1, <1>4, <1>9, <3>1, <3>2, <3>3, <3>4, SendingKeeps
  <2> QED
      BY <1>1, <2>1, <2>2
<1>12. twire' \in Seq(Records) /\ WireRecordsTrue'
  <2>0. twire \in Seq(Records) /\ Len(twire) \in Nat /\ \A i \in 1..Len(twire) : twire[i] \in Records /\ RecordTrue(twire[i])
      BY DEF TRInv, TRTyped, WireRecordsTrue
  <2>1. CASE UNCHANGED <<twire, tsent>>
    <3>1. \A i \in 1..Len(twire') : \E rec \in Records : twire'[i] = rec /\ RecordTrue(rec)'
        BY <1>11, <2>0, <2>1
    <3> QED
        BY <2>0, <2>1, <3>1, WireFrom
  <2>2. CASE k = Len(ps) /\ twire' = twire \o recs /\ tsent' = tsent \o ids
    <3>0. IsConcat(Records, twire', twire, recs)
      <4>1. IsConcat(Records, twire \o recs, twire, recs)
          BY <1>6, <2>0, ConcatParts, Zenon
      <4> QED
          BY <2>2, <4>1, Zenon
    <3>1. /\ twire' \in Seq(Records) /\ Len(twire') = Len(twire) + k
          /\ \A j \in 1..Len(twire) : twire'[j] = twire[j]
          /\ \A j \in 1..k : twire'[Len(twire) + j] = recs[j]
        BY <1>6, <3>0, Zenon DEF IsConcat
    <3>2. ASSUME NEW i \in 1..k, NEW rec \in Records, rec = recs[i] PROVE RecordTrue(rec)'
      <4>1. rec.id \in 1..Len(tsealed') /\ rec.id = Len(tsealed) + i
        <5>1. rec.id = Len(tsealed) + i
            BY <1>5, <3>2
        <5>2. Len(tsealed) + i \in 1..(Len(tsealed) + k)
            BY <1>2, <1>4
        <5> QED
            BY <1>9, <5>1, <5>2
      <4>2. rec.key = 1 => rec.nonce + 1 = rec.id
        <5>1. tkey = 1 => wseq = Len(tsealed)
            BY DEF TRInv, NoncesBelow
        <5>2. rec.key = tkey /\ rec.nonce = wseq + i - 1
            BY <1>5, <3>2
        <5>3. wseq + i - 1 + 1 = wseq + i
            BY <1>2
        <5> QED
            BY <4>1, <5>1, <5>2, <5>3
      <4>3. IsSent(rec.id)'
        <5>0. IsConcat(Nat, tsent', tsent, ids)
            BY <1>15, <2>2, Zenon
        <5>1. Len(tsent') = Len(tsent) + k /\ tsent'[Len(tsent) + i] = Len(tsealed) + i
            BY <1>7, <1>8, <5>0 DEF IsConcat
        <5>2. PICK m \in 1..(Len(tsent) + k) : m = Len(tsent) + i
            BY <1>2, <1>4
        <5>3. tsent'[m] = rec.id
            BY <4>1, <5>1, <5>2
        <5> QED
            BY <5>1, <5>3 DEF IsSent
      <4>4. PlainLen(rec)' = PlainLen(rec) /\ (IsTls13' <=> IsTls13)
          BY <1>1 DEF PlainLen, Overhead, IsTls13
      <4>5. rec.inner = AppData /\ PlainLen(rec)' > 0
          BY <1>5, <3>2, <4>4
      <4>6. rec.explicit = rec.nonce /\ (~IsTls13' => rec.aad[1] = rec.nonce)
          BY <1>5, <3>2, <4>4
      <4> QED
          BY <4>1, <4>2, <4>3, <4>5, <4>6 DEF RecordTrue
    <3>3. ASSUME NEW i \in 1..Len(twire') PROVE \E rec \in Records : twire'[i] = rec /\ RecordTrue(rec)'
      <4>0. i \in 1..(Len(twire) + k)
          BY <3>1
      <4>1. CASE i <= Len(twire)
        <5>1. i \in 1..Len(twire) /\ twire'[i] = twire[i]
            BY <2>0, <3>1, <4>0, <4>1
        <5>2. PICK rec \in Records : rec = twire[i] /\ RecordTrue(rec)
            BY <2>0, <5>1
        <5> QED
            BY <1>11, <5>1, <5>2
      <4>2. CASE ~(i <= Len(twire))
        <5>0. i - Len(twire) \in 1..k /\ Len(twire) + (i - Len(twire)) = i
            BY <1>4, <2>0, <4>0, <4>2
        <5>1. PICK m \in 1..k : Len(twire) + m = i
            BY <5>0
        <5>2. twire'[i] = recs[m]
            BY <3>1, <5>1
        <5>3. PICK rec \in Records : rec = recs[m]
            BY <1>5
        <5> QED
            BY <3>2, <5>2, <5>3
      <4> QED
          BY <4>1, <4>2
    <3> QED
        BY <3>1, <3>3, WireFrom
  <2> QED
      BY <1>1, <2>1, <2>2
<1>13. TRTyped'
    BY <1>1, <1>2, <1>9, <1>11, <1>12 DEF TRTyped
<1>14. TRTypeOK' /\ ReadersAgree'
    BY <1>1, <1>9, <1>10 DEF TRInv, TRTypeOK, ReadersAgree
<1> QED
    BY <1>9, <1>11, <1>12, <1>13, <1>14 DEF TRInv

\* One record of the peer that carries no data; after it the key may change.
LEMMA PeerRecordKeeps ==
    ASSUME TRInv, NEW type \in Types, NEW n \in Nat, ~(type = AppData /\ n > 0), Len(tsealed) < MaxRecords,
           NEW rec, rec = Seal(type, n, Len(tsealed) + 1, wseq),
           twire' = Append(twire, rec), tsealed' = Append(tsealed, Sealing(rec, n)),
           (tkey' = tkey /\ wseq' = wseq + 1) \/ (tkey = 1 /\ tkey' = tkey + 1 /\ wseq' = 0),
           UNCHANGED <<tfmt, wlatched, tsent, tfaults, copy, inplace>>
    PROVE  TRInv'
<1>1. /\ TRTyped /\ wseq \in Nat /\ tkey \in Nat /\ Len(tsealed) \in Nat /\ Len(tsent) \in Nat /\ tsent \in Seq(Nat)
      /\ tsealed \in Seq(Sealings) /\ twire \in Seq(Records) /\ Len(twire) \in Nat
    BY DEF TRInv, TRTyped
<1>2. PICK L \in Nat : L = Len(tsealed) /\ L + 1 \in Nat
    BY <1>1
<1>3. /\ rec \in Records /\ rec.id = L + 1 /\ rec.inner = type /\ rec.key = tkey /\ rec.nonce = wseq
      /\ rec.explicit = wseq /\ PlainLen(rec) = n /\ (~IsTls13 => rec.aad[1] = wseq)
      /\ kRecordHeaderLen + rec.len = encrypted_size_for(n)
  <2>1. Len(tsealed) + 1 \in Nat /\ type \in Types /\ n \in Nat /\ rec = Seal(type, n, Len(tsealed) + 1, wseq)
      BY <1>1
  <2>2. SealedAs(rec, type, n, Len(tsealed) + 1, wseq)
      BY <1>1, <2>1, SealMeaning, Zenon
  <2>3. SealedAs(rec, type, n, L + 1, wseq)
      BY <1>2, <2>2
  <2> QED
      BY <2>3, Zenon DEF SealedAs
<1>4. PICK x \in Sealings : x = Sealing(rec, n) /\ x.key = tkey /\ x.nonce = wseq /\ x.written <= x.room
  <2>1. SealedAs(rec, type, n, L + 1, wseq)
      BY <1>3, Zenon DEF SealedAs
  <2> QED
      BY <1>1, <2>1, SealingMeaning
<1>5. /\ tsealed' \in Seq(Sealings) /\ Len(tsealed') = L + 1
      /\ tkey' \in Nat /\ wseq' \in Nat /\ NoncesBelow' /\ NoncesUnique' /\ RecordsFit'
  <2>1. <<x>> \in Seq(Sealings) /\ Len(<<x>>) = 1 /\ <<x>>[1] = x
      OBVIOUS
  <2>2. tsealed' = tsealed \o <<x>>
      BY <1>1, <1>4, AppendIsConcat
  <2>3. \A i \in 1..1 : <<x>>[i].key = tkey /\ <<x>>[i].nonce = wseq + i - 1 /\ <<x>>[i].written <= <<x>>[i].room
      BY <1>1, <1>4, <2>1
  <2>4. PICK one \in Seq(Sealings) : one = <<x>>
      BY <2>1
  <2>5. 1 \in Nat /\ Len(one) = 1 /\ tsealed' = tsealed \o one
        /\ \A i \in 1..1 : one[i].key = tkey /\ one[i].nonce = wseq + i - 1 /\ one[i].written <= one[i].room
      BY <2>1, <2>2, <2>3, <2>4
  <2>6. (tkey' = tkey /\ wseq' = wseq + 1) \/ (tkey' = tkey + 1 /\ wseq' = 0)
      OBVIOUS
  <2> QED
      BY <1>2, <2>5, <2>6, SealingKeeps
<1>6. /\ \A r \in Records : RecordTrue(r) => RecordTrue(r)'
      /\ SentRising' /\ HandedOn'
  <2>1. /\ 1 \in Nat /\ 0 \in 0..1 /\ Len(tsealed') = Len(tsealed) + 1 /\ tsent' \in Seq(Nat)
        /\ Len(tsent') = Len(tsent) + 0 /\ tfmt' = tfmt /\ copy' = copy
      BY <1>1, <1>2, <1>5
  <2>2. \A j \in 1..Len(tsent) : tsent'[j] = tsent[j]
      OBVIOUS
  <2>3. \A j \in 1..0 : tsent'[Len(tsent) + j] = Len(tsealed) + j
      OBVIOUS
  <2> QED
      BY <2>1, <2>2, <2>3, SendingKeeps
<1>7. RecordTrue(rec)'
  <2>1. rec.id \in 1..Len(tsealed') /\ rec.explicit = rec.nonce
      BY <1>2, <1>3, <1>5
  <2>2. rec.key = 1 => rec.nonce + 1 = rec.id
    <3>1. tkey = 1 => wseq = L
        BY <1>2 DEF TRInv, NoncesBelow
    <3> QED
        BY <1>3, <3>1
  <2>3. ~IsSent(rec.id)'
    <3>1. \A j \in 1..Len(tsent) : tsent[j] \in 1..L
        BY <1>2 DEF TRInv, SentRising
    <3>2. L + 1 \notin 1..L
        OBVIOUS
    <3>3. \A j \in 1..Len(tsent) : tsent[j] # L + 1
        BY <3>1, <3>2, Zenon
    <3> QED
        BY <1>3, <3>3 DEF IsSent
  <2>4. PlainLen(rec)' = PlainLen(rec) /\ (IsTls13' <=> IsTls13)
      BY DEF PlainLen, Overhead, IsTls13
  <2>5. ~(rec.inner = AppData /\ PlainLen(rec)' > 0) /\ (~IsTls13' => rec.aad[1] = rec.nonce)
      BY <1>3, <2>4
  <2> QED
      BY <2>1, <2>2, <2>3, <2>5 DEF RecordTrue
<1>8. twire' \in Seq(Records) /\ WireRecordsTrue'
  <2>1. /\ twire' \in Seq(Records) /\ Len(twire') = Len(twire) + 1
        /\ \A i \in 1..Len(twire) : twire'[i] = twire[i]
        /\ twire'[Len(twire) + 1] = rec
      BY <1>1, <1>3, AppendProperties
  <2>2. \A i \in 1..Len(twire) : twire[i] \in Records /\ RecordTrue(twire[i])
      BY <1>1 DEF TRInv, WireRecordsTrue
  <2>3. ASSUME NEW i \in 1..Len(twire') PROVE \E r \in Records : twire'[i] = r /\ RecordTrue(r)'
    <3>1. CASE i \in 1..Len(twire)
      <4>1. PICK r \in Records : r = twire[i] /\ RecordTrue(r)
          BY <2>2, <3>1
      <4> QED
          BY <1>6, <2>1, <3>1, <4>1
    <3>2. CASE i = Len(twire) + 1
        BY <1>3, <1>7, <2>1, <3>2
    <3> QED
        BY <1>1, <2>1, <3>1, <3>2
  <2> QED
      BY <2>1, <2>3, WireFrom
<1>9. TRTyped'
    BY <1>1, <1>5, <1>8 DEF TRTyped
<1>10. TRTypeOK' /\ ReadersAgree'
  <2>1. tkey' \in 1..2 /\ Len(tsealed') <= MaxRecords
      BY <1>1, <1>2, <1>5 DEF TRInv, TRTypeOK
  <2>2. wlatched' \in BOOLEAN
      BY Zenon DEF TRInv, TRTypeOK
  <2> QED
      BY <1>5, <2>1, <2>2 DEF TRInv, TRTypeOK, ReadersAgree
<1> QED
    BY <1>5, <1>6, <1>8, <1>9, <1>10 DEF TRInv

\* A record is true or not whatever is on the wire and with the readers.
LEMMA RecordKept ==
    ASSUME NEW rec, RecordTrue(rec), UNCHANGED <<tfmt, tsealed, tsent>>
    PROVE  RecordTrue(rec)'
BY DEF RecordTrue, IsTls13, PlainLen, Overhead, IsSent

\* Loss, repetition, damage and exchange leave every record what it says it is.
LEMMA FaultKeeps ==
    ASSUME TRInv, RecordFault
    PROVE  TRInv'
<1>1. /\ tfaults < MaxFaults /\ tfaults' = tfaults + 1
      /\ UNCHANGED <<tfmt, wseq, tkey, wlatched, tsealed, tsent, copy, inplace>>
    BY DEF RecordFault
<1>2. PICK i \in 1..Len(twire) :
        \/ twire' = RemoveAt(twire, i)
        \/ twire' = InsertAt(twire, i, twire[i])
        \/ twire' = [twire EXCEPT ![i].good = FALSE]
        \/ i < Len(twire) /\ twire' = [twire EXCEPT ![i] = twire[i + 1], ![i + 1] = twire[i]]
    BY DEF RecordFault
<1>3. PICK n \in Nat : n = Len(twire)
    BY DEF TRInv, TRTyped
<1>4. twire \in Seq(Records) /\ \A j \in 1..n : twire[j] \in Records /\ RecordTrue(twire[j])
    BY <1>3 DEF TRInv, TRTyped, WireRecordsTrue
<1>5. \A j \in 1..n : \E rec \in Records : twire[j] = rec /\ RecordTrue(rec)'
  <2> SUFFICES ASSUME NEW j \in 1..n PROVE \E rec \in Records : twire[j] = rec /\ RecordTrue(rec)'
      OBVIOUS
  <2>1. PICK rec \in Records : rec = twire[j] /\ RecordTrue(rec)
      BY <1>4
  <2>2. RecordTrue(rec)'
      BY <1>1, <2>1, RecordKept
  <2> QED
      BY <2>1, <2>2
<1>6. ASSUME twire' \in Seq(Records), \A k \in 1..Len(twire') : \E j \in 1..n : twire'[k] = twire[j]
      PROVE  twire' \in Seq(Records) /\ WireRecordsTrue'
  <2>1. \A k \in 1..Len(twire') : \E rec \in Records : twire'[k] = rec /\ RecordTrue(rec)'
      BY <1>5, <1>6
  <2> QED
      BY <1>6, <2>1, WireFrom
<1>7. ASSUME twire' = RemoveAt(twire, i)
      PROVE  twire' \in Seq(Records) /\ WireRecordsTrue'
  <2>1. /\ twire' \in Seq(Records) /\ Len(twire') = n - 1
        /\ \A j \in 1..(n - 1) : twire'[j] = IF j < i THEN twire[j] ELSE twire[j + 1]
      BY <1>3, <1>4, <1>7, RemoveAtShifts
  <2>2. ASSUME NEW k \in 1..Len(twire') PROVE \E j \in 1..n : twire'[k] = twire[j]
    <3>1. k \in 1..(n - 1) /\ k \in 1..n /\ k + 1 \in 1..n
        BY <2>1
    <3> QED
        BY <2>1, <3>1
  <2> QED
      BY <1>6, <2>1, <2>2
<1>8. ASSUME twire' = InsertAt(twire, i, twire[i])
      PROVE  twire' \in Seq(Records) /\ WireRecordsTrue'
  <2>1. twire \in Seq(Records) /\ i \in 1..Len(twire)
      BY <1>3, <1>4
  <2>2. CopiesOf(twire', twire, Records)
      BY <1>8, <2>1, InsertAtCopies, Zenon
  <2> QED
      BY <1>3, <1>6, <2>2 DEF CopiesOf
<1>9. ASSUME twire' = [twire EXCEPT ![i].good = FALSE]
      PROVE  twire' \in Seq(Records) /\ WireRecordsTrue'
  <2>1. PICK bad \in Records : bad = [twire[i] EXCEPT !.good = FALSE]
    <3>1. twire[i] \in Records
        BY <1>3, <1>4
    <3> QED
        BY <3>1 DEF Records
  <2>2. twire' = [twire EXCEPT ![i] = bad]
      BY <1>9, <2>1
  <2>3. twire' \in Seq(Records) /\ Len(twire') = n /\ \A j \in 1..n : twire'[j] = IF j = i THEN bad ELSE twire[j]
      BY <1>3, <1>4, <2>2, ExceptSeq
  <2>4. RecordTrue(bad)'
    <3>1. PICK rec \in Records : rec = twire[i] /\ RecordTrue(rec)
        BY <1>3, <1>4
    <3>2. /\ bad.id = rec.id /\ bad.explicit = rec.explicit /\ bad.nonce = rec.nonce /\ bad.key = rec.key
          /\ bad.aad = rec.aad /\ bad.inner = rec.inner /\ bad.len = rec.len
        BY <2>1, <3>1 DEF Records
    <3>3. RecordTrue(bad)
        BY <3>1, <3>2 DEF RecordTrue, PlainLen
    <3> QED
        BY <1>1, <3>3, RecordKept
  <2>5. \A k \in 1..Len(twire') : \E rec \in Records : twire'[k] = rec /\ RecordTrue(rec)'
      BY <1>5, <2>3, <2>4
  <2> QED
      BY <2>3, <2>5, WireFrom
<1>10. ASSUME i < Len(twire), twire' = [twire EXCEPT ![i] = twire[i + 1], ![i + 1] = twire[i]]
       PROVE  twire' \in Seq(Records) /\ WireRecordsTrue'
  <2>1. i + 1 \in 1..n /\ i \in 1..n
      BY <1>3, <1>10
  <2>2. PICK a \in Records, b \in Records : a = twire[i + 1] /\ b = twire[i]
      BY <1>4, <2>1
  <2>3. PICK half : half = [twire EXCEPT ![i] = a]
      OBVIOUS
  <2>4. half \in Seq(Records) /\ Len(half) = n /\ \A j \in 1..n : half[j] = IF j = i THEN a ELSE twire[j]
      BY <1>3, <1>4, <2>3, ExceptSeq
  <2>5. twire' = [half EXCEPT ![i + 1] = b]
      BY <1>10, <2>2, <2>3
  <2>6. twire' \in Seq(Records) /\ Len(twire') = n /\ \A j \in 1..n : twire'[j] = IF j = i + 1 THEN b ELSE half[j]
      BY <2>1, <2>4, <2>5, ExceptSeq
  <2>7. \A k \in 1..Len(twire') : \E j \in 1..n : twire'[k] = twire[j]
      BY <2>1, <2>2, <2>4, <2>6
  <2> QED
      BY <1>6, <2>6, <2>7
<1>11. twire' \in Seq(Records) /\ WireRecordsTrue'
    BY <1>2, <1>7, <1>8, <1>9, <1>10
<1>12. TRTyped'
    BY <1>1, <1>11 DEF TRInv, TRTyped
<1>13. TRTypeOK'
  <2>1. wlatched' \in BOOLEAN
      BY <1>1, Zenon DEF TRInv, TRTypeOK
  <2>2. tfaults' \in 0..MaxFaults
      BY <1>1 DEF TRInv, TRTypeOK
  <2> QED
      BY <1>1, <2>1, <2>2 DEF TRInv, TRTypeOK
<1>14. NoncesBelow' /\ SentRising' /\ HandedOn' /\ ReadersAgree' /\ NoncesUnique' /\ RecordsFit'
    BY <1>1 DEF TRInv, NoncesBelow, SentRising, HandedOn, ReadersAgree, NoncesUnique, RecordsFit
<1> QED
    BY <1>11, <1>12, <1>13, <1>14 DEF TRInv

\* A record that opens is the next one, and adds what was sent next or nothing.
LEMMA ReadKeeps ==
    ASSUME TRInv, ReadRecord
    PROVE  TRInv'
<1>1. twire # << >> /\ twire' = Tail(twire) /\ UNCHANGED <<tfmt, wseq, tkey, wlatched, tsealed, tsent, tfaults>>
    BY DEF ReadRecord
<1>2. TRTyped /\ twire \in Seq(Records) /\ copy \in Readers /\ inplace = copy
    BY DEF TRInv, TRTyped, ReadersAgree
<1>3. PICK rec \in Records : rec = Head(twire) /\ RecordTrue(rec)
  <2>1. Head(twire) = twire[1] /\ 1 \in 1..Len(twire)
      BY <1>1, <1>2
  <2> QED
      BY <1>2, <2>1 DEF TRInv, WireRecordsTrue
<1>4. copy' = decrypt(rec, copy) /\ inplace' = copy'
  <2>1. copy.state = "ok" /\ inplace.state = "ok"
      BY <1>2 DEF ReadRecord
  <2>2. copy' = decrypt(rec, copy) /\ inplace' = process_in_place(rec, copy)
      BY <1>2, <1>3, <2>1 DEF ReadRecord
  <2> QED
      BY <1>2, <2>2, ReadersSame
<1>5. twire' \in Seq(Records) /\ WireRecordsTrue'
  <2>1. /\ twire' \in Seq(Records) /\ Len(twire') = Len(twire) - 1
        /\ \A i \in 1..Len(twire') : twire'[i] = twire[i + 1]
      BY <1>1, <1>2, HeadTailProperties
  <2>2. ASSUME NEW i \in 1..Len(twire') PROVE \E r \in Records : twire'[i] = r /\ RecordTrue(r)'
    <3>1. i + 1 \in 1..Len(twire) /\ twire'[i] = twire[i + 1]
        BY <1>2, <2>1
    <3>2. PICK r \in Records : r = twire[i + 1] /\ RecordTrue(r)
        BY <1>2, <3>1 DEF TRInv, WireRecordsTrue
    <3>3. RecordTrue(r)'
        BY <1>1, <3>2, RecordKept
    <3> QED
        BY <3>1, <3>2, <3>3
  <2> QED
      BY <2>1, <2>2, WireFrom
<1>6. PICK q \in Nat, g \in Seq(Nat), k \in Nat, s \in Nat, n \in Nat :
        /\ q = copy.seq /\ g = copy.got /\ k = Len(g) /\ s = Len(tsent) /\ n = Len(tsealed)
  <2>1. copy.seq \in Nat /\ copy.got \in Seq(Nat)
      BY <1>2 DEF Readers
  <2>2. Len(tsent) \in Nat /\ Len(tsealed) \in Nat
      BY <1>2 DEF TRTyped
  <2>3. Len(copy.got) \in Nat
      BY <2>1
  <2> QED
      BY <2>1, <2>2, <2>3
<1>7. /\ q <= n /\ k <= s /\ \A j \in 1..k : g[j] = tsent[j] /\ tsent[j] <= q
      /\ \A j \in 1..s : j > k => tsent[j] > q
      /\ \A j \in 1..s : tsent[j] \in 1..n
      /\ \A i, j \in 1..s : i < j => tsent[i] < tsent[j]
      /\ q <= kMaxSequenceNumber
    BY <1>6 DEF TRInv, HandedOn, SentRising, TRTypeOK
<1>8. ASSUME copy' \in Readers, copy'.seq <= kMaxSequenceNumber, HandedOn' PROVE TRInv'
  <2>1. TRTyped'
      BY <1>1, <1>2, <1>5, <1>8 DEF TRTyped
  <2>2. TRTypeOK'
    <3>1. wlatched' \in BOOLEAN
        BY <1>1, Zenon DEF TRInv, TRTypeOK
    <3>2. copy'.state \in {"ok", "failed"}
        BY <1>8 DEF Readers
    <3> QED
        BY <1>1, <1>4, <1>8, <3>1, <3>2 DEF TRInv, TRTypeOK
  <2>3. NoncesBelow' /\ SentRising' /\ NoncesUnique' /\ RecordsFit'
      BY <1>1 DEF TRInv, NoncesBelow, SentRising, NoncesUnique, RecordsFit
  <2>4. ReadersAgree'
      BY <1>4 DEF ReadersAgree
  <2> QED
      BY <1>5, <1>8, <2>1, <2>2, <2>3, <2>4 DEF TRInv
<1>9. CASE copy' = Refuse(copy)
  <2>1. copy' \in Readers /\ copy'.seq = q /\ copy'.got = g
      BY <1>2, <1>6, <1>9 DEF Refuse, Readers
  <2>2. HandedOn'
      BY <1>1, <1>6, <1>7, <2>1 DEF HandedOn
  <2> QED
      BY <1>7, <1>8, <2>1, <2>2
<1>10. CASE copy' = Accept(rec, copy, PlainLen(rec)) /\ copy.seq < kMaxSequenceNumber /\ rec.id = copy.seq + 1
  <2>1. rec.id = q + 1 /\ q + 1 \in 1..n /\ q + 1 <= kMaxSequenceNumber
      BY <1>3, <1>6, <1>10 DEF RecordTrue
  <2>2. rec.inner = AppData /\ PlainLen(rec) > 0 <=> IsSent(q + 1)
      BY <1>3, <2>1 DEF RecordTrue
  <2>3. CASE IsSent(q + 1)
    <3>0. q + 1 \in Nat
        OBVIOUS
    <3>1. PICK h \in Seq(Nat) : h = Append(g, q + 1)
        BY <3>0, AppendProperties
    <3>2. copy' \in Readers /\ copy'.seq = q + 1 /\ copy'.got = h
      <4>1. rec.inner = AppData /\ PlainLen(rec) > 0
          BY <2>2, <2>3
      <4>2. copy' = [copy EXCEPT !.seq = q + 1, !.got = h]
          BY <1>6, <1>10, <2>1, <3>1, <4>1, Zenon DEF Accept
      <4> QED
          BY <1>2, <3>0, <4>2 DEF Readers
    <3>3. PICK m \in 1..s : tsent[m] = q + 1
        BY <1>6, <2>3 DEF IsSent
    <3>4. m = k + 1
      <4>1. m > k
        <5> SUFFICES ASSUME m <= k PROVE FALSE
            OBVIOUS
        <5>1. m \in 1..k
            OBVIOUS
        <5> QED
            BY <1>7, <3>3, <5>1
      <4>2. ~(m > k + 1)
        <5> SUFFICES ASSUME m > k + 1 PROVE FALSE
            OBVIOUS
        <5>1. k + 1 \in 1..s /\ k + 1 > k /\ k + 1 < m
            OBVIOUS
        <5>2. tsent[k + 1] > q /\ tsent[k + 1] < tsent[m] /\ tsent[k + 1] \in 1..n
            BY <1>7, <5>1
        <5> QED
            BY <3>3, <5>2
      <4> QED
          BY <4>1, <4>2
    <3>5. Len(h) = k + 1 /\ h[k + 1] = q + 1 /\ \A j \in 1..k : h[j] = g[j]
        BY <1>6, <3>1
    <3>6. ASSUME NEW j \in 1..(k + 1) PROVE h[j] = tsent[j] /\ tsent[j] <= q + 1
      <4>1. CASE j \in 1..k
        <5>1. j \in 1..s /\ tsent[j] \in 1..n
            BY <1>7, <4>1
        <5> QED
            BY <1>7, <3>5, <4>1, <5>1
      <4>2. CASE j = k + 1
          BY <3>3, <3>4, <3>5, <4>2
      <4> QED
          BY <4>1, <4>2
    <3>7. ASSUME NEW j \in 1..s, j > k + 1 PROVE tsent[j] > q + 1
      <4>1. tsent[m] < tsent[j]
          BY <1>7, <3>4, <3>7
      <4> QED
          BY <3>3, <4>1
    <3>8. HandedOn'
        BY <1>1, <1>6, <2>1, <3>2, <3>3, <3>4, <3>5, <3>6, <3>7 DEF HandedOn
    <3> QED
        BY <1>8, <2>1, <3>2, <3>8
  <2>4. CASE ~IsSent(q + 1)
    <3>1. copy' \in Readers /\ copy'.seq = q + 1 /\ copy'.got = g
      <4>1. ~(rec.inner = AppData /\ PlainLen(rec) > 0)
          BY <2>2, <2>4
      <4>2. copy' = [copy EXCEPT !.seq = q + 1, !.got = g]
          BY <1>6, <1>10, <4>1, Zenon DEF Accept
      <4>3. q + 1 \in Nat
          OBVIOUS
      <4> QED
          BY <1>2, <4>2, <4>3 DEF Readers
    <3>2. ASSUME NEW j \in 1..s, j > k PROVE tsent[j] > q + 1
      <4>1. tsent[j] > q /\ tsent[j] \in 1..n
          BY <1>7, <3>2
      <4>2. tsent[j] # q + 1
          BY <1>6, <2>4 DEF IsSent
      <4> QED
          BY <4>1, <4>2
    <3>3. ASSUME NEW j \in 1..k PROVE g[j] = tsent[j] /\ tsent[j] <= q + 1
      <4>1. j \in 1..s
          BY <1>7
      <4>2. tsent[j] \in 1..n /\ g[j] = tsent[j] /\ tsent[j] <= q
          BY <1>7, <4>1
      <4> QED
          BY <4>2
    <3>4. HandedOn'
        BY <1>1, <1>6, <1>7, <2>1, <3>1, <3>2, <3>3 DEF HandedOn
    <3> QED
        BY <1>8, <2>1, <3>1, <3>4
  <2> QED
      BY <2>3, <2>4
<1> QED
    BY <1>2, <1>3, <1>4, <1>9, <1>10, OpensOnlyNext

\* Every step of the writer, the wire and the readers keeps the invariant.
LEMMA TRNextInv == TRInv /\ [TRNext]_tvars => TRInv'
<1> SUFFICES ASSUME TRInv, [TRNext]_tvars PROVE TRInv'
    OBVIOUS
<1>1. CASE \E n \in SendSizes : encrypt_for_send(n)
    BY <1>1, EncryptKeeps
<1>2. ASSUME NEW type \in Types, PeerSends(type, IF type = AppData THEN 0 ELSE 2) PROVE TRInv'
  <2>1. PICK n \in Nat : n = (IF type = AppData THEN 0 ELSE 2) /\ ~(type = AppData /\ n > 0)
      OBVIOUS
  <2>2. PICK rec : /\ rec = Seal(type, n, Len(tsealed) + 1, wseq) /\ twire' = Append(twire, rec)
                   /\ tsealed' = Append(tsealed, Sealing(rec, n))
      BY <1>2, <2>1 DEF PeerSends
  <2>3. /\ Len(tsealed) < MaxRecords /\ tkey' = tkey /\ wseq' = wseq + 1
        /\ UNCHANGED <<tfmt, wlatched, tsent, tfaults, copy, inplace>>
      BY <1>2 DEF PeerSends, SeqAfter
  <2> QED
      BY <2>1, <2>2, <2>3, PeerRecordKeeps
<1>3. CASE PeerKeyUpdate
  <2>1. Handshake \in Types /\ 5 \in Nat /\ ~(Handshake = AppData /\ 5 > 0)
      BY DEF Types, Handshake, AppData
  <2>2. PICK rec : /\ rec = Seal(Handshake, 5, Len(tsealed) + 1, wseq) /\ twire' = Append(twire, rec)
                   /\ tsealed' = Append(tsealed, Sealing(rec, 5))
      BY <1>3 DEF PeerKeyUpdate
  <2>3. /\ Len(tsealed) < MaxRecords /\ tkey = 1 /\ tkey' = tkey + 1 /\ wseq' = 0
        /\ UNCHANGED <<tfmt, wlatched, tsent, tfaults, copy, inplace>>
      BY <1>3 DEF PeerKeyUpdate
  <2> QED
      BY <2>1, <2>2, <2>3, PeerRecordKeeps
<1>4. CASE RecordFault
    BY <1>4, FaultKeeps
<1>5. CASE ReadRecord
    BY <1>5, ReadKeeps
<1>6. CASE UNCHANGED tvars
  <2>1. UNCHANGED <<tfmt, wseq, tkey, wlatched, twire, tsealed, tsent, tfaults, copy, inplace>>
      BY <1>6 DEF tvars
  <2>2. WireRecordsTrue'
      BY <2>1 DEF TRInv, WireRecordsTrue, RecordTrue, IsTls13, PlainLen, Overhead, IsSent
  <2>3. TRTyped' /\ TRTypeOK'
      BY <2>1 DEF TRInv, TRTyped, TRTypeOK
  <2>4. NoncesBelow' /\ SentRising' /\ HandedOn' /\ ReadersAgree' /\ NoncesUnique' /\ RecordsFit'
      BY <2>1 DEF TRInv, NoncesBelow, SentRising, HandedOn, ReadersAgree, NoncesUnique, RecordsFit
  <2> QED
      BY <2>2, <2>3, <2>4 DEF TRInv
<1> QED
    BY <1>1, <1>2, <1>3, <1>4, <1>5, <1>6 DEF TRNext, Types

\* TlsRecords: for every record size, key limit, cut of the data and number of
\* records and faults, in all three formats: readers hand on a prefix of what was
\* sent and agree, no nonce is used twice under a key, and no record overruns
\* the buffer made for it.
THEOREM RecordsAlwaysTrue == TRSpec => []RecordsTrue
<1>1. TRInv => RecordsTrue
  <2> SUFFICES ASSUME TRInv PROVE RecordsTrue
      OBVIOUS
  <2>1. PICK g \in Seq(Nat), k \in Nat, s \in Nat : g = copy.got /\ k = Len(g) /\ s = Len(tsent)
      BY DEF TRInv, TRTyped, Readers
  <2>2. tsent \in Seq(Nat) /\ k <= s /\ \A j \in 1..k : g[j] = tsent[j]
      BY <2>1 DEF TRInv, TRTyped, HandedOn
  <2>3. SubSeq(g, 1, k) = SubSeq(tsent, 1, k)
    <3>1. SubSeq(g, 1, k) = [i \in 1..k |-> g[i]]
        BY <2>1
    <3>2. SubSeq(tsent, 1, k) = [i \in 1..k |-> tsent[i]]
        BY <2>1, <2>2
    <3> QED
        BY <2>2, <3>1, <3>2
  <2>4. RecordsInOrder
      BY <2>1, <2>2, <2>3 DEF TRInv, ReadersAgree, RecordsInOrder, IsPrefix
  <2> QED
      BY <2>4 DEF TRInv, RecordsTrue
<1> QED
    BY <1>1, TRInitInv, TRNextInv, PTL DEF TRSpec

-----------------------------------------------------------------------------
(* Datagram sockets: the multicast lists and the port's filter.            *)

HIDE RecordsAssumption
USE UdpSocketAssumption

Macs == {MacOf(g) : g \in Groups}

\* A list a socket may keep: each address once, and no more than there is room for.
ListTrue(l) ==
    /\ l \in Seq(Macs) /\ Len(l) <= kMaxMulticastGroups
    /\ \A i, j \in 1..Len(l) : l[i] = l[j] => i = j
    /\ IsFiniteSet(ToSet(l)) /\ Cardinality(ToSet(l)) = Len(l)

DUTyped ==
    /\ DOMAIN macs = Sockets /\ macs = [s \in Sockets |-> macs[s]]
    /\ \A s \in Sockets : ListTrue(macs[s])
    /\ heard \in [Sockets -> SUBSET Peers] /\ lastApply \subseteq Sockets
    /\ connected \subseteq up /\ up \subseteq Sockets /\ alive \in BOOLEAN

DUInv == DUTyped /\ FilterIsLastList /\ OnlyPeerHeard /\ UdpReportTrue

\* The empty list is one.
LEMMA EmptyListTrue == ListTrue(<< >>)
<1>1. ToSet(<< >>) = {}
    BY DEF ToSet
<1>2. << >> \in Seq(Macs) /\ Len(<< >>) = 0
    OBVIOUS
<1> QED
    BY <1>1, <1>2, FS_EmptySet DEF ListTrue

\* An address that is not in the list is added to one that has room.
LEMMA ListJoined ==
    ASSUME NEW l, ListTrue(l), NEW m \in Macs, m \notin ToSet(l), Len(l) < kMaxMulticastGroups
    PROVE  ListTrue(Append(l, m))
<1> DEFINE r == Append(l, m)
<1>1. l \in Seq(Macs) /\ Len(l) \in Nat /\ DOMAIN l = 1..Len(l)
    BY DEF ListTrue
<1>2. /\ r \in Seq(Macs) /\ Len(r) = Len(l) + 1 /\ DOMAIN r = 1..(Len(l) + 1)
      /\ \A i \in 1..Len(l) : r[i] = l[i]
      /\ r[Len(l) + 1] = m
    BY <1>1
<1> HIDE DEF r
<1>3. \A i \in 1..Len(l) : l[i] # m
    BY <1>1 DEF ToSet
<1>4. ToSet(r) = ToSet(l) \cup {m}
  <2>1. ASSUME NEW x \in ToSet(r) PROVE x \in ToSet(l) \cup {m}
    <3>1. PICK i \in 1..(Len(l) + 1) : x = r[i]
        BY <1>2, <2>1 DEF ToSet
    <3>2. i \in 1..Len(l) \/ i = Len(l) + 1
        BY <1>1, <3>1
    <3> QED
        BY <1>1, <1>2, <3>1, <3>2 DEF ToSet
  <2>2. ASSUME NEW x \in ToSet(l) PROVE x \in ToSet(r)
    <3>1. PICK i \in 1..Len(l) : x = l[i]
        BY <1>1, <2>2 DEF ToSet
    <3>2. i \in 1..(Len(l) + 1)
        BY <1>1, <3>1
    <3> QED
        BY <1>2, <3>1, <3>2 DEF ToSet
  <2>3. m \in ToSet(r)
    <3>1. Len(l) + 1 \in 1..(Len(l) + 1)
        BY <1>1
    <3> QED
        BY <1>2, <3>1 DEF ToSet
  <2> QED
      BY <2>1, <2>2, <2>3
<1>5. IsFiniteSet(ToSet(r)) /\ Cardinality(ToSet(r)) = Len(r)
  <2>1. IsFiniteSet(ToSet(l)) /\ Cardinality(ToSet(l)) = Len(l)
      BY DEF ListTrue
  <2>2. /\ IsFiniteSet(ToSet(l) \cup {m})
        /\ Cardinality(ToSet(l) \cup {m}) = Cardinality(ToSet(l)) + 1
      BY <2>1, FS_AddElement
  <2> QED
      BY <1>2, <1>4, <2>1, <2>2
<1>6. \A i, j \in 1..Len(r) : r[i] = r[j] => i = j
  <2> SUFFICES ASSUME NEW i \in 1..Len(r), NEW j \in 1..Len(r), r[i] = r[j] PROVE i = j
      OBVIOUS
  <2>1. /\ i \in 1..Len(l) \/ i = Len(l) + 1
        /\ j \in 1..Len(l) \/ j = Len(l) + 1
      BY <1>1, <1>2
  <2> QED
      BY <1>2, <1>3, <2>1 DEF ListTrue
<1>7. Len(r) <= kMaxMulticastGroups
    BY <1>1, <1>2
<1>8. ListTrue(r)
    BY <1>2, <1>5, <1>6, <1>7 DEF ListTrue
<1> QED
    BY <1>8 DEF r

\* Taking an address out leaves the others, each once.
LEMMA ListLeft ==
    ASSUME NEW l, ListTrue(l), NEW n \in 1..Len(l)
    PROVE  ListTrue(RemoveAt(l, n))
<1> DEFINE r == RemoveAt(l, n)
<1>1. l \in Seq(Macs) /\ Len(l) \in Nat /\ DOMAIN l = 1..Len(l) /\ n \in Nat
    BY DEF ListTrue
<1>2. /\ r \in Seq(Macs) /\ Len(r) = Len(l) - 1
      /\ \A j \in 1..(Len(l) - 1) : r[j] = IF j < n THEN l[j] ELSE l[j + 1]
    BY <1>1, RemoveAtShifts
<1>3. DOMAIN r = 1..(Len(l) - 1)
    BY <1>2
<1> HIDE DEF r
<1>4. ToSet(r) = ToSet(l) \ {l[n]}
  <2>1. ASSUME NEW x \in ToSet(r) PROVE x \in ToSet(l) \ {l[n]}
    <3>1. PICK i \in 1..(Len(l) - 1) : x = r[i]
        BY <1>3, <2>1 DEF ToSet
    <3>2. CASE i < n
      <4>1. x = l[i] /\ i \in 1..Len(l) /\ i # n
          BY <1>1, <1>2, <3>1, <3>2
      <4> QED
          BY <1>1, <4>1 DEF ListTrue, ToSet
    <3>3. CASE ~(i < n)
      <4>1. x = l[i + 1] /\ i + 1 \in 1..Len(l) /\ i + 1 # n
          BY <1>1, <1>2, <3>1, <3>3
      <4> QED
          BY <1>1, <4>1 DEF ListTrue, ToSet
    <3> QED
        BY <3>2, <3>3
  <2>2. ASSUME NEW x \in ToSet(l), x # l[n] PROVE x \in ToSet(r)
    <3>1. PICK i \in 1..Len(l) : x = l[i]
        BY <1>1, <2>2 DEF ToSet
    <3>2. CASE i < n
      <4>1. i \in 1..(Len(l) - 1) /\ r[i] = x
          BY <1>1, <1>2, <3>1, <3>2
      <4> QED
          BY <1>3, <4>1 DEF ToSet
    <3>3. CASE n < i
      <4>1. i - 1 \in 1..(Len(l) - 1) /\ ~(i - 1 < n) /\ (i - 1) + 1 = i
          BY <1>1, <3>1, <3>3
      <4>2. r[i - 1] = x
          BY <1>2, <3>1, <4>1
      <4> QED
          BY <1>3, <4>1, <4>2 DEF ToSet
    <3> QED
        BY <1>1, <2>2, <3>1, <3>2, <3>3
  <2> QED
      BY <2>1, <2>2
<1>5. l[n] \in ToSet(l)
    BY <1>1 DEF ToSet
<1>6. IsFiniteSet(ToSet(r)) /\ Cardinality(ToSet(r)) = Len(r)
    BY <1>2, <1>4, <1>5, FS_RemoveElement DEF ListTrue
<1>7. \A i, j \in 1..Len(r) : r[i] = r[j] => i = j
  <2> SUFFICES ASSUME NEW i \in 1..Len(r), NEW j \in 1..Len(r), r[i] = r[j] PROVE i = j
      OBVIOUS
  <2>1. PICK a \in 1..Len(l) : r[i] = l[a] /\ a = IF i < n THEN i ELSE i + 1
      BY <1>1, <1>2
  <2>2. PICK b \in 1..Len(l) : r[j] = l[b] /\ b = IF j < n THEN j ELSE j + 1
      BY <1>1, <1>2
  <2>3. a = b
      BY <2>1, <2>2 DEF ListTrue
  <2> QED
      BY <1>1, <1>2, <2>1, <2>2, <2>3
<1>8. Len(r) <= kMaxMulticastGroups
    BY <1>1, <1>2 DEF ListTrue
<1>9. ListTrue(r)
    BY <1>2, <1>6, <1>7, <1>8 DEF ListTrue
<1> QED
    BY <1>9 DEF r

\* A list the port takes, or refuses, leaves the filter the last one's.
LEMMA ApplyKeeps ==
    ASSUME DUInv, NEW s \in Sockets, NEW l, ListTrue(l), Apply(s, l),
           UNCHANGED <<up, connected, alive, heard, last>>
    PROVE  DUInv'
<1>1. CASE apply_mcast_list(s, l)
  <2>1. filter' = l /\ lastApply' = {s} /\ macs' = [macs EXCEPT ![s] = l]
      BY <1>1 DEF apply_mcast_list
  <2>2. DUTyped'
      BY <2>1 DEF DUInv, DUTyped
  <2>3. FilterIsLastList'
      BY <2>1 DEF DUInv, DUTyped, FilterIsLastList
  <2> QED
      BY <2>2, <2>3 DEF DUInv, OnlyPeerHeard, UdpReportTrue
<1>2. CASE RollBack(s, l)
    BY <1>2 DEF RollBack, nicState, DUInv, DUTyped, FilterIsLastList, OnlyPeerHeard, UdpReportTrue
<1> QED
    BY <1>1, <1>2 DEF Apply

\* The sockets start without groups.
LEMMA DUInitInv == DUInit => DUInv
<1> SUFFICES ASSUME DUInit PROVE DUInv
    OBVIOUS
<1>1. \A s \in Sockets : ListTrue(macs[s])
    BY EmptyListTrue DEF DUInit
<1>2. DUTyped
    BY <1>1 DEF DUInit, DUTyped
<1> QED
    BY <1>2 DEF DUInit, DUInv, FilterIsLastList, OnlyPeerHeard, UdpReportTrue, NoSend

\* Every call on a socket, and the daemon's end, keeps the invariant.
LEMMA DUNextInv == DUInv /\ [DUNext]_DUvars => DUInv'
<1> SUFFICES ASSUME DUInv, [DUNext]_DUvars PROVE DUInv'
    OBVIOUS
<1>1. CASE DaemonGone
    BY <1>1 DEF DaemonGone, nicState, DUInv, DUTyped, FilterIsLastList, OnlyPeerHeard, UdpReportTrue
<1>2. ASSUME NEW s \in Sockets, destroy_socket(s) PROVE DUInv'
  <2>1. /\ s \in up /\ up' = up \ {s} /\ connected' = connected \ {s}
        /\ heard' = [heard EXCEPT ![s] = {}] /\ UNCHANGED <<alive, last>>
      BY <1>2 DEF destroy_socket
  <2>2. CASE UNCHANGED nicState
      BY <2>1, <2>2 DEF nicState, DUInv, DUTyped, FilterIsLastList, OnlyPeerHeard, UdpReportTrue
  <2>3. ASSUME macs' = [macs EXCEPT ![s] = << >>],
               (filter' = << >> /\ lastApply' = {s}) \/ UNCHANGED <<filter, lastApply>>
        PROVE  DUInv'
    <3>1. DUTyped'
        BY <2>1, <2>3, EmptyListTrue DEF DUInv, DUTyped
    <3>2. FilterIsLastList'
        BY <2>1, <2>3 DEF DUInv, DUTyped, FilterIsLastList
    <3> QED
        BY <2>1, <3>1, <3>2 DEF DUInv, DUTyped, OnlyPeerHeard, UdpReportTrue
  <2> QED
      BY <1>2, <2>2, <2>3 DEF destroy_socket
<1>3. ASSUME NEW s \in Sockets, NEW g \in Groups, join_multicast(s, g) PROVE DUInv'
  <2>1. ListTrue(Append(macs[s], MacOf(g)))
    <3>1. ListTrue(macs[s]) /\ MacOf(g) \in Macs /\ MacOf(g) \notin ToSet(macs[s])
          /\ Len(macs[s]) < kMaxMulticastGroups
        BY <1>3 DEF join_multicast, DUInv, DUTyped, Macs
    <3> QED
        BY <3>1, ListJoined
  <2> QED
      BY <1>3, <2>1, ApplyKeeps DEF join_multicast
<1>4. ASSUME NEW s \in Sockets, NEW g \in Groups, leave_multicast(s, g) PROVE DUInv'
  <2>1. PICK i \in DOMAIN macs[s] : Apply(s, RemoveAt(macs[s], i))
      BY <1>4 DEF leave_multicast
  <2>2. ListTrue(macs[s]) /\ i \in 1..Len(macs[s])
      BY <2>1 DEF DUInv, DUTyped, ListTrue
  <2>3. ListTrue(RemoveAt(macs[s], i))
      BY <2>2, ListLeft
  <2> QED
      BY <1>4, <2>1, <2>3, ApplyKeeps DEF leave_multicast
<1>5. ASSUME NEW s \in Sockets, NEW p \in Peers, connect_to(s, p) PROVE DUInv'
    BY <1>5 DEF connect_to, nicState, DUInv, DUTyped, FilterIsLastList, OnlyPeerHeard, UdpReportTrue
<1>6. ASSUME NEW s \in Sockets, NEW p \in Peers, send_to(s, p) PROVE DUInv'
  <2>1. alive' \in BOOLEAN /\ UdpReportTrue'
      BY <1>6 DEF send_to, SendReport, NoSend, UdpReportTrue, DUInv, DUTyped
  <2> QED
      BY <1>6, <2>1 DEF send_to, nicState, DUInv, DUTyped, FilterIsLastList, OnlyPeerHeard
<1>7. ASSUME NEW s \in Sockets, NEW p \in Peers, process_burst_udp(s, p) PROVE DUInv'
  <2>1. /\ UNCHANGED <<macs, filter, lastApply, up, connected, alive, last>>
        /\ \/ UNCHANGED heard
           \/ FromPeer(s, p) /\ heard' = [heard EXCEPT ![s] = heard[s] \cup {p}]
      BY <1>7 DEF process_burst_udp, nicState
  <2>2. heard' \in [Sockets -> SUBSET Peers]
      BY <2>1 DEF DUInv, DUTyped
  <2>3. OnlyPeerHeard'
      BY <2>1 DEF DUInv, DUTyped, OnlyPeerHeard, FromPeer
  <2> QED
      BY <2>1, <2>2, <2>3 DEF DUInv, DUTyped, FilterIsLastList, UdpReportTrue
<1>8. CASE UNCHANGED DUvars
    BY <1>8 DEF DUvars, DUInv, DUTyped, FilterIsLastList, OnlyPeerHeard, UdpReportTrue
<1> QED
    BY <1>1, <1>2, <1>3, <1>4, <1>5, <1>6, <1>7, <1>8 DEF DUNext

-----------------------------------------------------------------------------
(* The multicast receiver: groups, the port's filter and the counters.     *)

HIDE UdpSocketAssumption
USE MulticastAssumption

GroupSlots == [active : BOOLEAN, group : MGroups, rx : Nat]

MRInv ==
    /\ MRTypeOK /\ FilterIsGroups /\ PacketsAccounted
    /\ slots \in Seq(GroupSlots) /\ offered \in Nat
    /\ counters \in [total : Nat, unmatched : Nat, ssm : Nat]

\* The slot a join takes: an inactive one, or the one after the last.
LEMMA SlotIsFree ==
    ASSUME slots \in Seq(GroupSlots)
    PROVE  \/ SlotFor = Len(slots) + 1 /\ SlotFor \notin DOMAIN slots
           \/ SlotFor \in DOMAIN slots /\ ~slots[SlotFor].active
<1>1. DOMAIN slots = 1..Len(slots) /\ Len(slots) \in Nat
    OBVIOUS
<1>2. CASE Active(slots) = DOMAIN slots
    BY <1>1, <1>2 DEF SlotFor
<1>3. CASE Active(slots) # DOMAIN slots
  <2> DEFINE T == DOMAIN slots \ Active(slots)
  <2>1. T # {} /\ T \subseteq Nat
      BY <1>1, <1>3 DEF Active
  <2>2. SlotFor = CHOOSE i \in T : \A j \in T : i <= j
      BY <1>3 DEF SlotFor
  <2>3. \A i \in T : i \in DOMAIN slots /\ ~slots[i].active
      BY DEF Active
  <2> HIDE DEF T
  <2>4. \E i \in T : \A j \in T : i <= j
      BY <2>1, LeastNat
  <2>5. SlotFor \in T
      BY <2>2, <2>4
  <2> QED
      BY <2>3, <2>5
<1> QED
    BY <1>2, <1>3

\* Two tables with the same active slots, and the same groups in them.
LEMMA SameGroups ==
    ASSUME NEW a, NEW b, DOMAIN a = DOMAIN b,
           \A i \in DOMAIN a : (a[i].active <=> b[i].active) /\ (a[i].active => a[i].group = b[i].group)
    PROVE  MacsOf(a) = MacsOf(b)
<1>1. Active(a) = Active(b)
    BY DEF Active
<1>2. Joined(a) = Joined(b)
    BY <1>1 DEF Joined, Active
<1> QED
    BY <1>2 DEF MacsOf

\* A join fills a slot and the filter, or leaves both as they were.
LEMMA JoinKeeps ==
    ASSUME MRInv, NEW g \in MGroups, join_group(g)
    PROVE  MRInv'
<1>1. PICK i, e, t : /\ i = SlotFor /\ e = [active |-> TRUE, group |-> g, rx |-> 0]
                     /\ t = IF i \in DOMAIN slots THEN [slots EXCEPT ![i] = e] ELSE Append(slots, e)
    OBVIOUS
<1>2. /\ i <= MaxGroups /\ UNCHANGED MRtraffic
      /\ \/ slots' = t /\ macList' = MacsOf(t)
         \/ /\ slots' = IF i \in DOMAIN slots THEN [t EXCEPT ![i].active = FALSE] ELSE slots
            /\ UNCHANGED macList
    BY <1>1 DEF join_group
<1>3. /\ slots \in Seq(GroupSlots) /\ Len(slots) \in Nat /\ DOMAIN slots = 1..Len(slots)
      /\ Len(slots) <= MaxGroups /\ macList = MacsOf(slots)
    BY DEF MRInv, MRTypeOK, FilterIsGroups
<1>4. e \in GroupSlots
    BY <1>1 DEF GroupSlots
<1>5. /\ t \in Seq(GroupSlots) /\ Len(t) <= MaxGroups
      /\ i \in DOMAIN slots => Len(t) = Len(slots) /\ ~slots[i].active
  <2>1. CASE i \in DOMAIN slots
    <3>1. t = [slots EXCEPT ![i] = e] /\ Len(t) = Len(slots) /\ t \in Seq(GroupSlots)
        BY <1>1, <1>3, <1>4, <2>1
    <3>2. ~slots[i].active
        BY <1>1, <1>3, <2>1, SlotIsFree
    <3> QED
        BY <1>3, <3>1, <3>2
  <2>2. CASE i \notin DOMAIN slots
    <3>1. t = Append(slots, e) /\ t \in Seq(GroupSlots) /\ Len(t) = Len(slots) + 1
        BY <1>1, <1>3, <1>4, <2>2
    <3>2. i = Len(slots) + 1
        BY <1>1, <1>3, <2>2, SlotIsFree
    <3> QED
        BY <1>2, <2>2, <3>1, <3>2
  <2> QED
      BY <2>1, <2>2
<1>6. slots' \in Seq(GroupSlots) /\ Len(slots') <= MaxGroups /\ macList' = MacsOf(slots')
  <2>1. CASE slots' = t /\ macList' = MacsOf(t)
      BY <1>5, <2>1
  <2>2. CASE UNCHANGED macList /\ i \notin DOMAIN slots /\ slots' = slots
      BY <1>3, <2>2
  <2>3. CASE UNCHANGED macList /\ i \in DOMAIN slots /\ slots' = [t EXCEPT ![i].active = FALSE]
    <3>1. t = [slots EXCEPT ![i] = e]
        BY <1>1, <2>3
    <3>2. PICK f : f = [active |-> FALSE, group |-> g, rx |-> 0]
        OBVIOUS
    <3>3. f \in GroupSlots /\ ~f.active
        BY <3>2 DEF GroupSlots
    <3>4. slots' = [slots EXCEPT ![i] = f]
      <4>1. t[i] = e /\ [e EXCEPT !.active = FALSE] = f
          BY <1>1, <2>3, <3>1, <3>2
      <4>2. slots' = [t EXCEPT ![i] = [t[i] EXCEPT !.active = FALSE]]
          BY <2>3
      <4> QED
          BY <1>3, <3>1, <4>1, <4>2
    <3>5. slots' \in Seq(GroupSlots) /\ Len(slots') = Len(slots) /\ DOMAIN slots' = DOMAIN slots
      <4>1. i \in 1..Len(slots)
          BY <1>3, <2>3
      <4> QED
          BY <1>3, <3>3, <3>4, <4>1
    <3>6. \A k \in DOMAIN slots : /\ slots[k].active <=> slots'[k].active
                                  /\ slots[k].active => slots[k].group = slots'[k].group
        BY <1>3, <1>5, <2>3, <3>3, <3>4
    <3>7. MacsOf(slots) = MacsOf(slots')
        BY <3>5, <3>6, SameGroups
    <3> QED
        BY <1>3, <2>3, <3>5, <3>7
  <2> QED
      BY <1>2, <2>1, <2>2, <2>3
<1> QED
    BY <1>2, <1>6 DEF MRInv, MRTypeOK, MRtraffic, FilterIsGroups, PacketsAccounted

\* A leave empties a slot and rewrites the filter, or does neither.
LEMMA LeaveKeeps ==
    ASSUME MRInv, NEW i, leave_group(i)
    PROVE  MRInv'
<1>1. i \in DOMAIN slots /\ UNCHANGED MRtraffic
    BY DEF leave_group, Active
<1>2. slots \in Seq(GroupSlots) /\ Len(slots) <= MaxGroups /\ macList = MacsOf(slots) /\ i \in 1..Len(slots)
    BY <1>1 DEF MRInv, MRTypeOK, FilterIsGroups
<1>3. CASE slots' = [slots EXCEPT ![i].active = FALSE] /\ macList' = MacsOf(slots')
  <2>1. slots[i] \in GroupSlots
      BY <1>2
  <2>2. [slots[i] EXCEPT !.active = FALSE] \in GroupSlots
      BY <2>1 DEF GroupSlots
  <2>3. slots' = [slots EXCEPT ![i] = [slots[i] EXCEPT !.active = FALSE]]
      BY <1>3
  <2>4. slots' \in Seq(GroupSlots) /\ Len(slots') = Len(slots)
      BY <1>2, <2>2, <2>3
  <2> QED
      BY <1>1, <1>2, <1>3, <2>4 DEF MRInv, MRTypeOK, MRtraffic, FilterIsGroups, PacketsAccounted
<1>4. CASE UNCHANGED <<slots, macList>>
    BY <1>1, <1>4 DEF MRInv, MRTypeOK, MRtraffic, FilterIsGroups, PacketsAccounted
<1> QED
    BY <1>3, <1>4 DEF leave_group, ListAfterLeave

\* A packet is counted once, as matched, unmatched or rejected.
LEMMA PacketKeeps ==
    ASSUME MRInv, NEW d, NEW s, process_packet(d, s)
    PROVE  MRInv'
<1>1. offered' = offered + 1 /\ UNCHANGED <<macList, running, thread>>
    BY DEF process_packet
<1>2. PICK c \in [total : Nat, unmatched : Nat, ssm : Nat], n \in Nat :
          c = counters /\ n = offered /\ c.total + c.unmatched + c.ssm = n
    BY DEF MRInv, PacketsAccounted
<1>3. slots \in Seq(GroupSlots) /\ Len(slots) <= MaxGroups /\ macList = MacsOf(slots)
    BY DEF MRInv, MRTypeOK, FilterIsGroups
<1>4. missed' \in BOOLEAN
    BY DEF process_packet, MRInv, MRTypeOK
<1>5. /\ counters' \in [total : Nat, unmatched : Nat, ssm : Nat]
      /\ counters'.total + counters'.unmatched + counters'.ssm = n + 1
  <2>1. \/ counters' = [c EXCEPT !.unmatched = c.unmatched + 1]
        \/ counters' = [c EXCEPT !.total = c.total + 1]
        \/ counters' = [c EXCEPT !.ssm = c.ssm + 1]
      BY <1>2 DEF process_packet, CountRejected
  <2> QED
      BY <1>2, <2>1
<1>6. slots' \in Seq(GroupSlots) /\ Len(slots') = Len(slots) /\ MacsOf(slots') = MacsOf(slots)
  <2>1. CASE UNCHANGED slots
      BY <1>3, <2>1
  <2>2. CASE Matching(d) # {} /\ slots' = [slots EXCEPT ![FirstMatch(d)].rx = @ + 1]
    <3>1. FirstMatch(d) \in Matching(d)
      <4>1. Matching(d) \subseteq Nat
          BY <1>3 DEF Matching, Active
      <4>2. \E x \in Matching(d) : \A y \in Matching(d) : x <= y
          BY <2>2, <4>1, LeastNat
      <4> QED
          BY <4>2 DEF FirstMatch
    <3>2. PICK k \in 1..Len(slots) : k = FirstMatch(d)
        BY <1>3, <3>1 DEF Matching, Active
    <3>3. PICK e \in GroupSlots : e = slots[k]
        BY <1>3
    <3>4. slots' = [slots EXCEPT ![k] = [e EXCEPT !.rx = e.rx + 1]]
        BY <2>2, <3>2, <3>3
    <3>5. PICK f : f = [e EXCEPT !.rx = e.rx + 1]
        OBVIOUS
    <3>6. f \in GroupSlots /\ f.active = e.active /\ f.group = e.group
        BY <3>5 DEF GroupSlots
    <3>7. slots' \in Seq(GroupSlots) /\ Len(slots') = Len(slots) /\ DOMAIN slots' = DOMAIN slots
        BY <1>3, <3>4, <3>5, <3>6
    <3>8. \A j \in DOMAIN slots : /\ slots[j].active <=> slots'[j].active
                                  /\ slots[j].active => slots[j].group = slots'[j].group
        BY <1>3, <3>3, <3>4, <3>5, <3>6
    <3>9. MacsOf(slots) = MacsOf(slots')
        BY <3>7, <3>8, SameGroups
    <3> QED
        BY <3>7, <3>9
  <2> QED
      BY <2>1, <2>2 DEF process_packet
<1> QED
    BY <1>1, <1>2, <1>3, <1>4, <1>5, <1>6 DEF MRInv, MRTypeOK, FilterIsGroups, PacketsAccounted

\* No group and no packet yet.
LEMMA MRInitInv == MRInit => MRInv
<1> SUFFICES ASSUME MRInit PROVE MRInv
    OBVIOUS
<1>1. MacsOf(slots) = {}
    BY DEF MRInit, MacsOf, Joined, Active
<1>2. slots \in Seq(GroupSlots) /\ Len(slots) = 0 /\ macList = {} /\ thread = "none"
    BY DEF MRInit
<1>3. running \in BOOLEAN /\ missed \in BOOLEAN /\ ~running
    BY DEF MRInit
<1>4. /\ counters \in [total : Nat, unmatched : Nat, ssm : Nat] /\ offered \in Nat
      /\ counters.total + counters.unmatched + counters.ssm = offered
    BY DEF MRInit
<1>5. MRTypeOK
    BY <1>2, <1>3 DEF MRTypeOK
<1> QED
    BY <1>1, <1>2, <1>4, <1>5 DEF MRInv, FilterIsGroups, PacketsAccounted

\* The owner's calls and the receive thread keep the invariant.
LEMMA MRNextInv == MRInv /\ [MRNext]_MRvars => MRInv'
<1> SUFFICES ASSUME MRInv, [MRNext]_MRvars PROVE MRInv'
    OBVIOUS
<1>1. CASE start
  <2>1. /\ UNCHANGED <<slots, macList, counters, offered, missed>>
        /\ (running' = TRUE /\ thread' = "loop") \/ UNCHANGED <<running, thread>>
      BY <1>1 DEF start
  <2>2. running' \in BOOLEAN /\ missed' \in BOOLEAN
      BY <2>1 DEF MRInv, MRTypeOK
  <2>3. thread' \in {"none", "loop"} /\ (running' => thread' = "loop")
      BY <2>1 DEF MRInv, MRTypeOK
  <2>4. MRTypeOK'
      BY <2>1, <2>2, <2>3 DEF MRInv, MRTypeOK
  <2> QED
      BY <2>1, <2>4 DEF MRInv, FilterIsGroups, PacketsAccounted
<1>2. CASE stop
    BY <1>2 DEF stop, MRInv, MRTypeOK, FilterIsGroups, PacketsAccounted
<1>3. CASE LoopEnds
    BY <1>3 DEF LoopEnds, MRInv, MRTypeOK, FilterIsGroups, PacketsAccounted
<1>4. CASE UNCHANGED MRvars
    BY <1>4 DEF MRvars, MRInv, MRTypeOK, FilterIsGroups, PacketsAccounted
<1> QED
    BY <1>1, <1>2, <1>3, <1>4, JoinKeeps, LeaveKeeps, PacketKeeps DEF MRNext

-----------------------------------------------------------------------------
(* The sender's counters.                                                  *)

HIDE MulticastAssumption
USE UdpSenderAssumption

USInv ==
    /\ RequestsAccounted /\ BytesMatchWire
    /\ tx_packets \in Nat /\ tx_errors \in Nat /\ urequested \in Nat /\ umbufs = 0

\* Of the segments that fit a burst, each is built or fails.
LEMMA BuiltOrFailed ==
    ASSUME NEW segs \in Batches, NEW fails
    PROVE  /\ Len(Built(segs, fails)) \in Nat /\ Cardinality(fails \cap DOMAIN Capped(segs)) \in Nat
           /\ Len(Capped(segs)) \in Nat /\ Len(Capped(segs)) <= Len(segs) /\ Len(segs) \in Nat
           /\ Len(Built(segs, fails)) + Cardinality(fails \cap DOMAIN Capped(segs)) = Len(Capped(segs))
<1>1. PICK n \in 1..(kMaxBatchSize + 1) : segs \in [1..n -> 1..MaxSegLen]
    BY DEF Batches
<1>2. segs \in Seq(1..MaxSegLen) /\ Len(segs) = n /\ n \in Nat
    BY <1>1
<1>3. PICK m \in Nat : m = (IF n > kMaxBatchSize THEN kMaxBatchSize ELSE n) /\ m <= n
    BY <1>1
<1>4. Len(Capped(segs)) = m /\ DOMAIN Capped(segs) = 1..m
  <2>1. Capped(segs) = SubSeq(segs, 1, m)
      BY <1>2, <1>3 DEF Capped
  <2>2. SubSeq(segs, 1, m) = [i \in 1..m |-> segs[i]]
      BY <1>2, <1>3
  <2> QED
      BY <1>3, <2>1, <2>2
<1>5. PICK b, f, D : b = D \ fails /\ f = fails \cap D /\ D = 1..m
    OBVIOUS
<1>6. IsFiniteSet(D) /\ Cardinality(D) = m
  <2>1. 1 \in Int /\ m \in Int
      BY <1>3
  <2>2. IsFiniteSet(1..m) /\ Cardinality(1..m) = IF 1 > m THEN 0 ELSE m - 1 + 1
      BY <2>1, FS_Interval
  <2> QED
      BY <1>3, <1>5, <2>2
<1>7. IsFiniteSet(b) /\ IsFiniteSet(f)
    BY <1>5, <1>6, FS_Subset
<1>8. Cardinality(b) \in Nat /\ Cardinality(f) \in Nat
    BY <1>7, FS_CardinalityType
<1>9. Cardinality(b) + Cardinality(f) = m
  <2>1. b \cup f = D /\ b \cap f = {}
      BY <1>5
  <2>2. Cardinality(b \cup f) = Cardinality(b) + Cardinality(f) - Cardinality(b \cap f)
      BY <1>7, FS_Union
  <2>3. Cardinality(b \cap f) = 0 /\ Cardinality(b \cup f) = m
      BY <1>6, <2>1, FS_EmptySet
  <2> QED
      BY <1>8, <2>2, <2>3
<1>10. Len(Built(segs, fails)) = Cardinality(b)
  <2>1. PICK k \in Nat : k = Cardinality(b)
      BY <1>8
  <2>2. DOMAIN Capped(segs) \ fails = b
      BY <1>4, <1>5
  <2>3. PICK B : B = Built(segs, fails)
      OBVIOUS
  <2>4. DOMAIN B = 1..k /\ B = [i \in 1..k |-> B[i]]
    <3>1. B = [i \in 1..Cardinality(DOMAIN Capped(segs) \ fails) |->
                  Capped(segs)[CHOOSE j \in DOMAIN Capped(segs) \ fails :
                      Cardinality({h \in DOMAIN Capped(segs) \ fails : h <= j}) = i]]
        BY <2>3, Zenon DEF Built
    <3>2. DOMAIN B = 1..Cardinality(DOMAIN Capped(segs) \ fails) /\ B = [i \in DOMAIN B |-> B[i]]
        BY <3>1
    <3>3. Cardinality(DOMAIN Capped(segs) \ fails) = k
        BY <2>1, <2>2
    <3>4. DOMAIN B = 1..k
        BY <3>2, <3>3
    <3> QED
        BY <3>2, <3>4
  <2>5. B \in [1..k -> {B[i] : i \in 1..k}]
      BY <2>4
  <2>6. Len(B) = k
      BY <2>1, <2>5
  <2> QED
      BY <2>1, <2>3, <2>6
<1> QED
    BY <1>2, <1>3, <1>4, <1>5, <1>8, <1>9, <1>10

\* A batch: every payload of it is a packet or an error.
LEMMA BatchKeeps ==
    ASSUME USInv, NEW segs \in Batches, NEW fails, NEW sent \in 0..kMaxBatchSize, send_batch(segs, fails, sent)
    PROVE  USInv'
<1>1. PICK b \in Nat, f \in Nat, c \in Nat, n \in Nat :
          /\ b = Len(Built(segs, fails)) /\ f = Cardinality(fails \cap DOMAIN Capped(segs))
          /\ c = Len(Capped(segs)) /\ n = Len(segs)
          /\ c <= n /\ b + f = c
    BY BuiltOrFailed
<1>2. PICK p \in Nat, e \in Nat, r \in Nat : p = tx_packets /\ e = tx_errors /\ r = urequested /\ p + e = r
    BY DEF USInv, RequestsAccounted
<1>3. /\ urequested' = r + n /\ sent <= b /\ tx_packets' = p + sent
      /\ tx_errors' = e + (n - c) + f + (b - sent)
      /\ umbufs' = umbufs + b - sent - (b - sent)
    BY <1>1, <1>2 DEF send_batch, Dropped, Frees
<1>4. tx_bytes' = uwirebytes'
  <2>1. /\ tx_bytes' = tx_bytes + SumLens(LensOfSent(segs, fails, sent))
        /\ uwirebytes' = uwirebytes + SumLens(LensOfSent(segs, fails, sent))
      BY DEF send_batch, LensOfSent
  <2> QED
      BY <2>1 DEF USInv, BytesMatchWire
<1>5. umbufs' = 0
    BY <1>1, <1>3 DEF USInv
<1>6. tx_packets' \in Nat /\ tx_errors' \in Nat /\ urequested' \in Nat /\ tx_packets' + tx_errors' = urequested'
  <2>1. c <= n /\ b + f = c /\ sent <= b /\ sent \in Nat /\ p + e = r
      BY <1>1, <1>2, <1>3
  <2>2. PICK x \in Nat : x = e + (n - c) + f + (b - sent)
      BY <2>1
  <2>3. p + sent + x = r + n
      BY <2>1, <2>2
  <2>4. tx_packets' = p + sent /\ tx_errors' = x /\ urequested' = r + n
      BY <1>3, <2>2
  <2> QED
      BY <2>1, <2>2, <2>3, <2>4
<1> QED
    BY <1>4, <1>5, <1>6 DEF USInv, RequestsAccounted, BytesMatchWire

\* One payload, too.
LEMMA USNextInv == USInv /\ [USNext]_USvars => USInv'
<1> SUFFICES ASSUME USInv, [USNext]_USvars PROVE USInv'
    OBVIOUS
<1>1. ASSUME NEW len \in 1..MaxSegLen, NEW b, NEW t, send_one(len, b, t) PROVE USInv'
  <2>1. PICK p \in Nat, e \in Nat, r \in Nat : p = tx_packets /\ e = tx_errors /\ r = urequested /\ p + e = r
      BY DEF USInv, RequestsAccounted
  <2>2. /\ urequested' = r + 1 /\ umbufs' = umbufs
        /\ \/ /\ tx_packets' = p + 1 /\ tx_errors' = e
              /\ tx_bytes' = tx_bytes + len /\ uwirebytes' = uwirebytes + len
           \/ /\ tx_packets' = p /\ tx_errors' = e + 1 /\ UNCHANGED <<tx_bytes, uwirebytes>>
      BY <1>1, <2>1 DEF send_one
  <2>3. tx_bytes' = uwirebytes'
      BY <2>2 DEF USInv, BytesMatchWire
  <2>4. tx_packets' \in Nat /\ tx_errors' \in Nat /\ urequested' \in Nat /\ tx_packets' + tx_errors' = urequested'
      BY <2>1, <2>2
  <2> QED
      BY <2>2, <2>3, <2>4 DEF USInv, RequestsAccounted, BytesMatchWire
<1>2. CASE UNCHANGED USvars
    BY <1>2 DEF USvars, USInv, RequestsAccounted, BytesMatchWire
<1> QED
    BY <1>1, <1>2, BatchKeeps DEF USNext

\* DpdkUdp: for any number of sockets, groups that share an address or not,
\* refused lists, batches of any size and whatever the NIC takes of them: the
\* port's filter is the list written last and covers exactly the joined groups,
\* a connected socket hears its peer alone, and the counters of the receiver and
\* of the sender account for every datagram.
THEOREM DatagramsAlwaysAccounted == DUSpec /\ MRSpec /\ USSpec => []DatagramsAccounted
<1>1. DUInv /\ MRInv /\ USInv => DatagramsAccounted
    BY DEF DUInv, DUTyped, ListTrue, DUTypeOK, MRInv, USInv, DatagramsAccounted
<1>2. USInit => USInv
    BY DEF USInit, USInv, RequestsAccounted, BytesMatchWire
<1> QED
    BY <1>1, <1>2, DUInitInv, DUNextInv, MRInitInv, MRNextInv, USNextInv, PTL DEF DUSpec, MRSpec, USSpec

-----------------------------------------------------------------------------
(* DpdkStream: the inductive invariant.                                    *)

Start == FirstUnit - 1
DSModes == [tls : BOOLEAN, ws : BOOLEAN]
Net == [synack : BOOLEAN, sent : Int, taken : Int]
WsSink == [ct : Seq(Cells), pt : Seq(Cells)]

DSTyped ==
    /\ mode \in DSModes /\ phase \in Handshaking \cup {"Established", "Failed"}
    /\ sess \in {"SynSent", "Established", "FinWait1", "Closed"}
    /\ reasm \in Seq(Cells) /\ pending \in Seq(Cells) /\ Len(reasm) <= ReasmCap
    /\ seen \in WsSink /\ decSeq \in Nat /\ frames \in Seq(Int)
NetTyped == net \in Net /\ net.taken <= net.sent

\* Nothing is delivered before the handshake is over, or after it has failed.
DSStages ==
    /\ phase = "WsHandshaking" => mode.ws
    /\ phase = "Failed" => sess = "Closed"
    /\ phase # "Established" => reasm = << >> /\ pending = << >> /\ frames = << >>

\* Without TLS, what the upgrade has read are the units up to the last one taken.
DSPlainUpgrade ==
    ~mode.tls /\ phase \in Handshaking =>
        /\ seen.pt = UnitsFrom("pt", Start, Len(seen.pt))
        /\ net.taken = Start + Len(seen.pt)
        /\ ~mode.ws => seen.pt = << >>

\* With TLS, the response is the first record: the upgrade goes on until it opens.
DSTlsUpgrade == mode.tls /\ phase \in Handshaking => seen.pt = << >> /\ decSeq = 0

\* Without TLS, the frames and reasm_ behind them are the units up to the last taken.
DSPlainChain ==
    ~mode.tls => /\ reasm = UnitsFrom("pt", Len(frames), Len(reasm))
                 /\ phase = "Established" /\ sess = "Established" => net.taken = Len(frames) + Len(reasm)

\* With TLS, the frames and the plaintext behind them are the records opened; or
\* plaintext read behind the response is where no record will ever open.
DSAligned == Len(frames) + Len(pending) = Start + decSeq * RecLen
DSStuck == frames = << >> /\ pending = << >> /\ Len(reasm) >= RecLen /\ reasm[1][1] = "pt"
DSTlsChain ==
    mode.tls => /\ pending = UnitsFrom("pt", Len(frames), Len(pending))
                /\ phase = "Established" /\ sess = "Established" => DSAligned \/ DSStuck

Refusing == refused \in BOOLEAN /\ overflowed \in BOOLEAN /\ RefusalCloses /\ (overflowed => sess = "Closed")

DSReceiving ==
    /\ DSTyped /\ NetTyped /\ DSStages /\ DSPlainUpgrade /\ DSTlsUpgrade
    /\ DSPlainChain /\ DSTlsChain /\ DpdkFramesInOrder /\ Refusing

Segment == [msg : Messages, rec : Nat, seg : 1..Segments]
Said == {"none", "other", "Unsent", "Uncertain", "Sent"}
DSSendTyped == corrupt \in BOOLEAN /\ encSeq \in Nat /\ wire \in Seq(Segment) /\ told \in [Messages -> Said]

OnWire(m) == {i \in DOMAIN wire : wire[i].msg = m}
\* A message that was not sent yet has no segment out; until one was cut short,
\* every message has its last.
NotOut == \A m \in Messages : told[m] = "none" => OnWire(m) = {}
AllWhole == mode.tls /\ ~corrupt => \A i \in DOMAIN wire : \E k \in DOMAIN wire : wire[k].msg = wire[i].msg /\ wire[k].seg = Segments

DSSending == mode \in DSModes /\ DSSendTyped /\ NotOut /\ AllWhole /\ DpdkTlsWireIntact /\ DaemonReportTrue
DSAside == {attached, blocking, expired, asked, daemon} \subseteq BOOLEAN
DSInv == DSReceiving /\ DSSending /\ DSAside

-----------------------------------------------------------------------------
(* DpdkStream: the handshake.                                              *)

\* What the constants are, and where the units begin.
LEMMA DSConstants ==
    /\ Units \in Nat /\ FrameLen \in Nat \ {0} /\ RecLen \in Nat \ {0} /\ ReasmCap \in Nat /\ MaxSends \in Nat
    /\ Segments \in Nat \ {0} /\ (mode.ws => Start = -RecLen) /\ (~mode.ws => Start = 0)
BY DpdkStreamAssumption DEF Start, FirstUnit

\* process_records_in_place on any buffer of units.
LEMMA InPlaceOpens ==
    ASSUME mode \in DSModes, NEW b \in Seq(Cells), NEW d \in Nat
    PROVE  OpensTo(b, Start + d * RecLen, RecLen, process_records_in_place(b, d))
<1>0. RecLen \in Nat \ {0} /\ Start \in Int /\ d * RecLen \in Nat
    BY DSConstants, MulGrows DEF DSModes
<1>a. Len(b) \in Nat /\ Start + d * RecLen \in Int
    BY <1>0, LenProperties
<1>b. Len(b) \div RecLen \in Nat
    BY <1>0, <1>a, WholeParts
<1>1. PICK w \in Nat, n \in Nat, base \in Int : w = Len(b) /\ n = w \div RecLen /\ base = Start + d * RecLen
    BY <1>a, <1>b
<1>2. PICK r : r = process_records_in_place(b, d)
    OBVIOUS
<1>3. /\ r.n = n /\ r.pt = [i \in 1..(n * RecLen) |-> <<"pt", b[i][2]>>] /\ r.rest = SubSeq(b, n * RecLen + 1, w)
      /\ r.ok <=> \A k \in 0..(n - 1) : IsRecord(SubSeq(b, k * RecLen + 1, w), d + k)
    BY <1>1, <1>2 DEF process_records_in_place
<1>4. \A k \in 0..(n - 1) : IsRecord(SubSeq(b, k * RecLen + 1, w), d + k) <=> RecordAt(b, k * RecLen, RecLen, base + k * RecLen)
  <2> SUFFICES ASSUME NEW k \in 0..(n - 1)
               PROVE  IsRecord(SubSeq(b, k * RecLen + 1, w), d + k) <=> RecordAt(b, k * RecLen, RecLen, base + k * RecLen)
      OBVIOUS
  <2>1. k \in Nat
      OBVIOUS
  <2>2. (d + k) * RecLen = d * RecLen + k * RecLen /\ k * RecLen \in Nat
      BY <1>0, <2>1, MulGrows
  <2>3. FirstUnit - 1 + (d + k) * RecLen = base + k * RecLen
      BY <1>0, <1>1, <2>2 DEF Start
  <2> QED
      BY <1>1, <2>3 DEF IsRecord, RecordAt
<1>5. r.ok <=> \A k \in 0..(n - 1) : RecordAt(b, k * RecLen, RecLen, base + k * RecLen)
    BY <1>3, <1>4
<1>6. OpensTo(b, base, RecLen, r)
    BY <1>0, <1>1, <1>3, <1>5, OpensRecords
<1> QED
    BY <1>1, <1>2, <1>6

\* The session and the server, aside from the stream's buffers.
LEMMA DSRests ==
    ASSUME DSReceiving, UNCHANGED <<mode, phase, reasm, pending, seen, decSeq, frames, refused>>, NetTyped',
           sess' \in {sess, "FinWait1", "Closed"}, sess = "Closed" => sess' = "Closed",
           overflowed' \in BOOLEAN, overflowed => overflowed', overflowed' => sess' = "Closed",
           net'.taken = net.taken \/ (phase \notin Handshaking /\ (sess' # "Established" \/ mode.tls))
    PROVE  DSReceiving'
<1>0. Start' = Start
    BY DEF Start, FirstUnit
<1>1. DSTyped'
    BY DEF DSReceiving, DSTyped
<1>2. DSStages'
    BY DEF DSReceiving, DSStages
<1>3. DSPlainUpgrade' /\ DSTlsUpgrade'
    BY <1>0 DEF DSReceiving, DSPlainUpgrade, DSTlsUpgrade, Handshaking
<1>4. sess' = "Established" => sess = "Established"
    OBVIOUS
<1>5. DSPlainChain'
  <2>1. phase = "Established" => phase \notin Handshaking
      BY DEF Handshaking
  <2> QED
      BY <1>4, <2>1 DEF DSReceiving, DSPlainChain
<1>6. DSTlsChain' /\ DpdkFramesInOrder'
    BY <1>0, <1>4 DEF DSReceiving, DSTlsChain, DpdkFramesInOrder, DSAligned, DSStuck
<1>7. Refusing'
    BY DEF DSReceiving, Refusing, RefusalCloses
<1> QED
    BY <1>1, <1>2, <1>3, <1>5, <1>6, <1>7 DEF DSReceiving

\* A handshake that fails.
LEMMA DSHandFails ==
    ASSUME DSReceiving, phase \in Handshaking, UNCHANGED <<mode, reasm, pending, frames, refused, overflowed>>,
           phase' = "Failed", sess' = "Closed", NetTyped', seen' \in WsSink, decSeq' \in Nat
    PROVE  DSReceiving'
<1>1. phase # "Established" /\ phase' \notin Handshaking
    BY DEF Handshaking
<1>2. DSTyped'
    BY DEF DSReceiving, DSTyped
<1>3. DSStages'
    BY <1>1 DEF DSReceiving, DSStages
<1>4. DSPlainUpgrade' /\ DSTlsUpgrade'
    BY <1>1 DEF DSPlainUpgrade, DSTlsUpgrade, Handshaking
<1>5. DSPlainChain' /\ DSTlsChain' /\ DpdkFramesInOrder'
    BY DEF DSReceiving, DSPlainChain, DSTlsChain, DpdkFramesInOrder
<1>6. Refusing'
    BY DEF DSReceiving, Refusing, RefusalCloses
<1> QED
    BY <1>2, <1>3, <1>4, <1>5, <1>6 DEF DSReceiving

\* A handshake that goes on, with what the upgrade has.
LEMMA DSHandGoes ==
    ASSUME DSReceiving, phase \in Handshaking, UNCHANGED <<mode, reasm, pending, frames, refused, overflowed>>,
           phase' \in Handshaking, phase' = "WsHandshaking" => mode.ws,
           sess' = sess \/ (sess = "SynSent" /\ sess' = "Established"), NetTyped', seen' \in WsSink, decSeq' \in Nat,
           DSPlainUpgrade', DSTlsUpgrade'
    PROVE  DSReceiving'
<1>1. phase # "Established" /\ phase' # "Established" /\ phase' # "Failed"
    BY DEF Handshaking
<1>2. DSTyped'
    BY DEF DSReceiving, DSTyped
<1>3. DSStages'
    BY <1>1 DEF DSReceiving, DSStages
<1>4. DSPlainChain' /\ DSTlsChain' /\ DpdkFramesInOrder'
    BY <1>1 DEF DSReceiving, DSPlainChain, DSTlsChain, DpdkFramesInOrder
<1>5. Refusing'
    BY DEF DSReceiving, Refusing, RefusalCloses
<1> QED
    BY <1>2, <1>3, <1>4, <1>5 DEF DSReceiving

\* A handshake that is over, with what was read behind the response.
LEMMA DSHandOver ==
    ASSUME DSReceiving, phase \in Handshaking, UNCHANGED <<mode, pending, frames, refused, overflowed>>,
           phase' = "Established", sess' \in {"Established", "Closed"}, sess = "Closed" => sess' = "Closed",
           NetTyped', seen' \in WsSink, decSeq' \in Nat, reasm' \in Seq(Cells), Len(reasm') <= ReasmCap,
           ~mode.tls => reasm' = UnitsFrom("pt", 0, Len(reasm')),
           ~mode.tls /\ sess' = "Established" => net'.taken = Len(reasm'),
           mode.tls /\ sess' = "Established" => \/ Start + decSeq' * RecLen = 0
                                                \/ Len(reasm') >= RecLen /\ reasm'[1][1] = "pt"
    PROVE  DSReceiving'
<1>1. phase # "Established" /\ phase' \notin Handshaking
    BY DEF Handshaking
<1>2. pending' = << >> /\ frames' = << >>
    BY <1>1 DEF DSReceiving, DSStages
<1>3. Start' = Start /\ Len(frames') = 0 /\ Len(pending') = 0
    BY <1>2 DEF Start, FirstUnit
<1>4. DSTyped'
    BY DEF DSReceiving, DSTyped
<1>5. DSStages'
    BY DEF DSStages
<1>6. DSPlainUpgrade' /\ DSTlsUpgrade'
    BY <1>1 DEF DSPlainUpgrade, DSTlsUpgrade, Handshaking
<1>7. DSPlainChain'
  <2>1. Len(reasm') \in Nat
      BY LenProperties
  <2> QED
      BY <1>3, <2>1 DEF DSPlainChain
<1>8. DSTlsChain'
  <2>1. pending' = UnitsFrom("pt", 0, 0)
      BY <1>2, NoUnits
  <2>2. mode'.tls /\ sess' = "Established" => DSAligned' \/ DSStuck'
      BY <1>2, <1>3 DEF DSAligned, DSStuck
  <2> QED
      BY <1>3, <2>1, <2>2 DEF DSTlsChain
<1>9. DpdkFramesInOrder'
    BY <1>2 DEF DpdkFramesInOrder
<1>10. Refusing'
    BY DEF DSReceiving, Refusing, RefusalCloses
<1> QED
    BY <1>4, <1>5, <1>6, <1>7, <1>8, <1>9, <1>10 DEF DSReceiving

\* Steps of the handshake that read nothing.
LEMMA DSUnread ==
    ASSUME DSReceiving, phase \in Handshaking, UNCHANGED <<mode, reasm, pending, frames, refused, overflowed, seen, net, decSeq>>
    PROVE  /\ NetTyped' /\ seen' \in WsSink /\ decSeq' \in Nat /\ DSPlainUpgrade' /\ DSTlsUpgrade'
           /\ reasm' = << >> /\ Start' = Start
<1>1. phase # "Established" /\ Start' = Start
    BY DEF Handshaking, Start, FirstUnit
<1> QED
    BY <1>1 DEF DSReceiving, DSTyped, NetTyped, DSStages, DSPlainUpgrade, DSTlsUpgrade

\* A handshake that fails without reading.
LEMMA DSFailKeeps ==
    ASSUME DSReceiving, phase \in Handshaking, UNCHANGED <<mode, reasm, pending, frames, refused, overflowed, seen, net, decSeq>>,
           fail_handshake
    PROVE  DSReceiving'
<1>1. NetTyped' /\ seen' \in WsSink /\ decSeq' \in Nat
    BY DSUnread
<1> QED
    BY <1>1, DSHandFails DEF fail_handshake

\* The legs before the upgrade leave nothing unread to whom follows them.
LEMMA DSUpWithout ==
    ASSUME DSReceiving, phase \in Handshaking, UNCHANGED <<mode, reasm, pending, frames, refused, overflowed, seen, net, decSeq>>,
           ~mode.ws, phase' = "Established", sess' = "Established", sess # "Closed"
    PROVE  DSReceiving'
<1>1. NetTyped' /\ seen' \in WsSink /\ decSeq' \in Nat /\ reasm' = << >>
    BY DSUnread
<1>2. Start = 0 /\ RecLen \in Nat /\ ReasmCap \in Nat
    BY DSConstants
<1>3. reasm' \in Seq(Cells) /\ Len(reasm') = 0 /\ Len(reasm') <= ReasmCap /\ reasm' = UnitsFrom("pt", 0, Len(reasm'))
    BY <1>1, <1>2, NoUnits
<1>4. ~mode.tls => net'.taken = Len(reasm')
    BY <1>2, <1>3 DEF DSReceiving, DSPlainUpgrade
<1>5. mode.tls => Start + decSeq' * RecLen = 0
    BY <1>2 DEF DSReceiving, DSTlsUpgrade
<1> QED
    BY <1>1, <1>3, <1>4, <1>5, DSHandOver

\* The TCP and TLS legs.
LEMMA DSLegsKeep ==
    ASSUME DSReceiving, phase \in Handshaking, UNCHANGED <<mode, pending, frames, refused, overflowed>>, StepTcp \/ StepTls
    PROVE  DSReceiving'
<1>0. UNCHANGED <<reasm, seen, net, decSeq>>
    BY DEF StepTcp, StepTls
<1>1. CASE fail_handshake
    BY <1>0, <1>1, DSFailKeeps
<1>2. /\ NetTyped' /\ seen' \in WsSink /\ decSeq' \in Nat /\ DSPlainUpgrade' /\ DSTlsUpgrade'
    BY <1>0, DSUnread
<1>3. CASE sess = "SynSent" /\ advance_after_tcp
  <2>1. sess' = "Established" /\ phase' = IF mode.tls THEN "TlsHandshaking" ELSE IF mode.ws THEN "WsHandshaking" ELSE "Established"
      BY <1>3 DEF advance_after_tcp
  <2>2. CASE phase' = "Established"
    <3>1. ~mode.ws
        BY <2>1, <2>2
    <3> QED
        BY <1>0, <1>3, <2>1, <2>2, <3>1, DSUpWithout
  <2>3. CASE phase' # "Established"
    <3>1. phase' \in Handshaking /\ (phase' = "WsHandshaking" => mode.ws)
        BY <2>1, <2>3 DEF Handshaking
    <3> QED
        BY <1>0, <1>2, <1>3, <2>1, <3>1, DSHandGoes
  <2> QED
      BY <2>2, <2>3
<1>4. CASE phase = "TlsHandshaking" /\ UNCHANGED <<phase, sess>>
    BY <1>0, <1>2, <1>4, DSHandGoes
<1>5. CASE sess = "Established" /\ advance_after_tls
  <2>1. CASE mode.ws
    <3>1. phase' = "WsHandshaking" /\ sess' = sess
        BY <1>5, <2>1 DEF advance_after_tls, EnterLeg
    <3> QED
        BY <1>0, <1>2, <2>1, <3>1, DSHandGoes DEF Handshaking
  <2>2. CASE ~mode.ws
    <3>1. phase' = "Established" /\ sess' = sess
        BY <1>5, <2>2 DEF advance_after_tls, become_established
    <3> QED
        BY <1>0, <1>5, <2>2, <3>1, DSUpWithout
  <2> QED
      BY <2>1, <2>2
<1> QED
    BY <1>1, <1>3, <1>4, <1>5 DEF StepTcp, StepTls

\* What has arrived are the units behind the last one taken.
ArrivedTrue(in) ==
    in \in Seq(Cells) /\ in = UnitsFrom(Kind, net.taken, Len(in)) /\ Len(in) \in Nat /\ Len(in) = net.sent - net.taken

\* Arrived is that, and taking it moves the reader up to what was sent.
LEMMA ArrivedUnits ==
    ASSUME NetTyped, mode \in DSModes
    PROVE  ArrivedTrue(Arrived) /\ (net' = Took(Len(Arrived)) => NetTyped' /\ net'.taken = net.taken + Len(Arrived))
<1>1. PICK t \in Int, n \in Nat : t = net.taken /\ n = net.sent - net.taken
    BY DEF NetTyped, Net
<1>2. Kind \in {"ct", "pt"}
    BY DEF Kind
<1>3. Arrived = UnitsFrom(Kind, t, n)
    BY <1>1 DEF Arrived, UnitsFrom
<1>4. UnitsFrom(Kind, t, n) \in Seq(Cells) /\ Len(UnitsFrom(Kind, t, n)) = n
    BY <1>2, UnitsTyped
<1>5. ArrivedTrue(Arrived)
    BY <1>1, <1>3, <1>4 DEF ArrivedTrue
<1>6. ASSUME net' = Took(Len(Arrived)) PROVE NetTyped' /\ net'.taken = net.taken + Len(Arrived)
  <2>1. Len(Arrived) = n /\ net \in Net
      BY <1>3, <1>4 DEF NetTyped
  <2>2. net' = [net EXCEPT !.taken = @ + n]
      BY <1>6, <2>1 DEF Took
  <2>3. net' \in Net /\ net'.taken = net.taken + n /\ net'.sent = net.sent
      BY <2>1, <2>2 DEF Net
  <2> QED
      BY <1>1, <2>1, <2>3 DEF NetTyped, Net
<1> QED
    BY <1>5, <1>6

\* What the upgrade reads: the last step before the response is whole.
ReadTrue(r, b) ==
    /\ r.n \in Nat /\ r.rest \in Seq(Cells) /\ b \in Seq(Cells)
    /\ ~mode.tls => b = UnitsFrom("pt", Start, Len(b)) /\ net'.taken = Start + Len(b)
    /\ mode.tls => AllPt(b) /\ Len(b) = r.n * RecLen

\* The WsSink's plaintext behind what it had.
LEMMA SinkReads ==
    ASSUME DSReceiving, phase = "WsHandshaking", net' = Took(Len(Arrived)), NEW r, r = SinkRecv, NEW b, IsJoin(b, seen.pt, r.pt)
    PROVE  ReadTrue(r, b)
<1>0. mode \in DSModes /\ NetTyped /\ decSeq \in Nat /\ seen \in WsSink /\ phase \in Handshaking /\ Start \in Int /\ RecLen \in Nat \ {0}
    BY DSConstants DEF DSReceiving, DSTyped, Handshaking, DSModes
<1>1. PICK in : in = Arrived
    OBVIOUS
<1>2. ArrivedTrue(in) /\ net'.taken = net.taken + Len(in)
    BY <1>0, <1>1, ArrivedUnits
<1>3. CASE ~mode.tls
  <2>1. r.n = 0 /\ r.pt = in /\ r.rest = << >>
      BY <1>1, <1>3 DEF SinkRecv
  <2>2. PICK n \in Nat, m \in Nat : n = Len(seen.pt) /\ m = Len(in)
      BY <1>0, <1>2, LenProperties DEF WsSink, ArrivedTrue
  <2>3. seen.pt = UnitsFrom("pt", Start, n) /\ net.taken = Start + n
      BY <1>0, <1>3, <2>2 DEF DSReceiving, DSPlainUpgrade
  <2>4. in = UnitsFrom("pt", Start + n, m)
      BY <1>2, <1>3, <2>2, <2>3 DEF ArrivedTrue, Kind
  <2>5. UnitsFrom("pt", Start, n) \o UnitsFrom("pt", Start + n, m) = UnitsFrom("pt", Start, n + m)
      BY <1>0, RunsJoin
  <2>6. b = UnitsFrom("pt", Start, n + m) /\ n + m \in Nat
      BY <2>1, <2>3, <2>4, <2>5 DEF IsJoin
  <2>7. b \in Seq(Cells) /\ Len(b) = n + m
      BY <1>0, <2>6, UnitsTyped
  <2>8. net'.taken = Start + (n + m)
    <3>1. PICK a \in Int, x \in Int : a = Start /\ x = net.taken /\ x = a + n
        BY <1>0, <2>3
    <3>2. net'.taken = x + m
        BY <1>2, <2>2, <3>1
    <3>3. x + m = a + (n + m)
        BY <3>1
    <3> QED
        BY <3>1, <3>2, <3>3
  <2>9. r.rest \in Seq(Cells) /\ r.n \in Nat
      BY <2>1
  <2> QED
      BY <1>3, <2>6, <2>7, <2>8, <2>9 DEF ReadTrue
<1>4. CASE mode.tls
  <2>1. seen.ct \o in \in Seq(Cells)
      BY <1>0, <1>2, ConcatProperties DEF WsSink, ArrivedTrue
  <2>2. PICK w : w = seen.ct \o in
      OBVIOUS
  <2>3. r = process_records_in_place(w, decSeq)
      BY <1>1, <1>4, <2>2 DEF SinkRecv
  <2>4. OpensTo(w, Start + decSeq * RecLen, RecLen, r)
      BY <1>0, <2>1, <2>2, <2>3, InPlaceOpens
  <2>5. r.n \in Nat /\ r.rest \in Seq(Cells) /\ AllPt(r.pt) /\ Len(r.pt) = r.n * RecLen
      BY <2>4 DEF OpensTo, AllPt
  <2>6. seen.pt = << >>
      BY <1>0, <1>4 DEF DSReceiving, DSTlsUpgrade
  <2>7. b = r.pt
      BY <2>5, <2>6, ConcatEmptySeq DEF IsJoin, AllPt
  <2> QED
      BY <1>4, <2>5, <2>7 DEF ReadTrue, AllPt
<1> QED
    BY <1>3, <1>4

\* The upgrade reads on.
LEMMA UpgradeGoesOn ==
    ASSUME DSReceiving, phase = "WsHandshaking", UNCHANGED <<mode, reasm, pending, frames, refused, overflowed, phase, sess>>,
           NetTyped', NEW r, NEW b, ReadTrue(r, b), decSeq' = decSeq + r.n, seen' = [ct |-> r.rest, pt |-> b], Len(b) < RecLen
    PROVE  DSReceiving'
<1>0. mode.ws /\ phase \in Handshaking /\ phase' \in Handshaking /\ decSeq \in Nat /\ RecLen \in Nat \ {0} /\ Start' = Start
    BY DSConstants DEF DSReceiving, DSStages, DSTyped, Handshaking, Start, FirstUnit
<1>1. seen' \in WsSink /\ seen'.pt = b /\ decSeq' \in Nat
    BY <1>0 DEF ReadTrue, WsSink
<1>2. DSPlainUpgrade'
    BY <1>0, <1>1 DEF ReadTrue, DSPlainUpgrade
<1>3. DSTlsUpgrade'
  <2>1. CASE mode.tls
    <3>1. PICK n \in Nat, L \in Nat, w \in Nat : n = r.n /\ L = RecLen /\ L > 0 /\ w = Len(b) /\ w = n * L /\ w < L
        BY <1>0, <2>1, LenProperties DEF ReadTrue, AllPt
    <3>2. n = 0
      <4> SUFFICES ASSUME n >= 1 PROVE FALSE
          OBVIOUS
      <4>1. L * n >= L /\ L * n = n * L
          BY <3>1, MulGe, Mul3
      <4> QED
          BY <3>1, <4>1
    <3>3. w = 0
        BY <3>1, <3>2
    <3>4. b = << >> /\ decSeq = 0
        BY <1>0, <2>1, <3>1, <3>3, EmptySeq DEF ReadTrue, DSReceiving, DSTlsUpgrade
    <3> QED
        BY <1>1, <3>1, <3>2, <3>4 DEF DSTlsUpgrade
  <2>2. CASE ~mode.tls
      BY <2>2 DEF DSTlsUpgrade
  <2> QED
      BY <2>1, <2>2
<1> QED
    BY <1>0, <1>1, <1>2, <1>3, DSHandGoes

\* The response is whole: what was read behind it goes to reasm_, if it fits.
LEMMA UpgradeEnds ==
    ASSUME DSReceiving, phase = "WsHandshaking", sess = "Established", UNCHANGED <<mode, pending, frames, refused, overflowed>>,
           NetTyped', NEW r, NEW b, ReadTrue(r, b), decSeq' = decSeq + r.n, seen' = [ct |-> r.rest, pt |-> b],
           Len(b) >= RecLen, finalize_ws(b)
    PROVE  DSReceiving'
<1>0. /\ mode \in DSModes /\ mode.ws /\ phase \in Handshaking /\ decSeq \in Nat /\ Start = -RecLen /\ Start \in Int
      /\ reasm = << >> /\ ReasmCap \in Nat /\ b \in Seq(Cells)
    BY DSConstants DEF DSReceiving, DSStages, DSTyped, Handshaking, ReadTrue, DSModes
<1>1. seen' \in WsSink /\ decSeq' \in Nat
    BY <1>0 DEF ReadTrue, WsSink
<1>2. PICK n \in Nat, L \in Nat : n = Len(b) /\ L = RecLen /\ L > 0 /\ L <= n
    BY <1>0, LenProperties, DSConstants
<1>3. PICK lo : lo = Leftover(b)
    OBVIOUS
<1>4. lo \in Seq(Cells) /\ Len(lo) = n - L /\ \A i \in 1..(n - L) : lo[i] = b[L + i]
  <2>1. /\ SubSeq(b, L + 1, n) \in Seq(Cells) /\ Len(SubSeq(b, L + 1, n)) = n - L
        /\ \A i \in 1..(n - L) : SubSeq(b, L + 1, n)[i] = b[L + i]
      BY <1>0, <1>2, TailOf
  <2>2. lo = SubSeq(b, L + 1, n)
      BY <1>2, <1>3 DEF Leftover
  <2> QED
      BY <2>1, <2>2
<1>5. CASE Len(lo) > ReasmCap
  <2>1. phase' = "Established" /\ sess' = "Closed" /\ reasm' = << >>
      BY <1>0, <1>3, <1>5 DEF finalize_ws
  <2>2. reasm' \in Seq(Cells) /\ Len(reasm') = 0 /\ Len(reasm') <= ReasmCap /\ reasm' = UnitsFrom("pt", 0, Len(reasm'))
      BY <1>0, <2>1, NoUnits
  <2> QED
      BY <1>0, <1>1, <2>1, <2>2, DSHandOver
<1>6. CASE ~(Len(lo) > ReasmCap)
  <2>1. phase' = "Established" /\ sess' = "Established" /\ reasm' = reasm \o lo
      BY <1>3, <1>6 DEF finalize_ws, become_established
  <2>2. reasm' = lo
      BY <1>0, <1>4, <2>1, ConcatEmptySeq
  <2>3. reasm' \in Seq(Cells) /\ Len(reasm') = n - L /\ Len(reasm') <= ReasmCap
    <3>1. reasm' \in Seq(Cells) /\ Len(reasm') = n - L /\ ~(n - L > ReasmCap)
        BY <1>4, <1>6, <2>2
    <3>2. n - L \in Int /\ ReasmCap \in Int
        BY <1>0
    <3>3. n - L <= ReasmCap
        BY <3>1, <3>2
    <3> QED
        BY <3>1, <3>3
  <2>4. CASE ~mode.tls
    <3>1. b = UnitsFrom("pt", Start, n) /\ net'.taken = Start + n
        BY <1>2, <2>4 DEF ReadTrue
    <3>2. SubSeq(b, L + 1, n) = UnitsFrom("pt", Start + L, n - L)
      <4>1. L \in 0..n
          BY <1>2
      <4>2. Start \in Int /\ b = UnitsFrom("pt", Start, n)
          BY <1>0, <3>1
      <4> QED
          BY <4>1, <4>2, TailOfRun
    <3>3. Start + L = 0 /\ Start + n = n - L
        BY <1>0, <1>2
    <3>4. reasm' = UnitsFrom("pt", 0, n - L)
        BY <1>2, <1>3, <2>2, <3>2, <3>3 DEF Leftover
    <3>5. net'.taken = n - L
        BY <3>1, <3>3
    <3>6. reasm' = UnitsFrom("pt", 0, Len(reasm')) /\ net'.taken = Len(reasm')
        BY <2>3, <3>4, <3>5
    <3> QED
        BY <1>0, <1>1, <2>1, <2>3, <2>4, <3>6, DSHandOver
  <2>5. CASE mode.tls
    <3>1. AllPt(b) /\ n = r.n * L /\ decSeq = 0 /\ r.n \in Nat
        BY <1>0, <1>2, <2>5 DEF ReadTrue, DSReceiving, DSTlsUpgrade
    <3>2. PICK d \in Nat : d = r.n /\ decSeq' = d /\ n = d * L
        BY <3>1
    <3>3. CASE d <= 1
      <4>1. d = 1
        <5> SUFFICES ASSUME d = 0 PROVE FALSE
            BY <3>3
        <5>1. d * L = 0
            OBVIOUS
        <5> QED
            BY <1>2, <3>2, <5>1
      <4>2. Start + decSeq' * RecLen = 0
          BY <1>0, <1>2, <3>2, <4>1
      <4> QED
          BY <1>0, <1>1, <2>1, <2>3, <2>5, <4>2, DSHandOver
    <3>4. CASE d > 1
      <4>1. 1 * L + L <= d * L
          BY <1>2, <3>4, MulGrows
      <4>2. n - L >= L /\ 1 \in 1..(n - L) /\ L + 1 \in 1..n
          BY <1>2, <3>2, <4>1
      <4>3. lo[1] = b[L + 1] /\ b[L + 1][1] = "pt"
          BY <1>2, <1>4, <3>1, <4>2 DEF AllPt
      <4>4. Len(reasm') >= RecLen /\ reasm'[1][1] = "pt"
          BY <1>2, <2>2, <2>3, <4>2, <4>3
      <4> QED
          BY <1>0, <1>1, <2>1, <2>3, <2>5, <4>4, DSHandOver
    <3> QED
        BY <3>3, <3>4
  <2> QED
      BY <2>4, <2>5
<1> QED
    BY <1>5, <1>6

\* The upgrade.
LEMMA DSUpgradeKeeps ==
    ASSUME DSReceiving, UNCHANGED <<mode, pending, frames, refused, overflowed>>, StepWs
    PROVE  DSReceiving'
<1>0. phase = "WsHandshaking" /\ phase \in Handshaking /\ mode.ws /\ NetTyped /\ mode \in DSModes
    BY DEF StepWs, Handshaking, DSReceiving, DSStages, DSTyped
<1>1. CASE fail_handshake /\ UNCHANGED <<seen, reasm, net, decSeq>>
    BY <1>0, <1>1, DSFailKeeps
<1>2. CASE UNCHANGED <<phase, sess, seen, reasm, net, decSeq>>
  <2>1. /\ NetTyped' /\ seen' \in WsSink /\ decSeq' \in Nat /\ DSPlainUpgrade' /\ DSTlsUpgrade'
      BY <1>0, <1>2, DSUnread
  <2> QED
      BY <1>0, <1>2, <2>1, DSHandGoes
<1>3. ASSUME NEW r, r = SinkRecv, NEW b, b = seen.pt \o r.pt, sess = "Established",
             net' = Took(Len(Arrived)), decSeq' = decSeq + r.n, seen' = [ct |-> r.rest, pt |-> b],
             IF Len(b) < RecLen THEN UNCHANGED <<phase, sess, expired, asked, reasm>>
             ELSE finalize_ws(b) \/ (fail_handshake /\ UNCHANGED reasm)
      PROVE  DSReceiving'
  <2>1. NetTyped'
      BY <1>0, <1>3, ArrivedUnits
  <2>2. ReadTrue(r, b)
      BY <1>0, <1>3, SinkReads DEF IsJoin
  <2>3. CASE Len(b) < RecLen
    <3>1. UNCHANGED <<phase, sess, reasm>>
        BY <1>3, <2>3
    <3>2. decSeq' = decSeq + r.n /\ seen' = [ct |-> r.rest, pt |-> b]
        BY <1>3
    <3> HIDE <1>3
    <3> QED
        BY <1>0, <2>1, <2>2, <2>3, <3>1, <3>2, UpgradeGoesOn
  <2>4. CASE ~(Len(b) < RecLen) /\ finalize_ws(b)
    <3>1. decSeq' = decSeq + r.n /\ seen' = [ct |-> r.rest, pt |-> b] /\ sess = "Established"
        BY <1>3
    <3>2. Len(b) >= RecLen
      <4>1. Len(b) \in Nat /\ RecLen \in Nat
          BY <2>2, LenProperties, DSConstants DEF ReadTrue
      <4> QED
          BY <2>4, <4>1
    <3> QED
        BY <1>0, <2>1, <2>2, <2>4, <3>1, <3>2, UpgradeEnds
  <2>5. CASE fail_handshake /\ UNCHANGED reasm
    <3>1. decSeq' = decSeq + r.n /\ seen' = [ct |-> r.rest, pt |-> b]
        BY <1>3
    <3>2. decSeq' \in Nat /\ seen' \in WsSink
        BY <2>2, <3>1 DEF ReadTrue, WsSink, DSReceiving, DSTyped
    <3> QED
        BY <1>0, <2>1, <2>5, <3>2, DSHandFails DEF fail_handshake
  <2> QED
      BY <1>3, <2>3, <2>4, <2>5
<1>4. CASE /\ sess = "Established" /\ net' = Took(Len(Arrived)) /\ decSeq' = decSeq + SinkRecv.n
           /\ seen' = [ct |-> SinkRecv.rest, pt |-> seen.pt \o SinkRecv.pt]
           /\ IF Len(seen.pt \o SinkRecv.pt) < RecLen THEN UNCHANGED <<phase, sess, expired, asked, reasm>>
              ELSE finalize_ws(seen.pt \o SinkRecv.pt) \/ (fail_handshake /\ UNCHANGED reasm)
  <2>1. PICK r, b : r = SinkRecv /\ b = seen.pt \o r.pt
      OBVIOUS
  <2> QED
      BY <1>3, <1>4, <2>1
<1> QED
    BY <1>1, <1>2, <1>4 DEF StepWs

\* Every step of the handshake.
LEMMA DSHandshakeKeeps ==
    ASSUME DSReceiving, drive_handshake
    PROVE  DSReceiving'
<1>0. phase \in Handshaking /\ UNCHANGED <<mode, pending, frames, refused, overflowed>>
    BY DEF drive_handshake, data
<1>1. CASE fail_handshake /\ UNCHANGED <<seen, reasm, net, decSeq>>
    BY <1>0, <1>1, DSFailKeeps
<1> QED
    BY <1>0, <1>1, DSLegsKeep, DSUpgradeKeeps DEF drive_handshake

-----------------------------------------------------------------------------
(* DpdkStream: receiving.                                                  *)

\* What the codec leaves of the n units behind a: the first c of them are out.
Cut(d, a, n, c) ==
    /\ c \in 0..n /\ d.out = [i \in 1..c |-> a + i] /\ d.rest = UnitsFrom("pt", a + c, n - c)
    /\ d.bad \in BOOLEAN

\* The frames before the first that is partial or refused.
LEMMA DecodedCuts ==
    ASSUME NEW a \in Int, NEW n \in Nat, NEW b, b = UnitsFrom("pt", a, n)
    PROVE  \E c \in 0..n : Cut(Decoded(b), a, n, c)
<1>0. b \in Seq(Cells) /\ Len(b) = n /\ \A i \in 1..n : b[i] = <<"pt", a + i>>
    BY UnitsTyped
<1>1. PICK F \in Nat \ {0}, q \in Nat : F = FrameLen /\ q = n \div F /\ q * F \in Nat /\ q * F <= n
    BY DSConstants, WholeParts
<1>2. Len(FrameIds(b)) = q /\ DOMAIN FrameIds(b) = 1..q
    BY <1>0, <1>1 DEF FrameIds
<1>3. Refusals(b) \subseteq 1..q
    BY <1>2 DEF Refusals
<1>4. PICK first : first = (CHOOSE k \in Refusals(b) : \A j \in Refusals(b) : k <= j)
    OBVIOUS
<1>5. PICK halt : halt = (IF Refusals(b) = {} THEN q ELSE first - 1)
    OBVIOUS
<1>6. halt \in 0..q
  <2>1. CASE Refusals(b) = {}
      BY <1>5, <2>1
  <2>2. CASE Refusals(b) # {}
    <3>1. Refusals(b) \subseteq Nat
        BY <1>3
    <3>2. \E k \in Refusals(b) : \A j \in Refusals(b) : k <= j
        BY <2>2, <3>1, LeastNat
    <3>3. first \in Refusals(b)
        BY <1>4, <3>2
    <3>4. first \in 1..q
        BY <1>3, <3>3
    <3> QED
        BY <1>5, <2>2, <3>4
  <2> QED
      BY <2>1, <2>2
<1>7. PICK c \in Nat : c = halt * F /\ c <= n
    BY <1>1, <1>6, MulGrows
<1>8. PICK d : d = Decoded(b)
    OBVIOUS
<1>9. d.out = [i \in 1..c |-> b[i][2]] /\ d.rest = SubSeq(b, c + 1, n) /\ d.bad = (Refusals(b) # {})
  <2>1. halt = (IF Refusals(b) = {} THEN Len(FrameIds(b)) ELSE (CHOOSE k \in Refusals(b) : \A j \in Refusals(b) : k <= j) - 1)
      BY <1>2, <1>4, <1>5
  <2>2. d = [out |-> [i \in 1..(halt * FrameLen) |-> b[i][2]], rest |-> SubSeq(b, halt * FrameLen + 1, Len(b)),
             bad |-> Refusals(b) # {}]
      BY <1>8, <2>1 DEF Decoded
  <2> QED
      BY <1>0, <1>1, <1>7, <2>2
<1>10. d.out = [i \in 1..c |-> a + i]
  <2>1. ASSUME NEW i \in 1..c PROVE b[i][2] = a + i
    <3>1. i \in 1..n
        BY <1>7
    <3>2. b[i] = <<"pt", a + i>>
        BY <1>0, <3>1
    <3> QED
        BY <3>2
  <2> QED
      BY <1>9, <2>1
<1>11. c \in 0..n
    BY <1>7
<1>12. d.rest = UnitsFrom("pt", a + c, n - c)
  <2>1. SubSeq(b, c + 1, n) = UnitsFrom("pt", a + c, n - c)
      BY <1>11, TailOfRun
  <2> QED
      BY <1>9, <2>1
<1>13. d.bad \in BOOLEAN
    BY <1>9
<1> QED
    BY <1>8, <1>10, <1>11, <1>12, <1>13 DEF Cut

\* Of n units, c have become frames in order, and the rest is behind them.
FramesOn(d, n, c) ==
    /\ frames' \in Seq(Int) /\ Len(frames') = Len(frames) + c /\ DpdkFramesInOrder'
    /\ d.rest \in Seq(Cells) /\ Len(d.rest) = n - c /\ d.rest = UnitsFrom("pt", Len(frames'), Len(d.rest))

\* What goes out continues what went out before.
LEMMA FramesGrow ==
    ASSUME DSReceiving, NEW n \in Nat, NEW c, NEW d, Cut(d, Len(frames), n, c), frames' = frames \o d.out
    PROVE  FramesOn(d, n, c)
<1>1. PICK f \in Nat : f = Len(frames)
    BY LenProperties DEF DSReceiving, DSTyped
<1>2. c \in 0..n /\ c \in Nat /\ n - c \in Nat /\ d.out = [i \in 1..c |-> f + i] /\ d.rest = UnitsFrom("pt", f + c, n - c)
    BY <1>1 DEF Cut
<1>3. CountsTo(frames, f)
    BY <1>1 DEF CountsTo, DSReceiving, DSTyped, DpdkFramesInOrder
<1>4. CountsTo(frames \o d.out, f + c)
    BY <1>2, <1>3, CountsOn
<1>5. frames' \in Seq(Int) /\ Len(frames') = f + c /\ DpdkFramesInOrder'
    BY <1>4 DEF CountsTo, DpdkFramesInOrder
<1>6. d.rest \in Seq(Cells) /\ Len(d.rest) = n - c
  <2>1. f + c \in Int
      BY <1>2
  <2>2. UnitsFrom("pt", f + c, n - c) \in Seq(Cells) /\ Len(UnitsFrom("pt", f + c, n - c)) = n - c
      BY <1>2, <2>1, UnitsTyped
  <2> QED
      BY <1>2, <2>2
<1> QED
    BY <1>1, <1>2, <1>5, <1>6 DEF FramesOn

\* The stream without TLS.
LEMMA PlainDrains ==
    ASSUME DSReceiving, phase = "Established", sess = "Established", ~mode.tls, UNCHANGED <<mode, phase, seen>>, NetTyped',
           NEW b \in Seq(Cells), Len(b) <= ReasmCap, b = UnitsFrom("pt", Len(frames), Len(b)),
           net'.taken = Len(frames) + Len(b), DrainPlain(b)
    PROVE  DSReceiving'
<1>0. ReasmCap \in Nat /\ phase' \notin Handshaking /\ refused \in BOOLEAN
    BY DSConstants DEF Handshaking, DSReceiving, Refusing
<1>1. PICK f \in Nat, n \in Nat : f = Len(frames) /\ n = Len(b)
    BY LenProperties DEF DSReceiving, DSTyped
<1>2. PICK d : d = Decoded(b)
    OBVIOUS
<1>3. PICK c \in 0..n : Cut(d, f, n, c)
  <2>1. f \in Int /\ b = UnitsFrom("pt", f, n)
      BY <1>1
  <2>2. \E c \in 0..n : Cut(Decoded(b), f, n, c)
      BY <2>1, DecodedCuts
  <2> QED
      BY <1>2, <2>2
<1>4. /\ reasm' = d.rest /\ frames' = frames \o d.out /\ refused' = (refused \/ d.bad)
      /\ UNCHANGED <<sess, overflowed, pending, decSeq>>
    BY <1>2 DEF DrainPlain
<1>5. /\ frames' \in Seq(Int) /\ Len(frames') = f + c /\ DpdkFramesInOrder'
      /\ d.rest \in Seq(Cells) /\ Len(d.rest) = n - c /\ d.rest = UnitsFrom("pt", Len(frames'), Len(d.rest))
  <2>1. Cut(d, Len(frames), n, c) /\ frames' = frames \o d.out
      BY <1>1, <1>3, <1>4
  <2>2. FramesOn(d, n, c)
      BY <2>1, FramesGrow, Zenon
  <2> QED
      BY <1>1, <2>2 DEF FramesOn
<1>6. Len(reasm') <= ReasmCap
    BY <1>0, <1>1, <1>4, <1>5
<1>7. DSTyped'
    BY <1>4, <1>5, <1>6 DEF DSReceiving, DSTyped
<1>8. DSStages'
    BY DEF DSStages
<1>9. DSPlainUpgrade' /\ DSTlsUpgrade' /\ DSTlsChain'
    BY <1>0 DEF DSPlainUpgrade, DSTlsUpgrade, DSTlsChain
<1>10. DSPlainChain'
  <2>1. net'.taken = (f + c) + (n - c)
    <3>1. (f + c) + (n - c) = f + n
        OBVIOUS
    <3> QED
        BY <1>1, <3>1
  <2> QED
      BY <1>4, <1>5, <2>1 DEF DSPlainChain
<1>11. Refusing'
  <2>1. refused' \in BOOLEAN
      BY <1>3, <1>4 DEF Cut
  <2> QED
      BY <1>4, <2>1 DEF DSReceiving, Refusing, RefusalCloses
<1> QED
    BY <1>5, <1>7, <1>8, <1>9, <1>10, <1>11 DEF DSReceiving

\* A stream that is reset: nothing it holds is read again.
LEMMA TlsResets ==
    ASSUME DSReceiving, phase = "Established", mode.tls, UNCHANGED <<mode, phase, seen>>, NetTyped',
           sess' = "Closed", overflowed' = TRUE, refused' \in BOOLEAN, reasm' \in Seq(Cells), Len(reasm') <= ReasmCap,
           pending' \in Seq(Cells), decSeq' \in Nat, frames' \in Seq(Int), DpdkFramesInOrder',
           pending' = UnitsFrom("pt", Len(frames'), Len(pending'))
    PROVE  DSReceiving'
<1>0. phase' \notin Handshaking
    BY DEF Handshaking
<1>1. DSTyped'
    BY DEF DSReceiving, DSTyped
<1>2. DSStages'
    BY DEF DSStages
<1>3. DSPlainUpgrade' /\ DSTlsUpgrade' /\ DSPlainChain'
    BY <1>0 DEF DSPlainUpgrade, DSTlsUpgrade, DSPlainChain
<1>4. DSTlsChain'
    BY DEF DSTlsChain
<1>5. Refusing'
    BY DEF Refusing, RefusalCloses
<1> QED
    BY <1>1, <1>2, <1>3, <1>4, <1>5 DEF DSReceiving

\* The stream with TLS.
LEMMA TlsDrains ==
    ASSUME DSReceiving, phase = "Established", sess = "Established", mode.tls, UNCHANGED <<mode, phase, seen>>, NetTyped',
           NEW b \in Seq(Cells), Len(b) <= ReasmCap, DSStuck => Len(b) >= RecLen /\ b[1][1] = "pt", DrainTls(b)
    PROVE  DSReceiving'
<1>0. /\ mode \in DSModes /\ decSeq \in Nat /\ RecLen \in Nat \ {0} /\ ReasmCap \in Nat /\ Start \in Int
      /\ pending \in Seq(Cells) /\ frames \in Seq(Int) /\ refused \in BOOLEAN
    BY DSConstants DEF DSReceiving, DSTyped, DSModes, Refusing
<1>1. PICK r, x, d : r = process_records_in_place(b, decSeq) /\ x = pending \o r.pt /\ d = Decoded(x)
    OBVIOUS
<1>2. OpensTo(b, Start + decSeq * RecLen, RecLen, r)
    BY <1>0, <1>1, InPlaceOpens
<1>3. CASE ~r.ok
  <2>1. sess' = "Closed" /\ overflowed' = TRUE /\ reasm' = b /\ UNCHANGED <<pending, decSeq, frames, refused>>
      BY <1>1, <1>3 DEF DrainTls
  <2>2. DpdkFramesInOrder' /\ pending' = UnitsFrom("pt", Len(frames'), Len(pending'))
      BY <2>1 DEF DSReceiving, DpdkFramesInOrder, DSTlsChain
  <2> QED
      BY <1>0, <2>1, <2>2, TlsResets
<1>4. CASE r.ok
  <2>1. /\ reasm' = r.rest /\ decSeq' = decSeq + r.n /\ frames' = frames \o d.out /\ refused' = (refused \/ d.bad)
        /\ IF d.bad THEN pending' = << >> /\ sess' = "Closed" /\ overflowed' = TRUE
           ELSE pending' = d.rest /\ UNCHANGED <<sess, overflowed>>
      BY <1>1, <1>4 DEF DrainTls, ResetOnRefusal, KeepPending
  <2>2. PICK f \in Nat, p \in Nat, t \in Nat : f = Len(frames) /\ p = Len(pending) /\ t = r.n * RecLen
      BY <1>0, <1>2, LenProperties DEF OpensTo
  <2>3. ~DSStuck
      BY <1>2, <1>4 DEF OpensTo
  <2>4. DSAligned /\ pending = UnitsFrom("pt", f, p)
      BY <2>2, <2>3 DEF DSReceiving, DSTlsChain
  <2>5. f + p = Start + decSeq * RecLen
      BY <2>2, <2>4 DEF DSAligned
  <2>6. r.pt = UnitsFrom("pt", f + p, t) /\ r.n \in Nat /\ r.rest \in Seq(Cells) /\ Len(r.rest) <= Len(b) /\ Len(r.rest) \in Nat
    <3>1. r.pt = UnitsFrom("pt", Start + decSeq * RecLen, r.n * RecLen)
        BY <1>2, <1>4 DEF OpensTo
    <3>2. r.n \in Nat /\ r.rest \in Seq(Cells) /\ Len(r.rest) <= Len(b)
        BY <1>2 DEF OpensTo
    <3> QED
        BY <2>2, <2>5, <3>1, <3>2, LenProperties
  <2>7. UnitsFrom("pt", f, p) \o UnitsFrom("pt", f + p, t) = UnitsFrom("pt", f, p + t)
    <3>1. f \in Int
        OBVIOUS
    <3> QED
        BY <3>1, RunsJoin
  <2>8. x = UnitsFrom("pt", f, p + t)
      BY <1>1, <2>4, <2>6, <2>7
  <2>9. PICK n \in Nat : n = p + t
      OBVIOUS
  <2>10. PICK c \in 0..n : Cut(d, f, n, c)
    <3>1. f \in Int /\ x = UnitsFrom("pt", f, n)
        BY <2>8, <2>9
    <3>2. \E c \in 0..n : Cut(Decoded(x), f, n, c)
        BY <3>1, DecodedCuts
    <3> QED
        BY <1>1, <3>2
  <2>11. /\ frames' \in Seq(Int) /\ Len(frames') = f + c /\ DpdkFramesInOrder'
         /\ d.rest \in Seq(Cells) /\ Len(d.rest) = n - c /\ d.rest = UnitsFrom("pt", Len(frames'), Len(d.rest))
    <3>1. Cut(d, Len(frames), n, c) /\ frames' = frames \o d.out
        BY <2>1, <2>2, <2>10
    <3>2. FramesOn(d, n, c)
        BY <3>1, FramesGrow, Zenon
    <3> QED
        BY <2>2, <3>2 DEF FramesOn
  <2>12. decSeq' \in Nat /\ reasm' \in Seq(Cells) /\ Len(reasm') <= ReasmCap /\ refused' \in BOOLEAN /\ d.bad \in BOOLEAN
    <3>1. decSeq' \in Nat /\ reasm' \in Seq(Cells)
        BY <1>0, <2>1, <2>6
    <3>2. Len(reasm') <= ReasmCap
      <4>1. Len(b) \in Nat
          BY LenProperties
      <4> QED
          BY <1>0, <2>1, <2>6, <4>1
    <3>3. d.bad \in BOOLEAN
        BY <2>10 DEF Cut
    <3>4. refused' \in BOOLEAN
        BY <2>1, <3>3
    <3> QED
        BY <3>1, <3>2, <3>3, <3>4
  <2>13. CASE d.bad
    <3>1. pending' = << >> /\ sess' = "Closed" /\ overflowed' = TRUE
        BY <2>1, <2>13
    <3>2. pending' \in Seq(Cells) /\ pending' = UnitsFrom("pt", Len(frames'), Len(pending'))
        BY <3>1, NoUnits
    <3> QED
        BY <2>11, <2>12, <3>1, <3>2, TlsResets
  <2>14. CASE ~d.bad
    <3>1. pending' = d.rest /\ UNCHANGED <<sess, overflowed>> /\ refused' = refused
        BY <1>0, <2>1, <2>12, <2>14
    <3>2. phase' \notin Handshaking /\ Start' = Start
        BY DEF Handshaking, Start, FirstUnit
    <3>3. DSTyped'
        BY <2>11, <2>12, <3>1 DEF DSReceiving, DSTyped
    <3>4. DSStages'
        BY DEF DSStages
    <3>5. DSPlainUpgrade' /\ DSTlsUpgrade' /\ DSPlainChain'
        BY <3>2 DEF DSPlainUpgrade, DSTlsUpgrade, DSPlainChain
    <3>6. DSAligned'
      <4>1. PICK m \in Nat, a \in Nat, s \in Int : m = r.n * RecLen /\ a = decSeq * RecLen /\ s = Start /\ m = t
          BY <1>0, <2>2, MulGrows
      <4>2. (decSeq + r.n) * RecLen = a + m
        <5>1. decSeq \in Nat /\ r.n \in Nat /\ RecLen \in Nat \ {0}
            BY <1>0, <2>6
        <5>2. PICK u \in Nat, q \in Nat, L \in Nat \ {0} : u = decSeq /\ q = r.n /\ L = RecLen
            BY <5>1
        <5>3. (u + q) * L = u * L + q * L
            BY <5>2, MulGrows
        <5> QED
            BY <4>1, <5>2, <5>3
      <4>3. (f + c) + (n - c) = s + (a + m)
          BY <2>5, <2>9, <4>1
      <4> QED
          BY <2>1, <2>11, <3>1, <3>2, <4>1, <4>2, <4>3 DEF DSAligned
    <3>7. DSTlsChain'
        BY <2>11, <3>1, <3>6 DEF DSTlsChain
    <3>8. Refusing'
        BY <3>1 DEF DSReceiving, Refusing, RefusalCloses
    <3> QED
        BY <2>11, <3>3, <3>4, <3>5, <3>7, <3>8 DEF DSReceiving
  <2> QED
      BY <2>12, <2>13, <2>14
<1> QED
    BY <1>3, <1>4

\* process_burst_: what has arrived behind what reasm_ holds.
LEMMA BurstKeeps ==
    ASSUME DSReceiving, process_burst
    PROVE  DSReceiving'
<1>0. /\ phase \notin Handshaking /\ UNCHANGED <<mode, phase, seen>> /\ net' = Took(Len(Arrived)) /\ mode \in DSModes
      /\ NetTyped /\ reasm \in Seq(Cells) /\ Len(reasm) <= ReasmCap /\ ReasmCap \in Nat /\ overflowed \in BOOLEAN
      /\ sess \in {"SynSent", "Established", "FinWait1", "Closed"}
    BY DSConstants DEF process_burst, DSReceiving, DSTyped, Refusing
<1>1. PICK in : in = Arrived
    OBVIOUS
<1>2. ArrivedTrue(in) /\ NetTyped' /\ net'.taken = net.taken + Len(in)
    BY <1>0, <1>1, ArrivedUnits
<1>3. CASE /\ (mode.tls /\ corrupt) \/ sess # "Established" \/ overflowed
           /\ UNCHANGED <<sess, overflowed, reasm, pending, decSeq, frames, refused>>
  <2>1. overflowed => sess = "Closed"
      BY DEF DSReceiving, Refusing
  <2>2. sess' # "Established" \/ mode.tls
      BY <1>3, <2>1
  <2> QED
      BY <1>0, <1>2, <1>3, <2>1, <2>2, DSRests
<1>4. CASE /\ overflowed' = TRUE /\ sess' = "Closed"
           /\ UNCHANGED <<reasm, pending, decSeq, frames, refused>>
    BY <1>0, <1>2, <1>4, DSRests
<1>5. ASSUME sess = "Established", ~(Len(in) > Room),
             IF mode.tls THEN DrainTls(reasm \o in) ELSE DrainPlain(reasm \o in)
      PROVE  DSReceiving'
  <2>0. phase = "Established"
      BY <1>0, <1>5 DEF DSReceiving, DSStages, DSTyped
  <2>1. PICK b : b = reasm \o in
      OBVIOUS
  <2>2. PICK w \in Nat, m \in Nat : w = Len(reasm) /\ m = Len(in)
      BY <1>0, <1>2, LenProperties DEF ArrivedTrue
  <2>3. b \in Seq(Cells) /\ Len(b) = w + m /\ (w >= 1 => b[1] = reasm[1])
    <3>1. /\ reasm \o in \in Seq(Cells) /\ Len(reasm \o in) = Len(reasm) + Len(in)
          /\ \A i \in 1..(Len(reasm) + Len(in)) : (reasm \o in)[i] = IF i <= Len(reasm) THEN reasm[i] ELSE in[i - Len(reasm)]
        BY <1>0, <1>2, ConcatProperties DEF ArrivedTrue
    <3>2. w >= 1 => 1 \in 1..(w + m)
        OBVIOUS
    <3> QED
        BY <2>1, <2>2, <3>1, <3>2
  <2>4. Len(b) <= ReasmCap
    <3>1. ~(m > ReasmCap - w)
        BY <1>5, <2>2 DEF Room
    <3> QED
        BY <1>0, <2>3, <3>1
  <2>5. CASE ~mode.tls
    <3>1. PICK f \in Nat : f = Len(frames)
        BY LenProperties DEF DSReceiving, DSTyped
    <3>2. reasm = UnitsFrom("pt", f, w) /\ net.taken = f + w
        BY <1>5, <2>0, <2>2, <2>5, <3>1 DEF DSReceiving, DSPlainChain
    <3>3. in = UnitsFrom("pt", f + w, m)
        BY <1>2, <2>2, <2>5, <3>2 DEF ArrivedTrue, Kind
    <3>4. UnitsFrom("pt", f, w) \o UnitsFrom("pt", f + w, m) = UnitsFrom("pt", f, w + m)
      <4>1. f \in Int
          OBVIOUS
      <4> QED
          BY <4>1, RunsJoin
    <3>5. b = UnitsFrom("pt", Len(frames), Len(b))
        BY <2>1, <2>3, <3>1, <3>2, <3>3, <3>4
    <3>6. net'.taken = Len(frames) + Len(b)
      <4>1. (f + w) + m = f + (w + m)
          OBVIOUS
      <4> QED
          BY <1>2, <2>2, <2>3, <3>1, <3>2, <4>1
    <3>7. DrainPlain(b)
        BY <1>5, <2>1, <2>5
    <3>8. b \in Seq(Cells) /\ UNCHANGED <<mode, phase, seen>> /\ NetTyped' /\ sess = "Established"
        BY <1>0, <1>2, <1>5, <2>3
    <3> HIDE <1>5
    <3> QED
        BY <2>0, <2>4, <2>5, <3>5, <3>6, <3>7, <3>8, PlainDrains
  <2>6. CASE mode.tls
    <3>1. DSStuck => Len(b) >= RecLen /\ b[1][1] = "pt"
      <4> HAVE DSStuck
      <4>1. w >= RecLen /\ reasm[1][1] = "pt" /\ RecLen \in Nat \ {0}
          BY <2>2, DSConstants DEF DSStuck
      <4>2. w >= 1 /\ w + m >= RecLen
          BY <4>1
      <4> QED
          BY <2>3, <4>1, <4>2
    <3>2. DrainTls(b)
        BY <1>5, <2>1, <2>6
    <3>3. b \in Seq(Cells) /\ UNCHANGED <<mode, phase, seen>> /\ NetTyped' /\ sess = "Established"
        BY <1>0, <1>2, <1>5, <2>3
    <3> HIDE <1>5
    <3> QED
        BY <2>0, <2>4, <2>6, <3>1, <3>2, <3>3, TlsDrains
  <2> QED
      BY <2>5, <2>6
<1>6. \/ /\ (mode.tls /\ corrupt) \/ sess # "Established" \/ overflowed
         /\ UNCHANGED <<sess, overflowed, reasm, pending, decSeq, frames, refused>>
      \/ overflowed' = TRUE /\ sess' = "Closed" /\ UNCHANGED <<reasm, pending, decSeq, frames, refused>>
      \/ /\ sess = "Established" /\ ~(Len(in) > Room)
         /\ IF mode.tls THEN DrainTls(reasm \o in) ELSE DrainPlain(reasm \o in)
    BY <1>1 DEF process_burst
<1> QED
    BY <1>3, <1>4, <1>5, <1>6

-----------------------------------------------------------------------------
(* DpdkStream: sending.                                                    *)

\* The first w segments of the wire stay, and k of message m follow them.
Grown(m, w, k) ==
    /\ wire' \in Seq(Segment) /\ DOMAIN wire = 1..w /\ DOMAIN wire' = 1..(w + k)
    /\ \A i \in 1..w : wire'[i] = wire[i] /\ wire[i].msg # m
    /\ \A i \in (w + 1)..(w + k) : wire'[i].msg = m /\ wire'[i].seg = i - w

\* The segments of a message not sent before.
LEMMA WireGrows ==
    ASSUME DSSending, NEW m \in Messages, told[m] = "none", NEW k \in 0..Segments,
           wire' = wire \o [i \in 1..k |-> [msg |-> m, rec |-> encSeq, seg |-> i]]
    PROVE  \E w \in Nat : Grown(m, w, k)
<1>0. wire \in Seq(Segment) /\ encSeq \in Nat /\ OnWire(m) = {} /\ Segments \in Nat
    BY DSConstants DEF DSSending, DSSendTyped, NotOut
<1>1. PICK w \in Nat : w = Len(wire) /\ DOMAIN wire = 1..w
    BY <1>0, LenProperties
<1>2. PICK new : new = [i \in 1..k |-> [msg |-> m, rec |-> encSeq, seg |-> i]]
    OBVIOUS
<1>3. \A i \in 1..k : [msg |-> m, rec |-> encSeq, seg |-> i] \in Segment
    BY <1>0 DEF Segment
<1>4. new \in Seq(Segment) /\ Len(new) = k /\ \A i \in 1..k : new[i] = [msg |-> m, rec |-> encSeq, seg |-> i]
    BY <1>2, <1>3
<1>5. /\ wire \o new \in Seq(Segment) /\ Len(wire \o new) = w + k
      /\ \A i \in 1..(w + k) : (wire \o new)[i] = IF i <= w THEN wire[i] ELSE new[i - w]
  <2>1. new \in Seq(Segment)
      BY <1>4
  <2>2. /\ wire \o new \in Seq(Segment) /\ Len(wire \o new) = Len(wire) + Len(new)
        /\ \A i \in 1..(Len(wire) + Len(new)) : (wire \o new)[i] = IF i <= Len(wire) THEN wire[i] ELSE new[i - Len(wire)]
      BY <1>0, <2>1, ConcatProperties, Zenon
  <2>3. Len(wire) = w /\ Len(new) = k
      BY <1>1, <1>4
  <2> QED
      BY <2>2, <2>3, Zenon
<1>6. wire' \in Seq(Segment) /\ Len(wire') = w + k /\ \A i \in 1..(w + k) : wire'[i] = IF i <= w THEN wire[i] ELSE new[i - w]
    BY <1>2, <1>5
<1>7. DOMAIN wire' = 1..(w + k)
    BY <1>6, LenProperties
<1>8. ASSUME NEW i \in 1..w PROVE wire'[i] = wire[i] /\ wire[i].msg # m
  <2>1. i \in 1..(w + k) /\ i <= w
      OBVIOUS
  <2> QED
      BY <1>0, <1>1, <1>6, <2>1 DEF OnWire
<1>9. ASSUME NEW i \in (w + 1)..(w + k) PROVE wire'[i].msg = m /\ wire'[i].seg = i - w
  <2>1. i \in 1..(w + k) /\ ~(i <= w) /\ i - w \in 1..k
      OBVIOUS
  <2>2. PICK j \in 1..k : j = i - w
      BY <2>1
  <2>3. wire'[i] = new[j]
      BY <1>6, <2>1, <2>2
  <2>4. new[j] = [msg |-> m, rec |-> encSeq, seg |-> j]
      BY <1>4
  <2>5. new[j].msg = m /\ new[j].seg = j
      BY <2>4
  <2> QED
      BY <2>2, <2>3, <2>5
<1> QED
    BY <1>1, <1>6, <1>7, <1>8, <1>9 DEF Grown

\* A step that sends nothing.
LEMMA DSSendingRests ==
    ASSUME DSSending, UNCHANGED <<mode, corrupt, encSeq, wire, told>>
    PROVE  DSSending'
BY DEF DSSending, DSSendTyped, NotOut, AllWhole, DpdkTlsWireIntact, DaemonReportTrue, OnWire

\* send: the segments that went out, the report and the latch agree.
LEMMA DSSendKeeps ==
    ASSUME DSSending, mode' = mode, NEW m \in Messages, send(m)
    PROVE  DSSending'
<1>0. /\ mode \in DSModes /\ corrupt \in BOOLEAN /\ encSeq \in Nat /\ told \in [Messages -> Said] /\ Segments \in Nat \ {0}
      /\ told[m] = "none"
    BY DSConstants DEF DSSending, DSSendTyped, send
<1>1. PICK n \in 0..Segments, stays \in BOOLEAN, k \in 0..Segments :
          /\ k = (IF Sendable /\ daemon THEN n ELSE 0)
          /\ wire' = wire \o [i \in 1..k |-> [msg |-> m, rec |-> encSeq, seg |-> i]]
          /\ corrupt' = (IF Sendable /\ daemon THEN LatchIfCut(k) ELSE corrupt)
          /\ encSeq' = encSeq + (IF Sendable /\ daemon /\ mode.tls THEN 1 ELSE 0)
          /\ told' = [told EXCEPT ![m] = IF stays \/ ~attached \/ (mode.tls /\ corrupt) THEN "other" ELSE InFlight(k)]
    BY DEF send
<1>2. k \in 0..Segments /\ k \in Nat /\ encSeq' \in Nat
    BY <1>0, <1>1
<1>3. PICK w \in Nat : Grown(m, w, k)
    BY <1>0, <1>1, <1>2, WireGrows
<1>4. /\ told' \in [Messages -> Said] /\ (\A x \in Messages : x # m => told'[x] = told[x])
      /\ told'[m] # "none" /\ told'[m] \in {"other", InFlight(k)}
    BY <1>0, <1>1 DEF InFlight, Said
<1>5. /\ corrupt' \in BOOLEAN
      /\ mode.tls /\ ~corrupt' => ~corrupt /\ (k = Segments \/ k = 0)
      /\ mode.tls /\ k # 0 => ~corrupt
  <2>1. CASE Sendable /\ daemon
    <3>1. corrupt' = (corrupt \/ (mode.tls /\ k < Segments)) /\ ~(mode.tls /\ corrupt)
        BY <1>1, <2>1 DEF LatchIfCut, Sendable
    <3>2. ~(k < Segments) => k = Segments
        BY <1>0, <1>2
    <3>3. corrupt' \in BOOLEAN
        BY <1>0, <3>1
    <3> QED
        BY <3>1, <3>2, <3>3
  <2>2. CASE ~(Sendable /\ daemon)
      BY <1>0, <1>1, <2>2
  <2> QED
      BY <2>1, <2>2
<1>6. ASSUME NEW x \in Messages, x # m PROVE OnWire(x)' = OnWire(x) /\ \A i \in OnWire(x) : wire'[i] = wire[i]
  <2>1. ASSUME NEW i \in OnWire(x)' PROVE i \in OnWire(x)
    <3>1. i \in 1..(w + k) /\ wire'[i].msg = x
        BY <1>3, <2>1 DEF OnWire, Grown
    <3>2. i \notin (w + 1)..(w + k)
        BY <1>3, <1>6, <3>1 DEF Grown
    <3>3. i \in 1..w
        BY <1>2, <3>1, <3>2
    <3> QED
        BY <1>3, <3>1, <3>3 DEF OnWire, Grown
  <2>2. ASSUME NEW i \in OnWire(x) PROVE i \in OnWire(x)' /\ wire'[i] = wire[i]
    <3>1. i \in 1..w /\ wire[i].msg = x
        BY <1>3, <2>2 DEF OnWire, Grown
    <3>2. i \in 1..(w + k)
        BY <1>2, <3>1
    <3> QED
        BY <1>3, <3>1, <3>2 DEF OnWire, Grown
  <2> QED
      BY <2>1, <2>2
<1>7. OnWire(m)' = (w + 1)..(w + k)
  <2>1. ASSUME NEW i \in OnWire(m)' PROVE i \in (w + 1)..(w + k)
    <3>1. i \in 1..(w + k) /\ wire'[i].msg = m
        BY <1>3, <2>1 DEF OnWire, Grown
    <3>2. i \notin 1..w
        BY <1>3, <3>1 DEF Grown
    <3> QED
        BY <1>2, <3>1, <3>2
  <2>2. ASSUME NEW i \in (w + 1)..(w + k) PROVE i \in OnWire(m)'
    <3>1. i \in 1..(w + k)
        BY <1>2
    <3> QED
        BY <1>3, <3>1 DEF OnWire, Grown
  <2> QED
      BY <2>1, <2>2
<1>8. NotOut'
  <2> SUFFICES ASSUME NEW x \in Messages, told'[x] = "none" PROVE OnWire(x)' = {}
      BY DEF NotOut
  <2>1. x # m /\ told[x] = "none"
      BY <1>4
  <2> QED
      BY <1>6, <2>1 DEF DSSending, NotOut
<1>9. AllWhole'
  <2> SUFFICES ASSUME mode.tls, ~corrupt', NEW i \in 1..(w + k)
               PROVE  \E j \in 1..(w + k) : wire'[j].msg = wire'[i].msg /\ wire'[j].seg = Segments
      BY <1>3 DEF AllWhole, Grown
  <2>1. ~corrupt /\ (k = Segments \/ k = 0)
      BY <1>5
  <2>2. CASE i \in 1..w
    <3>1. PICK j \in 1..w : wire[j].msg = wire[i].msg /\ wire[j].seg = Segments
        BY <1>3, <2>1, <2>2 DEF DSSending, AllWhole, Grown
    <3>2. j \in 1..(w + k)
        BY <1>2
    <3> QED
        BY <1>3, <2>2, <3>1, <3>2 DEF Grown
  <2>3. CASE i \notin 1..w
    <3>1. i \in (w + 1)..(w + k) /\ k = Segments
        BY <1>2, <2>1, <2>3
    <3>2. w + k \in (w + 1)..(w + k) /\ w + k \in 1..(w + k) /\ (w + k) - w = Segments
        BY <1>0, <1>2, <3>1
    <3> QED
        BY <1>3, <3>1, <3>2 DEF Grown
  <2> QED
      BY <2>2, <2>3
<1>10. DpdkTlsWireIntact'
  <2> SUFFICES ASSUME mode.tls, NEW i \in 1..(w + k), NEW j \in 1..(w + k), i < j, wire'[i].msg # wire'[j].msg
               PROVE  \E y \in 1..(w + k) : wire'[y].msg = wire'[i].msg /\ wire'[y].seg = Segments
      BY <1>3 DEF DpdkTlsWireIntact, Grown
  <2>1. i \in 1..w
    <3> SUFFICES ASSUME i \notin 1..w PROVE FALSE
        OBVIOUS
    <3>1. i \in (w + 1)..(w + k) /\ j \in (w + 1)..(w + k)
        BY <1>2
    <3> QED
        BY <1>3, <3>1 DEF Grown
  <2>2. \E y \in 1..w : wire[y].msg = wire[i].msg /\ wire[y].seg = Segments
    <3>1. CASE j \in 1..w
        BY <1>3, <2>1, <3>1 DEF DSSending, DpdkTlsWireIntact, Grown
    <3>2. CASE j \notin 1..w
      <4>1. k # 0
          BY <1>2, <3>2
      <4>2. ~corrupt
          BY <1>5, <4>1
      <4> QED
          BY <1>3, <2>1, <4>2 DEF DSSending, AllWhole, Grown
    <3> QED
        BY <3>1, <3>2
  <2>3. PICK y \in 1..w : wire[y].msg = wire[i].msg /\ wire[y].seg = Segments
      BY <2>2
  <2>4. y \in 1..(w + k)
      BY <1>2
  <2> QED
      BY <1>3, <2>1, <2>3, <2>4 DEF Grown
<1>11. DaemonReportTrue'
  <2>1. ASSUME NEW x \in Messages
        PROVE  /\ told'[x] = "Unsent" => OnWire(x)' = {}
               /\ told'[x] = "Sent" => \E i \in OnWire(x)' : wire'[i].seg = Segments
               /\ told'[x] = "Uncertain" => OnWire(x)' # {} /\ \A i \in OnWire(x)' : wire'[i].seg < Segments
    <3>1. CASE x # m
      <4>1. /\ told[x] = "Unsent" => OnWire(x) = {}
            /\ told[x] = "Sent" => \E i \in OnWire(x) : wire[i].seg = Segments
            /\ told[x] = "Uncertain" => OnWire(x) # {} /\ \A i \in OnWire(x) : wire[i].seg < Segments
          BY DEF DSSending, DaemonReportTrue, OnWire
      <4> QED
          BY <1>4, <1>6, <3>1, <4>1
    <3>2. CASE x = m
      <4>1. ASSUME told'[m] = "Unsent" PROVE OnWire(m)' = {}
        <5>1. k = 0
            BY <1>4, <4>1 DEF InFlight
        <5> QED
            BY <1>7, <5>1
      <4>2. ASSUME told'[m] = "Sent" PROVE \E i \in OnWire(m)' : wire'[i].seg = Segments
        <5>1. k = Segments
            BY <1>4, <4>2 DEF InFlight
        <5>2. w + k \in (w + 1)..(w + k) /\ (w + k) - w = Segments
            BY <1>0, <1>2, <5>1
        <5>3. wire'[w + k].seg = Segments
            BY <1>3, <5>2 DEF Grown
        <5> QED
            BY <1>7, <5>2, <5>3
      <4>3. ASSUME told'[m] = "Uncertain" PROVE OnWire(m)' # {} /\ \A i \in OnWire(m)' : wire'[i].seg < Segments
        <5>1. k # 0 /\ k # Segments
            BY <1>4, <4>3 DEF InFlight
        <5>2. w + 1 \in (w + 1)..(w + k) /\ k < Segments
            BY <1>0, <1>2, <5>1
        <5>3. ASSUME NEW i \in (w + 1)..(w + k) PROVE wire'[i].seg < Segments
          <6>1. wire'[i].seg = i - w
              BY <1>3 DEF Grown
          <6>2. i - w < Segments
              BY <1>0, <1>2, <5>2
          <6> QED
              BY <6>1, <6>2
        <5> QED
            BY <1>7, <5>2, <5>3
      <4> QED
          BY <3>2, <4>1, <4>2, <4>3
    <3> QED
        BY <3>1, <3>2
  <2> QED
      BY <2>1 DEF DaemonReportTrue, OnWire
<1>12. DSSendTyped'
    BY <1>2, <1>3, <1>4, <1>5 DEF DSSendTyped, Grown, Segment, Messages
<1> QED
    BY <1>0, <1>8, <1>9, <1>10, <1>11, <1>12 DEF DSSending

-----------------------------------------------------------------------------
(* DpdkStream: the steps.                                                  *)

\* A stream as create leaves it.
LEMMA DSStarts ==
    ASSUME DSInit
    PROVE  DSInv
<1>0. mode \in DSModes /\ RecLen \in Nat \ {0} /\ Start \in Int /\ ReasmCap \in Nat
    BY DSConstants DEF DSInit, DSModes
<1>1. /\ reasm = << >> /\ pending = << >> /\ frames = << >> /\ decSeq = 0 /\ seen = [ct |-> << >>, pt |-> << >>]
      /\ phase = "TcpConnecting" /\ sess = "SynSent" /\ refused = FALSE /\ overflowed = FALSE
      /\ net = [synack |-> FALSE, sent |-> Start, taken |-> Start]
    BY DEF DSInit, Start
<1>2. DSTyped
  <2>1. reasm \in Seq(Cells) /\ pending \in Seq(Cells) /\ Len(reasm) <= ReasmCap /\ decSeq \in Nat /\ frames \in Seq(Int)
      BY <1>0, <1>1
  <2>2. seen \in WsSink
      BY <1>1 DEF WsSink
  <2> QED
      BY <1>0, <1>1, <2>1, <2>2 DEF DSTyped, Handshaking
<1>3. NetTyped
    BY <1>0, <1>1 DEF NetTyped, Net
<1>4. DSStages /\ DSTlsUpgrade /\ Refusing
    BY <1>1 DEF DSStages, DSTlsUpgrade, Refusing, RefusalCloses
<1>5. DSPlainUpgrade /\ DSPlainChain /\ DSTlsChain
  <2>1. \A k : UnitsFrom(k, 0, 0) = << >> /\ UnitsFrom(k, Start, 0) = << >>
      BY NoUnits
  <2>2. Len(reasm) = 0 /\ Len(pending) = 0 /\ seen.pt = << >> /\ Len(seen.pt) = 0 /\ Len(frames) = 0 /\ net.taken = Start
      BY <1>1
  <2> QED
      BY <1>0, <1>1, <2>1, <2>2 DEF DSPlainUpgrade, DSPlainChain, DSTlsChain
<1>6. DpdkFramesInOrder
    BY <1>1 DEF DpdkFramesInOrder
<1>7. corrupt = FALSE /\ encSeq = 0 /\ wire = << >> /\ told = [m \in Messages |-> "none"]
    BY DEF DSInit
<1>8. DSSendTyped
  <2>1. wire \in Seq(Segment)
      BY <1>7
  <2>2. told \in [Messages -> Said]
      BY <1>7 DEF Said
  <2> QED
      BY <1>7, <2>1, <2>2 DEF DSSendTyped
<1>9. NotOut /\ AllWhole /\ DpdkTlsWireIntact
    BY <1>7 DEF NotOut, OnWire, AllWhole, DpdkTlsWireIntact
<1>10. DaemonReportTrue
    BY <1>7 DEF DaemonReportTrue
<1>11. DSAside
    BY DEF DSInit, DSAside
<1> QED
    BY <1>0, <1>2, <1>3, <1>4, <1>5, <1>6, <1>8, <1>9, <1>10, <1>11 DEF DSInv, DSReceiving, DSSending

\* The flags beside the data.
LEMMA DSAsideKeeps ==
    ASSUME DSAside, DSNext
    PROVE  DSAside'
<1>0. attached \in BOOLEAN /\ blocking \in BOOLEAN /\ expired \in BOOLEAN /\ asked \in BOOLEAN /\ daemon \in BOOLEAN
    BY DEF DSAside
<1>1. CASE attached' \in BOOLEAN /\ blocking' \in BOOLEAN /\ expired' \in BOOLEAN /\ asked' \in BOOLEAN /\ daemon' \in BOOLEAN
    BY <1>1 DEF DSAside
<1>2. CASE drive_handshake /\ blocking' \in BOOLEAN
  <2>1. UNCHANGED <<attached, daemon>>
      BY <1>2 DEF drive_handshake
  <2>2. fail_handshake \/ become_established => expired' \in BOOLEAN /\ asked' \in BOOLEAN
      BY <1>0 DEF fail_handshake, become_established
  <2>3. \A b : finalize_ws(b) => expired' \in BOOLEAN /\ asked' \in BOOLEAN
      BY <1>0 DEF finalize_ws, become_established
  <2>4. StepTcp => expired' \in BOOLEAN /\ asked' \in BOOLEAN
      BY <1>0, <2>2 DEF StepTcp, advance_after_tcp
  <2>5. StepTls => expired' \in BOOLEAN /\ asked' \in BOOLEAN
      BY <1>0, <2>2 DEF StepTls, advance_after_tls, EnterLeg
  <2>6. StepWs => expired' \in BOOLEAN /\ asked' \in BOOLEAN
      BY <1>0, <2>2, <2>3 DEF StepWs
  <2>7. expired' \in BOOLEAN /\ asked' \in BOOLEAN
      BY <1>2, <2>2, <2>4, <2>5, <2>6 DEF drive_handshake
  <2> QED
      BY <1>0, <1>1, <1>2, <2>1, <2>7
<1>3. CASE ServerSends \/ SessionEnds \/ Expire \/ DaemonDies \/ connect_blocking \/ BlockingTimeout \/ attach \/ detach
    BY <1>0, <1>1, <1>3 DEF ServerSends, SessionEnds, Expire, DaemonDies, connect_blocking, BlockingTimeout, attach, detach
<1>4. CASE BlockingStep \/ PollHandshake
  <2>1. CASE BlockingStep
    <3>1. blocking' = (phase' \in Handshaking)
        BY <2>1 DEF BlockingStep
    <3>2. blocking' \in BOOLEAN
      <4>1. CASE phase' \in Handshaking
          BY <3>1, <4>1, SMT
      <4>2. CASE ~(phase' \in Handshaking)
          BY <3>1, <4>2, SMT
      <4> QED
          BY <4>1, <4>2
    <3> QED
        BY <1>2, <2>1, <3>2 DEF BlockingStep
  <2>2. CASE PollHandshake
      BY <1>0, <1>2, <2>2 DEF PollHandshake
  <2> QED
      BY <1>4, <2>1, <2>2
<1>5. CASE process_burst \/ close_gracefully \/ drain
    BY <1>0, <1>1, <1>5 DEF process_burst, close_gracefully, drain
<1>6. ASSUME NEW m \in Messages, send(m) PROVE DSAside'
    BY <1>0, <1>1, <1>6 DEF send
<1> QED
    BY <1>3, <1>4, <1>5, <1>6 DEF DSNext

\* Every step keeps the receiving side.
LEMMA DSReceivingKeeps ==
    ASSUME DSReceiving, DSNext
    PROVE  DSReceiving'
<1>0. NetTyped /\ mode \in DSModes /\ overflowed \in BOOLEAN /\ (overflowed => sess = "Closed")
    BY DEF DSReceiving, DSTyped, Refusing
<1>1. CASE /\ UNCHANGED <<mode, phase, reasm, pending, seen, decSeq, frames, refused, overflowed>>
           /\ NetTyped' /\ net'.taken = net.taken /\ sess' \in {sess, "FinWait1", "Closed"} /\ (sess = "Closed" => sess' = "Closed")
    BY <1>0, <1>1, DSRests
<1>2. CASE ServerSends
  <2>1. UNCHANGED <<mode, phase, reasm, pending, seen, decSeq, frames, refused, overflowed, sess>>
      BY <1>2 DEF ServerSends, data
  <2>2. CASE net' = [net EXCEPT !.synack = TRUE]
    <3>1. NetTyped' /\ net'.taken = net.taken
        BY <1>0, <2>2 DEF NetTyped, Net
    <3> QED
        BY <1>1, <2>1, <3>1
  <2>3. CASE net' = [net EXCEPT !.sent = @ + 1]
    <3>1. net' \in Net /\ net'.sent = net.sent + 1 /\ net'.taken = net.taken
        BY <1>0, <2>3 DEF NetTyped, Net
    <3>2. NetTyped'
        BY <1>0, <3>1 DEF NetTyped, Net
    <3> QED
        BY <1>1, <2>1, <3>1, <3>2
  <2> QED
      BY <1>2, <2>2, <2>3 DEF ServerSends
<1>3. CASE SessionEnds \/ Expire \/ DaemonDies \/ connect_blocking \/ BlockingTimeout \/ attach \/ detach \/ close_gracefully
  <2>1. /\ UNCHANGED <<mode, phase, reasm, pending, seen, decSeq, frames, refused, overflowed, net>>
        /\ sess' \in {sess, "FinWait1", "Closed"} /\ (sess = "Closed" => sess' = "Closed")
      BY <1>3 DEF SessionEnds, Expire, DaemonDies, connect_blocking, BlockingTimeout, attach, detach, close_gracefully, data
  <2>2. NetTyped' /\ net'.taken = net.taken
      BY <1>0, <2>1 DEF NetTyped
  <2> QED
      BY <1>1, <2>1, <2>2
<1>4. CASE BlockingStep \/ PollHandshake
    BY <1>4, DSHandshakeKeeps DEF BlockingStep, PollHandshake
<1>5. CASE process_burst
    BY <1>5, BurstKeeps
<1>6. ASSUME NEW m \in Messages, send(m) PROVE DSReceiving'
  <2>1. UNCHANGED <<mode, phase, reasm, pending, seen, decSeq, frames, refused, overflowed, net, sess>>
      BY <1>6 DEF send
  <2>2. NetTyped' /\ net'.taken = net.taken
      BY <1>0, <2>1 DEF NetTyped
  <2> QED
      BY <1>1, <2>1, <2>2
<1>7. CASE drain
  <2>1. /\ UNCHANGED <<mode, phase, reasm, pending, seen, decSeq, frames, refused, overflowed>> /\ sess' = "Closed"
        /\ net' = Took(Len(Arrived)) /\ phase \notin Handshaking
      BY <1>7 DEF drain, data, Handshaking
  <2>2. NetTyped'
      BY <1>0, <2>1, ArrivedUnits
  <2> QED
      BY <1>0, <2>1, <2>2, DSRests
<1> QED
    BY <1>2, <1>3, <1>4, <1>5, <1>6, <1>7 DEF DSNext

\* Every step keeps the sending side.
LEMMA DSSendingKeeps ==
    ASSUME DSSending, DSNext
    PROVE  DSSending'
<1>1. CASE UNCHANGED <<mode, corrupt, encSeq, wire, told>>
    BY <1>1, DSSendingRests
<1>2. ASSUME NEW m \in Messages, send(m) PROVE DSSending'
  <2>1. mode' = mode
      BY <1>2 DEF send
  <2> QED
      BY <1>2, <2>1, DSSendKeeps
<1>3. CASE \/ ServerSends \/ SessionEnds \/ Expire \/ DaemonDies \/ connect_blocking \/ BlockingTimeout \/ attach \/ detach
           \/ process_burst \/ close_gracefully \/ drain
    BY <1>1, <1>3 DEF ServerSends, SessionEnds, Expire, DaemonDies, connect_blocking, BlockingTimeout, attach, detach,
                      process_burst, close_gracefully, drain, data
<1>4. CASE BlockingStep \/ PollHandshake
    BY <1>1, <1>4 DEF BlockingStep, PollHandshake, drive_handshake, data
<1> QED
    BY <1>2, <1>3, <1>4 DEF DSNext

\* A step of something else.
LEMMA DSUnmoved ==
    ASSUME DSInv, UNCHANGED DSvars
    PROVE  DSInv'
<1>0. UNCHANGED <<mode, phase, reasm, pending, seen, decSeq, frames, refused, overflowed, net, sess>>
    BY DEF DSvars
<1>1. NetTyped' /\ net'.taken = net.taken /\ overflowed \in BOOLEAN /\ (overflowed => sess = "Closed")
    BY <1>0 DEF DSInv, DSReceiving, NetTyped, Refusing
<1>2. DSReceiving'
    BY <1>0, <1>1, DSRests DEF DSInv
<1>3. DSSending'
    BY DSSendingRests DEF DSInv, DSvars
<1>4. DSAside'
    BY DEF DSInv, DSAside, DSvars
<1> QED
    BY <1>2, <1>3, <1>4 DEF DSInv

\* The invariant implies what the runs check.
LEMMA DSInvTells ==
    ASSUME DSInv
    PROVE  DpdkStreamTrue
<1>1. DSReceiving /\ DSSending /\ DSAside
    BY DEF DSInv
<1>2. {attached, blocking, expired, asked, corrupt, overflowed, daemon, refused} \subseteq BOOLEAN
    BY <1>1 DEF DSReceiving, Refusing, DSSending, DSSendTyped, DSAside
<1>3. DSTypeOK
    BY <1>1, <1>2 DEF DSTypeOK, DSReceiving, DSTyped, NetTyped, DSSending, DSSendTyped, Said
<1> QED
    BY <1>1, <1>3 DEF DpdkStreamTrue, DSReceiving, DSSending, Refusing

\* The user-space stream: whatever the cuts between packets, records and frames,
\* and whatever was read behind the upgrade's response, on_message is given the
\* server's bytes in order and once, and none after a frame a TLS stream's codec
\* refused; nothing follows a record that was cut short; and what a failed send
\* says of its message agrees with the segments that went out.
THEOREM DpdkStreamAlwaysTrue == DSSpec => []DpdkStreamTrue
<1>1. DSInit => DSInv
    BY DSStarts
<1>2. DSInv /\ [DSNext]_DSvars => DSInv'
    BY DSUnmoved, DSAsideKeeps, DSReceivingKeeps, DSSendingKeeps DEF DSInv
<1>3. DSInv => DpdkStreamTrue
    BY DSInvTells
<1> QED
    BY <1>1, <1>2, <1>3, PTL DEF DSSpec
=============================================================================
