----------------------------- MODULE DpdkPoller -----------------------------
(***************************************************************************)
(* eph::net::dpdk::DpdkPoller: the array of registered objects, the open-  *)
(* addressed route table that leads a packet's five-tuple to its entry,    *)
(* and a poll, whose callbacks add, remove and destroy objects.            *)
(*                                                                         *)
(* One local and one remote address, one remote port: a tuple is the local *)
(* port and the protocol.  The application adds an object to one poller.   *)
(***************************************************************************)
EXTENDS Integers, Sequences, FiniteSets, SequencesExt

CONSTANTS Objects, Ports, Protos, ProtoOf(_), max_connections, kRouteTableSize,
          HashOf(_, _),     \* hash_tuple masked to the table
          kBurstSize

\* The table is never full: the code has twice as many slots as connections.
ASSUME PollerAssumption ==
    /\ kRouteTableSize \in Nat \ {0} /\ max_connections \in 1..kRouteTableSize
    /\ 0 \notin Ports /\ \A o \in Objects : ProtoOf(o) \in Protos
    /\ \A p \in Ports, q \in Protos : HashOf(p, q) \in Nat

Tuples == Ports \X Protos
Slots == 0..(kRouteTableSize - 1)
kEmpty == [state |-> "Empty"]
kTombstone == [state |-> "Tombstone"]

VARIABLES
    portOf,      \* the port of a living object; 0 for one that is not there
    entries,     \* entries_: objects, oldest first
    route,       \* route_table_
    burst,       \* packets of this poll not dispatched yet
    stage,       \* "idle", "burst", "tick"
    cursor,      \* the index the tick loop visits next
    stayed,      \* history: registered since this poll began
    ticked       \* history: given their tick by this poll

DPvars == <<portOf, entries, route, burst, stage, cursor, stayed, ticked>>
inPoll == <<burst, stage, cursor, ticked>>

FiveTuple(o) == <<portOf[o], ProtoOf(o)>>
kInvalidSlot == 0

DPInit ==
    /\ portOf = [o \in Objects |-> 0] /\ entries = << >> /\ route = [s \in Slots |-> kEmpty]
    /\ burst = << >> /\ stage = "idle" /\ cursor = 0 /\ stayed = {} /\ ticked = {}

-----------------------------------------------------------------------------
(* The route table. *)

Probe(t, k) == (HashOf(t[1], t[2]) + k) % kRouteTableSize
Holds(s, t) == route[s].state = "Occupied" /\ route[s].tuple = t

\* The steps of the probe sequence at which S first holds.
FirstStep(S(_)) == {k \in Slots : S(k) /\ \A j \in 0..(k - 1) : ~S(j)}

\* Mutant: the search ends at a tombstone.
TombstoneEnds(t) ==
    LET stop == FirstStep(LAMBDA k : route[Probe(t, k)].state # "Occupied" \/ Holds(Probe(t, k), t))
    IN  {Probe(t, k) : k \in {j \in stop : Holds(Probe(t, j), t)}}

\* The slot that holds t: the search passes tombstones and ends at an empty slot.
SlotsOf(t) ==
    LET stop == FirstStep(LAMBDA k : route[Probe(t, k)].state = "Empty" \/ Holds(Probe(t, k), t))
    IN  {Probe(t, k) : k \in {j \in stop : Holds(Probe(t, j), t)}}

find_route_slot(t) == IF SlotsOf(t) = {} THEN kInvalidSlot ELSE route[CHOOSE s \in SlotsOf(t) : TRUE].entry

insert_route(r, t, i) ==
    LET free == FirstStep(LAMBDA k : r[Probe(t, k)].state # "Occupied")
    IN  [s \in Slots |-> IF s \in {Probe(t, k) : k \in free}
                         THEN [state |-> "Occupied", tuple |-> t, entry |-> i] ELSE r[s]]

tombstone_route(t) == [s \in Slots |-> IF s \in SlotsOf(t) THEN kTombstone ELSE route[s]]

shift_down_route_indices_above(r, i) ==
    [s \in Slots |-> IF r[s].state = "Occupied" /\ r[s].entry > i THEN [r[s] EXCEPT !.entry = @ - 1]
                     ELSE r[s]]

-----------------------------------------------------------------------------
(* Objects and their registration. *)

InUse(p) == \E i \in DOMAIN entries : FiveTuple(entries[i])[1] = p

\* Any free port: the preferred one, or the first after a random start.
pick_src_port(o) ==
    /\ portOf[o] = 0
    /\ \E p \in Ports : ~InUse(p) /\ portOf' = [portOf EXCEPT ![o] = p]
    /\ UNCHANGED <<entries, route, stayed>>

add(o) ==
    /\ portOf[o] # 0 /\ Len(entries) < max_connections
    /\ o \notin ToSet(entries) /\ find_route_slot(FiveTuple(o)) = kInvalidSlot
    /\ entries' = Append(entries, o)
    /\ route' = insert_route(route, FiveTuple(o), Len(entries) + 1)
    /\ UNCHANGED <<portOf, stayed>>

Unregister(o) ==
    \E i \in DOMAIN entries :
        /\ entries[i] = o
        /\ entries' = RemoveAt(entries, i)
        /\ route' = shift_down_route_indices_above(tombstone_route(FiveTuple(o)), i)
        /\ stayed' = stayed \ {o}

remove(o) == Unregister(o) /\ UNCHANGED portOf

\* An attached object's destructor removes it first.
LeaveFirst(o) == IF o \in ToSet(entries) THEN Unregister(o) ELSE UNCHANGED <<entries, route, stayed>>

destroy(o) == portOf[o] # 0 /\ LeaveFirst(o) /\ portOf' = [portOf EXCEPT ![o] = 0]

AppStep(o) == pick_src_port(o) \/ add(o) \/ remove(o) \/ destroy(o)
Quiescent == UNCHANGED <<portOf, entries, route, stayed>>

-----------------------------------------------------------------------------
(* A poll.  A callback may do anything the application may, once. *)

Application == stage = "idle" /\ (\E o \in Objects : AppStep(o)) /\ UNCHANGED inPoll

rx_burst ==
    /\ stage = "idle" /\ stage' = "burst"
    /\ \E n \in 0..kBurstSize : \E b \in [1..n -> Tuples] : burst' = b
    /\ stayed' = ToSet(entries) /\ ticked' = {}
    /\ UNCHANGED <<portOf, entries, route, cursor>>

Callback == (\E o \in Objects : AppStep(o)) \/ Quiescent

Dispatch ==
    /\ stage = "burst" /\ burst # << >> /\ burst' = Tail(burst)
    /\ IF find_route_slot(Head(burst)) = kInvalidSlot THEN Quiescent ELSE Callback
    /\ UNCHANGED <<stage, cursor, ticked>>

\* Backwards, so that a removal moves no object past the loop.
TickFrom == Len(entries)

BurstEnds ==
    /\ stage = "burst" /\ burst = << >> /\ stage' = "tick" /\ cursor' = TickFrom
    /\ Quiescent /\ UNCHANGED <<burst, ticked>>

\* An index left behind the end by removals has a cleared entry.
Tick ==
    /\ stage = "tick" /\ cursor > 0 /\ cursor' = cursor - 1
    /\ IF cursor \in DOMAIN entries
       THEN ticked' = ticked \cup {entries[cursor]} /\ Callback
       ELSE UNCHANGED ticked /\ Quiescent
    /\ UNCHANGED <<burst, stage>>

\* To the caller, or to the next turn of poll(timeout), which polls until one
\* of its polls dispatched a packet or the time is over.
PollReturns ==
    /\ stage = "tick" /\ cursor = 0 /\ stage' = "idle" /\ Quiescent
    /\ UNCHANGED <<burst, cursor, ticked>>

DPNext == Application \/ rx_burst \/ Dispatch \/ BurstEnds \/ Tick \/ PollReturns

DPSpec == DPInit /\ [][DPNext]_DPvars

DPTypeOK ==
    /\ portOf \in [Objects -> Ports \cup {0}] /\ entries \in Seq(Objects)
    /\ Len(entries) <= max_connections /\ stage \in {"idle", "burst", "tick"} /\ cursor \in 0..max_connections

\* Whatever was added and removed before, a packet's tuple leads to the entry
\* of the object that owns it, and a tuple nobody owns leads nowhere.
RoutesReachEntries ==
    \A t \in Tuples :
        LET owners == {i \in DOMAIN entries : FiveTuple(entries[i]) = t}
        IN  IF owners = {} THEN find_route_slot(t) = kInvalidSlot ELSE owners = {find_route_slot(t)}

\* No entry is left for an object that is gone.
EntriesLive == \A i \in DOMAIN entries : portOf[entries[i]] # 0

\* A poll ticks every object that stays registered from its start to its end,
\* whatever the callbacks remove around it.
StayedAreTicked == stage = "tick" /\ cursor = 0 => stayed \subseteq ticked

\* A packet reaches the entry its tuple belongs to, entries are alive, and a
\* poll ticks all that stayed, whatever callbacks removed.
DispatchReaches ==
    /\ DPTypeOK /\ RoutesReachEntries /\ EntriesLive /\ StayedAreTicked
=============================================================================
