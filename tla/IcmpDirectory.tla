--------------------------- MODULE IcmpDirectory ---------------------------
(***************************************************************************)
(* IcmpRegistry and IcmpDirectory: which process has the connection that   *)
(* an ICMP "fragmentation needed" is about.  Each process keeps its own    *)
(* targets under a lock; the directory is a table in shared memory without *)
(* one, whose slots go Free -> InProgress -> Published -> Free.            *)
(*                                                                         *)
(* A step is one access to a slot's claimed, fields or generation.  Locked *)
(* calls of IcmpRegistry are one step.                                     *)
(***************************************************************************)
EXTENDS Integers, FiniteSets

CONSTANTS Targets,                 \* streams that register, again and again
          ProcOf(_), TupleOfTarget(_),
          Sniffer, Sought,         \* the process whose queue has the ICMP, and its tuple
          kIcmpDirectoryMaxEntries, kMaxTargets,
          MaxGen                   \* bound: unregistrations of a slot

IcmpSlots == 0..(kIcmpDirectoryMaxEntries - 1)
ASSUME IcmpAssumption == kIcmpDirectoryMaxEntries \in Nat \ {0} /\ MaxGen \in Nat
\* A connection's addresses and ports are not all zero.
ASSUME TupleAssumption == \A t \in Targets : TupleOfTarget(t) # "zero"

VARIABLES
    dir,        \* hdr_->entries: [claimed, fields, generation]
    targets,    \* the registries' targets, all processes together
    step, mine, cursor,   \* of a target: where its call is, its slot, the slot looked at
    look,       \* the lookup and the message sent for what it found
    unregs      \* history: tuples that were unregistered

ICvars == <<dir, targets, step, mine, cursor, look, unregs>>

NoFields == [tuple |-> "zero", owner |-> "none"]
FieldsOf(t) == [tuple |-> TupleOfTarget(t), owner |-> ProcOf(t)]
NoLook == [at |-> "idle", slot |-> 0, owner |-> "none", gen |-> 0, bumped |-> FALSE, freed |-> FALSE]
Steps == {"idle", "early", "earlyCmp", "claim", "write", "publish", "scan", "scanCmp", "in", "free", "local", "lost"}

ICInit ==
    /\ dir = [i \in IcmpSlots |-> [claimed |-> "Free", fields |-> NoFields, generation |-> 0]]
    /\ targets = {} /\ step = [t \in Targets |-> "idle"]
    /\ mine = [t \in Targets |-> 0] /\ cursor = [t \in Targets |-> 0] /\ look = NoLook
    /\ unregs = {}

To(t, s) == step' = [step EXCEPT ![t] = s]
LookAt(t, i) == cursor' = [cursor EXCEPT ![t] = i]
Onward(t, again, done) ==
    IF cursor[t] + 1 \in IcmpSlots THEN To(t, again) /\ LookAt(t, cursor[t] + 1)
    ELSE To(t, done) /\ LookAt(t, 0)
Same(t, i) == dir[i].fields.tuple = TupleOfTarget(t)
Published(i) == dir[i].claimed = "Published"

-----------------------------------------------------------------------------
(* register_icmp_target: the process's own registry, then the directory.  A *)
(* failure there leaves the target known to its own process only.           *)

register_local(t) ==
    LET own == {u \in targets : ProcOf(u) = ProcOf(t)}
    IN  /\ step[t] = "idle" /\ Cardinality(own) < kMaxTargets
        /\ \A u \in own : TupleOfTarget(u) # TupleOfTarget(t)
        /\ targets' = targets \cup {t} /\ To(t, "early") /\ LookAt(t, 0)
        /\ UNCHANGED <<dir, mine, look, unregs>>

\* Pass 1: somebody has published the tuple already.
EarlyGate(t) ==
    /\ step[t] = "early"
    /\ IF Published(cursor[t]) THEN To(t, "earlyCmp") /\ UNCHANGED cursor ELSE Onward(t, "early", "claim")
    /\ UNCHANGED <<dir, targets, mine, look, unregs>>
EarlyCompare(t) ==
    /\ step[t] = "earlyCmp"
    /\ IF Same(t, cursor[t]) THEN To(t, "lost") /\ LookAt(t, 0) ELSE Onward(t, "early", "claim")
    /\ UNCHANGED <<dir, targets, mine, look, unregs>>

\* Pass 2: the first free slot.
ClaimSlot(t) ==
    LET i == cursor[t]
    IN  /\ step[t] = "claim"
        /\ IF dir[i].claimed = "Free"
           THEN /\ dir' = [dir EXCEPT ![i].claimed = "InProgress"]
                /\ mine' = [mine EXCEPT ![t] = i] /\ To(t, "write") /\ LookAt(t, 0)
           ELSE Onward(t, "claim", "local") /\ UNCHANGED <<dir, mine>>
        /\ UNCHANGED <<targets, look, unregs>>
WriteFields(t) ==
    /\ step[t] = "write" /\ dir' = [dir EXCEPT ![mine[t]].fields = FieldsOf(t)]
    /\ To(t, "publish") /\ UNCHANGED <<targets, mine, cursor, look, unregs>>
PublishSlot(t) ==
    /\ step[t] = "publish" /\ dir' = [dir EXCEPT ![mine[t]].claimed = "Published"]
    /\ To(t, "scan") /\ UNCHANGED <<targets, mine, cursor, look, unregs>>

\* Mutant: whoever sees the other gives way.
EitherYields(t) == TRUE

Yields(t) == cursor[t] < mine[t]

\* The generation is not raised.
GiveSlotBack(t) == dir' = [dir EXCEPT ![mine[t]].claimed = "Free"]

\* The post-claim scan: the lower slot wins.
ScanGate(t) ==
    /\ step[t] = "scan"
    /\ IF cursor[t] # mine[t] /\ Published(cursor[t]) THEN To(t, "scanCmp") /\ UNCHANGED cursor
       ELSE Onward(t, "scan", "in")
    /\ UNCHANGED <<dir, targets, mine, look, unregs>>
ScanCompare(t) ==
    /\ step[t] = "scanCmp"
    /\ IF Same(t, cursor[t]) /\ Yields(t) THEN GiveSlotBack(t) /\ To(t, "lost") /\ LookAt(t, 0)
       ELSE Onward(t, "scan", "in") /\ UNCHANGED dir
    /\ UNCHANGED <<targets, mine, look, unregs>>

-----------------------------------------------------------------------------
(* ~IcmpTargetHandle: the directory's slot first, then the registry's.      *)

RaiseGeneration(i) == dir' = [dir EXCEPT ![i].generation = @ + 1]

OfLook(i) == look.at = "sent" /\ look.slot = i

unregister(t) ==
    /\ step[t] = "in" /\ dir[mine[t]].generation < MaxGen
    /\ RaiseGeneration(mine[t]) /\ To(t, "free") /\ unregs' = unregs \cup {TupleOfTarget(t)}
    /\ look' = IF OfLook(mine[t]) THEN [look EXCEPT !.bumped = TRUE] ELSE look
    /\ UNCHANGED <<targets, mine, cursor>>
FreeSlot(t) ==
    /\ step[t] = "free" /\ dir' = [dir EXCEPT ![mine[t]].claimed = "Free"]
    /\ To(t, "local")
    /\ look' = IF OfLook(mine[t]) THEN [look EXCEPT !.freed = TRUE] ELSE look
    /\ UNCHANGED <<targets, mine, cursor, unregs>>
unregister_local(t) ==
    /\ step[t] \in {"local", "lost"} /\ targets' = targets \ {t} /\ To(t, "idle")
    /\ UNCHANGED <<dir, mine, cursor, look, unregs>>

-----------------------------------------------------------------------------
(* The Sniffer's poller has an ICMP for the tuple Sought: its own registry  *)
(* first, then the directory, then a message to the other processes.        *)

LocalHit(p) == {t \in targets : ProcOf(t) = p /\ TupleOfTarget(t) = Sought}

lookup ==
    /\ look.at = "idle" /\ LocalHit(Sniffer) = {} /\ look' = [NoLook EXCEPT !.at = "gate"]
    /\ UNCHANGED <<dir, targets, step, mine, cursor, unregs>>
LookOnward == look' = IF look.slot + 1 \in IcmpSlots THEN [look EXCEPT !.at = "gate", !.slot = @ + 1]
                                                    ELSE NoLook
LookGate ==
    /\ look.at = "gate"
    /\ IF Published(look.slot) THEN look' = [look EXCEPT !.at = "compare"] ELSE LookOnward
    /\ UNCHANGED <<dir, targets, step, mine, cursor, unregs>>
LookCompare ==
    /\ look.at = "compare"
    /\ IF dir[look.slot].fields.tuple = Sought
       THEN look' = [look EXCEPT !.at = "load", !.owner = dir[look.slot].fields.owner] ELSE LookOnward
    /\ UNCHANGED <<dir, targets, step, mine, cursor, unregs>>

\* Its own slot is dropped; another's is forwarded.
Forward ==
    /\ look.at = "load"
    /\ look' = IF look.owner = Sniffer THEN NoLook
               ELSE [look EXCEPT !.at = "sent", !.gen = dir[look.slot].generation]
    /\ UNCHANGED <<dir, targets, step, mine, cursor, unregs>>

is_slot_alive(i, g) == Published(i) /\ dir[i].generation = g

\* on_icmp_dispatch_thunk; the message may also be lost.
OnIcmpDispatch ==
    /\ look.at = "sent"
    /\ look' = IF is_slot_alive(look.slot, look.gen) THEN [look EXCEPT !.at = "given"] ELSE NoLook
    /\ UNCHANGED <<dir, targets, step, mine, cursor, unregs>>
LookEnds ==
    /\ look.at \in {"sent", "given"} /\ look' = NoLook /\ UNCHANGED <<dir, targets, step, mine, cursor, unregs>>

-----------------------------------------------------------------------------
ICNext ==
    \/ \E t \in Targets :
        \/ register_local(t) \/ EarlyGate(t) \/ EarlyCompare(t) \/ ClaimSlot(t) \/ WriteFields(t)
        \/ PublishSlot(t) \/ ScanGate(t) \/ ScanCompare(t)
        \/ unregister(t) \/ FreeSlot(t) \/ unregister_local(t)
    \/ lookup \/ LookGate \/ LookCompare \/ Forward \/ OnIcmpDispatch \/ LookEnds

ICSpec == ICInit /\ [][ICNext]_ICvars

ICTypeOK ==
    /\ dir \in [IcmpSlots -> [claimed : {"Free", "InProgress", "Published"},
                              fields : {FieldsOf(t) : t \in Targets} \cup {NoFields}, generation : 0..MaxGen]]
    /\ targets \subseteq Targets /\ step \in [Targets -> Steps]
    /\ mine \in [Targets -> IcmpSlots] /\ cursor \in [Targets -> IcmpSlots]

HoldsSlot(t) == step[t] \in {"write", "publish", "scan", "scanCmp", "in", "free"}

\* Every slot that is not free has exactly one target that will free it: none
\* leaks and none is shared, whichever way the calls interleave.
SlotsConserved ==
    \A i \in IcmpSlots :
        Cardinality({t \in Targets : HoldsSlot(t) /\ mine[t] = i}) = IF dir[i].claimed = "Free" THEN 0 ELSE 1

\* Two that register one tuple at once never both give way: while nobody has
\* unregistered it, a tuple that some target was refused is held by another.
LoserLeavesWinner ==
    \A t \in Targets : step[t] = "lost" /\ TupleOfTarget(t) \notin unregs =>
        \E u \in Targets : HoldsSlot(u) /\ TupleOfTarget(u) = TupleOfTarget(t)

\* A message whose slot was unregistered after the lookup had its generation is
\* dropped, also when the slot was taken again since.
StaleDropped == look.at = "given" => ~look.bumped

\* Racing registrations end with one of them in place and no slot lost, and no
\* message reaches the slot's next owner.
DirectoryTrue ==
    /\ ICTypeOK /\ SlotsConserved /\ LoserLeavesWinner /\ StaleDropped
=============================================================================
