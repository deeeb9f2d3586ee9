----------------------------- MODULE MpRegistry -----------------------------
(***************************************************************************)
(* eph::dpdk::detail::MpRegistryHandle: the slots of the processes that    *)
(* share a port, in memory that all of them map.  A process joins by the   *)
(* slot its topology names (attach_secondary) or by the first free or      *)
(* orphaned one (try_claim_free_slot), and leaves or dies.  The primary    *)
(* made the memory and frees it when nobody else has a slot.               *)
(***************************************************************************)
EXTENDS Integers, FiniteSets

CONSTANTS Procs, primary, NSlots,
          IndexOf(_), MaskOf(_),   \* topo.self_index and lcore_mask of a process
          Serialised               \* joins and releases do not overlap one another

ASSUME MpAssumption == /\ primary \in Procs /\ NSlots \in Nat /\ Serialised \in BOOLEAN
                       /\ \A p \in Procs : IndexOf(p) \in 0..(NSlots - 1)
                       /\ "none" \notin Procs   \* no process has the pid 0

ProcSlots == 0..(NSlots - 1)
NoPid == "none"
Vacant == [claimed |-> FALSE, pid |-> NoPid, lcore_mask |-> {}]

VARIABLES
    procs,      \* hdr->procs
    pc, at,     \* where a process is in its call, and the slot it is at
    zone        \* the memzone: "live" or "freed"

MPvars == <<procs, pc, at, zone>>

Joining == {"pass1", "pass2", "steal", "retake", "claimed", "rescan", "scan", "cas", "publish"}
Leaving == {"clear", "free"}
Dead(p) == pc[p] = "dead"

MPInit ==
    /\ procs = [i \in ProcSlots |-> IF i = IndexOf(primary)
                                   THEN [claimed |-> TRUE, pid |-> primary, lcore_mask |-> MaskOf(primary)]
                                   ELSE Vacant]
    /\ pc = [p \in Procs |-> IF p = primary THEN "in" ELSE "out"]
    /\ at = [p \in Procs |-> IndexOf(p)]
    /\ zone = "live"

Goto(p, l) == pc' = [pc EXCEPT ![p] = l]
Move(p, i) == at' = [at EXCEPT ![p] = i]
SetClaimed(i, b) == procs' = [procs EXCEPT ![i].claimed = b]
MayStart(p) == Serialised => \A q \in Procs \ {p} : pc[q] \notin Joining \cup Leaving

-----------------------------------------------------------------------------
(* attach_secondary. *)

\* The memzone is found and its header, geometry and queues agree with the topology.
attach_secondary(p) ==
    /\ pc[p] = "out" /\ p # primary /\ zone = "live" /\ MayStart(p)
    /\ Goto(p, "scan") /\ Move(p, IndexOf(p)) /\ UNCHANGED <<procs, zone>>

Overlaps(p) == {i \in ProcSlots \ {at[p]} : procs[i].claimed /\ procs[i].lcore_mask \cap MaskOf(p) # {}}

AttachScan(p) ==
    /\ pc[p] = "scan" /\ Goto(p, IF Overlaps(p) = {} THEN "cas" ELSE "out")
    /\ UNCHANGED <<procs, at, zone>>

AttachCas(p) ==
    /\ pc[p] = "cas"
    /\ IF procs[at[p]].claimed THEN Goto(p, "out") /\ UNCHANGED procs
       ELSE Goto(p, "publish") /\ SetClaimed(at[p], TRUE)
    /\ UNCHANGED <<at, zone>>

\* pid and cores, then claimed once more.
AttachPublish(p) ==
    /\ pc[p] = "publish" /\ Goto(p, "in")
    /\ procs' = [procs EXCEPT ![at[p]] = [claimed |-> TRUE, pid |-> p, lcore_mask |-> MaskOf(p)]]
    /\ UNCHANGED <<at, zone>>

-----------------------------------------------------------------------------
(* try_claim_free_slot, then attach_secondary(already_claimed = true). *)

try_claim_free_slot(p) ==
    /\ pc[p] = "out" /\ p # primary /\ zone = "live" /\ MayStart(p)
    /\ Goto(p, "pass1") /\ Move(p, 0) /\ UNCHANGED <<procs, zone>>

NextSlot(p, again, done) ==
    IF at[p] + 1 \in ProcSlots THEN Goto(p, again) /\ Move(p, at[p] + 1)
    ELSE Goto(p, done) /\ Move(p, 0)

Pass1(p) ==
    /\ pc[p] = "pass1"
    /\ IF procs[at[p]].claimed THEN NextSlot(p, "pass1", "pass2") /\ UNCHANGED procs
       ELSE SetClaimed(at[p], TRUE) /\ Goto(p, "claimed") /\ UNCHANGED at
    /\ UNCHANGED zone

\* Mutant: a process that may not be signalled is taken for dead.
EpermIsDead(x) == x = primary

\* kill(pid, 0).
is_pid_alive(x) == x # NoPid /\ ~Dead(x)

Pass2Probe(p) ==
    /\ pc[p] = "pass2"
    /\ IF is_pid_alive(procs[at[p]].pid) THEN NextSlot(p, "pass2", "out")
       ELSE Goto(p, "steal") /\ UNCHANGED at
    /\ UNCHANGED <<procs, zone>>

\* CAS 1 -> 0 and CAS 0 -> 1: the pid is not looked at again.
Steal(p) ==
    /\ pc[p] = "steal"
    /\ IF procs[at[p]].claimed THEN SetClaimed(at[p], FALSE) /\ Goto(p, "retake") /\ UNCHANGED at
       ELSE NextSlot(p, "pass2", "out") /\ UNCHANGED procs
    /\ UNCHANGED zone
Retake(p) ==
    /\ pc[p] = "retake"
    /\ IF procs[at[p]].claimed THEN NextSlot(p, "pass2", "out") /\ UNCHANGED procs
       ELSE SetClaimed(at[p], TRUE) /\ Goto(p, "claimed") /\ UNCHANGED at
    /\ UNCHANGED zone

ClaimPublish(p) ==
    /\ pc[p] = "claimed" /\ Goto(p, "rescan")
    /\ procs' = [procs EXCEPT ![at[p]] = [claimed |-> TRUE, pid |-> p, lcore_mask |-> {}]]
    /\ UNCHANGED <<at, zone>>

\* A conflict gives the slot back, its pid left behind; a slot that is not
\* claimed any more ends the call.
Rescan(p) ==
    /\ pc[p] = "rescan"
    /\ IF Overlaps(p) # {} THEN Goto(p, "out") /\ SetClaimed(at[p], FALSE)
       ELSE Goto(p, IF procs[at[p]].claimed THEN "publish" ELSE "out") /\ UNCHANGED procs
    /\ UNCHANGED <<at, zone>>

-----------------------------------------------------------------------------
(* Leaving. *)

release(p) ==
    /\ pc[p] = "in" /\ MayStart(p) /\ Goto(p, "clear")
    /\ procs' = [procs EXCEPT ![at[p]].pid = NoPid, ![at[p]].lcore_mask = {}]
    /\ UNCHANGED <<at, zone>>
ReleaseStore(p) ==
    /\ pc[p] = "clear" /\ Goto(p, IF p = primary THEN "free" ELSE "out")
    /\ SetClaimed(at[p], FALSE) /\ UNCHANGED <<at, zone>>

\* count_alive_procs() = 0.
NobodyElse == \A i \in ProcSlots : ~procs[i].claimed

PrimaryFrees ==
    /\ pc[primary] = "free" /\ Goto(primary, "out")
    /\ zone' = IF NobodyElse THEN "freed" ELSE zone
    /\ UNCHANGED <<procs, at>>

ProcessDies(p) == pc[p] # "out" /\ ~Dead(p) /\ Goto(p, "dead") /\ UNCHANGED <<procs, at, zone>>

MPNext ==
    \/ PrimaryFrees
    \/ \E p \in Procs :
        \/ attach_secondary(p) \/ AttachScan(p) \/ AttachCas(p) \/ AttachPublish(p)
        \/ try_claim_free_slot(p) \/ Pass1(p) \/ Pass2Probe(p) \/ Steal(p) \/ Retake(p)
        \/ ClaimPublish(p) \/ Rescan(p)
        \/ release(p) \/ ReleaseStore(p) \/ ProcessDies(p)

MPSpec == MPInit /\ [][MPNext]_MPvars

MPTypeOK ==
    /\ procs \in [ProcSlots -> [claimed : BOOLEAN, pid : Procs \cup {NoPid},
                               lcore_mask : {MaskOf(p) : p \in Procs} \cup {{}}]]
    /\ pc \in [Procs -> Joining \cup Leaving \cup {"in", "out", "dead"}] /\ at \in [Procs -> ProcSlots]

\* "Only the owner process writes to its own slot": no two processes hold one.
ExclusiveSlots == \A p, q \in Procs : p # q /\ pc[p] = "in" /\ pc[q] = "in" => at[p] # at[q]

\* No core is declared by two processes that are attached.
LcoresDisjoint == \A p, q \in Procs : p # q /\ pc[p] = "in" /\ pc[q] = "in" => MaskOf(p) \cap MaskOf(q) = {}

\* The memory is not freed under a process that maps it.
ZoneOutlivesPeers == zone = "freed" => \A p \in Procs : pc[p] \in {"out", "dead"}

\* Live processes hold different slots and lcores of a table that lives as long
\* as they do.
RegistryTrue ==
    /\ MPTypeOK /\ ExclusiveSlots /\ LcoresDisjoint /\ ZoneOutlivesPeers
=============================================================================
