---------------------------- MODULE TablesProofs ----------------------------
(***************************************************************************)
(* The tables that the processes of one NIC share -- the ICMP directory,   *)
(* the registry of processes, the flow rules -- keep what they promise for *)
(* any number of processes, slots, targets and connections.                *)
(***************************************************************************)
EXTENDS MpRegistry, IcmpDirectory, FlowAttach, FiniteSetTheorems, TLAPS

-----------------------------------------------------------------------------
(* IcmpDirectory.                                                          *)

\* The slot of a target whose fields are written.
Written(t) == step[t] \in {"publish", "scan", "scanCmp", "in", "free"}

\* A slot that is not free is held by one target, and what it shows follows
\* from where that target is in its call.
DirectoryHeld ==
    /\ \A t, u \in Targets : HoldsSlot(t) /\ HoldsSlot(u) /\ mine[t] = mine[u] => t = u
    /\ \A t \in Targets : HoldsSlot(t) => dir[mine[t]].claimed # "Free"
    /\ \A t \in Targets : Written(t) => dir[mine[t]].fields = FieldsOf(t)
    /\ \A t \in Targets : step[t] = "free" => TupleOfTarget(t) \in unregs
    /\ \A i \in IcmpSlots : dir[i].claimed # "Free" => \E t \in Targets : HoldsSlot(t) /\ mine[t] = i

\* Fields outlive their slot.  Unless the tuple was unregistered, they were
\* given up to a target that holds the tuple in a lower slot.
FieldsNameHolder ==
    \A i \in IcmpSlots, t \in Targets :
        dir[i].fields.tuple = TupleOfTarget(t) /\ TupleOfTarget(t) \notin unregs =>
            \E u \in Targets : Written(u) /\ TupleOfTarget(u) = TupleOfTarget(t) /\ mine[u] <= i

LoserNamesHolder ==
    \A t \in Targets : step[t] = "lost" /\ TupleOfTarget(t) \notin unregs =>
        \E u \in Targets : Written(u) /\ TupleOfTarget(u) = TupleOfTarget(t)

\* The generation of the message sent is behind its slot's once that was
\* unregistered.
LookBehind ==
    /\ look \in [at : {"idle", "gate", "compare", "load", "sent", "given"}, slot : IcmpSlots,
                 owner : {ProcOf(t) : t \in Targets} \cup {"none"}, gen : 0..MaxGen,
                 bumped : BOOLEAN, freed : BOOLEAN]
    /\ look.at # "sent" => look.bumped = FALSE
    /\ look.at = "sent" =>
          /\ look.gen <= dir[look.slot].generation
          /\ look.bumped = TRUE => look.gen < dir[look.slot].generation

ICInv == ICTypeOK /\ DirectoryHeld /\ FieldsNameHolder /\ LoserNamesHolder /\ LookBehind

LEMMA ICInitInv == ICInit => ICInv
<1> SUFFICES ASSUME ICInit PROVE ICInv
    OBVIOUS
<1> USE IcmpAssumption DEF ICInit, IcmpSlots
<1>1. ICTypeOK
    BY DEF ICTypeOK, Steps
<1>2. DirectoryHeld
    BY DEF DirectoryHeld, HoldsSlot, Written
<1>3. FieldsNameHolder
    BY TupleAssumption DEF FieldsNameHolder, NoFields
<1>4. LoserNamesHolder /\ LookBehind
    BY DEF LoserNamesHolder, LookBehind, NoLook
<1> QED
    BY <1>1, <1>2, <1>3, <1>4 DEF ICInv

\* A step of a target that leaves the directory alone and neither takes,
\* writes, leaves nor loses a slot.
LEMMA ICQuiet ==
    ASSUME ICInv, ICTypeOK', UNCHANGED <<dir, mine, look, unregs>>,
           NEW t \in Targets, NEW s, step' = [step EXCEPT ![t] = s],
           s \notin {"lost", "free"},
           HoldsSlot(t)' <=> HoldsSlot(t), Written(t)' <=> Written(t)
    PROVE  ICInv'
<1>1. \A u \in Targets : u # t => step'[u] = step[u]
    BY DEF ICInv, ICTypeOK
<1>2. \A u \in Targets : (HoldsSlot(u)' <=> HoldsSlot(u)) /\ (Written(u)' <=> Written(u))
    BY <1>1 DEF HoldsSlot, Written
<1>3. \A u \in Targets : (step'[u] = "lost" => step[u] = "lost") /\ (step'[u] = "free" => step[u] = "free")
    BY <1>1 DEF ICInv, ICTypeOK
<1>4. DirectoryHeld'
    BY <1>2, <1>3 DEF ICInv, DirectoryHeld, FieldsOf
<1>5. FieldsNameHolder'
    BY <1>2 DEF ICInv, FieldsNameHolder
<1>6. LoserNamesHolder'
    BY <1>2, <1>3 DEF ICInv, LoserNamesHolder
<1>7. LookBehind'
    BY DEF ICInv, LookBehind
<1> QED
    BY <1>4, <1>5, <1>6, <1>7 DEF ICInv

\* register_local, the scans and their ends.
LEMMA WalkKeeps ==
    ASSUME ICInv, NEW t \in Targets,
           \/ register_local(t) \/ EarlyGate(t) \/ ScanGate(t) \/ unregister_local(t)
           \/ EarlyCompare(t) /\ ~Same(t, cursor[t])
           \/ ClaimSlot(t) /\ dir[cursor[t]].claimed # "Free"
           \/ ScanCompare(t) /\ ~(Same(t, cursor[t]) /\ Yields(t))
    PROVE  ICInv'
<1>1. ICTypeOK /\ 0 \in IcmpSlots
    BY IcmpAssumption DEF ICInv, IcmpSlots
<1>2. ASSUME NEW again \in Steps, NEW done \in Steps, Onward(t, again, done)
      PROVE  /\ step' = [step EXCEPT ![t] = again] \/ step' = [step EXCEPT ![t] = done]
             /\ cursor' \in [Targets -> IcmpSlots]
    BY <1>1, <1>2 DEF Onward, To, LookAt, ICTypeOK
<1>3. PICK s \in Steps :
          /\ step' = [step EXCEPT ![t] = s]
          /\ \/ s \in {"scan", "scanCmp", "in"} /\ step[t] \in {"scan", "scanCmp"}
             \/ s \in {"idle", "early", "earlyCmp", "claim", "local"}
                /\ step[t] \in {"idle", "early", "earlyCmp", "claim", "local", "lost"}
          /\ cursor' \in [Targets -> IcmpSlots]
          /\ targets' \subseteq Targets
          /\ UNCHANGED <<dir, mine, look, unregs>>
  <2>1. CASE register_local(t)
      BY <1>1, <2>1 DEF register_local, To, LookAt, ICTypeOK, Steps
  <2>2. CASE EarlyGate(t)
      BY <1>1, <1>2, <2>2 DEF EarlyGate, To, ICTypeOK, Steps
  <2>3. CASE ScanGate(t)
      BY <1>1, <1>2, <2>3 DEF ScanGate, To, ICTypeOK, Steps
  <2>4. CASE unregister_local(t)
      BY <1>1, <2>4 DEF unregister_local, To, ICTypeOK, Steps
  <2>5. CASE EarlyCompare(t) /\ ~Same(t, cursor[t])
      BY <1>1, <1>2, <2>5 DEF EarlyCompare, ICTypeOK, Steps
  <2>6. CASE ClaimSlot(t) /\ dir[cursor[t]].claimed # "Free"
      BY <1>1, <1>2, <2>6 DEF ClaimSlot, ICTypeOK, Steps
  <2>7. CASE ScanCompare(t) /\ ~(Same(t, cursor[t]) /\ Yields(t))
      BY <1>1, <1>2, <2>7 DEF ScanCompare, ICTypeOK, Steps
  <2> QED
      BY <2>1, <2>2, <2>3, <2>4, <2>5, <2>6, <2>7
<1>4. ICTypeOK'
    BY <1>1, <1>3 DEF ICTypeOK
<1>5. (HoldsSlot(t)' <=> HoldsSlot(t)) /\ (Written(t)' <=> Written(t))
    BY <1>1, <1>3 DEF ICTypeOK, HoldsSlot, Written
<1> QED
    BY <1>3, <1>4, <1>5, ICQuiet

LEMMA EarlyCompareKeeps ==
    ASSUME ICInv, NEW t \in Targets, EarlyCompare(t), Same(t, cursor[t])
    PROVE  ICInv'
<1>1. /\ step[t] = "earlyCmp" /\ step' = [step EXCEPT ![t] = "lost"]
      /\ cursor' = [cursor EXCEPT ![t] = 0] /\ UNCHANGED <<dir, targets, mine, look, unregs>>
      /\ dir[cursor[t]].fields.tuple = TupleOfTarget(t)
    BY DEF EarlyCompare, To, LookAt, Same
<1>2. ICTypeOK /\ DirectoryHeld /\ FieldsNameHolder /\ LoserNamesHolder /\ LookBehind
    BY DEF ICInv
<1>3. 0 \in IcmpSlots
    BY IcmpAssumption DEF IcmpSlots
<1>4. ICTypeOK'
    BY <1>1, <1>2, <1>3 DEF ICTypeOK, Steps
<1>5. \A u \in Targets : (HoldsSlot(u)' <=> HoldsSlot(u)) /\ (Written(u)' <=> Written(u))
    BY <1>1, <1>2 DEF ICTypeOK, HoldsSlot, Written
<1>6. DirectoryHeld' /\ FieldsNameHolder'
    BY <1>1, <1>2, <1>5 DEF ICTypeOK, DirectoryHeld, FieldsOf, FieldsNameHolder
<1>7. LoserNamesHolder'
  <2> SUFFICES ASSUME NEW v \in Targets, step'[v] = "lost", TupleOfTarget(v) \notin unregs
               PROVE  \E u \in Targets : Written(u)' /\ TupleOfTarget(u) = TupleOfTarget(v)
      BY <1>1 DEF LoserNamesHolder
  <2>1. CASE v = t
    <3>1. cursor[t] \in IcmpSlots
        BY <1>2 DEF ICTypeOK
    <3> QED
        BY <1>1, <1>2, <1>5, <2>1, <3>1 DEF FieldsNameHolder
  <2>2. CASE v # t
      BY <1>1, <1>2, <1>5, <2>2 DEF ICTypeOK, LoserNamesHolder
  <2> QED
      BY <2>1, <2>2
<1>8. LookBehind'
    BY <1>1, <1>2 DEF LookBehind
<1> QED
    BY <1>4, <1>6, <1>7, <1>8 DEF ICInv

LEMMA ClaimSlotKeeps ==
    ASSUME ICInv, NEW t \in Targets, ClaimSlot(t), dir[cursor[t]].claimed = "Free"
    PROVE  ICInv'
<1>1. PICK i \in IcmpSlots :
          /\ dir[i].claimed = "Free" /\ dir' = [dir EXCEPT ![i].claimed = "InProgress"]
          /\ mine' = [mine EXCEPT ![t] = i] /\ step[t] = "claim" /\ step' = [step EXCEPT ![t] = "write"]
          /\ cursor' = [cursor EXCEPT ![t] = 0] /\ UNCHANGED <<targets, look, unregs>>
    BY DEF ClaimSlot, To, LookAt, ICInv, ICTypeOK
<1>2. ICTypeOK /\ DirectoryHeld /\ FieldsNameHolder /\ LoserNamesHolder /\ LookBehind
    BY DEF ICInv
<1>3. 0 \in IcmpSlots
    BY IcmpAssumption DEF IcmpSlots
<1>4. ICTypeOK'
    BY <1>1, <1>2, <1>3 DEF ICTypeOK, Steps
<1>5. /\ \A j \in IcmpSlots : /\ dir'[j].fields = dir[j].fields /\ dir'[j].generation = dir[j].generation
                              /\ dir'[j].claimed = IF j = i THEN "InProgress" ELSE dir[j].claimed
      /\ \A u \in Targets : u # t => step'[u] = step[u] /\ mine'[u] = mine[u]
      /\ step'[t] = "write" /\ mine'[t] = i
    BY <1>1, <1>2 DEF ICTypeOK
<1>6. /\ \A u \in Targets : HoldsSlot(u)' <=> HoldsSlot(u) \/ u = t
      /\ \A u \in Targets : (Written(u)' <=> Written(u)) /\ (Written(u) => u # t)
      /\ ~HoldsSlot(t) /\ \A u \in Targets : HoldsSlot(u) => mine[u] # i
      /\ mine \in [Targets -> IcmpSlots]
    BY <1>1, <1>2, <1>5 DEF ICTypeOK, HoldsSlot, Written, DirectoryHeld
<1>7. DirectoryHeld'
    BY <1>1, <1>2, <1>5, <1>6 DEF DirectoryHeld, FieldsOf
<1>8. FieldsNameHolder'
    BY <1>1, <1>2, <1>5, <1>6 DEF FieldsNameHolder
<1>9. LoserNamesHolder'
    BY <1>1, <1>2, <1>5, <1>6 DEF LoserNamesHolder
<1>10. LookBehind'
    BY <1>1, <1>2, <1>5 DEF LookBehind
<1> QED
    BY <1>4, <1>7, <1>8, <1>9, <1>10 DEF ICInv

LEMMA WriteFieldsKeeps ==
    ASSUME ICInv, NEW t \in Targets, WriteFields(t)
    PROVE  ICInv'
<1>1. PICK i \in IcmpSlots :
          /\ i = mine[t] /\ dir' = [dir EXCEPT ![i].fields = FieldsOf(t)]
          /\ step[t] = "write" /\ step' = [step EXCEPT ![t] = "publish"]
          /\ UNCHANGED <<targets, mine, cursor, look, unregs>>
    BY DEF WriteFields, To, ICInv, ICTypeOK
<1>2. ICTypeOK /\ DirectoryHeld /\ FieldsNameHolder /\ LoserNamesHolder /\ LookBehind
    BY DEF ICInv
<1>3. ICTypeOK'
    BY <1>1, <1>2 DEF ICTypeOK, Steps
<1>4. /\ \A j \in IcmpSlots : /\ dir'[j].claimed = dir[j].claimed /\ dir'[j].generation = dir[j].generation
                              /\ dir'[j].fields = IF j = i THEN FieldsOf(t) ELSE dir[j].fields
      /\ \A u \in Targets : u # t => step'[u] = step[u]
      /\ step'[t] = "publish"
    BY <1>1, <1>2 DEF ICTypeOK
<1>5. /\ \A u \in Targets : HoldsSlot(u)' <=> HoldsSlot(u)
      /\ \A u \in Targets : Written(u)' <=> Written(u) \/ u = t
      /\ \A u \in Targets : Written(u) => HoldsSlot(u)
      /\ HoldsSlot(t) /\ \A u \in Targets : mine[u] \in IcmpSlots
    BY <1>1, <1>2, <1>4 DEF ICTypeOK, HoldsSlot, Written
<1>6. DirectoryHeld'
    BY <1>1, <1>2, <1>4, <1>5 DEF DirectoryHeld, FieldsOf
<1>7. FieldsNameHolder'
  <2> SUFFICES ASSUME NEW j \in IcmpSlots, NEW v \in Targets,
                      dir'[j].fields.tuple = TupleOfTarget(v), TupleOfTarget(v) \notin unregs
               PROVE  \E u \in Targets : Written(u)' /\ TupleOfTarget(u) = TupleOfTarget(v) /\ mine[u] <= j
      BY <1>1 DEF FieldsNameHolder
  <2>1. CASE j = i
    <3>1. TupleOfTarget(t) = TupleOfTarget(v) /\ mine[t] <= j
        BY <1>1, <1>4, <2>1 DEF FieldsOf, IcmpSlots
    <3> QED
        BY <1>5, <3>1
  <2>2. CASE j # i
      BY <1>2, <1>4, <1>5, <2>2 DEF FieldsNameHolder
  <2> QED
      BY <2>1, <2>2
<1>8. LoserNamesHolder'
    BY <1>1, <1>2, <1>4, <1>5 DEF LoserNamesHolder
<1>9. LookBehind'
    BY <1>1, <1>2, <1>4 DEF LookBehind
<1> QED
    BY <1>3, <1>6, <1>7, <1>8, <1>9 DEF ICInv

LEMMA PublishSlotKeeps ==
    ASSUME ICInv, NEW t \in Targets, PublishSlot(t)
    PROVE  ICInv'
<1>1. PICK i \in IcmpSlots :
          /\ i = mine[t] /\ dir' = [dir EXCEPT ![i].claimed = "Published"]
          /\ step[t] = "publish" /\ step' = [step EXCEPT ![t] = "scan"]
          /\ UNCHANGED <<targets, mine, cursor, look, unregs>>
    BY DEF PublishSlot, To, ICInv, ICTypeOK
<1>2. ICTypeOK /\ DirectoryHeld /\ FieldsNameHolder /\ LoserNamesHolder /\ LookBehind
    BY DEF ICInv
<1>3. ICTypeOK'
    BY <1>1, <1>2 DEF ICTypeOK, Steps
<1>4. /\ \A j \in IcmpSlots : /\ dir'[j].fields = dir[j].fields /\ dir'[j].generation = dir[j].generation
                              /\ dir'[j].claimed = IF j = i THEN "Published" ELSE dir[j].claimed
      /\ \A u \in Targets : u # t => step'[u] = step[u]
      /\ step'[t] = "scan"
    BY <1>1, <1>2 DEF ICTypeOK
<1>5. /\ \A u \in Targets : (HoldsSlot(u)' <=> HoldsSlot(u)) /\ (Written(u)' <=> Written(u))
      /\ HoldsSlot(t) /\ \A u \in Targets : mine[u] \in IcmpSlots
    BY <1>1, <1>2, <1>4 DEF ICTypeOK, HoldsSlot, Written
<1>6. DirectoryHeld'
    BY <1>1, <1>2, <1>4, <1>5 DEF DirectoryHeld, FieldsOf
<1>7. FieldsNameHolder' /\ LoserNamesHolder'
    BY <1>1, <1>2, <1>4, <1>5 DEF FieldsNameHolder, LoserNamesHolder
<1>8. LookBehind'
    BY <1>1, <1>2, <1>4 DEF LookBehind
<1> QED
    BY <1>3, <1>6, <1>7, <1>8 DEF ICInv

\* The loser of the post-claim scan: the tuple has a holder in a lower slot.
LEMMA ScanCompareKeeps ==
    ASSUME ICInv, NEW t \in Targets, ScanCompare(t), Same(t, cursor[t]), Yields(t)
    PROVE  ICInv'
<1>1. PICK i \in IcmpSlots, k \in IcmpSlots :
          /\ i = mine[t] /\ k = cursor[t] /\ k < i /\ dir[k].fields.tuple = TupleOfTarget(t)
          /\ dir' = [dir EXCEPT ![i].claimed = "Free"]
          /\ step[t] = "scanCmp" /\ step' = [step EXCEPT ![t] = "lost"]
          /\ cursor' = [cursor EXCEPT ![t] = 0] /\ UNCHANGED <<targets, mine, look, unregs>>
    BY DEF ScanCompare, GiveSlotBack, Same, Yields, To, LookAt, ICInv, ICTypeOK
<1>2. ICTypeOK /\ DirectoryHeld /\ FieldsNameHolder /\ LoserNamesHolder /\ LookBehind
    BY DEF ICInv
<1>3. 0 \in IcmpSlots
    BY IcmpAssumption DEF IcmpSlots
<1>4. ICTypeOK'
    BY <1>1, <1>2, <1>3 DEF ICTypeOK, Steps
<1>5. /\ \A j \in IcmpSlots : /\ dir'[j].fields = dir[j].fields /\ dir'[j].generation = dir[j].generation
                              /\ dir'[j].claimed = IF j = i THEN "Free" ELSE dir[j].claimed
      /\ \A u \in Targets : u # t => step'[u] = step[u]
      /\ step'[t] = "lost"
    BY <1>1, <1>2 DEF ICTypeOK
<1>6. /\ \A u \in Targets : HoldsSlot(u)' <=> HoldsSlot(u) /\ u # t
      /\ \A u \in Targets : Written(u)' <=> Written(u) /\ u # t
      /\ \A u \in Targets : Written(u) => HoldsSlot(u)
      /\ HoldsSlot(t) /\ \A u \in Targets : mine[u] \in IcmpSlots
    BY <1>1, <1>2, <1>5 DEF ICTypeOK, HoldsSlot, Written
<1>7. DirectoryHeld'
    BY <1>1, <1>2, <1>5, <1>6 DEF DirectoryHeld, FieldsOf
<1>8. ASSUME TupleOfTarget(t) \notin unregs
      PROVE  \E u \in Targets : Written(u)' /\ TupleOfTarget(u) = TupleOfTarget(t) /\ mine[u] < i
  <2>1. PICK u \in Targets : Written(u) /\ TupleOfTarget(u) = TupleOfTarget(t) /\ mine[u] <= k
      BY <1>1, <1>2, <1>8 DEF FieldsNameHolder
  <2>2. mine[u] < i
      BY <1>1, <1>6, <2>1 DEF IcmpSlots
  <2>3. u # t
      BY <1>1, <1>6, <2>2 DEF IcmpSlots
  <2> QED
      BY <1>6, <2>1, <2>2, <2>3
<1>9. FieldsNameHolder'
  <2> SUFFICES ASSUME NEW j \in IcmpSlots, NEW v \in Targets,
                      dir[j].fields.tuple = TupleOfTarget(v), TupleOfTarget(v) \notin unregs
               PROVE  \E u \in Targets : Written(u)' /\ TupleOfTarget(u) = TupleOfTarget(v) /\ mine[u] <= j
      BY <1>1, <1>5 DEF FieldsNameHolder
  <2>1. PICK u \in Targets : Written(u) /\ TupleOfTarget(u) = TupleOfTarget(v) /\ mine[u] <= j
      BY <1>2 DEF FieldsNameHolder
  <2>2. CASE u # t
      BY <1>6, <2>1, <2>2
  <2>3. CASE u = t
    <3>1. PICK w \in Targets : Written(w)' /\ TupleOfTarget(w) = TupleOfTarget(t) /\ mine[w] < i
        BY <1>8, <2>1, <2>3
    <3>2. mine[w] <= j
        BY <1>1, <1>6, <2>1, <2>3, <3>1 DEF IcmpSlots
    <3> QED
        BY <2>1, <2>3, <3>1, <3>2
  <2> QED
      BY <2>2, <2>3
<1>10. LoserNamesHolder'
  <2> SUFFICES ASSUME NEW v \in Targets, step'[v] = "lost", TupleOfTarget(v) \notin unregs
               PROVE  \E u \in Targets : Written(u)' /\ TupleOfTarget(u) = TupleOfTarget(v)
      BY <1>1 DEF LoserNamesHolder
  <2>1. CASE v = t
      BY <1>8, <2>1
  <2>2. CASE v # t
      BY <1>2, <1>5, <1>6, <1>8, <2>2 DEF LoserNamesHolder
  <2> QED
      BY <2>1, <2>2
<1>11. LookBehind'
    BY <1>1, <1>2, <1>5 DEF LookBehind
<1> QED
    BY <1>4, <1>7, <1>9, <1>10, <1>11 DEF ICInv

LEMMA UnregisterKeeps ==
    ASSUME ICInv, NEW t \in Targets, unregister(t)
    PROVE  ICInv'
<1>1. PICK i \in IcmpSlots, g \in 0..MaxGen :
          /\ i = mine[t] /\ g < MaxGen /\ dir[i].generation = g
          /\ dir' = [dir EXCEPT ![i].generation = g + 1]
          /\ step[t] = "in" /\ step' = [step EXCEPT ![t] = "free"]
          /\ unregs' = unregs \cup {TupleOfTarget(t)}
          /\ look' = IF OfLook(i) THEN [look EXCEPT !.bumped = TRUE] ELSE look
          /\ UNCHANGED <<targets, mine, cursor>>
    BY DEF unregister, RaiseGeneration, To, ICInv, ICTypeOK
<1>2. ICTypeOK /\ DirectoryHeld /\ FieldsNameHolder /\ LoserNamesHolder /\ LookBehind
    BY DEF ICInv
<1>3. g + 1 \in 0..MaxGen
    BY <1>1, IcmpAssumption
<1>4. ICTypeOK'
    BY <1>1, <1>2, <1>3 DEF ICTypeOK, Steps
<1>5. /\ \A j \in IcmpSlots : /\ dir'[j].fields = dir[j].fields /\ dir'[j].claimed = dir[j].claimed
                              /\ dir'[j].generation = IF j = i THEN g + 1 ELSE dir[j].generation
      /\ \A u \in Targets : u # t => step'[u] = step[u]
      /\ step'[t] = "free"
    BY <1>1, <1>2 DEF ICTypeOK
<1>6. /\ \A u \in Targets : (HoldsSlot(u)' <=> HoldsSlot(u)) /\ (Written(u)' <=> Written(u))
      /\ \A u \in Targets : mine[u] \in IcmpSlots
    BY <1>1, <1>2, <1>5 DEF ICTypeOK, HoldsSlot, Written
<1>7. DirectoryHeld'
    BY <1>1, <1>2, <1>5, <1>6 DEF DirectoryHeld, FieldsOf
<1>8. FieldsNameHolder' /\ LoserNamesHolder'
    BY <1>1, <1>2, <1>5, <1>6 DEF FieldsNameHolder, LoserNamesHolder
<1>9. LookBehind'
  <2>1. CASE OfLook(i)
    <3>1. /\ look'.at = "sent" /\ look'.slot = i /\ look'.gen = look.gen /\ look.at = "sent" /\ look.slot = i
        BY <1>1, <2>1 DEF OfLook
    <3>2. look.gen <= g /\ look.gen \in 0..MaxGen
        BY <1>1, <1>2, <3>1 DEF LookBehind
    <3>3. look.gen < g + 1 /\ look.gen <= g + 1
        BY <3>2
    <3>4. look' \in [at : {"idle", "gate", "compare", "load", "sent", "given"}, slot : IcmpSlots,
                     owner : {ProcOf(u) : u \in Targets} \cup {"none"}, gen : 0..MaxGen,
                     bumped : BOOLEAN, freed : BOOLEAN]
      <4>1. look' = [look EXCEPT !.bumped = TRUE] /\ TRUE \in BOOLEAN
          BY <1>1, <2>1
      <4> QED
          BY <1>2, <4>1 DEF LookBehind
    <3>5. dir'[look'.slot].generation = g + 1
        BY <1>5, <3>1
    <3> QED
        BY <3>1, <3>3, <3>4, <3>5 DEF LookBehind
  <2>2. CASE ~OfLook(i)
      BY <1>1, <1>2, <1>5, <2>2 DEF LookBehind, OfLook
  <2> QED
      BY <2>1, <2>2
<1> QED
    BY <1>4, <1>7, <1>8, <1>9 DEF ICInv

LEMMA FreeSlotKeeps ==
    ASSUME ICInv, NEW t \in Targets, FreeSlot(t)
    PROVE  ICInv'
<1>1. PICK i \in IcmpSlots :
          /\ i = mine[t] /\ dir' = [dir EXCEPT ![i].claimed = "Free"]
          /\ step[t] = "free" /\ step' = [step EXCEPT ![t] = "local"]
          /\ look' = IF OfLook(i) THEN [look EXCEPT !.freed = TRUE] ELSE look
          /\ UNCHANGED <<targets, mine, cursor, unregs>>
    BY DEF FreeSlot, To, ICInv, ICTypeOK
<1>2. ICTypeOK /\ DirectoryHeld /\ FieldsNameHolder /\ LoserNamesHolder /\ LookBehind
    BY DEF ICInv
<1>3. ICTypeOK'
    BY <1>1, <1>2 DEF ICTypeOK, Steps
<1>4. /\ \A j \in IcmpSlots : /\ dir'[j].fields = dir[j].fields /\ dir'[j].generation = dir[j].generation
                              /\ dir'[j].claimed = IF j = i THEN "Free" ELSE dir[j].claimed
      /\ \A u \in Targets : u # t => step'[u] = step[u]
      /\ step'[t] = "local"
    BY <1>1, <1>2 DEF ICTypeOK
<1>5. /\ \A u \in Targets : HoldsSlot(u)' <=> HoldsSlot(u) /\ u # t
      /\ \A u \in Targets : Written(u)' <=> Written(u) /\ u # t
      /\ \A u \in Targets : Written(u) => HoldsSlot(u)
      /\ HoldsSlot(t) /\ \A u \in Targets : mine[u] \in IcmpSlots
    BY <1>1, <1>2, <1>4 DEF ICTypeOK, HoldsSlot, Written
<1>6. DirectoryHeld'
    BY <1>1, <1>2, <1>4, <1>5 DEF DirectoryHeld, FieldsOf
<1>7. FieldsNameHolder' /\ LoserNamesHolder'
  <2>1. TupleOfTarget(t) \in unregs
      BY <1>1, <1>2 DEF DirectoryHeld
  <2> QED
      BY <1>1, <1>2, <1>4, <1>5, <2>1 DEF FieldsNameHolder, LoserNamesHolder
<1>8. LookBehind'
    BY <1>1, <1>2, <1>4 DEF LookBehind
<1> QED
    BY <1>3, <1>6, <1>7, <1>8 DEF ICInv

LEMMA LookKeeps ==
    ASSUME ICInv, lookup \/ LookGate \/ LookCompare \/ Forward \/ OnIcmpDispatch \/ LookEnds
    PROVE  ICInv'
<1>1. UNCHANGED <<dir, targets, step, mine, cursor, unregs>>
    BY DEF lookup, LookGate, LookCompare, Forward, OnIcmpDispatch, LookEnds
<1>2. ICTypeOK /\ LookBehind
    BY DEF ICInv
<1>3. LookBehind'
  <2>1. 0 \in IcmpSlots /\ 0 \in 0..MaxGen
      BY IcmpAssumption DEF IcmpSlots
  <2>2. CASE look' = NoLook
      BY <2>1, <2>2 DEF LookBehind, NoLook
  <2>3. CASE LookOnward /\ look.at # "sent"
      BY <1>2, <2>1, <2>3 DEF LookOnward, LookBehind, NoLook
  <2>4. CASE lookup
      BY <2>1, <2>4 DEF lookup, LookBehind, NoLook
  <2>5. CASE LookGate
    <3>1. CASE look' = [look EXCEPT !.at = "compare"] /\ look.at = "gate"
        BY <1>2, <3>1 DEF LookBehind
    <3> QED
        BY <2>3, <2>5, <3>1 DEF LookGate
  <2>6. CASE LookCompare
    <3>1. CASE look' = [look EXCEPT !.at = "load", !.owner = dir[look.slot].fields.owner] /\ look.at = "compare"
      <4>1. dir[look.slot].fields.owner \in {ProcOf(t) : t \in Targets} \cup {"none"}
          BY <1>2 DEF LookBehind, ICTypeOK, FieldsOf, NoFields
      <4> QED
          BY <1>2, <3>1, <4>1 DEF LookBehind
    <3> QED
        BY <2>3, <2>6, <3>1 DEF LookCompare
  <2>7. CASE Forward
    <3>1. dir[look.slot].generation \in 0..MaxGen
        BY <1>2 DEF ICTypeOK, LookBehind
    <3>2. dir[look.slot].generation <= dir[look.slot].generation
        BY <3>1
    <3>3. CASE look' = [look EXCEPT !.at = "sent", !.gen = dir[look.slot].generation] /\ look.at = "load"
        BY <1>1, <1>2, <3>1, <3>2, <3>3 DEF LookBehind
    <3> QED
        BY <2>2, <2>7, <3>3 DEF Forward
  <2>8. CASE OnIcmpDispatch
    <3>1. look.at = "sent" /\ (look' # NoLook => /\ look' = [look EXCEPT !.at = "given"]
                                                /\ dir[look.slot].generation = look.gen)
        BY <2>8 DEF OnIcmpDispatch, is_slot_alive
    <3>2. look.gen \in 0..MaxGen
        BY <1>2 DEF LookBehind
    <3>3. look' # NoLook => look.bumped = FALSE
      <4>1. ~(look.gen < look.gen)
          BY <3>2
      <4> QED
          BY <1>2, <3>1, <4>1 DEF LookBehind
    <3>4. CASE look' = [look EXCEPT !.at = "given"] /\ look.bumped = FALSE
        BY <1>2, <3>4 DEF LookBehind
    <3> QED
        BY <2>2, <3>1, <3>3, <3>4
  <2> QED
      BY <2>2, <2>4, <2>5, <2>6, <2>7, <2>8 DEF LookEnds
<1> QED
    BY <1>1, <1>3 DEF ICInv, ICTypeOK, DirectoryHeld, FieldsNameHolder, LoserNamesHolder, HoldsSlot,
       Written, FieldsOf

LEMMA ICNextInv == ICInv /\ [ICNext]_ICvars => ICInv'
<1> SUFFICES ASSUME ICInv, [ICNext]_ICvars PROVE ICInv'
    OBVIOUS
<1>1. CASE UNCHANGED ICvars
    BY <1>1 DEF ICvars, ICInv, ICTypeOK, DirectoryHeld, FieldsNameHolder, LoserNamesHolder, LookBehind,
       HoldsSlot, Written, FieldsOf
<1>2. ASSUME NEW t \in Targets,
             \/ register_local(t) \/ EarlyGate(t) \/ EarlyCompare(t) \/ ClaimSlot(t) \/ WriteFields(t)
             \/ PublishSlot(t) \/ ScanGate(t) \/ ScanCompare(t)
             \/ unregister(t) \/ FreeSlot(t) \/ unregister_local(t)
      PROVE  ICInv'
    BY <1>2, WalkKeeps, EarlyCompareKeeps, ClaimSlotKeeps, WriteFieldsKeeps, PublishSlotKeeps,
       ScanCompareKeeps, UnregisterKeeps, FreeSlotKeeps
<1> QED
    BY <1>1, <1>2, LookKeeps DEF ICNext

\* IcmpDirectory: for any number of processes, targets and slots, racing
\* registrations of a tuple end with one of them in place and no slot lost or
\* shared, and no message reaches the slot's next owner.
THEOREM DirectoryAlwaysTrue == ICSpec => []DirectoryTrue
<1>1. ICInv => DirectoryTrue
  <2> SUFFICES ASSUME ICInv PROVE DirectoryTrue
      OBVIOUS
  <2>1. ICTypeOK /\ DirectoryHeld /\ LoserNamesHolder /\ LookBehind
      BY DEF ICInv
  <2>2. SlotsConserved
    <3> SUFFICES ASSUME NEW i \in IcmpSlots
                 PROVE  Cardinality({t \in Targets : HoldsSlot(t) /\ mine[t] = i})
                        = IF dir[i].claimed = "Free" THEN 0 ELSE 1
        BY DEF SlotsConserved
    <3>1. CASE dir[i].claimed = "Free"
      <4>1. {t \in Targets : HoldsSlot(t) /\ mine[t] = i} = {}
          BY <2>1, <3>1 DEF DirectoryHeld
      <4> QED
          BY <3>1, <4>1, FS_EmptySet
    <3>2. CASE dir[i].claimed # "Free"
      <4>1. PICK t \in Targets : HoldsSlot(t) /\ mine[t] = i
          BY <2>1, <3>2 DEF DirectoryHeld
      <4>2. {u \in Targets : HoldsSlot(u) /\ mine[u] = i} = {t}
          BY <2>1, <4>1 DEF DirectoryHeld
      <4> QED
          BY <3>2, <4>2, FS_Singleton
    <3> QED
        BY <3>1, <3>2
  <2>3. LoserLeavesWinner
      BY <2>1 DEF LoserLeavesWinner, LoserNamesHolder, Written, HoldsSlot
  <2>4. StaleDropped
      BY <2>1 DEF StaleDropped, LookBehind
  <2> QED
      BY <2>1, <2>2, <2>3, <2>4 DEF DirectoryTrue
<1> QED
    BY <1>1, ICInitInv, ICNextInv, PTL DEF ICSpec

-----------------------------------------------------------------------------
(* MpRegistry, where joins and releases do not overlap one another.        *)

CallBusy(p) == pc[p] \in Joining \cup Leaving

OneBusy == \A p, q \in Procs : CallBusy(p) /\ CallBusy(q) => p = q

\* The slot of a process that is attached is its own, as it published it.
Seated ==
    \A p \in Procs : pc[p] = "in" =>
        /\ procs[at[p]].claimed = TRUE /\ procs[at[p]].pid = p
        /\ procs[at[p]].lcore_mask = MaskOf(p)

\* What a process in the middle of a call has found out: nobody sits at the
\* slot it is taking or leaving, and its cores are nobody's.
FoundOut ==
    \A p, q \in Procs : pc[q] = "in" =>
        /\ pc[p] \in {"steal", "retake", "claimed", "rescan", "publish", "clear"} => at[p] # at[q]
        /\ pc[p] \in {"cas", "publish"} /\ at[p] # at[q] => MaskOf(p) \cap MaskOf(q) = {}

OnlyPrimaryFrees == \A p \in Procs : pc[p] = "free" => p = primary

MPInv ==
    /\ MPTypeOK /\ OneBusy /\ Seated /\ FoundOut /\ OnlyPrimaryFrees
    /\ LcoresDisjoint /\ ZoneOutlivesPeers

LEMMA MPInitInv == MPInit => MPInv
<1> SUFFICES ASSUME MPInit PROVE MPInv
    OBVIOUS
<1>1. MPTypeOK
    BY MpAssumption DEF MPInit, MPTypeOK, Vacant, ProcSlots, NoPid
<1>2. OneBusy /\ OnlyPrimaryFrees /\ LcoresDisjoint /\ ZoneOutlivesPeers
    BY DEF MPInit, OneBusy, CallBusy, OnlyPrimaryFrees, LcoresDisjoint, ZoneOutlivesPeers, Joining, Leaving
<1>3. Seated /\ FoundOut
    BY MpAssumption DEF MPInit, Seated, FoundOut, ProcSlots
<1> QED
    BY <1>1, <1>2, <1>3 DEF MPInv

\* What a step of process p to label l and slot i owes the others.
StepOwes(p, l, i) ==
    /\ zone = "freed" => l \in {"out", "dead"}
    /\ l \in Joining \cup Leaving => \A q \in Procs : CallBusy(q) => q = p
    /\ l = "free" => p = primary
    /\ l = "in" => CallBusy(p) /\ procs'[i] = [claimed |-> TRUE, pid |-> p, lcore_mask |-> MaskOf(p)]
    /\ \A q \in Procs \ {p} : pc[q] = "in" =>
          /\ procs'[at[q]] = procs[at[q]]
          /\ l \in {"in", "steal", "retake", "claimed", "rescan", "publish", "clear"} => i # at[q]
          /\ l \in {"in", "cas", "publish"} /\ i # at[q] => MaskOf(p) \cap MaskOf(q) = {}

LEMMA MPStepKeeps ==
    ASSUME MPInv, MPTypeOK', UNCHANGED zone,
           NEW p \in Procs, NEW l, NEW i \in ProcSlots, StepOwes(p, l, i),
           pc' = [pc EXCEPT ![p] = l], at' = [at EXCEPT ![p] = i]
    PROVE  MPInv'
<1>1. /\ pc'[p] = l /\ at'[p] = i
      /\ \A q \in Procs \ {p} : pc'[q] = pc[q] /\ at'[q] = at[q]
    BY DEF MPInv, MPTypeOK
<1>2. OneBusy /\ Seated /\ FoundOut /\ OnlyPrimaryFrees /\ LcoresDisjoint /\ ZoneOutlivesPeers
    BY DEF MPInv
<1>3. OneBusy'
    BY <1>1, <1>2 DEF OneBusy, CallBusy, StepOwes
<1>4. Seated'
    BY <1>1, <1>2 DEF Seated, StepOwes
<1>5. FoundOut'
  <2> SUFFICES ASSUME NEW r \in Procs, NEW q \in Procs, pc'[q] = "in"
               PROVE  /\ pc'[r] \in {"steal", "retake", "claimed", "rescan", "publish", "clear"} => at'[r] # at'[q]
                      /\ pc'[r] \in {"cas", "publish"} /\ at'[r] # at'[q] => MaskOf(r) \cap MaskOf(q) = {}
      BY DEF FoundOut
  <2>1. CASE r = q
      BY <2>1
  <2>2. CASE r # q /\ r = p
      BY <1>1, <2>2 DEF StepOwes
  <2>3. CASE r # q /\ q = p
    <3>1. CallBusy(p) /\ ~CallBusy(r)
        BY <1>1, <1>2, <2>3 DEF StepOwes, OneBusy
    <3> QED
        BY <1>1, <2>3, <3>1 DEF CallBusy, Joining, Leaving
  <2>4. CASE r # p /\ q # p
      BY <1>1, <1>2, <2>4 DEF FoundOut
  <2> QED
      BY <2>1, <2>2, <2>3, <2>4
<1>6. LcoresDisjoint'
  <2>1. ASSUME NEW q \in Procs \ {p}, pc[q] = "in", l = "in" PROVE MaskOf(p) \cap MaskOf(q) = {}
      BY <2>1 DEF StepOwes
  <2> QED
      BY <1>1, <1>2, <2>1 DEF LcoresDisjoint
<1>7. OnlyPrimaryFrees' /\ ZoneOutlivesPeers'
    BY <1>1, <1>2 DEF OnlyPrimaryFrees, ZoneOutlivesPeers, StepOwes
<1> QED
    BY <1>3, <1>4, <1>5, <1>6, <1>7 DEF MPInv

\* Steps that leave the table alone.
LEMMA MPQuietKeeps ==
    ASSUME Serialised, MPInv, NEW p \in Procs,
           \/ attach_secondary(p) \/ AttachScan(p) \/ try_claim_free_slot(p) \/ Pass2Probe(p) \/ ProcessDies(p)
           \/ (AttachCas(p) \/ Pass1(p) \/ Retake(p)) /\ procs[at[p]].claimed
           \/ Steal(p) /\ ~procs[at[p]].claimed
           \/ Rescan(p) /\ Overlaps(p) = {}
    PROVE  MPInv'
<1>1. MPTypeOK /\ OneBusy /\ Seated /\ FoundOut /\ ZoneOutlivesPeers
    BY DEF MPInv
<1>2. /\ 0 \in ProcSlots /\ at[p] \in ProcSlots /\ IndexOf(p) \in ProcSlots
      /\ \A s : Goto(p, s) => pc'[p] = s /\ pc' = [pc EXCEPT ![p] = pc'[p]]
      /\ \A k : Move(p, k) => at'[p] = k /\ at' = [at EXCEPT ![p] = at'[p]]
      /\ at' = at => at'[p] = at[p] /\ at' = [at EXCEPT ![p] = at'[p]]
    BY <1>1, MpAssumption DEF MPTypeOK, ProcSlots, Goto, Move
<1>3. ASSUME NEW again, NEW done, NextSlot(p, again, done)
      PROVE  /\ pc'[p] \in {again, done} /\ pc' = [pc EXCEPT ![p] = pc'[p]]
             /\ at'[p] \in ProcSlots /\ at' = [at EXCEPT ![p] = at'[p]]
    BY <1>2, <1>3 DEF NextSlot
<1> DEFINE Moved ==
          /\ pc' = [pc EXCEPT ![p] = pc'[p]] /\ at' = [at EXCEPT ![p] = at'[p]] /\ UNCHANGED <<procs, zone>>
          /\ pc'[p] \in Joining \cup {"out", "dead"} /\ at'[p] \in ProcSlots
          /\ pc'[p] \notin {"retake", "claimed", "rescan"}
          /\ CallBusy(p) \/ pc'[p] \in {"out", "dead"} \/ (MayStart(p) /\ zone = "live")
          /\ pc'[p] = "steal" => at'[p] = at[p] /\ ~is_pid_alive(procs[at[p]].pid)
          /\ pc'[p] = "publish" => at'[p] = at[p] /\ pc[p] = "rescan" /\ Overlaps(p) = {}
          /\ pc'[p] = "cas" => at'[p] = at[p] /\ Overlaps(p) = {}
<1>4. Moved
  <2> USE <1>2 DEF CallBusy, Joining, Leaving
  <2>1. CASE attach_secondary(p)
      BY <2>1 DEF attach_secondary
  <2>2. CASE AttachScan(p)
      BY <2>2 DEF AttachScan
  <2>3. CASE try_claim_free_slot(p)
      BY <2>3 DEF try_claim_free_slot
  <2>4. CASE Pass2Probe(p)
    <3>1. CASE is_pid_alive(procs[at[p]].pid)
        BY <1>3, <2>4, <3>1 DEF Pass2Probe
    <3>2. CASE ~is_pid_alive(procs[at[p]].pid)
        BY <2>4, <3>2 DEF Pass2Probe
    <3> QED
        BY <3>1, <3>2
  <2>5. CASE ProcessDies(p)
      BY <2>5 DEF ProcessDies
  <2>6. CASE AttachCas(p) /\ procs[at[p]].claimed
      BY <2>6 DEF AttachCas
  <2>7. CASE Pass1(p) /\ procs[at[p]].claimed
      BY <1>3, <2>7 DEF Pass1
  <2>8. CASE Retake(p) /\ procs[at[p]].claimed
      BY <1>3, <2>8 DEF Retake
  <2>9. CASE Steal(p) /\ ~procs[at[p]].claimed
      BY <1>3, <2>9 DEF Steal
  <2>10. CASE Rescan(p) /\ Overlaps(p) = {}
      BY <2>10 DEF Rescan
  <2> QED
      BY <2>1, <2>2, <2>3, <2>4, <2>5, <2>6, <2>7, <2>8, <2>9, <2>10
<1> DEFINE l == pc'[p]
           i == at'[p]
<1>5. MPTypeOK'
    BY <1>1, <1>4 DEF MPTypeOK
<1>6. zone = "freed" => l \in {"out", "dead"}
    BY <1>1, <1>4 DEF ZoneOutlivesPeers, CallBusy, Joining, Leaving
<1>7. l \in Joining \cup Leaving => \A q \in Procs : CallBusy(q) => q = p
  <2>1. MayStart(p) => \A q \in Procs : CallBusy(q) => q = p
      BY DEF MayStart, CallBusy
  <2>2. CallBusy(p) => \A q \in Procs : CallBusy(q) => q = p
      BY <1>1 DEF OneBusy
  <2> QED
      BY <1>4, <2>1, <2>2 DEF Joining, Leaving
<1>8. ASSUME NEW q \in Procs \ {p}, pc[q] = "in"
      PROVE  /\ l \in {"in", "steal", "retake", "claimed", "rescan", "publish", "clear"} => i # at[q]
             /\ l \in {"in", "cas", "publish"} /\ i # at[q] => MaskOf(p) \cap MaskOf(q) = {}
  <2>1. /\ at[q] \in ProcSlots /\ procs[at[q]].claimed = TRUE
        /\ procs[at[q]].pid = q /\ procs[at[q]].lcore_mask = MaskOf(q)
      BY <1>1, <1>8 DEF MPTypeOK, Seated
  <2>2. is_pid_alive(q)
      BY <1>8, MpAssumption DEF is_pid_alive, NoPid, Dead
  <2>3. l # "in"
      BY <1>4 DEF Joining, Leaving
  <2>4. l = "steal" => i # at[q]
      BY <1>4, <2>1, <2>2
  <2>5. l = "publish" => i # at[q]
      BY <1>1, <1>4, <1>8 DEF FoundOut
  <2>6. Overlaps(p) = {} /\ at[p] # at[q] => MaskOf(p) \cap MaskOf(q) = {}
      BY <2>1 DEF Overlaps
  <2> QED
      BY <1>4, <2>3, <2>4, <2>5, <2>6 DEF Joining
<1>9. StepOwes(p, l, i)
    BY <1>4, <1>6, <1>7, <1>8 DEF StepOwes, Joining, Leaving
<1> QED
    BY <1>4, <1>5, <1>9, MPStepKeeps

\* Steps that write the slot they are at, which nobody else sits in.
LEMMA MPWriteKeeps ==
    ASSUME Serialised, MPInv, NEW p \in Procs,
           \/ AttachPublish(p) \/ ClaimPublish(p) \/ release(p) \/ ReleaseStore(p)
           \/ (AttachCas(p) \/ Pass1(p) \/ Retake(p)) /\ ~procs[at[p]].claimed
           \/ Steal(p) /\ procs[at[p]].claimed
           \/ Rescan(p) /\ Overlaps(p) # {}
    PROVE  MPInv'
<1>1. MPTypeOK /\ OneBusy /\ Seated /\ FoundOut /\ ZoneOutlivesPeers
    BY DEF MPInv
<1>2. PICK i \in ProcSlots : i = at[p] /\ (at' = at => at' = [at EXCEPT ![p] = i])
    BY <1>1 DEF MPTypeOK
<1>3. PICK l \in Joining \cup Leaving \cup {"in", "out"} :
          /\ pc' = [pc EXCEPT ![p] = l] /\ UNCHANGED <<at, zone>>
          /\ \/ l = "publish" /\ pc[p] = "cas" /\ ~procs[i].claimed
             \/ l = "claimed" /\ pc[p] \in {"pass1", "retake"} /\ ~procs[i].claimed
             \/ l \in {"retake", "rescan", "out", "free", "in"}
                /\ pc[p] \in {"steal", "rescan", "claimed", "clear", "publish"}
             \/ l = "clear" /\ pc[p] = "in" /\ MayStart(p)
          /\ l = "in" => /\ pc[p] = "publish"
                         /\ procs'[i] = [claimed |-> TRUE, pid |-> p, lcore_mask |-> MaskOf(p)]
          /\ l = "free" => p = primary
  <2> USE <1>1, <1>2 DEF Goto, Joining, Leaving
  <2>1. CASE AttachPublish(p)
      BY <2>1 DEF AttachPublish, MPTypeOK
  <2>2. CASE ClaimPublish(p)
      BY <2>2 DEF ClaimPublish
  <2>3. CASE release(p)
      BY <2>3 DEF release
  <2>4. CASE ReleaseStore(p)
    <3>1. CASE p = primary
        BY <2>4, <3>1 DEF ReleaseStore
    <3>2. CASE p # primary
        BY <2>4, <3>2 DEF ReleaseStore
    <3> QED
        BY <3>1, <3>2
  <2>5. CASE AttachCas(p) /\ ~procs[at[p]].claimed
      BY <2>5 DEF AttachCas
  <2>6. CASE Pass1(p) /\ ~procs[at[p]].claimed
      BY <2>6 DEF Pass1
  <2>7. CASE Retake(p) /\ ~procs[at[p]].claimed
      BY <2>7 DEF Retake
  <2>8. CASE Steal(p) /\ procs[at[p]].claimed
      BY <2>8 DEF Steal
  <2>9. CASE Rescan(p) /\ Overlaps(p) # {}
      BY <2>9 DEF Rescan
  <2> QED
      BY <2>1, <2>2, <2>3, <2>4, <2>5, <2>6, <2>7, <2>8, <2>9
<1>4. /\ procs' \in [ProcSlots -> [claimed : BOOLEAN, pid : Procs \cup {NoPid},
                                  lcore_mask : {MaskOf(r) : r \in Procs} \cup {{}}]]
      /\ \A j \in ProcSlots \ {i} : procs'[j] = procs[j]
  <2>1. CASE AttachPublish(p) \/ ClaimPublish(p)
    <3>1. PICK m \in {MaskOf(r) : r \in Procs} \cup {{}} :
              procs' = [procs EXCEPT ![i] = [claimed |-> TRUE, pid |-> p, lcore_mask |-> m]]
        BY <1>2, <2>1 DEF AttachPublish, ClaimPublish
    <3> QED
        BY <1>1, <3>1 DEF MPTypeOK
  <2>2. CASE release(p)
      BY <1>1, <1>2, <2>2 DEF release, MPTypeOK
  <2>3. CASE \E b \in BOOLEAN : SetClaimed(i, b)
      BY SMTT(30), <1>1, <2>3 DEF SetClaimed, MPTypeOK
  <2> QED
      BY <1>2, <2>1, <2>2, <2>3 DEF ReleaseStore, AttachCas, Pass1, Retake, Steal, Rescan
<1>5. MPTypeOK'
    BY <1>1, <1>3, <1>4 DEF MPTypeOK
<1>6. zone # "freed"
    BY <1>1, <1>3 DEF ZoneOutlivesPeers
<1>7. \A q \in Procs : CallBusy(q) => q = p
  <2>1. MayStart(p) => \A q \in Procs : CallBusy(q) => q = p
      BY DEF MayStart, CallBusy
  <2>2. CallBusy(p) => \A q \in Procs : CallBusy(q) => q = p
      BY <1>1 DEF OneBusy
  <2> QED
      BY <1>3, <2>1, <2>2 DEF CallBusy, Joining, Leaving
<1>8. ASSUME NEW q \in Procs \ {p}, pc[q] = "in"
      PROVE  /\ procs'[at[q]] = procs[at[q]] /\ i # at[q]
             /\ l \in {"in", "cas", "publish"} => MaskOf(p) \cap MaskOf(q) = {}
  <2>1. at[q] \in ProcSlots /\ procs[at[q]].claimed = TRUE /\ procs[at[q]].pid = q
      BY <1>1, <1>8 DEF MPTypeOK, Seated
  <2>2. i # at[q]
    <3>1. CASE ~procs[i].claimed
        BY <2>1, <3>1
    <3>2. CASE pc[p] \in {"steal", "rescan", "claimed", "clear", "publish"}
        BY <1>1, <1>2, <1>8, <3>2 DEF FoundOut
    <3>3. CASE pc[p] = "in"
        BY <1>1, <1>2, <2>1, <3>3 DEF Seated
    <3> QED
        BY <1>3, <3>1, <3>2, <3>3
  <2>3. l \in {"in", "cas", "publish"} => pc[p] \in {"cas", "publish"}
      BY <1>3
  <2> QED
      BY <1>1, <1>2, <1>4, <1>8, <2>1, <2>2, <2>3 DEF FoundOut
<1>9. StepOwes(p, l, i)
    BY <1>3, <1>6, <1>7, <1>8 DEF StepOwes, CallBusy, Joining
<1> QED
    BY <1>2, <1>3, <1>5, <1>9, MPStepKeeps

LEMMA PrimaryFreesKeeps ==
    ASSUME MPInv, PrimaryFrees
    PROVE  MPInv'
<1>1. MPTypeOK /\ OneBusy /\ Seated /\ FoundOut /\ OnlyPrimaryFrees /\ LcoresDisjoint /\ ZoneOutlivesPeers
    BY DEF MPInv
<1>2. /\ primary \in Procs /\ pc[primary] = "free" /\ pc' = [pc EXCEPT ![primary] = "out"]
      /\ UNCHANGED <<procs, at>> /\ zone' = IF NobodyElse THEN "freed" ELSE zone
    BY MpAssumption DEF PrimaryFrees, Goto
<1>3. /\ pc'[primary] = "out" /\ \A q \in Procs \ {primary} : pc'[q] = pc[q]
      /\ MPTypeOK'
    BY <1>1, <1>2 DEF MPTypeOK
<1>4. ZoneOutlivesPeers'
  <2>1. CASE NobodyElse
    <3>1. ASSUME NEW q \in Procs \ {primary} PROVE pc[q] \in {"out", "dead"}
      <4>1. ~CallBusy(q)
          BY <1>1, <1>2 DEF OneBusy, CallBusy, Leaving
      <4>2. pc[q] # "in"
          BY <1>1, <2>1 DEF Seated, NobodyElse, MPTypeOK
      <4> QED
          BY <1>1, <4>1, <4>2 DEF MPTypeOK, CallBusy
    <3> QED
        BY <1>3, <3>1 DEF ZoneOutlivesPeers
  <2>2. CASE ~NobodyElse
      BY <1>1, <1>2, <1>3, <2>2 DEF ZoneOutlivesPeers
  <2> QED
      BY <2>1, <2>2
<1>5. OneBusy' /\ Seated' /\ OnlyPrimaryFrees' /\ LcoresDisjoint'
    BY <1>1, <1>2, <1>3 DEF OneBusy, CallBusy, Joining, Leaving, Seated, OnlyPrimaryFrees, LcoresDisjoint
<1>6. FoundOut'
    BY <1>1, <1>2, <1>3 DEF FoundOut
<1> QED
    BY <1>3, <1>4, <1>5, <1>6 DEF MPInv

LEMMA MPNextInv == ASSUME Serialised PROVE MPInv /\ [MPNext]_MPvars => MPInv'
<1> SUFFICES ASSUME MPInv, [MPNext]_MPvars PROVE MPInv'
    OBVIOUS
<1>1. CASE UNCHANGED MPvars
    BY <1>1 DEF MPvars, MPInv, MPTypeOK, OneBusy, CallBusy, Seated, FoundOut, OnlyPrimaryFrees,
       LcoresDisjoint, ZoneOutlivesPeers
<1>2. ASSUME NEW p \in Procs,
             \/ attach_secondary(p) \/ AttachScan(p) \/ AttachCas(p) \/ AttachPublish(p)
             \/ try_claim_free_slot(p) \/ Pass1(p) \/ Pass2Probe(p) \/ Steal(p) \/ Retake(p)
             \/ ClaimPublish(p) \/ Rescan(p)
             \/ release(p) \/ ReleaseStore(p) \/ ProcessDies(p)
      PROVE  MPInv'
    BY <1>2, MPQuietKeeps, MPWriteKeeps
<1> QED
    BY <1>1, <1>2, PrimaryFreesKeeps DEF MPNext

\* MpRegistry: for any number of processes and slots, while joins and releases
\* do not overlap one another (as registry.hpp asks), live processes hold
\* different slots and cores, whoever dies in the middle of a call, and the
\* table lives as long as they do.
THEOREM RegistryAlwaysTrue == ASSUME Serialised PROVE MPSpec => []RegistryTrue
<1>1. MPInv => RegistryTrue
    BY DEF MPInv, RegistryTrue, ExclusiveSlots, Seated
<1>2. MPInv /\ [MPNext]_MPvars => MPInv'
    BY MPNextInv
<1> QED
    BY <1>1, <1>2, MPInitInv, PTL DEF MPSpec

-----------------------------------------------------------------------------
(* FlowAttach.                                                             *)

OnNic(i, c) == [rule |-> i, conn |-> c, queue |-> queue[c]] \in nic

\* Who will still use a rule of the primary's map: its connection, the answer
\* on its way there, a destroy request on its way back.
Answered(k, i) == k.op = "install" /\ k.at = "answered" /\ k.id = i
Destroying(k, i) == k.op = "destroy" /\ k.at \in {"sent", "working"} /\ k.id = i

Requests == [conn : Conns, life : Nat, op : {"install", "destroy"}, at : {"sent", "working", "answered"},
             id : 0..MaxRules, queue : 0..(nb_rx_queues - 1)]

FlowTyped ==
    /\ FATypeOK /\ life \in [Conns -> Nat]
    /\ calls \subseteq Requests
    /\ nic \subseteq [rule : 1..MaxRules, conn : Conns, queue : 0..(nb_rx_queues - 1)]
    /\ DOMAIN rules \subseteq 1..MaxRules /\ \A i \in DOMAIN rules : rules[i] = i

\* A request names the life of the connection that sent it: one install a life,
\* for the queue of that life.
RequestsNameLives ==
    /\ \A k \in calls : k.life <= life[k.conn] /\ (k.at = "answered" => Wanted(k))
    /\ \A k \in calls : k.life = life[k.conn] =>
          /\ stage[k.conn] \notin {"created", "added"}
          /\ k.op = "install" => k.queue = queue[k.conn]
    /\ \A k, l \in calls : k.op = "install" /\ l.op = "install" /\ k.conn = l.conn /\ k.life = l.life => k = l

\* No rule id is ahead of lastRule, so the next rule is nobody's.
IdsIssued ==
    /\ \A r \in nic : r.rule <= lastRule
    /\ \A i \in DOMAIN rules : i <= lastRule
    /\ \A c \in Conns : handle[c].id <= lastRule
    /\ \A k \in calls : k.id <= lastRule

\* A rule of the map has one user, a rule of a connection is not in the map.
OneUser ==
    /\ \A c, d \in Conns : handle[c] = handle[d] /\ handle[c] # NoRule => c = d
    /\ \A c \in Conns : handle[c].kind = "local" => handle[c].id \notin DOMAIN rules
    /\ \A c \in Conns, k \in calls : handle[c].kind = "remote" =>
          ~Answered(k, handle[c].id) /\ ~Destroying(k, handle[c].id)
    /\ \A k, l \in calls : Answered(k, k.id) /\ k.id # 0 =>
          (Answered(l, k.id) => k = l) /\ ~Destroying(l, k.id)

\* What a connection holds, or is about to be told of, is on the NIC.
RulesInPlace ==
    /\ \A c \in Conns : handle[c].kind = "local" => OnNic(handle[c].id, c)
    /\ \A c \in Conns : handle[c].kind = "remote" /\ primaryState # "down" =>
          handle[c].id \in DOMAIN rules /\ OnNic(handle[c].id, c)
    /\ \A k \in calls : Answered(k, k.id) /\ k.id # 0 /\ primaryState # "down" =>
          k.id \in DOMAIN rules /\ OnNic(k.id, k.conn)
    /\ \A r \in nic : r.rule \in DOMAIN rules \/ \E c \in Conns : handle[c] = Local(r.rule)
    /\ \A i \in DOMAIN rules : \E r \in nic : r.rule = i

StagesTrue ==
    /\ GoneIsGone
    /\ \A c \in Conns : stage[c] \in {"added", "asking"} => c \in polled /\ handle[c] = NoRule
    /\ \A c \in Conns : stage[c] \in {"ruled", "up"} =>
          c \in polled /\ (dispatch = "FlowDirector" => handle[c] # NoRule)

FAInv == FlowTyped /\ RequestsNameLives /\ IdsIssued /\ OneUser /\ RulesInPlace /\ StagesTrue

LEMMA FAInitInv == FAInit => FAInv
<1> SUFFICES ASSUME FAInit PROVE FAInv
    OBVIOUS
<1> USE FlowAssumption DEF FAInit
<1>1. 0 \in 0..(nb_rx_queues - 1) /\ 0 \in 0..MaxRules /\ NoRule \in Handles
    BY DEF Handles
<1>2. FlowTyped
    BY <1>1 DEF FlowTyped, FATypeOK
<1>3. RequestsNameLives /\ IdsIssued /\ OneUser /\ RulesInPlace /\ StagesTrue
    BY DEF RequestsNameLives, IdsIssued, OneUser, RulesInPlace, StagesTrue, GoneIsGone, NoRule
<1> QED
    BY <1>2, <1>3 DEF FAInv

\* A handle is nothing, a rule of this process, or a rule of the primary's.
LEMMA HandleKinds ==
    ASSUME FlowTyped, NEW c \in Conns
    PROVE  /\ handle[c] \in Handles /\ handle[c].id \in 0..MaxRules
           /\ \/ handle[c] = NoRule /\ handle[c].kind = "monostate"
              \/ handle[c].kind \in {"local", "remote"} /\ handle[c].id \in 1..MaxRules /\ handle[c] # NoRule
           /\ handle[c].kind = "local" => handle[c] = Local(handle[c].id)
           /\ handle[c].kind = "remote" => handle[c] = Remote(handle[c].id)
<1>1. handle[c] \in Handles
    BY DEF FlowTyped, FATypeOK
<1> QED
    BY <1>1, FlowAssumption DEF Handles, NoRule, Local, Remote

\* create and AddToPoller: neither rules nor requests.
LEMMA CreateKeeps ==
    ASSUME FAInv, NEW c \in Conns, create(c)
    PROVE  FAInv'
<1>1. FlowTyped /\ RequestsNameLives /\ IdsIssued /\ OneUser /\ RulesInPlace /\ StagesTrue
    BY DEF FAInv
<1>2. PICK q \in 0..(nb_rx_queues - 1) : queue' = [queue EXCEPT ![c] = q]
  <2>1. PICK pin \in -1..nb_rx_queues : \E q \in TargetQueues(pin) : queue' = [queue EXCEPT ![c] = q]
      BY DEF create
  <2>2. TargetQueues(pin) \subseteq 0..(nb_rx_queues - 1)
    <3>1. 0 \in 0..(nb_rx_queues - 1) /\ QueueLo..(QueueHi - 1) \subseteq 0..(nb_rx_queues - 1)
        BY FlowAssumption
    <3>2. pin # NotPinned /\ pin < nb_rx_queues => pin \in 0..(nb_rx_queues - 1)
        BY <2>1, FlowAssumption DEF NotPinned
    <3> QED
        BY <3>1, <3>2 DEF TargetQueues
  <2> QED
      BY <2>1, <2>2
<1>3. PICK n \in Nat : n = life[c] /\ life' = [life EXCEPT ![c] = n + 1]
    BY <1>1 DEF create, FlowTyped
<1>4. /\ stage[c] = "none" /\ stage' = [stage EXCEPT ![c] = "created"]
      /\ UNCHANGED <<dispatch, handle, polled, nic, rules, lastRule, calls, primaryState>>
    BY DEF create, ToStage
<1>5. /\ \A d \in Conns \ {c} : stage'[d] = stage[d] /\ queue'[d] = queue[d] /\ life'[d] = life[d]
      /\ stage'[c] = "created" /\ life'[c] = n + 1
    BY <1>1, <1>2, <1>3, <1>4 DEF FlowTyped, FATypeOK
<1>6. handle[c] = NoRule /\ c \notin polled
    BY <1>1, <1>4 DEF StagesTrue, GoneIsGone
<1>7. FlowTyped'
    BY <1>1, <1>2, <1>3, <1>4 DEF FlowTyped, FATypeOK
<1>8. \A k \in calls : k.conn \in Conns /\ k.life \in Nat /\ (k.conn = c => k.life <= n /\ k.at # "answered")
    BY <1>1, <1>3, <1>4 DEF FlowTyped, Requests, RequestsNameLives, Wanted
<1>9. RequestsNameLives'
  <2>1. ASSUME NEW k \in calls
        PROVE  /\ k.life <= life'[k.conn] /\ (k.at = "answered" => Wanted(k)')
               /\ k.life = life'[k.conn] => k.conn # c
    <3>1. CASE k.conn = c
        BY <1>3, <1>5, <1>8, <3>1
    <3>2. CASE k.conn # c
        BY <1>1, <1>5, <1>8, <3>2 DEF RequestsNameLives, Wanted
    <3> QED
        BY <3>1, <3>2
  <2> QED
      BY <1>1, <1>4, <1>5, <1>8, <2>1 DEF RequestsNameLives
<1>10. IdsIssued' /\ OneUser'
    BY <1>1, <1>4 DEF IdsIssued, OneUser, Answered, Destroying
<1>11. RulesInPlace'
    BY <1>1, <1>4, <1>5, <1>6, <1>8 DEF RulesInPlace, OnNic, Answered, NoRule
<1>12. StagesTrue'
    BY <1>1, <1>4, <1>5, <1>6 DEF StagesTrue, GoneIsGone
<1> QED
    BY <1>7, <1>9, <1>10, <1>11, <1>12 DEF FAInv

LEMMA AddToPollerKeeps ==
    ASSUME FAInv, NEW c \in Conns, AddToPoller(c)
    PROVE  FAInv'
<1>1. FlowTyped /\ RequestsNameLives /\ IdsIssued /\ OneUser /\ RulesInPlace /\ StagesTrue
    BY DEF FAInv
<1>2. /\ stage[c] = "created" /\ polled' \in {polled, polled \cup {c}}
      /\ stage' = [stage EXCEPT ![c] = stage'[c]]
      /\ \/ stage'[c] \in {"added", "ruled"} /\ c \in polled' /\ (dispatch = "FlowDirector" => stage'[c] = "added")
         \/ stage'[c] = "none" /\ polled' = polled
      /\ UNCHANGED <<dispatch, queue, handle, nic, rules, lastRule, calls, primaryState, life>>
    BY <1>1 DEF AddToPoller, ToStage, FlowTyped, FATypeOK
<1>3. \A d \in Conns \ {c} : stage'[d] = stage[d] /\ (d \in polled' <=> d \in polled)
    BY <1>1, <1>2 DEF FlowTyped, FATypeOK
<1>4. FlowTyped'
    BY <1>1, <1>2 DEF FlowTyped, FATypeOK
<1>5. \A k \in calls : k.conn \in Conns /\ (k.conn = c => k.life # life[c] /\ k.at # "answered")
    BY <1>1, <1>2 DEF FlowTyped, Requests, RequestsNameLives, Wanted
<1>6. RequestsNameLives'
    BY <1>1, <1>2, <1>3, <1>5 DEF RequestsNameLives, Wanted
<1>7. IdsIssued' /\ OneUser' /\ RulesInPlace'
    BY <1>1, <1>2 DEF IdsIssued, OneUser, RulesInPlace, Answered, Destroying, OnNic
<1>8. StagesTrue'
    BY <1>1, <1>2, <1>3 DEF StagesTrue, GoneIsGone
<1> QED
    BY <1>4, <1>6, <1>7, <1>8 DEF FAInv

\* install_flow_rule in this process.
LEMMA InstallLocalKeeps ==
    ASSUME FAInv, NEW c \in Conns, install_flow_rule(c), UNCHANGED calls, stage'[c] = "ruled"
    PROVE  FAInv'
<1>1. FlowTyped /\ RequestsNameLives /\ IdsIssued /\ OneUser /\ RulesInPlace /\ StagesTrue
    BY DEF FAInv
<1>2. stage' = [stage EXCEPT ![c] = "ruled"]
    BY <1>1 DEF install_flow_rule, ToStage, FlowTyped, FATypeOK
<1>3. PICK n \in 1..MaxRules :
          /\ lastRule = n - 1 /\ lastRule' = n /\ stage[c] = "added"
          /\ nic' = nic \cup {[rule |-> n, conn |-> c, queue |-> queue[c]]}
          /\ handle' = [handle EXCEPT ![c] = Local(n)]
          /\ UNCHANGED <<dispatch, queue, polled, rules, primaryState, life>>
  <2>1. stage'[c] # "asking"
      OBVIOUS
  <2>2. ~ToStage(c, "asking")
      BY <1>1, <2>1 DEF ToStage, FlowTyped, FATypeOK
  <2>3. lastRule \in 0..MaxRules /\ lastRule < MaxRules /\ lastRule' = lastRule + 1
      BY <1>1, <2>2 DEF install_flow_rule, FlowTyped, FATypeOK
  <2>4. lastRule' \in 1..MaxRules /\ lastRule = lastRule' - 1
      BY <2>3, FlowAssumption
  <2> QED
      BY <2>2, <2>4 DEF install_flow_rule, RuleQueue
<1>4. /\ handle[c] = NoRule /\ c \in polled
      /\ handle'[c] = Local(n) /\ handle'[c].id = n /\ handle'[c].kind = "local" /\ handle'[c] # NoRule
      /\ stage'[c] = "ruled"
      /\ \A d \in Conns \ {c} : stage'[d] = stage[d] /\ handle'[d] = handle[d]
    BY <1>1, <1>2, <1>3 DEF StagesTrue, FlowTyped, FATypeOK, Local, NoRule
<1>5. Local(n) \in Handles /\ n \in 0..MaxRules
    BY FlowAssumption DEF Handles, Local
<1>6. FlowTyped'
  <2>1. [rule |-> n, conn |-> c, queue |-> queue[c]] \in [rule : 1..MaxRules, conn : Conns, queue : 0..(nb_rx_queues - 1)]
      BY <1>1 DEF FlowTyped, FATypeOK
  <2> QED
      BY <1>1, <1>2, <1>3, <1>5, <2>1 DEF FlowTyped, FATypeOK
<1>7. \A k \in calls : k.conn \in Conns /\ (k.conn = c => k.life # life[c] /\ k.at # "answered")
    BY <1>1, <1>3 DEF FlowTyped, Requests, RequestsNameLives, Wanted
<1>8. RequestsNameLives'
    BY <1>1, <1>3, <1>4, <1>7 DEF RequestsNameLives, Wanted
<1>9. /\ \A r \in nic : r.rule \in 0..MaxRules /\ r.rule < n
      /\ \A i \in DOMAIN rules : i \in 0..MaxRules /\ i < n
      /\ \A d \in Conns : handle[d].id \in 0..MaxRules /\ handle[d].id < n
      /\ \A k \in calls : k.id \in 0..MaxRules /\ k.id < n
  <2>1. \A d \in Conns : handle[d].id \in 0..MaxRules
      BY <1>1, HandleKinds
  <2>2. /\ \A r \in nic : r.rule \in 0..MaxRules
        /\ \A i \in DOMAIN rules : i \in 0..MaxRules
        /\ \A k \in calls : k.id \in 0..MaxRules
      BY <1>1 DEF FlowTyped, Requests
  <2>3. \A x \in 0..MaxRules : x <= lastRule => x < n
      BY <1>3
  <2> QED
      BY <1>1, <2>1, <2>2, <2>3 DEF IdsIssued
<1>10. IdsIssued'
  <2>1. \A x \in 0..MaxRules : x < n => x <= n
      OBVIOUS
  <2>2. n <= n
      OBVIOUS
  <2> QED
      BY <1>3, <1>4, <1>9, <2>1, <2>2 DEF IdsIssued
<1>11. OneUser'
  <2>1. \A d \in Conns \ {c} : handle'[d] # Local(n)
      BY <1>4, <1>9 DEF Local
  <2>2. n \notin DOMAIN rules
      BY <1>9
  <2> QED
      BY <1>1, <1>3, <1>4, <2>1, <2>2 DEF OneUser, Answered, Destroying
<1>12. RulesInPlace'
  <2>1. \A d \in Conns \ {c} : handle'[d] = handle[d] /\ \A i : OnNic(i, d) => OnNic(i, d)'
      BY <1>3, <1>4 DEF OnNic
  <2>2. OnNic(n, c)' /\ (\A i : OnNic(i, c) => OnNic(i, c)')
      BY <1>3 DEF OnNic
  <2>3. \A k \in calls : k.conn \in Conns
      BY <1>7
  <2>4. \A r \in nic' : r.rule \in DOMAIN rules \/ \E d \in Conns : handle'[d] = Local(r.rule)
    <3> SUFFICES ASSUME NEW r \in nic', r.rule \notin DOMAIN rules
                 PROVE  \E d \in Conns : handle'[d] = Local(r.rule)
        OBVIOUS
    <3>1. CASE r \in nic
      <4>1. PICK d \in Conns : handle[d] = Local(r.rule)
          BY <1>1, <3>1 DEF RulesInPlace
      <4>2. d # c
          BY <1>4, <4>1 DEF Local, NoRule
      <4> QED
          BY <1>4, <4>1, <4>2
    <3>2. CASE r = [rule |-> n, conn |-> c, queue |-> queue[c]]
        BY <1>4, <3>2
    <3> QED
        BY <1>3, <3>1, <3>2
  <2> QED
      BY <1>1, <1>3, <1>4, <2>1, <2>2, <2>3, <2>4 DEF RulesInPlace, Answered
<1>13. StagesTrue'
    BY <1>1, <1>3, <1>4 DEF StagesTrue, GoneIsGone
<1> QED
    BY <1>6, <1>8, <1>10, <1>11, <1>12, <1>13 DEF FAInv

\* The primary is asked: the first install of this life.
LEMMA InstallAskKeeps ==
    ASSUME FAInv, NEW c \in Conns, install_flow_rule(c), stage'[c] # "ruled"
    PROVE  FAInv'
<1>1. FlowTyped /\ RequestsNameLives /\ IdsIssued /\ OneUser /\ RulesInPlace /\ StagesTrue
    BY DEF FAInv
<1> DEFINE m == [conn |-> c, life |-> life[c], op |-> "install", at |-> "sent", id |-> 0, queue |-> queue[c]]
<1>2. /\ stage[c] = "added" /\ stage' = [stage EXCEPT ![c] = "asking"] /\ calls' = calls \cup {m}
      /\ UNCHANGED <<dispatch, queue, handle, polled, nic, rules, lastRule, primaryState, life>>
    BY <1>1 DEF install_flow_rule, ToStage, RuleQueue, FlowTyped, FATypeOK
<1>3. /\ handle[c] = NoRule /\ c \in polled /\ stage'[c] = "asking"
      /\ \A d \in Conns \ {c} : stage'[d] = stage[d]
    BY <1>1, <1>2 DEF StagesTrue, FlowTyped, FATypeOK
<1>4. /\ m \in Requests /\ m.conn = c /\ m.life = life[c] /\ m.op = "install" /\ m.at = "sent" /\ m.id = 0
      /\ m.queue = queue[c] /\ life[c] \in Nat
    BY <1>1, FlowAssumption DEF FlowTyped, FATypeOK, Requests
<1> HIDE DEF m
<1>5. FlowTyped'
    BY <1>1, <1>2, <1>4 DEF FlowTyped, FATypeOK
<1>6. \A k \in calls : k.conn \in Conns /\ (k.conn = c => k.life # life[c] /\ k.at # "answered")
    BY <1>1, <1>2 DEF FlowTyped, Requests, RequestsNameLives, Wanted
<1>7. RequestsNameLives'
  <2>1. ASSUME NEW k \in calls' PROVE k.life <= life[k.conn] /\ (k.at = "answered" => Wanted(k)')
    <3>1. CASE k = m
        BY <1>4, <3>1
    <3>2. CASE k \in calls
        BY <1>1, <1>2, <1>3, <1>6, <3>2 DEF RequestsNameLives, Wanted
    <3> QED
        BY <1>2, <3>1, <3>2
  <2>2. \A k \in calls' : k.life = life[k.conn] =>
            /\ stage'[k.conn] \notin {"created", "added"}
            /\ k.op = "install" => k.queue = queue[k.conn]
      BY <1>1, <1>2, <1>3, <1>4, <1>6 DEF RequestsNameLives
  <2>3. \A k, l \in calls' : k.op = "install" /\ l.op = "install" /\ k.conn = l.conn /\ k.life = l.life => k = l
      BY <1>1, <1>2, <1>4, <1>6 DEF RequestsNameLives
  <2> QED
      BY <1>2, <2>1, <2>2, <2>3 DEF RequestsNameLives
<1>8. IdsIssued'
  <2>1. 0 <= lastRule
      BY <1>1 DEF FlowTyped, FATypeOK
  <2> QED
      BY <1>1, <1>2, <1>4, <2>1 DEF IdsIssued
<1>9. OneUser'
    BY <1>1, <1>2, <1>4 DEF OneUser, Answered, Destroying
<1>10. RulesInPlace'
    BY <1>1, <1>2, <1>4 DEF RulesInPlace, Answered, OnNic
<1>11. StagesTrue'
    BY <1>1, <1>2, <1>3 DEF StagesTrue, GoneIsGone
<1> QED
    BY <1>5, <1>7, <1>8, <1>9, <1>10, <1>11 DEF FAInv

\* The answer with a rule.
LEMMA AskDoneKeeps ==
    ASSUME FAInv, NEW c \in Conns, NEW k \in calls,
           stage[c] = "asking", k.conn = c, k.at = "answered", Wanted(k), calls' = calls \ {k}, k.id # 0,
           handle' = [handle EXCEPT ![c] = Remote(k.id)], stage' = [stage EXCEPT ![c] = "ruled"],
           UNCHANGED <<dispatch, queue, polled, nic, rules, lastRule, primaryState, life>>
    PROVE  FAInv'
<1>1. FlowTyped /\ RequestsNameLives /\ IdsIssued /\ OneUser /\ RulesInPlace /\ StagesTrue
    BY DEF FAInv
<1>2. /\ k.op = "install" /\ k.id \in 1..MaxRules /\ Answered(k, k.id) /\ k.life = life[c]
    BY <1>1, FlowAssumption DEF FlowTyped, Requests, Wanted, Answered
<1>3. /\ handle[c] = NoRule /\ c \in polled
      /\ handle'[c] = Remote(k.id) /\ handle'[c].id = k.id /\ handle'[c].kind = "remote" /\ handle'[c] # NoRule
      /\ stage'[c] = "ruled"
      /\ \A d \in Conns \ {c} : stage'[d] = stage[d] /\ handle'[d] = handle[d]
    BY <1>1 DEF StagesTrue, FlowTyped, FATypeOK, Remote, NoRule
<1>4. FlowTyped'
  <2>1. Remote(k.id) \in Handles
      BY <1>2 DEF Handles, Remote
  <2> QED
      BY <1>1, <2>1 DEF FlowTyped, FATypeOK
<1>5. ASSUME NEW l \in calls'
      PROVE  l \in calls /\ l.conn \in Conns /\ (l.conn = c => l.at # "answered")
    BY <1>1, <1>2 DEF FlowTyped, Requests, RequestsNameLives, Wanted
<1>6. RequestsNameLives'
    BY <1>1, <1>3, <1>5 DEF RequestsNameLives, Wanted
<1>7. IdsIssued'
    BY <1>1, <1>3 DEF IdsIssued
<1>8. OneUser'
  <2>1. \A d \in Conns \ {c} : handle'[d] # Remote(k.id)
      BY <1>1, <1>2, <1>3 DEF OneUser, Remote
  <2>2. \A l \in calls' : ~Answered(l, k.id) /\ ~Destroying(l, k.id)
      BY <1>1, <1>2, <1>5 DEF OneUser
  <2> QED
      BY <1>1, <1>3, <1>5, <2>1, <2>2 DEF OneUser, Answered, Destroying
<1>9. RulesInPlace'
  <2>1. \A d \in Conns : \A i : OnNic(i, d)' <=> OnNic(i, d)
      BY DEF OnNic
  <2>2. \A r \in nic' : r.rule \in DOMAIN rules \/ \E d \in Conns : handle'[d] = Local(r.rule)
    <3> SUFFICES ASSUME NEW r \in nic, r.rule \notin DOMAIN rules
                 PROVE  \E d \in Conns : handle'[d] = Local(r.rule)
        OBVIOUS
    <3>1. PICK d \in Conns : handle[d] = Local(r.rule)
        BY <1>1 DEF RulesInPlace
    <3>2. d # c
        BY <1>3, <3>1 DEF Local, NoRule
    <3> QED
        BY <1>3, <3>1, <3>2
  <2> QED
      BY <1>1, <1>2, <1>3, <1>5, <2>1, <2>2 DEF RulesInPlace, Answered
<1>10. StagesTrue'
    BY <1>1, <1>3 DEF StagesTrue, GoneIsGone
<1> QED
    BY <1>4, <1>6, <1>7, <1>8, <1>9, <1>10 DEF FAInv

\* A refusal, a timeout, the end of a destructor: no rule, and no answer for
\* this connection is left.
LEMMA GivesUpKeeps ==
    ASSUME FAInv, NEW c \in Conns, stage[c] \in {"asking", "closing"},
           stage' = [stage EXCEPT ![c] = "none"], polled' = LeavePoller(c), calls' \subseteq calls,
           \A k \in calls' : k.conn = c => k.at # "answered",
           UNCHANGED <<dispatch, queue, handle, nic, rules, lastRule, primaryState, life>>
    PROVE  FAInv'
<1>1. FlowTyped /\ RequestsNameLives /\ IdsIssued /\ OneUser /\ RulesInPlace /\ StagesTrue
    BY DEF FAInv
<1>2. /\ handle[c] = NoRule /\ stage'[c] = "none" /\ c \notin polled'
      /\ \A d \in Conns \ {c} : stage'[d] = stage[d] /\ (d \in polled' <=> d \in polled)
    BY <1>1 DEF StagesTrue, GoneIsGone, FlowTyped, FATypeOK, LeavePoller
<1>3. FlowTyped'
    BY <1>1 DEF FlowTyped, FATypeOK, LeavePoller
<1>4. \A k \in calls' : k \in calls /\ k.conn \in Conns
    BY <1>1 DEF FlowTyped, Requests
<1>5. RequestsNameLives'
    BY <1>1, <1>2, <1>4 DEF RequestsNameLives, Wanted
<1>6. IdsIssued' /\ OneUser' /\ RulesInPlace'
    BY <1>1, <1>4 DEF IdsIssued, OneUser, RulesInPlace, Answered, Destroying, OnNic
<1>7. StagesTrue'
    BY <1>1, <1>2 DEF StagesTrue, GoneIsGone
<1> QED
    BY <1>3, <1>5, <1>6, <1>7 DEF FAInv

\* The destructor, or a refusal of register_icmp_target, gives the rule up.
LEMMA RemoveKeeps ==
    ASSUME FAInv, NEW c \in Conns, stage[c] \in {"ruled", "up"}, polled' = LeavePoller(c), remove(c),
           UNCHANGED <<dispatch, queue, rules, lastRule, primaryState, life>>
    PROVE  FAInv'
<1>1. FlowTyped /\ RequestsNameLives /\ IdsIssued /\ OneUser /\ RulesInPlace /\ StagesTrue
    BY DEF FAInv
<1>2. /\ stage'[c] \in {"none", "closing"} /\ stage' = [stage EXCEPT ![c] = stage'[c]]
      /\ handle' = [handle EXCEPT ![c] = NoRule]
    BY <1>1 DEF remove, ToStage, FlowTyped, FATypeOK
<1>3. /\ handle'[c] = NoRule /\ NoRule.id = 0 /\ NoRule.kind = "monostate" /\ c \notin polled'
      /\ \A d \in Conns \ {c} : /\ stage'[d] = stage[d] /\ handle'[d] = handle[d]
                                /\ (d \in polled' <=> d \in polled)
    BY <1>1, <1>2 DEF FlowTyped, FATypeOK, NoRule, LeavePoller
<1>4. StagesTrue'
    BY <1>1, <1>2, <1>3 DEF StagesTrue, GoneIsGone
<1>5. NoRule \in Handles /\ 0 <= lastRule /\ polled' \subseteq Conns
    BY <1>1 DEF Handles, FlowTyped, FATypeOK, LeavePoller
<1>6. \A k \in calls : k.conn \in Conns /\ (k.conn = c => k.at # "answered")
    BY <1>1 DEF FlowTyped, Requests, RequestsNameLives, Wanted
<1>7. CASE handle[c].kind = "remote"
  <2>1. PICK i \in 1..MaxRules : i = handle[c].id /\ handle[c] = Remote(i)
      BY <1>1, <1>7, HandleKinds DEF NoRule
  <2> DEFINE m == [conn |-> c, life |-> life[c], op |-> "destroy", at |-> "sent", id |-> i, queue |-> 0]
  <2>2. calls' = calls \cup {m} /\ UNCHANGED nic /\ stage'[c] = "closing"
      BY <1>1, <1>7, <2>1 DEF remove, ToStage, FlowTyped, FATypeOK
  <2>3. /\ m \in Requests /\ m.conn = c /\ m.life = life[c] /\ m.op = "destroy" /\ m.at = "sent" /\ m.id = i
        /\ life[c] \in Nat /\ i <= lastRule
    <3>1. i \in 0..MaxRules /\ 0 \in 0..(nb_rx_queues - 1)
        BY FlowAssumption
    <3>2. i <= lastRule /\ life[c] \in Nat
        BY <1>1, <2>1 DEF FlowTyped, IdsIssued
    <3> QED
        BY <3>1, <3>2 DEF Requests
  <2> HIDE DEF m
  <2>4. FlowTyped'
      BY <1>1, <1>2, <1>5, <2>2, <2>3 DEF FlowTyped, FATypeOK
  <2>5. RequestsNameLives'
    <3>1. ASSUME NEW k \in calls' PROVE k.life <= life[k.conn] /\ (k.at = "answered" => Wanted(k)')
      <4>1. CASE k = m
          BY <2>3, <4>1
      <4>2. CASE k \in calls
          BY <1>1, <1>3, <1>6, <4>2 DEF RequestsNameLives, Wanted
      <4> QED
          BY <2>2, <4>1, <4>2
    <3>2. \A k \in calls' : k.life = life[k.conn] =>
              /\ stage'[k.conn] \notin {"created", "added"}
              /\ k.op = "install" => k.queue = queue[k.conn]
        BY <1>1, <1>3, <1>6, <2>2, <2>3 DEF RequestsNameLives
    <3>3. \A k, l \in calls' : k.op = "install" /\ l.op = "install" /\ k.conn = l.conn /\ k.life = l.life => k = l
        BY <1>1, <2>2, <2>3 DEF RequestsNameLives
    <3> QED
        BY <3>1, <3>2, <3>3 DEF RequestsNameLives
  <2>6. IdsIssued'
      BY <1>1, <1>3, <1>5, <2>2, <2>3 DEF IdsIssued
  <2>7. OneUser'
    <3>1. \A d \in Conns \ {c} : handle[d].kind = "remote" => handle[d].id # i
        BY <1>1, <1>7, <2>1, HandleKinds DEF OneUser, NoRule
    <3>2. \A k \in calls : ~Answered(k, i)
        BY <1>1, <1>7, <2>1 DEF OneUser
    <3> QED
        BY <1>1, <1>3, <2>2, <2>3, <3>1, <3>2 DEF OneUser, Answered, Destroying
  <2>8. RulesInPlace'
    <3>1. \A r \in nic : r.rule \in DOMAIN rules \/ \E d \in Conns : handle'[d] = Local(r.rule)
      <4> SUFFICES ASSUME NEW r \in nic, r.rule \notin DOMAIN rules
                   PROVE  \E d \in Conns : handle'[d] = Local(r.rule)
          OBVIOUS
      <4>1. PICK d \in Conns : handle[d] = Local(r.rule)
          BY <1>1 DEF RulesInPlace
      <4>2. d # c
          BY <1>7, <4>1 DEF Local
      <4> QED
          BY <1>3, <4>1, <4>2
    <3>2. \A d \in Conns : \A j : OnNic(j, d)' <=> OnNic(j, d)
        BY <2>2 DEF OnNic
    <3> QED
        BY <1>1, <1>3, <1>6, <2>2, <2>3, <3>1, <3>2 DEF RulesInPlace, Answered
  <2> QED
      BY <1>4, <2>4, <2>5, <2>6, <2>7, <2>8 DEF FAInv
<1>8. CASE handle[c].kind # "remote"
  <2>1. UNCHANGED calls /\ nic' = {r \in nic : Local(r.rule) # handle[c]} /\ stage'[c] = "none"
      BY <1>1, <1>8 DEF remove, ToStage, FlowTyped, FATypeOK
  <2>2. FlowTyped'
      BY <1>1, <1>2, <1>5, <2>1 DEF FlowTyped, FATypeOK
  <2>3. RequestsNameLives'
      BY <1>1, <1>3, <1>6, <2>1 DEF RequestsNameLives, Wanted
  <2>4. IdsIssued'
      BY <1>1, <1>3, <1>5, <2>1 DEF IdsIssued
  <2>5. OneUser'
      BY <1>1, <1>3, <2>1 DEF OneUser, Answered, Destroying
  <2>6. RulesInPlace'
    <3>1. \A j : j \in DOMAIN rules => Local(j) # handle[c]
        BY <1>1 DEF OneUser, Local
    <3>2. \A d \in Conns : \A j : OnNic(j, d) /\ Local(j) # handle[c] => OnNic(j, d)'
        BY <2>1 DEF OnNic
    <3>3. \A d \in Conns \ {c} : handle[d].kind = "local" => OnNic(handle[d].id, d)'
      <4> SUFFICES ASSUME NEW d \in Conns \ {c}, handle[d].kind = "local"
                   PROVE  OnNic(handle[d].id, d)'
          OBVIOUS
      <4>1. handle[d] = Local(handle[d].id) /\ handle[d] # NoRule
          BY <1>1, HandleKinds DEF NoRule
      <4>2. handle[d] # handle[c]
          BY <1>1, <4>1 DEF OneUser
      <4>3. OnNic(handle[d].id, d)
          BY <1>1 DEF RulesInPlace
      <4>4. [rule |-> handle[d].id, conn |-> d, queue |-> queue[d]] \in nic'
          BY <2>1, <4>1, <4>2, <4>3 DEF OnNic
      <4> QED
          BY <1>3, <4>4 DEF OnNic
    <3>4. \A r \in nic' : r.rule \in DOMAIN rules \/ \E d \in Conns : handle'[d] = Local(r.rule)
      <4> SUFFICES ASSUME NEW r \in nic', r.rule \notin DOMAIN rules
                   PROVE  \E d \in Conns : handle'[d] = Local(r.rule)
          OBVIOUS
      <4>1. PICK d \in Conns : handle[d] = Local(r.rule)
          BY <1>1, <2>1 DEF RulesInPlace
      <4>2. d # c
          BY <2>1, <4>1
      <4> QED
          BY <1>3, <4>1, <4>2
    <3>5. \A j \in DOMAIN rules : \E r \in nic' : r.rule = j
        BY <1>1, <2>1, <3>1 DEF RulesInPlace
    <3> QED
        BY <1>1, <1>3, <1>6, <2>1, <3>1, <3>2, <3>3, <3>4, <3>5 DEF RulesInPlace, Answered
  <2> QED
      BY <1>4, <2>2, <2>3, <2>4, <2>5, <2>6 DEF FAInv
<1> QED
    BY <1>7, <1>8

LEMMA ComesUpKeeps ==
    ASSUME FAInv, NEW c \in Conns, stage[c] = "ruled", stage' = [stage EXCEPT ![c] = "up"],
           UNCHANGED <<dispatch, queue, handle, polled, nic, rules, lastRule, calls, life, primaryState>>
    PROVE  FAInv'
<1>1. FlowTyped /\ RequestsNameLives /\ IdsIssued /\ OneUser /\ RulesInPlace /\ StagesTrue
    BY DEF FAInv
<1>2. stage'[c] = "up" /\ \A d \in Conns \ {c} : stage'[d] = stage[d]
    BY <1>1 DEF FlowTyped, FATypeOK
<1>3. FlowTyped' /\ StagesTrue'
    BY <1>1, <1>2 DEF FlowTyped, FATypeOK, StagesTrue, GoneIsGone
<1>4. \A k \in calls : k.conn \in Conns /\ (k.conn = c => k.at # "answered")
    BY <1>1 DEF FlowTyped, Requests, RequestsNameLives, Wanted
<1>5. RequestsNameLives'
    BY <1>1, <1>2, <1>4 DEF RequestsNameLives, Wanted
<1>6. IdsIssued' /\ OneUser' /\ RulesInPlace'
    BY <1>1 DEF IdsIssued, OneUser, RulesInPlace, Answered, Destroying, OnNic
<1> QED
    BY <1>3, <1>5, <1>6 DEF FAInv

\* Every step of a connection.
LEMMA ConnectionKeeps ==
    ASSUME FAInv, NEW c \in Conns,
           \/ create(c) \/ AddToPoller(c) \/ install_flow_rule(c) \/ AskDone(c) \/ AskTimeout(c)
           \/ RegisterIcmp(c) \/ destroy_conn(c) \/ ClosingEnds(c)
    PROVE  FAInv'
<1>1. FlowTyped /\ RequestsNameLives /\ StagesTrue
    BY DEF FAInv
<1>2. CASE install_flow_rule(c)
  <2>1. stage'[c] = "ruled" => UNCHANGED calls
      BY <1>1, <1>2 DEF install_flow_rule, ToStage, FlowTyped, FATypeOK
  <2> QED
      BY <1>2, <2>1, InstallLocalKeeps, InstallAskKeeps
<1>3. CASE AskDone(c)
  <2>1. PICK k \in calls :
            /\ stage[c] = "asking" /\ k.conn = c /\ k.at = "answered" /\ Wanted(k) /\ calls' = calls \ {k}
            /\ IF k.id # 0 THEN handle' = [handle EXCEPT ![c] = Remote(k.id)] /\ ToStage(c, "ruled") /\ UNCHANGED polled
               ELSE ToStage(c, "none") /\ polled' = LeavePoller(c) /\ UNCHANGED handle
            /\ UNCHANGED <<dispatch, queue, nic, rules, lastRule, primaryState, life>>
      BY <1>3 DEF AskDone
  <2>2. CASE k.id # 0
      BY <2>1, <2>2, AskDoneKeeps DEF ToStage
  <2>3. CASE k.id = 0
    <3>1. \A l \in calls' : l.conn = c => l.at # "answered"
        BY <1>1, <2>1 DEF FlowTyped, Requests, RequestsNameLives, Wanted
    <3> QED
        BY <2>1, <2>3, <3>1, GivesUpKeeps DEF ToStage
  <2> QED
      BY <2>2, <2>3
<1>4. CASE AskTimeout(c)
  <2>1. calls' \subseteq calls /\ \A k \in calls' : k.conn = c => k.at # "answered"
      BY <1>4 DEF AskTimeout
  <2> QED
      BY <1>4, <2>1, GivesUpKeeps DEF AskTimeout, ToStage
<1>5. CASE ClosingEnds(c)
  <2>1. calls' \subseteq calls /\ \A k \in calls' : k.conn = c => k.at # "answered"
      BY <1>5 DEF ClosingEnds
  <2>2. polled' = LeavePoller(c)
      BY <1>1, <1>5 DEF ClosingEnds, LeavePoller, StagesTrue, GoneIsGone
  <2> QED
      BY <1>5, <2>1, <2>2, GivesUpKeeps DEF ClosingEnds, ToStage
<1>6. CASE RegisterIcmp(c)
    BY <1>6, ComesUpKeeps, RemoveKeeps DEF RegisterIcmp, ToStage
<1>7. CASE destroy_conn(c)
    BY <1>7, RemoveKeeps DEF destroy_conn
<1> QED
    BY <1>2, <1>3, <1>4, <1>5, <1>6, <1>7, CreateKeeps, AddToPollerKeeps

\* The primary moves one request on, or drops it.
MovesOn(k, how, id) ==
    LET l == [k EXCEPT !.at = how, !.id = id]
    IN  calls' = (calls \ {k}) \cup {l} \/ calls' = calls \ {k}

\* A step of the primary leaves the connections and their lives alone.
LEMMA MovesOnKeeps ==
    ASSUME FAInv, NEW k \in calls, NEW how \in {"working", "answered"}, NEW id \in 0..MaxRules,
           MovesOn(k, how, id), k \notin calls' \/ k.at = how,
           how = "answered" => Wanted(k) \/ calls' = calls \ {k},
           UNCHANGED <<dispatch, stage, queue, handle, polled, life>>
    PROVE  /\ calls' \subseteq Requests /\ RequestsNameLives' /\ StagesTrue'
           /\ \A l \in calls' : \/ l \in calls
                                \/ /\ l.conn = k.conn /\ l.op = k.op /\ l.at = how /\ l.id = id
                                   /\ how = "answered" => Wanted(k)
<1>1. FlowTyped /\ RequestsNameLives /\ StagesTrue /\ k \in Requests
    BY DEF FAInv, FlowTyped
<1> DEFINE l == [k EXCEPT !.at = how, !.id = id]
<1>2. /\ l \in Requests /\ l.conn = k.conn /\ l.op = k.op /\ l.at = how /\ l.id = id
      /\ l.life = k.life /\ l.queue = k.queue
    BY <1>1 DEF Requests
<1>3. calls' = (calls \ {k}) \cup {l} \/ calls' = calls \ {k}
    BY DEF MovesOn
<1> HIDE DEF l
<1>4. calls' \subseteq Requests
    BY <1>1, <1>2, <1>3 DEF FlowTyped
<1>5. StagesTrue'
    BY <1>1 DEF StagesTrue, GoneIsGone
<1>6. l \in calls' /\ l \notin calls /\ how = "answered" => Wanted(k)
    BY <1>3
<1>7. RequestsNameLives'
  <2>1. ASSUME NEW m \in calls' PROVE m.life <= life[m.conn] /\ (m.at = "answered" => Wanted(m)')
    <3>1. CASE m \in calls
        BY <1>1, <3>1 DEF RequestsNameLives, Wanted
    <3>2. CASE m \notin calls
      <4>1. m = l /\ (how = "answered" => Wanted(k))
          BY <1>3, <1>6, <3>2
      <4> QED
          BY <1>1, <1>2, <4>1 DEF RequestsNameLives, Wanted
    <3> QED
        BY <3>1, <3>2
  <2>2. \A m \in calls' : m.life = life[m.conn] =>
            /\ stage[m.conn] \notin {"created", "added"}
            /\ m.op = "install" => m.queue = queue[m.conn]
      BY <1>1, <1>2, <1>3 DEF RequestsNameLives
  <2>3. \A m, n \in calls' : m.op = "install" /\ n.op = "install" /\ m.conn = n.conn /\ m.life = n.life => m = n
      BY <1>1, <1>2, <1>3 DEF RequestsNameLives
  <2> QED
      BY <2>1, <2>2, <2>3 DEF RequestsNameLives
<1> QED
    BY <1>2, <1>3, <1>4, <1>5, <1>6, <1>7

LEMMA AnswerMovesOn ==
    ASSUME NEW k, NEW id, Answer(k, id)
    PROVE  MovesOn(k, "answered", id) /\ (Wanted(k) \/ calls' = calls \ {k})
BY DEF Answer, Replace, MovesOn

LEMMA HandlerLoadsKeeps ==
    ASSUME FAInv, NEW k \in calls, HandlerLoads(k)
    PROVE  FAInv'
<1>1. FlowTyped /\ RequestsNameLives /\ IdsIssued /\ OneUser /\ RulesInPlace /\ StagesTrue /\ k \in Requests
    BY DEF FAInv, FlowTyped
<1>2. /\ k.at = "sent"
      /\ UNCHANGED <<dispatch, stage, queue, handle, polled, nic, rules, lastRule, primaryState, life>>
    BY DEF HandlerLoads
<1>3. k.id \in 0..MaxRules /\ 0 \in 0..MaxRules /\ 0 <= lastRule
    BY <1>1, FlowAssumption DEF Requests, FlowTyped, FATypeOK
<1>4. PICK how \in {"working", "answered"}, id \in 0..MaxRules :
          /\ MovesOn(k, how, id) /\ (how = "working" => id = k.id) /\ (how = "answered" => id = 0)
          /\ how = "answered" => Wanted(k) \/ calls' = calls \ {k}
  <2>1. CASE primaryState = "up"
    <3>1. [k EXCEPT !.at = "working"] = [k EXCEPT !.at = "working", !.id = k.id]
        BY <1>1 DEF Requests
    <3>2. MovesOn(k, "working", k.id)
        BY <2>1, <3>1 DEF HandlerLoads, Replace, MovesOn
    <3> QED
        BY <1>3, <3>2
  <2>2. CASE primaryState # "up"
    <3>1. Answer(k, 0)
        BY <2>2 DEF HandlerLoads
    <3> QED
        BY <1>3, <3>1, AnswerMovesOn
  <2> QED
      BY <2>1, <2>2
<1>5. k \notin calls'
  <2>1. [k EXCEPT !.at = how, !.id = id].at = how
      BY <1>1 DEF Requests
  <2> QED
      BY <1>2, <1>4, <2>1 DEF MovesOn
<1>6. /\ calls' \subseteq Requests /\ RequestsNameLives' /\ StagesTrue'
      /\ \A l \in calls' : \/ l \in calls
                           \/ l.conn = k.conn /\ l.op = k.op /\ l.at = how /\ l.id = id
    BY <1>2, <1>4, <1>5, MovesOnKeeps
<1>7. FlowTyped'
    BY <1>1, <1>2, <1>6 DEF FlowTyped, FATypeOK
<1>8. IdsIssued'
    BY <1>1, <1>2, <1>3, <1>4, <1>6 DEF IdsIssued
<1>9. \A l \in calls' : \A i :
          /\ Destroying(l, i) => \E m \in calls : Destroying(m, i)
          /\ Answered(l, i) /\ i # 0 => l \in calls
    BY <1>1, <1>2, <1>4, <1>6 DEF Destroying, Answered
<1>10. \A c \in Conns : handle[c].kind = "remote" => handle[c].id # 0
    BY <1>1, HandleKinds, FlowAssumption DEF NoRule
<1>11. OneUser'
  <2>1. ASSUME NEW c \in Conns, NEW l \in calls', handle[c].kind = "remote"
        PROVE  ~Answered(l, handle[c].id) /\ ~Destroying(l, handle[c].id)
      BY <1>1, <1>9, <1>10, <2>1 DEF OneUser
  <2>2. ASSUME NEW l \in calls', NEW m \in calls', Answered(l, l.id), l.id # 0
        PROVE  (Answered(m, l.id) => l = m) /\ ~Destroying(m, l.id)
      BY <1>1, <1>9, <2>2 DEF OneUser
  <2>3. \A l \in calls : \A i : (Answered(l, i)' <=> Answered(l, i)) /\ (Destroying(l, i)' <=> Destroying(l, i))
      BY DEF Answered, Destroying
  <2> QED
      BY <1>1, <1>2, <2>1, <2>2, <2>3 DEF OneUser, Answered, Destroying
<1>12. RulesInPlace'
    BY <1>1, <1>2, <1>9 DEF RulesInPlace, OnNic, Answered
<1> QED
    BY <1>6, <1>7, <1>8, <1>11, <1>12 DEF FAInv

\* A new rule is nobody's until its answer arrives.
LEMMA FdInstallKeeps ==
    ASSUME FAInv, NEW k \in calls, on_fd_install(k), lastRule' # lastRule
    PROVE  FAInv'
<1>1. FlowTyped /\ RequestsNameLives /\ IdsIssued /\ OneUser /\ RulesInPlace /\ StagesTrue /\ k \in Requests
    BY DEF FAInv, FlowTyped
<1> DEFINE rec(n) == [rule |-> n, conn |-> k.conn, queue |-> k.queue]
<1>2. PICK n \in 1..MaxRules :
          /\ lastRule = n - 1 /\ lastRule' = n /\ nic' = nic \cup {rec(n)} /\ Answer(k, n)
          /\ rules' = [i \in DOMAIN rules \cup {n} |-> IF i = n THEN n ELSE rules[i]]
          /\ k.at = "working" /\ k.op = "install"
          /\ UNCHANGED <<dispatch, stage, queue, handle, polled, primaryState, life>>
  <2>1. lastRule \in 0..MaxRules /\ lastRule < MaxRules /\ lastRule' = lastRule + 1
      BY <1>1 DEF on_fd_install, FlowTyped, FATypeOK
  <2>2. lastRule' \in 1..MaxRules /\ lastRule = lastRule' - 1
      BY <2>1, FlowAssumption
  <2> QED
      BY <2>2 DEF on_fd_install, HandOver
<1>3. n \in 0..MaxRules /\ n # 0 /\ rec(n).rule = n
    BY FlowAssumption
<1>4. rec(n) \in [rule : 1..MaxRules, conn : Conns, queue : 0..(nb_rx_queues - 1)]
    BY <1>1 DEF Requests
<1>5. DOMAIN rules' = DOMAIN rules \cup {n} /\ \A i \in DOMAIN rules' : rules'[i] = i
    BY <1>1, <1>2 DEF FlowTyped
<1>6. k \notin calls'
  <2>1. [k EXCEPT !.at = "answered", !.id = n].at = "answered"
      BY <1>1 DEF Requests
  <2> QED
      BY <1>2, <2>1, AnswerMovesOn DEF MovesOn
<1>7. /\ calls' \subseteq Requests /\ RequestsNameLives' /\ StagesTrue'
      /\ \A l \in calls' : \/ l \in calls
                           \/ l.conn = k.conn /\ l.op = k.op /\ l.at = "answered" /\ l.id = n /\ Wanted(k)
    BY <1>2, <1>3, <1>6, AnswerMovesOn, MovesOnKeeps
<1>8. Wanted(k) => k.conn \in Conns /\ k.queue = queue[k.conn]
    BY <1>1, <1>2 DEF Wanted, RequestsNameLives, Requests
<1>9. FlowTyped'
    BY <1>1, <1>2, <1>3, <1>4, <1>5, <1>7 DEF FlowTyped, FATypeOK
<1>10. /\ \A r \in nic : r.rule \in 0..MaxRules /\ r.rule < n
       /\ \A i \in DOMAIN rules : i \in 0..MaxRules /\ i < n
       /\ \A d \in Conns : handle[d].id \in 0..MaxRules /\ handle[d].id < n
       /\ \A l \in calls : l.id \in 0..MaxRules /\ l.id < n
  <2>1. \A d \in Conns : handle[d].id \in 0..MaxRules
      BY <1>1, HandleKinds
  <2>2. /\ \A r \in nic : r.rule \in 0..MaxRules
        /\ \A i \in DOMAIN rules : i \in 0..MaxRules
        /\ \A l \in calls : l.id \in 0..MaxRules
      BY <1>1 DEF FlowTyped, Requests
  <2>3. \A x \in 0..MaxRules : x <= lastRule => x < n
      BY <1>2
  <2> QED
      BY <1>1, <2>1, <2>2, <2>3 DEF IdsIssued
<1>11. IdsIssued'
  <2>1. n <= n /\ \A x \in 0..MaxRules : x < n => x <= n
      OBVIOUS
  <2> QED
      BY <1>2, <1>3, <1>5, <1>7, <1>10, <2>1 DEF IdsIssued
<1>12. \A l \in calls' : \/ l \in calls /\ l.id # n
                         \/ Answered(l, n) /\ l.op = "install" /\ l.id = n /\ l.at = "answered"
    BY <1>2, <1>7, <1>10 DEF Answered
<1>13. \A l, m \in calls' : l.id = n /\ m.id = n => l = m
  <2> DEFINE new == [k EXCEPT !.at = "answered", !.id = n]
  <2>1. \A l \in calls' : l \in calls \/ l = new
    <3>1. MovesOn(k, "answered", n)
        BY <1>2, AnswerMovesOn
    <3> QED
        BY <3>1 DEF MovesOn
  <2> HIDE DEF new
  <2> QED
      BY <1>10, <2>1
<1>14. OneUser'
  <2>1. \A c \in Conns : handle[c].id # n
      BY <1>10
  <2>2. ASSUME NEW c \in Conns, NEW l \in calls', handle[c].kind = "remote"
        PROVE  ~Answered(l, handle[c].id) /\ ~Destroying(l, handle[c].id)
      BY <1>1, <1>12, <2>1, <2>2 DEF OneUser, Answered, Destroying
  <2>3. ASSUME NEW l \in calls', NEW m \in calls', Answered(l, l.id), l.id # 0
        PROVE  (Answered(m, l.id) => l = m) /\ ~Destroying(m, l.id)
    <3>1. CASE l.id = n
        BY <1>12, <1>13, <3>1 DEF Answered, Destroying
    <3>2. CASE l.id # n
        BY <1>1, <1>12, <2>3, <3>2 DEF OneUser, Answered, Destroying
    <3> QED
        BY <3>1, <3>2
  <2> QED
      BY <1>1, <1>2, <1>5, <2>1, <2>2, <2>3 DEF OneUser, Answered, Destroying
<1>15. RulesInPlace'
  <2>1. \A c \in Conns : \A i : OnNic(i, c) => OnNic(i, c)'
      BY <1>2 DEF OnNic
  <2>2. ASSUME NEW l \in calls', Answered(l, l.id), l.id # 0, primaryState # "down"
        PROVE  l.id \in DOMAIN rules' /\ OnNic(l.id, l.conn)'
    <3>1. CASE l \in calls
      <4>1. l.conn \in Conns
          BY <1>1, <3>1 DEF FlowTyped, Requests
      <4> QED
          BY <1>1, <1>5, <2>1, <2>2, <3>1, <4>1 DEF RulesInPlace
    <3>2. CASE l \notin calls
      <4>1. l.id = n /\ l.conn = k.conn /\ Wanted(k)
          BY <1>7, <3>2
      <4>2. rec(n) \in nic'
          BY <1>2
      <4> QED
          BY <1>2, <1>5, <1>8, <4>1, <4>2 DEF OnNic
    <3> QED
        BY <3>1, <3>2
  <2>3. \A r \in nic' : r.rule \in DOMAIN rules' \/ \E c \in Conns : handle'[c] = Local(r.rule)
      BY <1>1, <1>2, <1>3, <1>5 DEF RulesInPlace
  <2>4. \A i \in DOMAIN rules' : \E r \in nic' : r.rule = i
      BY <1>1, <1>2, <1>3, <1>5 DEF RulesInPlace
  <2> QED
      BY <1>1, <1>2, <1>5, <2>1, <2>2, <2>3, <2>4 DEF RulesInPlace, Answered
<1> QED
    BY <1>7, <1>9, <1>11, <1>14, <1>15 DEF FAInv

\* The driver refuses: an answer without a rule.
LEMMA FdRefusalKeeps ==
    ASSUME FAInv, NEW k \in calls, k.at = "working", k.op = "install", Answer(k, 0),
           UNCHANGED <<dispatch, stage, queue, handle, polled, nic, rules, lastRule, primaryState, life>>
    PROVE  FAInv'
<1>1. FlowTyped /\ RequestsNameLives /\ IdsIssued /\ OneUser /\ RulesInPlace /\ StagesTrue /\ k \in Requests
    BY DEF FAInv, FlowTyped
<1>2. 0 \in 0..MaxRules /\ 0 <= lastRule
    BY <1>1, FlowAssumption DEF FlowTyped, FATypeOK
<1>3. k \notin calls'
  <2>1. [k EXCEPT !.at = "answered", !.id = 0].at = "answered"
      BY <1>1 DEF Requests
  <2> QED
      BY <2>1, AnswerMovesOn DEF MovesOn
<1>4. /\ calls' \subseteq Requests /\ RequestsNameLives' /\ StagesTrue'
      /\ \A l \in calls' : \/ l \in calls
                           \/ l.op = k.op /\ l.at = "answered" /\ l.id = 0
    BY <1>2, <1>3, AnswerMovesOn, MovesOnKeeps
<1>5. FlowTyped' /\ IdsIssued'
    BY <1>1, <1>2, <1>4 DEF FlowTyped, FATypeOK, IdsIssued
<1>6. \A l \in calls' : \A i : (Destroying(l, i) => l \in calls) /\ (Answered(l, i) /\ i # 0 => l \in calls)
    BY <1>4 DEF Destroying, Answered
<1>7. \A c \in Conns : handle[c].kind = "remote" => handle[c].id # 0
    BY <1>1, HandleKinds, FlowAssumption DEF NoRule
<1>8. OneUser'
  <2>1. ASSUME NEW c \in Conns, NEW l \in calls', handle[c].kind = "remote"
        PROVE  ~Answered(l, handle[c].id) /\ ~Destroying(l, handle[c].id)
      BY <1>1, <1>6, <1>7, <2>1 DEF OneUser
  <2>2. ASSUME NEW l \in calls', NEW m \in calls', Answered(l, l.id), l.id # 0
        PROVE  (Answered(m, l.id) => l = m) /\ ~Destroying(m, l.id)
      BY <1>1, <1>6, <2>2 DEF OneUser
  <2> QED
      BY <1>1, <2>1, <2>2 DEF OneUser, Answered, Destroying
<1>9. RulesInPlace'
    BY <1>1, <1>6 DEF RulesInPlace, OnNic, Answered
<1> QED
    BY <1>4, <1>5, <1>8, <1>9 DEF FAInv

\* A destroy takes a rule that no connection and no answer uses any more.
LEMMA FdDestroyKeeps ==
    ASSUME FAInv, NEW k \in calls, on_fd_destroy(k)
    PROVE  FAInv'
<1>1. FlowTyped /\ RequestsNameLives /\ IdsIssued /\ OneUser /\ RulesInPlace /\ StagesTrue /\ k \in Requests
    BY DEF FAInv, FlowTyped
<1>2. PICK n \in 0..MaxRules : n = k.id
    BY <1>1 DEF Requests
<1>3. /\ k.at = "working" /\ k.op = "destroy" /\ Answer(k, n) /\ Destroying(k, n)
      /\ nic' = {r \in nic : ~(n \in DOMAIN rules /\ r.rule = n)}
      /\ rules' = [i \in DOMAIN rules \ {n} |-> rules[i]]
      /\ UNCHANGED <<dispatch, stage, queue, handle, polled, lastRule, primaryState, life>>
    BY <1>1, <1>2 DEF on_fd_destroy, FlowTyped, Destroying
<1>4. DOMAIN rules' = DOMAIN rules \ {n} /\ \A i \in DOMAIN rules' : rules'[i] = i
    BY <1>1, <1>3 DEF FlowTyped
<1>5. k \notin calls'
  <2>1. [k EXCEPT !.at = "answered", !.id = n].at = "answered"
      BY <1>1 DEF Requests
  <2> QED
      BY <1>3, <2>1, AnswerMovesOn DEF MovesOn
<1>6. /\ calls' \subseteq Requests /\ RequestsNameLives' /\ StagesTrue'
      /\ \A l \in calls' : \/ l \in calls
                           \/ l.op = "destroy" /\ l.at = "answered" /\ l.id = n
    BY <1>2, <1>3, <1>5, AnswerMovesOn, MovesOnKeeps
<1>7. FlowTyped'
    BY <1>1, <1>3, <1>4, <1>6 DEF FlowTyped, FATypeOK
<1>8. IdsIssued'
    BY <1>1, <1>2, <1>3, <1>4, <1>6 DEF IdsIssued
<1>9. \A l \in calls' : \A i : (Destroying(l, i) => l \in calls) /\ (Answered(l, i) => l \in calls)
    BY <1>6 DEF Destroying, Answered
<1>10. OneUser'
  <2>1. ASSUME NEW c \in Conns, NEW l \in calls', handle[c].kind = "remote"
        PROVE  ~Answered(l, handle[c].id) /\ ~Destroying(l, handle[c].id)
      BY <1>1, <1>9, <2>1 DEF OneUser
  <2>2. ASSUME NEW l \in calls', NEW m \in calls', Answered(l, l.id), l.id # 0
        PROVE  (Answered(m, l.id) => l = m) /\ ~Destroying(m, l.id)
      BY <1>1, <1>9, <2>2 DEF OneUser
  <2> QED
      BY <1>1, <1>3, <1>4, <2>1, <2>2 DEF OneUser, Answered, Destroying
<1>11. RulesInPlace'
  <2>1. \A c \in Conns : \A i : OnNic(i, c) /\ (i # n \/ n \notin DOMAIN rules) => OnNic(i, c)'
      BY <1>3 DEF OnNic
  <2>2. \A c \in Conns : handle[c].kind = "remote" => handle[c].id # n
      BY <1>1, <1>3 DEF OneUser
  <2>3. \A c \in Conns : handle[c].kind = "local" => handle[c].id # n \/ n \notin DOMAIN rules
      BY <1>1 DEF OneUser
  <2>4. ASSUME NEW l \in calls', Answered(l, l.id), l.id # 0, primaryState # "down"
        PROVE  l.id \in DOMAIN rules' /\ OnNic(l.id, l.conn)'
    <3>1. l \in calls /\ l.conn \in Conns
        BY <1>1, <1>9, <2>4 DEF FlowTyped, Requests
    <3>2. l.id # n
        BY <1>1, <1>3, <2>4, <3>1 DEF OneUser
    <3> QED
        BY <1>1, <1>4, <2>1, <2>4, <3>1, <3>2 DEF RulesInPlace
  <2>5. \A r \in nic' : r.rule \in DOMAIN rules' \/ \E c \in Conns : handle'[c] = Local(r.rule)
      BY <1>1, <1>3, <1>4 DEF RulesInPlace
  <2>6. \A i \in DOMAIN rules' : \E r \in nic' : r.rule = i
      BY <1>1, <1>3, <1>4 DEF RulesInPlace
  <2>7. \A c \in Conns : handle[c].kind = "local" => OnNic(handle[c].id, c)'
      BY <1>1, <1>3, <2>1, <2>3 DEF RulesInPlace, OnNic
  <2>8. \A c \in Conns : handle[c].kind = "remote" /\ primaryState # "down" =>
            handle[c].id \in DOMAIN rules' /\ OnNic(handle[c].id, c)'
      BY <1>1, <1>3, <1>4, <2>1, <2>2 DEF RulesInPlace, OnNic
  <2> QED
      BY <1>3, <2>4, <2>5, <2>6, <2>7, <2>8 DEF RulesInPlace, Answered
<1> QED
    BY <1>6, <1>7, <1>8, <1>10, <1>11 DEF FAInv

LEMMA DestroyAllKeeps ==
    ASSUME FAInv, destroy_all
    PROVE  FAInv'
<1>1. FlowTyped /\ RequestsNameLives /\ IdsIssued /\ OneUser /\ RulesInPlace /\ StagesTrue
    BY DEF FAInv
<1>2. /\ nic' = {r \in nic : r.rule \notin DOMAIN rules} /\ rules' = << >> /\ primaryState' = "down"
      /\ UNCHANGED <<dispatch, stage, queue, handle, polled, lastRule, calls, life>>
    BY <1>1 DEF destroy_all, FlowTyped
<1>3. DOMAIN rules' = {}
    BY <1>2
<1>4. FlowTyped' /\ IdsIssued'
    BY <1>1, <1>2, <1>3 DEF FlowTyped, FATypeOK, IdsIssued
<1>5. RequestsNameLives' /\ OneUser' /\ StagesTrue'
    BY <1>1, <1>2, <1>3 DEF RequestsNameLives, Wanted, OneUser, Answered, Destroying, StagesTrue, GoneIsGone
<1>6. RulesInPlace'
  <2>1. \A c \in Conns : handle[c].kind = "local" => OnNic(handle[c].id, c)'
      BY <1>1, <1>2 DEF RulesInPlace, OneUser, OnNic
  <2>2. \A r \in nic' : \E c \in Conns : handle'[c] = Local(r.rule)
      BY <1>1, <1>2 DEF RulesInPlace
  <2> QED
      BY <1>2, <1>3, <2>1, <2>2 DEF RulesInPlace
<1> QED
    BY <1>4, <1>5, <1>6 DEF FAInv

LEMMA FANextInv == FAInv /\ [FANext]_FAvars => FAInv'
<1> SUFFICES ASSUME FAInv, [FANext]_FAvars PROVE FAInv'
    OBVIOUS
<1> USE DEF FAInv, FlowTyped, FATypeOK, RequestsNameLives, Wanted, IdsIssued, OneUser, Answered, Destroying,
            RulesInPlace, OnNic, StagesTrue, GoneIsGone
<1>1. CASE UNCHANGED FAvars
    BY <1>1 DEF FAvars
<1>2. CASE ClearPointer
    BY <1>2 DEF ClearPointer
<1> HIDE DEF FAInv
<1>3. ASSUME NEW k \in calls, on_fd_install(k) PROVE FAInv'
  <2>1. lastRule' # lastRule \/ (Answer(k, 0) /\ UNCHANGED <<nic, rules, lastRule>>)
    <3>1. lastRule \in Int
        BY DEF FAInv
    <3> QED
        BY <1>3, <3>1 DEF on_fd_install
  <2> QED
      BY <1>3, <2>1, FdInstallKeeps, FdRefusalKeeps DEF on_fd_install
<1> QED
    BY <1>1, <1>2, <1>3, ConnectionKeeps, HandlerLoadsKeeps, FdDestroyKeeps, DestroyAllKeeps DEF FANext

\* FlowAttach: for any number of connections, lives, rules and queues, a
\* connection that is up is steered to its queue by the rule it will remove, and
\* every rule on the NIC has one owner, whatever requests to the primary time
\* out, arrive late or meet its shutdown.
THEOREM AttachAlwaysTrue == FASpec => []AttachTrue
<1>1. FAInv => AttachTrue
  <2> SUFFICES ASSUME FAInv PROVE AttachTrue
      OBVIOUS
  <2>1. FlowTyped /\ OneUser /\ RulesInPlace /\ StagesTrue
      BY DEF FAInv
  <2>2. UpIsSteered
    <3> SUFFICES ASSUME NEW c \in Conns, stage[c] = "up"
                 PROVE  /\ c \in polled
                        /\ dispatch = "FlowDirector" /\ primaryState # "down" =>
                              \E r \in nic : r.conn = c /\ r.queue = queue[c]
                                             /\ (handle[c] = Local(r.rule)
                                                 \/ \E i \in DOMAIN rules : handle[c] = Remote(i) /\ rules[i] = r.rule)
        BY DEF UpIsSteered
    <3>1. c \in polled /\ (dispatch = "FlowDirector" => handle[c].kind \in {"local", "remote"})
        BY <2>1, HandleKinds DEF StagesTrue
    <3>2. ASSUME dispatch = "FlowDirector", primaryState # "down"
          PROVE  \E r \in nic : r.conn = c /\ r.queue = queue[c]
                                /\ (handle[c] = Local(r.rule)
                                    \/ \E i \in DOMAIN rules : handle[c] = Remote(i) /\ rules[i] = r.rule)
      <4> DEFINE r == [rule |-> handle[c].id, conn |-> c, queue |-> queue[c]]
      <4>1. r \in nic /\ (handle[c].kind = "remote" => handle[c].id \in DOMAIN rules)
          BY <2>1, <3>1, <3>2 DEF RulesInPlace, OnNic
      <4>2. r.rule = handle[c].id /\ r.conn = c /\ r.queue = queue[c]
          OBVIOUS
      <4>3. handle[c] = Local(r.rule) \/ (handle[c] = Remote(r.rule) /\ handle[c].kind = "remote")
          BY <2>1, <3>1, <3>2, <4>2, HandleKinds
      <4> HIDE DEF r
      <4> QED
          BY <2>1, <4>1, <4>2, <4>3 DEF FlowTyped
    <3> QED
        BY <3>1, <3>2
  <2>3. RulesAccounted
    <3> DEFINE own == {handle[c].id : c \in {d \in Conns : handle[d].kind = "local"}}
               map == {rules[i] : i \in DOMAIN rules}
    <3>1. map = DOMAIN rules
        BY <2>1 DEF FlowTyped
    <3>2. own \cap map = {}
        BY <2>1, <3>1 DEF OneUser
    <3>3. \A r \in nic : r.rule \in own \cup map
      <4> SUFFICES ASSUME NEW r \in nic, r.rule \notin DOMAIN rules
                   PROVE  r.rule \in own
          BY <3>1
      <4>1. PICK c \in Conns : handle[c] = Local(r.rule)
          BY <2>1 DEF RulesInPlace
      <4>2. handle[c].kind = "local" /\ handle[c].id = r.rule
          BY <4>1 DEF Local
      <4> QED
          BY <4>2
    <3>4. own \cup map \subseteq {r.rule : r \in nic}
      <4>1. ASSUME NEW c \in Conns, handle[c].kind = "local" PROVE \E r \in nic : r.rule = handle[c].id
          BY <2>1, <4>1 DEF RulesInPlace, OnNic
      <4>2. ASSUME NEW i \in DOMAIN rules PROVE \E r \in nic : r.rule = i
          BY <2>1 DEF RulesInPlace
      <4>3. \A x \in own : \E r \in nic : r.rule = x
          BY <4>1
      <4>4. \A x \in map : \E r \in nic : r.rule = x
          BY <3>1, <4>2
      <4> QED
          BY <4>3, <4>4
    <3> QED
        BY <3>2, <3>3, <3>4 DEF RulesAccounted
  <2> QED
      BY <2>1, <2>2, <2>3 DEF AttachTrue, FlowTyped, StagesTrue
<1> QED
    BY <1>1, FAInitInv, FANextInv, PTL DEF FASpec
=============================================================================
