----------------------------- MODULE FlowAttach -----------------------------
(***************************************************************************)
(* create_and_attach of the DPDK streams and sockets, and the flow rules   *)
(* behind it: the queue by dispatch mode, the poller, the NIC's rule --    *)
(* from this process, or through a request to the primary that may time    *)
(* out while the primary still works on it -- and the way back out of each *)
(* step.                                                                   *)
(***************************************************************************)
EXTENDS Integers, FiniteSets

CONSTANTS Conns,             \* streams and sockets of one secondary process
          IsTcp(_),
          nb_rx_queues,
          QueueLo, QueueHi,  \* effective_rx_queue_range()
          MaxRules,          \* bound: rules ever installed
          MaxLives           \* bound: times a connection is created

ASSUME FlowAssumption ==
    /\ nb_rx_queues \in Nat /\ QueueLo \in Nat /\ QueueHi \in Nat
    /\ QueueLo < QueueHi /\ QueueHi <= nb_rx_queues
    /\ MaxRules \in Nat /\ MaxLives \in Nat

VARIABLES
    dispatch,     \* platform.dispatch_mode()
    stage, queue, \* of a connection: how far create_and_attach is, and target_qid
    handle,       \* flow_rule_->handle
    polled,       \* connections on their queue's poller
    nic,          \* the port's rules: [rule, conn, queue]
    rules,        \* the primary's RemoteFlowRulesMap: handle_id -> rule
    lastRule,     \* rules created so far; the primary's next_id_ follows its own
    calls,        \* requests to the primary, and its answers
    life,         \* of a connection: how often it was created; names its requests
    primaryState  \* "up", "cleared" (the handlers' pointer is null), "down"

FAvars == <<dispatch, stage, queue, handle, polled, nic, rules, lastRule, calls, life, primaryState>>

Modes == {"Software", "RssPartitioned", "FlowDirector"}
NoRule == [kind |-> "monostate", id |-> 0]
Local(r) == [kind |-> "local", id |-> r]
Remote(i) == [kind |-> "remote", id |-> i]
Handles == {NoRule} \cup [kind : {"local", "remote"}, id : 1..MaxRules]
NotPinned == -1

FAInit ==
    /\ dispatch \in Modes /\ stage = [c \in Conns |-> "none"] /\ queue = [c \in Conns |-> 0]
    /\ handle = [c \in Conns |-> NoRule] /\ polled = {} /\ nic = {} /\ rules = << >> /\ lastRule = 0
    /\ calls = {} /\ life = [c \in Conns |-> 0] /\ primaryState = "up"

ToStage(c, s) == stage' = [stage EXCEPT ![c] = s]

-----------------------------------------------------------------------------
(* create_and_attach. *)

\* The queues a configuration may end on: none is a refusal.
TargetQueues(pin) ==
    CASE dispatch = "Software" -> IF pin \in {NotPinned, 0} THEN {0} ELSE {}
      [] dispatch = "RssPartitioned" -> IF pin \in 0..(nb_rx_queues - 1) THEN {pin} ELSE {}
      [] OTHER -> IF pin = NotPinned THEN QueueLo..(QueueHi - 1)
                  ELSE IF pin < nb_rx_queues THEN {pin} ELSE {}

create(c) ==
    /\ stage[c] = "none"
    /\ \E pin \in -1..nb_rx_queues : \E q \in TargetQueues(pin) : queue' = [queue EXCEPT ![c] = q]
    /\ life[c] < MaxLives /\ life' = [life EXCEPT ![c] = @ + 1] /\ ToStage(c, "created")
    /\ UNCHANGED <<dispatch, handle, polled, nic, rules, lastRule, calls, primaryState>>

AddToPoller(c) ==
    /\ stage[c] = "created"
    /\ \/ polled' = polled \cup {c} /\ ToStage(c, IF dispatch = "FlowDirector" THEN "added" ELSE "ruled")
       \/ polled' = polled /\ ToStage(c, "none")
    /\ UNCHANGED <<dispatch, queue, handle, nic, rules, lastRule, calls, primaryState, life>>

RuleQueue(c) == queue[c]

LeavePoller(c) == polled \ {c}

\* rte_flow_create in this process; where the driver refuses, the primary is asked.
install_flow_rule(c) ==
    /\ stage[c] = "added"
    /\ \/ /\ lastRule < MaxRules /\ lastRule' = lastRule + 1
          /\ nic' = nic \cup {[rule |-> lastRule', conn |-> c, queue |-> RuleQueue(c)]}
          /\ handle' = [handle EXCEPT ![c] = Local(lastRule')] /\ ToStage(c, "ruled")
          /\ UNCHANGED calls
       \/ /\ calls' = calls \cup {[conn |-> c, life |-> life[c], op |-> "install", at |-> "sent", id |-> 0, queue |-> RuleQueue(c)]}
          /\ ToStage(c, "asking") /\ UNCHANGED <<nic, lastRule, handle>>
    /\ UNCHANGED <<dispatch, queue, polled, rules, primaryState, life>>

\* Its caller still waits for the answer.
Wanted(k) == k.life = life[k.conn] /\ stage[k.conn] = IF k.op = "install" THEN "asking" ELSE "closing"

\* The answer in time.
AskDone(c) ==
    \E k \in calls :
        /\ stage[c] = "asking" /\ k.conn = c /\ k.at = "answered" /\ Wanted(k) /\ calls' = calls \ {k}
        /\ IF k.id # 0 THEN handle' = [handle EXCEPT ![c] = Remote(k.id)] /\ ToStage(c, "ruled") /\ UNCHANGED polled
           ELSE ToStage(c, "none") /\ polled' = LeavePoller(c) /\ UNCHANGED handle
        /\ UNCHANGED <<dispatch, queue, nic, rules, lastRule, primaryState, life>>

\* 5 s without one: the connection is given up, the primary may yet install.
AskTimeout(c) ==
    /\ stage[c] = "asking" /\ ToStage(c, "none") /\ polled' = LeavePoller(c)
    /\ calls' = {k \in calls : ~(k.conn = c /\ k.at = "answered")}
    /\ UNCHANGED <<dispatch, queue, handle, nic, rules, lastRule, primaryState, life>>

\* FlowRule::remove, from the destructor.
remove(c) ==
    /\ handle' = [handle EXCEPT ![c] = NoRule]
    /\ IF handle[c].kind = "remote"
       THEN calls' = calls \cup {[conn |-> c, life |-> life[c], op |-> "destroy", at |-> "sent", id |-> handle[c].id, queue |-> 0]}
            /\ ToStage(c, "closing") /\ UNCHANGED nic
       ELSE nic' = {r \in nic : Local(r.rule) # handle[c]} /\ ToStage(c, "none") /\ UNCHANGED calls

\* register_icmp_target may refuse; UdpSocket has none.
RegisterIcmp(c) ==
    /\ stage[c] = "ruled"
    /\ \/ ToStage(c, "up") /\ UNCHANGED <<polled, handle, nic, calls>>
       \/ IsTcp(c) /\ polled' = LeavePoller(c) /\ remove(c)
    /\ UNCHANGED <<dispatch, queue, rules, lastRule, primaryState, life>>

destroy_conn(c) ==
    /\ stage[c] = "up" /\ polled' = LeavePoller(c) /\ remove(c)
    /\ UNCHANGED <<dispatch, queue, rules, lastRule, primaryState, life>>

\* The destroy request's answer, or 2 s: the destructor ends either way.
ClosingEnds(c) ==
    /\ stage[c] = "closing" /\ ToStage(c, "none")
    /\ calls' = {k \in calls : ~(k.conn = c /\ k.at = "answered")}
    /\ UNCHANGED <<dispatch, queue, handle, polled, nic, rules, lastRule, primaryState, life>>

-----------------------------------------------------------------------------
(* The primary: one request at a time, and its own end. *)

Busy == \E k \in calls : k.at = "working"
Replace(k, l) == calls' = (calls \ {k}) \cup {l}

\* rte_mp_reply: nobody waits for an answer that is late.
Answer(k, id) ==
    IF Wanted(k) THEN Replace(k, [k EXCEPT !.at = "answered", !.id = id]) ELSE calls' = calls \ {k}

\* The handler loads g_active_remote_flow_rules once.
HandlerLoads(k) ==
    /\ k.at = "sent" /\ ~Busy
    /\ IF primaryState = "up" THEN Replace(k, [k EXCEPT !.at = "working"]) ELSE Answer(k, 0)
    /\ UNCHANGED <<dispatch, stage, queue, handle, polled, nic, rules, lastRule, primaryState, life>>

\* Mutant: the handler's own FlowRule destroys the rule when it returns.
RuleStillOwned(r) == nic

HandOver(r) == nic \cup {r}

on_fd_install(k) ==
    /\ k.at = "working" /\ k.op = "install"
    /\ \/ /\ lastRule < MaxRules /\ lastRule' = lastRule + 1
          /\ nic' = HandOver([rule |-> lastRule', conn |-> k.conn, queue |-> k.queue])
          /\ rules' = [i \in DOMAIN rules \cup {lastRule'} |-> IF i = lastRule' THEN lastRule' ELSE rules[i]]
          /\ Answer(k, lastRule')
       \/ Answer(k, 0) /\ UNCHANGED <<nic, rules, lastRule>>
    /\ UNCHANGED <<dispatch, stage, queue, handle, polled, primaryState, life>>

on_fd_destroy(k) ==
    /\ k.at = "working" /\ k.op = "destroy"
    /\ nic' = {r \in nic : ~(k.id \in DOMAIN rules /\ r.rule = rules[k.id])}
    /\ rules' = [i \in DOMAIN rules \ {k.id} |-> rules[i]]
    /\ Answer(k, k.id)
    /\ UNCHANGED <<dispatch, stage, queue, handle, polled, lastRule, primaryState, life>>

\* ~Impl: the pointer first, then destroy_all.
ClearPointer ==
    /\ primaryState = "up" /\ primaryState' = "cleared"
    /\ UNCHANGED <<dispatch, stage, queue, handle, polled, nic, rules, lastRule, calls, life>>
destroy_all ==
    /\ primaryState = "cleared" /\ primaryState' = "down"
    /\ nic' = {r \in nic : \A i \in DOMAIN rules : rules[i] # r.rule} /\ rules' = << >>
    /\ UNCHANGED <<dispatch, stage, queue, handle, polled, lastRule, calls, life>>

-----------------------------------------------------------------------------
FANext ==
    \/ \E c \in Conns :
        \/ create(c) \/ AddToPoller(c) \/ install_flow_rule(c) \/ AskDone(c) \/ AskTimeout(c)
        \/ RegisterIcmp(c) \/ destroy_conn(c) \/ ClosingEnds(c)
    \/ \E k \in calls : HandlerLoads(k) \/ on_fd_install(k) \/ on_fd_destroy(k)
    \/ ClearPointer \/ destroy_all

FASpec == FAInit /\ [][FANext]_FAvars

FATypeOK ==
    /\ dispatch \in Modes /\ primaryState \in {"up", "cleared", "down"}
    /\ stage \in [Conns -> {"none", "created", "added", "asking", "ruled", "up", "closing"}]
    /\ queue \in [Conns -> 0..(nb_rx_queues - 1)] /\ handle \in [Conns -> Handles]
    /\ polled \subseteq Conns /\ lastRule \in 0..MaxRules

\* A connection that is up is on its queue's poller, and under the flow director
\* the NIC sends it there by the very rule it will remove -- late installs and
\* late destroys of its earlier lives notwithstanding.
UpIsSteered ==
    \A c \in Conns : stage[c] = "up" =>
        /\ c \in polled
        /\ dispatch = "FlowDirector" /\ primaryState # "down" =>
              \E r \in nic : r.conn = c /\ r.queue = queue[c]
                             /\ (handle[c] = Local(r.rule)
                                 \/ \E i \in DOMAIN rules : handle[c] = Remote(i) /\ rules[i] = r.rule)

\* Every rule on the NIC will be removed by exactly one owner: the connection
\* that installed it, or the primary's map, where a timeout leaves what nobody
\* asks for any more.
RulesAccounted ==
    LET own == {handle[c].id : c \in {d \in Conns : handle[d].kind = "local"}}
        map == {rules[i] : i \in DOMAIN rules}
    IN  own \cap map = {} /\ {r.rule : r \in nic} = own \cup map

\* create_and_attach that failed, or a destructor, leaves nothing behind in its process.
GoneIsGone == \A c \in Conns : stage[c] \in {"none", "created", "closing"} => c \notin polled /\ handle[c] = NoRule

\* A connection that is up is steered to its queue, and every rule on the NIC
\* belongs to somebody who will remove it.
AttachTrue ==
    /\ FATypeOK /\ UpIsSteered /\ RulesAccounted /\ GoneIsGone
=============================================================================
