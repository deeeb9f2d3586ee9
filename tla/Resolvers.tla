----------------------------- MODULE Resolvers ------------------------------
(***************************************************************************)
(* Names and addresses: the DNS and ARP resolvers, and the names in a DNS  *)
(* message.                                                                *)
(***************************************************************************)
EXTENDS Integers, Sequences, SequencesExt

-----------------------------------------------------------------------------
(***************************************************************************)
(* Name and address resolution over DPDK: AsyncDnsResolverT, driven by a   *)
(* DpdkPoller, and the blocking dns::resolve and arp::resolve_with_io.     *)
(* All three send a request up to kMaxAttempts times, look for an answer   *)
(* among whatever the queue delivers, and give up at a deadline.           *)
(*                                                                         *)
(* A packet is what the filters look at: who it is from (the nameserver or *)
(* the address asked for), whom it is to (our address and port), whether   *)
(* it names this request (transaction id; for ARP the expected MAC), and   *)
(* whether it holds a usable answer.  Time is the time stamp counter.      *)
(***************************************************************************)

CONSTANTS Timeout, RetryInterval, kMaxAttempts,
          MaxTime,       \* bound on the clock
          Word,          \* the counter's word: differences are taken modulo it
          MaxBurst,      \* bound on the packets of a burst
          StartInPoll    \* a callback of another pollable may call start() and add()

ASSUME ResolversAssumption ==
    /\ Timeout \in Nat \ {0} /\ RetryInterval \in Nat \ {0} /\ kMaxAttempts \in Nat
    /\ MaxTime \in Nat /\ Word \in Nat /\ Word > 2 * MaxTime /\ MaxBurst \in Nat
    /\ StartInPoll \in BOOLEAN

VARIABLES
    rkind,                 \* "async", "dns" or "arp"
    now, cycle,            \* the clock; cycle_tsc of the poll in progress, or NoCycle
    rstatus, rresult,      \* ResolveStatus, result_ip_
    attempts, start_tsc, next_send,
    rattached, routed,     \* attached_to_; the poller's tuple names our port
    ralive,                \* the resolver has not been destroyed
    listed,                \* the poller's entry for it
    held                   \* history: mbufs taken and neither freed nor sent

timervars == <<attempts, start_tsc, next_send>>
lifevars == <<rattached, routed, ralive, listed>>
RSvars == <<rkind, now, cycle, rstatus, rresult, timervars, lifevars, held>>

NoCycle == -1
Packets == [from : BOOLEAN, to : BOOLEAN, id : BOOLEAN, usable : BOOLEAN]
Genuine == [from |-> TRUE, to |-> TRUE, id |-> TRUE, usable |-> TRUE]
Bursts == UNION {[1..n -> Packets] : n \in 0..MaxBurst}

is_done == rstatus \in {"Ready", "TimedOut", "Error"}
Since(t) == (t - start_tsc) % Word

RSInit ==
    /\ rkind \in {"async", "dns", "arp"}
    /\ now = 0 /\ cycle = NoCycle
    /\ rstatus = "Idle" /\ rresult = "none"
    /\ attempts = 0 /\ start_tsc = 0 /\ next_send = 0
    /\ rattached = FALSE /\ routed = FALSE /\ ralive = TRUE /\ listed = FALSE
    /\ held = 0

RSTick == now < MaxTime /\ now' = now + 1
          /\ UNCHANGED <<rkind, cycle, rstatus, rresult, timervars, lifevars, held>>
-----------------------------------------------------------------------------
\* send_query_: the pool may be empty, and the NIC may not take the packet,
\* which is freed.  Only a packet on the wire counts as an attempt.
Outcomes == {"sent", "no mbuf", "not taken"}
attempts_after(o) == IF o = "sent" THEN attempts + 1 ELSE attempts

\* An answer to this query, without error, with an A record that lies in it.
parse_dns_response(p) == p.id /\ p.usable
try_parse_dns_packet(p) == p.from /\ p.to /\ parse_dns_response(p)
\* A reply about the address asked for, to us, with a unicast MAC that is the
\* expected one if there is one.
parse_arp_reply(p) == p.from /\ p.to /\ p.usable /\ p.id

AnyPort(p) == p.from /\ p.id /\ p.usable
TakesAnswer(p) == IF rkind = "arp" THEN parse_arp_reply(p) ELSE try_parse_dns_packet(p)
Value(p) == IF p = Genuine THEN "true" ELSE "false"

AnswerIn(burst) == SelectInSeq(burst, TakesAnswer)
-----------------------------------------------------------------------------
(* AsyncDnsResolverT *)

\* start() checks the configuration, draws a transaction id and a port, builds
\* the query and sends it; an address in dotted form needs none of that.
start_resolver(outcome) ==
    /\ rkind = "async" /\ ralive /\ rstatus = "Idle"
    /\ cycle # NoCycle => StartInPoll
    /\ \/ rstatus' = "Error" /\ UNCHANGED <<rresult, timervars>>
       \/ rstatus' = "Ready" /\ rresult' = "true" /\ UNCHANGED timervars
       \/ /\ now + Timeout <= MaxTime
          /\ rstatus' = "InProgress" /\ start_tsc' = now
          /\ next_send' = now + RetryInterval /\ attempts' = attempts_after(outcome)
          /\ UNCHANGED rresult
    /\ UNCHANGED <<rkind, now, cycle, lifevars, held>>

\* DpdkPoller::add reads the tuple; before start() the port in it is 0.
add_resolver ==
    /\ rkind = "async" /\ ralive /\ ~listed
    /\ cycle # NoCycle => StartInPoll
    /\ listed' = TRUE /\ rattached' = TRUE /\ routed' = (rstatus # "Idle")
    /\ UNCHANGED <<rkind, now, cycle, rstatus, rresult, timervars, ralive, held>>

Unlist == listed' = FALSE /\ rattached' = FALSE /\ routed' = FALSE

\* remove(), or the poller's destructor, which tells every entry.
detach_resolver ==
    /\ cycle = NoCycle /\ listed /\ Unlist
    /\ UNCHANGED <<rkind, now, cycle, rstatus, rresult, timervars, ralive, held>>

RemoveIfAttached == IF rattached THEN Unlist ELSE UNCHANGED <<rattached, routed, listed>>

destroy_resolver ==
    /\ rkind = "async" /\ cycle = NoCycle /\ ralive
    /\ ralive' = FALSE /\ RemoveIfAttached
    /\ UNCHANGED <<rkind, now, cycle, rstatus, rresult, timervars, held>>

\* poll() reads the clock once, hands out the packets, and ticks every entry
\* with the time it read.
begin_poll ==
    /\ rkind = "async" /\ cycle = NoCycle /\ cycle' = now
    /\ UNCHANGED <<rkind, now, rstatus, rresult, timervars, lifevars, held>>

Parses == ~is_done

\* Every packet is freed, and only the first answer counts.
process_answers(burst) ==
    /\ rkind = "async" /\ cycle # NoCycle /\ listed /\ routed
    /\ burst # <<>>
    /\ IF Parses /\ AnswerIn(burst) # 0
       THEN rstatus' = "Ready" /\ rresult' = Value(burst[AnswerIn(burst)])
       ELSE UNCHANGED <<rstatus, rresult>>
    /\ UNCHANGED <<rkind, now, cycle, timervars, lifevars, held>>

Deadline(t) == Since(t) >= Timeout

on_poll_tick(t, outcome) ==
    IF rstatus # "InProgress" THEN UNCHANGED <<rstatus, timervars>>
    ELSE IF Deadline(t) THEN rstatus' = "TimedOut" /\ UNCHANGED timervars
    ELSE IF attempts < kMaxAttempts /\ t >= next_send
    THEN /\ attempts' = attempts_after(outcome) /\ next_send' = t + RetryInterval
         /\ UNCHANGED <<rstatus, start_tsc>>
    ELSE UNCHANGED <<rstatus, timervars>>

end_poll(outcome) ==
    /\ cycle # NoCycle /\ cycle' = NoCycle
    /\ IF listed THEN on_poll_tick(cycle, outcome) ELSE UNCHANGED <<rstatus, timervars>>
    /\ UNCHANGED <<rkind, now, rresult, lifevars, held>>
-----------------------------------------------------------------------------
(* dns::resolve and arp::resolve_with_io *)

resolve ==
    /\ rkind # "async" /\ rstatus = "Idle" /\ now + Timeout <= MaxTime
    /\ \/ rstatus' = "Error" /\ UNCHANGED <<rresult, timervars>>
       \/ rkind = "dns" /\ rstatus' = "Ready" /\ rresult' = "true" /\ UNCHANGED timervars
       \/ rstatus' = "InProgress" /\ start_tsc' = now /\ UNCHANGED <<rresult, attempts, next_send>>
    /\ UNCHANGED <<rkind, now, cycle, lifevars, held>>

\* The packets freed: one by one up to the answer, then the rest of the burst.
Freed(burst, i) == IF i = 0 THEN Len(burst) ELSE (i - 1) + (Len(burst) - i + 1)

Receive(burst) ==
    LET i == AnswerIn(burst)
    IN  /\ held' = held + Len(burst) - Freed(burst, i)
        /\ IF i = 0 THEN UNCHANGED <<rstatus, rresult>>
           ELSE rstatus' = "Ready" /\ rresult' = Value(burst[i])

\* One turn of the loop: send if it is time, then look at a burst.  Without an
\* mbuf the blocking resolvers give up at once.
resolve_turn(outcome, burst) ==
    /\ rkind # "async" /\ rstatus = "InProgress"
    /\ \/ /\ now >= start_tsc + Timeout
          /\ rstatus' = "TimedOut" /\ UNCHANGED <<rresult, timervars, held>>
       \/ /\ now < start_tsc + Timeout
          /\ IF attempts < kMaxAttempts /\ now >= next_send
             THEN IF outcome = "no mbuf"
                  THEN rstatus' = "Error" /\ UNCHANGED <<rresult, timervars, held>>
                  ELSE /\ attempts' = attempts_after(outcome)
                       /\ next_send' = now + RetryInterval
                       /\ UNCHANGED start_tsc /\ Receive(burst)
             ELSE UNCHANGED timervars /\ Receive(burst)
    /\ UNCHANGED <<rkind, now, cycle, lifevars>>
-----------------------------------------------------------------------------
turn == rkind # "async" /\ rstatus = "InProgress" /\ \E o \in Outcomes, b \in Bursts : resolve_turn(o, b)

RSNext ==
    \/ RSTick \/ add_resolver \/ detach_resolver \/ destroy_resolver \/ begin_poll \/ resolve
    \/ \E o \in Outcomes : start_resolver(o) \/ end_poll(o)
    \/ listed /\ \E b \in Bursts : process_answers(b)
    \/ turn

\* The clock runs, the owner polls or the loop turns.
RSFairness ==
    /\ WF_RSvars(RSTick) /\ WF_RSvars(begin_poll) /\ WF_RSvars(\E o \in Outcomes : end_poll(o))
    /\ WF_RSvars(turn)

RSTypeOK ==
    /\ now \in 0..MaxTime /\ cycle \in {NoCycle} \cup 0..MaxTime
    /\ rstatus \in {"Idle", "InProgress", "Ready", "TimedOut", "Error"}
    /\ rresult \in {"none", "true", "false"}
    /\ attempts \in 0..kMaxAttempts /\ start_tsc \in 0..MaxTime
    /\ next_send \in 0..(MaxTime + RetryInterval)

\* The address a resolver returns came in an answer from the server that was asked,
\* to us, to this very request, whatever else the queue delivered with it.
AnswerIsOurs == rresult # "false" /\ (rstatus = "Ready" <=> rresult = "true")

\* No mbuf of a burst is lost, wherever in it the answer lies.
NoMbufLeak == held = 0

\* No resolver reports a timeout before its time has passed.
TimesOutLate == rstatus = "TimedOut" => now - start_tsc >= Timeout

\* The poller never holds an entry for a resolver that is gone.
ResolverOutlivesEntry == listed => ralive /\ rattached

\* A query ends, with an answer or without one: for the asynchronous resolver as
\* long as it stays with its poller.
QueryEnds == (rstatus = "InProgress") ~> (is_done \/ (rkind = "async" /\ ~listed))

-----------------------------------------------------------------------------
(***************************************************************************)
(* Names in DNS messages: encode_qname and skip_dns_name.  A byte is a     *)
(* label length, the mark of a compression pointer (whose target is the    *)
(* next byte) or a value that is neither; what a label's bytes hold is     *)
(* anything.  Offsets count from 0, as in the code.                        *)
(***************************************************************************)

CONSTANTS kMaxLabel,       \* 63
          kMaxIterations,  \* the guard against loops of pointers
          MsgLen,          \* bound on the message
          MaxLabels        \* bound on the labels of a name that is encoded

ASSUME DnsNameAssumption ==
    kMaxLabel \in Nat /\ kMaxIterations \in Nat /\ MsgLen \in Nat /\ MaxLabels \in Nat

VARIABLES nmsg, noff,      \* the message and where the name starts
          nlabels,         \* the labels it was encoded from, or <<>>
          nend             \* what skip_dns_name returned, or -1

DNvars == <<nmsg, noff, nlabels, nend>>

Pointer == kMaxLabel + 1
Neither == kMaxLabel + 2
Bytes == 0..Neither
ByteAt(msg, off) == msg[off + 1]

\* encode_qname: a length before each label, and a zero at the end.
encode_qname(labels) ==
    FlattenSeq([i \in DOMAIN labels |-> <<labels[i]>> \o [j \in 1..labels[i] |-> Pointer]]) \o <<0>>

PointerWhole(msg, off) == off + 1 < Len(msg)

\* Behind a pointer the name ends where the first one ended.
Stop(off, end) == IF end = 0 THEN off + 1 ELSE end

skip_dns_name(msg, offset) ==
    LET Target(off) == IF off + 1 < Len(msg) THEN ByteAt(msg, off + 1) ELSE 0
        skip[left \in 0..kMaxIterations, off \in Nat, end \in Nat] ==
            IF off >= Len(msg) \/ left = 0 THEN 0
            ELSE LET b == ByteAt(msg, off)
                 IN  CASE b = 0 -> Stop(off, end)
                       [] b = Pointer ->
                            IF ~PointerWhole(msg, off) \/ Target(off) >= Len(msg) THEN 0
                            ELSE skip[left - 1, Target(off), IF end = 0 THEN off + 2 ELSE end]
                       [] b = Neither -> 0
                       [] OTHER ->
                            IF off + 1 + b > Len(msg) THEN 0 ELSE skip[left - 1, off + 1 + b, end]
    IN  skip[kMaxIterations, offset, 0]
-----------------------------------------------------------------------------
DNInit ==
    /\ nend = -1
    /\ \/ /\ nmsg \in [1..MsgLen -> Bytes] /\ noff \in 0..(MsgLen - 1) /\ nlabels = <<>>
       \/ /\ nlabels \in UNION {[1..n -> 1..kMaxLabel] : n \in 1..MaxLabels}
          /\ nmsg = encode_qname(nlabels) /\ noff = 0

SkipName == nend = -1 /\ nend' = skip_dns_name(nmsg, noff) /\ UNCHANGED <<nmsg, noff, nlabels>>
DNNext == SkipName
-----------------------------------------------------------------------------
\* The places where the name's own labels start, before any pointer.
Starts ==
    LET Grow(S) == S \cup {s + 1 + ByteAt(nmsg, s) : s \in {x \in S : x < Len(nmsg) /\ ByteAt(nmsg, x) \in 1..kMaxLabel}}
        grown[n \in Nat] == IF n = 0 THEN {noff} ELSE Grow(grown[n - 1])
    IN  {s \in grown[Len(nmsg)] : s < Len(nmsg)}

\* skip_dns_name ends, whatever pointers a message holds, and where it finds a
\* name the next field starts right behind the name's own bytes: its zero, or its
\* first pointer, and inside the message.
SkipsOwnBytes ==
    nend > 0 =>
        /\ nend <= Len(nmsg)
        /\ \E s \in Starts : \/ ByteAt(nmsg, s) = 0 /\ nend = s + 1
                             \/ ByteAt(nmsg, s) = Pointer /\ nend = s + 2

\* A name the resolver has encoded is skipped whole, if it has fewer labels than
\* the guard allows.
EncodedIsSkipped ==
    (nlabels # <<>> /\ nend # -1 /\ Len(nlabels) < kMaxIterations) => nend = Len(nmsg)

\* A resolution takes the answer to its own question or its full time, leaks no
\* buffer, and reads names within the message.
ResolutionTrue ==
    /\ RSTypeOK /\ AnswerIsOurs /\ NoMbufLeak /\ TimesOutLate
    /\ ResolverOutlivesEntry /\ SkipsOwnBytes /\ EncodedIsSkipped
=============================================================================
