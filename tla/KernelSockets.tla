--------------------------- MODULE KernelSockets ----------------------------
(***************************************************************************)
(* The kernel's poller and its UDP socket.                                 *)
(***************************************************************************)
EXTENDS Integers, Sequences, FiniteSets, SequencesExt

-----------------------------------------------------------------------------
(***************************************************************************)
(* eph::net::kernel::KernelPoller: which objects are registered, what an   *)
(* epoll_wait batch still holds, and what the callbacks of the objects in  *)
(* it do to the registrations before their turn comes.                     *)
(***************************************************************************)

CONSTANTS Pollables, Pollers, Unattached

ASSUME KernelPollerAssumption == Unattached \notin Pollers

VARIABLES
    entries,     \* entries_ of each poller
    pollerUp,    \* the poller exists
    owner,       \* attached_to_ of each pollable
    alive,       \* the pollable exists
    events,      \* the rest of the batch being dispatched
    running,     \* the poller in poll_impl_
    calledDead   \* history: poll_fn was called on an object that is gone

KPvars == <<entries, pollerUp, owner, alive, events, running, calledDead>>

KPInit ==
    /\ entries = [p \in Pollers |-> {}] /\ pollerUp = [p \in Pollers |-> TRUE]
    /\ owner = [o \in Pollables |-> Unattached] /\ alive = [o \in Pollables |-> FALSE]
    /\ events = << >> /\ running = Unattached /\ calledDead = FALSE

CreatePollable(o) ==
    /\ ~alive[o] /\ alive' = [alive EXCEPT ![o] = TRUE]
    /\ UNCHANGED <<entries, pollerUp, owner, events, running, calledDead>>

add(p, o) ==
    /\ pollerUp[p] /\ alive[o] /\ owner[o] = Unattached /\ o \notin entries[p]
    /\ entries' = [entries EXCEPT ![p] = @ \cup {o}]
    /\ owner' = [owner EXCEPT ![o] = p]
    /\ UNCHANGED <<pollerUp, alive, events, running, calledDead>>

remove(p, o) ==
    /\ pollerUp[p] /\ alive[o] /\ o \in entries[p]
    /\ entries' = [entries EXCEPT ![p] = @ \ {o}]
    /\ owner' = [owner EXCEPT ![o] = Unattached]
    /\ UNCHANGED <<pollerUp, alive, events, running, calledDead>>

\* The destructor removes the object from the poller it is attached to.
DestroyPollable(o) ==
    /\ alive[o] /\ alive' = [alive EXCEPT ![o] = FALSE]
    /\ entries' = [p \in Pollers |-> IF p = owner[o] THEN entries[p] \ {o} ELSE entries[p]]
    /\ owner' = [owner EXCEPT ![o] = Unattached]
    /\ UNCHANGED <<pollerUp, events, running, calledDead>>

OwnersDetached(p) == [o \in Pollables |-> IF o \in entries[p] THEN Unattached ELSE owner[o]]

DestroyPoller(p) ==
    /\ pollerUp[p] /\ running # p
    /\ pollerUp' = [pollerUp EXCEPT ![p] = FALSE]
    /\ owner' = OwnersDetached(p) /\ entries' = [entries EXCEPT ![p] = {}]
    /\ UNCHANGED <<alive, events, running, calledDead>>

epoll_wait(p) ==
    /\ pollerUp[p] /\ running = Unattached /\ entries[p] # {}
    /\ running' = p
    /\ events' \in {s \in SeqOf(entries[p], 2) : s # << >> /\ IsInjective(s)}
    /\ UNCHANGED <<entries, pollerUp, owner, alive, calledDead>>

\* Mutant: the object is called without looking it up again.
NoLookup(o) == TRUE

Registered(o) == o \in entries[running]

Dispatch ==
    /\ running # Unattached /\ events # << >>
    /\ calledDead' = (calledDead \/ (Registered(Head(events)) /\ ~alive[Head(events)]))
    /\ events' = Tail(events)
    /\ UNCHANGED <<entries, pollerUp, owner, alive, running>>

PollEnds ==
    /\ running # Unattached /\ events = << >> /\ running' = Unattached
    /\ UNCHANGED <<entries, pollerUp, owner, alive, events, calledDead>>

KPNext ==
    \/ \E o \in Pollables : CreatePollable(o) \/ DestroyPollable(o)
    \/ \E p \in Pollers, o \in Pollables : add(p, o) \/ remove(p, o)
    \/ \E p \in Pollers : DestroyPoller(p) \/ epoll_wait(p)
    \/ Dispatch \/ PollEnds

KPSpec == KPInit /\ [][KPNext]_KPvars

\* An event of a batch is never handed to an object that was destroyed, or
\* removed, by the callback of an event before it.
NoCallOnDead == ~calledDead

\* An object knows its poller exactly while that poller knows the object, and
\* neither outlives the other's memory of it.
RegistrationsAgree ==
    /\ \A o \in Pollables, p \in Pollers : owner[o] = p <=> o \in entries[p]
    /\ \A p \in Pollers : entries[p] # {} => pollerUp[p] /\ \A o \in entries[p] : alive[o]

-----------------------------------------------------------------------------
(***************************************************************************)
(* eph::net::kernel::KernelUdpSocket: datagrams queue in the kernel, one   *)
(* readiness event reads one of them, the codec makes frames of it, or     *)
(* answers it, or refuses it.  Polls happen while the socket is attached;  *)
(* epoll is level-triggered.  A callback may detach the socket.            *)
(***************************************************************************)

CONSTANTS UdpPeers,       \* the senders
          RxQueue,        \* datagrams the kernel keeps
          MaxDatagrams    \* bound on the datagrams that arrive

ASSUME KernelUdpAssumption == RxQueue \in Nat \ {0} /\ MaxDatagrams \in Nat

VARIABLES
    uattached,                  \* attached_to_ # nullptr
    upeer, kpeer,               \* connected_peer_ with connected_; the kernel's filter
    uqueue,                     \* external: the socket's receive queue
    frames_decoded, codec_errors,
    ugiven, utaken,             \* history: what on_datagram was given; the datagrams read
    uarrived,                   \* history: how many datagrams were queued
    uanswered                   \* history: the answers sent and the ones that failed

KUvars == <<uattached, upeer, kpeer, uqueue, frames_decoded, codec_errors, ugiven, utaken, uarrived, uanswered>>

NoPeer == "no peer"
\* What the codec makes of a datagram: some frames, then possibly an error, or an
\* answer to its sender.
Kinds == [frames : 0..2, bad : BOOLEAN, reply : BOOLEAN, empty : BOOLEAN]
Sound == {k \in Kinds : (k.empty => k.frames = 0 /\ ~k.bad /\ ~k.reply) /\ (k.bad => ~k.reply)}

KUInit ==
    /\ uattached = FALSE /\ upeer = NoPeer /\ kpeer = NoPeer
    /\ uqueue = <<>> /\ frames_decoded = 0 /\ codec_errors = 0
    /\ ugiven = <<>> /\ utaken = <<>> /\ uarrived = 0 /\ uanswered = [sent |-> 0, failed |-> 0]

\* The kernel queues a datagram, from the connected peer if there is one.
DatagramArrives(src, kind) ==
    /\ uarrived < MaxDatagrams /\ Len(uqueue) < RxQueue
    /\ kpeer \in {NoPeer, src}
    /\ uqueue' = Append(uqueue, [src |-> src, kind |-> kind, id |-> uarrived + 1])
    /\ uarrived' = uarrived + 1
    /\ UNCHANGED <<uattached, upeer, kpeer, frames_decoded, codec_errors, ugiven, utaken, uanswered>>

\* A connect() that fails leaves the peer there was.
connect_to_peer(p, ok) ==
    /\ kpeer' = (IF ok THEN p ELSE kpeer) /\ upeer' = (IF ok THEN p ELSE upeer)
    /\ UNCHANGED <<uattached, uqueue, frames_decoded, codec_errors, ugiven, utaken, uarrived, uanswered>>

attach_udp ==
    /\ ~uattached /\ uattached' = TRUE
    /\ UNCHANGED <<upeer, kpeer, uqueue, frames_decoded, codec_errors, ugiven, utaken, uarrived, uanswered>>

\* The source is the one of this datagram, not the connected peer.
SourceOf(d) == d.src

\* The frames in front of the refused part are delivered and counted.
DeliveredOf(k) == k.frames

\* send_to refuses an unattached socket, and the kernel may refuse the datagram.
send_to_kernel(att, ok) == att /\ ok

\* An empty datagram is read like the others; it is not the end of anything.
Readable(q) == q # <<>>

\* poll_once_: a datagram is consumed whatever becomes of it.
poll_once_udp(detaches, ok) ==
    /\ uattached /\ Readable(uqueue)
    /\ LET d == Head(uqueue)
           k == d.kind
           n == DeliveredOf(k)
       IN  /\ uqueue' = Tail(uqueue) /\ utaken' = Append(utaken, d)
           /\ detaches => k.frames > 0
           /\ uattached' = ~detaches
           /\ ugiven' = ugiven \o [i \in 1..n |-> [id |-> d.id, i |-> i, src |-> SourceOf(d)]]
           /\ frames_decoded' = frames_decoded + n
           /\ codec_errors' = codec_errors + (IF k.bad THEN 1 ELSE 0)
           /\ uanswered' = IF ~k.reply THEN uanswered
                           ELSE IF send_to_kernel(~detaches, ok) THEN [uanswered EXCEPT !.sent = @ + 1]
                           ELSE [uanswered EXCEPT !.failed = @ + 1]
    /\ UNCHANGED <<upeer, kpeer, uarrived>>

PollUdp == uattached /\ Readable(uqueue) /\ \E detaches, ok \in BOOLEAN : poll_once_udp(detaches, ok)

KUNext ==
    \/ uarrived < MaxDatagrams /\ \E src \in UdpPeers, k \in Sound : DatagramArrives(src, k)
    \/ \E p \in UdpPeers, ok \in BOOLEAN : connect_to_peer(p, ok)
    \/ attach_udp \/ PollUdp

KUSpec == KUInit /\ [][KUNext]_KUvars

-----------------------------------------------------------------------------
FramesOf(d) == {[id |-> d.id, i |-> i, src |-> d.src] : i \in 1..d.kind.frames}
Precedes(a, b) == a.id < b.id \/ (a.id = b.id /\ a.i < b.i)

\* The application gets every frame of the datagrams read, once and in the order of
\* their arrival, with the sender of its own datagram, also of one that is refused
\* half-way and with another peer connected meanwhile; and the counters say the same.
DatagramsTrue ==
    /\ ToSet(ugiven) = UNION {FramesOf(utaken[j]) : j \in DOMAIN utaken}
    /\ \A m, n \in DOMAIN ugiven : m < n => Precedes(ugiven[m], ugiven[n])
    /\ frames_decoded = Len(ugiven)
    /\ codec_errors = Cardinality({j \in DOMAIN utaken : utaken[j].kind.bad})
    /\ upeer = kpeer

\* What the kernel reports reaches the object registered for it, alive, and a
\* datagram carries its own sender.
DispatchTrue ==
    /\ NoCallOnDead /\ RegistrationsAgree /\ DatagramsTrue
=============================================================================
