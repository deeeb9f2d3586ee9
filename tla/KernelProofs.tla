---------------------------- MODULE KernelProofs ----------------------------
(***************************************************************************)
(* The kernel's poller and UDP socket, and the handover of a connection    *)
(* from the TLS library to its stream, for any number of objects, pollers, *)
(* datagrams and records; the WebSocket codec above it, for messages of    *)
(* any number of fragments; the framers and the multicast feed, for        *)
(* messages of any size; the books, for any number of levels; and the TCP  *)
(* stream, for any number of units, and any cut of them into reads,        *)
(* records and frames.                                                     *)
(***************************************************************************)
EXTENDS KernelSockets, TlsHandover, WsCodec, Framing, Books, KernelStream, WrapArithmetic,
        FiniteSetTheorems, SequenceTheorems, TLAPS

-----------------------------------------------------------------------------
(* KernelPoller.                                                           *)

KPInv ==
    /\ entries \in [Pollers -> SUBSET Pollables] /\ pollerUp \in [Pollers -> BOOLEAN]
    /\ owner \in [Pollables -> Pollers \cup {Unattached}] /\ alive \in [Pollables -> BOOLEAN]
    /\ running \in Pollers \cup {Unattached} /\ calledDead = FALSE
    /\ RegistrationsAgree

LEMMA KPInitInv == KPInit => KPInv
BY KernelPollerAssumption DEF KPInit, KPInv, RegistrationsAgree

LEMMA KPNextInv == KPInv /\ [KPNext]_KPvars => KPInv'
<1> SUFFICES ASSUME KPInv, [KPNext]_KPvars PROVE KPInv'
    OBVIOUS
<1> USE KernelPollerAssumption DEF KPInv, RegistrationsAgree
<1>1. CASE UNCHANGED KPvars
    BY <1>1 DEF KPvars
<1>2. ASSUME NEW o \in Pollables, CreatePollable(o) PROVE KPInv'
    BY <1>2 DEF CreatePollable
<1>3. ASSUME NEW o \in Pollables, DestroyPollable(o) PROVE KPInv'
    BY <1>3 DEF DestroyPollable
<1>4. ASSUME NEW p \in Pollers, NEW o \in Pollables, add(p, o) PROVE KPInv'
    BY <1>4 DEF add
<1>5. ASSUME NEW p \in Pollers, NEW o \in Pollables, remove(p, o) PROVE KPInv'
    BY <1>5 DEF remove
<1>6. ASSUME NEW p \in Pollers, DestroyPoller(p) PROVE KPInv'
    BY <1>6 DEF DestroyPoller, OwnersDetached
<1>7. ASSUME NEW p \in Pollers, epoll_wait(p) PROVE KPInv'
    BY <1>7 DEF epoll_wait
<1>8. CASE Dispatch
    BY <1>8 DEF Dispatch, Registered
<1>9. CASE PollEnds
    BY <1>9 DEF PollEnds
<1> QED
    BY <1>1, <1>2, <1>3, <1>4, <1>5, <1>6, <1>7, <1>8, <1>9 DEF KPNext

-----------------------------------------------------------------------------
(* KernelUdpSocket.                                                        *)

Datagrams == [src : UdpPeers, kind : Sound, id : Nat]

\* Datagrams are numbered as they arrive and read in that order.
Numbered ==
    /\ \A j \in 1..Len(utaken) : utaken[j].id = j
    /\ \A j \in 1..Len(uqueue) : uqueue[j].id = Len(utaken) + j
    /\ uarrived = Len(utaken) + Len(uqueue)

KUInv ==
    /\ uqueue \in Seq(Datagrams) /\ utaken \in Seq(Datagrams) /\ uarrived \in Nat
    /\ ugiven \in Seq([id : Nat, i : Nat, src : UdpPeers])
    /\ frames_decoded \in Nat /\ codec_errors \in Nat
    /\ Numbered /\ DatagramsTrue

LEMMA KUInitInv == KUInit => KUInv
<1> SUFFICES ASSUME KUInit PROVE KUInv
    OBVIOUS
<1>1. {j \in DOMAIN utaken : utaken[j].kind.bad} = {}
    BY DEF KUInit
<1>2. codec_errors = Cardinality({j \in DOMAIN utaken : utaken[j].kind.bad})
    BY <1>1, FS_EmptySet DEF KUInit
<1>3. ToSet(ugiven) = UNION {FramesOf(utaken[j]) : j \in DOMAIN utaken}
    BY DEF KUInit, ToSet
<1> QED
    BY <1>2, <1>3 DEF KUInit, KUInv, Numbered, DatagramsTrue

LEMMA ArrivesKeeps ==
    ASSUME KUInv, NEW src \in UdpPeers, NEW k \in Sound, DatagramArrives(src, k)
    PROVE  KUInv'
<1> DEFINE d == [src |-> src, kind |-> k, id |-> uarrived + 1]
<1>1. d \in Datagrams /\ d.id = uarrived + 1
    BY DEF KUInv, Datagrams
<1>2. /\ uqueue' = Append(uqueue, d) /\ uarrived' = uarrived + 1
      /\ UNCHANGED <<upeer, kpeer, frames_decoded, codec_errors, ugiven, utaken>>
    BY DEF DatagramArrives
<1> HIDE DEF d
<1>3. /\ uqueue' \in Seq(Datagrams) /\ Len(uqueue') = Len(uqueue) + 1 /\ Len(uqueue) \in Nat
      /\ \A j \in 1..Len(uqueue) : uqueue'[j] = uqueue[j]
      /\ uqueue'[Len(uqueue) + 1] = d
    BY <1>1, <1>2, AppendProperties DEF KUInv
<1>4. Numbered'
  <2>1. Len(utaken) \in Nat
      BY DEF KUInv
  <2>2. uarrived' = Len(utaken) + Len(uqueue')
      BY <1>2, <1>3, <2>1 DEF KUInv, Numbered
  <2>3. ASSUME NEW j \in 1..Len(uqueue') PROVE uqueue'[j].id = Len(utaken) + j
    <3>1. CASE j \in 1..Len(uqueue)
        BY <1>3, <3>1 DEF KUInv, Numbered
    <3>2. CASE j = Len(uqueue) + 1
        BY <1>1, <1>3, <2>1, <3>2 DEF KUInv, Numbered
    <3> QED
        BY <1>3, <3>1, <3>2
  <2> QED
      BY <1>2, <2>2, <2>3 DEF KUInv, Numbered
<1> QED
    BY <1>2, <1>3, <1>4 DEF KUInv, DatagramsTrue

LEMMA PollUdpKeeps ==
    ASSUME KUInv, NEW detaches \in BOOLEAN, NEW ok \in BOOLEAN, poll_once_udp(detaches, ok)
    PROVE  KUInv'
<1>1. /\ uqueue \in Seq(Datagrams) /\ uqueue # << >> /\ utaken \in Seq(Datagrams)
      /\ ugiven \in Seq([id : Nat, i : Nat, src : UdpPeers]) /\ frames_decoded \in Nat /\ codec_errors \in Nat
      /\ Numbered /\ DatagramsTrue
    BY DEF KUInv, poll_once_udp, Readable
<1>2. PICK d \in Datagrams : d = Head(uqueue) /\ d = uqueue[1]
    BY <1>1
<1>3. PICK n \in 0..2 : n = d.kind.frames /\ d.kind.bad \in BOOLEAN
    BY DEF Datagrams, Sound, Kinds
<1>4. PICK T \in Nat : T = Len(utaken)
    BY <1>1
<1> DEFINE new == [i \in 1..n |-> [id |-> d.id, i |-> i, src |-> d.src]]
<1>5. /\ uqueue' = Tail(uqueue) /\ utaken' = Append(utaken, d) /\ ugiven' = ugiven \o new
      /\ frames_decoded' = frames_decoded + n
      /\ codec_errors' = codec_errors + (IF d.kind.bad THEN 1 ELSE 0)
      /\ UNCHANGED <<upeer, kpeer, uarrived>>
    BY <1>2, <1>3 DEF poll_once_udp, DeliveredOf, SourceOf
<1>6. /\ Len(new) = n /\ new \in Seq([id : Nat, i : Nat, src : UdpPeers]) /\ DOMAIN new = 1..n
      /\ \A i \in 1..n : new[i].id = d.id /\ new[i].i = i /\ new[i] = [id |-> d.id, i |-> i, src |-> d.src]
    BY <1>2 DEF Datagrams
<1>7. FramesOf(d) = {new[i] : i \in 1..n}
    BY <1>3 DEF FramesOf
<1> HIDE DEF new
<1>8. PICK Q \in Nat : Q = Len(uqueue) /\ Q >= 1
    BY <1>1
<1>9. /\ uqueue' \in Seq(Datagrams) /\ Len(uqueue') = Q - 1
      /\ \A j \in 1..(Q - 1) : uqueue'[j] = uqueue[j + 1]
    BY <1>1, <1>5, <1>8
<1>10. /\ utaken' \in Seq(Datagrams) /\ Len(utaken') = T + 1 /\ utaken'[T + 1] = d
       /\ \A j \in 1..T : utaken'[j] = utaken[j]
       /\ DOMAIN utaken' = 1..(T + 1) /\ DOMAIN utaken = 1..T
    BY <1>1, <1>4, <1>5, AppendProperties
<1>11. PICK G \in Nat : G = Len(ugiven)
    BY <1>1
<1>12. /\ ugiven' \in Seq([id : Nat, i : Nat, src : UdpPeers]) /\ Len(ugiven') = G + n
       /\ DOMAIN ugiven' = 1..(G + n) /\ DOMAIN ugiven = 1..G
       /\ \A m \in 1..G : ugiven'[m] = ugiven[m]
       /\ \A m \in 1..n : ugiven'[G + m] = new[m]
       /\ \A m \in (G + 1)..(G + n) : m - G \in 1..n /\ ugiven'[m] = new[m - G]
    BY SMTT(30), <1>1, <1>5, <1>6, <1>11, ConcatProperties
<1>13. d.id = T + 1
    BY <1>1, <1>2, <1>4, <1>8 DEF Numbered
<1>14. Numbered'
  <2>1. uarrived' = T + Q
      BY <1>1, <1>4, <1>5, <1>8 DEF Numbered
  <2>2. ASSUME NEW j \in 1..(Q - 1) PROVE uqueue'[j].id = (T + 1) + j
    <3>1. j + 1 \in 1..Q
        OBVIOUS
    <3>2. uqueue[j + 1].id = T + (j + 1)
        BY <1>1, <1>4, <1>8, <3>1 DEF Numbered
    <3> QED
        BY <1>9, <3>2
  <2>3. ASSUME NEW j \in 1..(T + 1) PROVE utaken'[j].id = j
    <3>1. CASE j \in 1..T
        BY <1>1, <1>4, <1>10, <3>1 DEF Numbered
    <3>2. CASE j = T + 1
        BY <1>10, <1>13, <3>2
    <3> QED
        BY <3>1, <3>2
  <2>4. T + Q = (T + 1) + (Q - 1)
      OBVIOUS
  <2> QED
      BY <1>9, <1>10, <2>1, <2>2, <2>3, <2>4 DEF Numbered
<1>15. ToSet(ugiven') = UNION {FramesOf(utaken'[j]) : j \in DOMAIN utaken'}
  <2>1. ToSet(ugiven') = ToSet(ugiven) \cup FramesOf(d)
    <3>1. \A x \in ToSet(ugiven') : x \in ToSet(ugiven) \/ x \in FramesOf(d)
      <4> SUFFICES ASSUME NEW m \in 1..(G + n)
                   PROVE  ugiven'[m] \in ToSet(ugiven) \/ ugiven'[m] \in FramesOf(d)
          BY <1>12 DEF ToSet
      <4>1. CASE m \in 1..G
          BY <1>12, <4>1 DEF ToSet
      <4>2. CASE m \in (G + 1)..(G + n)
          BY <1>7, <1>12, <4>2
      <4> QED
          BY <4>1, <4>2
    <3>2. ToSet(ugiven) \subseteq ToSet(ugiven')
      <4>1. \A m \in 1..G : m \in 1..(G + n)
          OBVIOUS
      <4> QED
          BY <1>12, <4>1 DEF ToSet
    <3>3. FramesOf(d) \subseteq ToSet(ugiven')
      <4> SUFFICES ASSUME NEW m \in 1..n PROVE new[m] \in ToSet(ugiven')
          BY <1>7
      <4>1. G + m \in 1..(G + n)
          OBVIOUS
      <4>2. new[m] = ugiven'[G + m]
          BY <1>12
      <4> QED
          BY <1>12, <4>1, <4>2 DEF ToSet
    <3> QED
        BY <3>1, <3>2, <3>3
  <2> DEFINE Before == UNION {FramesOf(utaken[j]) : j \in DOMAIN utaken}
             After == UNION {FramesOf(utaken'[j]) : j \in DOMAIN utaken'}
  <2>2. After = Before \cup FramesOf(d)
    <3>1. T + 1 \in DOMAIN utaken' /\ \A j \in DOMAIN utaken' : j \in DOMAIN utaken \/ j = T + 1
        BY <1>10
    <3>2. \A j \in DOMAIN utaken : j \in DOMAIN utaken' /\ utaken'[j] = utaken[j]
        BY <1>10
    <3>3. \A x : x \in After => x \in Before \/ x \in FramesOf(d)
        BY <1>10, <3>1, <3>2
    <3>4. Before \subseteq After
        BY <3>2
    <3>5. FramesOf(d) \subseteq After
        BY <1>10, <3>1
    <3> HIDE DEF Before, After
    <3> QED
        BY <3>3, <3>4, <3>5
  <2>3. ToSet(ugiven) = Before
      BY <1>1 DEF DatagramsTrue
  <2> HIDE DEF Before
  <2>4. ToSet(ugiven') = After
      BY <2>1, <2>2, <2>3
  <2> QED
      BY <2>4
<1>16. \A m \in 1..G : ugiven[m].id \in 1..T
  <2> SUFFICES ASSUME NEW m \in 1..G PROVE ugiven[m].id \in 1..T
      OBVIOUS
  <2>1. ugiven[m] \in ToSet(ugiven)
      BY <1>12 DEF ToSet
  <2>2. PICK j \in DOMAIN utaken : ugiven[m] \in FramesOf(utaken[j])
      BY <1>1, <2>1 DEF DatagramsTrue
  <2>3. ugiven[m].id = utaken[j].id
      BY <2>2 DEF FramesOf
  <2> QED
      BY <1>1, <1>4, <1>10, <2>3 DEF Numbered
<1>17. ASSUME NEW a \in DOMAIN ugiven', NEW b \in DOMAIN ugiven', a < b
       PROVE  Precedes(ugiven'[a], ugiven'[b])
  <2>1. a \in 1..(G + n) /\ b \in 1..(G + n)
      BY <1>12
  <2>2. CASE b \in 1..G
    <3>1. a \in 1..G
        BY <1>17, <2>1, <2>2
    <3> QED
        BY <1>1, <1>12, <1>17, <2>2, <3>1 DEF DatagramsTrue
  <2>3. CASE a \in 1..G /\ b \in (G + 1)..(G + n)
    <3>1. ugiven'[a].id \in 1..T
        BY <1>12, <1>16, <2>3
    <3>2. b - G \in 1..n /\ ugiven'[b] = new[b - G]
        BY <1>12, <2>3
    <3>3. ugiven'[b].id = T + 1
        BY <1>6, <1>13, <3>2
    <3>4. ugiven'[a].id < ugiven'[b].id
        BY <3>1, <3>3
    <3> QED
        BY <3>4 DEF Precedes
  <2>4. CASE a \in (G + 1)..(G + n) /\ b \in (G + 1)..(G + n)
    <3>1. ugiven'[a].id = ugiven'[b].id /\ ugiven'[a].i = a - G /\ ugiven'[b].i = b - G
      <4>1. a - G \in 1..n /\ ugiven'[a] = new[a - G] /\ b - G \in 1..n /\ ugiven'[b] = new[b - G]
          BY <1>12, <2>4
      <4> QED
          BY <1>6, <4>1
    <3>2. a - G < b - G
        BY <1>17, <2>4
    <3> QED
        BY <3>1, <3>2 DEF Precedes
  <2> QED
      BY <1>17, <2>1, <2>2, <2>3, <2>4
<1>18. codec_errors' = Cardinality({j \in DOMAIN utaken' : utaken'[j].kind.bad}) /\ codec_errors' \in Nat
  <2> DEFINE B == {j \in DOMAIN utaken : utaken[j].kind.bad}
             C == {j \in DOMAIN utaken' : utaken'[j].kind.bad}
  <2>1. IsFiniteSet(B) /\ T + 1 \notin B
    <3>1. IsFiniteSet(1..T)
        BY FS_Interval
    <3>2. T + 1 \notin 1..T
        OBVIOUS
    <3> QED
        BY <1>10, <3>1, <3>2, FS_Subset
  <2>2. codec_errors = Cardinality(B)
      BY <1>1 DEF DatagramsTrue
  <2>3. \A j : j \in 1..(T + 1) <=> j \in 1..T \/ j = T + 1
      OBVIOUS
  <2>4. CASE d.kind.bad
    <3>1. C = B \cup {T + 1}
        BY <1>10, <2>3, <2>4
    <3>2. Cardinality(C) = Cardinality(B) + 1
        BY <2>1, <3>1, FS_AddElement
    <3>3. codec_errors' = codec_errors + 1
        BY <1>5, <2>4
    <3> HIDE DEF B, C
    <3>4. codec_errors' = Cardinality(C) /\ codec_errors' \in Nat
        BY <1>1, <2>2, <3>2, <3>3
    <3> QED
        BY <3>4 DEF C
  <2>5. CASE ~d.kind.bad
    <3>1. C = B
        BY <1>10, <2>3, <2>5
    <3>2. codec_errors' = codec_errors
        BY <1>1, <1>5, <2>5
    <3> HIDE DEF B, C
    <3>3. codec_errors' = Cardinality(C) /\ codec_errors' \in Nat
        BY <1>1, <2>2, <3>1, <3>2
    <3> QED
        BY <3>3 DEF C
  <2> QED
      BY <2>4, <2>5
<1>19. frames_decoded' = Len(ugiven') /\ frames_decoded' \in Nat
    BY <1>1, <1>5, <1>11, <1>12 DEF DatagramsTrue
<1>20. DatagramsTrue'
    BY <1>1, <1>5, <1>15, <1>17, <1>18, <1>19 DEF DatagramsTrue
<1> QED
    BY <1>1, <1>5, <1>9, <1>10, <1>12, <1>14, <1>18, <1>19, <1>20 DEF KUInv

LEMMA KUNextInv == KUInv /\ [KUNext]_KUvars => KUInv'
<1> SUFFICES ASSUME KUInv, [KUNext]_KUvars PROVE KUInv'
    OBVIOUS
<1>1. CASE UNCHANGED KUvars
    BY <1>1 DEF KUvars, KUInv, Numbered, DatagramsTrue
<1>2. ASSUME NEW p \in UdpPeers, NEW ok \in BOOLEAN, connect_to_peer(p, ok) PROVE KUInv'
    BY <1>2 DEF connect_to_peer, KUInv, Numbered, DatagramsTrue
<1>3. CASE attach_udp
    BY <1>3 DEF attach_udp, KUInv, Numbered, DatagramsTrue
<1> QED
    BY <1>1, <1>2, <1>3, ArrivesKeeps, PollUdpKeeps DEF KUNext, PollUdp

\* KernelPoller and KernelUdpSocket: for any number of objects, pollers and
\* datagrams, no event of a batch reaches an object that a callback before it
\* destroyed or removed, objects and pollers agree on who is registered, and
\* every frame of a datagram is given once, in order, with its own sender.
THEOREM DispatchAlwaysTrue == KPSpec /\ KUSpec => []DispatchTrue
<1>1. KPInv /\ KUInv => DispatchTrue
    BY DEF KPInv, KUInv, DispatchTrue, NoCallOnDead
<1>2. KPSpec => []KPInv
    BY KPInitInv, KPNextInv, PTL DEF KPSpec
<1>3. KUSpec => []KUInv
    BY KUInitInv, KUNextInv, PTL DEF KUSpec
<1> QED
    BY <1>1, <1>2, <1>3, PTL

-----------------------------------------------------------------------------
(* TlsHandover.                                                            *)

Finalized == hphase \in {"established", "failed"}

HandoverPlace ==
    /\ hssl \in Nat /\ hread \in Nat /\ harrived \in Nat /\ hhot \in Nat /\ hseq \in Nat /\ hflight \in Nat
    /\ hrecs \in Seq({"fin", "nst", "data"}) /\ hgot \in Seq(Nat)
    /\ hwrites \in Seq([by : {"ssl", "hot"}, seq : Nat])
    /\ HOTypeOK /\ hflight <= harrived
    /\ hphase = "handshaking" => hrounds = 0
    /\ hphase = "peeking" => hrounds < kDrainMaxRounds

\* Where the server does not speak first, the library meets no data; the
\* stream's reader has handed on all data up to its sequence number.
ReaderHandsOn ==
    /\ ~Finalized => hwrites = << >> /\ \A k \in 1..Len(hrecs) : hrecs[k] # "data"
    /\ hseq <= Len(hrecs) /\ ToSet(hgot) = {k \in 1..hseq : hrecs[k] = "data"}
    /\ \A i, j \in 1..Len(hgot) : i < j => hgot[i] < hgot[j]
    /\ ~Finalized => hseq = 0

\* The first round of the drain takes what came with Finished.
FlightTaken ==
    hflight >= 4 /\ ~hbroken =>
        /\ hphase = "draining" => hssl >= 4 \/ hrounds = 0
        /\ hphase \in {"peeking", "finalizing"} => hssl >= 4
        /\ hphase = "established" => (hrecs[2] = "nst" => hticket)

WritesNumbered ==
    /\ Established => \A i \in 1..Len(hwrites) : hwrites[i] = [by |-> "hot", seq |-> i - 1]
    /\ hphase = "failed" => Len(hwrites) <= 1

HOInv == HandoverPlace /\ ReaderHandsOn /\ FlightTaken /\ WritesNumbered /\ PinHolds

LEMMA HOInitInv == HOInit => HOInv
<1> SUFFICES ASSUME HOInit PROVE HOInv
    OBVIOUS
<1> USE HandoverAssumption DEF HOInit
<1>a. Len(hrecs) = 1 /\ 0 \in 0..kDrainMaxRounds
    OBVIOUS
<1>b. {hticket, hdead, hbroken} \subseteq BOOLEAN
    BY Zenon
<1>1. HOTypeOK
    BY <1>a, <1>b DEF HOTypeOK
<1>2. ToSet(hgot) = {}
    BY DEF ToSet
<1> QED
    BY <1>1, <1>2 DEF HOInv, HandoverPlace, ReaderHandsOn, FlightTaken, WritesNumbered, PinHolds,
                      Finalized, Established

\* Without data in the server's records no round of the drain meets any.
LEMMA NoDataMet ==
    ASSUME HOInv, ~Finalized, NEW r PROVE DataUpTo(r) = {}
BY DEF HOInv, ReaderHandsOn, DataUpTo

LEMMA ServerWritesKeeps ==
    ASSUME HOInv, ~ServerSpeaksFirst, NEW kind \in {"nst", "data"}, ServerWrites(kind) PROVE HOInv'
<1> USE DEF ServerWrites
<1>1. /\ hrecs \in Seq({"fin", "nst", "data"}) /\ hrecs' \in Seq({"fin", "nst", "data"})
      /\ Len(hrecs') = Len(hrecs) + 1 /\ hrecs'[Len(hrecs) + 1] = kind
      /\ \A k \in 1..Len(hrecs) : hrecs'[k] = hrecs[k]
    BY DEF HOInv, HandoverPlace
<1>2. HandoverPlace'
    BY <1>1 DEF HOInv, HandoverPlace, HOTypeOK
<1>3. ~Finalized' => \A k \in 1..Len(hrecs') : hrecs'[k] # "data"
  <2> SUFFICES ASSUME ~Finalized', NEW k \in 1..Len(hrecs') PROVE hrecs'[k] # "data"
      OBVIOUS
  <2>1. ~Finalized /\ kind # "data"
      BY DEF Finalized, HOInv, ReaderHandsOn
  <2> QED
      BY <1>1, <2>1 DEF HOInv, ReaderHandsOn
<1>4. {k \in 1..hseq' : hrecs'[k] = "data"} = {k \in 1..hseq : hrecs[k] = "data"}
  <2>1. hseq' = hseq /\ hseq \in Nat /\ hseq <= Len(hrecs)
      BY DEF HOInv, HandoverPlace, ReaderHandsOn
  <2> QED
      BY <1>1, <2>1
<1>5. ReaderHandsOn'
    BY SMTT(30), <1>1, <1>3, <1>4 DEF HOInv, HandoverPlace, ReaderHandsOn, Finalized, ToSet
<1>6. FlightTaken'
    BY <1>1 DEF HOInv, HandoverPlace, HOTypeOK, FlightTaken
<1> QED
    BY <1>2, <1>5, <1>6 DEF HOInv, WritesNumbered, PinHolds, Established

LEMMA HandshakeKeeps ==
    ASSUME HOInv, HandshakeStep PROVE HOInv'
<1> USE HandoverAssumption DEF HandshakeStep, Refill
<1>1. HandoverPlace'
    BY DEF HOInv, HandoverPlace, HOTypeOK
<1>2. ReaderHandsOn' /\ WritesNumbered' /\ PinHolds'
    BY DEF HOInv, ReaderHandsOn, WritesNumbered, PinHolds, Finalized, Established, ToSet
<1>3. FlightTaken'
    BY DEF HOInv, HandoverPlace, FlightTaken
<1> QED
    BY <1>1, <1>2, <1>3 DEF HOInv

LEMMA PeekKeeps ==
    ASSUME HOInv, hphase \in {"draining", "peeking"}, hrounds < kDrainMaxRounds, Peek(harrived),
           UNCHANGED <<hcfg, hrecs, harrived, hhot, hflight, hticket, hseq, hgot,
                       hdead, hbroken, hwrites>>
    PROVE  HOInv'
<1>1. ~Finalized
    BY DEF Finalized
<1>2. /\ hread' = harrived /\ hssl' = harrived
      /\ \/ hphase' = "peeking" /\ hrounds' = hrounds
         \/ hphase' = "draining" /\ hrounds' = hrounds + 1
    BY <1>1, NoDataMet DEF Peek
<1>3. HandoverPlace'
    BY <1>2, HandoverAssumption DEF HOInv, HandoverPlace, HOTypeOK
<1>4. ReaderHandsOn' /\ WritesNumbered' /\ PinHolds'
    BY <1>1, <1>2 DEF HOInv, ReaderHandsOn, WritesNumbered, PinHolds, Finalized, Established, ToSet
<1>5. FlightTaken'
    BY <1>2 DEF HOInv, HandoverPlace, FlightTaken
<1> QED
    BY <1>3, <1>4, <1>5 DEF HOInv

LEMMA DrainKeeps ==
    ASSUME HOInv, DrainRound PROVE HOInv'
<1> USE HandoverAssumption DEF DrainRound
<1>1. CASE hrounds = kDrainMaxRounds \/ hbroken \/ NothingToDrain(harrived)
  <2>1. HandoverPlace'
      BY <1>1 DEF HOInv, HandoverPlace, HOTypeOK
  <2>2. ReaderHandsOn' /\ WritesNumbered' /\ PinHolds'
      BY <1>1 DEF HOInv, ReaderHandsOn, WritesNumbered, PinHolds, Finalized, Established, ToSet
  <2>3. FlightTaken'
      BY <1>1 DEF HOInv, HandoverPlace, HOTypeOK, FlightTaken, NothingToDrain
  <2> QED
      BY <2>1, <2>2, <2>3 DEF HOInv
<1>2. CASE ~(hrounds = kDrainMaxRounds \/ hbroken \/ NothingToDrain(harrived))
    BY <1>2, PeekKeeps DEF HOInv, HandoverPlace, HOTypeOK
<1> QED
    BY <1>1, <1>2

LEMMA PeekTimesOutKeeps ==
    ASSUME HOInv, PeekTimesOut PROVE HOInv'
<1> USE HandoverAssumption DEF PeekTimesOut
<1>1. HandoverPlace'
    BY DEF HOInv, HandoverPlace, HOTypeOK
<1>2. ReaderHandsOn' /\ WritesNumbered' /\ PinHolds'
    BY DEF HOInv, ReaderHandsOn, WritesNumbered, PinHolds, Finalized, Established, ToSet
<1>3. FlightTaken'
    BY DEF HOInv, HandoverPlace, FlightTaken
<1> QED
    BY <1>1, <1>2, <1>3 DEF HOInv

LEMMA FinalizeKeeps ==
    ASSUME HOInv, Finalize PROVE HOInv'
<1>1. ~Finalized /\ hphase = "finalizing" /\ hwrites = << >>
    BY DEF Finalize, Finalized, HOInv, ReaderHandsOn
<1>2. hwrites' = << >> \/ (hwrites' = <<[by |-> "ssl", seq |-> 0]>> /\ hphase' = "failed")
    BY <1>1 DEF Finalize, CloseNotify
<1>3. /\ hseq' \in Nat /\ 2 * hseq' <= hssl /\ hseq' <= Len(hrecs)
      /\ hhot' = hread /\ hssl \in Nat /\ hread \in Nat /\ Len(hrecs) \in Nat
    BY DEF Finalize, ReadSequence, HotStart, HOInv, HandoverPlace, HOTypeOK
<1>4. hticket' \in BOOLEAN
    BY Zenon DEF Finalize
<1>5. hwrites' \in Seq([by : {"ssl", "hot"}, seq : Nat]) /\ Len(hwrites') <= 1
      /\ (hphase' # "failed" => Len(hwrites') = 0)
  <2> DEFINE w == [by |-> "ssl", seq |-> 0]
             W == [by : {"ssl", "hot"}, seq : Nat]
  <2>1. w \in W
      OBVIOUS
  <2> HIDE DEF w, W
  <2>2. <<w>> \in Seq(W) /\ Len(<<w>>) = 1 /\ << >> \in Seq(W) /\ Len(<< >>) = 0
      BY <2>1
  <2>3. hwrites' = << >> \/ (hwrites' = <<w>> /\ hphase' = "failed")
      BY <1>2 DEF w
  <2>4. CASE hwrites' = << >>
      BY <2>2, <2>4 DEF W
  <2>5. CASE hwrites' = <<w>> /\ hphase' = "failed"
    <3> DEFINE v == hwrites'
    <3>1. v \in Seq(W) /\ Len(v) = 1
        BY <2>2, <2>5
    <3> QED
        BY <2>5, <3>1 DEF W
  <2> QED
      BY <2>3, <2>4, <2>5
<1>6. hphase' \in {"established", "failed"}
    BY DEF Finalize
<1>7. HandoverPlace'
    BY <1>3, <1>4, <1>5, <1>6 DEF Finalize, HOInv, HandoverPlace, HOTypeOK
<1>8. ReaderHandsOn'
  <2>1. hrecs' = hrecs /\ hgot' = hgot /\ \A k \in 1..Len(hrecs) : hrecs[k] # "data"
      BY <1>1 DEF Finalize, HOInv, ReaderHandsOn
  <2>2. ToSet(hgot) = {}
      BY <1>1 DEF HOInv, ReaderHandsOn
  <2>3. {k \in 1..hseq' : hrecs'[k] = "data"} = {}
      BY <1>3, <2>1
  <2>4. ToSet(hgot') = {}
      BY <2>1, <2>2 DEF ToSet
  <2> QED
      BY <1>3, <1>6, <2>1, <2>3, <2>4 DEF HOInv, ReaderHandsOn, Finalized
<1>9. FlightTaken'
  <2> SUFFICES ASSUME hflight >= 4, ~hbroken, hphase' = "established", hrecs[2] = "nst" PROVE hticket'
      BY <1>6 DEF FlightTaken, Finalize
  <2>1. hssl >= 4 /\ 2 \in 1..Len(hrecs)
      BY <1>1 DEF HOInv, HandoverPlace, HOTypeOK, FlightTaken
  <2>2. TicketUpTo(hssl)
      BY <1>3, <2>1 DEF TicketUpTo
  <2> QED
      BY <2>2 DEF Finalize
<1>10. WritesNumbered'
    BY <1>5, <1>6 DEF WritesNumbered, Established
<1>11. PinHolds'
    BY DEF Finalize, PinHolds, PinRefused, Established
<1> QED
    BY <1>7, <1>8, <1>9, <1>10, <1>11 DEF HOInv

LEMMA HotReadKeeps ==
    ASSUME HOInv, HotRead PROVE HOInv'
<1>1. /\ hseq \in Nat /\ hhot \in Nat /\ harrived \in Nat /\ Len(hrecs) \in Nat /\ hgot \in Seq(Nat)
      /\ harrived <= 2 * Len(hrecs) /\ hhot <= harrived /\ hseq <= Len(hrecs)
      /\ ToSet(hgot) = {k \in 1..hseq : hrecs[k] = "data"} /\ Established
    BY DEF HOInv, HandoverPlace, HOTypeOK, ReaderHandsOn, HotRead
<1>2. CASE ~Opens
  <2>1. hdead' \in BOOLEAN
      BY <1>2, Zenon DEF HotRead
  <2>2. HandoverPlace'
      BY <1>2, <2>1 DEF HotRead, HOInv, HandoverPlace, HOTypeOK
  <2> QED
      BY <1>2, <2>2 DEF HotRead, HOInv, ReaderHandsOn, FlightTaken, WritesNumbered, PinHolds,
                        Established, Finalized, ToSet
<1>3. CASE Opens
  <2>1. /\ hseq' = hseq + 1 /\ hhot' = hhot + 2 /\ hhot + 2 <= harrived /\ hdead' = hdead
        /\ hseq + 1 <= Len(hrecs)
      BY <1>1, <1>3 DEF HotRead, Opens
  <2>2. /\ hgot' = IF hrecs[hseq + 1] = "data" THEN Append(hgot, hseq + 1) ELSE hgot
        /\ hrecs' = hrecs /\ hphase' = hphase
      BY <1>3 DEF HotRead, IsApplicationData
  <2>3. \A i \in 1..Len(hgot) : hgot[i] \in 1..hseq
      BY <1>1 DEF ToSet
  <2>4. /\ hgot' \in Seq(Nat) /\ \A i, j \in 1..Len(hgot') : i < j => hgot'[i] < hgot'[j]
        /\ ToSet(hgot') = {k \in 1..hseq' : hrecs[k] = "data"}
    <3>1. CASE hrecs[hseq + 1] = "data"
      <4>1. /\ hgot' \in Seq(Nat) /\ Len(hgot') = Len(hgot) + 1 /\ hgot'[Len(hgot) + 1] = hseq + 1
            /\ \A i \in 1..Len(hgot) : hgot'[i] = hgot[i]
          BY <1>1, <2>2, <3>1
      <4>2. \A i, j \in 1..Len(hgot') : i < j => hgot'[i] < hgot'[j]
        <5> SUFFICES ASSUME NEW i \in 1..Len(hgot'), NEW j \in 1..Len(hgot'), i < j
                     PROVE  hgot'[i] < hgot'[j]
            OBVIOUS
        <5>1. Len(hgot) \in Nat /\ i \in 1..Len(hgot) /\ hgot[i] \in 1..hseq /\ hgot'[i] = hgot[i]
            BY SMTT(30), <1>1, <2>3, <4>1
        <5>2. CASE j = Len(hgot) + 1
            BY <1>1, <4>1, <5>1, <5>2
        <5>3. CASE j \in 1..Len(hgot)
            BY <4>1, <5>1, <5>3 DEF HOInv, ReaderHandsOn
        <5> QED
            BY <4>1, <5>1, <5>2, <5>3
      <4>3. ToSet(hgot') = ToSet(hgot) \cup {hseq + 1}
        <5> DEFINE g == hgot'
        <5>1. Len(hgot) \in Nat /\ DOMAIN hgot = 1..Len(hgot) /\ DOMAIN g = 1..Len(hgot) + 1
            BY <1>1, <4>1
        <5>2. \A x : x \in ToSet(g) <=> \E i \in 1..Len(hgot) + 1 : g[i] = x
            BY <5>1 DEF ToSet
        <5>3. \A x : x \in ToSet(hgot) <=> \E i \in 1..Len(hgot) : hgot[i] = x
            BY <5>1 DEF ToSet
        <5>4. g[Len(hgot) + 1] = hseq + 1 /\ \A i \in 1..Len(hgot) : g[i] = hgot[i]
            BY <4>1
        <5> HIDE DEF g
        <5>5. \A x : x \in ToSet(g) <=> x \in ToSet(hgot) \cup {hseq + 1}
            BY <5>1, <5>2, <5>3, <5>4
        <5>6. ToSet(g) = ToSet(hgot) \cup {hseq + 1}
            BY <5>5
        <5> QED
            BY <5>6 DEF g
      <4>4. {k \in 1..hseq' : hrecs[k] = "data"} = {k \in 1..hseq : hrecs[k] = "data"} \cup {hseq + 1}
          BY <1>1, <2>1, <3>1
      <4> QED
          BY <1>1, <4>1, <4>2, <4>3, <4>4
    <3>2. CASE hrecs[hseq + 1] # "data"
      <4>1. {k \in 1..hseq' : hrecs[k] = "data"} = {k \in 1..hseq : hrecs[k] = "data"}
          BY <1>1, <2>1, <3>2
      <4>2. hgot' = hgot
          BY <2>2, <3>2
      <4> QED
          BY <1>1, <4>1, <4>2 DEF HOInv, ReaderHandsOn, ToSet
    <3> QED
        BY <3>1, <3>2
  <2>5. HandoverPlace'
      BY <1>1, <2>1, <2>4 DEF HotRead, HOInv, HandoverPlace, HOTypeOK
  <2>6. ReaderHandsOn'
      BY <1>1, <2>1, <2>2, <2>4 DEF ReaderHandsOn, Finalized, Established
  <2>7. FlightTaken' /\ WritesNumbered' /\ PinHolds'
      BY DEF HotRead, HOInv, FlightTaken, WritesNumbered, PinHolds, Established
  <2> QED
      BY <2>5, <2>6, <2>7 DEF HOInv
<1> QED
    BY <1>2, <1>3

LEMMA HotWriteKeeps ==
    ASSUME HOInv, HotWrite PROVE HOInv'
<1> DEFINE n == Len(hwrites)
           W == [by : {"ssl", "hot"}, seq : Nat]
<1>1. hwrites \in Seq(W) /\ n \in Nat /\ Established /\ DOMAIN hwrites = 1..n
    BY DEF HOInv, HandoverPlace, HotWrite
<1>2. {i \in DOMAIN hwrites : hwrites[i].by = "hot"} = 1..n
    BY <1>1 DEF HOInv, WritesNumbered
<1>3. Cardinality(1..n) = n
    BY <1>1, FS_Interval
<1>4. hwrites' = Append(hwrites, [by |-> "hot", seq |-> n])
    BY <1>2, <1>3 DEF HotWrite
<1>5. [by |-> "hot", seq |-> n] \in W
    BY <1>1
<1> HIDE DEF W
<1>6. /\ hwrites' \in Seq(W) /\ Len(hwrites') = n + 1 /\ hwrites'[n + 1] = [by |-> "hot", seq |-> n]
      /\ \A i \in 1..n : hwrites'[i] = hwrites[i]
    BY <1>1, <1>4, <1>5
<1>7. HandoverPlace'
    BY <1>6 DEF HotWrite, HOInv, HandoverPlace, HOTypeOK, W
<1>8. WritesNumbered'
  <2> SUFFICES ASSUME NEW i \in 1..n + 1 PROVE hwrites'[i] = [by |-> "hot", seq |-> i - 1]
      BY <1>1, <1>6 DEF WritesNumbered, Established, HotWrite
  <2>1. CASE i = n + 1
      BY <1>1, <1>6, <2>1
  <2>2. CASE i \in 1..n
      BY <1>1, <1>6, <2>2 DEF HOInv, WritesNumbered
  <2> QED
      BY <1>1, <2>1, <2>2
<1> QED
    BY <1>1, <1>7, <1>8 DEF HotWrite, HOInv, ReaderHandsOn, FlightTaken, PinHolds, Established,
                            Finalized, ToSet

LEMMA HONextInv ==
    ASSUME ~ServerSpeaksFirst, HOInv, [HONext]_hvars PROVE HOInv'
<1>1. CASE UNCHANGED hvars
    BY <1>1 DEF hvars, HOInv, HandoverPlace, HOTypeOK, ReaderHandsOn, FlightTaken, WritesNumbered,
                PinHolds, Established, Finalized, ToSet
<1>2. ASSUME NEW m \in 1..2 * MaxServerRecords, HandshakeArrives(m) PROVE HOInv'
  <2>1. HandoverPlace'
      BY <1>2, HandoverAssumption DEF HandshakeArrives, HOInv, HandoverPlace, HOTypeOK
  <2> QED
      BY <1>2, <2>1 DEF HandshakeArrives, HOInv, ReaderHandsOn, FlightTaken, WritesNumbered,
                PinHolds, Established, Finalized, ToSet
<1>3. CASE TcpBreaks
  <2>1. hbroken' \in BOOLEAN
      BY <1>3, Zenon DEF TcpBreaks
  <2>2. HandoverPlace'
      BY <1>3, <2>1 DEF TcpBreaks, HOInv, HandoverPlace, HOTypeOK
  <2> QED
      BY <1>3, <2>2 DEF TcpBreaks, HOInv, ReaderHandsOn, FlightTaken, WritesNumbered,
                PinHolds, Established, Finalized, ToSet
<1>4. CASE HandshakeTimesOut
  <2>1. hwrites = << >> /\ Len(hwrites) = 0
      BY <1>4 DEF HandshakeTimesOut, HOInv, ReaderHandsOn, Finalized
  <2>2. HandoverPlace'
      BY <1>4 DEF HandshakeTimesOut, HOInv, HandoverPlace, HOTypeOK
  <2> QED
      BY <1>4, <2>1, <2>2 DEF HandshakeTimesOut, HOInv, ReaderHandsOn, FlightTaken, WritesNumbered,
                PinHolds, Established, Finalized, ToSet
<1>5. CASE PeekGoesOn
    BY <1>5, PeekKeeps DEF PeekGoesOn, HOInv, HandoverPlace
<1> QED
    BY <1>1, <1>2, <1>3, <1>4, <1>5, ServerWritesKeeps, HandshakeKeeps, DrainKeeps,
       PeekTimesOutKeeps, FinalizeKeeps, HotReadKeeps, HotWriteKeeps DEF HONext

\* The handover from the TLS library to the stream (on_handshake_complete_,
\* finalize_from_session_, extract_hot_state): where the server sends no data
\* before it is asked, for any number of records, drain rounds and pieces they
\* arrive in, no data is skipped, no record number is written twice, a ticket
\* that came with Finished is kept and no unpinned key is let through.
THEOREM HandoverAlwaysTrue ==
    ASSUME ~ServerSpeaksFirst PROVE HOSpec => []HandoverTrue
<1>1. HOInit => HOInv
    BY HOInitInv
<1>2. HOInv /\ [HONext]_hvars => HOInv'
    BY HONextInv
<1>3. HOInv => HandoverTrue
  <2> SUFFICES ASSUME HOInv PROVE HandoverTrue
      OBVIOUS
  <2>1. NothingSkipped
    <3>1. hseq \in 0..Len(hrecs) /\ DOMAIN hgot = 1..Len(hgot)
        BY DEF HOInv, HandoverPlace, ReaderHandsOn
    <3>2. ToSet(hgot) = {k \in 1..hseq : hrecs[k] = "data"}
        BY DEF HOInv, ReaderHandsOn
    <3>3. \E n \in 0..Len(hrecs) : ToSet(hgot) = {k \in 1..n : hrecs[k] = "data"}
        BY <3>1, <3>2
    <3> QED
        BY <3>1, <3>3 DEF HOInv, ReaderHandsOn, NothingSkipped
  <2>2. WritesOnce
    <3>1. CASE Established
      <4>1. ASSUME NEW i \in 1..Len(hwrites) PROVE hwrites[i].seq = i - 1
        <5>1. hwrites[i] = [by |-> "hot", seq |-> i - 1]
            BY <3>1 DEF HOInv, WritesNumbered
        <5> QED
            BY <5>1
      <4>2. \A i, j \in 1..Len(hwrites) : i - 1 = j - 1 => i = j
          OBVIOUS
      <4> QED
          BY <4>1, <4>2 DEF WritesOnce
    <3>2. CASE ~Established
      <4>1. Len(hwrites) \in Nat /\ Len(hwrites) <= 1
          BY <3>2 DEF HOInv, HandoverPlace, HOTypeOK, WritesNumbered, ReaderHandsOn, Finalized, Established
      <4> QED
          BY <4>1 DEF WritesOnce
    <3> QED
        BY <3>1, <3>2
  <2>3. TicketCaptured
      BY DEF HOInv, FlightTaken, TicketCaptured, Established
  <2> QED
      BY <2>1, <2>2, <2>3 DEF HOInv, HandoverPlace, HandoverTrue
<1> QED
    BY <1>1, <1>2, <1>3, PTL DEF HOSpec

-----------------------------------------------------------------------------
(* WsCodec.                                                                *)

USE WsAssumption

\* The first n fragments of message m.
Parts(m, n) == [i \in 1..n |-> <<m, i>>]
Peer == [msg : 0..WsMessages, sent : Nat, comp : BOOLEAN, dict : Nat]

CodecTyped ==
    /\ frag_buf \in Seq(Nat \X Nat) /\ Len(frag_buf) <= MaxMessage /\ frag_opcode \in {0, 1}
    /\ compressed_msg \in BOOLEAN /\ window \in 0..WsMessages /\ wopen \in BOOLEAN
    /\ peer \in Peer /\ abandoned \in BOOLEAN

\* While the stream is open, the buffer holds what the peer sent of the message in
\* flight, and the window is what the peer's was at the message it is on.
InFlight ==
    /\ window <= peer.msg
    /\ frag_opcode = 0 <=> peer.sent = 0
    /\ frag_opcode = 1 => frag_buf = Parts(peer.msg, peer.sent) /\ window < peer.msg
    /\ frag_opcode = 1 => (compressed_msg <=> peer.comp)

WindowAgrees ==
    IF no_takeover THEN window = 0 /\ peer.dict = 0
    ELSE window = IF frag_opcode = 0 /\ peer.comp THEN peer.dict + 1 ELSE peer.dict

CodecInv ==
    /\ CodecTyped /\ DeliveredWhole /\ WindowInStep
    /\ wopen => InFlight
    /\ (wopen /\ ~abandoned) => WindowAgrees

\* The keys handed out are the frames encoded, and pongs follow pings.
OutInv ==
    /\ wout \in 0..OutRoom /\ wframes \in 0..MaxEncoded /\ mask_pos \in 0..PoolSize
    /\ mask_pool \in Nat /\ mask_pool <= wframes /\ mask_pool * PoolSize + mask_pos = wframes
    /\ wpings \in 0..MaxPings /\ PingsAnswered /\ MasksFresh

\* One more fragment.
LEMMA PartsGrow ==
    ASSUME NEW m \in Nat, NEW n \in Nat
    PROVE  /\ Parts(m, n) \in Seq(Nat \X Nat) /\ Len(Parts(m, n)) = n
           /\ Append(Parts(m, n), <<m, n + 1>>) = Parts(m, n + 1)
<1>1. \A k \in Nat : /\ Parts(m, k) \in Seq(Nat \X Nat) /\ Len(Parts(m, k)) = k
                     /\ DOMAIN Parts(m, k) = 1..k
                     /\ \A i \in 1..k : Parts(m, k)[i] = <<m, i>>
    BY DEF Parts
<1> DEFINE a == Append(Parts(m, n), <<m, n + 1>>)
<1>2. /\ a \in Seq(Nat \X Nat) /\ Len(a) = n + 1 /\ DOMAIN a = 1..(n + 1)
      /\ \A i \in 1..n : a[i] = Parts(m, n)[i]
      /\ a[n + 1] = <<m, n + 1>>
  <2>1. PICK b \in Seq(Nat \X Nat) : b = Parts(m, n) /\ Len(b) = n
      BY <1>1
  <2>2. PICK e \in Nat \X Nat : e = <<m, n + 1>>
    <3>1. PICK k \in Nat : k = n + 1
        OBVIOUS
    <3>2. <<m, k>> \in Nat \X Nat
        OBVIOUS
    <3> QED
        BY <3>1, <3>2
  <2>3. /\ Append(b, e) \in Seq(Nat \X Nat) /\ Len(Append(b, e)) = n + 1
        /\ DOMAIN Append(b, e) = 1..(n + 1)
        /\ \A i \in 1..n : Append(b, e)[i] = b[i]
        /\ Append(b, e)[n + 1] = e
      BY <2>1
  <2> QED
      BY <2>1, <2>2, <2>3
<1> HIDE DEF a
<1>3. \A i \in 1..(n + 1) : a[i] = <<m, i>>
  <2> SUFFICES ASSUME NEW i \in 1..(n + 1) PROVE a[i] = <<m, i>>
      OBVIOUS
  <2>1. i \in 1..n \/ i = n + 1
      OBVIOUS
  <2> QED
      BY <1>1, <1>2, <2>1
<1>4. a = [i \in 1..(n + 1) |-> a[i]]
    BY <1>2
<1>5. a = Parts(m, n + 1)
    BY <1>3, <1>4 DEF Parts
<1> QED
    BY <1>1, <1>5 DEF a

\* A key is taken: the next of the pool, or the first of a new pool.
LEMMA KeyTaken ==
    ASSUME OutInv, TakeKey
    PROVE  /\ wframes' \in 0..MaxEncoded /\ mask_pos' \in 0..PoolSize /\ mask_pool' \in Nat
           /\ mask_pool' <= wframes' /\ mask_pool' * PoolSize + mask_pos' = wframes' /\ MasksFresh'
<1>1. PICK f \in Nat, p \in 0..PoolSize, q \in Nat, P \in Nat \ {0} :
          /\ f = wframes /\ p = mask_pos /\ q = mask_pool /\ P = PoolSize
          /\ q <= f /\ q * P + p = f /\ f < MaxEncoded /\ p <= P
    BY DEF OutInv, TakeKey
<1>2. wframes' = f + 1
    BY <1>1 DEF TakeKey
<1>3. CASE p >= P
  <2>1. mask_pos' = 1 /\ mask_pool' = q + 1 /\ wkey' = (q + 1) * P + 0
      BY <1>1, <1>3 DEF TakeKey, PoolEmpty
  <2>2. (q + 1) * P = q * P + P /\ q * P \in Nat
      BY <1>1
  <2>3. (q + 1) * P = f /\ p = P
      BY <1>1, <1>3, <2>2
  <2> QED
      BY <1>1, <1>2, <2>1, <2>3 DEF MasksFresh
<1>4. CASE ~(p >= P)
  <2>1. mask_pos' = p + 1 /\ mask_pool' = q /\ wkey' = q * P + p
      BY <1>1, <1>4 DEF TakeKey, PoolEmpty
  <2>2. q * P \in Nat
      BY <1>1
  <2> QED
      BY <1>1, <1>2, <1>4, <2>1, <2>2 DEF MasksFresh
<1> QED
    BY <1>3, <1>4

\* A fragment that joins the n before it, in the window d of its sender.
LEMMA AccumulateKeeps ==
    ASSUME CodecInv, wopen, NEW m \in 1..WsMessages, NEW n \in Nat, NEW comp \in BOOLEAN, NEW fin \in BOOLEAN,
           NEW d \in Nat, NEW opcode, NEW size,
           ~fin => opcode = 1,
           peer' = [msg |-> m, sent |-> IF fin THEN 0 ELSE n + 1, comp |-> comp, dict |-> d],
           window < m, no_takeover' = no_takeover, abandoned' \in BOOLEAN, abandoned => abandoned',
           ~abandoned' => window = d /\ (no_takeover => d = 0),
           Accumulate(Parts(m, n), opcode, comp, <<m, n + 1>>, fin, size)
    PROVE  CodecInv'
<1>1. peer' \in Peer /\ peer'.msg = m /\ peer'.comp = comp /\ peer'.dict = d
      /\ peer'.sent = (IF fin THEN 0 ELSE n + 1) /\ m \in Nat /\ window \in Nat /\ window \in 0..WsMessages
    BY DEF Peer, CodecInv, CodecTyped
<1>2. /\ Parts(m, n + 1) \in Seq(Nat \X Nat) /\ Len(Parts(m, n + 1)) = n + 1
      /\ Append(Parts(m, n), <<m, n + 1>>) = Parts(m, n + 1)
  <2>1. m \in Nat /\ n + 1 \in Nat
      OBVIOUS
  <2>2. Append(Parts(m, n), <<m, n + 1>>) = Parts(m, n + 1)
      BY <2>1, PartsGrow
  <2>3. Parts(m, n + 1) \in Seq(Nat \X Nat) /\ Len(Parts(m, n + 1)) = n + 1
      BY <2>1, PartsGrow
  <2> QED
      BY <2>2, <2>3
<1>3. CASE DropStream
  <2>1. ~wopen' /\ wopen' \in BOOLEAN /\ UNCHANGED <<wgot, frag_buf, frag_opcode, compressed_msg, window>>
      BY <1>3 DEF DropStream, codecvars
  <2>2. CodecTyped'
      BY <1>1, <2>1 DEF CodecInv, CodecTyped
  <2> QED
      BY <2>1, <2>2 DEF CodecInv, DeliveredWhole, WindowInStep
<1>4. CASE ~fin /\ Len(Parts(m, n + 1)) <= MaxMessage /\ ~DropStream
  <2>1. /\ frag_buf' = Parts(m, n + 1) /\ frag_opcode' = 1 /\ compressed_msg' = comp
        /\ UNCHANGED <<window, wopen, wgot>>
      BY <1>2, <1>4 DEF Accumulate
  <2>2. CodecTyped'
      BY <1>1, <1>2, <1>4, <2>1 DEF CodecInv, CodecTyped
  <2>3. InFlight'
      BY <1>1, <1>4, <2>1 DEF InFlight
  <2>4. ~abandoned' => WindowAgrees'
      BY <1>1, <2>1 DEF WindowAgrees
  <2> QED
      BY <2>1, <2>2, <2>3, <2>4 DEF CodecInv, DeliveredWhole, WindowInStep
<1>5. CASE fin /\ Len(Parts(m, n + 1)) <= MaxMessage /\ ~DropStream
  <2>1. /\ wgot' = [msg |-> m, parts |-> Parts(m, n + 1), sent |-> n + 1, comp |-> comp,
                    dict |-> window, peerdict |-> peer'.dict]
        /\ frag_buf' \in {<<>>, Parts(m, n + 1)} /\ frag_opcode' = 0 /\ compressed_msg' = FALSE
        /\ window' = (IF comp THEN WindowAfter(window + 1) ELSE window) /\ UNCHANGED wopen
    <3>1. <<m, n + 1>>[1] = m /\ <<m, n + 1>>[2] = n + 1
        OBVIOUS
    <3> QED
        BY <1>2, <1>5, <3>1 DEF Accumulate
  <2>2. frag_buf' \in Seq(Nat \X Nat) /\ Len(frag_buf') <= MaxMessage
    <3>1. << >> \in Seq(Nat \X Nat) /\ Len(<< >>) <= MaxMessage
        OBVIOUS
    <3> QED
        BY <1>2, <1>5, <2>1, <3>1
  <2>3. window' \in 0..WsMessages /\ window' <= m
      BY <1>1, <2>1 DEF WindowAfter
  <2>4. CodecTyped'
      BY <1>1, <2>1, <2>2, <2>3 DEF CodecInv, CodecTyped
  <2>5. InFlight'
      BY <1>1, <1>5, <2>1, <2>3 DEF InFlight
  <2>6. ~abandoned' => WindowAgrees'
      BY <1>1, <2>1 DEF WindowAgrees, WindowAfter
  <2>7. DeliveredWhole'
      BY <2>1 DEF DeliveredWhole, Parts
  <2>8. WindowInStep'
      BY <1>1, <2>1 DEF WindowInStep
  <2> QED
      BY <2>4, <2>5, <2>6, <2>7, <2>8 DEF CodecInv
<1>6. DropStream \/ Len(Parts(m, n + 1)) <= MaxMessage
  <2> SUFFICES ASSUME ~(Len(Parts(m, n + 1)) <= MaxMessage) PROVE DropStream
      OBVIOUS
  <2>1. Len(Append(Parts(m, n), <<m, n + 1>>)) > MaxMessage
      BY <1>2
  <2> QED
      BY <2>1, Zenon DEF Accumulate
<1> QED
    BY <1>3, <1>4, <1>5, <1>6

\* A first frame begins a message, a window like its sender's before it.
LEMMA FirstKeeps ==
    ASSUME CodecInv, NEW fin \in BOOLEAN, NEW comp \in BOOLEAN, NEW size, decode_first(fin, comp, size)
    PROVE  CodecInv'
<1>1. PICK p \in Peer : p = peer
    BY DEF CodecInv, CodecTyped
<1>2. PICK d \in Nat : d = IF no_takeover THEN 0 ELSE IF p.comp THEN p.dict + 1 ELSE p.dict
    BY DEF Peer
<1>3. /\ wopen /\ p.msg < WsMessages /\ abandoned' = (abandoned \/ p.sent > 0) /\ no_takeover' = no_takeover
      /\ peer' = [msg |-> p.msg + 1, sent |-> IF fin THEN 0 ELSE 1, comp |-> comp, dict |-> d]
    BY <1>1, <1>2 DEF decode_first, InnerVars
<1>4. PICK m \in 1..WsMessages : m = p.msg + 1
    BY <1>3 DEF Peer
<1>5. abandoned' \in BOOLEAN /\ (abandoned => abandoned')
    BY <1>3 DEF CodecInv, CodecTyped
<1>6. CASE comp /\ ~deflate
  <2>1. ~wopen' /\ wopen' \in BOOLEAN /\ UNCHANGED <<wgot, frag_buf, frag_opcode, compressed_msg, window>>
      BY <1>6 DEF decode_first, DropStream, codecvars
  <2>2. peer' \in Peer
      BY <1>3, <1>4 DEF Peer
  <2>3. CodecTyped'
      BY <1>5, <2>1, <2>2 DEF CodecInv, CodecTyped
  <2> QED
      BY <1>5, <2>1, <2>3 DEF CodecInv, DeliveredWhole, WindowInStep
<1>7. CASE ~(comp /\ ~deflate)
  <2>1. Parts(m, 0) = << >>
      BY DEF Parts
  <2>2. Accumulate(Parts(m, 0), IF fin THEN 0 ELSE 1, comp, <<m, 0 + 1>>, fin, size)
      BY <1>1, <1>4, <1>7, <2>1 DEF decode_first, FreshBuffer
  <2>3. window < m
      BY <1>1, <1>3, <1>4 DEF CodecInv, InFlight, CodecTyped, Peer
  <2>4. ~abandoned' => window = d /\ (no_takeover => d = 0)
    <3> SUFFICES ASSUME ~abandoned' PROVE window = d /\ (no_takeover => d = 0)
        OBVIOUS
    <3>0. ~abandoned /\ ~(p.sent > 0)
        BY <1>3
    <3>1. ~abandoned /\ p.sent = 0
        BY <3>0 DEF Peer
    <3>2. frag_opcode = 0 /\ WindowAgrees
        BY <1>1, <1>3, <3>1 DEF CodecInv, InFlight
    <3> QED
        BY <1>1, <1>2, <3>2 DEF WindowAgrees
  <2>5. peer' = [msg |-> m, sent |-> IF fin THEN 0 ELSE 0 + 1, comp |-> comp, dict |-> d]
      BY <1>3, <1>4
  <2> QED
      BY <1>3, <1>5, <2>2, <2>3, <2>4, <2>5, AccumulateKeeps
<1> QED
    BY <1>6, <1>7

\* A continuation joins the message in flight, or there is none.
LEMMA ContinuationKeeps ==
    ASSUME CodecInv, NEW fin \in BOOLEAN, NEW rsv1, NEW size, decode_continuation(fin, rsv1, size)
    PROVE  CodecInv'
<1>1. PICK p \in Peer : p = peer
    BY DEF CodecInv, CodecTyped
<1>2. /\ wopen /\ p.msg > 0 /\ UNCHANGED <<abandoned, no_takeover>>
      /\ peer' = [p EXCEPT !.sent = IF fin THEN 0 ELSE p.sent + 1]
    BY <1>1 DEF decode_continuation, InnerVars
<1>3. PICK m \in 1..WsMessages, n \in Nat, d \in Nat, comp \in BOOLEAN :
          m = p.msg /\ n = p.sent /\ d = p.dict /\ comp = p.comp
    BY <1>2 DEF Peer
<1>4. peer' = [msg |-> m, sent |-> IF fin THEN 0 ELSE n + 1, comp |-> comp, dict |-> d]
    BY <1>2, <1>3 DEF Peer
<1>5. CASE Orphan \/ rsv1
  <2>1. ~wopen' /\ wopen' \in BOOLEAN /\ UNCHANGED <<wgot, frag_buf, frag_opcode, compressed_msg, window>>
      BY <1>5 DEF decode_continuation, DropStream, codecvars
  <2>2. peer' \in Peer
      BY <1>4 DEF Peer
  <2>3. CodecTyped'
      BY <1>2, <2>1, <2>2 DEF CodecInv, CodecTyped
  <2> QED
      BY <1>2, <2>1, <2>3 DEF CodecInv, DeliveredWhole, WindowInStep
<1>6. CASE ~(Orphan \/ rsv1)
  <2>1. frag_opcode = 1
      BY <1>6 DEF Orphan, CodecInv, CodecTyped
  <2>2. frag_buf = Parts(m, n) /\ window < m /\ (compressed_msg <=> comp)
      BY <1>1, <1>2, <1>3, <2>1 DEF CodecInv, InFlight
  <2>3. compressed_msg = comp
      BY <2>2 DEF CodecInv, CodecTyped
  <2>4. Accumulate(Parts(m, n), frag_opcode, comp, <<m, n + 1>>, fin, size)
      BY <1>1, <1>3, <1>6, <2>2, <2>3 DEF decode_continuation
  <2>5. ~abandoned' => window = d /\ (no_takeover => d = 0)
      BY <1>1, <1>2, <1>3, <2>1 DEF CodecInv, WindowAgrees
  <2>6. abandoned' \in BOOLEAN /\ (abandoned => abandoned') /\ no_takeover' = no_takeover
      BY <1>2 DEF CodecInv, CodecTyped
  <2> QED
    <3>1. wopen /\ window < m /\ (~fin => frag_opcode = 1)
        BY <1>2, <2>1, <2>2
    <3> QED
        BY <1>3, <1>4, <2>4, <2>5, <2>6, <3>1, AccumulateKeeps
<1> QED
    BY <1>5, <1>6

\* A step of the codec that leaves the message in flight alone, or drops the stream.
LEMMA CodecRests ==
    ASSUME CodecInv, UNCHANGED <<frag_buf, frag_opcode, compressed_msg, window, peer, abandoned, wgot, no_takeover>>,
           UNCHANGED wopen \/ wopen' = FALSE
    PROVE  CodecInv'
<1>1. CASE UNCHANGED wopen
    BY <1>1 DEF CodecInv, CodecTyped, DeliveredWhole, WindowInStep, InFlight, WindowAgrees, Parts
<1>2. CASE wopen' = FALSE
  <2>1. CodecTyped' /\ DeliveredWhole' /\ WindowInStep'
      BY <1>2 DEF CodecInv, CodecTyped, DeliveredWhole, WindowInStep
  <2> QED
      BY <1>2, <2>1 DEF CodecInv
<1> QED
    BY <1>1, <1>2

\* Nothing has arrived and no frame has been encoded.
LEMMA WSInitInv == WSInit => CodecInv /\ OutInv
<1> SUFFICES ASSUME WSInit PROVE CodecInv /\ OutInv
    OBVIOUS
<1>1. peer \in Peer /\ peer.msg = 0 /\ peer.sent = 0 /\ ~peer.comp /\ peer.dict = 0
    BY DEF WSInit, Peer
<1>2. /\ frag_buf = << >> /\ frag_opcode = 0 /\ compressed_msg = FALSE /\ window = 0
      /\ wopen = TRUE /\ abandoned = FALSE /\ wgot = NothingGot
    BY DEF WSInit
<1>3. CodecTyped
  <2>1. frag_buf \in Seq(Nat \X Nat) /\ Len(frag_buf) <= MaxMessage
      BY <1>2
  <2>2. compressed_msg \in BOOLEAN /\ wopen \in BOOLEAN /\ abandoned \in BOOLEAN
      BY <1>2
  <2>3. frag_opcode \in {0, 1} /\ window \in 0..WsMessages
      BY <1>2
  <2> QED
      BY <1>1, <2>1, <2>2, <2>3 DEF CodecTyped
<1>4. InFlight /\ WindowAgrees
    BY <1>1, <1>2 DEF InFlight, WindowAgrees
<1>5. DeliveredWhole /\ WindowInStep
    BY <1>2 DEF DeliveredWhole, WindowInStep, NothingGot
<1>6. OutInv
    BY DEF WSInit, OutInv, PingsAnswered, MasksFresh
<1> QED
    BY <1>3, <1>4, <1>5, <1>6 DEF CodecInv

\* Every frame in either direction keeps both parts.
LEMMA WSNextInv == CodecInv /\ OutInv /\ [WSNext]_WSvars => (CodecInv /\ OutInv)'
<1> SUFFICES ASSUME CodecInv, OutInv, [WSNext]_WSvars PROVE CodecInv' /\ OutInv'
    OBVIOUS
<1>1. CASE encode
  <2>1. CodecInv'
      BY <1>1, CodecRests DEF encode, InnerVars, codecvars
  <2>2. OutInv'
      BY <1>1, KeyTaken DEF encode, OutInv, PingsAnswered
  <2> QED
      BY <2>1, <2>2
<1>2. CASE FlushOut
  <2>1. CodecInv'
      BY <1>2, CodecRests DEF FlushOut, InnerVars, codecvars
  <2>2. OutInv'
      BY <1>2 DEF FlushOut, OutInv, PingsAnswered, MasksFresh, maskvars
  <2> QED
      BY <2>1, <2>2
<1>3. CASE decode_ping
  <2>1. CodecInv'
      BY <1>3, CodecRests DEF decode_ping, InnerVars, codecvars, PongFails
  <2>2. wout' \in 0..OutRoom /\ wpings' \in 0..MaxPings /\ PingsAnswered'
    <3>1. PICK k \in Nat, o \in Nat : k = wpings /\ k = wpongs /\ o = wout /\ o <= OutRoom /\ k < MaxPings
        BY <1>3 DEF decode_ping, OutInv, PingsAnswered
    <3>2. \/ o < OutRoom /\ wout' = o + 1 /\ wpongs' = k + 1 /\ wpings' = k + 1
          \/ UNCHANGED <<wout, wpings, wpongs>>
        BY <1>3, <3>1 DEF decode_ping, PongFails
    <3> QED
        BY <3>1, <3>2 DEF PingsAnswered
  <2>3. TakeKey
      BY <1>3 DEF decode_ping
  <2>4. OutInv'
      BY <2>2, <2>3, KeyTaken DEF OutInv
  <2> QED
      BY <2>1, <2>4
<1>4. CASE decode_close
  <2>1. CodecInv'
      BY <1>4, CodecRests DEF decode_close, InnerVars, codecvars
  <2>2. TakeKey /\ UNCHANGED <<wpings, wpongs>> /\ wout' \in 0..OutRoom
      BY <1>4 DEF decode_close, OutInv
  <2>3. OutInv'
      BY <2>2, KeyTaken DEF OutInv, PingsAnswered
  <2> QED
      BY <2>1, <2>3
<1>5. CASE decode_bad
  <2>1. CodecInv'
      BY <1>5, CodecRests DEF decode_bad, DropStream, InnerVars, codecvars
  <2>2. OutInv'
      BY <1>5 DEF decode_bad, OutInv, PingsAnswered, MasksFresh, maskvars
  <2> QED
      BY <2>1, <2>2
<1>6. ASSUME NEW fin \in BOOLEAN, NEW comp \in BOOLEAN, NEW size, decode_first(fin, comp, size)
      PROVE  CodecInv' /\ OutInv'
  <2>1. OutInv'
      BY <1>6 DEF decode_first, OutInv, PingsAnswered, MasksFresh, maskvars
  <2> QED
      BY <1>6, <2>1, FirstKeeps
<1>7. ASSUME NEW fin \in BOOLEAN, NEW rsv1 \in BOOLEAN, NEW size, decode_continuation(fin, rsv1, size)
      PROVE  CodecInv' /\ OutInv'
  <2>1. OutInv'
      BY <1>7 DEF decode_continuation, OutInv, PingsAnswered, MasksFresh, maskvars
  <2> QED
      BY <1>7, <2>1, ContinuationKeeps
<1>8. CASE UNCHANGED WSvars
  <2>1. CodecInv'
      BY <1>8, CodecRests DEF WSvars, codecvars
  <2>2. OutInv'
      BY <1>8 DEF WSvars, maskvars, OutInv, PingsAnswered, MasksFresh
  <2> QED
      BY <2>1, <2>2
<1> QED
    BY <1>1, <1>2, <1>3, <1>4, <1>5, <1>6, <1>7, <1>8 DEF WSNext

\* WsCodec: for every limit on messages, pool of keys and output buffer, and
\* whatever frames the peer sends in whatever order: a message is handed on whole
\* and alone, a compressed one is expanded with its sender's window, every ping
\* has its pong and no mask key is used twice.
THEOREM MessagesAlwaysTrue == WSSpec => []MessagesTrue
<1>1. CodecInv /\ OutInv => MessagesTrue
  <2> SUFFICES ASSUME CodecInv, OutInv PROVE MessagesTrue
      OBVIOUS
  <2>1. WSTypeOK
      BY DEF CodecInv, CodecTyped, OutInv, PingsAnswered, WSTypeOK
  <2> QED
      BY <2>1 DEF CodecInv, OutInv, MessagesTrue
<1> QED
    BY <1>1, WSInitInv, WSNextInv, PTL DEF WSSpec

-----------------------------------------------------------------------------
(* Sums over finite sets.                                                  *)

HIDE WsAssumption

\* SumFunctionOnSet is the sum, in whichever order it takes the elements.
LEMMA SumIs ==
    ASSUME NEW S, IsFiniteSet(S), NEW v, \A x \in S : v[x] \in Int, NEW F, Sums(F, v, S)
    PROVE  SumFunctionOnSet(v, S) = F[S]
<1> DEFINE Step(g) == [T \in SUBSET S |-> IF T = {} THEN 0
                         ELSE v[CHOOSE x \in T : TRUE] + g[T \ {CHOOSE x \in T : TRUE}]]
           G == CHOOSE g : g = Step(g)
<1>1. SumFunctionOnSet(v, S) = G[S]
    BY DEF SumFunctionOnSet, FoldFunctionOnSet, MapThenFoldSet
<1>2. F = Step(F)
  <2>1. ASSUME NEW T \in SUBSET S PROVE F[T] = Step(F)[T]
    <3>1. CASE T = {}
        BY <3>1 DEF Sums
    <3>2. CASE T # {}
      <4>1. PICK x \in T : x = CHOOSE y \in T : TRUE
          BY <3>2
      <4>2. F[T] = F[T \ {x}] + v[x] /\ F[T \ {x}] \in Int /\ v[x] \in Int
          BY <4>1 DEF Sums
      <4>3. F[T] = v[x] + F[T \ {x}]
          BY <4>2
      <4> QED
          BY <3>2, <4>1, <4>3
    <3> QED
        BY <3>1, <3>2
  <2> QED
      BY <2>1 DEF Sums
<1>3. G = Step(G)
    BY <1>2
<1>4. G[{}] = 0
    BY <1>3
<1>5. ASSUME NEW T \in SUBSET S, T # {}
      PROVE  \E x \in T : G[T \ {x}] \in Int => G[T] = G[T \ {x}] + v[x]
  <2>1. PICK x \in T : x = CHOOSE y \in T : TRUE
      BY <1>5
  <2>2. G[T] = v[x] + G[T \ {x}]
      BY <1>3, <1>5, <2>1
  <2>3. v[x] \in Int
      BY <2>1
  <2> HIDE DEF G
  <2>4. ASSUME G[T \ {x}] \in Int PROVE G[T] = G[T \ {x}] + v[x]
    <3>1. PICK a \in Int, b \in Int : a = G[T \ {x}] /\ b = v[x]
        BY <2>3, <2>4
    <3> QED
        BY <2>2, <3>1
  <2> QED
      BY <2>4
<1> HIDE DEF G
<1>6. IsFiniteSet(S) /\ Sums(F, v, S)
    OBVIOUS
<1>7. TakesOff(G, v, S)
    BY <1>4, <1>5 DEF TakesOff
<1>8. G[S] = F[S]
    BY <1>6, <1>7, SumsUnique
<1> QED
    BY <1>1, <1>8

\* What is left when an element is taken off.
LEMMA SumTake ==
    ASSUME NEW S, IsFiniteSet(S), NEW v, \A x \in S : v[x] \in Int
    PROVE  /\ SumFunctionOnSet(v, S) \in Int
           /\ S = {} => SumFunctionOnSet(v, S) = 0
           /\ \A x \in S : SumFunctionOnSet(v, S) = SumFunctionOnSet(v, S \ {x}) + v[x]
<1>1. PICK F : Sums(F, v, S)
    BY SumsExist
<1>2. SumFunctionOnSet(v, S) = F[S]
    BY <1>1, SumIs
<1>3. ASSUME NEW x \in S PROVE SumFunctionOnSet(v, S \ {x}) = F[S \ {x}]
  <2>1. PICK T : T = S \ {x}
      OBVIOUS
  <2>2. PICK E : E = [U \in SUBSET T |-> F[U]]
      OBVIOUS
  <2>3. Sums(E, v, T)
      BY <1>1, <2>1, <2>2 DEF Sums
  <2>4. IsFiniteSet(T) /\ \A y \in T : v[y] \in Int
      BY <2>1, FS_Subset
  <2>5. SumFunctionOnSet(v, T) = E[T]
      BY <2>3, <2>4, SumIs
  <2> QED
      BY <2>1, <2>2, <2>5
<1>4. F[S] \in Int /\ F[{}] = 0
    BY <1>1 DEF Sums
<1>5. \A x \in S : F[S] = F[S \ {x}] + v[x]
    BY <1>1 DEF Sums
<1>6. ASSUME NEW x \in S PROVE SumFunctionOnSet(v, S) = SumFunctionOnSet(v, S \ {x}) + v[x]
    BY <1>2, <1>3, <1>5, Zenon
<1>7. S = {} => SumFunctionOnSet(v, S) = 0
    BY <1>2, <1>4
<1> QED
    BY <1>2, <1>4, <1>6, <1>7, Zenon

\* Only the values over the set matter.
LEMMA SumSame ==
    ASSUME NEW S, IsFiniteSet(S), NEW v, NEW w, \A x \in S : v[x] \in Int /\ v[x] = w[x]
    PROVE  SumFunctionOnSet(v, S) = SumFunctionOnSet(w, S)
<1>1. PICK F : Sums(F, v, S)
    BY SumsExist
<1>2. Sums(F, w, S)
    BY <1>1 DEF Sums
<1>3. \A x \in S : w[x] \in Int
    OBVIOUS
<1>4. SumFunctionOnSet(v, S) = F[S]
    BY <1>1, SumIs
<1>5. SumFunctionOnSet(w, S) = F[S]
    BY <1>2, <1>3, SumIs
<1> QED
    BY <1>4, <1>5

\* A sum of naturals is one.
LEMMA SumNat ==
    ASSUME NEW S, IsFiniteSet(S), NEW v, \A x \in S : v[x] \in Nat
    PROVE  SumFunctionOnSet(v, S) \in Nat
<1> DEFINE P == {T \in SUBSET S : SumFunctionOnSet(v, T) \in Nat}
<1>0. \A T \in SUBSET S : IsFiniteSet(T) /\ \A x \in T : v[x] \in Int
    BY FS_Subset
<1>1. {} \in P
  <2>1. IsFiniteSet({}) /\ \A x \in {} : v[x] \in Int
      BY <1>0
  <2>2. SumFunctionOnSet(v, {}) = 0
      BY <2>1, SumTake
  <2> QED
      BY <2>2
<1>2. ASSUME NEW T \in SUBSET S, NEW x \in S, T \in P, x \notin T PROVE T \cup {x} \in P
  <2>1. T \cup {x} \in SUBSET S /\ x \in T \cup {x} /\ (T \cup {x}) \ {x} = T
      BY <1>2
  <2>2. IsFiniteSet(T \cup {x}) /\ \A y \in T \cup {x} : v[y] \in Int
      BY <1>0, <2>1
  <2>3. SumFunctionOnSet(v, T \cup {x}) = SumFunctionOnSet(v, (T \cup {x}) \ {x}) + v[x]
      BY <2>1, <2>2, SumTake
  <2>4. SumFunctionOnSet(v, T) \in Nat /\ v[x] \in Nat
      BY <1>2
  <2> QED
      BY <2>1, <2>3, <2>4
<1> HIDE DEF P
<1>3. \A T \in SUBSET S : T \in P
    BY <1>1, <1>2, FiniteInduction
<1> QED
    BY <1>3 DEF P

-----------------------------------------------------------------------------
(* Framing: the framers of a byte stream.                                  *)

USE FramingAssumption

Ends(v, n) == SumFunctionOnSet(v, 1..n)

\* Where the n-th of k frames of the given sizes ends.
LEMMA EndsFacts ==
    ASSUME NEW k \in Nat, NEW v, \A i \in 1..k : v[i] \in Nat
    PROVE  /\ Ends(v, 0) = 0
           /\ \A n \in 0..k : Ends(v, n) \in Nat
           /\ \A n \in 1..k : Ends(v, n) = Ends(v, n - 1) + v[n]
<1>1. ASSUME NEW n \in 0..k PROVE IsFiniteSet(1..n) /\ \A i \in 1..n : v[i] \in Int /\ v[i] \in Nat
    BY FS_Interval
<1>2. Ends(v, 0) = 0
  <2>1. 1..0 = {} /\ 0 \in 0..k
      OBVIOUS
  <2> QED
      BY <1>1, <2>1, SumTake DEF Ends
<1>3. \A n \in 0..k : Ends(v, n) \in Nat
    BY <1>1, SumNat DEF Ends
<1>4. ASSUME NEW n \in 1..k PROVE Ends(v, n) = Ends(v, n - 1) + v[n]
  <2>1. n \in 0..k /\ n \in 1..n /\ (1..n) \ {n} = 1..(n - 1)
      OBVIOUS
  <2>2. SumFunctionOnSet(v, 1..n) = SumFunctionOnSet(v, (1..n) \ {n}) + v[n]
      BY <1>1, <2>1, SumTake
  <2> QED
      BY <2>1, <2>2 DEF Ends
<1> QED
    BY <1>2, <1>3, <1>4

\* A frame more moves no end of an earlier one.
LEMMA EndsSame ==
    ASSUME NEW n \in Nat, NEW v, NEW w, \A i \in 1..n : v[i] \in Nat /\ v[i] = w[i]
    PROVE  Ends(v, n) = Ends(w, n)
<1>1. IsFiniteSet(1..n) /\ \A i \in 1..n : v[i] \in Int /\ v[i] = w[i]
    BY FS_Interval
<1> QED
    BY <1>1, SumSame DEF Ends

AnyFrame == [hdr : Nat, body : Nat, good : BOOLEAN]

\* The sizes of frames, under a layout.
FrameSizes(s, layout) == [i \in 1..Len(s) |-> s[i].hdr + s[i].body + layout.trailer]

FRInv ==
    /\ flayout \in Framers /\ fsent \in Seq(AnyFrame) /\ fframes \in Seq(Nat \X Nat)
    /\ farrived \in Nat /\ fconsumed \in Nat /\ flast \in {"more", "frame", "error"}
    /\ Len(fframes) <= Len(fsent)
    /\ fconsumed = Ends(FrameSizes(fsent, flayout), Len(fframes)) /\ fconsumed <= farrived
    /\ \A i \in 1..Len(fframes) :
            fframes[i] = <<Ends(FrameSizes(fsent, flayout), i - 1), Ends(FrameSizes(fsent, flayout), i)>>

\* The trailers are lengths, and the headers too.
LEMMA LayoutFacts ==
    ASSUME NEW l \in Framers
    PROVE  l.trailer \in Nat /\ l.hdr \subseteq Nat
<1>1. CASE l = FixFramer
    BY <1>1 DEF FixFramer
<1>2. CASE l = LengthPrefixCodec
    BY <1>2 DEF LengthPrefixCodec
<1>3. CASE l \in {LengthPrefixFramer, SoupBinTcpFramer}
    BY <1>3 DEF LengthPrefixFramer, SoupBinTcpFramer
<1> QED
    BY <1>1, <1>2, <1>3 DEF Framers

\* The sizes of the frames sent are numbers.
LEMMA SizesFacts ==
    ASSUME NEW l \in Framers, NEW s \in Seq(AnyFrame)
    PROVE  /\ Len(s) \in Nat /\ DOMAIN s = 1..Len(s)
           /\ \A i \in 1..Len(s) : /\ s[i] \in AnyFrame /\ FrameSizes(s, l)[i] \in Nat
                                   /\ FrameSizes(s, l)[i] = s[i].hdr + s[i].body + l.trailer
<1>1. Len(s) \in Nat /\ DOMAIN s = 1..Len(s) /\ \A i \in 1..Len(s) : s[i] \in AnyFrame
    OBVIOUS
<1>2. l.trailer \in Nat
    BY LayoutFacts
<1>3. \A i \in 1..Len(s) : s[i].hdr \in Nat /\ s[i].body \in Nat
    BY <1>1 DEF AnyFrame
<1> QED
    BY <1>1, <1>2, <1>3 DEF FrameSizes

\* Nothing is sent or framed at first.
LEMMA FRInitInv == FRInit => FRInv
<1> SUFFICES ASSUME FRInit PROVE FRInv
    OBVIOUS
<1>1. fsent = << >> /\ fframes = << >> /\ farrived = 0 /\ fconsumed = 0 /\ flast = "frame" /\ flayout \in Framers
    BY DEF FRInit
<1>2. << >> \in Seq(AnyFrame) /\ << >> \in Seq(Nat \X Nat) /\ Len(<< >>) = 0
    OBVIOUS
<1>3. Ends(FrameSizes(fsent, flayout), 0) = 0
  <2>1. \A i \in 1..0 : FrameSizes(fsent, flayout)[i] \in Nat
      OBVIOUS
  <2> QED
      BY <2>1, EndsFacts
<1> QED
    BY <1>1, <1>2, <1>3 DEF FRInv

\* A frame written or bytes that arrive move no end of an earlier frame.
LEMMA WriteKeeps ==
    ASSUME FRInv, NEW f \in Frames, Write(f)
    PROVE  FRInv'
<1> DEFINE v == FrameSizes(fsent, flayout)
           s == Append(fsent, f)
           w == FrameSizes(s, flayout)
           n == Len(fsent)
<1>1. /\ fsent' = s /\ UNCHANGED <<flayout, farrived, fconsumed, fframes, flast>>
      /\ flayout \in Framers /\ fsent \in Seq(AnyFrame)
    BY DEF Write, FRInv
<1>2. f \in AnyFrame
    BY <1>1, LayoutFacts DEF Frames, AnyFrame
<1>3. s \in Seq(AnyFrame) /\ Len(s) = n + 1 /\ n \in Nat /\ \A i \in 1..n : s[i] = fsent[i]
    BY <1>1, <1>2
<1>4. ASSUME NEW i \in 1..n PROVE v[i] \in Nat /\ v[i] = w[i]
  <2>1. v[i] \in Nat /\ v[i] = fsent[i].hdr + fsent[i].body + flayout.trailer
      BY <1>1, SizesFacts
  <2>2. i \in 1..Len(s)
      BY <1>3
  <2>3. w[i] = s[i].hdr + s[i].body + flayout.trailer
      BY <1>1, <1>3, <2>2, SizesFacts
  <2> QED
      BY <1>3, <2>1, <2>3
<1> HIDE DEF v, w, s
<1>5. \A m \in 0..n : Ends(v, m) = Ends(w, m)
  <2> SUFFICES ASSUME NEW m \in 0..n PROVE Ends(v, m) = Ends(w, m)
      OBVIOUS
  <2>1. m \in Nat /\ \A i \in 1..m : v[i] \in Nat /\ v[i] = w[i]
      BY <1>3, <1>4
  <2> QED
      BY <2>1, EndsSame
<1>6. FrameSizes(fsent', flayout') = w /\ Len(fframes) \in 0..n /\ Len(fframes) <= Len(s)
    BY <1>1, <1>3 DEF w, FRInv
<1>7. fconsumed = Ends(w, Len(fframes))
    BY <1>5, <1>6 DEF FRInv, v
<1>8. ASSUME NEW i \in 1..Len(fframes) PROVE fframes[i] = <<Ends(w, i - 1), Ends(w, i)>>
  <2>1. i \in 0..n /\ i - 1 \in 0..n
      BY <1>3, <1>6
  <2>2. fframes[i] = <<Ends(v, i - 1), Ends(v, i)>>
      BY DEF FRInv, v
  <2> QED
      BY <1>5, <2>1, <2>2
<1> QED
    BY <1>1, <1>3, <1>6, <1>7, <1>8 DEF FRInv

\* A remainder is no larger than what it is of.
LEMMA UnsignedBelow ==
    ASSUME NEW x \in Nat PROVE Unsigned(x) \in Nat /\ Unsigned(x) <= x
<1>1. PICK C \in Nat \ {0} : C = SizeLimit
    OBVIOUS
<1>2. x \div C \in Int /\ x % C \in 0..(C - 1) /\ x = C * (x \div C) + (x % C)
    BY DivMod
<1>3. C * (x \div C) >= 0
    OBVIOUS
<1> QED
    BY <1>1, <1>2, <1>3 DEF Unsigned

\* decode_frame takes the next frame, waits or fails.
LEMMA DecodeKeeps ==
    ASSUME FRInv, decode_frame
    PROVE  FRInv'
<1> DEFINE v == FrameSizes(fsent, flayout)
           n == Len(fframes)
           f == fsent[n + 1]
           len == farrived - fconsumed
<1>1. UNCHANGED <<flayout, fsent, farrived>> /\ n < Len(fsent)
    BY DEF decode_frame
<1>2. CASE flast' \in {"more", "error"} /\ UNCHANGED <<fframes, fconsumed>>
    BY <1>1, <1>2 DEF FRInv
<1>3. CASE /\ HasAll(len, f) /\ fframes' = Append(fframes, <<fconsumed, fconsumed + Size(f)>>)
           /\ fconsumed' = fconsumed + Size(f) /\ flast' = "frame"
  <2>1. /\ flayout \in Framers /\ fsent \in Seq(AnyFrame) /\ fframes \in Seq(Nat \X Nat) /\ n \in Nat
        /\ fconsumed \in Nat /\ farrived \in Nat /\ fconsumed = Ends(v, n) /\ fconsumed <= farrived
      BY DEF FRInv
  <2>2. n + 1 \in 1..Len(fsent) /\ Len(fsent) \in Nat
      BY <1>1, <2>1
  <2>3. \A i \in 1..Len(fsent) : v[i] \in Nat
      BY <2>1, SizesFacts
  <2>4. f \in AnyFrame /\ v[n + 1] = Size(f) /\ Size(f) \in Nat
      BY <2>1, <2>2, SizesFacts DEF Size
  <2>5. PICK h \in Nat, b \in Nat, t \in Nat, l \in Nat :
            h = f.hdr /\ b = f.body /\ t = flayout.trailer /\ l = len /\ Size(f) = h + b + t
      BY <2>1, <2>4, LayoutFacts DEF AnyFrame, Size
  <2>6. l >= h + t /\ b <= Unsigned(l - h - t)
      BY <1>3, <2>5 DEF HasAll
  <2>7. l - h - t \in Nat
      BY <2>5, <2>6
  <2>8. Unsigned(l - h - t) \in Nat /\ Unsigned(l - h - t) <= l - h - t
      BY <2>7, UnsignedBelow
  <2>9. h + b + t <= l
    <3>1. PICK u \in Nat : u = Unsigned(l - h - t)
        BY <2>8
    <3>2. b <= u /\ u <= l - h - t
        BY <2>6, <2>8, <3>1
    <3> QED
        BY <3>2
  <2>10. fconsumed + Size(f) \in Nat /\ fconsumed + Size(f) <= farrived
    <3>1. PICK c \in Nat, g \in Nat, z \in Nat : c = fconsumed /\ g = farrived /\ z = Size(f)
        BY <2>1, <2>4
    <3>2. l = g - c /\ z = h + b + t
        BY <2>5, <3>1
    <3>3. c + z \in Nat /\ c + z <= g
        BY <2>9, <3>2
    <3> QED
        BY <3>1, <3>3
  <2> HIDE DEF v
  <2>11. Ends(v, n + 1) = fconsumed + Size(f)
    <3>1. Ends(v, n + 1) = Ends(v, (n + 1) - 1) + v[n + 1]
        BY <2>2, <2>3, EndsFacts
    <3>2. (n + 1) - 1 = n
        BY <2>1
    <3> QED
        BY <2>1, <2>4, <3>1, <3>2
  <2>12. PICK e \in Nat \X Nat : e = <<fconsumed, fconsumed + Size(f)>>
    <3>1. PICK x \in Nat, y \in Nat : x = fconsumed /\ y = fconsumed + Size(f)
        BY <2>1, <2>10
    <3>2. <<x, y>> \in Nat \X Nat
        OBVIOUS
    <3> QED
        BY <3>1, <3>2
  <2>13. PICK g : g = Append(fframes, e)
      OBVIOUS
  <2>14. /\ g \in Seq(Nat \X Nat) /\ Len(g) = n + 1 /\ g[n + 1] = e /\ \A i \in 1..n : g[i] = fframes[i]
      BY <2>1, <2>12, <2>13
  <2>15. fframes' = g
      BY <1>3, <2>12, <2>13
  <2>16. ASSUME NEW i \in 1..Len(g) PROVE g[i] = <<Ends(v, i - 1), Ends(v, i)>>
    <3>1. CASE i = n + 1
      <4>1. i - 1 = n
          BY <2>1, <3>1
      <4> QED
          BY <2>1, <2>11, <2>12, <2>14, <3>1, <4>1
    <3>2. CASE i # n + 1
      <4>1. i \in 1..n
          BY <2>1, <2>14, <3>2
      <4> QED
          BY <2>14, <4>1 DEF FRInv, v
    <3> QED
        BY <3>1, <3>2
  <2>17. FrameSizes(fsent', flayout') = v /\ n + 1 <= Len(fsent)
      BY <1>1, <2>2 DEF v
  <2> QED
      BY <1>1, <1>3, <2>1, <2>10, <2>11, <2>14, <2>15, <2>16, <2>17 DEF FRInv
<1> QED
    BY <1>2, <1>3 DEF decode_frame

\* No step of a framer leaves the invariant.
LEMMA FRNextInv == FRInv /\ [FRNext]_FRvars => FRInv'
<1> SUFFICES ASSUME FRInv, [FRNext]_FRvars PROVE FRInv'
    OBVIOUS
<1>1. ASSUME NEW m \in 1..EndOf(Len(fsent)), Arrive(m) PROVE FRInv'
  <2>1. m > farrived /\ farrived' = m /\ UNCHANGED <<flayout, fsent, fconsumed, fframes, flast>>
      BY <1>1 DEF Arrive
  <2>2. m \in Int
      OBVIOUS
  <2>3. farrived' \in Nat /\ fconsumed <= farrived'
      BY <2>1, <2>2 DEF FRInv
  <2> QED
      BY <2>1, <2>3 DEF FRInv
<1>2. CASE UNCHANGED FRvars
    BY <1>2 DEF FRvars, FRInv
<1> QED
    BY <1>1, <1>2, WriteKeeps, DecodeKeeps DEF FRNext

\* The framers' invariant says what the run checks.
LEMMA FRInvTrue == FRInv => FRTypeOK /\ FramesInBuffer
<1> SUFFICES ASSUME FRInv PROVE FRTypeOK /\ FramesInBuffer
    OBVIOUS
<1>1. [i \in DOMAIN fsent |-> Size(fsent[i])] = FrameSizes(fsent, flayout)
  <2>1. DOMAIN fsent = 1..Len(fsent)
      BY DEF FRInv
  <2> QED
      BY <2>1 DEF Size, FrameSizes
<1>2. \A n : EndOf(n) = Ends(FrameSizes(fsent, flayout), n)
    BY <1>1 DEF EndOf, Ends
<1>3. DOMAIN fframes = 1..Len(fframes)
    BY DEF FRInv
<1> QED
    BY <1>2, <1>3 DEF FRInv, FRTypeOK, FramesInBuffer

-----------------------------------------------------------------------------
(* Framing: the MoldUDP64 feed.                                            *)

HIDE FramingAssumption
USE MoldAssumption

\* What was passed is handed over or a gap: the gaps and what came in time make up
\* the numbers below the one expected.
MDInv ==
    /\ msent \in 1..(MaxSeq + 1) /\ expected_seq \in 1..msent /\ gaps \in Nat
    /\ mnet \subseteq [seq : Nat \ {0}, count : Nat] /\ \A d \in mnet : d.seq + d.count <= msent
    /\ mdelivered \subseteq 1..(msent - 1) /\ mintime \subseteq mdelivered
    /\ mintime \subseteq 1..(expected_seq - 1)
    /\ gaps + Cardinality(mintime) = expected_seq - 1

\* A message published is one more to account for.
LEMMA PublishKeeps ==
    ASSUME MDInv, NEW n \in 0..MaxBatch, Publish(n)
    PROVE  MDInv'
<1>1. /\ msent + n <= MaxSeq + 1 /\ msent' = msent + n
      /\ mnet' = mnet \cup {[seq |-> msent, count |-> n]}
      /\ UNCHANGED <<expected_seq, gaps, mdelivered, mintime>>
    BY DEF Publish
<1>2. n \in Nat /\ msent \in Nat /\ msent >= 1
    BY DEF MDInv
<1>3. PICK d : d = [seq |-> msent, count |-> n]
    OBVIOUS
<1>4. d \in [seq : Nat \ {0}, count : Nat] /\ d.seq + d.count <= msent'
    BY <1>1, <1>2, <1>3
<1>5. \A e \in mnet : e.seq + e.count <= msent'
  <2> SUFFICES ASSUME NEW e \in mnet PROVE e.seq + e.count <= msent'
      OBVIOUS
  <2>1. e.seq \in Int /\ e.count \in Int /\ e.seq + e.count <= msent
      BY DEF MDInv
  <2> QED
      BY <1>1, <1>2, <2>1
<1>6. /\ msent' \in 1..(MaxSeq + 1) /\ expected_seq' \in 1..msent' /\ gaps' \in Nat
      /\ mdelivered' \subseteq 1..(msent' - 1)
    BY <1>1, <1>2 DEF MDInv
<1> QED
    BY <1>1, <1>3, <1>4, <1>5, <1>6 DEF MDInv

\* A packet is played, skipped in part, dropped, or opens a gap that is counted.
LEMMA MoldKeeps ==
    ASSUME MDInv, NEW d \in mnet, NEW parsed \in 0..d.count, decode_mold(d, parsed)
    PROVE  MDInv'
<1>1. PICK s \in Nat \ {0}, c \in Nat, p \in Nat, e \in Nat \ {0}, g \in Nat, m \in Nat :
          /\ s = d.seq /\ c = d.count /\ p = parsed /\ e = expected_seq /\ g = gaps /\ m = msent
          /\ p <= c /\ s + c <= m /\ e <= m /\ m <= MaxSeq + 1
    BY DEF MDInv
<1> DEFINE first == IF s > e THEN s ELSE e
           seqs == s..(s + p - 1)
           new == {i \in seqs : i >= e}
           k == IF s + p > first THEN s + p - first ELSE 0
           next == IF s + p > e THEN s + p ELSE e
<1>2. /\ gaps' = g + (IF s > e THEN s - e ELSE 0) /\ expected_seq' = next
      /\ mdelivered' = mdelivered \cup seqs /\ mintime' = mintime \cup new
      /\ UNCHANGED <<msent, mnet>>
    BY <1>1 DEF decode_mold, Gap, Reached, FirstAfter
<1>3. new = first..(s + p - 1) /\ first \in Int /\ s + p - 1 \in Int
    BY <1>1
<1>4. IsFiniteSet(new) /\ Cardinality(new) = k
  <2>1. \A a, b \in Int : IsFiniteSet(a..b) /\ Cardinality(a..b) = IF a > b THEN 0 ELSE b - a + 1
      BY FS_Interval
  <2>2. PICK a \in Int, b \in Int : a = first /\ b = s + p - 1
      BY <1>3
  <2>3. (IF a > b THEN 0 ELSE b - a + 1) = k
      BY <1>1, <2>2
  <2>4. new = a..b
      BY <1>3, <2>2
  <2> HIDE DEF new, k
  <2> QED
      BY <2>1, <2>3, <2>4
<1>5. IsFiniteSet(mintime) /\ Cardinality(mintime) \in Nat
  <2>1. mintime \subseteq 1..(e - 1) /\ e - 1 \in Int
      BY <1>1 DEF MDInv
  <2>2. IsFiniteSet(1..(e - 1))
      BY <2>1, FS_Interval
  <2> QED
      BY <2>1, <2>2, FS_Subset, FS_CardinalityType
<1>6. mintime \cap new = {}
    BY <1>1 DEF MDInv
<1>7. Cardinality(mintime \cup new) = Cardinality(mintime) + k
  <2> HIDE DEF new, k
  <2>1. Cardinality(mintime \cup new) = Cardinality(mintime) + Cardinality(new) - Cardinality(mintime \cap new)
      BY <1>4, <1>5, FS_Union
  <2>2. Cardinality({}) = 0 /\ Cardinality(new) \in Nat
      BY <1>4, FS_EmptySet, FS_CardinalityType
  <2>3. PICK a \in Nat, b \in Nat : a = Cardinality(mintime) /\ b = Cardinality(new) /\ b = k
      BY <1>4, <1>5, <2>2
  <2>4. Cardinality(mintime \cup new) = a + b - 0
      BY <1>6, <2>1, <2>2, <2>3
  <2> QED
      BY <2>3, <2>4
<1>8. PICK y \in Nat : y = Cardinality(mintime) /\ g + y = e - 1
    BY <1>1, <1>5 DEF MDInv
<1>9. g + (IF s > e THEN s - e ELSE 0) + (y + k) = next - 1
    BY <1>1, <1>8
<1>10. gaps' \in Nat /\ expected_seq' \in 1..msent' /\ msent' \in 1..(MaxSeq + 1)
    BY <1>1, <1>2
<1>11. /\ mintime' \subseteq 1..(expected_seq' - 1) /\ mdelivered' \subseteq 1..(msent' - 1)
       /\ mintime' \subseteq mdelivered'
  <2>1. new \subseteq 1..(next - 1) /\ seqs \subseteq 1..(m - 1) /\ new \subseteq seqs
      BY <1>1
  <2>2. mintime \subseteq 1..(next - 1) /\ mdelivered \subseteq 1..(m - 1) /\ mintime \subseteq mdelivered
      BY <1>1 DEF MDInv
  <2>3. msent' = m
      BY <1>1, <1>2
  <2> HIDE DEF new, seqs, next
  <2> QED
      BY <1>2, <2>1, <2>2, <2>3
<1>12. gaps' + Cardinality(mintime') = expected_seq' - 1
  <2> HIDE DEF new, k, next
  <2> QED
      BY <1>2, <1>7, <1>8, <1>9
<1> QED
    BY <1>2, <1>10, <1>11, <1>12 DEF MDInv

\* No step of the feed leaves the invariant.
LEMMA MDNextInv == MDInv /\ [MDNext]_MDvars => MDInv'
<1>1. MDInv /\ UNCHANGED MDvars => MDInv'
    BY DEF MDvars, MDInv
<1> QED
    BY <1>1, PublishKeeps, MoldKeeps DEF MDNext, decode_nothing

\* Nothing is sent at first.
LEMMA MDInitInv == MDInit => MDInv
    BY FS_EmptySet DEF MDInit, MDInv

\* The feed's invariant says what the run checks.
LEMMA MDInvTrue == MDInv => MDTypeOK /\ GapsAccountFor
<1> SUFFICES ASSUME MDInv PROVE MDTypeOK /\ GapsAccountFor
    OBVIOUS
<1>1. PICK e \in Nat : e = expected_seq - 1 /\ mintime \subseteq 1..e
    BY DEF MDInv
<1> DEFINE y == Cardinality(mintime)
<1>2. IsFiniteSet(1..e) /\ Cardinality(1..e) = e
    BY FS_Interval
<1>3. IsFiniteSet(mintime) /\ y \in Nat
    BY <1>1, <1>2, FS_Subset, FS_CardinalityType
<1>4. (1..e) \cap mintime = mintime
    BY <1>1
<1>5. Cardinality((1..e) \ mintime) = e - y
  <2>1. Cardinality((1..e) \ mintime) = Cardinality(1..e) - Cardinality((1..e) \cap mintime)
      BY <1>2, <1>3, FS_Difference
  <2> QED
      BY <1>2, <1>4, <2>1
<1>6. gaps = e - y /\ gaps \in 0..MaxSeq
    BY <1>1, <1>3 DEF MDInv
<1>7. mdelivered \subseteq 1..MaxSeq
    BY DEF MDInv
<1> QED
    BY <1>1, <1>5, <1>6, <1>7 DEF MDInv, MDTypeOK, GapsAccountFor

\* Framing: for every framer, limit and size type, frames of any length and number
\* and every way the stream is cut, frames come out as they went in; and whatever
\* datagrams of the feed are lost, repeated, late or cut short, its gaps are the
\* messages that did not come in time.
THEOREM FramesAlwaysTrue == FRSpec /\ MDSpec => []FramesTrue
<1>1. FRInv /\ MDInv => FramesTrue
    BY FRInvTrue, MDInvTrue DEF FramesTrue
<1> QED
    BY <1>1, FRInitInv, FRNextInv, MDInitInv, MDNextInv, PTL DEF FRSpec, MDSpec

-----------------------------------------------------------------------------
(* Books: one side of the array book.                                      *)

HIDE MoldAssumption
USE BooksAssumption

LevelSet == [price : Prices, qty : Nat \ {0}]
Sorted(L, s) == \A i, j \in 1..Len(L) : i < j => Better(s, L[i].price, L[j].price)
GoodSide(L, s) == L \in Seq(LevelSet) /\ Len(L) <= MaxLevels /\ Sorted(L, s)
NoneAt(L, p) == \A i \in 1..Len(L) : L[i].price # p

\* C is made of the a elements of A and the b elements of B.
MadeOf(C, T, A, a, B, b) ==
    C \in Seq(T) /\ Len(C) = a + b /\ (\A i \in 1..a : C[i] = A[i]) /\ (\A i \in 1..b : C[a + i] = B[i])

\* Joining two sequences makes one of the elements of both.
LEMMA Joined ==
    ASSUME NEW T, NEW A \in Seq(T), NEW B \in Seq(T), NEW a \in Nat, NEW b \in Nat, a = Len(A), b = Len(B)
    PROVE  MadeOf(A \o B, T, A, a, B, b)
BY DEF MadeOf

\* What a removal leaves.
LEMMA RemoveFacts ==
    ASSUME NEW T, NEW L \in Seq(T), NEW k \in 1..Len(L)
    PROVE  /\ RemoveAt(L, k) \in Seq(T) /\ Len(RemoveAt(L, k)) = Len(L) - 1
           /\ \A i \in 1..(Len(L) - 1) : RemoveAt(L, k)[i] = L[IF i < k THEN i ELSE i + 1]
<1>1. PICK n \in Nat : n = Len(L)
    OBVIOUS
<1>2. PICK A, B : A = SubSeq(L, 1, k - 1) /\ B = SubSeq(L, k + 1, n)
    OBVIOUS
<1>3. A \in Seq(T) /\ Len(A) = k - 1 /\ \A i \in 1..(k - 1) : A[i] = L[i]
    BY <1>1, <1>2
<1>4. B \in Seq(T) /\ Len(B) = n - k /\ \A i \in 1..(n - k) : B[i] = L[k + i]
    BY <1>1, <1>2
<1>5. PICK R : R = A \o B
    OBVIOUS
<1>6. RemoveAt(L, k) = R
    BY <1>1, <1>2, <1>5 DEF RemoveAt
<1>7. R \in Seq(T) /\ Len(R) = n - 1
  <2>0. k \in Nat /\ k - 1 \in Nat /\ n - k \in Nat
      BY <1>1
  <2>4. PICK a \in Nat : a = k - 1
      BY <2>0
  <2>1. PICK b \in Nat : a = k - 1 /\ b = n - k /\ a + b = n - 1
      BY <2>0, <2>4
  <2>2. A \in Seq(T) /\ a = Len(A) /\ B \in Seq(T) /\ b = Len(B)
      BY <1>3, <1>4, <2>1
  <2>3. MadeOf(A \o B, T, A, a, B, b)
      BY <2>2, Joined
  <2> QED
      BY <1>5, <2>1, <2>3 DEF MadeOf
<1>8. ASSUME NEW i \in 1..(n - 1) PROVE R[i] = L[IF i < k THEN i ELSE i + 1]
  <2>1. CASE i < k
    <3>1. i \in 1..(k - 1)
        BY <2>1
    <3>2. R[i] = A[i]
        BY <1>3, <1>4, <1>5, <3>1
    <3> QED
        BY <1>3, <2>1, <3>1, <3>2
  <2>2. CASE ~(i < k)
    <3>1. i - (k - 1) \in 1..(n - k) /\ k + (i - (k - 1)) = i + 1
        BY <1>1, <2>2
    <3>2. R[i] = B[i - (k - 1)]
        BY <1>3, <1>4, <1>5, <3>1
    <3> QED
        BY <1>4, <2>2, <3>1, <3>2
  <2> QED
      BY <2>1, <2>2
<1> QED
    BY <1>1, <1>6, <1>7, <1>8

\* R is L with e at k.
Inserted(R, T, L, k, e) ==
    /\ R \in Seq(T) /\ Len(R) = Len(L) + 1
    /\ \A i \in 1..(Len(L) + 1) : R[i] = IF i < k THEN L[i] ELSE IF i = k THEN e ELSE L[i - 1]

\* What an insertion makes.
LEMMA InsertFacts ==
    ASSUME NEW T, NEW L \in Seq(T), NEW k \in 1..(Len(L) + 1), NEW e \in T
    PROVE  Inserted(InsertAt(L, k, e), T, L, k, e)
<1>1. PICK n \in Nat : n = Len(L)
    OBVIOUS
<1>2. PICK A, B, E : A = SubSeq(L, 1, k - 1) /\ B = SubSeq(L, k, n) /\ E = <<e>>
    OBVIOUS
<1>3. A \in Seq(T) /\ Len(A) = k - 1 /\ \A i \in 1..(k - 1) : A[i] = L[i]
    BY <1>1, <1>2
<1>4. B \in Seq(T) /\ Len(B) = n - k + 1 /\ \A i \in 1..(n - k + 1) : B[i] = L[k + i - 1]
    BY <1>1, <1>2
<1>5. E \in Seq(T) /\ Len(E) = 1 /\ E[1] = e
    BY <1>2
<1>6. PICK C : C = A \o E
    OBVIOUS
<1>7. C \in Seq(T) /\ Len(C) = k /\ C[k] = e /\ \A i \in 1..(k - 1) : C[i] = L[i]
  <2>1. PICK a \in Nat : a = k - 1 /\ a + 1 = k
      BY <1>1
  <2>2. /\ C \in Seq(T) /\ Len(C) = a + 1 /\ \A i \in 1..a : C[i] = A[i]
        /\ \A i \in 1..1 : C[a + i] = E[i]
    <3>1. A \in Seq(T) /\ a = Len(A) /\ E \in Seq(T) /\ 1 = Len(E)
        BY <1>3, <1>5, <2>1
    <3>2. MadeOf(A \o E, T, A, a, E, 1)
        BY <3>1, Joined
    <3> QED
        BY <1>6, <3>2 DEF MadeOf
  <2>3. C[a + 1] = E[1]
      BY <2>2
  <2> QED
      BY <1>3, <1>5, <2>1, <2>2, <2>3
<1>8. PICK R : R = C \o B
    OBVIOUS
<1>9. InsertAt(L, k, e) = R
    BY <1>1, <1>2, <1>6, <1>8 DEF InsertAt
<1>10. R \in Seq(T) /\ Len(R) = n + 1
    BY <1>1, <1>4, <1>7, <1>8
<1>11. ASSUME NEW i \in 1..(n + 1) PROVE R[i] = IF i < k THEN L[i] ELSE IF i = k THEN e ELSE L[i - 1]
  <2>1. CASE i <= k
    <3>1. R[i] = C[i]
        BY <1>4, <1>7, <1>8, <2>1
    <3>2. i < k => i \in 1..(k - 1)
        OBVIOUS
    <3> QED
        BY <1>7, <2>1, <3>1, <3>2
  <2>2. CASE ~(i <= k)
    <3>1. i - k \in 1..(n - k + 1) /\ k + (i - k) - 1 = i - 1 /\ ~(i < k) /\ i # k
        BY <1>1, <2>2
    <3>2. PICK b \in Nat : b = n - k + 1
        BY <1>1
    <3>3. \A j \in 1..b : R[k + j] = B[j]
      <4>1. C \in Seq(T) /\ k = Len(C) /\ B \in Seq(T) /\ b = Len(B) /\ k \in Nat
          BY <1>4, <1>7, <3>2
      <4>2. MadeOf(C \o B, T, C, k, B, b)
          BY <4>1, Joined
      <4> QED
          BY <1>8, <4>2 DEF MadeOf
    <3>4. k + (i - k) = i
        OBVIOUS
    <3>5. R[i] = B[i - k]
        BY <3>1, <3>2, <3>3, <3>4
    <3> QED
        BY <1>4, <3>1, <3>5
  <2> QED
      BY <2>1, <2>2
<1> QED
    BY <1>1, <1>9, <1>10, <1>11 DEF Inserted

\* The least of a non-empty set of places.
LEMMA MinPlace ==
    ASSUME NEW S, S \subseteq Nat, S # {}
    PROVE  Min(S) \in S /\ \A i \in S : Min(S) <= i
    BY LeastNat DEF Min

\* Two prices that differ are better one way or the other, and better is transitive.
LEMMA BetterFacts ==
    ASSUME NEW s, NEW p \in Prices, NEW q \in Prices
    PROVE  /\ p # q => Better(s, p, q) \/ Better(s, q, p)
           /\ Better(s, p, q) => p # q
           /\ \A r \in Prices : Better(s, p, q) /\ Better(s, q, r) => Better(s, p, r)
<1>1. Prices \subseteq Nat
    OBVIOUS
<1> QED
    BY <1>1 DEF Better

\* Where a price goes that is not there: behind the better, before the worse.
LEMMA PositionFacts ==
    ASSUME NEW L, NEW s, GoodSide(L, s), NEW p \in Prices, NoneAt(L, p)
    PROVE  /\ Position(L, s, p) \in 1..(Len(L) + 1)
           /\ \A i \in 1..Len(L) : IF i < Position(L, s, p) THEN Better(s, L[i].price, p)
                                   ELSE Better(s, p, L[i].price)
<1>1. PICK n \in Nat : n = Len(L) /\ DOMAIN L = 1..n
    BY DEF GoodSide
<1>2. \A i \in 1..n : L[i].price \in Prices /\ L[i].price # p
  <2>1. \A i \in 1..n : L[i] \in LevelSet
      BY <1>1 DEF GoodSide
  <2>2. \A l \in LevelSet : l.price \in Prices
      BY DEF LevelSet
  <2> QED
      BY <1>1, <2>1, <2>2 DEF NoneAt
<1> DEFINE worse == {i \in 1..n : Better(s, p, L[i].price)}
<1>3. Position(L, s, p) = IF worse = {} THEN n + 1 ELSE Min(worse)
    BY <1>1 DEF Position
<1>4. \A i \in 1..n : i \notin worse => Better(s, L[i].price, p)
    BY <1>2, BetterFacts
<1>5. CASE worse = {}
  <2>1. Position(L, s, p) = n + 1
      BY <1>3, <1>5
  <2>2. \A i \in 1..n : i < n + 1
      OBVIOUS
  <2> QED
      BY <1>1, <1>4, <1>5, <2>1, <2>2
<1>6. CASE worse # {}
  <2>1. PICK k : k = Min(worse)
      OBVIOUS
  <2>2. worse \subseteq Nat
      OBVIOUS
  <2>3. k \in worse /\ \A i \in worse : k <= i
      BY <1>6, <2>1, <2>2, MinPlace
  <2>4. k \in 1..n /\ Better(s, p, L[k].price)
      BY <2>3
  <2>5. ASSUME NEW i \in 1..n, i < k PROVE Better(s, L[i].price, p)
    <3>1. i \notin worse
        BY <2>3, <2>4, <2>5
    <3> QED
        BY <1>4, <3>1
  <2>6. ASSUME NEW i \in 1..n, ~(i < k) PROVE Better(s, p, L[i].price)
    <3>1. CASE i = k
        BY <2>4, <3>1
    <3>2. CASE i # k
      <4>1. k < i
          BY <2>4, <2>6, <3>2
      <4>2. Better(s, L[k].price, L[i].price)
          BY <1>1, <2>4, <4>1 DEF GoodSide, Sorted
      <4> QED
          BY <1>2, <2>4, <4>2, BetterFacts
    <3> QED
        BY <3>1, <3>2
  <2>7. Position(L, s, p) = k
      BY <1>3, <1>6, <2>1
  <2> QED
      BY <1>1, <2>4, <2>5, <2>6, <2>7
<1> QED
    BY <1>5, <1>6

-----------------------------------------------------------------------------
(* Books: what update_side does to a side.                                 *)

\* Every level is the updated one or one that was there, and unless the book lost
\* one the others are all still there, and the updated one too.
Content(L, R, p, q) ==
    /\ \A i \in 1..Len(R) : \/ R[i].price = p /\ R[i].qty = q
                            \/ R[i].price # p /\ \E j \in 1..Len(L) : R[i] = L[j]
    /\ ~Loses(L, p, q) => /\ \A j \in 1..Len(L) : L[j].price # p => \E i \in 1..Len(R) : R[i] = L[j]
                          /\ q > 0 => \E i \in 1..Len(R) : R[i].price = p

\* A price is at one place only.
LEMMA OnePlace ==
    ASSUME NEW L, NEW s, GoodSide(L, s), NEW i \in 1..Len(L), NEW j \in 1..Len(L), L[i].price = L[j].price
    PROVE  i = j
<1>1. L[i].price \in Prices /\ Len(L) \in Nat
  <2>1. L[i] \in LevelSet /\ Len(L) \in Nat
      BY DEF GoodSide
  <2> QED
      BY <2>1 DEF LevelSet
<1>2. ~Better(s, L[i].price, L[j].price) /\ ~Better(s, L[j].price, L[i].price)
    BY <1>1, BetterFacts
<1>3. ~(i < j) /\ ~(j < i)
    BY <1>2 DEF GoodSide, Sorted
<1> QED
    BY <1>1, <1>3

\* Removing a level keeps the order and the other levels.
LEMMA RemoveLevel ==
    ASSUME NEW L, NEW s, GoodSide(L, s), NEW k \in 1..Len(L)
    PROVE  GoodSide(RemoveAt(L, k), s) /\ Content(L, RemoveAt(L, k), L[k].price, 0)
<1>0. PICK n \in Nat : n = Len(L)
    BY DEF GoodSide
<1>1. PICK R : n = Len(L) /\ R = RemoveAt(L, k)
    BY <1>0
<1>2. L \in Seq(LevelSet) /\ n <= MaxLevels /\ k \in 1..n
    BY <1>1 DEF GoodSide
<1>3. R \in Seq(LevelSet) /\ Len(R) = n - 1 /\ \A i \in 1..(n - 1) : R[i] = L[IF i < k THEN i ELSE i + 1]
    BY <1>1, <1>2, RemoveFacts
<1> DEFINE at(i) == IF i < k THEN i ELSE i + 1
<1>4. \A i \in 1..(n - 1) : at(i) \in 1..n /\ at(i) # k /\ R[i] = L[at(i)]
    BY <1>2, <1>3
<1>5. \A i, j \in 1..(n - 1) : i < j => at(i) < at(j)
    BY <1>2
<1> HIDE DEF at
<1>6. Sorted(R, s)
    BY <1>1, <1>3, <1>4, <1>5 DEF Sorted, GoodSide
<1>7. GoodSide(R, s)
    BY <1>2, <1>3, <1>6 DEF GoodSide
<1>8. ASSUME NEW i \in 1..Len(R) PROVE R[i].price # L[k].price /\ \E j \in 1..Len(L) : R[i] = L[j]
    BY <1>1, <1>3, <1>4, OnePlace
<1>9. ASSUME NEW j \in 1..Len(L), L[j].price # L[k].price PROVE \E i \in 1..Len(R) : R[i] = L[j]
  <2>1. j # k /\ j \in 1..n
      BY <1>1, <1>9
  <2>2. PICK i \in 1..(n - 1) : at(i) = j
    <3>1. CASE j < k
      <4>1. j \in 1..(n - 1) /\ at(j) = j
          BY <1>2, <2>1, <3>1 DEF at
      <4> QED
          BY <4>1
    <3>2. CASE ~(j < k)
      <4>1. j - 1 \in 1..(n - 1) /\ at(j - 1) = j
          BY <1>2, <2>1, <3>2 DEF at
      <4> QED
          BY <4>1
    <3> QED
        BY <3>1, <3>2
  <2> QED
      BY <1>3, <1>4, <2>2
<1>10. Content(L, R, L[k].price, 0)
    BY <1>8, <1>9 DEF Content
<1> QED
    BY <1>1, <1>7, <1>10

\* So does a new quantity.
LEMMA ReplaceLevel ==
    ASSUME NEW L, NEW s, GoodSide(L, s), NEW k \in 1..Len(L), NEW q \in Nat \ {0}
    PROVE  GoodSide([L EXCEPT ![k].qty = q], s) /\ Content(L, [L EXCEPT ![k].qty = q], L[k].price, q)
<1>1. PICK n \in Nat : n = Len(L) /\ L \in Seq(LevelSet) /\ n <= MaxLevels /\ k \in 1..n /\ DOMAIN L = 1..n
    BY DEF GoodSide
<1>2. PICK l : l = [L[k] EXCEPT !.qty = q]
    OBVIOUS
<1>3. L[k] \in LevelSet
    BY <1>1
<1>4. l \in LevelSet /\ l.price = L[k].price /\ l.qty = q
    BY <1>2, <1>3 DEF LevelSet
<1>5. PICK R : R = [L EXCEPT ![k] = l]
    OBVIOUS
<1>6. R = [L EXCEPT ![k].qty = q]
    BY <1>2, <1>5
<1>7. R \in Seq(LevelSet) /\ Len(R) = n /\ R[k] = l /\ \A i \in 1..n : i # k => R[i] = L[i]
    BY <1>1, <1>4, <1>5
<1>8. \A i \in 1..n : R[i].price = L[i].price
    BY <1>4, <1>7
<1>9. Sorted(R, s)
    BY <1>1, <1>7, <1>8 DEF GoodSide, Sorted
<1>10. ASSUME NEW i \in 1..Len(R)
       PROVE  \/ R[i].price = L[k].price /\ R[i].qty = q
              \/ R[i].price # L[k].price /\ \E j \in 1..Len(L) : R[i] = L[j]
  <2>1. CASE i = k
      BY <1>4, <1>7, <2>1
  <2>2. CASE i # k
    <3>1. i \in 1..n /\ R[i] = L[i]
        BY <1>7, <2>2
    <3>2. L[i].price # L[k].price
        BY <1>1, <2>2, <3>1, OnePlace
    <3> QED
        BY <1>1, <3>1, <3>2
  <2> QED
      BY <2>1, <2>2
<1>11. ASSUME NEW j \in 1..Len(L), L[j].price # L[k].price PROVE \E i \in 1..Len(R) : R[i] = L[j]
    BY <1>1, <1>7, <1>11
<1>12. \E i \in 1..Len(R) : R[i].price = L[k].price
    BY <1>1, <1>7, <1>8
<1>13. Content(L, R, L[k].price, q)
    BY <1>10, <1>11, <1>12 DEF Content
<1> QED
    BY <1>1, <1>6, <1>7, <1>9, <1>13 DEF GoodSide

\* R is L with the level put in its place.
PutTrue(L, R, s, p, q) ==
    /\ R \in Seq(LevelSet) /\ Len(R) = Len(L) + 1 /\ Sorted(R, s)
    /\ R[Position(L, s, p)] = Level(p, q)
    /\ \A i \in 1..Len(R) : i # Position(L, s, p) => \E j \in 1..Len(L) : R[i] = L[j]
    /\ \A j \in 1..Len(L) : \E i \in 1..Len(R) : R[i] = L[j]

\* A level put in its place keeps the order.
LEMMA PutIn ==
    ASSUME NEW L, NEW s, GoodSide(L, s), NEW p \in Prices, NoneAt(L, p), NEW q \in Nat \ {0}, NEW R,
           R = InsertAt(L, Position(L, s, p), Level(p, q))
    PROVE  PutTrue(L, R, s, p, q)
<1>0. PICK n \in Nat : n = Len(L) /\ L \in Seq(LevelSet)
    BY DEF GoodSide
<1>1. PICK k : n = Len(L) /\ L \in Seq(LevelSet) /\ k = Position(L, s, p)
    BY <1>0
<1>2. k \in 1..(n + 1) /\ \A i \in 1..n : IF i < k THEN Better(s, L[i].price, p) ELSE Better(s, p, L[i].price)
    BY <1>1, PositionFacts
<1>3. PICK e : e = Level(p, q)
    OBVIOUS
<1>4. e \in LevelSet /\ e.price = p
    BY <1>3 DEF Level, LevelSet
<1>5. /\ R \in Seq(LevelSet) /\ Len(R) = n + 1
      /\ \A i \in 1..(n + 1) : R[i] = IF i < k THEN L[i] ELSE IF i = k THEN e ELSE L[i - 1]
  <2>1. R = InsertAt(L, k, e)
      BY <1>1, <1>3
  <2>2. k \in 1..(Len(L) + 1)
      BY <1>1, <1>2
  <2>3. Inserted(InsertAt(L, k, e), LevelSet, L, k, e)
      BY <1>1, <1>4, <2>2, InsertFacts
  <2> QED
      BY <1>1, <2>1, <2>3 DEF Inserted
<1>6. ASSUME NEW i \in 1..(n + 1), NEW j \in 1..(n + 1), i < j PROVE Better(s, R[i].price, R[j].price)
  <2>1. \A a, b \in 1..n : a < b => Better(s, L[a].price, L[b].price)
      BY <1>1 DEF GoodSide, Sorted
  <2>2. CASE i = k
    <3>1. j - 1 \in 1..n /\ ~(j - 1 < k) /\ ~(j < k) /\ j # k
        BY <1>2, <1>6, <2>2
    <3> QED
        BY <1>2, <1>4, <1>5, <2>2, <3>1
  <2>3. CASE j = k
    <3>1. i \in 1..n /\ i < k
        BY <1>2, <1>6, <2>3
    <3> QED
        BY <1>2, <1>4, <1>5, <2>3, <3>1
  <2>4. CASE i # k /\ j # k
    <3> DEFINE a == IF i < k THEN i ELSE i - 1
               b == IF j < k THEN j ELSE j - 1
    <3>1. a \in 1..n /\ b \in 1..n /\ a < b
        BY <1>2, <1>6, <2>4
    <3>2. R[i] = L[a] /\ R[j] = L[b]
        BY <1>5, <2>4
    <3> QED
        BY <2>1, <3>1, <3>2
  <2> QED
      BY <2>2, <2>3, <2>4
<1>7. ASSUME NEW i \in 1..(n + 1), i # k PROVE \E j \in 1..n : R[i] = L[j]
  <2> DEFINE a == IF i < k THEN i ELSE i - 1
  <2>1. a \in 1..n /\ R[i] = L[a]
      BY <1>2, <1>5, <1>7
  <2> QED
      BY <2>1
<1>8. ASSUME NEW j \in 1..n PROVE \E i \in 1..(n + 1) : R[i] = L[j]
  <2> DEFINE a == IF j < k THEN j ELSE j + 1
  <2>1. a \in 1..(n + 1) /\ R[a] = L[j]
      BY <1>2, <1>5
  <2> QED
      BY <2>1
<1>9. R[k] = e
    BY <1>2, <1>5
<1> QED
    BY <1>1, <1>3, <1>5, <1>6, <1>7, <1>8, <1>9 DEF Sorted, PutTrue

\* So does a new level, unless the book is full.
LEMMA InsertLevel ==
    ASSUME NEW L, NEW s, GoodSide(L, s), NEW p \in Prices, NoneAt(L, p), NEW q \in Nat \ {0}
    PROVE  GoodSide(Insert(L, s, p, q), s) /\ Content(L, Insert(L, s, p, q), p, q)
<1>0. PICK n \in Nat : n = Len(L) /\ n <= MaxLevels /\ DOMAIN L = 1..n
    BY DEF GoodSide
<1>1. PICK k, e : n = Len(L) /\ k = Position(L, s, p) /\ e = Level(p, q) /\ n <= MaxLevels /\ DOMAIN L = 1..n
    BY <1>0
<1>2. PICK R : R = InsertAt(L, k, e)
    OBVIOUS
<1>3. /\ R \in Seq(LevelSet) /\ Len(R) = n + 1 /\ Sorted(R, s) /\ R[k] = e
      /\ \A i \in 1..(n + 1) : i # k => \E j \in 1..n : R[i] = L[j]
      /\ \A j \in 1..n : \E i \in 1..(n + 1) : R[i] = L[j]
  <2>1. R = InsertAt(L, Position(L, s, p), Level(p, q))
      BY <1>1, <1>2
  <2>2. PutTrue(L, R, s, p, q)
      BY <2>1, PutIn
  <2> QED
      BY <1>1, <2>2 DEF PutTrue
<1>4. k \in 1..(n + 1)
    BY <1>1, PositionFacts
<1>5. e.price = p /\ e.qty = q
    BY <1>1 DEF Level
<1>6. \A j \in 1..n : L[j].price # p
    BY <1>1 DEF NoneAt
<1>7. ASSUME NEW i \in 1..(n + 1)
      PROVE  \/ R[i].price = p /\ R[i].qty = q
             \/ R[i].price # p /\ \E j \in 1..n : R[i] = L[j]
    BY <1>3, <1>5, <1>6
<1>8. CASE ~Full(L)
  <2>1. Insert(L, s, p, q) = R
      BY <1>1, <1>2, <1>8 DEF Insert
  <2>2. n + 1 <= MaxLevels
      BY <1>1, <1>8 DEF Full
  <2>3. Content(L, R, p, q)
      BY <1>1, <1>3, <1>4, <1>5, <1>7 DEF Content
  <2> QED
      BY <1>3, <2>1, <2>2, <2>3 DEF GoodSide
<1>9. CASE Full(L)
  <2>0. n = MaxLevels /\ Loses(L, p, q)
    <3>1. n = MaxLevels
        BY <1>1, <1>9 DEF Full
    <3>2. q # NonFinite /\ q > 0
        BY DEF NonFinite
    <3> QED
        BY <1>1, <1>6, <1>9, <3>1, <3>2 DEF Loses
  <2>1. CASE k > MaxLevels
    <3>1. Insert(L, s, p, q) = L
        BY <1>1, <1>9, <2>1 DEF Insert
    <3>2. Content(L, L, p, q)
        BY <1>1, <1>6, <2>0 DEF Content
    <3> QED
        BY <3>1, <3>2
  <2>2. CASE ~(k > MaxLevels)
    <3>1. PICK C : C = SubSeq(R, 1, n)
        OBVIOUS
    <3>2. Insert(L, s, p, q) = C
        BY <1>1, <1>2, <1>9, <2>0, <2>2, <3>1 DEF Insert
    <3>3. C \in Seq(LevelSet) /\ Len(C) = n /\ \A i \in 1..n : C[i] = R[i]
        BY <1>3, <3>1
    <3>4. Sorted(C, s)
        BY <1>3, <3>3 DEF Sorted
    <3>5. Content(L, C, p, q)
        BY <1>1, <1>7, <2>0, <3>3 DEF Content
    <3> QED
        BY <1>1, <3>2, <3>3, <3>4, <3>5 DEF GoodSide
  <2> QED
      BY <2>1, <2>2
<1> QED
    BY <1>8, <1>9

\* update_side keeps a side in order and its levels true.
LEMMA UpdateSide ==
    ASSUME NEW L, NEW s, GoodSide(L, s), NEW p \in Prices, NEW q \in Int
    PROVE  /\ GoodSide(update_side(L, s, p, q), s)
           /\ q = NonFinite => update_side(L, s, p, q) = L
           /\ q # NonFinite => Content(L, update_side(L, s, p, q), p, Clamp(q))
<1> DEFINE at == {i \in DOMAIN L : L[i].price = p}
           R == update_side(L, s, p, q)
<1>1. DOMAIN L = 1..Len(L) /\ Len(L) \in Nat
    BY DEF GoodSide
<1>2. CASE q = NonFinite
  <2>1. R = L
      BY <1>2 DEF update_side
  <2> QED
      BY <1>2, <2>1
<1>3. CASE q # NonFinite /\ at # {}
  <2>1. PICK k : k = Min(at)
      OBVIOUS
  <2>2. k \in at
    <3>1. at \subseteq Nat
        BY <1>1
    <3> QED
        BY <1>3, <2>1, <3>1, MinPlace
  <2>3. k \in 1..Len(L) /\ L[k].price = p
      BY <1>1, <2>2
  <2>4. CASE Clamp(q) = 0
    <3>1. R = RemoveAt(L, k)
        BY <1>3, <2>1, <2>4 DEF update_side
    <3> QED
        BY <1>3, <2>3, <2>4, <3>1, RemoveLevel
  <2>5. CASE Clamp(q) # 0
    <3>1. q \in Nat \ {0} /\ Clamp(q) = q /\ Clamp(q) > 0
        BY <2>5 DEF Clamp
    <3>2. R = [L EXCEPT ![k].qty = q]
        BY <1>3, <2>1, <3>1 DEF update_side
    <3>3. GoodSide([L EXCEPT ![k].qty = q], s) /\ Content(L, [L EXCEPT ![k].qty = q], L[k].price, q)
        BY <2>3, <3>1, ReplaceLevel
    <3> QED
        BY <1>3, <2>3, <3>1, <3>2, <3>3
  <2> QED
      BY <2>4, <2>5
<1>4. CASE q # NonFinite /\ at = {}
  <2>1. NoneAt(L, p)
      BY <1>1, <1>4 DEF NoneAt
  <2>2. CASE Clamp(q) = 0
    <3>1. R = L
        BY <1>4, <2>2 DEF update_side
    <3>2. Content(L, L, p, 0)
        BY <2>1 DEF Content, NoneAt
    <3> QED
        BY <1>4, <2>2, <3>1, <3>2
  <2>3. CASE Clamp(q) # 0
    <3>1. q \in Nat \ {0} /\ Clamp(q) = q /\ Clamp(q) > 0
        BY <2>3 DEF Clamp
    <3>2. R = Insert(L, s, p, q)
        BY <1>4, <2>3, <3>1 DEF update_side
    <3> QED
        BY <1>4, <2>1, <3>1, <3>2, InsertLevel
  <2> QED
      BY <2>2, <2>3
<1> QED
    BY <1>2, <1>3, <1>4

-----------------------------------------------------------------------------
(* Books: the array book shows the full book.                              *)

\* The levels have the quantities m says, and if none was lost they are all there.
SideTrue(L, m, s, lost) ==
    /\ \A i \in 1..Len(L) : L[i].qty = m[L[i].price]
    /\ s \notin lost => \A p \in Prices : m[p] > 0 => \E i \in 1..Len(L) : L[i].price = p

\* A side stays true to the full book when both are updated.
LEMMA SideUpdate ==
    ASSUME NEW L, NEW s, GoodSide(L, s), NEW m \in [Prices -> Nat], NEW lost, SideTrue(L, m, s, lost),
           NEW p \in Prices, NEW q \in Nat, NEW R, Content(L, R, p, q),
           NEW lost2, s \notin lost2 => s \notin lost /\ ~Loses(L, p, q)
    PROVE  SideTrue(R, [m EXCEPT ![p] = q], s, lost2)
<1>1. PICK w : w = [m EXCEPT ![p] = q]
    OBVIOUS
<1>2. w[p] = q /\ \A o \in Prices : o # p => w[o] = m[o]
    BY <1>1
<1>3. ASSUME NEW j \in 1..Len(L) PROVE L[j].price \in Prices
  <2>1. L[j] \in LevelSet
      BY DEF GoodSide
  <2> QED
      BY <2>1 DEF LevelSet
<1>4. ASSUME NEW i \in 1..Len(R) PROVE R[i].qty = w[R[i].price]
  <2>1. CASE R[i].price = p /\ R[i].qty = q
      BY <1>2, <2>1
  <2>2. CASE R[i].price # p /\ \E j \in 1..Len(L) : R[i] = L[j]
    <3>1. PICK j \in 1..Len(L) : R[i] = L[j]
        BY <2>2
    <3>2. L[j].qty = m[L[j].price]
        BY DEF SideTrue
    <3> QED
        BY <1>2, <1>3, <2>2, <3>1, <3>2
  <2> QED
      BY <2>1, <2>2 DEF Content
<1>5. ASSUME s \notin lost2, NEW o \in Prices, w[o] > 0 PROVE \E i \in 1..Len(R) : R[i].price = o
  <2>1. s \notin lost /\ ~Loses(L, p, q)
      BY <1>5
  <2>2. CASE o = p
      BY <1>2, <1>5, <2>1, <2>2 DEF Content
  <2>3. CASE o # p
    <3>1. m[o] > 0
        BY <1>2, <1>5, <2>3
    <3>2. PICK j \in 1..Len(L) : L[j].price = o
        BY <2>1, <3>1 DEF SideTrue
    <3>3. PICK i \in 1..Len(R) : R[i] = L[j]
        BY <2>1, <2>3, <3>2 DEF Content
    <3> QED
        BY <3>2, <3>3
  <2> QED
      BY <2>2, <2>3
<1> QED
    BY <1>1, <1>4, <1>5 DEF SideTrue

-----------------------------------------------------------------------------
(* Books: the ITCH adapter's orders and totals.                            *)

AnOrder == [side : Sides, price : Prices, qty : Shares] \cup {NoOrder}
Amount(o, s, p) == IF o.side = s /\ o.price = p THEN o.qty ELSE 0

\* What an order is made of.
LEMMA OrderFacts ==
    ASSUME NEW o \in AnOrder
    PROVE  /\ o.qty \in Nat /\ \A s, p : Amount(o, s, p) \in Nat
           /\ o # NoOrder => /\ o.side \in Sides /\ o.price \in Prices /\ o.qty \in Shares
                             /\ Amount(o, o.side, o.price) = o.qty
<1>1. CASE o = NoOrder
  <2>1. o.qty = 0
      BY <1>1 DEF NoOrder
  <2> QED
      BY <1>1, <2>1 DEF Amount
<1>2. CASE o # NoOrder
  <2>1. o \in [side : Sides, price : Prices, qty : Shares]
      BY <1>2 DEF AnOrder
  <2>2. o.side \in Sides /\ o.price \in Prices /\ o.qty \in Shares /\ o.qty \in Nat
      BY <2>1 DEF Shares
  <2> QED
      BY <2>2 DEF Amount
<1> QED
    BY <1>1, <1>2

\* What an order adds to the total of a level, taken off the others.
LEMMA TotalSplit ==
    ASSUME NEW o \in [Refs -> AnOrder], NEW r \in Refs, NEW s, NEW p
    PROVE  /\ Total(o, s, p) \in Nat
           /\ SumFunctionOnSet([x \in Refs |-> o[x].qty], OrdersAt(o, s, p) \ {r}) \in Nat
           /\ Total(o, s, p) = SumFunctionOnSet([x \in Refs |-> o[x].qty], OrdersAt(o, s, p) \ {r})
                                 + Amount(o[r], s, p)
<1>1. PICK v : v = [x \in Refs |-> o[x].qty]
    OBVIOUS
<1>2. PICK S : S = OrdersAt(o, s, p)
    OBVIOUS
<1>3. Total(o, s, p) = SumFunctionOnSet(v, S)
    BY <1>1, <1>2 DEF Total
<1>4. S \subseteq Refs /\ S \ {r} \subseteq Refs
    BY <1>2 DEF OrdersAt
<1>5. IsFiniteSet(S) /\ IsFiniteSet(S \ {r})
    BY <1>4, FS_Subset
<1>6. \A x \in Refs : v[x] \in Nat /\ v[x] \in Int
    BY <1>1, OrderFacts
<1>7. SumFunctionOnSet(v, S) \in Nat
    BY <1>4, <1>5, <1>6, SumNat
<1>8. SumFunctionOnSet(v, S \ {r}) \in Nat
    BY <1>4, <1>5, <1>6, SumNat
<1>9. SumFunctionOnSet(v, S) = SumFunctionOnSet(v, S \ {r}) + Amount(o[r], s, p)
  <2>1. CASE r \in S
    <3>1. Amount(o[r], s, p) = v[r]
        BY <1>1, <1>2, <2>1 DEF Amount, OrdersAt
    <3>2. \A x \in S : v[x] \in Int
        BY <1>4, <1>6
    <3>3. SumFunctionOnSet(v, S) = SumFunctionOnSet(v, S \ {r}) + v[r]
        BY <1>5, <2>1, <3>2, SumTake
    <3> QED
        BY <3>1, <3>3, Zenon
  <2>2. CASE r \notin S
    <3>1. S \ {r} = S
        BY <2>2
    <3>2. Amount(o[r], s, p) = 0
        BY <1>2, <2>2 DEF Amount, OrdersAt
    <3>3. PICK k \in Nat : k = SumFunctionOnSet(v, S)
        BY <1>7
    <3>4. k = k + 0
        OBVIOUS
    <3> QED
        BY <3>1, <3>2, <3>3, <3>4
  <2> QED
      BY <2>1, <2>2
<1> QED
    BY <1>1, <1>2, <1>3, <1>7, <1>8, <1>9

Moved(o, n, r, x, s, p) ==
    /\ Total(o, s, p) \in Nat /\ Amount(o[r], s, p) \in Nat /\ Amount(x, s, p) \in Nat
    /\ Total(o, s, p) >= Amount(o[r], s, p)
    /\ Total(n, s, p) = Total(o, s, p) - Amount(o[r], s, p) + Amount(x, s, p)

\* An order that changes moves the totals by what it adds.
LEMMA TotalMoves ==
    ASSUME NEW o \in [Refs -> AnOrder], NEW r \in Refs, NEW x \in AnOrder, NEW s, NEW p
    PROVE  Moved(o, [o EXCEPT ![r] = x], r, x, s, p)
<1>1. PICK n : n = [o EXCEPT ![r] = x]
    OBVIOUS
<1>2. n \in [Refs -> AnOrder] /\ n[r] = x /\ \A y \in Refs : y # r => n[y] = o[y]
    BY <1>1
<1>3. PICK S : S = OrdersAt(o, s, p) \ {r}
    OBVIOUS
<1>4. OrdersAt(n, s, p) \ {r} = S
    BY <1>2, <1>3 DEF OrdersAt
<1>5. PICK v, w : v = [y \in Refs |-> o[y].qty] /\ w = [y \in Refs |-> n[y].qty]
    OBVIOUS
<1>6. S \subseteq Refs \ {r}
    BY <1>3 DEF OrdersAt
<1>7. IsFiniteSet(S)
    BY <1>6, FS_Subset
<1>8. \A y \in S : v[y] \in Int /\ v[y] = w[y]
  <2> SUFFICES ASSUME NEW y \in S PROVE v[y] \in Int /\ v[y] = w[y]
      OBVIOUS
  <2>1. y \in Refs /\ y # r /\ n[y] = o[y] /\ o[y] \in AnOrder
      BY <1>2, <1>6
  <2>2. o[y].qty \in Nat
      BY <2>1, OrderFacts
  <2> QED
      BY <1>5, <2>1, <2>2
<1>9. SumFunctionOnSet(v, S) = SumFunctionOnSet(w, S)
    BY <1>7, <1>8, SumSame
<1>10. Total(o, s, p) \in Nat /\ SumFunctionOnSet(v, S) \in Nat
       /\ Total(o, s, p) = SumFunctionOnSet(v, S) + Amount(o[r], s, p)
    BY <1>3, <1>5, TotalSplit
<1>11. Total(n, s, p) = SumFunctionOnSet(w, S) + Amount(n[r], s, p)
  <2>1. Total(n, s, p) = SumFunctionOnSet([y \in Refs |-> n[y].qty], OrdersAt(n, s, p) \ {r}) + Amount(n[r], s, p)
      BY <1>2, TotalSplit
  <2> QED
      BY <1>4, <1>5, <2>1
<1>12. Amount(o[r], s, p) \in Nat /\ Amount(x, s, p) \in Nat
    BY OrderFacts
<1>13. PICK k \in Nat, a \in Nat, b \in Nat : k = SumFunctionOnSet(v, S) /\ a = Amount(o[r], s, p) /\ b = Amount(x, s, p)
    BY <1>10, <1>12
<1>14. Total(o, s, p) = k + a /\ Total(n, s, p) = k + b
    BY <1>2, <1>9, <1>10, <1>11, <1>13
<1> QED
    BY <1>1, <1>13, <1>14 DEF Moved

\* A state of the adapter: its book is in order and true, its totals are sums.
StateSet == [array : [Sides -> Seq(LevelSet)], maps : [Sides -> [Prices -> Nat]],
             orders : [Refs -> AnOrder], lossy : SUBSET Sides]
BookTrue(array_, maps_, lossy_) ==
    \A s \in Sides : GoodSide(array_[s], s) /\ SideTrue(array_[s], maps_[s], s, lossy_)
Tallied(orders_, maps_) == \A s \in Sides, p \in Prices : maps_[s][p] = Total(orders_, s, p)
StateTrue(st) == st \in StateSet /\ BookTrue(st.array, st.maps, st.lossy) /\ Tallied(st.orders, st.maps)

BookGood(a, m, l) ==
    /\ a \in [Sides -> Seq(LevelSet)] /\ m \in [Sides -> [Prices -> Nat]] /\ l \in SUBSET Sides
    /\ BookTrue(a, m, l)

\* What update_bid and update_ask do to both books.
LEMMA BookUpdate ==
    ASSUME NEW a \in [Sides -> Seq(LevelSet)], NEW m \in [Sides -> [Prices -> Nat]], NEW l \in SUBSET Sides,
           BookTrue(a, m, l), NEW s \in Sides, NEW p \in Prices, NEW q \in Int, q # NonFinite,
           NEW a2, a2 = [a EXCEPT ![s] = update_side(a[s], s, p, q)],
           NEW m2, m2 = [m EXCEPT ![s] = [m[s] EXCEPT ![p] = Clamp(q)]],
           NEW l2, l2 = Losing(l, s, a[s], p, q)
    PROVE  BookGood(a2, m2, l2)
<1>1. PICK R : R = update_side(a[s], s, p, q)
    OBVIOUS
<1>2. PICK w : w = [m[s] EXCEPT ![p] = Clamp(q)]
    OBVIOUS
<1>3. Clamp(q) \in Nat
    BY DEF Clamp
<1>4. GoodSide(a[s], s) /\ SideTrue(a[s], m[s], s, l) /\ m[s] \in [Prices -> Nat]
    BY DEF BookTrue
<1>5. GoodSide(R, s) /\ Content(a[s], R, p, Clamp(q))
    BY <1>1, <1>4, UpdateSide
<1>6. w \in [Prices -> Nat]
    BY <1>2, <1>3, <1>4
<1>7. s \notin l2 => s \notin l /\ ~Loses(a[s], p, Clamp(q))
  <2>1. Loses(a[s], p, Clamp(q)) => Loses(a[s], p, q)
      BY DEF Loses, Clamp, NonFinite
  <2> QED
      BY <2>1 DEF Losing
<1>8. SideTrue(R, w, s, l2)
  <2>1. SideTrue(R, [m[s] EXCEPT ![p] = Clamp(q)], s, l2)
      BY <1>3, <1>4, <1>5, <1>7, SideUpdate
  <2> QED
      BY <1>2, <2>1
<1>9. a2[s] = R /\ m2[s] = w /\ \A t \in Sides : t # s => a2[t] = a[t] /\ m2[t] = m[t] /\ (t \in l2 <=> t \in l)
    BY <1>1, <1>2 DEF Losing
<1>10. a2 \in [Sides -> Seq(LevelSet)] /\ m2 \in [Sides -> [Prices -> Nat]] /\ l2 \in SUBSET Sides
    BY <1>1, <1>2, <1>5, <1>6 DEF GoodSide, Losing
<1>11. ASSUME NEW t \in Sides PROVE GoodSide(a2[t], t) /\ SideTrue(a2[t], m2[t], t, l2)
  <2>1. CASE t = s
      BY <1>5, <1>8, <1>9, <2>1
  <2>2. CASE t # s
    <3>1. GoodSide(a[t], t) /\ SideTrue(a[t], m[t], t, l)
        BY DEF BookTrue
    <3> QED
        BY <1>9, <2>2, <3>1 DEF SideTrue
  <2> QED
      BY <2>1, <2>2
<1> QED
    BY <1>10, <1>11 DEF BookTrue, BookGood

\* o and x add to no level but that of s and p.
OnlyAt(o, x, s, p) ==
    \A t \in Sides, u \in Prices : t # s \/ u # p => Amount(o, t, u) = 0 /\ Amount(x, t, u) = 0
Drained(st, z, r, x) == StateTrue(z) /\ z.orders = [st.orders EXCEPT ![r] = x]

\* Push after a change of an order: the total pushed is the new sum.
LEMMA PushTrue ==
    ASSUME NEW st, StateTrue(st), NEW r \in Refs, NEW x \in AnOrder, NEW s \in Sides, NEW p \in Prices,
           NEW total \in Nat, total = Total([st.orders EXCEPT ![r] = x], s, p),
           OnlyAt(st.orders[r], x, s, p),
           NEW st1, st1 = [st EXCEPT !.orders = [st.orders EXCEPT ![r] = x]]
    PROVE  Drained(st, Push(st1, s, p, total), r, x)
<1>1. st \in StateSet /\ BookTrue(st.array, st.maps, st.lossy) /\ Tallied(st.orders, st.maps)
    BY DEF StateTrue
<1>2. PICK a \in [Sides -> Seq(LevelSet)], m \in [Sides -> [Prices -> Nat]], o \in [Refs -> AnOrder], l \in SUBSET Sides :
          a = st.array /\ m = st.maps /\ o = st.orders /\ l = st.lossy
    BY <1>1 DEF StateSet
<1>3. PICK n \in [Refs -> AnOrder] : n = [o EXCEPT ![r] = x]
    BY <1>2
<1>4. st1.array = a /\ st1.maps = m /\ st1.orders = n /\ st1.lossy = l
    BY <1>1, <1>2, <1>3 DEF StateSet
<1>5. PICK a2, m2, l2 : /\ a2 = [a EXCEPT ![s] = update_side(a[s], s, p, total)]
                        /\ m2 = [m EXCEPT ![s] = [m[s] EXCEPT ![p] = total]]
                        /\ l2 = Losing(l, s, a[s], p, total)
    OBVIOUS
<1>6. Push(st1, s, p, total) = [array |-> a2, maps |-> m2, orders |-> n, lossy |-> l2]
  <2>1. [st1.array EXCEPT ![s] = update_side(@, s, p, total)] = a2
      BY <1>4, <1>5
  <2>2. [st1.maps EXCEPT ![s][p] = total] = m2
      BY <1>4, <1>5
  <2>3. Losing(st1.lossy, s, st1.array[s], p, total) = l2
      BY <1>4, <1>5
  <2> QED
      BY <1>4, <2>1, <2>2, <2>3 DEF Push
<1>7. /\ a2 \in [Sides -> Seq(LevelSet)] /\ m2 \in [Sides -> [Prices -> Nat]] /\ l2 \in SUBSET Sides
      /\ BookTrue(a2, m2, l2)
  <2>1. total \in Int /\ total # NonFinite /\ Clamp(total) = total
      BY DEF NonFinite, Clamp
  <2>2. BookTrue(a, m, l)
      BY <1>1, <1>2
  <2>3. m2 = [m EXCEPT ![s] = [m[s] EXCEPT ![p] = Clamp(total)]]
      BY <1>5, <2>1
  <2> QED
    <3>1. a2 = [a EXCEPT ![s] = update_side(a[s], s, p, total)]
        BY <1>5
    <3>2. l2 = Losing(l, s, a[s], p, total)
        BY <1>5
    <3>3. total \in Int /\ total # NonFinite
        BY <2>1
    <3>4. BookGood(a2, m2, l2)
        BY <2>2, <2>3, <3>1, <3>2, <3>3, BookUpdate, Zenon
    <3> QED
        BY <3>4 DEF BookGood
<1>8. ASSUME NEW t \in Sides, NEW u \in Prices PROVE m2[t][u] = Total(n, t, u)
  <2>1. CASE t = s /\ u = p
      BY <1>2, <1>3, <1>5, <2>1
  <2>2. CASE t # s \/ u # p
    <3>1. m2[t][u] = m[t][u]
        BY <1>5, <2>2
    <3>2. m[t][u] = Total(o, t, u)
        BY <1>1, <1>2 DEF Tallied
    <3>3. /\ Total(o, t, u) \in Nat
          /\ Total(n, t, u) = Total(o, t, u) - Amount(o[r], t, u) + Amount(x, t, u)
      <4>1. Moved(o, [o EXCEPT ![r] = x], r, x, t, u)
          BY TotalMoves
      <4> QED
          BY <1>3, <4>1 DEF Moved
    <3>4. Amount(o[r], t, u) = 0 /\ Amount(x, t, u) = 0
        BY <1>2, <2>2 DEF OnlyAt
    <3> QED
        BY <3>1, <3>2, <3>3, <3>4
  <2> QED
      BY <2>1, <2>2
<1>9. PICK z : z = [array |-> a2, maps |-> m2, orders |-> n, lossy |-> l2]
    OBVIOUS
<1>10. z \in StateSet /\ z.array = a2 /\ z.maps = m2 /\ z.lossy = l2 /\ z.orders = n
    BY <1>7, <1>9 DEF StateSet
<1>11. StateTrue(z)
    BY <1>7, <1>8, <1>10 DEF StateTrue, Tallied
<1> QED
    BY <1>2, <1>3, <1>6, <1>9, <1>10, <1>11 DEF Drained

\* st with another order under r.
WithOrder(st, r, x) == [st EXCEPT !.orders = [st.orders EXCEPT ![r] = x]]

\* An order adds to its own level only, and none to no level.
LEMMA AmountElsewhere ==
    /\ \A s \in Sides, p \in Prices : Amount(NoOrder, s, p) = 0
    /\ \A o \in AnOrder : \A s, p : s # o.side \/ p # o.price => Amount(o, s, p) = 0
<1>1. \A s \in Sides, p \in Prices : Amount(NoOrder, s, p) = 0
    BY DEF NoOrder, Amount
<1> QED
    BY <1>1 DEF Amount

\* An order that loses cut of its quantity, or all of it, loses it at its level.
LEMMA SubTrue ==
    ASSUME NEW st, StateTrue(st), NEW r \in Refs, NEW o, o = st.orders[r], o # NoOrder,
           NEW x \in AnOrder, NEW cut \in Nat, cut <= o.qty,
           x = NoOrder \/ (x.side = o.side /\ x.price = o.price),
           Amount(x, o.side, o.price) = o.qty - cut
    PROVE  Drained(st, sub_qty(WithOrder(st, r, x), o.side, o.price, cut), r, x)
<1>1. /\ st \in StateSet /\ Tallied(st.orders, st.maps)
      /\ st.orders \in [Refs -> AnOrder] /\ st.maps \in [Sides -> [Prices -> Nat]]
    BY DEF StateTrue, StateSet
<1>2. o \in AnOrder
    BY <1>1
<1>3. /\ o.side \in Sides /\ o.price \in Prices /\ o.qty \in Nat
      /\ Amount(o, o.side, o.price) = o.qty
    BY <1>2, OrderFacts
<1>4. PICK s \in Sides, p \in Prices : s = o.side /\ p = o.price
    BY <1>3
<1>5. PICK h \in Nat : h = st.maps[s][p]
    BY <1>1
<1>6. Moved(st.orders, [st.orders EXCEPT ![r] = x], r, x, s, p)
    BY <1>1, TotalMoves
<1>7. h = Total(st.orders, s, p)
    BY <1>1, <1>5 DEF Tallied
<1>8. PICK total : total = Total([st.orders EXCEPT ![r] = x], s, p)
    OBVIOUS
<1>9. h >= o.qty /\ total = h - o.qty + (o.qty - cut)
    BY <1>3, <1>4, <1>6, <1>7, <1>8 DEF Moved
<1>10. total \in Nat /\ h - cut = total /\ Clamp(h - cut) = total
  <2>1. total \in Nat /\ h - cut = total
      BY <1>3, <1>9
  <2> QED
      BY <2>1 DEF Clamp
<1>11. PICK st1 : st1 = [st EXCEPT !.orders = [st.orders EXCEPT ![r] = x]]
    OBVIOUS
<1>12. st1 = WithOrder(st, r, x)
    BY <1>11 DEF WithOrder
<1>13. st1.maps = st.maps
    BY <1>1, <1>11 DEF StateSet
<1>14. sub_qty(st1, s, p, cut) = Push(st1, s, p, total)
    BY <1>5, <1>10, <1>13 DEF sub_qty
<1>15. OnlyAt(st.orders[r], x, s, p)
    BY <1>2, <1>4, AmountElsewhere DEF OnlyAt
<1>16. Drained(st, Push(st1, s, p, total), r, x)
    BY <1>8, <1>10, <1>11, <1>15, PushTrue, Zenon
<1> QED
    BY <1>4, <1>12, <1>14, <1>16

\* Erase is such a change, to no order.
LEMMA EraseIs ==
    ASSUME NEW st, st \in StateSet, NEW r \in Refs
    PROVE  Erase(st, r) = WithOrder(st, r, NoOrder)
BY DEF Erase, WithOrder, StateSet

\* An order that leaves takes its quantity along.
LEMMA LeaveTrue ==
    ASSUME NEW st, StateTrue(st), NEW r \in Refs, NEW o, o = st.orders[r], o # NoOrder
    PROVE  Drained(st, sub_qty(Erase(st, r), o.side, o.price, o.qty), r, NoOrder)
<1>1. st \in StateSet /\ st.orders \in [Refs -> AnOrder]
    BY DEF StateTrue, StateSet
<1>2. o \in AnOrder
    BY <1>1
<1>3. o.side \in Sides /\ o.price \in Prices /\ o.qty \in Nat
    BY <1>2, OrderFacts
<1>4. NoOrder \in AnOrder /\ Amount(NoOrder, o.side, o.price) = o.qty - o.qty /\ o.qty <= o.qty
  <2>1. Amount(NoOrder, o.side, o.price) = 0
      BY <1>3, AmountElsewhere
  <2> QED
      BY <1>3, <2>1 DEF AnOrder
<1>5. Drained(st, sub_qty(WithOrder(st, r, NoOrder), o.side, o.price, o.qty), r, NoOrder)
    BY <1>3, <1>4, SubTrue
<1> QED
    BY <1>1, <1>5, EraseIs

\* A new order brings its quantity.
LEMMA PlaceTrue ==
    ASSUME NEW st, StateTrue(st), NEW r \in Refs, st.orders[r] = NoOrder,
           NEW s \in Sides, NEW p \in Prices, NEW q \in Shares
    PROVE  StateTrue(Place(st, r, s, p, q))
<1>1. /\ st \in StateSet /\ Tallied(st.orders, st.maps)
      /\ st.orders \in [Refs -> AnOrder] /\ st.maps \in [Sides -> [Prices -> Nat]]
    BY DEF StateTrue, StateSet
<1>2. PICK x : x = [side |-> s, price |-> p, qty |-> q]
    OBVIOUS
<1>3. x \in AnOrder /\ x.side = s /\ x.price = p /\ x.qty = q /\ q \in Nat
    BY <1>2 DEF AnOrder, Shares
<1>4. PICK h \in Nat : h = st.maps[s][p]
    BY <1>1
<1>5. Moved(st.orders, [st.orders EXCEPT ![r] = x], r, x, s, p)
    BY <1>1, <1>3, TotalMoves
<1>6. h = Total(st.orders, s, p)
    BY <1>1, <1>4 DEF Tallied
<1>7. PICK total : total = Total([st.orders EXCEPT ![r] = x], s, p)
    OBVIOUS
<1>8. Amount(st.orders[r], s, p) = 0 /\ Amount(x, s, p) = q
  <2>1. Amount(st.orders[r], s, p) = 0
      BY AmountElsewhere
  <2> QED
      BY <1>3, <2>1 DEF Amount
<1>9. total = h + q /\ total \in Nat
    BY <1>3, <1>5, <1>6, <1>7, <1>8 DEF Moved
<1>10. PICK st1 : st1 = [st EXCEPT !.orders = [st.orders EXCEPT ![r] = x]]
    OBVIOUS
<1>11. [st EXCEPT !.orders[r] = [side |-> s, price |-> p, qty |-> q]] = st1 /\ st1.maps = st.maps
    BY <1>1, <1>2, <1>10 DEF StateSet
<1>12. Place(st, r, s, p, q) = Push(st1, s, p, total)
    BY <1>4, <1>9, <1>11 DEF Place, add_qty
<1>13. OnlyAt(st.orders[r], x, s, p)
    BY <1>3, AmountElsewhere DEF OnlyAt
<1>14. Drained(st, Push(st1, s, p, total), r, x)
    BY <1>3, <1>7, <1>9, <1>10, <1>13, PushTrue, Zenon
<1> QED
    BY <1>12, <1>14 DEF Drained

\* An order under a reference that may be in use: the old one leaves first.
LEMMA AddTrue ==
    ASSUME NEW st, StateTrue(st), NEW r \in Refs, NEW s \in Sides, NEW p \in Prices, NEW q \in Shares
    PROVE  StateTrue(AddAfterEvict(st, r, s, p, q))
<1>1. PICK z : z = evict_existing_ref(st, r)
    OBVIOUS
<1>2. StateTrue(z) /\ z.orders[r] = NoOrder
  <2>1. CASE st.orders[r] = NoOrder
      BY <1>1, <2>1 DEF evict_existing_ref
  <2>2. CASE st.orders[r] # NoOrder
    <3>1. PICK o : o = st.orders[r]
        OBVIOUS
    <3>2. z = sub_qty(Erase(st, r), o.side, o.price, o.qty)
        BY <1>1, <2>2, <3>1 DEF evict_existing_ref
    <3>3. Drained(st, sub_qty(Erase(st, r), o.side, o.price, o.qty), r, NoOrder)
        BY <2>2, <3>1, LeaveTrue
    <3>4. StateTrue(z) /\ z.orders = [st.orders EXCEPT ![r] = NoOrder]
        BY <3>2, <3>3 DEF Drained
    <3>5. st.orders \in [Refs -> AnOrder]
        BY DEF StateTrue, StateSet
    <3> QED
        BY <3>4, <3>5
  <2> QED
      BY <2>1, <2>2
<1>3. StateTrue(Place(z, r, s, p, q))
    BY <1>2, PlaceTrue
<1> QED
    BY <1>1, <1>3 DEF AddAfterEvict

-----------------------------------------------------------------------------
(* Books: the adapter's actions.                                           *)

BKItch ==
    /\ array \in [Sides -> Seq(LevelSet)] /\ maps \in [Sides -> [Prices -> Nat]] /\ lossy \in SUBSET Sides
    /\ itch_orders \in [Refs -> AnOrder]
    /\ BookTrue(array, maps, lossy)
    /\ Tallied(itch_orders, maps)

\* The variables as a state, and back.
LEMMA StateIs ==
    BKItch => StateTrue(State)
<1> SUFFICES ASSUME BKItch PROVE StateTrue(State)
    OBVIOUS
<1>1. PICK z : z = State
    OBVIOUS
<1>2. z.array = array /\ z.maps = maps /\ z.orders = itch_orders /\ z.lossy = lossy /\ z \in StateSet
    BY <1>1 DEF State, StateSet, BKItch
<1> QED
    BY <1>1, <1>2 DEF StateTrue, BKItch

\* A true state that is set leaves the adapter true.
LEMMA StateBack ==
    ASSUME NEW z, StateTrue(z), SetState(z)
    PROVE  BKItch'
<1>1. z.array \in [Sides -> Seq(LevelSet)] /\ z.maps \in [Sides -> [Prices -> Nat]] /\ z.lossy \in SUBSET Sides
      /\ z.orders \in [Refs -> AnOrder]
    BY DEF StateTrue, StateSet
<1>2. BookTrue(z.array, z.maps, z.lossy) /\ Tallied(z.orders, z.maps)
    BY DEF StateTrue
<1>3. array' = z.array /\ maps' = z.maps /\ itch_orders' = z.orders /\ lossy' = z.lossy
    BY DEF SetState
<1>4. BookTrue(array', maps', lossy') /\ Tallied(itch_orders', maps')
    BY <1>2, <1>3
<1> QED
    BY <1>1, <1>3, <1>4 DEF BKItch, BookTrue, Tallied, SideTrue, GoodSide, Sorted, Better, LevelSet, Total, OrdersAt, AnOrder, NoOrder, Shares, Sides

\* Additions, executions, cancellations, deletions and replacements.
LEMMA ItchKeeps ==
    ASSUME BKItch,
           \/ \E r \in Refs, s \in Sides, p \in Prices, q \in Shares : handle_add_order(r, s, p, q)
           \/ \E r \in Refs, q \in Shares : ReduceOrder(r, q)
           \/ \E r \in Refs : handle_order_delete(r)
           \/ \E r, n \in Refs, p \in Prices, q \in Shares : handle_order_replace(r, n, p, q)
    PROVE  BKItch'
<1>1. StateTrue(State) /\ State.orders = itch_orders
    BY StateIs DEF State
<1>2. ASSUME NEW r \in Refs, NEW s \in Sides, NEW p \in Prices, NEW q \in Shares, handle_add_order(r, s, p, q)
      PROVE  BKItch'
  <2>1. StateTrue(AddAfterEvict(State, r, s, p, q))
      BY <1>1, AddTrue
  <2>2. SetState(AddAfterEvict(State, r, s, p, q))
      BY <1>2 DEF handle_add_order
  <2> QED
      BY <2>1, <2>2, StateBack
<1>3. ASSUME NEW r \in Refs, NEW q \in Shares, ReduceOrder(r, q)
      PROVE  BKItch'
  <2>1. PICK o : o = itch_orders[r]
      OBVIOUS
  <2>2. PICK cut : cut = Clamped(o, q)
      OBVIOUS
  <2>3. o \in AnOrder /\ o # NoOrder
      BY <1>3, <2>1 DEF BKItch, ReduceOrder
  <2>4. o.side \in Sides /\ o.price \in Prices /\ o.qty \in Shares /\ o.qty \in Nat
      BY <2>3, OrderFacts
  <2>5. cut \in Nat /\ cut <= o.qty /\ q \in Nat
      BY <2>2, <2>4 DEF Clamped, Shares
  <2>6. PICK rest \in Nat : rest = o.qty - cut
      BY <2>4, <2>5
  <2>7. o \in [side : Sides, price : Prices, qty : Shares]
      BY <2>3 DEF AnOrder
  <2>8. State \in StateSet /\ State.orders \in [Refs -> AnOrder] /\ State.orders[r] = o
      BY <1>1, <2>1 DEF StateTrue, StateSet
  <2>9. CASE rest = 0
    <3>1. NoOrder \in AnOrder /\ Amount(NoOrder, o.side, o.price) = o.qty - cut
      <4>1. Amount(NoOrder, o.side, o.price) = 0
          BY <2>4, AmountElsewhere
      <4> QED
          BY <2>6, <2>9, <4>1 DEF AnOrder
    <3>2. Drained(State, sub_qty(WithOrder(State, r, NoOrder), o.side, o.price, cut), r, NoOrder)
        BY <1>1, <2>3, <2>5, <2>8, <3>1, SubTrue
    <3>3. SetState(sub_qty(Erase(State, r), o.side, o.price, cut))
        BY <1>3, <2>1, <2>2, <2>6, <2>9 DEF ReduceOrder
    <3>4. Erase(State, r) = WithOrder(State, r, NoOrder)
        BY <2>8, EraseIs
    <3> QED
        BY <3>2, <3>3, <3>4, StateBack DEF Drained
  <2>10. CASE rest # 0
    <3>1. PICK x : x = [o EXCEPT !.qty = rest]
        OBVIOUS
    <3>2. rest \in Shares
        BY <2>4, <2>5, <2>6 DEF Shares
    <3>3. x \in AnOrder /\ x.side = o.side /\ x.price = o.price /\ x.qty = rest
        BY <2>7, <3>1, <3>2 DEF AnOrder
    <3>4. Amount(x, o.side, o.price) = o.qty - cut
        BY <2>6, <3>3 DEF Amount
    <3>5. Drained(State, sub_qty(WithOrder(State, r, x), o.side, o.price, cut), r, x)
        BY <1>1, <2>3, <2>5, <2>8, <3>3, <3>4, SubTrue
    <3>6. SetState(sub_qty([State EXCEPT !.orders[r].qty = rest], o.side, o.price, cut))
        BY <1>3, <2>1, <2>2, <2>6, <2>10 DEF ReduceOrder
    <3>7. [State EXCEPT !.orders[r].qty = rest] = WithOrder(State, r, x)
      <4>1. PICK z : z = State
          OBVIOUS
      <4>2. z \in StateSet /\ z.orders \in [Refs -> AnOrder] /\ z.orders[r] = o
          BY <2>8, <4>1
      <4>3. [z EXCEPT !.orders[r].qty = rest] = WithOrder(z, r, x)
          BY <3>1, <4>2 DEF WithOrder, StateSet
      <4> QED
          BY <4>1, <4>3
    <3> QED
        BY <3>5, <3>6, <3>7, StateBack DEF Drained
  <2> QED
      BY <2>9, <2>10
<1>4. ASSUME NEW r \in Refs, handle_order_delete(r)
      PROVE  BKItch'
  <2>1. PICK o : o = itch_orders[r]
      OBVIOUS
  <2>2. o # NoOrder /\ SetState(sub_qty(Erase(State, r), o.side, o.price, o.qty))
      BY <1>4, <2>1 DEF handle_order_delete
  <2>3. Drained(State, sub_qty(Erase(State, r), o.side, o.price, o.qty), r, NoOrder)
      BY <1>1, <2>1, <2>2, LeaveTrue
  <2> QED
      BY <2>2, <2>3, StateBack DEF Drained
<1>5. ASSUME NEW r \in Refs, NEW n \in Refs, NEW p \in Prices, NEW q \in Shares, handle_order_replace(r, n, p, q)
      PROVE  BKItch'
  <2>1. PICK o : o = itch_orders[r]
      OBVIOUS
  <2>2. PICK gone : gone = sub_qty(Erase(State, r), o.side, o.price, o.qty)
      OBVIOUS
  <2>3. o # NoOrder /\ SetState(AddAfterEvict(gone, n, o.side, p, q))
      BY <1>5, <2>1, <2>2 DEF handle_order_replace
  <2>4. Drained(State, sub_qty(Erase(State, r), o.side, o.price, o.qty), r, NoOrder)
      BY <1>1, <2>1, <2>3, LeaveTrue
  <2>5. StateTrue(gone)
      BY <2>2, <2>4 DEF Drained
  <2>6. o.side \in Sides
    <3>1. o \in AnOrder
        BY <2>1 DEF BKItch
    <3> QED
        BY <2>3, <3>1, OrderFacts
  <2>7. StateTrue(AddAfterEvict(gone, n, o.side, p, q))
      BY <2>5, <2>6, AddTrue
  <2> QED
      BY <2>3, <2>7, StateBack
<1> QED
    BY <1>2, <1>3, <1>4, <1>5

-----------------------------------------------------------------------------
(* Books: loading a snapshot.                                              *)

\* f takes the steps D from x on, the k-th with k, and stays within S.
FoldsOn(f, S, x, D, n) ==
    f = [k \in 0..n |-> IF k = 0 THEN x ELSE D[<<k, f[k - 1]>>]] /\ \A k \in 0..n : f[k] \in S

\* A step on a set may be taken n times.
LEMMA FoldExists ==
    ASSUME NEW S, NEW x \in S, NEW D \in [Nat \X S -> S], NEW n \in Nat
    PROVE  \E f : FoldsOn(f, S, x, D, n)
<1> DEFINE Good == {m \in Nat : \E f : FoldsOn(f, S, x, D, m)}
<1>1. 0 \in Good
  <2>1. PICK f : f = [k \in 0..0 |-> x]
      OBVIOUS
  <2>2. \A k \in 0..0 : k = 0
      OBVIOUS
  <2>3. f = [k \in 0..0 |-> IF k = 0 THEN x ELSE D[<<k, f[k - 1]>>]]
      BY <2>1, <2>2
  <2>4. FoldsOn(f, S, x, D, 0)
      BY <2>1, <2>3 DEF FoldsOn
  <2> QED
      BY <2>4
<1>2. ASSUME NEW m \in Nat, m \in Good PROVE m + 1 \in Good
  <2>1. PICK f : /\ f = [k \in 0..m |-> IF k = 0 THEN x ELSE D[<<k, f[k - 1]>>]]
                 /\ \A k \in 0..m : f[k] \in S
      BY <1>2 DEF FoldsOn
  <2>2. PICK g : g = [k \in 0..(m + 1) |-> IF k = m + 1 THEN D[<<m + 1, f[m]>>] ELSE f[k]]
      OBVIOUS
  <2>3. ASSUME NEW k \in 0..(m + 1) PROVE g[k] = (IF k = 0 THEN x ELSE D[<<k, g[k - 1]>>]) /\ g[k] \in S
    <3>1. CASE k = m + 1
      <4>1. k # 0 /\ k - 1 = m /\ m \in 0..(m + 1) /\ m # m + 1 /\ m \in 0..m /\ k \in Nat
          BY <3>1
      <4>2. g[k] = D[<<k, f[m]>>] /\ g[m] = f[m]
          BY <2>2, <3>1, <4>1
      <4>3. f[m] \in S
          BY <2>1, <4>1
      <4>4. <<k, f[m]>> \in Nat \X S
          BY <4>1, <4>3
      <4> QED
          BY <4>1, <4>2, <4>4
    <3>2. CASE k # m + 1
      <4>1. k \in 0..m /\ g[k] = f[k]
          BY <2>2, <3>2
      <4>2. k # 0 => k - 1 \in 0..(m + 1) /\ k - 1 # m + 1 /\ k - 1 \in 0..m
          BY <4>1
      <4>3. k # 0 => g[k - 1] = f[k - 1]
          BY <2>2, <4>2
      <4>4. f[k] = IF k = 0 THEN x ELSE D[<<k, f[k - 1]>>]
          BY <2>1, <4>1
      <4> QED
          BY <2>1, <4>1, <4>3, <4>4
    <3> QED
        BY <3>1, <3>2
  <2>4. g = [k \in 0..(m + 1) |-> g[k]]
      BY <2>2
  <2>5. g = [k \in 0..(m + 1) |-> IF k = 0 THEN x ELSE D[<<k, g[k - 1]>>]]
      BY <2>3, <2>4
  <2>6. FoldsOn(g, S, x, D, m + 1)
      BY <2>3, <2>5 DEF FoldsOn
  <2> QED
      BY <2>6
<1> HIDE DEF Good
<1>3. Nat \subseteq Good
    BY <1>1, <1>2, SetInduction
<1> QED
    BY <1>3 DEF Good

GoodSides(s) == {L \in Seq(LevelSet) : GoodSide(L, s)}

\* An empty side is in order.
LEMMA EmptySide ==
    ASSUME NEW s
    PROVE  GoodSide(<<>>, s) /\ << >> \in Seq(LevelSet) /\ Len(<< >>) = 0
<1>1. << >> \in Seq(LevelSet) /\ Len(<< >>) = 0
    OBVIOUS
<1>2. PICK e : e = << >>
    OBVIOUS
<1>3. e \in Seq(LevelSet) /\ Len(e) = 0
    BY <1>1, <1>2
<1>4. GoodSide(e, s)
    BY <1>3 DEF GoodSide, Sorted
<1> QED
    BY <1>1, <1>2, <1>4

\* Loading any list of levels makes a side that is in order.
LEMMA LoadGood ==
    ASSUME NEW levels \in Seq(LevelSet), NEW s
    PROVE  GoodSide(LoadAll(levels, s), s)
<1> DEFINE S == GoodSides(s)
           n == Len(levels)
           U(k, L) == update_side(L, s, levels[k].price, levels[k].qty)
           D == [t \in Nat \X S |-> IF t[1] \in 1..n THEN U(t[1], t[2]) ELSE t[2]]
           d == CHOOSE f : f = [k \in 0..n |-> IF k = 0 THEN << >> ELSE U(k, f[k - 1])]
<1>1. n \in Nat
    OBVIOUS
<1>2. ASSUME NEW k \in 1..n, NEW L \in S PROVE U(k, L) \in S
  <2>1. levels[k] \in LevelSet
      OBVIOUS
  <2>2. levels[k].price \in Prices /\ levels[k].qty \in Int
      BY <2>1 DEF LevelSet
  <2>3. GoodSide(L, s)
      BY DEF GoodSides
  <2>4. GoodSide(U(k, L), s)
      BY <2>2, <2>3, UpdateSide
  <2> QED
      BY <2>4 DEF GoodSides, GoodSide
<1> HIDE DEF S, n, U
<1>3. D \in [Nat \X S -> S]
  <2>1. ASSUME NEW t \in Nat \X S PROVE (IF t[1] \in 1..n THEN U(t[1], t[2]) ELSE t[2]) \in S
    <3>1. t[2] \in S
        OBVIOUS
    <3> QED
        BY <1>2, <3>1
  <2> QED
      BY <2>1
<1>4. ASSUME NEW k \in 1..n, NEW L \in S PROVE D[<<k, L>>] = U(k, L)
  <2>1. <<k, L>> \in Nat \X S
      BY <1>1
  <2> QED
      BY <2>1
<1> HIDE DEF D
<1>5. << >> \in S
    BY EmptySide DEF S, GoodSides
<1>6. \E f : f = [k \in 0..n |-> IF k = 0 THEN << >> ELSE U(k, f[k - 1])]
  <2>1. \E f : FoldsOn(f, S, << >>, D, n)
      BY <1>1, <1>3, <1>5, FoldExists
  <2>2. PICK f : /\ f = [k \in 0..n |-> IF k = 0 THEN << >> ELSE D[<<k, f[k - 1]>>]]
                 /\ \A k \in 0..n : f[k] \in S
      BY <2>1 DEF FoldsOn
  <2>3. ASSUME NEW k \in 0..n, k # 0 PROVE D[<<k, f[k - 1]>>] = U(k, f[k - 1])
    <3>1. k \in 1..n /\ k - 1 \in 0..n
        BY <1>1, <2>3
    <3> QED
        BY <1>4, <2>2, <3>1
  <2>4. f = [k \in 0..n |-> IF k = 0 THEN << >> ELSE U(k, f[k - 1])]
      BY <2>2, <2>3
  <2> QED
      BY <2>4
<1>7. d = [k \in 0..n |-> IF k = 0 THEN << >> ELSE U(k, d[k - 1])]
    BY <1>6
<1>8. LoadAll(levels, s) = d[n]
    BY DEF LoadAll, n, U
<1> HIDE DEF d
<1> DEFINE G == {k \in Nat : k <= n => d[k] \in S}
<1>9. 0 \in G
    BY <1>1, <1>5, <1>7
<1>10. ASSUME NEW k \in Nat, k \in G PROVE k + 1 \in G
  <2> SUFFICES ASSUME k + 1 <= n PROVE d[k + 1] \in S
      OBVIOUS
  <2>1. k + 1 \in 0..n /\ k + 1 # 0 /\ (k + 1) - 1 = k /\ k + 1 \in 1..n /\ k <= n
      BY <1>1
  <2>2. d[k + 1] = U(k + 1, d[k])
      BY <1>7, <2>1
  <2>3. d[k] \in S
      BY <1>10, <2>1
  <2> QED
      BY <1>2, <2>1, <2>2, <2>3
<1> HIDE DEF G
<1>11. Nat \subseteq G
    BY <1>9, <1>10, SetInduction
<1>12. d[n] \in S
    BY <1>1, <1>11 DEF G
<1> QED
    BY <1>8, <1>12 DEF S, GoodSides

\* The snapshots are lists of levels.
LEMMA SnapshotsAreLists == Snapshots \subseteq Seq(LevelSet)
<1>1. {Level(p, 1) : p \in Prices} \subseteq LevelSet
    BY DEF Level, LevelSet
<1> SUFFICES ASSUME NEW z \in Snapshots PROVE z \in Seq(LevelSet)
    OBVIOUS
<1>2. PICK n \in 0..2 : z \in [1..n -> {Level(p, 1) : p \in Prices}]
    BY DEF Snapshots
<1>3. z \in [1..n -> LevelSet] /\ n \in Nat
    BY <1>1, <1>2
<1> QED
    BY <1>3

-----------------------------------------------------------------------------
(* Books: the ticker.                                                      *)

\* Updating a side that has the price alone, or nothing, leaves that price alone.
LEMMA OnlyPrice ==
    ASSUME NEW L, NEW s, GoodSide(L, s), NEW p \in Prices, NEW q \in Nat, \A i \in 1..Len(L) : L[i].price = p
    PROVE  update_side(L, s, p, q) = IF q > 0 THEN <<Level(p, q)>> ELSE << >>
<1>1. PICK R : R = update_side(L, s, p, q)
    OBVIOUS
<1>2. q \in Int /\ q # NonFinite /\ Clamp(q) = q
    BY DEF NonFinite, Clamp
<1>3. GoodSide(R, s) /\ Content(L, R, p, q)
    BY <1>1, <1>2, UpdateSide
<1>4. R \in Seq(LevelSet) /\ Len(R) \in Nat /\ Len(L) \in Nat /\ DOMAIN L = 1..Len(L)
    BY <1>3 DEF GoodSide
<1>5. ASSUME NEW i \in 1..Len(R) PROVE R[i].price = p /\ R[i].qty = q /\ q > 0 /\ R[i] = Level(p, q)
  <2>1. R[i].price = p /\ R[i].qty = q
    <3>1. \/ R[i].price = p /\ R[i].qty = q
          \/ R[i].price # p /\ \E j \in 1..Len(L) : R[i] = L[j]
        BY <1>3 DEF Content
    <3> QED
        BY <3>1
  <2>2. R[i] \in LevelSet
      BY <1>4
  <2> QED
      BY <2>1, <2>2 DEF LevelSet, Level
<1>6. CASE q = 0
  <2>1. Len(R) = 0
    <3>1. CASE Len(R) > 0
      <4>1. 1 \in 1..Len(R)
          BY <1>4, <3>1
      <4> QED
          BY <1>5, <1>6, <4>1
    <3> QED
        BY <1>4, <3>1
  <2>2. R = << >>
      BY <1>4, <2>1
  <2> QED
      BY <1>1, <1>6, <2>2
<1>7. CASE q # 0
  <2>1. q > 0
      BY <1>7
  <2>2. ~Loses(L, p, q)
    <3>1. CASE Len(L) = 0
        BY <3>1 DEF Loses, Full
    <3>2. CASE Len(L) # 0
      <4>1. 1 \in DOMAIN L /\ L[1].price = p
          BY <1>4, <3>2
      <4> QED
          BY <4>1 DEF Loses
    <3> QED
        BY <3>1, <3>2
  <2>3. PICK i \in 1..Len(R) : R[i].price = p
      BY <1>3, <2>1, <2>2 DEF Content
  <2>4. PICK n \in Nat : n = Len(R)
      BY <1>4
  <2>5. Len(R) = 1
    <3>1. n # 0
        BY <2>3, <2>4
    <3>2. ASSUME n > 1 PROVE FALSE
      <4>1. 1 \in 1..n /\ 2 \in 1..n
          BY <3>2
      <4>2. R[1].price = R[2].price
          BY <1>5, <2>4, <4>1
      <4>3. 1 = 2
          BY <1>3, <2>4, <4>1, <4>2, OnePlace
      <4> QED
          BY <4>3
    <3>3. n = 1
        BY <3>1, <3>2
    <3> QED
        BY <2>4, <3>3
  <2>6. R[1] = Level(p, q)
      BY <1>5, <2>5
  <2>7. R = <<Level(p, q)>>
      BY <1>4, <2>5, <2>6
  <2> QED
      BY <1>1, <2>1, <2>7
<1> QED
    BY <1>6, <1>7

\* A side that is the last ticker's.
TickSide(L, b, t) ==
    /\ t.qty > 0 => t.price \in Prices /\ L = <<t>> /\ b = t.price
    /\ ~(t.qty > 0) => L = << >> /\ b = 0

\* A ticker makes the side its own, whatever it was.
LEMMA TickTrue ==
    ASSUME NEW s \in Sides, NEW t \in [price : {0} \cup Prices, qty : Nat], GoodSide(array[s], s),
           TickSide(array[s], bbo[s], t), NEW p \in Prices, NEW q \in Nat
    PROVE  update_side(Retire(array[s], s, p), s, p, q) = IF q > 0 THEN <<Level(p, q)>> ELSE << >>
<1>1. PICK L : L = array[s]
    OBVIOUS
<1>2. PICK M : M = Retire(L, s, p)
    OBVIOUS
<1>3. GoodSide(M, s) /\ \A i \in 1..Len(M) : M[i].price = p
  <2>1. CASE ~(t.qty > 0)
    <3>1. L = << >> /\ bbo[s] = 0
        BY <1>1, <2>1 DEF TickSide
    <3>2. M = << >>
        BY <1>2, <3>1 DEF Retire
    <3>3. Len(M) = 0
        BY <3>2, EmptySide
    <3> QED
        BY <3>2, <3>3, EmptySide
  <2>2. CASE t.qty > 0
    <3>1. t.price \in Prices /\ L = <<t>> /\ bbo[s] = t.price
        BY <1>1, <2>2 DEF TickSide
    <3>2. Len(L) = 1 /\ \A i \in 1..Len(L) : L[i].price = t.price
        BY <3>1
    <3>3. CASE t.price = p
      <4>1. M = L
          BY <1>2, <3>1, <3>3 DEF Retire
      <4> QED
          BY <1>1, <3>2, <3>3, <4>1
    <3>4. CASE t.price # p
      <4>1. t.price # 0
          BY <3>1
      <4>2. M = update_side(L, s, t.price, 0)
          BY <1>2, <3>1, <3>4, <4>1 DEF Retire
      <4>3. GoodSide(L, s)
          BY <1>1
      <4>4. update_side(L, s, t.price, 0) = IF 0 > 0 THEN <<Level(t.price, 0)>> ELSE << >>
          BY <3>1, <3>2, <4>3, OnlyPrice
      <4>5. M = << >>
          BY <4>2, <4>4
      <4>6. Len(M) = 0
          BY <4>5, EmptySide
      <4> QED
          BY <4>5, <4>6, EmptySide
    <3> QED
        BY <3>3, <3>4
  <2> QED
      BY <2>1, <2>2
<1>4. update_side(M, s, p, q) = IF q > 0 THEN <<Level(p, q)>> ELSE << >>
    BY <1>3, OnlyPrice
<1> QED
    BY <1>1, <1>2, <1>4

-----------------------------------------------------------------------------
(* Books: the weighted midpoint.                                           *)

\* Twice the weighted midpoint less the plain one is the spread times the surplus.
LEMMA MidDifference ==
    ASSUME NEW a \in Nat, NEW b \in Nat, NEW x \in Nat, NEW y \in Nat
    PROVE  2 * (a * y + b * x) - (a + b) * (x + y) = (b - a) * (x - y)
<1>1. a * x \in Int /\ a * y \in Int /\ b * x \in Int /\ b * y \in Int
    BY Mul3
<1>2. (a + b) * (x + y) = a * (x + y) + b * (x + y)
    BY Mul3
<1>3. a * (x + y) = a * x + a * y /\ b * (x + y) = b * x + b * y
    BY Mul3
<1>4. (b - a) * (x - y) = b * (x - y) - a * (x - y)
    BY Mul3
<1>5. a * (x - y) = a * x - a * y /\ b * (x - y) = b * x - b * y
    BY Mul3
<1>6. PICK ax \in Int, ay \in Int, bx \in Int, by \in Int : ax = a * x /\ ay = a * y /\ bx = b * x /\ by = b * y
    BY <1>1
<1>7. (a + b) * (x + y) = ax + ay + (bx + by)
    BY <1>2, <1>3, <1>6
<1>8. (b - a) * (x - y) = bx - by - (ax - ay)
    BY <1>4, <1>5, <1>6
<1>9. 2 * (a * y + b * x) = 2 * (ay + bx)
    BY <1>6
<1> QED
    BY <1>6, <1>7, <1>8, <1>9

\* A product with a positive factor has the sign of the other.
LEMMA SignOfProduct ==
    ASSUME NEW c \in Nat \ {0}, NEW z \in Int
    PROVE  c * z \in Int /\ (c * z > 0 <=> z > 0)
<1>1. CASE z > 0
    BY <1>1, MulGe, Mul3
<1>2. CASE z = 0
    BY <1>2
<1>3. CASE z < 0
  <2>1. c * (-z) >= c /\ -z \in Int
      BY <1>3, MulGe
  <2>2. (-z) * c = -(z * c) /\ z * c \in Int /\ c * z = z * c /\ c * (-z) = (-z) * c
      BY <2>1, Mul3
  <2> QED
      BY <1>3, <2>1, <2>2
<1> QED
    BY <1>1, <1>2, <1>3

\* The weighted midpoint is above the plain one when there is more to buy.
LEMMA MidTrue ==
    ASSUME NEW a \in Nat, NEW b \in Nat, NEW x \in Nat, NEW y \in Nat, a < b
    PROVE  2 * (a * y + b * x) > (a + b) * (x + y) <=> x > y
<1>1. PICK u \in Int, w \in Int : u = 2 * (a * y + b * x) /\ w = (a + b) * (x + y)
  <2>1. a * y \in Int /\ b * x \in Int /\ a + b \in Int /\ x + y \in Int
      BY Mul3
  <2>2. (a + b) * (x + y) \in Int
      BY <2>1, Mul3
  <2> QED
      BY <2>1, <2>2
<1>2. PICK c \in Nat \ {0}, z \in Int : c = b - a /\ z = x - y
    OBVIOUS
<1>3. u - w = c * z
    BY <1>1, <1>2, MidDifference
<1>4. c * z \in Int /\ (c * z > 0 <=> z > 0)
    BY SignOfProduct
<1>5. u > w <=> z > 0
    BY <1>3, <1>4
<1>6. z > 0 <=> x > y
    BY <1>2
<1> QED
    BY <1>1, <1>5, <1>6

-----------------------------------------------------------------------------
(* Books: the invariant.                                                   *)

ATicker == [price : {0} \cup Prices, qty : Nat]
BKTyped ==
    /\ feed \in {"direct", "itch", "binance"} /\ loaded \in BOOLEAN
    /\ array \in [Sides -> Seq(LevelSet)] /\ maps \in [Sides -> [Prices -> Nat]] /\ lossy \in SUBSET Sides
    /\ itch_orders \in [Refs -> AnOrder]
    /\ bbo \in [Sides -> {0} \cup Prices] /\ ticker \in [Sides -> ATicker]
AllGood(a) == \A s \in Sides : GoodSide(a[s], s)
Ticked(a, b, t) == \A s \in Sides : TickSide(a[s], b[s], t[s])
BKInv ==
    /\ BKTyped /\ AllGood(array)
    /\ feed # "binance" => BookTrue(array, maps, lossy)
    /\ feed = "itch" => Tallied(itch_orders, maps)
    /\ (feed = "binance" /\ loaded = FALSE) => Ticked(array, bbo, ticker)

\* No orders add up to nothing.
LEMMA NoTotal ==
    ASSUME NEW o, o = [r \in Refs |-> NoOrder], NEW s \in Sides, NEW p
    PROVE  Total(o, s, p) = 0
<1>1. OrdersAt(o, s, p) = {}
    BY DEF OrdersAt, NoOrder, Sides
<1>2. PICK v : v = [r \in Refs |-> o[r].qty]
    OBVIOUS
<1>3. IsFiniteSet({}) /\ \A x \in {} : v[x] \in Int
    BY FS_EmptySet
<1>4. PICK F : Sums(F, v, {})
    BY <1>3, SumsExist
<1>5. SumFunctionOnSet(v, {}) = F[{}]
    BY <1>3, <1>4, SumIs
<1>6. F[{}] = 0
    BY <1>4 DEF Sums
<1> QED
    BY <1>1, <1>2, <1>5, <1>6 DEF Total

\* The empty book is in order, true and adds up.
LEMMA EmptyTrue ==
    /\ EmptyBook \in [Sides -> Seq(LevelSet)] /\ NoQuantity \in [Sides -> [Prices -> Nat]]
    /\ AllGood(EmptyBook) /\ BookTrue(EmptyBook, NoQuantity, {})
    /\ [r \in Refs |-> NoOrder] \in [Refs -> AnOrder]
    /\ Tallied([r \in Refs |-> NoOrder], NoQuantity)
<1>1. \A s \in Sides : EmptyBook[s] = << >> /\ NoQuantity[s] = [p \in Prices |-> 0]
    BY DEF EmptyBook, NoQuantity
<1>2. EmptyBook \in [Sides -> Seq(LevelSet)] /\ NoQuantity \in [Sides -> [Prices -> Nat]]
  <2>1. << >> \in Seq(LevelSet)
      OBVIOUS
  <2> QED
      BY <2>1 DEF EmptyBook, NoQuantity
<1>3. AllGood(EmptyBook)
    BY <1>1, EmptySide DEF AllGood
<1>4. ASSUME NEW s \in Sides PROVE SideTrue(EmptyBook[s], NoQuantity[s], s, {})
  <2>1. Len(EmptyBook[s]) = 0
      BY <1>1, EmptySide
  <2>2. \A p \in Prices : NoQuantity[s][p] = 0
      BY <1>1
  <2> QED
      BY <2>1, <2>2 DEF SideTrue
<1>5. BookTrue(EmptyBook, NoQuantity, {})
    BY <1>3, <1>4 DEF BookTrue, AllGood
<1>6. [r \in Refs |-> NoOrder] \in [Refs -> AnOrder]
    BY DEF AnOrder
<1>7. Tallied([r \in Refs |-> NoOrder], NoQuantity)
  <2>1. PICK o : o = [r \in Refs |-> NoOrder]
      OBVIOUS
  <2>2. ASSUME NEW s \in Sides, NEW p \in Prices PROVE NoQuantity[s][p] = Total(o, s, p)
      BY <1>1, <2>1, NoTotal
  <2>3. Tallied(o, NoQuantity)
      BY <2>2 DEF Tallied
  <2> QED
      BY <2>1, <2>3
<1> QED
    BY <1>2, <1>3, <1>5, <1>6, <1>7

\* BKInv in the next state, from its parts.
LEMMA BKAfter ==
    ASSUME NEW f \in {"direct", "itch", "binance"}, NEW ld \in BOOLEAN, NEW a \in [Sides -> Seq(LevelSet)],
           NEW m \in [Sides -> [Prices -> Nat]], NEW l \in SUBSET Sides, NEW o \in [Refs -> AnOrder],
           NEW b \in [Sides -> {0} \cup Prices], NEW t \in [Sides -> ATicker],
           feed' = f, loaded' = ld, array' = a, maps' = m, lossy' = l, itch_orders' = o, bbo' = b, ticker' = t,
           AllGood(a), f # "binance" => BookTrue(a, m, l), f = "itch" => Tallied(o, m),
           (f = "binance" /\ ld = FALSE) => Ticked(a, b, t)
    PROVE  BKInv'
<1>1. BKTyped'
    BY DEF BKTyped, ATicker, AnOrder, NoOrder, Shares, LevelSet, Sides
<1>2. AllGood(array')
    BY Zenon
<1>3. feed' # "binance" => BookTrue(array', maps', lossy')
    BY Zenon
<1>4. feed' = "itch" => Tallied(itch_orders', maps')
    BY Zenon
<1>5. (feed' = "binance" /\ loaded' = FALSE) => Ticked(array', bbo', ticker')
    BY Zenon
<1> QED
    BY <1>1, <1>2, <1>3, <1>4, <1>5, Zenon DEF BKInv

\* The books begin empty.
LEMMA BKInitInv == BKInit => BKInv
<1> SUFFICES ASSUME BKInit PROVE BKInv
    OBVIOUS
<1>1. array = EmptyBook /\ maps = NoQuantity /\ lossy = {} /\ itch_orders = [r \in Refs |-> NoOrder]
    BY DEF BKInit
<1>2. bbo \in [Sides -> {0} \cup Prices] /\ \A s \in Sides : bbo[s] = 0
    BY DEF BKInit
<1>3. ticker \in [Sides -> ATicker] /\ \A s \in Sides : ticker[s].qty = 0
    BY DEF BKInit, ATicker, Level
<1>4. Ticked(array, bbo, ticker)
  <2>1. \A s \in Sides : array[s] = << >>
      BY <1>1 DEF EmptyBook
  <2> QED
      BY <1>2, <1>3, <2>1 DEF Ticked, TickSide
<1>5. feed \in {"direct", "itch", "binance"} /\ loaded \in BOOLEAN
    BY DEF BKInit
<1>6. BKTyped
    BY <1>1, <1>2, <1>3, <1>5, EmptyTrue DEF BKTyped
<1> QED
    BY <1>1, <1>4, <1>6, EmptyTrue DEF BKInv

\* update_bid and update_ask, also with a quantity that is not a number.
LEMMA UpdateKeeps ==
    ASSUME BKInv, NEW s \in Sides, NEW p \in Prices, NEW q \in Quantities, Update(s, p, q)
    PROVE  BKInv'
<1>1. BKTyped /\ feed = "direct" /\ BookTrue(array, maps, lossy)
    BY DEF BKInv, Update
<1>2. q \in Int
    BY DEF Quantities, NonFinite
<1>3. PICK a, m, l : /\ a = [array EXCEPT ![s] = update_side(array[s], s, p, q)]
                     /\ m = [maps EXCEPT ![s] = map_update(maps[s], p, q)]
                     /\ l = Losing(lossy, s, array[s], p, q)
    OBVIOUS
<1>4. array' = a /\ maps' = m /\ lossy' = l
    BY <1>3 DEF Update
<1>5. BookGood(a, m, l)
  <2>1. CASE q = NonFinite
    <3>1. GoodSide(array[s], s)
        BY <1>1 DEF BookTrue
    <3>2. update_side(array[s], s, p, q) = array[s]
        BY <1>2, <2>1, <3>1, UpdateSide
    <3>3. map_update(maps[s], p, q) = maps[s]
        BY <2>1 DEF map_update
    <3>4. l = lossy
        BY <1>3, <2>1 DEF Losing, Loses
    <3>5. a = array /\ m = maps
        BY <1>1, <1>3, <3>2, <3>3 DEF BKTyped
    <3> QED
        BY <1>1, <3>4, <3>5 DEF BookGood, BKTyped
  <2>2. CASE q # NonFinite
    <3>1. m = [maps EXCEPT ![s] = [maps[s] EXCEPT ![p] = Clamp(q)]]
        BY <1>3, <2>2 DEF map_update
    <3>2. a = [array EXCEPT ![s] = update_side(array[s], s, p, q)] /\ l = Losing(lossy, s, array[s], p, q)
        BY <1>3
    <3>3. array \in [Sides -> Seq(LevelSet)] /\ maps \in [Sides -> [Prices -> Nat]] /\ lossy \in SUBSET Sides
        BY <1>1 DEF BKTyped
    <3>4. BookTrue(array, maps, lossy)
        BY <1>1
    <3> QED
        BY <1>2, <2>2, <3>1, <3>2, <3>3, <3>4, BookUpdate, Zenon
  <2> QED
      BY <2>1, <2>2
<1>6. /\ a \in [Sides -> Seq(LevelSet)] /\ m \in [Sides -> [Prices -> Nat]] /\ l \in SUBSET Sides
      /\ BookTrue(a, m, l) /\ AllGood(a)
    BY <1>5 DEF BookGood, BookTrue, AllGood
<1>7. PICK f \in {"direct", "itch", "binance"}, ld \in BOOLEAN, o \in [Refs -> AnOrder],
           b \in [Sides -> {0} \cup Prices], t \in [Sides -> ATicker] :
          f = feed /\ ld = loaded /\ o = itch_orders /\ b = bbo /\ t = ticker
    BY <1>1 DEF BKTyped
<1>8. feed' = f /\ loaded' = ld /\ itch_orders' = o /\ bbo' = b /\ ticker' = t /\ f = "direct"
    BY <1>1, <1>7 DEF Update
<1>9. (f # "binance" => BookTrue(a, m, l)) /\ (f = "itch" => Tallied(o, m))
      /\ ((f = "binance" /\ ld = FALSE) => Ticked(a, b, t))
    BY <1>6, <1>8
<1> QED
    BY <1>4, <1>6, <1>8, <1>9, BKAfter

\* clear() empties both books and the adapter.
LEMMA ClearKeeps ==
    ASSUME BKInv, clear_book
    PROVE  BKInv'
<1>1. BKTyped /\ feed # "binance"
    BY DEF BKInv, clear_book
<1>2. PICK f \in {"direct", "itch", "binance"}, ld \in BOOLEAN,
           b \in [Sides -> {0} \cup Prices], t \in [Sides -> ATicker] :
          f = feed /\ ld = loaded /\ b = bbo /\ t = ticker
    BY <1>1 DEF BKTyped
<1>3. feed' = f /\ loaded' = ld /\ bbo' = b /\ ticker' = t /\ f # "binance"
    BY <1>1, <1>2 DEF clear_book
<1>4. PICK o : o = [r \in Refs |-> NoOrder]
    OBVIOUS
<1>5. array' = EmptyBook /\ maps' = NoQuantity /\ lossy' = {} /\ itch_orders' = o
    BY <1>4 DEF clear_book
<1>6. /\ EmptyBook \in [Sides -> Seq(LevelSet)] /\ NoQuantity \in [Sides -> [Prices -> Nat]]
      /\ AllGood(EmptyBook) /\ BookTrue(EmptyBook, NoQuantity, {}) /\ o \in [Refs -> AnOrder]
      /\ Tallied(o, NoQuantity) /\ {} \in SUBSET Sides
    BY <1>4, EmptyTrue
<1>7. (f # "binance" => BookTrue(EmptyBook, NoQuantity, {})) /\ (f = "itch" => Tallied(o, NoQuantity))
      /\ ((f = "binance" /\ ld = FALSE) => Ticked(EmptyBook, b, t))
    BY <1>3, <1>6
<1> QED
    BY <1>3, <1>5, <1>6, <1>7, BKAfter

\* The actions of the ITCH adapter keep the whole invariant.
LEMMA ItchInvKeeps ==
    ASSUME BKInv,
           \/ \E r \in Refs, s \in Sides, p \in Prices, q \in Shares : handle_add_order(r, s, p, q)
           \/ \E r \in Refs, q \in Shares : ReduceOrder(r, q)
           \/ \E r \in Refs : handle_order_delete(r)
           \/ \E r, n \in Refs, p \in Prices, q \in Shares : handle_order_replace(r, n, p, q)
    PROVE  BKInv'
<1>1. feed = "itch" /\ UNCHANGED <<feed, bbo, ticker, loaded>>
    BY Zenon DEF handle_add_order, ReduceOrder, handle_order_delete, handle_order_replace, SetState
<1>2. BKTyped
    BY DEF BKInv
<1>3. BKItch
    BY <1>1, <1>2 DEF BKItch, BKInv, BKTyped
<1>4. BKItch'
    BY <1>3, ItchKeeps, Zenon
<1>5. /\ array' \in [Sides -> Seq(LevelSet)] /\ maps' \in [Sides -> [Prices -> Nat]] /\ lossy' \in SUBSET Sides
      /\ itch_orders' \in [Refs -> AnOrder]
      /\ BookTrue(array', maps', lossy') /\ Tallied(itch_orders', maps')
    BY <1>4, Zenon DEF BKItch
<1>6. PICK f \in {"direct", "itch", "binance"}, ld \in BOOLEAN, a \in [Sides -> Seq(LevelSet)],
           m \in [Sides -> [Prices -> Nat]], l \in SUBSET Sides, o \in [Refs -> AnOrder],
           b \in [Sides -> {0} \cup Prices], t \in [Sides -> ATicker] :
          /\ f = feed' /\ ld = loaded' /\ a = array' /\ m = maps' /\ l = lossy' /\ o = itch_orders'
          /\ b = bbo' /\ t = ticker' /\ f = "itch"
    BY <1>1, <1>2, <1>5 DEF BKTyped
<1>7. BookTrue(a, m, l) /\ Tallied(o, m)
    BY <1>5, <1>6
<1>8. AllGood(a)
    BY <1>7 DEF AllGood, BookTrue
<1>9. (f # "binance" => BookTrue(a, m, l)) /\ (f = "itch" => Tallied(o, m))
      /\ ((f = "binance" /\ ld = FALSE) => Ticked(a, b, t))
    BY <1>6, <1>7
<1> QED
    BY <1>6, <1>8, <1>9, BKAfter

\* A ticker makes each side its own as long as no snapshot was loaded, and keeps
\* the order of the levels in any case.
LEMMA TickerKeeps ==
    ASSUME BKInv, NEW pb \in Prices, NEW pa \in Prices, NEW qb \in Shares, NEW qa \in Shares,
           update_from_ticker(pb, qb, pa, qa)
    PROVE  BKInv'
<1> DEFINE new(s) == IF s = "bid" THEN Level(pb, qb) ELSE Level(pa, qa)
           side(s) == update_side(Retire(array[s], s, new(s).price), s, new(s).price, new(s).qty)
<1>1. BKTyped /\ AllGood(array) /\ feed = "binance" /\ (loaded = FALSE => Ticked(array, bbo, ticker))
    BY DEF BKInv, update_from_ticker
<1>2. ASSUME NEW s \in Sides
      PROVE  /\ new(s) \in ATicker /\ new(s).price \in Prices /\ new(s).qty \in Nat
             /\ new(s) = Level(new(s).price, new(s).qty)
    BY DEF ATicker, Level, Shares
<1>3. /\ array' = [s \in Sides |-> side(s)] /\ bbo' = [s \in Sides |-> IF new(s).qty > 0 THEN new(s).price ELSE 0]
      /\ ticker' = [s \in Sides |-> new(s)]
    BY DEF update_from_ticker
<1> HIDE DEF new
<1>4. ASSUME NEW s \in Sides PROVE GoodSide(side(s), s)
  <2>1. PICK L : L = Retire(array[s], s, new(s).price)
      OBVIOUS
  <2>2. GoodSide(array[s], s)
      BY <1>1 DEF AllGood
  <2>3. GoodSide(L, s)
    <3>1. CASE L = array[s]
        BY <2>2, <3>1
    <3>2. CASE L # array[s]
      <4>1. bbo[s] # 0 /\ L = update_side(array[s], s, bbo[s], 0)
          BY <2>1, <3>2 DEF Retire
      <4>2. bbo[s] \in Prices
          BY <1>1, <4>1 DEF BKTyped
      <4>5. PICK p \in Prices : p = bbo[s]
          BY <4>2
      <4>3. PICK q \in Int : q = 0
          OBVIOUS
      <4>4. GoodSide(update_side(array[s], s, p, q), s)
          BY <2>2, UpdateSide
      <4> QED
          BY <4>1, <4>5, <4>3, <4>4
    <3> QED
        BY <3>1, <3>2
  <2>4. new(s).price \in Prices /\ new(s).qty \in Int
      BY <1>2
  <2>5. GoodSide(update_side(L, s, new(s).price, new(s).qty), s)
      BY <2>3, <2>4, UpdateSide
  <2> QED
      BY <2>1, <2>5
<1>5. ASSUME NEW s \in Sides, loaded = FALSE
      PROVE  side(s) = IF new(s).qty > 0 THEN <<new(s)>> ELSE << >>
  <2>1. PICK t \in ATicker : t = ticker[s]
      BY <1>1 DEF BKTyped
  <2>2. TickSide(array[s], bbo[s], t)
      BY <1>1, <1>5, <2>1 DEF Ticked
  <2>3. GoodSide(array[s], s)
      BY <1>1 DEF AllGood
  <2>4. PICK p \in Prices, q \in Nat : p = new(s).price /\ q = new(s).qty
      BY <1>2
  <2>5. update_side(Retire(array[s], s, p), s, p, q) = IF q > 0 THEN <<Level(p, q)>> ELSE << >>
      BY <2>2, <2>3, TickTrue DEF ATicker
  <2>6. Level(p, q) = new(s)
      BY <1>2, <2>4
  <2> QED
      BY <2>4, <2>5, <2>6
<1> HIDE DEF side
<1>6. PICK a : a = [s \in Sides |-> side(s)]
    OBVIOUS
<1>7. AllGood(a) /\ a \in [Sides -> Seq(LevelSet)]
  <2>1. \A s \in Sides : side(s) \in Seq(LevelSet)
      BY <1>4 DEF GoodSide
  <2> QED
      BY <1>4, <1>6, <2>1 DEF AllGood
<1>8. PICK b : b = [s \in Sides |-> IF new(s).qty > 0 THEN new(s).price ELSE 0]
    OBVIOUS
<1>9. b \in [Sides -> {0} \cup Prices]
    BY <1>2, <1>8
<1>10. PICK t : t = [s \in Sides |-> new(s)]
    OBVIOUS
<1>11. t \in [Sides -> ATicker]
    BY <1>2, <1>10
<1>12. ASSUME loaded = FALSE PROVE Ticked(a, b, t)
  <2> SUFFICES ASSUME NEW s \in Sides PROVE TickSide(a[s], b[s], t[s])
      BY DEF Ticked
  <2>1. a[s] = IF new(s).qty > 0 THEN <<new(s)>> ELSE << >>
      BY <1>5, <1>6, <1>12
  <2>2. t[s] = new(s) /\ b[s] = IF new(s).qty > 0 THEN new(s).price ELSE 0
      BY <1>8, <1>10
  <2> QED
      BY <1>2, <2>1, <2>2 DEF TickSide
<1>13. PICK f \in {"direct", "itch", "binance"}, ld \in BOOLEAN, m \in [Sides -> [Prices -> Nat]],
            l \in SUBSET Sides, o \in [Refs -> AnOrder] :
          f = feed /\ ld = loaded /\ o = itch_orders /\ m = maps /\ l = lossy
    BY <1>1 DEF BKTyped
<1>14. feed' = f /\ loaded' = ld /\ itch_orders' = o /\ maps' = m /\ lossy' = l /\ f = "binance"
    BY <1>1, <1>13 DEF update_from_ticker
<1>15. array' = a /\ bbo' = b /\ ticker' = t
    BY <1>3, <1>6, <1>8, <1>10
<1>16. (f # "binance" => BookTrue(a, m, l)) /\ (f = "itch" => Tallied(o, m))
       /\ ((f = "binance" /\ ld = FALSE) => Ticked(a, b, t))
    BY <1>12, <1>13, <1>14
<1> QED
    BY <1>7, <1>9, <1>11, <1>14, <1>15, <1>16, BKAfter

\* load_snapshot.
LEMMA LoadKeeps ==
    ASSUME BKInv, NEW bids \in Snapshots, NEW asks \in Snapshots, load_snapshot(bids, asks)
    PROVE  BKInv'
<1> DEFINE side(s) == LoadAll(IF s = "bid" THEN bids ELSE asks, s)
<1>1. BKTyped /\ feed = "binance"
    BY DEF BKInv, load_snapshot
<1>2. \A s \in Sides : GoodSide(side(s), s)
    BY SnapshotsAreLists, LoadGood
<1>3. array' = [s \in Sides |-> side(s)] /\ bbo' = [s \in Sides |-> 0]
      /\ ticker' = [s \in Sides |-> Level(0, 0)] /\ loaded' = TRUE
    BY DEF load_snapshot
<1> HIDE DEF side
<1>4. PICK a, b, t : a = [s \in Sides |-> side(s)] /\ b = [s \in Sides |-> 0] /\ t = [s \in Sides |-> Level(0, 0)]
    OBVIOUS
<1>5. AllGood(a) /\ a \in [Sides -> Seq(LevelSet)]
  <2>1. \A s \in Sides : side(s) \in Seq(LevelSet)
      BY <1>2 DEF GoodSide
  <2> QED
      BY <1>2, <1>4, <2>1 DEF AllGood
<1>6. b \in [Sides -> {0} \cup Prices] /\ t \in [Sides -> ATicker]
  <2>1. Level(0, 0) \in ATicker
      BY DEF Level, ATicker
  <2> QED
      BY <1>4, <2>1
<1>7. PICK f \in {"direct", "itch", "binance"}, ld \in BOOLEAN, m \in [Sides -> [Prices -> Nat]],
           l \in SUBSET Sides, o \in [Refs -> AnOrder] :
          f = feed /\ ld = TRUE /\ o = itch_orders /\ m = maps /\ l = lossy
    BY <1>1 DEF BKTyped
<1>8. feed' = f /\ loaded' = ld /\ itch_orders' = o /\ maps' = m /\ lossy' = l /\ f = "binance"
    BY <1>1, <1>3, <1>7 DEF load_snapshot
<1>9. array' = a /\ bbo' = b /\ ticker' = t
    BY <1>3, <1>4
<1>10. (f # "binance" => BookTrue(a, m, l)) /\ (f = "itch" => Tallied(o, m))
       /\ ((f = "binance" /\ ld = FALSE) => Ticked(a, b, t))
    BY <1>7, <1>8
<1> QED
    BY <1>5, <1>6, <1>8, <1>9, <1>10, BKAfter

\* No step leaves the invariant.
LEMMA BKNextInv == BKInv /\ [BKNext]_bkvars => BKInv'
<1> SUFFICES ASSUME BKInv, [BKNext]_bkvars PROVE BKInv'
    OBVIOUS
<1>1. CASE UNCHANGED bkvars
  <2>1. /\ feed' = feed /\ array' = array /\ maps' = maps /\ itch_orders' = itch_orders /\ lossy' = lossy
        /\ bbo' = bbo /\ ticker' = ticker /\ loaded' = loaded
      BY <1>1 DEF bkvars
  <2>2. BKTyped'
      BY <2>1 DEF BKTyped, BKInv, ATicker, AnOrder, NoOrder, Shares, LevelSet, Sides
  <2>3. /\ AllGood(array') /\ (feed' # "binance" => BookTrue(array', maps', lossy'))
        /\ (feed' = "itch" => Tallied(itch_orders', maps'))
        /\ ((feed' = "binance" /\ loaded' = FALSE) => Ticked(array', bbo', ticker'))
      BY <2>1 DEF BKInv
  <2> QED
      BY <2>2, <2>3, Zenon DEF BKInv
<1>2. CASE \E s \in Sides, p \in Prices, q \in Quantities : Update(s, p, q)
    BY <1>2, UpdateKeeps
<1>3. CASE clear_book
    BY <1>3, ClearKeeps
<1>4. CASE \/ \E r \in Refs, s \in Sides, p \in Prices, q \in Shares : handle_add_order(r, s, p, q)
           \/ \E r \in Refs, q \in Shares : ReduceOrder(r, q)
           \/ \E r \in Refs : handle_order_delete(r)
           \/ \E r, n \in Refs, p \in Prices, q \in Shares : handle_order_replace(r, n, p, q)
    BY <1>4, ItchInvKeeps
<1>5. CASE \E pb, pa \in Prices, qb, qa \in Shares : update_from_ticker(pb, qb, pa, qa)
    BY <1>5, TickerKeeps
<1>6. CASE \E b \in Snapshots, a \in Snapshots : load_snapshot(b, a)
    BY <1>6, LoadKeeps
<1> QED
    BY <1>1, <1>2, <1>3, <1>4, <1>5, <1>6 DEF BKNext

\* The invariant says what the runs check.
LEMMA BKInvTrue == BKInv => BooksTrue
<1> SUFFICES ASSUME BKInv PROVE BooksTrue
    OBVIOUS
<1>1. BKTyped /\ AllGood(array)
    BY DEF BKInv
<1>2. ASSUME NEW s \in Sides
      PROVE  /\ GoodSide(array[s], s) /\ array[s] \in Seq(LevelSet) /\ Len(array[s]) \in Nat
             /\ DOMAIN array[s] = 1..Len(array[s]) /\ Len(array[s]) <= MaxLevels
             /\ \A i \in 1..Len(array[s]) : array[s][i] \in LevelSet /\ array[s][i].price \in Prices
                                             /\ array[s][i].qty \in Nat \ {0}
  <2>1. GoodSide(array[s], s) /\ array[s] \in Seq(LevelSet) /\ Len(array[s]) <= MaxLevels
      BY <1>1 DEF AllGood, GoodSide
  <2>2. \A l \in LevelSet : l.price \in Prices /\ l.qty \in Nat \ {0}
      BY DEF LevelSet
  <2>3. \A i \in 1..Len(array[s]) : array[s][i] \in LevelSet
      BY <2>1
  <2> QED
      BY <2>1, <2>2, <2>3
<1>3. BKTypeOK
  <2>1. ASSUME NEW s \in Sides
        PROVE  /\ Len(array[s]) <= MaxLevels /\ Range(array[s]) \subseteq [price : Prices, qty : Nat \ {0}]
               /\ bbo[s] \in {0} \cup Prices
    <3>1. Range(array[s]) = {array[s][i] : i \in 1..Len(array[s])}
        BY <1>2 DEF Range
    <3>2. Range(array[s]) \subseteq LevelSet
        BY <1>2, <3>1
    <3> QED
        BY <1>1, <1>2, <3>2 DEF LevelSet, BKTyped
  <2>2. ASSUME NEW r \in Refs
        PROVE  itch_orders[r] = NoOrder \/ itch_orders[r] \in [side : Sides, price : Prices, qty : Shares]
      BY <1>1 DEF BKTyped, AnOrder
  <2> QED
      BY <1>1, <2>1, <2>2 DEF BKTypeOK, BKTyped
<1>4. LevelsSorted
    BY <1>2 DEF LevelsSorted, GoodSide, Sorted
<1>5. LevelsTrue
  <2> SUFFICES ASSUME feed # "binance", NEW s \in Sides
               PROVE  /\ \A i \in DOMAIN array[s] : array[s][i].qty = maps[s][array[s][i].price]
                      /\ s \notin lossy => {array[s][i].price : i \in DOMAIN array[s]} = {p \in Prices : maps[s][p] > 0}
      BY DEF LevelsTrue
  <2>1. SideTrue(array[s], maps[s], s, lossy)
      BY DEF BKInv, BookTrue
  <2>2. \A i \in 1..Len(array[s]) : array[s][i].qty = maps[s][array[s][i].price]
      BY <2>1 DEF SideTrue
  <2>3. ASSUME s \notin lossy
        PROVE  {array[s][i].price : i \in DOMAIN array[s]} = {p \in Prices : maps[s][p] > 0}
    <3>1. ASSUME NEW p \in {array[s][i].price : i \in DOMAIN array[s]} PROVE p \in Prices /\ maps[s][p] > 0
        BY <1>2, <2>2
    <3>2. ASSUME NEW p \in Prices, maps[s][p] > 0 PROVE p \in {array[s][i].price : i \in DOMAIN array[s]}
      <4>1. PICK i \in 1..Len(array[s]) : array[s][i].price = p
          BY <2>1, <2>3, <3>2 DEF SideTrue
      <4> QED
          BY <1>2, <4>1
    <3> QED
        BY <3>1, <3>2
  <2> QED
      BY <1>2, <2>2, <2>3
<1>6. TotalsFollowOrders
    BY DEF TotalsFollowOrders, BKInv, Tallied
<1>7. TickerOnlyBook
  <2> SUFFICES ASSUME feed = "binance", ~loaded, NEW s \in Sides
               PROVE  array[s] = IF ticker[s].qty > 0 THEN <<ticker[s]>> ELSE << >>
      BY DEF TickerOnlyBook
  <2>1. loaded = FALSE
      BY <1>1 DEF BKTyped
  <2>2. TickSide(array[s], bbo[s], ticker[s])
      BY <2>1 DEF BKInv, Ticked
  <2> QED
      BY <2>2 DEF TickSide
<1>8. MidLeansToDemand
  <2> SUFFICES ASSUME array["bid"] # << >>, array["ask"] # << >>, Best("bid").price < Best("ask").price
               PROVE  (2 * weighted_num > (Best("bid").price + Best("ask").price) * weighted_den
                          <=> Best("bid").qty > Best("ask").qty)
      BY DEF MidLeansToDemand
  <2>1. ASSUME NEW s \in Sides, array[s] # << >> PROVE Best(s).price \in Nat /\ Best(s).qty \in Nat
    <3>1. Len(array[s]) # 0
        BY <1>2, <2>1
    <3>2. 1 \in 1..Len(array[s])
        BY <1>2, <3>1
    <3> QED
        BY <1>2, <3>2 DEF Best
  <2>2. "bid" \in Sides /\ "ask" \in Sides
      BY DEF Sides
  <2>3. PICK a \in Nat, b \in Nat, x \in Nat, y \in Nat :
            a = Best("bid").price /\ b = Best("ask").price /\ x = Best("bid").qty /\ y = Best("ask").qty
      BY <2>1, <2>2
  <2>4. weighted_num = a * y + b * x /\ weighted_den = x + y
      BY <2>3 DEF weighted_num, weighted_den
  <2>5. 2 * (a * y + b * x) > (a + b) * (x + y) <=> x > y
      BY <2>3, MidTrue
  <2> QED
      BY <2>3, <2>4, <2>5
<1> QED
    BY <1>3, <1>4, <1>5, <1>6, <1>7, <1>8 DEF BooksTrue

\* The books show what the feed said, for any number of levels, prices, quantities
\* and references: sorted sides without a quantity that is not there (ArrayBook
\* against MapBook), totals that are those of the live orders (ITCH), a book that is
\* the last ticker (Binance), and a midpoint that leans to the demand.
THEOREM BooksAlwaysTrue == BKSpec => []BooksTrue
<1>1. BKInit => BKInv
    BY BKInitInv
<1>2. BKInv /\ [BKNext]_bkvars => BKInv'
    BY BKNextInv
<1>3. BKInv => BooksTrue
    BY BKInvTrue
<1> QED
    BY <1>1, <1>2, <1>3, PTL DEF BKSpec

-----------------------------------------------------------------------------
(* KernelStream: the inductive invariant.                                  *)

Chunk == [msg : 0..MaxSends, whole : BOOLEAN, rec : Nat]
Start == FirstUnit - 1
Modes == [tls : BOOLEAN, ws : BOOLEAN, proxy : BOOLEAN, sink : BOOLEAN]
Sock == [conn : {"connecting", "up", "refused"}, arrived : Int, read : Int, fin : BOOLEAN, shut : BOOLEAN]
Upgrade == [sent : BOOLEAN, ct : Seq(Cells), buf : Seq(Cells)]

KSTyped ==
    /\ mode \in Modes /\ phase \in Handshaking \cup {"Established", "Failed"}
    /\ streamState \in {"SynSent", "Established", "FinWait1", "Closed"} /\ decoding \in BOOLEAN
    /\ rx \in Seq(Cells) /\ plain \in Seq(Cells) /\ Len(rx) <= RxCap
    /\ ws \in Upgrade /\ decSeq \in Nat /\ frames \in Seq(Int)
SockTyped == sock \in Sock /\ sock.read <= sock.arrived /\ sock.arrived <= Units

\* Nothing is delivered before the handshake is over, and it ends only once.
KSStages ==
    /\ streamState = "Established" => phase = "Established"
    /\ phase = "WsHandshaking" => mode.ws
    /\ decoding => phase = "Established" /\ mode.sink
    /\ phase # "Established" => rx = << >> /\ plain = << >> /\ frames = << >>
    /\ ~mode.sink => frames = << >> /\ plain = << >>

\* Without TLS, what the upgrade has read are the units up to the last one read.
PlainUpgrade ==
    ~mode.tls /\ phase \in Handshaking =>
        /\ ws.buf = UnitsFrom("pt", Start, Len(ws.buf))
        /\ sock.read = Start + Len(ws.buf)
        /\ ~mode.ws => ws.buf = << >>

\* Without TLS, the frames and the buffer behind them are the units up to the
\* last one read.
PlainChain ==
    ~mode.tls => /\ rx = UnitsFrom("pt", Len(frames), Len(rx))
                 /\ streamState = "Established" /\ mode.sink => sock.read = Len(frames) + Len(rx)

\* With TLS, what the upgrade has read is the plaintext of whole records.
TlsUpgrade ==
    mode.tls /\ phase \in Handshaking =>
        /\ Len(ws.buf) = decSeq * RecLen
        /\ \A i \in 1..Len(ws.buf) : ws.buf[i][1] = "pt"
        /\ ~mode.ws => decSeq = 0

\* With TLS, the frames and the plaintext behind them are the records opened; or
\* plaintext that the upgrade read too far is at the head of the ciphertext, where
\* no record will ever open.
Aligned == Len(frames) + Len(plain) = Start + decSeq * RecLen
Stuck == frames = << >> /\ plain = << >> /\ Len(rx) >= RecLen /\ rx[1][1] = "pt"
TlsChain ==
    mode.tls => /\ plain = UnitsFrom("pt", Len(frames), Len(plain))
                /\ phase = "Established" => Aligned \/ Stuck

KSReceiving ==
    KSTyped /\ SockTyped /\ KSStages /\ PlainUpgrade /\ PlainChain /\ TlsUpgrade /\ TlsChain /\ FramesInOrder

SendTyped == corrupt \in BOOLEAN /\ encSeq \in Nat /\ wire \in Seq(Chunk) /\ report \in [Messages -> Statuses]

\* Messages are sent in order; one not reported on is not on the wire.
InTurn ==
    /\ \E k \in 0..MaxSends : \A m \in Messages : report[m] # "none" <=> m <= k
    /\ \A m \in Messages : report[m] = "none" => ~Reported(m)

\* The record numbers run with the wire until something failed.
NumbersRun ==
    mode.tls /\ ~corrupt => /\ encSeq = Len(wire)
                            /\ \A i \in DOMAIN wire : wire[i].whole

KSSending == mode \in Modes /\ SendTyped /\ InTurn /\ NumbersRun /\ TlsWireIntact /\ TlsUnsentIsUnsent
KSAside == {attached, expired, dead} \subseteq BOOLEAN /\ interest \subseteq {"in", "out"}
KSInv == KSReceiving /\ KSSending /\ KSAside
-----------------------------------------------------------------------------
(* KernelStream: receiving.                                                *)

\* What the constants are, and where the units begin.
LEMMA KSConstants ==
    /\ Units \in Nat /\ FrameLen \in Nat \ {0} /\ RecLen \in Nat \ {0} /\ RxCap \in Nat /\ MaxSends \in Nat
    /\ (mode.ws => Start = -RecLen) /\ (~mode.ws => Start = 0)
BY KernelStreamAssumption DEF Start, FirstUnit

\* What process_records returns when d records have been read.
OpenedTrue(b, d, r) == OpensTo(b, Start + d * RecLen, RecLen, r)

\* process_records on any buffer of units.
LEMMA RecordsOpened ==
    ASSUME mode \in Modes, NEW b \in Seq(Cells), NEW d \in Nat
    PROVE  OpenedTrue(b, d, process_records(b, d))
<1>0. RecLen \in Nat \ {0} /\ Start \in Int /\ d * RecLen \in Nat
    BY KSConstants, MulGrows DEF Modes
<1>a. Len(b) \in Nat /\ Start + d * RecLen \in Int
    BY <1>0, LenProperties
<1>b. Len(b) \div RecLen \in Nat
    BY <1>0, <1>a, WholeParts
<1>1. PICK w \in Nat, n \in Nat, base \in Int : w = Len(b) /\ n = w \div RecLen /\ base = Start + d * RecLen
    BY <1>a, <1>b
<1>2. PICK r : r = process_records(b, d)
    OBVIOUS
<1>3. /\ r.n = n /\ r.pt = [i \in 1..(n * RecLen) |-> <<"pt", b[i][2]>>] /\ r.rest = SubSeq(b, n * RecLen + 1, w)
      /\ r.ok <=> \A k \in 0..(n - 1) : IsRecord(SubSeq(b, k * RecLen + 1, w), d + k)
    BY <1>1, <1>2 DEF process_records, WholeRecords
<1>4. \A k \in 0..(n - 1) : IsRecord(SubSeq(b, k * RecLen + 1, w), d + k) <=> RecordAt(b, k * RecLen, RecLen, base + k * RecLen)
  <2> SUFFICES ASSUME NEW k \in 0..(n - 1)
               PROVE  IsRecord(SubSeq(b, k * RecLen + 1, w), d + k) <=> RecordAt(b, k * RecLen, RecLen, base + k * RecLen)
      OBVIOUS
  <2>1. k \in Nat
      OBVIOUS
  <2>2. (d + k) * RecLen = d * RecLen + k * RecLen /\ k * RecLen \in Nat
      BY <1>0, <2>1, MulGrows
  <2>3. FirstUnit - 1 + (d + k) * RecLen = base + k * RecLen
      BY <1>0, <1>1, <2>2 DEF Start
  <2> QED
      BY <1>1, <2>3 DEF IsRecord, RecordAt
<1>5. r.ok <=> \A k \in 0..(n - 1) : RecordAt(b, k * RecLen, RecLen, base + k * RecLen)
    BY <1>3, <1>4
<1>6. OpensTo(b, base, RecLen, r)
    BY <1>0, <1>1, <1>3, <1>5, OpensRecords
<1> QED
    BY <1>1, <1>2, <1>6 DEF OpenedTrue

\* The socket, or the end of the stream, aside from its buffers.
LEMMA StreamAside ==
    ASSUME KSReceiving, UNCHANGED <<mode, phase, decoding, rx, plain, ws, decSeq, frames>>,
           streamState' \in {streamState, "FinWait1", "Closed"}, SockTyped',
           sock'.read = sock.read \/ (phase = "Established" /\ (streamState' # "Established" \/ ~mode.sink))
    PROVE  KSReceiving'
<1>0. Start' = Start
    BY DEF Start, FirstUnit
<1>1. KSTyped'
    BY DEF KSReceiving, KSTyped
<1>2. KSStages'
    BY DEF KSReceiving, KSStages
<1>3. PlainUpgrade'
    BY <1>0 DEF KSReceiving, PlainUpgrade, Handshaking
<1>4. PlainChain'
  <2>1. streamState' = "Established" => streamState = "Established"
      OBVIOUS
  <2> QED
      BY <2>1 DEF KSReceiving, PlainChain
<1>5. TlsUpgrade' /\ TlsChain' /\ FramesInOrder'
    BY <1>0 DEF KSReceiving, TlsUpgrade, TlsChain, FramesInOrder, Aligned, Stuck
<1> QED
    BY <1>1, <1>2, <1>3, <1>4, <1>5 DEF KSReceiving

\* A handshake that fails.
LEMMA HandshakeFails ==
    ASSUME KSReceiving, phase \in Handshaking, UNCHANGED <<mode, decoding, rx, plain, frames>>,
           phase' = "Failed", streamState' = "Closed", SockTyped', ws' \in Upgrade, decSeq' \in Nat
    PROVE  KSReceiving'
<1>1. phase # "Established" /\ phase' \notin Handshaking
    BY DEF Handshaking
<1>2. KSTyped'
    BY DEF KSReceiving, KSTyped
<1>3. KSStages'
    BY <1>1 DEF KSReceiving, KSStages
<1>4. PlainUpgrade' /\ TlsUpgrade'
    BY <1>1 DEF PlainUpgrade, TlsUpgrade, Handshaking
<1>5. PlainChain' /\ TlsChain' /\ FramesInOrder'
    BY DEF KSReceiving, PlainChain, TlsChain, FramesInOrder
<1> QED
    BY <1>2, <1>3, <1>4, <1>5 DEF KSReceiving

\* A handshake that goes on, with what the upgrade has.
LEMMA HandshakeGoes ==
    ASSUME KSReceiving, phase \in Handshaking, UNCHANGED <<mode, decoding, rx, plain, frames, streamState>>,
           phase' \in Handshaking, phase' = "WsHandshaking" => mode.ws, SockTyped', ws' \in Upgrade, decSeq' \in Nat, PlainUpgrade', TlsUpgrade'
    PROVE  KSReceiving'
<1>1. phase # "Established" /\ phase' # "Established"
    BY DEF Handshaking
<1>2. KSTyped'
    BY DEF KSReceiving, KSTyped
<1>3. KSStages'
    BY <1>1 DEF KSReceiving, KSStages
<1>4. streamState # "Established"
    BY <1>1 DEF KSReceiving, KSStages
<1>5. PlainChain' /\ TlsChain' /\ FramesInOrder'
    BY <1>1, <1>4 DEF KSReceiving, PlainChain, TlsChain, FramesInOrder
<1> QED
    BY <1>2, <1>3, <1>5 DEF KSReceiving

\* The upgrade's state at rest.
LEMMA UpgradeRests ==
    ASSUME KSReceiving, phase \in Handshaking, UNCHANGED <<mode, sock, decSeq>>, ws'.buf = ws.buf
    PROVE  PlainUpgrade' /\ TlsUpgrade' /\ SockTyped'
<1>0. Start' = Start
    BY DEF Start, FirstUnit
<1> QED
    BY <1>0 DEF KSReceiving, PlainUpgrade, TlsUpgrade, SockTyped

\* A handshake that is over, with the buffer the stream starts from.
LEMMA HandshakeOver ==
    ASSUME KSReceiving, phase \in Handshaking, UNCHANGED <<mode, decoding, plain, frames>>,
           phase' = "Established", streamState' = "Established", SockTyped', ws' \in Upgrade, decSeq' \in Nat,
           rx' \in Seq(Cells), Len(rx') <= RxCap,
           ~mode.tls => rx' = UnitsFrom("pt", 0, Len(rx')) /\ sock'.read = Len(rx'),
           mode.tls => \/ Start + decSeq' * RecLen = 0
                       \/ Len(rx') >= RecLen /\ rx'[1][1] = "pt"
    PROVE  KSReceiving'
<1>1. phase # "Established" /\ phase' \notin Handshaking
    BY DEF Handshaking
<1>2. plain = << >> /\ frames = << >> /\ ~decoding /\ plain' = << >> /\ frames' = << >> /\ decoding' = decoding
    BY <1>1 DEF KSReceiving, KSStages
<1>3. Start' = Start /\ Len(frames') = 0 /\ Len(plain') = 0 /\ RecLen \in Nat
    BY <1>2, KSConstants DEF Start, FirstUnit
<1>4. KSTyped'
    BY DEF KSReceiving, KSTyped
<1>5. KSStages'
    BY <1>2 DEF KSReceiving, KSStages
<1>6. PlainUpgrade' /\ TlsUpgrade'
    BY <1>1 DEF PlainUpgrade, TlsUpgrade, Handshaking
<1>7. PlainChain'
  <2>1. Len(rx') \in Nat
      BY LenProperties
  <2> QED
      BY <1>3, <2>1 DEF PlainChain
<1>8. TlsChain'
  <2>1. plain' = UnitsFrom("pt", 0, 0)
      BY <1>2, NoUnits
  <2>2. mode'.tls => Aligned' \/ Stuck'
      BY <1>2, <1>3 DEF Aligned, Stuck
  <2> QED
      BY <1>3, <2>1, <2>2 DEF TlsChain
<1>9. FramesInOrder'
    BY <1>2 DEF FramesInOrder
<1> QED
    BY <1>4, <1>5, <1>6, <1>7, <1>8, <1>9 DEF KSReceiving

\* What recv may return.
InTrue(in, room) ==
    /\ in \in Seq(Cells) /\ in = UnitsFrom(Kind, sock.read, Len(in)) /\ Len(in) \in Nat
    /\ Len(in) <= room /\ sock.read + Len(in) <= sock.arrived

\* What recv returns are the units behind the last one read.
LEMMA ReceivedUnits ==
    ASSUME SockTyped, mode \in Modes, NEW room \in Nat
    PROVE  InTrue(Received(room), room)
<1>1. PICK r \in Int, a \in Int : r = sock.read /\ a = sock.arrived /\ r <= a
    BY DEF SockTyped, Sock
<1>2. PICK n \in Nat : n = (IF Unread < room THEN Unread ELSE room) /\ n <= room /\ r + n <= a
    BY <1>1 DEF Unread
<1>3. Kind \in {"ct", "pt"}
    BY DEF Kind
<1>4. Received(room) = UnitsFrom(Kind, r, n)
    BY <1>1, <1>2 DEF Received, NextUnits, UnitsFrom
<1>5. Received(room) \in Seq(Cells) /\ Len(Received(room)) = n
  <2>1. UnitsFrom(Kind, r, n) \in Seq(Cells) /\ Len(UnitsFrom(Kind, r, n)) = n
      BY <1>3, UnitsTyped
  <2> QED
      BY <1>4, <2>1
<1> QED
    BY <1>1, <1>2, <1>4, <1>5 DEF InTrue

\* The socket behind a read.
LEMMA SockAdvances ==
    ASSUME SockTyped, NEW n \in Nat, sock.read + n <= sock.arrived, sock' = ReadSock(n)
    PROVE  SockTyped' /\ sock'.read = sock.read + n
BY DEF SockTyped, Sock, ReadSock

\* What the upgrade reads without TLS.
LEMMA PlainUpgradeReads ==
    ASSUME KSReceiving, phase = "WsHandshaking", ~mode.tls, NEW in, InTrue(in, Unread), NEW buf, IsJoin(buf, ws.buf, in)
    PROVE  /\ buf \in Seq(Cells) /\ buf = UnitsFrom("pt", Start, Len(buf)) /\ Len(buf) \in Nat
           /\ sock.read + Len(in) = Start + Len(buf) /\ Start = -RecLen
<1>0. Start = -RecLen /\ RecLen \in Nat \ {0}
    BY KSConstants DEF KSReceiving, KSStages
<1>1. PICK n \in Nat, m \in Nat : n = Len(ws.buf) /\ m = Len(in)
    BY LenProperties DEF KSReceiving, KSTyped, Upgrade, InTrue
<1>2. ws.buf = UnitsFrom("pt", Start, n) /\ sock.read = Start + n
    BY <1>1 DEF KSReceiving, PlainUpgrade, Handshaking
<1>3. in = UnitsFrom("pt", Start + n, m)
    BY <1>1, <1>2 DEF InTrue, Kind
<1>4. Start \in Int
    BY <1>0
<1>5. buf = UnitsFrom("pt", Start, n + m)
  <2>1. UnitsFrom("pt", Start, n) \o UnitsFrom("pt", Start + n, m) = UnitsFrom("pt", Start, n + m)
      BY <1>4, RunsJoin
  <2> QED
      BY <1>2, <1>3, <2>1 DEF IsJoin
<1>6. n + m \in Nat
    OBVIOUS
<1>7. buf \in Seq(Cells) /\ Len(buf) = n + m
    BY <1>4, <1>5, <1>6, UnitsTyped
<1>8. sock.read + Len(in) = Start + (n + m)
  <2>1. PICK a \in Int, x \in Int : a = Start /\ x = sock.read /\ x = a + n
      BY <1>2, <1>4
  <2>2. x + m = a + (n + m)
      BY <2>1
  <2> QED
      BY <1>1, <2>1, <2>2
<1> QED
    BY <1>0, <1>5, <1>6, <1>7, <1>8

\* And with TLS.
LEMMA TlsUpgradeReads ==
    ASSUME KSReceiving, phase = "WsHandshaking", mode.tls, NEW b, NEW r, OpenedTrue(b, decSeq, r),
           NEW buf, IsJoin(buf, ws.buf, r.pt)
    PROVE  /\ buf \in Seq(Cells) /\ Len(buf) = (decSeq + r.n) * RecLen /\ decSeq + r.n \in Nat
           /\ \A i \in 1..Len(buf) : buf[i][1] = "pt"
<1>0. RecLen \in Nat \ {0} /\ decSeq \in Nat /\ r.n \in Nat
    BY KSConstants DEF KSReceiving, KSTyped, OpenedTrue, OpensTo
<1>1. PICK n \in Nat, m \in Nat : n = Len(ws.buf) /\ m = Len(r.pt) /\ n = decSeq * RecLen /\ m = r.n * RecLen
    BY LenProperties DEF KSReceiving, KSTyped, Upgrade, OpenedTrue, OpensTo, TlsUpgrade, Handshaking
<1>2. n + m = (decSeq + r.n) * RecLen
    BY <1>0, <1>1, MulGrows
<1>3. AllPt(ws.buf) /\ AllPt(r.pt)
    BY DEF KSReceiving, KSTyped, Upgrade, OpenedTrue, OpensTo, AllPt, TlsUpgrade, Handshaking
<1>4. AllPt(buf) /\ Len(buf) = n + m
    BY <1>1, <1>3, PtJoins DEF IsJoin
<1> QED
    BY <1>0, <1>2, <1>4 DEF AllPt

\* The upgrade reads, and ends or waits for more.
LEMMA UpgradeReadKeeps ==
    ASSUME KSReceiving, phase = "WsHandshaking", UNCHANGED <<mode, decoding, plain, frames>>, UpgradeRead
    PROVE  KSReceiving'
<1>0. RecLen \in Nat \ {0} /\ mode \in Modes /\ SockTyped /\ decSeq \in Nat /\ ws \in Upgrade /\ phase \in Handshaking
      /\ rx = << >> /\ mode.ws /\ RxCap \in Nat
    BY KSConstants DEF KSReceiving, KSTyped, KSStages, Handshaking
<1>1. PICK in, rec, buf : in = Received(Unread) /\ rec = SinkRecv(in) /\ buf = ws.buf \o rec.pt
    OBVIOUS
<1>2. InTrue(in, Unread)
  <2>1. Unread \in Nat
      BY <1>0 DEF Unread, SockTyped, Sock
  <2> QED
      BY <1>0, <1>1, <2>1, ReceivedUnits
<1>3. SockTyped' /\ sock'.read = sock.read + Len(in)
  <2>1. sock' = ReadSock(Len(in))
      BY <1>1 DEF UpgradeRead
  <2> QED
      BY <1>0, <1>2, <2>1, SockAdvances DEF InTrue
<1>a. rec.pt \in Seq(Cells)
  <2>1. CASE mode.tls
    <3>1. ws.ct \o in \in Seq(Cells)
        BY <1>0, <1>2, ConcatProperties DEF Upgrade, InTrue
    <3>2. OpenedTrue(ws.ct \o in, decSeq, rec)
        BY <1>0, <1>1, <2>1, <3>1, RecordsOpened DEF SinkRecv
    <3> QED
        BY <3>2 DEF OpenedTrue, OpensTo
  <2>2. CASE ~mode.tls
      BY <1>1, <1>2, <2>2 DEF SinkRecv, InTrue
  <2> QED
      BY <2>1, <2>2
<1>b. PICK n \in Nat : buf \in Seq(Cells) /\ n = Len(buf)
  <2>1. buf \in Seq(Cells)
      BY <1>0, <1>1, <1>a, ConcatProperties DEF Upgrade
  <2> QED
      BY <2>1, LenProperties
<1>c. RecLen \in Nat /\ RecLen > 0
    BY <1>0
<1>d. n >= RecLen => /\ Leftover(buf) \in Seq(Cells) /\ Len(Leftover(buf)) = n - RecLen
                     /\ \A i \in 1..(n - RecLen) : Leftover(buf)[i] = buf[RecLen + i]
  <2> HAVE n >= RecLen
  <2>1. RecLen <= n
      BY <1>c
  <2> QED
      BY <1>b, <1>c, <2>1, TailOf DEF Leftover
<1>4. /\ decSeq' = decSeq + rec.n /\ ws' = [ws EXCEPT !.ct = rec.rest, !.buf = buf]
      /\ \/ n < RecLen /\ rx' = rx /\ (fail_handshake \/ UNCHANGED <<phase, streamState>>)
         \/ fail_handshake /\ rx' = rx
         \/ n >= RecLen /\ Len(Leftover(buf)) <= RxCap /\ rx' = rx \o Leftover(buf) /\ become_established
  <2>1. CASE n < RecLen
      BY <1>1, <1>b, <2>1 DEF UpgradeRead
  <2>2. CASE n >= RecLen
    <3>0. ~(Len(buf) < RecLen)
        BY <1>b, <1>c, <2>2
    <3>1. \/ fail_handshake /\ rx' = rx
          \/ ~(Len(Leftover(buf)) > RxCap) /\ rx' = rx \o Leftover(buf) /\ become_established
        BY <1>1, <3>0 DEF UpgradeRead
    <3>2. decSeq' = decSeq + rec.n /\ ws' = [ws EXCEPT !.ct = rec.rest, !.buf = buf]
        BY <1>1 DEF UpgradeRead
    <3>3. Len(Leftover(buf)) \in Int /\ RxCap \in Nat
        BY <1>0, <1>c, <1>d, <2>2
    <3> QED
        BY <2>2, <3>1, <3>2, <3>3
  <2> QED
      BY <1>c, <2>1, <2>2
<1>e. ws.sent \in BOOLEAN
    BY <1>0 DEF Upgrade
<1>5. CASE ~mode.tls
  <2>1. rec.n = 0 /\ rec.pt = in /\ rec.rest = << >> /\ buf = ws.buf \o in
      BY <1>1, <1>5 DEF SinkRecv
  <2>2. /\ buf \in Seq(Cells) /\ buf = UnitsFrom("pt", Start, Len(buf)) /\ Len(buf) \in Nat
        /\ sock.read + Len(in) = Start + Len(buf) /\ Start = -RecLen
      BY <1>2, <1>5, <2>1, PlainUpgradeReads DEF IsJoin
  <2>3. ws' \in Upgrade /\ ws'.buf = buf /\ decSeq' \in Nat
    <3>1. decSeq' = decSeq + 0 /\ ws' = [ws EXCEPT !.ct = << >>, !.buf = buf]
        BY <1>4, <2>1
    <3>2. << >> \in Seq(Cells)
        OBVIOUS
    <3>3. decSeq' \in Nat
        BY <1>0, <3>1
    <3> QED
        BY <1>0, <1>b, <3>1, <3>2, <3>3 DEF Upgrade
  <2>4. PlainUpgrade'
    <3>1. Start' = Start
        BY DEF Start, FirstUnit
    <3> QED
        BY <1>0, <1>3, <2>2, <2>3, <3>1 DEF PlainUpgrade
  <2>5. TlsUpgrade'
      BY <1>5 DEF TlsUpgrade
  <2>6. CASE fail_handshake /\ rx' = rx
      BY <1>0, <1>3, <2>3, <2>6, HandshakeFails DEF fail_handshake
  <2>7. CASE rx' = rx /\ UNCHANGED <<phase, streamState>>
      BY <1>0, <1>3, <2>3, <2>4, <2>5, <2>7, HandshakeGoes
  <2>8. CASE n >= RecLen /\ Len(Leftover(buf)) <= RxCap /\ rx' = rx \o Leftover(buf) /\ become_established
    <3>1. RecLen \in 0..n /\ n = Len(buf)
        BY <1>b, <1>c, <2>8
    <3>2. Leftover(buf) = UnitsFrom("pt", Start + RecLen, n - RecLen)
      <4>1. Start \in Int
          BY <1>0, <2>2
      <4>2. buf = UnitsFrom("pt", Start, n)
          BY <2>2, <3>1
      <4>3. SubSeq(buf, RecLen + 1, n) = UnitsFrom("pt", Start + RecLen, n - RecLen)
          BY <3>1, <4>1, <4>2, TailOfRun
      <4> QED
          BY <3>1, <4>3 DEF Leftover
    <3>3. Start + RecLen = 0 /\ n - RecLen \in Nat
        BY <1>0, <2>2, <3>1
    <3>4. Leftover(buf) \in Seq(Cells) /\ Len(Leftover(buf)) = n - RecLen /\ Leftover(buf) = UnitsFrom("pt", 0, n - RecLen)
        BY <3>2, <3>3, UnitsTyped
    <3>5. rx' = Leftover(buf)
        BY <1>0, <2>8, <3>4, ConcatEmptySeq
    <3>6. sock'.read = n - RecLen
        BY <1>0, <1>3, <2>2, <3>1
    <3> QED
        BY <1>0, <1>3, <1>5, <2>3, <2>8, <3>4, <3>5, <3>6, HandshakeOver DEF become_established
  <2> QED
      BY <1>4, <2>6, <2>7, <2>8
<1>6. CASE mode.tls
  <2>0. ws.ct \o in \in Seq(Cells)
      BY <1>0, <1>2, ConcatProperties DEF Upgrade, InTrue
  <2>1. OpenedTrue(ws.ct \o in, decSeq, rec)
      BY <1>0, <1>1, <1>6, <2>0, RecordsOpened DEF SinkRecv
  <2>2. /\ buf \in Seq(Cells) /\ Len(buf) = (decSeq + rec.n) * RecLen /\ decSeq + rec.n \in Nat
        /\ \A i \in 1..Len(buf) : buf[i][1] = "pt"
      BY <1>1, <1>6, <2>1, TlsUpgradeReads DEF IsJoin
  <2>3. ws' \in Upgrade /\ ws'.buf = buf /\ decSeq' \in Nat
    <3>1. rec.rest \in Seq(Cells)
        BY <2>1 DEF OpenedTrue, OpensTo
    <3>2. decSeq' = decSeq + rec.n /\ ws' = [ws EXCEPT !.ct = rec.rest, !.buf = buf]
        BY <1>4
    <3> QED
        BY <1>0, <2>2, <3>1, <3>2 DEF Upgrade
  <2>4. TlsUpgrade'
    <3>1. decSeq' = decSeq + rec.n /\ ws'.buf = buf /\ mode' = mode
        BY <1>4, <2>3
    <3> QED
        BY <1>0, <2>2, <3>1 DEF TlsUpgrade
  <2>5. PlainUpgrade'
      BY <1>6 DEF PlainUpgrade
  <2>6. CASE fail_handshake /\ rx' = rx
      BY <1>0, <1>3, <2>3, <2>6, HandshakeFails DEF fail_handshake
  <2>7. CASE rx' = rx /\ UNCHANGED <<phase, streamState>>
      BY <1>0, <1>3, <2>3, <2>4, <2>5, <2>7, HandshakeGoes
  <2>8. CASE n >= RecLen /\ Len(Leftover(buf)) <= RxCap /\ rx' = rx \o Leftover(buf) /\ become_established
    <3>1. PICK d \in Nat : d = decSeq' /\ n = d * RecLen /\ n >= RecLen
      <4>1. decSeq' = decSeq + rec.n
          BY <1>4
      <4> QED
          BY <1>b, <2>2, <2>8, <4>1
    <3>2. Leftover(buf) \in Seq(Cells) /\ Len(Leftover(buf)) = n - RecLen
          /\ \A i \in 1..(n - RecLen) : Leftover(buf)[i] = buf[RecLen + i]
        BY <1>d, <2>8
    <3>a. PICK L \in Nat : L = RecLen /\ L > 0 /\ n = d * L /\ n >= L
        BY <1>c, <3>1
    <3>3. rx' = Leftover(buf)
        BY <1>0, <2>8, <3>2, ConcatEmptySeq
    <3>4. Start = -RecLen
        BY <1>0, KSConstants
    <3>5. CASE d <= 1
      <4>1. d = 1
        <5> SUFFICES ASSUME d = 0 PROVE FALSE
            BY <3>5
        <5>1. d * L = 0
            OBVIOUS
        <5> QED
            BY <3>a, <5>1
      <4>2. Start + decSeq' * RecLen = 0
          BY <1>0, <3>1, <3>4, <4>1
      <4> QED
          BY <1>0, <1>3, <1>6, <2>3, <2>8, <3>2, <3>3, <4>2, HandshakeOver DEF become_established
    <3>6. CASE d > 1
      <4>1. 1 * RecLen + RecLen <= d * RecLen
          BY <1>0, <3>6, MulGrows
      <4>2. n - RecLen >= RecLen /\ 1 \in 1..(n - RecLen) /\ RecLen + 1 \in 1..n
        <5>1. L + L <= n
            BY <3>a, <4>1
        <5>2. n - L >= L /\ 1 \in 1..(n - L) /\ L + 1 \in 1..n
            BY <3>a, <5>1
        <5> QED
            BY <3>a, <5>2
      <4>3. Leftover(buf)[1] = buf[RecLen + 1] /\ buf[RecLen + 1][1] = "pt"
          BY <1>b, <2>2, <3>2, <4>2
      <4>4. Len(rx') >= RecLen /\ rx'[1][1] = "pt"
          BY <3>2, <3>3, <4>2, <4>3
      <4> QED
          BY <1>0, <1>3, <1>6, <2>3, <2>8, <3>2, <3>3, <4>4, HandshakeOver DEF become_established
    <3> QED
        BY <3>5, <3>6
  <2> QED
      BY <1>4, <2>6, <2>7, <2>8
<1> QED
    BY <1>5, <1>6

\* After TLS, or without it.
LEMMA AfterTls ==
    ASSUME KSReceiving, phase \in Handshaking, UNCHANGED <<mode, decoding, rx, plain, frames, sock, ws, decSeq>>,
           advance_after_tls
    PROVE  KSReceiving'
<1>1. PlainUpgrade' /\ TlsUpgrade' /\ SockTyped'
    BY UpgradeRests
<1>2. ws' \in Upgrade /\ decSeq' \in Nat /\ phase # "Established"
    BY DEF KSReceiving, KSTyped, Handshaking
<1>3. CASE mode.ws
    BY <1>1, <1>2, <1>3, HandshakeGoes DEF advance_after_tls, EnterPhase, Handshaking
<1>4. CASE ~mode.ws
  <2>1. rx' = << >> /\ Start = 0 /\ RecLen \in Nat /\ RxCap \in Nat
      BY <1>2, <1>4, KSConstants DEF KSReceiving, KSStages
  <2>2. rx' \in Seq(Cells) /\ Len(rx') = 0 /\ rx' = UnitsFrom("pt", 0, 0)
      BY <2>1, NoUnits
  <2>3. ~mode.tls => sock'.read = 0
      BY <1>4, <2>1 DEF KSReceiving, PlainUpgrade
  <2>4. mode.tls => Start + decSeq' * RecLen = 0
      BY <1>4, <2>1 DEF KSReceiving, TlsUpgrade
  <2>5. phase' = "Established" /\ streamState' = "Established"
      BY <1>4 DEF advance_after_tls, become_established
  <2>6. Len(rx') <= RxCap
      BY <2>1, <2>2
  <2> QED
      BY <1>1, <1>2, <2>2, <2>3, <2>4, <2>5, <2>6, HandshakeOver
<1> QED
    BY <1>3, <1>4

\* A handshake that fails without reading.
LEMMA FailKeeps ==
    ASSUME KSReceiving, phase \in Handshaking, UNCHANGED <<mode, decoding, rx, plain, frames, sock, ws, decSeq>>,
           fail_handshake
    PROVE  KSReceiving'
<1>1. SockTyped' /\ ws' \in Upgrade /\ decSeq' \in Nat
    BY DEF KSReceiving, KSTyped, SockTyped
<1> QED
    BY <1>1, HandshakeFails DEF fail_handshake

\* The handshake behind the proxy: TLS, the upgrade, or the end.
LEMMA PastProxy ==
    ASSUME KSReceiving, phase \in Handshaking, UNCHANGED <<mode, decoding, rx, plain, frames, sock, ws, decSeq>>,
           AdvancePastProxy
    PROVE  KSReceiving'
<1>1. CASE advance_after_tls
    BY <1>1, AfterTls
<1>2. CASE fail_handshake
    BY <1>2, FailKeeps
<1>3. CASE EnterPhase("TlsHandshaking")
  <2>1. PlainUpgrade' /\ TlsUpgrade' /\ SockTyped' /\ ws' \in Upgrade /\ decSeq' \in Nat
      BY UpgradeRests DEF KSReceiving, KSTyped
  <2> QED
      BY <1>3, <2>1, HandshakeGoes DEF EnterPhase, Handshaking
<1> QED
    BY <1>1, <1>2, <1>3 DEF AdvancePastProxy

\* The CONNECT reply, and what is read with it.
LEMMA ProxyKeeps ==
    ASSUME KSReceiving, phase \in Handshaking, UNCHANGED <<mode, decoding, plain, frames, ws, decSeq>>,
           run_proxy_connect
    PROVE  KSReceiving'
<1>1. CASE fail_handshake /\ UNCHANGED <<rx, sock>>
    BY <1>1, FailKeeps
<1>2. CASE AdvancePastProxy /\ UNCHANGED <<rx, sock>>
    BY <1>2, PastProxy
<1>3. CASE /\ ~mode.tls /\ ~mode.ws /\ advance_after_tls
           /\ rx' = rx \o Received(RxCap) /\ sock' = ReadSock(Len(Received(RxCap)))
  <2>0. mode \in Modes /\ SockTyped /\ RxCap \in Nat /\ rx = << >> /\ Start = 0 /\ ws.buf = << >>
      BY <1>3, KSConstants DEF KSReceiving, KSTyped, KSStages, Handshaking, PlainUpgrade
  <2>1. PICK in : in = Received(RxCap)
      OBVIOUS
  <2>2. InTrue(in, RxCap)
      BY <2>0, <2>1, ReceivedUnits
  <2>3. SockTyped' /\ sock'.read = sock.read + Len(in)
      BY <1>3, <2>0, <2>1, <2>2, SockAdvances DEF InTrue
  <2>4. sock.read = 0
      BY <1>3, <2>0 DEF KSReceiving, PlainUpgrade
  <2>5. rx' = in
      BY <1>3, <2>0, <2>1, <2>2, ConcatEmptySeq DEF InTrue
  <2>6. rx' \in Seq(Cells) /\ Len(rx') <= RxCap /\ rx' = UnitsFrom("pt", 0, Len(rx')) /\ sock'.read = Len(rx')
      BY <1>3, <2>2, <2>3, <2>4, <2>5 DEF InTrue, Kind
  <2>7. phase' = "Established" /\ streamState' = "Established" /\ ws' \in Upgrade /\ decSeq' \in Nat
      BY <1>3 DEF advance_after_tls, become_established, KSReceiving, KSTyped
  <2> QED
      BY <1>3, <2>3, <2>6, <2>7, HandshakeOver
<1> QED
    BY <1>1, <1>2, <1>3 DEF run_proxy_connect

\* Every step of the handshake.
LEMMA StreamHandshakeKeeps ==
    ASSUME KSReceiving, drive_handshake
    PROVE  KSReceiving'
<1>0. phase \in Handshaking /\ UNCHANGED <<mode, decoding, plain, frames>>
    BY DEF drive_handshake
<1>1. CASE fail_handshake /\ UNCHANGED <<rx, sock, ws, decSeq>>
    BY <1>0, <1>1, FailKeeps
<1>2. CASE StepTcp
  <2>1. UNCHANGED <<ws, decSeq>>
      BY <1>2 DEF StepTcp
  <2>2. CASE fail_handshake /\ UNCHANGED <<rx, sock>>
      BY <1>0, <2>1, <2>2, FailKeeps
  <2>3. CASE run_proxy_connect
      BY <1>0, <2>1, <2>3, ProxyKeeps
  <2>4. CASE AdvancePastProxy /\ UNCHANGED <<rx, sock>>
      BY <1>0, <2>1, <2>4, PastProxy
  <2> QED
      BY <1>2, <2>2, <2>3, <2>4 DEF StepTcp
<1>3. CASE StepTls
  <2>1. UNCHANGED <<rx, sock, ws, decSeq>> /\ (advance_after_tls \/ fail_handshake)
      BY <1>3 DEF StepTls
  <2> QED
      BY <1>0, <2>1, FailKeeps, AfterTls
<1>4. CASE phase = "WsHandshaking" /\ UpgradeSend
  <2>1. UNCHANGED <<rx, sock, decSeq>>
      BY <1>4 DEF UpgradeSend
  <2>2. CASE fail_handshake /\ UNCHANGED ws
      BY <1>0, <2>1, <2>2, FailKeeps
  <2>3. CASE ws' = [ws EXCEPT !.sent = TRUE] /\ UNCHANGED <<phase, streamState>>
    <3>1. ws' \in Upgrade /\ ws'.buf = ws.buf /\ decSeq' \in Nat
        BY <2>1, <2>3 DEF KSReceiving, KSTyped, Upgrade
    <3>2. PlainUpgrade' /\ TlsUpgrade' /\ SockTyped'
        BY <1>0, <2>1, <3>1, UpgradeRests
    <3>3. mode.ws
        BY <1>4 DEF KSReceiving, KSStages
    <3> QED
        BY <1>0, <2>1, <2>3, <3>1, <3>2, <3>3, HandshakeGoes
  <2> QED
      BY <1>4, <2>2, <2>3 DEF UpgradeSend
<1>5. CASE phase = "WsHandshaking" /\ UpgradeRead
    BY <1>0, <1>5, UpgradeReadKeeps
<1> QED
    BY <1>1, <1>2, <1>3, <1>4, <1>5 DEF drive_handshake

\* drain_codec_ up to its loop.
LEMMA StartKeeps ==
    ASSUME KSReceiving, phase = "Established", streamState = "Established", mode.sink,
           UNCHANGED <<mode, phase, ws, frames>>, SockTyped', NEW b \in Seq(Cells), Len(b) <= RxCap,
           ~mode.tls => b = UnitsFrom("pt", Len(frames), Len(b)) /\ sock'.read = Len(frames) + Len(b),
           mode.tls /\ Stuck => Len(b) >= RecLen /\ b[1][1] = "pt",
           StartDecoding(b)
    PROVE  KSReceiving'
<1>0. mode \in Modes /\ decSeq \in Nat /\ RecLen \in Nat \ {0} /\ plain \in Seq(Cells) /\ frames \in Seq(Int) /\ Start \in Int
    BY KSConstants DEF KSReceiving, KSTyped, Modes
<1>1. Start' = Start /\ phase' \notin Handshaking /\ phase' = "Established" /\ mode' = mode
    BY DEF Start, FirstUnit, Handshaking
<1>2. PlainUpgrade' /\ TlsUpgrade'
    BY <1>1 DEF PlainUpgrade, TlsUpgrade, Handshaking
<1>3. FramesInOrder'
    BY DEF KSReceiving, FramesInOrder
<1>4. CASE ~mode.tls
  <2>1. rx' = b /\ decoding' = TRUE /\ UNCHANGED <<plain, decSeq, streamState>>
      BY <1>4 DEF StartDecoding
  <2>2. KSTyped'
      BY <2>1 DEF KSReceiving, KSTyped
  <2>3. KSStages'
      BY <1>1, <2>1 DEF KSReceiving, KSStages
  <2>4. PlainChain' /\ TlsChain'
      BY <1>4, <2>1 DEF PlainChain, TlsChain
  <2> QED
      BY <1>2, <1>3, <2>2, <2>3, <2>4 DEF KSReceiving
<1>5. CASE mode.tls
  <2>1. PICK rec : rec = process_records(b, decSeq)
      OBVIOUS
  <2>2. OpenedTrue(b, decSeq, rec)
      BY <1>0, <2>1, RecordsOpened
  <2>3. CASE rec.ok
    <3>1. rx' = rec.rest /\ plain' = plain \o rec.pt /\ decSeq' = decSeq + rec.n /\ decoding' = TRUE /\ UNCHANGED streamState
        BY <1>5, <2>1, <2>3 DEF StartDecoding
    <3>2. PICK f \in Nat, n \in Nat, m \in Nat, k \in Nat :
             f = Len(frames) /\ n = Len(plain) /\ k = rec.n /\ m = Len(rec.pt) /\ m = k * RecLen
        BY <1>0, <2>2, LenProperties DEF OpenedTrue, OpensTo
    <3>3. ~Stuck
        BY <1>5, <2>2, <2>3 DEF OpenedTrue, OpensTo
    <3>4. f + n = Start + decSeq * RecLen
        BY <1>5, <3>2, <3>3 DEF KSReceiving, TlsChain, Aligned
    <3>5. plain = UnitsFrom("pt", f, n)
        BY <1>5, <3>2 DEF KSReceiving, TlsChain
    <3>6. rec.pt = UnitsFrom("pt", f + n, m)
        BY <2>2, <2>3, <3>2, <3>4 DEF OpenedTrue, OpensTo
    <3>7. plain' = UnitsFrom("pt", f, n + m)
      <4>1. f \in Int
          OBVIOUS
      <4>2. UnitsFrom("pt", f, n) \o UnitsFrom("pt", f + n, m) = UnitsFrom("pt", f, n + m)
          BY <4>1, RunsJoin
      <4> QED
          BY <3>1, <3>5, <3>6, <4>2
    <3>8. plain' \in Seq(Cells) /\ Len(plain') = n + m
      <4>1. f \in Int /\ n + m \in Nat
          OBVIOUS
      <4> QED
          BY <3>7, <4>1, UnitsTyped
    <3>9. f + (n + m) = Start + decSeq' * RecLen
      <4>1. (decSeq + k) * RecLen = decSeq * RecLen + k * RecLen /\ decSeq * RecLen \in Nat
          BY <1>0, MulGrows
      <4>2. PICK x \in Nat, a \in Int : x = decSeq * RecLen /\ a = Start /\ f + n = a + x /\ decSeq' * RecLen = x + m
          BY <1>0, <3>1, <3>2, <3>4, <4>1
      <4>3. f + (n + m) = a + (x + m)
          BY <4>2
      <4> QED
          BY <4>2, <4>3
    <3>10. KSTyped'
      <4>1. Len(rx') <= RxCap /\ rx' \in Seq(Cells)
        <5>1. Len(rec.rest) <= Len(b) /\ rec.rest \in Seq(Cells)
            BY <2>2 DEF OpenedTrue, OpensTo
        <5>2. Len(rec.rest) \in Nat /\ Len(b) \in Nat /\ RxCap \in Nat
            BY <5>1, LenProperties, KSConstants
        <5> QED
            BY <3>1, <5>1, <5>2
      <4>2. decSeq' \in Nat
          BY <1>0, <3>1, <3>2
      <4> QED
          BY <3>1, <3>8, <4>1, <4>2 DEF KSReceiving, KSTyped
    <3>11. KSStages'
        BY <1>1, <3>1 DEF KSReceiving, KSStages
    <3>12. PlainChain' /\ TlsChain'
        BY <1>1, <1>5, <3>2, <3>7, <3>8, <3>9 DEF PlainChain, TlsChain, Aligned
    <3> QED
        BY <1>2, <1>3, <3>10, <3>11, <3>12 DEF KSReceiving
  <2>4. CASE ~rec.ok
    <3>1. streamState' = "Closed" /\ rx' = b /\ UNCHANGED <<plain, decSeq, decoding>>
        BY <1>5, <2>1, <2>4 DEF StartDecoding, StopReading
    <3>2. KSTyped'
        BY <3>1 DEF KSReceiving, KSTyped
    <3>3. KSStages'
        BY <1>1, <3>1 DEF KSReceiving, KSStages
    <3>4. Aligned \/ Stuck
        BY <1>5 DEF KSReceiving, TlsChain
    <3>5. Aligned' \/ Stuck'
        BY <1>1, <1>5, <3>1, <3>4 DEF Aligned, Stuck
    <3>6. PlainChain' /\ TlsChain'
        BY <1>1, <1>5, <3>1, <3>5 DEF KSReceiving, PlainChain, TlsChain
    <3> QED
        BY <1>2, <1>3, <3>2, <3>3, <3>6 DEF KSReceiving
  <2> QED
      BY <2>3, <2>4
<1> QED
    BY <1>4, <1>5

\* poll_once_: what was seeded, then what the socket has.
LEMMA PollKeeps ==
    ASSUME KSReceiving, poll_once
    PROVE  KSReceiving'
<1>0. /\ phase = "Established" /\ streamState = "Established" /\ ~decoding /\ mode \in Modes /\ SockTyped
      /\ rx \in Seq(Cells) /\ Len(rx) <= RxCap /\ RxCap \in Nat /\ Len(rx) \in Nat
      /\ UNCHANGED <<mode, phase, ws, frames>>
    BY KSConstants, LenProperties DEF KSReceiving, KSTyped, poll_once
<1>1. CASE StopReading /\ UNCHANGED <<rx, plain, decSeq, decoding, sock>>
  <2>1. SockTyped' /\ streamState' = "Closed" /\ sock'.read = sock.read
      BY <1>0, <1>1 DEF StopReading, SockTyped
  <2> QED
      BY <1>0, <1>1, <2>1, StreamAside
<1>2. CASE mode.sink /\ StartDecoding(rx) /\ UNCHANGED sock
  <2>1. SockTyped'
      BY <1>0, <1>2 DEF SockTyped
  <2>2. ~mode.tls => rx = UnitsFrom("pt", Len(frames), Len(rx)) /\ sock'.read = Len(frames) + Len(rx)
      BY <1>0, <1>2 DEF KSReceiving, PlainChain
  <2>3. Stuck => Len(rx) >= RecLen /\ rx[1][1] = "pt"
      BY DEF Stuck
  <2>4. PICK b : b = rx
      OBVIOUS
  <2>5. StartDecoding(b)
      BY <1>2, <2>4
  <2> QED
      BY <1>0, <1>2, <2>1, <2>2, <2>3, <2>4, <2>5, StartKeeps
<1>3. CASE Unread > 0 /\ sock' = ReadSock(Len(Received(WritableCapacity)))
           /\ IF mode.sink THEN StartDecoding(rx \o Received(WritableCapacity))
              ELSE UNCHANGED <<rx, plain, decSeq, decoding, streamState, dead>>
  <2>1. PICK in : in = Received(WritableCapacity)
      OBVIOUS
  <2>2. InTrue(in, WritableCapacity)
    <3>1. WritableCapacity \in Nat
        BY <1>0 DEF WritableCapacity
    <3> QED
        BY <1>0, <2>1, <3>1, ReceivedUnits
  <2>3. SockTyped' /\ sock'.read = sock.read + Len(in)
      BY <1>0, <1>3, <2>1, <2>2, SockAdvances DEF InTrue
  <2>4. CASE ~mode.sink
      BY <1>0, <1>3, <2>3, <2>4, StreamAside
  <2>5. CASE mode.sink
    <3>1. PICK b : b = rx \o in
        OBVIOUS
    <3>2. PICK n \in Nat, m \in Nat : n = Len(rx) /\ m = Len(in) /\ n + m <= RxCap
        BY <1>0, <2>2 DEF InTrue, WritableCapacity
    <3>3. rx \in Seq(Cells) /\ in \in Seq(Cells)
        BY <1>0, <2>2 DEF InTrue
    <3>4. /\ b \in Seq(Cells) /\ Len(b) = n + m
          /\ \A i \in 1..(n + m) : b[i] = IF i <= n THEN rx[i] ELSE in[i - n]
      <4>1. /\ rx \o in \in Seq(Cells) /\ Len(rx \o in) = Len(rx) + Len(in)
            /\ \A i \in 1..(Len(rx) + Len(in)) : (rx \o in)[i] = IF i <= Len(rx) THEN rx[i] ELSE in[i - Len(rx)]
          BY <3>3, ConcatProperties
      <4> QED
          BY <3>1, <3>2, <4>1
    <3>5. Len(b) <= RxCap
        BY <3>2, <3>4
    <3>6. StartDecoding(b)
        BY <1>3, <2>1, <2>5, <3>1
    <3>7. ASSUME ~mode.tls PROVE b = UnitsFrom("pt", Len(frames), Len(b)) /\ sock'.read = Len(frames) + Len(b)
      <4>1. PICK f \in Nat : f = Len(frames)
          BY LenProperties DEF KSReceiving, KSTyped
      <4>2. rx = UnitsFrom("pt", f, n) /\ sock.read = f + n
          BY <1>0, <2>5, <3>2, <3>7, <4>1 DEF KSReceiving, PlainChain
      <4>3. in = UnitsFrom("pt", f + n, m)
          BY <2>2, <3>2, <3>7, <4>2 DEF InTrue, Kind
      <4>4. f \in Int
          OBVIOUS
      <4>5. UnitsFrom("pt", f, n) \o UnitsFrom("pt", f + n, m) = UnitsFrom("pt", f, n + m)
          BY <4>4, RunsJoin
      <4>6. b = UnitsFrom("pt", f, n + m)
          BY <3>1, <4>2, <4>3, <4>5
      <4>7. sock'.read = (f + n) + m
          BY <2>3, <3>2, <4>2
      <4>8. (f + n) + m = f + (n + m)
          OBVIOUS
      <4> QED
          BY <3>4, <4>1, <4>6, <4>7, <4>8
    <3>8. ASSUME Stuck PROVE Len(b) >= RecLen /\ b[1][1] = "pt"
      <4>1. n >= RecLen /\ rx[1][1] = "pt" /\ RecLen \in Nat \ {0}
          BY <3>2, <3>8, KSConstants DEF Stuck
      <4>2. 1 \in 1..(n + m) /\ 1 <= n /\ n + m >= RecLen
          BY <4>1
      <4>3. b[1] = rx[1]
          BY <3>4, <4>2
      <4> QED
          BY <3>4, <4>1, <4>2, <4>3
    <3> QED
        BY <1>0, <2>3, <2>5, <3>4, <3>5, <3>6, <3>7, <3>8, StartKeeps
  <2> QED
      BY <2>4, <2>5
<1> QED
    BY <1>1, <1>2, <1>3 DEF poll_once, ReadSocket

\* A turn of drain_codec_'s loop.
LEMMA StreamDrainKeeps ==
    ASSUME KSReceiving, drain_codec
    PROVE  KSReceiving'
<1>0. /\ decoding /\ phase = "Established" /\ mode.sink /\ mode \in Modes /\ FrameLen \in Nat \ {0}
      /\ UNCHANGED <<mode, phase, streamState, ws, sock, decSeq>> /\ RxCap \in Nat /\ Start \in Int
    BY KSConstants DEF KSReceiving, KSTyped, KSStages, drain_codec, Modes
<1>1. Start' = Start /\ phase' \notin Handshaking
    BY <1>0 DEF Start, FirstUnit, Handshaking
<1>2. PlainUpgrade' /\ TlsUpgrade' /\ SockTyped'
    BY <1>0, <1>1 DEF PlainUpgrade, TlsUpgrade, Handshaking, KSReceiving, SockTyped
<1>3. CASE decoding' = FALSE /\ UNCHANGED <<rx, plain, frames>>
  <2>1. KSTyped' /\ KSStages'
      BY <1>0, <1>3 DEF KSReceiving, KSTyped, KSStages
  <2>2. PlainChain' /\ TlsChain' /\ FramesInOrder'
      BY <1>0, <1>1, <1>3 DEF KSReceiving, PlainChain, TlsChain, Aligned, Stuck, FramesInOrder
  <2> QED
      BY <1>2, <2>1, <2>2 DEF KSReceiving
<1>4. CASE Len(Buffered) >= FrameLen /\ TakeFrame
  <2>1. PICK b : b = Buffered
      OBVIOUS
  <2>2. PICK f \in Nat, n \in Nat, L \in Nat : f = Len(frames) /\ n = Len(b) /\ L = FrameLen /\ L > 0 /\ L <= n
    <3>1. b \in Seq(Cells) /\ frames \in Seq(Int)
        BY <2>1 DEF Buffered, KSReceiving, KSTyped
    <3>2. Len(b) \in Nat /\ Len(frames) \in Nat
        BY <3>1, LenProperties
    <3> QED
        BY <1>0, <1>4, <2>1, <3>2
  <2>3. b \in Seq(Cells) /\ b = UnitsFrom("pt", f, n) /\ \A i \in 1..n : b[i] = <<"pt", f + i>>
    <3>1. b \in Seq(Cells) /\ b = UnitsFrom("pt", f, n)
        BY <2>1, <2>2 DEF Buffered, KSReceiving, KSTyped, PlainChain, TlsChain
    <3>2. f \in Int
        OBVIOUS
    <3> QED
        BY <3>1, <3>2, UnitsTyped
  <2>4. PICK rest : rest = SubSeq(b, L + 1, n)
      OBVIOUS
  <2>5. rest = UnitsFrom("pt", f + L, n - L) /\ rest \in Seq(Cells) /\ Len(rest) = n - L
    <3>1. f \in Int /\ L \in 0..n /\ f + L \in Int /\ n - L \in Nat
        BY <2>2
    <3>2. SubSeq(b, L + 1, n) = UnitsFrom("pt", f + L, n - L)
      <4>1. b = UnitsFrom("pt", f, n)
          BY <2>3
      <4> QED
          BY <3>1, <4>1, TailOfRun
    <3>3. rest = UnitsFrom("pt", f + L, n - L)
        BY <2>4, <3>2
    <3> QED
        BY <3>1, <3>3, UnitsTyped
  <2>6. PICK new : new = [i \in 1..L |-> SubSeq(b, 1, L)[i][2]]
      OBVIOUS
  <2>7. new = [i \in 1..L |-> f + i]
    <3>1. ASSUME NEW i \in 1..L PROVE SubSeq(b, 1, L)[i][2] = f + i
      <4>1. \A j \in 1..L : b[j] \in Cells
          BY <2>2, <2>3, ElementOfSeq
      <4>2. \A j \in 1..(L - 1 + 1) : SubSeq(b, 1, L)[j] = b[1 + j - 1]
          BY <4>1, SubSeqProperties
      <4>3. i \in 1..(L - 1 + 1) /\ 1 + i - 1 = i /\ i \in 1..n
          BY <2>2
      <4>4. SubSeq(b, 1, L)[i] = b[i]
          BY <4>2, <4>3
      <4>5. b[i] = <<"pt", f + i>>
          BY <2>3, <4>3
      <4> QED
          BY <4>4, <4>5
    <3> QED
        BY <2>6, <3>1
  <2>8. frames' = frames \o new /\ decoding' = decoding
        /\ IF mode.tls THEN plain' = rest /\ UNCHANGED rx ELSE rx' = rest /\ UNCHANGED plain
    <3>1. FrameLen = L /\ Len(b) = n /\ Buffered = b
        BY <2>1, <2>2
    <3> QED
        BY <1>4, <2>4, <2>6, <3>1 DEF TakeFrame
  <2>9. CountsTo(frames', f + L)
    <3>1. CountsTo(frames, f)
        BY <2>2 DEF CountsTo, KSReceiving, KSTyped, FramesInOrder
    <3>2. CountsTo(frames \o new, f + L)
        BY <2>7, <3>1, CountsOn
    <3> QED
        BY <2>8, <3>2
  <2>10. frames' \in Seq(Int) /\ Len(frames') = f + L /\ FramesInOrder'
      BY <2>9 DEF CountsTo, FramesInOrder
  <2>11. KSTyped'
    <3>1. n - L <= n
        BY <2>2
    <3>2. ~mode.tls => n <= RxCap
        BY <2>1, <2>2 DEF Buffered, KSReceiving, KSTyped
    <3>3. Len(rx') <= RxCap /\ rx' \in Seq(Cells) /\ plain' \in Seq(Cells)
        BY <1>0, <2>5, <2>8, <3>1, <3>2 DEF KSReceiving, KSTyped
    <3> QED
        BY <1>0, <2>8, <2>10, <3>3 DEF KSReceiving, KSTyped
  <2>12. KSStages'
      BY <1>0, <2>8 DEF KSReceiving, KSStages
  <2>13. ASSUME ~mode.tls PROVE PlainChain'
    <3>1. rx' = rest /\ b = rx
        BY <2>1, <2>8, <2>13 DEF Buffered
    <3>2. (f + L) + (n - L) = f + n
        BY <2>2
    <3>3. rx' = UnitsFrom("pt", Len(frames'), Len(rx'))
        BY <2>5, <2>10, <3>1
    <3>4. streamState = "Established" => sock.read = f + n
        BY <1>0, <2>2, <2>13, <3>1 DEF KSReceiving, PlainChain
    <3>5. streamState' = "Established" => sock'.read = Len(frames') + Len(rx')
        BY <1>0, <2>5, <2>10, <3>1, <3>2, <3>4
    <3> QED
        BY <3>3, <3>5 DEF PlainChain
  <2>14. ASSUME mode.tls PROVE TlsChain'
    <3>1. plain' = rest /\ b = plain
        BY <2>1, <2>8, <2>14 DEF Buffered
    <3>2. ~Stuck
        BY <2>2, <3>1 DEF Stuck
    <3>3. f + n = Start + decSeq * RecLen
        BY <1>0, <2>2, <2>14, <3>1, <3>2 DEF KSReceiving, TlsChain, Aligned
    <3>4. (f + L) + (n - L) = f + n
        BY <2>2
    <3>5. Aligned'
        BY <1>0, <1>1, <2>5, <2>10, <3>1, <3>3, <3>4 DEF Aligned
    <3> QED
        BY <2>5, <2>10, <3>1, <3>5 DEF TlsChain
  <2>15. PlainChain' /\ TlsChain'
      BY <1>0, <2>13, <2>14 DEF PlainChain, TlsChain
  <2> QED
      BY <1>2, <2>10, <2>11, <2>12, <2>15 DEF KSReceiving
<1> QED
    BY <1>3, <1>4 DEF drain_codec

-----------------------------------------------------------------------------
(* KernelStream: sending.                                                  *)

\* What a send leaves on the wire: nothing new, or one chunk.
Wrote(m, w) == \/ w = wire
               \/ \E c \in Chunk : c.msg = m /\ w = Append(wire, c)
\* A message that is next, or the codec's own.
IsNext(m) == \/ m = 0
             \/ m \in Messages /\ report[m] = "none" /\ \A k \in 1..(m - 1) : report[k] # "none"

\* A chunk more on the wire is on it for its own message only.
LEMMA WroteChunks ==
    ASSUME wire \in Seq(Chunk), NEW m, Wrote(m, wire')
    PROVE  /\ wire' \in Seq(Chunk)
           /\ \A x \in Messages : Reported(x)' => Reported(x) \/ (x = m /\ wire' # wire)
<1>1. CASE wire' = wire
    BY <1>1 DEF Reported
<1>2. ASSUME NEW c \in Chunk, c.msg = m, wire' = Append(wire, c)
      PROVE  /\ wire' \in Seq(Chunk)
             /\ \A x \in Messages : Reported(x)' => Reported(x) \/ (x = m /\ wire' # wire)
  <2>1. PICK n \in Nat : n = Len(wire) /\ DOMAIN wire = 1..n
      BY LenProperties
  <2>2. wire' \in Seq(Chunk) /\ Len(wire') = n + 1 /\ DOMAIN wire' = 1..(n + 1)
        /\ (\A i \in 1..n : wire'[i] = wire[i]) /\ wire'[n + 1] = c
      BY <1>2, <2>1, AppendProperties
  <2>3. wire' # wire
      BY <2>1, <2>2
  <2>4. ASSUME NEW x \in Messages, Reported(x)' PROVE Reported(x) \/ x = m
    <3>1. PICK i \in 1..(n + 1) : wire'[i].msg = x
        BY <2>2, <2>4 DEF Reported
    <3>2. CASE i = n + 1
        BY <1>2, <2>2, <3>1, <3>2
    <3>3. CASE i # n + 1
      <4>1. i \in 1..n
          BY <3>3
      <4> QED
          BY <2>1, <2>2, <3>1, <4>1 DEF Reported
    <3> QED
        BY <3>2, <3>3
  <2> QED
      BY <2>2, <2>3, <2>4
<1> QED
    BY <1>1, <1>2 DEF Wrote

\* A report on the message in turn.
LEMMA ToldInTurn ==
    ASSUME KSSending, mode' = mode, NEW m, IsNext(m), NEW x \in Statuses \ {"none"}, Told(m, x),
           Wrote(m, wire'), mode.tls => wire' = wire \/ x # "Unsent"
    PROVE  report' \in [Messages -> Statuses] /\ InTurn' /\ TlsUnsentIsUnsent' /\ wire' \in Seq(Chunk)
<1>0. /\ report \in [Messages -> Statuses] /\ wire \in Seq(Chunk) /\ InTurn /\ TlsUnsentIsUnsent
      /\ MaxSends \in Nat /\ Messages = 1..MaxSends
    BY KSConstants DEF KSSending, SendTyped, Messages
<1>1. wire' \in Seq(Chunk) /\ \A y \in Messages : Reported(y)' => Reported(y) \/ (y = m /\ wire' # wire)
    BY <1>0, WroteChunks
<1>2. CASE m = 0
  <2>1. report' = report /\ 0 \notin Messages
      BY <1>0, <1>2 DEF Told
  <2>2. \A y \in Messages : Reported(y)' => Reported(y)
      BY <1>1, <1>2, <2>1
  <2>3. InTurn'
      BY <1>0, <2>1, <2>2 DEF InTurn
  <2>4. TlsUnsentIsUnsent'
      BY <1>0, <2>1, <2>2 DEF TlsUnsentIsUnsent
  <2> QED
      BY <1>0, <1>1, <2>1, <2>3, <2>4
<1>3. CASE m # 0
  <2>1. m \in Messages /\ report[m] = "none" /\ (\A k \in 1..(m - 1) : report[k] # "none") /\ report' = [report EXCEPT ![m] = x]
      BY <1>3 DEF IsNext, Told
  <2>2. /\ report' \in [Messages -> Statuses] /\ report'[m] = x /\ x # "none"
        /\ \A y \in Messages : y # m => report'[y] = report[y]
      BY <1>0, <2>1
  <2>3. PICK k \in 0..MaxSends : \A y \in Messages : report[y] # "none" <=> y <= k
      BY <1>0 DEF InTurn
  <2>4. m = k + 1
    <3>1. m \in 1..MaxSends /\ ~(m <= k)
        BY <1>0, <2>1, <2>3
    <3>2. CASE m > k + 1
      <4>1. k + 1 \in 1..(m - 1) /\ k + 1 \in Messages /\ ~(k + 1 <= k)
          BY <1>0, <3>1, <3>2
      <4> QED
          BY <2>1, <2>3, <4>1
    <3> QED
        BY <3>1, <3>2
  <2>5. \A y \in Messages : report'[y] # "none" <=> y <= k + 1
    <3> SUFFICES ASSUME NEW y \in Messages PROVE report'[y] # "none" <=> y <= k + 1
        OBVIOUS
    <3>1. y \in Int
        BY <1>0
    <3>2. CASE y = m
        BY <2>2, <2>4, <3>1, <3>2
    <3>3. CASE y # m
        BY <2>2, <2>3, <2>4, <3>1, <3>3
    <3> QED
        BY <3>2, <3>3
  <2>6. k + 1 \in 0..MaxSends
      BY <1>0, <2>1, <2>4
  <2>7. \A y \in Messages : report'[y] = "none" => ~Reported(y)'
      BY <1>0, <1>1, <2>2 DEF InTurn
  <2>8. InTurn'
      BY <2>5, <2>6, <2>7 DEF InTurn
  <2>9. ASSUME mode'.tls, NEW y \in Messages, report'[y] = "Unsent", Reported(y)' PROVE FALSE
    <3>1. Reported(y) \/ (y = m /\ wire' # wire)
        BY <1>1, <2>9
    <3>2. CASE y # m
        BY <1>0, <2>2, <2>9, <3>1, <3>2 DEF TlsUnsentIsUnsent
    <3>3. CASE y = m
      <4>1. ~Reported(m)
          BY <1>0, <2>1 DEF InTurn
      <4> QED
          BY <2>2, <2>9, <3>1, <3>3, <4>1
    <3> QED
        BY <3>2, <3>3
  <2>10. TlsUnsentIsUnsent'
      BY <2>9 DEF TlsUnsentIsUnsent
  <2> QED
      BY <1>1, <2>2, <2>8, <2>10
<1> QED
    BY <1>2, <1>3

\* A step that sends nothing.
LEMMA SendingRests ==
    ASSUME KSSending, UNCHANGED <<mode, corrupt, encSeq, wire, report>>
    PROVE  KSSending'
BY DEF KSSending, SendTyped, InTurn, NumbersRun, TlsWireIntact, TlsUnsentIsUnsent, Reported

\* Outcomes of a write.
LEMMA OutcomeWrites ==
    ASSUME sock.shut \in BOOLEAN, NEW o \in Outcomes, NEW m \in 0..MaxSends, NEW n \in Nat, wire' = Written(m, o.put, n)
    PROVE  /\ o.ok \in BOOLEAN /\ (o.ok => o.put = "all")
           /\ Wrote(m, wire') /\ (wire' = wire \/ wire' = Append(wire, [msg |-> m, whole |-> o.put = "all", rec |-> n]))
<1>1. o.ok \in BOOLEAN /\ (o.ok => o.put = "all")
  <2>1. CASE o = [ok |-> ~sock.shut, put |-> IF sock.shut THEN "none" ELSE "all"]
    <3>1. o.ok = ~sock.shut /\ o.put = (IF sock.shut THEN "none" ELSE "all")
        BY <2>1
    <3> QED
        BY <3>1
  <2>2. CASE \E p : o = [ok |-> FALSE, put |-> p]
      BY <2>2
  <2> QED
      BY <2>1, <2>2 DEF Outcomes
<1>2. wire' = wire \/ wire' = Append(wire, [msg |-> m, whole |-> o.put = "all", rec |-> n])
    BY DEF Written
<1>3. PICK c : c = [msg |-> m, whole |-> o.put = "all", rec |-> n]
    OBVIOUS
<1>4. c \in Chunk /\ c.msg = m
    BY <1>3 DEF Chunk
<1> QED
    BY <1>1, <1>2, <1>3, <1>4 DEF Wrote

\* send of a record, whole, torn or not encrypted.
LEMMA SendTlsKeeps ==
    ASSUME KSSending, sock.shut \in BOOLEAN, mode' = mode, mode.tls, ~corrupt, NEW m \in 0..MaxSends, IsNext(m), SendTls(m)
    PROVE  KSSending'
<1>0. /\ mode \in Modes /\ corrupt \in BOOLEAN /\ encSeq \in Nat /\ wire \in Seq(Chunk) /\ encSeq = Len(wire) /\ TlsWireIntact
      /\ \A i \in DOMAIN wire : wire[i].whole /\ wire[i].rec = i - 1
    BY DEF KSSending, SendTyped, NumbersRun, TlsWireIntact
<1>1. CASE /\ \E k \in 0..1 : encSeq' = encSeq + k
           /\ corrupt' = Latched /\ Told(m, "Unsent") /\ UNCHANGED wire
  <2>1. corrupt' = TRUE /\ encSeq' \in Nat /\ wire' = wire
      BY <1>0, <1>1 DEF Latched
  <2>2. report' \in [Messages -> Statuses] /\ InTurn' /\ TlsUnsentIsUnsent' /\ wire' \in Seq(Chunk)
      BY <1>1, <2>1, ToldInTurn DEF Wrote, Statuses
  <2>3. NumbersRun' /\ TlsWireIntact'
      BY <1>0, <2>1 DEF NumbersRun, TlsWireIntact
  <2> QED
      BY <1>0, <2>1, <2>2, <2>3 DEF KSSending, SendTyped
<1>2. ASSUME encSeq' = encSeq + 1, NEW o \in Outcomes, wire' = Written(m, o.put, encSeq),
             corrupt' = (IF o.ok THEN corrupt ELSE Latched), Told(m, IF o.ok THEN "Ok" ELSE TlsReport)
      PROVE  KSSending'
  <2>1. /\ o.ok \in BOOLEAN /\ (o.ok => o.put = "all") /\ Wrote(m, wire')
        /\ wire' = wire \/ wire' = Append(wire, [msg |-> m, whole |-> o.put = "all", rec |-> encSeq])
      BY <1>0, <1>2, OutcomeWrites
  <2>2. PICK x : x = (IF o.ok THEN "Ok" ELSE TlsReport)
      OBVIOUS
  <2>3. x \in Statuses \ {"none"} /\ x # "Unsent" /\ Told(m, x)
      BY <1>2, <2>2 DEF TlsReport, Statuses
  <2>4. report' \in [Messages -> Statuses] /\ InTurn' /\ TlsUnsentIsUnsent' /\ wire' \in Seq(Chunk)
      BY <2>1, <2>3, ToldInTurn
  <2>5. PICK n \in Nat : n = Len(wire) /\ DOMAIN wire = 1..n /\ n = encSeq
      BY <1>0, LenProperties
  <2>6. CASE o.ok
    <3>1. wire' = Append(wire, [msg |-> m, whole |-> TRUE, rec |-> n]) /\ corrupt' = corrupt
      <4>1. o.put = "all"
          BY <2>1, <2>6
      <4> QED
          BY <1>2, <2>5, <2>6, <4>1 DEF Written
    <3>2. PICK c : c = [msg |-> m, whole |-> TRUE, rec |-> n]
        OBVIOUS
    <3>3. c \in Chunk
        BY <3>2 DEF Chunk
    <3>4. Len(wire') = n + 1 /\ DOMAIN wire' = 1..(n + 1) /\ (\A i \in 1..n : wire'[i] = wire[i]) /\ wire'[n + 1] = c
        BY <1>0, <2>5, <3>1, <3>2, <3>3, AppendProperties
    <3>5. ASSUME NEW i \in 1..(n + 1) PROVE wire'[i].whole /\ wire'[i].rec = i - 1
      <4>1. CASE i = n + 1
          BY <3>2, <3>4, <4>1
      <4>2. CASE i # n + 1
        <5>1. i \in 1..n
            BY <4>2
        <5> QED
            BY <1>0, <2>5, <3>4, <5>1
      <4> QED
          BY <4>1, <4>2
    <3>6. NumbersRun' /\ TlsWireIntact'
        BY <1>2, <2>5, <3>4, <3>5 DEF NumbersRun, TlsWireIntact
    <3>7. corrupt' \in BOOLEAN /\ encSeq' \in Nat
        BY <1>0, <1>2, <3>1
    <3> QED
        BY <1>0, <2>4, <3>6, <3>7 DEF KSSending, SendTyped
  <2>7. CASE ~o.ok
    <3>1. corrupt' = TRUE /\ encSeq' \in Nat
        BY <1>0, <1>2, <2>7 DEF Latched
    <3>2. NumbersRun'
        BY <3>1 DEF NumbersRun
    <3>3. TlsWireIntact'
      <4>1. CASE wire' = wire
          BY <1>0, <4>1 DEF TlsWireIntact
      <4>2. CASE wire' = Append(wire, [msg |-> m, whole |-> o.put = "all", rec |-> encSeq])
        <5>1. PICK c : c = [msg |-> m, whole |-> o.put = "all", rec |-> encSeq]
            OBVIOUS
        <5>2. c \in Chunk /\ c.rec = n
            BY <1>0, <2>5, <5>1 DEF Chunk
        <5>3. Len(wire') = n + 1 /\ DOMAIN wire' = 1..(n + 1) /\ (\A i \in 1..n : wire'[i] = wire[i]) /\ wire'[n + 1] = c
            BY <1>0, <2>5, <4>2, <5>1, <5>2, AppendProperties
        <5>4. ASSUME NEW i \in 1..(n + 1) PROVE wire'[i].rec = i - 1 /\ (i < n + 1 => wire'[i].whole)
          <6>1. CASE i = n + 1
              BY <5>2, <5>3, <6>1
          <6>2. CASE i # n + 1
            <7>1. i \in 1..n
                BY <6>2
            <7> QED
                BY <1>0, <2>5, <5>3, <7>1
          <6> QED
              BY <6>1, <6>2
        <5> QED
            BY <5>3, <5>4 DEF TlsWireIntact
      <4> QED
          BY <2>1, <4>1, <4>2
    <3> QED
        BY <1>0, <2>4, <3>1, <3>2, <3>3 DEF KSSending, SendTyped
  <2> QED
      BY <2>1, <2>6, <2>7
<1> QED
    BY <1>1, <1>2 DEF SendTls

\* send of a message, or of the codec's own answer.
LEMMA SendKeeps ==
    ASSUME KSSending, sock.shut \in BOOLEAN, mode' = mode, NEW m \in 0..MaxSends, IsNext(m), SendBytes(m)
    PROVE  KSSending'
<1>0. mode \in Modes
    BY DEF KSSending
<1>1. CASE Told(m, "Unsent") /\ UNCHANGED <<wire, encSeq, corrupt>>
  <2>1. report' \in [Messages -> Statuses] /\ InTurn' /\ TlsUnsentIsUnsent'
      BY <1>1, ToldInTurn DEF Wrote, Statuses
  <2> QED
      BY <1>1, <2>1 DEF KSSending, SendTyped, NumbersRun, TlsWireIntact
<1>2. CASE UNCHANGED <<wire, encSeq, corrupt, report>>
    BY <1>2, SendingRests
<1>3. CASE mode.tls /\ ~corrupt /\ SendTls(m)
    BY <1>3, SendTlsKeeps
<1>4. CASE ~mode.tls /\ SendPlain(m)
  <2>1. PICK o \in Outcomes : wire' = Written(m, o.put, 0) /\ Told(m, IF o.ok THEN "Ok" ELSE "Unsent")
      BY <1>4 DEF SendPlain
  <2>2. Wrote(m, wire')
      BY <2>1, OutcomeWrites
  <2>3. PICK x : x = (IF o.ok THEN "Ok" ELSE "Unsent")
      OBVIOUS
  <2>4. x \in Statuses \ {"none"} /\ Told(m, x)
      BY <2>1, <2>3 DEF Statuses
  <2>5. report' \in [Messages -> Statuses] /\ InTurn' /\ TlsUnsentIsUnsent' /\ wire' \in Seq(Chunk)
      BY <1>4, <2>2, <2>4, ToldInTurn
  <2>6. UNCHANGED <<encSeq, corrupt>> /\ ~mode'.tls
      BY <1>4 DEF SendPlain
  <2> QED
      BY <2>5, <2>6 DEF KSSending, SendTyped, NumbersRun, TlsWireIntact
<1> QED
    BY <1>1, <1>2, <1>3, <1>4 DEF SendBytes

\* send takes the first message not reported on yet.
LEMMA NextIsNext ==
    ASSUME KSSending, NEW x \in Messages, report[x] = "none"
    PROVE  NextMessage \in 0..MaxSends /\ IsNext(NextMessage)
<1>0. MaxSends \in Nat /\ Messages = 1..MaxSends
    BY KSConstants DEF Messages
<1>1. PICK k \in 0..MaxSends : \A y \in Messages : report[y] # "none" <=> y <= k
    BY DEF KSSending, InTurn
<1>2. x \in Int /\ x <= MaxSends /\ ~(x <= k)
    BY <1>0, <1>1
<1>3. k + 1 \in Messages /\ ~(k + 1 <= k)
    BY <1>0, <1>2
<1>4. report[k + 1] = "none"
    BY <1>1, <1>3
<1>5. \A j \in 1..((k + 1) - 1) : report[j] # "none"
  <2> SUFFICES ASSUME NEW j \in 1..((k + 1) - 1) PROVE report[j] # "none"
      OBVIOUS
  <2>1. j \in Messages /\ j <= k
      BY <1>0
  <2> QED
      BY <1>1, <2>1
<1>6. \E m \in Messages : report[m] = "none" /\ \A j \in 1..(m - 1) : report[j] # "none"
    BY <1>3, <1>4, <1>5
<1>7. NextMessage \in Messages /\ report[NextMessage] = "none" /\ \A j \in 1..(NextMessage - 1) : report[j] # "none"
    BY <1>6 DEF NextMessage
<1> QED
    BY <1>0, <1>7 DEF IsNext

-----------------------------------------------------------------------------
(* KernelStream: the steps.                                                *)

\* A stream as create leaves it.
LEMMA KSStarts ==
    ASSUME KSInit
    PROVE  KSInv
<1>0. mode \in Modes /\ RecLen \in Nat \ {0} /\ Units \in Nat /\ Start \in Int /\ Start <= 0
    BY KSConstants DEF KSInit, Modes
<1>1. KSTyped
  <2>1. rx = << >> /\ plain = << >> /\ frames = << >> /\ decSeq = 0 /\ ws = [sent |-> FALSE, ct |-> << >>, buf |-> << >>]
      BY DEF KSInit
  <2>2. rx \in Seq(Cells) /\ plain \in Seq(Cells) /\ Len(rx) <= RxCap /\ decSeq \in Nat /\ frames \in Seq(Int)
      BY <2>1, KSConstants
  <2>3. ws \in Upgrade
      BY <2>1 DEF Upgrade
  <2>4. phase = "TcpConnecting" /\ streamState = "SynSent" /\ decoding = FALSE
      BY DEF KSInit
  <2> QED
      BY <1>0, <2>2, <2>3, <2>4 DEF KSTyped, Handshaking
<1>2. SockTyped
    BY <1>0 DEF KSInit, SockTyped, Sock, Start
<1>3. KSStages
    BY DEF KSInit, KSStages
<1>4. PlainUpgrade /\ PlainChain /\ TlsChain
  <2>1. \A k : UnitsFrom(k, 0, 0) = << >> /\ UnitsFrom(k, Start, 0) = << >>
      BY NoUnits
  <2>2. rx = << >> /\ plain = << >> /\ ws.buf = << >> /\ frames = << >> /\ sock.read = Start /\ streamState = "SynSent" /\ phase = "TcpConnecting"
      BY DEF KSInit, Start
  <2>3. Len(rx) = 0 /\ Len(plain) = 0 /\ Len(ws.buf) = 0 /\ Len(frames) = 0
      BY <2>2
  <2> QED
      BY <1>0, <2>1, <2>2, <2>3 DEF PlainUpgrade, PlainChain, TlsChain
<1>5. TlsUpgrade
  <2>1. ws.buf = << >> /\ decSeq = 0 /\ 0 * RecLen = 0
      BY <1>0 DEF KSInit
  <2> QED
      BY <2>1 DEF TlsUpgrade
<1>6. FramesInOrder
    BY DEF KSInit, FramesInOrder
<1>7. SendTyped /\ InTurn
  <2>1. 0 \in 0..MaxSends /\ \A m \in Messages : report[m] # "none" <=> m <= 0
      BY KSConstants DEF KSInit, Messages
  <2>2. corrupt = FALSE /\ encSeq = 0 /\ wire = << >> /\ report = [m \in Messages |-> "none"]
      BY DEF KSInit
  <2>3. \A m : ~Reported(m)
      BY <2>2 DEF Reported
  <2>4. SendTyped
    <3>1. wire \in Seq(Chunk)
        BY <2>2
    <3>2. report \in [Messages -> Statuses]
        BY <2>2 DEF Statuses
    <3> QED
        BY <2>2, <3>1, <3>2 DEF SendTyped
  <2> QED
      BY <2>1, <2>3, <2>4 DEF InTurn
<1>8. NumbersRun /\ TlsWireIntact /\ TlsUnsentIsUnsent
    BY DEF KSInit, NumbersRun, TlsWireIntact, TlsUnsentIsUnsent, Reported
<1>9. KSAside
    BY DEF KSInit, KSAside
<1> QED
    BY <1>0, <1>1, <1>2, <1>3, <1>4, <1>5, <1>6, <1>7, <1>8, <1>9 DEF KSInv, KSReceiving, KSSending

\* The flags beside the data.
LEMMA AsideKeeps ==
    ASSUME KSAside, KSNext
    PROVE  KSAside'
<1>0. attached \in BOOLEAN /\ expired \in BOOLEAN /\ dead \in BOOLEAN /\ interest \subseteq {"in", "out"}
    BY DEF KSAside
<1>1. CASE UNCHANGED <<attached, interest>> /\ expired' \in BOOLEAN /\ dead' \in BOOLEAN
    BY <1>0, <1>1 DEF KSAside
<1>2. CASE attached' \in BOOLEAN /\ interest' \subseteq {"in", "out"} /\ UNCHANGED <<expired, dead>>
    BY <1>0, <1>2 DEF KSAside
<1>3. CASE drive_handshake
  <2>1. attached' = attached
      BY <1>3 DEF drive_handshake
  <2>2. fail_handshake => UNCHANGED interest /\ expired' \in BOOLEAN /\ dead' \in BOOLEAN
      BY <1>0 DEF fail_handshake
  <2>3. \A p : EnterPhase(p) => interest' \subseteq {"in", "out"} /\ expired' \in BOOLEAN /\ dead' \in BOOLEAN
      BY <1>0 DEF EnterPhase, Armed, HandshakeInterest
  <2>4. become_established => interest' \subseteq {"in", "out"} /\ expired' \in BOOLEAN /\ dead' \in BOOLEAN
      BY <1>0 DEF become_established, Armed
  <2>5. UNCHANGED <<interest, expired, dead>> => interest' \subseteq {"in", "out"} /\ expired' \in BOOLEAN /\ dead' \in BOOLEAN
      BY <1>0
  <2>6. AdvancePastProxy \/ advance_after_tls =>
            fail_handshake \/ become_established \/ EnterPhase("TlsHandshaking") \/ EnterPhase("WsHandshaking")
      BY DEF AdvancePastProxy, advance_after_tls
  <2>7. StepTcp \/ StepTls => fail_handshake \/ AdvancePastProxy \/ advance_after_tls
      BY DEF StepTcp, StepTls, run_proxy_connect
  <2>8. UpgradeSend \/ UpgradeRead => fail_handshake \/ become_established \/ UNCHANGED <<interest, expired, dead>>
      BY DEF UpgradeSend, UpgradeRead
  <2>9. interest' \subseteq {"in", "out"} /\ expired' \in BOOLEAN /\ dead' \in BOOLEAN
      BY <1>0, <1>3, <2>2, <2>3, <2>4, <2>5, <2>6, <2>7, <2>8 DEF drive_handshake
  <2> QED
      BY <1>0, <2>1, <2>9 DEF KSAside
<1>4. CASE ConnectResolves \/ Arrives \/ Expire \/ drain_codec \/ send \/ close_gracefully \/ drain
    BY <1>0, <1>1, <1>4 DEF ConnectResolves, Arrives, Expire, drain_codec, send, close_gracefully, drain, StopReading
<1>5. CASE poll_once
    BY <1>0, <1>1, <1>5 DEF poll_once, ReadSocket, StartDecoding, StopReading
<1>6. CASE attach \/ detach
    BY <1>2, <1>6 DEF attach, detach, HandshakeInterest
<1> QED
    BY <1>3, <1>4, <1>5, <1>6 DEF KSNext, connect_blocking, PollHandshake

\* Every step keeps the receiving side.
LEMMA ReceivingKeeps ==
    ASSUME KSReceiving, KSNext
    PROVE  KSReceiving'
<1>0. SockTyped /\ mode \in Modes /\ Units \in Nat
    BY KSConstants DEF KSReceiving, KSTyped
<1>1. CASE ConnectResolves
  <2>1. UNCHANGED <<mode, phase, decoding, rx, plain, ws, decSeq, frames, streamState>>
      BY <1>1 DEF ConnectResolves
  <2>2. PICK c \in {"up", "refused"} : sock' = [sock EXCEPT !.conn = c]
      BY <1>1 DEF ConnectResolves
  <2>3. SockTyped' /\ sock'.read = sock.read
      BY <1>0, <2>2 DEF SockTyped, Sock
  <2> QED
      BY <2>1, <2>3, StreamAside
<1>2. CASE Arrives
  <2>1. UNCHANGED <<mode, phase, decoding, rx, plain, ws, decSeq, frames, streamState>>
      BY <1>2 DEF Arrives
  <2>2. SockTyped' /\ sock'.read = sock.read
    <3>1. CASE sock.arrived < Units /\ sock' = [sock EXCEPT !.arrived = @ + 1]
      <4>1. sock' \in Sock /\ sock'.arrived = sock.arrived + 1 /\ sock'.read = sock.read
          BY <1>0, <3>1 DEF SockTyped, Sock
      <4> QED
          BY <1>0, <3>1, <4>1 DEF SockTyped, Sock
    <3>2. CASE sock' = [sock EXCEPT !.fin = TRUE]
        BY <1>0, <3>2 DEF SockTyped, Sock
    <3> QED
        BY <1>2, <3>1, <3>2 DEF Arrives
  <2> QED
      BY <2>1, <2>2, StreamAside
<1>3. CASE Expire \/ attach \/ detach \/ send
  <2>1. UNCHANGED <<mode, phase, decoding, rx, plain, ws, decSeq, frames, streamState, sock>>
      BY <1>3 DEF Expire, attach, detach, send
  <2>2. SockTyped' /\ sock'.read = sock.read
      BY <1>0, <2>1 DEF SockTyped
  <2> QED
      BY <2>1, <2>2, StreamAside
<1>4. CASE connect_blocking \/ PollHandshake
    BY <1>4, StreamHandshakeKeeps DEF connect_blocking, PollHandshake
<1>5. CASE poll_once
    BY <1>5, PollKeeps
<1>6. CASE drain_codec
    BY <1>6, StreamDrainKeeps
<1>7. CASE close_gracefully
  <2>1. UNCHANGED <<mode, phase, decoding, rx, plain, ws, decSeq, frames>> /\ streamState' \in {streamState, "FinWait1"}
      BY <1>7 DEF close_gracefully
  <2>2. sock' = sock \/ sock' = ShutDown
      BY <1>7 DEF close_gracefully
  <2>3. SockTyped' /\ sock'.read = sock.read
      BY <1>0, <2>2 DEF SockTyped, Sock, ShutDown
  <2> QED
      BY <2>1, <2>3, StreamAside
<1>8. CASE drain
  <2>1. UNCHANGED <<mode, phase, decoding, rx, plain, ws, decSeq, frames>> /\ phase = "Established"
      BY <1>8 DEF drain, KSReceiving, KSStages
  <2>2. CASE UNCHANGED <<sock, streamState>>
    <3>1. SockTyped' /\ sock'.read = sock.read
        BY <1>0, <2>2 DEF SockTyped
    <3> QED
        BY <2>1, <2>2, <3>1, StreamAside
  <2>3. CASE sock' = [ShutDown EXCEPT !.read = sock.arrived] /\ StopReading
    <3>1. SockTyped'
      <4>1. PICK d : d = ShutDown
          OBVIOUS
      <4>2. d \in Sock /\ d.arrived = sock.arrived /\ sock.arrived \in Int
          BY <1>0, <4>1 DEF SockTyped, Sock, ShutDown
      <4>3. sock' \in Sock /\ sock'.read = sock.arrived /\ sock'.arrived = sock.arrived
          BY <2>3, <4>1, <4>2 DEF Sock
      <4> QED
          BY <1>0, <4>2, <4>3 DEF SockTyped
    <3>2. streamState' = "Closed"
        BY <2>3 DEF StopReading
    <3> QED
        BY <2>1, <3>1, <3>2, StreamAside
  <2> QED
      BY <1>8, <2>2, <2>3 DEF drain
<1> QED
    BY <1>1, <1>2, <1>3, <1>4, <1>5, <1>6, <1>7, <1>8 DEF KSNext

\* Every step keeps the sending side.
LEMMA SendingKeeps ==
    ASSUME KSReceiving, KSSending, KSNext
    PROVE  KSSending'
<1>0. sock.shut \in BOOLEAN /\ 0 \in 0..MaxSends /\ IsNext(0)
    BY KSConstants DEF KSReceiving, SockTyped, Sock, IsNext
<1>1. CASE UNCHANGED <<mode, corrupt, encSeq, wire, report>>
    BY <1>1, SendingRests
<1>2. CASE mode' = mode /\ SendBytes(0)
    BY <1>0, <1>2, SendKeeps
<1>3. CASE send
  <2>1. PICK x \in Messages : report[x] = "none"
      BY <1>3 DEF send
  <2>2. NextMessage \in 0..MaxSends /\ IsNext(NextMessage)
      BY <2>1, NextIsNext
  <2>3. mode' = mode /\ SendBytes(NextMessage)
      BY <1>3 DEF send
  <2> QED
      BY <1>0, <2>2, <2>3, SendKeeps
<1>4. CASE close_gracefully
    BY <1>1, <1>2, <1>4 DEF close_gracefully
<1>5. CASE drain_codec
    BY <1>1, <1>2, <1>5 DEF drain_codec, TakeFrame
<1>6. CASE ConnectResolves \/ Arrives \/ Expire \/ attach \/ detach \/ poll_once \/ drain
    BY <1>1, <1>6 DEF ConnectResolves, Arrives, Expire, attach, detach, poll_once, drain
<1>7. CASE connect_blocking \/ PollHandshake
    BY <1>1, <1>7 DEF connect_blocking, PollHandshake, drive_handshake
<1> QED
    BY <1>3, <1>4, <1>5, <1>6, <1>7 DEF KSNext

\* A step of something else.
LEMMA KSUnmoved ==
    ASSUME KSInv, UNCHANGED KSvars
    PROVE  KSInv'
<1>0. UNCHANGED <<mode, phase, decoding, rx, plain, ws, decSeq, frames, streamState, sock>>
    BY DEF KSvars
<1>1. SockTyped' /\ sock'.read = sock.read
    BY <1>0 DEF KSInv, KSReceiving, SockTyped
<1>2. KSReceiving'
    BY <1>0, <1>1, StreamAside DEF KSInv
<1>3. KSSending'
    BY SendingRests DEF KSInv, KSvars
<1>4. KSAside'
    BY DEF KSInv, KSAside, KSvars
<1> QED
    BY <1>2, <1>3, <1>4 DEF KSInv

\* The invariant implies what the runs check.
LEMMA KSInvTells ==
    ASSUME KSInv
    PROVE  KernelStreamTrue
<1>1. KSReceiving /\ KSSending /\ KSAside
    BY DEF KSInv
<1>2. {attached, corrupt, decoding, expired, dead} \subseteq BOOLEAN
    BY <1>1 DEF KSReceiving, KSTyped, KSSending, SendTyped, KSAside
<1>3. KSTypeOK
    BY <1>1, <1>2 DEF KSTypeOK, KSReceiving, KSTyped, SockTyped, KSSending, SendTyped, KSAside
<1> QED
    BY <1>1, <1>3 DEF KernelStreamTrue, KSReceiving, KSSending

\* The kernel stream: whatever was read behind the proxy's reply or the upgrade's
\* response, wherever reads are cut and whichever writes fail, on_message is given
\* the server's bytes in order and once, the records of a TLS stream are written
\* in the order of their numbers with nothing behind a torn one, and a message
\* reported Unsent on it has no byte on the wire.
THEOREM KernelStreamAlwaysTrue == KSSpec => []KernelStreamTrue
<1>1. KSInit => KSInv
    BY KSStarts
<1>2. KSInv /\ [KSNext]_KSvars => KSInv'
    BY KSUnmoved, AsideKeeps, ReceivingKeeps, SendingKeeps DEF KSInv
<1>3. KSInv => KernelStreamTrue
    BY KSInvTells
<1> QED
    BY <1>1, <1>2, <1>3, PTL DEF KSSpec
=============================================================================
