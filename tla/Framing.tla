------------------------------ MODULE Framing -------------------------------
(***************************************************************************)
(* What cuts bytes into messages: the stream framers, and the MoldUDP64    *)
(* feed of datagrams.                                                      *)
(***************************************************************************)
EXTENDS Integers, Sequences, FiniteSets, Functions

-----------------------------------------------------------------------------
(***************************************************************************)
(* The framers over a byte stream: LengthPrefixCodec, SoupBinTcpFramer and *)
(* FixFramer.  Each reads a length from a header, waits for the rest, and  *)
(* takes the frame off the buffer; the stream arrives in pieces of any     *)
(* size.  A byte is its position in the stream.  A frame is its header     *)
(* (for FIX: BeginString, BodyLength and their delimiters), body and       *)
(* trailer (FIX: the checksum field).                                      *)
(***************************************************************************)

CONSTANTS FixHeaders,  \* lengths the two leading fields of a FIX message may have
          BodyLimit,   \* kMaxFrameLen, MaxBodyLength
          MaxBody,     \* bound on the bodies sent, also what a 16-bit length can say
          MaxFrames,   \* bound on the frames sent
          SizeLimit    \* size_t, for the arithmetic of the framers

ASSUME FramingAssumption ==
    /\ FixHeaders \subseteq Nat \ {0}
    /\ BodyLimit \in Nat /\ MaxBody \in Nat /\ MaxFrames \in Nat /\ SizeLimit \in Nat \ {0}

VARIABLES flayout,     \* which framer
          fsent,       \* the frames of the stream: header, body, and whether well formed
          farrived,    \* bytes arrived
          fconsumed,   \* bytes taken off the buffer
          fframes,     \* frames delivered, as intervals of positions
          flast        \* what the last decode said: "more", "frame" or "error"

FRvars == <<flayout, fsent, farrived, fconsumed, fframes, flast>>

\* Per framer: the lengths a header may have, the trailer's length, the least and
\* the largest body, and whether a bad length shows digit by digit.
LengthPrefixCodec == [hdr |-> {4}, trailer |-> 0, min |-> 0, max |-> BodyLimit, early |-> FALSE]
LengthPrefixFramer == [hdr |-> {2}, trailer |-> 0, min |-> 1, max |-> MaxBody, early |-> FALSE]
\* The packet type counts as the first byte of the body.
SoupBinTcpFramer == [hdr |-> {2}, trailer |-> 0, min |-> 1, max |-> MaxBody, early |-> FALSE]
FixFramer == [hdr |-> FixHeaders, trailer |-> 7, min |-> 0, max |-> BodyLimit, early |-> TRUE]

Framers == {LengthPrefixCodec, LengthPrefixFramer, SoupBinTcpFramer, FixFramer}

FRInit ==
    /\ flayout \in Framers
    /\ fsent = <<>> /\ farrived = 0 /\ fconsumed = 0 /\ fframes = <<>> /\ flast = "frame"

Size(f) == f.hdr + f.body + flayout.trailer
EndOf(n) == SumFunctionOnSet([i \in DOMAIN fsent |-> Size(fsent[i])], 1..n)

\* External: the peer writes a frame, and some of the stream arrives.
Write(f) ==
    /\ Len(fsent) < MaxFrames
    /\ fsent' = Append(fsent, f)
    /\ UNCHANGED <<flayout, farrived, fconsumed, fframes, flast>>

Arrive(n) ==
    /\ n <= EndOf(Len(fsent))
    /\ n > farrived /\ farrived' = n
    /\ UNCHANGED <<flayout, fsent, fconsumed, fframes, flast>>

Unsigned(x) == x % SizeLimit

\* The test is split so that the unsigned subtraction cannot wrap.
HasAll(len, f) ==
    /\ len >= f.hdr + flayout.trailer
    /\ f.body <= Unsigned(len - f.hdr - flayout.trailer)

\* The length is checked as soon as it can be read.
BadLength(f) == f.body > flayout.max \/ f.body < flayout.min

\* decode(): the frame at the front of the buffer.
decode_frame ==
    /\ flast # "error" /\ Len(fframes) < Len(fsent)
    /\ LET f == fsent[Len(fframes) + 1]
           len == farrived - fconsumed
       IN  \/ len < f.hdr /\ flast' = "more" /\ UNCHANGED <<fframes, fconsumed>>
           \/ /\ 0 < len /\ len < f.hdr /\ flayout.early /\ BadLength(f)
              /\ flast' = "error" /\ UNCHANGED <<fframes, fconsumed>>
           \/ len >= f.hdr /\ BadLength(f) /\ flast' = "error" /\ UNCHANGED <<fframes, fconsumed>>
           \/ /\ len >= f.hdr /\ ~BadLength(f) /\ ~HasAll(len, f)
              /\ flast' = "more" /\ UNCHANGED <<fframes, fconsumed>>
           \/ /\ len >= f.hdr /\ ~BadLength(f) /\ HasAll(len, f)
              /\ IF f.good
                 THEN /\ fframes' = Append(fframes, <<fconsumed, fconsumed + Size(f)>>)
                      /\ fconsumed' = fconsumed + Size(f) /\ flast' = "frame"
                 ELSE flast' = "error" /\ UNCHANGED <<fframes, fconsumed>>
    /\ UNCHANGED <<flayout, fsent, farrived>>

Frames == [hdr : flayout.hdr, body : 0..MaxBody, good : BOOLEAN]

FRNext ==
    \/ \E f \in Frames : Write(f)
    \/ \E n \in 1..EndOf(Len(fsent)) : Arrive(n)
    \/ decode_frame

FRSpec == FRInit /\ [][FRNext]_FRvars
-----------------------------------------------------------------------------
FRTypeOK ==
    /\ farrived \in Nat /\ fconsumed \in Nat /\ flast \in {"more", "frame", "error"}
    /\ Len(fframes) <= Len(fsent)

\* Frames come out as they went in however the stream was cut: each begins where
\* the one before ended and none reaches past the bytes that have arrived.
FramesInBuffer ==
    /\ fconsumed = EndOf(Len(fframes)) /\ fconsumed <= farrived
    /\ \A i \in DOMAIN fframes : fframes[i] = <<EndOf(i - 1), EndOf(i)>>

-----------------------------------------------------------------------------
(***************************************************************************)
(* eph::codec::Mold64Codec over parse_moldudp64: datagrams of numbered     *)
(* messages from a multicast feed that loses, repeats and reorders them.   *)
(* The codec delivers what it gets, in any order, keeps the next number it *)
(* expects and counts the numbers it never saw in time.  Sequence numbers  *)
(* stay far below 2^64.                                                    *)
(***************************************************************************)

CONSTANTS MaxSeq,     \* bound on the messages of the session
          MaxBatch    \* messages per datagram

ASSUME MoldAssumption == MaxSeq \in Nat /\ MaxBatch \in Nat \ {0}

VARIABLES msent,       \* the feed's next sequence number
          mnet,        \* datagrams on the network: any of them may arrive, again or never
          expected_seq, gaps,
          mdelivered,  \* history: the numbers handed to the sink
          mintime      \* history: those handed over before they were passed

MDvars == <<msent, mnet, expected_seq, gaps, mdelivered, mintime>>

MDInit ==
    /\ msent = 1 /\ mnet = {} /\ expected_seq = 1 /\ gaps = 0
    /\ mdelivered = {} /\ mintime = {}

\* External: the feed sends the next messages, or a heartbeat with none.
Publish(n) ==
    /\ msent + n <= MaxSeq + 1
    /\ mnet' = mnet \cup {[seq |-> msent, count |-> n]}
    /\ msent' = msent + n
    /\ UNCHANGED <<expected_seq, gaps, mdelivered, mintime>>

Gap(seq) == IF seq > expected_seq THEN seq - expected_seq ELSE 0

ByCount(d, parsed) == d.seq + d.count
FirstAfter(d, parsed) == d.seq + parsed
Reached(d, parsed) == IF FirstAfter(d, parsed) > expected_seq THEN FirstAfter(d, parsed) ELSE expected_seq

\* decode(): parse_moldudp64 stops at the first message the datagram does not
\* hold whole, so fewer than count may be handed over.  A duplicate is delivered
\* and moves nothing.
decode_mold(d, parsed) ==
    /\ parsed <= d.count
    /\ LET seqs == d.seq..(d.seq + parsed - 1)
       IN  /\ gaps' = gaps + Gap(d.seq)
           /\ expected_seq' = Reached(d, parsed)
           /\ mdelivered' = mdelivered \cup seqs
           /\ mintime' = mintime \cup {s \in seqs : s >= expected_seq}
    /\ UNCHANGED <<msent, mnet>>

\* A malformed header, or the end of the session: consumed, nothing counted.
decode_nothing == UNCHANGED MDvars

MDNext ==
    \/ \E n \in 0..MaxBatch : Publish(n)
    \/ \E d \in mnet : \E parsed \in 0..d.count : decode_mold(d, parsed)
    \/ decode_nothing

MDSpec == MDInit /\ [][MDNext]_MDvars
-----------------------------------------------------------------------------
MDTypeOK ==
    /\ msent \in 1..(MaxSeq + 1) /\ expected_seq \in 1..msent /\ gaps \in 0..MaxSeq
    /\ mdelivered \subseteq 1..MaxSeq /\ mintime \subseteq mdelivered

\* Every number the codec has passed was either handed over in its turn or is
\* one of the gaps, once: datagrams that overlap, repeat, come late or are cut
\* short do not change that.
GapsAccountFor == gaps = Cardinality((1..(expected_seq - 1)) \ mintime)

\* Frames lie within the bytes at hand, and the feed's gaps account for the
\* messages that did not come.
FramesTrue ==
    /\ FRTypeOK /\ FramesInBuffer /\ MDTypeOK /\ GapsAccountFor
=============================================================================
