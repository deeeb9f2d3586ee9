----------------------------- MODULE PacketWire -----------------------------
(***************************************************************************)
(* Building and reading frames on the DPDK path: PacketTemplate and        *)
(* UdpPacketTemplate, parse_packet, parse_udp_packet, parse_icmp,          *)
(* parse_tcp_options and the Internet checksum.                            *)
(*                                                                         *)
(* A frame is the lengths its headers claim and the length it has; header  *)
(* sizes are constants, so that small ones stand for the real ones.        *)
(***************************************************************************)
EXTENDS Integers, Sequences, SequencesExt, FiniteSets

CONSTANTS kEtherHeaderLen, kIpv4HeaderLen, kTcpHeaderLen, kUdpHeaderLen, kIcmpHeaderLen,
          kSynOptionsLen,
          MinFrame,      \* the NIC pads shorter frames
          MaxFrame,      \* bound on frame lengths
          MaxPayload,    \* bound on the payloads built
          OptLen,        \* bound on the TCP options
          ByteMax,       \* largest byte of the checksum's data
          CkWords        \* words of data in it

ASSUME PacketWireAssumption ==
    /\ {kEtherHeaderLen, kIpv4HeaderLen, kTcpHeaderLen, kUdpHeaderLen, kIcmpHeaderLen} \subseteq Nat \ {0}
    /\ {kSynOptionsLen, MinFrame, MaxFrame, MaxPayload, OptLen, ByteMax, CkWords} \subseteq Nat

VARIABLES
    pkind,      \* "tcp", "udp", "icmp", "options" or "checksum"
    frame,      \* what is read
    pbuilt,     \* the payload the frame was built with, or NotBuilt
    parsed      \* what the parser returned, or NotYet

PWvars == <<pkind, frame, pbuilt, parsed>>
NotBuilt == -1
NotYet == [ok |-> FALSE]
Nothing == [ok |-> FALSE, start |-> 0, n |-> 0]
-----------------------------------------------------------------------------
\* Ethertype, version and fragments are one bit, and so is a frame of one segment.
parse_ip_header(f) ==
    /\ f.whole /\ f.len >= kEtherHeaderLen + kIpv4HeaderLen
    /\ f.ihl >= kIpv4HeaderLen /\ kEtherHeaderLen + f.ihl <= f.len

Payload(start, n) == [ok |-> TRUE, start |-> start, n |-> n]

InFrame(f) == kEtherHeaderLen + f.ip_total <= f.len

\* The payload ends where the IP header says, not where the frame ends: short
\* frames are padded.
parse_tcp_from_ip(f) ==
    LET tcp_offset == kEtherHeaderLen + f.ihl
        data_start == f.ihl + f.l4len
    IN  IF /\ f.len >= tcp_offset + kTcpHeaderLen
           /\ f.l4len >= kTcpHeaderLen /\ tcp_offset + f.l4len <= f.len
           /\ data_start <= f.ip_total /\ InFrame(f)
        THEN Payload(kEtherHeaderLen + data_start, f.ip_total - data_start)
        ELSE Nothing

LooseUdp(f) == TRUE
SameLength(f) == f.ip_total >= f.ihl + kUdpHeaderLen /\ f.l4len = f.ip_total - f.ihl

parse_udp_from_ip(f) ==
    LET udp_offset == kEtherHeaderLen + f.ihl
    IN  IF /\ udp_offset + kUdpHeaderLen <= f.len
           /\ f.l4len >= kUdpHeaderLen /\ udp_offset + f.l4len <= f.len
           /\ SameLength(f)
        THEN Payload(udp_offset + kUdpHeaderLen, f.l4len - kUdpHeaderLen)
        ELSE Nothing

\* parse_icmp: the headers a Fragmentation Needed message embeds, up to the ports.
\* For an ICMP frame l4len is the embedded header's length.
parse_icmp(f) ==
    LET emb == kEtherHeaderLen + f.ihl + kIcmpHeaderLen
        parse_end == IF f.len < kEtherHeaderLen + f.ip_total THEN f.len ELSE kEtherHeaderLen + f.ip_total
    IN  IF ~InFrame(f) \/ f.ip_total < f.ihl + kIcmpHeaderLen \/ emb > f.len THEN Nothing
        ELSE IF \/ emb + kIpv4HeaderLen > parse_end
                \/ f.l4len < kIpv4HeaderLen \/ emb + f.l4len + 1 > parse_end
        THEN Payload(emb, 0)
        ELSE Payload(emb + f.l4len, 1)
-----------------------------------------------------------------------------
\* parse_tcp_options: the options it reads, as places in the option bytes.
OptionFits(i, len, n) == i + len <= n

parse_tcp_options(opts) ==
    LET n == Len(opts)
        read[i \in Nat] ==
            IF i >= n THEN {}
            ELSE IF opts[i + 1] = 0 THEN {}
            ELSE IF opts[i + 1] = 1 THEN read[i + 1]
            ELSE IF i + 1 >= n \/ opts[i + 2] < 2 \/ ~OptionFits(i, opts[i + 2], n) THEN {}
            ELSE {[kind |-> opts[i + 1], at |-> i, len |-> opts[i + 2]]} \cup read[i + opts[i + 2]]
    IN  [ok |-> TRUE, opts |-> read[0]]

\* write_syn_options: MSS, SACK permitted, window scale, padded to whole words.
write_syn_options(mss) == <<2, 4, mss, mss, 4, 2, 1, 3, 3, 0, 1, 1>>
-----------------------------------------------------------------------------
\* internet_checksum: the carries of the sum are added back until none is left.
Base == (ByteMax + 1) * (ByteMax + 1)
CkSum(words) == FoldSeq(LAMBDA w, acc : w + acc, 0, words)

FoldAll(s) == LET f[x \in Nat] == IF x < Base THEN x ELSE f[(x % Base) + (x \div Base)] IN f[s]

internet_checksum(words) == [ok |-> TRUE, sum |-> (Base - 1 - FoldAll(CkSum(words))) % Base]
-----------------------------------------------------------------------------
Padded(len) == IF len < MinFrame THEN MinFrame ELSE len

\* build_packet, fill_packet (tcp) and UdpPacketTemplate::fill; a SYN has options.
build_packet(n, syn) ==
    LET hdr == kTcpHeaderLen + (IF syn THEN kSynOptionsLen ELSE 0)
    IN  [whole |-> TRUE, len |-> Padded(kEtherHeaderLen + kIpv4HeaderLen + hdr + n),
         ihl |-> kIpv4HeaderLen, ip_total |-> kIpv4HeaderLen + hdr + n, l4len |-> hdr]

fill_udp(n) ==
    [whole |-> TRUE, len |-> Padded(kEtherHeaderLen + kIpv4HeaderLen + kUdpHeaderLen + n),
     ihl |-> kIpv4HeaderLen, ip_total |-> kIpv4HeaderLen + kUdpHeaderLen + n,
     l4len |-> kUdpHeaderLen + n]

Lengths == 0..MaxFrame
Arriving == [whole : {TRUE}, len : Lengths, ihl : 0..(kIpv4HeaderLen + 1), ip_total : Lengths, l4len : Lengths]
            \cup [whole : {FALSE}, len : {MaxFrame}, ihl : {kIpv4HeaderLen}, ip_total : {MaxFrame}, l4len : {kTcpHeaderLen}]

PWInit ==
    /\ parsed = NotYet
    /\ \/ pkind \in {"tcp", "udp", "icmp"} /\ frame \in Arriving /\ pbuilt = NotBuilt
       \/ /\ pkind = "tcp" /\ pbuilt \in 0..MaxPayload
          /\ \E syn \in BOOLEAN : frame = build_packet(pbuilt, syn)
       \/ pkind = "udp" /\ pbuilt \in 0..MaxPayload /\ frame = fill_udp(pbuilt)
       \/ pkind = "options" /\ frame \in [1..OptLen -> 0..4] /\ pbuilt = NotBuilt
       \/ pkind = "options" /\ pbuilt \in 0..4 /\ frame = write_syn_options(pbuilt)
       \/ pkind = "checksum" /\ frame \in [1..CkWords -> 0..(Base - 1)] /\ pbuilt = NotBuilt

parse_packet(f) == IF ~parse_ip_header(f) THEN Nothing
                   ELSE IF pkind = "tcp" THEN parse_tcp_from_ip(f)
                   ELSE IF pkind = "udp" THEN parse_udp_from_ip(f) ELSE parse_icmp(f)

Parse ==
    /\ parsed = NotYet
    /\ \/ pkind \in {"tcp", "udp", "icmp"} /\ parsed' = parse_packet(frame)
       \/ pkind = "options" /\ parsed' = parse_tcp_options(frame)
       \/ pkind = "checksum" /\ parsed' = internet_checksum(frame)
    /\ UNCHANGED <<pkind, frame, pbuilt>>

PWNext == Parse
-----------------------------------------------------------------------------
\* Whatever lengths a frame claims, what is read from it lies behind its headers,
\* in the frame, and in the datagram: never in the padding.
PayloadInDatagram ==
    (pkind \in {"tcp", "udp", "icmp"} /\ parsed.ok) =>
        /\ parsed.start >= kEtherHeaderLen + frame.ihl /\ parsed.n >= 0
        /\ parsed.start + parsed.n <= frame.len
        /\ parsed.start + parsed.n <= kEtherHeaderLen + frame.ip_total

\* What the templates build, padded by the NIC, reads back as it was built.
BuiltReadsBack ==
    (pbuilt # NotBuilt /\ parsed # NotYet) =>
        /\ pkind \in {"tcp", "udp"} => parsed.ok /\ parsed.n = pbuilt
        /\ pkind = "options" => {o.kind : o \in parsed.opts} = {2, 3, 4}

\* No option is read beyond the options, and none overlaps another.
OptionsInHeader ==
    (pkind = "options" /\ parsed # NotYet) =>
        \A o \in parsed.opts :
            /\ o.at + o.len <= Len(frame)
            /\ \A q \in parsed.opts : q.at < o.at => q.at + q.len <= o.at

\* In one's complement the data and its checksum add up to zero, which is what a
\* receiver verifies.
ChecksumVerifies ==
    (pkind = "checksum" /\ parsed # NotYet) => (CkSum(frame) + parsed.sum) % (Base - 1) = 0

\* Packets: what is built is read back, and what is read lies within the
\* packet.
WireTrue ==
    /\ PayloadInDatagram /\ BuiltReadsBack /\ OptionsInHeader
    /\ ChecksumVerifies
=============================================================================
