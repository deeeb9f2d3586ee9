------------------------------ MODULE WsCodec ------------------------------
(***************************************************************************)
(* eph::codec::WsCodec and its inflater, with the frame functions of       *)
(* eph::net::ws: what one whole WebSocket frame does to the reassembly     *)
(* buffer, the compression window and the output.  An incomplete frame     *)
(* changes nothing.  The stream drops the connection on any error of the   *)
(* codec, as the codec's contract says.                                    *)
(*                                                                         *)
(* The peer's messages are numbered and sent in fragments of one unit, with*)
(* control frames in between; a peer may also break the rules: continue    *)
(* what was never begun, or begin anew in the middle.  A compressed        *)
(* message can be expanded only with the window its sender had.            *)
(***************************************************************************)
EXTENDS Integers, Sequences

CONSTANTS MaxMessage,   \* max_message_size, in units
          WsMessages,   \* bound on the peer's messages
          MaxPings,     \* bound on its pings
          OutRoom,      \* control frames the OutputBuffer takes before it is flushed
          PoolSize,     \* kPoolSize: mask keys drawn at once
          MaxEncoded    \* bound on the frames we encode

ASSUME WsAssumption ==
    MaxMessage \in Nat \ {0} /\ WsMessages \in Nat /\ MaxPings \in Nat /\ OutRoom \in Nat
    /\ PoolSize \in Nat \ {0} /\ MaxEncoded \in Nat

VARIABLES
    deflate, no_takeover,            \* the negotiated configuration
    frag_buf, frag_opcode, compressed_msg,
    window,                          \* compressed messages the inflater's window is made of
    wopen,                           \* the stream has not dropped the connection
    wout,                            \* control frames waiting in the OutputBuffer
    mask_pos, mask_pool,             \* MaskKeyCache: next key, how often refilled
    peer,                            \* the peer: message, fragments sent, compressed, its window
    abandoned,                       \* history: it began a message inside another
    wgot,                            \* history: the last message delivered
    wpings, wpongs,                  \* history: pings taken off the wire, pongs written
    wkey, wframes                    \* history: the last mask key, frames encoded

codecvars == <<frag_buf, frag_opcode, compressed_msg, window>>
maskvars == <<mask_pos, mask_pool, wkey, wframes>>
WSvars == <<deflate, no_takeover, codecvars, wopen, wout, maskvars, peer, abandoned, wgot, wpings, wpongs>>

NothingGot == [msg |-> 0, parts |-> <<>>, sent |-> 0, comp |-> FALSE, dict |-> 0, peerdict |-> 0]
InnerVars == <<deflate, no_takeover>>

WSInit ==
    /\ deflate \in BOOLEAN /\ no_takeover \in BOOLEAN
    /\ frag_buf = <<>> /\ frag_opcode = 0 /\ compressed_msg = FALSE /\ window = 0
    /\ wopen = TRUE /\ wout = 0
    /\ mask_pos = 0 /\ mask_pool = 0 /\ wkey = -1 /\ wframes = 0
    /\ peer = [msg |-> 0, sent |-> 0, comp |-> FALSE, dict |-> 0]
    /\ abandoned = FALSE /\ wgot = NothingGot /\ wpings = 0 /\ wpongs = 0

\* WsFrameBad, CodecBad, CodecOverflow: the caller closes the stream.
DropStream == wopen' = FALSE /\ UNCHANGED <<wgot, codecvars>>
-----------------------------------------------------------------------------
\* encode_frame: every frame we send is masked with a key of its own.
PoolEmpty(pos) == pos >= PoolSize

TakeKey ==
    /\ wframes < MaxEncoded
    /\ LET refill == PoolEmpty(mask_pos)
           pos == IF refill THEN 0 ELSE mask_pos
           pool == IF refill THEN mask_pool + 1 ELSE mask_pool
       IN  /\ mask_pos' = pos + 1 /\ mask_pool' = pool
           /\ wkey' = pool * PoolSize + pos
    /\ wframes' = wframes + 1

\* encode, encode_text and encode_close, called by the stream.
encode ==
    /\ wopen /\ TakeKey
    /\ UNCHANGED <<InnerVars, codecvars, wopen, wout, peer, abandoned, wgot, wpings, wpongs>>

FlushOut ==
    /\ wout > 0 /\ wout' = 0
    /\ UNCHANGED <<InnerVars, codecvars, wopen, maskvars, peer, abandoned, wgot, wpings, wpongs>>

\* A ping whose pong does not fit in the OutputBuffer is an error, not a ping less.
PongFails == wopen' = FALSE /\ UNCHANGED wpings

decode_ping ==
    /\ wopen /\ wpings < MaxPings
    /\ TakeKey
    /\ \/ /\ wout < OutRoom
          /\ wout' = wout + 1 /\ wpongs' = wpongs + 1 /\ wpings' = wpings + 1
          /\ UNCHANGED wopen
       \/ wout >= OutRoom /\ PongFails /\ UNCHANGED <<wout, wpongs>>
    /\ UNCHANGED <<InnerVars, codecvars, peer, abandoned, wgot>>

\* A close frame is answered, if there is room, and ends the connection.
decode_close ==
    /\ wopen
    /\ TakeKey
    /\ wout' = IF wout < OutRoom THEN wout + 1 ELSE wout
    /\ wopen' = FALSE
    /\ UNCHANGED <<InnerVars, codecvars, peer, abandoned, wgot, wpings, wpongs>>

\* ws::decode_frame rejects the frame (reserved bits or opcode, a fragmented or
\* long control frame, a length not in its shortest form), or it is a control
\* frame with RSV1.
decode_bad ==
    /\ wopen /\ DropStream
    /\ UNCHANGED <<InnerVars, wout, maskvars, peer, abandoned, wpings, wpongs>>
-----------------------------------------------------------------------------
\* WsInflater refuses a message that expands to the limit, not only beyond it.
Inflates(size) == size < MaxMessage

WindowAfter(n) == IF no_takeover THEN 0 ELSE n

\* The frame's fragment p of message m joins what has arrived; with FIN the
\* message is handed over, expanded first if it is compressed.
\* An uncompressed message of a single frame is read where it lies, or copied
\* to be unmasked.
Accumulate(buf, opcode, comp, part, fin, size) ==
    LET all == Append(buf, part)
    IN  IF Len(all) > MaxMessage THEN DropStream
        ELSE IF ~fin
        THEN /\ frag_buf' = all /\ frag_opcode' = opcode /\ compressed_msg' = comp
             /\ UNCHANGED <<window, wopen, wgot>>
        ELSE IF comp /\ ~Inflates(size) THEN DropStream
        ELSE /\ wgot' = [msg |-> part[1], parts |-> all, sent |-> part[2], comp |-> comp,
                         dict |-> window, peerdict |-> peer'.dict]
             /\ frag_buf' \in IF comp THEN {<<>>} ELSE IF buf = <<>> THEN {<<>>, all} ELSE {all}
             /\ frag_opcode' = 0
             /\ compressed_msg' = FALSE
             /\ window' = IF comp THEN WindowAfter(window + 1) ELSE window
             /\ UNCHANGED wopen

FreshBuffer == <<>>

\* The first frame of a message.  What was in flight is discarded.
decode_first(fin, comp, size) ==
    /\ wopen /\ peer.msg < WsMessages
    /\ peer' = [msg |-> peer.msg + 1, sent |-> IF fin THEN 0 ELSE 1, comp |-> comp,
                dict |-> IF no_takeover THEN 0 ELSE IF peer.comp THEN peer.dict + 1 ELSE peer.dict]
    /\ abandoned' = (abandoned \/ peer.sent > 0)
    /\ IF comp /\ ~deflate THEN DropStream
       ELSE Accumulate(FreshBuffer, IF fin THEN 0 ELSE 1, comp, <<peer.msg + 1, 1>>, fin, size)
    /\ UNCHANGED <<InnerVars, wout, maskvars, wpings, wpongs>>

OrphanIfEmpty == frag_opcode = 0 /\ frag_buf = <<>>
Orphan == frag_opcode = 0

decode_continuation(fin, rsv1, size) ==
    /\ wopen /\ peer.msg > 0 /\ peer.sent <= MaxMessage
    /\ peer' = [peer EXCEPT !.sent = IF fin THEN 0 ELSE @ + 1]
    /\ IF Orphan \/ rsv1 THEN DropStream
       ELSE Accumulate(frag_buf, frag_opcode, compressed_msg, <<peer.msg, peer.sent + 1>>, fin, size)
    /\ UNCHANGED <<InnerVars, wout, maskvars, abandoned, wpings, wpongs>>

Sizes == 1..(MaxMessage + 1)

WSNext ==
    \/ encode \/ FlushOut \/ decode_ping \/ decode_close \/ decode_bad
    \/ \E fin \in BOOLEAN, comp \in BOOLEAN, size \in Sizes : decode_first(fin, comp, size)
    \/ \E fin \in BOOLEAN, rsv1 \in BOOLEAN, size \in Sizes : decode_continuation(fin, rsv1, size)

WSSpec == WSInit /\ [][WSNext]_WSvars
-----------------------------------------------------------------------------
WSTypeOK ==
    /\ Len(frag_buf) <= MaxMessage /\ frag_opcode \in {0, 1} /\ compressed_msg \in BOOLEAN
    /\ window \in 0..WsMessages /\ wopen \in BOOLEAN /\ wout \in 0..OutRoom
    /\ mask_pos \in 0..PoolSize /\ mask_pool \in 0..MaxEncoded /\ wframes \in 0..MaxEncoded
    /\ wpings \in 0..MaxPings /\ wpongs \in 0..MaxPings

\* What the application gets is one message of the peer's, all its fragments in
\* order and nothing else, with control frames between them, messages abandoned
\* in the middle and continuations of nothing around it.
DeliveredWhole ==
    wgot # NothingGot => wgot.parts = [i \in 1..wgot.sent |-> <<wgot.msg, i>>]

\* A compressed message is expanded with the window its sender compressed it with:
\* kept from message to message, or emptied after each, as was negotiated.
WindowInStep == (wgot.comp /\ ~abandoned) => wgot.dict = wgot.peerdict

\* Every ping taken off the wire has its pong in the output.
PingsAnswered == wpings = wpongs

\* No mask key is used twice, also when the pool of keys runs out and is refilled.
MasksFresh == wkey = wframes - 1

\* The WebSocket codec delivers the peer's messages whole, with the window the
\* peer compressed with, answers its pings, and masks every frame anew.
MessagesTrue ==
    /\ WSTypeOK /\ DeliveredWhole /\ WindowInStep /\ PingsAnswered
    /\ MasksFresh
=============================================================================
