---------------------------- MODULE HttpExchange ----------------------------
(***************************************************************************)
(* The HTTP/1.1 exchanges of eph-net, which share one parser and one       *)
(* builder: HttpClient::request over a stream that is used again, the      *)
(* CONNECT to a proxy (perform_http_connect) and the WebSocket upgrade     *)
(* (WsHandshakeDriver), after which the connection carries other bytes.    *)
(* The wire carries units: a status line, a header line, the blank line, a *)
(* byte of a body, a byte behind the exchange.  A line that has not        *)
(* arrived in full is not there yet, as for find_crlf.  The server is      *)
(* external: it reads requests with parse_http_request, answers each with  *)
(* one of the responses below and may close.                               *)
(***************************************************************************)
EXTENDS Integers, Sequences, SequencesExt, FiniteSetsExt

CONSTANTS max_response_bytes,     \* of a response, in units
          max_response_headers,
          RequestBuf,             \* request_buf_capacity: what a request may need
          HandshakeBuf,           \* the receive buffer of CONNECT and upgrade
          DeflateRequest,         \* WsHandshakeDeflate::request
          MaxExchanges,           \* bound on the requests of a client
          MaxRaw                  \* bound on the bytes behind a handshake

ASSUME HttpAssumption ==
    /\ max_response_bytes \in Nat \ {0} /\ max_response_headers \in Nat \ {0}
    /\ RequestBuf \in Nat /\ HandshakeBuf \in Nat \ {0}
    /\ DeflateRequest \in BOOLEAN /\ MaxExchanges \in Nat /\ MaxRaw \in Nat

VARIABLES
    qkind,      \* which of the three it is: "client", "connect", "ws"
    qpc,        \* "idle", "sending", "receiving", "upgraded", "failed"
    qreq,       \* the number of the request
    qsent,      \* total_sent
    qout,       \* client to server, not read yet
    qin,        \* server to client, not delivered yet
    qrx,        \* rx_buffer_, rx_buf, rx_
    qhandler,   \* whose on_message the stream has: "user" or "client"
    qlate,      \* the deadline of the call has passed
    qstate,     \* the stream: "open", "closing" (the peer closed, bytes may be left), "closed"
    qresult,    \* what the last call returned
    qleft,      \* leftover: the bytes read behind the response
    qdeflate,   \* WsHandshakeDeflate::negotiated
    qsaid,      \* history: the responses the server gave, by request
    qraw,       \* history: bytes it sent behind an accepted handshake
    qclean      \* history: every request so far has had its one answer

qcall == <<qpc, qreq, qsent, qrx, qhandler, qlate, qresult, qleft, qdeflate>>
qpeer == <<qsaid, qraw>>
qvars == <<qkind, qcall, qout, qin, qstate, qpeer, qclean>>

\* Content-Length headers and their values; the largest is over kMaxBodySize.
Lengths == [cl0 |-> 0, cl1 |-> 1, cl2 |-> 2]
Resp(code, hdrs, body) == [code |-> code, hdrs |-> hdrs, body |-> body]

\* What servers answer: with a body, without, without saying so, chunked, with a
\* length given twice, with too many headers, with a length too large.
ClientResponses ==
    {Resp(200, <<"cl2">>, 2), Resp(200, <<"x", "cl0">>, 0), Resp(204, << >>, 0), Resp(304, <<"cl2">>, 0),
     Resp(200, << >>, 1), Resp(200, <<"te">>, 1), Resp(200, <<"cl1", "cl1">>, 1), Resp(200, <<"cl1", "cl2">>, 2),
     Resp(200, <<"x", "x", "cl0">>, 0), Resp(200, <<"clbig">>, 2), Resp(100, << >>, 0)}
ConnectResponses ==
    {Resp(200, << >>, 0), Resp(200, <<"cl0">>, 0), Resp(200, <<"te">>, 0), Resp(407, <<"cl1">>, 1), Resp(502, << >>, 0)}
UpgradeResponses ==
    {Resp(101, <<"upgrade", "accept">>, 0), Resp(101, <<"upgrade", "other">>, 0), Resp(101, <<"accept">>, 0),
     Resp(101, <<"upgrade", "accept", "deflate">>, 0), Resp(101, <<"upgrade", "accept", "window9">>, 0),
     Resp(200, <<"cl1">>, 1)}
Responses ==
    CASE qkind = "client" -> ClientResponses [] qkind = "connect" -> ConnectResponses [] OTHER -> UpgradeResponses

\* build_http_response.
build_http_response(id, r) ==
    <<<<"status", id, r.code>>>> \o [i \in DOMAIN r.hdrs |-> <<"hdr", id, r.hdrs[i]>>]
        \o <<<<"end", id, 0>>>> \o [i \in 1..r.body |-> <<"body", id, i>>]

IsLine(u) == u[1] \in {"status", "hdr", "end"}

-----------------------------------------------------------------------------

\* One line of parse_header_block, in the order of its tests.
HeaderError(hs, j, cap) ==
    CASE hs[j] = "te" -> "CodecBad"
      [] hs[j] = "clbig" -> "CodecOverflow"
      [] hs[j] \in DOMAIN Lengths
         /\ \E i \in 1..(j - 1) : hs[i] \in DOMAIN Lengths /\ Lengths[hs[i]] # Lengths[hs[j]] -> "CodecBad"
      [] j > cap -> "CodecOverflow"
      [] OTHER -> "none"

\* parse_header_block behind the first line: the first line that is in error
\* decides, whether the block is complete or not.
parse_header_block(b, cap) ==
    LET ends == {i \in 2..Len(b) : b[i][1] = "end"}
        last == IF ends = {} THEN Len(b) ELSE Min(ends) - 1
        hs == [i \in 1..(last - 1) |-> b[i + 1][3]]
        wrong == {j \in DOMAIN hs : HeaderError(hs, j, cap) # "none"}
        cls == {j \in DOMAIN hs : hs[j] \in DOMAIN Lengths}
    IN  [st |-> IF wrong # {} THEN HeaderError(hs, Min(wrong), cap) ELSE IF ends = {} THEN "more" ELSE "done",
         end |-> last + 1, names |-> ToSet(hs),
         len |-> IF cls = {} THEN -1 ELSE Lengths[hs[Min(cls)]]]

NotParsed(st) == [st |-> st, id |-> 0, code |-> 0, names |-> {}, body |-> << >>, used |-> 0]

Bodyless(code) == code \in 100..199 \cup {204, 304}

\* parse_http_response: more bytes, an error, or the response and what it used.
parse_http_response(b, cap) ==
    LET first == b[1]
        h == parse_header_block(b, cap)
        bodyless == Bodyless(first[3])
        stop == h.end + (IF bodyless THEN 0 ELSE h.len)
    IN  IF b = << >> THEN NotParsed("more")
        ELSE IF first[1] # "status"
             THEN NotParsed(IF \E i \in DOMAIN b : IsLine(b[i]) THEN "CodecBad" ELSE "more")
        ELSE IF h.st # "done" THEN NotParsed(h.st)
        ELSE IF ~bodyless /\ h.len < 0 THEN NotParsed("CodecBad")
        ELSE IF stop > Len(b) THEN NotParsed("more")
        ELSE [st |-> "done", id |-> first[2], code |-> first[3], names |-> h.names,
              body |-> SubSeq(b, h.end + 1, stop), used |-> stop]

-----------------------------------------------------------------------------

\* A request: its first line, its header block and a byte of body.
ReqLen == 3
build_http_request(n) == [i \in 1..ReqLen |-> <<n, i>>]

\* parse_http_request, at the server: the third unit is the body whatever it is.
parse_http_request(b) ==
    CASE Len(b) >= 1 /\ b[1][2] # 1 -> "CodecBad"
      [] Len(b) >= 2 /\ b[2][2] # 2 -> "CodecBad"
      [] Len(b) < ReqLen -> "more"
      [] OTHER -> "done"

\* External: the server reads a request and answers it; an interim response is
\* followed by the final one.  An accepted handshake may be followed at once by
\* the bytes it was made for.
ServerAnswers ==
    /\ qstate = "open" /\ parse_http_request(qout) = "done"
    /\ LET id == qout[1][1]
       IN  \E r \in Responses :
             LET final == IF r.code = 100 THEN Resp(204, << >>, 0) ELSE r
             IN  /\ qin' = qin \o build_http_response(id, r)
                             \o (IF r.code = 100 THEN build_http_response(id, final) ELSE << >>)
                 /\ qsaid' = [qsaid EXCEPT ![id] = final]
                 /\ qclean' = (qclean /\ r.code # 100)
    /\ qout' = SubSeq(qout, ReqLen + 1, Len(qout))
    /\ UNCHANGED <<qkind, qcall, qstate, qraw>>

ServerSends ==
    /\ qkind # "client" /\ qstate = "open" /\ qraw < MaxRaw
    /\ qsaid[1].code \in {101, 200} /\ (qkind = "ws" => qsaid[1].code = 101)
    /\ qraw' = qraw + 1 /\ qin' = Append(qin, <<"raw", 0, qraw'>>)
    /\ UNCHANGED <<qkind, qcall, qout, qstate, qsaid, qclean>>

\* External: it closes, at any time and on a request it cannot read.
ServerCloses ==
    /\ qstate = "open" /\ qstate' = "closing"
    /\ UNCHANGED <<qkind, qcall, qout, qin, qpeer, qclean>>

DeadlinePasses ==
    /\ qpc \in {"sending", "receiving"} /\ ~qlate /\ qlate' = TRUE
    /\ UNCHANGED <<qkind, qpc, qreq, qsent, qrx, qhandler, qresult, qleft, qdeflate, qout, qin, qstate, qpeer, qclean>>

-----------------------------------------------------------------------------

\* The error of a request or a response that does not fit its buffer, or is refused.
Refused ==
    CASE qkind = "client" -> "CodecOverflow" [] qkind = "connect" -> "ProxyHandshakeFailed" [] OTHER -> "WsHandshakeFailed"

NoResult == [of |-> 0, st |-> "none", id |-> 0, code |-> 0, body |-> << >>]
Failed(st) == [NoResult EXCEPT !.of = qreq, !.st = st]

QInit ==
    /\ qkind \in {"client", "connect", "ws"}
    /\ qpc = "idle" /\ qreq = 0 /\ qsent = 0 /\ qrx = << >> /\ qhandler = "user" /\ qlate = FALSE
    /\ qout = << >> /\ qin = << >> /\ qstate = "open" /\ qresult = NoResult
    /\ qleft = << >> /\ qdeflate = FALSE
    /\ qsaid = [n \in 1..MaxExchanges |-> Resp(0, << >>, 0)] /\ qraw = 0 /\ qclean = TRUE

\* A call begins: the request is built and the deadline set.  A stream that is
\* not Established and a request larger than the buffer are refused.
request(len) ==
    /\ qpc = "idle" /\ qreq < MaxExchanges /\ (qkind # "client" => qreq = 0)
    /\ qreq' = qreq + 1
    /\ IF qstate = "closed" \/ len > RequestBuf
       THEN /\ qresult' = [NoResult EXCEPT !.of = qreq + 1,
                                           !.st = IF qstate = "closed" THEN "Disconnected" ELSE Refused]
            /\ UNCHANGED <<qpc, qsent, qlate>>
       ELSE qpc' = "sending" /\ qsent' = 0 /\ qlate' = FALSE /\ qresult' = NoResult
    /\ UNCHANGED <<qkind, qrx, qhandler, qleft, qdeflate, qout, qin, qstate, qpeer, qclean>>

\* The end of a call that failed: an earlier answer may still be on its way.
Fail(st) ==
    /\ qresult' = Failed(st) /\ qhandler' = "user" /\ qclean' = FALSE
    /\ qpc' = IF qkind = "client" THEN "idle" ELSE "failed"

\* send takes some of what is left.  When all of it is out the client clears its
\* buffer and puts its own on_message in place.
SendSome(n) ==
    /\ qpc = "sending" /\ qstate # "closed" /\ n \in 1..(ReqLen - qsent)
    /\ qkind # "client" => ~qlate
    /\ qout' = qout \o SubSeq(build_http_request(qreq), qsent + 1, qsent + n)
    /\ qsent' = qsent + n
    /\ IF qsent + n = ReqLen
       THEN /\ qpc' = "receiving" /\ qrx' = << >>
            /\ qhandler' = IF qkind = "client" THEN "client" ELSE "user"
       ELSE UNCHANGED <<qpc, qrx, qhandler>>
    /\ UNCHANGED <<qkind, qreq, qlate, qresult, qleft, qdeflate, qin, qstate, qpeer, qclean>>

\* send fails, or the socket is full and the deadline has passed.
SendEnds ==
    /\ qpc = "sending" /\ (qlate \/ qstate # "open")
    /\ Fail(IF qlate THEN "Timeout" ELSE "Disconnected")
    /\ UNCHANGED <<qkind, qreq, qsent, qrx, qlate, qleft, qdeflate, qout, qin, qstate, qpeer>>

\* on_message: at most one unit more than the cap is kept.
Capped(b) == SubSeq(b, 1, Min({Len(b), max_response_bytes + 1}))

\* poll_fn: some of what has arrived goes to whoever has on_message; when all is
\* delivered the peer's close is noticed.
Poll ==
    \/ \E n \in 1..Len(qin) :
         /\ qrx' = IF qhandler = "client" THEN Capped(qrx \o SubSeq(qin, 1, n)) ELSE qrx
         /\ qin' = SubSeq(qin, n + 1, Len(qin)) /\ UNCHANGED qstate
    \/ qin = << >> /\ qstate = "closing" /\ qstate' = "closed" /\ UNCHANGED <<qrx, qin>>

\* The application polls between its calls, and the send loop while the socket is full.
PollAround ==
    /\ qkind = "client" /\ qpc \in {"idle", "sending"} /\ Poll
    /\ UNCHANGED <<qkind, qpc, qreq, qsent, qhandler, qlate, qresult, qleft, qdeflate, qout, qpeer, qclean>>

\* A turn of request()'s receive loop: parse, then the cap, the stream, the
\* deadline, then poll.
ClientTurn ==
    /\ qkind = "client" /\ qpc = "receiving"
    /\ LET p == parse_http_response(qrx, max_response_headers)
       IN  IF p.st = "done"
           THEN /\ qresult' = [of |-> qreq, st |-> "ok", id |-> p.id, code |-> p.code, body |-> p.body]
                /\ qrx' = SubSeq(qrx, p.used + 1, Len(qrx))
                /\ qpc' = "idle" /\ qhandler' = "user" /\ UNCHANGED <<qin, qstate, qclean>>
           ELSE LET st == CASE p.st # "more" -> p.st
                            [] Len(qrx) > max_response_bytes -> "CodecOverflow"
                            [] qstate = "closed" -> "Disconnected"
                            [] qlate -> "Timeout"
                            [] OTHER -> "none"
                IN  IF st # "none" THEN Fail(st) /\ UNCHANGED <<qrx, qin, qstate>>
                    ELSE Poll /\ UNCHANGED <<qpc, qhandler, qresult, qclean>>
    /\ UNCHANGED <<qkind, qreq, qsent, qlate, qleft, qdeflate, qout, qpeer>>

-----------------------------------------------------------------------------

\* Mutant: what was read behind the response is dropped.
NothingBehind(b, used) == << >>
Behind(b, used) == SubSeq(b, used + 1, Len(b))

Upgraded(b, p) ==
    /\ qpc' = "upgraded" /\ qleft' = Behind(b, p.used)
    /\ qresult' = [of |-> 1, st |-> "ok", id |-> p.id, code |-> p.code, body |-> p.body]
    /\ UNCHANGED <<qhandler, qclean>>

\* try_parse_connect_response: a status line and the blank line are enough.
try_parse_connect_response(b) ==
    LET ends == {i \in DOMAIN b : b[i][1] = "end"}
    IN  IF b[1][1] # "status" \/ ends = {} THEN NotParsed("CodecBad")
        ELSE [NotParsed("done") EXCEPT !.id = b[1][2], !.code = b[1][3], !.used = Min(ends)]

\* What perform_http_connect makes of the bytes it has.
ConnectDecides(b) ==
    LET strict == parse_http_response(b, HandshakeBuf)
        p == IF strict.st \in {"done", "more"} THEN strict ELSE try_parse_connect_response(b)
    IN  /\ qdeflate' = FALSE
        /\ CASE p.st = "more" -> UNCHANGED <<qpc, qhandler, qresult, qleft, qclean>>
             [] p.st = "done" /\ p.code \in 200..299 -> Upgraded(b, p)
             [] OTHER -> Fail(IF p.code = 407 THEN "ProxyAuthRequired" ELSE Refused) /\ UNCHANGED qleft

\* validate_: status, Upgrade and Connection, Accept, extensions.
Extensions(names) == names \cap {"deflate", "window9"}
Accepts(p) ==
    /\ p.code = 101 /\ {"upgrade", "accept"} \subseteq p.names
    /\ Extensions(p.names) # {} => DeflateRequest /\ Extensions(p.names) = {"deflate"}

UpgradeDecides(b) ==
    LET p == parse_http_response(b, HandshakeBuf)
    IN  CASE p.st = "more" -> UNCHANGED <<qpc, qhandler, qresult, qleft, qdeflate, qclean>>
          [] p.st = "done" /\ Accepts(p) -> Upgraded(b, p) /\ qdeflate' = ("deflate" \in p.names)
          [] OTHER -> Fail(Refused) /\ UNCHANGED <<qleft, qdeflate>>

\* A turn of either handshake: the buffer's room, what the socket has, the parse.
\* The deadline ends it whenever no turn has.
HandshakeTurn(n) ==
    /\ qkind # "client" /\ qpc = "receiving"
    /\ IF qlate \/ Len(qrx) = HandshakeBuf \/ (qin = << >> /\ qstate # "open")
       THEN /\ n = 0 /\ Fail(IF qlate THEN "Timeout" ELSE IF Len(qrx) = HandshakeBuf THEN Refused ELSE "Disconnected")
            /\ UNCHANGED <<qrx, qin, qleft, qdeflate>>
       ELSE LET b == qrx \o SubSeq(qin, 1, n)
            IN  /\ n \in 1..Min({Len(qin), HandshakeBuf - Len(qrx)})
                /\ qrx' = b /\ qin' = SubSeq(qin, n + 1, Len(qin))
                /\ IF qkind = "connect" THEN ConnectDecides(b) ELSE UpgradeDecides(b)
    /\ UNCHANGED <<qkind, qreq, qsent, qlate, qout, qstate, qpeer>>

QNext ==
    \/ ServerAnswers \/ ServerSends \/ ServerCloses \/ DeadlinePasses
    \/ \E len \in {ReqLen, RequestBuf + 1} : request(len)
    \/ \E n \in 1..ReqLen : SendSome(n)
    \/ SendEnds \/ PollAround \/ ClientTurn
    \/ \E n \in 0..HandshakeBuf : HandshakeTurn(n)

-----------------------------------------------------------------------------
QTypeOK ==
    /\ qpc \in {"idle", "sending", "receiving", "upgraded", "failed"} /\ qhandler \in {"user", "client"}
    /\ qreq \in 0..MaxExchanges /\ qsent \in 0..ReqLen /\ qstate \in {"open", "closing", "closed"}
    /\ Len(qrx) <= Max({max_response_bytes + 1, HandshakeBuf})

Ok == qresult.st = "ok"

\* A response that request() returns is one the server sent, whole: its status
\* and every byte of its body, also when the connection still carries what an
\* earlier call left behind, and cut anywhere.
ResponsesWhole ==
    Ok /\ qkind = "client" /\ qresult.code # 100 =>
        /\ qresult.code = qsaid[qresult.id].code
        /\ qresult.body = [i \in 1..(IF Bodyless(qresult.code) THEN 0 ELSE qsaid[qresult.id].body)
                             |-> <<"body", qresult.id, i>>]

\* As long as every request had its one answer, the response is the answer to
\* this request.
AnswersOwnRequest == Ok /\ qclean => qresult.id = qresult.of

\* request() gives on_message back on every way out.
HandlerGivenBack == qhandler = "client" => qpc = "receiving"

\* After CONNECT and upgrade no byte of what follows is lost, repeated or out of
\* order: those read with the response lead, the others are still on the socket;
\* and compression is used exactly when the server agreed to it.
NothingLostBehind ==
    qpc = "upgraded" =>
        /\ qleft \o qin = [i \in 1..qraw |-> <<"raw", 0, i>>]
        /\ qdeflate <=> "deflate" \in ToSet(qsaid[1].hdrs)

\* What the three exchanges promise their callers.
ExchangesTrue ==
    /\ QTypeOK /\ ResponsesWhole /\ AnswersOwnRequest
    /\ HandlerGivenBack /\ NothingLostBehind
=============================================================================
