----------------------------- MODULE ApiServer -----------------------------
(***************************************************************************)
(* One connection of the HTTP API, src/src/api_server.c: requests arrive   *)
(* in any fragments, may ask for a 100 Continue before their body, are     *)
(* answered in turn while the connection is kept alive, and the answers    *)
(* are written as the socket takes them.                                   *)
(*                                                                         *)
(* The client sends a script of requests.  A request is its sequence of    *)
(* tokens (a request line, a header line, the empty line, a unit of body), *)
(* each one unit of the receive buffer, and whether the client waits for   *)
(* the interim answer before it sends the body.  A response is a head and, *)
(* for most codes, a body; the interim answer is two units.                *)
(***************************************************************************)
EXTENDS Integers, Sequences, SequencesExt

CONSTANTS Scripts, Cap

VARIABLE api

(* http_parse, check_http_version, http_parsehdr and the header dispatch   *)
(* of recv_cb, one token at a time; err is the status to reject with.      *)
NoLine == [method |-> "", path |-> "", ver |-> "", conf |-> ""]
Fresh == [line |-> NoLine, hdr |-> FALSE, host |-> FALSE, close |-> FALSE, len |-> -1, expect |-> FALSE,
          body |-> 0, used |-> 0, err |-> 0]
Err(c, code) == [c EXCEPT !.err = code]

VersionStatus(ver) == IF ver = "1.0" \/ ver = "1.1" THEN 0 ELSE IF ver = "2.0" THEN 505 ELSE 400

RequestLine(c, t) ==
    IF t.k = "empty" THEN c
    ELSE IF t.k # "line" THEN Err(c, 400)
    ELSE [c EXCEPT !.line = t.v, !.err = VersionStatus(t.v.ver)]

Header(c, t) ==
    CASE t.k = "empty" -> IF ~c.host /\ c.line.ver # "1.0" THEN Err(c, 400) ELSE [c EXCEPT !.hdr = TRUE]
      [] t.k = "host" -> IF c.host \/ ~t.v THEN Err(c, 400) ELSE [c EXCEPT !.host = TRUE]
      [] t.k = "connection" -> [c EXCEPT !.close = @ \/ t.v]
      [] t.k = "length" -> IF c.len # -1 \/ t.v < 0 THEN Err(c, 400) ELSE [c EXCEPT !.len = t.v]
      [] t.k = "expect" -> IF c.line.ver = "1.0" THEN c ELSE IF t.v THEN [c EXCEPT !.expect = TRUE] ELSE Err(c, 417)
      [] t.k = "encoding" -> Err(c, 501)
      [] OTHER -> Err(c, 400)

Parse(c, t) ==
    IF c.err # 0 THEN c
    ELSE IF c.hdr THEN [c EXCEPT !.body = @ + 1]
    ELSE [(IF c.line = NoLine THEN RequestLine(c, t) ELSE Header(c, t)) EXCEPT !.used = @ + 1]

ContentLength(c) == IF c.len = -1 THEN 0 ELSE c.len
(* The stage after the headers: the body must fit behind them.             *)
TooLarge(c) == c.hdr /\ ContentLength(c) > Cap - 1 - c.used
Complete(c) == c.hdr /\ c.body >= ContentLength(c)
Judge(c) == IF c.err = 0 /\ TooLarge(c) THEN Err(c, 413) ELSE c

(* Defect: bytes behind the request do not end the connection.             *)
KeepAliveTrailing(c) == c.line.ver = "1.1" /\ ~c.close
KeepAlive(c) == c.line.ver = "1.1" /\ ~c.close /\ c.body <= ContentLength(c)

-----------------------------------------------------------------------------
(* api_handle: the codes a complete request may get.                       *)
HandleConfigPut(c) ==
    IF c.len = -1 THEN {411} ELSE IF c.len = 0 THEN {400}
    ELSE IF c.line.conf = "bad" THEN {400} ELSE IF c.line.conf = "listen" THEN {403} ELSE {204, 500}

ApiHandle(c) ==
    LET l == c.line
    IN  CASE l.path = "bad" -> {400}
          [] l.path = "config" -> IF l.method = "GET" THEN {200, 500} ELSE IF l.method = "PUT" THEN HandleConfigPut(c) ELSE {405}
          [] l.path = "healthy" -> IF l.method = "GET" THEN {200, 503} ELSE {405}
          [] l.path = "stats" -> IF l.method \in {"GET", "POST"} THEN {200, 500} ELSE {405}
          [] l.path = "metrics" -> IF l.method = "GET" THEN {200, 500} ELSE {405}
          [] OTHER -> {404}

HasBody(code) == code \in {200, 403, 503}

-----------------------------------------------------------------------------
(* Defect: the interim answer stays owed when a final one is started.      *)
StartResponseKeepsExpect(a, code) ==
    [a EXCEPT !.mode = "send", !.resp = IF HasBody(code) THEN <<<<"head", code>>, <<"body", code>>>> ELSE <<<<"head", code>>>>]
StartResponse(a, code) ==
    [a EXCEPT !.mode = "send", !.ctx.expect = FALSE,
              !.resp = IF HasBody(code) THEN <<<<"head", code>>, <<"body", code>>>> ELSE <<<<"head", code>>>>]

Free(a) == [a EXCEPT !.alive = FALSE]

Reset(a) == [a EXCEPT !.ctx = Fresh, !.rlen = 0, !.resp = <<>>, !.cpos = 0, !.mode = "recv", !.keep = FALSE]

Interim(i) == <<"interim", i>>
(* send_continue writes k of the units still owed.                         *)
SentContinue(a, k) == [a EXCEPT !.cpos = @ + k, !.wire = @ \o [i \in 1 .. k |-> Interim(a.cpos + i)]]
ContinueDone(a) == [a EXCEPT !.ctx.expect = FALSE, !.cpos = 0, !.mode = "recv"]
AfterContinue(a) == IF a.cpos = 2 THEN ContinueDone(a) ELSE [a EXCEPT !.mode = "send"]

Answer(a, code) ==
    StartResponse([a EXCEPT !.keep = KeepAlive(a.ctx)], code)

(* recv_cb once n tokens have been read and parsed.                        *)
Received(a, k) ==
    IF a.ctx.err # 0 THEN {StartResponse(a, a.ctx.err)}
    ELSE IF ~a.ctx.hdr THEN {a}
    ELSE IF Complete(a.ctx) THEN {Answer(a, code) : code \in ApiHandle(a.ctx)}
    ELSE IF a.ctx.expect THEN {AfterContinue(SentContinue(a, k))}
    ELSE {a}

ReadTokens(a, n) ==
    [a EXCEPT !.ctx = Judge(FoldLeft(Parse, @, SubSeq(a.net, 1, n))), !.net = SubSeq(@, n + 1, Len(@)), !.rlen = @ + n]

RecvCb ==
    /\ api.alive /\ api.mode = "recv"
    /\ \/ api.rlen >= Cap - 1 /\ api.net # <<>> /\ api' = StartResponse(api, 413)
       \/ \E n \in 1 .. Len(api.net), k \in 0 .. 2 : n <= Cap - 1 - api.rlen /\ api' \in Received(ReadTokens(api, n), k)

SendInterim == \E k \in 0 .. 2 - api.cpos : api' = AfterContinue(SentContinue(api, k))
Advance(a) == IF a.resp # <<>> THEN a ELSE IF a.keep THEN Reset(a) ELSE Free(a)
SendFinal == api' = Advance([api EXCEPT !.wire = Append(@, Head(api.resp)), !.resp = Tail(@)])
SendCb == api.alive /\ api.mode = "send" /\ IF api.ctx.expect THEN SendInterim ELSE SendFinal

(* A socket error, the peer's close, the idle timeout, api_server_stop.    *)
Gone == api.alive /\ api.cut /\ api' = Free(api)

-----------------------------------------------------------------------------
(* The client: it sends its requests token by token, and holds back a body *)
(* until an interim or a final answer came.                                *)
Heads(w) == SelectSeq(w, LAMBDA u : u[1] = "head")
Interims(w) == SelectSeq(w, LAMBDA u : u = Interim(2))
Current == api.script[api.req]
(* The interim answers that earlier requests may have had are not this     *)
(* request's; seen is how many there were when it began.                   *)
Waits ==
    /\ Current.waits /\ api.pos > 0 /\ Current.t[api.pos].k = "empty"
    /\ Len(Interims(api.wire)) = api.seen /\ Len(Heads(api.wire)) < api.req

ClientSends ==
    /\ api.alive /\ api.req <= Len(api.script) /\ api.pos < Len(Current.t) /\ ~Waits
    /\ api' = [api EXCEPT !.net = Append(@, Current.t[api.pos + 1]), !.pos = @ + 1]
ClientNext ==
    /\ api.alive /\ api.req < Len(api.script) /\ api.pos = Len(Current.t)
    /\ Current.waits => Len(Heads(api.wire)) >= api.req
    /\ api' = [api EXCEPT !.req = @ + 1, !.pos = 0, !.seen = Len(Interims(api.wire))]

Init ==
    \E s \in Scripts, cut \in BOOLEAN :
      api = [script |-> s, cut |-> cut, req |-> 1, pos |-> 0, seen |-> 0, net |-> <<>>, ctx |-> Fresh, rlen |-> 0,
             mode |-> "recv", resp |-> <<>>, cpos |-> 0, keep |-> FALSE, alive |-> TRUE, wire |-> <<>>]

Next == RecvCb \/ SendCb \/ Gone \/ ClientSends \/ ClientNext

-----------------------------------------------------------------------------
(* The codes a request may get when it is looked at in one piece.          *)
Expected(r) ==
    LET c == Judge(FoldLeft(Parse, Fresh, SubSeq(r.t, 1, IF Len(r.t) < Cap THEN Len(r.t) ELSE Cap - 1)))
    IN  IF c.err # 0 THEN {c.err} ELSE IF c.hdr THEN ApiHandle(c) ELSE {413}

(* However the bytes are split and whatever follows them, the answers on   *)
(* the wire are those of the first requests, in order, one each; a body    *)
(* follows its own head, an interim answer is whole, comes at most once    *)
(* per request and before its final answer.                                *)
AnswersInOrder ==
    LET heads == Heads(api.wire)
    IN  /\ Len(heads) <= Len(api.script)
        /\ \A i \in 1 .. Len(heads) : heads[i][2] \in Expected(api.script[i])
        /\ \A i \in 1 .. Len(api.wire) :
             LET u == api.wire[i]
                 before == IF i = 1 THEN <<"head", 0>> ELSE api.wire[i - 1]
             IN  CASE u[1] = "body" -> before = <<"head", u[2]>>
                   [] u = Interim(2) -> before = Interim(1)
                   [] u = Interim(1) -> before[1] # "interim" /\ ~(before[1] = "head" /\ HasBody(before[2]))
                   [] u[1] = "head" -> before # Interim(1) /\ ~(before[1] = "head" /\ HasBody(before[2]))

(* Neither side is left waiting: the server does not go back to reading    *)
(* with an answer unsent, and a client that holds back its body for the    *)
(* interim answer has got it once the server has read all there is.        *)
NothingOwed ==
    api.alive /\ api.mode = "recv" =>
      api.resp = <<>> /\ ~(api.net = <<>> /\ api.req <= Len(api.script) /\ Waits)
=============================================================================
