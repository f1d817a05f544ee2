------------------------------ MODULE WireTls ------------------------------
(***************************************************************************)
(* The transport of one session, src/src/mux/wire.c, driven by the socket  *)
(* watcher of session.c, between a dialing end 1 and an accepting end 2.   *)
(* Three transports: "plain" TCP, "mem" (the default TLS mode: the library *)
(* works on memory buffers and wire.c moves the ciphertext) and "fd" (the  *)
(* library owns the socket).  The unit is the record: flight n of the TLS  *)
(* handshake, the n-th application record, or the close_notify after n - 1 *)
(* of them.  The library (shim/tls_openssl.c, shim/tls_mbedtls.c) is seen  *)
(* through its contract: it runs the handshake inside send and recv,       *)
(* refuses a record whose number is not the next one and reports WANT_READ *)
(* or WANT_WRITE.  Record 1 of each end is its hello.                      *)
(*                                                                         *)
(* net[e] holds what end e has written and its peer not yet read, at most  *)
(* SockBuf records.  The one time-out is the close deadline, which is far  *)
(* longer than an exchange and therefore fires only when nothing else can. *)
(***************************************************************************)
EXTENDS Integers, Sequences, SequencesExt

CONSTANT SockBuf

VARIABLE wire

Ends == {1, 2}
Peer(e) == 3 - e
Rec(kind, n) == [k |-> kind, n |-> n]
Up == {"handshake", "established"}
Ended == {"suspended", "closed"}
Tls(w) == w.mode # "plain"

SetEnd(w, e, x) == [w EXCEPT !.e[e] = x]
Room(w, e) == Len(w.net[e]) < SockBuf

-----------------------------------------------------------------------------
(* The socket.  A write to a peer that has closed is accepted until its    *)
(* RST comes back; a read returns what arrived before FIN or RST first.    *)
SockPut(w, e, recs) == [w EXCEPT !.net[e] = @ \o recs]

(* "data", "eof", "reset" or "again".                                      *)
SockState(w, e) ==
    IF w.net[Peer(e)] # <<>> THEN "data"
    ELSE IF w.rst[e] THEN "reset"
    ELSE IF w.fin[Peer(e)] THEN "eof" ELSE "again"

SockDrop(w, e, k) == [w EXCEPT !.net[Peer(e)] = SubSeq(@, k + 1, Len(@))]

-----------------------------------------------------------------------------
(* The TLS library: input and output are memory buffers or the socket.     *)
LibIn(w, e) == IF w.mode = "mem" THEN w.e[e].rb ELSE w.net[Peer(e)]
LibTake(w, e) == IF w.mode = "mem" THEN [w EXCEPT !.e[e].rb = Tail(@)] ELSE SockDrop(w, e, 1)
LibRoom(w, e) == w.mode = "mem" \/ Room(w, e)
LibPut(w, e, r) == IF w.mode = "mem" THEN [w EXCEPT !.e[e].wb = Append(@, r)] ELSE SockPut(w, e, <<r>>)

(* Flights 1 and 3 are the client's, 2 the server's; hs counts the flights *)
(* an end has put or taken.                                                *)
Sends(e, flight) == (flight % 2 = 1) = (e = 1)

HsStep(w, e) ==
    LET n == w.e[e].hs + 1
    IN  IF n > 3 THEN w
        ELSE IF Sends(e, n) THEN IF LibRoom(w, e) THEN [LibPut(w, e, Rec("hs", n)) EXCEPT !.e[e].hs = n] ELSE w
        ELSE IF LibIn(w, e) # <<>> /\ Head(LibIn(w, e)) = Rec("hs", n)
             THEN [LibTake(w, e) EXCEPT !.e[e].hs = n] ELSE w

Handshake(w, e) == HsStep(HsStep(HsStep(w, e), e), e)

Result(w, err, n) == [w |-> w, err |-> err, n |-> n]

(* Why the handshake does not go on.                                       *)
HsWaits(w, e) ==
    Result(w, IF Sends(e, w.e[e].hs + 1) THEN "want write"
              ELSE IF LibIn(w, e) # <<>> \/ (w.mode = "fd" /\ SockState(w, e) # "again") THEN "fatal"
              ELSE "want read", 0)

LibRecvNext(w, e, r) ==
    IF r = Rec("data", w.e[e].rx + 1) THEN Result([LibTake(w, e) EXCEPT !.e[e].rx = @ + 1], "none", r.n)
    ELSE IF r = Rec("cn", w.e[e].rx + 1) THEN Result([LibTake(w, e) EXCEPT !.e[e].zr = TRUE], "zero return", 0)
    ELSE Result(w, "fatal", 0)

LibRecv(w, e) ==
    IF w.e[e].hs < 3 THEN HsWaits(w, e)
    ELSE IF w.e[e].zr THEN Result(w, "zero return", 0)
    ELSE IF LibIn(w, e) # <<>> THEN LibRecvNext(w, e, Head(LibIn(w, e)))
    ELSE Result(w, IF w.mode = "fd" /\ SockState(w, e) # "again" THEN "fatal" ELSE "want read", 0)

LibSend(w, e, n) ==
    IF w.e[e].hs < 3 THEN HsWaits(w, e)
    ELSE IF w.mode = "fd" /\ w.rst[e] THEN Result(w, "fatal", 0)
    ELSE IF ~LibRoom(w, e) THEN Result(w, "want write", 0)
    ELSE Result([LibPut(w, e, Rec("data", n)) EXCEPT !.e[e].tx = n], "none", 1)

(* tls_fire_send and tls_fire_recv, the notifiers wire.c registers.        *)
Fire(r, e) ==
    [r EXCEPT !.w.e[e].txp = @ \/ r.w.e[e].wb # <<>>,
              !.w.e[e].rdbl = @ \/ (r.w.e[e].rb # <<>> /\ r.err # "want read")]

TlsRecv(w, e) == Fire(LibRecv(Handshake(w, e), e), e)
TlsSend(w, e, n) == Fire(LibSend(Handshake(w, e), e, n), e)

TlsShutdown(w, e) ==
    IF w.e[e].cn THEN Result(w, "none", 0)
    ELSE IF w.e[e].hs < 3 \/ (w.mode = "fd" /\ w.rst[e]) THEN Result(w, "fatal", 0)
    ELSE IF ~LibRoom(w, e) THEN Result(w, "want write", 0)
    ELSE Result([LibPut(w, e, Rec("cn", w.e[e].tx + 1)) EXCEPT !.e[e].cn = TRUE, !.e[e].txp = TRUE], "none", 0)

-----------------------------------------------------------------------------
(* wire.c.  err "none", "again" (the socket is full) or "fatal".           *)
(* Defect: what the socket did not take is forgotten.                      *)
PushRawDropsRest(w, e, raw) ==
    IF raw = <<>> THEN Result(w, "none", 0)
    ELSE IF w.rst[e] THEN Result([w EXCEPT !.e[e].raw = raw], "fatal", 0)
    ELSE LET k == IF Len(raw) < SockBuf - Len(w.net[e]) THEN Len(raw) ELSE SockBuf - Len(w.net[e])
         IN  Result(SockPut(w, e, SubSeq(raw, 1, k)), "none", 0)

PushRaw(w, e, raw) ==
    IF raw = <<>> THEN Result(w, "none", 0)
    ELSE IF w.rst[e] THEN Result([w EXCEPT !.e[e].raw = raw], "fatal", 0)
    ELSE LET k == IF Len(raw) < SockBuf - Len(w.net[e]) THEN Len(raw) ELSE SockBuf - Len(w.net[e])
         IN  Result([SockPut(w, e, SubSeq(raw, 1, k)) EXCEPT !.e[e].raw = SubSeq(raw, k + 1, Len(raw))],
                    IF k < Len(raw) THEN "again" ELSE "none", 0)

CipherPush(w, e) == PushRaw([w EXCEPT !.e[e].wb = <<>>, !.e[e].raw = <<>>], e, w.e[e].raw \o w.e[e].wb)

Want(w, e, err, on, dir) == [w EXCEPT !.e[e].want = IF err = on THEN dir ELSE @]

(* After the library took, or refused, the plaintext: [w, ok, n].          *)
SentVia(p, n) == Result(p.w, IF p.err = "fatal" THEN "fatal" ELSE "none", n)

BufferedSent(r, e) ==
    IF r.err \in {"fatal", "zero return"} THEN r
    ELSE SentVia(CipherPush(Want(r.w, e, r.err, "want read", "r"), e), r.n)

SendBuffered(p, e, n) ==
    IF p.err # "none" THEN Result(p.w, IF p.err = "again" THEN "none" ELSE "fatal", 0)
    ELSE BufferedSent(TlsSend(p.w, e, n), e)

FdSent(r, e) ==
    IF r.err \in {"fatal", "zero return"} THEN r
    ELSE Result(Want(r.w, e, r.err, "want read", "r"), "none", r.n)

PlainSend(w, e, n) ==
    IF w.rst[e] THEN Result(w, "fatal", 0)
    ELSE IF ~Room(w, e) THEN Result(w, "none", 0)
    ELSE Result([SockPut(w, e, <<Rec("data", n)>>) EXCEPT !.e[e].tx = n], "none", 1)

WireSend(w, e, n) ==
    IF w.mode = "plain" THEN PlainSend(w, e, n)
    ELSE IF w.mode = "mem" THEN SendBuffered(CipherPush([w EXCEPT !.e[e].want = "-"], e), e, n)
    ELSE FdSent(TlsSend([w EXCEPT !.e[e].want = "-"], e, n), e)

Eof(w, e) == [w EXCEPT !.e[e].rxo = FALSE, !.e[e].txp = TRUE, !.e[e].eof = TRUE]
RxFail(w, e) == Result([w EXCEPT !.e[e].rxo = FALSE], "fatal", 0)

(* What a receive hands on once the ciphertext it caused is pushed.        *)
Received(p, e, n) ==
    IF p.err = "fatal" THEN RxFail(p.w, e)
    ELSE Result([p.w EXCEPT !.e[e].txp = @ \/ p.err = "again"], "none", n)

(* Defect: a FIN ends the stream cleanly with or without a close_notify.   *)
BufferedGotAnyFin(r, e, fin) ==
    IF r.err = "zero return" \/ (fin /\ r.n = 0) THEN SentVia(CipherPush(Eof(r.w, e), e), 0)
    ELSE IF r.err = "fatal" THEN RxFail(r.w, e)
    ELSE Received(CipherPush(Want(r.w, e, r.err, "want write", "w"), e), e, r.n)

(* fin: the socket is at its end, so without a close_notify the stream is  *)
(* truncated.                                                              *)
BufferedGot(r, e, fin) ==
    IF r.err = "zero return" THEN SentVia(CipherPush(Eof(r.w, e), e), 0)
    ELSE IF r.err = "fatal" \/ (fin /\ r.n = 0) THEN RxFail(r.w, e)
    ELSE Received(CipherPush(Want(r.w, e, r.err, "want write", "w"), e), e, r.n)

Feed(w, e, k) == [SockDrop(w, e, k) EXCEPT !.e[e].rb = @ \o SubSeq(w.net[Peer(e)], 1, k)]
Chunk(w, e, all) == IF all THEN Len(w.net[Peer(e)]) ELSE 1

SockBuffered(w, e, all) ==
    IF SockState(w, e) = "reset" THEN RxFail(w, e)
    ELSE BufferedGot(TlsRecv(IF SockState(w, e) = "data" THEN Feed(w, e, Chunk(w, e, all)) ELSE w, e),
                     e, SockState(w, e) = "eof")

(* tls_readable: what the library already holds comes first.               *)
RecvDrained(r, e, all) ==
    IF r.err = "zero return" \/ r.n > 0 THEN BufferedGot(r, e, FALSE) ELSE SockBuffered(r.w, e, all)

RecvBuffered(w, e, all) ==
    IF w.e[e].rdbl THEN RecvDrained(TlsRecv([w EXCEPT !.e[e].rdbl = FALSE], e), e, all)
    ELSE SockBuffered(w, e, all)

FdGot(r, e) ==
    IF r.err = "zero return" THEN Result(Eof(r.w, e), "none", 0)
    ELSE IF r.err = "fatal" THEN RxFail(r.w, e)
    ELSE Result(Want(r.w, e, r.err, "want write", "w"), "none", r.n)

PlainRecv(w, e) ==
    CASE SockState(w, e) = "data"  -> Result(SockDrop(w, e, 1), "none", Head(w.net[Peer(e)]).n)
      [] SockState(w, e) = "reset" -> RxFail(w, e)
      [] SockState(w, e) = "eof"   -> Result(Eof(w, e), "none", 0)
      [] OTHER                     -> Result(w, "none", 0)

WireRecv(w, e, all) ==
    IF w.mode = "plain" THEN PlainRecv(w, e)
    ELSE IF w.mode = "mem" THEN RecvBuffered([w EXCEPT !.e[e].want = "-"], e, all)
    ELSE FdGot(TlsRecv([w EXCEPT !.e[e].want = "-", !.e[e].rdbl = FALSE], e), e)

(* WIRE_FLUSH_DONE, BLOCKED or ERROR.                                      *)
WireFlush(w, e) == IF w.mode = "mem" THEN CipherPush(w, e) ELSE Result(w, "none", 0)

-----------------------------------------------------------------------------
(* The session around it.                                                  *)
Leave(w, e, st) ==
    [w EXCEPT !.e[e].st = st, !.e[e].ev = {}, !.e[e].want = "-", !.e[e].txp = FALSE,
              !.e[e].raw = <<>>, !.e[e].wb = <<>>, !.e[e].rb = <<>>, !.e[e].q = <<>>,
              !.fin[e] = TRUE, !.gone[e] = TRUE]

Reset(w, e) == Leave(w, e, "closed")
SuspendOrReset(w, e) == Leave(w, e, IF w.e[e].st = "established" THEN "suspended" ELSE "closed")

(* mux_wire_discard_buffers: staged ciphertext goes too; cut notes that    *)
(* some was lost between two records the peer will be asked to accept.     *)
DiscardBuffers(w, e) ==
    [w EXCEPT !.e[e].q = <<>>, !.e[e].raw = <<>>, !.e[e].cut = @ \/ w.e[e].raw # <<>>]

Closing(w, e) == [DiscardBuffers(w, e) EXCEPT !.e[e].st = "closing", !.e[e].txp = TRUE]

HandleRxClosed(w, e) == IF Tls(w) THEN Closing(w, e) ELSE Leave(w, e, "suspended")

FlushHead(r, e) ==
    IF r.err # "none" \/ r.n = 0 THEN r
    ELSE IF r.w.e[e].q = <<>> THEN Result(r.w, "none", 0)
    ELSE LET s == WireSend(r.w, e, Head(r.w.e[e].q))
         IN  IF s.n = 0 THEN s ELSE [s EXCEPT !.w.e[e].q = Tail(@)]

(* Defect: ciphertext the library still holds does not keep EV_WRITE on.   *)
FlushedIgnoresResidue(r, e) ==
    IF r.err = "fatal" THEN SuspendOrReset(r.w, e)
    ELSE [r.w EXCEPT !.e[e].txp = r.w.e[e].q # <<>>]

Flushed(r, e) ==
    IF r.err = "fatal" THEN SuspendOrReset(r.w, e)
    ELSE [r.w EXCEPT !.e[e].txp = @ \/ r.w.e[e].q # <<>> \/ r.err = "again"]

Pumped(r, e) ==
    Flushed(IF r.err = "fatal" \/ r.w.e[e].q # <<>> THEN r ELSE WireFlush(r.w, e), e)

(* Queues hold at most two records, the hello and one more, so three       *)
(* rounds empty them.                                                      *)
Pump(w, e) == Pumped(FlushHead(FlushHead(FlushHead(Result(w, "none", 1), e), e), e), e)

OnSend(w, e) ==
    IF ~w.e[e].rxo /\ w.e[e].st = "established" THEN HandleRxClosed(w, e)
    ELSE Pump([w EXCEPT !.e[e].txp = FALSE], e)

(* The hello establishes the session; the accepting end answers with its   *)
(* own, which leaves with the next pump.                                   *)
Dispatch(w, e, n) ==
    IF n > 1 THEN [w EXCEPT !.e[e].got = Append(@, n)]
    ELSE [w EXCEPT !.e[e].got = Append(@, n), !.e[e].st = "established",
                   !.e[e].q = IF e = 2 THEN Append(@, 1) ELSE @, !.e[e].txp = TRUE]

RecvOne(r, e) ==
    IF r.err = "fatal" THEN Result(SuspendOrReset(r.w, e), "fatal", 0)
    ELSE IF r.n # 0 THEN Result(Dispatch(r.w, e, r.n), "none", 1)
    ELSE IF ~r.w.e[e].rxo /\ r.w.e[e].st = "handshake" THEN Result(Reset(r.w, e), "none", 0)
    ELSE r

RecvMore(r, e) ==
    IF r.n # 0 /\ r.w.e[e].st = "established" /\ r.w.e[e].rdbl
    THEN RecvOne(WireRecv(r.w, e, FALSE), e) ELSE r

FlushResp(w, e) ==
    IF w.e[e].st = "established" /\ w.e[e].txp /\ w.e[e].q = <<>> /\ w.e[e].want = "-"
    THEN OnSend(w, e) ELSE w

OnRecv(w, e, all) ==
    FlushResp(FoldLeft(LAMBDA r, i : RecvMore(r, e), RecvOne(WireRecv(w, e, all), e), <<1, 2, 3>>).w, e)

(* mux_wire_shutdown and closing_cb.                                       *)
HalfClose(w, e) == [w EXCEPT !.fin[e] = TRUE, !.e[e].st = "closewait"]

ShutdownPushed(p, e) ==
    CASE p.err = "none"  -> HalfClose(p.w, e)
      [] p.err = "again" -> [p.w EXCEPT !.e[e].want = "w"]
      [] OTHER           -> Reset(p.w, e)

ShutdownSent(r, e) ==
    CASE r.err = "none"       -> ShutdownPushed(WireFlush(r.w, e), e)
      [] r.err = "want write" -> [r.w EXCEPT !.e[e].want = "w"]
      [] OTHER                -> Reset(r.w, e)

ClosingCb(w, e) == IF Tls(w) THEN ShutdownSent(TlsShutdown(w, e), e) ELSE HalfClose(w, e)

(* mux_wire_wait_eof: whether the peer's close is confirmed.               *)
WaitEof(w, e) ==
    CASE w.mode = "plain" -> SockState(w, e) = "eof"
      [] w.mode = "fd"    -> TlsRecv(w, e).err = "zero return"
      [] OTHER            -> /\ SockState(w, e) \in {"data", "eof"}
                             /\ TlsRecv(IF SockState(w, e) = "data" THEN Feed(w, e, 1) ELSE w, e).err = "zero return"

CloseWaitCb(w, e) == Reset([w EXCEPT !.e[e].eof = @ \/ WaitEof(w, e)], e)

Watched(x) ==
    CASE x.want # "-"        -> {x.want}
      [] x.st = "closewait"  -> IF x.rxo THEN {"r"} ELSE {"w"}
      [] x.st \in Ended      -> {}
      [] OTHER               -> (IF x.rxo THEN {"r"} ELSE {}) \cup (IF x.txp \/ ~x.rxo THEN {"w"} ELSE {})

UpdateWatcher(w, e) == [w EXCEPT !.e[e].ev = Watched(w.e[e])]

SendIf(w, e, yes) == IF yes /\ w.e[e].st \in Up THEN OnSend(w, e) ELSE w

SocketCb(w, e, rev, poll, all) ==
    CASE w.e[e].st \in Up       -> SendIf(IF "r" \in rev \/ poll THEN OnRecv(w, e, all) ELSE w, e, "w" \in rev)
      [] w.e[e].st = "closing"  -> ClosingCb(w, e)
      [] OTHER                  -> CloseWaitCb(w, e)

-----------------------------------------------------------------------------
Ready(w, e) ==
    w.e[e].ev \cap ((IF SockState(w, e) # "again" THEN {"r"} ELSE {})
                    \cup (IF Room(w, e) \/ w.rst[e] THEN {"w"} ELSE {}))

SocketEvent(e) ==
    /\ Ready(wire, e) # {}
    /\ \E all \in BOOLEAN :
         wire' = UpdateWatcher(SocketCb([wire EXCEPT !.e[e].want = "-"], e, Ready(wire, e),
                                        wire.e[e].want # "-", all), e)

(* A stream has data: the write path is armed, or run at once when the     *)
(* pipe is clear.                                                          *)
AppSend(e) ==
    /\ wire.e[e].st = "established" /\ wire.e[e].todo > 0 /\ Len(wire.e[e].q) < 2
    /\ LET w == [wire EXCEPT !.e[e].todo = @ - 1, !.e[e].next = @ + 1,
                             !.e[e].q = Append(@, wire.e[e].next), !.e[e].txp = TRUE]
       IN  \/ wire' = UpdateWatcher(w, e)
           \/ wire.e[e].q = <<>> /\ wire.e[e].want = "-" /\ wire' = UpdateWatcher(OnSend(w, e), e)

(* mux_session_initiate_shutdown: the close deadline starts.               *)
Initiate(e) ==
    /\ wire.e[e].st \in Up /\ wire.asks > 0
    /\ wire' = UpdateWatcher([Closing(wire, e) EXCEPT !.e[e].timer = TRUE, !.asks = @ - 1], e)

(* A peer that has closed its socket answers what it never read with RST.  *)
PeerResets(e) ==
    /\ wire.gone[Peer(e)] /\ ~wire.gone[e] /\ wire.net[e] # <<>> /\ ~wire.rst[e]
    /\ wire' = [wire EXCEPT !.rst[e] = TRUE]

Idle(w) == \A e \in Ends : /\ Ready(w, e) = {}
                           /\ ~(w.gone[Peer(e)] /\ ~w.gone[e] /\ w.net[e] # <<>> /\ ~w.rst[e])

CloseTimeout(e) ==
    /\ wire.e[e].st \in {"closing", "closewait"} /\ wire.e[e].timer /\ Idle(wire)
    /\ wire' = Reset(wire, e)

NewEnd(e, todo) ==
    [st |-> "handshake", q |-> IF e = 1 THEN <<1>> ELSE <<>>, raw |-> <<>>, rb |-> <<>>, wb |-> <<>>,
     hs |-> 0, tx |-> 0, rx |-> 0, cn |-> FALSE, zr |-> FALSE, rxo |-> TRUE, txp |-> e = 1, eof |-> FALSE,
     want |-> "-", rdbl |-> FALSE, ev |-> IF e = 1 THEN {"r", "w"} ELSE {"r"}, got |-> <<>>,
     next |-> 2, todo |-> todo, cut |-> FALSE, timer |-> FALSE]

(* todo: application records per end; asks: calls of initiate_shutdown.    *)
Init(Modes, Todo, Asks) ==
    \E mode \in Modes :
      wire = [mode |-> mode, e |-> [e \in Ends |-> NewEnd(e, Todo)], net |-> [e \in Ends |-> <<>>],
              fin |-> [e \in Ends |-> FALSE], gone |-> [e \in Ends |-> FALSE],
              rst |-> [e \in Ends |-> FALSE], asks |-> Asks]

Next ==
    \E e \in Ends : \/ SocketEvent(e)
                    \/ AppSend(e)
                    \/ Initiate(e)
                    \/ PeerResets(e)
                    \/ CloseTimeout(e)

-----------------------------------------------------------------------------
(* Each end has received a prefix of what its peer handed to the           *)
(* transport, in order, whatever the sockets did.                          *)
InOrder ==
    \A e \in Ends : /\ wire.e[e].got = [i \in 1..Len(wire.e[e].got) |-> i]
                    /\ Len(wire.e[e].got) <= wire.e[Peer(e)].tx

(* An end that reports a clean close has received everything its peer      *)
(* sent, and its peer did close: a FIN without close_notify is no clean    *)
(* close of a TLS session.                                                 *)
CleanIsComplete ==
    \A e \in Ends :
      wire.e[e].eof => /\ Len(wire.e[e].got) = wire.e[Peer(e)].tx
                       /\ wire.fin[Peer(e)] \/ wire.e[Peer(e)].cn
                       /\ Tls(wire) => wire.e[Peer(e)].cn

(* A TLS session is suspended as lost only after a reset, or after the     *)
(* peer's shutdown cut staged ciphertext out of its stream; every other    *)
(* shutdown arrives as one.                                                *)
LossIsReal ==
    Tls(wire) => \A e \in Ends : wire.e[e].st = "suspended" => wire.rst[e] \/ wire.e[Peer(e)].cut

(* When no watcher is ready, either both ends are done, or both are        *)
(* established and everything has arrived, or a close deadline runs.       *)
NoStall ==
    Idle(wire) =>
      \/ \A e \in Ends : wire.e[e].st \in Ended
      \/ \E e \in Ends : wire.e[e].st \in {"closing", "closewait"} /\ wire.e[e].timer
      \/ \A e \in Ends : /\ wire.e[e].st = "established"
                         /\ wire.e[e].q = <<>> /\ wire.e[e].raw = <<>> /\ wire.e[e].wb = <<>>
                         /\ wire.e[e].rb = <<>> /\ wire.net[e] = <<>>
                         /\ Len(wire.e[e].got) = wire.e[Peer(e)].tx
=============================================================================
