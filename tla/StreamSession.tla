---------------------------- MODULE StreamSession ----------------------------
(***************************************************************************)
(* How a session drives its streams: the deficit round robin of            *)
(* src/mux/sched.c, the send pump of src/mux/send.c with the frames it     *)
(* makes, and the dispatch of a received stream frame in src/mux/recv.c.   *)
(* e.out is the transport: what this end has written and its peer has not  *)
(* handled yet.  How frames of e.out survive the loss of the transport is  *)
(* the subject of Resume; here a lost transport keeps e.out and e.replay   *)
(* says that it has to be written again first.                             *)
(***************************************************************************)
EXTENDS StreamOps

CONSTANTS
    PipeCap,        \* frames the transport holds before it blocks
    Ids             \* the stream ids either end may use

-----------------------------------------------------------------------------
(* mux_stream_dequeue_send *)
NagleHold(e, s) ==
    /\ ~e.conf.nodelay /\ ~s.nagle_flush
    /\ s.unacked > 0 /\ Head(s.sq) < MaxPayload
HasCredit(s) == CreditAvail(s) > 0 /\ Head(s.sq) <= CreditAvail(s)

CanDequeue(e, s) == CanSendData(s) /\ s.sq # <<>> /\ HasCredit(s) /\ ~NagleHold(e, s)

(* Defect: a frame held by Nagle waits for the peer only.                   *)
DequeueFailsUntimed(e, i) ==
    IF CanSendData(S(e, i)) /\ S(e, i).sq = <<>>
    THEN Put(e, i, [S(e, i) EXCEPT !.nagle_flush = FALSE]) ELSE e

DequeueFails(e, i) ==
    LET s == S(e, i)
        plain == Put(e, i, [s EXCEPT !.nagle_flush = FALSE])
    IN IF ~CanSendData(s) THEN e
       ELSE IF s.sq = <<>> THEN plain
       ELSE IF ~HasCredit(s) THEN e
       ELSE SchedDelay(plain, i, 1)

(* mux_stream_notify_recv *)
NotifyRecv(e, i) ==
    IF S(e, i).mode # "direct" THEN UpdateWatcher(e, i)
    ELSE IF DirectWriteReady(S(e, i)) THEN FeedUser(e, i, {"W"}) ELSE e

(* mux_stream_mark_fin_sent *)
FinSentClosing(e, i) ==
    IF S(e, i).mode = "direct" THEN IF S(e, i).user_closed THEN DoClose(e, i) ELSE e
    ELSE IF S(e, i).buffered = 0 THEN FinishDrainedWrite(e, i) ELSE e

MarkFinSent(e, i) ==
    CASE S(e, i).st = "ESTABLISHED" -> Put(e, i, [S(e, i) EXCEPT !.st = "FIN_WAIT"])
      [] S(e, i).st = "CLOSE_WAIT" ->
            FinSentClosing(Put(e, i, [S(e, i) EXCEPT !.st = "CLOSING"]), i)
      [] OTHER -> e

(* mux_session_send_push of the head of the send queue, which               *)
(* mux_stream_dequeue_send has taken off it                                 *)
PushFlags(s, inc, fin) ==
    {"PUSH"} \cup (IF s.st = "INIT" THEN {"SYN"}
                   ELSE IF s.st \in {"ESTABLISHED", "CLOSE_WAIT"} /\ inc > 0 THEN {"ACK"}
                   ELSE {})
             \cup (IF fin THEN {"FIN"} ELSE {})

Pushed(s, inc, flags) ==
    [s EXCEPT !.sq = Tail(@), !.nagle_flush = FALSE, !.delay = 0,
              !.sent = @ + Head(s.sq), !.unacked = @ + Head(s.sq),
              !.grant = @ + inc * Unit,
              !.ack_pending = @ /\ "ACK" \notin flags]

PushFrame(e, i, inc, flags) ==
    Put([SendbufPush(e, Frame(i, flags, Head(S(e, i).sq), inc, "OK"))
             EXCEPT !.delay = Remove(@, i)],
        i, Pushed(S(e, i), inc, flags))

FinDueAfter(s) == s.st # "INIT" /\ s.rx_eof /\ Len(s.sq) = 1
                  /\ s.st \in {"ESTABLISHED", "CLOSE_WAIT"}

FinIf(e, i, flags) == IF "FIN" \in flags THEN MarkFinSent(e, i) ELSE e
PushWith(e, i, inc, flags) == FinIf(PushFrame(e, i, inc, flags), i, flags)
PushGranting(e, i, inc) ==
    PushWith(e, i, inc, PushFlags(S(e, i), inc, FinDueAfter(S(e, i))))
SendPush(e, i) == PushGranting(e, i, GrantInc(e, i))

(* sched_send_ctrl_flags: the pending credit and FIN of a stream in one     *)
(* frame; with no memory for it, again on the next coalescing tick.         *)
AckDue(s) == s.st \notin {"INIT", "SYN_SENT", "SYN_RECEIVED"} /\ s.ack_pending

CtrlFlags(s, inc) == (IF AckDue(s) /\ inc > 0 THEN {"ACK"} ELSE {})
                     \cup (IF FinPending(s) THEN {"FIN"} ELSE {})

(* Defect: the credit granted is not counted.                               *)
AckSentUncounted(e, i, inc) == Put(e, i, [S(e, i) EXCEPT !.ack_pending = FALSE])

AckSent(e, i, inc) ==
    LET acked == Put(e, i, [S(e, i) EXCEPT !.grant = @ + inc * Unit, !.ack_pending = FALSE])
    IN IF S(e, i).sq = <<>> /\ S(e, i).delay > 0 THEN DelayRemove(acked, i) ELSE acked

CtrlSent(e, i, flags, inc) ==
    FinIf(IF "ACK" \in flags THEN AckSent(e, i, inc) ELSE e, i, flags)

EmitCtrl(e, i, flags, inc) ==
    IF flags = {} THEN Put(e, i, [S(e, i) EXCEPT !.ack_pending = FALSE])
    ELSE IF ~e.env.mem THEN SchedDelay(e, i, 1)
    ELSE CtrlSent(SendCtrl(e, Frame(i, flags, 0, IF "ACK" \in flags THEN inc ELSE 0, "OK")),
                  i, flags, inc)

CtrlGranting(e, i, inc) == EmitCtrl(e, i, CtrlFlags(S(e, i), inc), inc)
SendCtrlFlags(e, i) ==
    IF ~AckDue(S(e, i)) /\ ~FinPending(S(e, i)) THEN e
    ELSE CtrlGranting(e, i, GrantInc(e, i))

(* sched_drr_continue *)
DrrContinue(e, i) ==
    IF S(e, i).sq = <<>>
    THEN Put([e EXCEPT !.active = None], i, [S(e, i) EXCEPT !.deficit = 0])
    ELSE IF e.drr = <<>> \/ S(e, i).deficit >= Head(S(e, i).sq)
    THEN [e EXCEPT !.active = i]
    ELSE Wake([e EXCEPT !.active = None], i)

(* mux_sched_next_data: at most one PUSH frame; e.env.got tells whether.    *)
Got(e, b) == [e EXCEPT !.env.got = b]

TopUp(e, i, fresh) ==
    IF fresh \/ S(e, i).deficit < Head(S(e, i).sq)
    THEN Put(e, i, [S(e, i) EXCEPT !.deficit = @ + MaxPayload]) ELSE e

(* Defect: no look at whether the FIN just sent ended the session.          *)
ServeDoneBlindly(e, i, n) ==
    SendCtrlFlags(DrrContinue(NotifyRecv(
        Put(e, i, [S(e, i) EXCEPT !.deficit = @ - n]), i), i), i)

ServeDone(e, i, n) ==
    IF e.ss # "ESTABLISHED" THEN e
    ELSE SendCtrlFlags(DrrContinue(NotifyRecv(
             Put(e, i, [S(e, i) EXCEPT !.deficit = @ - n]), i), i), i)

Serve(e, i, fresh) == ServeDone(SendPush(TopUp(e, i, fresh), i), i, Head(S(e, i).sq))

ZeroDeficit(e, i) == Put(e, i, [S(e, i) EXCEPT !.deficit = 0])

PassOver(e, i) ==
    LET off == [e EXCEPT !.active = None]
    IN CASE S(e, i).st = "CLOSED" ->
               IF S(e, i).tomb THEN off ELSE Schedule(LpEnqueue(off, i))
         [] S(e, i).st = "INIT" -> Schedule(LpEnqueue(off, i))
         [] S(e, i).st = "SYN_SENT" -> off
         [] OTHER -> SendCtrlFlags(ZeroDeficit(DequeueFails(off, i), i), i)

RECURSIVE NextData(_)
NextFrom(e, i, fresh) ==
    IF S(e, i).st \notin {"CLOSED", "INIT", "SYN_SENT"} /\ CanDequeue(e, S(e, i))
    THEN Got(Serve(e, i, fresh), TRUE)
    ELSE NextData(PassOver(e, i))
NextData(e) ==
    IF e.active # None THEN NextFrom(e, e.active, FALSE)
    ELSE IF e.drr = <<>> THEN Got(e, FALSE)
    ELSE NextFrom(Dequeue(e), Head(e.drr), TRUE)

(* mux_sched_flush_ctrl *)
CtrlIfOpen(e, i) ==
    IF e.ss = "ESTABLISHED" /\ S(e, i).st # "CLOSED" THEN SendCtrlFlags(e, i) ELSE e

FlushCtrl(e) ==
    FoldLeft(CtrlIfOpen, e, (IF e.active = None THEN <<>> ELSE <<e.active>>) \o e.drr)

(* sched_send_syn, mux_stream_mark_syn_sent *)
MarkSynSent(e, i) == UpdateWatcher(Put(e, i, [S(e, i) EXCEPT !.st = "SYN_SENT"]), i)

Opening(e, i, flags, inc) ==
    Put(SendCtrl(e, Frame(i, flags, 0, inc, "OK")), i, [S(e, i) EXCEPT !.grant = @ + inc * Unit])

SynAlone(e, i) ==
    IF ~e.env.mem THEN e ELSE MarkSynSent(Opening(e, i, {"SYN"}, GrantInc(e, i)), i)

SendSyn(e, i) ==
    IF CanDequeue(e, S(e, i)) THEN MarkSynSent(SendPush(e, i), i)
                              ELSE SynAlone(DequeueFails(e, i), i)

(* mux_sched_drain_lp *)
AbortIfUnopened(e, i) == IF S(e, i).st = "INIT" THEN AbortUnopened(e, i) ELSE e

LpPop(e) == Put([e EXCEPT !.lp = Tail(@)], Head(e.lp), [S(e, Head(e.lp)) EXCEPT !.q = "NONE"])

(* Defect: a closed stream is freed whoever holds it.                       *)
LpServeHeld(e, i) ==
    CASE S(e, i).st = "CLOSED" -> RemoveStream(e, i)
      [] S(e, i).st = "INIT" -> AbortIfUnopened(SendSyn(e, i), i)
      [] OTHER -> e

LpServe(e, i) ==
    CASE S(e, i).st = "CLOSED" -> IF AppHeld(S(e, i)) THEN e ELSE RemoveStream(e, i)
      [] S(e, i).st = "INIT" -> AbortIfUnopened(SendSyn(e, i), i)
      [] OTHER -> e

RECURSIVE DrainLp(_)
DrainLpEnd(e) == IF e.drr # <<>> THEN [e EXCEPT !.tx_pending = TRUE] ELSE e
DrainLpNext(e, wasInit) ==
    IF wasInit /\ e.sendbuf # <<>> /\ ~e.staging THEN DrainLpEnd(e) ELSE DrainLp(e)
DrainLp(e) ==
    IF e.lp = <<>> \/ (S(e, Head(e.lp)).st = "INIT" /\ e.sendbuf # <<>> /\ e.partial)
    THEN DrainLpEnd(e)
    ELSE DrainLpNext(LpServe(LpPop(e), Head(e.lp)), S(e, Head(e.lp)).st = "INIT")
-----------------------------------------------------------------------------
(* flush_sendbuf_head: a whole record goes out, or the transport blocks and *)
(* env.part says whether part of it did.                                    *)
Room(e) == Len(e.out) < PipeCap

FlushHead(e) ==
    [e EXCEPT !.out = @ \o Head(e.sendbuf), !.sendbuf = Tail(@), !.partial = FALSE,
              !.staging = @ /\ Len(e.sendbuf) > 1]

Blocked(e) == [e EXCEPT !.partial = @ \/ e.env.part,
                        !.staging = @ /\ Len(e.sendbuf) > 1]

(* send_head_must_flush *)
MustFlush(e) ==
    e.sendbuf # <<>> /\ (e.partial \/ ~(e.staging /\ Len(e.sendbuf) = 1))

(* The session window: frames written and not known to have arrived.        *)
Stalled(e) == e.conf.session_window > 0 /\ Len(e.out) + e.unreported >= e.conf.session_window

(* send_stage_next without replay, datagrams and control frames of stream 0 *)
StageDone(e) == IF e.env.got THEN e ELSE FlushCtrl(e)
StageNext(e) == StageDone(IF Stalled(e) THEN Got(e, FALSE) ELSE NextData(e))

(* send_pump *)
PumpEnd(e) == IF e.sendbuf = <<>> THEN e ELSE IF Room(e) THEN FlushHead(e) ELSE Blocked(e)

RECURSIVE Pump(_)
PumpNext(e) == IF e.env.got THEN Pump(e) ELSE PumpEnd(e)
Pump(e) ==
    IF MustFlush(e) THEN IF Room(e) THEN Pump(FlushHead(e)) ELSE Blocked(e)
    ELSE IF e.ss # "ESTABLISHED" THEN PumpEnd(e)
    ELSE PumpNext(StageNext(e))

(* mux_session_on_send: the lifecycle queue, unless the resume log is still *)
(* to be replayed, then the pump and what it leaves behind.                 *)
LpFirst(e) ==
    IF e.lp_pending /\ ~e.replay /\ e.ss = "ESTABLISHED"
    THEN DrainLp([e EXCEPT !.lp_pending = FALSE]) ELSE e

Epilogue(e) ==
    Schedule([e EXCEPT !.tx_pending = @ \/ e.sendbuf # <<>> \/ e.drr # <<>>, !.env.got = FALSE])

OnSend(e) ==
    Epilogue(Pump([LpFirst([e EXCEPT !.tx_pending = FALSE]) EXCEPT !.replay = FALSE]))

(* mux_session_flush, mux_session_flush_resp *)
Flush(e) ==
    IF e.ss # "ESTABLISHED" THEN Notify(e)
    ELSE IF e.sendbuf = <<>> THEN OnSend(Schedule(e)) ELSE Notify(e)

FlushResp(e) ==
    IF e.ss # "ESTABLISHED" \/ ~e.tx_pending THEN e
    ELSE IF e.sendbuf = <<>> THEN OnSend(Schedule(e)) ELSE e
-----------------------------------------------------------------------------
(* mux_stream_do_attach_fd: `connected' is FALSE for a connect still in     *)
(* progress, which is how a passive stream is attached.                     *)
Attachable(s) ==
    \/ s.st \in {"INIT", "SYN_SENT", "SYN_RECEIVED"}
    \/ s.st # "CLOSED" /\ s.mode = "none"

(* stream_hand_over_rejected *)
HandOverRejected(e, i) ==
    LET given == Put(e, i, [S(e, i) EXCEPT !.pending_attach = FALSE])
    IN IF S(e, i).pending_attach /\ S(e, i).st = "CLOSED" THEN Wake(given, i) ELSE given

(* The SYN|ACK of a passive stream that has just been given its mode        *)
Established(e, i) == Put(e, i, [S(e, i) EXCEPT !.st = "ESTABLISHED", !.ack_pending = FALSE])

SynAck(e, i) ==
    IF ~e.env.mem THEN Abort(e, i, "INTERNAL_ERROR")
    ELSE Established(Opening(e, i, {"SYN", "ACK"}, GrantInc(e, i)), i)

AttachSocket(e, i) ==
    LET active == S(e, i).st # "SYN_RECEIVED"
    IN Put(e, i, [S(e, i) EXCEPT !.pending_attach = FALSE, !.mode = "socket",
                                 !.conn = active, !.ev = IF active THEN {} ELSE {"W"}])

WatchUnlessFreed(e, i) == IF i \in DOMAIN e.str THEN UpdateWatcher(e, i) ELSE e

AttachFd(e, i) ==
    IF ~Attachable(S(e, i)) THEN HandOverRejected(e, i)
    ELSE IF S(e, i).st = "SYN_RECEIVED" THEN WatchUnlessFreed(SynAck(AttachSocket(e, i), i), i)
    ELSE WatchUnlessFreed(FinishIfDrained(AttachSocket(e, i), i), i)

(* mux_stream_do_io_start *)
Ready(e, i) ==
    FeedUser(e, i, (IF DirectReadReady(S(e, i)) THEN {"R"} ELSE {})
                   \cup (IF DirectWriteReady(S(e, i)) THEN {"W"} ELSE {}))

ReadyIfOpen(e, i) ==
    IF i \notin DOMAIN e.str \/ S(e, i).st = "CLOSED" THEN e ELSE Ready(e, i)

StartDirect(e, i) ==
    Put(e, i, [S(e, i) EXCEPT !.pending_attach = FALSE, !.mode = "direct", !.wio = TRUE])

IoStart(e, i) ==
    IF ~Attachable(S(e, i)) THEN HandOverRejected(e, i)
    ELSE ReadyIfOpen(IF S(e, i).st = "SYN_RECEIVED" THEN SynAck(StartDirect(e, i), i)
                                                    ELSE StartDirect(e, i), i)
-----------------------------------------------------------------------------
(* stream_notify_readable *)
WatchIfLive(e, i) == IF StreamsFreed(e) THEN e ELSE UpdateWatcher(e, i)

NotifyReadable(e, i) ==
    IF S(e, i).mode = "direct" THEN FeedUser(e, i, {"R"})
    ELSE WatchIfLive(IF S(e, i).conn /\ "W" \notin S(e, i).ev THEN FlushLocal(e, i) ELSE e, i)

(* mux_stream_recv_copy of n bytes: straight to an idle local socket, the   *)
(* rest to the buffer, or a reset with the given code.                      *)
FastPath(s) == s.buffered = 0 /\ s.mode = "socket" /\ s.conn
               /\ s.st \in {"ESTABLISHED", "FIN_WAIT"}

Overrun(s, n) == n > s.grant - s.rcvd \/ s.buffered + n > s.rwin

DirectWritten(e, i, n) ==
    IF FastPath(S(e, i)) /\ ~e.env.err /\ ~Overrun(S(e, i), n) THEN Taken(e, n) ELSE 0

RecvError(e, i, n) ==
    IF Overrun(S(e, i), n) THEN "FLOW_CONTROL_ERROR"
    ELSE IF \/ FastPath(S(e, i)) /\ e.env.err
            \/ ~e.env.mem /\ DirectWritten(e, i, n) < n
    THEN "INTERNAL_ERROR" ELSE "OK"

DirectWrite(e, i, n) ==
    IF n = 0 THEN e
    ELSE CheckAck(WriteLocal(Put(e, i, [S(e, i) EXCEPT !.rcvd = @ + n]), i, n), i)

Buffer(e, i, n) ==
    IF n = 0 THEN e
    ELSE NotifyReadable(Put(e, i, [S(e, i) EXCEPT !.rcvd = @ + n, !.buffered = @ + n]), i)

Store(e, i, rest, code) == IF code = "OK" THEN Buffer(e, i, rest) ELSE Abort(e, i, code)

RecvCopy(e, i, n) ==
    IF S(e, i).st = "CLOSED" THEN e
    ELSE IF S(e, i).mode = "direct" /\ S(e, i).user_closed /\ ~Overrun(S(e, i), n)
         THEN MarkClosed(ResetUnread(e, i), i)
    ELSE Store(DirectWrite(e, i, DirectWritten(e, i, n)), i, n - DirectWritten(e, i, n),
               RecvError(e, i, n))

(* mux_stream_recv_window, stream_notify_writable *)
NotifyWritable(e, i) ==
    IF S(e, i).mode # "direct" THEN UpdateWatcher(e, i)
    ELSE IF DirectWriteReady(S(e, i)) THEN FeedUser(e, i, {"W"}) ELSE e

WakeIfQueued(e, i) == IF S(e, i).sq # <<>> THEN Wake(e, i) ELSE e

RecvWindow(e, i, inc) ==
    IF CreditAvail(S(e, i)) + inc * Unit > MaxCredit THEN Abort(e, i, "FLOW_CONTROL_ERROR")
    ELSE IF CreditAvail(S(e, i)) + inc * Unit = 0 THEN e
    ELSE WakeIfQueued(
             NotifyWritable(Put(e, i, [S(e, i) EXCEPT !.swin = @ + inc * Unit]), i), i)

(* mux_stream_recv_fin *)
FinArrived(e, i) ==
    Put(e, i, [S(e, i) EXCEPT !.st = CASE @ = "ESTABLISHED" -> "CLOSE_WAIT"
                                       [] @ = "FIN_WAIT" -> "CLOSING"
                                       [] OTHER -> @])
(* Defect: the local socket is shut down with bytes still to be written.    *)
AfterFinEarly(e, i) ==
    IF S(e, i).mode = "direct" THEN FeedUser(e, i, {"R"}) ELSE FinishDrainedWrite(e, i)

AfterFin(e, i) ==
    LET s == S(e, i)
    IN IF s.mode = "direct" /\ s.user_closed /\ s.st = "CLOSING" THEN DoClose(e, i)
       ELSE IF s.mode = "direct" THEN FeedUser(e, i, {"R"})
       ELSE IF s.buffered = 0 THEN FinishDrainedWrite(e, i)
       ELSE e

RecvFin(e, i) ==
    IF S(e, i).st \in {"CLOSED", "CLOSE_WAIT", "CLOSING"} THEN e
    ELSE AfterFin(FinArrived(e, i), i)

(* mux_stream_recv_rst *)
RstClose(e, i) ==
    IF StreamsFreed(e) \/ S(e, i).st = "CLOSED" THEN e
    ELSE MarkClosed(DiscardStreamFrames(DetachUser(e, i), i), i)

RecvRst(e, i) ==
    RstClose(RstTold(Put(e, i, [S(e, i) EXCEPT !.rst_received = TRUE]), i), i)

(* mux_stream_start *)
(* Defect: an end of file read before the SYN|ACK came is forgotten.        *)
StartUnwoken(e, i) == NotifyWritable(Put(e, i, [S(e, i) EXCEPT !.st = "ESTABLISHED"]), i)

Start(e, i) ==
    LET up == Put(e, i, [S(e, i) EXCEPT !.st = "ESTABLISHED"])
    IN NotifyWritable(IF S(e, i).rx_eof /\ S(e, i).sq = <<>> THEN Wake(up, i) ELSE up, i)

(* validate_flags_by_stream *)
(* Defect: no data is expected once the own FIN is out.                     *)
ValidFlagsOneWay(s, f) ==
    CASE s.st = "SYN_SENT" -> {"SYN", "ACK"} \subseteq f /\ f \subseteq {"SYN", "ACK", "PUSH"}
      [] s.st = "ESTABLISHED" -> f # {} /\ ("SYN" \in f => "ACK" \in f)
      [] OTHER -> f # {} /\ f \subseteq {"ACK", "FIN"}

ValidFlags(s, f) ==
    CASE s.st = "SYN_SENT" -> {"SYN", "ACK"} \subseteq f /\ f \subseteq {"SYN", "ACK", "PUSH"}
      [] s.st \in {"ESTABLISHED", "FIN_WAIT"} -> f # {} /\ ("SYN" \in f => "ACK" \in f)
      [] s.st \in {"CLOSE_WAIT", "CLOSING"} ->
            f # {} /\ IF "SYN" \in f THEN "ACK" \in f ELSE f \subseteq {"ACK", "FIN"}
      [] OTHER -> FALSE

(* is_ignorable_unknown_terminal_frame *)
IgnorableTerminal(x) == x.len = 0 /\ x.flags # {} /\ x.flags \subseteq {"ACK", "FIN"}

(* dispatch_by_stream, branch by branch *)
LateFrame(e, i, x) ==
    IF "RST" \in x.flags \/ IgnorableTerminal(x) THEN e ELSE SendRst(e, i, "PROTOCOL_ERROR")

AckPart(e, i, x) ==
    IF "ACK" \in x.flags
    THEN RecvWindow(Put(e, i, [S(e, i) EXCEPT !.unacked = 0]), i, x.extra) ELSE e

StartIfOpening(e, i) ==
    IF ~StreamsFreed(e) /\ S(e, i).st = "SYN_SENT" THEN Start(e, i) ELSE e

RepeatedSyn(e, x) ==
    x.id \in DOMAIN e.str /\ "SYN" \in x.flags /\ S(e, x.id).st # "SYN_SENT"

DispatchByStream(e, i, x) ==
    IF S(e, i).st = "CLOSED" THEN LateFrame(e, i, x)
    ELSE IF "RST" \in x.flags \/ ~ValidFlags(S(e, i), x.flags)
    THEN RecvRst(IF "RST" \in x.flags THEN e ELSE SendRst(e, i, "PROTOCOL_ERROR"), i)
    ELSE IF RepeatedSyn(e, x) THEN e
    ELSE StartIfOpening(AckPart(e, i, x), i)

(* deliver_push_payload, process_syn_payload and the FIN: what a frame      *)
(* carries comes after what its other flags say.  The functions called see  *)
(* for themselves that a stream was closed meanwhile.                       *)
PushPart(e, i, x) == IF "PUSH" \in x.flags /\ x.len > 0 THEN RecvCopy(e, i, x.len) ELSE e
FinPart(e, i, x) == IF "FIN" \in x.flags /\ ~StreamsFreed(e) THEN RecvFin(e, i) ELSE e

Contents(e, i, x, skip) ==
    IF skip \/ StreamsFreed(e) \/ i \notin DOMAIN e.str THEN e
    ELSE FinPart(PushPart(e, i, x), i, x)

(* dispatch_no_stream; e.conf.accept is what on_accept does, and a frame no *)
(* conforming peer sends resets the session, which the pair never reaches.  *)
ActiveStreams(e) == Cardinality(DOMAIN e.str) - e.num_closed

Accepted(e, x) ==
    [e EXCEPT !.str = (x.id :> [NewStream(e, FALSE) EXCEPT !.swin = Unit + x.extra * Unit]) @@ @]

Reject(e, i) ==
    DoClose(Put(SendCtrl(e, Frame(i, {"RST"}, 0, 0, "REFUSED_STREAM")), i,
                [S(e, i) EXCEPT !.rst_sent = e.env.mem, !.aborted = TRUE]), i)

OnAccept(e, x) ==
    CASE e.conf.accept = "socket" -> AttachFd(e, x.id)
      [] e.conf.accept = "direct" -> IoStart(e, x.id)
      [] e.conf.accept = "later" -> e
      [] OTHER -> Reject(e, x.id)

DispatchNoStream(e, x) ==
    IF "RST" \in x.flags THEN e
    ELSE IF "SYN" \in x.flags
    THEN IF e.draining
            \/ (e.conf.max_streams > 0 /\ ActiveStreams(e) >= e.conf.max_streams)
         THEN SendCtrl(e, Frame(x.id, {"RST"}, 0, 0, "REFUSED_STREAM"))
         ELSE OnAccept(Accepted(e, x), x)
    ELSE IF IgnorableTerminal(x) THEN e
    ELSE SendCtrl(e, Frame(x.id, {"RST"}, 0, 0, "PROTOCOL_ERROR"))

(* dispatch_frame of a frame of a stream *)
DispatchHead(e, x) ==
    IF x.id \in DOMAIN e.str THEN DispatchByStream(e, x.id, x) ELSE DispatchNoStream(e, x)

DispatchFrame(e, x) ==
    IF e.ss # "ESTABLISHED" THEN e
    ELSE Contents(DispatchHead(e, x), x.id, x, RepeatedSyn(e, x))
=============================================================================
