------------------------------ MODULE StreamOps ------------------------------
(***************************************************************************)
(* The stream state machine of src/mux/stream.c and the stream half of the *)
(* library's interface in src/mux/mux.c.  Each operator takes the end e    *)
(* and the id i of the stream it works on and returns the end as the C     *)
(* function leaves it.  A socket-mode stream writes to and reads from a    *)
(* local socket; a direct-mode stream is driven by the application, which  *)
(* is told what it may do through e.str[i].fed.                            *)
(***************************************************************************)
EXTENDS StreamSched

(* What the local application of stream i learns *)
SawReset(e, i) == [e EXCEPT !.app[i].reset = TRUE]
SawEof(e, i) == [e EXCEPT !.app[i].eof = TRUE]

(* stream_can_shutdown_write_now, stream_local_read_allowed *)
CanShutdownWriteNow(s) == s.mode = "direct" \/ s.conn
LocalReadAllowed(s) ==
    /\ ~s.rx_eof
    /\ \/ s.st = "INIT" /\ s.sq = <<>>
       \/ s.st \in {"ESTABLISHED", "CLOSE_WAIT"}

(* update_watcher *)
Watch(s) ==
    IF s.st = "CLOSED" \/ s.mode # "socket" THEN s
    ELSE IF ~s.conn THEN [s EXCEPT !.ev = {"W"}]
    ELSE [s EXCEPT !.ev = (IF LocalReadAllowed(s) /\ ReadCredit(s) > 0 THEN {"R"} ELSE {})
                          \cup (IF s.buffered > 0 THEN {"W"} ELSE {})]
UpdateWatcher(e, i) == Put(e, i, Watch(S(e, i)))

(* stream_feed_user, gated on a watcher being attached *)
Feed(s, x) == IF s.mode = "direct" /\ s.wio THEN [s EXCEPT !.fed = @ \cup x] ELSE s
FeedUser(e, i, x) == Put(e, i, Feed(S(e, i), x))

(* stream_detach_user, mux_stream_io_stop *)
DetachUser(e, i) == Put(e, i, [S(e, i) EXCEPT !.wio = FALSE, !.fed = {}])

(* stream_stop, stream_release_buffers and the state change of              *)
(* stream_mark_closed                                                       *)
ClosedStream(s) ==
    [s EXCEPT !.st = "CLOSED", !.tomb = (s.st # "INIT"), !.delay = 0,
              !.sq = <<>>, !.buffered = 0, !.ev = {}, !.conn = FALSE,
              !.mode = IF @ = "socket" THEN "none" ELSE @]

(* Defect: the stream stays on the delay list.                              *)
StopInDelay(e, i) ==
    Put([e EXCEPT !.active = IF @ = i THEN None ELSE @, !.num_closed = @ + 1,
                  !.num_tombstones = IF S(e, i).st = "INIT" THEN @ ELSE @ + 1],
        i, ClosedStream(S(e, i)))

StopAndClose(e, i) ==
    Put([e EXCEPT !.delay = Remove(@, i),
                  !.active = IF @ = i THEN None ELSE @,
                  !.num_closed = @ + 1,
                  !.num_tombstones = IF S(e, i).st = "INIT" THEN @ ELSE @ + 1],
        i, ClosedStream(S(e, i)))

(* stream_mark_closed: a stream the peer has heard of lingers as a          *)
(* tombstone, one whose SYN never left goes straight to clean-up.           *)
MarkClosed(e, i) ==
    IF S(e, i).st = "INIT" THEN Wake(StopAndClose(e, i), i)
                           ELSE CheckNoActive(StopAndClose(e, i))

(* stream_finish_drained_write with stream_shutdown_local_write *)
FinishDrainedWrite(e, i) ==
    LET shut == SawEof(Put(e, i, [S(e, i) EXCEPT !.tx_shutdown = TRUE]), i)
    IN IF ~CanShutdownWriteNow(S(e, i)) THEN e
       ELSE IF S(e, i).st = "CLOSING" THEN MarkClosed(shut, i) ELSE shut

(* The RST of an abortive close, latched only once it is queued *)
(* Defect: the latch is not looked at.                                      *)
SendRstAgain(e, i, code) ==
    Put(SendCtrl(e, Frame(i, {"RST"}, 0, 0, code)), i, [S(e, i) EXCEPT !.rst_sent = e.env.mem])

SendRst(e, i, code) ==
    IF S(e, i).rst_sent THEN e
    ELSE Put(SendCtrl(e, Frame(i, {"RST"}, 0, 0, code)), i,
             [S(e, i) EXCEPT !.rst_sent = e.env.mem])

(* stream_reset_unread: an RST of the peer is never answered with one       *)
ResetUnread(e, i) ==
    LET dropped == DiscardStreamFrames(Put(e, i, [S(e, i) EXCEPT !.buffered = 0]), i)
    IN IF S(e, i).rst_sent \/ S(e, i).rst_received THEN dropped
       ELSE SendRst(Put(dropped, i, [S(dropped, i) EXCEPT !.aborted = TRUE]), i, "CANCEL")

(* stream_rst_notify_socket: only an attached socket can be told *)
RstNotifySocket(e, i) == IF S(e, i).mode = "socket" THEN SawReset(e, i) ELSE e

(* mux_stream_do_close *)
DoClose(e, i) ==
    IF S(e, i).st = "CLOSED" THEN e
    ELSE MarkClosed(DetachUser(IF S(e, i).buffered = 0 THEN e
                               ELSE RstNotifySocket(ResetUnread(e, i), i), i), i)

(* mux_stream_do_shutdown *)
NothingLeft(s) ==
    s.mode = "direct" /\ s.user_closed /\ s.st = "CLOSING" /\ s.buffered = 0
Ended(e, i) ==
    [Put(e, i, [S(e, i) EXCEPT !.rx_eof = TRUE, !.fed = @ \ {"W"}]) EXCEPT !.app[i].ended = TRUE]

DoShutdown(e, i) ==
    IF NothingLeft(S(e, i)) THEN MarkClosed(Ended(e, i), i) ELSE Wake(Ended(e, i), i)

(* mux_stream_do_release: the application gives up a CLOSED stream          *)
DoRelease(e, i) ==
    LET given == Put(e, i, [S(e, i) EXCEPT !.pending_attach = FALSE,
                                !.user_closed = (@ \/ S(e, i).mode = "direct")])
    IN IF ~AppHeld(S(e, i)) THEN e
       ELSE IF S(e, i).tomb THEN given ELSE Wake(given, i)

(* mux_stream_close of a stream that is not CLOSED and is, or becomes,      *)
(* direct                                                                   *)
GivenUp(e, i) ==
    Put(e, i, [S(e, i) EXCEPT !.pending_attach = FALSE, !.mode = "direct",
                              !.user_closed = TRUE, !.wio = FALSE, !.fed = {}])
CloseOpen(e, i) ==
    IF S(e, i).buffered = 0 THEN DoShutdown(GivenUp(e, i), i) ELSE DoClose(GivenUp(e, i), i)

(* stream_rst_notify_direct: the callback runs at once and may close        *)
RstNotifyDirect(e, i) ==
    IF ~S(e, i).wio THEN e
    ELSE IF e.env.close /\ S(e, i).st # "CLOSED" THEN CloseOpen(SawReset(e, i), i)
    ELSE SawReset(Put(e, i, [S(e, i) EXCEPT !.fed = {}]), i)

(* stream_abort_notify_close: telling a direct stream's application may     *)
(* have closed it, or ended the session.                                    *)
RstTold(e, i) ==
    IF S(e, i).mode = "direct" THEN RstNotifyDirect(e, i) ELSE RstNotifySocket(e, i)
CloseTold(e, i) ==
    IF StreamsFreed(e) \/ S(e, i).st = "CLOSED" THEN e ELSE MarkClosed(DetachUser(e, i), i)
AbortNotifyClose(e, i) == CloseTold(RstTold(e, i), i)

(* mux_stream_abort, mux_stream_abort_unopened *)
Abort(e, i, code) ==
    IF S(e, i).st = "CLOSED" THEN e
    ELSE AbortNotifyClose(
             SendRst(DiscardStreamFrames(Put(e, i, [S(e, i) EXCEPT !.aborted = TRUE]), i),
                     i, code), i)
AbortUnopened(e, i) == AbortNotifyClose(Put(e, i, [S(e, i) EXCEPT !.aborted = TRUE]), i)

(* mux_stream_close *)
Close(e, i) ==
    IF S(e, i).st = "CLOSED" THEN DoRelease(e, i)
    ELSE IF S(e, i).mode = "none" /\ S(e, i).st = "SYN_RECEIVED"
         THEN Abort(e, i, "REFUSED_STREAM")
    ELSE CloseOpen(e, i)

(* mux_stream_shutdown *)
Shutdown(e, i) == IF S(e, i).st = "CLOSED" THEN e ELSE DoShutdown(e, i)
-----------------------------------------------------------------------------
(* stream_try_shrink_recv_window *)
(* Defect: the window shrinks under credit the peer already holds.          *)
TryShrinkAnyway(e, s) ==
    IF ~e.conf.auto \/ e.window * Unit >= s.rwin THEN s ELSE [s EXCEPT !.rwin = e.window * Unit]

TryShrink(e, s) ==
    IF ~e.conf.auto \/ e.window * Unit >= s.rwin
       \/ s.buffered + (s.grant - s.rcvd) > e.window * Unit
    THEN s ELSE [s EXCEPT !.rwin = e.window * Unit]

(* mux_stream_check_ack *)
(* Defect: too small a credit is dropped, not delayed.                      *)
ArmAckLarge(e, i) ==
    IF S(e, i).ack_pending \/ Grantable(S(e, i)) < 2 * MaxPayload THEN e
    ELSE Wake(Put(e, i, [S(e, i) EXCEPT !.ack_pending = TRUE]), i)

ArmAck(e, i) ==
    IF S(e, i).ack_pending \/ Grantable(S(e, i)) < Unit THEN e
    ELSE IF Grantable(S(e, i)) < 2 * MaxPayload THEN SchedDelay(e, i, 1)
    ELSE IF S(e, i).q = "DRR" \/ e.active = i
         THEN Put(e, i, [S(e, i) EXCEPT !.ack_pending = TRUE])
         ELSE Wake(Put(e, i, [S(e, i) EXCEPT !.ack_pending = TRUE]), i)

CheckAck(e, i) ==
    IF S(e, i).st = "CLOSED" THEN e ELSE ArmAck(Put(e, i, TryShrink(e, S(e, i))), i)

(* stream_local_write: what the local socket takes of n bytes               *)
Taken(e, n) == Smaller(n, e.env.take)

WriteLocal(e, i, n) == [e EXCEPT !.app[i].read = @ + n, !.env.take = @ - n]

(* stream_flush_local, down to the half-close of a drained stream           *)
FinishIfDrained(e, i) ==
    IF S(e, i).buffered = 0 /\ S(e, i).st \in {"CLOSE_WAIT", "CLOSING"}
    THEN FinishDrainedWrite(e, i) ELSE e

FlushBuffered(e, i, n) ==
    IF n = 0 THEN e
    ELSE CheckAck(WriteLocal(Put(e, i, [S(e, i) EXCEPT !.buffered = @ - n]), i, n), i)

FlushLocal(e, i) ==
    IF e.env.err /\ S(e, i).buffered > 0 THEN Abort(e, i, "INTERNAL_ERROR")
    ELSE FinishIfDrained(FlushBuffered(e, i, Taken(e, S(e, i).buffered)), i)

(* n bytes cut into frames of at most MaxPayload *)
Chunks(n) ==
    [k \in 1 .. ((n + MaxPayload - 1) \div MaxPayload) |->
        Smaller(MaxPayload, n - (k - 1) * MaxPayload)]

(* mux_stream_queue_send, for each frame read *)
QueueSend(e, i, n) ==
    [Put(e, i, [S(e, i) EXCEPT !.sq = @ \o Chunks(n)]) EXCEPT !.app[i].wrote = @ + n,
                                                              !.app[i].plan = @ - n]

(* local_cb's loop over stream_on_recv: env.take bytes are readable, and    *)
(* the end of file behind them when env.close.  A stream in INIT queues one *)
(* payload only.                                                            *)
ReadLimit(s) == IF s.st = "INIT" THEN Smaller(MaxPayload, ReadCredit(s)) ELSE ReadCredit(s)
SeesEof(e, s) ==
    /\ e.env.close
    /\ e.env.take = 0 \/ (s.st # "INIT" /\ e.env.take < ReadCredit(s))

MarkEof(e, i, eof) ==
    [Put(e, i, [S(e, i) EXCEPT !.rx_eof = eof]) EXCEPT !.app[i].ended = @ \/ eof]
ReadInto(e, i, n) == MarkEof(QueueSend(e, i, n), i, SeesEof(e, S(e, i)))

OnRecvLocal(e, i) ==
    IF ~LocalReadAllowed(S(e, i)) \/ ReadCredit(S(e, i)) = 0 \/ ~e.env.mem THEN e
    ELSE IF e.env.err THEN Abort(e, i, "INTERNAL_ERROR")
    ELSE IF e.env.take = 0 /\ ~e.env.close THEN e
    ELSE Notify(Wake(ReadInto(e, i, Smaller(e.env.take, ReadLimit(S(e, i)))), i))

(* local_on_connected, stream_on_send *)
OnConnected(e, i) == Put(e, i, [S(e, i) EXCEPT !.conn = TRUE])

OnSendLocal(e, i) ==
    IF ~S(e, i).conn /\ e.env.err THEN Abort(e, i, "INTERNAL_ERROR")
    ELSE FlushLocal(OnConnected(e, i), i)
=============================================================================
