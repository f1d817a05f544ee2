----------------------------- MODULE StreamSched -----------------------------
(***************************************************************************)
(* The stream table of one end of a session and the queues its streams     *)
(* wait in: struct mux_stream and the predicates of src/mux/stream.h, the  *)
(* ready ring, the low-priority lifecycle queue and the coalescing delay   *)
(* list of src/mux/sched.c, and the two ways src/mux/send.c puts a         *)
(* stream's control frames in, and takes them out of, the send buffer.     *)
(*                                                                         *)
(* One end is a record e.  A stream is named by its id; the table is the   *)
(* function e.str, and a handler that writes to an id no longer in it has  *)
(* written to a freed stream (e.bad).  e.env holds what the environment    *)
(* does to the handler that is running: `mem' whether a frame can be       *)
(* allocated, `take' how many bytes the local socket takes or gives before *)
(* EAGAIN, `err' whether it fails instead, `close' whether the             *)
(* application's callback closes the stream it is told about.  e.app       *)
(* counts what the local application of a stream has seen.                 *)
(***************************************************************************)
EXTENDS Naturals, FiniteSets, SequencesExt

CONSTANTS
    Unit,           \* MUX_WINDOW_UNIT and MUX_DEFAULT_SEND_WINDOW, in bytes
    MaxPayload,     \* bytes of payload a frame holds (max_payload)
    MaxCredit,      \* INT32_MAX: the most credit a peer may grant
    MaxExtra        \* UINT16_MAX: the most units one frame may grant

ASSUME SchedAssumption ==
    /\ {Unit, MaxPayload, MaxCredit, MaxExtra} \subseteq Nat \ {0}
    /\ MaxPayload <= Unit

None == 0           \* no stream: STREAMID_CTRL is no stream's id

Smaller(a, b) == IF a < b THEN a ELSE b
Larger(a, b) == IF a > b THEN a ELSE b

(* struct mux_header of a stream's frame: flags, payload length and Extra,  *)
(* which is a credit in units or, with RST, a status code.                  *)
Frame(i, flags, len, extra, code) ==
    [id |-> i, flags |-> flags, len |-> len, extra |-> extra, code |-> code]

(* mux_stream_new *)
NewStream(e, active) ==
    [st |-> IF active THEN "INIT" ELSE "SYN_RECEIVED",
     q |-> "NONE", mode |-> "none", conn |-> FALSE, ev |-> {}, wio |-> FALSE, fed |-> {},
     user_closed |-> FALSE, pending_attach |-> FALSE,
     ack_pending |-> FALSE, rx_eof |-> FALSE, tx_shutdown |-> FALSE,
     rst_received |-> FALSE, rst_sent |-> FALSE, aborted |-> FALSE,
     nagle_flush |-> FALSE, delay |-> 0, tomb |-> FALSE,
     sq |-> <<>>, sent |-> 0, swin |-> Unit, unacked |-> 0, deficit |-> 0,
     rcvd |-> 0, buffered |-> 0, rwin |-> e.window * Unit, grant |-> Unit]

(* What a read through a dangling pointer returns. *)
Freed == NewStream([window |-> 0], TRUE)

S(e, i) == IF i \in DOMAIN e.str THEN e.str[i] ELSE Freed

Put(e, i, s) == IF i \in DOMAIN e.str THEN [e EXCEPT !.str[i] = s]
                                      ELSE [e EXCEPT !.bad = TRUE]

(* session_streams_freed *)
StreamsFreed(e) == e.ss \in {"CLOSING", "CLOSED"}

QueuedBytes(s) == FoldSeq(LAMBDA n, acc: n + acc, 0, s.sq)

(* stream_avail_window, stream_credit_avail, stream_read_credit_avail,      *)
(* stream_grantable_bytes: counters stay far below 2^32 in any instance.    *)
AvailWindow(s) == IF s.rwin > s.buffered THEN s.rwin - s.buffered ELSE 0
CreditAvail(s) == s.swin - s.sent
ReadCredit(s) == IF CreditAvail(s) > QueuedBytes(s) THEN CreditAvail(s) - QueuedBytes(s) ELSE 0
Grantable(s) == IF AvailWindow(s) > s.grant - s.rcvd
                THEN AvailWindow(s) - (s.grant - s.rcvd) ELSE 0

(* stream_fin_pending *)
FinPending(s) == s.rx_eof /\ s.sq = <<>> /\ s.st \in {"ESTABLISHED", "CLOSE_WAIT"}

(* stream_can_send_data, stream_may_originate *)
CanSendData(s) == s.st \in {"INIT", "ESTABLISHED", "CLOSE_WAIT"}
MayOriginate(s) == ~s.rx_eof /\ CanSendData(s)

(* stream_direct_read_ready, stream_direct_write_ready *)
DirectReadReady(s) ==
    s.buffered > 0 \/ s.st \in {"CLOSE_WAIT", "CLOSING"} \/ s.rst_received \/ s.aborted
DirectWriteReady(s) == MayOriginate(s) /\ ReadCredit(s) > 0

(* mux_stream_app_held *)
AppHeld(s) == s.pending_attach \/ (s.mode = "direct" /\ ~s.user_closed)

HalfOpen(e) ==
    Cardinality({i \in DOMAIN e.str : e.str[i].st \in {"INIT", "SYN_SENT", "SYN_RECEIVED"}})

(* session_pressure_scale, as a fraction of Pressure(e)[2]: full below the  *)
(* low mark, an eighth above the high one, linear between them.             *)
RecvBuffered(e) == FoldSet(LAMBDA i, acc: e.str[i].buffered + acc, 0, DOMAIN e.str)
Pressure(e) ==
    LET lo == e.conf.lo
        hi == e.conf.hi
        b == RecvBuffered(e)
    IN IF hi = 0 \/ b <= lo THEN <<1, 1>>
       ELSE IF b >= hi THEN <<1, 8>>
       ELSE <<8 * (hi - lo) - 7 * (b - lo), 8 * (hi - lo)>>

(* mux_stream_grant_inc: whole units, at least one once one fits            *)
GrantInc(e, i) ==
    LET g == Grantable(S(e, i))
        scaled == (g * Pressure(e)[1]) \div Pressure(e)[2]
    IN IF g < Unit THEN 0 ELSE Smaller(Larger(scaled, Unit) \div Unit, MaxExtra)
-----------------------------------------------------------------------------
(* mux_session_notify, mux_notify_write *)
Notify(e) == [e EXCEPT !.tx_pending = TRUE]
NotifyWrite(e) == IF e.ss = "ESTABLISHED" THEN Notify(e) ELSE e

(* mux_wire_sendbuf_push: the send buffer is a sequence of records; a frame *)
(* is packed into the last one while that is open and has room for it.      *)
Payload(rec) == FoldSeq(LAMBDA x, acc: x.len + acc, 0, rec)

SendbufPush(e, x) ==
    [e EXCEPT !.staging = TRUE,
              !.sendbuf = IF e.staging /\ Payload(Last(@)) + x.len <= MaxPayload
                          THEN [@ EXCEPT ![Len(@)] = Append(@, x)]
                          ELSE Append(@, <<x>>)]

(* mux_session_send_ctrl: with no memory for the frame it fails and sends   *)
(* nothing, which its callers see as ~e.env.mem.                            *)
SendCtrl(e, x) == IF e.env.mem THEN NotifyWrite(SendbufPush(e, x)) ELSE e

(* mux_session_discard_stream_frames: all but RST go, except from a head    *)
(* record already partly written.                                           *)
DiscardStreamFrames(e, i) ==
    LET kept(rec) == SelectSeq(rec, LAMBDA x: x.id # i \/ "RST" \in x.flags)
        after == [k \in DOMAIN e.sendbuf |->
                      IF k = 1 /\ e.partial THEN e.sendbuf[k] ELSE kept(e.sendbuf[k])]
    IN [e EXCEPT !.sendbuf = SelectSeq(after, LAMBDA rec: rec # <<>>),
                 !.staging = @ /\ Last(after) # <<>>]

(* mux_sched_coalesce_arm, mux_sched_delay, mux_sched_delay_remove *)
CoalesceArm(e) == [e EXCEPT !.coalesce = TRUE]

SchedDelay(e, i, ticks) ==
    IF S(e, i).delay > 0
    THEN Put(e, i, [S(e, i) EXCEPT !.delay = Smaller(@, ticks)])
    ELSE Put([(IF e.delay = <<>> THEN CoalesceArm(e) ELSE e)
                  EXCEPT !.delay = <<i>> \o @],
             i, [S(e, i) EXCEPT !.delay = ticks])

DelayRemove(e, i) ==
    Put([e EXCEPT !.delay = Remove(@, i)], i, [S(e, i) EXCEPT !.delay = 0])

(* sched_enqueue, sched_lp_enqueue *)
Enqueue(e, i) ==
    IF S(e, i).q = "NONE" /\ e.active # i /\ ~S(e, i).tomb
    THEN Put([e EXCEPT !.drr = Append(@, i)], i, [S(e, i) EXCEPT !.q = "DRR"])
    ELSE e

LpEnqueue(e, i) ==
    IF S(e, i).q = "NONE" /\ e.active # i /\ ~S(e, i).tomb
    THEN Put([e EXCEPT !.lp = Append(@, i)], i, [S(e, i) EXCEPT !.q = "LP"])
    ELSE e

(* mux_sched_schedule *)
(* Defect: EV_WRITE is not asked for.                                       *)
ScheduleUnarmed(e) ==
    IF e.lp = <<>> \/ e.sendbuf # <<>> THEN e ELSE [e EXCEPT !.lp_pending = TRUE]

Schedule(e) ==
    IF e.lp = <<>> \/ e.sendbuf # <<>> THEN e
    ELSE Notify([e EXCEPT !.lp_pending = TRUE])

(* mux_sched_wake *)
Wake(e, i) ==
    IF e.ss # "ESTABLISHED" THEN Enqueue(e, i)
    ELSE IF S(e, i).st \in {"INIT", "CLOSED"} THEN Notify(Schedule(LpEnqueue(e, i)))
    ELSE Notify(Enqueue(e, i))

(* The ids a table entry can be removed from are all in both numberings.    *)
Without(str, ids) == [i \in DOMAIN str \ ids |-> str[i]]

(* What the application of a stream learns when its session is torn down    *)
AppReset(app, ids) == [i \in DOMAIN app |-> IF i \in ids THEN [app[i] EXCEPT !.reset = TRUE]
                                                        ELSE app[i]]

(* mux_sched_free_streams: every stream goes, the ones the application      *)
(* holds to the orphan list.                                                *)
FreeStreams(e) ==
    LET live == {i \in DOMAIN e.str : e.str[i].st # "CLOSED"}
        held == {i \in DOMAIN e.str : AppHeld(e.str[i])}
    IN [e EXCEPT !.drr = <<>>, !.lp = <<>>, !.active = None, !.delay = <<>>,
                 !.num_tombstones = 0, !.num_closed = 0, !.next_id = 0,
                 !.orphans = @ \cup held,
                 !.app = AppReset(@, live),
                 !.str = Without(@, DOMAIN @)]

(* mux_session_initiate_shutdown of an ESTABLISHED session                  *)
InitiateShutdown(e) ==
    [FreeStreams(e) EXCEPT !.sendbuf = <<>>, !.staging = FALSE, !.partial = FALSE,
                           !.lp_pending = FALSE, !.coalesce = FALSE,
                           !.ss = "CLOSING", !.tx_pending = TRUE]

(* mux_sched_check_no_active_streams; the idle timer is not modelled here   *)
CheckNoActive(e) ==
    IF /\ Cardinality(DOMAIN e.str) = e.num_closed
       /\ e.ss = "ESTABLISHED"
       /\ e.draining
    THEN InitiateShutdown(e) ELSE e

(* sched_remove_stream and mux_stream_free of a CLOSED stream               *)
RemoveStream(e, i) ==
    CheckNoActive([e EXCEPT !.str = Without(@, {i}),
                            !.delay = Remove(@, i),
                            !.active = IF @ = i THEN None ELSE @,
                            !.num_closed = @ - 1])

(* sched_dequeue *)
Dequeue(e) ==
    Put([e EXCEPT !.drr = Tail(@)], Head(e.drr), [S(e, Head(e.drr)) EXCEPT !.q = "NONE"])
=============================================================================
