----------------------------- MODULE StreamPair -----------------------------
(***************************************************************************)
(* Two ends of one session carrying streams between local applications:    *)
(* "c" dialled and opens odd ids, "s" accepted and opens even ones.  Every *)
(* action is one callback of the event loop of one end, run to completion: *)
(* a read of the transport with the dispatch of the frames in it and the   *)
(* inline flush, the transport turning writable, a local socket turning    *)
(* readable or writable, the application's calls on a direct stream, the   *)
(* coalescing tick, the tombstone and local timers, a drain, and the loss  *)
(* and resumption of the transport.                                        *)
(***************************************************************************)
EXTENDS StreamSession, TLC

CONSTANTS
    Scenarios,      \* the configurations Init chooses from
    Big             \* a local socket that takes all that is offered

VARIABLES
    ends,           \* [{"c", "s"} -> the record of that end]
    left            \* how many of each kind of fault and choice remain

vars == <<ends, left>>

Other(p) == IF p = "c" THEN "s" ELSE "c"

Calm == [mem |-> TRUE, take |-> 0, err |-> FALSE, close |-> FALSE, part |-> FALSE, got |-> FALSE]

Idle(plan) == [plan |-> plan, wrote |-> 0, read |-> 0, ended |-> FALSE,
               eof |-> FALSE, reset |-> FALSE]

(* A session that has just completed its first handshake *)
NewEnd(sc, p) ==
    [ss |-> "ESTABLISHED", str |-> << >>, drr |-> <<>>, lp |-> <<>>, active |-> None,
     delay |-> <<>>, lp_pending |-> FALSE, tx_pending |-> FALSE, coalesce |-> FALSE,
     sendbuf |-> <<>>, staging |-> FALSE, partial |-> FALSE, replay |-> FALSE,
     out |-> <<>>, unreported |-> 0, num_closed |-> 0, num_tombstones |-> 0,
     next_id |-> 0, draining |-> FALSE, window |-> sc.window, orphans |-> {},
     conf |-> sc[p], bad |-> FALSE, env |-> Calm,
     app |-> [i \in Ids |-> Idle(sc.plan[p][i])]]

Init ==
    \E sc \in Scenarios :
        /\ ends = [p \in {"c", "s"} |-> NewEnd(sc, p)]
        /\ left = sc.left

Fix(e) == [e EXCEPT !.env = Calm]

(* One callback of end p leaves it as e *)
Step(p, e) == ends' = [ends EXCEPT ![p] = Fix(e)]

Spend(k) == left[k] > 0 /\ left' = [left EXCEPT ![k] = @ - 1]
Free == UNCHANGED left

(* What the environment may do to one callback of p: a fault of each kind    *)
(* is a budget of the scenario.                                             *)
Faults == {[mem |-> TRUE, err |-> FALSE], [mem |-> FALSE, err |-> FALSE],
           [mem |-> TRUE, err |-> TRUE]}
Pays(f) ==
    IF f.mem THEN IF f.err THEN Spend("err") ELSE Free
    ELSE left.oom > 0 /\ left' = [left EXCEPT !.oom = @ - 1, !.failed = @ + 1]

Env(p, f, take, close) ==
    [ends[p] EXCEPT !.env = [Calm EXCEPT !.mem = f.mem, !.err = f.err, !.take = take,
                                         !.close = close, !.part = ends[p].conf.part]]

(* How many bytes a local socket may take when it is written to inline       *)
Takes(p) == IF ends[p].conf.slow THEN {0, Big} ELSE {Big}
Closes(p) == IF ends[p].conf.closes THEN BOOLEAN ELSE {FALSE}
-----------------------------------------------------------------------------
(* mux_sched_alloc_stream_id, where ids do not run out *)
AllocId(e, p) == IF e.next_id = 0 THEN (IF p = "c" THEN 1 ELSE 2) ELSE e.next_id

(* mux_session_open_stream and mux_stream_open, then the mode the owner     *)
(* gives the stream: tunnel_attach_stream attaches its socket at once.      *)
OpenStream(e, i) ==
    Wake([e EXCEPT !.next_id = i + 2,
                   !.str = (i :> [NewStream(e, TRUE) EXCEPT !.pending_attach = TRUE]) @@ @], i)

GiveMode(e, i, how) ==
    CASE how = "socket" -> AttachFd(e, i)
      [] how = "direct" -> IoStart(e, i)
      [] OTHER -> e

Open(p) ==
    LET e == ends[p]
        i == AllocId(e, p)
    IN /\ e.ss = "ESTABLISHED" /\ ~e.draining /\ i \in Ids
       /\ e.conf.max_streams > 0 => ActiveStreams(e) < e.conf.max_streams
       /\ Spend("open" \o p)
       /\ Step(p, GiveMode(OpenStream(e, i), i, e.conf.open))

(* mux_stream_attach_fd or mux_stream_io_start some time after the stream   *)
(* was opened or accepted                                                   *)
AttachLater(p, i) ==
    \E f \in Faults, how \in {"socket", "direct"} :
        /\ Pays(f) /\ ~f.err
        /\ i \in DOMAIN ends[p].str
        /\ S(ends[p], i).mode = "none"
        /\ S(ends[p], i).pending_attach \/ S(ends[p], i).st = "SYN_RECEIVED"
        /\ how = ends[p].conf.later
        /\ Step(p, GiveMode(Env(p, f, 0, FALSE), i, how))

(* local_cb *)
LocalDone(e, i) == Flush(WatchUnlessFreed(e, i))

(* A polite application ends its direction only after its peer did.         *)
MayEnd(p, i) == ends[p].conf.polite => ends[p].app[i].eof

LocalReadable(p, i) ==
    \E f \in Faults, n \in 0 .. ends[p].app[i].plan, close \in BOOLEAN :
        /\ Pays(f)
        /\ i \in DOMAIN ends[p].str /\ "R" \in S(ends[p], i).ev
        /\ n > 0 \/ close \/ f.err
        /\ close => n = ends[p].app[i].plan /\ MayEnd(p, i)
        /\ ends[p].conf.brisk => n = ends[p].app[i].plan /\ (close \/ ~MayEnd(p, i))
        /\ n \in {0, 1, ends[p].app[i].plan}
        /\ Step(p, LocalDone(OnRecvLocal(Env(p, f, n, close), i), i))

LocalWritable(p, i) ==
    \E f \in Faults :
        /\ Pays(f)
        /\ i \in DOMAIN ends[p].str /\ "W" \in S(ends[p], i).ev
        /\ Step(p, LocalDone(OnSendLocal(Env(p, f, Big, FALSE), i), i))

(* timeout_cb: the local connect, or a local socket that stopped reading    *)
LocalTimeout(p, i) ==
    /\ Spend("err")
    /\ i \in DOMAIN ends[p].str /\ S(ends[p], i).mode = "socket"
    /\ ~S(ends[p], i).conn \/ S(ends[p], i).buffered > 0
    /\ Step(p, Flush(Abort(ends[p], i, "INTERNAL_ERROR")))

(* tombstone_cb *)
TombstoneExpires(p, i) ==
    /\ i \in DOMAIN ends[p].str /\ S(ends[p], i).tomb /\ ends[p].conf.expires
    /\ Step(p, Wake([Put(ends[p], i, [S(ends[p], i) EXCEPT !.tomb = FALSE])
                         EXCEPT !.num_tombstones = @ - 1], i))
    /\ Free

(* mux_stream_send from the application's watcher *)
DirectSend(p, i) ==
    /\ i \in DOMAIN ends[p].str /\ "W" \in S(ends[p], i).fed
    /\ ends[p].app[i].plan > 0
    /\ LET e == Put(ends[p], i, [S(ends[p], i) EXCEPT !.fed = @ \ {"W"}])
           n == Smaller(e.app[i].plan, ReadCredit(S(e, i)))
       IN Step(p, IF ~MayOriginate(S(e, i)) \/ n = 0 THEN e
                  ELSE Wake(QueueSend(e, i, n), i))
    /\ Free

(* mux_stream_recv from the application's watcher, until it has nothing     *)
(* more to return                                                           *)
RecvAll(e, i) ==
    IF S(e, i).buffered = 0 THEN e
    ELSE CheckAck([Put(e, i, [S(e, i) EXCEPT !.buffered = 0])
                       EXCEPT !.app[i].read = @ + S(e, i).buffered], i)

RecvEof(e, i) ==
    CASE S(e, i).st = "CLOSE_WAIT" -> SawEof(e, i)
      [] S(e, i).st = "CLOSING" ->
            DoClose(SawEof(Put(e, i, [S(e, i) EXCEPT !.user_closed = TRUE]), i), i)
      [] OTHER -> e

DirectRecv(p, i) ==
    /\ i \in DOMAIN ends[p].str /\ "R" \in S(ends[p], i).fed
    /\ LET e == Put(ends[p], i, [S(ends[p], i) EXCEPT !.fed = @ \ {"R"}])
       IN Step(p, IF S(e, i).rst_received \/ S(e, i).aborted THEN SawReset(e, i)
                  ELSE RecvEof(RecvAll(e, i), i))
    /\ Free

(* mux_stream_shutdown once all is written *)
DirectShutdown(p, i) ==
    /\ i \in DOMAIN ends[p].str /\ S(ends[p], i).mode = "direct"
    /\ ends[p].app[i].plan = 0 /\ ~S(ends[p], i).rx_eof /\ ~S(ends[p], i).user_closed
    /\ MayEnd(p, i)
    /\ Step(p, Shutdown(ends[p], i)) /\ Free

(* mux_stream_close: of a stream that is over at any time, of another as    *)
(* often as the scenario says                                               *)
DirectClose(p, i) ==
    /\ i \in DOMAIN ends[p].str /\ AppHeld(S(ends[p], i))
    /\ IF S(ends[p], i).st = "CLOSED" \/ (ends[p].app[i].eof /\ ends[p].app[i].ended)
       THEN Free ELSE Spend("close")
    /\ Step(p, Close(ends[p], i))

(* mux_stream_close of a stream whose session was torn down                 *)
ReleaseOrphan(p, i) ==
    /\ i \in ends[p].orphans
    /\ ends' = [ends EXCEPT ![p].orphans = @ \ {i}] /\ Free
-----------------------------------------------------------------------------
(* mux_session_on_recv: n whole frames are dispatched, then the responses   *)
(* are flushed.                                                             *)
Deliver(p) ==
    \E f \in Faults, take \in Takes(p), close \in Closes(p),
       n \in {1, Len(ends[Other(p)].out)} :
        /\ Pays(f)
        /\ ends[p].conf.brisk => n = Len(ends[Other(p)].out)
        /\ ends[p].ss = "ESTABLISHED"
        /\ ends[Other(p)].out # <<>> /\ ~ends[Other(p)].replay
        /\ LET in == ends[Other(p)].out
           IN ends' = [ends EXCEPT
                  ![p] = Fix(FlushResp(FoldLeft(DispatchFrame, Env(p, f, take, close),
                                                SubSeq(in, 1, n)))),
                  ![Other(p)].out = SubSeq(in, n + 1, Len(in)),
                  ![Other(p)].unreported =
                      IF ends[Other(p)].conf.session_window > 0 THEN @ + n ELSE 0]

(* A session-level ACK of the peer arrives: see Resume for its content      *)
SessionAck(p) ==
    /\ ends[p].unreported > 0
    /\ ends[p].ss = "ESTABLISHED" /\ ends[Other(p)].ss = "ESTABLISHED"
    /\ LET e == [ends[p] EXCEPT !.unreported = 0]
       IN Step(p, FlushResp(IF Stalled(ends[p]) /\ ~Stalled(e) THEN NotifyWrite(e) ELSE e))
    /\ Free

(* socket_cb with EV_WRITE *)
Writable(p) ==
    \E f \in Faults :
        /\ Pays(f) /\ ~f.err
        /\ ends[p].ss = "ESTABLISHED" /\ ends[p].tx_pending /\ Room(ends[p])
        /\ Step(p, OnSend(Env(p, f, 0, FALSE)))

(* sched_coalesce_cb *)
Expire(e, i) ==
    IF S(e, i).delay > 1 THEN Put(e, i, [S(e, i) EXCEPT !.delay = @ - 1])
    ELSE Wake(Put(DelayRemove(e, i), i,
                  [S(e, i) EXCEPT !.delay = 0, !.nagle_flush = TRUE,
                                  !.ack_pending = @ \/ Grantable(S(e, i)) >= Unit]), i)

CoalesceTick(p) ==
    /\ ends[p].coalesce
    /\ LET e == FoldLeft(Expire, ends[p], ends[p].delay)
       IN Step(p, [e EXCEPT !.coalesce = e.delay # <<>>])
    /\ Free

(* mux_session_recv_pong in auto-window mode: session_update_stream_window  *)
(* with update_stream_window_cb on every stream                             *)
GrowStream(e, i) ==
    IF e.window * Unit <= S(e, i).rwin THEN e
    ELSE CheckAck(Put(e, i, [S(e, i) EXCEPT !.rwin = e.window * Unit]), i)

GrowAll(e) == FoldLeft(GrowStream, e, SetToSeq(DOMAIN e.str))

WindowUpdate(p) ==
    \E w \in {ends[p].window - 1, ends[p].window + 1} :
        /\ Spend("grow")
        /\ w >= 1 /\ ends[p].conf.auto /\ ends[p].ss = "ESTABLISHED"
        /\ w > ends[p].window \/ ends[p].conf.shrinks
        /\ ends[p].conf.halfopen_grow
              \/ \A i \in DOMAIN ends[p].str : S(ends[p], i).st \notin {"INIT", "SYN_SENT"}
        /\ Step(p, FlushResp(IF w > ends[p].window
                             THEN GrowAll([ends[p] EXCEPT !.window = w])
                             ELSE [ends[p] EXCEPT !.window = w]))
-----------------------------------------------------------------------------
(* mux_session_suspend: what is in the send buffer goes to the resume log   *)
SuspendEnd(e) ==
    [e EXCEPT !.ss = "SUSPENDED", !.out = @ \o FlattenSeq(e.sendbuf), !.sendbuf = <<>>,
              !.staging = FALSE, !.partial = FALSE, !.tx_pending = FALSE,
              !.lp_pending = FALSE, !.coalesce = FALSE]

Lose(p) ==
    /\ Spend("loss")
    /\ ends[p].ss = "ESTABLISHED"
    /\ ends[p].conf.stalled_loss \/ ends[p].active = None
    /\ Step(p, SuspendEnd(ends[p]))

(* mux_session_handshake_done of a resumed session; the peer's hello has    *)
(* said how far it got, so what it handled is off the log.                  *)
Resumed(e) ==
    CheckNoActive(Schedule(
        [e EXCEPT !.ss = "ESTABLISHED", !.unreported = 0, !.replay = (e.out # <<>>),
                  !.tx_pending = @ \/ e.drr # <<>> \/ e.out # <<>>,
                  !.coalesce = @ \/ e.delay # <<>>]))

(* session_resume_attach at the accepting end, which suspends a transport   *)
(* it has not yet noticed is gone, and then always wakes the write path     *)
ResumeServer ==
    /\ ends["c"].ss = "SUSPENDED" /\ ends["s"].ss \in {"ESTABLISHED", "SUSPENDED"}
    /\ LET e == Resumed(IF ends["s"].ss = "ESTABLISHED" THEN SuspendEnd(ends["s"])
                                                        ELSE ends["s"])
       IN ends' = [ends EXCEPT !["s"] = Fix(IF e.ss = "ESTABLISHED" THEN Notify(e) ELSE e),
                               !["c"].ss = "HANDSHAKE"]
    /\ Free

ResumeClient ==
    /\ ends["c"].ss = "HANDSHAKE" /\ ends["s"].ss = "ESTABLISHED"
    /\ Step("c", Resumed(ends["c"]))
    /\ Free

(* mux_session_drain *)
Drain(p) ==
    /\ Spend("drain") /\ ~ends[p].draining
    /\ Step(p, CheckNoActive([ends[p] EXCEPT !.draining = TRUE]))

(* The peer of an end that shuts down learns of it and tears down too.      *)
PeerCloses(p) ==
    /\ ends[Other(p)].ss = "CLOSING" /\ ends[p].ss # "CLOSED"
    /\ ends' = [q \in {"c", "s"} |->
                  [FreeStreams(ends[q]) EXCEPT
                      !.ss = "CLOSED", !.out = <<>>, !.sendbuf = <<>>, !.staging = FALSE,
                      !.partial = FALSE, !.tx_pending = FALSE, !.lp_pending = FALSE,
                      !.coalesce = FALSE, !.unreported = 0, !.replay = FALSE]]
    /\ Free

StreamStep(p, i) ==
    \/ AttachLater(p, i) \/ LocalReadable(p, i) \/ LocalWritable(p, i) \/ LocalTimeout(p, i)
    \/ TombstoneExpires(p, i) \/ DirectSend(p, i) \/ DirectRecv(p, i)
    \/ DirectShutdown(p, i) \/ DirectClose(p, i) \/ ReleaseOrphan(p, i)

EndStep(p) ==
    \/ Open(p) \/ Deliver(p) \/ SessionAck(p) \/ Writable(p) \/ CoalesceTick(p)
    \/ WindowUpdate(p) \/ Lose(p) \/ Drain(p) \/ PeerCloses(p)

Next ==
    \/ \E p \in {"c", "s"} : EndStep(p) \/ \E i \in Ids : StreamStep(p, i)
    \/ ResumeServer \/ ResumeClient

Spec == Init /\ [][Next]_vars
-----------------------------------------------------------------------------
Sides == {"c", "s"}
Flying(p, i) == SelectSeq(ends[p].out \o FlattenSeq(ends[p].sendbuf), LAMBDA x: x.id = i)
Sum(s) == FoldSeq(LAMBDA n, acc: n + acc, 0, s)
Lens(fs) == Sum([k \in DOMAIN fs |-> fs[k].len])
Extras(fs) == Sum([k \in DOMAIN fs |-> fs[k].extra])
Rsts(p, i) == Len(SelectSeq(Flying(p, i), LAMBDA x: "RST" \in x.flags))

(* A stream both ends have and neither has given up *)
Joined(i) ==
    \A p \in Sides : i \in DOMAIN ends[p].str /\ S(ends[p], i).st # "CLOSED" /\ Rsts(p, i) = 0

(* Types of the parts of the two ends that the steps change. *)
TypeOK ==
    \A p \in Sides :
        LET e == ends[p]
        IN /\ e.ss \in {"ESTABLISHED", "SUSPENDED", "HANDSHAKE", "CLOSING", "CLOSED"}
           /\ DOMAIN e.str \subseteq Ids /\ e.orphans \subseteq Ids
           /\ Range(e.drr) \cup Range(e.lp) \cup Range(e.delay) \subseteq DOMAIN e.str
           /\ e.active \in DOMAIN e.str \cup {None}
           /\ \A i \in DOMAIN e.str :
                 /\ S(e, i).q \in {"NONE", "DRR", "LP"}
                 /\ S(e, i).mode \in {"none", "socket", "direct"}
                 /\ {S(e, i).deficit, S(e, i).unacked, S(e, i).swin, S(e, i).sent} \subseteq Nat
                 /\ S(e, i).sent <= S(e, i).swin /\ S(e, i).rcvd <= S(e, i).grant

(* Credit and payload are conserved across the two ends: what one end sent  *)
(* is what the other received plus what is in flight, and the credit the    *)
(* sender knows of plus the grants in flight is what the receiver granted   *)
(* (mux_session_send_push, sched_send_ctrl_flags, mux_stream_recv_window).  *)
CreditConserved ==
    \A i \in Ids, p \in Sides :
        Joined(i) =>
            LET s == S(ends[p], i)
                r == S(ends[Other(p)], i)
            IN /\ s.sent = r.rcvd + Lens(Flying(p, i))
               /\ s.swin + Unit * Extras(Flying(Other(p), i)) = r.grant

(* The receiver never promises more than it can hold (mux_stream_grant_inc, *)
(* stream_try_shrink_recv_window), so no conforming sender is ever reset    *)
(* for overrunning its credit (mux_stream_recv_copy).                       *)
GrantFitsWindow ==
    \A p \in Sides :
        /\ \A i \in DOMAIN ends[p].str :
              S(ends[p], i).st # "CLOSED" =>
                  S(ends[p], i).buffered + S(ends[p], i).grant - S(ends[p], i).rcvd
                      <= Larger(S(ends[p], i).rwin, Unit)
        /\ \A i \in Ids : \A k \in DOMAIN Flying(p, i) :
              Flying(p, i)[k].code # "FLOW_CONTROL_ERROR"

(* The next frame a peer will dispatch passes validate_flags_by_stream, so  *)
(* two ends of this code never reset a live stream for a flag violation     *)
(* (dispatch_by_stream), whichever closes first.                            *)
FlagsAccepted ==
    \A p \in Sides :
        LET in == ends[Other(p)].out
        IN ends[p].ss = "ESTABLISHED" /\ in # <<>> /\ Head(in).id \in DOMAIN ends[p].str
           => LET s == S(ends[p], Head(in).id)
              IN s.st = "CLOSED" \/ "RST" \in Head(in).flags \/ ValidFlags(s, Head(in).flags)

(* The queue links agree with the queues, a stream waits in one of them,    *)
(* and the counters of closed and lingering streams are exact               *)
(* (sched_enqueue, sched_lp_enqueue, sched_dequeue, stream_stop,            *)
(* mux_sched_delay, stream_mark_closed, tombstone_cb).                      *)
QueuesAgree ==
    \A p \in Sides :
        LET e == ends[p]
        IN /\ IsInjective(e.drr) /\ IsInjective(e.lp) /\ IsInjective(e.delay)
           /\ \A i \in DOMAIN e.str :
                 /\ (S(e, i).q = "DRR") = (i \in Range(e.drr))
                 /\ (S(e, i).q = "LP") = (i \in Range(e.lp))
                 /\ (S(e, i).delay > 0) = (i \in Range(e.delay))
                 /\ e.active = i => S(e, i).q = "NONE" /\ S(e, i).st # "CLOSED"
                 /\ S(e, i).tomb => S(e, i).st = "CLOSED"
           /\ e.num_closed = Cardinality({i \in DOMAIN e.str : S(e, i).st = "CLOSED"})
           /\ e.num_tombstones = Cardinality({i \in DOMAIN e.str : S(e, i).tomb})

(* No handler touches a stream that a callback or the shutdown of a         *)
(* draining session freed under it (dispatch_by_stream, local_cb,           *)
(* mux_sched_next_data check session_streams_freed after each call).        *)
NoUseAfterFree == \A p \in Sides : ~ends[p].bad

(* A stream with something to do is where something will find it: data with *)
(* credit, a FIN or credit to return has the stream in the ready ring, the  *)
(* serving slot or the delay list; a new stream and a finished one wait for *)
(* the lifecycle pass (mux_sched_wake, mux_stream_check_ack,                *)
(* sched_drr_continue, mux_stream_dequeue_send, mux_stream_start).          *)
Findable(e, i) == S(e, i).q # "NONE" \/ e.active = i \/ S(e, i).delay > 0

Busy(e, i) ==
    LET s == S(e, i)
    IN \/ s.st \in {"ESTABLISHED", "CLOSE_WAIT"} /\ s.sq # <<>> /\ HasCredit(s)
       \/ FinPending(s)
       \/ s.ack_pending /\ s.st \in {"ESTABLISHED", "FIN_WAIT"}
       \/ s.st = "INIT"
       \/ s.st = "CLOSED" /\ ~s.tomb /\ ~AppHeld(s)

NoStreamForgotten ==
    \A p \in Sides : \A i \in DOMAIN ends[p].str : Busy(ends[p], i) => Findable(ends[p], i)

(* A receiver whose peer has used up all its credit, and that has room for  *)
(* a unit again, is about to say so (mux_stream_check_ack and               *)
(* mux_stream_grant_inc: "always grant at least one unit ... the            *)
(* flow-control loop cannot deadlock").                                     *)
CreditReturned ==
    \A p \in Sides : \A i \in DOMAIN ends[p].str :
        LET s == S(ends[p], i)
        IN s.st \in {"ESTABLISHED", "FIN_WAIT"} /\ s.grant = s.rcvd /\ AvailWindow(s) >= Unit
           => (s.ack_pending \/ s.delay > 0) /\ Findable(ends[p], i)

(* An established session with work left is watching for EV_WRITE, or for   *)
(* the coalescing tick (update_watcher of session.c, mux_sched_schedule,    *)
(* mux_session_on_send, mux_session_handshake_done).                        *)
WriteArmed ==
    \A p \in Sides :
        LET e == ends[p]
        IN e.ss = "ESTABLISHED" =>
             /\ e.drr # <<>> \/ e.sendbuf # <<>> \/ e.replay \/ e.lp_pending => e.tx_pending
             /\ e.active # None => e.tx_pending \/ Stalled(e)
             /\ e.lp # <<>> => e.lp_pending \/ e.sendbuf # <<>>
             /\ e.delay # <<>> => e.coalesce

(* When neither end has an event left to wait for but the tombstone timers, *)
(* every stream is over at both ends: nothing was lost on the way.  The     *)
(* exception is a stream whose peer gave it up with no memory for the RST,  *)
(* which mux_stream_abort leaves to a later frame of the stream to trigger. *)
Waiting(p, i) ==
    LET s == S(ends[p], i)
    IN \/ s.mode = "none" /\ (s.pending_attach \/ s.st = "SYN_RECEIVED")
       \/ "W" \in s.ev
       \/ "R" \in s.ev /\ ~ends[p].app[i].ended /\ MayEnd(p, i)
       \/ "R" \in s.fed
       \/ "W" \in s.fed /\ ends[p].app[i].plan > 0
       \/ AppHeld(s) /\ (ends[p].app[i].plan = 0 \/ (ends[p].app[i].ended /\ ends[p].app[i].eof))

Quiet ==
    \A p \in Sides :
        /\ ends[p].ss = "ESTABLISHED" /\ ~ends[p].tx_pending /\ ~ends[p].coalesce
        /\ ends[p].out = <<>> /\ ends[p].unreported = 0
        /\ \A i \in DOMAIN ends[p].str : ~Waiting(p, i)

QuietMeansDone ==
    Quiet => \A p \in Sides : \A i \in DOMAIN ends[p].str :
                 \/ S(ends[p], i).st = "CLOSED"
                 \/ left.failed > 0 /\ ends[Other(p)].app[i].reset

(* An RST is sent at most once for a stream an end has, and never in answer *)
(* to one (stream_reset_unread, dispatch_by_stream, mux_stream_abort).      *)
RstOnce ==
    [][\A p \in Sides : \A i \in DOMAIN ends[p].str :
          i \in DOMAIN ends'[p].str /\ (S(ends[p], i).rst_sent \/ S(ends[p], i).rst_received)
          => Rsts(p, i)' <= Rsts(p, i)]_vars

(* A stream the application holds is only freed by a call of its own that   *)
(* lets go of it: until then it stays in the table or becomes an orphan     *)
(* (mux_stream_app_held, mux_sched_free_streams, mux_stream_orphan).        *)
LetsGo(p, i) ==
    DirectRecv(p, i) \/ DirectClose(p, i) \/ AttachLater(p, i) \/ ends[p].conf.closes

HeldNotFreed ==
    [][\A p \in Sides : \A i \in DOMAIN ends[p].str :
          AppHeld(S(ends[p], i)) /\ i \notin DOMAIN ends'[p].str
          => i \in ends'[p].orphans \/ LetsGo(p, i)]_vars

(* The stream the two applications see.                                     *)
Seen(f(_)) == [i \in Ids |-> [p \in Sides |-> f(ends[p].app[i])]]

Bytes == INSTANCE ByteStream WITH
    Streams <- Ids,
    wrote <- Seen(LAMBDA a: a.wrote), read <- Seen(LAMBDA a: a.read),
    ended <- Seen(LAMBDA a: a.ended), eof <- Seen(LAMBDA a: a.eof),
    reset <- Seen(LAMBDA a: a.reset)

(* The pair implements a reliable byte stream in each direction of each     *)
(* stream: no byte is lost, duplicated or made up, the end comes after the  *)
(* last byte, and nothing comes after an end or a reset, across flow        *)
(* control, Nagle, half-closes, aborts and resumptions.                     *)
ByteStreamSpec == Bytes!Spec
=============================================================================
