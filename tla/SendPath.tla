------------------------------ MODULE SendPath ------------------------------
(***************************************************************************)
(* Queueing and flushing: src/mux/send.c and the packing of src/mux/wire.c *)
(*                                                                         *)
(* sendbuf is the list of physical records, each a sequence of frames; the *)
(* last one is open for packing while `staging' holds.  What reaches the   *)
(* socket accumulates in `out'; how much the socket takes is `budget', in  *)
(* whole frames: a frame cut in the middle stays queued, as in the code.   *)
(* The replay copy, when there is one, is the head of sendbuf.             *)
(***************************************************************************)
EXTENDS UnackedLog

CONSTANTS
    MaxPack     \* frames that fit one physical record (MUX_MAX_RECORD)

ASSUME SendAssumption == MaxPack \in Nat \ {0}

(* mux_notify_write *)
NotifyWrite(s) == [s EXCEPT !.tx_pending = @ \/ s.st = "ESTABLISHED"]

(* mux_wire_sendbuf_push *)
SendbufPush(s, x) ==
    IF s.staging /\ Len(Last(s.sendbuf)) < MaxPack
    THEN [s EXCEPT !.sendbuf[Len(s.sendbuf)] = Append(@, x)]
    ELSE [s EXCEPT !.sendbuf = Append(@, <<x>>), !.staging = TRUE]

(* Defect: control frames do not wait for the replay. *)
SendCtrlEager(s, x) == NotifyWrite(SendbufPush(s, x))

(* mux_session_send_ctrl: a stream's control frame waits in oobbuf while a  *)
(* replay is armed, a stream-0 frame does not.                              *)
SendCtrl(s, x) ==
    NotifyWrite(IF IsFrame(x) /\ s.off # NoReplay
                THEN [s EXCEPT !.oobbuf = Append(@, x)]
                ELSE SendbufPush(s, x))

(* mux_session_emit_ack *)
EmitAck(s) == [SendCtrl(s, Ack(s.unreported)) EXCEPT !.unreported = 0]

(* The next frame a stream queues, and the session once it is counted. *)
NextFrame(s, kind) == Frame(kind, s.sid, s.made.data + s.made.ctrl + 1)
Counted(s, kind) == [s EXCEPT !.made[kind] = @ + 1]

(* mux_sched_next_data with a ready stream: one PUSH frame joins sendbuf *)
NextData(s) ==
    SendbufPush([Counted(s, "data") EXCEPT !.ready = @ - 1], NextFrame(s, "data"))
-----------------------------------------------------------------------------
(* A pump in progress: the session, what it wrote, what the socket still    *)
(* takes, and whether the transport has blocked.                            *)
Pumping(s, budget) == [s |-> s, out |-> <<>>, budget |-> budget, blocked |-> FALSE]

Wrote(s, x) == [s EXCEPT !.written = SerialAdd(@, Len(Retainable(x)))]

(* flush_sendbuf_head *)
FlushHead(p) ==
    LET head == p.s.sendbuf[1]
        sealed == [p.s EXCEPT !.staging = @ /\ Len(p.s.sendbuf) > 1]
        popped == [sealed EXCEPT !.sendbuf = Tail(@)]
        part == SubSeq(head, 1, p.budget)
    IN IF p.budget = 0 THEN [p EXCEPT !.s = sealed, !.blocked = TRUE]
       ELSE IF p.budget < Len(head)
       THEN [s |-> Wrote(TrackPartial(sealed, p.budget), part),
             out |-> p.out \o part, budget |-> 0, blocked |-> TRUE]
       ELSE [s |-> Wrote(IF p.s.copy THEN RetireCopy(popped)
                                     ELSE TrackSent(popped, head), head),
             out |-> p.out \o head, budget |-> p.budget - Len(head), blocked |-> FALSE]

(* send_head_must_flush *)
HeadMustFlush(s) == s.sendbuf # <<>> /\ ~(s.staging /\ Len(s.sendbuf) = 1)

(* send_queue_retransmit *)
QueueRetransmit(s) ==
    LET orig == s.ring[s.off + 1] IN
    [s EXCEPT !.sendbuf = <<orig>> \o @,
              !.copy = TRUE, !.copy_count = Len(orig), !.copy_sent = 0]

(* The end of send_pump: whatever staging is left gets one attempt.         *)
FlushRest(p) == IF p.s.sendbuf = <<>> THEN p ELSE FlushHead(p)

(* Step 1 of send_stage_next, once what was pending is flushed.             *)
StageReplay(q) ==
    IF q.blocked THEN q
    ELSE IF q.s.off >= Len(q.s.ring) THEN [q EXCEPT !.s = SetReplayOff(q.s, NoReplay)]
    ELSE [q EXCEPT !.s = QueueRetransmit(q.s)]

(* send_pump with the ladder of send_stage_next: replay, then deferred      *)
(* control frames, then new data unless the session window is full.         *)
RECURSIVE Pump(_), PumpOn(_)
PumpOn(p) == IF p.blocked THEN p ELSE Pump(p)

Pump(p) ==
    LET s == p.s IN
    IF HeadMustFlush(s) THEN PumpOn(FlushHead(p))
    ELSE IF s.st # "ESTABLISHED" THEN FlushRest(p)
    ELSE IF s.off # NoReplay THEN PumpOn(StageReplay(FlushRest(p)))
    ELSE IF s.oobbuf # <<>>
    THEN Pump([p EXCEPT !.s = SendbufPush([s EXCEPT !.oobbuf = Tail(@)], Head(s.oobbuf))])
    ELSE IF s.stalled \/ s.ready = 0 THEN FlushRest(p)
    ELSE Pump([p EXCEPT !.s = NextData(s)])

(* send_has_pending_work *)
HasPendingWork(s) ==
    s.sendbuf # <<>> \/ s.oobbuf # <<>> \/ s.ready > 0 \/ s.off # NoReplay
=============================================================================
