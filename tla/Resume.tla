------------------------------- MODULE Resume -------------------------------
(***************************************************************************)
(* One logical session between a client and a server across any number of  *)
(* transports: frame dispatch (src/mux/recv.c), suspension and attachment  *)
(* (src/mux/session.c), the hello exchange (src/mux/handshake.c) and the   *)
(* server's hand-off of a resumed transport (src/tunnel.c, src/server.c),  *)
(* over the send path and the resume log of the modules below.             *)
(*                                                                         *)
(* The two session threads, the transient session that reads the hello of  *)
(* each accepted transport, and the network are interleaved.  A transport  *)
(* delivers a prefix of what was written to it; losing it at an end drops  *)
(* what that end has not read, while the other end may still read what is  *)
(* on its way.  A loss may strike at any moment, a live link included (the *)
(* keepalive and send timeouts of a slow one), as long as another          *)
(* transport can still be dialed.                                          *)
(***************************************************************************)
EXTENDS SendPath

CONSTANTS
    MaxData,    \* bound: data frames each end queues in one session
    MaxCtrl,    \* bound: stream control frames, likewise
    MaxConn,    \* bound: transports dialed, the first one included
    Budgets,    \* frames a writable socket may take in one go
    AckThresh,  \* unreported frames that force a session ACK
    Base,       \* frames each side had exchanged before the model starts
    Faults      \* the environment events allowed

AllFaults ==
    {"expire",        \* a resume deadline passes
     "reorder",       \* the hellos of two transports are read out of order
     "ctrl_armed",    \* a stream control frame is queued while the client
     "ctrl_unarmed"}  \* dials, with the replay cursor armed or not

ASSUME ResumeAssumption ==
    /\ Budgets \subseteq Nat \ {0} /\ Budgets # {}
    /\ AckThresh \in Nat \ {0}
    /\ Base \in 0 .. Serial - 1
    /\ Faults \subseteq AllFaults

VARIABLES
    ss,      \* the two sessions
    wire,    \* per transport: what is on its way, c2s and s2c
    acc,     \* per transport: what holds the server end
    mail,    \* attach tasks posted to the server session's thread
    nconn,   \* transports dialed so far
    nsid     \* session ids handed out so far

vars == <<ss, wire, acc, mail, nconn, nsid>>

Ends == {"client", "server"}
Conns == 1 .. MaxConn
Peer(e) == IF e = "client" THEN "server" ELSE "client"
Dialing(s) == s.st \in {"CONNECT", "HANDSHAKE"}
-----------------------------------------------------------------------------
(* Session life cycle: session.c. *)

(* mux_session_reset, with the reason it was called for *)
Reset(s, fault) ==
    [NewSession(s.accepted, "CLOSED", IF s.accepted THEN s.sid ELSE NoSid, NoConn) EXCEPT
        !.last_ack = s.last_ack, !.recv_seq = s.recv_seq, !.unreported = s.unreported,
        !.fault = fault]

(* Defect: what was still queued is dropped with the transport. *)
CaptureDiscards(s) == [s EXCEPT !.sendbuf = <<>>, !.oobbuf = <<>>, !.staging = FALSE]

(* session_capture_frame_list over sendbuf, then oobbuf *)
Capture(s) ==
    LET own == IF s.copy THEN Tail(s.sendbuf) ELSE s.sendbuf
        late == [i \in DOMAIN s.oobbuf |-> <<s.oobbuf[i]>>]
    IN [FoldLeft(TrackSent, s, own \o late) EXCEPT
            !.sendbuf = <<>>, !.oobbuf = <<>>, !.staging = FALSE]

(* mux_session_suspend *)
Suspend(s) ==
    ArmReplay([Capture([s EXCEPT !.st = "SUSPENDED"]) EXCEPT
        !.copy = FALSE, !.recvbuf = <<>>, !.tx_pending = FALSE, !.conn = NoConn])

(* mux_session_suspend_or_reset *)
SuspendOrReset(s) ==
    IF s.sid # NoSid /\ (s.st = "ESTABLISHED" \/ (~s.accepted /\ Dialing(s)))
    THEN Suspend(s) ELSE Reset(s, "none")

(* session_capture_and_discard *)
CaptureAndDiscard(s) == [Capture(s) EXCEPT !.recvbuf = <<>>]

(* Defect: what was queued while suspended stays ahead of the hello. *)
AttachFdUncaptured(s, t) == [s EXCEPT !.st = "CONNECT", !.conn = t, !.tx_pending = FALSE]

(* mux_session_attach_fd *)
AttachFd(s, t) ==
    [(IF s.st = "SUSPENDED" THEN CaptureAndDiscard(s) ELSE s) EXCEPT
        !.st = "CONNECT", !.conn = t, !.tx_pending = FALSE]

(* Defect: frames the resume_seq reports are acknowledged once more. *)
EnqueueHelloRecounted(s, resume) ==
    [s EXCEPT !.sendbuf = Append(@, <<Hello(s.sid, IF resume THEN s.recv_seq ELSE 0)>>),
              !.tx_pending = TRUE]

(* mux_handshake_enqueue_hello *)
EnqueueHello(s, resume) ==
    [s EXCEPT !.sendbuf = Append(@, <<Hello(s.sid, IF resume THEN s.recv_seq ELSE 0)>>),
              !.tx_pending = TRUE,
              !.unreported = IF resume THEN 0 ELSE @]

(* Defect: a pending replay does not ask for EV_WRITE. *)
HandshakeDoneIdle(s) ==
    ArmReplay([s EXCEPT !.st = "ESTABLISHED", !.written = s.last_ack])

(* mux_session_handshake_done, then the replay cursor is armed *)
HandshakeDone(s) ==
    LET t == [s EXCEPT !.st = "ESTABLISHED", !.tx_pending = @ \/ s.ready > 0,
                       !.written = s.last_ack]
    IN IF t.ring = <<>> THEN t ELSE [SetReplayOff(t, 0) EXCEPT !.tx_pending = TRUE]

(* Defect: the peer's resume_seq is ignored and everything is replayed. *)
ResumeAttachUntrimmed(s, t, seq) ==
    IF s.st \notin {"ESTABLISHED", "SUSPENDED"} THEN s
    ELSE HandshakeDone(EnqueueHello(
            [CaptureAndDiscard(IF s.st = "ESTABLISHED" THEN Suspend(s) ELSE s) EXCEPT
                !.st = "HANDSHAKE", !.conn = t, !.tx_pending = FALSE], TRUE))

(* session_resume_attach *)
ResumeAttach(s, t, seq) ==
    LET trimmed == ResumeAckRecv(IF s.st = "ESTABLISHED" THEN Suspend(s) ELSE s, seq)
    IN IF s.st \notin {"ESTABLISHED", "SUSPENDED"} THEN s
       ELSE IF trimmed.fault # "none" THEN Reset(s, trimmed.fault)
       ELSE HandshakeDone(EnqueueHello(
                [CaptureAndDiscard(trimmed) EXCEPT
                    !.st = "HANDSHAKE", !.conn = t, !.tx_pending = FALSE], TRUE))

(* Defect: the log of the old session outlives it. *)
ClientFreshKeepsLog(s, sid) ==
    [s EXCEPT !.sid = sid, !.ready = 0,
        !.recv_seq = 0, !.unreported = 0, !.last_ack = 0,
        !.made = [data |-> 0, ctrl |-> 0], !.got = <<>>]

(* handshake_client_fresh: neither sendbuf nor oobbuf is touched *)
ClientFresh(s, sid) ==
    [FreeAll(s) EXCEPT !.sid = sid, !.ready = 0,
        !.recv_seq = 0, !.unreported = 0, !.last_ack = 0,
        !.made = [data |-> 0, ctrl |-> 0], !.got = <<>>]

(* process_hello_client and the end of mux_handshake_process_hello *)
ProcessServerHello(s, h) ==
    LET r == IF h.sid = s.sid THEN ResumeAckRecv(s, h.seq) ELSE ClientFresh(s, h.sid)
    IN IF r.fault # "none" THEN Reset(s, r.fault) ELSE HandshakeDone(r)
-----------------------------------------------------------------------------
(* Receiving: recv.c. *)

(* dispatch_ctrl_frame on a session ACK *)
DispatchAck(s, n) ==
    LET f == AckFault(s, n)
        t == AckTrim(s, n)
    IN IF f # "none" THEN Reset(s, f)
       ELSE IF s.stalled /\ ~t.stalled THEN NotifyWrite(t) ELSE t

(* The counting half of dispatch_frame; the stream layer gets the frame *)
DispatchStream(s, x) ==
    LET t == [s EXCEPT !.recv_seq = SerialAdd(@, 1), !.unreported = @ + 1,
                       !.got = Append(@, x)]
    IN IF t.unreported >= AckThresh THEN EmitAck(t) ELSE t

(* dispatch_frame: buffered frames one by one, until none is left, the      *)
(* session is gone, or a hello has left something to send first.            *)
RECURSIVE Dispatch(_)
Dispatch(s) ==
    IF s.recvbuf = <<>> THEN s
    ELSE LET x == Head(s.recvbuf)
             t == [s EXCEPT !.recvbuf = Tail(@)]
         IN IF x.k = "hello"
            THEN IF s.st # "HANDSHAKE" THEN Reset(s, "stray_hello")
                 ELSE LET u == ProcessServerHello(t, x) IN
                      IF u.st = "CLOSED" \/ u.tx_pending THEN u ELSE Dispatch(u)
            ELSE IF s.st # "ESTABLISHED" THEN Reset(s, "early_frame")
            ELSE IF x.k = "ack"
            THEN LET u == DispatchAck(t, x.n) IN
                 IF u.st = "CLOSED" THEN u ELSE Dispatch(u)
            ELSE Dispatch(DispatchStream(t, x))


(* mux_session_on_send *)
OnSend(s, budget) ==
    LET p == Pump(Pumping([s EXCEPT !.tx_pending = FALSE], budget))
        t == [p.s EXCEPT !.tx_pending = @ \/ HasPendingWork(p.s)]
    IN [s |-> IF ~t.tx_pending /\ t.st = "ESTABLISHED" THEN Dispatch(t) ELSE t,
        out |-> p.out]

(* session_flush_inline and mux_session_flush_resp: pump at once when the   *)
(* pipe is clear, else leave it to the writable socket.                     *)
FlushIfClear(s, budget) ==
    IF s.st = "ESTABLISHED" /\ s.tx_pending /\ s.sendbuf = <<>>
    THEN OnSend(s, budget) ELSE [s |-> s, out |-> <<>>]

(* mux_session_on_recv, having read `items' *)
OnRecv(s, items, budget) ==
    FlushIfClear(Dispatch([s EXCEPT !.recvbuf = @ \o items]), budget)
-----------------------------------------------------------------------------
(* Transports. *)

Inbox(e) ==
    LET t == ss[e].conn IN
    IF t = NoConn THEN <<>> ELSE IF e = "client" THEN wire[t].s2c ELSE wire[t].c2s

(* Does the other end of e's transport still hold it? *)
PeerHolds(e) ==
    LET t == ss[e].conn IN
    IF e = "client" THEN acc[t] \in {"hello", "handoff", "session"}
                    ELSE ss["client"].conn = t

(* Session e becomes r.s after reading n items and writing r.out; closing   *)
(* its end drops what it had not read.                                      *)
Commit(e, r, n) ==
    LET t == ss[e].conn
        left == r.s.conn # t
        mine == IF e = "client" THEN "s2c" ELSE "c2s"
        other == IF e = "client" THEN "c2s" ELSE "s2c"
    IN /\ ss' = [ss EXCEPT ![e] = r.s]
       /\ IF t = NoConn THEN UNCHANGED <<wire, acc>>
          ELSE /\ wire' = [wire EXCEPT
                    ![t][mine] = IF left THEN <<>> ELSE SubSeq(@, n + 1, Len(@)),
                    ![t][other] = IF PeerHolds(e) THEN @ \o r.out ELSE @]
               /\ acc' = IF left /\ e = "server" THEN [acc EXCEPT ![t] = "closed"] ELSE acc

Quiet(s) == [s |-> s, out |-> <<>>]
-----------------------------------------------------------------------------
(* The model starts inside an idle established session, after Base frames   *)
(* each way: what remains of the serial space is part of the state.         *)
Idle(accepted) ==
    [NewSession(accepted, "ESTABLISHED", 1, 1) EXCEPT
        !.last_ack = Base, !.recv_seq = Base, !.written = Base]

Init ==
    /\ ss = [e \in Ends |-> Idle(e = "server")]
    /\ wire = [t \in Conns |-> [c2s |-> <<>>, s2c |-> <<>>]]
    /\ acc = [t \in Conns |-> IF t = 1 THEN "session" ELSE "none"]
    /\ mail = <<>>
    /\ nconn = 1
    /\ nsid = 1

(* A stream has read a frame from its local socket: mux_session_eager_flush *)
(* and the flush that ends the callback.                                    *)
LocalData(e) ==
    LET s == ss[e] IN
    /\ s.sid # NoSid
    /\ s.st # "CLOSED"
    /\ s.made.data + s.ready < MaxData[e]
    /\ \E b \in Budgets \cup {0} :
        Commit(e, FlushIfClear(NotifyWrite([s EXCEPT !.ready = @ + 1]), b), 0)
    /\ UNCHANGED <<mail, nconn, nsid>>

(* A stream queues a control frame: an abort's RST, an accept's SYN|ACK.    *)
(* The unsent frames an abort discards (mux_session_discard_stream_frames)  *)
(* belong to the stream it kills: the frames modelled are those of streams  *)
(* that live, and the terminal RST.                                         *)
StreamCtrl(e) ==
    LET s == ss[e] IN
    /\ s.sid # NoSid
    /\ s.st # "CLOSED"
    /\ Dialing(s) => (IF s.off = NoReplay THEN "ctrl_unarmed" ELSE "ctrl_armed") \in Faults
    /\ s.made.ctrl < MaxCtrl[e]
    /\ Commit(e, Quiet(SendCtrl(Counted(s, "ctrl"), NextFrame(s, "ctrl"))), 0)
    /\ UNCHANGED <<mail, nconn, nsid>>

(* socket_cb with EV_WRITE *)
Writable(e) ==
    LET s == ss[e] IN
    /\ s.st \in {"HANDSHAKE", "ESTABLISHED"}
    /\ s.tx_pending
    /\ \E b \in Budgets : Commit(e, OnSend(s, b), 0)
    /\ UNCHANGED <<mail, nconn, nsid>>

(* socket_cb with EV_READ *)
Readable(e) ==
    LET s == ss[e] IN
    /\ s.st \in {"HANDSHAKE", "ESTABLISHED"}
    /\ \E n \in 1 .. Len(Inbox(e)), b \in Budgets \cup {0} :
        Commit(e, OnRecv(s, SubSeq(Inbox(e), 1, n), b), n)
    /\ UNCHANGED <<mail, nconn, nsid>>

(* sched_coalesce_cb, when the session ACK is due *)
CoalesceTimer(e) ==
    /\ ss[e].st = "ESTABLISHED"
    /\ ss[e].unreported > 0
    /\ Commit(e, Quiet(EmitAck(ss[e])), 0)
    /\ UNCHANGED <<mail, nconn, nsid>>

(* A read or write error, an EOF, or a dead-link or connect timeout.        *)
Lose(e) ==
    /\ ss[e].st = "ESTABLISHED" \/ (e = "client" /\ Dialing(ss[e]))
    /\ nconn < MaxConn \/ (ss[e].st # "CONNECT" /\ ~PeerHolds(e))
    /\ Commit(e, Quiet(SuspendOrReset(ss[e])), 0)
    /\ UNCHANGED <<mail, nconn, nsid>>

(* connect_timeout_cb in SUSPENDED *)
Expire(e) ==
    /\ "expire" \in Faults
    /\ ss[e].st = "SUSPENDED"
    /\ Commit(e, Quiet(Reset(ss[e], "none")), 0)
    /\ UNCHANGED <<mail, nconn, nsid>>

(* The client's tunnel dials again: mux_session_attach_fd on a new socket.  *)
Dial ==
    /\ ss["client"].st \in {"SUSPENDED", "CLOSED"}
    /\ nconn < MaxConn
    /\ nconn' = nconn + 1
    /\ ss' = [ss EXCEPT !["client"] = AttachFd(@, nconn + 1)]
    /\ UNCHANGED <<wire, acc, mail, nsid>>

(* connect_cb: the server has accepted; handshake_start queues the hello.   *)
Connected ==
    LET s == ss["client"] IN
    /\ s.st = "CONNECT"
    /\ ss' = [ss EXCEPT !["client"] =
                EnqueueHello([s EXCEPT !.st = "HANDSHAKE"], s.sid # NoSid)]
    /\ acc' = [acc EXCEPT ![s.conn] = "hello"]
    /\ UNCHANGED <<wire, mail, nconn, nsid>>
-----------------------------------------------------------------------------
(* The transient session of transport t reads the ClientHello.              *)

(* server_on_resume_lookup *)
ResumeMatch(h) ==
    /\ h.sid # NoSid
    /\ h.sid = ss["server"].sid
    /\ ss["server"].st \in {"ESTABLISHED", "SUSPENDED"}

(* Transients are threads of their own, so hellos need not be read in the   *)
(* order the transports were dialed.                                        *)
MayRead(t) ==
    /\ acc[t] = "hello"
    /\ wire[t].c2s # <<>>
    /\ "reorder" \in Faults \/ \A u \in 1 .. t - 1 : acc[u] # "hello"

(* process_hello_server with a match: tunnel_handoff_resume posts the       *)
(* transport and the transient goes away with what else it had read.        *)
HandOff(t) ==
    LET h == Head(wire[t].c2s) IN
    /\ MayRead(t)
    /\ h.k = "hello" /\ ResumeMatch(h)
    /\ mail' = Append(mail, [t |-> t, sid |-> h.sid, seq |-> h.seq])
    /\ acc' = [acc EXCEPT ![t] = "handoff"]
    /\ \E n \in 1 .. Len(wire[t].c2s) :
        wire' = [wire EXCEPT ![t].c2s = SubSeq(@, n + 1, Len(@))]
    /\ UNCHANGED <<ss, nconn, nsid>>

(* process_hello_server without one: the transient becomes a fresh session  *)
(* with an id of its own.  The client cannot offer the old id again, so the *)
(* old session, if any is left, can only expire and is dropped here.  A     *)
(* fresh session on a transport the client has left is DropTransient.       *)
ServeFresh(t) ==
    LET h == Head(wire[t].c2s)
        old == ss["server"].conn
        new == NewSession(TRUE, "HANDSHAKE", nsid + 1, t)
    IN
    /\ MayRead(t)
    /\ h.k = "hello"
    /\ ~ResumeMatch(h)
    /\ ss["client"].conn = t
    /\ nsid' = nsid + 1
    /\ ss' = [ss EXCEPT !["server"] = HandshakeDone(EnqueueHello(new, FALSE))]
    /\ acc' = [u \in Conns |-> IF u = t THEN "session" ELSE IF u = old THEN "closed" ELSE acc[u]]
    /\ wire' = [u \in Conns |-> IF u = t THEN [wire[t] EXCEPT !.c2s = Tail(@)]
                              ELSE IF u = old THEN [wire[u] EXCEPT !.c2s = <<>>] ELSE wire[u]]
    /\ UNCHANGED <<mail, nconn>>

(* The transient ends: a frame before the hello resets it, so does an EOF.  *)
DropTransient(t) ==
    /\ acc[t] = "hello"
    /\ \/ wire[t].c2s # <<>> /\ Head(wire[t].c2s).k # "hello"
       \/ ss["client"].conn # t
    /\ acc' = [acc EXCEPT ![t] = "closed"]
    /\ wire' = [wire EXCEPT ![t].c2s = <<>>]
    /\ UNCHANGED <<ss, mail, nconn, nsid>>

(* tunnel_resume_attach_task: mux_resume_attach on the session's own        *)
(* thread; a transport it does not take is closed.                          *)
AttachTask ==
    LET m == Head(mail)
        s == ss["server"]
        r == IF m.sid = s.sid THEN ResumeAttach(s, m.t, m.seq) ELSE s
        taken == r.conn = m.t
        old == s.conn
    IN
    /\ mail # <<>>
    /\ mail' = Tail(mail)
    /\ ss' = [ss EXCEPT !["server"] = r]
    /\ acc' = [u \in Conns |-> IF u = m.t THEN (IF taken THEN "session" ELSE "closed")
                             ELSE IF u = old /\ r.conn # old THEN "closed" ELSE acc[u]]
    /\ wire' = [u \in Conns |->
                 IF (u = m.t /\ ~taken) \/ (u # m.t /\ u = old /\ r.conn # old)
                 THEN [wire[u] EXCEPT !.c2s = <<>>] ELSE wire[u]]
    /\ UNCHANGED <<nconn, nsid>>

Next ==
    \/ \E e \in Ends :
        \/ LocalData(e) \/ StreamCtrl(e)
        \/ Writable(e) \/ Readable(e)
        \/ CoalesceTimer(e)
        \/ Lose(e) \/ Expire(e)
    \/ Dial \/ Connected
    \/ \E t \in Conns : HandOff(t) \/ ServeFresh(t) \/ DropTransient(t)
    \/ AttachTask

Spec == Init /\ [][Next]_vars
-----------------------------------------------------------------------------
(* Properties. *)

(* Types; the serial counters keep the width they have on the wire.         *)
TypeOK ==
    /\ \A e \in Ends :
        /\ ss[e].st \in {"CONNECT", "HANDSHAKE", "ESTABLISHED", "SUSPENDED", "CLOSED"}
        /\ ss[e].conn \in Conns \cup {NoConn}
        /\ ss[e].off \in Nat \cup {NoReplay}
        /\ {ss[e].frames, ss[e].bytes, ss[e].retransmitted, ss[e].copy_count,
            ss[e].copy_sent, ss[e].unreported, ss[e].ready} \subseteq Nat
        /\ {ss[e].last_ack, ss[e].recv_seq, ss[e].written} \subseteq 0 .. Serial - 1
    /\ acc \in [Conns -> {"none", "hello", "handoff", "session", "closed"}]
    /\ \A i \in DOMAIN mail : mail[i].t \in Conns
    /\ nconn \in Conns
    /\ nsid \in Nat

InSession(e) == ss[e].sid # NoSid /\ ss[e].st # "CLOSED"

(* Across every suspension, partial write and replay, the stream layer of   *)
(* an end is handed the frames the other end queued in this session, each   *)
(* exactly once and in the order they were queued; dispatch_frame never     *)
(* sees a duplicate, a gap or a frame of an earlier session.                *)
ExactlyOnce ==
    \A e \in Ends : \A i \in DOMAIN ss[e].got :
        ss[e].got[i].n = i /\ ss[e].got[i].sid = ss[e].sid

Held(s) == UNION {Range(b) : b \in Range(s.ring) \cup Range(s.sendbuf)} \cup Range(s.oobbuf)

(* While both ends are in the session, a frame a stream queued is either    *)
(* delivered or still held by the sender, to be replayed if need be         *)
(* (session_capture_frame_list, mux_unacked_track_sent).                    *)
NothingLost ==
    \A e \in Ends :
        InSession(e) /\ InSession(Peer(e)) /\ ss[e].sid = ss[Peer(e)].sid =>
        \A n \in 1 .. ss[e].made.data + ss[e].made.ctrl :
            \E x \in Held(ss[e]) \cup Range(ss[Peer(e)].got) :
                IsFrame(x) /\ x.n = n /\ x.sid = ss[e].sid

(* Neither end ever resets the session over the other's acknowledgements,   *)
(* resume_seq, hello or frames: both are conformant, so a bound that trips  *)
(* (mux_unacked_ack_recv, mux_unacked_resume_ack_recv, dispatch_frame)      *)
(* would destroy live streams for nothing.                                  *)
NoFalseReset == \A e \in Ends : ss[e].fault = "none"

(* A hello is the first thing its transport carries: the assertion of       *)
(* mux_handshake_enqueue_hello that sendbuf is empty.                       *)
HelloFirst ==
    \A e \in Ends : \A i \in DOMAIN ss[e].sendbuf : \A j \in DOMAIN ss[e].sendbuf[i] :
        ss[e].sendbuf[i][j].k = "hello" => i = 1 /\ j = 1

(* The ledger is exact: `bytes' is the payload the ring retains and the     *)
(* stall gate is a pure function of it against the session window, so a     *)
(* session is never left gated over a ring nobody will acknowledge          *)
(* (mux_unacked_free_all).                                                  *)
StallExact ==
    \A e \in Ends :
        /\ ss[e].bytes = Payload(FlattenSeq(ss[e].ring))
        /\ ss[e].stalled <=> ss[e].bytes >= Window

(* mux_session_update_watcher's assertion: with EV_WRITE off there is       *)
(* nothing left to send, the stall gate excepted; and a replay that has not *)
(* finished keeps EV_WRITE on.                                              *)
WriteArmed ==
    \A e \in Ends : LET s == ss[e] IN
        s.st = "ESTABLISHED" /\ ~s.tx_pending =>
            /\ s.off = NoReplay
            /\ s.stalled \/ (s.ready = 0 /\ s.sendbuf = <<>> /\ s.oobbuf = <<>>)

(* The log of either end, seen as module Unacked sees it. *)
Count(x) == (x - Base) % Serial

RingEnds(s) ==
    [i \in DOMAIN s.ring |-> Count(s.last_ack) + Len(FlattenSeq(SubSeq(s.ring, 1, i)))]

LogOf(e) == INSTANCE Unacked WITH
    MaxFrames <- 0, MaxEntry <- 0, MaxCapture <- 0,
    st <- CASE ss[e].st = "ESTABLISHED" -> "up"
            [] ss[e].st = "CLOSED" -> "closed"
            [] OTHER -> "down",
    ring <- RingEnds(ss[e]), frames <- ss[e].frames,
    last_ack_recv <- Count(ss[e].last_ack),
    retransmit_off <- ss[e].off, retransmitted_frames <- ss[e].retransmitted,
    retransmit_copy <- ss[e].copy,
    copy_count <- ss[e].copy_count, copy_sent <- ss[e].copy_sent,
    written <- Count(ss[e].written), peer_recv <- Count(ss[Peer(e)].recv_seq)

(* The invariant proved of Unacked holds of both ends here, where the peer  *)
(* it assumes is the other end: counters agree with the ring, nothing       *)
(* unprocessed is dropped, and the wire continues where it stopped.         *)
LogInvariant ==
    \A e \in Ends :
        /\ LogOf(e)!CountersAgree
        /\ LogOf(e)!Retained
        /\ LogOf(e)!WireContiguous

(* The two ends implement the abstract link. *)
Link == INSTANCE SessionLink WITH
    sid <- [e \in Ends |-> IF ss[e].st = "CLOSED" THEN NoSid ELSE ss[e].sid],
    queued <- [e \in Ends |-> ss[e].made.data + ss[e].made.ctrl],
    delivered <- [e \in Ends |-> [i \in DOMAIN ss[e].got |-> ss[e].got[i].n]]

(* Every step of the two sessions, the transients and the network is a step *)
(* of the abstract link or leaves it alone.                                 *)
ImplementsLink == Link!LinkSpec
-----------------------------------------------------------------------------
(* Liveness.  libev serves every ready watcher, so a writable or readable   *)
(* socket, a due timer, a posted task and the owner's reconnect are         *)
(* eventually handled; losses are not fair, and MaxConn bounds them.  Each  *)
(* conjunct is weak fairness, with what enables the step spelled out.       *)
CanWrite(e) == ss[e].st \in {"HANDSHAKE", "ESTABLISHED"} /\ ss[e].tx_pending
CanRead(e) == ss[e].st \in {"HANDSHAKE", "ESTABLISHED"} /\ Inbox(e) # <<>>
CanAck(e) == ss[e].st = "ESTABLISHED" /\ ss[e].unreported > 0
Broken(e) ==
    /\ ss[e].st = "ESTABLISHED" \/ (e = "client" /\ ss[e].st = "HANDSHAKE")
    /\ ~PeerHolds(e)
Waiting(t) == acc[t] = "hello" /\ (MayRead(t) \/ ss["client"].conn # t)

Fairness ==
    /\ \A e \in Ends :
        /\ []<>~CanWrite(e) \/ []<><<Writable(e)>>_vars
        /\ []<>~CanRead(e) \/ []<><<Readable(e)>>_vars
        /\ []<>~CanAck(e) \/ []<><<CoalesceTimer(e)>>_vars
        /\ []<>~Broken(e) \/ []<><<Lose(e)>>_vars
    /\ WF_vars(Dial)
    /\ WF_vars(Connected)
    /\ \A t \in Conns :
        []<>~Waiting(t) \/ []<><<HandOff(t) \/ ServeFresh(t) \/ DropTransient(t)>>_vars
    /\ []<>(mail = <<>>) \/ []<><<AttachTask>>_vars

FairSpec == Spec /\ Fairness

=============================================================================
