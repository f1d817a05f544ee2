--------------------------- MODULE SessionTimers ---------------------------
(***************************************************************************)
(* The timers of one session, src/src/mux/session.c, through its life:     *)
(* dialed or accepted, established, suspended, resumed, drained, closed,   *)
(* and reconfigured by a reload at any moment.  Several callbacks abort    *)
(* the process when they run in a state they do not expect, and            *)
(* w_connect_timeout is at different times the connect, the resume and the *)
(* close deadline.                                                         *)
(*                                                                         *)
(* A timer is [on, rep]: whether it runs and whether its repeat is above   *)
(* 0.  A configured time is TRUE when it is above 0.  When a timer expires *)
(* is left open: any running timer may.                                    *)
(***************************************************************************)
EXTENDS Integers

CONSTANT Confs   \* the configurations a reload may bring
VARIABLE ses

Off(t) == [t EXCEPT !.on = FALSE]
(* ev_timer_again and the one-shot ev_timer_set + ev_timer_start (libev).  *)
Again(t) == [t EXCEPT !.on = t.rep]
OneShot == [on |-> TRUE, rep |-> FALSE]
SetRep(t, rep) == [t EXCEPT !.rep = rep]
(* A timer that expires is re-armed, or stopped, before its callback runs. *)
Expire(t) == Again(t)

StopTimers(s) ==
    [s EXCEPT !.timeout = Off(@), !.keep = Off(@), !.send = Off(@), !.conn = Off(@), !.idle = Off(@)]

SetState(s, st) ==
    IF s.st = "established" /\ st # "established" THEN [StopTimers(s) EXCEPT !.st = st]
    ELSE IF st = "established" THEN [s EXCEPT !.st = st, !.keep = Again(@)]
    ELSE [s EXCEPT !.st = st]

Reset(s) ==
    IF s.st = "closed" THEN s
    ELSE [StopTimers(SetState(s, "closed")) EXCEPT !.sid = @ /\ s.acc, !.fd = FALSE, !.pend = FALSE, !.streams = 0]

Armed(s, yes) == IF yes THEN [s EXCEPT !.conn = OneShot, !.due = TRUE] ELSE s

Suspend(s) ==
    Armed([StopTimers(SetState(s, "suspended")) EXCEPT !.fd = FALSE, !.pend = FALSE, !.due = FALSE], s.conf.resume)

SuspendOrReset(s) ==
    IF s.sid /\ (s.st = "established" \/ (~s.acc /\ s.st \in {"connect", "handshake"})) THEN Suspend(s) ELSE Reset(s)

InitiateShutdown(s) ==
    IF s.st \notin {"established", "handshake"} THEN Reset(s)
    ELSE Armed([SetState(StopTimers(s), "closing") EXCEPT !.streams = 0, !.pend = FALSE, !.due = FALSE], s.conf.connect)

(* send_handle_rx_closed over TLS; over plain TCP the session suspends.    *)
RxClosed(s) ==
    IF s.plain THEN Suspend(s)
    ELSE [SetState(s, "closing") EXCEPT !.sid = @ /\ s.acc, !.pend = FALSE, !.due = FALSE]

CheckNoActiveStreams(s) ==
    IF s.streams > 0 \/ s.st # "established" THEN s
    ELSE IF s.draining THEN InitiateShutdown(s)
    ELSE IF ~s.acc /\ s.conf.idle THEN [s EXCEPT !.idle = Again(@)] ELSE s

KernelSendTimeout(s, fd) == [s EXCEPT !.kst = fd /\ s.kernel, !.send.rep = @ /\ ~(fd /\ s.kernel)]

(* Defect: the connect deadline keeps the one-shot repeat of its last use. *)
InstallTimersKeepsRepeat(s) ==
    KernelSendTimeout([s EXCEPT !.conn = Off(@), !.send.rep = s.conf.send], TRUE)

InstallTimers(s) ==
    KernelSendTimeout([s EXCEPT !.conn = [on |-> FALSE, rep |-> s.conf.connect], !.send.rep = s.conf.send], TRUE)

Attached(s, st) ==
    [SetState(InstallTimers(s), st) EXCEPT !.conn = Again(@), !.fd = TRUE, !.due = s.conf.connect,
                                           !.draining = @ /\ s.st = "suspended"]

(* Defect: the session's state is not read again after the event.          *)
HandshakeDoneBlind(s, stops) ==
    LET est == [SetState([s EXCEPT !.conn = Off(@), !.due = FALSE], "established") EXCEPT !.sid = TRUE]
    IN  CheckNoActiveStreams([(IF stops THEN InitiateShutdown(est) ELSE est) EXCEPT !.timeout = Again(@)])

(* mux_session_handshake_done; the owner may shut the session down from    *)
(* inside the establishment event.                                         *)
HandshakeDone(s, stops) ==
    LET est == [SetState([s EXCEPT !.conn = Off(@), !.due = FALSE], "established") EXCEPT !.sid = TRUE]
    IN  IF stops THEN InitiateShutdown(est)
        ELSE CheckNoActiveStreams([est EXCEPT !.timeout = Again(@)])

(* w_connect_timeout in a state where it is another state's deadline.      *)
Repurposed == {"suspended", "closing", "closewait"}

(* Defect: a reload re-arms w_connect_timeout whatever it is used for.     *)
ReconnectTimerAlways(s) ==
    IF s.conn.on THEN [s EXCEPT !.conn = Again(SetRep(@, s.conf.connect)),
                                !.due = @ /\ (s.conf.connect \/ s.st \in Repurposed)]
    ELSE [s EXCEPT !.conn.rep = s.conf.connect]

ReconnectTimer(s) ==
    IF s.st \in Repurposed THEN s
    ELSE IF s.conn.on THEN [s EXCEPT !.conn = Again(SetRep(@, s.conf.connect)), !.due = @ /\ s.conf.connect]
    ELSE [s EXCEPT !.conn.rep = s.conf.connect]

ReloadLive(s) ==
    LET t == [s EXCEPT !.timeout.rep = s.conf.timeout, !.keep.rep = s.conf.keepalive]
    IN  IF s.st = "established" THEN [t EXCEPT !.timeout = Again(@), !.keep = Again(@)] ELSE t

ReloadSend(s) ==
    LET t == KernelSendTimeout([s EXCEPT !.send.rep = s.conf.send], s.fd)
    IN  IF t.send.on THEN [t EXCEPT !.send = Again(@)]
        ELSE [t EXCEPT !.late = @ \/ (s.pend /\ t.send.rep)]

(* Defect: the idle timer is re-armed only if it ran before.               *)
ReloadIdleRunning(s) == [s EXCEPT !.idle = [on |-> s.idle.on /\ s.conf.idle, rep |-> s.conf.idle]]

ReloadIdle(s) ==
    [s EXCEPT !.idle = [on |-> s.conf.idle /\ ~s.acc /\ s.st = "established" /\ s.streams = 0, rep |-> s.conf.idle]]

SetConfig(s, conf) == ReloadIdle(ReconnectTimer(ReloadSend(ReloadLive([s EXCEPT !.conf = conf]))))

(* update_send_timeout at the end of a send pass.  stalled: the replay     *)
(* waits for a frame buffer, so nothing reached the socket.                *)
UpdateSendTimeout(s, stalled, progress) ==
    IF ~s.pend THEN [s EXCEPT !.send = Off(@), !.late = FALSE]
    ELSE IF s.kst THEN
         IF stalled THEN [s EXCEPT !.send = IF s.send.rep = FALSE THEN Again(SetRep(@, s.conf.send))
                                            ELSE IF ~s.send.on \/ progress THEN Again(@) ELSE @]
         ELSE [s EXCEPT !.send = IF s.send.rep THEN [on |-> FALSE, rep |-> FALSE] ELSE @]
    ELSE [s EXCEPT !.send = IF ~s.send.on \/ progress THEN Again(@) ELSE @, !.late = FALSE]

DeadLink(s) == IF s.sid THEN Suspend(s) ELSE Reset(s)

-----------------------------------------------------------------------------
(* The session's owner and peer.                                           *)
In(states) == ses.st \in states

Attach == ~ses.acc /\ In({"init", "suspended", "closed"}) /\ ses.dials > 0
          /\ ses' = Attached([ses EXCEPT !.dials = @ - 1], "connect")
Start == ses.acc /\ In({"init"}) /\ ses' = Attached(ses, "handshake")
Connected == In({"connect"}) /\ ses' = SetState(ses, "handshake")
Established == In({"handshake"}) /\ \E stops \in BOOLEAN : ses' = HandshakeDone(ses, stops)

(* mux_resume_attach: the old transport may still look alive.              *)
ResumeAttach ==
    /\ ses.acc /\ In({"established", "suspended"}) /\ ses.dials > 0
    /\ LET s == IF ses.st = "established" THEN Suspend(ses) ELSE ses
       IN  ses' = HandshakeDone(Attached([s EXCEPT !.send = Off(@), !.dials = @ - 1], "handshake"), FALSE)

StreamOpens == In({"established"}) /\ ses.streams = 0 /\ ses' = [ses EXCEPT !.streams = 1, !.idle = Off(@)]
StreamCloses == ses.streams > 0 /\ ses' = CheckNoActiveStreams([ses EXCEPT !.streams = 0])
Drain == In({"established", "suspended", "handshake"}) /\ ~ses.draining
         /\ ses' = CheckNoActiveStreams([ses EXCEPT !.draining = TRUE])
Shutdown == ~In({"closed"}) /\ ses' = InitiateShutdown(ses)
Reload == ses.reloads > 0 /\ \E conf \in Confs : ses' = SetConfig([ses EXCEPT !.reloads = @ - 1], conf)
SendPass == In({"established"}) /\ \E pend, stalled, progress \in BOOLEAN :
               ses' = UpdateSendTimeout([ses EXCEPT !.pend = pend], stalled, progress)
Datagram == In({"established"}) /\ ses.idle.on /\ ses' = [ses EXCEPT !.idle = Again(@)]
Exchange == In({"established"}) /\ ses' = [ses EXCEPT !.timeout = Again(@),
                 !.keep = IF ses.keep.on THEN Again(SetRep(@, ses.conf.keepalive)) ELSE SetRep(@, ses.conf.keepalive)]
PeerCloses == In({"established"}) /\ ses' = RxClosed(ses)
TransportLost == In({"connect", "handshake", "established"}) /\ ses' = SuspendOrReset(ses)
HalfClosed == In({"closing"}) /\ ses' = SetState(ses, "closewait")
CloseEnds == In({"closing", "closewait"}) /\ ses' = Reset(ses)

(* The callbacks.  bad: the process would have aborted.                    *)
Fires(t) == ses[t].on
OnlyEstablished(s) == IF s.st = "established" THEN s ELSE [s EXCEPT !.bad = TRUE]

TimeoutCb == Fires("timeout") /\ ses' = DeadLink(OnlyEstablished([ses EXCEPT !.timeout = Expire(@)]))
SendTimeoutCb == Fires("send") /\ ses' = DeadLink(OnlyEstablished([ses EXCEPT !.send = Expire(@)]))
KeepaliveCb == Fires("keep") /\ ses' = OnlyEstablished([ses EXCEPT !.keep = Again(SetRep(@, ses.conf.keepalive))])
IdleCb == Fires("idle") /\ ses' = InitiateShutdown(OnlyEstablished([ses EXCEPT !.idle = Expire(@)]))
ConnectTimeoutCb ==
    /\ Fires("conn")
    /\ LET s == [ses EXCEPT !.conn = Expire(@)]
       IN  ses' = IF s.st \in {"connect", "handshake"} /\ ~s.acc /\ s.sid THEN Suspend(s)
                  ELSE IF s.st \in {"connect", "handshake"} \cup Repurposed THEN Reset(s)
                  ELSE [s EXCEPT !.bad = TRUE]

Stopped(rep) == [on |-> FALSE, rep |-> rep]

Init(Dials, Reloads) ==
    \E conf \in Confs, acc, kernel, plain \in BOOLEAN :
      ses = [st |-> "init", acc |-> acc, sid |-> acc, kernel |-> kernel, plain |-> plain, conf |-> conf,
             timeout |-> Stopped(conf.timeout), keep |-> Stopped(conf.keepalive), send |-> Stopped(conf.send),
             conn |-> Stopped(conf.connect), idle |-> Stopped(conf.idle),
             draining |-> FALSE, streams |-> 0, fd |-> acc, kst |-> FALSE, pend |-> FALSE, late |-> FALSE,
             due |-> FALSE, bad |-> FALSE, dials |-> Dials, reloads |-> Reloads]

Next ==
    \/ Attach \/ Start \/ Connected \/ Established \/ ResumeAttach
    \/ StreamOpens \/ StreamCloses \/ Drain \/ Shutdown \/ Reload
    \/ SendPass \/ Datagram \/ Exchange \/ PeerCloses \/ TransportLost \/ HalfClosed \/ CloseEnds
    \/ TimeoutCb \/ SendTimeoutCb \/ KeepaliveCb \/ IdleCb \/ ConnectTimeoutCb

-----------------------------------------------------------------------------
(* No timer can run its callback in a state the callback aborts on.        *)
TimersFit ==
    /\ ~ses.bad
    /\ ses.timeout.on \/ ses.keep.on \/ ses.send.on \/ ses.idle.on => ses.st = "established"
    /\ ses.conn.on => ses.st \in {"connect", "handshake"} \cup Repurposed

(* Every deadline that was started keeps running until the state it bounds *)
(* is left: a reload may neither stop the resume or close deadline nor     *)
(* leave a reconnect without one.                                          *)
DeadlineRuns == ses.due /\ ses.st \in {"connect", "handshake"} \cup Repurposed => ses.conn.on

(* An established session is watched as its configuration says: inbound    *)
(* silence, keepalive, a stuck send (unless the kernel watches it), an     *)
(* idle dialed session; and one that drains without streams is closed.     *)
Watched ==
    ses.st = "established" =>
      /\ ses.timeout.on = ses.conf.timeout /\ ses.keep.on = ses.conf.keepalive
      /\ ses.idle.on = (ses.conf.idle /\ ~ses.acc /\ ses.streams = 0)
      /\ ses.pend /\ ses.conf.send /\ ~ses.kst => ses.send.on \/ ses.late
      /\ ses.draining => ses.streams > 0
=============================================================================
