------------------------------- MODULE Tunnel -------------------------------
(* A tunnel (src/tunnel.c) as a record, and each function of its thread as  *)
(* an operator on that record: the redial policy around one session, the    *)
(* local connections that wait for it, the tasks other threads post to it   *)
(* and the events it relays to the server.  The session below it            *)
(* (src/mux/session.c) is reduced to its life cycle.                        *)
(*                                                                          *)
(* Fields that are not the code's: `out' holds the events a callback has    *)
(* relayed and `shut' the local connections it has closed; the action that  *)
(* runs the callback moves both into the shared state.  `bad' records a     *)
(* dereference of something already freed.  An operator's parameter `ok'    *)
(* says whether a dial the callback makes gets as far as a pending socket.  *)
EXTENDS Integers, Sequences, FiniteSets, Functions

(* A tunnel before it is created; `accepted', addresses and the tables it   *)
(* reads are set by NewTunnel.                                              *)
NoTunnel ==
    [life |-> "none", accepted |-> FALSE, started |-> FALSE, ss |-> "INIT",
     resumable |-> FALSE, streams |-> {}, draining |-> FALSE, addr |-> 0,
     retired |-> FALSE, timer |-> FALSE, owed |-> FALSE, park |-> <<>>,
     wpark |-> FALSE, opens |-> <<>>, dgrams |-> 0, tasks |-> <<>>, back |-> <<>>,
     cut |-> FALSE, idle |-> FALSE, psk |-> 0, ctx |-> 0, claim |-> "none",
     reserved |-> FALSE, pin |-> 0, eof |-> FALSE, out |-> <<>>, shut |-> <<>>,
     bad |-> FALSE]

(* tunnel_new: a dialed tunnel (addr # 0) reserves its session here, an     *)
(* accepted one when its session is established.  `psk' is the table the    *)
(* tunnel resolves labels through, `ctx' the one its own TLS context was    *)
(* built with.                                                              *)
NewTunnel(addr, idle, psk) ==
    [NoTunnel EXCEPT !.life = "live", !.accepted = addr = 0, !.addr = addr, !.idle = idle,
                     !.psk = psk, !.ctx = IF addr = 0 THEN 0 ELSE psk, !.reserved = addr # 0]

(* tunnel_start: the first tasks are posted before the thread runs.         *)
StartTunnel(t) ==
    [t EXCEPT !.started = TRUE,
              !.tasks = IF t.accepted THEN <<[k |-> "start"]>>
                        ELSE <<[k |-> "start"], [k |-> "connect"]>>]

(* mux_state: what the session's owner can tell apart                       *)
MuxState(ss) ==
    IF ss \in {"INIT", "CONNECT", "HANDSHAKE"} THEN "CONNECT" ELSE ss

(* mux_fd(ss) >= 0: a transport is attached.                                *)
HasFd(t) == t.ss \in {"CONNECT", "HANDSHAKE", "ESTABLISHED", "CLOSING"}

(* socket_close of local connections, in order                              *)
CloseFds(t, fds) == [t EXCEPT !.shut = @ \o fds]

(* relay_event: nothing is relayed once the owner has cut the tunnel off.   *)
RelayEvent(t, e) == IF t.cut THEN t ELSE [t EXCEPT !.out = Append(@, e)]

-----------------------------------------------------------------------------
(* Redialing                                                                *)

ReconnectOff(t) == t.addr = 0 \/ t.retired

ScheduleReconnect(t) == IF ReconnectOff(t) THEN t ELSE [t EXCEPT !.timer = TRUE]

(* The beginning of tunnel_on_event: any life-cycle event may end the wait  *)
(* of the parked connections, which are settled from the loop.              *)
(* Defect: the timer is left alone while a redial is still owed.            *)
ArmParkUnlessOwed(t) == IF t.park # <<>> /\ ~t.owed THEN [t EXCEPT !.wpark = TRUE] ELSE t
ArmPark(t) == IF t.park # <<>> THEN [t EXCEPT !.wpark = TRUE] ELSE t

(* mux_session_attach_fd: only a fresh connect ends a drain.  The code      *)
(* aborts the process when the session is in any other state.               *)
AttachFd(t) ==
    ArmPark([t EXCEPT !.bad = @ \/ t.ss \notin {"INIT", "SUSPENDED", "CLOSED"},
                      !.draining = @ /\ t.ss = "SUSPENDED",
                      !.ss = "CONNECT"])

(* tunnel_redial and tunnel_initial_connect_task, with the retry that       *)
(* follows a dial that fails at once                                        *)
DialOrSchedule(t, ok) == IF ok THEN AttachFd(t) ELSE ScheduleReconnect(t)

(* tunnel_end_retired_later                                                 *)
EndRetiredLater(t) == [t EXCEPT !.timer = TRUE]

(* MUX_EVENT_SUSPENDED: handle_transport_lost                               *)
HandleTransportLost(t, ok) ==
    IF t.accepted THEN t
    ELSE IF ReconnectOff(t) THEN EndRetiredLater(t)
    ELSE IF t.idle THEN t
    ELSE DialOrSchedule([t EXCEPT !.timer = FALSE], ok)

(* MUX_EVENT_CONNECT_FAILED: only a session left suspended is paced here.   *)
HandleConnectFailed(t) ==
    IF t.ss # "SUSPENDED" THEN t
    ELSE IF ReconnectOff(t) THEN EndRetiredLater(t)
    ELSE IF t.idle THEN t
    ELSE ScheduleReconnect(t)

(* MUX_EVENT_CLOSED: handle_closed; the owner hears of it only when the     *)
(* tunnel will not dial again.                                              *)
(* Defect: the debt of a demand made during the close is forgotten.         *)
HandleClosedForgetful(t, ok) ==
    IF ReconnectOff(t)
    THEN RelayEvent([t EXCEPT !.owed = FALSE, !.timer = FALSE], "CLOSED")
    ELSE IF t.idle THEN [t EXCEPT !.timer = FALSE]
    ELSE ScheduleReconnect([t EXCEPT !.owed = FALSE])
HandleClosed(t, ok) ==
    IF ReconnectOff(t)
    THEN RelayEvent([t EXCEPT !.owed = FALSE, !.timer = FALSE], "CLOSED")
    ELSE IF ~t.idle THEN ScheduleReconnect([t EXCEPT !.owed = FALSE])
    ELSE IF t.owed
    THEN DialOrSchedule([t EXCEPT !.owed = FALSE, !.timer = FALSE], ok)
    ELSE [t EXCEPT !.timer = FALSE]

(* MUX_EVENT_ESTABLISHED and MUX_EVENT_RESUMED: handle_connected            *)
HandleConnected(t, e, claim) ==
    RelayEvent([ArmPark(t) EXCEPT !.claim = claim], e)

-----------------------------------------------------------------------------
(* The session, as far as its owner sees it                                 *)

(* mux_sched_free_streams: the streams' local connections are closed.       *)
InSomeOrder(c) == CHOOSE q \in [1 .. Cardinality(c) -> c] : Range(q) = c
FreeStreams(t) == [CloseFds(t, InSomeOrder(t.streams)) EXCEPT !.streams = {}]

(* mux_session_set_state: leaving ESTABLISHED is announced as LOST.         *)
LeaveTo(t, ss) ==
    IF t.ss = "ESTABLISHED"
    THEN RelayEvent(ArmPark([t EXCEPT !.ss = ss, !.eof = FALSE]), "LOST")
    ELSE ArmPark([t EXCEPT !.ss = ss, !.eof = FALSE])

(* mux_session_reset: a dialed session forgets its id.                      *)
SessionReset(t) ==
    IF t.ss = "CLOSED" THEN t
    ELSE [FreeStreams(LeaveTo(t, "CLOSED")) EXCEPT !.resumable = @ /\ t.accepted]

(* mux_session_notify_closed: CLOSED is announced on a real transition only.*)
NotifyClosed(t, ok) ==
    IF t.ss = "CLOSED" THEN t ELSE HandleClosed(SessionReset(t), ok)

(* mux_session_initiate_shutdown                                            *)
MuxShutdown(t, ok) ==
    IF t.ss \in {"ESTABLISHED", "HANDSHAKE"}
    THEN LeaveTo(FreeStreams(t), "CLOSING")
    ELSE NotifyClosed(t, ok)

(* mux_sched_check_no_active_streams: the drain of a session without        *)
(* streams ends it; an idle one only arms its timer.                        *)
CheckNoActive(t, ok) ==
    IF t.ss = "ESTABLISHED" /\ t.streams = {} /\ t.draining THEN MuxShutdown(t, ok) ELSE t

(* mux_session_suspend, with the events it ends in                          *)
SessionSuspend(t, ok) ==
    IF t.ss = "ESTABLISHED"
    THEN HandleTransportLost(LeaveTo(t, "SUSPENDED"), ok)
    ELSE HandleConnectFailed(LeaveTo(t, "SUSPENDED"))

(* The transport breaks: mux_session_suspend_or_reset and its callers       *)
TransportLost(t, ok) ==
    IF t.resumable /\ (t.ss = "ESTABLISHED"
                       \/ (~t.accepted /\ t.ss \in {"CONNECT", "HANDSHAKE"}))
    THEN SessionSuspend(t, ok)
    ELSE NotifyClosed(t, ok)

(* mux_session_handshake_done: a session the peer takes up again is         *)
(* RESUMED, any other ESTABLISHED with nothing left of the old one.         *)
Established(t, resumed, claim, ok) ==
    CheckNoActive(
        IF resumed
        THEN HandleConnected([t EXCEPT !.ss = "ESTABLISHED"], "RESUMED", claim)
        ELSE HandleConnected([FreeStreams(t) EXCEPT !.ss = "ESTABLISHED", !.resumable = TRUE],
                             "ESTABLISHED", claim),
        ok)

(* session_resume_attach on the session's own thread; a session that is     *)
(* neither established nor suspended lets the transport go.  The teardown   *)
(* must not have come first.                                                *)
ResumeAttach(t, ok) ==
    IF t.ss = "GONE" THEN [t EXCEPT !.bad = TRUE]
    ELSE IF t.ss = "SUSPENDED" THEN Established(ArmPark(t), TRUE, t.claim, ok)
    ELSE IF t.ss = "ESTABLISHED"
    THEN Established(LeaveTo(t, "SUSPENDED"), TRUE, t.claim, ok)
    ELSE t

-----------------------------------------------------------------------------
(* Local connections                                                        *)

(* tunnel_attach_stream: mux_session_open_stream refuses outside            *)
(* ESTABLISHED and while draining.                                          *)
CanOpen(t) == t.ss = "ESTABLISHED" /\ ~t.draining

(* tunnel_demand_redial                                                     *)
(* Defect: a dial that already waits for its timer is made at once.         *)
DemandRedialTwice(t, ok) ==
    IF ReconnectOff(t) \/ ~t.idle THEN t
    ELSE IF t.ss \in {"SUSPENDED", "CLOSED"} THEN DialOrSchedule(t, ok)
    ELSE [t EXCEPT !.owed = @ \/ t.ss = "CLOSING"]
DemandRedial(t, ok) ==
    IF ReconnectOff(t) \/ ~t.idle \/ t.timer THEN t
    ELSE IF t.ss \in {"SUSPENDED", "CLOSED"} THEN DialOrSchedule(t, ok)
    ELSE [t EXCEPT !.owed = @ \/ t.ss = "CLOSING"]

(* The end of tunnel_open_fd: the connection waits for the dial in flight,  *)
(* or for the close that a redial follows.                                  *)
ParkOrClose(t, fd) ==
    IF ~ReconnectOff(t) /\ t.idle /\ (t.ss \in {"CONNECT", "HANDSHAKE"} \/ t.owed)
    THEN [t EXCEPT !.park = Append(@, fd)]
    ELSE CloseFds(t, <<fd>>)

(* tunnel_open_fd                                                           *)
OpenFd(t, fd, ok) ==
    IF CanOpen(t) THEN [t EXCEPT !.streams = @ \cup {fd}]
    ELSE ParkOrClose(DemandRedial(t, ok), fd)

(* tunnel_settle_parked                                                     *)
(* Defect: the nodes of connections that became streams stay in the list.   *)
SettleParkedKeeps(t) ==
    IF MuxState(t.ss) = "CONNECT" \/ t.owed THEN t
    ELSE IF CanOpen(t) THEN [t EXCEPT !.streams = @ \cup Range(t.park)]
    ELSE [CloseFds(t, t.park) EXCEPT !.park = <<>>]
SettleParked(t) ==
    IF MuxState(t.ss) = "CONNECT" \/ t.owed THEN t
    ELSE IF CanOpen(t) THEN [t EXCEPT !.streams = @ \cup Range(t.park), !.park = <<>>]
    ELSE [CloseFds(t, t.park) EXCEPT !.park = <<>>]

(* tunnel_drain_pending_opens, after a teardown in the same tick too        *)
OpenRun(t, ok) ==
    LET run[i \in 0 .. Len(t.opens)] ==
            IF i = 0 THEN [t EXCEPT !.opens = <<>>] ELSE OpenFd(run[i - 1], t.opens[i], ok)
    IN run
DrainOpens(t, ok) ==
    IF t.ss = "GONE" THEN [CloseFds(t, t.opens) EXCEPT !.opens = <<>>]
    ELSE OpenRun(t, ok)[Len(t.opens)]

(* tunnel_drain_pending_dgrams: a datagram finds the session as it is; what *)
(* becomes of it is modelled in UdpRelay.                                   *)
DrainDgrams(t, ok) ==
    IF t.dgrams = 0 THEN t
    ELSE IF t.ss \in {"GONE", "ESTABLISHED"} THEN [t EXCEPT !.dgrams = 0]
    ELSE DemandRedial([t EXCEPT !.dgrams = 0], ok)

-----------------------------------------------------------------------------
(* Tasks posted by the server and by other tunnels                          *)

(* tunnel_close_session and task_tunnel_teardown: callbacks are silenced,   *)
(* the session is closed and the thread's loop ends.                        *)
Teardown(t) ==
    [FreeStreams(t) EXCEPT !.ss = "GONE", !.timer = FALSE, !.wpark = FALSE, !.eof = FALSE]

(* tunnel_report_closed and tunnel_end_idle: nothing will dial a retired    *)
(* tunnel again, so one without a transport ends now.                       *)
EndIdle(t, ok) ==
    IF t.ss = "CLOSED" THEN HandleClosed(ArmPark(t), ok)
    ELSE IF t.ss \in {"SUSPENDED", "INIT"} THEN MuxShutdown(t, ok)
    ELSE t

(* task_shutdown                                                            *)
TaskShutdown(t, ok) ==
    IF t.ss # "CLOSED" THEN MuxShutdown([t EXCEPT !.retired = TRUE, !.timer = FALSE], ok)
    ELSE HandleClosed(ArmPark([t EXCEPT !.retired = TRUE, !.timer = FALSE]), ok)

(* reload_task: addresses, the PSK table, the TLS context, the session's    *)
(* configuration and the drain; a retired tunnel is ended if it is idle.    *)
ReloadDrain(t, k, ok) ==
    IF k.drain THEN CheckNoActive([t EXCEPT !.draining = TRUE], ok) ELSE t
ReloadRetire(t, k, ok) == IF k.off THEN EndIdle(t, ok) ELSE t
(* Defect: a tunnel that is retired while idle is left as it is.            *)
ReloadTaskNoEnd(t, k, ok) ==
    ReloadDrain([t EXCEPT !.addr = IF k.addr = 0 THEN @ ELSE k.addr,
                          !.retired = @ \/ k.off, !.timer = @ /\ ~k.off,
                          !.psk = k.psk, !.ctx = IF t.accepted \/ k.ctx = 0 THEN @ ELSE k.ctx,
                          !.idle = k.idle], k, ok)
ReloadTask(t, k, ok) ==
    ReloadRetire(ReloadDrain([t EXCEPT !.addr = IF k.addr = 0 THEN @ ELSE k.addr,
                                       !.retired = @ \/ k.off, !.timer = @ /\ ~k.off,
                                       !.psk = k.psk,
                                       !.ctx = IF t.accepted \/ k.ctx = 0 THEN @ ELSE k.ctx,
                                       !.idle = k.idle], k, ok), k, ok)

(* One task of the ring.  Tasks posted before the teardown run before it.   *)
RunTask(t, k, ok) ==
    CASE k.k = "start" -> IF t.accepted THEN [t EXCEPT !.ss = "HANDSHAKE"] ELSE t
      [] k.k = "connect" -> DialOrSchedule(t, ok)
      [] k.k = "attach" -> ResumeAttach(t, ok)
      [] k.k = "reload" -> ReloadTask(t, k, ok)
      [] k.k = "psk" -> [t EXCEPT !.psk = k.psk]
      [] k.k = "shutdown" -> TaskShutdown(t, ok)
      [] k.k = "drop" -> [t EXCEPT !.eof = HasFd(t)]
      [] k.k = "teardown" -> Teardown(t)

(* dispatcher_tick: the tunnel after each task of the ring                  *)
TaskRun(t, ok) ==
    LET run[i \in 0 .. Len(t.tasks)] ==
            IF i = 0 THEN [t EXCEPT !.tasks = <<>>] ELSE RunTask(run[i - 1], t.tasks[i], ok)
    IN run

(* tunnel_async_cb                                                          *)
AsyncCb(t, ok) == DrainDgrams(DrainOpens(TaskRun(t, ok)[Len(t.tasks)], ok), ok)

(* tunnel_reconnect_cb                                                      *)
ReconnectCb(t, ok) ==
    IF ReconnectOff(t) THEN MuxShutdown([t EXCEPT !.timer = FALSE], ok)
    ELSE DialOrSchedule([t EXCEPT !.timer = FALSE], ok)

(* tunnel_park_cb                                                           *)
ParkCb(t) == SettleParked([t EXCEPT !.wpark = FALSE])

-----------------------------------------------------------------------------
(* The end of a tunnel: tunnel_close_final after the thread has ended       *)
CloseFinal(t) ==
    [CloseFds(t, t.opens \o t.park) EXCEPT
        !.life = "freed", !.opens = <<>>, !.park = <<>>, !.dgrams = 0, !.tasks = <<>>,
        !.back = <<>>, !.psk = 0, !.ctx = 0, !.reserved = FALSE, !.claim = "none"]
=============================================================================
