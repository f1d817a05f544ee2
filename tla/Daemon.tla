------------------------------- MODULE Daemon -------------------------------
(* The actions of the server's loop and of its tunnels' threads, and what   *)
(* must hold between them.                                                  *)
EXTENDS Server

InitServer(c) ==
    [conf |-> c, muxt |-> 0, slots |-> <<>>, peers |-> Confs[c].peers,
     pools |-> [p \in Peers |-> <<>>], acc |-> {}, used |-> 0, limit |-> Confs[c].limit,
     ring |-> <<>>, stack |-> <<>>, live |-> [on |-> FALSE, s |-> {}], maint |-> FALSE,
     down |-> FALSE, halt |-> "new", psk |-> IF Confs[c].psk THEN 1 ELSE 0, gen |-> 1,
     retired |-> {}, gone |-> {}, holds |-> [p \in Tables |-> 0],
     routes |-> [k \in {"listen"} \cup Peers |-> 0], bound |-> StopListeners, bad |-> FALSE]

Init == /\ left \in Scenarios
        /\ srv = InitServer(left.conf)
        /\ tun = [t \in Tuns |-> NoTunnel]
        /\ fds = [f \in Fds |-> "new"]

(* The environment spends the budgets of the record c; a choice of the good *)
(* outcome costs nothing.                                                   *)
Pay(c) ==
    /\ \A b \in DOMAIN c : left[b] >= c[b]
    /\ left' = [b \in DOMAIN left |-> IF b \in DOMAIN c THEN left[b] - c[b] ELSE left[b]]
Unless(ok) == IF ok THEN 0 ELSE 1

-----------------------------------------------------------------------------
(* Tunnel threads                                                           *)

Running(t) == tun[t].life = "live" /\ tun[t].ss # "GONE" /\ tun[t].pin = 0

(* relay_event's post: events go to the server's ring in order, and behind  *)
(* what already waits in the backlog.                                       *)
Fits(s, u) == IF u.back # <<>> THEN 0 ELSE Min({Len(u.out), RingCap - Len(s.ring)})

Events(t, es) == [i \in DOMAIN es |-> [t |-> t, e |-> es[i]]]

(* The callback of tunnel t has turned it into u, the server into s.        *)
Ran(t, u, s, fit) ==
    /\ srv' = [s EXCEPT !.ring = @ \o Events(t, SubSeq(u.out, 1, fit))]
    /\ tun' = [tun EXCEPT ![t] = [u EXCEPT !.out = <<>>, !.shut = <<>>,
                                           !.back = @ \o SubSeq(u.out, fit + 1, Len(u.out))]]
    /\ fds' = Shut(u.shut)
Run(t, u) == Ran(t, u, srv, Fits(srv, u))

(* The holds that the dispatches run by this tick give back                 *)
HoldsBack(t) ==
    [srv EXCEPT !.holds = [p \in Tables |->
        @[p] - Cardinality({i \in DOMAIN tun[t].tasks :
                               tun[t].tasks[i].k \in {"reload", "psk"} /\ tun[t].tasks[i].psk = p})]]

(* tunnel_async_cb                                                          *)
Async(t) ==
    /\ Running(t) /\ (tun[t].tasks # <<>> \/ tun[t].opens # <<>> \/ tun[t].dgrams > 0)
    /\ \E ok \in BOOLEAN :
        /\ Pay([nodial |-> Unless(ok)])
        /\ LET u == AsyncCb(tun[t], ok) IN Ran(t, u, HoldsBack(t), Fits(srv, u))

(* tunnel_reconnect_cb and tunnel_park_cb                                   *)
Reconnect(t) ==
    /\ Running(t) /\ tun[t].timer
    /\ \E ok \in BOOLEAN : Pay([nodial |-> Unless(ok)]) /\ Run(t, ReconnectCb(tun[t], ok))
Park(t) == Running(t) /\ tun[t].wpark /\ Run(t, ParkCb(tun[t])) /\ UNCHANGED left

(* relay_retry_cb                                                           *)
RelayRetry(t) ==
    /\ Running(t) /\ tun[t].back # <<>> /\ (tun[t].cut \/ Len(srv.ring) < RingCap)
    /\ IF tun[t].cut THEN Run(t, [tun[t] EXCEPT !.back = <<>>])
       ELSE LET fit == Min({Len(tun[t].back), RingCap - Len(srv.ring)})
            IN /\ srv' = [srv EXCEPT !.ring = @ \o Events(t, SubSeq(tun[t].back, 1, fit))]
               /\ tun' = [tun EXCEPT ![t].back = SubSeq(@, fit + 1, Len(@))]
               /\ UNCHANGED fds
    /\ UNCHANGED left

(* connect_cb: the pending connect succeeded.                               *)
Connected(t) ==
    /\ Running(t) /\ ~tun[t].accepted /\ tun[t].ss = "CONNECT"
    /\ Run(t, [tun[t] EXCEPT !.ss = "HANDSHAKE"]) /\ UNCHANGED left

(* The identity the peer announces; unless `moves' it keeps it.             *)
ClaimsOf(t) == IF left.moves \/ tun[t].claim = "none" THEN left.claims ELSE {tun[t].claim}

(* process_hello_client: the server confirms the session offered, or not.   *)
ServerHello(t) ==
    /\ Running(t) /\ ~tun[t].accepted /\ tun[t].ss = "HANDSHAKE"
    /\ \E resumed \in {FALSE, tun[t].resumable}, claim \in ClaimsOf(t) :
          Run(t, Established(tun[t], resumed, claim, TRUE))
    /\ UNCHANGED left

(* The transport fails, or task_drop_transport has shut it down.  A dialed  *)
(* session may dial at once.                                                *)
Lose(t) ==
    /\ Running(t) /\ HasFd(tun[t])
    /\ \E ok \in BOOLEAN :
        /\ Pay([lose |-> Unless(tun[t].eof), nodial |-> Unless(ok)])
        /\ Run(t, TransportLost(tun[t], ok))

(* The close exchange ends, by the peer's close or by the close timeout.    *)
CloseDone(t) ==
    /\ Running(t) /\ tun[t].ss = "CLOSING"
    /\ \E ok \in BOOLEAN : Pay([nodial |-> Unless(ok)]) /\ Run(t, NotifyClosed(tun[t], ok))

(* The peer closes the session, or a suspended one is not resumed in time.  *)
EndSession(t) ==
    /\ Running(t) /\ tun[t].ss \in {"ESTABLISHED", "SUSPENDED"} /\ Pay([end |-> 1])
    /\ Run(t, NotifyClosed(tun[t], TRUE))

(* idle_cb                                                                  *)
IdleClose(t) ==
    /\ Running(t) /\ tun[t].ss = "ESTABLISHED" /\ ~tun[t].accepted /\ tun[t].idle
    /\ tun[t].streams = {} /\ Pay([idle |-> 1])
    /\ Run(t, MuxShutdown(tun[t], TRUE))

(* A stream ends; the last one of a draining session ends the session.      *)
StreamEnd(t) ==
    /\ Running(t)
    /\ \E f \in tun[t].streams :
        Run(t, CheckNoActive(CloseFds([tun[t] EXCEPT !.streams = @ \ {f}], <<f>>), TRUE))
    /\ UNCHANGED left

(* process_hello_server without a session to resume: tunnel_admit_session,  *)
(* under accepted_mu exclusive                                              *)
Admit(s) == [s EXCEPT !.used = @ + 1]
ClientHello(t) ==
    /\ Running(t) /\ tun[t].accepted /\ tun[t].ss = "HANDSHAKE" /\ ~Pinned
    /\ \E claim \in ClaimsOf(t) :
        IF HasCapacity(srv)
        THEN LET u == Established([tun[t] EXCEPT !.reserved = TRUE], FALSE, claim, TRUE)
             IN Ran(t, u, Admit(srv), Fits(srv, u))
        ELSE Run(t, NotifyClosed(tun[t], TRUE))
    /\ UNCHANGED left

(* server_on_resume_lookup: k is pinned until the transport is handed off.  *)
ResumeLookup(t) ==
    /\ Running(t) /\ tun[t].accepted /\ tun[t].ss = "HANDSHAKE" /\ Pay([resume |-> 1])
    /\ \E k \in srv.acc \ {t} :
        /\ tun[k].ss \in {"SUSPENDED", "ESTABLISHED"}
        /\ tun' = [tun EXCEPT ![t].pin = k]
    /\ UNCHANGED <<srv, fds>>

(* tunnel_handoff_resume and server_on_resume_unpin: the transient session  *)
(* ends, or serves the peer as a fresh one when the ring is full.           *)
Handoff(t) ==
    /\ tun[t].pin # 0
    /\ LET k == tun[t].pin
           u == NotifyClosed([tun[t] EXCEPT !.pin = 0], TRUE)
       IN IF Room(tun, k)
          THEN /\ tun' = [PostTo(tun, k, [k |-> "attach"]) EXCEPT
                            ![t] = [u EXCEPT !.out = <<>>, !.shut = <<>>,
                                             !.back = @ \o SubSeq(u.out, Fits(srv, u) + 1, Len(u.out))]]
               /\ srv' = [srv EXCEPT !.ring = @ \o Events(t, SubSeq(u.out, 1, Fits(srv, u)))]
          ELSE tun' = [tun EXCEPT ![t].pin = 0] /\ UNCHANGED srv
    /\ UNCHANGED <<fds, left>>

TunnelStep(t) ==
    \/ Async(t) \/ Reconnect(t) \/ Park(t) \/ RelayRetry(t) \/ Connected(t) \/ ServerHello(t)
    \/ Lose(t) \/ CloseDone(t) \/ EndSession(t) \/ IdleClose(t) \/ StreamEnd(t)
    \/ ClientHello(t) \/ ResumeLookup(t) \/ Handoff(t)

-----------------------------------------------------------------------------
(* The loop thread: events                                                  *)

(* server_start: a top-level listener that cannot be bound, a thread that   *)
(* cannot be started or an identity listener that cannot be bound ends the  *)
(* process; `fail' names the start of a thread that fails.                  *)
StartTop == StartListeners(ReloadOf(StopListeners), TopKeys, Conf.lst, left.taken)
StartIds == StartListeners(StartTop, PeerSeq, Conf.lst, left.taken)
Started(s, bound, halt) == [s EXCEPT !.bound = bound, !.halt = halt]
ServerStart ==
    /\ srv.halt = "new"
    /\ \E fail \in {"none", "mux", "ids"} :
        /\ Pay([nothread |-> Unless(fail = "none")])
        /\ fail = "mux" => Conf.mux # 0
        /\ fail = "ids" => Conf.ids # <<>>
        /\ IF ~StartTop.ok \/ fail = "mux"
           THEN Become([World EXCEPT !.s = Started(@, StartTop.bound, "break")])
           ELSE IF ~StartIds.ok \/ fail = "ids"
           THEN Become([EnsureMuxTunnel(World, TRUE) EXCEPT
                            !.s = Started(@, StartIds.bound, "break")])
           ELSE Become(ReloadIdentityTunnels(EnsureMuxTunnel(
                    [World EXCEPT !.s = Started(@, StartIds.bound, "run")], TRUE), TRUE))

(* mux_serve: the tunnel is in the accepted table before its thread runs.   *)
MuxServe ==
    /\ Idle /\ srv.bound["mux_listen"] # NoAddr /\ FreeId(tun) # 0 /\ ~Pinned
    /\ \E th \in BOOLEAN :
        /\ Pay([accept |-> 1, nothread |-> Unless(th)])
        /\ LET t == FreeId(tun)
               u == NewTunnel(0, Conf.idle, srv.psk)
           IN IF th THEN Become([World EXCEPT !.n[t] = StartTunnel(u), !.s.acc = @ \cup {t}])
              ELSE Become([World EXCEPT !.n[t] = CloseFinal(u)])

(* tcp_serve and identity_tcp_serve, with tunnel_open_stream                *)
Serve(key, f) ==
    /\ Idle /\ srv.bound[key] # NoAddr /\ fds[f] = "new" /\ Pay([open |-> 1])
    /\ IF PickFor(srv, tun, key) = {}
       THEN fds' = [fds EXCEPT ![f] = "shut"] /\ UNCHANGED <<srv, tun>>
       ELSE \E t \in PickFor(srv, tun, key) :
                /\ fds' = [fds EXCEPT ![f] = "open"]
                /\ tun' = [tun EXCEPT ![t].opens = Append(@, f),
                                      ![t].bad = @ \/ tun[t].life = "freed"]
                /\ UNCHANGED srv

(* listener_route and tunnel_send_dgram: a known client keeps its tunnel.   *)
UdpServe(key) ==
    /\ Idle /\ Conf.udp /\ srv.bound[key] # NoAddr /\ Pay([dgram |-> 1])
    /\ \E t \in IF srv.routes[key] # 0 THEN {srv.routes[key]} ELSE PickFor(srv, tun, key) :
        /\ srv' = [srv EXCEPT !.routes[key] = t]
        /\ tun' = [tun EXCEPT ![t].dgrams = 1, ![t].bad = @ \/ tun[t].life = "freed"]
    /\ UNCHANGED fds

(* route_expire_cb                                                          *)
RouteExpire(key) ==
    /\ Idle /\ srv.routes[key] # 0 /\ UNCHANGED left
    /\ Become([World EXCEPT !.s.routes[key] = 0])

(* suspend_cb: every transport is dropped after a system suspend.           *)
SuspendCb ==
    /\ Idle /\ Pay([drop |-> 1])
    /\ Become([World EXCEPT !.n = PostAll(@, Registered(srv), [k |-> "drop"])])

(* relay_async_cb                                                           *)
RelayAsync == Idle /\ srv.ring # <<>> /\ Become([World EXCEPT !.s = Push(@, [f |-> "tick"])])
              /\ UNCHANGED left

(* signal_cb on SIGTERM: with no session left the loop ends at once, else   *)
(* the timer becomes the deadline.                                          *)
StopListening(s) == [s EXCEPT !.bound = StopListeners, !.routes = [k \in DOMAIN @ |-> 0]]
Terminate(s) ==
    IF NoneLive(s) THEN [s EXCEPT !.halt = "break"] ELSE [s EXCEPT !.maint = TRUE]
SignalTerm ==
    /\ Idle /\ ~srv.down /\ Pay([term |-> 1])
    /\ Become([World EXCEPT
            !.s = Terminate([StopListening(@) EXCEPT !.down = TRUE]),
            !.n = PostAll(@, Registered(srv), [k |-> "shutdown"])])

-----------------------------------------------------------------------------
(* The loop thread: closing a tunnel                                        *)

(* The beginning of server_close_and_fold and of tunnel_close_final         *)
(* Defect: the routes of lossymux clients to the tunnel are left in place.  *)
BeginCloseRouted(w, t) ==
    [w EXCEPT !.n[t].cut = TRUE,
              !.s = Push([@ EXCEPT !.live.s = @ \ {t}], [f |-> "post", t |-> t])]
Forget(s, t) ==
    [s EXCEPT !.live.s = @ \ {t}, !.routes = [k \in DOMAIN @ |-> IF @[k] = t THEN 0 ELSE @[k]]]
BeginClose(w, t) ==
    [w EXCEPT !.n[t].cut = TRUE, !.s = Push(Forget(@, t), [f |-> "post", t |-> t])]

(* An accepted tunnel leaves its table under accepted_mu exclusive.         *)
(* Defect: a resume lookup that has pinned the tunnel is not waited for.    *)
MayUnlistNow(t) == TRUE
MayUnlist(t) == ~tun[t].accepted \/ ~Pinned

(* A task of the relay ring is taken off.                                   *)
Dequeue(s) == [s EXCEPT !.ring = Tail(@)]

(* handle_closed, up to the close; its end is the frame `tail'.             *)
HandleClosedEvent(t) ==
    /\ MayUnlist(t)
    /\ Become(BeginClose([World EXCEPT !.s = Push(UnlistAll(Dequeue(@), t, tun[t].accepted),
                                                [f |-> "tail"])], t))

(* dispatcher_tick, one task: relay_dispatch and the server's handlers      *)
Tick ==
    /\ OnTop("tick") /\ UNCHANGED left
    /\ IF srv.ring = <<>> THEN Become([World EXCEPT !.s = Pop(@)])
       ELSE LET t == Head(srv.ring).t
                e == Head(srv.ring).e
                w == [World EXCEPT !.s = Dequeue(@)]
            IN IF tun[t].life = "freed" THEN Become([w EXCEPT !.s.bad = TRUE])
               ELSE IF tun[t].cut \/ e = "LOST" THEN Become(w)
               ELSE IF e = "CLOSED" THEN HandleClosedEvent(t)
               ELSE Become([w EXCEPT !.s = UpdateIdentityPool(@, t, tun[t].claim)])

(* tunnel_close_final waits for a slot in the tunnel's ring ...             *)
PostTeardown ==
    /\ OnTop("post") /\ Room(tun, Top.t) /\ UNCHANGED left
    /\ Become([World EXCEPT !.n = PostTo(@, Top.t, [k |-> "teardown"]),
                         !.s = Push(Pop(@), [f |-> "join", t |-> Top.t])])

(* ... then for its thread, and flushes the relay ring ...                  *)
(* Defect: the relay ring is not flushed before the tunnel is freed.        *)
JoinNoFlush ==
    /\ OnTop("join") /\ tun[Top.t].ss = "GONE" /\ UNCHANGED left
    /\ Become([World EXCEPT !.s = Push(Pop(@), [f |-> "fin", t |-> Top.t])])
Join ==
    /\ OnTop("join") /\ tun[Top.t].ss = "GONE" /\ UNCHANGED left
    /\ Become([World EXCEPT !.s = Push(Push(Pop(@), [f |-> "fin", t |-> Top.t]), [f |-> "tick"])])

(* ... and frees it, giving back its session under accepted_mu exclusive.   *)
(* Defect: the session slot is not given back.                              *)
FreeTunnelLeaks ==
    /\ OnTop("fin") /\ UNCHANGED left /\ ~Pinned
    /\ LET u == CloseFinal(tun[Top.t])
       IN Become([World EXCEPT !.n[Top.t] = [u EXCEPT !.shut = <<>>], !.x = u.shut, !.s = Pop(@)])
GiveBack(s, u) == [s EXCEPT !.used = IF u.reserved THEN @ - 1 ELSE @]
FreeTunnel ==
    /\ OnTop("fin") /\ UNCHANGED left /\ (tun[Top.t].reserved => ~Pinned)
    /\ LET u == CloseFinal(tun[Top.t])
       IN Become([World EXCEPT !.n[Top.t] = [u EXCEPT !.shut = <<>>], !.x = u.shut,
                            !.s = Pop(GiveBack(@, tun[Top.t]))])

(* The end of handle_closed                                                 *)
ShutDone(s) == [s EXCEPT !.maint = FALSE, !.halt = IF @ = "run" THEN "break" ELSE @]
ClosedTail ==
    /\ OnTop("tail") /\ UNCHANGED left
    /\ Become([World EXCEPT !.s = Pop(IF @.down /\ NoneLive(@) THEN ShutDone(@) ELSE Kick(@))])

-----------------------------------------------------------------------------
(* The loop thread: closing several tunnels                                 *)

(* server_sweep_begin: without memory the sweep asks the registries.        *)
SweepBegin(s, c, mem) ==
    Push([s EXCEPT !.live = [on |-> mem /\ c # {}, s |-> IF mem THEN c ELSE {}]],
         [f |-> "sweep", rest |-> c])

(* One entry of identity_listener_discard, for the pool of a removed peer,  *)
(* or of server_force_close_snapshot                                        *)
Visited(s, t) == [s EXCEPT !.stack[1].rest = @ \ {t}]
SweepEnd(s) == [s EXCEPT !.live = [on |-> FALSE, s |-> {}]]
Unregister(s, t, a) ==
    IF s.halt = "stop" THEN UnlistSwept(s, t, a) ELSE UnlistPooled(s, t, a)
Sweep ==
    /\ OnTop("sweep") /\ UNCHANGED left
    /\ IF Top.rest = {}
       THEN Become([World EXCEPT !.s = Pop(SweepEnd(@))])
       ELSE \E t \in Top.rest :
            LET w == [World EXCEPT !.s = Visited(@, t)]
            IN IF ~SweepIsLive(srv, t) THEN Become(w)
               ELSE IF tun[t].life = "freed" THEN Become([w EXCEPT !.s.bad = TRUE])
               ELSE /\ MayUnlist(t)
                    /\ Become(BeginClose([w EXCEPT !.s = Unregister(@, t, tun[t].accepted)], t))

(* server_force_close_one_by_one: without memory for a snapshot             *)
CloseOneByOne ==
    /\ OnTop("one") /\ UNCHANGED left
    /\ IF NoneLive(srv) THEN Become([World EXCEPT !.s = Pop(@)])
       ELSE \E t \in Registered(srv) :
            /\ MayUnlist(t)
            /\ Become(BeginClose([World EXCEPT !.s = UnlistAll(@, t, tun[t].accepted)], t))

-----------------------------------------------------------------------------
(* The loop thread: reload                                                  *)

(* tunnel_set_reload_connect: a tunnel whose entry is gone is retired, one  *)
(* whose entry has another address is repointed.                            *)
Changed(old, new) ==
    IF old = new THEN [addr |-> 0, off |-> FALSE]
    ELSE IF old # 0 /\ new # 0 THEN [addr |-> new, off |-> FALSE]
    ELSE [addr |-> 0, off |-> TRUE]
SlotOf(s, t) == {i \in DOMAIN s.slots : s.slots[i] = t}
ReloadConnect(s, t, old, new) ==
    IF t = s.muxt THEN Changed(old.mux, new.mux)
    ELSE IF SlotOf(s, t) = {} THEN [addr |-> 0, off |-> FALSE]
    ELSE LET i == Min(SlotOf(s, t))
         IN IF i > Len(new.ids) \/ i > Len(old.ids) THEN [addr |-> 0, off |-> TRUE]
            ELSE Changed(old.ids[i], new.ids[i])

(* drain_tunnel_cb: a reload that lowers the session limit drains only what *)
(* it retires.                                                              *)
Preserve(old, new) == new.limit > 0 /\ (old.limit = 0 \/ new.limit < old.limit)
Dials(c) == c.mux # 0 \/ c.ids # <<>>
DrainMsg(r, old, new, psk) ==
    [k |-> "reload", addr |-> r.addr, off |-> r.off, drain |-> r.off \/ ~Preserve(old, new),
     psk |-> psk, ctx |-> IF Dials(new) THEN psk ELSE 0, idle |-> new.idle]

(* server_drain_tunnels; without memory no tunnel hears of the reload.      *)
DrainTunnels(w, c, psk, mem) ==
    IF ~mem THEN w
    ELSE PostHeld(w, [t \in Registered(srv) |->
                        DrainMsg(ReloadConnect(srv, t, Conf, Confs[c]), Conf, Confs[c], psk)])

(* server_reload and server_apply_config as far as the discard of the peers *)
(* the new configuration leaves out.                                        *)
Pools(c) == {PoolOf(srv, p) : p \in srv.peers \ Confs[c].peers} \ {{}}
TakeIdentities(s, c) ==
    Push([s EXCEPT !.peers = Confs[c].peers,
                   !.pools = [p \in Peers |-> IF p \in Confs[c].peers THEN @[p] ELSE <<>>]],
         [f |-> "apply", c |-> c, todo |-> Pools(c)])
Listening(s, b) == [s EXCEPT !.bound = b]
Reload ==
    /\ Idle /\ left.reloads # <<>> /\ left' = [left EXCEPT !.reloads = Tail(@)]
    /\ LET c == Head(left.reloads)
           r == ApplyListeners(srv.bound, Conf.lst, Confs[c].lst, left.taken)
       IN IF srv.down THEN UNCHANGED <<srv, tun, fds>>
          ELSE IF ~r.ok THEN Become([World EXCEPT !.s.bound = r.bound])
          ELSE ~Pinned /\ Become([World EXCEPT !.s = TakeIdentities(Listening(@, r.bound), c)])

(* identity_listener_discard of one removed peer                            *)
Discarded(s, c) == [s EXCEPT !.stack[1].todo = @ \ {c}]
DiscardPeer ==
    /\ OnTop("apply") /\ Top.todo # {}
    /\ \E c \in Top.todo, mem \in BOOLEAN :
        /\ Pay([nomem |-> Unless(mem)])
        /\ Become([World EXCEPT !.s = SweepBegin(Discarded(@, c), c, mem)])

(* The rest of server_apply_config: the tunnels are told, the configuration *)
(* is swapped, empty slots are dialed, and the old PSK table is retired.    *)
TableOf(s, c) == IF Confs[c].psk THEN s.gen + 1 ELSE 0
RetirePsk(s, old) == IF old = 0 THEN s ELSE Kick([s EXCEPT !.retired = @ \cup {old}])
SyncUdp(s, old) ==
    [s EXCEPT !.routes = [k \in DOMAIN @ |-> IF Confs[s.conf].udp /\ s.bound[k] # NoAddr
                                                /\ s.bound[k] = Resolve(old.lst[k])
                                             THEN @[k] ELSE 0]]
SwapConf(s, c) ==
    Pop([s EXCEPT !.conf = c, !.limit = Confs[c].limit, !.psk = TableOf(s, c), !.gen = @ + 1])
ApplyConf ==
    /\ OnTop("apply") /\ Top.todo = {} /\ ~Pinned
    /\ \E mem \in BOOLEAN, th \in BOOLEAN :
        /\ Pay([nomem |-> Unless(mem), nothread |-> Unless(th)])
        /\ LET c == Top.c
               w == DrainTunnels(World, c, TableOf(srv, c), mem)
           IN Become([ReloadIdentityTunnels(EnsureMuxTunnel(
                          [w EXCEPT !.s = SwapConf(@, c)], th), th)
                      EXCEPT !.s = RetirePsk(SyncUdp(@, Conf), srv.psk)])

-----------------------------------------------------------------------------
(* The loop thread: maintenance and the end                                 *)

(* maintenance_cb.  server_psk_release_retired looks at the holds first ... *)
Maintenance ==
    /\ Idle /\ srv.maint /\ ~srv.down /\ UNCHANGED left
    /\ Become([World EXCEPT !.s = Push(@, [f |-> "maint", idle |-> @.retired \ HeldTables(@, tun)])])

(* ... and at the tunnels second, offering the current table to those that  *)
(* are behind; then the empty slots are dialed.                             *)
InUse(n, c) == {n[t].psk : t \in c}
Reoffer(w) ==
    PostHeld(w, [t \in {t \in Registered(w.s) : w.n[t].psk # w.s.psk} |->
                    [k |-> "psk", psk |-> w.s.psk]])
FreeTables(s, c) == [s EXCEPT !.retired = @ \ c, !.gone = @ \cup c]
ReleaseRetired(w, mem) ==
    IF ~mem \/ w.s.retired = {} THEN w
    ELSE Reoffer([w EXCEPT !.s = FreeTables(@, Top.idle \ InUse(w.n, Registered(w.s)))])
Rearm(s) == Pop([s EXCEPT !.maint = s.retired # {} \/ SlotsWanting(s)])
MaintenancePass ==
    /\ OnTop("maint")
    /\ \E mem \in BOOLEAN, th \in BOOLEAN :
        /\ Pay([nomem |-> Unless(mem), nothread |-> Unless(th)])
        /\ Become([ReloadIdentityTunnels(EnsureMuxTunnel(ReleaseRetired(World, mem), th), th)
                   EXCEPT !.s = Rearm(@)])

(* maintenance_cb as the force-exit deadline                                *)
Deadline ==
    /\ Idle /\ srv.maint /\ srv.down /\ UNCHANGED left
    /\ Become([World EXCEPT !.s.maint = FALSE, !.s.halt = "break"])

(* server_stop: what is queued is handled, then the listeners close ...     *)
Stopping(s) == [s EXCEPT !.down = TRUE, !.maint = FALSE, !.halt = "stop"]
Stop ==
    /\ srv.halt = "break" /\ srv.stack = <<>> /\ UNCHANGED left
    /\ Become([World EXCEPT !.s = Push(Push(Stopping(@), [f |-> "stop1"]), [f |-> "tick"])])
StopServing ==
    /\ OnTop("stop1") /\ UNCHANGED left
    /\ Become([World EXCEPT
            !.s = Push(Push(Pop(StopListening(@)), [f |-> "stop2"]), [f |-> "tick"])])

(* ... every tunnel left is closed ...                                      *)
StopTunnels ==
    /\ OnTop("stop2")
    /\ \E snap \in BOOLEAN, set \in BOOLEAN :
        /\ Pay([nomem |-> Unless(snap /\ set)])
        /\ LET s == Push(Pop(srv), [f |-> "stop3"])
           IN Become([World EXCEPT !.s = IF snap THEN SweepBegin(s, Registered(srv), set)
                                         ELSE Push(s, [f |-> "one"])])

(* ... and the registries and tables go, with server_free.                  *)
Emptied(s) ==
    [s EXCEPT !.muxt = 0, !.slots = <<>>, !.acc = {}, !.pools = [p \in Peers |-> <<>>],
              !.gone = @ \cup s.retired \cup ({s.psk} \ {0}), !.retired = {}, !.halt = "stopped"]
StopDone ==
    /\ OnTop("stop3") /\ UNCHANGED left
    /\ Become([World EXCEPT !.s = Pop(Emptied(@))])

(* An idle loop and an ended process may stay as they are.                  *)
Rest == (Idle \/ srv.halt = "stopped") /\ UNCHANGED vars

LoopStep ==
    \/ ServerStart \/ MuxServe \/ SuspendCb \/ RelayAsync \/ SignalTerm \/ Tick
    \/ PostTeardown \/ Join \/ FreeTunnel \/ ClosedTail \/ Sweep \/ CloseOneByOne
    \/ Reload \/ DiscardPeer \/ ApplyConf \/ Maintenance \/ MaintenancePass \/ Deadline
    \/ Stop \/ StopServing \/ StopTunnels \/ StopDone \/ Rest
    \/ \E key \in {"listen"} \cup Peers :
        UdpServe(key) \/ RouteExpire(key) \/ \E f \in Fds : Serve(key, f)

Next == LoopStep \/ \E t \in Tuns : TunnelStep(t)

Spec == Init /\ [][Next]_vars

-----------------------------------------------------------------------------
(* What must hold                                                           *)

Live == {t \in Tuns : tun[t].life = "live"}
Named == (Registered(srv) \cup {srv.routes[k] : k \in DOMAIN srv.routes}
          \cup {tun[t].pin : t \in Tuns}) \ {0}
Queued == {srv.ring[i].t : i \in DOMAIN srv.ring}

(* No tunnel is used after it is freed: however the closes of several       *)
(* tunnels nest through the flush of the relay ring, no registry, client    *)
(* route, pinned resume or queued event names a freed tunnel, and no        *)
(* handler has been given one.  The registries may name what the sweep of   *)
(* server_stop has closed until it clears them.                             *)
NoFreedTunnel ==
    /\ ~srv.bad /\ \A t \in Tuns : ~tun[t].bad
    /\ Queued \subseteq Live
    /\ srv.halt # "stop" => Named \subseteq Live

(* A local connection handed to a tunnel is in one place at a time: queued  *)
(* for the tunnel's thread, parked until a dial ends, or a stream; it is    *)
(* closed once, and none is left behind by a tunnel that is gone.           *)
Places(f) ==
    UNION {{<<t, "opens", i>> : i \in {i \in DOMAIN tun[t].opens : tun[t].opens[i] = f}}
           \cup {<<t, "park", i>> : i \in {i \in DOMAIN tun[t].park : tun[t].park[i] = f}}
           \cup {<<t, "stream", 0>> : s \in {s \in tun[t].streams : s = f}} : t \in Live}
FdSettled == \A f \in Fds : Cardinality(Places(f)) = IF fds[f] = "open" THEN 1 ELSE 0

(* The count of session slots is the number of tunnels that hold one, no    *)
(* accepted session is established without one, and a stopped server has    *)
(* closed every tunnel and given every slot back.                           *)
SlotsMatch ==
    /\ srv.used = Cardinality({t \in Live : tun[t].reserved})
    /\ \A t \in Live : tun[t].ss \in {"ESTABLISHED", "SUSPENDED"} => tun[t].reserved
    /\ srv.halt = "stopped" => Live = {} /\ srv.used = 0

(* A PSK table that a reload has replaced is freed only when nothing can    *)
(* reach it: no tunnel resolves labels through it, no TLS context was built *)
(* with it, and no dispatch still in a ring carries it.                     *)
PskSafe ==
    /\ srv.halt # "stopped" => srv.psk \notin srv.gone
    /\ \A t \in Live : /\ {tun[t].psk, tun[t].ctx} \cap srv.gone = {}
                       /\ \A i \in DOMAIN tun[t].tasks :
                            tun[t].tasks[i].k \in {"reload", "psk"}
                                => tun[t].tasks[i].psk \notin srv.gone

(* Nothing is left without something that moves it on.  A dialed tunnel     *)
(* without a transport has its timer or waits for the next demand, a        *)
(* retired or accepted one has reported its end; parked connections have a  *)
(* dial, a close that a redial follows, or the timer that settles them.     *)
(* While the loop waits, an entry of the configuration without a tunnel, a  *)
(* retired PSK table and a shutdown have the maintenance timer.             *)
Reported(t) == "CLOSED" \in Range(tun[t].back) \cup {e.e : e \in {e \in Range(srv.ring) : e.t = t}}
Moved(t) ==
    LET u == tun[t] IN
    /\ u.ss \in {"CLOSED", "SUSPENDED"} /\ ~u.accepted /\ u.tasks = <<>>
         => u.timer \/ (u.idle /\ ~u.retired) \/ Reported(t)
    /\ u.ss = "CLOSED" /\ (u.accepted \/ u.retired) => Reported(t)
    /\ u.timer => u.ss \in {"INIT", "SUSPENDED", "CLOSED"}
    /\ u.owed => u.ss = "CLOSING"
    /\ u.park # <<>> => u.wpark \/ u.ss \in {"CONNECT", "HANDSHAKE"} \/ u.owed
NeverStranded ==
    /\ \A t \in Live : tun[t].cut \/ tun[t].ss = "GONE" \/ Moved(t)
    /\ Idle /\ (srv.down \/ SlotsWanting(srv) \/ srv.retired # {}) => srv.maint

(* After a reload, whether it was applied or failed at any bind, the server *)
(* listens where the configuration in force says and nowhere else.          *)
ListenersMatchConf ==
    Idle /\ ~srv.down => \A k \in LKeys : srv.bound[k] = AddrOf(Conf.lst[k])
=============================================================================
