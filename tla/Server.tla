------------------------------- MODULE Server -------------------------------
(* The server (src/server.c) around its tunnels: the loop thread that       *)
(* accepts, reloads, maintains and stops, and one thread per tunnel (the    *)
(* operators of Tunnel).  The two sides meet in bounded task rings, in a    *)
(* shared lock on the table of accepted sessions, and in the join of a      *)
(* tunnel's thread, during which the loop runs nothing else.                *)
(*                                                                          *)
(* The loop's C stack is `srv.stack': closing a tunnel flushes the whole    *)
(* relay ring, so the handler of one tunnel's event runs inside the close   *)
(* of another.  A tunnel is named by a number never used again.             *)
EXTENDS Tunnel, Listeners, FiniteSetsExt

CONSTANTS
    NTun,       \* tunnels that can be created; creating one more fails
    Fds,        \* local connections
    TaskCap,    \* capacity of a tunnel's task ring
    RingCap,    \* capacity of the server's relay ring
    Tables,     \* PSK tables, 1 .. the number of configurations applied
    Confs,      \* the configurations
    Scenarios   \* what happens to the daemon: the choices Init makes

(* No address string stands for "no address".                               *)
ASSUME ConfsAssumption ==
    \A c \in DOMAIN Confs :
        /\ Confs[c].ids \in Seq(Nat)
        /\ \A k \in LKeys : Confs[c].lst[k] # NoAddr => Resolve(Confs[c].lst[k]) # NoAddr

ASSUME ScenariosAssumption ==
    \A x \in Scenarios :
        /\ DOMAIN x = {"conf", "reloads", "claims", "moves", "taken", "nodial", "lose", "end", "idle",
                       "resume", "accept", "nothread", "open", "dgram", "drop", "term", "nomem"}
        /\ x.conf \in DOMAIN Confs /\ x.reloads \in Seq(DOMAIN Confs)

VARIABLES
    srv,    \* struct server
    tun,    \* the tunnels
    fds,    \* local connections: "new", "open", "shut", "twice"
    left    \* what the environment may still do

vars == <<srv, tun, fds, left>>

Tuns == 1 .. NTun

Conf == Confs[srv.conf]

(* accepted_mu is held shared by the tunnels that pinned a session to       *)
(* resume; an exclusive holder waits until there are none.                  *)
Pinned == \E t \in Tuns : tun[t].pin # 0

(* A step of the loop works on the world w: the server, the tunnels and the *)
(* local connections it has closed.                                         *)
World == [s |-> srv, n |-> tun, x |-> <<>>]

Shut(c) ==
    [f \in Fds |->
        IF Cardinality({i \in DOMAIN c : c[i] = f}) = 0 THEN fds[f]
        ELSE IF Cardinality({i \in DOMAIN c : c[i] = f}) = 1 /\ fds[f] = "open" THEN "shut"
        ELSE "twice"]

Become(w) == srv' = w.s /\ tun' = w.n /\ fds' = Shut(w.x)

-----------------------------------------------------------------------------
(* Registries                                                               *)

(* tunnel_iter_next, without its repetitions: server_snapshot_tunnels       *)
PoolOf(s, p) == Range(s.pools[p])
Registered(s) ==
    ({s.muxt} \cup Range(s.slots) \cup s.acc \cup UNION {PoolOf(s, p) : p \in s.peers}) \ {0}

(* server_has_live_peer and the two guards its callers add                  *)
NoneLive(s) == Registered(s) = {}

(* identity_listener_remove: swap-remove of the first match                 *)
PoolRemove(q, t) ==
    IF t \notin Range(q) THEN q
    ELSE LET i == CHOOSE i \in DOMAIN q : q[i] = t /\ \A j \in 1 .. i - 1 : q[j] # t
         IN SubSeq([q EXCEPT ![i] = q[Len(q)]], 1, Len(q) - 1)

(* identity_pools_remove_except                                             *)
PoolsRemoveExcept(s, t, keep) ==
    [s EXCEPT !.pools = [p \in Peers |-> IF p \in s.peers /\ p # keep
                                         THEN PoolRemove(s.pools[p], t) ELSE s.pools[p]]]

(* server_update_identity_pool                                              *)
(* Defect: identity_listener_contains is not asked.                         *)
UpdateIdentityPoolBlind(s, t, claim) ==
    IF claim \notin s.peers THEN PoolsRemoveExcept(s, t, "none")
    ELSE [PoolsRemoveExcept(s, t, claim) EXCEPT !.pools[claim] = Append(@, t)]
UpdateIdentityPool(s, t, claim) ==
    IF claim \notin s.peers THEN PoolsRemoveExcept(s, t, "none")
    ELSE IF t \in PoolOf(s, claim) THEN PoolsRemoveExcept(s, t, claim)
    ELSE [PoolsRemoveExcept(s, t, claim) EXCEPT !.pools[claim] = Append(@, t)]

(* The accepted table or the mux_connect slot                               *)
Unlist(s, t, accepted) ==
    IF accepted THEN [s EXCEPT !.acc = @ \ {t}]
    ELSE IF s.muxt = t THEN [s EXCEPT !.muxt = 0] ELSE s
ClearSlot(s, t) == [s EXCEPT !.slots = [i \in DOMAIN @ |-> IF @[i] = t THEN 0 ELSE @[i]]]

(* The removal of server_remove_and_close_tunnel, of                        *)
(* identity_listener_discard and of server_force_close_snapshot             *)
UnlistAll(s, t, a) == ClearSlot(PoolsRemoveExcept(Unlist(s, t, a), t, "none"), t)
UnlistPooled(s, t, a) == ClearSlot(Unlist(s, t, a), t)
UnlistSwept(s, t, a) == IF a THEN Unlist(s, t, a) ELSE s

(* server_sweep_is_live                                                     *)
(* Defect: a snapshot entry is trusted although a close ran in between.     *)
SweepTrusts(s, t) == TRUE
SweepIsLive(s, t) == IF s.live.on THEN t \in s.live.s ELSE t \in Registered(s)

(* identity_listener_pick and accepted_tunnels_pick: an established tunnel  *)
(* when there is one                                                        *)
Pick(n, c) ==
    IF \E t \in c : n[t].ss = "ESTABLISHED" THEN {t \in c : n[t].ss = "ESTABLISHED"} ELSE c

(* server_pick_local                                                        *)
PickLocal(s, n) == IF s.muxt # 0 THEN {s.muxt} ELSE Pick(n, s.acc)
PickFor(s, n, key) == IF key = "listen" THEN PickLocal(s, n) ELSE Pick(n, PoolOf(s, key))

-----------------------------------------------------------------------------
(* Stack, timers and rings                                                  *)

Push(s, f) == [s EXCEPT !.stack = <<f>> \o @]
Pop(s) == [s EXCEPT !.stack = Tail(@)]
Top == Head(srv.stack)
OnTop(f) == srv.stack # <<>> /\ Top.f = f

(* The loop is about to wait for events.                                    *)
Idle == srv.stack = <<>> /\ srv.halt = "run"

(* server_maintenance_kick                                                  *)
Kick(s) == IF s.down THEN s ELSE [s EXCEPT !.maint = TRUE]

(* dispatcher_invoke on a tunnel's ring: a full ring refuses the task.      *)
Room(n, t) == Len(n[t].tasks) < TaskCap
PostTo(n, t, k) == IF Room(n, t) THEN [n EXCEPT ![t].tasks = Append(@, k)] ELSE n

(* server_for_each_tunnel with a task of the same kind for each             *)
PostAll(n, c, k) == [t \in Tuns |-> IF t \in c THEN PostTo(n, t, k)[t] ELSE n[t]]

(* Dispatches that each carry a hold on a PSK table, m[t] for tunnel t; a   *)
(* refused one gives its hold back.                                         *)
PostHeld(w, m) ==
    LET sent == {t \in DOMAIN m : Room(w.n, t)} IN
    [w EXCEPT !.n = [t \in Tuns |-> IF t \in sent THEN PostTo(@, t, m[t])[t] ELSE @[t]],
              !.s.holds = [p \in Tables |-> @[p] + Cardinality({t \in sent : m[t].psk = p})]]

(* psk_table_held: dispatches, and the TLS contexts built with the table    *)
(* Defect: the dispatches still in a ring are not counted.                  *)
HeldTablesBuilt(s, n) == {p \in Tables : \E t \in Tuns : n[t].ctx = p}
HeldTables(s, n) ==
    {p \in Tables : s.holds[p] > 0 \/ \E t \in Tuns : n[t].ctx = p}

-----------------------------------------------------------------------------
(* Creating tunnels                                                         *)

FreeId(n) == IF \E t \in Tuns : n[t].life = "none"
             THEN CHOOSE t \in Tuns : n[t].life = "none" /\ \A u \in 1 .. t - 1 : n[u].life # "none"
             ELSE 0

(* server_reserve_session's test                                            *)
HasCapacity(s) == s.limit = 0 \/ s.used < s.limit

(* server_new_client_tunnel and tunnel_start: 0 when the tunnel could not   *)
(* be created, or its thread not started (`th').                            *)
CanDial(w, th) == FreeId(w.n) # 0 /\ HasCapacity(w.s) /\ th
Dialed(w, addr) ==
    [w EXCEPT !.n[FreeId(w.n)] = StartTunnel(NewTunnel(addr, Confs[w.s.conf].idle, w.s.psk)),
              !.s.used = @ + 1]

(* server_ensure_mux_tunnel                                                 *)
EnsureMuxTunnel(w, th) ==
    IF w.s.muxt # 0 \/ Confs[w.s.conf].mux = 0 THEN w
    ELSE IF CanDial(w, th)
    THEN [Dialed(w, Confs[w.s.conf].mux) EXCEPT !.s.muxt = FreeId(w.n)]
    ELSE [w EXCEPT !.s = Kick(@)]

(* server_start_identity_tunnel                                             *)
(* Defect: a slot that could not be dialed arms nothing.                    *)
StartIdentityTunnelQuiet(w, i, th) ==
    IF w.s.slots[i] # 0 THEN w
    ELSE IF CanDial(w, th)
    THEN [Dialed(w, Confs[w.s.conf].ids[i]) EXCEPT !.s.slots[i] = FreeId(w.n)]
    ELSE w
StartIdentityTunnel(w, i, th) ==
    IF w.s.slots[i] # 0 THEN w
    ELSE IF CanDial(w, th)
    THEN [Dialed(w, Confs[w.s.conf].ids[i]) EXCEPT !.s.slots[i] = FreeId(w.n)]
    ELSE [w EXCEPT !.s = Kick(@)]

(* server_reload_identity_tunnels: the array only grows.                    *)
ExtendSlots(w) ==
    [w EXCEPT !.s.slots = [i \in 1 .. Max({Len(@), Len(Confs[w.s.conf].ids)}) |->
                               IF i <= Len(@) THEN @[i] ELSE 0]]
SlotRun(w, th) ==
    LET run[i \in 0 .. Len(Confs[w.s.conf].ids)] ==
            IF i = 0 THEN ExtendSlots(w) ELSE StartIdentityTunnel(run[i - 1], i, th)
    IN run
ReloadIdentityTunnels(w, th) == SlotRun(w, th)[Len(Confs[w.s.conf].ids)]

(* Whether maintenance has something left to dial                           *)
SlotsWanting(s) ==
    \/ s.muxt = 0 /\ Confs[s.conf].mux # 0
    \/ \E i \in 1 .. Len(Confs[s.conf].ids) : i > Len(s.slots) \/ s.slots[i] = 0
=============================================================================
