---------------------------- MODULE DaemonProofs ----------------------------
(* That the server listens where the configuration in force says, for any   *)
(* number of tunnels, peers and configurations and any sequence of reloads. *)
EXTENDS DaemonLemmas

(* The sweeps that close several tunnels                                    *)
LEMMA SweepGood ==
    ASSUME Good(srv, left), Sweep \/ CloseOneByOne
    PROVE  Good(srv', left')
<1>0. IsServer(srv) /\ IsLeft(left) /\ StackOk(srv.stack)
    BY DEF Good
<1>l. Spent(left, left')
    <2>1. UNCHANGED left
        BY DEF Sweep, CloseOneByOne
    <2> QED
        BY <1>0, <2>1, LeftSpent
<1> SUFFICES Moves(srv, srv')
    BY <1>l, GoodMoves
(* A tunnel that u no longer lists begins to close.                         *)
<1>c. ASSUME NEW u, Moves(srv, u), NEW t, NEW w, w = [World EXCEPT !.s = u],
             Become(BeginClose(w, t))
      PROVE  Moves(srv, srv')
    <2>1. w.s = u /\ IsWorld(w) /\ StackOk(w.s.stack) /\ w.s.halt # "new"
        BY <1>c DEF World, IsWorld, Moves
    <2>2. PICK v : v = BeginClose(w, t)
        OBVIOUS
    <2>3. Moves(w.s, v.s)
        BY <2>1, <2>2, BeginCloseIs
    <2>4. srv' = v.s
        BY <1>c, <2>2 DEF Become
    <2> QED
        BY <1>c, <2>1, <2>3, <2>4, MovesOn
<1>1. CASE Sweep
    <2>0. srv.stack # <<>> /\ Head(srv.stack).f = "sweep" /\ srv.halt # "new"
        BY <1>1, OnTopIs DEF Sweep
    <2>1. CASE Top.rest = {}
        <3>1. PICK q : q = SweepEnd(srv)
            OBVIOUS
        <3>2. srv' = Pop(q)
            BY <1>1, <2>1, <3>1 DEF Sweep, Become, World
        <3>3. Steady(srv, q) /\ IsServer(q) /\ q.stack = srv.stack /\ q.halt = srv.halt
            BY <1>0, <3>1 DEF SweepEnd, Steady, IsServer, ServerFields
        <3>4. Moves(srv, q)
            BY <2>0, <3>3, SteadyMoves
        <3>5. Moves(q, srv')
            BY <1>0, <2>0, <3>2, <3>3, PopMoves
        <3> QED
            BY <3>4, <3>5, MovesOn
    <2>2. CASE Top.rest # {}
        <3>1. PICK t \in Top.rest :
                 LET w == [World EXCEPT !.s = Visited(@, t)]
                 IN IF ~SweepIsLive(srv, t) THEN Become(w)
                    ELSE IF tun[t].life = "freed" THEN Become([w EXCEPT !.s.bad = TRUE])
                    ELSE /\ MayUnlist(t)
                         /\ Become(BeginClose([w EXCEPT !.s = Unregister(@, t, tun[t].accepted)], t))
            BY <1>1, <2>2 DEF Sweep
        <3>2. PICK r : r = Visited(srv, t)
            OBVIOUS
        <3>3. Moves(srv, r)
            <4>1. PICK S : srv.stack \in Seq(S)
                BY <1>0 DEF StackOk
            <4>2. 1 \in DOMAIN srv.stack /\ 1 \in 1 .. Len(srv.stack) /\ Head(srv.stack) = srv.stack[1]
                BY <2>0, <4>1
            <4>3. PICK fr : fr = [srv.stack[1] EXCEPT !.rest = @ \ {t}]
                BY Zenon
            <4>4. IsFrame(srv.stack[1])
                BY <1>0, <4>2 DEF StackOk
            <4>5. DOMAIN fr = DOMAIN srv.stack[1] /\ fr.f = srv.stack[1].f /\ srv.stack[1].f # "apply"
                BY <2>0, <4>2, <4>3, <4>4 DEF IsFrame
            <4>6. PICK q, p : q = srv.stack /\ p = [q EXCEPT ![1] = fr]
                BY Zenon
            <4>s. StackOk(q) /\ q # <<>> /\ Retopped(q, p)
                BY <1>0, <2>0, <4>5, <4>6, Zenon DEF Retopped
            <4>r. StackOk(p) /\ InForce(p, srv.conf) = InForce(q, srv.conf) /\ p # <<>>
                  /\ (NoStop(q) => NoStop(p))
                BY <4>s, TopStack
            <4>7. StackOk(p) /\ InForce(p, srv.conf) = InForce(srv.stack, srv.conf) /\ p # <<>>
                  /\ (NoStop(srv.stack) => NoStop(p))
                BY <4>6, <4>r
            <4>8. IsServer(r) /\ r.conf = srv.conf /\ r.halt = srv.halt /\ r.down = srv.down
                  /\ r.bound = srv.bound /\ r.stack = p
                BY <1>0, <3>2, <4>3, <4>6 DEF Visited, IsServer, ServerFields
            <4> QED
                BY <2>0, <4>7, <4>8 DEF Moves, Serving
        <3>4. CASE srv' = r
            BY <3>3, <3>4
        <3>5. CASE srv' = [r EXCEPT !.bad = TRUE]
            <4>1. Steady(r, srv')
                BY <3>3, <3>5 DEF Moves, Steady, IsServer, ServerFields
            <4>2. Moves(r, srv')
                BY <3>3, <4>1 DEF Steady, Moves, Serving
            <4> QED
                BY <3>3, <4>2, MovesOn
        <3>6. CASE Become(BeginClose([World EXCEPT !.s = Unregister(r, t, tun[t].accepted)], t))
            <4>1. PICK u : u = Unregister(r, t, tun[t].accepted)
                OBVIOUS
            <4>2. Steady(r, u)
                BY <3>3, <4>1, UnlistAllSteady DEF Moves
            <4>3. Moves(r, u)
                BY <3>3, <4>2 DEF Steady, Moves, Serving
            <4>4. Moves(srv, u)
                BY <3>3, <4>3, MovesOn
            <4> QED
                BY <1>c, <3>6, <4>1, <4>4
        <3> QED
            BY <3>1, <3>2, <3>4, <3>5, <3>6, Zenon DEF Become, World
    <2> QED
        BY <2>1, <2>2
<1>2. CASE CloseOneByOne
    <2>0. srv.stack # <<>> /\ Head(srv.stack).f = "one" /\ srv.halt # "new"
        BY <1>2, OnTopIs DEF CloseOneByOne
    <2>1. CASE NoneLive(srv)
        <3>1. srv' = Pop(srv)
            BY <1>2, <2>1 DEF CloseOneByOne, Become, World
        <3> QED
            BY <1>0, <2>0, <3>1, PopMoves
    <2>2. CASE ~NoneLive(srv)
        <3>1. PICK t : Become(BeginClose([World EXCEPT !.s = UnlistAll(srv, t, tun[t].accepted)], t))
            BY <1>2, <2>2 DEF CloseOneByOne, World
        <3>2. PICK u : u = UnlistAll(srv, t, tun[t].accepted)
            OBVIOUS
        <3>3. Steady(srv, u)
            BY <1>0, <3>2, UnlistAllSteady
        <3>4. Moves(srv, u)
            BY <2>0, <3>3, SteadyMoves
        <3> QED
            BY <1>c, <3>1, <3>2, <3>4
    <2> QED
        BY <2>1, <2>2
<1> QED
    BY <1>1, <1>2

(* The end of the server                                                    *)
LEMMA StopGood ==
    ASSUME Good(srv, left), \/ SignalTerm \/ Stop \/ StopServing \/ StopTunnels \/ StopDone
    PROVE  Good(srv', left')
<1>0. IsServer(srv) /\ IsLeft(left) /\ StackOk(srv.stack)
    BY DEF Good
(* A server that does not serve owes nothing to the listeners.              *)
<1>q. ASSUME NEW q, IsServer(q), q.conf = srv.conf, q.stack = srv.stack,
             q.halt # "new", ~Serving(q)
      PROVE  Moves(srv, q)
    BY <1>0, <1>q DEF Moves
<1>p. ASSUME NEW q, Moves(srv, q), NEW fr, "f" \in DOMAIN fr, fr.f # "apply",
             fr.f # "stop1" \/ ~Serving(q)
      PROVE  Moves(srv, Push(q, fr))
    <2>1. IsServer(q) /\ StackOk(q.stack) /\ q.halt # "new"
        BY <1>p DEF Moves
    <2>2. Moves(q, Push(q, fr))
        BY <1>p, <2>1, PushMoves
    <2> QED
        BY <1>p, <2>2, MovesOn
<1>1. CASE SignalTerm
    <2>1. PICK q : q = [StopListening(srv) EXCEPT !.down = TRUE]
        BY Zenon
    <2>2. srv' = Terminate(q)
        BY <1>1, <2>1 DEF SignalTerm, Become, World
    <2>3. IsServer(q) /\ q.conf = srv.conf /\ q.stack = srv.stack /\ q.halt = srv.halt /\ q.down = TRUE
        BY <1>0, <2>1 DEF StopListening, IsServer, ServerFields
    <2>4. IsServer(srv') /\ srv'.conf = srv.conf /\ srv'.stack = srv.stack
          /\ srv'.halt \in {srv.halt, "break"} /\ srv'.down = TRUE
        BY <2>2, <2>3 DEF Terminate, IsServer, ServerFields
    <2>5. srv.halt = "run"
        BY <1>1 DEF SignalTerm, Idle
    <2>6. Moves(srv, srv')
        BY <1>q, <2>4, <2>5 DEF Serving
    <2>7. Spent(left, left')
        BY <1>0, <1>1, PaySpent DEF SignalTerm
    <2> QED
        BY <2>6, <2>7, GoodMoves
<1>2. CASE Stop
    <2>1. PICK q, f1, f2 : q = Stopping(srv) /\ f1 = [f |-> "stop1"] /\ f2 = [f |-> "tick"]
        BY Zenon
    <2>2. srv' = Push(Push(q, f1), f2)
        BY <1>2, <2>1 DEF Stop, Become, World
    <2>3. IsServer(q) /\ q.conf = srv.conf /\ q.stack = srv.stack /\ q.halt = "stop"
        BY <1>0, <2>1 DEF Stopping, IsServer, ServerFields
    <2>4. Moves(srv, q)
        BY <1>q, <2>3 DEF Serving
    <2>5. "f" \in DOMAIN f1 /\ f1.f # "apply" /\ "f" \in DOMAIN f2 /\ f2.f # "apply" /\ f2.f # "stop1"
        BY <2>1
    <2>6. Moves(srv, Push(q, f1))
        BY <1>p, <2>3, <2>4, <2>5 DEF Serving
    <2>7. Moves(srv, srv')
        BY <1>p, <2>2, <2>5, <2>6
    <2>8. Spent(left, left')
        BY <1>0, <1>2, LeftSpent DEF Stop
    <2> QED
        BY <2>7, <2>8, GoodMoves
<1>3. CASE StopServing
    <2>0. srv.stack # <<>> /\ Head(srv.stack).f = "stop1" /\ srv.halt # "new"
        BY <1>3, OnTopIs DEF StopServing
    <2>1. PICK q, f1, f2 : q = StopListening(srv) /\ f1 = [f |-> "stop2"] /\ f2 = [f |-> "tick"]
        BY Zenon
    <2>2. srv' = Push(Push(Pop(q), f1), f2)
        BY <1>3, <2>1 DEF StopServing, Become, World
    <2>3. IsServer(q) /\ q.conf = srv.conf /\ q.stack = srv.stack /\ q.halt = srv.halt /\ q.down = srv.down
        BY <1>0, <2>1 DEF StopListening, IsServer, ServerFields
    <2>n. ~Serving(srv)
        <3>1. NoStop(srv.stack) => Head(srv.stack).f # "stop1"
            BY <1>0, <2>0, PopStack, Zenon
        <3> QED
            BY <2>0, <3>1 DEF Good
    <2>4. Moves(srv, q)
        BY <1>q, <2>0, <2>3, <2>n DEF Serving
    <2>5. /\ "f" \in DOMAIN f1 /\ f1.f # "apply" /\ f1.f # "stop1"
          /\ "f" \in DOMAIN f2 /\ f2.f # "apply" /\ f2.f # "stop1"
        BY <2>1
    <2>6. Moves(q, Pop(q))
        BY <1>0, <2>0, <2>3, PopMoves
    <2>7. Moves(srv, Pop(q))
        BY <2>4, <2>6, MovesOn
    <2>8. Moves(srv, Push(Pop(q), f1))
        BY <1>p, <2>5, <2>7
    <2>9. Moves(srv, srv')
        BY <1>p, <2>2, <2>5, <2>8
    <2>10. Spent(left, left')
        BY <1>0, <1>3, LeftSpent DEF StopServing
    <2> QED
        BY <2>9, <2>10, GoodMoves
<1>s. ASSUME NEW q, Moves(srv, q), NEW c, NEW mem PROVE Moves(srv, SweepBegin(q, c, mem))
    <2>1. PICK p, fr : /\ p = [q EXCEPT !.live = [on |-> mem /\ c # {}, s |-> IF mem THEN c ELSE {}]]
                       /\ fr = [f |-> "sweep", rest |-> c]
        BY Zenon
    <2>2. Moves(srv, p)
        BY <1>s, <2>1 DEF Moves, IsServer, ServerFields, Serving
    <2>3. "f" \in DOMAIN fr /\ fr.f # "apply" /\ fr.f # "stop1"
        BY <2>1
    <2> QED
        BY <1>p, <2>1, <2>2, <2>3 DEF SweepBegin
<1>4. CASE StopTunnels
    <2>0. srv.stack # <<>> /\ Head(srv.stack).f = "stop2" /\ srv.halt # "new"
        BY <1>4, OnTopIs DEF StopTunnels
    <2>1. PICK q, f1, f2 : q = Pop(srv) /\ f1 = [f |-> "stop3"] /\ f2 = [f |-> "one"]
        BY Zenon
    <2>2. PICK p : p = Push(q, f1)
        OBVIOUS
    <2>3. (\E mem : srv' = SweepBegin(p, Registered(srv), mem)) \/ srv' = Push(p, f2)
        BY <1>4, <2>1, <2>2 DEF StopTunnels, Become, World
    <2>4. /\ "f" \in DOMAIN f1 /\ f1.f # "apply" /\ f1.f # "stop1"
          /\ "f" \in DOMAIN f2 /\ f2.f # "apply" /\ f2.f # "stop1"
        BY <2>1
    <2>5. Moves(srv, q)
        BY <1>0, <2>0, <2>1, PopMoves
    <2>6. Moves(srv, p)
        BY <1>p, <2>2, <2>4, <2>5
    <2>7. Moves(srv, srv')
        BY <1>p, <1>s, <2>3, <2>4, <2>6
    <2>8. Spent(left, left')
        BY <1>0, <1>4, PaySpent DEF StopTunnels
    <2> QED
        BY <2>7, <2>8, GoodMoves
<1>5. CASE StopDone
    <2>0. srv.stack # <<>> /\ Head(srv.stack).f = "stop3" /\ srv.halt # "new"
        BY <1>5, OnTopIs DEF StopDone
    <2>1. PICK q : q = Emptied(srv)
        OBVIOUS
    <2>2. srv' = Pop(q)
        BY <1>5, <2>1 DEF StopDone, Become, World
    <2>3. IsServer(q) /\ q.conf = srv.conf /\ q.stack = srv.stack /\ q.halt = "stopped"
        BY <1>0, <2>1 DEF Emptied, IsServer, ServerFields
    <2>4. Moves(srv, q)
        BY <1>q, <2>3 DEF Serving
    <2>5. Moves(q, srv')
        BY <1>0, <2>0, <2>2, <2>3, PopMoves
    <2>6. Moves(srv, srv')
        BY <2>4, <2>5, MovesOn
    <2>7. Spent(left, left')
        BY <1>0, <1>5, LeftSpent DEF StopDone
    <2> QED
        BY <2>6, <2>7, GoodMoves
<1> QED
    BY <1>1, <1>2, <1>3, <1>4, <1>5

(* server_start                                                             *)
LEMMA StartGood ==
    ASSUME Good(srv, left), ServerStart
    PROVE  Good(srv', left')
<1>0. IsServer(srv) /\ IsLeft(left) /\ StackOk(srv.stack) /\ srv.conf \in DOMAIN Confs
      /\ srv.stack = <<>> /\ srv.halt = "new"
    BY DEF Good, ServerStart
<1>1. PICK fail \in {"none", "mux", "ids"} :
        /\ Pay([nothread |-> Unless(fail = "none")])
        /\ IF ~StartTop.ok \/ fail = "mux"
           THEN Become([World EXCEPT !.s = Started(@, StartTop.bound, "break")])
           ELSE IF ~StartIds.ok \/ fail = "ids"
           THEN Become([EnsureMuxTunnel(World, TRUE) EXCEPT
                            !.s = Started(@, StartIds.bound, "break")])
           ELSE Become(ReloadIdentityTunnels(EnsureMuxTunnel(
                    [World EXCEPT !.s = Started(@, StartIds.bound, "run")], TRUE), TRUE))
    BY Zenon DEF ServerStart
<1>l. Spent(left, left')
    BY <1>0, <1>1, PaySpent
<1>2. IsWorld(World) /\ World.s = srv
    BY <1>0 DEF World, IsWorld
<1>3. ASSUME NEW s, Steady(srv, s), NEW bound, srv' = Started(s, bound, "break")
      PROVE  Good(srv', left')
    <2>1. IsServer(srv') /\ srv'.halt = "break" /\ srv'.conf = srv.conf /\ srv'.stack = srv.stack
        BY <1>3 DEF Steady, Started, IsServer, ServerFields
    <2>2. Moves(srv, srv')
        BY <1>0, <2>1 DEF Moves, Serving
    <2> QED
        BY <1>l, <2>2, GoodMoves
<1>4. CASE ~StartTop.ok \/ fail = "mux"
    <2>1. srv' = Started(srv, StartTop.bound, "break")
        BY <1>1, <1>4, Zenon DEF Become, World
    <2>2. Steady(srv, srv)
        BY <1>0 DEF Steady
    <2> QED
        BY <1>3, <2>1, <2>2
<1>5. CASE ~(~StartTop.ok \/ fail = "mux") /\ (~StartIds.ok \/ fail = "ids")
    <2>1. PICK v : v = EnsureMuxTunnel(World, TRUE)
        OBVIOUS
    <2>2. SteadyWorld(World, v)
        BY <1>2, <2>1, EnsureWorld, Zenon
    <2>3. srv' = Started(v.s, StartIds.bound, "break")
        BY <1>1, <1>5, <2>1, <2>2, Zenon DEF Become, SteadyWorld, IsWorld
    <2>4. Steady(srv, v.s)
        BY <1>2, <2>2 DEF SteadyWorld
    <2> QED
        BY <1>3, <2>3, <2>4
<1>6. CASE ~(~StartTop.ok \/ fail = "mux") /\ ~(~StartIds.ok \/ fail = "ids")
    <2>1. PICK new, taken, t, s : /\ new = Conf.lst /\ taken = left.taken
                                  /\ t = StartTop /\ s = StartIds
        OBVIOUS
    <2>2. Resolvable(new)
        BY <1>0, <2>1, ConfsAssumption DEF Conf, Resolvable
    <2>3. t = StartListeners(ReloadOf(StopListeners), TopKeys, new, taken)
          /\ s = StartListeners(t, PeerSeq, new, taken)
        BY <2>1 DEF StartTop, StartIds
    <2>4. t.ok \in BOOLEAN /\ s.ok \in BOOLEAN
        BY <2>2, <2>3, StartTyped, Zenon DEF IsReload
    <2>5. GoesOn(t) /\ GoesOn(s)
        BY <1>6, <2>1, <2>4 DEF GoesOn
    <2>6. Settled(s.bound, new, taken)
        BY <2>2, <2>3, <2>5, StartsSettled
    <2>7. PICK q, w : q = Started(srv, StartIds.bound, "run") /\ w = [World EXCEPT !.s = q]
        BY Zenon
    <2>8. IsServer(q) /\ q.halt = "run" /\ q.conf = srv.conf /\ q.stack = <<>> /\ q.bound = s.bound
        BY <1>0, <2>1, <2>7 DEF Started, IsServer, ServerFields
    <2>9. IsWorld(w) /\ w.s = q
        BY <2>7, <2>8 DEF World, IsWorld
    <2>10. PICK v, u : v = EnsureMuxTunnel(w, TRUE) /\ u = ReloadIdentityTunnels(v, TRUE)
        OBVIOUS
    <2>11. SteadyWorld(w, v)
        BY <2>9, <2>10, EnsureWorld, Zenon
    <2>12. IsWorld(v) /\ v.s.conf \in DOMAIN Confs
        BY <1>0, <2>8, <2>9, <2>11 DEF SteadyWorld, Steady
    <2>13. SteadyWorld(v, u)
        BY <2>10, <2>12, SlotsWorld, Zenon
    <2>14. SteadyWorld(w, u)
        BY <2>11, <2>13, SteadyWorldTrans
    <2>15. srv' = u.s
        BY <1>1, <1>6, <2>7, <2>10, Zenon DEF Become, World
    <2>16. Steady(q, srv')
        BY <2>9, <2>14, <2>15 DEF SteadyWorld
    <2>17. Good(q, left)
        <3>1. InForce(q.stack, q.conf) = srv.conf /\ NoStop(q.stack)
            BY <2>8 DEF InForce, NoStop
        <3>2. StackOk(q.stack)
            BY <1>0, <2>8
        <3> QED
            BY <1>0, <2>1, <2>6, <2>8, <3>1, <3>2 DEF Good, Conf
    <2> QED
        BY <1>l, <2>16, <2>17, GoodSteady
<1> QED
    BY <1>4, <1>5, <1>6

(* server_reload                                                            *)
LEMMA ReloadGood ==
    ASSUME Good(srv, left), Reload
    PROVE  Good(srv', left')
<1>0. IsServer(srv) /\ IsLeft(left) /\ StackOk(srv.stack) /\ srv.conf \in DOMAIN Confs
      /\ srv.stack = <<>> /\ srv.halt = "run"
    BY DEF Good, Reload, Idle
<1>1. PICK c, r : c = Head(left.reloads) /\ r = ApplyListeners(srv.bound, Conf.lst, Confs[c].lst, left.taken)
    OBVIOUS
<1>2. left.reloads # <<>> /\ left' = [left EXCEPT !.reloads = Tail(@)]
      /\ IF srv.down THEN UNCHANGED <<srv, tun, fds>>
         ELSE IF ~r.ok THEN Become([World EXCEPT !.s.bound = r.bound])
         ELSE ~Pinned /\ Become([World EXCEPT !.s = TakeIdentities(Listening(@, r.bound), c)])
    BY <1>1 DEF Reload
<1>3. c \in DOMAIN Confs
    BY <1>0, <1>1, <1>2 DEF IsLeft
<1>l. Spent(left, left')
    BY <1>0, <1>2 DEF IsLeft, LeftFields, Spent
<1>4. CASE srv.down
    <2>1. Steady(srv, srv')
        BY <1>0, <1>2, <1>4, Zenon DEF Steady
    <2> QED
        BY <1>l, <2>1, GoodSteady
<1>5. CASE ~srv.down
    <2>1. PICK b, old, new, taken : /\ b = srv.bound /\ old = Conf.lst /\ new = Confs[c].lst
                                    /\ taken = left.taken
        OBVIOUS
    <2>2. Settled(b, old, taken)
        BY <1>0, <1>5, <2>1 DEF Good, Serving, InForce, Conf
    <2>3. Resolvable(new)
        BY <1>3, <2>1, ConfsAssumption DEF Resolvable
    <2>4. r = ApplyListeners(b, old, new, taken)
        BY <1>1, <2>1
    <2>5. AllOrNothing(r, b, new, taken)
        BY <2>2, <2>3, <2>4, ReloadAllOrNothing
    <2>6. CASE ~r.ok
        <3>1. r.bound = b
            BY <2>5, <2>6 DEF GoesOn, AllOrNothing
        <3>2. srv' = [srv EXCEPT !.bound = r.bound]
            BY <1>2, <1>5, <2>6 DEF Become, World
        <3>3. Steady(srv, srv')
            BY <1>0, <2>1, <3>1, <3>2 DEF Steady, IsServer, ServerFields
        <3> QED
            BY <1>l, <3>3, GoodSteady
    <2>7. CASE ~~r.ok
        <3>1. GoesOn(r) /\ Settled(r.bound, new, taken)
            BY <2>5, <2>7 DEF GoesOn, AllOrNothing
        <3>2. PICK q : q = Listening(srv, r.bound)
            OBVIOUS
        <3>3. srv' = TakeIdentities(q, c)
            BY <1>2, <1>5, <2>7, <3>2 DEF Become, World
        <3>4. IsServer(q) /\ q.bound = r.bound /\ q.halt = "run" /\ q.down = srv.down
              /\ q.stack = <<>> /\ q.conf = srv.conf
            BY <1>0, <3>2 DEF Listening, IsServer, ServerFields
        <3>5. PICK fr : fr = [f |-> "apply", c |-> c, todo |-> Pools(c)]
            BY Zenon
        <3>6. IsServer(srv') /\ srv'.bound = r.bound /\ srv'.halt = "run" /\ srv'.down = srv.down
              /\ srv'.stack = <<fr>> \o <<>> /\ srv'.conf = srv.conf
            BY <3>3, <3>4, <3>5, Zenon DEF TakeIdentities, Push, IsServer, ServerFields
        <3>7. PICK p : p = <<fr>>
            BY Zenon
        <3>8. srv'.stack = p /\ p \in Seq({fr}) /\ Len(p) = 1 /\ p[1] = fr /\ p # <<>>
            BY <3>6, <3>7
        <3>9. IsFrame(fr) /\ fr.f = "apply" /\ fr.c = c
            BY <1>3, <3>5 DEF IsFrame
        <3>10. StackOk(p) /\ InForce(p, srv.conf) = c /\ NoStop(p)
            BY <3>8, <3>9 DEF StackOk, InForce, NoStop
        <3> QED
            BY <1>0, <1>l, <2>1, <3>1, <3>6, <3>8, <3>10 DEF Good, Spent
    <2> QED
        BY <2>6, <2>7
<1> QED
    BY <1>4, <1>5

(* The removal of peers and the rest of server_apply_config                 *)
LEMMA ApplyGood ==
    ASSUME Good(srv, left), DiscardPeer \/ ApplyConf
    PROVE  Good(srv', left')
<1>0. IsServer(srv) /\ IsLeft(left) /\ StackOk(srv.stack) /\ srv.conf \in DOMAIN Confs
    BY DEF Good
<1>o. srv.stack # <<>> /\ Head(srv.stack).f = "apply" /\ srv.halt # "new"
    BY OnTopIs DEF DiscardPeer, ApplyConf
<1>1. CASE DiscardPeer
    <2>1. PICK c, mem : srv' = SweepBegin(Discarded(srv, c), c, mem)
        BY <1>1 DEF DiscardPeer, Become, World
    <2>2. PICK r : r = Discarded(srv, c)
        OBVIOUS
    <2>3. Moves(srv, r)
        <3>1. PICK S : srv.stack \in Seq(S)
            BY <1>0 DEF StackOk
        <3>2. 1 \in DOMAIN srv.stack /\ 1 \in 1 .. Len(srv.stack) /\ Head(srv.stack) = srv.stack[1]
            BY <1>o, <3>1
        <3>3. PICK fr : fr = [srv.stack[1] EXCEPT !.todo = @ \ {c}]
            BY Zenon
        <3>4. IsFrame(srv.stack[1])
            BY <1>0, <3>2 DEF StackOk
        <3>5. DOMAIN fr = DOMAIN srv.stack[1] /\ fr.f = srv.stack[1].f /\ fr.c = srv.stack[1].c
            BY <1>o, <3>2, <3>3, <3>4 DEF IsFrame
        <3>6. PICK q, p : q = srv.stack /\ p = [q EXCEPT ![1] = fr]
            BY Zenon
        <3>7. StackOk(q) /\ q # <<>> /\ Retopped(q, p)
            BY <1>0, <1>o, <3>5, <3>6, Zenon DEF Retopped
        <3>8. StackOk(p) /\ InForce(p, srv.conf) = InForce(q, srv.conf) /\ p # <<>>
              /\ (NoStop(q) => NoStop(p))
            BY <3>7, TopStack
        <3>9. IsServer(r) /\ r.conf = srv.conf /\ r.halt = srv.halt /\ r.down = srv.down
              /\ r.bound = srv.bound /\ r.stack = p
            BY <1>0, <2>2, <3>3, <3>6 DEF Discarded, IsServer, ServerFields
        <3> QED
            BY <1>o, <3>6, <3>8, <3>9 DEF Moves, Serving
    <2>4. PICK p, fr : /\ p = [r EXCEPT !.live = [on |-> mem /\ c # {}, s |-> IF mem THEN c ELSE {}]]
                       /\ fr = [f |-> "sweep", rest |-> c]
        BY Zenon
    <2>5. Moves(srv, p) /\ IsServer(p) /\ StackOk(p.stack) /\ p.halt # "new"
        BY <2>3, <2>4 DEF Moves, IsServer, ServerFields, Serving
    <2>6. "f" \in DOMAIN fr /\ fr.f # "apply" /\ fr.f # "stop1"
        BY <2>4
    <2>7. srv' = Push(p, fr)
        BY <2>1, <2>2, <2>4 DEF SweepBegin
    <2>8. Moves(srv, srv')
        BY <2>5, <2>6, <2>7, PushMoves, MovesOn
    <2>9. Spent(left, left')
        BY <1>0, <1>1, PaySpent DEF DiscardPeer
    <2> QED
        BY <2>8, <2>9, GoodMoves
<1>2. CASE ApplyConf
    <2>1. PICK c : c = Top.c
        OBVIOUS
    <2>2. c \in DOMAIN Confs /\ Tail(srv.stack) = <<>> /\ InForce(srv.stack, srv.conf) = c
        BY <1>0, <1>o, <2>1, PopStack, Zenon DEF Top
    <2>3. PICK mem \in BOOLEAN, th \in BOOLEAN :
             /\ Pay([nomem |-> Unless(mem), nothread |-> Unless(th)])
             /\ LET w == DrainTunnels(World, c, TableOf(srv, c), mem)
                IN Become([ReloadIdentityTunnels(EnsureMuxTunnel(
                               [w EXCEPT !.s = SwapConf(@, c)], th), th)
                           EXCEPT !.s = RetirePsk(SyncUdp(@, Conf), srv.psk)])
        BY <1>2, <2>1, Zenon DEF ApplyConf
    <2>4. PICK w : w = DrainTunnels(World, c, TableOf(srv, c), mem)
        OBVIOUS
    <2>5. SteadyWorld(World, w)
        <3>1. IsWorld(World) /\ SteadyWorld(World, World)
            BY <1>0 DEF World, IsWorld, SteadyWorld, Steady
        <3> QED
            BY <2>4, <3>1, PostWorld DEF DrainTunnels
    <2>6. IsWorld(w) /\ Steady(srv, w.s)
        BY <2>5 DEF SteadyWorld, World
    <2>7. PICK q, x : q = SwapConf(w.s, c) /\ x = [w EXCEPT !.s = q]
        BY Zenon
    <2>8. IsServer(q) /\ q.conf = c /\ q.halt = srv.halt /\ q.down = srv.down /\ q.bound = srv.bound
          /\ q.stack = <<>>
        BY <2>2, <2>6, <2>7 DEF SwapConf, Pop, Steady, IsServer, ServerFields
    <2>9. IsWorld(x) /\ x.s = q
        BY <2>6, <2>7, <2>8 DEF IsWorld
    <2>10. PICK v, u : v = EnsureMuxTunnel(x, th) /\ u = ReloadIdentityTunnels(v, th)
        OBVIOUS
    <2>11. SteadyWorld(x, v)
        BY <2>9, <2>10, EnsureWorld
    <2>12. IsWorld(v) /\ v.s.conf \in DOMAIN Confs
        BY <2>2, <2>8, <2>9, <2>11 DEF SteadyWorld, Steady
    <2>13. SteadyWorld(v, u)
        BY <2>10, <2>12, SlotsWorld
    <2>14. SteadyWorld(x, u)
        BY <2>11, <2>13, SteadyWorldTrans
    <2>15. Steady(q, u.s) /\ IsServer(u.s) /\ IsWorld(u)
        BY <2>9, <2>14 DEF SteadyWorld, Steady
    <2>16. PICK y : y = SyncUdp(u.s, Conf)
        OBVIOUS
    <2>17. Steady(u.s, y) /\ IsServer(y)
        <3>1. Steady(u.s, y)
            BY <2>15, <2>16, RetireSteady
        <3> QED
            BY <3>1 DEF Steady
    <2>18. Steady(y, RetirePsk(y, srv.psk))
        BY <2>17, RetireSteady
    <2>19. srv' = RetirePsk(y, srv.psk)
        BY <2>3, <2>4, <2>7, <2>10, <2>15, <2>16 DEF Become, IsWorld
    <2>20. Steady(q, srv')
        BY <2>15, <2>17, <2>18, <2>19, SteadyTrans
    <2>21. Good(q, left)
        <3>1. InForce(q.stack, q.conf) = c /\ NoStop(q.stack) /\ StackOk(q.stack)
            <4>1. <<>> \in Seq({})
                OBVIOUS
            <4>2. StackOk(<<>>) /\ NoStop(<<>>) /\ InForce(<<>>, c) = c
                BY <4>1 DEF InForce, NoStop, StackOk
            <4> QED
                BY <2>8, <4>2
        <3> QED
            BY <1>0, <2>2, <2>8, <3>1 DEF Good, Serving
    <2>22. Spent(left, left')
        BY <1>0, <2>3, PaySpent
    <2> QED
        BY <2>20, <2>21, <2>22, GoodSteady
<1> QED
    BY <1>1, <1>2

(* maintenance_cb                                                           *)
LEMMA MaintenanceGood ==
    ASSUME Good(srv, left), Maintenance \/ MaintenancePass \/ Rest
    PROVE  Good(srv', left')
<1>0. IsServer(srv) /\ IsLeft(left) /\ StackOk(srv.stack) /\ srv.conf \in DOMAIN Confs
    BY DEF Good
<1>1. CASE Maintenance
    <2>1. PICK fr : fr = [f |-> "maint", idle |-> srv.retired \ HeldTables(srv, tun)]
        BY Zenon
    <2>2. srv' = Push(srv, fr) /\ srv.halt # "new"
        BY <1>1, <2>1 DEF Maintenance, Become, World, Idle
    <2>3. "f" \in DOMAIN fr /\ fr.f # "apply" /\ fr.f # "stop1"
        BY <2>1
    <2>4. Moves(srv, srv')
        BY <1>0, <2>2, <2>3, PushMoves
    <2>5. Spent(left, left')
        BY <1>0, <1>1, LeftSpent DEF Maintenance
    <2> QED
        BY <2>4, <2>5, GoodMoves
<1>2. CASE MaintenancePass
    <2>0. srv.stack # <<>> /\ Head(srv.stack).f = "maint" /\ srv.halt # "new"
        BY <1>2, OnTopIs DEF MaintenancePass
    <2>1. PICK mem \in BOOLEAN, th \in BOOLEAN :
             /\ Pay([nomem |-> Unless(mem), nothread |-> Unless(th)])
             /\ Become([ReloadIdentityTunnels(EnsureMuxTunnel(ReleaseRetired(World, mem), th), th)
                        EXCEPT !.s = Rearm(@)])
        BY <1>2 DEF MaintenancePass
    <2>2. PICK w : w = ReleaseRetired(World, mem)
        OBVIOUS
    <2>3. IsWorld(World) /\ SteadyWorld(World, World)
        BY <1>0 DEF World, IsWorld, SteadyWorld, Steady
    <2>4. SteadyWorld(World, w)
        <3>1. PICK c, y : /\ c = Top.idle \ InUse(World.n, Registered(World.s))
                          /\ y = [World EXCEPT !.s = FreeTables(@, c)]
            BY Zenon
        <3>2. SteadyWorld(World, y) /\ IsWorld(y)
            BY <1>0, <3>1, Zenon DEF World, IsWorld, SteadyWorld, Steady, FreeTables, IsServer, ServerFields
        <3>3. SteadyWorld(y, Reoffer(y))
            BY <3>2, PostWorld DEF Reoffer
        <3>4. SteadyWorld(World, Reoffer(y))
            BY <3>2, <3>3, SteadyWorldTrans
        <3> QED
            BY <2>2, <2>3, <3>1, <3>4 DEF ReleaseRetired
    <2>5. IsWorld(w) /\ Steady(srv, w.s)
        BY <2>4 DEF SteadyWorld, World
    <2>6. PICK v, u : v = EnsureMuxTunnel(w, th) /\ u = ReloadIdentityTunnels(v, th)
        OBVIOUS
    <2>7. SteadyWorld(w, v)
        BY <2>5, <2>6, EnsureWorld
    <2>8. IsWorld(v) /\ v.s.conf \in DOMAIN Confs
        BY <1>0, <2>5, <2>7 DEF SteadyWorld, Steady
    <2>9. SteadyWorld(v, u)
        BY <2>6, <2>8, SlotsWorld
    <2>10. Steady(w.s, v.s) /\ Steady(v.s, u.s) /\ IsWorld(u)
        BY <2>7, <2>9 DEF SteadyWorld
    <2>11. Steady(srv, u.s)
        BY <2>5, <2>10, SteadyTrans
    <2>12. PICK q : q = [u.s EXCEPT !.maint = u.s.retired # {} \/ SlotsWanting(u.s)]
        BY Zenon
    <2>13. Steady(u.s, q)
        BY <2>11, <2>12 DEF Steady, IsServer, ServerFields
    <2>14. Steady(srv, q)
        BY <2>11, <2>13, SteadyTrans
    <2>15. IsServer(q) /\ q.stack = srv.stack /\ q.halt = srv.halt
        BY <2>14 DEF Steady
    <2>16. srv' = Pop(q)
        BY <2>1, <2>2, <2>6, <2>10, <2>12 DEF Become, Rearm, IsWorld
    <2>17. Moves(srv, q)
        BY <2>0, <2>14, SteadyMoves
    <2>18. Moves(q, srv')
        BY <1>0, <2>0, <2>15, <2>16, PopMoves
    <2>19. Moves(srv, srv')
        BY <2>17, <2>18, MovesOn
    <2>20. Spent(left, left')
        BY <1>0, <2>1, PaySpent
    <2> QED
        BY <2>19, <2>20, GoodMoves
<1>3. CASE Rest
    <2>1. Steady(srv, srv') /\ Spent(left, left')
        BY <1>0, <1>3 DEF Rest, vars, Steady, Spent
    <2> QED
        BY <2>1, GoodSteady
<1> QED
    BY <1>1, <1>2, <1>3

-----------------------------------------------------------------------------
LEMMA InitGood == Init => Good(srv, left)
<1> SUFFICES ASSUME Init PROVE Good(srv, left)
    OBVIOUS
<1>1. left \in Scenarios /\ srv = InitServer(left.conf)
    BY DEF Init
<1>2. IsLeft(left) /\ left.conf \in DOMAIN Confs
    BY <1>1, ScenariosAssumption DEF IsLeft, LeftFields
<1>3. IsServer(srv) /\ srv.conf = left.conf /\ srv.halt = "new" /\ srv.stack = <<>>
    BY <1>1 DEF InitServer, IsServer, ServerFields
<1>4. <<>> \in Seq({})
    OBVIOUS
<1>5. StackOk(srv.stack)
    BY <1>3, <1>4 DEF StackOk
<1> QED
    BY <1>2, <1>3, <1>5 DEF Good, Serving

LEMMA NextGood == Good(srv, left) /\ [Next]_vars => Good(srv, left)'
<1> SUFFICES ASSUME Good(srv, left), [Next]_vars PROVE Good(srv', left')
    OBVIOUS
<1>1. CASE LoopStep
    <2>1. CASE ServerStart
        BY <2>1, StartGood
    <2>2. CASE \/ MuxServe \/ SuspendCb \/ Deadline
               \/ \E key \in {"listen"} \cup Peers :
                    UdpServe(key) \/ RouteExpire(key) \/ \E f \in Fds : Serve(key, f)
        BY <2>2, IdleGood
    <2>3. CASE \/ RelayAsync \/ Tick \/ PostTeardown \/ Join \/ FreeTunnel \/ ClosedTail
        BY <2>3, ClosingGood
    <2>4. CASE Sweep \/ CloseOneByOne
        BY <2>4, SweepGood
    <2>5. CASE Reload
        BY <2>5, ReloadGood
    <2>6. CASE DiscardPeer \/ ApplyConf
        BY <2>6, ApplyGood
    <2>7. CASE Maintenance \/ MaintenancePass \/ Rest
        BY <2>7, MaintenanceGood
    <2>8. CASE SignalTerm \/ Stop \/ StopServing \/ StopTunnels \/ StopDone
        BY <2>8, StopGood
    <2> QED
        BY <1>1, <2>1, <2>2, <2>3, <2>4, <2>5, <2>6, <2>7, <2>8 DEF LoopStep
<1>2. CASE \E t \in Tuns : TunnelStep(t)
    BY <1>2, TunnelGood
<1>3. CASE UNCHANGED vars
    BY <1>3 DEF vars
<1> QED
    BY <1>1, <1>2, <1>3 DEF Next

(* Whenever the loop waits for events and no shutdown has begun, the server *)
(* listens where the configuration in force says and nowhere else, whatever *)
(* reloads were applied or refused before and at whichever bind they failed.*)
THEOREM ListenersFollowConf == Spec => []ListenersMatchConf
<1>1. Good(srv, left) => ListenersMatchConf
    <2> SUFFICES ASSUME Good(srv, left), Idle, ~srv.down, NEW k \in LKeys
                 PROVE  srv.bound[k] = AddrOf(Conf.lst[k])
        BY DEF ListenersMatchConf
    <2>1. InForce(srv.stack, srv.conf) = srv.conf /\ Serving(srv)
        BY DEF Idle, InForce, Serving
    <2>2. Serves(srv.bound, Conf.lst)
        BY <2>1 DEF Good, Settled, Conf
    <2> QED
        BY <2>2 DEF Serves
<1> QED
    BY <1>1, InitGood, NextGood, PTL DEF Spec
=============================================================================
