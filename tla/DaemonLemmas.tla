---------------------------- MODULE DaemonLemmas ----------------------------
(* The state the proofs about the daemon speak of, what the server's calls  *)
(* leave alone, and the loop's actions outside a sweep, a start, a stop or a *)
(* reload.                                                                   *)
EXTENDS Daemon, ListenersProofs

ServerFields ==
    {"conf", "muxt", "slots", "peers", "pools", "acc", "used", "limit", "ring", "stack",
     "live", "maint", "down", "halt", "psk", "gen", "retired", "gone", "holds", "routes",
     "bound", "bad"}
LeftFields ==
    {"conf", "reloads", "claims", "moves", "taken", "nodial", "lose", "end", "idle", "resume",
     "accept", "nothread", "open", "dgram", "drop", "term", "nomem"}

IsServer(s) == DOMAIN s = ServerFields
IsLeft(l) == DOMAIN l = LeftFields /\ l.reloads \in Seq(DOMAIN Confs)

-----------------------------------------------------------------------------
(* The loop's stack: a reload is at the bottom of it.                       *)

IsFrame(fr) == "f" \in DOMAIN fr /\ (fr.f = "apply" => "c" \in DOMAIN fr /\ fr.c \in DOMAIN Confs)
StackOk(q) ==
    /\ \E S : q \in Seq(S)
    /\ \A i \in 1 .. Len(q) : IsFrame(q[i]) /\ (q[i].f = "apply" => i = Len(q))

(* The configuration in force: the one a reload under way has bound sockets *)
(* for, or the current one.                                                 *)
InForce(q, c) == IF q # <<>> /\ q[Len(q)].f = "apply" THEN q[Len(q)].c ELSE c

(* server_stop has not begun.                                               *)
NoStop(q) == \A i \in 1 .. Len(q) : q[i].f # "stop1"

LEMMA PushStack ==
    ASSUME NEW q, StackOk(q), NEW fr, "f" \in DOMAIN fr, fr.f # "apply", NEW c,
           NEW p, p = <<fr>> \o q
    PROVE  /\ StackOk(p) /\ InForce(p, c) = InForce(q, c) /\ p # <<>>
           /\ fr.f # "stop1" /\ NoStop(q) => NoStop(p)
<1>1. PICK S : q \in Seq(S)
    BY DEF StackOk
<1>2. q \in Seq(S \cup {fr}) /\ <<fr>> \in Seq(S \cup {fr})
    BY <1>1
<1>3. p \in Seq(S \cup {fr}) /\ Len(p) = Len(q) + 1 /\ p[1] = fr /\ Len(q) \in Nat
      /\ \A i \in 2 .. Len(p) : p[i] = q[i - 1]
    BY <1>2
<1>4. ASSUME NEW i \in 1 .. Len(p) PROVE IsFrame(p[i]) /\ (p[i].f = "apply" => i = Len(p))
    <2>1. CASE i = 1
        BY <1>3, <2>1 DEF IsFrame
    <2>2. CASE i # 1
        <3>1. i \in 2 .. Len(p) /\ i - 1 \in 1 .. Len(q)
            BY <1>3, <2>2
        <3> QED
            BY <1>3, <3>1 DEF StackOk
    <2> QED
        BY <2>1, <2>2
<1>5. InForce(p, c) = InForce(q, c)
    <2>1. CASE q = <<>>
        BY <1>3, <2>1 DEF InForce
    <2>2. CASE q # <<>>
        <3>1. Len(p) \in 2 .. Len(p) /\ p[Len(p)] = q[Len(q)]
            BY <1>1, <1>3, <2>2
        <3> QED
            BY <1>3, <2>2, <3>1 DEF InForce
    <2> QED
        BY <2>1, <2>2
<1>6. ASSUME fr.f # "stop1", NoStop(q), NEW i \in 1 .. Len(p) PROVE p[i].f # "stop1"
    <2>1. CASE i = 1
        BY <1>3, <1>6, <2>1
    <2>2. CASE i # 1
        <3>1. i \in 2 .. Len(p) /\ i - 1 \in 1 .. Len(q)
            BY <1>3, <2>2
        <3> QED
            BY <1>3, <1>6, <3>1 DEF NoStop
    <2> QED
        BY <2>1, <2>2
<1> QED
    BY <1>3, <1>4, <1>5, <1>6 DEF StackOk, NoStop

LEMMA PopStack ==
    ASSUME NEW q, StackOk(q), q # <<>>, NEW c, NEW p, p = Tail(q)
    PROVE  /\ StackOk(p) /\ (NoStop(q) => NoStop(p)) /\ (NoStop(q) => Head(q).f # "stop1")
           /\ Head(q).f # "apply" => InForce(p, c) = InForce(q, c)
           /\ Head(q).f = "apply" => p = <<>> /\ InForce(q, c) = Head(q).c
                                     /\ Head(q).c \in DOMAIN Confs
<1>1. PICK S : q \in Seq(S)
    BY DEF StackOk
<1>2. p \in Seq(S) /\ Len(p) = Len(q) - 1 /\ Len(q) \in Nat /\ Len(q) # 0 /\ Head(q) = q[1]
      /\ Len(p) \in Nat /\ \A i \in 1 .. Len(p) : p[i] = q[i + 1]
    BY <1>1
<1>n. PICK m \in Nat, n \in Nat : m = Len(p) /\ n = Len(q) /\ n = m + 1
    <2>1. Len(p) \in Nat /\ Len(q) \in Nat /\ Len(q) = Len(p) + 1
        <3>1. Len(p) \in Nat /\ Len(q) \in Nat /\ Len(p) = Len(q) - 1
            BY <1>2
        <3> QED
            BY ONLY <3>1
    <2> QED
        BY ONLY <2>1
<1>q. \A i \in 1 .. Len(q) : IsFrame(q[i]) /\ (q[i].f = "apply" => i = Len(q))
    BY DEF StackOk
<1>3. StackOk(p)
    <2>1. ASSUME NEW i \in 1 .. Len(p) PROVE IsFrame(p[i]) /\ (p[i].f = "apply" => i = Len(p))
        <3>1. i + 1 \in 1 .. Len(q) /\ p[i] = q[i + 1]
            BY <1>2
        <3>2. IsFrame(q[i + 1]) /\ (q[i + 1].f = "apply" => i + 1 = Len(q))
            BY <1>q, <3>1
        <3>3. i + 1 = Len(q) => i = Len(p)
            BY <1>n
        <3> QED
            BY <3>1, <3>2, <3>3
    <2> QED
        BY <1>2, <2>1 DEF StackOk
<1>4. ASSUME Head(q).f # "apply" PROVE InForce(p, c) = InForce(q, c)
    <2>1. CASE Len(q) = 1
        BY <1>2, <1>4, <2>1 DEF InForce
    <2>2. CASE Len(q) # 1
        <3>1. Len(p) \in 1 .. Len(p) /\ Len(p) + 1 = Len(q)
            BY <1>2, <2>2
        <3>2. p[m] = q[m + 1] /\ m # 0
            BY <1>2, <1>n, <3>1
        <3>3. p[Len(p)] = q[Len(q)] /\ p # <<>>
            BY <1>n, <3>2
        <3> QED
            BY <1>2, <2>2, <3>3 DEF InForce
    <2> QED
        BY <2>1, <2>2
<1>5. ASSUME Head(q).f = "apply"
      PROVE  p = <<>> /\ InForce(q, c) = Head(q).c /\ Head(q).c \in DOMAIN Confs
    <2>1. 1 \in 1 .. Len(q)
        BY <1>2
    <2>2. IsFrame(q[1]) /\ Len(q) = 1
        BY <1>2, <1>5, <1>q, <2>1
    <2> QED
        BY <1>2, <1>5, <2>2 DEF InForce, IsFrame
<1>6. ASSUME NoStop(q) PROVE NoStop(p) /\ Head(q).f # "stop1"
    <2>1. ASSUME NEW i \in 1 .. Len(p) PROVE p[i].f # "stop1"
        <3>1. i + 1 \in 1 .. Len(q) /\ p[i] = q[i + 1]
            BY <1>2
        <3> QED
            BY <1>6, <3>1 DEF NoStop
    <2>2. 1 \in 1 .. Len(q)
        BY <1>2
    <2> QED
        BY <1>2, <1>6, <2>1, <2>2 DEF NoStop
<1> QED
    BY <1>3, <1>4, <1>5, <1>6

(* The frame on top takes another value of a field other than f and c.      *)
Retopped(q, p) ==
    \E fr : /\ p = [q EXCEPT ![1] = fr] /\ DOMAIN fr = DOMAIN q[1] /\ fr.f = q[1].f
            /\ q[1].f = "apply" => fr.c = q[1].c

LEMMA TopStack ==
    ASSUME NEW q, StackOk(q), q # <<>>, NEW c, NEW p, Retopped(q, p)
    PROVE  StackOk(p) /\ InForce(p, c) = InForce(q, c) /\ p # <<>> /\ (NoStop(q) => NoStop(p))
<1>1. PICK S : q \in Seq(S)
    BY DEF StackOk
<1>0. PICK fr : /\ p = [q EXCEPT ![1] = fr] /\ DOMAIN fr = DOMAIN q[1] /\ fr.f = q[1].f
                /\ q[1].f = "apply" => fr.c = q[1].c
    BY Zenon DEF Retopped
<1>2. Len(q) \in Nat /\ Len(q) # 0 /\ q \in Seq(S \cup {fr})
    BY <1>1
<1>3. p \in Seq(S \cup {fr}) /\ Len(p) = Len(q) /\ p[1] = fr
      /\ \A i \in 2 .. Len(q) : p[i] = q[i]
    BY <1>0, <1>2
<1>4. ASSUME NEW i \in 1 .. Len(p) PROVE IsFrame(p[i]) /\ (p[i].f = "apply" => i = Len(p))
    <2>1. CASE i = 1
        BY <1>0, <1>2, <1>3, <2>1 DEF IsFrame, StackOk
    <2>2. CASE i # 1
        <3>1. i \in 2 .. Len(q) /\ i \in 1 .. Len(q) /\ p[i] = q[i]
            BY <1>2, <1>3, <2>2
        <3> QED
            BY <1>3, <3>1 DEF StackOk
    <2> QED
        BY <2>1, <2>2
<1>5. p # <<>>
    BY <1>2, <1>3
<1>6. InForce(p, c) = InForce(q, c)
    <2>1. CASE Len(q) = 1
        BY <1>0, <1>3, <1>5, <2>1 DEF InForce
    <2>2. CASE Len(q) # 1
        BY <1>2, <1>3, <1>5, <2>2 DEF InForce
    <2> QED
        BY <2>1, <2>2
<1>7. ASSUME NoStop(q), NEW i \in 1 .. Len(p) PROVE p[i].f # "stop1"
    <2>1. i \in 1 .. Len(q) /\ 1 \in 1 .. Len(q) /\ p[i].f = q[i].f
        BY <1>0, <1>2, <1>3
    <2> QED
        BY <1>7, <2>1 DEF NoStop
<1> QED
    BY <1>3, <1>4, <1>5, <1>6, <1>7 DEF StackOk, NoStop
-----------------------------------------------------------------------------
(* Steps that leave the listeners, the configuration and the stack alone     *)

Steady(s, q) ==
    /\ IsServer(q) /\ q.bound = s.bound /\ q.conf = s.conf /\ q.halt = s.halt
    /\ q.down = s.down /\ q.stack = s.stack
IsWorld(w) == DOMAIN w = {"s", "n", "x"} /\ IsServer(w.s)

LEMMA SteadyTrans ==
    ASSUME NEW s, NEW q, NEW p, Steady(s, q), Steady(q, p) PROVE Steady(s, p)
    BY DEF Steady

LEMMA KickSteady == ASSUME NEW s, IsServer(s) PROVE Steady(s, Kick(s))
    BY DEF Kick, Steady, IsServer, ServerFields

LEMMA PoolsSteady ==
    ASSUME NEW s, IsServer(s), NEW t, NEW keep PROVE Steady(s, PoolsRemoveExcept(s, t, keep))
    BY DEF PoolsRemoveExcept, Steady, IsServer, ServerFields

LEMMA UpdateSteady ==
    ASSUME NEW s, IsServer(s), NEW t, NEW claim PROVE Steady(s, UpdateIdentityPool(s, t, claim))
<1>1. \A keep : Steady(s, PoolsRemoveExcept(s, t, keep))
    BY PoolsSteady
<1>2. ASSUME NEW q, Steady(s, q) PROVE Steady(s, [q EXCEPT !.pools[claim] = Append(@, t)])
    BY <1>2 DEF Steady, IsServer, ServerFields
<1> QED
    BY <1>1, <1>2 DEF UpdateIdentityPool

LEMMA UnlistSteady ==
    ASSUME NEW s, IsServer(s), NEW t, NEW a
    PROVE  Steady(s, Unlist(s, t, a)) /\ Steady(s, ClearSlot(s, t))
    BY DEF Unlist, ClearSlot, Steady, IsServer, ServerFields

LEMMA UnlistAllSteady ==
    ASSUME NEW s, IsServer(s), NEW t, NEW a
    PROVE  Steady(s, UnlistAll(s, t, a)) /\ Steady(s, Unregister(s, t, a))
<1>1. PICK u : u = Unlist(s, t, a)
    OBVIOUS
<1>2. PICK p : p = PoolsRemoveExcept(u, t, "none")
    OBVIOUS
<1>3. Steady(s, u) /\ IsServer(u)
    BY <1>1, UnlistSteady DEF Steady
<1>4. Steady(u, p) /\ IsServer(p)
    BY <1>2, <1>3, PoolsSteady DEF Steady
<1>5. Steady(u, ClearSlot(u, t)) /\ Steady(p, ClearSlot(p, t))
    BY <1>3, <1>4, UnlistSteady
<1>6. Steady(s, ClearSlot(u, t)) /\ Steady(s, ClearSlot(p, t))
    BY <1>3, <1>4, <1>5, SteadyTrans
<1>7. Steady(s, s)
    BY DEF Steady
<1> QED
    BY <1>1, <1>2, <1>3, <1>6, <1>7 DEF UnlistAll, Unregister, UnlistSwept, UnlistPooled

LEMMA RetireSteady ==
    ASSUME NEW s, IsServer(s), NEW old PROVE Steady(s, RetirePsk(s, old)) /\ Steady(s, SyncUdp(s, old))
<1>1. PICK q : q = [s EXCEPT !.retired = @ \cup {old}]
    BY Zenon
<1>2. Steady(s, q) /\ IsServer(q)
    BY <1>1 DEF Steady, IsServer, ServerFields
<1>3. Steady(s, Kick(q))
    BY <1>2, KickSteady, SteadyTrans
<1>4. Steady(s, s)
    BY DEF Steady
<1>5. Steady(s, SyncUdp(s, old))
    BY DEF SyncUdp, Steady, IsServer, ServerFields
<1> QED
    BY <1>1, <1>3, <1>4, <1>5 DEF RetirePsk

-----------------------------------------------------------------------------
(* Dialing and posting *)

(* The world v differs from w only in such fields of the server.            *)
SteadyWorld(w, v) == IsWorld(v) /\ Steady(w.s, v.s)

LEMMA SteadyWorldTrans ==
    ASSUME NEW u, NEW v, NEW w, SteadyWorld(u, v), SteadyWorld(v, w) PROVE SteadyWorld(u, w)
    BY SteadyTrans DEF SteadyWorld

LEMMA KickWorld ==
    ASSUME NEW w, IsWorld(w) PROVE SteadyWorld(w, [w EXCEPT !.s = Kick(@)])
    BY KickSteady DEF SteadyWorld, IsWorld, Steady

LEMMA DialWorld ==
    ASSUME NEW w, IsWorld(w), NEW addr PROVE SteadyWorld(w, Dialed(w, addr))
    BY DEF Dialed, SteadyWorld, IsWorld, Steady, IsServer, ServerFields

LEMMA EnsureWorld ==
    ASSUME NEW w, IsWorld(w), NEW th PROVE SteadyWorld(w, EnsureMuxTunnel(w, th))
<1>1. SteadyWorld(w, w)
    BY DEF SteadyWorld, IsWorld, Steady
<1>2. ASSUME NEW v, IsWorld(v), NEW x PROVE SteadyWorld(v, [v EXCEPT !.s.muxt = x])
    BY <1>2 DEF SteadyWorld, IsWorld, Steady, IsServer, ServerFields
<1>3. PICK d : d = Dialed(w, Confs[w.s.conf].mux)
    OBVIOUS
<1>4. SteadyWorld(w, d) /\ IsWorld(d)
    BY <1>3, DialWorld DEF SteadyWorld
<1>5. SteadyWorld(w, [d EXCEPT !.s.muxt = FreeId(w.n)])
    BY <1>2, <1>4, SteadyWorldTrans
<1> QED
    BY <1>1, <1>3, <1>5, KickWorld DEF EnsureMuxTunnel

LEMMA SlotWorld ==
    ASSUME NEW w, IsWorld(w), NEW i, NEW th PROVE SteadyWorld(w, StartIdentityTunnel(w, i, th))
<1>1. SteadyWorld(w, w)
    BY DEF SteadyWorld, IsWorld, Steady
<1>2. ASSUME NEW v, IsWorld(v), NEW x PROVE SteadyWorld(v, [v EXCEPT !.s.slots[i] = x])
    BY <1>2 DEF SteadyWorld, IsWorld, Steady, IsServer, ServerFields
<1>3. PICK d : d = Dialed(w, Confs[w.s.conf].ids[i])
    OBVIOUS
<1>4. SteadyWorld(w, d) /\ IsWorld(d)
    BY <1>3, DialWorld DEF SteadyWorld
<1>5. SteadyWorld(w, [d EXCEPT !.s.slots[i] = FreeId(w.n)])
    BY <1>2, <1>4, SteadyWorldTrans
<1> QED
    BY <1>1, <1>3, <1>5, KickWorld DEF StartIdentityTunnel

LEMMA PostWorld ==
    ASSUME NEW w, IsWorld(w), NEW m PROVE SteadyWorld(w, PostHeld(w, m))
    BY DEF PostHeld, SteadyWorld, IsWorld, Steady, IsServer, ServerFields

(* The loop of server_reload_identity_tunnels, slot by slot                 *)
LEMMA SlotRunStep ==
    ASSUME NEW w, NEW th, NEW n \in Nat, n = Len(Confs[w.s.conf].ids),
           NEW run, run = SlotRun(w, th)
    PROVE  /\ run[0] = ExtendSlots(w)
           /\ \A i \in 1 .. n : run[i] = StartIdentityTunnel(run[i - 1], i, th)
<1> DEFINE Fits0(m, h) == h = [i \in 0 .. m |->
                           IF i = 0 THEN ExtendSlots(w) ELSE StartIdentityTunnel(h[i - 1], i, th)]
           S == {m \in 0 .. n : \E h : Fits0(m, h)}
<1>1. 0 \in S
    <2>1. Fits0(0, [i \in 0 .. 0 |-> ExtendSlots(w)])
        OBVIOUS
    <2>2. \E h : Fits0(0, h)
        BY <2>1, Zenon
    <2> HIDE DEF Fits0
    <2> QED
        BY <2>2
<1>2. \A m \in 1 .. n : m - 1 \in S => m \in S
    <2>0. SUFFICES ASSUME NEW m \in 1 .. n, NEW h, Fits0(m - 1, h) PROVE \E g : Fits0(m, g)
        <3> HIDE DEF Fits0
        <3> QED
            OBVIOUS
    <2> DEFINE g == [i \in 0 .. m |-> IF i = m THEN StartIdentityTunnel(h[m - 1], m, th) ELSE h[i]]
    <2>1. \A i \in 0 .. m : i # m => g[i] = h[i] /\ i \in 0 .. m - 1
        OBVIOUS
    <2>2. ASSUME NEW i \in 0 .. m
          PROVE  g[i] = IF i = 0 THEN ExtendSlots(w) ELSE StartIdentityTunnel(g[i - 1], i, th)
        <3>1. i # 0 => i - 1 \in 0 .. m /\ i - 1 # m
            OBVIOUS
        <3>2. i # 0 => g[i - 1] = h[i - 1]
            BY <2>1, <3>1
        <3>3. CASE i = m
            BY <3>2, <3>3
        <3>4. CASE i # m
            <4>1. h[i] = IF i = 0 THEN ExtendSlots(w) ELSE StartIdentityTunnel(h[i - 1], i, th)
                BY <2>0, <2>1, <3>4
            <4> QED
                BY <2>1, <3>2, <3>4, <4>1
        <3> QED
            BY <3>3, <3>4
    <2>3. Fits0(m, g)
        BY <2>2
    <2> QED
        BY <2>3, Zenon
<1>3. n \in S
    <2> HIDE DEF S, Fits0
    <2> QED
        BY <1>1, <1>2, LoopInduction
<1>4. \E h : Fits0(n, h)
    BY <1>3
<1>5. run = CHOOSE h : Fits0(n, h)
    BY DEF SlotRun
<1>6. Fits0(n, run)
    BY <1>4, <1>5
<1>7. \A i \in 0 .. n : run[i] = IF i = 0 THEN ExtendSlots(w)
                                 ELSE StartIdentityTunnel(run[i - 1], i, th)
    BY ONLY <1>6
<1> QED
    BY ONLY n \in Nat, <1>7

LEMMA SlotsWorld ==
    ASSUME NEW w, IsWorld(w), w.s.conf \in DOMAIN Confs, NEW th
    PROVE  SteadyWorld(w, ReloadIdentityTunnels(w, th))
<1>1. PICK n \in Nat : n = Len(Confs[w.s.conf].ids)
    BY ConfsAssumption
<1>2. PICK run : run = SlotRun(w, th)
    OBVIOUS
<1>3. run[0] = ExtendSlots(w) /\ \A i \in 1 .. n : run[i] = StartIdentityTunnel(run[i - 1], i, th)
    BY <1>1, <1>2, SlotRunStep
<1> DEFINE S == {i \in 0 .. n : SteadyWorld(w, run[i])}
<1>4. 0 \in S
    <2>1. SteadyWorld(w, ExtendSlots(w))
        BY DEF ExtendSlots, SteadyWorld, IsWorld, Steady, IsServer, ServerFields
    <2> QED
        BY <1>3, <2>1
<1>5. ASSUME NEW i \in 1 .. n, i - 1 \in S PROVE i \in S
    <2>1. SteadyWorld(w, run[i - 1]) /\ IsWorld(run[i - 1])
        BY <1>5 DEF SteadyWorld
    <2>2. SteadyWorld(run[i - 1], run[i])
        BY <1>3, <2>1, SlotWorld
    <2>3. SteadyWorld(w, run[i])
        BY <2>1, <2>2, SteadyWorldTrans
    <2> QED
        BY <2>3
<1>6. n \in S
    <2> HIDE DEF S
    <2> QED
        BY <1>4, <1>5, LoopInduction
<1>7. ReloadIdentityTunnels(w, th) = run[n]
    BY <1>1, <1>2 DEF ReloadIdentityTunnels
<1> QED
    BY <1>6, <1>7

-----------------------------------------------------------------------------
(* The invariant *)

Serving(s) == s.halt = "run" /\ ~s.down

(* The sockets are those of the configuration in force, which a reload      *)
(* under way is about to make current.                                      *)
Good(s, l) ==
    /\ IsServer(s) /\ IsLeft(l) /\ StackOk(s.stack) /\ s.conf \in DOMAIN Confs
    /\ s.halt = "new" => s.stack = <<>>
    /\ Serving(s) => /\ Settled(s.bound, Confs[InForce(s.stack, s.conf)].lst, l.taken)
                     /\ NoStop(s.stack)

Spent(l, m) == IsLeft(m) /\ m.taken = l.taken

(* What a step of the loop may do to the server without a reload            *)
Moves(s, q) ==
    /\ IsServer(q) /\ q.conf = s.conf /\ q.halt # "new" /\ StackOk(q.stack)
    /\ Serving(q) => /\ Serving(s) /\ q.bound = s.bound
                     /\ InForce(q.stack, q.conf) = InForce(s.stack, s.conf)
                     /\ NoStop(s.stack) => NoStop(q.stack)

LEMMA GoodSteady ==
    ASSUME NEW s, NEW l, Good(s, l), NEW q, Steady(s, q), NEW m, Spent(l, m)
    PROVE  Good(q, m)
    BY DEF Good, Steady, Spent, Serving

LEMMA GoodMoves ==
    ASSUME NEW s, NEW l, Good(s, l), NEW q, Moves(s, q), NEW m, Spent(l, m)
    PROVE  Good(q, m)
    BY DEF Good, Moves, Spent

LEMMA MovesOn ==
    ASSUME NEW s, NEW q, NEW p, Moves(s, q), Moves(q, p) PROVE Moves(s, p)
    BY DEF Moves

LEMMA SteadyMoves ==
    ASSUME NEW s, NEW l, Good(s, l), s.halt # "new", NEW q, Steady(s, q) PROVE Moves(s, q)
    BY DEF Good, Steady, Moves, Serving

LEMMA PushMoves ==
    ASSUME NEW s, IsServer(s), StackOk(s.stack), s.halt # "new", NEW fr, "f" \in DOMAIN fr, fr.f # "apply",
           fr.f # "stop1" \/ ~Serving(s), NEW q, q = Push(s, fr)
    PROVE  Moves(s, q) /\ q.halt = s.halt /\ q.stack # <<>>
<1>1. PICK p : p = <<fr>> \o s.stack
    BY Zenon
<1>2. IsServer(q) /\ q.conf = s.conf /\ q.halt = s.halt /\ q.down = s.down /\ q.bound = s.bound
      /\ q.stack = p
    BY <1>1 DEF Push, IsServer, ServerFields
<1>3. /\ StackOk(p) /\ InForce(p, s.conf) = InForce(s.stack, s.conf) /\ p # <<>>
      /\ fr.f # "stop1" /\ NoStop(s.stack) => NoStop(p)
    BY <1>1, PushStack, Zenon
<1> QED
    BY <1>2, <1>3 DEF Moves, Serving

LEMMA PopMoves ==
    ASSUME NEW s, IsServer(s), StackOk(s.stack), s.halt # "new", s.stack # <<>>, Head(s.stack).f # "apply",
           NEW q, q = Pop(s)
    PROVE  Moves(s, q) /\ q.halt = s.halt
<1>1. PICK p : p = Tail(s.stack)
    BY Zenon
<1>2. IsServer(q) /\ q.conf = s.conf /\ q.halt = s.halt /\ q.down = s.down /\ q.bound = s.bound
      /\ q.stack = p
    BY <1>1 DEF Pop, IsServer, ServerFields
<1>3. StackOk(p) /\ InForce(p, s.conf) = InForce(s.stack, s.conf) /\ (NoStop(s.stack) => NoStop(p))
    BY <1>1, PopStack, Zenon
<1> QED
    BY <1>2, <1>3 DEF Moves, Serving

LEMMA PaySpent ==
    ASSUME IsLeft(left), NEW c, DOMAIN c \cap {"taken", "reloads"} = {}, Pay(c)
    PROVE  Spent(left, left')
    BY DEF Pay, Spent, IsLeft, LeftFields

LEMMA LeftSpent ==
    ASSUME IsLeft(left), UNCHANGED left PROVE Spent(left, left')
    BY DEF Spent

(* A step of a tunnel's thread                                              *)
LEMMA RanSteady ==
    ASSUME IsServer(srv), NEW t, NEW u, NEW s, Steady(srv, s), NEW fit, Ran(t, u, s, fit)
    PROVE  Steady(srv, srv')
    BY DEF Ran, Steady, IsServer, ServerFields

LEMMA TunnelGood ==
    ASSUME Good(srv, left), NEW t \in Tuns, TunnelStep(t)
    PROVE  Good(srv', left')
<1>0. IsServer(srv) /\ IsLeft(left) /\ Steady(srv, srv)
    BY DEF Good, Steady
<1>h. Steady(srv, HoldsBack(t)) /\ Steady(srv, Admit(srv))
    BY <1>0 DEF HoldsBack, Admit, Steady, IsServer, ServerFields
<1>r. ASSUME NEW u, Run(t, u) PROVE Steady(srv, srv')
    BY <1>0, <1>r, RanSteady DEF Run
<1> SUFFICES Steady(srv, srv') /\ Spent(left, left')
    BY GoodSteady
<1>1. CASE Async(t)
    BY <1>0, <1>1, <1>h, RanSteady, PaySpent DEF Async
<1>2. CASE Reconnect(t)
    BY <1>0, <1>2, <1>r, PaySpent DEF Reconnect
<1>3. CASE Park(t) \/ Connected(t) \/ ServerHello(t) \/ StreamEnd(t)
    BY <1>0, <1>3, <1>r, LeftSpent, Zenon DEF Park, Connected, ServerHello, StreamEnd
<1>4. CASE RelayRetry(t)
    <2>1. CASE tun[t].cut
        BY <1>0, <1>4, <2>1, <1>r, LeftSpent DEF RelayRetry
    <2>2. CASE ~tun[t].cut
        <3>1. PICK x : srv' = [srv EXCEPT !.ring = x]
            BY <1>4, <2>2 DEF RelayRetry
        <3>2. Steady(srv, srv')
            BY <1>0, <3>1 DEF Steady, IsServer, ServerFields
        <3> QED
            BY <1>0, <1>4, <3>2, LeftSpent DEF RelayRetry
    <2> QED
        BY <2>1, <2>2
<1>5. CASE Lose(t)
    BY <1>0, <1>5, <1>r, PaySpent DEF Lose
<1>6. CASE CloseDone(t)
    BY <1>0, <1>6, <1>r, PaySpent DEF CloseDone
<1>7. CASE EndSession(t)
    BY <1>0, <1>7, <1>r, PaySpent, Zenon DEF EndSession
<1>8. CASE IdleClose(t)
    BY <1>0, <1>8, <1>r, PaySpent, Zenon DEF IdleClose
<1>9. CASE ClientHello(t)
    BY <1>0, <1>9, <1>r, <1>h, RanSteady, LeftSpent, Zenon DEF ClientHello
<1>10. CASE ResumeLookup(t)
    BY <1>0, <1>10, PaySpent DEF ResumeLookup
<1>11. CASE Handoff(t)
    <2>1. srv' = srv \/ \E x : srv' = [srv EXCEPT !.ring = x]
        BY <1>11, Zenon DEF Handoff
    <2>2. Steady(srv, srv')
        BY <1>0, <2>1 DEF Steady, IsServer, ServerFields
    <2> QED
        BY <1>0, <1>11, <2>2, LeftSpent DEF Handoff
<1> QED
    BY <1>1, <1>2, <1>3, <1>4, <1>5, <1>6, <1>7, <1>8, <1>9, <1>10, <1>11 DEF TunnelStep

-----------------------------------------------------------------------------
(* Steps of the loop *)

LEMMA OnTopIs ==
    ASSUME Good(srv, left), NEW f, OnTop(f)
    PROVE  srv.stack # <<>> /\ Head(srv.stack).f = f /\ srv.halt # "new"
    BY DEF Good, OnTop, Top

(* What the loop does while it waits for events                             *)
LEMMA IdleGood ==
    ASSUME Good(srv, left),
           \/ MuxServe \/ SuspendCb \/ Deadline
           \/ \E key : UdpServe(key) \/ RouteExpire(key) \/ \E f : Serve(key, f)
    PROVE  Good(srv', left')
<1>0. IsServer(srv) /\ IsLeft(left) /\ Steady(srv, srv) /\ StackOk(srv.stack)
    BY DEF Good, Steady
<1>1. CASE MuxServe
    <2>1. srv' = srv \/ \E x : srv' = [srv EXCEPT !.acc = x]
        BY <1>1 DEF MuxServe, Become, World
    <2>2. Steady(srv, srv')
        BY <1>0, <2>1 DEF Steady, IsServer, ServerFields
    <2>3. Spent(left, left')
        BY <1>0, <1>1, PaySpent DEF MuxServe
    <2> QED
        BY <2>2, <2>3, GoodSteady
<1>2. CASE SuspendCb
    <2>1. srv' = srv
        BY <1>2 DEF SuspendCb, Become, World
    <2>2. Spent(left, left')
        BY <1>0, <1>2, PaySpent DEF SuspendCb
    <2> QED
        BY <1>0, <2>1, <2>2, GoodSteady
<1>3. CASE Deadline
    <2>1. srv' = [srv EXCEPT !.maint = FALSE, !.halt = "break"]
        BY <1>3 DEF Deadline, Become, World
    <2>2. Moves(srv, srv')
        BY <1>0, <2>1 DEF Moves, IsServer, ServerFields, Serving
    <2>3. Spent(left, left')
        BY <1>0, <1>3, LeftSpent DEF Deadline
    <2> QED
        BY <2>2, <2>3, GoodMoves
<1>4. ASSUME NEW key, UdpServe(key) PROVE Good(srv', left')
    <2>1. \E x : srv' = [srv EXCEPT !.routes[key] = x]
        BY <1>4, Zenon DEF UdpServe
    <2>2. Steady(srv, srv')
        BY <1>0, <2>1 DEF Steady, IsServer, ServerFields
    <2>3. Spent(left, left')
        BY <1>0, <1>4, PaySpent DEF UdpServe
    <2> QED
        BY <2>2, <2>3, GoodSteady
<1>5. ASSUME NEW key, RouteExpire(key) PROVE Good(srv', left')
    <2>1. srv' = [srv EXCEPT !.routes[key] = 0]
        BY <1>5 DEF RouteExpire, Become, World
    <2>2. Steady(srv, srv')
        BY <1>0, <2>1 DEF Steady, IsServer, ServerFields
    <2>3. Spent(left, left')
        BY <1>0, <1>5, LeftSpent DEF RouteExpire
    <2> QED
        BY <2>2, <2>3, GoodSteady
<1>6. ASSUME NEW key, NEW f, Serve(key, f) PROVE Good(srv', left')
    <2>1. srv' = srv
        BY <1>6, Zenon DEF Serve
    <2>2. Spent(left, left')
        BY <1>0, <1>6, PaySpent DEF Serve
    <2> QED
        BY <1>0, <2>1, <2>2, GoodSteady
<1> QED
    BY <1>1, <1>2, <1>3, <1>4, <1>5, <1>6

LEMMA BeginCloseIs ==
    ASSUME NEW w, IsWorld(w), StackOk(w.s.stack), w.s.halt # "new", NEW t,
           NEW v, v = BeginClose(w, t)
    PROVE  Moves(w.s, v.s)
<1>1. PICK q : q = Forget(w.s, t)
    OBVIOUS
<1>2. IsServer(q) /\ q.conf = w.s.conf /\ q.halt = w.s.halt /\ q.down = w.s.down
      /\ q.bound = w.s.bound /\ q.stack = w.s.stack
    BY <1>1 DEF Forget, IsWorld, IsServer, ServerFields
<1>3. PICK fr : fr = [f |-> "post", t |-> t]
    BY Zenon
<1>4. v.s = Push(q, fr)
    BY <1>1, <1>3 DEF BeginClose, IsWorld
<1>5. "f" \in DOMAIN fr /\ fr.f # "apply" /\ fr.f # "stop1"
    BY <1>3
<1>6. Moves(q, v.s)
    BY <1>2, <1>4, <1>5, PushMoves
<1>7. Moves(w.s, q)
    BY <1>2 DEF Moves, Serving
<1> QED
    BY <1>6, <1>7, MovesOn

(* The handlers that close one tunnel, up to the pushes on the stack        *)
LEMMA ClosingGood ==
    ASSUME Good(srv, left), \/ RelayAsync \/ Tick \/ PostTeardown \/ Join \/ FreeTunnel \/ ClosedTail
    PROVE  Good(srv', left')
<1>0. IsServer(srv) /\ IsLeft(left) /\ StackOk(srv.stack)
    BY DEF Good
<1> DEFINE tick == [f |-> "tick"]
<1>t. "f" \in DOMAIN tick /\ tick.f # "apply" /\ tick.f # "stop1"
    OBVIOUS
<1>l. Spent(left, left')
    <2>1. UNCHANGED left
        BY DEF RelayAsync, Tick, PostTeardown, Join, FreeTunnel, ClosedTail
    <2> QED
        BY <1>0, <2>1, LeftSpent
<1> SUFFICES Moves(srv, srv') \/ (Steady(srv, srv') /\ srv.halt # "new")
    BY <1>l, GoodMoves, GoodSteady
<1>1. CASE RelayAsync
    <2>1. srv' = Push(srv, tick) /\ srv.halt # "new"
        BY <1>1 DEF RelayAsync, Become, World, Idle
    <2> HIDE DEF tick
    <2> QED
        BY <1>0, <1>t, <2>1, PushMoves
<1>2. CASE Tick
    <2>0. srv.stack # <<>> /\ Head(srv.stack).f = "tick" /\ srv.halt # "new"
        BY <1>2, OnTopIs DEF Tick
    <2>1. CASE srv.ring = <<>>
        <3>1. srv' = Pop(srv)
            BY <1>2, <2>1 DEF Tick, Become, World
        <3> QED
            BY <1>0, <2>0, <3>1, PopMoves
    <2>2. CASE srv.ring # <<>>
        <3> DEFINE t == Head(srv.ring).t
        <3>1. PICK r : r = Dequeue(srv)
            OBVIOUS
        <3>2. Steady(srv, r) /\ IsServer(r) /\ StackOk(r.stack) /\ r.halt # "new"
            BY <1>0, <2>0, <3>1 DEF Dequeue, Steady, IsServer, ServerFields
        <3>3. CASE srv' = r \/ srv' = [r EXCEPT !.bad = TRUE] \/ \E c : srv' = UpdateIdentityPool(r, t, c)
            <4>1. Steady(r, [r EXCEPT !.bad = TRUE]) /\ Steady(r, r)
                  /\ \A c : Steady(r, UpdateIdentityPool(r, t, c))
                BY <3>2, UpdateSteady DEF Steady, IsServer, ServerFields
            <4>2. Steady(r, srv')
                BY <3>3, <4>1, Zenon
            <4> QED
                BY <2>0, <3>2, <4>2, SteadyTrans
        <3>4. CASE HandleClosedEvent(t)
            <4>1. PICK u : u = UnlistAll(r, t, tun[t].accepted)
                OBVIOUS
            <4>2. PICK fr : fr = [f |-> "tail"]
                BY Zenon
            <4>3. PICK w : w = [World EXCEPT !.s = Push(u, fr)]
                BY Zenon
            <4>4. Steady(r, u)
                BY <3>2, <4>1, UnlistAllSteady
            <4>5. Steady(srv, u) /\ IsServer(u) /\ u.stack = srv.stack /\ u.halt # "new" /\ StackOk(u.stack)
                BY <3>2, <4>4, SteadyTrans DEF Steady
            <4>6. "f" \in DOMAIN fr /\ fr.f # "apply" /\ fr.f # "stop1"
                BY <4>2
            <4>7. w.s = Push(u, fr) /\ DOMAIN w = {"s", "n", "x"}
                BY <4>3 DEF World
            <4>8. Moves(u, w.s)
                BY <4>5, <4>6, <4>7, PushMoves
            <4>9. IsWorld(w) /\ StackOk(w.s.stack) /\ w.s.halt # "new"
                BY <4>7, <4>8 DEF Moves, IsWorld
            <4>10. PICK v : v = BeginClose(w, t)
                OBVIOUS
            <4>11. srv' = v.s
                BY <3>1, <3>4, <4>1, <4>2, <4>3, <4>10 DEF HandleClosedEvent, Become, World
            <4>12. Moves(w.s, v.s)
                BY <4>9, <4>10, BeginCloseIs
            <4>13. Moves(srv, u)
                BY <2>0, <4>5, SteadyMoves
            <4> QED
                BY <4>8, <4>11, <4>12, <4>13, MovesOn
        <3> QED
            BY <1>2, <2>2, <3>1, <3>3, <3>4 DEF Tick, Become, World
    <2> QED
        BY <2>1, <2>2
<1>3. CASE PostTeardown
    <2>0. srv.stack # <<>> /\ Head(srv.stack).f = "post" /\ srv.halt # "new"
        BY <1>3, OnTopIs DEF PostTeardown
    <2>1. PICK q, fr : q = Pop(srv) /\ fr = [f |-> "join", t |-> Top.t]
        BY Zenon
    <2>2. srv' = Push(q, fr)
        BY <1>3, <2>1 DEF PostTeardown, Become, World
    <2>3. "f" \in DOMAIN fr /\ fr.f # "apply" /\ fr.f # "stop1"
        BY <2>1
    <2>4. Moves(srv, q) /\ q.halt = srv.halt
        BY <1>0, <2>0, <2>1, PopMoves
    <2>5. IsServer(q) /\ StackOk(q.stack) /\ q.halt # "new"
        BY <2>0, <2>4 DEF Moves
    <2> QED
        BY <2>2, <2>3, <2>4, <2>5, PushMoves, MovesOn
<1>4. CASE Join
    <2>0. srv.stack # <<>> /\ Head(srv.stack).f = "join" /\ srv.halt # "new"
        BY <1>4, OnTopIs DEF Join
    <2>1. PICK q, fr : q = Pop(srv) /\ fr = [f |-> "fin", t |-> Top.t]
        BY Zenon
    <2>2. PICK p : p = Push(q, fr)
        OBVIOUS
    <2>3. srv' = Push(p, tick)
        BY <1>4, <2>1, <2>2 DEF Join, Become, World
    <2>4. "f" \in DOMAIN fr /\ fr.f # "apply" /\ fr.f # "stop1"
        BY <2>1
    <2>5. Moves(srv, q) /\ q.halt = srv.halt
        BY <1>0, <2>0, <2>1, PopMoves
    <2>6. IsServer(q) /\ StackOk(q.stack) /\ q.halt # "new"
        BY <2>0, <2>5 DEF Moves
    <2>7. Moves(q, p)
        BY <2>2, <2>4, <2>6, PushMoves
    <2>8. IsServer(p) /\ StackOk(p.stack) /\ p.halt # "new"
        BY <2>7 DEF Moves
    <2> HIDE DEF tick
    <2>9. Moves(p, srv')
        BY <1>t, <2>3, <2>8, PushMoves
    <2> QED
        BY <2>5, <2>7, <2>9, MovesOn
<1>5. CASE FreeTunnel
    <2>0. srv.stack # <<>> /\ Head(srv.stack).f = "fin" /\ srv.halt # "new"
        BY <1>5, OnTopIs DEF FreeTunnel
    <2>1. PICK q : q = GiveBack(srv, tun[Top.t])
        OBVIOUS
    <2>2. Steady(srv, q) /\ IsServer(q) /\ q.stack = srv.stack /\ q.halt = srv.halt
        BY <1>0, <2>1 DEF GiveBack, Steady, IsServer, ServerFields
    <2>3. srv' = Pop(q)
        BY <1>5, <2>1 DEF FreeTunnel, Become, World
    <2>4. Moves(srv, q)
        BY <2>0, <2>2, SteadyMoves
    <2>5. Moves(q, srv')
        BY <1>0, <2>0, <2>2, <2>3, PopMoves
    <2> QED
        BY <2>4, <2>5, MovesOn
<1>6. CASE ClosedTail
    <2>0. srv.stack # <<>> /\ Head(srv.stack).f = "tail" /\ srv.halt # "new"
        BY <1>6, OnTopIs DEF ClosedTail
    <2>1. CASE srv.down /\ NoneLive(srv)
        <3>1. PICK q : q = ShutDone(srv)
            OBVIOUS
        <3>2. srv' = Pop(q)
            BY <1>6, <2>1, <3>1 DEF ClosedTail, Become, World
        <3>3. IsServer(q) /\ q.stack = srv.stack /\ q.halt # "new" /\ q.halt # "run" /\ q.conf = srv.conf
            BY <1>0, <2>0, <3>1 DEF ShutDone, IsServer, ServerFields
        <3>4. Moves(srv, q)
            BY <1>0, <3>3 DEF Moves, Serving
        <3>5. Moves(q, srv')
            BY <1>0, <2>0, <3>2, <3>3, PopMoves
        <3> QED
            BY <3>4, <3>5, MovesOn
    <2>2. CASE ~(srv.down /\ NoneLive(srv))
        <3>1. PICK q : q = Kick(srv)
            OBVIOUS
        <3>2. srv' = Pop(q)
            BY <1>6, <2>2, <3>1 DEF ClosedTail, Become, World
        <3>3. Steady(srv, q)
            BY <1>0, <3>1, KickSteady
        <3>4. IsServer(q) /\ q.stack = srv.stack /\ q.halt = srv.halt
            BY <3>3 DEF Steady
        <3>5. Moves(srv, q)
            BY <2>0, <3>3, SteadyMoves
        <3>6. Moves(q, srv')
            BY <1>0, <2>0, <3>2, <3>4, PopMoves
        <3> QED
            BY <3>5, <3>6, MovesOn
    <2> QED
        BY <2>1, <2>2
<1> QED
    BY <1>1, <1>2, <1>3, <1>4, <1>5, <1>6

=============================================================================
