------------------------------ MODULE UdpRelay ------------------------------
(***************************************************************************)
(* The UDP relay of src/src/udp.c between the two ends of one session.     *)
(* Each end may own a UDP listener (server loop) and owns a flow table     *)
(* (tunnel thread).  A client's datagram opens an active flow under an id  *)
(* of the end's parity; the other end answers with a passive flow that has *)
(* a socket of its own towards the forward target.  Datagrams and          *)
(* FLOW-CLOSE frames are lost when the session is down or its queue full.  *)
(*                                                                         *)
(* A datagram is the name of the client that sent it, and the forward      *)
(* target answers with the same name, so a delivery to somebody else is    *)
(* visible.  Idle times are abstracted: a sweep may find any entry idle.   *)
(* The variable is one record, so that several parts can share one run.    *)
(***************************************************************************)
EXTENDS Integers, Sequences, FiniteSets, SequencesExt

CONSTANTS MaxId,     \* largest flow id, UINT16_MAX in the code
          QueueCap,  \* lossymux.queue
          Socks      \* addresses a struct udp_socket can be allocated at

VARIABLE udp

Ends == {1, 2}
Peer(e) == 3 - e
Parity(e) == IF e = 1 THEN 1 ELSE 0

NoListener == [sock |-> 0, routes |-> {}, sweep |-> FALSE]
NewFlows(e) == [by_id |-> {}, by_client |-> {}, next_id |-> 2 - Parity(e), sweep |-> FALSE]

-----------------------------------------------------------------------------
(* Sockets shared by the listener, queued datagrams and active flows.      *)
SocketRef(u, s) == [u EXCEPT !.refs[s] = @ + 1]
SocketUnref(u, s) == [u EXCEPT !.refs[s] = @ - 1]

(* mux_dgram_send and mux_dgram_close: dropped unless the session is       *)
(* established and its datagram queue has room.                            *)
SendDgram(u, e, frame) ==
    IF u.up[e] /\ Len(u.out[e]) < QueueCap THEN [u EXCEPT !.out[e] = Append(@, frame)] ELSE u

-----------------------------------------------------------------------------
(* The flow table.                                                         *)
FlowsWith(f, id) == {x \in f.by_id : x.id = id}

(* Defect: the id after the last one wraps to the wrong parity.            *)
NextIdWrapsToOne(e, id) == IF id + 2 > MaxId THEN 1 ELSE id + 2

NextId(e, id) == IF id + 2 > MaxId THEN 2 - Parity(e) ELSE id + 2

(* One pass over the ids of this end's parity; id 0 when all are taken.    *)
AllocId(e, f) ==
    FoldLeft(LAMBDA a, i : IF a.id # 0 THEN a
                           ELSE [id |-> IF FlowsWith(f, a.next) = {} THEN a.next ELSE 0,
                                 next |-> NextId(e, a.next)],
             [id |-> 0, next |-> f.next_id], [i \in 1..((MaxId + 1) \div 2) |-> i])

(* Defect: the sweep timer is started only for the flows this end opens.   *)
FlowsAddNoSweep(u, e, flow) ==
    [u EXCEPT !.f[e].by_id = @ \cup {flow}, !.f[e].sweep = @ \/ flow.sock # 0]

FlowsAdd(u, e, flow) ==
    [u EXCEPT !.f[e].by_id = @ \cup {flow}, !.f[e].sweep = TRUE]

FlowOpenActive(u, e, d, a) ==
    IF a.id = 0 THEN u
    ELSE FlowsAdd(SocketRef([u EXCEPT !.f[e].next_id = a.next,
                                      !.f[e].by_client = @ \cup {[sock |-> d.sock, client |-> d.from, id |-> a.id]}],
                            d.sock),
                  e, [id |-> a.id, sock |-> d.sock, client |-> d.from, pending |-> 0])

(* flow_free: the listener socket reference, or the flow's own socket with *)
(* whatever is unread in it.                                               *)
FlowFree(u, flow) == IF flow.sock # 0 THEN SocketUnref(u, flow.sock) ELSE u

FlowUnlink(u, e, flow) ==
    [u EXCEPT !.f[e].by_id = @ \ {flow},
              !.f[e].by_client = {k \in @ : k.id # flow.id}]

(* Defect: closing a flow leaves its client entry behind.                  *)
FlowCloseByIdOnly(u, e, flow) ==
    FlowFree([u EXCEPT !.f[e].by_id = @ \ {flow}], flow)

FlowClose(u, e, flow) == FlowFree(FlowUnlink(u, e, flow), flow)

StopIfEmpty(u, e) == IF u.f[e].by_id = {} THEN [u EXCEPT !.f[e].sweep = FALSE] ELSE u

FlowsReset(u, e) ==
    [FoldLeft(FlowFree, u, SetToSeq(u.f[e].by_id))
        EXCEPT !.f[e].by_id = {}, !.f[e].by_client = {}, !.f[e].sweep = FALSE]

DgramFree(u, d) == SocketUnref(u, d.sock)

InputVia(u, e, d, flows) ==
    DgramFree(IF flows = {} THEN u
              ELSE SendDgram(u, e, [id |-> (CHOOSE k \in flows : TRUE).id, fin |-> FALSE, data |-> d.from]), d)

ClientFlows(u, e, d) == {k \in u.f[e].by_client : k.sock = d.sock /\ k.client = d.from}

InputOpened(u, e, d) == InputVia(u, e, d, ClientFlows(u, e, d))

FlowsInput(u, e, d) ==
    IF ~u.up[e] THEN DgramFree(u, d)
    ELSE InputOpened(IF ClientFlows(u, e, d) # {} THEN u
                     ELSE FlowOpenActive(u, e, d, AllocId(e, u.f[e])), e, d)

(* What the flow does with a datagram from the session: an active flow     *)
(* sends it to its client through the listener socket, a passive one to    *)
(* the target.  "for" is whose traffic the passive socket has carried.     *)
FlowDeliver(u, e, flow, data) ==
    IF flow.sock # 0
    THEN [u EXCEPT !.bad = @ \/ flow.client # data \/ u.refs[flow.sock] = 0]
    ELSE [u EXCEPT !.bad = @ \/ flow.client # data,
                   !.f[e].by_id = (@ \ {flow}) \cup {[flow EXCEPT !.pending = 1]}]

PassiveFlow(id, data) == [id |-> id, sock |-> 0, client |-> data, pending |-> 0]

(* ok: the forward target resolves and a socket can be opened.             *)
FlowsRecv(u, e, id, data, ok) ==
    IF FlowsWith(u.f[e], id) # {}
    THEN FlowDeliver(u, e, CHOOSE x \in FlowsWith(u.f[e], id) : TRUE, data)
    ELSE IF id % 2 # Parity(e) /\ ok
    THEN FlowDeliver(FlowsAdd(u, e, PassiveFlow(id, data)), e, PassiveFlow(id, data), data)
    ELSE SendDgram(u, e, [id |-> id, fin |-> TRUE, data |-> "none"])

FlowsRecvClose(u, e, id) ==
    IF FlowsWith(u.f[e], id) = {} THEN u
    ELSE StopIfEmpty(FlowClose(u, e, CHOOSE x \in FlowsWith(u.f[e], id) : TRUE), e)

FlowExpire(u, e, flow) ==
    FlowFree(SendDgram(FlowUnlink(u, e, flow), e, [id |-> flow.id, fin |-> TRUE, data |-> "none"]), flow)

FlowsSweep(u, e, idle) ==
    StopIfEmpty(FoldLeft(LAMBDA w, x : FlowExpire(w, e, x), u, SetToSeq(idle)), e)

-----------------------------------------------------------------------------
(* The listener.                                                           *)
ListenerRoute(u, e, c) ==
    [u EXCEPT !.l[e].routes = @ \cup {c}, !.l[e].sweep = TRUE]

(* Defect: a queued datagram borrows the listener's reference.             *)
DeliverBorrowed(u, e, c) ==
    IF Len(u.q[e]) >= QueueCap THEN u
    ELSE [u EXCEPT !.q[e] = Append(@, [sock |-> u.l[e].sock, from |-> c])]

(* A datagram carries a reference to the socket; the tunnel sheds it when  *)
(* its queue is full.                                                      *)
Deliver(u, e, c) ==
    IF Len(u.q[e]) >= QueueCap THEN u
    ELSE SocketRef([u EXCEPT !.q[e] = Append(@, [sock |-> u.l[e].sock, from |-> c])], u.l[e].sock)

ListenerNew(u, e, s) == SocketRef([u EXCEPT !.l[e] = [NoListener EXCEPT !.sock = s]], s)
ListenerFree(u, e) == SocketUnref([u EXCEPT !.l[e] = NoListener], u.l[e].sock)

KeepRoutes(u, e, keep) ==
    [u EXCEPT !.l[e].routes = keep, !.l[e].sweep = @ /\ keep # {}]

-----------------------------------------------------------------------------
(* Actions.  udp.left bounds the environment: dg datagrams from clients,   *)
(* cut transport losses, re listener replacements.                         *)
Left(x) == udp.left[x] > 0
Spend(u, x) == [u EXCEPT !.left[x] = @ - 1]

ListenerRead(e, c) ==
    /\ udp.l[e].sock # 0 /\ Left("dg")
    /\ udp' = Deliver(ListenerRoute(Spend(udp, "dg"), e, c), e, c)

ListenerSweep(e) ==
    /\ udp.l[e].sweep
    /\ \E keep \in SUBSET udp.l[e].routes : udp' = KeepRoutes(udp, e, keep)

(* server_update_udp_slot: the address changed.  The new socket may get    *)
(* the address of one that is gone.                                        *)
ListenerReplace(e) ==
    /\ udp.l[e].sock # 0 /\ Left("re")
    /\ \E s \in Socks : /\ ListenerFree(udp, e).refs[s] = 0
                        /\ udp' = ListenerNew(ListenerFree(Spend(udp, "re"), e), e, s)

(* tunnel_drain_pending_dgrams takes the whole queue.                      *)
Drain(e) ==
    /\ udp.q[e] # <<>>
    /\ udp' = FoldLeft(LAMBDA u, d : FlowsInput(u, e, d), [udp EXCEPT !.q[e] = <<>>], udp.q[e])

(* One frame from the peer: dispatch_dgram_frame.                          *)
Recv(e) ==
    /\ udp.up[e] /\ udp.out[Peer(e)] # <<>>
    /\ \E ok \in BOOLEAN :
         udp' = IF Head(udp.out[Peer(e)]).fin
                THEN FlowsRecvClose([udp EXCEPT !.out[Peer(e)] = Tail(@)], e, Head(udp.out[Peer(e)]).id)
                ELSE FlowsRecv([udp EXCEPT !.out[Peer(e)] = Tail(@)], e,
                               Head(udp.out[Peer(e)]).id, Head(udp.out[Peer(e)]).data, ok)

(* The target's answer on a passive flow's socket.                         *)
PassiveRead(e, flow) ==
    /\ flow.sock = 0 /\ flow.pending = 1
    /\ udp' = SendDgram([udp EXCEPT !.f[e].by_id = (@ \ {flow}) \cup {[flow EXCEPT !.pending = 0]}],
                        e, [id |-> flow.id, fin |-> FALSE, data |-> flow.client])

Sweep(e) ==
    /\ udp.f[e].sweep
    /\ \E idle \in SUBSET udp.f[e].by_id : udp' = FlowsSweep(udp, e, idle)

(* A transport loss seen by one end: its own queue is dropped, what the    *)
(* peer had sent is gone, and a prefix of what it sent may still arrive.   *)
Suspend(e) ==
    /\ udp.up[e] /\ (udp.up[Peer(e)] => Left("cut"))
    /\ \E k \in 0..Len(udp.out[e]) :
         udp' = [udp EXCEPT !.up[e] = FALSE, !.out[e] = SubSeq(@, 1, k), !.out[Peer(e)] = <<>>,
                            !.left.cut = IF udp.up[Peer(e)] THEN @ - 1 ELSE @]

BothDown == \A e \in Ends : ~udp.up[e]

(* The transport returns: the same session, or a fresh one, for which the  *)
(* dialing end clears its flow table and the accepting end has a new one.  *)
ResumeSession ==
    /\ BothDown
    /\ udp' = [udp EXCEPT !.up = [e \in Ends |-> TRUE], !.out = [e \in Ends |-> <<>>]]

FreshSession ==
    /\ BothDown
    /\ udp' = [FlowsReset(FlowsReset(udp, 1), 2)
                 EXCEPT !.up = [e \in Ends |-> TRUE], !.out = [e \in Ends |-> <<>>],
                        !.f[2] = NewFlows(2)]

(* A scenario: who[e] are the clients of end e, next[e] the id its next    *)
(* flow gets, left the budgets.  Ids wrap, but none is given out twice     *)
(* within the datagram budget.                                             *)
Init(Scenarios) ==
    \E s \in Scenarios :
      LET who == s.who
      IN  udp = [l |-> [e \in Ends |-> IF who[e] = {} THEN NoListener ELSE [NoListener EXCEPT !.sock = e]],
                 refs |-> [k \in Socks |-> IF k \in Ends /\ who[k] # {} THEN 1 ELSE 0],
                 q |-> [e \in Ends |-> <<>>], out |-> [e \in Ends |-> <<>>],
                 f |-> [e \in Ends |-> [NewFlows(e) EXCEPT !.next_id = s.next[e]]],
                 up |-> [e \in Ends |-> TRUE], who |-> who, bad |-> FALSE, left |-> s.left]

Next ==
    \/ \E e \in Ends : \E c \in udp.who[e] : ListenerRead(e, c)
    \/ \E e \in Ends : \/ ListenerSweep(e)
                       \/ ListenerReplace(e)
                       \/ Drain(e)
                       \/ Recv(e)
                       \/ Sweep(e)
                       \/ Suspend(e)
    \/ \E e \in Ends : \E flow \in udp.f[e].by_id : PassiveRead(e, flow)
    \/ ResumeSession
    \/ FreshSession

-----------------------------------------------------------------------------
RefsOf(s) ==
    Cardinality({e \in Ends : udp.l[e].sock = s})
    + Cardinality({<<e, i>> \in Ends \X (1..QueueCap) : i <= Len(udp.q[e]) /\ udp.q[e][i].sock = s})
    + Cardinality(UNION {{<<e, x.id>> : x \in {y \in udp.f[e].by_id : y.sock = s}} : e \in Ends})

(* A listener socket is closed when, and only when, its last holder lets   *)
(* go: the listener, a queued datagram or a flow (udp_socket_unref).       *)
SocketsHeld == \A s \in Socks : udp.refs[s] = RefsOf(s)

(* by_client lists exactly the active flows of by_id, under ids of this    *)
(* end's parity; every other flow was opened by the peer.                  *)
TablesAgree ==
    \A e \in Ends :
      /\ udp.f[e].by_client = {[sock |-> x.sock, client |-> x.client, id |-> x.id] :
                                  x \in {y \in udp.f[e].by_id : y.sock # 0}}
      /\ \A x, y \in udp.f[e].by_id : x # y => x.id # y.id /\ (x.sock # 0 => <<x.sock, x.client>> # <<y.sock, y.client>>)
      /\ \A x \in udp.f[e].by_id : x.id \in 1..MaxId /\ (x.sock # 0 <=> x.id % 2 = Parity(e))

(* Every datagram reaches the client, or the target socket, of the client  *)
(* it belongs to, through a socket that is still open.                     *)
NoCrossTalk == ~udp.bad

(* Whatever can go idle has a sweep timer running to expire it.            *)
SweepsRun == \A e \in Ends : /\ udp.f[e].sweep = (udp.f[e].by_id # {})
                             /\ udp.l[e].sweep = (udp.l[e].routes # {})
=============================================================================
