------------------------------ MODULE AcceptLoop ------------------------------
(***************************************************************************)
(* One listening socket (listener.c): opening it, the accept callback that *)
(* drains the backlog, the half-second pause after an error it cannot      *)
(* retry at once, and stopping.  The kernel's backlog, the errors accept   *)
(* may report and the clients are the environment.  A connection is handed *)
(* to serve() or closed; the serve callbacks themselves are modules        *)
(* Server, Listeners and ApiServer.                                        *)
(***************************************************************************)
EXTENDS Integers, FiniteSets

VARIABLE acc

\* fd: the listening socket is open.  io, timer: w_accept and w_timer are
\* active.  busy: accept_cb is in its loop.  queue: connections waiting in the
\* backlog.  held: descriptors this process has open and no one else owns.
\* served, closed: what became of the accepted ones.  left: the budgets of the
\* environment.
Init(Left) ==
    acc = [fd |-> FALSE, io |-> FALSE, timer |-> FALSE, busy |-> FALSE, queue |-> 0,
           held |-> {}, served |-> 0, closed |-> 0, accepted |-> 0, left |-> Left]

Spend(kind) == acc.left[kind] > 0

(* Defect: a socket that cannot be bound is not closed. *)
ListenerOpenLeaks(step) ==
    IF step = "ok"
    THEN [acc EXCEPT !.fd = TRUE, !.held = {"listen"}]
    ELSE [acc EXCEPT !.held = IF step = "bind" THEN @ \cup {"lost"} ELSE @]

\* listener_open: socket, O_NONBLOCK, bind and listen each may fail; every
\* failure after the first closes the socket.
ListenerOpen(step) ==
    IF step = "ok" THEN [acc EXCEPT !.fd = TRUE, !.held = {"listen"}] ELSE acc

\* listener_start and listener_start_fd
ListenerStart ==
    /\ ~acc.fd
    /\ Spend("start")
    /\ \E step \in {"socket", "nonblock", "bind", "listen", "ok"} :
         acc' = [ListenerOpen(step) EXCEPT !.io = step = "ok", !.left["start"] = @ - 1]

\* A client connects.
Connect ==
    /\ acc.fd
    /\ Spend("conn")
    /\ acc' = [acc EXCEPT !.queue = @ + 1, !.left["conn"] = @ - 1]

\* The event loop finds the listening socket readable.
AcceptCb ==
    /\ acc.io
    /\ ~acc.busy
    /\ acc.queue > 0
    /\ acc' = [acc EXCEPT !.busy = TRUE]

\* EINTR leaves the backlog alone, ECONNABORTED means the client has gone; both
\* are retried at once.
Retry ==
    /\ acc.busy
    /\ \/ Spend("err") /\ acc' = [acc EXCEPT !.left["err"] = @ - 1]
       \/ /\ acc.queue > 0 /\ Spend("err")
          /\ acc' = [acc EXCEPT !.queue = @ - 1, !.left["err"] = @ - 1]

\* EAGAIN, or an error of the connection itself (is_accept_network_error),
\* which is gone from the backlog: back to the event loop.
Drained ==
    /\ acc.busy
    /\ \/ acc.queue = 0 /\ acc' = [acc EXCEPT !.busy = FALSE]
       \/ /\ acc.queue > 0 /\ Spend("err")
          /\ acc' = [acc EXCEPT !.busy = FALSE, !.queue = @ - 1, !.left["err"] = @ - 1]

(* Defect: the watcher is stopped and nothing is left to start it again. *)
PausedForGood(a) == [a EXCEPT !.busy = FALSE, !.io = FALSE]

Paused(a) == [a EXCEPT !.busy = FALSE, !.io = FALSE, !.timer = TRUE]

\* Out of descriptors or memory, or an unknown error: the connection stays in
\* the backlog, so watching the socket would spin.
AcceptFails ==
    /\ acc.busy
    /\ Spend("err")
    /\ acc' = Paused([acc EXCEPT !.left["err"] = @ - 1])

\* accept succeeds; a socket that cannot be made non-blocking is closed and the
\* loop goes on, any other is served.
Accepts ==
    /\ acc.busy
    /\ acc.queue > 0
    /\ \/ acc' = [acc EXCEPT !.queue = @ - 1, !.accepted = @ + 1, !.served = @ + 1]
       \/ /\ Spend("err")
          /\ acc' = [acc EXCEPT !.queue = @ - 1, !.accepted = @ + 1, !.closed = @ + 1,
                                !.left["err"] = @ - 1]

\* timer_cb
TimerCb ==
    /\ acc.timer
    /\ ~acc.busy
    /\ acc' = [acc EXCEPT !.timer = FALSE, !.io = TRUE]

(* Defect: the pause outlives the socket. *)
ListenerStoppedKeepsTimer(a) ==
    [a EXCEPT !.io = FALSE, !.fd = FALSE, !.queue = 0, !.held = @ \ {"listen"}]

ListenerStopped(a) ==
    [a EXCEPT !.io = FALSE, !.timer = FALSE, !.fd = FALSE, !.queue = 0,
              !.held = @ \ {"listen"}]

\* listener_stop: a reload that moves the address, or the end.
ListenerStop ==
    /\ ~acc.busy
    /\ acc.fd
    /\ acc' = ListenerStopped(acc)

Next ==
    \/ ListenerStart \/ Connect \/ AcceptCb \/ Retry \/ Drained \/ AcceptFails
    \/ Accepts \/ TimerCb \/ ListenerStop

(***************************************************************************)
(* An open listener never goes deaf: whatever accept reported, and however *)
(* often the listener was stopped and started, either the socket is        *)
(* watched or the pause runs, never both, and a closed one has neither.    *)
(***************************************************************************)
NeverDeaf == acc.fd = (acc.io \/ acc.timer) /\ ~(acc.io /\ acc.timer)

(***************************************************************************)
(* Descriptors are settled: each accepted one was served or closed, and    *)
(* the listener keeps its own socket and no other, failed starts included. *)
(***************************************************************************)
NoDescriptorLost ==
    /\ acc.accepted = acc.served + acc.closed
    /\ acc.held = IF acc.fd THEN {"listen"} ELSE {}
=============================================================================
