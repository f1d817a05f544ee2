------------------------------ MODULE MCStream ------------------------------
(* Scenarios for checking StreamPair with TLC: each one is small, and Init   *)
(* chooses between them.                                                     *)
EXTENDS StreamPair

(* An end's configuration and the habits of its applications                *)
Conf == [lo |-> 0, hi |-> 0, nodelay |-> FALSE, auto |-> FALSE, session_window |-> 0,
         accept |-> "socket", open |-> "socket", later |-> "socket", max_streams |-> 0,
         part |-> FALSE, slow |-> FALSE, closes |-> FALSE, polite |-> FALSE,
         brisk |-> FALSE, expires |-> TRUE,
         halfopen_grow |-> FALSE, shrinks |-> FALSE, stalled_loss |-> FALSE]

Budget == [oom |-> 0, err |-> 0, openc |-> 1, opens |-> 0, close |-> 0, loss |-> 0,
           grow |-> 0, drain |-> 0, failed |-> 0]

Plan(c, s) == [c |-> [i \in Ids |-> c], s |-> [i \in Ids |-> s]]

Base == [window |-> 2, c |-> Conf, s |-> Conf, plan |-> Plan(5, 1), left |-> Budget]

Quick(sc) == [sc EXCEPT !.c.brisk = TRUE, !.s.brisk = TRUE,
                        !.c.expires = FALSE, !.s.expires = FALSE]

(* Local sockets at both ends; the accepting one reads slowly and records   *)
(* are cut by a full transport.                                             *)
Slow == [Base EXCEPT !.s.slow = TRUE, !.c.part = TRUE, !.plan = Plan(4, 1)]

(* Applications on both ends use the library directly and close early.      *)
Direct == [Base EXCEPT !.c.open = "direct", !.s.accept = "direct", !.left.close = 1,
                       !.plan = Plan(3, 0), !.c.brisk = TRUE]

(* A callback may fail for want of memory, a local socket may break.        *)
NoMemory == [Base EXCEPT !.left.oom = 1, !.plan = Plan(3, 1)]
Broken == [Quick(Base) EXCEPT !.left.err = 1, !.s.slow = TRUE, !.plan = Plan(3, 1),
                              !.s.expires = TRUE]

(* A direct stream whose callback closes it inside a handler                *)
Abrupt == [Direct EXCEPT !.c.closes = TRUE, !.s.closes = TRUE, !.left.oom = 1,
                         !.s.brisk = TRUE, !.plan = Plan(2, 0),
                         !.c.expires = FALSE]

(* Two streams share the session, opened by one end or by both.             *)
Crowd == [Quick(Base) EXCEPT !.left.openc = 2, !.plan = Plan(2, 0)]
Across == [Quick(Base) EXCEPT !.left.opens = 1, !.plan = Plan(2, 0)]

(* The transport is lost once; the session window is two frames.            *)
Lossy == [Base EXCEPT !.left.loss = 1, !.plan = Plan(3, 0), !.c.session_window = 2,
                      !.s.session_window = 2, !.c.expires = FALSE, !.s.expires = FALSE,
                      !.c.brisk = TRUE]

(* Either end is drained.                                                   *)
Draining == [Base EXCEPT !.left.drain = 1, !.plan = Plan(3, 0), !.c.open = "direct",
                         !.left.close = 1, !.s.closes = TRUE]

(* Modes are given late; the accepting end limits or refuses streams.       *)
Late == [Base EXCEPT !.c.open = "later", !.s.accept = "later", !.s.later = "direct",
                     !.plan = Plan(3, 1)]
Refused == [Base EXCEPT !.s.accept = "none", !.plan = Plan(3, 0), !.left.openc = 2,
                        !.s.max_streams = 1]

(* The receive windows follow the estimate, under memory pressure: growing, *)
(* and shrinking at a polite end.                                           *)
Auto == [Quick(Base) EXCEPT !.left.grow = 2, !.s.auto = TRUE,
                            !.s.slow = TRUE, !.s.lo = 1, !.s.hi = 4, !.plan = Plan(5, 0)]
Shrink == [Auto EXCEPT !.s.shrinks = TRUE, !.s.polite = TRUE]

Most == {Base, Slow, Direct, NoMemory, Broken, Abrupt, Crowd, Across, Lossy, Draining,
         Late, Refused, Auto, Shrink}

(* The window grows while the stream is half-open.                          *)
HalfOpenGrow == {[Quick(Base) EXCEPT !.left.grow = 1, !.c.auto = TRUE,
                                     !.c.halfopen_grow = TRUE, !.plan = Plan(0, 8)]}

(* A window that grows and shrinks leaves a pending credit of nothing when  *)
(* the FIN goes out.                                                        *)
StaleAck == {[Base EXCEPT !.left.grow = 2, !.s.auto = TRUE, !.s.shrinks = TRUE,
                          !.c.expires = FALSE, !.s.expires = FALSE, !.plan = Plan(8, 0)]}

(* The transport is lost under a sender stalled in the middle of its turn.  *)
StalledLoss == {[Lossy EXCEPT !.plan = Plan(6, 0), !.window = 3, !.c.nodelay = TRUE,
                              !.c.stalled_loss = TRUE]}
=============================================================================
