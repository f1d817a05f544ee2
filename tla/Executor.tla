------------------------------ MODULE Executor ------------------------------
(***************************************************************************)
(* The worker pool of contrib/csnippets/sync/executor.c, with the bounded  *)
(* task ring that contrib/csnippets/sync/dispatcher.c uses too.  A worker  *)
(* takes tasks under the lock, waits when there is none, and the last one  *)
(* to leave a detached executor frees it.  A task is a number; ran lists   *)
(* the tasks in the order they were taken.                                 *)
(***************************************************************************)
EXTENDS Integers, Sequences, FiniteSets

CONSTANTS Workers,   \* 1..nworkers
          Capacity   \* slots of the ring

VARIABLE exe

(* The ring.                                                               *)
Slot(n) == IF n >= Capacity THEN n - Capacity ELSE n

(* Defect: the new task goes to the head of the ring instead of its tail.  *)
RingPutAtHead(r, task) == [r EXCEPT !.buf[r.head] = task, !.count = @ + 1]

RingPut(r, task) == [r EXCEPT !.buf[Slot(r.head + r.count)] = task, !.count = @ + 1]

RingTake(r) == [r EXCEPT !.head = Slot(@ + 1), !.count = @ - 1]

RingTasks(r) == [i \in 1..r.count |-> r.buf[Slot(r.head + i - 1)]]

EmptyRing == [buf |-> [i \in 0..(Capacity - 1) |-> 0], head |-> 0, count |-> 0]

-----------------------------------------------------------------------------
WakeOne(x) ==
    LET parked == {w \in Workers : x.pc[w] = "parked"}
    IN  IF parked = {} THEN {x} ELSE {[x EXCEPT !.pc[w] = "looking"] : w \in parked}

WakeAll(x) == [x EXCEPT !.pc = [w \in Workers |-> IF @[w] = "parked" THEN "looking" ELSE @[w]]]

(* executor_create: workers start one by one; when one cannot be started   *)
(* the executor is detached and the caller gets nothing.                   *)
Detach(x) == [WakeAll([x EXCEPT !.exit = TRUE, !.detached = TRUE])
                EXCEPT !.freed = IF x.started = 0 THEN @ + 1 ELSE @, !.owner = "gone"]

Create ==
    /\ exe.owner = "creating"
    /\ \/ /\ exe.started < Cardinality(Workers)
          /\ exe' = [exe EXCEPT !.started = @ + 1, !.live = @ + 1, !.pc[exe.started + 1] = "looking"]
       \/ /\ exe.started < Cardinality(Workers)
          /\ exe' = Detach(exe)
       \/ /\ exe.started = Cardinality(Workers)
          /\ exe' = [exe EXCEPT !.owner = "owning"]

(* Defect: the signal is left out when the queue was not empty.            *)
InvokeSignalsWhenEmpty ==
    /\ exe.owner = "owning" /\ exe.next <= exe.tasks
    /\ IF exe.exit \/ exe.ring.count = Capacity
       THEN exe' = [exe EXCEPT !.next = @ + 1]
       ELSE LET x == [exe EXCEPT !.ring = RingPut(@, exe.next), !.taken = Append(@, exe.next), !.next = @ + 1]
            IN  exe' \in IF exe.ring.count > 0 THEN {x} ELSE WakeOne(x)

Invoke ==
    /\ exe.owner = "owning" /\ exe.next <= exe.tasks
    /\ IF exe.exit \/ exe.ring.count = Capacity
       THEN exe' = [exe EXCEPT !.next = @ + 1]
       ELSE exe' \in WakeOne([exe EXCEPT !.ring = RingPut(@, exe.next), !.taken = Append(@, exe.next), !.next = @ + 1])

JoinBegins ==
    /\ exe.owner = "owning"
    /\ exe' = [WakeAll([exe EXCEPT !.exit = TRUE]) EXCEPT !.owner = "joining"]

JoinEnds ==
    /\ exe.owner = "joining" /\ \A w \in Workers : exe.pc[w] = "gone"
    /\ exe' = [exe EXCEPT !.freed = @ + 1, !.owner = "gone"]

DetachCall == exe.owner = "owning" /\ exe' = Detach(exe)

(* The dequeue loop from its tests on.                                     *)
Look(w) ==
    /\ exe.pc[w] = "looking"
    /\ exe' = IF exe.ring.count > 0
              THEN [exe EXCEPT !.ring = RingTake(@), !.ran = Append(@, Head(RingTasks(exe.ring))), !.pc[w] = "running"]
              ELSE [exe EXCEPT !.pc[w] = IF exe.exit THEN "leaving" ELSE "parked"]

(* cnd_wait may return although nobody signalled; the loop looks again.    *)
Spurious(w) == exe.pc[w] = "parked" /\ exe' = [exe EXCEPT !.pc[w] = "looking"]

Finish(w) == exe.pc[w] = "running" /\ exe' = [exe EXCEPT !.pc[w] = "looking"]

(* Defect: the last worker frees the executor of a joining owner too.      *)
LeaveFrees(w) ==
    /\ exe.pc[w] = "leaving"
    /\ exe' = [exe EXCEPT !.live = @ - 1, !.pc[w] = "gone",
                          !.freed = IF exe.live = 1 THEN @ + 1 ELSE @]

Leave(w) ==
    /\ exe.pc[w] = "leaving"
    /\ exe' = [exe EXCEPT !.live = @ - 1, !.pc[w] = "gone",
                          !.freed = IF exe.detached /\ exe.live = 1 THEN @ + 1 ELSE @]

Init(Tasks) ==
    exe = [ring |-> EmptyRing, exit |-> FALSE, detached |-> FALSE, started |-> 0, live |-> 0,
           pc |-> [w \in Workers |-> "unborn"], owner |-> "creating", freed |-> 0,
           next |-> 1, tasks |-> Tasks, taken |-> <<>>, ran |-> <<>>]

Next ==
    \/ Create \/ Invoke \/ JoinBegins \/ JoinEnds \/ DetachCall
    \/ \E w \in Workers : Look(w) \/ Spurious(w) \/ Finish(w) \/ Leave(w)

-----------------------------------------------------------------------------
Alive == {w \in Workers : exe.pc[w] \in {"parked", "looking", "running", "leaving"}}

(* The ring is the queue of the tasks accepted and not yet taken: tasks    *)
(* run in the order they were accepted, each once, none dropped.           *)
RingIsQueue == exe.taken = exe.ran \o RingTasks(exe.ring)

(* The executor is freed once, after its last worker is done with it and   *)
(* every task it accepted has been taken.                                  *)
FreedLast ==
    /\ exe.freed <= 1
    /\ exe.freed = 1 => Alive = {} /\ exe.ring.count = 0 /\ exe.owner = "gone"
    /\ exe.owner = "gone" /\ Alive = {} => exe.freed = 1

(* No worker sleeps past its work: while one is parked there is a worker   *)
(* on its way to every waiting task, and none is parked when all should    *)
(* leave.                                                                  *)
NoSleeper ==
    /\ exe.exit => \A w \in Workers : exe.pc[w] # "parked"
    /\ (\E w \in Workers : exe.pc[w] = "parked") =>
         exe.ring.count <= Cardinality({w \in Workers : exe.pc[w] = "looking"})
=============================================================================
