----------------------------- MODULE SharedMutex -----------------------------
(***************************************************************************)
(* The reader/writer lock of contrib/csnippets/sync/shared_mutex.c that    *)
(* guards the server's list of accepted tunnels.  Every call holds         *)
(* state_mu from its first to its last line except inside cnd_wait, so a   *)
(* call is one action up to the wait and one from each return of it.       *)
(* pc[t] is where thread t is: idle, parked on one of the two conditions,  *)
(* woken and about to look again, or inside the lock.                      *)
(***************************************************************************)
EXTENDS Integers, FiniteSets

CONSTANT Threads

VARIABLE mtx

At(pcs) == {t \in Threads : mtx.pc[t] \in pcs}

(* cnd_signal wakes one parked thread if there is one; cnd_broadcast all.  *)
Signal(m) ==
    LET parked == {t \in Threads : m.pc[t] = "writer_parked"}
    IN  IF parked = {} THEN {m} ELSE {[m EXCEPT !.pc[t] = "writer_woken"] : t \in parked}

Broadcast(m) ==
    {[m EXCEPT !.pc = [t \in Threads |-> IF @[t] = "reader_parked" THEN "reader_woken" ELSE @[t]]]}

(* Defect: readers look only for writers that queue, not for the one in    *)
(* the lock.                                                               *)
ReaderBlockedByAny(m) == m.waiting > 0

WriterBlocked(m) == m.exclusive \/ m.shared > 0
ReaderBlocked(m) == m.exclusive \/ m.waiting > 0

(* The loop of smtx_lock from its test on.                                 *)
WriterTests(m, t) ==
    IF WriterBlocked(m) THEN [m EXCEPT !.pc[t] = "writer_parked"]
    ELSE [m EXCEPT !.pc[t] = "writing", !.waiting = @ - 1, !.exclusive = TRUE]

ReaderTests(m, t) ==
    IF ReaderBlocked(m) THEN [m EXCEPT !.pc[t] = "reader_parked"]
    ELSE [m EXCEPT !.pc[t] = "reading", !.shared = @ + 1]

Lock(t) ==
    /\ mtx.pc[t] = "idle"
    /\ mtx' = WriterTests([mtx EXCEPT !.waiting = @ + 1], t)

SharedLock(t) == mtx.pc[t] = "idle" /\ mtx' = ReaderTests(mtx, t)

WriterLooks(t) == mtx.pc[t] = "writer_woken" /\ mtx' = WriterTests(mtx, t)

ReaderLooks(t) == mtx.pc[t] = "reader_woken" /\ mtx' = ReaderTests(mtx, t)

(* cnd_wait may return although nobody signalled; the loop looks again.    *)
Spurious(t) ==
    /\ mtx.pc[t] \in {"writer_parked", "reader_parked"}
    /\ mtx' = [mtx EXCEPT !.pc[t] = IF @ = "writer_parked" THEN "writer_woken" ELSE "reader_woken"]

(* Defect: a writer that gives up leaves without waking the readers that   *)
(* waited for it only.                                                     *)
WriterGivesUpSilently(t) ==
    /\ mtx.pc[t] = "writer_parked" /\ mtx.fail > 0
    /\ mtx' = [mtx EXCEPT !.waiting = @ - 1, !.pc[t] = "idle", !.fail = @ - 1]

(* cnd_wait reports an error: the call gives up.                           *)
WriterGivesUp(t) ==
    /\ mtx.pc[t] = "writer_parked" /\ mtx.fail > 0
    /\ LET m == [mtx EXCEPT !.waiting = @ - 1, !.pc[t] = "idle", !.fail = @ - 1]
       IN  mtx' \in IF ~m.exclusive /\ m.waiting = 0 THEN Broadcast(m) ELSE {m}

ReaderGivesUp(t) ==
    /\ mtx.pc[t] = "reader_parked" /\ mtx.fail > 0
    /\ mtx' = [mtx EXCEPT !.pc[t] = "idle", !.fail = @ - 1]

TryLock(t) ==
    /\ mtx.pc[t] = "idle" /\ ~WriterBlocked(mtx) /\ mtx.waiting = 0
    /\ mtx' = [mtx EXCEPT !.exclusive = TRUE, !.pc[t] = "writing"]

TrySharedLock(t) ==
    /\ mtx.pc[t] = "idle" /\ ~ReaderBlocked(mtx)
    /\ mtx' = [mtx EXCEPT !.shared = @ + 1, !.pc[t] = "reading"]

Unlock(t) ==
    /\ mtx.pc[t] = "writing"
    /\ LET m == [mtx EXCEPT !.exclusive = FALSE, !.pc[t] = "idle"]
       IN  mtx' \in IF m.waiting > 0 THEN Signal(m) ELSE Broadcast(m)

(* Defect: the last reader out wakes the readers instead of the writer.    *)
SharedUnlockWakesReaders(t) ==
    /\ mtx.pc[t] = "reading"
    /\ LET m == [mtx EXCEPT !.shared = @ - 1, !.pc[t] = "idle"]
       IN  mtx' \in IF m.shared = 0 THEN Broadcast(m) ELSE {m}

SharedUnlock(t) ==
    /\ mtx.pc[t] = "reading"
    /\ LET m == [mtx EXCEPT !.shared = @ - 1, !.pc[t] = "idle"]
       IN  mtx' \in IF m.shared = 0 THEN Signal(m) ELSE {m}

(* fail: how often cnd_wait may still fail.                                *)
Init(Fails) ==
    mtx = [exclusive |-> FALSE, shared |-> 0, waiting |-> 0, fail |-> Fails,
           pc |-> [t \in Threads |-> "idle"]]

Next ==
    \E t \in Threads :
       \/ Lock(t) \/ SharedLock(t)
       \/ WriterLooks(t) \/ ReaderLooks(t) \/ Spurious(t)
       \/ WriterGivesUp(t) \/ ReaderGivesUp(t)
       \/ TryLock(t) \/ TrySharedLock(t)
       \/ Unlock(t) \/ SharedUnlock(t)

-----------------------------------------------------------------------------
(* A writer is alone in the lock, and the lock's counters say who is in it *)
(* and who waits for it.                                                   *)
Exclusion ==
    /\ At({"writing"}) # {} => Cardinality(At({"writing", "reading"})) = 1
    /\ mtx.exclusive = (At({"writing"}) # {})
    /\ mtx.shared = Cardinality(At({"reading"}))
    /\ mtx.waiting = Cardinality(At({"writer_parked", "writer_woken"}))

(* No wake-up is lost: a parked reader is still kept out by somebody, and  *)
(* when the lock is free with writers parked, one of them has been woken.  *)
NoLostWakeup ==
    /\ At({"reader_parked"}) # {} => ReaderBlocked(mtx)
    /\ At({"writer_parked"}) # {} => WriterBlocked(mtx) \/ At({"writer_woken"}) # {}
=============================================================================
