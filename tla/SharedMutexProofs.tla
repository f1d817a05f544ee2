-------------------------- MODULE SharedMutexProofs --------------------------
(***************************************************************************)
(* The reader/writer lock is right for any finite set of threads and any   *)
(* number of failing waits.  The inductive invariant Good has two halves:  *)
(* Counted says who is in the lock and that its counters are exact,        *)
(* Watched that nobody sleeps past the event it waits for.  Neither is     *)
(* inductive alone: a wake-up is chosen by looking at the counters, and a  *)
(* reader walks in past sleepers only because none can be there.  Good is  *)
(* stated of the lock's fields (x: exclusive, s: shared, w: waiting) so    *)
(* that an unlock's state between the change and the wake-up can be spoken *)
(* of.                                                                     *)
(***************************************************************************)
EXTENDS SharedMutex, FiniteSetTheorems, TLAPS

MutexSpec(Fails) == Init(Fails) /\ [][Next]_mtx

Places == {"idle", "writer_parked", "writer_woken", "reader_parked", "reader_woken",
           "writing", "reading"}

Queues(p) == p = "writer_parked" \/ p = "writer_woken"
Inside(p) == p = "writing" \/ p = "reading"
Readers(pc) == {t \in Threads : pc[t] = "reading"}
Queue(pc) == {t \in Threads : Queues(pc[t])}

Alone(x, pc) ==
    /\ \A t, u \in Threads : pc[t] = "writing" /\ Inside(pc[u]) => t = u
    /\ x = TRUE <=> \E t \in Threads : pc[t] = "writing"

Counted(s, w, pc) ==
    /\ s \in Nat /\ w \in Nat /\ pc \in [Threads -> Places]
    /\ s = Cardinality(Readers(pc))
    /\ w = Cardinality(Queue(pc))

(* A parked reader is still kept out; the lock is not left free with only   *)
(* parked writers.                                                          *)
ReadersWatched(x, w, pc) == (\E t \in Threads : pc[t] = "reader_parked") => x = TRUE \/ w > 0
WritersWatched(x, s, pc) ==
    (\E t \in Threads : pc[t] = "writer_parked")
       => x = TRUE \/ s > 0 \/ \E t \in Threads : pc[t] = "writer_woken"

Good(x, s, w, pc) ==
    /\ x \in BOOLEAN /\ Alone(x, pc) /\ Counted(s, w, pc)
    /\ ReadersWatched(x, w, pc) /\ WritersWatched(x, s, pc)

LockRec(x, s, w, f, pc) ==
    [exclusive |-> x, shared |-> s, waiting |-> w, fail |-> f, pc |-> pc]

IInv ==
    \E x \in BOOLEAN, s, w, f \in Nat, pc \in [Threads -> Places] :
       mtx = LockRec(x, s, w, f, pc) /\ Good(x, s, w, pc)

-----------------------------------------------------------------------------
(* What one thread entering or leaving a set of threads does to its size.   *)
LEMMA CountStep ==
    ASSUME IsFiniteSet(Threads), NEW S, S \subseteq Threads, NEW t \in Threads
    PROVE  /\ Cardinality(S) \in Nat
           /\ Cardinality(S) = 0 <=> S = {}
           /\ t \notin S => /\ Cardinality(S \cup {t}) = Cardinality(S) + 1
                            /\ Cardinality(S \ {t}) = Cardinality(S)
           /\ t \in S => /\ Cardinality(S \cup {t}) = Cardinality(S)
                         /\ Cardinality(S \ {t}) = Cardinality(S) - 1
  <1>1. t \notin S => S \ {t} = S  OBVIOUS
  <1>2. t \in S => S \cup {t} = S  OBVIOUS
  <1>3. IsFiniteSet(S) /\ Cardinality(S) \in Nat
    BY FS_Subset, FS_CardinalityType
  <1> QED  BY <1>1, <1>2, <1>3, FS_EmptySet, FS_AddElement, FS_RemoveElement, Zenon

(* A zero counter means an empty set, whoever looks.                        *)
LEMMA CountersTell ==
    ASSUME IsFiniteSet(Threads), NEW s \in Nat, NEW w \in Nat,
           NEW pc \in [Threads -> Places], Counted(s, w, pc),
           NEW t \in Threads
    PROVE  /\ s \in Nat /\ w \in Nat
           /\ pc[t] = "reading" => s > 0
           /\ Queues(pc[t]) => w > 0
  <1>1. Readers(pc) \subseteq Threads /\ Queue(pc) \subseteq Threads
    BY DEF Readers, Queue
  <1>2. (s = 0 <=> Readers(pc) = {}) /\ (w = 0 <=> Queue(pc) = {})
    BY <1>1, CountStep, Zenon DEF Counted
  <1> QED  BY <1>2 DEF Counted, Readers, Queue

(* A step that moves t keeps the counters exact when they follow it.        *)
LEMMA CountedMove ==
    ASSUME IsFiniteSet(Threads),
           NEW s \in Nat, NEW w \in Nat,
           NEW pc \in [Threads -> Places], Counted(s, w, pc),
           NEW t \in Threads, NEW v \in Places,
           NEW s2 \in Nat, NEW w2 \in Nat,
           s2 = IF v = "reading" /\ pc[t] # "reading" THEN s + 1
                ELSE IF v # "reading" /\ pc[t] = "reading" THEN s - 1 ELSE s,
           w2 = IF Queues(v) /\ ~Queues(pc[t]) THEN w + 1
                ELSE IF ~Queues(v) /\ Queues(pc[t]) THEN w - 1 ELSE w
    PROVE  Counted(s2, w2, [pc EXCEPT ![t] = v])
  <1> DEFINE pc2 == [pc EXCEPT ![t] = v]
             R == Readers(pc)
             Q == Queue(pc)
  <1>1. /\ s = Cardinality(R) /\ w = Cardinality(Q)
        /\ R \subseteq Threads /\ Q \subseteq Threads
        /\ t \in R <=> pc[t] = "reading"
        /\ t \in Q <=> Queues(pc[t])
    BY DEF Counted, Readers, Queue
  <1>2. pc2 \in [Threads -> Places]
    BY DEF Counted
  <1>3. s2 = Cardinality(Readers(pc2))
    <2>1. v = "reading" => Readers(pc2) = R \cup {t}
      BY DEF Counted, Readers
    <2>2. v # "reading" => Readers(pc2) = R \ {t}
      BY DEF Counted, Readers
    <2>3. /\ t \notin R => /\ Cardinality(R \cup {t}) = Cardinality(R) + 1
                        /\ Cardinality(R \ {t}) = Cardinality(R)
          /\ t \in R => /\ Cardinality(R \cup {t}) = Cardinality(R)
                     /\ Cardinality(R \ {t}) = Cardinality(R) - 1
      BY <1>1, CountStep, Zenon
    <2>4. CASE v = "reading"
      BY <1>1, <2>1, <2>3, <2>4, Zenon
    <2>5. CASE v # "reading"
      BY <1>1, <2>2, <2>3, <2>5, Zenon
    <2> QED  BY <2>4, <2>5
  <1>4. w2 = Cardinality(Queue(pc2))
    <2>1. Queues(v) => Queue(pc2) = Q \cup {t}
      BY DEF Counted, Queue
    <2>2. ~Queues(v) => Queue(pc2) = Q \ {t}
      BY DEF Counted, Queue
    <2>3. /\ t \notin Q => /\ Cardinality(Q \cup {t}) = Cardinality(Q) + 1
                        /\ Cardinality(Q \ {t}) = Cardinality(Q)
          /\ t \in Q => /\ Cardinality(Q \cup {t}) = Cardinality(Q)
                     /\ Cardinality(Q \ {t}) = Cardinality(Q) - 1
      BY <1>1, CountStep, Zenon
    <2>4. CASE Queues(v)
      BY <1>1, <2>1, <2>3, <2>4, Zenon
    <2>5. CASE ~Queues(v)
      BY <1>1, <2>2, <2>3, <2>5, Zenon
    <2> QED  BY <2>4, <2>5
  <1> QED  BY <1>2, <1>3, <1>4 DEF Counted

-----------------------------------------------------------------------------
(* A writer that must wait: from the call or from a wake-up.                *)
LEMMA WriterParks ==
    ASSUME IsFiniteSet(Threads),
           NEW x \in BOOLEAN, NEW s \in Nat, NEW w \in Nat,
           NEW pc \in [Threads -> Places], Good(x, s, w, pc),
           x = TRUE \/ s > 0, NEW t \in Threads, NEW w2 \in Nat,
           \/ pc[t] = "idle" /\ w2 = w + 1
           \/ pc[t] = "writer_woken" /\ w2 = w
    PROVE  Good(x, s, w2, [pc EXCEPT ![t] = "writer_parked"])
  <1> DEFINE pc2 == [pc EXCEPT ![t] = "writer_parked"]
  <1>1. Counted(s, w, pc) /\ Alone(x, pc)
    BY DEF Good
  <1>2. (Queues(pc[t]) <=> pc[t] = "writer_woken") /\ pc[t] # "reading"
    BY DEF Queues
  <1>3. w2 > 0
    <2>1. Queues(pc[t]) => w > 0  BY <1>1, CountersTell
    <2> QED  BY <2>1 DEF Queues
  <1>4. Alone(x, pc2)
    BY <1>1 DEF Alone, Inside
  <1>5. "writer_parked" \in Places /\ Queues("writer_parked")
    BY DEF Places, Queues
  <1>6. Counted(s, w2, pc2)
    BY <1>1, <1>2, <1>5, CountedMove, Zenon
  <1> QED  BY <1>3, <1>4, <1>6 DEF Good, ReadersWatched, WritersWatched

(* A writer that finds the lock free: w2 is the queue without it.           *)
LEMMA WriterEnters ==
    ASSUME IsFiniteSet(Threads),
           NEW x \in BOOLEAN, NEW s \in Nat, NEW w \in Nat,
           NEW pc \in [Threads -> Places], Good(x, s, w, pc),
           ~(x = TRUE \/ s > 0), NEW t \in Threads, NEW w2 \in Nat,
           \/ pc[t] = "idle" /\ w2 = w
           \/ pc[t] = "writer_woken" /\ w2 = w - 1
    PROVE  Good(TRUE, s, w2, [pc EXCEPT ![t] = "writing"])
  <1> DEFINE pc2 == [pc EXCEPT ![t] = "writing"]
  <1>1. Counted(s, w, pc) /\ Alone(x, pc)
    BY DEF Good
  <1>2. (Queues(pc[t]) <=> pc[t] = "writer_woken") /\ pc[t] # "reading"
    BY DEF Queues
  <1>3. \A u \in Threads : ~(pc[u] = "reading") /\ ~(pc[u] = "writing")
    BY <1>1, CountersTell DEF Alone
  <1>4. Alone(TRUE, pc2)
    BY <1>1, <1>3 DEF Alone, Inside
  <1>5. "writing" \in Places /\ ~Queues("writing")
    BY DEF Places, Queues
  <1>6. Counted(s, w2, pc2)
    BY <1>1, <1>2, <1>5, CountedMove, Zenon
  <1> QED  BY <1>4, <1>6, Zenon DEF Good, ReadersWatched, WritersWatched

(* A reader that must wait.                                                 *)
LEMMA ReaderParks ==
    ASSUME IsFiniteSet(Threads),
           NEW x \in BOOLEAN, NEW s \in Nat, NEW w \in Nat,
           NEW pc \in [Threads -> Places], Good(x, s, w, pc),
           x = TRUE \/ w > 0, NEW t \in Threads,
           pc[t] = "idle" \/ pc[t] = "reader_woken"
    PROVE  Good(x, s, w, [pc EXCEPT ![t] = "reader_parked"])
  <1> DEFINE pc2 == [pc EXCEPT ![t] = "reader_parked"]
  <1>1. Counted(s, w, pc) /\ Alone(x, pc) /\ WritersWatched(x, s, pc)
    BY DEF Good
  <1>2. ~Queues(pc[t]) /\ pc[t] # "reading"
    BY DEF Queues
  <1>3. Alone(x, pc2)
    BY <1>1 DEF Alone, Inside
  <1>4. "reader_parked" \in Places /\ ~Queues("reader_parked")
    BY DEF Places, Queues
  <1>5. Counted(s, w, pc2)
    BY <1>1, <1>2, <1>4, CountedMove, Zenon
  <1>6. WritersWatched(x, s, pc2)
    BY <1>1 DEF WritersWatched
  <1> QED  BY <1>3, <1>5, <1>6 DEF Good, ReadersWatched

(* A reader that finds neither a writer nor a queue of them.                *)
LEMMA ReaderEnters ==
    ASSUME IsFiniteSet(Threads),
           NEW x \in BOOLEAN, NEW s \in Nat, NEW w \in Nat,
           NEW pc \in [Threads -> Places], Good(x, s, w, pc),
           ~(x = TRUE \/ w > 0), NEW t \in Threads,
           pc[t] = "idle" \/ pc[t] = "reader_woken"
    PROVE  Good(x, s + 1, w, [pc EXCEPT ![t] = "reading"])
  <1> DEFINE pc2 == [pc EXCEPT ![t] = "reading"]
  <1>1. Counted(s, w, pc) /\ Alone(x, pc) /\ ReadersWatched(x, w, pc)
    BY DEF Good
  <1>2. ~Queues(pc[t]) /\ pc[t] # "reading"
    BY DEF Queues
  <1>3. \A u \in Threads : pc[u] # "writing" /\ ~Queues(pc[u]) /\ pc[u] # "reader_parked"
    <2>1. \A u \in Threads : ~Queues(pc[u])
      BY <1>1, CountersTell
    <2> QED  BY <1>1, <2>1 DEF Alone, ReadersWatched
  <1>4. Alone(x, pc2)
    BY <1>1, <1>3 DEF Alone, Inside
  <1>5. "reading" \in Places /\ ~Queues("reading")
    BY DEF Places, Queues
  <1>6. Counted(s + 1, w, pc2)
    <2>1. s + 1 \in Nat  OBVIOUS
    <2> QED  BY <1>1, <1>2, <1>5, <2>1, CountedMove, Zenon
  <1>7. ReadersWatched(x, w, pc2) /\ WritersWatched(x, s + 1, pc2)
    BY <1>3 DEF ReadersWatched, WritersWatched, Queues
  <1> QED  BY <1>4, <1>6, <1>7 DEF Good

(* cnd_signal: a parked writer, when there is one, has been woken.          *)
LEMMA SignalGood ==
    ASSUME IsFiniteSet(Threads),
           NEW x \in BOOLEAN, NEW s \in Nat, NEW w \in Nat,
           NEW pc \in [Threads -> Places],
           Counted(s, w, pc), Alone(x, pc), ReadersWatched(x, w, pc)
    PROVE  /\ (\A t \in Threads : pc[t] # "writer_parked") => Good(x, s, w, pc)
           /\ \A t \in Threads : pc[t] = "writer_parked"
                 => Good(x, s, w, [pc EXCEPT ![t] = "writer_woken"])
  <1>1. (\A t \in Threads : pc[t] # "writer_parked") => Good(x, s, w, pc)
    BY DEF Good, WritersWatched
  <1>2. ASSUME NEW t \in Threads, pc[t] = "writer_parked"
        PROVE  Good(x, s, w, [pc EXCEPT ![t] = "writer_woken"])
    <2> DEFINE pc2 == [pc EXCEPT ![t] = "writer_woken"]
    <2>1. Queues(pc[t]) /\ pc[t] # "reading" /\ Queues("writer_woken") /\ "writer_woken" \in Places
      BY <1>2 DEF Queues, Places
    <2>2. Counted(s, w, pc2)
      BY <2>1, CountedMove, Zenon
    <2>3. Alone(x, pc2)
      BY <1>2 DEF Alone, Inside
    <2>4. ReadersWatched(x, w, pc2) /\ WritersWatched(x, s, pc2)
      BY <1>2 DEF ReadersWatched, WritersWatched
    <2> QED  BY <2>2, <2>3, <2>4 DEF Good
  <1> QED  BY <1>1, <1>2

(* cnd_broadcast: no reader is left parked.                                 *)
Roused(pc) == [t \in Threads |-> IF pc[t] = "reader_parked" THEN "reader_woken" ELSE pc[t]]

LEMMA BroadcastGood ==
    ASSUME NEW x \in BOOLEAN, NEW s \in Nat, NEW w \in Nat,
           NEW pc \in [Threads -> Places],
           Counted(s, w, pc), Alone(x, pc), WritersWatched(x, s, pc)
    PROVE  Good(x, s, w, Roused(pc))
  <1> DEFINE pc2 == Roused(pc)
  <1>1. pc2 \in [Threads -> Places]
    BY DEF Roused, Places
  <1>2. Readers(pc2) = Readers(pc) /\ Queue(pc2) = Queue(pc)
    BY DEF Roused, Readers, Queue, Queues
  <1>3. Counted(s, w, pc2)
    BY <1>1, <1>2 DEF Counted
  <1>4. Alone(x, pc2)
    BY DEF Alone, Inside, Roused
  <1>5. ReadersWatched(x, w, pc2) /\ WritersWatched(x, s, pc2)
    BY DEF ReadersWatched, WritersWatched, Roused
  <1> QED  BY <1>3, <1>4, <1>5 DEF Good

(* A thread that goes back to idle: from the lock or from a failed wait.    *)
LEMMA LeavesCounted ==
    ASSUME IsFiniteSet(Threads),
           NEW s \in Nat, NEW w \in Nat, NEW pc \in [Threads -> Places], Counted(s, w, pc),
           NEW t \in Threads
    PROVE  LET pc2 == [pc EXCEPT ![t] = "idle"]
           IN  /\ pc[t] = "reading" => s - 1 \in Nat /\ Counted(s - 1, w, pc2)
               /\ Queues(pc[t]) => w - 1 \in Nat /\ Counted(s, w - 1, pc2)
               /\ pc[t] = "writing" \/ pc[t] = "reader_parked" => Counted(s, w, pc2)
  <1> DEFINE pc2 == [pc EXCEPT ![t] = "idle"]
  <1>1. (pc[t] = "reading" => s > 0) /\ (Queues(pc[t]) => w > 0)
    BY CountersTell
  <1>2. "idle" \in Places /\ ~Queues("idle")
    BY DEF Places, Queues
  <1>3. CASE pc[t] = "reading"
    <2>1. ~Queues(pc[t]) /\ s - 1 \in Nat  BY <1>1, <1>3 DEF Queues
    <2>2. Counted(s - 1, w, pc2)  BY <1>2, <1>3, <2>1, CountedMove, Zenon
    <2> QED  BY <1>3, <2>1, <2>2
  <1>4. CASE Queues(pc[t])
    <2>1. pc[t] # "reading" /\ pc[t] # "writing" /\ pc[t] # "reader_parked" /\ w - 1 \in Nat
      BY <1>1, <1>4 DEF Queues
    <2>2. Counted(s, w - 1, pc2)  BY <1>2, <1>4, <2>1, CountedMove, Zenon
    <2> QED  BY <2>1, <2>2
  <1>5. CASE pc[t] = "writing" \/ pc[t] = "reader_parked"
    <2>1. ~Queues(pc[t]) /\ pc[t] # "reading"  BY <1>5 DEF Queues
    <2>2. Counted(s, w, pc2)  BY <1>2, <2>1, CountedMove, Zenon
    <2> QED  BY <2>1, <2>2
  <1> QED  BY <1>3, <1>4, <1>5

-----------------------------------------------------------------------------
(* The fields of the next state, once known, make the invariant.            *)
LEMMA Arrives ==
    ASSUME NEW x \in BOOLEAN, NEW s \in Nat, NEW w \in Nat, NEW f \in Nat,
           NEW pc \in [Threads -> Places],
           mtx' = LockRec(x, s, w, f, pc), Good(x, s, w, pc)
    PROVE  IInv'
  BY DEF IInv

(* The tests of the two loops, on the lock's fields.                        *)
LEMMA Blocked ==
    ASSUME NEW x \in BOOLEAN, NEW s \in Nat, NEW w \in Nat, NEW f, NEW pc
    PROVE  /\ WriterBlocked(LockRec(x, s, w, f, pc)) <=> x = TRUE \/ s > 0
           /\ ReaderBlocked(LockRec(x, s, w, f, pc)) <=> x = TRUE \/ w > 0
  BY DEF WriterBlocked, ReaderBlocked, LockRec

(* One lemma per operation of shared_mutex.c.                               *)
LEMMA LockKeeps ==
    ASSUME IsFiniteSet(Threads), IInv, NEW t \in Threads, Lock(t)
    PROVE  IInv'
  <1>1. PICK x \in BOOLEAN, s \in Nat, w \in Nat, f \in Nat, pc \in [Threads -> Places] :
           mtx = LockRec(x, s, w, f, pc) /\ Good(x, s, w, pc)
    BY DEF IInv
  <1>2. pc[t] = "idle" /\ w + 1 \in Nat
    BY <1>1 DEF Lock, LockRec
  <1>3. CASE x = TRUE \/ s > 0
    <2>1. mtx' = LockRec(x, s, w + 1, f, [pc EXCEPT ![t] = "writer_parked"])
      BY <1>1, <1>3, Zenon DEF Lock, WriterTests, WriterBlocked, LockRec
    <2>2. Good(x, s, w + 1, [pc EXCEPT ![t] = "writer_parked"])
      BY <1>1, <1>2, <1>3, WriterParks, Zenon
    <2>3. [pc EXCEPT ![t] = "writer_parked"] \in [Threads -> Places]
      BY DEF Places
    <2> QED  BY <1>2, <2>1, <2>2, <2>3, Arrives, Zenon
  <1>4. CASE ~(x = TRUE \/ s > 0)
    <2>1. mtx' = LockRec(TRUE, s, (w + 1) - 1, f, [pc EXCEPT ![t] = "writing"])
      <3>1. mtx' = WriterTests(LockRec(x, s, w + 1, f, pc), t)
        BY <1>1 DEF Lock, LockRec
      <3>2. mtx' = [LockRec(x, s, w + 1, f, pc)
                       EXCEPT !.pc[t] = "writing", !.waiting = @ - 1, !.exclusive = TRUE]
        BY <1>2, <1>4, <3>1, Blocked, Zenon DEF WriterTests
      <3> QED  BY <3>2, Zenon DEF LockRec
    <2>4. (w + 1) - 1 = w  OBVIOUS
    <2>2. Good(TRUE, s, w, [pc EXCEPT ![t] = "writing"])
      BY <1>1, <1>2, <1>4, WriterEnters, Zenon
    <2>3. [pc EXCEPT ![t] = "writing"] \in [Threads -> Places]
      BY DEF Places
    <2> QED  BY <2>1, <2>2, <2>3, <2>4, Arrives, Zenon
  <1> QED  BY <1>3, <1>4, Zenon

LEMMA WriterLooksKeeps ==
    ASSUME IsFiniteSet(Threads), IInv, NEW t \in Threads, WriterLooks(t)
    PROVE  IInv'
  <1>1. PICK x \in BOOLEAN, s \in Nat, w \in Nat, f \in Nat, pc \in [Threads -> Places] :
           mtx = LockRec(x, s, w, f, pc) /\ Good(x, s, w, pc)
    BY DEF IInv
  <1>2. pc[t] = "writer_woken"
    BY <1>1 DEF WriterLooks, LockRec
  <1>3. CASE x = TRUE \/ s > 0
    <2>1. mtx' = LockRec(x, s, w, f, [pc EXCEPT ![t] = "writer_parked"])
      BY <1>1, <1>3 DEF WriterLooks, WriterTests, WriterBlocked, LockRec
    <2>2. Good(x, s, w, [pc EXCEPT ![t] = "writer_parked"])
      BY <1>1, <1>2, <1>3, WriterParks, Zenon
    <2>3. [pc EXCEPT ![t] = "writer_parked"] \in [Threads -> Places]
      BY DEF Places
    <2> QED  BY <2>1, <2>2, <2>3, Arrives, Zenon
  <1>4. CASE ~(x = TRUE \/ s > 0)
    <2>1. mtx' = LockRec(TRUE, s, w - 1, f, [pc EXCEPT ![t] = "writing"])
      <3>1. mtx' = [LockRec(x, s, w, f, pc)
                       EXCEPT !.pc[t] = "writing", !.waiting = @ - 1, !.exclusive = TRUE]
        BY <1>1, <1>4, Blocked, Zenon DEF WriterLooks, WriterTests
      <3> QED  BY <3>1, Zenon DEF LockRec
    <2>2. w - 1 \in Nat
      <3>1. Queues(pc[t])  BY <1>2 DEF Queues
      <3>2. w > 0  BY <1>1, <3>1, CountersTell DEF Good
      <3> QED  BY <3>2
    <2>3. Good(TRUE, s, w - 1, [pc EXCEPT ![t] = "writing"])
      BY <1>1, <1>2, <1>4, <2>2, WriterEnters, Zenon
    <2>4. [pc EXCEPT ![t] = "writing"] \in [Threads -> Places]
      BY DEF Places
    <2> QED  BY <2>1, <2>2, <2>3, <2>4, Arrives, Zenon
  <1> QED  BY <1>3, <1>4, Zenon

LEMMA ReaderTestsKeeps ==
    ASSUME IsFiniteSet(Threads), IInv, NEW t \in Threads, SharedLock(t) \/ ReaderLooks(t)
    PROVE  IInv'
  <1>1. PICK x \in BOOLEAN, s \in Nat, w \in Nat, f \in Nat, pc \in [Threads -> Places] :
           mtx = LockRec(x, s, w, f, pc) /\ Good(x, s, w, pc)
    BY DEF IInv
  <1>2. (pc[t] = "idle" \/ pc[t] = "reader_woken") /\ mtx' = ReaderTests(mtx, t)
    BY <1>1 DEF SharedLock, ReaderLooks, LockRec
  <1>3. CASE x = TRUE \/ w > 0
    <2>1. mtx' = LockRec(x, s, w, f, [pc EXCEPT ![t] = "reader_parked"])
      BY <1>1, <1>2, <1>3 DEF ReaderTests, ReaderBlocked, LockRec
    <2>2. Good(x, s, w, [pc EXCEPT ![t] = "reader_parked"])
      BY <1>1, <1>2, <1>3, ReaderParks, Zenon
    <2>3. [pc EXCEPT ![t] = "reader_parked"] \in [Threads -> Places]
      BY DEF Places
    <2> QED  BY <2>1, <2>2, <2>3, Arrives, Zenon
  <1>4. CASE ~(x = TRUE \/ w > 0)
    <2>1. mtx' = LockRec(x, s + 1, w, f, [pc EXCEPT ![t] = "reading"])
      <3>1. mtx' = [LockRec(x, s, w, f, pc) EXCEPT !.pc[t] = "reading", !.shared = @ + 1]
        BY <1>1, <1>2, <1>4, Blocked, Zenon DEF ReaderTests
      <3> QED  BY <3>1, Zenon DEF LockRec
    <2>2. Good(x, s + 1, w, [pc EXCEPT ![t] = "reading"])
      BY <1>1, <1>2, <1>4, ReaderEnters, Zenon
    <2>3. [pc EXCEPT ![t] = "reading"] \in [Threads -> Places] /\ s + 1 \in Nat
      BY DEF Places
    <2> QED  BY <2>1, <2>2, <2>3, Arrives, Zenon
  <1> QED  BY <1>3, <1>4, Zenon

LEMMA TryKeeps ==
    ASSUME IsFiniteSet(Threads), IInv, NEW t \in Threads, TryLock(t) \/ TrySharedLock(t)
    PROVE  IInv'
  <1>1. PICK x \in BOOLEAN, s \in Nat, w \in Nat, f \in Nat, pc \in [Threads -> Places] :
           mtx = LockRec(x, s, w, f, pc) /\ Good(x, s, w, pc)
    BY DEF IInv
  <1>2. CASE TryLock(t)
    <2>1. pc[t] = "idle" /\ ~(x = TRUE \/ s > 0)
      BY <1>1, <1>2 DEF TryLock, WriterBlocked, LockRec
    <2>2. mtx' = LockRec(TRUE, s, w, f, [pc EXCEPT ![t] = "writing"])
      BY <1>1, <1>2, Zenon DEF TryLock, LockRec
    <2>3. Good(TRUE, s, w, [pc EXCEPT ![t] = "writing"])
      BY <1>1, <2>1, WriterEnters, Zenon
    <2>4. [pc EXCEPT ![t] = "writing"] \in [Threads -> Places]
      BY DEF Places
    <2> QED  BY <2>2, <2>3, <2>4, Arrives, Zenon
  <1>3. CASE TrySharedLock(t)
    <2>1. pc[t] = "idle" /\ ~(x = TRUE \/ w > 0)
      BY <1>1, <1>3 DEF TrySharedLock, ReaderBlocked, LockRec
    <2>2. mtx' = LockRec(x, s + 1, w, f, [pc EXCEPT ![t] = "reading"])
      BY <1>1, <1>3, Zenon DEF TrySharedLock, LockRec
    <2>3. Good(x, s + 1, w, [pc EXCEPT ![t] = "reading"])
      BY <1>1, <2>1, ReaderEnters, Zenon
    <2>4. [pc EXCEPT ![t] = "reading"] \in [Threads -> Places] /\ s + 1 \in Nat
      BY DEF Places
    <2> QED  BY <2>2, <2>3, <2>4, Arrives, Zenon
  <1> QED  BY <1>2, <1>3

(* Signal and Broadcast of a record, in its fields.                         *)
LEMMA Wakes ==
    ASSUME IsFiniteSet(Threads),
           NEW x \in BOOLEAN, NEW s \in Nat, NEW w \in Nat, NEW f \in Nat,
           NEW pc \in [Threads -> Places],
           Counted(s, w, pc), Alone(x, pc)
    PROVE  /\ ReadersWatched(x, w, pc) /\ mtx' \in Signal(LockRec(x, s, w, f, pc)) => IInv'
           /\ WritersWatched(x, s, pc) /\ mtx' \in Broadcast(LockRec(x, s, w, f, pc)) => IInv'
  <1> DEFINE m == LockRec(x, s, w, f, pc)
             parked == {t \in Threads : m.pc[t] = "writer_parked"}
  <1>0. m.pc = pc
    BY DEF LockRec
  <1>1. ASSUME ReadersWatched(x, w, pc), mtx' \in Signal(m)
        PROVE  IInv'
    <2>1. CASE parked = {}
      <3>1. mtx' = m
        BY <1>1, <2>1 DEF Signal
      <3>2. \A t \in Threads : pc[t] # "writer_parked"
        BY <1>0, <2>1
      <3>3. Good(x, s, w, pc)
        BY <1>1, <3>2, SignalGood
      <3> QED  BY <3>1, <3>3, Arrives
    <2>2. CASE parked # {}
      <3>1. PICK t \in Threads : pc[t] = "writer_parked" /\ mtx' = [m EXCEPT !.pc[t] = "writer_woken"]
        BY <1>0, <1>1, <2>2 DEF Signal
      <3>2. mtx' = LockRec(x, s, w, f, [pc EXCEPT ![t] = "writer_woken"])
        BY <3>1 DEF LockRec
      <3>3. Good(x, s, w, [pc EXCEPT ![t] = "writer_woken"])
        BY <1>1, <3>1, SignalGood, Zenon
      <3>4. [pc EXCEPT ![t] = "writer_woken"] \in [Threads -> Places]
        BY DEF Places
      <3> QED  BY <3>2, <3>3, <3>4, Arrives, Zenon
    <2> QED  BY <2>1, <2>2
  <1>2. ASSUME WritersWatched(x, s, pc), mtx' \in Broadcast(m)
        PROVE  IInv'
    <2>1. mtx' = LockRec(x, s, w, f, Roused(pc))
      BY <1>2 DEF Broadcast, LockRec, Roused
    <2>2. Good(x, s, w, Roused(pc))
      BY <1>2, BroadcastGood
    <2>3. Roused(pc) \in [Threads -> Places]
      BY DEF Roused, Places
    <2> QED  BY <2>1, <2>2, <2>3, Arrives
  <1> QED  BY <1>1, <1>2

LEMMA UnlockKeeps ==
    ASSUME IsFiniteSet(Threads), IInv, NEW t \in Threads, Unlock(t)
    PROVE  IInv'
  <1>1. PICK x \in BOOLEAN, s \in Nat, w \in Nat, f \in Nat, pc \in [Threads -> Places] :
           mtx = LockRec(x, s, w, f, pc) /\ Good(x, s, w, pc)
    BY DEF IInv
  <1>2. Counted(s, w, pc) /\ Alone(x, pc) /\ ReadersWatched(x, w, pc) /\ WritersWatched(x, s, pc)
    BY <1>1 DEF Good
  <1> DEFINE pc2 == [pc EXCEPT ![t] = "idle"]
             m == LockRec(FALSE, s, w, f, pc2)
  <1>3. pc[t] = "writing" /\ mtx' \in IF w > 0 THEN Signal(m) ELSE Broadcast(m)
    <2>1. m = [mtx EXCEPT !.exclusive = FALSE, !.pc[t] = "idle"]
      <3>1. PICK k : k = [mtx EXCEPT !.exclusive = FALSE, !.pc[t] = "idle"]  OBVIOUS
      <3>2. k = m  BY <1>1, <3>1, Zenon DEF LockRec
      <3> HIDE DEF m
      <3> QED  BY <3>1, <3>2
    <2>2. m.waiting = w
      BY DEF LockRec
    <2>3. pc[t] = "writing"
      BY <1>1 DEF Unlock, LockRec
    <2> HIDE DEF m
    <2> QED  BY <2>1, <2>2, <2>3 DEF Unlock
  <1>4. Counted(s, w, pc2) /\ pc2 \in [Threads -> Places]
    BY <1>2, <1>3, LeavesCounted, Zenon DEF Places
  <1>5. Alone(FALSE, pc2)
    BY <1>2, <1>3 DEF Alone, Inside
  <1>6. w > 0 => ReadersWatched(FALSE, w, pc2)
    BY DEF ReadersWatched
  <1>7. ~(w > 0) => WritersWatched(FALSE, s, pc2)
    <2>1. \A u \in Threads : Queues(pc2[u]) => w > 0
      BY <1>4, CountersTell, Zenon
    <2> QED  BY <2>1 DEF WritersWatched, Queues
  <1> QED  BY <1>3, <1>4, <1>5, <1>6, <1>7, Wakes, Zenon

LEMMA SharedUnlockKeeps ==
    ASSUME IsFiniteSet(Threads), IInv, NEW t \in Threads, SharedUnlock(t)
    PROVE  IInv'
  <1>1. PICK x \in BOOLEAN, s \in Nat, w \in Nat, f \in Nat, pc \in [Threads -> Places] :
           mtx = LockRec(x, s, w, f, pc) /\ Good(x, s, w, pc)
    BY DEF IInv
  <1>2. Counted(s, w, pc) /\ Alone(x, pc) /\ ReadersWatched(x, w, pc) /\ WritersWatched(x, s, pc)
    BY <1>1 DEF Good
  <1> DEFINE pc2 == [pc EXCEPT ![t] = "idle"]
             m == LockRec(x, s - 1, w, f, pc2)
  <1>3. pc[t] = "reading" /\ mtx' \in IF s - 1 = 0 THEN Signal(m) ELSE {m}
    <2>1. m = [mtx EXCEPT !.shared = @ - 1, !.pc[t] = "idle"]
      <3>1. PICK k : k = [mtx EXCEPT !.shared = @ - 1, !.pc[t] = "idle"]  OBVIOUS
      <3>2. k = m  BY <1>1, <3>1, Zenon DEF LockRec
      <3> HIDE DEF m
      <3> QED  BY <3>1, <3>2
    <2>2. m.shared = s - 1
      BY DEF LockRec
    <2>3. pc[t] = "reading"
      BY <1>1 DEF SharedUnlock, LockRec
    <2> HIDE DEF m
    <2> QED  BY <2>1, <2>2, <2>3, Zenon DEF SharedUnlock
  <1>4. s - 1 \in Nat /\ Counted(s - 1, w, pc2) /\ pc2 \in [Threads -> Places]
    BY <1>2, <1>3, LeavesCounted, Zenon DEF Places
  <1>5. Alone(x, pc2)
    BY <1>2, <1>3 DEF Alone, Inside
  <1>6. ReadersWatched(x, w, pc2)
    BY <1>2 DEF ReadersWatched
  <1>7. CASE s - 1 = 0
    BY <1>3, <1>4, <1>5, <1>6, <1>7, Wakes, Zenon
  <1>8. CASE s - 1 # 0
    <2>1. mtx' = m /\ s - 1 > 0
      BY <1>3, <1>4, <1>8
    <2>2. WritersWatched(x, s - 1, pc2)
      BY <2>1 DEF WritersWatched
    <2> QED  BY <1>4, <1>5, <1>6, <2>1, <2>2, Arrives, Zenon DEF Good
  <1> QED  BY <1>7, <1>8

LEMMA WriterGivesUpKeeps ==
    ASSUME IsFiniteSet(Threads), IInv, NEW t \in Threads, WriterGivesUp(t)
    PROVE  IInv'
  <1>1. PICK x \in BOOLEAN, s \in Nat, w \in Nat, f \in Nat, pc \in [Threads -> Places] :
           mtx = LockRec(x, s, w, f, pc) /\ Good(x, s, w, pc)
    BY DEF IInv
  <1>2. Counted(s, w, pc) /\ Alone(x, pc) /\ ReadersWatched(x, w, pc) /\ WritersWatched(x, s, pc)
    BY <1>1 DEF Good
  <1> DEFINE pc2 == [pc EXCEPT ![t] = "idle"]
             m == LockRec(x, s, w - 1, f - 1, pc2)
  <1>3. pc[t] = "writer_parked" /\ f - 1 \in Nat
    BY <1>1 DEF WriterGivesUp, LockRec
  <1>4. mtx' \in IF ~(x = TRUE) /\ w - 1 = 0 THEN Broadcast(m) ELSE {m}
    <2>1. m = [mtx EXCEPT !.waiting = @ - 1, !.pc[t] = "idle", !.fail = @ - 1]
      <3>1. PICK k : k = [mtx EXCEPT !.waiting = @ - 1, !.pc[t] = "idle", !.fail = @ - 1]  OBVIOUS
      <3>2. k = m  BY <1>1, <3>1, Zenon DEF LockRec
      <3> HIDE DEF m
      <3> QED  BY <3>1, <3>2
    <2>2. (m.exclusive <=> x = TRUE) /\ m.waiting = w - 1
      BY DEF LockRec
    <2> HIDE DEF m
    <2> QED  BY <2>1, <2>2, Zenon DEF WriterGivesUp
  <1>5. w - 1 \in Nat /\ Counted(s, w - 1, pc2) /\ pc2 \in [Threads -> Places]
    BY <1>2, <1>3, LeavesCounted, Zenon DEF Queues, Places
  <1>6. Alone(x, pc2)
    BY <1>2, <1>3 DEF Alone, Inside
  <1>7. WritersWatched(x, s, pc2)
    BY <1>2, <1>3 DEF WritersWatched
  <1>8. CASE ~(x = TRUE) /\ w - 1 = 0
    BY <1>3, <1>4, <1>5, <1>6, <1>7, <1>8, Wakes, Zenon
  <1>9. CASE ~(~(x = TRUE) /\ w - 1 = 0)
    <2>1. mtx' = m /\ ReadersWatched(x, w - 1, pc2)
      BY <1>4, <1>5, <1>9 DEF ReadersWatched
    <2> QED  BY <1>3, <1>5, <1>6, <1>7, <2>1, Arrives, Zenon DEF Good
  <1> QED  BY <1>8, <1>9, Zenon

LEMMA ReaderGivesUpKeeps ==
    ASSUME IsFiniteSet(Threads), IInv, NEW t \in Threads, ReaderGivesUp(t)
    PROVE  IInv'
  <1>1. PICK x \in BOOLEAN, s \in Nat, w \in Nat, f \in Nat, pc \in [Threads -> Places] :
           mtx = LockRec(x, s, w, f, pc) /\ Good(x, s, w, pc)
    BY DEF IInv
  <1>2. Counted(s, w, pc) /\ Alone(x, pc) /\ ReadersWatched(x, w, pc) /\ WritersWatched(x, s, pc)
    BY <1>1 DEF Good
  <1> DEFINE pc2 == [pc EXCEPT ![t] = "idle"]
  <1>3. pc[t] = "reader_parked" /\ f - 1 \in Nat /\ mtx' = LockRec(x, s, w, f - 1, pc2)
    <2>1. mtx' = LockRec(x, s, w, f - 1, pc2)
      BY <1>1, Zenon DEF ReaderGivesUp, LockRec
    <2>2. pc[t] = "reader_parked" /\ f > 0
      BY <1>1 DEF ReaderGivesUp, LockRec
    <2> QED  BY <2>1, <2>2
  <1>4. Counted(s, w, pc2) /\ pc2 \in [Threads -> Places]
    BY <1>2, <1>3, LeavesCounted, Zenon DEF Places
  <1>5. Alone(x, pc2) /\ ReadersWatched(x, w, pc2) /\ WritersWatched(x, s, pc2)
    BY <1>2, <1>3 DEF Alone, Inside, ReadersWatched, WritersWatched
  <1> QED  BY <1>3, <1>4, <1>5, Arrives, Zenon DEF Good

LEMMA SpuriousKeeps ==
    ASSUME IsFiniteSet(Threads), IInv, NEW t \in Threads, Spurious(t)
    PROVE  IInv'
  <1>1. PICK x \in BOOLEAN, s \in Nat, w \in Nat, f \in Nat, pc \in [Threads -> Places] :
           mtx = LockRec(x, s, w, f, pc) /\ Good(x, s, w, pc)
    BY DEF IInv
  <1>2. Counted(s, w, pc) /\ Alone(x, pc) /\ ReadersWatched(x, w, pc) /\ WritersWatched(x, s, pc)
    BY <1>1 DEF Good
  <1>3. CASE pc[t] = "writer_parked"
    <2>1. mtx' = LockRec(x, s, w, f, [pc EXCEPT ![t] = "writer_woken"])
      BY <1>1, <1>3 DEF Spurious, LockRec
    <2>2. Good(x, s, w, [pc EXCEPT ![t] = "writer_woken"])
      BY <1>2, <1>3, SignalGood, Zenon
    <2>3. [pc EXCEPT ![t] = "writer_woken"] \in [Threads -> Places]
      BY DEF Places
    <2> QED  BY <2>1, <2>2, <2>3, Arrives, Zenon
  <1>4. CASE pc[t] = "reader_parked"
    <2> DEFINE pc2 == [pc EXCEPT ![t] = "reader_woken"]
    <2>1. mtx' = LockRec(x, s, w, f, pc2)
      BY <1>1, <1>4 DEF Spurious, LockRec
    <2>2. /\ "reader_woken" \in Places /\ ~Queues("reader_woken")
          /\ ~Queues(pc[t]) /\ pc[t] # "reading"
      BY <1>4 DEF Places, Queues
    <2>3. Counted(s, w, pc2) /\ pc2 \in [Threads -> Places]
      BY <1>2, <2>2, CountedMove, Zenon
    <2>4. Alone(x, pc2) /\ ReadersWatched(x, w, pc2) /\ WritersWatched(x, s, pc2)
      BY <1>2, <1>4 DEF Alone, Inside, ReadersWatched, WritersWatched
    <2> QED  BY <2>1, <2>3, <2>4, Arrives, Zenon DEF Good
  <1>5. pc[t] = "writer_parked" \/ pc[t] = "reader_parked"
    BY <1>1 DEF Spurious, LockRec
  <1> QED  BY <1>3, <1>4, <1>5

-----------------------------------------------------------------------------
LEMMA InitHolds ==
    ASSUME IsFiniteSet(Threads), NEW Fails \in Nat, Init(Fails)
    PROVE  IInv
  <1> DEFINE pc == [t \in Threads |-> "idle"]
  <1>1. mtx = LockRec(FALSE, 0, 0, Fails, pc) /\ pc \in [Threads -> Places]
    BY DEF Init, LockRec, Places
  <1>2. Readers(pc) = {} /\ Queue(pc) = {}
    BY DEF Readers, Queue, Queues
  <1>3. Counted(0, 0, pc)
    BY <1>1, <1>2, FS_EmptySet DEF Counted
  <1>4. Alone(FALSE, pc) /\ ReadersWatched(FALSE, 0, pc) /\ WritersWatched(FALSE, 0, pc)
    BY DEF Alone, Inside, ReadersWatched, WritersWatched
  <1>5. Good(FALSE, 0, 0, pc)
    BY <1>3, <1>4, Zenon DEF Good
  <1> QED  BY <1>1, <1>5, Zenon DEF IInv

LEMMA NextKeeps ==
    ASSUME IsFiniteSet(Threads), IInv, [Next]_mtx
    PROVE  IInv'
  <1>1. CASE Next
    <2>1. PICK t \in Threads :
             \/ Lock(t) \/ SharedLock(t)
             \/ WriterLooks(t) \/ ReaderLooks(t) \/ Spurious(t)
             \/ WriterGivesUp(t) \/ ReaderGivesUp(t)
             \/ TryLock(t) \/ TrySharedLock(t)
             \/ Unlock(t) \/ SharedUnlock(t)
      BY <1>1 DEF Next
    <2> QED  BY <2>1, LockKeeps, WriterLooksKeeps, ReaderTestsKeeps, SpuriousKeeps, WriterGivesUpKeeps,
                ReaderGivesUpKeeps, TryKeeps, UnlockKeeps, SharedUnlockKeeps
  <1>2. CASE UNCHANGED mtx
    BY <1>2 DEF IInv
  <1> QED  BY <1>1, <1>2

(* The invariant says what the two properties of the lock say.              *)
LEMMA GoodMeans ==
    ASSUME IsFiniteSet(Threads), IInv
    PROVE  Exclusion /\ NoLostWakeup
  <1>1. PICK x \in BOOLEAN, s \in Nat, w \in Nat, f \in Nat, pc \in [Threads -> Places] :
           mtx = LockRec(x, s, w, f, pc) /\ Good(x, s, w, pc)
    BY DEF IInv
  <1>2. Counted(s, w, pc) /\ Alone(x, pc) /\ ReadersWatched(x, w, pc) /\ WritersWatched(x, s, pc)
    BY <1>1 DEF Good
  <1>3. mtx.exclusive = x /\ mtx.shared = s /\ mtx.waiting = w /\ mtx.pc = pc
    BY <1>1 DEF LockRec
  <1>4. At({"reading"}) = Readers(pc) /\ At({"writer_parked", "writer_woken"}) = Queue(pc)
    BY <1>3 DEF At, Readers, Queue, Queues
  <1>5. /\ mtx.shared = Cardinality(At({"reading"}))
        /\ mtx.waiting = Cardinality(At({"writer_parked", "writer_woken"}))
    BY <1>2, <1>3, <1>4 DEF Counted
  <1>6. At({"writing"}) # {} => Cardinality(At({"writing", "reading"})) = 1
    <2>1. SUFFICES ASSUME NEW t \in Threads, pc[t] = "writing"
                   PROVE  At({"writing", "reading"}) = {t}
      BY <1>3, FS_Singleton, Zenon DEF At
    <2> QED  BY <1>2, <1>3, <2>1 DEF At, Alone, Inside
  <1>7. mtx.exclusive = (At({"writing"}) # {})
    <2>1. x = TRUE <=> At({"writing"}) # {}
      BY <1>2, <1>3 DEF Alone, At
    <2> QED  BY <1>3, <2>1
  <1>8. NoLostWakeup
    <2>1. (At({"reader_parked"}) # {} <=> \E t \in Threads : pc[t] = "reader_parked")
          /\ (At({"writer_parked"}) # {} <=> \E t \in Threads : pc[t] = "writer_parked")
          /\ (At({"writer_woken"}) # {} <=> \E t \in Threads : pc[t] = "writer_woken")
      BY <1>3 DEF At
    <2>2. (WriterBlocked(mtx) <=> x = TRUE \/ s > 0) /\ (ReaderBlocked(mtx) <=> x = TRUE \/ w > 0)
      BY <1>1, Blocked, Zenon
    <2> QED  BY <1>2, <2>1, <2>2 DEF NoLostWakeup, ReadersWatched, WritersWatched
  <1> QED  BY <1>5, <1>6, <1>7, <1>8 DEF Exclusion

(* With any finite number of threads and any number of failing waits, a     *)
(* writer is alone in the lock and the counters of shared_mutex.c say       *)
(* exactly who is in it and who queues for it.                              *)
THEOREM LockExcludes ==
    ASSUME IsFiniteSet(Threads), NEW Fails \in Nat
    PROVE  MutexSpec(Fails) => []Exclusion
  <1>1. Init(Fails) => IInv
    BY InitHolds
  <1>2. IInv /\ [Next]_mtx => IInv'
    BY NextKeeps
  <1>3. IInv => Exclusion
    BY GoodMeans
  <1> QED  BY <1>1, <1>2, <1>3, PTL DEF MutexSpec

(* No wake-up is lost, spurious ones and failing waits included: the signal *)
(* and the broadcast of the unlock paths, chosen by the waiting counter,    *)
(* leave no reader parked that may enter, and no free lock with only parked *)
(* writers.                                                                 *)
THEOREM LockWakes ==
    ASSUME IsFiniteSet(Threads), NEW Fails \in Nat
    PROVE  MutexSpec(Fails) => []NoLostWakeup
  <1>1. Init(Fails) => IInv
    BY InitHolds
  <1>2. IInv /\ [Next]_mtx => IInv'
    BY NextKeeps
  <1>3. IInv => NoLostWakeup
    BY GoodMeans
  <1> QED  BY <1>1, <1>2, <1>3, PTL DEF MutexSpec
=============================================================================
