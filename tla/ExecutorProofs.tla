--------------------------- MODULE ExecutorProofs ---------------------------
(***************************************************************************)
(* The worker pool is right for any number of workers and any capacity of  *)
(* its ring, both at least one as executor_create demands.  The inductive  *)
(* invariant has three parts, over the fields of the executor:             *)
(*   Queued   the ring holds, in order, what was accepted and not yet run; *)
(*   Manned   who of the workers exists, what the counters say of them and *)
(*            who may still touch the executor;                            *)
(*   Awake    nobody sleeps past its work.                                 *)
(***************************************************************************)
EXTENDS Executor, FiniteSetTheorems, TLAPS

PoolSpec(Tasks) == Init(Tasks) /\ [][Next]_exe

(* What executor_create demands of its arguments.                          *)
PoolSize(n) == n \in Nat \ {0} /\ Workers = 1..n /\ Capacity \in Nat \ {0}

Slots == 0..(Capacity - 1)
Places == {"unborn", "looking", "parked", "running", "leaving", "gone"}
Owners == {"creating", "owning", "joining", "gone"}

Lives(p) == p = "parked" \/ p = "looking" \/ p = "running" \/ p = "leaving"
Living(pc) == {w \in Workers : Lives(pc[w])}
Lookers(pc) == {w \in Workers : pc[w] = "looking"}

Queued(buf, head, count, taken, ran) ==
    /\ buf \in [Slots -> Nat] /\ head \in Slots /\ count \in 0..Capacity
    /\ taken \in Seq(Nat) /\ ran \in Seq(Nat) /\ Len(taken) = Len(ran) + count
    /\ \A i \in 1..Len(ran) : taken[i] = ran[i]
    /\ \A i \in 1..count : taken[Len(ran) + i] = buf[Slot(head + i - 1)]

Awake(exit, pc, count) ==
    /\ exit = TRUE => \A w \in Workers : pc[w] # "parked"
    /\ (\E w \in Workers : pc[w] = "parked") => count <= Cardinality(Lookers(pc))

Born(n, started, pc) == started \in 0..n /\ \A w \in Workers : pc[w] = "unborn" <=> w > started

Departs(exit, pc, count) ==
    \A w \in Workers : pc[w] = "leaving" \/ pc[w] = "gone" => exit = TRUE /\ count = 0

Held(n, exit, det, started, live, owner, freed, count) ==
    /\ owner = "creating" => exit # TRUE /\ det # TRUE /\ freed = 0 /\ count = 0
    /\ owner = "owning" => exit # TRUE /\ det # TRUE /\ freed = 0 /\ started = n
    /\ owner = "joining" => exit = TRUE /\ det # TRUE /\ freed = 0 /\ started = n
    /\ owner = "gone" => /\ exit = TRUE /\ (live = 0 => freed = 1) /\ (live # 0 => freed = 0)
                        /\ (det # TRUE => live = 0) /\ (started = 0 => count = 0)

Manned(n, exit, det, started, live, pc, owner, freed, count) ==
    /\ Born(n, started, pc) /\ live = Cardinality(Living(pc))
    /\ Departs(exit, pc, count)
    /\ Held(n, exit, det, started, live, owner, freed, count)

Exe(buf, head, count, taken, ran, next, tasks, exit, det, started, live, pc, owner, freed) ==
    [ring |-> [buf |-> buf, head |-> head, count |-> count], exit |-> exit, detached |-> det,
     started |-> started, live |-> live, pc |-> pc, owner |-> owner, freed |-> freed,
     next |-> next, tasks |-> tasks, taken |-> taken, ran |-> ran]

Fine(n, e) ==
    \E exit, det :
    \E buf \in [Slots -> Nat], taken \in Seq(Nat), ran \in Seq(Nat), head \in Nat, count \in Nat,
       next \in Nat, tasks \in Nat, started \in Nat, live \in Nat, pc \in [Workers -> Places],
       owner \in Owners, freed \in Nat :
       /\ e = Exe(buf, head, count, taken, ran, next, tasks, exit, det, started, live, pc, owner, freed)
       /\ Queued(buf, head, count, taken, ran)
       /\ Manned(n, exit, det, started, live, pc, owner, freed, count)
       /\ Awake(exit, pc, count)

IInv(n) == Fine(n, exe)

-----------------------------------------------------------------------------
(* dispatcher.c and executor.c keep head and count below the capacity, so   *)
(* the wrapped index is a slot, and distinct offsets are distinct slots.    *)
LEMMA SlotIn ==
    ASSUME Capacity \in Nat \ {0}, NEW head \in Slots, NEW i \in 0..Capacity
    PROVE  Slot(head + i) \in Slots
  BY DEF Slot, Slots

LEMMA SlotsDiffer ==
    ASSUME Capacity \in Nat \ {0}, NEW head \in Slots, NEW i \in 0..(Capacity - 1),
           NEW j \in 0..(Capacity - 1), i # j
    PROVE  Slot(head + i) # Slot(head + j)
  BY DEF Slot, Slots

LEMMA SlotShifts ==
    ASSUME Capacity \in Nat \ {0}, NEW head \in Slots, NEW i \in 0..(Capacity - 1)
    PROVE  Slot(Slot(head + 1) + i) = Slot(head + (i + 1))
  BY DEF Slot, Slots

(* A task put into a ring that is not full comes after all others.          *)
LEMMA PutQueued ==
    ASSUME Capacity \in Nat \ {0},
           NEW buf, NEW head, NEW count, NEW taken, NEW ran,
           Queued(buf, head, count, taken, ran), count # Capacity, NEW task \in Nat
    PROVE  Queued([buf EXCEPT ![Slot(head + count)] = task], head, count + 1,
                  Append(taken, task), ran)
  <1> DEFINE buf2 == [buf EXCEPT ![Slot(head + count)] = task]
             taken2 == Append(taken, task)
  <1>1. /\ buf \in [Slots -> Nat] /\ head \in Slots /\ count \in 0..(Capacity - 1)
        /\ taken \in Seq(Nat) /\ ran \in Seq(Nat) /\ Len(taken) = Len(ran) + count
        /\ Len(ran) \in Nat /\ Len(taken) \in Nat /\ count \in Nat
    BY DEF Queued, Slots
  <1>2. Slot(head + count) \in Slots
    BY <1>1, SlotIn
  <1>3. buf2 \in [Slots -> Nat]
    BY <1>1, <1>2
  <1>4. /\ taken2 \in Seq(Nat) /\ Len(taken2) = Len(taken) + 1
        /\ \A i \in 1..Len(taken) : taken2[i] = taken[i]
        /\ taken2[Len(taken) + 1] = task
    BY <1>1
  <1>5. \A i \in 1..Len(ran) : taken2[i] = ran[i]
    BY <1>1, <1>4 DEF Queued
  <1>6. ASSUME NEW i \in 1..(count + 1)
        PROVE  taken2[Len(ran) + i] = buf2[Slot(head + i - 1)]
    <2>1. CASE i = count + 1
      <3>1. Len(ran) + i = Len(taken) + 1 /\ head + i - 1 = head + count
        BY <1>1, <2>1 DEF Slots
      <3> QED  BY <1>1, <1>2, <1>4, <3>1
    <2>2. CASE i \in 1..count
      <3>1. Len(ran) + i \in 1..Len(taken) /\ i - 1 \in 0..(Capacity - 1) /\ i - 1 # count
            /\ head + i - 1 = head + (i - 1)
        BY <1>1, <2>2 DEF Slots
      <3>2. Slot(head + i - 1) # Slot(head + count) /\ Slot(head + i - 1) \in Slots
        <4>1. Slot(head + (i - 1)) # Slot(head + count)  BY <1>1, <3>1, SlotsDiffer
        <4>2. Slot(head + (i - 1)) \in Slots  BY <1>1, <3>1, SlotIn
        <4> QED  BY <3>1, <4>1, <4>2
      <3>3. taken[Len(ran) + i] = buf[Slot(head + i - 1)]
        BY <2>2 DEF Queued
      <3> QED  BY <1>1, <1>4, <3>1, <3>2, <3>3
    <2> QED  BY <1>1, <2>1, <2>2
  <1>7. count + 1 \in 0..Capacity /\ Len(taken2) = Len(ran) + (count + 1)
    BY <1>1, <1>4
  <1> HIDE DEF buf2, taken2
  <1>8. Queued(buf2, head, count + 1, taken2, ran)
    BY <1>1, <1>3, <1>4, <1>5, <1>6, <1>7 DEF Queued
  <1> QED  BY <1>8 DEF buf2, taken2

(* The task at the head is the oldest not yet run.                          *)
LEMMA TakeQueued ==
    ASSUME Capacity \in Nat \ {0},
           NEW buf, NEW head, NEW count, NEW taken, NEW ran,
           Queued(buf, head, count, taken, ran), count > 0
    PROVE  Queued(buf, Slot(head + 1), count - 1, taken, Append(ran, buf[head]))
  <1> DEFINE head2 == Slot(head + 1)
             ran2 == Append(ran, buf[head])
  <1>1. /\ buf \in [Slots -> Nat] /\ head \in Slots /\ count \in 1..Capacity
        /\ taken \in Seq(Nat) /\ ran \in Seq(Nat) /\ Len(taken) = Len(ran) + count
        /\ Len(ran) \in Nat /\ Len(taken) \in Nat /\ count \in Nat
    BY DEF Queued, Slots
  <1>2. head2 \in Slots /\ count - 1 \in 0..Capacity
    BY <1>1, SlotIn
  <1>3. /\ ran2 \in Seq(Nat) /\ Len(ran2) = Len(ran) + 1
        /\ \A i \in 1..Len(ran) : ran2[i] = ran[i]
        /\ ran2[Len(ran) + 1] = buf[head]
    BY <1>1
  <1>4. taken[Len(ran) + 1] = buf[head]
    <2>1. 1 \in 1..count /\ Slot(head + 1 - 1) = head
      BY <1>1 DEF Slot, Slots
    <2> QED  BY <2>1 DEF Queued
  <1>5. \A i \in 1..Len(ran2) : taken[i] = ran2[i]
    BY <1>1, <1>3, <1>4 DEF Queued
  <1>6. ASSUME NEW i \in 1..(count - 1)
        PROVE  taken[Len(ran2) + i] = buf[Slot(head2 + i - 1)]
    <2>1. /\ i + 1 \in 1..count /\ i - 1 \in 0..(Capacity - 1) /\ (i - 1) + 1 = i
          /\ head2 + i - 1 = head2 + (i - 1) /\ head + (i + 1) - 1 = head + i
          /\ Len(ran2) + i = Len(ran) + (i + 1)
      BY <1>1, <1>2, <1>3 DEF Slots
    <2>2. Slot(head2 + (i - 1)) = Slot(head + ((i - 1) + 1))
      BY <1>1, <2>1, SlotShifts
    <2>3. taken[Len(ran) + (i + 1)] = buf[Slot(head + (i + 1) - 1)]
      BY <2>1, Zenon DEF Queued
    <2> QED  BY <2>1, <2>2, <2>3
  <1> QED  BY <1>1, <1>2, <1>3, <1>5, <1>6 DEF Queued

-----------------------------------------------------------------------------
(* What one worker entering or leaving a set of workers does to its size.   *)
LEMMA CountStep ==
    ASSUME NEW n, PoolSize(n), NEW S, S \subseteq Workers, NEW w \in Workers
    PROVE  /\ Cardinality(S) \in Nat
           /\ Cardinality(S) = 0 <=> S = {}
           /\ w \notin S => /\ Cardinality(S \cup {w}) = Cardinality(S) + 1
                            /\ Cardinality(S \ {w}) = Cardinality(S)
           /\ w \in S => /\ Cardinality(S \cup {w}) = Cardinality(S)
                         /\ Cardinality(S \ {w}) = Cardinality(S) - 1
  <1>1. w \notin S => S \ {w} = S  OBVIOUS
  <1>2. w \in S => S \cup {w} = S  OBVIOUS
  <1>3. IsFiniteSet(Workers)
    BY FS_Interval DEF PoolSize
  <1>4. IsFiniteSet(S) /\ Cardinality(S) \in Nat
    BY <1>3, FS_Subset, FS_CardinalityType
  <1> QED  BY <1>1, <1>2, <1>4, FS_EmptySet, FS_AddElement, FS_RemoveElement, Zenon

(* A worker that moves: the count of the living follows it, and so does     *)
(* the number of those that look for work.                                  *)
LEMMA Moved ==
    ASSUME NEW n, PoolSize(n), NEW pc \in [Workers -> Places], NEW w \in Workers, NEW v \in Places
    PROVE  LET pc2 == [pc EXCEPT ![w] = v]
               L == Cardinality(Living(pc))
               L2 == Cardinality(Living(pc2))
           IN  /\ pc2 \in [Workers -> Places]
               /\ L \in Nat /\ L2 \in Nat
               /\ Lives(pc[w]) /\ Lives(v) => L2 = L
               /\ ~Lives(pc[w]) /\ Lives(v) => L2 = L + 1
               /\ Lives(pc[w]) /\ ~Lives(v) => L2 = L - 1 /\ L >= 1
  <1> DEFINE pc2 == [pc EXCEPT ![w] = v]
             S == Living(pc)
  <1>1. /\ Lives(v) => Living(pc2) = S \cup {w}
        /\ ~Lives(v) => Living(pc2) = S \ {w}
        /\ w \in S <=> Lives(pc[w])
        /\ S \subseteq Workers /\ Living(pc2) \subseteq Workers
    BY DEF Living
  <1>2. /\ Cardinality(S) \in Nat
        /\ w \notin S => Cardinality(S \cup {w}) = Cardinality(S) + 1
        /\ w \in S => /\ Cardinality(S \cup {w}) = Cardinality(S)
                      /\ Cardinality(S \ {w}) = Cardinality(S) - 1
    BY <1>1, CountStep, Zenon
  <1>3. w \in S => Cardinality(S) >= 1
    <2>1. w \in S => Cardinality(S) # 0
      BY <1>1, CountStep, Zenon
    <2> QED  BY <1>2, <2>1
  <1>4. Cardinality(Living(pc2)) \in Nat
    BY <1>1, CountStep, Zenon
  <1> QED  BY <1>1, <1>2, <1>3, <1>4, Zenon

(* A worker that starts.                                                    *)
LEMMA ComesAlive ==
    ASSUME NEW n, PoolSize(n), NEW pc \in [Workers -> Places], NEW w \in Workers, pc[w] = "unborn"
    PROVE  /\ [pc EXCEPT ![w] = "looking"] \in [Workers -> Places]
           /\ Cardinality(Living([pc EXCEPT ![w] = "looking"])) = Cardinality(Living(pc)) + 1
  <1> DEFINE pc2 == [pc EXCEPT ![w] = "looking"]
  <1>1. Living(pc2) = Living(pc) \cup {w} /\ w \notin Living(pc) /\ Living(pc) \subseteq Workers
    BY DEF Living, Lives
  <1>2. Cardinality(Living(pc) \cup {w}) = Cardinality(Living(pc)) + 1
    BY <1>1, CountStep
  <1> QED  BY <1>1, <1>2, Zenon DEF Places

(* A worker that stays alive.                                               *)
LEMMA StaysAlive ==
    ASSUME NEW n, PoolSize(n), NEW pc \in [Workers -> Places], NEW w \in Workers, NEW v \in Places,
           Lives(pc[w]), Lives(v)
    PROVE  /\ [pc EXCEPT ![w] = v] \in [Workers -> Places]
           /\ Living([pc EXCEPT ![w] = v]) = Living(pc)
  BY DEF Living

LEMMA LookersMoved ==
    ASSUME NEW n, PoolSize(n), NEW pc \in [Workers -> Places], NEW w \in Workers, NEW v \in Places
    PROVE  LET pc2 == [pc EXCEPT ![w] = v]
               L == Cardinality(Lookers(pc))
               L2 == Cardinality(Lookers(pc2))
           IN  /\ L \in Nat /\ L2 \in Nat
               /\ v = "looking" /\ pc[w] # "looking" => L2 = L + 1
               /\ v # "looking" => L2 >= L - 1
               /\ v # "looking" /\ pc[w] # "looking" => L2 = L
  <1> DEFINE pc2 == [pc EXCEPT ![w] = v]
             S == Lookers(pc)
  <1>1. /\ v = "looking" => Lookers(pc2) = S \cup {w}
        /\ v # "looking" => Lookers(pc2) = S \ {w}
        /\ w \in S <=> pc[w] = "looking"
        /\ S \subseteq Workers /\ Lookers(pc2) \subseteq Workers
    BY DEF Lookers
  <1>2. /\ Cardinality(S) \in Nat
        /\ w \notin S => Cardinality(S \cup {w}) = Cardinality(S) + 1
        /\ w \notin S => Cardinality(S \ {w}) = Cardinality(S)
        /\ w \in S => Cardinality(S \ {w}) = Cardinality(S) - 1
    BY <1>1, CountStep, Zenon
  <1>3. Cardinality(Lookers(pc2)) \in Nat
    BY <1>1, CountStep, Zenon
  <1> HIDE DEF pc2, S
  <1>4. v = "looking" /\ pc[w] # "looking" => Cardinality(Lookers(pc2)) = Cardinality(S) + 1
    BY <1>1, <1>2
  <1>5. v # "looking" /\ pc[w] # "looking" => Cardinality(Lookers(pc2)) = Cardinality(S)
    BY <1>1, <1>2
  <1>6. v # "looking" /\ pc[w] = "looking" => Cardinality(Lookers(pc2)) = Cardinality(S) - 1
    BY <1>1, <1>2
  <1>7. v # "looking" => Cardinality(Lookers(pc2)) >= Cardinality(S) - 1
    BY <1>2, <1>3, <1>5, <1>6
  <1> QED  BY <1>2, <1>3, <1>4, <1>5, <1>7 DEF pc2, S

(* The broadcast leaves nobody parked and kills nobody.                     *)
Roused(pc) == [w \in Workers |-> IF pc[w] = "parked" THEN "looking" ELSE pc[w]]

LEMMA RousedSame ==
    ASSUME NEW pc \in [Workers -> Places]
    PROVE  /\ Roused(pc) \in [Workers -> Places] /\ Living(Roused(pc)) = Living(pc)
           /\ \A n, started : Born(n, started, pc) => Born(n, started, Roused(pc))
           /\ \A count : Awake(TRUE, Roused(pc), count)
  <1>1. Roused(pc) \in [Workers -> Places]
    BY DEF Roused, Places
  <1>2. Living(Roused(pc)) = Living(pc)
    BY DEF Living, Roused, Lives
  <1>3. \A n, started : Born(n, started, pc) => Born(n, started, Roused(pc))
    BY DEF Born, Roused
  <1>4. \A count : Awake(TRUE, Roused(pc), count)
    BY DEF Awake, Roused
  <1> QED  BY <1>1, <1>2, <1>3, <1>4, Zenon

-----------------------------------------------------------------------------
(* The operations of executor.c on those fields.  A worker is started.      *)
LEMMA StartKept ==
    ASSUME NEW n, PoolSize(n),
           NEW exit, NEW det, NEW started \in Nat, NEW live \in Nat,
           NEW pc \in [Workers -> Places], NEW owner \in Owners, NEW freed \in Nat, NEW count \in Nat,
           Manned(n, exit, det, started, live, pc, owner, freed, count), Awake(exit, pc, count),
           owner = "creating", started < n
    PROVE  LET pc2 == [pc EXCEPT ![started + 1] = "looking"]
           IN  /\ Manned(n, exit, det, started + 1, live + 1, pc2, owner, freed, count)
               /\ Awake(exit, pc2, count) /\ pc2 \in [Workers -> Places]
  <1>1. /\ Born(n, started, pc) /\ live = Cardinality(Living(pc)) /\ Departs(exit, pc, count)
        /\ Held(n, exit, det, started, live, owner, freed, count)
    BY DEF Manned
  <1> DEFINE w == started + 1
             pc2 == [pc EXCEPT ![w] = "looking"]
  <1>2. w \in Workers /\ n \in Nat
    BY <1>1 DEF PoolSize, Born
  <1>3. pc[w] = "unborn" /\ "looking" \in Places
    BY <1>1, <1>2 DEF Born, PoolSize, Places
  <1>4. ~Lives(pc[w]) /\ Lives("looking") /\ pc[w] # "looking"
    BY <1>3 DEF Lives
  <1>5. live + 1 = Cardinality(Living(pc2)) /\ pc2 \in [Workers -> Places]
    <2>1. pc2 \in [Workers -> Places] /\ Cardinality(Living(pc2)) = Cardinality(Living(pc)) + 1
      BY <1>2, <1>3, ComesAlive, Zenon
    <2> QED  BY <1>1, <2>1
  <1>6. Born(n, started + 1, pc2)
    BY <1>1, <1>2 DEF Born, PoolSize
  <1>7. Departs(exit, pc2, count)
    BY <1>1 DEF Departs
  <1>8. Held(n, exit, det, started + 1, live + 1, owner, freed, count)
    BY <1>1, Zenon DEF Held
  <1>9. Awake(exit, pc2, count)
    <2>1. count = 0 /\ exit # TRUE
      BY <1>1, Zenon DEF Held
    <2>2. Cardinality(Lookers(pc2)) \in Nat
      BY <1>2, <1>3, LookersMoved, Zenon
    <2> QED  BY <2>1, <2>2 DEF Awake
  <1> QED  BY <1>5, <1>6, <1>7, <1>8, <1>9 DEF Manned

(* While nobody has been told to leave, the living are those started.       *)
LEMMA LivingStarted ==
    ASSUME NEW n, PoolSize(n), NEW started \in Nat, NEW pc \in [Workers -> Places],
           Born(n, started, pc), \A w \in Workers : pc[w] # "leaving" /\ pc[w] # "gone"
    PROVE  Cardinality(Living(pc)) = 0 <=> started = 0
  <1>1. \A w \in Workers : Lives(pc[w]) <=> pc[w] # "unborn"
    BY DEF Lives, Places
  <1>2. Living(pc) = {w \in Workers : w <= started}
    BY <1>1 DEF Living, Born, PoolSize
  <1>3. 1 \in Workers
    BY DEF PoolSize
  <1>4. Living(pc) = {} <=> started = 0
    BY <1>2, <1>3 DEF PoolSize
  <1>5. Cardinality(Living(pc)) = 0 <=> Living(pc) = {}
    <2>1. Living(pc) \subseteq Workers  BY DEF Living
    <2> QED  BY <1>3, <2>1, CountStep, Zenon
  <1> QED  BY <1>4, <1>5

(* The owner lets go: executor_detach, or a worker could not be started.    *)
LEMMA DetachKept ==
    ASSUME NEW n, PoolSize(n),
           NEW exit, NEW det, NEW started \in Nat, NEW live \in Nat,
           NEW pc \in [Workers -> Places], NEW owner \in Owners, NEW freed \in Nat, NEW count \in Nat,
           Manned(n, exit, det, started, live, pc, owner, freed, count), Awake(exit, pc, count),
           owner = "creating" \/ owner = "owning",
           NEW freed2, started = 0 => freed2 = freed + 1, started # 0 => freed2 = freed
    PROVE  /\ Manned(n, TRUE, TRUE, started, live, Roused(pc), "gone", freed2, count)
           /\ Awake(TRUE, Roused(pc), count)
  <1>1. /\ Born(n, started, pc) /\ live = Cardinality(Living(pc)) /\ Departs(exit, pc, count)
        /\ Held(n, exit, det, started, live, owner, freed, count)
    BY DEF Manned
  <1>2. /\ Born(n, started, Roused(pc)) /\ live = Cardinality(Living(Roused(pc)))
        /\ Awake(TRUE, Roused(pc), count)
    BY <1>1, RousedSame, Zenon
  <1>3. exit # TRUE /\ freed = 0 /\ (started = 0 => count = 0)
    BY <1>1, Zenon DEF Held, PoolSize
  <1>4. live = 0 <=> started = 0
    <2>1. \A w \in Workers : pc[w] # "leaving" /\ pc[w] # "gone"
      BY <1>1, <1>3, Zenon DEF Departs
    <2>2. Cardinality(Living(pc)) = 0 <=> started = 0
      BY <1>1, <2>1, LivingStarted
    <2> QED  BY <1>1, <2>2
  <1>5. Departs(TRUE, Roused(pc), count)
    BY <1>1, <1>3 DEF Departs, Roused
  <1>6. Held(n, TRUE, TRUE, started, live, "gone", freed2, count)
    BY <1>3, <1>4 DEF Held
  <1> QED  BY <1>2, <1>5, <1>6, Zenon DEF Manned

(* All workers run: executor_create returns.                                *)
LEMMA CreatedKept ==
    ASSUME NEW n, PoolSize(n),
           NEW exit, NEW det, NEW started \in Nat, NEW live \in Nat,
           NEW pc \in [Workers -> Places], NEW owner \in Owners, NEW freed \in Nat, NEW count \in Nat,
           Manned(n, exit, det, started, live, pc, owner, freed, count), Awake(exit, pc, count),
           owner = "creating", started = n
    PROVE  Manned(n, exit, det, started, live, pc, "owning", freed, count)
  <1>1. /\ Born(n, started, pc) /\ live = Cardinality(Living(pc)) /\ Departs(exit, pc, count)
        /\ Held(n, exit, det, started, live, owner, freed, count)
    BY DEF Manned
  <1>2. Held(n, exit, det, started, live, "owning", freed, count)
    BY <1>1, Zenon DEF Held
  <1> QED  BY <1>1, <1>2 DEF Manned

(* executor_join tells the workers to leave ...                             *)
LEMMA JoinBeginsKept ==
    ASSUME NEW n, PoolSize(n),
           NEW exit, NEW det, NEW started \in Nat, NEW live \in Nat,
           NEW pc \in [Workers -> Places], NEW owner \in Owners, NEW freed \in Nat, NEW count \in Nat,
           Manned(n, exit, det, started, live, pc, owner, freed, count), Awake(exit, pc, count),
           owner = "owning"
    PROVE  /\ Manned(n, TRUE, det, started, live, Roused(pc), "joining", freed, count)
           /\ Awake(TRUE, Roused(pc), count)
  <1>1. /\ Born(n, started, pc) /\ live = Cardinality(Living(pc)) /\ Departs(exit, pc, count)
        /\ Held(n, exit, det, started, live, owner, freed, count)
    BY DEF Manned
  <1>2. /\ Born(n, started, Roused(pc)) /\ live = Cardinality(Living(Roused(pc)))
        /\ Awake(TRUE, Roused(pc), count)
    BY <1>1, RousedSame, Zenon
  <1>3. exit # TRUE
    BY <1>1, Zenon DEF Held
  <1>4. Departs(TRUE, Roused(pc), count)
    BY <1>1, <1>3 DEF Departs, Roused
  <1>5. Held(n, TRUE, det, started, live, "joining", freed, count)
    BY <1>1, Zenon DEF Held
  <1> QED  BY <1>2, <1>4, <1>5, Zenon DEF Manned

(* ... and frees the executor once all have.                                *)
LEMMA JoinEndsKept ==
    ASSUME NEW n, PoolSize(n),
           NEW exit, NEW det, NEW started \in Nat, NEW live \in Nat,
           NEW pc \in [Workers -> Places], NEW owner \in Owners, NEW freed \in Nat, NEW count \in Nat,
           Manned(n, exit, det, started, live, pc, owner, freed, count), Awake(exit, pc, count),
           owner = "joining", \A w \in Workers : pc[w] = "gone"
    PROVE  Manned(n, exit, det, started, live, pc, "gone", freed + 1, count)
  <1>1. /\ Born(n, started, pc) /\ live = Cardinality(Living(pc)) /\ Departs(exit, pc, count)
        /\ Held(n, exit, det, started, live, owner, freed, count)
    BY DEF Manned
  <1>2. 1 \in Workers
    BY DEF PoolSize
  <1>3. live = 0
    <2>1. Living(pc) = {} /\ Living(pc) \subseteq Workers
      BY DEF Living, Lives
    <2> QED  BY <1>1, <1>2, <2>1, CountStep, Zenon
  <1>4. count = 0
    BY <1>1, <1>2 DEF Departs
  <1>5. Held(n, exit, det, started, live, "gone", freed + 1, count)
    BY <1>1, <1>3, <1>4 DEF Held
  <1> QED  BY <1>1, <1>5 DEF Manned

(* A task comes: one parked worker is signalled, if there is one.           *)
LEMMA PutKept ==
    ASSUME NEW n, PoolSize(n),
           NEW exit, NEW det, NEW started \in Nat, NEW live \in Nat,
           NEW pc \in [Workers -> Places], NEW owner \in Owners, NEW freed \in Nat, NEW count \in Nat,
           Manned(n, exit, det, started, live, pc, owner, freed, count), Awake(exit, pc, count),
           owner = "owning", \A w \in Workers : pc[w] # "parked"
    PROVE  /\ Manned(n, exit, det, started, live, pc, owner, freed, count + 1)
           /\ Awake(exit, pc, count + 1)
  <1>1. /\ Born(n, started, pc) /\ live = Cardinality(Living(pc)) /\ Departs(exit, pc, count)
        /\ Held(n, exit, det, started, live, owner, freed, count)
    BY DEF Manned
  <1>2. exit # TRUE
    BY <1>1, Zenon DEF Held
  <1>3. Departs(exit, pc, count + 1)
    BY <1>1, <1>2, Zenon DEF Departs
  <1>4. Held(n, exit, det, started, live, owner, freed, count + 1)
    BY <1>1, Zenon DEF Held
  <1>5. Awake(exit, pc, count + 1)
    BY DEF Awake
  <1> QED  BY <1>1, <1>3, <1>4, <1>5 DEF Manned

LEMMA PutWakesKept ==
    ASSUME NEW n, PoolSize(n),
           NEW exit, NEW det, NEW started \in Nat, NEW live \in Nat,
           NEW pc \in [Workers -> Places], NEW owner \in Owners, NEW freed \in Nat, NEW count \in Nat,
           Manned(n, exit, det, started, live, pc, owner, freed, count), Awake(exit, pc, count),
           owner = "owning", NEW w \in Workers, pc[w] = "parked"
    PROVE  LET pc2 == [pc EXCEPT ![w] = "looking"]
           IN  /\ Manned(n, exit, det, started, live, pc2, owner, freed, count + 1)
               /\ Awake(exit, pc2, count + 1) /\ pc2 \in [Workers -> Places]
  <1>1. /\ Born(n, started, pc) /\ live = Cardinality(Living(pc)) /\ Departs(exit, pc, count)
        /\ Held(n, exit, det, started, live, owner, freed, count)
    BY DEF Manned
  <1> DEFINE pc2 == [pc EXCEPT ![w] = "looking"]
  <1>2. exit # TRUE
    BY <1>1, Zenon DEF Held
  <1>3. Lives(pc[w]) /\ Lives("looking") /\ "looking" \in Places
    BY DEF Lives, Places
  <1>4. live = Cardinality(Living(pc2)) /\ pc2 \in [Workers -> Places]
    <2>1. Living(pc2) = Living(pc) /\ pc2 \in [Workers -> Places]
      BY <1>3, StaysAlive, Zenon
    <2> QED  BY <1>1, <2>1
  <1>5. Born(n, started, pc2)
    BY <1>1 DEF Born
  <1>6. Departs(exit, pc2, count + 1)
    BY <1>1, <1>2, Zenon DEF Departs
  <1>7. Held(n, exit, det, started, live, owner, freed, count + 1)
    BY <1>1, Zenon DEF Held
  <1>8. Awake(exit, pc2, count + 1)
    <2>1. /\ Cardinality(Lookers(pc)) \in Nat
          /\ Cardinality(Lookers(pc2)) = Cardinality(Lookers(pc)) + 1
      BY <1>3, LookersMoved, Zenon
    <2>2. count <= Cardinality(Lookers(pc))
      BY DEF Awake
    <2>3. count + 1 <= Cardinality(Lookers(pc2))
      BY <2>1, <2>2
    <2> QED  BY <1>2, <2>3 DEF Awake
  <1> QED  BY <1>4, <1>5, <1>6, <1>7, <1>8 DEF Manned

(* A worker takes a task.                                                   *)
LEMMA TakeKept ==
    ASSUME NEW n, PoolSize(n),
           NEW exit, NEW det, NEW started \in Nat, NEW live \in Nat,
           NEW pc \in [Workers -> Places], NEW owner \in Owners, NEW freed \in Nat, NEW count \in Nat,
           Manned(n, exit, det, started, live, pc, owner, freed, count), Awake(exit, pc, count),
           NEW w \in Workers, pc[w] = "looking", count > 0
    PROVE  LET pc2 == [pc EXCEPT ![w] = "running"]
           IN  /\ Manned(n, exit, det, started, live, pc2, owner, freed, count - 1)
               /\ Awake(exit, pc2, count - 1) /\ pc2 \in [Workers -> Places]
  <1>1. /\ Born(n, started, pc) /\ live = Cardinality(Living(pc)) /\ Departs(exit, pc, count)
        /\ Held(n, exit, det, started, live, owner, freed, count)
    BY DEF Manned
  <1> DEFINE pc2 == [pc EXCEPT ![w] = "running"]
  <1>3. Lives(pc[w]) /\ Lives("running") /\ "running" \in Places
    BY DEF Lives, Places
  <1>4. live = Cardinality(Living(pc2)) /\ pc2 \in [Workers -> Places]
    <2>1. Living(pc2) = Living(pc) /\ pc2 \in [Workers -> Places]
      BY <1>3, StaysAlive, Zenon
    <2> QED  BY <1>1, <2>1
  <1>5. Born(n, started, pc2)
    BY <1>1 DEF Born
  <1>6. Departs(exit, pc2, count - 1)
    BY <1>1 DEF Departs
  <1>7. Held(n, exit, det, started, live, owner, freed, count - 1)
    <2>1. count # 0
      OBVIOUS
    <2>2. owner # "creating"
      BY <1>1, <2>1, Zenon DEF Held
    <2>3. owner = "gone" => started # 0
      BY <1>1, <2>1 DEF Held
    <2> QED  BY <1>1, <2>2, <2>3, Zenon DEF Held
  <1>8. Awake(exit, pc2, count - 1)
    <2>1. /\ Cardinality(Lookers(pc)) \in Nat /\ Cardinality(Lookers(pc2)) \in Nat
          /\ Cardinality(Lookers(pc2)) >= Cardinality(Lookers(pc)) - 1
      BY <1>3, LookersMoved, Zenon
    <2>2. ASSUME NEW u \in Workers, pc2[u] = "parked"
          PROVE  count - 1 <= Cardinality(Lookers(pc2))
      <3>1. pc[u] = "parked"
        BY <2>2
      <3>2. count <= Cardinality(Lookers(pc))
        BY <3>1 DEF Awake
      <3> QED  BY <2>1, <3>2
    <2>3. exit = TRUE => \A u \in Workers : pc2[u] # "parked"
      BY DEF Awake
    <2> QED  BY <2>2, <2>3, Zenon DEF Awake
  <1> QED  BY <1>4, <1>5, <1>6, <1>7, <1>8 DEF Manned

(* A worker that finds nothing waits, or leaves.                            *)
LEMMA ParkKept ==
    ASSUME NEW n, PoolSize(n),
           NEW exit, NEW det, NEW started \in Nat, NEW live \in Nat,
           NEW pc \in [Workers -> Places], NEW owner \in Owners, NEW freed \in Nat, NEW count \in Nat,
           Manned(n, exit, det, started, live, pc, owner, freed, count), Awake(exit, pc, count),
           NEW w \in Workers, pc[w] = "looking", count = 0,
           NEW v \in Places, (v = "parked" /\ exit # TRUE) \/ (v = "leaving" /\ exit = TRUE)
    PROVE  LET pc2 == [pc EXCEPT ![w] = v]
           IN  /\ Manned(n, exit, det, started, live, pc2, owner, freed, count)
               /\ Awake(exit, pc2, count) /\ pc2 \in [Workers -> Places]
  <1>1. /\ Born(n, started, pc) /\ live = Cardinality(Living(pc)) /\ Departs(exit, pc, count)
        /\ Held(n, exit, det, started, live, owner, freed, count)
    BY DEF Manned
  <1> DEFINE pc2 == [pc EXCEPT ![w] = v]
  <1>3. Lives(pc[w]) /\ Lives(v)
    BY Zenon DEF Lives
  <1>4. live = Cardinality(Living(pc2)) /\ pc2 \in [Workers -> Places]
    <2>1. Living(pc2) = Living(pc) /\ pc2 \in [Workers -> Places]
      BY <1>3, StaysAlive, Zenon
    <2> QED  BY <1>1, <2>1
  <1>5. Born(n, started, pc2)
    BY <1>1, Zenon DEF Born
  <1>6. Departs(exit, pc2, count)
    BY <1>1, Zenon DEF Departs
  <1>8. Awake(exit, pc2, count)
    <2>1. Cardinality(Lookers(pc2)) \in Nat
      BY LookersMoved, Zenon
    <2>2. count <= Cardinality(Lookers(pc2))
      BY <2>1
    <2>3. exit = TRUE => \A u \in Workers : pc2[u] # "parked"
      BY DEF Awake
    <2> QED  BY <2>2, <2>3 DEF Awake
  <1> QED  BY <1>1, <1>4, <1>5, <1>6, <1>8 DEF Manned

(* A worker goes back to looking, after a task or out of its wait.          *)
LEMMA BackKept ==
    ASSUME NEW n, PoolSize(n),
           NEW exit, NEW det, NEW started \in Nat, NEW live \in Nat,
           NEW pc \in [Workers -> Places], NEW owner \in Owners, NEW freed \in Nat, NEW count \in Nat,
           Manned(n, exit, det, started, live, pc, owner, freed, count), Awake(exit, pc, count),
           NEW w \in Workers, pc[w] = "running" \/ pc[w] = "parked"
    PROVE  LET pc2 == [pc EXCEPT ![w] = "looking"]
           IN  /\ Manned(n, exit, det, started, live, pc2, owner, freed, count)
               /\ Awake(exit, pc2, count) /\ pc2 \in [Workers -> Places]
  <1>1. /\ Born(n, started, pc) /\ live = Cardinality(Living(pc)) /\ Departs(exit, pc, count)
        /\ Held(n, exit, det, started, live, owner, freed, count)
    BY DEF Manned
  <1> DEFINE pc2 == [pc EXCEPT ![w] = "looking"]
  <1>3. Lives(pc[w]) /\ Lives("looking") /\ "looking" \in Places
    BY DEF Lives, Places
  <1>4. live = Cardinality(Living(pc2)) /\ pc2 \in [Workers -> Places]
    <2>1. Living(pc2) = Living(pc) /\ pc2 \in [Workers -> Places]
      BY <1>3, StaysAlive, Zenon
    <2> QED  BY <1>1, <2>1
  <1>5. Born(n, started, pc2)
    BY <1>1 DEF Born
  <1>6. Departs(exit, pc2, count)
    BY <1>1 DEF Departs
  <1>8. Awake(exit, pc2, count)
    <2>1. /\ Cardinality(Lookers(pc)) \in Nat
          /\ Cardinality(Lookers(pc2)) = Cardinality(Lookers(pc)) + 1
      BY <1>3, LookersMoved, Zenon
    <2>2. ASSUME NEW u \in Workers, pc2[u] = "parked"
          PROVE  count <= Cardinality(Lookers(pc2))
      <3>1. pc[u] = "parked"
        BY <2>2
      <3>2. count <= Cardinality(Lookers(pc))
        BY <3>1 DEF Awake
      <3> QED  BY <2>1, <3>2
    <2>3. exit = TRUE => \A u \in Workers : pc2[u] # "parked"
      BY DEF Awake
    <2> QED  BY <2>2, <2>3, Zenon DEF Awake
  <1> QED  BY <1>1, <1>4, <1>5, <1>6, <1>8 DEF Manned

(* A worker leaves; the last one of a detached executor frees it.           *)
LEMMA LeaveKept ==
    ASSUME NEW n, PoolSize(n),
           NEW exit, NEW det, NEW started \in Nat, NEW live \in Nat,
           NEW pc \in [Workers -> Places], NEW owner \in Owners, NEW freed \in Nat, NEW count \in Nat,
           Manned(n, exit, det, started, live, pc, owner, freed, count), Awake(exit, pc, count),
           NEW w \in Workers, pc[w] = "leaving"
    PROVE  LET pc2 == [pc EXCEPT ![w] = "gone"]
           IN  /\ Born(n, started, pc2) /\ live - 1 = Cardinality(Living(pc2)) /\ Departs(exit, pc2, count)
               /\ Awake(exit, pc2, count) /\ pc2 \in [Workers -> Places]
               /\ live >= 1
  <1>1. /\ Born(n, started, pc) /\ live = Cardinality(Living(pc)) /\ Departs(exit, pc, count)
        /\ Held(n, exit, det, started, live, owner, freed, count)
    BY DEF Manned
  <1> DEFINE pc2 == [pc EXCEPT ![w] = "gone"]
  <1>3. Lives(pc[w]) /\ ~Lives("gone") /\ "gone" \in Places
    BY DEF Lives, Places
  <1>4. live - 1 = Cardinality(Living(pc2)) /\ pc2 \in [Workers -> Places] /\ live >= 1
    <2>1. /\ pc2 \in [Workers -> Places]
          /\ Lives(pc[w]) /\ ~Lives("gone") =>
               Cardinality(Living(pc2)) = Cardinality(Living(pc)) - 1 /\ Cardinality(Living(pc)) >= 1
      BY <1>3, Moved, Zenon
    <2> QED  BY <1>1, <1>3, <2>1
  <1>5. Born(n, started, pc2)
    BY <1>1 DEF Born
  <1>6. Departs(exit, pc2, count) /\ exit = TRUE /\ count = 0
    BY <1>1 DEF Departs
  <1>8. Awake(exit, pc2, count)
    <2>1. exit = TRUE => \A u \in Workers : pc2[u] # "parked"
      BY DEF Awake
    <2> QED  BY <1>6, <2>1 DEF Awake
  <1> QED  BY <1>4, <1>5, <1>6, <1>8, Zenon





-----------------------------------------------------------------------------
(* The record of the executor.                                              *)
LEMMA Arrives ==
    ASSUME NEW n, NEW e, NEW buf \in [Slots -> Nat], NEW head \in Nat, NEW count \in Nat,
           NEW taken \in Seq(Nat), NEW ran \in Seq(Nat),
           NEW next \in Nat, NEW tasks \in Nat, NEW exit, NEW det,
           NEW started \in Nat, NEW live \in Nat, NEW pc \in [Workers -> Places],
           NEW owner \in Owners, NEW freed \in Nat,
           e = Exe(buf, head, count, taken, ran, next, tasks, exit, det, started, live, pc, owner, freed),
           Queued(buf, head, count, taken, ran),
           Manned(n, exit, det, started, live, pc, owner, freed, count), Awake(exit, pc, count)
    PROVE  Fine(n, e)
  <1> SUFFICES \E exit_, det_ :
      \E buf_ \in [Slots -> Nat], taken_ \in Seq(Nat), ran_ \in Seq(Nat), head_ \in Nat, count_ \in Nat,
         next_ \in Nat, tasks_ \in Nat, started_ \in Nat, live_ \in Nat, pc_ \in [Workers -> Places],
         owner_ \in Owners, freed_ \in Nat :
         /\ e = Exe(buf_, head_, count_, taken_, ran_, next_, tasks_, exit_, det_, started_, live_, pc_, owner_, freed_)
         /\ Queued(buf_, head_, count_, taken_, ran_)
         /\ Manned(n, exit_, det_, started_, live_, pc_, owner_, freed_, count_)
         /\ Awake(exit_, pc_, count_)
    BY Zenon DEF Fine
  <1> WITNESS exit, det
  <1> WITNESS buf \in [Slots -> Nat], taken \in Seq(Nat), ran \in Seq(Nat), head \in Nat, count \in Nat,
              next \in Nat, tasks \in Nat, started \in Nat, live \in Nat, pc \in [Workers -> Places],
              owner \in Owners, freed \in Nat
  <1> QED  OBVIOUS

LEMMA WorkersCount ==
    ASSUME NEW n, PoolSize(n)
    PROVE  Cardinality(Workers) = n
  <1>1. 1 \in Int /\ n \in Int /\ n >= 1
    BY DEF PoolSize
  <1>2. Cardinality(1..n) = n - 1 + 1
    BY <1>1, FS_Interval
  <1> QED  BY <1>1, <1>2 DEF PoolSize

LEMMA InitHolds ==
    ASSUME NEW n, PoolSize(n), NEW Tasks \in Nat, Init(Tasks)
    PROVE  IInv(n)
  <1> DEFINE buf == [i \in 0..(Capacity - 1) |-> 0]
             pc == [w \in Workers |-> "unborn"]
  <1>1. exe = Exe(buf, 0, 0, <<>>, <<>>, 1, Tasks, FALSE, FALSE, 0, 0, pc, "creating", 0)
    BY DEF Init, Exe, EmptyRing
  <1>2. Queued(buf, 0, 0, <<>>, <<>>)
    BY DEF Queued, Slots, PoolSize
  <1>3. pc \in [Workers -> Places] /\ Born(n, 0, pc) /\ Departs(FALSE, pc, 0)
    BY DEF Born, Departs, PoolSize, Places
  <1>4. Cardinality(Living(pc)) = 0
    <2>1. Living(pc) = {}  BY DEF Living, Lives
    <2> QED  BY <2>1, FS_EmptySet
  <1>5. Held(n, FALSE, FALSE, 0, 0, "creating", 0, 0)
    BY DEF Held
  <1>6. Awake(FALSE, pc, 0)
    BY DEF Awake
  <1>7. Manned(n, FALSE, FALSE, 0, 0, pc, "creating", 0, 0)
    BY <1>3, <1>4, <1>5 DEF Manned
  <1>8. buf \in [Slots -> Nat] /\ <<>> \in Seq(Nat) /\ "creating" \in Owners
    BY DEF Slots, Owners
  <1> HIDE DEF buf, pc
  <1> QED  BY <1>1, <1>2, <1>3, <1>6, <1>7, <1>8, Arrives, Zenon DEF IInv

(* One lemma per operation of executor.c.                                   *)
LEMMA LetGo ==
    ASSUME NEW n, PoolSize(n), IInv(n), exe.owner = "creating" \/ exe.owner = "owning", exe' = Detach(exe)
    PROVE  IInv(n)'
  <1>0. PICK exit, det :
          \E buf \in [Slots -> Nat], taken \in Seq(Nat), ran \in Seq(Nat), head \in Nat,
             count \in Nat, next \in Nat, tasks \in Nat, started \in Nat, live \in Nat,
             pc \in [Workers -> Places], owner \in Owners, freed \in Nat :
           /\ exe = Exe(buf, head, count, taken, ran, next, tasks, exit, det, started, live, pc, owner, freed)
           /\ Queued(buf, head, count, taken, ran)
           /\ Manned(n, exit, det, started, live, pc, owner, freed, count) /\ Awake(exit, pc, count)
    BY Zenon DEF IInv, Fine
  <1>1. PICK buf \in [Slots -> Nat], taken \in Seq(Nat), ran \in Seq(Nat), head \in Nat,
             count \in Nat, next \in Nat, tasks \in Nat, started \in Nat, live \in Nat,
             pc \in [Workers -> Places], owner \in Owners, freed \in Nat :
           /\ exe = Exe(buf, head, count, taken, ran, next, tasks, exit, det, started, live, pc, owner, freed)
           /\ Queued(buf, head, count, taken, ran)
           /\ Manned(n, exit, det, started, live, pc, owner, freed, count) /\ Awake(exit, pc, count)
    BY <1>0, Zenon
  <1>2. (owner = "creating" \/ owner = "owning") /\ exe' = Detach(exe)
    BY <1>1 DEF Exe
  <1>3. PICK freed2 : freed2 = IF started = 0 THEN freed + 1 ELSE freed
    OBVIOUS
  <1>4. exe' = Exe(buf, head, count, taken, ran, next, tasks, TRUE, TRUE, started, live, Roused(pc), "gone", freed2)
    <2> DEFINE k == [exe EXCEPT !.exit = TRUE, !.detached = TRUE]
               m == WakeAll(k)
    <2>1. PICK kk : kk = k  OBVIOUS
    <2>2. kk = Exe(buf, head, count, taken, ran, next, tasks, TRUE, TRUE, started, live, pc, owner, freed)
      BY <1>1, <2>1, ZenonT(30) DEF Exe
    <2>3. PICK mm : mm = m  OBVIOUS
    <2>4. mm = Exe(buf, head, count, taken, ran, next, tasks, TRUE, TRUE, started, live, Roused(pc), owner, freed)
      <3>1. mm = WakeAll(kk)  BY <2>1, <2>3
      <3> QED  BY <2>2, <3>1, Zenon DEF Exe, WakeAll, Roused
    <2>5. exe.started = started
      BY <1>1 DEF Exe
    <2>6. exe' = [mm EXCEPT !.freed = IF started = 0 THEN @ + 1 ELSE @, !.owner = "gone"]
      BY <1>2, <2>3, <2>5 DEF Detach
    <2>7. mm.freed = freed
      BY <2>4 DEF Exe
    <2>8. exe' = [mm EXCEPT !.freed = freed2, !.owner = "gone"]
      BY <1>3, <2>6, <2>7
    <2> QED  BY <2>4, <2>8, ZenonT(30) DEF Exe
  <1>5. Manned(n, TRUE, TRUE, started, live, Roused(pc), "gone", freed2, count) /\ Awake(TRUE, Roused(pc), count) /\ freed2 \in Nat
    <2>1. started = 0 => freed2 = freed + 1  BY <1>3
    <2>2. started # 0 => freed2 = freed  BY <1>3
    <2>3. freed2 \in Nat  BY <2>1, <2>2
    <2> QED  BY <1>1, <1>2, <2>1, <2>2, <2>3, DetachKept, Zenon
  <1> QED  BY <1>1, <1>4, <1>5, RousedSame, Arrives DEF IInv, Owners

LEMMA CreateKeeps ==
    ASSUME NEW n, PoolSize(n), IInv(n), Create
    PROVE  IInv(n)'
  <1>0. PICK exit, det :
          \E buf \in [Slots -> Nat], taken \in Seq(Nat), ran \in Seq(Nat), head \in Nat,
             count \in Nat, next \in Nat, tasks \in Nat, started \in Nat, live \in Nat,
             pc \in [Workers -> Places], owner \in Owners, freed \in Nat :
           /\ exe = Exe(buf, head, count, taken, ran, next, tasks, exit, det, started, live, pc, owner, freed)
           /\ Queued(buf, head, count, taken, ran)
           /\ Manned(n, exit, det, started, live, pc, owner, freed, count) /\ Awake(exit, pc, count)
    BY Zenon DEF IInv, Fine
  <1>1. PICK buf \in [Slots -> Nat], taken \in Seq(Nat), ran \in Seq(Nat), head \in Nat,
             count \in Nat, next \in Nat, tasks \in Nat, started \in Nat, live \in Nat,
             pc \in [Workers -> Places], owner \in Owners, freed \in Nat :
           /\ exe = Exe(buf, head, count, taken, ran, next, tasks, exit, det, started, live, pc, owner, freed)
           /\ Queued(buf, head, count, taken, ran)
           /\ Manned(n, exit, det, started, live, pc, owner, freed, count) /\ Awake(exit, pc, count)
    BY <1>0, Zenon
  <1>2. owner = "creating" /\ exe.owner = "creating" /\ exe.started = started
    BY <1>1 DEF Create, Exe
  <1>3. CASE /\ started < n
             /\ exe' = [exe EXCEPT !.started = @ + 1, !.live = @ + 1, !.pc[exe.started + 1] = "looking"]
    <2> DEFINE pc2 == [pc EXCEPT ![started + 1] = "looking"]
    <2>1. exe' = Exe(buf, head, count, taken, ran, next, tasks, exit, det, started + 1, live + 1, pc2, owner, freed)
      <3>1. exe.live = live
        BY <1>1 DEF Exe
      <3>2. exe' = [exe EXCEPT !.started = started + 1, !.live = live + 1, !.pc[started + 1] = "looking"]
        BY <1>2, <1>3, <3>1
      <3> QED  BY <1>1, <3>2, ZenonT(30) DEF Exe
    <2>2. Manned(n, exit, det, started + 1, live + 1, pc2, owner, freed, count) /\ Awake(exit, pc2, count) /\ pc2 \in [Workers -> Places]
      BY <1>1, <1>2, <1>3, StartKept, Zenon
    <2>3. started + 1 \in Nat /\ live + 1 \in Nat
      OBVIOUS
    <2> HIDE DEF pc2
    <2> QED  BY <1>1, <2>1, <2>2, <2>3, Arrives, Zenon DEF IInv
  <1>4. CASE exe' = Detach(exe)
    BY <1>2, <1>4, LetGo
  <1>5. CASE started = n /\ exe' = [exe EXCEPT !.owner = "owning"]
    <2>1. exe' = Exe(buf, head, count, taken, ran, next, tasks, exit, det, started, live, pc, "owning", freed)
      BY <1>1, <1>5, ZenonT(30) DEF Exe
    <2>2. Manned(n, exit, det, started, live, pc, "owning", freed, count)
      BY <1>1, <1>2, <1>5, CreatedKept
    <2> QED  BY <1>1, <2>1, <2>2, Arrives DEF IInv, Owners
  <1> QED  BY <1>2, <1>3, <1>4, <1>5, WorkersCount DEF Create

LEMMA DetachCallKeeps ==
    ASSUME NEW n, PoolSize(n), IInv(n), DetachCall
    PROVE  IInv(n)'
  BY LetGo DEF DetachCall

LEMMA JoinBeginsKeeps ==
    ASSUME NEW n, PoolSize(n), IInv(n), JoinBegins
    PROVE  IInv(n)'
  <1>0. PICK exit, det :
          \E buf \in [Slots -> Nat], taken \in Seq(Nat), ran \in Seq(Nat), head \in Nat,
             count \in Nat, next \in Nat, tasks \in Nat, started \in Nat, live \in Nat,
             pc \in [Workers -> Places], owner \in Owners, freed \in Nat :
           /\ exe = Exe(buf, head, count, taken, ran, next, tasks, exit, det, started, live, pc, owner, freed)
           /\ Queued(buf, head, count, taken, ran)
           /\ Manned(n, exit, det, started, live, pc, owner, freed, count) /\ Awake(exit, pc, count)
    BY Zenon DEF IInv, Fine
  <1>1. PICK buf \in [Slots -> Nat], taken \in Seq(Nat), ran \in Seq(Nat), head \in Nat,
             count \in Nat, next \in Nat, tasks \in Nat, started \in Nat, live \in Nat,
             pc \in [Workers -> Places], owner \in Owners, freed \in Nat :
           /\ exe = Exe(buf, head, count, taken, ran, next, tasks, exit, det, started, live, pc, owner, freed)
           /\ Queued(buf, head, count, taken, ran)
           /\ Manned(n, exit, det, started, live, pc, owner, freed, count) /\ Awake(exit, pc, count)
    BY <1>0, Zenon
  <1>2. owner = "owning"
    BY <1>1 DEF JoinBegins, Exe
  <1>3. exe' = Exe(buf, head, count, taken, ran, next, tasks, TRUE, det, started, live, Roused(pc), "joining", freed)
    BY <1>1, Zenon DEF JoinBegins, WakeAll, Exe, Roused
  <1>4. Manned(n, TRUE, det, started, live, Roused(pc), "joining", freed, count) /\ Awake(TRUE, Roused(pc), count)
    BY <1>1, <1>2, JoinBeginsKept, Zenon
  <1> QED  BY <1>1, <1>3, <1>4, RousedSame, Arrives DEF IInv, Owners

LEMMA JoinEndsKeeps ==
    ASSUME NEW n, PoolSize(n), IInv(n), JoinEnds
    PROVE  IInv(n)'
  <1>0. PICK exit, det :
          \E buf \in [Slots -> Nat], taken \in Seq(Nat), ran \in Seq(Nat), head \in Nat,
             count \in Nat, next \in Nat, tasks \in Nat, started \in Nat, live \in Nat,
             pc \in [Workers -> Places], owner \in Owners, freed \in Nat :
           /\ exe = Exe(buf, head, count, taken, ran, next, tasks, exit, det, started, live, pc, owner, freed)
           /\ Queued(buf, head, count, taken, ran)
           /\ Manned(n, exit, det, started, live, pc, owner, freed, count) /\ Awake(exit, pc, count)
    BY Zenon DEF IInv, Fine
  <1>1. PICK buf \in [Slots -> Nat], taken \in Seq(Nat), ran \in Seq(Nat), head \in Nat,
             count \in Nat, next \in Nat, tasks \in Nat, started \in Nat, live \in Nat,
             pc \in [Workers -> Places], owner \in Owners, freed \in Nat :
           /\ exe = Exe(buf, head, count, taken, ran, next, tasks, exit, det, started, live, pc, owner, freed)
           /\ Queued(buf, head, count, taken, ran)
           /\ Manned(n, exit, det, started, live, pc, owner, freed, count) /\ Awake(exit, pc, count)
    BY <1>0, Zenon
  <1>2. owner = "joining" /\ \A w \in Workers : pc[w] = "gone"
    BY <1>1 DEF JoinEnds, Exe
  <1>3. exe' = Exe(buf, head, count, taken, ran, next, tasks, exit, det, started, live, pc, "gone", freed + 1)
    BY <1>1, Zenon DEF JoinEnds, Exe
  <1>4. Manned(n, exit, det, started, live, pc, "gone", freed + 1, count) /\ freed + 1 \in Nat
    <2>1. Manned(n, exit, det, started, live, pc, "gone", freed + 1, count)
      BY <1>1, <1>2, JoinEndsKept, Zenon
    <2> QED  BY <2>1
  <1> QED  BY <1>1, <1>3, <1>4, Arrives DEF IInv, Owners

LEMMA InvokeKeeps ==
    ASSUME NEW n, PoolSize(n), IInv(n), Invoke
    PROVE  IInv(n)'
  <1>0. PICK exit, det :
          \E buf \in [Slots -> Nat], taken \in Seq(Nat), ran \in Seq(Nat), head \in Nat,
             count \in Nat, next \in Nat, tasks \in Nat, started \in Nat, live \in Nat,
             pc \in [Workers -> Places], owner \in Owners, freed \in Nat :
           /\ exe = Exe(buf, head, count, taken, ran, next, tasks, exit, det, started, live, pc, owner, freed)
           /\ Queued(buf, head, count, taken, ran)
           /\ Manned(n, exit, det, started, live, pc, owner, freed, count) /\ Awake(exit, pc, count)
    BY DEF IInv, Fine
  <1>1. PICK buf \in [Slots -> Nat], taken \in Seq(Nat), ran \in Seq(Nat), head \in Nat,
             count \in Nat, next \in Nat, tasks \in Nat, started \in Nat, live \in Nat,
             pc \in [Workers -> Places], owner \in Owners, freed \in Nat :
           /\ exe = Exe(buf, head, count, taken, ran, next, tasks, exit, det, started, live, pc, owner, freed)
           /\ Queued(buf, head, count, taken, ran)
           /\ Manned(n, exit, det, started, live, pc, owner, freed, count) /\ Awake(exit, pc, count)
    BY <1>0
  <1>2. owner = "owning" /\ exe.exit = exit /\ exe.ring.count = count /\ exe.next = next
    BY <1>1 DEF Invoke, Exe
  <1>3. exit # TRUE
    BY <1>1, <1>2, Zenon DEF Manned, Held
  <1>4. CASE count = Capacity
    <2>1. exe' = Exe(buf, head, count, taken, ran, next + 1, tasks, exit, det, started, live, pc, owner, freed)
      <3>1. exe' = [exe EXCEPT !.next = @ + 1]
        BY <1>2, <1>4 DEF Invoke
      <3> QED  BY <1>1, <3>1, ZenonT(30) DEF Exe
    <2>2. next + 1 \in Nat
      OBVIOUS
    <2> QED  BY <1>1, <2>1, <2>2, Arrives, Zenon DEF IInv
  <1>5. CASE count # Capacity
    <2> DEFINE buf2 == [buf EXCEPT ![Slot(head + count)] = next]
               taken2 == Append(taken, next)
               x == Exe(buf2, head, count + 1, taken2, ran, next + 1, tasks, exit, det, started, live, pc, owner, freed)
    <2>1. x = [exe EXCEPT !.ring = RingPut(@, exe.next), !.taken = Append(@, exe.next), !.next = @ + 1]
      <3>1. PICK k : k = [exe EXCEPT !.ring = RingPut(@, exe.next), !.taken = Append(@, exe.next), !.next = @ + 1]
        OBVIOUS
      <3>2. PICK r : r = RingPut(exe.ring, next)  OBVIOUS
      <3>3. r = [buf |-> buf2, head |-> head, count |-> count + 1]
        <4>1. exe.ring = [buf |-> buf, head |-> head, count |-> count]
          BY <1>1 DEF Exe
        <4>2. PICK g : g = [buf |-> buf, head |-> head, count |-> count]  BY Zenon
        <4>3. g.buf = buf /\ g.head = head /\ g.count = count
          BY <4>2
        <4>4. r = [g EXCEPT !.buf[Slot(head + count)] = next, !.count = @ + 1]
          BY <3>2, <4>1, <4>2, <4>3 DEF RingPut
        <4> QED  BY <4>2, <4>4, Zenon
      <3>4. k = [exe EXCEPT !.ring = r, !.taken = Append(@, next), !.next = @ + 1]
        BY <1>2, <3>1, <3>2
      <3>5. k = x
        <4> HIDE DEF buf2
        <4> QED  BY <1>1, <3>3, <3>4, ZenonT(30) DEF Exe
      <3> HIDE DEF x
      <3> QED  BY <3>1, <3>5
    <2>2. exe' \in WakeOne(x)
      <3> HIDE DEF x
      <3> QED  BY <1>2, <1>3, <1>5, <2>1, Zenon DEF Invoke
    <2>3. Queued(buf2, head, count + 1, taken2, ran)
      <3>1. Capacity \in Nat \ {0}
        BY DEF PoolSize
      <3> QED  BY <1>1, <1>5, <3>1, PutQueued, Zenon
    <2>4. /\ count + 1 \in Nat /\ next + 1 \in Nat
          /\ buf2 \in [Slots -> Nat] /\ taken2 \in Seq(Nat)
      <3>1. buf2 \in [Slots -> Nat] /\ taken2 \in Seq(Nat)
        <4> HIDE DEF buf2, taken2
        <4> QED  BY <2>3 DEF Queued
      <3> QED  BY <3>1
    <2>5. x.pc = pc
      BY DEF Exe
    <2>6. CASE \A w \in Workers : pc[w] # "parked"
      <3>1. exe' = x
        <4> HIDE DEF x
        <4> QED  BY <2>2, <2>5, <2>6 DEF WakeOne
      <3>2. Manned(n, exit, det, started, live, pc, owner, freed, count + 1) /\ Awake(exit, pc, count + 1)
        BY <1>1, <1>2, <2>6, PutKept, Zenon
      <3> HIDE DEF buf2, taken2
      <3> QED  BY <1>1, <2>3, <2>4, <3>1, <3>2, Arrives, Zenon DEF IInv
    <2>7. CASE \E w \in Workers : pc[w] = "parked"
      <3>1. PICK w \in Workers : pc[w] = "parked" /\ exe' = [x EXCEPT !.pc[w] = "looking"]
        <4> HIDE DEF x
        <4> QED  BY <2>2, <2>5, <2>7 DEF WakeOne
      <3> DEFINE pc2 == [pc EXCEPT ![w] = "looking"]
      <3> HIDE DEF buf2, taken2
      <3>2. exe' = Exe(buf2, head, count + 1, taken2, ran, next + 1, tasks, exit, det, started, live, pc2, owner, freed)
        BY <3>1, ZenonT(30) DEF Exe
      <3>3. Manned(n, exit, det, started, live, pc2, owner, freed, count + 1) /\ Awake(exit, pc2, count + 1)
            /\ pc2 \in [Workers -> Places]
        BY <1>1, <1>2, <3>1, PutWakesKept, Zenon
      <3> HIDE DEF pc2
      <3> QED  BY <1>1, <2>3, <2>4, <3>2, <3>3, Arrives, Zenon DEF IInv
    <2> QED  BY <2>6, <2>7
  <1> QED  BY <1>4, <1>5

LEMMA LookKeeps ==
    ASSUME NEW n, PoolSize(n), IInv(n), NEW w \in Workers, Look(w)
    PROVE  IInv(n)'
  <1>0. PICK exit, det :
          \E buf \in [Slots -> Nat], taken \in Seq(Nat), ran \in Seq(Nat), head \in Nat,
             count \in Nat, next \in Nat, tasks \in Nat, started \in Nat, live \in Nat,
             pc \in [Workers -> Places], owner \in Owners, freed \in Nat :
           /\ exe = Exe(buf, head, count, taken, ran, next, tasks, exit, det, started, live, pc, owner, freed)
           /\ Queued(buf, head, count, taken, ran)
           /\ Manned(n, exit, det, started, live, pc, owner, freed, count) /\ Awake(exit, pc, count)
    BY DEF IInv, Fine
  <1>1. PICK buf \in [Slots -> Nat], taken \in Seq(Nat), ran \in Seq(Nat), head \in Nat,
             count \in Nat, next \in Nat, tasks \in Nat, started \in Nat, live \in Nat,
             pc \in [Workers -> Places], owner \in Owners, freed \in Nat :
           /\ exe = Exe(buf, head, count, taken, ran, next, tasks, exit, det, started, live, pc, owner, freed)
           /\ Queued(buf, head, count, taken, ran)
           /\ Manned(n, exit, det, started, live, pc, owner, freed, count) /\ Awake(exit, pc, count)
    BY <1>0, Zenon
  <1>2. pc[w] = "looking" /\ exe.ring.count = count /\ exe.exit = exit
    BY <1>1 DEF Look, Exe
  <1>3. CASE count > 0
    <2> DEFINE head2 == Slot(head + 1)
               ran2 == Append(ran, buf[head])
               pc2 == [pc EXCEPT ![w] = "running"]
    <2>1. Capacity \in Nat \ {0} /\ head \in Slots /\ count \in Nat
      BY <1>1 DEF PoolSize, Queued
    <2>2. Head(RingTasks(exe.ring)) = buf[head]
      <3>1. RingTasks(exe.ring) = [i \in 1..count |-> buf[Slot(head + i - 1)]]
        BY <1>1 DEF Exe, RingTasks
      <3>2. Slot(head + 1 - 1) = head /\ 1 \in 1..count
        BY <1>3, <2>1 DEF Slot, Slots
      <3> QED  BY <3>1, <3>2
    <2>3. exe' = Exe(buf, head2, count - 1, taken, ran2, next, tasks, exit, det, started, live, pc2, owner, freed)
      <3>1. exe' = [exe EXCEPT !.ring = RingTake(@), !.ran = Append(@, buf[head]), !.pc[w] = "running"]
        BY <1>2, <1>3, <2>2, Zenon DEF Look
      <3>2. PICK r : r = RingTake(exe.ring)  OBVIOUS
      <3>3. r = [buf |-> buf, head |-> head2, count |-> count - 1]
        <4>1. PICK g : g = [buf |-> buf, head |-> head, count |-> count]  BY Zenon
        <4>2. exe.ring = g
          BY <1>1, <4>1 DEF Exe
        <4>3. g.head = head /\ g.count = count
          BY <4>1
        <4>4. r = [g EXCEPT !.head = head2, !.count = count - 1]
          BY <3>2, <4>2, <4>3 DEF RingTake
        <4> QED  BY <4>1, <4>4, Zenon
      <3>4. exe' = [exe EXCEPT !.ring = r, !.ran = Append(@, buf[head]), !.pc[w] = "running"]
        BY <3>1, <3>2
      <3>5. exe.ran = ran
        BY <1>1 DEF Exe
      <3>6. exe' = [exe EXCEPT !.ring = r, !.ran = ran2, !.pc[w] = "running"]
        BY <3>4, <3>5
      <3> HIDE DEF head2, ran2
      <3> QED  BY <1>1, <3>3, <3>6, ZenonT(30) DEF Exe
    <2>4. Queued(buf, head2, count - 1, taken, ran2)
      BY <1>1, <1>3, <2>1, TakeQueued, Zenon
    <2>5. Manned(n, exit, det, started, live, pc2, owner, freed, count - 1) /\ Awake(exit, pc2, count - 1)
          /\ pc2 \in [Workers -> Places]
      BY <1>1, <1>2, <1>3, TakeKept, Zenon
    <2>6. count - 1 \in Nat /\ head2 \in Nat
      BY <1>3, <2>1 DEF Slot, Slots
    <2>7. ran2 \in Seq(Nat)
      BY <2>4 DEF Queued
    <2> HIDE DEF head2, ran2, pc2
    <2> QED  BY <1>1, <2>3, <2>4, <2>5, <2>6, <2>7, Arrives, Zenon DEF IInv
  <1>4. CASE count = 0
    <2>0. PICK v : (v = "parked" /\ exit # TRUE) \/ (v = "leaving" /\ exit = TRUE)
      <3>1. CASE exit = TRUE
        <4> WITNESS "leaving"
        <4> QED  BY <3>1
      <3>2. CASE exit # TRUE
        <4> WITNESS "parked"
        <4> QED  BY <3>2, Zenon
      <3> QED  BY <3>1, <3>2, Zenon
    <2>1. v \in Places
      BY <2>0, Zenon DEF Places
    <2>4. exe' = [exe EXCEPT !.pc[w] = v]
      <3>1. exe' = [exe EXCEPT !.pc[w] = IF exit THEN "leaving" ELSE "parked"]
        BY <1>2, <1>4 DEF Look
      <3>2. CASE exit = TRUE
        BY <2>0, <3>1, <3>2
      <3>3. CASE exit # TRUE
        BY <2>0, <3>1, <3>3, Zenon
      <3> QED  BY <3>2, <3>3, Zenon
    <2> DEFINE pc2 == [pc EXCEPT ![w] = v]
    <2>2. exe' = Exe(buf, head, count, taken, ran, next, tasks, exit, det, started, live, pc2, owner, freed)
      BY <1>1, <2>4, ZenonT(30) DEF Exe
    <2>3. Manned(n, exit, det, started, live, pc2, owner, freed, count) /\ Awake(exit, pc2, count) /\ pc2 \in [Workers -> Places]
      BY <1>1, <1>2, <1>4, <2>0, <2>1, ParkKept, Zenon
    <2> HIDE DEF pc2
    <2> QED  BY <1>1, <2>2, <2>3, Arrives, Zenon DEF IInv
  <1> QED  BY <1>3, <1>4

LEMMA BackKeeps ==
    ASSUME NEW n, PoolSize(n), IInv(n), NEW w \in Workers, Finish(w) \/ Spurious(w)
    PROVE  IInv(n)'
  <1>0. PICK exit, det :
          \E buf \in [Slots -> Nat], taken \in Seq(Nat), ran \in Seq(Nat), head \in Nat,
             count \in Nat, next \in Nat, tasks \in Nat, started \in Nat, live \in Nat,
             pc \in [Workers -> Places], owner \in Owners, freed \in Nat :
           /\ exe = Exe(buf, head, count, taken, ran, next, tasks, exit, det, started, live, pc, owner, freed)
           /\ Queued(buf, head, count, taken, ran)
           /\ Manned(n, exit, det, started, live, pc, owner, freed, count) /\ Awake(exit, pc, count)
    BY DEF IInv, Fine
  <1>1. PICK buf \in [Slots -> Nat], taken \in Seq(Nat), ran \in Seq(Nat), head \in Nat,
             count \in Nat, next \in Nat, tasks \in Nat, started \in Nat, live \in Nat,
             pc \in [Workers -> Places], owner \in Owners, freed \in Nat :
           /\ exe = Exe(buf, head, count, taken, ran, next, tasks, exit, det, started, live, pc, owner, freed)
           /\ Queued(buf, head, count, taken, ran)
           /\ Manned(n, exit, det, started, live, pc, owner, freed, count) /\ Awake(exit, pc, count)
    BY <1>0, Zenon
  <1> DEFINE pc2 == [pc EXCEPT ![w] = "looking"]
  <1>2. pc[w] = "running" \/ pc[w] = "parked"
    BY <1>1 DEF Finish, Spurious, Exe
  <1>3. exe' = Exe(buf, head, count, taken, ran, next, tasks, exit, det, started, live, pc2, owner, freed)
    <2>1. exe' = [exe EXCEPT !.pc[w] = "looking"]
      BY DEF Finish, Spurious
    <2> QED  BY <1>1, <2>1, ZenonT(30) DEF Exe
  <1>4. Manned(n, exit, det, started, live, pc2, owner, freed, count) /\ Awake(exit, pc2, count) /\ pc2 \in [Workers -> Places]
    BY <1>1, <1>2, BackKept, Zenon
  <1> HIDE DEF pc2
  <1> QED  BY <1>1, <1>3, <1>4, Arrives, Zenon DEF IInv

LEMMA LeaveKeeps ==
    ASSUME NEW n, PoolSize(n), IInv(n), NEW w \in Workers, Leave(w)
    PROVE  IInv(n)'
  <1>0. PICK exit, det :
          \E buf \in [Slots -> Nat], taken \in Seq(Nat), ran \in Seq(Nat), head \in Nat,
             count \in Nat, next \in Nat, tasks \in Nat, started \in Nat, live \in Nat,
             pc \in [Workers -> Places], owner \in Owners, freed \in Nat :
           /\ exe = Exe(buf, head, count, taken, ran, next, tasks, exit, det, started, live, pc, owner, freed)
           /\ Queued(buf, head, count, taken, ran)
           /\ Manned(n, exit, det, started, live, pc, owner, freed, count) /\ Awake(exit, pc, count)
    BY DEF IInv, Fine
  <1>1. PICK buf \in [Slots -> Nat], taken \in Seq(Nat), ran \in Seq(Nat), head \in Nat,
             count \in Nat, next \in Nat, tasks \in Nat, started \in Nat, live \in Nat,
             pc \in [Workers -> Places], owner \in Owners, freed \in Nat :
           /\ exe = Exe(buf, head, count, taken, ran, next, tasks, exit, det, started, live, pc, owner, freed)
           /\ Queued(buf, head, count, taken, ran)
           /\ Manned(n, exit, det, started, live, pc, owner, freed, count) /\ Awake(exit, pc, count)
    BY <1>0, Zenon
  <1> DEFINE pc2 == [pc EXCEPT ![w] = "gone"]
  <1>2. pc[w] = "leaving"
    BY <1>1 DEF Leave, Exe
  <1>3. PICK freed2 : freed2 = IF exe.detached /\ exe.live = 1 THEN exe.freed + 1 ELSE exe.freed
    OBVIOUS
  <1>4. (det = TRUE /\ live = 1 => freed2 = freed + 1) /\ (det # TRUE \/ live # 1 => freed2 = freed)
    BY <1>1, <1>3, ZenonT(30) DEF Exe
  <1>5. exe' = Exe(buf, head, count, taken, ran, next, tasks, exit, det, started, live - 1, pc2, owner, freed2)
    <2>1. exe.live = live
      BY <1>1 DEF Exe
    <2>2. exe' = [exe EXCEPT !.live = live - 1, !.pc[w] = "gone", !.freed = freed2]
      BY <1>3, <2>1 DEF Leave
    <2> QED  BY <1>1, <2>2, ZenonT(30) DEF Exe
  <1>6. /\ Born(n, started, pc2) /\ live - 1 = Cardinality(Living(pc2)) /\ Departs(exit, pc2, count)
        /\ Awake(exit, pc2, count) /\ pc2 \in [Workers -> Places]
        /\ live >= 1
    BY <1>1, <1>2, LeaveKept, Zenon
  <1>7. live - 1 \in Nat /\ freed2 \in Nat
    <2>1. freed2 = freed + 1 \/ freed2 = freed
      BY <1>4, Zenon
    <2>2. live - 1 \in Nat
      BY <1>6
    <2> QED  BY <2>1, <2>2
  <1>8. Held(n, exit, det, started, live, owner, freed, count) /\ exit = TRUE /\ count = 0
    BY <1>1, <1>2 DEF Manned, Departs
  <1>9. Held(n, exit, det, started, live - 1, owner, freed2, count)
    <2>1. CASE owner = "gone"
      <3>0. live # 0
        BY <1>6
      <3>1. det = TRUE /\ freed = 0
        BY <1>8, <2>1, <3>0, Zenon DEF Held
      <3>2. live - 1 = 0 <=> live = 1
        OBVIOUS
      <3> QED  BY <1>4, <1>6, <1>8, <2>1, <3>1, <3>2 DEF Held
    <2>2. CASE owner = "joining"
      <3>1. freed2 = freed /\ det # TRUE
        BY <1>4, <1>8, <2>2, Zenon DEF Held
      <3> QED  BY <1>8, <3>1, <2>2, Zenon DEF Held
    <2>3. owner # "creating" /\ owner # "owning"
      BY <1>6, <1>8 DEF Held
    <2> QED  BY <2>1, <2>2, <2>3 DEF Owners
  <1>10. Manned(n, exit, det, started, live - 1, pc2, owner, freed2, count)
    BY <1>6, <1>9 DEF Manned
  <1> HIDE DEF pc2
  <1> QED  BY <1>1, <1>5, <1>6, <1>7, <1>10, Arrives, Zenon DEF IInv

LEMMA NextKeeps ==
    ASSUME NEW n, PoolSize(n), IInv(n), [Next]_exe
    PROVE  IInv(n)'
  <1>1. CASE Next
    BY <1>1, CreateKeeps, InvokeKeeps, JoinBeginsKeeps, JoinEndsKeeps, DetachCallKeeps,
       LookKeeps, BackKeeps, LeaveKeeps DEF Next
  <1>2. CASE UNCHANGED exe
    BY <1>2 DEF IInv
  <1> QED  BY <1>1, <1>2

-----------------------------------------------------------------------------
(* Sequences of tasks.                                                      *)
LEMMA Joined ==
    ASSUME NEW s \in Seq(Nat), NEW t \in Seq(Nat)
    PROVE  s \o t \in Seq(Nat) /\ Len(s \o t) = Len(s) + Len(t)
  OBVIOUS

LEMMA SameSeq ==
    ASSUME NEW s \in Seq(Nat), NEW t \in Seq(Nat), Len(t) = Len(s), \A i \in 1..Len(s) : s[i] = t[i]
    PROVE  s = t
  OBVIOUS

(* What the invariant says of the three properties.                         *)
LEMMA QueueMeans ==
    ASSUME NEW n, PoolSize(n), IInv(n)
    PROVE  RingIsQueue
  <1>0. PICK exit, det :
          \E buf \in [Slots -> Nat], taken \in Seq(Nat), ran \in Seq(Nat), head \in Nat,
             count \in Nat, next \in Nat, tasks \in Nat, started \in Nat, live \in Nat,
             pc \in [Workers -> Places], owner \in Owners, freed \in Nat :
           /\ exe = Exe(buf, head, count, taken, ran, next, tasks, exit, det, started, live, pc, owner, freed)
           /\ Queued(buf, head, count, taken, ran)
           /\ Manned(n, exit, det, started, live, pc, owner, freed, count) /\ Awake(exit, pc, count)
    BY Zenon DEF IInv, Fine
  <1>1. PICK buf \in [Slots -> Nat], taken \in Seq(Nat), ran \in Seq(Nat), head \in Nat,
             count \in Nat, next \in Nat, tasks \in Nat, started \in Nat, live \in Nat,
             pc \in [Workers -> Places], owner \in Owners, freed \in Nat :
           /\ exe = Exe(buf, head, count, taken, ran, next, tasks, exit, det, started, live, pc, owner, freed)
           /\ Queued(buf, head, count, taken, ran)
           /\ Manned(n, exit, det, started, live, pc, owner, freed, count) /\ Awake(exit, pc, count)
    BY <1>0, Zenon
  <1> DEFINE q == [i \in 1..count |-> buf[Slot(head + i - 1)]]
  <1>2. exe.taken = taken /\ exe.ran = ran /\ RingTasks(exe.ring) = q
    BY <1>1 DEF Exe, RingTasks
  <1>3. /\ taken \in Seq(Nat) /\ ran \in Seq(Nat) /\ Len(taken) = Len(ran) + count
        /\ \A i \in 1..Len(ran) : taken[i] = ran[i]
        /\ \A i \in 1..count : taken[Len(ran) + i] = buf[Slot(head + i - 1)]
        /\ Len(ran) \in Nat /\ Len(taken) \in Nat
    BY <1>1 DEF Queued
  <1>4. q \in Seq(Nat) /\ Len(q) = count
    <2>0. \A i \in 1..count : Len(ran) + i \in 1..Len(taken)
      BY <1>3
    <2>1. ASSUME NEW i \in 1..count
          PROVE  q[i] \in Nat
      <3>1. taken[Len(ran) + i] \in Nat
        BY <1>3, <2>0
      <3>2. q[i] = taken[Len(ran) + i]
        BY <1>3
      <3> QED  BY <3>1, <3>2
    <2>2. q \in [1..count -> Nat]
      BY <2>1, Zenon
    <2> HIDE DEF q
    <2> QED  BY <2>2
  <1>5. \A i \in 1..count : taken[Len(ran) + i] = q[i]
    BY <1>3, Zenon
  <1> HIDE DEF q
  <1>6. ran \o q \in Seq(Nat) /\ Len(ran \o q) = Len(taken)
    <2>1. ran \o q \in Seq(Nat) /\ Len(ran \o q) = Len(ran) + Len(q)
      BY <1>4, Joined, Zenon
    <2> QED  BY <1>3, <1>4, <2>1
  <1>7. ASSUME NEW i \in 1..Len(taken)
        PROVE  taken[i] = (ran \o q)[i]
    <2>1. CASE i <= Len(ran)
      BY <1>3, <1>4, <2>1
    <2>2. CASE i > Len(ran)
      <3>1. i - Len(ran) \in 1..count /\ Len(ran) + (i - Len(ran)) = i
        BY <1>3, <2>2
      <3>2. taken[i] = q[i - Len(ran)]
        BY <1>5, <3>1
      <3> QED  BY <1>3, <1>4, <2>2, <3>2
    <2>3. i <= Len(ran) \/ i > Len(ran)
      BY <1>3
    <2> QED  BY <2>1, <2>2, <2>3, Zenon
  <1>8. taken = ran \o q
    BY <1>6, <1>7, SameSeq, Zenon
  <1> QED  BY <1>2, <1>8 DEF RingIsQueue

LEMMA FreedMeans ==
    ASSUME NEW n, PoolSize(n), IInv(n)
    PROVE  FreedLast
  <1>0. PICK exit, det :
          \E buf \in [Slots -> Nat], taken \in Seq(Nat), ran \in Seq(Nat), head \in Nat,
             count \in Nat, next \in Nat, tasks \in Nat, started \in Nat, live \in Nat,
             pc \in [Workers -> Places], owner \in Owners, freed \in Nat :
           /\ exe = Exe(buf, head, count, taken, ran, next, tasks, exit, det, started, live, pc, owner, freed)
           /\ Queued(buf, head, count, taken, ran)
           /\ Manned(n, exit, det, started, live, pc, owner, freed, count) /\ Awake(exit, pc, count)
    BY Zenon DEF IInv, Fine
  <1>1. PICK buf \in [Slots -> Nat], taken \in Seq(Nat), ran \in Seq(Nat), head \in Nat,
             count \in Nat, next \in Nat, tasks \in Nat, started \in Nat, live \in Nat,
             pc \in [Workers -> Places], owner \in Owners, freed \in Nat :
           /\ exe = Exe(buf, head, count, taken, ran, next, tasks, exit, det, started, live, pc, owner, freed)
           /\ Queued(buf, head, count, taken, ran)
           /\ Manned(n, exit, det, started, live, pc, owner, freed, count) /\ Awake(exit, pc, count)
    BY <1>0, Zenon
  <1>2. /\ Born(n, started, pc) /\ live = Cardinality(Living(pc)) /\ Departs(exit, pc, count)
        /\ Held(n, exit, det, started, live, owner, freed, count)
    BY <1>1 DEF Manned
  <1>3. exe.freed = freed /\ exe.ring.count = count /\ exe.owner = owner /\ Alive = Living(pc)
    BY <1>1 DEF Exe, Alive, Living, Lives
  <1>4. 1 \in Workers
    BY DEF PoolSize
  <1>5. live = 0 <=> Living(pc) = {}
    <2>1. Living(pc) \subseteq Workers  BY DEF Living
    <2> QED  BY <1>2, <1>4, <2>1, CountStep, Zenon
  <1>6. freed # 0 => owner = "gone"
    BY <1>2, Zenon DEF Held, Owners
  <1>7. owner = "gone" => (live = 0 => freed = 1) /\ (live # 0 => freed = 0)
    BY <1>2 DEF Held
  <1>8. owner = "gone" /\ Living(pc) = {} => count = 0
    <2>1. CASE started = 0
      BY <1>2, <2>1 DEF Held
    <2>2. CASE started # 0
      <3>1. pc[1] # "unborn"
        BY <1>2, <1>4, <2>2 DEF Born
      <3>2. Living(pc) = {} => pc[1] = "gone"
        BY <1>4, <3>1 DEF Living, Lives, Places
      <3> QED  BY <1>2, <1>4, <3>2 DEF Departs
    <2> QED  BY <2>1, <2>2
  <1> QED  BY <1>3, <1>5, <1>6, <1>7, <1>8 DEF FreedLast

LEMMA AwakeMeans ==
    ASSUME NEW n, PoolSize(n), IInv(n)
    PROVE  NoSleeper
  <1>0. PICK exit, det :
          \E buf \in [Slots -> Nat], taken \in Seq(Nat), ran \in Seq(Nat), head \in Nat,
             count \in Nat, next \in Nat, tasks \in Nat, started \in Nat, live \in Nat,
             pc \in [Workers -> Places], owner \in Owners, freed \in Nat :
           /\ exe = Exe(buf, head, count, taken, ran, next, tasks, exit, det, started, live, pc, owner, freed)
           /\ Queued(buf, head, count, taken, ran)
           /\ Manned(n, exit, det, started, live, pc, owner, freed, count) /\ Awake(exit, pc, count)
    BY Zenon DEF IInv, Fine
  <1>1. PICK buf \in [Slots -> Nat], taken \in Seq(Nat), ran \in Seq(Nat), head \in Nat,
             count \in Nat, next \in Nat, tasks \in Nat, started \in Nat, live \in Nat,
             pc \in [Workers -> Places], owner \in Owners, freed \in Nat :
           /\ exe = Exe(buf, head, count, taken, ran, next, tasks, exit, det, started, live, pc, owner, freed)
           /\ Queued(buf, head, count, taken, ran)
           /\ Manned(n, exit, det, started, live, pc, owner, freed, count) /\ Awake(exit, pc, count)
    BY <1>0, Zenon
  <1>2. exe.exit = exit /\ exe.pc = pc /\ exe.ring.count = count
    BY <1>1 DEF Exe
  <1>3. {w \in Workers : exe.pc[w] = "looking"} = Lookers(pc)
    BY <1>2 DEF Lookers
  <1>4. exe.exit => \A w \in Workers : exe.pc[w] # "parked"
    BY <1>1, <1>2 DEF Awake
  <1>5. (\E w \in Workers : exe.pc[w] = "parked") => exe.ring.count <= Cardinality(Lookers(pc))
    BY <1>1, <1>2 DEF Awake
  <1> QED  BY <1>3, <1>4, <1>5, Zenon DEF NoSleeper

(* With any number of workers and any capacity, tasks run in the order      *)
(* executor_invoke accepted them, each once and none dropped: the circular  *)
(* buffer of executor.c, its head and its count are a queue.                *)
THEOREM TasksRunInOrder ==
    ASSUME NEW n, PoolSize(n), NEW Tasks \in Nat
    PROVE  PoolSpec(Tasks) => []RingIsQueue
  <1>1. Init(Tasks) => IInv(n)
    BY InitHolds
  <1>2. IInv(n) /\ [Next]_exe => IInv(n)'
    BY NextKeeps
  <1>3. IInv(n) => RingIsQueue
    BY QueueMeans
  <1> QED  BY <1>1, <1>2, <1>3, PTL DEF PoolSpec

(* The executor is freed exactly once and by the last to use it, whether the*)
(* owner joins it, detaches it or could not start all of its workers; every *)
(* accepted task has been taken by then.                                    *)
THEOREM FreedByTheLast ==
    ASSUME NEW n, PoolSize(n), NEW Tasks \in Nat
    PROVE  PoolSpec(Tasks) => []FreedLast
  <1>1. Init(Tasks) => IInv(n)
    BY InitHolds
  <1>2. IInv(n) /\ [Next]_exe => IInv(n)'
    BY NextKeeps
  <1>3. IInv(n) => FreedLast
    BY FreedMeans
  <1> QED  BY <1>1, <1>2, <1>3, PTL DEF PoolSpec

(* One signal for each task is enough: while a worker is parked there is one*)
(* on its way for every task that waits, and after the broadcast of         *)
(* executor_join and executor_detach no worker is parked.  Spurious returns *)
(* of the condition variable change nothing.                                *)
THEOREM NobodySleepsOn ==
    ASSUME NEW n, PoolSize(n), NEW Tasks \in Nat
    PROVE  PoolSpec(Tasks) => []NoSleeper
  <1>1. Init(Tasks) => IInv(n)
    BY InitHolds
  <1>2. IInv(n) /\ [Next]_exe => IInv(n)'
    BY NextKeeps
  <1>3. IInv(n) => NoSleeper
    BY AwakeMeans
  <1> QED  BY <1>1, <1>2, <1>3, PTL DEF PoolSpec
=============================================================================
