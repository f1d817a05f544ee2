------------------------------ MODULE HashTable ------------------------------
(***************************************************************************)
(* The hash table of contrib/csnippets/algo/hashtable.c that holds the     *)
(* routes, flows, identities and streams: an array of slots that carries   *)
(* the bucket heads, the collision chains and the free list all at once.   *)
(* Capacities, the collision threshold and the hash are constants so that  *)
(* growing, chains and reseeding happen with four keys.  The record tab    *)
(* holds the table and ref, the map the table has to behave as.            *)
(***************************************************************************)
EXTENDS Integers, Sequences, FiniteSets, SequencesExt, Functions

CONSTANTS Keys, Elems,
          Capacities,  \* capacity_list
          MaxCap,      \* MAX_CAPACITY
          Threshold,   \* COLLISION_THRESHOLD
          Hash         \* Hash[seed][key]

VARIABLE tab

Nil == -1
Free == [bucket |-> Nil, next |-> Nil, valid |-> FALSE, hash |-> 0, key |-> "none", el |-> 0]
None == [k \in {} |-> 0]

Slots(t) == 0..(t.capacity - 1)
BucketIndex(t, h) == h % t.capacity

CeilCapacity(x) ==
    IF x > Last(Capacities)
    THEN IF x + 1 - (x % 2) > MaxCap THEN MaxCap ELSE x + 1 - (x % 2)
    ELSE Capacities[CHOOSE i \in DOMAIN Capacities :
                       /\ Capacities[i] >= x
                       /\ \A j \in 1..(i - 1) : Capacities[j] < x]

MaxLoad(t) == IF t.fast THEN (t.capacity \div 4) * 3 ELSE t.capacity

(* The ids of a chain from i on; the tables here are small, so a chain     *)
(* longer than the table would be a cycle.                                 *)
RECURSIVE ChainFrom(_, _, _)
ChainFrom(t, i, n) == IF i = Nil \/ n = 0 THEN <<>> ELSE <<i>> \o ChainFrom(t, t.p[i].next, n - 1)

Chain(t, b) == ChainFrom(t, t.p[b].bucket, t.capacity + 1)
FreeList(t) == ChainFrom(t, t.freelist, t.capacity + 1)

(* Slots of the chain before the one that holds k.                         *)
Position(t, chain, k) == SelectInSeq(chain, LAMBDA i : t.p[i].key = k)

-----------------------------------------------------------------------------
(* Defect: compaction leaves the bucket heads of the slots it skips.       *)
TableCompactKeepsBuckets(t) ==
    LET live == SelectSeq([i \in 1..t.capacity |-> i - 1], LAMBDA i : t.p[i].valid)
    IN  [t EXCEPT !.freelist = Nil,
                  !.p = [i \in Slots(t) |->
                           [(IF i < Len(live) THEN t.p[live[i + 1]] ELSE [t.p[i] EXCEPT !.valid = FALSE])
                              EXCEPT !.bucket = IF t.p[i].valid THEN Nil ELSE t.p[i].bucket, !.next = t.p[i].next]]]

(* The valid slots keep their order and move to the front.                 *)
TableCompact(t) ==
    LET live == SelectSeq([i \in 1..t.capacity |-> i - 1], LAMBDA i : t.p[i].valid)
    IN  [t EXCEPT !.freelist = Nil,
                  !.p = [i \in Slots(t) |->
                           [(IF i < Len(live) THEN t.p[live[i + 1]] ELSE [t.p[i] EXCEPT !.valid = FALSE])
                              EXCEPT !.bucket = Nil, !.next = t.p[i].next]]]

Link(t, i, b) == [t EXCEPT !.p[i].next = t.p[b].bucket, !.p[b].bucket = i]

TableReindex(t) ==
    FoldLeft(LAMBDA u, n : Link(u, n - 1, BucketIndex(u, u.p[n - 1].hash)), t, [n \in 1..t.size |-> n])

TableRehash(t) ==
    TableReindex([t EXCEPT !.p = [i \in Slots(t) |->
                     IF i < t.size THEN [@[i] EXCEPT !.hash = Hash[t.seed][t.p[i].key]] ELSE @[i]]])

(* Defect: reseeding reuses the stored hash values.                        *)
TableReseedStale(t, seed) ==
    IF t.reseeded THEN t
    ELSE TableReindex(TableCompact([t EXCEPT !.reseeded = TRUE, !.seed = seed]))

TableReseed(t, seed) ==
    IF t.reseeded THEN t
    ELSE TableRehash(TableCompact([t EXCEPT !.reseeded = TRUE, !.seed = seed]))

TableRealloc(t, cap, ok) ==
    IF ~ok \/ t.capacity = cap THEN t
    ELSE [t EXCEPT !.capacity = cap, !.reseeded = FALSE,
                   !.p = [i \in 0..(cap - 1) |-> IF i < t.capacity THEN t.p[i] ELSE Free]]

AddCapped(x, want) == IF x < MaxCap - want THEN x + want ELSE MaxCap

ReserveCapacity(t, size) ==
    CeilCapacity(IF t.fast THEN AddCapped(size, size \div 3 + 1) ELSE size)

(* Defect: the free list survives a resize.                                *)
ResizeKeepsFree(t, cap, ok) ==
    IF t.capacity = cap THEN t
    ELSE [TableReindex(TableRealloc(TableCompact(t), cap, ok)) EXCEPT !.freelist = t.freelist]

Resize(t, cap, ok) ==
    IF t.capacity = cap THEN t ELSE TableReindex(TableRealloc(TableCompact(t), cap, ok))

TableReserve(t, size, ok) ==
    Resize(t, ReserveCapacity(t, IF size < t.size THEN t.size ELSE size), ok)

TableGrow(t, ok) == TableReserve(t, AddCapped(t.size, t.size), ok)

MaybeReseed(t, collision, seed) == IF collision > Threshold THEN TableReseed(t, seed) ELSE t

(* table_set of a key that is present: the element is replaced.            *)
Replace(t, i, collision, k, e, seed) ==
    MaybeReseed([t EXCEPT !.p[i].key = k, !.p[i].el = e], collision, seed)

Fill(t, i, k, h, e) ==
    Link([t EXCEPT !.p[i] = [@ EXCEPT !.valid = TRUE, !.hash = h, !.key = k, !.el = e]], i, BucketIndex(t, h))

TakeFree(t) == [t EXCEPT !.freelist = t.p[t.freelist].next, !.size = @ + 1]

Insert(t, collision, k, h, e, seed) ==
    IF t.freelist # Nil THEN MaybeReseed(Fill(TakeFree(t), t.freelist, k, h, e), collision, seed)
    ELSE IF t.size = t.capacity THEN t
    ELSE MaybeReseed(Fill([t EXCEPT !.size = @ + 1], t.size, k, h, e), collision, seed)

(* A set that cannot grow leaves the table without the key.                *)
TableSet(t, k, e, seed, ok) ==
    LET h == Hash[t.seed][k]
        chain == Chain(t, BucketIndex(t, h))
        pos == Position(t, chain, k)
    IN  IF pos # 0 THEN Replace(t, chain[pos], pos - 1, k, e, seed)
        ELSE Insert(IF t.freelist = Nil /\ t.size >= MaxLoad(t) THEN TableGrow(t, ok) ELSE t,
                    Len(chain), k, h, e, seed)

(* Unlink the slot after slot i's predecessor in the chain of bucket b.    *)
Release(t, b, chain, pos) ==
    [(IF pos = 1 THEN [t EXCEPT !.p[b].bucket = t.p[chain[1]].next]
      ELSE [t EXCEPT !.p[chain[pos - 1]].next = t.p[chain[pos]].next])
       EXCEPT !.p[chain[pos]].valid = FALSE, !.p[chain[pos]].next = t.freelist,
              !.freelist = chain[pos], !.size = @ - 1]

(* Defect: a deleted slot that heads its chain takes the whole chain along. *)
DelFromHead(t, b, k) ==
    LET chain == Chain(t, b)
        pos == Position(t, chain, k)
    IN  IF pos = 0 THEN t
        ELSE [Release(t, b, chain, pos) EXCEPT !.p[b].bucket = IF pos = 1 THEN Nil ELSE @]

DelFrom(t, b, k) ==
    LET chain == Chain(t, b)
        pos == Position(t, chain, k)
    IN  IF pos = 0 THEN t ELSE Release(t, b, chain, pos)

TableDel(t, k) == DelFrom(t, BucketIndex(t, Hash[t.seed][k]), k)

(* table_filter walks bucket by bucket and unlinks what the callback drops. *)
TableFilter(t, keep) ==
    FoldLeft(LAMBDA u, n : FoldLeft(LAMBDA w, i : IF w.p[i].key \in keep THEN w ELSE DelFrom(w, n - 1, w.p[i].key),
                                    u, Chain(u, n - 1)),
             t, [n \in 1..t.capacity |-> n])

TableClear(t) == [t EXCEPT !.p = [i \in Slots(t) |-> Free], !.size = 0, !.freelist = Nil]

Lookup(t, k) ==
    LET chain == Chain(t, BucketIndex(t, Hash[t.seed][k]))
        pos == Position(t, chain, k)
    IN  IF pos = 0 THEN 0 ELSE t.p[chain[pos]].el

TableNew(seed, fast) ==
    [p |-> [i \in 0..(Capacities[1] - 1) |-> Free], size |-> 0, capacity |-> Capacities[1],
     freelist |-> Nil, seed |-> seed, fast |-> fast, reseeded |-> FALSE]

-----------------------------------------------------------------------------
Without(f, S) == Restrict(f, DOMAIN f \ S)

Set(k, e, seed, ok) ==
    LET t == TableSet(tab.t, k, e, seed, ok)
    IN  tab' = [tab EXCEPT !.t = t, !.ops = @ - 1,
                           !.ref = IF t.size = tab.t.size /\ k \notin DOMAIN @ THEN @
                                   ELSE [x \in DOMAIN @ \cup {k} |-> IF x = k THEN e ELSE @[x]]]

Del(k) == tab' = [tab EXCEPT !.t = TableDel(@, k), !.ops = @ - 1, !.ref = Without(@, {k})]

Reserve(n, ok) == tab' = [tab EXCEPT !.t = TableReserve(@, n, ok), !.ops = @ - 1]

Filter(keep) == tab' = [tab EXCEPT !.t = TableFilter(@, keep), !.ops = @ - 1, !.ref = Restrict(@, DOMAIN @ \cap keep)]

Clear == tab' = [tab EXCEPT !.t = TableClear(@), !.ops = @ - 1, !.ref = None]

Init(Ops) ==
    \E seed \in DOMAIN Hash, fast \in BOOLEAN :
       tab = [t |-> TableNew(seed, fast), ref |-> None, ops |-> Ops]

Next ==
    /\ tab.ops > 0
    /\ \/ \E k \in Keys, e \in Elems, seed \in DOMAIN Hash, ok \in BOOLEAN : Set(k, e, seed, ok)
       \/ \E k \in Keys : Del(k)
       \/ \E n \in {0, Cardinality(Keys) + 1}, ok \in BOOLEAN : Reserve(n, ok)
       \/ \E keep \in SUBSET Keys : Filter(keep)
       \/ Clear

-----------------------------------------------------------------------------
(* The table is the map: every key is found with the element last set for  *)
(* it, iteration meets every entry once, and size counts them, whatever    *)
(* sequence of sets, deletes, filters, resizes and reseeds came before and *)
(* whichever allocations failed.                                           *)
IsTheMap ==
    LET t == tab.t
        valid == {i \in Slots(t) : t.p[i].valid}
    IN  /\ \A k \in Keys : Lookup(t, k) = IF k \in DOMAIN tab.ref THEN tab.ref[k] ELSE 0
        /\ {<<t.p[i].key, t.p[i].el>> : i \in valid} = {<<k, tab.ref[k]>> : k \in DOMAIN tab.ref}
        /\ Cardinality(valid) = t.size /\ t.size = Cardinality(DOMAIN tab.ref)

(* Every slot in use is in one chain, its own; every other slot below the  *)
(* high-water mark is in the free list; a table with an empty free list is *)
(* dense, so that slot "size" is the next unused one.                      *)
SlotsAccounted ==
    LET t == tab.t
    IN  /\ \A i \in Slots(t) : t.p[i].valid <=> i \in ToSet(Chain(t, BucketIndex(t, t.p[i].hash)))
        /\ \A b \in Slots(t) : Len(Chain(t, b)) <= t.size
        /\ LET fl == FreeList(t)
           IN  /\ IsInjective(fl) /\ \A i \in ToSet(fl) : ~t.p[i].valid
               /\ {i \in Slots(t) : t.p[i].valid} \cup ToSet(fl) = 0..(t.size + Len(fl) - 1)
=============================================================================
