------------------------------ MODULE JsonCodec ------------------------------
(***************************************************************************)
(* The schema-driven JSON codec that configurations pass through           *)
(* (contrib/csnippets/codec/json.c): json_unmarshal fills an object from   *)
(* the pairs of a document, json_marshal emits the pairs of an object, and *)
(* json_free releases the arrays an object owns.                           *)
(*                                                                         *)
(* A JSON value is [k |-> kind, v |-> contents].  The kinds are "s" a      *)
(* string (a sequence of characters), "t" a string of three numbers, "n" a *)
(* number, "b" a Boolean, "a" an array, "o" an object (a sequence of       *)
(* <<key, value>> pairs, in document order) and "x" text that is not JSON. *)
(* Only the schema layer is modelled: the scanner that finds the pairs is  *)
(* not.  Strings point into the document, so arrays are all an object      *)
(* owns.                                                                   *)
(***************************************************************************)
EXTENDS Integers, Sequences, SequencesExt, FiniteSets, FiniteSetsExt

\* A NULL string.
Null == <<"NULL">>

\* A NULL array, raw fragment or number string.
Nil == <<>>

-----------------------------------------------------------------------------
\* The heap: the live blocks, the allocations tried so far, the one that
\* fails (0: none), and whether the only pointer to a live block was lost.

Heap(at) == [live |-> {}, tried |-> 0, at |-> at, lost |-> FALSE]

MallocFails(m) == m.tried + 1 = m.at

Tried(m) == [m EXCEPT !.tried = @ + 1]

Malloc(m, x) ==
    [m EXCEPT !.tried = @ + 1,
              !.lost = @ \/ x \in m.live,
              !.live = @ \cup {x}]

Free(m, X) == [m EXCEPT !.live = @ \ X]

\* The pointer b takes over the block a.
Take(m, a, b) ==
    [m EXCEPT !.lost = @ \/ b \in m.live,
              !.live = (@ \ {a}) \cup {b}]

-----------------------------------------------------------------------------
\* Schemas: a function from field names to fields.

\* No upper bound.
NoMax == -1

Scalar(k, lo, hi, def) ==
    [k |-> k, arr |-> FALSE, lo |-> lo, hi |-> hi, enum |-> {}, def |-> def]

Str(max) == Scalar("s", 0, max, Null)

Num(lo, hi, def) == Scalar("n", lo, hi, def)

Flag(def) == Scalar("b", 0, NoMax, def)

Dynamic == Scalar("d", 0, NoMax, Nil)

\* An array of strings: its least length and the bound on its elements.
Strings(min, max) ==
    [k |-> "s", arr |-> TRUE, min |-> min, lo |-> 0, hi |-> max,
     enum |-> {}, def |-> Nil]

Object(schema) == [k |-> "o", arr |-> FALSE, of |-> schema]

\* json_parse_scalar with json_check_str and json_check_uint.
InRange(f, n) == f.lo <= n /\ (f.hi = NoMax \/ n <= f.hi)

ParseScalar(f, val) ==
    /\ val.k = f.k
    /\ f.k = "s" => InRange(f, Len(val.v))
    /\ f.k = "n" => InRange(f, val.v)
    /\ f.enum = {} \/ val.v \in f.enum

\* How often a list of n elements outgrew its buffer of 4, 8, 16, 32 entries.
Growths(n) == Cardinality({c \in {0, 4, 8, 16, 32} : c < n})

\* json_unmarshal_array: a fresh buffer, released on any failure.
ArrayParses(f, val, m) ==
    /\ val.k = "a"
    /\ \A i \in 1..Len(val.v) : ParseScalar(f, val.v[i])
    /\ Len(val.v) >= f.min
    /\ m.at \notin (m.tried + 1)..(m.tried + Growths(Len(val.v)))

RECURSIVE Defaults(_), ArrayKeys(_), Unmarshal(_, _, _), Marshal(_, _)

Defaults(schema) ==
    [key \in DOMAIN schema |->
        IF schema[key].k = "o" THEN Defaults(schema[key].of) ELSE schema[key].def]

\* json_free: what json_free and json_free_array walk down to, the arrays at
\* every nesting level.
ArrayKeys(schema) ==
    {<<"json", key, 0>> : key \in {k \in DOMAIN schema : schema[k].arr}}
      \cup UNION {ArrayKeys(schema[k].of) :
                    k \in {k \in DOMAIN schema : schema[k].k = "o"}}

JsonFree(schema, m) == Free(m, ArrayKeys(schema))

Failed(u) == [u EXCEPT !.ok = FALSE]

(* Defect: a repeated array key forgets the array it already has. *)
UnmarshalArrayKeepsOld(u, key, f, val) ==
    IF ~ArrayParses(f, val, u.m)
    THEN Failed(u)
    ELSE [u EXCEPT !.obj[key] = [i \in 1..Len(val.v) |-> val.v[i].v],
                   !.m = IF val.v = <<>> THEN @ ELSE Malloc(@, <<"json", key, 0>>)]

UnmarshalArray(u, key, f, val) ==
    IF ~ArrayParses(f, val, u.m)
    THEN Failed(u)
    ELSE [u EXCEPT !.obj[key] = [i \in 1..Len(val.v) |-> val.v[i].v],
                   !.m = IF val.v = <<>>
                         THEN Free(@, {<<"json", key, 0>>})
                         ELSE Take(Free(Malloc(@, <<"json", "new", 0>>), {<<"json", key, 0>>}),
                                   <<"json", "new", 0>>, <<"json", key, 0>>)]

\* A nested object starts again from its defaults when its key is repeated.
UnmarshalObject(u, key, schema, val) ==
    LET sub == Unmarshal(schema, val, JsonFree(schema, u.m))
    IN  [u EXCEPT !.ok = sub.ok, !.obj[key] = sub.obj, !.m = sub.m]

UnmarshalScalar(u, key, f, val) ==
    IF ParseScalar(f, val)
    THEN [u EXCEPT !.obj[key] = val.v]
    ELSE Failed(u)

\* One pair of json_unmarshal's loop; the schemas are not strict.
UnmarshalPair(schema, u, pair) ==
    LET key == pair[1]
    IN  CASE ~u.ok \/ key \notin DOMAIN schema -> u
          [] u.ok /\ key \in DOMAIN schema /\ schema[key].arr ->
               UnmarshalArray(u, key, schema[key], pair[2])
          [] u.ok /\ key \in DOMAIN schema /\ schema[key].k = "o" ->
               UnmarshalObject(u, key, schema[key].of, pair[2])
          [] u.ok /\ key \in DOMAIN schema /\ schema[key].k = "d" ->
               [u EXCEPT !.obj[key] = <<pair[2]>>]
          [] OTHER -> UnmarshalScalar(u, key, schema[key], pair[2])

FreedIfFailed(schema, u) ==
    IF u.ok THEN u ELSE [u EXCEPT !.m = JsonFree(schema, @)]

Unmarshal(schema, val, m) ==
    IF val.k # "o"
    THEN [ok |-> FALSE, obj |-> Defaults(schema), m |-> m]
    ELSE FreedIfFailed(schema,
           FoldLeft(LAMBDA u, pair : UnmarshalPair(schema, u, pair),
                    [ok |-> TRUE, obj |-> Defaults(schema), m |-> m], val.v))

-----------------------------------------------------------------------------
\* json_marshal.

\* Scalars are always emitted; NULL marks an absent string, array or fragment.
Emits(f, x) ==
    CASE f.arr \/ f.k \in {"d", "t"} -> x # Nil
      [] ~f.arr /\ f.k = "s" -> x # Null
      [] OTHER -> TRUE

EmitValue(f, x) ==
    CASE f.arr -> [k |-> "a", v |-> [i \in 1..Len(x) |-> [k |-> f.k, v |-> x[i]]]]
      [] ~f.arr /\ f.k = "o" -> Marshal(f.of, x)
      [] ~f.arr /\ f.k = "d" -> x[1]
      [] OTHER -> [k |-> f.k, v |-> x]

Marshal(schema, obj) ==
    [k |-> "o",
     v |-> FoldSet(LAMBDA key, pairs :
                     Append(pairs, <<key, EmitValue(schema[key], obj[key])>>),
                   <<>>, {key \in DOMAIN schema : Emits(schema[key], obj[key])})]
=============================================================================
