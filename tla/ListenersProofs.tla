-------------------------- MODULE ListenersProofs --------------------------
(* What a reload does to the listening sockets, for any set of peers, any    *)
(* two configurations and any addresses other processes hold: it installs   *)
(* every socket of the new configuration or leaves every old one where it   *)
(* was.                                                                     *)
EXTENDS Listeners, FiniteSetTheorems, TLAPS

-----------------------------------------------------------------------------
(* Loops *)

(* Induction along a loop: what holds before the first turn and is kept by  *)
(* every turn holds after the last.                                         *)
LEMMA LoopInduction ==
    ASSUME NEW n \in Nat, NEW S, 0 \in S,
           \A i \in 1 .. n : i - 1 \in S => i \in S
    PROVE  n \in S
<1> DEFINE P == {i \in Nat : i <= n /\ i \notin S}
<1> SUFFICES ASSUME P # {} PROVE FALSE
    OBVIOUS
<1>1. PICK m \in P : \A y \in Nat : <<y, m>> \in OpToRel(<, Nat) => y \notin P
    BY NatLessThanWellFounded, WFMin
<1>2. m \in Nat /\ m <= n /\ m \notin S
    OBVIOUS
<1>3. m # 0 /\ m - 1 \in Nat /\ m - 1 < m /\ m \in 1 .. n
    BY <1>2
<1>4. <<m - 1, m>> \in OpToRel(<, Nat)
    BY <1>2, <1>3 DEF OpToRel
<1>5. m - 1 \notin P
    BY <1>1, <1>3, <1>4
<1>6. m - 1 \in S
    BY <1>2, <1>3, <1>5
<1> QED
    BY <1>2, <1>3, <1>6

(* The function that the loop of binds defines exists, turn by turn.        *)
LEMMA StartRunStep ==
    ASSUME NEW r, NEW keys, NEW old, NEW new, NEW taken, Len(keys) \in Nat,
           NEW run, run = StartRun(r, keys, old, new, taken)
    PROVE  /\ run[0] = r
           /\ \A i \in 1 .. Len(keys) : run[i] = StartListener(run[i - 1], keys[i], old, new, taken)
<1> DEFINE n == Len(keys)
           Fits(m, h) == h = [i \in 0 .. m |->
                           IF i = 0 THEN r ELSE StartListener(h[i - 1], keys[i], old, new, taken)]
           S == {m \in 0 .. n : \E h : Fits(m, h)}
<1>1. 0 \in S
    <2>1. Fits(0, [i \in 0 .. 0 |-> r])
        OBVIOUS
    <2>2. \E h : Fits(0, h)
        BY <2>1
    <2> HIDE DEF Fits
    <2> QED
        BY <2>2
<1>2. \A m \in 1 .. n : m - 1 \in S => m \in S
    <2>0. SUFFICES ASSUME NEW m \in 1 .. n, NEW h, Fits(m - 1, h) PROVE \E g : Fits(m, g)
        <3> HIDE DEF Fits
        <3> QED
            OBVIOUS
    <2> DEFINE g == [i \in 0 .. m |-> IF i = m THEN StartListener(h[m - 1], keys[m], old, new, taken)
                                       ELSE h[i]]
    <2>1. \A i \in 0 .. m : i # m => g[i] = h[i] /\ i \in 0 .. m - 1
        OBVIOUS
    <2>2. ASSUME NEW i \in 0 .. m
          PROVE  g[i] = IF i = 0 THEN r ELSE StartListener(g[i - 1], keys[i], old, new, taken)
        <3>1. i # 0 => i - 1 \in 0 .. m /\ i - 1 # m
            OBVIOUS
        <3>2. i # 0 => g[i - 1] = h[i - 1]
            BY <2>1, <3>1
        <3>3. CASE i = m
            BY <3>2, <3>3
        <3>4. CASE i # m
            <4>1. h[i] = IF i = 0 THEN r ELSE StartListener(h[i - 1], keys[i], old, new, taken)
                BY <2>0, <2>1, <3>4
            <4> QED
                BY <2>1, <3>2, <3>4, <4>1
        <3> QED
            BY <3>3, <3>4
    <2>3. Fits(m, g)
        BY <2>2
    <2> QED
        BY <2>3
<1>3. n \in S
    <2> HIDE DEF S, Fits
    <2> QED
        BY <1>1, <1>2, LoopInduction
<1>4. \E h : Fits(n, h)
    BY <1>3
<1>5. run = CHOOSE h : Fits(n, h)
    BY DEF StartRun
<1>6. Fits(n, run)
    BY <1>4, <1>5
<1> QED
    BY <1>6

(* The same for the loop that puts the released sockets back.                *)
LEMMA RestoreRunStep ==
    ASSUME NEW r, NEW keys, NEW taken, Len(keys) \in Nat,
           NEW run, run = RestoreRun(r, keys, taken)
    PROVE  /\ run[0] = r
           /\ \A i \in 1 .. Len(keys) : run[i] = RestoreListener(run[i - 1], keys[i], taken)
<1> DEFINE n == Len(keys)
           Fits(m, h) == h = [i \in 0 .. m |->
                           IF i = 0 THEN r ELSE RestoreListener(h[i - 1], keys[i], taken)]
           S == {m \in 0 .. n : \E h : Fits(m, h)}
<1>1. 0 \in S
    <2>1. Fits(0, [i \in 0 .. 0 |-> r])
        OBVIOUS
    <2>2. \E h : Fits(0, h)
        BY <2>1
    <2> HIDE DEF Fits
    <2> QED
        BY <2>2
<1>2. \A m \in 1 .. n : m - 1 \in S => m \in S
    <2>0. SUFFICES ASSUME NEW m \in 1 .. n, NEW h, Fits(m - 1, h) PROVE \E g : Fits(m, g)
        <3> HIDE DEF Fits
        <3> QED
            OBVIOUS
    <2> DEFINE g == [i \in 0 .. m |-> IF i = m THEN RestoreListener(h[m - 1], keys[m], taken)
                                       ELSE h[i]]
    <2>1. \A i \in 0 .. m : i # m => g[i] = h[i] /\ i \in 0 .. m - 1
        OBVIOUS
    <2>2. ASSUME NEW i \in 0 .. m
          PROVE  g[i] = IF i = 0 THEN r ELSE RestoreListener(g[i - 1], keys[i], taken)
        <3>1. i # 0 => i - 1 \in 0 .. m /\ i - 1 # m
            OBVIOUS
        <3>2. i # 0 => g[i - 1] = h[i - 1]
            BY <2>1, <3>1
        <3>3. CASE i = m
            BY <3>2, <3>3
        <3>4. CASE i # m
            <4>1. h[i] = IF i = 0 THEN r ELSE RestoreListener(h[i - 1], keys[i], taken)
                BY <2>0, <2>1, <3>4
            <4> QED
                BY <2>1, <3>2, <3>4, <4>1
        <3> QED
            BY <3>3, <3>4
    <2>3. Fits(m, g)
        BY <2>2
    <2> QED
        BY <2>3
<1>3. n \in S
    <2> HIDE DEF S, Fits
    <2> QED
        BY <1>1, <1>2, LoopInduction
<1>4. \E h : Fits(n, h)
    BY <1>3
<1>5. run = CHOOSE h : Fits(n, h)
    BY DEF RestoreRun
<1>6. Fits(n, run)
    BY <1>4, <1>5
<1> QED
    BY <1>6

LEMMA Joined ==
    ASSUME NEW S, NEW a \in Seq(S), NEW b \in Seq(S)
    PROVE  /\ a \o b \in Seq(S)
           /\ Len(a) \in Nat /\ Len(b) \in Nat /\ Len(a \o b) = Len(a) + Len(b)
           /\ \A i \in 1 .. Len(a) : (a \o b)[i] = a[i]
           /\ \A i \in 1 .. Len(b) : (a \o b)[Len(a) + i] = b[i]
    OBVIOUS

(* PeerSeq enumerates the peers.                                            *)
LEMMA PeerSeqIs ==
    /\ PeerSeq \in Seq(LKeys)
    /\ \A i \in DOMAIN PeerSeq : PeerSeq[i] \in Peers
    /\ \A p \in Peers : \E i \in 1 .. Len(PeerSeq) : PeerSeq[i] = p
    /\ Len(PeerSeq) \in Nat
<1> DEFINE c == Cardinality(Peers)
<1>1. c \in Nat /\ ExistsBijection(1 .. c, Peers)
    BY FS_CardinalityType, PeersAssumption
<1>2. \E q \in [1 .. c -> Peers] : \A p \in Peers : \E i \in 1 .. c : q[i] = p
    BY <1>1 DEF ExistsBijection, Bijection, Surjection
<1>3. PeerSeq \in [1 .. c -> Peers] /\ \A p \in Peers : \E i \in DOMAIN PeerSeq : PeerSeq[i] = p
    BY <1>2 DEF PeerSeq
<1>4. PeerSeq \in Seq(Peers) /\ Len(PeerSeq) = c /\ DOMAIN PeerSeq = 1 .. c
    BY <1>1, <1>3
<1> QED
    BY <1>1, <1>3, <1>4 DEF LKeys

(* The keys in the order in which an abandoned reload puts sockets back     *)
LEMMA AllKeysIs ==
    LET q == TopKeys \o PeerSeq IN
    /\ q \in Seq(LKeys)
    /\ Len(q) \in Nat
    /\ \A k \in LKeys : \E i \in 1 .. Len(q) : q[i] = k
<1>1. TopKeys \in Seq(LKeys) /\ Len(TopKeys) = 3
      /\ \A k \in TopSet : \E i \in 1 .. 3 : TopKeys[i] = k
    BY DEF TopKeys, LKeys, TopSet
<1>2. PeerSeq \in Seq(LKeys) /\ Len(PeerSeq) \in Nat
      /\ \A p \in Peers : \E i \in 1 .. Len(PeerSeq) : PeerSeq[i] = p
    BY PeerSeqIs
<1> DEFINE q == TopKeys \o PeerSeq
<1>3. q \in Seq(LKeys) /\ Len(q) = 3 + Len(PeerSeq)
      /\ (\A i \in 1 .. 3 : q[i] = TopKeys[i])
      /\ (\A i \in 1 .. Len(PeerSeq) : q[3 + i] = PeerSeq[i])
    <2>0. PICK a \in Seq(LKeys), b \in Seq(LKeys) : a = TopKeys /\ b = PeerSeq /\ q = a \o b
        BY <1>1, <1>2
    <2>1. Len(TopKeys) = 3
        BY <1>1
    <2>2. /\ q \in Seq(LKeys)
          /\ Len(q) = Len(TopKeys) + Len(PeerSeq)
          /\ \A i \in 1 .. Len(TopKeys) : q[i] = TopKeys[i]
          /\ \A i \in 1 .. Len(PeerSeq) : q[Len(TopKeys) + i] = PeerSeq[i]
        BY <2>0, Joined
    <2> HIDE DEF q
    <2> QED
        BY <2>1, <2>2
<1> HIDE DEF q
<1>4. q = TopKeys \o PeerSeq
    BY DEF q
<1>5. \A i \in 1 .. Len(PeerSeq) : 3 + i \in 1 .. Len(q)
    BY <1>2, <1>3
<1>6. ASSUME NEW k \in LKeys PROVE \E i \in 1 .. Len(q) : q[i] = k
    <2>1. CASE k \in TopSet
        BY <2>1, <1>1, <1>2, <1>3
    <2>2. CASE k \in Peers
        <3>1. PICK i \in 1 .. Len(PeerSeq) : PeerSeq[i] = k
            BY <2>2, <1>2
        <3> QED
            BY <3>1, <1>3, <1>5
    <2> QED
        BY <2>1, <2>2 DEF LKeys
<1> QED
    BY <1>2, <1>3, <1>4, <1>6
-----------------------------------------------------------------------------
(* Sockets *)

(* A string that is not empty never stands for "no address".                *)
Resolvable(lst) == \A k \in LKeys : lst[k] # NoAddr => Resolve(lst[k]) # NoAddr

(* The server listens where `lst' says and nowhere else.                    *)
Serves(b, lst) == b = [k \in LKeys |-> AddrOf(lst[k])]

(* Sockets that the system lets coexist: no two share an address and none   *)
(* has an address that cannot be bound.                                     *)
Bindable(b, taken) == \A k \in LKeys : b[k] # NoAddr => b[k] # Unparsed /\ b[k] \notin taken
Distinct(b) == \A j, k \in LKeys : j # k /\ b[j] # NoAddr => b[j] # b[k]

IsReload(r) ==
    /\ r = [bound |-> r.bound, prep |-> r.prep, rel |-> r.rel, kept |-> r.kept, ok |-> r.ok]
    /\ r.bound = [k \in LKeys |-> r.bound[k]]
    /\ r.prep = [k \in LKeys |-> r.prep[k]]
    /\ r.rel = [k \in LKeys |-> r.rel[k]]
    /\ r.ok \in BOOLEAN

(* The reload has not failed.                                               *)
GoesOn(r) == r.ok = TRUE

(* Where listener k listens in the reload r                                 *)
At(r, k) == r.bound[k]

(* Sockets bound and sockets prepared, taken together                       *)
Apart(r) ==
    \A j, k \in LKeys : j # k =>
        /\ r.bound[j] # NoAddr => r.bound[j] # r.bound[k] /\ r.bound[j] # r.prep[k]
        /\ r.prep[j] # NoAddr => r.prep[j] # r.prep[k]

(* An abort can put everything back: every address of b is bound or noted.  *)
Recoverable(r, b) ==
    \A k \in LKeys : \/ r.bound[k] = b[k] /\ r.rel[k] = NoAddr
                     \/ r.bound[k] = NoAddr /\ r.rel[k] = b[k]

(* One turn of the loop that puts sockets back                              *)
Restoring(q, r, b) ==
    /\ IsReload(q) /\ q.prep = r.prep /\ q.rel = r.rel /\ q.ok = r.ok
    /\ \A k \in LKeys : q.bound[k] = b[k] \/ (q.bound[k] = NoAddr /\ q.rel[k] = b[k])

LEMMA RestoreStep ==
    ASSUME NEW b, NEW taken, Bindable(b, taken), Distinct(b),
           NEW r, Recoverable(r, b), \A k \in LKeys : r.prep[k] = NoAddr,
           NEW q, Restoring(q, r, b), NEW k \in LKeys,
           NEW s, s = RestoreListener(q, k, taken)
    PROVE  /\ Restoring(s, r, b)
           /\ s.bound[k] = b[k]
           /\ \A j \in LKeys : q.bound[j] = b[j] => s.bound[j] = b[j]
<1>1. q.rel[k] \in {NoAddr, b[k]}
    BY DEF Restoring, Recoverable
<1>2. CASE q.bound[k] = b[k] /\ RestoreListener(q, k, taken) = q
    BY <1>2
<1>3. CASE q.bound[k] = b[k] /\ RestoreListener(q, k, taken) # q
    BY <1>1, <1>3 DEF Restoring, RestoreListener, IsReload
<1>4. CASE q.bound[k] # b[k]
    <2>1. q.bound[k] = NoAddr /\ q.rel[k] = b[k] /\ b[k] # NoAddr
        BY <1>4 DEF Restoring
    <2>2. CanBind(q, b[k], taken)
        BY <2>1 DEF CanBind, Restoring, Bindable, Distinct
    <2>3. RestoreListener(q, k, taken) = [q EXCEPT !.bound[k] = b[k]]
        BY <2>1, <2>2 DEF RestoreListener
    <2> QED
        BY <2>3 DEF Restoring, IsReload
<1> QED
    BY <1>2, <1>3, <1>4

(* server_listener_reload_abort puts every socket back.                     *)
LEMMA RestoreAll ==
    ASSUME NEW b, NEW taken, b = [k \in LKeys |-> b[k]], Bindable(b, taken), Distinct(b),
           NEW r, IsReload(r), Recoverable(r, b), \A k \in LKeys : r.prep[k] = NoAddr
    PROVE  RestoreEach(r, taken).bound = b /\ RestoreEach(r, taken).ok = r.ok
<1>a. PICK keys : keys = TopKeys \o PeerSeq
    OBVIOUS
<1>b. PICK run : run = RestoreRun(r, keys, taken)
    OBVIOUS
<1> DEFINE n == Len(keys)
           S == {i \in 0 .. n : Restoring(run[i], r, b)
                                /\ \A j \in 1 .. i : run[i].bound[keys[j]] = b[keys[j]]}
<1>1. n \in Nat /\ (\A i \in 1 .. n : keys[i] \in LKeys)
      /\ \A k \in LKeys : \E i \in 1 .. n : keys[i] = k
    BY <1>a, AllKeysIs
<1>2. run[0] = r /\ \A i \in 1 .. n : run[i] = RestoreListener(run[i - 1], keys[i], taken)
    BY <1>1, <1>b, RestoreRunStep
<1> HIDE DEF n
<1>3. 0 \in S
    BY <1>1, <1>2 DEF Restoring, Recoverable
<1>4. ASSUME NEW i \in 1 .. n, i - 1 \in S PROVE i \in S
    <2>1. Restoring(run[i - 1], r, b) /\ \A j \in 1 .. i - 1 : run[i - 1].bound[keys[j]] = b[keys[j]]
        BY <1>4
    <2>2. keys[i] \in LKeys /\ run[i] = RestoreListener(run[i - 1], keys[i], taken)
        BY <1>1, <1>2
    <2>3. /\ Restoring(run[i], r, b)
          /\ run[i].bound[keys[i]] = b[keys[i]]
          /\ \A j \in LKeys : run[i - 1].bound[j] = b[j] => run[i].bound[j] = b[j]
        BY <2>1, <2>2, RestoreStep
    <2>4. ASSUME NEW j \in 1 .. i PROVE run[i].bound[keys[j]] = b[keys[j]]
        <3>1. CASE j = i
            BY <3>1, <2>3
        <3>2. CASE j # i
            <4>1. j \in 1 .. i - 1 /\ j \in 1 .. n
                BY <1>1, <3>2
            <4> QED
                BY <1>1, <2>1, <2>3, <4>1
        <3> QED
            BY <3>1, <3>2
    <2> QED
        BY <1>1, <2>3, <2>4
<1>5. n \in S
    <2> HIDE DEF S
    <2> QED
        BY <1>1, <1>3, <1>4, LoopInduction
<1>6. IsReload(run[n]) /\ run[n].ok = r.ok /\ \A k \in LKeys : run[n].bound[k] = b[k]
    BY <1>1, <1>5 DEF Restoring
<1>7. run[n].bound = b
    BY <1>6 DEF IsReload
<1>8. RestoreEach(r, taken) = run[n]
    BY <1>a, <1>b DEF RestoreEach, n
<1> QED
    BY <1>6, <1>7, <1>8

(* One bind of the loop that starts listeners                               *)
Starting(q, r, old, new, taken) ==
    /\ IsReload(q) /\ q.prep = r.prep /\ q.rel = r.rel /\ q.kept = r.kept
    /\ \A k \in LKeys : old[k] = new[k] \/ new[k] = NoAddr => q.bound[k] = r.bound[k]
    /\ GoesOn(q) => GoesOn(r)
    /\ GoesOn(q) /\ Apart(r) /\ Bindable(r.bound, taken) => Apart(q) /\ Bindable(q.bound, taken)

(* q becomes s when listener k is started.                                  *)
Starts(s, q, k, old, new) ==
    /\ GoesOn(s) => GoesOn(q)
    /\ GoesOn(s) /\ old[k] # new[k] /\ new[k] # NoAddr => At(s, k) = Resolve(new[k])
    /\ \A j \in LKeys : j # k => At(s, j) = At(q, j)

LEMMA StartStep ==
    ASSUME NEW r, NEW old, NEW new, NEW taken, Resolvable(new),
           NEW q, Starting(q, r, old, new, taken), NEW k \in LKeys,
           NEW s, s = StartListener(q, k, old, new, taken)
    PROVE  Starting(s, r, old, new, taken) /\ Starts(s, q, k, old, new)
<1>1. CASE ~GoesOn(q) \/ new[k] = NoAddr \/ old[k] = new[k]
    BY <1>1 DEF StartListener, Starting, Starts, GoesOn, IsReload, At
<1>2. CASE GoesOn(q) /\ new[k] # NoAddr /\ old[k] # new[k]
    <2> DEFINE a == Resolve(new[k])
    <2>0. a # NoAddr
        BY <1>2 DEF Resolvable
    <2> HIDE DEF a
    <2>1. CASE CanBind(q, a, taken)
        <3>1. s = [q EXCEPT !.bound[k] = a]
            BY <1>2, <2>1 DEF StartListener, a, GoesOn
        <3>2. /\ IsReload(s) /\ s.prep = q.prep /\ s.rel = q.rel /\ s.kept = q.kept /\ s.ok = q.ok
              /\ s.bound[k] = a /\ \A j \in LKeys : j # k => s.bound[j] = q.bound[j]
            BY <3>1 DEF Starting, IsReload
        <3>3. ASSUME Apart(q), Bindable(q.bound, taken)
              PROVE  Apart(s) /\ Bindable(s.bound, taken)
            <4>1. a # Unparsed /\ a \notin taken
                  /\ \A j \in LKeys : a # q.bound[j] /\ a # q.prep[j]
                BY <2>1 DEF CanBind
            <4>2. Bindable(s.bound, taken)
                BY <3>2, <3>3, <4>1 DEF Bindable
            <4>3. Apart(s)
                BY <3>2, <3>3, <4>1, <2>0 DEF Apart
            <4> QED
                BY <4>2, <4>3
        <3>4. Starting(s, r, old, new, taken)
            BY <1>2, <3>2, <3>3 DEF Starting, GoesOn
        <3> QED
            BY <1>2, <3>2, <3>4 DEF a, Starts, GoesOn, At
    <2>2. CASE ~CanBind(q, a, taken)
        <3>1. s = [q EXCEPT !.ok = FALSE]
            BY <1>2, <2>2 DEF StartListener, a, GoesOn
        <3>2. /\ IsReload(s) /\ s.prep = q.prep /\ s.rel = q.rel /\ s.kept = q.kept
              /\ s.ok = FALSE /\ s.bound = q.bound
            BY <3>1 DEF Starting, IsReload
        <3> QED
            BY <3>2 DEF Starting, Starts, GoesOn, At
    <2> QED
        BY <2>1, <2>2
<1> QED
    BY <1>1, <1>2

(* r becomes q when the listeners of `keys' are started.                    *)
StartsAll(q, r, keys, old, new) ==
    /\ \A k \in LKeys : (\A i \in 1 .. Len(keys) : keys[i] # k) => At(q, k) = At(r, k)
    /\ GoesOn(q) => \A i \in 1 .. Len(keys) :
                  old[keys[i]] # new[keys[i]] /\ new[keys[i]] # NoAddr
                     => At(q, keys[i]) = Resolve(new[keys[i]])

(* What the loop of binds leaves: everything it was asked for, or a failure *)
(* that disturbs nothing else.                                              *)
LEMMA StartAll ==
    ASSUME NEW r, IsReload(r), NEW old, NEW new, NEW taken, Resolvable(new),
           NEW keys \in Seq(LKeys), NEW q, q = StartEach(r, keys, old, new, taken)
    PROVE  Starting(q, r, old, new, taken) /\ StartsAll(q, r, keys, old, new)
<1>a. PICK run : run = StartRun(r, keys, old, new, taken)
    OBVIOUS
<1> DEFINE n == Len(keys)
           Wanted(k) == old[k] # new[k] /\ new[k] # NoAddr
           S == {i \in 0 .. n :
                    /\ Starting(run[i], r, old, new, taken)
                    /\ \A k \in LKeys : (\A j \in 1 .. i : keys[j] # k) => At(run[i], k) = At(r, k)
                    /\ GoesOn(run[i]) => \A j \in 1 .. i :
                                       Wanted(keys[j]) => At(run[i], keys[j]) = Resolve(new[keys[j]])}
<1>1. n \in Nat /\ \A i \in 1 .. n : keys[i] \in LKeys
    OBVIOUS
<1>2. run[0] = r /\ \A i \in 1 .. n : run[i] = StartListener(run[i - 1], keys[i], old, new, taken)
    BY <1>1, <1>a, StartRunStep
<1> HIDE DEF n
<1>3. 0 \in S
    BY <1>1, <1>2 DEF Starting
<1>4. ASSUME NEW i \in 1 .. n, i - 1 \in S PROVE i \in S
    <2>1. /\ Starting(run[i - 1], r, old, new, taken)
          /\ \A k \in LKeys : (\A j \in 1 .. i - 1 : keys[j] # k) => At(run[i - 1], k) = At(r, k)
          /\ GoesOn(run[i - 1]) => \A j \in 1 .. i - 1 :
                                Wanted(keys[j]) => At(run[i - 1], keys[j]) = Resolve(new[keys[j]])
        BY <1>4
    <2>2. keys[i] \in LKeys /\ run[i] = StartListener(run[i - 1], keys[i], old, new, taken)
        BY <1>1, <1>2
    <2>3. /\ Starting(run[i], r, old, new, taken)
          /\ GoesOn(run[i]) => GoesOn(run[i - 1])
          /\ GoesOn(run[i]) /\ Wanted(keys[i]) => At(run[i], keys[i]) = Resolve(new[keys[i]])
          /\ \A j \in LKeys : j # keys[i] => At(run[i], j) = At(run[i - 1], j)
        <3>1. Starting(run[i], r, old, new, taken) /\ Starts(run[i], run[i - 1], keys[i], old, new)
            BY <2>1, <2>2, StartStep
        <3> QED
            BY <3>1 DEF Starts
    <2>4. ASSUME NEW k \in LKeys, \A j \in 1 .. i : keys[j] # k PROVE At(run[i], k) = At(r, k)
        <3>1. i \in 1 .. i /\ \A j \in 1 .. i - 1 : j \in 1 .. i
            BY <1>1
        <3> QED
            BY <2>1, <2>3, <2>4, <3>1
    <2>5. ASSUME GoesOn(run[i]), NEW j \in 1 .. i, Wanted(keys[j])
          PROVE  At(run[i], keys[j]) = Resolve(new[keys[j]])
        <3>1. CASE keys[j] = keys[i]
            BY <2>3, <2>5, <3>1
        <3>2. CASE keys[j] # keys[i]
            <4>1. j \in 1 .. i - 1 /\ keys[j] \in LKeys
                BY <1>1, <3>2
            <4>2. At(run[i - 1], keys[j]) = Resolve(new[keys[j]])
                BY <2>1, <2>3, <2>5, <4>1
            <4> QED
                BY <2>3, <3>2, <4>1, <4>2
        <3> QED
            BY <3>1, <3>2
    <2> QED
        BY <1>1, <2>3, <2>4, <2>5
<1>5. n \in S
    <2> HIDE DEF S
    <2> QED
        BY <1>1, <1>3, <1>4, LoopInduction
<1>6. q = run[n]
    BY <1>a DEF StartEach, n
<1> QED
    BY <1>5, <1>6 DEF n, StartsAll
-----------------------------------------------------------------------------
(* A reload from `old', which the sockets b serve, to `new' *)

(* Listener k is where the new configuration wants it, or out of the way.   *)
Ready(r, k, b, old, new) ==
    /\ old[k] = new[k] => At(r, k) = b[k]
    /\ old[k] # new[k] /\ k \in r.kept => At(r, k) = AddrOf(new[k])
    /\ old[k] # new[k] /\ k \notin r.kept => At(r, k) = NoAddr

(* Only a top-level listener is left bound for its new string.              *)
KeptTop(r) == \A p \in Peers : p \notin r.kept

(* While sockets are released, the listeners of D seen to                   *)
Releasing(r, D, b, old, new) ==
    /\ IsReload(r) /\ Recoverable(r, b)
    /\ \A k \in LKeys : r.prep[k] = NoAddr
    /\ \A k \in LKeys \ D : At(r, k) = b[k] /\ k \notin r.kept
    /\ GoesOn(r) => \A k \in D : Ready(r, k, b, old, new)

LEMMA ReleaseStep ==
    ASSUME NEW b, NEW old, NEW new, NEW D \in SUBSET LKeys, NEW k \in LKeys \ D,
           NEW r, Releasing(r, D, b, old, new),
           NEW s, s = ReleaseListener(r, k, old, new)
    PROVE  Releasing(s, D \cup {k}, b, old, new)
<1>0. IsReload(r) /\ At(r, k) = b[k] /\ r.bound[k] = b[k] /\ k \notin r.kept /\ r.ok \in BOOLEAN
    BY DEF Releasing, IsReload, At
<1>1. CASE s = r /\ (~GoesOn(r) \/ old[k] = new[k] \/ r.bound[k] = NoAddr)
    BY <1>0, <1>1 DEF Releasing, Ready, At
<1>2. CASE s = [r EXCEPT !.ok = FALSE]
    BY <1>2 DEF Releasing, Recoverable, IsReload, GoesOn, At
<1>3. CASE /\ s = [r EXCEPT !.kept = @ \cup {k}]
           /\ new[k] # NoAddr /\ Resolve(new[k]) = r.bound[k] /\ old[k] # new[k]
    <2>1. IsReload(s) /\ s.bound = r.bound /\ s.prep = r.prep /\ s.rel = r.rel /\ s.ok = r.ok
          /\ s.kept = r.kept \cup {k}
        BY <1>0, <1>3 DEF IsReload
    <2>2. ASSUME GoesOn(s), NEW j \in D PROVE Ready(s, j, b, old, new)
        BY <2>1, <2>2 DEF Releasing, Ready, GoesOn, At
    <2>3. Ready(s, k, b, old, new)
        BY <1>0, <1>3, <2>1 DEF Ready, At, AddrOf
    <2> QED
        BY <2>1, <2>2, <2>3 DEF Releasing, Recoverable, At
<1>4. CASE s = [r EXCEPT !.rel[k] = r.bound[k], !.bound[k] = NoAddr] /\ old[k] # new[k]
    <2>1. /\ IsReload(s) /\ s.prep = r.prep /\ s.kept = r.kept /\ s.ok = r.ok
          /\ s.bound[k] = NoAddr /\ s.rel[k] = r.bound[k]
          /\ \A j \in LKeys : j # k => s.bound[j] = r.bound[j] /\ s.rel[j] = r.rel[j]
        <3>1. s = [bound |-> [r.bound EXCEPT ![k] = NoAddr], prep |-> r.prep,
                   rel |-> [r.rel EXCEPT ![k] = r.bound[k]], kept |-> r.kept, ok |-> r.ok]
            BY <1>0, <1>4 DEF IsReload
        <3>2. s.bound = [j \in LKeys |-> IF j = k THEN NoAddr ELSE r.bound[j]]
              /\ s.rel = [j \in LKeys |-> IF j = k THEN r.bound[k] ELSE r.rel[j]]
            BY <1>0, <3>1 DEF IsReload
        <3>3. IsReload(s)
            BY <1>0, <3>1, <3>2 DEF IsReload
        <3> QED
            BY <1>0, <3>1, <3>2, <3>3
    <2>2. ASSUME GoesOn(s), NEW j \in D PROVE Ready(s, j, b, old, new)
        BY <2>1, <2>2 DEF Releasing, Ready, GoesOn, At
    <2>3. Ready(s, k, b, old, new)
        BY <1>0, <1>4, <2>1 DEF Ready, At
    <2>4. Recoverable(s, b)
        BY <1>0, <2>1 DEF Releasing, Recoverable, At
    <2>5. \A j \in LKeys \ (D \cup {k}) : At(s, j) = b[j] /\ j \notin s.kept
        BY <2>1 DEF Releasing, At
    <2>6. \A j \in LKeys : s.prep[j] = NoAddr
        BY <2>1 DEF Releasing
    <2> QED
        BY <2>1, <2>2, <2>3, <2>4, <2>5, <2>6 DEF Releasing
<1> QED
    BY <1>0, <1>1, <1>2, <1>3, <1>4 DEF ReleaseListener, GoesOn

(* The three top-level listeners, then every identity listener              *)
LEMMA ReleaseAll ==
    ASSUME NEW b, NEW old, NEW new, Serves(b, old),
           NEW r, r = ReleaseIdentities(ReleaseTop(ReloadOf(b), old, new), old, new)
    PROVE  Releasing(r, LKeys, b, old, new) /\ KeptTop(r)
<1>1. PICK r0 : r0 = ReloadOf(b)
    OBVIOUS
<1>2. Releasing(r0, {}, b, old, new)
    BY <1>1 DEF ReloadOf, Releasing, IsReload, Recoverable, At, Serves
<1>3. PICK r1 : r1 = ReleaseListener(r0, "listen", old, new)
    OBVIOUS
<1>4. PICK r2 : r2 = ReleaseListener(r1, "mux_listen", old, new)
    OBVIOUS
<1>5. PICK r3 : r3 = ReleaseListener(r2, "api_listen", old, new)
    OBVIOUS
<1>6. Releasing(r1, {"listen"}, b, old, new)
    <2>1. {} \in SUBSET LKeys /\ "listen" \in LKeys \ {} /\ {} \cup {"listen"} = {"listen"}
        BY DEF LKeys, TopSet
    <2> QED
        BY <1>2, <1>3, <2>1, ReleaseStep
<1>7. Releasing(r2, {"listen", "mux_listen"}, b, old, new)
    <2>1. {"listen"} \in SUBSET LKeys /\ "mux_listen" \in LKeys \ {"listen"}
          /\ {"listen"} \cup {"mux_listen"} = {"listen", "mux_listen"}
        BY DEF LKeys, TopSet
    <2> QED
        BY <1>4, <1>6, <2>1, ReleaseStep
<1>8. Releasing(r3, TopSet, b, old, new)
    <2>1. {"listen", "mux_listen"} \in SUBSET LKeys /\ "api_listen" \in LKeys \ {"listen", "mux_listen"}
          /\ {"listen", "mux_listen"} \cup {"api_listen"} = TopSet
        BY DEF LKeys, TopSet
    <2> QED
        BY <1>5, <1>7, <2>1, ReleaseStep
<1>9. r = ReleaseIdentities(r3, old, new)
    BY <1>1, <1>3, <1>4, <1>5 DEF ReleaseTop
<1>k. KeptTop(r3)
    BY <1>8, PeersAssumption DEF Releasing, KeptTop, LKeys
<1>10. CASE ~GoesOn(r3)
    <2>1. r = r3
        BY <1>8, <1>9, <1>10 DEF ReleaseIdentities, GoesOn, Releasing, IsReload
    <2> QED
        BY <1>8, <1>10, <1>k, <2>1 DEF Releasing, LKeys
<1>11. CASE GoesOn(r3)
    <2>1. /\ IsReload(r) /\ r.prep = r3.prep /\ r.kept = r3.kept /\ r.ok = r3.ok
          /\ \A k \in LKeys : Released(k, old, new) => r.bound[k] = NoAddr /\ r.rel[k] = r3.bound[k]
          /\ \A k \in LKeys : ~Released(k, old, new) => r.bound[k] = r3.bound[k] /\ r.rel[k] = r3.rel[k]
        <3>1. IsReload(r3) /\ r3.ok = TRUE
            BY <1>8, <1>11 DEF Releasing, GoesOn
        <3>2. r = [bound |-> [k \in LKeys |-> IF Released(k, old, new) THEN NoAddr ELSE r3.bound[k]],
                   prep |-> r3.prep,
                   rel |-> [k \in LKeys |-> IF Released(k, old, new) THEN r3.bound[k] ELSE r3.rel[k]],
                   kept |-> r3.kept, ok |-> r3.ok]
            BY <1>9, <3>1 DEF ReleaseIdentities, IsReload
        <3> QED
            BY <3>1, <3>2 DEF IsReload
    <2>2. Recoverable(r, b)
        <3>1. \A k \in LKeys : Released(k, old, new) => r3.bound[k] = b[k]
            BY <1>8, PeersAssumption DEF Releasing, Released, At, LKeys
        <3> QED
            BY <1>8, <2>1, <3>1 DEF Recoverable, Releasing
    <2>3. ASSUME NEW k \in LKeys PROVE Ready(r, k, b, old, new)
        <3>1. CASE k \in Peers
            <4>1. r3.bound[k] = b[k] /\ k \notin r3.kept /\ b[k] = AddrOf(old[k])
                BY <1>8, <3>1, PeersAssumption DEF Releasing, At, LKeys, Serves
            <4>2. CASE old[k] = new[k]
                BY <2>1, <4>1, <4>2 DEF Ready, At, Released
            <4>3. CASE old[k] # new[k] /\ old[k] = NoAddr
                BY <2>1, <4>1, <4>3 DEF Ready, At, Released, AddrOf
            <4>4. CASE old[k] # new[k] /\ old[k] # NoAddr
                BY <2>1, <3>1, <4>1, <4>4 DEF Ready, At, Released
            <4> QED
                BY <4>2, <4>3, <4>4
        <3>2. CASE k \in TopSet
            <4>1. ~Released(k, old, new)
                BY <3>2, PeersAssumption DEF Released
            <4>2. Ready(r3, k, b, old, new)
                BY <1>8, <1>11, <3>2 DEF Releasing
            <4> QED
                BY <2>1, <4>1, <4>2 DEF Ready, At
        <3> QED
            BY <3>1, <3>2 DEF LKeys
    <2>4. \A k \in LKeys : r.prep[k] = NoAddr
        BY <1>8, <2>1 DEF Releasing
    <2> QED
        BY <1>k, <2>1, <2>2, <2>3, <2>4 DEF Releasing, KeptTop
<1> QED
    BY <1>10, <1>11

(* While replacements of the top-level listeners are bound, those of D done *)
Preparing(r, D, b, old, new, taken) ==
    /\ IsReload(r) /\ Recoverable(r, b) /\ KeptTop(r)
    /\ \A k \in LKeys \ D : r.prep[k] = NoAddr
    /\ GoesOn(r) =>
         /\ \A k \in LKeys : Ready(r, k, b, old, new)
         /\ Apart(r) /\ Bindable(r.bound, taken) /\ Bindable(r.prep, taken)
         /\ \A k \in D : old[k] # new[k] /\ k \notin r.kept => r.prep[k] = AddrOf(new[k])

LEMMA PrepareStep ==
    ASSUME NEW b, NEW old, NEW new, NEW taken, Resolvable(new),
           NEW D \in SUBSET LKeys, NEW k \in LKeys \ D,
           NEW r, Preparing(r, D, b, old, new, taken),
           NEW s, s = PrepareListener(r, k, old, new, taken)
    PROVE  Preparing(s, D \cup {k}, b, old, new, taken)
<1>0. IsReload(r) /\ r.prep[k] = NoAddr
    BY DEF Preparing
<1>1. CASE s = r /\ (~GoesOn(r) \/ old[k] = new[k] \/ new[k] = NoAddr \/ k \in r.kept)
    BY <1>0, <1>1 DEF Preparing, AddrOf
<1>2. CASE s = [r EXCEPT !.ok = FALSE]
    <2>1. IsReload(s) /\ s.ok = FALSE /\ s.bound = r.bound /\ s.prep = r.prep /\ s.rel = r.rel
          /\ s.kept = r.kept
        BY <1>0, <1>2 DEF IsReload
    <2> QED
        BY <2>1 DEF Preparing, Recoverable, GoesOn, KeptTop
<1>3. CASE /\ s = [r EXCEPT !.prep[k] = Resolve(new[k])] /\ GoesOn(r) /\ new[k] # NoAddr
           /\ CanBind(r, Resolve(new[k]), taken)
    <2>0. PICK a : a = Resolve(new[k])
        OBVIOUS
    <2>1. /\ IsReload(s) /\ s.bound = r.bound /\ s.rel = r.rel /\ s.kept = r.kept /\ s.ok = r.ok
          /\ s.prep[k] = a /\ \A j \in LKeys : j # k => s.prep[j] = r.prep[j]
        BY <1>0, <1>3, <2>0 DEF IsReload
    <2>2. a # NoAddr /\ a # Unparsed /\ a \notin taken /\ a = AddrOf(new[k])
          /\ \A j \in LKeys : a # r.bound[j] /\ a # r.prep[j]
        BY <1>3, <2>0 DEF CanBind, Resolvable, AddrOf
    <2>3. Apart(s)
        BY <1>3, <2>1, <2>2 DEF Preparing, Apart
    <2>4. Bindable(s.bound, taken) /\ Bindable(s.prep, taken)
        BY <1>3, <2>1, <2>2 DEF Preparing, Bindable
    <2>5. \A j \in LKeys : Ready(s, j, b, old, new)
        BY <1>3, <2>1 DEF Preparing, Ready, At
    <2>6. \A j \in D \cup {k} : old[j] # new[j] /\ j \notin s.kept => s.prep[j] = AddrOf(new[j])
        BY <1>3, <2>1, <2>2 DEF Preparing
    <2>7. Recoverable(s, b) /\ KeptTop(s)
        BY <2>1 DEF Preparing, Recoverable, KeptTop
    <2>8. \A j \in LKeys \ (D \cup {k}) : s.prep[j] = NoAddr
        BY <2>1 DEF Preparing
    <2> QED
        BY <2>1, <2>3, <2>4, <2>5, <2>6, <2>7, <2>8 DEF Preparing
<1> QED
    BY <1>0, <1>1, <1>2, <1>3 DEF PrepareListener, GoesOn, IsReload

(* server_prepare_listeners                                                 *)
LEMMA PrepareAll ==
    ASSUME NEW b, NEW old, NEW new, NEW taken, Resolvable(new),
           Serves(b, old), Bindable(b, taken), Distinct(b),
           NEW r, r = PrepareListeners(b, old, new, taken)
    PROVE  Preparing(r, TopSet, b, old, new, taken)
<1>1. PICK r0 : r0 = ReleaseIdentities(ReleaseTop(ReloadOf(b), old, new), old, new)
    OBVIOUS
<1>2. Releasing(r0, LKeys, b, old, new) /\ KeptTop(r0)
    BY <1>1, ReleaseAll
<1>3. Preparing(r0, {}, b, old, new, taken)
    <2>1. /\ IsReload(r0) /\ Recoverable(r0, b)
          /\ \A k \in LKeys : r0.prep[k] = NoAddr
          /\ GoesOn(r0) => \A k \in LKeys : Ready(r0, k, b, old, new)
        BY <1>2 DEF Releasing
    <2>2. \A k \in LKeys : r0.bound[k] \in {NoAddr, b[k]}
        BY <2>1 DEF Recoverable
    <2>3. Apart(r0) /\ Bindable(r0.bound, taken) /\ Bindable(r0.prep, taken)
        BY <2>1, <2>2 DEF Apart, Bindable, Distinct
    <2> QED
        BY <1>2, <2>1, <2>3 DEF Preparing
<1>4. PICK r1 : r1 = PrepareListener(r0, "listen", old, new, taken)
    OBVIOUS
<1>5. PICK r2 : r2 = PrepareListener(r1, "mux_listen", old, new, taken)
    OBVIOUS
<1>6. Preparing(r1, {"listen"}, b, old, new, taken)
    <2>1. {} \in SUBSET LKeys /\ "listen" \in LKeys \ {} /\ {} \cup {"listen"} = {"listen"}
        BY DEF LKeys, TopSet
    <2> QED
        BY <1>3, <1>4, <2>1, PrepareStep
<1>7. Preparing(r2, {"listen", "mux_listen"}, b, old, new, taken)
    <2>1. {"listen"} \in SUBSET LKeys /\ "mux_listen" \in LKeys \ {"listen"}
          /\ {"listen"} \cup {"mux_listen"} = {"listen", "mux_listen"}
        BY DEF LKeys, TopSet
    <2> QED
        BY <1>5, <1>6, <2>1, PrepareStep
<1>8. r = PrepareListener(r2, "api_listen", old, new, taken)
    BY <1>1, <1>4, <1>5 DEF PrepareListeners, PrepareTop
<1> QED
    <2>1. {"listen", "mux_listen"} \in SUBSET LKeys /\ "api_listen" \in LKeys \ {"listen", "mux_listen"}
          /\ {"listen", "mux_listen"} \cup {"api_listen"} = TopSet
        BY DEF LKeys, TopSet
    <2> QED
        BY <1>7, <1>8, <2>1, PrepareStep

(* The identity listeners have been started on top of that, or undone.      *)
Reloaded(r, b, old, new, taken) ==
    /\ IsReload(r)
    /\ ~GoesOn(r) => Recoverable(r, b)
    /\ GoesOn(r) =>
         /\ Apart(r) /\ Bindable(r.bound, taken) /\ Bindable(r.prep, taken)
         /\ \A k \in TopSet : old[k] # new[k] /\ k \notin r.kept => r.prep[k] = AddrOf(new[k])
         /\ \A k \in TopSet : old[k] = new[k] \/ k \in r.kept => At(r, k) = AddrOf(new[k])
         /\ \A p \in Peers : At(r, p) = AddrOf(new[p])

(* server_reload_identities                                                 *)
LEMMA ReloadAll ==
    ASSUME NEW b, NEW old, NEW new, NEW taken, Resolvable(new), Serves(b, old),
           NEW r, Preparing(r, TopSet, b, old, new, taken),
           NEW s, s = ReloadIdentities(r, old, new, taken)
    PROVE  Reloaded(s, b, old, new, taken)
<1>0. IsReload(r) /\ Recoverable(r, b) /\ KeptTop(r)
    BY DEF Preparing
<1>1. CASE ~GoesOn(r)
    <2>1. s = r
        BY <1>0, <1>1 DEF ReloadIdentities, GoesOn, IsReload
    <2> QED
        BY <1>0, <1>1, <2>1 DEF Reloaded
<1>2. CASE GoesOn(r)
    <2>0. /\ \A k \in LKeys : Ready(r, k, b, old, new)
          /\ Apart(r) /\ Bindable(r.bound, taken) /\ Bindable(r.prep, taken)
          /\ \A k \in TopSet : old[k] # new[k] /\ k \notin r.kept => r.prep[k] = AddrOf(new[k])
        BY <1>2 DEF Preparing
    <2>1. PICK keys : keys = PeerSeq
        OBVIOUS
    <2>2. PICK q : q = StartEach(r, keys, old, new, taken)
        OBVIOUS
    <2>3. /\ keys \in Seq(LKeys)
          /\ \A k \in TopSet : \A i \in 1 .. Len(keys) : keys[i] # k
          /\ \A p \in Peers : \E i \in 1 .. Len(keys) : keys[i] = p
        BY <2>1, PeerSeqIs, PeersAssumption
    <2>4. Starting(q, r, old, new, taken) /\ StartsAll(q, r, keys, old, new)
        BY <1>0, <2>2, <2>3, StartAll
    <2>5. \A k \in TopSet : At(q, k) = At(r, k)
        BY <2>3, <2>4 DEF LKeys, StartsAll
    <2>6. /\ IsReload(q) /\ q.prep = r.prep /\ q.rel = r.rel /\ q.kept = r.kept
          /\ \A k \in LKeys : old[k] = new[k] \/ new[k] = NoAddr => At(q, k) = At(r, k)
        BY <2>4 DEF Starting, At
    <2>7. CASE GoesOn(q)
        <3>1. s = q
            BY <1>2, <2>1, <2>2, <2>7 DEF ReloadIdentities, AbortIfFailed, GoesOn
        <3>2. Apart(q) /\ Bindable(q.bound, taken)
            BY <2>0, <2>4, <2>7 DEF Starting
        <3>3. ASSUME NEW p \in Peers PROVE At(q, p) = AddrOf(new[p])
            <4>1. p \in LKeys /\ p \notin r.kept /\ Ready(r, p, b, old, new) /\ b[p] = AddrOf(old[p])
                BY <1>0, <2>0 DEF LKeys, KeptTop, Serves
            <4>2. CASE old[p] = new[p]
                BY <2>6, <4>1, <4>2 DEF Ready
            <4>3. CASE old[p] # new[p] /\ new[p] = NoAddr
                BY <2>6, <4>1, <4>3 DEF Ready, AddrOf
            <4>4. CASE old[p] # new[p] /\ new[p] # NoAddr
                <5>1. PICK i \in 1 .. Len(keys) : keys[i] = p
                    BY <2>3
                <5> QED
                    BY <2>4, <2>7, <4>4, <5>1 DEF AddrOf, StartsAll
            <4> QED
                BY <4>2, <4>3, <4>4
        <3>4. ASSUME NEW k \in TopSet, old[k] = new[k] \/ k \in q.kept PROVE At(q, k) = AddrOf(new[k])
            <4>1. k \in LKeys /\ Ready(r, k, b, old, new) /\ b[k] = AddrOf(old[k])
                BY <2>0 DEF LKeys, Serves
            <4> QED
                BY <2>5, <2>6, <3>4, <4>1 DEF Ready
        <3> QED
            BY <2>0, <2>6, <2>7, <3>1, <3>2, <3>3, <3>4 DEF Reloaded
    <2>8. CASE ~GoesOn(q)
        <3>0. s = AbortIdentities(q, old, new)
            BY <1>2, <2>1, <2>2, <2>6, <2>8 DEF ReloadIdentities, AbortIfFailed, GoesOn, IsReload
        <3>1. s = [bound |-> [k \in LKeys |-> IF k \in Peers /\ old[k] # new[k] THEN NoAddr
                                               ELSE q.bound[k]],
                   prep |-> q.prep, rel |-> q.rel, kept |-> q.kept, ok |-> q.ok]
            BY <2>6, <3>0 DEF AbortIdentities, IsReload
        <3>2. /\ IsReload(s) /\ s.rel = r.rel /\ s.ok = q.ok
              /\ \A k \in LKeys : k \in Peers /\ old[k] # new[k] => s.bound[k] = NoAddr
              /\ \A k \in LKeys : ~(k \in Peers /\ old[k] # new[k]) => s.bound[k] = q.bound[k]
            BY <2>6, <3>1 DEF IsReload
        <3>3. ASSUME NEW k \in LKeys
              PROVE  \/ s.bound[k] = b[k] /\ s.rel[k] = NoAddr
                     \/ s.bound[k] = NoAddr /\ s.rel[k] = b[k]
            <4>1. CASE k \in Peers /\ old[k] # new[k]
                <5>1. r.bound[k] = NoAddr
                    BY <1>0, <2>0, <4>1 DEF KeptTop, Ready, At
                <5> QED
                    BY <1>0, <3>2, <4>1, <5>1 DEF Recoverable
            <4>2. CASE ~(k \in Peers /\ old[k] # new[k])
                <5>1. q.bound[k] = r.bound[k]
                    BY <2>5, <2>6, <4>2 DEF LKeys, At
                <5> QED
                    BY <1>0, <3>2, <4>2, <5>1 DEF Recoverable
            <4> QED
                BY <4>1, <4>2
        <3>4. Recoverable(s, b)
            BY <3>3 DEF Recoverable
        <3> QED
            BY <2>8, <3>2, <3>4 DEF Reloaded, GoesOn
    <2> QED
        BY <2>7, <2>8
<1> QED
    BY <1>1, <1>2

-----------------------------------------------------------------------------
(* What a reload promises *)

(* The sockets are the ones that `lst' asks for, and they can coexist.      *)
Settled(b, lst, taken) == Serves(b, lst) /\ Bindable(b, taken) /\ Distinct(b)

(* All of the new listeners, or the old ones as they were                   *)
AllOrNothing(r, b, new, taken) ==
    /\ GoesOn(r) => Settled(r.bound, new, taken)
    /\ ~GoesOn(r) => r.ok = FALSE /\ r.bound = b

(* server_apply_config, the part about sockets: whatever addresses other    *)
(* processes hold and wherever a bind fails, a reload that goes on has      *)
(* every listener of the new configuration bound, and a reload that is      *)
(* refused has put every socket of the old one back.                        *)
THEOREM ReloadAllOrNothing ==
    ASSUME NEW b, NEW old, NEW new, NEW taken, Resolvable(new), Settled(b, old, taken),
           NEW r, r = ApplyListeners(b, old, new, taken)
    PROVE  AllOrNothing(r, b, new, taken)
<1>0. Serves(b, old) /\ Bindable(b, taken) /\ Distinct(b)
    BY DEF Settled
<1>1. PICK p : p = PrepareListeners(b, old, new, taken)
    OBVIOUS
<1>2. PICK s : s = ReloadIdentities(p, old, new, taken)
    OBVIOUS
<1>3. Preparing(p, TopSet, b, old, new, taken)
    BY <1>0, <1>1, PrepareAll
<1>4. Reloaded(s, b, old, new, taken)
    BY <1>0, <1>2, <1>3, ReloadAll
<1>5. r = FinishListeners(s, old, new, taken)
    BY <1>1, <1>2 DEF ApplyListeners
<1>6. IsReload(s)
    BY <1>4 DEF Reloaded
<1>7. CASE GoesOn(s)
    <2>1. r = [bound |-> [k \in LKeys |-> IF k \in Peers \/ old[k] = new[k] \/ k \in s.kept
                                           THEN s.bound[k] ELSE s.prep[k]],
               prep |-> [k \in LKeys |-> NoAddr], rel |-> s.rel, kept |-> s.kept, ok |-> s.ok]
        BY <1>5, <1>6, <1>7 DEF FinishListeners, CommitListeners, GoesOn, IsReload
    <2>2. /\ Apart(s) /\ Bindable(s.bound, taken) /\ Bindable(s.prep, taken)
          /\ \A k \in TopSet : old[k] # new[k] /\ k \notin s.kept => s.prep[k] = AddrOf(new[k])
          /\ \A k \in TopSet : old[k] = new[k] \/ k \in s.kept => s.bound[k] = AddrOf(new[k])
          /\ \A k \in Peers : s.bound[k] = AddrOf(new[k])
        BY <1>4, <1>7 DEF Reloaded, At
    <2>3. r.ok = s.ok /\ r.bound = [k \in LKeys |-> r.bound[k]]
          /\ \A k \in LKeys : r.bound[k] = IF k \in Peers \/ old[k] = new[k] \/ k \in s.kept
                                           THEN s.bound[k] ELSE s.prep[k]
        BY <2>1
    <2>4. \A k \in LKeys : r.bound[k] = AddrOf(new[k])
        BY <2>2, <2>3 DEF LKeys
    <2>5. Serves(r.bound, new)
        BY <2>3, <2>4 DEF Serves
    <2>6. Bindable(r.bound, taken)
        BY <2>2, <2>3 DEF Bindable
    <2>7. Distinct(r.bound)
        BY <2>2, <2>3 DEF Distinct, Apart
    <2> QED
        BY <1>7, <2>3, <2>5, <2>6, <2>7 DEF Settled, GoesOn, AllOrNothing
<1>8. CASE ~GoesOn(s)
    <2>1. PICK q : q = [s EXCEPT !.prep = [k \in LKeys |-> NoAddr]]
        OBVIOUS
    <2>2. r = RestoreEach(q, taken)
        BY <1>5, <1>6, <1>8, <2>1 DEF FinishListeners, ListenerReloadAbort, GoesOn, IsReload
    <2>3. IsReload(q) /\ q.bound = s.bound /\ q.rel = s.rel /\ q.ok = s.ok
          /\ \A k \in LKeys : q.prep[k] = NoAddr
        BY <1>6, <2>1 DEF IsReload
    <2>4. Recoverable(q, b)
        BY <1>4, <1>8, <2>3 DEF Reloaded, Recoverable
    <2>5. b = [k \in LKeys |-> b[k]]
        BY <1>0 DEF Serves
    <2>6. r.bound = b /\ r.ok = q.ok
        BY <1>0, <2>2, <2>3, <2>4, <2>5, RestoreAll
    <2> QED
        BY <1>6, <1>8, <2>3, <2>6 DEF GoesOn, IsReload, AllOrNothing
<1> QED
    BY <1>7, <1>8

(* The outcome of server_start's binds is a Boolean.                        *)
LEMMA StartTyped ==
    ASSUME NEW new, NEW taken, Resolvable(new),
           NEW t, t = StartListeners(ReloadOf(StopListeners), TopKeys, new, taken),
           NEW s, s = StartListeners(t, PeerSeq, new, taken)
    PROVE  IsReload(t) /\ IsReload(s)
<1>1. PICK r, keys, peers, none : r = ReloadOf(StopListeners) /\ keys = TopKeys /\ peers = PeerSeq
                                  /\ none = StopListeners
    OBVIOUS
<1>2. IsReload(r)
    BY <1>1 DEF ReloadOf, IsReload, StopListeners
<1>3. keys \in Seq(LKeys) /\ peers \in Seq(LKeys)
    BY <1>1, PeerSeqIs DEF TopKeys, LKeys, TopSet
<1>4. t = StartEach(r, keys, none, new, taken) /\ s = StartEach(t, peers, none, new, taken)
    BY <1>1 DEF StartListeners
<1>5. IsReload(t)
    BY <1>2, <1>3, <1>4, StartAll DEF Starting
<1>6. IsReload(s)
    BY <1>3, <1>4, <1>5, StartAll DEF Starting
<1> QED
    BY <1>5, <1>6

(* server_start: the listeners of the first configuration, top-level ones   *)
(* first                                                                    *)
LEMMA StartsSettled ==
    ASSUME NEW new, NEW taken, Resolvable(new),
           NEW t, t = StartListeners(ReloadOf(StopListeners), TopKeys, new, taken), GoesOn(t),
           NEW s, s = StartListeners(t, PeerSeq, new, taken), GoesOn(s)
    PROVE  Settled(s.bound, new, taken)
<1>1. PICK r : r = ReloadOf(StopListeners)
    OBVIOUS
<1>2. PICK keys : keys = TopKeys
    OBVIOUS
<1>3. PICK peers : peers = PeerSeq
    OBVIOUS
<1>4. PICK none : none = StopListeners
    OBVIOUS
<1>5. IsReload(r) /\ Apart(r) /\ Bindable(r.bound, taken) /\ \A k \in LKeys : r.bound[k] = NoAddr
    BY <1>1 DEF ReloadOf, IsReload, Apart, Bindable, StopListeners
<1>6. /\ keys \in Seq(LKeys) /\ peers \in Seq(LKeys)
      /\ \A k \in TopSet : \E i \in 1 .. Len(keys) : keys[i] = k
      /\ \A k \in TopSet : \A i \in 1 .. Len(peers) : peers[i] # k
      /\ \A p \in Peers : \E i \in 1 .. Len(peers) : peers[i] = p
      /\ \A p \in Peers : \A i \in 1 .. Len(keys) : keys[i] # p
    <2>1. keys \in Seq(LKeys) /\ Len(keys) = 3 /\ \A i \in 1 .. 3 : keys[i] \in TopSet
        BY <1>2 DEF TopKeys, LKeys, TopSet
    <2>2. \A k \in TopSet : \E i \in 1 .. 3 : keys[i] = k
        BY <1>2 DEF TopKeys, TopSet
    <2> QED
        BY <1>3, <2>1, <2>2, PeerSeqIs, PeersAssumption
<1>7. t = StartEach(r, keys, none, new, taken) /\ s = StartEach(t, peers, none, new, taken)
    BY <1>1, <1>2, <1>3, <1>4 DEF StartListeners
<1>8. Starting(t, r, none, new, taken) /\ StartsAll(t, r, keys, none, new)
    BY <1>5, <1>6, <1>7, StartAll
<1>9. IsReload(t)
    BY <1>8 DEF Starting
<1>10. Starting(s, t, none, new, taken) /\ StartsAll(s, t, peers, none, new)
    BY <1>6, <1>7, <1>9, StartAll
<1>11. \A k \in LKeys : none[k] = NoAddr
    BY <1>4 DEF StopListeners
<1>12. ASSUME NEW k \in LKeys PROVE s.bound[k] = AddrOf(new[k])
    <2>1. CASE new[k] = NoAddr
        BY <1>5, <1>8, <1>10, <2>1 DEF Starting, AddrOf
    <2>2. CASE new[k] # NoAddr /\ k \in TopSet
        <3>1. PICK i \in 1 .. Len(keys) : keys[i] = k
            BY <1>6, <2>2
        <3>2. At(t, k) = Resolve(new[k])
            BY <1>8, <1>11, <2>2, <3>1 DEF StartsAll
        <3>3. At(s, k) = At(t, k)
            BY <1>6, <1>10, <2>2 DEF StartsAll
        <3> QED
            BY <2>2, <3>2, <3>3 DEF At, AddrOf
    <2>3. CASE new[k] # NoAddr /\ k \in Peers
        <3>1. PICK i \in 1 .. Len(peers) : peers[i] = k
            BY <1>6, <2>3
        <3> QED
            BY <1>10, <1>11, <2>3, <3>1 DEF At, AddrOf, StartsAll
    <2> QED
        BY <2>1, <2>2, <2>3 DEF LKeys
<1>13. Apart(t) /\ Bindable(t.bound, taken)
    BY <1>5, <1>8 DEF Starting
<1>14. Apart(s) /\ Bindable(s.bound, taken) /\ IsReload(s)
    BY <1>10, <1>13 DEF Starting
<1>15. Serves(s.bound, new)
    BY <1>12, <1>14 DEF Serves, IsReload
<1> QED
    BY <1>14, <1>15 DEF Settled, Apart, Distinct
=============================================================================
