--------------------------- MODULE UnackedProofs ---------------------------
(***************************************************************************)
(* Proofs about Unacked for every MaxFrames, MaxEntry and MaxCapture: an   *)
(* inductive invariant and the safety properties that follow from it.      *)
(***************************************************************************)
EXTENDS Unacked, TLAPS

Increasing(r) == \A i, j \in 1 .. Len(r) : i < j => r[i] < r[j]
Above(a, r) == \A i \in 1 .. Len(r) : a < r[i]

(* Entries are non-empty and consecutive, and the head ends after the last  *)
(* acknowledged frame.                                                      *)
Sorted ==
    /\ Increasing(ring)
    /\ Above(last_ack_recv, ring)

(* mux_session_suspend discards the replay copy with the send buffer. *)
NoCopyDown == st # "up" => ~retransmit_copy

(* The inductive invariant. *)
IInv ==
    /\ TypeOK
    /\ Sorted
    /\ CountersAgree
    /\ Retained
    /\ WireContiguous
    /\ NoCopyDown

(* Start is a strictly increasing numbering of 0 .. Len(ring). *)
LEMMA StartIncreasing ==
    ASSUME TypeOK, Sorted
    PROVE  /\ \A i \in 0 .. Len(ring) : Start(i) \in Nat
           /\ \A i, j \in 0 .. Len(ring) : i < j => Start(i) < Start(j)
           /\ Total \in Nat
           /\ \A i \in 0 .. Len(ring) : last_ack_recv <= Start(i) /\ Start(i) <= Total
<1>1. Len(ring) \in Nat /\ \A i \in 1 .. Len(ring) : ring[i] \in Nat
    BY DEF TypeOK
<1>2. \A i \in 0 .. Len(ring) : Start(i) \in Nat
    BY <1>1 DEF TypeOK, Start
<1>3. \A i, j \in 0 .. Len(ring) : i < j => Start(i) < Start(j)
    BY <1>1 DEF TypeOK, Start, Sorted, Increasing, Above
<1>4. Total \in Nat
    BY <1>1, <1>2 DEF Total
<1>5. \A i \in 0 .. Len(ring) : last_ack_recv <= Start(i) /\ Start(i) <= Total
  <2> SUFFICES ASSUME NEW i \in 0 .. Len(ring)
               PROVE  last_ack_recv <= Start(i) /\ Start(i) <= Total
    OBVIOUS
  <2>1. last_ack_recv = Start(0)
    BY DEF Start
  <2>2. Start(0) <= Start(i)
    BY <1>1, <1>2, <1>3
  <2>3. Start(i) <= Start(Len(ring))
    BY <1>1, <1>2, <1>3
  <2> QED
    BY <2>1, <2>2, <2>3 DEF Total
<1> QED
    BY <1>2, <1>3, <1>4, <1>5

(* What capture appends is a sequence of consecutive entries after t. *)
LEMMA EntriesAfter ==
    ASSUME NEW t \in Nat, NEW e \in Entries(t)
    PROVE  /\ e \in Seq(Nat)
           /\ Increasing(e)
           /\ Above(t, e)
<1> USE DEF Increasing, Above
<1>1. CASE e = <<>>
    BY <1>1
<1>2. CASE e # <<>>
  <2>1. PICK k \in 1 .. MaxCapture : e \in [1 .. k -> (t + 1) .. MaxFrames]
    BY <1>2 DEF Entries
  <2>2. \A i, j \in DOMAIN e : i < j => e[i] < e[j]
    BY <1>2 DEF Entries
  <2>3. k \in Nat
    BY <2>1, BoundsAssumption
  <2>4. \A i \in 1 .. k : e[i] \in Nat /\ t < e[i]
    BY <2>1, BoundsAssumption
  <2>5. e \in Seq(Nat) /\ Len(e) = k
    BY <2>1, <2>3, <2>4
  <2> QED
    BY <2>1, <2>2, <2>4, <2>5
<1> QED
    BY <1>1, <1>2

(* Arithmetic the provers are better given than left to find. *)
LEMMA LeLess ==
    ASSUME NEW x \in Nat, NEW y \in Nat, NEW z \in Nat, x <= y, y < z
    PROVE  x < z
    OBVIOUS

(* Two increasing sequences on either side of t concatenate to one. *)
LEMMA ConcatIncreasing ==
    ASSUME NEW r \in Seq(Nat), NEW e \in Seq(Nat), NEW t \in Nat,
           Increasing(r), Increasing(e), Above(t, e),
           \A i \in 1 .. Len(r) : r[i] <= t
    PROVE  /\ r \o e \in Seq(Nat)
           /\ Len(r \o e) = Len(r) + Len(e)
           /\ Increasing(r \o e)
           /\ \A i \in 1 .. Len(r) : (r \o e)[i] = r[i]
           /\ \A i \in 1 .. Len(e) : (r \o e)[Len(r) + i] = e[i]
<1>1. r \o e \in Seq(Nat) /\ Len(r \o e) = Len(r) + Len(e)
    OBVIOUS
<1>2. \A i \in 1 .. Len(r) : (r \o e)[i] = r[i]
    OBVIOUS
<1>3. \A i \in 1 .. Len(e) : (r \o e)[Len(r) + i] = e[i]
    OBVIOUS
<1>4. /\ Len(r) \in Nat /\ Len(e) \in Nat
      /\ \A i \in 1 .. Len(r) : r[i] \in Nat
      /\ \A i \in 1 .. Len(e) : e[i] \in Nat
    OBVIOUS
<1>5. ASSUME NEW i \in 1 .. Len(r \o e), NEW j \in 1 .. Len(r \o e), i < j
      PROVE  (r \o e)[i] < (r \o e)[j]
  <2>1. CASE j <= Len(r)
    <3>1. i \in 1 .. Len(r) /\ j \in 1 .. Len(r)
        BY <1>4, <1>5, <2>1
    <3>2. r[i] < r[j]
        BY <1>5, <3>1, Zenon DEF Increasing
    <3> QED
        BY <1>2, <3>1, <3>2, Zenon
  <2>2. CASE i <= Len(r) /\ j > Len(r)
    <3>1. i \in 1 .. Len(r)
        BY <1>4, <2>2
    <3>2. j - Len(r) \in 1 .. Len(e) /\ j = Len(r) + (j - Len(r))
        BY <1>1, <1>4, <2>2
    <3>3. PICK k \in 1 .. Len(e) : j = Len(r) + k
        BY <3>2, Zenon
    <3>4. (r \o e)[i] = r[i] /\ (r \o e)[j] = e[k]
        BY <1>2, <1>3, <3>1, <3>3, Zenon
    <3>5. r[i] <= t /\ t < e[k] /\ r[i] \in Nat /\ e[k] \in Nat
        BY <1>4, <3>1, Zenon DEF Above
    <3>6. r[i] < e[k]
        BY <3>5, LeLess, Zenon
    <3> QED
        BY <3>4, <3>6, Zenon
  <2>3. CASE i > Len(r)
    <3>1. /\ i - Len(r) \in 1 .. Len(e) /\ i = Len(r) + (i - Len(r))
          /\ j - Len(r) \in 1 .. Len(e) /\ j = Len(r) + (j - Len(r))
          /\ i - Len(r) < j - Len(r)
        BY <1>1, <1>4, <1>5, <2>3
    <3>2. PICK k \in 1 .. Len(e), l \in 1 .. Len(e) :
            i = Len(r) + k /\ j = Len(r) + l /\ k < l
        BY <3>1, Zenon
    <3>3. e[k] < e[l]
        BY <3>2, Zenon DEF Increasing
    <3>4. (r \o e)[i] = e[k] /\ (r \o e)[j] = e[l]
        BY <1>3, <3>2, Zenon
    <3> QED
        BY <3>3, <3>4, Zenon
  <2>4. j <= Len(r) \/ (i <= Len(r) /\ j > Len(r)) \/ i > Len(r)
    <3>1. i \in Nat /\ j \in Nat
        OBVIOUS
    <3> QED
        BY <1>4, <3>1
  <2> QED
    BY <2>1, <2>2, <2>3, <2>4, Zenon
<1>6. Increasing(r \o e)
    BY <1>5, Zenon DEF Increasing
<1> QED
    BY <1>1, <1>2, <1>3, <1>6, Zenon

(* A just-established session satisfies the invariant. *)
LEMMA InitIInv == Init => IInv
<1> SUFFICES ASSUME Init PROVE IInv
    OBVIOUS
<1>1. ring = <<>> /\ Len(ring) = 0
    BY DEF Init
<1>2. retransmit_copy \in BOOLEAN
    BY DEF Init
<1>3. ring \in Seq(Nat)
    BY <1>1
<1>4. retransmit_off \in Nat \cup {NoReplay}
    BY DEF Init
<1>5. TypeOK
    BY <1>2, <1>3, <1>4 DEF Init, TypeOK
<1>6. Sorted
    BY <1>1 DEF Sorted, Increasing, Above
<1>7. TypeOK /\ Sorted
    BY <1>5, <1>6
<1>8. Total = 0
    BY <1>1 DEF Total, Start, Init
<1>9. CountersAgree
    BY <1>1, <1>8 DEF Init, CountersAgree, NoReplay
<1>10. Retained /\ WireContiguous
    BY <1>8 DEF Init, Retained, WireContiguous, NoReplay
<1>11. NoCopyDown
    BY DEF Init, NoCopyDown
<1> QED
    BY <1>7, <1>9, <1>10, <1>11 DEF IInv

(* A reset empties the log. *)
LEMMA ResetIInv == IInv /\ Reset => IInv'
<1> SUFFICES ASSUME IInv, Reset PROVE IInv'
    OBVIOUS
<1>1. ring' = <<>> /\ Len(ring') = 0 /\ st' = "closed"
    BY DEF Reset, FreeAll
<1>2. (retransmit_copy \in BOOLEAN)'
    BY DEF Reset, FreeAll
<1>3. (ring \in Seq(Nat))'
    BY <1>1
<1>4. (retransmit_off \in Nat \cup {NoReplay})'
    BY DEF Reset, FreeAll, SetReplayOff, NoReplay
<1>5. TypeOK'
    BY <1>1, <1>2, <1>3, <1>4 DEF IInv, Reset, FreeAll, SetReplayOff, TypeOK
<1>6. Sorted'
    BY <1>1 DEF Sorted, Increasing, Above
<1>7. TypeOK' /\ Sorted'
    BY <1>5, <1>6
<1>8. Total' = last_ack_recv'
    BY <1>1 DEF Total, Start
<1>9. CountersAgree'
    BY <1>7, <1>8 DEF Reset, FreeAll, SetReplayOff, CountersAgree, NoReplay, TypeOK
<1>10. Retained' /\ WireContiguous'
    BY <1>1 DEF Retained, WireContiguous
<1>11. NoCopyDown'
    BY DEF Reset, FreeAll, NoCopyDown
<1> QED
    BY <1>7, <1>9, <1>10, <1>11 DEF IInv

(* New frames: only while no replay is armed. *)
LEMMA TrackSentIInv ==
    ASSUME IInv, NEW n \in Nat \ {0}, TrackSent(n)
    PROVE  IInv'
<1> USE DEF IInv
<1>1. Total \in Nat /\ \A i \in 1 .. Len(ring) : ring[i] <= Total /\ ring[i] \in Nat
    BY StartIncreasing DEF Start, TypeOK
<1>2. /\ ring' \in Seq(Nat) /\ Len(ring') = Len(ring) + 1
      /\ \A i \in 1 .. Len(ring) : ring'[i] = ring[i]
      /\ ring'[Len(ring) + 1] = Total + n
    BY <1>1 DEF TrackSent, TypeOK
<1>3. last_ack_recv <= Total
    BY StartIncreasing DEF Start, TypeOK
<1>4. TypeOK'
    BY <1>1, <1>2 DEF TrackSent, TypeOK, replayVars, copyVars
<1>5. Sorted'
    BY <1>1, <1>2, <1>3 DEF TrackSent, Sorted, Increasing, Above, TypeOK
<1>6. Total' = Total + n
    BY <1>2 DEF Total, Start, TypeOK
<1>7. ~retransmit_copy /\ ~retransmit_copy'
    BY DEF TrackSent, CountersAgree, copyVars
<1>8. CountersAgree'
    BY <1>1, <1>6, <1>7 DEF TrackSent, CountersAgree, TypeOK, replayVars
<1>9. Retained' /\ WireContiguous'
    BY <1>1, <1>6 DEF TrackSent, Retained, WireContiguous, TypeOK, replayVars
<1>10. NoCopyDown'
    BY <1>7 DEF NoCopyDown
<1> QED
    BY <1>4, <1>5, <1>8, <1>9, <1>10


(* Steps that leave the ring and the acknowledged count alone keep Start.   *)
LEMMA StartUnchanged ==
    ASSUME UNCHANGED <<ring, last_ack_recv>>
    PROVE  /\ \A i : Start(i)' = Start(i)
           /\ Total' = Total
           /\ Sorted' <=> Sorted
    BY DEF Start, Total, Sorted

(* The numeric part of TypeOK, on its own for the arithmetic steps. *)
NumOK ==
    /\ ring \in Seq(Nat) /\ Len(ring) \in Nat
    /\ frames \in Nat /\ last_ack_recv \in Nat
    /\ retransmit_off \in Nat \cup {-1} /\ retransmitted_frames \in Nat
    /\ copy_count \in Nat /\ copy_sent \in Nat
    /\ written \in Nat /\ peer_recv \in Nat

(* The type invariant gives the numeric facts alone. *)
LEMMA NumTypes ==
    ASSUME TypeOK
    PROVE  NumOK
    BY DEF TypeOK, NumOK, NoReplay

(* The entry at the cursor, while a copy of it is staged or can be. *)
LEMMA EntryAt ==
    ASSUME TypeOK, Sorted, NEW k \in Nat, k < Len(ring)
    PROVE  /\ Start(k) \in Nat /\ ring[k + 1] \in Nat /\ Total \in Nat
           /\ Start(k + 1) = ring[k + 1]
           /\ Start(k) < ring[k + 1] /\ ring[k + 1] <= Total
           /\ last_ack_recv <= Start(k)
<1>1. k \in 0 .. Len(ring) /\ k + 1 \in 0 .. Len(ring) /\ k + 1 # 0
    BY NumTypes DEF NumOK
<1>2. Start(k + 1) = ring[k + 1]
    BY <1>1 DEF Start
<1> QED
    BY <1>1, <1>2, StartIncreasing

(* What the invariant says while a copy is staged. *)
LEMMA CopyFacts ==
    ASSUME IInv, retransmit_copy
    PROVE  /\ retransmit_off \in Nat
           /\ retransmit_off < Len(ring)
           /\ retransmit_off # NoReplay
           /\ copy_count = ring[retransmit_off + 1] - Start(retransmit_off)
           /\ retransmitted_frames = Start(retransmit_off) - last_ack_recv
           /\ copy_sent < copy_count
           /\ st = "up" => written = Start(retransmit_off) + copy_sent
<1>1. retransmit_off # NoReplay /\ retransmit_off < Len(ring)
    BY DEF IInv, CountersAgree
<1>2. retransmit_off \in Nat
    BY <1>1 DEF IInv, TypeOK
<1> QED
    BY <1>1, <1>2 DEF IInv, CountersAgree, WireContiguous

(* A replay copy is staged for the entry at the cursor. *)
LEMMA QueueRetransmitIInv == IInv /\ QueueRetransmit => IInv'
<1> SUFFICES ASSUME IInv, QueueRetransmit PROVE IInv'
    OBVIOUS
<1>1. UNCHANGED <<ring, last_ack_recv, frames, retransmit_off, retransmitted_frames,
                  st, written, peer_recv>>
    BY DEF QueueRetransmit, ringVars, replayVars
<1>2. /\ retransmit_off \in Nat /\ retransmit_off # NoReplay /\ retransmit_off < Len(ring)
      /\ copy_sent' = 0
      /\ copy_count' = ring[retransmit_off + 1] - Start(retransmit_off)
    BY DEF QueueRetransmit, IInv, TypeOK
<1>3. retransmit_copy' = TRUE /\ ~retransmit_copy
    BY DEF QueueRetransmit
<1>4. copy_count' \in Nat /\ 0 < copy_count' /\ Start(retransmit_off) \in Nat
    BY <1>2, EntryAt DEF IInv
<1>5. TypeOK'
    BY <1>1, <1>2, <1>3, <1>4 DEF IInv, TypeOK
<1>6. Sorted' /\ Total' = Total /\ Start(retransmit_off)' = Start(retransmit_off)
    BY <1>1, StartUnchanged DEF IInv
<1>7. CountersAgree'
  <2>1. (frames = Total - last_ack_recv)'
    BY <1>1, <1>6 DEF IInv, CountersAgree
  <2>2. (retransmit_off <= Len(ring))'
    BY <1>1, <1>2, NumTypes DEF NumOK, IInv
  <2>3. (retransmitted_frames = Start(retransmit_off) - last_ack_recv)'
    BY <1>1, <1>2, <1>6 DEF IInv, CountersAgree
  <2>4. /\ (retransmit_off # NoReplay)' /\ (retransmit_off < Len(ring))'
        /\ (copy_count = ring[retransmit_off + 1] - Start(retransmit_off))'
        /\ (copy_sent < copy_count)'
    BY <1>1, <1>2, <1>4, <1>6
  <2> QED
    BY <2>1, <2>2, <2>3, <2>4 DEF CountersAgree
<1>8. Retained' /\ WireContiguous'
  <2>1. st = "up" => written = Start(retransmit_off) + 0
    BY <1>2, <1>3 DEF IInv, WireContiguous
  <2>2. Retained'
    BY <1>1, <1>6 DEF IInv, Retained
  <2>3. WireContiguous'
    BY <1>1, <1>2, <1>3, <1>6, <2>1 DEF WireContiguous
  <2> QED
    BY <2>2, <2>3
<1>9. NoCopyDown'
    BY <1>1 DEF QueueRetransmit, NoCopyDown
<1> QED
    BY <1>5, <1>6, <1>7, <1>8, <1>9 DEF IInv

(* The cursor reaches the end of the ring. *)
LEMMA ReplayDrainedIInv == IInv /\ ReplayDrained => IInv'
<1> SUFFICES ASSUME IInv, ReplayDrained PROVE IInv'
    OBVIOUS
<1>1. UNCHANGED <<ring, last_ack_recv, frames, retransmit_copy, copy_count, copy_sent,
                  st, written, peer_recv>>
    BY DEF ReplayDrained, ringVars, copyVars
<1>2. retransmit_off' = NoReplay /\ retransmitted_frames' = 0 /\ ~retransmit_copy
    BY DEF ReplayDrained, SetReplayOff
<1>3. TypeOK'
    BY <1>1, <1>2 DEF IInv, TypeOK, NoReplay
<1>4. Sorted' /\ Total' = Total
    BY <1>1, StartUnchanged DEF IInv
<1>5. CountersAgree'
    BY <1>1, <1>2, <1>4 DEF IInv, CountersAgree
<1>6. Total = Start(retransmit_off) /\ Total \in Nat
  <2>1. retransmit_off = Len(ring)
    BY NumTypes DEF ReplayDrained, IInv, CountersAgree, NumOK, NoReplay
  <2> QED
    BY <2>1, StartIncreasing DEF Total, IInv
<1>7. Retained' /\ WireContiguous'
  <2>1. st = "up" => written = Start(retransmit_off) + 0
    BY <1>2 DEF IInv, WireContiguous, ReplayDrained
  <2> QED
    BY <1>1, <1>2, <1>4, <1>6, <2>1 DEF IInv, Retained, WireContiguous
<1>8. NoCopyDown'
    BY <1>1 DEF ReplayDrained, NoCopyDown
<1> QED
    BY <1>3, <1>4, <1>5, <1>7, <1>8 DEF IInv

(* Part of the copy has gone out. *)
LEMMA CopyPartialIInv ==
    ASSUME IInv, NEW n \in Nat \ {0}, CopyPartial(n)
    PROVE  IInv'
<1>1. UNCHANGED <<ring, last_ack_recv, frames, retransmit_off, retransmitted_frames,
                  retransmit_copy, copy_count, st, peer_recv>>
    BY DEF CopyPartial, ringVars, replayVars
<1>2. retransmit_copy /\ st = "up"
    BY DEF CopyPartial
<1>3. /\ copy_sent' = copy_sent + n /\ copy_sent + n < copy_count
      /\ written' = Start(retransmit_off) + copy_sent + n
    BY DEF CopyPartial
<1>4. /\ retransmit_off \in Nat /\ retransmit_off < Len(ring) /\ retransmit_off # NoReplay
      /\ copy_count = ring[retransmit_off + 1] - Start(retransmit_off)
      /\ written = Start(retransmit_off) + copy_sent
    BY <1>2, CopyFacts
<1>5. /\ Start(retransmit_off) \in Nat /\ ring[retransmit_off + 1] \in Nat
      /\ ring[retransmit_off + 1] <= Total /\ Total \in Nat
    BY <1>4, EntryAt DEF IInv
<1>6. copy_sent \in Nat /\ n \in Nat
    BY DEF IInv, TypeOK
<1>7. written' \in Nat /\ copy_sent' \in Nat /\ written' <= Total /\ written <= written'
  <2> DEFINE S == Start(retransmit_off)
             R == ring[retransmit_off + 1]
  <2>1. /\ S \in Nat /\ R \in Nat /\ R <= Total /\ Total \in Nat
        /\ written' = S + copy_sent + n /\ written = S + copy_sent
        /\ copy_count = R - S
    BY <1>3, <1>4, <1>5
  <2> HIDE DEF S, R
  <2> QED
    BY <2>1, <1>3, <1>6
<1>8. TypeOK'
    BY <1>1, <1>7 DEF IInv, TypeOK
<1>9. Sorted' /\ Total' = Total /\ Start(retransmit_off)' = Start(retransmit_off)
    BY <1>1, StartUnchanged DEF IInv
<1>10. CountersAgree'
    BY <1>1, <1>3, <1>9 DEF IInv, CountersAgree
<1>11. Retained'
  <2>1. NumOK
    BY NumTypes DEF IInv
  <2>2. peer_recv <= written /\ last_ack_recv <= peer_recv
    BY <1>2 DEF IInv, Retained
  <2>3. peer_recv <= written'
    BY <1>7, <2>1, <2>2 DEF NumOK
  <2> QED
    BY <1>1, <1>7, <1>9, <2>2, <2>3 DEF Retained
<1>12. WireContiguous'
  <2>1. written' = Start(retransmit_off) + copy_sent'
    BY <1>3, <1>5, <1>6
  <2> QED
    BY <1>1, <1>2, <1>4, <1>9, <2>1 DEF WireContiguous
<1>13. NoCopyDown'
    BY <1>1, <1>2 DEF NoCopyDown
<1> QED
    BY <1>8, <1>9, <1>10, <1>11, <1>12, <1>13 DEF IInv

(* The whole copy is out and the cursor moves on. *)
LEMMA CopyRetireIInv == IInv /\ CopyRetire => IInv'
<1> SUFFICES ASSUME IInv, CopyRetire PROVE IInv'
    OBVIOUS
<1>1. UNCHANGED <<ring, last_ack_recv, frames, st, peer_recv>>
    BY DEF CopyRetire, ringVars
<1>2. retransmit_copy /\ st = "up" /\ retransmit_copy' = FALSE
    BY DEF CopyRetire
<1>3. /\ retransmit_off' = retransmit_off + 1
      /\ retransmitted_frames' = retransmitted_frames + copy_count
      /\ copy_count' = 0 /\ copy_sent' = 0
      /\ written' = ring[retransmit_off + 1]
    BY DEF CopyRetire
<1>4. /\ retransmit_off \in Nat /\ retransmit_off < Len(ring) /\ retransmit_off # NoReplay
      /\ copy_count = ring[retransmit_off + 1] - Start(retransmit_off)
      /\ retransmitted_frames = Start(retransmit_off) - last_ack_recv
      /\ copy_sent < copy_count
      /\ written = Start(retransmit_off) + copy_sent
    BY <1>2, CopyFacts
<1>5. /\ Start(retransmit_off) \in Nat /\ ring[retransmit_off + 1] \in Nat
      /\ ring[retransmit_off + 1] <= Total /\ Total \in Nat
      /\ last_ack_recv <= Start(retransmit_off)
      /\ Start(retransmit_off + 1) = ring[retransmit_off + 1]
    BY <1>4, EntryAt DEF IInv
<1>6. NumOK
    BY NumTypes DEF IInv
<1> DEFINE S == Start(retransmit_off)
           R == ring[retransmit_off + 1]
<1>7. /\ S \in Nat /\ R \in Nat /\ last_ack_recv <= S
      /\ written' = R /\ written = S + copy_sent /\ copy_count = R - S
      /\ retransmitted_frames = S - last_ack_recv /\ copy_sent < copy_count
      /\ retransmitted_frames' = retransmitted_frames + copy_count
    BY <1>3, <1>4, <1>5
<1> HIDE DEF S, R
<1>8. retransmitted_frames' = R - last_ack_recv /\ retransmitted_frames' \in Nat
      /\ written <= written'
    BY <1>7, <1>6 DEF NumOK
<1>9. NumOK'
    BY <1>1, <1>3, <1>4, <1>7, <1>8, <1>6 DEF NumOK
<1>10. TypeOK'
    BY <1>1, <1>2, <1>9 DEF IInv, TypeOK, NumOK, NoReplay
<1>11. Sorted' /\ Total' = Total /\ Start(retransmit_off)' = ring[retransmit_off + 1]
    BY <1>1, <1>3, <1>5, StartUnchanged DEF IInv, Start
<1>12. retransmit_off' # NoReplay /\ retransmit_off' <= Len(ring)
  <2>1. Len(ring) \in Nat
    BY <1>6 DEF NumOK
  <2>2. retransmit_off' \in Nat /\ retransmit_off' <= Len(ring)
    BY <1>3, <1>4, <2>1
  <2> QED
    BY <2>2 DEF NoReplay
<1>13. retransmitted_frames' = ring[retransmit_off + 1] - last_ack_recv
    BY <1>8 DEF R
<1>14. CountersAgree'
    BY <1>1, <1>2, <1>11, <1>12, <1>13 DEF IInv, CountersAgree
<1>15. Retained'
  <2>1. peer_recv <= written' /\ last_ack_recv <= peer_recv
    BY <1>2, <1>7, <1>8, <1>6 DEF IInv, Retained, NumOK
  <2> QED
    BY <1>1, <1>3, <1>5, <1>11, <2>1 DEF Retained
<1>16. WireContiguous'
  <2>1. written' = Start(retransmit_off)' + 0
    BY <1>3, <1>5, <1>11
  <2> QED
    BY <1>2, <1>12, <2>1 DEF WireContiguous
<1>17. NoCopyDown'
    BY <1>2 DEF NoCopyDown
<1> QED
    BY <1>10, <1>11, <1>14, <1>15, <1>16, <1>17 DEF IInv

(* The peer processes one more frame of this transport. *)
LEMMA PeerRecvIInv == IInv /\ PeerRecv => IInv'
<1> SUFFICES ASSUME IInv, PeerRecv PROVE IInv'
    OBVIOUS
<1>1. UNCHANGED <<ring, last_ack_recv, frames, retransmit_off, retransmitted_frames,
                  retransmit_copy, copy_count, copy_sent, st, written>>
    BY DEF PeerRecv, ringVars, replayVars, copyVars
<1>2. TypeOK'
    BY <1>1 DEF IInv, PeerRecv, TypeOK
<1>3. Sorted' /\ Total' = Total /\ Start(retransmit_off)' = Start(retransmit_off)
    BY <1>1, StartUnchanged DEF IInv
<1>4. CountersAgree' /\ WireContiguous'
    BY <1>1, <1>3 DEF IInv, CountersAgree, WireContiguous
<1>5. Retained'
    BY <1>1, <1>3, NumTypes DEF IInv, PeerRecv, Retained, NumOK
<1>6. NoCopyDown'
    BY <1>1 DEF IInv, NoCopyDown
<1> QED
    BY <1>2, <1>3, <1>4, <1>5, <1>6 DEF IInv

-----------------------------------------------------------------------------
(* Acknowledgements and resumption. *)

(* Dropping the entries an acknowledgement up to `a' exhausts. *)
Suffix(r, p) == SubSeq(r, p + 1, Len(r))

(* What is left of the ring after a trim is still increasing. *)
LEMMA SuffixIncreasing ==
    ASSUME NEW r \in Seq(Nat), NEW p \in 0 .. Len(r), NEW a \in Nat,
           Increasing(r),
           p < Len(r) => r[p + 1] > a
    PROVE  /\ Suffix(r, p) \in Seq(Nat)
           /\ Len(Suffix(r, p)) = Len(r) - p
           /\ \A i \in 1 .. Len(Suffix(r, p)) : Suffix(r, p)[i] = r[p + i]
           /\ Increasing(Suffix(r, p))
           /\ Above(a, Suffix(r, p))
<1> DEFINE q == Suffix(r, p)
<1>1. q = SubSeq(r, p + 1, Len(r))
    BY DEF Suffix
<1> HIDE DEF q
<1> USE DEF Increasing, Above
<1>2. /\ q \in Seq(Nat) /\ Len(q) = Len(r) - p
      /\ \A i \in 1 .. Len(q) : q[i] = r[p + i]
    BY <1>1
<1>3. \A i, j \in 1 .. Len(q) : i < j => q[i] < q[j]
  <2> SUFFICES ASSUME NEW i \in 1 .. Len(q), NEW j \in 1 .. Len(q), i < j
               PROVE  q[i] < q[j]
    OBVIOUS
  <2>1. p + i \in 1 .. Len(r) /\ p + j \in 1 .. Len(r) /\ p + i < p + j
    BY <1>2
  <2>2. r[p + i] < r[p + j]
    BY <2>1
  <2> QED
    BY <1>2, <2>2
<1>4. ASSUME NEW i \in 1 .. Len(q) PROVE a < q[i]
  <2>1. p + i \in 1 .. Len(r) /\ p + 1 \in 1 .. Len(r) /\ p < Len(r)
    BY <1>2
  <2>2. q[i] = r[p + i] /\ r[p + i] \in Nat /\ r[p + 1] \in Nat /\ r[p + 1] > a
    <3>1. q[i] = r[p + i]
        BY <1>2
    <3>2. r[p + i] \in Nat /\ r[p + 1] \in Nat
      <4>1. \A k \in 1 .. Len(r) : r[k] \in Nat
        OBVIOUS
      <4> QED
        BY <2>1, <4>1, Zenon
    <3>3. r[p + 1] > a
        BY <2>1
    <3> QED
        BY <3>1, <3>2, <3>3
  <2>3. CASE i = 1
    BY <2>2, <2>3
  <2>4. CASE i # 1
    <3>1. p + 1 < p + i
        BY <2>4, <2>1
    <3>2. r[p + 1] < r[p + i]
        BY <3>1, <2>1
    <3> DEFINE x == r[p + 1]
               y == r[p + i]
    <3>3. x \in Nat /\ y \in Nat /\ x > a /\ x < y /\ q[i] = y
        BY <2>2, <3>2
    <3> HIDE DEF x, y
    <3> QED
        BY <3>3
  <2> QED
    BY <2>3, <2>4
<1> QED
    BY <1>2, <1>3, <1>4 DEF q

(* During a replay mux_unacked_ack_recv admits exactly what this transport  *)
(* has carried again.                                                       *)
LEMMA ReplayedIsWritten ==
    ASSUME IInv, st = "up", retransmit_off # NoReplay
    PROVE  /\ Replayed = written - last_ack_recv
           /\ Start(retransmit_off) \in Nat
           /\ retransmit_off \in 0 .. Len(ring)
           /\ retransmitted_frames = Start(retransmit_off) - last_ack_recv
<1>1. retransmit_off \in 0 .. Len(ring)
    BY NumTypes DEF IInv, CountersAgree, NumOK, NoReplay
<1>2. Start(retransmit_off) \in Nat
    BY <1>1, StartIncreasing DEF IInv
<1>3. retransmitted_frames = Start(retransmit_off) - last_ack_recv
    BY DEF IInv, CountersAgree
<1>4. last_ack_recv \in Nat /\ copy_sent \in Nat
    BY DEF IInv, TypeOK
<1>5. CASE retransmit_copy
  <2>1. written = Start(retransmit_off) + copy_sent
    BY <1>5 DEF IInv, WireContiguous
  <2>2. Replayed = retransmitted_frames + copy_sent
    BY <1>5 DEF Replayed
  <2> DEFINE S == Start(retransmit_off)
  <2>3. S \in Nat /\ written = S + copy_sent /\ Replayed = (S - last_ack_recv) + copy_sent
    BY <1>2, <1>3, <2>1, <2>2
  <2> HIDE DEF S
  <2>4. Replayed = written - last_ack_recv
    BY <1>4, <2>3
  <2> QED
    BY <1>1, <1>2, <1>3, <2>4
<1>6. CASE ~retransmit_copy
  <2>1. written = Start(retransmit_off) + 0
    BY <1>6 DEF IInv, WireContiguous
  <2>2. Replayed = retransmitted_frames + 0
    BY <1>6 DEF Replayed
  <2> DEFINE S == Start(retransmit_off)
  <2>3. S \in Nat /\ written = S + 0 /\ Replayed = (S - last_ack_recv) + 0
    BY <1>2, <1>3, <2>1, <2>2
  <2> HIDE DEF S
  <2>4. Replayed = written - last_ack_recv
    BY <1>4, <2>3
  <2> QED
    BY <1>1, <1>2, <1>3, <2>4
<1> QED
    BY <1>5, <1>6

(* The inductive invariant gives the acceptance of conformant peers. *)
LEMMA IInvAccepts == IInv => ConformantPeerAccepted
<1> SUFFICES ASSUME IInv PROVE ConformantPeerAccepted
    OBVIOUS
<1>1. NumOK /\ Total \in Nat /\ frames = Total - last_ack_recv
    BY NumTypes, StartIncreasing DEF IInv, CountersAgree
<1>2. ASSUME st = "up", NEW n \in 1 .. (peer_recv - last_ack_recv)
      PROVE  ~AckRejected(n)
  <2>1. /\ last_ack_recv <= peer_recv /\ peer_recv <= written /\ written <= Total
    BY <1>2 DEF IInv, Retained
  <2>2. ~(n > frames)
    BY <1>1, <2>1 DEF NumOK
  <2>3. retransmit_off # NoReplay => ~(n > Replayed)
    <3> SUFFICES ASSUME retransmit_off # NoReplay PROVE ~(n > Replayed)
        OBVIOUS
    <3>1. Replayed = written - last_ack_recv
        BY <1>2, ReplayedIsWritten
    <3> QED
        BY <1>1, <2>1, <3>1 DEF NumOK
  <2> QED
    BY <2>2, <2>3 DEF AckRejected
<1>3. st # "closed" => ~ResumeRejected(peer_recv)
    BY <1>1 DEF ResumeRejected, IInv, Retained, NumOK
<1> QED
    BY <1>2, <1>3 DEF ConformantPeerAccepted

(* A session ACK of `count' frames, accepted: the ring loses its front, the *)
(* numbering of what is left does not change, and the cursor keeps pointing *)
(* at the same frame.                                                       *)
LEMMA AckTrimIInv ==
    ASSUME IInv, NEW count \in Nat \ {0}, st = "up",
           count <= peer_recv - last_ack_recv,
           AckTrim(count), UNCHANGED <<st, written, peer_recv>>
    PROVE  IInv'
<1> DEFINE acked == last_ack_recv + count
<1>1. NumOK /\ Total \in Nat /\ frames = Total - last_ack_recv
    BY NumTypes, StartIncreasing DEF IInv, CountersAgree
<1>2. /\ last_ack_recv <= peer_recv /\ peer_recv <= written /\ written <= Total
    BY DEF IInv, Retained
<1>3. acked \in Nat /\ last_ack_recv < acked /\ acked <= peer_recv /\ acked <= Total
    BY <1>1, <1>2 DEF NumOK
<1>4. PICK p \in 0 .. Len(ring) :
        /\ p > 0 => ring[p] <= acked
        /\ p < Len(ring) => ring[p + 1] > acked
        /\ ring' = SubSeq(ring, p + 1, Len(ring))
        /\ frames' = frames - count
        /\ last_ack_recv' = acked
        /\ IF retransmit_off = NoReplay
           THEN UNCHANGED replayVars
           ELSE IF Len(ring) - p <= (IF retransmit_off >= p THEN retransmit_off - p ELSE 0)
           THEN SetReplayOff(NoReplay)
           ELSE IF retransmit_off >= p
           THEN /\ retransmit_off' = retransmit_off - p
                /\ retransmitted_frames' = retransmitted_frames
                    - (IF p < retransmit_off THEN count
                                             ELSE Start(retransmit_off) - last_ack_recv)
           ELSE SetReplayOff(0)
        /\ IF (p < Len(ring) /\ acked - Start(p) > 0) /\ retransmit_copy /\ p = retransmit_off
           THEN /\ copy_count' = copy_count - (acked - Start(p))
                /\ copy_sent' = copy_sent - (acked - Start(p))
           ELSE UNCHANGED <<copy_count, copy_sent>>
        /\ UNCHANGED retransmit_copy
    BY DEF AckTrim, Passed
<1> HIDE DEF acked
<1>5. /\ ring' \in Seq(Nat)
      /\ Len(ring') = Len(ring) - p
      /\ \A i \in 1 .. Len(ring') : ring'[i] = ring[p + i]
      /\ Increasing(ring')
      /\ Above(acked, ring')
  <2>1. Increasing(ring)
    BY DEF IInv, Sorted
  <2>2. ring \in Seq(Nat)
    BY <1>1 DEF NumOK
  <2>3. p < Len(ring) => ring[p + 1] > acked
    BY <1>4
  <2>4. ring' = Suffix(ring, p)
    BY <1>4 DEF Suffix
  <2>5. acked \in Nat
    BY <1>3
  <2>6. p \in 0 .. Len(ring)
    OBVIOUS
  <2> QED
    BY <2>1, <2>2, <2>3, <2>4, <2>5, <2>6, SuffixIncreasing
<1>6. Len(ring') = Len(ring) - p /\ Len(ring) \in Nat /\ p \in 0 .. Len(ring)
    BY <1>1, <1>5 DEF NumOK
<1>7. Sorted'
    BY <1>4, <1>5 DEF Sorted
<1>8. \A k \in 0 .. Len(ring) : p < k => Start(k - p)' = Start(k)
    BY <1>1, <1>4, <1>5 DEF Start, NumOK
<1>9. Start(0)' = acked
    BY <1>4 DEF Start
<1>10. Total' = Total
  <2>1. CASE p < Len(ring)
    BY <1>6, <1>8, <2>1 DEF Total
  <2>2. CASE p = Len(ring)
    <3>1. Total' = acked
        BY <1>1, <1>5, <1>9, <2>2 DEF Total, NumOK
    <3>2. p # 0
        BY <1>1, <1>3, <2>2 DEF Total, Start, NumOK
    <3>3. Total = ring[p]
        BY <2>2, <3>2 DEF Total, Start
    <3>4. Total <= acked
        BY <1>4, <3>2, <3>3
    <3> QED
        BY <1>1, <1>3, <3>1, <3>4
  <2> QED
    BY <1>1, <1>4, <2>1, <2>2 DEF NumOK
<1>11. (frames = Total - last_ack_recv)' /\ frames' \in Nat
    BY <1>1, <1>3, <1>4, <1>10 DEF NumOK, acked
<1>12. Retained'
    BY <1>1, <1>2, <1>3, <1>4, <1>10 DEF Retained, NumOK
<1>13. (retransmit_copy \in BOOLEAN)' /\ (st \in {"up", "down", "closed"})'
    BY <1>4 DEF IInv, TypeOK
<1>14. NoCopyDown'
    BY DEF NoCopyDown
<1>15. CASE retransmit_off = NoReplay
  <2>1. ~retransmit_copy
    BY <1>15 DEF IInv, CountersAgree
  <2>2. UNCHANGED <<retransmit_off, retransmitted_frames, retransmit_copy,
                    copy_count, copy_sent>>
    BY <1>4, <1>15, <2>1 DEF replayVars
  <2>3. TypeOK'
    BY <1>1, <1>3, <1>4, <1>5, <1>11, <1>13, <2>2 DEF NumOK, TypeOK, NoReplay
  <2>4. CountersAgree'
    BY <1>11, <1>15, <2>1, <2>2 DEF CountersAgree
  <2>5. WireContiguous'
    BY <1>10, <1>15, <2>2 DEF IInv, WireContiguous
  <2> QED
    BY <1>7, <1>12, <1>14, <2>3, <2>4, <2>5 DEF IInv
<1>16. CASE retransmit_off # NoReplay
  <2> DEFINE S == Start(retransmit_off)
  <2>1. /\ S \in Nat /\ retransmit_off \in 0 .. Len(ring)
        /\ retransmitted_frames = S - last_ack_recv
        /\ last_ack_recv <= S
    BY <1>16, ReplayedIsWritten, StartIncreasing DEF IInv
  <2>2. retransmit_copy => /\ written = S + copy_sent
                           /\ copy_count = ring[retransmit_off + 1] - S
                           /\ copy_sent < copy_count
                           /\ retransmit_off < Len(ring)
    BY <1>16, CopyFacts
  <2>3. ~retransmit_copy => written = S
    BY <1>16, <2>1 DEF IInv, WireContiguous
  <2>4. retransmit_off < Len(ring) => acked < ring[retransmit_off + 1]
    <3> SUFFICES ASSUME retransmit_off < Len(ring) PROVE acked < ring[retransmit_off + 1]
        OBVIOUS
    <3> DEFINE R == ring[retransmit_off + 1]
    <3>1. R \in Nat /\ S < R
        BY <2>1, EntryAt DEF IInv
    <3>2. retransmit_copy => copy_count = R - S
        BY <2>2
    <3> HIDE DEF R, S
    <3>3. written < R
      <4>1. CASE retransmit_copy
        <5>1. written = S + copy_sent /\ copy_count = R - S /\ copy_sent < copy_count
            BY <2>2, <3>2, <4>1
        <5> QED
            BY <1>1, <2>1, <3>1, <5>1 DEF NumOK
      <4>2. CASE ~retransmit_copy
        BY <2>3, <3>1, <4>2
      <4> QED
        BY <4>1, <4>2
    <3>4. acked < R
        BY <1>1, <1>2, <1>3, <3>1, <3>3 DEF NumOK
    <3> QED
        BY <3>4 DEF R
  <2>5. p <= retransmit_off
    <3> SUFFICES ASSUME p > retransmit_off PROVE FALSE
        BY <1>1, <2>1 DEF NumOK
    <3>1. retransmit_off + 1 \in 1 .. Len(ring) /\ p \in 1 .. Len(ring)
          /\ retransmit_off < Len(ring)
        BY <1>1, <2>1 DEF NumOK
    <3>2. ring[retransmit_off + 1] <= ring[p]
        BY <3>1, <1>1 DEF IInv, Sorted, Increasing, NumOK
    <3> DEFINE x == ring[retransmit_off + 1]
               y == ring[p]
    <3>3. x <= y /\ acked < x
        BY <2>4, <3>1, <3>2
    <3>4. x \in Nat /\ y \in Nat
        BY <1>1, <3>1 DEF NumOK
    <3>5. y <= acked
        BY <1>4, <3>1
    <3> HIDE DEF x, y
    <3> QED
        BY <1>3, <3>3, <3>4, <3>5
  <2> HIDE DEF S
  <2>6. CASE retransmit_off = Len(ring)
    <3>1. ~retransmit_copy
        BY <1>1, <2>2, <2>6 DEF NumOK
    <3>2. retransmit_off' = NoReplay /\ retransmitted_frames' = 0
        BY <1>1, <1>4, <1>16, <2>5, <2>6 DEF SetReplayOff, NumOK
    <3>3. UNCHANGED <<retransmit_copy, copy_count, copy_sent>>
        BY <1>4, <3>1
    <3>4. TypeOK'
        BY <1>1, <1>3, <1>4, <1>5, <1>11, <1>13, <3>2, <3>3 DEF NumOK, TypeOK, NoReplay
    <3>5. CountersAgree'
        BY <1>11, <3>1, <3>2, <3>3 DEF CountersAgree
    <3>6. written = Total
        BY <2>3, <2>6, <3>1 DEF S, Total
    <3>7. WireContiguous'
        BY <1>10, <3>2, <3>6 DEF WireContiguous
    <3> QED
        BY <1>7, <1>12, <1>14, <3>4, <3>5, <3>7 DEF IInv
  <2>7. CASE retransmit_off < Len(ring)
    <3>1. /\ retransmit_off' = retransmit_off - p
          /\ retransmitted_frames' = retransmitted_frames
              - (IF p < retransmit_off THEN count ELSE S - last_ack_recv)
      <4>1. /\ retransmit_off >= p
            /\ ~(Len(ring) - p <= (IF retransmit_off >= p THEN retransmit_off - p ELSE 0))
        BY <1>1, <2>1, <2>5, <2>7 DEF NumOK
      <4> QED
        BY <1>4, <1>16, <4>1 DEF S
    <3>2. /\ retransmit_off' \in Nat /\ retransmit_off' # NoReplay
          /\ retransmit_off' < Len(ring') /\ retransmit_off' <= Len(ring')
          /\ ring'[retransmit_off' + 1] = ring[retransmit_off + 1]
      <4>1. retransmit_off' \in Nat /\ retransmit_off' < Len(ring')
        BY <1>6, <2>1, <2>5, <2>7, <3>1
      <4>2. retransmit_off' + 1 \in 1 .. Len(ring') /\ p + (retransmit_off' + 1) = retransmit_off + 1
        BY <1>1, <1>5, <2>1, <3>1, <4>1 DEF NumOK
      <4>3. ring'[retransmit_off' + 1] = ring[p + (retransmit_off' + 1)]
        BY <1>5, <4>2
      <4>4. ring'[retransmit_off' + 1] = ring[retransmit_off + 1]
        BY <4>2, <4>3
      <4>5. retransmit_off' # NoReplay /\ retransmit_off' <= Len(ring')
        <5>1. Len(ring') \in Nat
            BY <1>5
        <5> QED
            BY <4>1, <5>1 DEF NoReplay
      <4> QED
        BY <4>1, <4>4, <4>5
    <3> DEFINE S1 == Start(retransmit_off)'
               R == ring[retransmit_off + 1]
    <3>3. p < retransmit_off => S1 = S
        BY <1>8, <2>1, <3>1 DEF S
    <3>4. p = retransmit_off => S1 = acked /\ Start(p) = S
        BY <1>9, <2>1, <3>1 DEF S
    <3>5. R \in Nat /\ S < R /\ (retransmit_copy => copy_count = R - S)
        BY <2>1, <2>2, <2>7, EntryAt DEF S, IInv
    <3>6. p < retransmit_off => acked < R
        BY <2>4, <2>7
    <3>7. p < retransmit_off => acked < S
      <4> SUFFICES ASSUME p < retransmit_off PROVE acked < S
        OBVIOUS
      <4>1. retransmit_off # 0 /\ retransmit_off - p \in 1 .. Len(ring')
        BY <1>1, <1>5, <2>1, <2>7 DEF NumOK
      <4>2. acked < ring'[retransmit_off - p] /\ ring'[retransmit_off - p] = ring[p + (retransmit_off - p)]
        BY <1>5, <4>1 DEF Above
      <4>3. p + (retransmit_off - p) = retransmit_off
        BY <2>1
      <4> QED
        BY <4>1, <4>2, <4>3 DEF S, Start
    <3>8. UNCHANGED retransmit_copy
        BY <1>4
    <3>9. /\ p < retransmit_off => UNCHANGED <<copy_count, copy_sent>>
          /\ ~retransmit_copy => UNCHANGED <<copy_count, copy_sent>>
          /\ retransmit_copy /\ p = retransmit_off =>
                IF acked - S > 0
                THEN copy_count' = copy_count - (acked - S) /\ copy_sent' = copy_sent - (acked - S)
                ELSE UNCHANGED <<copy_count, copy_sent>>
        BY <1>4, <2>1, <2>7, <3>4
    <3>10. p = retransmit_off => S <= acked
      <4> SUFFICES ASSUME p = retransmit_off PROVE S <= acked
        OBVIOUS
      <4>1. CASE p = 0
        BY <1>1, <1>3, <4>1 DEF S, Start, NumOK
      <4>2. CASE p # 0
        BY <1>1, <1>4, <4>2 DEF S, Start, NumOK
      <4> QED
        BY <4>1, <4>2
    <3> HIDE DEF S1, R
    <3>11. /\ retransmitted_frames' = S1 - acked /\ retransmitted_frames' \in Nat /\ S1 \in Nat
      <4>1. CASE p < retransmit_off
        <5>1. S1 = S /\ acked < S /\ retransmitted_frames' = retransmitted_frames - count
            BY <3>1, <3>3, <3>7, <4>1
        <5> QED
            BY <1>1, <1>3, <2>1, <5>1 DEF acked, NumOK
      <4>2. CASE p = retransmit_off
        <5>1. S1 = acked /\ retransmitted_frames' = retransmitted_frames - (S - last_ack_recv)
            BY <1>1, <2>1, <3>1, <3>4, <4>2 DEF NumOK
        <5> QED
            BY <1>1, <1>3, <2>1, <5>1 DEF NumOK
      <4> QED
        BY <2>1, <2>5, <4>1, <4>2
    <3>12. retransmit_copy => /\ copy_count' \in Nat /\ copy_sent' \in Nat
                              /\ copy_count' = R - S1 /\ copy_sent' < copy_count'
                              /\ written = S1 + copy_sent'
      <4> SUFFICES ASSUME retransmit_copy
                   PROVE  /\ copy_count' \in Nat /\ copy_sent' \in Nat
                          /\ copy_count' = R - S1 /\ copy_sent' < copy_count'
                          /\ written = S1 + copy_sent'
        OBVIOUS
      <4>1. written = S + copy_sent /\ copy_count = R - S /\ copy_sent < copy_count
            /\ copy_count \in Nat /\ copy_sent \in Nat /\ written \in Nat
        BY <1>1, <2>2, <3>5 DEF NumOK
      <4>2. CASE p < retransmit_off
        <5>1. S1 = S /\ copy_count' = copy_count /\ copy_sent' = copy_sent
            BY <3>3, <3>9, <4>2
        <5> QED
            BY <4>1, <5>1
      <4>3. CASE p = retransmit_off
        <5>1. S1 = acked /\ S <= acked /\ acked <= written
            BY <1>1, <1>2, <1>3, <3>4, <3>10, <4>3 DEF NumOK
        <5>2. CASE acked - S > 0
          <6>1. copy_count' = copy_count - (acked - S) /\ copy_sent' = copy_sent - (acked - S)
            BY <3>9, <4>3, <5>2
          <6> QED
            BY <1>3, <2>1, <3>5, <4>1, <5>1, <6>1
        <5>3. CASE ~(acked - S > 0)
          <6>1. copy_count' = copy_count /\ copy_sent' = copy_sent
            BY <3>9, <4>3, <5>3
          <6>2. acked = S
            BY <1>3, <2>1, <5>1, <5>3
          <6> QED
            BY <4>1, <5>1, <6>1, <6>2
        <5> QED
            BY <5>2, <5>3
      <4> QED
        BY <2>1, <2>5, <4>2, <4>3
    <3>13. ~retransmit_copy => /\ copy_count' \in Nat /\ copy_sent' \in Nat
                               /\ written = S1
      <4> SUFFICES ASSUME ~retransmit_copy
                   PROVE  copy_count' \in Nat /\ copy_sent' \in Nat /\ written = S1
        OBVIOUS
      <4>1. copy_count' = copy_count /\ copy_sent' = copy_sent /\ written = S
        BY <2>3, <3>9
      <4>2. S1 = S
        <5>1. CASE p < retransmit_off
            BY <3>3, <5>1
        <5>2. CASE p = retransmit_off
            BY <1>1, <1>2, <1>3, <2>1, <3>4, <3>10, <4>1, <5>2 DEF NumOK
        <5> QED
            BY <2>1, <2>5, <5>1, <5>2
      <4> QED
        BY <1>1, <4>1, <4>2 DEF NumOK
    <3>14. copy_count' \in Nat /\ copy_sent' \in Nat
        BY <3>12, <3>13
    <3>15. TypeOK'
        BY <1>1, <1>3, <1>4, <1>5, <1>11, <1>13, <3>2, <3>11, <3>14 DEF NumOK, TypeOK
    <3>16. CountersAgree'
      <4>1. retransmit_copy' => (copy_count = ring[retransmit_off + 1] - Start(retransmit_off))'
                                /\ (copy_sent < copy_count)'
        BY <3>2, <3>8, <3>12 DEF R, S1
      <4>2. (retransmitted_frames = Start(retransmit_off) - last_ack_recv)'
        BY <1>4, <3>11 DEF S1
      <4> QED
        BY <1>11, <3>2, <4>1, <4>2 DEF CountersAgree
    <3>17. WireContiguous'
      <4>1. CASE retransmit_copy
        <5>1. written' = Start(retransmit_off)' + copy_sent'
            BY <3>12, <4>1 DEF S1
        <5> QED
            BY <3>2, <3>8, <4>1, <5>1 DEF WireContiguous
      <4>2. CASE ~retransmit_copy
        <5>1. written' = Start(retransmit_off)' + 0
            BY <3>11, <3>13, <4>2 DEF S1
        <5> QED
            BY <3>2, <3>8, <4>2, <5>1 DEF WireContiguous
      <4> QED
        BY <4>1, <4>2
    <3> QED
        BY <1>7, <1>12, <1>14, <3>15, <3>16, <3>17 DEF IInv
  <2> QED
    BY <1>1, <2>1, <2>6, <2>7 DEF NumOK
<1> QED
    BY <1>15, <1>16

(* What lies above a on both sides lies above it once concatenated. *)
LEMMA ConcatAbove ==
    ASSUME NEW r \in Seq(Nat), NEW e \in Seq(Nat), NEW a \in Nat,
           Above(a, r), Above(a, e)
    PROVE  Above(a, r \o e)
<1>1. SUFFICES ASSUME NEW i \in 1 .. Len(r \o e) PROVE a < (r \o e)[i]
    BY DEF Above
<1>2. CASE i <= Len(r)
  <2>1. i \in 1 .. Len(r) /\ (r \o e)[i] = r[i]
    BY <1>2
  <2> QED
    BY <2>1, Zenon DEF Above
<1>3. CASE i > Len(r)
  <2>1. i - Len(r) \in 1 .. Len(e) /\ (r \o e)[i] = e[i - Len(r)]
    BY <1>3
  <2> QED
    BY <2>1, Zenon DEF Above
<1> QED
    BY <1>2, <1>3

(* The ring after a trim up to `a' and a capture of e: still sorted, and    *)
(* its last frame moves by what e adds.                                     *)
LEMMA TrimCapture ==
    ASSUME TypeOK, Sorted,
           NEW p \in 0 .. Len(ring), NEW a \in Nat, NEW e \in Entries(Total),
           p < Len(ring) => ring[p + 1] > a,
           p = Len(ring) => a = Total,
           a <= Total,
           ring' = Suffix(ring, p) \o e, last_ack_recv' = a
    PROVE  /\ Sorted'
           /\ ring' \in Seq(Nat)
           /\ Total' \in Nat
           /\ Total <= Total'
           /\ Total' = Total + (IF e = <<>> THEN 0 ELSE e[Len(e)] - Total)
<1> DEFINE q == Suffix(ring, p)
<1>1. ring \in Seq(Nat) /\ Len(ring) \in Nat /\ Total \in Nat
      /\ \A i \in 1 .. Len(ring) : ring[i] \in Nat /\ ring[i] <= Total
  <2>1. NumOK /\ Total \in Nat
    BY NumTypes, StartIncreasing
  <2>2. ASSUME NEW i \in 1 .. Len(ring) PROVE ring[i] \in Nat /\ ring[i] <= Total
    <3>1. i \in 0 .. Len(ring) /\ Start(i) = ring[i]
        BY <2>1 DEF Start, NumOK
    <3> QED
        BY <3>1, StartIncreasing
  <2> QED
    BY <2>1, <2>2 DEF NumOK
<1>2. e \in Seq(Nat) /\ Increasing(e) /\ Above(Total, e)
    BY <1>1, EntriesAfter
<1>3. /\ q \in Seq(Nat) /\ Len(q) = Len(ring) - p
      /\ \A i \in 1 .. Len(q) : q[i] = ring[p + i]
      /\ Increasing(q) /\ Above(a, q)
  <2>1. Increasing(ring)
    BY DEF Sorted
  <2> QED
    BY <1>1, <2>1, SuffixIncreasing
<1> HIDE DEF q
<1>4. ASSUME NEW i \in 1 .. Len(q) PROVE q[i] <= Total
  <2>1. p + i \in 1 .. Len(ring)
    BY <1>1, <1>3
  <2>2. ring[p + i] <= Total
    BY <1>1, <2>1
  <2> QED
    BY <1>3, <2>2
<1>5. /\ q \o e \in Seq(Nat) /\ Len(q \o e) = Len(q) + Len(e)
      /\ Increasing(q \o e)
      /\ \A i \in 1 .. Len(q) : (q \o e)[i] = q[i]
      /\ \A i \in 1 .. Len(e) : (q \o e)[Len(q) + i] = e[i]
    BY <1>1, <1>2, <1>3, <1>4, ConcatIncreasing
<1>6. ring' = q \o e
    BY DEF q
<1>7. Above(a, ring')
  <2>1. ASSUME NEW i \in 1 .. Len(e) PROVE a < e[i]
    <3>1. Total < e[i]
        BY <1>2, Zenon DEF Above
    <3>2. e[i] \in Nat
        BY <1>2
    <3> QED
        BY <1>1, <3>1, <3>2
  <2>2. Above(a, e)
    BY <2>1, Zenon DEF Above
  <2>3. Above(a, q \o e)
    BY <1>2, <1>3, <2>2, ConcatAbove
  <2> QED
    BY <1>6, <2>3, Zenon
<1>8. Sorted'
    BY <1>5, <1>6, <1>7 DEF Sorted
<1>9. CASE e = <<>>
  <2>1. Len(ring') = Len(q) /\ Len(q) \in Nat
    BY <1>3, <1>5, <1>6, <1>9
  <2>2. CASE Len(q) = 0
    <3>1. p = Len(ring)
        BY <1>1, <1>3, <2>2
    <3>2. Total' = a
        BY <2>1, <2>2 DEF Total, Start
    <3>3. Total' = Total
        BY <3>1, <3>2
    <3> QED
        BY <1>1, <1>5, <1>6, <1>8, <1>9, <3>3
  <2>3. CASE Len(q) # 0
    <3>1. ring'[Len(q)] = q[Len(q)]
        BY <1>5, <1>6, <2>1, <2>3
    <3>2. Len(q) \in 1 .. Len(q) /\ p + Len(q) = Len(ring) /\ Len(ring) # 0
      <4>1. Len(q) = Len(ring) - p
        BY <1>3
      <4>2. Len(ring) \in Nat /\ p \in Nat /\ Len(q) \in Nat
        BY <1>1, <2>1
      <4> QED
        BY <2>3, <4>1, <4>2
    <3>3. q[Len(q)] = ring[p + Len(q)]
        BY <1>3, <3>2
    <3>4. ring'[Len(q)] = ring[Len(ring)]
        BY <3>1, <3>2, <3>3
    <3>5. Total' = Total
        BY <2>1, <2>3, <3>2, <3>4 DEF Total, Start
    <3> QED
        BY <1>1, <1>5, <1>6, <1>8, <1>9, <3>5
  <2> QED
    BY <2>2, <2>3
<1>10. CASE e # <<>>
  <2>1. Len(e) \in 1 .. Len(e) /\ Len(e) \in Nat
    BY <1>2, <1>10
  <2>2. Len(ring') = Len(q) + Len(e) /\ Len(ring') # 0
    BY <1>3, <1>5, <1>6, <2>1
  <2>3. ring'[Len(q) + Len(e)] = e[Len(e)]
    BY <1>5, <1>6, <2>1
  <2>4. Total' = e[Len(e)]
    BY <2>2, <2>3 DEF Total, Start
  <2> DEFINE x == e[Len(e)]
  <2>5. x \in Nat /\ Total < x /\ Total' = x
    BY <1>2, <2>1, <2>4 DEF Above
  <2> HIDE DEF x
  <2>6. Total' \in Nat /\ Total <= Total' /\ Total' = Total + (x - Total)
    BY <1>1, <2>5
  <2> QED
    BY <1>5, <1>6, <1>8, <1>10, <2>6 DEF x
<1> QED
    BY <1>9, <1>10

(* A capture alone, at a suspension or before dialing. *)
LEMMA CaptureIntoRing ==
    ASSUME IInv, NEW e \in Entries(Total), CaptureInto(ring, e),
           UNCHANGED last_ack_recv
    PROVE  /\ Sorted' /\ ring' \in Seq(Nat)
           /\ Total' \in Nat /\ Total <= Total'
           /\ frames' \in Nat /\ (frames = Total - last_ack_recv)'
           /\ \A i \in 0 .. Len(ring) : i <= Len(ring') /\ Start(i)' = Start(i)
<1>1. NumOK /\ Total \in Nat /\ last_ack_recv <= Total /\ frames = Total - last_ack_recv
    BY NumTypes, StartIncreasing DEF IInv, NumOK, CountersAgree, Total
<1>2. ring = Suffix(ring, 0)
    BY <1>1 DEF Suffix, NumOK
<1>3. ring' = Suffix(ring, 0) \o e
    BY <1>2 DEF CaptureInto
<1>4. /\ 0 < Len(ring) => ring[0 + 1] > last_ack_recv
      /\ 0 = Len(ring) => last_ack_recv = Total
    BY <1>1 DEF IInv, Sorted, Above, NumOK, Total, Start
<1>5. 0 \in 0 .. Len(ring) /\ last_ack_recv \in Nat
    BY <1>1 DEF NumOK
<1>6. /\ Sorted' /\ ring' \in Seq(Nat) /\ Total' \in Nat /\ Total <= Total'
      /\ Total' = Total + (IF e = <<>> THEN 0 ELSE e[Len(e)] - Total)
    BY <1>1, <1>3, <1>4, <1>5, TrimCapture DEF IInv
<1> DEFINE d == IF e = <<>> THEN 0 ELSE e[Len(e)] - Total
<1>7. frames' = frames + d /\ Total' = Total + d
    BY <1>6 DEF CaptureInto
<1>8. d \in Int
  <2>1. e \in Seq(Nat)
    BY <1>1, EntriesAfter
  <2>2. e # <<>> => Len(e) \in 1 .. Len(e)
    BY <2>1
  <2>3. e # <<>> => e[Len(e)] \in Nat
    BY <2>1, <2>2
  <2> QED
    BY <1>1, <2>3
<1> HIDE DEF d
<1>9. frames' \in Nat /\ (frames = Total - last_ack_recv)'
    BY <1>1, <1>6, <1>7, <1>8 DEF NumOK
<1>10. \A i \in 0 .. Len(ring) : i <= Len(ring') /\ Start(i)' = Start(i)
  <2>1. e \in Seq(Nat) /\ ring \in Seq(Nat) /\ ring' = ring \o e
    BY <1>1, EntriesAfter DEF CaptureInto, NumOK
  <2>2. /\ Len(ring) <= Len(ring') /\ Len(ring) \in Nat /\ Len(ring') \in Nat
        /\ \A i \in 1 .. Len(ring) : ring'[i] = ring[i]
    BY <2>1
  <2> QED
    BY <2>2 DEF Start
<1> QED
    BY <1>6, <1>9, <1>10

(* A transport is lost. *)
LEMMA SuspendIInv == IInv /\ Suspend => IInv'
<1> SUFFICES ASSUME IInv, Suspend PROVE IInv'
    OBVIOUS
<1>1. PICK e \in Entries(Total) :
        CaptureInto(ring, e) /\ SetReplayOff(IF ring \o e # <<>> THEN 0 ELSE NoReplay)
    BY DEF Suspend
<1>2. /\ st = "up" /\ st' = "down" /\ retransmit_copy' = FALSE
      /\ UNCHANGED <<last_ack_recv, copy_count, copy_sent, written, peer_recv>>
    BY DEF Suspend
<1>3. /\ Sorted' /\ ring' \in Seq(Nat) /\ Total' \in Nat /\ Total <= Total'
      /\ frames' \in Nat /\ (frames = Total - last_ack_recv)'
    BY <1>1, <1>2, CaptureIntoRing
<1>4. retransmitted_frames' = 0 /\ retransmit_off' \in {0, NoReplay}
    BY <1>1 DEF SetReplayOff
<1>5. NumOK /\ Total \in Nat
    BY NumTypes, StartIncreasing DEF IInv
<1>6. retransmit_off' \in Nat \cup {NoReplay} /\ retransmitted_frames' \in Nat
    BY <1>4 DEF NoReplay
<1>7. (retransmit_copy \in BOOLEAN)' /\ (st \in {"up", "down", "closed"})'
    BY <1>2
<1>8. TypeOK'
    BY <1>2, <1>3, <1>5, <1>6, <1>7 DEF TypeOK, NumOK
<1>9. CountersAgree'
  <2>1. retransmit_off' # NoReplay => /\ (retransmit_off <= Len(ring))'
                                      /\ (retransmitted_frames = Start(retransmit_off) - last_ack_recv)'
    BY <1>2, <1>3, <1>4, <1>5 DEF Start, NumOK
  <2> QED
    BY <1>2, <1>3, <2>1 DEF CountersAgree
<1>10. Retained'
    BY <1>2, <1>3, <1>5 DEF IInv, Retained, NumOK
<1>11. WireContiguous'
    BY <1>2 DEF WireContiguous
<1>12. NoCopyDown'
    BY <1>2 DEF NoCopyDown
<1> QED
    BY <1>3, <1>8, <1>9, <1>10, <1>11, <1>12 DEF IInv

(* A resume attempt is given up, or another one dialed. *)
LEMMA CaptureIInv ==
    ASSUME IInv, NEW rearm \in BOOLEAN, Capture(rearm)
    PROVE  IInv'
<1>1. PICK e \in Entries(Total) :
        /\ CaptureInto(ring, e)
        /\ IF rearm THEN SetReplayOff(IF ring \o e # <<>> THEN 0 ELSE NoReplay)
                    ELSE UNCHANGED replayVars
    BY DEF Capture
<1>2. /\ st = "down"
      /\ UNCHANGED <<st, last_ack_recv, retransmit_copy, copy_count, copy_sent,
                     written, peer_recv>>
    BY DEF Capture, copyVars
<1>3. /\ Sorted' /\ ring' \in Seq(Nat) /\ Total' \in Nat /\ Total <= Total'
      /\ frames' \in Nat /\ (frames = Total - last_ack_recv)'
      /\ \A i \in 0 .. Len(ring) : i <= Len(ring') /\ Start(i)' = Start(i)
    BY <1>1, <1>2, CaptureIntoRing
<1>4. \/ retransmitted_frames' = 0 /\ retransmit_off' \in {0, NoReplay}
      \/ UNCHANGED <<retransmit_off, retransmitted_frames>>
    BY <1>1 DEF SetReplayOff, replayVars
<1>5. NumOK /\ Total \in Nat
    BY NumTypes, StartIncreasing DEF IInv
<1>6. retransmit_off' \in Nat \cup {NoReplay} /\ retransmitted_frames' \in Nat
    BY <1>4, <1>5 DEF NumOK, NoReplay
<1>7. (retransmit_copy \in BOOLEAN)' /\ (st \in {"up", "down", "closed"})'
    BY <1>2 DEF IInv, TypeOK
<1>8. TypeOK'
    BY <1>2, <1>3, <1>5, <1>6, <1>7 DEF TypeOK, NumOK
<1>9. ~retransmit_copy
    BY <1>2 DEF IInv, NoCopyDown
<1>10. retransmit_off' # NoReplay => /\ (retransmit_off <= Len(ring))'
                                    /\ (retransmitted_frames = Start(retransmit_off) - last_ack_recv)'
  <2>1. CASE retransmitted_frames' = 0 /\ retransmit_off' \in {0, NoReplay}
    BY <1>2, <1>3, <1>5, <2>1 DEF Start, NumOK
  <2>2. CASE UNCHANGED <<retransmit_off, retransmitted_frames>>
    <3> SUFFICES ASSUME retransmit_off # NoReplay
                 PROVE  /\ (retransmit_off <= Len(ring))'
                        /\ (retransmitted_frames = Start(retransmit_off) - last_ack_recv)'
        BY <2>2
    <3>1. retransmit_off \in 0 .. Len(ring)
        BY <1>5 DEF IInv, CountersAgree, NumOK, NoReplay
    <3>2. retransmit_off <= Len(ring') /\ Start(retransmit_off)' = Start(retransmit_off)
        BY <1>3, <2>2, <3>1 DEF Start
    <3>3. retransmitted_frames = Start(retransmit_off) - last_ack_recv
        BY DEF IInv, CountersAgree
    <3> QED
        BY <1>2, <2>2, <3>2, <3>3
  <2> QED
    BY <1>4, <2>1, <2>2
<1>11. CountersAgree'
    BY <1>2, <1>3, <1>9, <1>10 DEF CountersAgree
<1>12. Retained'
    BY <1>2, <1>3, <1>5 DEF IInv, Retained, NumOK
<1>13. WireContiguous' /\ NoCopyDown'
    BY <1>2, <1>9 DEF WireContiguous, NoCopyDown
<1> QED
    BY <1>3, <1>8, <1>11, <1>12, <1>13 DEF IInv

(* A new transport carries the session on from the peer's resume_seq. *)
LEMMA AttachIInv == IInv /\ Attach => IInv'
<1> SUFFICES ASSUME IInv, Attach PROVE IInv'
    OBVIOUS
<1>1. st # "closed" /\ ~ResumeRejected(peer_recv)
    BY IInvAccepts DEF Attach, ConformantPeerAccepted
<1>2. PICK e \in Entries(Total), p \in 0 .. Len(ring) :
        /\ p > 0 => ring[p] <= peer_recv
        /\ p < Len(ring) => ring[p + 1] > peer_recv
        /\ ring' = SubSeq(ring, p + 1, Len(ring)) \o e
        /\ SetReplayOff(IF SubSeq(ring, p + 1, Len(ring)) \o e # <<>> THEN 0 ELSE NoReplay)
        /\ frames' = frames - (peer_recv - last_ack_recv)
                     + (IF e = <<>> THEN 0 ELSE e[Len(e)] - Total)
        /\ st' = "up"
        /\ last_ack_recv' = peer_recv
        /\ written' = peer_recv
        /\ retransmit_copy' = FALSE
        /\ UNCHANGED <<copy_count, copy_sent, peer_recv>>
    BY <1>1 DEF Attach
<1>3. /\ NumOK /\ Total \in Nat /\ frames = Total - last_ack_recv
      /\ last_ack_recv <= peer_recv /\ peer_recv <= written /\ written <= Total
    BY <1>1, NumTypes, StartIncreasing DEF IInv, CountersAgree, Retained
<1>4. peer_recv \in Nat /\ peer_recv <= Total
    BY <1>3 DEF NumOK
<1>5. p = Len(ring) => peer_recv = Total
  <2> SUFFICES ASSUME p = Len(ring) PROVE peer_recv = Total
    OBVIOUS
  <2>1. CASE p = 0
    BY <1>3, <1>4, <2>1 DEF Total, Start, NumOK
  <2>2. CASE p # 0
    <3>1. ring[p] = Total
        BY <2>2 DEF Total, Start
    <3>2. p > 0
        BY <1>3, <2>2 DEF NumOK
    <3>3. Total <= peer_recv
        BY <1>2, <3>1, <3>2
    <3> QED
        BY <1>3, <1>4, <3>3
  <2> QED
    BY <2>1, <2>2
<1>6. /\ Sorted' /\ ring' \in Seq(Nat) /\ Total' \in Nat /\ Total <= Total'
      /\ Total' = Total + (IF e = <<>> THEN 0 ELSE e[Len(e)] - Total)
  <2>1. ring' = Suffix(ring, p) \o e /\ last_ack_recv' = peer_recv
    BY <1>2 DEF Suffix
  <2>2. p < Len(ring) => ring[p + 1] > peer_recv
    BY <1>2
  <2> QED
    BY <1>4, <1>5, <2>1, <2>2, TrimCapture DEF IInv
<1> DEFINE d == IF e = <<>> THEN 0 ELSE e[Len(e)] - Total
<1>7. frames' = frames - (peer_recv - last_ack_recv) + d /\ Total' = Total + d
    BY <1>2, <1>6
<1>8. d \in Int
  <2>1. e \in Seq(Nat)
    BY <1>3, EntriesAfter
  <2>2. e # <<>> => Len(e) \in 1 .. Len(e)
    BY <2>1
  <2>3. e # <<>> => e[Len(e)] \in Nat
    BY <2>1, <2>2
  <2> QED
    BY <1>3, <2>3
<1> HIDE DEF d
<1>9. frames' \in Nat /\ frames' = Total' - peer_recv
    BY <1>3, <1>4, <1>6, <1>7, <1>8 DEF NumOK
<1>10. retransmitted_frames' = 0 /\ retransmit_off' = (IF ring' # <<>> THEN 0 ELSE NoReplay)
    BY <1>2 DEF SetReplayOff
<1>11. /\ st' = "up" /\ last_ack_recv' = peer_recv /\ written' = peer_recv
       /\ retransmit_copy' = FALSE
       /\ UNCHANGED <<copy_count, copy_sent, peer_recv>>
    BY <1>2
<1>12. retransmit_off' \in {0, NoReplay} /\ Start(0)' = peer_recv
    BY <1>10, <1>11 DEF Start
<1>13. TypeOK'
    BY <1>3, <1>6, <1>9, <1>10, <1>11, <1>12 DEF TypeOK, NumOK
<1>14. CountersAgree'
  <2>1. retransmit_off' # NoReplay => /\ (retransmit_off <= Len(ring))'
                                      /\ (retransmitted_frames = Start(retransmit_off) - last_ack_recv)'
    BY <1>4, <1>6, <1>10, <1>11, <1>12 DEF Start
  <2> QED
    BY <1>9, <1>11, <2>1 DEF CountersAgree
<1>15. Retained'
    BY <1>3, <1>4, <1>6, <1>11 DEF Retained, NumOK
<1>16. WireContiguous'
  <2>1. CASE ring' = <<>>
    <3>1. Total' = peer_recv /\ retransmit_off' = NoReplay
        BY <1>10, <1>12, <2>1 DEF Total
    <3> QED
        BY <1>11, <3>1 DEF WireContiguous
  <2>2. CASE ring' # <<>>
    <3>1. retransmit_off' = 0 /\ 0 # NoReplay
        BY <1>10, <2>2 DEF NoReplay
    <3>2. written' = Start(retransmit_off)' + 0
        BY <1>4, <1>11, <1>12, <3>1 DEF Start
    <3> QED
        BY <1>11, <3>1, <3>2 DEF WireContiguous
  <2> QED
    BY <2>1, <2>2
<1>17. NoCopyDown'
    BY <1>11 DEF NoCopyDown
<1> QED
    BY <1>6, <1>13, <1>14, <1>15, <1>16, <1>17 DEF IInv
-----------------------------------------------------------------------------
(* The theorems. *)

(* Every step of the endpoint preserves the inductive invariant. *)
LEMMA NextIInv == IInv /\ [Next]_vars => IInv'
<1> SUFFICES ASSUME IInv, [Next]_vars PROVE IInv'
    OBVIOUS
<1>1. ASSUME NEW n \in 1 .. MaxEntry, TrackSent(n) PROVE IInv'
    BY <1>1, TrackSentIInv, BoundsAssumption
<1>2. CASE QueueRetransmit
    BY <1>2, QueueRetransmitIInv
<1>3. CASE ReplayDrained
    BY <1>3, ReplayDrainedIInv
<1>4. ASSUME NEW n \in 1 .. MaxFrames, CopyPartial(n) PROVE IInv'
    BY <1>4, CopyPartialIInv, BoundsAssumption
<1>5. CASE CopyRetire
    BY <1>5, CopyRetireIInv
<1>6. ASSUME NEW n \in 1 .. MaxFrames, AckRecv(n) PROVE IInv'
  <2>1. st = "up" /\ n <= peer_recv - last_ack_recv
    BY <1>6 DEF AckRecv
  <2>2. n \in 1 .. (peer_recv - last_ack_recv) /\ n \in Nat \ {0}
    BY <2>1, BoundsAssumption, NumTypes DEF IInv, NumOK
  <2>3. ~AckRejected(n)
    BY <2>1, <2>2, IInvAccepts DEF ConformantPeerAccepted
  <2>4. AckTrim(n) /\ UNCHANGED <<st, written, peer_recv>>
    BY <1>6, <2>3 DEF AckRecv
  <2> QED
    BY <2>1, <2>2, <2>4, AckTrimIInv
<1>7. CASE PeerRecv
    BY <1>7, PeerRecvIInv
<1>8. CASE Suspend
    BY <1>8, SuspendIInv
<1>9. ASSUME NEW rearm \in BOOLEAN, Capture(rearm) PROVE IInv'
    BY <1>9, CaptureIInv
<1>10. CASE Attach
    BY <1>10, AttachIInv
<1>11. CASE Close
    BY <1>11, ResetIInv DEF Close
<1>12. CASE UNCHANGED vars
    BY <1>12 DEF vars, ringVars, replayVars, copyVars, IInv, TypeOK, Sorted,
       CountersAgree, Retained, WireContiguous, NoCopyDown, Total, Start
<1> QED
    BY <1>1, <1>2, <1>3, <1>4, <1>5, <1>6, <1>7, <1>8, <1>9, <1>10, <1>11, <1>12
    DEF Next

(* The invariant holds in every reachable state, whatever the bounds. *)
THEOREM InductiveInvariant == Spec => []IInv
    BY InitIInv, NextIInv, PTL DEF Spec

(* Every variable of the log keeps its type; in particular no counter that  *)
(* the code keeps unsigned is ever decremented below zero.                  *)
THEOREM TypeCorrect == Spec => []TypeOK
<1>1. IInv => TypeOK
    BY DEF IInv
<1> QED
    BY <1>1, InductiveInvariant, PTL

(* The running counters of unacked.c agree with the ring in every reachable *)
(* state: the debug assertion of mux_unacked_ack_recv never fires.          *)
THEOREM CountersCorrect == Spec => []CountersAgree
<1>1. IInv => CountersAgree
    BY DEF IInv
<1> QED
    BY <1>1, InductiveInvariant, PTL

(* mux_unacked_ack_recv and mux_unacked_resume_ack_recv accept whatever a   *)
(* conformant peer acknowledges, in the middle of a replay included.        *)
THEOREM PeerAccepted == Spec => []ConformantPeerAccepted
    BY InductiveInvariant, IInvAccepts, PTL

(* No frame the peer has not processed ever leaves the log. *)
THEOREM NothingForgotten == Spec => []Retained
<1>1. IInv => Retained
    BY DEF IInv
<1> QED
    BY <1>1, InductiveInvariant, PTL

(* Fresh or replayed, frames reach each transport in sequence: no gap, no   *)
(* repetition, nothing new ahead of the replay.                             *)
THEOREM ReplayContiguous == Spec => []WireContiguous
<1>1. IInv => WireContiguous
    BY DEF IInv
<1> QED
    BY <1>1, InductiveInvariant, PTL
=============================================================================
