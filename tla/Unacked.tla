------------------------------ MODULE Unacked ------------------------------
(***************************************************************************)
(* The resume log of ONE session endpoint (src/mux/unacked.c) together     *)
(* with the replay cursor that send.c drives and the points at which       *)
(* session.c arms it: every non-stream-0 frame that reached the wire stays *)
(* in `ring' until the peer acknowledges it, and after a transport loss    *)
(* the ring is replayed, from its head, before anything new is sent.       *)
(*                                                                         *)
(* Frames carry no identity here: the k-th non-stream-0 frame of the       *)
(* session IS the number k, which is also what recv_seq, resume_seq and    *)
(* last_ack_recv count.  A ring entry (one physical record, holding        *)
(* several coalesced frames) is written as the number of its last frame,   *)
(* so entry i holds frames Start(i)+1 .. ring[i], and its unacked_count is *)
(* ring[i] - Start(i); a partially acknowledged head (partial_offset) is   *)
(* one whose first frames are at or below last_ack_recv.  The counters     *)
(* frames, retransmitted_frames, copy_count and copy_sent are NOT derived  *)
(* from the ring: they are maintained step by step as in the code, and     *)
(* that they agree with it is what is proved.                              *)
(*                                                                         *)
(* The peer is the environment: it processes frames in order, never past   *)
(* what this endpoint completely wrote on the current transport, and       *)
(* acknowledges only what it processed.  The 32-bit serial numbers are     *)
(* unbounded here; module Resume gives them their width.                   *)
(***************************************************************************)
EXTENDS Integers, Sequences

CONSTANTS MaxFrames,    \* bound: frames of the session
          MaxEntry,     \* frames that coalesce into one physical entry
          MaxCapture    \* entries queued but unsent when a transport dies

ASSUME BoundsAssumption ==
    /\ MaxFrames \in Nat
    /\ MaxEntry \in Nat
    /\ MaxCapture \in Nat

VARIABLES
    st,                    \* "up", "down" (suspended or dialing), "closed"
    ring,                  \* unacked.ring: last frame number of each entry
    frames,                \* unacked.frames
    last_ack_recv,         \* unacked.last_ack_recv
    retransmit_off,        \* unacked.retransmit_off
    retransmitted_frames,  \* unacked.retransmitted_frames
    retransmit_copy,       \* is a replay copy in the sendbuf?
    copy_count,            \* unacked.retransmit_copy_count
    copy_sent,             \* unacked.retransmit_copy_sent
    written,               \* last frame completely written on this transport
    peer_recv              \* the peer's recv_seq

ringVars == <<ring, frames, last_ack_recv>>
replayVars == <<retransmit_off, retransmitted_frames>>
copyVars == <<retransmit_copy, copy_count, copy_sent>>
vars == <<st, ringVars, replayVars, copyVars, written, peer_recv>>

(* retransmit_off == SIZE_MAX *)
NoReplay == -1

\* The frame before the first unacknowledged one of entry i + 1.
Start(i) == IF i = 0 THEN last_ack_recv ELSE ring[i]

\* The last frame the ring holds.
Total == Start(Len(ring))

\* The sequences of entries that carry on after frame t.
Entries(t) ==
    {<<>>} \cup
    {e \in UNION {[1 .. k -> (t + 1) .. MaxFrames] : k \in 1 .. MaxCapture} :
        \A i, j \in DOMAIN e : i < j => e[i] < e[j]}
-----------------------------------------------------------------------------
(* Defect: the cursor moves, its running total stays. *)
SetReplayOffOnly(off) ==
    /\ retransmit_off' = off
    /\ UNCHANGED retransmitted_frames

(* unacked_set_replay_off: the cursor and its running total move together. *)
SetReplayOff(off) ==
    /\ retransmit_off' = off
    /\ retransmitted_frames' = 0

(* mux_unacked_free_all *)
FreeAll ==
    /\ ring' = <<>>
    /\ frames' = 0
    /\ SetReplayOff(NoReplay)
    /\ retransmit_copy' = FALSE
    /\ copy_count' = 0
    /\ copy_sent' = 0

(* mux_session_reset, as far as the resume log is concerned. *)
Reset ==
    /\ st' = "closed"
    /\ FreeAll
    /\ UNCHANGED <<last_ack_recv, written, peer_recv>>

(* A session that has just been established. *)
Init ==
    /\ st = "up"
    /\ ring = <<>>
    /\ frames = 0
    /\ last_ack_recv = 0
    /\ retransmit_off = NoReplay
    /\ retransmitted_frames = 0
    /\ retransmit_copy = FALSE
    /\ copy_count = 0
    /\ copy_sent = 0
    /\ written = 0
    /\ peer_recv = 0

(* Defect: the completed prefix of a partial write is not retained. *)
TrackSentForgets(n) ==
    /\ st = "up"
    /\ retransmit_off = NoReplay
    /\ Total + n <= MaxFrames
    /\ written' = Total + n
    /\ UNCHANGED <<st, ringVars, replayVars, copyVars, peer_recv>>

(* Defect: a control frame overtakes the replay. *)
TrackSentEager(n) ==
    /\ st = "up"
    /\ Total + n <= MaxFrames
    /\ ring' = Append(ring, Total + n)
    /\ frames' = frames + n
    /\ written' = Total + n
    /\ UNCHANGED <<st, last_ack_recv, replayVars, copyVars, peer_recv>>

(* A fresh record, or the completed prefix of one (mux_unacked_track_       *)
(* partial), reached the wire with n frames that must be retained.          *)
(* send_stage_next produces nothing new while retransmit_off is set, and    *)
(* mux_session_send_ctrl defers control frames to oobbuf for as long.       *)
TrackSent(n) ==
    /\ st = "up"
    /\ retransmit_off = NoReplay
    /\ Total + n <= MaxFrames
    /\ ring' = Append(ring, Total + n)
    /\ frames' = frames + n
    /\ written' = Total + n
    /\ UNCHANGED <<st, last_ack_recv, replayVars, copyVars, peer_recv>>

(* send_stage_next, step 1, with the cursor inside the ring: copy the entry *)
(* at the cursor, skipping the acknowledged prefix.                         *)
QueueRetransmit ==
    /\ st = "up"
    /\ ~retransmit_copy
    /\ retransmit_off # NoReplay
    /\ retransmit_off < Len(ring)
    /\ retransmit_copy' = TRUE
    /\ copy_count' = ring[retransmit_off + 1] - Start(retransmit_off)
    /\ copy_sent' = 0
    /\ UNCHANGED <<st, ringVars, replayVars, written, peer_recv>>

(* send_stage_next, step 1, with the cursor at the end: the replay is over. *)
ReplayDrained ==
    /\ st = "up"
    /\ ~retransmit_copy
    /\ retransmit_off # NoReplay
    /\ retransmit_off >= Len(ring)
    /\ SetReplayOff(NoReplay)
    /\ UNCHANGED <<st, ringVars, copyVars, written, peer_recv>>

(* mux_unacked_track_partial on the replay copy: n of its frames went out   *)
(* completely, at least one did not.                                        *)
CopyPartial(n) ==
    /\ st = "up"
    /\ retransmit_copy
    /\ copy_sent + n < copy_count
    /\ copy_sent' = copy_sent + n
    /\ written' = Start(retransmit_off) + copy_sent + n
    /\ UNCHANGED <<st, ringVars, replayVars, retransmit_copy, copy_count, peer_recv>>

(* mux_unacked_track_sent on the replay copy: the whole entry is out.       *)
CopyRetire ==
    /\ st = "up"
    /\ retransmit_copy
    /\ retransmitted_frames' = retransmitted_frames + copy_count
    /\ retransmit_off' = retransmit_off + 1
    /\ retransmit_copy' = FALSE
    /\ copy_count' = 0
    /\ copy_sent' = 0
    /\ written' = ring[retransmit_off + 1]
    /\ UNCHANGED <<st, ringVars, peer_recv>>
-----------------------------------------------------------------------------
(* Defect: frames of the entry being replayed count as passed. *)
PassedAll(p, count) == count

(* Of `count' trimmed frames, popping p entries, those that belonged to     *)
(* entries the cursor had passed (retransmitted_trimmed).                   *)
Passed(p, count) ==
    IF p < retransmit_off THEN count ELSE Start(retransmit_off) - last_ack_recv

(* mux_unacked_ack_trim: `count' frames leave the front of the ring, which  *)
(* pops the p entries they exhaust; a cursor inside the popped part falls   *)
(* to the head, one past the end is disarmed, and frames trimmed from the   *)
(* entry being replayed are taken off the copy's counts as well.            *)
AckTrim(count) ==
    LET acked == last_ack_recv + count IN
    \E p \in 0 .. Len(ring) :
        /\ p > 0 => ring[p] <= acked
        /\ p < Len(ring) => ring[p + 1] > acked
        /\ LET left == acked - Start(p)   \* `remaining' when the loop stops
               partial == p < Len(ring) /\ left > 0
           IN
           /\ ring' = SubSeq(ring, p + 1, Len(ring))
           /\ frames' = frames - count
           /\ last_ack_recv' = acked
           /\ IF retransmit_off = NoReplay
              THEN UNCHANGED replayVars
              ELSE IF Len(ring) - p <= (IF retransmit_off >= p THEN retransmit_off - p ELSE 0)
              THEN SetReplayOff(NoReplay)
              ELSE IF retransmit_off >= p
              THEN /\ retransmit_off' = retransmit_off - p
                   /\ retransmitted_frames' = retransmitted_frames - Passed(p, count)
              ELSE SetReplayOff(0)
           /\ IF partial /\ retransmit_copy /\ p = retransmit_off
              THEN /\ copy_count' = copy_count - left
                   /\ copy_sent' = copy_sent - left
              ELSE UNCHANGED <<copy_count, copy_sent>>
           /\ UNCHANGED retransmit_copy

(* Defect: frames of a copy that is still in flight are not credited. *)
ReplayedWhole == retransmitted_frames

(* mux_unacked_ack_recv's bound during a replay: only what this transport   *)
(* has carried again may be acknowledged.                                   *)
Replayed == retransmitted_frames + (IF retransmit_copy THEN copy_sent ELSE 0)

AckRejected(count) ==
    \/ retransmit_off # NoReplay /\ count > Replayed
    \/ count > frames

(* dispatch_ctrl_frame on a session ACK of a conformant peer.               *)
AckRecv(count) ==
    /\ st = "up"
    /\ count <= peer_recv - last_ack_recv
    /\ IF AckRejected(count)
       THEN Reset
       ELSE /\ AckTrim(count)
            /\ UNCHANGED <<st, written, peer_recv>>

(* The peer's dispatch_frame counts one more frame of this transport.       *)
PeerRecv ==
    /\ st # "closed"
    /\ peer_recv < written
    /\ peer_recv' = peer_recv + 1
    /\ UNCHANGED <<st, ringVars, replayVars, copyVars, written>>
-----------------------------------------------------------------------------
(* session_capture_frame_list: queued, unsent frames join the ring.         *)
CaptureInto(r, e) ==
    /\ ring' = r \o e
    /\ frames' = frames + (IF e = <<>> THEN 0 ELSE e[Len(e)] - Total)

(* mux_session_suspend: capture what the sendbuf and oobbuf hold (the copy  *)
(* excepted) and arm the cursor at the head.                                *)
Suspend ==
    /\ st = "up"
    /\ st' = "down"
    /\ \E e \in Entries(Total) :
        /\ CaptureInto(ring, e)
        /\ SetReplayOff(IF ring \o e # <<>> THEN 0 ELSE NoReplay)
    /\ retransmit_copy' = FALSE
    /\ UNCHANGED <<last_ack_recv, copy_count, copy_sent, written, peer_recv>>

(* A resume attempt that is given up re-suspends; mux_session_attach_fd     *)
(* captures before dialing and leaves the cursor alone.                     *)
Capture(rearm) ==
    /\ st = "down"
    /\ \E e \in Entries(Total) :
        /\ CaptureInto(ring, e)
        /\ IF rearm THEN SetReplayOff(IF ring \o e # <<>> THEN 0 ELSE NoReplay)
                    ELSE UNCHANGED replayVars
    /\ UNCHANGED <<st, last_ack_recv, copyVars, written, peer_recv>>

(* mux_unacked_resume_ack_recv trims to the peer's resume_seq, the capture  *)
(* of session_resume_attach follows, and the handshake arms the cursor.  A  *)
(* server still "up" suspends first; the sum of both captures is e.         *)
ResumeRejected(seq) == seq < last_ack_recv \/ seq - last_ack_recv > frames

Attach ==
    /\ st # "closed"
    /\ IF ResumeRejected(peer_recv)
       THEN Reset
       ELSE \E e \in Entries(Total), p \in 0 .. Len(ring) :
            /\ p > 0 => ring[p] <= peer_recv
            /\ p < Len(ring) => ring[p + 1] > peer_recv
            /\ LET rest == SubSeq(ring, p + 1, Len(ring)) \o e IN
               /\ ring' = rest
               /\ SetReplayOff(IF rest # <<>> THEN 0 ELSE NoReplay)
            /\ frames' = frames - (peer_recv - last_ack_recv)
                         + (IF e = <<>> THEN 0 ELSE e[Len(e)] - Total)
            /\ st' = "up"
            /\ last_ack_recv' = peer_recv
            /\ written' = peer_recv
            /\ retransmit_copy' = FALSE
            /\ UNCHANGED <<copy_count, copy_sent, peer_recv>>

(* mux_session_notify_closed: the resume deadline or an orderly close.      *)
Close ==
    /\ st # "closed"
    /\ Reset

Next ==
    \/ \E n \in 1 .. MaxEntry : TrackSent(n)
    \/ QueueRetransmit
    \/ ReplayDrained
    \/ \E n \in 1 .. MaxFrames : CopyPartial(n)
    \/ CopyRetire
    \/ \E n \in 1 .. MaxFrames : AckRecv(n)
    \/ PeerRecv
    \/ Suspend
    \/ \E rearm \in BOOLEAN : Capture(rearm)
    \/ Attach
    \/ Close

Spec == Init /\ [][Next]_vars
-----------------------------------------------------------------------------
(* Types; the cursor is disarmed or a position of the ring or its end.      *)
TypeOK ==
    /\ st \in {"up", "down", "closed"}
    /\ ring \in Seq(Nat)
    /\ frames \in Nat
    /\ last_ack_recv \in Nat
    /\ retransmit_off \in Nat \cup {NoReplay}
    /\ retransmitted_frames \in Nat
    /\ retransmit_copy \in BOOLEAN
    /\ copy_count \in Nat
    /\ copy_sent \in Nat
    /\ written \in Nat
    /\ peer_recv \in Nat

(* The running counters agree with the ring they summarise, whatever        *)
(* mixture of partial writes, partial acknowledgements and suspensions led  *)
(* here: `frames' is the number of retained frames, retransmitted_frames is *)
(* the rescan of retransmitted_frames_verify (the debug assertion of        *)
(* mux_unacked_ack_recv), and the copy's counts describe the unacknowledged *)
(* part of the very entry the cursor points at.                             *)
CountersAgree ==
    /\ frames = Total - last_ack_recv
    /\ retransmit_off # NoReplay =>
        /\ retransmit_off <= Len(ring)
        /\ retransmitted_frames = Start(retransmit_off) - last_ack_recv
    /\ retransmit_copy =>
        /\ retransmit_off # NoReplay
        /\ retransmit_off < Len(ring)
        /\ copy_count = ring[retransmit_off + 1] - Start(retransmit_off)
        /\ copy_sent < copy_count

(* No acknowledgement or resume_seq a conformant peer can send trips a      *)
(* bound of mux_unacked_ack_recv, mux_unacked_ack_trim or                   *)
(* mux_unacked_resume_ack_recv: the session is never reset by its own       *)
(* bookkeeping, not even by an ACK that arrives in the middle of a replay.  *)
ConformantPeerAccepted ==
    /\ st = "up" => \A n \in 1 .. (peer_recv - last_ack_recv) : ~AckRejected(n)
    /\ st # "closed" => ~ResumeRejected(peer_recv)

(* Nothing the peer has not processed leaves the log: the ring always       *)
(* covers every frame after peer_recv that was ever written, so a resume    *)
(* can deliver it (spec 5.7.2).                                             *)
Retained ==
    st # "closed" =>
        /\ last_ack_recv <= peer_recv
        /\ peer_recv <= written
        /\ written <= Total

(* The next frame to be written, fresh or replayed, is always the one after *)
(* the last frame written on this transport: a replay neither repeats nor   *)
(* skips a frame, and nothing new overtakes it (spec 5.8.4).                *)
WireContiguous ==
    st = "up" =>
        written = IF retransmit_off = NoReplay THEN Total
                  ELSE Start(retransmit_off) + (IF retransmit_copy THEN copy_sent ELSE 0)
=============================================================================
