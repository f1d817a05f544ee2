----------------------------- MODULE UnackedLog -----------------------------
(***************************************************************************)
(* The session record and the resume log of src/mux/unacked.c over it.     *)
(*                                                                         *)
(* A session is a record and each C function an operator from session to   *)
(* session, so that an action of module Resume is the composition of the   *)
(* calls one event handler makes.  Unlike module Unacked, which gives the  *)
(* log in closed form, frames have an identity here, ring entries are the  *)
(* sequences of frames they hold, the loops are the loops of the code and  *)
(* serial numbers wrap.                                                    *)
(*                                                                         *)
(* Frames of streams are numbered as they are queued; "data" frames carry  *)
(* one unit of payload, "ctrl" frames (RST, SYN|ACK, grants) none.  Frame  *)
(* pool exhaustion is left out.                                            *)
(***************************************************************************)
EXTENDS Integers, Sequences, SequencesExt

CONSTANTS
    Window,     \* session_window, in data frames
    Serial      \* modulus of the serial counters

ASSUME LogAssumption ==
    /\ Window \in Nat \ {0}
    /\ Serial \in Nat \ {0}

NoReplay == -1
NoSid == 0
NoConn == 0

Ack(n) == [k |-> "ack", n |-> n]
Hello(sid, seq) == [k |-> "hello", sid |-> sid, seq |-> seq]
Frame(kind, sid, n) == [k |-> kind, sid |-> sid, n |-> n]

IsFrame(x) == x.k \in {"data", "ctrl"}
IsData(x) == x.k = "data"
Retainable(entry) == SelectSeq(entry, IsFrame)
Payload(entry) == Len(SelectSeq(entry, IsData))

(* Defect: a counter wider than the 32 bits on the wire. *)
SerialAddWide(a, n) == a + n

(* serial_add32 and serial_lt32 *)
SerialAdd(a, n) == (a + n) % Serial
SerialLt(a, b) == a # b /\ (b - a) % Serial < Serial \div 2

NewSession(accepted, st, sid, conn) ==
    [accepted |-> accepted, st |-> st, sid |-> sid, conn |-> conn,
     sendbuf |-> <<>>, staging |-> FALSE, oobbuf |-> <<>>, recvbuf |-> <<>>,
     tx_pending |-> FALSE, ready |-> 0,
     ring |-> <<>>, frames |-> 0, bytes |-> 0, stalled |-> FALSE,
     off |-> NoReplay, retransmitted |-> 0,
     copy |-> FALSE, copy_count |-> 0, copy_sent |-> 0,
     last_ack |-> 0, recv_seq |-> 0, unreported |-> 0,
     made |-> [data |-> 0, ctrl |-> 0], written |-> 0, got |-> <<>>,
     fault |-> "none"]
-----------------------------------------------------------------------------
(* The resume log: unacked.c. *)

SetReplayOff(s, off) == [s EXCEPT !.off = off, !.retransmitted = 0]

ArmReplay(s) == SetReplayOff(s, IF s.ring # <<>> THEN 0 ELSE NoReplay)

(* unacked_push *)
UnackedPush(s, entry) ==
    LET b == s.bytes + Payload(entry) IN
    [s EXCEPT !.ring = Append(@, entry),
              !.frames = @ + Len(entry),
              !.bytes = b,
              !.stalled = @ \/ b >= Window]

(* mux_unacked_track_sent on a record that is not the replay copy *)
TrackSent(s, entry) ==
    IF entry[1].k = "hello" \/ Retainable(entry) = <<>> THEN s
    ELSE UnackedPush(s, Retainable(entry))

(* mux_unacked_track_sent on the replay copy *)
RetireCopy(s) ==
    [s EXCEPT !.retransmitted = @ + s.copy_count, !.off = @ + 1,
              !.copy = FALSE, !.copy_count = 0, !.copy_sent = 0]

(* Defect: a partially flushed replay copy is not credited. *)
TrackPartialUncounted(s, n) ==
    LET head == s.sendbuf[1]
        done == SubSeq(head, 1, n)
        cut == [s EXCEPT !.sendbuf[1] = SubSeq(head, n + 1, Len(head))]
    IN IF head[1].k = "hello" \/ s.copy THEN cut ELSE TrackSent(cut, done)

(* mux_unacked_track_partial: the first n frames of the head are out *)
TrackPartial(s, n) ==
    LET head == s.sendbuf[1]
        done == SubSeq(head, 1, n)
        cut == [s EXCEPT !.sendbuf[1] = SubSeq(head, n + 1, Len(head))]
    IN IF head[1].k = "hello" \/ Retainable(done) = <<>> THEN cut
       ELSE IF s.copy THEN [cut EXCEPT !.copy_sent = @ + n]
       ELSE TrackSent(cut, done)

(* The loop of mux_unacked_ack_trim over the ring.  `re' counts what is     *)
(* trimmed from entries the cursor has already passed.                      *)
RECURSIVE TrimLoop(_, _, _, _, _)
TrimLoop(s, off0, remaining, popped, re) ==
    IF remaining = 0 THEN [s |-> s, popped |-> popped, re |-> re]
    ELSE IF s.ring = <<>>
    THEN [s |-> [s EXCEPT !.frames = @ + remaining, !.bytes = 0],
          popped |-> popped, re |-> re]
    ELSE LET f == Head(s.ring) IN
      IF Len(f) > remaining
      THEN LET trimmed == [s EXCEPT !.ring[1] = SubSeq(f, remaining + 1, Len(f)),
                                    !.bytes = @ - Payload(SubSeq(f, 1, remaining))]
           IN IF popped < off0
              THEN TrimLoop(trimmed, off0, 0, popped, re + remaining)
              ELSE IF popped = off0 /\ s.copy
              THEN TrimLoop([trimmed EXCEPT !.copy_count = @ - remaining,
                                            !.copy_sent = @ - remaining],
                            off0, 0, popped, re)
              ELSE TrimLoop(trimmed, off0, 0, popped, re)
      ELSE TrimLoop([s EXCEPT !.ring = Tail(@), !.bytes = @ - Payload(f)],
                    off0, remaining - Len(f), popped + 1,
                    IF popped < off0 THEN re + Len(f) ELSE re)

(* What follows the loop: the cursor moves with the popped entries and is   *)
(* disarmed at the end of the ring; the stall gate may open.                *)
MoveCursor(r) ==
    IF r.s.off = NoReplay THEN r.s
    ELSE IF r.s.off >= r.popped
    THEN [r.s EXCEPT !.off = @ - r.popped, !.retransmitted = @ - r.re]
    ELSE SetReplayOff(r.s, 0)

ClampCursor(s) ==
    IF s.off # NoReplay /\ s.off >= Len(s.ring) THEN SetReplayOff(s, NoReplay) ELSE s

OpenGate(s) == [s EXCEPT !.stalled = @ /\ s.bytes >= Window]

(* mux_unacked_ack_trim, for a count within `frames' *)
AckTrim(s, count) ==
    IF count = 0 THEN s
    ELSE OpenGate(ClampCursor(MoveCursor(TrimLoop(
        [s EXCEPT !.frames = @ - count, !.last_ack = SerialAdd(@, count)],
        IF s.off = NoReplay THEN 0 ELSE s.off, count, 0, 0))))

(* mux_unacked_ack_recv: what the session ACK makes of the log, or "fault"  *)
AckFault(s, count) ==
    IF s.off # NoReplay /\ count > s.retransmitted + (IF s.copy THEN s.copy_sent ELSE 0)
    THEN "replay_overflow"
    ELSE IF count > s.frames THEN "ack_overflow" ELSE "none"

(* mux_unacked_resume_ack_recv: trims one frame at a time up to peer_ack    *)
RECURSIVE ResumeTrim(_, _)
ResumeTrim(s, peer_ack) ==
    IF s.last_ack = peer_ack THEN ArmReplay(s)
    ELSE IF s.frames = 0 THEN [s EXCEPT !.fault = "resume_reject"]
    ELSE ResumeTrim(AckTrim(s, 1), peer_ack)

ResumeAckRecv(s, peer_ack) ==
    IF SerialLt(peer_ack, s.last_ack) THEN [s EXCEPT !.fault = "resume_reject"]
    ELSE ResumeTrim(s, peer_ack)

(* Defect: the stall gate stays latched over the emptied ring. *)
FreeAllLatched(s) ==
    [SetReplayOff(s, NoReplay) EXCEPT
        !.ring = <<>>, !.frames = 0, !.bytes = 0,
        !.copy = FALSE, !.copy_count = 0, !.copy_sent = 0]

(* mux_unacked_free_all *)
FreeAll(s) ==
    [SetReplayOff(s, NoReplay) EXCEPT
        !.ring = <<>>, !.frames = 0, !.bytes = 0, !.stalled = FALSE,
        !.copy = FALSE, !.copy_count = 0, !.copy_sent = 0]
=============================================================================
