----------------------------- MODULE ByteStream -----------------------------
(***************************************************************************)
(* What a stream promises the two applications it joins: in each direction *)
(* a reliable sequence of bytes with an end, or a reset.  A byte stream is *)
(* counted, not spelled out: the frames of a session never overtake one    *)
(* another, so the n-th byte read is the n-th byte written.                *)
(***************************************************************************)
EXTENDS Naturals

CONSTANTS
    Streams,        \* the streams' names
    Sides           \* the two ends

VARIABLES
    wrote,          \* [Streams -> [Sides -> bytes the application handed over]]
    read,           \* bytes the application of this side received
    ended,          \* whether it has said that it writes no more
    eof,            \* whether it was told that its peer writes no more
    reset           \* whether it was told that the stream is broken

chans == <<wrote, read, ended, eof, reset>>

Init ==
    /\ wrote = [i \in Streams |-> [p \in Sides |-> 0]] /\ read = wrote
    /\ ended = [i \in Streams |-> [p \in Sides |-> FALSE]] /\ eof = ended /\ reset = ended

(* The application of side p hands over bytes, or ends its direction.       *)
Writes(i, p) ==
    /\ wrote'[i][p] >= wrote[i][p]
    /\ ended[i][p] => wrote'[i][p] = wrote[i][p]
    /\ ended[i][p] => ended'[i][p]

(* The application of side p receives bytes that the other side wrote.      *)
Reads(i, p, o) ==
    /\ read[i][p] <= read'[i][p] /\ read'[i][p] <= wrote'[i][o]
    /\ eof[i][p] \/ reset[i][p] => read'[i][p] = read[i][p]

(* It is told of the end only behind the last byte, and never after a reset.*)
Ends(i, p, o) ==
    IF eof[i][p] THEN eof'[i][p]
    ELSE eof'[i][p] => ~reset[i][p] /\ ended'[i][o] /\ read'[i][p] = wrote'[i][o]

Resets(i, p) == reset[i][p] => reset'[i][p]

Next ==
    \A i \in Streams, p \in Sides :
        /\ Writes(i, p) /\ Resets(i, p)
        /\ \A o \in Sides \ {p} : Reads(i, p, o) /\ Ends(i, p, o)

Spec == Init /\ [][Next]_chans
=============================================================================
