----------------------------- MODULE SessionLink -----------------------------
(***************************************************************************)
(* What a resumable session promises the stream layers at its two ends: a  *)
(* pair of lossless, duplicate-free FIFO pipes that outlive transports.    *)
(* Frames are named by their position in the pipe, so a faithful pipe      *)
(* delivers 1, 2, 3, ...  A session can be lost, at one end before the     *)
(* other notices, but only as a whole; frames never cross from one session *)
(* into the next.                                                          *)
(***************************************************************************)
EXTENDS Naturals, Sequences

VARIABLES
    sid,        \* the session each end is in, 0 for none
    queued,     \* frames its streams have queued in that session
    delivered   \* what it handed to its streams, in order

linkVars == <<sid, queued, delivered>>

LinkEnds == {"client", "server"}
Other(e) == IF e = "client" THEN "server" ELSE "client"

LinkInit ==
    /\ sid = [e \in LinkEnds |-> 1]
    /\ queued = [e \in LinkEnds |-> 0]
    /\ delivered = [e \in LinkEnds |-> <<>>]

(* The first n frames of a pipe *)
Frames(n) == [i \in 1 .. n |-> i]

(* Within a session an end only appends to what it queued and delivered.    *)
Extends(e) ==
    /\ queued'[e] >= queued[e]
    /\ Len(delivered'[e]) >= Len(delivered[e])

(* An end that changes session starts over with nothing queued.             *)
Restarts(e) == queued'[e] = 0

LinkNext ==
    \A e \in LinkEnds :
        /\ IF sid'[e] = sid[e] THEN Extends(e) ELSE Restarts(e)
        /\ delivered'[e] = Frames(Len(delivered'[e]))
        /\ sid'[e] = 0 => delivered'[e] = <<>>
        /\ sid'[e] = sid'[Other(e)] => Len(delivered'[e]) <= queued'[Other(e)]

LinkSpec == LinkInit /\ [][LinkNext]_linkVars
=============================================================================
