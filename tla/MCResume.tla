----------------------------- MODULE MCResume ------------------------------
(* Model values for checking Resume with TLC. *)
EXTENDS Resume

Of(c, s) == [client |-> c, server |-> s]
None == Of(0, 0)
ClientOne == Of(1, 0)
ServerTwo == Of(0, 2)
EachOne == Of(1, 1)
TwoOne == Of(2, 1)
EachTwo == Of(2, 2)

(* Only one end sends, whichever it is. *)
OneSided ==
    \E e \in Ends : ss[e].ready + ss[e].made.data + ss[e].made.ctrl = 0
=============================================================================
