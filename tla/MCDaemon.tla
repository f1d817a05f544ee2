------------------------------ MODULE MCDaemon ------------------------------
EXTENDS Daemon

(* Address strings: s and s + 10 stand for the same address, 9 for none.    *)
MCResolve(s) == IF s = 9 THEN Unparsed ELSE s % 10

Base == [mux |-> 0, ids |-> <<>>, peers |-> {}, limit |-> 0, idle |-> FALSE, psk |-> FALSE,
         udp |-> FALSE, lst |-> [k \in LKeys |-> NoAddr]]
Dialing == [Base EXCEPT !.mux = 1, !.lst["listen"] = 1]
Demand == [Dialing EXCEPT !.idle = TRUE]
Serving == [Base EXCEPT !.lst["mux_listen"] = 2, !.lst["listen"] = 1]
Pooling == [Serving EXCEPT !.peers = {"alpha", "beta"}, !.lst["alpha"] = 3, !.udp = TRUE]
Slots == [Base EXCEPT !.ids = <<1, 2>>, !.peers = {"alpha"}]

MCConfs == <<
    Dialing, Demand, Serving, Pooling,                                          \* 1-4
    [Dialing EXCEPT !.mux = 2], [Dialing EXCEPT !.mux = 0],                     \* 5-6
    [Demand EXCEPT !.mux = 0], [Serving EXCEPT !.limit = 1],                    \* 7-8
    [Slots EXCEPT !.limit = 1], Slots, [Slots EXCEPT !.ids = <<1>>],            \* 9-11
    [Slots EXCEPT !.ids = <<1, 3>>, !.peers = {}],                              \* 12
    [Dialing EXCEPT !.psk = TRUE],                                              \* 13
    [Serving EXCEPT !.psk = TRUE],                                              \* 14
    [Pooling EXCEPT !.peers = {"beta"}, !.lst["alpha"] = 0],                    \* 15
    [Pooling EXCEPT !.lst["alpha"] = 1, !.lst["listen"] = 3],                   \* 16
    [Pooling EXCEPT !.lst["listen"] = 11, !.lst["mux_listen"] = 4, !.lst["beta"] = 2], \* 17
    [Pooling EXCEPT !.lst["listen"] = 5, !.lst["beta"] = 6],                    \* 18
    [Pooling EXCEPT !.lst["mux_listen"] = 1, !.lst["listen"] = 2, !.lst["alpha"] = 9], \* 19
    [Pooling EXCEPT !.lst["listen"] = 3, !.lst["alpha"] = 4, !.lst["beta"] = 6], \* 20
    [Slots EXCEPT !.peers = {"alpha", "beta"}], [Slots EXCEPT !.peers = {"beta"}] \* 21-22
    >>

Quiet == [conf |-> 1, reloads |-> <<>>, claims |-> {"none"}, moves |-> FALSE, taken |-> {},
          nodial |-> 0, lose |-> 0, end |-> 0, idle |-> 0, resume |-> 0, accept |-> 0,
          nothread |-> 0, open |-> 0, dgram |-> 0, drop |-> 0, term |-> 0, nomem |-> 0]

Redial == {[Quiet EXCEPT !.nodial = 1, !.lose = 1, !.end = 1, !.open = 1, !.term = 1]}
OnDemand == {[Quiet EXCEPT !.conf = 2, !.nodial = 1, !.idle = 1, !.lose = 1, !.open = 2, !.drop = 1]}
Accepting == {[Quiet EXCEPT !.conf = 3, !.accept = 2, !.resume = 1, !.lose = 1, !.term = 1],
              [Quiet EXCEPT !.conf = 8, !.accept = 3, !.resume = 1, !.end = 1],
              [Quiet EXCEPT !.conf = 3, !.accept = 2, !.resume = 1, !.drop = 2],
              [Quiet EXCEPT !.conf = 3, !.accept = 1, !.reloads = <<4>>, !.open = 1, !.term = 1]}
Pooled == {[Quiet EXCEPT !.conf = 4, !.accept = 2, !.claims = {"alpha"}, !.dgram = 2,
                         !.end = 1, !.nomem = 1],
           [Quiet EXCEPT !.conf = 4, !.accept = 2, !.claims = {"alpha"}, !.end = 1,
                         !.term = 1, !.nomem = 1],
           [Quiet EXCEPT !.conf = 4, !.accept = 1, !.claims = {"alpha", "beta"}, !.moves = TRUE,
                         !.open = 1, !.lose = 1, !.resume = 1]}
Discard == {[Quiet EXCEPT !.conf = 4, !.accept = 2, !.claims = {"alpha"}, !.end = 1,
                          !.reloads = <<15>>, !.nomem = 1],
            [Quiet EXCEPT !.conf = 21, !.claims = {"alpha"}, !.reloads = <<12>>, !.lose = 1],
            [Quiet EXCEPT !.conf = 21, !.claims = {"alpha", "beta"}, !.reloads = <<22>>,
                          !.nomem = 1]}
Keys == {[Quiet EXCEPT !.conf = 13, !.reloads = <<13, 13>>, !.nomem = 1],
         [Quiet EXCEPT !.conf = 14, !.accept = 1, !.reloads = <<14, 3>>, !.end = 1]}
Repoint == {[Quiet EXCEPT !.reloads = <<5, 6>>, !.nodial = 1, !.lose = 1, !.open = 1],
            [Quiet EXCEPT !.reloads = <<6, 1>>, !.lose = 1, !.end = 1],
            [Quiet EXCEPT !.conf = 2, !.reloads = <<7>>, !.idle = 1, !.open = 1, !.lose = 1],
            [Quiet EXCEPT !.conf = 2, !.reloads = <<7, 2>>, !.idle = 1, !.nodial = 1]}
Capacity == {[Quiet EXCEPT !.conf = 9, !.reloads = <<10, 9>>, !.nothread = 1],
             [Quiet EXCEPT !.conf = 10, !.reloads = <<11, 10>>, !.claims = {"alpha"}, !.end = 1],
             [Quiet EXCEPT !.conf = 10, !.reloads = <<11>>, !.claims = {"alpha"}, !.lose = 1],
             [Quiet EXCEPT !.conf = 3, !.reloads = <<8>>, !.accept = 2, !.open = 1]}
Rebind == {[Quiet EXCEPT !.conf = 4, !.reloads = r, !.taken = k, !.term = 1] :
                r \in {<<c, d>> : c \in 15 .. 20, d \in {4, 17, 18}}, k \in {{}, {6}, {4}}}

(* Two reloads that leave something behind (not part of the run): a tunnel  *)
(* whose new identity is still queued when its old peer is removed, and an  *)
(* idle on-demand tunnel that is told to stay connected.                    *)
ClaimMoves == {[Quiet EXCEPT !.conf = 21, !.claims = {"alpha", "beta"}, !.moves = TRUE,
                             !.reloads = <<22>>, !.lose = 1]}
IdleOff == {[Quiet EXCEPT !.conf = 2, !.reloads = <<1>>, !.idle = 1]}

MCScenarios == Redial \cup OnDemand \cup Accepting \cup Pooled \cup Discard \cup Keys
               \cup Repoint \cup Capacity \cup Rebind
=============================================================================
