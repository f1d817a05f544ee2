----------------------------- MODULE Listeners -----------------------------
(* The listening sockets of the server and what a reload does to them       *)
(* (src/server.c): every socket whose address changes is released before    *)
(* any replacement is bound, the replacements are bound one after the       *)
(* other, and a reload that fails puts every released socket back.          *)
(*                                                                          *)
(* A configuration gives a listener an address string; Resolve gives the    *)
(* address the string stands for, or Unparsed.  A bind fails when the       *)
(* address is held by another socket of the server or by another process.   *)
EXTENDS Integers, Sequences, FiniteSets

CONSTANTS Peers, Resolve(_)

TopSet == {"listen", "mux_listen", "api_listen"}

ASSUME PeersAssumption == IsFiniteSet(Peers) /\ Peers \cap TopSet = {}

NoAddr == 0
Unparsed == 99

TopKeys == <<"listen", "mux_listen", "api_listen">>
LKeys == TopSet \cup Peers

(* Where a listener configured with `str' listens                           *)
AddrOf(str) == IF str = NoAddr THEN NoAddr ELSE Resolve(str)

(* The peers in the order the loops visit them                              *)
PeerSeq == CHOOSE q \in [1 .. Cardinality(Peers) -> Peers] :
               \A p \in Peers : \E i \in DOMAIN q : q[i] = p

(* A reload in progress: the live sockets, the sockets bound but not yet    *)
(* installed, the addresses released, the listeners whose new string        *)
(* resolves to the address already bound, and whether it still can succeed. *)
ReloadOf(bound) ==
    [bound |-> bound, prep |-> [k \in LKeys |-> NoAddr], rel |-> [k \in LKeys |-> NoAddr],
     kept |-> {}, ok |-> TRUE]

CanBind(r, a, taken) ==
    a # Unparsed /\ a \notin taken /\ \A k \in LKeys : a \notin {r.bound[k], r.prep[k]}

(* server_release_listener                                                  *)
ReleaseListener(r, k, old, new) ==
    IF ~r.ok \/ old[k] = new[k] THEN r
    ELSE IF new[k] # NoAddr /\ Resolve(new[k]) = Unparsed THEN [r EXCEPT !.ok = FALSE]
    ELSE IF r.bound[k] = NoAddr THEN r
    ELSE IF new[k] # NoAddr /\ Resolve(new[k]) = r.bound[k]
    THEN [r EXCEPT !.kept = @ \cup {k}]
    ELSE [r EXCEPT !.rel[k] = r.bound[k], !.bound[k] = NoAddr]

(* identity_listener_released, and the listener_stop that follows it, for   *)
(* every peer                                                               *)
Released(p, old, new) == p \in Peers /\ old[p] # NoAddr /\ old[p] # new[p]
ReleaseIdentities(r, old, new) ==
    IF ~r.ok THEN r
    ELSE [r EXCEPT !.rel = [k \in LKeys |-> IF Released(k, old, new) THEN r.bound[k] ELSE r.rel[k]],
                   !.bound = [k \in LKeys |-> IF Released(k, old, new) THEN NoAddr ELSE r.bound[k]]]

(* server_prepare_listener                                                  *)
PrepareListener(r, k, old, new, taken) ==
    IF ~r.ok \/ old[k] = new[k] \/ new[k] = NoAddr \/ k \in r.kept THEN r
    ELSE IF CanBind(r, Resolve(new[k]), taken)
    THEN [r EXCEPT !.prep[k] = Resolve(new[k])]
    ELSE [r EXCEPT !.ok = FALSE]

(* One socket is bound: identity_listener_start in the second loop of       *)
(* server_reload_identities, and the binds of server_start_listeners.       *)
StartListener(r, k, old, new, taken) ==
    IF ~r.ok \/ new[k] = NoAddr \/ old[k] = new[k] THEN r
    ELSE IF CanBind(r, Resolve(new[k]), taken)
    THEN [r EXCEPT !.bound[k] = Resolve(new[k])]
    ELSE [r EXCEPT !.ok = FALSE]

(* The binds in the order of `keys': the reload after each of them          *)
StartRun(r, keys, old, new, taken) ==
    LET run[i \in 0 .. Len(keys)] ==
            IF i = 0 THEN r ELSE StartListener(run[i - 1], keys[i], old, new, taken)
    IN run
StartEach(r, keys, old, new, taken) == StartRun(r, keys, old, new, taken)[Len(keys)]

(* server_reload_identities_abort                                           *)
AbortIdentities(r, old, new) ==
    [r EXCEPT !.bound = [k \in LKeys |-> IF k \in Peers /\ old[k] # new[k] THEN NoAddr
                                         ELSE r.bound[k]]]

(* server_restore_listener                                                  *)
RestoreListener(r, k, taken) ==
    IF r.rel[k] # NoAddr /\ CanBind(r, r.rel[k], taken)
    THEN [r EXCEPT !.bound[k] = r.rel[k]] ELSE r

(* The released sockets are put back in the order of `keys'.                *)
RestoreRun(r, keys, taken) ==
    LET run[i \in 0 .. Len(keys)] ==
            IF i = 0 THEN r ELSE RestoreListener(run[i - 1], keys[i], taken)
    IN run
RestoreEach(r, taken) ==
    RestoreRun(r, TopKeys \o PeerSeq, taken)[Len(TopKeys \o PeerSeq)]

(* server_listener_reload_abort                                             *)
(* Defect: the released sockets are put back before the replacements close. *)
ListenerReloadAbortEarly(r, taken) ==
    [RestoreEach(r, taken) EXCEPT !.prep = [k \in LKeys |-> NoAddr]]
ListenerReloadAbort(r, taken) ==
    RestoreEach([r EXCEPT !.prep = [k \in LKeys |-> NoAddr]], taken)

(* server_commit_listener for each of the three, with server_reload_listeners *)
CommitListeners(r, old, new) ==
    [r EXCEPT !.bound = [k \in LKeys |-> IF k \in Peers \/ old[k] = new[k] \/ k \in r.kept
                                         THEN r.bound[k] ELSE r.prep[k]],
              !.prep = [k \in LKeys |-> NoAddr]]

(* server_prepare_listeners: every socket that must go is released first    *)
ReleaseTop(r, old, new) ==
    ReleaseListener(ReleaseListener(ReleaseListener(r, "listen", old, new),
                                    "mux_listen", old, new), "api_listen", old, new)
PrepareTop(r, old, new, taken) ==
    PrepareListener(PrepareListener(PrepareListener(r, "listen", old, new, taken),
                                    "mux_listen", old, new, taken), "api_listen", old, new, taken)
PrepareListeners(bound, old, new, taken) ==
    PrepareTop(ReleaseIdentities(ReleaseTop(ReloadOf(bound), old, new), old, new), old, new, taken)

(* server_reload_identities, the part that touches sockets                  *)
AbortIfFailed(r, old, new) == IF r.ok THEN r ELSE AbortIdentities(r, old, new)
ReloadIdentities(r, old, new, taken) ==
    IF ~r.ok THEN r
    ELSE AbortIfFailed(StartEach(r, PeerSeq, old, new, taken), old, new)

(* What server_apply_config makes of the sockets: `ok' says whether the     *)
(* reload goes on.                                                          *)
FinishListeners(r, old, new, taken) ==
    IF r.ok THEN CommitListeners(r, old, new)
    ELSE ListenerReloadAbort(r, taken)
ApplyListeners(bound, old, new, taken) ==
    FinishListeners(ReloadIdentities(PrepareListeners(bound, old, new, taken),
                                     old, new, taken),
                    old, new, taken)

(* listener_stop for every listener                                         *)
StopListeners == [k \in LKeys |-> NoAddr]

(* server_start_listeners and server_start_identity_listeners               *)
StartListeners(r, keys, new, taken) == StartEach(r, keys, StopListeners, new, taken)
=============================================================================
