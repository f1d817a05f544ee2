----------------------------- MODULE TlsContext -----------------------------
(***************************************************************************)
(* TLS contexts and their connections in the two backends,                 *)
(* src/src/shim/tls_openssl.c and tls_mbedtls.c: how a context is built    *)
(* (and undone when a step of the construction fails), shared, and         *)
(* released; how a connection keeps the shared part alive after its owner  *)
(* has freed the context; the hold a server context takes on the resolver  *)
(* of pre-shared keys; which suites and certificates are accepted.         *)
(*                                                                         *)
(* A context is its shared part (the SSL_CTX, or the whole struct on       *)
(* mbedTLS) and the number of its owners' handles.  A pre-shared key is    *)
(* named by its label.  The TLS libraries are modelled as far as the       *)
(* backends rely on them.                                                  *)
(***************************************************************************)
EXTENDS Integers, Sequences, SequencesExt

CONSTANTS
    Confs,      \* configurations: [psk, alpn, sni, list, key]
    Peers,      \* peers: [id, psk, key, list, lib, chain]
    Keys        \* the keys the resolver knows
VARIABLE tls

Libs == {"openssl", "mbedtls"}
Roles == {"server", "client"}
NoList == <<"default">>
Refused == <<"refused">>

-----------------------------------------------------------------------------
(* Suites.  "own" is a name only mbedTLS spells that way, "old" a TLS 1.2  *)
(* suite, "typo" no suite at all.                                          *)
IsTls13(s) == s \in {"aes128", "aes256", "chacha"}
Sha256(s) == s \in {"aes128", "chacha"}
DefaultSuites == <<"aes256", "chacha", "old", "aes128">>
Resolves(lib, s) == s # "typo" /\ (s = "own" => lib = "mbedtls")
(* SSL_CTX_set_ciphersuites skips the names it does not know.              *)
SetCiphersuites(list) == SelectSeq(list, LAMBDA s : Resolves("openssl", s))

OpensslSuites(list) ==
    IF (list # <<>> /\ SetCiphersuites(list) = <<>>) \/ list = <<>>
       \/ \E s \in Range(list) : ~(s \in Range(SetCiphersuites(list)) /\ IsTls13(s))
    THEN Refused ELSE SetCiphersuites(list)

MbedtlsSuites(list) ==
    IF list = <<>> \/ \E s \in Range(list) : ~Resolves("mbedtls", s) \/ ~(IsTls13(s) \/ s = "own")
    THEN Refused ELSE [i \in DOMAIN list |-> IF list[i] = "own" THEN "aes256" ELSE list[i]]

ApplyCiphersuites(lib, list) ==
    IF list = NoList THEN DefaultSuites
    ELSE IF lib = "openssl" THEN OpensslSuites(list) ELSE MbedtlsSuites(list)

(* Defect: the list keeps the suites of another hash.                      *)
PskRestrictNot(suites) ==
    IF SelectSeq(suites, LAMBDA s : IsTls13(s) /\ Sha256(s)) = <<>> THEN Refused ELSE suites

PskRestrict(suites) ==
    IF SelectSeq(suites, LAMBDA s : IsTls13(s) /\ Sha256(s)) = <<>> THEN Refused
    ELSE SelectSeq(suites, LAMBDA s : IsTls13(s) /\ Sha256(s))

Narrowed(psk, suites) == IF psk /\ suites # Refused THEN PskRestrict(suites) ELSE suites
Suites(lib, conf) == Narrowed(conf.psk, ApplyCiphersuites(lib, conf.list))

-----------------------------------------------------------------------------
(* Certificates: a chain is a sequence of [md, key, ss] from the leaf up;  *)
(* md and key say whether digest and key are above the floor, ss whether   *)
(* the certificate is self-signed.                                         *)

(* Defect: the trust anchor's own signature is held to the floor as well.  *)
VerifyCertStrengthRoot(chain) == \A d \in DOMAIN chain : chain[d].md /\ chain[d].key

VerifyCertStrength(chain) ==
    \A d \in DOMAIN chain : (chain[d].md \/ (d > 1 /\ chain[d].ss)) /\ chain[d].key

(* mbedtls_x509_crt_profile_default: stops at a trusted root before its    *)
(* digest is looked at.                                                    *)
ProfileDefault(chain) ==
    /\ \A d \in DOMAIN chain : chain[d].key
    /\ \A d \in DOMAIN chain : chain[d].md \/ (d = Len(chain) /\ d > 1 /\ chain[d].ss)

Verified(lib, chain) == IF lib = "openssl" THEN VerifyCertStrength(chain) ELSE ProfileDefault(chain)

-----------------------------------------------------------------------------
(* The resolver of keys: freed with its last hold.                         *)
Hold(s) == [s EXCEPT !.bad = @ \/ s.holds = 0, !.holds = @ + 1]
Release(s) == [s EXCEPT !.bad = @ \/ s.holds = 0, !.holds = @ - 1]

(* Defect: the hold goes with the owner's handle, not the shared part.     *)
UnrefEarly(s, c) ==
    IF s.ctxs[c].held THEN Release([s EXCEPT !.ctxs[c].refs = @ - 1, !.ctxs[c].held = FALSE])
    ELSE [s EXCEPT !.ctxs[c].refs = @ - 1]

(* SSL_CTX_free / tls_ctx_impl_unref: the last reference gives back the    *)
(* hold (psk_conf_ex_free, tls_ctx_impl_free).                             *)
Unref(s, c) ==
    IF s.ctxs[c].refs = 1 /\ s.ctxs[c].held THEN Release([s EXCEPT !.ctxs[c].refs = 0, !.ctxs[c].held = FALSE])
    ELSE [s EXCEPT !.ctxs[c].refs = @ - 1]

(* The steps that can fail, in order.  On OpenSSL the resolver is held     *)
(* inside tls_ctx_set_psk, late, and hung on the SSL_CTX one step after;   *)
(* on mbedTLS it is held early and belongs to the struct at once.          *)
PskSteps(role, lib) ==
    IF lib = "openssl"
    THEN (IF role = "server" THEN <<"restrict", "alloc", "hold", "exdata">> ELSE <<"restrict", "alloc", "label", "exdata">>)
    ELSE IF role = "server" THEN <<"hold">> ELSE <<"label">>
Steps(lib, role, conf) ==
    IF lib = "openssl"
    THEN <<"new", "wrapper", "version">> \o (IF conf.psk THEN <<>> ELSE <<"cert", "key", "pair", "auth">>)
         \o <<"suites">> \o (IF conf.psk THEN PskSteps(role, lib) ELSE <<>>)
         \o (IF conf.alpn THEN <<"alpn">> ELSE <<>>) \o (IF role = "client" /\ conf.sni THEN <<"sni">> ELSE <<>>)
    ELSE <<"new", "psa", "defaults">> \o (IF conf.psk THEN PskSteps(role, lib) ELSE <<"cert", "key", "pair", "auth">>)
         \o <<"suites">> \o (IF conf.psk THEN <<"restrict">> ELSE <<>>)
         \o (IF conf.alpn THEN <<"alpn">> ELSE <<>>) \o (IF role = "client" /\ conf.sni THEN <<"sni">> ELSE <<>>)

Before(steps, step, i) == \E j \in 1..(i - 1) : steps[j] = step
(* The hold is taken before the step that fails, and who gives it back:    *)
(* psk_conf_free until the psk_conf is hung on the context, then the       *)
(* context's own release.                                                  *)
PskConfFreed(s, steps, i) ==
    IF Before(steps, "hold", i) THEN Release(s) ELSE s

(* Defect: a failed SSL_CTX_set_ex_data is followed by both releases.      *)
UndoTwice(s, lib, steps, i) ==
    IF Before(steps, "hold", i) /\ (lib = "mbedtls" \/ Before(steps, "exdata", i))
    THEN Release(s) ELSE PskConfFreed(PskConfFreed(s, steps, i), steps, i)

Undo(s, lib, steps, i) ==
    IF Before(steps, "hold", i) /\ (lib = "mbedtls" \/ Before(steps, "exdata", i))
    THEN Release(s) ELSE PskConfFreed(s, steps, i)

(* Where the construction must fail whatever the library does.             *)
Doomed(lib, conf, step) ==
    \/ step = "suites" /\ ApplyCiphersuites(lib, conf.list) = Refused
    \/ step = "restrict" /\ Narrowed(TRUE, ApplyCiphersuites(lib, conf.list)) = Refused

Built(s, role, conf) ==
    [s EXCEPT !.ctxs = Append(@, [refs |-> 1, owners |-> 1, role |-> role, conf |-> conf,
                                  suites |-> Suites(s.lib, conf), held |-> conf.psk /\ role = "server"])]
Held(s, steps, i) == IF Before(steps, "hold", i) THEN Hold(s) ELSE s

(* tls_ctx_server, tls_ctx_client; i is the step that fails.  The owner    *)
(* publishes the resolver, so it still has its own hold here.              *)
CtxNew(role, conf, i) ==
    LET steps == Steps(tls.lib, role, conf)
    IN  /\ Len(tls.ctxs) < tls.left.ctx /\ tls.pub
        /\ i \in 1..(Len(steps) + 1)
        /\ \A j \in 1..(i - 1) : ~Doomed(tls.lib, conf, steps[j])
        /\ tls' = IF i = Len(steps) + 1 THEN Built(Held(tls, steps, i), role, conf)
                  ELSE Undo(Held(tls, steps, i), tls.lib, steps, i)

(* tls_ctx_ref; on OpenSSL the copied server name can fail.                *)
CtxRef(c, fails) ==
    /\ tls.ctxs[c].owners > 0 /\ tls.left.ref > 0
    /\ fails => tls.lib = "openssl"
    /\ ~(tls.lib = "openssl" /\ tls.ctxs[c].role = "server" /\ tls.ctxs[c].conf.alpn)
    /\ tls' = [(IF fails THEN Unref([tls EXCEPT !.ctxs[c].refs = @ + 1], c)
                ELSE [tls EXCEPT !.ctxs[c].refs = @ + 1, !.ctxs[c].owners = @ + 1]) EXCEPT !.left.ref = @ - 1]

(* tls_ctx_free.                                                           *)
CtxFree(c) ==
    /\ tls.ctxs[c].owners > 0
    /\ tls' = Unref([tls EXCEPT !.ctxs[c].owners = @ - 1], c)

-----------------------------------------------------------------------------
(* Connections.                                                            *)
Touch(s, c) == [s EXCEPT !.bad = @ \/ s.ctxs[c].refs <= 0]
NewConn(s, c) ==
    [s EXCEPT !.conns = Append(@, [ctx |-> c, live |-> TRUE, st |-> "new", by |-> "none", peer |-> 0,
                                   label |-> IF s.lib = "mbedtls" /\ s.ctxs[c].role = "client" /\ s.ctxs[c].conf.psk
                                             THEN s.ctxs[c].conf.key ELSE 0])]

(* Defect: a connection takes no reference of its own.                     *)
ConnNewBorrows(c, fails) ==
    /\ tls.ctxs[c].owners > 0 /\ Len(tls.conns) < tls.left.conn
    /\ tls' = IF fails THEN tls ELSE NewConn(tls, c)

(* tls_server, tls_client; a step after SSL_new / mbedtls_ssl_setup fails. *)
ConnNew(c, fails) ==
    /\ tls.ctxs[c].owners > 0 /\ Len(tls.conns) < tls.left.conn
    /\ tls' = IF fails THEN Unref([tls EXCEPT !.ctxs[c].refs = @ + 1], c)
              ELSE NewConn([tls EXCEPT !.ctxs[c].refs = @ + 1], c)

ConnFree(k) ==
    /\ tls.conns[k].live
    /\ tls' = Unref([tls EXCEPT !.conns[k].live = FALSE], tls.conns[k].ctx)

(* psk_find_session_cb / psk_lookup_cb: the shared part and the resolver   *)
(* are read, and the label recorded when it resolves.                      *)
FindSession(s, k, p) ==
    IF ~p.psk THEN s
    ELSE [Touch(s, s.conns[k].ctx) EXCEPT !.bad = @ \/ s.holds <= 0,
                                          !.conns[k].label = IF p.key \in Keys THEN p.key ELSE @]
(* psk_use_session_cb, mbedtls_ssl_conf_psk: the one configured key.       *)
UseSession(s, k) == [Touch(s, s.conns[k].ctx) EXCEPT !.conns[k].label = s.ctxs[s.conns[k].ctx].conf.key]

Common(x, p) == Range(x.suites) \cap Range(Suites(p.lib, p))
(* A server that has the offered key selects it if the suite's hash is the *)
(* one the key is bound to.                                                *)
PskSelected(x, p, suite) ==
    x.conf.psk /\ p.psk /\ Sha256(suite) /\ (IF x.role = "server" THEN p.key \in Keys ELSE p.key = x.conf.key)
(* Otherwise certificates: a side without one, or which accepts none       *)
(* (tls_verify_reject_cert_cb; psk_ephemeral only on mbedTLS), fails.      *)

(* Defect: a client with a key accepts the certificate of a server that    *)
(* ignored it.                                                             *)
CertSelectedFallback(lib, x, p) ==
    ~p.psk /\ (x.conf.psk => x.role = "client") /\ Verified(lib, p.chain)

CertSelected(lib, x, p) == ~x.conf.psk /\ ~p.psk /\ Verified(lib, p.chain)

Outcome(lib, x, p, suite) ==
    IF PskSelected(x, p, suite) THEN "psk" ELSE IF CertSelected(lib, x, p) THEN "cert" ELSE "none"

(* tls_handshake as far as the callbacks; the other side has not proved    *)
(* anything yet.                                                           *)
Hello(k, p) ==
    /\ tls.conns[k].live /\ tls.conns[k].st = "new"
    /\ LET x == tls.ctxs[tls.conns[k].ctx]
           s == Touch(tls, tls.conns[k].ctx)
       IN  tls' = [(IF ~x.conf.psk THEN s ELSE IF x.role = "server" THEN FindSession(s, k, p) ELSE UseSession(s, k))
                   EXCEPT !.conns[k].st = "hello", !.conns[k].peer = p.id]

(* The rest of it: the binder or the certificates are checked, and the     *)
(* library may still fail for reasons of its own.                          *)
Peer(k) == CHOOSE p \in Peers : p.id = tls.conns[k].peer
Finish(k, suite) ==
    /\ tls.conns[k].live /\ tls.conns[k].st = "hello"
    /\ LET x == tls.ctxs[tls.conns[k].ctx]
           by == Outcome(tls.lib, x, Peer(k), suite)
       IN  /\ suite \in Common(x, Peer(k))
           /\ tls' = [tls EXCEPT !.conns[k].by = by, !.conns[k].st = IF by = "none" THEN "failed" ELSE "done",
                                 !.refusals = IF by = "none" THEN @ \cup {<<tls.conns[k].ctx, Peer(k).id>>} ELSE @]
Abort(k) ==
    /\ tls.conns[k].live /\ tls.conns[k].st = "hello"
    /\ tls' = [tls EXCEPT !.conns[k].st = "failed"]

(* Defect: the label is reported as soon as it is known.                   *)
PeerPskLabelEarly(k) == tls.conns[k].label

(* tls_peer_psk_label: 0 is "none".                                        *)
PeerPskLabel(k) == IF tls.conns[k].st = "done" /\ tls.conns[k].by = "psk" THEN tls.conns[k].label ELSE 0

(* The owner of the resolver publishes another and gives up its hold.      *)
Unpublish == tls.pub /\ tls' = Release([tls EXCEPT !.pub = FALSE])

Init(Left) ==
    \E lib \in Libs : tls = [lib |-> lib, ctxs |-> <<>>, conns |-> <<>>, holds |-> 1, pub |-> TRUE, bad |-> FALSE,
                             refusals |-> {}, left |-> Left]

Next ==
    \/ \E role \in Roles, conf \in Confs : \E i \in 1..12 : CtxNew(role, conf, i)
    \/ \E c \in DOMAIN tls.ctxs, fails \in BOOLEAN : CtxRef(c, fails)
    \/ \E c \in DOMAIN tls.ctxs : CtxFree(c)
    \/ \E c \in DOMAIN tls.ctxs, fails \in BOOLEAN : ConnNew(c, fails)
    \/ \E k \in DOMAIN tls.conns : ConnFree(k)
    \/ \E k \in DOMAIN tls.conns, p \in Peers : Hello(k, p)
    \/ \E k \in DOMAIN tls.conns, suite \in {"aes128", "aes256", "chacha"} : Finish(k, suite)
    \/ \E k \in DOMAIN tls.conns : Abort(k)
    \/ Unpublish

-----------------------------------------------------------------------------
Live(c) == {k \in DOMAIN tls.conns : tls.conns[k].live /\ tls.conns[k].ctx = c}

(* No callback ever runs on a freed context or a freed resolver, and every *)
(* hold and reference is given back exactly once on every failure path: a  *)
(* context is alive exactly as long as it has an owner or a connection,    *)
(* the resolver as long as it is published or a live context may use it.   *)
HoldsBalanced ==
    /\ ~tls.bad
    /\ \A c \in DOMAIN tls.ctxs : tls.ctxs[c].refs = tls.ctxs[c].owners + Cardinality(Live(c))
    /\ tls.holds = (IF tls.pub THEN 1 ELSE 0)
                   + Cardinality({c \in DOMAIN tls.ctxs : tls.ctxs[c].held /\ tls.ctxs[c].refs > 0})

(* A finished handshake authenticated the peer: by the key both sides have *)
(* or by a chain above the floor, never by falling back from one to the    *)
(* other; and a label is only reported for the key that was proved.        *)
PeerProved ==
    \A k \in DOMAIN tls.conns :
        LET x == tls.ctxs[tls.conns[k].ctx]
        IN  /\ tls.conns[k].st = "done" =>
                   IF x.conf.psk
                   THEN Peer(k).psk /\ Peer(k).key \in Keys /\ (x.role = "client" => Peer(k).key = x.conf.key)
                   ELSE ~Peer(k).psk /\ ProfileDefault(Peer(k).chain)
            /\ PeerPskLabel(k) # 0 => tls.conns[k].st = "done" /\ PeerPskLabel(k) = Peer(k).key

(* The two backends interoperate: they build the same contexts from the    *)
(* same portable configuration, and no handshake is refused between sides  *)
(* that hold the same key or good certificates, whichever suite they agree *)
(* on.                                                                     *)
BackendsAgree ==
    /\ \A c \in DOMAIN tls.ctxs :
           LET list == tls.ctxs[c].conf.list
           IN  "own" \notin Range(list) => \A lib \in Libs : Suites(lib, tls.ctxs[c].conf) = tls.ctxs[c].suites
    /\ \A r \in tls.refusals :
           LET x == tls.ctxs[r[1]]
               p == CHOOSE q \in Peers : q.id = r[2]
           IN  ~(x.conf.psk /\ p.psk /\ p.key \in Keys /\ (x.role = "client" => p.key = x.conf.key))
               /\ ~(~x.conf.psk /\ ~p.psk /\ ProfileDefault(p.chain))
=============================================================================
