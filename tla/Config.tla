-------------------------------- MODULE Config --------------------------------
(***************************************************************************)
(* The life of a configuration (conf.c): a document is unmarshalled        *)
(* against the schema, loaded into struct config, checked and normalised,  *)
(* its "@path" references are inlined, and then it is dumped, its          *)
(* credentials are erased, and it is freed.  Any allocation and any file   *)
(* may fail.  The dump is read back, as an operator does who saves         *)
(* --dump-config or sends the answer to GET /config back.                  *)
(*                                                                         *)
(* A string is a short sequence of characters, of which only "0" (an       *)
(* embedded NUL), "@", "-", " " and "h" (a hex digit) have a meaning; a    *)
(* credential is kept as its buffer, cell by cell, the terminator "0"      *)
(* included.                                                               *)
(***************************************************************************)
EXTENDS JsonCodec

CONSTANTS Docs,         \* the documents, as a sequence
          Files,          \* from the name in "@name" to what the file holds
          IntMax,         \* INT_MAX
          MaxClaim,       \* MUX_MAX_CLAIM_LEN
          MaxAddr,        \* ADDR_MAX_STRLEN
          PskMin, PskMax  \* TLS_PSK_MIN_LEN and TLS_PSK_MAX_LEN, in octets

VARIABLE cf

-----------------------------------------------------------------------------
\* The schema (conf_schema.gen.c).

SocketSchema(keepalive, lowat) ==
    [backlog |-> Num(1, 4096, 16), keepalive |-> Flag(keepalive),
     nodelay |-> Flag(TRUE), notsent_lowat |-> Num(0, NoMax, lowat),
     rcvbuf |-> Num(0, NoMax, 0), reuseport |-> Flag(FALSE), sndbuf |-> Num(0, NoMax, 0)]

TcpSchema == SocketSchema(TRUE, 0)

MuxTcpSchema == SocketSchema(FALSE, 131072)

TlsSchema ==
    [alpn |-> Str(NoMax), authcerts |-> Strings(1, NoMax), cert |-> Str(NoMax),
     ciphersuites |-> Str(NoMax), kernel_offload |-> Flag(TRUE), key |-> Str(NoMax),
     psk |-> Dynamic, sni |-> [Str(NoMax) EXCEPT !.def = <<"e">>],
     socket_offload |-> Flag(FALSE)]

MemPressureSchema == [hi |-> Num(0, NoMax, 0), lo |-> Num(0, NoMax, 0)]

LossymuxSchema ==
    [enabled |-> Flag(FALSE), idle_timeout |-> Num(1, 86400, 60),
     queue |-> Num(1, 65535, 64)]

MuxSchema ==
    [connect_timeout |-> Num(0, 86400, 15), idle_timeout |-> Num(0, 86400, 0),
     keepalive |-> Num(0, 86400, 7200), lossymux |-> Object(LossymuxSchema),
     max_frame_size |-> Num(1024, 65543, 16384), max_halfopen |-> Num(0, 4096, 256),
     max_streams |-> Num(0, NoMax, 0), mem_pressure |-> Object(MemPressureSchema),
     nodelay |-> Flag(TRUE), readahead |-> Num(0, 16777216, 131072),
     resume_timeout |-> Num(0, 86400, 600), send_timeout |-> Num(0, 86400, 15),
     session_window |-> Num(0, 1073725440, 0), stream_window |-> Num(0, 1073725440, 0),
     tcp |-> Object(MuxTcpSchema)]

IdentitySchema ==
    [claim |-> Str(MaxClaim), listen |-> Dynamic,
     mux_connect |-> Strings(0, MaxAddr), verify |-> Flag(FALSE)]

LogOutputs == {<<"stdout">>, <<"stderr">>, <<"terminal">>, <<"syslog">>, <<"discard">>}

ConfSchema ==
    [api_listen |-> Str(MaxAddr), connect |-> Str(MaxAddr),
     identity |-> Object(IdentitySchema), listen |-> Str(MaxAddr),
     log |-> [Str(NoMax) EXCEPT !.enum = LogOutputs], loglevel |-> Num(0, NoMax, 4),
     max_sessions |-> Num(0, NoMax, 0), max_startups |-> Scalar("t", 0, NoMax, Nil),
     mux |-> Object(MuxSchema), mux_connect |-> Str(MaxAddr),
     mux_listen |-> Str(MaxAddr), tcp |-> Object(TcpSchema),
     tls |-> Object(TlsSchema), type |-> Str(NoMax)]

-----------------------------------------------------------------------------
\* struct config, all zero; arr has the arrays of strings and own those of the
\* blocks that hold the elements of an array.

Strs == {"type", "api_listen", "mux_listen", "mux_connect", "listen", "connect",
         "log", "cert", "key", "ciphersuites", "sni", "alpn", "claim", "bundle"}

NewConf ==
    [str |-> [f \in Strs |-> Null], arr |-> [f \in {"authcerts", "mux_connect"} |-> <<>>],
     own |-> {}, psk |-> <<>>, pskcap |-> 0, peers |-> <<>>, peerscap |-> 0]

Indexed(name, s) == {<<"el", name, i>> : i \in DOMAIN s}

\* What conf_free frees.
Owned(c) ==
    {<<"str", f, 0>> : f \in {f \in Strs : c.str[f] # Null}}
      \cup {<<"own", f, 0>> : f \in c.own}
      \cup UNION {Indexed(f, c.arr[f]) : f \in DOMAIN c.arr}
      \cup Indexed("psk.id", c.psk) \cup Indexed("psk.hex", c.psk)
      \cup Indexed("peer.id", c.peers)
      \cup {<<"el", "peer.listen", i>> : i \in {i \in DOMAIN c.peers : c.peers[i].listen # Null}}
      \cup {<<"own", "conf", 0>>}

\* A step of the loader: [ok, c, m] is whether it goes on, the configuration
\* and the heap.
Refuse(l) == [l EXCEPT !.ok = FALSE]

HasNul(s) == Contains(s, "0")

\* conf_strndup: refuses an embedded NUL, and may find no memory.
StrndupFails(l, s) == HasNul(s) \/ MallocFails(l.m)

StrndupField(l, f, s) ==
    CASE ~l.ok \/ s = Null -> l
      [] l.ok /\ s # Null /\ StrndupFails(l, s) -> Refuse(l)
      [] OTHER -> [l EXCEPT !.c.str[f] = s, !.m = Malloc(@, <<"str", f, 0>>)]

StrndupFields(l, obj, fields) ==
    FoldLeft(LAMBDA a, f : StrndupField(a, f, obj[f]), l, fields)

\* parse_startups_field and conf_parse_max_startups.
ParseMaxStartups(l, t) ==
    IF ~l.ok \/ \E i \in 1..Len(t) : t[i] > IntMax
    THEN Refuse(l)
    ELSE [l EXCEPT !.c = @ @@ [startups |-> IF t = Nil THEN <<0, 0, 0>> ELSE t]]

(* Defect: the element that could not be copied still counts. *)
LoadStringKeepsCount(l, f, s) ==
    CASE ~l.ok -> l
      [] l.ok /\ StrndupFails(l, s) -> Refuse([l EXCEPT !.c.arr[f] = Append(@, s)])
      [] OTHER -> [l EXCEPT !.c.arr[f] = Append(@, s),
                            !.m = Malloc(@, <<"el", f, Len(l.c.arr[f]) + 1>>)]

LoadString(l, f, s) ==
    CASE ~l.ok -> l
      [] l.ok /\ StrndupFails(l, s) -> Refuse(l)
      [] OTHER -> [l EXCEPT !.c.arr[f] = Append(@, s),
                            !.m = Malloc(@, <<"el", f, Len(l.c.arr[f]) + 1>>)]

\* conf_load_string_arr
LoadStringArr(l, f, src) ==
    CASE ~l.ok \/ src = Nil -> l
      [] l.ok /\ src # Nil /\ MallocFails(l.m) -> Refuse(l)
      [] OTHER -> FoldLeft(LAMBDA a, s : LoadString(a, f, s),
                           [l EXCEPT !.c.own = @ \cup {f},
                                     !.m = Malloc(@, <<"own", f, 0>>)], src)

\* conf_grow_array: 4 entries, then doubling; the old array survives a failure.
GrowCap(cap) == IF cap = 0 THEN 4 ELSE 2 * cap

Grown(m, f) == IF <<"own", f, 0>> \in m.live THEN Tried(m) ELSE Malloc(m, <<"own", f, 0>>)

-----------------------------------------------------------------------------
\* The two maps without a fixed key set.

GrowPsk(l) ==
    CASE Len(l.c.psk) < l.c.pskcap -> l
      [] Len(l.c.psk) = l.c.pskcap /\ MallocFails(l.m) -> Refuse(l)
      [] OTHER -> [l EXCEPT !.c.pskcap = GrowCap(@), !.c.own = @ \cup {"psk"},
                            !.m = Grown(@, "psk")]

PskId(l, key) ==
    IF ~l.ok \/ StrndupFails(l, key)
    THEN Refuse(l)
    ELSE [l EXCEPT !.m = Malloc(@, <<"el", "psk.id", Len(l.c.psk) + 1>>)]

(* Defect: the identity of an entry whose key cannot be copied is left behind. *)
PskHexKeepsId(l, key, val) ==
    CASE ~l.ok -> l
      [] l.ok /\ StrndupFails(l, val) -> Refuse(l)
      [] OTHER -> [l EXCEPT !.c.psk = Append(@, [id |-> key, hex |-> Append(val, "0")]),
                            !.m = Malloc(@, <<"el", "psk.hex", Len(l.c.psk) + 1>>)]

PskHex(l, key, val) ==
    CASE ~l.ok -> l
      [] l.ok /\ StrndupFails(l, val) ->
           Refuse([l EXCEPT !.m = Free(@, {<<"el", "psk.id", Len(l.c.psk) + 1>>})])
      [] OTHER -> [l EXCEPT !.c.psk = Append(@, [id |-> key, hex |-> Append(val, "0")]),
                            !.m = Malloc(@, <<"el", "psk.hex", Len(l.c.psk) + 1>>)]

\* psk_map_cb: document order is kept and a repeated identity refused.
PskMapCb(l, key, val) ==
    IF \E e \in ToSet(l.c.psk) : e.id = key
    THEN Refuse(l)
    ELSE PskHex(PskId(GrowPsk(l), key), key, val)

GrowPeers(l) ==
    CASE Len(l.c.peers) < l.c.peerscap -> l
      [] Len(l.c.peers) = l.c.peerscap /\ MallocFails(l.m) -> Refuse(l)
      [] OTHER -> [l EXCEPT !.c.peerscap = GrowCap(@), !.c.own = @ \cup {"peers"},
                            !.m = Grown(@, "peers")]

NewPeer(l, key) ==
    IF ~l.ok \/ StrndupFails(l, key)
    THEN Refuse(l)
    ELSE [l EXCEPT !.c.peers = Append(@, [id |-> key, listen |-> Null]),
                   !.m = Malloc(@, <<"el", "peer.id", Len(l.c.peers) + 1>>)]

PeerOf(l, key) == SelectInSeq(l.c.peers, LAMBDA p : p.id = key)

\* identity_listen_add: the last value wins.
IdentityListenAdd(l, key) == IF PeerOf(l, key) # 0 THEN l ELSE NewPeer(GrowPeers(l), key)

SetListen(l, i, val) ==
    IF StrndupFails(l, val)
    THEN Refuse([l EXCEPT !.c.peers[i].listen = Null, !.m = Free(@, {<<"el", "peer.listen", i>>})])
    ELSE [l EXCEPT !.c.peers[i].listen = val,
                   !.m = Malloc(Free(@, {<<"el", "peer.listen", i>>}), <<"el", "peer.listen", i>>)]

Listened(l, key, val) == IF l.ok THEN SetListen(l, PeerOf(l, key), val) ELSE l

\* identity_listen_cb
IdentityListenCb(l, key, val) == Listened(IdentityListenAdd(l, key), key, val)

\* conf_walk_map: a "-" key is a comment, every other value a string.
MapCb(l, map, key, val) ==
    IF map = "psk" THEN PskMapCb(l, key, val) ELSE IdentityListenCb(l, key, val)

MapPair(l, map, pair) ==
    CASE ~l.ok \/ (pair[1] # <<>> /\ pair[1][1] = "-") -> l
      [] l.ok /\ (pair[1] = <<>> \/ pair[1][1] # "-") /\ pair[2].k # "s" -> Refuse(l)
      [] OTHER -> MapCb(l, map, pair[1], pair[2].v)

WalkMap(l, map, frag) ==
    CASE ~l.ok \/ frag = Nil -> l
      [] l.ok /\ frag # Nil /\ frag[1].k # "o" -> Refuse(l)
      [] OTHER -> FoldLeft(LAMBDA a, pair : MapPair(a, map, pair), l, frag[1].v)

-----------------------------------------------------------------------------
\* conf_load.

\* MIN(v, INT_MAX), the narrowing of every unbounded number.
ToInt(v) == IF v < IntMax THEN v ELSE IntMax

Clamp(v, lo, hi) == IF v < lo THEN lo ELSE IF v > hi THEN hi ELSE v

\* conf_load_tcp and LOAD_SOCKET_OPTS
LoadSocketOpts(t) ==
    [t EXCEPT !.sndbuf = ToInt(@), !.rcvbuf = ToInt(@), !.notsent_lowat = ToInt(@)]

WindowUnit == 16384

FrameHeader == 8

WindowFrames(bytes) ==
    IF bytes = 0 THEN 0 ELSE Clamp(bytes \div WindowUnit, 4, 65535)

\* conf_load_mux
LoadMux(x) ==
    [nodelay |-> x.nodelay, max_halfopen |-> x.max_halfopen,
     max_streams |-> ToInt(x.max_streams), connect_timeout |-> x.connect_timeout,
     keepalive |-> x.keepalive, send_timeout |-> x.send_timeout,
     idle_timeout |-> x.idle_timeout, resume_timeout |-> x.resume_timeout,
     timeout |-> 0,
     session_window |-> WindowFrames(x.session_window),
     stream_window |-> WindowFrames(x.stream_window),
     max_frame_payload |-> Clamp(x.max_frame_size - FrameHeader, 1024 - FrameHeader, 65535),
     readahead |-> x.readahead,
     hi |-> ToInt(x.mem_pressure.hi), lo |-> ToInt(x.mem_pressure.lo),
     lossymux |-> x.lossymux]

\* conf_load_tls
LoadTls(l, t) ==
    WalkMap(LoadStringArr(StrndupFields(l, t, <<"cert", "key", "ciphersuites", "sni", "alpn">>),
                          "authcerts", t.authcerts),
            "psk", t.psk)

\* conf_load_identity
LoadIdentity(l, x) ==
    WalkMap(LoadStringArr(StrndupFields(l, x, <<"claim">>), "mux_connect", x.mux_connect),
            "listen", x.listen)

LoadNumbers(l, obj) ==
    [l EXCEPT !.c = @ @@ [loglevel |-> ToInt(obj.loglevel),
                          max_sessions |-> ToInt(obj.max_sessions),
                          socket_offload |-> obj.tls.socket_offload,
                          kernel_offload |-> obj.tls.socket_offload /\ obj.tls.kernel_offload,
                          verify |-> obj.identity.verify,
                          mux |-> LoadMux(obj.mux),
                          muxtcp |-> LoadSocketOpts(obj.mux.tcp),
                          tcp |-> LoadSocketOpts(obj.tcp)]]

RootStrs == <<"type", "api_listen", "mux_listen", "mux_connect", "listen", "connect", "log">>

LoadConf(l, obj) ==
    LoadIdentity(
      LoadTls(ParseMaxStartups(StrndupFields(LoadNumbers(l, obj), obj, RootStrs),
                               obj.max_startups),
              obj.tls),
      obj.identity)

-----------------------------------------------------------------------------
\* Keys.

\* strlen
StrLen(s) == (CHOOSE i \in DOMAIN s : s[i] = "0" /\ \A j \in 1..(i - 1) : s[j] # "0") - 1

KeyText(s) == SubSeq(s, 1, StrLen(s))

(* Defect: the bytes the key vacates keep its last characters. *)
TrimmedKeepsTail(s, start, len, n) ==
    [i \in DOMAIN s |->
       IF i <= len THEN s[start + i] ELSE IF i = len + 1 THEN "0" ELSE s[i]]

Trimmed(s, start, len, n) ==
    [i \in DOMAIN s |->
       IF i <= len THEN s[start + i] ELSE IF i <= n + 1 THEN "0" ELSE s[i]]

\* The longest run of blanks at the front of s[1..n], and at its end.
Leading(s, n) == CHOOSE i \in 0..n : (i = n \/ s[i + 1] # " ") /\ \A j \in 1..i : s[j] = " "

Ending(s, start, n) ==
    CHOOSE e \in start..n : (e = start \/ s[e] # " ") /\ \A j \in (e + 1)..n : s[j] = " "

TrimFrom(s, start, n) == Trimmed(s, start, Ending(s, start, n) - start, n)

\* psk_trim, with psk_is_space
PskTrim(s) == TrimFrom(s, Leading(s, StrLen(s)), StrLen(s))

\* conf_check_psk_key
PskKeyOk(s) ==
    /\ StrLen(s) % 2 = 0
    /\ StrLen(s) \div 2 \in PskMin..PskMax
    /\ \A i \in 1..StrLen(s) : s[i] = "h"

TrimEntry(e) == IF e.hex[1] = "@" THEN e ELSE [e EXCEPT !.hex = PskTrim(@)]

EntryOk(e) == Len(e.id) <= MaxClaim /\ (e.hex[1] = "@" \/ PskKeyOk(e.hex))

\* conf_check_psk
CheckPsk(l) ==
    LET t == [l EXCEPT !.c.psk = [i \in DOMAIN @ |-> TrimEntry(@[i])]]
    IN  IF \A i \in DOMAIN t.c.psk : EntryOk(t.c.psk[i]) THEN t ELSE Refuse(t)

-----------------------------------------------------------------------------
\* conf_check.

\* CONF_TYPE, and a spelling of it that means the same.
ConfType == <<"c">>

AcceptedTypes == {ConfType, <<"C">>}

\* conf_check_type works on a private copy.
CheckType(l) ==
    CASE l.c.str["type"] = Null -> l
      [] l.c.str["type"] # Null /\ MallocFails(l.m) -> Refuse(l)
      [] OTHER -> [l EXCEPT !.ok = l.c.str["type"] \in AcceptedTypes, !.m = Tried(@)]

HasTransport(c) ==
    c.str["mux_listen"] # Null \/ c.str["mux_connect"] # Null \/ c.arr["mux_connect"] # <<>>

HasPsk(c) == c.psk # <<>>

Certs(c) == {c.str["cert"] # Null, c.str["key"] # Null, c.arr["authcerts"] # <<>>}

\* PSK mode sends no name.
DropSni(l) == [l EXCEPT !.c.str["sni"] = Null, !.m = Free(@, {<<"str", "sni", 0>>})]

Unless(l, bad) == IF bad THEN Refuse(l) ELSE l

CheckPskMode(l) == IF l.ok THEN Unless(DropSni(l), l.c.verify) ELSE l

(* Defect: identity.verify is ignored where there is no certificate. *)
CheckTlsIgnoresVerify(l) ==
    CASE ~l.ok -> l
      [] l.ok /\ HasPsk(l.c) ->
           IF TRUE \in Certs(l.c) THEN Refuse(l) ELSE CheckPskMode(CheckPsk(l))
      [] OTHER -> Unless(l, Certs(l.c) = BOOLEAN)

CheckTls(l) ==
    CASE ~l.ok -> l
      [] l.ok /\ HasPsk(l.c) ->
           IF TRUE \in Certs(l.c) THEN Refuse(l) ELSE CheckPskMode(CheckPsk(l))
      [] OTHER -> Unless(l, Certs(l.c) = BOOLEAN \/ (l.c.verify /\ Certs(l.c) = {FALSE}))

\* clamp_timeout
ClampTimeout(v) == IF v > 0 THEN Clamp(v, 10, 86400) ELSE 0

(* Defect: the deadline is a tenth longer than keepalive, however short. *)
DeriveTimeoutTenth(k) == IF k = 0 THEN 0 ELSE k + k \div 10

\* conf_derive_mux_timeout, from a clamped keepalive
DeriveTimeout(k) == IF k = 0 THEN 0 ELSE k + Max({k \div 10, 90})

NormalizeMux(x) ==
    [x EXCEPT !.keepalive = ClampTimeout(@),
              !.timeout = DeriveTimeout(ClampTimeout(x.keepalive)),
              !.send_timeout = ClampTimeout(@), !.connect_timeout = ClampTimeout(@),
              !.resume_timeout = ClampTimeout(@), !.idle_timeout = ClampTimeout(@),
              !.lo = IF x.hi > 0 /\ @ = 0 THEN x.hi \div 2 ELSE @]

\* LOG_LEVEL_SILENCE is 0 and LOG_LEVEL_VERYVERBOSE is 8.
\* conf_normalize
Normalize(l) ==
    IF l.ok
    THEN [l EXCEPT !.c.mux = NormalizeMux(@), !.c.loglevel = Clamp(@, 0, 8)]
    ELSE l

CheckLimits(l) ==
    Unless(l, l.ok /\ \/ l.c.startups[2] > 100
                      \/ /\ l.c.startups[1] > 0 /\ l.c.startups[3] > 0
                         /\ l.c.startups[1] >= l.c.startups[3]
                      \/ l.c.mux.hi > 0 /\ l.c.mux.lo > l.c.mux.hi)

CheckIdentity(l) ==
    Unless(l, l.ok /\ \/ \E p \in ToSet(l.c.peers) :
                            Len(p.id) > MaxClaim \/ Len(p.listen) > MaxAddr
                      \/ /\ l.c.arr["mux_connect"] # <<>> \/ l.c.peers # <<>>
                         /\ l.c.str["claim"] = Null)

CheckConf(l) ==
    CheckIdentity(CheckLimits(Normalize(CheckTls(
      Unless(CheckType(l), ~HasTransport(l.c))))))

-----------------------------------------------------------------------------
\* conf_inline_pem.

IsRef(s) == s # <<>> /\ s[1] = "@"

\* read_file and read_stream; inline_field refuses an embedded NUL.
Reads(m, name) ==
    /\ name \in DOMAIN Files
    /\ ~MallocFails(m)
    /\ Files[name].ok
    /\ ~HasNul(Files[name].text)

Replace(m, block) ==
    Take(Free(Malloc(m, <<"own", "file", 0>>), {block}), <<"own", "file", 0>>, block)

\* inline_field, for a string, a trusted certificate and a key
InlineStr(l, f) ==
    CASE ~l.ok \/ ~IsRef(l.c.str[f]) -> l
      [] l.ok /\ IsRef(l.c.str[f]) /\ ~Reads(l.m, l.c.str[f][2]) -> Refuse(l)
      [] OTHER -> [l EXCEPT !.c.str[f] = Files[@[2]].text,
                            !.m = Replace(@, <<"str", f, 0>>)]

InlineAuthcert(l, i) ==
    CASE ~l.ok \/ ~IsRef(l.c.arr["authcerts"][i]) -> l
      [] l.ok /\ IsRef(l.c.arr["authcerts"][i]) /\ ~Reads(l.m, l.c.arr["authcerts"][i][2]) ->
           Refuse(l)
      [] OTHER -> [l EXCEPT !.c.arr["authcerts"][i] = Files[@[2]].text,
                            !.m = Replace(@, <<"el", "authcerts", i>>)]

(* Defect: a key read from a file is used as it is. *)
LoadedKeyUnchecked(l, i) == l

LoadedKey(l, i) ==
    Unless([l EXCEPT !.c.psk[i].hex = PskTrim(@)], ~PskKeyOk(PskTrim(l.c.psk[i].hex)))

InlinePsk(l, i) ==
    CASE ~l.ok \/ ~IsRef(l.c.psk[i].hex) -> l
      [] l.ok /\ IsRef(l.c.psk[i].hex) /\ ~Reads(l.m, l.c.psk[i].hex[2]) -> Refuse(l)
      [] OTHER -> LoadedKey([l EXCEPT !.c.psk[i].hex = Append(Files[@[2]].text, "0"),
                                      !.m = Replace(@, <<"el", "psk.hex", i>>)], i)

\* bundle_append: each certificate and a newline.
Bundle(certs) == FoldLeft(LAMBDA b, s : b \o s \o <<"n">>, <<>>, certs)

BuildBundle(l) ==
    CASE ~l.ok \/ l.c.arr["authcerts"] = <<>> -> l
      [] l.ok /\ l.c.arr["authcerts"] # <<>> /\ MallocFails(l.m) -> Refuse(l)
      [] OTHER -> [l EXCEPT !.c.str["bundle"] = Bundle(l.c.arr["authcerts"]),
                            !.m = Malloc(@, <<"str", "bundle", 0>>)]

Each(l, s, Op(_, _)) == FoldLeft(Op, l, [i \in DOMAIN s |-> i])

InlinePem(l) ==
    BuildBundle(Each(Each(InlineStr(InlineStr(l, "cert"), "key"),
                          l.c.arr["authcerts"], InlineAuthcert),
                     l.c.psk, InlinePsk))

-----------------------------------------------------------------------------
\* conf_dump and conf_erase_credentials.

Text(s) == [k |-> "s", v |-> s]

\* build_listen_json and build_psk_json, with json_map_append and
\* json_map_finish: an empty map is an absent field.
DumpMap(pairs) == IF pairs = <<>> THEN Nil ELSE <<[k |-> "o", v |-> pairs]>>

ListenJson(c) ==
    DumpMap([i \in DOMAIN c.peers |-> <<c.peers[i].id, Text(c.peers[i].listen)>>])

PskJson(c) ==
    DumpMap([i \in DOMAIN c.psk |->
               <<c.psk[i].id, Text(KeyText(c.psk[i].hex))>>])

DumpMux(c) ==
    [f \in DOMAIN MuxSchema |->
       CASE f = "session_window" -> c.mux.session_window * WindowUnit
         [] f = "stream_window" -> c.mux.stream_window * WindowUnit
         [] f = "max_frame_size" -> c.mux.max_frame_payload + FrameHeader
         [] f = "mem_pressure" -> [hi |-> c.mux.hi, lo |-> c.mux.lo]
         [] f = "tcp" -> c.muxtcp
         [] OTHER -> c.mux[f]]

DumpTls(c) ==
    [alpn |-> c.str["alpn"], authcerts |-> c.arr["authcerts"], cert |-> c.str["cert"],
     ciphersuites |-> c.str["ciphersuites"], kernel_offload |-> c.kernel_offload,
     key |-> c.str["key"], psk |-> PskJson(c), sni |-> c.str["sni"],
     socket_offload |-> c.socket_offload]

DumpIdentity(c) ==
    [claim |-> c.str["claim"], listen |-> ListenJson(c),
     mux_connect |-> c.arr["mux_connect"], verify |-> c.verify]

Raw(c) ==
    [f \in DOMAIN ConfSchema |->
       CASE f = "type" -> ConfType
         [] f = "loglevel" -> c.loglevel
         [] f = "max_sessions" -> c.max_sessions
         [] f = "max_startups" -> IF c.startups = <<0, 0, 0>> THEN Nil ELSE c.startups
         [] f = "mux" -> DumpMux(c)
         [] f = "tcp" -> c.tcp
         [] f = "tls" -> DumpTls(c)
         [] f = "identity" -> DumpIdentity(c)
         [] OTHER -> c.str[f]]

\* The temporaries of conf_dump: the two maps, the two arrays and the text.
DumpAllocs(c) ==
    2 + Cardinality({x \in {<<"p", c.psk # <<>>>>, <<"m", c.arr["mux_connect"] # <<>>>>,
                            <<"a", c.arr["authcerts"] # <<>>>>} : x[2]})

DumpFails(l) == l.m.at \in (l.m.tried + 1)..(l.m.tried + DumpAllocs(l.c))

Erased(s) == IF s = Null THEN Null ELSE <<>>

EraseCells(s) == [i \in DOMAIN s |-> IF i <= StrLen(s) THEN "0" ELSE s[i]]

EraseCredentials(c) ==
    [c EXCEPT !.str["cert"] = Erased(@), !.str["key"] = Erased(@), !.str["bundle"] = Erased(@),
              !.arr["authcerts"] = [i \in DOMAIN @ |-> <<>>],
              !.psk = [i \in DOMAIN @ |-> [@[i] EXCEPT !.hex = EraseCells(@)]]]

-----------------------------------------------------------------------------
\* The life of a configuration.

NoConf(at) == [ok |-> TRUE, c |-> NewConf, m |-> Heap(at)]

\* doc: what is read; first: the configuration of the first reading, once its
\* references are inlined; round: which reading this is; builtin: it is the
\* built-in default; erased: its credentials are gone.
Init(MaxAt) ==
    \E d \in 1..Len(Docs), at \in 0..MaxAt :
        cf = [pc |-> "start", doc |-> Docs[d], obj |-> Nil, l |-> NoConf(at),
              first |-> Nil, round |-> 1, builtin |-> FALSE, erased |-> FALSE]

Go(pc, l) == cf' = [cf EXCEPT !.pc = pc, !.l = l]

\* conf_free of a block that is not live, or of an element never set.
FreesDead(l) == <<"own", "conf", 0>> \in l.m.live /\ ~(Owned(l.c) \subseteq l.m.live)

\* Whatever was loaded is released with conf_free, and the text with it.
Freed(l) ==
    [l EXCEPT !.m = Free([@ EXCEPT !.lost = @ \/ FreesDead(l)],
                         Owned(l.c) \cup {<<"own", "buf", 0>>})]

Fail(l) == Go("failed", Freed(l))

\* read_file, read_stream and the allocation of struct config.
OpenFile ==
    /\ cf.pc = "start"
    /\ \/ cf.round = 1 /\ Fail(cf.l)
       \/ MallocFails(cf.l.m) /\ Fail(cf.l)
       \/ ~MallocFails(cf.l.m) /\ Go("alloc", [cf.l EXCEPT !.m = Malloc(@, <<"own", "buf", 0>>)])

AllocConf ==
    /\ cf.pc = "alloc"
    /\ IF MallocFails(cf.l.m)
       THEN Fail(cf.l)
       ELSE Go("unmarshal", [cf.l EXCEPT !.m = Malloc(@, <<"own", "conf", 0>>)])

\* conf_new_default
NewDefault ==
    /\ cf.pc = "start"
    /\ cf.round = 1
    /\ ~MallocFails(cf.l.m)
    /\ cf' = [cf EXCEPT !.pc = "unmarshal", !.builtin = TRUE, !.doc = [k |-> "o", v |-> <<>>],
                        !.l.m = Malloc(@, <<"own", "conf", 0>>)]

Unmarshalled(u) ==
    IF u.ok
    THEN cf' = [cf EXCEPT !.pc = "load", !.obj = u.obj, !.l.m = u.m]
    ELSE Fail([cf.l EXCEPT !.m = JsonFree(ConfSchema, u.m)])

UnmarshalDoc ==
    /\ cf.pc = "unmarshal"
    /\ Unmarshalled(Unmarshal(ConfSchema, cf.doc, cf.l.m))

AfterLoad(l) ==
    IF l.ok
    THEN IF cf.builtin /\ cf.round = 1 THEN Go("parsed", Normalize(l)) ELSE Go("check", l)
    ELSE Fail(l)

Load ==
    /\ cf.pc = "load"
    /\ AfterLoad([LoadConf(cf.l, cf.obj) EXCEPT !.m = JsonFree(ConfSchema, @)])

AfterCheck(l) ==
    IF l.ok
    THEN Go("parsed", [l EXCEPT !.m = Free(@, {<<"own", "buf", 0>>})])
    ELSE Fail(l)

Check == cf.pc = "check" /\ AfterCheck(CheckConf(cf.l))

AfterInline(l) ==
    IF l.ok
    THEN cf' = [cf EXCEPT !.pc = "ready", !.l = l,
                          !.first = IF cf.round = 1 THEN l.c ELSE @]
    ELSE Fail(l)

Inline == cf.pc = "parsed" /\ AfterInline(InlinePem(cf.l))

\* After the TLS contexts are built (server_make_tls_contexts).
Erase ==
    /\ cf.pc = "ready"
    /\ ~cf.erased
    /\ cf' = [cf EXCEPT !.erased = TRUE, !.l.c = EraseCredentials(@)]

Dump ==
    /\ cf.pc = "ready"
    /\ cf.round = 1
    /\ IF DumpFails(cf.l)
       THEN Go("undumped", cf.l)
       ELSE cf' = [cf EXCEPT !.pc = "dumped", !.doc = Marshal(ConfSchema, Raw(cf.l.c)),
                             !.l.m = Malloc(@, <<"own", "dump", 0>>)]

\* The dump is saved, and read back by the next start or reload.
ReadBack ==
    /\ cf.pc = "dumped"
    /\ cf' = [cf EXCEPT !.pc = "start", !.round = 2,
                        !.l = [NoConf(0) EXCEPT
                                 !.m.live = Free(Freed(cf.l).m, {<<"own", "dump", 0>>}).live]]

Release == cf.pc \in {"ready", "undumped"} /\ Go("done", Freed(cf.l))

Next ==
    \/ OpenFile \/ AllocConf \/ NewDefault \/ UnmarshalDoc \/ Load \/ Check \/ Inline
    \/ Erase \/ Dump \/ ReadBack \/ Release

-----------------------------------------------------------------------------
Accepted == cf.pc \in {"parsed", "ready", "dumped", "undumped"}

(***************************************************************************)
(* Whatever fails - an allocation, a file, a check, in the middle of a map *)
(* or of an array - conf_free releases exactly what was allocated: no      *)
(* block is lost, freed memory is not reachable from struct config, and    *)
(* nothing survives a refused or a released configuration.                 *)
(***************************************************************************)
ConfOwnsItsBlocks ==
    /\ ~cf.l.m.lost
    /\ Accepted => cf.l.m.live = Owned(cf.l.c) \cup
                     (IF cf.pc = "dumped" THEN {<<"own", "dump", 0>>} ELSE {})
    /\ cf.pc \in {"failed", "done"} => cf.l.m.live = {}

(***************************************************************************)
(* A configuration the daemon runs with is one its other parts can use:    *)
(* there is a transport; credentials are complete and of one kind, and     *)
(* identity.verify never stands without the certificates that serve it;    *)
(* every key, from the document or from a file, is hex of a legal length;  *)
(* the timeouts, windows and frame sizes fit the ranges the session        *)
(* arithmetic relies on, and the silence deadline leaves a probe 90        *)
(* seconds to be answered.                                                 *)
(***************************************************************************)
ConfUsable ==
    cf.pc = "ready" /\ ~cf.builtin /\ ~cf.erased =>
      LET c == cf.l.c IN
      /\ HasTransport(c)
      /\ Certs(c) # BOOLEAN
      /\ HasPsk(c) => Certs(c) = {FALSE} /\ c.str["sni"] = Null
      /\ c.verify => Certs(c) = {TRUE}
      /\ \A i \in DOMAIN c.psk : PskKeyOk(c.psk[i].hex)
      /\ \A f \in {"cert", "key"} : ~IsRef(c.str[f])
      /\ c.mux.keepalive > 0 => c.mux.timeout >= c.mux.keepalive + 90
      /\ c.mux.keepalive = 0 <=> c.mux.timeout = 0
      /\ c.mux.session_window \in {0} \cup 4..65535
      /\ c.mux.stream_window \in {0} \cup 4..65535
      /\ c.mux.max_frame_payload \in 1016..65535
      /\ c.mux.hi > 0 => c.mux.lo <= c.mux.hi
      /\ c.mux.max_streams <= IntMax
      /\ c.peers # <<>> => c.str["claim"] # Null

(***************************************************************************)
(* Reading a dump back gives the configuration it was taken from: every    *)
(* default that was filled in, every clamp and every converted unit is a   *)
(* fixed point of the parser.  A dump taken after the credentials were     *)
(* erased is refused or keeps the transport's kind: it never turns an      *)
(* encrypted daemon into a plaintext one.  And erasing reaches every byte  *)
(* of every key, those a trim moved included.                              *)
(***************************************************************************)
Untyped(c) ==
    [c EXCEPT !.str["type"] = Null,
              !.psk = [i \in DOMAIN @ |-> [@[i] EXCEPT !.hex = KeyText(@)]]]

DumpReadsBack ==
    /\ cf.round = 2 /\ cf.pc = "ready" /\ ~cf.erased => Untyped(cf.l.c) = Untyped(cf.first)
    /\ cf.round = 2 /\ cf.pc \in {"parsed", "ready"} =>
         /\ HasPsk(cf.l.c) = HasPsk(cf.first)
         /\ Certs(cf.l.c) = Certs(cf.first)
    /\ cf.round = 2 /\ cf.pc = "failed" => cf.erased \/ cf.builtin
    /\ cf.erased /\ cf.round = 1 =>
         \A i \in DOMAIN cf.l.c.psk : ToSet(cf.l.c.psk[i].hex) \subseteq {"0"}
=============================================================================
