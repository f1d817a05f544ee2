----------------------------- MODULE MCConfDocs -----------------------------
(* The configuration documents and files that Config is checked with.        *)
EXTENDS Integers, Sequences

(* INT_MAX, scaled so that a larger number still fits TLC.                  *)
IMax == 2000000000

(* JSON values: string, number, boolean, array, object, "a:b:c" text         *)
S(x) == [k |-> "s", v |-> x]
N(x) == [k |-> "n", v |-> x]
Y(x) == [k |-> "b", v |-> x]
A(x) == [k |-> "a", v |-> x]
O(x) == [k |-> "o", v |-> x]
T(x) == [k |-> "t", v |-> x]

a == S(<<"a">>)
ref(f) == S(<<"@", f>>)

Base(p) == O(<< <<"mux_listen", a>> >> \o p)
Tls(p) == Base(<< <<"tls", O(p)>> >>)
Mux(p) == Base(<< <<"mux", O(p)>> >>)
Id(p) == Base(<< <<"identity", O(p)>> >>)
Psk(p) == <<"psk", O(p)>>
hh == <<"h", "h">>
Cert == <<"cert", a>>
Key == <<"key", ref("k")>>
Auth == <<"authcerts", A(<<a, ref("c")>>)>>
V == <<"identity", O(<< <<"verify", Y(TRUE)>> >>)>>
Each(Op(_), vals) == [i \in 1..Len(vals) |-> Op(vals[i])]

Wnd(n) == Mux(<< <<"session_window", N(n)>>, <<"stream_window", N(n)>> >>)
Kal(n) == Mux(<< <<"keepalive", N(n)>>, <<"send_timeout", N(n)>>, <<"idle_timeout", N(n)>> >>)
Frm(n) == Mux(<< <<"max_frame_size", N(n)>> >>)
Prs(p) == Mux(<< <<"mem_pressure", O(<< <<"hi", N(p[1])>>, <<"lo", N(p[2])>> >>)>> >>)
Str(n) == Mux(<< <<"max_streams", N(n)>>, <<"tcp", O(<< <<"sndbuf", N(n)>> >>)>> >>)
Sup(t) == Base(<< <<"max_startups", T(t)>> >>)
Typ(t) == Base(<< <<"type", S(<<t>>)>>, <<"loglevel", N(9)>> >>)
(* One document for each side of every limit, for each way a member can be   *)
(* wrong or repeated, and for each TLS mode.                                 *)
Docs ==
  Each(Wnd, <<1, 65535, 65536, 1073725440, 1073725441>>) \o
  Each(Kal, <<0, 1, 10, 99, 900, 901, 86400, 86401>>) \o
  Each(Frm, <<1023, 1024, 1025, 65543, 65544>>) \o
  Each(Prs, << <<0, 5>>, <<1, 0>>, <<9, 0>>, <<9, 9>>, <<9, 10>>, <<IMax + 1, IMax + 2>>, <<IMax+1,0>> >>) \o
  Each(Str, <<IMax - 1, IMax + 1>>) \o
  Each(Sup, << <<0,0,0>>, <<1,100,2>>, <<1,101,2>>, <<2,1,2>>, <<0,50,1>>, <<IMax+1,0,0>> >>) \o
  Each(Typ, <<"c", "C", "d">>) \o
  << O(<<>>), O(<< <<"mux_connect", a>>, <<"log", S(<<"stdout">>)>>, <<"listen", S(<<"a","0">>)>> >>),
     O(<< <<"mux_connect", a>>, <<"log", S(<<"file">>)>> >>), a,
     O(<< <<"unknown", a>>, <<"mux_connect", S(<<"a","a","a">>)>> >>),
     Base(<< <<"mux", O(<< <<"keepalive", N(0)>> >>)>>, <<"mux", O(<<>>)>>, <<"max_startups", a>> >>),
     Base(<< <<"mux", O(<< <<"keepalive", N(0)>> >>)>>, <<"mux", O(<<>>)>> >>),
     Tls(<<Cert>>), Tls(<<Cert, Key>>), Tls(<<Cert, Key, Auth>>), Tls(<<Auth, Cert, Auth, Key>>),
     Tls(<<Auth, Cert, Key, <<"authcerts", A(<<>>)>> >>),
     Tls(<<Cert, <<"key", ref("missing")>>, Auth>>), Tls(<<Cert, <<"key", ref("nul")>>, Auth>>),
     Base(<< <<"tls", O(<<Cert, Key, Auth>>)>>, V >>), Base(<<V>>),
     Base(<< <<"tls", O(<<Auth>>)>>, <<"tls", O(<<>>)>> >>),
     Tls(<<Cert, Psk(<< << <<"i">>, S(hh)>> >>)>>),
     Tls(<<Psk(<< << <<"i">>, S(<<" ", " ", "h", "h", " ">>)>> >>), <<"kernel_offload", Y(TRUE)>>, <<"socket_offload", Y(TRUE)>> >>),
     Tls(<<Psk(<< << <<"i">>, S(hh)>>, << <<"j">>, ref("p")>> >>)>>),
     Tls(<<Psk(<< << <<"i">>, S(hh)>>, << <<"i">>, S(hh)>> >>)>>),
     Tls(<<Psk(<< << <<"-">>, N(1)>>, << <<"i">>, S(hh)>> >>)>>),
     Tls(<<Psk(<< << <<"i">>, N(1)>> >>)>>), Tls(<< <<"psk", a>> >>), Tls(<<Psk(<<>>)>>),
     Tls(<<Psk(<< << <<"i">>, ref("short")>> >>)>>), Tls(<<Psk(<< << <<"i">>, S(<<"h">>)>> >>)>>),
     Tls(<<Psk(<< << <<"i","i","i">>, S(hh)>> >>)>>), Tls(<<Psk(<< << <<"i">>, S(<<>>)>> >>)>>),
     Base(<< <<"tls", O(<<Psk(<< << <<"i">>, S(hh)>> >>)>>)>>, V >>),
     Id(<< <<"claim", a>>, <<"listen", O(<< << <<"p">>, a>>, << <<"q">>, a>>, << <<"p">>, S(<<"b">>)>> >>)>> >>),
     Id(<< <<"claim", a>>, <<"listen", O([i \in 1..5 |-> << <<<<"p","q","r","s","t">>[i]>>, a>>])>> >>),
     Id(<< <<"listen", O(<< << <<"p">>, a>> >>)>> >>),
     Id(<< <<"claim", a>>, <<"listen", O(<< << <<"p","p","p">>, a>> >>)>> >>),
     Id(<< <<"claim", a>>, <<"listen", O(<< << <<"p">>, S(<<"a","a","a">>)>> >>)>> >>),
     O(<< <<"identity", O(<< <<"claim", a>>, <<"mux_connect", A(<<a, S(<<"b">>)>>)>> >>)>> >>),
     Id(<< <<"claim", a>>, <<"mux_connect", A(<<a, S(<<"0">>)>>)>> >>),
     Id(<< <<"mux_connect", A(<<a>>)>>, <<"mux_connect", A(<<a, S(<<"b">>)>>)>>, <<"claim", a>> >>)
  >>

(* The files an "@path" value may name                                       *)
F(t) == [ok |-> TRUE, text |-> t]
Files == [k |-> F(<<"k">>), c |-> F(<<"c">>), nul |-> F(<<"a", "0", "k">>), p |-> F(<<" ", "h", "h", " ">>), short |-> F(<<"h">>),
          bad |-> [ok |-> FALSE, text |-> <<>>]]
=============================================================================
