------------------------------ MODULE MCParts -------------------------------
(* The parts of the daemon that run beside the sessions and streams, each   *)
(* checked alone: Init chooses one of them, and st is that part's state.     *)
EXTENDS Integers, Sequences

VARIABLES part, st

vars == <<part, st>>

-----------------------------------------------------------------------------
(* Datagram relays: clients of one side or of both, flow ids about to wrap,  *)
(* and datagrams, cut sessions and resumptions still to come.                *)
B(d, c, r) == [dg |-> d, cut |-> c, re |-> r]
OneSide == <<{"c", "d"}, {}>>
TwoSides == <<{"c"}, {"e"}>>
UdpScenarios ==
    {[who |-> OneSide, next |-> <<5, 2>>, left |-> B(3, 0, 0)],
     [who |-> OneSide, next |-> <<5, 2>>, left |-> B(2, 1, 0)],
     [who |-> TwoSides, next |-> <<5, 4>>, left |-> B(2, 1, 0)],
     [who |-> TwoSides, next |-> <<3, 4>>, left |-> B(2, 0, 1)]}

Udp == INSTANCE UdpRelay WITH udp <- st, MaxId <- 5, QueueCap <- 2, Socks <- {1, 2, 3}

(* Hash tables: three keys share a bucket under the first seed, and a chain  *)
(* of two asks for the second one.                                           *)
HashOf == <<[a |-> 0, b |-> 0, c |-> 0, d |-> 2], [a |-> 1, b |-> 3, c |-> 5, d |-> 0]>>

Table == INSTANCE HashTable WITH tab <- st, Keys <- {"a", "b", "c", "d"}, Elems <- {1, 2},
             Capacities <- <<2, 3, 5>>, MaxCap <- 8, Threshold <- 1, Hash <- HashOf

Mutex == INSTANCE SharedMutex WITH mtx <- st, Threads <- {1, 2, 3, 4}

Pool == INSTANCE Executor WITH exe <- st, Workers <- {1, 2}, Capacity <- 2

Wire == INSTANCE WireTls WITH wire <- st, SockBuf <- 2

Loop == INSTANCE AcceptLoop WITH acc <- st

-----------------------------------------------------------------------------
(* Session timers: a reload may switch any of them on or off.                *)
Timeouts == [timeout : BOOLEAN, keepalive : BOOLEAN, send : BOOLEAN, connect : BOOLEAN,
             resume : BOOLEAN, idle : BOOLEAN]
TimeoutConfs == {c \in Timeouts : c.keepalive = c.timeout}

Timers == INSTANCE SessionTimers WITH ses <- st, Confs <- TimeoutConfs

(* The estimator, its seconds, windows and integers scaled down together     *)
Samples == {<<"rx", 15>>, <<"rx", 30>>, <<"tx", 15>>}

Bdp == INSTANCE Estimator WITH est <- st, Second <- 4, MaxInt <- 100, SizeMax <- 60,
           WndMin <- 2, WndMax <- 40, FeedbackFloor <- 2, RttWindow <- 3, BwWindow <- 2,
           StableRounds <- 1, GrowthFactor <- 3, ProbeTimeout <- 3, StartupInterval <- 1,
           RateLimit <- 2, Adds <- Samples, MaxTime <- 7, MaxSample <- 30

(* Start-up: every set of command line options, every form of -u             *)
OptionSets == SUBSET {"genpsk", "gencerts", "certopt", "dump", "config", "daemonize", "user"}
Names == {"none", "root", "nobody", "missing"}
Identities == {i \in [u : Names, colon : BOOLEAN, g : Names] : i.g # "none" => i.colon}

Boot == INSTANCE Launch WITH boot <- st

-----------------------------------------------------------------------------
(* The API server: every pair of these requests on one connection            *)
Token(k, v) == [k |-> k, v |-> v]
Line(m, p, v) == Token("line", [method |-> m, path |-> p, ver |-> v, conf |-> "good"])
Host == Token("host", TRUE)
End == Token("empty", TRUE)
Body == Token("body", TRUE)
Sends(s) == [t |-> s, waits |-> FALSE]
Waits(s) == [t |-> s, waits |-> TRUE]
Requests ==
    {Sends(<<Line("GET", "healthy", "1.1"), Host, End>>),
     Sends(<<End, Line("GET", "stats", "1.1"), Host, Token("connection", TRUE), End>>),
     Sends(<<Line("GET", "config", "1.0"), End>>),
     Sends(<<Line("GET", "config", "2.0"), Host, End>>),
     Sends(<<Line("POST", "metrics", "1.1"), Host, Host, End>>),
     Sends(<<Line("PUT", "config", "1.1"), Host, Token("length", 2), End, Body, Body>>),
     Waits(<<Line("PUT", "config", "1.1"), Token("expect", TRUE), Host, Token("length", 1),
             End, Body>>),
     Waits(<<Line("PUT", "config", "1.1"), Host, Token("expect", TRUE), Token("length", 9),
             End, Body>>),
     Sends(<<Line("PUT", "config", "1.1"), Host, Token("expect", FALSE), Token("length", 1),
             End, Body>>),
     Sends(<<Line("PUT", "other", "1.1"), Host, Token("encoding", TRUE), End>>),
     Sends(<<Line("GET", "x", "1.1"), End>>)}
RequestPairs == {<<x, y>> : x, y \in Requests}

Http == INSTANCE ApiServer WITH api <- st, Cap <- 8, Scripts <- RequestPairs

-----------------------------------------------------------------------------
(* TLS contexts: a peer of either library, with a shared key or a chain of   *)
(* certificates whose digests and keys are strong or weak.                   *)
Cert(md, key, selfsigned) == [md |-> md, key |-> key, ss |-> selfsigned]
Good == <<Cert(TRUE, TRUE, FALSE), Cert(FALSE, TRUE, TRUE)>>
WeakLeaf == <<Cert(FALSE, TRUE, FALSE), Cert(TRUE, TRUE, TRUE)>>
WeakRoot == <<Cert(TRUE, TRUE, FALSE), Cert(TRUE, FALSE, TRUE)>>
SelfWeak == <<Cert(FALSE, TRUE, TRUE)>>
Default == <<"default">>
TlsConf(p, al, sn, l) == [psk |-> p, alpn |-> al, sni |-> sn, list |-> l, key |-> 1]
SuiteLists == {<<"aes256">>, <<"own", "chacha">>, <<"typo", "aes128">>, <<"old", "aes128">>,
               <<>>, <<"chacha", "aes256">>}
TlsConfs == {TlsConf(p, al, sn, Default) : p, al, sn \in BOOLEAN} \cup
            {TlsConf(p, FALSE, FALSE, l) : p \in BOOLEAN, l \in SuiteLists}
KeyPeer(i, b, l) == [id |-> i, psk |-> TRUE, key |-> i, lib |-> b, list |-> l, chain |-> Good]
CertPeer(i, b, l, ch) ==
    [id |-> i, psk |-> FALSE, key |-> 0, lib |-> b, list |-> l, chain |-> ch]
Peers == {KeyPeer(1, "openssl", Default), KeyPeer(2, "mbedtls", <<"aes256", "aes128">>),
          KeyPeer(3, "mbedtls", Default), CertPeer(4, "mbedtls", Default, Good),
          CertPeer(5, "openssl", Default, WeakLeaf), CertPeer(6, "openssl", Default, WeakRoot),
          CertPeer(7, "mbedtls", <<"aes256">>, SelfWeak)}

Tls == INSTANCE TlsContext WITH tls <- st, Confs <- TlsConfs, Peers <- Peers, Keys <- {1, 2}

(* The configuration                                                         *)
Given == INSTANCE MCConfDocs
ConfDocs == Given!Docs
ConfFiles == Given!Files

Conf == INSTANCE Config WITH cf <- st, Docs <- ConfDocs, Files <- ConfFiles,
            IntMax <- 2000000000, MaxClaim <- 2, MaxAddr <- 2, PskMin <- 1, PskMax <- 2

-----------------------------------------------------------------------------
Init ==
    \/ part = "udp" /\ Udp!Init(UdpScenarios)
    \/ part = "table" /\ Table!Init(4)
    \/ part = "mutex" /\ Mutex!Init(2)
    \/ part = "pool" /\ Pool!Init(4)
    \/ part = "wire" /\ Wire!Init({"plain", "mem", "fd"}, 2, 2)
    \/ part = "loop" /\ Loop!Init([start |-> 3, conn |-> 3, err |-> 2])
    \/ part = "timers" /\ Timers!Init(3, 1)
    \/ part = "bdp" /\ Bdp!Init({2, 40})
    \/ part = "boot" /\ Boot!Init(OptionSets, Identities)
    \/ part = "http" /\ Http!Init
    \/ part = "tls" /\ Tls!Init([ctx |-> 1, ref |-> 1, conn |-> 1])
    \/ part = "conf" /\ Conf!Init(24)

Next ==
    /\ UNCHANGED part
    /\ \/ part = "udp" /\ Udp!Next
       \/ part = "table" /\ Table!Next
       \/ part = "mutex" /\ Mutex!Next
       \/ part = "pool" /\ Pool!Next
       \/ part = "wire" /\ Wire!Next
       \/ part = "loop" /\ Loop!Next
       \/ part = "timers" /\ Timers!Next
       \/ part = "bdp" /\ Bdp!Next
       \/ part = "boot" /\ Boot!Next
       \/ part = "http" /\ Http!Next
       \/ part = "tls" /\ Tls!Next
       \/ part = "conf" /\ Conf!Next

Spec == Init /\ [][Next]_vars

-----------------------------------------------------------------------------
(* What a part keeps in its own data structures is what its reference says:  *)
(* a hash table holds the map its calls built whatever it reseeded or        *)
(* resized, the executor's ring is a first-in first-out queue, both flow     *)
(* tables of a relay name the same flows, records cross the wire and answers *)
(* cross the API connection in order, the estimator's filters hold the       *)
(* extremum of their window without overflowing and match each answer to its *)
(* probe, both TLS libraries accept the same peers, and a configuration that *)
(* was accepted obeys every rule and reads back as itself from its dump.     *)
MatchesReference ==
    CASE part = "table" -> Table!IsTheMap /\ Table!SlotsAccounted
      [] part = "pool" -> Pool!RingIsQueue
      [] part = "udp" -> Udp!TablesAgree
      [] part = "wire" -> Wire!InOrder
      [] part = "http" -> Http!AnswersInOrder
      [] part = "bdp" -> Bdp!FilterTracks /\ Bdp!ProbesPaired /\ Bdp!NumbersFit
      [] part = "tls" -> Tls!BackendsAgree
      [] part = "conf" -> Conf!ConfUsable /\ Conf!DumpReadsBack
      [] OTHER -> TRUE

(* Whatever is held is held by exactly those who use it and goes exactly     *)
(* once, on every error path: the shared mutex, the executor's memory, a     *)
(* relay's sockets and flows, the end of a TLS stream, the session's timers, *)
(* the process's privileges and files, a TLS context shared by connections,  *)
(* the blocks of a configuration, and the listening descriptor.              *)
HeldAndReleased ==
    CASE part = "mutex" -> Mutex!Exclusion
      [] part = "pool" -> Pool!FreedLast
      [] part = "udp" -> Udp!SocketsHeld /\ Udp!NoCrossTalk
      [] part = "wire" -> Wire!CleanIsComplete /\ Wire!LossIsReal
      [] part = "timers" -> Timers!TimersFit
      [] part = "boot" -> Boot!NoOptionIgnored /\ Boot!PrivilegesDropped /\ Boot!CleanExit
      [] part = "tls" -> Tls!HoldsBalanced /\ Tls!PeerProved
      [] part = "conf" -> Conf!ConfOwnsItsBlocks
      [] part = "loop" -> Loop!NoDescriptorLost
      [] OTHER -> TRUE

(* Whoever waits has somebody or some timer left to wake it: threads in the  *)
(* shared mutex and the executor, idle flows, a wire that holds bytes, each  *)
(* phase of a session, the bandwidth probe's gate, a client that awaits an   *)
(* answer, the launcher that awaits its daemon, and a listener that paused.  *)
NeverStuck ==
    CASE part = "mutex" -> Mutex!NoLostWakeup
      [] part = "pool" -> Pool!NoSleeper
      [] part = "udp" -> Udp!SweepsRun
      [] part = "wire" -> Wire!NoStall
      [] part = "timers" -> Timers!DeadlineRuns /\ Timers!Watched
      [] part = "bdp" -> Bdp!GateReopens
      [] part = "boot" -> Boot!LauncherKnows
      [] part = "http" -> Http!NothingOwed
      [] part = "loop" -> Loop!NeverDeaf
      [] OTHER -> TRUE
=============================================================================
