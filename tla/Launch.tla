------------------------------- MODULE Launch -------------------------------
(***************************************************************************)
(* Start and end of the program: src/src/main.c and daemonize of csnippets *)
(* os/daemon.c.  With --daemonize the process forks twice and the original *)
(* one waits on a pipe for the daemon's word; any step may fail and the    *)
(* original process may be killed at any moment.  The process that runs    *)
(* main() to its end is "main"; before the fork it is also the launcher.   *)
(*                                                                         *)
(* An identity given to --user is [u, colon, g]; the accounts known to the *)
(* system are root and nobody, each with its primary group.                *)
(***************************************************************************)
EXTENDS Integers, FiniteSets

VARIABLE boot

Oneshots == {"genpsk", "gencerts", "dump"}

-----------------------------------------------------------------------------
(* parse_args, after the loop over argv.                                   *)
OneshotConflict(opts) == Cardinality(opts \cap Oneshots) > 1

(* Defect: the config file of a key generation is not reported as unread.  *)
OneshotUnreadNoConfig(opts) == opts \cap Oneshots # {} /\ opts \cap {"daemonize", "user"} # {}

OneshotUnread(opts) ==
    opts \cap Oneshots # {} /\ (opts \cap {"daemonize", "user"} # {} \/ ("config" \in opts /\ "dump" \notin opts))

ArgsRejected(opts) ==
    OneshotConflict(opts) \/ OneshotUnread(opts) \/ ("certopt" \in opts /\ "gencerts" \notin opts)

(* The options the rest of main() looks at in the run that is made.        *)
OptionsRead(opts) ==
    IF "genpsk" \in opts THEN {"genpsk"}
    ELSE IF "gencerts" \in opts THEN {"gencerts", "certopt"}
    ELSE IF "dump" \in opts THEN {"dump", "config"}
    ELSE {"config", "daemonize", "user"}

-----------------------------------------------------------------------------
(* Ends of the main process: exit() returns through the frees the code     *)
(* makes on that path, abort() does not.                                   *)
Exit(b, code) == [b EXCEPT !.pc = code, !.writers = @ \ {"main"}]
Abort(b) == Exit(b, "abort")
ConfFree(b, conf) == [b EXCEPT !.freed = @ \cup {conf}, !.twice = @ \/ conf \in b.freed]
ServerFree(b) == [b EXCEPT !.server = "freed"]
FailStartup(b) == Exit(ConfFree(ServerFree(b), "startup"), "exit1")

At(pc) == boot.pc = pc
Go(b, pc) == [b EXCEPT !.pc = pc]

ParseArgs ==
    /\ At("args")
    /\ boot' = IF ArgsRejected(boot.opts) THEN Exit(boot, "exit1")
               ELSE IF boot.opts \cap {"genpsk", "gencerts"} # {} THEN Go(boot, "generate")
               ELSE IF boot.opts \cap {"config", "dump"} = {} THEN Exit(boot, "exit1")
               ELSE Go(boot, "load")

Generate == At("generate") /\ \E ok \in BOOLEAN : boot' = Exit(boot, IF ok THEN "exit0" ELSE "exit1")

LoadConfig ==
    At("load") /\ \E ok \in BOOLEAN :
        boot' = IF ok THEN [boot EXCEPT !.pc = "pem", !.conf = "startup"] ELSE Exit(boot, "exit1")
InlinePem ==
    At("pem") /\ \E ok \in BOOLEAN :
        boot' = IF ~ok THEN Exit(ConfFree(boot, "startup"), "exit1")
                ELSE Go(boot, IF "dump" \in boot.opts THEN "dump" ELSE "new")
DumpConfig ==
    At("dump") /\ \E ok \in BOOLEAN : boot' = Exit(ConfFree(boot, "startup"), IF ok THEN "exit0" ELSE "exit1")

NewServer ==
    At("new") /\ \E ok \in BOOLEAN :
        boot' = IF ~ok THEN Exit(ConfFree(boot, "startup"), "exit1")
                ELSE [boot EXCEPT !.server = "new", !.pc = IF "daemonize" \in boot.opts THEN "pipe" ELSE "start"]

-----------------------------------------------------------------------------
(* daemonize().  fd is where the pipe's ends are: a standard descriptor    *)
(* that was closed before the start is the lowest free one.                *)
Relocate(b, ok) == IF b.fd = "high" THEN Go(b, "fork1") ELSE IF ok THEN [b EXCEPT !.fd = "high", !.pc = "fork1"] ELSE Abort(b)

OpenPipe == At("pipe") /\ \E ok, moved \in BOOLEAN : boot' = IF ok THEN Relocate(boot, moved) ELSE Abort(boot)

(* The original process keeps the read end, the child the write end.       *)
(* Defect: the original process keeps its copy of the write end.           *)
FirstForkKeepsEnd(b) == [b EXCEPT !.pc = "fork2", !.launcher = "reading", !.writers = {"main", "launcher"}]
FirstFork(b) == [b EXCEPT !.pc = "fork2", !.launcher = "reading", !.writers = {"main"}]

Fork1 == At("fork1") /\ \E ok \in BOOLEAN : boot' = IF ok THEN FirstFork(boot) ELSE Abort(boot)
(* The intermediate child leaves its copy of the write end by _exit().     *)
Fork2 == At("fork2") /\ \E ok \in BOOLEAN :
    boot' = IF ok THEN [boot EXCEPT !.pc = "reopen", !.writers = @ \cup {"child"}] ELSE Abort(boot)
ChildExits == "child" \in boot.writers /\ boot' = [boot EXCEPT !.writers = @ \ {"child"}]

Reopen == At("reopen") /\ \E ok \in BOOLEAN :
    boot' = IF ~ok THEN Abort(boot)
            ELSE [boot EXCEPT !.pc = "notify", !.fd = IF @ = "low" THEN "null" ELSE @]

NotifyReady(b) ==
    [b EXCEPT !.pc = "start", !.writers = @ \ {"main"}, !.told = b.fd = "high" /\ b.launcher = "reading"]
Notify == At("notify") /\ boot' = NotifyReady(boot)

LauncherReads ==
    /\ boot.launcher = "reading"
    /\ \/ boot.told /\ boot' = [boot EXCEPT !.launcher = "exit0"]
       \/ ~boot.told /\ boot.writers = {} /\ boot' = [boot EXCEPT !.launcher = "abort"]
LauncherKilled == boot.launcher = "reading" /\ boot' = [boot EXCEPT !.launcher = "killed", !.writers = @ \ {"launcher"}]

-----------------------------------------------------------------------------
(* server_start, then the privileges, then the loop.                       *)
StartServer ==
    At("start") /\ \E ok \in BOOLEAN :
        boot' = IF ok /\ (boot.uid = "root" \/ ~boot.low)
                THEN [boot EXCEPT !.server = "started", !.pc = IF "user" \in boot.opts THEN "drop" ELSE "loop"]
                ELSE FailStartup([boot EXCEPT !.denied = @ \/ (ok /\ boot.start = "root")])

Known == {"root", "nobody"}
HasUid(id) == id.u # "none"
HasGid(id) == id.g # "none" \/ (id.u # "none" /\ id.colon)
GroupOf(id) == IF id.g # "none" THEN id.g ELSE id.u
Resolves(id) == (HasUid(id) => id.u \in Known) /\ (HasGid(id) => GroupOf(id) \in Known) /\ (HasUid(id) \/ HasGid(id))

(* setgid() and setgroups() need the root user.                            *)
SetGroups(b) == IF b.uid = "root" THEN [b EXCEPT !.extra = FALSE] ELSE Abort(b)
SetGid(b, id) == IF b.pc = "abort" \/ ~HasGid(id) THEN b
                 ELSE IF b.uid = "root" THEN [b EXCEPT !.gid = GroupOf(id)] ELSE Abort(b)
SetUid(b, id) == IF b.pc = "abort" \/ ~HasUid(id) THEN b ELSE [b EXCEPT !.uid = id.u]
(* Defect: the user is changed before the group.                           *)
DropPrivilegesUserFirst(b, id) == IF Resolves(id) THEN SetGid(SetUid(SetGroups(b), id), id) ELSE Abort(b)
DropPrivileges(b, id) == IF Resolves(id) THEN SetUid(SetGid(SetGroups(b), id), id) ELSE Abort(b)

ChangesUid(id) == HasUid(id)
ChangesGid(id) == id.colon /\ (id.g # "none" \/ id.u # "none")
(* Defect: the result of the change is not read back.                      *)
DropVerifiedNot(b, id) == TRUE
DropVerified(b, id) == (ChangesUid(id) => b.uid # "root") /\ (ChangesGid(id) => b.gid # "root")

Dropped(b, id) == IF b.pc = "abort" THEN b ELSE IF DropVerified(b, id) THEN Go(b, "loop") ELSE FailStartup(b)
Drop == At("drop") /\ boot' = Dropped(DropPrivileges(boot, boot.identity), boot.identity)

(* A reload in the loop frees the config in force and installs another.    *)
Reload == At("loop") /\ boot.conf = "startup" /\ boot' = [ConfFree(boot, "startup") EXCEPT !.conf = "reloaded"]
(* Defect: main() frees the config it loaded.                              *)
LoopEndsStartup(b) == Exit(ConfFree(ServerFree(b), "startup"), "exit0")
LoopEnds(b) == Exit(ConfFree(ServerFree(b), b.conf), "exit0")
Finish == At("loop") /\ boot' = LoopEnds(boot)

Init(OptionSets, Identities) ==
    \E opts \in OptionSets, id \in Identities, fd \in {"low", "high"}, low \in BOOLEAN, as \in {"root", "nobody"} :
      /\ "user" \notin opts => id = CHOOSE i \in Identities : TRUE
      /\ boot = [opts |-> opts, identity |-> id, fd |-> fd, low |-> low, start |-> as, uid |-> as, gid |-> as, extra |-> TRUE,
                 pc |-> "args", launcher |-> "none", writers |-> {"main"}, told |-> FALSE, denied |-> FALSE,
                 conf |-> "none", server |-> "none", freed |-> {}, twice |-> FALSE]

Next ==
    \/ ParseArgs \/ Generate \/ LoadConfig \/ InlinePem \/ DumpConfig \/ NewServer
    \/ OpenPipe \/ Fork1 \/ Fork2 \/ ChildExits \/ Reopen \/ Notify \/ LauncherReads \/ LauncherKilled
    \/ StartServer \/ Drop \/ Reload \/ Finish

-----------------------------------------------------------------------------
(* A command line that is accepted has no option the run would ignore.     *)
NoOptionIgnored == boot.pc \notin {"args", "exit1"} => boot.opts \subseteq OptionsRead(boot.opts)

(* The original process reports success only for a daemon that finished    *)
(* daemonize(), reports failure only for one that did not, and is never    *)
(* left waiting; losing it never ends the daemon.                          *)
LauncherKnows ==
    /\ boot.launcher = "exit0" => boot.told
    /\ boot.launcher = "abort" => boot.pc = "abort"
    /\ boot.launcher = "reading" /\ ~boot.told => boot.writers \in SUBSET {"main", "child"} /\ (boot.writers = {} => boot.pc = "abort")
    /\ boot.pc # "killed"

(* Once the loop runs, everything --user asked to change is no longer      *)
(* root's, no supplementary group is left, and no listener was refused its *)
(* port because the change came too early.                                 *)
PrivilegesDropped ==
    /\ At("loop") /\ "user" \in boot.opts =>
         /\ HasUid(boot.identity) => boot.uid = boot.identity.u /\ boot.uid # "root"
         /\ HasGid(boot.identity) => boot.gid = GroupOf(boot.identity) /\ boot.gid # "root"
         /\ ~boot.extra
    /\ ~boot.denied
    /\ boot.pc = "abort" /\ boot.server = "started" => boot.start # "root" \/ ~Resolves(boot.identity)

(* Every path that returns from main() has freed the server and, exactly   *)
(* once, the config in force.                                              *)
CleanExit ==
    /\ ~boot.twice
    /\ boot.pc \in {"exit0", "exit1"} => boot.server \in {"none", "freed"} /\ (boot.conf = "none" \/ boot.conf \in boot.freed)
=============================================================================
