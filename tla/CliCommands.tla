----------------------------- MODULE CliCommands -----------------------------
(***************************************************************************)
(* The commands of the command line client over one home directory         *)
(* (clients/cli/internal/app): login, import, start, stop, logout and      *)
(* device start, which exclude each other by the operation lock, and       *)
(* rotate-ip, which loads and may refresh the saved configuration without  *)
(* it.  The engine may die at any time, the Hub may change what it serves, *)
(* other programs take and free ports, and a command may be killed between *)
(* two of its steps or fail to write a file.                               *)
(***************************************************************************)
EXTENDS Naturals

CONSTANTS Contents,   \* configurations the Hub may serve
          Options,    \* values of --port; 0 is the default
          Modes,      \* values of --fast
          DefaultPort,
          LegacyHub,  \* the Hub may still answer with a private key of its own
          Devices,    \* device start is used
          Rotating,   \* rotate-ip is used
          Faults,     \* commands are killed, stops are refused, writes fail
          MaxKeys     \* bound: keys the client generates

VARIABLES
  cfg,        \* config.yaml
  key,        \* wireguard/client.key, 0 when absent
  print,      \* runtime.sha256, the fingerprint of what start launched
  engine,     \* the running engine, or None
  hub, peer,  \* what the Hub serves, and the client key it routes to
  taken,      \* ports held by other programs
  main, rot,  \* the command under the operation lock, and rotate-ip
  made,       \* keys generated so far
  answer,     \* the last answer of start, with the configuration it was about
  loggedOut   \* the last command that touched the login was a successful logout

home == <<cfg, key, print>>
world == <<hub, peer, taken, made>>
vars == <<home, engine, world, main, rot, answer, loggedOut>>

None == [kind |-> "none"]
DeviceBody == "device"
\* A private key the client did not make: an old Hub's, or that of an imported file.
ForeignKey == MaxKeys + 1

Ports == {DefaultPort} \cup (Options \ {0})

\* A configuration in memory: where it came from, what it routes, its key and port.
Configs == [kind : {"token", "manual", "device"}, body : Contents \cup {DeviceBody},
            full : BOOLEAN, key : 0..ForeignKey, port : Ports]
Launched == [kind : {"engine"}, conf : Configs, fast : BOOLEAN]

Idle == [pc |-> "idle"]
Task(pc, cmd, conf, port, fast, seen) ==
  [pc |-> pc, cmd |-> cmd, conf |-> conf, port |-> port, fast |-> fast, seen |-> seen]

\* No fetched key is on disk with the configuration, and an engine has a key and a port of
\* its own.
TypeOK ==
  /\ cfg \in Configs \cup {None} /\ (cfg # None => cfg.key = 0 \/ cfg.kind = "manual")
  /\ key \in 0..MaxKeys /\ made \in 0..MaxKeys /\ peer \in 0..MaxKeys /\ key <= made
  /\ engine \in Launched \cup {None} /\ (engine # None => engine.conf.key # 0 /\ engine.conf.port \notin taken)
  /\ hub \in Contents /\ taken \subseteq Ports /\ loggedOut \in BOOLEAN

Init ==
  /\ cfg = None /\ key = 0 /\ print = None /\ engine = None
  /\ hub \in Contents /\ peer = 0 /\ taken = {} /\ made = 0
  /\ main = Idle /\ rot = Idle /\ answer = None /\ loggedOut = FALSE

(***************************************************************************)
(* Helpers                                                                 *)
(***************************************************************************)
\* saveClientConfigCache: the routing metadata without the private key.
Cache(c) == [c EXCEPT !.key = 0]

\* runtimeFingerprint: what the engine routes, its key, address and mode.
Fingerprint(c, fast) == [kind |-> "sha256", of |-> <<c.body, c.key, c.port, fast>>]

RuntimeConfigMatches(c, fast) == print = Fingerprint(c, fast)

\* netcheck.TCP: somebody listens on the port.
Reachable(port) == port \in taken \/ (engine # None /\ engine.conf.port = port)

\* ensureLocalWireGuardKey: the key of the file, or a new one.
LocalKey == IF key = 0 THEN made + 1 ELSE key

EnsureKey ==
  /\ LocalKey <= MaxKeys
  /\ key' = LocalKey /\ made' = IF key = 0 THEN made + 1 ELSE made

\* bootstrap.Fetch and fetchBootstrapWithLocalKey: the Hub routes to the key it was sent
\* and answers with what it serves; an old Hub adds a private key of its own.
Fetched(k) ==
  {[kind |-> "token", body |-> hub, full |-> TRUE, key |-> private, port |-> DefaultPort] :
     private \in {k} \cup (IF LegacyHub THEN {ForeignKey} ELSE {})}

NeedsBootstrap(c) == c.kind = "token" /\ ~c.full

(***************************************************************************)
(* The steps login and start share                                         *)
(***************************************************************************)
FindKey ==
  /\ main.pc = "key" /\ EnsureKey
  /\ main' = [main EXCEPT !.pc = "fetch", !.conf = [@ EXCEPT !.key = LocalKey]]
  /\ UNCHANGED <<cfg, print, engine, hub, peer, taken, rot, answer, loggedOut>>

Fetch ==
  /\ main.pc = "fetch"
  /\ \/ /\ \E c \in Fetched(main.conf.key) : main' = [main EXCEPT !.pc = "save", !.conf = c]
        /\ peer' = main.conf.key
     \/ main' = Idle /\ peer' \in {peer, main.conf.key}
  /\ UNCHANGED <<home, engine, hub, taken, made, rot, answer, loggedOut>>

SaveCache ==
  /\ main.pc = "save" /\ cfg' = Cache(main.conf)
  /\ main' = IF main.cmd = "login" THEN Idle ELSE [main EXCEPT !.pc = "port"]
  /\ UNCHANGED <<key, print, engine, world, rot, answer, loggedOut>>

(***************************************************************************)
(* login, import, logout, stop                                             *)
(***************************************************************************)
Blank == [kind |-> "token", body |-> DeviceBody, full |-> FALSE, key |-> 0, port |-> DefaultPort]

Login ==
  /\ main = Idle
  /\ main' = Task("key", "login", Blank, 0, FALSE, None)
  /\ loggedOut' = FALSE
  /\ UNCHANGED <<home, engine, world, rot, answer>>

\* A file with its own key, or one with a token only, which Validate lets through.
Import ==
  /\ main = Idle
  /\ \E b \in Contents, manual \in BOOLEAN :
       cfg' = [kind |-> IF manual THEN "manual" ELSE "token", body |-> b, full |-> manual,
               key |-> IF manual THEN ForeignKey ELSE 0, port |-> DefaultPort]
  /\ loggedOut' = FALSE
  /\ UNCHANGED <<key, print, engine, world, main, rot, answer>>

\* proxy.Stop: the engine is gone, or it refuses.
StopEngine == engine' = None

Stop ==
  /\ main = Idle
  /\ \/ StopEngine /\ print' = None
     \/ Faults /\ StopEngine /\ print' = print
  /\ UNCHANGED <<cfg, key, world, main, rot, answer, loggedOut>>

Logout ==
  /\ main = Idle
  /\ \/ StopEngine /\ main' = Task("forget", "logout", Blank, 0, FALSE, None)
     \/ Faults /\ UNCHANGED <<engine, main>>
  /\ UNCHANGED <<home, world, rot, answer, loggedOut>>

ForgetConfig ==
  /\ main.pc = "forget" /\ cfg' = None /\ main' = [main EXCEPT !.pc = "forgetKey"]
  /\ UNCHANGED <<key, print, engine, world, rot, answer, loggedOut>>

ForgetKey ==
  /\ main.pc = "forgetKey" /\ key' = 0 /\ print' = None /\ main' = Idle
  /\ loggedOut' = TRUE
  /\ UNCHANGED <<cfg, engine, world, rot, answer>>

(***************************************************************************)
(* start                                                                   *)
(***************************************************************************)
\* Inspect, then the saved configuration; a token is refreshed before anything else.
Start(port, fast) ==
  /\ main = Idle /\ cfg # None /\ cfg.kind # "device"
  /\ main' = Task(IF cfg.kind = "manual" THEN "port" ELSE "key", "start", cfg, port, fast, engine)
  /\ UNCHANGED <<home, engine, world, rot, answer, loggedOut>>

\* --port: the effective port is kept in the cache.
ApplyPort ==
  /\ main.pc = "port"
  /\ LET c == IF main.port = 0 THEN main.conf ELSE [main.conf EXCEPT !.port = main.port]
     IN /\ main' = [main EXCEPT !.pc = "decide", !.conf = c]
        /\ cfg' = IF main.port = 0 THEN cfg ELSE Cache(c)
  /\ UNCHANGED <<key, print, engine, world, rot, answer, loggedOut>>

\* What start concludes from the engine it saw at its beginning and the port it finds now.
Keeps ==
  /\ main.seen # None /\ main.seen.conf.port = main.conf.port
  /\ Reachable(main.conf.port) /\ RuntimeConfigMatches(main.conf, main.fast)

\* The running engine is the one the command was about.
Runs(c, fast) ==
  /\ engine.conf.body = c.body /\ engine.conf.key = c.key
  /\ engine.conf.port = c.port /\ engine.fast = fast

\* An engine that died since Inspect is nobody's mistake.
AlreadyRunning ==
  /\ main.pc = "decide" /\ Keeps
  /\ answer' = [kind |-> "running", truly |-> engine = None \/ Runs(main.conf, main.fast)]
  /\ main' = Idle
  /\ UNCHANGED <<home, engine, world, rot, loggedOut>>

RestartEngine ==
  /\ main.pc = "decide" /\ ~Keeps /\ main.seen # None
  /\ \/ StopEngine /\ main' = [main EXCEPT !.pc = "launch"]
     \/ Faults /\ main' = Idle /\ UNCHANGED engine
  /\ UNCHANGED <<home, world, rot, answer, loggedOut>>

PortOccupied ==
  /\ main.pc = "decide" /\ ~Keeps /\ main.seen = None
  /\ main' = IF Reachable(main.conf.port) THEN Idle ELSE [main EXCEPT !.pc = "launch"]
  /\ UNCHANGED <<home, engine, world, rot, answer, loggedOut>>

Launch ==
  /\ main.pc = "launch"
  /\ \/ /\ main.conf.port \notin taken /\ main.conf.key # 0
        /\ engine' = [kind |-> "engine", conf |-> main.conf, fast |-> main.fast]
        /\ main' = IF main.cmd = "start" THEN [main EXCEPT !.pc = "print"] ELSE Idle
     \/ engine' = None /\ main' = Idle
  /\ UNCHANGED <<home, world, rot, answer, loggedOut>>

WriteFingerprint ==
  /\ main.pc = "print"
  /\ print' = Fingerprint(main.conf, main.fast)
  /\ answer' = [kind |-> "started", truly |-> TRUE]
  /\ main' = Idle
  /\ UNCHANGED <<cfg, key, engine, world, rot, loggedOut>>

(***************************************************************************)
(* device start                                                            *)
(***************************************************************************)
\* It takes over no engine and no port; the projection carries the device's key.
DeviceStart(port) ==
  /\ Devices /\ main = Idle /\ engine = None
  /\ LET c == [kind |-> "device", body |-> DeviceBody, full |-> TRUE, key |-> ForeignKey,
               port |-> IF port = 0 THEN DefaultPort ELSE port]
     IN ~Reachable(c.port) /\ main' = Task("saveDevice", "device", c, 0, FALSE, None)
  /\ loggedOut' = FALSE
  /\ UNCHANGED <<home, engine, world, rot, answer>>

SaveDevice ==
  /\ main.pc = "saveDevice" /\ cfg' = Cache(main.conf)
  /\ main' = [main EXCEPT !.pc = "launch"]
  /\ UNCHANGED <<key, print, engine, world, rot, answer, loggedOut>>

(***************************************************************************)
(* rotate-ip: loadInstalledConfig without the operation lock               *)
(***************************************************************************)
RotateIP ==
  /\ Rotating /\ rot = Idle /\ cfg # None /\ NeedsBootstrap(cfg)
  /\ rot' = [pc |-> "key"]
  /\ UNCHANGED <<home, engine, world, main, answer, loggedOut>>

\* The key file is read first and written later.
RotateReadsKey ==
  /\ rot.pc = "key" /\ LocalKey <= MaxKeys
  /\ rot' = [pc |-> IF key = 0 THEN "writeKey" ELSE "fetch", key |-> LocalKey]
  /\ made' = IF key = 0 THEN made + 1 ELSE made
  /\ UNCHANGED <<home, engine, hub, peer, taken, main, answer, loggedOut>>

RotateWritesKey ==
  /\ rot.pc = "writeKey" /\ key' = rot.key /\ rot' = [rot EXCEPT !.pc = "fetch"]
  /\ UNCHANGED <<cfg, print, engine, world, main, answer, loggedOut>>

RotateFetches ==
  /\ rot.pc = "fetch"
  /\ \/ /\ \E c \in Fetched(rot.key) : rot' = [pc |-> "save", conf |-> c]
        /\ peer' = rot.key
     \/ rot' = Idle /\ peer' = peer
  /\ UNCHANGED <<home, engine, hub, taken, made, main, answer, loggedOut>>

RotateSaves ==
  /\ rot.pc = "save" /\ cfg' = Cache(rot.conf) /\ rot' = Idle
  /\ UNCHANGED <<key, print, engine, world, main, answer, loggedOut>>

(***************************************************************************)
(* The surroundings                                                        *)
(***************************************************************************)
EngineDies ==
  /\ engine # None /\ engine' = None
  /\ UNCHANGED <<home, world, main, rot, answer, loggedOut>>

HubChanges ==
  /\ \E b \in Contents \ {hub} : hub' = b
  /\ UNCHANGED <<home, engine, peer, taken, made, main, rot, answer, loggedOut>>

OtherProgram ==
  /\ \E p \in Ports :
       \/ p \in taken /\ taken' = taken \ {p}
       \/ p \notin taken /\ ~Reachable(p) /\ taken' = taken \cup {p}
  /\ UNCHANGED <<home, engine, hub, peer, made, main, rot, answer, loggedOut>>

\* A kill, or a file that cannot be written: the command ends where it is.
Killed ==
  /\ Faults /\ main # Idle /\ main' = Idle
  /\ UNCHANGED <<home, engine, world, rot, answer, loggedOut>>

Next ==
  \/ Login \/ Import \/ Stop \/ Logout \/ ForgetConfig \/ ForgetKey
  \/ FindKey \/ Fetch \/ SaveCache
  \/ \E port \in Options, fast \in Modes : Start(port, fast)
  \/ ApplyPort \/ AlreadyRunning \/ RestartEngine \/ PortOccupied \/ Launch \/ WriteFingerprint
  \/ \E port \in Options : DeviceStart(port)
  \/ SaveDevice
  \/ RotateIP \/ RotateReadsKey \/ RotateWritesKey \/ RotateFetches \/ RotateSaves
  \/ EngineDies \/ HubChanges \/ OtherProgram \/ Killed

Spec == Init /\ [][Next]_vars

(***************************************************************************)
(* Properties                                                              *)
(***************************************************************************)
\* When start answers that the proxy is already running, the running engine has the
\* configuration, the key and the mode this start was asked for.
AnsweredTruly == answer # None => answer.truly

\* start stops a running engine only to run something else.
NoNeedlessRestart ==
  [][main.pc = "decide" /\ main'.pc = "launch" /\ engine # None
       => ~Runs(main.conf, main.fast)]_vars

\* The Hub routes to the key of the engine that runs: login, start, import and logout, in
\* any order and killed anywhere, never leave an engine whose key the Hub has replaced.
EnginePeerAgrees ==
  engine # None /\ engine.conf.kind = "token" /\ engine.conf.key # ForeignKey
    => peer = engine.conf.key

\* logout removes the saved configuration, so that the next status reports that nothing is
\* configured, until somebody logs in, imports or starts a device.
LoggedOutStaysOut == loggedOut => cfg = None
=============================================================================
