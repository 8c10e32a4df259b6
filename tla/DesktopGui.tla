------------------------------ MODULE DesktopGui ------------------------------
(***************************************************************************)
(* The Windows desktop GUI (clients/desktop-gui/src-tauri/src/lib.rs) and  *)
(* what it asks of the CLI it carries as a sidecar.                        *)
(*                                                                         *)
(* Connect, disconnect, logout, quit and the reconciliation at start run   *)
(* one at a time, under ACTION_LOCK; each is a sequence of CLI calls whose *)
(* answers may get lost.  The GUI remembers in memory which lease of the   *)
(* system proxy is its own (GUI_PROXY_LEASE) and whether the last proxy    *)
(* operation failed (SYSTEM_PROXY_ERROR).  The engine, the lease and the   *)
(* journal belong to the CLI, and other callers of the same home (the SDK, *)
(* a terminal) use them at the same time.  One CLI command is one step     *)
(* here; SystemProxyLease and EngineRuntime open them up.                  *)
(***************************************************************************)
EXTENDS Integers

CONSTANTS
    MaxGui,      \* bound: GUI processes
    MaxEngine,   \* bound: engine instances; a start beyond it is refused
    MaxLease,    \* bound: leases; an acquisition beyond it is refused
    Faults       \* of "lost" answers, "fail"ing steps, an engine that "die"s, a GUI "crash"

VARIABLES
    home,    \* what the CLI keeps: engine, claim, journal, configuration
    gui,     \* "off", "open", "quit" (ended by the user), "crashed"
    guis,    \* GUI processes so far; the last one is the current session
    lease,   \* GUI_PROXY_LEASE, 0 for None
    err,     \* SYSTEM_PROXY_ERROR is set
    due,     \* the reconciliation at start has yet to get ACTION_LOCK
    act,     \* the holder of ACTION_LOCK: operation and its argument
    cmd,     \* the sidecar the holder waits for
    orphan   \* a sidecar whose GUI crashed

mine == <<gui, guis, lease, err, due, act>>
guiVars == <<home, mine, cmd, orphan>>

Free == [kind |-> "none"]
V1Journal == [kind |-> "v1"]             \* the journal of an older GUI
Foreign == [kind |-> "foreign"]   \* a lease of another home of this user
Lease(id, owner, by) == [kind |-> "cli", id |-> id, owner |-> owner, by |-> by]
Sdk == 0                          \* "by" of a caller that is no GUI session

NoCmd == [op |-> "none", id |-> 0, by |-> 0, res |-> "none", got |-> 0]
NoAction == [op |-> "idle", arg |-> "none"]

GuiTypeOK ==
    /\ home.engine \in 0..MaxEngine /\ home.engines \in 0..MaxEngine
    /\ home.claim \in BOOLEAN /\ home.conf \in BOOLEAN /\ home.leases \in 0..MaxLease
    /\ \/ home.journal \in {Free, V1Journal, Foreign}
       \/ home.journal \in {Lease(i, o, b) : i \in 1..MaxLease, o \in 1..MaxEngine, b \in 0..MaxGui}
    /\ gui \in {"off", "open", "quit", "crashed"} /\ guis \in 0..MaxGui
    /\ lease \in 0..MaxLease /\ err \in BOOLEAN /\ due \in BOOLEAN
    /\ act.op \in {"idle", "startup", "connect", "disconnect", "logout", "quit"}
    /\ (cmd = NoCmd) = (act = NoAction) /\ (gui # "open" => act = NoAction)

GuiInit ==
    /\ \E j \in {Free, V1Journal, Foreign}, c \in BOOLEAN :
          home = [engine |-> 0, engines |-> 0, claim |-> FALSE, journal |-> j, leases |-> 0, conf |-> c]
    /\ gui = "off" /\ guis = 0 /\ lease = 0 /\ err = FALSE /\ due = FALSE
    /\ act = NoAction /\ cmd = NoCmd /\ orphan = NoCmd

-----------------------------------------------------------------------------
(* The CLI commands: the set of [res, got, home] a command may end with.   *)

Answer(r, i, h) == [res |-> r, got |-> i, home |-> h]
May(f, S) == IF f \in Faults THEN S ELSE {}
Own(h) == h.journal.kind = "cli" /\ h.journal.owner = h.engine

\* system-proxy acquire: the engine's own record is used again, any other is
\* in the way.  A step that fails after the record was created leaves it.
CliAcquire(h, by) ==
    IF h.engine = 0 \/ (h.journal # Free /\ ~Own(h)) \/ (h.journal = Free /\ h.leases = MaxLease)
    THEN {Answer("refused", 0, h)}
    ELSE LET j == IF Own(h) THEN h.journal ELSE Lease(h.leases + 1, h.engine, by)
             n == [h EXCEPT !.journal = j, !.claim = TRUE, !.leases = IF Own(h) THEN @ ELSE @ + 1]
         IN  {Answer(IF Own(h) THEN "noop" ELSE "ok", j.id, n)} \cup May("fail", {Answer("refused", 0, n)})

\* system-proxy release --lease-id
CliRelease(h, id) ==
    IF h.engine = 0 \/ (h.journal # Free /\ ~(Own(h) /\ h.journal.id = id))
    THEN {Answer("refused", 0, h)}
    ELSE {Answer("ok", IF h.journal = Free THEN 0 ELSE id, [h EXCEPT !.journal = Free, !.claim = FALSE])}
            \cup (IF h.journal = Free THEN {} ELSE May("fail", {Answer("refused", 0, h)}))

\* system-proxy recover: only of this home, only while its engine is stopped
CliRecover(h) ==
    IF h.journal = Free THEN {Answer("ok", 0, h)}
    ELSE IF h.journal.kind # "cli" \/ h.engine # 0 THEN {Answer("refused", 0, h)}
    ELSE {Answer("ok", h.journal.id, [h EXCEPT !.journal = Free])} \cup May("fail", {Answer("refused", 0, h)})

Inspect(h) ==
    {Answer(CASE h.journal = Free -> "absent" [] h.journal = V1Journal -> "refused"
              [] h.journal = Foreign -> "foreign" [] OTHER -> "recorded", 0, h)}

Status(h) ==
    {Answer(IF ~h.conf THEN "degraded" ELSE IF h.engine = 0 THEN "stopped" ELSE "ready", 0, h)}

\* stop: BeforeStop gives the engine's own lease back first, and a failure of
\* that keeps the engine
CliStop(h) ==
    LET releases == h.engine # 0 /\ h.claim /\ Own(h)
        down == [h EXCEPT !.engine = 0, !.claim = FALSE, !.journal = IF releases THEN Free ELSE @]
    IN  {Answer("ok", 0, down)} \cup (IF releases THEN May("fail", {Answer("refused", 0, h)}) ELSE {})

\* start: a running engine stays, or is replaced when the options changed
Fresh(h) == [h EXCEPT !.engine = h.engines + 1, !.engines = @ + 1, !.claim = FALSE]

Start(h) ==
    IF ~h.conf THEN {Answer("refused", 0, h)}
    ELSE (IF h.engine # 0 THEN {Answer("ok", 0, h)} ELSE May("fail", {Answer("refused", 0, h)}))
         \cup {IF a.res = "ok" /\ h.engines < MaxEngine THEN Answer("ok", 0, Fresh(a.home))
               ELSE Answer("refused", 0, a.home) : a \in CliStop(h)}

Logout(h) == {IF a.res = "ok" THEN Answer("ok", 0, [a.home EXCEPT !.conf = FALSE]) ELSE a : a \in CliStop(h)}

Effects(c, h) ==
    CASE c.op = "acquire" -> CliAcquire(h, c.by)
      [] c.op = "release" -> CliRelease(h, c.id)
      [] c.op = "recover" -> CliRecover(h)
      [] c.op = "inspect" -> Inspect(h)
      [] c.op = "status" -> Status(h)
      [] c.op = "start" -> Start(h)
      [] c.op = "stop" -> CliStop(h)
      [] c.op = "logout" -> Logout(h)

\* The sidecar does its work and answers; the answer may not arrive.
CmdRuns ==
    /\ cmd.res = "sent"
    /\ \E a \in Effects(cmd, home) :
          /\ home' = a.home
          /\ \E r \in {a.res} \cup May("lost", {"lost"}) : cmd' = [cmd EXCEPT !.res = r, !.got = a.got]
    /\ UNCHANGED <<mine, orphan>>

\* sidecar: the command could not be run at all.
CmdFails ==
    /\ cmd.res = "sent" /\ "lost" \in Faults
    /\ cmd' = [cmd EXCEPT !.res = "lost"]
    /\ UNCHANGED <<home, mine, orphan>>

OrphanRuns ==
    /\ orphan # NoCmd /\ orphan' = NoCmd
    /\ \E a \in Effects(orphan, home) : home' = a.home
    /\ UNCHANGED <<mine, cmd>>

-----------------------------------------------------------------------------
(* The GUI *)

Call(op, id) == cmd' = [op |-> op, id |-> id, by |-> guis, res |-> "sent", got |-> 0]
Answered(op) == gui = "open" /\ cmd.op = op /\ cmd.res # "sent"
Done == act' = NoAction /\ cmd' = NoCmd
BeginAction == gui = "open" /\ act = NoAction

\* A legacy journal that could not be restored counts as restored.
RestoreLegacyBestEffort(ok) ==
    /\ ok
    /\ IF home.journal = V1Journal
       THEN home' \in {[home EXCEPT !.journal = Free]} \cup May("fail", {home})
       ELSE home' = home

\* restore_legacy: only a v1 journal is the GUI's to restore; ok says whether
\* that succeeded, and any other journal counts as success
RestoreLegacyProxy(ok) ==
    IF home.journal = V1Journal
    THEN /\ ok \in {TRUE} \cup May("fail", {FALSE})
         /\ home' = IF ok THEN [home EXCEPT !.journal = Free] ELSE home
    ELSE ok /\ home' = home

Launch ==
    /\ gui # "open" /\ guis < MaxGui
    /\ gui' = "open" /\ guis' = guis + 1 /\ lease' = 0 /\ err' = FALSE /\ due' = TRUE
    /\ UNCHANGED <<home, act, cmd, orphan>>

\* startup_proxy_recovery competes for ACTION_LOCK with what the user clicks;
\* act.arg is the kind of journal it then reads, if that can be decoded
StartupBegins ==
    /\ BeginAction /\ due /\ due' = FALSE
    /\ LET kind == home.journal.kind
           to(op) == act' = [op |-> "startup", arg |-> kind] /\ Call(op, 0) /\ UNCHANGED err
       IN  \/ CASE kind = "none" -> err' = FALSE /\ UNCHANGED <<act, cmd>>
                [] kind = "v1" -> to("status")
                [] OTHER -> to("inspect")
           \/ "fail" \in Faults /\ kind # "none" /\ err' = TRUE /\ UNCHANGED <<act, cmd>>
    /\ UNCHANGED <<home, gui, guis, lease, orphan>>

\* A recorded lease of this home is left alone like a foreign one.
StartupInspectedSkips ==
    /\ Answered("inspect")
    /\ err' = (cmd.res \notin {"absent", "foreign", "recorded"}) /\ Done
    /\ UNCHANGED <<home, gui, guis, due, lease, orphan>>

StartupInspected ==
    /\ Answered("inspect")
    /\ IF cmd.res = "recorded" THEN Call("status", 0) /\ UNCHANGED <<err, act>>
       ELSE err' = (cmd.res \notin {"absent", "foreign"}) /\ Done
    /\ UNCHANGED <<home, gui, guis, due, lease, orphan>>

StartupStatus ==
    /\ Answered("status")
    /\ \/ /\ cmd.res = "stopped" /\ act.arg = "v1"
          /\ \E ok \in BOOLEAN : RestoreLegacyProxy(ok) /\ err' = ~ok
          /\ Done
       \/ /\ cmd.res = "stopped" /\ act.arg # "v1" /\ Call("recover", 0)
          /\ UNCHANGED <<home, err, act>>
       \/ /\ cmd.res # "stopped" /\ err' = (cmd.res # "ready")
          /\ Done /\ UNCHANGED home
    /\ UNCHANGED <<gui, guis, due, lease, orphan>>

StartupRecovered ==
    /\ Answered("recover") /\ err' = (cmd.res # "ok") /\ Done
    /\ UNCHANGED <<home, gui, guis, due, lease, orphan>>

\* connect_impl(global_proxy): a v1 journal is restored before anything else
Connect(global) ==
    /\ BeginAction
    /\ \E ok \in BOOLEAN :
          /\ RestoreLegacyProxy(ok)
          /\ err' = IF home.journal = V1Journal THEN ~ok ELSE err
          /\ IF ok THEN act' = [op |-> "connect", arg |-> global] /\ Call("start", 0) ELSE UNCHANGED <<act, cmd>>
    /\ UNCHANGED <<gui, guis, due, lease, orphan>>

ConnectStarted ==
    /\ Answered("start")
    /\ IF cmd.res = "ok" /\ act.arg = "global" THEN Call("acquire", 0) /\ UNCHANGED act ELSE Done
    /\ UNCHANGED <<home, gui, guis, due, lease, err, orphan>>

\* A reused lease is remembered like a new one.
RememberedAny(c) == c.got

\* remember_gui_lease: a lease that was there already belongs to its caller,
\* unless it is the one this session created
Remembered(c) == IF c.res = "ok" \/ lease = c.got THEN c.got ELSE 0

ConnectAcquired ==
    /\ Answered("acquire")
    /\ IF cmd.res \in {"ok", "noop"} THEN lease' = Remembered(cmd) /\ err' = FALSE
       ELSE err' = TRUE /\ UNCHANGED lease
    /\ Done
    /\ UNCHANGED <<home, gui, guis, due, orphan>>

\* disconnect_impl and logout_impl: the legacy journal first, then the engine
Disconnect(op) ==
    /\ BeginAction
    /\ \E ok \in BOOLEAN :
          /\ RestoreLegacyProxy(ok) /\ err' = ~ok
          /\ IF ok THEN act' = [op |-> op, arg |-> "none"] /\ Call("stop", 0) ELSE UNCHANGED <<act, cmd>>
    /\ UNCHANGED <<gui, guis, due, lease, orphan>>

\* A refusal comes as engine_stop_refused, which is no system_proxy_ code: the
\* error stays as restore_legacy_proxy left it.
DisconnectStopped ==
    /\ Answered("stop")
    /\ IF cmd.res = "ok" THEN lease' = 0 /\ err' = FALSE ELSE UNCHANGED <<lease, err>>
    /\ IF cmd.res = "ok" /\ act.op = "logout" THEN Call("logout", 0) /\ UNCHANGED act ELSE Done
    /\ UNCHANGED <<home, gui, guis, due, orphan>>

LoggedOut ==
    /\ Answered("logout") /\ Done
    /\ UNCHANGED <<home, gui, guis, due, lease, err, orphan>>

\* The CLI keeps a configuration once the Hub accepted the authorization code;
\* login_impl takes no lock and changes nothing the GUI remembers.
Login ==
    /\ gui = "open" /\ ~home.conf /\ home' = [home EXCEPT !.conf = TRUE]
    /\ UNCHANGED <<mine, cmd, orphan>>

\* unresolved_unowned_proxy_error
Unresolved == home.journal.kind \in {"cli", "foreign"} /\ lease = 0 /\ err

Exit == gui' = "quit" /\ lease' = 0 /\ err' = FALSE

Quit ==
    /\ BeginAction
    /\ \/ /\ Unresolved   \* refused: the error stays
          /\ UNCHANGED <<home, gui, lease, err, act, cmd>>
       \/ /\ ~Unresolved
          /\ \E ok \in BOOLEAN :
                /\ RestoreLegacyProxy(ok)
                /\ CASE ~ok -> err' = TRUE /\ UNCHANGED <<gui, lease, act, cmd>>
                     [] ok /\ lease = 0 -> Exit /\ UNCHANGED <<act, cmd>>
                     [] OTHER -> /\ err' = FALSE /\ act' = [op |-> "quit", arg |-> "none"]
                                 /\ Call("release", lease) /\ UNCHANGED <<gui, lease>>
    /\ UNCHANGED <<guis, due, orphan>>

QuitReleased ==
    /\ Answered("release") /\ Done
    /\ IF cmd.res = "ok" THEN Exit ELSE err' = TRUE /\ UNCHANGED <<gui, lease>>
    /\ UNCHANGED <<home, guis, due, orphan>>

\* The process dies: a sidecar it started goes on by itself.
GuiCrash ==
    /\ "crash" \in Faults /\ gui = "open" /\ orphan = NoCmd
    /\ gui' = "crashed" /\ lease' = 0 /\ err' = FALSE /\ act' = NoAction /\ cmd' = NoCmd
    /\ orphan' = IF cmd.res = "sent" THEN cmd ELSE NoCmd
    /\ UNCHANGED <<home, guis, due>>

-----------------------------------------------------------------------------
(* Other callers of the same home, and the engine itself *)

SdkCalls ==
    /\ \E c \in {[NoCmd EXCEPT !.op = o, !.by = Sdk] : o \in {"start", "stop", "acquire"}} :
          \E a \in Effects(c, home) : home' = a.home
    /\ UNCHANGED <<mine, cmd, orphan>>

\* A caller releases the lease it created.
SdkReleases ==
    /\ home.journal.kind = "cli" /\ home.journal.by = Sdk
    /\ \E a \in CliRelease(home, home.journal.id) : home' = a.home
    /\ UNCHANGED <<mine, cmd, orphan>>

ForeignReleases ==
    /\ home.journal = Foreign /\ home' = [home EXCEPT !.journal = Free]
    /\ UNCHANGED <<mine, cmd, orphan>>

CliEngineDies ==
    /\ "die" \in Faults /\ home.engine # 0
    /\ home' = [home EXCEPT !.engine = 0, !.claim = FALSE]
    /\ UNCHANGED <<mine, cmd, orphan>>

GuiSteps ==
    \/ StartupBegins \/ StartupInspected \/ StartupStatus \/ StartupRecovered
    \/ ConnectStarted \/ ConnectAcquired \/ DisconnectStopped \/ LoggedOut \/ QuitReleased

UserActs ==
    \/ Launch \/ Login \/ Quit
    \/ \E global \in {"global", "local"} : Connect(global)
    \/ \E op \in {"disconnect", "logout"} : Disconnect(op)

GuiNext ==
    \/ UserActs \/ GuiSteps \/ CmdRuns \/ CmdFails \/ OrphanRuns
    \/ SdkCalls \/ SdkReleases \/ ForeignReleases \/ CliEngineDies \/ GuiCrash

GuiSpec == GuiInit /\ [][GuiNext]_guiVars

\* The runtime runs the GUI's tasks, and every CLI command ends.
GuiFairSpec == GuiSpec /\ WF_guiVars(GuiSteps) /\ WF_guiVars(CmdRuns)

-----------------------------------------------------------------------------
(* Properties *)

\* "Reusing the same engine's pre-existing lease does not transfer ownership
\* from its CLI/SDK caller to this GUI session" (remember_gui_lease), and the
\* recovery at start is for an engine that is gone: a release the GUI asks for
\* gives back only a lease that this session created, whatever answers were
\* lost and whoever acquired in between, and a recovery takes no lease from a
\* running engine.
TakesOnlyItsOwn ==
    [][CmdRuns /\ home.journal.kind = "cli" /\ home'.journal # home.journal =>
          /\ cmd.op = "release" => home.journal.by = cmd.by
          /\ cmd.op = "recover" => home.engine = 0]_guiVars

\* "A failed restore must not leave Windows pointing at an engine that we then
\* silently stop" (disconnect_inner): when the engine ends at the GUI's request
\* neither a journal of an older GUI nor a lease of that engine is left.
StopLeavesNothing ==
    [][CmdRuns /\ cmd.op \in {"stop", "logout"} /\ home.engine # 0 /\ home'.engine = 0 =>
          /\ home'.journal # V1Journal
          /\ home'.journal.kind = "cli" => home'.journal.owner # home.engine]_guiVars

\* The system proxy is restored on disconnect and on exit (connect_impl): a GUI
\* the user quits leaves no lease behind that its own session created.
QuitRestores ==
    gui = "quit" => ~(home.journal.kind = "cli" /\ home.journal.by = guis)

\* The reconciliation at start restores the proxy a dead engine of this home
\* left behind (from the moment it asks for the journal), or says that it could
\* not; it gives up only where the engine runs again or the configuration is
\* gone.
Leftover == home.journal.kind = "cli" /\ home.engine = 0 /\ home.conf

StartupSettles ==
    (cmd.op = "inspect" /\ cmd.res = "sent" /\ Leftover) ~> (~Leftover \/ err \/ gui # "open")
=============================================================================
