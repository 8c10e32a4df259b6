---------------------------- MODULE EngineRuntime ----------------------------
(***************************************************************************)
(* The engine of one client home (shared/proxy: control.go, engine.go,     *)
(* runtime_lock.go): the launch request, the child that takes the lifetime *)
(* lock and publishes its record, the activation by its launcher, the      *)
(* start lease, the authenticated stop, and Inspect, which reclaims what a *)
(* dead engine left.  Launcher, stopper and engines are processes that may *)
(* die between any two steps; an observer (status) inspects at any time,   *)
(* without the operation lock.                                             *)
(***************************************************************************)
EXTENDS Integers

CONSTANTS
    MaxLaunch,   \* bound: launches
    MaxLost,     \* bound: control answers that do not arrive
    MaxCrash     \* bound: process deaths

\* There is a launch; configurations are numbered as the launches are.
ASSUME RuntimeAssumption == MaxLaunch \in Nat \ {0}

None == 0
Nobody == 0
\* The lifetime lock is held by an engine (its number), or by an Inspect.
Holder(p) == IF p = "op" THEN -1 ELSE -2
Inst == 1..MaxLaunch

VARIABLES
    state, pidf,          \* engine-state.json and the PID file: a process
    launch, conf,         \* engine-launch.json (a launch), the sing-box configuration
    lock,                 \* the holder of the lifetime lock
    eng,                  \* child process -> where it is
    id, content,          \* child -> the launch it answers for, the configuration it read
    phase,                \* child -> the control phase
    data,                 \* children whose data plane runs
    late,                 \* launches whose deadline has passed
    op, want,             \* the operation (start, stop, recovery) and its target
    gen,                  \* launch -> the configuration it was prepared for
    insp, rec,            \* process -> its Inspect, the record it read
    res,                  \* the answer the operation got
    result,               \* launch -> "none", "waiting", "ok", "failed"
    unheeded,             \* history: launches whose cancellation was lost or refused
    lost, crashes

files == <<state, pidf, launch, conf>>
engines == <<eng, id, content, phase, data, late>>
inspection == <<insp, rec, res>>
history == <<gen, result, unheeded, lost, crashes>>
runtimeVars == <<files, lock, engines, op, want, inspection, history>>

Proc == {"op", "obs"}
Answers == {"none", "stopped", "degraded", "legacy", "starting", "ready", "stopping"}
\* A child serves its control endpoint from the publication to close().
Serving(i) == eng[i] \in {"bound", "up", "down"}
Holding(i) == eng[i] \in {"locked", "read", "published", "bound", "up", "down", "closing", "unlisted"}
Live(i) == eng[i] \notin {"none", "gone"}
\* The record on disk is that of a child of launch l.
Listed(l) == state # None /\ id[state] = l

RuntimeTypeOK ==
    /\ state \in 0..MaxLaunch /\ pidf \in 0..MaxLaunch /\ launch \in 0..MaxLaunch
    /\ eng \in [Inst -> {"none", "spawned", "loaded", "locked", "read", "published", "bound", "up", "down", "closing", "unlisted", "gone"}]
    /\ phase \in [Inst -> {"starting", "ready", "stopping"}] /\ data \subseteq Inst /\ late \subseteq Inst
    /\ op \in {"idle", "start", "configured", "prepared", "poll", "cancel", "stop", "ask", "wait", "recover"} /\ want \in 0..MaxLaunch
    /\ insp \in [Proc -> {"idle", "load", "absent", "checkAbsent", "ask", "stale", "recheck", "remove"}]
    /\ rec \in [Proc -> 0..MaxLaunch] /\ res \in Answers
    /\ id \in [Inst -> 0..MaxLaunch] /\ conf \in Inst /\ content \in [Inst -> Inst] /\ gen \in [Inst -> Inst]
    /\ \A i \in Inst : Holding(i) <=> lock = i

RuntimeInit ==
    /\ state = None /\ pidf = None /\ launch = None /\ conf = 1 /\ lock = Nobody
    /\ eng = [i \in Inst |-> "none"] /\ phase = [i \in Inst |-> "starting"]
    /\ id = [i \in Inst |-> None] /\ content = [i \in Inst |-> 1] /\ gen = [i \in Inst |-> 1]
    /\ data = {} /\ late = {} /\ op = "idle" /\ want = None
    /\ insp = [p \in Proc |-> "idle"] /\ rec = [p \in Proc |-> None] /\ res = "none"
    /\ result = [i \in Inst |-> "none"] /\ unheeded = {} /\ lost = 0 /\ crashes = 0

Free == lock = Nobody
Unlock == lock' = Nobody
\* An Inspect releases the lock it took.
Release(p) == lock' = IF lock = Holder(p) THEN Nobody ELSE lock

\* The deadline of a launch passes.
Deadline(i) ==
    /\ result[i] # "none" /\ i \notin late /\ late' = late \cup {i}
    /\ UNCHANGED <<files, lock, eng, id, content, phase, data, op, want, inspection, history>>

-----------------------------------------------------------------------------
(* Inspect, by the operation or by an observer.                            *)

Answer(p, a) == insp' = [insp EXCEPT ![p] = "idle"] /\ res' = (IF p = "op" THEN a ELSE res) /\ rec' = [rec EXCEPT ![p] = IF p = "op" /\ a \in {"starting", "ready", "stopping"} THEN @ ELSE None]
InspectGoto(p, s) == insp' = [insp EXCEPT ![p] = s] /\ UNCHANGED <<rec, res>>
Outside == UNCHANGED <<engines, op, want, history>>

ObserverInspects ==
    /\ insp["obs"] = "idle" /\ insp' = [insp EXCEPT !["obs"] = "load"]
    /\ UNCHANGED <<files, lock, rec, res>> /\ Outside

LoadRecord(p) ==
    /\ insp[p] = "load"
    /\ IF state = None THEN InspectGoto(p, "absent")
       ELSE insp' = [insp EXCEPT ![p] = "ask"] /\ rec' = [rec EXCEPT ![p] = state] /\ UNCHANGED res
    /\ UNCHANGED <<files, lock>> /\ Outside

\* acquireRuntimeLock with no wait: a busy lifetime lock is an answer.
LockFor(p, from, to) ==
    /\ insp[p] = from
    /\ \/ Free /\ lock' = Holder(p) /\ InspectGoto(p, to)
       \/ ~Free /\ Answer(p, "degraded") /\ UNCHANGED lock
    /\ UNCHANGED files /\ Outside

\* Mutant: a missing record is proof enough, whoever holds the lock.
AbsentUnlocked(p) ==
    /\ insp[p] = "absent" /\ Answer(p, "stopped") /\ UNCHANGED <<files, lock>> /\ Outside

\* acquireExistingInstanceLock when there is no record.
Absent(p) == LockFor(p, "absent", "checkAbsent")

CheckAbsent(p) ==
    /\ insp[p] = "checkAbsent" /\ Release(p)
    /\ Answer(p, IF state # None THEN "degraded" ELSE IF pidf # None THEN "legacy" ELSE "stopped")
    /\ UNCHANGED files /\ Outside

\* requestControl(status): no answer from a dead engine (or one from another
\* program on its port), or a lost one.
AskStatus(p) ==
    /\ insp[p] = "ask"
    /\ \/ /\ Serving(rec[p]) /\ Answer(p, phase[rec[p]])
          /\ UNCHANGED <<files, lock>> /\ Outside
       \/ /\ ~Serving(rec[p]) /\ (InspectGoto(p, "stale") \/ Answer(p, "degraded")) /\ UNCHANGED <<files, lock>> /\ Outside
       \/ /\ Serving(rec[p]) /\ lost < MaxLost /\ lost' = lost + 1 /\ InspectGoto(p, "stale")
          /\ UNCHANGED <<files, lock, engines, op, want, gen, result, unheeded, crashes>>

\* Mutant: an engine that did not answer is taken for dead without its lock.
StaleUnlocked(p) ==
    /\ insp[p] = "stale" /\ InspectGoto(p, "recheck") /\ UNCHANGED <<files, lock>> /\ Outside

Stale(p) == LockFor(p, "stale", "recheck")

\* Under the lock the record is compared and the engine asked once more.
Recheck(p) ==
    /\ insp[p] = "recheck" /\ UNCHANGED files /\ Outside
    /\ \/ state = rec[p] /\ ~Serving(rec[p]) /\ InspectGoto(p, "remove") /\ UNCHANGED lock
       \/ state = rec[p] /\ Serving(rec[p]) /\ Answer(p, "degraded") /\ Release(p)
       \/ state = None /\ Answer(p, "stopped") /\ Release(p)
       \/ state \notin {None, rec[p]} /\ Answer(p, "degraded") /\ Release(p)

\* removeOwnedRecord: the record, then the PID file.
RemoveState(p) ==
    /\ insp[p] = "remove" /\ state = rec[p] /\ state' = None
    /\ UNCHANGED <<pidf, launch, conf, lock, inspection>> /\ Outside
RemovePid(p) ==
    /\ insp[p] = "remove" /\ state # rec[p]
    /\ pidf' = IF pidf = rec[p] THEN None ELSE pidf
    /\ Answer(p, "stopped") /\ Release(p) /\ UNCHANGED <<state, launch, conf>> /\ Outside

Inspect(p) ==
    \/ LoadRecord(p) \/ Absent(p) \/ CheckAbsent(p) \/ AskStatus(p)
    \/ Stale(p) \/ Recheck(p) \/ RemoveState(p) \/ RemovePid(p)

-----------------------------------------------------------------------------
(* Start and stop, under the home's operation lock.                        *)

\* The ID of a launch is new.
NextLaunch == IF \E i \in Inst : result[i] = "none" THEN CHOOSE i \in Inst : result[i] = "none" ELSE None
Finish == op' = "idle" /\ want' = None
\* The operation goes on from the answer it got.
Consume == res' = "none" /\ rec' = [rec EXCEPT !["op"] = None] /\ UNCHANGED insp
StartInspect == insp' = [insp EXCEPT !["op"] = "load"] /\ res' = "none" /\ rec' = [rec EXCEPT !["op"] = None]

BeginStart ==
    /\ op = "idle" /\ NextLaunch # None /\ op' = "start" /\ want' = NextLaunch /\ StartInspect
    /\ UNCHANGED <<files, lock, engines, history>>

BeginStop ==
    /\ op = "idle" /\ op' = "stop" /\ want' = None /\ StartInspect
    /\ UNCHANGED <<files, lock, engines, history>>

\* The starting operation writes the configuration of a home found stopped.
Configure ==
    /\ op = "start" /\ insp["op"] = "idle"
    /\ \/ res = "stopped" /\ conf' \in {conf, want} /\ op' = "configured" /\ StartInspect /\ UNCHANGED want
       \/ res # "stopped" /\ Finish /\ Consume /\ UNCHANGED conf
    /\ UNCHANGED <<state, pidf, launch, lock, engines, history>>

\* prepareLaunchMode: Inspect must say stopped (again); the launch request
\* names the configuration it is for.
PrepareLaunch ==
    /\ op = "configured" /\ insp["op"] = "idle" /\ Consume
    /\ \/ /\ res = "stopped" /\ launch' = want /\ op' = "prepared"
          /\ gen' = [gen EXCEPT ![want] = conf]
          /\ result' = [result EXCEPT ![want] = "waiting"] /\ UNCHANGED want
       \/ res # "stopped" /\ Finish /\ UNCHANGED <<launch, gen, result>>
    /\ UNCHANGED <<state, pidf, conf, lock, engines, unheeded, lost, crashes>>

\* removeLaunch
RemoveLaunch(l) == IF launch = l THEN None ELSE launch

\* launchEngine
Launch ==
    /\ op = "prepared"
    /\ \/ op' = "poll" /\ eng' = [eng EXCEPT ![want] = "spawned"] /\ UNCHANGED <<want, launch, result>>
       \/ Finish /\ launch' = RemoveLaunch(want) /\ result' = [result EXCEPT ![want] = "failed"] /\ UNCHANGED eng
    /\ UNCHANGED <<state, pidf, conf, lock, id, content, phase, data, late, inspection, gen, unheeded, lost, crashes>>

\* handle(activate): the phase the engine answers with.
Activated(i) == IF phase[i] = "starting" /\ i \in data /\ id[i] \notin late THEN "ready" ELSE phase[i]
\* An authorization that is no longer fresh ends an engine that is starting.
Unauthorized(i) == IF phase[i] = "starting" THEN "stopping" ELSE phase[i]

\* One round of the launcher's loop: the engine handles the activation, and its
\* answer may be lost.  Another engine's record, or an answer that is not the
\* engine's, ends the loop.
Poll ==
    /\ op = "poll" /\ want \notin late
    /\ \/ (state = None \/ (Listed(want) /\ ~Serving(state))) /\ UNCHANGED <<op, want, phase, result, lost, launch>>
       \/ /\ state # None /\ ~(Listed(want) /\ Serving(state))
          /\ Finish /\ result' = [result EXCEPT ![want] = "failed"] /\ launch' = RemoveLaunch(want)
          /\ UNCHANGED <<phase, lost>>
       \/ /\ Listed(want) /\ Serving(state)
          /\ \E ph \in {Activated(state), Unauthorized(state)} : phase' = [phase EXCEPT ![state] = ph]
          /\ \/ /\ phase'[state] = "ready" /\ Finish /\ result' = [result EXCEPT ![want] = "ok"]
                /\ launch' = RemoveLaunch(want) /\ UNCHANGED lost
             \/ /\ phase'[state] # "ready" /\ UNCHANGED <<op, want, result, lost, launch>>
             \/ /\ lost < MaxLost /\ lost' = lost + 1 /\ UNCHANGED <<op, want, result, launch>>
    /\ UNCHANGED <<state, pidf, conf, lock, eng, id, content, data, late, inspection, gen, unheeded, crashes>>

\* The loop ends (timeout or cancellation): the launch is withdrawn ...
Withdraw ==
    /\ op = "poll" /\ op' = "cancel" /\ launch' = RemoveLaunch(want)
    /\ UNCHANGED <<state, pidf, conf, lock, engines, want, inspection, history>>

\* requestStop in the engine.
StopPhase(i) == [phase EXCEPT ![i] = "stopping"]

\* ... and the child that already published is asked to stop.  The request may
\* get lost, and the lease hook (BeforeStop) may refuse it.
Cancel ==
    /\ op = "cancel" /\ Finish /\ result' = [result EXCEPT ![want] = "failed"]
    /\ \/ Listed(want) /\ Serving(state) /\ phase' = StopPhase(state) /\ UNCHANGED <<unheeded, lost>>
       \/ /\ Listed(want) /\ Serving(state) /\ phase[state] # "stopping"
          /\ unheeded' = unheeded \cup {want} /\ UNCHANGED <<phase, lost>>
       \/ ~(Listed(want) /\ Serving(state)) /\ UNCHANGED <<phase, unheeded, lost>>
    /\ UNCHANGED <<files, lock, eng, id, content, data, late, inspection, gen, crashes>>

\* Stop: what Inspect answered decides.
AskStop ==
    /\ op = "stop" /\ insp["op"] = "idle" /\ Consume
    /\ \/ res \in {"stopped", "degraded", "legacy"} /\ Finish
       \/ /\ res \in {"starting", "ready", "stopping"}
          /\ IF state # rec["op"] THEN Finish ELSE op' = "ask" /\ want' = state
    /\ UNCHANGED <<files, lock, engines, history>>

\* The stop request: refused, lost, or granted.
RequestStop ==
    /\ op = "ask"
    /\ \/ Serving(want) /\ phase' = StopPhase(want) /\ op' = "wait" /\ UNCHANGED <<want, lost>>
       \/ Serving(want) /\ phase[want] # "stopping" /\ Finish /\ UNCHANGED <<phase, lost>>
       \/ Serving(want) /\ lost < MaxLost /\ lost' = lost + 1 /\ Finish /\ phase' \in {phase, StopPhase(want)}
       \/ ~Serving(want) /\ Finish /\ UNCHANGED <<phase, lost>>
    /\ UNCHANGED <<files, lock, eng, id, content, data, late, inspection, gen, result, unheeded, crashes>>

\* Stop is done when the record is gone and the lifetime lock is free.
Stopped(i) == state = None /\ Free

AwaitStop ==
    /\ op = "wait"
    /\ \/ Stopped(want) /\ op' = "stop" /\ want' = None /\ res' = "stopped"
       \/ Finish /\ UNCHANGED res
    /\ UNCHANGED <<files, lock, engines, insp, rec, history>>

\* WithStoppedEngine: recovery of the system proxy holds the lifetime lock, with
\* neither record, PID file nor launch request on disk.
BeginRecover ==
    /\ op = "idle" /\ Free /\ state = None /\ pidf = None /\ launch = None
    /\ op' = "recover" /\ lock' = Holder("op")
    /\ UNCHANGED <<files, engines, want, inspection, history>>
EndRecover ==
    /\ op = "recover" /\ op' = "idle" /\ lock' = (IF lock = Holder("op") THEN Nobody ELSE lock)
    /\ UNCHANGED <<files, engines, want, inspection, history>>

Operation ==
    \/ BeginStart \/ Configure \/ PrepareLaunch \/ Launch \/ Poll \/ Withdraw \/ Cancel
    \/ BeginStop \/ AskStop \/ RequestStop \/ AwaitStop \/ BeginRecover \/ EndRecover

\* The process of an operation or of an observer dies; its locks are released.
ProcessDies(p) ==
    /\ crashes < MaxCrash /\ crashes' = crashes + 1
    /\ \/ p = "op" /\ op # "idle" /\ Finish
       \/ p = "obs" /\ insp["obs"] # "idle" /\ UNCHANGED <<op, want>>
    /\ insp' = [insp EXCEPT ![p] = "idle"] /\ rec' = [rec EXCEPT ![p] = None]
    /\ lock' = IF lock = Holder(p) THEN Nobody ELSE lock
    /\ res' = (IF p = "op" THEN "none" ELSE res)
    /\ UNCHANGED <<files, engines, gen, result, unheeded, lost>>

-----------------------------------------------------------------------------
(* The engine.                                                             *)

Move(i, from, to) == eng[i] = from /\ eng' = [eng EXCEPT ![i] = to]
Elsewhere == UNCHANGED <<op, want, inspection, history>>

\* runEngineWithLog: the configuration is read before the lock is taken;
\* the launcher may have removed it again.
LoadConfig(i) ==
    /\ \/ Move(i, "spawned", "loaded") /\ content' = [content EXCEPT ![i] = conf]
       \/ Move(i, "spawned", "gone") /\ UNCHANGED content
    /\ UNCHANGED <<files, lock, id, phase, data, late>> /\ Elsewhere

\* beginEngineControl: the lifetime lock, without waiting.
TakeLock(i) ==
    /\ \/ Free /\ Move(i, "loaded", "locked") /\ lock' = i
       \/ ~Free /\ Move(i, "loaded", "gone") /\ UNCHANGED lock
    /\ UNCHANGED <<files, id, content, phase, data, late>> /\ Elsewhere

\* Mutant: the launch request is not compared with the configuration.
LaunchedUnbound(i) == launch # None /\ launch \notin late

\* The child answers for the launch request it finds, which must not have
\* expired and must name the configuration the child read.
Launched(i) == launch # None /\ launch \notin late /\ gen[launch] = content[i]

ReadLaunch(i) ==
    /\ \/ Launched(i) /\ Move(i, "locked", "read") /\ id' = [id EXCEPT ![i] = launch] /\ UNCHANGED lock
       \/ ~Launched(i) /\ Move(i, "locked", "gone") /\ Unlock /\ UNCHANGED id
    /\ UNCHANGED <<files, content, phase, data, late>> /\ Elsewhere

\* The record is written, or the endpoint or the record cannot be made.
PublishState(i) ==
    /\ \/ Move(i, "read", "published") /\ state' = i /\ UNCHANGED lock
       \/ Move(i, "read", "gone") /\ Unlock /\ UNCHANGED state
    /\ UNCHANGED <<pidf, launch, conf, id, content, phase, data, late>> /\ Elsewhere
\* The PID file is written, the launch request removed, the lease timer armed;
\* without a PID file the record is taken back.
PublishPid(i) ==
    /\ \/ Move(i, "published", "bound") /\ pidf' = i /\ launch' = RemoveLaunch(id[i]) /\ UNCHANGED <<state, lock>>
       \/ Move(i, "published", "gone") /\ state' = None /\ Unlock /\ UNCHANGED <<pidf, launch>>
    /\ UNCHANGED <<conf, id, content, phase, data, late>> /\ Elsewhere

\* box.New and instance.Start; ready() marks the data plane started.
StartData(i) ==
    /\ Move(i, "bound", "up") /\ data' = data \cup {i}
    /\ UNCHANGED <<files, lock, id, content, phase, late>> /\ Elsewhere

\* The data plane could not be started.
StartDataFails(i) ==
    /\ Move(i, "bound", "down") /\ UNCHANGED <<files, lock, id, content, phase, data, late>> /\ Elsewhere

\* SIGTERM or an interrupt; refused by the lease hook, it is ignored.
Signal(i) ==
    /\ eng[i] = "up" /\ phase[i] # "stopping" /\ phase' = StopPhase(i)
    /\ UNCHANGED <<files, lock, eng, id, content, data, late>> /\ Elsewhere

\* expireLease: an engine nobody activated in time stops itself.
ExpireLease(i) ==
    /\ Serving(i) /\ id[i] \in late /\ phase[i] = "starting" /\ phase' = StopPhase(i)
    /\ UNCHANGED <<files, lock, eng, id, content, data, late>> /\ Elsewhere

\* control.done: the data plane is closed first.
CloseData(i) ==
    /\ phase[i] = "stopping" /\ Move(i, "up", "down") /\ data' = data \ {i}
    /\ UNCHANGED <<files, lock, id, content, phase, late>> /\ Elsewhere

\* engineControl.close: the endpoint, the record and PID file, then the lock.
CloseEndpoint(i) ==
    /\ Move(i, "down", "closing") /\ UNCHANGED <<files, lock, id, content, phase, data, late>> /\ Elsewhere
CloseRecord(i) ==
    /\ Move(i, "closing", "unlisted") /\ state' = IF state = i THEN None ELSE state
    /\ UNCHANGED <<pidf, launch, conf, lock, id, content, phase, data, late>> /\ Elsewhere
CloseLock(i) ==
    /\ Move(i, "unlisted", "gone") /\ pidf' = (IF pidf = i THEN None ELSE pidf) /\ Unlock
    /\ UNCHANGED <<state, launch, conf, id, content, phase, data, late>> /\ Elsewhere

Dies(i) ==
    /\ eng' = [eng EXCEPT ![i] = "gone"] /\ data' = data \ {i}
    /\ lock' = (IF lock = i THEN Nobody ELSE lock) /\ UNCHANGED <<files, id, content, phase, late, op, want, inspection>>

\* exitDedicated: a stop that does not finish in time ends the process.
ForcedExit(i) == Holding(i) /\ phase[i] = "stopping" /\ Dies(i) /\ UNCHANGED history

EngineDies(i) ==
    /\ Live(i) /\ crashes < MaxCrash /\ crashes' = crashes + 1 /\ Dies(i)
    /\ UNCHANGED <<gen, result, unheeded, lost>>

EngineStep(i) ==
    \/ LoadConfig(i) \/ TakeLock(i) \/ ReadLaunch(i) \/ PublishState(i) \/ PublishPid(i) \/ StartDataFails(i)
    \/ CloseEndpoint(i) \/ CloseRecord(i) \/ CloseLock(i)

RuntimeNext ==
    \/ Operation \/ ObserverInspects
    \/ \E p \in Proc : Inspect(p) \/ ProcessDies(p)
    \/ \E i \in Inst : \/ Deadline(i) \/ EngineStep(i) \/ StartData(i) \/ Signal(i) \/ ExpireLease(i) \/ CloseData(i)
                       \/ ForcedExit(i) \/ EngineDies(i)

RuntimeSpec == RuntimeInit /\ [][RuntimeNext]_runtimeVars

\* The clock runs, started processes go on, timers fire.  Neither starting nor
\* closing the data plane is assumed to finish.
FairSpec ==
    /\ RuntimeSpec /\ WF_runtimeVars(Configure) /\ WF_runtimeVars(PrepareLaunch) /\ WF_runtimeVars(Launch) /\ WF_runtimeVars(Cancel) /\ WF_runtimeVars(op = "poll" /\ want \in late /\ Withdraw)
    /\ WF_runtimeVars(AskStop) /\ WF_runtimeVars(RequestStop) /\ WF_runtimeVars(AwaitStop) /\ WF_runtimeVars(EndRecover)
    /\ \A p \in Proc : WF_runtimeVars(Inspect(p))
    /\ \A i \in Inst : /\ WF_runtimeVars(Deadline(i)) /\ WF_runtimeVars(ExpireLease(i)) /\ WF_runtimeVars(ForcedExit(i))
                       /\ WF_runtimeVars(LoadConfig(i)) /\ WF_runtimeVars(TakeLock(i)) /\ WF_runtimeVars(ReadLaunch(i)) /\ WF_runtimeVars(PublishState(i)) /\ WF_runtimeVars(PublishPid(i))
                       /\ WF_runtimeVars(CloseEndpoint(i)) /\ WF_runtimeVars(CloseRecord(i)) /\ WF_runtimeVars(CloseLock(i))

-----------------------------------------------------------------------------
\* At most one data plane runs in a home, and the record of a live engine is
\* neither removed nor replaced by anyone else, whatever was launched, died or
\* did not answer (the lifetime lock of beginEngineControl and Inspect: "a newly
\* published identity is never removed").
OneEngine == /\ \A i, j \in data : i = j
             /\ \A i \in Inst : Serving(i) => state = i

\* An operation is told that the home is stopped only when every engine has
\* ended or can no longer start: a child that has not taken the lock yet finds no
\* launch request, unless its launcher died (Inspect, Stop, StartContext).
StoppedIsStopped ==
    [][res' = "stopped" /\ res # "stopped" =>
         \A i \in Inst : /\ ~Holding(i) /\ i \notin data
                         /\ (Live(i) => launch = None \/ crashes > 0)]_runtimeVars

\* The system proxy is recovered only while no engine runs or can start
\* (WithStoppedEngine).
RecoveryAlone == op = "recover" => \A i \in Inst : i \notin data /\ ~Holding(i)

\* A start that was reported as failed leaves no ready engine, unless the request
\* to stop that engine was lost or refused (StartContext).
FailedStartNotReady ==
    \A i \in Inst : Serving(i) /\ phase[i] = "ready" /\ result[id[i]] = "failed" => id[i] \in unheeded

\* A ready engine runs the configuration that its launch was prepared for, even
\* when it is the child of another start (the generation check of
\* beginEngineControl).
ReadyRunsItsConfiguration == \A i \in data : phase[i] = "ready" => content[i] = gen[id[i]]

\* Every child ends or becomes ready, and one told to stop ends, even if its
\* data plane hangs (expireLease, exitDedicated).
UnwantedEnginesEnd ==
    \A i \in Inst : /\ (Live(i) ~> (~Live(i) \/ phase[i] = "ready"))
                    /\ ((Live(i) /\ phase[i] = "stopping") ~> ~Live(i))

\* Every start and every stop returns (StartContext, Stop).
OperationsReturn == op # "idle" ~> op = "idle"

\* Only a home of an older version has a PID file without a record ("旧版引擎仅有
\* PID 记录"): here there is no older engine, so Inspect never answers that.
LegacyIsLegacy == res # "legacy"
=============================================================================
