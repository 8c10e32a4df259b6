-------------------------- MODULE GatedServiceProofs --------------------------
(***************************************************************************)
(* Proofs about the two programs that keep a data plane running:           *)
(* EngineRuntime, the engine of a client, and GatedService, the device API *)
(* of the Hub and its gate.                                                *)
(***************************************************************************)
EXTENDS EngineRuntime, GatedService, TLAPS

-----------------------------------------------------------------------------
(***************************************************************************)
(* Proofs about EngineRuntime, for any number of launches, deaths and lost *)
(* answers: one engine at a time, of the configuration it was launched     *)
(* for, and what "stopped" and "failed" mean.                              *)
(***************************************************************************)

Before == {"none", "spawned", "loaded", "locked", "read", "published"}
Engine == Before \cup {"bound", "up", "down", "closing", "unlisted", "gone"}
Step == {"idle", "load", "absent", "checkAbsent", "ask", "stale", "recheck", "remove"}
\* The steps of an Inspect under the lifetime lock.
Critical == {"checkAbsent", "recheck", "remove"}

FileTypes ==
    /\ state \in Inst \cup {None} /\ launch \in Inst \cup {None} /\ want \in Inst \cup {None}
    /\ conf \in Inst /\ crashes \in Nat
    /\ lock \in Inst \cup {Nobody, Holder("op"), Holder("obs")}
EngineTypes ==
    /\ eng \in [Inst -> Engine] /\ phase \in [Inst -> {"starting", "ready", "stopping"}]
    /\ id \in [Inst -> Inst \cup {None}] /\ content \in [Inst -> Inst] /\ data \subseteq Inst
OperationTypes ==
    /\ insp \in [Proc -> Step] /\ gen \in [Inst -> Inst]
    /\ result \in [Inst -> {"none", "waiting", "ok", "failed"}]
    /\ rec \in [Proc -> Inst \cup {None}] /\ \A p \in Proc : insp[p] = "ask" => rec[p] \in Inst

\* The lifetime lock excludes engines, Inspects and a recovery from each other.
Locked ==
    /\ \A i \in Inst : Holding(i) <=> lock = i
    /\ \A p \in Proc : insp[p] \in Critical => lock = Holder(p)
    /\ op = "recover" => lock = Holder("op")
    /\ insp["op"] # "idle" => op \in {"start", "configured", "stop"}

\* The record is the holder's from its publication until it takes it back.
Published ==
    \A i \in Inst : /\ eng[i] \in {"published", "bound", "up", "down", "closing"} => state = i
                    /\ i \in data => eng[i] = "up"

\* Launches are numbered in order, and a request is on disk only during its start,
\* unless a process died.
Launching ==
    /\ op \in {"start", "configured"} => want \in Inst /\ result[want] = "none"
    /\ op \in {"prepared", "poll", "cancel"} => want \in Inst /\ result[want] = "waiting"
    /\ op = "prepared" => eng[want] = "none"
    /\ launch # None => result[launch] # "none"
    /\ \A i \in Inst : /\ eng[i] # "none" => result[i] # "none"
                       /\ id[i] # None => result[id[i]] # "none"
    /\ crashes = 0 /\ launch # None => op \in {"prepared", "poll"} /\ launch = want

\* A child past its launch request was launched for what it read.
Bound ==
    \A i \in Inst : eng[i] \notin {"none", "spawned", "loaded", "locked", "gone"} =>
        id[i] \in Inst /\ content[i] = gen[id[i]]

\* Only the polling launcher makes an engine ready.
Heeded ==
    \A i \in Inst : phase[i] = "ready" =>
        /\ eng[i] \notin Before
        /\ Serving(i) => /\ result[id[i]] = "failed" => id[i] \in unheeded
                         /\ op = "prepared" => id[i] # want

\* The inductive invariant.
IInv == FileTypes /\ EngineTypes /\ OperationTypes /\ Locked /\ Published /\ Launching /\ Bound /\ Heeded

-----------------------------------------------------------------------------
(* The first states, and the number of a launch.                           *)

\* The numbers of launches are none of the other values of their variables.
LEMMA Numbers ==
    /\ None \notin Inst /\ Nobody \notin Inst /\ 1 \in Inst
    /\ \A p \in Proc : Holder(p) \notin Inst /\ Holder(p) # Nobody
    /\ Holder("op") # Holder("obs")
  BY RuntimeAssumption DEF None, Nobody, Inst, Holder, Proc

LEMMA InitIInv == RuntimeInit => IInv
<1> SUFFICES ASSUME RuntimeInit PROVE IInv OBVIOUS
<1>1. FileTypes
  BY Numbers, Zenon DEF RuntimeInit, FileTypes, Proc, files, engines, inspection, history,
     Before, Engine, Step, Holding, Critical, Serving
<1>2. EngineTypes
  BY Numbers, Zenon DEF RuntimeInit, EngineTypes, Proc, files, engines, inspection, history,
     Before, Engine, Step, Holding, Critical, Serving
<1>3. OperationTypes
  BY Numbers, Zenon DEF RuntimeInit, OperationTypes, Proc, files, engines, inspection,
     history, Before, Engine, Step, Holding, Critical, Serving
<1>4. Locked
  BY Numbers, Zenon DEF RuntimeInit, Locked, Proc, files, engines, inspection, history,
     Before, Engine, Step, Holding, Critical, Serving
<1>5. Published
  BY Numbers, Zenon DEF RuntimeInit, Published, Proc, files, engines, inspection, history,
     Before, Engine, Step, Holding, Critical, Serving
<1>6. Launching
  BY Numbers, Zenon DEF RuntimeInit, Launching, Proc, files, engines, inspection, history,
     Before, Engine, Step, Holding, Critical, Serving
<1>7. Bound
  BY Numbers, Zenon DEF RuntimeInit, Bound, Proc, files, engines, inspection, history,
     Before, Engine, Step, Holding, Critical, Serving
<1>8. Heeded
  BY Numbers, Zenon DEF RuntimeInit, Heeded, Proc, files, engines, inspection, history,
     Before, Engine, Step, Holding, Critical, Serving
<1>9. QED BY <1>1, <1>2, <1>3, <1>4, <1>5, <1>6, <1>7, <1>8 DEF IInv

\* A launch that begins has an ID that none had before.
LEMMA FreshLaunch ==
    ASSUME NextLaunch # None
    PROVE  NextLaunch \in Inst /\ result[NextLaunch] = "none"
BY Zenon DEF NextLaunch

-----------------------------------------------------------------------------
(* Inspect.                                                                *)

\* What an Inspect leaves alone, and what it does only under the lifetime lock.
LEMMA InspectStep ==
    ASSUME IInv, NEW p \in Proc, Inspect(p)
    PROVE  /\ UNCHANGED <<launch, conf, engines, op, want, gen, result, unheeded, crashes>>
           /\ insp[p] # "idle" /\ insp' \in [Proc -> Step]
           /\ \A q \in Proc : q # p => insp'[q] = insp[q] /\ rec'[q] = rec[q]
           /\ rec' \in [Proc -> Inst \cup {None}] /\ (insp'[p] = "ask" => rec'[p] \in Inst)
           /\ insp'[p] \in Critical => lock' = Holder(p)
           /\ lock' # lock => \/ lock = Nobody /\ lock' = Holder(p)
                              \/ lock = Holder(p) /\ lock' = Nobody
           /\ state' # state => lock = Holder(p) /\ state' = None
<1>1. CASE LoadRecord(p)
  BY <1>1, Zenon DEF LoadRecord, LockFor, Release, Free, Answer, InspectGoto, Outside, IInv,
     FileTypes, OperationTypes, Locked, Step, Critical, files, engines, inspection, history
<1>2. CASE Absent(p)
  BY <1>2, Zenon DEF Absent, LockFor, Release, Free, Answer, InspectGoto, Outside, IInv,
     FileTypes, OperationTypes, Locked, Step, Critical, files, engines, inspection, history
<1>3. CASE CheckAbsent(p)
  BY <1>3, Zenon DEF CheckAbsent, LockFor, Release, Free, Answer, InspectGoto, Outside,
     IInv, FileTypes, OperationTypes, Locked, Step, Critical, files, engines, inspection,
     history
<1>4. CASE AskStatus(p)
  BY <1>4, Zenon DEF AskStatus, LockFor, Release, Free, Answer, InspectGoto, Outside, IInv,
     FileTypes, OperationTypes, Locked, Step, Critical, files, engines, inspection, history
<1>5. CASE Stale(p)
  BY <1>5 DEF Stale, LockFor, Release, Free, Answer, InspectGoto, Outside, IInv, FileTypes,
     OperationTypes, Locked, Step, Critical, files, engines, inspection, history
<1>6. CASE Recheck(p)
  BY <1>6, Zenon DEF Recheck, LockFor, Release, Free, Answer, InspectGoto, Outside, IInv,
     FileTypes, OperationTypes, Locked, Step, Critical, files, engines, inspection, history
<1>7. CASE RemoveState(p)
  BY <1>7, Zenon DEF RemoveState, LockFor, Release, Free, Answer, InspectGoto, Outside,
     IInv, FileTypes, OperationTypes, Locked, Step, Critical, files, engines, inspection,
     history
<1>8. CASE RemovePid(p)
  BY <1>8, Zenon DEF RemovePid, LockFor, Release, Free, Answer, InspectGoto, Outside, IInv,
     FileTypes, OperationTypes, Locked, Step, Critical, files, engines, inspection, history
<1>9. QED BY <1>1, <1>2, <1>3, <1>4, <1>5, <1>6, <1>7, <1>8, Zenon DEF Inspect

LEMMA InspectKeeps ==
    ASSUME IInv, NEW p \in Proc, Inspect(p)
    PROVE  IInv'
<1> USE InspectStep, Numbers DEF IInv, Proc, files, engines, inspection, history, FileTypes
<1>1. FileTypes' /\ EngineTypes' /\ OperationTypes'
  BY DEF EngineTypes, Launching, Before, Engine, OperationTypes, Step
<1>2. Locked' /\ Published'
  BY DEF EngineTypes, OperationTypes, Locked, Launching, Holding, Critical, Published
<1>3. Launching' /\ Bound'
  BY DEF EngineTypes, OperationTypes, Launching, Locked, Bound
<1>4. Heeded'
  BY DEF EngineTypes, OperationTypes, Heeded, Launching, Published, Bound, Before, Serving
<1>5. QED BY <1>1, <1>2, <1>3, <1>4, Zenon

\* An observer begins.
LEMMA ObserverKeeps ==
    ASSUME IInv, ObserverInspects
    PROVE  IInv'
<1> USE Numbers DEF IInv, Proc, files, engines, inspection, history, FileTypes, ObserverInspects,
        Outside
<1>1. FileTypes' /\ EngineTypes' /\ OperationTypes'
  BY Zenon DEF EngineTypes, Launching, Before, Engine, OperationTypes, Step
<1>2. Locked' /\ Published'
  BY Zenon DEF EngineTypes, OperationTypes, Locked, Launching, Holding, Critical, Published
<1>3. Launching' /\ Bound'
  BY Zenon DEF EngineTypes, OperationTypes, Launching, Locked, Bound
<1>4. Heeded'
  BY Zenon DEF EngineTypes, OperationTypes, Heeded, Launching, Published, Bound, Before, Serving
<1>5. QED BY <1>1, <1>2, <1>3, <1>4, Zenon

\* A start begins.
LEMMA BeginStartKeeps ==
    ASSUME IInv, BeginStart
    PROVE  IInv'
<1> USE FreshLaunch, Numbers DEF IInv, Proc, files, engines, inspection, history, FileTypes,
        BeginStart, StartInspect
<1>1. FileTypes' /\ EngineTypes' /\ OperationTypes'
  BY Zenon DEF EngineTypes, Launching, Before, Engine, OperationTypes, Step
<1>2. Locked' /\ Published'
  BY DEF EngineTypes, OperationTypes, Locked, Launching, Holding, Critical, Published
<1>3. Launching' /\ Bound'
  BY Zenon DEF EngineTypes, OperationTypes, Launching, Locked, Bound
<1>4. Heeded'
  BY Zenon DEF EngineTypes, OperationTypes, Heeded, Launching, Published, Bound, Before, Serving
<1>5. QED BY <1>1, <1>2, <1>3, <1>4, Zenon

\* A stop begins.
LEMMA BeginStopKeeps ==
    ASSUME IInv, BeginStop
    PROVE  IInv'
<1> USE Numbers DEF IInv, Proc, files, engines, inspection, history, FileTypes, BeginStop,
        StartInspect
<1>1. FileTypes' /\ EngineTypes' /\ OperationTypes'
  BY Zenon DEF EngineTypes, Launching, Before, Engine, OperationTypes, Step
<1>2. Locked' /\ Published'
  BY Zenon DEF EngineTypes, OperationTypes, Locked, Launching, Holding, Critical, Published
<1>3. Launching' /\ Bound'
  BY Zenon DEF EngineTypes, OperationTypes, Launching, Locked, Bound
<1>4. Heeded'
  BY Zenon DEF EngineTypes, OperationTypes, Heeded, Launching, Published, Bound, Before, Serving
<1>5. QED BY <1>1, <1>2, <1>3, <1>4, Zenon

\* The configuration is written.
LEMMA ConfigureKeeps ==
    ASSUME IInv, Configure
    PROVE  IInv'
<1> USE Numbers DEF IInv, Proc, files, engines, inspection, history, FileTypes, Configure,
        StartInspect, Finish, Consume
<1>1. FileTypes' /\ EngineTypes' /\ OperationTypes'
  BY DEF EngineTypes, Launching, Before, Engine, OperationTypes, Step
<1>2. Locked' /\ Published'
  BY DEF EngineTypes, OperationTypes, Locked, Launching, Holding, Critical, Published
<1>3. Launching' /\ Bound'
  BY Zenon DEF EngineTypes, OperationTypes, Launching, Locked, Bound
<1>4. Heeded'
  BY Zenon DEF EngineTypes, OperationTypes, Heeded, Launching, Published, Bound, Before, Serving
<1>5. QED BY <1>1, <1>2, <1>3, <1>4, Zenon

\* The launch request is written.
LEMMA PrepareLaunchKeeps ==
    ASSUME IInv, PrepareLaunch
    PROVE  IInv'
<1> USE Numbers DEF IInv, Proc, files, engines, inspection, history, FileTypes, PrepareLaunch,
        Finish, Consume
<1>1. FileTypes' /\ EngineTypes' /\ OperationTypes'
  BY DEF EngineTypes, Launching, Before, Engine, OperationTypes, Step
<1>2. Locked' /\ Published'
  BY Zenon DEF EngineTypes, OperationTypes, Locked, Launching, Holding, Critical, Published
<1>3. Launching' /\ Bound'
  BY DEF EngineTypes, OperationTypes, Launching, Locked, Bound
<1>4. Heeded'
  BY DEF EngineTypes, OperationTypes, Heeded, Launching, Published, Bound, Before, Serving
<1>5. QED BY <1>1, <1>2, <1>3, <1>4, Zenon

\* The child is spawned, or not.
LEMMA LaunchKeeps ==
    ASSUME IInv, Launch
    PROVE  IInv'
<1> USE Numbers DEF IInv, Proc, files, engines, inspection, history, FileTypes, Launch, Finish,
        RemoveLaunch
<1>1. FileTypes' /\ EngineTypes' /\ OperationTypes'
  BY DEF EngineTypes, Launching, Before, Engine, OperationTypes, Step
<1>2. Locked' /\ Published'
  BY DEF EngineTypes, OperationTypes, Locked, Launching, Holding, Critical, Published
<1>3. Launching' /\ Bound'
  BY DEF EngineTypes, OperationTypes, Launching, Locked, Bound
<1>4. Heeded'
  BY DEF EngineTypes, OperationTypes, Heeded, Launching, Published, Bound, Before, Serving
<1>5. QED BY <1>1, <1>2, <1>3, <1>4, Zenon

\* A round of the launcher.
LEMMA PollKeeps ==
    ASSUME IInv, Poll
    PROVE  IInv'
<1> USE Numbers DEF IInv, Proc, files, engines, inspection, history, FileTypes, Poll, Finish,
        RemoveLaunch, Listed, Activated, Unauthorized
<1>1. FileTypes' /\ EngineTypes' /\ OperationTypes'
  BY DEF EngineTypes, Launching, Before, Engine, OperationTypes, Step
<1>2. Locked' /\ Published'
  BY Zenon DEF EngineTypes, OperationTypes, Locked, Launching, Holding, Critical, Published
<1>3. Launching' /\ Bound'
  BY DEF EngineTypes, OperationTypes, Launching, Locked, Bound
<1>4. Heeded'
  BY DEF EngineTypes, OperationTypes, Heeded, Launching, Published, Bound, Before, Serving
<1>5. QED BY <1>1, <1>2, <1>3, <1>4, Zenon

\* The launch is withdrawn.
LEMMA WithdrawKeeps ==
    ASSUME IInv, Withdraw
    PROVE  IInv'
<1> USE Numbers DEF IInv, Proc, files, engines, inspection, history, FileTypes, Withdraw,
        RemoveLaunch
<1>1. FileTypes' /\ EngineTypes' /\ OperationTypes'
  BY Zenon DEF EngineTypes, Launching, Before, Engine, OperationTypes, Step
<1>2. Locked' /\ Published'
  BY Zenon DEF EngineTypes, OperationTypes, Locked, Launching, Holding, Critical, Published
<1>3. Launching' /\ Bound'
  BY Zenon DEF EngineTypes, OperationTypes, Launching, Locked, Bound
<1>4. Heeded'
  BY Zenon DEF EngineTypes, OperationTypes, Heeded, Launching, Published, Bound, Before, Serving
<1>5. QED BY <1>1, <1>2, <1>3, <1>4, Zenon

\* The child is asked to stop.
LEMMA CancelKeeps ==
    ASSUME IInv, Cancel
    PROVE  IInv'
<1> USE Numbers DEF IInv, Proc, files, engines, inspection, history, FileTypes, Cancel, Finish,
        Listed, StopPhase
<1>1. FileTypes' /\ EngineTypes' /\ OperationTypes'
  BY Zenon DEF EngineTypes, Launching, Before, Engine, OperationTypes, Step
<1>2. Locked' /\ Published'
  BY Zenon DEF EngineTypes, OperationTypes, Locked, Launching, Holding, Critical, Published
<1>3. Launching' /\ Bound'
  BY DEF EngineTypes, OperationTypes, Launching, Locked, Bound
<1>4. Heeded'
  BY DEF EngineTypes, OperationTypes, Heeded, Launching, Published, Bound, Before, Serving
<1>5. QED BY <1>1, <1>2, <1>3, <1>4, Zenon

\* A stop goes by what Inspect answered.
LEMMA AskStopKeeps ==
    ASSUME IInv, AskStop
    PROVE  IInv'
<1> USE Numbers DEF IInv, Proc, files, engines, inspection, history, FileTypes, AskStop, Finish,
        Consume
<1>1. FileTypes' /\ EngineTypes' /\ OperationTypes'
  BY Zenon DEF EngineTypes, Launching, Before, Engine, OperationTypes, Step
<1>2. Locked' /\ Published'
  BY Zenon DEF EngineTypes, OperationTypes, Locked, Launching, Holding, Critical, Published
<1>3. Launching' /\ Bound'
  BY Zenon DEF EngineTypes, OperationTypes, Launching, Locked, Bound
<1>4. Heeded'
  BY Zenon DEF EngineTypes, OperationTypes, Heeded, Launching, Published, Bound, Before, Serving
<1>5. QED BY <1>1, <1>2, <1>3, <1>4, Zenon

\* The stop request.
LEMMA RequestStopKeeps ==
    ASSUME IInv, RequestStop
    PROVE  IInv'
<1> USE Numbers DEF IInv, Proc, files, engines, inspection, history, FileTypes, RequestStop, Finish,
        StopPhase
<1>1. FileTypes' /\ EngineTypes' /\ OperationTypes'
  BY DEF EngineTypes, Launching, Before, Engine, OperationTypes, Step
<1>2. Locked' /\ Published'
  BY Zenon DEF EngineTypes, OperationTypes, Locked, Launching, Holding, Critical, Published
<1>3. Launching' /\ Bound'
  BY Zenon DEF EngineTypes, OperationTypes, Launching, Locked, Bound
<1>4. Heeded'
  BY DEF EngineTypes, OperationTypes, Heeded, Launching, Published, Bound, Before, Serving
<1>5. QED BY <1>1, <1>2, <1>3, <1>4, Zenon

\* The end of a stop.
LEMMA AwaitStopKeeps ==
    ASSUME IInv, AwaitStop
    PROVE  IInv'
<1> USE Numbers DEF IInv, Proc, files, engines, inspection, history, FileTypes, AwaitStop, Finish,
        Stopped, Free
<1>1. FileTypes' /\ EngineTypes' /\ OperationTypes'
  BY Zenon DEF EngineTypes, Launching, Before, Engine, OperationTypes, Step
<1>2. Locked' /\ Published'
  BY Zenon DEF EngineTypes, OperationTypes, Locked, Launching, Holding, Critical, Published
<1>3. Launching' /\ Bound'
  BY Zenon DEF EngineTypes, OperationTypes, Launching, Locked, Bound
<1>4. Heeded'
  BY Zenon DEF EngineTypes, OperationTypes, Heeded, Launching, Published, Bound, Before, Serving
<1>5. QED BY <1>1, <1>2, <1>3, <1>4, Zenon

\* A recovery.
LEMMA RecoverKeeps ==
    ASSUME IInv, BeginRecover \/ EndRecover
    PROVE  IInv'
<1> USE Numbers DEF IInv, Proc, files, engines, inspection, history, FileTypes, BeginRecover,
        EndRecover, Free
<1>1. FileTypes' /\ EngineTypes' /\ OperationTypes'
  BY DEF EngineTypes, Launching, Before, Engine, OperationTypes, Step
<1>2. Locked' /\ Published'
  BY DEF EngineTypes, OperationTypes, Locked, Launching, Holding, Critical, Published
<1>3. Launching' /\ Bound'
  BY DEF EngineTypes, OperationTypes, Launching, Locked, Bound
<1>4. Heeded'
  BY Zenon DEF EngineTypes, OperationTypes, Heeded, Launching, Published, Bound, Before, Serving
<1>5. QED BY <1>1, <1>2, <1>3, <1>4, Zenon

\* A process dies.
LEMMA ProcessDiesKeeps ==
    ASSUME IInv, NEW p \in Proc, ProcessDies(p)
    PROVE  IInv'
<1> USE Numbers DEF IInv, Proc, files, engines, inspection, history, FileTypes, ProcessDies, Finish
<1>1. FileTypes' /\ EngineTypes' /\ OperationTypes'
  BY DEF EngineTypes, Launching, Before, Engine, OperationTypes, Step
<1>2. Locked' /\ Published'
  BY DEF EngineTypes, OperationTypes, Locked, Launching, Holding, Critical, Published
<1>3. Launching' /\ Bound'
  BY DEF EngineTypes, OperationTypes, Launching, Locked, Bound
<1>4. Heeded'
  BY DEF EngineTypes, OperationTypes, Heeded, Launching, Published, Bound, Before, Serving
<1>5. QED BY <1>1, <1>2, <1>3, <1>4, Zenon

\* A deadline passes.
LEMMA DeadlineKeeps ==
    ASSUME IInv, NEW k \in Inst, Deadline(k)
    PROVE  IInv'
<1> USE Numbers DEF IInv, Proc, files, engines, inspection, history, FileTypes, Deadline
<1>1. FileTypes' /\ EngineTypes' /\ OperationTypes'
  BY Zenon DEF EngineTypes, Launching, Before, Engine, OperationTypes, Step
<1>2. Locked' /\ Published'
  BY Zenon DEF EngineTypes, OperationTypes, Locked, Launching, Holding, Critical, Published
<1>3. Launching' /\ Bound'
  BY Zenon DEF EngineTypes, OperationTypes, Launching, Locked, Bound
<1>4. Heeded'
  BY Zenon DEF EngineTypes, OperationTypes, Heeded, Launching, Published, Bound, Before, Serving
<1>5. QED BY <1>1, <1>2, <1>3, <1>4, Zenon

\* The child reads its configuration.
LEMMA LoadConfigKeeps ==
    ASSUME IInv, NEW k \in Inst, LoadConfig(k)
    PROVE  IInv'
<1> USE Numbers DEF IInv, Proc, files, engines, inspection, history, FileTypes, LoadConfig, Move,
        Elsewhere
<1>1. FileTypes' /\ EngineTypes' /\ OperationTypes'
  BY DEF EngineTypes, Launching, Before, Engine, OperationTypes, Step
<1>2. Locked' /\ Published'
  BY DEF EngineTypes, OperationTypes, Locked, Launching, Holding, Critical, Published
<1>3. Launching' /\ Bound'
  BY DEF EngineTypes, OperationTypes, Launching, Locked, Bound
<1>4. Heeded'
  BY DEF EngineTypes, OperationTypes, Heeded, Launching, Published, Bound, Before, Serving
<1>5. QED BY <1>1, <1>2, <1>3, <1>4, Zenon

\* The child takes the lock.
LEMMA TakeLockKeeps ==
    ASSUME IInv, NEW k \in Inst, TakeLock(k)
    PROVE  IInv'
<1> USE Numbers DEF IInv, Proc, files, engines, inspection, history, FileTypes, TakeLock, Free,
        Move, Elsewhere
<1>1. FileTypes' /\ EngineTypes' /\ OperationTypes'
  BY DEF EngineTypes, Launching, Before, Engine, OperationTypes, Step
<1>2. Locked' /\ Published'
  BY DEF EngineTypes, OperationTypes, Locked, Launching, Holding, Critical, Published
<1>3. Launching' /\ Bound'
  BY DEF EngineTypes, OperationTypes, Launching, Locked, Bound
<1>4. Heeded'
  BY DEF EngineTypes, OperationTypes, Heeded, Launching, Published, Bound, Before, Serving
<1>5. QED BY <1>1, <1>2, <1>3, <1>4, Zenon

\* The child answers for the launch.
LEMMA ReadLaunchKeeps ==
    ASSUME IInv, NEW k \in Inst, ReadLaunch(k)
    PROVE  IInv'
<1> USE Numbers DEF IInv, Proc, files, engines, inspection, history, FileTypes, ReadLaunch,
        Launched, Unlock, Move, Elsewhere
<1>1. FileTypes' /\ EngineTypes' /\ OperationTypes'
  BY DEF EngineTypes, Launching, Before, Engine, OperationTypes, Step
<1>2. Locked' /\ Published'
  BY DEF EngineTypes, OperationTypes, Locked, Launching, Holding, Critical, Published
<1>3. Launching' /\ Bound'
  BY DEF EngineTypes, OperationTypes, Launching, Locked, Bound
<1>4. Heeded'
  BY DEF EngineTypes, OperationTypes, Heeded, Launching, Published, Bound, Before, Serving
<1>5. QED BY <1>1, <1>2, <1>3, <1>4, Zenon

\* The child publishes its record.
LEMMA PublishStateKeeps ==
    ASSUME IInv, NEW k \in Inst, PublishState(k)
    PROVE  IInv'
<1> USE Numbers DEF IInv, Proc, files, engines, inspection, history, FileTypes, PublishState,
        Unlock, Move, Elsewhere
<1>1. FileTypes' /\ EngineTypes' /\ OperationTypes'
  BY DEF EngineTypes, Launching, Before, Engine, OperationTypes, Step
<1>2. Locked' /\ Published'
  BY DEF EngineTypes, OperationTypes, Locked, Launching, Holding, Critical, Published
<1>3. Launching' /\ Bound'
  BY DEF EngineTypes, OperationTypes, Launching, Locked, Bound
<1>4. Heeded'
  BY DEF EngineTypes, OperationTypes, Heeded, Launching, Published, Bound, Before, Serving
<1>5. QED BY <1>1, <1>2, <1>3, <1>4, Zenon

\* The child publishes its PID.
LEMMA PublishPidKeeps ==
    ASSUME IInv, NEW k \in Inst, PublishPid(k)
    PROVE  IInv'
<1> USE Numbers DEF IInv, Proc, files, engines, inspection, history, FileTypes, PublishPid,
        RemoveLaunch, Unlock, Move, Elsewhere
<1>1. FileTypes' /\ EngineTypes' /\ OperationTypes'
  BY DEF EngineTypes, Launching, Before, Engine, OperationTypes, Step
<1>2. Locked' /\ Published'
  BY DEF EngineTypes, OperationTypes, Locked, Launching, Holding, Critical, Published
<1>3. Launching' /\ Bound'
  BY DEF EngineTypes, OperationTypes, Launching, Locked, Bound
<1>4. Heeded'
  BY DEF EngineTypes, OperationTypes, Heeded, Launching, Published, Bound, Before, Serving
<1>5. QED BY <1>1, <1>2, <1>3, <1>4, Zenon

\* The data plane.
LEMMA DataKeeps ==
    ASSUME IInv, NEW k \in Inst, StartData(k) \/ StartDataFails(k) \/ CloseData(k)
    PROVE  IInv'
<1> USE Numbers DEF IInv, Proc, files, engines, inspection, history, FileTypes, StartData,
        StartDataFails, CloseData, Move, Elsewhere
<1>1. FileTypes' /\ EngineTypes' /\ OperationTypes'
  BY DEF EngineTypes, Launching, Before, Engine, OperationTypes, Step
<1>2. Locked' /\ Published'
  BY DEF EngineTypes, OperationTypes, Locked, Launching, Holding, Critical, Published
<1>3. Launching' /\ Bound'
  BY DEF EngineTypes, OperationTypes, Launching, Locked, Bound
<1>4. Heeded'
  BY DEF EngineTypes, OperationTypes, Heeded, Launching, Published, Bound, Before, Serving
<1>5. QED BY <1>1, <1>2, <1>3, <1>4, Zenon

\* The engine stops itself.
LEMMA StopsKeeps ==
    ASSUME IInv, NEW k \in Inst, Signal(k) \/ ExpireLease(k)
    PROVE  IInv'
<1> USE Numbers DEF IInv, Proc, files, engines, inspection, history, FileTypes, Signal, ExpireLease,
        StopPhase, Elsewhere
<1>1. FileTypes' /\ EngineTypes' /\ OperationTypes'
  BY DEF EngineTypes, Launching, Before, Engine, OperationTypes, Step
<1>2. Locked' /\ Published'
  BY Zenon DEF EngineTypes, OperationTypes, Locked, Launching, Holding, Critical, Published
<1>3. Launching' /\ Bound'
  BY DEF EngineTypes, OperationTypes, Launching, Locked, Bound
<1>4. Heeded'
  BY DEF EngineTypes, OperationTypes, Heeded, Launching, Published, Bound, Before, Serving
<1>5. QED BY <1>1, <1>2, <1>3, <1>4, Zenon

\* The engine closes.
LEMMA CloseKeeps ==
    ASSUME IInv, NEW k \in Inst, CloseEndpoint(k) \/ CloseRecord(k) \/ CloseLock(k)
    PROVE  IInv'
<1> USE Numbers DEF IInv, Proc, files, engines, inspection, history, FileTypes, CloseEndpoint,
        CloseRecord, CloseLock, Unlock, Move, Elsewhere
<1>1. FileTypes' /\ EngineTypes' /\ OperationTypes'
  BY DEF EngineTypes, Launching, Before, Engine, OperationTypes, Step
<1>2. Locked' /\ Published'
  BY DEF EngineTypes, OperationTypes, Locked, Launching, Holding, Critical, Published
<1>3. Launching' /\ Bound'
  BY DEF EngineTypes, OperationTypes, Launching, Locked, Bound
<1>4. Heeded'
  BY DEF EngineTypes, OperationTypes, Heeded, Launching, Published, Bound, Before, Serving
<1>5. QED BY <1>1, <1>2, <1>3, <1>4, Zenon

\* An engine ends itself.
LEMMA ForcedExitKeeps ==
    ASSUME IInv, NEW k \in Inst, ForcedExit(k)
    PROVE  IInv'
<1> USE Numbers DEF IInv, Proc, files, engines, inspection, history, FileTypes, ForcedExit, Holding,
        Dies, Live
<1>1. FileTypes' /\ EngineTypes' /\ OperationTypes'
  BY Zenon DEF EngineTypes, Launching, Before, Engine, OperationTypes, Step
<1>2. Locked' /\ Published'
  BY DEF EngineTypes, OperationTypes, Locked, Launching, Critical, Published
<1>3. Launching' /\ Bound'
  BY DEF EngineTypes, OperationTypes, Launching, Locked, Bound
<1>4. Heeded'
  BY DEF EngineTypes, OperationTypes, Heeded, Launching, Published, Bound, Before, Serving
<1>5. QED BY <1>1, <1>2, <1>3, <1>4, Zenon

\* An engine dies, wherever it is.
LEMMA DiesKeeps ==
    ASSUME IInv, NEW k \in Inst, EngineDies(k)
    PROVE  IInv'
<1> USE Numbers DEF IInv, Proc, files, engines, inspection, history, FileTypes, EngineDies, Dies,
        Live
<1>1. FileTypes'
  <2>1. crashes' \in Nat /\ UNCHANGED <<files, want>> /\ lock' \in {lock, Nobody}
    BY DEF IInv, FileTypes, EngineDies, Dies
  <2>2. QED BY <2>1, Zenon DEF IInv, FileTypes, files
<1>2. EngineTypes' /\ OperationTypes'
  BY Zenon DEF EngineTypes, Before, Engine, OperationTypes, Step, Launching
<1>3. Locked' /\ Published'
  BY DEF EngineTypes, OperationTypes, Locked, Launching, Holding, Critical, Published
<1>4. Launching' /\ Bound'
  BY DEF EngineTypes, OperationTypes, Launching, Locked, Bound
<1>5. Heeded'
  BY DEF EngineTypes, OperationTypes, Heeded, Launching, Published, Bound, Before, Serving
<1>6. QED BY <1>1, <1>2, <1>3, <1>4, <1>5, Zenon

\* Nothing happens.
LEMMA StutterKeeps ==
    ASSUME IInv, UNCHANGED runtimeVars
    PROVE  IInv'
<1> USE Numbers DEF IInv, Proc, files, engines, inspection, history, FileTypes, runtimeVars
<1>1. FileTypes' /\ EngineTypes' /\ OperationTypes'
  BY Zenon DEF EngineTypes, Launching, Before, Engine, OperationTypes, Step
<1>2. Locked' /\ Published'
  BY Zenon DEF EngineTypes, OperationTypes, Locked, Launching, Holding, Critical, Published
<1>3. Launching' /\ Bound'
  BY Zenon DEF EngineTypes, OperationTypes, Launching, Locked, Bound
<1>4. Heeded'
  BY Zenon DEF EngineTypes, OperationTypes, Heeded, Launching, Published, Bound, Before, Serving
<1>5. QED BY <1>1, <1>2, <1>3, <1>4, Zenon

LEMMA NextIInv == IInv /\ [RuntimeNext]_runtimeVars => IInv'
<1> SUFFICES ASSUME IInv, [RuntimeNext]_runtimeVars PROVE IInv' OBVIOUS
<1>1. CASE Operation
  BY <1>1, BeginStartKeeps, BeginStopKeeps, ConfigureKeeps, PrepareLaunchKeeps, LaunchKeeps,
     PollKeeps, WithdrawKeeps, CancelKeeps, AskStopKeeps, RequestStopKeeps, AwaitStopKeeps,
     RecoverKeeps, Zenon DEF Operation
<1>2. ASSUME NEW k \in Inst, EngineStep(k) PROVE IInv'
  BY <1>2, LoadConfigKeeps, TakeLockKeeps, ReadLaunchKeeps, PublishStateKeeps, PublishPidKeeps,
     DataKeeps, CloseKeeps, Zenon DEF EngineStep
<1>3. QED
  BY <1>1, <1>2, ObserverKeeps, InspectKeeps, ProcessDiesKeeps, DeadlineKeeps, DataKeeps,
     StopsKeeps, ForcedExitKeeps, DiesKeeps, StutterKeeps, Zenon DEF RuntimeNext

LEMMA AlwaysIInv == RuntimeSpec => []IInv
  BY InitIInv, NextIInv, PTL DEF RuntimeSpec

-----------------------------------------------------------------------------
\* In every state at most one data plane runs, and an engine that answers is the one
\* on record (beginEngineControl, Inspect).
THEOREM OneEngineAtATime == RuntimeSpec => []OneEngine
<1>1. IInv => OneEngine
  BY Zenon DEF IInv, FileTypes, EngineTypes, OperationTypes, Locked, Published, OneEngine,
     Holding, Serving
<1>2. QED BY <1>1, AlwaysIInv, PTL

\* In every state a ready engine runs the configuration of its launch
\* (beginEngineControl).
THEOREM RunsItsConfiguration == RuntimeSpec => []ReadyRunsItsConfiguration
<1>1. IInv => ReadyRunsItsConfiguration
  BY Zenon DEF IInv, FileTypes, EngineTypes, OperationTypes, Published, Bound,
     ReadyRunsItsConfiguration
<1>2. QED BY <1>1, AlwaysIInv, PTL

\* In every state a start that was reported as failed has no ready engine, unless its
\* request to stop was lost or refused (StartContext).
THEOREM FailedIsNotReady == RuntimeSpec => []FailedStartNotReady
<1>1. IInv => FailedStartNotReady
  BY Zenon DEF IInv, Heeded, FailedStartNotReady
<1>2. QED BY <1>1, AlwaysIInv, PTL

\* In every state a recovery of the system proxy is alone (WithStoppedEngine).
THEOREM RecoversAlone == RuntimeSpec => []RecoveryAlone
<1>1. IInv => RecoveryAlone
  BY Numbers DEF IInv, EngineTypes, Locked, Published, RecoveryAlone, Proc, Holding
<1>2. QED BY <1>1, AlwaysIInv, PTL

\* No step tells an operation "stopped" while an engine runs or may yet start,
\* unless a launcher died (Inspect, Stop, StartContext).
THEOREM StoppedMeansStopped == RuntimeSpec => StoppedIsStopped
<1> DEFINE Still == \A i \in Inst : /\ ~Holding(i) /\ i \notin data
                                    /\ (Live(i) => launch = None \/ crashes > 0)
<1>1. IInv /\ [RuntimeNext]_runtimeVars => [res' = "stopped" /\ res # "stopped" => Still]_runtimeVars
  <2> SUFFICES ASSUME IInv, RuntimeNext, res' = "stopped", res # "stopped" PROVE Still
    OBVIOUS
  <2>1. ASSUME lock \notin Inst, op \notin {"prepared", "poll"} PROVE Still
    BY <2>1 DEF IInv, FileTypes, EngineTypes, OperationTypes, Locked, Published, Launching, Holding
  <2>2. Nobody \notin Inst /\ Holder("op") \notin Inst
    BY Numbers DEF Proc
  <2>3. CASE AwaitStop
    BY <2>1, <2>2, <2>3, Zenon DEF AwaitStop, Stopped, Free
  <2>4. CASE Inspect("op")
    <3>1. ASSUME LoadRecord("op") \/ Absent("op") \/ Stale("op") \/ RemoveState("op") PROVE FALSE
      BY <3>1, Zenon DEF LoadRecord, Absent, Stale, LockFor, RemoveState, Answer,
         InspectGoto, inspection
    <3>2. ASSUME AskStatus("op") PROVE FALSE
      <4>1. phase[rec["op"]] # "stopped"
        BY <3>2, Zenon DEF AskStatus, IInv, OperationTypes, EngineTypes, Proc
      <4>2. QED BY <3>2, <4>1, Zenon DEF AskStatus, Answer, InspectGoto
    <3>3. insp["op"] \in Critical
      BY <2>4, <3>1, <3>2, Zenon DEF Inspect, CheckAbsent, Recheck, RemovePid, Critical
    <3>4. QED BY <2>1, <2>2, <3>3, Zenon DEF IInv, Locked, Critical, Proc
  <2>5. ASSUME Inspect("obs") PROVE FALSE
    BY <2>5, Zenon DEF Inspect, LoadRecord, Absent, CheckAbsent, AskStatus, Stale, Recheck,
       RemoveState, RemovePid, LockFor, Answer, InspectGoto, inspection
  <2>6. CASE \E p \in Proc : ProcessDies(p)
    BY <2>6 DEF ProcessDies
  <2>7. CASE Operation
    BY <2>3, <2>7, Zenon DEF Operation, BeginStart, Configure, PrepareLaunch, Launch, Poll,
       Withdraw, Cancel, BeginStop, AskStop, RequestStop, BeginRecover, EndRecover,
       StartInspect, Consume, inspection
  <2>8. CASE \/ ObserverInspects
             \/ \E i \in Inst : \/ Deadline(i) \/ EngineStep(i) \/ StartData(i)
                                \/ Signal(i) \/ ExpireLease(i) \/ CloseData(i)
                                \/ ForcedExit(i) \/ EngineDies(i)
    BY <2>8, Zenon DEF ObserverInspects, Deadline, EngineStep, LoadConfig, TakeLock,
       ReadLaunch, PublishState, PublishPid, StartData, StartDataFails, CloseEndpoint,
       CloseRecord, CloseLock, Signal, ExpireLease, CloseData, ForcedExit, EngineDies, Dies,
       Elsewhere, inspection
  <2>9. QED BY <2>4, <2>5, <2>6, <2>7, <2>8, Zenon DEF RuntimeNext, Proc
<1>2. QED BY <1>1, AlwaysIInv, PTL DEF RuntimeSpec, StoppedIsStopped

-----------------------------------------------------------------------------
(***************************************************************************)
(* Proofs about GatedService, for any devices, lease, interval and         *)
(* budgets: how long a source outlives its authority, what a lease may     *)
(* outlast, and when the API listens.                                      *)
(***************************************************************************)

LOCAL INSTANCE WellFoundedInduction

Types ==
    /\ desired \in [Device -> {"none", "active", "gone"}]
    /\ applied \subseteq Device /\ peer \subseteq Device
    /\ life \in [Device -> Nat] /\ stale \in [Device -> Nat]
    /\ cause \in [Device -> {"command", "restart"}]
    /\ spent \in Nat /\ lease \in 0..Lease /\ until \in 0..Lease

\* Time counts against a peer only while it is installed without authority.
Counted == \A d \in Device : stale[d] > 0 => d \in peer /\ desired[d] # "active"

\* The time after which the lease must have run out.
Slack(d) == IF cause[d] = "restart" THEN ProofMax ELSE 0
\* What a stale source has used up, and what the lease still allows it.
Outlived == lease > 0 => \A d \in Device : stale[d] + lease <= Lease + Slack(d)

\* Between proof and grant only a restart of the runtime can bring a peer back, and
\* it has been there no longer than the proof has run.
Granting ==
    /\ pc # "grant" => until = 0
    /\ pc \in {"prove", "grant"} => spent <= ProofMax
    /\ pc = "grant" =>
          /\ applied = Device
          /\ \A d \in Device : stale[d] <= spent
          /\ \A d \in peer \ Authorized : cause[d] = "restart"
          /\ until > 0 => \A d \in Authorized : until <= life[d]

\* The gate is closed and nobody listens before the dial and after the end.
ClosedOutside == pc \in {"dial", "ended"} => lease = 0 /\ ready = FALSE

\* The inductive invariant.
ServiceIInv == Types /\ Counted /\ Outlived /\ Granting /\ ClosedOutside

-----------------------------------------------------------------------------
(* Minima and maxima.                                                      *)

\* A nonempty set of natural numbers has a least element.
LEMMA Least ==
    ASSUME NEW S, S \subseteq Nat, S # {}
    PROVE  \E m \in S : \A n \in S : m <= n
<1> DEFINE R == OpToRel(<, Nat)
<1>1. \E m \in S : \A n \in S : ~(<<n, m>> \in R)
  BY NatLessThanWellFounded, WFMin, Zenon
<1>2. \A m, n \in Nat : <<n, m>> \in R <=> n < m
  BY DEF OpToRel
<1>3. PICK m \in S : \A n \in S : ~(<<n, m>> \in R)
  BY <1>1, Zenon
<1>4. \A n \in S : ~(n < m)
  BY <1>2, <1>3, Zenon
<1>5. QED BY <1>4

LEMMA MinIsLeast ==
    ASSUME NEW S, S \subseteq Nat, S # {}
    PROVE  Min(S) \in S /\ \A n \in S : Min(S) <= n
  BY Least, Zenon DEF Min

LEMMA MaxPair == \A a \in Int, b \in Int : Max({a, b}) = IF a >= b THEN a ELSE b
  BY DEF Max

LEMMA MinPair == \A a \in Int, b \in Int : Min({a, b}) = IF a <= b THEN a ELSE b
  BY DEF Min

\* The lease that is granted ends before every validity.
LEMMA GrantedLeaseIs ==
    ASSUME Types
    PROVE  /\ GrantedLease \in 0..Lease
           /\ \A d \in Authorized : GrantedLease <= life[d]
<1> DEFINE S == {Lease} \cup {life[d] : d \in Authorized}
<1>1. S \subseteq Nat /\ Lease \in S /\ \A d \in Authorized : life[d] \in S
  BY GatedAssumption DEF Types, Authorized
<1>2. Min(S) \in S /\ \A n \in S : Min(S) <= n
  BY <1>1, MinIsLeast, Zenon
<1>3. GrantedLease = Min(S)
  BY DEF GrantedLease
<1> HIDE DEF S
<1>4. Min(S) \in Nat /\ Lease \in Nat /\ Min(S) <= Lease
  BY <1>1, <1>2, Zenon
<1>5. GrantedLease \in 0..Lease
  BY <1>3, <1>4
<1>6. \A d \in Authorized : Min(S) <= life[d]
  BY <1>1, <1>2, Zenon
<1>7. QED BY <1>3, <1>5, <1>6

-----------------------------------------------------------------------------
(* The inductive invariant.                                                *)

LEMMA ServiceInitIInv == Init => ServiceIInv
  BY GatedAssumption DEF Init, ServiceIInv, Types, Counted, Outlived, Granting, ClosedOutside

\* The end of the service.
LEMMA EndKeeps ==
    ASSUME ServiceIInv, EndService, UNCHANGED authority
    PROVE  ServiceIInv'
  BY GatedAssumption DEF ServiceIInv, Types, Counted, Outlived, Granting, ClosedOutside,
     EndService, Goto, authority

\* A command is never accepted between proof and grant.
LEMMA SubmitKeeps ==
    ASSUME ServiceIInv, NEW d \in Device, Submit(d)
    PROVE  ServiceIInv'
<1>1. Types'
  BY DEF ServiceIInv, Types, Submit
<1>2. Counted'
  BY DEF ServiceIInv, Types, Counted, Submit
<1>3. Outlived'
  BY GatedAssumption DEF ServiceIInv, Types, Outlived, Slack, Submit
<1>4. Granting'
  BY Zenon DEF ServiceIInv, Granting, Submit, FenceFree
<1>5. ClosedOutside'
  BY Zenon DEF ServiceIInv, ClosedOutside, Submit
<1>6. QED BY <1>1, <1>2, <1>3, <1>4, <1>5 DEF ServiceIInv

\* A restart may bring any peers back.
LEMMA RuntimeRestartKeeps ==
    ASSUME ServiceIInv, RuntimeRestart
    PROVE  ServiceIInv'
<1>1. Types'
  BY DEF ServiceIInv, Types, RuntimeRestart
<1>2. Counted'
  BY DEF ServiceIInv, Counted, RuntimeRestart
<1>3. Outlived'
  BY GatedAssumption DEF ServiceIInv, Types, Outlived, Slack, RuntimeRestart
<1>4. Granting'
  BY DEF ServiceIInv, Types, Granting, Authorized, RuntimeRestart
<1>5. ClosedOutside'
  BY Zenon DEF ServiceIInv, ClosedOutside, RuntimeRestart
<1>6. QED BY <1>1, <1>2, <1>3, <1>4, <1>5 DEF ServiceIInv

\* Expired devices lose their authority.
LEMMA BeginTickKeeps ==
    ASSUME ServiceIInv, BeginTick
    PROVE  ServiceIInv'
<1>1. Types'
  BY Zenon DEF ServiceIInv, Types, BeginTick, Expired
<1>2. Counted'
  BY Zenon DEF ServiceIInv, Counted, BeginTick
<1>3. Outlived'
  BY Zenon DEF ServiceIInv, Outlived, Slack, BeginTick
<1>4. Granting'
  BY Zenon DEF ServiceIInv, Granting, BeginTick
<1>5. ClosedOutside'
  BY Zenon DEF ClosedOutside, BeginTick
<1>6. QED BY <1>1, <1>2, <1>3, <1>4, <1>5 DEF ServiceIInv

\* A device is reconciled.
LEMMA ReconcileKeeps ==
    ASSUME ServiceIInv, NEW d \in Device, Reconcile(d)
    PROVE  ServiceIInv'
<1>1. Types'
  <2>1. UNCHANGED <<life, cause, pc, spent, ready, until, lease>>
    BY Zenon DEF Reconcile
  <2>2. CASE Processed(d)
    BY <2>1, <2>2 DEF ServiceIInv, Types, Reconcile, Processed
  <2>3. CASE ExpiresMeanwhile(d)
    BY <2>1, <2>3 DEF ServiceIInv, Types, Reconcile, ExpiresMeanwhile
  <2>4. QED BY <2>2, <2>3, Zenon DEF Reconcile
<1>2. Counted'
  BY DEF ServiceIInv, Types, Counted, Reconcile, Processed, ExpiresMeanwhile, Expired
<1>3. Outlived'
  BY GatedAssumption DEF ServiceIInv, Types, Outlived, Slack, Reconcile, Processed, ExpiresMeanwhile
<1>4. Granting'
  BY Zenon DEF ServiceIInv, Granting, Reconcile
<1>5. ClosedOutside'
  BY Zenon DEF ClosedOutside, Reconcile
<1>6. QED BY <1>1, <1>2, <1>3, <1>4, <1>5 DEF ServiceIInv

\* The proof: no peer is without authority.
LEMMA ProveKeeps ==
    ASSUME ServiceIInv, pc = "prove", Converged, pc' = "grant",
           UNCHANGED <<spent, lease, ready, todo, until, authority>>
    PROVE  ServiceIInv'
<1>1. Types'
  BY Zenon DEF ServiceIInv, Types, authority
<1>2. Counted'
  BY Zenon DEF ServiceIInv, Counted, authority
<1>3. Outlived'
  BY Zenon DEF ServiceIInv, Outlived, Slack, authority
<1>4. Granting'
  BY DEF ServiceIInv, Types, Counted, Granting, Authorized, Converged, authority
<1>5. ClosedOutside'
  BY DEF ClosedOutside
<1>6. QED BY <1>1, <1>2, <1>3, <1>4, <1>5 DEF ServiceIInv

\* The end of the lease is fixed.
LEMMA OfferKeeps ==
    ASSUME ServiceIInv, Offer, GrantedLease > 0
    PROVE  ServiceIInv'
<1>1. Types'
  BY GrantedLeaseIs, Zenon DEF ServiceIInv, Types, Offer, authority
<1>2. Counted'
  BY Zenon DEF ServiceIInv, Counted, Offer, authority
<1>3. Outlived'
  BY Zenon DEF ServiceIInv, Outlived, Slack, Offer, authority
<1>4. Granting'
  BY GrantedLeaseIs, Zenon DEF ServiceIInv, Granting, Authorized, Offer, authority
<1>5. ClosedOutside'
  BY DEF ClosedOutside, Offer
<1>6. QED BY <1>1, <1>2, <1>3, <1>4, <1>5 DEF ServiceIInv

\* The gate takes the lease.
LEMMA GrantKeeps ==
    ASSUME ServiceIInv, Grant
    PROVE  ServiceIInv'
<1>1. Types'
  BY GatedAssumption DEF ServiceIInv, Types, Grant, authority, Goto
<1>2. Counted'
  BY Zenon DEF ServiceIInv, Counted, Grant, authority
<1>3. Outlived'
  BY GatedAssumption DEF ServiceIInv, Types, Counted, Outlived, Slack, Granting, Authorized, Grant,
     authority
<1>4. Granting'
  BY DEF Granting, Grant, Goto
<1>5. ClosedOutside'
  BY DEF ClosedOutside, Grant, Goto
<1>6. QED BY <1>1, <1>2, <1>3, <1>4, <1>5 DEF ServiceIInv

\* Time passes: the lease, the grant and the validities run out together.
LEMMA TickKeeps ==
    ASSUME ServiceIInv, Tick
    PROVE  ServiceIInv'
<1>a. lease' = (IF lease > 0 THEN lease - 1 ELSE 0) /\ until' = (IF until > 0 THEN until - 1 ELSE 0)
  <2>1. lease \in Nat /\ until \in Nat
    BY DEF ServiceIInv, Types
  <2>2. \A n \in Nat : Max({n - 1, 0}) = IF n > 0 THEN n - 1 ELSE 0
    BY MaxPair
  <2>3. lease' = Max({lease - 1, 0}) /\ until' = Max({until - 1, 0})
    BY Zenon DEF Tick
  <2>4. QED BY <2>1, <2>2, <2>3
<1>b. \A d \in Device : life'[d] = IF life[d] > 0 THEN life[d] - 1 ELSE 0
  BY MaxPair DEF ServiceIInv, Types, Tick
<1>c. \A d \in Device : /\ d \in peer /\ desired[d] # "active" => stale'[d] \in Nat /\ stale'[d] <= stale[d] + 1
                        /\ ~(d \in peer /\ desired[d] # "active") => stale'[d] = 0
  BY MinPair, GatedAssumption DEF ServiceIInv, Types, Tick
<1>d. /\ spent' = spent + 1 /\ UNCHANGED <<desired, applied, peer, cause, pc, ready>>
      /\ pc \in {"prove", "grant"} => spent < ProofMax
  BY Zenon DEF Tick, Phase
<1>e. /\ life' = [d \in Device |-> life'[d]] /\ stale' = [d \in Device |-> stale'[d]]
      /\ (pc = "grant" => until # 1)
  BY Zenon DEF Tick
<1>1. Types'
  BY <1>a, <1>b, <1>c, <1>d, <1>e, GatedAssumption DEF ServiceIInv, Types
<1>2. Counted'
  BY <1>c, <1>d DEF Counted
<1>3. Outlived'
  BY <1>a, <1>c, <1>d, GatedAssumption DEF ServiceIInv, Types, Outlived, Slack
<1>4. Granting'
  BY <1>a, <1>b, <1>c, <1>d, GatedAssumption DEF ServiceIInv, Types, Granting, Authorized
<1>5. ClosedOutside'
  BY <1>a, <1>d DEF ServiceIInv, ClosedOutside
<1>6. QED BY <1>1, <1>2, <1>3, <1>4, <1>5 DEF ServiceIInv

\* The steps of the cycle that only move on.
LEMMA QuietKeeps ==
    ASSUME ServiceIInv, UNCHANGED <<authority, lease, ready, until>>, pc # "grant", pc' \notin {"prove", "grant"},
           spent' \in Nat, pc' \in {"dial", "ended"} => pc \in {"dial", "ended"}
    PROVE  ServiceIInv'
<1>1. Types'
  BY GatedAssumption, Zenon DEF ServiceIInv, Types, authority, Goto
<1>2. Counted'
  BY Zenon DEF ServiceIInv, Counted, authority
<1>3. Outlived'
  BY Zenon DEF ServiceIInv, Outlived, Slack, authority
<1>4. Granting'
  BY Zenon DEF ServiceIInv, Granting
<1>5. ClosedOutside'
  BY Zenon DEF ServiceIInv, ClosedOutside
<1>6. QED BY <1>1, <1>2, <1>3, <1>4, <1>5 DEF ServiceIInv

LEMMA ServiceNextIInv == ServiceIInv /\ [Next]_vars => ServiceIInv'
<1> SUFFICES ASSUME ServiceIInv, [Next]_vars PROVE ServiceIInv' OBVIOUS
<1>1. CASE Dial
  BY <1>1, QuietKeeps DEF Dial, Goto
<1>2. CASE EndTick
  BY <1>2, GatedAssumption DEF EndTick, Goto, ServiceIInv, Types, Counted, Outlived, Slack,
     Granting, ClosedOutside, authority
<1>3. CASE Prove
  BY <1>3, EndKeeps, ProveKeeps DEF Prove
<1>4. CASE Offer
  BY <1>4, EndKeeps, OfferKeeps DEF Offer
<1>5. CASE Wake
  BY <1>5, QuietKeeps DEF Wake, Goto
<1>6. CASE Restart
  BY <1>6, QuietKeeps DEF Restart, Goto
<1>7. CASE TickFails
  BY <1>7, EndKeeps DEF TickFails
<1>8. CASE GrantFails
  BY <1>8, EndKeeps DEF GrantFails
<1>9. CASE UNCHANGED vars
  BY <1>9, Zenon DEF vars, ServiceIInv, Types, Counted, Outlived, Slack, Granting, ClosedOutside,
     Authorized
<1>10. QED
  BY <1>1, <1>2, <1>3, <1>4, <1>5, <1>6, <1>7, <1>8, <1>9, SubmitKeeps, RuntimeRestartKeeps,
     BeginTickKeeps, ReconcileKeeps, GrantKeeps, TickKeeps, Zenon DEF Next, Cycle

LEMMA ServiceAlwaysIInv == Spec => []ServiceIInv
  BY ServiceInitIInv, ServiceNextIInv, PTL DEF Spec

-----------------------------------------------------------------------------
\* In every state, a source whose authority a command withdrew passes no gate for
\* longer than one lease, and one that a WireGuard restart brought back for no
\* longer than a lease and a proof (grantProxy, WithProxyConvergence).
THEOREM StaleIsCutOff == Spec => []StaleSourceIsCutOff
<1>1. ServiceIInv => StaleSourceIsCutOff
  <2> SUFFICES ASSUME ServiceIInv, NEW d \in Device, stale[d] > Lease + Slack(d) PROVE lease = 0
    BY DEF StaleSourceIsCutOff, Slack
  <2>1. stale[d] \in Nat /\ lease \in Nat /\ Slack(d) \in Nat /\ Lease \in Nat
    BY GatedAssumption DEF ServiceIInv, Types, Slack
  <2>2. lease > 0 => stale[d] + lease <= Lease + Slack(d)
    BY Zenon DEF ServiceIInv, Outlived
  <2>3. QED BY <2>1, <2>2
<1>2. QED BY <1>1, ServiceAlwaysIInv, PTL

\* No step opens the gate beyond the validity of an authorized device, whatever
\* passed between proof, grant and receipt (grantProxy).
THEOREM LeaseEndsInTime == Spec => LeaseWithinValidity
<1>1. ServiceIInv /\ [Next]_vars => [lease' > lease => \A d \in Authorized : lease' <= life[d]]_vars
  <2> SUFFICES ASSUME ServiceIInv, Next, lease' > lease PROVE \A d \in Authorized : lease' <= life[d]
    OBVIOUS
  <2> lease \in Nat
    BY DEF ServiceIInv, Types
  <2>1. CASE Grant
    BY <2>1, Zenon DEF Grant, ServiceIInv, Granting
  <2>2. CASE Tick
    <3>1. lease' = IF lease > 0 THEN lease - 1 ELSE 0
      <4>1. \A n \in Nat : Max({n - 1, 0}) = IF n > 0 THEN n - 1 ELSE 0
        BY MaxPair
      <4>2. lease' = Max({lease - 1, 0})
        BY <2>2, Zenon DEF Tick
      <4>3. QED BY <4>1, <4>2
    <3>2. QED BY <3>1
  <2>3. QED
    BY <2>1, <2>2 DEF Next, Cycle, Dial, BeginTick, Reconcile, EndTick, Prove, Offer, Wake,
       Restart, TickFails, GrantFails, RuntimeRestart, Submit, EndService
<1>2. QED BY <1>1, ServiceAlwaysIInv, PTL DEF Spec, LeaseWithinValidity

\* The API starts to listen only with every device applied and the gate open, and
\* outside a run of the service the gate is closed (runGated).
THEOREM ListensWhenProven == Spec => ReadyOnlyWhenProven
<1> DEFINE A == /\ ~ready /\ ready' => applied = Device /\ lease' > 0
                /\ pc' \in {"dial", "ended"} => lease' = 0 /\ ~ready'
<1>1. ServiceIInv /\ [Next]_vars => [A]_vars
  <2> SUFFICES ASSUME ServiceIInv, ServiceIInv', Next PROVE A
    BY ServiceNextIInv
  <2>1. pc' \in {"dial", "ended"} => lease' = 0 /\ ~ready'
    BY DEF ServiceIInv, ClosedOutside
  <2>2. CASE Grant
    BY <2>1, <2>2, Zenon DEF Grant, ServiceIInv, Granting
  <2>3. CASE ready' = ready \/ ready' = FALSE
    BY <2>1, <2>3
  <2>4. QED
    BY <2>2, <2>3, Zenon DEF Next, Cycle, Dial, BeginTick, Reconcile, EndTick, Prove, Offer, Wake,
       Restart, TickFails, GrantFails, RuntimeRestart, Submit, Tick, EndService
<1>2. QED BY <1>1, ServiceAlwaysIInv, PTL DEF Spec, ReadyOnlyWhenProven
=============================================================================
