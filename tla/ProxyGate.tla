------------------------------ MODULE ProxyGate ------------------------------
(***************************************************************************)
(* The admission gate of shared/proxygate: gate.go, and the write permits  *)
(* and the Close of write_fence.go.  Every section that the code runs      *)
(* under Gate.mu is one step; what runs between two lock sections (the     *)
(* physical Close, a late Attach, the cleanup workers) can interleave with *)
(* any other step.                                                         *)
(*                                                                         *)
(* An element of Adm is one Admission object and an element of Reg one     *)
(* Registration object of a fixed admission; an object that nothing refers *)
(* to any more (Fresh) is used again for a later allocation.  A lease is   *)
(* the Boolean "now is before g.expires": Expire is the passing of time.   *)
(* The transport deadlines are in WriteFence.                              *)
(***************************************************************************)
EXTENDS Naturals, FiniteSets

CONSTANTS
    Session,         \* identifiers of control sessions
    NoOwner,         \* the empty owner string
    Adm, Reg,        \* admissions and registrations
    AdmOf,           \* the admission of a registration
    Client,          \* the implicit first registration of an admission
    MaxAdmissions, MaxTracked, MaxWorkers,
    MaxActivations   \* bound on the number of own() calls

ASSUME SessionAssumption == NoOwner \notin Session
ASSUME RegAssumption ==
    /\ AdmOf \in [Reg -> Adm]
    /\ Client \in [Adm -> Reg]
    /\ \A a \in Adm : AdmOf[Client[a]] = a
ASSUME BoundAssumption ==
    /\ MaxAdmissions \in Nat /\ MaxTracked \in Nat
    /\ MaxWorkers \in Nat \ {0} /\ MaxActivations \in Nat

VARIABLES
    owner, live,     \* g.owner, and now < g.expires
    cleanup,         \* g.cleanup # nil
    admissions,      \* g.admissions
    released,        \* admissions with a.released (or not allocated)
    cancelled,       \* admissions whose context is cancelled
    held,            \* registrations in their admission's map: not r.released
    quarantined,     \* r.quarantined
    rs,              \* attached, aborted and ready of a registration
    conn,            \* its connection
    writing,         \* registrations with a write permit in flight
    wk,              \* where the cleanup batch is with a registration
    captured,        \* the owner string a late Attach has read
    act, born        \* ghosts: number of own() calls, and its value at reservation

gateVars == <<owner, live, cleanup, admissions, released, cancelled>>
regVars == <<held, quarantined, rs, conn, writing, captured, born>>
vars == <<gateVars, regVars, wk, act>>

\* "late": attached to a closed scope, closeFor still to run; "publish":
\* close(r.ready) still to run.
RegState == {"free", "pending", "late", "publish", "attached", "aborted"}
\* "closing": writeFencedConn.Close has begun; "shut": the transport Close has
\* returned; "joined": no operation in flight, completed = true.
ConnState == {"none", "open", "closing", "shut", "joined", "closed"}
WorkState == {"none", "queued", "taken", "closing", "reap"}

IsClient(r) == r = Client[AdmOf[r]]
RegsOf(a) == {r \in held : AdmOf[r] = a}
Ready(r) == rs[r] \in {"attached", "aborted"}
Open == owner # NoOwner /\ live

Init ==
    /\ owner = NoOwner /\ live = FALSE /\ cleanup = FALSE
    /\ admissions = {} /\ released = Adm /\ cancelled = {}
    /\ held = {} /\ quarantined = {}
    /\ rs = [r \in Reg |-> "free"]
    /\ conn = [r \in Reg |-> "none"]
    /\ writing = {}
    /\ wk = [r \in Reg |-> "none"]
    /\ captured = [r \in Reg |-> NoOwner]
    /\ act = 0 /\ born = [r \in Reg |-> 0]

-----------------------------------------------------------------------------
\* Invalidation

\* beginInvalidateLocked(o): close the scope of o (of anyone for NoOwner) and
\* quarantine every registration in one decision.
BeginInvalidate(o) ==
    LET batch == {r \in held : AdmOf[r] \in admissions}
    IN \/ /\ o # NoOwner /\ owner # o
          /\ UNCHANGED <<owner, live, cleanup, cancelled, quarantined, wk>>
       \/ /\ o = NoOwner \/ owner = o
          /\ owner' = NoOwner /\ live' = FALSE
          /\ \/ cleanup /\ UNCHANGED <<cleanup, cancelled, quarantined, wk>>
             \/ /\ ~cleanup
                /\ cancelled' = cancelled \cup admissions
                /\ quarantined' = quarantined \cup batch
                /\ wk' = [r \in Reg |-> IF r \in batch THEN "queued" ELSE wk[r]]
                /\ cleanup' = (batch # {})

\* Gate.Close, and closeFor(session) of the control server.
CloseFor(o) ==
    /\ BeginInvalidate(o)
    /\ UNCHANGED <<admissions, released, held, rs, conn, writing, captured, born, act>>

-----------------------------------------------------------------------------
\* The owner and its lease

Own(s) ==
    /\ ~cleanup /\ admissions = {}
    /\ owner \in {NoOwner, s}
    /\ act < MaxActivations
    /\ owner' = s /\ live' = FALSE /\ act' = act + 1
    /\ UNCHANGED <<cleanup, admissions, released, cancelled, regVars, wk>>

\* Mutant: grant() does not compare the session with the owner.
GrantAnyone(s) ==
    /\ ~cleanup
    /\ live' = TRUE
    /\ UNCHANGED <<owner, cleanup, admissions, released, cancelled, regVars, wk, act>>

Grant(s) ==
    /\ ~cleanup /\ owner = s
    /\ live' = TRUE
    /\ UNCHANGED <<owner, cleanup, admissions, released, cancelled, regVars, wk, act>>

Expire ==
    /\ live
    /\ live' = FALSE
    /\ UNCHANGED <<owner, cleanup, admissions, released, cancelled, regVars, wk, act>>

-----------------------------------------------------------------------------
\* Admissions and reservations

\* No caller, worker or map refers to r.
Fresh(r) ==
    /\ r \notin held /\ wk[r] = "none"
    /\ rs[r] \notin {"late", "publish"}
    /\ conn[r] \in {"none", "closed"}

NewRegistration(r) ==
    /\ held' = held \cup {r}
    /\ quarantined' = quarantined \ {r}
    /\ rs' = [rs EXCEPT ![r] = "pending"]
    /\ conn' = [conn EXCEPT ![r] = "none"]
    /\ born' = [born EXCEPT ![r] = act]

AcquireSource(a) ==
    /\ a \notin admissions /\ \A r \in Reg : AdmOf[r] = a => Fresh(r)
    /\ ~cleanup /\ Open
    /\ Cardinality(admissions) < MaxAdmissions
    /\ admissions' = admissions \cup {a}
    /\ released' = released \ {a}
    /\ cancelled' = cancelled \ {a}
    /\ NewRegistration(Client[a])
    /\ UNCHANGED <<owner, live, cleanup, writing, captured, wk, act>>

\* At the limit the whole scope is closed, under the lock of the limit check.
AcquireOverflow ==
    /\ ~cleanup /\ Open
    /\ Cardinality(admissions) >= MaxAdmissions
    /\ CloseFor(NoOwner)

MayReserve(a) == a \notin released /\ a \notin cancelled /\ ~cleanup /\ Open

Reserve(r) ==
    /\ ~IsClient(r) /\ Fresh(r)
    /\ MayReserve(AdmOf[r])
    /\ Cardinality(RegsOf(AdmOf[r])) < MaxTracked
    /\ NewRegistration(r)
    /\ UNCHANGED <<gateVars, writing, captured, wk, act>>

ReserveOverflow(a) ==
    /\ MayReserve(a)
    /\ Cardinality(RegsOf(a)) >= MaxTracked
    /\ CloseFor(NoOwner)

-----------------------------------------------------------------------------
\* Attach and Abort of a pending registration

\* liveLocked of a fenced connection that is not closed.
LiveLocked(r) ==
    LET a == AdmOf[r]
    IN /\ r \in held /\ rs[r] # "aborted" /\ r \notin quarantined
       /\ a \notin released /\ a \notin cancelled
       /\ ~cleanup /\ Open

\* The `closed` decision of Attach (the client's Track) and of AttachFenced.
AttachClosed(r) ==
    IF IsClient(r)
    THEN AdmOf[r] \in cancelled \/ r \in quarantined \/ ~Open
    ELSE ~LiveLocked(r)

Attachable(r) == rs[r] = "pending" /\ r \in held

Attach(r) ==
    /\ Attachable(r) /\ ~AttachClosed(r)
    /\ rs' = [rs EXCEPT ![r] = "attached"]
    /\ conn' = [conn EXCEPT ![r] = "open"]
    /\ UNCHANGED <<gateVars, held, quarantined, writing, captured, born, wk, act>>

\* The scope closed while the connection was being opened.  Ownership passes to
\* the gate; the owner is read before the lock is dropped.
AttachLate(r) ==
    /\ Attachable(r) /\ AttachClosed(r)
    /\ rs' = [rs EXCEPT ![r] = IF r \in quarantined THEN "publish" ELSE "late"]
    /\ conn' = [conn EXCEPT ![r] = "open"]
    /\ captured' = [captured EXCEPT ![r] = IF r \in quarantined THEN NoOwner ELSE owner]
    /\ UNCHANGED <<gateVars, held, quarantined, writing, born, wk, act>>

\* closeFor(owner) of a late Attach, after its lock was dropped.
LateCloseFor(r) ==
    /\ rs[r] = "late"
    /\ BeginInvalidate(captured[r])
    /\ rs' = [rs EXCEPT ![r] = "publish"]
    /\ captured' = [captured EXCEPT ![r] = NoOwner]
    /\ UNCHANGED <<admissions, released, held, conn, writing, born, act>>

PublishReady(r) ==
    /\ rs[r] = "publish"
    /\ rs' = [rs EXCEPT ![r] = "attached"]
    /\ UNCHANGED <<gateVars, held, quarantined, conn, writing, captured, born, wk, act>>

\* Leave the admission's map; a released admission goes with its last entry.
Remove(r) ==
    /\ held' = held \ {r}
    /\ admissions' = IF AdmOf[r] \in released /\ RegsOf(AdmOf[r]) \subseteq {r}
                     THEN admissions \ {AdmOf[r]} ELSE admissions

Abort(r) ==
    /\ ~IsClient(r) /\ Attachable(r)
    /\ rs' = [rs EXCEPT ![r] = "aborted"]
    /\ IF r \in quarantined THEN UNCHANGED <<held, admissions>> ELSE Remove(r)
    /\ UNCHANGED <<owner, live, cleanup, released, cancelled, quarantined, conn,
                   writing, captured, born, wk, act>>

\* Admission.Release, called once by the handler after its Track has returned.
\* An unquarantined client connection goes back to the HTTP server.
ReleaseAdmission(a) ==
    LET c == Client[a]
        drop == c \in held /\ c \notin quarantined
    IN /\ a \notin released
       /\ rs[c] \notin {"late", "publish"}
       /\ released' = released \cup {a}
       /\ cancelled' = cancelled \cup {a}
       /\ rs' = [rs EXCEPT ![c] = IF @ = "pending" THEN "aborted" ELSE @]
       /\ held' = IF drop THEN held \ {c} ELSE held
       /\ conn' = IF drop THEN [conn EXCEPT ![c] = "none"] ELSE conn
       /\ admissions' = IF RegsOf(a) \subseteq (IF drop THEN {c} ELSE {})
                        THEN admissions \ {a} ELSE admissions
       /\ UNCHANGED <<owner, live, cleanup, quarantined, writing, captured, born, wk, act>>

-----------------------------------------------------------------------------
\* The fenced upstream connection

BeginWrite(r) ==
    /\ ~IsClient(r) /\ rs[r] = "attached" /\ conn[r] = "open"
    /\ LiveLocked(r)
    /\ r \notin writing
    /\ writing' = writing \cup {r}
    /\ UNCHANGED <<gateVars, held, quarantined, rs, conn, captured, born, wk, act>>

EndWrite(r) ==
    /\ r \in writing
    /\ writing' = writing \ {r}
    /\ UNCHANGED <<gateVars, held, quarantined, rs, conn, captured, born, wk, act>>

SetConn(r, s) ==
    /\ conn' = [conn EXCEPT ![r] = s]
    /\ UNCHANGED <<gateVars, held, quarantined, rs, writing, captured, born, wk, act>>

\* Close by the handler, the relay or a preemption: closed = true.
CloseBegin(r) ==
    /\ ~IsClient(r) /\ rs[r] = "attached" /\ conn[r] = "open"
    /\ SetConn(r, "closing")

TransportClosed(r) == conn[r] = "closing" /\ SetConn(r, "shut")

\* Mutant: Close does not wait for the operations in flight.
JoinNothing(r) == conn[r] = "shut" /\ SetConn(r, "joined")

\* operations.Wait, then completed = true.
JoinOperations(r) == conn[r] = "shut" /\ r \notin writing /\ SetConn(r, "joined")

\* Registration.Release at the end of Close: nothing to do in quarantine.
ReleaseRegistration(r) ==
    /\ conn[r] = "joined"
    /\ conn' = [conn EXCEPT ![r] = "closed"]
    /\ IF r \in quarantined \/ r \notin held
       THEN UNCHANGED <<held, admissions>> ELSE Remove(r)
    /\ UNCHANGED <<owner, live, cleanup, released, cancelled, quarantined, rs,
                   writing, captured, born, wk, act>>

-----------------------------------------------------------------------------
\* finishCleanup: the workers of one batch

BusyWorkers == {r \in Reg : wk[r] \in {"taken", "closing", "reap"}}

WorkerTake(r) ==
    /\ wk[r] = "queued" /\ Cardinality(BusyWorkers) < MaxWorkers
    /\ wk' = [wk EXCEPT ![r] = "taken"]
    /\ UNCHANGED <<gateVars, regVars, act>>

\* Mutant: Abort does not close r.ready.
WorkerReadyAttached(r) ==
    /\ wk[r] = "taken" /\ rs[r] = "attached"
    /\ wk' = [wk EXCEPT ![r] = "closing"]
    /\ conn' = [conn EXCEPT ![r] = IF @ = "open" /\ ~IsClient(r) THEN "closing" ELSE @]
    /\ UNCHANGED <<gateVars, held, quarantined, rs, writing, captured, born, act>>

\* <-r.ready, then Close of the connection if there is one.
WorkerReady(r) ==
    /\ wk[r] = "taken" /\ Ready(r)
    /\ wk' = [wk EXCEPT ![r] = IF rs[r] = "aborted" THEN "reap" ELSE "closing"]
    /\ conn' = [conn EXCEPT ![r] = IF @ = "open" /\ ~IsClient(r) THEN "closing" ELSE @]
    /\ UNCHANGED <<gateVars, held, quarantined, rs, writing, captured, born, act>>

\* Close has returned; a second caller of a fenced Close waits for the first.
WorkerClosed(r) ==
    /\ wk[r] = "closing"
    /\ IsClient(r) \/ conn[r] = "closed"
    /\ wk' = [wk EXCEPT ![r] = "reap"]
    /\ conn' = [conn EXCEPT ![r] = "closed"]
    /\ UNCHANGED <<gateVars, held, quarantined, rs, writing, captured, born, act>>

WorkerReap(r) ==
    /\ wk[r] = "reap"
    /\ wk' = [wk EXCEPT ![r] = "none"]
    /\ held' = held \ {r}
    /\ UNCHANGED <<gateVars, quarantined, rs, conn, writing, captured, born, act>>

CleanupDone ==
    LET gone == {a \in admissions : a \in cancelled /\ RegsOf(a) = {}}
    IN /\ cleanup /\ \A r \in Reg : wk[r] = "none"
       /\ released' = released \cup gone
       /\ admissions' = admissions \ gone
       /\ cleanup' = FALSE
       /\ UNCHANGED <<owner, live, cancelled, regVars, wk, act>>

-----------------------------------------------------------------------------
RegStep(r) ==
    \/ Reserve(r) \/ Attach(r) \/ AttachLate(r) \/ LateCloseFor(r)
    \/ PublishReady(r) \/ Abort(r)
    \/ BeginWrite(r) \/ EndWrite(r) \/ CloseBegin(r) \/ TransportClosed(r)
    \/ JoinOperations(r) \/ ReleaseRegistration(r)
    \/ WorkerTake(r) \/ WorkerReady(r) \/ WorkerClosed(r) \/ WorkerReap(r)

Next ==
    \/ \E s \in Session : Own(s) \/ Grant(s)
    \/ \E o \in Session \cup {NoOwner} : CloseFor(o)
    \/ Expire
    \/ \E a \in Adm : AcquireSource(a) \/ ReserveOverflow(a) \/ ReleaseAdmission(a)
    \/ AcquireOverflow
    \/ \E r \in Reg : RegStep(r)
    \/ CleanupDone

Spec == Init /\ [][Next]_vars

\* What the callers and the transports owe the gate: an opening that was
\* started ends in Attach or Abort, a handler tracks its client or releases, a
\* permitted write and a transport Close return; and the gate's own goroutines run.
Fairness ==
    /\ \A r \in Reg :
        /\ WF_vars(Attach(r) \/ AttachLate(r) \/ Abort(r))
        /\ WF_vars(LateCloseFor(r)) /\ WF_vars(PublishReady(r))
        /\ WF_vars(EndWrite(r)) /\ WF_vars(TransportClosed(r))
        /\ WF_vars(JoinOperations(r)) /\ WF_vars(ReleaseRegistration(r))
        /\ WF_vars(WorkerTake(r)) /\ WF_vars(WorkerReady(r))
        /\ WF_vars(WorkerClosed(r)) /\ WF_vars(WorkerReap(r))
    /\ WF_vars(CleanupDone)

FairSpec == Spec /\ Fairness

-----------------------------------------------------------------------------
TypeOK ==
    /\ owner \in Session \cup {NoOwner}
    /\ live \in BOOLEAN /\ cleanup \in BOOLEAN
    /\ admissions \subseteq Adm /\ released \subseteq Adm /\ cancelled \subseteq Adm
    /\ held \subseteq Reg /\ quarantined \subseteq Reg /\ writing \subseteq Reg
    /\ rs \in [Reg -> RegState]
    /\ conn \in [Reg -> ConnState]
    /\ wk \in [Reg -> WorkState]
    /\ captured \in [Reg -> Session \cup {NoOwner}]
    /\ act \in Nat
    /\ born \in [Reg -> Nat]

\* A scope that own() or a CLOSED acknowledgement may take: nobody owns it and
\* no cleanup task is left.
Closed == owner = NoOwner /\ ~cleanup

\* The inductive invariant, in the order of its argument.

\* The batch of the cleanup task is exactly what is held while it runs, and
\* quarantine is membership in the batch.
BatchIsHeld ==
    \A r \in Reg :
        /\ (wk[r] # "none") <=> (cleanup /\ r \in held)
        /\ r \in held => ((r \in quarantined) <=> cleanup)

\* The maps nest: a held registration has its admission in the gate's map, and
\* outside cleanup no admission there is empty.
MapsNest ==
    /\ \A r \in held : AdmOf[r] \in admissions
    /\ \A a \in Adm \ released :
        a \in admissions /\ (cleanup \/ Client[a] \in held)
    /\ ~cleanup => \A a \in admissions : \E r \in held : AdmOf[r] = a

\* Outside cleanup only an owned scope holds admissions; cleanup has cancelled all.
ScopeOwned ==
    /\ live => owner # NoOwner
    /\ cleanup => owner = NoOwner /\ admissions \subseteq cancelled
    /\ admissions # {} => cleanup \/ owner # NoOwner

\* A registration is held until its opening has ended, its connection is
\* closed and its operations have returned.
HeldUntilReaped ==
    \A r \in Reg :
        /\ rs[r] \in {"pending", "late", "publish"} => r \in held
        /\ rs[r] \in {"free", "pending", "aborted"} => conn[r] = "none"
        /\ conn[r] \notin {"none", "closed"} => r \in held
        /\ conn[r] \in {"closing", "shut", "joined"} => rs[r] = "attached" /\ ~IsClient(r)
        /\ r \in writing => conn[r] \in {"open", "closing", "shut"} /\ ~IsClient(r)
        /\ wk[r] = "closing" => rs[r] = "attached"
        /\ wk[r] = "reap" => Ready(r) /\ conn[r] \in {"none", "closed"}

\* What is held was reserved in the current activation; a late Attach has read
\* a real owner.
HeldIsCurrent ==
    \A r \in Reg :
        /\ r \in held => born[r] = act
        /\ rs[r] = "late" => captured[r] # NoOwner

IInv ==
    /\ TypeOK /\ BatchIsHeld /\ MapsNest /\ ScopeOwned /\ HeldUntilReaped /\ HeldIsCurrent

\* When the gate reports its scope closed (gate.go AwaitClosed and own), no
\* reservation is outstanding, every tracked connection has been physically
\* closed, and no write that was permitted before is still in flight.
ClosedMeansReaped ==
    Closed =>
        /\ admissions = {} /\ held = {} /\ writing = {}
        /\ \A r \in Reg : conn[r] \in {"none", "closed"}

\* Everything that is still reserved, open or being written belongs to the
\* current activation: no connection of an earlier own() survives into a later
\* one, also when the session string is the same (gate.go own, finishCleanup).
OnlyCurrentActivation ==
    \A r \in Reg :
        (r \in held \/ r \in writing \/ conn[r] \notin {"none", "closed"})
            => born[r] = act

\* A late Attach that still has to run closeFor with the owner it read
\* (gate.go Attach, "this stale Attach must never close" a fresh owner) can only
\* hit the activation in which it reserved, and never closes with the empty
\* owner, which would close anybody's scope.
StaleAttachIsHarmless ==
    \A r \in Reg : rs[r] = "late" => captured[r] # NoOwner /\ born[r] = act

\* A quarantined registration leaves its admission only through its cleanup
\* worker, after Close returned (gate.go Registration.Release: "Release cannot
\* turn a still-running Close into an early CLOSED acknowledgement").
QuarantineIsReapedByWorker ==
    [][\A r \in Reg : r \in held \ held' /\ r \in quarantined
            => wk[r] = "reap" /\ conn[r] \in {"none", "closed"}]_vars

\* An invalidated scope is eventually reaped, whatever was pending, attaching,
\* writing or closing when it was invalidated (gate.go finishCleanup).
CleanupTerminates == cleanup ~> ~cleanup

\* The gate implements the barrier the control server relies on: admissions are
\* the admitted work and the cleanup task is the drain (gate.go own, grant,
\* AcquireSource, beginInvalidateLocked, finishCleanup).
Barrier == INSTANCE ProxyBarrier WITH
    Work <- Adm, admitted <- admissions, draining <- cleanup
BarrierSpec == Barrier!Spec
=============================================================================
