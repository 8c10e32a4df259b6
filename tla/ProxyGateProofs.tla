---------------------------- MODULE ProxyGateProofs ---------------------------
(***************************************************************************)
(* Proofs about ProxyGate and WriteFence, the gate of the egress server    *)
(* and the fenced connections its registrations hand out, and about        *)
(* EgressRotation, the Hub's change of the address of an egress phone.     *)
(***************************************************************************)
EXTENDS ProxyGate, WriteFence, FiniteSetTheorems, TLAPS

-----------------------------------------------------------------------------
(***************************************************************************)
(* Proofs about ProxyGate, for every set of sessions, admissions and       *)
(* registrations and every limit: type correctness, the inductive          *)
(* invariant IInv, the safety properties that follow from it, and that the *)
(* gate implements ProxyBarrier.                                           *)
(***************************************************************************)

\* One invalidation decision keeps the types of what it assigns.
LEMMA InvalidateType ==
    ASSUME TypeOK, NEW o, BeginInvalidate(o)
    PROVE  /\ owner' \in Session \cup {NoOwner}
           /\ live' \in BOOLEAN /\ cleanup' \in BOOLEAN
           /\ cancelled' \subseteq Adm /\ quarantined' \subseteq Reg
           /\ wk' \in [Reg -> WorkState]
<1>1. live' \in BOOLEAN /\ cleanup' \in BOOLEAN
  BY Zenon DEF TypeOK, BeginInvalidate
<1>2. /\ owner' \in Session \cup {NoOwner}
      /\ cancelled' \subseteq Adm /\ quarantined' \subseteq Reg
      /\ wk' \in [Reg -> WorkState]
  BY Zenon DEF TypeOK, BeginInvalidate, WorkState
<1> QED BY <1>1, <1>2

\* Every step of the gate keeps the types of its state.
LEMMA TypeStep == TypeOK /\ [Next]_vars => TypeOK'
<1> SUFFICES ASSUME TypeOK, [Next]_vars PROVE TypeOK'
  OBVIOUS
<1> USE RegAssumption DEF gateVars, regVars, RegState, ConnState
<1>1. ASSUME NEW s \in Session, Own(s) PROVE TypeOK'
  <2>1. live' \in BOOLEAN /\ cleanup' \in BOOLEAN
    BY <1>1, Zenon DEF Own, TypeOK
  <2> QED BY <1>1, <2>1 DEF Own, TypeOK
<1>2. ASSUME NEW s \in Session, Grant(s) PROVE TypeOK'
  BY <1>2, Zenon DEF Grant, TypeOK
<1>3. ASSUME NEW o, CloseFor(o) PROVE TypeOK'
  BY <1>3, InvalidateType, Zenon DEF CloseFor, TypeOK
<1>4. CASE Expire
  <2>1. live' \in BOOLEAN /\ cleanup' \in BOOLEAN
    BY <1>4, Zenon DEF Expire, TypeOK
  <2> QED BY <1>4, <2>1, Zenon DEF Expire, TypeOK
<1>5. ASSUME NEW a \in Adm, AcquireSource(a) PROVE TypeOK'
  BY <1>5 DEF AcquireSource, NewRegistration, TypeOK
<1>6. ASSUME NEW a \in Adm, ReleaseAdmission(a) PROVE TypeOK'
  BY <1>6, Zenon DEF ReleaseAdmission, TypeOK
<1>7. ASSUME NEW r \in Reg, RegStep(r) PROVE TypeOK'
  <2>1. CASE Reserve(r)
    BY <2>1, Zenon DEF Reserve, NewRegistration, TypeOK
  <2>2. CASE Attach(r) \/ AttachLate(r) \/ PublishReady(r)
    BY <2>2 DEF Attach, AttachLate, PublishReady, TypeOK
  <2>3. CASE LateCloseFor(r)
    BY <2>3, InvalidateType, Zenon DEF LateCloseFor, TypeOK
  <2>4. CASE Abort(r) \/ ReleaseRegistration(r)
    BY <2>4 DEF Abort, ReleaseRegistration, Remove, TypeOK
  <2>5. CASE BeginWrite(r) \/ EndWrite(r)
    BY <2>5 DEF BeginWrite, EndWrite, TypeOK
  <2>6. CASE CloseBegin(r) \/ TransportClosed(r) \/ JoinOperations(r)
    BY <2>6 DEF CloseBegin, TransportClosed, JoinOperations, SetConn, TypeOK
  <2>7. CASE WorkerTake(r) \/ WorkerReady(r) \/ WorkerClosed(r) \/ WorkerReap(r)
    BY <2>7 DEF WorkerTake, WorkerReady, WorkerClosed, WorkerReap, WorkState, TypeOK
  <2> QED BY <1>7, <2>1, <2>2, <2>3, <2>4, <2>5, <2>6, <2>7, Zenon DEF RegStep
<1>8. CASE CleanupDone
  <2>1. live' \in BOOLEAN /\ cleanup' \in BOOLEAN
    BY <1>8, Zenon DEF CleanupDone, TypeOK
  <2> QED BY <1>8, <2>1, Zenon DEF CleanupDone, TypeOK
<1>9. CASE UNCHANGED vars
  BY <1>9, Zenon DEF vars, TypeOK
<1> QED
  BY <1>1, <1>2, <1>3, <1>4, <1>5, <1>6, <1>7, <1>8, <1>9
    , Zenon DEF Next, AcquireOverflow, ReserveOverflow

\* The initial state has its type.
LEMMA InitType == Init => TypeOK
<1> SUFFICES ASSUME Init PROVE TypeOK
  OBVIOUS
<1>1. live \in BOOLEAN /\ cleanup \in BOOLEAN
  BY Zenon DEF Init
<1> QED BY <1>1, Zenon DEF Init, TypeOK, RegState, ConnState, WorkState

\* The gate's state always has its type (gate.go, the fields of Gate, Admission
\* and Registration).
THEOREM TypeCorrect == Spec => []TypeOK
<1> QED BY InitType, TypeStep, PTL DEF Spec

-----------------------------------------------------------------------------
\* The empty gate satisfies the inductive invariant.
LEMMA InitIInv == Init => IInv
<1> SUFFICES ASSUME Init PROVE IInv
  OBVIOUS
<1>1. BatchIsHeld /\ MapsNest /\ ScopeOwned /\ HeldIsCurrent
  BY InitType, Zenon DEF Init, TypeOK, BatchIsHeld, MapsNest, ScopeOwned, HeldIsCurrent
<1>2. HeldUntilReaped
  BY Zenon DEF Init, HeldUntilReaped
<1> QED BY <1>1, <1>2, InitType DEF IInv

\* Every step keeps the inductive invariant.
LEMMA StepIInv == IInv /\ [Next]_vars => IInv'
<1> SUFFICES ASSUME IInv, [Next]_vars PROVE IInv'
  OBVIOUS
<1>0. TypeOK /\ TypeOK'
  BY TypeStep DEF IInv
<1> USE <1>0, RegAssumption, SessionAssumption
        DEF IInv, TypeOK, BatchIsHeld, MapsNest, ScopeOwned, HeldUntilReaped,
            HeldIsCurrent, Ready, IsClient, gateVars, regVars
<1>1. ASSUME NEW s \in Session, Own(s) PROVE IInv'
  BY <1>1, Zenon DEF Own
<1>2. ASSUME NEW s \in Session, Grant(s) PROVE IInv'
  BY <1>2, Zenon DEF Grant
<1>3. ASSUME NEW o \in Session \cup {NoOwner}, CloseFor(o) PROVE IInv'
  BY <1>3 DEF CloseFor, BeginInvalidate
<1>4. CASE Expire
  BY <1>4, Zenon DEF Expire
<1>5. ASSUME NEW a \in Adm, AcquireSource(a) PROVE IInv'
  BY <1>5 DEF AcquireSource, NewRegistration, Fresh, Open
<1>6. ASSUME NEW a \in Adm, ReleaseAdmission(a) PROVE IInv'
  BY <1>6 DEF ReleaseAdmission, RegsOf
<1>7. ASSUME NEW r \in Reg, RegStep(r) PROVE IInv'
  <2>1. CASE Reserve(r)
    BY <2>1 DEF Reserve, NewRegistration, Fresh, MayReserve, Open
  <2>2. CASE Attach(r)
    BY <2>2 DEF Attach, Attachable
  <2>3. CASE AttachLate(r)
    BY <2>3 DEF AttachLate, Attachable
  <2>4. CASE LateCloseFor(r)
    BY <2>4 DEF LateCloseFor, BeginInvalidate
  <2>5. CASE PublishReady(r)
    BY <2>5 DEF PublishReady
  <2>6. CASE Abort(r)
    BY <2>6 DEF Abort, Attachable, Remove, RegsOf
  <2>7. CASE BeginWrite(r) \/ EndWrite(r)
    BY <2>7 DEF BeginWrite, EndWrite
  <2>8. CASE CloseBegin(r) \/ TransportClosed(r) \/ JoinOperations(r)
    BY <2>8 DEF CloseBegin, TransportClosed, JoinOperations, SetConn
  <2>9. CASE ReleaseRegistration(r)
    BY <2>9 DEF ReleaseRegistration, Remove, RegsOf
  <2>10. CASE WorkerTake(r)
    BY <2>10 DEF WorkerTake
  <2>11. CASE WorkerReady(r)
    BY <2>11 DEF WorkerReady
  <2>12. CASE WorkerClosed(r)
    BY <2>12 DEF WorkerClosed
  <2>13. CASE WorkerReap(r)
    BY <2>13 DEF WorkerReap
  <2> HIDE DEF IInv
  <2> QED
    BY <1>7, <2>1, <2>2, <2>3, <2>4, <2>5, <2>6, <2>7, <2>8, <2>9, <2>10, <2>11,
       <2>12, <2>13 DEF RegStep
<1>8. CASE CleanupDone
  BY <1>8 DEF CleanupDone, RegsOf
<1>9. CASE UNCHANGED vars
  BY <1>9, Zenon DEF vars
<1> HIDE DEF IInv
<1> QED
  BY <1>1, <1>2, <1>3, <1>4, <1>5, <1>6, <1>7, <1>8, <1>9
    , Zenon DEF Next, AcquireOverflow, ReserveOverflow

\* The inductive invariant of the gate holds in every reachable state.
THEOREM InductiveInvariant == Spec => []IInv
<1> QED BY InitIInv, StepIInv, PTL DEF Spec

-----------------------------------------------------------------------------
\* A closed scope is fully reaped: no reservation, no open connection and no
\* permitted write is left when own() or a CLOSED acknowledgement may follow
\* (gate.go AwaitClosed, own, finishCleanup).
THEOREM ClosedIsReaped == Spec => []ClosedMeansReaped
<1>1. IInv => ClosedMeansReaped
  BY Zenon DEF IInv, TypeOK, MapsNest, ScopeOwned, HeldUntilReaped, ClosedMeansReaped, Closed
<1> QED BY <1>1, InductiveInvariant, PTL

\* No reservation, connection or write survives into a later activation
\* (gate.go own, finishCleanup).
THEOREM NothingSurvivesActivation == Spec => []OnlyCurrentActivation
<1>1. IInv => OnlyCurrentActivation
  BY Zenon DEF IInv, HeldUntilReaped, HeldIsCurrent, OnlyCurrentActivation
<1> QED BY <1>1, InductiveInvariant, PTL

\* The closeFor of a late Attach names the activation it reserved in
\* (gate.go Attach).
THEOREM LateAttachNamesItsOwner == Spec => []StaleAttachIsHarmless
<1>1. IInv => StaleAttachIsHarmless
  BY Zenon DEF IInv, HeldUntilReaped, HeldIsCurrent, StaleAttachIsHarmless
<1> QED BY <1>1, InductiveInvariant, PTL

\* A quarantined registration leaves the gate only through its cleanup worker
\* (gate.go Registration.Release, Abort, Admission.Release, finishCleanup).
THEOREM OnlyTheWorkerReaps == Spec => QuarantineIsReapedByWorker
<1> DEFINE Reaped(r) ==
        r \in held \ held' /\ r \in quarantined
            => wk[r] = "reap" /\ conn[r] \in {"none", "closed"}
<1>1. IInv /\ [Next]_vars => [\A r \in Reg : Reaped(r)]_vars
  <2> SUFFICES ASSUME IInv, Next, NEW r \in Reg, r \in held \ held', r \in quarantined
               PROVE  wk[r] = "reap" /\ conn[r] \in {"none", "closed"}
    OBVIOUS
  <2>1. PICK q \in Reg : ReleaseAdmission(AdmOf[q]) \/ Abort(q) \/ ReleaseRegistration(q)
                          \/ WorkerReap(q)
    <3>1. UNCHANGED held \/ (\E x : held' = held \cup {x})
            \/ (\E a \in Adm : ReleaseAdmission(a))
            \/ (\E x \in Reg : Abort(x) \/ ReleaseRegistration(x) \/ WorkerReap(x))
      BY Zenon DEF Next, RegStep, Own, Grant, CloseFor, Expire, AcquireSource, ReserveOverflow,
             AcquireOverflow, Reserve, NewRegistration, Attach, AttachLate, LateCloseFor,
             PublishReady, BeginWrite, EndWrite, CloseBegin, TransportClosed,
             JoinOperations, SetConn, WorkerTake, WorkerReady, WorkerClosed, CleanupDone,
             gateVars, regVars
    <3>2. \A a \in Adm : \E x \in Reg : AdmOf[x] = a
      BY RegAssumption
    <3> QED BY <3>1, <3>2
  <2>2. wk[r] = "reap"
    BY <2>1, Zenon DEF ReleaseAdmission, Abort, ReleaseRegistration, Remove, WorkerReap
  <2> QED BY <2>2, Zenon DEF IInv, HeldUntilReaped
<1> QED BY <1>1, InductiveInvariant, PTL DEF Spec, QuarantineIsReapedByWorker

-----------------------------------------------------------------------------
\* An invalidation of the gate is an invalidation of the barrier, or nothing.
LEMMA InvalidateRefines ==
    ASSUME IInv, NEW o, BeginInvalidate(o), UNCHANGED admissions
    PROVE  Barrier!Invalidate \/ UNCHANGED <<owner, live, cleanup, admissions>>
<1> USE DEF IInv, TypeOK
<1> DEFINE batch == {r \in held : AdmOf[r] \in admissions}
<1>1. CASE owner' = NoOwner /\ live' = FALSE /\ cleanup /\ UNCHANGED cleanup
  BY <1>1, Zenon DEF Barrier!Invalidate
<1>2. CASE owner' = NoOwner /\ live' = FALSE /\ ~cleanup /\ cleanup' = (batch # {})
  <2>1. (batch # {}) = (admissions # {})
    BY <1>2, Zenon DEF MapsNest
  <2> QED BY <1>2, <2>1, Zenon DEF Barrier!Invalidate
<1> QED BY <1>1, <1>2, Zenon DEF BeginInvalidate

\* Every step of the gate is a step of the barrier or leaves it unchanged.
LEMMA StepRefines ==
    IInv /\ [Next]_vars => [Barrier!Next]_(Barrier!barrierVars)
<1> SUFFICES ASSUME IInv, [Next]_vars
             PROVE  Barrier!Next \/ UNCHANGED <<owner, live, cleanup, admissions>>
  BY DEF Barrier!barrierVars
<1> USE DEF Barrier!Next, gateVars, regVars
<1>1. ASSUME NEW s \in Session, Own(s) PROVE Barrier!Own(s)
  BY <1>1, Zenon DEF Own, Barrier!Own
<1>2. ASSUME NEW s \in Session, Grant(s) PROVE Barrier!Grant(s)
  BY <1>2, Zenon DEF Grant, Barrier!Grant
<1>3. ASSUME NEW o, CloseFor(o)
      PROVE  Barrier!Invalidate \/ UNCHANGED <<owner, live, cleanup, admissions>>
  BY <1>3, InvalidateRefines, Zenon DEF CloseFor
<1>4. CASE Expire
  BY <1>4, Zenon DEF Expire, Barrier!Expire
<1>5. ASSUME NEW a \in Adm, AcquireSource(a) PROVE Barrier!Admit(a)
  BY <1>5, Zenon DEF AcquireSource, Open, Barrier!Admit
<1>6. ASSUME NEW a \in Adm, ReleaseAdmission(a)
      PROVE  Barrier!Finish(a) \/ UNCHANGED <<owner, live, cleanup, admissions>>
  BY <1>6, Zenon DEF ReleaseAdmission, Barrier!Finish, IInv, MapsNest
<1>7. ASSUME NEW r \in Reg, RegStep(r)
      PROVE  \/ Barrier!Finish(AdmOf[r]) \/ Barrier!Invalidate
             \/ UNCHANGED <<owner, live, cleanup, admissions>>
  <2>1. CASE LateCloseFor(r)
    BY <2>1, InvalidateRefines, Zenon DEF LateCloseFor
  <2>2. CASE Abort(r) \/ ReleaseRegistration(r)
    BY <2>2, Zenon DEF Abort, ReleaseRegistration, Remove, Attachable, Barrier!Finish, IInv,
       MapsNest
  <2>3. CASE UNCHANGED gateVars
    BY <2>3
  <2> QED
    BY <1>7, <2>1, <2>2, <2>3
      , Zenon DEF RegStep, Reserve, Attach, AttachLate, PublishReady, BeginWrite, EndWrite,
           CloseBegin, TransportClosed, JoinOperations, SetConn, WorkerTake,
           WorkerReady, WorkerClosed, WorkerReap
<1>8. CASE CleanupDone
  <2>1. admissions' = {}
    BY <1>8 DEF CleanupDone, RegsOf, IInv, TypeOK, BatchIsHeld, ScopeOwned
  <2> QED BY <1>8, <2>1, Zenon DEF CleanupDone, Barrier!Drained
<1>9. CASE UNCHANGED vars
  BY <1>9, Zenon DEF vars
<1>10. \A r \in Reg : AdmOf[r] \in Adm
  BY RegAssumption
<1> QED
  BY <1>1, <1>2, <1>3, <1>4, <1>5, <1>6, <1>7, <1>8, <1>9, <1>10
    , Zenon DEF Next, AcquireOverflow, ReserveOverflow

\* The gate implements the barrier the control server relies on (gate.go as
\* used by control.go).
THEOREM GateImplementsBarrier == Spec => BarrierSpec
<1>1. Init => Barrier!Init
  BY DEF Init, Barrier!Init
<1> QED BY <1>1, StepRefines, InductiveInvariant, PTL DEF Spec, BarrierSpec, Barrier!Spec

-----------------------------------------------------------------------------
(***************************************************************************)
(* Proofs about WriteFence, for every number of writers, setters and       *)
(* revokers.                                                               *)
(*                                                                         *)
(* The deadline of a revoked connection is argued from an attempt: from    *)
(* the moment somebody has tried to put a past deadline on the connection  *)
(* there is a past deadline, or somebody is on the way to put one: the     *)
(* revoker or Close, waiting for deadlineMu or holding it, or a setter     *)
(* whose own update came in between and which looks at the scope again.    *)
(* That look cannot find a live scope, because an attempt is made only     *)
(* once the scope is revoked, the connection closed or never handed out.   *)
(***************************************************************************)

\* The labels that each role goes through, and those at which it has a permit
WriterLabels == {"idle", "write", "end", "done"}
RevokerLabels == {"idle", "lock", "past", "unlock", "end", "done"}
SetterLabels == RevokerLabels \cup {"check", "set", "recheck"}
CloserLabels == {"idle", "lock", "past", "unlock", "transport", "join"}
Permitted(c) == pc[c] \notin {"idle", "done"}

Roles ==
    /\ \A c \in Writer : pc[c] \in WriterLabels
    /\ \A c \in Setter : pc[c] \in SetterLabels
    /\ \A c \in Revoker : pc[c] \in RevokerLabels
    /\ pc[Closer] \in CloserLabels

\* The flags admit one caller of each role at a time.
OneEach ==
    /\ \A c \in Setter : Permitted(c) => deadlineActive /\ \A d \in Setter : Permitted(d) => d = c
    /\ \A c \in Revoker : Permitted(c) => revokerActive /\ \A d \in Revoker : Permitted(d) => d = c
    /\ revokerActive => \E c \in Revoker : Permitted(c)

Attempted == swept \/ closed \/ \E v \in Revoker : pc[v] # "idle"
Final == late \/ scope = "revoked" \/ closed
OnTheWay ==
    \/ deadline = "past"
    \/ \E d \in Setter : pc[d] \in {"recheck", "past"}
    \/ \E v \in Revoker : pc[v] \in {"lock", "past"}
    \/ pc[Closer] \in {"lock", "past"}

Closing ==
    /\ pc[Closer] # "idle" \/ completed => closed
    /\ pc[Closer] = "join" \/ completed => transport = "closed"
    /\ completed => operations = {}

FenceIInv ==
    /\ FenceTypeOK /\ Roles /\ OneEach /\ Closing
    /\ late => \A d \in Setter : pc[d] = "idle"
    /\ Attempted => Final /\ OnTheWay

-----------------------------------------------------------------------------
\* Nothing has been attempted on a connection that was just attached.
LEMMA FenceInitIInv == FenceInit => FenceIInv
<1> SUFFICES ASSUME FenceInit PROVE FenceIInv
  OBVIOUS
<1>1. FenceTypeOK
  BY CallerAssumption, Zenon DEF FenceInit, FenceTypeOK, Labels, Caller
<1>2. Roles /\ OneEach /\ Closing
  BY DEF FenceInit, Roles, OneEach, Closing, Permitted, WriterLabels, SetterLabels, RevokerLabels,
         CloserLabels, Caller
<1>3. ~Attempted
  BY DEF FenceInit, Attempted, Caller
<1>4. \A d \in Setter : pc[d] = "idle"
  BY DEF FenceInit, Caller
<1> QED BY <1>1, <1>2, <1>3, <1>4 DEF FenceIInv

\* Every step of the scope, of a caller and of Close keeps the invariant.
LEMMA NextIInv == FenceIInv /\ [FenceNext]_fenceVars => FenceIInv'
<1> SUFFICES ASSUME FenceIInv, [FenceNext]_fenceVars PROVE FenceIInv'
  OBVIOUS
<1> USE CallerAssumption DEF FenceIInv, FenceTypeOK, Roles, OneEach, Closing, Permitted,
       Attempted, Final, OnTheWay, WriterLabels, SetterLabels, RevokerLabels, CloserLabels,
       Caller, Labels, env, permits, fence, Goto
<1>1. CASE UNCHANGED fenceVars
  BY <1>1 DEF fenceVars
<1>2. CASE Lapse \/ Renew \/ Revoke
  BY <1>2 DEF Lapse, Renew, Revoke
<1>3. ASSUME NEW w \in Writer, FenceBeginWrite(w) PROVE FenceIInv'
  BY <1>3 DEF FenceBeginWrite, FenceLiveLocked
<1>4. ASSUME NEW w \in Writer, WriteReturns(w) PROVE FenceIInv'
  BY <1>4 DEF WriteReturns
<1>5. ASSUME NEW d \in Setter, BeginDeadline(d) PROVE FenceIInv'
  BY <1>5 DEF BeginDeadline, FenceLiveLocked
<1>6. ASSUME NEW d \in Setter, CheckLive(d) PROVE FenceIInv'
  BY <1>6 DEF CheckLive
<1>7. ASSUME NEW d \in Setter, SetDeadline(d) PROVE FenceIInv'
  BY <1>7 DEF SetDeadline
<1>8. ASSUME NEW d \in Setter, RecheckLive(d) PROVE FenceIInv'
  BY <1>8 DEF RecheckLive, FenceLiveLocked
<1>9. ASSUME NEW v \in Revoker, BeginRevoker(v) PROVE FenceIInv'
  BY <1>9 DEF BeginRevoker
<1>10. ASSUME NEW v \in Revoker, RevokerRefused(v) PROVE FenceIInv'
  BY <1>10 DEF RevokerRefused
<1>11. ASSUME NEW c \in Caller, End(c) PROVE FenceIInv'
  BY <1>11 DEF End
<1>12. ASSUME NEW c \in Caller, Done(c) PROVE FenceIInv'
  BY <1>12 DEF Done
<1>13. ASSUME NEW c \in Caller \cup {Closer}, LockDeadline(c) PROVE FenceIInv'
  BY <1>13 DEF LockDeadline
<1>14. ASSUME NEW c \in Caller \cup {Closer}, PastDeadline(c) PROVE FenceIInv'
  BY <1>14 DEF PastDeadline
<1>15. ASSUME NEW c \in Caller \cup {Closer}, UnlockDeadline(c) PROVE FenceIInv'
  BY <1>15 DEF UnlockDeadline
<1>16. CASE FenceCloseBegin
  BY <1>16 DEF FenceCloseBegin
<1>17. CASE CloseTransport
  BY <1>17 DEF CloseTransport
<1>18. CASE CloseJoin
  BY <1>18 DEF CloseJoin
<1> QED
  BY <1>1, <1>2, <1>3, <1>4, <1>5, <1>6, <1>7, <1>8, <1>9, <1>10, <1>11, <1>12, <1>13, <1>14,
     <1>15, <1>16, <1>17, <1>18, Zenon DEF FenceNext, CallerStep

\* The invariant holds in every reachable state.
LEMMA AlwaysIInv == FenceSpec => []FenceIInv
BY FenceInitIInv, NextIInv, PTL DEF FenceSpec

-----------------------------------------------------------------------------
(* The theorems *)

\* Close is complete only when no permitted operation is left, and none is
\* permitted afterwards.
THEOREM CloseJoins == FenceSpec => []CompletedIsJoined
<1>1. FenceIInv => CompletedIsJoined
  BY DEF FenceIInv, FenceTypeOK, Closing, CompletedIsJoined
<1> QED BY <1>1, AlwaysIInv, PTL

\* A racing SetDeadline cannot take the past deadline from a revoked connection.
THEOREM DeadlineStays == FenceSpec => []RevokedDeadlineStays
<1>1. FenceIInv => RevokedDeadlineStays
  BY DEF FenceIInv, OneEach, Permitted, Attempted, OnTheWay, RevokedDeadlineStays
<1> QED BY <1>1, AlwaysIInv, PTL

-----------------------------------------------------------------------------
(***************************************************************************)
(* Proofs about EgressRotation, for every set of requests, down times and  *)
(* waits, and however often the Hub restarts.                              *)
(*                                                                         *)
(* Until its trigger ends the lock is in flight and the request's own;     *)
(* after a trigger that failed it is unknown for the life of the Hub;      *)
(* after one that succeeded it is the request's own until somebody takes   *)
(* it, and nobody does before the down time and the margin have passed.    *)
(* Locks are told apart by when they began, so the case of an overdue      *)
(* request beside the lock of the next one needs the order of the times.   *)
(*                                                                         *)
(* The addresses are argued by the radio: once a script has turned it off, *)
(* nobody sees an address before some script has turned it on again, and   *)
(* that gives the phone a new one.                                         *)
(***************************************************************************)
CONSTANTS Requests, Direct, Downs, Waits, Extra, SshTime, Margin, Interval,
          OffMayFail, MaxTime, MaxRestart
VARIABLES clock, lock, req, job, airplane, address, life

Egress == INSTANCE EgressRotation WITH now <- clock

\* Egress counts with the Cardinality of its own copy of FiniteSets.
LEMMA EgressSizes == \A S : /\ Egress!Cardinality(S) = Cardinality(S)
                            /\ Egress!IsFiniteSet(S) <=> IsFiniteSet(S)
  BY DEF Egress!Cardinality, Cardinality, Egress!IsFiniteSet, IsFiniteSet

Req == [pc : {"idle", "ssh", "answered", "waiting", "done", "unknown"}, down : Nat, wait : Nat, begun : Nat,
        life : Nat, next : Nat, deadline : Nat, before : Nat, after : Nat]
Job == [state : {"none", "sent", "queued", "down", "done"}, due : Nat, took : BOOLEAN]

Types ==
  /\ clock \in Nat /\ airplane \in BOOLEAN /\ life \in Nat \ {0} /\ address \in Nat
  /\ lock \in [started : Nat, until : Nat, unknown : BOOLEAN, inflight : BOOLEAN]
  /\ req \in [Requests -> Req] /\ job \in [Requests -> Job]

\* A request of the running Hub, and the lock it took
Reserved(r) ==
  /\ req[r].life <= life /\ (r \in Direct \/ req[r].pc = "idle" => req[r].life = 0)
  /\ req[r].life > 0 => req[r].down > 0
  /\ r \notin Direct /\ req[r].pc = "ssh" =>
       /\ req[r].life = life /\ Egress!Mine(r) /\ lock.inflight /\ ~lock.unknown
       /\ \A q \in Requests \ Direct : req[q].pc = "ssh" => q = r
  /\ Egress!Running(r) /\ req[r].pc = "unknown" => lock.unknown /\ ~lock.inflight
  /\ Egress!Running(r) /\ req[r].pc \in {"answered", "waiting", "done"} =>
       /\ job[r].state # "sent"
       /\ \/ clock >= req[r].begun + req[r].down + Extra
          \/ ~lock.inflight /\ lock.until = req[r].begun + req[r].down + Extra

\* What a request has seen of the phone's addresses
Seen(r) ==
  /\ req[r].pc = "idle" => job[r].state = "none"
  /\ req[r].pc \in {"answered", "waiting"} => job[r].state \notin {"none", "sent"}
  /\ job[r].took => job[r].state \in {"down", "done"}
  /\ req[r].before # Egress!Unavailable => req[r].before <= address
  /\ job[r].took /\ req[r].before # Egress!Unavailable => airplane \/ req[r].before < address

EgressIInv == Types /\ \A r \in Requests : Reserved(r) /\ Seen(r)

-----------------------------------------------------------------------------
\* The sentinel for a failed look is a number.
LEMMA UnavailableType ==
  ASSUME Egress!Constants
  PROVE  Egress!Unavailable \in Nat
<1>1. Egress!Cardinality(Requests) = Cardinality(Requests) /\ IsFiniteSet(Requests)
  BY EgressSizes DEF Egress!Constants
<1>2. Cardinality(Requests) \in Nat
  BY <1>1, FS_CardinalityType
<1> QED BY <1>1, <1>2 DEF Egress!Unavailable

\* Before the first request the lock is free and nobody has looked.
LEMMA EgressInitIInv ==
  ASSUME Egress!Constants
  PROVE  Egress!Init => EgressIInv
<1> SUFFICES ASSUME Egress!Init PROVE EgressIInv
  OBVIOUS
<1>1. Types
  <2> DEFINE idle == [pc |-> "idle", down |-> 0, wait |-> 0, begun |-> 0, life |-> 0,
                      next |-> 0, deadline |-> 0, before |-> 0, after |-> Egress!Unavailable]
  <2>1. idle \in Req /\ [state |-> "none", due |-> 0, took |-> FALSE] \in Job
    BY UnavailableType, Zenon DEF Req, Job
  <2>2. Egress!NoLock \in [started : Nat, until : Nat, unknown : BOOLEAN, inflight : BOOLEAN]
    BY DEF Egress!NoLock
  <2>3. req = [r \in Requests |-> idle]
    BY Zenon DEF Egress!Init
  <2> HIDE DEF idle
  <2>4. req \in [Requests -> Req]
    BY <2>1, <2>3
  <2>5. job \in [Requests -> Job]
    BY <2>1, Zenon DEF Egress!Init
  <2>6. clock = 0 /\ airplane = FALSE /\ life = 1 /\ address = 0 /\ lock = Egress!NoLock
    BY Zenon DEF Egress!Init
  <2>7. airplane \in BOOLEAN /\ lock \in [started : Nat, until : Nat, unknown : BOOLEAN, inflight : BOOLEAN]
    BY <2>2, <2>6, Zenon
  <2>8. clock \in Nat /\ life \in Nat \ {0} /\ address \in Nat
    BY <2>6
  <2> QED BY <2>4, <2>5, <2>7, <2>8, Zenon DEF Types
<1>2. ASSUME NEW r \in Requests PROVE Reserved(r) /\ Seen(r)
  BY DEF Egress!Init, Reserved, Seen, Egress!Running
<1> QED BY <1>1, <1>2 DEF EgressIInv

\* Every step keeps the types.
LEMMA NextTypes ==
  ASSUME Egress!PositiveTimes, Egress!Constants
  PROVE  Types /\ [Egress!Next]_(Egress!vars) => Types'
<1> SUFFICES ASSUME Types, [Egress!Next]_(Egress!vars) PROVE Types'
  OBVIOUS
<1> USE DEF Types
<1> DEFINE Lock == [started : Nat, until : Nat, unknown : BOOLEAN, inflight : BOOLEAN]
<1>1. \A r \in Requests, l \in {"idle", "ssh", "answered", "waiting", "done", "unknown"} : [req[r] EXCEPT !.pc = l] \in Req
  BY DEF Req
<1>2. Egress!NoLock \in Lock
  BY Zenon DEF Egress!NoLock
<1>3. Egress!Looks \subseteq Nat
  BY UnavailableType DEF Egress!Looks
<1>4. ASSUME NEW r \in Requests, NEW x \in Req PROVE [req EXCEPT ![r] = x] \in [Requests -> Req]
  OBVIOUS
<1>5. CASE UNCHANGED Egress!vars
  BY <1>5 DEF Egress!vars
<1>6. CASE Egress!Tick
  BY <1>6 DEF Egress!Tick
<1>7. CASE Egress!Restart
  <2>1. req' \in [Requests -> Req]
    BY <1>1, <1>7, Zenon DEF Egress!Restart
  <2> QED BY <1>2, <1>7, <2>1 DEF Egress!Restart
<1>8. ASSUME NEW r \in Requests, NEW d \in Downs, NEW w \in Waits, Egress!Begin(r, d, w) \/ Egress!DirectBegin(r, d, w)
      PROVE  Types'
  <2>1. d \in Nat /\ w \in Nat /\ Extra \in Nat
    BY DEF Egress!PositiveTimes, Egress!Constants
  <2>2. ASSUME NEW ip \in Nat PROVE Egress!Asked(r, d, w, ip) \in Req
    BY <2>1, Zenon DEF Egress!Asked, Req
  <2>3. req' \in [Requests -> Req]
    BY <1>3, <1>4, <1>8, <2>2 DEF Egress!Begin, Egress!DirectBegin
  <2>4. [started |-> clock, until |-> clock + d + Extra, unknown |-> FALSE, inflight |-> TRUE] \in Lock
    BY <2>1
  <2>5. lock' \in Lock
    BY <1>8, <2>4, Zenon DEF Egress!Begin, Egress!DirectBegin
  <2>6. UNCHANGED <<clock, job, airplane, address, life>>
    BY <1>8, Zenon DEF Egress!Begin, Egress!DirectBegin
  <2> QED BY <2>3, <2>5, <2>6
<1>9. ASSUME NEW r \in Requests,
             Egress!Refused(r) \/ Egress!Busy(r) \/ Egress!RefusedBeforeStart(r) \/ Egress!FailedAfterStart(r) \/ Egress!Triggered(r)
      PROVE  Types'
  <2>1. req' \in [Requests -> Req]
    BY <1>1, <1>9, Zenon DEF Egress!Refused, Egress!Busy, Egress!RefusedBeforeStart,
       Egress!FailedAfterStart, Egress!Triggered
  <2>2. lock' \in Lock
    BY <1>2, <1>9, Zenon DEF Egress!Refused, Egress!Busy, Egress!RefusedBeforeStart,
       Egress!FailedAfterStart, Egress!Triggered, Egress!ReleaseRotate, Egress!FinishRotate
  <2> QED BY <1>9, <2>1, <2>2, Zenon DEF Egress!Refused, Egress!Busy,
             Egress!RefusedBeforeStart, Egress!FailedAfterStart, Egress!Triggered
<1>10. ASSUME NEW r \in Requests, Egress!Answered(r) \/ Egress!NobodyLooks(r) \/ Egress!DirectEnds(r) PROVE Types'
  <2>1. req[r] \in Req /\ req[r].down \in Nat /\ req[r].wait \in Nat
    BY Zenon DEF Req
  <2>2. Egress!InitialDelay(r) \in Nat
    BY <2>1 DEF Egress!Constants, Egress!InitialDelay
  <2>3. clock + Egress!InitialDelay(r) \in Nat /\ clock + req[r].wait \in Nat
    BY <2>1, <2>2
  <2>4. Egress!Waiting(r) \in Req
    BY <2>1, <2>3, Zenon DEF Egress!Waiting, Req
  <2>5. req' \in [Requests -> Req]
    BY <1>1, <1>4, <1>10, <2>4, Zenon DEF Egress!Answered, Egress!NobodyLooks, Egress!DirectEnds
  <2> QED BY <1>10, <2>5 DEF Egress!Answered, Egress!NobodyLooks, Egress!DirectEnds
<1>11. ASSUME NEW r \in Requests, Egress!Look(r) PROVE Types'
  <2>1. ASSUME NEW ip \in Nat PROVE [req[r] EXCEPT !.pc = "done", !.after = ip] \in Req
    BY Zenon DEF Req
  <2>2. clock + Interval \in Nat
    BY DEF Egress!Constants
  <2>3. [req[r] EXCEPT !.next = clock + Interval] \in Req
    BY <2>2 DEF Req
  <2>4. PICK ip \in Egress!Looks, last \in Egress!Looks :
          req' = [req EXCEPT ![r] =
            IF ip # Egress!Unavailable THEN [@ EXCEPT !.pc = "done", !.after = ip]
            ELSE IF clock + Interval > req[r].deadline THEN [@ EXCEPT !.pc = "done", !.after = last]
            ELSE [@ EXCEPT !.next = clock + Interval]]
    BY <1>11, Zenon DEF Egress!Look
  <2>5. ip \in Nat /\ last \in Nat
    BY <1>3
  <2>6. req' \in [Requests -> Req]
    BY <2>1, <2>3, <2>4, <2>5, Zenon
  <2>7. UNCHANGED <<clock, lock, job, airplane, address, life>>
    BY <1>11, Zenon DEF Egress!Look
  <2> QED BY <2>6, <2>7
<1>12. ASSUME NEW r \in Requests, Egress!Send(r) \/ Egress!Dispatch(r) \/ Egress!Lost(r) PROVE Types'
  <2>1. \E l \in {"none", "sent", "queued"} : job' = [job EXCEPT ![r].state = l]
    BY <1>12, Zenon DEF Egress!Send, Egress!Dispatch, Egress!Lost
  <2>2. job' \in [Requests -> Job]
    BY <2>1 DEF Job
  <2>3. UNCHANGED <<clock, lock, req, airplane, address, life>>
    BY <1>12, Zenon DEF Egress!Send, Egress!Dispatch, Egress!Lost
  <2> QED BY <2>2, <2>3
<1>13. ASSUME NEW r \in Requests, Egress!RadioOff(r) \/ Egress!RadioOn(r) PROVE Types'
  <2>1. req[r].down \in Nat
    BY DEF Req
  <2>2. job' \in [Requests -> Job]
    BY <1>13, <2>1 DEF Egress!RadioOff, Egress!RadioOn, Job
  <2>3. airplane' \in BOOLEAN /\ UNCHANGED <<clock, lock, req, life>>
    BY <1>13, Zenon DEF Egress!RadioOff, Egress!RadioOn
  <2>4. address' = address \/ address' = address + 1
    BY <1>13, Zenon DEF Egress!RadioOff, Egress!RadioOn
  <2> QED BY <2>2, <2>3, <2>4
<1> QED BY <1>5, <1>6, <1>7, <1>8, <1>9, <1>10, <1>11, <1>12, <1>13, Zenon DEF Egress!Next

\* A rotation that can still act under a free lock was acknowledged and is overdue.
LEMMA RunningIsOverdue ==
  ASSUME Egress!Constants, EgressIInv, NEW r \in Requests, Egress!Running(r), ~Egress!Held
  PROVE  /\ req[r].pc \in {"answered", "waiting", "done"} /\ job[r].state # "sent"
         /\ clock >= req[r].begun + req[r].down + Extra
<1>1. Types /\ Reserved(r)
  BY Zenon DEF EgressIInv
<1>2. lock # Egress!NoLock => ~lock.unknown /\ ~lock.inflight /\ ~(clock < lock.until)
  BY Zenon DEF Egress!Held
<1>3. Egress!NoLock.until = 0 /\ ~Egress!NoLock.unknown /\ ~Egress!NoLock.inflight
  BY DEF Egress!NoLock
<1>4. ~lock.unknown /\ ~lock.inflight
  BY <1>2, <1>3, Zenon
<1>5. req[r].life = life /\ life > 0 /\ req[r] \in Req
  BY <1>1 DEF Types, Egress!Running
<1>6. req[r].pc \in {"answered", "waiting", "done"}
  BY <1>1, <1>4, <1>5 DEF Reserved, Req
<1>7. req[r].down > 0 /\ job[r].state # "sent"
  BY <1>1, <1>5, <1>6 DEF Reserved
<1>8. /\ req[r].begun \in Nat /\ req[r].down \in Nat /\ Extra \in Nat
      /\ lock.until \in Nat /\ clock \in Nat
  BY <1>1, <1>5 DEF Req, Types, Egress!Constants
<1>9. clock >= req[r].begun + req[r].down + Extra \/ lock.until = req[r].begun + req[r].down + Extra
  BY <1>1, <1>6 DEF Reserved
<1>10. lock.until > 0 => clock >= lock.until
  BY <1>2, <1>3, <1>8
<1> QED BY <1>6, <1>7, <1>8, <1>9, <1>10

\* A request that starts to wait keeps its reservation and what it has seen.
LEMMA WaitingKeeps ==
  ASSUME Types, NEW r \in Requests
  PROVE  /\ Egress!Waiting(r).pc = "waiting" /\ Egress!Waiting(r).life = req[r].life /\ Egress!Waiting(r).begun = req[r].begun
         /\ Egress!Waiting(r).down = req[r].down /\ Egress!Waiting(r).wait = req[r].wait /\ Egress!Waiting(r).next = clock + Egress!InitialDelay(r)
         /\ Egress!Waiting(r).before = req[r].before /\ Egress!Waiting(r).after = req[r].after
BY DEF Types, Req, Egress!Waiting

\* Every step keeps the lock of the requests that can still act.
LEMMA NextReserved ==
  ASSUME Egress!PositiveTimes, Egress!Constants, EgressIInv, [Egress!Next]_(Egress!vars), NEW q \in Requests
  PROVE  Reserved(q)'
<1>1. Types /\ \A r \in Requests : Reserved(r)
  BY DEF EgressIInv
<1>2. \A r \in Requests : req[r].pc = "idle" => job[r].state = "none"
  BY Zenon DEF EgressIInv, Seen
<1>3. \A r \in Requests : Egress!Running(r) /\ ~Egress!Held =>
        /\ req[r].pc \in {"answered", "waiting", "done"} /\ job[r].state # "sent"
        /\ clock >= req[r].begun + req[r].down + Extra
  BY RunningIsOverdue
<1> USE <1>1 DEF Egress!Constants, Types, Req, Job, Reserved, Egress!Running, Egress!Mine
<1>4. CASE UNCHANGED Egress!vars
  BY <1>4, Zenon DEF Egress!vars
<1>5. CASE Egress!Tick
  BY <1>5 DEF Egress!Tick
<1>6. CASE Egress!Restart
  BY <1>6 DEF Egress!Restart
<1>7. ASSUME NEW r \in Requests, NEW d \in Downs, NEW w \in Waits, Egress!Begin(r, d, w) PROVE Reserved(q)'
  BY <1>2, <1>3, <1>7 DEF Egress!PositiveTimes, Egress!Begin, Egress!Asked, Egress!Held,
     Egress!NoLock
<1>8. ASSUME NEW r \in Requests, NEW d \in Downs, NEW w \in Waits, Egress!DirectBegin(r, d, w) PROVE Reserved(q)'
  BY <1>8 DEF Egress!DirectBegin, Egress!Asked
<1>9. ASSUME NEW r \in Requests, Egress!Refused(r) \/ Egress!Busy(r) PROVE Reserved(q)'
  <2>1. /\ req' = [req EXCEPT ![r].pc = "done"] /\ UNCHANGED <<clock, lock, job, life>>
        /\ req[r].pc = "idle" /\ r \notin Direct
    BY <1>9, Zenon DEF Egress!Refused, Egress!Busy
  <2> QED BY <1>2, <2>1
<1>10. ASSUME NEW r \in Requests, Egress!RefusedBeforeStart(r) PROVE Reserved(q)'
  BY <1>10 DEF Egress!RefusedBeforeStart, Egress!ReleaseRotate, Egress!NoLock
<1>11. ASSUME NEW r \in Requests, Egress!FailedAfterStart(r) PROVE Reserved(q)'
  BY <1>11 DEF Egress!FailedAfterStart, Egress!FinishRotate, Egress!NoLock
<1>12. ASSUME NEW r \in Requests, Egress!Triggered(r) PROVE Reserved(q)'
  BY <1>12 DEF Egress!Triggered, Egress!FinishRotate, Egress!NoLock
<1>13. ASSUME NEW r \in Requests, Egress!Answered(r) PROVE Reserved(q)'
  BY <1>13, WaitingKeeps DEF Egress!Answered
<1>14. ASSUME NEW r \in Requests, Egress!NobodyLooks(r) PROVE Reserved(q)'
  BY <1>14 DEF Egress!NobodyLooks
<1>15. ASSUME NEW r \in Requests, Egress!DirectEnds(r) PROVE Reserved(q)'
  <2>1. UNCHANGED <<clock, lock, job, life>> /\ r \in Direct
    BY <1>15, Zenon DEF Egress!DirectEnds
  <2>2. CASE req' = [req EXCEPT ![r].pc = "done"]
    BY <2>1, <2>2
  <2>3. CASE req' = [req EXCEPT ![r] = Egress!Waiting(r)]
    BY <2>1, <2>3, WaitingKeeps
  <2> QED BY <1>15, <2>2, <2>3, Zenon DEF Egress!DirectEnds
<1>16. ASSUME NEW r \in Requests, Egress!Look(r) PROVE Reserved(q)'
  BY <1>16 DEF Egress!Look
<1>17. ASSUME NEW r \in Requests, Egress!Send(r) PROVE Reserved(q)'
  BY <1>17 DEF Egress!Send
<1>18. ASSUME NEW r \in Requests, Egress!Dispatch(r) PROVE Reserved(q)'
  BY <1>18 DEF Egress!Dispatch
<1>19. ASSUME NEW r \in Requests, Egress!Lost(r) PROVE Reserved(q)'
  BY <1>19, Zenon DEF Egress!Lost
<1>20. ASSUME NEW r \in Requests, Egress!RadioOff(r) PROVE Reserved(q)'
  BY <1>20 DEF Egress!RadioOff
<1>21. ASSUME NEW r \in Requests, Egress!RadioOn(r) PROVE Reserved(q)'
  BY <1>21 DEF Egress!RadioOn
<1> QED
  BY <1>4, <1>5, <1>6, <1>7, <1>8, <1>9, <1>10, <1>11, <1>12, <1>13, <1>14, <1>15, <1>16,
     <1>17, <1>18, <1>19, <1>20, <1>21, Zenon DEF Egress!Next

\* Every step keeps what the requests have seen of the addresses true.
LEMMA NextSeen ==
  ASSUME Egress!PositiveTimes, Egress!Constants, EgressIInv, [Egress!Next]_(Egress!vars), NEW q \in Requests
  PROVE  Seen(q)'
<1>1. Types /\ \A r \in Requests : Seen(r)
  BY DEF EgressIInv
<1> USE <1>1 DEF Types, Req, Job, Seen
<1>2. CASE UNCHANGED Egress!vars
  BY <1>2, Zenon DEF Egress!vars
<1>3. CASE Egress!Tick
  BY <1>3, Zenon DEF Egress!Tick
<1>4. CASE Egress!Restart
  BY <1>4 DEF Egress!Restart
<1>5. ASSUME NEW r \in Requests, NEW d \in Downs, NEW w \in Waits, Egress!Begin(r, d, w) \/ Egress!DirectBegin(r, d, w)
      PROVE  Seen(q)'
  <2>1. UNCHANGED <<clock, job, airplane, address>> /\ req[r].pc = "idle"
    BY <1>5, Zenon DEF Egress!Begin, Egress!DirectBegin
  <2>2. PICK ip \in Egress!Looks : req' = [req EXCEPT ![r] = Egress!Asked(r, d, w, ip)]
    BY <1>5, Zenon DEF Egress!Begin, Egress!DirectBegin
  <2>3. /\ Egress!Asked(r, d, w, ip).pc = "ssh" /\ Egress!Asked(r, d, w, ip).before = ip
    BY DEF Egress!PositiveTimes, Egress!Asked
  <2>4. ip = Egress!Unavailable \/ ip = address
    BY Zenon DEF Egress!Looks
  <2> QED BY <2>1, <2>2, <2>3, <2>4
<1>6. ASSUME NEW r \in Requests,
             Egress!Refused(r) \/ Egress!Busy(r) \/ Egress!RefusedBeforeStart(r) \/ Egress!FailedAfterStart(r) \/ Egress!Triggered(r) \/ Egress!NobodyLooks(r)
      PROVE  Seen(q)'
  <2>1. UNCHANGED <<clock, job, airplane, address>>
    BY <1>6, Zenon DEF Egress!Refused, Egress!Busy, Egress!RefusedBeforeStart,
       Egress!FailedAfterStart, Egress!Triggered, Egress!NobodyLooks
  <2>2. \/ \E l \in {"done", "unknown"} : req' = [req EXCEPT ![r].pc = l]
        \/ req' = [req EXCEPT ![r].pc = "answered"] /\ req[r].pc = "ssh" /\ job[r].state \notin {"none", "sent"}
    BY <1>6, Zenon DEF Egress!Refused, Egress!Busy, Egress!RefusedBeforeStart,
       Egress!FailedAfterStart, Egress!Triggered, Egress!NobodyLooks
  <2>3. CASE \E l \in {"done", "unknown"} : req' = [req EXCEPT ![r].pc = l]
    BY <2>1, <2>3
  <2>4. CASE req' = [req EXCEPT ![r].pc = "answered"] /\ req[r].pc = "ssh" /\ job[r].state \notin {"none", "sent"}
    BY <2>1, <2>4
  <2> QED BY <2>2, <2>3, <2>4, Zenon
<1>7. ASSUME NEW r \in Requests, Egress!Answered(r) \/ Egress!DirectEnds(r) PROVE Seen(q)'
  <2>1. UNCHANGED <<clock, job, airplane, address>> /\ req[r].pc \in {"answered", "ssh"}
    BY <1>7, Zenon DEF Egress!Answered, Egress!DirectEnds
  <2>2. CASE req' = [req EXCEPT ![r].pc = "done"]
    BY <2>1, <2>2
  <2>3. CASE req' = [req EXCEPT ![r] = Egress!Waiting(r)] /\ job[r].state \notin {"none", "sent"}
    BY <2>1, <2>3, WaitingKeeps
  <2> QED BY <1>7, <2>2, <2>3, Zenon DEF Egress!Answered, Egress!DirectEnds
<1>8. ASSUME NEW r \in Requests, Egress!Look(r) PROVE Seen(q)'
  BY <1>8 DEF Egress!Look, Egress!Looks
<1>9. ASSUME NEW r \in Requests, Egress!Send(r) \/ Egress!Dispatch(r) \/ Egress!Lost(r) PROVE Seen(q)'
  <2>1. UNCHANGED <<clock, req, airplane, address>> /\ job[r].state \in {"none", "sent"}
    BY <1>9, Zenon DEF Egress!Send, Egress!Dispatch, Egress!Lost
  <2>2. /\ \A x \in Requests : x # r => job'[x] = job[x]
        /\ job'[r].took = job[r].took /\ (job'[r].state \in {"none", "sent"} \/ job[r].state = "sent")
        /\ job'[r].state # "none" => req[r].pc # "idle"
    BY <1>9 DEF Egress!Send, Egress!Dispatch, Egress!Lost
  <2> QED BY <2>1, <2>2
<1>10. ASSUME NEW r \in Requests, Egress!RadioOff(r) PROVE Seen(q)'
  BY <1>10 DEF Egress!RadioOff
<1>11. ASSUME NEW r \in Requests, Egress!RadioOn(r) PROVE Seen(q)'
  BY <1>11 DEF Egress!RadioOn
<1> QED BY <1>2, <1>3, <1>4, <1>5, <1>6, <1>7, <1>8, <1>9, <1>10, <1>11, Zenon DEF Egress!Next

\* The invariant holds in every reachable state.
LEMMA EgressAlwaysIInv ==
  ASSUME Egress!PositiveTimes, Egress!Constants
  PROVE  Egress!Spec => []EgressIInv
<1>1. EgressIInv /\ [Egress!Next]_(Egress!vars) => EgressIInv'
  BY NextTypes, NextReserved, NextSeen DEF EgressIInv
<1> QED BY <1>1, EgressInitIInv, PTL DEF Egress!Spec

-----------------------------------------------------------------------------
(* The theorems *)

\* tryBeginRotate grants the egress only while every rotation of the running Hub that can
\* still act on the phone was acknowledged by the phone and has outlived its down time and
\* the margin of the lock, for every margin the environment may set, zero included.
THEOREM FreeIsOverdue ==
  ASSUME Egress!PositiveTimes, Egress!Constants
  PROVE  Egress!Spec => []Egress!FreeMeansOverdue
<1>1. EgressIInv => Egress!FreeMeansOverdue
  BY RunningIsOverdue DEF Egress!FreeMeansOverdue
<1> QED BY <1>1, EgressAlwaysIInv, PTL

\* Only a look of its own records the address a request prints as the one after.
LEMMA OnlyALookRecords ==
  ASSUME Egress!PositiveTimes, Types, [Egress!Next]_(Egress!vars), NEW q \in Requests, req'[q].after # req[q].after
  PROVE  Egress!Look(q)
<1> USE DEF Types, Req
<1>1. CASE UNCHANGED req
  BY <1>1
<1>2. ASSUME NEW r \in Requests, \E l \in {"done", "unknown", "answered"} : req' = [req EXCEPT ![r].pc = l] PROVE FALSE
  BY <1>2
<1>3. CASE Egress!Restart
  BY <1>3 DEF Egress!Restart
<1>4. ASSUME NEW r \in Requests, NEW d \in Downs, NEW w \in Waits, Egress!Begin(r, d, w) \/ Egress!DirectBegin(r, d, w)
      PROVE  FALSE
  <2>1. PICK ip \in Egress!Looks : req' = [req EXCEPT ![r] = Egress!Asked(r, d, w, ip)]
    BY <1>4, Zenon DEF Egress!Begin, Egress!DirectBegin
  <2>2. Egress!Asked(r, d, w, ip).after = req[r].after
    BY DEF Egress!Asked
  <2> QED BY <2>1, <2>2
<1>5. ASSUME NEW r \in Requests, req' = [req EXCEPT ![r] = Egress!Waiting(r)] PROVE FALSE
  BY <1>5, WaitingKeeps
<1>6. ASSUME NEW r \in Requests, Egress!Look(r) PROVE Egress!Look(q)
  <2>1. r # q => req'[q] = req[q]
    BY <1>6 DEF Egress!Look
  <2> QED BY <1>6, <2>1, Zenon
<1>7. ASSUME NEW r \in Requests,
             \/ Egress!Refused(r) \/ Egress!Busy(r) \/ Egress!RefusedBeforeStart(r) \/ Egress!FailedAfterStart(r)
             \/ Egress!Triggered(r) \/ Egress!NobodyLooks(r)
      PROVE  FALSE
  <2>1. \E l \in {"done", "unknown", "answered"} : req' = [req EXCEPT ![r].pc = l]
    BY <1>7, Zenon DEF Egress!Refused, Egress!Busy, Egress!RefusedBeforeStart,
       Egress!FailedAfterStart, Egress!Triggered, Egress!NobodyLooks
  <2> QED BY <1>2, <2>1
<1>8. ASSUME NEW r \in Requests, Egress!Answered(r) \/ Egress!DirectEnds(r) PROVE FALSE
  <2>1. \/ \E l \in {"done", "unknown", "answered"} : req' = [req EXCEPT ![r].pc = l]
        \/ req' = [req EXCEPT ![r] = Egress!Waiting(r)]
    BY <1>8, Zenon DEF Egress!Answered, Egress!DirectEnds
  <2> QED BY <1>2, <1>5, <2>1
<1>9. ASSUME NEW r \in Requests,
             Egress!Send(r) \/ Egress!Dispatch(r) \/ Egress!Lost(r) \/ Egress!RadioOff(r) \/ Egress!RadioOn(r)
      PROVE  UNCHANGED req
  BY <1>9, Zenon DEF Egress!Send, Egress!Dispatch, Egress!Lost, Egress!RadioOff, Egress!RadioOn
<1>10. CASE Egress!Tick \/ UNCHANGED Egress!vars
  BY <1>1, <1>10, Zenon DEF Egress!Tick, Egress!vars
<1> QED BY <1>1, <1>3, <1>4, <1>6, <1>7, <1>8, <1>9, <1>10, Zenon DEF Egress!Next

\* A look that comes after the radio obeyed sees an address given after the one seen
\* before the rotation, however late the script ran and whatever else rotates.
THEOREM AddressesInOrder ==
  ASSUME Egress!PositiveTimes, Egress!Constants
  PROVE  Egress!Spec => Egress!AfterIsAfter
<1>1. ASSUME EgressIInv, [Egress!Next]_(Egress!vars), NEW r \in Requests,
             req'[r].after # req[r].after, req'[r].after # Egress!Unavailable,
             job[r].took, req[r].before # Egress!Unavailable
      PROVE  req'[r].after > req[r].before
  <2>1. Types /\ Seen(r) /\ Egress!Look(r)
    BY <1>1, OnlyALookRecords, Zenon DEF EgressIInv
  <2>2. PICK ip \in Egress!Looks, last \in Egress!Looks :
          req' = [req EXCEPT ![r] =
            IF ip # Egress!Unavailable THEN [@ EXCEPT !.pc = "done", !.after = ip]
            ELSE IF clock + Interval > req[r].deadline THEN [@ EXCEPT !.pc = "done", !.after = last]
            ELSE [@ EXCEPT !.next = clock + Interval]]
    BY <2>1, Zenon DEF Egress!Look
  <2>3. req'[r].after \in {ip, last}
    BY <1>1, <2>1, <2>2 DEF Types, Req
  <2>4. ~airplane /\ req'[r].after = address
    BY <1>1, <2>3, Zenon DEF Egress!Looks
  <2>5. req[r].before < address
    BY <1>1, <2>1, <2>4, Zenon DEF Seen
  <2>6. req[r].before \in Nat /\ address \in Nat
    BY <2>1 DEF Types, Req
  <2> QED BY <2>4, <2>5, <2>6
<1> DEFINE InOrder == \A r \in Requests :
             /\ req'[r].after # req[r].after /\ req'[r].after # Egress!Unavailable
             /\ job[r].took /\ req[r].before # Egress!Unavailable
             => req'[r].after > req[r].before
<1>2. EgressIInv /\ [Egress!Next]_(Egress!vars) => [InOrder]_(Egress!vars)
  BY <1>1
<1> QED BY <1>2, EgressAlwaysIInv, PTL DEF Egress!Spec, Egress!AfterIsAfter
=============================================================================
