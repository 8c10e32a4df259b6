------------------------- MODULE SecureTransportProofs ------------------------
(***************************************************************************)
(* Proofs about two parts of the egress server: SecureTransport, which     *)
(* admits authenticated sessions, and ProxySlots, the limits on its        *)
(* tunnels.                                                                *)
(***************************************************************************)
EXTENDS SecureTransport, FiniteSetTheorems, TLAPS

-----------------------------------------------------------------------------
(***************************************************************************)
(* Proofs about SecureTransport, for any connections, registries and       *)
(* limits: who has an open session, how many an egress has, and that the   *)
(* watermark rules out a rollback.                                         *)
(***************************************************************************)

Types ==
    /\ registry \in Registries /\ durable \cup {mark, snapshot, lastReg} \subseteq Registries \cup {None}
    /\ granted \subseteq Registries /\ st \in [Conn -> State]

\* The server's set of sessions has every open one; without a server there is none.
Sessions ==
    /\ active \subseteq Session /\ gone \subseteq Session /\ Session \ gone \subseteq active
    /\ ~up => snapshot = None /\ Session = {}

\* Every session of the set is authorized by the policy the server holds.
Authorized == \A c \in active : snapshot # None /\ CredOf[c] \in Active(snapshot)

\* The registries published and the watermarks the disk may hold: one for each
\* generation, and none above the watermark.
Known == granted \cup durable

Watermark ==
    /\ mark \in durable /\ (snapshot # None => snapshot = mark)
    /\ \A r \in granted : r.gen > 0
    /\ \A r \in Known : r.gen <= mark.gen
    /\ \A r, s \in Known : r.gen = s.gen => r = s

\* The inductive invariant of the sessions.
IInv == Types /\ Sessions /\ Authorized /\ SessionsBounded
\* The inductive invariant of the watermark.
WInv == Types /\ (~up => snapshot = None) /\ Watermark
-----------------------------------------------------------------------------
(* The sessions.                                                           *)

\* The sessions of the set are connections, finitely many.
LEMMA ActiveFinite ==
    ASSUME Types, Sessions
    PROVE  active \subseteq Conn /\ IsFiniteSet(active) /\ \A e : IsFiniteSet(OpenOf(e))
<1>1. active \subseteq Conn
  BY DEF Sessions, Session
<1>2. IsFiniteSet(active)
  BY <1>1, TransportAssumption, FS_Subset
<1>3. \A e : OpenOf(e) \subseteq active
  BY DEF OpenOf
<1>4. QED BY <1>1, <1>2, <1>3, FS_Subset

\* Closing sessions keeps the number per egress bounded.
LEMMA FewerStayBounded ==
    ASSUME Types, Sessions, SessionsBounded, active' \ gone' \subseteq active \ gone
    PROVE  SessionsBounded'
<1> SUFFICES ASSUME NEW c \in Conn
             PROVE  Cardinality(OpenOf(EgressOf[CredOf[c]])') <= MaxPerEgress
  BY Zenon DEF SessionsBounded
<1> DEFINE S == OpenOf(EgressOf[CredOf[c]])
<1>1. S' \subseteq S
  BY Zenon DEF OpenOf
<1>2. IsFiniteSet(S) /\ IsFiniteSet(S')
  BY <1>1, ActiveFinite, FS_Subset, Zenon
<1>3. Cardinality(S') <= Cardinality(S) /\ Cardinality(S) \in Nat /\ Cardinality(S') \in Nat
  BY <1>1, <1>2, FS_Subset, FS_CardinalityType, Zenon
<1>4. Cardinality(S) <= MaxPerEgress
  BY DEF SessionsBounded
<1> HIDE DEF S
<1>5. Cardinality(S') <= MaxPerEgress
  BY <1>3, <1>4, TransportAssumption
<1>6. QED BY <1>5 DEF S

\* One session more, of an egress that is below the limit.
LEMMA OneMoreBounded ==
    ASSUME Types, Sessions, SessionsBounded, NEW d \in Conn, WithinLimits(d),
           active' = active \cup {d}, gone' = gone
    PROVE  SessionsBounded'
<1> SUFFICES ASSUME NEW c \in Conn
             PROVE  Cardinality(OpenOf(EgressOf[CredOf[c]])') <= MaxPerEgress
  BY Zenon DEF SessionsBounded
<1> DEFINE S == OpenOf(EgressOf[CredOf[c]])
<1>1. IsFiniteSet(S) /\ Cardinality(S) \in Nat
  BY ActiveFinite, FS_CardinalityType, Zenon
<1>2. IsFiniteSet(S \cup {d}) /\ Cardinality(S \cup {d}) = (IF d \in S THEN Cardinality(S) ELSE Cardinality(S) + 1)
  BY <1>1, FS_AddElement, Zenon
<1>3. CASE EgressOf[CredOf[c]] = EgressOf[CredOf[d]]
  <2>1. S' \subseteq S \cup {d}
    BY Zenon DEF OpenOf
  <2>2. Cardinality(S') <= Cardinality(S \cup {d}) /\ Cardinality(S') \in Nat
    BY <1>2, <2>1, FS_Subset, FS_CardinalityType, Zenon
  <2>3. Cardinality(S) < MaxPerEgress
    BY <1>3, Zenon DEF WithinLimits
  <2> HIDE DEF S
  <2>4. Cardinality(S') <= MaxPerEgress
    BY <1>1, <1>2, <2>2, <2>3, TransportAssumption
  <2>5. QED BY <2>4 DEF S
<1>4. CASE EgressOf[CredOf[c]] # EgressOf[CredOf[d]]
  <2>1. S' = S
    BY <1>4, Zenon DEF OpenOf
  <2>2. QED BY <2>1, Zenon DEF SessionsBounded
<1>5. QED BY <1>3, <1>4, Zenon

\* A refresh publishes the registry and keeps what it authorizes, or neither.
LEMMA Refreshed ==
    ASSUME Types, Refresh
    PROVE  \E ok \in BOOLEAN :
              /\ Closes(ok) /\ snapshot' = (IF ok THEN registry ELSE None)
              /\ mark' \in Registries \cup {None} /\ durable' \subseteq Registries \cup {None}
              /\ lastReg' \in Registries \cup {None} /\ granted' \subseteq Registries
              /\ ok => registry # None
<1>1. Acceptable => registry # None
  BY DEF Acceptable, LoadRegistry, ValidateSecureRegistry, None
<1>2. CASE Acceptable /\ Commits(TRUE) /\ Publish(TRUE) /\ Closes(TRUE)
  <2>1. /\ snapshot' = registry /\ durable' \cup {mark', lastReg'} \subseteq Registries \cup {None}
        /\ granted' \subseteq Registries
    BY <1>2 DEF Commits, Publish, Types
  <2>2. QED BY <1>1, <1>2, <2>1, Zenon
<1>3. CASE Publish(FALSE) /\ Closes(FALSE) /\ (UNCHANGED <<mark, durable>> \/ Commits(FALSE))
  <2>1. /\ snapshot' = None /\ durable' \cup {mark', lastReg'} \subseteq Registries \cup {None}
        /\ granted' \subseteq Registries
    BY <1>3 DEF Commits, Publish, Types
  <2> WITNESS FALSE \in BOOLEAN
  <2>2. QED BY <1>3, <2>1, Zenon
<1>4. QED BY <1>2, <1>3, Zenon DEF Refresh, CommitFails

LEMMA InitIInv == Init => IInv
<1> SUFFICES ASSUME Init PROVE IInv OBVIOUS
<1>1. Types /\ Sessions /\ Authorized
  BY Zenon DEF Init, Types, Sessions, Session, Authorized, State
<1>2. SessionsBounded
  <2>1. \A e : OpenOf(e) = {}
    BY DEF Init, OpenOf
  <2>2. Cardinality({}) = 0
    BY FS_EmptySet
  <2>3. QED BY <2>1, <2>2, TransportAssumption DEF SessionsBounded
<1>3. QED BY <1>1, <1>2 DEF IInv

\* The steps that touch no session and no policy.
LEMMA ApartKeeps ==
    ASSUME IInv, UNCHANGED <<st, active, gone, up, snapshot>>, Types'
    PROVE  IInv'
<1>1. Sessions' /\ Authorized'
  BY Zenon DEF IInv, Sessions, Session, Authorized
<1>2. SessionsBounded'
  BY FewerStayBounded DEF IInv
<1>3. QED BY <1>1, <1>2 DEF IInv

\* A refresh, with no session begun or ended by it.
LEMMA RefreshKeeps ==
    ASSUME IInv, Refresh, up, up' = up, registry' = registry, st' \in [Conn -> State],
           \A c \in Conn : (st'[c] \in {"added", "live"}) = (st[c] \in {"added", "live"})
    PROVE  IInv'
<1>1. PICK ok \in BOOLEAN :
              /\ Closes(ok) /\ snapshot' = (IF ok THEN registry ELSE None)
              /\ mark' \in Registries \cup {None} /\ durable' \subseteq Registries \cup {None}
              /\ lastReg' \in Registries \cup {None} /\ granted' \subseteq Registries
              /\ ok => registry # None
  BY Refreshed, Zenon DEF IInv
<1>2. Types'
  BY <1>1 DEF IInv, Types
<1>3. Session' = Session
  BY DEF Session
<1>4. Sessions'
  BY <1>1, <1>3, Zenon DEF IInv, Sessions, Closes, Kept
<1>5. Authorized'
  BY <1>1, Zenon DEF Authorized, Closes, Kept, AuthorizeSecureEgress
<1>6. SessionsBounded'
  BY <1>1, FewerStayBounded, Zenon DEF IInv, Closes, Kept
<1>7. QED BY <1>2, <1>4, <1>5, <1>6 DEF IInv

\* The server stops: no session and no policy is left.
LEMMA StoppedKeeps ==
    ASSUME IInv, Stopped, Types'
    PROVE  IInv'
<1>1. Sessions' /\ Authorized'
  BY DEF Stopped, Sessions, Session, Authorized
<1>2. SessionsBounded'
  BY FewerStayBounded DEF Stopped, IInv
<1>3. QED BY <1>1, <1>2 DEF IInv

\* Before and after its session, a handler's steps change no session.
LEMMA HandshakeKeeps ==
    ASSUME IInv, NEW c \in Conn, NEW t \in State, Goto(c, t),
           st[c] \notin {"added", "live"}, t \notin {"added", "live"}, UNCHANGED <<disk, policy>>
    PROVE  IInv'
<1>1. Types'
  BY Zenon DEF IInv, Types, Goto, disk, policy
<1>2. Session' = Session
  BY DEF Goto, Session
<1>3. Sessions' /\ Authorized'
  BY <1>2, Zenon DEF IInv, Sessions, Authorized, Goto, policy
<1>4. SessionsBounded'
  BY FewerStayBounded DEF IInv, Goto
<1>5. QED BY <1>1, <1>3, <1>4 DEF IInv

\* The second check, with the policy of that moment, admits a session.
LEMMA AdmitKeeps ==
    ASSUME IInv, NEW c \in Conn, Admit(c)
    PROVE  IInv'
<1>1. Types'
  BY Zenon DEF IInv, Types, Admit, disk, policy, State
<1>2. CASE AuthorizeSecureEgress(snapshot, c) /\ WithinLimits(c)
  <2>1. st' = [st EXCEPT ![c] = "added"] /\ active' = active \cup {c} /\ gone' = gone
    BY <1>2 DEF Admit
  <2>2. Session' = Session \cup {c}
    BY <2>1 DEF IInv, Types, Session
  <2>3. up
    BY <1>2, Zenon DEF AuthorizeSecureEgress, IInv, Sessions
  <2>4. Sessions'
    BY <2>1, <2>2, <2>3, Zenon DEF IInv, Sessions, Admit, policy
  <2>5. Authorized'
    BY Zenon DEF IInv, Authorized, Admit, policy, AuthorizeSecureEgress
  <2>6. SessionsBounded'
    BY <1>2, <2>1, OneMoreBounded DEF IInv
  <2>7. QED BY <1>1, <2>4, <2>5, <2>6 DEF IInv
<1>3. CASE ~(AuthorizeSecureEgress(snapshot, c) /\ WithinLimits(c))
  BY <1>3, HandshakeKeeps, Zenon DEF Admit, Goto, State
<1>4. QED BY <1>2, <1>3

\* A session enters the pool, is closed by its peer, or is cleaned up.
LEMMA SessionKeeps ==
    ASSUME IInv, NEW c \in Conn, SetPool(c) \/ PeerCloses(c) \/ HandlerEnds(c)
    PROVE  IInv'
<1>1. Types'
  BY Zenon DEF IInv, Types, SetPool, PeerCloses, HandlerEnds, disk, policy, State
<1>2. CASE SetPool(c) \/ PeerCloses(c)
  <2>1. Session' = Session
    BY <1>2, Zenon DEF IInv, Types, SetPool, PeerCloses, Session
  <2>2. Sessions' /\ Authorized'
    BY <1>2, <2>1, Zenon DEF IInv, Sessions, Authorized, SetPool, PeerCloses, policy
  <2>3. SessionsBounded'
    BY <1>2, FewerStayBounded, Zenon DEF IInv, SetPool, PeerCloses
  <2>4. QED BY <1>1, <2>2, <2>3 DEF IInv
<1>3. CASE HandlerEnds(c)
  <2>1. Session' = Session \ {c}
    BY <1>3, Zenon DEF IInv, Types, HandlerEnds, Session
  <2>2. Sessions' /\ Authorized'
    BY <1>3, <2>1, Zenon DEF IInv, Sessions, Authorized, HandlerEnds, policy
  <2>3. SessionsBounded'
    BY <1>3, FewerStayBounded, Zenon DEF IInv, HandlerEnds
  <2>4. QED BY <1>1, <2>2, <2>3 DEF IInv
<1>4. QED BY <1>2, <1>3

\* The steps before a session.
LEMMA BeforeKeeps ==
    ASSUME IInv, NEW c \in Conn,
           GetConfig(c) \/ VerifyConnection(c) \/ FirstCheck(c) \/ Fails(c)
    PROVE  IInv'
<1>1. CASE GetConfig(c)
  BY <1>1, HandshakeKeeps, Zenon DEF GetConfig, State
<1>2. CASE VerifyConnection(c)
  BY <1>2, HandshakeKeeps, Zenon DEF VerifyConnection, State
<1>3. CASE FirstCheck(c)
  BY <1>3, HandshakeKeeps, Zenon DEF FirstCheck, State
<1>4. CASE Fails(c)
  BY <1>4, HandshakeKeeps, Zenon DEF Fails, State
<1>5. QED BY <1>1, <1>2, <1>3, <1>4

LEMMA NextIInv == IInv /\ [Next]_vars => IInv'
<1> SUFFICES ASSUME IInv, [Next]_vars PROVE IInv' OBVIOUS
<1> USE DEF disk, policy, conns
<1>1. ASSUME NEW r \in Registries, Install(r) PROVE IInv'
  BY <1>1, ApartKeeps, Zenon DEF Install, IInv, Types
<1>2. ASSUME NEW f \in File, FileChanges(f) PROVE IInv'
  BY <1>2, ApartKeeps, Zenon DEF FileChanges, IInv, Types
<1>3. CASE Tick
  BY <1>3, ApartKeeps, Zenon DEF Tick, IInv, Types
<1>4. CASE InitializeSecureRegistry
  <2>1. Types'
    BY <1>4 DEF InitializeSecureRegistry, Commits, IInv, Types
  <2>2. QED BY <1>4, <2>1, ApartKeeps, Zenon DEF InitializeSecureRegistry
<1>5. CASE StartServer
  <2>1. Types'
    BY <1>5 DEF StartServer, Commits, Publish, IInv, Types
  <2>2. Session = {} /\ active = {}
    BY <1>5, Zenon DEF StartServer, IInv, Sessions
  <2>3. Sessions' /\ Authorized'
    BY <1>5, Zenon DEF StartServer, Sessions, Authorized, Session, IInv
  <2>4. SessionsBounded'
    BY <1>5, FewerStayBounded DEF StartServer, IInv
  <2>5. QED BY <2>1, <2>3, <2>4 DEF IInv
<1>6. CASE StopServer
  <2>1. Types'
    BY <1>6 DEF StopServer, Stopped, CommitFails, Commits, IInv, Types, State
  <2>2. QED BY <1>6, <2>1, StoppedKeeps DEF StopServer
<1>7. CASE PowerLoss
  <2>1. Types'
    BY <1>7 DEF PowerLoss, Stopped, IInv, Types, State
  <2>2. QED BY <1>7, <2>1, StoppedKeeps DEF PowerLoss
<1>8. CASE RefreshTick
  BY <1>8, RefreshKeeps, Zenon DEF RefreshTick, IInv, Types
<1>9. ASSUME NEW c \in Conn, Accept(c) PROVE IInv'
  <2>1. st' \in [Conn -> State]
    BY <1>9, Zenon DEF Accept, IInv, Types, State
  <2>2. \A d \in Conn : (st'[d] \in {"added", "live"}) = (st[d] \in {"added", "live"})
    BY <1>9 DEF Accept
  <2>3. QED BY <1>9, <2>1, RefreshKeeps DEF Accept
<1>10. ASSUME NEW c \in Conn, Handler(c) \/ Fails(c) \/ PeerCloses(c) PROVE IInv'
  BY <1>10, BeforeKeeps, AdmitKeeps, SessionKeeps DEF Handler
<1>11. CASE UNCHANGED vars
  BY <1>11, ApartKeeps, Zenon DEF vars, IInv, Types
<1>12. CASE StartFails
  <2>1. Types'
    BY <1>12 DEF StartFails, CommitFails, Commits, IInv, Types
  <2>2. QED BY <1>12, <2>1, ApartKeeps, Zenon DEF StartFails
<1>13. QED
  BY <1>1, <1>2, <1>3, <1>4, <1>5, <1>6, <1>7, <1>8, <1>9, <1>10, <1>11, <1>12 DEF Next

LEMMA AlwaysIInv == Spec => []IInv
  BY InitIInv, NextIInv, PTL DEF Spec

\* In every state, an open session's credential is active in the server's policy,
\* whatever refreshes, restarts and other admissions its handler's steps met
\* (handle, refresh).
THEOREM OnlyAuthorizedAreOpen == Spec => []OpenSessionsAuthorized
<1>1. IInv => OpenSessionsAuthorized
  BY DEF IInv, Sessions, Authorized, OpenSessionsAuthorized, Open
<1>2. QED BY <1>1, AlwaysIInv, PTL

\* In every state, no egress has more open sessions than secureMaxSessionsPerEgress
\* (handle).
THEOREM EgressWithinLimit == Spec => []SessionsBounded
  BY AlwaysIInv, PTL DEF IInv

-----------------------------------------------------------------------------
(* The watermark.                                                          *)

LEMMA InitWInv == Init => WInv
<1> SUFFICES ASSUME Init PROVE WInv OBVIOUS
<1>1. Types /\ snapshot = None
  BY Zenon DEF Init, Types, State
<1>2. granted = {} /\ durable = {None} /\ mark = None /\ Known = {None}
  BY DEF Init, Known
<1>3. None.gen <= None.gen
  BY DEF None
<1>4. QED BY <1>1, <1>2, <1>3, Zenon DEF WInv, Watermark

\* A commit of a registry above the watermark, published or not.
LEMMA MarkMoves ==
    ASSUME WInv, LoadRegistry, registry.gen > mark.gen, mark' = registry,
           durable' \in {{registry}, durable \cup {registry}},
           granted' \in {granted, granted \cup {registry}}, snapshot' \in {None, registry}
    PROVE  Watermark'
<1>1. registry \in Registries /\ registry.gen \in Nat /\ registry.gen > 0
  BY TransportAssumption DEF WInv, Types, LoadRegistry, ValidateSecureRegistry
<1>2. mark.gen \in Nat /\ \A r \in Known : r.gen \in Nat /\ r.gen <= mark.gen
  BY TransportAssumption DEF WInv, Types, Watermark, Known, None
<1>3. Known' \subseteq Known \cup {registry} /\ mark' \in durable' /\ granted' \subseteq granted \cup {registry}
  BY DEF Known
<1>4. \A r \in Known : r.gen < registry.gen
  BY <1>1, <1>2
<1>5. \A r \in Known' : r.gen <= registry.gen
  BY <1>1, <1>2, <1>3, <1>4
<1>6. \A r, s \in Known' : r.gen = s.gen => r = s
  BY <1>1, <1>2, <1>3, <1>4 DEF WInv, Watermark
<1>7. \A r \in granted' : r.gen > 0
  BY <1>1, <1>3 DEF WInv, Watermark
<1>8. QED BY <1>3, <1>5, <1>6, <1>7 DEF Watermark

\* The watermark stays; a policy, if there is one, stays too.
LEMMA MarkStays ==
    ASSUME WInv, UNCHANGED <<mark, durable, granted>>, snapshot' \in {None, snapshot}
    PROVE  Watermark'
  BY DEF WInv, Watermark, Known

\* An acceptable registry is the watermark's or above it.
LEMMA AcceptableIsAbove ==
    ASSUME WInv, Acceptable
    PROVE  LoadRegistry /\ registry # None /\ (registry.gen > mark.gen \/ registry = mark)
<1>1. LoadRegistry /\ (mark = None => FALSE) /\ (mark # None => registry.gen > mark.gen \/ registry = mark)
  BY Zenon DEF Acceptable, MarkAllows
<1>2. registry.gen > 0
  BY <1>1, Zenon DEF LoadRegistry, ValidateSecureRegistry
<1>3. registry # None
  BY <1>2 DEF None
<1>4. QED BY <1>1, <1>3

\* A commit that fails leaves the watermark or moves it, and nothing is published.
LEMMA FailedCommit ==
    ASSUME WInv, CommitFails, granted' = granted, snapshot' = None
    PROVE  Watermark'
<1>1. CASE UNCHANGED <<mark, durable>>
  BY <1>1, MarkStays
<1>2. CASE Commits(FALSE)
  <2>1. /\ registry.gen > mark.gen /\ LoadRegistry /\ mark' = registry
        /\ durable' = durable \cup {registry}
    BY <1>2, AcceptableIsAbove, Zenon DEF CommitFails, Commits
  <2>2. QED BY <2>1, MarkMoves
<1>3. QED BY <1>1, <1>2 DEF CommitFails

\* A commit that returns, and the registry published: the watermark may have been the
\* registry's already, synced or not.
LEMMA CommitPublishes ==
    ASSUME WInv, Acceptable, Commits(TRUE), Publish(TRUE)
    PROVE  Watermark'
<1>1. snapshot' = registry /\ granted' = granted \cup {registry} /\ mark' = registry
  BY DEF Commits, Publish
<1>2. CASE mark = registry
  <2>1. durable' = durable /\ Known' = Known /\ mark \in durable
    BY <1>1, <1>2, Zenon DEF Commits, Known, WInv, Watermark
  <2>2. registry.gen > 0
    BY DEF Acceptable, LoadRegistry, ValidateSecureRegistry
  <2>3. QED BY <1>1, <1>2, <2>1, <2>2, Zenon DEF WInv, Watermark
<1>3. CASE mark # registry
  <2>1. registry.gen > mark.gen /\ LoadRegistry /\ durable' = {registry}
    BY <1>3, AcceptableIsAbove, Zenon DEF Commits
  <2>2. QED BY <1>1, <2>1, MarkMoves
<1>4. QED BY <1>2, <1>3

\* A refresh, whatever its commit does.
LEMMA RefreshMark ==
    ASSUME WInv, Refresh
    PROVE  Watermark'
<1>1. CASE Acceptable /\ Commits(TRUE) /\ Publish(TRUE)
  BY <1>1, CommitPublishes
<1>2. CASE Publish(FALSE) /\ UNCHANGED <<mark, durable>>
  BY <1>2, MarkStays DEF Publish
<1>3. CASE Publish(FALSE) /\ CommitFails
  BY <1>3, FailedCommit DEF Publish
<1>4. QED BY <1>1, <1>2, <1>3, Zenon DEF Refresh

\* The disk comes back with one of the watermarks it may hold, and the history keeps what
\* is below all of them.
LEMMA PowerLossMark ==
    ASSUME WInv, PowerLoss
    PROVE  Watermark'
<1>1. /\ snapshot' = None /\ durable' = {mark'}
      /\ granted' = {r \in granted : \A m \in durable : r.gen <= m.gen}
      /\ mark' \in durable \cup (IF up /\ Acceptable THEN {registry} ELSE {})
  BY Zenon DEF PowerLoss, Stopped
<1>2. /\ \A r \in Known \cup {registry, mark} : r.gen \in Nat
      /\ granted' \subseteq Known /\ durable \subseteq Known /\ mark \in durable
  BY <1>1, TransportAssumption DEF WInv, Types, Watermark, Known, None
<1>3. CASE mark' \in durable
  <2>1. \A r \in Known' : r.gen <= mark'.gen /\ r \in Known
    BY <1>1, <1>2, <1>3 DEF Known
  <2>2. QED BY <1>1, <2>1, Zenon DEF WInv, Watermark
<1>4. CASE Acceptable /\ mark' = registry /\ registry.gen > mark.gen
  <2>1. \A r \in granted' : r.gen <= mark.gen /\ r.gen < registry.gen
    BY <1>1, <1>2, <1>4
  <2>2. \A r \in Known' : r.gen <= mark'.gen /\ (r.gen = mark'.gen => r = mark')
    BY <1>1, <1>2, <1>4, <2>1 DEF Known
  <2>3. Known' \subseteq Known \cup {mark'}
    BY <1>1, <1>2 DEF Known
  <2>4. \A r, s \in Known' : r.gen = s.gen => r = s
    BY <2>2, <2>3, Zenon DEF WInv, Watermark
  <2>5. QED BY <1>1, <2>2, <2>4, Zenon DEF WInv, Watermark
<1>5. QED BY <1>1, <1>2, <1>3, <1>4, AcceptableIsAbove

LEMMA NextWInv == IInv /\ WInv /\ [Next]_vars => WInv'
<1> SUFFICES ASSUME IInv, WInv, [Next]_vars PROVE WInv' OBVIOUS
<1> USE DEF disk, policy, conns
<1>1. Types' /\ (~up => snapshot = None)'
  BY NextIInv, Zenon DEF IInv, Sessions
<1>2. Watermark'
  <2>1. ASSUME NEW r \in Registries, Install(r) PROVE Watermark'
    BY <2>1, MarkStays DEF Install
  <2>2. ASSUME NEW f \in File, FileChanges(f) PROVE Watermark'
    BY <2>2, MarkStays, Zenon DEF FileChanges
  <2>3. CASE Tick
    BY <2>3, MarkStays DEF Tick
  <2>4. CASE InitializeSecureRegistry
    <3>1. LoadRegistry /\ registry.gen = 1 /\ mark.gen = 0 /\ mark # registry /\ snapshot' = None
      BY <2>4 DEF InitializeSecureRegistry, None, WInv
    <3>2. /\ mark' = registry /\ durable' \in {{registry}, durable \cup {registry}}
          /\ granted' = granted
      BY <2>4, <3>1, Zenon DEF InitializeSecureRegistry, Commits
    <3>3. QED BY <3>1, <3>2, MarkMoves
  <2>5. CASE StartServer
    BY <2>5, CommitPublishes DEF StartServer
  <2>6. CASE StopServer
    BY <2>6, MarkStays, FailedCommit, Zenon DEF StopServer, Stopped
  <2>7. CASE PowerLoss
    BY <2>7, PowerLossMark
  <2>8. CASE RefreshTick
    BY <2>8, RefreshMark, Zenon DEF RefreshTick
  <2>9. ASSUME NEW c \in Conn, Accept(c) PROVE Watermark'
    BY <2>9, RefreshMark, Zenon DEF Accept
  <2>10. ASSUME NEW c \in Conn, Handler(c) \/ Fails(c) \/ PeerCloses(c) PROVE Watermark'
    BY <2>10, MarkStays, Zenon DEF Handler, GetConfig, VerifyConnection, FirstCheck, Admit,
       SetPool, HandlerEnds, Fails, PeerCloses
  <2>11. CASE UNCHANGED vars
    BY <2>11, MarkStays, Zenon DEF vars
  <2>12. CASE StartFails
    BY <2>12, FailedCommit, Zenon DEF StartFails, WInv
  <2>13. QED
    BY <2>1, <2>2, <2>3, <2>4, <2>5, <2>6, <2>7, <2>8, <2>9, <2>10, <2>11, <2>12 DEF Next
<1>3. QED BY <1>1, <1>2 DEF WInv

\* Nothing published is older than, or a changed copy of, anything published before: not by
\* a refresh, a restart, a process that ends inside a commit or a sync that fails, and after
\* a power loss not for what was published under a synced watermark (commitSecureWatermark,
\* refresh).
THEOREM WatermarkRulesOutRollback == Spec => []NoRollback
<1>1. WInv => NoRollback
  BY DEF WInv, Watermark, Known, NoRollback
<1>2. QED BY <1>1, NextWInv, InitWInv, AlwaysIInv, PTL DEF Spec

-----------------------------------------------------------------------------
(***************************************************************************)
(* Proofs about ProxySlots, for every set of requests and clients and for  *)
(* every limit.                                                            *)
(*                                                                         *)
(* acquireProxySlot works on the counters in up to three steps: a victim   *)
(* for the global limit, a victim for the client's limit, the new slot.    *)
(* The lemmas follow a record of the counters through these steps.  What   *)
(* they need from the state is that a victim is a request that attached    *)
(* its closer, and that a request which is not attached yet still owns the *)
(* slot it acquired.                                                       *)
(***************************************************************************)
CONSTANTS Tunnel, Peer, PeerOf(_), MaxConns, MaxPeer, PreemptIdle
VARIABLES pc, age, quiet, closer, slots, total, byPeer, dying, open

Slots == INSTANCE ProxySlots WITH Conn <- Tunnel

\* Slots counts with the Cardinality of its own copy of FiniteSets.
LEMMA SlotsSizes == \A S : Slots!Cardinality(S) = Cardinality(S)
  BY DEF Slots!Cardinality, Cardinality

Of(S, p) == {c \in S : PeerOf(c) = p}

\* A record of the counters whose counts are those of its slots
Exact(k) ==
  /\ k = [slots |-> k.slots, total |-> k.total, byPeer |-> k.byPeer]
  /\ k.slots \subseteq Tunnel /\ IsFiniteSet(k.slots)
  /\ k.total = Cardinality(k.slots)
  /\ k.byPeer = [p \in Peer |-> Cardinality(Of(k.slots, p))]

\* The limits hold for the slots of a record
Within(k) ==
  /\ MaxConns > 0 => Cardinality(k.slots) <= MaxConns
  /\ MaxPeer > 0 => \A p \in Peer : Cardinality(Of(k.slots, p)) <= MaxPeer

\* Who holds a slot, a closer and open connections
Held(c) ==
  /\ pc[c] = "idle" => c \notin slots /\ c \notin closer
  /\ pc[c] \in {"idle", "setup"} => c \notin open
  /\ pc[c] \in {"setup", "striped"} => c \in slots /\ c \notin closer
  /\ c \in open => c \in slots \/ c \in dying

SlotsTypes ==
  /\ pc \in [Tunnel -> {"idle", "setup", "attached", "piping", "striped"}]
  /\ closer \subseteq Tunnel /\ dying \subseteq Tunnel /\ open \subseteq Tunnel

SlotsIInv == SlotsTypes /\ Exact(Slots!Counts) /\ Within(Slots!Counts) /\ \A c \in Tunnel : Held(c)

-----------------------------------------------------------------------------
\* The slots of one client, with a slot more or a slot less.
LEMMA OfChanges ==
  ASSUME NEW S, NEW c, NEW p
  PROVE  /\ Of(S \cup {c}, p) = IF PeerOf(c) = p THEN Of(S, p) \cup {c} ELSE Of(S, p)
         /\ Of(S \ {c}, p) = IF PeerOf(c) = p THEN Of(S, p) \ {c} ELSE Of(S, p)
         /\ Of(S, p) \subseteq S
BY DEF Of

\* Releasing a slot keeps the counts exact, also when it was released before.
LEMMA ReleasedExact ==
  ASSUME Slots!SlotConstants, NEW k, Exact(k), NEW c \in Tunnel
  PROVE  Exact(Slots!Released(k, c)) /\ Slots!Released(k, c).slots = k.slots \ {c}
<1>1. CASE c \notin k.slots
  BY <1>1, Zenon DEF Slots!Released
<1>2. CASE c \in k.slots
  <2> DEFINE S == k.slots
             q == PeerOf(c)
             n == Cardinality(Of(S, q))
  <2>1. q \in Peer /\ c \in Of(S, q)
    BY <1>2 DEF Slots!SlotConstants, Of
  <2>2. IsFiniteSet(S \ {c}) /\ Cardinality(S \ {c}) = Cardinality(S) - 1
    BY <1>2, FS_RemoveElement, Zenon DEF Exact
  <2>3. IsFiniteSet(Of(S, q))
    BY OfChanges, FS_Subset, Zenon DEF Exact
  <2>4. Cardinality(Of(S, q) \ {c}) = n - 1 /\ n \in Nat
    BY <2>1, <2>3, FS_RemoveElement, FS_CardinalityType
  <2>5. Cardinality(Of(S, q) \ {c}) \in Nat
    BY <2>3, FS_RemoveElement, FS_CardinalityType, Zenon
  <2>6. Cardinality(S) \in Nat /\ Cardinality(S \ {c}) \in Nat
    BY <2>2, FS_CardinalityType, Zenon DEF Exact
  <2>7. (IF k.total > 0 THEN k.total - 1 ELSE 0) = Cardinality(S \ {c})
    BY <2>2, <2>6 DEF Exact
  <2>8. [k.byPeer EXCEPT ![q] = IF @ <= 1 THEN 0 ELSE @ - 1]
          = [p \in Peer |-> Cardinality(Of(S \ {c}, p))]
    <3>1. k.byPeer = [p \in Peer |-> Cardinality(Of(S, p))]
      BY Zenon DEF Exact
    <3>2. (IF n <= 1 THEN 0 ELSE n - 1) = Cardinality(Of(S, q) \ {c})
      BY <2>4, <2>5
    <3>3. ASSUME NEW p \in Peer
          PROVE  [k.byPeer EXCEPT ![q] = IF @ <= 1 THEN 0 ELSE @ - 1][p]
                   = Cardinality(Of(S \ {c}, p))
      <4>1. CASE p = q
        BY <3>1, <3>2, <4>1, OfChanges, Zenon
      <4>2. CASE p # q
        <5>1. Of(S \ {c}, p) = Of(S, p)
          BY <4>2 DEF Of
        <5>2. k.byPeer[p] = Cardinality(Of(S, p))
          BY <3>1
        <5>3. [k.byPeer EXCEPT ![q] = IF @ <= 1 THEN 0 ELSE @ - 1][p] = k.byPeer[p]
          BY <3>1, <4>2
        <5> QED BY <5>1, <5>2, <5>3, Zenon
      <4> QED BY <4>1, <4>2, Zenon
    <3> DEFINE f == [k.byPeer EXCEPT ![q] = IF @ <= 1 THEN 0 ELSE @ - 1]
    <3>4. f = [p \in Peer |-> f[p]]
      BY <3>1, Zenon
    <3>5. \A p \in Peer : f[p] = Cardinality(Of(S \ {c}, p))
      BY <3>3, Zenon
    <3> HIDE DEF f
    <3> SUFFICES f = [p \in Peer |-> Cardinality(Of(S \ {c}, p))]
      BY Zenon DEF f
    <3> QED BY <3>4, <3>5
  <2>9. Slots!Released(k, c) = [slots |-> S \ {c}, total |-> Cardinality(S \ {c}),
                          byPeer |-> [p \in Peer |-> Cardinality(Of(S \ {c}, p))]]
    BY <1>2, <2>7, <2>8, Zenon DEF Slots!Released
  <2> QED BY <2>2, <2>9 DEF Exact
<1> QED BY <1>1, <1>2, Zenon

\* A new slot is counted once, in all and for its client.
LEMMA CountSlotExact ==
  ASSUME Slots!SlotConstants, NEW k, Exact(k), NEW c \in Tunnel, c \notin k.slots
  PROVE  Exact(Slots!CountSlot(k, c)) /\ Slots!CountSlot(k, c).slots = k.slots \cup {c}
<1> DEFINE S == k.slots
           q == PeerOf(c)
<1>1. q \in Peer /\ c \notin Of(S, q)
  BY DEF Slots!SlotConstants, Of
<1>2. IsFiniteSet(S \cup {c}) /\ Cardinality(S \cup {c}) = Cardinality(S) + 1
  BY FS_AddElement, Zenon DEF Exact
<1>3. IsFiniteSet(Of(S, q))
  BY OfChanges, FS_Subset, Zenon DEF Exact
<1>4. Cardinality(Of(S, q) \cup {c}) = Cardinality(Of(S, q)) + 1
  BY <1>1, <1>3, FS_AddElement, Zenon
<1>5. [k.byPeer EXCEPT ![q] = @ + 1] = [p \in Peer |-> Cardinality(Of(S \cup {c}, p))]
  <2>1. k.byPeer = [p \in Peer |-> Cardinality(Of(S, p))]
    BY Zenon DEF Exact
  <2>2. ASSUME NEW p \in Peer
        PROVE  [k.byPeer EXCEPT ![q] = @ + 1][p] = Cardinality(Of(S \cup {c}, p))
    <3>1. CASE p = q
      BY <1>4, <2>1, <3>1, OfChanges, Zenon
    <3>2. CASE p # q
      <4>1. Of(S \cup {c}, p) = Of(S, p)
        BY <3>2 DEF Of
      <4>2. k.byPeer[p] = Cardinality(Of(S, p))
        BY <2>1
      <4>3. [k.byPeer EXCEPT ![q] = @ + 1][p] = k.byPeer[p]
        BY <2>1, <3>2
      <4> QED BY <4>1, <4>2, <4>3, Zenon
    <3> QED BY <3>1, <3>2, Zenon
  <2> DEFINE f == [k.byPeer EXCEPT ![q] = @ + 1]
  <2>3. f = [p \in Peer |-> f[p]]
    BY <2>1, Zenon
  <2>4. \A p \in Peer : f[p] = Cardinality(Of(S \cup {c}, p))
    BY <2>2, Zenon
  <2> HIDE DEF f
  <2> SUFFICES f = [p \in Peer |-> Cardinality(Of(S \cup {c}, p))]
    BY Zenon DEF f
  <2> QED BY <2>3, <2>4
<1>6. Slots!CountSlot(k, c) = [slots |-> S \cup {c}, total |-> Cardinality(S \cup {c}),
                         byPeer |-> [p \in Peer |-> Cardinality(Of(S \cup {c}, p))]]
  BY <1>2, <1>5, Zenon DEF Slots!CountSlot, Exact
<1> QED BY <1>2, <1>6 DEF Exact

\* Fewer slots are within the limits too.
LEMMA FewerSlots ==
  ASSUME NEW T, IsFiniteSet(T), NEW S \in SUBSET T, NEW p
  PROVE  /\ Cardinality(S) \in Nat /\ Cardinality(T) \in Nat
         /\ Cardinality(S) <= Cardinality(T)
         /\ IsFiniteSet(Of(T, p)) /\ Cardinality(Of(T, p)) \in Nat
         /\ Cardinality(Of(S, p)) \in Nat
         /\ Cardinality(Of(S, p)) <= Cardinality(Of(T, p))
<1>1. IsFiniteSet(S) /\ Cardinality(S) <= Cardinality(T)
  BY FS_Subset
<1>2. IsFiniteSet(Of(T, p)) /\ IsFiniteSet(Of(S, p))
  BY <1>1, FS_Subset, OfChanges, Zenon
<1>3. Of(S, p) \subseteq Of(T, p)
  BY DEF Of
<1>4. Cardinality(Of(S, p)) <= Cardinality(Of(T, p))
  BY <1>2, <1>3, FS_Subset
<1> QED BY <1>1, <1>2, <1>4, FS_CardinalityType

\* One limit of acquireProxySlot: passing it takes at most one slot, of a
\* request with a closer, and takes one if the limit was reached.
LEMMA PassTakesOne ==
  ASSUME Slots!SlotConstants, closer \subseteq Tunnel,
         NEW k, Exact(k), Within(k), NEW full \in BOOLEAN, NEW peers,
         NEW g \in Slots!Passes(k, full, peers)
  PROVE  /\ Exact(g[1]) /\ Within(g[1]) /\ g[1].slots = k.slots \ g[2]
         /\ g[2] \subseteq closer
         /\ full => \E v \in k.slots : g[2] = {v} /\ PeerOf(v) \in peers
<1>1. CASE ~full
  <2>1. g = <<k, {}>>
    BY <1>1 DEF Slots!Passes
  <2> QED BY <1>1, <2>1
<1>2. CASE full
  <2>1. PICK v \in Slots!Victims(k, peers) : g = <<Slots!Released(k, v), {v}>>
    BY <1>2 DEF Slots!Passes
  <2>2. v \in k.slots /\ v \in closer /\ v \in Tunnel /\ PeerOf(v) \in peers
    BY <2>1, Zenon DEF Slots!Victims
  <2>3. Exact(Slots!Released(k, v)) /\ Slots!Released(k, v).slots = k.slots \ {v}
    BY <2>2, ReleasedExact, Zenon
  <2>4. Within(Slots!Released(k, v))
    <3>1. \A p : /\ Cardinality(k.slots \ {v}) \in Nat /\ Cardinality(k.slots) \in Nat
                 /\ Cardinality(k.slots \ {v}) <= Cardinality(k.slots)
                 /\ Cardinality(Of(k.slots, p)) \in Nat
                 /\ Cardinality(Of(k.slots \ {v}, p)) \in Nat
                 /\ Cardinality(Of(k.slots \ {v}, p)) <= Cardinality(Of(k.slots, p))
      BY FewerSlots, Zenon DEF Exact
    <3> QED BY <2>3, <3>1 DEF Within, Slots!SlotConstants
  <2> QED BY <2>1, <2>2, <2>3, <2>4, Zenon
<1> QED BY <1>1, <1>2, Zenon

\* After the first limit there is room for one slot in all ...
LEMMA GlobalRoom ==
  ASSUME Slots!SlotConstants, closer \subseteq Tunnel, NEW k, Exact(k), Within(k), NEW peers,
         NEW g \in Slots!Passes(k, Slots!GlobalFull(k), peers), MaxConns > 0
  PROVE  Cardinality(g[1].slots) < MaxConns
<1>1. Slots!GlobalFull(k) \in BOOLEAN
  BY DEF Slots!GlobalFull
<1>2. /\ g[1].slots = k.slots \ g[2]
      /\ Slots!GlobalFull(k) => \E v \in k.slots : g[2] = {v}
  BY <1>1, PassTakesOne
<1>3. Cardinality(k.slots) \in Nat /\ IsFiniteSet(k.slots)
  BY FS_CardinalityType, Zenon DEF Exact
<1>4. CASE Slots!GlobalFull(k)
  <2>1. PICK v \in k.slots : g[1].slots = k.slots \ {v}
    BY <1>2, <1>4
  <2>2. Cardinality(k.slots \ {v}) = Cardinality(k.slots) - 1
    BY <1>3, FS_RemoveElement, Zenon
  <2> QED BY <1>3, <2>1, <2>2 DEF Within, Slots!SlotConstants
<1>5. CASE ~Slots!GlobalFull(k)
  <2>1. g = <<k, {}>>
    BY <1>5 DEF Slots!Passes
  <2> QED BY <1>3, <1>5, <2>1 DEF Slots!GlobalFull, Exact, Slots!SlotConstants
<1> QED BY <1>4, <1>5

\* ... and after the second one room for one slot of the client.
LEMMA PeerRoom ==
  ASSUME Slots!SlotConstants, closer \subseteq Tunnel, NEW k, Exact(k), Within(k), NEW c \in Tunnel,
         NEW h \in Slots!Passes(k, Slots!PeerFull(k, c), {PeerOf(c)}), MaxPeer > 0
  PROVE  Cardinality(Of(h[1].slots, PeerOf(c))) < MaxPeer
<1> DEFINE q == PeerOf(c)
           S == Of(k.slots, q)
<1>1. Slots!PeerFull(k, c) \in BOOLEAN
  BY Zenon DEF Slots!PeerFull
<1>2. /\ h[1].slots = k.slots \ h[2]
      /\ Slots!PeerFull(k, c) => \E v \in k.slots : h[2] = {v} /\ PeerOf(v) \in {q}
  BY <1>1, PassTakesOne
<1>3. IsFiniteSet(S) /\ Cardinality(S) \in Nat
  BY FS_Subset, FS_CardinalityType, OfChanges, Zenon DEF Exact
<1>4. q \in Peer /\ k.byPeer[q] = Cardinality(S)
  BY Zenon DEF Slots!SlotConstants, Exact
<1>5. CASE Slots!PeerFull(k, c)
  <2>1. PICK v \in k.slots : h[1].slots = k.slots \ {v} /\ PeerOf(v) = q
    BY <1>2, <1>5, Zenon
  <2>2. v \in S /\ Of(h[1].slots, q) = S \ {v}
    BY <2>1, Zenon DEF Of
  <2>3. Cardinality(S \ {v}) = Cardinality(S) - 1
    BY <1>3, <2>2, FS_RemoveElement, Zenon
  <2>4. Cardinality(S) <= MaxPeer
    BY <1>4, Zenon DEF Within
  <2> QED BY <1>3, <2>2, <2>3, <2>4 DEF Slots!SlotConstants
<1>6. CASE ~Slots!PeerFull(k, c)
  <2>1. h = <<k, {}>>
    BY <1>6 DEF Slots!Passes
  <2> QED BY <1>3, <1>4, <1>6, <2>1 DEF Slots!PeerFull, Slots!SlotConstants
<1> QED BY <1>5, <1>6

\* What acquireProxySlot does to the slots, whichever way it goes: it takes the
\* slots of some requests with closers, and may add the one of the caller.
LEMMA AcquireEffect ==
  ASSUME Slots!SlotConstants, SlotsIInv, NEW c \in Tunnel, Slots!Acquire(c)
  PROVE  /\ Exact(Slots!Counts)' /\ Within(Slots!Counts)'
         /\ \E V \in SUBSET closer :
              /\ dying' = dying \cup V
              /\ \/ slots' = slots \ V /\ pc' = pc
                 \/ slots' = (slots \ V) \cup {c} /\ pc' = Slots!Set(pc, c, "setup")
<1> DEFINE k == Slots!Counts
<1>1. Exact(k) /\ Within(k) /\ closer \subseteq Tunnel /\ k.slots = slots
  BY DEF SlotsIInv, SlotsTypes, Slots!Counts
<1>2. c \notin slots /\ c \notin closer
  BY Zenon DEF Slots!Acquire, SlotsIInv, Held
<1>3. ASSUME NEW r, Exact(r), Slots!SetCounts(r)
      PROVE  Slots!Counts' = r /\ slots' = r.slots
  BY <1>3, Zenon DEF Slots!SetCounts, Slots!Counts, Exact
<1>4. CASE UNCHANGED <<pc, age, Slots!counts, dying>>
  <2>1. Slots!Counts' = Slots!Counts /\ slots' = slots
    BY <1>4 DEF Slots!counts, Slots!Counts
  <2>2. Exact(Slots!Counts)' /\ Within(Slots!Counts)'
    BY <1>1, <2>1, Zenon DEF Exact, Within
  <2>3. {} \in SUBSET closer /\ dying' = dying \cup {} /\ slots' = slots \ {} /\ pc' = pc
    BY <1>4, <2>1
  <2> QED BY <2>2, <2>3, Zenon
<1>5. ASSUME NEW g \in Slots!Passes(k, Slots!GlobalFull(k), Peer)
      PROVE  /\ Exact(g[1]) /\ Within(g[1]) /\ g[1].slots = slots \ g[2] /\ g[2] \subseteq closer
             /\ MaxConns > 0 => Cardinality(g[1].slots) < MaxConns
  <2>1. Slots!GlobalFull(k) \in BOOLEAN
    BY DEF Slots!GlobalFull
  <2> HIDE DEF k
  <2> QED BY <1>1, <2>1, PassTakesOne, GlobalRoom
<1>6. ASSUME NEW g \in Slots!Passes(k, Slots!GlobalFull(k), Peer),
             Slots!SetCounts(g[1]), dying' = dying \cup g[2], UNCHANGED <<pc, age>>
      PROVE  /\ Exact(Slots!Counts)' /\ Within(Slots!Counts)'
             /\ \E V \in SUBSET closer :
                  dying' = dying \cup V /\ slots' = slots \ V /\ pc' = pc
  <2>1. Slots!Counts' = g[1] /\ slots' = g[1].slots
    BY <1>3, <1>5, <1>6, Zenon
  <2>2. Exact(Slots!Counts)' /\ Within(Slots!Counts)'
    BY <1>5, <2>1, Zenon DEF Exact, Within
  <2>3. g[2] \in SUBSET closer /\ slots' = slots \ g[2]
    BY <1>5, <2>1
  <2> QED BY <1>6, <2>2, <2>3
<1>7. ASSUME NEW g \in Slots!Passes(k, Slots!GlobalFull(k), Peer),
             NEW h \in Slots!Passes(g[1], Slots!PeerFull(g[1], c), {PeerOf(c)}),
             Slots!SetCounts(Slots!CountSlot(h[1], c)), dying' = dying \cup g[2] \cup h[2],
             pc' = Slots!Set(pc, c, "setup")
      PROVE  /\ Exact(Slots!Counts)' /\ Within(Slots!Counts)'
             /\ \E V \in SUBSET closer :
                  /\ dying' = dying \cup V
                  /\ slots' = (slots \ V) \cup {c} /\ pc' = Slots!Set(pc, c, "setup")
  <2> DEFINE j == g[1]
             m == h[1]
             n == Slots!CountSlot(m, c)
  <2>1. /\ Exact(j) /\ Within(j) /\ j.slots = slots \ g[2] /\ g[2] \subseteq closer
        /\ MaxConns > 0 => Cardinality(j.slots) < MaxConns
    BY <1>5, Zenon
  <2>2. Slots!PeerFull(j, c) \in BOOLEAN
    BY Zenon DEF Slots!PeerFull
  <2>3. /\ Exact(m) /\ Within(m) /\ m.slots = j.slots \ h[2] /\ h[2] \subseteq closer
        /\ MaxPeer > 0 => Cardinality(Of(m.slots, PeerOf(c))) < MaxPeer
    <3>1. h \in Slots!Passes(j, Slots!PeerFull(j, c), {PeerOf(c)})
      BY <1>7
    <3> HIDE DEF j
    <3>2. Exact(m) /\ Within(m) /\ m.slots = j.slots \ h[2] /\ h[2] \subseteq closer
      BY <1>1, <2>1, <2>2, <3>1, PassTakesOne
    <3>3. MaxPeer > 0 => Cardinality(Of(m.slots, PeerOf(c))) < MaxPeer
      BY <1>1, <2>1, <3>1, PeerRoom, Zenon
    <3> QED BY <3>2, <3>3, Zenon
  <2>4. c \notin m.slots
    BY <1>2, <2>1, <2>3, Zenon
  <2>5. Exact(n) /\ n.slots = m.slots \cup {c}
    BY <2>3, <2>4, CountSlotExact, Zenon
  <2>6. Within(n)
    <3>1. IsFiniteSet(j.slots) /\ IsFiniteSet(m.slots) /\ m.slots \in SUBSET j.slots
      BY <2>1, <2>3, Zenon DEF Exact
    <3>2. Cardinality(m.slots) <= Cardinality(j.slots) /\ Cardinality(m.slots) \in Nat
          /\ Cardinality(j.slots) \in Nat
      BY <3>1, FewerSlots, Zenon
    <3>3. Cardinality(m.slots \cup {c}) = Cardinality(m.slots) + 1
      BY <2>4, <3>1, FS_AddElement, Zenon
    <3>4. MaxConns > 0 => Cardinality(n.slots) <= MaxConns
      BY <2>1, <2>5, <3>2, <3>3 DEF Slots!SlotConstants
    <3>5. ASSUME NEW p \in Peer, MaxPeer > 0
          PROVE  Cardinality(Of(n.slots, p)) <= MaxPeer
      <4>1. IsFiniteSet(Of(m.slots, p)) /\ Cardinality(Of(m.slots, p)) \in Nat
        BY <3>1, FewerSlots, Zenon
      <4>2. CASE p = PeerOf(c)
        <5>1. Of(n.slots, p) = Of(m.slots, p) \cup {c} /\ c \notin Of(m.slots, p)
          BY <2>4, <2>5, <4>2, Zenon DEF Of
        <5>2. Cardinality(Of(n.slots, p)) = Cardinality(Of(m.slots, p)) + 1
          BY <4>1, <5>1, FS_AddElement, Zenon
        <5>3. Cardinality(Of(m.slots, p)) < MaxPeer
          BY <2>3, <3>5, <4>2, Zenon
        <5> HIDE DEF m, n
        <5> QED BY <4>1, <5>2, <5>3 DEF Slots!SlotConstants
      <4>3. CASE p # PeerOf(c)
        <5>1. Of(n.slots, p) = Of(m.slots, p)
          BY <2>5, <4>3 DEF Of
        <5> QED BY <2>3, <3>5, <5>1, Zenon DEF Within
      <4> QED BY <4>2, <4>3, Zenon
    <3> QED BY <3>4, <3>5, Zenon DEF Within
  <2>7. Slots!Counts' = n /\ slots' = n.slots
    BY <1>3, <1>7, <2>5, Zenon
  <2>8. Exact(Slots!Counts)' /\ Within(Slots!Counts)'
    BY <2>5, <2>6, <2>7, Zenon DEF Exact, Within
  <2>9. (g[2] \cup h[2]) \in SUBSET closer /\ dying' = dying \cup (g[2] \cup h[2])
        /\ slots' = (slots \ (g[2] \cup h[2])) \cup {c}
    BY <1>7, <2>1, <2>3, <2>5, <2>7, Zenon
  <2> QED BY <1>7, <2>8, <2>9, Zenon
<1> QED BY <1>4, <1>6, <1>7, Zenon DEF Slots!Acquire

\* Before the first request nothing is counted and nothing is open.
LEMMA SlotsInitIInv ==
  ASSUME Slots!SlotConstants
  PROVE  Slots!Init => SlotsIInv
<1> SUFFICES ASSUME Slots!Init PROVE SlotsIInv
  OBVIOUS
<1>1. \A p : Of({}, p) = {}
  BY DEF Of
<1>2. Cardinality({}) = 0 /\ IsFiniteSet({})
  BY FS_EmptySet
<1>3. Slots!Counts = [slots |-> {}, total |-> 0, byPeer |-> [p \in Peer |-> 0]]
  BY DEF Slots!Init, Slots!Counts
<1>4. Exact(Slots!Counts)
  BY <1>1, <1>2, <1>3 DEF Exact
<1>5. Within(Slots!Counts)
  BY <1>1, <1>2, <1>3 DEF Within, Slots!SlotConstants
<1> QED BY <1>4, <1>5 DEF SlotsIInv, Slots!Init, SlotsTypes, Held

\* Every step keeps the counts exact and within the limits, and every open
\* tunnel counted or about to be closed.
LEMMA SlotsNextIInv ==
  ASSUME Slots!SlotConstants
  PROVE  SlotsIInv /\ [Slots!Next]_(Slots!vars) => SlotsIInv'
<1> SUFFICES ASSUME SlotsIInv, [Slots!Next]_(Slots!vars) PROVE SlotsIInv'
  OBVIOUS
<1>1. SlotsTypes /\ Exact(Slots!Counts) /\ Within(Slots!Counts) /\ \A d \in Tunnel : Held(d)
  BY DEF SlotsIInv
<1>2. ASSUME UNCHANGED Slots!counts PROVE Exact(Slots!Counts)' /\ Within(Slots!Counts)'
  BY <1>1, <1>2, Zenon DEF Slots!counts, Slots!Counts, Exact, Within
<1>3. ASSUME NEW c \in Tunnel, Slots!SetCounts(Slots!Released(Slots!Counts, c))
      PROVE  Exact(Slots!Counts)' /\ Within(Slots!Counts)' /\ slots' = slots \ {c}
  <2>1. Exact(Slots!Released(Slots!Counts, c)) /\ Slots!Released(Slots!Counts, c).slots = slots \ {c}
    <3>1. Slots!Counts.slots = slots
      BY DEF Slots!Counts
    <3> QED BY <1>1, <3>1, ReleasedExact
  <2>2. Slots!Counts' = Slots!Released(Slots!Counts, c) /\ slots' = slots \ {c}
    BY <1>3, <2>1, Zenon DEF Slots!SetCounts, Slots!Counts, Exact
  <2>3. IsFiniteSet(slots) /\ Slots!Counts.slots = slots /\ (Slots!Counts.slots)' = slots \ {c}
    BY <1>1, <2>2, Zenon DEF Slots!Counts, Exact
  <2>4. \A p : /\ Cardinality(slots \ {c}) \in Nat /\ Cardinality(slots) \in Nat
               /\ Cardinality(slots \ {c}) <= Cardinality(slots)
               /\ Cardinality(Of(slots, p)) \in Nat
               /\ Cardinality(Of(slots \ {c}, p)) \in Nat
               /\ Cardinality(Of(slots \ {c}, p)) <= Cardinality(Of(slots, p))
    BY <2>3, FewerSlots, Zenon
  <2>5. /\ MaxConns > 0 => Cardinality(slots) <= MaxConns
        /\ MaxPeer > 0 => \A p \in Peer : Cardinality(Of(slots, p)) <= MaxPeer
    BY <1>1, <2>3, Zenon DEF Within
  <2>6. /\ MaxConns > 0 => Cardinality(slots \ {c}) <= MaxConns
        /\ MaxPeer > 0 => \A p \in Peer : Cardinality(Of(slots \ {c}, p)) <= MaxPeer
    BY <2>4, <2>5 DEF Slots!SlotConstants
  <2>7. Within(Slots!Counts)'
    BY <2>3, <2>6, Zenon DEF Within
  <2> QED BY <2>1, <2>2, <2>7, Zenon DEF Exact
<1>4. ASSUME NEW c \in Tunnel, Slots!Acquire(c) PROVE SlotsIInv'
  <2>1. Exact(Slots!Counts)' /\ Within(Slots!Counts)'
    BY <1>4, AcquireEffect
  <2>2. PICK V \in SUBSET closer :
          /\ dying' = dying \cup V
          /\ \/ slots' = slots \ V /\ pc' = pc
             \/ slots' = (slots \ V) \cup {c} /\ pc' = Slots!Set(pc, c, "setup")
    BY <1>4, AcquireEffect, Zenon
  <2>3. pc[c] = "idle" /\ closer' = closer /\ open' = open
    BY <1>4, Zenon DEF Slots!Acquire
  <2>4. SlotsTypes'
    BY <1>1, <2>2, <2>3 DEF SlotsTypes, Slots!Set
  <2>5. ASSUME NEW d \in Tunnel PROVE Held(d)'
    BY <1>1, <2>2, <2>3, <2>5 DEF SlotsTypes, Held, Slots!Set
  <2> QED BY <2>1, <2>4, <2>5 DEF SlotsIInv
<1>5. ASSUME NEW c \in Tunnel, Slots!SetupFails(c) PROVE SlotsIInv'
  <2>1. Exact(Slots!Counts)' /\ Within(Slots!Counts)' /\ slots' = slots \ {c}
    BY <1>3, <1>5 DEF Slots!SetupFails
  <2>2. SlotsTypes' /\ \A d \in Tunnel : Held(d)'
    BY <1>1, <1>5, <2>1 DEF Slots!SetupFails, SlotsTypes, Held, Slots!Set
  <2> QED BY <2>1, <2>2 DEF SlotsIInv
<1>6. ASSUME NEW c \in Tunnel, Slots!Finish(c) PROVE SlotsIInv'
  <2>1. Exact(Slots!Counts)' /\ Within(Slots!Counts)' /\ slots' = slots \ {c}
    BY <1>3, <1>6 DEF Slots!Finish
  <2>2. SlotsTypes' /\ \A d \in Tunnel : Held(d)'
    BY <1>1, <1>6, <2>1, Zenon DEF Slots!Finish, SlotsTypes, Held, Slots!Set
  <2> QED BY <2>1, <2>2 DEF SlotsIInv
<1>7. ASSUME NEW c \in Tunnel, Slots!RelayStriped(c) \/ Slots!Attach(c) \/ Slots!AttachTouch(c)
      PROVE  SlotsIInv'
  <2>1. UNCHANGED Slots!counts
    BY <1>7, Zenon DEF Slots!RelayStriped, Slots!Attach, Slots!AttachTouch
  <2>2. SlotsTypes' /\ \A d \in Tunnel : Held(d)'
    BY <1>1, <1>7, <2>1 DEF Slots!RelayStriped, Slots!Attach, Slots!AttachTouch,
       Slots!counts, SlotsTypes, Held, Slots!Set
  <2> QED BY <1>2, <2>1, <2>2 DEF SlotsIInv
<1>8. ASSUME NEW c \in Tunnel, Slots!Relay(c) \/ Slots!PipeCloses(c) \/ Slots!RunCloser(c)
      PROVE  SlotsIInv'
  <2>1. UNCHANGED Slots!counts
    BY <1>8 DEF Slots!Relay, Slots!PipeCloses, Slots!RunCloser
  <2>2. SlotsTypes' /\ \A d \in Tunnel : Held(d)'
    BY <1>1, <1>8, <2>1, Zenon DEF Slots!Relay, Slots!PipeCloses, Slots!RunCloser,
       Slots!counts, SlotsTypes, Held
  <2> QED BY <1>2, <2>1, <2>2 DEF SlotsIInv
<1>9. CASE Slots!Tick \/ UNCHANGED Slots!vars
  <2>1. UNCHANGED <<pc, closer, Slots!counts, dying, open>>
    BY <1>9, Zenon DEF Slots!Tick, Slots!vars, Slots!counts
  <2>2. SlotsTypes' /\ \A d \in Tunnel : Held(d)'
    BY <1>1, <2>1, Zenon DEF Slots!counts, SlotsTypes, Held
  <2> QED BY <1>2, <2>1, <2>2 DEF SlotsIInv
<1> QED BY <1>4, <1>5, <1>6, <1>7, <1>8, <1>9 DEF Slots!Next

\* The counters that acquireProxySlot compares with the limits are the numbers
\* of slots, although a preempted slot is released a second time by its handler.
THEOREM CountersExact ==
  ASSUME Slots!SlotConstants
  PROVE  Slots!Spec => []Slots!CountsExact
<1>1. SlotsIInv => Slots!CountsExact
  <2> SUFFICES ASSUME SlotsIInv PROVE Slots!CountsExact
    OBVIOUS
  <2>1. total = Cardinality(slots) /\ byPeer = [p \in Peer |-> Cardinality(Of(slots, p))]
    BY Zenon DEF SlotsIInv, Exact, Slots!Counts
  <2> QED BY <2>1, SlotsSizes DEF Slots!CountsExact, Of
<1> QED BY <1>1, SlotsInitIInv, SlotsNextIInv, PTL DEF Slots!Spec

\* The limits bound the tunnels that run: every open tunnel has a slot or its
\* closer is about to run, in all and for each client.
THEOREM LimitsHold ==
  ASSUME Slots!SlotConstants
  PROVE  Slots!Spec => []Slots!LimitsBoundOpenTunnels
<1>1. SlotsIInv => Slots!LimitsBoundOpenTunnels
  <2> SUFFICES ASSUME SlotsIInv PROVE Slots!LimitsBoundOpenTunnels
    OBVIOUS
  <2>1. open \subseteq slots \cup dying
    BY DEF SlotsIInv, SlotsTypes, Held
  <2>2. IsFiniteSet(slots) /\ (open \ dying) \in SUBSET slots
    BY <2>1, Zenon DEF SlotsIInv, Exact, Slots!Counts
  <2>3. /\ MaxConns > 0 => Cardinality(slots) <= MaxConns
        /\ MaxPeer > 0 => \A p \in Peer : Cardinality(Of(slots, p)) <= MaxPeer
    BY Zenon DEF SlotsIInv, Within, Slots!Counts
  <2>4. \A p : /\ Cardinality(open \ dying) \in Nat /\ Cardinality(slots) \in Nat
               /\ Cardinality(open \ dying) <= Cardinality(slots)
               /\ Cardinality(Of(open \ dying, p)) \in Nat /\ Cardinality(Of(slots, p)) \in Nat
               /\ Cardinality(Of(open \ dying, p)) <= Cardinality(Of(slots, p))
    BY <2>2, FewerSlots, Zenon
  <2>5. MaxConns > 0 => Cardinality(open \ dying) <= MaxConns
    BY <2>3, <2>4 DEF Slots!SlotConstants
  <2>6. ASSUME NEW p \in Peer, MaxPeer > 0
        PROVE  Cardinality({c \in open \ dying : PeerOf(c) = p}) <= MaxPeer
    <3>1. Cardinality(Of(open \ dying, p)) <= MaxPeer
      BY <2>3, <2>4, <2>6 DEF Slots!SlotConstants
    <3> QED BY <3>1 DEF Of
  <2> QED BY <2>1, <2>5, <2>6, SlotsSizes DEF Slots!LimitsBoundOpenTunnels
<1> QED BY <1>1, SlotsInitIInv, SlotsNextIInv, PTL DEF Slots!Spec
=============================================================================
