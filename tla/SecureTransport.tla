---------------------------- MODULE SecureTransport ----------------------------
(***************************************************************************)
(* The authenticated reverse transport of the hub (egress/reverse,         *)
(* secure_tcp.go and secure_policy.go): an operator publishes numbered     *)
(* registries of egress credentials, the server accepts them in order      *)
(* under a durable watermark, re-authorizes every session at each refresh, *)
(* and admits a connection in several steps that refreshes, expiry and     *)
(* crashes interleave with.                                                *)
(*                                                                         *)
(* A registry is its generation and its credentials; its digest is the     *)
(* registry itself.  Files that cannot be read, have the wrong owner or do *)
(* not decode are in `bad'.                                                *)
(***************************************************************************)
EXTENDS Integers, FiniteSets, FiniteSetsExt

CONSTANTS
    Conn,           \* connections that may arrive
    CredOf,         \* connection -> credential of its certificate
    EgressOf,       \* credential -> the egress identity in its certificate
    Registries,     \* the registries an operator may install
    MaxOverlap,     \* secureMaxOverlap
    MaxPerEgress,   \* secureMaxSessionsPerEgress
    MaxActive,      \* the limit of 256 sessions
    MaxHandshakes,  \* the handshake semaphore
    MaxNow,         \* bound: instants
    MaxOps          \* bound: changes of the registry and of the files' state

\* Generations are numbers; finitely many connections arrive.
ASSUME TransportAssumption ==
    /\ \A r \in Registries : r.gen \in Nat
    /\ IsFiniteSet(Conn) /\ MaxPerEgress \in Nat

None == [gen |-> 0, cred |-> <<>>]
File == {"roots", "pair", "registry", "mark"}

VARIABLES
    registry, bad, now, ops,    \* the files, their state, the clock
    mark, durable,              \* the watermark, and those a power loss may leave
    up,                         \* the server runs and holds the registry's lock
    snapshot, liveGen, lastReg, \* securePolicySnapshot, RegistryGeneration, lastDigest
    st,                         \* the state of each connection's handler
    held,                       \* the policy a handshake was given
    active,                     \* s.active
    gone,                       \* the sessions that are closed
    pool,                       \* the session manager's pool
    granted                     \* history: the registries published, see PowerLoss

disk == <<registry, bad, now, ops>>
policy == <<mark, durable, up, snapshot, liveGen, lastReg, granted>>
conns == <<st, held, active, gone, pool>>
vars == <<disk, policy, conns>>

\* config: refreshed; verify: has a policy; hello: certificate verified;
\* ack: first check passed; added: put in s.active; live: put in the pool too.
State == {"none", "config", "verify", "hello", "ack", "added", "live"}
Session == {c \in Conn : st[c] \in {"added", "live"}}

TypeOK ==
    /\ registry \in Registries /\ bad \subseteq File /\ now \in 0..MaxNow /\ ops \in 0..MaxOps
    /\ durable \cup {mark, snapshot, lastReg} \subseteq Registries \cup {None} /\ mark \in durable
    /\ up \in BOOLEAN /\ liveGen \in Nat /\ granted \subseteq Registries
    /\ st \in [Conn -> State] /\ held \in [Conn -> Registries \cup {None}]
    /\ active \subseteq Session /\ Session \ gone \subseteq active /\ gone \subseteq Session
    /\ pool = {c \in Conn : st[c] = "live"}

Init ==
    /\ registry \in Registries /\ bad = {} /\ now = 0 /\ ops = 0
    /\ mark = None /\ durable = {None} /\ up = FALSE /\ snapshot = None /\ liveGen = 0
    /\ lastReg = None /\ granted = {}
    /\ st = [c \in Conn |-> "none"] /\ held = [c \in Conn |-> None]
    /\ active = {} /\ gone = {} /\ pool = {}

-----------------------------------------------------------------------------
(* Loading and authorizing.                                                *)

ReadSecureFile(f) == f \notin bad

LoadRoots == ReadSecureFile("roots")
ParseLocalCertificate == ReadSecureFile("pair")

Active(r) == {k \in DOMAIN r.cred : r.cred[k].active}

ValidateSecureRegistry(r) ==
    /\ r.gen > 0
    /\ \A k \in DOMAIN r.cred : r.cred[k].nb < r.cred[k].exp
    /\ \A e \in {EgressOf[k] : k \in DOMAIN r.cred} :
          Cardinality({k \in DOMAIN r.cred : EgressOf[k] = e}) <= 2
    /\ \A k, l \in Active(r) : k # l /\ EgressOf[k] = EgressOf[l] =>
          Min({r.cred[k].exp, r.cred[l].exp}) - Max({r.cred[k].nb, r.cred[l].nb}) <= MaxOverlap

LoadRegistry == ReadSecureFile("registry") /\ ValidateSecureRegistry(registry)

AuthorizeSecureEgress(r, c) ==
    LET k == CredOf[c] IN
    /\ r # None /\ k \in Active(r)
    /\ r.cred[k].nb <= now /\ now < r.cred[k].exp

\* Mutant: the watermark of an older registry is overwritten.
MarkAnyway(m, r, initialize) == ReadSecureFile("mark") /\ (m = None => initialize)

\* commitSecureWatermark's conditions.
MarkAllows(m, r, initialize) ==
    /\ ReadSecureFile("mark")
    /\ m = None => initialize
    /\ m # None => r.gen > m.gen \/ r = m

-----------------------------------------------------------------------------
(* The operator, the clock and the disk.                                   *)

Install(r) ==
    /\ ops < MaxOps /\ ops' = ops + 1 /\ r # registry /\ registry' = r
    /\ UNCHANGED <<bad, now, policy, conns>>

FileChanges(f) ==
    /\ ops < MaxOps /\ ops' = ops + 1
    /\ bad' = IF f \in bad THEN bad \ {f} ELSE bad \cup {f}
    /\ UNCHANGED <<registry, now, policy, conns>>

Tick == now < MaxNow /\ now' = now + 1 /\ UNCHANGED <<registry, bad, ops, policy, conns>>

\* The watermark is renamed into place and the directory synced.  Until a sync returns, a
\* power loss may leave either watermark.  One that already names the registry is left
\* alone: the sync is not tried again.
Commits(synced) ==
    /\ mark' = registry
    /\ durable' = IF mark = registry THEN durable
                  ELSE IF synced THEN {registry} ELSE durable \cup {registry}

\* zhreverse registry init: the first watermark, for generation 1 only.
InitializeSecureRegistry ==
    /\ ~up /\ mark = None /\ LoadRegistry /\ registry.gen = 1
    /\ MarkAllows(mark, registry, TRUE)
    /\ \E synced \in BOOLEAN : Commits(synced)
    /\ UNCHANGED <<disk, up, snapshot, liveGen, lastReg, granted, conns>>

-----------------------------------------------------------------------------
(* refresh.                                                                *)

Acceptable ==
    /\ LoadRoots /\ ParseLocalCertificate /\ LoadRegistry
    /\ registry.gen > liveGen \/ (registry.gen = liveGen /\ registry = lastReg)
    /\ MarkAllows(mark, registry, FALSE)

Publish(ok) ==
    /\ snapshot' = IF ok THEN registry ELSE None
    /\ liveGen' = IF ok THEN registry.gen ELSE liveGen
    /\ lastReg' = IF ok THEN registry ELSE lastReg
    /\ granted' = IF ok THEN granted \cup {registry} ELSE granted

\* Mutant: a registry that cannot be loaded leaves the sessions alone.
KeepAll(ok) == {c \in active : ~ok \/ AuthorizeSecureEgress(registry, c)}

\* The sessions a refresh leaves open.
Kept(ok) == {c \in active : ok /\ AuthorizeSecureEgress(registry, c)}

\* The others are closed and deleted; their handlers clean up the pool.
Closes(ok) == active' = Kept(ok) /\ gone' = gone \cup (active \ Kept(ok))

\* The commit fails before its rename, or its sync fails after it.
CommitFails ==
    /\ Acceptable /\ mark # registry
    /\ Commits(FALSE) \/ UNCHANGED <<mark, durable>>

Refresh ==
    \/ /\ Acceptable /\ Commits(TRUE) /\ Publish(TRUE) /\ Closes(TRUE)
    \/ /\ ~Acceptable /\ Publish(FALSE) /\ Closes(FALSE) /\ UNCHANGED <<mark, durable>>
    \/ /\ CommitFails /\ Publish(FALSE) /\ Closes(FALSE)

RefreshTick == up /\ Refresh /\ UNCHANGED <<disk, up, st, held, pool>>

\* newSecureTCPServer: the lock, then a refresh that must succeed.
StartServer ==
    /\ ~up /\ Acceptable /\ up' = TRUE
    /\ Commits(TRUE) /\ Publish(TRUE) /\ UNCHANGED <<disk, conns>>

\* That refresh fails in its commit, or the process ends there.
StartFails ==
    /\ ~up /\ CommitFails
    /\ UNCHANGED <<disk, up, snapshot, liveGen, lastReg, granted, conns>>

Stopped ==
    /\ up' = FALSE /\ snapshot' = None /\ liveGen' = 0 /\ lastReg' = None
    /\ st' = [c \in Conn |-> "none"] /\ held' = [c \in Conn |-> None]
    /\ active' = {} /\ gone' = {} /\ pool' = {}

\* close, or the process ends, possibly inside a commit.
StopServer ==
    /\ up /\ Stopped
    /\ UNCHANGED <<mark, durable>> \/ CommitFails
    /\ UNCHANGED <<disk, granted>>

\* A power loss, possibly inside a commit: a rename that was not synced may be lost.  The
\* history keeps the registries that every watermark the disk may hold covers.
PowerLoss ==
    /\ Stopped /\ mark' \in durable \cup (IF up /\ Acceptable THEN {registry} ELSE {})
    /\ durable' = {mark'} /\ granted' = {r \in granted : \A m \in durable : r.gen <= m.gen}
    /\ UNCHANGED disk

-----------------------------------------------------------------------------
(* handle: one connection.                                                 *)

Handshaking == {c \in Conn : st[c] \notin {"none", "live"}}
Goto(c, s) == st' = [st EXCEPT ![c] = s] /\ UNCHANGED <<active, gone, pool>>

\* Accept, the semaphore, and GetConfigForClient's refresh.
Accept(c) ==
    /\ up /\ st[c] = "none" /\ Cardinality(Handshaking) < MaxHandshakes
    /\ Refresh
    /\ st' = [st EXCEPT ![c] = IF snapshot' = None THEN "none" ELSE "config"]
    /\ UNCHANGED <<disk, up, held, pool>>

\* GetConfigForClient reads the snapshot that is current by then.
GetConfig(c) ==
    /\ st[c] = "config"
    /\ Goto(c, IF snapshot = None THEN "none" ELSE "verify")
    /\ held' = [held EXCEPT ![c] = snapshot]
    /\ UNCHANGED <<disk, policy>>

\* VerifyConnection, against the policy the handshake was given.
VerifyConnection(c) ==
    /\ st[c] = "verify"
    /\ Goto(c, IF AuthorizeSecureEgress(held[c], c) THEN "hello" ELSE "none")
    /\ held' = [held EXCEPT ![c] = None]
    /\ UNCHANGED <<disk, policy>>

OpenOf(e) == {d \in active \ gone : EgressOf[CredOf[d]] = e}
WithinLimits(c) ==
    /\ Cardinality(OpenOf(EgressOf[CredOf[c]])) < MaxPerEgress
    /\ Cardinality(active) < MaxActive

\* The check after the hello line, under the lock.
FirstCheck(c) ==
    /\ st[c] = "hello"
    /\ Goto(c, IF AuthorizeSecureEgress(snapshot, c) /\ WithinLimits(c) THEN "ack" ELSE "none")
    /\ UNCHANGED <<disk, policy, held>>

\* Mutant: a connection that passed the first check is admitted.
AdmitChecked(c) ==
    /\ st[c] = "ack" /\ WithinLimits(c)
    /\ st' = [st EXCEPT ![c] = "added"] /\ active' = active \cup {c}
    /\ UNCHANGED <<disk, policy, held, gone, pool>>

\* The acknowledgement is written without the lock; the check is repeated with
\* it before the session is added.
Admit(c) ==
    /\ st[c] = "ack"
    /\ LET ok == AuthorizeSecureEgress(snapshot, c) /\ WithinLimits(c)
       IN  /\ st' = [st EXCEPT ![c] = IF ok THEN "added" ELSE "none"]
           /\ active' = IF ok THEN active \cup {c} ELSE active
    /\ UNCHANGED <<disk, policy, held, gone, pool>>

\* manager.set, and the semaphore is released.
SetPool(c) ==
    /\ st[c] = "added" /\ st' = [st EXCEPT ![c] = "live"] /\ pool' = pool \cup {c}
    /\ UNCHANGED <<disk, policy, held, active, gone>>

\* The handshake fails or times out, the peer goes away.
Fails(c) ==
    /\ st[c] \in {"config", "verify", "hello", "ack"} /\ Goto(c, "none")
    /\ held' = [held EXCEPT ![c] = None] /\ UNCHANGED <<disk, policy>>

PeerCloses(c) ==
    /\ c \in Session \ gone /\ gone' = gone \cup {c}
    /\ UNCHANGED <<disk, policy, st, held, active, pool>>

\* session.CloseChan, clearCurrent, delete.
HandlerEnds(c) ==
    /\ st[c] = "live" /\ c \in gone /\ st' = [st EXCEPT ![c] = "none"]
    /\ active' = active \ {c} /\ pool' = pool \ {c} /\ gone' = gone \ {c}
    /\ UNCHANGED <<disk, policy, held>>

Handler(c) ==
    \/ GetConfig(c) \/ VerifyConnection(c) \/ FirstCheck(c) \/ Admit(c) \/ SetPool(c)
    \/ HandlerEnds(c)

Next ==
    \/ \E r \in Registries : Install(r)
    \/ \E f \in File : FileChanges(f)
    \/ Tick \/ InitializeSecureRegistry \/ StartServer \/ StartFails \/ StopServer \/ PowerLoss \/ RefreshTick
    \/ \E c \in Conn : Accept(c) \/ Handler(c) \/ Fails(c) \/ PeerCloses(c)

Spec == Init /\ [][Next]_vars

\* The ticker refreshes and handlers run; a stopped server need not come back.
FairSpec == Spec /\ WF_vars(RefreshTick) /\ \A c \in Conn : WF_vars(Handler(c))

-----------------------------------------------------------------------------
Open(c) == c \in Session \ gone

\* Every open session's credential is active in the policy the server holds, and
\* without a policy there is no session: no revocation that falls between the
\* steps of an admission lets a late session in (handle, refresh).
OpenSessionsAuthorized ==
    \A c \in Conn : Open(c) => snapshot # None /\ CredOf[c] \in Active(snapshot)

\* An egress never has more than secureMaxSessionsPerEgress open sessions, however
\* many of its connections pass the first check together (handle).
SessionsBounded ==
    \A c \in Conn : Cardinality(OpenOf(EgressOf[CredOf[c]])) <= MaxPerEgress

\* No published registry is older than one published before, nor a changed one of the
\* same generation (refresh, commitSecureWatermark): not by a refresh, not by a restart, and
\* not by a process that ends inside a commit or a sync that fails.  After a power loss it
\* holds for every registry published under a watermark whose directory was synced.
NoRollback ==
    /\ \A r, s \in granted : r.gen = s.gen => r = s
    /\ snapshot # None => \A r \in granted : r.gen <= snapshot.gen

\* "The watermark is committed before authorization is published, so restart cannot accept
\* an older grant": whatever ends the Hub, the watermark it finds covers what it published.
\* The code does not give this: a sync that failed is not tried again, and the registry is
\* published at the next refresh under a watermark that a power loss may take back.
PublishedStaysMarked == [][\A r \in granted : r.gen <= mark'.gen]_vars

\* Two credentials of an egress are never both usable for longer than
\* secureMaxOverlap under an accepted registry (validateSecureRegistry).
OverlapBounded ==
    \A k, l \in Active(snapshot) : k # l /\ EgressOf[k] = EgressOf[l] =>
        Cardinality({t \in 0..MaxNow :
            \A m \in {k, l} : snapshot.cred[m].nb <= t /\ t < snapshot.cred[m].exp}) <= MaxOverlap

\* A session whose credential the operator's files no longer authorize, or whose
\* validity has ended, is closed by a refresh (refresh's loop over s.active).
RevokedSessionsClose ==
    \A c \in Conn :
        (Open(c) /\ ~AuthorizeSecureEgress(registry, c)) ~>
            (~Open(c) \/ AuthorizeSecureEgress(registry, c))

\* A session that was closed by a refresh or by its peer, even before it reached
\* the session manager's pool, leaves the pool (handle).
ClosedSessionsLeavePool == \A c \in Conn : c \in gone ~> c \notin pool \cup active
=============================================================================
