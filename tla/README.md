# Verification of daxiang-vpn

TLA+ models of the parts of daxiang-vpn in which concurrency, crashes, time and
lost results decide what the program may promise: the proxy gate and the device
authority that opens it, the device client, the egress server and the phone,
the engine and the system proxy of a client, updates, and the budgets and
older interfaces of the hub. TLC checks eleven of the
models on small instances, in twelve runs. TLAPS proves the safety of these
eleven, and of five models without a run, for all instances. Eight more models have
neither a run nor a theorem, and are listed as such below.

## The system

A **hub** keeps the device authority: an SQLite database of devices, key and
address bindings, operations and their outbox (`hub/internal/deviceauth`),
behind an HTTPS API (`hub/internal/deviceapi`). An executor applies it to the
WireGuard runtime. Customer traffic reaches a proxy (`egress/reverse`) on the
hub's host through **reverse tunnels** to egress agents. The proxy admits a
managed source only while its **gate** (`shared/proxygate`) is open, and the
gate is open only under a short lease that the authority renews over a local
**control channel**, each time after it has proved that the database and the
runtime agree. **Clients** (`clients/cli`) activate a device, bind a key, run a
local engine and lease the system proxy; they also verify updates. The hub has
an older authentication API and an admin panel beside this.

| part | state | operations | what is hard |
| --- | --- | --- | --- |
| gate (`proxygate/gate.go`) | owner, lease end, admissions and their registrations, cleanup task | own, grant, AcquireSource, Reserve, Attach, Abort, two Releases, closeFor, cleanup batch | openings that end after the scope closed; Close without the lock; capacity overflow |
| write fence (`write_fence.go`) | permits, deadline lock, closed, completed | Write, SetDeadline, Close | a permitted update lifting the revocation's deadline; Close joining operations |
| control channel (`control.go`) | session, sequence, lease, registered connection | hello, closed, grant, ack, stop | crash or timeout between command and acknowledgement; stop against a new session |
| authority, desired state (`store.go`, `scheduler.go`) | devices, addresses, bindings, tombstones, operations, outbox | Enroll, Submit, RefreshDeadlines, SweepExpiry | permanence of history; overdue removals block grants |
| authority, execution (`executor.go`) | intents, runtime, fence | Process: claim, snapshot, plan, intents, actions, verify, commit | unknown results, crashes, WireGuard restarts, foreign peers, expiry at any step |
| convergence and service (`proxy_convergence.go`, `deviceapi/service.go`) | proof, lease | Tick, WithProxyConvergence, grantProxy | a stale proof; a Tick longer than the lease |
| credentials (`credentials.go`, `receipts.go`, `resolve.go`) | activations, challenges, credentials, requests, cancellations | Activate, Challenge, SubmitSigned, Rotate, ResolvePending | a cancellation racing the delayed request |
| device client (`clients/cli/internal/deviceclient`) | keys, credential, one pending intent | activate, bind, rotate, recover, cancel-pending | lost replies, crash around each save |
| system proxy lease (`runtime/systemproxy`, `leasecontrol`) | journal, four fields | Acquire, Release, Recover | crash between fields; a foreign writer without compare-and-swap |
| engine runtime (`shared/proxy`) | operation and lifetime locks, record, launch request | launch, activate, stop, Inspect, recover | a process that dies between two files; adopting another launch's engine |
| CLI commands (`clients/cli/internal/app`) | config, key, fingerprint | login, import, start, stop, logout, rotate-ip | a command outside the lock; a fingerprint that outlives its engine |
| desktop GUI (`clients/desktop-gui`) | its lease, its error flag | connect, disconnect, logout, quit, reconcile at start | a lost answer; other callers of the same home |
| update client (`updateclient`, `updateverify`) | registration, floors | enroll, approve, verify | two files; uncertain commits |
| egress (`egress/reverse`) | sessions, slots, striped groups, relays, interface controller | set, clear, preempt, attach lane, replay, probe | replaced sessions, double release, late lanes |
| secure transport (`secure_tcp.go`, `secure_policy.go`) | registry, watermark, sessions | refresh, admit, expire | a rollback after a power loss; admission racing a refresh |
| rotation (`hub/internal/auth`, `android-control`) | lock per egress, radio | reserve, trigger, script, look | a trigger whose answer is lost; a script that runs late |
| legacy bootstrap and its audit (`hub/internal/auth`) | token lease, claims, sinks | claim, apply, roll back, swap sink | concurrent claims rolled back in any order |
| migration observer (`hub/admin`) | runs, facts, inventory | begin, record, close, report | a crash that hides attempts |
| budgets (`httpboundary`, `processbudget`) | tokens, permits, seats | acquire, release, Run | eviction, quarantined seats |

The full list of parts, with those that are not modelled and why, is under
`components` in `PROJECT.json`; the behaviours to guard against are under
`hazards`, each at its line.

## Modules

For each module `map` in `PROJECT.json` gives the lines every definition
translates. An `MC...` module only gives values to constants.

### Withdrawing a device: gate, authority, client

**ProxyBarrier** is the abstract promise of the gate: one owner, open only
under a live lease, and an invalidated scope that drains completely before
anybody owns it again.

**ProxyGate** is the gate as written. Each section under `Gate.mu` is one
action; the physical Close, a late Attach and the cleanup workers are split
where the code drops the lock. `rs` is the attached/aborted/ready state of a
registration, `conn` the phases of the fenced Close, `wk` the progress of the
cleanup batch, `captured` the owner a late Attach read. `act` and `born` are
ghosts that number activations. A registration object nobody refers to is used
again for a later allocation, so that a run is not bounded by the number of
objects. `ReleaseAdmission` waits for the handler's own Track, as in
`handleProxy`. `Expire` is the lease running out.

**WriteFence** is one fenced connection with concurrent writers, deadline
setters, revokers and Close, split at each lock section and each transport
call. `late` is the case in which AttachFenced found the scope closed and never
handed the connection out.

**ProxyControl** is the Controller and the ControlServer over two connections,
with INSTANCE ProxyBarrier as the gate. Time advances in ticks; read deadlines
other than the lease can strike at any moment. The stream is reliable and a
Controller sends one command at a time, so each direction carries at most one
message. Digest, nonce and peer credentials are fixed per connection. A command or
an acknowledgement that does not fit ends the session like a read error; an
acknowledgement repeats the lease end of the command it answers.

**DeviceAuthority** has the tables as variables (an operation is a device and a
generation), one action for every operation that holds the fence, and the phases
of Process. The environment lets validity lapse, lets budgets elapse, crashes
the process, makes results unknown with or without their effect, and restarts
WireGuard with any peers it has had. `drift` is a ghost for the devices not
verified since a restart and `foreign` for a peer that the authority did not
install. Retries that idempotency answers are stutters. Owner checks, quotas and
the epoch do not change and are left out. The check of validity right before an
apply and its effect are one step, so nothing is claimed about the instant of
installation; the expiry that follows is in the model. `Converged` is what
WithProxyConvergence requires of a device.

**GatedService** composes the two ends: `runGated`, its cycles and `grantProxy`
with Tick, convergence proof, grant and the lease of the gate over a clock in
units of the cycle. Reconciling one device is one step: Process to its result, or,
for a device whose validity ends meanwhile, a committed revocation that a later
Tick carries out, perhaps with the peer already applied. The control channel
carries a grant or breaks. A command committed between Tick and the proof, or a
device within the minimal lease of its expiry, fails the proof, and any failure
ends the whole service: it fails closed.

**DeviceCredentials** and **DeviceClient** are the two ends of activation,
rotation, commands, receipts and cancellations, composed in DeviceClient over a
network that loses and delays requests. Every handler is one transaction of the
authority. The client saves its intent before it sends, may die between any two
steps, and a save that reports an error may have reached the disk. A request is
never delivered twice: keep-alives are off, so nothing below the client retries.
The hub keeps negative receipts for good and only so many of them, in all and for
one principal (`WithinQuota`); an apply is of the key the client generated.

### The egress server and the phone

**SessionManager** is the pool of reverse sessions; every step is a critical
section of `manager.mu` or one network operation. A session that failed one
command leaves the pool and is not closed; its streams go on.

**ProxySlots** is the global and the per-client limit on CONNECT tunnels and the
preemption of idle ones. **StripedGroup** is how the phone collects the two lanes
of a striped CONNECT whose commands are late or repeated; `shut` are the streams the
phone has closed itself, and a serving lane whose session ends fails its group,
also in the middle of the relay (`ServingSessionEnds`). The deferred Delete by
identifier (`main.go:2679`, `main.go:2784`) may make the map forget a newer
group, whose own lanes then end it. With three commands for lane 0 the hub may
relay over lanes of two groups that are both alive; TLC finds this, and no document
says otherwise. **StripedRelay** is the download
over the lanes into the hub's reorder buffer. **HandshakeRelay** is the phone's
first-byte watchdog that dials again and replays a ClientHello, in its secure
and its legacy form. **TunnelBind** is the choice of the phone's interface by
several loops with one controller; a loop connected through the fallback stays
there until its session breaks, and a failing `yamux.Client` records nothing.

**SecureTransport** is the authenticated transport: registries accepted in order
under a durable watermark, sessions authorized again at each refresh, and the
admission of a connection in the steps refreshes and crashes interleave with.
`mark` is the visible watermark, `durable` the watermarks a power loss may leave: a
commit whose directory sync fails, or whose process ends before it, leaves the old
and the new one possible. `AuthorizeSecureEgress` keeps of a certificate its
credential and egress; chain, role, validity of the certificate and the state of the
egress are further reasons to refuse, so the model admits more than the code.

**EgressRotation** is the change of the phone's address, by way of the hub (with
its lock per egress) or directly, with the script on the phone that detaches
itself. A busy answer of a lock in state `unknown` says to retry after a second,
for as long as the hub runs: only a restart clears it. A command that was sent may
arrive, and its script run, at any later time. If turning the radio on
fails the script does not retry.

### The client

**SystemProxyLease** is the journal and the four registry fields of the system
proxy, with engines of two homes, an older GUI's leftover, other programs that
write the same fields, and every step able to fail or to be the last of its
process. A live engine of the same home blocks recovery, and a field that
somebody else changed keeps its journal: both are on purpose. A release that names
another lease than the journal changes nothing (`StaleLease`).

**EngineRuntime** is one home: operation lock, lifetime lock, engine record,
launch request, and processes that launch, serve, stop, inspect and recover. A
child does not know the launch it belongs to, so a child of a dead launcher may
become the engine of the next one; it must then run that launch's configuration.
An observer that inspects holds the lifetime lock for a moment and can make a
launching child fail.

**CliCommands** interleaves login, import, start, stop, logout, device start and
rotate-ip over the files they share. An engine that dies between Inspect and the
decision of a command is not the command's fault and is exempt.

**DesktopGui** is the GUI with its lease and its error flag, other callers of the
same home, and CLI commands as steps whose answer can be lost after the effect
(`CmdRuns`) or that never ran (`CmdFails`). A journal of an older GUI may be one that
does not decode.

**UpdateState** is enrolment, approval, verification and the watermark of the
update client, over two files. A version is its rank in the order of **SemVer**,
which translates the comparison next to the precedence SemVer defines. A candidate
stands for its signed bytes. An enrolment that stopped half way is never repaired
and a clock behind the last verification is refused, both by design; what a power
loss leaves and a rollback by the same user are out of scope, as the repository's
own document says.

### The hub

**ProcessBudget** is the runner of subprocesses: seats, a helper that starts the
command, ends its descendants and leaves a receipt, and a monitor. Whoever loses
sight of a command quarantines the seat for the life of the hub; the WireGuard
runner has one seat. **LegacyBootstrap** is the token lease under concurrent
bootstraps that use this runner, with the audit sink's gate. It needs a lease that
outlives a request, while `ZHHUB_TOKEN_LEASE_SECONDS` may be as small as 1 with
requests of 5 s; leases switched off are not modelled. **MigrationObserver** is
the audit of bootstraps: runs, facts, inventory and report. A failed or cancelled
readiness request makes the observer unhealthy for good, and so does any other audit
event that cannot be written (`OtherAuditFails`). A commit may report an error after
it took effect, and a start may fail with its run written or not (`StartFails`).
`opened` is history: some process has opened the database and imported its old rows.

**HttpAdmission** is the admission of requests by source, and **RateBudget** what
it promises: no source and not all together get more than the burst and the rate
allow, although sources are forgotten. The arithmetic of the credits is exact.

## What TLC checks

| run | instance | states | shows |
| --- | --- | --- | --- |
| `proxy_gate` | 2 sessions, 2 admissions with a client and an upstream each, 1 worker, 2 activations | 677,837 | a closed scope is reaped; ProxyGate implements ProxyBarrier; cleanup ends |
| `write_fence` | 2 writers, 2 setters, 2 revokers, 1 Close | 63,979 | Close joins; the revocation's deadline stays; a revoked write ends; Close completes |
| `proxy_control` | 2 connections, clock to 2, 3 commands | 477,876 | work only under the owner's unexpired lease; both ends agree; no owner between sessions; a dead controller loses the gate and its work |
| `device_authority` | 1 device, 2 keys, 1 address, 2 generations, 1 restart, 1 foreign peer | 60,410 | applied means installed; peers are accountable; addresses apart; a withdrawal takes effect; an overdue operation is lifted |
| `lost_ack` | 1 device, 2 generations | | counterexample, see Findings |
| `device_client` | 2 keys, 1 slot, 2 requests, 2 generations, room for 2 negative receipts, 1 per principal | 270,120 | every request has one outcome; the client keeps the keys the hub knows; a discarded intent never commits; the client follows the hub; an unknown outcome is resolved while there is room for its receipt |
| `gated_service` | 2 devices, lease 3, cycle 1, Tick up to 3 | 183,372 | a source that changed is cut off within a lease; no lease beyond a device's validity; the API is ready only when proven |
| `engine_runtime` | 2 launches, 1 lost answer, 1 crash | 2,887,904 | one engine; a ready engine runs its configuration; stopped is stopped |
| `proxy_lease` | 3 engines of 2 homes, 2 fields, 1 foreign write, 1 failure, 4 starts | 397,212 | originals are kept; the journal covers every write; a graceful stop leaves no lease; dead leases are recovered |
| `gui_faults` | 2 lives of the GUI, 2 engines, 2 leases, every fault | 96,835 | the GUI takes only its own lease; a stop leaves nothing; the reconciliation at start settles |
| `secure_transport` | 3 connections, 2 credentials of one egress, 4 registries, clock to 2, 2 operations | 297,810 | open sessions are authorized; no older registry is published; a session that loses its authorization closes |
| `migration_gaps` | 2 attempts of 2 kinds, 2 runs and a dark one, 1 fault, capacity 1 | 8,219,293 | a healthy report is complete; facts are the history |

The bounds reach the interesting cases: two activations give a stale Attach a
later scope to hit; two connections give a controller a successor; two
generations allow an apply and a rotation or a withdrawal, and a restart brings a
removed key back; a second key gives a rotation something to lose; a Tick as long
as the lease lets it lapse; two launches let one adopt the other's child; two
homes let an engine meet a foreign journal; a second run reads what an
interrupted one left. `MaxAdmissions`, `MaxTracked`, the challenge budget and
`Capacity` are small enough to be reached. Larger instances of the authority
(three generations, two devices with one contested address) are covered by the
proofs. Symmetry is used for the two attempts of `migration_gaps` only, where
nothing but safety is checked.

Two instances are smaller than one would like. `proxy_control` stops at clock 2
because its liveness takes too long at 3. `device_client` has two keys, so a
device rotates its credential or binds a WireGuard key, and does not do both in
one behaviour.

Deadlock is not checked where the system may stop: a closed connection
(`write_fence`), an exited server or a clock at its bound (`proxy_control`,
`secure_transport`), a client with nothing left to ask (`device_client`,
`engine_runtime`, `proxy_lease`), and a hub at the bound of its runs
(`migration_gaps`).

In the write fence two mechanisms protect the revocation's deadline: deadlineMu
with the look at the scope before the transport call, and the second look after
it. The second is a reserve: without it the run still holds, because the revoker
waits for deadlineMu and comes last. A scope that lapses and is not yet revoked
is where it changes what the caller is told.

### Fairness

- Gate: goroutines of the gate run; an opening ends in Attach or Abort (all
  callers open with a timeout); a permitted write and a transport Close return.
- Write fence: permit holders run; the cleanup attempts its past deadline; a
  write returns once its deadline is past or its transport is closed, and is
  *not* assumed to return before.
- Control: the server goroutine runs, the clock advances, the gate's cleanup
  ends (which is what `proxy_gate` shows).
- Authority: Tick sweeps expiry and reconciles every device in turn (its cursor
  rotates), and an attempt made again and again succeeds in the end: strong
  fairness of the steps of Process. Without it a permanently failing executor
  would refute any progress. `OverdueIsLifted` exempts a device that has no
  generation left to expire into, a bound of the model.
- Device client: the user repeats cancel-pending, and the network delivers it in
  the end.
- System proxy: the user keeps asking for recovery, and its steps succeed in the
  end.
- GUI: its own steps and the CLI commands it has started end.
- Secure transport: the refresh loop runs and closing a session ends it.

`WithdrawalTakesEffect` is stated for runtimes without a foreign peer: a foreign
peer with a claimed key blocks even a revocation, on purpose
(`TestRuntimeOwnershipDriftBlocksEvenRevoke`).

### Models without a run

The models below are translated as carefully as the others but belong to none of
the twelve runs. Seven keep a configuration with the properties it checks; TLC
found no error in any of them when they were last run (`tlc -config X.cfg X`).
No mutant is kept for their properties, so nothing here shows that these could
fail.

| configuration | instance | states | properties |
| --- | --- | --- | --- |
| `CliCommands` | 2 contents, 2 ports, no device commands, no faults | 3,543,840 | answers are true; no needless restart |
| `LegacyBootstrap` | 3 requests of 2 sources, lease 2 | 1,108,219 | the lease is the youngest survivor's; one source per lease; started claims stay; the route follows the lease; observed once; a new sink is taken |
| `SessionManager` | 2 sessions, 2 requests | 94,911 | the pool is consistent; counts exact; only the failed session is dropped; a request tries the whole pool and ends |
| `StripedRelay` | 2 lanes, window 3, 5 chunks | 106,456 | in order, no silent truncation; the relay returns |
| `HandshakeRelay` | legacy form, 3 dials, 4 chunks | 6,966 | one target answers, and has the whole prefix; plain requests are not repeated; no connection is left |
| `HttpAdmission` | 3 sources, table of 2, clock to 5 | 76,817 | implements RateBudget; the advised wait is enough; charged to the peer |
| `TunnelBind` | 3 loops | 201,088 | one probe at a time; falls back; returns |

StripedRelay's reorder window of 8 MiB can be exceeded when chunk sizes
alternate; the fit of slow lanes is stated for uniform sizes only. `SemVer` has
its reference definition of precedence and no configuration.

ProcessBudget, EgressRotation, UpdateState, ProxySlots and StripedGroup have no
run either: their safety is proved (below), their liveness properties
(`ProcessesEnd`, `CallsReturn`, `RadioReturns`, `NoOrphanLane`, `LateLanesEnd`)
are stated and not covered. The same goes for other properties that modules
define beside the ones in the runs: they say what was asked during the
development and are no claim of this project. About 9,200 source lines, 27% of
the implementation, belong to a module with a run or a theorem; the whole map
covers about 30%.

## What is proved

Sixteen models have theorems that hold for every value of the constants: every
invariant and every action property of the passing runs, and the safety of five
models without a run. The proofs are in eight modules. A module EXTENDS the models
that have a run; the definitions of WriteFence, EngineRuntime and DesktopGui that
would clash with those of the model beside them carry `Fence`, `Runtime` or `Gui`
in front (`FenceSpec` is the specification of WriteFence). A model without a run is
a named INSTANCE whose state is declared in its part of the module: `Egress!Spec` is
the specification of EgressRotation, untouched. The conditions on the constants of
such a model are hypotheses of its theorems.

| module | models |
| --- | --- |
| ProxyGateProofs | ProxyGate, WriteFence; EgressRotation as `Egress` |
| ProxyControlProofs | ProxyControl; StripedGroup as `Stripes` |
| DeviceAuthorityProofs | DeviceAuthority |
| GatedServiceProofs | EngineRuntime, GatedService |
| DeviceClientProofs | DeviceClient with DeviceCredentials; UpdateState as `Updates` |
| SystemProxyLeaseProofs | SystemProxyLease, DesktopGui |
| SecureTransportProofs | SecureTransport; ProxySlots as `Slots` |
| MigrationObserverProofs | MigrationObserver; ProcessBudget as `Budget` |

Each proof goes by an inductive invariant (`IInv`, in an instance's part with its
name in front) that TLC checked on the run's instance first. What it adds to the
property is the argument:

**ProxyGate**: type correctness, `IInv`, `ClosedMeansReaped`,
`OnlyCurrentActivation`, `StaleAttachIsHarmless`, the action property
`QuarantineIsReapedByWorker`, and that ProxyGate implements ProxyBarrier.
Assumptions: the empty owner is no session, each registration has one admission,
each admission one client registration, and the limits are natural numbers.
`ClosedMeansReaped` is not inductive: nothing in it says that the cleanup task
knows every open connection. `IInv` adds, in this order: the batch of the task is
exactly what is held while it runs (`BatchIsHeld`); the maps nest and no
admission outside cleanup is empty (`MapsNest`); a scope with admissions is owned
or being cleaned up (`ScopeOwned`); a registration is held until its opening has
ended, its connection is closed and its writes have returned
(`HeldUntilReaped`); and what is held was reserved in the current activation
(`HeldIsCurrent`). A scope that is closed then has no cleanup and no owner, so no
admissions, so nothing held, so nothing open.

**WriteFence**: `CompletedIsJoined` and `RevokedDeadlineStays`, if the callers of
the three kinds are apart (`CallerAssumption`). The invariant adds who may hold which
permit (`Roles`, `OneEach`), how far Close has come (`Closing`), that a connection
never handed out has idle setters, and that an attempted revocation is either
final or followed by a revoker on its way.

**ProxyControl**: `NoOwnerBetweenSessions`, `LeaseIsControllers`,
`LeaseAgreement`. The last is about two ends that never look at each other. The
invariant follows a lease end from the request to the gate and back: a session
that has not greeted is untouched and a command is handled only while its
controller waits (`Turns`), the two directions of a connection are never in use
together (`Wire`), and what the server is about to confirm, what is on the wire
and what the controller took from it are the end in the gate (`Agreed`).
Assumptions: the empty owner is no connection, and bounds are natural numbers.

**DeviceAuthority**: `AppliedIsInstalled`, `PeersAreAccountable`,
`AddressesStayApart`, and the action properties `ForeignPeersUntouched`,
`RevokedNeverInstalled` and `HistoryIsPermanent`, for any number of devices, keys,
addresses, generations and restarts. That the addresses of two devices stay apart
rests on the theorem alone, since the run has one device. The invariant adds the
bookkeeping of the tables (`Ledger`), what the phase of the running task knows
(`Tasks`), that every peer is the authority's, foreign or accounted for (`Ours`),
and which generation a device's tables speak about (`Fresh`).

**GatedService**: `StaleSourceIsCutOff`, `LeaseWithinValidity`,
`ReadyOnlyWhenProven`. The bound is an invariant about a sum: how long a source
has been stale plus what is left of the lease never exceeds the lease and, after a
restart of WireGuard, the time of one proof (`Outlived`). A new grant keeps it
because between proof and grant only a restart can bring a peer back, and that
peer is no older than the proof (`Granting`). Assumptions: finitely many devices,
natural bounds, a positive lease and interval.

**DeviceClient**: `OneOutcome`, `DiscardedNeverCommits`, `HoldsItsKeys`,
`ClientFollowsHub`. Everything rests on one fact about delay: a mutation under way
that could still be committed is the pending one (`Flight`). It holds because
intents are saved before they are sent, and request IDs and keys are drawn once
(`Unique`), so that an older copy finds its request already decided (`Log`). With
it a commit finds the disk ready for it (`Fitting`), and credentials form a chain
that ends in the disk or in its pending rotation (`Chain`). Assumption: the names
for "no key" and "no request" are not keys or requests.

**SystemProxyLease**: `JournalCoversWrites`, `OriginalsKept`,
`GracefulStopLeavesNoLease`, and `OnlyFreshRacesLost`, that another program's
value is overwritten only in the race the code names. The invariant says what the
transaction in progress knows of its journal (`Journalled`), that a restoration
leaves no field of ours behind it (`Restoring`), that a running owner of the
journal has its claim or is about to (`Obliged`), and that a field about to be
written was read or has been raced (`Raced`). Assumptions: there is a field, and
an engine is neither the user nor another program.

**DesktopGui**: `TakesOnlyItsOwn` and `StopLeavesNothing`, for any number of lives
of the GUI and any faults. The leases of a home are numbered; a lease with the
number the GUI remembers, or is about to, was created by its own session
(`Remembers`), however many answers were lost.

**EngineRuntime**: `OneEngine`, `ReadyRunsItsConfiguration`, `StoppedIsStopped`,
`FailedStartNotReady` and `RecoveryAlone`, if at least one launch is possible. The
lifetime lock excludes engines, Inspects and recoveries from each other
(`Locked`), so the record is the holder's until it takes it back (`Published`); a
request is on disk only during its start unless a process died (`Launching`); and
a child past its request was launched for what it read (`Bound`).

**SecureTransport**: `OpenSessionsAuthorized`, `SessionsBounded` and `NoRollback`.
The visible watermark is among those a power loss may leave and is above
everything published (`Watermark`). A power loss may take back a watermark that
was not synced, and what was published under it then leaves the account: that it
stays covered is what the comment in the code says and fails (see Findings).
Assumptions: finitely many connections, natural generations and limit.

**MigrationObserver**: `HealthyMeansComplete` and `FactsAreTheHistory`. An attempt
that was settled and not recorded belongs to a run that did not end cleanly, or
has poisoned the current one (`Observed`), and so does everything a snapshot found
missing (`Asked`); a healthy report excludes both. That facts are the history is
an invariant about a cardinality, with the rows an older database brings counted
once, when it is opened first, and an attempt once also when its commit reported an
error (`Opened`, `History`). Assumptions: finitely many
attempts, and no empty inventory, which `DecodeInventory` refuses
(`hub/admin/internal/db/campaign.go:72`).

**ProcessBudget**: "before start" is a proof that the command never ran; a
free seat is quiet, so at most `Seats` commands are alive; a success is complete;
only an unknown answer costs a seat. The invariant relates, call by call, the
answer, the helper's receipt and the seat (`Below`, `Proof`, `Seated`).

**EgressRotation**: the hub grants a rotation only while every earlier one of its
life that can still act on the phone was acknowledged and has outlived its down time
and the margin of the lock (`FreeMeansOverdue`); one that is on its way, or whose
outcome is unknown, is never overtaken. An acknowledged script that the phone runs
late can be: nothing bounds that delay. Once the radio obeyed, the address reported as
the new one was assigned after the old one (`AfterIsAfter`). Positive down and wait
times are assumed and nothing about the margin, which
`ZHHUB_ROTATE_LOCK_EXTRA_SECONDS` may set to 0. TLC checked both beforehand on
instances of 26,732,904 and 10,341,050 states, too large for a run.

**UpdateState**: the client never calls its own state corrupt, a reported
candidate stays covered by the watermark, nothing of it is ever taken back, and
the candidate on the watermark is accepted again. The invariant adds what the
running command holds (`Control`, `Held`) and that the stored state is one load
accepts (`Sound`).

**ProxySlots**: the counters equal the slots although a preempted slot is
released twice, and the limits bound the open tunnels. The invariant is stated
over the counters as a value, so that one lemma covers each change of a slot.

**StripedGroup**: when all handlers have ended nothing is left on the phone, and a
failed group holds no target but while its primary lane is about to notice, also
when lanes were shut in the middle of their relay. The invariant says where each
handler stands (`Where`), who is attached (`Lanes`) and who will still delete or
close what a group keeps (`Kept`).

The last five state the conditions on their constants as hypotheses. What stays
with TLC: the liveness properties of the runs, which need fairness and ENABLED and
are outside the reach of the prover, and the models without a theorem named above,
some of which recurse over data, where the prover has no induction.

## What is not modelled

- Gate: sources outside the managed scope, which pass without it, and Untrack,
  which has no caller.
- Control channel: malformed, replayed or foreign messages, which end the
  session like a read error, and steps of the wall clock.
- Authority: more than one foreign peer, corrupted tables, the order in which a
  plan's removals run (the model allows any), quotas and normalisation.
- Device client: status, and an explicit apply of a foreign key.
- Rotation: the reboot by the phone's watchdog. Rotations of an earlier life of the
  hub go on in the model and are outside `FreeMeansOverdue`: a restart forgets the
  lock.
- Bootstrap: more than one token, leases switched off. A bootstrap without a key
  that follows one with the client's key returns the record's key while WireGuard
  routes to the client's.
- Migration: the strict decoding of an inventory and a replaced sink.
- Admission: the rounding of `Retry-After`. In the sweep the test for a full
  bucket is redundant as long as `IdleTTL >= Burst * Every`.
- CLI: rotate-ip generates its key outside the lock; `start --port` after the
  import of a manual configuration drops its private key. Both are in the model
  as the code has them.
- GUI: a CLI command is one step; status polling and tray are left out.
- Cryptography, yamux, sing-box, SQLite and WireGuard appear as what the code
  expects of them. Codecs, parsers, generated code, scripts, the Python SDK and
  the two status apps keep no protocol state. Each part is listed under
  `components` in `PROJECT.json` with the reason.

## Findings

**A lost confirmation blocks the convergence proof** (run `lost_ack`,
`executor.go:306`). An action takes effect and its result is lost (crash,
timeout, or a failure of a later action). The retry of the operation finds the
peer as desired, plans nothing for it, and at commit marks verified only the
intents that carry its own fence. The operation is done and the device applied,
but the older intent stays `prepared`, and WithProxyConvergence
(`proxy_convergence.go:170`) refuses the device until a new generation is
submitted. The design note says the intent serves to converge exactly such an
action. `TestPartialRotationAndLostResultRecoverFromDurableIntent` covers the
retry and not the proof that follows it.

The following disagreements between the code and its documents were found with
TLC during the development. They have no run here; the property that fails is
named and still defined in the module.

- `RefusalPreemptsNothing` (ProxySlots, `egress/reverse/main.go:1972`): a slot is
  preempted for the global limit before the client's own limit is looked at, so
  a CONNECT can end an idle tunnel of another client and still get 429.
  `egress/reverse/README.md:177` says 429 comes only when nothing qualifies for
  preemption.
- `OnlyIdlePipesPreempted` (ProxySlots, `main.go:1955`): attach publishes the
  closer before it stores `lastActive`; in between a tunnel that has just begun
  to pipe counts as idle since it was acquired.
- `PrimaryIsProbed` (TunnelBind, `main.go:2402`): a probe happens only when some
  loop dials; once all loops hold sessions over the fallback nobody probes the
  primary interface. `android-egress-polish-plan.md:249` says it is probed every
  minute.
- `PublishedStaysMarked` (SecureTransport, `secure_policy.go:343`): the commit
  returns early when the visible watermark already names the generation, although
  an earlier directory sync may have failed: the registry is published, and a
  power loss can bring the older watermark back. The comment at line 320 says a
  restart cannot accept an older grant.
- `LegacyIsLegacy` (EngineRuntime, `shared/proxy/control.go:336`): a process that
  dies between the removal of the engine record and of the PID file leaves a home
  that every later Inspect refuses as an older engine's.
  `client-runtime-safety-contract.md:27` says such remains are reclaimed.
- `OrderlyStopCloses` (MigrationObserver, `hub/main.go:84`): main handles no
  signal and leaves by `log.Fatalf`, so the deferred close never runs and every
  stop is an unclean one. `migration-inventory.md:52` describes a normal close.
- `AnsweredTruly` with device commands (CliCommands, `app.go:625`): the
  fingerprint of the configuration outlives its engine, and `device start` writes
  none, so `start` can answer "already running" over another engine.
  `client-singleton-plan.md:11` says a changed configuration restarts the proxy.
- `LoggedOutStaysOut` (CliCommands, `app.go:467`): rotate-ip reads and saves the
  configuration without the operation lock, and can bring back the token a logout
  removed meanwhile. `app.go:365` says logout removes it.
- `QuitRestores` (DesktopGui, `src-tauri/src/lib.rs:306`): after a lost answer to
  an acquisition and a second connect, the GUI takes its own lease for another
  caller's and quits without releasing it. `desktop-gui.md:232` says quitting
  restores the system proxy.
