--------------------------- MODULE DeviceAuthority ---------------------------
(***************************************************************************)
(* The persisted device authority of hub/internal/deviceauth: store.go     *)
(* (Enroll, Submit, RefreshDeadlines), executor.go (Process, plan, verify, *)
(* expireLocked, failed, Reconcile) and SweepExpiry of scheduler.go.       *)
(*                                                                         *)
(* Every operation holds the process fence, so all but Process are one     *)
(* step.  Process has several phases under one fence; between them time    *)
(* passes, the process can crash, an external action can fail with or      *)
(* without its effect, and the WireGuard runtime can restart with peers it *)
(* has had before.  The supervisor keeps the fence until an orphaned       *)
(* action has ended, so a crash releases it after the action's effect.     *)
(*                                                                         *)
(* An operation is identified by its device and generation.  A retry that  *)
(* idempotency answers with the recorded operation changes nothing and is  *)
(* a stutter.  Owner checks, quotas and the epoch are constant here.       *)
(***************************************************************************)
EXTENDS Naturals, FiniteSets

CONSTANTS Device, Key, Address, None,
          MaxGeneration, MaxRestarts   \* bounds

ASSUME NoneAssumption == None \notin Device \cup Key \cup Address
ASSUME BoundAssumption == MaxGeneration \in Nat /\ MaxRestarts \in Nat

VARIABLES
    state, gen, applied, cur,   \* deviceauth_devices
    lapsed,       \* devices whose valid_until has passed
    reserved,     \* deviceauth_addresses: address -> device
    bdev, baddr, created, revoked, removed, bapplied,   \* deviceauth_bindings
    verified,     \* keys whose tombstone has verified_at
    action, outbox,    \* deviceauth_operations and its outbox, by device and generation
    intents, prepared, \* deviceauth_intents, and those in state 'prepared'
    late,         \* operations whose deadline, and tombstone budget, has passed
    runtime,      \* WireGuard: the allowed address of a key
    foreign,      \* ghost: keys of peers that are not the authority's
    restarts,     \* ghost: runtime restarts so far
    drift,        \* ghost: devices not verified since the last restart
    pc, pdev, before, todo, planned   \* Process: phase, device, snapshot, actions

devices == <<state, gen, applied, cur, lapsed, reserved>>
bindings == <<bdev, baddr, created, revoked, removed, bapplied, verified>>
jobs == <<action, outbox, intents, prepared, late>>
world == <<runtime, foreign, restarts, drift>>
proc == <<pc, pdev, before, todo, planned>>
vars == <<devices, bindings, jobs, world, proc>>

Generation == 1..MaxGeneration
Op == Device \X Generation
Current(d) == <<d, gen[d]>>
BindingsOf(d) == {k \in Key : bdev[k] = d}
Present(r) == {k \in Key : r[k] # None}
Unfinished == {"pending", "degraded"}
Expired(d) == state[d] = "active" /\ d \in lapsed
FenceFree == pc = "idle"

Init ==
    /\ state = [d \in Device |-> "none"]
    /\ gen = [d \in Device |-> 0] /\ applied = [d \in Device |-> 0]
    /\ cur = [d \in Device |-> None] /\ lapsed = {}
    /\ reserved = [a \in Address |-> None]
    /\ bdev = [k \in Key |-> None] /\ baddr = [k \in Key |-> None]
    /\ created = [k \in Key |-> 0] /\ revoked = [k \in Key |-> 0]
    /\ removed = [k \in Key |-> 0] /\ bapplied = {} /\ verified = {}
    /\ action = [o \in Op |-> "none"] /\ outbox = [o \in Op |-> "none"]
    /\ intents = {} /\ prepared = {} /\ late = {}
    /\ foreign \in {{}} \cup {{k} : k \in Key}
    /\ \E a \in Address : runtime = [k \in Key |-> IF k \in foreign THEN a ELSE None]
    /\ restarts = 0 /\ drift = {}
    /\ pc = "idle" /\ pdev = None /\ before = runtime /\ todo = {} /\ planned = {}

-----------------------------------------------------------------------------
\* Desired state

Enroll(d) ==
    /\ FenceFree /\ state[d] = "none"
    /\ state' = [state EXCEPT ![d] = "active"]
    /\ UNCHANGED <<gen, applied, cur, lapsed, reserved, bindings, jobs, world, proc>>

\* What a new desired generation does to the history: tombstone and revoke the
\* current binding, supersede older jobs, add the operation and its outbox row.
NewGeneration(d, act, box) ==
    LET g == gen[d] + 1
    IN /\ gen[d] < MaxGeneration
       /\ gen' = [gen EXCEPT ![d] = g]
       /\ revoked' = [k \in Key |->
                        IF bdev[k] = d /\ revoked[k] = 0 THEN g ELSE revoked[k]]
       /\ action' = [action EXCEPT ![<<d, g>>] = act]
       /\ outbox' = [o \in Op |->
                        CASE o = <<d, g>> -> box
                          [] o[1] = d /\ outbox[o] \in Unfinished -> "superseded"
                          [] OTHER -> outbox[o]]

\* A tombstone is committed with the operation of its generation, and has the
\* same budget.
RemovalOverdue(d) ==
    \E k \in BindingsOf(d) \ verified : revoked[k] > 0 /\ <<d, revoked[k]>> \in late

\* An unfinished operation past its deadline, or a tombstone not verified in
\* its budget, blocks every grant.
Overdue(d) ==
    \/ \E o \in late : o[1] = d /\ outbox[o] \in Unfinished
    \/ RemovalOverdue(d)

\* Submit "apply": a key is used once, ever; an address stays with its device.
SubmitApply(d, k, a) ==
    /\ FenceFree /\ state[d] = "active" /\ d \notin lapsed /\ ~Overdue(d)
    /\ bdev[k] = None /\ reserved[a] \in {None, d}
    /\ NewGeneration(d, "apply", "pending")
    /\ reserved' = [reserved EXCEPT ![a] = d]
    /\ bdev' = [bdev EXCEPT ![k] = d] /\ baddr' = [baddr EXCEPT ![k] = a]
    /\ created' = [created EXCEPT ![k] = gen[d] + 1]
    /\ cur' = [cur EXCEPT ![d] = k]
    /\ UNCHANGED <<state, applied, lapsed, removed, bapplied, verified,
                   intents, prepared, late, world, proc>>

\* An overdue apply is refused, and the refusal is persisted on the open jobs.
RefuseOverdue(d) ==
    /\ FenceFree /\ state[d] = "active" /\ d \notin lapsed /\ Overdue(d)
    /\ outbox' = [o \in Op |-> IF o[1] = d /\ outbox[o] \in Unfinished
                               THEN "degraded" ELSE outbox[o]]
    /\ UNCHANGED <<devices, bindings, action, intents, prepared, late, world, proc>>

StateAfter(act) == CASE act = "disable" -> "disabled"
                     [] act = "expire" -> "expired"
                     [] act = "revoke" -> "revoked"

\* Submit of "disable", "expire" or "revoke"; a revoked device stays revoked.
Withdraw(d, act, box) ==
    /\ state[d] # "none"
    /\ act = "expire" => d \in lapsed
    /\ NewGeneration(d, act, box)
    /\ state' = [state EXCEPT ![d] = IF @ = "revoked" THEN @ ELSE StateAfter(act)]
    /\ cur' = [cur EXCEPT ![d] = None]
    /\ UNCHANGED <<applied, lapsed, reserved, bdev, baddr, created, removed, bapplied,
                   verified, intents, prepared, late>>

SubmitWithdraw(d, act) ==
    /\ FenceFree
    /\ Withdraw(d, act, "pending")
    /\ UNCHANGED <<world, proc>>

\* expireLocked submits the expiry and then, in a write of its own, marks it
\* degraded; a crash between the two leaves it pending.
expireLocked(d) ==
    /\ Expired(d)
    /\ \E box \in Unfinished : Withdraw(d, "expire", box)

\* SweepExpiry, or the claim of an operation of a device past its validity.
SweepExpiry(d) ==
    /\ FenceFree
    /\ expireLocked(d)
    /\ UNCHANGED <<world, proc>>

RefreshDeadlines ==
    /\ FenceFree
    /\ outbox' = [o \in Op |->
                    IF outbox[o] = "pending" /\ (o \in late \/ RemovalOverdue(o[1]))
                    THEN "degraded" ELSE outbox[o]]
    /\ UNCHANGED <<devices, bindings, action, intents, prepared, late, world, proc>>

-----------------------------------------------------------------------------
\* Process

EndProcess ==
    /\ pc' = "idle" /\ pdev' = None /\ todo' = {} /\ planned' = {}
    /\ before' = runtime'

\* The claim of an operation that is no longer the latest.
ClaimSuperseded(o) ==
    /\ FenceFree /\ outbox[o] # "none" /\ o # Current(o[1])
    /\ outbox' = [outbox EXCEPT ![o] = "superseded"]
    /\ UNCHANGED <<devices, bindings, action, intents, prepared, late, world, proc>>

\* The claim of the latest operation, done or not.
Claim(d) ==
    /\ FenceFree /\ gen[d] > 0 /\ ~Expired(d)
    /\ outbox' = [outbox EXCEPT ![Current(d)] = "pending"]
    /\ pc' = "snapshot" /\ pdev' = d
    /\ UNCHANGED <<devices, bindings, action, intents, prepared, late, world,
                   before, todo, planned>>

Snapshot ==
    /\ pc = "snapshot" /\ ~Expired(pdev)
    /\ before' = runtime /\ pc' = "plan"
    /\ UNCHANGED <<devices, bindings, jobs, world, pdev, todo, planned>>

HasIntent(k) == \E i \in intents : i[3] = k /\ i[4] = "apply"

\* Mutant: an overlapping peer does not stop the plan.
PlanOverlaps(d) ==
    \E k \in BindingsOf(d) \cap Present(before) :
        (k \notin bapplied /\ ~HasIntent(k)) \/ before[k] # baddr[k]

\* plan: never touch a peer without provenance, or with another address; never
\* apply over a peer that is not one of the device's own revoked ones.
PlanRefused(d) ==
    \/ \E k \in BindingsOf(d) \cap Present(before) :
        (k \notin bapplied /\ ~HasIntent(k)) \/ before[k] # baddr[k]
    \/ /\ cur[d] # None
       /\ \E k \in Present(before) \ {cur[d]} :
            /\ ~(bdev[k] = d /\ revoked[k] > 0)
            /\ before[k] = baddr[cur[d]]

\* Mutant: only keys that were confirmed as applied are removed.
PlanRemovesApplied(d) ==
    {<<"remove", k>> : k \in {j \in BindingsOf(d) \cap Present(before) :
                                revoked[j] > 0 /\ j \in bapplied}}
    \cup {<<"apply", k>> : k \in {cur[d]} \ ({None} \cup Present(before))}

PlanActions(d) ==
    {<<"remove", k>> : k \in {j \in BindingsOf(d) \cap Present(before) : revoked[j] > 0}}
    \cup {<<"apply", k>> : k \in {cur[d]} \ ({None} \cup Present(before))}

\* Mutant: a failed write of the intents is ignored.
PlanWithoutIntents ==
    /\ pc = "plan" /\ ~PlanRefused(pdev) /\ ~Expired(pdev)
    /\ todo' = PlanActions(pdev)
    /\ planned' = {<<pdev, gen[pdev], t[2], t[1]>> : t \in PlanActions(pdev)}
    /\ pc' = "act"
    /\ UNCHANGED <<devices, bindings, jobs, world, pdev, before>>

\* The durable intents precede every action.
Plan ==
    LET d == pdev
        new == {<<d, gen[d], t[2], t[1]>> : t \in PlanActions(d)}
    IN /\ pc = "plan" /\ ~PlanRefused(d) /\ ~Expired(d)
       /\ intents' = intents \cup new /\ prepared' = prepared \cup new
       /\ todo' = PlanActions(d) /\ planned' = new
       /\ pc' = "act"
       /\ UNCHANGED <<devices, bindings, action, outbox, late, world, pdev, before>>

\* The executor's effect for the next action: removals come first.
Effect(t) ==
    /\ pc = "act" /\ t \in todo
    /\ t[1] = "apply" => ~Expired(pdev) /\ \A u \in todo : u[1] # "remove"
    /\ runtime' = [runtime EXCEPT ![t[2]] = IF t[1] = "apply" THEN baddr[t[2]] ELSE None]

\* Validity is checked again after every action.
Act(t) ==
    /\ Effect(t)
    /\ todo' = todo \ {t}
    /\ pc' = IF Expired(pdev) THEN "expired" ELSE pc
    /\ UNCHANGED <<devices, bindings, jobs, foreign, restarts, drift, pdev, before, planned>>

\* Mutant: the removals are not verified.
VerifiedCurrent(d) ==
    /\ cur[d] # None => runtime[cur[d]] = baddr[cur[d]]
    /\ \A k \in Key \ BindingsOf(d) : runtime[k] = before[k]

\* verify: revoked keys gone, the current key installed, all others untouched.
Verified(d) ==
    /\ \A k \in BindingsOf(d) : revoked[k] > 0 => runtime[k] = None
    /\ cur[d] # None => runtime[cur[d]] = baddr[cur[d]]
    /\ \A k \in Key \ BindingsOf(d) : runtime[k] = before[k]

Verify ==
    /\ pc = "act" /\ todo = {} /\ ~Expired(pdev) /\ Verified(pdev)
    /\ pc' = "commit" /\ drift' = drift \ {pdev}
    /\ UNCHANGED <<devices, bindings, jobs, runtime, foreign, restarts,
                   pdev, before, todo, planned>>

\* Mutant: the tombstones of the removed keys are not closed.
CommitKeepsTombstones ==
    LET d == pdev
    IN /\ pc = "commit"
       /\ applied' = [applied EXCEPT ![d] = gen[d]]
       /\ removed' = [k \in Key |->
                        IF bdev[k] = d /\ revoked[k] > 0 THEN gen[d] ELSE removed[k]]
       /\ bapplied' = bapplied \cup ({cur[d]} \ {None})
       /\ prepared' = prepared \ planned
       /\ outbox' = [outbox EXCEPT ![Current(d)] = "done"]
       /\ UNCHANGED <<state, gen, cur, lapsed, reserved, bdev, baddr, created, revoked,
                      verified, action, intents, late, world>>
       /\ EndProcess

Commit ==
    LET d == pdev
    IN /\ pc = "commit"
       /\ applied' = [applied EXCEPT ![d] = gen[d]]
       /\ removed' = [k \in Key |->
                        IF bdev[k] = d /\ revoked[k] > 0 THEN gen[d] ELSE removed[k]]
       /\ bapplied' = bapplied \cup ({cur[d]} \ {None})
       /\ verified' = verified \cup {k \in BindingsOf(d) : revoked[k] > 0}
       /\ prepared' = prepared \ planned
       /\ outbox' = [outbox EXCEPT ![Current(d)] = "done"]
       /\ UNCHANGED <<state, gen, cur, lapsed, reserved, bdev, baddr, created, revoked,
                      action, intents, late, world>>
       /\ EndProcess

\* An observed expiry becomes a new desired generation.
ProcessExpires ==
    /\ pc \in {"snapshot", "plan", "act", "expired"}
    /\ pc = "plan" => ~PlanRefused(pdev)
    /\ expireLocked(pdev)
    /\ UNCHANGED world
    /\ EndProcess

\* failed(): a refused plan, an unknown result or a failed verification.
Fail ==
    /\ outbox' = [outbox EXCEPT ![Current(pdev)] =
                    IF @ \in {"done", "superseded"} THEN @ ELSE "degraded"]
    /\ UNCHANGED <<devices, bindings, action, intents, prepared, late,
                   foreign, restarts, drift>>
    /\ EndProcess

PlanFails ==
    /\ pc = "plan" /\ PlanRefused(pdev)
    /\ UNCHANGED runtime /\ Fail

VerifyFails ==
    /\ pc = "act" /\ todo = {} /\ ~Expired(pdev) /\ ~Verified(pdev)
    /\ UNCHANGED runtime /\ Fail

\* A snapshot, a database write or the action's deadline fails.
StepUnknown ==
    /\ pc \in {"snapshot", "plan", "act", "commit"}
    /\ pc = "snapshot" => ~Expired(pdev)
    /\ UNCHANGED runtime /\ Fail

\* An action reports failure, or a timeout, after its effect.
ActUnknown(t) ==
    /\ Effect(t) /\ ~Expired(pdev)
    /\ Fail

\* A crash loses the process; the database and the runtime stay.  The same
\* happens when the write that records a failure fails.
Crash ==
    /\ ~FenceFree
    /\ UNCHANGED <<devices, bindings, jobs, world>>
    /\ EndProcess

-----------------------------------------------------------------------------
\* The environment

Lapse(d) ==
    /\ state[d] # "none" /\ d \notin lapsed
    /\ lapsed' = lapsed \cup {d}
    /\ UNCHANGED <<state, gen, applied, cur, reserved, bindings, jobs, world, proc>>

\* A revocation budget passes: everything committed so far is past its deadline.
BudgetElapses ==
    /\ late' = {o \in Op : outbox[o] # "none"}
    /\ late' # late
    /\ UNCHANGED <<devices, bindings, action, outbox, intents, prepared, world, proc>>

\* WireGuard restarts from an old configuration: the foreign peers, and any of
\* the authority's peers that it has had.
RuntimeRestart ==
    /\ restarts < MaxRestarts
    /\ \E back \in SUBSET (Present(runtime) \cup bapplied) :
        runtime' = [k \in Key |-> IF k \in foreign THEN runtime[k]
                                  ELSE IF k \in back THEN baddr[k] ELSE None]
    /\ restarts' = restarts + 1 /\ drift' = Device
    /\ UNCHANGED <<devices, bindings, jobs, foreign, proc>>

ProcessStep ==
    \/ Snapshot \/ Plan \/ Verify \/ Commit \/ ProcessExpires \/ PlanFails \/ VerifyFails
    \/ \E t \in todo : Act(t)

Next ==
    \/ \E d \in Device :
        \/ Enroll(d) \/ RefuseOverdue(d) \/ SweepExpiry(d) \/ Claim(d) \/ Lapse(d)
        \/ \E k \in Key, a \in Address : SubmitApply(d, k, a)
        \/ \E act \in {"disable", "expire", "revoke"} : SubmitWithdraw(d, act)
    \/ \E o \in Op : ClaimSuperseded(o)
    \/ RefreshDeadlines \/ ProcessStep \/ StepUnknown
    \/ \E t \in todo : ActUnknown(t)
    \/ Crash \/ BudgetElapses \/ RuntimeRestart

Spec == Init /\ [][Next]_vars

\* The scheduler's Tick: a sweep, then every device is reconciled in turn.  The
\* process makes progress, and an attempt that is made again and again succeeds
\* in the end: executor, database and process do not fail for ever.
Fairness ==
    /\ \A d \in Device : WF_vars(SweepExpiry(d)) /\ SF_vars(Claim(d))
    /\ \A d \in Device : SF_vars(pdev = d /\ ProcessStep)
    /\ \A d \in Device : SF_vars(pdev = d /\ Plan)
    /\ \A d \in Device : SF_vars(pdev = d /\ (\E t \in todo : Act(t)))
    /\ \A d \in Device : SF_vars(pdev = d /\ Verify)
    /\ \A d \in Device : SF_vars(pdev = d /\ Commit)

FairSpec == Spec /\ Fairness

-----------------------------------------------------------------------------
\* Properties

TypeOK ==
    /\ state \in [Device -> {"none", "active", "disabled", "expired", "revoked"}]
    /\ gen \in [Device -> 0..MaxGeneration] /\ applied \in [Device -> 0..MaxGeneration]
    /\ cur \in [Device -> Key \cup {None}] /\ lapsed \subseteq Device
    /\ reserved \in [Address -> Device \cup {None}]
    /\ bdev \in [Key -> Device \cup {None}] /\ baddr \in [Key -> Address \cup {None}]
    /\ created \in [Key -> 0..MaxGeneration] /\ revoked \in [Key -> 0..MaxGeneration]
    /\ removed \in [Key -> 0..MaxGeneration]
    /\ bapplied \subseteq Key /\ verified \subseteq Key
    /\ action \in [Op -> {"none", "apply", "disable", "expire", "revoke"}]
    /\ outbox \in [Op -> {"none", "pending", "degraded", "done", "superseded"}]
    /\ intents \subseteq Device \X Generation \X Key \X {"apply", "remove"}
    /\ prepared \subseteq intents /\ late \subseteq Op
    /\ runtime \in [Key -> Address \cup {None}] /\ before \in [Key -> Address \cup {None}]
    /\ foreign \subseteq Key /\ restarts \in 0..MaxRestarts /\ drift \subseteq Device
    /\ pc \in {"idle", "snapshot", "plan", "act", "expired", "commit"}
    /\ pdev \in Device \cup {None}
    /\ todo \subseteq {"apply", "remove"} \X Key /\ planned \subseteq intents

\* What the runtime should hold for a device.
Matches(d) ==
    /\ \A k \in BindingsOf(d) : k # cur[d] => runtime[k] = None
    /\ cur[d] # None => runtime[cur[d]] = baddr[cur[d]]

\* "No API reports applied until runtime verification and result commit"
\* (Process): whatever crashed or failed before, a device whose latest
\* generation is reported applied has exactly its current peer, unless
\* WireGuard has restarted since it was last verified.
AppliedIsInstalled ==
    \A d \in Device \ drift : gen[d] > 0 /\ applied[d] = gen[d] => Matches(d)

\* A peer the authority installed never outlives the record of it: every peer
\* that is not foreign has a binding and a durable apply intent, so that plan
\* accepts it and a later generation can remove it.
PeersAreAccountable ==
    \A k \in Present(runtime) \ foreign : HasIntent(k) /\ runtime[k] = baddr[k]

\* An address belongs to one device in the whole history, and two peers share it
\* only as two keys of that device, brought back by a restart: reservations and
\* plan's overlap check keep devices and foreign peers apart, and a rotation
\* removes the old key first.
AddressesStayApart ==
    /\ \A j, k \in Key : bdev[j] # None /\ baddr[j] = baddr[k] => bdev[j] = bdev[k]
    /\ \A j, k \in Present(runtime) :
          j # k /\ runtime[j] = runtime[k] =>
            {j, k} \cap foreign = {} /\ bdev[j] = bdev[k] /\ bdev[j] \in drift

\* plan and verify never touch a peer the authority did not install, even one
\* whose key a device claims.
KeepsForeign == \A k \in foreign : runtime'[k] = runtime[k]

ForeignPeersUntouched == [][KeepsForeign]_vars

\* The executor never installs a key that has been revoked, nor a key of a
\* device that is no longer active: only a restart of WireGuard brings one back.
InstallsCurrent ==
    restarts' = restarts =>
        \A k \in Key : runtime[k] = None /\ runtime'[k] # None =>
            revoked[k] = 0 /\ state[bdev[k]] = "active" /\ cur[bdev[k]] = k

RevokedNeverInstalled == [][InstallsCurrent]_vars

\* "Old keys, even of this device, never resurrect" and "permanent device
\* revocation cannot be weakened": history only grows.
HistoryGrows ==
    /\ \A d \in Device : /\ state[d] = "revoked" => state'[d] = "revoked"
                         /\ state[d] \notin {"none", "active"} => state'[d] # "active"
    /\ \A k \in Key : /\ bdev[k] # None => bdev'[k] = bdev[k] /\ baddr'[k] = baddr[k]
                      /\ revoked[k] > 0 => revoked'[k] = revoked[k] /\ cur'[bdev[k]] # k
    /\ \A a \in Address : reserved[a] # None => reserved'[a] = reserved[a]

HistoryIsPermanent == [][HistoryGrows]_vars

Unauthorised(d) ==
    \/ state[d] \in {"disabled", "expired", "revoked"}
    \/ Expired(d) /\ gen[d] < MaxGeneration

\* A device that is withdrawn, or whose validity ends, eventually has no peer,
\* through failures, crashes and restarts.  A foreign peer with a key the device
\* has claimed blocks even revocation ("blocks even revoke" in the tests), so
\* this is promised where there is none.  (The bound on generations can leave no
\* room to expire, which Unauthorised excludes.)
WithdrawalTakesEffect ==
    foreign = {} => \A d \in Device :
        Unauthorised(d) ~> \A k \in BindingsOf(d) : runtime[k] = None

\* An overdue revocation blocks every grant of the device, but not for ever: a
\* process that verifies the removal and commits lifts the block (ErrOverdue
\* in Submit), through failures, crashes and restarts, where no foreign peer stops it.
OverdueIsLifted ==
    foreign = {} => \A d \in Device :
        Overdue(d) ~> (~Overdue(d) \/ (Expired(d) /\ gen[d] = MaxGeneration))

\* WithProxyConvergence: what it requires of a device before proxy traffic.
Converged(d) ==
    /\ gen[d] = applied[d] /\ ~Expired(d)
    /\ gen[d] > 0 =>
        /\ outbox[Current(d)] = "done"
        /\ (state[d] = "active") <=> (action[Current(d)] = "apply")
    /\ \A i \in prepared : <<i[1], i[2]>> # Current(d)
    /\ \A k \in BindingsOf(d) :
        IF revoked[k] > 0
        THEN runtime[k] = None /\ removed[k] = gen[d] /\ k \in verified
        ELSE /\ state[d] = "active" /\ cur[d] = k /\ k \in bapplied
             /\ created[k] = gen[d] /\ removed[k] = 0 /\ reserved[baddr[k]] = d
             /\ runtime[k] = baddr[k]
    /\ gen[d] > 0 /\ state[d] = "active" => BindingsOf(d) # {}

\* "The intent serves to converge an action that was executed and whose
\* confirmation was lost" (device-auth-foundation.md): an operation that is done
\* on a verified runtime is accepted by the proxy's convergence proof.
DoneIsConverged ==
    \A d \in Device \ drift :
        FenceFree /\ gen[d] > 0 /\ outbox[Current(d)] = "done" /\ ~Expired(d) => Converged(d)
=============================================================================
