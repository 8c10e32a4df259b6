--------------------------- MODULE SystemProxyLease ---------------------------
(***************************************************************************)
(* The lease of the user's system proxy settings (clients/cli runtime:     *)
(* systemproxy.Manager, leasecontrol.Controller; shared/systemproxy: the   *)
(* Windows registry fields, the journal and its lock).                     *)
(*                                                                         *)
(* Several engines, of one or of several homes, share the registry fields  *)
(* of one user and one journal of what to restore.  An engine runs its     *)
(* lease operations one at a time, inside its phase gate; a recovery runs  *)
(* in a CLI process while the engine is dead.  An older desktop GUI may     *)
(* have left a journal of its own (schema 1) at the same path, which only  *)
(* the GUI restores (proxy_journal.rs).  Other programs change the fields  *)
(* at any time, any step may fail, and any process may die.                *)
(***************************************************************************)
EXTENDS Integers, Sequences

CONSTANTS
    Engine,    \* engine instances
    HomeOf,    \* engine -> its home
    N,         \* number of registry fields
    MaxExt,    \* bound: writes of other programs
    MaxFail,   \* bound: failures of a step
    MaxStart   \* bound: operations begun

Field == 1..N
User == "user"      \* what the user had set
Other == "other"    \* what another program wrote
V1 == "v1"          \* the address and the owner name of an older GUI

\* There is a field; the values that are no engine's address are their own.
ASSUME LeaseAssumption == N \in Nat \ {0} /\ Engine \cap {User, Other, V1, "none"} = {}

Absent == [state |-> "absent"]
Partial == [state |-> "partial"]

VARIABLES
    reg,      \* the registry fields; an engine is written for its address
    journal,  \* Absent, Partial (not decodable), or the record
    lock,     \* the process in a transaction, or "free"
    phase,    \* engine -> "off", "ready", "stopped", "dead"
    claim,    \* engine -> Controller.claim is set
    op, e, pc, i, orig,  \* the transaction of the lock's holder
    raced,    \* history: the field others wrote between its last read and our write
    ext, fails, starts

tx == <<op, e, pc, i, orig, raced>>
counts == <<ext, fails, starts>>
vars == <<reg, journal, lock, phase, claim, tx, counts>>

Record(o, f) == [state |-> "record", owner |-> o, original |-> f]
Owned(o) == journal.state = "record" /\ journal.owner = o
Owner == Engine \cup {V1}

TypeOK ==
    /\ reg \in [Field -> Owner \cup {User, Other}]
    /\ journal \in {Absent, Partial} \/ (journal.state = "record" /\ journal.owner \in Owner)
    /\ lock \in {"free", "engine", "cli", "gui"} /\ phase \in [Engine -> {"off", "ready", "stopped", "dead"}]
    /\ claim \in [Engine -> BOOLEAN] /\ op \in {"none", "acquire", "release", "stop", "recover", "legacy"}
    /\ e \in Owner \cup {"none"} /\ i \in 1..(N + 1)
    /\ (lock = "free") = (pc = "idle") /\ (lock = "cli") = (op = "recover")

Idle == pc' = "idle" /\ op' = "none" /\ e' = "none" /\ i' = 1 /\ orig' = <<>> /\ raced' = {}

Init ==
    /\ \/ reg = [f \in Field |-> User] /\ journal = Absent
       \/ \E k \in 0..N : /\ reg = [f \in Field |-> IF f <= k THEN V1 ELSE User]
                          /\ journal = Record(V1, [f \in Field |-> User])
    /\ lock = "free"
    /\ phase = [x \in Engine |-> "off"] /\ claim = [x \in Engine |-> FALSE]
    /\ op = "none" /\ e = "none" /\ pc = "idle" /\ i = 1 /\ orig = <<>> /\ raced = {}
    /\ ext = 0 /\ fails = 0 /\ starts = 0

-----------------------------------------------------------------------------
(* Engines and other programs.                                             *)

\* An engine becomes ready; its home has no other live engine, and no recovery
\* holds the home's lifetime lock.
EngineReady(x) ==
    /\ phase[x] = "off" /\ \A y \in Engine : HomeOf[y] = HomeOf[x] => phase[y] # "ready"
    /\ ~(lock = "cli" /\ HomeOf[e] = HomeOf[x])
    /\ phase' = [phase EXCEPT ![x] = "ready"]
    /\ UNCHANGED <<reg, journal, lock, claim, tx, counts>>

OtherWrites(f) ==
    /\ ext < MaxExt /\ ext' = ext + 1
    /\ reg' = [reg EXCEPT ![f] = Other] /\ raced' = IF pc = "write" /\ f = i THEN {f} ELSE raced
    /\ UNCHANGED <<journal, lock, phase, claim, op, e, pc, i, orig, fails, starts>>

\* A process dies; the lock of its transaction is freed by the system.
EngineDies(x) ==
    /\ phase[x] = "ready" /\ phase' = [phase EXCEPT ![x] = "dead"]
    /\ claim' = [claim EXCEPT ![x] = FALSE]
    /\ IF lock = "engine" /\ e = x THEN lock' = "free" /\ Idle ELSE UNCHANGED <<lock, tx>>
    /\ UNCHANGED <<reg, journal, counts>>

RecoveryDies ==
    /\ lock \in {"cli", "gui"} /\ fails < MaxFail /\ fails' = fails + 1
    /\ lock' = "free" /\ Idle /\ UNCHANGED <<reg, journal, phase, claim, ext, starts>>

-----------------------------------------------------------------------------
(* The end of an operation.                                                *)

\* Mutant: the claim is kept only when the acquisition succeeded.
ClaimOnSuccess(ok, owned) ==
    claim' = IF op \in {"recover", "legacy"} THEN claim ELSE
             [claim EXCEPT ![e] = CASE op = "acquire" -> ok \/ claim[e]
                                    [] op = "release" -> claim[e] /\ ~ok
                                    [] OTHER -> claim[e]]

\* Controller.Action: the engine has a restoration obligation as soon as the
\* acquisition owned a journal, and until a release succeeded.
Claims(ok, owned) ==
    claim' = IF op \in {"recover", "legacy"} THEN claim ELSE
             [claim EXCEPT ![e] = CASE op = "acquire" -> owned \/ claim[e]
                                    [] op = "release" -> claim[e] /\ ~ok
                                    [] OTHER -> claim[e]]

\* requestStop: the engine stops only if BeforeStop succeeded.
Ends(ok, owned) ==
    /\ lock' = "free" /\ Idle /\ Claims(ok, owned)
    /\ phase' = IF op = "stop" /\ ok THEN [phase EXCEPT ![e] = "stopped"] ELSE phase

Quiet == UNCHANGED <<reg, journal, counts>>

\* From the creation of the journal on, the receipt names the owner.
Holds == pc \notin {"load", "read"}

\* A step fails: the operation ends with an error and keeps the journal.
Fails(p) == pc = p /\ fails < MaxFail /\ fails' = fails + 1 /\ UNCHANGED <<ext, starts>>
FailsWith(owned) == Ends(FALSE, op = "acquire" /\ owned)

ReadFails ==
    /\ \E p \in {"load", "read", "pre", "current", "back", "verify", "recheck"} : Fails(p)
    /\ FailsWith(Holds) /\ UNCHANGED <<reg, journal>>

\* Create failed with nothing, a part, or (the sync failed) all of the record.
CreateFails ==
    /\ Fails("create") /\ journal' \in {Absent, Partial, Record(e, orig)}
    /\ FailsWith(TRUE) /\ UNCHANGED reg

\* A write, or the notification, failed.
WriteFails ==
    /\ Fails("write") \/ Fails("notify")
    /\ FailsWith(TRUE) /\ UNCHANGED <<reg, journal>>

\* The fields are restored, the journal could not be removed.
RemoveFails ==
    /\ Fails("done") /\ op # "acquire" /\ FailsWith(FALSE) /\ UNCHANGED <<reg, journal>>

StepFails == ReadFails \/ CreateFails \/ WriteFails \/ RemoveFails

-----------------------------------------------------------------------------
(* Acquire and restore.                                                    *)

\* WithLocked fails at once while another process is in a transaction.
Begin(o, x, who) ==
    /\ lock = "free" /\ starts' = IF who = "engine" THEN starts + 1 ELSE starts
    /\ starts' <= MaxStart /\ lock' = who /\ op' = o /\ e' = x /\ pc' = "load" /\ i' = 1 /\ raced' = {}
    /\ UNCHANGED <<reg, journal, phase, claim, orig, ext, fails>>

Acquire(x) == phase[x] = "ready" /\ Begin("acquire", x, "engine")
Release(x) == phase[x] = "ready" /\ Begin("release", x, "engine")

\* BeforeStop: without a claim the engine stops at once.
Stop(x) ==
    /\ phase[x] = "ready"
    /\ \/ claim[x] /\ Begin("stop", x, "engine")
       \/ /\ ~claim[x] /\ ~(lock = "engine" /\ e = x)
          /\ phase' = [phase EXCEPT ![x] = "stopped"]
          /\ UNCHANGED <<reg, journal, lock, claim, tx, counts>>

\* recoverWithPlatform: an earlier Inspect named an engine of this home, which
\* may be stale by now; WithStoppedEngine holds the home's free lifetime lock.
Recover(x) ==
    /\ phase[x] = "dead"
    /\ \A y \in Engine : HomeOf[y] = HomeOf[x] => phase[y] # "ready"
    /\ Begin("recover", x, "cli")

\* restore_legacy: the GUI restores a journal of its own schema.
RestoreLegacy == Begin("legacy", V1, "gui")

\* decode fails closed on a partial record and on the other program's schema.
Decodes == journal # Partial /\ (journal = Absent \/ journal.owner # V1 \/ op = "legacy")

\* Mutant: the owner of the record is not compared.
LoadAnyOwner ==
    /\ pc = "load" /\ Quiet
    /\ CASE ~Decodes -> Ends(FALSE, FALSE)
         [] journal = Absent /\ op = "acquire" ->
              pc' = "read" /\ orig' = <<>> /\ UNCHANGED <<lock, phase, claim, op, e, i, raced>>
         [] journal = Absent /\ op # "acquire" -> Ends(TRUE, FALSE)
         [] OTHER -> pc' = "pre" /\ UNCHANGED <<lock, phase, claim, op, e, i, orig, raced>>

\* Mutant: an acquisition reads the originals again although it has a journal.
LoadFresh ==
    /\ pc = "load" /\ Quiet
    /\ CASE ~Decodes -> Ends(FALSE, FALSE)
         [] op = "acquire" /\ (journal = Absent \/ Owned(e)) ->
              pc' = "read" /\ orig' = <<>> /\ UNCHANGED <<lock, phase, claim, op, e, i, raced>>
         [] journal = Absent /\ op # "acquire" -> Ends(TRUE, FALSE)
         [] Decodes /\ journal.state = "record" /\ journal.owner # e -> Ends(op \in {"stop", "legacy"}, FALSE)
         [] OTHER -> pc' = "pre" /\ UNCHANGED <<lock, phase, claim, op, e, i, orig, raced>>

\* load, then the owner is compared; an acquisition may create the journal.
Load ==
    /\ pc = "load" /\ Quiet
    /\ CASE ~Decodes -> Ends(FALSE, FALSE)
         [] journal = Absent /\ op = "acquire" ->
              pc' = "read" /\ orig' = <<>> /\ UNCHANGED <<lock, phase, claim, op, e, i, raced>>
         [] journal = Absent /\ op # "acquire" -> Ends(TRUE, FALSE)
         [] Decodes /\ journal.state = "record" /\ journal.owner # e -> Ends(op \in {"stop", "legacy"}, FALSE)
         [] OTHER -> pc' = "pre" /\ UNCHANGED <<lock, phase, claim, op, e, i, orig, raced>>

\* restore: an explicit release names the ID of a lease that is over; the record of
\* the owner's present lease is left alone.
StaleLease == pc = "load" /\ op = "release" /\ Owned(e) /\ Ends(FALSE, FALSE) /\ Quiet

Step(p, n) ==
    /\ pc' = p /\ i' = n /\ UNCHANGED <<lock, phase, claim, op, e>>
Loop(next) == IF i < N THEN Step(pc, i + 1) ELSE Step(next, 1)

ReadOriginal ==
    /\ pc = "read" /\ orig' = Append(orig, reg[i]) /\ Loop("create")
    /\ UNCHANGED raced /\ Quiet

\* store.Create: durable before the first write.
Create ==
    /\ pc = "create" /\ journal' = Record(e, orig) /\ Step("pre", 1)
    /\ UNCHANGED <<reg, counts, orig, raced>>

Target == IF op = "acquire" THEN e ELSE journal.original[i]

\* Mutant: a field that still has its original value counts as a conflict.
KnownWritten(v) == v = e

\* A field is untouched, or written by this lease.
Known(v) == v \in {journal.original[i], e}

Conflict == Ends(FALSE, op = "acquire")

Preflight ==
    /\ pc = "pre" /\ Quiet
    /\ \/ Known(reg[i]) /\ Loop("current") /\ UNCHANGED <<orig, raced>>
       \/ ~Known(reg[i]) /\ Conflict

NextField == IF i < N THEN Step("current", i + 1) ELSE Step("verify", 1)

Current ==
    /\ pc = "current" /\ Quiet
    /\ \/ reg[i] = Target /\ NextField /\ UNCHANGED <<orig, raced>>
       \/ /\ reg[i] # Target /\ Known(reg[i]) /\ Step("write", i)
          /\ raced' = {} /\ UNCHANGED orig
       \/ ~Known(reg[i]) /\ Conflict

Write ==
    /\ pc = "write" /\ reg' = [reg EXCEPT ![i] = Target] /\ Step("back", i)
    /\ UNCHANGED <<journal, counts, orig, raced>>

ReadBack ==
    /\ pc = "back" /\ Quiet
    /\ \/ reg[i] = Target /\ NextField /\ UNCHANGED <<orig, raced>>
       \/ reg[i] # Target /\ Conflict

\* The two verifications, before and after the notification.
Verify(p, next) ==
    /\ pc = p /\ Quiet
    /\ \/ reg[i] = Target /\ Loop(next) /\ UNCHANGED <<orig, raced>>
       \/ reg[i] # Target /\ Conflict

Notify == pc = "notify" /\ Quiet /\ Step("recheck", 1) /\ UNCHANGED <<orig, raced>>

Finish ==
    /\ pc = "done"
    /\ journal' = IF op = "acquire" THEN journal ELSE Absent
    /\ Ends(TRUE, op = "acquire") /\ UNCHANGED <<reg, counts>>

Transaction ==
    \/ Load \/ StaleLease \/ ReadOriginal \/ Create \/ Preflight \/ Current \/ Write \/ ReadBack
    \/ Verify("verify", "notify") \/ Notify \/ Verify("recheck", "done") \/ Finish

Next ==
    \/ Transaction \/ StepFails \/ RecoveryDies \/ RestoreLegacy
    \/ \E x \in Engine : EngineReady(x) \/ EngineDies(x) \/ Acquire(x) \/ Release(x) \/ Stop(x) \/ Recover(x)
    \/ \E f \in Field : OtherWrites(f)

Spec == Init /\ [][Next]_vars

\* A transaction that began goes on, and the user keeps asking for the recovery
\* of a recorded lease whose home has no engine.
FairSpec ==
    /\ Spec /\ WF_vars(Transaction) /\ SF_vars(Owned(V1) /\ RestoreLegacy)
    /\ \A x \in Engine : SF_vars(Owned(x) /\ Recover(x))

-----------------------------------------------------------------------------
\* While a field holds an address of ours, the journal names its owner and
\* what to restore, whichever process died or failed where (Acquire, restore).
JournalCoversWrites ==
    \A f \in Field : reg[f] \in Owner => Owned(reg[f])

\* If nobody else touched the fields, then without a journal they are the user's,
\* and a journal keeps the user's: no crash, retry, failure or second engine loses
\* an original value (Acquire, restore).
OriginalsKept ==
    ext = 0 => CASE journal = Absent -> reg = [f \in Field |-> User]
                 [] journal.state = "record" -> \A f \in Field : journal.original[f] = User
                 [] OTHER -> TRUE

\* An engine that was allowed to stop left no lease behind (requestStop,
\* BeforeStop and the claim it goes by).
GracefulStopLeavesNoLease ==
    \A x \in Engine : phase[x] = "stopped" => ~Owned(x)

\* A value another program wrote is only overwritten if the journal keeps it as
\* the original, or if it appeared after the transaction read that very field
\* (apply: "narrow, but cannot remove, the race").
OnlyFreshRacesLost ==
    [][\A f \in Field : (reg[f] = Other /\ reg'[f] # Other)
            => f \in raced \/ journal.original[f] = Other]_vars

\* As long as nobody else touches the fields, a lease whose engine died does not
\* outlast the absence of an engine in its home (recoverWithPlatform).
DeadLeasesRecovered ==
    \A x \in Engine : (Owned(x) /\ phase[x] = "dead") ~>
        (~Owned(x) \/ ext > 0 \/ \E y \in Engine : HomeOf[y] = HomeOf[x] /\ phase[y] = "ready")

\* As long as nobody else touches the fields, what an older GUI left is restored
\* (restore_legacy).
LegacyRestored == Owned(V1) ~> (~Owned(V1) \/ ext > 0)
=============================================================================
