------------------------ MODULE SystemProxyLeaseProofs ------------------------
(***************************************************************************)
(* Proofs about SystemProxyLease, the leases of the system proxy, and      *)
(* DesktopGui, which asks the command line for them.                       *)
(***************************************************************************)
EXTENDS SystemProxyLease, DesktopGui, TLAPS

-----------------------------------------------------------------------------
(***************************************************************************)
(* Proofs about SystemProxyLease, for any engines, homes, fields and       *)
(* bounds: the journal covers what is written, keeps what to restore, and  *)
(* no engine stops with a lease.                                           *)
(***************************************************************************)

ProxyForeign == {User, Other}
Creating == {"read", "create"}
Applying == {"pre", "current", "write", "back", "verify", "notify", "recheck", "done"}

Types ==
    /\ reg \in [Field -> Owner \cup ProxyForeign]
    /\ \/ journal \in {Absent, Partial}
       \/ /\ journal.state = "record" /\ journal.owner \in Owner
          /\ \A f \in Field : journal.original[f] \in ProxyForeign
    /\ phase \in [Engine -> {"off", "ready", "stopped", "dead"}]
    /\ claim \in [Engine -> BOOLEAN]
    /\ pc \in {"idle", "load"} \cup Creating \cup Applying
    /\ i \in Field /\ ext \in Nat

\* Who holds the lock, and for which operation of which engine.
Roles ==
    /\ (lock = "free") = (pc = "idle")
    /\ \/ lock = "free" /\ op = "none"
       \/ /\ lock = "engine" /\ op \in {"acquire", "release", "stop"}
          /\ e \in Engine /\ phase[e] = "ready"
       \/ lock = "cli" /\ op = "recover" /\ e \in Engine
       \/ lock = "gui" /\ op = "legacy" /\ e = V1

\* The journal the transaction in progress works on.
Journalled ==
    /\ pc = "load" => i = 1
    /\ pc \in Creating => /\ op = "acquire" /\ journal = Absent /\ orig \in Seq(ProxyForeign)
                          /\ Len(orig) = IF pc = "read" THEN i - 1 ELSE N
    /\ pc \in Applying => Owned(e)

\* The fields that a restoration has behind it are not ours.
Given(n) == \A f \in Field : f < n => reg[f] \notin Owner
Restoring ==
    op # "acquire" => /\ pc \in {"current", "write"} => Given(i)
                      /\ pc = "back" => Given(i + 1)
                      /\ pc \in {"verify", "notify", "recheck", "done"} => Given(N + 1)

\* Until another program writes, its values are nowhere.
Untouched ==
    ext = 0 => /\ \A f \in Field : reg[f] # Other
               /\ pc \in Creating => \A n \in 1..Len(orig) : orig[n] # Other
               /\ journal.state = "record" => \A f \in Field : journal.original[f] # Other

\* A running engine that owns the journal has its claim, or is about to.
Obliged ==
    \A x \in Engine : Owned(x) =>
        /\ phase[x] \in {"ready", "dead"}
        /\ phase[x] = "ready" =>
              claim[x] \/ (lock = "engine" /\ e = x /\ op = "acquire" /\ pc \in Applying)

\* What is about to be overwritten is known, or appeared since it was read.
Raced == pc = "write" => reg[i] \in {journal.original[i], e} \/ i \in raced

\* The inductive invariant.
IInv == /\ Types /\ Roles /\ Journalled /\ JournalCoversWrites
        /\ Restoring /\ Untouched /\ Obliged /\ Raced
-----------------------------------------------------------------------------
(* Every action keeps the invariant.                                       *)

\* The values that are no engine's are told apart from the engines.
LEMMA Values == User \notin Owner /\ Other \notin Owner /\ V1 \notin Engine
  BY LeaseAssumption DEF Owner, User, Other, V1

\* The first states: the user's settings, or what an older GUI left of them.
LEMMA InitIInv == Init => IInv
<1> SUFFICES ASSUME Init PROVE IInv OBVIOUS
<1>1. Types
  BY LeaseAssumption DEF Init, Types, Record, ProxyForeign, Owner, Field
<1>2. Roles
  BY Zenon DEF Init, Roles
<1>3. Journalled
  BY Zenon DEF Init, Journalled, Creating, Applying
<1>4. JournalCoversWrites
  BY LeaseAssumption DEF Init, JournalCoversWrites, Record, Owner, Owned, User, V1
<1>5. Restoring
  BY DEF Init, Restoring
<1>6. Untouched
  BY DEF Init, Untouched, Record, User, Other, V1, Absent
<1>7. Obliged
  BY LeaseAssumption DEF Init, Obliged, Record, Owned, Absent
<1>8. Raced
  BY Zenon DEF Init, Raced
<1>9. QED BY <1>1, <1>2, <1>3, <1>4, <1>5, <1>6, <1>7, <1>8 DEF IInv

\* The end of an operation, with the journal it leaves behind: whoever owns that
\* journal owned it before, or is told so by the result.
LEMMA EndKeeps ==
    ASSUME IInv, NEW ok \in BOOLEAN, NEW owned \in BOOLEAN, Ends(ok, owned), pc # "idle",
           UNCHANGED <<reg, ext>>,
           \/ journal' \in {Absent, Partial}
           \/ /\ journal'.state = "record" /\ journal'.owner \in Owner
              /\ \A f \in Field : journal'.original[f] \in ProxyForeign
           , JournalCoversWrites',
           ext = 0 => (journal'.state = "record" => \A f \in Field : journal'.original[f] # Other),
           \A x \in Owner : Owned(x)' => Owned(x) \/ (x = e /\ op = "acquire"),
           \A x \in Owner : x = e /\ Owned(x)' => (op = "acquire" => owned \/ claim[e]) /\ (op \in {"release", "stop"} => ~ok)
    PROVE  IInv'
<1>0. /\ lock \in {"engine", "cli", "gui"} /\ (lock = "engine" => e \in Engine)
      /\ op \in (IF lock = "engine" THEN {"acquire", "release", "stop"} ELSE {"recover", "legacy"})
  BY Zenon DEF IInv, Roles
<1>a. claim' = IF op \in {"recover", "legacy"} THEN claim
                ELSE [claim EXCEPT ![e] = IF op = "acquire" THEN owned \/ claim[e] ELSE
                                          IF op = "release" THEN claim[e] /\ ~ok ELSE claim[e]]
  BY Zenon DEF Ends, Claims
<1>b. claim' \in [Engine -> BOOLEAN]
  <2> claim \in [Engine -> BOOLEAN]
    BY Zenon DEF IInv, Types
  <2>1. CASE lock = "engine" /\ op = "acquire"
    BY <1>a, Zenon
  <2>2. CASE lock = "engine" /\ op = "release"
    BY <1>a, Zenon
  <2>3. CASE lock = "engine" /\ op = "stop"
    BY <2>3, <1>0, <1>a, Zenon
  <2>4. CASE lock # "engine"
    BY <1>a, Zenon
  <2>5. QED BY <1>0, <2>1, <2>2, <2>3, <2>4, Zenon
<1>c. phase' \in [Engine -> {"off", "ready", "stopped", "dead"}]
  BY Zenon DEF Ends, IInv, Types
<1>1. Types'
  BY <1>b, <1>c, LeaseAssumption DEF IInv, Types, Ends, Idle, Field
<1>2. Roles'
  BY Zenon DEF Roles, Ends, Idle
<1>3. Journalled'
  BY Zenon DEF Journalled, Creating, Applying, Ends, Idle
<1>4. JournalCoversWrites' OBVIOUS
<1>5. Restoring'
  BY Zenon DEF Restoring, Ends, Idle
<1>6. Untouched'
  BY DEF IInv, Untouched, Ends, Idle
<1>7. Obliged'
  <2> SUFFICES ASSUME NEW x \in Engine, Owned(x)'
               PROVE  phase'[x] \in {"ready", "dead"} /\ (phase'[x] = "ready" => claim'[x])
    BY Zenon DEF Obliged
  <2> phase \in [Engine -> {"off", "ready", "stopped", "dead"}] /\ claim \in [Engine -> BOOLEAN]
    BY Zenon DEF IInv, Types
  <2>1. CASE x = e /\ lock = "engine" /\ op = "acquire"
    BY <2>1, <1>a, Zenon DEF Ends, IInv, Roles, Owner
  <2>2. CASE Owned(x) /\ ~(x = e /\ lock = "engine" /\ op = "acquire")
    <3>1. phase[x] \in {"ready", "dead"} /\ (phase[x] = "ready" => claim[x])
      BY <2>2, Zenon DEF IInv, Obliged
    <3>2. CASE x = e /\ lock = "engine"
      BY <3>1, <1>a, Zenon DEF Ends, Owner
    <3>3. CASE x # e \/ lock # "engine"
      BY <3>1, <3>3, <1>0, <1>a, Zenon DEF Ends
    <3>4. QED BY <3>2, <3>3, Zenon
  <2>3. QED BY <2>1, <2>2, <1>0, Zenon DEF Owner
<1>8. Raced'
  BY Zenon DEF Raced, Ends, Idle
<1>9. QED BY <1>1, <1>2, <1>3, <1>5, <1>6, <1>7, <1>8, Zenon DEF IInv

\* The common end: the journal is left alone.
LEMMA EndsAlone ==
    ASSUME IInv, NEW ok \in BOOLEAN, NEW owned \in BOOLEAN, Ends(ok, owned), pc # "idle",
           UNCHANGED <<reg, journal, ext>>,
           Owned(e) => (op = "acquire" => owned \/ claim[e]) /\ (op \in {"release", "stop"} => ~ok)
    PROVE  IInv'
<1>1. /\ JournalCoversWrites' /\ (\A x \in Owner : Owned(x)' = Owned(x))
  BY Zenon DEF IInv, JournalCoversWrites, Owned
<1>2. \/ journal' \in {Absent, Partial}
      \/ /\ journal'.state = "record" /\ journal'.owner \in Owner
         /\ \A f \in Field : journal'.original[f] \in ProxyForeign
  BY Zenon DEF IInv, Types
<1>3. ext = 0 => (journal'.state = "record" => \A f \in Field : journal'.original[f] # Other)
  BY Zenon DEF IInv, Untouched
<1>4. QED
  BY <1>1, <1>2, <1>3, EndKeeps, Zenon

\* An engine starts.
LEMMA EngineReadyKeeps ==
    ASSUME IInv, NEW x \in Engine, EngineReady(x)
    PROVE  IInv'
<1>1. Types'
  BY Zenon DEF IInv, Types, EngineReady, tx, counts
<1>2. Roles'
  BY DEF IInv, Roles, EngineReady, tx
<1>3. Journalled'
  BY Zenon DEF IInv, Journalled, Owned, EngineReady, tx
<1>4. JournalCoversWrites'
  BY Zenon DEF IInv, JournalCoversWrites, Owned, EngineReady
<1>5. Restoring'
  BY Zenon DEF IInv, Restoring, Given, EngineReady, tx
<1>6. Untouched'
  BY Zenon DEF IInv, Untouched, EngineReady, tx, counts
<1>7. Obliged'
  BY DEF IInv, Obliged, Owned, EngineReady, tx
<1>8. Raced'
  BY Zenon DEF IInv, Raced, EngineReady, tx
<1>9. QED BY <1>1, <1>2, <1>3, <1>4, <1>5, <1>6, <1>7, <1>8 DEF IInv

\* Another program writes a field.
LEMMA OtherWritesKeeps ==
    ASSUME IInv, NEW f \in Field, OtherWrites(f)
    PROVE  IInv'
<1>1. Types'
  BY DEF IInv, Types, ProxyForeign, OtherWrites
<1>2. Roles'
  BY Zenon DEF IInv, Roles, OtherWrites
<1>3. Journalled'
  BY Zenon DEF IInv, Journalled, Owned, OtherWrites
<1>4. JournalCoversWrites'
  BY LeaseAssumption DEF IInv, JournalCoversWrites, Owner, Owned, Other, V1, OtherWrites
<1>5. Restoring'
  BY LeaseAssumption DEF IInv, Restoring, Given, Owner, Other, V1, OtherWrites
<1>6. Untouched'
  BY DEF IInv, Types, Untouched, OtherWrites
<1>7. Obliged'
  BY Zenon DEF IInv, Obliged, Owned, OtherWrites
<1>8. Raced'
  BY DEF IInv, Raced, OtherWrites
<1>9. QED BY <1>1, <1>2, <1>3, <1>4, <1>5, <1>6, <1>7, <1>8 DEF IInv

\* An engine dies.
LEMMA EngineDiesKeeps ==
    ASSUME IInv, NEW x \in Engine, EngineDies(x)
    PROVE  IInv'
<1>1. Types'
  BY LeaseAssumption DEF IInv, Types, Field, EngineDies, Idle, tx, counts
<1>2. Roles'
  BY DEF IInv, Roles, EngineDies, Idle, tx
<1>3. Journalled'
  BY Zenon DEF IInv, Journalled, Creating, Applying, Owned, EngineDies, Idle, tx
<1>4. JournalCoversWrites'
  BY Zenon DEF IInv, JournalCoversWrites, Owned, EngineDies
<1>5. Restoring'
  BY Zenon DEF IInv, Restoring, Given, EngineDies, Idle, tx
<1>6. Untouched'
  BY DEF IInv, Untouched, EngineDies, Idle, tx, counts
<1>7. Obliged'
  BY DEF IInv, Types, Obliged, Owned, EngineDies, tx
<1>8. Raced'
  BY DEF IInv, Raced, EngineDies, Idle, tx
<1>9. QED BY <1>1, <1>2, <1>3, <1>4, <1>5, <1>6, <1>7, <1>8 DEF IInv

\* A recovery dies.
LEMMA RecoveryDiesKeeps ==
    ASSUME IInv, RecoveryDies
    PROVE  IInv'
<1>1. Types'
  BY LeaseAssumption DEF IInv, Types, Field, RecoveryDies, Idle
<1>2. Roles'
  BY DEF Roles, RecoveryDies, Idle
<1>3. Journalled'
  BY DEF Journalled, Creating, Applying, RecoveryDies, Idle
<1>4. JournalCoversWrites'
  BY Zenon DEF IInv, JournalCoversWrites, Owned, RecoveryDies
<1>5. Restoring'
  BY DEF Restoring, RecoveryDies, Idle
<1>6. Untouched'
  BY LeaseAssumption, Zenon DEF IInv, Types, Roles, Journalled, Untouched, JournalCoversWrites,
     ProxyForeign, Creating, Applying, Owner, Owned, Field, User, Other, V1, Absent, Partial,
     RecoveryDies, Idle
<1>7. Obliged'
  BY Zenon DEF IInv, Obliged, Owned, RecoveryDies
<1>8. Raced'
  BY DEF Raced, RecoveryDies, Idle
<1>9. QED BY <1>1, <1>2, <1>3, <1>4, <1>5, <1>6, <1>7, <1>8 DEF IInv

\* An operation takes the lock.
LEMMA BeginKeeps ==
    ASSUME IInv, NEW o, NEW x, NEW who, Begin(o, x, who),
           \/ who = "engine" /\ o \in {"acquire", "release", "stop"} /\ x \in Engine /\ phase[x] = "ready"
           \/ who = "cli" /\ o = "recover" /\ x \in Engine
           \/ who = "gui" /\ o = "legacy" /\ x = V1
    PROVE  IInv'
<1>1. Types'
  BY LeaseAssumption DEF IInv, Types, Field, Begin
<1>2. Roles'
  BY Zenon DEF Roles, Begin
<1>3. Journalled'
  BY Zenon DEF Journalled, Creating, Applying, Begin
<1>4. JournalCoversWrites'
  BY Zenon DEF IInv, JournalCoversWrites, Owned, Begin
<1>5. Restoring'
  BY Zenon DEF Restoring, Begin
<1>6. Untouched'
  BY Zenon DEF IInv, Untouched, Creating, Begin
<1>7. Obliged'
  BY Zenon DEF IInv, Obliged, Owned, Begin
<1>8. Raced'
  BY Zenon DEF Raced, Begin
<1>9. QED BY <1>1, <1>2, <1>3, <1>4, <1>5, <1>6, <1>7, <1>8, Zenon DEF IInv

\* An engine without a claim stops.
LEMMA StopsAtOnce ==
    ASSUME IInv, NEW x \in Engine, phase[x] = "ready", ~claim[x], ~(lock = "engine" /\ e = x),
           phase' = [phase EXCEPT ![x] = "stopped"],
           UNCHANGED <<reg, journal, lock, claim, tx, counts>>
    PROVE  IInv'
<1>1. Types'
  BY Zenon DEF IInv, Types, tx, counts
<1>2. Roles'
  BY DEF IInv, Roles, tx
<1>3. Journalled'
  BY Zenon DEF IInv, Journalled, Owned, tx
<1>4. JournalCoversWrites'
  BY Zenon DEF IInv, JournalCoversWrites, Owned
<1>5. Restoring'
  BY Zenon DEF IInv, Restoring, Given, tx
<1>6. Untouched'
  BY Zenon DEF IInv, Untouched, tx, counts
<1>7. Obliged'
  BY DEF IInv, Obliged, Owned, tx
<1>8. Raced'
  BY Zenon DEF IInv, Raced, tx
<1>9. QED BY <1>1, <1>2, <1>3, <1>4, <1>5, <1>6, <1>7, <1>8, Zenon DEF IInv

\* A field is read for the journal.
LEMMA ReadOriginalKeeps ==
    ASSUME IInv, ReadOriginal
    PROVE  IInv'
<1>1. Types'
  BY LeaseAssumption DEF IInv, Types, Creating, Field, ReadOriginal, Quiet, counts, Step,
     Loop
<1>2. Roles'
  BY Zenon DEF IInv, Roles, ReadOriginal, Step, Loop
<1>3. Journalled'
  BY LeaseAssumption DEF IInv, Types, Journalled, JournalCoversWrites, Applying, Owned,
     Field, Absent, ReadOriginal, Quiet, Step, Loop
<1>4. JournalCoversWrites'
  BY Zenon DEF IInv, JournalCoversWrites, Owned, ReadOriginal, Quiet
<1>5. Restoring'
  BY Zenon DEF Restoring, ReadOriginal, Step, Loop
<1>6. Untouched'
  BY DEF IInv, Types, Untouched, Creating, ReadOriginal, Quiet, counts
<1>7. Obliged'
  BY DEF IInv, Journalled, Obliged, Creating, Owned, Absent, ReadOriginal, Quiet
<1>8. Raced'
  BY Zenon DEF Raced, ReadOriginal, Step, Loop
<1>9. QED BY <1>1, <1>2, <1>3, <1>4, <1>5, <1>6, <1>7, <1>8 DEF IInv

\* The journal is created.
LEMMA CreateKeeps ==
    ASSUME IInv, Create
    PROVE  IInv'
<1>1. Types'
  BY DEF IInv, Types, Roles, Journalled, Applying, Owner, Field, Create, Record, counts,
     Step
<1>2. Roles'
  BY Zenon DEF IInv, Roles, Create, Step
<1>3. Journalled'
  BY Zenon DEF Journalled, Creating, Owned, Create, Record, Step
<1>4. JournalCoversWrites'
  BY DEF IInv, Journalled, JournalCoversWrites, Creating, Owned, Absent, Create
<1>5. Restoring'
  BY LeaseAssumption, Zenon DEF IInv, Types, Roles, Journalled, Restoring, Given, ProxyForeign,
     Creating, Applying, Owner, Owned, Field, User, Other, V1, Absent, Partial, Create, Record,
     Quiet, counts, Step, Loop, NextField, Target, Known, tx
<1>6. Untouched'
  BY Zenon DEF IInv, Journalled, Untouched, Creating, Field, Create, Record, counts
<1>7. Obliged'
  BY Zenon DEF IInv, Types, Roles, Journalled, Obliged, Applying, Owned, Create, Record, Step
<1>8. Raced'
  BY Zenon DEF Raced, Create, Step
<1>9. QED BY <1>1, <1>2, <1>3, <1>4, <1>5, <1>6, <1>7, <1>8 DEF IInv

\* A field is written.
LEMMA WriteKeeps ==
    ASSUME IInv, Write
    PROVE  IInv'
<1>1. Types'
  BY DEF IInv, Types, Journalled, Applying, Owned, Absent, Partial, Write, counts, Step,
     Target
<1>2. Roles'
  BY Zenon DEF IInv, Roles, Write, Step
<1>3. Journalled'
  BY Zenon DEF IInv, Types, Journalled, Creating, Owned, Write, Step
<1>4. JournalCoversWrites'
  BY LeaseAssumption DEF IInv, Types, Journalled, JournalCoversWrites, ProxyForeign, Creating,
     Owner, Owned, User, Other, V1, Absent, Partial, Write, Target
<1>5. Restoring'
  BY LeaseAssumption DEF IInv, Types, Journalled, Restoring, Given, ProxyForeign, Owner, Owned,
     Field, User, Other, V1, Absent, Partial, Write, Step, Target
<1>6. Untouched'
  BY LeaseAssumption, Zenon DEF IInv, Types, Roles, Journalled, Untouched, Creating, Owned, Write,
     counts, Step, Target
<1>7. Obliged'
  BY Zenon DEF IInv, Obliged, Applying, Owned, Write, Step
<1>8. Raced'
  BY Zenon DEF Raced, Write, Step
<1>9. QED BY <1>1, <1>2, <1>3, <1>4, <1>5, <1>6, <1>7, <1>8 DEF IInv

\* The notification.
LEMMA NotifyKeeps ==
    ASSUME IInv, Notify
    PROVE  IInv'
<1>1. Types'
  BY LeaseAssumption DEF IInv, Types, Applying, Field, Notify, Quiet, counts, Step
<1>2. Roles'
  BY Zenon DEF IInv, Roles, Notify, Step
<1>3. Journalled'
  BY Zenon DEF IInv, Types, Journalled, Creating, Owned, Notify, Quiet, Step
<1>4. JournalCoversWrites'
  BY Zenon DEF IInv, JournalCoversWrites, Owned, Notify, Quiet
<1>5. Restoring'
  BY Zenon DEF IInv, Restoring, Given, Notify, Quiet, Step
<1>6. Untouched'
  BY Zenon DEF IInv, Untouched, Creating, Notify, Quiet, counts, Step
<1>7. Obliged'
  BY Zenon DEF IInv, Obliged, Applying, Owned, Notify, Quiet, Step
<1>8. Raced'
  BY DEF Raced, Notify, Step
<1>9. QED BY <1>1, <1>2, <1>3, <1>4, <1>5, <1>6, <1>7, <1>8 DEF IInv

\* Load: nobody's journal is read into, and only its owner goes on.
LEMMA LoadKeeps ==
    ASSUME IInv, Load
    PROVE  IInv'
<1>0. pc = "load" /\ UNCHANGED <<reg, journal, ext>>
  BY Zenon DEF Load, Quiet, counts
<1>1. CASE ~Decodes
  <2>a. journal # Absent
    BY <1>1 DEF Decodes, Absent, Partial
  <2>1. Ends(FALSE, FALSE)
    BY <1>1, <2>a, Zenon DEF Load
  <2>2. ~Owned(e)
    BY <1>0, <1>1, Values DEF Decodes, Owned, IInv, Roles, Partial
  <2>3. QED BY <1>0, <2>1, <2>2, EndsAlone, Zenon
<1>2. CASE Decodes /\ journal = Absent /\ op = "acquire"
  <2>1. Types'
    BY <1>2, Zenon DEF IInv, Types, Creating, Absent, Load, Quiet, counts
  <2>2. Roles'
    BY <1>2, Zenon DEF IInv, Roles, Absent, Load
  <2>3. Journalled'
    <3>1. pc' = "read" /\ orig' = <<>> /\ UNCHANGED <<journal, op, e, i>>
      BY <1>2 DEF Load, Quiet, Absent
    <3>2. i = 1
      BY <1>0 DEF IInv, Journalled
    <3>3. QED BY <1>2, <3>1, <3>2 DEF Journalled, Applying
  <2>4. JournalCoversWrites'
    BY Zenon DEF IInv, JournalCoversWrites, Owned, Load, Quiet
  <2>5. Restoring'
    BY <1>2 DEF Restoring, Absent, Load
  <2>6. Untouched'
    BY <1>2 DEF IInv, Untouched, Absent, Load, Quiet, counts
  <2>7. Obliged'
    BY <1>2, Zenon DEF Obliged, Owned, Absent, Load, Quiet
  <2>8. Raced'
    BY <1>2 DEF Raced, Absent, Load
  <2>9. QED BY <2>1, <2>2, <2>3, <2>4, <2>5, <2>6, <2>7, <2>8 DEF IInv
<1>3. CASE Decodes /\ journal = Absent /\ op # "acquire"
  <2>1. Ends(TRUE, FALSE)
    BY <1>3, Zenon DEF Load, Absent
  <2>2. ~Owned(e)
    BY <1>3 DEF Owned, Absent
  <2>3. QED BY <1>0, <2>1, <2>2, EndsAlone, Zenon
<1>4. CASE Decodes /\ journal # Absent /\ journal.owner # e
  <2> DEFINE ok == op \in {"stop", "legacy"}
  <2>1. journal.state = "record"
    BY <1>4, Zenon DEF IInv, Types, Decodes
  <2>2. Ends(ok, FALSE)
    BY <1>4, <2>1, Zenon DEF Load
  <2>3. ~Owned(e) /\ ok \in BOOLEAN
    BY <1>4 DEF Owned
  <2> HIDE DEF ok
  <2>4. QED BY <1>0, <2>2, <2>3, EndsAlone, Zenon
<1>5. CASE Decodes /\ journal # Absent /\ journal.owner = e
  <2>1. Types'
    BY <1>5, Zenon DEF IInv, Types, Applying, Load, Quiet, counts
  <2>2. Roles'
    BY <1>5, Zenon DEF IInv, Roles, Load
  <2>3. Journalled'
    BY <1>5, Zenon DEF IInv, Types, Journalled, Creating, Owned, Load, Decodes, Quiet
  <2>4. JournalCoversWrites'
    BY Zenon DEF IInv, JournalCoversWrites, Owned, Load, Quiet
  <2>5. Restoring'
    BY <1>5 DEF Restoring, Load
  <2>6. Untouched'
    BY <1>5, Zenon DEF IInv, Untouched, Creating, Load, Quiet, counts
  <2>7. Obliged'
    BY <1>5 DEF IInv, Obliged, Applying, Owned, Load, Quiet
  <2>8. Raced'
    BY <1>5 DEF Raced, Load
  <2>9. QED BY <2>1, <2>2, <2>3, <2>4, <2>5, <2>6, <2>7, <2>8 DEF IInv
<1>6. QED BY <1>1, <1>2, <1>3, <1>4, <1>5

\* A release of another lease ID.
LEMMA StaleLeaseKeeps ==
    ASSUME IInv, StaleLease
    PROVE  IInv'
  BY EndsAlone, Zenon DEF StaleLease, Quiet, counts

\* A field is compared before the first write.
LEMMA PreflightKeeps ==
    ASSUME IInv, Preflight
    PROVE  IInv'
<1>1. CASE Known(reg[i]) /\ Loop("current") /\ UNCHANGED <<orig, raced>>
  <2>1. Types'
    BY <1>1, LeaseAssumption DEF IInv, Types, Applying, Field, Preflight, Quiet, counts,
       Step, Loop
  <2>2. Roles'
    BY <1>1, Zenon DEF IInv, Roles, Preflight, Step, Loop
  <2>3. Journalled'
    BY <1>1, Zenon DEF IInv, Types, Journalled, Creating, Owned, Preflight, Quiet, Step, Loop
  <2>4. JournalCoversWrites'
    BY Zenon DEF IInv, JournalCoversWrites, Owned, Preflight, Quiet
  <2>5. Restoring'
    BY <1>1 DEF Restoring, Given, Field, Preflight, Step, Loop
  <2>6. Untouched'
    BY <1>1, Zenon DEF IInv, Untouched, Creating, Preflight, Quiet, counts, Step, Loop
  <2>7. Obliged'
    BY <1>1 DEF IInv, Obliged, Applying, Owned, Preflight, Quiet, Step, Loop
  <2>8. Raced'
    BY <1>1, Zenon DEF Raced, Preflight, Step, Loop
  <2>9. QED BY <2>1, <2>2, <2>3, <2>4, <2>5, <2>6, <2>7, <2>8 DEF IInv
<1>2. CASE ~Known(reg[i]) /\ Conflict
  BY <1>2, EndsAlone, Zenon DEF Preflight, Conflict, Quiet, counts
<1>3. QED BY <1>1, <1>2, Zenon DEF Preflight

\* A field is read before it is written.
LEMMA CurrentKeeps ==
    ASSUME IInv, Current
    PROVE  IInv'
<1>1. CASE reg[i] = Target /\ NextField /\ UNCHANGED <<orig, raced>>
  <2>1. Types'
    BY <1>1, LeaseAssumption DEF IInv, Types, Applying, Field, Current, Quiet, counts, Step,
       NextField
  <2>2. Roles'
    BY <1>1, Zenon DEF IInv, Roles, Current, Step, NextField
  <2>3. Journalled'
    BY <1>1, Zenon DEF IInv, Types, Journalled, Creating, Owned, Current, Quiet, Step, NextField
  <2>4. JournalCoversWrites'
    BY Zenon DEF IInv, JournalCoversWrites, Owned, Current, Quiet
  <2>5. Restoring'
    BY <1>1, LeaseAssumption DEF IInv, Types, Journalled, Restoring, Given, ProxyForeign, Owner,
       Owned, Field, User, Other, V1, Absent, Partial, Current, Quiet, Step, NextField, Target
  <2>6. Untouched'
    BY <1>1, Zenon DEF IInv, Untouched, Creating, Current, Quiet, counts, Step, NextField
  <2>7. Obliged'
    BY <1>1, Zenon DEF IInv, Obliged, Applying, Owned, Current, Quiet, Step, NextField
  <2>8. Raced'
    BY <1>1 DEF Raced, Step, NextField
  <2>9. QED BY <2>1, <2>2, <2>3, <2>4, <2>5, <2>6, <2>7, <2>8 DEF IInv
<1>2. CASE reg[i] # Target /\ Known(reg[i]) /\ Step("write", i) /\ raced' = {} /\ UNCHANGED orig
  <2>1. Types'
    BY <1>2, Zenon DEF IInv, Types, Applying, Current, Quiet, counts, Step
  <2>2. Roles'
    BY <1>2, Zenon DEF IInv, Roles, Current, Step
  <2>3. Journalled'
    BY <1>2, Zenon DEF IInv, Types, Journalled, Creating, Owned, Current, Quiet, Step
  <2>4. JournalCoversWrites'
    BY Zenon DEF IInv, JournalCoversWrites, Owned, Current, Quiet
  <2>5. Restoring'
    BY <1>2, Zenon DEF IInv, Restoring, Given, Current, Quiet, Step
  <2>6. Untouched'
    BY <1>2, Zenon DEF IInv, Untouched, Creating, Current, Quiet, counts, Step
  <2>7. Obliged'
    BY <1>2, Zenon DEF IInv, Obliged, Applying, Owned, Current, Quiet, Step
  <2>8. Raced'
    BY <1>2, Zenon DEF Raced, Current, Quiet, Step, Known
  <2>9. QED BY <2>1, <2>2, <2>3, <2>4, <2>5, <2>6, <2>7, <2>8 DEF IInv
<1>3. CASE ~Known(reg[i]) /\ Conflict
  BY <1>3, EndsAlone, Zenon DEF Current, Conflict, Quiet, counts
<1>4. QED BY <1>1, <1>2, <1>3, Zenon DEF Current

\* A field is read back.
LEMMA ReadBackKeeps ==
    ASSUME IInv, ReadBack
    PROVE  IInv'
<1>1. CASE reg[i] = Target /\ NextField /\ UNCHANGED <<orig, raced>>
  <2>1. Types'
    BY <1>1, LeaseAssumption DEF IInv, Types, Applying, Field, ReadBack, Quiet, counts,
       Step, NextField
  <2>2. Roles'
    BY <1>1, Zenon DEF IInv, Roles, ReadBack, Step, NextField
  <2>3. Journalled'
    BY <1>1, Zenon DEF IInv, Types, Journalled, Creating, Owned, ReadBack, Quiet, Step, NextField
  <2>4. JournalCoversWrites'
    BY Zenon DEF IInv, JournalCoversWrites, Owned, ReadBack, Quiet
  <2>5. Restoring'
    BY <1>1, LeaseAssumption DEF IInv, Types, Restoring, Given, Field, ReadBack, Quiet,
       Step, NextField
  <2>6. Untouched'
    BY <1>1, Zenon DEF IInv, Untouched, Creating, ReadBack, Quiet, counts, Step, NextField
  <2>7. Obliged'
    BY <1>1, Zenon DEF IInv, Obliged, Applying, Owned, ReadBack, Quiet, Step, NextField
  <2>8. Raced'
    BY <1>1, Zenon DEF Raced, Step, NextField
  <2>9. QED BY <2>1, <2>2, <2>3, <2>4, <2>5, <2>6, <2>7, <2>8 DEF IInv
<1>2. CASE reg[i] # Target /\ Conflict
  BY <1>2, EndsAlone, Zenon DEF ReadBack, Conflict, Quiet, counts
<1>3. QED BY <1>1, <1>2 DEF ReadBack

\* The fields are verified.
LEMMA VerifyKeeps ==
    ASSUME IInv, Verify("verify", "notify")
    PROVE  IInv'
<1>1. CASE reg[i] = Target /\ Loop("notify") /\ UNCHANGED <<orig, raced>>
  <2>1. Types'
    BY <1>1, LeaseAssumption DEF IInv, Types, Applying, Field, Verify, Quiet, counts, Step,
       Loop
  <2>2. Roles'
    BY <1>1, Zenon DEF IInv, Roles, Verify, Step, Loop
  <2>3. Journalled'
    BY <1>1, Zenon DEF IInv, Types, Journalled, Creating, Owned, Verify, Quiet, Step, Loop
  <2>4. JournalCoversWrites'
    BY Zenon DEF IInv, JournalCoversWrites, Owned, Verify, Quiet
  <2>5. Restoring'
    BY <1>1, Zenon DEF IInv, Restoring, Given, Verify, Quiet, Step, Loop
  <2>6. Untouched'
    BY <1>1, Zenon DEF IInv, Untouched, Creating, Verify, Quiet, counts, Step, Loop
  <2>7. Obliged'
    BY <1>1, Zenon DEF IInv, Obliged, Applying, Owned, Verify, Quiet, Step, Loop
  <2>8. Raced'
    BY <1>1, Zenon DEF Raced, Verify, Step, Loop
  <2>9. QED BY <2>1, <2>2, <2>3, <2>4, <2>5, <2>6, <2>7, <2>8 DEF IInv
<1>2. CASE reg[i] # Target /\ Conflict
  BY <1>2, EndsAlone, Zenon DEF Verify, Conflict, Quiet, counts
<1>3. QED BY <1>1, <1>2 DEF Verify

\* The fields are verified.
LEMMA RecheckKeeps ==
    ASSUME IInv, Verify("recheck", "done")
    PROVE  IInv'
<1>1. CASE reg[i] = Target /\ Loop("done") /\ UNCHANGED <<orig, raced>>
  <2>1. Types'
    BY <1>1, LeaseAssumption DEF IInv, Types, Applying, Field, Verify, Quiet, counts, Step,
       Loop
  <2>2. Roles'
    BY <1>1, Zenon DEF IInv, Roles, Verify, Step, Loop
  <2>3. Journalled'
    BY <1>1, Zenon DEF IInv, Types, Journalled, Creating, Owned, Verify, Quiet, Step, Loop
  <2>4. JournalCoversWrites'
    BY Zenon DEF IInv, JournalCoversWrites, Owned, Verify, Quiet
  <2>5. Restoring'
    BY <1>1, Zenon DEF IInv, Restoring, Given, Verify, Quiet, Step, Loop
  <2>6. Untouched'
    BY <1>1, Zenon DEF IInv, Untouched, Creating, Verify, Quiet, counts, Step, Loop
  <2>7. Obliged'
    BY <1>1 DEF IInv, Obliged, Applying, Owned, Verify, Quiet, Step, Loop
  <2>8. Raced'
    BY <1>1, Zenon DEF Raced, Verify, Step, Loop
  <2>9. QED BY <2>1, <2>2, <2>3, <2>4, <2>5, <2>6, <2>7, <2>8 DEF IInv
<1>2. CASE reg[i] # Target /\ Conflict
  BY <1>2, EndsAlone, Zenon DEF Verify, Conflict, Quiet, counts
<1>3. QED BY <1>1, <1>2 DEF Verify

\* The end of an acquisition keeps the journal, the end of a restoration removes it.
LEMMA FinishKeeps ==
    ASSUME IInv, Finish
    PROVE  IInv'
<1>1. CASE op = "acquire"
  BY <1>1, EndsAlone, Zenon DEF Finish, counts
<1>2. CASE op # "acquire"
  <2>1. journal' = Absent
    BY <1>2 DEF Finish
  <2>2. JournalCoversWrites'
    BY <1>2, LeaseAssumption DEF Finish, JournalCoversWrites, IInv, Restoring, Given, Field
  <2>3. Ends(TRUE, FALSE) /\ pc # "idle" /\ UNCHANGED <<reg, ext>>
    BY <1>2, Zenon DEF Finish, counts
  <2>4. journal'.state # "record" /\ (\A x \in Owner : ~Owned(x)')
    BY <2>1 DEF Owned, Absent
  <2>5. QED BY <2>1, <2>2, <2>3, <2>4, EndKeeps, Zenon
<1>3. QED BY <1>1, <1>2

\* A failed step.
LEMMA StepFailsKeeps ==
    ASSUME IInv, StepFails
    PROVE  IInv'
<1>1. CASE ReadFails
  <2> DEFINE owned == op = "acquire" /\ Holds
  <2>1. Ends(FALSE, owned) /\ UNCHANGED <<reg, journal, ext>> /\ pc # "idle" /\ owned \in BOOLEAN
    BY <1>1, Zenon DEF ReadFails, Fails, FailsWith
  <2>2. Owned(e) => (op = "acquire" => owned \/ claim[e])
    <3>1. CASE pc = "load" /\ op = "acquire"
      BY <3>1, Zenon DEF IInv, Obliged, Roles, Applying
    <3>2. CASE pc = "read"
      BY <3>2 DEF IInv, Journalled, Creating, Owned, Absent
    <3>3. QED BY <3>1, <3>2 DEF Holds
  <2> HIDE DEF owned
  <2>3. QED BY <2>1, <2>2, EndsAlone, Zenon
<1>2. CASE CreateFails
  <2>1. journal = Absent /\ op = "acquire" /\ e \in Engine
    BY <1>2, Zenon DEF CreateFails, Fails, IInv, Journalled, Roles, Creating
  <2>2. \A f \in Field : reg[f] \notin Owner
    BY <2>1, Zenon DEF IInv, JournalCoversWrites, Owned, Absent
  <2>3. orig \in [Field -> ProxyForeign]
    BY <1>2 DEF CreateFails, Fails, IInv, Journalled, Creating, Field
  <2>4. ext = 0 => \A f \in Field : orig[f] # Other
    BY <1>2, Zenon DEF CreateFails, Fails, IInv, Untouched, Journalled, Creating, Field
  <2>5. Ends(FALSE, TRUE) /\ pc # "idle" /\ UNCHANGED <<reg, ext>>
    BY <1>2, <2>1, Zenon DEF CreateFails, Fails, FailsWith
  <2>6. journal' \in {Absent, Partial} \/ journal' = Record(e, orig)
    BY <1>2 DEF CreateFails
  <2>7. JournalCoversWrites'
    BY <2>2, <2>5 DEF JournalCoversWrites
  <2>8. \A x \in Owner : Owned(x)' => x = e
    BY <2>6 DEF Owned, Record, Absent, Partial
  <2>9. \/ journal' \in {Absent, Partial}
        \/ /\ journal'.state = "record" /\ journal'.owner \in Owner
           /\ \A f \in Field : journal'.original[f] \in ProxyForeign
    BY <2>1, <2>3, <2>6 DEF Record, Owner
  <2>10. ext = 0 => (journal'.state = "record" => \A f \in Field : journal'.original[f] # Other)
    BY <2>4, <2>6 DEF Record, Absent, Partial
  <2>11. QED BY <2>1, <2>5, <2>7, <2>8, <2>9, <2>10, EndKeeps, Zenon
<1>3. CASE WriteFails
  BY <1>3, EndsAlone, Zenon DEF WriteFails, Fails, FailsWith
<1>4. CASE RemoveFails
  BY <1>4, EndsAlone, Zenon DEF RemoveFails, Fails, FailsWith
<1>5. QED BY <1>1, <1>2, <1>3, <1>4 DEF StepFails

LEMMA NextIInv == IInv /\ [Next]_vars => IInv'
<1> SUFFICES ASSUME IInv, [Next]_vars PROVE IInv' OBVIOUS
<1>1. CASE Transaction
  BY <1>1, LoadKeeps, StaleLeaseKeeps, ReadOriginalKeeps, CreateKeeps, PreflightKeeps, CurrentKeeps,
     WriteKeeps, ReadBackKeeps, VerifyKeeps, NotifyKeeps, RecheckKeeps, FinishKeeps, Zenon DEF
     Transaction
<1>2. CASE StepFails
  BY <1>2, StepFailsKeeps
<1>3. CASE RecoveryDies
  BY <1>3, RecoveryDiesKeeps
<1>4. CASE RestoreLegacy
  BY <1>4, BeginKeeps DEF RestoreLegacy
<1>5. ASSUME NEW x \in Engine, EngineReady(x) \/ EngineDies(x) PROVE IInv'
  BY <1>5, EngineReadyKeeps, EngineDiesKeeps
<1>6. ASSUME NEW x \in Engine, Acquire(x) \/ Release(x) \/ Recover(x) PROVE IInv'
  BY <1>6, BeginKeeps, Zenon DEF Acquire, Release, Recover
<1>7. ASSUME NEW x \in Engine, Stop(x) PROVE IInv'
  BY <1>7, BeginKeeps, StopsAtOnce, Zenon DEF Stop
<1>8. ASSUME NEW f \in Field, OtherWrites(f) PROVE IInv'
  BY <1>8, OtherWritesKeeps
<1>9. CASE UNCHANGED vars
  <2>1. Types'
    BY <1>9, Zenon DEF IInv, Types, vars, tx, counts
  <2>2. Roles'
    BY <1>9, Zenon DEF IInv, Roles, vars, tx
  <2>3. Journalled'
    BY <1>9, Zenon DEF IInv, Journalled, Owned, vars, tx
  <2>4. JournalCoversWrites'
    BY <1>9, Zenon DEF IInv, JournalCoversWrites, Owned, vars
  <2>5. Restoring'
    BY <1>9, Zenon DEF IInv, Restoring, Given, vars, tx
  <2>6. Untouched'
    BY <1>9, Zenon DEF IInv, Untouched, vars, tx, counts
  <2>7. Obliged'
    BY <1>9, Zenon DEF IInv, Obliged, Owned, vars, tx
  <2>8. Raced'
    BY <1>9, Zenon DEF IInv, Raced, vars, tx
  <2>9. QED BY <2>1, <2>2, <2>3, <2>4, <2>5, <2>6, <2>7, <2>8 DEF IInv
<1>10. QED BY <1>1, <1>2, <1>3, <1>4, <1>5, <1>6, <1>7, <1>8, <1>9, Zenon DEF Next

LEMMA AlwaysIInv == Spec => []IInv
  BY InitIInv, NextIInv, PTL DEF Spec

-----------------------------------------------------------------------------
\* In every state, a field with an address of ours is covered by the journal of
\* its owner (Acquire, restore).
THEOREM WritesAreJournalled == Spec => []JournalCoversWrites
  BY AlwaysIInv, PTL DEF IInv

\* In every state that no other program had a hand in, the user's settings are in
\* the fields or in the journal (Acquire, restore).
THEOREM NothingOfTheUserLost == Spec => []OriginalsKept
<1>1. IInv => OriginalsKept
  <2> SUFFICES ASSUME IInv, ext = 0 PROVE OriginalsKept BY DEF OriginalsKept
  <2>1. journal = Absent => \A f \in Field : reg[f] = User
    BY DEF IInv, Types, JournalCoversWrites, Untouched, Owned, Absent, ProxyForeign
  <2>2. journal = Absent => reg = [f \in Field |-> User]
    BY <2>1, Zenon DEF IInv, Types
  <2>3. journal.state = "record" => \A f \in Field : journal.original[f] = User
    BY DEF IInv, Types, Untouched, Absent, Partial, ProxyForeign
  <2>4. QED BY <2>2, <2>3 DEF OriginalsKept
<1>2. QED BY <1>1, AlwaysIInv, PTL

\* No engine that was allowed to stop owns the journal (requestStop, BeforeStop).
THEOREM StoppedWithoutLease == Spec => []GracefulStopLeavesNoLease
<1>1. IInv => GracefulStopLeavesNoLease
  BY Zenon DEF IInv, Obliged, GracefulStopLeavesNoLease
<1>2. QED BY <1>1, AlwaysIInv, PTL

\* What another program wrote is overwritten only if the journal keeps it, or if it
\* came after the field was last read (apply).
THEOREM LostOnlyInARace == Spec => OnlyFreshRacesLost
<1>1. IInv /\ [Next]_vars => [\A f \in Field : (reg[f] = Other /\ reg'[f] # Other)
                                  => f \in raced \/ journal.original[f] = Other]_vars
  <2> SUFFICES ASSUME IInv, Next, NEW f \in Field, reg[f] = Other, reg'[f] # Other
               PROVE  f \in raced \/ journal.original[f] = Other
    BY Zenon
  <2>1. CASE Write
    BY <2>1, Values DEF Write, IInv, Raced, Roles, Owner
  <2>2. CASE UNCHANGED reg
    BY <2>2
  <2>3. ASSUME NEW g \in Field, OtherWrites(g) PROVE FALSE
    BY <2>3 DEF OtherWrites
  <2>4. QED
    BY <2>1, <2>3, Zenon DEF Next, Transaction, StepFails, ReadFails, CreateFails, WriteFails,
       RemoveFails, RecoveryDies, RestoreLegacy, Begin, EngineReady, EngineDies, Acquire,
       Release, Stop, Recover, Load, StaleLease, ReadOriginal, Create, Preflight, Current, ReadBack,
       Verify, Notify, Finish, Quiet
<1>2. QED BY <1>1, AlwaysIInv, PTL DEF Spec, OnlyFreshRacesLost

-----------------------------------------------------------------------------
(***************************************************************************)
(* Proofs about DesktopGui, for any bounds and any faults: what the GUI    *)
(* asks of the CLI takes no lease but its own, and a stop it asks for      *)
(* leaves nothing behind.                                                  *)
(***************************************************************************)

Journals == {Free, V1Journal, Foreign}
              \cup [kind : {"cli"}, id : Nat \ {0}, owner : Nat \ {0}, by : Nat]
Homes == [engine : Nat, engines : Nat, claim : BOOLEAN, journal : Journals, leases : Nat,
          conf : BOOLEAN]
Ops == {"none", "acquire", "release", "recover", "inspect", "status", "start", "stop", "logout"}
Results == {"none", "sent", "lost", "ok", "noop", "refused", "absent", "foreign", "recorded",
            "degraded", "stopped", "ready"}
Commands == [op : Ops, id : Nat, by : Nat, res : Results, got : Nat]

\* A home the CLI keeps: leases and engines are numbered, and the lease of the
\* running engine comes with its claim.
Sound(h) ==
    /\ h \in Homes /\ h.engine <= h.engines
    /\ h.journal.kind = "cli" => h.journal.id <= h.leases /\ h.journal.owner <= h.engines
    /\ Own(h) => h.claim

\* What a command, or anyone else, may do to the journal: leave it, free it, or
\* put the next lease into it.
Created(h, n, by) ==
    n.journal.kind = "cli" /\ n.journal.id = n.leases /\ n.leases = h.leases + 1 /\ n.journal.by = by
Moves(h, n, by) ==
    /\ Sound(n)
    /\ \/ n.journal = h.journal /\ n.leases = h.leases
       \/ n.journal = Free /\ n.leases = h.leases
       \/ Created(h, n, by)

GuiTypes ==
    /\ Sound(home) /\ guis \in Nat /\ lease \in Nat
    /\ cmd \in Commands /\ orphan \in Commands

\* The command of the GUI is its session's.
Session ==
    /\ gui # "open" \/ act = NoAction => cmd = NoCmd
    /\ cmd # NoCmd => cmd.by = guis /\ cmd.op # "none"
    /\ orphan # NoCmd => orphan.op # "none"
    /\ cmd.op = "release" => cmd.id = lease /\ lease # 0
    /\ cmd.op \in {"stop", "logout"} => home.journal # V1Journal

\* A lease the GUI remembers, or is about to, is its session's.
Remembers ==
    /\ lease <= home.leases /\ cmd.got <= home.leases
    /\ home.journal.kind = "cli" /\ home.journal.id = lease => home.journal.by = guis
    /\ home.journal.kind = "cli" /\ home.journal.id = cmd.got /\ cmd.op = "acquire" /\ cmd.res = "ok"
          => home.journal.by = guis

\* The inductive invariant.
GuiIInv == GuiTypes /\ Session /\ Remembers

-----------------------------------------------------------------------------
LEMMA JournalKinds ==
    /\ Free.kind = "none" /\ V1Journal.kind = "v1" /\ Foreign.kind = "foreign"
    /\ Free \in Journals /\ V1Journal \in Journals /\ Foreign \in Journals
    /\ \A j \in Journals : j.kind = "cli" => j.id \in Nat \ {0} /\ j.owner \in Nat \ {0} /\ j.by \in Nat
    /\ \A j \in Journals : j.kind # "cli" => j \in {Free, V1Journal, Foreign}
    /\ Free # V1Journal
  BY DEF Journals, Free, V1Journal, Foreign

\* The fields of a home.
LEMMA Fields ==
    ASSUME NEW h \in Homes
    PROVE  /\ h.engine \in Nat /\ h.engines \in Nat /\ h.claim \in BOOLEAN /\ h.journal \in Journals
           /\ h.leases \in Nat /\ h.conf \in BOOLEAN
  BY DEF Homes

LEMMA NoCmdIs == NoCmd \in Commands /\ NoCmd.op = "none" /\ NoCmd.got = 0 /\ NoCmd.res = "none"
  BY DEF NoCmd, Commands, Ops, Results

\* Each command leaves a sound home.
LEMMA AcquireMoves ==
    ASSUME NEW h, Sound(h), NEW by \in Nat, NEW a \in CliAcquire(h, by)
    PROVE  /\ Moves(h, a.home, by) /\ a.res \in Results /\ a.got \in Nat /\ a.got <= a.home.leases
           /\ a.res = "ok" => Created(h, a.home, by) /\ a.got = a.home.leases
<1> USE Fields, JournalKinds
<1>1. CASE h.engine = 0 \/ (h.journal # Free /\ ~Own(h)) \/ (h.journal = Free /\ h.leases = MaxLease)
  BY <1>1 DEF CliAcquire, Answer, Moves, Results, Sound
<1>2. CASE ~(h.engine = 0 \/ (h.journal # Free /\ ~Own(h)) \/ (h.journal = Free /\ h.leases = MaxLease))
  <2>1. CASE Own(h)
    <3> DEFINE n == [h EXCEPT !.journal = h.journal, !.claim = TRUE, !.leases = h.leases]
    <3>1. a \in {Answer("noop", h.journal.id, n), Answer("refused", 0, n)}
      BY <1>2, <2>1, Zenon DEF CliAcquire, May
    <3>2. Sound(n) /\ n.journal = h.journal /\ n.leases = h.leases
      BY <2>1, Zenon DEF Sound, Homes, Own
    <3>3. h.journal.id \in Nat /\ h.journal.id <= h.leases
      BY <2>1, Zenon DEF Sound, Own
    <3> HIDE DEF n
    <3> QED BY <3>1, <3>2, <3>3 DEF Moves, Answer, Results, Sound
  <2>2. CASE ~Own(h)
    <3> DEFINE j == Lease(h.leases + 1, h.engine, by)
               n == [h EXCEPT !.journal = j, !.claim = TRUE, !.leases = h.leases + 1]
    <3>1. a \in {Answer("ok", j.id, n), Answer("refused", 0, n)}
      BY <1>2, <2>2, Zenon DEF CliAcquire, May
    <3>2. j \in Journals /\ j.kind = "cli" /\ j.id = h.leases + 1 /\ j.owner = h.engine /\ j.by = by
      BY <1>2 DEF Lease, Journals, Sound
    <3> HIDE DEF j
    <3>3. n \in Homes /\ n.journal = j /\ n.leases = h.leases + 1 /\ n.claim /\ n.engine = h.engine
          /\ n.engines = h.engines
      BY <3>2, Zenon DEF Sound, Homes
    <3> HIDE DEF n
    <3>4. Sound(n) /\ Created(h, n, by)
      BY <3>2, <3>3 DEF Sound, Own, Created
    <3> QED BY <3>1, <3>2, <3>3, <3>4 DEF Moves, Answer, Results, Sound
  <2> QED BY <2>1, <2>2, Zenon
<1> QED BY <1>1, <1>2, Zenon

LEMMA ReleaseMoves ==
    ASSUME NEW h, Sound(h), NEW by \in Nat, NEW id \in Nat, NEW a \in CliRelease(h, id)
    PROVE  /\ Moves(h, a.home, by) /\ a.res \in Results /\ a.got \in Nat
           /\ h.journal.kind = "cli" /\ a.home.journal # h.journal => h.journal.id = id
           /\ a.got <= h.leases
<1> USE Fields, JournalKinds
<1> DEFINE n == [h EXCEPT !.journal = Free, !.claim = FALSE]
<1>1. a \in {Answer("refused", 0, h)} \/ /\ a = Answer("ok", IF h.journal = Free THEN 0 ELSE id, n)
                                         /\ h.journal = Free \/ (Own(h) /\ h.journal.id = id)
  BY Zenon DEF CliRelease, May
<1>2. n \in Homes /\ n.journal = Free /\ n.leases = h.leases /\ n.engine = h.engine
      /\ n.engines = h.engines
  BY Zenon DEF Sound, Homes
<1> HIDE DEF n
<1>3. Sound(n)
  BY <1>2, Zenon DEF Sound, Own
<1>4. CASE a = Answer("refused", 0, h)
  BY <1>4 DEF Answer, Moves, Results, Sound
<1>5. CASE a # Answer("refused", 0, h)
  <2>1. a.home = n /\ a.res = "ok" /\ a.got = (IF h.journal = Free THEN 0 ELSE id)
    BY <1>1, <1>5 DEF Answer
  <2>2. h.journal = Free \/ (Own(h) /\ h.journal.id = id)
    BY <1>1, <1>5, Zenon
  <2>3. a.got \in Nat /\ a.got <= h.leases
    BY <2>1, <2>2 DEF Sound, Own
  <2> QED BY <1>2, <1>3, <2>1, <2>2, <2>3, Zenon DEF Moves, Results, Own
<1> QED BY <1>4, <1>5, Zenon

LEMMA RecoverMoves ==
    ASSUME NEW h, Sound(h), NEW by \in Nat, NEW a \in CliRecover(h)
    PROVE  /\ Moves(h, a.home, by) /\ a.res \in Results /\ a.got \in Nat
           /\ a.home.journal # h.journal => h.engine = 0
           /\ a.got <= h.leases
<1> USE Fields, JournalKinds
<1> DEFINE n == [h EXCEPT !.journal = Free]
<1>1. \/ a = Answer("refused", 0, h) \/ a = Answer("ok", 0, h)
      \/ a = Answer("ok", h.journal.id, n) /\ h.journal.kind = "cli" /\ h.engine = 0
  BY Zenon DEF CliRecover, May
<1>2. n \in Homes /\ n.journal = Free /\ n.leases = h.leases /\ n.engine = h.engine
      /\ n.engines = h.engines
  BY Zenon DEF Sound, Homes
<1> HIDE DEF n
<1>3. Sound(n)
  BY <1>2, Zenon DEF Sound, Own
<1>4. CASE a = Answer("refused", 0, h) \/ a = Answer("ok", 0, h)
  BY <1>4 DEF Answer, Moves, Results, Sound
<1>5. CASE a = Answer("ok", h.journal.id, n) /\ h.journal.kind = "cli" /\ h.engine = 0
  <2>1. a.home = n /\ a.res = "ok" /\ a.got = h.journal.id
    BY <1>5, Zenon DEF Answer
  <2>2. h.journal.id <= h.leases /\ h.journal.id \in Nat
    BY <1>5, Zenon DEF Sound
  <2> QED BY <1>2, <1>3, <1>5, <2>1, <2>2, Zenon DEF Moves, Results
<1> QED BY <1>1, <1>4, <1>5, Zenon

\* A stop that goes through leaves no lease of the engine it ended.
LEMMA StopMoves ==
    ASSUME NEW h, Sound(h), NEW by \in Nat, NEW a \in CliStop(h)
    PROVE  /\ Moves(h, a.home, by) /\ a.res \in Results /\ a.got = 0
           /\ a.res = "ok" => /\ a.home.engine = 0 /\ a.home.engines = h.engines
                              /\ ~(a.home.journal.kind = "cli" /\ a.home.journal.owner = h.engine)
           /\ a.res # "ok" => a.home = h
<1> USE Fields, JournalKinds
<1> DEFINE releases == h.engine # 0 /\ h.claim /\ Own(h)
           n == [h EXCEPT !.engine = 0, !.claim = FALSE, !.journal = IF releases THEN Free ELSE h.journal]
<1>0. releases \in BOOLEAN
  OBVIOUS
<1>1. a = Answer("refused", 0, h) \/ a = Answer("ok", 0, n)
  BY Zenon DEF CliStop, May
<1>2. n \in Homes /\ n.journal = (IF releases THEN Free ELSE h.journal) /\ n.leases = h.leases
      /\ n.engine = 0 /\ n.engines = h.engines
  BY Zenon DEF Sound, Homes
<1>3. h.journal.kind = "cli" /\ h.journal.owner = h.engine => releases
  BY DEF Sound, Own
<1> HIDE DEF n, releases
<1>4. n.journal \in {h.journal, Free} /\ (n.journal = h.journal => ~releases \/ h.journal = Free)
  BY <1>2, Zenon
<1>5. Sound(n)
  BY <1>2, <1>4 DEF Sound, Own
<1>6. CASE a = Answer("refused", 0, h)
  BY <1>6, Zenon DEF Answer, Moves, Results, Sound
<1>7. CASE a = Answer("ok", 0, n)
  <2>1. a.home = n /\ a.res = "ok" /\ a.got = 0
    BY <1>7, Zenon DEF Answer
  <2> QED BY <1>2, <1>3, <1>4, <1>5, <2>1, Zenon DEF Moves, Results
<1> QED BY <1>1, <1>6, <1>7, Zenon

LEMMA StartMoves ==
    ASSUME NEW h, Sound(h), NEW by \in Nat, NEW a \in Start(h)
    PROVE  Moves(h, a.home, by) /\ a.res \in Results /\ a.got = 0
<1> USE Fields, JournalKinds
<1>1. \/ a \in {Answer("refused", 0, h), Answer("ok", 0, h)}
      \/ \E b \in CliStop(h) : \/ b.res = "ok" /\ a = Answer("ok", 0, Fresh(b.home))
                               \/ a = Answer("refused", 0, b.home)
  BY DEF Start, May
<1>2. CASE a \in {Answer("refused", 0, h), Answer("ok", 0, h)}
  BY <1>2 DEF Answer, Moves, Results, Sound
<1>3. ASSUME NEW b \in CliStop(h), a = Answer("refused", 0, b.home)
      PROVE  Moves(h, a.home, by) /\ a.res \in Results /\ a.got = 0
  <2>1. a.home = b.home /\ a.res = "refused" /\ a.got = 0
    BY <1>3, Zenon DEF Answer
  <2> QED BY <2>1, StopMoves DEF Results
<1>4. ASSUME NEW b \in CliStop(h), b.res = "ok", a = Answer("ok", 0, Fresh(b.home))
      PROVE  Moves(h, a.home, by) /\ a.res \in Results /\ a.got = 0
  <2> DEFINE n == b.home
             f == Fresh(n)
  <2>1. Moves(h, n, by) /\ Sound(n)
    BY StopMoves, Zenon DEF Moves
  <2>2. /\ f \in Homes /\ f.journal = n.journal /\ f.leases = n.leases /\ f.engine = n.engines + 1
        /\ f.engines = n.engines + 1
    <3>1. n \in Homes /\ n.engines + 1 \in Nat
      BY <2>1 DEF Sound
    <3> HIDE DEF n
    <3>2. f = [n EXCEPT !.engine = n.engines + 1, !.engines = n.engines + 1, !.claim = FALSE]
      BY <3>1, Zenon DEF Fresh, Homes
    <3> QED BY <3>1, <3>2, Zenon DEF Homes
  <2> HIDE DEF n, f
  <2>3. Sound(f)
    BY <2>1, <2>2 DEF Sound, Own
  <2>4. Moves(h, f, by)
    BY <2>1, <2>2, <2>3, Zenon DEF Moves, Created
  <2>5. a.home = f /\ a.res = "ok" /\ a.got = 0
    BY <1>4, Zenon DEF Answer, f, n
  <2> QED BY <2>4, <2>5, Zenon DEF Results
<1> QED BY <1>1, <1>2, <1>3, <1>4, Zenon

LEMMA LogoutMoves ==
    ASSUME NEW h, Sound(h), NEW by \in Nat, NEW a \in Logout(h)
    PROVE  /\ Moves(h, a.home, by) /\ a.res \in Results /\ a.got = 0
           /\ h.engine # 0 /\ a.home.engine = 0 =>
                 ~(a.home.journal.kind = "cli" /\ a.home.journal.owner = h.engine)
<1> USE Fields, JournalKinds
<1>1. PICK b \in CliStop(h) : a = IF b.res = "ok" THEN Answer("ok", 0, [b.home EXCEPT !.conf = FALSE]) ELSE b
  BY Zenon DEF Logout
<1>2. CASE b.res # "ok"
  <2>1. a = b
    BY <1>1, <1>2, Zenon
  <2> QED BY <1>2, <2>1, StopMoves
<1>3. CASE b.res = "ok"
  <2> DEFINE n == b.home
             f == [n EXCEPT !.conf = FALSE]
  <2>1. Moves(h, n, by) /\ Sound(n)
    BY StopMoves, Zenon DEF Moves
  <2>2. /\ f \in Homes /\ f.journal = n.journal /\ f.leases = n.leases /\ f.engine = n.engine
        /\ f.engines = n.engines /\ f.claim = n.claim
    BY <2>1, Zenon DEF Sound, Homes
  <2>3. a.home = f /\ a.res = "ok" /\ a.got = 0
    BY <1>1, <1>3, Zenon DEF Answer
  <2>4. ~(n.journal.kind = "cli" /\ n.journal.owner = h.engine)
    BY <1>3, StopMoves
  <2> HIDE DEF n, f
  <2>5. Sound(f)
    BY <2>1, <2>2, Zenon DEF Sound, Own
  <2>6. Moves(h, f, by)
    BY <2>1, <2>2, <2>5 DEF Moves, Created
  <2> QED BY <2>2, <2>3, <2>4, <2>6, Zenon DEF Results
<1> QED BY <1>2, <1>3, Zenon

\* What any command does.
LEMMA CommandMoves ==
    ASSUME NEW h, Sound(h), NEW c \in Commands, c.op # "none", NEW a \in Effects(c, h)
    PROVE  /\ Moves(h, a.home, c.by) /\ a.res \in Results /\ a.got \in Nat /\ a.got <= a.home.leases
           /\ c.op = "acquire" /\ a.res = "ok" => Created(h, a.home, c.by) /\ a.got = a.home.leases
           /\ c.op = "release" /\ h.journal.kind = "cli" /\ a.home.journal # h.journal
                 => h.journal.id = c.id
           /\ c.op = "recover" /\ a.home.journal # h.journal => h.engine = 0
           /\ c.op \in {"stop", "logout"} /\ h.engine # 0 /\ a.home.engine = 0 =>
                 ~(a.home.journal.kind = "cli" /\ a.home.journal.owner = h.engine)
<1>1. c.by \in Nat /\ c.id \in Nat /\ c.op \in Ops
  BY DEF Commands
<1>2. h \in Homes /\ h.leases \in Nat
  BY Fields, Zenon DEF Sound
<1>3. ASSUME Moves(h, a.home, c.by) PROVE h.leases <= a.home.leases /\ a.home.leases \in Nat
  BY <1>2, <1>3, Fields DEF Moves, Sound, Created
<1>4. CASE c.op = "acquire"
  BY <1>1, <1>4, AcquireMoves DEF Effects
<1>5. CASE c.op = "release"
  <2>1. a \in CliRelease(h, c.id)
    BY <1>5 DEF Effects
  <2>2. Moves(h, a.home, c.by) /\ a.res \in Results /\ a.got \in Nat /\ a.got <= h.leases
        /\ (h.journal.kind = "cli" /\ a.home.journal # h.journal => h.journal.id = c.id)
    BY <1>1, <2>1, ReleaseMoves
  <2> QED BY <1>2, <1>3, <1>5, <2>2
<1>6. CASE c.op = "recover"
  <2>1. a \in CliRecover(h)
    BY <1>6 DEF Effects
  <2>2. Moves(h, a.home, c.by) /\ a.res \in Results /\ a.got \in Nat /\ a.got <= h.leases
        /\ (a.home.journal # h.journal => h.engine = 0)
    BY <1>1, <2>1, RecoverMoves, Zenon
  <2> QED BY <1>2, <1>3, <1>6, <2>2
<1>7. CASE c.op \in {"inspect", "status"}
  <2>1. a.home = h /\ a.res \in Results /\ a.got = 0
    BY <1>7 DEF Effects, Inspect, Status, Answer, Results
  <2> QED BY <1>2, <1>7, <2>1 DEF Moves
<1>8. CASE c.op = "start"
  <2>1. Moves(h, a.home, c.by) /\ a.res \in Results /\ a.got = 0
    BY <1>1, <1>8, StartMoves DEF Effects
  <2> QED BY <1>2, <1>3, <1>8, <2>1
<1>9. CASE c.op = "stop"
  <2>1. a \in CliStop(h)
    BY <1>9 DEF Effects
  <2>2. Moves(h, a.home, c.by) /\ a.res \in Results /\ a.got = 0
    BY <1>1, <2>1, StopMoves
  <2>3. h.engine # 0 /\ a.home.engine = 0 =>
           ~(a.home.journal.kind = "cli" /\ a.home.journal.owner = h.engine)
    BY <1>1, <2>1, StopMoves
  <2> QED BY <1>2, <1>3, <1>9, <2>2, <2>3
<1>10. CASE c.op = "logout"
  <2>1. a \in Logout(h)
    BY <1>10 DEF Effects
  <2>2. Moves(h, a.home, c.by) /\ a.res \in Results /\ a.got = 0
    BY <1>1, <2>1, LogoutMoves, Zenon
  <2>3. h.engine # 0 /\ a.home.engine = 0 =>
           ~(a.home.journal.kind = "cli" /\ a.home.journal.owner = h.engine)
    BY <1>1, <2>1, LogoutMoves, Zenon
  <2> QED BY <1>2, <1>3, <1>10, <2>2, <2>3
<1> QED BY <1>1, <1>4, <1>5, <1>6, <1>7, <1>8, <1>9, <1>10, Zenon DEF Ops

-----------------------------------------------------------------------------
LEMMA Initially == GuiInit => GuiIInv
<1> SUFFICES ASSUME GuiInit PROVE GuiIInv
  OBVIOUS
<1>1. Sound(home) /\ home.journal \in {Free, V1Journal, Foreign} /\ home.leases = 0
  BY JournalKinds DEF GuiInit, Sound, Own, Homes
<1> QED BY <1>1, NoCmdIs, JournalKinds DEF GuiInit, GuiIInv, GuiTypes, Session, Remembers, NoAction

\* A change of the home that is not the GUI's own command.
LEMMA HomeMoves ==
    ASSUME GuiIInv, UNCHANGED <<mine, cmd>>, orphan' \in {orphan, NoCmd}, NEW by, Moves(home, home', by)
    PROVE  GuiIInv'
<1> USE Fields, JournalKinds DEF mine
<1>1. GuiTypes'
  BY NoCmdIs, Zenon DEF GuiIInv, GuiTypes, Moves
<1>2. home.leases \in Nat /\ home'.leases \in Nat /\ home.leases <= home'.leases
      /\ cmd.got \in Nat /\ lease \in Nat
  BY DEF GuiIInv, GuiTypes, Moves, Sound, Created, Commands
<1>3. home'.journal = V1Journal => home.journal = V1Journal
  BY Zenon DEF Moves, Created
<1>4. Session'
  BY <1>3, Zenon DEF GuiIInv, Session
<1>5. Remembers'
  <2>1. CASE home'.journal \in {home.journal, Free}
    BY <1>2, <2>1 DEF GuiIInv, Remembers
  <2>2. CASE Created(home, home', by)
    BY <1>2, <2>2 DEF GuiIInv, Remembers, Created
  <2> QED BY <2>1, <2>2, Zenon DEF Moves
<1> QED BY <1>1, <1>4, <1>5, Zenon DEF GuiIInv

LEMMA RunsCommand == ASSUME GuiIInv, CmdRuns PROVE GuiIInv'
<1> USE DEF CmdRuns, mine
<1>1. PICK a \in Effects(cmd, home) :
        /\ home' = a.home
        /\ \E r \in {a.res} \cup May("lost", {"lost"}) : cmd' = [cmd EXCEPT !.res = r, !.got = a.got]
  BY Zenon
<1>2. PICK r \in {a.res, "lost"} : cmd' = [cmd EXCEPT !.res = r, !.got = a.got]
  BY <1>1, Zenon DEF May
<1>3. Sound(home) /\ cmd \in Commands /\ cmd # NoCmd /\ cmd.op # "none" /\ cmd.by = guis
  BY NoCmdIs, Zenon DEF GuiIInv, GuiTypes, Session
<1> HIDE DEF CmdRuns
<1>4. /\ Moves(home, home', guis) /\ a.res \in Results /\ a.got \in Nat /\ a.got <= home'.leases
      /\ cmd.op = "acquire" /\ a.res = "ok" => Created(home, home', guis) /\ a.got = home'.leases
  BY <1>1, <1>3, CommandMoves
<1>5. /\ cmd' \in Commands /\ cmd'.op = cmd.op /\ cmd'.by = cmd.by /\ cmd'.id = cmd.id
      /\ cmd'.got = a.got /\ cmd'.res = r /\ r \in Results
  BY <1>2, <1>3, <1>4, Zenon DEF Commands, Results
<1>6. UNCHANGED <<mine, orphan>>
  BY DEF CmdRuns
<1>7. GuiTypes'
  BY <1>4, <1>5, <1>6, Zenon DEF GuiIInv, GuiTypes, Moves
<1>8. home'.journal = V1Journal => home.journal = V1Journal
  BY <1>4, JournalKinds, Zenon DEF Moves, Created
<1>9. gui = "open" /\ act # NoAction
  BY <1>3, Zenon DEF GuiIInv, Session
<1>10. Session'
  BY <1>3, <1>5, <1>6, <1>8, <1>9, Zenon DEF GuiIInv, Session
<1>11. home.leases \in Nat /\ home'.leases \in Nat /\ home.leases <= home'.leases /\ lease \in Nat
  BY <1>4, Fields DEF GuiIInv, GuiTypes, Moves, Sound, Created
<1>12. Remembers'
  <2>1. lease' <= home'.leases /\ cmd'.got <= home'.leases
    BY <1>4, <1>5, <1>6, <1>11 DEF GuiIInv, Remembers
  <2>2. home'.journal.kind = "cli" /\ home'.journal.id = lease => home'.journal.by = guis
    BY <1>4, <1>11, JournalKinds, Zenon DEF GuiIInv, Remembers, Moves, Created
  <2>3. cmd'.op = "acquire" /\ cmd'.res = "ok" => home'.journal.by = guis
    BY <1>4, <1>5, Zenon DEF Created
  <2> QED BY <1>6, <2>1, <2>2, <2>3, Zenon DEF Remembers
<1> QED BY <1>7, <1>10, <1>12 DEF GuiIInv

LEMMA FailsCommand == ASSUME GuiIInv, CmdFails PROVE GuiIInv'
<1> USE DEF mine
<1>1. UNCHANGED <<home, mine, orphan>> /\ cmd' = [cmd EXCEPT !.res = "lost"] /\ cmd \in Commands
      /\ cmd # NoCmd
  BY NoCmdIs, Zenon DEF CmdFails, GuiIInv, GuiTypes
<1>2. /\ cmd' \in Commands /\ cmd'.op = cmd.op /\ cmd'.by = cmd.by /\ cmd'.id = cmd.id
      /\ cmd'.got = cmd.got /\ cmd'.res = "lost"
  BY <1>1, Zenon DEF Commands, Results
<1>3. gui = "open" /\ act # NoAction
  BY <1>1, Zenon DEF GuiIInv, Session
<1> QED BY <1>1, <1>2, <1>3, Zenon DEF GuiIInv, GuiTypes, Session, Remembers

\* restore_legacy frees a v1 journal or leaves the home.
LEMMA GuiLegacyRestored ==
    ASSUME GuiIInv, NEW ok \in BOOLEAN, RestoreLegacyProxy(ok)
    PROVE  /\ Sound(home') /\ home'.leases = home.leases
           /\ home'.journal \in {home.journal, Free}
           /\ ok => home'.journal # V1Journal
<1>1. home \in Homes /\ Sound(home)
  BY Zenon DEF GuiIInv, GuiTypes, Sound
<1>2. CASE home' = home /\ (ok => home.journal # V1Journal)
  BY <1>1, <1>2
<1>3. CASE home' = [home EXCEPT !.journal = Free]
  BY <1>1, <1>3, JournalKinds, Zenon DEF Sound, Own, Homes
<1> QED BY <1>2, <1>3, Zenon DEF RestoreLegacyProxy

\* A step of the GUI with the home restored or left and at most a new command.
LEMMA GuiMoves ==
    ASSUME GuiIInv, UNCHANGED guis, UNCHANGED orphan, Sound(home'), home'.leases = home.leases,
           home'.journal \in {home.journal, Free},
           lease' \in {lease, 0} \/ (lease' = cmd.got /\ cmd.op = "acquire" /\ cmd.res = "ok"),
           \/ cmd' = NoCmd
           \/ gui' = "open" /\ act' # NoAction /\ \E how \in Ops \ {"none"}, id \in Nat :
                 /\ Call(how, id)
                 /\ how = "release" => id = lease' /\ lease' # 0
                 /\ how \in {"stop", "logout"} => home'.journal # V1Journal
    PROVE  GuiIInv'
<1> USE Fields, JournalKinds, NoCmdIs
<1>1. lease' \in Nat /\ home.leases \in Nat /\ cmd.got \in Nat /\ lease \in Nat
  BY Zenon DEF GuiIInv, GuiTypes, Commands, Sound
<1>2. lease' <= home'.leases
  BY <1>1 DEF GuiIInv, Remembers
<1>3. home'.journal.kind = "cli" /\ home'.journal.id = lease' => home'.journal.by = guis
  BY <1>1 DEF GuiIInv, Remembers, GuiTypes, Sound
<1>4. CASE cmd' = NoCmd
  <2>1. GuiTypes'
    BY <1>1, <1>4, Zenon DEF GuiIInv, GuiTypes
  <2>2. Session'
    BY <1>4, Zenon DEF GuiIInv, Session
  <2>3. Remembers'
    BY <1>1, <1>2, <1>3, <1>4 DEF Remembers
  <2> QED BY <2>1, <2>2, <2>3, Zenon DEF GuiIInv
<1>5. CASE cmd' # NoCmd
  <2>1. gui' = "open" /\ act' # NoAction
    BY <1>5, Zenon
  <2>2. PICK how \in Ops \ {"none"}, id \in Nat :
           /\ Call(how, id)
           /\ how = "release" => id = lease' /\ lease' # 0
           /\ how \in {"stop", "logout"} => home'.journal # V1Journal
    BY <1>5, Zenon
  <2>3. guis \in Nat
    BY Zenon DEF GuiIInv, GuiTypes
  <2>4. /\ cmd' \in Commands /\ cmd'.op = how /\ cmd'.id = id /\ cmd'.by = guis
        /\ cmd'.res = "sent" /\ cmd'.got = 0
    BY <2>2, <2>3, Zenon DEF Call, Commands, Results
  <2>5. GuiTypes'
    BY <1>1, <2>1, <2>2, <2>4, Zenon DEF GuiIInv, GuiTypes
  <2>6. Session'
    BY <1>1, <2>1, <2>2, <2>4, Zenon DEF GuiIInv, GuiTypes, Session
  <2>7. Remembers'
    BY <1>1, <1>2, <1>3, <2>4 DEF Remembers
  <2> QED BY <2>5, <2>6, <2>7, Zenon DEF GuiIInv
<1> QED BY <1>4, <1>5, Zenon

LEMMA Launches == ASSUME GuiIInv, Launch PROVE GuiIInv'
<1> USE DEF Launch
<1>1. cmd = NoCmd
  BY Zenon DEF GuiIInv, Session
<1>2. home \in Homes /\ home.leases \in Nat /\ home.journal \in Journals
  BY Fields, Zenon DEF GuiIInv, GuiTypes, Sound
<1>3. GuiTypes' /\ Session'
  BY <1>1, <1>2, NoCmdIs DEF GuiIInv, GuiTypes, Session
<1>4. Remembers'
  BY <1>1, <1>2, NoCmdIs, JournalKinds, Zenon DEF GuiIInv, GuiTypes, Remembers
<1> QED BY <1>3, <1>4 DEF GuiIInv

LEMMA Crashes == ASSUME GuiIInv, GuiCrash PROVE GuiIInv'
<1> USE DEF GuiCrash
<1>1. home \in Homes /\ home.leases \in Nat /\ home.journal \in Journals
  BY Fields, Zenon DEF GuiIInv, GuiTypes, Sound
<1>2. cmd.res = "sent" => cmd # NoCmd /\ cmd.op # "none"
  BY NoCmdIs, Zenon DEF GuiIInv, Session
<1>3. orphan' \in Commands /\ (orphan' # NoCmd => orphan'.op # "none")
  BY <1>2, NoCmdIs, Zenon DEF GuiIInv, GuiTypes, Session
<1> QED BY <1>1, <1>3, NoCmdIs, JournalKinds DEF GuiIInv, GuiTypes, Session, Remembers

LEMMA StartsUp == ASSUME GuiIInv, StartupBegins PROVE GuiIInv'
<1> USE DEF StartupBegins
<1>1. Sound(home') /\ home' = home /\ UNCHANGED <<guis, orphan, lease, gui>> /\ gui = "open" /\ act = NoAction
      /\ cmd = NoCmd
  BY Zenon DEF GuiIInv, GuiTypes, Session, BeginAction
<1>2. \/ cmd' = NoCmd
      \/ act' = [op |-> "startup", arg |-> home.journal.kind] /\ \E how \in {"status", "inspect"} : Call(how, 0)
  BY <1>1, Zenon
<1> HIDE DEF StartupBegins
<1>3. [op |-> "startup", arg |-> home.journal.kind] # NoAction
  BY Zenon DEF NoAction
<1> QED BY <1>1, <1>2, <1>3, GuiMoves, Zenon DEF Ops

LEMMA Inspected == ASSUME GuiIInv, StartupInspected PROVE GuiIInv'
<1>1. /\ Sound(home') /\ home' = home /\ UNCHANGED <<guis, orphan, lease>> /\ gui' = "open"
      /\ \/ cmd' = NoCmd
         \/ act' = act /\ Call("status", 0)
  BY Zenon DEF GuiIInv, GuiTypes, StartupInspected, Answered, Done
<1>2. act # NoAction
  BY NoCmdIs, Zenon DEF GuiIInv, Session, StartupInspected, Answered
<1> QED BY <1>1, <1>2, GuiMoves DEF Ops

LEMMA StatusKnown == ASSUME GuiIInv, StartupStatus PROVE GuiIInv'
<1>1. act # NoAction /\ gui' = "open" /\ UNCHANGED <<guis, orphan, lease>>
  BY NoCmdIs, Zenon DEF GuiIInv, Session, StartupStatus, Answered
<1>2. Sound(home') /\ home'.leases = home.leases /\ home'.journal \in {home.journal, Free}
  BY GuiLegacyRestored, Zenon DEF StartupStatus, GuiIInv, GuiTypes
<1>3. cmd' = NoCmd \/ (act' = act /\ Call("recover", 0))
  BY Zenon DEF StartupStatus, Done
<1> QED BY <1>1, <1>2, <1>3, GuiMoves DEF Ops

LEMMA Connects == ASSUME GuiIInv, NEW global, Connect(global) PROVE GuiIInv'
<1>1. gui' = "open" /\ UNCHANGED <<guis, orphan, lease>> /\ cmd = NoCmd
  BY Zenon DEF GuiIInv, Session, Connect, BeginAction
<1>2. Sound(home') /\ home'.leases = home.leases /\ home'.journal \in {home.journal, Free}
  BY GuiLegacyRestored, Zenon DEF Connect
<1>3. cmd' = cmd \/ (act' = [op |-> "connect", arg |-> global] /\ Call("start", 0))
  BY Zenon DEF Connect
<1>4. [op |-> "connect", arg |-> global] # NoAction
  BY DEF NoAction
<1> QED BY <1>1, <1>2, <1>3, <1>4, GuiMoves DEF Ops

LEMMA Started == ASSUME GuiIInv, ConnectStarted PROVE GuiIInv'
<1>1. /\ Sound(home') /\ home' = home /\ UNCHANGED <<guis, orphan, lease>> /\ gui' = "open"
      /\ \/ cmd' = NoCmd
         \/ act' = act /\ Call("acquire", 0)
  BY Zenon DEF GuiIInv, GuiTypes, ConnectStarted, Answered, Done
<1>2. act # NoAction
  BY NoCmdIs, Zenon DEF GuiIInv, Session, ConnectStarted, Answered
<1> QED BY <1>1, <1>2, GuiMoves DEF Ops

LEMMA Acquired == ASSUME GuiIInv, ConnectAcquired PROVE GuiIInv'
<1>1. Sound(home') /\ home' = home /\ UNCHANGED <<guis, orphan>> /\ cmd' = NoCmd
  BY Zenon DEF GuiIInv, GuiTypes, ConnectAcquired, Done
<1>2. lease' \in {lease, 0} \/ (lease' = cmd.got /\ cmd.op = "acquire" /\ cmd.res = "ok")
  BY Zenon DEF ConnectAcquired, Answered, Remembered
<1> QED BY <1>1, <1>2, GuiMoves, Zenon

LEMMA Disconnects == ASSUME GuiIInv, NEW how \in {"disconnect", "logout"}, Disconnect(how) PROVE GuiIInv'
<1>1. gui' = "open" /\ UNCHANGED <<guis, orphan, lease>> /\ cmd = NoCmd
  BY Zenon DEF GuiIInv, Session, Disconnect, BeginAction
<1>2. PICK ok \in BOOLEAN :
        /\ RestoreLegacyProxy(ok)
        /\ IF ok THEN act' = [op |-> how, arg |-> "none"] /\ Call("stop", 0) ELSE UNCHANGED <<act, cmd>>
  BY Zenon DEF Disconnect
<1>3. Sound(home') /\ home'.leases = home.leases /\ home'.journal \in {home.journal, Free}
      /\ (ok => home'.journal # V1Journal)
  BY <1>2, GuiLegacyRestored, Zenon
<1>4. CASE ~ok
  BY <1>1, <1>2, <1>3, <1>4, GuiMoves, Zenon
<1>5. CASE ok
  <2>1. act' # NoAction
    BY <1>2, <1>5 DEF NoAction
  <2> QED BY <1>1, <1>2, <1>3, <1>5, <2>1, GuiMoves, Zenon DEF Ops
<1> QED BY <1>4, <1>5

LEMMA Stopped == ASSUME GuiIInv, DisconnectStopped PROVE GuiIInv'
<1>1. /\ Sound(home') /\ home' = home /\ UNCHANGED <<guis, orphan>> /\ gui' = "open"
      /\ lease' \in {lease, 0}
      /\ \/ cmd' = NoCmd
         \/ act' = act /\ Call("logout", 0)
  BY Zenon DEF GuiIInv, GuiTypes, DisconnectStopped, Answered, Done
<1>2. act # NoAction /\ home.journal # V1Journal
  BY NoCmdIs, Zenon DEF GuiIInv, Session, DisconnectStopped, Answered
<1> QED BY <1>1, <1>2, GuiMoves, Zenon DEF Ops

LEMMA Quits == ASSUME GuiIInv, Quit PROVE GuiIInv'
<1>1. gui = "open" /\ act = NoAction /\ UNCHANGED <<guis, orphan>> /\ cmd = NoCmd /\ lease \in Nat
  BY Zenon DEF GuiIInv, Session, GuiTypes, Quit, BeginAction
<1>2. Sound(home') /\ home'.leases = home.leases /\ home'.journal \in {home.journal, Free}
  BY GuiLegacyRestored, Zenon DEF Quit, GuiIInv, GuiTypes
<1>3. \/ cmd' = cmd /\ lease' \in {lease, 0}
      \/ /\ act' = [op |-> "quit", arg |-> "none"] /\ Call("release", lease) /\ lease # 0
         /\ UNCHANGED <<gui, lease>>
  BY DEF Quit, Exit
<1>4. [op |-> "quit", arg |-> "none"] # NoAction
  BY DEF NoAction
<1> QED BY <1>1, <1>2, <1>3, <1>4, GuiMoves DEF Ops

\* Steps that end an action of the GUI.
LEMMA GuiEnds == ASSUME GuiIInv, StartupRecovered \/ LoggedOut \/ QuitReleased PROVE GuiIInv'
<1>1. Sound(home') /\ home' = home /\ UNCHANGED <<guis, orphan>> /\ cmd' = NoCmd /\ lease' \in {lease, 0}
  BY Zenon DEF GuiIInv, GuiTypes, StartupRecovered, LoggedOut, QuitReleased, Done, Exit
<1> QED BY <1>1, GuiMoves, Zenon

LEMMA OthersMove ==
    ASSUME GuiIInv, Login \/ OrphanRuns \/ SdkCalls \/ SdkReleases \/ ForeignReleases \/ CliEngineDies
    PROVE  GuiIInv'
<1>0. home \in Homes /\ Sound(home) /\ orphan \in Commands
  BY Zenon DEF GuiIInv, GuiTypes, Sound
<1>1. CASE Login
  <2>1. home' = [home EXCEPT !.conf = TRUE]
    BY <1>1 DEF Login
  <2>2. Moves(home, home', 0)
    BY <1>0, <2>1, Fields, Zenon DEF Moves, Sound, Own, Homes
  <2> QED BY <1>1, <2>2, HomeMoves, Zenon DEF Login
<1>2. CASE OrphanRuns
  <2>1. Moves(home, home', orphan.by)
    BY <1>0, <1>2, CommandMoves, Zenon DEF OrphanRuns, GuiIInv, Session
  <2> QED BY <1>2, <2>1, HomeMoves, Zenon DEF OrphanRuns
<1>3. CASE SdkCalls
  <2>1. PICK o \in {"start", "stop", "acquire"} :
           \E a \in Effects([NoCmd EXCEPT !.op = o, !.by = Sdk], home) : home' = a.home
    BY <1>3 DEF SdkCalls
  <2> DEFINE c == [NoCmd EXCEPT !.op = o, !.by = Sdk]
  <2>2. c \in Commands /\ c.op # "none"
    BY Zenon DEF NoCmd, Sdk, Commands, Ops, Results
  <2>3. \E a \in Effects(c, home) : home' = a.home
    BY <2>1
  <2> HIDE DEF c
  <2>4. Moves(home, home', c.by)
    BY <1>0, <2>2, <2>3, CommandMoves, Zenon
  <2> QED BY <1>3, <2>4, HomeMoves, Zenon DEF SdkCalls
<1>4. CASE SdkReleases
  <2>1. home.journal.id \in Nat
    BY <1>0, <1>4, Fields, JournalKinds, Zenon DEF SdkReleases
  <2>2. Moves(home, home', 0)
    BY <1>0, <1>4, <2>1, ReleaseMoves DEF SdkReleases
  <2> QED BY <1>4, <2>2, HomeMoves, Zenon DEF SdkReleases
<1>5. CASE ForeignReleases
  <2>1. home' = [home EXCEPT !.journal = Free]
    BY <1>5 DEF ForeignReleases
  <2>2. /\ home' \in Homes /\ home'.journal = Free /\ home'.leases = home.leases
        /\ home'.engine = home.engine /\ home'.engines = home.engines
    BY <1>0, <2>1, JournalKinds, Zenon DEF Homes
  <2>3. Sound(home')
    BY <1>0, <2>2, JournalKinds, Zenon DEF Sound, Own
  <2>4. Moves(home, home', 0)
    BY <2>2, <2>3 DEF Moves
  <2> QED BY <1>5, <2>4, HomeMoves DEF ForeignReleases
<1>6. CASE CliEngineDies
  <2>1. home' = [home EXCEPT !.engine = 0, !.claim = FALSE]
    BY <1>6 DEF CliEngineDies
  <2>2. /\ home' \in Homes /\ home'.journal = home.journal /\ home'.leases = home.leases
        /\ home'.engine = 0 /\ home'.engines = home.engines
    BY <1>0, <2>1, Zenon DEF Homes
  <2>3. Sound(home')
    BY <1>0, <2>2, Fields, JournalKinds DEF Sound, Own
  <2>4. Moves(home, home', 0)
    BY <2>2, <2>3 DEF Moves
  <2> QED BY <1>6, <2>4, HomeMoves DEF CliEngineDies
<1> QED BY <1>1, <1>2, <1>3, <1>4, <1>5, <1>6

LEMMA Inductive == ASSUME GuiIInv, [GuiNext]_guiVars PROVE GuiIInv'
<1>1. CASE UNCHANGED guiVars
  <2>1. Moves(home, home', 0)
    BY <1>1 DEF guiVars, Moves, GuiIInv, GuiTypes
  <2> QED BY <1>1, <2>1, HomeMoves DEF guiVars
<1>2. CASE UserActs
  BY <1>2, Launches, OthersMove, Quits, Connects, Disconnects DEF UserActs
<1>3. CASE GuiSteps
  BY <1>3, StartsUp, Inspected, StatusKnown, Started, Acquired, Stopped, GuiEnds DEF GuiSteps
<1> QED BY <1>1, <1>2, <1>3, RunsCommand, FailsCommand, OthersMove, Crashes DEF GuiNext

LEMMA Invariant == GuiSpec => []GuiIInv
  BY Initially, Inductive, PTL DEF GuiSpec

-----------------------------------------------------------------------------
\* A release the GUI asks for gives back only a lease its session created, and a
\* recovery takes none from a running engine (remember_gui_lease).
THEOREM OnlyItsOwnIsTaken == GuiSpec => TakesOnlyItsOwn
<1> DEFINE A == CmdRuns /\ home.journal.kind = "cli" /\ home'.journal # home.journal =>
                   /\ cmd.op = "release" => home.journal.by = cmd.by
                   /\ cmd.op = "recover" => home.engine = 0
<1>1. GuiIInv => A
  <2> SUFFICES ASSUME GuiIInv, CmdRuns, home.journal.kind = "cli", home'.journal # home.journal
               PROVE  /\ cmd.op = "release" => home.journal.by = cmd.by
                      /\ cmd.op = "recover" => home.engine = 0
    BY Zenon
  <2>1. Sound(home) /\ cmd \in Commands /\ cmd.op # "none" /\ cmd.by = guis
    BY NoCmdIs, Zenon DEF CmdRuns, GuiIInv, GuiTypes, Session
  <2>2. /\ cmd.op = "release" => home.journal.id = cmd.id
        /\ cmd.op = "recover" => home.engine = 0
    BY <2>1, CommandMoves DEF CmdRuns
  <2> QED BY <2>1, <2>2, Zenon DEF GuiIInv, Session, Remembers
<1>2. GuiIInv => [A]_guiVars
  BY <1>1, Zenon
<1> QED BY <1>2, Invariant, PTL DEF TakesOnlyItsOwn

\* When the engine ends at the GUI's request neither a journal of an older GUI nor a
\* lease of that engine is left (disconnect_inner).
THEOREM NothingIsLeft == GuiSpec => StopLeavesNothing
<1> DEFINE A == CmdRuns /\ cmd.op \in {"stop", "logout"} /\ home.engine # 0 /\ home'.engine = 0 =>
                   /\ home'.journal # V1Journal
                   /\ home'.journal.kind = "cli" => home'.journal.owner # home.engine
<1>1. GuiIInv => A
  <2> SUFFICES ASSUME GuiIInv, CmdRuns, cmd.op \in {"stop", "logout"}, home.engine # 0, home'.engine = 0
               PROVE  /\ home'.journal # V1Journal
                      /\ home'.journal.kind = "cli" => home'.journal.owner # home.engine
    BY Zenon
  <2>1. Sound(home) /\ cmd \in Commands /\ cmd.op # "none" /\ cmd.by = guis
    BY NoCmdIs, Zenon DEF CmdRuns, GuiIInv, GuiTypes, Session
  <2>2. Moves(home, home', guis) /\ ~(home'.journal.kind = "cli" /\ home'.journal.owner = home.engine)
    BY <2>1, CommandMoves DEF CmdRuns
  <2>3. home'.journal # V1Journal
    BY <2>2, JournalKinds, Zenon DEF GuiIInv, Session, Moves, Created
  <2> QED BY <2>2, <2>3, Zenon
<1>2. GuiIInv => [A]_guiVars
  BY <1>1, Zenon
<1> QED BY <1>2, Invariant, PTL DEF StopLeavesNothing
=============================================================================
