------------------------- MODULE DeviceAuthorityProofs -------------------------
(***************************************************************************)
(* Proofs about DeviceAuthority, for every set of devices, keys and        *)
(* addresses, and any number of generations and restarts.                  *)
(*                                                                         *)
(* A step is first reduced to what it does to the variables the properties *)
(* are about (Step below); the invariant is then shown one part at a time. *)
(* Ledger is about the database alone.  Ours says that the durable intents *)
(* are what separates the authority's peers from foreign ones.  Fresh says *)
(* what the phases of Process know of a runtime that has not restarted     *)
(* since: a restart puts every device in drift, and Verify takes one out.  *)
(***************************************************************************)
EXTENDS DeviceAuthority, TLAPS

desired == <<state, gen, cur, reserved, bdev, baddr, revoked>>
record == <<applied, bapplied, intents>>
network == <<runtime, foreign, drift>>
process == <<pc, pdev, before, todo>>

Working == {"act", "expired"}

Types ==
    /\ state \in [Device -> {"none", "active", "disabled", "expired", "revoked"}]
    /\ gen \in [Device -> Nat] /\ applied \in [Device -> Nat]
    /\ cur \in [Device -> Key \cup {None}]
    /\ reserved \in [Address -> Device \cup {None}]
    /\ bdev \in [Key -> Device \cup {None}] /\ baddr \in [Key -> Address \cup {None}]
    /\ revoked \in [Key -> Nat] /\ bapplied \subseteq Key
    /\ runtime \in [Key -> Address \cup {None}] /\ before \in [Key -> Address \cup {None}]
    /\ foreign \subseteq Key /\ drift \subseteq Device /\ restarts \in Nat
    /\ pc \in {"idle", "snapshot", "plan", "act", "expired", "commit"}
    /\ pc # "idle" => pdev \in Device
    /\ todo \subseteq {"apply", "remove"} \X Key
    /\ pc \in {"idle", "snapshot", "plan"} => todo = {}

\* The keys and addresses of a device, in the database.
Ledger ==
    /\ \A k \in Key : bdev[k] = None => baddr[k] = None /\ revoked[k] = 0 /\ ~HasIntent(k)
    /\ \A k \in Key : bdev[k] # None =>
          /\ baddr[k] \in Address /\ reserved[baddr[k]] = bdev[k]
          /\ revoked[k] = 0 => cur[bdev[k]] = k
    /\ \A d \in Device : cur[d] # None =>
          bdev[cur[d]] = d /\ revoked[cur[d]] = 0 /\ state[d] = "active"
    /\ \A d \in Device : applied[d] <= gen[d]

\* What is still to be done is about keys of the device, and recorded.
Tasks ==
    \A t \in todo :
        /\ bdev[t[2]] = pdev
        /\ t[1] = "apply" => t[2] = cur[pdev] /\ HasIntent(t[2])
        /\ t[1] = "remove" => revoked[t[2]] > 0

\* The peers of the authority, and the foreign ones.
Ours ==
    /\ PeersAreAccountable
    /\ \A k \in bapplied : HasIntent(k)
    /\ pc = "commit" /\ cur[pdev] # None => HasIntent(cur[pdev])
    /\ \A j, k \in foreign : j = k
    /\ \A j \in foreign :
          /\ runtime[j] # None /\ ~HasIntent(j)
          /\ \A k \in Key : HasIntent(k) => baddr[k] # runtime[j]
          /\ pc = "plan" => before[j] = runtime[j]
          /\ pc \in Working \cup {"commit"} => cur[pdev] # j /\ \A t \in todo : t[2] # j

\* Since the last restart.
Fresh ==
    pc # "idle" /\ pdev \notin drift =>
        /\ pc = "plan" => \A k \in BindingsOf(pdev) : before[k] = runtime[k]
        /\ pc \in Working =>
            /\ \A k \in BindingsOf(pdev) :
                  revoked[k] > 0 /\ runtime[k] # None => <<"remove", k>> \in todo
            /\ gen[pdev] > 0 /\ applied[pdev] = gen[pdev] => todo = {}
        /\ pc = "commit" => Matches(pdev)

IInv == Types /\ Ledger /\ Tasks /\ Ours /\ Fresh /\ AddressesStayApart /\ AppliedIsInstalled

-----------------------------------------------------------------------------
(* What a step does *)

Ended == pc' = "idle" /\ todo' = {} /\ before' = runtime'

Revokes(d) ==
    /\ gen' = [gen EXCEPT ![d] = gen[d] + 1]
    /\ revoked' = [k \in Key |->
                      IF bdev[k] = d /\ revoked[k] = 0 THEN gen[d] + 1 ELSE revoked[k]]

Quiet == UNCHANGED <<desired, record, network, restarts, process>>

Enrolled(d) ==
    /\ state[d] = "none" /\ state' = [state EXCEPT ![d] = "active"]
    /\ UNCHANGED <<gen, cur, reserved, bdev, baddr, revoked, record, network, restarts, process>>

Granted(d, k, a) ==
    /\ pc = "idle" /\ state[d] = "active" /\ bdev[k] = None /\ reserved[a] \in {None, d}
    /\ Revokes(d)
    /\ reserved' = [reserved EXCEPT ![a] = d]
    /\ bdev' = [bdev EXCEPT ![k] = d] /\ baddr' = [baddr EXCEPT ![k] = a]
    /\ cur' = [cur EXCEPT ![d] = k]
    /\ UNCHANGED <<state, record, network, restarts, process>>

Withdrawn(d, s) ==
    /\ state[d] # "none" /\ (state[d] = "revoked" => s = "revoked")
    /\ Revokes(d)
    /\ state' = [state EXCEPT ![d] = s] /\ cur' = [cur EXCEPT ![d] = None]
    /\ UNCHANGED <<reserved, bdev, baddr, record, network, restarts>>
    /\ (pc = "idle" /\ UNCHANGED process) \/ Ended

Claimed(d) ==
    /\ pc = "idle" /\ pc' = "snapshot" /\ pdev' = d
    /\ UNCHANGED <<desired, record, network, restarts, before, todo>>

Snapped ==
    /\ pc = "snapshot" /\ pc' = "plan" /\ before' = runtime
    /\ UNCHANGED <<desired, record, network, restarts, pdev, todo>>

Planned ==
    /\ pc = "plan" /\ pc' = "act" /\ ~PlanRefused(pdev)
    /\ intents' = intents \cup {<<pdev, gen[pdev], t[2], t[1]>> : t \in PlanActions(pdev)}
    /\ todo' = PlanActions(pdev)
    /\ UNCHANGED <<desired, applied, bapplied, network, restarts, pdev, before>>

Acted(t) ==
    /\ pc = "act" /\ (t[1] = "apply" => \A u \in todo : u[1] # "remove")
    /\ runtime' = [runtime EXCEPT ![t[2]] = IF t[1] = "apply" THEN baddr[t[2]] ELSE None]
    /\ UNCHANGED <<desired, record, foreign, drift, restarts>>
    /\ \/ Ended
       \/ pc' \in Working /\ todo' = todo \ {t} /\ UNCHANGED <<pdev, before>>

Checked ==
    /\ pc = "act" /\ pc' = "commit" /\ todo = {} /\ Verified(pdev)
    /\ drift' = drift \ {pdev}
    /\ UNCHANGED <<desired, record, runtime, foreign, restarts, pdev, before, todo>>

Committed ==
    /\ pc = "commit" /\ Ended
    /\ applied' = [applied EXCEPT ![pdev] = gen[pdev]]
    /\ bapplied' = bapplied \cup ({cur[pdev]} \ {None})
    /\ UNCHANGED <<desired, intents, network, restarts>>

Dropped == Ended /\ UNCHANGED <<desired, record, network, restarts>>

Restarted(back) ==
    /\ runtime' = [k \in Key |-> IF k \in foreign THEN runtime[k]
                                ELSE IF k \in back THEN baddr[k] ELSE None]
    /\ restarts' = restarts + 1 /\ drift' = Device
    /\ UNCHANGED <<desired, record, foreign, process>>

Step ==
    \/ Quiet \/ Snapped \/ Planned \/ Checked \/ Committed \/ Dropped
    \/ \E d \in Device : Enrolled(d) \/ Claimed(d)
    \/ \E d \in Device, k \in Key, a \in Address : Granted(d, k, a)
    \/ \E d \in Device, s \in {"disabled", "expired", "revoked"} : Withdrawn(d, s)
    \/ \E t \in todo : Acted(t)
    \/ \E back \in SUBSET (Present(runtime) \cup bapplied) : Restarted(back)

\* A withdrawal by Submit, SweepExpiry or an expiry Process observes.
LEMMA WithdrawCases ==
    ASSUME Types, NEW d \in Device, NEW act \in {"disable", "expire", "revoke"}, NEW box,
           Withdraw(d, act, box), UNCHANGED world,
           (pc = "idle" /\ UNCHANGED proc) \/ EndProcess
    PROVE  \E s \in {"disabled", "expired", "revoked"} : Withdrawn(d, s)
<1> DEFINE s == IF state[d] = "revoked" THEN "revoked" ELSE StateAfter(act)
<1>1. s \in {"disabled", "expired", "revoked"} /\ (state[d] = "revoked" => s = "revoked")
  BY DEF StateAfter
<1>2. state' = [state EXCEPT ![d] = s]
  BY Zenon DEF Withdraw, Types
<1>3. Revokes(d)
  BY Zenon DEF Withdraw, NewGeneration, Revokes
<1>4. (pc = "idle" /\ UNCHANGED process) \/ Ended
  BY DEF proc, process, EndProcess, Ended
<1>5. cur' = [cur EXCEPT ![d] = None] /\ state[d] # "none"
      /\ UNCHANGED <<reserved, bdev, baddr, record, network, restarts>>
  BY DEF Withdraw, world, network, record
<1> HIDE DEF s
<1> QED BY <1>1, <1>2, <1>3, <1>4, <1>5, Zenon DEF Withdrawn

\* Every step of the authority is one of the above.
LEMMA StepCases ==
    ASSUME Types, [Next]_vars
    PROVE  Step
<1> USE DEF Step
<1>1. CASE UNCHANGED vars
  BY <1>1, Zenon DEF vars, devices, bindings, jobs, world, proc,
     Quiet, desired, record, network, process
<1>2. ASSUME NEW d \in Device, Enroll(d) PROVE Step
  BY <1>2, Zenon DEF Enroll, bindings, jobs, world, proc, Enrolled, record, network, process
<1>3. ASSUME NEW d \in Device, RefuseOverdue(d) PROVE Step
  BY <1>3, Zenon DEF RefuseOverdue, devices, bindings, world, proc,
     Quiet, desired, record, network, process
<1>4. ASSUME NEW d \in Device, Lapse(d) PROVE Step
  BY <1>4, Zenon DEF Lapse, bindings, jobs, world, proc,
     Quiet, desired, record, network, process
<1>5. ASSUME NEW d \in Device, Claim(d) PROVE Step
  BY <1>5, Zenon DEF Claim, FenceFree, devices, bindings, world,
     Claimed, desired, record, network
<1>6. ASSUME NEW d \in Device, NEW k \in Key, NEW a \in Address, SubmitApply(d, k, a)
      PROVE  Step
  <2>1. Revokes(d)
    BY <1>6, Zenon DEF SubmitApply, NewGeneration, Revokes
  <2> QED BY <1>6, <2>1, Zenon DEF SubmitApply, FenceFree, world, proc,
             Granted, record, network, process
<1>7. ASSUME NEW d \in Device, NEW act \in {"disable", "expire", "revoke"},
             SubmitWithdraw(d, act)
      PROVE  Step
  BY <1>7, WithdrawCases DEF SubmitWithdraw, FenceFree
<1>8. ASSUME NEW d \in Device, SweepExpiry(d) PROVE Step
  BY <1>8, WithdrawCases DEF SweepExpiry, expireLocked, FenceFree
<1>9. CASE ProcessExpires
  BY <1>9, WithdrawCases, Zenon DEF ProcessExpires, expireLocked, Types
<1>10. CASE (\E o \in Op : ClaimSuperseded(o)) \/ RefreshDeadlines \/ BudgetElapses
  BY <1>10, Zenon DEF ClaimSuperseded, RefreshDeadlines, BudgetElapses, devices, bindings,
     world, proc, Quiet, desired, record, network, process
<1>11. CASE Snapshot
  BY <1>11, Zenon DEF Snapshot, devices, bindings, jobs, world,
     Snapped, desired, record, network
<1>12. CASE Plan
  BY <1>12, Zenon DEF Plan, devices, bindings, world, Planned, desired, network
<1>13. CASE Verify
  BY <1>13, Zenon DEF Verify, devices, bindings, jobs, Checked, desired, record
<1>14. CASE Commit
  BY <1>14, Zenon DEF Commit, EndProcess, Ended, world, Committed, desired, network
<1>15. CASE PlanFails \/ VerifyFails \/ StepUnknown
  BY <1>15, Zenon DEF PlanFails, VerifyFails, StepUnknown, Fail, EndProcess, Ended,
     devices, bindings, Dropped, desired, record, network
<1>16. CASE Crash
  BY <1>16, Zenon DEF Crash, EndProcess, Ended, devices, bindings, jobs, world,
     Dropped, desired, record, network
<1>17. ASSUME NEW t \in todo, Act(t) PROVE Step
  <2>1. pc' \in Working
    BY <1>17 DEF Act, Effect, Working
  <2> QED BY <1>17, <2>1, Zenon DEF Act, Effect, devices, bindings, jobs,
             Acted, desired, record
<1>18. ASSUME NEW t \in todo, ActUnknown(t) PROVE Step
  BY <1>18, Zenon DEF ActUnknown, Effect, Fail, EndProcess, Ended, devices, bindings,
     Acted, desired, record
<1>19. CASE RuntimeRestart
  BY <1>19, Zenon DEF RuntimeRestart, devices, bindings, jobs, proc,
     Restarted, desired, record, process
<1> QED
  BY <1>1, <1>2, <1>3, <1>4, <1>5, <1>6, <1>7, <1>8, <1>9, <1>10, <1>11, <1>12, <1>13,
     <1>14, <1>15, <1>16, <1>17, <1>18, <1>19, Zenon DEF Next, ProcessStep

-----------------------------------------------------------------------------
(* The invariant *)

\* At the start there is no history, and at most one foreign peer.
LEMMA InitIInv == Init => IInv
<1> SUFFICES ASSUME Init PROVE IInv
  OBVIOUS
<1>1. Types
  <2>1. foreign \subseteq Key /\ runtime \in [Key -> Address \cup {None}]
    BY DEF Init
  <2> QED BY <2>1, Zenon DEF Init, Types
<1>2. Ledger
  BY NoneAssumption DEF Init, Ledger, HasIntent
<1>3. Tasks
  BY Zenon DEF Init, Tasks
<1>4. Ours
  <2>1. \A j, k \in foreign : j = k
    BY DEF Init
  <2>2. \A k \in Key : (k \in foreign => runtime[k] # None) /\ ~HasIntent(k)
    BY NoneAssumption, Zenon DEF Init, HasIntent
  <2>3. PeersAreAccountable
    BY DEF Init, PeersAreAccountable, Present
  <2> QED BY <2>1, <2>2, <2>3, <1>1, Zenon DEF Init, Ours, Types, Working
<1>5. Fresh
  BY Zenon DEF Init, Fresh
<1>6. AddressesStayApart
  BY DEF Init, AddressesStayApart, Present
<1>7. AppliedIsInstalled
  BY DEF Init, AppliedIsInstalled
<1> QED BY <1>1, <1>2, <1>3, <1>4, <1>5, <1>6, <1>7 DEF IInv

\* The types are kept.
LEMMA TypesNext ==
    ASSUME Types, Step
    PROVE  Types'
<1> USE DEF desired, record, network, process
<1>1. CASE Quiet
  BY <1>1, Zenon DEF Quiet, Types
<1>2. CASE Snapped
  BY <1>2, Zenon DEF Snapped, Types
<1>3. CASE Planned
  <2>1. PlanActions(pdev) \subseteq {"apply", "remove"} \X Key
    BY <1>3 DEF PlanActions, BindingsOf, Types, Planned
  <2> QED BY <1>3, <2>1, Zenon DEF Planned, Types
<1>4. CASE Checked
  BY <1>4, Zenon DEF Checked, Types
<1>5. CASE Committed
  BY <1>5 DEF Committed, Types, Ended
<1>6. CASE Dropped
  BY <1>6, Zenon DEF Dropped, Types, Ended
<1>7. ASSUME NEW d \in Device, Enrolled(d) PROVE Types'
  BY <1>7, Zenon DEF Enrolled, Types
<1>8. ASSUME NEW d \in Device, Claimed(d) PROVE Types'
  BY <1>8, Zenon DEF Claimed, Types
<1>9. ASSUME NEW d \in Device, NEW k \in Key, NEW a \in Address, Granted(d, k, a)
      PROVE  Types'
  BY <1>9 DEF Granted, Revokes, Types
<1>10. ASSUME NEW d \in Device, NEW s \in {"disabled", "expired", "revoked"}, Withdrawn(d, s)
       PROVE  Types'
  BY <1>10 DEF Withdrawn, Revokes, Types, Ended
<1>11. ASSUME NEW t \in todo, Acted(t) PROVE Types'
  BY <1>11 DEF Acted, Types, Ended, Working
<1>12. ASSUME NEW back \in SUBSET (Present(runtime) \cup bapplied), Restarted(back)
       PROVE  Types'
  BY <1>12 DEF Restarted, Types
<1> QED
  BY <1>1, <1>2, <1>3, <1>4, <1>5, <1>6, <1>7, <1>8, <1>9, <1>10, <1>11, <1>12, Zenon DEF Step

\* Only a grant writes a binding, of a key that has none; a new generation
\* revokes the current key.  An intent is about the current key.
LEMMA LedgerNext ==
    ASSUME Types, Ledger, Step
    PROVE  Ledger'
<1> USE DEF desired, record, network, process
<1>1. CASE UNCHANGED desired /\ UNCHANGED intents /\ UNCHANGED applied
  BY <1>1 DEF Ledger, HasIntent
<1>2. CASE Planned
  <2>1. \A k \in Key : HasIntent(k)' => HasIntent(k) \/ k = cur[pdev]
    BY <1>2 DEF Planned, HasIntent, PlanActions
  <2> QED BY <1>2, <2>1, NoneAssumption DEF Planned, Ledger, Types
<1>3. CASE Committed
  BY <1>3 DEF Committed, Ledger, HasIntent, Types
<1>4. ASSUME NEW d \in Device, Enrolled(d) PROVE Ledger'
  BY <1>4 DEF Enrolled, Ledger, HasIntent, Types
<1>5. ASSUME NEW d \in Device, NEW k \in Key, NEW a \in Address, Granted(d, k, a)
      PROVE  Ledger'
  BY <1>5, NoneAssumption DEF Granted, Revokes, Ledger, HasIntent, Types
<1>6. ASSUME NEW d \in Device, NEW s \in {"disabled", "expired", "revoked"}, Withdrawn(d, s)
      PROVE  Ledger'
  BY <1>6, NoneAssumption DEF Withdrawn, Revokes, Ledger, HasIntent, Types
<1> QED
  BY <1>1, <1>2, <1>3, <1>4, <1>5, <1>6, Zenon
     DEF Step, Quiet, Snapped, Checked, Dropped, Claimed, Acted, Restarted

\* What is to be done was planned for the device as it still is: the fence keeps
\* the desired state as long as the process runs.
LEMMA TasksNext ==
    ASSUME Types, Types', Ledger, Tasks, Step
    PROVE  Tasks'
<1> USE DEF desired, record, network, process
<1>1. CASE todo' = {}
  BY <1>1 DEF Tasks
<1>2. CASE Planned
  <2>1. pdev \in Device
    BY <1>2, Zenon DEF Planned, Types
  <2>2. ASSUME NEW t \in PlanActions(pdev)
        PROVE  \/ t[1] = "remove" /\ bdev[t[2]] = pdev /\ revoked[t[2]] > 0
               \/ t[1] = "apply" /\ t[2] = cur[pdev] /\ cur[pdev] # None
    BY <2>2 DEF PlanActions, BindingsOf
  <2>3. ASSUME NEW t \in PlanActions(pdev), t[1] = "apply"
        PROVE  HasIntent(t[2])'
    <3>1. <<pdev, gen[pdev], t[2], t[1]>> \in intents'
      BY <1>2 DEF Planned
    <3>2. <<pdev, gen[pdev], t[2], t[1]>>[3] = t[2] /\ <<pdev, gen[pdev], t[2], t[1]>>[4] = t[1]
      OBVIOUS
    <3> QED BY <2>3, <3>1, <3>2, Zenon DEF HasIntent
  <2> QED BY <1>2, <2>1, <2>2, <2>3 DEF Planned, Tasks, Ledger
<1>3. CASE UNCHANGED <<cur, bdev, revoked, intents, pdev>> /\ todo' \subseteq todo
  BY <1>3 DEF Tasks, HasIntent
<1>4. \/ todo' = {} \/ Planned
      \/ UNCHANGED <<cur, bdev, revoked, intents, pdev>> /\ todo' \subseteq todo
  BY Zenon DEF Step, Quiet, Snapped, Checked, Committed, Dropped, Enrolled, Claimed, Granted,
     Withdrawn, Acted, Restarted, Ended, Types
<1> QED BY <1>1, <1>2, <1>3, <1>4

\* A plan that is not refused has to do with none of the foreign peers.
LEMMA PlanSparesForeign ==
    ASSUME Types, Ledger, Ours, pc = "plan", ~PlanRefused(pdev), NEW j \in foreign
    PROVE  /\ cur[pdev] # j
           /\ cur[pdev] # None => baddr[cur[pdev]] # runtime[j]
           /\ \A t \in PlanActions(pdev) : t[2] # j
<1>1. j \in Present(before) /\ before[j] = runtime[j] /\ ~HasIntent(j) /\ j \notin bapplied
  BY Zenon DEF Ours, Types, Present
<1>2. j \notin BindingsOf(pdev)
  BY <1>1 DEF PlanRefused
<1>3. pdev \in Device /\ bdev[j] # pdev
  BY <1>2 DEF BindingsOf, Types
<1>4. cur[pdev] # j
  BY <1>3, NoneAssumption DEF Ledger, Types
<1>5. cur[pdev] # None => baddr[cur[pdev]] # runtime[j]
  BY <1>1, <1>3, <1>4 DEF PlanRefused
<1>6. \A t \in PlanActions(pdev) : t[2] # j
  BY <1>2, <1>4 DEF PlanActions
<1> QED BY <1>4, <1>5, <1>6

\* The intents tell the authority's peers from the foreign ones.
LEMMA OursNext ==
    ASSUME Types, Types', Ledger, Tasks, Ours, Step
    PROVE  Ours'
<1> USE DEF desired, record, network, process, Working
<1>1. CASE Quiet
  BY <1>1 DEF Quiet, Ours, PeersAreAccountable, HasIntent, Present
<1>2. CASE Snapped
  BY <1>2 DEF Snapped, Ours, PeersAreAccountable, HasIntent, Present
<1>3. CASE Planned
  <2>1. \A k \in Key : HasIntent(k) => HasIntent(k)'
    BY <1>3 DEF Planned, HasIntent
  <2>2. \A k \in Key : HasIntent(k)' => HasIntent(k) \/ k = cur[pdev]
    BY <1>3 DEF Planned, HasIntent, PlanActions
  <2>3. UNCHANGED <<runtime, foreign, baddr, cur, pdev, bapplied>>
        /\ pc' = "act" /\ todo' = PlanActions(pdev) /\ foreign \subseteq Key
    BY <1>3, Zenon DEF Planned, Types
  <2>4. \A j \in foreign : /\ cur[pdev] # j
                           /\ cur[pdev] # None => baddr[cur[pdev]] # runtime[j]
                           /\ \A t \in PlanActions(pdev) : t[2] # j
    BY <1>3, PlanSparesForeign, Zenon DEF Planned
  <2>5. PeersAreAccountable'
    BY <2>1, <2>3 DEF Ours, PeersAreAccountable, Present
  <2>6. ASSUME NEW j \in foreign
        PROVE  /\ runtime[j] # None /\ ~HasIntent(j)'
               /\ \A k \in Key : HasIntent(k)' => baddr[k] # runtime[j]
    <3>1. j \in Key /\ None \notin Key
      BY NoneAssumption, Zenon DEF Types
    <3> QED BY <3>1, <2>2, <2>4 DEF Ours
  <2> QED BY <2>1, <2>3, <2>4, <2>5, <2>6, Zenon DEF Ours, Types
<1>4. CASE Checked
  <2>1. cur[pdev] # None => HasIntent(cur[pdev])
    <3> SUFFICES ASSUME cur[pdev] # None PROVE HasIntent(cur[pdev])
      OBVIOUS
    <3>1. pdev \in Device /\ cur[pdev] \in Key /\ baddr[cur[pdev]] \in Address
      BY <1>4, NoneAssumption DEF Checked, Types, Ledger
    <3>2. runtime[cur[pdev]] # None
      BY <1>4, <3>1, NoneAssumption, Zenon DEF Checked, Verified
    <3>3. cur[pdev] \notin foreign
      BY <1>4, Zenon DEF Checked, Ours
    <3> QED BY <3>1, <3>2, <3>3 DEF Ours, PeersAreAccountable, Present
  <2> QED BY <1>4, <2>1 DEF Checked, Ours, PeersAreAccountable, HasIntent, Present
<1>5. CASE Committed
  <2>1. \A k \in bapplied' : HasIntent(k)'
    BY <1>5, Zenon DEF Committed, Ours, HasIntent
  <2> QED BY <1>5, <2>1 DEF Committed, Ended, Ours, PeersAreAccountable, HasIntent, Present
<1>6. CASE Dropped
  BY <1>6 DEF Dropped, Ended, Ours, PeersAreAccountable, HasIntent, Present
<1>7. ASSUME NEW d \in Device, Enrolled(d) PROVE Ours'
  BY <1>7 DEF Enrolled, Ours, PeersAreAccountable, HasIntent, Present
<1>8. ASSUME NEW d \in Device, Claimed(d) PROVE Ours'
  BY <1>8 DEF Claimed, Ours, PeersAreAccountable, HasIntent, Present
<1>9. ASSUME NEW d \in Device, NEW k \in Key, NEW a \in Address, Granted(d, k, a)
      PROVE  Ours'
  <2>1. \A j \in Key : HasIntent(j) => j # k /\ baddr'[j] = baddr[j]
    BY <1>9 DEF Granted, Ledger, Types
  <2>2. UNCHANGED <<runtime, foreign, bapplied, intents, pc>> /\ pc = "idle"
    BY <1>9 DEF Granted
  <2>3. PeersAreAccountable'
    BY <2>1, <2>2 DEF Ours, PeersAreAccountable, HasIntent, Present
  <2> QED BY <2>1, <2>2, <2>3 DEF Ours, HasIntent
<1>10. ASSUME NEW d \in Device, NEW s \in {"disabled", "expired", "revoked"}, Withdrawn(d, s)
       PROVE  Ours'
  <2>1. UNCHANGED <<runtime, foreign, bapplied, intents, baddr>> /\ pc' = "idle"
    BY <1>10 DEF Withdrawn, Ended
  <2> QED BY <2>1 DEF Ours, PeersAreAccountable, HasIntent, Present
<1>11. ASSUME NEW t \in todo, Acted(t) PROVE Ours'
  <2>1. t[2] \in Key /\ t[2] \notin foreign /\ (t[1] = "apply" => HasIntent(t[2]))
    BY <1>11, Zenon DEF Acted, Types, Tasks, Ours
  <2>2. UNCHANGED <<foreign, bapplied, intents, baddr, cur>>
        /\ (pc' # "idle" => pc' \in {"act", "expired"} /\ todo' \subseteq todo /\ pdev' = pdev)
    BY <1>11, Zenon DEF Acted, Ended
  <2>3. \A k \in Key : runtime'[k] = IF k # t[2] THEN runtime[k]
                                     ELSE IF t[1] = "apply" THEN baddr[k] ELSE None
    BY <1>11, Zenon DEF Acted, Types
  <2>4. \A k : HasIntent(k)' = HasIntent(k)
    BY <2>2 DEF HasIntent
  <2>5. PeersAreAccountable'
    <3> SUFFICES ASSUME NEW k \in Key, runtime'[k] # None, k \notin foreign
                 PROVE  HasIntent(k) /\ runtime'[k] = baddr[k]
      BY <2>2, <2>4 DEF PeersAreAccountable, Present
    <3>1. CASE k = t[2]
      BY <3>1, <2>1, <2>3
    <3>2. CASE k # t[2]
      BY <3>2, <2>3 DEF Ours, PeersAreAccountable, Present
    <3> QED BY <3>1, <3>2
  <2>6. \A j \in foreign : runtime'[j] = runtime[j]
    BY <2>1, <2>3 DEF Types
  <2>7. pc = "act"
    BY <1>11 DEF Acted
  <2> QED BY <2>2, <2>4, <2>5, <2>6, <2>7 DEF Ours
<1>12. ASSUME NEW back \in SUBSET (Present(runtime) \cup bapplied), Restarted(back)
       PROVE  Ours'
  <2>1. UNCHANGED <<foreign, bapplied, intents, baddr, cur, pc, pdev, before, todo>>
    BY <1>12 DEF Restarted
  <2>2. \A k \in Key : runtime'[k] = IF k \in foreign THEN runtime[k]
                                     ELSE IF k \in back THEN baddr[k] ELSE None
    BY <1>12 DEF Restarted
  <2>3. PeersAreAccountable'
    BY <2>1, <2>2 DEF Ours, PeersAreAccountable, HasIntent, Present
  <2>4. \A j \in foreign : runtime'[j] = runtime[j]
    BY <2>2, Zenon DEF Types
  <2> QED BY <2>1, <2>3, <2>4 DEF Ours, HasIntent
<1> QED
  BY <1>1, <1>2, <1>3, <1>4, <1>5, <1>6, <1>7, <1>8, <1>9, <1>10, <1>11, <1>12, Zenon DEF Step

\* verify accepts a runtime that holds what the database desires, since a
\* binding that is not revoked is the current one.
LEMMA VerifiedMatches ==
    ASSUME Types, Ledger, NEW d \in Device, Verified(d)
    PROVE  Matches(d)
BY NoneAssumption DEF Types, Ledger, Verified, Matches, BindingsOf

\* Without a restart since the snapshot, the plan is right.
LEMMA FreshNext ==
    ASSUME Types, Types', Ledger, Tasks, Fresh, AppliedIsInstalled, Step
    PROVE  Fresh'
<1> USE DEF desired, record, network, process, Working
<1>1. CASE pc' \in {"idle", "snapshot"}
  BY <1>1 DEF Fresh
<1>2. CASE UNCHANGED <<gen, cur, bdev, baddr, revoked, record, network, process>>
  BY <1>2, Zenon DEF Fresh, BindingsOf, Matches
<1>3. CASE Snapped
  BY <1>3, Zenon DEF Snapped, Fresh, BindingsOf
<1>4. CASE Planned
  <2> SUFFICES ASSUME pdev \notin drift
               PROVE  /\ \A k \in BindingsOf(pdev) : revoked[k] > 0 /\ runtime[k] # None
                                                     => <<"remove", k>> \in PlanActions(pdev)
                      /\ gen[pdev] > 0 /\ applied[pdev] = gen[pdev] => PlanActions(pdev) = {}
    BY <1>4, Zenon DEF Planned, Fresh, BindingsOf
  <2>1. pdev \in Device /\ \A k \in BindingsOf(pdev) : before[k] = runtime[k]
    BY <1>4, Zenon DEF Planned, Fresh, Types
  <2>2. \A k \in BindingsOf(pdev) : revoked[k] > 0 /\ runtime[k] # None
                                    => <<"remove", k>> \in PlanActions(pdev)
    BY <2>1 DEF PlanActions, Present, BindingsOf
  <2>3. ASSUME gen[pdev] > 0, applied[pdev] = gen[pdev] PROVE PlanActions(pdev) = {}
    <3>1. Matches(pdev)
      BY <2>1, <2>3 DEF AppliedIsInstalled
    <3>2. ASSUME NEW k \in BindingsOf(pdev) \cap Present(before) PROVE revoked[k] = 0
      BY <2>1, <3>1, NoneAssumption DEF Matches, Present, Ledger, BindingsOf, Types
    <3>3. cur[pdev] # None => cur[pdev] \in Present(before)
      BY <2>1, <3>1, NoneAssumption DEF Matches, Present, Ledger, BindingsOf, Types
    <3> QED BY <3>2, <3>3 DEF PlanActions
  <2> QED BY <2>2, <2>3
<1>5. ASSUME NEW t \in todo, Acted(t), pc' # "idle" PROVE Fresh'
  <2> SUFFICES ASSUME pdev \notin drift
               PROVE  /\ \A k \in BindingsOf(pdev) : revoked[k] > 0 /\ runtime'[k] # None
                                                     => <<"remove", k>> \in todo \ {t}
                      /\ ~(gen[pdev] > 0 /\ applied[pdev] = gen[pdev])
    BY <1>5, Zenon DEF Acted, Ended, Fresh, BindingsOf
  <2>1. pdev \in Device /\ pc = "act" /\ t[2] \in Key
    BY <1>5, Zenon DEF Acted, Types
  <2>2. ~(gen[pdev] > 0 /\ applied[pdev] = gen[pdev])
    BY <2>1 DEF Fresh
  <2>3. ASSUME NEW k \in BindingsOf(pdev), revoked[k] > 0, runtime'[k] # None
        PROVE  <<"remove", k>> \in todo \ {t}
    <3>1. k # t[2]
      <4>1. t[1] = "apply" => revoked[t[2]] = 0
        BY <2>1, NoneAssumption DEF Tasks, Ledger, Types
      <4>2. t[1] # "apply" => runtime'[t[2]] = None
        BY <1>5, <2>1, Zenon DEF Acted, Types
      <4> QED BY <2>3, <4>1, <4>2
    <3>2. runtime[k] # None
      BY <1>5, <2>1, <2>3, <3>1, Zenon DEF Acted, Types, BindingsOf
    <3>3. <<"remove", k>> \in todo
      BY <2>1, <2>3, <3>2 DEF Fresh
    <3> QED BY <3>1, <3>3
  <2> QED BY <2>2, <2>3
<1>6. CASE Checked
  <2>1. pdev \in Device /\ Matches(pdev)
    BY <1>6, VerifiedMatches, Zenon DEF Checked, Types
  <2> QED BY <1>6, <2>1, Zenon DEF Checked, Fresh, Matches, BindingsOf
<1>7. ASSUME NEW back \in SUBSET (Present(runtime) \cup bapplied), Restarted(back)
      PROVE  Fresh'
  BY <1>7, Zenon DEF Restarted, Fresh, Types
<1> QED
  BY <1>1, <1>2, <1>3, <1>4, <1>5, <1>6, <1>7, Zenon
     DEF Step, Quiet, Committed, Dropped, Enrolled, Claimed, Granted, Withdrawn, Ended

\* Two peers share an address only by a restart.
LEMMA ApartNext ==
    ASSUME Types, Types', Ledger, Ledger', Tasks, Ours, Ours', Fresh, AddressesStayApart, Step
    PROVE  AddressesStayApart'
<1> USE DEF desired, record, network, process
<1>1. (\A j, k \in Key : bdev[j] # None /\ baddr[j] = baddr[k] => bdev[j] = bdev[k])'
  <2>1. ASSUME NEW i \in Key, bdev'[i] = None PROVE baddr'[i] = None
    BY <2>1, Zenon DEF Ledger
  <2>2. ASSUME NEW i \in Key, bdev'[i] # None
        PROVE  baddr'[i] # None /\ reserved'[baddr'[i]] = bdev'[i]
    BY <2>2, NoneAssumption, Zenon DEF Ledger
  <2> QED BY <2>1, <2>2
<1>2. SUFFICES ASSUME NEW j \in Key, NEW k \in Key, j # k,
                      runtime'[j] # None, runtime'[k] = runtime'[j]
               PROVE  {j, k} \cap foreign' = {} /\ bdev'[j] = bdev'[k] /\ bdev'[j] \in drift'
  BY <1>1 DEF AddressesStayApart, Present
<1>3. ASSUME NEW i \in Key, i \notin foreign', runtime'[i] # None
      PROVE  HasIntent(i)' /\ runtime'[i] = baddr'[i]
  BY <1>3, Zenon DEF Ours, PeersAreAccountable, Present
<1>4. j \notin foreign' /\ k \notin foreign'
  <2>1. ~(j \in foreign' /\ k \in foreign')
    BY <1>2 DEF Ours
  <2>2. ASSUME NEW h \in foreign', NEW i \in Key, HasIntent(i)'
        PROVE  baddr'[i] # runtime'[h]
    BY <2>2, Zenon DEF Ours
  <2> QED BY <1>2, <1>3, <2>1, <2>2
<1>5. bdev'[j] \in Device /\ bdev'[j] = bdev'[k]
  <2>1. HasIntent(j)' /\ baddr'[j] = baddr'[k]
    BY <1>2, <1>3, <1>4
  <2> QED BY <1>1, <2>1 DEF Ledger, Types
<1>6. bdev'[j] \in drift'
  <2>1. CASE UNCHANGED <<runtime, drift, bdev>>
    BY <2>1, <1>2 DEF AddressesStayApart, Present
  <2>2. ASSUME NEW d \in Device, NEW i \in Key, NEW a \in Address, Granted(d, i, a)
        PROVE  bdev'[j] \in drift'
    <3>1. UNCHANGED <<runtime, drift, intents>> /\ bdev[i] = None
          /\ bdev' = [bdev EXCEPT ![i] = d]
      BY <2>2, Zenon DEF Granted
    <3>2. HasIntent(j)
      BY <1>2, <1>3, <1>4, <3>1 DEF HasIntent
    <3>3. bdev'[j] = bdev[j]
      BY <3>1, <3>2 DEF Ledger, Types
    <3> QED BY <1>2, <3>1, <3>3 DEF AddressesStayApart, Present
  <2>3. ASSUME NEW t \in todo, Acted(t) PROVE bdev'[j] \in drift'
    <3>1. UNCHANGED <<drift, bdev, revoked, cur, intents>> /\ pc = "act"
          /\ pdev \in Device /\ t[2] \in Key
      BY <2>3, Zenon DEF Acted, Types
    <3>2. \A i \in Key : i # t[2] => runtime'[i] = runtime[i]
      BY <2>3, Zenon DEF Acted, Types
    <3>3. CASE j # t[2] /\ k # t[2]
      BY <3>1, <3>2, <3>3, <1>2 DEF AddressesStayApart, Present
    <3>4. CASE (j = t[2] \/ k = t[2]) /\ pdev \notin drift
      <4>1. t[1] = "apply" /\ \A u \in todo : u[1] # "remove"
        BY <2>3, <3>1, <3>4, <1>2, Zenon DEF Acted, Types
      <4>2. bdev[j] = pdev /\ bdev[k] = pdev /\ t[2] = cur[pdev]
        BY <3>1, <3>4, <4>1, <1>5 DEF Tasks
      <4>3. PICK i \in {j, k} : i # t[2]
        BY <1>2
      <4>4. i \in BindingsOf(pdev) /\ i # cur[pdev] /\ runtime[i] # None
        BY <4>2, <4>3, <3>2, <1>2 DEF BindingsOf
      <4>5. revoked[i] > 0
        <5>1. i \in Key /\ bdev[i] = pdev /\ bdev[i] # None /\ revoked[i] \in Nat
          BY <3>1, <4>4, NoneAssumption, Zenon DEF BindingsOf, Types
        <5>2. revoked[i] # 0
          BY <4>4, <5>1, Zenon DEF Ledger
        <5> QED BY <5>1, <5>2
      <4>6. <<"remove", i>> \in todo
        BY <3>1, <3>4, <4>4, <4>5, Zenon DEF Fresh, Working
      <4>7. <<"remove", i>>[1] = "remove"
        OBVIOUS
      <4> QED BY <4>1, <4>6, <4>7, Zenon
    <3>5. CASE (j = t[2] \/ k = t[2]) /\ pdev \in drift
      BY <3>1, <3>5, <1>5 DEF Tasks
    <3> QED BY <3>3, <3>4, <3>5
  <2>4. CASE Checked
    <3>1. UNCHANGED <<runtime, bdev>> /\ drift' = drift \ {pdev} /\ pdev \in Device
      BY <2>4, Zenon DEF Checked, Types
    <3>2. Matches(pdev)
      BY <2>4, <3>1, VerifiedMatches DEF Checked
    <3>3. bdev[j] # pdev
      BY <3>1, <3>2, <1>2, <1>5 DEF Matches, BindingsOf
    <3> QED BY <3>1, <3>3, <1>2 DEF AddressesStayApart, Present
  <2>5. ASSUME NEW back \in SUBSET (Present(runtime) \cup bapplied), Restarted(back)
        PROVE  bdev'[j] \in drift'
    BY <2>5, <1>5 DEF Restarted
  <2> QED
    BY <2>1, <2>2, <2>3, <2>4, <2>5, Zenon
       DEF Step, Quiet, Snapped, Planned, Committed, Dropped, Enrolled, Claimed, Withdrawn
<1> QED BY <1>4, <1>5, <1>6

\* What was verified and committed stays installed: a later process of the same
\* generation plans nothing, and the others have other keys.
LEMMA AppliedNext ==
    ASSUME Types, Types', Ledger, Tasks, Fresh, AppliedIsInstalled, Step
    PROVE  AppliedIsInstalled'
<1> USE DEF desired, record, network, process
<1> SUFFICES ASSUME NEW d \in Device, d \notin drift', gen'[d] > 0, applied'[d] = gen'[d]
             PROVE  Matches(d)'
  BY DEF AppliedIsInstalled
<1> DEFINE Kept == UNCHANGED <<cur, bdev, baddr, runtime>>
<1>1. Matches(d) /\ Kept => Matches(d)'
  BY DEF Matches, BindingsOf
<1>2. d \notin drift /\ gen[d] > 0 /\ applied[d] = gen[d] => Matches(d)
  BY DEF AppliedIsInstalled
<1>3. CASE UNCHANGED <<gen, cur, bdev, baddr, applied, runtime, drift>>
  BY <1>1, <1>2, <1>3
<1>4. CASE Checked
  <2>1. Kept /\ UNCHANGED <<gen, applied>> /\ drift' = drift \ {pdev}
    BY <1>4 DEF Checked
  <2>2. d = pdev => Matches(d)
    BY <1>4, VerifiedMatches DEF Checked
  <2> QED BY <1>1, <1>2, <2>1, <2>2
<1>5. CASE Committed
  <2>1. Kept /\ UNCHANGED <<gen, drift>> /\ (d # pdev => applied'[d] = applied[d])
    BY <1>5, Zenon DEF Committed, Types
  <2>2. d = pdev => Matches(d)
    BY <1>5, <2>1, Zenon DEF Committed, Fresh
  <2> QED BY <1>1, <1>2, <2>1, <2>2
<1>6. ASSUME NEW e \in Device, Revokes(e), UNCHANGED applied
      PROVE  d # e /\ gen'[d] = gen[d]
  <2>1. d = e => gen'[d] = gen[d] + 1
    BY <1>6, Zenon DEF Revokes, Types
  <2>2. applied[d] <= gen[d] /\ gen[d] \in Nat /\ applied[d] \in Nat
    BY DEF Ledger, Types
  <2> QED BY <1>6, <2>1, <2>2 DEF Revokes, Types
<1>7. ASSUME NEW e \in Device, NEW k \in Key, NEW a \in Address, Granted(e, k, a)
      PROVE  Matches(d)'
  <2>1. d # e /\ gen'[d] = gen[d] /\ UNCHANGED <<applied, drift, runtime>>
    BY <1>6, <1>7, Zenon DEF Granted
  <2>2. Matches(d) /\ cur'[d] = cur[d]
    BY <1>2, <1>7, <2>1, Zenon DEF Granted, Types
  <2>3. \A i \in Key : bdev'[i] = d => bdev[i] = d
    BY <1>7, <2>1 DEF Granted, Types
  <2>4. cur[d] # None => baddr'[cur[d]] = baddr[cur[d]]
    <3>1. bdev[k] = None /\ d # None
      BY <1>7, NoneAssumption, Zenon DEF Granted
    <3>2. cur[d] # None => bdev[cur[d]] = d
      BY Zenon DEF Ledger
    <3> QED BY <1>7, <3>1, <3>2 DEF Granted, Types
  <2> QED BY <2>1, <2>2, <2>3, <2>4 DEF Matches, BindingsOf
<1>8. ASSUME NEW e \in Device, NEW s \in {"disabled", "expired", "revoked"}, Withdrawn(e, s)
      PROVE  Matches(d)'
  <2>1. d # e /\ gen'[d] = gen[d] /\ UNCHANGED <<applied, drift, runtime, bdev, baddr>>
    BY <1>6, <1>8, Zenon DEF Withdrawn
  <2>2. Matches(d) /\ cur'[d] = cur[d]
    BY <1>2, <1>8, <2>1, Zenon DEF Withdrawn, Types
  <2> QED BY <2>1, <2>2 DEF Matches, BindingsOf
<1>9. ASSUME NEW t \in todo, Acted(t) PROVE Matches(d)'
  <2>1. UNCHANGED <<gen, cur, bdev, baddr, applied, drift>> /\ pc = "act"
    BY <1>9, Zenon DEF Acted
  <2>2. d # pdev
    BY <2>1 DEF Fresh, Working
  <2>3. \A i \in Key : bdev[i] = d => runtime'[i] = runtime[i]
    BY <1>9, <2>2 DEF Acted, Tasks, Types
  <2>4. cur[d] # None => cur[d] \in Key /\ bdev[cur[d]] = d
    BY DEF Ledger, Types
  <2>5. Matches(d)
    BY <1>2, <2>1, Zenon
  <2> QED BY <2>1, <2>3, <2>4, <2>5 DEF Matches, BindingsOf
<1>10. ASSUME NEW back \in SUBSET (Present(runtime) \cup bapplied), Restarted(back)
       PROVE  Matches(d)'
  BY <1>10 DEF Restarted
<1> QED
  BY <1>3, <1>4, <1>5, <1>7, <1>8, <1>9, <1>10, Zenon
     DEF Step, Quiet, Snapped, Planned, Dropped, Enrolled, Claimed

\* The invariant is inductive.
LEMMA NextIInv == IInv /\ [Next]_vars => IInv'
<1> SUFFICES ASSUME IInv, [Next]_vars PROVE IInv'
  OBVIOUS
<1>1. Step
  BY StepCases DEF IInv
<1>2. Types'
  BY <1>1, TypesNext DEF IInv
<1>3. Ledger'
  BY <1>1, LedgerNext DEF IInv
<1>4. Tasks'
  BY <1>1, <1>2, TasksNext DEF IInv
<1>5. Ours'
  BY <1>1, <1>2, OursNext DEF IInv
<1>6. Fresh'
  BY <1>1, <1>2, FreshNext DEF IInv
<1>7. AddressesStayApart'
  BY <1>1, <1>2, <1>3, <1>5, ApartNext DEF IInv
<1>8. AppliedIsInstalled'
  BY <1>1, <1>2, AppliedNext DEF IInv
<1> QED BY <1>2, <1>3, <1>4, <1>5, <1>6, <1>7, <1>8 DEF IInv

-----------------------------------------------------------------------------
(* The theorems *)

\* Whatever crashes, fails or restarts, a device whose latest generation Process
\* reported applied has exactly its current peer, unless WireGuard restarted
\* since it was last verified.
THEOREM AppliedHolds == Spec => []AppliedIsInstalled
<1>1. IInv => AppliedIsInstalled
  BY DEF IInv
<1> QED BY <1>1, InitIInv, NextIInv, PTL DEF Spec

\* Every peer the executor installed has a binding and a durable apply intent,
\* so that plan accepts it and a later generation can remove it.
THEOREM PeersAccounted == Spec => []PeersAreAccountable
<1>1. IInv => PeersAreAccountable
  BY DEF IInv, Ours
<1> QED BY <1>1, InitIInv, NextIInv, PTL DEF Spec

\* The reservations and plan's overlap check keep the addresses of devices and
\* of foreign peers apart; only a restart gives a device two peers.
THEOREM AddressesApart == Spec => []AddressesStayApart
<1>1. IInv => AddressesStayApart
  BY DEF IInv
<1> QED BY <1>1, InitIInv, NextIInv, PTL DEF Spec

\* plan and verify never touch a peer the authority did not install.
THEOREM ForeignUntouched == Spec => ForeignPeersUntouched
<1>1. IInv /\ [Next]_vars => [KeepsForeign]_vars
  <2> SUFFICES ASSUME IInv, [Next]_vars, NEW j \in foreign PROVE runtime'[j] = runtime[j]
    BY DEF KeepsForeign
  <2>1. Step /\ Types /\ Tasks /\ Ours
    BY StepCases DEF IInv
  <2>2. ASSUME NEW t \in todo, Acted(t) PROVE runtime'[j] = runtime[j]
    BY <2>1, <2>2, Zenon DEF Acted, Ours, Types, Working
  <2>3. ASSUME NEW back, Restarted(back) PROVE runtime'[j] = runtime[j]
    BY <2>1, <2>3, Zenon DEF Restarted, Types
  <2> QED
    BY <2>1, <2>2, <2>3, Zenon DEF Step, Quiet, Snapped, Planned, Checked, Committed, Dropped,
       Enrolled, Claimed, Granted, Withdrawn, network
<1> QED BY <1>1, InitIInv, NextIInv, PTL DEF Spec, ForeignPeersUntouched

\* The executor installs only the current key of an active device.
THEOREM InstallsOnlyCurrent == Spec => RevokedNeverInstalled
<1>1. IInv /\ [Next]_vars => [InstallsCurrent]_vars
  <2> SUFFICES ASSUME IInv, [Next]_vars, restarts' = restarts,
                      NEW k \in Key, runtime[k] = None, runtime'[k] # None
               PROVE  revoked[k] = 0 /\ state[bdev[k]] = "active" /\ cur[bdev[k]] = k
    BY Zenon DEF InstallsCurrent
  <2>1. Step /\ Types /\ Ledger /\ Tasks
    BY StepCases, Zenon DEF IInv
  <2>2. PICK t \in todo : Acted(t)
    <3>1. ~UNCHANGED runtime
      OBVIOUS
    <3>2. ASSUME NEW back, Restarted(back) PROVE FALSE
      BY <3>2, <2>1 DEF Restarted, Types
    <3> QED
      BY <2>1, <3>1, <3>2, Zenon DEF Step, Quiet, Snapped, Planned, Checked, Committed, Dropped,
         Enrolled, Claimed, Granted, Withdrawn, network
  <2>3. t[2] = k /\ t[1] = "apply" /\ pdev \in Device
    BY <2>1, <2>2 DEF Acted, Types
  <2> QED BY <2>1, <2>3, NoneAssumption DEF Tasks, Ledger, Types
<1> QED BY <1>1, InitIInv, NextIInv, PTL DEF Spec, RevokedNeverInstalled

\* History only grows: Submit never weakens a revocation, reuses a key or gives a
\* reserved address to another device.
THEOREM HistoryPermanent == Spec => HistoryIsPermanent
<1>1. IInv /\ [Next]_vars => [HistoryGrows]_vars
  <2> SUFFICES ASSUME IInv, [Next]_vars PROVE HistoryGrows
    OBVIOUS
  <2>1. Step /\ Types /\ Ledger
    BY StepCases DEF IInv
  <2>2. \A k \in Key : revoked[k] > 0 => bdev[k] \in Device /\ cur[bdev[k]] # k
    BY <2>1, NoneAssumption DEF Ledger, Types
  <2>3. CASE UNCHANGED desired
    BY <2>2, <2>3 DEF desired, HistoryGrows
  <2>4. ASSUME NEW d \in Device, Enrolled(d) PROVE HistoryGrows
    BY <2>1, <2>2, <2>4 DEF Enrolled, HistoryGrows, Types
  <2>5. ASSUME NEW d \in Device, NEW k \in Key, NEW a \in Address, Granted(d, k, a)
        PROVE  HistoryGrows
    BY <2>1, <2>2, <2>5, NoneAssumption DEF Granted, Revokes, HistoryGrows, Types
  <2>6. ASSUME NEW d \in Device, NEW s \in {"disabled", "expired", "revoked"}, Withdrawn(d, s)
        PROVE  HistoryGrows
    BY <2>1, <2>2, <2>6, NoneAssumption DEF Withdrawn, Revokes, HistoryGrows, Types
  <2> QED
    BY <2>1, <2>3, <2>4, <2>5, <2>6, Zenon DEF Step, Quiet, Snapped, Planned, Checked, Committed,
       Dropped, Claimed, Acted, Restarted
<1> QED BY <1>1, InitIInv, NextIInv, PTL DEF Spec, HistoryIsPermanent
=============================================================================
