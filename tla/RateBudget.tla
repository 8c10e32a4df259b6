------------------------------ MODULE RateBudget ------------------------------
(***************************************************************************)
(* What the admission boundary of the Hub promises, without its table of   *)
(* sources: every source has a bucket of its own for ever, all buckets     *)
(* fill as time passes, and an admission takes one token of the source's   *)
(* and one of the common bucket.  A token is Every units of credit.        *)
(***************************************************************************)
EXTENDS Naturals, FiniteSets, FiniteSetsExt, Functions

CONSTANTS Sources, Every, Burst, GlobalEvery, GlobalBurst, MaxConcurrent, MaxPerSource

VARIABLES level, common, running

Fill(credit, full) == IF credit < full THEN credit + 1 ELSE full

Init ==
  /\ level = [s \in Sources |-> Burst * Every]
  /\ common = GlobalBurst * GlobalEvery
  /\ running = [s \in Sources |-> 0]

Pass ==
  /\ level' = [s \in Sources |-> Fill(level[s], Burst * Every)]
  /\ common' = Fill(common, GlobalBurst * GlobalEvery)
  /\ UNCHANGED running

Admit(s) ==
  /\ level[s] >= Every /\ common >= GlobalEvery
  /\ running[s] < MaxPerSource /\ FoldFunction(+, 0, running) < MaxConcurrent
  /\ level' = [level EXCEPT ![s] = @ - Every]
  /\ common' = common - GlobalEvery
  /\ running' = [running EXCEPT ![s] = @ + 1]

Leave(s) ==
  /\ running[s] > 0 /\ running' = [running EXCEPT ![s] = @ - 1]
  /\ UNCHANGED <<level, common>>

Next == Pass \/ \E s \in Sources : Admit(s) \/ Leave(s)

Spec == Init /\ [][Next]_<<level, common, running>>
=============================================================================
