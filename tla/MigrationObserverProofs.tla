------------------------ MODULE MigrationObserverProofs -----------------------
(***************************************************************************)
(* Proofs about two parts of the Hub: MigrationObserver, its record of     *)
(* bootstrap attempts, and ProcessBudget, its seats for subprocesses.      *)
(***************************************************************************)
EXTENDS MigrationObserver, FiniteSetTheorems, TLAPS

-----------------------------------------------------------------------------
(***************************************************************************)
(* Proofs about MigrationObserver, for any tokens, attempts and bounds: a  *)
(* healthy report misses no attempt, and the facts are the history.        *)
(***************************************************************************)

Event == [pc : {"begun", "dated", "done", "lost"}, token : Tokens, shape : Shapes,
          result : {"none", "ok", "denied", "error"}, at : Nat, observer : Nat]
New == [pc |-> "new"]

Types ==
  /\ hub \in {"down", "up", "dark", "closed"} /\ run \in Nat /\ clock \in Nat
  /\ att \in [Attempts -> Event \cup {New}]
  /\ runs \in Seq({"open", "closed", "failed"})
  /\ sources \subseteq Tokens /\ counted \subseteq Attempts

\* The run of the Hub is the last one, and is closed only with the Hub.
Running ==
  /\ run \in 0..Len(runs)
  /\ run # 0 <=> hub \in {"up", "closed"}
  /\ hub = "up" => runs[run] # "closed"

\* An attempt under way belongs to the Hub that took it in; a settled one that was
\* not recorded has left its run without a clean end.
Observed ==
  \A a \in Attempts :
    /\ a \in InFlight => hub \in {"up", "dark"} /\ att[a].observer = run
    /\ att[a] # New => att[a].observer \in 0..Len(runs)
    /\ a \in Settled \ counted =>
          runs[att[a].observer] # "closed" /\ (att[a].observer = run => poisoned)

\* So does what a snapshot found missing.
Asked ==
  query # None =>
    /\ hub = "up" /\ run \in DOMAIN query.runs
    /\ \A a \in query.missing :
         /\ a \in Settled /\ att[a].observer \in DOMAIN query.runs
         /\ query.runs[att[a].observer] \in {"open", "failed"}
         /\ att[a].observer = run => poisoned

GInv == Types /\ Running /\ Observed /\ Asked

-----------------------------------------------------------------------------
(* Healthy reports *)

LEMMA Gapless == GInv => HealthyMeansComplete
<1> SUFFICES ASSUME GInv, query # None, Healthy(query.runs), NEW a \in query.missing PROVE FALSE
  BY DEF HealthyMeansComplete
<1>1. query.runs[att[a].observer] \in {"open", "failed"} /\ att[a].observer \in DOMAIN query.runs
      /\ (att[a].observer = run => poisoned)
  BY Zenon DEF GInv, Asked
<1>2. att[a].observer # run
  BY <1>1, Zenon DEF Healthy
<1>3. att[a].observer \in Gaps(query.runs)
  BY <1>1, <1>2, Zenon DEF Gaps
<1> QED BY <1>3 DEF Healthy

\* An attempt's record.
LEMMA Events ==
    ASSUME Types, NEW a \in Attempts
    PROVE  /\ att[a] \in Event \cup {New}
           /\ att[a] # New <=> att[a].pc # "new"
           /\ att[a] # New => att[a] \in Event
           /\ a \in InFlight <=> att[a].pc \in {"begun", "dated"}
           /\ a \in Settled <=> att[a].pc \in {"done", "lost"} /\ att[a].observer # 0
  BY DEF Types, Event, New, InFlight, Settled

LEMMA GInitially == Init => GInv
<1> SUFFICES ASSUME Init PROVE GInv
  OBVIOUS
<1>1. \A a \in Attempts : att[a] = New
  BY Zenon DEF Init, New
<1>2. Types
  BY DEF Init, Types, New
<1>3. Running /\ Asked
  BY DEF Init, Running, Asked
<1>4. Observed
  BY <1>1 DEF Observed, InFlight, Settled, New
<1> QED BY <1>2, <1>3, <1>4 DEF GInv

\* Nothing that the report depends on changes.
LEMMA GStutters ==
    ASSUME GInv, UNCHANGED <<hub, run, poisoned, att, runs, counted, clock, sources>>,
           query' \in {query, None}
    PROVE  GInv'
<1>1. InFlight' = InFlight /\ Settled' = Settled
  BY DEF InFlight, Settled
<1>2. Types' /\ Running'
  BY Zenon DEF GInv, Types, Running
<1>3. Observed'
  BY <1>1, Zenon DEF GInv, Observed
<1>4. Asked'
  BY <1>1, Zenon DEF GInv, Asked
<1> QED BY <1>2, <1>3, <1>4 DEF GInv

\* failObserver sets the flag, and never closes a run.
LEMMA Failing ==
    ASSUME GInv, hub = "up" \/ (hub = "closed" /\ runs[run] # "closed"), FailObserver
    PROVE  /\ poisoned' = TRUE /\ runs' \in Seq({"open", "closed", "failed"}) /\ Len(runs') = Len(runs)
           /\ \A r \in 1..Len(runs) : runs'[r] \in {runs[r], "failed"}
<1>1. run \in 1..Len(runs) /\ runs \in Seq({"open", "closed", "failed"})
  BY DEF GInv, Types, Running
<1> QED BY <1>1 DEF FailObserver

LEMMA GFails ==
    ASSUME GInv, hub = "up", FailObserver, UNCHANGED <<hub, run, att, counted, clock, sources>>,
           query' \in {query, None}
    PROVE  GInv'
<1>1. InFlight' = InFlight /\ Settled' = Settled
  BY Zenon DEF InFlight, Settled
<1>2. run \in 1..Len(runs) /\ runs \in Seq({"open", "closed", "failed"}) /\ DOMAIN runs = 1..Len(runs)
  BY DEF GInv, Types, Running
<1>3. \A a \in Settled : a \in Attempts /\ att[a].observer \in 1..Len(runs)
  <2> SUFFICES ASSUME NEW a \in Settled PROVE a \in Attempts /\ att[a].observer \in 1..Len(runs)
    BY Zenon
  <2>1. a \in Attempts /\ att[a].observer # 0
    BY Zenon DEF Settled
  <2>2. att[a] # New
    BY <2>1, Events, Zenon DEF GInv
  <2> QED BY <2>1, <2>2 DEF GInv, Observed
<1>4. /\ poisoned' = TRUE /\ runs' \in Seq({"open", "closed", "failed"}) /\ Len(runs') = Len(runs)
      /\ \A r \in 1..Len(runs) : runs'[r] \in {runs[r], "failed"}
  BY Failing, Zenon
<1>5. Types' /\ Running'
  BY <1>2, <1>4, Zenon DEF GInv, Types, Running
<1>6. Observed'
  BY <1>1, <1>3, <1>4, Zenon DEF GInv, Observed
<1>7. Asked'
  BY <1>1, <1>4, Zenon DEF GInv, Asked
<1> QED BY <1>5, <1>6, <1>7, Zenon DEF GInv

\* A new run, whether a Hub serves with it or nobody knows of it.
LEMMA GStarts ==
    ASSUME GInv, hub = "down", runs' = Append(StartRun, "open"),
           \/ hub' = "up" /\ run' = Len(runs) + 1 /\ poisoned' = FALSE /\ sources' \subseteq Tokens
           \/ UNCHANGED <<hub, run, poisoned, sources>>,
           UNCHANGED <<att, clock, query, counted>>
    PROVE  GInv'
<1> DEFINE n == Len(runs)
<1>1. n \in Nat /\ StartRun \in Seq({"open", "closed", "failed"}) /\ Len(StartRun) = n
      /\ \A r \in 1..n : StartRun[r] = IF runs[r] = "open" THEN "failed" ELSE runs[r]
  BY DEF GInv, Types, StartRun
<1> HIDE DEF StartRun
<1>2. runs' \in Seq({"open", "closed", "failed"}) /\ Len(runs') = n + 1 /\ runs'[n + 1] = "open"
      /\ \A r \in 1..n : runs'[r] = StartRun[r]
  BY <1>1
<1>3. InFlight' = InFlight /\ Settled' = Settled
  BY Zenon DEF InFlight, Settled
<1>a. run = 0 /\ run' \in {0, n + 1} /\ (run' # 0 <=> hub' = "up") /\ hub' \in {"up", "down"}
  BY <1>1 DEF GInv, Running
<1>4. Types'
  BY <1>1, <1>2, <1>a DEF GInv, Types
<1>5. Running'
  BY <1>1, <1>2, <1>a DEF Running
<1>6. Observed'
  <2> SUFFICES ASSUME NEW a \in Attempts
               PROVE  /\ a \notin InFlight
                      /\ att[a] # New => att[a].observer \in 0..(n + 1)
                      /\ a \in Settled \ counted =>
                            runs'[att[a].observer] # "closed" /\ att[a].observer \notin {0, n + 1}
    BY <1>2, <1>3, <1>a, Zenon DEF Observed
  <2>1. a \notin InFlight
    BY Zenon DEF GInv, Observed
  <2>2. att[a] # New => att[a].observer \in 0..n
    BY Zenon DEF GInv, Observed
  <2>3. a \in Settled => att[a] # New /\ att[a].observer # 0
    BY Events, Zenon DEF GInv
  <2>4. a \in Settled \ counted => runs[att[a].observer] # "closed"
    BY Zenon DEF GInv, Observed
  <2> QED BY <1>1, <1>2, <2>1, <2>2, <2>3, <2>4
<1>7. Asked'
  BY Zenon DEF GInv, Asked
<1> QED BY <1>4, <1>5, <1>6, <1>7 DEF GInv

LEMMA GStartsDark == ASSUME GInv, StartDark PROVE GInv'
<1> USE DEF StartDark, durable
<1>1. InFlight' = InFlight /\ Settled' = Settled
  BY DEF InFlight, Settled
<1>2. Types' /\ Running'
  BY Zenon DEF GInv, Types, Running
<1>3. Observed' /\ Asked'
  BY <1>1, Zenon DEF GInv, Observed, Asked
<1> QED BY <1>2, <1>3 DEF GInv

LEMMA GStops == ASSUME GInv, Stop PROVE GInv'
<1> USE DEF Stop, durable
<1>1. \A a \in Attempts :
         /\ a \in InFlight => att'[a] = [att[a] EXCEPT !.pc = "lost"]
         /\ a \notin InFlight => att'[a] = att[a]
  BY Zenon
<1>2. ASSUME NEW a \in InFlight
      PROVE  /\ a \in Attempts /\ att[a] \in Event /\ att'[a] \in Event /\ att'[a].pc = "lost"
             /\ att'[a].observer = att[a].observer
  <2>1. a \in Attempts /\ att[a].pc \in {"begun", "dated"}
    BY Zenon DEF InFlight
  <2>2. att[a] \in Event
    BY <2>1, Events, Zenon DEF GInv
  <2> QED BY <1>1, <2>1, <2>2, Zenon DEF Event
<1>3. \A a \in Attempts : att'[a] \in Event \cup {New}
  BY <1>1, <1>2, Zenon DEF GInv, Types
<1>4. Types'
  BY <1>3, Zenon DEF GInv, Types
<1>5. Running'
  BY DEF GInv, Running
<1>6. Observed'
  <2> SUFFICES ASSUME NEW a \in Attempts
               PROVE  /\ a \notin InFlight'
                      /\ att'[a] # New => att'[a].observer \in 0..Len(runs)
                      /\ a \in Settled' \ counted =>
                            runs[att'[a].observer] # "closed" /\ att'[a].observer # 0
    BY Zenon DEF Observed
  <2>1. CASE a \in InFlight
    <3>1. att[a] # New /\ att[a].observer = run /\ hub \in {"up", "dark"}
      BY <2>1, Events, Zenon DEF GInv, Observed, InFlight
    <3>2. run # 0 => hub = "up" /\ runs[run] # "closed"
      BY <3>1, Zenon DEF GInv, Running
    <3>3. a \notin InFlight' /\ (a \in Settled' => run # 0)
      BY <1>2, <2>1, <3>1, Zenon DEF InFlight, Settled
    <3>4. att'[a].observer = run
      BY <1>2, <2>1, <3>1, Zenon
    <3> QED BY <3>2, <3>3, <3>4, Zenon DEF GInv, Running
  <2>2. CASE a \notin InFlight
    <3>1. att'[a] = att[a]
      BY <1>1, <2>2
    <3>2. a \notin InFlight' /\ (a \in Settled' <=> a \in Settled)
      BY <2>2, <3>1, Zenon DEF InFlight, Settled
    <3>3. a \in Settled => att[a].observer # 0
      BY DEF Settled
    <3> QED BY <3>1, <3>2, <3>3, Zenon DEF GInv, Observed
  <2> QED BY <2>1, <2>2, Zenon
<1>7. Asked'
  BY DEF Asked
<1> QED BY <1>4, <1>5, <1>6, <1>7 DEF GInv

LEMMA GCloses == ASSUME GInv, Close PROVE GInv'
<1> USE DEF Close
<1>1. InFlight' = InFlight /\ Settled' = Settled
  BY Zenon DEF InFlight, Settled
<1>2. run \in 1..Len(runs) /\ runs \in Seq({"open", "closed", "failed"}) /\ runs[run] # "closed"
  BY DEF GInv, Types, Running
<1>3. /\ runs' \in Seq({"open", "closed", "failed"}) /\ Len(runs') = Len(runs)
      /\ poisoned => poisoned'
      /\ \A r \in 1..Len(runs) : runs'[r] # "closed" \/ runs[r] = "closed" \/ (r = run /\ ~poisoned)
  <2>1. CASE FailObserver
    BY <2>1, Failing, Zenon
  <2>2. CASE ~poisoned /\ runs' = [runs EXCEPT ![run] = IF @ = "open" THEN "closed" ELSE @]
                       /\ UNCHANGED poisoned
    BY <1>2, <2>2
  <2> QED BY <2>1, <2>2, Zenon
<1>4. Types'
  BY <1>3, Zenon DEF GInv, Types
<1>5. Running'
  BY <1>2, <1>3, Zenon DEF GInv, Running
<1>6. Observed'
  <2> SUFFICES ASSUME NEW a \in Attempts
               PROVE  /\ a \notin InFlight
                      /\ att[a] # New => att[a].observer \in 0..Len(runs)
                      /\ a \in Settled \ counted =>
                            runs'[att[a].observer] # "closed" /\ (att[a].observer = run => poisoned')
    BY <1>1, <1>3, Zenon DEF Observed
  <2>1. a \notin InFlight
    BY Zenon
  <2>2. att[a] # New => att[a].observer \in 0..Len(runs)
    BY Zenon DEF GInv, Observed
  <2>3. a \in Settled => att[a] # New /\ att[a].observer # 0
    BY Events, Zenon DEF GInv
  <2>4. a \in Settled \ counted =>
           runs[att[a].observer] # "closed" /\ (att[a].observer = run => poisoned)
    BY Zenon DEF GInv, Observed
  <2> QED BY <1>3, <2>1, <2>2, <2>3, <2>4
<1>7. Asked'
  BY Zenon DEF Asked
<1> QED BY <1>4, <1>5, <1>6, <1>7, Zenon DEF GInv

LEMMA GBegins == ASSUME GInv, NEW a \in Attempts, Begin(a) PROVE GInv'
<1> USE DEF Begin, durable
<1>1. PICK t \in sources, s \in Shapes :
        att' = [att EXCEPT ![a] = [pc |-> "begun", token |-> t, shape |-> s, result |-> "none",
                                   at |-> 0, observer |-> run]]
  BY Zenon
<1> DEFINE e == [pc |-> "begun", token |-> t, shape |-> s, result |-> "none", at |-> 0,
                 observer |-> run]
<1>2. e \in Event /\ e.pc = "begun" /\ e.observer = run
  BY Zenon DEF GInv, Types, Event
<1>3. att'[a] = e /\ \A b \in Attempts \ {a} : att'[b] = att[b]
  BY <1>1, Zenon DEF GInv, Types
<1>4. Types'
  BY <1>1, <1>2, Zenon DEF GInv, Types
<1> HIDE DEF e
<1>5. Running'
  BY Zenon DEF GInv, Running
<1>6. a \in InFlight' /\ a \notin Settled' /\ a \notin Settled
  BY <1>2, <1>3, Zenon DEF InFlight, Settled
<1>7. \A b \in Attempts \ {a} : (b \in InFlight' <=> b \in InFlight) /\ (b \in Settled' <=> b \in Settled)
  BY <1>3, Zenon DEF InFlight, Settled
<1>8. Observed'
  <2> SUFFICES ASSUME NEW b \in Attempts
               PROVE  /\ b \in InFlight' => hub \in {"up", "dark"} /\ att'[b].observer = run
                      /\ att'[b] # New => att'[b].observer \in 0..Len(runs)
                      /\ b \in Settled' \ counted =>
                            runs[att'[b].observer] # "closed" /\ (att'[b].observer = run => poisoned)
    BY Zenon DEF Observed
  <2>1. CASE b = a
    BY <1>2, <1>3, <1>6, <2>1, Zenon DEF GInv, Running
  <2>2. CASE b # a
    BY <1>3, <1>7, <2>2 DEF GInv, Observed
  <2> QED BY <2>1, <2>2, Zenon
<1>9. Asked'
  <2>1. query # None => a \notin query.missing /\ query.missing \subseteq Attempts
    BY <1>6, Zenon DEF GInv, Asked, Settled
  <2> QED BY <1>3, <1>7, <2>1, Zenon DEF GInv, Asked
<1> QED BY <1>4, <1>5, <1>8, <1>9, Zenon DEF GInv

LEMMA GFinishes == ASSUME GInv, NEW a \in Attempts, Finish(a) PROVE GInv'
<1> USE DEF Finish, durable
<1>1. PICK result \in {"ok", "denied", "error"} :
        att' = [att EXCEPT ![a].pc = "dated", ![a].result = result, ![a].at = clock + 1]
  BY Zenon
<1>2. att[a] \in Event
  BY Events, Zenon DEF GInv
<1>3. \A b \in Attempts \ {a} : att'[b] = att[b]
  BY <1>1, Zenon DEF GInv, Types
<1>4. clock + 1 \in Nat
  BY DEF GInv, Types
<1>5. att'[a] = [att[a] EXCEPT !.pc = "dated", !.result = result, !.at = clock + 1]
  BY <1>1, Zenon DEF GInv, Types
<1>6. att'[a] \in Event /\ att'[a].pc = "dated" /\ att'[a].observer = att[a].observer
  BY <1>2, <1>4, <1>5, Zenon DEF Event
<1>7. Types'
  <2>1. att' \in [Attempts -> Event \cup {New}]
    BY <1>1, <1>3, <1>6, Zenon DEF GInv, Types
  <2> QED BY <1>4, <2>1, Zenon DEF GInv, Types
<1>8. Running'
  BY Zenon DEF GInv, Running
<1>9. a \in InFlight /\ a \in InFlight' /\ a \notin Settled' /\ a \notin Settled
  BY <1>6, Zenon DEF InFlight, Settled
<1>10. \A b \in Attempts \ {a} : (b \in InFlight' <=> b \in InFlight) /\ (b \in Settled' <=> b \in Settled)
  BY <1>3, Zenon DEF InFlight, Settled
<1>11. att[a] # New
  BY Events, Zenon DEF GInv
<1>12. Observed'
  BY <1>3, <1>6, <1>9, <1>10, <1>11, Zenon DEF GInv, Observed
<1>13. Asked'
  <2>1. query # None => a \notin query.missing /\ query.missing \subseteq Attempts
    BY <1>9, Zenon DEF GInv, Asked, Settled
  <2> QED BY <1>3, <1>10, <2>1, Zenon DEF GInv, Asked
<1> QED BY <1>7, <1>8, <1>12, <1>13, Zenon DEF GInv

LEMMA GRecords == ASSUME GInv, NEW a \in Attempts, Record(a) PROVE GInv'
<1> USE DEF Record
<1>1. att[a] \in Event /\ att[a] # New
  BY Events, Zenon DEF GInv
<1>2. att'[a] = [att[a] EXCEPT !.pc = "done"] /\ \A b \in Attempts \ {a} : att'[b] = att[b]
  BY Zenon DEF GInv, Types
<1>3. att'[a] \in Event /\ att'[a].pc = "done" /\ att'[a].observer = att[a].observer
  BY <1>1, <1>2 DEF Event
<1>4. a \in InFlight /\ a \notin InFlight' /\ a \notin Settled /\ att[a].observer = run
      /\ hub \in {"up", "dark"}
  BY <1>3, Zenon DEF GInv, Observed, InFlight, Settled
<1>5. a \in Settled' => hub = "up"
  BY <1>3, <1>4, Zenon DEF GInv, Running, Settled
<1>6. \A b \in Attempts \ {a} : (b \in InFlight' <=> b \in InFlight) /\ (b \in Settled' <=> b \in Settled)
  BY <1>2, Zenon DEF InFlight, Settled
<1>7. /\ runs' \in Seq({"open", "closed", "failed"}) /\ Len(runs') = Len(runs) /\ (poisoned => poisoned')
      /\ \A r \in 1..Len(runs) : runs'[r] \in {runs[r], "failed"}
      /\ counted \subseteq counted' /\ counted' \subseteq counted \cup {a}
      /\ hub = "up" => a \in counted' \/ poisoned'
  <2>1. CASE hub = "up" /\ FailObserver /\ UNCHANGED counted
    BY <2>1, Failing, Zenon
  <2>2. CASE UNCHANGED <<poisoned, runs>> /\ ((hub = "dark" /\ UNCHANGED counted) \/ Commit(a))
    BY <2>2, Zenon DEF Commit, GInv, Types
  <2>3. CASE hub = "up" /\ FailObserver /\ Commit(a)
    BY <2>3, Failing, Zenon DEF Commit
  <2> QED BY <2>1, <2>2, <2>3, Zenon
<1>8. Types'
  <2>1. att' \in [Attempts -> Event \cup {New}]
    BY <1>2, <1>3, Zenon DEF GInv, Types
  <2> QED BY <1>7, <2>1, Zenon DEF GInv, Types
<1>9. Running'
  BY <1>7 DEF GInv, Running
<1>10. Observed'
  <2> SUFFICES ASSUME NEW b \in Attempts
               PROVE  /\ b \in InFlight' => hub \in {"up", "dark"} /\ att'[b].observer = run
                      /\ att'[b] # New => att'[b].observer \in 0..Len(runs)
                      /\ b \in Settled' \ counted' =>
                            runs'[att'[b].observer] # "closed" /\ (att'[b].observer = run => poisoned')
    BY <1>7, Zenon DEF Observed
  <2>1. CASE b = a
    <3>1. run \in 0..Len(runs)
      BY Zenon DEF GInv, Running
    <3>2. a \in Settled' \ counted' => runs'[run] # "closed" /\ poisoned'
      BY <1>5, <1>7 DEF GInv, Running
    <3> QED BY <1>3, <1>4, <2>1, <3>1, <3>2, Zenon
  <2>2. CASE b # a
    <3>1. b \in Settled => att[b] # New /\ att[b].observer # 0
      BY Events, Zenon DEF GInv
    <3>2. att[b] # New => att[b].observer \in 0..Len(runs)
      BY Zenon DEF GInv, Observed
    <3>3. b \in Settled \ counted => runs[att[b].observer] # "closed" /\ (att[b].observer = run => poisoned)
      BY Zenon DEF GInv, Observed
    <3>4. b \in InFlight => hub \in {"up", "dark"} /\ att[b].observer = run
      BY Zenon DEF GInv, Observed
    <3> QED BY <1>2, <1>6, <1>7, <2>2, <3>1, <3>2, <3>3, <3>4
  <2> QED BY <2>1, <2>2, Zenon
<1>11. Asked'
  <2>1. query # None => a \notin query.missing /\ query.missing \subseteq Attempts
    BY <1>4, Zenon DEF GInv, Asked, Settled
  <2> QED BY <1>2, <1>6, <1>7, <2>1, Zenon DEF GInv, Asked
<1> QED BY <1>8, <1>9, <1>10, <1>11, Zenon DEF GInv

LEMMA GSnapshots == ASSUME GInv, Snapshot PROVE GInv'
<1> USE DEF Snapshot
<1>1. InFlight' = InFlight /\ Settled' = Settled
  BY Zenon DEF InFlight, Settled
<1>2. run \in 1..Len(runs) /\ runs \in Seq({"open", "closed", "failed"}) /\ DOMAIN runs = 1..Len(runs)
  BY DEF GInv, Types, Running
<1>3. \A a \in Settled : a \in Attempts /\ att[a].observer \in 1..Len(runs)
  <2> SUFFICES ASSUME NEW a \in Settled PROVE a \in Attempts /\ att[a].observer \in 1..Len(runs)
    BY Zenon
  <2>1. a \in Attempts /\ att[a].observer # 0
    BY Zenon DEF Settled
  <2>2. att[a] # New
    BY <2>1, Events, Zenon DEF GInv
  <2> QED BY <2>1, <2>2 DEF GInv, Observed
<1>4. CASE FailObserver /\ UNCHANGED query
  BY <1>4, GFails, Zenon
<1>5. CASE /\ query' = [members |-> Everybody, registered |-> inventory # {}, runs |-> runs,
                        missing |-> Settled \ counted]
           /\ UNCHANGED <<poisoned, runs>>
  <2>1. Types' /\ Running'
    BY <1>5, Zenon DEF GInv, Types, Running
  <2>2. Observed'
    BY <1>1, <1>5, Zenon DEF GInv, Observed
  <2>3. query'.runs = runs /\ query'.missing = Settled \ counted
    BY <1>5, Zenon
  <2>4. \A a \in Settled \ counted : /\ runs[att[a].observer] \in {"open", "failed"}
                                     /\ att[a].observer = run => poisoned
    BY <1>2, <1>3 DEF GInv, Observed
  <2>5. Asked'
    BY <1>1, <1>2, <1>3, <1>5, <2>3, <2>4, Zenon DEF Asked
  <2> QED BY <2>1, <2>2, <2>5, Zenon DEF GInv
<1> QED BY <1>4, <1>5, Zenon

LEMMA GInductive == ASSUME GInv, [Next]_vars PROVE GInv'
<1>1. CASE UNCHANGED vars
  BY <1>1, GStutters, Zenon DEF vars, durable
<1>2. CASE Report
  <2>1. CASE UNCHANGED <<poisoned, runs>>
    BY <1>2, <2>1, GStutters, Zenon DEF Report
  <2>2. CASE FailObserver
    BY <1>2, <2>2, GFails, Zenon DEF Report, GInv, Asked
  <2> QED BY <1>2, <2>1, <2>2, Zenon DEF Report
<1>3. ASSUME NEW i \in Inventories, Register(i) PROVE GInv'
  BY <1>3, GStutters DEF Register
<1>4. CASE Start
  BY <1>4, GStarts, Zenon DEF Start
<1>5. CASE StartFails
  <2>1. CASE UNCHANGED runs
    BY <1>5, <2>1, GStutters, Zenon DEF StartFails
  <2>2. CASE runs' = Append(StartRun, "open")
    BY <1>5, <2>2, GStarts, Zenon DEF StartFails
  <2> QED BY <1>5, <2>1, <2>2, Zenon DEF StartFails
<1>6. CASE OtherAuditFails
  BY <1>6, GFails, Zenon DEF OtherAuditFails
<1> QED BY <1>1, <1>2, <1>3, <1>4, <1>5, <1>6, GStartsDark, GStops, GCloses, GSnapshots, GBegins, GFinishes,
           GRecords, Zenon DEF Next

LEMMA GInvariant == Spec => []GInv
  BY GInitially, GInductive, PTL DEF Spec

\* A report that calls the observer healthy misses no attempt that an observer run
\* took in (buildCampaignReadiness, StartObserverRun, failObserver).
THEOREM HealthyMissesNothing == Spec => []HealthyMeansComplete
  BY Gapless, GInvariant, PTL

-----------------------------------------------------------------------------
(* The facts *)

Sure(s) == s.ingress = "trusted" /\ s.key = "client" /\ s.metadata

\* Whether an attempt counts as a kind, and what the old row of a token does.
Is(a, k) ==
  CASE k = "secure"  -> a.result = "ok" /\ Sure(a.shape)
    [] k = "unknown" -> /\ a.result = "ok" /\ ~a.shape.metadata
                        /\ a.shape.ingress = "trusted" /\ a.shape.key = "client"
    [] k = "legacy"  -> a.result = "ok" /\ (a.shape.ingress # "trusted" \/ a.shape.key # "client")
    [] k = "compat"  -> a.shape.ingress = "compat"
    [] OTHER         -> a.result = k
OldCount(row, k) ==
  CASE k = "secure"  -> 1
    [] k = "unknown" -> IF Sure(row.shape) THEN 0 ELSE 1
    [] k = "compat"  -> IF row.shape.ingress = "compat" THEN 1 ELSE 0
    [] OTHER         -> 0

Old(t, k) == IF oldRows[t] = NoRow \/ ~opened THEN 0 ELSE OldCount(oldRows[t], k)
Counted(t, k) == {a \in counted : att[a].token = t /\ Is(att[a], k)}

\* Old rows say "secure"; only a recorded attempt is counted.
Rows ==
  /\ facts \in [Tokens -> [Kinds -> Nat]] /\ DOMAIN latest = Tokens
  /\ \A t \in Tokens : oldRows[t] # NoRow => oldRows[t].class = "secure"
  /\ \A a \in counted : att[a].pc = "done"
  /\ \A a \in Attempts : att[a].pc = "dated" => att[a].result \in {"ok", "denied", "error"}

\* Before the first opening there is the old row alone; afterwards a token with a row
\* has facts, and a row whose label is contradicted has its flag.
Opened ==
  IF ~opened
  THEN /\ counted = {} /\ flags = {} /\ latest = oldRows /\ \A t \in Tokens : facts[t] = NoFact
       /\ hub \in {"down", "dark"}
  ELSE \A t \in Tokens : latest[t] # NoRow =>
          /\ Present(t)
          /\ Unsupported(latest[t].class, latest[t].shape) => t \in flags

History == \A t \in Tokens, k \in Kinds : facts[t][k] = Old(t, k) + Cardinality(Counted(t, k))

HInv == GInv /\ Rows /\ Opened /\ History

LEMMA HistoryIs == History => FactsAreTheHistory
  BY Zenon DEF History, FactsAreTheHistory, Old, Counted, Is, OldCount, Sure

LEMMA HInitially == Init => HInv
<1> SUFFICES ASSUME Init PROVE HInv
  OBVIOUS
<1>1. GInv
  BY GInitially
<1>2. \A t \in Tokens : facts[t] = NoFact /\ \A k \in Kinds : facts[t][k] = 0
  BY Zenon DEF Init, NoFact
<1>3. ~opened /\ counted = {}
  BY Zenon DEF Init
<1>4. Rows
  BY DEF Init, Rows, NoFact, OldRow
<1>5. Opened
  BY <1>2, <1>3, Zenon DEF Init, Opened
<1>6. \A t, k : Counted(t, k) = {}
  BY <1>3 DEF Counted
<1>7. Cardinality({}) = 0
  BY FS_EmptySet
<1>8. History
  BY <1>2, <1>3, <1>6, <1>7 DEF History, Old
<1> QED BY <1>1, <1>4, <1>5, <1>8 DEF HInv

\* The counted attempts of a kind are a finite set.
LEMMA Countable ==
    ASSUME HInv, NEW t, NEW k
    PROVE  IsFiniteSet(Counted(t, k)) /\ Cardinality(Counted(t, k)) \in Nat
<1>1. Counted(t, k) \subseteq Attempts
  BY DEF HInv, GInv, Types, Counted
<1>2. IsFiniteSet(Counted(t, k))
  BY <1>1, ObserverAssumption, FS_Subset
<1> QED BY <1>2, FS_CardinalityType

\* Nothing that the facts depend on changes, but attempts that are not recorded.
LEMMA HStutters ==
    ASSUME HInv, GInv', UNCHANGED <<facts, latest, oldRows, flags, counted, opened>>,
           ~opened => hub' \in {"down", "dark"},
           \A a \in counted : att'[a] = att[a],
           \A a \in Attempts : att'[a].pc = "dated" => att'[a].result \in {"ok", "denied", "error"}
    PROVE  HInv'
<1>1. Rows'
  BY Zenon DEF HInv, Rows
<1>3. Opened'
  BY Zenon DEF HInv, Opened, Present
<1>4. \A t, k : Counted(t, k)' = Counted(t, k)
  BY DEF Counted, Is, Sure
<1>5. \A t, k : Old(t, k)' = Old(t, k)
  BY DEF Old, OldCount, Sure
<1>6. History'
  BY <1>4, <1>5, Zenon DEF HInv, History
<1> QED BY <1>1, <1>3, <1>6 DEF HInv

\* The counters one event adds to are the kinds it is of.
LEMMA CountersAre ==
    ASSUME NEW e, e.result \in {"ok", "denied", "error"}, NEW k \in Kinds
    PROVE  k \in Counters(e) <=> Is(e, k)
<1>1. CASE k \in {"secure", "unknown", "legacy"}
  BY <1>1, Zenon DEF Counters, Is, Normalised, Unsupported, Classify, Sure
<1>2. CASE k = "compat"
  BY <1>2 DEF Counters, Is, Normalised, Unsupported, Classify
<1>3. CASE k \in {"denied", "error"}
  BY <1>3, Zenon DEF Counters, Is, Normalised, Unsupported, Classify
<1> QED BY <1>1, <1>2, <1>3 DEF Kinds

\* An opening of the database changes nothing but the first.
LEMMA Imports ==
    ASSUME HInv, GInv', Import, UNCHANGED <<latest, oldRows, counted, att>>
    PROVE  HInv'
<1>1. CASE opened
  <2>1. ToFlag = {}
    BY <1>1, Zenon DEF HInv, Opened, ToFlag
  <2>2. \A t \in Tokens : Present(t) \/ latest[t] = NoRow
    BY <1>1 DEF HInv, Opened
  <2>3. facts' = facts /\ flags' = flags
    BY <2>1, <2>2, Zenon DEF Import, HInv, Rows
  <2>4. Rows'
    BY <2>3, Zenon DEF HInv, Rows
  <2>5. Opened'
    BY <1>1, <2>3, Zenon DEF HInv, Opened, Present, Import
  <2>6. \A t, k : Counted(t, k)' = Counted(t, k) /\ Old(t, k)' = Old(t, k)
    BY <1>1 DEF Counted, Is, Sure, Old, OldCount, Import
  <2>7. History'
    BY <2>3, <2>6 DEF HInv, History
  <2> QED BY <2>4, <2>5, <2>7 DEF HInv
<1>2. CASE ~opened
  <2>1. counted = {} /\ flags = {} /\ latest = oldRows /\ \A t \in Tokens : facts[t] = NoFact
    BY <1>2 DEF HInv, Opened
  <2>2. \A t \in Tokens : ~Present(t)
    BY <2>1 DEF Present
  <2>3. ASSUME NEW t \in Tokens
        PROVE  facts'[t] = LET f == IF latest[t] # NoRow THEN RowFact(latest[t]) ELSE NoFact
                           IN  IF t \in ToFlag THEN Bump(f, {"unknown"}) ELSE f
    BY <2>1, <2>2, Zenon DEF Import
  <2>4. \A t \in Tokens : latest[t] # NoRow => latest[t].class = "secure"
    BY <2>1 DEF HInv, Rows
  <2>5. ASSUME NEW t \in Tokens, latest[t] = NoRow PROVE facts'[t] = NoFact
    BY <2>3, <2>5 DEF ToFlag
  <2>6. ASSUME NEW t \in Tokens, latest[t] # NoRow
        PROVE  facts'[t] = [k \in Kinds |-> OldCount(latest[t], k)]
    <3>1. t \in ToFlag <=> ~Sure(latest[t].shape)
      BY <2>1, <2>4, <2>6, Zenon DEF ToFlag, Unsupported, Sure
    <3>2. RowFact(latest[t]) =
            [k \in Kinds |-> IF k = "secure" \/ (k = "compat" /\ latest[t].shape.ingress = "compat")
                             THEN 1 ELSE 0]
      BY <2>4, <2>6 DEF RowFact, Bump, NoFact
    <3>3. CASE t \in ToFlag
      <4>1. facts'[t] = [k \in Kinds |-> RowFact(latest[t])[k] + IF k = "unknown" THEN 1 ELSE 0]
        BY <2>3, <2>6, <3>3 DEF Bump
      <4> QED BY <3>1, <3>2, <3>3, <4>1 DEF OldCount
    <3>4. CASE t \notin ToFlag
      <4>1. facts'[t] = RowFact(latest[t])
        BY <2>3, <2>6, <3>4
      <4> QED BY <3>1, <3>2, <3>4, <4>1 DEF OldCount
    <3> QED BY <3>3, <3>4
  <2>7. NoFact \in [Kinds -> Nat] /\ \A row : [k \in Kinds |-> OldCount(row, k)] \in [Kinds -> Nat]
    BY DEF NoFact, OldCount
  <2>8. facts' \in [Tokens -> [Kinds -> Nat]]
    <3>1. facts' = [t \in Tokens |-> facts'[t]]
      BY DEF Import
    <3>2. ASSUME NEW t \in Tokens PROVE facts'[t] \in [Kinds -> Nat]
      <4>1. CASE latest[t] = NoRow
        BY <2>5, <2>7, <4>1
      <4>2. CASE latest[t] # NoRow
        <5>1. facts'[t] = [k \in Kinds |-> OldCount(latest[t], k)]
          BY <2>6, <4>2
        <5> QED BY <2>7, <5>1
      <4> QED BY <4>1, <4>2
    <3> QED BY <3>1, <3>2
  <2>9. Rows'
    BY <2>8, Zenon DEF HInv, Rows
  <2>10. ASSUME NEW t \in Tokens, latest[t] # NoRow PROVE facts'[t] # NoFact
    <3>1. facts'[t]["secure"] = 1 /\ NoFact["secure"] = 0
      BY <2>6, <2>10, Zenon DEF Kinds, OldCount, NoFact
    <3> QED BY <3>1
  <2>11. flags' = ToFlag
    BY <2>1 DEF Import
  <2>12. Opened'
    BY <2>1, <2>10, <2>11, Zenon DEF Opened, ToFlag, Present, Import
  <2>13. History'
    <3> SUFFICES ASSUME NEW t \in Tokens, NEW k \in Kinds
                 PROVE  facts'[t][k] = Old(t, k)' + Cardinality(Counted(t, k)')
      BY DEF History
    <3>1. Counted(t, k)' = {} /\ Cardinality({}) = 0
      BY <2>1, FS_EmptySet DEF Counted
    <3>2. opened' = TRUE
      BY DEF Import
    <3>3. facts'[t][k] = Old(t, k)' /\ facts'[t][k] \in Nat
      BY <2>1, <2>5, <2>6, <2>8, <3>2 DEF Old, NoFact, OldCount, Sure
    <3> QED BY <3>1, <3>3
  <2> QED BY <2>9, <2>12, <2>13 DEF HInv
<1> QED BY <1>1, <1>2

\* A recorded event is counted once, where it belongs.
LEMMA HCommits ==
    ASSUME HInv, GInv', NEW a \in Attempts, att[a].pc = "dated", att' = [att EXCEPT ![a].pc = "done"],
           hub = "up", Commit(a), UNCHANGED <<flags, opened, oldRows>>
    PROVE  HInv'
<1> DEFINE e == att[a]
           u == att[a].token
<1>1. e \in Event /\ e.result \in {"ok", "denied", "error"} /\ u \in Tokens /\ a \notin counted
  <2>1. e \in Event
    BY Events, Zenon DEF HInv, GInv
  <2> QED BY <2>1, Zenon DEF HInv, Rows, Event
<1>2. opened /\ opened'
  BY DEF HInv, Opened
<1>3. /\ att'[a].pc = "done" /\ att'[a].token = u /\ att'[a].result = e.result /\ att'[a].shape = e.shape
      /\ \A b \in Attempts \ {a} : att'[b] = att[b]
  BY <1>1, Zenon DEF HInv, GInv, Types, Event
<1>4. facts \in [Tokens -> [Kinds -> Nat]] /\ counted \subseteq Attempts /\ counted' = counted \cup {a}
  BY Zenon DEF HInv, GInv, Types, Rows, Commit
<1>5. facts' = [facts EXCEPT ![u] = Bump(facts[u], Counters(e))]
  BY Zenon DEF Commit
<1>6. \A k \in Kinds : Bump(facts[u], Counters(e))[k] = facts[u][k] + (IF k \in Counters(e) THEN 1 ELSE 0)
  BY DEF Bump
<1>7. Bump(facts[u], Counters(e)) \in [Kinds -> Nat]
  BY <1>1, <1>4 DEF Bump
<1>8. facts' \in [Tokens -> [Kinds -> Nat]]
  BY <1>4, <1>5, <1>7, Zenon
<1>9. \A t \in Tokens \ {u} : facts'[t] = facts[t]
  BY <1>4, <1>5, Zenon
<1>10. \A k \in Kinds : facts'[u][k] = facts[u][k] + (IF k \in Counters(e) THEN 1 ELSE 0)
  BY <1>1, <1>4, <1>5, <1>6, Zenon
<1>11. Rows'
  <2>1. DOMAIN latest' = Tokens
    BY Zenon DEF HInv, Rows, Commit
  <2>2. \A b \in counted' : att'[b].pc = "done"
    BY <1>3, <1>4 DEF HInv, Rows
  <2>3. \A b \in Attempts : att'[b].pc = "dated" => att'[b].result \in {"ok", "denied", "error"}
    BY <1>3 DEF HInv, Rows
  <2> QED BY <1>8, <2>1, <2>2, <2>3, Zenon DEF HInv, Rows
<1>12. facts'[u] # NoFact
  <2>1. PICK k \in Kinds : k \in Counters(e)
    BY <1>1, Zenon DEF Counters, Kinds, Normalised, Unsupported, Classify
  <2>2. facts'[u][k] # 0
    BY <1>1, <1>4, <1>10, <2>1
  <2> QED BY <2>2, Zenon DEF NoFact
<1>13. Opened'
  <2> SUFFICES ASSUME NEW t \in Tokens, latest'[t] # NoRow
               PROVE  /\ facts'[t] # NoFact
                      /\ Unsupported(latest'[t].class, latest'[t].shape) => t \in flags
    BY <1>2 DEF Opened, Present
  <2>1. CASE latest'[t] = latest[t]
    BY <1>2, <1>9, <1>12, <2>1, Zenon DEF HInv, Opened, Present
  <2>2. CASE latest'[t] # latest[t]
    <3> DEFINE row == [class |-> Normalised(Classify(e.shape), e.shape), shape |-> e.shape, at |-> e.at]
    <3>1. t = u /\ latest'[t] = row
      BY <2>2, Zenon DEF Commit, HInv, Rows
    <3>2. ~Unsupported(row.class, row.shape)
      BY Zenon DEF Normalised, Unsupported
    <3> QED BY <1>12, <3>1, <3>2, Zenon
  <2> QED BY <2>1, <2>2
<1>14. History'
  <2> SUFFICES ASSUME NEW t \in Tokens, NEW k \in Kinds
               PROVE  facts'[t][k] = Old(t, k)' + Cardinality(Counted(t, k)')
    BY DEF History
  <2>1. facts[t][k] = Old(t, k) + Cardinality(Counted(t, k)) /\ facts[t][k] \in Nat
    BY <1>4 DEF HInv, History
  <2>2. Old(t, k)' = Old(t, k) /\ Old(t, k) \in Nat
    BY <1>2, Zenon DEF Old, OldCount, Sure
  <2>3. Is(att'[a], k) <=> Is(e, k)
    BY <1>3 DEF Is, Sure
  <2>4. k \in Counters(e) <=> Is(e, k)
    BY <1>1, CountersAre
  <2>5. Counted(t, k)' = IF t = u /\ Is(e, k) THEN Counted(t, k) \cup {a} ELSE Counted(t, k)
    <3>1. \A b \in counted : b # a /\ att'[b] = att[b]
      BY <1>1, <1>3, <1>4
    <3>2. Counted(t, k)' = {b \in counted' : att'[b].token = t /\ Is(att'[b], k)}
      BY DEF Counted, Is, Sure
    <3>3. att'[a].token = u
      BY <1>3
    <3> HIDE DEF e, u
    <3> QED BY <1>4, <2>3, <3>1, <3>2, <3>3, Zenon DEF Counted
  <2>6. a \notin Counted(t, k)
    BY <1>1 DEF Counted
  <2>7. Cardinality(Counted(t, k) \cup {a}) = Cardinality(Counted(t, k)) + 1
    BY <2>6, Countable, FS_AddElement, Zenon
  <2>8. Cardinality(Counted(t, k)) \in Nat
    BY Countable
  <2>9. facts'[t][k] = facts[t][k] + (IF t = u /\ Is(e, k) THEN 1 ELSE 0)
    <3>1. CASE t = u
      BY <1>10, <2>4, <3>1, Zenon
    <3>2. CASE t # u
      BY <1>9, <2>1, <3>2
    <3> QED BY <3>1, <3>2, Zenon
  <2> HIDE DEF e, u
  <2>10. CASE t = u /\ Is(e, k)
    BY <2>1, <2>2, <2>5, <2>7, <2>8, <2>9, <2>10
  <2>11. CASE ~(t = u /\ Is(e, k))
    BY <2>1, <2>2, <2>5, <2>8, <2>9, <2>11
  <2> QED BY <2>10, <2>11
<1> QED BY <1>11, <1>13, <1>14 DEF HInv

LEMMA HRecords == ASSUME HInv, GInv', NEW a \in Attempts, Record(a) PROVE HInv'
<1> USE DEF Record
<1>1. CASE hub = "up" /\ Commit(a)
  BY <1>1, HCommits, Zenon
<1>2. CASE UNCHANGED <<facts, latest, counted>>
  <2>2. ~opened => hub' \in {"down", "dark"}
    BY Zenon DEF HInv, Opened
  <2>3. a \notin counted
    BY Zenon DEF HInv, Rows
  <2>4. \A b \in Attempts \ {a} : att'[b] = att[b]
    BY Zenon DEF HInv, GInv, Types
  <2>5. att'[a].pc = "done"
    BY Events, Zenon DEF HInv, GInv, Types, Event
  <2>6. \A b \in counted : att'[b] = att[b]
    BY <2>3, <2>4, Zenon DEF HInv, GInv, Types
  <2>7. \A b \in Attempts : att'[b].pc = "dated" => att'[b].result \in {"ok", "denied", "error"}
    BY <2>4, <2>5 DEF HInv, Rows
  <2> QED BY <1>2, <2>2, <2>6, <2>7, HStutters, Zenon
<1> QED BY <1>1, <1>2, Zenon

LEMMA HInductive == ASSUME HInv, [Next]_vars PROVE HInv'
<1>0. GInv' /\ GInv
  BY GInductive DEF HInv
<1>a. \A a \in counted : a \in Attempts /\ att[a].pc = "done"
  BY Zenon DEF HInv, GInv, Types, Rows
<1>b. \A a \in Attempts : att[a].pc = "dated" => att[a].result \in {"ok", "denied", "error"}
  BY Zenon DEF HInv, Rows
<1>c. ~opened => hub \in {"down", "dark"}
  BY Zenon DEF HInv, Opened
<1>1. CASE UNCHANGED vars
  BY <1>0, <1>1, <1>b, <1>c, HStutters, Zenon DEF vars, durable
<1>2. CASE Report
  BY <1>0, <1>2, <1>b, <1>c, HStutters, Zenon DEF Report, durable
<1>3. ASSUME NEW i \in Inventories, Register(i) PROVE HInv'
  BY <1>0, <1>3, Imports DEF Register
<1>4. CASE Start \/ StartFails
  BY <1>0, <1>4, Imports, Zenon DEF Start, StartFails
<1>5. CASE StartDark
  BY <1>0, <1>5, <1>b, HStutters, Zenon DEF StartDark, durable
<1>6. CASE Stop
  <2>1. \A a \in counted : att'[a] = att[a]
    BY <1>6, <1>a DEF Stop, InFlight
  <2>2. \A a \in Attempts : att'[a].pc = "dated" => att'[a].result \in {"ok", "denied", "error"}
    <3> SUFFICES ASSUME NEW a \in Attempts, att'[a].pc = "dated"
                 PROVE  att'[a].result \in {"ok", "denied", "error"}
      OBVIOUS
    <3>1. CASE a \in InFlight
      <4>1. att[a] \in Event /\ att'[a] = [att[a] EXCEPT !.pc = "lost"]
        BY <1>0, <1>6, <3>1, Events, Zenon DEF Stop, InFlight, GInv
      <4> QED BY <4>1 DEF Event
    <3>2. CASE a \notin InFlight
      BY <1>6, <1>b, <3>2 DEF Stop
    <3> QED BY <3>1, <3>2
  <2> QED BY <1>0, <1>6, <2>1, <2>2, HStutters, Zenon DEF Stop, durable
<1>7. CASE Close
  BY <1>0, <1>7, <1>b, <1>c, HStutters, Zenon DEF Close
<1>8. CASE Snapshot \/ OtherAuditFails
  BY <1>0, <1>8, <1>b, <1>c, HStutters, Zenon DEF Snapshot, OtherAuditFails
<1>9. ASSUME NEW a \in Attempts, Begin(a) PROVE HInv'
  <2>1. att' = [att EXCEPT ![a] = att'[a]] /\ att'[a].pc = "begun"
    BY <1>0, <1>9 DEF Begin, GInv, Types
  <2>2. \A b \in Attempts \ {a} : att'[b] = att[b]
    BY <1>0, <2>1 DEF GInv, Types
  <2>3. a \notin counted
    BY <1>9, <1>a, Zenon DEF Begin
  <2>4. \A b \in counted : att'[b] = att[b]
    BY <1>a, <2>2, <2>3
  <2>5. \A b \in Attempts : att'[b].pc = "dated" => att'[b].result \in {"ok", "denied", "error"}
    BY <1>b, <2>1, <2>2
  <2> QED BY <1>0, <1>9, <1>c, <2>4, <2>5, HStutters, Zenon DEF Begin, durable
<1>10. ASSUME NEW a \in Attempts, Finish(a) PROVE HInv'
  <2>1. PICK result \in {"ok", "denied", "error"} :
           att' = [att EXCEPT ![a].pc = "dated", ![a].result = result, ![a].at = clock + 1]
    BY <1>10, Zenon DEF Finish
  <2>2. \A b \in Attempts \ {a} : att'[b] = att[b]
    BY <1>0, <2>1, Zenon DEF GInv, Types
  <2>3. att[a] \in Event
    BY <1>0, <1>10, Events, Zenon DEF Finish, GInv
  <2>4. att'[a] = [att[a] EXCEPT !.pc = "dated", !.result = result, !.at = clock + 1]
    BY <1>0, <2>1, Zenon DEF GInv, Types
  <2>5. att'[a].result = result
    BY <2>3, <2>4 DEF Event
  <2>6. \A b \in counted : att'[b] = att[b]
    BY <1>10, <1>a, <2>2, Zenon DEF Finish
  <2>7. \A b \in Attempts : att'[b].pc = "dated" => att'[b].result \in {"ok", "denied", "error"}
    BY <1>b, <2>2, <2>5
  <2> QED BY <1>0, <1>10, <1>c, <2>6, <2>7, HStutters, Zenon DEF Finish, durable
<1> QED BY <1>0, <1>1, <1>2, <1>3, <1>4, <1>5, <1>6, <1>7, <1>8, <1>9, <1>10, HRecords DEF Next

\* migration_observation_facts is the history of the recorded attempts and of what a
\* version 1 database brought (recordMigrationFact, initializeCampaignHistory).
THEOREM FactsAreHistory == Spec => []FactsAreTheHistory
<1>1. HInv => FactsAreTheHistory
  BY HistoryIs DEF HInv
<1> QED BY <1>1, HInitially, HInductive, PTL DEF Spec

-----------------------------------------------------------------------------
(***************************************************************************)
(* Proofs about ProcessBudget, for every set of calls, every number of     *)
(* seats and every number of helpers that die.                             *)
(*                                                                         *)
(* The answers of Run are about processes it does not see.  The invariant  *)
(* follows one call along the chain that connects the two: what runs       *)
(* decides what the helper can be doing, the helper what receipt it leaves *)
(* behind, the receipt what the monitor reports, and the report what Run   *)
(* answers and whether the seat is given back.                             *)
(***************************************************************************)
CONSTANTS Calls, Seats, MaxCrash
VARIABLES pc, answer, held, expired, life, helper, command, children, extra, complete,
          receipt, report, ran, crashes

Budget == INSTANCE ProcessBudget

\* Budget counts with the Cardinality of its own copy of FiniteSets.
LEMMA BudgetSizes == \A S : Budget!Cardinality(S) = Cardinality(S)
  BY DEF Budget!Cardinality, Cardinality

\* What the helper's state says about the command and its descendants
Below(c) ==
  /\ helper[c] \in {"none", "checked", "polled"} =>
       command[c] = "none" /\ c \notin children /\ c \notin extra /\ c \notin ran
  /\ helper[c] \in {"cleaning", "exited"} => command[c] # "running"
  /\ helper[c] = "exited" => c \notin children

\* What a receipt and a report prove
Proof(c) ==
  /\ receipt[c] # "none" => helper[c] = "exited"
  /\ receipt[c] = "C0" => command[c] = "succeeded" /\ c \notin extra
  /\ receipt[c] = "C2" => command[c] = "none" /\ c \notin ran
  /\ report[c] # "none" => helper[c] \in {"exited", "dead"}
  /\ report[c] = "unstarted" => receipt[c] = "C2"
  /\ report[c] = "ok" => receipt[c] = "C0"
  /\ report[c] = "failed" => receipt[c] # "none"

\* Where the call is, and what it has answered
Seated(c) ==
  /\ pc[c] = "idle" => c \notin held
  /\ pc[c] \in {"seated", "await", "grace"} => c \in held
  /\ pc[c] \in {"idle", "seated"} => helper[c] = "none"
  /\ pc[c] = "returned" <=> answer[c] # "none"
  /\ answer[c] = "before" => helper[c] = "none" \/ receipt[c] = "C2"
  /\ answer[c] = "ok" => receipt[c] = "C0"
  /\ answer[c] = "failed" => receipt[c] # "none"
  /\ answer[c] = "unknown" <=> pc[c] = "returned" /\ c \in held

IInv ==
  /\ Budget!TypeOK
  /\ \A c \in Calls : Below(c) /\ Proof(c) /\ Seated(c)
  /\ IsFiniteSet(held) /\ Cardinality(held) <= Seats

-----------------------------------------------------------------------------
\* Before the first call there is nothing to account for.
LEMMA InitIInv ==
  ASSUME Budget!SeatsPositive, Budget!MaxCrashNatural
  PROVE  Budget!Init => IInv
<1> SUFFICES ASSUME Budget!Init PROVE IInv
  OBVIOUS
<1>1. Budget!TypeOK
  BY DEF Budget!MaxCrashNatural, Budget!Init, Budget!TypeOK
<1>2. ASSUME NEW c \in Calls PROVE Below(c) /\ Proof(c) /\ Seated(c)
  BY DEF Budget!Init, Below, Proof, Seated
<1>3. IsFiniteSet(held) /\ Cardinality(held) <= Seats
  BY FS_EmptySet DEF Budget!SeatsPositive, Budget!Init
<1> QED BY <1>1, <1>2, <1>3 DEF IInv

\* No step takes a seat beyond the last: Run admits only into a free one.
LEMMA HeldBounded ==
  ASSUME Budget!SeatsPositive, IInv, [Budget!Next]_(Budget!vars)
  PROVE  IsFiniteSet(held') /\ Cardinality(held') <= Seats
<1>1. Seats \in Nat /\ IsFiniteSet(held) /\ Cardinality(held) <= Seats /\ Cardinality(held) \in Nat
  BY FS_CardinalityType DEF Budget!SeatsPositive, IInv
<1>2. ASSUME NEW c \in Calls, c \notin held, Cardinality(held) < Seats
      PROVE  IsFiniteSet(held \cup {c}) /\ Cardinality(held \cup {c}) <= Seats
  <2>1. IsFiniteSet(held \cup {c}) /\ Cardinality(held \cup {c}) = Cardinality(held) + 1
    BY <1>1, <1>2, FS_AddElement
  <2> QED BY <1>1, <1>2, <2>1
<1>3. ASSUME NEW S, S \subseteq held
      PROVE  IsFiniteSet(S) /\ Cardinality(S) <= Seats
  <2>1. IsFiniteSet(S) /\ Cardinality(S) <= Cardinality(held) /\ Cardinality(S) \in Nat
    BY <1>1, <1>3, FS_Subset, FS_CardinalityType
  <2> QED BY <1>1, <2>1
<1>4. \/ held' \subseteq held
      \/ \E c \in Calls : c \notin held /\ Cardinality(held) < Seats /\ held' = held \cup {c}
  <2>1. CASE UNCHANGED Budget!vars
    BY <2>1 DEF Budget!vars
  <2>2. ASSUME NEW c \in Calls, Budget!Admit(c)
        PROVE  \/ held' = held
               \/ c \notin held /\ Cardinality(held) < Seats /\ held' = held \cup {c}
    BY <2>2, BudgetSizes, Zenon DEF Budget!Admit, IInv, Seated
  <2>3. ASSUME NEW c \in Calls, Budget!Abandon(c) \/ Budget!Return(c)
        PROVE  held' \subseteq held
    BY <2>3 DEF Budget!Abandon, Budget!Return
  <2>4. ASSUME NEW c \in Calls,
               \/ Budget!Expire(c) \/ Budget!Spawn(c) \/ Budget!Cancel(c) \/ Budget!GraceEnds(c)
               \/ Budget!HelperRefuses(c) \/ Budget!HelperPolls(c) \/ Budget!HelperStarts(c) \/ Budget!HelperCannotStart(c)
               \/ Budget!HelperEnds(c) \/ Budget!HelperReaps(c) \/ Budget!HelperCertifies(c) \/ Budget!HelperDies(c)
               \/ Budget!CommandForks(c) \/ Budget!CommandExits(c) \/ Budget!Monitor(c)
        PROVE  held' = held
    BY <2>4, Zenon DEF Budget!Expire, Budget!Spawn, Budget!Cancel, Budget!GraceEnds,
       Budget!HelperRefuses, Budget!HelperPolls, Budget!HelperStarts, Budget!HelperCannotStart,
       Budget!HelperEnds, Budget!HelperReaps, Budget!HelperCertifies, Budget!HelperDies,
       Budget!CommandForks, Budget!CommandExits, Budget!Monitor, Budget!HelperKeeps
  <2> QED BY <2>1, <2>2, <2>3, <2>4 DEF Budget!Next
<1> QED BY <1>2, <1>3, <1>4

\* Every step of a call, its helper, its command and its monitor keeps the
\* invariant of that call and of every other.
LEMMA NextIInv ==
  ASSUME Budget!SeatsPositive, Budget!MaxCrashNatural
  PROVE  IInv /\ [Budget!Next]_(Budget!vars) => IInv'
<1> SUFFICES ASSUME IInv, [Budget!Next]_(Budget!vars) PROVE IInv'
  OBVIOUS
<1>1. IsFiniteSet(held') /\ Cardinality(held') <= Seats
  BY HeldBounded
<1>2. Budget!TypeOK'
  <2> USE DEF IInv, Budget!TypeOK
  <2>1. CASE UNCHANGED Budget!vars
    BY <2>1, Zenon DEF Budget!vars
  <2>2. ASSUME NEW c \in Calls, Budget!Expire(c) \/ Budget!Admit(c) \/ Budget!Abandon(c) \/ Budget!Spawn(c) \/ Budget!Cancel(c) \/ Budget!GraceEnds(c)
        PROVE  Budget!TypeOK'
    BY <2>2 DEF Budget!Expire, Budget!Admit, Budget!Abandon, Budget!Spawn, Budget!Cancel,
       Budget!GraceEnds, Budget!Answer, Budget!helperVars
  <2>3. ASSUME NEW c \in Calls, Budget!Return(c) PROVE Budget!TypeOK'
    <3>1. Budget!Classify(c) \in {"before", "ok", "failed", "unknown"}
      BY DEF Budget!Classify
    <3> QED BY <2>3, <3>1, Zenon DEF Budget!Return, Budget!Answer, Budget!helperVars
  <2>4. ASSUME NEW c \in Calls,
               \/ Budget!HelperRefuses(c) \/ Budget!HelperPolls(c) \/ Budget!HelperStarts(c) \/ Budget!HelperCannotStart(c)
               \/ Budget!HelperEnds(c) \/ Budget!HelperReaps(c) \/ Budget!HelperCertifies(c)
               \/ Budget!CommandForks(c) \/ Budget!CommandExits(c)
        PROVE  Budget!TypeOK'
    BY <2>4 DEF Budget!HelperRefuses, Budget!HelperPolls, Budget!HelperStarts,
       Budget!HelperCannotStart, Budget!HelperEnds, Budget!HelperReaps, Budget!HelperCertifies,
       Budget!CommandForks, Budget!CommandExits, Budget!HelperKeeps
  <2>5. ASSUME NEW c \in Calls, Budget!HelperDies(c) PROVE Budget!TypeOK'
    BY <2>5 DEF Budget!MaxCrashNatural, Budget!HelperDies
  <2>6. ASSUME NEW c \in Calls, Budget!Monitor(c) PROVE Budget!TypeOK'
    BY <2>6, Zenon DEF Budget!Monitor
  <2> QED BY <2>1, <2>2, <2>3, <2>4, <2>5, <2>6, Zenon DEF Budget!Next
<1>3. ASSUME NEW d \in Calls PROVE (Below(d) /\ Proof(d) /\ Seated(d))'
  <2>1. Below(d) /\ Proof(d) /\ Seated(d) /\ Budget!TypeOK
    BY DEF IInv
  <2> USE DEF Below, Proof, Seated, Budget!TypeOK
  <2>2. CASE UNCHANGED Budget!vars
    BY <2>1, <2>2 DEF Budget!vars
  <2>3. ASSUME NEW c \in Calls, Budget!Expire(c) \/ Budget!Admit(c) \/ Budget!Abandon(c)
        PROVE  (Below(d) /\ Proof(d) /\ Seated(d))'
    BY <2>1, <2>3 DEF Budget!Expire, Budget!Admit, Budget!Abandon, Budget!Answer, Budget!helperVars
  <2>4. ASSUME NEW c \in Calls, Budget!Spawn(c) \/ Budget!Cancel(c) \/ Budget!GraceEnds(c)
        PROVE  (Below(d) /\ Proof(d) /\ Seated(d))'
    BY <2>1, <2>4 DEF Budget!Spawn, Budget!Cancel, Budget!GraceEnds, Budget!Answer,
       Budget!helperVars
  <2>5. ASSUME NEW c \in Calls, Budget!Return(c) PROVE (Below(d) /\ Proof(d) /\ Seated(d))'
    BY <2>1, <2>5 DEF Budget!Return, Budget!Classify, Budget!Answer, Budget!helperVars
  <2>6. ASSUME NEW c \in Calls, Budget!HelperRefuses(c) \/ Budget!HelperPolls(c) \/ Budget!HelperStarts(c) \/ Budget!HelperCannotStart(c)
        PROVE  (Below(d) /\ Proof(d) /\ Seated(d))'
    BY <2>1, <2>6 DEF Budget!HelperRefuses, Budget!HelperPolls, Budget!HelperStarts,
       Budget!HelperCannotStart, Budget!HelperKeeps
  <2>7. ASSUME NEW c \in Calls, Budget!HelperEnds(c) PROVE (Below(d) /\ Proof(d) /\ Seated(d))'
    BY <2>1, <2>7 DEF Budget!HelperEnds, Budget!HelperKeeps
  <2>8. ASSUME NEW c \in Calls, Budget!HelperReaps(c) \/ Budget!HelperCertifies(c)
        PROVE (Below(d) /\ Proof(d) /\ Seated(d))'
    BY <2>1, <2>8 DEF Budget!HelperReaps, Budget!HelperCertifies, Budget!HelperKeeps
  <2>9. ASSUME NEW c \in Calls, Budget!HelperDies(c) PROVE (Below(d) /\ Proof(d) /\ Seated(d))'
    BY <2>1, <2>9 DEF Budget!HelperDies
  <2>10. ASSUME NEW c \in Calls, Budget!CommandForks(c) \/ Budget!CommandExits(c)
         PROVE (Below(d) /\ Proof(d) /\ Seated(d))'
    BY <2>1, <2>10 DEF Budget!CommandForks, Budget!CommandExits, Budget!HelperKeeps
  <2>11. ASSUME NEW c \in Calls, Budget!Monitor(c) PROVE (Below(d) /\ Proof(d) /\ Seated(d))'
    BY <2>1, <2>11 DEF Budget!Monitor
  <2> QED BY <2>2, <2>3, <2>4, <2>5, <2>6, <2>7, <2>8, <2>9, <2>10, <2>11, Zenon DEF Budget!Next
<1> QED BY <1>1, <1>2, <1>3 DEF IInv

\* The invariant holds in every reachable state.
LEMMA AlwaysIInv ==
  ASSUME Budget!SeatsPositive, Budget!MaxCrashNatural
  PROVE  Budget!Spec => []IInv
BY InitIInv, NextIInv, PTL DEF Budget!Spec

-----------------------------------------------------------------------------
(* The theorems *)

\* BeforeStart of Run's error is a proof that the command never ran and that
\* nothing is left that could run it.
THEOREM BeforeStartProves ==
  ASSUME Budget!SeatsPositive, Budget!MaxCrashNatural
  PROVE  Budget!Spec => []Budget!BeforeStartIsProof
<1>1. IInv => Budget!BeforeStartIsProof
  BY DEF IInv, Below, Proof, Seated, Budget!BeforeStartIsProof, Budget!Alive
<1> QED BY <1>1, AlwaysIInv, PTL

\* A seat that is free has nothing left of the calls that used it, so at most
\* Seats commands are ever alive, however many calls return and helpers die.
THEOREM FreedSeats ==
  ASSUME Budget!SeatsPositive, Budget!MaxCrashNatural
  PROVE  Budget!Spec => []Budget!FreedSeatIsQuiet
<1>1. IInv => Budget!FreedSeatIsQuiet
  <2> SUFFICES ASSUME IInv PROVE Budget!FreedSeatIsQuiet
    OBVIOUS
  <2>1. ASSUME NEW c \in Calls, Budget!Alive(c) PROVE c \in held
    BY <2>1 DEF IInv, Budget!TypeOK, Below, Proof, Seated, Budget!Alive
  <2>2. {c \in Calls : Budget!Alive(c)} \subseteq held
    BY <2>1
  <2>3. /\ Cardinality({c \in Calls : Budget!Alive(c)}) <= Cardinality(held)
        /\ Cardinality({c \in Calls : Budget!Alive(c)}) \in Nat /\ Cardinality(held) \in Nat
    BY <2>2, FS_Subset, FS_CardinalityType DEF IInv
  <2>4. Cardinality({c \in Calls : Budget!Alive(c)}) <= Seats
    BY <2>3 DEF Budget!SeatsPositive, IInv
  <2> QED BY <2>1, <2>4, BudgetSizes DEF Budget!FreedSeatIsQuiet
<1> QED BY <1>1, AlwaysIInv, PTL

\* A success of Run is a command that ended by itself with status zero and left
\* no descendant behind.
THEOREM SuccessCompletes ==
  ASSUME Budget!SeatsPositive, Budget!MaxCrashNatural
  PROVE  Budget!Spec => []Budget!SuccessIsComplete
<1>1. IInv => Budget!SuccessIsComplete
  BY DEF IInv, Below, Proof, Seated, Budget!SuccessIsComplete, Budget!Alive
<1> QED BY <1>1, AlwaysIInv, PTL

\* Only an unknown answer costs a seat.
THEOREM QuarantineIsUnknown ==
  ASSUME Budget!SeatsPositive, Budget!MaxCrashNatural
  PROVE  Budget!Spec => []Budget!OnlyUnknownQuarantines
<1>1. IInv => Budget!OnlyUnknownQuarantines
  BY DEF IInv, Seated, Budget!OnlyUnknownQuarantines
<1> QED BY <1>1, AlwaysIInv, PTL
=============================================================================
