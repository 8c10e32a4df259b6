-------------------------- MODULE MigrationObserver --------------------------
(***************************************************************************)
(* The migration campaign of the Hub's console (hub/admin): every token    *)
(* bootstrap is accounted for in durable facts by an observer run, and the *)
(* readiness report says which members of the approved inventory may be    *)
(* migrated and whether the account is complete.  The Hub is stopped,      *)
(* killed and restarted; database writes fail; the inventory is registered *)
(* by a second process.  LegacyBootstrap models how a request meets the    *)
(* audit sink; here an attempt is begun, gets its date and its result, and *)
(* is recorded, and a clean close has drained the attempts.                *)
(***************************************************************************)
EXTENDS Naturals, Sequences, FiniteSets, FiniteSetsExt

CONSTANTS Tokens,       \* the token identities
          Attempts,     \* the bootstrap attempts with a valid token
          Shapes,       \* what the attempts look like: [ingress, key, metadata]
          Inventories,  \* the inventories an operator may have approved
          Capacity,     \* MaxCampaignMembers
          MaxRuns,      \* MaxObserverRuns
          MaxFaults,    \* bound: failing database operations
          MaxDark,      \* bound: Hub runs with ZHHUB_ADMIN_ENABLED=0
          Orderly       \* the Hub ends only when its service manager stops it

\* DecodeInventory takes no inventory without members.
ASSUME ObserverAssumption == {} \notin Inventories /\ IsFiniteSet(Attempts)

VARIABLES
  hub,       \* "down", "up", "dark" (no console) or "closed"
  run,       \* observerRunID: the number of the current run, 0 for none
  poisoned,  \* observationWriteFailed
  sources,   \* the tokens of the loaded token file
  att,       \* the attempts
  clock,     \* OccurredAt
  runs,      \* durable: migration_observer_runs
  facts,     \* durable: migration_observation_facts
  latest,    \* durable: client_migration_observations
  flags,     \* durable: migration_import_flags
  inventory, \* durable: the baseline, {} before the registration
  extras,    \* durable: the members appended later
  query,     \* the campaign snapshot of a readiness request under way
  shown,     \* history: the members that reports showed since the registration
  counted,   \* history: the attempts whose transaction committed
  oldRows,   \* history: the rows a version 1 database came with
  opened,    \* history: an opening of the database has imported them
  stopped,   \* history: the runs the service manager stopped while they were healthy
  faults, dark

durable == <<runs, facts, latest, flags, inventory, extras>>
vars == <<hub, run, poisoned, sources, att, clock, durable, query, shown, counted,
          oldRows, opened, stopped, faults, dark>>

Kinds == {"secure", "legacy", "unknown", "compat", "denied", "error"}
NoFact == [k \in Kinds |-> 0]
NoRow == [class |-> "none"]
None == [none |-> TRUE]

(***************************************************************************)
(* Classification                                                          *)
(***************************************************************************)
\* classifyBootstrapSecurity: what the handler says of a successful bootstrap.
Classify(s) ==
  IF s.ingress # "trusted" \/ s.key # "client" THEN "legacy"
  ELSE IF s.metadata THEN "secure" ELSE "unknown"

\* The row claims more than its columns support.
Unsupported(class, s) ==
  class = "secure" /\ ~(s.ingress = "trusted" /\ s.key = "client" /\ s.metadata)

\* insertAudit does not trust the label of the event.
Normalised(class, s) == IF Unsupported(class, s) THEN "unknown" ELSE class

\* recordMigrationFact: the counters one event adds to.
Counters(a) ==
  {IF a.result = "ok" THEN Normalised(Classify(a.shape), a.shape) ELSE a.result}
    \cup (IF a.shape.ingress = "compat" THEN {"compat"} ELSE {})

Present(t) == facts[t] # NoFact
InFlight == {a \in Attempts : att[a].pc \in {"begun", "dated"}}

(***************************************************************************)
(* The database                                                            *)
(***************************************************************************)
Bump(f, ks) == [k \in Kinds |-> f[k] + (IF k \in ks THEN 1 ELSE 0)]

\* The counters of a version 1 row.
RowFact(row) ==
  Bump(NoFact, {row.class} \cup (IF row.shape.ingress = "compat" THEN {"compat"} ELSE {}))

\* The flag of an earlier import is not looked at.
ToFlagAgain == {t \in Tokens : latest[t] # NoRow /\ Unsupported(latest[t].class, latest[t].shape)}

\* The rows whose label the import has to contradict, once.
ToFlag == {t \in Tokens \ flags : latest[t] # NoRow /\ Unsupported(latest[t].class, latest[t].shape)}

\* initializeCampaignHistory, at every opening of the database.
Import ==
  /\ facts' = [t \in Tokens |->
       LET f == IF ~Present(t) /\ latest[t] # NoRow THEN RowFact(latest[t]) ELSE facts[t]
       IN  IF t \in ToFlag THEN Bump(f, {"unknown"}) ELSE f]
  /\ flags' = flags \cup ToFlag /\ opened' = TRUE

\* insertAudit: the observation and the fact of one event, in one transaction.
Commit(a) ==
  LET e == att[a]
      t == e.token
  IN  /\ facts' = [facts EXCEPT ![t] = Bump(@, Counters(e))]
      /\ latest' = IF e.result = "ok" /\ (latest[t] = NoRow \/ e.at >= latest[t].at)
                   THEN [latest EXCEPT ![t] = [class |-> Normalised(Classify(e.shape), e.shape),
                                               shape |-> e.shape, at |-> e.at]]
                   ELSE latest
      /\ counted' = counted \cup {a}

\* The conditions under which that transaction is refused.
Refused(a) ==
  \/ runs[run] # "open"
  \/ ~Present(att[a].token) /\ Cardinality({t \in Tokens : Present(t)}) >= Capacity

Fault == faults < MaxFaults /\ faults' = faults + 1

\* failObserver: the flag always, the run if that write succeeds.
FailObserver ==
  /\ poisoned' = TRUE
  /\ runs' \in {runs, [runs EXCEPT ![run] = "failed"]}

\* A run that was still open is taken for a closed one.
StartRunTrusting == [r \in DOMAIN runs |-> IF runs[r] = "open" THEN "closed" ELSE runs[r]]

\* StartObserverRun: a run that is still open was not closed.
StartRun == [r \in DOMAIN runs |-> IF runs[r] = "open" THEN "failed" ELSE runs[r]]

(***************************************************************************)
(* Initial states: an empty database, or one of version 1 with a row       *)
(***************************************************************************)
OldRow(t, row) == [u \in Tokens |-> IF u = t THEN row ELSE NoRow]

Init ==
  /\ hub = "down" /\ run = 0 /\ poisoned = FALSE /\ sources = {}
  /\ att = [a \in Attempts |-> [pc |-> "new"]] /\ clock = 1
  /\ runs = <<>> /\ facts = [t \in Tokens |-> NoFact] /\ flags = {}
  /\ \/ latest = [t \in Tokens |-> NoRow]
     \/ \E t \in Tokens, s \in Shapes :
          latest = OldRow(t, [class |-> "secure", shape |-> s, at |-> 1])
  /\ inventory = {} /\ extras = {} /\ query = None /\ shown = {} /\ counted = {}
  /\ oldRows = latest /\ opened = FALSE /\ stopped = {} /\ faults = 0 /\ dark = 0

(***************************************************************************)
(* The Hub's life                                                          *)
(***************************************************************************)
\* NewServer of the console; without a run there is no Hub.
Start ==
  /\ hub = "down" /\ Len(runs) < MaxRuns
  /\ Import
  /\ runs' = Append(StartRun, "open") /\ run' = Len(runs) + 1
  /\ hub' = "up" /\ poisoned' = FALSE
  /\ sources' \in (SUBSET Tokens) \ {{}}
  /\ UNCHANGED <<att, clock, latest, inventory, extras, query, shown, counted, oldRows,
                 stopped, faults, dark>>

\* NewServer that opens the database and gives up, or dies, before it serves: the run was
\* refused (MaxObserverRuns), was not written, or was written and nobody knows.
StartFails ==
  /\ hub = "down" /\ Import
  /\ \/ Len(runs) = MaxRuns /\ UNCHANGED <<runs, faults>>
     \/ Fault /\ UNCHANGED runs
     \/ Fault /\ Len(runs) < MaxRuns /\ runs' = Append(StartRun, "open")
  /\ UNCHANGED <<hub, run, poisoned, sources, att, clock, latest, inventory, extras, query,
                 shown, counted, oldRows, stopped, dark>>

\* The Hub without its console: requests are served and nobody observes.
StartDark ==
  /\ hub = "down" /\ dark < MaxDark /\ dark' = dark + 1
  /\ hub' = "dark" /\ sources' \in (SUBSET Tokens) \ {{}}
  /\ UNCHANGED <<run, poisoned, att, clock, durable, query, shown, counted, oldRows,
                 opened, stopped, faults>>

\* The process ends: main handles no signal and leaves by log.Fatalf.
Stop ==
  /\ hub # "down" /\ hub' = "down"
  /\ run' = 0 /\ poisoned' = FALSE /\ query' = None /\ sources' = {}
  /\ att' = [a \in Attempts |-> IF a \in InFlight THEN [att[a] EXCEPT !.pc = "lost"] ELSE att[a]]
  /\ stopped' = IF Orderly /\ hub = "up" /\ ~poisoned THEN stopped \cup {run} ELSE stopped
  /\ UNCHANGED <<clock, durable, shown, counted, oldRows, opened, faults, dark>>

\* Server.Close: new requests are refused, the running ones drained.
Close ==
  /\ hub = "up" /\ InFlight = {} /\ query = None
  /\ hub' = "closed"
  /\ \/ /\ ~poisoned
        /\ runs' = [runs EXCEPT ![run] = IF @ = "open" THEN "closed" ELSE @]
        /\ UNCHANGED <<poisoned, faults>>
     \/ poisoned /\ FailObserver /\ UNCHANGED faults
     \/ ~poisoned /\ Fault /\ FailObserver
  /\ UNCHANGED <<run, sources, att, clock, facts, latest, flags, inventory, extras, query,
                 shown, counted, oldRows, opened, stopped, dark>>

(***************************************************************************)
(* Bootstrap attempts                                                      *)
(***************************************************************************)
Begin(a) ==
  /\ hub \in {"up", "dark"} /\ att[a].pc = "new"
  /\ \E t \in sources, s \in Shapes :
       att' = [att EXCEPT ![a] = [pc |-> "begun", token |-> t, shape |-> s, result |-> "none",
                                  at |-> 0, observer |-> run]]
  /\ UNCHANGED <<hub, run, poisoned, sources, clock, durable, query, shown, counted, oldRows,
                 opened, stopped, faults, dark>>

\* The request has its result; the event is dated before it is written.
Finish(a) ==
  /\ att[a].pc = "begun" /\ clock' = clock + 1
  /\ \E result \in {"ok", "denied", "error"} :
       att' = [att EXCEPT ![a].pc = "dated", ![a].result = result, ![a].at = clock + 1]
  /\ UNCHANGED <<hub, run, poisoned, sources, durable, query, shown, counted, oldRows,
                 opened, stopped, faults, dark>>

\* The audit sink writes the event, and the request is answered.  The commit may report
\* an error after it took effect.
Record(a) ==
  /\ att[a].pc = "dated" /\ att' = [att EXCEPT ![a].pc = "done"]
  /\ \/ hub = "dark" /\ UNCHANGED <<poisoned, runs, facts, latest, counted, faults>>
     \/ hub = "up" /\ ~Refused(a) /\ Commit(a) /\ UNCHANGED <<poisoned, runs, faults>>
     \/ hub = "up" /\ Refused(a) /\ FailObserver /\ UNCHANGED <<facts, latest, counted, faults>>
     \/ hub = "up" /\ Fault /\ FailObserver /\ UNCHANGED <<facts, latest, counted>>
     \/ hub = "up" /\ ~Refused(a) /\ Fault /\ FailObserver /\ Commit(a)
  /\ UNCHANGED <<hub, run, sources, clock, flags, inventory, extras, query, shown, oldRows,
                 opened, stopped, dark>>

\* The sink gets every audit event of the Hub; another one cannot be written.
OtherAuditFails ==
  /\ hub = "up" /\ FailObserver
  /\ \/ runs[run] # "open" /\ UNCHANGED faults
     \/ Fault
  /\ UNCHANGED <<hub, run, sources, att, clock, facts, latest, flags, inventory, extras, query,
                 shown, counted, oldRows, opened, stopped, dark>>

(***************************************************************************)
(* The inventory and the readiness report                                  *)
(***************************************************************************)
\* RegisterProvisionalInventory, by a process of its own that opens the database.
Register(i) ==
  /\ Import
  /\ inventory' = IF inventory = {} THEN i ELSE inventory
  /\ UNCHANGED <<hub, run, poisoned, sources, att, clock, runs, latest, extras, query, shown,
                 counted, oldRows, stopped, faults, dark>>

\* Everybody a report is about.
Everybody == inventory \cup extras \cup {t \in Tokens : Present(t)} \cup sources

\* The attempts an observer run took in and that are no longer running.
Settled == {a \in Attempts : att[a].pc \in {"done", "lost"} /\ att[a].observer # 0}

\* CampaignSnapshot: one transaction, that also appends the members it met.
Snapshot ==
  /\ hub = "up" /\ query = None
  /\ \/ /\ Cardinality(Everybody) <= Capacity
        /\ extras' = IF inventory = {} THEN extras ELSE Everybody \ inventory
        /\ query' = [members |-> Everybody, registered |-> inventory # {}, runs |-> runs,
                     missing |-> Settled \ counted]
        /\ UNCHANGED <<poisoned, runs, faults>>
     \/ Cardinality(Everybody) > Capacity /\ FailObserver /\ UNCHANGED <<extras, query, faults>>
     \/ Fault /\ FailObserver /\ UNCHANGED <<extras, query>>
  /\ UNCHANGED <<hub, run, sources, att, clock, facts, latest, flags, inventory, shown, counted,
                 oldRows, opened, stopped, dark>>

\* buildCampaignReadiness: the runs that are gaps, and the verdict on the observer.
Gaps(rs) == {r \in DOMAIN rs : rs[r] = "failed" \/ (rs[r] = "open" /\ r # run)}
Healthy(rs) == rs[run] = "open" /\ Gaps(rs) = {} /\ ~poisoned

\* buildCampaignReadiness does not trust the label of the row either.
Candidate(t) == latest[t] # NoRow /\ Normalised(latest[t].class, latest[t].shape) = "secure"

\* The report is built from the snapshot and the flag as it is now; one that cannot be
\* built poisons the observer.
Report ==
  /\ query # None /\ query' = None
  /\ \/ /\ shown' = IF query.registered THEN shown \cup query.members ELSE shown
        /\ UNCHANGED <<poisoned, runs, faults>>
     \/ Fault /\ FailObserver /\ UNCHANGED shown
  /\ UNCHANGED <<hub, run, sources, att, clock, facts, latest, flags, inventory, extras,
                 counted, oldRows, opened, stopped, dark>>

Next ==
  \/ Start \/ StartFails \/ StartDark \/ Stop \/ Close \/ OtherAuditFails \/ Snapshot \/ Report
  \/ \E i \in Inventories : Register(i)
  \/ \E a \in Attempts : Begin(a) \/ Finish(a) \/ Record(a)

Spec == Init /\ [][Next]_vars

(***************************************************************************)
(* Properties                                                              *)
(***************************************************************************)
\* Types of the state; a stopped Hub has no run and an observing one has its own.
TypeOK ==
  /\ hub \in {"down", "up", "dark", "closed"} /\ run \in 0..Len(runs)
  /\ (hub \in {"up", "closed"}) = (run # 0)
  /\ poisoned \in BOOLEAN /\ sources \subseteq Tokens /\ flags \subseteq Tokens
  /\ \A r \in DOMAIN runs : runs[r] \in {"open", "closed", "failed"}
  /\ Len(runs) <= MaxRuns
  /\ \A t \in Tokens : facts[t] \in [Kinds -> 0..Cardinality(Attempts) + 1]
  /\ \A t \in Tokens : latest[t].class \in {"none", "secure", "legacy", "unknown"}
  /\ inventory \in Inventories \cup {{}} /\ extras \subseteq Tokens \ inventory
  /\ inventory = {} => extras = {}
  /\ counted \subseteq {a \in Attempts : att[a].pc = "done"}
  /\ Cardinality({t \in Tokens : Present(t)}) <= Capacity

\* buildCampaignReadiness reports a healthy observer only if every attempt that any
\* observer run took in, and that is no longer running, is in the facts: a failed
\* write, a killed Hub or a lost answer anywhere in the past leaves a gap.  Attempts
\* served while the console was switched off are the exception the report always names.
HealthyMeansComplete == query # None /\ Healthy(query.runs) => query.missing = {}

\* migration_observation_facts is the history: each counter is the number of the
\* recorded attempts of its kind, plus what a version 1 database brought, with the one
\* correction of an unsupported label, however often the database is opened.
FactsAreTheHistory ==
  LET sound(s) == s.ingress = "trusted" /\ s.key = "client" /\ s.metadata
      is(a, k) == CASE k = "secure"  -> a.result = "ok" /\ sound(a.shape)
                    [] k = "unknown" -> /\ a.result = "ok" /\ ~a.shape.metadata
                                        /\ a.shape.ingress = "trusted" /\ a.shape.key = "client"
                    [] k = "legacy"  -> /\ a.result = "ok"
                                        /\ a.shape.ingress # "trusted" \/ a.shape.key # "client"
                    [] k = "compat"  -> a.shape.ingress = "compat"
                    [] OTHER         -> a.result = k
      old(t, k) == IF oldRows[t] = NoRow \/ ~opened THEN 0
                   ELSE CASE k = "secure"  -> 1
                          [] k = "unknown" -> IF sound(oldRows[t].shape) THEN 0 ELSE 1
                          [] k = "compat"  -> IF oldRows[t].shape.ingress = "compat" THEN 1 ELSE 0
                          [] OTHER         -> 0
  IN  \A t \in Tokens, k \in Kinds :
        facts[t][k] = old(t, k)
          + Cardinality({a \in counted : att[a].token = t /\ is(att[a], k)})

\* A token is shown as a candidate of the secure bootstrap only if the latest of its
\* recorded successes, by the time it happened and not by the time it was written, came
\* through the proxy with a key of the client's own and valid metadata.
SecureIsEarned ==
  \A t \in Tokens : Candidate(t) =>
    LET oks == {a \in counted : att[a].token = t /\ att[a].result = "ok"}
    IN  IF oks = {} THEN oldRows[t] # NoRow /\ ~Unsupported("secure", oldRows[t].shape)
        ELSE \E a \in oks : /\ \A b \in oks : att[b].at <= att[a].at
                            /\ ~Unsupported("secure", att[a].shape)

\* The denominator never shrinks: once an inventory is registered, CampaignSnapshot
\* reports its members and everyone an earlier report showed, whatever the token file
\* says after a restart.
MembersStay == query # None /\ query.registered => shown \cup inventory \subseteq query.members

\* Observer lifecycle: a run without a failure is closed by an orderly stop of the Hub.
OrderlyStopCloses == \A r \in stopped : runs[r] = "closed"
=============================================================================
