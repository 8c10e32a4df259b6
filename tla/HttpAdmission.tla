---------------------------- MODULE HttpAdmission ----------------------------
(***************************************************************************)
(* The admission boundary before the costly routes of the Hub              *)
(* (hub/internal/httpboundary): the source of a request, a bounded table   *)
(* of sources with lazily refilled buckets and a rare sweep, concurrency   *)
(* limits, cancellation and the advice of a denial.  One action is one     *)
(* critical section of the mutex.  A token is Every units of credit, so    *)
(* the arithmetic of the code's fractions is exact here.                   *)
(***************************************************************************)
EXTENDS Naturals, Sequences, FiniteSets, FiniteSetsExt, Functions

CONSTANTS Sources,        \* the addresses of clients
          Proxy,          \* the loopback address of the reverse proxy
          Requests,       \* the requests that can be in the Hub at a time
          MaxForged,      \* bound: hops that clients send as X-Forwarded-For
          MaxHops,        \* MaxXFFHops
          Every, Burst, GlobalEvery, GlobalBurst, MaxConcurrent, MaxPerSource,
          MaxSources,
          IdleTTL,        \* SourceIdleTTL
          SweepEvery,     \* the second between two sweeps
          MaxTime         \* bound: the clock

\* NewAdmission refuses a configuration that could forget the debt of a source.
ValidConfig ==
  /\ MaxConcurrent \in Nat \ {0} /\ MaxPerSource \in 1..MaxConcurrent /\ MaxSources \in Nat \ {0}
  /\ Every \in Nat \ {0} /\ Burst \in Nat \ {0} /\ IdleTTL >= Burst * Every
  /\ GlobalEvery \in Nat \ {0} /\ GlobalBurst \in Nat \ {0}

\* What clients send as X-Forwarded-For
Forged == UNION {[1..n -> Sources \cup {Proxy}] : n \in 0..MaxForged}

VARIABLES
  now,
  table,      \* sources: the buckets by address
  global,     \* the common bucket [credit, last]
  active,     \* the number of leases
  nextSweep,
  req,        \* the requests: [peer, source], or Idle
  advice      \* history: until when each source was told to wait, 0 for no advice

vars == <<now, table, global, active, nextSweep, req, advice>>

Idle == [peer |-> Proxy, source |-> Proxy]
Running == {r \in Requests : req[r] # Idle}
Full == Burst * Every
GlobalFull == GlobalBurst * GlobalEvery

Init ==
  /\ now = 0 /\ table = <<>> /\ active = 0 /\ nextSweep = 0
  /\ global = [credit |-> GlobalFull, last |-> 0]
  /\ req = [r \in Requests |-> Idle] /\ advice = [s \in Sources |-> 0]

(***************************************************************************)
(* The source of a request                                                 *)
(***************************************************************************)
\* ClientSource behind the proxy: past its own hops from the right, at most to the first.
FromRight(hops) ==
  LET from[i \in 0..Len(hops)] ==
        IF i = 0 THEN Proxy ELSE IF hops[i] # Proxy \/ i = 1 THEN hops[i] ELSE from[i - 1]
  IN  from[Len(hops)]

\* The header the proxy passes on: it appends the peer it sees.
Forwarded(forged, peer) == Append(forged, peer)

\* ClientSource for a listener behind the proxy, or for a direct one.
ClientSource(behindProxy, forged, peer) ==
  IF behindProxy THEN FromRight(Forwarded(forged, peer)) ELSE peer

(***************************************************************************)
(* The buckets                                                             *)
(***************************************************************************)
Credit(b, full) == Min({full, b.credit + (now - b.last)})
Refill(b, full) == [b EXCEPT !.credit = Credit(b, full), !.last = now]

\* How long until the bucket holds a token.
Retry(b, every) == IF b.credit >= every THEN 0 ELSE every - b.credit

Fresh == [credit |-> Full, last |-> now, active |-> 0, seen |-> now]

Evictable(s) ==
  /\ table[s].active = 0 /\ now - table[s].seen >= IdleTTL
  /\ Credit(table[s], Full) >= Full

\* sweep: idle buckets are refilled, and those that owe nothing are forgotten.
Sweep(t) ==
  [s \in {u \in DOMAIN t : ~Evictable(u)} |->
     IF t[s].active = 0 /\ now - t[s].seen >= IdleTTL THEN Refill(t[s], Full) ELSE t[s]]

Set(t, s, b) == [u \in DOMAIN t \cup {s} |-> IF u = s THEN b ELSE t[u]]
(***************************************************************************)
(* acquire                                                                 *)
(***************************************************************************)
Refilled == Refill(global, GlobalFull)

Busy(s) ==
  \/ active >= MaxConcurrent
  \/ s \in DOMAIN table /\ table[s].active >= MaxPerSource

\* The table as the request finds it, its own bucket refilled.
Mine(s) == IF s \in DOMAIN table THEN Set(table, s, Refill(table[s], Full)) ELSE table

\* The wait both buckets ask for.
Wait(s) ==
  Max({Retry(Refilled, GlobalEvery),
       IF s \in DOMAIN table THEN Retry(Refill(table[s], Full), Every) ELSE 0})

Sweeps(s) ==
  s \notin DOMAIN table /\ Cardinality(DOMAIN table) >= MaxSources /\ now >= nextSweep
Swept(s) == IF Sweeps(s) THEN Sweep(table) ELSE Mine(s)
Room(s) == s \in DOMAIN table \/ Cardinality(DOMAIN Swept(s)) < MaxSources

\* 503: a concurrency limit.
RefuseBusy(s) ==
  /\ Busy(s)
  /\ global' = Refilled
  /\ UNCHANGED <<table, active, nextSweep, req, advice>>

\* 429 with Retry-After.
RefuseRate(s) ==
  /\ ~Busy(s) /\ Wait(s) > 0
  /\ global' = Refilled /\ table' = Mine(s)
  /\ advice' = [advice EXCEPT ![s] = now + Wait(s)]
  /\ UNCHANGED <<active, nextSweep, req>>

\* 503: no room for another source; or the request was cancelled before the reservation.
LeaveUncharged(s) ==
  /\ ~Busy(s) /\ Wait(s) = 0
  /\ global' = Refilled /\ table' = Swept(s)
  /\ nextSweep' = IF Sweeps(s) THEN now + SweepEvery ELSE nextSweep
  /\ UNCHANGED <<active, req, advice>>

\* The lease: a token of each bucket and a place in both counters.
Lease(r, s, peer) ==
  LET b == IF s \in DOMAIN table THEN Refill(table[s], Full) ELSE Fresh
  IN  /\ ~Busy(s) /\ Wait(s) = 0 /\ Room(s)
      /\ global' = [Refilled EXCEPT !.credit = @ - GlobalEvery]
      /\ table' = Set(Swept(s), s, [b EXCEPT !.credit = @ - Every, !.active = @ + 1, !.seen = now])
      /\ nextSweep' = IF Sweeps(s) THEN now + SweepEvery ELSE nextSweep
      /\ active' = active + 1
      /\ req' = [req EXCEPT ![r] = [peer |-> peer, source |-> s]]
      /\ advice' = [u \in Sources |-> 0]

\* Middleware: a request from a client, through the proxy or on the direct listener.
Arrive(r) ==
  /\ req[r] = Idle
  /\ \E peer \in Sources, behindProxy \in BOOLEAN, forged \in Forged :
       /\ Len(Forwarded(forged, peer)) <= MaxHops
       /\ LET s == ClientSource(behindProxy, forged, peer)
          IN  RefuseBusy(s) \/ RefuseRate(s) \/ LeaveUncharged(s) \/ Lease(r, s, peer)
  /\ UNCHANGED now

\* release, when the handler has returned, whatever became of its context.
Release(r) ==
  /\ req[r] # Idle
  /\ LET s == req[r].source
     IN  table' = IF s \in DOMAIN table THEN [table EXCEPT ![s].active = @ - 1] ELSE table
  /\ active' = active - 1
  /\ req' = [req EXCEPT ![r] = Idle]
  /\ UNCHANGED <<now, global, nextSweep, advice>>

Tick == now < MaxTime /\ now' = now + 1 /\ UNCHANGED <<table, global, active, nextSweep, req, advice>>

Next == Tick \/ \E r \in Requests : Arrive(r) \/ Release(r)

Spec == Init /\ [][Next]_vars

(***************************************************************************)
(* Properties                                                              *)
(***************************************************************************)
\* Types, the bound on the table, and counters that agree with the running requests:
\* a source with a running request keeps its bucket.
TypeOK ==
  /\ now \in 0..MaxTime
  /\ DOMAIN table \subseteq Sources /\ Cardinality(DOMAIN table) <= MaxSources
  /\ \A s \in DOMAIN table : table[s] \in
       [credit : 0..Full, last : 0..now, active : 0..MaxPerSource, seen : 0..now]
  /\ global \in [credit : 0..GlobalFull, last : 0..now]
  /\ active = Cardinality(Running)
  /\ \A s \in Sources : Cardinality({r \in Running : req[r].source = s}) =
       IF s \in DOMAIN table THEN table[s].active ELSE 0
  /\ nextSweep \in 0..MaxTime + SweepEvery /\ advice \in [Sources -> 0..MaxTime + Full + GlobalFull]

\* The buckets of RateBudget, read off the table.
Promise == INSTANCE RateBudget WITH
  level   <- [s \in Sources |-> IF s \in DOMAIN table THEN Credit(table[s], Full) ELSE Full],
  common  <- Credit(global, GlobalFull),
  running <- [s \in Sources |-> Cardinality({r \in Running : req[r].source = s})]

\* HttpAdmission implements RateBudget: the lazily refilled and swept table behaves
\* as if every source had a bucket of its own for ever.  Being evicted never gives a
\* source more than its rate, a denied or cancelled request is charged nothing, and the
\* limits hold for the handlers that really run.
KeepsPromise == Promise!Spec

\* Retry-After is enough: a source that waits as long as acquire told it is not refused
\* for its rate again, unless somebody was admitted meanwhile.
RetryIsEnough == \A s \in Sources : advice[s] # 0 /\ now >= advice[s] => Wait(s) = 0

\* ClientSource: whatever hops a client sends, its requests are charged to the address
\* the proxy or the listener saw.
ChargedToPeer == \A r \in Running : req[r].source = req[r].peer
=============================================================================
