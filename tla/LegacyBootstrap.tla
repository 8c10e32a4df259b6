--------------------------- MODULE LegacyBootstrap ---------------------------
(***************************************************************************)
(* The token API of the Hub (hub/internal/auth): concurrent bootstrap      *)
(* requests of one token claim the token's source lease, hand the client's *)
(* WireGuard key to the one-seat subprocess runner, and keep or take back  *)
(* their claim by what is known of the command.  An audit sink observes    *)
(* every request and may be replaced or closed at any time.                *)
(*                                                                         *)
(* A claim is the number of its version; the lease table holds the number  *)
(* of the current one (0: no entry).  claims[v] is the tokenLease together *)
(* with its leaseClaimNode.                                                *)
(***************************************************************************)
EXTENDS Naturals, Sequences, FiniteSets

CONSTANTS Requests,    \* the bootstrap requests with this token
          Sources,     \* their client addresses
          TTL,         \* tokenLeaseTTL, in ticks
          Deadline,    \* ticks a request may last (its 5 s context and the cleanup)
          ExpiresAt,   \* the last tick at which the token is valid
          MaxTime,     \* bound: the clock
          MaxSinks     \* bound: registrations of an audit sink

\* A lease must outlive every request that started under it.
LeaseOutlivesRequests == TTL \in Nat /\ Deadline \in Nat /\ TTL > Deadline

VARIABLES
  now,       \* the clock
  claims,    \* the claims by version
  table,     \* tokenLeases[token]
  req,       \* the requests
  seat,      \* the requests that hold the WireGuard runner's seat
  linger,    \* requests whose command may still be running after an unknown answer
  route,     \* whose key WireGuard routes the token's address to
  sink,      \* [owner, attached, stopped]: the registered audit sink
  writer,    \* "none", "register" or "close": who waits for the audit gate
  observed   \* history: how often each sink observed each request

vars == <<now, claims, table, req, seat, linger, route, sink, writer, observed>>

Nobody == "nobody"

InFlight == {r \in Requests : req[r].pc \in {"resolved", "claimed", "applying"}}

TypeOK ==
  /\ now \in 0..MaxTime
  /\ \A v \in DOMAIN claims : claims[v] \in
       [source : Sources, seen : 0..MaxTime, previous : 0..Len(claims),
        failed : BOOLEAN, committed : BOOLEAN]
  /\ table \in 0..Len(claims)
  /\ req \in [Requests -> [pc : {"new", "resolved", "claimed", "applying", "done"},
                           source : Sources \cup {Nobody}, keyed : BOOLEAN,
                           begun : 0..MaxTime, owner : 0..MaxSinks,
                           claim : 0..Len(claims), applied : BOOLEAN, answer : 0..599]]
  /\ seat \subseteq Requests /\ Cardinality(seat) <= 1 /\ linger \subseteq Requests
  /\ route \in Requests \cup {Nobody}
  /\ sink \in [owner : 0..MaxSinks, attached : BOOLEAN, stopped : BOOLEAN]
  /\ writer \in {"none", "register", "close"}
  /\ observed \in [Requests -> [1..MaxSinks -> Nat]]

Init ==
  /\ now = 0 /\ claims = <<>> /\ table = 0
  /\ req = [r \in Requests |->
       [pc |-> "new", source |-> Nobody, keyed |-> FALSE, begun |-> 0, owner |-> 0,
        claim |-> 0, applied |-> FALSE, answer |-> 0]]
  /\ seat = {} /\ linger = {} /\ route = Nobody
  /\ sink = [owner |-> 0, attached |-> FALSE, stopped |-> FALSE]
  /\ writer = "none" /\ observed = [r \in Requests |-> [o \in 1..MaxSinks |-> 0]]

(***************************************************************************)
(* The lease of the token                                                  *)
(***************************************************************************)
\* The lease of another source is younger than the TTL.
InUse(source) ==
  table # 0 /\ claims[table].source # source /\ now - claims[table].seen < TTL

\* The nearest claim before v, along the recorded predecessors, that has not failed.
Survivor[v \in 0..Cardinality(Requests)] ==
  IF v # 0 /\ claims[v].failed THEN Survivor[claims[v].previous] ELSE v

Rollback(v) ==
  IF claims[v].failed \/ claims[v].committed
  THEN UNCHANGED <<claims, table>>
  ELSE /\ claims' = [claims EXCEPT ![v].failed = TRUE]
       /\ table' = IF table = v THEN Survivor[claims[v].previous] ELSE table

Commit(v) ==
  IF claims[v].failed \/ claims[v].committed
  THEN UNCHANGED claims
  ELSE claims' = [claims EXCEPT ![v].committed = TRUE, ![v].previous = 0]

(***************************************************************************)
(* The audit sink and its gate                                             *)
(***************************************************************************)
\* An attempt of a valid token is observed once, under the gate it entered by.
Observe(r) ==
  observed' = IF sink.attached THEN [observed EXCEPT ![r][sink.owner] = @ + 1]
              ELSE observed

\* The sink that has to observe a request that enters now (0: none is attached).
Owner == IF sink.attached THEN sink.owner ELSE 0

\* RegisterAuditSink and the detach function first announce the writer, which
\* already turns new requests away.
Announce(kind) ==
  /\ writer = "none"
  /\ kind = "register" => sink.owner < MaxSinks
  /\ kind = "close" => sink.attached
  /\ writer' = kind
  /\ UNCHANGED <<now, claims, table, req, seat, linger, route, sink, observed>>

\* The gate is free: no request is inside.
Swap ==
  /\ writer # "none" /\ InFlight = {}
  /\ writer' = "none"
  /\ sink' = IF writer = "register"
             THEN [owner |-> sink.owner + 1, attached |-> TRUE, stopped |-> FALSE]
             ELSE [sink EXCEPT !.attached = FALSE, !.stopped = TRUE]
  /\ UNCHANGED <<now, claims, table, req, seat, linger, route, observed>>

(***************************************************************************)
(* A request                                                               *)
(***************************************************************************)
Done(r, code) ==
  req' = [req EXCEPT ![r].pc = "done", ![r].answer = code, ![r].begun = 0]

\* observedHandler refuses at a closing gate; an invalid token and an invalid
\* public key end here, before any claim.
Enter(r, s) ==
  /\ req[r].pc = "new"
  /\ \/ /\ writer # "none" \/ sink.stopped
        /\ Done(r, 503) /\ UNCHANGED observed
     \/ /\ writer = "none" /\ ~sink.stopped /\ now > ExpiresAt
        /\ Done(r, 401) /\ UNCHANGED observed
     \/ /\ writer = "none" /\ ~sink.stopped /\ now <= ExpiresAt
        /\ req' = [req EXCEPT ![r] = [@ EXCEPT !.pc = "done", !.answer = 400,
                                   !.owner = Owner]]
        /\ Observe(r)
     \/ /\ writer = "none" /\ ~sink.stopped /\ now <= ExpiresAt
        /\ \E keyed \in BOOLEAN :
             req' = [req EXCEPT ![r] = [@ EXCEPT !.pc = "resolved", !.source = s,
                                        !.keyed = keyed, !.begun = now,
                                        !.owner = Owner]]
        /\ UNCHANGED observed
  /\ UNCHANGED <<now, claims, table, seat, linger, route, sink, writer>>

\* The context ended before the claim.
Cancelled(r) ==
  /\ req[r].pc = "resolved"
  /\ Done(r, 503) /\ Observe(r)
  /\ UNCHANGED <<now, claims, table, seat, linger, route, sink, writer>>

Claim(r) ==
  /\ req[r].pc = "resolved"
  /\ IF InUse(req[r].source)
     THEN Done(r, 409) /\ Observe(r) /\ UNCHANGED <<claims, table>>
     ELSE /\ claims' = Append(claims,
               [source |-> req[r].source, seen |-> now, previous |-> table,
                failed |-> FALSE, committed |-> FALSE])
          /\ table' = Len(claims) + 1
          /\ req' = [req EXCEPT ![r].pc = "claimed", ![r].claim = Len(claims) + 1]
          /\ UNCHANGED observed
  /\ UNCHANGED <<now, seat, linger, route, sink, writer>>

\* Without a public key the record's own key pair is returned.
FinishUnkeyed(r) ==
  /\ req[r].pc = "claimed" /\ ~req[r].keyed
  /\ Commit(req[r].claim)
  /\ Done(r, 200) /\ Observe(r)
  /\ UNCHANGED <<now, table, seat, linger, route, sink, writer>>

\* The runner is busy, or the command could not be started.
RefusedBeforeStart(r) ==
  /\ req[r].pc = "claimed" /\ req[r].keyed
  /\ Rollback(req[r].claim)
  /\ Done(r, 502) /\ Observe(r)
  /\ UNCHANGED <<now, seat, linger, route, sink, writer>>

ApplyStarts(r) ==
  /\ req[r].pc = "claimed" /\ req[r].keyed /\ seat = {}
  /\ seat' = {r}
  /\ req' = [req EXCEPT ![r].pc = "applying"]
  /\ UNCHANGED <<now, claims, table, linger, route, sink, writer, observed>>

\* wg set moves the address to the request's key.
WireGuardSets(r) ==
  /\ req[r].pc = "applying" \/ r \in linger
  /\ ~req[r].applied
  /\ route' = r
  /\ req' = [req EXCEPT ![r].applied = TRUE]
  /\ UNCHANGED <<now, claims, table, seat, linger, sink, writer, observed>>

FinishApplied(r) ==
  /\ req[r].pc = "applying" /\ req[r].applied
  /\ Commit(req[r].claim)
  /\ seat' = seat \ {r}
  /\ Done(r, 200) /\ Observe(r)
  /\ UNCHANGED <<now, table, linger, route, sink, writer>>

\* The command started and failed, or nothing is known of it: the claim stays.
\* A command that is not known to be gone keeps its seat.
FinishUnknown(r) ==
  /\ req[r].pc = "applying"
  /\ Commit(req[r].claim)
  /\ \/ seat' = seat \ {r} /\ UNCHANGED linger
     \/ linger' = linger \cup {r} /\ UNCHANGED seat
  /\ Done(r, 502) /\ Observe(r)
  /\ UNCHANGED <<now, table, route, sink, writer>>

\* Time passes; no request outlives its deadline.
Tick ==
  /\ now < MaxTime
  /\ \A r \in InFlight : now < req[r].begun + Deadline
  /\ now' = now + 1
  /\ UNCHANGED <<claims, table, req, seat, linger, route, sink, writer, observed>>

Steps(r) ==
  \/ Cancelled(r) \/ Claim(r) \/ FinishUnkeyed(r) \/ RefusedBeforeStart(r)
  \/ ApplyStarts(r) \/ FinishApplied(r) \/ FinishUnknown(r)

Next ==
  \/ \E r \in Requests : Steps(r) \/ WireGuardSets(r)
  \/ \E r \in Requests, s \in Sources : Enter(r, s)
  \/ \E kind \in {"register", "close"} : Announce(kind)
  \/ Swap \/ Tick

Spec == Init /\ [][Next]_vars

(***************************************************************************)
(* Fairness: every handler runs on, bounded by its context, and a writer   *)
(* that finds the gate free takes it.                                      *)
(***************************************************************************)
FairSpec == Spec /\ WF_vars(Swap) /\ \A r \in Requests : WF_vars(Steps(r))

(***************************************************************************)
(* Properties                                                              *)
(***************************************************************************)
\* However claims, refusals and commits interleave, the lease is the youngest
\* claim that was not taken back: a refusal neither revives a refused claim nor
\* removes a later one (the comment of leaseClaimNode).
LeaseIsYoungestSurvivor ==
  LET alive == {v \in DOMAIN claims : ~claims[v].failed}
  IN  IF alive = {} THEN table = 0
      ELSE table \in alive /\ \A v \in alive : v <= table

\* Two requests of different sources that both succeeded claimed the token at
\* least TTL apart, whatever other claims came between and were taken back.
OneSourcePerLease == \A r, q \in Requests :
  /\ req[r].answer = 200 /\ req[q].answer = 200
  /\ req[r].source # req[q].source /\ req[r].claim < req[q].claim
  => claims[req[q].claim].seen - claims[req[r].claim].seen >= TTL

\* The claim of a request whose command may have run is never taken back.
StartedClaimsStay == \A r \in Requests :
  req[r].pc = "applying" \/ req[r].applied \/ r \in linger
    => ~claims[req[r].claim].failed

\* After a successful answer the token's address is routed to that source,
\* until a later claim of another source starts its own command; a command of an
\* earlier source that is still running cannot take the address back.
RouteFollowsLease == \A r \in Requests :
  /\ req[r].answer = 200 /\ req[r].keyed
  /\ \A q \in Requests :
       (req[q].pc = "applying" \/ req[q].applied) /\ req[q].source # req[r].source
         => req[q].claim < req[r].claim
  => route # Nobody /\ req[route].source = req[r].source

\* Every attempt of a valid token is observed exactly once, when it ends, by the
\* sink it entered under; no sink observes it otherwise, however often sinks are
\* replaced or closed while it runs (RegisterAuditSink's "swaps generations only
\* after all owned HTTP operations and callbacks drain").
ObservedOnce == \A r \in Requests : \A o \in 1..MaxSinks :
  observed[r][o] = IF req[r].pc = "done" /\ req[r].owner = o THEN 1 ELSE 0

\* A registration or a close gets the gate however many requests arrive.
SwapHappens == writer # "none" ~> writer = "none"
=============================================================================
