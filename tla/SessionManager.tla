---------------------------- MODULE SessionManager ----------------------------
(***************************************************************************)
(* The pool of reverse sessions of the egress server (egress/reverse,      *)
(* main.go sessionManager): phones connect and disconnect, requests pick   *)
(* the session with the lowest score, open a stream on it, send a command, *)
(* and on failure drop the session and try the next one.                   *)
(*                                                                         *)
(* Every step is one critical section of manager.mu or one network         *)
(* operation outside it.  A session object is used for one connection; two *)
(* sessions may come from the same phone.  Scores are in seconds.          *)
(***************************************************************************)
EXTENDS Integers, Sequences, FiniteSets, SequencesExt, FiniteSetsExt

CONSTANTS
    Session, Request, None,
    RTT,          \* command round trips, in seconds, that are observed
    FreshPenalty  \* what a recent failure adds to a score: a set within 0..30

VARIABLES
    link,         \* session -> "new", "up", "down": its connection
    serving,      \* sessions whose handler has called set and not yet clear
    sessions,     \* m.sessions
    stats,        \* m.sessionStats: active streams, failures, RTT estimate
    next,         \* m.next, from 0
    pc, left, cur,\* request -> where it is, attempts left, the session it holds
    stream,       \* request -> "none", "reserved", "open", "closed"
    start, tried  \* request -> sessions listed when it began, and tried so far

vars == <<link, serving, sessions, stats, next, pc, left, cur, stream, start, tried>>
request == <<pc, left, cur, stream, start, tried>>
pool == <<sessions, stats, next>>

Fresh == [active |-> 0, failures |-> 0, rtt |-> 0]
Listed == ToSet(sessions)

Init ==
    /\ link = [s \in Session |-> "new"] /\ serving = {}
    /\ sessions = <<>> /\ stats = <<>> /\ next = 0
    /\ pc = [r \in Request |-> "idle"] /\ left = [r \in Request |-> 0]
    /\ cur = [r \in Request |-> None]
    /\ stream = [r \in Request |-> "none"]
    /\ start = [r \in Request |-> {}] /\ tried = [r \in Request |-> {}]

\* The list, its statistics and the rotation keep only the sessions of `kept'.
Keep(kept) ==
    LET list == SelectSeq(sessions, LAMBDA s : s \in kept) IN
    /\ sessions' = list
    /\ stats' = [s \in DOMAIN stats \cap kept |-> stats[s]]
    /\ next' = IF list = <<>> THEN 0 ELSE next % Len(list)

-----------------------------------------------------------------------------
(* Connections.                                                            *)

\* handleTCPTunnelConn / handleQUICConn: hello read, session made, set.
Connect(s) ==
    /\ link[s] = "new" /\ link' = [link EXCEPT ![s] = "up"]
    /\ serving' = serving \cup {s}
    /\ sessions' = Append(sessions, s)
    /\ stats' = [t \in DOMAIN stats \cup {s} |-> IF t \in DOMAIN stats THEN stats[t] ELSE Fresh]
    /\ UNCHANGED <<next, request>>

Disconnect(s) ==
    /\ link[s] = "up" /\ link' = [link EXCEPT ![s] = "down"]
    /\ UNCHANGED <<serving, pool, request>>

\* <-CloseChan, then clear.
HandlerEnds(s) ==
    /\ s \in serving /\ link[s] = "down"
    /\ serving' = serving \ {s} /\ Keep(Session \ {s})
    /\ UNCHANGED <<link, request>>

-----------------------------------------------------------------------------
(* A request: openCommandContext.                                          *)

Goto(r, label) == pc' = [pc EXCEPT ![r] = label]
Open == {s \in Session : link[s] # "down"}

\* attempts := m.sessionCount()
Begin(r) ==
    /\ pc[r] = "idle" /\ Goto(r, "try")
    /\ Keep(Open)
    /\ left' = [left EXCEPT ![r] = Len(sessions')]
    /\ start' = [start EXCEPT ![r] = ToSet(sessions')]
    /\ tried' = [tried EXCEPT ![r] = {}]
    /\ stream' = [stream EXCEPT ![r] = "none"]
    /\ UNCHANGED <<link, serving, cur>>

\* sessionScoreAtLocked.
Score(s, fresh) ==
    10 * stats[s].active + 30 * stats[s].failures + stats[s].rtt
        + (IF stats[s].failures > 0 THEN fresh ELSE 0)

\* The first lowest score, from m.next on.
Best(list, n, fresh) ==
    LET index(i) == ((n + i) % Len(list)) + 1
        score(i) == Score(list[index(i)], fresh)
        best == CHOOSE i \in 0..(Len(list) - 1) :
                  \A j \in 0..(Len(list) - 1) :
                     score(j) > score(i) \/ (score(j) = score(i) /\ i <= j)
    IN  index(best)

\* reserveSession: closed sessions are pruned, the best one counts one more
\* stream.  Without a session the request fails.
Reserve(r) ==
    /\ pc[r] = "try" /\ left[r] > 0
    /\ LET list == SelectSeq(sessions, LAMBDA s : s \in Open)
           kept == DOMAIN stats \cap Open
       IN  /\ sessions' = list
           /\ IF list = <<>>
              THEN /\ Goto(r, "unusable") /\ next' = 0
                   /\ stats' = [s \in kept |-> stats[s]]
                   /\ UNCHANGED <<left, cur, stream, tried>>
              ELSE \E fresh \in FreshPenalty :
                   LET b == Best(list, next % Len(list), fresh)
                       s == list[b]
                   IN  /\ stats' = [t \in kept |-> IF t = s
                                                   THEN [stats[t] EXCEPT !.active = @ + 1]
                                                   ELSE stats[t]]
                       /\ next' = b % Len(list)
                       /\ Goto(r, "opening") /\ left' = [left EXCEPT ![r] = @ - 1]
                       /\ cur' = [cur EXCEPT ![r] = s]
                       /\ stream' = [stream EXCEPT ![r] = "reserved"]
                       /\ tried' = [tried EXCEPT ![r] = @ \cup {s}]
    /\ UNCHANGED <<link, serving, start>>

\* The loop ends: no usable reverse client session.
GiveUp(r) ==
    /\ pc[r] = "try" /\ left[r] = 0 /\ Goto(r, "unusable")
    /\ UNCHANGED <<link, serving, pool, left, cur, stream, start, tried>>

\* trackedConn.Close and the release closure: once, and only a listed session
\* still has a count to lower (releaseSession).
ReleaseOnce(r) ==
    stats' = IF /\ stream[r] \in {"reserved", "open"} /\ cur[r] \in DOMAIN stats
                /\ stats[cur[r]].active > 0
             THEN [stats EXCEPT ![cur[r]].active = @ - 1] ELSE stats

CloseStream(r) == ReleaseOnce(r) /\ stream' = [stream EXCEPT ![r] = "closed"]

\* The request returns to its client.
Return(r) ==
    /\ Goto(r, "idle") /\ left' = [left EXCEPT ![r] = 0] /\ cur' = [cur EXCEPT ![r] = None]
    /\ stream' = [stream EXCEPT ![r] = "none"]
    /\ start' = [start EXCEPT ![r] = {}] /\ tried' = [tried EXCEPT ![r] = {}]

\* session.OpenStream returns a stream ...
StreamOpens(r) ==
    /\ pc[r] = "opening" /\ link[cur[r]] = "up"
    /\ Goto(r, "command") /\ stream' = [stream EXCEPT ![r] = "open"]
    /\ UNCHANGED <<link, serving, pool, left, cur, start, tried>>

\* ... or an error; or the command cannot be written, or its answer does not
\* come in time, or the connection broke: the stream is closed.
AttemptFails(r) ==
    /\ pc[r] \in {"opening", "command"} /\ CloseStream(r) /\ Goto(r, "record")
    /\ UNCHANGED <<link, serving, sessions, next, left, cur, start, tried>>

\* The request's context ended, or the gate's fence refused a write: the stream
\* is closed and the session is not blamed.
RequestCancelled(r) ==
    /\ pc[r] \in {"opening", "command"} /\ ReleaseOnce(r) /\ Return(r)
    /\ UNCHANGED <<link, serving, sessions, next>>

\* recordSessionFailure, a critical section of its own.
RecordFailure(r) ==
    /\ pc[r] = "record" /\ Goto(r, "clear")
    /\ stats' = IF cur[r] \in DOMAIN stats
                THEN [stats EXCEPT ![cur[r]].failures = @ + 1] ELSE stats
    /\ UNCHANGED <<link, serving, sessions, next, left, cur, stream, start, tried>>

\* clearCurrent: the session leaves the pool; its connection stays open.
ClearCurrent(r) ==
    /\ pc[r] = "clear" /\ Goto(r, "try") /\ Keep(Session \ {cur[r]})
    /\ UNCHANGED <<link, serving, left, cur, stream, start, tried>>

\* recordSessionSuccess: the RTT estimate is a running average.
CommandAnswered(r) ==
    /\ pc[r] = "command" /\ link[cur[r]] = "up" /\ Goto(r, "relay")
    /\ \E rtt \in RTT :
         stats' = IF cur[r] \in DOMAIN stats
                  THEN [stats EXCEPT ![cur[r]].failures = 0,
                                     ![cur[r]].rtt = IF @ = 0 THEN rtt ELSE (@ * 7 + rtt) \div 8]
                  ELSE stats
    /\ UNCHANGED <<link, serving, sessions, next, left, cur, stream, start, tried>>

\* The gate, the reaper or a preemption closes the stream under the handler.
ClosedByOther(r) ==
    /\ pc[r] = "relay" /\ stream[r] = "open" /\ CloseStream(r)
    /\ UNCHANGED <<link, serving, sessions, next, pc, left, cur, start, tried>>

\* The handler's own Close when the relay ends.
RelayEnds(r) ==
    /\ pc[r] = "relay" /\ ReleaseOnce(r) /\ Return(r)
    /\ UNCHANGED <<link, serving, sessions, next>>

\* The client asks again after the error.
Again(r) ==
    /\ pc[r] = "unusable" /\ Return(r)
    /\ UNCHANGED <<link, serving, pool>>

Attempt(r) ==
    \/ Begin(r) \/ Reserve(r) \/ GiveUp(r) \/ StreamOpens(r) \/ AttemptFails(r)
    \/ RequestCancelled(r) \/ RecordFailure(r) \/ ClearCurrent(r) \/ CommandAnswered(r)

Next ==
    \/ \E s \in Session : Connect(s) \/ Disconnect(s) \/ HandlerEnds(s)
    \/ \E r \in Request : Attempt(r) \/ ClosedByOther(r) \/ RelayEnds(r) \/ Again(r)

Spec == Init /\ [][Next]_vars
FairSpec == Spec /\ \A r \in Request : WF_vars(Attempt(r))

-----------------------------------------------------------------------------
Holders(s) == {r \in Request : cur[r] = s /\ stream[r] \in {"reserved", "open"}}

\* The pool is consistent: no session is listed twice, exactly the listed
\* sessions have statistics, and the rotation points into the list.
PoolConsistent ==
    /\ link \in [Session -> {"new", "up", "down"}]
    /\ IsInjective(sessions) /\ DOMAIN stats = Listed
    /\ IF sessions = <<>> THEN next = 0 ELSE next \in 0..(Len(sessions) - 1)

\* The active-stream count that decides which session is chosen is exact for
\* every listed session, whoever closes the streams, how often, and whichever
\* sessions were dropped or pruned meanwhile (releaseSession, trackedConn.Close).
ActiveStreamsExact == \A s \in Listed : stats[s].active = Cardinality(Holders(s))

\* A session leaves the pool only when its connection is down or when a request
\* failed on this very session: a late failure never removes the session that
\* the same phone opened as a replacement (clearCurrent).
OnlyTheFailedIsDropped ==
    [][\A s \in Listed : s \notin ToSet(sessions')
          => link[s] = "down" \/ \E r \in Request : pc[r] = "clear" /\ cur[r] = s]_vars

\* A request gives up only when none of the sessions it started with is left in
\* the pool, unless newcomers took some of its attempts (openCommandContext).
TriesTheWholePool ==
    \A r \in Request : pc[r] = "unusable"
        => start[r] \cap Listed = {} \/ tried[r] \ start[r] # {}

\* Every request ends: answered or failed, however sessions come and go.
RequestEnds == \A r \in Request : pc[r] = "try" ~> pc[r] \in {"relay", "idle", "unusable"}
=============================================================================
