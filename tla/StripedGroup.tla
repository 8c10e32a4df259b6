----------------------------- MODULE StripedGroup -----------------------------
(***************************************************************************)
(* How a striped CONNECT is put together (egress/reverse, main.go): the    *)
(* hub opens lane 0 and then lane 1 with the same identifier and repeats a *)
(* command on another session when its answer does not come in time; the   *)
(* phone collects the lanes of an identifier in a group found through a    *)
(* map, dials the target on lane 0 and starts the relay when both lanes    *)
(* are ready.  Commands may arrive late, after the hub closed their stream.*)
(*                                                                         *)
(* One striped CONNECT is modelled; Stream are the command streams the hub *)
(* can open for it.  A step of a handler is one critical section, one      *)
(* blocking wait or one write.                                             *)
(***************************************************************************)
EXTENDS Integers, FiniteSets

CONSTANTS Stream, Lane(_), Group

None == "none"

\* A striped CONNECT has two lanes.
StripeConstants == None \notin Stream \cup Group /\ \A s \in Stream : Lane(s) \in {0, 1}

VARIABLES
    hub, hubLane,     \* hub: "lane0", "lane1", "relay", "failed"; its OK streams
    wait,             \* the stream whose answer the hub awaits, or None
    spent,            \* streams used
    sent,             \* commands on their way to the phone
    closed,           \* streams closed by the hub
    shut,             \* streams closed by the phone with their group
    answer,           \* stream -> None, "OK", "ERR": the status line written
    pc, group,        \* handler of a stream: its step and its group
    map,              \* stripedClientGroups: the group of the identifier or None
    made,             \* groups created
    lanes, ready,     \* group -> attached lane streams, lanes marked ready
    target,           \* group -> "none", "open", "closed"
    failed, done      \* groups with err set, groups whose done is closed

vars == <<hub, hubLane, wait, spent, sent, closed, shut, answer, pc, group, map, made,
          lanes, ready, target, failed, done>>
hubVars == <<hub, hubLane, wait, spent>>
groupVars == <<map, made, lanes, ready, target, failed, done, shut>>

Init ==
    /\ hub = "lane0" /\ hubLane = {} /\ wait = None /\ spent = {} /\ sent = {} /\ closed = {}
    /\ shut = {}
    /\ answer = [s \in Stream |-> None] /\ pc = [s \in Stream |-> "new"]
    /\ group = [s \in Stream |-> None] /\ map = None /\ made = {}
    /\ lanes = [g \in Group |-> {}] /\ ready = [g \in Group |-> {}]
    /\ target = [g \in Group |-> "none"] /\ failed = {} /\ done = {}

-----------------------------------------------------------------------------
(* The hub.                                                                *)

Wanted == IF hub = "lane0" THEN 0 ELSE 1

\* openStripedConnectAdmission: the command of the next lane on a new stream.
HubOpens(s) ==
    /\ hub \in {"lane0", "lane1"} /\ wait = None /\ s \notin spent /\ Lane(s) = Wanted
    /\ wait' = s /\ spent' = spent \cup {s} /\ sent' = sent \cup {s}
    /\ UNCHANGED <<hub, hubLane, closed, answer, pc, group, groupVars>>

HubGivesUp == hub' = "failed" /\ closed' = closed \cup spent /\ wait' = None

\* The status line of the awaited stream: OK, or the whole CONNECT fails.
HubAnswered ==
    /\ wait # None /\ answer[wait] # None
    /\ IF answer[wait] = "OK"
       THEN /\ hubLane' = hubLane \cup {wait} /\ wait' = None
            /\ hub' = IF hub = "lane0" THEN "lane1" ELSE "relay"
            /\ UNCHANGED closed
       ELSE HubGivesUp /\ UNCHANGED hubLane
    /\ UNCHANGED <<spent, sent, answer, pc, group, groupVars>>

\* reverseCommandTimeout or a broken session: the stream is closed and the
\* command repeated, as long as there is another session.
HubTimesOut ==
    /\ wait # None
    /\ IF \E s \in Stream \ spent : Lane(s) = Lane(wait)
       THEN closed' = closed \cup {wait} /\ wait' = None /\ UNCHANGED hub
       ELSE HubGivesUp
    /\ UNCHANGED <<hubLane, spent, sent, answer, pc, group, groupVars>>

\* The relay ends or the client leaves: closeStripedHubLanes.
HubRelayEnds ==
    /\ hub = "relay" /\ HubGivesUp
    /\ UNCHANGED <<hubLane, spent, sent, answer, pc, group, groupVars>>

-----------------------------------------------------------------------------
(* The phone.                                                              *)

Goto(s, label) == pc' = [pc EXCEPT ![s] = label]

\* A status line is not written to a stream the phone has closed.
Answer(s, a) == answer' = IF s \in shut THEN answer ELSE [answer EXCEPT ![s] = a]

\* getStripedClientGroup: LoadOrStore.
Arrive(s) ==
    /\ s \in sent /\ sent' = sent \ {s} /\ Goto(s, "join")
    /\ IF map # None
       THEN group' = [group EXCEPT ![s] = map] /\ UNCHANGED <<map, made>>
       ELSE \E g \in Group \ made :
              /\ group' = [group EXCEPT ![s] = g] /\ map' = g /\ made' = made \cup {g}
    /\ UNCHANGED <<hubVars, closed, answer, lanes, ready, target, failed, done, shut>>

\* attachLane: a lane index is taken once.
AttachLane(s) ==
    /\ pc[s] = "join"
    /\ IF \E t \in lanes[group[s]] : Lane(t) = Lane(s)
       THEN Goto(s, "ended") /\ Answer(s, "ERR") /\ UNCHANGED lanes
       ELSE /\ Goto(s, IF Lane(s) = 0 THEN "dial" ELSE "waitTarget")
            /\ lanes' = [lanes EXCEPT ![group[s]] = @ \cup {s}]
            /\ UNCHANGED answer
    /\ UNCHANGED <<hubVars, sent, closed, group, map, made, ready, target, failed, done, shut>>

\* The deferred Delete of the primary lane removes the identifier, whichever
\* group it names by now.
End(s) == Goto(s, IF Lane(s) = 0 THEN "delete" ELSE "ended")

\* fail: the map entry goes, every channel, the target and the lanes attached so
\* far are closed; a lane that attaches later is not.
Fail(g) ==
    /\ map' = None /\ failed' = failed \cup {g} /\ done' = done \cup {g}
    /\ shut' = shut \cup lanes[g]
    /\ target' = [target EXCEPT ![g] = IF @ = "open" THEN "closed" ELSE @]

DialFails(s) ==
    /\ pc[s] = "dial" /\ Answer(s, "ERR") /\ Fail(group[s]) /\ End(s)
    /\ UNCHANGED <<hubVars, sent, closed, group, made, lanes, ready>>

\* dialTarget succeeded: setTarget.
DialSucceeds(s) ==
    /\ pc[s] = "dial" /\ Goto(s, "writeOK")
    /\ target' = [target EXCEPT ![group[s]] = "open"]
    /\ UNCHANGED <<hubVars, sent, closed, answer, group, map, made, lanes, ready, failed, done,
                   shut>>

\* The OK line, then markLaneReady.  A stream that nobody on the phone closed takes
\* it, also after the hub or fail; the write may fail on any stream, whose session
\* can be broken.
WriteOK(s) ==
    /\ pc[s] \in {"writeOK", "writeExtraOK"}
    /\ \/ /\ s \notin shut
          /\ Answer(s, "OK") /\ ready' = [ready EXCEPT ![group[s]] = @ \cup {Lane(s)}]
          /\ Goto(s, IF Lane(s) = 0 THEN "waitAll" ELSE "serve")
          /\ UNCHANGED <<map, target, failed, done, shut>>
       \/ Fail(group[s]) /\ End(s) /\ UNCHANGED <<answer, ready>>
    /\ UNCHANGED <<hubVars, sent, closed, group, made, lanes>>

\* allReadyCh is closed by the last ready lane or by fail.
AllReady(s) ==
    /\ pc[s] = "waitAll" /\ (ready[group[s]] = {0, 1} \/ group[s] \in done)
    /\ IF group[s] \in failed
       THEN Fail(group[s]) /\ End(s)
       ELSE Goto(s, "run") /\ UNCHANGED <<map, target, failed, done, shut>>
    /\ UNCHANGED <<hubVars, sent, closed, answer, group, made, lanes, ready>>

\* stripedLaneAttachTimeout, stripedTargetReadyTimeout or the end of the session; the
\* select may take them although the channel is closed as well.
WaitTimesOut(s) ==
    /\ \/ pc[s] = "waitAll" /\ UNCHANGED answer
       \/ pc[s] = "waitTarget" /\ Answer(s, "ERR")
    /\ Fail(group[s]) /\ End(s)
    /\ UNCHANGED <<hubVars, sent, closed, group, made, lanes, ready>>

\* targetReadyCh is closed by setTarget or by fail.
TargetReady(s) ==
    /\ pc[s] = "waitTarget" /\ (target[group[s]] # "none" \/ group[s] \in done)
    /\ IF group[s] \in failed
       THEN Goto(s, "ended") /\ Answer(s, "ERR")
       ELSE Goto(s, "writeExtraOK") /\ UNCHANGED answer
    /\ UNCHANGED <<hubVars, sent, closed, group, groupVars>>

\* The relay ends: target or lane closed, by the other side or by fail; closeAll.
RunEnds(s) ==
    /\ pc[s] = "run" /\ End(s) /\ done' = done \cup {group[s]}
    /\ shut' = shut \cup lanes[group[s]]
    /\ target' = [target EXCEPT ![group[s]] = "closed"]
    /\ UNCHANGED <<hubVars, sent, closed, answer, group, map, made, lanes, ready, failed>>

\* <-group.done
LaneReleased(s) ==
    /\ pc[s] = "serve" /\ group[s] \in done /\ Goto(s, "ended")
    /\ UNCHANGED <<hubVars, sent, closed, answer, group, groupVars>>

\* The session of a serving lane ends: the group fails, in the middle of its relay or
\* before it.
ServingSessionEnds(s) ==
    /\ pc[s] = "serve" /\ Fail(group[s]) /\ Goto(s, "ended")
    /\ UNCHANGED <<hubVars, sent, closed, answer, group, made, lanes, ready>>

DeferredDelete(s) ==
    /\ pc[s] = "delete" /\ Goto(s, "ended") /\ map' = None
    /\ UNCHANGED <<hubVars, sent, closed, answer, group, made, lanes, ready, target, failed,
                   done, shut>>

Handler(s) ==
    \/ AttachLane(s) \/ DialFails(s) \/ DialSucceeds(s) \/ WriteOK(s) \/ AllReady(s)
    \/ WaitTimesOut(s) \/ TargetReady(s) \/ LaneReleased(s) \/ DeferredDelete(s)

Next ==
    \/ \E s \in Stream :
          HubOpens(s) \/ Arrive(s) \/ Handler(s) \/ RunEnds(s) \/ ServingSessionEnds(s)
    \/ HubAnswered \/ HubTimesOut \/ HubRelayEnds

Spec == Init /\ [][Next]_vars
FairSpec == Spec /\ \A s \in Stream : WF_vars(Handler(s))

-----------------------------------------------------------------------------
TypeOK ==
    /\ hub \in {"lane0", "lane1", "relay", "failed"} /\ hubLane \subseteq Stream
    /\ group \in [Stream -> Group \cup {None}] /\ map \in Group \cup {None}
    /\ target \in [Group -> {"none", "open", "closed"}]
    /\ \A g \in Group : \A s, t \in lanes[g] : Lane(s) = Lane(t) => s = t

\* When every handler has ended, late and repeated lanes included, nothing is
\* left on the phone: no group in the map, no open target connection.
NothingLeftBehind ==
    (\A s \in Stream : pc[s] \in {"new", "ended"})
        => map = None /\ \A g \in Group : target[g] # "open"

\* A group that failed has no open target, except while its primary lane is
\* still on its way to notice (setTarget after fail).
FailedGroupsHoldNoTarget ==
    \A g \in failed : target[g] = "open" =>
        \E s \in lanes[g] : Lane(s) = 0 /\ pc[s] \in {"writeOK", "waitAll"}

\* A lane that was answered OK never waits for ever: it ends, or its relay runs.
NoOrphanLane ==
    \A s \in Stream : pc[s] = "serve" ~>
        \/ pc[s] = "ended"
        \/ \E t \in Stream : Lane(t) = 0 /\ group[t] = group[s] /\ pc[t] = "run"

\* A lane that arrives for a group that is gone ends too.
LateLanesEnd == \A s \in Stream : pc[s] = "waitTarget" ~> pc[s] \in {"serve", "ended"}
=============================================================================
