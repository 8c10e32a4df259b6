----------------------------- MODULE DeviceClient -----------------------------
(***************************************************************************)
(* The device client (clients/cli/internal/deviceclient: run.go, cancel.go,*)
(* state.go, client.go) talking to the credential authority.  A command    *)
(* runs under the home's operation lock, so there is one at a time; it     *)
(* loads the private state, asks for a challenge, saves its intent, sends  *)
(* the mutation and saves the outcome.  It may die between any two steps,  *)
(* a save that reports an error may or may not have reached the disk, a    *)
(* request may be lost or arrive long after the client stopped waiting.    *)
(* An HTTP request is never sent twice: keep-alives are off, so the        *)
(* transport has nothing to retry on.                                      *)
(***************************************************************************)
EXTENDS DeviceCredentials

VARIABLES
    disk,      \* device-v2-state.json: private key, credential, WireGuard key
               \* and generation, pending intent
    pc,        \* of the running command, "idle" when there is none
    call,      \* the request the command is about: a Request, or NoCall
    reply,     \* what the Hub answered to call, before the client handles it
    net,       \* requests sent and not yet handled
    drawn,     \* keys and request IDs ever generated
    dropped    \* intents the client removed from its state without a result

clientVars == <<disk, pc, call, reply, net, drawn, dropped>>
vars == <<credVars, clientVars>>

NoIntent == [kind |-> "none"]
NoCall == [purpose |-> "none"]
Disk == [key : Key \cup {NoKey}, cred : Key \cup {NoKey}, wg : Key \cup {NoKey},
         gen : 0..MaxGen, pending : Intent \cup {NoIntent}]

Init ==
    /\ CredInit
    /\ disk = [key |-> NoKey, cred |-> NoKey, wg |-> NoKey, gen |-> 0, pending |-> NoIntent]
    /\ pc = "idle" /\ call = NoCall /\ reply = "none"
    /\ net = {} /\ drawn = {} /\ dropped = {}

Stop == pc' = "idle" /\ call' = NoCall /\ reply' = "none"

\* store.save: the file is replaced; an error is reported before or after that.
Saves(d, next) ==
    \/ disk' = d /\ next
    \/ disk' \in {d, disk} /\ Stop

\* activate and bind generate their key once and save it before anything else.
SaveKey ==
    /\ pc = "idle" /\ disk.pending = NoIntent
    /\ \E k \in Key \ drawn :
          /\ drawn' = drawn \cup {k}
          /\ \/ disk.cred = NoKey /\ disk.key = NoKey /\ disk' \in {[disk EXCEPT !.key = k], disk}
             \/ disk.cred # NoKey /\ disk.wg = NoKey /\ disk' \in {[disk EXCEPT !.wg = k], disk}
    /\ UNCHANGED <<credVars, pc, call, reply, net, dropped>>

\* What activate, rotate and the commands ask for in the present state.
ActivateIntent(i) == i.kind = "activate" /\ disk.cred = NoKey /\ i.key = disk.key
                     /\ i.cred = NoKey /\ i.gen = 0
RotateIntent(i) == i.kind = "rotate" /\ i.key \notin drawn /\ i.cred = disk.cred /\ i.gen = 0
CommandIntent(i) ==
    /\ i.kind \in Command /\ i.cred = disk.cred
    /\ IF i.kind = "apply"
       THEN i.key = disk.wg /\ i.gen >= disk.gen /\ ~lapsed   \* bind
       ELSE i.key = disk.key

Wanted(rid) ==
    {i \in Intent : i.rid = rid /\ (ActivateIntent(i) \/ RotateIntent(i) \/ CommandIntent(i))}

\* activate, rotate or a command obtains its challenge.
BeginMutation ==
    /\ pc = "idle" /\ disk.pending = NoIntent
    /\ \E rid \in Rid \ drawn : \E i \in Wanted(rid) :
          LET r == [purpose |-> "mutate", intent |-> i, ch |-> rid] IN
          /\ Challenge(r)
          /\ call' = r /\ pc' = "intent"
          /\ drawn' = drawn \cup {rid, i.key}
    /\ UNCHANGED <<disk, reply, net, dropped>>

SaveIntent ==
    /\ pc = "intent"
    /\ Saves([disk EXCEPT !.pending = call.intent],
             pc' = "send" /\ UNCHANGED <<call, reply>>)
    /\ UNCHANGED <<credVars, net, drawn, dropped>>

\* recover (receipt) and cancel-pending (resolve) ask about the saved intent.
BeginRead ==
    /\ pc = "idle" /\ disk.pending # NoIntent
    /\ \E p \in {"receipt", "resolve"}, s \in Slot :
          LET r == [purpose |-> p, intent |-> disk.pending, ch |-> s] IN
          /\ \A m \in net \cup challenges : m.ch # s
          /\ Challenge(r)
          /\ call' = r /\ pc' = "send"
    /\ UNCHANGED <<disk, reply, net, drawn, dropped>>

\* call: the request goes out, unless the deadline has passed before it does.
Send ==
    /\ pc = "send"
    /\ \/ pc' = "wait" /\ net' = net \cup {call} /\ UNCHANGED reply
       \/ pc' = "answer" /\ reply' = "refused" /\ UNCHANGED net
    /\ UNCHANGED <<credVars, disk, call, drawn, dropped>>

\* A request reaches its handler; the answer finds only a client still waiting.
Answer(r, a) ==
    /\ net' = net \ {r}
    /\ IF pc = "wait" /\ call = r
       THEN reply' = a /\ pc' = "answer"
       ELSE UNCHANGED <<reply, pc>>
    /\ UNCHANGED <<disk, call, drawn, dropped>>

HandleMutation(r) == r.purpose = "mutate" /\ Mutates(r) /\ Answer(r, "committed")
HandleReceipt(r) == r.purpose = "receipt" /\ Receipt(r) /\ Answer(r, "committed")
HandleResolve(r) ==
    /\ r.purpose = "resolve" /\ Resolve(r)
    /\ Answer(r, IF Committed(r.intent) THEN "committed" ELSE "cancelled")

\* 400, 401, 404, 409 or 429: any error of the transaction, which is rolled
\* back, and the limits of the HTTP server before it.
Refuse(r) == UNCHANGED credVars /\ Answer(r, "refused")

\* The request or its answer is lost, or the client stops waiting.
Lose(r) == UNCHANGED <<credVars, disk, pc, call, reply, drawn, dropped>> /\ net' = net \ {r}

GiveUp == pc = "wait"

\* Mutant: an unknown outcome is treated like a refusal.
TimeoutDiscards ==
    /\ GiveUp /\ Stop
    /\ disk' = IF call.purpose = "mutate" THEN [disk EXCEPT !.pending = NoIntent] ELSE disk
    /\ dropped' = IF call.purpose = "mutate" THEN dropped \cup {disk.pending} ELSE dropped
    /\ UNCHANGED <<credVars, net, drawn>>

\* call returns an unknown outcome: the intent stays.
Timeout == GiveUp /\ Stop /\ UNCHANGED <<credVars, disk, net, drawn, dropped>>

Crash == pc # "idle" /\ Stop /\ UNCHANGED <<credVars, disk, net, drawn, dropped>>

\* Mutant: a recovered rotation stores the credential's key and drops the rest.
AcceptedOldKey(i) ==
    [disk EXCEPT !.pending = NoIntent,
                 !.key = IF i.kind \in {"activate", "rotate"} THEN i.key ELSE @,
                 !.cred = IF i.kind = "activate" THEN i.key ELSE @,
                 !.gen = IF i.kind = "apply" THEN i.gen + 1 ELSE @]

\* Mutant: a rotation stores its credential and forgets the new private key.
AcceptedKeepsKey(i) ==
    [disk EXCEPT !.pending = NoIntent,
                 !.key = IF i.kind = "activate" THEN i.key ELSE @,
                 !.cred = IF i.kind \in {"activate", "rotate"} THEN i.key ELSE @,
                 !.gen = IF i.kind = "apply" THEN i.gen + 1 ELSE @]

\* What a committed intent makes of the state (acceptBinding included).
Accepted(i) ==
    [disk EXCEPT !.pending = NoIntent,
                 !.key = IF i.kind \in {"activate", "rotate"} THEN i.key ELSE @,
                 !.cred = IF i.kind \in {"activate", "rotate"} THEN i.key ELSE @,
                 !.gen = IF i.kind = "apply" THEN i.gen + 1 ELSE @]

\* A credential past its validity is accepted by cancel-pending only.
AcceptResult ==
    /\ pc = "answer" /\ reply = "committed"
    /\ LET i == call.intent IN
       IF call.purpose # "resolve" /\ i.kind \notin Command /\ lapsed
       THEN Stop /\ UNCHANGED disk
       ELSE Saves(Accepted(i), Stop)
    /\ UNCHANGED <<credVars, net, drawn, dropped>>

Cancelled(i) ==
    [disk EXCEPT !.pending = NoIntent, !.key = IF i.kind = "activate" THEN NoKey ELSE @]

Discards(d) ==
    \/ disk' = d /\ dropped' = dropped \cup {disk.pending} /\ Stop
    \/ UNCHANGED <<disk, dropped>> /\ Stop

DiscardCancelled ==
    /\ pc = "answer" /\ reply = "cancelled"
    /\ Discards(Cancelled(call.intent))
    /\ UNCHANGED <<credVars, net, drawn>>

\* failedMutation with a known failure; a refused question changes nothing.
HandleRefusal ==
    /\ pc = "answer" /\ reply = "refused"
    /\ IF call.purpose = "mutate" THEN Discards([disk EXCEPT !.pending = NoIntent])
       ELSE Stop /\ UNCHANGED <<disk, dropped>>
    /\ UNCHANGED <<credVars, net, drawn>>

Expire == \E r \in challenges : ExpireChallenge(r) /\ UNCHANGED clientVars
Environment == (Administer \/ Lapse) /\ UNCHANGED clientVars

Finish == SaveIntent \/ Send \/ Timeout \/ AcceptResult \/ DiscardCancelled \/ HandleRefusal

Next ==
    \/ SaveKey \/ BeginMutation \/ BeginRead \/ Finish \/ Crash
    \/ \E r \in net : HandleMutation(r) \/ HandleReceipt(r) \/ HandleResolve(r)
                      \/ Refuse(r) \/ Lose(r)
    \/ Expire \/ Environment

Spec == Init /\ [][Next]_vars

-----------------------------------------------------------------------------
TypeOK ==
    /\ CredTypeOK
    /\ disk \in Disk
    /\ pc \in {"idle", "intent", "send", "wait", "answer"}
    /\ call \in Request \cup {NoCall} /\ (call = NoCall <=> pc = "idle")
    /\ reply \in {"none", "committed", "cancelled", "refused"}
    /\ net \subseteq Request /\ drawn \subseteq Key \cup Rid /\ dropped \subseteq Intent

\* consume and ResolvePending decide a request once: no request ID of a
\* principal is both committed and cancelled, whatever the order in which the
\* mutation, late or not, and the question about it are handled.
OneOutcome ==
    \A c \in cancellations : <<Principal(c), c.rid>> \notin requests /\ c \notin receipts

\* The client never loses a key the Hub has registered for it: the key of a
\* credential that is not revoked is its private key or the new key of its
\* pending rotation, and the device's WireGuard key is the one on disk, through
\* crashes, failed saves, unknown outcomes, cancellations and recoveries.
HoldsItsKeys ==
    /\ \A k \in Key : creds[k] = "live" =>
          \/ k = disk.key
          \/ disk.pending # NoIntent /\ disk.pending.kind = "rotate" /\ k = disk.pending.key
    /\ bound \in {NoKey, disk.wg}

\* An intent the client discards (failedMutation on a known failure, cancel-
\* pending on a negative receipt) has not been committed and never will be,
\* though its request may still be under way.
DiscardedNeverCommits == \A i \in dropped : <<Principal(i), i.rid>> \notin requests

\* A generation the client believes its binding has was accepted by the Hub for
\* its own WireGuard key, and a credential on disk is the newest one unless a
\* rotation is pending: the client never falls back to a replaced credential.
ClientFollowsHub ==
    /\ disk.gen > 0 => \E i \in receipts : i.kind = "apply" /\ i.key = disk.wg
                                              /\ i.gen + 1 = disk.gen
    /\ disk.cred # NoKey /\ creds[disk.cred] # "live" =>
          disk.pending # NoIntent /\ disk.pending \in receipts

-----------------------------------------------------------------------------
\* A running command ends (its context has a deadline of at most 30 seconds),
\* the user keeps asking to cancel, and neither the network nor the disk nor the
\* process fails every time.
Resolving(A) == A /\ call.purpose = "resolve"

Fairness ==
    /\ WF_vars(Finish)
    /\ SF_vars(BeginRead /\ call'.purpose = "resolve")
    /\ SF_vars(Resolving(Send /\ pc' = "wait" /\ call \in challenges))
    /\ SF_vars(\E r \in net : Resolving(HandleResolve(r) /\ pc' = "answer"))
    /\ SF_vars(DiscardCancelled /\ disk' # disk)
    /\ SF_vars(Resolving(AcceptResult /\ disk' # disk))
    /\ WF_vars(Expire)
    /\ WF_vars(\E r \in net \ {call} : Lose(r))

LiveSpec == Spec /\ Fairness

\* The Hub has neither a receipt of the intent nor room for a negative one.
QuotaSpent(i) == i \notin receipts \cup cancellations /\ ~WithinQuota(i)

\* An intent whose outcome is unknown blocks the client for ever only if the Hub has
\* no room for its negative receipt (the permanent limits in ResolvePending): otherwise
\* cancel-pending resolves it, also when the device was withdrawn or its credential
\* expired or was rotated in the meantime.
PendingResolves ==
    disk.pending # NoIntent ~> (disk.pending = NoIntent \/ QuotaSpent(disk.pending))
=============================================================================
