-------------------------- MODULE DeviceClientProofs --------------------------
(***************************************************************************)
(* Proofs about two parts of the command line client: DeviceClient, its    *)
(* requests to the Hub, and UpdateState, its record of updates.            *)
(***************************************************************************)
EXTENDS DeviceClient, TLAPS

-----------------------------------------------------------------------------
(***************************************************************************)
(* Proofs about DeviceClient, for any keys, request IDs and bounds: every  *)
(* request has one outcome, a discarded intent is never committed, and the *)
(* client keeps the keys and follows the state of the Hub.                 *)
(***************************************************************************)

Types ==
    /\ disk \in [key : Key \cup {NoKey}, cred : Key \cup {NoKey}, wg : Key \cup {NoKey},
                 gen : Nat, pending : Intent \cup {NoIntent}]
    /\ creds \in [Key -> {"none", "live", "revoked"}]
    /\ pc \in {"idle", "intent", "send", "wait", "answer"}
    /\ pc # "idle" => call.purpose \in Purpose

\* The intents that are anywhere but in a challenge.
Called == IF pc = "idle" THEN {} ELSE {call.intent}
Pending == {disk.pending} \ {NoIntent}
Known == Called \cup Pending \cup {m.intent : m \in net} \cup receipts \cup cancellations \cup dropped

\* A request ID names one intent, the key of a rotation is its own, and before the
\* first credential there is nothing but activations.
Unique ==
    /\ \A i \in Known : i \in Intent /\ i.rid \in drawn /\ i.key \in drawn
    /\ \A i, j \in Known : i.rid = j.rid => i = j
    /\ \A i, j \in Known : i.kind = "rotate" /\ j.kind \in {"activate", "rotate"} /\ i.key = j.key => i = j
    /\ disk.cred = NoKey => \A i \in Known : i.kind = "activate"

\* The request log has the committed intents.
Log ==
    /\ \A i \in receipts : <<Principal(i), i.rid>> \in requests
    /\ \A q \in requests : \E i \in receipts : q = <<Principal(i), i.rid>>

\* What the running command knows of its request.
Course ==
    pc # "idle" =>
        /\ IF pc = "intent" THEN call.purpose = "mutate" /\ disk.pending = NoIntent
                            ELSE disk.pending = call.intent
        /\ call.purpose = "mutate" =>
              /\ call.intent \in receipts => pc = "answer" /\ reply # "refused"
              /\ \A m \in net : m.purpose = "mutate" /\ m.intent = call.intent => pc = "wait" /\ m = call
        /\ pc = "answer" => /\ reply = "committed" => call.intent \in receipts
                            /\ reply = "cancelled" => call.intent \in cancellations

\* A mutation under way that may still be committed is the pending one.
Flight ==
    \A m \in net : m.purpose = "mutate" /\ m.intent \notin receipts \cup cancellations
        => disk.pending = m.intent

\* The intent of a command is about the keys on disk.
Fits(i) ==
    /\ i.kind = "activate" => i.key = disk.key /\ disk.cred = NoKey
    /\ i.kind # "activate" => i.cred = disk.cred /\ disk.cred # NoKey
    /\ i.kind = "apply" => i.key = disk.wg
Fitting == /\ disk.pending # NoIntent => Fits(disk.pending)
           /\ pc = "intent" => Fits(call.intent)

\* The Hub's credentials come from committed intents, and the client has accepted
\* all of those but the pending one.
Chain ==
    /\ disk.cred # NoKey => disk.cred = disk.key
    /\ disk.cred = NoKey => \A i \in receipts : i = disk.pending
    /\ \A k \in Key : creds[k] # "none" =>
          \E i \in receipts : i.kind \in {"activate", "rotate"} /\ i.key = k
    /\ disk.pending \in receipts /\ disk.pending.kind \in {"activate", "rotate"}
          => creds[disk.pending.key] = "live"
    /\ disk.pending \in receipts /\ disk.pending.kind = "rotate" => creds[disk.cred] # "live"

\* ClientFollowsHub, with the pending intent a rotation.
Follows ==
    /\ disk.gen > 0 => \E i \in receipts : i.kind = "apply" /\ i.key = disk.wg /\ i.gen + 1 = disk.gen
    /\ disk.cred # NoKey /\ creds[disk.cred] # "live" =>
          disk.pending \in receipts /\ disk.pending.kind = "rotate"

\* What was dropped is neither committed nor asked about again.
Dropped == \A i \in dropped : i \notin receipts /\ i # disk.pending /\ (pc # "idle" => i # call.intent)

\* The inductive invariant.
IInv == /\ Types /\ Unique /\ Log /\ OneOutcome /\ Course /\ Flight
        /\ Fitting /\ Chain /\ HoldsItsKeys /\ Follows /\ Dropped

-----------------------------------------------------------------------------
hub == <<creds, bound, requests, receipts, cancellations>>

\* NoIntent is not an intent, and names are apart.
LEMMA Kinds == /\ NoIntent \notin Intent
               /\ \A i \in Intent : i.kind \in Kind /\ i.rid \in Rid /\ i.key \in Key
                                    /\ i.cred \in Key \cup {NoKey} /\ i.gen \in Nat
               /\ NoKey \notin Key
  BY CredentialAssumption DEF NoIntent, Intent, Kind, Command

\* A step that makes no intent keeps them unique.
LEMMA NothingNew ==
    ASSUME Unique, Known' \subseteq Known, drawn \subseteq drawn', disk'.cred = NoKey => disk.cred = NoKey
    PROVE  Unique'
  BY DEF Unique

\* A pending intent is known, and so is the running command's.
LEMMA Members ==
    ASSUME IInv
    PROVE  /\ disk.pending # NoIntent => disk.pending \in Known
           /\ pc # "idle" => call.intent \in Known
           /\ receipts \subseteq Known /\ cancellations \subseteq Known /\ dropped \subseteq Known
           /\ \A m \in net : m.intent \in Known
           /\ Known \subseteq Intent
           /\ disk.pending \in Known => disk.pending # NoIntent
  BY Kinds, Zenon DEF IInv, Unique, Known, Called, Pending

\* The log has an intent's request ID exactly when the intent is committed.
LEMMA Logged ==
    ASSUME IInv, NEW i \in Known
    PROVE  <<Principal(i), i.rid>> \in requests <=> i \in receipts
<1>1. i \in receipts => <<Principal(i), i.rid>> \in requests
  BY Zenon DEF IInv, Log
<1>2. ASSUME <<Principal(i), i.rid>> \in requests PROVE i \in receipts
  <2>1. PICK j \in receipts : <<Principal(i), i.rid>> = <<Principal(j), j.rid>>
    BY <1>2, Zenon DEF IInv, Log
  <2>2. j \in Known /\ i.rid = j.rid
    BY <2>1, Members, Zenon
  <2> QED BY <2>1, <2>2, Zenon DEF IInv, Unique
<1> QED BY <1>1, <1>2

LEMMA Initially == Init => IInv
<1> SUFFICES ASSUME Init PROVE IInv
  OBVIOUS
<1>1. Types
  BY Zenon DEF Init, CredInit, Types
<1>2. Known = {}
  BY Zenon DEF Init, CredInit, Known, Called, Pending
<1>3. Unique
  BY <1>2 DEF Unique
<1>4. Log /\ OneOutcome /\ Course /\ Flight /\ Dropped
  BY Zenon DEF Init, CredInit, Log, OneOutcome, Course, Flight, Dropped
<1>5. Fitting /\ Chain /\ HoldsItsKeys /\ Follows
  BY DEF Init, CredInit, Fitting, Chain, HoldsItsKeys, Follows
<1> QED BY <1>1, <1>3, <1>4, <1>5 DEF IInv

\* What touches neither the client nor the Hub's keys, requests and outcomes.
LEMMA Aside ==
    ASSUME IInv, UNCHANGED <<hub, clientVars>>
    PROVE  IInv'
<1> USE DEF hub, clientVars
<1>1. Types' /\ Fitting' /\ Chain' /\ Follows' /\ HoldsItsKeys'
  BY DEF IInv, Types, Fitting, Fits, Chain, Follows, HoldsItsKeys
<1>2. Known' = Known
  BY Zenon DEF Known, Called, Pending
<1>3. Unique'
  BY <1>2, NothingNew, Zenon DEF IInv
<1>4. Log' /\ OneOutcome' /\ Course' /\ Flight' /\ Dropped'
  BY Zenon DEF IInv, Log, OneOutcome, Course, Flight, Dropped, Principal
<1> QED BY <1>1, <1>3, <1>4, Zenon DEF IInv

\* The command ends and leaves the file as it is.
LEMMA Ending ==
    ASSUME IInv, Stop, UNCHANGED <<credVars, disk, net, drawn, dropped>>
    PROVE  IInv'
<1> USE DEF Stop, credVars
<1>1. Types' /\ Fitting' /\ Chain' /\ Follows' /\ HoldsItsKeys'
  BY DEF IInv, Types, Fitting, Fits, Chain, Follows, HoldsItsKeys
<1>2. Known' \subseteq Known
  BY DEF Known, Called, Pending
<1>3. Unique'
  BY <1>2, NothingNew, Zenon DEF IInv
<1>4. Log' /\ OneOutcome' /\ Course' /\ Flight' /\ Dropped'
  BY Zenon DEF IInv, Log, OneOutcome, Course, Flight, Dropped, Principal
<1> QED BY <1>1, <1>3, <1>4, Zenon DEF IInv

LEMMA SavesKey == ASSUME IInv, SaveKey PROVE IInv'
<1> USE DEF SaveKey, credVars
<1>1. PICK k \in Key \ drawn :
        /\ drawn' = drawn \cup {k}
        /\ \/ disk.cred = NoKey /\ disk.key = NoKey /\ disk' \in {[disk EXCEPT !.key = k], disk}
           \/ disk.cred # NoKey /\ disk.wg = NoKey /\ disk' \in {[disk EXCEPT !.wg = k], disk}
  BY Zenon
<1>2. disk'.cred = disk.cred /\ disk'.pending = NoIntent /\ disk.pending = NoIntent /\ disk'.gen = disk.gen
  BY <1>1 DEF IInv, Types
<1>3. Types'
  BY <1>1 DEF IInv, Types
<1>4. Known' = Known
  BY <1>2 DEF Known, Called, Pending
<1>5. Unique'
  BY <1>1, <1>2, <1>4, NothingNew, Zenon DEF IInv
<1>6. Log' /\ OneOutcome' /\ Course' /\ Flight' /\ Dropped'
  BY <1>2, Zenon DEF IInv, Log, OneOutcome, Course, Flight, Dropped, Principal
<1>7. NoIntent \notin receipts
  BY Members, Kinds, Zenon
<1>8. CASE disk.cred = NoKey
  <2>1. receipts = {}
    BY <1>2, <1>7, <1>8 DEF IInv, Chain
  <2>2. Fitting' /\ Chain'
    BY <1>2, <1>8, <2>1, Zenon DEF IInv, Chain, Fitting
  <2>3. disk'.wg = disk.wg
    BY <1>1, <1>8, Zenon DEF IInv, Types
  <2>4. HoldsItsKeys'
    BY <1>2, <2>1, <2>3, Zenon DEF IInv, Chain, HoldsItsKeys
  <2>5. Follows'
    BY <1>2, <1>8, <2>3, Zenon DEF IInv, Follows
  <2> QED BY <1>3, <1>5, <1>6, <2>2, <2>4, <2>5, Zenon DEF IInv
<1>9. CASE disk.cred # NoKey
  <2>1. disk'.key = disk.key
    BY <1>1, <1>9, Zenon DEF IInv, Types
  <2>2. disk.wg = NoKey
    BY <1>1, <1>9, Zenon
  <2>3. Fitting' /\ Chain'
    BY <1>2, <1>7, <1>9, <2>1, Zenon DEF IInv, Chain, Fitting
  <2>4. HoldsItsKeys'
    BY <1>2, <2>1, <2>2, Zenon DEF IInv, HoldsItsKeys
  <2>5. ~(disk.gen > 0)
    BY <2>2, Kinds, Members, Zenon DEF IInv, Follows
  <2>6. Follows'
    BY <1>2, <2>5, Zenon DEF IInv, Follows
  <2> QED BY <1>3, <1>5, <1>6, <2>3, <2>4, <2>6, Zenon DEF IInv
<1> QED BY <1>8, <1>9, Zenon

LEMMA BeginsMutation == ASSUME IInv, BeginMutation PROVE IInv'
<1> USE DEF BeginMutation, Challenge, desired
<1>0. PICK rid \in Rid \ drawn :
        \E i \in Wanted(rid) :
          /\ Authorized([purpose |-> "mutate", intent |-> i, ch |-> rid])
          /\ call' = [purpose |-> "mutate", intent |-> i, ch |-> rid] /\ pc' = "intent"
          /\ drawn' = drawn \cup {rid, i.key}
  BY Zenon
<1>1. PICK i \in Wanted(rid) :
        /\ Authorized([purpose |-> "mutate", intent |-> i, ch |-> rid])
        /\ call' = [purpose |-> "mutate", intent |-> i, ch |-> rid] /\ pc' = "intent"
        /\ drawn' = drawn \cup {rid, i.key}
  BY <1>0, Zenon
<1>2. UNCHANGED <<hub, disk, reply, net, dropped>> /\ pc = "idle" /\ disk.pending = NoIntent
  BY Zenon DEF hub
<1> HIDE DEF BeginMutation, Challenge, desired
<1>3. i \in Intent /\ i.rid = rid /\ (ActivateIntent(i) \/ RotateIntent(i) \/ CommandIntent(i))
  BY <1>1, Zenon DEF Wanted
<1>4. call'.intent = i /\ call'.purpose = "mutate"
  BY <1>1, Zenon
<1>5. i.kind # "activate" => Credential(i.cred)
  BY <1>1 DEF Authorized
<1>6. i.kind # "activate" => i.cred = disk.cred /\ disk.cred # NoKey
  BY <1>3, <1>5, Kinds, Zenon DEF ActivateIntent, RotateIntent, CommandIntent, Credential
<1>7. Types'
  BY <1>1, <1>2, <1>4, Zenon DEF IInv, Types, Purpose, hub
<1>8. Known' \subseteq Known \cup {i}
  BY <1>1, <1>2, <1>4, Zenon DEF Known, Called, Pending, hub
<1>9. \A j \in Known : j.rid # i.rid
  BY <1>1, <1>3, Zenon DEF IInv, Unique
<1>10. Unique'
  <2>1. \A j \in Known' : j \in Intent /\ j.rid \in drawn' /\ j.key \in drawn'
    BY <1>1, <1>3, <1>8, Zenon DEF IInv, Unique
  <2>2. \A j, l \in Known' : j.rid = l.rid => j = l
    BY <1>8, <1>9 DEF IInv, Unique
  <2>3. disk'.cred = NoKey => \A j \in Known' : j.kind = "activate"
    BY <1>2, <1>6, <1>8, Zenon DEF IInv, Unique
  <2>4. ASSUME i.kind = "activate" PROVE disk.cred = NoKey /\ \A j \in Known : j.kind = "activate"
    BY <1>3, <2>4, Zenon DEF IInv, Unique, ActivateIntent, RotateIntent, CommandIntent, Command
  <2>5. ASSUME i.kind = "rotate" PROVE \A j \in Known : j.key # i.key
    BY <1>3, <2>5, Zenon DEF IInv, Unique, ActivateIntent, RotateIntent, CommandIntent, Command
  <2>6. ASSUME NEW j \in Known', NEW l \in Known', j.kind = "rotate",
               l.kind \in {"activate", "rotate"}, j.key = l.key
        PROVE  j = l
    <3>1. CASE j \in Known /\ l \in Known
      BY <2>6, <3>1 DEF IInv, Unique
    <3>2. CASE j = i
      BY <1>8, <2>5, <2>6, <3>2
    <3>3. CASE l = i
      BY <1>8, <2>4, <2>5, <2>6, <3>3
    <3> QED BY <1>8, <3>1, <3>2, <3>3
  <2> QED BY <2>1, <2>2, <2>3, <2>6 DEF Unique
<1>11. i \notin Known
  BY <1>9
<1>12. \A m \in net : m.intent # i
  BY <1>11, Members
<1>13. i \notin receipts /\ i \notin dropped
  BY <1>11, Members
<1>14. Course'
  BY <1>1, <1>2, <1>4, <1>12, <1>13, Zenon DEF Course, hub
<1>15. Log' /\ OneOutcome' /\ Flight'
  BY <1>2, Zenon DEF IInv, Log, OneOutcome, Flight, Principal, hub
<1>16. Dropped'
  BY <1>2, <1>4, <1>13, Zenon DEF IInv, Dropped, hub
<1>17. Fits(i)
  BY <1>3, <1>6, Zenon DEF Fits, ActivateIntent, RotateIntent, CommandIntent, Command
<1>18. Fitting'
  <2>1. disk' = disk
    BY <1>2
  <2>2. Fits(call.intent)'
    BY <1>4, <1>17, <2>1 DEF Fits
  <2> QED BY <1>2, <2>2 DEF Fitting
<1>19. Chain' /\ HoldsItsKeys' /\ Follows'
  BY <1>2, Zenon DEF IInv, Chain, HoldsItsKeys, Follows, hub
<1> QED BY <1>7, <1>10, <1>14, <1>15, <1>16, <1>18, <1>19, Zenon DEF IInv

LEMMA BeginsRead == ASSUME IInv, BeginRead PROVE IInv'
<1> USE DEF BeginRead, Challenge, desired
<1>1. call'.intent = disk.pending /\ call'.purpose \in {"receipt", "resolve"} /\ pc' = "send"
  OBVIOUS
<1>2. UNCHANGED <<hub, disk, reply, net, drawn, dropped>> /\ disk.pending # NoIntent
  BY DEF hub
<1> HIDE DEF BeginRead, Challenge, desired
<1>3. Types'
  BY <1>1, <1>2, Zenon DEF IInv, Types, Purpose, hub
<1>4. Known' \subseteq Known
  BY <1>1, <1>2 DEF Known, Called, Pending, hub
<1>5. Unique'
  BY <1>2, <1>4, NothingNew, Zenon DEF IInv
<1>6. Log' /\ OneOutcome' /\ Flight' /\ Course'
  BY <1>1, <1>2, Zenon DEF IInv, Log, OneOutcome, Flight, Principal, hub, Course
<1>7. Dropped'
  BY <1>1, <1>2, Zenon DEF IInv, Dropped, hub
<1>8. Fitting' /\ Chain' /\ HoldsItsKeys' /\ Follows'
  BY <1>1, <1>2, Zenon DEF IInv, Fitting, Fits, Chain, HoldsItsKeys, Follows, hub
<1> QED BY <1>3, <1>5, <1>6, <1>7, <1>8, Zenon DEF IInv

\* The intent is on disk, whether or not the command goes on.
LEMMA SavesIntent ==
    ASSUME IInv, pc = "intent", disk' = [disk EXCEPT !.pending = call.intent],
           UNCHANGED <<credVars, net, drawn, dropped>>,
           Stop \/ (pc' = "send" /\ UNCHANGED <<call, reply>>)
    PROVE  IInv'
<1> USE DEF credVars
<1>1. /\ disk'.key = disk.key /\ disk'.cred = disk.cred /\ disk'.wg = disk.wg /\ disk'.gen = disk.gen
      /\ disk'.pending = call.intent /\ disk.pending = NoIntent /\ call.purpose = "mutate"
  BY Zenon DEF IInv, Types, Course
<1>2. pc' = "idle" \/ (pc' = "send" /\ call' = call)
  BY DEF Stop
<1>3. call.intent \in Known /\ call.intent \in Intent
  BY Members, Zenon
<1>4. call.intent \notin receipts /\ \A m \in net : m.purpose = "mutate" => m.intent # call.intent
  BY <1>1, Zenon DEF IInv, Course
<1>5. Types'
  BY <1>2, <1>3, Zenon DEF IInv, Types
<1>6. Known' \subseteq Known
  BY <1>1, <1>2, <1>3 DEF Known, Called, Pending
<1>7. Unique'
  BY <1>1, <1>6, NothingNew, Zenon DEF IInv
<1>8. Log' /\ OneOutcome'
  BY Zenon DEF IInv, Log, OneOutcome, Principal
<1>9. Course'
  BY <1>1, <1>2, <1>4 DEF Course
<1>10. Flight'
  BY <1>1, <1>3, Members, Kinds, Zenon DEF IInv, Flight
<1>11. Dropped'
  BY <1>1, <1>2 DEF IInv, Dropped
<1>12. Fitting'
  BY <1>1, <1>2, Zenon DEF IInv, Fitting, Fits
<1>13. NoIntent \notin receipts
  BY Members, Kinds, Zenon
<1>14. disk.cred = NoKey => receipts = {}
  BY <1>1, <1>13, Zenon DEF IInv, Chain
<1>15. Chain'
  BY <1>1, <1>4, <1>14 DEF IInv, Chain
<1>16. HoldsItsKeys'
  BY <1>1, Zenon DEF IInv, HoldsItsKeys
<1>17. Follows'
  BY <1>1, <1>13 DEF IInv, Follows
<1> QED BY <1>5, <1>7, <1>8, <1>9, <1>10, <1>11, <1>12, <1>15, <1>16, <1>17, Zenon DEF IInv

LEMMA Sends == ASSUME IInv, Send PROVE IInv'
<1> USE DEF Send, credVars
<1>1. Types' /\ Fitting' /\ Chain' /\ Follows' /\ HoldsItsKeys'
  BY DEF IInv, Types, Fitting, Fits, Chain, Follows, HoldsItsKeys
<1>2. Known' \subseteq Known
  BY DEF Known, Called, Pending
<1>3. Unique'
  BY <1>2, NothingNew, Zenon DEF IInv
<1>4. disk.pending = call.intent
  BY Zenon DEF IInv, Course
<1>5. Log' /\ OneOutcome' /\ Dropped'
  BY Zenon DEF IInv, Log, OneOutcome, Dropped, Principal
<1>6. Course' /\ Flight'
  BY <1>4, Zenon DEF IInv, Course, Flight
<1> QED BY <1>1, <1>3, <1>5, <1>6, Zenon DEF IInv

\* An answer that commits nothing: what it says of its intent is true.
LEMMA Answers ==
    ASSUME IInv, NEW r \in net, NEW a, Answer(r, a), UNCHANGED hub,
           a = "committed" => r.purpose # "mutate" /\ r.intent \in receipts,
           a # "cancelled"
    PROVE  IInv'
<1> USE DEF Answer, hub
<1>1. Types' /\ Fitting' /\ Chain' /\ Follows' /\ HoldsItsKeys'
  BY DEF IInv, Types, Fitting, Fits, Chain, Follows, HoldsItsKeys
<1>2. Known' \subseteq Known
  BY DEF Known, Called, Pending
<1>3. Unique'
  BY <1>2, NothingNew, Zenon DEF IInv
<1>4. Log' /\ OneOutcome' /\ Dropped' /\ Flight'
  BY Zenon DEF IInv, Log, OneOutcome, Dropped, Principal, Flight
<1>5. Course'
  BY Zenon DEF IInv, Course
<1> QED BY <1>1, <1>3, <1>4, <1>5, Zenon DEF IInv

LEMMA Loses == ASSUME IInv, NEW r \in net, Lose(r) PROVE IInv'
<1> USE DEF Lose, credVars
<1>1. Types' /\ Fitting' /\ Chain' /\ Follows' /\ HoldsItsKeys'
  BY DEF IInv, Types, Fitting, Fits, Chain, Follows, HoldsItsKeys
<1>2. Known' \subseteq Known
  BY DEF Known, Called, Pending
<1>3. Unique'
  BY <1>2, NothingNew, Zenon DEF IInv
<1>4. Log' /\ OneOutcome' /\ Dropped' /\ Flight' /\ Course'
  BY Zenon DEF IInv, Log, OneOutcome, Dropped, Principal, Flight, Course
<1> QED BY <1>1, <1>3, <1>4, Zenon DEF IInv

\* A negative receipt: the mutation has not been committed, and can no longer be.
LEMMA Cancels ==
    ASSUME IInv, NEW r \in net, r.purpose = "resolve", Resolve(r), ~Committed(r.intent),
           Answer(r, "cancelled")
    PROVE  IInv'
<1> DEFINE i == r.intent
<1>1. /\ i \notin receipts /\ <<Principal(i), i.rid>> \notin requests
      /\ cancellations' = cancellations \cup {i}
      /\ UNCHANGED <<creds, bound, requests, receipts>>
  BY Zenon DEF Resolve, Committed, desired
<1>2. UNCHANGED <<disk, call, drawn, dropped>> /\ net' = net \ {r}
  BY DEF Answer
<1>3. (pc = "wait" /\ call = r /\ reply' = "cancelled" /\ pc' = "answer")
      \/ UNCHANGED <<reply, pc>>
  BY DEF Answer
<1>4. i \in Known
  BY Members, Zenon
<1>5. Types' /\ Fitting' /\ Chain' /\ Follows' /\ HoldsItsKeys'
  BY <1>1, <1>2, <1>3 DEF IInv, Types, Fitting, Fits, Chain, Follows, HoldsItsKeys
<1>6. Known' \subseteq Known
  BY <1>1, <1>2, <1>3, <1>4 DEF Known, Called, Pending
<1>7. Unique'
  BY <1>2, <1>6, NothingNew, Zenon DEF IInv
<1>8. Log' /\ OneOutcome' /\ Dropped' /\ Flight'
  BY <1>1, <1>2, <1>3, Zenon DEF IInv, Log, OneOutcome, Dropped, Principal, Flight
<1>9. Course'
  BY <1>1, <1>2, <1>3, Zenon DEF IInv, Course
<1> QED BY <1>5, <1>7, <1>8, <1>9, Zenon DEF IInv

\* A mutation that is committed is the pending one.
LEMMA CommitsPending ==
    ASSUME IInv, NEW r \in net, r.purpose = "mutate", Consumable(r)
    PROVE  /\ disk.pending = r.intent /\ r.intent \in Known /\ r.intent \notin receipts
           /\ r.intent \notin cancellations /\ Fits(r.intent)
<1>1. r.intent \in Known
  BY Members, Zenon
<1>2. r.intent \notin receipts
  BY <1>1, Logged, Zenon DEF Consumable
<1>3. r.intent \notin cancellations
  BY Zenon DEF Consumable
<1>4. disk.pending = r.intent
  BY <1>2, <1>3 DEF IInv, Flight
<1> QED BY <1>1, <1>2, <1>3, <1>4, Members, Zenon DEF IInv, Fitting

\* What a commit does to the requests, for all three kinds of mutation.
LEMMA Commits ==
    ASSUME IInv, NEW r \in net, r.purpose = "mutate", Consumable(r), Commit(r),
           Answer(r, "committed"), creds' \in [Key -> {"none", "live", "revoked"}]
    PROVE  /\ (Types /\ Unique /\ Log /\ OneOutcome /\ Course)'
           /\ (Flight /\ Fitting /\ Dropped)'
<1> DEFINE i == r.intent
<1>1. /\ requests' = requests \cup {<<Principal(i), i.rid>>} /\ receipts' = receipts \cup {i}
      /\ UNCHANGED cancellations
  BY Zenon DEF Commit
<1>2. UNCHANGED <<disk, call, drawn, dropped>> /\ net' = net \ {r}
  BY DEF Answer
<1>3. \/ pc = "wait" /\ call = r /\ reply' = "committed" /\ pc' = "answer"
      \/ ~(pc = "wait" /\ call = r) /\ UNCHANGED <<reply, pc>>
  BY Zenon DEF Answer
<1>4. disk.pending = i /\ i \in Known /\ i \notin receipts /\ i \notin cancellations /\ i # NoIntent
  BY CommitsPending, Members, Zenon
<1>5. Types'
  BY <1>2, <1>3, Zenon DEF IInv, Types
<1>6. Known' \subseteq Known
  BY <1>1, <1>2, <1>3, <1>4 DEF Known, Called, Pending
<1>7. Unique'
  BY <1>2, <1>6, NothingNew, Zenon DEF IInv
<1>8. Log'
  BY <1>1, Zenon DEF IInv, Log, Principal
<1>9. OneOutcome'
  <2> SUFFICES ASSUME NEW c \in cancellations
               PROVE  <<Principal(c), c.rid>> \notin requests' /\ c \notin receipts'
    BY <1>1, Zenon DEF OneOutcome, Principal
  <2>1. <<Principal(c), c.rid>> # <<Principal(i), i.rid>>
    BY Zenon DEF Consumable
  <2> QED BY <1>1, <1>4, <2>1, Zenon DEF IInv, OneOutcome
<1>10. pc # "idle" /\ call.purpose = "mutate" => call.intent # i \/ (pc = "wait" /\ call = r)
  BY Zenon DEF IInv, Course
<1>11. Course'
  <2>1. CASE pc = "wait" /\ call = r
    BY <1>1, <1>2, <1>3, <1>4, <2>1, Zenon DEF IInv, Course
  <2>2. CASE ~(pc = "wait" /\ call = r)
    BY <1>1, <1>2, <1>3, <1>10, <2>2, Zenon DEF IInv, Course
  <2> QED BY <2>1, <2>2
<1>12. Flight' /\ Dropped'
  BY <1>1, <1>2, <1>3, <1>4, Zenon DEF IInv, Flight, Dropped
<1>13. Fitting'
  BY <1>2, <1>3, Zenon DEF IInv, Fitting, Fits
<1> QED BY <1>5, <1>7, <1>8, <1>9, <1>11, <1>12, <1>13

LEMMA Activates ==
    ASSUME IInv, NEW r \in net, r.purpose = "mutate", Activate(r), Answer(r, "committed")
    PROVE  IInv'
<1> DEFINE i == r.intent
<1>1. /\ i.kind = "activate" /\ creds' = [creds EXCEPT ![i.key] = "live"] /\ UNCHANGED bound
      /\ Consumable(r) /\ Commit(r) /\ receipts' = receipts \cup {i} /\ UNCHANGED disk
  BY Zenon DEF Activate, Commit, Answer
<1>2. /\ disk.pending = i /\ i \in Intent /\ i.key \in Key /\ i # NoIntent
      /\ i.key = disk.key /\ disk.cred = NoKey
  BY <1>1, CommitsPending, Members, Kinds, Zenon DEF Fits
<1>3. creds' \in [Key -> {"none", "live", "revoked"}] /\ creds'[i.key] = "live"
      /\ \A k \in Key : k # i.key => creds'[k] = creds[k]
  BY <1>1, <1>2, Zenon DEF IInv, Types
<1>4. (Types /\ Unique /\ Log /\ OneOutcome /\ Course)' /\ (Flight /\ Fitting /\ Dropped)'
  BY <1>1, <1>3, Commits, Zenon
<1>5. Chain'
  BY <1>1, <1>2, <1>3 DEF IInv, Chain
<1>6. HoldsItsKeys'
  BY <1>1, <1>2, <1>3, Zenon DEF IInv, HoldsItsKeys
<1>7. Follows'
  BY <1>1, <1>2, Zenon DEF IInv, Follows
<1> QED BY <1>4, <1>5, <1>6, <1>7, Zenon DEF IInv

LEMMA Rotates ==
    ASSUME IInv, NEW r \in net, r.purpose = "mutate", RotateCredential(r), Answer(r, "committed")
    PROVE  IInv'
<1> DEFINE i == r.intent
<1>1. /\ i.kind = "rotate" /\ creds' = [creds EXCEPT ![i.key] = "live", ![i.cred] = "revoked"]
      /\ UNCHANGED bound /\ i.key # i.cred /\ creds[i.cred] = "live" /\ i.cred \in Key
      /\ Consumable(r) /\ Commit(r) /\ receipts' = receipts \cup {i} /\ UNCHANGED disk
  BY Zenon DEF RotateCredential, Commit, Answer, Credential
<1>2. /\ disk.pending = i /\ i \in Intent /\ i.key \in Key /\ i # NoIntent
      /\ i.cred = disk.cred /\ disk.cred # NoKey
  BY <1>1, CommitsPending, Members, Kinds, Zenon DEF Fits
<1>3. creds' \in [Key -> {"none", "live", "revoked"}] /\ creds'[i.key] = "live"
      /\ creds'[i.cred] = "revoked"
      /\ \A k \in Key : k # i.key /\ k # i.cred => creds'[k] = creds[k]
  BY <1>1, <1>2, Zenon DEF IInv, Types
<1>4. (Types /\ Unique /\ Log /\ OneOutcome /\ Course)' /\ (Flight /\ Fitting /\ Dropped)'
  BY <1>1, <1>3, Commits, Zenon
<1>5. Chain'
  <2>1. \A k \in Key : creds'[k] # "none" =>
           \E j \in receipts' : j.kind \in {"activate", "rotate"} /\ j.key = k
    BY <1>1, <1>2, <1>3 DEF IInv, Chain
  <2> QED BY <1>1, <1>2, <1>3, <2>1, Zenon DEF IInv, Chain
<1>6. HoldsItsKeys'
  BY <1>1, <1>2, <1>3 DEF IInv, HoldsItsKeys
<1>7. Follows'
  BY <1>1, <1>2, Zenon DEF IInv, Follows
<1> QED BY <1>4, <1>5, <1>6, <1>7, Zenon DEF IInv

LEMMA Submits ==
    ASSUME IInv, NEW r \in net, r.purpose = "mutate", SubmitSigned(r), Answer(r, "committed")
    PROVE  IInv'
<1> DEFINE i == r.intent
<1>1. /\ i.kind \in Command /\ UNCHANGED creds /\ creds[i.cred] = "live"
      /\ bound' = (IF i.kind = "apply" THEN i.key ELSE bound)
      /\ Consumable(r) /\ Commit(r) /\ receipts' = receipts \cup {i} /\ UNCHANGED disk
  BY Zenon DEF SubmitSigned, Commit, Answer, Credential
<1>2. /\ disk.pending = i /\ i.kind \notin {"activate", "rotate"} /\ disk.cred # NoKey
      /\ i.kind = "apply" => i.key = disk.wg
  BY <1>1, CommitsPending, Zenon DEF Fits, Command
<1>3. (Types /\ Unique /\ Log /\ OneOutcome /\ Course)' /\ (Flight /\ Fitting /\ Dropped)'
  BY <1>1, Commits, Zenon DEF IInv, Types
<1>4. Chain'
  BY <1>1, <1>2 DEF IInv, Chain
<1>5. HoldsItsKeys'
  BY <1>1, <1>2, Zenon DEF IInv, HoldsItsKeys
<1>6. Follows'
  BY <1>1, <1>2, Zenon DEF IInv, Follows
<1> QED BY <1>3, <1>4, <1>5, <1>6, Zenon DEF IInv

\* The committed result of the pending intent reaches the disk.
LEMMA AcceptsResult ==
    ASSUME IInv, pc = "answer", reply = "committed", disk' = Accepted(call.intent), Stop,
           UNCHANGED <<credVars, net, drawn, dropped>>
    PROVE  IInv'
<1> DEFINE i == call.intent
<1> USE DEF credVars, Stop
<1>1. disk.pending = i /\ i \in receipts
  BY Zenon DEF IInv, Course
<1>2. i \in Intent /\ i # NoIntent /\ i.key \in Key /\ i.kind \in Kind /\ i.gen \in Nat
  BY <1>1, Members, Kinds, Zenon
<1>3. /\ disk'.pending = NoIntent /\ disk'.wg = disk.wg
      /\ disk'.key = IF i.kind \in {"activate", "rotate"} THEN i.key ELSE disk.key
      /\ disk'.cred = IF i.kind \in {"activate", "rotate"} THEN i.key ELSE disk.cred
      /\ disk'.gen = IF i.kind = "apply" THEN i.gen + 1 ELSE disk.gen
  BY Zenon DEF IInv, Types, Accepted
<1>4. Types'
  <2>1. CASE i.kind \in {"activate", "rotate"}
    BY <1>2, <2>1, Zenon DEF IInv, Types, Accepted
  <2>2. CASE i.kind = "apply"
    <3>1. disk' = [disk EXCEPT !.pending = NoIntent, !.gen = i.gen + 1]
      BY <2>2, Zenon DEF IInv, Types, Accepted
    <3>2. i.gen + 1 \in Nat
      BY <1>2
    <3> QED BY <3>1, <3>2, Zenon DEF IInv, Types
  <2>3. CASE i.kind \notin {"activate", "rotate", "apply"}
    BY <1>2, <2>3, Zenon DEF IInv, Types, Accepted
  <2> QED BY <2>1, <2>2, <2>3, Zenon
<1>5. Known' \subseteq Known
  BY <1>3, Zenon DEF Known, Called, Pending
<1>6. Unique'
  BY <1>2, <1>3, <1>5, Kinds, NothingNew, Zenon DEF IInv
<1>7. Log' /\ OneOutcome' /\ Course'
  BY Zenon DEF IInv, Log, OneOutcome, Principal, Course
<1>8. Flight'
  BY <1>1, Zenon DEF IInv, Flight
<1>9. NoIntent \notin Known
  BY Members, Kinds, Zenon
<1>10. Dropped'
  BY <1>3, <1>9, Members, Zenon DEF IInv, Dropped
<1>11. Fitting'
  BY <1>3, Zenon DEF Fitting
<1>12. Fits(i)
  BY <1>1, <1>2, Zenon DEF IInv, Fitting
<1>13. disk'.cred # NoKey
  BY <1>2, <1>3, <1>12, Kinds, Zenon DEF Fits
<1>14. Chain'
  BY <1>3, <1>9, <1>13, Members, Zenon DEF IInv, Chain
<1>15. HoldsItsKeys'
  <2>1. bound' \in {NoKey, disk'.wg}
    BY <1>3, Zenon DEF IInv, HoldsItsKeys
  <2>2. ASSUME NEW k \in Key, creds[k] = "live" PROVE k = disk'.key
    <3>1. k = disk.key \/ (i.kind = "rotate" /\ k = i.key)
      BY <1>1, <2>2, Zenon DEF IInv, HoldsItsKeys
    <3>2. CASE i.kind = "rotate"
      BY <1>1, <1>3, <1>12, <2>2, <3>1, <3>2 DEF IInv, Chain, Fits
    <3>3. CASE i.kind # "rotate"
      BY <1>3, <1>12, <3>1, <3>3, Zenon DEF Fits
    <3> QED BY <3>2, <3>3, Zenon
  <2> QED BY <2>1, <2>2, Zenon DEF HoldsItsKeys
<1>16. Follows'
  <2>1. disk'.gen > 0 => \E j \in receipts : j.kind = "apply" /\ j.key = disk'.wg /\ j.gen + 1 = disk'.gen
    BY <1>1, <1>3, <1>12, Zenon DEF IInv, Follows, Fits
  <2>2. creds[disk'.cred] = "live"
    BY <1>1, <1>3, <1>12 DEF IInv, Chain, Follows, Fits
  <2> QED BY <2>1, <2>2, Zenon DEF Follows
<1> QED BY <1>4, <1>6, <1>7, <1>8, <1>10, <1>11, <1>14, <1>15, <1>16, Zenon DEF IInv

\* The pending intent is given up: it is not committed and no request for it can be.
LEMMA Discarding ==
    ASSUME IInv, pc = "answer", Stop, UNCHANGED <<credVars, net, drawn>>,
           dropped' = dropped \cup {disk.pending},
           disk' = Cancelled(call.intent) \/ disk' = [disk EXCEPT !.pending = NoIntent],
           reply = "cancelled" \/ (reply = "refused" /\ call.purpose = "mutate")
    PROVE  IInv'
<1> DEFINE i == call.intent
<1> USE DEF credVars, Stop
<1>1. disk.pending = i /\ i \notin receipts
  BY Zenon DEF IInv, Course, OneOutcome
<1>2. i \in Known /\ i \in Intent /\ i # NoIntent /\ i.key \in Key
  BY Members, Kinds, Zenon
<1>3. /\ disk'.pending = NoIntent /\ disk'.wg = disk.wg /\ disk'.gen = disk.gen
      /\ disk'.cred = disk.cred
      /\ disk'.key = disk.key \/ (disk'.key = NoKey /\ i.kind = "activate")
  BY Zenon DEF IInv, Types, Cancelled
<1>4. Types'
  BY Zenon DEF IInv, Types, Cancelled
<1>5. Known' \subseteq Known
  BY <1>1, <1>2, <1>3 DEF Known, Called, Pending
<1>6. Unique'
  BY <1>3, <1>5, NothingNew, Zenon DEF IInv
<1>7. Log' /\ OneOutcome' /\ Course'
  BY Zenon DEF IInv, Log, OneOutcome, Principal, Course
<1>8. Flight'
  BY <1>1 DEF IInv, Flight, Course
<1>9. NoIntent \notin Known
  BY Members, Kinds, Zenon
<1>10. Dropped'
  BY <1>1, <1>2, <1>3, <1>9, Members DEF IInv, Dropped
<1>11. Fitting'
  BY <1>3 DEF Fitting
<1>12. Fits(i)
  BY <1>1, <1>2, Zenon DEF IInv, Fitting
<1>13. disk.cred = NoKey => receipts = {}
  BY <1>1 DEF IInv, Chain
<1>14. disk'.key # disk.key => disk.cred = NoKey
  BY <1>3, <1>12, Zenon DEF Fits
<1>15. Chain'
  BY <1>3, <1>9, <1>13, <1>14, Members, Zenon DEF IInv, Chain
<1>16. i.kind = "rotate" => creds[i.key] = "none"
  BY <1>1, <1>2, Members DEF IInv, Chain, Unique
<1>17. HoldsItsKeys'
  BY <1>1, <1>3, <1>13, <1>14, <1>16 DEF IInv, Chain, HoldsItsKeys
<1>18. Follows'
  BY <1>1, <1>3 DEF IInv, Follows
<1> QED BY <1>4, <1>6, <1>7, <1>8, <1>10, <1>11, <1>15, <1>17, <1>18, Zenon DEF IInv

LEMMA Inductive == ASSUME IInv, [Next]_vars PROVE IInv'
<1>1. CASE UNCHANGED vars
  BY <1>1, Aside, Zenon DEF vars, credVars, hub, clientVars
<1>2. ASSUME Saves([disk EXCEPT !.pending = call.intent], pc' = "send" /\ UNCHANGED <<call, reply>>),
             pc = "intent", UNCHANGED <<credVars, net, drawn, dropped>>
      PROVE  IInv'
  BY <1>2, SavesIntent, Ending DEF Saves
<1>3. CASE AcceptResult
  BY <1>3, AcceptsResult, Ending, Zenon DEF AcceptResult, Saves
<1>4. CASE DiscardCancelled
  BY <1>4, Discarding, Ending DEF DiscardCancelled, Discards
<1>5. CASE HandleRefusal
  BY <1>5, Discarding, Ending DEF HandleRefusal, Discards
<1>6. CASE Timeout \/ Crash
  BY <1>6, Ending DEF Timeout, Crash
<1>7. CASE Finish
  BY <1>2, <1>3, <1>4, <1>5, <1>6, <1>7, Sends DEF Finish, SaveIntent
<1>8. ASSUME NEW r \in net, HandleMutation(r) \/ HandleReceipt(r) \/ HandleResolve(r)
                            \/ Refuse(r) \/ Lose(r)
      PROVE  IInv'
  <2>1. CASE HandleMutation(r)
    BY <2>1, Activates, Rotates, Submits DEF HandleMutation, Mutates
  <2>2. CASE HandleReceipt(r)
    <3>1. r.intent \in receipts /\ UNCHANGED hub
      BY <2>2 DEF HandleReceipt, Receipt, Authorized, CredentialReceiptRow,
         OperationReceiptRow, hub, desired
    <3> QED BY <2>2, <3>1, Answers DEF HandleReceipt
  <2>3. CASE HandleResolve(r)
    <3>1. CASE Committed(r.intent)
      <4>1. r.purpose # "mutate" /\ r.intent \in receipts /\ UNCHANGED hub /\ Answer(r, "committed")
        BY <2>3, <3>1, Zenon DEF HandleResolve, Resolve, Committed, hub, desired
      <4> QED BY <4>1, Answers
    <3>2. CASE ~Committed(r.intent)
      BY <2>3, <3>2, Cancels DEF HandleResolve
    <3> QED BY <3>1, <3>2
  <2>4. CASE Refuse(r)
    BY <2>4, Answers DEF Refuse, credVars, hub
  <2> QED BY <1>8, <2>1, <2>2, <2>3, <2>4, Loses
<1>9. CASE Expire \/ Environment
  BY <1>9, Aside, Zenon DEF Expire, Environment, ExpireChallenge, Administer, Lapse, hub,
     clientVars, desired
<1> QED BY <1>1, <1>6, <1>7, <1>8, <1>9, SavesKey, BeginsMutation, BeginsRead, Zenon DEF Next

\* The inductive invariant holds in every reachable state.
LEMMA Invariant == Spec => []IInv
  BY Initially, Inductive, PTL DEF Spec

-----------------------------------------------------------------------------
\* consume and ResolvePending give every request one outcome, whatever the order
\* in which a mutation and the question about it arrive.
THEOREM OutcomeIsOne == Spec => []OneOutcome
<1>1. IInv => OneOutcome
  BY DEF IInv
<1> QED BY <1>1, Invariant, PTL

\* What failedMutation or cancel-pending discards is never committed, though its
\* request may still be under way.
THEOREM DiscardedForGood == Spec => []DiscardedNeverCommits
<1>1. IInv => DiscardedNeverCommits
  BY Members, Logged, Zenon DEF IInv, Dropped, DiscardedNeverCommits
<1> QED BY <1>1, Invariant, PTL

\* The client holds the key of every credential that is not revoked, and the
\* device's WireGuard key.
THEOREM NoKeyLost == Spec => []HoldsItsKeys
<1>1. IInv => HoldsItsKeys
  BY DEF IInv
<1> QED BY <1>1, Invariant, PTL

\* The client's generation and credential are ones the Hub has accepted.
THEOREM HubIsFollowed == Spec => []ClientFollowsHub
<1>1. IInv => ClientFollowsHub
  BY Members, Zenon DEF IInv, Follows, ClientFollowsHub
<1> QED BY <1>1, Invariant, PTL

-----------------------------------------------------------------------------
(***************************************************************************)
(* Proofs about UpdateState, for every set of policies and candidates and  *)
(* every clock.                                                            *)
(*                                                                         *)
(* load compares the floors of the state with a maximum over the first     *)
(* policy, the last policy and the last receipt, while the commands only   *)
(* ever raise the floors they find.  The two agree because an approval     *)
(* may not go below the floors and a candidate not below the last receipt: *)
(* what is dropped from the state is below what replaces it.  The          *)
(* invariant says this of the state on disk and of the state a command is  *)
(* about to write, and relates the second to the first.                    *)
(***************************************************************************)
CONSTANTS Policy, Candidate, MaxTime, MaxBack
VARIABLES files, anchor, stored, step, cand, next, now, back, staged

Updates == INSTANCE UpdateState WITH pc <- step, disk <- stored

UpdatesReceipt == [c : Candidate \cup {Updates!NoCandidate}, at : Nat]
State == [policy : Policy \cup {Updates!NoPolicy}, floors : Updates!FloorsType, prev : UpdatesReceipt]

UpdatesTypes ==
    /\ files \in {"none", "anchor", "both"} /\ anchor \in Policy \cup {Updates!NoPolicy}
    /\ step \in {"idle", "anchored", "reading", "checking", "approving", "staging", "written"}
    /\ stored \in State /\ next \in State /\ cand \in UpdatesReceipt
    /\ now \in 0..MaxTime /\ back \in 0..MaxBack /\ staged \subseteq Candidate

\* What load checks, but for the clock
Sound(a, s) == Updates!Consistent(a, s, s.prev.at)

\* What a command may replace the state s by
Above(s, t) ==
    /\ Updates!FloorsGeq(t.floors, s.floors) /\ t.policy.rev >= s.policy.rev
    /\ Updates!Follows(t.prev.c, s.prev)

Control ==
    /\ step = "anchored" => files = "anchor"
    /\ step \in {"reading", "checking", "approving", "staging", "written"} => files = "both"
    /\ files # "both" => staged = {}

Held ==
    /\ step \in {"reading", "checking"} => cand.c \in Candidate
    /\ step = "checking" =>
          Updates!Follows(cand.c, stored.prev) /\ cand.c.issued <= cand.at /\ cand.at < cand.c.expires
    /\ step \in {"approving", "staging"} => Sound(anchor, next) /\ Above(stored, next)
    /\ step = "staging" => next.prev.c \in Candidate
    /\ step = "written" => stored.prev.c \in Candidate

UpdatesIInv ==
    /\ UpdatesTypes /\ Control /\ Held
    /\ files = "both" => Sound(anchor, stored)
    /\ Updates!StagedIsCovered

-----------------------------------------------------------------------------
(* The data *)

\* The sentinels have the fields and the types of the documents they stand for.
LEMMA FieldTypes ==
  ASSUME Updates!PolicyAssumption, Updates!CandidateAssumption
  PROVE  /\ Policy \cup {Updates!NoPolicy} \subseteq Updates!PolicyType
         /\ Candidate \cup {Updates!NoCandidate} \subseteq Updates!CandidateType
BY SMT DEF Updates!PolicyAssumption, Updates!CandidateAssumption, Updates!NoPolicy,
   Updates!NoCandidate, Updates!PolicyType, Updates!CandidateType, Updates!Key

\* A new registration writes a state that loads: its floors are the policy's.
LEMMA NewStateSound ==
    ASSUME NEW p \in Updates!PolicyType
    PROVE  Sound(p, Updates!NewState(p)) /\ Updates!NewState(p).floors \in Updates!FloorsType
<1> DEFINE s == Updates!NewState(p)
<1>1. s.policy = p /\ s.floors = Updates!PolicyFloors(p) /\ s.prev.c = Updates!NoCandidate /\ s.prev.at = 0
  BY DEF Updates!NewState, Updates!NoReceipt
<1>2. \A n \in Nat : Updates!Max2(Updates!Max2(n, n), 0) = n
  BY DEF Updates!Max2
<1>3. Updates!PolicyFloors(p) = Updates!MergeFloors(Updates!MergeFloors(Updates!PolicyFloors(p), Updates!PolicyFloors(p)), Updates!ReceiptFloors(Updates!NoCandidate))
  BY <1>2, Zenon DEF Updates!PolicyFloors, Updates!MergeFloors, Updates!ReceiptFloors,
     Updates!NoCandidate, Updates!PolicyType
<1>4. Updates!PolicyNotBelow(p, Updates!PolicyFloors(p)) /\ Updates!PolicyFloors(p) \in Updates!FloorsType /\ p.rev \in Nat
  BY DEF Updates!PolicyNotBelow, Updates!PolicyFloors, Updates!PolicyType, Updates!FloorsType
<1>5. Updates!NoCandidate.issued <= 0 /\ 0 < Updates!NoCandidate.expires
  BY DEF Updates!NoCandidate
<1> HIDE DEF s
<1>6. Sound(p, s)
  BY <1>1, <1>3, <1>4, <1>5 DEF Sound, Updates!Consistent
<1> QED BY <1>1, <1>4, <1>6 DEF s

\* The fields of the floors that load expects.
LEMMA MergedFields ==
    ASSUME NEW a, NEW q, NEW c
    PROVE  LET f == Updates!MergeFloors(Updates!MergeFloors(Updates!PolicyFloors(a), Updates!PolicyFloors(q)), Updates!ReceiptFloors(c))
           IN  /\ f.ver = Updates!Max2(Updates!Max2(a.ver, q.ver), c.ver)
               /\ f.proto = Updates!Max2(Updates!Max2(a.proto, q.proto), 0)
               /\ f.seq = Updates!Max2(Updates!Max2(a.seq, q.seq), c.seq)
               /\ f.sf = Updates!Max2(Updates!Max2(a.sf, q.sf), c.sf)
               /\ f.sv = Updates!Max2(Updates!Max2(a.sf, q.sf), c.sv)
BY Zenon DEF Updates!MergeFloors, Updates!PolicyFloors, Updates!ReceiptFloors

\* Merging floors is a maximum, field by field: what is below the last
\* operand can be left out.
LEMMA MergedOver ==
    ASSUME NEW a \in Updates!FloorsType, NEW q \in Updates!FloorsType, NEW c \in Updates!FloorsType, NEW w \in Updates!FloorsType,
           Updates!FloorsGeq(w, c)
    PROVE  Updates!MergeFloors(Updates!MergeFloors(Updates!MergeFloors(a, q), c), w) = Updates!MergeFloors(Updates!MergeFloors(a, q), w)
<1>1. \A f \in {a, q, c, w} :
         f.ver \in Nat /\ f.proto \in Nat /\ f.seq \in Nat /\ f.sf \in Nat /\ f.sv \in Nat
  BY DEF Updates!FloorsType
<1>2. Updates!Max2(Updates!Max2(Updates!Max2(a.ver, q.ver), c.ver), w.ver) = Updates!Max2(Updates!Max2(a.ver, q.ver), w.ver)
  BY <1>1 DEF Updates!FloorsGeq, Updates!Max2
<1>3. Updates!Max2(Updates!Max2(Updates!Max2(a.proto, q.proto), c.proto), w.proto) = Updates!Max2(Updates!Max2(a.proto, q.proto), w.proto)
  BY <1>1 DEF Updates!FloorsGeq, Updates!Max2
<1>4. Updates!Max2(Updates!Max2(Updates!Max2(a.seq, q.seq), c.seq), w.seq) = Updates!Max2(Updates!Max2(a.seq, q.seq), w.seq)
  BY <1>1 DEF Updates!FloorsGeq, Updates!Max2
<1>5. Updates!Max2(Updates!Max2(Updates!Max2(a.sf, q.sf), c.sf), w.sf) = Updates!Max2(Updates!Max2(a.sf, q.sf), w.sf)
  BY <1>1 DEF Updates!FloorsGeq, Updates!Max2
<1>6. Updates!Max2(Updates!Max2(Updates!Max2(a.sv, q.sv), c.sv), w.sv) = Updates!Max2(Updates!Max2(a.sv, q.sv), w.sv)
  BY <1>1 DEF Updates!FloorsGeq, Updates!Max2
<1> QED BY <1>2, <1>3, <1>4, <1>5, <1>6, Zenon DEF Updates!MergeFloors

\* The same for a policy w that replaces q, where only the sequence, version,
\* protocol and security floor of a policy are compared with the floors.
LEMMA MergedAbove ==
    ASSUME NEW a \in Updates!FloorsType, NEW q \in Updates!FloorsType, NEW c \in Updates!FloorsType, NEW w \in Updates!FloorsType,
           a.sv = a.sf, q.sv = q.sf, w.sv = w.sf,
           Updates!PolicyNotBelow(w, Updates!MergeFloors(Updates!MergeFloors(a, q), c))
    PROVE  /\ Updates!MergeFloors(Updates!MergeFloors(Updates!MergeFloors(a, q), c), w) = Updates!MergeFloors(Updates!MergeFloors(a, w), c)
           /\ Updates!PolicyNotBelow(w, a)
<1>0. \A f \in {a, q, c, w} :
         f.ver \in Nat /\ f.proto \in Nat /\ f.seq \in Nat /\ f.sf \in Nat /\ f.sv \in Nat
  BY DEF Updates!FloorsType
<1>1. \A k, l, m, n \in Nat : n >= Updates!Max2(Updates!Max2(k, l), m) =>
         n >= k /\ n >= l /\ Updates!Max2(Updates!Max2(Updates!Max2(k, l), m), n) = Updates!Max2(Updates!Max2(k, n), m)
  BY DEF Updates!Max2
<1>2. Updates!PolicyNotBelow(w, a) /\ w.sf >= q.sf
  BY <1>0, <1>1, Zenon DEF Updates!MergeFloors, Updates!PolicyNotBelow
<1>3. w.sv >= a.sv /\ w.sv >= q.sv
  BY <1>2 DEF Updates!PolicyNotBelow
<1>4. Updates!Max2(Updates!Max2(Updates!Max2(a.sv, q.sv), c.sv), w.sv) = Updates!Max2(Updates!Max2(a.sv, w.sv), c.sv)
  BY <1>0, <1>3 DEF Updates!Max2
<1>5. /\ w.ver >= Updates!Max2(Updates!Max2(a.ver, q.ver), c.ver) /\ w.proto >= Updates!Max2(Updates!Max2(a.proto, q.proto), c.proto)
      /\ w.seq >= Updates!Max2(Updates!Max2(a.seq, q.seq), c.seq) /\ w.sf >= Updates!Max2(Updates!Max2(a.sf, q.sf), c.sf)
  BY Zenon DEF Updates!MergeFloors, Updates!PolicyNotBelow
<1>6. Updates!Max2(Updates!Max2(Updates!Max2(a.ver, q.ver), c.ver), w.ver) = Updates!Max2(Updates!Max2(a.ver, w.ver), c.ver)
  BY <1>0, <1>5 DEF Updates!Max2
<1>7. Updates!Max2(Updates!Max2(Updates!Max2(a.proto, q.proto), c.proto), w.proto) = Updates!Max2(Updates!Max2(a.proto, w.proto), c.proto)
  BY <1>0, <1>5 DEF Updates!Max2
<1>8. Updates!Max2(Updates!Max2(Updates!Max2(a.seq, q.seq), c.seq), w.seq) = Updates!Max2(Updates!Max2(a.seq, w.seq), c.seq)
  BY <1>0, <1>5 DEF Updates!Max2
<1>9. Updates!Max2(Updates!Max2(Updates!Max2(a.sf, q.sf), c.sf), w.sf) = Updates!Max2(Updates!Max2(a.sf, w.sf), c.sf)
  BY <1>0, <1>5 DEF Updates!Max2
<1> QED BY <1>2, <1>4, <1>6, <1>7, <1>8, <1>9, Zenon DEF Updates!MergeFloors

\* A higher policy that is not below the floors makes everything the former
\* policy contributed to the floors redundant.
LEMMA ApprovedSound ==
    ASSUME Updates!PolicyAssumption, Updates!CandidateAssumption,
           stored \in State, anchor \in Updates!PolicyType, Sound(anchor, stored),
           NEW p \in Policy, p.rev > stored.policy.rev, Updates!PolicyNotBelow(p, stored.floors)
    PROVE  Updates!Approved(p) \in State /\ Sound(anchor, Updates!Approved(p)) /\ Above(stored, Updates!Approved(p))
<1>1. p \in Updates!PolicyType /\ stored.policy \in Updates!PolicyType /\ stored.prev.c \in Updates!CandidateType
  BY FieldTypes DEF State, UpdatesReceipt
<1>2. Updates!Approved(p).floors \in Updates!FloorsType
  BY <1>1 DEF Updates!Approved, State, Updates!MergeFloors, Updates!PolicyFloors,
     Updates!Max2, Updates!PolicyType, Updates!FloorsType
<1>3. Updates!Approved(p) \in State
  BY <1>2, Zenon DEF Updates!Approved, State
<1>4. Updates!FloorsGeq(Updates!Approved(p).floors, stored.floors)
  BY <1>1 DEF Updates!Approved, State, Updates!FloorsGeq, Updates!MergeFloors,
     Updates!PolicyFloors, Updates!Max2, Updates!PolicyType, Updates!FloorsType
<1>5. Updates!Follows(stored.prev.c, stored.prev)
  BY <1>1 DEF Updates!Follows, Updates!CandidateType
<1>6. Above(stored, Updates!Approved(p))
  BY <1>1, <1>4, <1>5 DEF Above, Updates!Approved, State, Updates!PolicyType
<1> DEFINE a == Updates!PolicyFloors(anchor)
           q == Updates!PolicyFloors(stored.policy)
           w == Updates!PolicyFloors(p)
           c == Updates!ReceiptFloors(stored.prev.c)
<1>7. a \in Updates!FloorsType /\ q \in Updates!FloorsType /\ w \in Updates!FloorsType /\ c \in Updates!FloorsType
  BY <1>1, Zenon DEF Updates!PolicyFloors, Updates!ReceiptFloors, Updates!PolicyType,
     Updates!CandidateType, Updates!FloorsType
<1>8. /\ Updates!PolicyNotBelow(w, stored.floors) /\ w.sv = w.sf
      /\ stored.floors = Updates!MergeFloors(Updates!MergeFloors(a, q), c) /\ a.sv = a.sf /\ q.sv = q.sf /\ c.proto = 0
  <2>1. stored.floors = Updates!MergeFloors(Updates!MergeFloors(a, q), c)
    BY DEF Sound, Updates!Consistent
  <2>2. Updates!PolicyNotBelow(w, stored.floors)
    BY DEF Updates!PolicyNotBelow, Updates!PolicyFloors
  <2>3. w.sv = w.sf /\ a.sv = a.sf /\ q.sv = q.sf /\ c.proto = 0
    BY DEF Updates!PolicyFloors, Updates!ReceiptFloors
  <2> QED BY <2>1, <2>2, <2>3
<1>9. Updates!MergeFloors(stored.floors, w) = Updates!MergeFloors(Updates!MergeFloors(a, w), c) /\ Updates!PolicyNotBelow(w, a)
  <2> HIDE DEF a, q, w, c
  <2> QED BY <1>7, <1>8, MergedAbove
<1>10. Updates!PolicyNotBelow(p, a)
  BY <1>9, Zenon DEF Updates!PolicyNotBelow, Updates!PolicyFloors
<1>11. /\ Updates!Approved(p).policy = p /\ Updates!Approved(p).prev = stored.prev
       /\ Updates!Approved(p).floors = Updates!MergeFloors(stored.floors, w)
  BY DEF Updates!Approved, State
<1>12. Sound(anchor, Updates!Approved(p))
  <2>1. p.rev > anchor.rev
    BY <1>1 DEF Sound, Updates!Consistent, Updates!PolicyType
  <2>2. anchor.rev \in Nat /\ p.rev \in Nat
    BY <1>1 DEF Updates!PolicyType
  <2> HIDE DEF a, w, c
  <2>3. p.rev >= anchor.rev /\ p.rev # anchor.rev
    BY <2>1, <2>2
  <2>4. Updates!Approved(p).floors = Updates!MergeFloors(Updates!MergeFloors(Updates!PolicyFloors(anchor), Updates!PolicyFloors(p)), Updates!ReceiptFloors(stored.prev.c))
    BY <1>9, <1>11 DEF a, w, c
  <2>5. stored.prev.c.issued <= stored.prev.at /\ stored.prev.at < stored.prev.c.expires /\ stored.prev.at <= stored.prev.at
    BY DEF Sound, Updates!Consistent
  <2> QED BY <1>10, <1>11, <2>3, <2>4, <2>5, Zenon DEF Sound, Updates!Consistent, a
<1> QED BY <1>3, <1>6, <1>12

\* A candidate that follows the last receipt makes everything that receipt
\* contributed to the floors redundant.
LEMMA StagingSound ==
    ASSUME Updates!PolicyAssumption, Updates!CandidateAssumption,
           stored \in State, anchor \in Updates!PolicyType, Sound(anchor, stored), NEW r \in UpdatesReceipt,
           Updates!Follows(r.c, stored.prev), r.c.issued <= r.at, r.at < r.c.expires
    PROVE  Updates!Staging(r) \in State /\ Sound(anchor, Updates!Staging(r)) /\ Above(stored, Updates!Staging(r))
<1>1. r.c \in Updates!CandidateType /\ stored.policy \in Updates!PolicyType /\ stored.prev.c \in Updates!CandidateType
  BY FieldTypes DEF State, UpdatesReceipt
<1>2. Updates!Staging(r).floors \in Updates!FloorsType
  BY <1>1 DEF Updates!Staging, State, Updates!MergeFloors, Updates!ReceiptFloors,
     Updates!Max2, Updates!CandidateType, Updates!FloorsType
<1>3. Updates!Staging(r) \in State
  BY <1>2, Zenon DEF Updates!Staging, State
<1>4. Updates!FloorsGeq(Updates!Staging(r).floors, stored.floors)
  BY <1>1 DEF Updates!Staging, State, Updates!FloorsGeq, Updates!MergeFloors,
     Updates!ReceiptFloors, Updates!Max2, Updates!CandidateType, Updates!FloorsType
<1>5. Above(stored, Updates!Staging(r))
  BY <1>1, <1>4 DEF Above, Updates!Staging, State, Updates!PolicyType
<1> DEFINE a == Updates!PolicyFloors(anchor)
           q == Updates!PolicyFloors(stored.policy)
           c == Updates!ReceiptFloors(stored.prev.c)
           w == Updates!ReceiptFloors(r.c)
<1>7. a \in Updates!FloorsType /\ q \in Updates!FloorsType /\ w \in Updates!FloorsType /\ c \in Updates!FloorsType
  BY <1>1, Zenon DEF Updates!PolicyFloors, Updates!ReceiptFloors, Updates!PolicyType,
     Updates!CandidateType, Updates!FloorsType
<1>8. Updates!FloorsGeq(w, c) /\ stored.floors = Updates!MergeFloors(Updates!MergeFloors(a, q), c)
  <2>0. Updates!Follows(r.c, stored.prev)
    OBVIOUS
  <2>1. Updates!FloorsGeq(w, c)
    BY ONLY <1>1, <2>0 DEF Updates!Follows, Updates!ReceiptFloors, Updates!FloorsGeq,
       Updates!CandidateType
  <2>2. stored.floors = Updates!MergeFloors(Updates!MergeFloors(a, q), c)
    BY DEF Sound, Updates!Consistent
  <2> QED BY <2>1, <2>2
<1>9. Updates!MergeFloors(stored.floors, w) = Updates!MergeFloors(Updates!MergeFloors(a, q), w)
  <2> HIDE DEF a, q, w, c
  <2> QED BY <1>7, <1>8, MergedOver
<1>10. /\ Updates!Staging(r).policy = stored.policy /\ Updates!Staging(r).prev = r
       /\ Updates!Staging(r).floors = Updates!MergeFloors(stored.floors, w)
  BY DEF Updates!Staging, State
<1>11. r.at <= r.at
  BY DEF UpdatesReceipt
<1>12. Sound(anchor, Updates!Staging(r))
  BY <1>9, <1>10, <1>11, Zenon DEF Sound, Updates!Consistent
<1> QED BY <1>3, <1>5, <1>12

\* What a receipt covers, every receipt that follows it covers.
LEMMA CoveredOnward ==
    ASSUME NEW c \in Updates!CandidateType, NEW r, NEW q, r.c \in Updates!CandidateType, q.c \in Updates!CandidateType,
           Updates!Covered(c, r), Updates!Follows(q.c, r)
    PROVE  Updates!Covered(c, q)
BY DEF Updates!Covered, Updates!Follows, Updates!CandidateType

-----------------------------------------------------------------------------
(* The commands *)

\* A home without registration satisfies the invariant.
LEMMA InitIInv ==
  ASSUME Updates!PolicyAssumption, Updates!CandidateAssumption, Updates!TimeAssumption
  PROVE  Updates!Init => UpdatesIInv
<1> SUFFICES ASSUME Updates!Init PROVE UpdatesIInv
  OBVIOUS
<1>1. Updates!NewState(Updates!NoPolicy) \in State
  BY NewStateSound, FieldTypes, Zenon DEF Updates!NewState, State, UpdatesReceipt, Updates!NoReceipt
<1>2. Updates!NoReceipt \in UpdatesReceipt
  BY DEF Updates!NoReceipt, UpdatesReceipt
<1> QED BY <1>1, <1>2 DEF Updates!TimeAssumption, Updates!Init, UpdatesIInv, UpdatesTypes,
           Control, Held, Updates!StagedIsCovered

\* Every step of every command keeps the invariant, and is one NeverFalls
\* allows.
LEMMA NextIInv ==
  ASSUME Updates!PolicyAssumption, Updates!CandidateAssumption, Updates!TimeAssumption
  PROVE  UpdatesIInv /\ [Updates!Next]_(Updates!vars) => UpdatesIInv' /\ (Updates!NeverFalls \/ UNCHANGED Updates!vars)
<1> SUFFICES ASSUME UpdatesIInv, [Updates!Next]_(Updates!vars) PROVE UpdatesIInv' /\ (Updates!NeverFalls \/ UNCHANGED Updates!vars)
  OBVIOUS
<1> USE DEF UpdatesIInv, UpdatesTypes, Control
<1>1. Updates!NewState(Updates!NoPolicy) \in State /\ Updates!NoReceipt \in UpdatesReceipt /\ anchor \in Updates!PolicyType
  BY NewStateSound, FieldTypes, Zenon DEF Updates!NewState, State, UpdatesReceipt, Updates!NoReceipt
<1>2. Updates!FloorsGeq(stored.floors, stored.floors) /\ stored.policy.rev >= stored.policy.rev
  BY FieldTypes DEF State, Updates!FloorsGeq, Updates!FloorsType, Updates!PolicyType
\* What a step that only moves the control or the clock keeps
<1>3. ASSUME UNCHANGED <<files, anchor, stored, staged>>
      PROVE  Updates!StagedIsCovered' /\ (files' = "both" => Sound(anchor, stored)') /\ Updates!NeverFalls
  BY <1>2, <1>3, Zenon DEF Updates!StagedIsCovered, Updates!Covered, Sound,
     Updates!Consistent, Updates!NeverFalls
<1>4. CASE \E p \in Policy : Updates!Enroll(p)
  BY <1>4, Zenon DEF Updates!Enroll, Held, Updates!StagedIsCovered, Updates!NeverFalls
<1>5. CASE Updates!EnrollState
  <2>1. files = "anchor" /\ staged = {}
    BY <1>5 DEF Updates!EnrollState
  <2>2. Updates!NewState(anchor) \in State /\ Sound(anchor, Updates!NewState(anchor))
    BY <1>1, NewStateSound DEF Updates!NewState, State
  <2>3. Sound(anchor, stored)'
    BY <1>5, <2>2, Zenon DEF Updates!EnrollState, Sound, Updates!Consistent
  <2> QED BY <1>1, <1>5, <2>1, <2>2, <2>3, Zenon DEF Updates!EnrollState, Updates!Ends,
             Held, Updates!StagedIsCovered, Updates!NeverFalls
<1>6. ASSUME NEW p \in Policy, Updates!Approve(p) PROVE UpdatesIInv' /\ Updates!NeverFalls
  <2>1. files = "both" /\ Sound(anchor, stored)
    BY <1>6 DEF Updates!Approve, Updates!Loads
  <2>2. Updates!Approved(p) \in State /\ Sound(anchor, Updates!Approved(p)) /\ Above(stored, Updates!Approved(p))
    BY <1>1, <1>6, <2>1, ApprovedSound, Zenon DEF Updates!Approve
  <2>3. Sound(anchor, next)' /\ Above(stored, next)'
    BY <1>6, <2>2, Zenon DEF Updates!Approve, Sound, Updates!Consistent, Above,
       Updates!Follows, Updates!FloorsGeq
  <2> QED BY <1>3, <1>6, <2>1, <2>2, <2>3, Zenon DEF Updates!Approve, Held
<1>7. CASE \E c \in Candidate : Updates!Verify(c)
  <2>1. cand' \in UpdatesReceipt /\ cand'.c \in Candidate
    BY <1>7 DEF Updates!Verify, UpdatesReceipt
  <2> QED BY <1>3, <1>7, <2>1, Zenon DEF Updates!Verify, Updates!Loads, Held
<1>8. CASE Updates!VerifyCandidate
  <2>1. /\ cand' \in UpdatesReceipt /\ cand'.c = cand.c /\ cand.c \in Candidate /\ cand'.at = now
        /\ Updates!Follows(cand.c, stored.prev) /\ cand.c.issued <= now /\ now < cand.c.expires
    BY <1>8 DEF Updates!VerifyCandidate, Updates!Verifies, UpdatesReceipt, Held
  <2>2. Updates!Follows(cand.c, stored.prev)'
    BY <1>8, <2>1, Zenon DEF Updates!VerifyCandidate, Updates!Follows
  <2> QED BY <1>3, <1>8, <2>1, <2>2, Zenon DEF Updates!VerifyCandidate, Held
<1>9. CASE Updates!CommitCandidate
  <2>1. /\ files = "both" /\ Sound(anchor, stored) /\ cand.c \in Candidate /\ Updates!Follows(cand.c, stored.prev)
        /\ cand.c.issued <= cand.at /\ cand.at < cand.c.expires
    BY <1>9 DEF Updates!CommitCandidate, Held
  <2>2. Updates!Staging(cand) \in State /\ Sound(anchor, Updates!Staging(cand)) /\ Above(stored, Updates!Staging(cand))
    BY <1>1, <2>1, StagingSound, Zenon
  <2>3. Sound(anchor, next)' /\ Above(stored, next)'
    BY <1>9, <2>2, Zenon DEF Updates!CommitCandidate, Sound, Updates!Consistent, Above,
       Updates!Follows, Updates!FloorsGeq
  <2>4. next'.prev.c = cand.c
    BY <1>9 DEF Updates!CommitCandidate, Updates!Staging, State
  <2> QED BY <1>3, <1>9, <2>1, <2>2, <2>3, <2>4, Zenon DEF Updates!CommitCandidate, Held
<1>10. CASE Updates!WriteState
  <2>1. files = "both" /\ Sound(anchor, next) /\ Above(stored, next)
    BY <1>10 DEF Updates!WriteState, Held
  <2>2. Sound(anchor, stored)'
    BY <1>10, <2>1, Zenon DEF Updates!WriteState, Sound, Updates!Consistent
  <2>3. Updates!StagedIsCovered'
    <3>1. \A c \in staged : Updates!Covered(c, next.prev)
      <4> SUFFICES ASSUME NEW c \in staged PROVE Updates!Covered(c, next.prev)
        OBVIOUS
      <4>1. c \in Updates!CandidateType /\ stored.prev.c \in Updates!CandidateType /\ next.prev.c \in Updates!CandidateType
        BY FieldTypes DEF State, UpdatesReceipt
      <4> QED BY <2>1, <4>1, CoveredOnward, Zenon DEF Updates!StagedIsCovered, Above
    <3> QED BY <1>10, <2>1, <3>1, Zenon DEF Updates!WriteState, Updates!StagedIsCovered,
               Updates!Covered
  <2>4. Updates!NeverFalls
    BY <1>10, <2>1, Zenon DEF Updates!WriteState, Updates!NeverFalls, Above, Updates!FloorsGeq
  <2>5. UpdatesTypes' /\ Control' /\ Held'
    BY <1>1, <1>10, <2>1, Zenon DEF Updates!WriteState, Updates!Ends, Held
  <2> QED BY <2>2, <2>3, <2>4, <2>5
<1>11. CASE Updates!Report
  <2>1. files = "both" /\ stored.prev.c \in Candidate
    BY <1>11 DEF Updates!Report, Held
  <2>2. Updates!Covered(stored.prev.c, stored.prev)
    BY <2>1, FieldTypes DEF Updates!Covered, Updates!CandidateType
  <2>3. Updates!StagedIsCovered'
    BY <1>11, <2>1, <2>2 DEF Updates!Report, Updates!StagedIsCovered, Updates!Covered
  <2>4. Sound(anchor, stored)' /\ Updates!NeverFalls
    BY <1>2, <1>11, <2>1, Zenon DEF Updates!Report, Sound, Updates!Consistent, Updates!NeverFalls
  <2> QED BY <1>1, <1>11, <2>1, <2>3, <2>4, Zenon DEF Updates!Report, Updates!Ends, Held
<1>12. CASE Updates!End
  BY <1>1, <1>3, <1>12, Zenon DEF Updates!End, Updates!Ends, Held
<1>13. CASE Updates!Tick \/ Updates!SetBack
  <2>1. Held'
    BY <1>13, Zenon DEF Updates!Tick, Updates!SetBack, Held, Sound, Updates!Consistent,
       Above, Updates!Follows, Updates!FloorsGeq
  <2>2. UpdatesTypes'
    BY <1>13 DEF Updates!TimeAssumption, Updates!Tick, Updates!SetBack
  <2> QED BY <1>3, <1>13, <2>1, <2>2 DEF Updates!Tick, Updates!SetBack
<1>14. CASE UNCHANGED Updates!vars
  <2>1. Held'
    BY <1>14, Zenon DEF Updates!vars, Held, Sound, Updates!Consistent, Above,
       Updates!Follows, Updates!FloorsGeq
  <2> QED BY <1>3, <1>14, <2>1 DEF Updates!vars
<1> QED BY <1>4, <1>5, <1>6, <1>7, <1>8, <1>9, <1>10, <1>11, <1>12, <1>13, <1>14, Zenon DEF
           Updates!Next

\* The invariant holds in every state a home can be in.
LEMMA AlwaysIInv ==
  ASSUME Updates!PolicyAssumption, Updates!CandidateAssumption, Updates!TimeAssumption
  PROVE  Updates!Spec => []UpdatesIInv
BY InitIInv, NextIInv, PTL DEF Updates!Spec

-----------------------------------------------------------------------------
(* The theorems *)

\* The state keeps its types; what is reported is always a signed candidate,
\* never the nil receipt of a home that staged nothing.
THEOREM TypeCorrect ==
  ASSUME Updates!PolicyAssumption, Updates!CandidateAssumption, Updates!TimeAssumption
  PROVE  Updates!Spec => []Updates!TypeOK
<1>1. UpdatesIInv => Updates!TypeOK
  BY DEF UpdatesIInv, UpdatesTypes, Updates!TypeOK, State, UpdatesReceipt
<1> QED BY <1>1, AlwaysIInv, PTL

\* The client never calls its own state corrupt (load): whatever sequence of
\* approvals and stagings, interrupted anywhere, led to it.
THEOREM StateLoads ==
  ASSUME Updates!PolicyAssumption, Updates!CandidateAssumption, Updates!TimeAssumption
  PROVE  Updates!Spec => []Updates!OwnStateLoads
<1>1. UpdatesIInv => Updates!OwnStateLoads
  <2> SUFFICES ASSUME UpdatesIInv, files = "both" PROVE Updates!Consistent(anchor, stored, Updates!Max2(now, stored.prev.at))
    BY DEF Updates!OwnStateLoads
  <2>1. stored.prev.at \in Nat /\ now \in Nat
    BY DEF Updates!TimeAssumption, UpdatesIInv, UpdatesTypes, State, UpdatesReceipt
  <2>2. stored.prev.at <= Updates!Max2(now, stored.prev.at)
    BY <2>1 DEF Updates!Max2
  <2> QED BY <2>2, Zenon DEF UpdatesIInv, Sound, Updates!Consistent
<1> QED BY <1>1, AlwaysIInv, PTL

\* A candidate reported with a committed watermark stays covered by it: the
\* client stages nothing older afterwards, nor another of the same sequence.
THEOREM WatermarkHolds ==
  ASSUME Updates!PolicyAssumption, Updates!CandidateAssumption, Updates!TimeAssumption
  PROVE  Updates!Spec => []Updates!StagedIsCovered
BY AlwaysIInv, PTL DEF UpdatesIInv

\* Neither the registration, nor the floors, nor the policy's revision is ever
\* taken back (enroll, commit), by any step of any command.
THEOREM WatermarkRises ==
  ASSUME Updates!PolicyAssumption, Updates!CandidateAssumption, Updates!TimeAssumption
  PROVE  Updates!Spec => Updates!NothingIsLost
<1>1. UpdatesIInv /\ [Updates!Next]_(Updates!vars) => [Updates!NeverFalls]_(Updates!vars)
  BY NextIInv
<1> QED BY <1>1, AlwaysIInv, PTL DEF Updates!Spec, Updates!NothingIsLost

\* The candidate on the watermark is accepted again by Verify and by the check
\* before the commit, as far as the policy, its keys and the time allow.
THEOREM RetryHolds ==
  ASSUME Updates!PolicyAssumption, Updates!CandidateAssumption, Updates!TimeAssumption
  PROVE  Updates!Spec => []Updates!RetryAccepted
<1>1. UpdatesIInv => Updates!RetryAccepted
  <2> SUFFICES ASSUME UpdatesIInv, files = "both", stored.prev.c # Updates!NoCandidate,
                      stored.policy.ver <= stored.prev.c.ver, stored.policy.sf <= stored.prev.c.sf,
                      stored.policy.seq <= stored.prev.c.seq, stored.policy.proto <= stored.prev.c.proto,
                      stored.prev.at <= now, now < stored.prev.c.expires
               PROVE  /\ Updates!Max2(stored.policy.proto, stored.floors.proto) <= stored.prev.c.proto
                      /\ stored.prev.c.issued <= now /\ now <= now
                      /\ Updates!NotBelowFloors(stored.prev.c) /\ Updates!Follows(stored.prev.c, stored.prev)
                      /\ stored.prev.c.sv >= stored.floors.sv
    BY Zenon DEF Updates!RetryAccepted, Updates!Verifies, Updates!StillValid, Updates!PolicyFloors
  <2>1. /\ stored.prev.c \in Candidate /\ stored.prev.c \in Updates!CandidateType /\ stored.policy \in Updates!PolicyType
        /\ anchor \in Updates!PolicyType /\ now \in Nat /\ stored.prev.at \in Nat
    BY FieldTypes DEF Updates!TimeAssumption, UpdatesIInv, UpdatesTypes, State, UpdatesReceipt
  <2>2. stored.prev.c.sf <= stored.prev.c.sv
    BY <2>1 DEF Updates!CandidateAssumption
  <2>3. /\ anchor.ver <= stored.policy.ver /\ anchor.proto <= stored.policy.proto
        /\ anchor.seq <= stored.policy.seq /\ anchor.sf <= stored.policy.sf
        /\ stored.policy.ver <= stored.prev.c.ver /\ stored.policy.proto <= stored.prev.c.proto
        /\ stored.policy.seq <= stored.prev.c.seq /\ stored.policy.sf <= stored.prev.c.sf
        /\ stored.prev.c.issued <= stored.prev.at
    BY Zenon DEF UpdatesIInv, Sound, Updates!Consistent, Updates!PolicyNotBelow,
       Updates!PolicyFloors
  <2>4. /\ stored.floors.ver = Updates!Max2(Updates!Max2(anchor.ver, stored.policy.ver), stored.prev.c.ver)
        /\ stored.floors.proto = Updates!Max2(Updates!Max2(anchor.proto, stored.policy.proto), 0)
        /\ stored.floors.seq = Updates!Max2(Updates!Max2(anchor.seq, stored.policy.seq), stored.prev.c.seq)
        /\ stored.floors.sf = Updates!Max2(Updates!Max2(anchor.sf, stored.policy.sf), stored.prev.c.sf)
        /\ stored.floors.sv = Updates!Max2(Updates!Max2(anchor.sf, stored.policy.sf), stored.prev.c.sv)
    <3>1. stored.floors = Updates!MergeFloors(Updates!MergeFloors(Updates!PolicyFloors(anchor), Updates!PolicyFloors(stored.policy)),
                                    Updates!ReceiptFloors(stored.prev.c))
      BY Zenon DEF UpdatesIInv, Sound, Updates!Consistent
    <3> QED BY ONLY <3>1, MergedFields
  <2>5. \A k, l, m \in Nat : \A f : k <= l /\ l <= m /\ f = Updates!Max2(Updates!Max2(k, l), m) => m >= Updates!Max2(l, f) /\ m >= f
    BY DEF Updates!Max2
  <2>6. \A k, l, m \in Nat : \A f : k <= l /\ l <= m /\ f = Updates!Max2(Updates!Max2(k, l), 0) => Updates!Max2(l, f) <= m
    BY DEF Updates!Max2
  <2>7. /\ anchor.ver \in Nat /\ anchor.sf \in Nat /\ anchor.seq \in Nat /\ anchor.proto \in Nat
        /\ stored.policy.ver \in Nat /\ stored.policy.sf \in Nat /\ stored.policy.seq \in Nat /\ stored.policy.proto \in Nat
        /\ stored.prev.c.ver \in Nat /\ stored.prev.c.sf \in Nat /\ stored.prev.c.seq \in Nat
        /\ stored.prev.c.proto \in Nat /\ stored.prev.c.sv \in Nat
    BY ONLY <2>1, Zenon DEF Updates!CandidateType, Updates!PolicyType
  <2>8. /\ Updates!NotBelowFloors(stored.prev.c) /\ stored.prev.c.sv >= stored.floors.sv
        /\ Updates!Max2(stored.policy.proto, stored.floors.proto) <= stored.prev.c.proto
    <3>1. stored.prev.c.ver >= Updates!Max2(stored.policy.ver, stored.floors.ver)
      BY ONLY <2>3, <2>4, <2>5, <2>7
    <3>2. stored.prev.c.sf >= Updates!Max2(stored.policy.sf, stored.floors.sf)
      BY ONLY <2>3, <2>4, <2>5, <2>7
    <3>3. stored.prev.c.seq >= Updates!Max2(stored.policy.seq, stored.floors.seq)
      BY ONLY <2>3, <2>4, <2>5, <2>7
    <3>4. stored.policy.sf <= stored.prev.c.sv
      BY ONLY <2>2, <2>3, <2>7
    <3>5. stored.prev.c.sv >= stored.floors.sv
      BY ONLY <2>3, <2>4, <2>5, <2>7, <3>4
    <3>6. Updates!Max2(stored.policy.proto, stored.floors.proto) <= stored.prev.c.proto
      BY ONLY <2>3, <2>4, <2>6, <2>7, Zenon
    <3> QED BY ONLY <3>1, <3>2, <3>3, <3>5, <3>6, Zenon DEF Updates!NotBelowFloors
  <2>9. Updates!Follows(stored.prev.c, stored.prev)
    BY <2>1 DEF Updates!Follows, Updates!CandidateType
  <2>10. stored.prev.c.issued <= now
    BY <2>1, <2>3 DEF Updates!CandidateType
  <2> QED BY <2>1, <2>8, <2>9, <2>10
<1> QED BY <1>1, AlwaysIInv, PTL
=============================================================================
