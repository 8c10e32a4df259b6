---------------------------- MODULE ProcessBudget ----------------------------
(***************************************************************************)
(* The Hub's budget of local subprocesses                                  *)
(* (hub/internal/processbudget): Run takes a seat without queueing, starts *)
(* a helper of the Hub's own binary, and the helper starts the command,    *)
(* ends it when the parent's lifetime pipe closes, reaps every descendant  *)
(* and writes a receipt.  A seat whose cleanup nobody confirmed is never   *)
(* given back.                                                             *)
(*                                                                         *)
(* The callers believe two answers: a failure before the start means that  *)
(* the command did nothing, and a free seat means that nothing runs.       *)
(***************************************************************************)
EXTENDS Naturals, FiniteSets

CONSTANTS Calls,     \* the calls of Run
          Seats,     \* the runner's concurrency
          MaxCrash   \* bound: helpers that die without finishing

SeatsPositive == Seats \in Nat \ {0}
MaxCrashNatural == MaxCrash \in Nat

VARIABLES
  pc,        \* "idle", "seated", "await", "grace" or "returned"
  answer,    \* what Run returned: "none", "before", "ok", "failed", "unknown"
  held,      \* the calls whose seat is not in the channel
  expired,   \* the calls whose bounded context is done
  life,      \* the parent's end of the lifetime pipe is open
  helper,    \* "none", "checked", "polled", "running", "cleaning", "exited" or "dead"
  command,   \* "none", "running", "succeeded", "nonzero" or "gone"
  children,  \* the calls with a detached descendant of the command
  extra,     \* the helper found descendants to reap
  complete,  \* the helper saw the command exit by itself
  receipt,   \* "none", "C0", "C1" or "C2"
  report,    \* the monitor's ownedReport: "none", "unstarted", "ok", "failed", "unverified"
  ran,       \* history: the commands that ran
  crashes    \* the helpers that have died

vars == <<pc, answer, held, expired, life, helper, command, children, extra,
          complete, receipt, report, ran, crashes>>

helperVars == <<helper, command, children, extra, complete, receipt, ran>>

TypeOK ==
  /\ pc \in [Calls -> {"idle", "seated", "await", "grace", "returned"}]
  /\ answer \in [Calls -> {"none", "before", "ok", "failed", "unknown"}]
  /\ held \subseteq Calls /\ expired \subseteq Calls /\ life \subseteq Calls
  /\ helper \in [Calls -> {"none", "checked", "polled", "running",
                           "cleaning", "exited", "dead"}]
  /\ command \in [Calls -> {"none", "running", "succeeded", "nonzero", "gone"}]
  /\ children \subseteq Calls /\ extra \subseteq Calls /\ complete \subseteq Calls
  /\ receipt \in [Calls -> {"none", "C0", "C1", "C2"}]
  /\ report \in [Calls -> {"none", "unstarted", "ok", "failed", "unverified"}]
  /\ ran \subseteq Calls /\ crashes \in 0..MaxCrash

Init ==
  /\ pc = [c \in Calls |-> "idle"]
  /\ answer = [c \in Calls |-> "none"]
  /\ held = {} /\ expired = {} /\ life = {}
  /\ helper = [c \in Calls |-> "none"]
  /\ command = [c \in Calls |-> "none"]
  /\ children = {} /\ extra = {} /\ complete = {}
  /\ receipt = [c \in Calls |-> "none"]
  /\ report = [c \in Calls |-> "none"]
  /\ ran = {} /\ crashes = 0

Alive(c) ==
  \/ helper[c] \in {"checked", "polled", "running", "cleaning"}
  \/ command[c] = "running" \/ c \in children

(***************************************************************************)
(* The call                                                                *)
(***************************************************************************)
Answer(c, a) == /\ pc' = [pc EXCEPT ![c] = "returned"]
                /\ answer' = [answer EXCEPT ![c] = a]

\* The request is cancelled, its deadline passes, or its output overflows.
Expire(c) ==
  /\ pc[c] # "returned" /\ c \notin expired
  /\ expired' = expired \cup {c}
  /\ UNCHANGED <<pc, answer, held, life, report, crashes, helperVars>>

\* Run admits without a queue: a full channel or a done context is a refusal.
Admit(c) ==
  /\ pc[c] = "idle"
  /\ IF c \notin expired /\ Cardinality(held) < Seats
     THEN /\ pc' = [pc EXCEPT ![c] = "seated"]
          /\ held' = held \cup {c}
          /\ UNCHANGED answer
     ELSE Answer(c, "before") /\ UNCHANGED held
  /\ UNCHANGED <<expired, life, report, crashes, helperVars>>

\* No executable, an untrusted binary, no pipes, or Start of the helper fails.
Abandon(c) ==
  /\ pc[c] = "seated"
  /\ Answer(c, "before") /\ held' = held \ {c}
  /\ UNCHANGED <<expired, life, report, crashes, helperVars>>

Spawn(c) ==
  /\ pc[c] = "seated" /\ c \notin expired
  /\ pc' = [pc EXCEPT ![c] = "await"]
  /\ life' = life \cup {c}
  /\ helper' = [helper EXCEPT ![c] = "checked"]
  /\ UNCHANGED <<answer, held, expired, command, children, extra, complete,
                 receipt, report, ran, crashes>>

\* awaitOwned closes the lifetime and grants the cleanup 500 ms.
Cancel(c) ==
  /\ pc[c] = "await" /\ c \in expired
  /\ pc' = [pc EXCEPT ![c] = "grace"]
  /\ life' = life \ {c}
  /\ UNCHANGED <<answer, held, expired, report, crashes, helperVars>>

\* The grace is over: the answer is unknown and the seat stays taken.
GraceEnds(c) ==
  /\ pc[c] = "grace"
  /\ Answer(c, "unknown")
  /\ UNCHANGED <<held, expired, life, report, crashes, helperVars>>

\* What Run makes of a report, and whether the cleanup is verified.
Classify(c) ==
  CASE report[c] = "unverified" -> "unknown"
    [] report[c] = "unstarted"  -> "before"
    [] report[c] = "ok" /\ c \notin expired -> "ok"
    [] OTHER -> "failed"

Return(c) ==
  /\ pc[c] \in {"await", "grace"} /\ report[c] # "none"
  /\ Answer(c, Classify(c))
  /\ held' = IF Classify(c) = "unknown" THEN held ELSE held \ {c}
  /\ UNCHANGED <<expired, life, report, crashes, helperVars>>

(***************************************************************************)
(* The helper process                                                      *)
(***************************************************************************)
HelperKeeps == UNCHANGED <<pc, answer, held, expired, life, report, crashes>>

\* A helper whose own checks fail exits without a receipt.
HelperRefuses(c) ==
  /\ helper[c] = "checked"
  /\ helper' = [helper EXCEPT ![c] = "exited"]
  /\ UNCHANGED <<command, children, extra, complete, receipt, ran>> /\ HelperKeeps

\* The last look at the lifetime pipe before the command is started.
HelperPolls(c) ==
  /\ helper[c] = "checked"
  /\ IF c \in life
     THEN helper' = [helper EXCEPT ![c] = "polled"] /\ UNCHANGED receipt
     ELSE /\ helper' = [helper EXCEPT ![c] = "exited"]
          /\ receipt' = [receipt EXCEPT ![c] = "C2"]
  /\ UNCHANGED <<command, children, extra, complete, ran>> /\ HelperKeeps

HelperStarts(c) ==
  /\ helper[c] = "polled"
  /\ helper' = [helper EXCEPT ![c] = "running"]
  /\ command' = [command EXCEPT ![c] = "running"]
  /\ ran' = ran \cup {c}
  /\ UNCHANGED <<children, extra, complete, receipt>> /\ HelperKeeps

HelperCannotStart(c) ==
  /\ helper[c] = "polled"
  /\ helper' = [helper EXCEPT ![c] = "exited"]
  /\ receipt' = [receipt EXCEPT ![c] = "C2"]
  /\ UNCHANGED <<command, children, extra, complete, ran>> /\ HelperKeeps

\* The command exited, the lifetime closed or the helper's own deadline passed,
\* and select takes any of those that are ready: the command is killed and waited
\* for.
HelperEnds(c) ==
  /\ helper[c] = "running"
  /\ helper' = [helper EXCEPT ![c] = "cleaning"]
  /\ \/ /\ command[c] \in {"succeeded", "nonzero"}
        /\ complete' \in {complete, complete \cup {c}} /\ UNCHANGED command
     \/ /\ command[c] = "running"
        /\ command' = [command EXCEPT ![c] = "gone"] /\ UNCHANGED complete
  /\ UNCHANGED <<children, extra, receipt, ran>> /\ HelperKeeps

HelperReaps(c) ==
  /\ helper[c] = "cleaning" /\ c \in children
  /\ children' = children \ {c} /\ extra' = extra \cup {c}
  /\ UNCHANGED <<helper, command, complete, receipt, ran>> /\ HelperKeeps

HelperCertifies(c) ==
  /\ helper[c] = "cleaning" /\ c \notin children
  /\ helper' = [helper EXCEPT ![c] = "exited"]
  /\ receipt' = [receipt EXCEPT ![c] =
       IF c \in complete /\ command[c] = "succeeded" /\ c \notin extra
       THEN "C0" ELSE "C1"]
  /\ UNCHANGED <<command, children, extra, complete, ran>> /\ HelperKeeps

\* The helper is killed; its children go on.
HelperDies(c) ==
  /\ helper[c] \in {"checked", "polled", "running", "cleaning"}
  /\ crashes < MaxCrash /\ crashes' = crashes + 1
  /\ helper' = [helper EXCEPT ![c] = "dead"]
  /\ UNCHANGED <<command, children, extra, complete, receipt, ran>>
  /\ UNCHANGED <<pc, answer, held, expired, life, report>>

\* The command of the call: it may leave a detached descendant, and it exits.
CommandForks(c) ==
  /\ command[c] = "running" /\ c \notin children /\ c \notin extra
  /\ children' = children \cup {c}
  /\ UNCHANGED <<helper, command, extra, complete, receipt, ran>> /\ HelperKeeps

CommandExits(c) ==
  /\ command[c] = "running"
  /\ \E status \in {"succeeded", "nonzero"} :
       command' = [command EXCEPT ![c] = status]
  /\ UNCHANGED <<helper, children, extra, complete, receipt, ran>> /\ HelperKeeps

\* The Hub's monitor: waits for the helper, kills its process group, reads the
\* receipt.  A detached descendant of a dead helper is out of its reach.
Monitor(c) ==
  /\ helper[c] \in {"exited", "dead"} /\ report[c] = "none"
  /\ command' = [command EXCEPT ![c] = IF @ = "running" THEN "gone" ELSE @]
  /\ report' = [report EXCEPT ![c] =
       CASE receipt[c] = "none" -> "unverified"
         [] receipt[c] = "C2"   -> "unstarted"
         [] receipt[c] = "C0" /\ c \notin expired -> "ok"
         [] OTHER -> "failed"]
  /\ UNCHANGED <<pc, answer, held, expired, life, helper, children, extra,
                 complete, receipt, ran, crashes>>

Next == \E c \in Calls :
  \/ Expire(c) \/ Admit(c) \/ Abandon(c) \/ Spawn(c) \/ Cancel(c)
  \/ GraceEnds(c) \/ Return(c)
  \/ HelperRefuses(c) \/ HelperPolls(c) \/ HelperStarts(c) \/ HelperCannotStart(c)
  \/ HelperEnds(c) \/ HelperReaps(c) \/ HelperCertifies(c) \/ HelperDies(c)
  \/ CommandForks(c) \/ CommandExits(c) \/ Monitor(c)

Spec == Init /\ [][Next]_vars

(***************************************************************************)
(* Fairness: the deadline of the bounded context passes, timers fire and   *)
(* the Hub's goroutines run.  The command owes nothing: it may hang and    *)
(* fork.  A helper is a process of its own, scheduled unless it is stuck   *)
(* in the kernel.                                                          *)
(***************************************************************************)
HubFairness == \A c \in Calls :
  /\ WF_vars(Expire(c)) /\ WF_vars(Abandon(c) \/ Spawn(c)) /\ WF_vars(Cancel(c))
  /\ WF_vars(GraceEnds(c) \/ Return(c)) /\ WF_vars(Monitor(c))

HelperFairness == \A c \in Calls :
  /\ WF_vars(HelperPolls(c) \/ HelperRefuses(c))
  /\ WF_vars(HelperStarts(c) \/ HelperCannotStart(c))
  /\ WF_vars(HelperEnds(c)) /\ WF_vars(HelperReaps(c)) /\ WF_vars(HelperCertifies(c))

FairSpec == Spec /\ HubFairness

(***************************************************************************)
(* Properties                                                              *)
(***************************************************************************)
\* BeforeStart(err) is a proof: when Run answers that it failed before the
\* start, the command never ran and no step can run it any more.  The callers
\* roll a token claim or a rotation lock back on the strength of it.
BeforeStartIsProof == \A c \in Calls :
  answer[c] = "before" => c \notin ran /\ ~Alive(c)

\* A seat given back means that nothing of that call is left: no helper, no
\* command and no descendant, detached ones and dead helpers included; so at
\* most Seats commands are ever alive.
FreedSeatIsQuiet ==
  /\ \A c \in Calls : pc[c] = "returned" /\ c \notin held => ~Alive(c)
  /\ Cardinality({c \in Calls : Alive(c)}) <= Seats

\* Run's success: the command ran to exit status zero by itself, and left nothing.
SuccessIsComplete == \A c \in Calls :
  answer[c] = "ok" => command[c] = "succeeded" /\ c \notin extra /\ ~Alive(c)

\* A seat stays taken after the answer only when the answer is unknown
\* (a seat is not lost to a refusal, a failure or a success).
OnlyUnknownQuarantines == \A c \in Calls :
  pc[c] = "returned" /\ c \in held => answer[c] = "unknown"

\* Every admitted call returns, whatever its command and its helper do.
CallsReturn == \A c \in Calls : pc[c] # "idle" ~> pc[c] = "returned"

\* Returning does not abandon the processes: they end, unless the helper died
\* (then a detached descendant may stay, and its seat with it).
ProcessesEnd == HelperFairness =>
  \A c \in Calls : pc[c] = "returned" ~> (~Alive(c) \/ helper[c] = "dead")
=============================================================================
