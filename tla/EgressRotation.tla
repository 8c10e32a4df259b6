---------------------------- MODULE EgressRotation ----------------------------
(***************************************************************************)
(* Changing the public address of the phone egress.  Clients and the       *)
(* console ask the Hub (hub/internal/auth), which reserves the egress and  *)
(* runs a script on the phone over SSH; the script detaches itself, turns  *)
(* the radio off, sleeps and turns it on again                             *)
(* (egress/android-control/rotate-ip.sh).  The command line can also reach *)
(* the phone directly.  The connection may be lost at any point, a command *)
(* that was delivered may run late, and the Hub may restart.               *)
(***************************************************************************)
EXTENDS Naturals, FiniteSets

CONSTANTS Requests,   \* requests for a rotation, of clients and administrators
          Direct,     \* those of them that bypass the Hub
          Downs,      \* the down times they ask for
          Waits,      \* the times they wait for the new address
          Extra,      \* rotateLockExtra: 45 s unless configured, 0 is allowed
          SshTime,    \* the longest a trigger may take: 18 s
          Margin,     \* what the command line adds to the down time: 10 s
          Interval,   \* between two looks at the address: 5 s
          OffMayFail, \* the phone may refuse to turn the radio on again
          MaxTime,    \* bound: the clock
          MaxRestart  \* bound: restarts of the Hub

PositiveTimes == \A d \in Downs \cup Waits : d \in Nat \ {0}
Constants ==
  /\ IsFiniteSet(Requests) /\ {Extra, SshTime, Margin, Interval} \subseteq Nat
  /\ MaxTime \in Nat /\ MaxRestart \in Nat

VARIABLES
  now,
  lock,      \* rotateLocks[egress], or NoLock
  req,       \* the requests and the command that made each
  job,       \* the script of each request on the phone
  airplane,  \* the radio is off
  address,   \* how often the radio has registered again
  life       \* which run of the Hub this is, from 1

vars == <<now, lock, req, job, airplane, address, life>>

NoLock == [started |-> 0, until |-> 0, unknown |-> FALSE, inflight |-> FALSE]
Unavailable == Cardinality(Requests) + 1

\* The lock is in flight exactly while a trigger of this Hub runs.
TypeOK ==
  /\ now \in 0..MaxTime /\ airplane \in BOOLEAN /\ life \in 1..MaxRestart + 1
  /\ address \in 0..Cardinality(Requests)
  /\ lock \in [started : 0..MaxTime, until : 0..MaxTime, unknown : BOOLEAN, inflight : BOOLEAN]
  /\ lock.inflight <=> \E r \in Requests \ Direct : req[r].pc = "ssh"
  /\ req \in [Requests -> [pc : {"idle", "ssh", "answered", "waiting", "done", "unknown"}, down : Downs \cup {0},
                           wait : Waits \cup {0}, begun : 0..MaxTime, life : 0..MaxRestart + 1,
                           next : 0..2 * MaxTime, deadline : 0..2 * MaxTime,
                           before : 0..Unavailable, after : 0..Unavailable]]
  /\ job \in [Requests -> [state : {"none", "sent", "queued", "down", "done"},
                           due : 0..MaxTime, took : BOOLEAN]]

Init ==
  /\ now = 0 /\ lock = NoLock /\ airplane = FALSE /\ address = 0 /\ life = 1
  /\ req = [r \in Requests |-> [pc |-> "idle", down |-> 0, wait |-> 0, begun |-> 0, life |-> 0,
                                next |-> 0, deadline |-> 0, before |-> 0, after |-> Unavailable]]
  /\ job = [r \in Requests |-> [state |-> "none", due |-> 0, took |-> FALSE]]

\* publicIPOrUnavailable: a look through the proxy, which fails while the radio is off
\* and may fail for a while after.
Looks == IF airplane THEN {Unavailable} ELSE {address, Unavailable}

\* An address seen before the request, its down time and its patience.
Asked(r, d, w, ip) ==
  [req[r] EXCEPT !.pc = "ssh", !.down = d, !.wait = w, !.begun = now, !.before = ip,
                 !.life = IF r \in Direct THEN 0 ELSE life]

(***************************************************************************)
(* The lock of the egress                                                  *)
(***************************************************************************)
\* tryBeginRotate: an unknown outcome never expires, a finished one after its hold.
Held == lock # NoLock /\ (lock.unknown \/ lock.inflight \/ now < lock.until)

\* The lock a request took, as it remembers it.
Mine(r) == lock.started = req[r].begun /\ lock.until = req[r].begun + req[r].down + Extra

FinishRotate(r, unknown) ==
  lock' = IF lock # NoLock /\ Mine(r) THEN [lock EXCEPT !.inflight = FALSE, !.unknown = unknown] ELSE lock

ReleaseRotate(r) == lock' = IF Mine(r) THEN NoLock ELSE lock

(***************************************************************************)
(* The Hub: rotateIP and the console's handleRotateIP over RotateEgress    *)
(***************************************************************************)
Begin(r, d, w) ==
  /\ r \notin Direct /\ req[r].pc = "idle" /\ ~Held
  /\ now + SshTime + d + Extra <= MaxTime
  /\ lock' = [started |-> now, until |-> now + d + Extra, unknown |-> FALSE, inflight |-> TRUE]
  /\ \E ip \in Looks : req' = [req EXCEPT ![r] = Asked(r, d, w, ip)]
  /\ UNCHANGED <<now, job, airplane, address, life>>

\* A method, an address, a body, a down time, a token or an egress the Hub does not take.
Refused(r) ==
  /\ r \notin Direct /\ req[r].pc = "idle"
  /\ req' = [req EXCEPT ![r].pc = "done"]
  /\ UNCHANGED <<now, lock, job, airplane, address, life>>

Busy(r) ==
  /\ r \notin Direct /\ req[r].pc = "idle" /\ Held
  /\ req' = [req EXCEPT ![r].pc = "done"]
  /\ UNCHANGED <<now, lock, job, airplane, address, life>>

\* No seat, no key, no program: the trigger proves that nothing started.
RefusedBeforeStart(r) ==
  /\ r \notin Direct /\ req[r].pc = "ssh" /\ job[r].state = "none"
  /\ ReleaseRotate(r)
  /\ req' = [req EXCEPT ![r].pc = "done"]
  /\ UNCHANGED <<now, job, airplane, address, life>>

\* The trigger failed, or its context had ended: nobody knows what the phone will do.
FailedAfterStart(r) ==
  /\ r \notin Direct /\ req[r].pc = "ssh"
  /\ FinishRotate(r, TRUE)
  /\ req' = [req EXCEPT ![r].pc = "unknown"]
  /\ UNCHANGED <<now, job, airplane, address, life>>

\* waitForPublicIP: how long the command sleeps before it looks.
InitialDelay(r) == IF req[r].down + Margin > req[r].wait THEN req[r].wait ELSE req[r].down + Margin

Waiting(r) ==
  [req[r] EXCEPT !.pc = "waiting", !.next = now + InitialDelay(r), !.deadline = now + req[r].wait]

Triggered(r) ==
  /\ r \notin Direct /\ req[r].pc = "ssh" /\ job[r].state \notin {"none", "sent"}
  /\ FinishRotate(r, FALSE)
  /\ req' = [req EXCEPT ![r].pc = "answered"]
  /\ UNCHANGED <<now, job, airplane, address, life>>

\* The answer reaches a client, which starts to wait; or it was the console that asked, or
\* the answer is lost, and nobody looks at the address.
Answered(r) ==
  /\ req[r].pc = "answered"
  /\ req' = [req EXCEPT ![r] = Waiting(r)]
  /\ UNCHANGED <<now, lock, job, airplane, address, life>>

NobodyLooks(r) ==
  /\ req[r].pc = "answered"
  /\ req' = [req EXCEPT ![r].pc = "done"]
  /\ UNCHANGED <<now, lock, job, airplane, address, life>>

\* The locks are in memory.
Restart ==
  /\ life <= MaxRestart /\ life' = life + 1 /\ lock' = NoLock
  /\ req' = [r \in Requests |->
       IF r \notin Direct /\ req[r].pc = "ssh" THEN [req[r] EXCEPT !.pc = "unknown"] ELSE req[r]]
  /\ UNCHANGED <<now, job, airplane, address>>

(***************************************************************************)
(* The command line: performRotate without the Hub, waitForPublicIP        *)
(***************************************************************************)
DirectBegin(r, d, w) ==
  /\ r \in Direct /\ req[r].pc = "idle" /\ now + SshTime + d <= MaxTime
  /\ \E ip \in Looks : req' = [req EXCEPT ![r] = Asked(r, d, w, ip)]
  /\ UNCHANGED <<now, lock, job, airplane, address, life>>

DirectEnds(r) ==
  /\ r \in Direct /\ req[r].pc = "ssh"
  /\ \/ req' = [req EXCEPT ![r].pc = "done"]
     \/ /\ job[r].state \notin {"none", "sent"}
        /\ req' = [req EXCEPT ![r] = Waiting(r)]
  /\ UNCHANGED <<now, lock, job, airplane, address, life>>

\* One turn of the loop, with its last look when there is no time for another sleep.
Look(r) ==
  /\ req[r].pc = "waiting" /\ now >= req[r].next
  /\ \E ip \in Looks, last \in Looks :
       req' = [req EXCEPT ![r] =
         IF ip # Unavailable THEN [@ EXCEPT !.pc = "done", !.after = ip]
         ELSE IF now + Interval > req[r].deadline THEN [@ EXCEPT !.pc = "done", !.after = last]
         ELSE [@ EXCEPT !.next = now + Interval]]
  /\ UNCHANGED <<now, lock, job, airplane, address, life>>

(***************************************************************************)
(* The phone: the SSH service and rotate-ip.sh                             *)
(***************************************************************************)
\* The command leaves for the phone.
Send(r) ==
  /\ req[r].pc = "ssh" /\ job[r].state = "none"
  /\ job' = [job EXCEPT ![r].state = "sent"]
  /\ UNCHANGED <<now, lock, req, airplane, address, life>>

\* It arrives, perhaps after the one who sent it gave up; the script detaches and answers.
Dispatch(r) ==
  /\ job[r].state = "sent"
  /\ job' = [job EXCEPT ![r].state = "queued"]
  /\ UNCHANGED <<now, lock, req, airplane, address, life>>

Lost(r) ==
  /\ job[r].state = "sent" /\ req[r].pc # "ssh"
  /\ job' = [job EXCEPT ![r].state = "none"]
  /\ UNCHANGED <<now, lock, req, airplane, address, life>>

\* The detached shell runs when the phone lets it, soon or late.
RadioOff(r) ==
  /\ job[r].state = "queued" /\ now + req[r].down <= MaxTime
  /\ \E ok \in BOOLEAN :
       /\ job' = [job EXCEPT ![r] = [state |-> "down", due |-> now + req[r].down, took |-> ok]]
       /\ airplane' = (airplane \/ ok)
  /\ UNCHANGED <<now, lock, req, address, life>>

RadioOn(r) ==
  /\ job[r].state = "down" /\ now >= job[r].due
  /\ job' = [job EXCEPT ![r].state = "done"]
  /\ \/ /\ airplane' = FALSE
        /\ address' = IF airplane THEN address + 1 ELSE address
     \/ OffMayFail /\ UNCHANGED <<airplane, address>>
  /\ UNCHANGED <<now, lock, req, life>>

\* A trigger ends within its time; nothing bounds the delays on the phone.
Tick ==
  /\ now < MaxTime
  /\ \A r \in Requests : req[r].pc = "ssh" => now < req[r].begun + SshTime
  /\ now' = now + 1
  /\ UNCHANGED <<lock, req, job, airplane, address, life>>

Next ==
  \/ Tick \/ Restart
  \/ \E r \in Requests, d \in Downs, w \in Waits : Begin(r, d, w) \/ DirectBegin(r, d, w)
  \/ \E r \in Requests :
       \/ Refused(r) \/ Busy(r) \/ RefusedBeforeStart(r) \/ FailedAfterStart(r) \/ Triggered(r)
       \/ Answered(r) \/ NobodyLooks(r) \/ DirectEnds(r) \/ Look(r)
       \/ Send(r) \/ Dispatch(r) \/ Lost(r) \/ RadioOff(r) \/ RadioOn(r)

Spec == Init /\ [][Next]_vars

\* Time passes, a trigger ends within its time, and the phone keeps running its shell.
FairSpec ==
  /\ Spec /\ WF_vars(Tick)
  /\ \A r \in Requests :
       /\ WF_vars(FailedAfterStart(r)) /\ WF_vars(DirectEnds(r))
       /\ WF_vars(RadioOff(r)) /\ WF_vars(RadioOn(r)) /\ WF_vars(Look(r))

(***************************************************************************)
(* Properties                                                              *)
(***************************************************************************)
\* A rotation of this run of the Hub is on its way to the phone or under way on it.
Running(r) == req[r].life = life /\ job[r].state \in {"sent", "queued", "down"}

\* tryBeginRotate grants the egress only while every rotation the running Hub triggered
\* and that can still act on the phone was acknowledged by the phone and is overdue, its
\* down time and the margin of the lock having passed since it began.  One whose trigger
\* is under way, or whose outcome is unknown, is never overtaken, whatever became of the
\* SSH connection and of the locks taken and released since.
FreeMeansOverdue ==
  ~Held => \A r \in Requests : Running(r) =>
    /\ req[r].pc \in {"answered", "waiting", "done"} /\ job[r].state # "sent"
    /\ now >= req[r].begun + req[r].down + Extra

\* Once the radio has obeyed a script, the address its command line prints as the one
\* after the rotation was given to the phone after the one it printed as the one before,
\* whatever --wait-seconds says and however many rotations overlap.
AfterIsAfter ==
  [][\A r \in Requests :
       /\ req'[r].after # req[r].after /\ req'[r].after # Unavailable
       /\ job[r].took /\ req[r].before # Unavailable
       => req'[r].after > req[r].before]_vars

\* rotate-ip.sh detaches so that the radio comes back even if the SSH session, the client
\* or the Hub goes away while it is off.
RadioReturns == airplane ~> ~airplane
=============================================================================
