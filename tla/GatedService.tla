----------------------------- MODULE GatedService -----------------------------
(***************************************************************************)
(* The hosted device authority in gated mode (hub/internal/deviceapi,      *)
(* service.go runGated and runGatedCycles, proxy_gate.go grantProxy): the  *)
(* gate's control channel is acknowledged closed, the first Tick           *)
(* reconciles every device, the first convergence proof opens the gate for *)
(* a lease, and only then does the API listen.  Every cycle repeats Tick,  *)
(* proof and grant; any failure closes the channel and ends the service.   *)
(*                                                                         *)
(* Time is a clock in units of the cycle interval.  Ages and remaining     *)
(* times are kept instead of instants.  Reconciliation of one device is    *)
(* one step (DeviceAuthority has its details), the control channel is      *)
(* ProxyControl's and here carries a grant or breaks.                      *)
(***************************************************************************)
EXTENDS Integers, FiniteSets, FiniteSetsExt

CONSTANTS Device, Lease, Interval, TickMax, ProofMax, MaxLife

ASSUME GatedAssumption ==
    /\ IsFiniteSet(Device)
    /\ {Lease, Interval, TickMax, ProofMax, MaxLife} \subseteq Nat /\ Lease > 0 /\ Interval > 0

VARIABLES
    desired,   \* device -> "none", "active" or "gone": committed desired state
    applied,   \* devices whose newest generation is recorded as applied
    peer,      \* devices whose peer is in the WireGuard runtime
    life,      \* device -> remaining validity
    stale,     \* device -> time its peer has been installed without authority
    cause,     \* device -> what made the peer stale: "command" or "restart"
    pc, todo,  \* the cycle: its phase, and the devices left in this Tick
    spent,     \* time spent in the phase
    ready,     \* the API is listening
    until,     \* the end of the lease the running grant asks for, relative
    lease      \* remaining lease at the gate; 0 = closed

vars == <<desired, applied, peer, life, stale, cause, pc, todo, spent, ready, until, lease>>
authority == <<desired, applied, peer, life, stale, cause>>

Init ==
    /\ desired = [d \in Device |-> "none"] /\ applied = Device
    /\ peer \in SUBSET Device           \* left by an earlier configuration
    /\ life = [d \in Device |-> 0]
    /\ stale = [d \in Device |-> 0] /\ cause = [d \in Device |-> "restart"]
    /\ pc = "dial" /\ todo = {} /\ spent = 0 /\ ready = FALSE /\ until = 0 /\ lease = 0

Goto(label) == pc' = label /\ spent' = 0

\* control.Close, ctx cancelled, HTTP shut down: the gate closes at once.
EndService == Goto("ended") /\ lease' = 0 /\ ready' = FALSE /\ todo' = {} /\ until' = 0

\* WithProxyConvergence and Submit exclude each other (the authority's fence).
FenceFree == pc # "grant"

\* A command through the API or the local administrator.
Submit(d) ==
    /\ FenceFree
    /\ \/ /\ desired[d] = "none" /\ desired' = [desired EXCEPT ![d] = "active"]
          /\ \E l \in 1..MaxLife : life' = [life EXCEPT ![d] = l]
       \/ /\ desired[d] = "active" /\ desired' = [desired EXCEPT ![d] = "gone"]
          /\ UNCHANGED life
    /\ applied' = applied \ {d}
    /\ cause' = [cause EXCEPT ![d] = "command"] /\ stale' = [stale EXCEPT ![d] = 0]
    /\ UNCHANGED <<peer, pc, todo, spent, ready, until, lease>>

\* WireGuard restarts from an old configuration.
RuntimeRestart ==
    /\ \E p \in SUBSET Device :
          /\ peer' = p
          /\ cause' = [d \in Device |-> IF d \in p \ peer THEN "restart" ELSE cause[d]]
          /\ stale' = [d \in Device |-> IF d \in p THEN stale[d] ELSE 0]
    /\ UNCHANGED <<desired, applied, life, pc, todo, spent, ready, until, lease>>

\* Mutant: the API listens as soon as the control channel is up.
DialListens ==
    /\ pc = "dial" /\ Goto("tick") /\ todo' = {} /\ ready' = TRUE
    /\ UNCHANGED <<authority, until, lease>>

\* gateDial: the receiver acknowledges its policy with the gate closed.
Dial ==
    /\ pc = "dial" /\ Goto("tick") /\ todo' = {}
    /\ UNCHANGED <<authority, ready, until, lease>>

Expired(d) == desired[d] = "active" /\ life[d] = 0

\* Tick: expired devices become revoke work, then every device is reconciled.
BeginTick ==
    /\ pc = "tick" /\ todo = {}
    /\ desired' = [d \in Device |-> IF Expired(d) THEN "gone" ELSE desired[d]]
    /\ applied' = {d \in applied : desired'[d] = desired[d]}
    /\ todo' = Device /\ pc' = "reconcile" /\ spent' = spent
    /\ UNCHANGED <<peer, life, stale, cause, ready, until, lease>>

\* Process, to its result: the runtime has the device's peer exactly if it is authorized.
Processed(d) ==
    /\ ~Expired(d)
    /\ peer' = IF desired[d] = "active" THEN peer \cup {d} ELSE peer \ {d}
    /\ applied' = applied \cup {d} /\ stale' = [stale EXCEPT ![d] = 0]
    /\ UNCHANGED desired

\* expireLocked: Process finds the validity over, perhaps when it has applied the peer.
\* It commits a revocation that a later Tick carries out.
ExpiresMeanwhile(d) ==
    /\ Expired(d)
    /\ desired' = [desired EXCEPT ![d] = "gone"] /\ applied' = applied \ {d}
    /\ peer' \in {peer, peer \cup {d}} /\ UNCHANGED stale

\* Tick goes on with the next device in both cases.
Reconcile(d) ==
    /\ pc = "reconcile" /\ d \in todo /\ todo' = todo \ {d}
    /\ Processed(d) \/ ExpiresMeanwhile(d)
    /\ UNCHANGED <<life, cause, pc, spent, ready, until, lease>>

\* A device that cannot be reconciled, or the end of the cycle's budget.
TickFails ==
    /\ pc = "reconcile" /\ EndService
    /\ UNCHANGED authority

EndTick ==
    /\ pc = "reconcile" /\ todo = {} /\ Goto("prove")
    /\ UNCHANGED <<authority, todo, ready, until, lease>>

Authorized == {d \in Device : desired[d] = "active"}

\* Mutant: the proof trusts what was recorded and does not read the runtime.
ConvergedOnPaper == applied = Device /\ \A d \in Authorized : life[d] > 0

\* WithProxyConvergence: every device applied, exactly the authorized peers in
\* the managed scope, none of them expired.
Converged == applied = Device /\ peer = Authorized /\ \A d \in Authorized : life[d] > 0

\* Mutant: the lease is not cut to the earliest validity.
FullLease == Lease

GrantedLease == Min({Lease} \cup {life[d] : d \in Authorized})

\* The proof is taken and the grant made without leaving the fence.
Prove ==
    /\ pc = "prove"
    /\ IF Converged
       THEN pc' = "grant" /\ UNCHANGED <<spent, lease, ready, todo, until>>
       ELSE EndService
    /\ UNCHANGED authority

\* grantProxy: the end of the lease is an instant from here on; an authority
\* that is about to expire ends the service.
Offer ==
    /\ pc = "grant" /\ until = 0
    /\ IF GrantedLease > 0
       THEN until' = GrantedLease /\ UNCHANGED <<pc, spent, lease, ready, todo>>
       ELSE EndService
    /\ UNCHANGED authority

\* GrantUntil: the gate takes the instant; the API listens after the first.
Grant ==
    /\ pc = "grant" /\ until > 0
    /\ lease' = until /\ until' = 0 /\ ready' = TRUE /\ Goto("wait")
    /\ UNCHANGED <<authority, todo>>

\* The grant is refused, lost or late, or the database changed under it.
GrantFails == pc = "grant" /\ EndService /\ UNCHANGED authority

Wake ==
    /\ pc = "wait" /\ spent = Interval
    /\ Goto("tick") /\ UNCHANGED <<authority, todo, ready, until, lease>>

\* The service manager starts the ended service again.
Restart == pc = "ended" /\ Goto("dial") /\ UNCHANGED <<authority, todo, ready, until, lease>>

Phase == CASE pc = "wait" -> Interval
           [] pc \in {"tick", "reconcile"} -> TickMax
           [] pc \in {"prove", "grant"} -> ProofMax
           [] OTHER -> 1

\* One unit of time.  A grant whose instant passes is too late: GrantFails.
Tick ==
    /\ spent < Phase /\ until # 1
    /\ spent' = spent + 1
    /\ lease' = Max({lease - 1, 0})
    /\ until' = Max({until - 1, 0})
    /\ life' = [d \in Device |-> Max({life[d] - 1, 0})]
    /\ stale' = [d \in Device |->
                    IF d \in peer /\ desired[d] # "active"
                    THEN Min({stale[d] + 1, Lease + ProofMax + 1}) ELSE 0]
    /\ UNCHANGED <<desired, applied, peer, cause, pc, todo, ready>>

Cycle == Dial \/ BeginTick \/ (\E d \in Device : Reconcile(d)) \/ EndTick \/ Prove \/ Offer
         \/ Grant \/ Wake \/ Restart

Next ==
    \/ Cycle \/ TickFails \/ GrantFails \/ Tick \/ RuntimeRestart
    \/ \E d \in Device : Submit(d)

Spec == Init /\ [][Next]_vars

\* No fault: the service cycles, devices come and go by commands.
Quiet == Init /\ [][Cycle \/ Tick \/ \E d \in Device : Submit(d)]_vars

-----------------------------------------------------------------------------
TypeOK ==
    /\ desired \in [Device -> {"none", "active", "gone"}]
    /\ applied \subseteq Device /\ peer \subseteq Device /\ todo \subseteq Device
    /\ life \in [Device -> 0..MaxLife] /\ cause \in [Device -> {"command", "restart"}]
    /\ stale \in [Device -> 0..(Lease + ProofMax + 1)]
    /\ pc \in {"dial", "tick", "reconcile", "prove", "grant", "wait", "ended"}
    /\ spent \in 0..Max({Interval, TickMax, ProofMax, 1})
    /\ ready \in BOOLEAN /\ lease \in 0..Lease /\ until \in 0..Lease

\* A source whose authority was withdrawn by a command is cut off within one
\* lease even when nothing removes its peer; one that a WireGuard restart brings
\* back, within a lease and the time one proof may take, because the proof reads
\* the runtime before the grant fixes its end (grantProxy, WithProxyConvergence).
StaleSourceIsCutOff ==
    \A d \in Device :
        stale[d] > Lease + (IF cause[d] = "restart" THEN ProofMax ELSE 0) => lease = 0

\* The grant never reaches beyond the validity of a device that was authorized
\* when it was made: whatever the delay between proof, grant and receipt, a device
\* installed and applied at the grant expires no earlier than the lease.
LeaseWithinValidity ==
    [][lease' > lease => \A d \in Authorized : lease' <= life[d]]_vars

\* The API starts to listen only when this run of the service has reconciled
\* every device and opened the gate, and the gate is closed whenever the service
\* has ended or is not past its closed acknowledgement (runGated).
ReadyOnlyWhenProven ==
    [][/\ ~ready /\ ready' => applied = Device /\ lease' > 0
       /\ pc' \in {"dial", "ended"} => lease' = 0 /\ ~ready']_vars

\* Without faults a cycle that is short enough renews the lease before it ends:
\* from the first grant on the gate stays open (interval of runGatedCycles),
\* except around the expiry of a device, which ends the lease of all.
StaysOpen == ready /\ (\A d \in Device : desired[d] = "none" \/ life[d] >= Lease) => lease > 0
=============================================================================
