---------------------------- MODULE ProxyBarrier ----------------------------
(***************************************************************************)
(* What the gate of shared/proxygate promises to its control server: one   *)
(* scope with at most one owner, open only under a live lease, in which    *)
(* work is admitted; an invalidated scope drains completely before anybody *)
(* can own it again.  ProxyGate implements it with its admissions as the   *)
(* admitted work and its cleanup task as the drain.                        *)
(***************************************************************************)
CONSTANTS Session, NoOwner, Work

VARIABLES owner, live, draining, admitted

barrierVars == <<owner, live, draining, admitted>>

Init == owner = NoOwner /\ live = FALSE /\ draining = FALSE /\ admitted = {}

Own(s) ==
    /\ ~draining /\ admitted = {} /\ owner \in {NoOwner, s}
    /\ owner' = s /\ live' = FALSE
    /\ UNCHANGED <<draining, admitted>>

Grant(s) ==
    /\ ~draining /\ owner = s
    /\ live' = TRUE
    /\ UNCHANGED <<owner, draining, admitted>>

Expire == live /\ live' = FALSE /\ UNCHANGED <<owner, draining, admitted>>

Admit(w) ==
    /\ ~draining /\ owner # NoOwner /\ live /\ w \notin admitted
    /\ admitted' = admitted \cup {w}
    /\ UNCHANGED <<owner, live, draining>>

Finish(w) ==
    /\ w \in admitted
    /\ admitted' = admitted \ {w}
    /\ UNCHANGED <<owner, live, draining>>

\* The owner loses the scope; whatever is admitted has to drain.
Invalidate ==
    /\ owner' = NoOwner /\ live' = FALSE
    /\ draining' = (draining \/ admitted # {})
    /\ UNCHANGED admitted

Drained ==
    /\ draining
    /\ draining' = FALSE /\ admitted' = {}
    /\ UNCHANGED <<owner, live>>

Next ==
    \/ \E s \in Session : Own(s) \/ Grant(s)
    \/ \E w \in Work : Admit(w) \/ Finish(w)
    \/ Expire \/ Invalidate \/ Drained

Spec == Init /\ [][Next]_barrierVars
=============================================================================
