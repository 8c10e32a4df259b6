------------------------------ MODULE ProxySlots ------------------------------
(***************************************************************************)
(* The limits on concurrent CONNECT tunnels of the egress server           *)
(* (egress/reverse, main.go: acquireProxySlot, preemptIdleProxySlotLocked, *)
(* handleProxy, pipeBothMeasured): a global and a per-client limit, and    *)
(* the preemption of idle tunnels when a limit is reached.                 *)
(*                                                                         *)
(* One step is one critical section of activeProxyMu or one event of a     *)
(* tunnel outside it.  Ages are in units of time and stop at PreemptIdle,  *)
(* past which they are not told apart.  Peaks and counters of preemptions  *)
(* are diagnostics and left out; which of two equally old tunnels goes is  *)
(* a free choice, as in the iteration over a map.                          *)
(***************************************************************************)
EXTENDS Integers, FiniteSets

CONSTANTS
    Conn,            \* CONNECT requests
    Peer, PeerOf(_), \* clients, and the client of a request
    MaxConns, MaxPeer,
    PreemptIdle      \* proxyPreemptIdle; 0 disables preemption

\* Every request has its client, and a limit of 0 is no limit.
SlotConstants ==
    /\ \A c \in Conn : PeerOf(c) \in Peer
    /\ MaxConns \in Nat /\ MaxPeer \in Nat

VARIABLES
    pc,        \* request -> "idle", "setup", "attached", "piping", "striped"
    age,       \* request -> time since lastActive was stored
    quiet,     \* request -> time since its piping began or last carried bytes
    closer,    \* slots whose closer is set: these can be preempted
    slots,     \* activeProxySlots
    total, byPeer, \* activeProxyConns, activeProxyByPeer
    dying,     \* preempted slots whose closer goroutine has not run
    open       \* requests whose two connections are open

vars == <<pc, age, quiet, closer, slots, total, byPeer, dying, open>>
counts == <<slots, total, byPeer>>

Init ==
    /\ pc = [c \in Conn |-> "idle"] /\ age = [c \in Conn |-> 0] /\ quiet = [c \in Conn |-> 0]
    /\ closer = {} /\ slots = {} /\ total = 0 /\ byPeer = [p \in Peer |-> 0]
    /\ dying = {} /\ open = {}

Set(f, c, v) == [f EXCEPT ![c] = v]

\* State of the counters, and what releasing a slot makes of it.  A slot that
\* was released before is left alone (slot.released).
Counts == [slots |-> slots, total |-> total, byPeer |-> byPeer]

Released(k, c) ==
    IF c \notin k.slots THEN k
    ELSE [slots |-> k.slots \ {c},
          total |-> IF k.total > 0 THEN k.total - 1 ELSE 0,
          byPeer |-> [k.byPeer EXCEPT ![PeerOf(c)] = IF @ <= 1 THEN 0 ELSE @ - 1]]

\* The slots a preemption may take, from the given clients: piping, idle for
\* long enough, and none idle for longer.
Victims(k, peers) ==
    LET idle == {c \in k.slots \cap closer : PeerOf(c) \in peers /\ age[c] >= PreemptIdle}
    IN  IF PreemptIdle = 0 THEN {} ELSE {c \in idle : \A d \in idle : age[d] <= age[c]}

\* One limit: the ways to pass it, each with its victim, or none.
Passes(k, full, peers) ==
    IF full THEN {<<Released(k, c), {c}>> : c \in Victims(k, peers)} ELSE {<<k, {}>>}

CountSlot(k, c) ==
    [slots |-> k.slots \cup {c}, total |-> k.total + 1,
     byPeer |-> [k.byPeer EXCEPT ![PeerOf(c)] = @ + 1]]

SetCounts(k) == slots' = k.slots /\ total' = k.total /\ byPeer' = k.byPeer

GlobalFull(k) == MaxConns > 0 /\ k.total >= MaxConns
PeerFull(k, c) == MaxPeer > 0 /\ k.byPeer[PeerOf(c)] >= MaxPeer

\* acquireProxySlot, one critical section: the global limit, then the client's.
\* A victim of the first limit is gone even when the second one refuses.
Acquire(c) ==
    /\ pc[c] = "idle" /\ c \notin dying
    /\ \/ /\ Passes(Counts, GlobalFull(Counts), Peer) = {}      \* proxy busy
          /\ UNCHANGED <<pc, age, counts, dying>>
       \/ \E g \in Passes(Counts, GlobalFull(Counts), Peer) :
          LET second == Passes(g[1], PeerFull(g[1], c), {PeerOf(c)}) IN
          \/ /\ second = {}                                     \* proxy busy for client
             /\ SetCounts(g[1]) /\ dying' = dying \cup g[2]
             /\ UNCHANGED <<pc, age>>
          \/ \E h \in second :
             /\ SetCounts(CountSlot(h[1], c)) /\ dying' = dying \cup g[2] \cup h[2]
             /\ pc' = Set(pc, c, "setup") /\ age' = Set(age, c, 0)
    /\ UNCHANGED <<quiet, closer, open>>

\* defer slot.release(): resolving, the CONNECT command or the hijack failed.
SetupFails(c) ==
    /\ pc[c] = "setup" /\ pc' = Set(pc, c, "idle") /\ SetCounts(Released(Counts, c))
    /\ UNCHANGED <<age, quiet, closer, dying, open>>

\* A striped CONNECT relays without attaching its slot.
RelayStriped(c) ==
    /\ pc[c] = "setup" /\ pc' = Set(pc, c, "striped") /\ open' = open \cup {c}
    /\ quiet' = Set(quiet, c, 0)
    /\ UNCHANGED <<age, closer, counts, dying>>

\* slot.attach: the closer is set under the lock ...
Attach(c) ==
    /\ pc[c] = "setup" /\ pc' = Set(pc, c, "attached") /\ open' = open \cup {c}
    /\ closer' = closer \cup {c} /\ quiet' = Set(quiet, c, 0)
    /\ UNCHANGED <<age, counts, dying>>

\* ... and the time of the last activity is stored after the lock is released.
AttachTouch(c) ==
    /\ pc[c] = "attached" /\ pc' = Set(pc, c, "piping") /\ age' = Set(age, c, 0)
    /\ UNCHANGED <<quiet, closer, counts, dying, open>>

\* copyWithActivity: bytes read and written, then slot.touch.
Relay(c) ==
    /\ pc[c] = "piping" /\ c \in open
    /\ age' = Set(age, c, 0) /\ quiet' = Set(quiet, c, 0)
    /\ UNCHANGED <<pc, closer, counts, dying, open>>

\* closeBoth: an end of the tunnel, a failed write, the idle reaper or the gate.
PipeCloses(c) ==
    /\ c \in open /\ open' = open \ {c}
    /\ UNCHANGED <<pc, age, quiet, closer, counts, dying>>

\* go victim.closer()
RunCloser(c) ==
    /\ c \in dying /\ dying' = dying \ {c} /\ open' = open \ {c}
    /\ UNCHANGED <<pc, age, quiet, closer, counts>>

\* Both copies have returned: the metric is recorded and the slot released.
Finish(c) ==
    /\ pc[c] \in {"piping", "striped"} /\ c \notin open
    /\ pc' = Set(pc, c, "idle") /\ SetCounts(Released(Counts, c))
    /\ closer' = closer \ {c} /\ age' = Set(age, c, 0) /\ quiet' = Set(quiet, c, 0)
    /\ UNCHANGED <<dying, open>>

Older(f) == [c \in Conn |-> IF pc[c] # "idle" /\ f[c] < PreemptIdle THEN f[c] + 1 ELSE f[c]]
Tick ==
    /\ age' = Older(age) /\ quiet' = Older(quiet)
    /\ UNCHANGED <<pc, closer, counts, dying, open>>

Next ==
    \/ \E c \in Conn :
         \/ Acquire(c) \/ SetupFails(c) \/ RelayStriped(c) \/ Attach(c) \/ AttachTouch(c)
         \/ Relay(c) \/ PipeCloses(c) \/ RunCloser(c) \/ Finish(c)
    \/ Tick

Spec == Init /\ [][Next]_vars
FairSpec == Spec /\ \A c \in Conn :
               WF_vars(RunCloser(c)) /\ WF_vars(AttachTouch(c)) /\ WF_vars(Finish(c))

-----------------------------------------------------------------------------
TypeOK ==
    /\ pc \in [Conn -> {"idle", "setup", "attached", "piping", "striped"}]
    /\ age \in [Conn -> 0..PreemptIdle] /\ quiet \in [Conn -> 0..PreemptIdle]
    /\ closer \subseteq Conn /\ dying \subseteq Conn /\ open \subseteq Conn

\* The counters the limits compare are the number of slots, in all and by
\* client, although a preempted slot is released twice, by the preemption and
\* by its own handler (releaseProxySlotLocked).
CountsExact ==
    /\ total = Cardinality(slots)
    /\ \A p \in Peer : byPeer[p] = Cardinality({c \in slots : PeerOf(c) = p})

\* Whatever is preempted, the limits bound the tunnels that really run: every
\* tunnel with open connections is counted, or its closer is about to run.
LimitsBoundOpenTunnels ==
    /\ open \subseteq slots \cup dying
    /\ MaxConns > 0 => Cardinality(open \ dying) <= MaxConns
    /\ MaxPeer > 0 => \A p \in Peer : Cardinality({c \in open \ dying : PeerOf(c) = p}) <= MaxPeer

\* A tunnel whose slot was given away ends: its handler returns.
VictimsEnd == \A c \in Conn : c \in dying ~> pc[c] = "idle"

\* README: 429 is returned only when no session qualifies for preemption, so a
\* refused CONNECT has not ended another session.
RefusalPreemptsNothing ==
    [][dying' \ dying # {} => \E c \in Conn : pc[c] = "idle" /\ pc'[c] = "setup"]_vars

\* README: only a piping session idle for at least proxy_preempt_idle is
\* preempted.
OnlyIdlePipesPreempted == [][\A c \in dying' \ dying : quiet[c] >= PreemptIdle]_vars
=============================================================================
