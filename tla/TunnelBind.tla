------------------------------ MODULE TunnelBind ------------------------------
(***************************************************************************)
(* How the phone's reverse client chooses the interface of its tunnel      *)
(* connections (egress/reverse, tunnelBindController): several connection  *)
(* loops share one controller, dial concurrently and report back late.     *)
(* An interface that is down fails dials and breaks its sessions.          *)
(***************************************************************************)
EXTENDS Integers, FiniteSets

CONSTANTS
    Conn,           \* the connection loops (opts.Connections)
    FallbackAfter,  \* tunnel_fallback_after_failures
    Every,          \* tunnel_primary_retry_interval, in ticks
    DialMax,        \* dial and handshake timeout, in ticks
    Reconnect       \* the pause between two attempts, in ticks

Primary == "primary"
Fallback == "fallback"
Iface == {Primary, Fallback}

VARIABLES
    ok,        \* the interfaces that reach the hub
    st,        \* loop -> "idle", "dial", "up", "sleep"
    via,       \* loop -> interface of its attempt or session
    age,       \* loop -> ticks in "dial" or "sleep"
    failures,  \* primaryFailures, capped at FallbackAfter: only compared with it
    active,    \* fallbackActive
    since,     \* ticks since lastPrimaryProbe, capped at Every
    probe      \* history: loops whose dial of the primary began under fallback

vars == <<ok, st, via, age, failures, active, since, probe>>

TypeOK ==
    /\ ok \subseteq Iface /\ st \in [Conn -> {"idle", "dial", "up", "sleep"}]
    /\ via \in [Conn -> Iface] /\ age \in [Conn -> 0..(DialMax + Reconnect)]
    /\ failures \in 0..FallbackAfter /\ active \in BOOLEAN /\ since \in 0..Every
    /\ probe \subseteq Conn

Init ==
    /\ ok \in SUBSET Iface /\ st = [c \in Conn |-> "idle"] /\ via = [c \in Conn |-> Primary]
    /\ age = [c \in Conn |-> 0] /\ failures = 0 /\ active = FALSE /\ since = 0 /\ probe = {}

-----------------------------------------------------------------------------
Dials(c, i) ==
    /\ st' = [st EXCEPT ![c] = "dial"] /\ via' = [via EXCEPT ![c] = i]
    /\ age' = [age EXCEPT ![c] = 0]
    /\ probe' = IF active /\ i = Primary THEN probe \cup {c} ELSE probe

\* interfaceForDial, and the dial begins.
InterfaceForDial(c) ==
    /\ st[c] = "idle"
    /\ Dials(c, IF ~active \/ since >= Every THEN Primary ELSE Fallback)
    /\ since' = IF active /\ since >= Every THEN 0 ELSE since
    /\ UNCHANGED <<ok, failures, active>>

\* recordSuccess: the session is up.
RecordSuccess(c) ==
    /\ st[c] = "dial" /\ via[c] \in ok
    /\ st' = [st EXCEPT ![c] = "up"] /\ probe' = probe \ {c}
    /\ failures' = IF via[c] = Primary THEN 0 ELSE failures
    /\ active' = (active /\ via[c] # Primary)
    /\ UNCHANGED <<ok, via, age, since>>

Sleeps(c) ==
    /\ st' = [st EXCEPT ![c] = "sleep"] /\ age' = [age EXCEPT ![c] = 0] /\ probe' = probe \ {c}

\* recordFailure: the dial, the hello or the handshake failed or timed out.
RecordFailure(c) ==
    /\ st[c] = "dial" /\ via[c] \notin ok /\ Sleeps(c)
    /\ LET n == IF via[c] = Primary /\ failures < FallbackAfter THEN failures + 1 ELSE failures
           falls == via[c] = Primary /\ n >= FallbackAfter /\ ~active
       IN  /\ failures' = n /\ active' = (active \/ falls)
           /\ since' = IF falls THEN 0 ELSE since
    /\ UNCHANGED <<ok, via>>

\* session.Accept fails: keepalives are lost with the interface.
SessionBreaks(c) ==
    /\ st[c] = "up" /\ via[c] \notin ok /\ Sleeps(c)
    /\ UNCHANGED <<ok, via, failures, active, since>>

\* The end of time.Sleep(opts.Reconnect).
Wakes(c) ==
    /\ st[c] = "sleep" /\ age[c] >= Reconnect
    /\ st' = [st EXCEPT ![c] = "idle"] /\ age' = [age EXCEPT ![c] = 0]
    /\ UNCHANGED <<ok, via, failures, active, since, probe>>

Step(c) ==
    InterfaceForDial(c) \/ RecordSuccess(c) \/ RecordFailure(c) \/ SessionBreaks(c) \/ Wakes(c)

\* A dial ends within its timeout, a sleep within its duration, and a loop that
\* woke up dials at once.
Tick ==
    /\ \A c \in Conn : st[c] # "idle" /\ (st[c] = "dial" => age[c] < DialMax) /\ (st[c] = "sleep" => age[c] < Reconnect)
    /\ age' = [c \in Conn |-> IF st[c] \in {"dial", "sleep"} THEN age[c] + 1 ELSE age[c]]
    /\ since' = IF since < Every THEN since + 1 ELSE since
    /\ UNCHANGED <<ok, st, via, failures, active, probe>>

\* The network changes.
Flip(i) ==
    /\ ok' = IF i \in ok THEN ok \ {i} ELSE ok \cup {i}
    /\ UNCHANGED <<st, via, age, failures, active, since, probe>>

Next == Tick \/ (\E c \in Conn : Step(c)) \/ \E i \in Iface : Flip(i)

\* Time passes and every loop runs; nothing is assumed of the network.
Spec == Init /\ [][Next]_vars /\ WF_vars(Tick) /\ \A c \in Conn : WF_vars(Step(c))

-----------------------------------------------------------------------------
\* However many loops reconnect at once while the fallback is in use, at most
\* one of them is trying the primary interface (interfaceForDial notes the probe
\* under the lock): the others keep the tunnel up.
OneProbeAtATime ==
    active => Cardinality({c \in probe : st[c] = "dial"}) <= 1

\* If the primary interface stays down and the fallback up, every loop ends up
\* connected through the fallback (recordFailure).
FallsBack ==
    <>[](ok = {Fallback}) => <>[](\A c \in Conn : st[c] = "up" /\ via[c] = Fallback)

\* If the fallback stays down and the primary up, every loop gets back to the
\* primary, whatever the controller believed before (interfaceForDial's probes).
Returns ==
    <>[](ok = {Primary}) => <>[](\A c \in Conn : st[c] = "up" /\ via[c] = Primary)

\* The documented behaviour, "每 1 分钟探测一次 wlan0 恢复情况": as long as the
\* fallback is in use, the primary interface is tried again and again.
PrimaryIsProbed ==
    active ~> (~active \/ \E c \in probe : st[c] = "dial")
=============================================================================
