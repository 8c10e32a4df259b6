---------------------------- MODULE ProxyControl ----------------------------
(***************************************************************************)
(* The control channel of shared/proxygate (control.go, control_linux.go): *)
(* a Controller in the authority's process and the ControlServer beside    *)
(* the gate, over a local stream socket.  The gate is the barrier that     *)
(* ProxyGate implements.                                                   *)
(*                                                                         *)
(* An element of Conn is one control connection, with the session that the *)
(* server draws for it at random.  The socket is a reliable stream and a   *)
(* Controller sends one command at a time, so each direction holds at most *)
(* one message.  Time advances in ticks; timeouts that are not leases can  *)
(* strike at any moment.                                                   *)
(***************************************************************************)
EXTENDS Naturals

CONSTANTS Conn, NoOwner, Work,
          MinLease, MaxLease,
          MaxTime,        \* bound on the clock
          MaxSequence     \* bound on a connection's commands

ASSUME ConnAssumption == NoOwner \notin Conn
ASSUME LeaseAssumption ==
    /\ MinLease \in Nat \ {0} /\ MaxLease \in Nat /\ MinLease <= MaxLease
    /\ MaxTime \in Nat /\ MaxSequence \in Nat

VARIABLES
    owner, live, draining, admitted,   \* the barrier
    now,
    expires,      \* g.expires, 0 for the zero time
    spc, sconn,   \* the server's position, and the connection it serves
    registered,   \* s.conn is set: stop() closes the connection
    sseq, sexp, closedACK, smsg,       \* session(): base.Sequence, expires, ...
    stopped,      \* the server's context is cancelled
    swept,        \* stop() has also closed the gate
    srvOpen, cliOpen,                  \* the two ends of a connection
    toServer, toClient,                \* the message in flight
    cpc, cseq,    \* the Controller
    sent,         \* ghost: the lease ends its grants on an open connection have carried
    lease         \* the lease end it last saw acknowledged, 0 after Closed()

gate == <<owner, live, draining, admitted, expires>>
server == <<spc, sconn, registered, sseq, sexp, closedACK, smsg>>
stopping == <<stopped, swept>>
wire == <<srvOpen, cliOpen, toServer, toClient>>
controller == <<cpc, cseq, sent, lease>>
vars == <<gate, now, server, stopping, wire, controller>>

Gate == INSTANCE ProxyBarrier WITH Session <- Conn

Actions == {"hello", "closed", "grant", "ack"}
NoMsg == [action |-> "none", seq |-> 0, until |-> 0]
Msg == [action : Actions, seq : Nat, until : Nat] \cup {NoMsg}

Init ==
    /\ Gate!Init /\ expires = 0 /\ now = 1
    /\ spc = "accept" /\ sconn = NoOwner /\ registered = FALSE
    /\ sseq = 0 /\ sexp = 0 /\ closedACK = FALSE /\ smsg = NoMsg
    /\ stopped = FALSE /\ swept = FALSE
    /\ srvOpen = [k \in Conn |-> TRUE] /\ cliOpen = [k \in Conn |-> TRUE]
    /\ toServer = [k \in Conn |-> NoMsg] /\ toClient = [k \in Conn |-> NoMsg]
    /\ cpc = [k \in Conn |-> "new"] /\ cseq = [k \in Conn |-> 0]
    /\ sent = [k \in Conn |-> {}] /\ lease = [k \in Conn |-> 0]

-----------------------------------------------------------------------------
\* The gate's lock sections that the server calls

CloseGateFor(k) ==
    IF owner = k
    THEN Gate!Invalidate /\ expires' = 0
    ELSE UNCHANGED gate

OwnGate(k) == Gate!Own(k) /\ expires' = 0
OwnRefused(k) == draining \/ admitted # {} \/ owner \notin {NoOwner, k}

\* Mutant: a lease end that is already past is granted.
MayGrantPast(k, until) == until <= now + MaxLease /\ ~draining /\ owner = k

\* gate.grant: a lease end that is past or too far ahead is refused.
MayGrant(k, until) ==
    /\ now < until /\ until <= now + MaxLease
    /\ ~draining /\ owner = k

-----------------------------------------------------------------------------
\* The Controller of connection k

\* conn.Close; what the controller knew is gone with it.
Fail(k) ==
    /\ cpc' = [cpc EXCEPT ![k] = "dead"]
    /\ cseq' = [cseq EXCEPT ![k] = 0] /\ lease' = [lease EXCEPT ![k] = 0]
    /\ cliOpen' = [cliOpen EXCEPT ![k] = FALSE]
    /\ toClient' = [toClient EXCEPT ![k] = NoMsg]

Send(k, action, until) ==
    /\ toServer' = [toServer EXCEPT ![k] =
                        [action |-> action, seq |-> cseq[k] + 1, until |-> until]]
    /\ cpc' = [cpc EXCEPT ![k] = "wait"]

Dial(k) ==
    /\ cpc[k] = "new"
    /\ cpc' = [cpc EXCEPT ![k] = "dialled"]
    /\ UNCHANGED <<gate, now, server, stopping, wire, cseq, sent, lease>>

\* connectController: read hello, then command "closed".
ReadHello(k) ==
    /\ cpc[k] = "dialled" /\ toClient[k].action = "hello"
    /\ Send(k, "closed", 0)
    /\ toClient' = [toClient EXCEPT ![k] = NoMsg]
    /\ UNCHANGED <<gate, now, server, stopping, srvOpen, cliOpen, cseq, sent, lease>>

Closed(k) ==
    /\ cpc[k] = "ready" /\ cseq[k] < MaxSequence
    /\ Send(k, "closed", 0)
    /\ UNCHANGED <<gate, now, server, stopping, srvOpen, cliOpen, toClient, cseq, sent, lease>>

GrantUntil(k, until) ==
    /\ cpc[k] = "ready" /\ cseq[k] < MaxSequence
    /\ now + MinLease <= until /\ until <= now + MaxLease
    /\ Send(k, "grant", until)
    /\ sent' = [sent EXCEPT ![k] = @ \cup {until}]
    /\ UNCHANGED <<gate, now, server, stopping, srvOpen, cliOpen, toClient, cseq, lease>>

\* A command succeeds on its own acknowledgement, before the lease it asked for
\* has ended; everything else closes the connection.  The lease end is not compared
\* again: an acknowledgement of this sequence number repeats the one it was sent.
ReadAck(k) ==
    LET m == toClient[k] IN
    /\ cpc[k] = "wait" /\ m # NoMsg
    /\ IF m.action = "ack" /\ m.seq = cseq[k] + 1 /\ (m.until = 0 \/ now < m.until)
       THEN /\ cpc' = [cpc EXCEPT ![k] = "ready"]
            /\ cseq' = [cseq EXCEPT ![k] = m.seq]
            /\ lease' = [lease EXCEPT ![k] = m.until]
            /\ toClient' = [toClient EXCEPT ![k] = NoMsg]
            /\ UNCHANGED cliOpen
       ELSE Fail(k)
    /\ UNCHANGED <<gate, now, server, stopping, srvOpen, toServer, sent>>

\* A timeout, a cancelled context, an EOF, Close by the watcher, or a crash.
ControllerFails(k) ==
    /\ cpc[k] \notin {"new", "dead"}
    /\ Fail(k)
    /\ UNCHANGED <<gate, now, server, stopping, srvOpen, toServer, sent>>

-----------------------------------------------------------------------------
\* ControlServer.serve and session

At(l) == spc = l
Goto(l) == spc' = l

Accept(k) ==
    /\ At("accept") /\ cpc[k] # "new" /\ srvOpen[k]
    /\ IF stopped
       THEN srvOpen' = [srvOpen EXCEPT ![k] = FALSE] /\ UNCHANGED <<spc, sconn>>
       ELSE Goto("accepted") /\ sconn' = k /\ UNCHANGED srvOpen
    /\ UNCHANGED <<gate, now, registered, sseq, sexp, closedACK, smsg, stopping,
                   cliOpen, toServer, toClient, controller>>

Register ==
    /\ At("accepted")
    /\ registered' = TRUE /\ Goto("own")
    /\ UNCHANGED <<gate, now, sconn, sseq, sexp, closedACK, smsg, stopping, wire, controller>>

\* The first own() of a session; on refusal nothing is deferred yet.
BeginSession ==
    /\ At("own")
    /\ \/ OwnGate(sconn) /\ Goto("hello")
       \/ OwnRefused(sconn) /\ Goto("hangup") /\ UNCHANGED gate
    /\ UNCHANGED <<now, sconn, registered, sseq, sexp, closedACK, smsg, stopping, wire, controller>>

\* Writing to a connection that either end has closed fails.
Write(m, l) ==
    IF cliOpen[sconn] /\ srvOpen[sconn]
    THEN toClient' = [toClient EXCEPT ![sconn] = m] /\ Goto(l)
    ELSE Goto("end") /\ UNCHANGED toClient

SendHello ==
    /\ At("hello")
    /\ Write([action |-> "hello", seq |-> 0, until |-> 0], "read")
    /\ UNCHANGED <<gate, now, sconn, registered, sseq, sexp, closedACK, smsg, stopping,
                   srvOpen, cliOpen, toServer, controller>>

LeaseOver == sexp # 0 /\ sexp <= now

\* A message arrives in time and in sequence.
ReadCommand ==
    LET m == toServer[sconn] IN
    /\ At("read") /\ srvOpen[sconn] /\ m # NoMsg
    /\ toServer' = [toServer EXCEPT ![sconn] = NoMsg]
    /\ \/ /\ stopped \/ LeaseOver \/ m.seq # sseq + 1
          /\ Goto("end") /\ UNCHANGED <<smsg, gate, sexp>>
       \/ /\ ~stopped /\ ~LeaseOver /\ m.seq = sseq + 1
          /\ smsg' = m
          /\ \/ /\ m.action = "closed"
                /\ CloseGateFor(sconn) /\ Goto("await") /\ UNCHANGED sexp
             \/ /\ m.action = "grant" /\ closedACK /\ MayGrant(sconn, m.until)
                /\ Gate!Grant(sconn) /\ expires' = m.until
                /\ sexp' = m.until /\ Goto("ack")
             \/ /\ m.action = "grant" /\ ~(closedACK /\ MayGrant(sconn, m.until))
                /\ Goto("end") /\ UNCHANGED <<gate, sexp>>
    /\ UNCHANGED <<now, sconn, registered, sseq, closedACK, stopping, srvOpen, cliOpen,
                   toClient, controller>>

\* Mutant: reads have no deadline and miss the end of the stream.
ReadFailsOnStop ==
    /\ At("read") /\ ~srvOpen[sconn]
    /\ Goto("end")
    /\ UNCHANGED <<gate, now, sconn, registered, sseq, sexp, closedACK, smsg, stopping,
                   wire, controller>>

\* EOF, the read deadline (the lease, or the idle timeout), or stop().
ReadFails ==
    /\ At("read")
    /\ \/ ~srvOpen[sconn]
       \/ ~cliOpen[sconn] /\ toServer[sconn] = NoMsg
       \/ LeaseOver
       \/ sexp = 0
    /\ Goto("end")
    /\ UNCHANGED <<gate, now, sconn, registered, sseq, sexp, closedACK, smsg, stopping,
                   wire, controller>>

\* AwaitClosed: the cleanup finished in time, or not.
AwaitClosed ==
    /\ At("await")
    /\ \/ ~draining /\ admitted = {} /\ ~live /\ Goto("reown")
       \/ (draining \/ admitted # {} \/ live) /\ Goto("end")
    /\ UNCHANGED <<gate, now, sconn, registered, sseq, sexp, closedACK, smsg, stopping,
                   wire, controller>>

\* own(session) again, before the acknowledgement of "closed".
Reown ==
    /\ At("reown")
    /\ \/ /\ OwnGate(sconn)
          /\ Goto("ack") /\ sexp' = 0 /\ closedACK' = TRUE
       \/ /\ OwnRefused(sconn)
          /\ Goto("end") /\ UNCHANGED <<gate, sexp, closedACK>>
    /\ UNCHANGED <<now, sconn, registered, sseq, smsg, stopping, wire, controller>>

\* Mutant: the acknowledgement does not echo the lease end.
SendBareAck ==
    /\ At("ack")
    /\ sseq' = smsg.seq /\ smsg' = NoMsg
    /\ IF LeaseOver THEN Goto("end") /\ UNCHANGED toClient
       ELSE Write([smsg EXCEPT !.action = "ack", !.until = 0], "read")
    /\ UNCHANGED <<gate, now, sconn, registered, sexp, closedACK, stopping,
                   srvOpen, cliOpen, toServer, controller>>

SendAck ==
    /\ At("ack")
    /\ sseq' = smsg.seq /\ smsg' = NoMsg
    /\ IF LeaseOver THEN Goto("end") /\ UNCHANGED toClient
       ELSE Write([smsg EXCEPT !.action = "ack"], "read")
    /\ UNCHANGED <<gate, now, sconn, registered, sexp, closedACK, stopping,
                   srvOpen, cliOpen, toServer, controller>>

\* Mutant: the deferred closeFor is missing.
EndSessionOpen ==
    /\ At("end") /\ Goto("hangup")
    /\ UNCHANGED <<gate, now, sconn, registered, sseq, sexp, closedACK, smsg, stopping,
                   wire, controller>>

\* The deferred closeFor(session), then conn.Close in serve.
EndSession ==
    /\ At("end")
    /\ CloseGateFor(sconn) /\ Goto("hangup")
    /\ UNCHANGED <<now, sconn, registered, sseq, sexp, closedACK, smsg, stopping, wire, controller>>

HangUp ==
    /\ At("hangup")
    /\ srvOpen' = [srvOpen EXCEPT ![sconn] = FALSE]
    /\ toServer' = [toServer EXCEPT ![sconn] = NoMsg]
    /\ sent' = [sent EXCEPT ![sconn] = {}]
    /\ registered' = FALSE /\ sconn' = NoOwner /\ Goto("accept")
    /\ sseq' = 0 /\ sexp' = 0 /\ closedACK' = FALSE /\ smsg' = NoMsg
    /\ UNCHANGED <<gate, now, stopping, cliOpen, toClient, cpc, cseq, lease>>

\* stop(): cancel, close the listener and the registered connection; then the gate.
Stop ==
    /\ ~stopped
    /\ stopped' = TRUE
    /\ srvOpen' = [k \in Conn |-> srvOpen[k] /\ ~(registered /\ k = sconn)]
    /\ UNCHANGED <<gate, now, server, swept, cliOpen, toServer, toClient, controller>>

StopGate ==
    /\ stopped /\ ~swept
    /\ swept' = TRUE
    /\ Gate!Invalidate /\ expires' = 0
    /\ UNCHANGED <<now, server, stopped, wire, controller>>

\* The deferred gate.Close of serve, when Accept fails.
Exit ==
    /\ At("accept") /\ stopped
    /\ Gate!Invalidate /\ expires' = 0
    /\ Goto("exited")
    /\ UNCHANGED <<now, sconn, registered, sseq, sexp, closedACK, smsg, stopping, wire, controller>>

-----------------------------------------------------------------------------
\* The gate's own life: handlers, cleanup, capacity overflow and late Attach

Handlers ==
    /\ \E w \in Work : Gate!Admit(w) \/ Gate!Finish(w)
    /\ UNCHANGED <<expires, now, server, stopping, wire, controller>>

CleanupDone ==
    /\ Gate!Drained
    /\ UNCHANGED <<expires, now, server, stopping, wire, controller>>

ScopeInvalidated ==
    /\ owner # NoOwner /\ admitted # {}
    /\ Gate!Invalidate /\ expires' = 0
    /\ UNCHANGED <<now, server, stopping, wire, controller>>

Tick ==
    /\ now < MaxTime
    /\ now' = now + 1
    /\ live' = (live /\ now + 1 < expires)
    /\ UNCHANGED <<owner, draining, admitted, expires, server, stopping, wire, controller>>

ServerStep ==
    \/ Register \/ BeginSession \/ SendHello \/ ReadCommand \/ ReadFails \/ AwaitClosed
    \/ Reown \/ SendAck \/ EndSession \/ HangUp \/ Exit

Next ==
    \/ \E k \in Conn : Dial(k) \/ ReadHello(k) \/ Closed(k) \/ ReadAck(k) \/ ControllerFails(k)
    \/ \E k \in Conn : Accept(k)
    \/ \E k \in Conn, until \in 1..(MaxTime + MaxLease) : GrantUntil(k, until)
    \/ ServerStep
    \/ Stop \/ StopGate
    \/ Handlers \/ CleanupDone \/ ScopeInvalidated \/ Tick

Spec == Init /\ [][Next]_vars

\* The server goroutine is scheduled, and its waits are bounded by deadlines;
\* the clock advances; the gate's cleanup ends (ProxyGate, CleanupTerminates).
Fairness ==
    /\ WF_vars(ServerStep) /\ WF_vars(\E k \in Conn : Accept(k))
    /\ WF_vars(StopGate) /\ WF_vars(Tick) /\ WF_vars(CleanupDone)

FairSpec == Spec /\ Fairness

-----------------------------------------------------------------------------
TypeOK ==
    /\ owner \in Conn \cup {NoOwner} /\ live \in BOOLEAN /\ draining \in BOOLEAN
    /\ admitted \subseteq Work
    /\ now \in Nat /\ expires \in Nat
    /\ spc \in {"accept", "accepted", "own", "hello", "read", "await", "reown", "ack",
                "end", "hangup", "exited"}
    /\ sconn \in Conn \cup {NoOwner} /\ registered \in BOOLEAN
    /\ (sconn = NoOwner) <=> spc \in {"accept", "exited"}
    /\ registered <=> spc \notin {"accept", "accepted", "exited"}
    /\ sseq \in Nat /\ sexp \in Nat /\ closedACK \in BOOLEAN /\ smsg \in Msg
    /\ stopped \in BOOLEAN /\ swept \in BOOLEAN
    /\ srvOpen \in [Conn -> BOOLEAN] /\ cliOpen \in [Conn -> BOOLEAN]
    /\ toServer \in [Conn -> Msg] /\ toClient \in [Conn -> Msg]
    /\ cpc \in [Conn -> {"new", "dialled", "wait", "ready", "dead"}]
    /\ cseq \in [Conn -> Nat]
    /\ sent \in [Conn -> SUBSET Nat] /\ lease \in [Conn -> Nat]

\* Work is admitted only under a lease that the owner's controller asked for and
\* that has not ended: the receiver never opens the scope on its own and never
\* extends the controller's absolute boundary (control.go GrantUntil, gate.go grant).
LeaseIsControllers ==
    live => owner # NoOwner /\ now < expires /\ expires \in sent[owner]

\* Controller and receiver agree on the lease: between two commands of a session
\* that still owns the gate the receiver's expiry is the one the controller saw
\* acknowledged, unless the scope was invalidated.
LeaseAgreement ==
    \A k \in Conn : owner = k /\ cpc[k] = "ready" => expires = lease[k]

\* Between two sessions, and once the control server has exited, nobody owns the
\* gate: also when own() was refused, and when stop() ran between Accept and
\* own() of the last session and found no connection (control.go serve, stop).
NoOwnerBetweenSessions ==
    spc \in {"accept", "accepted", "own", "hangup", "exited"} => owner = NoOwner /\ ~live

\* A controller that is gone loses the gate (control.go session: EOF, lease
\* expiry and the idle deadline end the session, whose deferred closeFor runs).
DeadControllerLosesGate ==
    \A k \in Conn : cpc[k] = "dead" ~> owner # k

\* An invalidated or lapsed scope does not keep work: what was admitted under a
\* controller that is gone is drained or finished.
AbandonedWorkDrains ==
    (\A k \in Conn : cpc[k] \in {"new", "dead"}) ~>
        (admitted = {} \/ \E k \in Conn : cpc[k] \notin {"new", "dead"})
=============================================================================
