-------------------------- MODULE ProxyControlProofs --------------------------
(***************************************************************************)
(* Proofs about ProxyControl, the session in which a controller leases the *)
(* gate, and StripedGroup, the lanes in which an egress carries a proxied  *)
(* connection.                                                             *)
(***************************************************************************)
EXTENDS ProxyControl, TLAPS

-----------------------------------------------------------------------------
(***************************************************************************)
(* Proofs about ProxyControl, for any connections, work, leases and bounds:*)
(* nobody owns the gate between sessions, work is admitted only under a    *)
(* lease the owner's controller asked for, and both ends agree on it.      *)
(***************************************************************************)

Starting == {"accepted", "own", "hello"}
Owning == {"hello", "read", "await", "reown", "ack", "end"}
Working == {"await", "reown", "ack"}

\* Only the connection in service owns the gate, and only within its session.
Owned == /\ owner # NoOwner => owner = sconn /\ spc \in Owning
         /\ live => owner # NoOwner /\ now < expires /\ expires \in sent[owner]

\* The server has said nothing yet on k.
Fresh(k) == cpc[k] \in {"new", "dialled", "dead"} /\ toServer[k] = NoMsg /\ toClient[k] = NoMsg

\* A connection the server has not greeted is fresh; it handles a command only
\* while the controller waits for the answer.
Turns ==
    /\ \A k \in Conn : srvOpen[k] /\ k # sconn => Fresh(k)
    /\ spc \in Starting => Fresh(sconn)
    /\ spc \in Working => cpc[sconn] \in {"wait", "dead"}
                          /\ toServer[sconn] = NoMsg /\ toClient[sconn] = NoMsg

\* The two directions of a connection are never in use together, and a
\* controller that waits for nothing has nothing on the wire.
Wire(k) ==
    /\ cpc[k] \in {"new", "dialled", "ready"} => toServer[k] = NoMsg
    /\ cpc[k] = "ready" => toClient[k] = NoMsg
    /\ toServer[k] # NoMsg => toClient[k] = NoMsg
    /\ toServer[k].action = "closed" => toServer[k].until = 0
    /\ toServer[k].action = "grant" => toServer[k].until \in sent[k]

\* What the server is about to confirm, the confirmation on the wire and what
\* the controller takes from it are the lease end of the gate.
Agreed ==
    /\ spc \in {"await", "reown"} => smsg.until = 0
    /\ spc = "ack" /\ owner # NoOwner => smsg.until = expires
    /\ \A k \in Conn : owner = k /\ toClient[k].action = "ack" => toClient[k].until = expires
    /\ \A k \in Conn : owner = k /\ cpc[k] = "ready" => lease[k] = expires

\* The types, part by part.
GateTypes ==
    /\ owner \in Conn \cup {NoOwner} /\ live \in BOOLEAN /\ draining \in BOOLEAN
    /\ admitted \subseteq Work /\ now \in Nat /\ expires \in Nat
ServerTypes ==
    /\ spc \in Starting \cup Owning \cup {"accept", "hangup", "exited"}
    /\ sconn \in Conn \cup {NoOwner} /\ registered \in BOOLEAN
    /\ (sconn = NoOwner) <=> spc \in {"accept", "exited"}
    /\ registered <=> spc \notin {"accept", "accepted", "exited"}
    /\ sseq \in Nat /\ sexp \in Nat /\ closedACK \in BOOLEAN /\ smsg \in Msg
    /\ stopped \in BOOLEAN /\ swept \in BOOLEAN
WireTypes ==
    /\ srvOpen \in [Conn -> BOOLEAN] /\ cliOpen \in [Conn -> BOOLEAN]
    /\ toServer \in [Conn -> Msg] /\ toClient \in [Conn -> Msg]
    /\ cpc \in [Conn -> {"new", "dialled", "wait", "ready", "dead"}]
    /\ cseq \in [Conn -> Nat] /\ sent \in [Conn -> SUBSET Nat] /\ lease \in [Conn -> Nat]

\* The inductive invariant.
IInv == /\ GateTypes /\ ServerTypes /\ WireTypes
        /\ Owned /\ Turns /\ (\A k \in Conn : Wire(k)) /\ Agreed

-----------------------------------------------------------------------------
USE ConnAssumption, LeaseAssumption

\* The fields of a message, whichever kind it is of.
LEMMA MsgFields ==
  ASSUME NEW m \in Msg PROVE m.seq \in Nat /\ m.until \in Nat
BY DEF Msg, NoMsg

LEMMA NewMsg ==
  /\ NoMsg \in Msg
  /\ \A a \in Actions : \A n, u \in Nat : [action |-> a, seq |-> n, until |-> u] \in Msg
BY DEF Msg

\* An acknowledgement is the command with another action.
LEMMA AckMsg ==
  ASSUME NEW m \in Msg PROVE [m EXCEPT !.action = "ack"] \in Msg
<1>1. CASE m = NoMsg
  BY DEF Msg, NoMsg, Actions
<1>2. CASE m \in [action : Actions, seq : Nat, until : Nat]
  BY <1>2 DEF Msg, Actions
<1> QED BY <1>1, <1>2 DEF Msg

\* The lock sections of the gate.
LEMMA GateSection ==
  ASSUME GateTypes, now' = now, NEW k \in Conn,
         \/ OwnGate(k) \/ CloseGateFor(k) \/ UNCHANGED gate
         \/ Gate!Invalidate /\ expires' = 0
         \/ Gate!Grant(k) /\ expires' \in Nat
  PROVE  GateTypes'
<1>1. CASE UNCHANGED gate
  BY <1>1 DEF gate, GateTypes
<1>2. CASE Gate!Invalidate /\ expires' = 0
  BY <1>2, Zenon DEF Gate!Invalidate, GateTypes
<1>3. CASE OwnGate(k)
  BY <1>3, Zenon DEF OwnGate, Gate!Own, GateTypes
<1>4. CASE Gate!Grant(k) /\ expires' \in Nat
  BY <1>4 DEF Gate!Grant, GateTypes
<1> QED BY <1>1, <1>2, <1>3, <1>4 DEF CloseGateFor

\* Nobody has connected yet.
LEMMA InitIInv == Init => IInv
<1> SUFFICES ASSUME Init PROVE IInv
  OBVIOUS
<1>1. GateTypes /\ ServerTypes /\ WireTypes
  BY NewMsg, Zenon DEF Init, Gate!Init, GateTypes, ServerTypes, WireTypes
<1> QED BY <1>1, Zenon DEF Init, Gate!Init, IInv, Owned, Turns, Wire, Agreed, Fresh, Starting,
           Working, NoMsg

\* A step of a controller.
LEMMA ControllerStep ==
  ASSUME IInv, NEW k \in Conn,
         \/ Dial(k) \/ ReadHello(k) \/ Closed(k) \/ ReadAck(k) \/ ControllerFails(k)
         \/ \E until \in 1..(MaxTime + MaxLease) : GrantUntil(k, until)
  PROVE  IInv'
<1> USE DEF gate, server, stopping, wire, controller
<1>1. CASE Dial(k)
  <2>1. GateTypes'
    BY <1>1, Zenon DEF Dial, IInv, GateTypes
  <2>2. ServerTypes'
    BY <1>1, Zenon DEF Dial, IInv, ServerTypes
  <2>3. WireTypes'
    BY <1>1, Zenon DEF Dial, IInv, WireTypes
  <2>4. Owned' /\ Turns'
    BY <1>1 DEF Dial, IInv, Owned, Turns, Fresh
  <2>5. (\A l \in Conn : Wire(l)') /\ Agreed'
    BY <1>1 DEF Dial, IInv, Wire, Agreed
  <2> QED BY <2>1, <2>2, <2>3, <2>4, <2>5 DEF IInv
<1>2. CASE ReadHello(k)
  <2>1. GateTypes'
    BY <1>2, Zenon DEF ReadHello, IInv, GateTypes
  <2>2. ServerTypes'
    BY <1>2, Zenon DEF ReadHello, IInv, ServerTypes
  <2>3. WireTypes'
    BY <1>2, NewMsg DEF ReadHello, Send, IInv, WireTypes, Actions
  <2>4. Owned' /\ Turns'
    BY <1>2 DEF ReadHello, Send, IInv, Owned, Turns, Fresh, NoMsg
  <2>5. (\A l \in Conn : Wire(l)') /\ Agreed'
    BY <1>2 DEF ReadHello, Send, IInv, WireTypes, Wire, Agreed, NoMsg
  <2> QED BY <2>1, <2>2, <2>3, <2>4, <2>5 DEF IInv
<1>3. CASE Closed(k)
  <2>1. GateTypes'
    BY <1>3, Zenon DEF Closed, IInv, GateTypes
  <2>2. ServerTypes'
    BY <1>3, Zenon DEF Closed, IInv, ServerTypes
  <2>3. WireTypes'
    BY <1>3, NewMsg DEF Closed, Send, IInv, WireTypes, Actions
  <2>4. Owned' /\ Turns'
    BY <1>3 DEF Closed, Send, IInv, Owned, Turns, Fresh
  <2>5. (\A l \in Conn : Wire(l)') /\ Agreed'
    BY <1>3, Zenon DEF Closed, Send, IInv, WireTypes, Wire, Agreed
  <2> QED BY <2>1, <2>2, <2>3, <2>4, <2>5 DEF IInv
<1>4. CASE \E until \in 1..(MaxTime + MaxLease) : GrantUntil(k, until)
  <2>1. GateTypes'
    BY <1>4, Zenon DEF GrantUntil, IInv, GateTypes
  <2>2. ServerTypes'
    BY <1>4 DEF GrantUntil, IInv, ServerTypes
  <2>3. WireTypes'
    BY <1>4, NewMsg DEF GrantUntil, Send, IInv, WireTypes, Actions
  <2>4. Owned' /\ Turns'
    BY <1>4 DEF GrantUntil, Send, IInv, Owned, Turns, Fresh
  <2>5. (\A l \in Conn : Wire(l)') /\ Agreed'
    BY <1>4 DEF GrantUntil, Send, IInv, WireTypes, Wire, Agreed
  <2> QED BY <2>1, <2>2, <2>3, <2>4, <2>5 DEF IInv
<1>5. CASE ReadAck(k)
  <2>1. GateTypes'
    BY <1>5, Zenon DEF ReadAck, IInv, GateTypes
  <2>2. ServerTypes'
    BY <1>5, Zenon DEF ReadAck, IInv, ServerTypes
  <2>3. WireTypes'
    <3>1. toClient[k].seq \in Nat /\ toClient[k].until \in Nat
      BY MsgFields DEF IInv, WireTypes
    <3>2. CASE Fail(k)
      BY <1>5, <3>2, NewMsg, Zenon DEF ReadAck, Fail, IInv, WireTypes
    <3> QED BY <1>5, <3>1, <3>2, NewMsg DEF ReadAck, IInv, WireTypes
  <2>4. Owned' /\ Turns'
    BY <1>5 DEF ReadAck, Fail, IInv, ServerTypes, WireTypes, Owned, Turns, Fresh, Starting,
       Working
  <2>5. (\A l \in Conn : Wire(l)') /\ Agreed'
    BY <1>5 DEF ReadAck, Fail, IInv, WireTypes, Wire, Agreed, NoMsg
  <2> QED BY <2>1, <2>2, <2>3, <2>4, <2>5 DEF IInv
<1>6. CASE ControllerFails(k)
  <2>1. GateTypes'
    BY <1>6, Zenon DEF ControllerFails, IInv, GateTypes
  <2>2. ServerTypes'
    BY <1>6, Zenon DEF ControllerFails, IInv, ServerTypes
  <2>3. WireTypes'
    BY <1>6, NewMsg, Zenon DEF ControllerFails, Fail, IInv, WireTypes
  <2>4. Owned' /\ Turns'
    BY <1>6 DEF ControllerFails, Fail, IInv, Owned, Turns, Fresh
  <2>5. (\A l \in Conn : Wire(l)') /\ Agreed'
    BY <1>6, Zenon DEF ControllerFails, Fail, IInv, WireTypes, Wire, Agreed, NoMsg
  <2> QED BY <2>1, <2>2, <2>3, <2>4, <2>5 DEF IInv
<1> QED BY <1>1, <1>2, <1>3, <1>4, <1>5, <1>6

\* A step of the server goroutine.
LEMMA ServerStepKeeps ==
  ASSUME IInv, ServerStep
  PROVE  IInv'
<1> USE DEF gate, server, stopping, wire, controller
<1>1. CASE Register
  <2>1. GateTypes'
    BY <1>1 DEF Register, IInv, GateTypes
  <2>2. ServerTypes'
    BY <1>1, Zenon DEF Register, At, Goto, IInv, ServerTypes, Starting
  <2>3. WireTypes'
    BY <1>1, Zenon DEF Register, IInv, WireTypes
  <2>4. Owned' /\ Turns'
    BY <1>1, Zenon DEF Register, At, Goto, IInv, ServerTypes, Owned, Turns, Fresh, Owning, Working
  <2>5. (\A l \in Conn : Wire(l)') /\ Agreed'
    BY <1>1, Zenon DEF Register, Goto, IInv, Wire, Agreed
  <2> QED BY <2>1, <2>2, <2>3, <2>4, <2>5 DEF IInv
<1>2. CASE BeginSession
  <2>1. GateTypes'
    BY <1>2, GateSection, Zenon DEF BeginSession, At, IInv, ServerTypes
  <2>2. ServerTypes'
    BY <1>2, Zenon DEF BeginSession, At, Goto, IInv, ServerTypes, Starting
  <2>3. WireTypes'
    BY <1>2, Zenon DEF BeginSession, IInv, WireTypes
  <2>4. Owned' /\ Turns'
    BY <1>2 DEF BeginSession, OwnGate, Gate!Own, At, Goto, IInv, ServerTypes, Owned, Turns,
       Fresh, Owning, Working
  <2>5. (\A l \in Conn : Wire(l)') /\ Agreed'
    BY <1>2 DEF BeginSession, OwnGate, Gate!Own, At, Goto, IInv, Turns, Wire, Agreed, Fresh,
       Starting, NoMsg
  <2> QED BY <2>1, <2>2, <2>3, <2>4, <2>5 DEF IInv
<1>3. CASE SendHello
  <2>1. GateTypes'
    BY <1>3, Zenon DEF SendHello, IInv, GateTypes
  <2>2. ServerTypes'
    BY <1>3, Zenon DEF SendHello, Write, At, Goto, IInv, ServerTypes, Owning
  <2>3. WireTypes'
    BY <1>3, MsgFields, NewMsg DEF SendHello, Write, IInv, WireTypes, Actions
  <2>4. Owned' /\ Turns'
    BY <1>3, Zenon DEF SendHello, Write, Goto, IInv, WireTypes, Owned, Turns, Fresh, Starting,
       Owning, Working
  <2>5. (\A l \in Conn : Wire(l)') /\ Agreed'
    BY <1>3 DEF SendHello, Write, At, Goto, IInv, WireTypes, Turns, Wire, Agreed, Fresh,
       Starting
  <2> QED BY <2>1, <2>2, <2>3, <2>4, <2>5 DEF IInv
<1>4. CASE ReadCommand
  <2>1. GateTypes'
    BY <1>4, GateSection, MsgFields DEF ReadCommand, At, IInv, ServerTypes, WireTypes
  <2>2. ServerTypes'
    BY <1>4, MsgFields DEF ReadCommand, At, Goto, IInv, ServerTypes, WireTypes, Owning
  <2>3. WireTypes'
    BY <1>4, NewMsg, Zenon DEF ReadCommand, IInv, WireTypes
  <2>4. Owned' /\ Turns'
    BY <1>4 DEF ReadCommand, CloseGateFor, MayGrant, Gate!Invalidate, Gate!Grant, At, Goto,
       IInv, ServerTypes, WireTypes, Owned, Turns, Wire, Fresh, Starting, Owning
  <2>5. (\A l \in Conn : Wire(l)') /\ Agreed'
    BY <1>4 DEF ReadCommand, CloseGateFor, Gate!Invalidate, Gate!Grant, At, Goto, IInv,
       ServerTypes, Wire, Agreed, Owning, Working, NoMsg
  <2> QED BY <2>1, <2>2, <2>3, <2>4, <2>5 DEF IInv
<1>5. CASE ReadFails
  <2>1. GateTypes'
    BY <1>5, Zenon DEF ReadFails, IInv, GateTypes
  <2>2. ServerTypes'
    BY <1>5, Zenon DEF ReadFails, At, Goto, IInv, ServerTypes, Owning
  <2>3. WireTypes'
    BY <1>5, MsgFields, NewMsg, Zenon DEF ReadFails, At, Goto, IInv, ServerTypes, WireTypes,
       Actions
  <2>4. Owned' /\ Turns'
    BY <1>5, Zenon DEF ReadFails, Goto, IInv, Owned, Turns, Fresh, Starting, Owning, Working
  <2>5. (\A l \in Conn : Wire(l)') /\ Agreed'
    BY <1>5, Zenon DEF ReadFails, Goto, IInv, Wire, Agreed
  <2> QED BY <2>1, <2>2, <2>3, <2>4, <2>5 DEF IInv
<1>6. CASE AwaitClosed
  <2>1. GateTypes'
    BY <1>6, Zenon DEF AwaitClosed, IInv, GateTypes
  <2>2. ServerTypes'
    BY <1>6 DEF AwaitClosed, At, Goto, IInv, ServerTypes, Owning
  <2>3. WireTypes'
    BY <1>6, Zenon DEF AwaitClosed, IInv, WireTypes
  <2>4. Owned' /\ Turns'
    BY <1>6, Zenon DEF AwaitClosed, At, Goto, IInv, Owned, Turns, Fresh, Starting, Owning, Working
  <2>5. (\A l \in Conn : Wire(l)') /\ Agreed'
    BY <1>6, Zenon DEF AwaitClosed, At, Goto, IInv, Wire, Agreed
  <2> QED BY <2>1, <2>2, <2>3, <2>4, <2>5 DEF IInv
<1>7. CASE Reown
  <2>1. GateTypes'
    BY <1>7, GateSection, Zenon DEF Reown, At, IInv, ServerTypes
  <2>2. ServerTypes'
    <3>1. CASE OwnRefused(sconn) /\ Goto("end") /\ UNCHANGED <<gate, sexp, closedACK>>
      BY <1>7, <3>1, Zenon DEF Reown, At, Goto, IInv, ServerTypes, Owning
    <3>2. CASE OwnGate(sconn) /\ Goto("ack") /\ sexp' = 0 /\ closedACK' = TRUE
      BY <1>7, <3>2, Zenon DEF Reown, At, Goto, IInv, ServerTypes, Owning
    <3> QED BY <1>7, <3>1, <3>2, Zenon DEF Reown
  <2>3. WireTypes'
    BY <1>7, Zenon DEF Reown, IInv, WireTypes
  <2>4. Owned' /\ Turns'
    BY <1>7 DEF Reown, OwnGate, Gate!Own, At, Goto, IInv, Owned, Turns, Fresh, Starting,
       Owning, Working
  <2>5. (\A l \in Conn : Wire(l)') /\ Agreed'
    BY <1>7 DEF Reown, OwnGate, Gate!Own, At, Goto, IInv, Turns, Wire, Agreed, Working,
       NoMsg
  <2> QED BY <2>1, <2>2, <2>3, <2>4, <2>5 DEF IInv
<1>8. CASE SendAck
  <2>1. GateTypes'
    BY <1>8 DEF SendAck, IInv, GateTypes
  <2>2. ServerTypes'
    BY <1>8, MsgFields, NewMsg, Zenon DEF SendAck, Write, At, Goto, IInv, ServerTypes, Owning
  <2>3. WireTypes'
    BY <1>8, AckMsg DEF SendAck, Write, IInv, ServerTypes, WireTypes
  <2>4. Owned' /\ Turns'
    BY <1>8, Zenon DEF SendAck, Write, Goto, IInv, WireTypes, Owned, Turns, Fresh, Starting,
       Owning, Working
  <2>5. (\A l \in Conn : Wire(l)') /\ Agreed'
    BY <1>8 DEF SendAck, Write, At, Goto, IInv, ServerTypes, WireTypes, Turns, Wire, Agreed,
       Working, Msg, NoMsg
  <2> QED BY <2>1, <2>2, <2>3, <2>4, <2>5 DEF IInv
<1>9. CASE EndSession
  <2>1. GateTypes'
    BY <1>9, GateSection, Zenon DEF EndSession, At, IInv, ServerTypes
  <2>2. ServerTypes'
    BY <1>9, Zenon DEF EndSession, At, Goto, IInv, ServerTypes
  <2>3. WireTypes'
    BY <1>9, Zenon DEF EndSession, IInv, WireTypes
  <2>4. Owned' /\ Turns'
    BY <1>9, Zenon DEF EndSession, CloseGateFor, Gate!Invalidate, Goto, IInv, Owned, Turns, Fresh,
       Starting, Working
  <2>5. (\A l \in Conn : Wire(l)') /\ Agreed'
    BY <1>9, Zenon DEF EndSession, CloseGateFor, Gate!Invalidate, Goto, IInv, Wire, Agreed
  <2> QED BY <2>1, <2>2, <2>3, <2>4, <2>5 DEF IInv
<1>10. CASE HangUp
  <2>1. GateTypes'
    BY <1>10, Zenon DEF HangUp, IInv, GateTypes
  <2>2. ServerTypes'
    BY <1>10, NewMsg, Zenon DEF HangUp, Goto, IInv, ServerTypes
  <2>3. WireTypes'
    BY <1>10, NewMsg, Zenon DEF HangUp, IInv, WireTypes
  <2>4. Owned' /\ Turns'
    BY <1>10, Zenon DEF HangUp, At, Goto, IInv, WireTypes, Owned, Turns, Fresh, Starting, Owning,
       Working
  <2>5. (\A l \in Conn : Wire(l)') /\ Agreed'
    BY <1>10, Zenon DEF HangUp, Goto, IInv, WireTypes, Wire, Agreed, NoMsg
  <2> QED BY <2>1, <2>2, <2>3, <2>4, <2>5 DEF IInv
<1>11. CASE Exit
  <2>1. GateTypes'
    BY <1>11, Zenon DEF Exit, Gate!Invalidate, IInv, GateTypes
  <2>2. ServerTypes'
    BY <1>11, Zenon DEF Exit, At, Goto, IInv, ServerTypes
  <2>3. WireTypes'
    BY <1>11, MsgFields, NewMsg, Zenon DEF Exit, Gate!Invalidate, At, Goto, IInv, ServerTypes,
       WireTypes, Actions
  <2>4. Owned' /\ Turns'
    BY <1>11, Zenon DEF Exit, Gate!Invalidate, Goto, IInv, Owned, Turns, Fresh, Starting, Working
  <2>5. (\A l \in Conn : Wire(l)') /\ Agreed'
    BY <1>11, Zenon DEF Exit, Gate!Invalidate, Goto, IInv, Wire, Agreed
  <2> QED BY <2>1, <2>2, <2>3, <2>4, <2>5 DEF IInv
<1> QED BY <1>1, <1>2, <1>3, <1>4, <1>5, <1>6, <1>7, <1>8, <1>9, <1>10, <1>11 DEF ServerStep

\* A new connection, the stop of the server, the gate's own life and time.
LEMMA OtherStep ==
  ASSUME IInv, \/ \E k \in Conn : Accept(k)
         \/ Stop \/ StopGate \/ Handlers \/ CleanupDone \/ ScopeInvalidated \/ Tick
         \/ UNCHANGED vars
  PROVE  IInv'
<1> USE DEF gate, server, stopping, wire, controller
<1>1. CASE \E k \in Conn : Accept(k)
  <2>1. GateTypes'
    BY <1>1, Zenon DEF Accept, IInv, GateTypes
  <2>2. ServerTypes'
    BY <1>1, NewMsg DEF Accept, At, Goto, IInv, ServerTypes, Starting
  <2>3. WireTypes'
    BY <1>1, Zenon DEF Accept, IInv, WireTypes
  <2>4. Owned' /\ Turns'
    BY <1>1 DEF Accept, At, Goto, IInv, ServerTypes, WireTypes, Owned, Turns, Fresh, Working
  <2>5. (\A l \in Conn : Wire(l)') /\ Agreed'
    BY <1>1 DEF Accept, Goto, IInv, Wire, Agreed, Actions
  <2> QED BY <2>1, <2>2, <2>3, <2>4, <2>5 DEF IInv
<1>2. CASE Stop
  <2>1. GateTypes'
    BY <1>2, Zenon DEF Stop, IInv, GateTypes
  <2>2. ServerTypes'
    BY <1>2, Zenon DEF Stop, IInv, ServerTypes
  <2>3. WireTypes'
    BY <1>2, Zenon DEF Stop, IInv, WireTypes
  <2>4. Owned' /\ Turns'
    BY <1>2, Zenon DEF Stop, IInv, Owned, Turns, Fresh
  <2>5. (\A l \in Conn : Wire(l)') /\ Agreed'
    BY <1>2, Zenon DEF Stop, IInv, Wire, Agreed
  <2> QED BY <2>1, <2>2, <2>3, <2>4, <2>5 DEF IInv
<1>3. CASE StopGate
  <2>1. GateTypes'
    BY <1>3, Zenon DEF StopGate, Gate!Invalidate, IInv, GateTypes
  <2>2. ServerTypes'
    BY <1>3, Zenon DEF StopGate, IInv, ServerTypes
  <2>3. WireTypes'
    BY <1>3, Zenon DEF StopGate, IInv, WireTypes
  <2>4. Owned' /\ Turns'
    BY <1>3, Zenon DEF StopGate, Gate!Invalidate, IInv, Owned, Turns, Fresh
  <2>5. (\A l \in Conn : Wire(l)') /\ Agreed'
    BY <1>3, Zenon DEF StopGate, Gate!Invalidate, IInv, Wire, Agreed
  <2> QED BY <2>1, <2>2, <2>3, <2>4, <2>5 DEF IInv
<1>4. CASE Handlers
  <2>1. GateTypes'
    BY <1>4, Zenon DEF Handlers, Gate!Admit, Gate!Finish, IInv, GateTypes
  <2>2. ServerTypes'
    BY <1>4, Zenon DEF Handlers, IInv, ServerTypes
  <2>3. WireTypes'
    BY <1>4, Zenon DEF Handlers, IInv, WireTypes
  <2>4. Owned' /\ Turns'
    BY <1>4 DEF Handlers, Gate!Admit, Gate!Finish, IInv, GateTypes, ServerTypes, WireTypes,
       Owned, Turns, Wire, Agreed, Fresh, Starting, Owning, Working, Msg, NoMsg, Actions
  <2>5. (\A l \in Conn : Wire(l)') /\ Agreed'
    BY <1>4, Zenon DEF Handlers, Gate!Admit, Gate!Finish, IInv, Wire, Agreed
  <2> QED BY <2>1, <2>2, <2>3, <2>4, <2>5 DEF IInv
<1>5. CASE CleanupDone
  <2>1. GateTypes'
    BY <1>5, Zenon DEF CleanupDone, Gate!Drained, IInv, GateTypes
  <2>2. ServerTypes'
    BY <1>5, Zenon DEF CleanupDone, IInv, ServerTypes
  <2>3. WireTypes'
    BY <1>5, Zenon DEF CleanupDone, IInv, WireTypes
  <2>4. Owned' /\ Turns'
    BY <1>5, Zenon DEF CleanupDone, Gate!Drained, IInv, Owned, Turns, Fresh
  <2>5. (\A l \in Conn : Wire(l)') /\ Agreed'
    BY <1>5, Zenon DEF CleanupDone, Gate!Drained, IInv, Wire, Agreed
  <2> QED BY <2>1, <2>2, <2>3, <2>4, <2>5 DEF IInv
<1>6. CASE ScopeInvalidated
  <2>1. GateTypes'
    BY <1>6, Zenon DEF ScopeInvalidated, Gate!Invalidate, IInv, GateTypes
  <2>2. ServerTypes'
    BY <1>6, Zenon DEF ScopeInvalidated, IInv, ServerTypes
  <2>3. WireTypes'
    BY <1>6, Zenon DEF ScopeInvalidated, IInv, WireTypes
  <2>4. Owned' /\ Turns'
    BY <1>6, Zenon DEF ScopeInvalidated, Gate!Invalidate, IInv, Owned, Turns, Fresh
  <2>5. (\A l \in Conn : Wire(l)') /\ Agreed'
    BY <1>6, Zenon DEF ScopeInvalidated, Gate!Invalidate, IInv, Wire, Agreed
  <2> QED BY <2>1, <2>2, <2>3, <2>4, <2>5 DEF IInv
<1>7. CASE Tick
  <2>1. GateTypes'
    BY <1>7 DEF Tick, IInv, GateTypes
  <2>2. ServerTypes'
    BY <1>7, Zenon DEF Tick, IInv, ServerTypes
  <2>3. WireTypes'
    BY <1>7, Zenon DEF Tick, IInv, WireTypes
  <2>4. Owned' /\ Turns'
    BY <1>7, Zenon DEF Tick, IInv, Owned, Turns, Fresh
  <2>5. (\A l \in Conn : Wire(l)') /\ Agreed'
    BY <1>7, Zenon DEF Tick, IInv, Wire, Agreed
  <2> QED BY <2>1, <2>2, <2>3, <2>4, <2>5 DEF IInv
<1>8. CASE UNCHANGED vars
  <2>1. GateTypes'
    BY <1>8, Zenon DEF vars, IInv, GateTypes
  <2>2. ServerTypes'
    BY <1>8, Zenon DEF vars, IInv, ServerTypes
  <2>3. WireTypes'
    BY <1>8, Zenon DEF vars, IInv, WireTypes
  <2>4. Owned' /\ Turns'
    BY <1>8, Zenon DEF vars, IInv, Owned, Turns, Fresh
  <2>5. (\A l \in Conn : Wire(l)') /\ Agreed'
    BY <1>8, Zenon DEF vars, IInv, Wire, Agreed
  <2> QED BY <2>1, <2>2, <2>3, <2>4, <2>5 DEF IInv
<1> QED BY <1>1, <1>2, <1>3, <1>4, <1>5, <1>6, <1>7, <1>8

LEMMA NextIInv == IInv /\ [Next]_vars => IInv'
BY ControllerStep, ServerStepKeeps, OtherStep, Zenon DEF Next

LEMMA AlwaysIInv == Spec => []IInv
BY InitIInv, NextIInv, PTL DEF Spec

\* Between two sessions, and after the server's exit, nobody owns the gate
\* (control.go serve, stop).
THEOREM NobodyBetweenSessions == Spec => []NoOwnerBetweenSessions
<1>1. IInv => NoOwnerBetweenSessions
  BY DEF IInv, Owned, Owning, NoOwnerBetweenSessions
<1> QED BY <1>1, AlwaysIInv, PTL

\* Work is admitted only under a lease that the owner's controller asked for
\* and that has not ended (control.go GrantUntil, gate.go grant).
THEOREM LeaseAskedFor == Spec => []LeaseIsControllers
<1>1. IInv => LeaseIsControllers
  BY DEF IInv, Owned, LeaseIsControllers
<1> QED BY <1>1, AlwaysIInv, PTL

\* Between two commands the receiver's lease end is the one the controller saw
\* acknowledged, as long as its session owns the gate (control.go command).
THEOREM EndsAgree == Spec => []LeaseAgreement
<1>1. IInv => LeaseAgreement
  BY DEF IInv, Agreed, LeaseAgreement
<1> QED BY <1>1, AlwaysIInv, PTL

-----------------------------------------------------------------------------
(***************************************************************************)
(* Proofs about StripedGroup, for any number of command streams and groups *)
(* and for any order in which late and repeated lanes arrive.              *)
(*                                                                         *)
(* The map is deleted by identifier, so it may forget a group that is      *)
(* still being put together.  What keeps such a group from staying behind  *)
(* is that its own lanes end it: the invariant says which handler answers  *)
(* for an entry of the map and for an open target connection.              *)
(***************************************************************************)
CONSTANTS Stream, Lane(_), Group
VARIABLES hub, hubLane, wait, spent, issued, closed, answer, at, group, map, made,
          lanes, ready, target, failed, done, shut

Stripes == INSTANCE StripedGroup WITH pc <- at, sent <- issued

Primary == {"dial", "writeOK", "waitAll", "run"}
Extra == {"waitTarget", "writeExtraOK", "serve"}

Types ==
  /\ at \in [Stream -> {"new", "join", "delete", "ended"} \cup Primary \cup Extra]
  /\ group \in [Stream -> Group \cup {Stripes!None}] /\ map \in Group \cup {Stripes!None}
  /\ lanes \in [Group -> SUBSET Stream] /\ ready \in [Group -> SUBSET {0, 1}]
  /\ target \in [Group -> {"none", "open", "closed"}]
  /\ failed \subseteq done /\ done \subseteq made /\ made \subseteq Group
  /\ issued \subseteq spent /\ spent \subseteq Stream

\* A handler, its group and its place among the lanes
Where(s) ==
  /\ at[s] = "new" <=> group[s] = Stripes!None
  /\ s \notin spent \/ s \in issued => at[s] = "new"
  /\ group[s] # Stripes!None => group[s] \in made
  /\ at[s] \in Primary \cup {"delete"} => Lane(s) = 0 /\ s \in lanes[group[s]]
  /\ at[s] \in Extra => Lane(s) = 1 /\ s \in lanes[group[s]]
  /\ at[s] = "run" => 1 \in ready[group[s]]
  /\ at[s] = "run" /\ group[s] \in failed => target[group[s]] # "open"

\* The lanes of a group
Lanes(g) ==
  /\ \A s \in lanes[g] : group[s] = g /\ at[s] # "join"
  /\ \A s, t \in lanes[g] : Lane(s) = Lane(t) => s = t
  /\ g \notin done => \A s \in lanes[g] : at[s] \in Primary \cup Extra
  /\ g \in done \ failed => \E s \in lanes[g] : Lane(s) = 0 /\ at[s] \in {"delete", "ended"}
  /\ 1 \in ready[g] => \E s \in lanes[g] : Lane(s) = 1 /\ at[s] \in {"serve", "ended"}

\* Who answers for an entry of the map, and for an open target
Kept(g) ==
  /\ map = g => /\ g \in made /\ g \notin failed
                /\ g \in done => \E s \in lanes[g] : at[s] = "delete"
                /\ lanes[g] = {} => \E s \in Stream : at[s] = "join" /\ group[s] = g
  /\ target[g] = "open" => \E s \in lanes[g] : at[s] \in {"writeOK", "waitAll", "run"}

StripesIInv == Types /\ (\A s \in Stream : Where(s)) /\ \A g \in Group : Lanes(g) /\ Kept(g)

-----------------------------------------------------------------------------
\* At the start no lane has arrived.
LEMMA StripesInitIInv ==
  ASSUME Stripes!StripeConstants
  PROVE  Stripes!Init => StripesIInv
BY DEF Stripes!StripeConstants, Stripes!Init, StripesIInv, Types, Where, Lanes, Kept,
   Primary, Extra, Stripes!None

\* The steps of the hub use up streams and close them; the phone sees no change.
LEMMA HubStep ==
  ASSUME Stripes!StripeConstants, StripesIInv, (\E s \in Stream : Stripes!HubOpens(s)) \/ Stripes!HubAnswered \/ Stripes!HubTimesOut \/ Stripes!HubRelayEnds
  PROVE  StripesIInv'
<1> USE DEF Stripes!StripeConstants, StripesIInv, Primary, Extra
<1>1. Types'
  BY DEF Types, Where, Stripes!HubOpens, Stripes!HubAnswered, Stripes!HubTimesOut,
     Stripes!HubRelayEnds, Stripes!HubGivesUp, Stripes!groupVars
<1>2. ASSUME NEW t \in Stream PROVE Where(t)'
  BY DEF Types, Where, Lanes, Stripes!HubOpens, Stripes!HubAnswered, Stripes!HubTimesOut,
     Stripes!HubRelayEnds, Stripes!HubGivesUp, Stripes!groupVars
<1>3. ASSUME NEW g \in Group PROVE Lanes(g)'
  BY DEF Types, Where, Lanes, Stripes!HubOpens, Stripes!HubAnswered, Stripes!HubTimesOut,
     Stripes!HubRelayEnds, Stripes!HubGivesUp, Stripes!groupVars
<1>4. ASSUME NEW g \in Group PROVE Kept(g)'
  BY DEF Types, Where, Lanes, Kept, Stripes!HubOpens, Stripes!HubAnswered,
     Stripes!HubTimesOut, Stripes!HubRelayEnds, Stripes!HubGivesUp, Stripes!groupVars
<1> QED BY <1>1, <1>2, <1>3, <1>4

\* A lane joins the group of the map, or the new group it puts there.
LEMMA ArriveStep ==
  ASSUME Stripes!StripeConstants, StripesIInv, NEW s \in Stream, Stripes!Arrive(s)
  PROVE  StripesIInv'
<1> USE DEF Stripes!StripeConstants, StripesIInv, Primary, Extra
<1>1. PICK g \in Group :
        /\ s \in issued /\ issued' = issued \ {s} /\ at' = [at EXCEPT ![s] = "join"]
        /\ group' = [group EXCEPT ![s] = g] /\ map' = g /\ made' = made \cup {g}
        /\ g \in made => map = g
        /\ UNCHANGED <<spent, lanes, ready, target, failed, done>>
  BY DEF Stripes!Arrive, Stripes!Goto, Stripes!hubVars, Types, Kept
<1>2. at[s] = "new" /\ \A h \in Group : s \notin lanes[h]
  BY <1>1 DEF Types, Where, Lanes
<1>3. Types'
  BY <1>1 DEF Types, Where
<1>4. ASSUME NEW t \in Stream PROVE Where(t)'
  BY <1>1, <1>2 DEF Types, Where, Lanes
<1>5. ASSUME NEW h \in Group PROVE Lanes(h)'
  BY <1>1, <1>2 DEF Types, Lanes
<1>6. ASSUME NEW h \in Group PROVE Kept(h)'
  BY <1>1, <1>2 DEF Types, Where, Lanes, Kept
<1> QED BY <1>3, <1>4, <1>5, <1>6

\* A lane index is taken once.
LEMMA AttachStep ==
  ASSUME Stripes!StripeConstants, StripesIInv, NEW s \in Stream, Stripes!AttachLane(s)
  PROVE  StripesIInv'
<1> USE DEF Stripes!StripeConstants, StripesIInv, Primary, Extra
<1>1. Types'
  BY DEF Types, Where, Stripes!AttachLane, Stripes!Goto, Stripes!Answer, Stripes!hubVars
<1>2. ASSUME NEW t \in Stream PROVE Where(t)'
  BY DEF Types, Where, Lanes, Stripes!AttachLane, Stripes!Goto, Stripes!Answer, Stripes!hubVars
<1>3. ASSUME NEW g \in Group PROVE Lanes(g)'
  BY DEF Types, Where, Lanes, Stripes!AttachLane, Stripes!Goto, Stripes!Answer, Stripes!hubVars
<1>4. ASSUME NEW g \in Group PROVE Kept(g)'
  BY DEF Types, Where, Lanes, Kept, Stripes!AttachLane, Stripes!Goto, Stripes!Answer,
     Stripes!hubVars
<1> QED BY <1>1, <1>2, <1>3, <1>4

\* A failed dial ends the group.
LEMMA DialFailsStep ==
  ASSUME Stripes!StripeConstants, StripesIInv, NEW s \in Stream, Stripes!DialFails(s)
  PROVE  StripesIInv'
<1> USE DEF Stripes!StripeConstants, StripesIInv, Primary, Extra
<1>1. Types'
  BY DEF Types, Where, Stripes!DialFails, Stripes!Fail, Stripes!End, Stripes!Goto,
     Stripes!Answer, Stripes!hubVars
<1>2. ASSUME NEW t \in Stream PROVE Where(t)'
  BY DEF Types, Where, Lanes, Stripes!DialFails, Stripes!Fail, Stripes!End, Stripes!Goto,
     Stripes!Answer, Stripes!hubVars
<1>3. ASSUME NEW g \in Group PROVE Lanes(g)'
  BY DEF Types, Where, Lanes, Stripes!DialFails, Stripes!Fail, Stripes!End, Stripes!Goto,
     Stripes!Answer, Stripes!hubVars
<1>4. ASSUME NEW g \in Group PROVE Kept(g)'
  BY DEF Types, Where, Lanes, Kept, Stripes!DialFails, Stripes!Fail, Stripes!End,
     Stripes!Goto, Stripes!Answer, Stripes!hubVars
<1> QED BY <1>1, <1>2, <1>3, <1>4

\* A dialled target is in the care of the primary lane, also in a group that failed.
LEMMA DialSucceedsStep ==
  ASSUME Stripes!StripeConstants, StripesIInv, NEW s \in Stream, Stripes!DialSucceeds(s)
  PROVE  StripesIInv'
<1> USE DEF Stripes!StripeConstants, StripesIInv, Primary, Extra
<1>1. Types'
  BY Zenon DEF Types, Where, Stripes!DialSucceeds, Stripes!Goto, Stripes!hubVars
<1>2. ASSUME NEW t \in Stream PROVE Where(t)'
  BY DEF Types, Where, Lanes, Stripes!DialSucceeds, Stripes!Goto, Stripes!hubVars
<1>3. ASSUME NEW g \in Group PROVE Lanes(g)'
  BY DEF Types, Where, Lanes, Stripes!DialSucceeds, Stripes!Goto, Stripes!hubVars
<1>4. ASSUME NEW g \in Group PROVE Kept(g)'
  BY DEF Types, Where, Lanes, Kept, Stripes!DialSucceeds, Stripes!Goto, Stripes!hubVars
<1> QED BY <1>1, <1>2, <1>3, <1>4

\* The answer of a lane is written, or the group ends.
LEMMA WriteOKStep ==
  ASSUME Stripes!StripeConstants, StripesIInv, NEW s \in Stream, Stripes!WriteOK(s)
  PROVE  StripesIInv'
<1> USE DEF Stripes!StripeConstants, StripesIInv, Primary, Extra
<1>1. Types'
  BY DEF Types, Where, Stripes!WriteOK, Stripes!Fail, Stripes!End, Stripes!Goto,
     Stripes!Answer, Stripes!hubVars
<1>2. ASSUME NEW t \in Stream PROVE Where(t)'
  BY DEF Types, Where, Lanes, Stripes!WriteOK, Stripes!Fail, Stripes!End, Stripes!Goto,
     Stripes!Answer, Stripes!hubVars
<1>3. ASSUME NEW g \in Group PROVE Lanes(g)'
  BY DEF Types, Where, Lanes, Stripes!WriteOK, Stripes!Fail, Stripes!End, Stripes!Goto,
     Stripes!Answer, Stripes!hubVars
<1>4. ASSUME NEW g \in Group PROVE Kept(g)'
  BY DEF Types, Where, Lanes, Kept, Stripes!WriteOK, Stripes!Fail, Stripes!End,
     Stripes!Goto, Stripes!Answer, Stripes!hubVars
<1> QED BY <1>1, <1>2, <1>3, <1>4

\* The relay starts only in a group that has not failed and whose extra lane serves.
LEMMA AllReadyStep ==
  ASSUME Stripes!StripeConstants, StripesIInv, NEW s \in Stream, Stripes!AllReady(s)
  PROVE  StripesIInv'
<1> USE DEF Stripes!StripeConstants, StripesIInv, Primary, Extra
<1>1. Types'
  BY DEF Types, Where, Stripes!AllReady, Stripes!Fail, Stripes!End, Stripes!Goto, Stripes!hubVars
<1>2. ASSUME NEW t \in Stream PROVE Where(t)'
  BY DEF Types, Where, Lanes, Stripes!AllReady, Stripes!Fail, Stripes!End, Stripes!Goto,
     Stripes!hubVars
<1>3. ASSUME NEW g \in Group PROVE Lanes(g)'
  BY DEF Types, Where, Lanes, Stripes!AllReady, Stripes!Fail, Stripes!End, Stripes!Goto,
     Stripes!hubVars
<1>4. ASSUME NEW g \in Group PROVE Kept(g)'
  BY DEF Types, Where, Lanes, Kept, Stripes!AllReady, Stripes!Fail, Stripes!End,
     Stripes!Goto, Stripes!hubVars
<1> QED BY <1>1, <1>2, <1>3, <1>4

\* A wait that takes too long ends the group.
LEMMA TimeoutStep ==
  ASSUME Stripes!StripeConstants, StripesIInv, NEW s \in Stream, Stripes!WaitTimesOut(s)
  PROVE  StripesIInv'
<1> USE DEF Stripes!StripeConstants, StripesIInv, Primary, Extra
<1>1. Types'
  BY DEF Types, Where, Stripes!WaitTimesOut, Stripes!Fail, Stripes!End, Stripes!Goto,
     Stripes!Answer, Stripes!hubVars
<1>2. ASSUME NEW t \in Stream PROVE Where(t)'
  BY DEF Types, Where, Lanes, Stripes!WaitTimesOut, Stripes!Fail, Stripes!End, Stripes!Goto,
     Stripes!Answer, Stripes!hubVars
<1>3. ASSUME NEW g \in Group PROVE Lanes(g)'
  BY DEF Types, Where, Lanes, Stripes!WaitTimesOut, Stripes!Fail, Stripes!End, Stripes!Goto,
     Stripes!Answer, Stripes!hubVars
<1>4. ASSUME NEW g \in Group PROVE Kept(g)'
  BY DEF Types, Where, Lanes, Kept, Stripes!WaitTimesOut, Stripes!Fail, Stripes!End,
     Stripes!Goto, Stripes!Answer, Stripes!hubVars
<1> QED BY <1>1, <1>2, <1>3, <1>4

\* An extra lane sees the target or the end of its group.
LEMMA TargetReadyStep ==
  ASSUME Stripes!StripeConstants, StripesIInv, NEW s \in Stream, Stripes!TargetReady(s)
  PROVE  StripesIInv'
<1> USE DEF Stripes!StripeConstants, StripesIInv, Primary, Extra
<1>1. Types'
  BY DEF Types, Where, Stripes!TargetReady, Stripes!Goto, Stripes!Answer, Stripes!hubVars,
     Stripes!groupVars
<1>2. ASSUME NEW t \in Stream PROVE Where(t)'
  BY DEF Types, Where, Lanes, Stripes!TargetReady, Stripes!Goto, Stripes!Answer,
     Stripes!hubVars, Stripes!groupVars
<1>3. ASSUME NEW g \in Group PROVE Lanes(g)'
  BY DEF Types, Where, Lanes, Stripes!TargetReady, Stripes!Goto, Stripes!Answer,
     Stripes!hubVars, Stripes!groupVars
<1>4. ASSUME NEW g \in Group PROVE Kept(g)'
  BY DEF Types, Where, Lanes, Kept, Stripes!TargetReady, Stripes!Goto, Stripes!Answer,
     Stripes!hubVars, Stripes!groupVars
<1> QED BY <1>1, <1>2, <1>3, <1>4

\* The session of a serving lane ends and takes the group with it.
LEMMA ServingStep ==
  ASSUME Stripes!StripeConstants, StripesIInv, NEW s \in Stream, Stripes!ServingSessionEnds(s)
  PROVE  StripesIInv'
<1> USE DEF Stripes!StripeConstants, StripesIInv, Primary, Extra
<1>1. Types'
  BY DEF Types, Where, Stripes!ServingSessionEnds, Stripes!Fail, Stripes!Goto, Stripes!hubVars
<1>2. ASSUME NEW t \in Stream PROVE Where(t)'
  BY DEF Types, Where, Lanes, Stripes!ServingSessionEnds, Stripes!Fail, Stripes!Goto,
     Stripes!hubVars
<1>3. ASSUME NEW g \in Group PROVE Lanes(g)'
  BY DEF Types, Where, Lanes, Stripes!ServingSessionEnds, Stripes!Fail, Stripes!Goto,
     Stripes!hubVars
<1>4. ASSUME NEW g \in Group PROVE Kept(g)'
  BY DEF Types, Where, Lanes, Kept, Stripes!ServingSessionEnds, Stripes!Fail, Stripes!Goto,
     Stripes!hubVars
<1> QED BY <1>1, <1>2, <1>3, <1>4

\* A relay, a served lane and the deferred delete come to their end.
LEMMA EndStep ==
  ASSUME Stripes!StripeConstants, StripesIInv, NEW s \in Stream, Stripes!RunEnds(s) \/ Stripes!LaneReleased(s) \/ Stripes!DeferredDelete(s)
  PROVE  StripesIInv'
<1> USE DEF Stripes!StripeConstants, StripesIInv, Primary, Extra
<1>1. Types'
  BY DEF Types, Where, Stripes!RunEnds, Stripes!LaneReleased, Stripes!DeferredDelete,
     Stripes!End, Stripes!Goto, Stripes!hubVars, Stripes!groupVars
<1>2. ASSUME NEW t \in Stream PROVE Where(t)'
  BY DEF Types, Where, Lanes, Stripes!RunEnds, Stripes!LaneReleased, Stripes!DeferredDelete,
     Stripes!End, Stripes!Goto, Stripes!hubVars, Stripes!groupVars
<1>3. ASSUME NEW g \in Group PROVE Lanes(g)'
  BY DEF Types, Where, Lanes, Stripes!RunEnds, Stripes!LaneReleased, Stripes!DeferredDelete,
     Stripes!End, Stripes!Goto, Stripes!hubVars, Stripes!groupVars
<1>4. ASSUME NEW g \in Group PROVE Kept(g)'
  BY DEF Types, Where, Lanes, Kept, Stripes!RunEnds, Stripes!LaneReleased,
     Stripes!DeferredDelete, Stripes!End, Stripes!Goto, Stripes!hubVars, Stripes!groupVars
<1> QED BY <1>1, <1>2, <1>3, <1>4

\* Every step of the hub and of every handler keeps the invariant.
LEMMA StripesNextIInv ==
  ASSUME Stripes!StripeConstants
  PROVE  StripesIInv /\ [Stripes!Next]_(Stripes!vars) => StripesIInv'
<1> SUFFICES ASSUME StripesIInv, [Stripes!Next]_(Stripes!vars) PROVE StripesIInv'
  OBVIOUS
<1>1. CASE UNCHANGED Stripes!vars
  BY <1>1 DEF Stripes!vars, StripesIInv, Types, Where, Lanes, Kept
<1>2. ASSUME NEW s \in Stream, Stripes!HubOpens(s) \/ Stripes!Arrive(s) \/ Stripes!Handler(s)
                            \/ Stripes!RunEnds(s) \/ Stripes!ServingSessionEnds(s)
      PROVE  StripesIInv'
  BY <1>2, HubStep, ArriveStep, AttachStep, DialFailsStep, DialSucceedsStep, WriteOKStep,
     AllReadyStep, TimeoutStep, TargetReadyStep, ServingStep, EndStep, Zenon DEF Stripes!Handler
<1>3. CASE Stripes!HubAnswered \/ Stripes!HubTimesOut \/ Stripes!HubRelayEnds
  BY <1>3, HubStep
<1> QED BY <1>1, <1>2, <1>3 DEF Stripes!Next

\* When every handler has ended, the phone keeps no group and no connection to
\* the target, whatever lanes were repeated or came late.
THEOREM StripedLeavesNothing ==
  ASSUME Stripes!StripeConstants
  PROVE  Stripes!Spec => []Stripes!NothingLeftBehind
<1>1. StripesIInv => Stripes!NothingLeftBehind
  BY DEF Stripes!StripeConstants, StripesIInv, Types, Where, Lanes, Kept, Primary, Extra,
     Stripes!NothingLeftBehind
<1> QED BY <1>1, StripesInitIInv, StripesNextIInv, PTL DEF Stripes!Spec

\* The target of a group that failed is open only while its primary lane is on
\* the way to notice.
THEOREM FailedGroupsClose ==
  ASSUME Stripes!StripeConstants
  PROVE  Stripes!Spec => []Stripes!FailedGroupsHoldNoTarget
<1>1. StripesIInv => Stripes!FailedGroupsHoldNoTarget
  BY DEF Stripes!StripeConstants, StripesIInv, Types, Where, Lanes, Kept, Primary,
     Stripes!FailedGroupsHoldNoTarget
<1> QED BY <1>1, StripesInitIInv, StripesNextIInv, PTL DEF Stripes!Spec
=============================================================================
