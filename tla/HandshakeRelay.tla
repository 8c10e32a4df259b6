---------------------------- MODULE HandshakeRelay ----------------------------
(***************************************************************************)
(* The phone's relay of a CONNECT with its first-byte watchdog             *)
(* (egress/reverse, main.go handshakeRelay): when the first payload of the *)
(* client is a TLS ClientHello and the target stays silent, the target is  *)
(* dialled again and the buffered client bytes are replayed to it.         *)
(*                                                                         *)
(* The writer copies client chunks to the current target, the reader       *)
(* copies target bytes to the client and swaps the target.  The relay of   *)
(* an authenticated session (Secure) releases the state lock while it      *)
(* writes to the network and serialises its writes by writeMu; the legacy  *)
(* relay holds the lock.  Chunks are numbered; a target's read deadline is *)
(* three seconds and a secure write's thirty, so a write only times out    *)
(* after the reader has dealt with the read deadline of that target.       *)
(***************************************************************************)
EXTENDS Integers, Sequences

CONSTANTS
    Secure,      \* relay.secure: a session context is given
    MaxDials,    \* handshakeMaxDials
    ReplayLimit, \* handshakeReplayLimit, in chunks
    Chunks       \* chunks the client sends at most

RelayAssumption == Secure \in BOOLEAN /\ {MaxDials, ReplayLimit, Chunks} \subseteq Nat /\ MaxDials > 0

Dial == 1..MaxDials

VARIABLES
    tls,         \* the first chunk is a ClientHello
    sent,        \* chunks read from the client
    conn,        \* dial -> "none", "open", "closed": the phone's connections
    broken,      \* dials whose network path is gone: writes to them fail
    recv,        \* dial -> chunks written to it
    heard,       \* dials whose bytes were given to the client
    target,      \* relay.target
    replay, replayOK, armed, settled, closed,   \* the relay's fields
    deadline,    \* the reader's target has a read deadline
    reader,      \* "read", "redial", "swap", "replaying", "end"
    readerTarget, dials,
    writer,      \* "read", "writing", "end"
    writing,     \* the target of the running write or replay, or 0
    writeMu      \* "free", "writer", "reader"

vars == <<tls, sent, conn, broken, recv, heard, target, replay, replayOK, armed, settled, closed,
          deadline, reader, readerTarget, dials, writer, writing, writeMu>>

Init ==
    /\ tls \in BOOLEAN /\ sent = 0
    /\ conn = [d \in Dial |-> IF d = 1 THEN "open" ELSE "none"] /\ broken = {}
    /\ recv = [d \in Dial |-> <<>>] /\ heard = {} /\ target = 1
    /\ replay = <<>> /\ replayOK = TRUE /\ armed = FALSE /\ settled = FALSE /\ closed = FALSE
    /\ deadline = FALSE /\ reader = "read" /\ readerTarget = 1 /\ dials = 1
    /\ writer = "read" /\ writing = 0 /\ writeMu = "free"

\* closeBoth, once: the relay is closed and with it the target it has now.
CloseBoth ==
    /\ closed' = TRUE
    /\ conn' = IF closed THEN conn ELSE [conn EXCEPT ![target] = "closed"]

Deliver(d, chunks) == recv' = [recv EXCEPT ![d] = @ \o chunks]
CanWrite(d) == conn[d] = "open" /\ d \notin broken

-----------------------------------------------------------------------------
(* The writer.                                                             *)

\* writeToTarget up to the write: arms on a ClientHello, buffers for a replay.
Note(chunk) ==
    LET first == sent = 0
        arms == replayOK /\ ~settled /\ first /\ tls
        ok == replayOK /\ ~settled /\ (first => tls) /\ Len(replay) < ReplayLimit
    IN  /\ armed' = (armed \/ arms)
        /\ deadline' = (deadline \/ arms)
        /\ replayOK' = IF settled THEN replayOK ELSE ok
        /\ replay' = IF settled THEN replay ELSE IF ok THEN Append(replay, chunk) ELSE <<>>

\* A failed write is swallowed while the watchdog will replay the bytes.
Swallow == armed /\ replayOK /\ ~settled /\ ~closed

\* A chunk from the client.  The legacy relay writes it in the same critical
\* section, the secure relay after releasing the lock.
ClientSends ==
    /\ writer = "read" /\ sent < Chunks /\ (Secure => writeMu = "free")
    /\ (~Secure => reader # "replaying")
    /\ sent' = sent + 1
    /\ IF closed
       THEN /\ writer' = "end" /\ UNCHANGED <<armed, deadline, replayOK, replay, writing, writeMu>>
       ELSE /\ Note(sent + 1) /\ writer' = "writing" /\ writing' = target
            /\ writeMu' = IF Secure THEN "writer" ELSE writeMu
    /\ UNCHANGED <<tls, conn, broken, recv, heard, target, settled, closed, reader, readerTarget, dials>>

\* The write returns.  In the legacy relay nothing else happens in between.
WriteOK ==
    /\ writer = "writing" /\ CanWrite(writing)
    /\ Deliver(writing, <<sent>>) /\ writer' = "read" /\ writing' = 0
    /\ writeMu' = "free"
    /\ UNCHANGED <<tls, sent, conn, broken, heard, target, replay, replayOK, armed, settled, closed,
                   deadline, reader, readerTarget, dials>>

\* It fails: the target is gone, or (secure) does not read for thirty seconds.
WriteFails ==
    /\ writer = "writing"
    /\ ~CanWrite(writing) \/ (Secure /\ ~(reader = "read" /\ deadline))
    /\ writer' = IF Swallow THEN "read" ELSE "end"
    /\ writing' = 0 /\ writeMu' = "free"
    /\ UNCHANGED <<tls, sent, conn, broken, recv, heard, target, replay, replayOK, armed, settled, closed,
                   deadline, reader, readerTarget, dials>>

\* In the legacy relay the lock is held from ClientSends to the write's end.
LockFree == Secure \/ writer # "writing"

\* The client closes, or the writer's loop ended: closeBoth.
WriterEnds ==
    /\ writer \in {"read", "end"} /\ writer' = "ended" /\ CloseBoth
    /\ (reader = "replaying" => Secure)
    /\ UNCHANGED <<tls, sent, broken, recv, heard, target, replay, replayOK, armed, settled, deadline,
                   reader, readerTarget, dials, writing, writeMu>>

-----------------------------------------------------------------------------
(* The reader.                                                             *)

\* Bytes from the target: the first ones settle the relay.
TargetAnswers ==
    /\ reader = "read" /\ conn[readerTarget] = "open" /\ readerTarget \notin broken
    /\ LockFree
    /\ settled' = TRUE /\ replayOK' = FALSE /\ replay' = <<>> /\ deadline' = FALSE
    /\ heard' = heard \cup {readerTarget}
    /\ UNCHANGED <<tls, sent, conn, broken, recv, target, armed, closed, reader, readerTarget, dials,
                   writer, writing, writeMu>>

Retryable == armed /\ replayOK /\ ~settled /\ ~closed /\ replay # <<>>

\* The read fails: reset or closed; or the deadline passes.  Then the target is
\* dialled again, or the watchdog disarmed, or the relay ends.
ReadFails(timeout) ==
    /\ reader = "read" /\ LockFree
    /\ IF timeout THEN deadline ELSE conn[readerTarget] = "closed" \/ readerTarget \in broken
    /\ IF Retryable /\ dials < MaxDials
       THEN reader' = "redial" /\ UNCHANGED <<armed, replayOK, replay, deadline>>
       ELSE IF timeout /\ armed /\ ~settled /\ ~closed
       THEN /\ armed' = FALSE /\ replayOK' = FALSE /\ replay' = <<>> /\ deadline' = FALSE
            /\ UNCHANGED reader
       ELSE reader' = "end" /\ UNCHANGED <<armed, replayOK, replay, deadline>>
    /\ UNCHANGED <<tls, sent, conn, broken, recv, heard, target, settled, closed, readerTarget, dials,
                   writer, writing, writeMu>>

Redial ==
    /\ reader = "redial"
    /\ \/ /\ conn' = [conn EXCEPT ![dials + 1] = "open"] /\ dials' = dials + 1 /\ reader' = "swap"
       \/ reader' = "end" /\ UNCHANGED <<conn, dials>>
    /\ UNCHANGED <<tls, sent, broken, recv, heard, target, replay, replayOK, armed, settled, closed,
                   deadline, readerTarget, writer, writing, writeMu>>

\* swapTarget: the new connection replaces the old one and the replay begins.
SwapTarget ==
    /\ reader = "swap" /\ LockFree /\ (Secure => writeMu = "free")
    /\ IF closed \/ ~replayOK \/ settled
       THEN /\ conn' = [conn EXCEPT ![dials] = "closed"] /\ reader' = "end"
            /\ UNCHANGED <<target, deadline, writing, writeMu>>
       ELSE /\ target' = dials /\ conn' = [conn EXCEPT ![target] = "closed"]
            /\ deadline' = TRUE /\ reader' = "replaying" /\ writing' = dials
            /\ writeMu' = IF Secure THEN "reader" ELSE writeMu
    /\ UNCHANGED <<tls, sent, broken, recv, heard, replay, replayOK, armed, settled, closed,
                   readerTarget, dials, writer>>

\* The replayed bytes, copied before the lock was released.
Replay(ok) ==
    /\ reader = "replaying" /\ (ok => CanWrite(writing))
    /\ ok \/ ~CanWrite(writing) \/ Secure
    /\ IF ok THEN Deliver(writing, replay) ELSE UNCHANGED recv
    /\ reader' = IF ok THEN "read" ELSE "end"
    /\ readerTarget' = IF ok THEN dials ELSE readerTarget
    /\ writing' = 0 /\ writeMu' = "free"
    /\ UNCHANGED <<tls, sent, conn, broken, heard, target, replay, replayOK, armed, settled, closed,
                   deadline, dials, writer>>

\* The reader's loop ended, or a write to the client failed: closeBoth.
ReaderEnds ==
    /\ reader \in {"end", "read"} /\ (reader = "read" => settled) /\ LockFree
    /\ reader' = "ended" /\ CloseBoth
    /\ UNCHANGED <<tls, sent, broken, recv, heard, target, replay, replayOK, armed, settled, deadline,
                   readerTarget, dials, writer, writing, writeMu>>

-----------------------------------------------------------------------------
\* The path to a target breaks: black-holed by the network, then reset.
Break(d) ==
    /\ conn[d] = "open" /\ d \notin broken /\ broken' = broken \cup {d}
    /\ UNCHANGED <<tls, sent, conn, recv, heard, target, replay, replayOK, armed, settled, closed,
                   deadline, reader, readerTarget, dials, writer, writing, writeMu>>

\* The authenticated session ends: AfterFunc(ctx, closeBoth).
SessionEnds ==
    /\ Secure /\ ~closed /\ CloseBoth
    /\ UNCHANGED <<tls, sent, broken, recv, heard, target, replay, replayOK, armed, settled, deadline,
                   reader, readerTarget, dials, writer, writing, writeMu>>

Next ==
    \/ ClientSends \/ WriteOK \/ WriteFails \/ WriterEnds
    \/ TargetAnswers \/ (\E t \in BOOLEAN : ReadFails(t)) \/ Redial \/ SwapTarget
    \/ (\E ok \in BOOLEAN : Replay(ok)) \/ ReaderEnds
    \/ (\E d \in Dial : Break(d)) \/ SessionEnds

Spec == Init /\ [][Next]_vars

-----------------------------------------------------------------------------
TypeOK ==
    /\ conn \in [Dial -> {"none", "open", "closed"}] /\ target \in 1..dials /\ dials \in Dial
    /\ Len(replay) <= ReplayLimit /\ (replay # <<>> => replayOK)
    /\ writing \in 0..dials /\ (Secure => (writeMu = "writer") = (writer = "writing"))

\* The client never gets bytes of two targets: after the first answer nothing
\* is dialled or replayed any more (settle, retryable).
OneTargetAnswers == \A d, e \in heard : d = e

\* The target that answers has received the client's bytes from the first one
\* on, without a gap and without a repetition, whatever was swallowed, replayed
\* or written while it was being swapped in (writeToTarget, swapTarget).
AnsweringTargetHasThePrefix ==
    \A d \in heard : \A i \in 1..Len(recv[d]) : recv[d][i] = i

\* What does not begin with a ClientHello is never sent to a second target: a
\* replayed plain request could take effect twice.
PlainRequestsNotRepeated == ~tls => dials = 1

\* When both loops have returned, every connection that was dialled is closed,
\* also one that was being swapped in when the relay was closed.
NoConnectionLeft ==
    reader = "ended" /\ writer = "ended" => \A d \in Dial : conn[d] # "open"
=============================================================================
