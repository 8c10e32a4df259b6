----------------------------- MODULE WriteFence -----------------------------
(***************************************************************************)
(* writeFencedConn of shared/proxygate/write_fence.go: one attached        *)
(* upstream connection, whose writes and deadline updates need a permit    *)
(* that is decided under the gate's lock, against the revocation of its    *)
(* scope and against its Close.  A section under Gate.mu is one step, and  *)
(* so is each call of the transport; deadlineMu is a lock of its own.      *)
(*                                                                         *)
(* A writer is a goroutine in Write, a setter one in SetDeadline with a    *)
(* zero or future time, a revoker one in SetDeadline with a past time      *)
(* (finishCleanup, once the scope is revoked, and AttachFenced on a scope  *)
(* that is closed already, which never hands the connection out).          *)
(***************************************************************************)
CONSTANTS Writer, Setter, Revoker,
          Closer,    \* the one caller that closeOnce lets in
          NoOne      \* deadlineMu is free

Caller == Writer \cup Setter \cup Revoker

\* The callers of the three kinds are apart, and the two names are nobody's.
ASSUME CallerAssumption ==
    /\ Writer \cap Setter = {} /\ Writer \cap Revoker = {} /\ Setter \cap Revoker = {}
    /\ Closer \notin Caller /\ NoOne \notin Caller \cup {Closer}

VARIABLES
    late,         \* AttachFenced found the scope closed
    scope,        \* "live", "lapsed" (the lease ran out) or "revoked"
    closed, completed,
    writeActive, deadlineActive, revokerActive,
    operations,   \* callers counted by the WaitGroup
    deadlineMu,
    deadline,     \* the transport's deadline: "clear", "future" or "past"
    transport,    \* "open" or "closed"
    pc,
    swept         \* finishCleanup has returned from SetDeadline of this connection

fenceVars == <<late, scope, closed, completed, writeActive, deadlineActive, revokerActive,
          operations, deadlineMu, deadline, transport, pc, swept>>
env == <<late, scope>>
permits == <<writeActive, deadlineActive, revokerActive, operations>>
fence == <<closed, completed, transport>>

FenceInit ==
    /\ late \in BOOLEAN /\ swept = FALSE
    /\ scope \in (IF late THEN {"lapsed", "revoked"} ELSE {"live"})
    /\ closed = FALSE /\ completed = FALSE /\ transport = "open"
    /\ writeActive = FALSE /\ deadlineActive = FALSE /\ revokerActive = FALSE
    /\ operations = {} /\ deadlineMu = NoOne /\ deadline = "clear"
    /\ pc = [c \in Caller \cup {Closer} |-> "idle"]

\* Mutant: only Close ends the life of the connection, not its scope.
LiveUntilClosed == ~closed

FenceLiveLocked == ~closed /\ scope = "live"

Goto(c, l) == pc' = [pc EXCEPT ![c] = l]

-----------------------------------------------------------------------------
\* The scope around the connection: the lease may lapse and be renewed, and
\* invalidation is final for this registration.

Lapse == scope = "live" /\ scope' = "lapsed"
         /\ UNCHANGED <<late, permits, fence, deadlineMu, deadline, pc, swept>>
Renew == scope = "lapsed" /\ scope' = "live"
         /\ UNCHANGED <<late, permits, fence, deadlineMu, deadline, pc, swept>>
Revoke == scope # "revoked" /\ scope' = "revoked"
          /\ UNCHANGED <<late, permits, fence, deadlineMu, deadline, pc, swept>>

-----------------------------------------------------------------------------
\* begin and end of a permit

FenceBeginWrite(w) ==
    /\ pc[w] = "idle" /\ ~late /\ FenceLiveLocked /\ ~writeActive
    /\ writeActive' = TRUE
    /\ operations' = operations \cup {w}
    /\ Goto(w, "write")
    /\ UNCHANGED <<env, fence, deadlineActive, revokerActive, deadlineMu, deadline, swept>>

BeginDeadline(d) ==
    /\ pc[d] = "idle" /\ ~late /\ FenceLiveLocked /\ ~deadlineActive
    /\ deadlineActive' = TRUE
    /\ operations' = operations \cup {d}
    /\ Goto(d, "lock")
    /\ UNCHANGED <<env, fence, writeActive, revokerActive, deadlineMu, deadline, swept>>

\* Mutant: a past deadline needs the same live scope as any other.
BeginRevokerLive(v) ==
    /\ pc[v] = "idle" /\ (late \/ scope = "revoked") /\ FenceLiveLocked /\ ~revokerActive
    /\ revokerActive' = TRUE
    /\ operations' = operations \cup {v}
    /\ Goto(v, "lock")
    /\ UNCHANGED <<env, fence, writeActive, deadlineActive, deadlineMu, deadline, swept>>

\* A past deadline needs no live scope; only one revoker may wait.
BeginRevoker(v) ==
    /\ pc[v] = "idle" /\ (late \/ scope = "revoked") /\ ~closed /\ ~revokerActive
    /\ revokerActive' = TRUE
    /\ operations' = operations \cup {v}
    /\ Goto(v, "lock")
    /\ UNCHANGED <<env, fence, writeActive, deadlineActive, deadlineMu, deadline, swept>>

\* finishCleanup ignores the error of a refused past deadline.
RevokerRefused(v) ==
    /\ pc[v] = "idle" /\ scope = "revoked" /\ (closed \/ revokerActive)
    /\ swept' = TRUE
    /\ UNCHANGED <<env, fence, permits, deadlineMu, deadline, pc>>

End(c) ==
    /\ pc[c] = "end"
    /\ writeActive' = (writeActive /\ c \notin Writer)
    /\ deadlineActive' = (deadlineActive /\ c \notin Setter)
    /\ revokerActive' = (revokerActive /\ c \notin Revoker)
    /\ Goto(c, "done")
    /\ UNCHANGED <<env, fence, operations, deadlineMu, deadline, swept>>

Done(c) ==
    /\ pc[c] = "done"
    /\ operations' = operations \ {c}
    /\ swept' = (swept \/ (c \in Revoker /\ scope = "revoked"))
    /\ Goto(c, "idle")
    /\ UNCHANGED <<env, fence, writeActive, deadlineActive, revokerActive,
                   deadlineMu, deadline>>

\* Conn.Write: a stalled peer can hold it for ever unless the deadline has
\* passed or the transport is closed.
WriteReturns(w) ==
    /\ pc[w] = "write"
    /\ Goto(w, "end")
    /\ UNCHANGED <<env, fence, permits, deadlineMu, deadline, swept>>

-----------------------------------------------------------------------------
\* updateDeadline under deadlineMu

LockDeadline(c) ==
    /\ pc[c] = "lock" /\ deadlineMu = NoOne
    /\ deadlineMu' = c
    /\ Goto(c, IF c \in Setter THEN "check" ELSE "past")
    /\ UNCHANGED <<env, fence, permits, deadline, swept>>

CheckLive(d) ==
    /\ pc[d] = "check"
    /\ Goto(d, IF FenceLiveLocked THEN "set" ELSE "past")
    /\ UNCHANGED <<env, fence, permits, deadlineMu, deadline, swept>>

SetDeadline(d) ==
    /\ pc[d] = "set"
    /\ \E t \in {"clear", "future"} : deadline' = t
    /\ Goto(d, "recheck")
    /\ UNCHANGED <<env, fence, permits, deadlineMu, swept>>

\* The scope may have closed while the update was entering the transport.
RecheckLive(d) ==
    /\ pc[d] = "recheck"
    /\ Goto(d, IF FenceLiveLocked THEN "unlock" ELSE "past")
    /\ UNCHANGED <<env, fence, permits, deadlineMu, deadline, swept>>

PastDeadline(c) ==
    /\ pc[c] = "past"
    /\ deadline' = "past"
    /\ Goto(c, "unlock")
    /\ UNCHANGED <<env, fence, permits, deadlineMu, swept>>

UnlockDeadline(c) ==
    /\ pc[c] = "unlock"
    /\ deadlineMu' = NoOne
    /\ Goto(c, IF c = Closer THEN "transport" ELSE "end")
    /\ UNCHANGED <<env, fence, permits, deadline, swept>>

-----------------------------------------------------------------------------
\* Close, inside closeOnce

\* Mutant: Close joins the operations before it has closed the transport.
CloseJoinsFirst ==
    /\ pc[Closer] = "idle" /\ ~closed
    /\ closed' = TRUE
    /\ Goto(Closer, "join")
    /\ UNCHANGED <<env, completed, transport, permits, deadlineMu, deadline, swept>>

FenceCloseBegin ==
    /\ pc[Closer] = "idle" /\ ~closed
    /\ closed' = TRUE
    /\ Goto(Closer, "lock")
    /\ UNCHANGED <<env, completed, transport, permits, deadlineMu, deadline, swept>>

CloseTransport ==
    /\ pc[Closer] = "transport"
    /\ transport' = "closed"
    /\ Goto(Closer, "join")
    /\ UNCHANGED <<env, closed, completed, permits, deadlineMu, deadline, swept>>

\* Mutant: Close does not wait for the operations in flight.
CloseUnjoined ==
    /\ pc[Closer] = "join"
    /\ completed' = TRUE
    /\ Goto(Closer, "idle")
    /\ UNCHANGED <<env, closed, transport, permits, deadlineMu, deadline, swept>>

CloseJoin ==
    /\ pc[Closer] = "join" /\ operations = {}
    /\ completed' = TRUE
    /\ Goto(Closer, "idle")
    /\ UNCHANGED <<env, closed, transport, permits, deadlineMu, deadline, swept>>

-----------------------------------------------------------------------------
CallerStep(c) ==
    \/ End(c) \/ Done(c)
    \/ LockDeadline(c) \/ PastDeadline(c) \/ UnlockDeadline(c)

FenceNext ==
    \/ Lapse \/ Renew \/ Revoke
    \/ \E w \in Writer : FenceBeginWrite(w) \/ WriteReturns(w)
    \/ \E d \in Setter : BeginDeadline(d) \/ CheckLive(d) \/ SetDeadline(d) \/ RecheckLive(d)
    \/ \E v \in Revoker : BeginRevoker(v) \/ RevokerRefused(v)
    \/ \E c \in Caller : CallerStep(c)
    \/ LockDeadline(Closer) \/ PastDeadline(Closer) \/ UnlockDeadline(Closer)
    \/ FenceCloseBegin \/ CloseTransport \/ CloseJoin

FenceSpec == FenceInit /\ [][FenceNext]_fenceVars

\* Goroutines that hold a permit run; finishCleanup calls SetDeadline on a
\* revoked connection; a write returns once its deadline has passed or its
\* transport is closed (net.Conn), and not necessarily before.
FenceFairness ==
    /\ \A c \in Caller : WF_fenceVars(CallerStep(c))
    /\ \A d \in Setter : WF_fenceVars(CheckLive(d) \/ SetDeadline(d) \/ RecheckLive(d))
    /\ \A w \in Writer : WF_fenceVars((deadline = "past" \/ transport = "closed") /\ WriteReturns(w))
    /\ WF_fenceVars(scope = "revoked" /\ ~swept /\ \E v \in Revoker : BeginRevoker(v) \/ RevokerRefused(v))
    /\ WF_fenceVars(LockDeadline(Closer) \/ PastDeadline(Closer) \/ UnlockDeadline(Closer)
               \/ CloseTransport \/ CloseJoin)

FenceFairSpec == FenceSpec /\ FenceFairness

-----------------------------------------------------------------------------
Labels == {"idle", "write", "lock", "check", "set", "recheck", "past", "unlock",
           "end", "done", "transport", "join"}

FenceTypeOK ==
    /\ late \in BOOLEAN /\ scope \in {"live", "lapsed", "revoked"}
    /\ closed \in BOOLEAN /\ completed \in BOOLEAN /\ swept \in BOOLEAN
    /\ writeActive \in BOOLEAN /\ deadlineActive \in BOOLEAN /\ revokerActive \in BOOLEAN
    /\ operations = {c \in Caller : pc[c] # "idle"}
    /\ deadlineMu \in Caller \cup {Closer, NoOne}
    /\ deadline \in {"clear", "future", "past"}
    /\ transport \in {"open", "closed"}
    /\ pc \in [Caller \cup {Closer} -> Labels]

\* Close is complete only when every write, deadline update and revoker that was
\* ever permitted has returned, and none is permitted afterwards (write_fence.go
\* Close: "cannot race another accepted Add").
CompletedIsJoined ==
    completed => /\ operations = {} /\ transport = "closed"
                 /\ \A c \in Caller : pc[c] \in {"idle"}

\* Once the cleanup's past deadline has been attempted on a revoked connection,
\* a racing SetDeadline cannot leave the connection without one: whenever
\* nobody is inside a deadline update the deadline is past (write_fence.go
\* updateDeadline, which looks at the scope before and after the transport call).
RevokedDeadlineStays ==
    /\ scope = "revoked" /\ swept
    /\ ~deadlineActive /\ ~revokerActive /\ pc[Closer] \notin {"lock", "past"}
    => deadline = "past"

\* A write that was in flight when the scope was revoked ends, even if its peer
\* never reads again and nobody calls Close (write_fence.go Write, updateDeadline).
RevokedWriteEnds == scope = "revoked" ~> ~writeActive

\* Close, once begun, completes (write_fence.go Close: operations.Wait returns).
CloseCompletes == closed ~> completed
=============================================================================
