----------------------------- MODULE StripedRelay -----------------------------
(***************************************************************************)
(* The download of a striped CONNECT (egress/reverse, main.go): the phone  *)
(* reads the target, numbers the chunks and deals them to the lanes in     *)
(* turn (stripedClientGroup.run); the hub reads the lanes concurrently and *)
(* writes the chunks to the client in order (relayStripedConnect,          *)
(* writeOrderedStripedFramesMeasured).  An empty frame with the next       *)
(* number marks the end.                                                   *)
(*                                                                         *)
(* A lane is a bounded channel to its writer followed by a bounded stream. *)
(* Sizes are in units; a frame takes its size in the stream's window and   *)
(* in the hub's reorder buffer.                                            *)
(***************************************************************************)
EXTENDS Integers, Sequences, FiniteSets, SequencesExt, FiniteSetsExt, Folds

CONSTANTS
    Lanes,     \* number of lanes
    ChanCap,   \* frames in a lane's channel
    WireCap,   \* units in a lane's stream window
    Window,    \* maxStripedPendingBytes
    Sizes,     \* sizes a chunk read from the target can have
    MaxChunks  \* bound: chunks the target sends

Lane == 0..(Lanes - 1)

VARIABLES
    size,        \* the sizes of the chunks read from the target so far
    turn,        \* the lane of the next frame
    phone,       \* "read", "ended" (EOF frame queued), "closed"
    chan, wire,  \* lane -> frames; a frame is its number, with eof marked
    lane,        \* lane -> "open", "fin" (closed after its frames), "cut", "reset"
    frames,      \* numbers in the hub's reorder buffer (pending)
    nextSeq, eofSeq,
    readers,     \* lanes whose reader has not ended
    active,      \* activeReaders
    out,         \* what the client was given
    result       \* "running", "ok", "truncated", "window", "error"

vars == <<size, turn, phone, chan, wire, lane, frames, nextSeq, eofSeq, readers, active, out, result>>
phoneVars == <<size, turn, phone, chan>>
hubVars == <<frames, nextSeq, eofSeq, readers, active, out, result>>

None == -1

Init ==
    /\ size = <<>> /\ turn = 0 /\ phone = "read"
    /\ chan = [l \in Lane |-> <<>>] /\ wire = [l \in Lane |-> <<>>]
    /\ lane = [l \in Lane |-> "open"]
    /\ frames = {} /\ nextSeq = 0 /\ eofSeq = None /\ readers = Lane /\ active = Lanes
    /\ out = <<>> /\ result = "running"

Frame(seq, eof) == [seq |-> seq, eof |-> eof]
Units(set) == MapThenSumSet(LAMBDA q : size[q + 1], set)
OnWire(l) == FoldSet(LAMBDA i, n : n + (IF wire[l][i].eof THEN 1 ELSE size[wire[l][i].seq + 1]),
                     0, DOMAIN wire[l])

-----------------------------------------------------------------------------
(* The phone: stripedClientGroup.run.                                      *)

\* A chunk from the target to the lane whose turn it is; sendFrame blocks while
\* that lane's channel is full.
Deal(n) ==
    /\ phone = "read" /\ Len(size) < MaxChunks /\ Len(chan[turn]) < ChanCap
    /\ chan' = [chan EXCEPT ![turn] = Append(@, Frame(Len(size), FALSE))]
    /\ size' = Append(size, n) /\ turn' = (turn + 1) % Lanes
    /\ UNCHANGED <<phone, wire, lane, hubVars>>

\* The target closes or fails: the EOF frame, then the channels are closed.
TargetEnds ==
    /\ phone = "read" /\ Len(chan[turn]) < ChanCap
    /\ chan' = [chan EXCEPT ![turn] = Append(@, Frame(Len(size), TRUE))]
    /\ phone' = "ended"
    /\ UNCHANGED <<size, turn, wire, lane, hubVars>>

\* A lane's writer: one frame into the stream, blocked while its window is full.
LaneWrites(l) ==
    /\ chan[l] # <<>> /\ lane[l] = "open" /\ OnWire(l) < WireCap
    /\ wire' = [wire EXCEPT ![l] = Append(@, Head(chan[l]))]
    /\ chan' = [chan EXCEPT ![l] = Tail(@)]
    /\ UNCHANGED <<size, turn, phone, lane, hubVars>>

\* writers.Wait, then closeAll: every lane is closed after its last frame.
PhoneCloses ==
    /\ phone = "ended" /\ \A l \in Lane : chan[l] = <<>> \/ lane[l] # "open"
    /\ phone' = "closed" /\ lane' = [l \in Lane |-> IF lane[l] = "open" THEN "fin" ELSE lane[l]]
    /\ UNCHANGED <<size, turn, chan, wire, hubVars>>

\* A failed write, or the upload's end: closeAll in the middle of the download,
\* and possibly of a frame.
PhoneAborts ==
    /\ phone \in {"read", "ended"} /\ phone' = "closed"
    /\ lane' = [l \in Lane |-> IF lane[l] = "open" THEN "cut" ELSE lane[l]]
    /\ chan' = [l \in Lane |-> <<>>]
    /\ UNCHANGED <<size, turn, wire, hubVars>>

\* The session of a lane breaks: what is on its way is lost.
LaneBreaks(l) ==
    /\ lane[l] # "reset" /\ lane' = [lane EXCEPT ![l] = "reset"]
    /\ wire' = [wire EXCEPT ![l] = <<>>]
    /\ UNCHANGED <<phoneVars, hubVars>>

-----------------------------------------------------------------------------
(* The hub.                                                                *)

\* The loop's result when no reader is left.
Drained(next, eof) == IF eof # None /\ next = eof THEN "ok" ELSE "truncated"

\* The run of consecutive frames in the buffer from nextSeq on, at most to the
\* end mark: what the inner loop writes to the client.
RunEnd(set, from, eof) ==
    CHOOSE m \in from..(from + Cardinality(set)) :
        /\ \A q \in from..(m - 1) : q \in set /\ q # eof
        /\ m \notin set \/ m = eof

WriteOrdered(f, set, eof) ==
    LET m == RunEnd(set, nextSeq, eof) IN
    /\ out' = out \o [i \in 1..(m - nextSeq) |-> nextSeq + i - 1]
    /\ nextSeq' = m /\ frames' = {q \in set : q >= m}
    /\ result' = IF m = eof THEN "ok" ELSE result

\* readStripedFrames and one turn of the reorder loop.
Receive(l) ==
    /\ result = "running" /\ l \in readers /\ wire[l] # <<>>
    /\ LET f == Head(wire[l])
           set == IF f.eof THEN frames ELSE frames \cup {f.seq}
           eof == IF f.eof THEN f.seq ELSE eofSeq
       IN  /\ wire' = [wire EXCEPT ![l] = Tail(@)]
           /\ eofSeq' = eof
           /\ readers' = IF f.eof THEN readers \ {l} ELSE readers
           /\ IF Units(set) > Window /\ ~f.eof
              THEN frames' = set /\ result' = "window" /\ UNCHANGED <<nextSeq, out>>
              ELSE WriteOrdered(f, set, eof)
    /\ UNCHANGED <<phoneVars, lane, active>>

\* A lane closed between two frames gives io.EOF; one that was cut or broke may
\* give another error, which ends the relay.
LaneEnds(l) ==
    /\ result = "running" /\ l \in readers /\ wire[l] = <<>> /\ lane[l] # "open"
    /\ readers' = readers \ {l}
    /\ \/ /\ active' = active - 1
          /\ result' = IF active' = 0 THEN Drained(nextSeq, eofSeq) ELSE result
       \/ /\ lane[l] # "fin" /\ result' = "error" /\ UNCHANGED active
    /\ UNCHANGED <<phoneVars, wire, lane, frames, nextSeq, eofSeq, out>>

\* readers.Wait, close(frames): the reader of the EOF frame ends without being
\* counted down, so the loop can be left waiting for nobody.
ReadersEnd ==
    /\ result = "running" /\ readers = {}
    /\ result' = Drained(nextSeq, eofSeq)
    /\ UNCHANGED <<phoneVars, wire, lane, frames, nextSeq, eofSeq, readers, active, out>>

\* The client goes away: a write to it fails, or the upload ends.
ClientLeaves ==
    /\ result = "running" /\ result' = "error"
    /\ UNCHANGED <<phoneVars, wire, lane, frames, nextSeq, eofSeq, readers, active, out>>

Hub == ReadersEnd \/ \E l \in Lane : Receive(l) \/ LaneEnds(l)

Next ==
    \/ (\E n \in Sizes : Deal(n)) \/ TargetEnds \/ PhoneCloses \/ PhoneAborts \/ ClientLeaves \/ Hub
    \/ \E l \in Lane : LaneWrites(l) \/ LaneBreaks(l)

Spec == Init /\ [][Next]_vars

\* The hub's goroutines are scheduled; nothing is assumed of the phone, the
\* target, the client or the network.
FairSpec == Spec /\ WF_vars(Hub)

\* Nothing breaks: the target sends and closes, everybody stays.
Calm ==
    \/ (\E n \in Sizes : Deal(n)) \/ TargetEnds \/ PhoneCloses \/ Hub
    \/ \E l \in Lane : LaneWrites(l)

CalmSpec == Init /\ [][Calm]_vars /\ WF_vars(Calm)

-----------------------------------------------------------------------------
\* The client is given the target's chunks in order, each once, from the first
\* on, although the lanes are read in any order (writeOrderedStripedFramesMeasured).
DeliveredInOrder ==
    Len(out) <= Len(size) /\ \A i \in DOMAIN out : out[i] = i - 1

\* The relay counts as complete only when the client was given everything that
\* the target sent before it closed: a lane that ends or breaks early is never
\* taken for the end (writeOrderedStripedFramesMeasured's two final checks).
NoSilentTruncation ==
    result = "ok" => phone # "read" /\ Len(out) = Len(size)

\* The reorder buffer is never overrun by a lane that is merely stalled: with
\* chunks of one size the phone's turn-taking blocks on the stalled lane before
\* the other lane's chunks fill maxStripedPendingBytes.
SlowLanesFit == result # "window"

\* Without faults every download is completed (run and relayStripedConnect).
CalmCompletes == <>(result = "ok")

\* Once the lanes have ended, however they ended, the relay returns: the loop
\* never waits for frames of readers that are gone (relayStripedConnect).
RelayReturns == (\A l \in Lane : lane[l] # "open") ~> result # "running"
=============================================================================
