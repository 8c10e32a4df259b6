----------------------------- MODULE UpdateState ------------------------------
(***************************************************************************)
(* The offline update client (clients/cli/internal/updateclient) and the   *)
(* verifier of signed metadata (shared/updateverify): which candidates a   *)
(* home accepts for staging, and the watermark that keeps an older one     *)
(* from being accepted later.                                              *)
(*                                                                         *)
(* Enrolment creates two files, an anchor with the first policy and the    *)
(* state; afterwards only the state is replaced, by one atomic write.      *)
(* Every command holds the operation lock of the home, so there is one     *)
(* command at a time; it may be killed or cancelled at any step, a write   *)
(* may report an error whatever it did, and the wall clock moves while it  *)
(* works and may be set back.  A version stands for its rank in SemVer     *)
(* precedence (SemVer), a candidate for its canonical bytes and signature. *)
(***************************************************************************)
EXTENDS Integers

CONSTANTS
    Policy,     \* the approved policy documents
    Candidate,  \* the signed candidates
    MaxTime,    \* bound: the clock
    MaxBack     \* bound: times the clock is set back

Key == [id : Nat, from : Nat, until : Nat, min : Nat, max : Nat]
PolicyType == [rev : Nat, ver : Nat, proto : Nat, maxproto : Nat, seq : Nat, sf : Nat,
               life : Nat, keys : SUBSET Key]
CandidateType ==
    [key : Nat, seq : Nat, ver : Nat, proto : Nat, sv : Nat, sf : Nat, issued : Nat, expires : Nat]
FloorsType == [ver : Nat, proto : Nat, seq : Nat, sf : Nat, sv : Nat]

\* validatePolicy and validateMetadata: what a document must satisfy to be read
PolicyAssumption ==
    /\ Policy \subseteq PolicyType
    /\ \A p \in Policy : \A k, l \in p.keys : k.id = l.id => k = l
CandidateAssumption ==
    /\ Candidate \subseteq CandidateType
    /\ \A c \in Candidate : c.seq > 0 /\ c.sf <= c.sv /\ c.issued > 0 /\ c.issued < c.expires
TimeAssumption == MaxTime \in Nat \ {0} /\ MaxBack \in Nat

VARIABLES
    files,   \* "none", "anchor" (registration only), "both"
    anchor,  \* the policy of the registration
    disk,    \* the state: policy, floors, and the previous receipt
    pc,      \* the command under the operation lock
    cand,    \* the receipt of the candidate it verifies
    next,    \* the state it writes
    now, back,
    staged   \* history: the candidates reported with a committed watermark

vars == <<files, anchor, disk, pc, cand, next, now, back, staged>>

NoPolicy == [rev |-> 0, ver |-> 0, proto |-> 0, maxproto |-> 0, seq |-> 0, sf |-> 0,
             life |-> 0, keys |-> {}]
\* Previous = nil: nothing is below it
NoCandidate == [key |-> 0, seq |-> 0, ver |-> 0, proto |-> 0, sv |-> 0, sf |-> 0, issued |-> 0, expires |-> 1]
NoReceipt == [c |-> NoCandidate, at |-> 0]

Max2(a, b) == IF a >= b THEN a ELSE b

PolicyFloors(p) == [ver |-> p.ver, proto |-> p.proto, seq |-> p.seq, sf |-> p.sf, sv |-> p.sf]
ReceiptFloors(c) == [ver |-> c.ver, proto |-> 0, seq |-> c.seq, sf |-> c.sf, sv |-> c.sv]

MergeFloors(a, b) ==
    [ver |-> Max2(a.ver, b.ver), proto |-> Max2(a.proto, b.proto), seq |-> Max2(a.seq, b.seq),
     sf |-> Max2(a.sf, b.sf), sv |-> Max2(a.sv, b.sv)]

PolicyNotBelow(p, f) == p.ver >= f.ver /\ p.proto >= f.proto /\ p.seq >= f.seq /\ p.sf >= f.sf

NewState(p) == [policy |-> p, floors |-> PolicyFloors(p), prev |-> NoReceipt]

TypeOK ==
    /\ files \in {"none", "anchor", "both"} /\ anchor \in Policy \cup {NoPolicy}
    /\ pc \in {"idle", "anchored", "reading", "checking", "approving", "staging", "written"}
    /\ \A s \in {disk, next} : s.policy \in Policy \cup {NoPolicy} /\ s.floors \in FloorsType
    /\ \A r \in {disk.prev, next.prev, cand} : r.c \in Candidate \cup {NoCandidate} /\ r.at \in Nat
    /\ now \in 0..MaxTime /\ back \in 0..MaxBack /\ staged \subseteq Candidate

Init ==
    /\ files = "none" /\ anchor = NoPolicy /\ disk = NewState(NoPolicy) /\ next = NewState(NoPolicy)
    /\ pc = "idle" /\ cand = NoReceipt /\ now = 1 /\ back = 0 /\ staged = {}

-----------------------------------------------------------------------------
(* What is checked *)

\* load: the two files belong together and the state carries all its history
Consistent(a, s, t) ==
    /\ s.policy.rev >= a.rev /\ PolicyNotBelow(s.policy, PolicyFloors(a))
    /\ s.policy.rev = a.rev => s.policy = a
    /\ s.prev.c.issued <= s.prev.at /\ s.prev.at < s.prev.c.expires /\ s.prev.at <= t
    /\ s.floors = MergeFloors(MergeFloors(PolicyFloors(a), PolicyFloors(s.policy)), ReceiptFloors(s.prev.c))

Loads == files = "both" /\ Consistent(anchor, disk, now)

\* The key of the candidate, at time t
KeyActive(c, t) == \E k \in disk.policy.keys : k.id = c.key /\ k.from <= t /\ t < k.until

KeyCovers(c) ==
    \E k \in disk.policy.keys :
       k.id = c.key /\ k.from <= c.issued /\ c.issued < k.until /\ k.min <= c.seq /\ c.seq <= k.max

\* effectivePolicy: the policy raised to the floors
NotBelowFloors(c) ==
    /\ c.ver >= Max2(disk.policy.ver, disk.floors.ver)
    /\ c.sf >= Max2(disk.policy.sf, disk.floors.sf)
    /\ c.seq >= Max2(disk.policy.seq, disk.floors.seq)

\* Replay, equivocation and rollback, against the previous receipt
Follows(c, r) ==
    /\ c.seq >= r.c.seq /\ (c.seq = r.c.seq => c = r.c)
    /\ c.ver >= r.c.ver /\ c.sv >= r.c.sv /\ c.sf >= r.c.sf

Verifies(c, t) ==
    /\ Max2(disk.policy.proto, disk.floors.proto) <= c.proto /\ c.proto <= disk.policy.maxproto
    /\ c.expires - c.issued <= disk.policy.life /\ c.issued <= t /\ t < c.expires
    /\ KeyActive(c, t) /\ KeyCovers(c)
    /\ disk.prev.at <= t
    /\ NotBelowFloors(c) /\ Follows(c, disk.prev)

StillValid(r, t) ==
    /\ r.at <= t /\ r.c.issued <= t /\ t < r.c.expires
    /\ KeyActive(r.c, t) /\ r.c.sv >= disk.floors.sv

-----------------------------------------------------------------------------
(* The commands *)

\* The lock is given back; what the command held in memory is gone.
Ends == pc' = "idle" /\ cand' = NoReceipt /\ next' = NewState(NoPolicy)

\* enroll: both files must be missing
Enroll(p) ==
    /\ pc = "idle" /\ files = "none"
    /\ files' = "anchor" /\ anchor' = p
    /\ pc' \in {"anchored", "idle"}   \* the write may report an error all the same
    /\ UNCHANGED <<disk, cand, next, now, back, staged>>

EnrollState ==
    /\ pc = "anchored" /\ Ends
    /\ files' = "both" /\ disk' = NewState(anchor)
    /\ UNCHANGED <<anchor, now, back, staged>>

Approved(p) == [disk EXCEPT !.policy = p, !.floors = MergeFloors(disk.floors, PolicyFloors(p))]

Approve(p) ==
    /\ pc = "idle" /\ Loads
    /\ p.rev > disk.policy.rev /\ PolicyNotBelow(p, disk.floors)
    /\ pc' = "approving" /\ next' = Approved(p)
    /\ UNCHANGED <<files, anchor, disk, cand, now, back, staged>>

Verify(c) ==
    /\ pc = "idle" /\ Loads
    /\ pc' = "reading" /\ cand' = [c |-> c, at |-> 0]
    /\ UNCHANGED <<files, anchor, disk, next, now, back, staged>>

\* The artifact's bytes are read after this: the clock moves on.
VerifyCandidate ==
    /\ pc = "reading" /\ Verifies(cand.c, now)
    /\ pc' = "checking" /\ cand' = [cand EXCEPT !.at = now]
    /\ UNCHANGED <<files, anchor, disk, next, now, back, staged>>

Staging(r) == [disk EXCEPT !.prev = r, !.floors = MergeFloors(disk.floors, ReceiptFloors(r.c))]

CommitCandidate ==
    /\ pc = "checking" /\ StillValid(cand, now)
    /\ pc' = "staging" /\ next' = Staging(cand)
    /\ UNCHANGED <<files, anchor, disk, cand, now, back, staged>>

\* commit: the state is replaced and read back
WriteState ==
    /\ pc \in {"approving", "staging"} /\ disk' = next
    /\ IF pc = "staging" THEN pc' = "written" /\ UNCHANGED <<cand, next>> ELSE Ends
    /\ UNCHANGED <<files, anchor, now, back, staged>>

Report ==
    /\ pc = "written" /\ Ends /\ staged' = staged \cup {disk.prev.c}
    /\ UNCHANGED <<files, anchor, disk, now, back>>

\* A refusal, a cancellation, an error reported by a write (whether or not it
\* took effect) and the death of the process all end the command here.
End ==
    /\ pc # "idle" /\ Ends
    /\ UNCHANGED <<files, anchor, disk, now, back, staged>>

Tick ==
    /\ now < MaxTime /\ now' = now + 1
    /\ UNCHANGED <<files, anchor, disk, pc, cand, next, back, staged>>

SetBack ==
    /\ back < MaxBack /\ now > 1 /\ back' = back + 1 /\ now' \in 1..(now - 1)
    /\ UNCHANGED <<files, anchor, disk, pc, cand, next, staged>>

Next ==
    \/ \E p \in Policy : Enroll(p) \/ Approve(p)
    \/ EnrollState
    \/ \E c \in Candidate : Verify(c)
    \/ VerifyCandidate \/ CommitCandidate
    \/ WriteState \/ Report \/ End \/ Tick \/ SetBack

Spec == Init /\ [][Next]_vars

-----------------------------------------------------------------------------
(* Properties *)

\* load refuses a state whose floors are not exactly those of its policies and
\* its last receipt, although older policies and receipts are gone from it: no
\* sequence of approvals and stagings makes the program call its own state
\* corrupt.  Only a clock behind the last verification is refused, until it has
\* caught up.
OwnStateLoads == files = "both" => Consistent(anchor, disk, Max2(now, disk.prev.at))

\* A candidate that was reported with a committed watermark stays below or at
\* the watermark whatever is approved, staged, interrupted or lost later: what
\* is staged next is neither older nor another candidate of the same sequence.
Covered(c, r) ==
    /\ c.seq <= r.c.seq /\ (c.seq = r.c.seq => c = r.c)
    /\ c.ver <= r.c.ver /\ c.sv <= r.c.sv /\ c.sf <= r.c.sf

StagedIsCovered == \A c \in staged : files = "both" /\ Covered(c, disk.prev)

\* A registration is never taken back or made anew, and neither the floors nor
\* the revision of the policy ever fall, through crashes and lost answers.
FloorsGeq(a, b) ==
    a.ver >= b.ver /\ a.proto >= b.proto /\ a.seq >= b.seq /\ a.sf >= b.sf /\ a.sv >= b.sv

NeverFalls ==
    /\ files # "none" => files' # "none" /\ anchor' = anchor
    /\ files = "both" =>
          files' = "both" /\ FloorsGeq(disk'.floors, disk.floors) /\ disk'.policy.rev >= disk.policy.rev

NothingIsLost == [][NeverFalls]_vars

\* A candidate whose commit went through while its answer was lost can be
\* verified again: its own watermark never refuses it, only the policy, the key
\* and the time.
RetryAccepted ==
    LET c == disk.prev.c
    IN  /\ files = "both" /\ c # NoCandidate
        /\ PolicyFloors(disk.policy).ver <= c.ver /\ disk.policy.sf <= c.sf /\ disk.policy.seq <= c.seq
        /\ disk.policy.proto <= c.proto /\ c.proto <= disk.policy.maxproto
        /\ c.expires - c.issued <= disk.policy.life
        /\ KeyActive(c, now) /\ KeyCovers(c) /\ disk.prev.at <= now /\ now < c.expires
        => Verifies(c, now) /\ StillValid([c |-> c, at |-> now], now)
=============================================================================
