-------------------------------- MODULE SemVer --------------------------------
(***************************************************************************)
(* The comparison of release versions (shared/updateverify/semver.go), as  *)
(* Verify and the floors of the update client use it, against the          *)
(* precedence that SemVer defines.                                         *)
(*                                                                         *)
(* A version is its three core numbers and the identifiers of its          *)
(* pre-release part; build metadata has no precedence.  An identifier is   *)
(* the sequence of its characters in ASCII order: the hyphen comes before  *)
(* the digits, the letters after them.  The code never turns a numeric     *)
(* identifier into a machine number, which its value might not fit.        *)
(***************************************************************************)
EXTENDS Integers, Sequences

CONSTANTS
    Core,      \* the core numbers in use, as triples
    Digits,    \* bound: digits in use, 0 to Digits - 1
    MaxChars,  \* bound: characters of an identifier
    MaxIds     \* bound: pre-release identifiers

VARIABLES a, b, res
vars == <<a, b, res>>

Hyphen == 0
Zero == 1
Letter == Digits + 1
Char == {Hyphen, Letter} \cup (Zero..Digits)

Numeric(x) == \A i \in DOMAIN x : x[i] \in Zero..Digits

\* validVersionIDs, of the pre-release part: no empty one, no leading zero
Identifier ==
    {x \in UNION {[1..n -> Char] : n \in 1..MaxChars} : ~(Numeric(x) /\ Len(x) > 1 /\ x[1] = Zero)}

Version == [core : Core, pre : UNION {[1..n -> Identifier] : n \in 0..MaxIds}]

Sign(n) == IF n < 0 THEN -1 ELSE IF n > 0 THEN 1 ELSE 0

\* The first index at which two sequences differ, within the shorter one
Differ(x, y) == {i \in DOMAIN x \cap DOMAIN y : x[i] # y[i]}
First(x, y) == CHOOSE i \in Differ(x, y) : \A j \in Differ(x, y) : i <= j

\* strings.Compare
CompareText(x, y) ==
    IF Differ(x, y) = {} THEN Sign(Len(x) - Len(y))
    ELSE Sign(x[First(x, y)] - y[First(x, y)])

CompareIdentifier(x, y) ==
    IF Numeric(x) # Numeric(y) THEN IF Numeric(x) THEN -1 ELSE 1
    ELSE IF Numeric(x) /\ Len(x) # Len(y) THEN Sign(Len(x) - Len(y))
    ELSE CompareText(x, y)

CompareVersion(x, y) ==
    IF x.core # y.core THEN Sign(x.core[First(x.core, y.core)] - y.core[First(x.core, y.core)])
    ELSE IF x.pre = <<>> \/ y.pre = <<>> THEN Sign(Len(y.pre)) - Sign(Len(x.pre))
    ELSE IF Differ(x.pre, y.pre) = {} THEN Sign(Len(x.pre) - Len(y.pre))
    ELSE CompareIdentifier(x.pre[First(x.pre, y.pre)], y.pre[First(x.pre, y.pre)])

Unknown == 2

Init == a \in Version /\ b \in Version /\ res = Unknown

CompareVersions == res' = CompareVersion(a, b) /\ UNCHANGED <<a, b>>

Next == CompareVersions

Spec == Init /\ [][Next]_vars

-----------------------------------------------------------------------------
(* SemVer's own definition of precedence *)

Value[x \in Seq(Char)] == IF x = <<>> THEN 0 ELSE 10 * Value[SubSeq(x, 1, Len(x) - 1)] + x[Len(x)] - Zero

Before(x, y) ==   \* in ASCII order
    \/ \E n \in DOMAIN x \cap DOMAIN y : x[n] < y[n] /\ \A i \in 1..(n - 1) : x[i] = y[i]
    \/ Len(x) < Len(y) /\ SubSeq(y, 1, Len(x)) = x

Lower(x, y) ==    \* of two identifiers
    CASE Numeric(x) /\ Numeric(y) -> Value[x] < Value[y]
      [] ~Numeric(x) /\ ~Numeric(y) -> Before(x, y)
      [] OTHER -> Numeric(x)

Precedes(x, y) ==
    \/ Before(x.core, y.core)
    \/ /\ x.core = y.core
       /\ \/ x.pre # <<>> /\ y.pre = <<>>
          \/ \E n \in DOMAIN x.pre \cap DOMAIN y.pre :
                Lower(x.pre[n], y.pre[n]) /\ \A i \in 1..(n - 1) : x.pre[i] = y.pre[i]
          \/ x.pre # <<>> /\ Len(x.pre) < Len(y.pre) /\ SubSeq(y.pre, 1, Len(x.pre)) = x.pre

\* compareVersion, which compares numeric identifiers by length and text and
\* stops at the first difference, decides exactly SemVer's precedence, and
\* calls only the same version equal: the floors of the update client are
\* maxima of a total order.
ComparesPrecedence ==
    res # Unknown =>
       /\ (res = -1) = Precedes(a, b)
       /\ (res = 1) = Precedes(b, a)
       /\ (res = 0) = (a = b)
=============================================================================
