-------------------------- MODULE DeviceCredentials --------------------------
(***************************************************************************)
(* The credential half of the device authority (hub/internal/deviceauth,   *)
(* credentials.go, receipts.go, resolve.go) behind its HTTP handlers       *)
(* (deviceapi/server.go): one activation credential, the device it         *)
(* creates, the device's authentication credentials, challenges, the       *)
(* request log, receipts and cancellations.  Every operation is one        *)
(* transaction under the authority's fence.                                *)
(*                                                                         *)
(* A credential is identified by its public key (the column is UNIQUE).    *)
(* An intent is what a mutation and the questions about it later carry:    *)
(* the kind, the request ID, the key (the new one of an activation or a    *)
(* rotation), the credential that signs (NoKey for an activation) and the  *)
(* generation a command expects.                                           *)
(***************************************************************************)
EXTENDS Naturals, FiniteSets

CONSTANTS Key, Rid, Slot,    \* Slot: challenges of reads, used again once gone
          NoKey, Activation, \* Activation: principal of the activation credential
          MaxChallenges, MaxReserve, MaxGen,
          MaxCancellations,  \* Resources.Cancellations, for good
          MaxPerPrincipal    \* 16 of them for one principal

ASSUME CredentialAssumption ==
    /\ NoKey \notin Key /\ Activation \notin Key /\ Rid \cap Slot = {}
    /\ {MaxChallenges, MaxReserve, MaxCancellations, MaxPerPrincipal, MaxGen} \subseteq Nat

Command == {"apply", "disable", "revoke"}
Kind == Command \cup {"activate", "rotate"}
Intent == [kind : Kind, rid : Rid, key : Key, cred : Key \cup {NoKey}, gen : 0..MaxGen]
Purpose == {"mutate", "receipt", "resolve"}
Request == [purpose : Purpose, intent : Intent, ch : Rid \cup Slot]

VARIABLES
    consumed,      \* the activation credential has created its device
    state,         \* of the device: "none", "active", "disabled" or "revoked"
    lapsed,        \* valid_until of the device and its credentials is past
    creds,         \* key -> "none", "live" or "revoked"
    gen, bound,    \* generation of the device; its WireGuard key, or NoKey
    challenges,    \* the requests a live challenge was issued for
    used,          \* challenges consumed and not yet expired
    requests,      \* <<principal, request ID>> of the committed mutations
    receipts,      \* intents with a committed result
    cancellations  \* intents with a negative receipt

credVars == <<consumed, state, lapsed, creds, gen, bound, challenges, used, requests,
              receipts, cancellations>>
desired == <<consumed, state, creds, gen, bound>>

CredInit ==
    /\ consumed = FALSE /\ state = "none" /\ lapsed = FALSE
    /\ creds = [k \in Key |-> "none"]
    /\ gen = 0 /\ bound = NoKey
    /\ challenges = {} /\ used = {}
    /\ requests = {} /\ receipts = {} /\ cancellations = {}

Principal(i) == IF i.kind = "activate" THEN Activation ELSE i.cred
SafetyRequest(r) ==
    r.purpose = "resolve" \/ (r.purpose = "mutate" /\ r.intent.kind \in {"disable", "revoke"})

\* credential: usable now.  historicalCredential: ever registered.
Credential(k) == k \in Key /\ creds[k] = "live" /\ state = "active" /\ ~lapsed
HistoricalCredential(k) == k \in Key /\ creds[k] # "none"
ActivationValid == ~consumed /\ ~lapsed

CredentialReceiptRow(i) == i \in receipts /\ Credential(i.key)
OperationReceiptRow(i) == i \in receipts

\* Mutant: only a credential that still authorizes may ask for a resolution.
ResolveLive(i) == IF i.kind = "activate" THEN ActivationValid ELSE Credential(i.cred)

ResolveIdentity(i) == i.kind = "activate" \/ HistoricalCredential(i.cred)

Authorized(r) ==
    LET i == r.intent IN
    CASE r.purpose = "mutate" ->
            IF i.kind = "activate" THEN ActivationValid ELSE Credential(i.cred)
      [] r.purpose = "receipt" ->
            IF i.kind \in Command
            THEN HistoricalCredential(i.cred) /\ OperationReceiptRow(i)
            ELSE CredentialReceiptRow(i)
      [] r.purpose = "resolve" -> ResolveIdentity(i)

\* Challenge: a row is written only for a proven identity and within the
\* budget, of which a reserve is kept for withdrawals and resolutions.
Challenge(r) ==
    /\ Authorized(r)
    /\ Cardinality(challenges) <
          MaxChallenges + (IF SafetyRequest(r) THEN MaxReserve ELSE 0)
    /\ challenges' = challenges \cup {r}
    /\ UNCHANGED <<desired, lapsed, used, requests, receipts, cancellations>>

\* A challenge expires; SweepChallenges and later calls delete it.
ExpireChallenge(r) ==
    /\ r \in challenges
    /\ challenges' = challenges \ {r}
    /\ used' = used \ {r.ch}
    /\ UNCHANGED <<desired, lapsed, requests, receipts, cancellations>>

\* Mutant: consume does not look for a cancellation.
ConsumableUnlessUsed(r) ==
    /\ r \in challenges /\ r.ch \notin used
    /\ r.purpose = "mutate" => <<Principal(r.intent), r.intent.rid>> \notin requests

\* consume: the signed request matches an unused challenge; a mutation is
\* neither cancelled nor a repetition.
Consumable(r) ==
    /\ r \in challenges /\ r.ch \notin used
    /\ r.purpose = "mutate" =>
          /\ ~\E c \in cancellations : c.rid = r.intent.rid /\ Principal(c) = Principal(r.intent)
          /\ <<Principal(r.intent), r.intent.rid>> \notin requests

Commit(r) ==
    /\ used' = used \cup {r.ch}
    /\ requests' = requests \cup {<<Principal(r.intent), r.intent.rid>>}
    /\ receipts' = receipts \cup {r.intent}
    /\ UNCHANGED <<challenges, cancellations, lapsed>>

Activate(r) ==
    LET i == r.intent IN
    /\ i.kind = "activate" /\ ActivationValid
    /\ Consumable(r) /\ creds[i.key] = "none"
    /\ Commit(r)
    /\ consumed' = TRUE /\ state' = "active"
    /\ creds' = [creds EXCEPT ![i.key] = "live"]
    /\ UNCHANGED <<gen, bound>>

RotateCredential(r) ==
    LET i == r.intent IN
    /\ i.kind = "rotate" /\ Credential(i.cred) /\ i.key # i.cred
    /\ Consumable(r) /\ creds[i.key] = "none"
    /\ Commit(r)
    /\ creds' = [creds EXCEPT ![i.key] = "live", ![i.cred] = "revoked"]
    /\ UNCHANGED <<consumed, state, gen, bound>>

\* The desired state itself is DeviceAuthority's; here only what decides
\* whether the command is accepted and what it does to the credential.
SubmitSigned(r) ==
    LET i == r.intent IN
    /\ i.kind \in Command /\ Credential(i.cred) /\ Consumable(r)
    /\ i.gen = gen /\ gen < MaxGen
    /\ i.kind = "apply" => i.key # bound
    /\ Commit(r)
    /\ gen' = gen + 1
    /\ bound' = IF i.kind = "apply" THEN i.key ELSE bound
    /\ state' = CASE i.kind = "apply" -> "active"
                  [] i.kind = "disable" -> "disabled"
                  [] i.kind = "revoke" -> "revoked"
    /\ UNCHANGED <<consumed, creds>>

Mutates(r) == Activate(r) \/ RotateCredential(r) \/ SubmitSigned(r)

\* CredentialReceipt and OperationReceipt
Receipt(r) ==
    /\ Authorized(r) /\ Consumable(r)
    /\ used' = used \cup {r.ch}
    /\ UNCHANGED <<desired, lapsed, challenges, requests, receipts, cancellations>>

Committed(i) == i \in receipts

\* Negative receipts are never deleted: once a limit is reached, another request of the
\* principal is answered with ErrQuota for good.
WithinQuota(i) ==
    /\ Cardinality(cancellations) < MaxCancellations
    /\ Cardinality({c \in cancellations : Principal(c) = Principal(i)}) < MaxPerPrincipal

\* ResolvePending: the committed receipt, or a permanent negative one.
Resolve(r) ==
    LET i == r.intent IN
    /\ ResolveIdentity(i) /\ Consumable(r)
    /\ ~Committed(i) =>
          /\ <<Principal(i), i.rid>> \notin requests
          /\ \A c \in cancellations : c.rid = i.rid /\ Principal(c) = Principal(i) => c = i
          /\ i \in cancellations \/ WithinQuota(i)
    /\ used' = used \cup {r.ch}
    /\ cancellations' = IF Committed(i) THEN cancellations ELSE cancellations \cup {i}
    /\ UNCHANGED <<desired, lapsed, challenges, requests, receipts>>

\* An administrator withdraws the device, or admits a disabled one again.
Administer ==
    /\ gen < MaxGen /\ gen' = gen + 1
    /\ \/ state \in {"active", "disabled"} /\ state' \in {"disabled", "revoked"}
       \/ state = "disabled" /\ state' = "active"
    /\ UNCHANGED <<consumed, creds, bound, lapsed, challenges, used, requests, receipts,
                   cancellations>>

Lapse ==
    /\ ~lapsed /\ lapsed' = TRUE
    /\ UNCHANGED <<desired, challenges, used, requests, receipts, cancellations>>

CredTypeOK ==
    /\ consumed \in BOOLEAN /\ lapsed \in BOOLEAN /\ bound \in Key \cup {NoKey}
    /\ state \in {"none", "active", "disabled", "revoked"}
    /\ creds \in [Key -> {"none", "live", "revoked"}]
    /\ gen \in 0..MaxGen
    /\ challenges \subseteq Request /\ used \subseteq {r.ch : r \in challenges}
    /\ requests \subseteq (Key \cup {Activation}) \X Rid
    /\ receipts \subseteq Intent /\ cancellations \subseteq Intent
=============================================================================
