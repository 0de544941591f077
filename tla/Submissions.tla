---------------------------- MODULE Submissions -----------------------------
(***************************************************************************)
(* What reaches an OATI-protected endpoint: requests, each with the        *)
(* Mandate (and parent) it presents, the signed Envelope and the proof on  *)
(* that Envelope.  The modules that decide on requests share this data.    *)
(*                                                                         *)
(* Submitted[r] has the members                                            *)
(*   wellFormed  headers and body fit, decode and satisfy the schemas      *)
(*   mandate, parent_mandate, envelope   the three documents               *)
(*   digestOk    Envelope.request_digest equals httpRequestDigest          *)
(*   proof       [key, created, expires]: the replay key (verification     *)
(*               method, audience, nonce) and the life of the proof        *)
(***************************************************************************)
EXTENDS Evaluator, FiniteSets

CONSTANTS
  Requests,      \* HTTP requests, across every replica of the service
  Submitted,     \* what each of them carries
  MaxTime        \* bound on the clock

Time == 0 .. MaxTime

mandateOf(r)  == Submitted[r].mandate
accountOf(r)  == Submitted[r].mandate.id     \* the key of the usage store
MandateIds    == {accountOf(r) : r \in Requests}
On(S, m)      == {r \in S : accountOf(r) = m}

(***************************************************************************)
(* The EvaluationRequest the middleware builds at time t over a loaded     *)
(* usage snapshot.  The gateway's evaluationExtensions takes the profile   *)
(* contexts from the signed Envelope and supplies neither `consumption`    *)
(* nor `delegation_depth`.                                                 *)
(***************************************************************************)
evaluationRequest(r, t, previous) ==
  [evaluation_time  |-> t,
   mandate          |-> Submitted[r].mandate,
   parent_mandate   |-> Submitted[r].parent_mandate,
   delegation_depth |-> None,
   envelope         |-> Submitted[r].envelope,
   usage            |-> previous,
   consumption      |-> None,
   commerce         |-> Submitted[r].envelope.commerce,
   rwa              |-> Submitted[r].envelope.rwa]

\* What the transaction consumes; it does not depend on time or prior usage.
consumptionOf(r) == effectiveConsumption(evaluationRequest(r, 0, None))

\* What schema validation and parseDecimal guarantee of the members the usage
\* snapshot is computed from and compared with, and of the proof.
ASSUME SubmissionsTyped ==
  \A r \in Requests :
    LET commerce == Submitted[r].envelope.commerce
        rwa      == Submitted[r].envelope.rwa
        limit    == limitOf(mandateOf(r), "max_calls")
        budget   == limitOf(mandateOf(r), "max_total")
    IN  /\ commerce # None => /\ commerce.total_amount \in Decimal
                              /\ commerce.quantity \in Nat
                              /\ commerce.currency \in Text
                              /\ commerce.idempotency_key \in Text
        /\ rwa # None => rwa.quantity \in Decimal /\ rwa.current_supply \in Decimal
        /\ hasType(limit, "number") => limit.value \in Nat
        /\ hasType(budget, "decimal") => budget.value \in Decimal
        /\ mandateOf(r).commerce # None => mandateOf(r).commerce.max_total \in Decimal
        /\ Submitted[r].proof.created \in Nat /\ Submitted[r].proof.expires \in Nat

ASSUME RequestsFinite == IsFiniteSet(Requests)
ASSUME MaxTimeNat == MaxTime \in Nat
ASSUME NoneIsNoSnapshot == None \notin UsageSnapshot

\* One Mandate identifier names one document: boundPublicDocument compares
\* what is presented with the public projection of that identifier.
ASSUME OneDocumentPerMandateId ==
  \A r, s \in Requests : accountOf(r) = accountOf(s) => mandateOf(r) = mandateOf(s)
=============================================================================
