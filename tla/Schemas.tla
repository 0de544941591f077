------------------------------ MODULE Schemas ------------------------------
(***************************************************************************)
(* The published JSON Schemas that the SDK, the development issuer and the *)
(* sandbox hold their documents against (generated-schemas.ts), one        *)
(* predicate per schema.                                                   *)
(*                                                                         *)
(* A JSON object is a record, or a function on its member names; a member  *)
(* that is None is absent.  A JSON array is a sequence.  A string is       *)
(*   - <<kind, ...>> when it is an identifier: "oati:kind:" and a rest of  *)
(*     identifier characters (a tuple of length 1 has no rest);            *)
(*   - a natural number when it is an RFC 3339 time;                       *)
(*   - a record [coefficient, scale] when it is an amount, with a negative *)
(*     scale when it is no decimal;                                        *)
(*   - <<length, value>> when it is a nonce;                               *)
(*   - otherwise a text of which only Blank, Uris, Currencies and          *)
(*     overlong texts are told apart.                                      *)
(***************************************************************************)
EXTENDS Naturals, Sequences, FiniteSets

CONSTANTS
  None,         \* JavaScript undefined
  Blank,        \* the empty string
  Uris,         \* texts that the format "uri" accepts
  Currencies,   \* texts of three capital letters
  Overlong      \* texts of more than 200 characters

present(d) == {f \in DOMAIN d : d[f] # None}

\* required, properties and additionalProperties: false.
closed(d, required, optional) ==
  required \subseteq present(d) /\ present(d) \subseteq required \cup optional

\* additionalProperties: true.
open(d, required) == required \subseteq present(d)

\* A constraint on a member that may be absent.
has(d, f) == f \in present(d)

nonEmpty(text) == text # Blank
isIdentifier(kind, id) == Len(id) > 1 /\ Head(id) = kind
isTime(t) == t \in Nat
isDecimal(amount) == amount.scale >= 0
isCurrency(text) == text \in Currencies
longNonce(nonce) == nonce[1] >= 16
uniqueItems(array) == \A i, j \in DOMAIN array : i # j => array[i] # array[j]
items(array) == {array[i] : i \in DOMAIN array}

\* The same constraint on several members, each of which may be absent.
each(fields, d, Check(_)) == \A f \in fields \cap present(d) : Check(d[f])

Version(d) == d.oati_version = "1.0"
Decisions == {"allow", "deny", "transform", "approval_required"}
Protocols == {"http", "grpc", "mcp", "a2a"}
Operations == {"mint", "burn", "transfer", "redeem", "publish_state"}
Billing == {"per_request", "per_unit", "subscription", "fixed"}
\* The URIs of the profiles, written as in Evaluator.
CommerceProfile == "commerce"
RwaProfile == "rwa"

-----------------------------------------------------------------------------
(* The proof every signed document carries. *)

\* audience: one text is the array of that text.
proof(p) ==
  /\ closed(p, {"type", "cryptosuite", "algorithm", "created", "expires", "verification_method",
                "proof_purpose", "audience", "nonce", "signature"}, {})
  /\ p.type = "OatiJwsProof2026" /\ p.proof_purpose = "assertionMethod"
  /\ p.cryptosuite \in {"eddsa-jcs-2022", "ecdsa-jcs-2019"} /\ p.algorithm \in {"EdDSA", "ES256"}
  /\ each({"created", "expires"}, p, isTime)
  /\ isIdentifier("key", p.verification_method)
  /\ Len(p.audience) >= 1 /\ uniqueItems(p.audience) /\ Blank \notin items(p.audience)
  /\ longNonce(p.nonce)

proven(d) == each({"proof"}, d, proof)

-----------------------------------------------------------------------------
(* Credentials and transactions. *)

verificationMethod(m) == closed(m, {"id", "type", "controller", "public_key_jwk"}, {})

passport(d) ==
  /\ closed(d, {"oati_version", "id", "organisation_id", "issuer", "status", "issued_at", "expires_at",
                "verification_methods"},
            {"display_name", "capabilities", "protocols", "assurance_level", "status_endpoint", "proof"})
  /\ Version(d) /\ isIdentifier("agent", d.id) /\ isIdentifier("org", d.organisation_id)
  /\ nonEmpty(d.issuer) /\ d.status \in {"active", "suspended", "revoked", "expired"}
  /\ has(d, "display_name") => d.display_name \notin Overlong
  /\ each({"capabilities", "protocols"}, d, uniqueItems)
  /\ has(d, "protocols") => items(d.protocols) \subseteq Protocols
  /\ Len(d.verification_methods) >= 1
  /\ \A m \in items(d.verification_methods) : verificationMethod(m)
  /\ each({"issued_at", "expires_at"}, d, isTime)
  /\ has(d, "status_endpoint") => d.status_endpoint \in Uris
  /\ proven(d)

mandate(d) ==
  /\ closed(d, {"oati_version", "id", "issuer", "subject", "purpose", "actions", "not_before",
                "expires_at", "status"},
            {"sponsor", "parent_mandate", "resources", "counterparties", "destinations", "limits",
             "data_use", "delegation", "profile", "extensions", "proof"})
  /\ Version(d) /\ isIdentifier("mandate", d.id) /\ isIdentifier("agent", d.subject)
  /\ nonEmpty(d.issuer) /\ nonEmpty(d.purpose)
  /\ has(d, "parent_mandate") => isIdentifier("mandate", d.parent_mandate)
  /\ Len(d.actions) >= 1
  /\ each({"actions", "resources", "counterparties", "destinations"}, d, uniqueItems)
  /\ has(d, "delegation") => closed(d.delegation, {"allowed", "max_depth"}, {}) /\ d.delegation.max_depth >= 0
  /\ each({"not_before", "expires_at"}, d, isTime)
  /\ d.status \in {"active", "suspended", "revoked", "expired", "consumed"}
  /\ has(d, "profile") => d.profile \in Uris
  /\ proven(d)

envelope(d) ==
  /\ closed(d, {"oati_version", "id", "agent_id", "organisation_id", "mandate_id", "action", "resource",
                "issued_at", "nonce"},
            {"purpose", "destination", "counterparty", "protocol", "commercial_profile",
             "request_digest", "profile", "extensions", "proof"})
  /\ Version(d) /\ isIdentifier("tx", d.id) /\ isIdentifier("agent", d.agent_id)
  /\ isIdentifier("org", d.organisation_id) /\ isIdentifier("mandate", d.mandate_id)
  /\ nonEmpty(d.action) /\ nonEmpty(d.resource)
  /\ has(d, "protocol") => d.protocol \in Protocols
  /\ isTime(d.issued_at) /\ longNonce(d.nonce)
  /\ has(d, "profile") => d.profile \in Uris
  /\ proven(d)

receipt(d) ==
  /\ closed(d, {"oati_version", "id", "transaction_id", "agent_id", "organisation_id", "mandate_id",
                "decision", "outcome", "occurred_at", "issuer", "proof"},
            {"policy_digest", "request_digest", "response_digest", "commercial_profile", "profile",
             "extensions"})
  /\ Version(d) /\ isIdentifier("receipt", d.id) /\ isIdentifier("tx", d.transaction_id)
  /\ isIdentifier("agent", d.agent_id) /\ isIdentifier("org", d.organisation_id)
  /\ isIdentifier("mandate", d.mandate_id) /\ nonEmpty(d.issuer)
  /\ d.decision \in Decisions
  /\ d.outcome \in {"succeeded", "failed", "denied", "pending", "unknown"}
  /\ isTime(d.occurred_at)
  /\ has(d, "profile") => d.profile \in Uris
  /\ proven(d)

-----------------------------------------------------------------------------
(* Public records. *)

RecordTypes == {"organisation", "agent", "passport", "mandate", "receipt", "issuer", "key",
                "revocation", "service", "profile"}

keyRecord(d) ==
  /\ open(d, {"issued_at", "expires_at"})
  /\ open(d.public_attributes, {"controller", "algorithm", "public_key_jwk"})
  /\ nonEmpty(d.public_attributes.controller) /\ d.public_attributes.algorithm \in {"EdDSA", "ES256"}

publicRecord(d) ==
  /\ closed(d, {"type", "id", "display_name", "status", "issuer", "proof_status", "public_attributes"},
            {"organisation_id", "issued_at", "expires_at", "assurance_level"})
  /\ d.type \in RecordTypes /\ nonEmpty(d.id)
  /\ d.proof_status \in {"verified", "invalid", "unavailable", "unknown"}
  /\ each({"issued_at", "expires_at"}, d, isTime)
  /\ d.type = "key" => keyRecord(d)

-----------------------------------------------------------------------------
(* Evaluation. *)

Amounts == {"amount", "quantity", "minted_supply", "unit_price", "total_amount", "reserve", "current_supply",
            "maximum_supply", "max_unit_price", "max_total", "max_quantity", "resulting_supply", "value"}

\* The usage member of an evaluation request.
usageSnapshot(d) ==
  /\ closed(d, {}, {"calls", "amount", "currency", "quantity", "consumed", "idempotency_keys", "minted_supply"})
  /\ has(d, "calls") => d.calls >= 0
  /\ each(Amounts, d, isDecimal) /\ each({"currency"}, d, isCurrency)

consumption(d) ==
  /\ closed(d, {}, {"calls", "amount", "currency", "quantity", "idempotency_key", "consume"})
  /\ has(d, "calls") => d.calls >= 0
  /\ each(Amounts, d, isDecimal) /\ each({"currency"}, d, isCurrency)

commerceContext(d) ==
  /\ closed(d, {"merchant_organisation_id", "service_id", "offer_id", "currency", "quantity", "unit_price",
                "total_amount", "idempotency_key"}, {"terms_digest"})
  /\ d.quantity >= 1 /\ nonEmpty(d.idempotency_key) /\ isCurrency(d.currency)
  /\ each(Amounts \ {"quantity"}, d, isDecimal)

rwaContext(d) ==
  /\ closed(d, {"asset_id", "state_claim_id", "network", "token_contract", "operation", "unit", "quantity",
                "reserve", "approval_count", "approval_roles", "current_supply", "claim_valid_until"},
            {"maximum_supply"})
  /\ d.operation \in Operations /\ d.approval_count >= 0 /\ uniqueItems(d.approval_roles)
  /\ isTime(d.claim_valid_until)
  /\ each(Amounts, d, isDecimal)

evaluationRequest(d) ==
  /\ closed(d, {"oati_version", "evaluation_time", "mandate", "envelope", "usage"},
            {"parent_mandate", "delegation_depth", "consumption", "commerce", "rwa"})
  /\ Version(d) /\ isTime(d.evaluation_time)
  /\ each({"mandate", "parent_mandate"}, d, mandate) /\ envelope(d.envelope)
  /\ has(d, "delegation_depth") => d.delegation_depth >= 0
  /\ usageSnapshot(d.usage) /\ each({"consumption"}, d, consumption)
  /\ each({"commerce"}, d, commerceContext) /\ each({"rwa"}, d, rwaContext)

-----------------------------------------------------------------------------
(* The Commerce and RWA profiles. *)

profiled(d, profile, extension) ==
  /\ has(d, "profile") /\ d.profile = profile
  /\ has(d, "extensions") /\ has(d.extensions, extension)

commerceMandate(d) ==
  /\ mandate(d) /\ profiled(d, CommerceProfile, "commerce")
  /\ LET c == d.extensions.commerce IN
     /\ closed(c, {"merchant_organisation_id", "service_id", "offer_id", "currency", "max_unit_price",
                   "max_total", "max_quantity"}, {"billing_model", "terms_digest"})
     /\ isCurrency(c.currency) /\ isDecimal(c.max_unit_price) /\ isDecimal(c.max_total)
     /\ c.max_quantity >= 1
     /\ has(c, "billing_model") => c.billing_model \in Billing

commerceReceipt(d) ==
  /\ receipt(d) /\ profiled(d, CommerceProfile, "commerce")
  /\ LET c == d.extensions.commerce IN
     /\ closed(c, {"merchant_organisation_id", "service_id", "offer_id", "currency", "quantity", "unit_price",
                   "total_amount", "fulfilment_status", "terms_digest"}, {"billing_reference"})
     /\ isCurrency(c.currency) /\ isDecimal(c.unit_price) /\ isDecimal(c.total_amount)
     /\ c.quantity >= 1 /\ c.fulfilment_status \in {"fulfilled", "partial", "failed", "refunded"}

rwaStateClaim(d) ==
  /\ closed(d, {"oati_version", "profile", "id", "asset_id", "claim_type", "value", "unit", "observed_at",
                "valid_until", "issuer", "issuer_role", "evidence", "proof"}, {})
  /\ Version(d) /\ d.profile = RwaProfile
  /\ isIdentifier("claim", d.id) /\ isIdentifier("asset", d.asset_id)
  /\ d.claim_type \in {"reserve_balance", "nav", "eligibility", "covenant", "custody", "collateral"}
  /\ isDecimal(d.value) /\ isTime(d.observed_at) /\ isTime(d.valid_until)
  /\ d.issuer_role \in {"custodian", "administrator", "oracle", "auditor"}
  /\ closed(d.evidence, {"digest", "media_type"}, {"uri"}) /\ proven(d)

rwaMandate(d) ==
  /\ mandate(d) /\ profiled(d, RwaProfile, "rwa")
  /\ LET r == d.extensions.rwa IN
     /\ closed(r, {"asset_id", "state_claim_id", "network", "token_contract", "operation", "unit",
                   "max_quantity", "one_time", "minimum_approvals"}, {"required_roles"})
     /\ r.operation \in Operations /\ isDecimal(r.max_quantity) /\ r.minimum_approvals >= 1
     /\ each({"required_roles"}, r, uniqueItems)

rwaReceipt(d) ==
  /\ receipt(d) /\ profiled(d, RwaProfile, "rwa")
  /\ LET r == d.extensions.rwa IN
     /\ closed(r, {"asset_id", "state_claim_id", "operation", "network", "token_contract", "quantity", "unit",
                   "chain_transaction_hash", "approval_count", "resulting_supply"}, {})
     /\ r.operation \in Operations /\ r.approval_count >= 0
     /\ isDecimal(r.quantity) /\ isDecimal(r.resulting_supply)
=============================================================================
