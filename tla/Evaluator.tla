----------------------------- MODULE Evaluator ------------------------------
(***************************************************************************)
(* The deterministic authority evaluator, sdk/typescript/src/evaluator.ts: *)
(* a pure function from an evaluation request (Mandate, Envelope, prior    *)
(* usage, profile contexts, time) to a decision, the reason codes and the  *)
(* usage that allowing the transaction would leave.                        *)
(*                                                                         *)
(* A request is a record with the members of EvaluationRequest; an absent  *)
(* optional member is None, the empty string is Empty. A usage snapshot   *)
(* is None (the {} of a Mandate never used) or a full UsageSnapshot, which *)
(* is what applyConsumption writes.                                        *)
(***************************************************************************)
EXTENDS Delegation

CONSTANTS
  Text,         \* the strings used as currencies and idempotency keys
  Empty         \* the empty string, which the code treats as none given

ASSUME EmptyIsText == Empty \in Text
ASSUME NoneIsNoBoolean == None \notin BOOLEAN

CommerceProfile == "commerce"
RwaProfile      == "rwa"

ASSUME NoneIsNoProfile == None \notin {CommerceProfile, RwaProfile}

\* value ?? fallback
orElse(value, fallback) == IF value = None THEN fallback ELSE value

UsageSnapshot ==
  [calls : Nat, amount : Decimal, currency : Text, quantity : Decimal,
   consumed : BOOLEAN, idempotency_keys : SUBSET Text, minted_supply : Decimal]

normalizedUsage(usage) ==
  orElse(usage, [calls |-> 0, amount |-> ZeroText, currency |-> Empty, quantity |-> ZeroText,
                 consumed |-> FALSE, idempotency_keys |-> {}, minted_supply |-> ZeroText])

\* minted_supply !== undefined: every snapshot applyConsumption wrote has it.
hasMintedSupply(usage) == usage # None

(***************************************************************************)
(* effectiveConsumption: what the transaction consumes.  The profile       *)
(* contexts take precedence over the caller's consumption.                 *)
(***************************************************************************)
NoConsumption == [calls |-> None, amount |-> None, currency |-> None, quantity |-> None,
                  idempotency_key |-> None, consume |-> None]

\* Boolean(value) of a JSON value.
truthy(value) ==
  /\ value # None
  /\ ~(value.type = "boolean" /\ value.value = FALSE)
  /\ ~(value.type = "number" /\ value.value = 0)
  /\ ~(value.type = "string" /\ value.value = Empty)

isOneTime(mandate) ==
  \/ mandate.rwa # None /\ mandate.rwa.one_time
  \/ truthy(member(mandate.limits, "one_time"))

effectiveConsumption(request) ==
  LET supplied == orElse(request.consumption, NoConsumption)
      commerce == request.commerce
      rwa      == request.rwa
  IN  [calls    |-> orElse(supplied.calls, 1),
       amount   |-> IF commerce # None THEN commerce.total_amount
                    ELSE orElse(supplied.amount, ZeroText),
       currency |-> IF commerce # None THEN commerce.currency
                    ELSE orElse(supplied.currency, Empty),
       quantity |-> IF commerce # None THEN decimalOf(commerce.quantity)
                    ELSE IF rwa # None THEN rwa.quantity
                    ELSE orElse(supplied.quantity, ZeroText),
       idempotency_key |-> IF commerce # None THEN commerce.idempotency_key
                           ELSE orElse(supplied.idempotency_key, Empty),
       consume  |-> isOneTime(request.mandate) \/ supplied.consume = TRUE]

checkConsumptionContext(request, effective) ==
  LET supplied == request.consumption
      constrained ==
        (IF request.commerce # None
         THEN {"amount", "currency", "quantity", "idempotency_key"}
         ELSE IF request.rwa # None THEN {"quantity"} ELSE {})
        \cup (IF effective.consume /\ supplied.consume = FALSE THEN {"consume"} ELSE {})
  IN  Reason(supplied # None /\ \E field \in constrained :
                supplied[field] # None /\ supplied[field] # effective[field],
             "CONSUMPTION_CONTEXT_MISMATCH")

(***************************************************************************)
(* checkConsumption: one-time use, idempotency and the core limits.        *)
(***************************************************************************)
limitOf(mandate, name) == member(mandate.limits, name)

callLimitExceeded(mandate, usage, delta) ==
  LET limit == limitOf(mandate, "max_calls")
  IN  hasType(limit, "number") /\ usage.calls + delta.calls > limit.value

quantityLimitExceeded(mandate, usage, delta) ==
  LET limit == limitOf(mandate, "max_quantity")
      used  == addDecimal(usage.quantity, delta.quantity)
  IN  /\ mandate.profile = None
      /\ \/ hasType(limit, "number")  /\ compareDecimal(used, decimalOf(limit.value)) > 0
         \/ hasType(limit, "decimal") /\ compareDecimal(used, limit.value) > 0

budgetChecked(mandate, delta) ==
  hasType(limitOf(mandate, "max_total"), "decimal") /\ delta.amount # ZeroText

\* Faulty variant: only what was spent before is compared.
spentCurrencyMismatch(mandate, usage, delta) ==
  LET currency == limitOf(mandate, "currency")
  IN  /\ hasType(currency, "string") /\ currency.value # Empty
      /\ usage.amount # ZeroText /\ usage.currency # currency.value

budgetCurrencyMismatch(mandate, usage, delta) ==
  LET currency == limitOf(mandate, "currency")
  IN  /\ hasType(currency, "string") /\ currency.value # Empty
      /\ \/ delta.currency # currency.value
         \/ usage.amount # ZeroText /\ usage.currency # currency.value

budgetExceeded(mandate, usage, delta) ==
  compareDecimal(addDecimal(usage.amount, delta.amount),
                 limitOf(mandate, "max_total").value) > 0

checkConsumption(mandate, usage, delta) ==
  Reason(usage.consumed, "MANDATE_ALREADY_CONSUMED")
  \cup Reason(delta.idempotency_key # Empty /\ delta.idempotency_key \in usage.idempotency_keys,
              "IDEMPOTENCY_REPLAY")
  \cup Reason(callLimitExceeded(mandate, usage, delta), "CALL_LIMIT_EXCEEDED")
  \cup Reason(quantityLimitExceeded(mandate, usage, delta), "QUANTITY_LIMIT_EXCEEDED")
  \cup Reason(budgetChecked(mandate, delta) /\ budgetCurrencyMismatch(mandate, usage, delta),
              "BUDGET_CURRENCY_MISMATCH")
  \cup Reason(budgetChecked(mandate, delta) /\ budgetExceeded(mandate, usage, delta),
              "BUDGET_EXCEEDED")

(***************************************************************************)
(* checkCommerce.  `signed` is the commerce extension the Envelope's       *)
(* signature covers; a context that differs from it is a substitution.     *)
(***************************************************************************)
SignedCommerceFields == {"offer_id", "currency", "quantity", "unit_price", "total_amount",
                         "idempotency_key", "terms_digest"}

commerceSubstituted(envelope, context) ==
  /\ envelope.commerce # None
  /\ \/ envelope.resource # context.service_id
     \/ envelope.counterparty # context.merchant_organisation_id
     \/ ~sameFields(envelope.commerce, context, SignedCommerceFields)

commerceReasons(limits, context, usage) ==
  Reason(context.merchant_organisation_id # limits.merchant_organisation_id,
         "COMMERCE_MERCHANT_NOT_ALLOWED")
  \cup Reason(context.service_id # limits.service_id, "COMMERCE_SERVICE_NOT_ALLOWED")
  \cup Reason(context.offer_id # limits.offer_id, "COMMERCE_OFFER_NOT_ALLOWED")
  \cup Reason(\/ context.currency # limits.currency
              \/ usage.amount # ZeroText /\ usage.currency # context.currency,
              "COMMERCE_CURRENCY_MISMATCH")
  \cup Reason(compareDecimal(context.unit_price, limits.max_unit_price) > 0,
              "COMMERCE_UNIT_PRICE_EXCEEDED")
  \cup Reason(compareDecimal(context.total_amount,
                             multiplyDecimal(context.unit_price, context.quantity)) # 0,
              "COMMERCE_TOTAL_INVALID")
  \cup Reason(compareDecimal(addDecimal(usage.amount, context.total_amount),
                             limits.max_total) > 0,
              "COMMERCE_BUDGET_EXCEEDED")
  \cup Reason(context.quantity > limits.max_quantity, "COMMERCE_QUANTITY_EXCEEDED")
  \cup Reason(limits.terms_digest # None /\ context.terms_digest # limits.terms_digest,
              "COMMERCE_TERMS_MISMATCH")

checkCommerce(mandate, envelope, context, usage) ==
  IF context = None \/ mandate.commerce = None THEN {"COMMERCE_CONTEXT_REQUIRED"}
  ELSE LET domain == commerceReasons(mandate.commerce, context, usage)
       IN  domain
           \cup Reason(context.idempotency_key \in usage.idempotency_keys,
                       "IDEMPOTENCY_REPLAY")
           \cup Reason(commerceSubstituted(envelope, context) /\ domain = {},
                       "COMMERCE_ENVELOPE_CONTEXT_MISMATCH")

(***************************************************************************)
(* checkRwa: a controlled operation on a tokenised asset.                  *)
(***************************************************************************)
rwaSubstituted(envelope, context) ==
  /\ envelope.rwa # None
  /\ \/ envelope.resource # context.asset_id
     \/ ~sameFields(envelope.rwa, context, RwaIdentity \cup {"quantity"})

checkRwa(mandate, envelope, context, usage, supplyTracked, now) ==
  IF context = None \/ mandate.rwa = None THEN {"RWA_CONTEXT_REQUIRED"}
  ELSE LET limits == mandate.rwa
           supply == addDecimal(context.current_supply, context.quantity)
       IN  Reason(rwaSubstituted(envelope, context), "RWA_ENVELOPE_CONTEXT_MISMATCH")
           \cup Reason(~sameFields(context, limits, RwaIdentity), "RWA_TARGET_MISMATCH")
           \cup Reason(context.claim_valid_until <= now, "RWA_STATE_CLAIM_EXPIRED")
           \cup Reason(compareDecimal(addDecimal(usage.quantity, context.quantity),
                                      limits.max_quantity) > 0, "RWA_QUANTITY_EXCEEDED")
           \cup Reason(compareDecimal(supply, context.reserve) > 0, "RWA_RESERVE_EXCEEDED")
           \cup Reason(/\ context.maximum_supply # None
                       /\ compareDecimal(supply, context.maximum_supply) > 0,
                       "RWA_MAXIMUM_SUPPLY_EXCEEDED")
           \cup Reason(/\ supplyTracked
                       /\ compareDecimal(usage.minted_supply, context.current_supply) # 0,
                       "RWA_SUPPLY_STATE_MISMATCH")
           \cup Reason(context.approval_count < limits.minimum_approvals,
                       "RWA_APPROVAL_THRESHOLD_NOT_MET")
           \cup Reason(~(limits.required_roles \subseteq context.approval_roles),
                       "RWA_REQUIRED_ROLE_MISSING")
           \cup Reason(limits.one_time /\ usage.consumed, "MANDATE_ALREADY_CONSUMED")

(***************************************************************************)
(* evaluateAuthority.                                                      *)
(***************************************************************************)
checkSetConstraint(allowed, actual, code) ==
  Reason(allowed # None /\ (actual \in {None, Empty} \/ actual \notin allowed), code)

checkEnvelope(mandate, envelope, now) ==
  Reason(mandate.status # "active", "MANDATE_NOT_ACTIVE")
  \cup Reason(mandate.not_before > now, "MANDATE_NOT_YET_ACTIVE")
  \cup Reason(mandate.expires_at <= now, "MANDATE_EXPIRED")
  \cup Reason(envelope.mandate_id # mandate.id, "MANDATE_REFERENCE_MISMATCH")
  \cup Reason(envelope.agent_id # mandate.subject, "SUBJECT_MISMATCH")
  \cup Reason(envelope.action \notin mandate.actions, "ACTION_NOT_ALLOWED")
  \cup checkSetConstraint(mandate.resources, envelope.resource, "RESOURCE_NOT_ALLOWED")
  \cup Reason(envelope.purpose # mandate.purpose, "PURPOSE_MISMATCH")
  \cup checkSetConstraint(mandate.counterparties, envelope.counterparty,
                          "COUNTERPARTY_NOT_ALLOWED")
  \cup checkSetConstraint(mandate.destinations, envelope.destination,
                          "DESTINATION_NOT_ALLOWED")
  \cup Reason(envelope.profile # None /\ envelope.profile # mandate.profile,
              "PROFILE_MISMATCH")

checkParent(request) ==
  LET mandate == request.mandate
  IN  IF request.parent_mandate # None
      THEN checkChildMandate(mandate, request.parent_mandate,
                             orElse(request.delegation_depth, 1), request.evaluation_time)
      ELSE Reason(mandate.parent_mandate # None, "PARENT_MANDATE_REQUIRED")

checkProfiles(request, usage) ==
  LET mandate  == request.mandate
      envelope == request.envelope
  IN  (IF request.commerce # None \/ mandate.profile = CommerceProfile
       THEN checkCommerce(mandate, envelope, request.commerce, usage) ELSE {})
      \cup
      (IF request.rwa # None \/ mandate.profile = RwaProfile
       THEN checkRwa(mandate, envelope, request.rwa, usage,
                     hasMintedSupply(request.usage), request.evaluation_time)
       ELSE {})

\* Faulty variant: it keeps the last idempotency key only.
applyLastKey(usage, delta, request) ==
  [calls |-> usage.calls + delta.calls, amount |-> addDecimal(usage.amount, delta.amount),
   currency |-> delta.currency, quantity |-> addDecimal(usage.quantity, delta.quantity),
   consumed |-> usage.consumed \/ delta.consume,
   idempotency_keys |-> {delta.idempotency_key}, minted_supply |-> usage.minted_supply]

applyConsumption(usage, delta, request) ==
  [calls    |-> usage.calls + delta.calls,
   amount   |-> addDecimal(usage.amount, delta.amount),
   currency |-> IF delta.currency # Empty THEN delta.currency ELSE usage.currency,
   quantity |-> addDecimal(usage.quantity, delta.quantity),
   consumed |-> usage.consumed \/ delta.consume,
   idempotency_keys |-> usage.idempotency_keys \cup
                        (IF delta.idempotency_key # Empty THEN {delta.idempotency_key} ELSE {}),
   minted_supply |-> IF request.rwa # None
                     THEN addDecimal(request.rwa.current_supply, request.rwa.quantity)
                     ELSE usage.minted_supply]

\* A limit compared as a decimal although it is some other string.
consumptionCheckThrows(mandate, delta) ==
  \/ mandate.profile = None /\ hasType(limitOf(mandate, "max_quantity"), "string")
  \/ hasType(limitOf(mandate, "max_total"), "string") /\ delta.amount # ZeroText

evaluationThrows(request) ==
  \/ /\ request.parent_mandate # None
     /\ childCheckThrows(request.mandate, request.parent_mandate)
  \/ consumptionCheckThrows(request.mandate, effectiveConsumption(request))

reasonCodes(request) ==
  LET usage == normalizedUsage(request.usage)
      delta == effectiveConsumption(request)
  IN  checkEnvelope(request.mandate, request.envelope, request.evaluation_time)
      \cup checkParent(request)
      \cup checkConsumptionContext(request, delta)
      \cup checkConsumption(request.mandate, usage, delta)
      \cup checkProfiles(request, usage)

\* decision = "allow" (an evaluation that throws allows nothing).
allows(request) == ~evaluationThrows(request) /\ reasonCodes(request) = {}

\* next_usage of an allow decision.
nextUsage(request) ==
  applyConsumption(normalizedUsage(request.usage), effectiveConsumption(request), request)
=============================================================================
