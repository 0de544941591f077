------------------------------ MODULE Profiles ------------------------------
(***************************************************************************)
(* The validators of Commerce and RWA documents that a buyer, an issuer or *)
(* an auditor runs without the evaluator (index.ts): issues found in a     *)
(* Receipt or in a controlled-mint Mandate, and the decimal arithmetic on  *)
(* text they use.  Documents are written as in Schemas.                    *)
(***************************************************************************)
EXTENDS Evaluator, Sequences

CONSTANTS
  Blank, Uris, Currencies, Overlong,   \* texts, as in Schemas
  MaxSafeInteger                       \* Number.MAX_SAFE_INTEGER, 2^53 - 1

ASSUME MaxSafeIntegerNat == MaxSafeInteger \in Nat

Schema == INSTANCE Schemas

has(d, f) == Schema!has(d, f)
isDecimal(amount) == amount.scale >= 0

-----------------------------------------------------------------------------
(* compareDecimal and multiplyDecimal of index.ts work on the digits. *)

NotDecimal == D(0, -1)

digits[n \in Nat] == IF n < 10 THEN <<n>> ELSE Append(digits[n \div 10], n % 10)

zeros(n) == [i \in 1..n |-> 0]

\* All digits of the text, with the zeros it starts with.
written(d) ==
  LET s == digits[d.coefficient]
  IN  IF Len(s) > d.scale THEN s ELSE zeros(d.scale + 1 - Len(s)) \o s

whole(d) == SubSeq(written(d), 1, Len(written(d)) - d.scale)
fraction(d) == SubSeq(written(d), Len(written(d)) - d.scale + 1, Len(written(d)))

\* a > b for texts of one length.
textAfter(a, b) == \E i \in DOMAIN a : a[i] > b[i] /\ \A j \in 1..(i - 1) : a[j] = b[j]

compareTextOf(a, b) == IF a = b THEN 0 ELSE IF textAfter(a, b) THEN 1 ELSE -1

padEnd(s, width) == s \o zeros(width - Len(s))

\* Faulty variant: the fractions are not brought to one length.
compareFractionsUnpadded(left, right) ==
  LET width == Max({left.scale, right.scale})
      padStart(s) == zeros(width - Len(s)) \o s
  IN  compareTextOf(padStart(fraction(left)), padStart(fraction(right)))

compareFractions(left, right) ==
  LET width == Max({left.scale, right.scale})
  IN  compareTextOf(padEnd(fraction(left), width), padEnd(fraction(right), width))

\* None stands for NaN, which is in no order with a number.
compareTexts(left, right) ==
  IF ~isDecimal(left) \/ ~isDecimal(right) THEN None
  ELSE IF Len(whole(left)) # Len(whole(right))
       THEN IF Len(whole(left)) > Len(whole(right)) THEN 1 ELSE -1
       ELSE IF whole(left) # whole(right) THEN compareTextOf(whole(left), whole(right))
       ELSE compareFractions(left, right)

exceeds(left, right) == compareTexts(left, right) = 1
positive(amount) == isDecimal(amount) /\ exceeds(amount, ZeroText)

\* The text "invalid", which is no decimal, for a multiplier that is no safe
\* integer: the evaluator's multiplyDecimal has no such bound.
multiplyText(value, multiplier) ==
  IF ~isDecimal(value) \/ multiplier < 0 \/ multiplier > MaxSafeInteger THEN NotDecimal
  ELSE D(value.coefficient * multiplier, value.scale)

-----------------------------------------------------------------------------
(* The validators: the set of issues; none means valid. *)

startsWith(id, kind) == Head(id) = kind

validateReceiptCore(receipt) ==
  Reason(~startsWith(receipt.id, "receipt"), "invalid Receipt id")
  \cup Reason(~startsWith(receipt.transaction_id, "tx"), "invalid transaction id")
  \cup Reason(~startsWith(receipt.mandate_id, "mandate"), "invalid Mandate reference")
  \cup Reason(~has(receipt, "proof"), "missing Receipt proof")

validateMandateCore(mandate, now) ==
  Reason(~startsWith(mandate.id, "mandate"), "invalid Mandate id")
  \cup Reason(~startsWith(mandate.subject, "agent"), "invalid Mandate subject")
  \cup Reason(Len(mandate.actions) = 0, "Mandate needs at least one action")
  \cup Reason(mandate.not_before > now, "Mandate is not active yet")
  \cup Reason(mandate.expires_at <= now, "Mandate is expired")
  \cup Reason(mandate.status # "active", "Mandate status")

\* Faulty variant: the bounds are exclusive.
commerceWithinStrictly(commerce, limit) ==
  Reason(commerce.quantity >= limit.max_quantity, "quantity exceeds Mandate")
  \cup Reason(compareTexts(commerce.total_amount, limit.max_total) # -1, "total amount exceeds Mandate")

commerceWithin(commerce, limit) ==
  Reason(commerce.merchant_organisation_id # limit.merchant_organisation_id, "merchant is not authorised")
  \cup Reason(commerce.service_id # limit.service_id, "service is not authorised")
  \cup Reason(commerce.offer_id # limit.offer_id, "offer is not authorised")
  \cup Reason(commerce.currency # limit.currency, "currency differs")
  \cup Reason(limit.terms_digest # None /\ commerce.terms_digest # limit.terms_digest, "terms digest differs")
  \cup Reason(commerce.quantity > limit.max_quantity, "quantity exceeds Mandate")
  \cup Reason(exceeds(commerce.unit_price, limit.max_unit_price), "unit price exceeds Mandate")
  \cup Reason(exceeds(commerce.total_amount, limit.max_total), "total amount exceeds Mandate")

validateCommerceReceipt(receipt, mandate) ==
  validateReceiptCore(receipt)
  \cup Reason(receipt.profile # CommerceProfile, "unexpected Commerce profile URI")
  \cup IF ~has(receipt.extensions, "commerce") THEN {"missing extensions.commerce"}
       ELSE LET commerce == receipt.extensions.commerce IN
            Reason(commerce.currency \notin Currencies, "currency")
            \cup Reason(commerce.quantity < 1, "quantity must be at least 1")
            \cup Reason(~isDecimal(commerce.unit_price), "unit_price")
            \cup Reason(~isDecimal(commerce.total_amount), "total_amount")
            \cup Reason(/\ isDecimal(commerce.unit_price) /\ isDecimal(commerce.total_amount)
                        /\ compareTexts(commerce.total_amount,
                                        multiplyText(commerce.unit_price, commerce.quantity)) # 0,
                        "total amount must equal unit price multiplied by quantity")
            \cup Reason(receipt.mandate_id # mandate.id, "receipt mandate_id does not match Mandate")
            \cup commerceWithin(commerce, mandate.extensions.commerce)

\* Faulty variant: the Mandate may exceed the claim.
claimIssuesUnbounded(rwa, claim, now) ==
  Reason(~sameFields(rwa, claim, {"asset_id", "unit"}), "State Claim differs from Mandate")
  \cup Reason(claim.valid_until <= now, "State Claim is expired")

claimIssues(rwa, claim, now) ==
  Reason(claim.claim_type # "reserve_balance", "controlled mint requires a reserve_balance State Claim")
  \cup Reason(rwa.asset_id # claim.asset_id, "State Claim asset differs from Mandate")
  \cup Reason(rwa.state_claim_id # claim.id, "State Claim id differs from Mandate")
  \cup Reason(rwa.unit # claim.unit, "State Claim unit differs from Mandate")
  \cup Reason(claim.valid_until <= now, "State Claim is expired")
  \cup Reason(claim.observed_at > now, "State Claim observation is in the future")
  \cup Reason(claim.valid_until <= claim.observed_at, "State Claim valid_until must be after observed_at")
  \cup Reason(exceeds(rwa.max_quantity, claim.value), "mint authority exceeds claimed reserve")

validateMintMandate(mandate, claim, now) ==
  validateMandateCore(mandate, now)
  \cup Reason(mandate.profile # RwaProfile, "unexpected RWA profile URI")
  \cup IF ~has(mandate, "extensions") \/ ~has(mandate.extensions, "rwa") THEN {"missing extensions.rwa"}
       ELSE LET rwa == mandate.extensions.rwa IN
            Reason(rwa.operation # "mint", "controlled-mint Mandate operation must be mint")
            \cup Reason(~rwa.one_time, "controlled-mint Mandate must be one-time")
            \cup Reason(~positive(rwa.max_quantity), "max_quantity must be greater than zero")
            \cup Reason(rwa.minimum_approvals < 1, "minimum_approvals must be at least 1")
            \cup claimIssues(rwa, claim, now)

rwaWithin(rwa, limit) ==
  Reason(rwa.asset_id # limit.asset_id, "receipt asset differs from Mandate")
  \cup Reason(rwa.state_claim_id # limit.state_claim_id, "receipt State Claim differs from Mandate")
  \cup Reason(~sameFields(rwa, limit, {"network", "token_contract"}), "receipt token target differs from Mandate")
  \cup Reason(rwa.operation # limit.operation, "receipt operation differs from Mandate")
  \cup Reason(rwa.unit # limit.unit, "receipt unit differs from Mandate")
  \cup Reason(exceeds(rwa.quantity, limit.max_quantity), "receipt quantity exceeds Mandate")
  \cup Reason(rwa.approval_count < limit.minimum_approvals, "receipt has insufficient approvals")

validateRwaReceipt(receipt, mandate) ==
  validateReceiptCore(receipt)
  \cup Reason(receipt.profile # RwaProfile, "unexpected RWA profile URI")
  \cup IF ~has(receipt.extensions, "rwa") THEN {"missing extensions.rwa"}
       ELSE LET rwa == receipt.extensions.rwa IN
            Reason(~has(rwa, "chain_transaction_hash"), "missing chain transaction hash")
            \cup Reason(rwa.approval_count < 0, "approval_count cannot be negative")
            \cup Reason(~positive(rwa.quantity), "receipt quantity must be greater than zero")
            \cup Reason(~has(rwa, "resulting_supply") \/ ~isDecimal(rwa.resulting_supply), "resulting_supply")
            \cup Reason(receipt.mandate_id # mandate.id, "receipt mandate_id does not match Mandate")
            \cup rwaWithin(rwa, mandate.extensions.rwa)
=============================================================================
