------------------------------ MODULE Sellers ------------------------------
(***************************************************************************)
(* The two sellers of the sandbox (sandbox/service.mjs): a purchase or a   *)
(* mint is verified, evaluated against the seller's usage and answered     *)
(* with a Receipt that the issuer service builds; and a service behind the *)
(* middleware that meters consumption itself.  The model follows one       *)
(* request through the evaluator, the Receipt, the published schemas and   *)
(* the validators a buyer runs on the Receipt, for every usage that an     *)
(* earlier evaluation can have left.                                       *)
(*                                                                         *)
(* Whether verifySigned accepts both documents is part of the input        *)
(* (TrustChain models it); documents are written as in Schemas.            *)
(***************************************************************************)
EXTENDS Profiles

CONSTANTS
  Exchanges,        \* requests: seller, documents, usage, time, State Claim
  MaxPlainInteger   \* 10^21 - 1, the last integer String() writes without an exponent

VARIABLES
  exchange,   \* the request
  answer      \* None, or status, decision, next usage and Receipt

vars == <<exchange, answer>>

-----------------------------------------------------------------------------
(* What the evaluator reads of a document. *)

setOf(d, f) == IF has(d, f) THEN Schema!items(d[f]) ELSE None
extension(d, f) == IF has(d, "extensions") THEN member(d.extensions, f) ELSE None

authority(m) ==
  LET rwa == extension(m, "rwa") IN
  [id |-> m.id, status |-> m.status, not_before |-> m.not_before, expires_at |-> m.expires_at,
   subject |-> m.subject, actions |-> Schema!items(m.actions), purpose |-> m.purpose,
   resources |-> setOf(m, "resources"), counterparties |-> setOf(m, "counterparties"),
   destinations |-> setOf(m, "destinations"), profile |-> m.profile, parent_mandate |-> None,
   delegation |-> m.delegation, limits |-> m.limits, data_use |-> None, commerce |-> extension(m, "commerce"),
   rwa |-> IF rwa = None THEN None ELSE [rwa EXCEPT !.required_roles = Schema!items(@)]]

\* The signed commerce terms under the names of the evaluator's context.
quoted(s) ==
  [offer_id |-> s.offer_id, currency |-> s.currency, quantity |-> s.quantity, unit_price |-> s.quoted_unit_price,
   total_amount |-> s.quoted_total, idempotency_key |-> s.idempotency_key, terms_digest |-> s.terms_digest]

transaction(e) ==
  LET commerce == extension(e, "commerce") IN
  [mandate_id |-> e.mandate_id, agent_id |-> e.agent_id, action |-> e.action, resource |-> e.resource,
   purpose |-> e.purpose, counterparty |-> e.counterparty, destination |-> e.destination, profile |-> None,
   commerce |-> IF commerce = None THEN None ELSE quoted(commerce), rwa |-> extension(e, "rwa")]

evaluated(x, commerce, rwa) ==
  [evaluation_time |-> x.at, mandate |-> authority(x.mandate), parent_mandate |-> None, delegation_depth |-> None,
   envelope |-> transaction(x.envelope), usage |-> x.usage, consumption |-> x.consumption,
   commerce |-> commerce, rwa |-> rwa]

-----------------------------------------------------------------------------
(* The contexts the sellers build. *)

merge(left, right) == [f \in DOMAIN left \cup DOMAIN right |-> IF f \in DOMAIN right THEN right[f] ELSE left[f]]

commerceOf(x) ==
  merge(quoted(x.envelope.extensions.commerce),
        [merchant_organisation_id |-> x.envelope.counterparty, service_id |-> x.envelope.resource])

\* The seller's terms, the signed ones over them, and what it attests.
rwaOf(x) == merge(merge(x.terms, x.envelope.extensions.rwa), x.attested)

requestOf(x) ==
  CASE x.seller = "commerce" -> evaluated(x, commerceOf(x), None)
    [] x.seller = "rwa"      -> evaluated(x, None, [rwaOf(x) EXCEPT !.approval_roles = Schema!items(@)])
    [] x.seller = "metered"  -> evaluated(x, None, None)

\* The usage the answer carries: the next one, or the normalized one.
nextUsageOf(request) == IF allows(request) THEN nextUsage(request) ELSE normalizedUsage(request.usage)

\* POST /receipts: issueReceipt for the Envelope.
receiptOf(x, allowed, profile, terms) ==
  [oati_version |-> "1.0", id |-> <<"receipt">> \o Tail(x.envelope.id), transaction_id |-> x.envelope.id,
   agent_id |-> x.envelope.agent_id, organisation_id |-> x.envelope.organisation_id,
   mandate_id |-> x.envelope.mandate_id, decision |-> IF allowed THEN "allow" ELSE "deny",
   outcome |-> IF allowed THEN "succeeded" ELSE "denied", occurred_at |-> x.at, issuer |-> <<"issuer", "seller">>,
   profile |-> profile, extensions |-> terms, policy_digest |-> "policy",
   proof |-> [x.envelope.proof EXCEPT !.verification_method = <<"key", "seller">>]]

fulfilledTerms(x, status) == merge(commerceOf(x), [fulfilment_status |-> status])

\* Faulty variant: the decision is written where the fulfilment belongs.
commerceReceiptRaw(x) ==
  LET decision == IF allows(requestOf(x)) THEN "allow" ELSE "deny" IN
  receiptOf(x, allows(requestOf(x)), CommerceProfile, [commerce |-> fulfilledTerms(x, decision)])

commerceReceiptOf(x) ==
  LET allowed == allows(requestOf(x)) IN
  receiptOf(x, allowed, CommerceProfile,
            [commerce |-> fulfilledTerms(x, IF allowed THEN "fulfilled" ELSE "failed")])

mintedTerms(x) ==
  LET rwa == rwaOf(x) IN
  [asset_id |-> rwa.asset_id, state_claim_id |-> rwa.state_claim_id, operation |-> rwa.operation,
   network |-> rwa.network, token_contract |-> rwa.token_contract, quantity |-> rwa.quantity,
   unit |-> rwa.unit, approval_count |-> rwa.approval_count,
   resulting_supply |-> nextUsageOf(requestOf(x)).minted_supply, chain_transaction_hash |-> x.envelope.id]

rwaReceiptOf(x) == receiptOf(x, allows(requestOf(x)), RwaProfile, [rwa |-> mintedTerms(x)])

-----------------------------------------------------------------------------
(* The requests: documents that satisfy their schemas, with the members    *)
(* that the buyer signs and the seller attests in the sandbox, after a     *)
(* usage that an evaluation can have left.                                 *)

\* POST /transactions/commerce.  On a quantity that String() writes with an
\* exponent the evaluator throws, and there is no answer.
PurchaseTerms == {"offer_id", "currency", "quantity", "quoted_unit_price", "quoted_total", "idempotency_key", "terms_digest"}

purchaseConforms(x) ==
  LET signed == x.envelope.extensions.commerce
      limits == x.mandate.extensions.commerce
  IN  /\ Schema!commerceMandate(x.mandate)
      /\ limits.max_unit_price \in Decimal /\ limits.max_total \in Decimal
      /\ limits.max_quantity \in Nat /\ limits.max_quantity <= MaxPlainInteger
      /\ has(x.envelope, "extensions") /\ has(x.envelope.extensions, "commerce") /\ has(x.envelope, "counterparty")
      /\ DOMAIN signed = PurchaseTerms /\ PurchaseTerms \ {"terms_digest"} \subseteq Schema!present(signed)
      /\ signed.quoted_unit_price \in Decimal /\ signed.quoted_total \in Decimal /\ signed.quantity \in Nat \ {0}
      /\ signed.quantity <= MaxPlainInteger
      /\ signed.currency \in Currencies /\ signed.idempotency_key \in Text \ {Empty, Blank}
      /\ x.consumption = None

\* POST /transactions/rwa, and what the seller adds.
MintTerms == RwaIdentity \cup {"quantity"}
LimitTerms == RwaIdentity \cup {"max_quantity", "one_time", "minimum_approvals", "required_roles"}
AttestedTerms == {"reserve", "approval_count", "approval_roles", "current_supply", "maximum_supply", "claim_valid_until"}

mintConforms(x) ==
  LET signed == x.envelope.extensions.rwa
      limits == x.mandate.extensions.rwa
      state  == x.attested
  IN  /\ Schema!rwaMandate(x.mandate) /\ Schema!rwaStateClaim(x.claim) /\ x.claim.value \in Decimal
      /\ limits.max_quantity \in Decimal /\ limits.minimum_approvals \in Nat
      /\ has(x.envelope, "extensions") /\ has(x.envelope.extensions, "rwa")
      /\ DOMAIN signed = MintTerms /\ MintTerms \subseteq Schema!present(signed)
      /\ signed.operation \in Schema!Operations /\ signed.quantity \in Decimal
      /\ DOMAIN x.terms = LimitTerms
      /\ DOMAIN state = AttestedTerms /\ AttestedTerms \ {"maximum_supply"} \subseteq Schema!present(state)
      /\ state.reserve \in Decimal /\ state.current_supply \in Decimal /\ state.maximum_supply \in Decimal \cup {None}
      /\ state.approval_count \in Nat /\ Schema!uniqueItems(state.approval_roles) /\ state.claim_valid_until \in Nat
      /\ x.consumption = None

callConforms(x) ==
  /\ Schema!mandate(x.mandate)
  /\ x.consumption # None =>
       /\ Schema!consumption(x.consumption)
       /\ x.consumption.calls \in Nat \cup {None}
       /\ x.consumption.amount \in Decimal \cup {None} /\ x.consumption.quantity \in Decimal \cup {None}
       /\ x.consumption.currency \in Currencies \cup {None} /\ x.consumption.idempotency_key \in Text \cup {None}

\* A document that verifies carries a proof; whether these two do is `trusted`.
conforms(x) ==
  /\ Schema!envelope(x.envelope) /\ x.envelope.id \in Seq(Schema!items(x.envelope.id))
  /\ x.known \in BOOLEAN /\ x.trusted \in BOOLEAN /\ x.at \in Nat
  /\ x.trusted => has(x.envelope, "proof")
  /\ x.usage # None => x.usage \in UsageSnapshot /\ x.usage.currency \in Currencies \cup {Empty}
  /\ \/ x.seller = "commerce" /\ purchaseConforms(x)
     \/ x.seller = "rwa" /\ mintConforms(x)
     \/ x.seller = "metered" /\ callConforms(x)

ASSUME ExchangesConform == \A x \in Exchanges : conforms(x)

\* A usage as it is sent: a currency only once one was named.
SentUsage ==
  [calls : Nat, amount : Decimal, currency : Currencies \cup {None}, quantity : Decimal, consumed : BOOLEAN,
   idempotency_keys : SUBSET Text, minted_supply : Decimal]

\* No value that a seller writes is undefined.
ASSUME UndefinedIsNoValue ==
  /\ None \notin Nat /\ None \notin Decimal /\ None \notin SentUsage /\ None \notin UsageSnapshot
  /\ None \notin {"1.0", "allow", "deny", "succeeded", "denied", "fulfilled", "failed", "policy"}
  /\ None \notin {<<"issuer", "seller">>, <<"key", "seller">>}
  /\ \A x \in Exchanges :
       LET identified == <<"receipt">> \o Tail(x.envelope.id)
           proved     == [x.envelope.proof EXCEPT !.verification_method = <<"key", "seller">>]
       IN  /\ x.mandate # None /\ x.envelope # None /\ identified # None
           /\ x.trusted => proved # None
           /\ x.seller = "commerce" =>
                /\ commerceOf(x) # None
                /\ \A status \in {"fulfilled", "failed"} :
                     LET terms   == fulfilledTerms(x, status)
                         keyless == [terms EXCEPT !.idempotency_key = None]
                     IN  terms # None /\ [commerce |-> terms] # None /\ keyless # None /\ [commerce |-> keyless] # None
           /\ x.seller = "rwa" => rwaOf(x) # None /\ mintedTerms(x) # None /\ [rwa |-> mintedTerms(x)] # None

ASSUME IssuerIsNotBlank == <<"issuer", "seller">> # Blank

-----------------------------------------------------------------------------
Init == exchange \in Exchanges /\ answer = None

\* An unknown Mandate is a 403, a document that does not verify a 401.
refuse ==
  /\ answer = None
  /\ \/ ~exchange.known /\ answer' = [status |-> 403]
     \/ exchange.known /\ ~exchange.trusted /\ answer' = [status |-> 401]
  /\ UNCHANGED exchange

reply(receipt) ==
  LET request == requestOf(exchange) IN
  /\ answer = None /\ exchange.known /\ exchange.trusted
  /\ answer' = [status |-> IF allows(request) THEN 200 ELSE 403, usage |-> nextUsageOf(request), receipt |-> receipt]
  /\ UNCHANGED exchange

purchase == exchange.seller = "commerce" /\ reply(commerceReceiptOf(exchange))
mint     == exchange.seller = "rwa" /\ reply(rwaReceiptOf(exchange))

\* The middleware without a profile: its Receipt carries no terms.
meter    == exchange.seller = "metered" /\ reply(receiptOf(exchange, allows(requestOf(exchange)), None, << >>))

Next == refuse \/ purchase \/ mint \/ meter

Spec == Init /\ [][Next]_vars

-----------------------------------------------------------------------------
(* Properties. *)

\* The evaluation request as a document, with the given usage and without what
\* the RWA seller's terms add to the context.
requestDocument(x, usage) ==
  [oati_version |-> "1.0", evaluation_time |-> x.at, mandate |-> x.mandate, envelope |-> x.envelope, usage |-> usage,
   consumption |-> x.consumption, commerce |-> IF x.seller = "commerce" THEN commerceOf(x) ELSE None,
   rwa |-> IF x.seller # "rwa" THEN None
           ELSE [rwaOf(x) EXCEPT !.max_quantity = None, !.one_time = None, !.minimum_approvals = None,
                                 !.required_roles = None]]

\* A Commerce Receipt without the idempotency key among its terms.
withoutKey(receipt) ==
  LET terms == [receipt.extensions.commerce EXCEPT !.idempotency_key = None]
  IN  [receipt EXCEPT !.extensions = [commerce |-> terms]]

sold(seller) == answer # None /\ exchange.seller = seller /\ exchange.known /\ exchange.trusted
allowed == answer.status = 200

\* The evaluator and the buyer's validator judge a purchase alike: the Receipt of
\* an allowed purchase has no issues, and when the Receipt has none and nothing was
\* spent before, no limit of the Mandate was a reason to deny.  They differ on one
\* thing: of a quantity beyond the safe integers the validator does not recompute
\* the total (multiplyDecimal of index.ts), which the evaluator does with a BigInt,
\* so that the Receipt of an allowed purchase has that issue, and no other.
CommerceAgree ==
  sold("commerce") =>
    LET issues == validateCommerceReceipt(answer.receipt, exchange.mandate)
        limits == exchange.mandate.extensions.commerce
        reasons == commerceReasons(limits, commerceOf(exchange), normalizedUsage(exchange.usage))
        total  == "total amount must equal unit price multiplied by quantity"
    IN  /\ allowed => issues = Reason(commerceOf(exchange).quantity > MaxSafeInteger, total)
        /\ (issues = {} /\ exchange.usage = None) => reasons = {}

\* The order the validators compute on the digits of two amounts is the order of
\* the numbers, whatever zeros the amounts are written with.
AmountsInOrder ==
  exchange.seller = "commerce" =>
    LET amounts == {exchange.mandate.extensions.commerce[f] : f \in {"max_unit_price", "max_total"}}
                   \cup {commerceOf(exchange)[f] : f \in {"unit_price", "total_amount"}}
    IN  \A a, b \in amounts : compareTexts(a, b) = compareDecimal(a, b)

\* The Receipt of an allowed mint has no issues (but for a mint of nothing, which
\* only the validator refuses), and under a Mandate that validateMintMandate accepts
\* with its State Claim all that was ever minted stays within the claim, whatever
\* reserve the seller attests.
MintWithinClaim ==
  (sold("rwa") /\ allowed) =>
    /\ positive(rwaOf(exchange).quantity) => validateRwaReceipt(answer.receipt, exchange.mandate) = {}
    /\ validateMintMandate(exchange.mandate, exchange.claim, exchange.at) # {}
       \/ compareDecimal(answer.usage.quantity, exchange.claim.value) <= 0

\* What is spent under a budget stays in one currency: a transaction that is allowed
\* under commerce terms, or under a decimal budget that names its currency, keeps
\* the currency of what was spent before.  The cases left out are those the code
\* does not check: an amount of "0", which rewrites the currency of a metered
\* budget, a budget without a currency, and a limit that is no decimal.
BudgetKeepsCurrency ==
  LET mandate  == authority(exchange.mandate)
      currency == limitOf(mandate, "currency")
      budgeted == /\ budgetChecked(mandate, effectiveConsumption(requestOf(exchange)))
                  /\ hasType(currency, "string") /\ currency.value # Empty
  IN  (/\ sold("commerce") \/ (sold("metered") /\ budgeted)
       /\ allowed /\ exchange.usage # None)
      => exchange.usage.amount = ZeroText \/ answer.usage.currency = exchange.usage.currency

\* Every answer feeds the next evaluation: a request with the answer's usage
\* satisfies the schema of evaluation requests (once a currency was named, and but
\* for the four limits the RWA seller copies into the context), and the Receipt
\* satisfies the Receipt schema.  When the request was allowed, the Receipt also
\* satisfies the schema of its profile; of the Commerce one the idempotency key,
\* which the seller copies into the terms, is in the way, and terms without a
\* digest, which the Mandate and the evaluator accept and the Receipt schema does not.
AnswersConform ==
  LET usage == [answer.usage EXCEPT !.currency = IF @ = Empty THEN None ELSE @] IN
  /\ (\E seller \in {"commerce", "rwa", "metered"} : sold(seller)) =>
       Schema!receipt(answer.receipt) /\ Schema!evaluationRequest(requestDocument(exchange, usage))
  /\ (sold("rwa") /\ allowed) => Schema!rwaReceipt(answer.receipt)
  /\ (sold("commerce") /\ allowed /\ commerceOf(exchange).terms_digest # None) =>
       Schema!commerceReceipt(withoutKey(answer.receipt))
=============================================================================
