----------------------------- MODULE MCSellers -----------------------------
(***************************************************************************)
(* Small instances of Sellers: purchases, mints and metered calls at and   *)
(* around every limit, with amounts written in several ways, under a usage *)
(* that is empty or that an allowed evaluation left.                       *)
(***************************************************************************)
EXTENDS Sellers

Signed(n) ==
  [type |-> "OatiJwsProof2026", cryptosuite |-> "eddsa-jcs-2022", algorithm |-> "EdDSA", created |-> 0,
   expires |-> 9, verification_method |-> <<"key", "buyer">>, proof_purpose |-> "assertionMethod",
   audience |-> <<"buyer">>, nonce |-> <<36, n>>, signature |-> "signature"]

MandateOf(action, resource, profile, terms, limits) ==
  [oati_version |-> "1.0", id |-> <<"mandate", "m">>, issuer |-> <<"issuer", "buyer">>,
   subject |-> <<"agent", "buyer">>, purpose |-> "p", actions |-> <<action>>, resources |-> <<resource>>,
   counterparties |-> <<"seller">>, destinations |-> <<"url">>, limits |-> limits, profile |-> profile,
   extensions |-> terms, not_before |-> 0, expires_at |-> 5, status |-> "active",
   delegation |-> [allowed |-> FALSE, max_depth |-> 0], proof |-> Signed(1)]

EnvelopeOf(action, resource, counterparty, terms) ==
  [oati_version |-> "1.0", id |-> <<"tx", "t">>, agent_id |-> <<"agent", "buyer">>,
   organisation_id |-> <<"org", "buyer">>, mandate_id |-> <<"mandate", "m">>, action |-> action,
   resource |-> resource, purpose |-> "p", destination |-> "url", counterparty |-> counterparty,
   protocol |-> "http", extensions |-> terms, issued_at |-> 0, nonce |-> <<36, 2>>, proof |-> Signed(3)]

Request(seller, mandate, envelope, usage) ==
  [seller |-> seller, mandate |-> mandate, envelope |-> envelope, usage |-> usage, at |-> 1, known |-> TRUE,
   trusted |-> TRUE, consumption |-> None, terms |-> << >>, attested |-> << >>, claim |-> None]

\* What is left after any of the requests, which no earlier evaluation preceded.
Left(requests) == {nextUsage(requestOf(x)) : x \in {y \in requests : allows(requestOf(y))}}

-----------------------------------------------------------------------------
PurchaseMandates ==
  {MandateOf("buy", "weather", "commerce",
             [commerce |-> [merchant_organisation_id |-> "seller", service_id |-> "weather", offer_id |-> "o",
                            currency |-> "EUR", max_unit_price |-> price, max_total |-> total,
                            max_quantity |-> IF terms = None THEN 3 ELSE 2,
                            billing_model |-> "per_request", terms_digest |-> terms]],
             [max_calls |-> JNumber(5), max_total |-> JDecimal(total), currency |-> JString("EUR")]) :
     price \in {D(5, 2), D(10, 0)}, total \in {D(15, 2), D(20, 0)}, terms \in {None, "t"}}

Purchase(quantity, price, total, currency, merchant, terms, key) ==
  EnvelopeOf("buy", "weather", merchant,
             [commerce |-> [offer_id |-> "o", currency |-> currency, quantity |-> quantity,
                            quoted_unit_price |-> price, quoted_total |-> total, idempotency_key |-> key,
                            terms_digest |-> terms]])

FirstPurchases ==
  {Request("commerce", m, Purchase(1, D(5, 2), D(50, 3), "EUR", "seller", "t", "k1"), None) : m \in PurchaseMandates}

Purchases ==
  {Request("commerce", m, Purchase(q, price, D(price.coefficient * q + extra, price.scale), currency, merchant, terms, key),
           usage) :
     m \in PurchaseMandates, q \in 1..3, price \in {D(5, 2), D(50, 3), D(45, 3), D(9, 0), D(95, 1)}, extra \in {0, 1},
     currency \in {"EUR", "USD"}, merchant \in {"seller", "other"}, terms \in {None, "t", "u"},
     key \in {"k1", "k2"}, usage \in {None} \cup Left(FirstPurchases)}

-----------------------------------------------------------------------------
RwaTerms ==
  [asset_id |-> <<"asset", "gold">>, state_claim_id |-> <<"claim", "c">>, network |-> "net",
   token_contract |-> "token", operation |-> "mint", unit |-> "g"]

MintMandates ==
  {MandateOf("mint", <<"asset", "gold">>, "rwa",
             [rwa |-> merge(RwaTerms, [max_quantity |-> quantity, one_time |-> once, minimum_approvals |-> 2,
                                       required_roles |-> <<"custodian">>])],
             [one_time |-> JBoolean(once)]) :
     quantity \in {D(20, 0), D(205, 1)}, once \in BOOLEAN}

Claim(value, until) ==
  [oati_version |-> "1.0", profile |-> "rwa", id |-> <<"claim", "c">>, asset_id |-> <<"asset", "gold">>,
   claim_type |-> "reserve_balance", value |-> value, unit |-> "g", observed_at |-> 0, valid_until |-> until,
   issuer |-> <<"issuer", "custodian">>, issuer_role |-> "custodian",
   evidence |-> [digest |-> "digest", media_type |-> "text/plain"], proof |-> Signed(4)]

Attested(reserve, supply, approvals, until) ==
  [reserve |-> reserve, approval_count |-> approvals, approval_roles |-> <<"custodian", "auditor">>,
   current_supply |-> supply, maximum_supply |-> D(130, 0), claim_valid_until |-> until]

Minting(m, quantity, reserve, supply, approvals, until, value, usage) ==
  [Request("rwa", m, EnvelopeOf("mint", <<"asset", "gold">>, "seller", [rwa |-> merge(RwaTerms, [quantity |-> quantity])]),
           usage)
     EXCEPT !.terms = m.extensions.rwa, !.attested = Attested(reserve, supply, approvals, until), !.claim = Claim(value, until)]

Supplied(supply) == [normalizedUsage(None) EXCEPT !.minted_supply = supply]

FirstMints ==
  {Minting(m, D(15, 0), D(200, 0), D(100, 0), 2, 3, D(20, 0), Supplied(D(100, 0))) : m \in MintMandates}

Mints ==
  {Minting(m, quantity, reserve, supply, approvals, until, value, usage) :
     m \in MintMandates, quantity \in {D(0, 0), D(5, 0), D(60, 1), D(20, 0)}, reserve \in {D(110, 0), D(200, 0)},
     supply \in {D(100, 0), D(115, 0)}, approvals \in {1, 2}, until \in {1, 3}, value \in {D(19, 0), D(200, 1)},
     usage \in {Supplied(D(100, 0))} \cup Left(FirstMints)}

-----------------------------------------------------------------------------
MeteredMandates ==
  {MandateOf("call", "api", None, << >>,
             [max_total |-> budget, currency |-> IF currency = None THEN None ELSE JString(currency)]) :
     budget \in {JDecimal(D(10, 0)), JNumber(10)}, currency \in {None, Empty, "EUR"}}

Metered(m, amount, currency, usage) ==
  [Request("metered", m, EnvelopeOf("call", "api", "seller", << >>), usage)
     EXCEPT !.consumption = [calls |-> None, amount |-> amount, currency |-> currency, quantity |-> None,
                             idempotency_key |-> None, consume |-> None]]

FirstCalls == {Metered(m, D(4, 0), "EUR", None) : m \in MeteredMandates}

MeteredCalls ==
  {Metered(m, amount, currency, usage) :
     m \in MeteredMandates, amount \in {ZeroText, D(0, 2), D(6, 0), D(601, 2)}, currency \in {None, "EUR", "USD"},
     usage \in {None} \cup Left(FirstCalls)}

\* A request for another Mandate, and one that does not verify.
Refused ==
  {[x EXCEPT !.known = known, !.trusted = FALSE] : x \in FirstPurchases, known \in BOOLEAN}

Everything == {x \in Purchases \cup Mints \cup MeteredCalls \cup Refused : conforms(x)}
Texts == {"EUR", "USD", "k1", "k2", Empty}
ProfileUris == {"commerce", "rwa"}
Codes == {"EUR", "USD"}
NoTexts == {}
=============================================================================
