---------------------------- MODULE MCMiddleware ----------------------------
(***************************************************************************)
(* Small instances of Middleware.                                          *)
(*                                                                         *)
(* Market: three purchases race under one Commerce Mandate that can pay    *)
(* for two of them and allows two calls; two share an idempotency key.     *)
(* Resend: one Envelope arrives twice while the clock passes the expiry of *)
(* its proof.                                                              *)
(* Mint: a delegated one-time RWA Mandate is used at an endpoint with and  *)
(* at one without a usage store; the third request, whose Mandate has no   *)
(* call to give, makes the evaluator throw.                                *)
(***************************************************************************)
EXTENDS Middleware, TLC

CONSTANTS r1, r2, r3

CommerceLimits ==
  [merchant_organisation_id |-> "org", service_id |-> "svc", offer_id |-> "offer",
   currency |-> "USD", billing_model |-> "per_call", terms_digest |-> "terms",
   max_unit_price |-> D(80, 2), max_total |-> D(1, 0), max_quantity |-> 2]

RwaLimits ==
  [asset_id |-> "gold", state_claim_id |-> "claim", network |-> "net",
   token_contract |-> "token", operation |-> "mint", unit |-> "g",
   max_quantity |-> D(10, 0), minimum_approvals |-> 1, required_roles |-> {"custodian"},
   one_time |-> TRUE]

Mandate ==
  [id |-> "m1", status |-> "active", not_before |-> 0, expires_at |-> 3,
   subject |-> "agent", actions |-> {"read"}, resources |-> None, purpose |-> "p",
   counterparties |-> None, destinations |-> None, profile |-> None,
   parent_mandate |-> None, delegation |-> None, limits |-> None, data_use |-> None,
   commerce |-> None, rwa |-> None]

Envelope ==
  [mandate_id |-> "m1", agent_id |-> "agent", action |-> "read", resource |-> None,
   purpose |-> "p", counterparty |-> None, destination |-> None, profile |-> None,
   commerce |-> None, rwa |-> None]

Proof(key) == [key |-> key, created |-> 0, expires |-> 2]

Submission(mandate, envelope, key) ==
  [wellFormed |-> TRUE, digestOk |-> TRUE, mandate |-> mandate, parent_mandate |-> None,
   envelope |-> envelope, proof |-> Proof(key)]

(***************************************************************************)
(* Market.                                                                 *)
(***************************************************************************)
PurchaseMandate ==
  [Mandate EXCEPT !.profile = "commerce", !.commerce = CommerceLimits,
                  !.limits = [max_calls |-> JNumber(2)]]

\* One unit at the given price in cents.
Purchase(cents, key) ==
  [Envelope EXCEPT
     !.profile = "commerce", !.resource = "svc", !.counterparty = "org",
     !.commerce = [merchant_organisation_id |-> "org", service_id |-> "svc",
                   offer_id |-> "offer", currency |-> "USD", quantity |-> 1,
                   unit_price |-> D(cents, 2), total_amount |-> D(cents, 2),
                   idempotency_key |-> key, terms_digest |-> "terms"]]

Market == (r1 :> Submission(PurchaseMandate, Purchase(50, "k1"), "n1"))
       @@ (r2 :> Submission(PurchaseMandate, Purchase(25, "k1"), "n2"))
       @@ (r3 :> Submission(PurchaseMandate, Purchase(75, "k2"), "n3"))

(***************************************************************************)
(* Resend.                                                                 *)
(***************************************************************************)
CallMandate == [Mandate EXCEPT !.limits = [max_calls |-> JNumber(2)]]

\* r2 carries r1's Envelope over another body, r3 does not parse.
Resend == (r1 :> Submission(CallMandate, Envelope, "n1"))
       @@ (r2 :> [Submission(CallMandate, Envelope, "n1") EXCEPT !.digestOk = FALSE])
       @@ (r3 :> [Submission(CallMandate, Envelope, "n2") EXCEPT !.wellFormed = FALSE])

(***************************************************************************)
(* Mint.                                                                   *)
(***************************************************************************)
MintMandate == [Mandate EXCEPT !.id = "m2", !.profile = "rwa", !.rwa = RwaLimits]

MintEnvelope ==
  [Envelope EXCEPT
     !.mandate_id = "m2", !.profile = "rwa", !.resource = "gold",
     !.rwa = [asset_id |-> "gold", state_claim_id |-> "claim", network |-> "net",
              token_contract |-> "token", operation |-> "mint", unit |-> "g",
              quantity |-> D(5, 0), reserve |-> D(20, 0), approval_count |-> 1,
              approval_roles |-> {"custodian"}, current_supply |-> D(0, 0),
              maximum_supply |-> None, claim_valid_until |-> 3]]

\* The one-time Mandate m2 is delegated from m0; m3 may delegate although its
\* parent m4 says nothing of delegation.
Root == [Mandate EXCEPT !.id = "m0", !.profile = "rwa", !.rwa = RwaLimits,
                        !.delegation = [allowed |-> TRUE, max_depth |-> 1]]

DelegatedMint == [MintMandate EXCEPT !.parent_mandate = "m0"]

Redelegating == [Mandate EXCEPT !.id = "m3", !.parent_mandate = "m4",
                                !.limits = [max_calls |-> JNumber(0)],
                                !.delegation = [allowed |-> TRUE, max_depth |-> 0]]

Delegated(submission, parent) == [submission EXCEPT !.parent_mandate = parent]

Mint ==
     (r1 :> Delegated(Submission(DelegatedMint, MintEnvelope, "n1"), Root))
  @@ (r2 :> Delegated(Submission(DelegatedMint, MintEnvelope, "n2"), Root))
  @@ (r3 :> Delegated(Submission(Redelegating, [Envelope EXCEPT !.mandate_id = "m3"], "n3"),
                      [Mandate EXCEPT !.id = "m4"]))
=============================================================================
