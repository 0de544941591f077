----------------------------- MODULE Delegation -----------------------------
(***************************************************************************)
(* When a child Mandate stays inside its parent: checkChildMandate and the *)
(* helpers it calls, sdk/typescript/src/evaluator.ts.                      *)
(*                                                                         *)
(* A Mandate is a record; an optional member that is absent is None.       *)
(* Sets stand for the arrays whose order the code ignores, integers for    *)
(* parsed timestamps.  `limits` and `data_use` are open JSON objects, so   *)
(* they are functions from member names to tagged JSON values.  Nested     *)
(* objects are followed one level down (JSON deeper than that is outside   *)
(* the model).                                                             *)
(***************************************************************************)
EXTENDS Decimals

CONSTANT None          \* JavaScript undefined

\* The empty set of reasons, or the one reason code.
Reason(condition, code) == IF condition THEN {code} ELSE {}

\* JSON values, tagged with the type the code distinguishes.  A string that
\* isDecimal accepts is a "decimal", any other string a "string".
JNumber(n)  == [type |-> "number",  value |-> n]
JDecimal(d) == [type |-> "decimal", value |-> d]
JString(s)  == [type |-> "string",  value |-> s]
JBoolean(b) == [type |-> "boolean", value |-> b]
JArray(S)   == [type |-> "array",   value |-> S]
JObject(f)  == [type |-> "object",  value |-> f]

\* object[key], which is undefined when the object or the member is absent.
member(object, key) ==
  IF object = None THEN None
  ELSE IF key \in DOMAIN object THEN object[key] ELSE None

hasType(value, type) == value # None /\ value.type = type

(***************************************************************************)
(* narrowerObject: every member of the parent object is kept or narrowed.  *)
(***************************************************************************)
narrowerScalar(child, parent) ==
  \/ /\ parent.type = "number"
     /\ hasType(child, "number") /\ child.value <= parent.value
  \/ /\ parent.type = "decimal"
     /\ hasType(child, "decimal") /\ decimalAtMost(child.value, parent.value)
  \/ /\ parent.type = "array"
     /\ hasType(child, "array") /\ child.value \subseteq parent.value
  \/ /\ parent.type \in {"string", "boolean"}
     /\ child = parent

narrowerNested(child, parent) ==
  \A key \in DOMAIN parent : narrowerScalar(member(child, key), parent[key])

narrowerMember(child, parent) ==
  \/ narrowerScalar(child, parent)
  \/ /\ parent.type = "object"
     /\ hasType(child, "object") /\ narrowerNested(child.value, parent.value)

narrowerObject(child, parent) ==
  \/ parent = None
  \/ /\ child # None
     /\ \A key \in DOMAIN parent : narrowerMember(member(child, key), parent[key])

\* A constraint the parent has may not disappear in the child.
constrainedSubset(child, parent) ==
  parent = None \/ (child # None /\ child \subseteq parent)

sameFields(left, right, fields) == \A f \in fields : left[f] = right[f]

(***************************************************************************)
(* checkProfileSubset: the Commerce and RWA extensions of the two          *)
(* Mandates.                                                               *)
(***************************************************************************)
CommerceIdentity == {"merchant_organisation_id", "service_id", "offer_id",
                     "currency", "billing_model", "terms_digest"}
RwaIdentity == {"asset_id", "state_claim_id", "network", "token_contract",
                "operation", "unit"}

narrowerCommerce(child, parent) ==
  /\ child # None
  /\ sameFields(child, parent, CommerceIdentity)
  /\ decimalAtMost(child.max_unit_price, parent.max_unit_price)
  /\ decimalAtMost(child.max_total, parent.max_total)
  /\ child.max_quantity <= parent.max_quantity

narrowerRwa(child, parent) ==
  /\ child # None
  /\ sameFields(child, parent, RwaIdentity)
  /\ decimalAtMost(child.max_quantity, parent.max_quantity)
  /\ child.minimum_approvals >= parent.minimum_approvals
  /\ parent.required_roles \subseteq child.required_roles
  /\ parent.one_time => child.one_time

checkProfileSubset(child, parent) ==
  IF child.profile # parent.profile
  THEN {"CHILD_PROFILE_AMPLIFICATION"}
  ELSE Reason(parent.commerce # None /\ ~narrowerCommerce(child.commerce, parent.commerce),
              "CHILD_COMMERCE_AMPLIFICATION")
       \cup Reason(parent.rwa # None /\ ~narrowerRwa(child.rwa, parent.rwa),
                   "CHILD_RWA_AMPLIFICATION")

(***************************************************************************)
(* checkChildMandate: the reasons to refuse `child` under `parent` when    *)
(* the child is `depth` delegations below it.                              *)
(***************************************************************************)
delegationAllowed(mandate) == mandate.delegation # None /\ mandate.delegation.allowed

inForce(mandate, now) ==
  /\ mandate.status = "active"
  /\ mandate.not_before <= now
  /\ now < mandate.expires_at

\* parent.delegation!.max_depth is read without a check when the child may
\* delegate: with no delegation member in the parent the evaluator throws
\* instead of returning the reasons below.
childCheckThrows(child, parent) == delegationAllowed(child) /\ parent.delegation = None

remainingDepth(parent, depth) == Max({0, parent.delegation.max_depth - depth})

checkChildMandate(child, parent, depth, now) ==
  Reason(child.parent_mandate # parent.id, "PARENT_MANDATE_MISMATCH")
  \cup Reason(~inForce(parent, now), "PARENT_MANDATE_NOT_ACTIVE")
  \cup Reason(~delegationAllowed(parent) \/ depth > parent.delegation.max_depth,
              "DELEGATION_NOT_ALLOWED")
  \cup Reason(~(child.actions \subseteq parent.actions), "CHILD_ACTION_AMPLIFICATION")
  \cup Reason(~constrainedSubset(child.resources, parent.resources),
              "CHILD_RESOURCE_AMPLIFICATION")
  \cup Reason(~constrainedSubset(child.counterparties, parent.counterparties),
              "CHILD_COUNTERPARTY_AMPLIFICATION")
  \cup Reason(~constrainedSubset(child.destinations, parent.destinations),
              "CHILD_DESTINATION_AMPLIFICATION")
  \cup Reason(child.purpose # parent.purpose, "CHILD_PURPOSE_AMPLIFICATION")
  \cup Reason(child.not_before < parent.not_before \/ child.expires_at > parent.expires_at,
              "CHILD_TIME_AMPLIFICATION")
  \cup Reason(~narrowerObject(child.limits, parent.limits), "CHILD_LIMIT_AMPLIFICATION")
  \cup Reason(~narrowerObject(child.data_use, parent.data_use),
              "CHILD_DATA_USE_AMPLIFICATION")
  \cup Reason(/\ delegationAllowed(child) /\ ~childCheckThrows(child, parent)
              /\ child.delegation.max_depth > remainingDepth(parent, depth),
              "CHILD_DELEGATION_AMPLIFICATION")
  \cup checkProfileSubset(child, parent)
=============================================================================
