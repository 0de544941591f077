------------------------------- MODULE Ledger -------------------------------
(***************************************************************************)
(* What the usage protocol of the middleware promises, with no protocol in *)
(* it: authority is granted one request at a time, each evaluated against  *)
(* everything granted before it under the same Mandate.                    *)
(*                                                                         *)
(* specification/AUTHORITY_EVALUATOR.md asks for this ("so concurrent      *)
(* requests cannot both spend the same remaining authority"); the module   *)
(* Middleware shows that load, evaluate and compare-and-set deliver it.    *)
(***************************************************************************)
EXTENDS Submissions

VARIABLES
  usage,    \* usage committed for each Mandate
  charged   \* requests whose consumption is in it

lvars == <<usage, charged>>

LInit ==
  /\ usage = [m \in MandateIds |-> None]
  /\ charged = {}

\* The evaluation time may lie before the grant: the middleware reads the
\* clock when it evaluates and commits after a round trip to the store.
Grant(r) ==
  /\ r \notin charged
  /\ charged' = charged \cup {r}
  /\ \E t \in Time :
       LET q == evaluationRequest(r, t, usage[accountOf(r)])
       IN  /\ allows(q)
           /\ usage' = [usage EXCEPT ![accountOf(r)] = nextUsage(q)]

LNext == \E r \in Requests : Grant(r)

LSpec == LInit /\ [][LNext]_lvars

-----------------------------------------------------------------------------
(***************************************************************************)
(* What a ledger kept this way guarantees about any set of requests drawn  *)
(* from the granted ones (the ones whose operation was really invoked).    *)
(***************************************************************************)

\* No more operations run under a Mandate than its max_calls.
WithinCallLimit(done) ==
  \A m \in MandateIds : \A r \in On(done, m) :
     hasType(limitOf(mandateOf(r), "max_calls"), "number")
       => Cardinality(On(done, m)) <= limitOf(mandateOf(r), "max_calls").value

\* Two operations never run under one Mandate with one idempotency key.
OncePerKey(done) ==
  \A r, s \in done :
     /\ r # s /\ accountOf(r) = accountOf(s)
     /\ consumptionOf(r).idempotency_key # Empty
     => consumptionOf(r).idempotency_key # consumptionOf(s).idempotency_key

\* A one-time Mandate authorises one operation.
OncePerOneTimeMandate(done) ==
  \A r, s \in done : r # s /\ accountOf(r) = accountOf(s) => ~isOneTime(mandateOf(r))

\* The exact total spent by the given requests, in units of the finest scale.
spent(done) ==
  LET amount == [r \in done |-> consumptionOf(r).amount]
      scale  == Max({amount[r].scale : r \in done})
      units  == [r \in done |-> aligned(amount[r], scale)]
  IN  D(MapThenSumSet(LAMBDA r : units[r], done), scale)

\* Spending under a Mandate stays inside its generic and its Commerce budget.
WithinBudget(done) ==
  \A m \in {accountOf(r) : r \in done} :
     LET total == spent(On(done, m)) IN
     \A r \in On(done, m) :
        /\ budgetChecked(mandateOf(r), consumptionOf(r))
             => decimalAtMost(total, limitOf(mandateOf(r), "max_total").value)
        /\ mandateOf(r).commerce # None /\ mandateOf(r).profile = CommerceProfile
             => decimalAtMost(total, mandateOf(r).commerce.max_total)

-----------------------------------------------------------------------------
(* Invariants of the ledger itself. *)

LTypeOK ==
  /\ charged \subseteq Requests
  /\ usage \in [MandateIds -> UsageSnapshot \cup {None}]

\* The ledger entry of a Mandate records every request granted under it: it
\* counts them, holds their idempotency keys and knows of a one-time use.
Recorded(m) ==
  LET u == normalizedUsage(usage[m])
  IN  /\ u.calls = Cardinality(On(charged, m))
      /\ \A r \in On(charged, m) :
           /\ consumptionOf(r).idempotency_key # Empty
                => consumptionOf(r).idempotency_key \in u.idempotency_keys
           /\ isOneTime(mandateOf(r)) => u.consumed
           /\ hasType(limitOf(mandateOf(r), "max_calls"), "number")
                => u.calls <= limitOf(mandateOf(r), "max_calls").value

\* The amount in the entry is the exact total of what was granted, however
\* many fraction digits each amount was written with, and inside the budgets.
Accounted(entry, granted) ==
  LET amount  == normalizedUsage(entry).amount
      units   == [r \in granted |-> aligned(consumptionOf(r).amount, amount.scale)]
  IN  /\ amount.coefficient = MapThenSumSet(LAMBDA r : units[r], granted)
      /\ \A r \in granted :
           /\ consumptionOf(r).amount.scale <= amount.scale
           /\ budgetChecked(mandateOf(r), consumptionOf(r))
                => decimalAtMost(amount, limitOf(mandateOf(r), "max_total").value)
           /\ mandateOf(r).commerce # None /\ mandateOf(r).profile = CommerceProfile
                => decimalAtMost(amount, mandateOf(r).commerce.max_total)

\* What has been granted stays inside the call limits and the budgets, uses an
\* idempotency key once and a one-time Mandate once.
ChargedWithinLimits ==
  /\ WithinCallLimit(charged)
  /\ WithinBudget(charged)
  /\ OncePerKey(charged)
  /\ OncePerOneTimeMandate(charged)

\* The inductive invariant.
LInv ==
  /\ LTypeOK
  /\ \A m \in MandateIds : Recorded(m) /\ Accounted(usage[m], On(charged, m))
  /\ OncePerKey(charged)
  /\ OncePerOneTimeMandate(charged)
=============================================================================
