---------------------------- MODULE LedgerProofs ----------------------------
(***************************************************************************)
(* Every ledger keeps call limits, budgets, idempotency keys and one-time  *)
(* Mandates, for any set of requests, Mandates and Envelopes.              *)
(***************************************************************************)
EXTENDS Ledger, DecimalProofs

-----------------------------------------------------------------------------
(* What the evaluator's operators return. *)

\* What a request consumes.
Consumption ==
  [calls : {1}, amount : Decimal, currency : Text, quantity : Decimal,
   idempotency_key : Text, consume : BOOLEAN]

\* The evaluation time and the prior usage do not enter into what is consumed.
LEMMA ConsumptionFixed ==
  ASSUME NEW r, NEW t, NEW p
  PROVE  effectiveConsumption(evaluationRequest(r, t, p)) = consumptionOf(r)
BY DEF consumptionOf, effectiveConsumption, evaluationRequest

\* One call, and amounts the schemas admit.
LEMMA ConsumptionType ==
  ASSUME NEW r \in Requests
  PROVE  consumptionOf(r) \in Consumption
<1>1. ZeroText \in Decimal
  BY DEF ZeroText, D, Decimal
<1>2. ASSUME NEW n \in Nat PROVE decimalOf(n) \in Decimal
  BY DEF decimalOf, D, Decimal
<1> DEFINE q == evaluationRequest(r, 0, None)
           e == effectiveConsumption(q)
<1>3. q.consumption = None /\ q.commerce = Submitted[r].envelope.commerce
      /\ q.rwa = Submitted[r].envelope.rwa
  BY DEF evaluationRequest
<1> HIDE DEF q
<1>4. e.calls = 1
  BY <1>3 DEF effectiveConsumption, orElse, NoConsumption
<1>5. e.amount \in Decimal /\ e.quantity \in Decimal
  BY <1>1, <1>2, <1>3, SubmissionsTyped DEF effectiveConsumption, orElse, NoConsumption
<1>6. e.currency \in Text /\ e.idempotency_key \in Text
  <2>1. CASE q.commerce # None
    BY <2>1, <1>3, SubmissionsTyped DEF effectiveConsumption
  <2>2. CASE q.commerce = None
    <3>1. e.currency = Empty /\ e.idempotency_key = Empty
      BY <2>2, <1>3 DEF effectiveConsumption, orElse, NoConsumption
    <3> QED BY <3>1, EmptyIsText
  <2> QED BY <2>1, <2>2
<1>7. e.consume \in BOOLEAN
  BY DEF effectiveConsumption
<1>8. e = [calls |-> e.calls, amount |-> e.amount, currency |-> e.currency,
           quantity |-> e.quantity, idempotency_key |-> e.idempotency_key,
           consume |-> e.consume]
  BY DEF effectiveConsumption
<1>9. e \in Consumption
  BY <1>4, <1>5, <1>6, <1>7, <1>8 DEF Consumption
<1> QED BY <1>9 DEF consumptionOf, q

\* The snapshot of a Mandate never used is a snapshot of zeros.
LEMMA NormalizedType ==
  ASSUME NEW p \in UsageSnapshot \cup {None}
  PROVE  normalizedUsage(p) \in UsageSnapshot
<1> DEFINE z == [calls |-> 0, amount |-> ZeroText, currency |-> Empty, quantity |-> ZeroText,
                 consumed |-> FALSE, idempotency_keys |-> {}, minted_supply |-> ZeroText]
<1>1. ZeroText \in Decimal
  BY DEF ZeroText, D, Decimal
<1>2. z \in UsageSnapshot
  BY <1>1, EmptyIsText DEF UsageSnapshot
<1>3. normalizedUsage(p) = IF p = None THEN z ELSE p
  BY DEF normalizedUsage, orElse
<1> HIDE DEF z
<1> QED BY <1>2, <1>3

\* A written snapshot is read back as it is.
LEMMA NormalizedSnapshot ==
  ASSUME NEW p \in UsageSnapshot
  PROVE  normalizedUsage(p) = p
<1>1. p # None
  BY NoneIsNoSnapshot
<1> QED BY <1>1 DEF normalizedUsage, orElse

\* What allowing a request leaves in the usage store.
LEMMA NextUsageFields ==
  ASSUME NEW r \in Requests, NEW t, NEW p \in UsageSnapshot \cup {None}
  PROVE  LET u == normalizedUsage(p)
             v == nextUsage(evaluationRequest(r, t, p))
             c == consumptionOf(r)
         IN  /\ v \in UsageSnapshot
             /\ v.calls = u.calls + 1
             /\ v.amount = addDecimal(u.amount, c.amount)
             /\ v.consumed = (u.consumed \/ c.consume)
             /\ v.idempotency_keys = u.idempotency_keys \cup
                  (IF c.idempotency_key # Empty THEN {c.idempotency_key} ELSE {})
<1> DEFINE q == evaluationRequest(r, t, p)
           u == normalizedUsage(p)
           c == consumptionOf(r)
           v == applyConsumption(u, c, q)
<1>1. nextUsage(q) = v
  <2>1. q.usage = p
    BY DEF evaluationRequest
  <2>2. effectiveConsumption(q) = c
    BY ConsumptionFixed
  <2> QED BY <2>1, <2>2 DEF nextUsage
<1>2. u \in UsageSnapshot
  BY NormalizedType
<1>3. c \in Consumption
  BY ConsumptionType
<1>4. q.rwa = Submitted[r].envelope.rwa
  BY DEF evaluationRequest
<1> HIDE DEF u, c, q
<1>5. v.calls = u.calls + 1 /\ v.calls \in Nat
  BY <1>2, <1>3 DEF applyConsumption, UsageSnapshot, Consumption
<1>6. v.amount \in Decimal /\ v.quantity \in Decimal /\ v.amount = addDecimal(u.amount, c.amount)
  BY <1>2, <1>3, AddAligned DEF applyConsumption, UsageSnapshot, Consumption
<1>7. v.currency \in Text
  BY <1>2, <1>3 DEF applyConsumption, UsageSnapshot, Consumption
<1>8. v.consumed = (u.consumed \/ c.consume) /\ v.consumed \in BOOLEAN
  BY DEF applyConsumption
<1>9. /\ v.idempotency_keys = u.idempotency_keys \cup
           (IF c.idempotency_key # Empty THEN {c.idempotency_key} ELSE {})
      /\ v.idempotency_keys \in SUBSET Text
  BY <1>2, <1>3 DEF applyConsumption, UsageSnapshot, Consumption
<1>10. v.minted_supply \in Decimal
  BY <1>2, <1>4, AddAligned, SubmissionsTyped DEF applyConsumption, UsageSnapshot
<1>11. v = [calls |-> v.calls, amount |-> v.amount, currency |-> v.currency,
            quantity |-> v.quantity, consumed |-> v.consumed,
            idempotency_keys |-> v.idempotency_keys, minted_supply |-> v.minted_supply]
  BY DEF applyConsumption
<1> HIDE DEF v
<1>12. v \in UsageSnapshot
  BY <1>5, <1>6, <1>7, <1>8, <1>9, <1>10, <1>11 DEF UsageSnapshot
<1> QED BY <1>1, <1>5, <1>6, <1>8, <1>9, <1>12 DEF u, c, q

\* What an allow decision says about the usage it was evaluated against.
LEMMA AllowedFacts ==
  ASSUME NEW r \in Requests, NEW t, NEW p \in UsageSnapshot \cup {None},
         allows(evaluationRequest(r, t, p))
  PROVE  LET u     == normalizedUsage(p)
             c     == consumptionOf(r)
             limit == limitOf(mandateOf(r), "max_calls")
         IN  /\ ~u.consumed
             /\ c.idempotency_key # Empty => c.idempotency_key \notin u.idempotency_keys
             /\ hasType(limit, "number") => u.calls + 1 <= limit.value
             /\ budgetChecked(mandateOf(r), c) =>
                  decimalAtMost(addDecimal(u.amount, c.amount),
                                limitOf(mandateOf(r), "max_total").value)
             /\ mandateOf(r).profile = CommerceProfile =>
                  decimalAtMost(addDecimal(u.amount, c.amount), mandateOf(r).commerce.max_total)
<1> DEFINE q == evaluationRequest(r, t, p)
           u == normalizedUsage(p)
           c == consumptionOf(r)
           limit == limitOf(mandateOf(r), "max_calls")
<1>1. checkConsumption(mandateOf(r), u, c) = {}
  <2>1. q.usage = p /\ q.mandate = mandateOf(r)
    BY DEF evaluationRequest, mandateOf
  <2>2. effectiveConsumption(q) = c
    BY ConsumptionFixed
  <2>3. reasonCodes(q) = {}
    BY DEF allows
  <2> HIDE DEF q
  <2> QED BY <2>1, <2>2, <2>3 DEF reasonCodes
<1>2. ~u.consumed
  BY <1>1 DEF checkConsumption, Reason
<1>3. c.idempotency_key # Empty => c.idempotency_key \notin u.idempotency_keys
  BY <1>1 DEF checkConsumption, Reason
<1>4. ASSUME hasType(limit, "number") PROVE u.calls + 1 <= limit.value
  <2>1. ~callLimitExceeded(mandateOf(r), u, c)
    BY <1>1 DEF checkConsumption, Reason
  <2>2. limit.value \in Nat
    BY <1>4, SubmissionsTyped
  <2>3. c.calls = 1
    BY ConsumptionType DEF Consumption
  <2>4. u.calls \in Nat
    BY NormalizedType DEF UsageSnapshot
  <2> QED BY <1>4, <2>1, <2>2, <2>3, <2>4 DEF callLimitExceeded
<1>5. budgetChecked(mandateOf(r), c) =>
        decimalAtMost(addDecimal(u.amount, c.amount), limitOf(mandateOf(r), "max_total").value)
  <2>1. ~(budgetChecked(mandateOf(r), c) /\ budgetExceeded(mandateOf(r), u, c))
    BY <1>1 DEF checkConsumption, Reason
  <2> QED BY <2>1, AtMostUnlessAbove DEF budgetExceeded
<1>6. ASSUME mandateOf(r).profile = CommerceProfile
      PROVE  decimalAtMost(addDecimal(u.amount, c.amount), mandateOf(r).commerce.max_total)
  <2>1. q.usage = p /\ q.mandate = mandateOf(r)
    BY DEF evaluationRequest, mandateOf
  <2>2. checkProfiles(q, u) = {}
    BY <2>1 DEF allows, reasonCodes
  <2>0. effectiveConsumption(q) = c
    BY ConsumptionFixed
  <2> HIDE DEF q, c
  <2>3. checkCommerce(mandateOf(r), q.envelope, q.commerce, u) = {}
    BY <1>6, <2>1, <2>2 DEF checkProfiles
  <2>4. q.commerce # None /\ commerceReasons(mandateOf(r).commerce, q.commerce, u) = {}
    BY <2>3 DEF checkCommerce
  <2>5. ~(compareDecimal(addDecimal(u.amount, q.commerce.total_amount),
                         mandateOf(r).commerce.max_total) > 0)
    BY <2>4 DEF commerceReasons, Reason
  <2>6. c.amount = q.commerce.total_amount
    BY <2>0, <2>4 DEF effectiveConsumption
  <2> QED BY <2>5, <2>6, AtMostUnlessAbove
<1> QED BY <1>2, <1>3, <1>4, <1>5, <1>6

-----------------------------------------------------------------------------
(* What requests spend, in units of one scale. *)

inUnits(s) == [r \in Requests |-> aligned(consumptionOf(r).amount, s)]

\* All amounts can be written with s fraction digits.
Fits(S, s) == \A r \in S : consumptionOf(r).amount.scale <= s

\* Amounts that fit are natural numbers of units.
LEMMA UnitsType ==
  ASSUME NEW S \in SUBSET Requests, NEW s \in Nat, Fits(S, s)
  PROVE  IsFiniteSet(S) /\ \A x \in S : inUnits(s)[x] \in Nat
<1>1. IsFiniteSet(S)
  BY RequestsFinite, FS_Subset
<1>2. ASSUME NEW x \in S PROVE inUnits(s)[x] \in Nat
  <2>1. consumptionOf(x).amount \in Decimal
    BY ConsumptionType DEF Consumption
  <2>2. aligned(consumptionOf(x).amount, s) \in Nat
    BY <2>1, AlignedType DEF Fits
  <2> QED BY <2>2 DEF inUnits
<1> QED BY <1>1, <1>2

\* The same amounts with k digits more.
LEMMA UnitsFiner ==
  ASSUME NEW S \in SUBSET Requests, NEW s \in Nat, Fits(S, s), NEW k \in Nat
  PROVE  Fits(S, s + k) /\ Total(S, inUnits(s + k)) = Total(S, inUnits(s)) * tenTo[k]
<1>1. \A x \in S : consumptionOf(x).amount \in Decimal
  BY ConsumptionType DEF Consumption
<1>2. ASSUME NEW x \in S PROVE inUnits(s + k)[x] = inUnits(s)[x] * tenTo[k]
  BY <1>1, AlignedFiner DEF inUnits, Fits
<1>3. tenTo[k] \in Nat
  BY TenToPositive
<1>4. Total(S, inUnits(s + k)) = Total(S, inUnits(s)) * tenTo[k]
  <2>1. IsFiniteSet(S) /\ \A x \in S : inUnits(s)[x] \in Nat
    BY UnitsType
  <2>2. PICK t \in Nat : t = tenTo[k]
    BY <1>3
  <2>3. PICK a, b : a = inUnits(s) /\ b = inUnits(s + k)
    OBVIOUS
  <2>4. \A x \in S : a[x] \in Nat /\ b[x] = a[x] * t
    BY <1>2, <2>1, <2>2, <2>3
  <2>5. Total(S, b) = Total(S, a) * t
    BY <2>1, <2>4, TotalScaled
  <2> QED BY <2>2, <2>3, <2>5
<1>5. Fits(S, s + k)
  <2>1. \A x \in S : consumptionOf(x).amount.scale \in Nat
    BY <1>1 DEF Decimal
  <2> QED BY <2>1 DEF Fits
<1> QED BY <1>4, <1>5

\* An amount that is the total of some requests, at every finer scale.
LEMMA TotalIsAligned ==
  ASSUME NEW S \in SUBSET Requests, NEW x \in Decimal, Fits(S, x.scale),
         x.coefficient = Total(S, inUnits(x.scale)), NEW s \in Nat, x.scale <= s
  PROVE  Fits(S, s) /\ aligned(x, s) = Total(S, inUnits(s))
<1>1. PICK e \in Nat, k \in Nat : e = x.scale /\ s = e + k
  BY DEF Decimal
<1>2. s - e = k
  BY <1>1
<1>3. Fits(S, e + k) /\ Total(S, inUnits(e + k)) = Total(S, inUnits(e)) * tenTo[k]
  BY <1>1, UnitsFiner
<1>4. aligned(x, s) = x.coefficient * tenTo[k]
  BY <1>1, <1>2 DEF aligned
<1> QED BY <1>1, <1>3, <1>4

\* What Ledger.spent computes.
LEMMA SpentIsTotal ==
  ASSUME NEW S \in SUBSET Requests, S # {}
  PROVE  /\ spent(S) \in Decimal /\ Fits(S, spent(S).scale)
         /\ \E r \in S : spent(S).scale = consumptionOf(r).amount.scale
         /\ spent(S).coefficient = Total(S, inUnits(spent(S).scale))
<1> DEFINE amount == [r \in S |-> consumptionOf(r).amount]
           scales == {amount[r].scale : r \in S}
           e      == Max(scales)
           units  == [r \in S |-> aligned(amount[r], e)]
<1>1. spent(S) = D(Total(S, units), e)
  BY DEF spent, Total
<1>2. \A r \in S : consumptionOf(r).amount \in Decimal /\ consumptionOf(r).amount.scale \in Nat
  BY ConsumptionType DEF Consumption, Decimal
<1>3. \A r \in S : amount[r] = consumptionOf(r).amount
  OBVIOUS
<1>4. IsFiniteSet(S)
  BY RequestsFinite, FS_Subset
<1>5. scales \in SUBSET Nat /\ scales # {} /\ IsFiniteSet(scales)
  <2>1. IsFiniteSet(scales)
    <3> DEFINE f == [r \in S |-> amount[r].scale]
    <3>1. scales = {f[r] : r \in S} /\ f \in Surjection(S, scales)
      BY DEF Surjection
    <3> QED BY <1>4, <3>1, FS_Surjection
  <2> QED BY <1>2, <1>3, <2>1
<1>6. e \in scales /\ \A y \in scales : y <= e
  BY <1>5, MaxOfFinite
<1>7. e \in Nat /\ Fits(S, e) /\ \E r \in S : e = consumptionOf(r).amount.scale
  BY <1>3, <1>5, <1>6 DEF Fits
<1> HIDE DEF e
<1>8. \A x \in S : inUnits(e)[x] \in Nat /\ units[x] = inUnits(e)[x]
  BY <1>3, <1>7, UnitsType DEF inUnits
<1> HIDE DEF units, scales, amount
<1>9. Total(S, units) = Total(S, inUnits(e)) /\ Total(S, inUnits(e)) \in Nat
  BY <1>4, <1>8, TotalSame, TotalType
<1>10. spent(S).scale = e /\ spent(S).coefficient = Total(S, inUnits(e)) /\ spent(S) \in Decimal
  BY <1>1, <1>7, <1>9 DEF D, Decimal
<1> QED BY <1>7, <1>10

\* What some of the granted requests spent is inside the limit that the
\* account of all of them is inside.
LEMMA SpentAtMost ==
  ASSUME NEW C \in SUBSET Requests, NEW S \in SUBSET C, S # {},
         NEW x \in Decimal, Fits(C, x.scale), x.coefficient = Total(C, inUnits(x.scale)),
         NEW limit \in Decimal, decimalAtMost(x, limit)
  PROVE  decimalAtMost(spent(S), limit)
<1> DEFINE y == spent(S)
<1>1. /\ y \in Decimal /\ Fits(S, y.scale) /\ y.coefficient = Total(S, inUnits(y.scale))
      /\ \E r \in S : y.scale = consumptionOf(r).amount.scale
  BY SpentIsTotal
<1>2. y.scale <= x.scale
  BY <1>1 DEF Fits
<1> HIDE DEF y
<1>3. PICK s \in Nat : x.scale <= s /\ limit.scale <= s
  BY CommonScale
<1>4. y.scale <= s
  BY <1>1, <1>2, <1>3 DEF Decimal
<1>5. Fits(C, s) /\ aligned(x, s) = Total(C, inUnits(s))
  BY <1>3, TotalIsAligned
<1>6. aligned(y, s) = Total(S, inUnits(s))
  BY <1>1, <1>4, TotalIsAligned
<1>7. IsFiniteSet(C) /\ \A r \in C : inUnits(s)[r] \in Nat
  BY <1>5, UnitsType
<1>8. Total(S, inUnits(s)) <= Total(C, inUnits(s))
  BY <1>7, TotalMonotone
<1>9. aligned(x, s) <= aligned(limit, s)
  BY <1>3, CompareAligned
<1>10. aligned(x, s) \in Nat /\ aligned(y, s) \in Nat /\ aligned(limit, s) \in Nat
  BY <1>1, <1>3, <1>4, AlignedType
<1>11. aligned(y, s) <= aligned(limit, s)
  BY <1>5, <1>6, <1>8, <1>9, <1>10
<1>12. decimalAtMost(y, limit)
  BY <1>1, <1>3, <1>4, <1>11, CompareAligned
<1> QED BY <1>12 DEF y

\* An entry with the total of the requests in C.
Totals(x, C) == x \in Decimal /\ Fits(C, x.scale) /\ x.coefficient = Total(C, inUnits(x.scale))

\* One more request, once added, is in the total.
LEMMA OneMoreAccounted ==
  ASSUME NEW C \in SUBSET Requests, NEW r \in Requests \ C, NEW x, Totals(x, C)
  PROVE  Totals(addDecimal(x, consumptionOf(r).amount), C \cup {r})
<1> DEFINE d == consumptionOf(r).amount
           y == addDecimal(x, d)
           c == commonScale(x, d)
           V == C \cup {r}
<1>1. x \in Decimal /\ d \in Decimal
  BY ConsumptionType DEF Totals, Consumption
<1>2. c \in Nat /\ x.scale <= c /\ d.scale <= c
  BY <1>1, CommonScale DEF Decimal
<1>3. y \in Decimal /\ y.scale = c /\ c <= c /\ aligned(y, c) = aligned(x, c) + aligned(d, c)
  BY <1>1, <1>2, AddAligned
<1>4. Fits(C, c) /\ aligned(x, c) = Total(C, inUnits(c))
  BY <1>1, <1>2, TotalIsAligned DEF Totals
<1>5. V \in SUBSET Requests /\ Fits(V, c)
  BY <1>2, <1>4 DEF Fits
<1>6. inUnits(c)[r] = aligned(d, c)
  BY DEF inUnits
<1> HIDE DEF c, d, y
<1>7. y.coefficient = aligned(y, c)
  <2>1. c - c = 0 /\ tenTo[0] = 1 /\ y.coefficient \in Nat
    BY <1>2, <1>3, TenTo DEF Decimal
  <2> QED BY <1>3, <2>1 DEF aligned
<1>8. IsFiniteSet(V) /\ \A v \in V : inUnits(c)[v] \in Nat
  BY <1>2, <1>5, UnitsType
<1>9. Total(V, inUnits(c)) = Total(C, inUnits(c)) + inUnits(c)[r]
  BY <1>8, TotalAdd
<1>10. Totals(y, V)
  BY <1>3, <1>4, <1>5, <1>6, <1>7, <1>9 DEF Totals
<1> QED BY <1>10 DEF y, d

\* What Accounted says of an entry.
LEMMA AccountedTotals ==
  ASSUME NEW C \in SUBSET Requests, NEW x \in Decimal, Fits(C, x.scale)
  PROVE  LET units == [r \in C |-> aligned(consumptionOf(r).amount, x.scale)]
         IN  MapThenSumSet(LAMBDA r : units[r], C) = Total(C, inUnits(x.scale))
<1> DEFINE units == [r \in C |-> aligned(consumptionOf(r).amount, x.scale)]
<1>1. PICK e \in Nat : e = x.scale
  BY DEF Decimal
<1>2. IsFiniteSet(C) /\ \A v \in C : inUnits(e)[v] \in Nat
  BY <1>1, UnitsType
<1>3. \A v \in C : units[v] = inUnits(e)[v]
  BY <1>1 DEF inUnits
<1> HIDE DEF units
<1>4. Total(C, units) = Total(C, inUnits(e))
  BY <1>2, <1>3, TotalSame
<1>5. Total(C, units) = Total(C, inUnits(x.scale))
  BY <1>1, <1>4
<1> QED BY <1>5 DEF Total, units

-----------------------------------------------------------------------------
(* The ledger. *)

\* The amount an entry stands for.
amountIn(entry) == normalizedUsage(entry).amount

\* The budgets of a request, kept by an account.
BudgetKept(x, r) ==
  /\ budgetChecked(mandateOf(r), consumptionOf(r))
       => decimalAtMost(x, limitOf(mandateOf(r), "max_total").value)
  /\ mandateOf(r).commerce # None /\ mandateOf(r).profile = CommerceProfile
       => decimalAtMost(x, mandateOf(r).commerce.max_total)

\* Accounted in terms of totals.
LEMMA AccountedMeans ==
  ASSUME NEW entry \in UsageSnapshot \cup {None}, NEW C \in SUBSET Requests
  PROVE  Accounted(entry, C) <=> /\ Totals(amountIn(entry), C)
                                 /\ \A r \in C : BudgetKept(amountIn(entry), r)
<1> DEFINE x == amountIn(entry)
           units == [r \in C |-> aligned(consumptionOf(r).amount, x.scale)]
<1>1. x \in Decimal
  BY NormalizedType DEF UsageSnapshot, amountIn
<1>2. Fits(C, x.scale) => MapThenSumSet(LAMBDA r : units[r], C) = Total(C, inUnits(x.scale))
  BY <1>1, AccountedTotals
<1>3. Accounted(entry, C) <=> /\ x.coefficient = MapThenSumSet(LAMBDA r : units[r], C)
                              /\ Fits(C, x.scale)
                              /\ \A r \in C : BudgetKept(x, r)
  BY DEF Accounted, Fits, BudgetKept, amountIn
<1> HIDE DEF x, units
<1>4. Accounted(entry, C) <=> Totals(x, C) /\ \A r \in C : BudgetKept(x, r)
  BY <1>1, <1>2, <1>3 DEF Totals
<1> QED BY <1>4 DEF x

\* An unused Mandate has spent nothing.
LEMMA NothingAccounted == Accounted(None, {})
<1>1. amountIn(None) = ZeroText /\ ZeroText \in Decimal /\ ZeroText.coefficient = 0
  BY DEF amountIn, normalizedUsage, orElse, ZeroText, D, Decimal
<1>2. Total({}, inUnits(ZeroText.scale)) = 0
  BY FS_EmptySet, TotalRest
<1>3. Totals(amountIn(None), {})
  BY <1>1, <1>2 DEF Totals, Fits
<1> QED BY <1>3, AccountedMeans

\* Allowing a request keeps the account exact and inside the budgets: a request
\* that is checked is added within them, one that is not checked adds nothing.
LEMMA AllowedAccounted ==
  ASSUME NEW r \in Requests, NEW t, NEW p \in UsageSnapshot \cup {None},
         allows(evaluationRequest(r, t, p)),
         NEW C \in SUBSET Requests, r \notin C, Accounted(p, C),
         \A s \in C : mandateOf(s) = mandateOf(r)
  PROVE  Accounted(nextUsage(evaluationRequest(r, t, p)), C \cup {r})
<1> DEFINE x == amountIn(p)
           d == consumptionOf(r).amount
           y == addDecimal(x, d)
           v == nextUsage(evaluationRequest(r, t, p))
<1>1. Totals(x, C) /\ \A s \in C : BudgetKept(x, s)
  BY AccountedMeans
<1>2. Totals(y, C \cup {r})
  BY <1>1, OneMoreAccounted
<1>3. v \in UsageSnapshot /\ v.amount = y
  BY NextUsageFields DEF amountIn
<1>4. amountIn(v) = y
  BY <1>3, NormalizedSnapshot DEF amountIn
<1>5. /\ budgetChecked(mandateOf(r), consumptionOf(r)) =>
           decimalAtMost(y, limitOf(mandateOf(r), "max_total").value)
      /\ mandateOf(r).profile = CommerceProfile =>
           decimalAtMost(y, mandateOf(r).commerce.max_total)
  BY AllowedFacts DEF amountIn
<1>6. d = ZeroText => y = x
  BY <1>1, AddZero DEF Totals
<1> HIDE DEF x, d, y, v
<1>7. ASSUME NEW s \in C \cup {r} PROVE BudgetKept(y, s)
  <2>1. mandateOf(s) = mandateOf(r)
    BY <1>7
  <2>2. mandateOf(s).profile = CommerceProfile => decimalAtMost(y, mandateOf(s).commerce.max_total)
    BY <1>5, <2>1
  <2>3. ASSUME budgetChecked(mandateOf(s), consumptionOf(s))
        PROVE  decimalAtMost(y, limitOf(mandateOf(s), "max_total").value)
    <3>1. CASE budgetChecked(mandateOf(r), consumptionOf(r))
      BY <1>5, <2>1, <3>1
    <3>2. CASE ~budgetChecked(mandateOf(r), consumptionOf(r))
      <4>1. s \in C /\ d = ZeroText
        BY <1>7, <2>1, <2>3, <3>2 DEF budgetChecked, d
      <4>2. decimalAtMost(x, limitOf(mandateOf(s), "max_total").value)
        BY <1>1, <2>3, <4>1 DEF BudgetKept
      <4> QED BY <1>6, <4>1, <4>2
    <3> QED BY <3>1, <3>2
  <2> QED BY <2>2, <2>3 DEF BudgetKept
<1>8. C \cup {r} \in SUBSET Requests
  OBVIOUS
<1>9. Accounted(v, C \cup {r})
  BY <1>2, <1>3, <1>4, <1>7, <1>8, AccountedMeans
<1> QED BY <1>9 DEF v

\* Nothing is granted at first.
LEMMA LedgerInit == LInit => LInv
<1> SUFFICES ASSUME LInit PROVE LInv
  OBVIOUS
<1>1. LTypeOK
  BY DEF LInit, LTypeOK
<1>2. ASSUME NEW m \in MandateIds PROVE Recorded(m) /\ Accounted(usage[m], On(charged, m))
  <2>1. On(charged, m) = {} /\ usage[m] = None
    BY DEF LInit, On
  <2>2. Cardinality(On(charged, m)) = 0
    BY <2>1, FS_EmptySet
  <2>3. normalizedUsage(None).calls = 0
    BY DEF normalizedUsage, orElse
  <2>4. Recorded(m)
    BY <2>1, <2>2, <2>3 DEF Recorded
  <2> QED BY <2>1, <2>4, NothingAccounted
<1>3. OncePerKey(charged) /\ OncePerOneTimeMandate(charged)
  BY DEF LInit, OncePerKey, OncePerOneTimeMandate
<1> QED BY <1>1, <1>2, <1>3 DEF LInv

\* A grant is recorded, and forgets nothing that was recorded before.
LEMMA GrantPreserves ==
  ASSUME LInv, NEW r \in Requests, Grant(r)
  PROVE  LInv'
<1> DEFINE a == accountOf(r)
           c == consumptionOf(r)
           u == normalizedUsage(usage[a])
           v == normalizedUsage(usage'[a])
<1>1. /\ charged \subseteq Requests
      /\ usage \in [MandateIds -> UsageSnapshot \cup {None}]
      /\ a \in MandateIds /\ usage[a] \in UsageSnapshot \cup {None}
  BY DEF LInv, LTypeOK, MandateIds
<1>2. r \notin charged /\ charged' = charged \cup {r}
  BY DEF Grant
<1>3. PICK t \in Time :
        /\ allows(evaluationRequest(r, t, usage[a]))
        /\ usage' = [usage EXCEPT ![a] = nextUsage(evaluationRequest(r, t, usage[a]))]
  BY DEF Grant
<1>4. /\ usage'[a] = nextUsage(evaluationRequest(r, t, usage[a]))
      /\ \A m \in MandateIds : m # a => usage'[m] = usage[m]
  BY <1>1, <1>3
<1>5. usage'[a] \in UsageSnapshot
  BY <1>1, <1>4, NextUsageFields
<1>6. /\ v.calls = u.calls + 1
      /\ v.consumed = (u.consumed \/ c.consume)
      /\ v.idempotency_keys = u.idempotency_keys \cup
           (IF c.idempotency_key # Empty THEN {c.idempotency_key} ELSE {})
  <2>1. v = nextUsage(evaluationRequest(r, t, usage[a]))
    BY <1>4, <1>5, NormalizedSnapshot
  <2> QED BY <1>1, <2>1, NextUsageFields
<1>7. /\ ~u.consumed
      /\ c.idempotency_key # Empty => c.idempotency_key \notin u.idempotency_keys
      /\ hasType(limitOf(mandateOf(r), "max_calls"), "number")
           => u.calls + 1 <= limitOf(mandateOf(r), "max_calls").value
  BY <1>1, <1>3, AllowedFacts
<1>8. c.consume <=> isOneTime(mandateOf(r))
  BY NoneIsNoBoolean
  DEF consumptionOf, effectiveConsumption, evaluationRequest, orElse, NoConsumption, mandateOf
<1>9. u.calls \in Nat
  BY <1>1, NormalizedType DEF UsageSnapshot
<1>10. Recorded(a)
  BY <1>1 DEF LInv
<1>11. On(charged', a) = On(charged, a) \cup {r} /\ r \notin On(charged, a)
  BY <1>2 DEF On
<1> HIDE DEF a, c, u, v
<1>12. LTypeOK'
  BY <1>1, <1>2, <1>3, <1>4, <1>5 DEF LTypeOK
<1>13. Recorded(a)'
  <2>1. Cardinality(On(charged', a)) = Cardinality(On(charged, a)) + 1
    <3>1. IsFiniteSet(On(charged, a))
      BY <1>1, RequestsFinite, FS_Subset DEF On
    <3> QED BY <1>11, <3>1, FS_AddElement
  <2>2. v.calls = Cardinality(On(charged', a))
    BY <1>6, <1>10, <2>1 DEF Recorded, u
  <2>3. ASSUME NEW s \in On(charged', a)
        PROVE  /\ consumptionOf(s).idempotency_key # Empty
                    => consumptionOf(s).idempotency_key \in v.idempotency_keys
               /\ isOneTime(mandateOf(s)) => v.consumed
               /\ hasType(limitOf(mandateOf(s), "max_calls"), "number")
                    => v.calls <= limitOf(mandateOf(s), "max_calls").value
    <3>1. mandateOf(s) = mandateOf(r)
      BY <1>1, <1>2, <2>3, OneDocumentPerMandateId DEF On, a
    <3>2. hasType(limitOf(mandateOf(s), "max_calls"), "number")
            => v.calls <= limitOf(mandateOf(s), "max_calls").value
      BY <3>1, <1>6, <1>7
    <3>3. isOneTime(mandateOf(s)) => v.consumed
      BY <3>1, <1>6, <1>8
    <3>4. consumptionOf(s).idempotency_key # Empty
            => consumptionOf(s).idempotency_key \in v.idempotency_keys
      <4>1. CASE s = r
        BY <4>1, <1>6 DEF c
      <4>2. CASE s \in On(charged, a)
        BY <4>2, <1>6, <1>10 DEF Recorded, u
      <4> QED BY <2>3, <1>11, <4>1, <4>2
    <3> QED BY <3>2, <3>3, <3>4
  <2> QED BY <2>2, <2>3 DEF Recorded, v
<1>14. ASSUME NEW m \in MandateIds, m # a PROVE Recorded(m)'
  <2>1. On(charged', m) = On(charged, m)
    BY <1>2, <1>14 DEF On, a
  <2>2. usage'[m] = usage[m]
    BY <1>4, <1>14
  <2>3. Recorded(m)
    BY <1>14 DEF LInv
  <2> QED BY <2>1, <2>2, <2>3 DEF Recorded
<1>15. OncePerKey(charged')
  <2>1. ASSUME NEW s \in charged, accountOf(s) = a,
               consumptionOf(s).idempotency_key = c.idempotency_key,
               c.idempotency_key # Empty
        PROVE  FALSE
    <3>1. s \in On(charged, a)
      BY <2>1 DEF On
    <3>2. consumptionOf(s).idempotency_key \in u.idempotency_keys
      BY <3>1, <2>1, <1>10 DEF Recorded, u
    <3> QED BY <3>2, <2>1, <1>7
  <2>2. OncePerKey(charged)
    BY DEF LInv
  <2> QED BY <1>2, <2>1, <2>2 DEF OncePerKey, a, c
<1>16. OncePerOneTimeMandate(charged')
  <2>1. ASSUME NEW s \in charged, accountOf(s) = a, isOneTime(mandateOf(s))
        PROVE  FALSE
    <3>1. s \in On(charged, a)
      BY <2>1 DEF On
    <3>2. u.consumed
      BY <3>1, <2>1, <1>10 DEF Recorded, u
    <3> QED BY <3>2, <1>7
  <2>2. OncePerOneTimeMandate(charged)
    BY DEF LInv
  <2>3. ASSUME NEW s \in charged, accountOf(s) = a PROVE mandateOf(s) = mandateOf(r)
    BY <1>1, <2>3, OneDocumentPerMandateId DEF a
  <2> QED BY <1>2, <2>1, <2>2, <2>3 DEF OncePerOneTimeMandate, a
<1>17. ASSUME NEW m \in MandateIds PROVE Accounted(usage[m], On(charged, m))'
  <2>1. Accounted(usage[m], On(charged, m))
    BY DEF LInv
  <2>2. CASE m = a
    <3>1. On(charged, a) \in SUBSET Requests
          /\ \A s \in On(charged, a) : mandateOf(s) = mandateOf(r)
      BY <1>1, OneDocumentPerMandateId DEF On, a
    <3> QED BY <1>1, <1>3, <1>4, <1>11, <2>1, <2>2, <3>1, AllowedAccounted
  <2>3. CASE m # a
    <3>1. On(charged', m) = On(charged, m)
      BY <1>2, <2>3 DEF On, a
    <3> QED BY <1>4, <2>1, <2>3, <3>1
  <2> QED BY <2>2, <2>3
<1> QED
  <2>1. \A m \in MandateIds : (Recorded(m) /\ Accounted(usage[m], On(charged, m)))'
    BY <1>13, <1>14, <1>17
  <2> QED BY <1>12, <2>1, <1>15, <1>16 DEF LInv, OncePerKey, OncePerOneTimeMandate

\* Every step of the ledger keeps its invariant.
LEMMA LedgerStep == LInv /\ [LNext]_lvars => LInv'
<1> SUFFICES ASSUME LInv, [LNext]_lvars PROVE LInv'
  OBVIOUS
<1>1. CASE LNext
  BY <1>1, GrantPreserves DEF LNext
<1>2. CASE UNCHANGED lvars
  <2>1. \A m \in MandateIds : Accounted(usage[m], On(charged, m))'
    BY <1>2 DEF lvars, LInv, On
  <2> QED BY <1>2, <2>1 DEF lvars, LInv, LTypeOK, Recorded, OncePerKey, OncePerOneTimeMandate, On
<1> QED BY <1>1, <1>2

\* Any of the granted requests together spent no more than their budgets.
LEMMA BudgetsKept ==
  ASSUME LInv, NEW done \in SUBSET charged
  PROVE  WithinBudget(done)
<1> SUFFICES ASSUME NEW m \in {accountOf(r) : r \in done}, NEW r \in On(done, m)
             PROVE  BudgetKept(spent(On(done, m)), r)
  BY DEF WithinBudget, BudgetKept
<1> DEFINE C == On(charged, m)
           S == On(done, m)
           x == amountIn(usage[m])
<1>1. m \in MandateIds /\ C \in SUBSET Requests /\ S \in SUBSET C /\ r \in S /\ r \in Requests
  BY DEF LInv, LTypeOK, On, MandateIds
<1>2. usage[m] \in UsageSnapshot \cup {None} /\ Accounted(usage[m], C)
  BY <1>1 DEF LInv, LTypeOK
<1>3. Totals(x, C) /\ BudgetKept(x, r)
  BY <1>1, <1>2, AccountedMeans
<1> HIDE DEF C, S, x
<1>4. ASSUME NEW limit \in Decimal, decimalAtMost(x, limit) PROVE decimalAtMost(spent(S), limit)
  BY <1>1, <1>3, <1>4, SpentAtMost DEF Totals
<1>5. /\ budgetChecked(mandateOf(r), consumptionOf(r))
           => limitOf(mandateOf(r), "max_total").value \in Decimal
      /\ mandateOf(r).commerce # None => mandateOf(r).commerce.max_total \in Decimal
  BY <1>1, SubmissionsTyped DEF budgetChecked
<1>6. BudgetKept(spent(S), r)
  BY <1>3, <1>4, <1>5 DEF BudgetKept
<1> QED BY <1>6 DEF S

\* The inductive invariant implies the limits.
LEMMA LedgerLimits == LInv => ChargedWithinLimits
<1> SUFFICES ASSUME LInv PROVE WithinCallLimit(charged) /\ WithinBudget(charged)
  BY DEF LInv, ChargedWithinLimits
<1>1. WithinCallLimit(charged)
  BY DEF LInv, WithinCallLimit, Recorded
<1>2. WithinBudget(charged)
  BY BudgetsKept
<1> QED BY <1>1, <1>2

\* LInv is an invariant of every ledger: each entry records all the requests
\* granted under its Mandate and holds the exact total of their amounts.
THEOREM LedgerInvariant == LSpec => []LInv
BY LedgerInit, LedgerStep, PTL DEF LSpec

\* In every ledger the granted requests stay inside the call limits and the
\* budgets, use an idempotency key once and a one-time Mandate once.
THEOREM LedgerWithinLimits == LSpec => []ChargedWithinLimits
BY LedgerInvariant, LedgerLimits, PTL
=============================================================================
