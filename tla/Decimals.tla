------------------------------ MODULE Decimals ------------------------------
(***************************************************************************)
(* Exact decimal arithmetic of the authority evaluator                     *)
(* (sdk/typescript/src/evaluator.ts).                                      *)
(*                                                                         *)
(* A decimal string accepted by isDecimal, /^(0|[1-9][0-9]* )(\.[0-9]+)?$/,*)
(* is in bijection with the pair parseDecimal makes of it: the digits as   *)
(* one integer and the number of fraction digits.  "0" and "0.00" are      *)
(* different strings and stay different here ([0,0] and [0,2]); the code   *)
(* compares amounts with the literal "0" in several places.                *)
(***************************************************************************)
EXTENDS Integers, FiniteSetsExt

\* interface Decimal { coefficient: bigint; scale: number }: isDecimal accepts
\* no sign, so the digits are a natural number.
Decimal == [coefficient : Nat, scale : Nat]

\* The decimal with the given digits and number of fraction digits.
D(coefficient, scale) == [coefficient |-> coefficient, scale |-> scale]

\* The literal "0".
ZeroText == D(0, 0)

\* String(n) of a non-negative integer.
decimalOf(n) == D(n, 0)

\* 10n ** BigInt(n).
tenTo[n \in Nat] == IF n = 0 THEN 1 ELSE 10 * tenTo[n - 1]

\* The coefficient of d when written with `scale` fraction digits.
aligned(d, scale) == d.coefficient * tenTo[scale - d.scale]

commonScale(left, right) == Max({left.scale, right.scale})

compareDecimal(left, right) ==
  LET s == commonScale(left, right)
      a == aligned(left, s)
      b == aligned(right, s)
  IN  IF a = b THEN 0 ELSE IF a > b THEN 1 ELSE -1

addDecimal(left, right) ==
  LET s == commonScale(left, right)
  IN  D(aligned(left, s) + aligned(right, s), s)

multiplyDecimal(value, multiplier) == D(value.coefficient * multiplier, value.scale)

\* The child bound is a decimal no larger than the parent bound.
decimalAtMost(child, parent) == compareDecimal(child, parent) <= 0
=============================================================================
