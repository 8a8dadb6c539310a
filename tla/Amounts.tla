------------------------------- MODULE Amounts -------------------------------
(***************************************************************************)
(* The arithmetic of amounts: the Rust functions calc_partial_fee and      *)
(* calc_payout with the fixed-point fractions of sp_arithmetic, and the    *)
(* priority of a pending extrinsic.  Amounts are u128 in Rust and BN in    *)
(* TypeScript; no total a chain has reaches either limit, so their width   *)
(* is left out.                                                            *)
(***************************************************************************)
EXTENDS Answer, Sequences, FiniteSets, SequencesExt

CONSTANT Accuracy  \* parts of a Perbill that make one

ASSUME AccuracyAssumption == Accuracy \in Nat \ {0} /\ Accuracy % 100 = 0

Lesser(a, b) == IF a <= b THEN a ELSE b
Greater(a, b) == IF a >= b THEN a ELSE b

-----------------------------------------------------------------------------
(* Perbill *)

\* from_rational rounds down and saturates at one; a denominator of 0 counts
\* as 1.
FromRational(p, q) ==
  LET whole == Greater(q, 1) IN (Lesser(p, whole) * Accuracy) \div whole

FromPercent(x) == Lesser(x, 100) * (Accuracy \div 100)

\* Perbill * amount is rounded to the nearest, down if there are two.
PartOf(part, amount) == (part * amount + (Accuracy - 1) \div 2) \div Accuracy

SaturatingSub(a, b) == Greater(a - b, 0)

-----------------------------------------------------------------------------
(* calc_partial_fee: calc_raw *)

CalcRaw(base, len, adjusted, estimated, actual) ==
  base + len + PartOf(FromRational(estimated, actual), adjusted)

-----------------------------------------------------------------------------
(* calc_payout *)

\* e: [points, payout], the era's; v: [points, percent, total], the validator's.
ValidatorTotal(e, v) == PartOf(FromRational(v.points, e.points), e.payout)

CommissionPayout(e, v) == PartOf(FromPercent(v.percent), ValidatorTotal(e, v))

\* Faulty: the validator's commission is shared out once more.
LeftoverWithCommission(e, v) == ValidatorTotal(e, v)

Leftover(e, v) == SaturatingSub(ValidatorTotal(e, v), CommissionPayout(e, v))

CalcPayout(e, v, exposure, isValidator) ==
  PartOf(FromRational(exposure, v.total), Leftover(e, v))
    + IF isValidator THEN CommissionPayout(e, v) ELSE 0

-----------------------------------------------------------------------------
(* computeExtPriority *)

\* x: [class, tip, weight, length, inclusionFee]; limits: [weight, length,
\* multiplier], with inclusionFee Null for an unsigned extrinsic.
MaxTxPerBlock(x, limits) ==
  LET bounded(size, limit) == Lesser(Greater(size, 1), limit)
  IN  Lesser(limits.weight \div bounded(x.weight, limits.weight),
             limits.length \div bounded(x.length, limits.length))

ScaledTip(x, limits) == (x.tip + 1) * MaxTxPerBlock(x, limits)

Priority(x, limits) ==
  IF x.class # "operational" THEN ScaledTip(x, limits)
  ELSE IF x.inclusionFee = Null THEN 0
  ELSE ScaledTip(x, limits)
         + (x.inclusionFee + x.tip) * limits.multiplier * MaxTxPerBlock(x, limits)

-----------------------------------------------------------------------------
(* Properties. *)

\* exposures: the stakes behind a validator, its own first.  Together the
\* payouts are what the era pays for the validator's points, but for the
\* rounding of each by a unit and by one part in Accuracy of what is shared;
\* a larger stake is paid no less; and at full commission only the validator
\* is paid.
PayoutShares(e, v, exposures) ==
  LET paid(i) == CalcPayout(e, v, exposures[i], i = 1)
      total == Sum([i \in DOMAIN exposures |-> paid(i)])
      slack == (Len(exposures) * (Leftover(e, v) + Accuracy)) \div Accuracy
  IN  v.total = Sum(exposures) /\ v.total > 0
        /\ v.points <= e.points =>
        /\ ValidatorTotal(e, v) <= e.payout
        /\ total - ValidatorTotal(e, v) \in (-slack)..slack
        /\ \A i, j \in DOMAIN exposures \ {1} : exposures[i] <= exposures[j] => paid(i) <= paid(j)
        /\ v.percent >= 100 => \A i \in DOMAIN exposures \ {1} : paid(i) = 0

\* Two pending extrinsics of one size: the larger tip has the higher priority,
\* and an operational one with a fee is ahead of a normal one with its tip.
PriorityOrdered(x, y, limits) ==
  (x.weight <= limits.weight /\ x.length <= limits.length
     /\ x.weight = y.weight /\ x.length = y.length) =>
    /\ x.class = y.class /\ x.inclusionFee = y.inclusionFee /\ x.tip < y.tip
         /\ ~(x.class = "operational" /\ x.inclusionFee = Null)
       => Priority(x, limits) < Priority(y, limits)
    /\ x.class # "operational" /\ y.class = "operational" /\ x.tip = y.tip
         /\ y.inclusionFee # Null /\ y.inclusionFee > 0 /\ limits.multiplier > 0
       => Priority(x, limits) < Priority(y, limits)
=============================================================================
