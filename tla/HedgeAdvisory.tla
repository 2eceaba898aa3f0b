---------------------------- MODULE HedgeAdvisory ----------------------------
(***************************************************************************)
(* From a worst loss to a hedge: the recommended ratio, the policy and the *)
(* counterparty limits that bound it, the ladder that spreads one target   *)
(* over buckets of maturities, and what report and explanation say of it.  *)
(*                                                                         *)
(* A ratio is a fraction <<n, d>>.  The tolerance the code divides by when *)
(* nothing is unhedged (10^-6) is the smallest gap here: 1 of One parts.   *)
(* Money is whole; fractions of it are <<n, d>> too.                       *)
(***************************************************************************)
EXTENDS Common, SequencesExt

One == 12
Whole(n) == <<n, 1>>
Leq(a, b) == a[1] * b[2] <= b[1] * a[2]
Lower(a, b) == IF Leq(a, b) THEN a ELSE b
Same(a, b) == Leq(a, b) /\ Leq(b, a)
Abs(n) == IF n < 0 THEN -n ELSE n
Sum(s) == FoldSeq(+, 0, s)
(* To the nearest whole number, a tie to the even one.                     *)
RoundHalfEven(n, d) ==
  LET low == n \div d  rest == 2 * (n % d)
  IN  IF rest > d \/ (rest = d /\ low % 2 = 1) THEN low + 1 ELSE low
-----------------------------------------------------------------------------
(* The recommendation.  loss is the worst change of value, current the     *)
(* hedged part of One; the target is the loss to end with.                 *)
Gap(current) == IF current >= One THEN 1 ELSE One - current
Unhedged(loss, current) == <<Abs(loss) * One, Gap(current)>>
Recommend(loss, current, target) ==
  IF target < 0 THEN [fault |-> "target"]
  ELSE IF current >= One
  THEN [fault |-> "ok", implied |-> Whole(Abs(loss)), ratio |-> Whole(1), expected |-> Whole(0)]
  ELSE [fault |-> "ok", implied |-> Unhedged(loss, current),
        ratio |-> IF target >= Abs(loss) THEN <<current, One>>
                  ELSE <<Abs(loss) * One - target * Gap(current), Abs(loss) * One>>,
        expected |-> Whole(IF target >= Abs(loss) THEN Abs(loss) ELSE target)]

(* The policy: the ratio within its bounds.  When a lot is set it is        *)
(* rounded to whole percents, held within the bounds again, and rounded    *)
(* once more, so a bound that is no whole percent may be crossed.          *)
Percent(r) == <<RoundHalfEven(100 * r[1], r[2]), 100>>
Within(r, low, high) == IF ~ Leq(low, r) THEN low ELSE IF ~ Leq(r, high) THEN high ELSE r
PolicyRatio(policy, r) ==
  LET high == IF policy.overhedge THEN policy.max ELSE Lower(policy.max, Whole(1))
      clamped == Within(r, policy.min, high)
  IN  IF policy.lot THEN Percent(Within(Percent(clamped), policy.min, high)) ELSE clamped
ApplyPolicy(policy, r) ==
  LET high == IF policy.overhedge THEN policy.max ELSE Lower(policy.max, Whole(1))
      clamped == Within(r, policy.min, high)
      out == PolicyRatio(policy, r)
      bound == Faults(<< <<"MAX_HEDGE_RATIO", ~ Leq(r, clamped)>>,
                         <<"MIN_HEDGE_RATIO", ~ Leq(clamped, r)>>,
                         <<"RATIO_ROUNDING", ~ Same(out, clamped)>> >>)
  IN  [ratio |-> out, bindings |-> bound,
       unmet |-> IF "MAX_HEDGE_RATIO" \in bound /\ Same(out, high) THEN "MAX_HEDGE_CAP" ELSE "none"]
(* The two templates, by the highest ratio they allow.                     *)
TemplatePolicy(name) ==
  [min |-> Whole(0), lot |-> TRUE, overhedge |-> FALSE,
   max |-> <<CASE name = "TREASURY_STANDARD_70" -> 70 [] name = "TREASURY_CONSERVATIVE_50" -> 50, 100>>]
RequiresApproval(bindings, unmet) == bindings # {} \/ unmet # "none"
-----------------------------------------------------------------------------
(* Counterparty limits, in this order: ratio, total, additional.  Amounts  *)
(* are hundredths of the foreign currency, ratios percents, so an allowed  *)
(* ratio is the total over the net exposure.  None is -1.                  *)
None == -1
(* Mutant: what is hedged beyond the total is sold again.                  *)
MoreUnfloored(total, current) == total - current
More(total, current) == IF total > current THEN total - current ELSE 0
Limits(limit, net, current, ratio) ==
  LET asked == net * ratio
      byRatio == IF limit.ratio # None /\ limit.ratio < ratio THEN net * limit.ratio ELSE asked
      byTotal == IF limit.total # None /\ limit.total < byRatio THEN limit.total ELSE byRatio
      more == More(byTotal, current)
      capped == IF limit.more # None /\ limit.more < more THEN limit.more ELSE more
      total == IF limit.more # None THEN current + capped ELSE byTotal
      bound == Faults(<< <<"MAX_HEDGE_RATIO", byRatio < asked>>, <<"MAX_TOTAL", byTotal < byRatio>>,
                         <<"MAX_ADDITIONAL", capped < more>> >>)
  IN  IF net = 0 THEN [total |-> 0, more |-> 0, bindings |-> {}, unmet |-> "none"]
      ELSE [total |-> total, more |-> capped, bindings |-> bound,
            unmet |-> IF bound = {} \/ total >= asked THEN "none"
                      ELSE IF "MAX_TOTAL" \in bound THEN "TOTAL_CAP"
                      ELSE IF "MAX_ADDITIONAL" \in bound THEN "ADD_CAP" ELSE "RATIO_CAP"]
TradeAction(net) == IF net > 0 THEN "SELL" ELSE IF net < 0 THEN "BUY" ELSE "NO TRADE"
-----------------------------------------------------------------------------
(* The ladder.  Days to maturity fall into the first bucket that reaches   *)
(* that far; 0 stands for the overflow bucket.                             *)
Overflow == 0
BucketOf(days, bounds) ==
  LET reach == {i \in DOMAIN bounds : days <= bounds[i]}
  IN  IF reach = {} THEN Overflow ELSE CHOOSE i \in reach : \A j \in reach : i <= j
(* The buckets that have exposures, in order, and the exposures of each.   *)
BucketsInUse(days, bounds) ==
  SelectSeq([i \in DOMAIN bounds |-> i] \o <<Overflow>>,
            LAMBDA b : \E r \in DOMAIN days : BucketOf(days[r], bounds) = b)
RowsOf(b, days, bounds) == {r \in DOMAIN days : BucketOf(days[r], bounds) = b}

(* A bucket is [loss, current, notional]; its share of the target is its   *)
(* part of the unhedged loss, in units of 1/One, rounded; the last bucket  *)
(* takes what is left, which may be less than nothing.                     *)
Weight(b) == (Abs(b.loss) * One) \div Gap(b.current)
TotalWeight(buckets) == Sum([i \in DOMAIN buckets |-> Weight(buckets[i])])
Share(buckets, i, target) == RoundHalfEven(target * Weight(buckets[i]), TotalWeight(buckets))
Targets(buckets, target) ==
  [i \in DOMAIN buckets |->
     IF TotalWeight(buckets) = 0 THEN 0
     ELSE IF i < Len(buckets) THEN Share(buckets, i, target)
     ELSE target - Sum([j \in 1..(i - 1) |-> Share(buckets, j, target)])]
(* A bucket without loss is not hedged.                                    *)
BucketHedge(b, target, policies) ==
  LET rec == IF b.loss = 0
             THEN [fault |-> "ok", implied |-> Whole(0), ratio |-> Whole(0), expected |-> Whole(0)]
             ELSE Recommend(b.loss, b.current, target)
  IN  IF rec.fault # "ok" \/ policies = <<>> THEN rec
      ELSE LET out == PolicyRatio(policies[1], rec.ratio)
               open == IF Leq(out, Whole(1)) THEN out[2] - out[1] ELSE 0
           IN  [rec EXCEPT !.ratio = out, !.expected = <<rec.implied[1] * open, rec.implied[2] * out[2]>>]
Ladder(buckets, target, policies) ==
  [i \in DOMAIN buckets |-> BucketHedge(buckets[i], Targets(buckets, target)[i], policies)]
-----------------------------------------------------------------------------
(* What is said of a ladder: the coverage, inferred from the buckets that  *)
(* have any, the first two actions, and the trade the worst shock asks for.*)
Covered(buckets, hedges) ==
  {i \in DOMAIN buckets : hedges[i].ratio[1] > 0 /\ buckets[i].notional > 0}
Notional(buckets, S) == Sum([i \in DOMAIN buckets |-> IF i \in S THEN buckets[i].notional ELSE 0])
Gross(buckets, hedges) == Notional(buckets, Covered(buckets, hedges))
(* Amounts in so many parts of the notional's unit that percents, twelfths *)
(* and thirds are whole.                                                   *)
Parts == 25 * 6 * One
Hedged(buckets, hedges) ==
  Sum([i \in DOMAIN buckets |->
         (buckets[i].notional * hedges[i].ratio[1] * Parts) \div hedges[i].ratio[2]])
InferredRatio(buckets, hedges) ==
  IF Gross(buckets, hedges) = 0 THEN <<>> ELSE <<Hedged(buckets, hedges), Gross(buckets, hedges) * Parts>>
CurrentOfCovered(buckets, hedges) ==
  Sum([i \in DOMAIN buckets |->
         IF i \in Covered(buckets, hedges) THEN (buckets[i].notional * buckets[i].current * Parts) \div One ELSE 0])
Additional(buckets, hedges) == More(Hedged(buckets, hedges), CurrentOfCovered(buckets, hedges))
BucketAction(b, hedge) ==
  IF ~ Leq(hedge.ratio, <<b.current, One>>) THEN "INCREASE_HEDGE"
  ELSE IF ~ Leq(<<b.current, One>>, hedge.ratio) THEN "DECREASE_HEDGE" ELSE "HOLD"
ActionFromShock(shock) == IF shock > 0 THEN "BUY" ELSE IF shock < 0 THEN "SELL" ELSE "NO TRADE"

(* The items of an explanation, in order.                                  *)
Items(notes, limits, ladders) ==
  SelectSeq(<<"TAIL_RISK", "OBJECTIVE", "COVERAGE_UPLIFT", "POLICY_BINDINGS", "LIMIT_BINDINGS",
              "DELTA_UNITS", "LADDER_DETAIL">>,
    LAMBDA item : /\ item = "POLICY_BINDINGS" => notes # {}
                  /\ item = "LIMIT_BINDINGS" => limits.bindings # {} \/ limits.unmet # "none"
                  /\ item = "LADDER_DETAIL" => ladders # <<>>)

(* The validation of raw exposure rows: one amount once, in the base       *)
(* currency, with a direction unless the amount has a sign.  A row is      *)
(* [ccy, amount, days, kind]; the first fault of the first faulty row.     *)
ExposureRowFault(rows, i, base) == FirstFault(<<
  <<"ROW_CCY_MISMATCH", rows[i].ccy # base>>,
  <<"ROW_AMOUNT_ZERO", rows[i].amount = 0>>,
  <<"ROW_NEGATIVE_DAYS", rows[i].days < 0>>,
  <<"ROW_DIRECTION_AMBIGUOUS", rows[i].amount > 0 /\ rows[i].kind \notin {"PAYABLE", "RECEIVABLE"}>>,
  <<"DUPLICATE_ROW", \E j \in 1..(i - 1) : rows[j] = rows[i]>> >>)
ExposureFault(rows, base) ==
  IF rows = <<>> THEN "EMPTY_EXPOSURES"
  ELSE FirstNamed([i \in DOMAIN rows |-> ExposureRowFault(rows, i, base)])
=============================================================================
