-------------------------- MODULE StrategyMetrics --------------------------
(***************************************************************************)
(* The closed-form figures of the strategy screens: condor, vertical,      *)
(* straddle, butterfly and their short forms, from the prices of a chain.  *)
(* Quotes are whole numbers whose middle is whole; the factor is quantity  *)
(* by multiplier.                                                          *)
(***************************************************************************)
EXTENDS Common, FiniteSetsExt

(* The first row of the strike and type; without both quotes its price.    *)
Rows(chain, strike, cp) == {i \in DOMAIN chain : chain[i].strike = strike /\ chain[i].cp = cp}
FindMidPrice(chain, strike, cp) ==
  LET row == chain[Min(Rows(chain, strike, cp))]
  IN  IF "bid" \in DOMAIN row THEN (row.bid + row.ask) \div 2 ELSE row.price
Missing(chain, legs) == \E leg \in legs : Rows(chain, leg[1], leg[2]) = {}
Strikes(chain) == {chain[i].strike : i \in DOMAIN chain}
Gain(x) == IF x > 0 THEN x ELSE 0
Worth(cp, strike, price) == Gain(IF cp = "CALL" THEN price - strike ELSE strike - price)
Distance(x, y) == IF x > y THEN x - y ELSE y - x

(* A grid from low thousandths of the least strike to high thousandths of  *)
(* the greatest; its prices are in units of 1 / Fine(points).              *)
Fine(points) == 10 * (points - 1)
Grid(chain, low, high, points) == {low * Min(Strikes(chain)) * (points - 1 - i) + high * Max(Strikes(chain)) * i :
                                   i \in 0..(points - 1)}
-----------------------------------------------------------------------------
(* Long and short straddle at one strike.                                  *)
StraddleFault(chain, strike) == IF chain = <<>> THEN "empty"
  ELSE IF Missing(chain, {<<strike, "CALL">>, <<strike, "PUT">>}) THEN "missing" ELSE "ok"
StraddlePaid(chain, strike) == FindMidPrice(chain, strike, "CALL") + FindMidPrice(chain, strike, "PUT")
StraddleAt(chain, strike, price) == Worth("CALL", strike, price) + Worth("PUT", strike, price)
(* The greatest value on the grid is at one of its ends.                   *)
StraddleOnGrid(chain, strike) ==
  Max({StraddleAt(chain, 10 * strike, s) : s \in {7 * Min(Strikes(chain)), 13 * Max(Strikes(chain))}})
StraddleMetrics(chain, strike, factor) ==
  LET paid == StraddlePaid(chain, strike)
  IN  [max_loss |-> -paid * factor, lower_be |-> strike - paid, upper_be |-> strike + paid,
       max_profit_tenths |-> (StraddleOnGrid(chain, strike) - 10 * paid) * factor]
ShortStraddleMetrics(chain, strike, factor) ==
  LET paid == StraddlePaid(chain, strike)
  IN  [max_profit |-> paid * factor, lower_be |-> strike - paid, upper_be |-> strike + paid,
       max_loss_tenths |-> (10 * paid - StraddleOnGrid(chain, strike)) * factor]
-----------------------------------------------------------------------------
(* Long and short butterfly; the screen refuses strikes out of order, and  *)
(* with fewer than three strikes its choice is one strike three times.     *)
ButterflyChoices(chain) ==
  IF Cardinality(Strikes(chain)) < 3
  THEN {<<s, s, s>> : s \in IF chain = <<>> THEN {0} ELSE {Min(Strikes(chain))}}
  ELSE Strikes(chain) \X Strikes(chain) \X Strikes(chain)
ButterflyFault(chain, k, cp) ==
  IF chain = <<>> THEN "empty" ELSE IF ~(k[1] < k[2] /\ k[2] < k[3]) THEN "order"
  ELSE IF Missing(chain, {<<k[i], cp>> : i \in 1..3}) THEN "missing" ELSE "ok"
ButterflyDebit(chain, k, cp) ==
  FindMidPrice(chain, k[1], cp) + FindMidPrice(chain, k[3], cp) - 2 * FindMidPrice(chain, k[2], cp)
ButterflyAt(cp, k, price) == Worth(cp, k[1], price) - 2 * Worth(cp, k[2], price) + Worth(cp, k[3], price)
Wing(k) == Min({Distance(k[2], k[1]), Distance(k[3], k[2])})
ButterflyMetrics(chain, k, cp, factor) ==
  LET debit == ButterflyDebit(chain, k, cp)
  IN  [max_profit |-> Gain((Wing(k) - debit) * factor), max_loss |-> -debit * factor,
       lower_be |-> k[2] - Wing(k) + debit, upper_be |-> k[2] + Wing(k) - debit]
(* The short form's loss is the least value on a grid of 400 prices.       *)
ShortButterflyOnGrid(chain, k, cp) ==
  Min({-ButterflyAt(cp, [i \in 1..3 |-> Fine(400) * k[i]], s) : s \in Grid(chain, 8, 12, 400)})
ShortButterflyMetrics(chain, k, cp, factor) ==
  LET credit == -ButterflyDebit(chain, k, cp)
  IN  [max_profit |-> credit * factor,
       max_loss_fine |-> (ShortButterflyOnGrid(chain, k, cp) + Fine(400) * credit) * factor,
       lower_be |-> k[2] - Wing(k) + credit, upper_be |-> k[2] + Wing(k) - credit]
-----------------------------------------------------------------------------
(* Vertical spread: no premiums, any two strikes but the same one.         *)
VerticalChoices(chain) == IF Cardinality(Strikes(chain)) < 2
                          THEN {<<s, s>> : s \in IF chain = <<>> THEN {0} ELSE Strikes(chain)}
                          ELSE Strikes(chain) \X Strikes(chain)
VerticalFault(chain, short, long) ==
  IF chain = <<>> THEN "empty" ELSE IF short = long THEN "same" ELSE "ok"
VerticalAt(cp, short, long, price) == Worth(cp, long, price) - Worth(cp, short, price)
VerticalMetrics(short, long, factor) ==
  LET wing == Distance(long, short)
  IN  [max_profit |-> wing * factor, max_loss |-> -wing * factor, twice_be |-> long + short]
-----------------------------------------------------------------------------
(* Iron condor: any four strikes, short put, long put, short and long call.*)
CondorFault(chain, sp, lp, sc, lc) ==
  IF chain = <<>> THEN "empty"
  ELSE IF \E cp \in {"PUT", "CALL"} : \A i \in DOMAIN chain : chain[i].cp # cp THEN "one sided"
  ELSE IF Missing(chain, {<<sp, "PUT">>, <<lp, "PUT">>, <<sc, "CALL">>, <<lc, "CALL">>}) THEN "missing" ELSE "ok"
CondorCredit(chain, sp, lp, sc, lc) == FindMidPrice(chain, sp, "PUT") + FindMidPrice(chain, sc, "CALL")
                                       - FindMidPrice(chain, lp, "PUT") - FindMidPrice(chain, lc, "CALL")
CondorAt(credit, sp, lp, sc, lc, price) ==
  credit - Worth("PUT", sp, price) + Worth("PUT", lp, price) - Worth("CALL", sc, price) + Worth("CALL", lc, price)
IronCondorMetrics(chain, sp, lp, sc, lc, factor) ==
  LET credit == CondorCredit(chain, sp, lp, sc, lc)
      worst == Max({Distance(sp, lp), Distance(lc, sc)})
  IN  [net_credit |-> credit, max_profit |-> credit * factor, max_loss |-> Gain(worst - credit) * factor,
       lower_be |-> sp - credit, upper_be |-> sc + credit]
=============================================================================
