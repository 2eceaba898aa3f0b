--------------------------- MODULE OptionPricing ---------------------------
(***************************************************************************)
(* The two FX option kernels in units that make them exact: spot 2^s,      *)
(* strike 2^k, rates in units of ln 2 a year, volatility in units whose    *)
(* one-step factor is a power of two.  Of the normal distribution only the *)
(* symmetry is kept, and d1, d2 are taken before the division by           *)
(* volatility and root of time, which are positive.  Values of the closed  *)
(* formula are in units of 1/256.                                          *)
(***************************************************************************)
EXTENDS Common

Pos(x) == IF x > 0 THEN x ELSE 0
Payoff(right, spot, strike) == Pos(IF right = "call" THEN spot - strike ELSE strike - spot)
KernelFault(o) == FirstFault(<<
  <<"option_type", o.right \notin {"call", "put"}>>, <<"volatility", o.vol < 0>>,
  <<"time_to_expiry_years", o.time < 0>> >>)
-----------------------------------------------------------------------------
(* Garman-Kohlhagen.  At expiry the payoff, without volatility the payoff  *)
(* of the forward, otherwise the closed formula.                           *)
E(x) == 2 ^ (x + 4)
Cdf(x) == 8 + (IF x > 8 THEN 8 ELSE IF x < -8 THEN -8 ELSE x)      \* external: erf
Pdf(x) == IF x > 8 \/ x < -8 THEN 0 ELSE IF x > 0 THEN 8 - x ELSE 8 + x
Discounted(o) == [spot |-> E(o.s - o.rf * o.time), strike |-> E(o.k - o.rd * o.time)]
Moneyness(o) == 2 * (o.s - o.k) + 2 * (o.rd - o.rf) * o.time
D1(o) == Moneyness(o) + o.vol * o.vol * o.time
D2(o) == Moneyness(o) - o.vol * o.vol * o.time
PresentValue(o) ==
  LET d == Discounted(o) IN
  IF o.time = 0 THEN 16 * Payoff(o.right, E(o.s), E(o.k))
  ELSE IF o.vol = 0 THEN 16 * Payoff(o.right, d.spot, d.strike)
  ELSE IF o.right = "call" THEN d.spot * Cdf(D1(o)) - d.strike * Cdf(D2(o))
  ELSE d.strike * Cdf(-D2(o)) - d.spot * Cdf(-D1(o))
(* Delta, and gamma up to a positive factor that calls and puts share.     *)
Delta(o) ==
  LET df == E(-o.rf * o.time)
      side == IF Moneyness(o) > 0 THEN 16 ELSE IF Moneyness(o) < 0 THEN 0 ELSE 8
      n == IF o.time = 0 \/ o.vol = 0 THEN side ELSE Cdf(D1(o))
  IN  IF o.right = "call" THEN df * n ELSE df * (n - 16)
Gamma(o) == IF o.time = 0 \/ o.vol = 0 THEN 0 ELSE E(-o.rf * o.time) * Pdf(D1(o))
(* The nine measures in their order; bumps are of one unit, and theta is   *)
(* the value with a day more to expiry less the value now.                 *)
Measures(o) ==
  LET pv == PresentValue(o)
      intrinsic == 16 * Payoff(o.right, E(o.s), E(o.k))
  IN  <<pv, intrinsic, pv - intrinsic, Delta(o), Gamma(o),
        PresentValue([o EXCEPT !.vol = @ + 1]) - pv, PresentValue([o EXCEPT !.time = @ + 1]) - pv,
        PresentValue([o EXCEPT !.rd = @ + 1]) - pv, PresentValue([o EXCEPT !.rf = @ + 1]) - pv>>
(* What an engine accepts: resolved inputs, never a bundle or a handle.    *)
EngineInputFault(value) == FirstFault(<<
  <<"dependency bundle", value = "OptionValuationDependencyBundleV1">>,
  <<"repository handle", value = "repository">>,
  <<"resolved inputs", value \notin {"ResolvedOptionValuationInputsV1", "ResolvedFxOptionValuationInputsV1"}>>,
  <<"FX inputs", value # "ResolvedFxOptionValuationInputsV1">> >>)
EuropeanFault(value, o, style, hash) == FirstNamed(<<EngineInputFault(value),
  FirstFault(<<<<"resolved_basis_hash", hash = "blank">>, <<"exercise_style", style # "european">>>>),
  KernelFault(o)>>)
-----------------------------------------------------------------------------
(* The American lattice: spot and strike are numbers, a step multiplies    *)
(* the spot by u = 2^vol or 1/u, the growth of a step is 2^(rd-rf) and its *)
(* discount 2^-rd.  A step takes values to units 60 times smaller: 15      *)
(* clears the denominators of the probabilities, 4^vol - 1 for vol up to   *)
(* 2, and 4 those of the discount.                                         *)
PerStep == 60
UpOdds(o) == (15 * (2 ^ (o.vol + o.rd - o.rf) - 1)) \div (4 ^ o.vol - 1)
LatticeFault(o) == FirstFault(<<
  <<KernelFault(o), KernelFault(o) # "ok">>, <<"step_count", o.steps <= 0>>,
  <<"invalid CRR risk-neutral probability",
    o.time > 0 /\ o.vol > 0 /\ (o.rd - o.rf > o.vol \/ o.rf - o.rd > o.vol)>> >>)
(* Early exercise needs strictly more than the continuation.               *)
Exercise(exercise, continuation) == IF exercise > continuation THEN exercise ELSE continuation
(* Spot after j steps of which i were up, in units of 1/2^(2 * steps).     *)
NodeSpot(o, j, i) ==
  LET e == IF o.vol = 0 THEN (o.rd - o.rf) * j ELSE o.vol * (2 * i - j)
  IN  o.spot * 2 ^ (e + 2 * o.steps)
NodePayoff(o, j, i) == Payoff(o.right, NodeSpot(o, j, i), o.strike * 2 ^ (2 * o.steps))
LatticeValue(o, american) ==
  LET value[j \in 0..o.steps] ==
        IF j = o.steps THEN [i \in 0..j |-> NodePayoff(o, j, i)]
        ELSE [i \in 0..j |->
          LET next == value[j + 1]
              expected == IF o.vol = 0 THEN 15 * next[i]
                          ELSE UpOdds(o) * next[i + 1] + (15 - UpOdds(o)) * next[i]
              continuation == 2 ^ (2 - o.rd) * expected
              exercise == NodePayoff(o, j, i) * PerStep ^ (o.steps - j)
          IN  IF american THEN Exercise(exercise, continuation) ELSE continuation]
  IN  value[0][0]
(* What the kernel answers, in units of 1/240^steps.                       *)
Intrinsic(o) == NodePayoff(o, 0, 0) * PerStep ^ o.steps
American(o) == IF o.time = 0 THEN Intrinsic(o) ELSE LatticeValue(o, TRUE)
European(o) == IF o.time = 0 THEN Intrinsic(o) ELSE LatticeValue(o, FALSE)
(* The American engine's nine measures, of bumps of one unit: central      *)
(* differences of the spot (delta times 2 bump, gamma times bump^2), and   *)
(* rolled inputs for theta.  One bump that fails fails them all.           *)
Bumped(o) == <<[o EXCEPT !.vol = @ + 1], [o EXCEPT !.rd = @ + 1], [o EXCEPT !.rf = @ + 1]>>
AmericanMeasures(o, bump, rolled) ==
  LET At(spot) == American([o EXCEPT !.spot = spot])
      pv == American(o)
      up == Bumped(o)
  IN  <<pv, Intrinsic(o), pv - Intrinsic(o), At(o.spot + bump) - At(o.spot - bump),
        At(o.spot + bump) - 2 * pv + At(o.spot - bump), American(up[1]) - pv, American(rolled) - pv,
        American(up[2]) - pv, American(up[3]) - pv>>
MeasuresFault(o, current, bump, rolled) == FirstNamed(<<
  IF current # o THEN "current_resolved_inputs" ELSE "ok", LatticeFault(o),
  IF bump <= 0 \/ bump >= o.spot THEN "spot bump" ELSE "ok",
  LatticeFault(Bumped(o)[1]), LatticeFault(Bumped(o)[2]), LatticeFault(Bumped(o)[3]), LatticeFault(rolled)>>)
EngineFault(o, style, hash) == FirstFault(<<<<"resolved_basis_hash", hash = "blank">>,
  <<"exercise_style", style # "american">>, <<LatticeFault(o), LatticeFault(o) # "ok">>>>)
=============================================================================
