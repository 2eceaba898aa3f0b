--------------------------- MODULE StrategyChecks ---------------------------
(* What the detector, the warnings, the suggestions and the screens' own   *)
(* figures promise, and the positions and chains they are checked on.      *)
EXTENDS Integers, Sequences, FiniteSets, SequencesExt
S == INSTANCE Strategies
M == INSTANCE StrategyMetrics

Greatest(set) == CHOOSE y \in set : \A z \in set : z <= y
Least(set) == CHOOSE y \in set : \A z \in set : y <= z
Kinks(legs) == {legs[i].strike : i \in DOMAIN legs}
(* Profit or loss at zero, at every strike and far above: all a position   *)
(* that does not rise or fall for ever can come to.                        *)
Outcomes(legs, far) == {S!PayoffPosition(legs, s) : s \in Kinks(legs) \cup {0, far}}
FallsForEver(legs, far) == S!PayoffPosition(legs, far + 1) < S!PayoffPosition(legs, far)
RisesForEver(legs, far) == S!PayoffPosition(legs, far + 1) > S!PayoffPosition(legs, far)
-----------------------------------------------------------------------------
Legs(cps, strikes, quantities, premiums) ==
  [side : {"long", "short"}, cp : cps, strike : strikes, quantity : quantities, premium : premiums]
Both == {"CALL", "PUT"}
Quads == LET Pairs(cp, strikes) == Legs({cp}, strikes, {1, 2}, {1}) \X Legs({cp}, strikes, {1}, {3})
         IN  {p \o c : p \in Pairs("PUT", {1, 2, 3}), c \in Pairs("CALL", {2, 3, 4})}
DetectCases ==
  [legs : {<<>>} \cup {<<l>> : l \in Legs(Both, {1, 2}, {1}, {1})}
          \cup Legs(Both, {1, 2}, {1, 2}, {1, 3}) \X Legs(Both, {1, 2}, {1, 2}, {1, 3})
          \cup Legs(Both, {1, 2}, {1, 2}, {1}) \X Legs(Both, {1, 2}, {1, 2}, {1}) \X Legs({"CALL"}, {2, 3}, {1}, {1})
          \cup Quads]
(* The name does not depend on the order of the legs.  What is called      *)
(* limited is, unless a warning says that the sides are unbalanced or a    *)
(* short leg is naked.  A loss without bound is always warned of as a naked *)
(* call, but where two short calls count one long call as their cover.     *)
(* Straddles and strangles are long or short as their premiums are paid or *)
(* received.  The money of a condor is named after what opening it brings  *)
(* in, that of a vertical the other way round.                             *)
DetectSound(c) ==
  LET info == S!Detect(c.legs)
      told == S!PositionWarnings(c.legs, 0, <<>>, {})
      calls == {i \in DOMAIN c.legs : c.legs[i].cp = "CALL" /\ c.legs[i].side = "short"}
      Cover(i) == ToSet(S!Covering(c.legs, c.legs[i]))
  IN  c.legs # <<>> =>
      /\ S!Detect(Reverse(c.legs)) = info
      /\ (info.limited /\ FallsForEver(c.legs, 9)) => told \cap {"unbalanced", "naked call"} # {}
      /\ FallsForEver(c.legs, 9) =>
           "naked call" \in told \/ \E i, j \in calls : i # j /\ Cover(i) \cap Cover(j) # {}
      /\ (info.limited /\ info.name # "Straddle" /\ told = {}) => ~RisesForEver(c.legs, 9)
      /\ info.name \in {"Straddle", "Strangle"} =>
           IF info.direction = "Long" THEN Least(Outcomes(c.legs, 9)) >= S!NetCredit(c.legs)
           ELSE Greatest(Outcomes(c.legs, 9)) <= S!NetCredit(c.legs)
      /\ info.name = "Iron Condor" => (info.money = "Credit" <=> S!NetCredit(c.legs) > 0)
      /\ info.name = "Vertical Spread" => (info.money = "Credit" <=> S!NetCredit(c.legs) < 0)
      /\ info.name # "Iron Butterfly"
-----------------------------------------------------------------------------
Spot == 4000
SuggestCases == [words : SUBSET {"hardly moves", "volatile", "rise", "fall"}, agg : -1..11, unit : {5, 40, 400}]
Meant == [iron_condor |-> <<"Iron Condor", "", "">>, put_credit_spread |-> <<"Vertical Spread", "PUT", "Bullish">>,
          call_credit_spread |-> <<"Vertical Spread", "CALL", "Bearish">>, long_strangle |-> <<"Strangle", "", "Long">>]
Narrowest(legs) == Least({M!Distance(legs[i].strike, legs[i + 1].strike) : i \in {1, Len(legs) - 1}})
(* There is always something to suggest.  A suggestion is found to be what *)
(* it is called, leaves nothing naked, and survives the table of the       *)
(* builder.  The greatest loss the screen shows, read from a grid, is the  *)
(* greatest loss at any price; and where the premium taken is less than    *)
(* the wing, each break-even lies inside a wing and clear of the spot.     *)
SuggestSound(c) ==
  LET all == S!SuggestStrategiesForGoals(c.words, c.agg, Spot, c.unit)
  IN  /\ all # <<>>
      /\ \A k \in DOMAIN all :
           LET legs == all[k].legs
               info == S!Detect(legs)
               paid == S!NetCredit(legs)
               wing == Narrowest(legs)
           IN  /\ <<info.name, info.cp, info.direction>> = Meant[all[k].key]
               /\ S!PositionWarnings(legs, Spot, <<>>, {}) \subseteq {"unbalanced"}
               /\ S!DfToPosition(S!PositionToLegsDf(legs)) = legs
               /\ all[k].summary.max_loss = Least(Outcomes(legs, 3 * Spot))
               /\ (0 < paid /\ paid < wing) =>
                    /\ Cardinality(all[k].summary.break_even_points) = Len(legs) \div 2
                    /\ \A be \in all[k].summary.break_even_points : \E i \in {1, Len(legs) - 1} :
                         LET near == legs[i].strike * be[2]
                             far == legs[i + 1].strike * be[2]
                         IN  (near < be[1] /\ be[1] < far) \/ (far < be[1] /\ be[1] < near)
-----------------------------------------------------------------------------
TableRows == [side : {"long", "Short", "buy", ""}, cp : {"call", "PUT", "X"}, strike : {<<>>, <<2>>},
              quantity : {<<>>, <<2>>}, premium : {<<>>, <<1>>}]
Raw == [side : {<<>>, <<"">>, <<"Long">>, <<"buy">>}, direction : {<<>>, <<"short">>, <<"">>},
        cp : {<<>>, <<"">>, <<"call">>, <<"X">>}, kind : {<<>>, <<"PUT">>},
        qty : {<<>>, <<0>>, <<3>>}, quantity : {1, 2}, strike : {2}, premium : {1}]
TableCases == [rows : TableRows \X TableRows] \cup [raw : Raw]
(* What the table of the builder gives is a position the table gives back, *)
(* in its order; a leg that is made has a side and a type that payoffs     *)
(* know, and a quantity given under either name.                           *)
TableSound(c) ==
  IF "rows" \in DOMAIN c
  THEN LET legs == S!DfToPosition(c.rows)
       IN  /\ S!DfToPosition(S!PositionToLegsDf(legs)) = legs
           /\ \A i \in DOMAIN legs : legs[i].side \in {"long", "short"} /\ legs[i].cp \in Both
  ELSE S!LegFault(c.raw) = "ok" =>
         LET leg == S!Leg(c.raw)
         IN  /\ leg.side = "long" <=> c.raw.side = <<"Long">>
             /\ leg.cp = "PUT" <=> c.raw.cp \in {<<>>, <<"">>}
             /\ leg.quantity \in {0, 3} <=> c.raw.qty # <<>>
-----------------------------------------------------------------------------
Quote(strike, cp, price, quoted) ==
  IF quoted THEN [strike |-> strike, cp |-> cp, price |-> 9, bid |-> price - 1, ask |-> price + 1]
  ELSE [strike |-> strike, cp |-> cp, price |-> price]
(* A chain with a price per strike for calls and another for puts.         *)
Chain(strikes, calls, puts, quoted) ==
  [i \in DOMAIN strikes |-> Quote(strikes[i], "CALL", calls[i], quoted)]
  \o [i \in DOMAIN strikes |-> Quote(strikes[i], "PUT", puts[i], quoted)]
Few == {<<8, 10, 12>>, <<8, 10, 13>>, <<7, 10, 12>>}
ButterflyCases ==
  {[tool |-> "butterfly", chain |-> ch, k |-> k, cp |-> cp] :
     ch \in {Chain(s, p, <<3, 1, 4>>, q) : s \in Few, p \in [1..3 -> {1, 2, 4}], q \in BOOLEAN},
     cp \in {"CALL"}, k \in {<<8, 10, 12>>, <<8, 10, 13>>, <<7, 10, 12>>, <<8, 8, 10>>, <<10, 8, 12>>}}
  \cup {[tool |-> "butterfly", chain |-> ch, k |-> k, cp |-> "PUT"] :
     ch \in {Chain(s, <<3, 1, 4>>, p, FALSE) : s \in Few, p \in [1..3 -> {1, 2, 4}]}, k \in Few}
  \cup UNION {[tool : {"butterfly"}, chain : {ch}, k : M!ButterflyChoices(ch), cp : Both] :
     ch \in {<<>>, Chain(<<8, 10>>, <<2, 1>>, <<1, 2>>, FALSE), Chain(<<8, 10, 12>>, <<4, 2, 1>>, <<1, 2, 4>>, FALSE)}}
StraddleCases == [tool : {"straddle"}, k : {8, 10, 11}, chain :
  {<<>>} \cup {Chain(<<8, 10>>, p, <<a, 2>>, q) : p \in [1..2 -> {1, 2, 4}], a \in {1, 5}, q \in BOOLEAN}]
VerticalCases == UNION {[tool : {"vertical"}, chain : {ch}, k : M!VerticalChoices(ch), cp : Both] :
  ch \in {<<>>, Chain(<<8>>, <<1>>, <<1>>, FALSE), Chain(<<8, 10, 13>>, <<1, 1, 1>>, <<1, 1, 1>>, FALSE)}}
CondorCases == {[tool |-> "condor", chain |-> ch, k |-> k] :
  ch \in {Chain(<<8, 10, 12, 15>>, c, p, FALSE) : c \in {<<5, 4, 3, 1>>, <<6, 3, 2, 2>>}, p \in {<<1, 2, 4, 5>>, <<1, 3, 4, 6>>}},
  k \in [1..4 -> {8, 10, 12, 15}]} \cup {[tool |-> "condor", chain |-> <<>>, k |-> <<8, 8, 8, 8>>]}
MetricsCases == ButterflyCases \cup StraddleCases \cup VerticalCases \cup CondorCases

Factor == 2
Bought(cp, strike, price) == [side |-> "long", cp |-> cp, strike |-> strike, quantity |-> 1, premium |-> price]
Sold(cp, strike, price) == [Bought(cp, strike, price) EXCEPT !.side = "short"]
Mid(c, strike, cp) == M!FindMidPrice(c.chain, strike, cp)
(* The figures against the profit or loss of the same legs at every price. *)
(* They are exact for straddles, for condors in order and for butterflies  *)
(* with equal wings; with unequal wings a butterfly loses more than the    *)
(* figure by the difference of the wings; the short butterfly's figures    *)
(* count its premium with the wrong sign, so that twice the premium and    *)
(* less than a step of the grid part its loss from the true one; and of a  *)
(* vertical's two figures exactly one is ever reached.                     *)
StraddleSound(c) == M!StraddleFault(c.chain, c.k) = "ok" =>
  LET legs == <<Bought("CALL", c.k, Mid(c, c.k, "CALL")), Bought("PUT", c.k, Mid(c, c.k, "PUT"))>>
      long == M!StraddleMetrics(c.chain, c.k, Factor)
      short == M!ShortStraddleMetrics(c.chain, c.k, Factor)
  IN  /\ long.max_loss = Factor * Least(Outcomes(legs, 30))
      /\ \A be \in {long.lower_be, long.upper_be} : be >= 0 => S!PayoffPosition(legs, be) = 0
      /\ short.max_profit = -long.max_loss /\ short.max_loss_tenths = -long.max_profit_tenths
      /\ <<short.lower_be, short.upper_be>> = <<long.lower_be, long.upper_be>>
ButterflySound(c) == M!ButterflyFault(c.chain, c.k, c.cp) = "ok" =>
  LET price(i) == Mid(c, c.k[i], c.cp)
      legs == <<Bought(c.cp, c.k[1], price(1)), [Sold(c.cp, c.k[2], price(2)) EXCEPT !.quantity = 2],
                Bought(c.cp, c.k[3], price(3))>>
      long == M!ButterflyMetrics(c.chain, c.k, c.cp, Factor)
      short == M!ShortButterflyMetrics(c.chain, c.k, c.cp, Factor)
      lower == c.k[2] - c.k[1]
      upper == c.k[3] - c.k[2]
      worst == Factor * Least(Outcomes(legs, 30))
      best == Factor * Greatest(Outcomes(legs, 30))
      step == 12 * M!Max(M!Strikes(c.chain)) - 8 * M!Min(M!Strikes(c.chain))
      debit == M!ButterflyDebit(c.chain, c.k, c.cp)
      missed == short.max_loss_fine + M!Fine(400) * (best + 2 * Factor * debit)
  IN  /\ long.max_loss - worst = Factor * M!Gain(IF c.cp = "CALL" THEN upper - lower ELSE lower - upper)
      /\ lower = upper => /\ long.max_profit = M!Gain(best)
                          /\ short.max_profit = worst
                          /\ (worst < 0 /\ best > 0) =>
                               /\ \A be \in {long.lower_be, long.upper_be} : S!PayoffPosition(legs, be) = 0
                               /\ short.lower_be + 2 * debit = long.lower_be
                               /\ short.upper_be - 2 * debit = long.upper_be
      /\ 0 <= missed /\ missed <= Factor * step
VerticalSound(c) == M!VerticalFault(c.chain, c.k[1], c.k[2]) = "ok" =>
  LET all == {M!VerticalAt(c.cp, c.k[1], c.k[2], s) : s \in 0..20}
      shown == M!VerticalMetrics(c.k[1], c.k[2], 1)
  IN  /\ \A y \in all : shown.max_loss <= y /\ y <= shown.max_profit
      /\ (shown.max_profit \in all) # (shown.max_loss \in all)
CondorSound(c) == M!CondorFault(c.chain, c.k[1], c.k[2], c.k[3], c.k[4]) = "ok" =>
  LET legs == <<Sold("PUT", c.k[1], Mid(c, c.k[1], "PUT")), Bought("PUT", c.k[2], Mid(c, c.k[2], "PUT")),
                Sold("CALL", c.k[3], Mid(c, c.k[3], "CALL")), Bought("CALL", c.k[4], Mid(c, c.k[4], "CALL"))>>
      shown == M!IronCondorMetrics(c.chain, c.k[1], c.k[2], c.k[3], c.k[4], Factor)
      worst == Least(Outcomes(legs, 30))
  IN  /\ \A s \in {0, 9, 12, 20} : S!PayoffPosition(legs, s) =
           M!CondorAt(shown.net_credit, c.k[1], c.k[2], c.k[3], c.k[4], s)
      /\ (c.k[2] < c.k[1] /\ c.k[1] <= c.k[3] /\ c.k[3] < c.k[4]) =>
        /\ shown.max_profit = Factor * Greatest(Outcomes(legs, 30))
        /\ shown.max_loss = Factor * M!Gain(-worst)
        /\ (0 <= shown.net_credit /\ shown.net_credit <= c.k[1] - c.k[2]) =>
             S!PayoffPosition(legs, shown.lower_be) = 0
        /\ (0 <= shown.net_credit /\ shown.net_credit <= c.k[4] - c.k[3]) =>
             S!PayoffPosition(legs, shown.upper_be) = 0
MetricsSound(c) ==
  CASE c.tool = "straddle" -> StraddleSound(c)
    [] c.tool = "butterfly" -> ButterflySound(c)
    [] c.tool = "vertical" -> VerticalSound(c)
    [] c.tool = "condor" -> CondorSound(c)
=============================================================================
