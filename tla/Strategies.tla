----------------------------- MODULE Strategies -----------------------------
(***************************************************************************)
(* Option positions of the strategy workspace: the legs, their profit or   *)
(* loss at expiry, the name the detector gives a position, the warnings it *)
(* gets and the positions the engine suggests.  Prices are integers in     *)
(* units of which Unit make one of the currency; floats are exact here.    *)
(***************************************************************************)
EXTENDS Common, SequencesExt

(* A leg as the constructor takes it: side or direction, cp or kind, qty   *)
(* or quantity; <<>> stands for None, and an empty string counts as none.  *)
Lower(s) == IF s \in {"long", "Long"} THEN "long" ELSE IF s \in {"short", "Short"} THEN "short" ELSE s
Upper(s) == IF s \in {"CALL", "call"} THEN "CALL" ELSE IF s \in {"PUT", "put"} THEN "PUT" ELSE s
Or(a, b) == IF a \in {<<>>, <<"">>} THEN b ELSE a
LegFault(o) == FirstFault(<<
  <<"TypeError", Or(o.side, o.direction) = <<>> >>,
  <<"ValueError", \A s \in {Or(o.side, o.direction)} : s = <<>> \/ Lower(s[1]) \notin {"long", "short"}>>,
  <<"TypeError", Or(o.cp, o.kind) = <<>> >>,
  <<"ValueError", \A c \in {Or(o.cp, o.kind)} : c = <<>> \/ Upper(c[1]) \notin {"CALL", "PUT"}>> >>)
Leg(o) == [side |-> Lower(Or(o.side, o.direction)[1]), cp |-> Upper(Or(o.cp, o.kind)[1]), strike |-> o.strike,
           quantity |-> IF o.qty # <<>> THEN o.qty[1] ELSE o.quantity, premium |-> o.premium]

(* The table of the builder tab: a position as rows, and rows as a         *)
(* position, where a row without side, type or strike is dropped and a bad *)
(* quantity or premium is 1 or 0.                                          *)
PositionToLegsDf(legs) == [i \in DOMAIN legs |->
  [side |-> legs[i].side, cp |-> legs[i].cp, strike |-> <<legs[i].strike>>,
   quantity |-> <<legs[i].quantity>>, premium |-> <<legs[i].premium>>]]
Number(v, default) == IF v = <<>> THEN default ELSE v[1]
RowLeg(row) == Leg([side |-> <<Lower(row.side)>>, direction |-> <<>>, cp |-> <<Upper(row.cp)>>, kind |-> <<>>,
  strike |-> row.strike[1], qty |-> <<>>, quantity |-> Number(row.quantity, 1), premium |-> Number(row.premium, 0)])
DfToPosition(rows) ==
  LET Kept(row) == Lower(row.side) \in {"long", "short"} /\ Upper(row.cp) \in {"CALL", "PUT"} /\ row.strike # <<>>
      kept == SelectSeq(rows, Kept)
  IN  Evaluated([i \in DOMAIN kept |-> RowLeg(kept[i])])

Total(legs, Of(_)) == FoldLeft(LAMBDA sum, leg : sum + Of(leg), 0, legs)
-----------------------------------------------------------------------------
(* Profit or loss at expiry, on a grid of prices around the spot.          *)
Intrinsic(cp, strike, price) ==
  LET gain == IF cp = "CALL" THEN price - strike ELSE strike - price IN IF gain > 0 THEN gain ELSE 0
PayoffLeg(leg, price) ==
  (IF leg.side = "long" THEN Intrinsic(leg.cp, leg.strike, price) - leg.premium
   ELSE leg.premium - Intrinsic(leg.cp, leg.strike, price)) * leg.quantity
PayoffPosition(legs, price) == Total(legs, LAMBDA leg : PayoffLeg(leg, price))

(* Bounds in thousandths of the center; the grids used come out exact.     *)
GeneratePriceRange(center, lower, upper, points) == Evaluated([i \in 1..points |->
  (lower * center * (points - 1) + (upper - lower) * center * (i - 1)) \div (1000 * (points - 1))])
GeneratePayoffCurve(legs, prices) == Evaluated([i \in DOMAIN prices |-> PayoffPosition(legs, prices[i])])
(* A break-even is a fraction <<x, d>>, the price x / d.                   *)
BreakEvenPoints(prices, pl) ==
  LET Slope(i) == pl[i + 1] - pl[i]
      Crossed(i) == pl[i] * pl[i + 1] < 0
      At(i) == LET x == prices[i] * Slope(i) - pl[i] * (prices[i + 1] - prices[i])
               IN  IF Slope(i) > 0 THEN <<x, Slope(i)>> ELSE <<-x, -Slope(i)>>
      inner == 1..(Len(prices) - 1)
  IN  {<<prices[i], 1>> : i \in {j \in inner : pl[j] = 0}} \cup {At(i) : i \in {j \in inner : Crossed(j)}}
SummarizePositionPl(legs, center, lower, upper, points) ==
  LET prices == GeneratePriceRange(center, lower, upper, points)
      pl == GeneratePayoffCurve(legs, prices)
      all == {pl[i] : i \in DOMAIN pl}
  IN  [max_profit |-> CHOOSE y \in all : \A z \in all : z <= y,
       max_loss |-> CHOOSE y \in all : \A z \in all : y <= z,
       break_even_points |-> BreakEvenPoints(prices, pl)]
-----------------------------------------------------------------------------
(* The detector: the first pattern that fits.                              *)
SignedQuantity(leg) == IF leg.side = "long" THEN leg.quantity ELSE -leg.quantity
IsVerticalSpread(legs) == /\ Len(legs) = 2
                          /\ legs[1].cp = legs[2].cp
                          /\ legs[1].side # legs[2].side
                          /\ legs[1].strike # legs[2].strike
ByStrike(legs) == StableSort(legs, LAMBDA leg : <<leg.strike>>)
(* Net premium counts what is bought as received.                          *)
VerticalInfo(legs) ==
  LET two == ByStrike(legs)
  IN  [credit |-> Total(legs, LAMBDA leg : SignedQuantity(leg) * leg.premium) > 0,
       bullish |-> IF two[1].cp = "CALL" THEN two[1].side = "long" ELSE two[2].side = "short"]
OfType(legs, cp) == SelectSeq(legs, LAMBDA leg : leg.cp = cp)
IsIronCondorLike(legs) ==
  LET calls == ByStrike(OfType(legs, "CALL"))
      puts == ByStrike(OfType(legs, "PUT"))
  IN  /\ Len(calls) = 2 /\ Len(puts) = 2
      /\ calls[1].side # calls[2].side /\ puts[1].side # puts[2].side
      /\ puts[1].strike < puts[2].strike /\ puts[2].strike < calls[1].strike
      /\ calls[1].strike < calls[2].strike
(* What opening the position brings in; the condor's sign convention.      *)
NetCredit(legs) == Total(legs, LAMBDA leg : -SignedQuantity(leg) * leg.premium)
CallAndPut(legs) == Len(legs) = 2 /\ legs[1].cp # legs[2].cp
                    /\ legs[1].side = legs[2].side /\ legs[1].quantity = legs[2].quantity
IsStraddle(legs) == CallAndPut(legs) /\ legs[1].strike = legs[2].strike
IsStrangle(legs) == CallAndPut(legs) /\ legs[1].strike # legs[2].strike
Side(legs, side) == Total(SelectSeq(legs, LAMBDA leg : leg.side = side), LAMBDA leg : leg.quantity)
IsRatioSpread(legs) == /\ Len(legs) >= 2
                       /\ Cardinality({legs[i].cp : i \in DOMAIN legs}) = 1
                       /\ Side(legs, "long") # 0 /\ Side(legs, "short") # 0
                       /\ Side(legs, "long") # Side(legs, "short")

Info(name, cp, direction, money, limited) ==
  [name |-> name, cp |-> cp, direction |-> direction, money |-> money, limited |-> limited]
LongOrShort(legs) == IF legs[1].side = "long" THEN "Long" ELSE "Short"
SingleInfo(legs) == Info("Single", legs[1].cp, LongOrShort(legs), "", FALSE)
VerticalSpreadInfo(legs) ==
  LET v == VerticalInfo(legs)
  IN  Info("Vertical Spread", legs[1].cp, IF v.bullish THEN "Bullish" ELSE "Bearish",
           IF v.credit THEN "Credit" ELSE "Debit", TRUE)
ShortStrikes(legs) == {legs[i].strike : i \in {j \in DOMAIN legs : legs[j].side = "short"}}
IronCondorInfo(legs) == Info(IF Cardinality(ShortStrikes(legs)) = 1 THEN "Iron Butterfly" ELSE "Iron Condor", "", "",
                             IF NetCredit(legs) > 0 THEN "Credit" ELSE "Debit", TRUE)
StraddleInfo(legs) == Info("Straddle", "", LongOrShort(legs), "", legs[1].side = "long")
StrangleInfo(legs) == Info("Strangle", "", LongOrShort(legs), "", FALSE)
RatioInfo(legs) == Info("Ratio Spread", legs[1].cp, "", "", FALSE)
Detect(legs) ==
  IF legs = <<>> THEN Info("No position", "", "", "", FALSE)
  ELSE IF Len(legs) = 1 THEN SingleInfo(legs)
  ELSE IF IsVerticalSpread(legs) THEN VerticalSpreadInfo(legs)
  ELSE IF Len(legs) = 4 /\ IsIronCondorLike(legs) THEN IronCondorInfo(legs)
  ELSE IF IsStraddle(legs) THEN StraddleInfo(legs)
  ELSE IF IsStrangle(legs) THEN StrangleInfo(legs)
  ELSE IF IsRatioSpread(legs) THEN RatioInfo(legs)
  ELSE Info("Custom / Complex Position", "", "", "", FALSE)
-----------------------------------------------------------------------------
(* Warnings.  A short leg is covered by the long legs of its type on the   *)
(* far side of its strike, and two short legs may count the same long one. *)
Covering(legs, short) == SelectSeq(legs, LAMBDA leg : /\ leg.side = "long" /\ leg.cp = short.cp
                                                      /\ IF short.cp = "CALL" THEN leg.strike >= short.strike
                                                         ELSE leg.strike <= short.strike)
Uncovered(legs, cp) == \E i \in DOMAIN legs : /\ legs[i].side = "short" /\ legs[i].cp = cp
                                              /\ Side(Covering(legs, legs[i]), "long") < legs[i].quantity
Limits == [delta |-> 200, gamma |-> 1, vega |-> 200, theta |-> 200]
(* The nearest break-even, a fraction, is less than 2 % of the spot away.  *)
CloseBreakEven(spot, points) == spot > 0 /\ \E p \in points :
  LET away == p[1] - spot * p[2] IN 50 * (IF away < 0 THEN -away ELSE away) < spot * p[2]
PositionWarnings(legs, spot, greeks, points) ==
  IF legs = <<>> THEN {}
  ELSE (IF Side(legs, "long") # Side(legs, "short") THEN {"unbalanced"} ELSE {})
       \cup (IF Uncovered(legs, "CALL") THEN {"naked call"} ELSE {})
       \cup (IF Uncovered(legs, "PUT") THEN {"naked put"} ELSE {})
       \cup {g \in DOMAIN greeks : greeks[g] > Limits[g] \/ greeks[g] < -Limits[g]}
       \cup (IF CloseBreakEven(spot, points) THEN {"close break-even"} ELSE {})
-----------------------------------------------------------------------------
(* The engine's suggestions.  Offsets and widths in thousandths of the     *)
(* spot; a premium is never based on less than one of the currency.        *)
Clamped(agg) == IF agg < 0 THEN 0 ELSE IF agg > 10 THEN 10 ELSE agg
Pm(spot, thousandths) == (spot * thousandths) \div 1000
AtLeast(x, y) == IF x > y THEN x ELSE y
Of(side, cp, strike, premium) == [side |-> side, cp |-> cp, strike |-> strike, quantity |-> 1, premium |-> premium]
MakeVerticalSpread(spot, unit, cp, credit, width, agg) ==
  LET offset == 60 - 5 * Clamped(agg)
      away == IF cp = "PUT" THEN -1 ELSE 1
      near == spot + away * Pm(spot, offset)
      far == near + away * Pm(spot, width)
      base == AtLeast(Pm(spot, width) \div 4, unit)
      dear == (6 * base) \div 5
      cheap == (3 * base) \div 5
  IN  IF credit THEN <<Of("short", cp, near, dear), Of("long", cp, far, cheap)>>
      ELSE <<Of("long", cp, near, cheap), Of("short", cp, far, dear)>>
(* Mutant: the wings move inwards.                                         *)
MakeIronCondorInwards(spot, unit, inner, outer, agg) ==
  LET Moved(legs, away) == [legs EXCEPT ![2].strike = @ - away * Pm(spot, outer - inner)]
  IN  Moved(MakeVerticalSpread(spot, unit, "PUT", TRUE, inner, agg), -1)
      \o Moved(MakeVerticalSpread(spot, unit, "CALL", TRUE, inner, agg), 1)
MakeIronCondor(spot, unit, inner, outer, agg) ==
  LET Moved(legs, away) == [legs EXCEPT ![2].strike = @ + away * Pm(spot, outer - inner)]
  IN  Moved(MakeVerticalSpread(spot, unit, "PUT", TRUE, inner, agg), -1)
      \o Moved(MakeVerticalSpread(spot, unit, "CALL", TRUE, inner, agg), 1)
MakeLongStrangle(spot, unit, width, agg) ==
  LET offset == 100 - 6 * Clamped(agg)
      premium == AtLeast((7 * Pm(spot, width)) \div 20, unit)
  IN  <<Of("long", "PUT", spot - Pm(spot, offset), premium), Of("long", "CALL", spot + Pm(spot, offset), premium)>>

(* A view is the set of the telling words its text contains.               *)
ClassifyView(words) ==
  IF "hardly moves" \in words THEN "neutral" ELSE IF "volatile" \in words THEN "volatile"
  ELSE IF "rise" \in words THEN "bullish" ELSE IF "fall" \in words THEN "bearish" ELSE "neutral"
AggressivenessBand(agg) == IF Clamped(agg) <= 3 THEN 1 ELSE IF Clamped(agg) <= 6 THEN 2 ELSE 3
Suggestion(key, legs, spot) == [key |-> key, legs |-> legs, summary |-> SummarizePositionPl(legs, spot, 700, 1300, 201)]
SuggestCondor(view, agg, spot, unit) ==
  LET band == AggressivenessBand(agg) IN
  IF view \notin {"neutral", "volatile"} THEN <<>>
  ELSE <<Suggestion("iron_condor", MakeIronCondor(spot, unit, <<50, 35, 25>>[band], <<90, 70, 50>>[band], agg), spot)>>
SuggestSpread(key, cp, views, view, agg, spot, unit) ==
  IF view \notin views THEN <<>>
  ELSE <<Suggestion(key, MakeVerticalSpread(spot, unit, cp, TRUE, <<30, 40, 50>>[AggressivenessBand(agg)], agg), spot)>>
SuggestStrangle(view, agg, spot, unit) ==
  IF view # "volatile" THEN <<>>
  ELSE <<Suggestion("long_strangle", MakeLongStrangle(spot, unit, <<20, 30, 35>>[AggressivenessBand(agg)], agg), spot)>>
SuggestStrategiesForGoals(words, agg, spot, unit) ==
  LET view == ClassifyView(words)
  IN  SuggestCondor(view, agg, spot, unit)
      \o SuggestSpread("put_credit_spread", "PUT", {"neutral", "bullish"}, view, agg, spot, unit)
      \o SuggestSpread("call_credit_spread", "CALL", {"neutral", "bearish"}, view, agg, spot, unit)
      \o SuggestStrangle(view, agg, spot, unit)
=============================================================================
