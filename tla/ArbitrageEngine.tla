--------------------------- MODULE ArbitrageEngine ---------------------------
(***************************************************************************)
(* What a scan computes from its quotes, as pure operators: the validation *)
(* of a quote, the two-leg search of the session, the enumeration of every *)
(* pair, the readiness check and the execution gate.  A quote is a record  *)
(* [symbol, venue, bid, ask, size, fee] of small integers; None is -1,     *)
(* which no valid quote holds.  Fees count in Unit-ths (10000 in the code) *)
(* so edges, in Unit-ths of the price, stay integers.                      *)
(***************************************************************************)
EXTENDS Integers, Sequences, FiniteSets, SequencesExt, FiniteSetsExt

None == -1
Unit == 10

Lex(a, b) ==     \* a comes before b, as Python compares tuples
  \E i \in DOMAIN a : a[i] < b[i] /\ \A j \in 1..(i - 1) : a[j] = b[j]
(* The members of S in the order of their keys, which all differ.          *)
Ordered(S, Key(_)) == [k \in 1..Cardinality(S) |->
  CHOOSE x \in S : Cardinality({y \in S : Lex(Key(y), Key(x))}) = k - 1]
-----------------------------------------------------------------------------
(* Quotes: the lenient validation reports, the strict schema refuses.      *)

QuoteErrors(q) ==
  {e \in {"bid missing", "ask missing", "bid negative", "ask negative", "crossed",
          "size negative", "fees missing"} :
    \/ e = "bid missing" /\ q.bid = None
    \/ e = "ask missing" /\ q.ask = None
    \/ e = "bid negative" /\ q.bid < None
    \/ e = "ask negative" /\ q.ask < None
    \/ e = "crossed" /\ q.bid # None /\ q.ask # None /\ q.bid > q.ask
    \/ e = "size negative" /\ q.size < None
    \/ e = "fees missing" /\ q.fee = None}
Valid(q) == QuoteErrors(q) = {}
Kept(quotes) == SelectSeq(quotes, Valid)
HasLiquidity(q) == q.bid > 0 /\ q.ask > 0
-----------------------------------------------------------------------------
(* One two-leg trade: buy at the ask of one quote, sell at the bid of      *)
(* another.                                                                *)

NetEdge(buy, sell) == sell.bid * (Unit - sell.fee) - buy.ask * (Unit + buy.fee)
EdgeBelow(buy, sell, bps) == NetEdge(buy, sell) < bps * buy.ask
Sizes(buy, sell) == {n \in {buy.size, sell.size} : n > 0}
Size(buy, sell, cfg) ==
  IF Sizes(buy, sell) = {} THEN cfg.defaultSize ELSE Min(Sizes(buy, sell))
Worthwhile(buy, sell, cfg) ==
  /\ sell.bid > buy.ask
  /\ ~ EdgeBelow(buy, sell, cfg.minEdge)
  /\ Size(buy, sell, cfg) >= cfg.minSize
Trade(buy, sell, cfg) ==
  [symbol |-> buy.symbol, buy |-> buy, sell |-> sell, size |-> Size(buy, sell, cfg)]

OfSymbol(quotes, s) == SelectSeq(quotes, LAMBDA q : q.symbol = s /\ HasLiquidity(q))
SymbolsOf(quotes) == {quotes[i].symbol : i \in DOMAIN quotes}
(* Mutant: the best bid is the lowest.                                     *)
LowestBid(qs) == qs[CHOOSE i \in DOMAIN qs : \A j \in DOMAIN qs : qs[j].bid >= qs[i].bid]
(* max() and min() return the first of equals.                             *)
BestBid(qs) == qs[CHOOSE i \in DOMAIN qs :
  /\ \A j \in DOMAIN qs : qs[j].bid <= qs[i].bid
  /\ \A j \in 1..(i - 1) : qs[j].bid < qs[i].bid]
BestAsk(qs) == qs[CHOOSE i \in DOMAIN qs :
  /\ \A j \in DOMAIN qs : qs[j].ask >= qs[i].ask
  /\ \A j \in 1..(i - 1) : qs[j].ask > qs[i].ask]

FindCrossVenue(quotes, cfg) ==
  {t \in {Trade(BestAsk(OfSymbol(quotes, s)), BestBid(OfSymbol(quotes, s)), cfg) :
            s \in {x \in SymbolsOf(quotes) : Len(OfSymbol(quotes, x)) >= 2}} :
     /\ cfg.sameVenue \/ t.buy.venue # t.sell.venue
     /\ Worthwhile(t.buy, t.sell, cfg)}

(* Every pair of quotes of a symbol, in the order of the sort key.         *)
Space(quotes, cfg) ==
  LET liquid == SelectSeq(quotes, HasLiquidity)
      QuoteKey(i) == <<liquid[i].symbol, liquid[i].venue, liquid[i].ask, liquid[i].bid, i>>
      order == Ordered(DOMAIN liquid, QuoteKey)
      qs == [k \in DOMAIN order |-> liquid[order[k]]]
      pairs == {p \in (DOMAIN qs) \X (DOMAIN qs) :
                  LET buy == qs[p[1]]  sell == qs[p[2]] IN
                  /\ buy.symbol = sell.symbol /\ Len(OfSymbol(quotes, buy.symbol)) >= 2
                  /\ cfg.sameVenue \/ buy.venue # sell.venue
                  /\ Worthwhile(buy, sell, cfg)}
      PairKey(p) == <<qs[p[1]].symbol, qs[p[1]].venue, qs[p[2]].venue, qs[p[1]].ask,
                      qs[p[2]].bid, p[1], p[2]>>
      sorted == Ordered(pairs, PairKey)
  IN  [k \in DOMAIN sorted |-> Trade(qs[sorted[k][1]], qs[sorted[k][2]], cfg)]
-----------------------------------------------------------------------------
(* Readiness: soft reasons against an opportunity.                         *)
ReadinessReasons(t, limits) ==
  {r \in {"edge_below_threshold", "size_below_threshold"} :
    \/ r = "edge_below_threshold" /\ EdgeBelow(t.buy, t.sell, limits.minEdge)
    \/ r = "size_below_threshold" /\ t.size < limits.minSize}
DefaultLimits(cfg) == [minEdge |-> cfg.minEdge, minSize |-> cfg.minSize]

(* The execution gate: the first reason that applies.  Spreads compare in  *)
(* Unit-ths of the mid, doubled to stay integers.                          *)
SpreadAbove(q, bps) == 2 * Unit * (q.ask - q.bid) > bps * (q.ask + q.bid)
Spreadable(quotes) == {i \in DOMAIN quotes : HasLiquidity(quotes[i])}
TooWide(quotes, bps) ==
  \/ Spreadable(quotes) = {}
  \/ \E i \in Spreadable(quotes) : SpreadAbove(quotes[i], bps)
Notional(t) == t.buy.ask * t.size
Gate(t, quotes, age, c) ==
  IF EdgeBelow(t.buy, t.sell, c.minEdge) THEN "EDGE_TOO_SMALL"
  ELSE IF c.maxAge # None /\ (age = None \/ age > c.maxAge) THEN "QUOTE_TOO_OLD"
  ELSE IF c.maxSpread # None /\ TooWide(quotes, c.maxSpread) THEN "SPREAD_TOO_WIDE"
  ELSE IF c.maxNotional # None /\ Notional(t) > c.maxNotional THEN "NOTIONAL_TOO_LARGE"
  ELSE "PASS"

(* The gate as the session calls it: the quotes are as old as the snapshot *)
(* that holds them, and neither spread nor notional is limited.            *)
SessionGate(t, quotes, cfg) ==
  Gate(t, quotes, 0, [minEdge |-> cfg.minEdge, maxAge |-> cfg.maxLatency,
                      maxSpread |-> None, maxNotional |-> None])

(* The id of an opportunity: prices in the base currency, cut down to the  *)
(* tick below.                                                             *)
OpportunityId(t, rate, tick) ==
  <<t.symbol, t.buy.venue, t.sell.venue, (rate * t.buy.ask) \div tick, (rate * t.sell.bid) \div tick>>
=============================================================================
