-------------------------- MODULE OpportunitySpace --------------------------
(***************************************************************************)
(* What is done with the options of an opportunity space: feasibility      *)
(* under a context of limits, Pareto ranking, and the scores and reasons a *)
(* session's recommendations carry.  An option is a record [buy, sell,     *)
(* edge, price, size, fees, asOf] of small integers; None is -1.           *)
(***************************************************************************)
EXTENDS Integers, Sequences, FiniteSets, SequencesExt, FiniteSetsExt

None == -1
Limits(c, v) == c # None /\ v > c     \* an upper limit that is set and exceeded
-----------------------------------------------------------------------------
(* Feasibility: HARD violations refuse an option, SOFT ones only under     *)
(* strict.  Lot and tick are whole numbers here, so alignment is exact.    *)

Value(o) == o.price * o.size
HardViolations(o, ctx) ==
  {v \in {"BUY_VENUE_NOT_ALLOWED", "SELL_VENUE_NOT_ALLOWED", "NOTIONAL_TOO_SMALL",
          "NOTIONAL_TOO_LARGE"} :
    \/ v = "BUY_VENUE_NOT_ALLOWED" /\ o.buy \notin ctx.venues
    \/ v = "SELL_VENUE_NOT_ALLOWED" /\ o.sell \notin ctx.venues
    \/ v = "NOTIONAL_TOO_SMALL" /\ ctx.minNotional # None /\ Value(o) < ctx.minNotional
    \/ v = "NOTIONAL_TOO_LARGE" /\ Limits(ctx.maxNotional, Value(o))}
StaleAfter == 5
SoftViolations(o, ctx) ==
  {v \in {"LOT_SIZE_MISMATCH", "TICK_SIZE_MISMATCH", "SPREAD_EXCEEDS_MAX",
          "MISSING_SLIPPAGE_METRICS", "MISSING_NOW", "MISSING_OPTION_TIMESTAMP",
          "STALE_OPTION"} :
    \/ v = "LOT_SIZE_MISMATCH" /\ ctx.lot # None /\ o.size % ctx.lot # 0
    \/ v = "TICK_SIZE_MISMATCH" /\ ctx.tick # None /\ o.price % ctx.tick # 0
    \/ v = "SPREAD_EXCEEDS_MAX" /\ Limits(ctx.maxSpread, o.edge)
    \/ v = "MISSING_SLIPPAGE_METRICS" /\ ctx.maxSlippage # None
    \/ v = "MISSING_NOW" /\ ctx.now = None
    \/ v = "MISSING_OPTION_TIMESTAMP" /\ ctx.now # None /\ o.asOf = None
    \/ v = "STALE_OPTION" /\ ctx.now # None /\ o.asOf # None
                          /\ ctx.now - o.asOf > StaleAfter}
Passes(o, ctx, strict) ==
  HardViolations(o, ctx) = {} /\ (strict => SoftViolations(o, ctx) = {})
Feasible(options, ctx, strict) == SelectSeq(options, LAMBDA o : Passes(o, ctx, strict))
-----------------------------------------------------------------------------
(* Ranking.  A dimension is [name, dir]; cfg.eps is its tolerance.         *)

Dim(o, name) ==
  CASE name = "edge_bps" -> o.edge [] name = "spread_bps" -> o.edge
    [] name = "notional" -> Value(o) [] name = "fees_bps" -> o.fees
    [] OTHER -> None                      \* latency and slippage are not known
Compare(a, b, dir, eps) ==
  IF a = None /\ b = None THEN 0 ELSE IF a = None THEN -1 ELSE IF b = None THEN 1
  ELSE IF a - b <= eps /\ b - a <= eps THEN 0
  ELSE IF (a > b) <=> (dir = "max") THEN 1 ELSE -1
Against(a, b, d, cfg) == Compare(Dim(a, d.name), Dim(b, d.name), d.dir, cfg.eps)
Dominates(a, b, cfg) ==
  /\ \A i \in DOMAIN cfg.dims : Against(a, b, cfg.dims[i], cfg) # -1
  /\ \E i \in DOMAIN cfg.dims : Against(a, b, cfg.dims[i], cfg) = 1

(* Mutant: a new option never pushes another one out.                      *)
AdmitOnly(frontier, o, cfg) ==
  IF \E i \in DOMAIN frontier : Dominates(frontier[i], o, cfg) THEN frontier
  ELSE Append(frontier, o)
(* One pass over the options: an option leaves out what it dominates, and  *)
(* stays unless the frontier so far dominates it.                          *)
Spared(frontier, o, cfg) ==
  FoldLeft(LAMBDA left, f : IF Dominates(o, f, cfg) THEN left ELSE Append(left, f), <<>>, frontier)
Admit(frontier, o, cfg) ==
  IF \E i \in DOMAIN frontier : Dominates(frontier[i], o, cfg) THEN frontier
  ELSE Append(Spared(frontier, o, cfg), o)
Frontier(options, cfg) == FoldLeft(LAMBDA f, o : Admit(f, o, cfg), <<>>, options)

(* Descending by edge and notional; latency is unknown, so equal for all;  *)
(* the index is part of the key and reversed with it, so equals come out   *)
(* last first.                                                             *)
Ranked(seq) ==
  LET Above(i, j) == \/ seq[i].edge > seq[j].edge
                     \/ seq[i].edge = seq[j].edge /\
                          (Value(seq[i]) > Value(seq[j]) \/ (Value(seq[i]) = Value(seq[j]) /\ i > j))
      order == [k \in DOMAIN seq |->
                  CHOOSE i \in DOMAIN seq : Cardinality({j \in DOMAIN seq : Above(j, i)}) = k - 1]
  IN  [k \in DOMAIN order |-> seq[order[k]]]
Rank(options, cfg) ==
  LET best == Frontier(options, cfg)
      rest == SelectSeq(options, LAMBDA o : o \notin ToSet(best))
      all == Ranked(best) \o Ranked(rest)
  IN  SubSeq(all, 1, Min({Len(all), cfg.maxResults}))

(* Why an option is not on the frontier: the first frontier option that    *)
(* dominates it and the dimensions it wins on.                             *)
DominatedBy(o, options, cfg) ==
  LET f == Frontier(options, cfg)
      by == {i \in DOMAIN f : Dominates(f[i], o, cfg)}
  IN  IF o \in ToSet(f) \/ by = {} THEN <<>>
      ELSE <<f[Min(by)], {i \in DOMAIN cfg.dims : Against(f[Min(by)], o, cfg.dims[i], cfg) = 1}>>
-----------------------------------------------------------------------------
(* Signals of an opportunity at a time, its score and its reasons.  Times  *)
(* in seconds; the score in thousandths, stability in tenths.              *)

Signals(edges, lifecycle, netEdge, now) ==
  LET n == Len(edges)
      drift == IF n >= 2 /\ edges[n] # 0
               THEN 10 - (10 * Max({edges[n] - edges[n-1], edges[n-1] - edges[n]}))
                           \div Max({edges[n], -edges[n]})
               ELSE 10
  IN  [freshness |-> now - lifecycle.last, age |-> now - lifecycle.first,
       seen |-> lifecycle.count, stability |-> drift, netEdge |-> netEdge]
Clamp(v, low, high) == Max({low, Min({v, high})})
Score(s) ==
  Clamp(Max({s.netEdge, 0}) + 30 * Max({s.stability, 0}) - 2 * Min({s.freshness, 60}), 0, 1000)
Reasons(s) ==
  {IF s.freshness < 10 THEN "FRESH_QUOTES" ELSE "STALE_QUOTES",
   IF s.stability >= 8 THEN "STABLE_EDGE" ELSE "UNSTABLE_EDGE",
   IF s.netEdge > 0 THEN "NET_EDGE_OK" ELSE "NET_EDGE_LOW",
   IF s.seen <= 1 THEN "NEW_OPPORTUNITY" ELSE "PERSISTENT_OPPORTUNITY"}
=============================================================================
