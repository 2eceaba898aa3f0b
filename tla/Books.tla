-------------------------------- MODULE Books --------------------------------
(***************************************************************************)
(* The bookkeeping around prices: currency conversion, the totals of a V2  *)
(* portfolio and of a v1 portfolio with their limits, valuation steps over *)
(* a timeline, realized and unrealized profit, the list views of a V2 log  *)
(* and the scenario cache.  Amounts are whole numbers, a rate is a pair    *)
(* <<n, d>> of them, a name is a number in the order of its spelling.      *)
(***************************************************************************)
EXTENDS Common, SequencesExt

Put(f, k, v) == [x \in DOMAIN f \cup {k} |-> IF x = k THEN v ELSE f[x]]
SumOver(s, Amount(_)) == FoldLeft(LAMBDA acc, x : acc + Amount(x), 0, s)
Abs(n) == IF n < 0 THEN -n ELSE n
-----------------------------------------------------------------------------
(* FxConverter: of two rates for a pair the last is kept; a pair is used   *)
(* as it is quoted before its inverse is.                                  *)
Quoted(quotes) == FoldLeft(LAMBDA f, q : Put(f, q.pair, q.rate), <<>>, quotes)
QuotesFault(quotes) ==
  IF \E i \in DOMAIN quotes : quotes[i].rate[1] <= 0 THEN "InvalidFxRateError" ELSE "ok"
RateOf(rates, from, to) ==      \* <<>> when there is none
  IF from = to THEN <<1, 1>> ELSE IF <<from, to>> \in DOMAIN rates THEN rates[<<from, to>>]
  ELSE IF <<to, from>> \in DOMAIN rates THEN <<rates[<<to, from>>][2], rates[<<to, from>>][1]>> ELSE <<>>
Convertible(rates, from, to, strict) == ~ strict \/ RateOf(rates, from, to) # <<>>
Convert(rates, amount, from, to) ==     \* not strict: an amount without a rate as it is
  LET r == RateOf(rates, from, to) IN IF r = <<>> THEN amount ELSE (amount * r[1]) \div r[2]
-----------------------------------------------------------------------------
(* A V2 portfolio is a sequence of positions, each a sequence of legs      *)
(* [leg, underlying, pv, delta, notional, quantity].                       *)
LegsOf(positions) == FlattenSeq([i \in DOMAIN positions |-> positions[i].legs])
Pv(positions) == SumOver(LegsOf(positions), LAMBDA l : l.pv * l.quantity)
NetDelta(positions) == SumOver(LegsOf(positions), LAMBDA l : l.delta * l.quantity)
Underlyings(positions) == {LegsOf(positions)[i].underlying : i \in DOMAIN LegsOf(positions)}
Exposures(positions) == [u \in Underlyings(positions) |->
  LET own == SelectSeq(LegsOf(positions), LAMBDA l : l.underlying = u)
  IN  [absNotional |-> SumOver(own, LAMBDA l : Abs(l.quantity) * l.notional),
       delta |-> SumOver(own, LAMBDA l : l.delta * l.quantity)]]
Totals(positions) == [pv |-> Pv(positions), delta |-> NetDelta(positions), exposures |-> Exposures(positions)]

(* evaluate_constraints of V2: a limit is a sequence of at most one; the   *)
(* concentration is in percent of the gross notional.                      *)
SumOf(ex, Part(_)) == FoldLeft(LAMBDA acc, u : acc + Part(ex[u]), 0, SetToSeq(DOMAIN ex))
V2Breaches(limits, totals) ==
  LET ex == totals.exposures
      gross == SumOf(ex, LAMBDA e : e.absNotional)
      Over(limit, actual) == limit # <<>> /\ actual > limit[1]
      Share(u) == IF gross = 0 THEN 0 ELSE 100 * ex[u].absNotional    \* times the gross
  IN  (IF Over(limits.notional, gross) THEN {<<"max_notional">>} ELSE {})
      \cup (IF Over(limits.delta, SumOf(ex, LAMBDA e : Abs(e.delta))) THEN {<<"max_abs_delta">>} ELSE {})
      \cup {<<"max_concentration_pct", u>> : u \in
             {v \in DOMAIN ex : limits.concentration # <<>> /\
                Share(v) > limits.concentration[1] * (IF gross = 0 THEN 1 ELSE gross)}}
-----------------------------------------------------------------------------
(* A v1 portfolio: positions [key, quantity, ccy, pv, econ], of which econ *)
(* is at most one record of fees and of cash and exposures by name.        *)
(* add replaces the position of the same key; positions are kept by key,   *)
(* and a candidate takes the first execution of each key.                  *)
ByKey(positions) == StableSort(positions, LAMBDA p : <<p.key>>)
Add(positions, p) == ByKey(Append(SelectSeq(positions, LAMBDA q : q.key # p.key), p))
RemoveByKey(positions, key) == SelectSeq(positions, LAMBDA q : q.key # key)
FirstOf(s, Key(_)) ==
  LET keep == {i \in DOMAIN s : \A j \in 1..(i - 1) : Key(s[j]) # Key(s[i])}
  IN  [n \in 1..Cardinality(keep) |-> s[CHOOSE i \in keep : Cardinality({j \in keep : j <= i}) = n]]
Candidate(executions, quantity) ==
  LET ordered == StableSort(executions, LAMBDA e : <<e.key, e.spelled>>)
  IN  ByKey([i \in DOMAIN FirstOf(ordered, LAMBDA e : e.key) |->
               [FirstOf(ordered, LAMBDA e : e.key)[i] EXCEPT !.quantity = quantity]])
Merged(maps) == [k \in UNION {DOMAIN maps[i] : i \in DOMAIN maps} |->
  SumOver(maps, LAMBDA m : IF k \in DOMAIN m THEN m[k] ELSE 0)]
Aggregate(positions) ==
  LET econ == SelectSeq(positions, LAMBDA p : p.econ # <<>>)
  IN  [count |-> Len(positions), quantity |-> SumOver(positions, LAMBDA p : p.quantity),
       fees |-> SumOver(econ, LAMBDA p : p.econ[1].fees),
       cash |-> Merged([i \in DOMAIN econ |-> econ[i].econ[1].cash]),
       exposure |-> Merged([i \in DOMAIN econ |-> econ[i].econ[1].exposure]),
       assets |-> Merged([i \in DOMAIN econ |-> econ[i].econ[1].assets]),
       missing |-> Len(positions) - Len(econ)]

(* A specification of a limit is [kind, limits]; the gross limit looks at  *)
(* the net exposure, as the net limit does.  A kind nobody knows and a     *)
(* name nobody limits are not looked at.                                   *)
Violations(positions, specs) ==
  LET ag == Aggregate(positions)
      At(f, k) == IF k \in DOMAIN f THEN f[k] ELSE 0
      Looked(kind) == CASE kind = "max_cash_usage_by_ccy" -> ag.cash
                        [] kind \in {"max_gross_exposure_by_ccy", "max_net_exposure_by_ccy"} -> ag.exposure
                        [] kind = "max_exposure_by_asset" -> ag.assets
                        [] OTHER -> <<>>
      Known(kind) == kind \in {"max_cash_usage_by_ccy", "max_gross_exposure_by_ccy",
                               "max_net_exposure_by_ccy", "max_exposure_by_asset"}
      Over(s) == IF s.kind = "max_position_count" THEN {k \in {"*"} : ag.count > At(s.limits, k)}
                 ELSE {k \in DOMAIN s.limits : Known(s.kind) /\ Abs(At(Looked(s.kind), k)) > s.limits[k]}
  IN  UNION {{<<s.kind, k>> : k \in Over(s)} : s \in specs}
-----------------------------------------------------------------------------
(* A timeline orders its points by the spelling of their time.             *)
Spelled(t) == IF t < 10 THEN <<t>> ELSE <<t \div 10, t % 10>>
Timeline(points) == StableSort(points, LAMBDA p : Spelled(p.t))

(* One step values every position and converts it to the base currency; a  *)
(* step without any rate has no converter.                                 *)
PositionFault(p, base, quotes) == FirstFault(<<
  <<"no price", p.pv = <<>> >>,
  <<"PricingError", p.ccy # base /\ quotes = <<>> >>,
  <<"MissingFxRateError", ~ Convertible(Quoted(quotes), p.ccy, base, TRUE)>> >>)
StepFault(positions, base, quotes) ==
  FirstNamed(<<QuotesFault(quotes)>> \o [i \in DOMAIN positions |-> PositionFault(positions[i], base, quotes)])
Valuations(positions, base, quotes) == ByKey([i \in DOMAIN positions |->
  LET p == positions[i]
  IN  [key |-> p.key, pv |-> Convert(Quoted(quotes), p.pv[1] * p.quantity, p.ccy, base)]])
Step(positions, base, quotes, specs) ==
  LET violations == Violations(positions, specs)
      missing == Aggregate(positions).missing
  IN  [valuations |-> Valuations(positions, base, quotes),
       total |-> SumOver(Valuations(positions, base, quotes), LAMBDA v : v.pv),
       violations |-> violations,
       warnings |-> {w \in {"missing_economics", "constraint_violations"} :
                       IF w = "missing_economics" THEN missing > 0 ELSE violations # {}}]
RunBacktest(positions, base, points, specs) ==      \* <<>> when a step raises
  IF \E i \in DOMAIN points : StepFault(positions, base, points[i].quotes) # "ok" THEN <<>>
  ELSE [i \in DOMAIN points |->
          [t |-> Timeline(points)[i].t, step |-> Step(positions, base, Timeline(points)[i].quotes, specs)]]
-----------------------------------------------------------------------------
(* Profit realized by closing a position.  An exit row is [leg, exit,      *)
(* entry], both at most one number; a leg without a row closes at its      *)
(* entry, a row without a price at zero, and of two rows for a leg the     *)
(* last counts.  The quantity is that of the state.                        *)
Exits(rows) == FoldLeft(LAMBDA f, r : IF r.leg = <<>> THEN f ELSE Put(f, r.leg[1], r), <<>>, rows)
Realized(legs, rows) ==
  SumOver(legs, LAMBDA l :
    IF l.leg \notin DOMAIN Exits(rows) THEN 0
    ELSE LET r == Exits(rows)[l.leg]
             entry == IF r.entry = <<>> THEN l.pv ELSE r.entry[1]
         IN  ((IF r.exit = <<>> THEN 0 ELSE r.exit[1]) - entry) * l.quantity)
RealizedPnl(positions, event, asOf) ==      \* <<>> when the time is not the event's
  LET own == SelectSeq(positions, LAMBDA p : event.position = <<p.id>>)
  IN  IF asOf # <<event.ts>> THEN <<>>
      ELSE IF event.type # "PORTFOLIO_POSITION_REMOVED" \/ own = <<>> THEN <<0>>
      ELSE <<Realized(own[1].legs, event.rows)>>
Unrealized(before, after) == IF before = <<>> THEN 0 ELSE Pv(after) - Pv(before[1])
-----------------------------------------------------------------------------
(* The list views of a V2 log, newest limit of 500.  An event is [id, ts,  *)
(* type]; one id may come twice, and counts once.                          *)
Sorted(log) == StableSort(log, LAMBDA e : <<e.ts, e.id>>)
FirstOfId(s) == FirstOf(s, LAMBDA e : e.id)
Cut(s, limit) == SubSeq(s, 1, IF Len(s) < limit THEN Len(s) ELSE limit)
ListFault(limit, known) == FirstFault(<<
  <<"invalid_limit", limit < 1 \/ limit > 500>>, <<"session_not_found", ~ known>> >>)
ListEvents(log, limit) ==
  Cut([i \in DOMAIN FirstOfId(Sorted(log)) |-> [event |-> FirstOfId(Sorted(log))[i], version |-> i]], limit)
(* Mutant: the limit is applied to the events, not to the requests.        *)
ListComputeCutFirst(log, limit) ==
  SelectSeq(Cut(FirstOfId(Sorted(log)), limit), LAMBDA e : e.type = "COMPUTE_REQUESTED")
ListCompute(log, limit) ==
  Cut(SelectSeq(FirstOfId(Sorted(log)), LAMBDA e : e.type = "COMPUTE_REQUESTED"), limit)
-----------------------------------------------------------------------------
(* The scenario cache, first in first out.  A key written again keeps its  *)
(* age; evicting from an empty cache of no size raises.                    *)
EmptyCache == [held |-> <<>>, order |-> <<>>, raised |-> FALSE]
CacheSet(c, key, value, size) ==
  LET new == key \notin DOMAIN c.held
      full == new /\ Cardinality(DOMAIN c.held) >= size
      kept == IF full THEN [k \in DOMAIN c.held \ {Head(c.order)} |-> c.held[k]] ELSE c.held
  IN  IF full /\ c.order = <<>> THEN [c EXCEPT !.raised = TRUE]
      ELSE [held |-> Put(kept, key, value), raised |-> FALSE,
            order |-> (IF full THEN Tail(c.order) ELSE c.order) \o (IF new THEN <<key>> ELSE <<>>)]
CacheAfter(sets, size) ==
  FoldLeft(LAMBDA c, s : CacheSet(c, s.key, s.value, size), EmptyCache, sets)
(* compute_scenario: what it answers depends on the request alone, so a    *)
(* request is its key; it must name symbols with a spot and a vol.         *)
ComputeScenario(cache, req, size) ==
  LET stored == IF req.useCache THEN CacheSet(cache, req.key, req.key, size) ELSE cache
  IN  IF req.useCache /\ req.key \in DOMAIN cache.held
      THEN [cache |-> cache, answer |-> <<cache.held[req.key]>>, hit |-> TRUE]
      ELSE IF ~ req.priced THEN [cache |-> cache, answer |-> <<>>, hit |-> FALSE]
      ELSE [cache |-> stored, answer |-> IF req.useCache /\ stored.raised THEN <<>> ELSE <<req.key>>, hit |-> FALSE]
=============================================================================
