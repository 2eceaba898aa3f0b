--------------------------- MODULE ArbitrageChecks ---------------------------
(* What the pure part of the arbitrage code promises of an input, and the  *)
(* inputs it is checked on: quotes of one symbol at two or three venues,   *)
(* and options with few edges, prices and sizes.                           *)
EXTENDS ArbitrageEngine
O == INSTANCE OpportunitySpace

Quote(S(_)) == {q \in [symbol : {1}, venue : {1, 2, 3}, bid : {-2, 0, 2, 3, 4}, ask : {2, 3, 4},
                    size : {None, 1, 2}, fee : {0, 1}] : S(q)}
Configs == [minEdge : {0, 4}, minSize : {0, 2}, sameVenue : BOOLEAN, defaultSize : {1},
            maxLatency : {None, 0}]
(* Two quotes of any kind, or three without size or fees.                  *)
ScanCases ==
  LET rich == Quote(LAMBDA q : q.venue <= 2 /\ q.bid \in {0, 3, 4} /\ q.ask # 4)
      plain == Quote(LAMBDA q : q.bid \in {2, 3} /\ q.size = None /\ q.fee = 0 /\ q.ask # 4)
  IN  [quotes : [1..2 -> rich], cfg : {c \in Configs : c.maxLatency = None}]
      \cup [quotes : [1..3 -> plain], cfg : {c \in Configs : c.minSize = 0}]

Gross(t) == t.sell.bid - t.buy.ask
(* A trade the session search finds is one of the pairs the enumeration    *)
(* lists, with the widest gross edge of its symbol; readiness and gate, as *)
(* the session configures them, never hold back what the search found; the *)
(* enumeration lists the same prices whatever order the quotes came in;    *)
(* and from validated quotes no trade crosses a quote with itself.  Trades *)
(* share an id only between the same venues and less than a tick apart.    *)
ScanSound(c) ==
  LET found == FindCrossVenue(c.quotes, c.cfg)
      space == Space(c.quotes, c.cfg)
      Prices(s) == [i \in DOMAIN s |-> <<s[i].buy.venue, s[i].sell.venue, s[i].buy.ask, s[i].sell.bid>>]
      kept == Kept(c.quotes)
  IN  /\ found \subseteq ToSet(space)
      /\ \A t \in found : \A i \in DOMAIN space : Gross(space[i]) <= Gross(t)
      /\ \A t \in found : /\ ReadinessReasons(t, DefaultLimits(c.cfg)) = {}
                          /\ SessionGate(t, c.quotes, c.cfg) = "PASS"
      /\ Prices(Space(Reverse(c.quotes), c.cfg)) = Prices(space)
      /\ \A t \in FindCrossVenue(kept, c.cfg) : t.buy # t.sell
      /\ \A i, j \in DOMAIN space : LET t == space[i] u == space[j] IN
           OpportunityId(t, 3, 4) = OpportunityId(u, 3, 4) =>
             /\ t.buy.venue = u.buy.venue /\ t.sell.venue = u.sell.venue
             /\ 3 * (t.buy.ask - u.buy.ask) < 4 /\ 3 * (t.sell.bid - u.sell.bid) < 4

Options == [buy : {1}, sell : {2}, edge : 0..2, price : {1, 2}, size : {1}, fees : 0..1, asOf : {0}]
Axis(n, d) == [name |-> n, dir |-> d]
DimLists == {<<Axis("edge_bps", "max"), Axis("latency_ms", "min"), Axis("edge_bps", "min")>>,
             <<Axis("edge_bps", "max"), Axis("fees_bps", "min")>>,
             <<Axis("edge_bps", "max"), Axis("fees_bps", "min"), Axis("notional", "max")>>}
Small == [venues |-> {1, 2}, minNotional |-> None, maxNotional |-> 1, lot |-> None, tick |-> None,
          maxSpread |-> 1, maxSlippage |-> None, now |-> None]
RankCases == [options : [1..3 -> Options], cfg : [dims : DimLists, eps : {0, 1}, maxResults : {2, 4}]]

(* The one-pass frontier is what it should be whatever the order: nothing  *)
(* in it dominates anything in it, and without a tolerance it is exactly   *)
(* the options nobody dominates, every other one having an explanation.    *)
FrontierSound(c) ==
  LET f == O!Frontier(c.options, c.cfg)
      all == ToSet(c.options)
  IN  /\ \A o, p \in ToSet(f) : ~ O!Dominates(o, p, c.cfg)
      /\ c.cfg.eps = 0 => /\ ToSet(f) = {o \in all : \A p \in all : ~ O!Dominates(p, o, c.cfg)}
                          /\ \A o \in all \ ToSet(f) : O!DominatedBy(o, c.options, c.cfg) # <<>>
(* The ranking lists options once each, frontier first, best edge first.   *)
(* Constraints applied first keep on the frontier what was there before.   *)
ListingSound(c) ==
  LET f == O!Frontier(c.options, c.cfg)
      ranked == O!Rank(c.options, c.cfg)
      Count(s, o) == Cardinality({i \in DOMAIN s : s[i] = o})
      feasible == O!Feasible(c.options, Small, TRUE)
  IN  /\ Len(ranked) = Min({3, c.cfg.maxResults})
      /\ \A o \in ToSet(ranked) : Count(ranked, o) <= Count(c.options, o)
      /\ \A i, j \in DOMAIN ranked : i < j =>
           \/ ranked[i] \in ToSet(f) /\ ranked[j] \notin ToSet(f)
           \/ (ranked[i] \in ToSet(f) <=> ranked[j] \in ToSet(f)) /\ ranked[i].edge >= ranked[j].edge
      /\ c.cfg.eps = 0 =>
           ToSet(f) \cap ToSet(feasible) \subseteq ToSet(O!Frontier(feasible, c.cfg))

Contexts == [venues : {{1}, {1, 2}}, minNotional : {None, 2}, maxNotional : {None, 2},
             lot : {None, 2}, tick : {None, 2}, maxSpread : {None, 1}, maxSlippage : {None, 1},
             now : {None, 6}]
FeasibilityCases ==
  [option : [buy : {1}, sell : {1, 2}, edge : {1, 2}, price : {1, 2}, size : {1, 2}, fees : {0},
             asOf : {None, 0, 1}], ctx : Contexts]
(* Lifting a limit never refuses an option that passed, and strict only    *)
(* ever refuses more.                                                      *)
Lifted(ctx) ==
  {[ctx EXCEPT !.venues = {1, 2}], [ctx EXCEPT !.minNotional = None],
   [ctx EXCEPT !.maxNotional = None], [ctx EXCEPT !.lot = None], [ctx EXCEPT !.tick = None],
   [ctx EXCEPT !.maxSpread = None], [ctx EXCEPT !.maxSlippage = None]}
FeasibilityMonotone(c) == \A strict \in BOOLEAN :
  /\ O!Passes(c.option, c.ctx, TRUE) => O!Passes(c.option, c.ctx, strict)
  /\ O!HardViolations(c.option, c.ctx) # {} => ~ O!Passes(c.option, c.ctx, strict)
  /\ O!Passes(c.option, c.ctx, strict) =>
       \A wider \in Lifted(c.ctx) : O!Passes(c.option, wider, strict)

SignalCases == [edges : UNION {[1..n -> {-2, 0, 1, 2}] : n \in 0..2}, netEdge : {-1, 0, 5, 900, 1200},
                first : {0}, last : {0, 3}, now : {3, 12, 80}, count : {1, 2}]
(* A score stays within 0 and 1, and an older sighting never scores higher.*)
ScoreSound(c) ==
  LET At(now) == O!Signals(c.edges, [first |-> c.first, last |-> c.last, count |-> c.count], c.netEdge, now)
  IN  /\ O!Score(At(c.now)) \in 0..1000
      /\ O!Score(At(c.now + 10)) <= O!Score(At(c.now))
      /\ Cardinality(O!Reasons(At(c.now))) = 4
=============================================================================
