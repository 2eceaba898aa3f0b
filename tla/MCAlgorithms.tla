---------------------------- MODULE MCAlgorithms ----------------------------
(* The pure algorithms, each on every input of a small set: a behaviour    *)
(* takes one input, and the invariants compare what the algorithm makes of *)
(* it with what it promises.                                               *)
EXTENDS Algorithms
O == INSTANCE OptionChecks
S == INSTANCE StrategyChecks
K == INSTANCE BooksChecks

VARIABLE case    \* the algorithm looked at, and its input
Idle == [of |-> "none", in |-> 0]
Take(name, inputs) == case = Idle /\ \E x \in inputs : case' = [of |-> name, in |-> x]

Next ==
  \/ Take("scan", A!ScanCases)
  \/ Take("rank", A!RankCases)
  \/ Take("feasibility", A!FeasibilityCases)
  \/ Take("signals", A!SignalCases)
  \/ Take("gate", B!GateCases)
  \/ Take("risk", B!RiskCases)
  \/ Take("market", B!MarketCases)
  \/ Take("ladder", B!LadderCases)
  \/ Take("bounds", B!BoundsCases)
  \/ Take("contract", O!ContractCases)
  \/ Take("exchange", O!ExchangeCases)
  \/ Take("resolve", O!ResolveCases)
  \/ Take("price", O!PriceCases)
  \/ Take("detect", S!DetectCases)
  \/ Take("suggest", S!SuggestCases)
  \/ Take("table", S!TableCases)
  \/ Take("metrics", S!MetricsCases)
  \/ Take("convert", K!ConvertCases)
  \/ Take("totals", K!TotalsCases)
  \/ Take("book", K!BookCases)
  \/ Take("timeline", K!TimelineCases)
  \/ Take("pnl", K!PnlCases)
  \/ Take("list", K!ListCases)
  \/ Take("cache", K!CacheCases)
Spec == case = Idle /\ [][Next]_case

(* The opportunities found are the best there are, and the options listed  *)
(* come once each and in order.                                            *)
ScanSound ==
  /\ case.of = "scan" => A!ScanSound(case.in)
  /\ case.of = "rank" => A!ListingSound(case.in)
(* The frontier is the options nobody dominates, limits lifted refuse no   *)
(* more, and scores stay within their bounds.                              *)
RankingSound ==
  /\ case.of = "rank" => A!FrontierSound(case.in)
  /\ case.of = "feasibility" => A!FeasibilityMonotone(case.in)
  /\ case.of = "signals" => A!ScoreSound(case.in)
(* Commands and requests: what is taken, replayed, refused and in order.   *)
GateSound == case.of = "gate" => B!GateSound(case.in)
(* Market snapshots: what is taken serves what was asked for.              *)
MarketSound == case.of = "market" => B!MarketSound(case.in)
(* The risk run and the ladder of hedges that spreads its worst loss.      *)
RiskSound ==
  /\ case.of = "risk" => B!RiskSound(case.in)
  /\ case.of = "ladder" => B!LadderSound(case.in)
(* Recommendations, policies, limits and exposures keep within bounds.     *)
HedgeSound == case.of = "bounds" => B!BoundsSound(case.in)
(* Contracts, the options made of them and what they cost.                 *)
OptionsSound ==
  /\ case.of = "contract" => O!ContractsSound(case.in)
  /\ case.of = "exchange" => O!ExchangeSound(case.in)
  /\ case.of = "resolve" => O!ResolveSound(case.in)
  /\ case.of = "price" => O!PriceSound(case.in)
(* Strategies: what they are called, built from and worth, and the warnings *)
(* about them.                                                             *)
StrategiesSound ==
  /\ case.of = "detect" => S!DetectSound(case.in)
  /\ case.of = "suggest" => S!SuggestSound(case.in)
  /\ case.of = "table" => S!TableSound(case.in)
  /\ case.of = "metrics" => S!MetricsSound(case.in)
(* Books of positions: conversion, totals, profit, lists and caches.       *)
BooksSound ==
  /\ case.of = "convert" => K!ConvertSound(case.in)
  /\ case.of = "totals" => K!TotalsSound(case.in)
  /\ case.of = "book" => K!BookSound(case.in)
  /\ case.of = "timeline" => K!TimelineSound(case.in)
  /\ case.of = "pnl" => K!PnlSound(case.in)
  /\ case.of = "list" => K!ListSound(case.in)
  /\ case.of = "cache" => K!CacheSound(case.in)
=============================================================================
