------------------------- MODULE MCAlgorithmsProofs -------------------------
(***************************************************************************)
(* The invariants of the run of the algorithms that are proved of every    *)
(* input: what a behaviour takes under a name is one of the cases of that  *)
(* name, and the cases are among the inputs of AlgorithmsProofs.           *)
(***************************************************************************)
EXTENDS MCAlgorithms, AlgorithmsProofs

\* What is taken under a name is one of the cases of that name.
Taken ==
  /\ case.of = "gate" => case.in \in B!GateCases
  /\ case.of = "market" => case.in \in B!MarketCases
  /\ case.of = "rank" => case.in \in A!RankCases
  /\ case.of = "feasibility" => case.in \in A!FeasibilityCases
  /\ case.of = "signals" => case.in \in A!SignalCases
  /\ case.of = "bounds" => case.in \in B!BoundsCases

\* Every state has taken what its name says, or nothing.
LEMMA CasesTaken == Spec => []Taken
<1>1. case = Idle => Taken
  BY DEF Idle, Taken
<1>2. Taken /\ [Next]_case => Taken'
  <2> SUFFICES ASSUME Taken, Next PROVE Taken'
    BY DEF Taken
  <2>1. ASSUME NEW name, NEW inputs, Take(name, inputs)
        PROVE  case'.of = name /\ case'.in \in inputs
    BY <2>1 DEF Take
  <2> QED BY <2>1 DEF Next, Taken
<1> QED BY <1>1, <1>2, PTL DEF Spec

\* The cases of the run are among those of EveryGate.
LEMMA GateCase == ASSUME NEW c \in B!GateCases PROVE B!GateSound(c)
<1> DEFINE Text == {"none", "1.0", "2.0", "INGEST_QUOTE", "OTHER", "strict", "lenient", "loose",
                    "object", "number", "text", "not a string", "upper", "lower", "long",
                    "lower and long", "COMPUTE_REQUEST", "SNAPSHOT_REQUEST"}
           Any == {1, 2, "INGEST_EVENT", "QUOTE", "NOTE"}
<1>1. CASE c \in [request : B!Requests]
  <2> DEFINE P == [shape : {"object", "none"}, price : {"number", "text"},
                   symbol : {"none", "not a string", "upper", "lower", "long", "lower and long"}]
             Q == [shape : Text, price : Text, symbol : Text]
  <2>1. P \subseteq Q
    OBVIOUS
  <2> HIDE DEF P, Q
  <2>2. [version : {"none", "1.0", "2.0"}, kind : {"none", "INGEST_QUOTE", "OTHER"},
         mode : {"none", "strict", "lenient", "loose"}, payload : P]
          \subseteq [version : Text, kind : Text, mode : Text, payload : Q]
    BY <2>1
  <2>3. B!Requests \subseteq AnyRequest(Text)
    BY <2>2 DEF B!Requests, AnyRequest, P, Q
  <2> HIDE DEF Text
  <2>4. c \in [request : AnyRequest(Text)]
    BY <1>1, <2>3
  <2> QED BY <2>4, RequestGate
<1>2. CASE c \in [before : B!Commands, now : B!Commands]
  <2>1. B!Commands \subseteq AnyCommand(Any)
    BY DEF B!Commands, AnyCommand
  <2> HIDE DEF Any
  <2>2. c \in [before : AnyCommand(Any), now : AnyCommand(Any)]
    BY <1>2, <2>1
  <2> QED BY <2>2, CommandGate
<1>3. CASE c \in B!Broken
  <2>1. B!ToSet(B!G!FieldOrder) = {B!G!FieldOrder[i] : i \in 1..10}
    BY Fields DEF B!ToSet
  <2> DEFINE F == {B!G!FieldOrder[i] : i \in 1..10}
             W == SUBSET F
             T == {"COMPUTE_REQUEST", "SNAPSHOT_REQUEST", "OTHER"}
             V == 0..1
  <2>2. T \subseteq Text /\ V \subseteq Int
    OBVIOUS
  <2>3. B!Broken = [wrong : W, kind : T, quotes : BOOLEAN, version : V]
    BY <2>1 DEF B!Broken
  <2>4. AnyStructure(Text) = [wrong : W, kind : Text, quotes : BOOLEAN, version : Int]
    BY DEF AnyStructure
  <2> HIDE DEF F, W, T, V, Text
  <2>5. B!Broken \subseteq AnyStructure(Text)
    BY <2>2, <2>3, <2>4
  <2> QED BY <1>3, <2>5, StructureGate
<1> QED BY <1>1, <1>2, <1>3 DEF B!GateCases

\* Lenient takes what strict takes and warns of the rest; a repeated command replays
\* or conflicts and is never new; a repaired field uncovers a later fault only.
THEOREM GatesHold == Spec => []GateSound
<1>1. Taken => GateSound
  BY GateCase DEF Taken, GateSound
<1> QED BY <1>1, CasesTaken, PTL

\* The cases of the run are among those of EveryMarket.
LEMMA MarketCase == ASSUME NEW c \in B!MarketCases PROVE B!MarketSound(c)
<1>1. CASE c \in [snap : B!Snaps, one : B!Wants, two : B!Wants]
  <2> DEFINE Val == UNION {{x.base, x.quotes, x.loose, x.prices, x.ccy, x.curves, x.vols} : x \in B!Snaps}
             Any == {1, 2, 30, 365, "s", "t"}
             S1 == {<<>>, <<"s">>, <<"t">>}
             C1 == {<<>>, <<2>>}
             T1 == {<<>>, <<<<1, {365}>>>>, <<<<2, {30}>>>>}
  <2>1. ASSUME NEW x \in B!Snaps PROVE x \in AnySnap(Val)
    <3>1. x = [base |-> x.base, quotes |-> x.quotes, loose |-> x.loose, prices |-> x.prices,
               ccy |-> x.ccy, curves |-> x.curves, vols |-> x.vols]
      BY DEF B!Snaps
    <3>2. /\ x.base \in Val /\ x.quotes \in Val /\ x.loose \in Val /\ x.prices \in Val
          /\ x.ccy \in Val /\ x.curves \in Val /\ x.vols \in Val
      OBVIOUS
    <3> HIDE DEF Val
    <3>3. DOMAIN x.quotes \in {{<<1, 1>>, <<1, 2>>, <<2, 1>>}, {<<1>>, <<2>>}, {}}
      BY DEF B!Snaps
    <3>6. /\ <<1>> \in Seq(Nat) /\ <<2>> \in Seq(Nat)
          /\ <<1, 1>> \in Seq(Nat) /\ <<1, 2>> \in Seq(Nat) /\ <<2, 1>> \in Seq(Nat)
      OBVIOUS
    <3>7. \A y \in DOMAIN x.quotes : y \in {<<1, 1>>, <<1, 2>>, <<2, 1>>, <<1>>, <<2>>}
      BY <3>3
    <3>4. DOMAIN x.quotes \in SUBSET Seq(Nat)
      BY <3>6, <3>7
    <3>5. x \in [base : Val, quotes : Val, loose : Val, prices : Val, ccy : Val, curves : Val, vols : Val]
      BY <3>1, <3>2
    <3> QED BY <3>4, <3>5 DEF AnySnap
  <2>2. S1 \subseteq Seq(Any) /\ C1 \subseteq Seq(Any) /\ 1 \in Any
    OBVIOUS
  <2>3. T1 \subseteq Seq(Any \X SUBSET Any)
    OBVIOUS
  <2>4. B!Wants = [symbols : S1, base : {1}, curves : C1, tenors : T1]
    BY DEF B!Wants
  <2> HIDE DEF S1, C1, T1, Any, Val
  <2>5. B!Wants \subseteq Need(Any)
    BY <2>2, <2>3, <2>4 DEF Need
  <2>6. c.one.base = 1 /\ c.two.base = 1
    BY <1>1, <2>4
  <2>7. c \in [snap : AnySnap(Val), one : Need(Any), two : Need(Any)]
    BY <1>1, <2>1, <2>5
  <2> QED BY <2>6, <2>7, EveryMarket
<1>2. CASE c \in [vols : {<<>>} \cup {<<v>> : v \in B!Surfaces}, days : {0, 60, 61, 62, 730}]
  <2> DEFINE Keys == {<<1, 5>>}
  <2>1. ASSUME NEW v \in B!Surfaces PROVE v \in AnySurfaces(Keys)
    <3>1. 0 \in Vols /\ -1 \in Vols
      BY DEF Vols, B!D!Missing
    <3>2. {{}, {0}, {-1}} \subseteq {{}} \cup {{x} : x \in Vols}
      BY <3>1
    <3>3. <<>> \in [{} -> Vols] /\ {} \in SUBSET Keys /\ Keys \in SUBSET Keys
      OBVIOUS
    <3> HIDE DEF Keys
    <3>5. <<>> \in UNION {[keys -> Vols] : keys \in SUBSET Keys}
      BY <3>3
    <3>6. [Keys -> {0, -1}] \subseteq [Keys -> Vols]
      BY <3>1
    <3>7. [Keys -> Vols] \subseteq UNION {[keys -> Vols] : keys \in SUBSET Keys}
      BY <3>3
    <3>4. {<<>>} \cup [Keys -> {0, -1}] \subseteq UNION {[keys -> Vols] : keys \in SUBSET Keys}
      BY <3>5, <3>6, <3>7
    <3> QED BY <3>2, <3>4 DEF B!Surfaces, AnySurfaces, Keys
  <2>2. {0, 60, 61, 62, 730} \subseteq Nat
    OBVIOUS
  <2> HIDE DEF Keys
  <2>3. c \in [vols : {<<>>} \cup {<<v>> : v \in AnySurfaces(Keys)}, days : Nat]
    BY <1>2, <2>1, <2>2
  <2> QED BY <2>3, EveryMarket
<1> QED BY <1>1, <1>2 DEF B!MarketCases

\* A request for two needs passes exactly if each would alone; prices and curves
\* more make none fail; what validation takes is priced, but is no FX snapshot.
THEOREM MarketsHold == Spec => []MarketSound
<1>1. Taken => MarketSound
  BY MarketCase DEF Taken, MarketSound
<1> QED BY <1>1, CasesTaken, PTL

\* The functions on the first n places are sequences.
LEMMA AreSeqs ==
  ASSUME NEW X, NEW n \in Nat
  PROVE  [1..n -> X] \subseteq Seq(X)
OBVIOUS

\* The cases of the run are among those of EveryFrontier.
LEMMA RankCase == ASSUME NEW c \in A!RankCases PROVE A!FrontierSound(c)
<1> DEFINE Name == {"edge_bps", "latency_ms", "fees_bps", "notional", "max", "min"}
           Axes == [name : Name, dir : Name]
           Opt == OptionsAt({1, 2})
<1>1. c.options \in [1..3 -> A!Options] /\ c.cfg \in [dims : A!DimLists, eps : {0, 1}, maxResults : {2, 4}]
  BY DEF A!RankCases
<1>2. c.options \in Seq(Opt)
  <2>1. A!Options \subseteq Opt
    BY DEF A!Options, OptionsAt
  <2> HIDE DEF Opt
  <2>2. c.options \in [1..3 -> Opt]
    BY <1>1, <2>1
  <2> DEFINE three == 3
  <2>3. three \in Nat /\ c.options \in [1..three -> Opt]
    BY <2>2
  <2> HIDE DEF three
  <2> QED BY <2>3, AreSeqs
<1>3. c.cfg \in AnyConfig(Name)
  <2> HIDE DEF Axes
  <2>1. \A n, d \in Name : A!Axis(n, d) \in Axes
    BY DEF A!Axis, Axes
  <2>2. /\ "edge_bps" \in Name /\ "latency_ms" \in Name /\ "fees_bps" \in Name /\ "notional" \in Name
        /\ "max" \in Name /\ "min" \in Name
    OBVIOUS
  <2> HIDE DEF Name
  <2>3. /\ A!Axis("edge_bps", "max") \in Axes /\ A!Axis("latency_ms", "min") \in Axes
        /\ A!Axis("edge_bps", "min") \in Axes /\ A!Axis("fees_bps", "min") \in Axes
        /\ A!Axis("notional", "max") \in Axes
    BY <2>1, <2>2
  <2>4. \A x, y, z \in Axes : <<x, y>> \in Seq(Axes) /\ <<x, y, z>> \in Seq(Axes)
    OBVIOUS
  <2>5. A!DimLists \subseteq Seq(Axes)
    BY <2>3, <2>4 DEF A!DimLists
  <2>6. AnyConfig(Name) = [dims : Seq(Axes), eps : Nat, maxResults : Nat]
    BY DEF AnyConfig, Axes
  <2> QED BY <1>1, <2>5, <2>6
<1> DEFINE options == c.options
           cfg == c.cfg
<1>4. options \in Seq(OptionsAt({1, 2})) /\ cfg \in AnyConfig(Name)
  BY <1>2, <1>3
<1> HIDE DEF options, cfg
<1>5. LET f == A!O!Frontier(options, cfg)
          all == A!ToSet(options)
      IN  /\ \A o, p \in A!ToSet(f) : ~ A!O!Dominates(o, p, cfg)
          /\ cfg.eps = 0 =>
               /\ A!ToSet(f) = {o \in all : \A p \in all : ~ A!O!Dominates(p, o, cfg)}
               /\ \A o \in all \ A!ToSet(f) : A!O!DominatedBy(o, options, cfg) # <<>>
  BY <1>4, EveryFrontier
<1> QED BY <1>5 DEF A!FrontierSound, options, cfg

\* The cases of the run are among those of EveryFeasible.
LEMMA FeasibilityCase == ASSUME NEW c \in A!FeasibilityCases PROVE A!FeasibilityMonotone(c)
<1> DEFINE Ctx == A!Contexts
           Opt == [buy : {1}, sell : {1, 2}, edge : {1, 2}, price : {1, 2}, size : {1, 2}, fees : {0},
                   asOf : {A!None, 0, 1}]
<1>1. A!None \in Int
  BY DEF A!None
<1>2. Ctx \subseteq AnyContext
  <2> DEFINE V == {{1}, {1, 2}}
             W == SUBSET {1, 2}
  <2>1. V \subseteq W
    OBVIOUS
  <2>2. Ctx = [venues : V, minNotional : {A!None, 2}, maxNotional : {A!None, 2},
               lot : {A!None, 2}, tick : {A!None, 2}, maxSpread : {A!None, 1}, maxSlippage : {A!None, 1},
               now : {A!None, 6}]
    BY DEF A!Contexts
  <2>3. AnyContext = [venues : W, minNotional : Int, maxNotional : Int, lot : Int, tick : Int,
                      maxSpread : Int, maxSlippage : Int, now : Int]
    BY DEF AnyContext
  <2> HIDE DEF V, W, Ctx
  <2> QED BY <1>1, <2>1, <2>2, <2>3
<1>3. Opt \subseteq AnyOption
  BY <1>1 DEF AnyOption
<1>4. c \in [option : Opt, ctx : Ctx]
  BY DEF A!FeasibilityCases
<1> HIDE DEF Opt, Ctx
<1>5. c \in [option : AnyOption, ctx : AnyContext]
  BY <1>2, <1>3, <1>4
<1> QED BY <1>5, EveryFeasible

\* The cases of the run are among those of EveryScore.
LEMMA SignalCase == ASSUME NEW c \in A!SignalCases PROVE A!ScoreSound(c)
<1> DEFINE Edges == UNION {[1..n -> {-2, 0, 1, 2}] : n \in 0..2}
<1>1. Edges \subseteq Seq(Int)
  <2>1. ASSUME NEW n \in 0..2 PROVE [1..n -> {-2, 0, 1, 2}] \subseteq Seq(Int)
    <3>1. [1..n -> {-2, 0, 1, 2}] \subseteq [1..n -> Int]
      OBVIOUS
    <3>2. n \in Nat
      OBVIOUS
    <3> QED BY <3>1, <3>2, AreSeqs
  <2> QED BY <2>1
<1>2. c \in [edges : Edges, netEdge : {-1, 0, 5, 900, 1200}, first : {0}, last : {0, 3}, now : {3, 12, 80},
             count : {1, 2}]
  BY DEF A!SignalCases
<1> HIDE DEF Edges
<1>3. c \in [edges : Seq(Int), netEdge : Int, first : Int, last : Int, now : Int, count : Int]
  BY <1>1, <1>2
<1> QED BY <1>3, EveryScore

\* The frontier is the options nobody dominates, limits lifted refuse no option more,
\* and scores stay within their bounds.
THEOREM RankingsHold == Spec => []RankingSound
<1>1. Taken => RankingSound
  BY RankCase, FeasibilityCase, SignalCase DEF Taken, RankingSound
<1> QED BY <1>1, CasesTaken, PTL

\* The cases of the run are among those of EveryBound.
LEMMA BoundsCase == ASSUME NEW c \in B!BoundsCases PROVE B!BoundsSound(c)
<1> DEFINE Row == B!ExposureRows
           Rest == [exposures : Seq(Row)]
           Policies == [policy : AnyPolicy, loss : Int, current : 0..B!H!One, target : Nat]
<1>1. CASE c \in B!LimitCases
  <2>1. -1 \in Nat \cup {B!H!None}
    BY DEF B!H!None
  <2>2. [ratio : {-1, 0, 50}, total : {-1, 0, 150}, more : {-1, 0, 100}] \subseteq
          [ratio : Nat \cup {B!H!None}, total : Nat \cup {B!H!None}, more : Nat \cup {B!H!None}]
    BY <2>1
  <2> DEFINE L == [ratio : {-1, 0, 50}, total : {-1, 0, 150}, more : {-1, 0, 100}]
             M == [ratio : Nat \cup {B!H!None}, total : Nat \cup {B!H!None}, more : Nat \cup {B!H!None}]
  <2>3. c \in [net : {0, 2, 4}, current : {0, 100, 300, 500}, ratio : {0, 50, 100}, limit : L]
    BY <1>1 DEF B!LimitCases
  <2>4. AnyLimit = [net : Nat, current : Nat, ratio : Nat, limit : M]
    BY DEF AnyLimit
  <2>5. L \subseteq M
    BY <2>2
  <2> HIDE DEF L, M
  <2>6. c \in AnyLimit
    BY <2>3, <2>4, <2>5
  <2> QED BY <2>6, EveryBound
<1>2. CASE c \in B!PolicyCases
  <2> DEFINE P == B!Policies
             wide == [min : {<<0, 1>>, <<1, 4>>}, max : {<<1, 2>>, <<7, 10>>, <<6, 5>>},
                      lot : BOOLEAN, overhedge : BOOLEAN]
             fine == [min : {<<0, 1>>, <<1, 8>>}, max : {<<16, 125>>, <<3, 8>>},
                      lot : BOOLEAN, overhedge : {FALSE}]
  <2>1. ASSUME NEW p \in P PROVE p \in AnyPolicy
    <3>1. /\ <<0, 1>> \in Fractions /\ <<1, 4>> \in Fractions /\ <<1, 8>> \in Fractions
          /\ <<1, 2>> \in Fractions /\ <<7, 10>> \in Fractions /\ <<6, 5>> \in Fractions
          /\ <<16, 125>> \in Fractions /\ <<3, 8>> \in Fractions
      BY DEF Fractions
    <3>2. CASE p \in wide
      <4>1. p.min \in {<<0, 1>>, <<1, 4>>} /\ p.max \in {<<1, 2>>, <<7, 10>>, <<6, 5>>}
        BY <3>2
      <4>2. p \in [min : Fractions, max : Fractions, lot : BOOLEAN, overhedge : BOOLEAN]
        BY <3>1, <3>2
      <4>3. High(p) \in {<<1, 2>>, <<7, 10>>, <<6, 5>>, <<1, 1>>}
        BY <4>1 DEF High, B!H!Lower
      <4>4. \A x \in {<<0, 1>>, <<1, 4>>}, y \in {<<1, 2>>, <<7, 10>>, <<6, 5>>, <<1, 1>>} : B!H!Leq(x, y)
        BY DEF B!H!Leq
      <4>5. B!H!Leq(p.min, High(p))
        BY <4>1, <4>3, <4>4
      <4> QED BY <4>2, <4>5 DEF AnyPolicy
    <3>3. CASE p \in fine
      <4>1. p.min \in {<<0, 1>>, <<1, 8>>} /\ p.max \in {<<16, 125>>, <<3, 8>>}
        BY <3>3
      <4>2. p \in [min : Fractions, max : Fractions, lot : BOOLEAN, overhedge : BOOLEAN]
        BY <3>1, <3>3
      <4>3. High(p) \in {<<16, 125>>, <<3, 8>>, <<1, 1>>}
        BY <4>1 DEF High, B!H!Lower
      <4>4. \A x \in {<<0, 1>>, <<1, 8>>}, y \in {<<16, 125>>, <<3, 8>>, <<1, 1>>} : B!H!Leq(x, y)
        BY DEF B!H!Leq
      <4>5. B!H!Leq(p.min, High(p))
        BY <4>1, <4>3, <4>4
      <4> QED BY <4>2, <4>5 DEF AnyPolicy
    <3> QED BY <3>2, <3>3 DEF B!Policies
  <2>2. c \in [policy : P, loss : {0, -1, -4, -7}, current : {0, 3, 12}, target : {0, 1, 3, 5}]
    BY <1>2 DEF B!PolicyCases
  <2>3. {0, 3, 12} \subseteq 0..B!H!One
    BY DEF B!H!One
  <2> HIDE DEF P
  <2>4. c \in Policies
    BY <2>1, <2>2, <2>3
  <2> HIDE DEF Policies
  <2> DEFINE X == AnyLimit \cup Policies \cup Rest
  <2>5. c \in X
    BY <2>4
  <2> QED BY <2>5, EveryBound DEF Policies
<1>3. CASE c \in [exposures : {<<>>} \cup B!UpTo(2, B!ExposureRows)]
  <2> HIDE DEF Row
  <2>1. B!UpTo(2, Row) \subseteq Seq(Row)
    <3>1. ASSUME NEW n \in 1..2 PROVE [1..n -> Row] \subseteq Seq(Row)
      BY AreSeqs
    <3> QED BY <3>1 DEF B!UpTo
  <2>2. {<<>>} \subseteq Seq(Row)
    OBVIOUS
  <2>3. c \in Rest
    BY <1>3, <2>1, <2>2 DEF Row
  <2> QED BY <2>3, EveryBound
<1> QED BY <1>1, <1>2, <1>3 DEF B!BoundsCases

\* Recommendations, limits and exposures keep within their bounds, policies within
\* theirs or within the nearest whole percents, and what is cut needs approval.
THEOREM BoundsHold == Spec => []HedgeSound
<1>1. Taken => HedgeSound
  BY BoundsCase DEF Taken, HedgeSound
<1> QED BY <1>1, CasesTaken, PTL
=============================================================================
