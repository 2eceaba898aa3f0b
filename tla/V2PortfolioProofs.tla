-------------------------- MODULE V2PortfolioProofs --------------------------
(***************************************************************************)
(* The portfolio summary, for every log, every arrival order and every     *)
(* crash: its version never goes back, an unreadable event takes it away   *)
(* for good, and what it shows is what was written last.                   *)
(*                                                                         *)
(* The version has two sources, the log and the latest snapshot.  The      *)
(* invariant says that what was answered last is not above what either     *)
(* source would give now; the step from one source to the other is safe    *)
(* because the first snapshot counts the whole log.                        *)
(*                                                                         *)
(* What the reducer returns is proved by induction on the number of events *)
(* it has seen: Founds and Stands say without a loop what the portfolio is *)
(* after each of them.                                                     *)
(***************************************************************************)
EXTENDS V2Portfolio, V2RuntimeProofs

SummaryInv ==
  /\ IInv
  /\ summary.op = "summary" => summary.version \in Nat /\ summary.version <= SummaryVersion

-----------------------------------------------------------------------------
\* The version of the summary is a number, also after a step.
LEMMA SummaryVersionTyped ==
  /\ IInv => SummaryVersion \in Nat /\ LogVersion \in Nat
  /\ IInv' => SummaryVersion' \in Nat
<1>1. IInv => SummaryVersion \in Nat /\ LogVersion \in Nat
  <2> SUFFICES ASSUME IInv PROVE SummaryVersion \in Nat /\ LogVersion \in Nat
    OBVIOUS
  <2>1. LogVersion \in Nat
    BY IdsOfFinite, FS_CardinalityType DEF IInv, LogInv, LogVersion
  <2>2. snaps # {} => Latest \in Snapshot
    BY LatestIsLast DEF IInv, SnapsInv
  <2> QED BY <2>1, <2>2 DEF SummaryVersion, Snapshot
<1>2. ASSUME IInv' PROVE SummaryVersion' \in Nat
  <2>1. LogVersion' \in Nat
    BY <1>2, IdsOfFinite, FS_CardinalityType DEF IInv, LogInv, LogVersion
  <2>2. snaps' # {} => Latest' \in Snapshot
    BY <1>2 DEF IInv, SnapsInv, HasLatest, Latest
  <2> QED BY <2>1, <2>2 DEF SummaryVersion, Snapshot
<1> QED BY <1>1, <1>2

\* The first snapshot of a session counts the whole log.
LEMMA FirstSnapshotCountsLog ==
  ASSUME IInv, snaps = {}
  PROVE  BuildSnapshot.version = LogVersion
BY DEF BuildSnapshot, BuildFull, Current, LogVersion

\* A new row in the log never lowers the version of the summary.
LEMMA AppendKeepsVersion ==
  ASSUME IInv, IInv', events \subseteq events', snaps' = snaps
  PROVE  SummaryVersion <= SummaryVersion'
<1>1. SummaryVersion \in Nat /\ LogVersion \in Nat /\ LogVersion' \in Nat
  BY SummaryVersionTyped, IdsOfFinite, FS_CardinalityType DEF IInv, LogInv, LogVersion
<1>2. LogVersion <= LogVersion'
  <2>1. IdsOf(events) \subseteq IdsOf(events') /\ IsFiniteSet(IdsOf(events'))
    BY IdsOfFinite DEF IInv, LogInv, IdsOf
  <2> QED BY <2>1, FS_Subset DEF LogVersion
<1>3. Latest' = Latest
  BY DEF Latest
<1> QED BY <1>1, <1>2, <1>3 DEF SummaryVersion

\* Putting what was built never lowers the version of the summary.
LEMMA PutKeepsVersion ==
  ASSUME IInv, IInv', events' = events, Put(BuildSnapshot)
  PROVE  SummaryVersion <= SummaryVersion'
<1>1. /\ snaps \subseteq snaps' /\ BuildSnapshot \in snaps'
      /\ BuildSnapshot.version \in Nat
  BY PutOfBuild DEF IInv, Put, Snapshot
<1>2. Latest' \in snaps' /\ \A t \in snaps' : t.version <= (Latest').version
  BY <1>1 DEF IInv, SnapsInv, HasLatest, Latest
<1>3. CASE snaps = {}
  BY <1>1, <1>2, <1>3, FirstSnapshotCountsLog DEF SummaryVersion
<1>4. CASE snaps # {}
  <2>1. Latest \in snaps
    BY <1>4, LatestIsLast DEF IInv, SnapsInv
  <2> QED BY <1>1, <1>2, <1>4, <2>1 DEF SummaryVersion
<1> QED BY <1>3, <1>4

\* No step of the runtime lowers the version of the summary.
LEMMA NextKeepsVersion ==
  ASSUME IInv, [Next]_vars
  PROVE  IInv' /\ SummaryVersion <= SummaryVersion'
<1>1. IInv'
  BY NextKeeps
<1>2. CASE snaps' = snaps /\ events \subseteq events'
  BY <1>1, <1>2, AppendKeepsVersion
<1>3. CASE events' = events /\ Put(BuildSnapshot)
  BY <1>1, <1>3, PutKeepsVersion
<1>4. \/ snaps' = snaps /\ events \subseteq events'
      \/ events' = events /\ Put(BuildSnapshot)
  BY DEF Next, vars, CreateSession, Refuse, IngestAppend, AppendNew, AppendAgain,
    AppendConflict, IngestApply, ApplyAgain, ApplyNew, CreateSnapshot, GetSnapshot,
    Crash, durable
<1> QED BY <1>1, <1>2, <1>3, <1>4

\* What the endpoint answers carries the current version.
LEMMA AnswerCarriesVersion ==
  ASSUME IInv, Summary.op = "summary"
  PROVE  Summary.version = SummaryVersion
BY DEF Summary

\* The invariant is inductive, and it gives monotony.
LEMMA SummaryStep ==
  ASSUME SummaryInv, [PortfolioNext]_portfolioVars
  PROVE  /\ SummaryInv'
         /\ summary.op = "summary" /\ summary'.op = "summary"
              => summary.version <= summary'.version
<1> USE DEF SummaryInv
<1>1. SummaryVersion \in Nat
  BY SummaryVersionTyped
<1>2. CASE summary' = summary /\ [Next]_vars
  <2>1. IInv' /\ SummaryVersion <= SummaryVersion'
    BY <1>2, NextKeepsVersion
  <2>2. SummaryVersion' \in Nat
    BY <2>1, SummaryVersionTyped
  <2> QED BY <1>1, <1>2, <2>1, <2>2
<1>3. CASE GetSummary
  <2>1. UNCHANGED vars /\ summary' = Summary
    BY <1>3 DEF GetSummary
  <2>2. IInv' /\ SummaryVersion' = SummaryVersion
    BY <2>1, NextKeeps DEF vars, SummaryVersion, LogVersion, Latest
  <2>3. summary'.op = "summary" => summary'.version = SummaryVersion
    BY <2>1, AnswerCarriesVersion
  <2> QED BY <1>1, <2>2, <2>3
<1> QED BY <1>2, <1>3 DEF PortfolioNext, portfolioVars

\* The version of the summary never goes back.
THEOREM SummaryNeverGoesBack ==
  PortfolioSpec => SummaryVersionMonotone
<1>1. PortfolioInit => SummaryInv
  BY InitEstablishes DEF PortfolioInit, SummaryInv
<1>2. SummaryInv /\ [PortfolioNext]_portfolioVars => SummaryInv'
  BY SummaryStep
<1>3. SummaryInv /\ [PortfolioNext]_portfolioVars
        => [summary.op = "summary" /\ summary'.op = "summary"
              => summary.version <= summary'.version]_portfolioVars
  BY SummaryStep
<1> QED BY <1>1, <1>2, <1>3, PTL DEF PortfolioSpec, SummaryVersionMonotone

-----------------------------------------------------------------------------
\* What makes the summary invalid is in the log.
PoisonInv == summary.op = "invalid" => Malformed(events)

\* An event the reducer cannot read stays in the log, and decides every answer.
LEMMA PoisonStep ==
  ASSUME PoisonInv, [PortfolioNext]_portfolioVars
  PROVE  /\ PoisonInv'
         /\ summary.op = "invalid" => summary'.op \in {"invalid", "failed"}
<1>1. CASE summary' = summary /\ [Next]_vars
  <2>1. events \subseteq events'
    BY <1>1 DEF Next, vars, CreateSession, Refuse, IngestAppend, AppendNew, AppendAgain,
      AppendConflict, IngestApply, CreateSnapshot, GetSnapshot, Crash, durable
  <2>2. Malformed(events) => Malformed(events')
    BY <2>1 DEF Malformed, OfKind
  <2> QED BY <1>1, <2>2 DEF PoisonInv
<1>2. CASE GetSummary
  <2>1. events' = events /\ summary' = Summary
    BY <1>2 DEF GetSummary, vars
  <2>2. Summary.op = "invalid" => Malformed(events)
    BY DEF Summary
  <2>3. Malformed(events) => Summary.op \in {"invalid", "failed"}
    BY DEF Summary, Malformed, OfKind
  <2> QED BY <2>1, <2>2, <2>3 DEF PoisonInv
<1> QED BY <1>1, <1>2 DEF PortfolioNext, portfolioVars

\* One unreadable event takes the summary away for good.
THEOREM PoisonStays ==
  PortfolioSpec => PoisonIsForever
<1>1. PortfolioInit => PoisonInv
  BY DEF PortfolioInit, PoisonInv
<1>2. PoisonInv /\ [PortfolioNext]_portfolioVars => PoisonInv'
  BY PoisonStep
<1>3. PoisonInv /\ [PortfolioNext]_portfolioVars
        => [summary.op = "invalid" => summary'.op \in {"invalid", "failed"}]_portfolioVars
  BY PoisonStep
<1> QED BY <1>1, <1>2, <1>3, PTL DEF PortfolioSpec, PoisonIsForever

-----------------------------------------------------------------------------
(* Last write wins. *)

\* A set of numbers up to n that is not empty has a greatest one.
LEMMA HasGreatest ==
  ASSUME NEW n \in Nat, NEW K \in SUBSET (1..n), K # {}
  PROVE  \E m \in K : \A k \in K : k <= m
<1> DEFINE Great(L) == L = {} \/ \E m \in L : \A k \in L : k <= m
           T == {i \in Nat : \A L \in SUBSET (1..i) : Great(L)}
<1>1. 0 \in T
  OBVIOUS
<1>2. ASSUME NEW i \in T PROVE i + 1 \in T
  <2>1. ASSUME NEW L \in SUBSET (1..(i + 1)) PROVE Great(L)
    <3>1. CASE i + 1 \in L
      BY <3>1
    <3>2. CASE i + 1 \notin L
      <4>1. L \in SUBSET (1..i)
        BY <3>2
      <4> QED BY <4>1
    <3> QED BY <3>1, <3>2
  <2> HIDE DEF Great
  <2> QED BY <2>1
<1>3. T = Nat
  <2> HIDE DEF T
  <2>1. T \in SUBSET Nat
    BY DEF T
  <2> QED BY <1>1, <1>2, <2>1, SetInduction
<1> QED BY <1>3

\* The events of the sorted log have the positions 1, 2, ...
LEMMA EventAtPosition ==
  ASSUME NEW S \in SUBSET Event, IsFiniteSet(S), OnePerId(S), NEW n \in 1..Cardinality(S)
  PROVE  EventAt(S, n) \in S /\ Position(S, EventAt(S, n)) = n
BY SortedLog DEF EventAt

\* The portfolio after each event is what the loop makes of the one before.
LEMMA PortfolioSteps ==
  ASSUME NEW S, IsFiniteSet(S)
  PROVE  /\ Portfolios(S)[0] = NoPortfolio
         /\ \A n \in 1..Cardinality(S) :
              Portfolios(S)[n] = Apply(Portfolios(S)[n - 1], CommandOf(EventAt(S, n)))
<1> DEFINE N == Cardinality(S)
           Step(g, n) == IF n = 0 THEN NoPortfolio ELSE Apply(g[n - 1], CommandOf(EventAt(S, n)))
           Good(g, m) == g = [n \in 0..m |-> Step(g, n)]
           T == {m \in Nat : \E g : Good(g, m)}
<1>1. N \in Nat
  BY FS_CardinalityType
<1>2. 0 \in T
  <2> DEFINE g == [n \in 0..0 |-> NoPortfolio]
  <2>1. \A n \in 0..0 : n = 0
    OBVIOUS
  <2>2. Good(g, 0)
    BY <2>1
  <2> QED BY <2>2
<1>3. ASSUME NEW m \in T PROVE m + 1 \in T
  <2>1. PICK g : Good(g, m)
    OBVIOUS
  <2> DEFINE h == [n \in 0..(m + 1) |->
                     IF n = m + 1 THEN Apply(g[m], CommandOf(EventAt(S, m + 1))) ELSE g[n]]
  <2>2. \A n \in 0..m : g[n] = Step(g, n)
    BY <2>1
  <2>3. ASSUME NEW n \in 0..(m + 1) PROVE h[n] = Step(h, n)
    <3>1. CASE n = m + 1
      <4>1. n # 0 /\ n - 1 = m /\ m \in 0..(m + 1) /\ m # m + 1
        BY <3>1
      <4>2. h[m] = g[m]
        BY <4>1
      <4> QED BY <3>1, <4>1, <4>2
    <3>2. CASE n \in 1..m
      <4>1. n # 0 /\ n - 1 \in 0..(m + 1) /\ n - 1 # m + 1 /\ n # m + 1 /\ n \in 0..m
        BY <3>2
      <4>2. h[n - 1] = g[n - 1] /\ h[n] = g[n]
        BY <4>1
      <4> QED BY <2>2, <4>1, <4>2
    <3>3. CASE n = 0
      <4>1. h[0] = g[0] /\ 0 \in 0..m
        OBVIOUS
      <4> QED BY <2>2, <3>3, <4>1
    <3> QED BY <3>1, <3>2, <3>3
  <2>4. Good(h, m + 1)
    <3>1. h = [n \in 0..(m + 1) |-> h[n]]
      OBVIOUS
    <3> HIDE DEF h
    <3> QED BY <2>3, <3>1
  <2> HIDE DEF Good
  <2> QED BY <2>4
<1>4. T = Nat
  <2> HIDE DEF T
  <2>1. T \in SUBSET Nat
    BY DEF T
  <2> QED BY <1>2, <1>3, <2>1, SetInduction
<1>5. \E g : Good(g, N)
  BY <1>1, <1>4
<1>6. Good(Portfolios(S), N)
  <2>1. Portfolios(S) = CHOOSE g : Good(g, N)
    BY DEF Portfolios
  <2> HIDE DEF Good
  <2> QED BY <1>5, <2>1
<1>7. \A n \in 0..N : Portfolios(S)[n] = Step(Portfolios(S), n)
  BY <1>6
<1> HIDE DEF Good, N
<1>8. 0 \in 0..N /\ \A n \in 1..N : n \in 0..N /\ n # 0
  BY <1>1
<1> QED BY <1>7, <1>8 DEF N

-----------------------------------------------------------------------------
\* The last creation among the first n events of a log.
Founds(S, c, n) ==
  /\ c \in OfKind(S, {"created"}) /\ Position(S, c) <= n
  /\ \A d \in OfKind(S, {"created"}) : Position(S, d) <= n => Position(S, d) <= Position(S, c)
\* The upserts after it that no later one of the first n events touches.
Stands(S, c, n) ==
  {e \in OfKind(S, {"upserted"}) :
     /\ Position(S, c) < Position(S, e) /\ Position(S, e) <= n
     /\ \A f \in OfKind(S, {"upserted", "removed"}) :
          CommandOf(f).position = CommandOf(e).position /\ Position(S, f) <= n
            => Position(S, f) <= Position(S, e)}
Holding(e) == [position |-> CommandOf(e).position, legs |-> CommandOf(e).legs]
HeldBy(E) == {Holding(e) : e \in E}

\* What an event asks of the portfolio is one of five kinds.
LEMMA CommandTyped ==
  ASSUME NEW e \in Event
  PROVE  CommandOf(e).kind \in {"created", "upserted", "removed", "malformed", "other"}
BY CommandAssumption DEF CommandOf, Event

\* One round of the loop: a creation founds the portfolio anew, an upsert or a removal
\* takes away what stood of its position, and anything else changes nothing.
LEMMA PortfolioFollows ==
  ASSUME NEW S \in SUBSET Event, IsFiniteSet(S), OnePerId(S),
         NEW n \in Nat, n + 1 <= Cardinality(S), NEW c, Founds(S, c, n + 1),
         NEW s, NEW t, t = Apply(s, CommandOf(EventAt(S, n + 1))),
         Founds(S, c, n) => /\ s = [currency |-> CommandOf(c).currency,
                                   held |-> HeldBy(Stands(S, c, n))]
  PROVE  t = [currency |-> CommandOf(c).currency, held |-> HeldBy(Stands(S, c, n + 1))]
<1> DEFINE e == EventAt(S, n + 1)
           pos(x) == Position(S, x)
           kind(x) == CommandOf(x).kind
<1>1. e \in S /\ pos(e) = n + 1 /\ \A x \in S : pos(x) \in Nat /\ 1 <= pos(x)
  <2>1. n + 1 \in 1..Cardinality(S)
    BY FS_CardinalityType
  <2> QED BY <2>1, EventAtPosition, PositionBounds
<1>2. /\ kind(e) \in {"created", "upserted", "removed", "malformed", "other"}
      /\ t = Apply(s, CommandOf(e))
  BY <1>1, CommandTyped
<1>3. \A x \in S : pos(x) = n + 1 => x = e
  BY <1>1, PositionOrder
<1> HIDE DEF e
<1>4. \A x \in S : pos(x) <= n + 1 <=> pos(x) <= n \/ x = e
  BY <1>1, <1>3
<1>5. c \in S /\ kind(c) = "created"
  BY DEF Founds, OfKind
<1> HIDE DEF pos
<1>6. CASE kind(e) = "created"
  <2>1. pos(e) <= pos(c) /\ pos(c) <= n + 1
    BY <1>1, <1>6 DEF Founds, OfKind, pos
  <2>2. c = e
    BY <1>1, <1>3, <1>5, <2>1
  <2>3. Stands(S, c, n + 1) = {}
    BY <1>1, <2>2 DEF Stands, OfKind, pos
  <2>4. t = [currency |-> CommandOf(e).currency, held |-> {}]
    BY <1>2, <1>6 DEF Apply
  <2> QED BY <2>2, <2>3, <2>4 DEF HeldBy
<1>7. CASE kind(e) # "created"
  <2>1. c # e /\ pos(c) <= n
    BY <1>4, <1>5, <1>7 DEF Founds, pos
  <2>2. Founds(S, c, n)
    <3>1. \A d \in S : pos(d) <= n => pos(d) <= n + 1
      BY <1>1
    <3> QED BY <2>1, <3>1 DEF Founds, OfKind, pos
  <2>3. s = [currency |-> CommandOf(c).currency, held |-> HeldBy(Stands(S, c, n))]
    BY <2>2
  <2> DEFINE p == CommandOf(e).position
             kept == {x \in Stands(S, c, n) : CommandOf(x).position # p}
  <2>4. HeldBy(kept) = Without(HeldBy(Stands(S, c, n)), p)
    BY DEF HeldBy, Holding, Without
  <2>5. \A x \in S : pos(x) <= n => pos(x) # n + 1 /\ pos(x) <= n + 1
    BY <1>1
  <2>6. CASE kind(e) \in {"upserted", "removed"}
    <3>1. ASSUME NEW x \in Stands(S, c, n + 1), x # e PROVE x \in kept
      <4>1. x \in S /\ kind(x) = "upserted" /\ pos(c) < pos(x) /\ pos(x) <= n + 1
        BY DEF Stands, OfKind, pos
      <4>2. pos(x) <= n
        BY <1>4, <3>1, <4>1
      <4>3. CommandOf(x).position # p
        <5> SUFFICES ASSUME CommandOf(e).position = CommandOf(x).position PROVE FALSE
          OBVIOUS
        <5>1. pos(e) <= pos(x)
          BY <1>1, <2>6, <1>4 DEF Stands, OfKind, pos
        <5> QED BY <1>1, <4>1, <4>2, <5>1
      <4>4. x \in Stands(S, c, n)
        BY <2>5, <4>1, <4>2 DEF Stands, OfKind, pos
      <4> QED BY <4>3, <4>4
    <3>2. ASSUME NEW x \in kept PROVE x \in Stands(S, c, n + 1) /\ x # e
      <4>1. x \in S /\ kind(x) = "upserted" /\ pos(c) < pos(x) /\ pos(x) <= n
        BY DEF Stands, OfKind, pos
      <4>2. ASSUME NEW f \in OfKind(S, {"upserted", "removed"}),
                   CommandOf(f).position = CommandOf(x).position, pos(f) <= n + 1
            PROVE  pos(f) <= pos(x)
        <5>1. f \in S /\ f # e
          BY <3>2, <4>2 DEF OfKind
        <5>2. pos(f) <= n
          BY <1>4, <4>2, <5>1
        <5> QED BY <3>2, <4>2, <5>2 DEF Stands, pos
      <4>3. pos(x) <= n + 1 /\ x # e
        BY <1>1, <2>5, <4>1
      <4> QED BY <4>1, <4>2, <4>3 DEF Stands, OfKind, pos
    <3>3. CASE kind(e) = "removed"
      <4>1. e \notin Stands(S, c, n + 1)
        BY <3>3 DEF Stands, OfKind
      <4>2. Stands(S, c, n + 1) = kept
        BY <3>1, <3>2, <4>1
      <4>3. t = [s EXCEPT !.held = Without(@, p)]
        BY <1>2, <3>3 DEF Apply
      <4> HIDE DEF kept
      <4> QED BY <2>3, <2>4, <4>2, <4>3
    <3>4. CASE kind(e) = "upserted"
      <4>1. e \in Stands(S, c, n + 1)
        <5>1. pos(c) < pos(e) /\ pos(e) <= n + 1 /\ e \in OfKind(S, {"upserted"})
          BY <1>1, <1>5, <2>1, <3>4 DEF OfKind
        <5> QED BY <1>1, <5>1 DEF Stands, pos
      <4>2. Stands(S, c, n + 1) = kept \cup {e}
        BY <3>1, <3>2, <4>1
      <4>3. HeldBy(kept \cup {e}) = HeldBy(kept) \cup {Holding(e)}
        BY DEF HeldBy
      <4>4. t = [s EXCEPT !.held = With(@, CommandOf(e))]
        BY <1>2, <3>4 DEF Apply
      <4> HIDE DEF kept
      <4> QED BY <2>3, <2>4, <4>2, <4>3, <4>4 DEF With, Holding
    <3> QED BY <2>6, <3>3, <3>4
  <2>7. CASE kind(e) \notin {"upserted", "removed"}
    <3>1. t = s
      BY <1>2, <1>7, <2>7 DEF Apply
    <3>2. Stands(S, c, n + 1) = Stands(S, c, n)
      <4>1. \A x \in OfKind(S, {"upserted", "removed"}) :
              x \in S /\ (pos(x) <= n + 1 <=> pos(x) <= n)
        BY <1>4, <2>5, <2>7 DEF OfKind
      <4>2. \A x \in OfKind(S, {"upserted"}) : x \in OfKind(S, {"upserted", "removed"})
        BY DEF OfKind
      <4> QED BY <4>1, <4>2 DEF Stands, pos
    <3> QED BY <2>3, <3>1, <3>2
  <2> QED BY <2>6, <2>7
<1> QED BY <1>6, <1>7

\* After n events the portfolio is that of the last creation among them, with the
\* positions that stand.
LEMMA PortfolioAfter ==
  ASSUME NEW S \in SUBSET Event, IsFiniteSet(S), OnePerId(S)
  PROVE  \A n \in 0..Cardinality(S), c \in S : Founds(S, c, n) =>
           Portfolios(S)[n] = [currency |-> CommandOf(c).currency,
                               held |-> HeldBy(Stands(S, c, n))]
<1> DEFINE N == Cardinality(S)
           Right(n) == \A c \in S : Founds(S, c, n) =>
                         Portfolios(S)[n] = [currency |-> CommandOf(c).currency,
                                             held |-> HeldBy(Stands(S, c, n))]
           T == {n \in Nat : n <= N => Right(n)}
<1>1. N \in Nat
  BY FS_CardinalityType
<1>2. 0 \in T
  <2>1. \A c \in S : ~Founds(S, c, 0)
    BY PositionBounds DEF Founds
  <2> QED BY <2>1
<1>3. ASSUME NEW n \in T PROVE n + 1 \in T
  <2> SUFFICES ASSUME n + 1 <= N, NEW c \in S, Founds(S, c, n + 1)
               PROVE  Portfolios(S)[n + 1] = [currency |-> CommandOf(c).currency,
                                              held |-> HeldBy(Stands(S, c, n + 1))]
    OBVIOUS
  <2>1. n \in Nat /\ Right(n)
    BY <1>1
  <2> HIDE DEF T
  <2>2. n + 1 \in 1..N /\ (n + 1) - 1 = n
    BY <1>1, <2>1
  <2>3. Portfolios(S)[n + 1] = Apply(Portfolios(S)[n], CommandOf(EventAt(S, n + 1)))
    BY <2>2, PortfolioSteps
  <2>4. Founds(S, c, n) =>
          Portfolios(S)[n] = [currency |-> CommandOf(c).currency, held |-> HeldBy(Stands(S, c, n))]
    BY <2>1
  <2> QED BY <2>1, <2>3, <2>4, PortfolioFollows
<1>4. T = Nat
  <2> HIDE DEF T
  <2>1. T \in SUBSET Nat
    BY DEF T
  <2> QED BY <1>2, <1>3, <2>1, SetInduction
<1>5. \A n \in 0..N : Right(n)
  <2> HIDE DEF Right
  <2> QED BY <1>1, <1>4
<1> QED BY <1>5

\* The whole log: the last creation founds it, and what stands are its last changes.
LEMMA LogIsFounded ==
  ASSUME LogInv, Creations # {}
  PROVE  /\ Founds(events, LastCreation, Cardinality(events))
         /\ Stands(events, LastCreation, Cardinality(events)) = OfKind(LastChanges, {"upserted"})
<1> DEFINE pos(x) == Position(events, x)
           N == Cardinality(events)
<1>1. events \in SUBSET Event /\ IsFiniteSet(events) /\ OnePerId(events)
  BY DEF LogInv, OneEventPerId, OnePerId
<1>2. N \in Nat /\ \A x \in events : pos(x) \in 1..N
  <2>1. N \in Nat
    BY <1>1, FS_CardinalityType
  <2>2. ASSUME NEW x \in events PROVE pos(x) \in 1..N
    BY <1>1, <2>1, PositionBounds
  <2> QED BY <2>1, <2>2
<1>3. \A x, y \in events : /\ Before(x, y) <=> pos(x) < pos(y)
                           /\ pos(x) = pos(y) => x = y
  BY <1>1, PositionOrder
<1> HIDE DEF pos, N
<1>4. Creations \subseteq events
  BY DEF Creations, OfKind
<1>5. \E c \in Creations : \A d \in Creations : pos(d) <= pos(c)
  <2> DEFINE K == {pos(c) : c \in Creations}
  <2>1. K \in SUBSET (1..N) /\ K # {}
    BY <1>2, <1>4
  <2>2. PICK m \in K : \A k \in K : k <= m
    <3> HIDE DEF K
    <3> QED BY <1>2, <2>1, HasGreatest
  <2> QED BY <2>2
<1>6. \A x \in events : pos(x) \in Int /\ pos(x) <= N
  BY <1>2
<1>7. \E c \in Creations : \A d \in Creations : d = c \/ Before(d, c)
  <2>1. PICK c \in Creations : \A d \in Creations : pos(d) <= pos(c)
    BY <1>5
  <2>2. ASSUME NEW d \in Creations PROVE d = c \/ Before(d, c)
    <3>1. d \in events /\ c \in events
      BY <1>4
    <3>2. pos(d) < pos(c) \/ pos(d) = pos(c)
      BY <1>6, <2>1, <3>1
    <3> QED BY <1>3, <3>1, <3>2
  <2> QED BY <2>2
<1>8. LastCreation \in Creations /\ \A d \in Creations : d = LastCreation \/ Before(d, LastCreation)
  BY <1>7 DEF LastCreation
<1> DEFINE c == LastCreation
<1> HIDE DEF c
<1>9. c \in events /\ c \in Creations /\ \A d \in Creations : pos(d) <= pos(c)
  <2>1. \A d \in Creations : d \in events /\ (d = c \/ Before(d, c)) /\ c \in events
    BY <1>4, <1>8 DEF c
  <2> QED BY <1>3, <1>6, <1>8, <2>1 DEF c
<1>10. Founds(events, c, N)
  BY <1>6, <1>9 DEF Founds, Creations, pos
<1>11. \A e : e \in Changes <=> /\ e \in OfKind(events, {"upserted", "removed"})
                               /\ pos(c) < pos(e)
  <2>1. \A e \in OfKind(events, {"upserted", "removed"}) : e \in events
    BY DEF OfKind
  <2> QED BY <1>3, <1>9, <2>1 DEF Changes, c
<1>12. \A e : e \in LastChanges <=>
         /\ e \in Changes
         /\ \A f \in Changes : CommandOf(f).position = CommandOf(e).position => pos(f) <= pos(e)
  <2>1. \A e \in Changes : e \in events
    BY DEF Changes, OfKind
  <2>2. ASSUME NEW e \in Changes, NEW f \in Changes
        PROVE  (f = e \/ Before(f, e)) <=> pos(f) <= pos(e)
    <3>1. e \in events /\ f \in events /\ pos(e) \in Int /\ pos(f) \in Int
      BY <1>6, <2>1
    <3>2. pos(f) <= pos(e) <=> pos(f) < pos(e) \/ pos(f) = pos(e)
      BY <3>1
    <3> QED BY <1>3, <3>1, <3>2
  <2> QED BY <2>2 DEF LastChanges
<1>13. ASSUME NEW e PROVE e \in Stands(events, c, N) <=> e \in OfKind(LastChanges, {"upserted"})
  <2>1. e \in OfKind(LastChanges, {"upserted"}) <=>
          /\ e \in OfKind(events, {"upserted"}) /\ pos(c) < pos(e)
          /\ \A f \in Changes : CommandOf(f).position = CommandOf(e).position => pos(f) <= pos(e)
    BY <1>11, <1>12 DEF OfKind
  <2>2. \A x \in OfKind(events, {"upserted", "removed"}) :
          x \in events /\ pos(x) <= N /\ pos(x) \in Int
    BY <1>6 DEF OfKind
  <2>3. ASSUME e \in OfKind(events, {"upserted"}), pos(c) < pos(e)
        PROVE  (\A f \in Changes :
                  CommandOf(f).position = CommandOf(e).position => pos(f) <= pos(e))
               <=> (\A f \in OfKind(events, {"upserted", "removed"}) :
                      CommandOf(f).position = CommandOf(e).position /\ pos(f) <= N
                        => pos(f) <= pos(e))
    <3>1. e \in events /\ pos(e) \in Int /\ pos(c) \in Int
      BY <1>6, <1>9, <2>3 DEF OfKind
    <3>2. \A f \in OfKind(events, {"upserted", "removed"}) : f \in Changes \/ pos(f) <= pos(e)
      <4>1. \A f \in OfKind(events, {"upserted", "removed"}) :
              pos(c) < pos(f) \/ pos(f) <= pos(e)
        BY <2>2, <2>3, <3>1
      <4> QED BY <1>11, <4>1
    <3> QED BY <1>11, <2>2, <3>2
  <2>4. \A x : x \in OfKind(events, {"upserted"}) => pos(x) <= N
    BY <1>6 DEF OfKind
  <2> QED BY <2>1, <2>3, <2>4 DEF Stands, pos
<1> QED BY <1>10, <1>13 DEF c, N

\* reduce_portfolio_state is last-write-wins in the order of the sort, for every log and
\* every order of arrival: the currency is that of the last creation, and a position is
\* held exactly as the last event about it since then says.
THEOREM LastWriteAlwaysWins == PortfolioSpec => []LastWriteWins
<1>1. LogInv => LastWriteWins
  <2> SUFFICES ASSUME LogInv, Creations # {}
               PROVE  /\ Reduced(events).currency = CommandOf(LastCreation).currency
                      /\ Reduced(events).held =
                           {[position |-> CommandOf(e).position, legs |-> CommandOf(e).legs] :
                              e \in OfKind(LastChanges, {"upserted"})}
    BY DEF LastWriteWins
  <2>1. events \in SUBSET Event /\ IsFiniteSet(events) /\ OnePerId(events)
    BY DEF LogInv, OneEventPerId, OnePerId
  <2>2. Cardinality(events) \in 0..Cardinality(events)
    BY <2>1, FS_CardinalityType
  <2>3. LastCreation \in events
    BY LogIsFounded DEF Founds, OfKind
  <2>4. Reduced(events) = [currency |-> CommandOf(LastCreation).currency,
                           held |-> HeldBy(OfKind(LastChanges, {"upserted"}))]
    BY <2>1, <2>2, <2>3, PortfolioAfter, LogIsFounded DEF Reduced
  <2> QED BY <2>4 DEF HeldBy, Holding
<1>2. PortfolioInit => IInv
  BY InitEstablishes DEF PortfolioInit
<1>3. IInv /\ [PortfolioNext]_portfolioVars => IInv'
  <2> SUFFICES ASSUME IInv, [PortfolioNext]_portfolioVars PROVE IInv'
    OBVIOUS
  <2>1. [Next]_vars
    BY DEF PortfolioNext, portfolioVars, GetSummary
  <2> QED BY <2>1, NextKeeps
<1>4. IInv => LogInv
  BY DEF IInv
<1> QED BY <1>1, <1>2, <1>3, <1>4, PTL DEF PortfolioSpec
=============================================================================
