----------------------------- MODULE BooksChecks -----------------------------
(* What conversion, totals, limits, timelines, profits, list views and the *)
(* scenario cache promise, and the books they are checked on.              *)
EXTENDS Integers, Sequences, FiniteSets, SequencesExt, TLC
B == INSTANCE Books

UpTo(n, set) == UNION {[1..k -> set] : k \in 0..n}
LastAt(s, Is(_)) == CHOOSE i \in DOMAIN s : Is(s[i]) /\ \A j \in (i + 1)..Len(s) : ~ Is(s[j])
-----------------------------------------------------------------------------
Currencies == {"USD", "ILS", "EUR"}
ConvertCases ==
  [quotes : UpTo(2, [pair : {<<"USD", "ILS">>, <<"ILS", "USD">>, <<"EUR", "USD">>},
                     rate : {<<0, 1>>, <<2, 1>>, <<1, 2>>, <<4, 1>>}]),
   from : Currencies, to : Currencies]
(* A pair can be converted in both directions or in none, and there and    *)
(* back again is the same amount unless both directions are quoted, with   *)
(* rates that do not undo one another.  A third currency is never a way.   *)
ConvertSound(c) ==
  LET rates == B!Quoted(c.quotes)
      There(a) == B!Convert(rates, a, c.from, c.to)
      Back(a) == B!Convert(rates, a, c.to, c.from)
      both == {<<c.from, c.to>>, <<c.to, c.from>>}
      Undo == LET r == rates[<<c.from, c.to>>] q == rates[<<c.to, c.from>>] IN r[1] * q[1] = r[2] * q[2]
  IN  B!QuotesFault(c.quotes) = "ok" =>
      /\ B!Convertible(rates, c.from, c.to, TRUE) <=> B!Convertible(rates, c.to, c.from, TRUE)
      /\ Back(There(64)) = 64 <=> (c.from # c.to /\ both \subseteq DOMAIN rates => Undo)
      /\ c.from # c.to /\ both \cap DOMAIN rates = {} =>
           ~ B!Convertible(rates, c.from, c.to, TRUE) /\ There(64) = 64
-----------------------------------------------------------------------------
TotalsCases == UpTo(3, [leg : {0}, underlying : {1, 2}, pv : {3}, delta : {-1, 1}, notional : {5}, quantity : {-1, 2}])
Limits == [notional : {<<>>, <<5>>, <<15>>}, delta : {<<>>, <<1>>}, concentration : {<<>>, <<40>>, <<60>>}]
Looser(a, b) == \A k \in DOMAIN a : a[k] = <<>> \/ (b[k] # <<>> /\ b[k][1] <= a[k][1])
(* Totals do not depend on how legs are put together to positions or in    *)
(* which order.  A looser limit finds no new breach; a portfolio within    *)
(* its delta limit has its net delta within it; one more leg never cures a *)
(* breach of the notional; and no portfolio of so few underlyings that     *)
(* their even share is over the concentration limit passes it.             *)
TotalsSound(legs) ==
  LET split == [i \in DOMAIN legs |-> [legs |-> <<legs[i]>>]]
      totals == B!Totals(<<[legs |-> legs]>>)
      Found(l) == B!V2Breaches(l, totals)
      n == Cardinality(B!Underlyings(split))
  IN  /\ totals = B!Totals(split) /\ totals = B!Totals(Reverse(split))
      /\ \A l \in Limits :
           /\ \A m \in {k \in Limits : Looser(k, l)} : Found(m) \subseteq Found(l)
           /\ (l.delta # <<>> /\ <<"max_abs_delta">> \notin Found(l)) => B!Abs(totals.delta) <= l.delta[1]
           /\ (legs # <<>> /\ <<"max_notional">> \in B!V2Breaches(l, B!Totals(<<[legs |-> Tail(legs)]>>)))
                => <<"max_notional">> \in Found(l)
           /\ (legs # <<>> /\ l.concentration # <<>> /\ l.concentration[1] * n < 100)
                => \E b \in Found(l) : b[1] = "max_concentration_pct"
-----------------------------------------------------------------------------
Econ(usd, ils) == <<[fees |-> 1, cash |-> [USD |-> usd], exposure |-> [USD |-> usd, ILS |-> ils], assets |-> [gold |-> ils]]>>
BookCases == UpTo(3, [key : {1, 2, 3}, spelled : {1, 2}, quantity : {1}, ccy : {"USD"}, pv : {<<1>>},
                      econ : {<<>>, Econ(3, 2), Econ(-3, 1)}])
Spec(kind, limits) == {[kind |-> kind, limits |-> limits]}
(* Of the positions added under a key the last stays, whatever was added   *)
(* in between, and removing what was added undoes it; of the executions of *)
(* a candidate the first in its order.  Exposures are summed by name, so   *)
(* opposite ones cancel, in the limit of the gross exposure too.           *)
BookSound(added) ==
  LET state == FoldLeft(B!Add, <<>>, added)
      keys == {added[i].key : i \in DOMAIN added}
      usd == FoldLeft(LAMBDA acc, p : acc + (IF p.econ = <<>> THEN 0 ELSE p.econ[1].exposure.USD), 0, state)
      candidate == B!Candidate(added, 7)
  IN  /\ {state[i].key : i \in DOMAIN state} = keys /\ Len(state) = Cardinality(keys)
      /\ \A i \in DOMAIN state : state[i] = added[LastAt(added, LAMBDA p : p.key = state[i].key)]
      /\ \A i \in 2..Len(state) : state[i - 1].key < state[i].key
      /\ \A i \in DOMAIN added : B!RemoveByKey(B!Add(state, added[i]), added[i].key) = B!RemoveByKey(state, added[i].key)
      /\ {candidate[i].key : i \in DOMAIN candidate} = keys /\ Len(candidate) = Cardinality(keys)
      /\ \A i \in DOMAIN candidate, j \in DOMAIN added :
           candidate[i].key = added[j].key => candidate[i].spelled <= added[j].spelled
      /\ \A limit \in {0, 3} : \A kind \in {"max_gross_exposure_by_ccy", "max_net_exposure_by_ccy"} :
           B!Violations(state, Spec(kind, [USD |-> limit])) = {} <=> B!Abs(usd) <= limit
      /\ B!Violations(state, Spec("max_position_count", <<>>)) = {} <=> state = <<>>
-----------------------------------------------------------------------------
Held == <<[key |-> 1, spelled |-> 1, quantity |-> 2, ccy |-> "USD", pv |-> <<8>>, econ |-> Econ(3, 2)],
          [key |-> 2, spelled |-> 1, quantity |-> 1, ccy |-> "ILS", pv |-> <<16>>, econ |-> <<>>]>>
Quotes == {<<>>, <<[pair |-> <<"USD", "ILS">>, rate |-> <<4, 1>>]>>, <<[pair |-> <<"ILS", "USD">>, rate |-> <<1, 2>>]>>,
           <<[pair |-> <<"EUR", "USD">>, rate |-> <<1, 1>>]>>}
TimelineCases == UNION {UpTo(3, [t : {2, 9, 10, 21}, quotes : Quotes]), UpTo(4, [t : {2, 3, 10, 21}, quotes : {Head(SetToSeq(Quotes))}])}
(* A timeline keeps its points, those of one time in the order given, and  *)
(* is in the order of time exactly when no shorter time is spelled after a *)
(* longer one.  Where no time comes twice, a backtest does not depend on   *)
(* the order in which the points were given: it fails when any of them     *)
(* lacks a rate, and each step adds up to its total.                       *)
TimelineSound(points) ==
  LET line == B!Timeline(points)
      times == {points[i].t : i \in DOMAIN points}
      run == B!RunBacktest(Held, "USD", points, Spec("max_position_count", ("*" :> 1)))
  IN  /\ \A p \in {points[i] : i \in DOMAIN points} :
           SelectSeq(line, LAMBDA q : q.t = p.t) = SelectSeq(points, LAMBDA q : q.t = p.t)
      /\ Len(line) = Len(points)
      /\ (\A i \in 2..Len(line) : line[i - 1].t <= line[i].t)
           <=> (\A a \in times, b \in times : (a < 10 /\ b >= 10) => a <= b \div 10)
      /\ Cardinality(times) = Len(points) => B!RunBacktest(Held, "USD", Reverse(points), Spec("max_position_count", ("*" :> 1))) = run
      /\ run = <<>> <=> (points = <<>> \/ \E i \in DOMAIN points : ~ B!Convertible(B!Quoted(points[i].quotes), "ILS", "USD", TRUE))
      /\ \A i \in DOMAIN run :
           /\ run[i].step.total = 16 + (IF line[i].quotes[1].rate = <<4, 1>> THEN 4 ELSE 8)
           /\ run[i].step.warnings = {"missing_economics", "constraint_violations"}
-----------------------------------------------------------------------------
PnlCases == [legs : {<<>>} \cup {<<[leg |-> 1, underlying |-> 1, pv |-> p, delta |-> 0, notional |-> 1, quantity |-> q]>>
                         : p \in {1, 3}, q \in {-1, 2}}
                    \cup {<<[leg |-> 1, underlying |-> 1, pv |-> p, delta |-> 0, notional |-> 1, quantity |-> q],
                            [leg |-> 2, underlying |-> 1, pv |-> 5, delta |-> 0, notional |-> 1, quantity |-> 3]>>
                         : p \in {1, 3}, q \in {-1, 2}},
             rows : UpTo(2, [leg : {<<>>, <<1>>, <<2>>, <<3>>}, exit : {<<>>, <<1>>, <<4>>}, entry : {<<>>, <<2>>}])]
(* What closing a position realizes is what its legs gained from entry to  *)
(* exit, so the change of its present value when the event tells no entry  *)
(* price, and more by the difference of the entries when it does.  A leg   *)
(* nobody prices at exit gains nothing, and nor does any other event.      *)
PnlSound(c) ==
  LET exits == B!Exits(c.rows)
      Marked(i) == LET l == c.legs[i] IN
        IF l.leg \notin DOMAIN exits THEN l
        ELSE [l EXCEPT !.pv = IF exits[l.leg].exit = <<>> THEN 0 ELSE exits[l.leg].exit[1]]
      marked == [i \in DOMAIN c.legs |-> Marked(i)]
      Told(i) == LET l == c.legs[i] IN
        IF l.leg \in DOMAIN exits /\ exits[l.leg].entry # <<>> THEN (l.pv - exits[l.leg].entry[1]) * l.quantity ELSE 0
      told == FoldLeft(+, 0, [i \in DOMAIN c.legs |-> Told(i)])
      state == <<[id |-> 1, legs |-> c.legs]>>
      Event(type, position) == [type |-> type, position |-> position, rows |-> c.rows, ts |-> 5]
  IN  /\ B!RealizedPnl(state, Event("PORTFOLIO_POSITION_REMOVED", <<1>>), <<5>>)
           = <<B!Unrealized(<<state>>, <<[id |-> 1, legs |-> marked]>>) + told>>
      /\ \A at \in {<<>>, <<4>>} : B!RealizedPnl(state, Event("PORTFOLIO_POSITION_REMOVED", <<1>>), at) = <<>>
      /\ B!Unrealized(<<>>, state) = 0
      /\ \A e \in {Event("PORTFOLIO_POSITION_UPSERTED", <<1>>), Event("PORTFOLIO_POSITION_REMOVED", <<2>>),
                   Event("PORTFOLIO_POSITION_REMOVED", <<>>)} : B!RealizedPnl(state, e, <<5>>) = <<0>>
-----------------------------------------------------------------------------
ListCases == [log : UpTo(3, [id : 1..3, ts : {1, 2}, type : {"COMPUTE_REQUESTED", "QUOTE_INGESTED"}]), limit : 1..3]
(* A listing with a smaller limit is the start of one with a larger limit; *)
(* the whole numbers the events of the log, one per id, in their order;    *)
(* and the compute requests are those of the whole, cut only afterwards.   *)
ListSound(c) ==
  LET whole == B!ListEvents(c.log, 500)
      ids == {c.log[i].id : i \in DOMAIN c.log}
      computes == SelectSeq(whole, LAMBDA v : v.event.type = "COMPUTE_REQUESTED")
  IN  /\ B!ListEvents(c.log, c.limit) = B!Cut(whole, c.limit)
      /\ {whole[i].event.id : i \in DOMAIN whole} = ids /\ Len(whole) = Cardinality(ids)
      /\ \A i \in DOMAIN whole : whole[i].version = i
      /\ \A i \in 2..Len(whole) : LET a == whole[i - 1].event b == whole[i].event IN
           a.ts < b.ts \/ (a.ts = b.ts /\ a.id < b.id)
      /\ B!ListCompute(c.log, c.limit) = B!Cut([i \in DOMAIN computes |-> computes[i].event], c.limit)
      /\ \A n \in {0, 1, 500, 501} : B!ListFault(n, TRUE) = "ok" <=> n \in {1, 500}
-----------------------------------------------------------------------------
CacheCases == [keys : UpTo(5, 1..4), size : 0..3, plain : {{}, {1}, {2}}]
(* The keys held and their order stay in step and within the size, unless  *)
(* the size is none and every write fails.  Held is the last value of each *)
(* key; the last key written is held; until there are more keys than room  *)
(* none is lost; keys written once leave in the order in which they came.  *)
(* A computation answers the same whether a cache helps it or not.         *)
CacheSound(c) ==
  LET sets == [i \in DOMAIN c.keys |-> [key |-> c.keys[i], value |-> i]]
      cache == B!CacheAfter(sets, c.size)
      keys == {c.keys[i] : i \in DOMAIN c.keys}
      n == Len(c.keys)
      Req(i) == [key |-> c.keys[i], useCache |-> i \notin c.plain, priced |-> c.keys[i] # 4]
      after == FoldLeft(LAMBDA f, i : LET r == B!ComputeScenario(f.cache, Req(i), c.size)
                                      IN  [cache |-> r.cache, answers |-> Append(f.answers, r.answer)],
                        [cache |-> B!EmptyCache, answers |-> <<>>], [i \in 1..n |-> i])
  IN  /\ cache.raised <=> (c.size = 0 /\ n > 0)
      /\ {cache.order[i] : i \in DOMAIN cache.order} = DOMAIN cache.held
      /\ Len(cache.order) = Cardinality(DOMAIN cache.held) /\ Len(cache.order) <= c.size
      /\ \A k \in DOMAIN cache.held : cache.held[k] = LastAt(c.keys, LAMBDA x : x = k)
      /\ c.size > 0 /\ n > 0 => c.keys[n] \in DOMAIN cache.held
      /\ Cardinality(keys) <= c.size => DOMAIN cache.held = keys
      /\ Cardinality(keys) = n => cache.order = SubSeq(c.keys, (IF n > c.size THEN n - c.size ELSE 0) + 1, n)
      /\ c.size > 0 => \A i \in 1..n : after.answers[i] = IF Req(i).priced THEN <<c.keys[i]>> ELSE <<>>
=============================================================================
