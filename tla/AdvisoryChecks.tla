--------------------------- MODULE AdvisoryChecks ---------------------------
(* What the command gates, the input contracts and the hedge advisory      *)
(* promise of an input, and the inputs they are checked on.                *)
EXTENDS Integers, Sequences, FiniteSets, SequencesExt
G == INSTANCE CommandGate
I == INSTANCE AdvisoryInput
D == INSTANCE MarketData
R == INSTANCE RiskPipeline
H == INSTANCE HedgeAdvisory

UpTo(n, S) == UNION {[1..k -> S] : k \in 1..n}
-----------------------------------------------------------------------------
Requests == [version : {"none", "1.0", "2.0"}, kind : {"none", "INGEST_QUOTE", "OTHER"},
             mode : {"none", "strict", "lenient", "loose"},
             payload : [shape : {"object", "none"}, price : {"number", "text"},
                        symbol : {"none", "not a string", "upper", "lower", "long", "lower and long"}]]
Commands == [id : {1, 2}, session : {1, 2}, kind : {"INGEST_EVENT"}, event : {"QUOTE", "NOTE"},
             data : {1, 2}, seq : {0, 1, 2}, meta : {1, 2}, wrong : {{}}]
Broken == [wrong : SUBSET ToSet(G!FieldOrder), kind : {"COMPUTE_REQUEST", "SNAPSHOT_REQUEST", "OTHER"},
           quotes : BOOLEAN, version : 0..1]
GateCases == [request : Requests] \cup [before : Commands, now : Commands] \cup Broken
(* Lenient takes every request strict takes, and one more only with a      *)
(* warning about its payload, never one with an illegal symbol.  A command *)
(* that comes again replays whatever its meta says; with anything else in  *)
(* it a conflict is rejected in both modes; it is never new.  Replays are  *)
(* out of order for a session that has moved on, so the order is asked of  *)
(* new commands only.  No version is right for the API and for the         *)
(* registry.  A repaired field uncovers a later fault only, and what a     *)
(* session has done makes no command illegal.                              *)
GateSound(c) ==
  IF "wrong" \in DOMAIN c
  THEN LET At(name) == CHOOSE i \in 1..11 : name = "ok" \/ (i <= 10 /\ G!FieldOrder[i] = name)
           fault == G!StructuralFault(c)
           next == G!StructuralFault([c EXCEPT !.wrong = @ \ {fault}])
       IN  /\ fault = "ok" <=> c.wrong = {}
           /\ fault # "ok" /\ next # "ok" => At(fault) < At(next)
           /\ G!IllegalSequence([quotes |-> TRUE, version |-> 1], c.kind) => G!IllegalSequence(c, c.kind)
  ELSE IF "request" \in DOMAIN c
  THEN LET As(mode) == G!MapToCommand([c.request EXCEPT !.mode = mode])
       IN  /\ As("strict").error = "ok" => As("lenient") = As("strict")
           /\ As("lenient").error = "ok" =>
                /\ As("lenient").warning = As("strict").error
                /\ c.request.payload.symbol \notin {"lower", "long", "lower and long"}
           /\ G!MapToCommand(c.request).error = "ok" =>
                c.request.mode # "loose" /\ G!RegistryFault(c.request.kind, c.request.version) # "ok"
  ELSE LET seen == G!Seen({c.before}, c.now)
           class == G!Classify(seen, G!Fingerprint(c.before), G!Fingerprint(c.now))
           outcome == G!Outcome(class)
       IN  /\ outcome = "ACCEPTED" <=> c.before.id # c.now.id \/ c.before.session # c.now.session
           /\ seen /\ [c.now EXCEPT !.meta = c.before.meta] = c.before =>
                /\ outcome = "IDEMPOTENT_REPLAY"
                /\ c.now.seq # G!NoSequence => G!OutOfOrder(c.before.seq + 1, c.now)
           /\ seen /\ [c.now EXCEPT !.meta = c.before.meta] # c.before =>
                outcome = "REJECTED" /\ \A mode \in {"strict", "lenient"} :
                  ~ G!Decide(mode, {"IDEMPOTENCY_CONFLICT"}).accepted
-----------------------------------------------------------------------------
(* Snapshots of two currencies with or without a price, its currency,      *)
(* rates, curves and vols, and two needs at a time.                        *)
Snaps ==
  [base : {1}, quotes : [{<<1, 1>>, <<1, 2>>, <<2, 1>>} -> {0}] \cup [{<<1>>, <<2>>} -> {0}]
                        \cup {<<>>} \cup [{<<1, 1>>, <<1, 2>>, <<2, 1>>} -> {0, 1}],
   loose : {{}}, prices : SUBSET {"s", "t"}, ccy : [{"s"} -> {1, 2}] \cup {<<>>},
   curves : [{1, 2} -> {{365}, {30, 365}}] \cup [{1} -> {{365}}], vols : {<<>>}]
Wants == [symbols : {<<>>, <<"s">>, <<"t">>}, base : {1}, curves : {<<>>, <<2>>},
          tenors : {<<>>, <<<<1, {365}>>>>, <<<<2, {30}>>>>}]
(* Vols of a surface named after the currency and of another.              *)
Surfaces == [{1, 2} -> [flat : {{}, {0}, {-1}}, quotes : {<<>>} \cup [{<<1, 5>>} -> {0, -1}]]]
MarketCases == [snap : Snaps, one : Wants, two : Wants]
  \cup [vols : {<<>>} \cup {<<v>> : v \in Surfaces}, days : {0, 60, 61, 62, 730}]
(* A request passes exactly if each part of it would pass alone, whatever  *)
(* the order; prices, curves or tenors more never make one fail.  A payload *)
(* that passes the validation of snapshots, which wants every rate by      *)
(* pair, never resolves as an FX snapshot, which reads the first key as a  *)
(* currency, but an option of two currencies with curves is repriced: on   *)
(* the day of expiry and on exactly the days its curves have, and where    *)
(* its vol was not left negative as a flat one.                            *)
MarketSound(c) ==
  IF "vols" \in DOMAIN c
  THEN LET snap == [base |-> 1, quotes |-> [k \in {<<1, 1>>} |-> 0], loose |-> {}, prices |-> {"s"}, vols |-> c.vols,
                    ccy |-> [s \in {"s"} |-> 1], curves |-> [k \in {1, 2} |-> {30, 365}]]
           payload == [there |-> TRUE, domestic |-> 1, prices |-> snap.prices, aware |-> TRUE,
                       dfs |-> D!PairDfs(snap, <<1>>, <<2>>, c.days), vol |-> D!Vol(snap, <<1, 5>>)]
           fault == R!OptionFault([policy |-> "ACT_365F", domestic |-> 1, underlying |-> "s", aware |-> TRUE,
                                   days |-> c.days], payload, <<R!NoShock>>)
       IN  D!ValidSnapshot(snap) = "ok" =>
             /\ fault \in {"ok", "df_lookup", "vol_lookup"} /\ (fault = "df_lookup" <=> c.days \notin {0, 2 * 30, 2 * 365})
             /\ (fault # "df_lookup" /\ fault # "ok") =>
                  \/ c.vols = <<>>
                  \/ /\ \A n \in {1, 2} : <<1, 5>> \notin DOMAIN c.vols[1][n].quotes
                     /\ \A x \in c.vols[1][1].flat : x < 0
  ELSE LET Both(a, b) == [symbols |-> a.symbols \o b.symbols, base |-> a.base,
                     curves |-> a.curves \o b.curves, tenors |-> a.tenors \o b.tenors]
      Passes(need, snap) == D!Requirements(need, snap) = "ok"
      curves == [k \in DOMAIN c.snap.curves \cup {2} |->
                   (IF k \in DOMAIN c.snap.curves THEN c.snap.curves[k] ELSE {}) \cup {30}]
      more == [c.snap EXCEPT !.prices = @ \cup {"s", "t"}, !.curves = curves]
  IN  /\ Passes(Both(c.one, c.two), c.snap) <=> Passes(c.one, c.snap) /\ Passes(c.two, c.snap)
      /\ Passes(c.one, c.snap) => Passes(c.one, more)
      /\ D!ValidSnapshot(c.snap) = "ok" => D!FxSnapshot(c.snap) # "ok"
-----------------------------------------------------------------------------
RawRows == [pair : {1, 2}, direction : {0, 1}, notional : {1, 2}, text : {1, 2}, maturity : {1},
            ratio : {-1, 50}, loose : BOOLEAN]
(* The scenario specs, sorted or not, with none, one or two symmetric      *)
(* pairs; a row's id is a hash of the row, here a number of its own.       *)
Spec3(spot, dfd, dff) == [spot |-> spot, dfd |-> dfd, dff |-> dff]
Specs == {R!Template("STANDARD_7"), R!Template("CRISIS_15"), Spec3(<<7, -7, 7>>, <<0>>, <<0>>),
          Spec3(<<10, 0, -10>>, <<5, 0>>, <<0, -5>>), Spec3(<<-100, 0, 100>>, <<0>>, <<0>>),
          Spec3(<<-7, 0, 7>>, <<1>>, <<0>>)}
Row(p, s, n, r) == [pair |-> p, sign |-> s, notional |-> n, maturity |-> 1, ratio |-> r,
                    id |-> 100 * n + 10 * s + (r + 1) \div 10]
Rows == {Row(p, s, n, r) : p \in {<<1, 9>>, <<2, 9>>, <<1, 8>>}, s \in {1, -1}, n \in {1, 2},
                           r \in {-1, 0, 50}}
RiskCases == [rows : UpTo(1, Rows) \cup {<<Row(<<1, 9>>, 1, 1, r), y>> : r \in {-1, 50}, y \in Rows}, spec : Specs, flip : {1, -1}] \cup [raw : UpTo(2, RawRows)]

Net(rows) == R!SumOf([k \in DOMAIN R!InstrumentIds(rows) |->
               LET c == R!Contract(rows, R!InstrumentIds(rows)[k]) IN c.sign * c.notional])
(* The worst scenario is the lowest of all, however ties of the ids fall   *)
(* and in whatever order rows and shocks were given, which the artifact    *)
(* accepts too; with an unshocked                                          *)
(* scenario it is a loss; the delta explains every pure spot move; and the *)
(* report, which reads the trade off the worst shock, asks for the side    *)
(* the net of the priced contracts asks for.  Rows normalise to the same   *)
(* whatever order and spelling they came in.                               *)
RiskSound(c) ==
  IF "raw" \in DOMAIN c
  THEN LET in == [version |-> "v1", company |-> "c", rows |-> c.raw]
           again == [in EXCEPT !.rows = Reverse(c.raw)]
       IN  /\ I!InputFault(in) = "ok"
           /\ I!Normalized(again) = I!Normalized(in)
           /\ I!Normalized(I!Normalized(in)) = I!Normalized(in)
  ELSE LET digest == [i \in 1..99 |-> c.flip * i]
           market == [spot |-> 2, dfd |-> 1, dff |-> 1]
           s == R!Summary(c.rows, market, c.spec, digest)
           grid == R!Grid(c.spec)
           h == CHOOSE x \in R!Symmetric(c.spec) : TRUE
           losses == R!Losses(R!Cube(c.rows, market, grid), grid)
           pure == {i \in DOMAIN grid : grid[i][2] = 0 /\ grid[i][3] = 0}
       IN  s.fault = "ok" =>
             /\ \A i \in DOMAIN grid : s.loss <= losses[i]
             /\ R!Summary(Reverse(c.rows), market, c.spec, digest) = s
             /\ R!Summary(c.rows, market, [c.spec EXCEPT !.spot = Reverse(@)], digest) = s
             /\ R!ArtifactFault(R!InstrumentIds(c.rows), grid, R!Cube(Reverse(c.rows), market, grid)) = "ok"
             /\ R!NoShock \in ToSet(grid) => s.loss <= 0
             /\ \A i \in pure : 2 * h * losses[i] = s.delta * grid[i][1]
             /\ Net(c.rows) # 0 /\ pure = DOMAIN grid =>
                  H!ActionFromShock(s.worst[1]) = H!TradeAction(Net(c.rows))
-----------------------------------------------------------------------------
Bucket == [loss : {0, -1, -3}, current : {0, 6, 12}, notional : {1, 2}]
LadderCases ==
  [buckets : UpTo(2, Bucket) \cup [1..3 -> {b \in Bucket : b.notional = 1}], target : {0, 1, 3, 7},
   policies : {<<>>, <<H!TemplatePolicy("TREASURY_CONSERVATIVE_50")>>}]
  \cup [days : UpTo(3, {-1, 0, 30, 31, 60, 61}), bounds : {<<30>>, <<30, 60>>}]
(* Every exposure is in one bucket, and earlier buckets hold earlier       *)
(* maturities.  The targets of the buckets add up to the whole, each but   *)
(* the last within half a unit of its share; only a last one below zero    *)
(* can fail; and what the hedges are expected to leave is no more than the *)
(* target and half a unit for each rounded share.  The coverage a report   *)
(* infers is that of the hedged buckets: never below the true one nor      *)
(* above the highest.  Without a policy only a bucket without loss is told *)
(* to hedge less; and where no bucket is told to hedge more, the report    *)
(* adds nothing.                                                           *)
LadderSound(c) ==
  IF "days" \in DOMAIN c
  THEN LET used == H!BucketsInUse(c.days, c.bounds)
           In(k) == H!RowsOf(used[k], c.days, c.bounds)
       IN  /\ UNION {In(k) : k \in DOMAIN used} = DOMAIN c.days
           /\ \A k, l \in DOMAIN used : k < l => \A r \in In(k), q \in In(l) : c.days[r] < c.days[q]
  ELSE LET n == Len(c.buckets)
           all == H!TotalWeight(c.buckets)
           t == H!Targets(c.buckets, c.target)
           h == H!Ladder(c.buckets, c.target, c.policies)
           Off(i) == H!Abs(t[i] * all - c.target * H!Weight(c.buckets[i]))
           ratios == [i \in 1..n |-> h[i].ratio]
           inferred == H!InferredRatio(c.buckets, h)
           Action(i) == H!BucketAction(c.buckets[i], h[i])
       IN  /\ all > 0 => H!Sum(t) = c.target
           /\ all > 0 => \A i \in 1..(n - 1) : 2 * Off(i) <= all
           /\ \A i \in 1..n : h[i].fault # "ok" => i = n /\ t[n] < 0
           /\ (\A i \in 1..n : h[i].fault = "ok") =>
                /\ all > 0 /\ c.policies = <<>> =>
                     2 * H!Sum([i \in 1..n |-> h[i].expected[1]]) <= 2 * c.target + (n - 1)
                /\ inferred # <<>> =>
                     /\ \E i \in 1..n : H!Leq(inferred, ratios[i])
                     /\ H!Leq(<<H!Hedged(c.buckets, h), H!Parts * H!Notional(c.buckets, 1..n)>>, inferred)
                /\ c.policies = <<>> => \A i \in 1..n : Action(i) = "DECREASE_HEDGE" <=>
                     (c.buckets[i].loss = 0 /\ c.buckets[i].current > 0)
                /\ (\A i \in 1..n : Action(i) # "INCREASE_HEDGE") => H!Additional(c.buckets, h) = 0
-----------------------------------------------------------------------------
LimitCases == [net : {0, 2, 4}, current : {0, 100, 300, 500}, ratio : {0, 50, 100},
               limit : [ratio : {-1, 0, 50}, total : {-1, 0, 150}, more : {-1, 0, 100}]]
(* Bounds that are whole percents, and bounds half way or nearly to one.   *)
Policies == [min : {<<0, 1>>, <<1, 4>>}, max : {<<1, 2>>, <<7, 10>>, <<6, 5>>}, lot : BOOLEAN, overhedge : BOOLEAN]
            \cup [min : {<<0, 1>>, <<1, 8>>}, max : {<<16, 125>>, <<3, 8>>}, lot : BOOLEAN, overhedge : {FALSE}]
PolicyCases == [policy : Policies,
                loss : {0, -1, -4, -7}, current : {0, 3, 12}, target : {0, 1, 3, 5}]
ExposureRows == [ccy : {1, 2}, amount : {-1, 0, 1}, days : {-1, 5}, kind : {"PAYABLE", "OTHER"}]
BoundsCases == LimitCases \cup PolicyCases \cup [exposures : {<<>>} \cup UpTo(2, ExposureRows)]
(* A recommendation never unwinds a hedge, stays within the exposure and   *)
(* leaves no more than the target or the present loss.  A policy keeps its *)
(* ratio within its bounds or, when it rounds, within the whole percents   *)
(* nearest to them.  Limits add no more than any one of them leaves beside *)
(* the present hedge.  Whatever is cut is bound to be approved.  Exposures *)
(* are taken in any order or in none, and exactly if each would be taken   *)
(* alone and no two are the same.                                          *)
BoundsSound(c) ==
  IF "exposures" \in DOMAIN c
  THEN LET Taken(rows) == H!ExposureFault(rows, 1) = "ok"
       IN  Taken(c.exposures) <=> /\ c.exposures # <<>> /\ Cardinality(ToSet(c.exposures)) = Len(c.exposures)
                                  /\ \A row \in ToSet(c.exposures) : Taken(<<row>>)
  ELSE IF "limit" \in DOMAIN c
  THEN LET r == H!Limits(c.limit, c.net, c.current, c.ratio)
           asked == c.net * c.ratio
           Set(x) == x # H!None
       IN  /\ r.more >= 0 /\ (c.net > 0 /\ Set(c.limit.more) => r.more <= c.limit.more)
           /\ r.more > 0 => /\ r.total = c.current + r.more /\ r.total <= asked
                            /\ Set(c.limit.total) => r.total <= c.limit.total
                            /\ Set(c.limit.ratio) => r.total <= c.net * c.limit.ratio
           /\ r.total < asked => H!RequiresApproval(r.bindings, r.unmet)
           /\ r.unmet # "none" => r.bindings # {} /\ r.total < asked
  ELSE LET rec == H!Recommend(c.loss, c.current, c.target)
           out == H!ApplyPolicy(c.policy, rec.ratio)
           high == IF c.policy.overhedge THEN c.policy.max ELSE H!Lower(c.policy.max, <<1, 1>>)
           Bound(x) == IF c.policy.lot THEN H!Percent(x) ELSE x
       IN  /\ H!Leq(<<c.current, H!One>>, rec.ratio) /\ H!Leq(rec.ratio, <<1, 1>>)
           /\ H!Leq(rec.expected, H!Whole(H!Abs(c.loss)))
           /\ H!Leq(rec.expected, H!Whole(c.target))
           /\ H!Leq(Bound(c.policy.min), out.ratio) /\ H!Leq(out.ratio, Bound(high))
           /\ ~ H!Same(out.ratio, rec.ratio) => H!RequiresApproval(out.bindings, out.unmet)
           /\ out.unmet # "none" => ~ H!Leq(rec.ratio, out.ratio)
=============================================================================
