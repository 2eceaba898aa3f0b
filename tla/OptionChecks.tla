---------------------------- MODULE OptionChecks ----------------------------
(* What the contracts, the exchange of artifacts, the resolver and the     *)
(* kernels of options promise, and the inputs they are checked on.         *)
EXTENDS Integers, Sequences, FiniteSets, SequencesExt, TLC
C == INSTANCE Contracts
X == INSTANCE OptionExchange
N == INSTANCE OptionInputs
P == INSTANCE OptionPricing

UpTo(n, S) == UNION {[1..k -> S] : k \in 1..n}
-----------------------------------------------------------------------------
Tables == {C!Money, C!OptionContractV1, C!OptionRuntimeContractV1, C!FxOptionRuntimeContractV1,
  C!ResolvedAmericanLatticePolicyV1, C!ResolvedSpotInputV1, C!ResolvedRatePointV1, C!ResolvedCurveInputV1,
  C!ResolvedVolatilityPointV1, C!ResolvedVolatilityInputV1, C!ResolvedConventionBasisV1,
  C!NumericalPolicySnapshotV1, C!ResolvedFxKernelScalarsV1, C!ResolvedOptionValuationInputsV1,
  C!ResolvedFxOptionValuationInputsV1, C!OptionLifecycleEventRefV1, C!OptionPremiumCashflowRefV1,
  C!OptionSettlementOutcomeV1, C!OptionPostEventRecomputeRefV1, C!OptionLifecycleOutcomeV1,
  C!OptionValuationDependencyBundleV1, C!OptionValuationRequirementsV1, C!FxOptionValuationRequirementsV1,
  C!ModelCapability, C!ModelRegistryEntry, C!ReferenceDataSet, C!ValuationContext, C!ValuationPolicySet,
  C!ValuationRun, C!ValuationMeasureResultV2}
Odd == {"exact", "spelled", "padded", "unknown", "number", "blank", "wrong", "none", "true", "positive", "zero",
        "negative", "naive", "aware"}
Usual(kind) == IF "exact" \in DOMAIN kind THEN "exact"
               ELSE IF "positive" \in DOMAIN kind THEN "positive"
               ELSE IF "aware" \in DOMAIN kind THEN "aware" ELSE CHOOSE f \in DOMAIN kind : TRUE
As(step, form) == IF step.many = "one" THEN <<form, 1>>
                  ELSE IF form = "none" THEN <<>> ELSE << <<form, 1>>, <<Usual(step.kind), 1>> >>
Usually(step) == IF step.many = "one" THEN <<Usual(step.kind), 1>> ELSE << <<Usual(step.kind), 1>> >>
(* All fields of a table as they should be but two neighbours.             *)
Raw(table, i, f, g) == [name \in {table[k].field : k \in DOMAIN table} |->
  LET k == CHOOSE n \in DOMAIN table : table[n].field = name
  IN  IF k = i THEN As(table[k], f) ELSE IF k = i + 1 THEN As(table[k], g) ELSE Usually(table[k])]
ContractCases == UNION {[table : {t}, at : DOMAIN t, f : Odd, g : Odd] : t \in Tables}
                 \cup [form : Odd, style : Odd, family : Odd, measure : Odd]
Capability(c, table) == C!Build(table, [instrument_family |-> <<c.family, 1>>, exercise_style |-> <<c.style, 1>>,
  measure |-> <<c.measure, 1>>, payoff_family |-> <<"exact", 1>>, option_type |-> <<"exact", 1>>,
  requested_measures |-> << <<c.measure, 1>> >>, required_market_inputs |-> << <<"exact", 1>> >>])
(* What a constructor makes, it makes again of itself: objects are rebuilt *)
(* at every boundary.  What it makes of values in other letters or with    *)
(* blanks around differs from what it makes of the usual ones in no field  *)
(* that has a set of names.  A capability that a registry entry keeps in   *)
(* other letters is never one that requirements ask for.                   *)
ContractsSound(c) ==
  IF "table" \in DOMAIN c
  THEN LET made == C!Build(c.table, Raw(c.table, c.at, c.f, c.g))
           kept(k) == made.is[c.table[k].field]
       IN  made.fault = "ok" =>
             /\ C!Build(c.table, made.is) = made
             /\ \A k \in DOMAIN c.table :
                  (c.table[k].many = "one" /\ "unknown" \notin DOMAIN c.table[k].kind) =>
                    kept(k)[1] \notin {"spelled", "padded"}
  ELSE LET asked == Capability(c, C!OptionValuationRequirementsV1)
           entry == Capability(c, C!ModelCapability)
       IN  asked.fault = "ok" /\ entry.fault = "ok" =>
             \A n \in C!RequiredCapabilities(asked.is) :
               n = <<entry.is.instrument_family, entry.is.exercise_style, entry.is.measure>>
               <=> "spelled" \notin {c.family, c.style, c.measure}
-----------------------------------------------------------------------------
Measure(i, v, spelling, method, bump) ==
  [measure_name |-> <<"measure", i>>, value |-> <<v, <<i, spelling>>>>, method_kind |-> <<method, method>>,
   measure_policy_id |-> <<"exact", i>>,
   bump_policy_id |-> bump, tolerance_policy_id |-> bump]
None == <<"none", "none">>
(* Results of the nine measures or the three, with parts of theta's        *)
(* lineage, a last measure of some method, and one text written oddly.     *)
Results == {[k \in ToSet(C!LineageV2) |-> IF k = "model_version" THEN <<text, k>> ELSE <<"exact", k>>]
     @@ [k \in ToSet(C!ThetaLineage) |->
          IF ~ \E i \in 1..theta : C!ThetaLineage[i] = k THEN None ELSE <<"exact", k>>]
     @@ ("valuation_measures" :> [i \in DOMAIN names |->
          IF i = Len(names) THEN Measure(names[i], v, spelling, method, bump)
          ELSE Measure(names[i], "positive", spelling, "model_direct", None)]) :
   text \in {"exact", "padded", "blank"}, theta \in 0..3, names \in {C!PhaseC, C!PhaseD, <<2, 1, 3>>, <<1>>},
   v \in {"positive", "zero", "text"}, spelling \in {"canonical", "1.0", "-0"},
   method \in {"model_direct", "numerical_bump_reprice", "guess"}, bump \in {None, <<"exact", 1>>, <<"padded", 1>>}}
ExchangeCases == [result : Results]
ResultFault(r) == C!FirstNamed([i \in DOMAIN r.valuation_measures |-> C!MeasureFault(r.valuation_measures[i])]
                               \o <<C!ResultV2Fault(r)>>)
Other == <<"exact", "other">>
Without(f, k) == [x \in DOMAIN f \ {k} |-> f[x]]
(* An import takes exactly the payloads of results the constructors take,  *)
(* and makes of them a result with the same payload and hash.  An export   *)
(* takes what was built, also after an import; with any text of the result *)
(* or any number replaced it refuses, but a number may be spelled anew.  A *)
(* first version renamed or altered cannot even be constructed.            *)
(* A payload lacking a key, with one more, or null in place of a text is   *)
(* never imported.                                                         *)
ExchangeSound(c) ==
  LET r == c.result
      p == X!Payload(r)
      Altered(k) == [r EXCEPT ![k] = Other]
      Number(d) == [r EXCEPT !.valuation_measures[1].value = d]
      first == r.valuation_measures[1].value
      Refused(q) == X!ImportFault(q) # "ok"
  IN  /\ X!ImportFault(p) = "ok" <=> ResultFault(r) = "ok"
      /\ ResultFault(r) = "ok" =>
           /\ X!Import(p).canonical_payload_hash = X!Hash(r) /\ X!Payload(X!ResultOf(p)) = p
           /\ X!ExportFault(X!BuildArtifact(r)) = "ok" /\ X!ExportFault(X!Import(p)) = "ok"
           /\ X!ArtifactV2Fault(X!Import(p)) = "ok" /\ X!ArtifactV1Fault(X!BuildArtifactV1(r)) = "ok"
           /\ C!ResultV1Fault(r) = "ok" <=> C!NamesOf(r.valuation_measures) = C!PhaseC
           /\ X!ArtifactV1Fault([X!BuildArtifactV1(r) EXCEPT !.artifact_contract_name = Other]) # "ok"
           /\ X!ArtifactV1Fault([X!BuildArtifactV1(r) EXCEPT !.valuation_result = Altered("model_name")]) # "ok"
           /\ \A k \in ToSet(C!LineageV2) : X!ExportFault([X!BuildArtifact(r) EXCEPT !.valuation_result = Altered(k)]) # "ok"
           /\ X!ExportFault([X!BuildArtifact(r) EXCEPT !.valuation_result = Number(<<"positive", <<99, "1">>>>)]) # "ok"
           /\ X!ExportFault([X!BuildArtifact(r) EXCEPT !.valuation_result = Number(<<first[1], <<first[2][1], "again">>>>)]) = "ok"
           /\ \A k \in X!TopKeys : Refused(Without(p, k))
           /\ \A k \in ToSet(C!LineageV2) : Refused([p EXCEPT ![k] = <<"null", "none">>])
           /\ Refused(p @@ ("more" :> <<"null", "none">>))
           /\ \A k \in X!MeasureKeys :
                Refused([p EXCEPT !.valuation_measures[2][1] = <<"object", Without(@[2], k)>>])
-----------------------------------------------------------------------------
Tenors == {<<1, "M">>, <<1, "m">>, <<2, "D">>, <<10, "D">>, <<25, "years">>}
Quotes == {[parts |-> 4, tenor |-> t, strike |-> k, right |-> r, vol |-> v] :
             t \in Tenors, k \in {<<"*">>, <<3, "1">>, <<3, "1.0">>, <<4, "1">>}, r \in {99, 112}, v \in {0, 1}}
Few == {q \in Quotes : q.strike \in {<<"*">>, <<4, "1">>} /\ q.right = 99 /\ q.vol = 1}
Curve == [t \in {<<1, "M">>, <<1, "m">>, <<2, "D">>, <<10, "D">>, N!Flat} |-> t[1]]
Surface(quotes, vol) == [dict |-> TRUE, quotes |-> quotes, vol |-> vol]
Snapshot(vols) == [spots |-> [p \in {"pair"} |-> 5], dayCount |-> "d",
                   curves |-> [i \in {"dom", "for"} |-> Curve], vols |-> vols]
Option(type) == [type |-> type, id |-> 1, pair |-> "pair", strike |-> <<3, "1">>, domestic |-> "dom", foreign |-> "for",
                 surface |-> "s"]
(* The same world seen through two snapshots, valued at two times.         *)
World(surface1, surface2) ==
  [snapshots |-> [m1 |-> Snapshot(surface1), m2 |-> Snapshot(surface2)],
   references |-> [r |-> [holidays |-> <<1>>, settlements |-> <<1>>, dayCounts |-> <<"e", "d">>]],
   policies |-> [p |-> "n"], numerics |-> [n |-> [type |-> "NumericalPolicySnapshotV1", id |-> "n", broken |-> FALSE]],
   contexts |-> [c1 |-> [snapshot |-> "m1", reference |-> "r", policy |-> "p", at |-> 1],
                 c2 |-> [snapshot |-> "m2", reference |-> "r", policy |-> "p", at |-> 2]]]
Bundle(type, snapshot, context) ==
  [contract |-> Option(type), snapshot |-> snapshot, reference |-> "r", policy |-> "p", context |-> context]
Fx == "FxOptionRuntimeContractV1"
Of(data) == << [s |-> data] >>
ResolveCases == [one : {Of(Surface(q, <<>>)) : q \in UpTo(2, Quotes)}, two : {<<>>}]
  \cup [one : {Of(Surface(q, <<>>)) : q \in UpTo(2, Few)}, two : {Of(Surface(q, <<>>)) : q \in UpTo(2, Few)}]
  \cup [one : {<<>>, << <<>> >>, Of(Surface(<<>>, <<1>>)), Of(Surface(<<>>, <<0>>)), Of(Surface(<<>>, <<>>))},
        two : {<<>>, Of(Surface(<<>>, <<1>>))}]
Given(surface) == surface[1].s.quotes
(* What is resolved does not depend on the order of a surface's quotes.    *)
(* The time to expiry is positive, so the label is a tenor: never "atm",   *)
(* so a flat surface never resolves, nor a number of years first in order. *)
(* A call and a put at one node never resolve together, nor a starred      *)
(* strike beside the contract's own; the strike spelled otherwise does.    *)
(* Theta is prepared exactly from a first label of fewer days; time that   *)
(* passes between two valuations of one surface never prepares it.         *)
ResolveSound(c) ==
  LET w == World(c.one, c.two)
      back == World(Of([c.one[1].s EXCEPT !.quotes = Reverse(@)]), c.two)
      b1 == Bundle(Fx, "m1", "c1")
      b2 == Bundle(Fx, "m2", "c2")
      resolved == N!ResolveFxFault(w, b1) = "ok"
      in == N!ResolveFx(w, b1)
      in2 == N!ResolveFx(w, b2)
      plain == Bundle("OptionRuntimeContractV1", "m1", "c1")
  IN  /\ N!ResolveFxFault(w, plain) # "ok" /\ N!ResolveFault(w, plain) = "ok" /\ N!ResolveFault(w, b1) # "ok"
      /\ N!Resolve(w, plain).basis[1] # "d"
      /\ N!ResolveFxFault(w, Bundle(Fx, "m1", "c2")) # "ok" /\ N!ResolveFxFault(w, Bundle(Fx, "m3", "c1")) # "ok"
      /\ c.one # <<>> /\ "s" \in DOMAIN c.one[1] =>
           (N!ResolveFxFault(back, b1) = "ok") = resolved /\ (resolved => N!ResolveFx(back, b1) = in)
      /\ resolved =>
           /\ in.scalars.time > 0 /\ in.scalars.domestic = in.scalars.foreign
           /\ Given(c.one) # <<>>
           /\ \A q, z \in ToSet(Given(c.one)) : q.tenor = z.tenor /\ q # z =>
                /\ q.strike # z.strike
                /\ {q.strike, z.strike} # {<<"*">>, <<3, "1">>}
      /\ (resolved /\ N!ResolveFxFault(w, b2) = "ok") =>
           /\ N!PrepareFault(in, in2) = "ok" <=>
                in2.nodes[1].tenor \in {<<2, "D">>, <<10, "D">>} /\ in2.scalars.time < in.scalars.time
           /\ c.one = c.two => N!PrepareFault(in, in2) # "ok"
           /\ N!PrepareFault(in, in2) = "ok" => N!BoundaryReference(in, in2)[1] # N!BoundaryReference(in, in2)[2]
-----------------------------------------------------------------------------
KernelCases == [s : -1..1, k : -1..1, rd : {-1, 0, 1}, rf : {-1, 0, 1}, vol : {-1, 0, 1}, time : {0, 1}]
LatticeCases == [spot : {2, 3}, strike : {1, 2, 3}, rd : {-1, 0, 1}, rf : {-1, 0, 1}, vol : {0, 1}, time : {0, 1},
                 steps : {1, 2}, right : {"call", "put"}]
PriceCases == KernelCases \cup LatticeCases
Kernel(c, right) == P!Measures([x \in DOMAIN c \cup {"right"} |-> IF x = "right" THEN right ELSE c[x]])
(* A call less a put is the forward, in each of the nine measures: delta   *)
(* by the foreign discount, gamma and vega by nothing.                     *)
KernelSound(c) ==
  LET call == Kernel(c, "call")
      put == Kernel(c, "put")
      Forward(o) == 16 * (P!Discounted(o).spot - P!Discounted(o).strike)
      pv == Forward(c)
      spot == 16 * (P!E(c.s) - P!E(c.k))
  IN  P!EuropeanFault("ResolvedFxOptionValuationInputsV1", c @@ ("right" :> "call"), "european", "exact") = "ok" =>
      [i \in 1..9 |-> call[i] - put[i]] =
        <<pv, spot, pv - spot, 16 * P!E(-c.rf * c.time), 0, 0, Forward([c EXCEPT !.time = @ + 1]) - pv,
          Forward([c EXCEPT !.rd = @ + 1]) - pv, Forward([c EXCEPT !.rf = @ + 1]) - pv>>
(* An American option is worth no less than its exercise and than the      *)
(* European one, and no more than that when the rates make waiting free;   *)
(* its value rises with the volatility, is convex in the spot, moves with  *)
(* it as its right says, and rolled to expiry it is worth no more.         *)
LatticeSound(o) ==
  LET m == P!AmericanMeasures(o, 1, [o EXCEPT !.time = 0])
      sign == IF o.right = "call" THEN 1 ELSE -1
      free == sign * o.rd >= 0 /\ sign * o.rf <= 0
  IN  /\ P!EngineFault(o, "american", "exact") = "ok" =>
           /\ P!American(o) >= P!European(o) /\ P!American(o) >= P!Intrinsic(o)
           /\ free => P!American(o) = P!European(o)
      /\ P!MeasuresFault(o, o, 1, [o EXCEPT !.time = 0]) = "ok" =>
           /\ m[3] >= 0 /\ sign * m[4] >= 0 /\ m[5] >= 0 /\ m[7] <= 0
           /\ o.time > 0 => m[6] >= 0
PriceSound(c) == IF "steps" \in DOMAIN c THEN LatticeSound(c) ELSE KernelSound(c)
=============================================================================
