----------------------------- MODULE Contracts -----------------------------
(***************************************************************************)
(* The immutable contracts of option valuation.  Each is a list of fields, *)
(* in the order its constructor checks them, and each field has a kind.    *)
(*                                                                         *)
(* A raw value is <<form, v>>: form says how it is written, v which value  *)
(* it is.  A text is "exact", "spelled" in other letters, "padded" with    *)
(* blanks, "unknown" (outside the names a field takes, or not of three     *)
(* letters), "number" (digits), "blank" or "wrong" (not a text).  A kind   *)
(* is a function from the forms it takes to the forms it keeps.            *)
(***************************************************************************)
EXTENDS Common, TLC, SequencesExt

Same(forms) == [f \in forms |-> f]
Exact(forms) == [f \in forms |-> "exact"]
Text == Same({"exact", "spelled", "unknown", "number"})
Loose == Text @@ Same({"padded"})
Stripped == Text @@ Exact({"padded"})
Choice == Exact({"exact", "spelled"})              \* lower-cased, of a known set
LooseChoice == Choice @@ Exact({"padded"})
Token == Choice @@ Same({"unknown", "number"})     \* lower-cased, any text
Currency == Exact({"exact", "spelled"})            \* upper-cased, three letters
LooseCurrency == LooseChoice @@ Same({"number"})   \* upper-cased, three characters
Exactly == Same({"exact"})
Positive == ("number" :> "positive") @@ Same({"positive"})
Finite == Positive @@ Same({"zero", "negative"})
AtLeastZero == Positive @@ Same({"zero"})
Decimal == Same({"positive", "zero", "negative"})  \* given as a Decimal
Count == Same({"positive", "true"})                \* True is an int
StrictCount == Same({"positive"})
Places == Count @@ Same({"zero"})
Date == Same({"date", "naive", "aware"})           \* a datetime is a date
Time == Same({"time"})
Moment == Same({"aware"})
Optional(kind) == kind @@ Same({"none"})
Object(types) == Same(types)

(* Fields with one value; with a tuple, that has entries, that has none    *)
(* twice once they are read, or that may be empty.                         *)
One(field, kind) == [field |-> field, kind |-> kind, many |-> "one"]
Some(field, kind) == [field |-> field, kind |-> kind, many |-> "some"]
Unique(field, kind) == [field |-> field, kind |-> kind, many |-> "unique"]
Several(field, kind) == [field |-> field, kind |-> kind, many |-> "any"]
All(names, kind) == [i \in DOMAIN names |-> One(names[i], kind)]

Kept(kind, raw) == <<kind[raw[1]], raw[2]>>
Read(step, raw) ==
  IF step.many = "one" THEN Kept(step.kind, raw) ELSE [i \in DOMAIN raw |-> Kept(step.kind, raw[i])]
Refuses(step, raw) ==
  IF step.many = "one" THEN raw[1] \notin DOMAIN step.kind
  ELSE \/ \E i \in DOMAIN raw : raw[i][1] \notin DOMAIN step.kind
       \/ step.many # "any" /\ raw = <<>>
       \/ step.many = "unique" /\ \E i, j \in DOMAIN raw :
            i # j /\ Kept(step.kind, raw[i]) = Kept(step.kind, raw[j])
(* The object a constructor makes of raw values, or the first field it     *)
(* refuses.                                                                *)
Build(table, raw) == FoldLeft(
  LAMBDA made, step :
    IF made.fault # "ok" THEN made
    ELSE IF Refuses(step, made.is[step.field]) THEN [made EXCEPT !.fault = step.field]
    ELSE [made EXCEPT !.is[step.field] = Read(step, @)],
  [fault |-> "ok", is |-> raw], table)
-----------------------------------------------------------------------------
Money == <<One("amount", Finite @@ ("true" :> "positive")), One("ccy", Choice)>>
OptionContractV1 ==
  All(<<"instrument_id", "underlying">>, Loose) \o <<One("option_type", LooseChoice)>>
  \o All(<<"strike", "notional">>, Positive) \o <<One("expiry", Moment)>>
  \o All(<<"domestic_ccy", "foreign_ccy">>, LooseCurrency)
  \o <<One("time_fraction_policy_id", LooseChoice), One("contract_version", Exactly)>>
OptionRuntimeContractV1 ==
  All(<<"contract_id", "underlying_instrument_ref">>, Text)
  \o All(<<"option_type", "exercise_style">>, Choice)
  \o <<One("strike", Positive), One("expiry_date", Date), One("notional", Positive),
       One("notional_currency", Currency)>>
FxOptionRuntimeContractV1 ==
  <<One("contract_id", Text), One("currency_pair_orientation", Token)>>
  \o All(<<"base_currency", "quote_currency">>, Currency)
  \o All(<<"option_type", "exercise_style">>, Choice)
  \o <<One("strike", Positive), One("expiry_date", Date), One("expiry_cutoff_time", Time),
       One("expiry_cutoff_timezone", Text), One("notional", Positive),
       One("notional_currency_semantics", Token), One("premium_currency", Currency),
       One("premium_payment_date", Date), One("settlement_style", Choice),
       One("settlement_date", Date), Some("settlement_calendar_refs", Text),
       One("fixing_source", Text), One("fixing_date", Date)>>
  \o All(<<"domestic_curve_id", "foreign_curve_id", "volatility_surface_quote_convention">>, Text)
ResolvedAmericanLatticePolicyV1 ==
  <<One("model_family_id", Exactly), One("step_count", StrictCount)>>
  \o All(<<"early_exercise_policy_id", "convergence_policy_id", "edge_case_policy_id",
           "bump_policy_id", "tolerance_policy_id">>, Exactly)
-----------------------------------------------------------------------------
ResolvedSpotInputV1 == <<One("underlying_instrument_ref", Text), One("spot", Positive)>>
ResolvedRatePointV1 == <<One("tenor_label", Text), One("zero_rate", Finite)>>
(* The value of a rate point is its tenor, of a volatility point its tenor *)
(* and the text of its strike, so that 1 and 1.0 are two nodes.            *)
SurfaceFields == All(<<"id", "quote_convention", "interpolation_method", "extrapolation_policy">>, Text)
  \o <<One("basis_timestamp", Moment), One("source_lineage_ref", Text)>>
ResolvedCurveInputV1 == SurfaceFields \o <<Unique("points", Object({"ResolvedRatePointV1"}))>>
ResolvedVolatilityPointV1 == <<One("tenor_label", Text)>> \o All(<<"strike", "implied_vol">>, Positive)
ResolvedVolatilityInputV1 == SurfaceFields \o <<Unique("points", Object({"ResolvedVolatilityPointV1"}))>>
ResolvedConventionBasisV1 ==
  <<One("day_count_basis", Text), Some("calendar_set", Text), Some("settlement_conventions", Text),
    Some("premium_conventions", Text)>>
NumericalPolicySnapshotV1 ==
  <<One("numeric_policy_id", Text), One("tolerance", Positive), One("max_iterations", Count),
    One("rounding_decimals", Places)>>
ResolvedFxKernelScalarsV1 ==
  All(<<"domestic_rate", "foreign_rate", "volatility", "time_to_expiry_years">>, Finite)
  \o All(<<"volatility", "time_to_expiry_years">>, AtLeastZero)
ResolvedOptionValuationInputsV1 ==
  <<One("option_contract", Object({"OptionRuntimeContractV1"})), One("valuation_timestamp", Moment),
    One("resolved_underlying_input", Object({"ResolvedSpotInputV1"})),
    One("resolved_convention_basis", Object({"ResolvedConventionBasisV1"})),
    One("numerical_policy_snapshot", Object({"NumericalPolicySnapshotV1"})),
    One("resolved_basis_hash", Text)>>
ResolvedFxOptionValuationInputsV1 ==
  <<One("fx_option_contract", Object({"FxOptionRuntimeContractV1"})), One("valuation_timestamp", Moment),
    One("spot", Object({"ResolvedSpotInputV1"})), One("domestic_curve", Object({"ResolvedCurveInputV1"})),
    One("foreign_curve", Object({"ResolvedCurveInputV1"})),
    One("volatility_surface", Object({"ResolvedVolatilityInputV1"})), One("day_count_basis", Text),
    Some("calendar_set", Text), Some("settlement_conventions", Text), Some("premium_conventions", Text),
    One("numerical_policy_snapshot", Object({"NumericalPolicySnapshotV1"})),
    One("resolved_kernel_scalars", Object({"ResolvedFxKernelScalarsV1"})),
    One("resolved_basis_hash", Text)>>
-----------------------------------------------------------------------------
OptionLifecycleEventRefV1 ==
  All(<<"event_id", "contract_id">>, Text)
  \o <<One("event_type", Choice), One("event_timestamp", Moment), One("valuation_context_id", Text)>>
OptionPremiumCashflowRefV1 ==
  All(<<"premium_cashflow_id", "contract_id">>, Text)
  \o <<One("premium_currency", Currency), One("premium_payment_date", Date),
       One("premium_amount", Positive)>>
OptionSettlementOutcomeV1 ==
  All(<<"settlement_outcome_id", "contract_id">>, Text)
  \o <<One("settlement_style", Choice), One("settlement_date", Date),
       One("settlement_currency", Currency), One("settlement_amount", Positive)>>
OptionPostEventRecomputeRefV1 ==
  All(<<"recompute_ref_id", "source_event_id", "valuation_context_id",
        "valuation_dependency_bundle_id">>, Text)
AnyContract == Object({"OptionRuntimeContractV1", "FxOptionRuntimeContractV1"})
OptionLifecycleOutcomeV1 == <<One("option_contract", AnyContract), One("outcome_state", Choice)>>
OptionValuationDependencyBundleV1 ==
  <<One("option_contract", AnyContract)>>
  \o All(<<"market_snapshot_id", "reference_data_set_id", "valuation_policy_set_id",
           "valuation_context_id">>, Text)
-----------------------------------------------------------------------------
OptionValuationRequirementsV1 ==
  <<One("instrument_family", Token)>>
  \o All(<<"payoff_family", "option_type", "exercise_style">>, Choice)
  \o <<Unique("requested_measures", Token), Unique("required_market_inputs", Token)>>
FxOptionValuationRequirementsV1 ==
  <<One("instrument_family", Token)>>
  \o All(<<"payoff_family", "option_type", "exercise_style", "settlement_style">>, Choice)
  \o <<Unique("requested_measures", Token), Unique("required_market_inputs", Token)>>
RequiredCapabilities(is) ==
  {<<is.instrument_family, is.exercise_style, is.requested_measures[i]>> : i \in DOMAIN is.requested_measures}
ModelCapability == All(<<"instrument_family", "exercise_style", "measure">>, Text)
ModelRegistryEntry ==
  All(<<"model_id", "semantic_version", "implementation_version", "owner", "benchmark_pack_id",
        "numeric_policy_id">>, Text)
  \o <<One("validation_status", Exactly), One("approval_date", Date), Several("known_limitations", Text),
       Some("supported_capabilities", Object({"ModelCapability"}))>>
ReferenceDataSet ==
  All(<<"calendar_version", "reference_data_version_id">>, Loose)
  \o [i \in 1..7 |-> Several(<<"holiday_calendar_refs", "day_count_convention_refs",
        "business_day_adjustment_refs", "settlement_convention_refs", "fixing_source_refs",
        "exercise_convention_refs", "taxonomy_mapping_refs">>[i], Stripped)]
ValuationContext ==
  All(<<"valuation_context_id", "market_snapshot_id", "reference_data_set_id",
        "valuation_policy_set_id", "pricing_currency", "reporting_currency", "run_purpose">>, Loose)
  \o <<One("valuation_timestamp", Moment)>>
  \o All(<<"pricing_currency", "reporting_currency">>, LooseCurrency)
ValuationPolicySet ==
  All(<<"valuation_policy_id", "model_family", "pricing_engine_policy", "numeric_policy_id",
        "tolerance_policy_id", "calibration_recipe_id", "approval_status", "policy_version",
        "policy_owner">>, Loose)
  \o <<One("created_timestamp", Moment)>>
ValuationRun ==
  All(<<"valuation_run_id", "portfolio_state_id", "market_snapshot_id", "reference_data_set_id",
        "valuation_policy_set_id", "valuation_context_id", "scenario_set_id", "software_build_hash",
        "run_purpose">>, Text)
  \o All(<<"run_timestamp", "valuation_timestamp">>, Moment)
-----------------------------------------------------------------------------
(* Measures and results.  Names and methods are members of closed enums; a *)
(* numerical measure names its bump and its tolerance.  A decimal's value  *)
(* is <<number, spelling>>.                                                *)
ValuationMeasureResultV1 == <<One("measure_name", Object({"measure"})), One("value", Decimal)>>
ValuationMeasureResultV2 == ValuationMeasureResultV1
  \o <<One("method_kind", Object({"model_direct", "numerical_bump_reprice"})), One("measure_policy_id", Text)>>
  \o All(<<"bump_policy_id", "tolerance_policy_id">>, Optional(Text))
MeasureFault(m) == FirstNamed(<<
  Build(ValuationMeasureResultV2, m).fault,
  IF m.method_kind[1] = "numerical_bump_reprice" /\ m.bump_policy_id[1] = "none" THEN "bump required" ELSE "ok",
  IF m.method_kind[1] = "numerical_bump_reprice" /\ m.tolerance_policy_id[1] = "none" THEN "tolerance required" ELSE "ok">>)
LineageV1 == <<"engine_name", "engine_version", "model_name", "model_version", "resolved_input_contract_name",
               "resolved_input_contract_version", "resolved_input_reference">>
LineageV2 == LineageV1 \o <<"resolved_lattice_policy_contract_name", "resolved_lattice_policy_contract_version",
                             "resolved_lattice_policy_reference">>
ThetaLineage == <<"theta_roll_boundary_contract_name", "theta_roll_boundary_contract_version",
                  "theta_roll_boundary_reference">>
(* The nine measures in their order, and the three a model gives directly. *)
PhaseC == [i \in 1..9 |-> i]
PhaseD == <<1, 2, 3>>
NamesOf(measures) == [i \in DOMAIN measures |-> measures[i].measure_name[2]]
ResultV1Fault(r) == FirstNamed(<<
  Build(All(LineageV1, Text), r).fault,
  IF NamesOf(r.valuation_measures) # PhaseC THEN "valuation_measures" ELSE "ok">>)
(* A result of version 2: the lineage of theta is all there or not at all, *)
(* with the nine measures and only with them.                              *)
ResultV2Fault(r) ==
  LET given == {i \in DOMAIN ThetaLineage : r[ThetaLineage[i]][1] # "none"}
      names == NamesOf(r.valuation_measures)
  IN  FirstNamed(<<
        Build(All(LineageV2, Text), r).fault,
        IF given \notin {{}, {1, 2, 3}} THEN "theta lineage" ELSE "ok",
        Build(All(SubSeq(ThetaLineage, 1, 2), Optional(Exactly)) \o <<One(ThetaLineage[3], Optional(Text))>>, r).fault,
        IF names \notin {PhaseC, PhaseD} THEN "valuation_measures" ELSE "ok",
        IF names = PhaseD /\ given # {} THEN "theta lineage" ELSE "ok",
        IF names = PhaseC /\ given = {} THEN "theta lineage" ELSE "ok">>)
=============================================================================
