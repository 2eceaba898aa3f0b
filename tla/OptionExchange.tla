-------------------------- MODULE OptionExchange --------------------------
(***************************************************************************)
(* Artifacts of priced options: the canonical payload of a result, its     *)
(* hash, which is taken as injective, the artifact, its export and its     *)
(* import.  A JSON value is <<type, value>>; a JSON string carries a text  *)
(* as the contracts write it, <<form, v>>.                                 *)
(***************************************************************************)
EXTENDS Contracts

Str(text) == <<"string", text>>
OrNull(text) == IF text[1] = "none" THEN <<"null", "none">> ELSE Str(text)
(* The canonical text of a decimal forgets how it was written, and the     *)
(* sign of zero.                                                           *)
CanonicalText(decimal) == <<decimal[1], <<decimal[2][1], "canonical">>>>
PayloadMeasure(m) ==
  [measure_name |-> Str(m.measure_name), value |-> Str(CanonicalText(m.value)), method_kind |-> Str(m.method_kind),
   measure_policy_id |-> Str(m.measure_policy_id), bump_policy_id |-> OrNull(m.bump_policy_id),
   tolerance_policy_id |-> OrNull(m.tolerance_policy_id)]
Payload(r) ==
  [k \in ToSet(LineageV2) |-> Str(r[k])] @@ [k \in ToSet(ThetaLineage) |-> OrNull(r[k])]
  @@ ("valuation_measures" :> <<"list", [i \in DOMAIN r.valuation_measures |->
                                           <<"object", PayloadMeasure(r.valuation_measures[i])>>]>>)
Hash(r) == <<"sha256", Payload(r)>>
Artifact(contract, version, result, hash) ==
  [artifact_contract_name |-> contract, artifact_contract_version |-> version, valuation_result |-> result,
   canonical_payload_hash |-> hash]
Named(text) == <<"exact", text>>
BuildArtifact(r) == Artifact(Named("OptionPricingArtifactV2"), Named("2.0.0"), r, Hash(r))
(* An artifact of version 2 has its one name, and compares no hash; of     *)
(* version 1 any name, which its hash covers, and it compares the hash     *)
(* with its result itself.                                                 *)
ArtifactV2Fault(a) == FirstFault(<<
  <<"artifact_contract_name", a.artifact_contract_name # Named("OptionPricingArtifactV2")>>,
  <<"artifact_contract_version", a.artifact_contract_version # Named("2.0.0")>>,
  <<"canonical_payload_hash", a.canonical_payload_hash[1] # "sha256">> >>)
PayloadV1(contract, version, r) ==
  <<contract, version, [k \in ToSet(LineageV1) |-> r[k]],
    [i \in DOMAIN r.valuation_measures |->
       <<r.valuation_measures[i].measure_name, CanonicalText(r.valuation_measures[i].value)>>]>>
HashV1(contract, version, r) == <<"sha256", PayloadV1(contract, version, r)>>
BuildArtifactV1(r) == Artifact(Named("OptionPricingArtifactV1"), Named("1.0.0"), r,
                               HashV1(Named("OptionPricingArtifactV1"), Named("1.0.0"), r))
ArtifactV1Fault(a) == FirstNamed(<<
  Build(All(<<"artifact_contract_name", "artifact_contract_version">>, Text), a).fault,
  FirstFault(<<<<"canonical_payload_hash", a.canonical_payload_hash[1] # "sha256">>,
    <<"canonical_payload_hash must match", a.canonical_payload_hash #
        HashV1(a.artifact_contract_name, a.artifact_contract_version, a.valuation_result)>> >>)>>)
ExportFault(a) == IF a.canonical_payload_hash # Hash(a.valuation_result) THEN "canonical_payload_hash" ELSE "ok"
-----------------------------------------------------------------------------
KeysFault(o, keys) == FirstFault(<<<<"missing keys", ~ (keys \subseteq DOMAIN o)>>,
                                   <<"unexpected keys", DOMAIN o # keys>>>>)
IsString(v) == v[1] = "string"
IsOptional(v) == v[1] \in {"string", "null"}
MeasureKeys == {"measure_name", "value", "method_kind", "measure_policy_id", "bump_policy_id",
                "tolerance_policy_id"}
Opt(v) == IF v[1] = "null" THEN <<"none", "none">> ELSE v[2]
MeasureOf(o) ==
  [measure_name |-> o.measure_name[2], value |-> o.value[2],
   method_kind |-> o.method_kind[2], measure_policy_id |-> o.measure_policy_id[2],
   bump_policy_id |-> Opt(o.bump_policy_id), tolerance_policy_id |-> Opt(o.tolerance_policy_id)]
ParseMeasureFault(item) ==
  IF item[1] # "object" THEN "measure" ELSE
  IF KeysFault(item[2], MeasureKeys) # "ok" THEN KeysFault(item[2], MeasureKeys) ELSE
  LET o == item[2]
      strings == FirstFault(<<
        <<"measure_name", ~ IsString(o.measure_name)>>, <<"method_kind", ~ IsString(o.method_kind)>>,
        <<"measure_policy_id", ~ IsString(o.measure_policy_id)>>,
        <<"bump_policy_id", ~ IsOptional(o.bump_policy_id)>>,
        <<"tolerance_policy_id", ~ IsOptional(o.tolerance_policy_id)>>, <<"value", ~ IsString(o.value)>> >>)
  IN  IF strings # "ok" THEN strings ELSE MeasureFault(MeasureOf(o))
ResultOf(p) ==
  [k \in ToSet(LineageV2) |-> p[k][2]] @@ [k \in ToSet(ThetaLineage) |-> Opt(p[k])]
  @@ ("valuation_measures" :> [i \in DOMAIN p.valuation_measures[2] |-> MeasureOf(p.valuation_measures[2][i][2])])
TopKeys == ToSet(LineageV2) \cup ToSet(ThetaLineage) \cup {"valuation_measures"}
(* Everything an import refuses; what it takes gets a hash of its own.     *)
ImportFault(p) ==
  IF KeysFault(p, TopKeys) # "ok" THEN KeysFault(p, TopKeys)
  ELSE IF p.valuation_measures[1] # "list" THEN "valuation_measures"
  ELSE LET items == p.valuation_measures[2]
           early == FirstNamed([i \in DOMAIN items |-> ParseMeasureFault(items[i])]
             \o [i \in 1..3 |-> IF IsOptional(p[ThetaLineage[i]]) THEN "ok" ELSE ThetaLineage[i]]
             \o [i \in 1..10 |-> IF IsString(p[LineageV2[i]]) THEN "ok" ELSE LineageV2[i]])
       IN  IF early # "ok" THEN early ELSE ResultV2Fault(ResultOf(p))
Import(p) == BuildArtifact(ResultOf(p))
=============================================================================
