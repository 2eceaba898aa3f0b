---------------------------- MODULE AdvisoryInput ----------------------------
(***************************************************************************)
(* The advisory payload as a caller sends it and as it is kept.  A raw row *)
(* is a record [pair, direction, notional, text, maturity, ratio, loose]:  *)
(* loose says that pair and direction are not spelled the canonical way,   *)
(* text which of its spellings the notional has ("1.0" and "1" are equal   *)
(* but stay different strings).  None is -1; a ratio is in percent.        *)
(***************************************************************************)
EXTENDS Common

RawRow == [pair : Int, direction : Int, notional : Int, text : Int, maturity : Int,
           ratio : Int, loose : BOOLEAN]
NoRatio == -1
RowFault(raw) == FirstFault(<<
  <<"currency_pair", raw.pair <= 0>>,
  <<"direction", raw.direction \notin {0, 1}>>,
  <<"notional must be > 0", raw.notional <= 0>>,
  <<"maturity_date", raw.maturity < 0>>,
  <<"hedge_ratio", raw.ratio # NoRatio /\ (raw.ratio < 0 \/ raw.ratio > 100)>> >>)
InputFault(raw) == FirstFault(<<
  <<"contract_version", raw.version # "v1">>,
  <<"company_id", raw.company = "">>,
  <<"row", \E i \in DOMAIN raw.rows : RowFault(raw.rows[i]) # "ok">> >>)

NormalizedRow(raw) ==
  [pair |-> raw.pair, direction |-> raw.direction, notional |-> raw.notional,
   text |-> raw.text, maturity |-> raw.maturity, ratio |-> raw.ratio, loose |-> FALSE]
RowKey(r) == <<r.pair, r.direction, r.maturity, r.notional, r.text, r.ratio>>
Normalized(raw) ==
  [version |-> "v1", company |-> raw.company,
   rows |-> StableSort([i \in DOMAIN raw.rows |-> NormalizedRow(raw.rows[i])], RowKey)]
=============================================================================
