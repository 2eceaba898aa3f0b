---------------------------- MODULE RiskPipeline ----------------------------
(***************************************************************************)
(* From advisory rows to the worst scenario: the scenario grid, the        *)
(* contracts of the rows, their repricing under every scenario, the risk   *)
(* artifact with its totals, delta, ranking and summary.                   *)
(*                                                                         *)
(* Shocks are percents, so a factor is 100 + shock and values carry the    *)
(* scale 10^4 of two factors; notionals are hundredths, because a hedge    *)
(* ratio is a percent.  A scenario is its key <<spot, domestic, foreign>>; *)
(* its id is a hash of it, of which only the order matters: digest.        *)
(***************************************************************************)
EXTENDS Common, SequencesExt

Ascending(S) == Evaluated([k \in 1..Cardinality(S) |->
                  CHOOSE x \in S : Cardinality({y \in S : y < x}) = k - 1])
SumOf(s) == FoldSeq(+, 0, s)
(* Scenario sets: shocks without repetition, in order, and their product.  *)
(* Mutant: the shocks keep the order they were given in.                   *)
NormalizeInOrder(spec) == spec
Normalize(spec) == [a \in DOMAIN spec |-> Ascending(ToSet(spec[a]))]
Grid(spec) ==
  LET n == Normalize(spec)
      width(a) == Len(n[a])
      At(k) == <<n.spot[k \div (width("dfd") * width("dff")) + 1],
                 n.dfd[((k \div width("dff")) % width("dfd")) + 1],
                 n.dff[(k % width("dff")) + 1]>>
  IN  Evaluated([k \in 1..(width("spot") * width("dfd") * width("dff")) |-> At(k - 1)])
-----------------------------------------------------------------------------
(* Contracts.  A row is [pair, sign, notional, maturity, ratio, id]; pair  *)
(* holds base and quote currency, id is the hash of the whole row.  The    *)
(* contract is for the part of the notional the ratio names.               *)
NoRatio == -1
Effective(r) == r.notional * (IF r.ratio = NoRatio THEN 100 ELSE r.ratio)
InstrumentId(r) == <<r.pair[1], r.pair[2], r.maturity, r.id>>
Instruments(rows) == {InstrumentId(rows[i]) : i \in DOMAIN rows}
InstrumentIds(rows) ==
  [k \in 1..Cardinality(Instruments(rows)) |->
     CHOOSE x \in Instruments(rows) : Cardinality({y \in Instruments(rows) : LexLess(y, x)}) = k - 1]
(* Rows of one instrument overwrite each other.                            *)
Contract(rows, id) == CHOOSE c \in
  {[kind |-> "forward", quote |-> rows[i].pair[2], sign |-> rows[i].sign,
    notional |-> Effective(rows[i])] : i \in {j \in DOMAIN rows : InstrumentId(rows[j]) = id}} : TRUE
DomesticCurrency(rows) == StableSort(rows, InstrumentId)[1].pair[2]
(* The domestic currency is that of the first row, and a contract quoted   *)
(* in another one is refused; so is a notional of zero.                    *)
ContractFault(rows) == FirstFault(<<
  <<"notional must be positive", \E i \in DOMAIN rows : Effective(rows[i]) = 0>>,
  <<"instrument_ids", rows = <<>> >>,
  <<"currency", \E i \in DOMAIN rows : rows[i].pair[2] # DomesticCurrency(rows)>> >>)
-----------------------------------------------------------------------------
(* Repricing.  A market is [spot, dfd, dff], a scenario may be too much    *)
(* for it; the delivery rate is the forward rate of the market, of which   *)
(* the pricing needs the product with dfd, strike.                         *)
Strike(m) == m.spot * m.dff
ShockFault(k) == FirstFault(<<
  <<"spot_shock", 100 + k[1] <= 0>>, <<"df_domestic_shock", 100 + k[2] <= 0>>,
  <<"df_foreign_shock", 100 + k[3] <= 0>> >>)
PvForward(c, m, k, strike) ==
  c.sign * c.notional * (m.spot * m.dff * (100 + k[1]) * (100 + k[3]) - strike * 100 * (100 + k[2]))
NoShock == <<0, 0, 0>>
RepriceFault(rows, m, grid) ==
  IF ContractFault(rows) # "ok" THEN ContractFault(rows)
  ELSE FirstNamed(<<IF m.dfd <= 0 THEN "df_domestic" ELSE IF m.dff <= 0 THEN "df_foreign" ELSE "ok">>
                  \o [i \in DOMAIN grid |-> ShockFault(grid[i])])
Cube(rows, m, grid) ==
  LET ids == Evaluated(InstrumentIds(rows))
      Of(id, c) == [id |-> id, base |-> PvForward(c, m, NoShock, Strike(m)),
                    pvs |-> Evaluated([i \in DOMAIN grid |-> PvForward(c, m, grid[i], Strike(m))])]
  IN  Evaluated([n \in DOMAIN ids |-> Of(ids[n], Contract(rows, ids[n]))])

(* What repricing an option asks of the request and the snapshot, in the   *)
(* order it asks; dfs and vol are the answers of the two lookups.          *)
OptionFault(o, payload, grid) ==
  FirstNamed(<<FirstFault(<<
    <<"market_snapshot_payload", ~ payload.there>>,
    <<"time_fraction_policy_id", o.policy # "ACT_365F">>,
    <<"domestic_ccy", o.domestic # payload.domestic>>,
    <<"spots.prices", o.underlying \notin payload.prices>>,
    <<"as_of_ts", ~ payload.aware>>, <<"expiry", ~ o.aware>>, <<"expiry in the past", o.days < 0>>,
    <<"df_lookup", payload.dfs # "ok">>, <<"vol_lookup", payload.vol # "ok">> >>)>>
    \o [i \in DOMAIN grid |-> ShockFault(grid[i])])

(* The artifact refuses cubes that do not line up with request and grid,   *)
(* and adds them up.                                                       *)
ArtifactFault(ids, grid, cubes) == FirstFault(<<
  <<"results.instrument_id", [n \in DOMAIN cubes |-> cubes[n].id] # ids>>,
  <<"scenario_pvs", grid = <<>> \/ \E n \in DOMAIN cubes : Len(cubes[n].pvs) # Len(grid)>> >>)
BaseTotal(cubes) == SumOf([n \in DOMAIN cubes |-> cubes[n].base])
Totals(cubes, grid) ==
  Evaluated([i \in DOMAIN grid |-> SumOf([n \in DOMAIN cubes |-> cubes[n].pvs[i]])])
-----------------------------------------------------------------------------
(* Delta from the one symmetric pair of spot shocks, per unit of h, times  *)
(* 2h/100; the ranking of scenarios by loss, ties by id; the summary.      *)
Symmetric(spec) == {h \in ToSet(spec.spot) : h > 0 /\ -h \in ToSet(spec.spot)}
ExposuresFault(spec) == FirstFault(<<
  <<"spot_shocks", Cardinality(Symmetric(spec)) # 1>>,
  <<"df_domestic_shocks", 0 \notin ToSet(spec.dfd)>>,
  <<"df_foreign_shocks", 0 \notin ToSet(spec.dff)>> >>)
DeltaTotal(cubes, spec) ==
  LET h == CHOOSE x \in Symmetric(spec) : TRUE
      grid == Grid(spec)
      At(s) == CHOOSE i \in DOMAIN grid : grid[i] = <<s, 0, 0>>
  IN  SumOf([n \in DOMAIN cubes |-> cubes[n].pvs[At(h)] - cubes[n].pvs[At(-h)]])

Losses(cubes, grid) ==
  LET totals == Totals(cubes, grid)
  IN  Evaluated([i \in DOMAIN grid |-> totals[i] - BaseTotal(cubes)])
Ranking(losses, digest) ==
  StableSort([i \in DOMAIN losses |-> i], LAMBDA i : <<losses[i], digest[i]>>)
(* The whole of a risk run on the rows of one advisory.                    *)
Summary(rows, m, spec, digest) ==
  LET grid == Grid(spec)
      cubes == Cube(rows, m, grid)
      losses == Losses(cubes, grid)
      ranking == Ranking(losses, digest)
      fault == FirstNamed(<<RepriceFault(rows, m, grid), ExposuresFault(spec)>>)
  IN  IF fault # "ok" THEN [fault |-> fault]
      ELSE [fault |-> "ok", worst |-> grid[ranking[1]], loss |-> losses[ranking[1]],
            total |-> BaseTotal(cubes) + losses[ranking[1]],
            rows |-> Evaluated([i \in DOMAIN grid |-> losses[ranking[i]]]),
            delta |-> DeltaTotal(cubes, spec)]
(* The templates, with the spot shocks of the repository.                  *)
Template(name) ==
  [spot |-> CASE name = "STANDARD_7" -> <<-7, 0, 7>> [] name = "STRESS_10" -> <<-10, 0, 10>>
              [] name = "CRISIS_15" -> <<-15, -7, 0, 7, 15>>,
   dfd |-> <<0>>, dff |-> <<0>>]
=============================================================================
