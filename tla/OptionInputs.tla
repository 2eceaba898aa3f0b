---------------------------- MODULE OptionInputs ----------------------------
(***************************************************************************)
(* How a bundle of references becomes inputs an option engine takes, and   *)
(* how two of them become the boundary theta is computed from.  A          *)
(* repository is a function from ids.  The contracts of the inputs are in  *)
(* Contracts; here are the lookups, the order of the checks, and the       *)
(* scalars read off curves and surface.                                    *)
(*                                                                         *)
(* A tenor is <<count, unit>>, the unit a letter as written; "atm" is the  *)
(* label of a flat surface, and <<25, "years">> the text 0.25, as the      *)
(* lookup of volatilities writes its keys.  A strike is <<number,          *)
(* spelling>> or "*".                                                      *)
(***************************************************************************)
EXTENDS Common, TLC

(* Labels are sorted as texts: digit by digit, "*" before digits, digits   *)
(* before letters, letters before the bar between the parts of a key.      *)
Digits(n) == IF n < 10 THEN <<48 + n>> ELSE <<48 + n \div 10, 48 + (n % 10)>>
Letter == [D |-> 68, M |-> 77, W |-> 87, Y |-> 89, atm |-> 97, d |-> 100, m |-> 109, w |-> 119, y |-> 121]
Flat == <<0, "atm">>
TenorText(t) == IF t = Flat THEN <<Letter.atm>>
                ELSE IF t[2] = "years" THEN <<48, 46>> \o Digits(t[1])
                ELSE Digits(t[1]) \o <<Letter[t[2]]>>
StrikeText(k) == IF k = <<"*">> THEN <<42>> ELSE Digits(k[1]) \o (IF k[2] = "1.0" THEN <<46, 48>> ELSE <<>>)
KeyText(q) == TenorText(q.tenor) \o <<124>> \o StrikeText(q.strike) \o <<124, q.right>>
Sorted(quotes) == StableSort(quotes, KeyText)
(* Mutant: quotes are taken in the order of the snapshot.                  *)
AsGiven(quotes) == quotes
InOrder(quotes) == Sorted(quotes)

(* The years of a tenor in units of 1/4380; 0 for a label that is no tenor *)
(* of days, weeks, months or years.                                        *)
Units == [D |-> 12, W |-> 84, M |-> 365, Y |-> 4380, d |-> 12, w |-> 84, m |-> 365, y |-> 4380, atm |-> 0,
          years |-> 0]
Years(tenor) == tenor[1] * Units[tenor[2]]
-----------------------------------------------------------------------------
(* The four objects a bundle refers to, and the context that must agree.   *)
DependencyFault(world, b) ==
  IF b.snapshot \notin DOMAIN world.snapshots THEN "market_snapshot"
  ELSE IF b.reference \notin DOMAIN world.references THEN "reference_data_set"
  ELSE IF b.policy \notin DOMAIN world.policies THEN "valuation_policy_set"
  ELSE IF b.context \notin DOMAIN world.contexts THEN "valuation_context"
  ELSE LET c == world.contexts[b.context] IN
       FirstFault(<<<<"context market_snapshot_id", c.snapshot # b.snapshot>>,
                    <<"context reference_data_set_id", c.reference # b.reference>>,
                    <<"context valuation_policy_set_id", c.policy # b.policy>>>>)
NumericFault(world, numeric) ==
  IF numeric \notin DOMAIN world.numerics THEN "numerical policy"
  ELSE FirstFault(<<<<"numerical policy type", world.numerics[numeric].type # "NumericalPolicySnapshotV1">>,
                    <<"numerical policy id", world.numerics[numeric].id # numeric>>,
                    <<"numerical policy invalid", world.numerics[numeric].broken>>>>)
CurveFault(snap, id) ==
  FirstFault(<<<<"curve missing", id \notin DOMAIN snap.curves>>,
               <<"curve empty", id \in DOMAIN snap.curves /\ snap.curves[id] = <<>> >> >>)
(* The nodes of a surface: a starred strike is the contract's, and a       *)
(* surface without quotes that has one volatility is one node.             *)
Node(q, contract) == [tenor |-> q.tenor, strike |-> IF q.strike = <<"*">> THEN contract.strike ELSE q.strike,
                      vol |-> q.vol]
Nodes(data, contract) ==
  IF data.quotes # <<>>
  THEN LET sorted == InOrder(data.quotes) IN Evaluated([i \in DOMAIN sorted |-> Node(sorted[i], contract)])
  ELSE [i \in DOMAIN data.vol |-> [tenor |-> Flat, strike |-> contract.strike, vol |-> data.vol[i]]]
NodeFault(node) == FirstFault(<<<<"strike", node.strike[1] <= 0>>, <<"implied_vol", node.vol <= 0>>>>)
SurfaceFault(snap, contract) ==
  IF snap.vols = <<>> THEN "volatility surfaces"
  ELSE IF contract.surface \notin DOMAIN snap.vols[1] THEN "volatility surface"
  ELSE LET data == snap.vols[1][contract.surface] IN
       IF ~ data.dict THEN "surface data"
       ELSE IF data.quotes = <<>> /\ data.vol = <<>> THEN "quotes or vol"
       ELSE IF \E i \in DOMAIN data.quotes : data.quotes[i].parts # 4 THEN "vol quote key"
       ELSE LET nodes == Nodes(data, contract) IN
            FirstNamed([i \in DOMAIN nodes |-> NodeFault(nodes[i])] \o
              <<IF \E i, j \in DOMAIN nodes : /\ i # j
                     /\ nodes[i].tenor = nodes[j].tenor /\ nodes[i].strike = nodes[j].strike
                THEN "nodes" ELSE "ok">>)
(* The scalars of the kernel are those of the first node in the order of   *)
(* labels; the two rates are the ones of the same label.                   *)
ScalarFault(domestic, foreign, node) ==
  FirstFault(<<<<"domestic_curve", node.tenor \notin DOMAIN domestic>>,
               <<"foreign_curve", node.tenor \notin DOMAIN foreign>>,
               <<"tenor_label", Years(node.tenor) = 0>>>>)
-----------------------------------------------------------------------------
ResolveFxFault(world, b) ==
  IF b.contract.type # "FxOptionRuntimeContractV1" THEN "option_contract"
  ELSE IF DependencyFault(world, b) # "ok" THEN DependencyFault(world, b)
  ELSE LET snap == world.snapshots[b.snapshot]
           reference == world.references[b.reference]
           contract == b.contract
           early == FirstFault(<<
             <<"spot", contract.pair \notin DOMAIN snap.spots>>,
             <<"holiday_calendar_refs", reference.holidays = <<>> >>,
             <<"settlement_convention_refs", reference.settlements = <<>> >>,
             <<"day_count_convention_refs", reference.dayCounts = <<>> >>,
             <<"day_count_default", \A i \in DOMAIN reference.dayCounts : reference.dayCounts[i] # snap.dayCount>> >>)
           loaded == FirstNamed(<<early, CurveFault(snap, contract.domestic), CurveFault(snap, contract.foreign),
                                  SurfaceFault(snap, contract), NumericFault(world, world.policies[b.policy])>>)
       IN  IF loaded # "ok" THEN loaded
           ELSE ScalarFault(snap.curves[contract.domestic], snap.curves[contract.foreign],
                            Nodes(snap.vols[1][contract.surface], contract)[1])
(* What is resolved.  The hash is taken as injective in what it covers:    *)
(* of the contract only its id.                                            *)
ResolveFx(world, b) ==
  LET snap == world.snapshots[b.snapshot]
      nodes == Nodes(snap.vols[1][b.contract.surface], b.contract)
      at == world.contexts[b.context].at
      scalars == [domestic |-> snap.curves[b.contract.domestic][nodes[1].tenor],
                  foreign |-> snap.curves[b.contract.foreign][nodes[1].tenor],
                  vol |-> nodes[1].vol, time |-> Years(nodes[1].tenor)]
  IN  [contract |-> b.contract, at |-> at, spot |-> snap.spots[b.contract.pair], nodes |-> nodes,
       calendar |-> world.references[b.reference].holidays, dayCount |-> snap.dayCount, scalars |-> scalars,
       hash |-> <<b.contract.id, b.context, b.snapshot, b.reference, b.policy, at, snap.spots[b.contract.pair],
                  snap.curves[b.contract.domestic], snap.curves[b.contract.foreign], nodes,
                  world.numerics[world.policies[b.policy]], scalars>>]
(* The resolver of options without curves reads the spot of the            *)
(* underlying and takes the first day count convention.                    *)
ResolveFault(world, b) ==
  IF DependencyFault(world, b) # "ok" THEN DependencyFault(world, b)
  ELSE LET reference == world.references[b.reference] IN FirstNamed(<<FirstFault(<<
         <<"option_contract", b.contract.type # "OptionRuntimeContractV1">>,
         <<"spot", b.contract.pair \notin DOMAIN world.snapshots[b.snapshot].spots>>,
         <<"holiday_calendar_refs", reference.holidays = <<>> >>,
         <<"day_count_convention_refs", reference.dayCounts = <<>> >>,
         <<"settlement_convention_refs", reference.settlements = <<>> >> >>),
         NumericFault(world, world.policies[b.policy])>>)
Resolve(world, b) ==
  LET reference == world.references[b.reference]
      at == world.contexts[b.context].at
      spot == world.snapshots[b.snapshot].spots[b.contract.pair]
      basis == <<reference.dayCounts[1], reference.holidays, reference.settlements, reference.settlements>>
  IN  [contract |-> b.contract, at |-> at, spot |-> spot, basis |-> basis,
       hash |-> <<b.contract.id, b.context, b.snapshot, b.reference, b.policy, at, spot, basis,
                  world.numerics[world.policies[b.policy]]>>]
-----------------------------------------------------------------------------
(* The boundary accepts an equal time, the preparer only a lower one, and  *)
(* the engine only a boundary of the inputs it is given.                   *)
BoundaryFault(current, rolled) ==
  FirstFault(<<<<"fx_option_contract", current.contract # rolled.contract>>,
               <<"time_to_expiry_years", rolled.scalars.time > current.scalars.time>>>>)
PrepareFault(current, rolled) ==
  FirstFault(<<<<"fx_option_contract", current.contract # rolled.contract>>,
               <<"resolved_basis_hash", current.hash = rolled.hash>>,
               <<"time_to_expiry_years", rolled.scalars.time >= current.scalars.time>>,
               <<"boundary", BoundaryFault(current, rolled) # "ok">>>>)
BoundaryReference(current, rolled) == <<current.hash, rolled.hash>>
=============================================================================
