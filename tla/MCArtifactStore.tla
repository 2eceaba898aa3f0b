--------------------------- MODULE MCArtifactStore ---------------------------
(* Two clients, one payload in two spellings and orders of its rows, two    *)
(* valuation runs and a blank one, and two market snapshots: a usable one,  *)
(* and one whose quotes are keyed by pairs.                                 *)
EXTENDS ArtifactStore, TLC

Row(n, loose) == [pair |-> 1, direction |-> 0, notional |-> n, text |-> 0,
                  maturity |-> 1, ratio |-> NoRatio, loose |-> loose]
Raw(rows_) == [version |-> "v1", company |-> "acme", rows |-> rows_]
MCPayloads == {Raw(<<Row(1, FALSE), Row(2, TRUE)>>), Raw(<<Row(2, FALSE), Row(1, FALSE)>>)}
MCRuns == {"r1", "r2", Blank}
Payload(keys) == [base |-> 2, quotes |-> [k \in keys |-> 0], loose |-> {}, prices |-> {1},
                  ccy |-> <<2>>, curves |-> [c \in {1, 2} |-> {OneYear \div 2}], vols |-> <<>>]
MCMarkets == {Payload({<<1>>}), Payload({<<2, 2>>})}
MCNeeds == {[symbols |-> <<>>, base |-> NoBase, curves |-> <<1>>, tenors |-> <<>>],
            [symbols |-> <<1>>, base |-> 1, curves |-> <<>>, tenors |-> <<>>]}
MCQuestions == {{}, {"ladder", "policy"}, {"policy"}}
Symmetric == Permutations(Clients)
=============================================================================
