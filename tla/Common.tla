------------------------------- MODULE Common -------------------------------
(* Two idioms the code uses everywhere: a list of checks of which the first *)
(* to fail names the error, and a stable sort by a tuple of keys.           *)
EXTENDS Integers, Sequences, FiniteSets

(* The first of a list of names that is not "ok"; a check is a pair of the  *)
(* name of an error and whether it applies.                                 *)
FirstNamed(names) ==
  LET bad == {i \in DOMAIN names : names[i] # "ok"}
  IN  IF bad = {} THEN "ok" ELSE names[CHOOSE i \in bad : \A j \in bad : i <= j]
FirstFault(checks) ==
  FirstNamed([i \in DOMAIN checks |-> IF checks[i][2] THEN checks[i][1] ELSE "ok"])
Faults(checks) == {checks[i][1] : i \in {j \in DOMAIN checks : checks[j][2]}}

(* Tuples of numbers in Python's order: a proper prefix comes first.        *)
LexLess(a, b) ==
  \E i \in DOMAIN b : /\ i = Len(a) + 1 \/ (i \in DOMAIN a /\ a[i] < b[i])
                      /\ \A j \in 1..(i - 1) : a[j] = b[j]
(* A sequence itself; TLC then works out its elements only once.            *)
Evaluated(s) == s \o <<>>
StableSort(s, Key(_)) ==
  LET keys == Evaluated([i \in DOMAIN s |-> Key(s[i])])
      Before(i, j) == LexLess(keys[i], keys[j]) \/ (keys[i] = keys[j] /\ i < j)
      order == [k \in DOMAIN s |->
                  CHOOSE i \in DOMAIN s : Cardinality({j \in DOMAIN s : Before(j, i)}) = k - 1]
  IN  Evaluated([k \in DOMAIN s |-> s[order[k]]])
=============================================================================
