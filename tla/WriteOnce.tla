------------------------------ MODULE WriteOnce ------------------------------
(* What the artifact code promises of the events table: a name is bound to  *)
(* a value at most once, and the binding never changes.                     *)
VARIABLE store
Bind(name, value) ==
  /\ name \notin DOMAIN store
  /\ store' = [n \in DOMAIN store \cup {name} |-> IF n = name THEN value ELSE store[n]]
Init == store = <<>>
Bound == \E name \in DOMAIN store' : Bind(name, store'[name])
Spec == Init /\ [][Bound]_store
=============================================================================
