---------------------------- MODULE MCV2Portfolio ----------------------------
(* Two positions are enough to tell a removal of one from a removal of all. *)
EXTENDS V2Portfolio

MCCommand ==
  [create   |-> [kind |-> "created", currency |-> "EUR"],
   nameless |-> [kind |-> "created", currency |-> NoCurrency],
   buy      |-> [kind |-> "upserted", position |-> "p", legs |-> "long"],
   other    |-> [kind |-> "upserted", position |-> "q", legs |-> "short"],
   drop     |-> [kind |-> "removed", position |-> "p"],
   broken   |-> [kind |-> "malformed"]]
=============================================================================
