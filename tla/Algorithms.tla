----------------------------- MODULE Algorithms -----------------------------
(* The algorithms that are also proved about, under the names by which the *)
(* run and the proofs know them.                                           *)
EXTENDS Integers

A == INSTANCE ArbitrageChecks
B == INSTANCE AdvisoryChecks
=============================================================================
