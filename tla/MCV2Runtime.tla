---------------------------- MODULE MCV2Runtime ----------------------------
(***************************************************************************)
(* V2Runtime for TLC.  The cfg files give every constant a small set; the  *)
(* number of event ids bounds the log, so nothing else has to be bounded.  *)
(* Ids and times are ordered, bodies are compared for equality only; the   *)
(* two bodies and the two zones could be permuted, but the state spaces    *)
(* are small enough without symmetry.                                      *)
(***************************************************************************)
EXTENDS V2Runtime
=============================================================================
