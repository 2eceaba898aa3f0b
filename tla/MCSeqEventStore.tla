--------------------------- MODULE MCSeqEventStore ---------------------------
(* Two processes and three ids, one of them sent with two payloads: two    *)
(* appends can overlap with each other and with a crash, and meet a third  *)
(* event that was there.                                                   *)
EXTENDS SeqEventStore, TLC
CONSTANTS a, b, c
MCRequests == {<<a, "x">>, <<b, "x">>, <<c, "x">>, <<c, "y">>}
Symmetric == Permutations(Writers) \cup Permutations({a, b})
=============================================================================
