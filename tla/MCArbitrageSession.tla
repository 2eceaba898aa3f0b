------------------------- MODULE MCArbitrageSession -------------------------
(* The sharing of a session by request threads, on a small instance.  The  *)
(* requests and the opportunity ids are interchangeable.                   *)
EXTENDS ArbitrageSession, TLC

Symmetric == Permutations(Requests) \cup Permutations(Opps)
=============================================================================
