--------------------------- MODULE MCPayloadCache ---------------------------
(* Instance: processes that start together on an empty or a spoilt cache.  *)
EXTENDS PayloadCache, TLC

CONSTANTS u1, u2

TwoUsers == {u1, u2}
Symmetry == Permutations(TwoUsers)
=============================================================================
