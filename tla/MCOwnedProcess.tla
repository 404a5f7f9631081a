--------------------------- MODULE MCOwnedProcess ---------------------------
(* Instance: two concurrent callers, one descendant, two failing system    *)
(* calls.  Liveness is checked, so the callers are not declared symmetric. *)
EXTENDS OwnedProcess

CONSTANTS c1, c2, k1

TwoCallers == {c1, c2}
OneKid     == {k1}
=============================================================================
