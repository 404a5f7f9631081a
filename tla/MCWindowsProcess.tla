-------------------------- MODULE MCWindowsProcess --------------------------
(* Instance: two concurrent callers, one descendant, two failing system    *)
(* calls.                                                                  *)
EXTENDS WindowsProcess

CONSTANTS c1, c2, k1

TwoCallers == {c1, c2}
OneKid     == {k1}
=============================================================================
