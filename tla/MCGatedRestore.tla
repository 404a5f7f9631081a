--------------------------- MODULE MCGatedRestore ---------------------------
(* Instance: one restore; every failure at every point.                    *)
EXTENDS GatedRestore
=============================================================================
