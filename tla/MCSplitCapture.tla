--------------------------- MODULE MCSplitCapture ---------------------------
(* Instance: up to two chunks per dump, every failure at every point.      *)
EXTENDS SplitCapture
=============================================================================
