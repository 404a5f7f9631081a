-------------------------- MODULE MCLocalRehearsal --------------------------
(* Instance: one rehearsal; every command may fail anywhere.               *)
EXTENDS LocalRehearsal
=============================================================================
