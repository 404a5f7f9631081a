-------------------------- MODULE MCArchivePublish --------------------------
(* Instance: two creators racing for one final path, a verifier, damage    *)
(* and foreign files, with two components.                                 *)
EXTENDS ArchivePublish
=============================================================================
