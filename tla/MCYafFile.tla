------------------------------ MODULE MCYafFile ------------------------------
(***************************************************************************)
(* A file of two blocks of two cells for TLC.                              *)
(***************************************************************************)
EXTENDS YafFile
==============================================================================
