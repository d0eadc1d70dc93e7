------------------------------ MODULE MCYafDir -------------------------------
(***************************************************************************)
(* A directory of up to four entries for TLC: two blocks of two.           *)
(***************************************************************************)
EXTENDS YafDir

CONSTANTS a, b, c

\* c is a long name.
MCNameLen == [n \in Names |-> IF n = c THEN 2 ELSE 1]
==============================================================================
