------------------------------- MODULE MCCallRoom -------------------------------
(***************************************************************************)
(* Values for CallRoom's constants: two users.                             *)
(***************************************************************************)
EXTENDS CallRoom

CONSTANTS a, b

MCSides == {a, b}
=============================================================================
