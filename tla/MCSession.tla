-------------------------------- MODULE MCSession --------------------------------
(***************************************************************************)
(* Values for Session's constants.                                         *)
(***************************************************************************)
EXTENDS Session

CONSTANTS u, t1, t2

MCUsers == {u}
MCTabs  == {t1, t2}
=============================================================================
