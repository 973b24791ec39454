---------------------------- MODULE MCConfigFiles ----------------------------
(***************************************************************************)
(* The instance of ConfigFiles for TLC: each file has two or three         *)
(* processes at work on it.                                                *)
(***************************************************************************)
EXTENDS ConfigFiles

CONSTANTS p1, p2, p3, t1, t2
=============================================================================
