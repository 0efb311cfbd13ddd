---------------------------- MODULE MCInterfaces ----------------------------
(* Interfaces alone, for TLC.                                              *)
EXTENDS Interfaces, MCZoo
=============================================================================
