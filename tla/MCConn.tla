------------------------------- MODULE MCConn -------------------------------
(***************************************************************************)
(* Instances of Conn for TLC.                                              *)
(***************************************************************************)
EXTENDS Conn, TLC

CONSTANTS c1, c2

Symmetry == Permutations(Callers)
=============================================================================
