-------------------------- MODULE MCAppConnection --------------------------
(***************************************************************************)
(* Instances of AppConnection for TLC.                                     *)
(***************************************************************************)
EXTENDS AppConnection, TLC

Symmetry == Permutations(Hosts)
=============================================================================
