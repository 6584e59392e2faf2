-------------------------- MODULE MCDoubleRatchet --------------------------
(***************************************************************************)
(* Instances of DoubleRatchet for TLC.                                     *)
(***************************************************************************)
EXTENDS DoubleRatchet
=============================================================================
