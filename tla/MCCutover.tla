----------------------------- MODULE MCCutover -----------------------------
(***************************************************************************)
(* Instances of Cutover for TLC.                                           *)
(***************************************************************************)
EXTENDS Cutover
=============================================================================
