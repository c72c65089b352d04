------------------------- MODULE MCSessionAcquisition -------------------------
(***************************************************************************)
(* TLC instance of SessionAcquisition.                                     *)
(***************************************************************************)
EXTENDS SessionAcquisition
===============================================================================
