----------------------------- MODULE MCSendQueue -----------------------------
(***************************************************************************)
(* TLC instance of SendQueue.                                              *)
(***************************************************************************)
EXTENDS SendQueue
=============================================================================
