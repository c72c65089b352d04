--------------------------- MODULE MCChannelAccess ---------------------------
(***************************************************************************)
(* TLC instance of ChannelAccess; the bounds are in MCChannelAccess.cfg.    *)
(***************************************************************************)
EXTENDS ChannelAccess
=============================================================================
