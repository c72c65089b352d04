-------------------------- MODULE MCChannelOutput --------------------------
(* ChannelOutput for TLC: one client and one restart or respawn call.      *)
EXTENDS ChannelOutput
=============================================================================
