--------------------------- MODULE MCTerminalPane ---------------------------
EXTENDS TerminalPane, TLC

(* Nothing tells one shell from another. *)
Alike == Permutations(Shells)
=============================================================================
