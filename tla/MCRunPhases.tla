----------------------------- MODULE MCRunPhases -----------------------------
(* One attempt; clocks of a few units.                                      *)
EXTENDS RunPhases

=============================================================================
