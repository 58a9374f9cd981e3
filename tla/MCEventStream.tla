---------------------------- MODULE MCEventStream ----------------------------
(* Generations of a run over one stream, two bodies, two terminals.         *)
EXTENDS EventStream

CONSTANTS a, b, completed, timed_out

=============================================================================
