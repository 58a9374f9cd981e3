---- MODULE MCRunRecord ----
(* RunRecord for TLC: one owner under many faults, or two owners in turn. *)
EXTENDS RunRecord

CONSTANTS Undisputed, Faulted

MCBudgets == {[progress |-> Undisputed, seizures |-> 0, faults |-> Faulted],
              [progress |-> 1, seizures |-> 1, faults |-> 0]}
====
