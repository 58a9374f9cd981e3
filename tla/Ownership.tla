----------------------------- MODULE Ownership -----------------------------
(***************************************************************************)
(* What the run lease promises, without generations, messages or stores.   *)
(*                                                                         *)
(* A run has at most one owner.  The owner is a claim attempt, or a rival  *)
(* that took the run over (the ownership expiry of a durable store).  An   *)
(* attempt owns its run during one uninterrupted interval at most: once it *)
(* stopped being the owner, or was given up before it became the owner, it *)
(* never owns the run again.  RunLease is shown to implement this.         *)
(***************************************************************************)
CONSTANTS Run, Attempt, RunOf

VARIABLES phase,   \* phase[a]: "fresh", "owner" or "spent"
          rival    \* the runs held by something that is not an attempt

Owners(r) == {a \in Attempt : RunOf[a] = r /\ phase[a] = "owner"}

Init == /\ phase = [a \in Attempt |-> "fresh"]
        /\ rival = {}

\* A fresh attempt becomes the owner of a run nobody holds.
Acquire(a) == /\ phase[a] = "fresh"
              /\ RunOf[a] \notin rival
              /\ Owners(RunOf[a]) = {}
              /\ phase' = [phase EXCEPT ![a] = "owner"]
              /\ UNCHANGED rival

\* The owner lets go, or an attempt that never owned is given up.
Retire(a) == /\ phase[a] # "spent"
             /\ phase' = [phase EXCEPT ![a] = "spent"]
             /\ UNCHANGED rival

\* A rival takes the run, held or not; the owner it displaces is spent.
Usurp(r) == /\ rival' = rival \union {r}
            /\ phase' = [a \in Attempt |-> IF a \in Owners(r) THEN "spent" ELSE phase[a]]

Next == \/ \E a \in Attempt : Acquire(a) \/ Retire(a)
        \/ \E r \in Run : Usurp(r)

Spec == Init /\ [][Next]_<<phase, rival>>

=============================================================================
