--------------------------- MODULE MCFinalization ---------------------------
(* One run, two generations.  Generation 1 completes (done), is retried     *)
(* under the same identity, and competes with a cancellation (stop) whose   *)
(* second call carries another intent.  Generation 2 records its own        *)
(* terminal.  The events of done and next have one identity.                *)
EXTENDS Finalization

CONSTANTS c1, c2, c3, c4, c5, idDone, idStop, idNext, done, stop, stop2, next

x1 == [seq |-> 1, fact |-> "x"]
y1 == [seq |-> 1, fact |-> "y"]

MCGenOf == [c \in Call |-> IF c = c5 THEN 2 ELSE 1]
MCIdOf == [c \in Call |-> CASE c \in {c1, c2} -> idDone
                            [] c \in {c3, c4} -> idStop
                            [] OTHER -> idNext]
MCIntentOf == [c \in Call |-> CASE c \in {c1, c2} -> done
                                [] c = c3 -> stop
                                [] c = c4 -> stop2
                                [] OTHER -> next]
MCAgainOf == [c \in Call |-> CASE c = c2 -> c1 [] c = c4 -> c3 [] OTHER -> None]
MCEventOf == [i \in Intent |-> IF i \in {done, stop} THEN x1 ELSE y1]
MCEvent == {MCEventOf[i] : i \in Intent}
MCGenOfId == [id \in Id |-> IF id = idNext THEN 2 ELSE 1]

=============================================================================
