------------------------------ MODULE EventLog ------------------------------
(***************************************************************************)
(* What the event stream of one run promises to its readers and to the     *)
(* generations that write it: an identity carries one event, nothing that  *)
(* was read disappears, and what a generation was told is written can be   *)
(* read, under numbers that grow in the order it wrote.  EventStream is    *)
(* shown to implement this.                                                *)
(***************************************************************************)
EXTENDS Naturals

CONSTANT Gen             \* the generations that write

VARIABLES events,        \* the events a reader sees, records with a seq
          acked          \* acked[g]: the events generation g was told are written

Init == events = {} /\ acked = [g \in Gen |-> {}]

\* An event under a free identity becomes readable.
Append(e) == /\ \A f \in events : f.seq # e.seq
             /\ events' = events \union {e}
             /\ UNCHANGED acked

\* A generation learns that the next of its events is readable.
Acknowledge(g, e) == /\ e \in events
                     /\ \A f \in acked[g] : f.seq < e.seq
                     /\ acked' = [acked EXCEPT ![g] = @ \union {e}]
                     /\ UNCHANGED events

Next == \/ \E e \in events' : Append(e)
        \/ \E g \in Gen, e \in events : Acknowledge(g, e)

Spec == Init /\ [][Next]_<<events, acked>>

=============================================================================
