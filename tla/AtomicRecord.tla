---------------------------- MODULE AtomicRecord ----------------------------
(***************************************************************************)
(* What finalization promises about the record of one run, as its readers  *)
(* see it.  A terminal commit appears in the journal, the event stream and *)
(* the evidence sink in one step or not at all, a generation commits once, *)
(* and an event identity never carries two events.  Ordinary events are    *)
(* the only other way the stream grows; nothing a reader saw disappears.   *)
(* Finalization is shown to implement this.                                *)
(***************************************************************************)
CONSTANTS Id, Intent, Event,
          GenOfId,      \* the generation a commit identity belongs to
          EventOf       \* the terminal event of an intent

VARIABLES tails,    \* <<id, intent>>: the terminal tails in the journal
          bundles,  \* <<id, intent>>: the sealed bundles
          events    \* the events of the stream

Init == tails = {} /\ bundles = {} /\ events = {}

Compatible(e) == \A f \in events : f.seq = e.seq => f = e

\* One step makes all three parts of a terminal record readable.
Commit(id, intent) ==
  /\ \A t \in tails : GenOfId[t[1]] # GenOfId[id]
  /\ Compatible(EventOf[intent])
  /\ tails' = tails \union {<<id, intent>>}
  /\ bundles' = bundles \union {<<id, intent>>}
  /\ events' = events \union {EventOf[intent]}

\* An ordinary event under a free identity.
Emit(e) == /\ Compatible(e)
           /\ events' = events \union {e}
           /\ UNCHANGED <<tails, bundles>>

Next == \/ \E id \in Id, intent \in Intent : Commit(id, intent)
        \/ \E e \in Event : Emit(e)

Spec == Init /\ [][Next]_<<tails, bundles, events>>

=============================================================================
