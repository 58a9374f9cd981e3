----------------------------- MODULE EventSink -----------------------------
(***************************************************************************)
(* The event sink of one run (RecordingEventSink, adapters/deterministic): *)
(* what its operations compute from its state.  An event is a record       *)
(* [seq, fact]; its identity is seq.  `landed' is the set of ordinarily    *)
(* emitted events, `stages' the set of staged rows [id, event], and `pub'  *)
(* the set of published commit ids.                                        *)
(***************************************************************************)

\* A different event has the identity of e in S.
Clash(S, e) == \E f \in S : f.seq = e.seq /\ f # e

\* The staged rows that no reader sees yet.
Unpublished(stages, pub) == {s \in stages : s.id \notin pub}

\* What readers see, and what durably occupies the identities (eventsOf).
VisibleEvents(landed, stages, pub) ==
  landed \union {s.event : s \in {t \in stages : t.id \in pub}}

\* The events whose identities unpublished stages reserve (#liveReservation).
Reserved(stages, pub) == {s.event : s \in Unpublished(stages, pub)}

\* Faulty: a reservation that is not published does not occupy its identity.
OccupiedDurably(landed, stages, pub, e) == Clash(VisibleEvents(landed, stages, pub), e)

\* The identity already carries, or is reserved for, a different event.
Occupied(landed, stages, pub, e) ==
  Clash(VisibleEvents(landed, stages, pub) \union Reserved(stages, pub), e)

\* An ordinary emission that is not refused: it lands unless it is durable
\* already, and the unpublished stages of the same event retire with it.
LandedAfter(landed, stages, pub, e) ==
  IF e \in VisibleEvents(landed, stages, pub) THEN landed ELSE landed \union {e}

StagesAfterEmit(landed, stages, pub, e) ==
  IF e \in VisibleEvents(landed, stages, pub) THEN stages
  ELSE stages \ {s \in Unpublished(stages, pub) : s.event = e}

\* Faulty: an event another commit staged is not staged again.
SharedStaging(landed, stages, pub, id, e) ==
  IF e \in VisibleEvents(landed, stages, pub) \union Reserved(stages, pub) THEN stages
  ELSE stages \union {[id |-> id, event |-> e]}

\* Staging e under a commit: one row of its own, none if e is durable.
StagesAfterStaging(landed, stages, pub, id, e) ==
  IF e \in VisibleEvents(landed, stages, pub) THEN stages
  ELSE stages \union {[id |-> id, event |-> e]}

\* A commit's handle drops its own unpublished row (#releaseStage).
StagesAfterRelease(stages, pub, id) == stages \ {s \in Unpublished(stages, pub) : s.id = id}

=============================================================================
