----------------------------- MODULE EventStream -----------------------------
(***************************************************************************)
(* The numbers of a run's events: the emitter each generation has          *)
(* (RunEventEmitter, events/emitter.ts) over the one event sink.           *)
(*                                                                         *)
(* An emission allocates its number before it calls the sink.  The call    *)
(* may land while its answer is lost, or land long after the caller gave   *)
(* up.  An emitter starts at 0 whatever the stream holds, and finds the    *)
(* occupied numbers by being refused.  A terminal event is staged by a     *)
(* commit under the number the emitter would use next, which it does not   *)
(* allocate; a commit that was cut off is followed by one with another     *)
(* terminal, and its own stage is released at some later time.             *)
(***************************************************************************)
EXTENDS Naturals, FiniteSets, EventSink

CONSTANTS Fact,           \* bodies of ordinary events
          Last,           \* bodies of terminal events, one per terminal state
          MaxGeneration,  \* bound on the generations that own the run
          MaxEmissions,   \* bound on the emissions of a generation
          None            \* no event

ASSUME EventStreamAssumption ==
  MaxGeneration \in Nat \ {0} /\ MaxEmissions \in Nat /\ Fact \intersect Last = {}

Gen == 1 .. MaxGeneration
Event == [seq : Nat, fact : Fact \union Last]

VARIABLES
  owner,     \* the generation that holds the run's lease
  high,      \* the highest generation the sink served
  landed,    \* events emitted ordinarily
  stages,    \* events staged by commits, [id, event], id = <<g, terminal>>
  published, \* commits published
  next,      \* next[g]: the emitter's counter
  at,        \* at[g]: where generation g is
  doing,     \* doing[g]: the event of the call under way
  answer,    \* answer[g]: the sink's answer to that call
  sent,      \* requests sent to the sink, [gen, event]
  handled,   \* requests the sink has handled
  acked,     \* acked[g]: events acknowledged to the emitter (#emitted)
  commit     \* commit[g][t]: what became of the commit of terminal t

sink == <<high, landed, stages, published>>
emitter == <<next, doing, acked>>
vars == <<owner, sink, emitter, at, answer, sent, handled, commit>>

Init == /\ owner = 1 /\ high = 0
        /\ landed = {} /\ stages = {} /\ published = {}
        /\ next = [g \in Gen |-> 0]
        /\ at = [g \in Gen |-> "idle"]
        /\ doing = [g \in Gen |-> None]
        /\ answer = [g \in Gen |-> "none"]
        /\ sent = {} /\ handled = {}
        /\ acked = [g \in Gen |-> {}]
        /\ commit = [g \in Gen |-> [t \in Last |-> "none"]]

-----------------------------------------------------------------------------
(* Faulty variants of operators defined below.                             *)

\* A number whose outcome is unknown is used again.
NumberReclaimed(g) == doing[g].seq

\* A refused number is tried again.
SameNumber(g) == doing[g].seq

-----------------------------------------------------------------------------
(* RunEventEmitter.                                                        *)

\* The number is consumed before the effect.
Allocated(n) == n + 1

\* Sends the event of body f under the number n.
Send(g, n, f) ==
  /\ next' = [next EXCEPT ![g] = Allocated(n)]
  /\ doing' = [doing EXCEPT ![g] = [seq |-> n, fact |-> f]]
  /\ answer' = [answer EXCEPT ![g] = "none"]
  /\ sent' = sent \union {[gen |-> g, event |-> [seq |-> n, fact |-> f]]}
  /\ handled' = handled \ {[gen |-> g, event |-> [seq |-> n, fact |-> f]]}

Emit(g, f) == /\ at[g] = "idle" /\ g <= owner
              /\ Cardinality(acked[g]) < MaxEmissions
              /\ Send(g, next[g], f)
              /\ at' = [at EXCEPT ![g] = "calling"]
              /\ UNCHANGED <<owner, sink, acked, commit>>

Answered(g, outcome) == at[g] = "calling" /\ answer[g] = outcome

\* The event is durable, landed now or found as an exact replay.
Acknowledged(g) == /\ Answered(g, "ok")
                   /\ acked' = [acked EXCEPT ![g] = @ \union {doing[g]}]
                   /\ at' = [at EXCEPT ![g] = "idle"]
                   /\ UNCHANGED <<owner, sink, next, doing, answer, sent, handled, commit>>

\* The number names another event: the emission moves to the next one.
NumberAfterConflict(g) == next[g]

WalkPast(g) == /\ Answered(g, "conflicting_replay")
               /\ Send(g, NumberAfterConflict(g), doing[g].fact)
               /\ UNCHANGED <<owner, sink, at, acked, commit>>

\* The sink wrote nothing: the number is reclaimed, and the run is lost.
Refused(g) == /\ Answered(g, "stale_fence")
              /\ next' = [next EXCEPT ![g] = doing[g].seq]
              /\ at' = [at EXCEPT ![g] = "lost"]
              /\ UNCHANGED <<owner, sink, doing, answer, sent, handled, acked, commit>>

\* The sink threw or the deadline cut the call off: the outcome is unknown,
\* the number stays consumed, and the run is on its way to a terminal.
NumberAfterUnknown(g) == next[g]

Unknown(g) == /\ at[g] = "calling"
              /\ next' = [next EXCEPT ![g] = NumberAfterUnknown(g)]
              /\ at' = [at EXCEPT ![g] = "failed"]
              /\ UNCHANGED <<owner, sink, doing, answer, sent, handled, acked, commit>>

-----------------------------------------------------------------------------
(* The sink: each request is handled once, at any time after it was sent.  *)

\* FenceLedger.refuse.
Stale(g) == g < high
Serve(g) == high' = IF g > high THEN g ELSE high

Reply(r, outcome) ==
  answer' = IF at[r.gen] = "calling" /\ doing[r.gen] = r.event
            THEN [answer EXCEPT ![r.gen] = outcome] ELSE answer

Handle(r) ==
  /\ r \notin handled
  /\ handled' = handled \union {r}
  /\ \/ /\ Stale(r.gen) /\ Reply(r, "stale_fence")
        /\ UNCHANGED <<high, landed, stages>>
     \/ /\ ~Stale(r.gen) /\ Serve(r.gen)
        /\ Occupied(landed, stages, published, r.event)
        /\ Reply(r, "conflicting_replay")
        /\ UNCHANGED <<landed, stages>>
     \/ /\ ~Stale(r.gen) /\ Serve(r.gen)
        /\ ~Occupied(landed, stages, published, r.event)
        /\ landed' = LandedAfter(landed, stages, published, r.event)
        /\ stages' = StagesAfterEmit(landed, stages, published, r.event)
        /\ Reply(r, "ok")
  /\ UNCHANGED <<owner, published, emitter, at, sent, commit>>

-----------------------------------------------------------------------------
(* The terminal event, staged with the commit of terminal t.               *)

\* The number the envelope of generation g carries; it is not allocated.
Envelope(g, t) == [seq |-> next[g], fact |-> t]

Mark(g, t, s) == commit' = [commit EXCEPT ![g][t] = s]

StageTerminal(g, t) ==
  /\ at[g] \in {"idle", "failed"} /\ g <= owner
  /\ commit[g][t] = "none"
  /\ \/ /\ Stale(g)
        /\ at' = [at EXCEPT ![g] = "lost"]
        /\ UNCHANGED <<high, stages, commit>>
     \/ /\ ~Stale(g) /\ Serve(g)
        /\ Occupied(landed, stages, published, Envelope(g, t))
        /\ Mark(g, t, "refused")
        /\ at' = [at EXCEPT ![g] = "concluded"]
        /\ UNCHANGED stages
     \/ /\ ~Stale(g) /\ Serve(g)
        /\ ~Occupied(landed, stages, published, Envelope(g, t))
        /\ stages' = StagesAfterStaging(landed, stages, published, <<g, t>>, Envelope(g, t))
        /\ Mark(g, t, "staged")
        /\ at' = [at EXCEPT ![g] = "committing"]
  /\ UNCHANGED <<owner, landed, published, emitter, answer, sent, handled>>

\* The lease answers that the generation holds the run; the answer is used
\* in a later step.
Confirm(g) == /\ at[g] = "committing" /\ owner = g
              /\ at' = [at EXCEPT ![g] = "confirmed"]
              /\ UNCHANGED <<owner, sink, emitter, answer, sent, handled, commit>>

\* The marker: the commit's rows become readable.
Publish(g, t) == /\ at[g] = "confirmed" /\ commit[g][t] = "staged"
                 /\ published' = published \union {<<g, t>>}
                 /\ Mark(g, t, "published")
                 /\ at' = [at EXCEPT ![g] = "concluded"]
                 /\ UNCHANGED <<owner, high, landed, stages, emitter, answer, sent, handled>>

\* The deadline cuts the commit off; settlement will record another terminal.
CutOff(g, t) == /\ at[g] \in {"committing", "confirmed"} /\ commit[g][t] = "staged"
                /\ Mark(g, t, "cut_off")
                /\ at' = [at EXCEPT ![g] = "failed"]
                /\ UNCHANGED <<owner, sink, emitter, answer, sent, handled>>

\* A commit that failed, or was cut off, drops its own unpublished row.
Abandon(g, t) == /\ commit[g][t] \in {"staged", "cut_off"}
                 /\ stages' = StagesAfterRelease(stages, published, <<g, t>>)
                 /\ Mark(g, t, "abandoned")
                 /\ at' = [at EXCEPT ![g] = IF commit[g][t] = "staged" THEN "concluded" ELSE @]
                 /\ UNCHANGED <<owner, high, landed, published, emitter, answer, sent, handled>>

\* Ownership moves to a newer generation.
Seize == /\ owner < MaxGeneration
         /\ owner' = owner + 1
         /\ UNCHANGED <<sink, emitter, at, answer, sent, handled, commit>>

-----------------------------------------------------------------------------
Resume(g) == Acknowledged(g) \/ WalkPast(g) \/ Refused(g) \/ Unknown(g)

Next == \/ \E g \in Gen : \/ \E f \in Fact : Emit(g, f)
                          \/ Resume(g) \/ Confirm(g)
                          \/ \E t \in Last : \/ StageTerminal(g, t) \/ Publish(g, t)
                                             \/ CutOff(g, t) \/ Abandon(g, t)
        \/ \E r \in sent : Handle(r)
        \/ Seize

Spec == Init /\ [][Next]_vars

\* Every guarded call ends: with the sink's answer, or with the deadline.
FairSpec == Spec /\ \A g \in Gen : WF_vars(Resume(g))

-----------------------------------------------------------------------------
(* Properties.                                                             *)

\* Type invariant.
TypeOK ==
  /\ owner \in Gen /\ high \in 0 .. owner
  /\ landed \subseteq Event
  /\ stages \subseteq [id : Gen \X Last, event : Event]
  /\ published \subseteq Gen \X Last
  /\ next \in [Gen -> Nat]
  /\ at \in [Gen -> {"idle", "calling", "failed", "lost", "committing", "confirmed", "concluded"}]
  /\ doing \in [Gen -> Event \union {None}]
  /\ answer \in [Gen -> {"none", "ok", "conflicting_replay", "stale_fence"}]
  /\ sent \subseteq [gen : Gen, event : Event] /\ handled \subseteq sent
  /\ acked \in [Gen -> SUBSET Event]
  /\ commit \in [Gen -> [Last -> {"none", "refused", "staged", "cut_off", "published", "abandoned"}]]

\* A generation never gives a number to two events, whatever became of the
\* first: not to another emission, and not to its own terminal event
\* (the allocation before the effect, emit).
NumbersAreUnique ==
  \A r \in sent :
    /\ \A q \in sent : q.gen = r.gen /\ q.event.seq = r.event.seq => q = r
    /\ \A s \in stages : s.id[1] = r.gen => s.event.seq # r.event.seq

\* Every emission ends, however much of the stream is occupied (the loop of emit).
EmissionEnds == \A g \in Gen : at[g] = "calling" ~> at[g] # "calling"

Log == INSTANCE EventLog WITH
  events <- VisibleEvents(landed, stages, published)

\* The emitters over the sink implement EventLog: one event per number, and
\* what was acknowledged is readable, in the order in which it was emitted.
StreamSpec == Log!Spec

=============================================================================
