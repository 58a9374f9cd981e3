-------------------------- MODULE EventStreamProofs --------------------------
(***************************************************************************)
(* Theorems about EventStream for every set of bodies and any number of    *)
(* generations: no number is given twice, and the emitters over the sink   *)
(* implement EventLog.                                                     *)
(***************************************************************************)
EXTENDS EventStream, TLAPS

-----------------------------------------------------------------------------
(* The inductive invariant.  A counter is above every number its generation *)
(* sent, as long as the generation may still send: once it is lost it may   *)
(* have taken a number back.  A generation that has staged a terminal event *)
(* sends no more.  No two events of the sink, read or reserved, have one    *)
(* number.                                                                  *)

Counting ==
  \A r \in sent : /\ r.gen <= owner
                  /\ at[r.gen] # "lost" => r.event.seq < next[r.gen]

CallsAreSent ==
  \A g \in Gen : at[g] = "calling" =>
    doing[g] \in Event /\ [gen |-> g, event |-> doing[g]] \in sent

\* One commit of a generation is under way at a time, and it is what the
\* generation is at.
OneIsCommitting ==
  \A g \in Gen : \A t, u \in Last :
    /\ commit[g][t] = "staged" => at[g] \in {"committing", "confirmed"}
    /\ commit[g][t] = "staged" /\ commit[g][u] = "staged" => t = u

StagedSendNoMore == \A s \in stages : at[s.id[1]] \notin {"idle", "calling"}

\* The events of the sink, those only reserved included.
Held == landed \union {s.event : s \in stages}

HeldAreDistinct == \A e, f \in Held : e.seq = f.seq => e = f

\* A commit has one row, after its stage; it is read when it is published.
RowsAreOfCommits ==
  /\ \A s \in stages : commit[s.id[1]][s.id[2]] # "none"
  /\ \A s, t \in stages : s.id = t.id => s = t
  /\ \A i \in Gen \X Last : i \in published => commit[i[1]][i[2]] = "published"

Visible == VisibleEvents(landed, stages, published)

\* What a generation was told is written is older than what it does next.
AckedAreOlder ==
  \A g \in Gen : \A e \in acked[g] :
    /\ at[g] # "lost" => e.seq < next[g]
    /\ at[g] = "calling" => e.seq < doing[g].seq

OkIsVisible == \A g \in Gen : Answered(g, "ok") => doing[g] \in Visible

NumberInv == /\ TypeOK /\ Counting /\ CallsAreSent /\ OneIsCommitting
             /\ StagedSendNoMore /\ NumbersAreUnique

LogInv == HeldAreDistinct /\ RowsAreOfCommits /\ AckedAreOlder /\ OkIsVisible

IInv == NumberInv /\ LogInv

-----------------------------------------------------------------------------
(* Numbers.                                                                *)

LEMMA InitNumbers == Init => NumberInv
BY EventStreamAssumption DEF Init, NumberInv, TypeOK, Counting, CallsAreSent, OneIsCommitting,
   StagedSendNoMore, NumbersAreUnique, Gen

\* What a generation that may send sends is new.
LEMMA SendNumbers ==
  ASSUME NumberInv, NEW g \in Gen, NEW f \in Fact \union Last, g <= owner,
         at[g] \in {"idle", "calling"}, Send(g, next[g], f),
         at' = [at EXCEPT ![g] = "calling"],
         UNCHANGED <<owner, sink, acked, commit>>
  PROVE  NumberInv'
<1> DEFINE r == [gen |-> g, event |-> [seq |-> next[g], fact |-> f]]
<1> USE DEF NumberInv, sink
<1>0. /\ r \in [gen : Gen, event : Event] /\ r.gen = g /\ r.event \in Event
      /\ r.event.seq = next[g] /\ next[g] \in Nat
  BY DEF TypeOK, Event
<1>1. /\ next' = [next EXCEPT ![g] = next[g] + 1] /\ doing' = [doing EXCEPT ![g] = r.event]
      /\ answer' = [answer EXCEPT ![g] = "none"]
      /\ sent' = sent \union {r} /\ handled' = handled \ {r}
  BY DEF Send, Allocated
<1>2. TypeOK'
  <2>1. handled' \subseteq sent' BY <1>1 DEF TypeOK
  <2>2. next' \in [Gen -> Nat] /\ doing' \in [Gen -> Event \union {None}]
    BY <1>0, <1>1 DEF TypeOK
  <2> QED BY <1>0, <1>1, <2>1, <2>2 DEF TypeOK
<1>3. \A q \in sent : q.gen = g => q.event.seq < next[g] /\ q.gen <= owner
  BY DEF Counting
<1>4. Counting'
  <2> SUFFICES ASSUME NEW q \in sent'
               PROVE  q.gen <= owner /\ (at'[q.gen] # "lost" => q.event.seq < next'[q.gen])
    BY DEF Counting
  <2>1. CASE q.gen # g
    <3>1. q \in sent /\ q.gen \in Gen BY <1>0, <1>1, <2>1 DEF TypeOK
    <3> QED BY <1>1, <2>1, <3>1 DEF Counting, TypeOK
  <2>2. CASE q.gen = g
    <3>1. next'[g] = next[g] + 1 BY <1>1 DEF TypeOK
    <3>2. q \in sent => q.event.seq \in Nat BY DEF TypeOK, Event
    <3> QED BY <1>0, <1>1, <1>3, <2>2, <3>1, <3>2
  <2> QED BY <2>1, <2>2
<1>5. CallsAreSent' /\ OneIsCommitting'
  <2>1. CallsAreSent' BY <1>0, <1>1 DEF CallsAreSent, TypeOK
  <2>2. OneIsCommitting' BY DEF OneIsCommitting, TypeOK
  <2> QED BY <2>1, <2>2
<1>6. \A s \in stages : s.id[1] \in Gen /\ s.id[1] # g
  BY DEF StagedSendNoMore, TypeOK
<1>7. StagedSendNoMore' BY <1>6 DEF StagedSendNoMore, TypeOK
<1>8. NumbersAreUnique'
  <2>1. ASSUME NEW a \in sent', NEW b \in sent', a.gen = b.gen, a.event.seq = b.event.seq
        PROVE  a = b
    <3>1. CASE a \in sent /\ b \in sent BY <2>1, <3>1 DEF NumbersAreUnique
    <3>2. CASE a = r \/ b = r
      <4>1. \A q \in sent : q.gen = g => q.event.seq \in Nat /\ q.event.seq # next[g]
        BY <1>0, <1>3 DEF TypeOK, Event
      <4> QED BY <1>0, <1>1, <2>1, <3>2, <4>1
    <3> QED BY <1>1, <3>1, <3>2
  <2>2. ASSUME NEW a \in sent', NEW s \in stages', s.id[1] = a.gen
        PROVE  s.event.seq # a.event.seq
    BY <1>0, <1>1, <1>6, <2>2 DEF NumbersAreUnique
  <2> QED BY <2>1, <2>2 DEF NumbersAreUnique
<1> QED BY <1>2, <1>4, <1>5, <1>7, <1>8

LEMMA EmitNumbers ==
  ASSUME NumberInv, NEW g \in Gen, NEW f \in Fact, Emit(g, f)
  PROVE  NumberInv'
BY SendNumbers DEF Emit

LEMMA WalkPastNumbers ==
  ASSUME NumberInv, NEW g \in Gen, WalkPast(g)
  PROVE  NumberInv'
<1>1. at[g] = "calling" /\ doing[g].fact \in Fact \union Last /\ g <= owner
  BY DEF WalkPast, Answered, NumberInv, CallsAreSent, Counting, Event
<1>2. at' = [at EXCEPT ![g] = "calling"] BY <1>1 DEF WalkPast, NumberInv, TypeOK
<1> QED BY <1>1, <1>2, SendNumbers DEF WalkPast, NumberAfterConflict

\* An emission that ends.
LEMMA EndNumbers ==
  ASSUME NumberInv, NEW g \in Gen, Acknowledged(g) \/ Refused(g) \/ Unknown(g)
  PROVE  NumberInv'
<1> USE DEF NumberInv, sink
<1>1. at[g] = "calling" /\ doing[g] \in Event /\ doing[g].seq \in Nat
  BY DEF Acknowledged, Refused, Unknown, Answered, CallsAreSent, Event
<1>2. \A s \in stages : s.id[1] \in Gen /\ s.id[1] # g BY <1>1 DEF StagedSendNoMore, TypeOK
<1>3. /\ UNCHANGED <<owner, sink, doing, answer, sent, handled, commit>>
      /\ next' = next \/ (at'[g] = "lost" /\ next' = [next EXCEPT ![g] = doing[g].seq])
      /\ \E s \in {"idle", "lost", "failed"} : at' = [at EXCEPT ![g] = s]
      /\ acked' \in [Gen -> SUBSET Event]
  BY <1>1 DEF Acknowledged, Refused, Unknown, NumberAfterUnknown, TypeOK
<1>4. TypeOK' BY <1>1, <1>3 DEF TypeOK
<1>5. Counting'
  <2> SUFFICES ASSUME NEW r \in sent
               PROVE  r.gen <= owner /\ (at'[r.gen] # "lost" => r.event.seq < next'[r.gen])
    BY <1>3 DEF Counting
  <2>1. r.gen \in Gen BY DEF TypeOK
  <2>2. at'[r.gen] # "lost" => at[r.gen] # "lost" /\ next'[r.gen] = next[r.gen]
    BY <1>1, <1>3, <2>1 DEF TypeOK
  <2> QED BY <2>2 DEF Counting
<1>6. CallsAreSent' /\ OneIsCommitting'
  BY <1>1, <1>3 DEF CallsAreSent, OneIsCommitting, TypeOK
<1>7. StagedSendNoMore' BY <1>2, <1>3 DEF StagedSendNoMore, TypeOK
<1>8. NumbersAreUnique' BY <1>3 DEF NumbersAreUnique
<1> QED BY <1>4, <1>5, <1>6, <1>7, <1>8

LEMMA HandleNumbers ==
  ASSUME NumberInv, NEW r \in sent, Handle(r)
  PROVE  NumberInv'
<1> USE DEF NumberInv, emitter
<1>1. /\ stages' \subseteq stages /\ landed' \subseteq landed \union {r.event}
      /\ high' = high \/ high' = r.gen
  BY DEF Handle, Serve, StagesAfterEmit, LandedAfter
<1>2. answer' \in [Gen -> {"none", "ok", "conflicting_replay", "stale_fence"}]
  BY DEF Handle, Reply, TypeOK
<1>3. r.gen \in Gen /\ r.gen <= owner /\ r.event \in Event BY DEF TypeOK, Counting
<1>4. UNCHANGED <<owner, published, next, doing, acked, at, sent, commit>> /\ handled' \subseteq sent'
  BY DEF Handle, TypeOK
<1>5. TypeOK' BY <1>1, <1>2, <1>3, <1>4 DEF TypeOK, Gen
<1>6. Counting' /\ CallsAreSent' /\ OneIsCommitting'
  BY <1>4 DEF Counting, CallsAreSent, OneIsCommitting
<1>7. StagedSendNoMore' /\ NumbersAreUnique' BY <1>1, <1>4 DEF StagedSendNoMore, NumbersAreUnique
<1> QED BY <1>5, <1>6, <1>7

CommitState == {"none", "refused", "staged", "cut_off", "published", "abandoned"}

\* What a commit's mark changes.
LEMMA MarkType ==
  ASSUME TypeOK, NEW g \in Gen, NEW t \in Last, NEW s \in CommitState, Mark(g, t, s)
  PROVE  /\ commit' \in [Gen -> [Last -> CommitState]]
         /\ commit'[g][t] = s
         /\ \A h \in Gen, u \in Last : <<h, u>> # <<g, t>> => commit'[h][u] = commit[h][u]
<1>1. commit \in [Gen -> [Last -> CommitState]] BY DEF TypeOK, CommitState
<1>2. [commit[g] EXCEPT ![t] = s] \in [Last -> CommitState] BY <1>1
<1>3. commit' = [commit EXCEPT ![g] = [commit[g] EXCEPT ![t] = s]] BY DEF Mark
<1> QED BY <1>1, <1>2, <1>3

\* The terminal's number is one the generation did not send.
LEMMA StageNumbers ==
  ASSUME NumberInv, NEW g \in Gen, NEW t \in Last, StageTerminal(g, t)
  PROVE  NumberInv'
<1> DEFINE s == [id |-> <<g, t>>, event |-> Envelope(g, t)]
<1> USE DEF NumberInv, emitter
<1>1. /\ s \in [id : Gen \X Last, event : Event] /\ s.id[1] = g
      /\ s.event.seq = next[g] /\ next[g] \in Nat
  BY DEF Envelope, TypeOK, Event
<1>2. /\ at[g] \in {"idle", "failed"} /\ g <= owner
      /\ stages' \subseteq stages \union {s}
      /\ \E a \in {"lost", "concluded", "committing"} : at' = [at EXCEPT ![g] = a]
      /\ high' = high \/ high' = g
      /\ UNCHANGED <<owner, landed, published, next, doing, acked, answer, sent, handled>>
  BY DEF StageTerminal, Serve, StagesAfterStaging
<1>3. commit' \in [Gen -> [Last -> CommitState]]
  <2>1. commit' = commit \/ \E c \in CommitState : Mark(g, t, c) BY DEF StageTerminal, CommitState
  <2> QED BY <2>1, MarkType DEF TypeOK, CommitState
<1>4. TypeOK' BY <1>1, <1>2, <1>3 DEF TypeOK, Gen, CommitState
<1>5. Counting' /\ CallsAreSent'
  <2>1. \A h \in Gen : (at'[h] # "lost" => at[h] # "lost") /\ (at'[h] = "calling" => at[h] = "calling")
    BY <1>2 DEF TypeOK
  <2>2. \A r \in sent : r.gen \in Gen BY DEF TypeOK
  <2> QED BY <1>2, <2>1, <2>2 DEF Counting, CallsAreSent
<1>8. OneIsCommitting' BY <1>2 DEF StageTerminal, Mark, OneIsCommitting, TypeOK
<1>6. StagedSendNoMore' BY <1>1, <1>2 DEF StagedSendNoMore, TypeOK
<1>7. NumbersAreUnique'
  <2>1. \A q \in sent : q.gen = g => q.event.seq # next[g]
    BY <1>1, <1>2 DEF Counting, TypeOK, Event
  <2> QED BY <1>1, <1>2, <2>1 DEF NumbersAreUnique
<1> QED BY <1>4, <1>5, <1>6, <1>7, <1>8

\* What becomes of a stage, and of the run's ownership.
LEMMA CommitNumbers ==
  ASSUME NumberInv, NEW g \in Gen, NEW t \in Last,
         Confirm(g) \/ Publish(g, t) \/ CutOff(g, t) \/ Abandon(g, t)
  PROVE  NumberInv'
<1> USE DEF NumberInv, emitter, sink
<1>1. /\ stages' \subseteq stages /\ published' \subseteq published \union {<<g, t>>}
      /\ at' = at \/ \E a \in {"confirmed", "concluded", "failed"} : at' = [at EXCEPT ![g] = a]
      /\ UNCHANGED <<owner, high, landed, next, doing, acked, answer, sent, handled>>
  BY DEF Confirm, Publish, CutOff, Abandon, StagesAfterRelease, TypeOK
<1>2. commit' \in [Gen -> [Last -> CommitState]]
  <2>1. commit' = commit \/ \E c \in CommitState : Mark(g, t, c)
    BY DEF Confirm, Publish, CutOff, Abandon, CommitState
  <2> QED BY <2>1, MarkType DEF TypeOK, CommitState
<1>3. at'[g] # "lost" => at[g] # "lost"
  BY DEF Confirm, Publish, CutOff, Abandon, OneIsCommitting, TypeOK
<1>4. TypeOK'
  <2>1. at' \in [Gen -> {"idle", "calling", "failed", "lost", "committing", "confirmed", "concluded"}]
    BY <1>1 DEF TypeOK
  <2>2. stages' \subseteq [id : Gen \X Last, event : Event] /\ published' \subseteq Gen \X Last
    BY <1>1 DEF TypeOK
  <2> QED BY <1>1, <1>2, <2>1, <2>2 DEF TypeOK, CommitState
<1>5. Counting'
  <2>1. \A h \in Gen : at'[h] # "lost" => at[h] # "lost" BY <1>1, <1>3 DEF TypeOK
  <2> QED BY <1>1, <2>1 DEF Counting, TypeOK
<1>6. CallsAreSent' BY <1>1 DEF CallsAreSent, TypeOK
<1>7. StagedSendNoMore' /\ NumbersAreUnique' BY <1>1 DEF StagedSendNoMore, NumbersAreUnique, TypeOK
<1>8. OneIsCommitting'
  BY DEF Confirm, Publish, CutOff, Abandon, Mark, OneIsCommitting, TypeOK
<1> QED BY <1>4, <1>5, <1>6, <1>7, <1>8

LEMMA RestNumbers ==
  ASSUME NumberInv, Seize \/ UNCHANGED vars
  PROVE  NumberInv'
<1> USE DEF NumberInv, vars, emitter, sink
<1>1. /\ UNCHANGED <<sink, emitter, at, answer, sent, handled, commit>>
      /\ owner' \in Gen /\ owner <= owner'
  BY EventStreamAssumption DEF Seize, TypeOK, Gen
<1>2. TypeOK' BY <1>1 DEF TypeOK, Gen
<1>3. Counting' BY <1>1 DEF Counting, TypeOK, Gen
<1>4. CallsAreSent' /\ OneIsCommitting' /\ StagedSendNoMore' /\ NumbersAreUnique'
  BY <1>1 DEF CallsAreSent, OneIsCommitting, StagedSendNoMore, NumbersAreUnique
<1> QED BY <1>2, <1>3, <1>4

LEMMA StepNumbers == NumberInv /\ [Next]_vars => NumberInv'
<1> SUFFICES ASSUME NumberInv, [Next]_vars PROVE NumberInv'
  OBVIOUS
<1>1. CASE \E r \in sent : Handle(r) BY <1>1, HandleNumbers
<1>2. CASE Seize \/ UNCHANGED vars BY <1>2, RestNumbers
<1>3. ASSUME NEW g \in Gen, (\E f \in Fact : Emit(g, f)) \/ Resume(g) PROVE NumberInv'
  BY <1>3, EmitNumbers, WalkPastNumbers, EndNumbers DEF Resume
<1>4. ASSUME NEW g \in Gen, NEW t \in Last, StageTerminal(g, t) \/ Publish(g, t) \/ CutOff(g, t) \/ Abandon(g, t)
      PROVE  NumberInv'
  BY <1>4, StageNumbers, CommitNumbers
<1>5. ASSUME NEW g \in Gen, Confirm(g) PROVE NumberInv'
  <2>1. CASE \E t \in Last : TRUE BY <1>5, <2>1, CommitNumbers
  <2>2. CASE ~\E t \in Last : TRUE
    <3> USE DEF NumberInv
    <3>1. UNCHANGED <<owner, sink, emitter, answer, sent, handled, commit>> /\ at' = [at EXCEPT ![g] = "confirmed"]
          /\ at[g] = "committing"
      BY <1>5 DEF Confirm
    <3> QED BY <2>2, <3>1 DEF sink, emitter, TypeOK, Counting, CallsAreSent, OneIsCommitting, StagedSendNoMore, NumbersAreUnique
  <2> QED BY <2>1, <2>2
<1> QED BY <1>1, <1>2, <1>3, <1>4, <1>5 DEF Next

\* The numbers' invariant holds in every state a run of the emitters reaches.
THEOREM NumberInvariance == Spec => []NumberInv
<1> QED BY InitNumbers, StepNumbers, PTL DEF Spec

\* The run's event stream, its emitters and its commits are of their types.
THEOREM TypeCorrect == Spec => []TypeOK
<1>1. NumberInv => TypeOK BY DEF NumberInv
<1> QED BY <1>1, NumberInvariance, PTL

\* A generation gives a number to one event only, whatever became of the call
\* that carried the first (RunEventEmitter.emit allocates before it calls).
THEOREM NumbersUnique == Spec => []NumbersAreUnique
<1>1. NumberInv => NumbersAreUnique BY DEF NumberInv
<1> QED BY <1>1, NumberInvariance, PTL

-----------------------------------------------------------------------------
(* The log.                                                                *)

LogStep == [Log!Next]_<<Visible, acked>>

LEMMA HeldIsAll ==
  ASSUME TypeOK
  PROVE  /\ Visible \subseteq Held /\ Held \subseteq Event
         /\ \A e : Occupied(landed, stages, published, e) <=> Clash(Held, e)
<1>1. Held = Visible \union Reserved(stages, published)
  BY DEF Held, Visible, VisibleEvents, Reserved, Unpublished
<1>2. Held \subseteq Event BY DEF TypeOK, Held
<1> QED BY <1>1, <1>2 DEF Occupied, Visible

LEMMA InitLog == Init => LogInv /\ Log!Init
<1> SUFFICES ASSUME Init PROVE LogInv /\ Log!Init
  OBVIOUS
<1>1. landed = {} /\ stages = {} /\ published = {} /\ Held = {} /\ VisibleEvents(landed, stages, published) = {}
  BY DEF Init, Held, VisibleEvents
<1>2. acked = [g \in Gen |-> {}] /\ \A g \in Gen : at[g] = "idle"
  BY DEF Init
<1> QED BY <1>1, <1>2 DEF LogInv, HeldAreDistinct, RowsAreOfCommits, AckedAreOlder, OkIsVisible,
           Answered, Log!Init

\* A step of an emitter that sends: nothing of the sink changes.
LEMMA SendLog ==
  ASSUME IInv, NEW g \in Gen, NEW f \in Fact \union Last,
         at[g] \in {"idle", "calling"}, Send(g, next[g], f),
         at' = [at EXCEPT ![g] = "calling"],
         UNCHANGED <<owner, sink, acked, commit>>
  PROVE  LogInv' /\ LogStep
<1> USE DEF IInv, NumberInv, LogInv, sink
<1>1. Visible' = Visible /\ Held' = Held BY DEF Visible, VisibleEvents, Held
<1>2. HeldAreDistinct' /\ RowsAreOfCommits' BY <1>1 DEF HeldAreDistinct, RowsAreOfCommits
<1>3. next[g] \in Nat /\ next'[g] = next[g] + 1 /\ doing'[g].seq = next[g] /\ answer'[g] = "none"
  BY DEF Send, Allocated, TypeOK
<1>4. \A h \in Gen : h # g => next'[h] = next[h] /\ doing'[h] = doing[h] /\ answer'[h] = answer[h] /\ at'[h] = at[h]
  BY DEF Send, TypeOK
<1>5. AckedAreOlder'
  <2> SUFFICES ASSUME NEW h \in Gen, NEW e \in acked[h]
               PROVE  /\ at'[h] # "lost" => e.seq < next'[h]
                      /\ at'[h] = "calling" => e.seq < doing'[h].seq
    BY DEF AckedAreOlder
  <2>1. CASE h # g BY <1>4, <2>1 DEF AckedAreOlder
  <2>2. CASE h = g
    <3>1. e.seq \in Nat /\ e.seq < next[g] BY <2>2 DEF AckedAreOlder, TypeOK, Event
    <3> QED BY <1>3, <2>2, <3>1
  <2> QED BY <2>1, <2>2
<1>6. OkIsVisible' BY <1>1, <1>3, <1>4 DEF OkIsVisible, Answered
<1> QED BY <1>1, <1>2, <1>5, <1>6 DEF LogStep

\* A step that ends an emission.  What is acknowledged is the newest event
\* the generation was told of.
LEMMA EndLog ==
  ASSUME IInv, NEW g \in Gen, Acknowledged(g) \/ Refused(g) \/ Unknown(g)
  PROVE  LogInv' /\ LogStep
<1> USE DEF IInv, NumberInv, LogInv, sink
<1>1. /\ at[g] = "calling" /\ doing[g] \in Event /\ doing[g].seq \in Nat
      /\ doing[g].seq < next[g]
  <2>1. at[g] = "calling" BY DEF Acknowledged, Refused, Unknown, Answered
  <2>2. doing[g] \in Event /\ [gen |-> g, event |-> doing[g]] \in sent BY <2>1 DEF CallsAreSent
  <2> QED BY <2>1, <2>2 DEF Counting, Event
<1>2. /\ UNCHANGED <<owner, sink, doing, answer, sent, handled, commit>>
      /\ next' = next \/ (at'[g] = "lost" /\ next' = [next EXCEPT ![g] = doing[g].seq])
      /\ \E s \in {"idle", "lost", "failed"} : at' = [at EXCEPT ![g] = s]
      /\ acked' = acked \/ (Answered(g, "ok") /\ acked' = [acked EXCEPT ![g] = @ \union {doing[g]}])
  BY <1>1 DEF Acknowledged, Refused, Unknown, NumberAfterUnknown, TypeOK
<1>3. Visible' = Visible /\ Held' = Held BY <1>2 DEF Visible, VisibleEvents, Held
<1>4. HeldAreDistinct' /\ RowsAreOfCommits' BY <1>2, <1>3 DEF HeldAreDistinct, RowsAreOfCommits
<1>5. at'[g] # "calling" /\ \A h \in Gen : h # g => at'[h] = at[h] /\ acked'[h] = acked[h] /\ next'[h] = next[h]
  BY <1>2 DEF TypeOK
<1>6. AckedAreOlder'
  <2> SUFFICES ASSUME NEW h \in Gen, NEW e \in acked'[h]
               PROVE  /\ at'[h] # "lost" => e.seq < next'[h]
                      /\ at'[h] = "calling" => e.seq < doing'[h].seq
    BY DEF AckedAreOlder
  <2>1. CASE h # g BY <1>2, <1>5, <2>1 DEF AckedAreOlder
  <2>2. CASE h = g /\ at'[g] # "lost"
    <3>1. next' = next BY <1>2, <2>2
    <3>2. e \in acked[g] \/ e = doing[g] BY <1>2, <2>2 DEF TypeOK
    <3> QED BY <1>1, <1>5, <2>2, <3>1, <3>2 DEF AckedAreOlder
  <2>3. CASE h = g /\ at'[g] = "lost" BY <1>5, <2>3
  <2> QED BY <2>1, <2>2, <2>3
<1>7. OkIsVisible' BY <1>2, <1>3, <1>5 DEF OkIsVisible, Answered
<1>8. LogStep
  <2>1. CASE acked' = acked BY <1>3, <2>1 DEF LogStep
  <2>2. CASE Answered(g, "ok") /\ acked' = [acked EXCEPT ![g] = @ \union {doing[g]}]
    <3>1. doing[g] \in Visible BY <2>2 DEF OkIsVisible
    <3>2. \A e \in acked[g] : e.seq < doing[g].seq BY <1>1 DEF AckedAreOlder
    <3>3. Log!Acknowledge(g, doing[g]) BY <1>3, <2>2, <3>1, <3>2 DEF Log!Acknowledge, Visible
    <3> QED BY <3>1, <3>3 DEF LogStep, Log!Next, Visible
  <2> QED BY <1>2, <2>1, <2>2
<1> QED BY <1>4, <1>6, <1>7, <1>8

\* A handled request appends its event, or leaves what readers see alone.
LEMMA HandleLog ==
  ASSUME IInv, NEW r \in sent, Handle(r)
  PROVE  LogInv' /\ LogStep
<1> USE DEF IInv, NumberInv, LogInv, emitter
<1>1. UNCHANGED <<owner, published, next, doing, acked, at, sent, commit>> /\ stages' \subseteq stages
  BY DEF Handle, StagesAfterEmit
<1>2. r.gen \in Gen /\ r.event \in Event BY DEF TypeOK
<1>3. AckedAreOlder' /\ RowsAreOfCommits' BY <1>1 DEF AckedAreOlder, RowsAreOfCommits
<1>4. \A g \in Gen : Answered(g, "ok")' =>
        Answered(g, "ok") \/ (Reply(r, "ok") /\ doing[g] = r.event)
  BY <1>1, <1>2 DEF Handle, Reply, Answered, TypeOK
<1>5. CASE UNCHANGED <<landed, stages>>
  <2>1. Visible' = Visible /\ Held' = Held BY <1>1, <1>5 DEF Visible, VisibleEvents, Held
  <2>2. Reply(r, "ok") => r.event \in Visible \/ \A g \in Gen : Answered(g, "ok")' => Answered(g, "ok")
    <3>1. CASE ~Occupied(landed, stages, published, r.event) /\ landed' = LandedAfter(landed, stages, published, r.event)
      BY <1>5, <3>1 DEF LandedAfter, Visible, VisibleEvents
    <3>2. CASE Reply(r, "stale_fence") \/ Reply(r, "conflicting_replay")
      BY <1>1, <1>2, <3>2 DEF Reply, Answered, TypeOK
    <3> QED BY <3>1, <3>2 DEF Handle
  <2>3. OkIsVisible' BY <1>1, <1>4, <2>1, <2>2 DEF OkIsVisible
  <2> QED BY <1>1, <1>3, <2>1, <2>3 DEF HeldAreDistinct, LogStep
<1>6. CASE ~UNCHANGED <<landed, stages>>
  <2>1. /\ ~Occupied(landed, stages, published, r.event) /\ r.event \notin Visible
        /\ landed' = landed \union {r.event}
        /\ stages' = stages \ {s \in Unpublished(stages, published) : s.event = r.event}
    BY <1>6 DEF Handle, LandedAfter, StagesAfterEmit, Visible
  <2>2. Visible' = Visible \union {r.event} /\ Held' \subseteq Held \union {r.event}
    <3>1. {t \in stages' : t.id \in published} = {t \in stages : t.id \in published}
      BY <2>1 DEF Unpublished
    <3>2. Visible' = Visible \union {r.event} BY <1>1, <2>1, <3>1 DEF Visible, VisibleEvents
    <3> QED BY <1>1, <2>1, <3>2 DEF Held
  <2>3. \A f \in Held : f.seq = r.event.seq => f = r.event BY <2>1, HeldIsAll DEF Clash
  <2>4. HeldAreDistinct' BY <2>2, <2>3 DEF HeldAreDistinct
  <2>5. OkIsVisible' BY <1>1, <1>4, <2>2 DEF OkIsVisible
  <2>6. Log!Append(r.event) BY <1>1, <2>1, <2>2, <2>3, HeldIsAll DEF Log!Append, Visible
  <2> QED BY <1>3, <2>2, <2>4, <2>5, <2>6 DEF LogStep, Log!Next, Visible
<1> QED BY <1>5, <1>6

\* A stage reserves a free number, and shows readers nothing.
LEMMA StageLog ==
  ASSUME IInv, NEW g \in Gen, NEW t \in Last, StageTerminal(g, t)
  PROVE  LogInv' /\ LogStep
<1> DEFINE s == [id |-> <<g, t>>, event |-> Envelope(g, t)]
<1> USE DEF IInv, NumberInv, LogInv, emitter
<1>1. /\ at[g] \in {"idle", "failed"} /\ commit[g][t] = "none"
      /\ \E a \in {"lost", "concluded", "committing"} : at' = [at EXCEPT ![g] = a]
      /\ UNCHANGED <<owner, landed, published, next, doing, acked, answer, sent, handled>>
  BY DEF StageTerminal
<1>2. \A h \in Gen : /\ at'[h] # "lost" => at[h] # "lost"
                     /\ at'[h] = "calling" => at[h] = "calling"
  BY <1>1 DEF TypeOK
<1>3. AckedAreOlder' BY <1>1, <1>2 DEF AckedAreOlder
<1>4. <<g, t>> \notin published
  <2>1. <<g, t>> \in Gen \X Last /\ <<g, t>>[1] = g /\ <<g, t>>[2] = t OBVIOUS
  <2>2. <<g, t>> \in published => commit[g][t] = "published" BY <2>1 DEF RowsAreOfCommits
  <2> QED BY <1>1, <2>2
<1>5. \A q \in stages : q.id \in Gen \X Last /\ q.id # <<g, t>>
  <2> SUFFICES ASSUME NEW q \in stages PROVE q.id \in Gen \X Last /\ q.id # <<g, t>>
    OBVIOUS
  <2>1. q.id \in Gen \X Last BY DEF TypeOK
  <2>2. commit[q.id[1]][q.id[2]] # "none" BY DEF RowsAreOfCommits
  <2> QED BY <1>1, <2>1, <2>2
<1>6. /\ stages' = stages \/ stages' = stages \union {s}
      /\ stages' # stages => ~Occupied(landed, stages, published, s.event) /\ Mark(g, t, "staged")
      /\ commit' = commit \/ Mark(g, t, "refused") \/ Mark(g, t, "staged")
  BY DEF StageTerminal, StagesAfterStaging
<1>7. Visible' = Visible /\ Held' \subseteq Held \union {s.event}
  <2>1. s.id = <<g, t>> OBVIOUS
  <2>2. {q \in stages' : q.id \in published} = {q \in stages : q.id \in published}
    BY <1>4, <1>6, <2>1
  <2>3. Visible' = Visible BY <1>1, <2>2 DEF Visible, VisibleEvents
  <2> QED BY <1>1, <1>6, <2>3 DEF Held
<1>8. HeldAreDistinct'
  <2>1. CASE stages' = stages BY <1>1, <2>1 DEF HeldAreDistinct, Held
  <2>2. CASE stages' # stages
    <3>1. \A f \in Held : f.seq = s.event.seq => f = s.event BY <1>6, <2>2, HeldIsAll DEF Clash
    <3> QED BY <1>7, <3>1 DEF HeldAreDistinct
  <2> QED BY <2>1, <2>2
<1>9. RowsAreOfCommits'
  <2>1. \A h \in Gen, u \in Last : /\ commit[h][u] # "none" => commit'[h][u] = commit[h][u]
                                   /\ stages' # stages => commit'[g][t] = "staged"
    <3>1. CASE commit' = commit BY <1>1, <1>6, <3>1, MarkType DEF CommitState
    <3>2. CASE \E c \in {"refused", "staged"} : Mark(g, t, c)
      BY <1>1, <1>6, <3>2, MarkType DEF CommitState
    <3> QED BY <1>6, <3>1, <3>2
  <2>2. ASSUME NEW q \in stages' PROVE commit'[q.id[1]][q.id[2]] # "none"
    <3>1. CASE q \in stages
      <4>1. q.id[1] \in Gen /\ q.id[2] \in Last BY <1>5, <3>1
      <4>2. commit[q.id[1]][q.id[2]] # "none" BY <3>1 DEF RowsAreOfCommits
      <4>3. commit'[q.id[1]][q.id[2]] = commit[q.id[1]][q.id[2]] BY <2>1, <4>1, <4>2
      <4> QED BY <4>2, <4>3
    <3>2. CASE q = s /\ stages' # stages
      <4>1. q.id[1] = g /\ q.id[2] = t BY <3>2
      <4>2. commit'[g][t] = "staged" BY <2>1, <3>2
      <4> QED BY <4>1, <4>2
    <3> QED BY <1>6, <3>1, <3>2
  <2>3. ASSUME NEW p \in stages', NEW q \in stages', p.id = q.id PROVE p = q
    <3>1. p \in stages /\ q \in stages => p = q BY <2>3 DEF RowsAreOfCommits
    <3>2. s.id = <<g, t>> OBVIOUS
    <3> QED BY <1>5, <1>6, <2>3, <3>1, <3>2
  <2>4. ASSUME NEW i \in Gen \X Last, i \in published PROVE commit'[i[1]][i[2]] = "published"
    <3>1. i[1] \in Gen /\ i[2] \in Last OBVIOUS
    <3>2. commit[i[1]][i[2]] = "published" BY <2>4 DEF RowsAreOfCommits
    <3>3. commit'[i[1]][i[2]] = commit[i[1]][i[2]] BY <2>1, <3>1, <3>2
    <3> QED BY <3>2, <3>3
  <2> QED BY <1>1, <2>2, <2>3, <2>4 DEF RowsAreOfCommits
<1>10. OkIsVisible' BY <1>1, <1>2, <1>7 DEF OkIsVisible, Answered
<1> QED BY <1>1, <1>3, <1>7, <1>8, <1>9, <1>10 DEF LogStep

\* A commit that is abandoned removes rows nobody reads.
LEMMA AbandonLog ==
  ASSUME IInv, NEW g \in Gen, NEW t \in Last, CutOff(g, t) \/ Abandon(g, t)
  PROVE  LogInv' /\ LogStep
<1> USE DEF IInv, NumberInv, LogInv, emitter, sink
<1>1. /\ commit[g][t] \in {"staged", "cut_off"}
      /\ Mark(g, t, "cut_off") \/ Mark(g, t, "abandoned")
      /\ stages' = stages \/ stages' = StagesAfterRelease(stages, published, <<g, t>>)
      /\ UNCHANGED <<owner, high, landed, published, next, doing, acked, answer, sent, handled>>
      /\ at' = at \/ \E a \in {"concluded", "failed"} : at' = [at EXCEPT ![g] = a]
  BY DEF CutOff, Abandon, TypeOK
<1>2. \A h \in Gen : /\ at'[h] # "lost" => at[h] # "lost"
                     /\ at'[h] = "calling" => at[h] = "calling"
  BY DEF CutOff, Abandon, OneIsCommitting, TypeOK
<1>3. AckedAreOlder' BY <1>1, <1>2 DEF AckedAreOlder
<1>4. /\ stages' \subseteq stages
      /\ {q \in stages' : q.id \in published} = {q \in stages : q.id \in published}
  BY <1>1 DEF StagesAfterRelease, Unpublished
<1>5. Visible' = Visible /\ Held' \subseteq Held BY <1>1, <1>4 DEF Visible, VisibleEvents, Held
<1>6. OkIsVisible' BY <1>1, <1>2, <1>5 DEF OkIsVisible, Answered
<1>7. /\ commit'[g][t] \in {"cut_off", "abandoned"}
      /\ \A h \in Gen, u \in Last : <<h, u>> # <<g, t>> => commit'[h][u] = commit[h][u]
  BY <1>1, MarkType DEF CommitState
<1>8. RowsAreOfCommits'
  <2>1. \A h \in Gen, u \in Last : commit[h][u] # "none" => commit'[h][u] # "none"
    BY <1>7
  <2>2. \A h \in Gen, u \in Last : commit[h][u] = "published" => commit'[h][u] = "published"
    BY <1>1, <1>7
  <2>3. ASSUME NEW q \in stages' PROVE commit'[q.id[1]][q.id[2]] # "none"
    <3>1. q \in stages /\ q.id[1] \in Gen /\ q.id[2] \in Last BY <1>4 DEF TypeOK
    <3> QED BY <2>1, <3>1 DEF RowsAreOfCommits
  <2>4. ASSUME NEW i \in Gen \X Last, i \in published PROVE commit'[i[1]][i[2]] = "published"
    <3>1. i[1] \in Gen /\ i[2] \in Last OBVIOUS
    <3> QED BY <2>2, <2>4, <3>1 DEF RowsAreOfCommits
  <2> QED BY <1>1, <1>4, <2>3, <2>4 DEF RowsAreOfCommits
<1> QED BY <1>1, <1>3, <1>5, <1>6, <1>8 DEF HeldAreDistinct, LogStep

\* Publication appends the commit's one row, if the row still stands.
LEMMA PublishLog ==
  ASSUME IInv, NEW g \in Gen, NEW t \in Last, Publish(g, t)
  PROVE  LogInv' /\ LogStep
<1> USE DEF IInv, NumberInv, LogInv, emitter
<1>1. /\ published' = published \union {<<g, t>>} /\ Mark(g, t, "published")
      /\ at[g] = "confirmed" /\ at' = [at EXCEPT ![g] = "concluded"]
      /\ UNCHANGED <<owner, high, landed, stages, next, doing, acked, answer, sent, handled>>
  BY DEF Publish
<1>2. \A h \in Gen : /\ at'[h] # "lost" => at[h] # "lost"
                     /\ at'[h] = "calling" => at[h] = "calling"
  BY <1>1 DEF TypeOK
<1>3. AckedAreOlder' BY <1>1, <1>2 DEF AckedAreOlder
<1>4. HeldAreDistinct' BY <1>1 DEF HeldAreDistinct, Held
<1>5. /\ commit'[g][t] = "published"
      /\ \A h \in Gen, u \in Last : <<h, u>> # <<g, t>> => commit'[h][u] = commit[h][u]
  BY <1>1, MarkType DEF CommitState
<1>6. RowsAreOfCommits'
  <2>1. \A h \in Gen, u \in Last : commit[h][u] # "none" => commit'[h][u] # "none"
    BY <1>5
  <2>2. \A h \in Gen, u \in Last : commit[h][u] = "published" => commit'[h][u] = "published"
    BY <1>5
  <2>3. ASSUME NEW q \in stages PROVE commit'[q.id[1]][q.id[2]] # "none"
    <3>1. q.id[1] \in Gen /\ q.id[2] \in Last BY DEF TypeOK
    <3> QED BY <2>1, <3>1 DEF RowsAreOfCommits
  <2>4. ASSUME NEW i \in Gen \X Last, i \in published' PROVE commit'[i[1]][i[2]] = "published"
    <3>1. i[1] \in Gen /\ i[2] \in Last OBVIOUS
    <3>2. CASE i \in published BY <2>2, <3>1, <3>2 DEF RowsAreOfCommits
    <3>3. CASE i = <<g, t>> BY <1>5, <3>3
    <3> QED BY <1>1, <2>4, <3>2, <3>3
  <2> QED BY <1>1, <2>3, <2>4 DEF RowsAreOfCommits
<1>7. LogStep /\ Visible \subseteq Visible'
  <2>1. CASE \E q \in stages : q.id = <<g, t>>
    <3>1. PICK q \in stages : q.id = <<g, t>> BY <2>1
    <3>2. \A p \in stages : p.id = <<g, t>> => p = q BY <3>1 DEF RowsAreOfCommits
    <3>3. {p \in stages : p.id \in published'} = {p \in stages : p.id \in published} \union {q}
      BY <1>1, <3>1, <3>2
    <3>4. Visible' = Visible \union {q.event} BY <1>1, <3>3 DEF Visible, VisibleEvents
    <3>5. CASE q.event \in Visible BY <1>1, <3>4, <3>5 DEF LogStep
    <3>6. CASE q.event \notin Visible
      <4>1. q.event \in Held /\ Visible \subseteq Held BY HeldIsAll DEF Held
      <4>2. \A f \in Visible : f.seq # q.event.seq BY <3>6, <4>1 DEF HeldAreDistinct
      <4>3. Log!Append(q.event) BY <1>1, <3>4, <4>2 DEF Log!Append, Visible
      <4> QED BY <3>4, <4>3 DEF LogStep, Log!Next, Visible
    <3> QED BY <3>4, <3>5, <3>6
  <2>2. CASE ~\E q \in stages : q.id = <<g, t>>
    <3>1. {p \in stages : p.id \in published'} = {p \in stages : p.id \in published}
      BY <1>1, <2>2
    <3>2. Visible' = Visible BY <1>1, <3>1 DEF Visible, VisibleEvents
    <3> QED BY <1>1, <3>2 DEF LogStep
  <2> QED BY <2>1, <2>2
<1>8. OkIsVisible' BY <1>1, <1>2, <1>7 DEF OkIsVisible, Answered
<1> QED BY <1>3, <1>4, <1>6, <1>7, <1>8

LEMMA RestLog ==
  ASSUME IInv, Seize \/ (\E g \in Gen : Confirm(g)) \/ UNCHANGED vars
  PROVE  LogInv' /\ LogStep
<1> USE DEF IInv, NumberInv, LogInv, vars, emitter, sink
<1>1. /\ UNCHANGED <<sink, emitter, answer, sent, handled, commit>>
      /\ \A h \in Gen : /\ at'[h] # "lost" => at[h] # "lost"
                        /\ at'[h] = "calling" => at[h] = "calling"
  BY DEF Seize, Confirm, TypeOK
<1>2. Visible' = Visible /\ Held' = Held BY <1>1 DEF Visible, VisibleEvents, Held
<1>3. HeldAreDistinct' /\ RowsAreOfCommits' BY <1>1, <1>2 DEF HeldAreDistinct, RowsAreOfCommits
<1>4. AckedAreOlder' BY <1>1 DEF AckedAreOlder
<1>5. OkIsVisible' BY <1>1, <1>2 DEF OkIsVisible, Answered
<1> QED BY <1>1, <1>2, <1>3, <1>4, <1>5 DEF LogStep

LEMMA StepLog == IInv /\ [Next]_vars => LogInv' /\ LogStep
<1> SUFFICES ASSUME IInv, [Next]_vars PROVE LogInv' /\ LogStep
  OBVIOUS
<1>1. CASE \E r \in sent : Handle(r) BY <1>1, HandleLog
<1>2. CASE Seize \/ (\E g \in Gen : Confirm(g)) \/ UNCHANGED vars BY <1>2, RestLog
<1>3. ASSUME NEW g \in Gen, NEW f \in Fact, Emit(g, f) PROVE LogInv' /\ LogStep
  <2>1. at[g] \in {"idle", "calling"} /\ at' = [at EXCEPT ![g] = "calling"] /\ Send(g, next[g], f)
        /\ UNCHANGED <<owner, sink, acked, commit>>
    BY <1>3 DEF Emit
  <2> QED BY <2>1, SendLog
<1>4. ASSUME NEW g \in Gen, WalkPast(g) PROVE LogInv' /\ LogStep
  <2>1. at[g] = "calling" /\ doing[g].fact \in Fact \union Last
    BY <1>4 DEF WalkPast, Answered, IInv, NumberInv, CallsAreSent, Event
  <2>2. at' = [at EXCEPT ![g] = "calling"] BY <1>4, <2>1 DEF WalkPast, IInv, NumberInv, TypeOK
  <2> QED BY <1>4, <2>1, <2>2, SendLog DEF WalkPast, NumberAfterConflict
<1>5. ASSUME NEW g \in Gen, Acknowledged(g) \/ Refused(g) \/ Unknown(g) PROVE LogInv' /\ LogStep
  BY <1>5, EndLog
<1>6. ASSUME NEW g \in Gen, NEW t \in Last, StageTerminal(g, t) \/ Publish(g, t) \/ CutOff(g, t) \/ Abandon(g, t)
      PROVE  LogInv' /\ LogStep
  BY <1>6, StageLog, PublishLog, AbandonLog
<1> QED BY <1>1, <1>2, <1>3, <1>4, <1>5, <1>6 DEF Next, Resume

\* The emitters of successive generations over the one sink implement
\* EventLog: readers see one event under a number, nothing they saw goes away,
\* and what emit acknowledged is readable, under numbers in its order
\* (RunEventEmitter over RecordingEventSink, staged terminals included).
THEOREM ImplementsLog == Spec => StreamSpec
<1>1. Init => IInv /\ Log!Init BY InitNumbers, InitLog DEF IInv
<1>2. IInv /\ [Next]_vars => IInv' /\ [Log!Next]_<<VisibleEvents(landed, stages, published), acked>>
  BY StepNumbers, StepLog DEF IInv, LogStep, Visible
<1> QED BY <1>1, <1>2, PTL DEF Spec, StreamSpec, Log!Spec

=============================================================================
