------------------------- MODULE FinalizationProofs -------------------------
(***************************************************************************)
(* Theorems about Finalization for every set of calls, identities and      *)
(* intents: a call that is over leaves nothing behind, an answer ok means  *)
(* that the caller's intent is published, and the three stores show an     *)
(* atomic record.                                                          *)
(***************************************************************************)
EXTENDS Finalization, TLAPS

-----------------------------------------------------------------------------
(* The inductive invariant.                                                *)

Working == Running \union {"retiring"}
HoldsStage == {"bundle", "confirm", "gate"}
HoldsBundle == {"confirm", "gate"}

\* A working call is the one in flight under its identity, and the identity
\* is published by the step that ends its run.
CallsInFlight ==
  /\ \A id \in Id : inFlight[id] # None =>
       IdOf[inFlight[id]] = id /\ pc[inFlight[id]] \in Working
  /\ \A c \in Call : pc[c] \in Working => inFlight[IdOf[c]] = c
  /\ \A c \in Call : pc[c] \in Running => IdOf[c] \notin published

CallsHaveOwned == \A c \in Call : pc[c] # "idle" => GenOf[c] <= owner

JoinsAreAlike ==
  \A c \in Call : pc[c] = "joined" =>
    joins[c] \in Call /\ IdOf[joins[c]] = IdOf[c] /\ IntentOf[joins[c]] = IntentOf[c]

\* The rows of a running call.
RowOf(c) == [id |-> IdOf[c], intent |-> IntentOf[c]]
StageOf(c) == [id |-> IdOf[c], event |-> TerminalEvent(c)]

\* A row that is not published is that of a running call which has come to it.
RowsAreOwned ==
  /\ \A t \in tails : t.id \in published \/ \E c \in Call : pc[c] \in Running /\ t = RowOf(c)
  /\ \A s \in stages : s.id \in published \/ \E c \in Call : pc[c] \in HoldsStage /\ s = StageOf(c)
  /\ \A b \in bundles : b.id \in published \/ \E c \in Call : pc[c] \in HoldsBundle /\ b = RowOf(c)

Visible == VisibleEvents(landed, stages, published)

\* A running call's rows stand; its event may have become readable by itself.
RowsStand ==
  \A c \in Call :
    /\ pc[c] \in Running => RowOf(c) \in tails
    /\ pc[c] \in HoldsStage => StageOf(c) \in stages \/ TerminalEvent(c) \in Visible
    /\ pc[c] \in HoldsBundle => RowOf(c) \in bundles

\* The events of the sink, those only reserved included.
Held == landed \union {s.event : s \in stages}

HeldAreDistinct == \A e, f \in Held : e.seq = f.seq => e = f

PublishedAreFinal == \A id \in published : finalized[GenOfId[id]] # None

CallInv == TypeOK /\ CallsInFlight /\ CallsHaveOwned /\ JoinsAreAlike /\ ClaimsAreLive /\ OkMeansPublished
RowInv == RowsAreOwned /\ RowsStand /\ HeldAreDistinct /\ PublishedAreFinal

IInv == CallInv /\ RowInv

-----------------------------------------------------------------------------
(* Types.                                                                  *)

Refusal == Outcome \ {"ok"}

Unserved == UNCHANGED <<high, landed>>

\* An attempt that ends without publication.
LEMMA FailEffect ==
  ASSUME NEW c \in Call, NEW o, Fail(c, o)
  PROVE  /\ tails' \subseteq tails /\ stages' \subseteq stages /\ bundles' \subseteq bundles
         /\ pc' = [pc EXCEPT ![c] = "retiring"]
         /\ result' = [result EXCEPT ![c] = o]
BY DEF Fail, End, Abandon, StagesAfterRelease

LEMMA FaultEffect ==
  ASSUME TypeOK, Fault
  PROVE  faults' \in 0 .. MaxFaults
BY FinalizationAssumption DEF Fault, TypeOK

LEMMA PrepareFailsEffect ==
  ASSUME TypeOK, NEW c \in Call, NEW s \in Store, PrepareFails(c, s)
  PROVE  /\ Unserved /\ faults' \in 0 .. MaxFaults
         /\ \E o \in Refusal : Fail(c, o)
<1>1. Unserved BY DEF PrepareFails, Unserved
<1>2. faults' \in 0 .. MaxFaults
  BY FaultEffect DEF PrepareFails, TypeOK
<1>3. \E o \in Refusal : Fail(c, o)
  BY DEF PrepareFails, Why, Refusal, Outcome
<1> QED BY <1>1, <1>2, <1>3

LEMMA ServeType ==
  ASSUME TypeOK, NEW s \in Store, NEW g \in Gen, g <= owner, Serve(s, g)
  PROVE  high' \in [Store -> 0 .. owner]
<1>1. g \in 0 .. owner BY DEF TypeOK, Gen
<1> QED BY <1>1 DEF Serve, TypeOK

LEMMA PreparesEffect ==
  ASSUME TypeOK, NEW c \in Call, NEW s \in Store, GenOf[c] <= owner, Prepares(c, s)
  PROVE  high' \in [Store -> 0 .. owner] /\ UNCHANGED <<landed, faults>>
<1>1. GenOf[c] \in Gen BY FinalizationAssumption
<1> QED BY <1>1, ServeType DEF Prepares

LEMMA EventsType ==
  ASSUME TypeOK
  PROVE  \A c \in Call : IdOf[c] \in Id /\ IntentOf[c] \in Intent /\ GenOf[c] \in Gen
                         /\ TerminalEvent(c) \in Event /\ GenOfId[IdOf[c]] = GenOf[c]
BY FinalizationAssumption DEF TerminalEvent

\* The parts of the type invariant that the steps of an attempt change.
StoresTyped ==
  /\ high \in [Store -> 0 .. owner]
  /\ tails \subseteq Row /\ bundles \subseteq Row
  /\ landed \subseteq Event /\ stages \subseteq [id : Id, event : Event]
  /\ faults \in 0 .. MaxFaults

LEMMA AttemptStores ==
  ASSUME TypeOK, NEW c \in Call, GenOf[c] <= owner, UNCHANGED owner,
         Begin(c) \/ StageEvent(c) \/ StageBundle(c) \/ Confirm(c) \/ Gate(c)
  PROVE  StoresTyped'
<1> USE DEF StoresTyped
<1>0. RowOf(c) \in Row /\ StageOf(c) \in [id : Id, event : Event]
  BY EventsType DEF RowOf, StageOf, Row
<1>1. CASE \E s \in Store : PrepareFails(c, s)
  <2>1. PICK s \in Store : PrepareFails(c, s) BY <1>1
  <2>2. Unserved /\ faults' \in 0 .. MaxFaults BY <2>1, PrepareFailsEffect
  <2>3. tails' \subseteq tails /\ stages' \subseteq stages /\ bundles' \subseteq bundles
    BY <2>1, PrepareFailsEffect, FailEffect
  <2> QED BY <2>2, <2>3 DEF Unserved, TypeOK
<1>2. CASE Begin(c) /\ ~PrepareFails(c, "journal")
  <2>1. Prepares(c, "journal") /\ tails' = tails \union {RowOf(c)} /\ UNCHANGED <<stages, bundles>>
    BY <1>2 DEF Begin, RowOf
  <2> QED BY <1>0, <2>1, PreparesEffect DEF TypeOK, Store
<1>3. CASE StageEvent(c) /\ ~PrepareFails(c, "events")
  <2>1. Prepares(c, "events") BY <1>3 DEF StageEvent
  <2>2. tails' \subseteq tails /\ bundles' \subseteq bundles /\ stages' \subseteq stages \union {StageOf(c)}
    <3>1. CASE Fail(c, "conflicting_replay") BY <3>1, FailEffect
    <3>2. CASE ~Fail(c, "conflicting_replay") BY <1>3, <3>2 DEF StageEvent, StagesAfterStaging, StageOf
    <3> QED BY <3>1, <3>2
  <2> QED BY <1>0, <2>1, <2>2, PreparesEffect DEF TypeOK, Store
<1>4. CASE StageBundle(c) /\ ~PrepareFails(c, "evidence")
  <2>1. Prepares(c, "evidence") /\ bundles' = bundles \union {RowOf(c)} /\ UNCHANGED <<tails, stages>>
    BY <1>4 DEF StageBundle, RowOf
  <2> QED BY <1>0, <2>1, PreparesEffect DEF TypeOK, Store
<1>5. CASE Confirm(c) \/ Gate(c)
  <2>1. UNCHANGED <<high, landed>> /\ faults' \in 0 .. MaxFaults
    BY <1>5, FaultEffect DEF Confirm, Gate, TypeOK
  <2>2. tails' \subseteq tails /\ stages' \subseteq stages /\ bundles' \subseteq bundles
    <3>1. CASE \E o \in Outcome : Fail(c, o) BY <3>1, FailEffect
    <3>2. CASE ~\E o \in Outcome : Fail(c, o) BY <1>5, <3>2 DEF Confirm, Gate, Publish, Outcome
    <3> QED BY <3>1, <3>2
  <2> QED BY <2>1, <2>2 DEF TypeOK
<1> QED BY <1>1, <1>2, <1>3, <1>4, <1>5 DEF Store

-----------------------------------------------------------------------------
(* Calls.                                                                  *)

Attempt(c) == Begin(c) \/ StageEvent(c) \/ StageBundle(c) \/ Confirm(c) \/ Gate(c)

\* The step of Gate that publishes.
Publishes(c) == Gate(c) /\ Publish(c)

\* A call that may take a step of #attempt.
MayAttempt(c) ==
  /\ GenOf[c] <= owner /\ IdOf[c] \notin published /\ result[c] # "ok"
  /\ \/ pc[c] \in Running /\ inFlight[IdOf[c]] = c
     \/ pc[c] = "idle" /\ inFlight[IdOf[c]] = None

LEMMA AttemptsMay ==
  ASSUME CallInv, NEW c \in Call, Attempt(c)
  PROVE  MayAttempt(c)
<1> USE DEF CallInv
<1>1. CASE Begin(c)
  <2>1. pc[c] = "idle" /\ GenOf[c] <= owner /\ IdOf[c] \notin published /\ inFlight[IdOf[c]] = None
    BY <1>1 DEF Begin, Called, Unsettled
  <2> QED BY <2>1 DEF MayAttempt, OkMeansPublished
<1>2. CASE pc[c] \in Running
  <2>1. IdOf[c] \notin published /\ inFlight[IdOf[c]] = c BY <1>2 DEF CallsInFlight, Working
  <2>2. GenOf[c] <= owner BY <1>2 DEF CallsHaveOwned, Running
  <2> QED BY <1>2, <2>1, <2>2 DEF MayAttempt, OkMeansPublished
<1> QED BY <1>1, <1>2 DEF Attempt, StageEvent, StageBundle, Confirm, Gate, Running

\* What every such step but the publication does to the calls.
AttemptMoves(c) ==
  /\ \E p \in Working, o \in Refusal \union {"none"} :
       pc' = [pc EXCEPT ![c] = p] /\ result' = [result EXCEPT ![c] = o]
  /\ claims' = claims \/ claims' = [claims EXCEPT ![GenOf[c]] = IdOf[c]]
  /\ inFlight' = [inFlight EXCEPT ![IdOf[c]] = c]
  /\ owned' \in [Call -> BOOLEAN]
  /\ UNCHANGED <<published, finalized, intents, owner, aborted, expired, joins>>

LEMMA AttemptMovesCalls ==
  ASSUME CallInv, NEW c \in Call, Attempt(c), ~Publishes(c)
  PROVE  AttemptMoves(c)
<1> USE DEF CallInv
<1>1. MayAttempt(c) BY AttemptsMay
<1>2. \E p \in Working, o \in Refusal \union {"none"} :
       pc' = [pc EXCEPT ![c] = p] /\ result' = [result EXCEPT ![c] = o]
  <2>1. ASSUME NEW o \in Refusal, Fail(c, o)
        PROVE  pc' = [pc EXCEPT ![c] = "retiring"] /\ result' = [result EXCEPT ![c] = o]
    BY <2>1, FailEffect
  <2>2. ASSUME NEW p \in Running, Goto(c, p)
        PROVE  pc' = [pc EXCEPT ![c] = p] /\ result' = [result EXCEPT ![c] = result[c]]
    BY <2>2 DEF Goto, TypeOK
  <2>3. result[c] \in Refusal \union {"none"} BY <1>1 DEF MayAttempt, TypeOK, Refusal
  <2>4. (\E o \in Refusal : Fail(c, o)) \/ (\E p \in Running : Goto(c, p))
    <3>1. CASE \E s \in Store : PrepareFails(c, s) BY <3>1, PrepareFailsEffect
    <3>2. CASE ~\E s \in Store : PrepareFails(c, s)
      BY <3>2 DEF Attempt, Begin, StageEvent, StageBundle, Confirm, Gate, Publishes, Store,
                  Running, Refusal, Outcome
    <3> QED BY <3>1, <3>2
  <2> QED BY <2>1, <2>2, <2>3, <2>4 DEF Working
<1>3. claims' = claims \/ claims' = [claims EXCEPT ![GenOf[c]] = IdOf[c]]
  BY DEF Attempt, Begin, StageEvent, StageBundle, Confirm, Gate, ledgers
<1>4. inFlight' = [inFlight EXCEPT ![IdOf[c]] = c]
  <2>1. CASE Begin(c) BY <2>1 DEF Begin
  <2>2. CASE ~Begin(c)
    <3>1. inFlight' = inFlight BY <2>2 DEF Attempt, StageEvent, StageBundle, Confirm, Gate, ledgers
    <3>2. inFlight[IdOf[c]] = c
      BY <1>1, <2>2 DEF MayAttempt, Attempt, StageEvent, StageBundle, Confirm, Gate, Running
    <3> QED BY <3>1, <3>2, EventsType DEF TypeOK
  <2> QED BY <2>1, <2>2
<1>5. owned' \in [Call -> BOOLEAN]
  BY DEF Attempt, Begin, StageEvent, StageBundle, Confirm, Gate, TypeOK
<1>6. UNCHANGED <<published, finalized, intents, owner, aborted, expired, joins>>
  BY DEF Attempt, Begin, StageEvent, StageBundle, Confirm, Gate, Publishes, ledgers, environment
<1> QED BY <1>2, <1>3, <1>4, <1>5, <1>6 DEF AttemptMoves

LEMMA AttemptCalls ==
  ASSUME CallInv, NEW c \in Call, Attempt(c), ~Publishes(c)
  PROVE  CallInv'
<1> USE DEF CallInv
<1>1. MayAttempt(c) /\ AttemptMoves(c) BY AttemptsMay, AttemptMovesCalls
<1>2. StoresTyped' BY <1>1, AttemptStores DEF MayAttempt, AttemptMoves, Attempt
<1>3. /\ IdOf[c] \in Id /\ GenOf[c] \in Gen /\ GenOfId[IdOf[c]] = GenOf[c]
      /\ c # None /\ IdOf[c] # None
  BY EventsType, FinalizationAssumption
<1>4. PICK p \in Working, o \in Refusal \union {"none"} :
        pc' = [pc EXCEPT ![c] = p] /\ result' = [result EXCEPT ![c] = o]
  BY <1>1 DEF AttemptMoves
<1>5. inFlight' = [inFlight EXCEPT ![IdOf[c]] = c]
      /\ UNCHANGED <<published, finalized, intents, owner, aborted, expired, joins>>
      /\ (claims' = claims \/ claims' = [claims EXCEPT ![GenOf[c]] = IdOf[c]])
      /\ owned' \in [Call -> BOOLEAN]
  BY <1>1 DEF AttemptMoves
<1>6. TypeOK'
  <2>1. pc' \in [Call -> Running \union {"idle", "joined", "retiring", "done"}]
        /\ result' \in [Call -> Outcome \union {"none"}]
    BY <1>4 DEF TypeOK, Working, Refusal
  <2>2. claims' \in [Gen -> Id \union {None}] /\ inFlight' \in [Id -> Call \union {None}]
    BY <1>3, <1>5 DEF TypeOK
  <2> QED BY <1>2, <1>5, <2>1, <2>2 DEF TypeOK, StoresTyped
<1>7. pc'[c] = p /\ result'[c] = o /\ \A d \in Call : d # c => pc'[d] = pc[d] /\ result'[d] = result[d]
  BY <1>4 DEF TypeOK
<1>8. inFlight'[IdOf[c]] = c /\ \A id \in Id : id # IdOf[c] => inFlight'[id] = inFlight[id]
  BY <1>3, <1>5 DEF TypeOK
<1>9. \A d \in Call : d # c /\ pc[d] \in Working => IdOf[d] # IdOf[c]
  <2>1. inFlight[IdOf[c]] \in {c, None} /\ None \notin Call
    BY <1>1, FinalizationAssumption DEF MayAttempt
  <2>2. \A d \in Call : pc[d] \in Working => inFlight[IdOf[d]] = d BY DEF CallsInFlight
  <2> QED BY <2>1, <2>2
<1>10. CallsInFlight'
  <2>1. ASSUME NEW id \in Id, inFlight'[id] # None
        PROVE  IdOf[inFlight'[id]] = id /\ pc'[inFlight'[id]] \in Working
    <3>1. CASE id = IdOf[c] BY <1>7, <1>8, <3>1
    <3>2. CASE id # IdOf[c]
      <4>1. inFlight[id] \in Call /\ IdOf[inFlight[id]] = id /\ pc[inFlight[id]] \in Working
        BY <1>8, <2>1, <3>2 DEF CallsInFlight, TypeOK
      <4> QED BY <1>7, <1>8, <3>2, <4>1
    <3> QED BY <3>1, <3>2
  <2>2. ASSUME NEW d \in Call, pc'[d] \in Working
        PROVE  inFlight'[IdOf[d]] = d /\ (pc'[d] \in Running => IdOf[d] \notin published')
    <3>1. CASE d = c BY <1>1, <1>5, <1>8, <3>1 DEF MayAttempt
    <3>2. CASE d # c
      <4>1. IdOf[d] \in Id BY EventsType
      <4> QED BY <1>5, <1>7, <1>8, <1>9, <2>2, <3>2, <4>1 DEF CallsInFlight
    <3> QED BY <3>1, <3>2
  <2>3. Running \subseteq Working BY DEF Working
  <2> QED BY <2>1, <2>2, <2>3 DEF CallsInFlight
<1>11. CallsHaveOwned' BY <1>1, <1>5, <1>7 DEF CallsHaveOwned, MayAttempt
<1>12. JoinsAreAlike' BY <1>5, <1>7 DEF JoinsAreAlike, Working, Running
<1>13. ClaimsAreLive'
  <2> SUFFICES ASSUME NEW g \in Gen, claims'[g] # None
               PROVE  GenOfId[claims'[g]] = g /\ inFlight'[claims'[g]] # None
    BY DEF ClaimsAreLive
  <2>1. CASE claims'[g] = claims[g]
    <3>1. claims[g] \in Id /\ GenOfId[claims[g]] = g /\ inFlight[claims[g]] # None
      BY <2>1 DEF ClaimsAreLive, TypeOK
    <3> QED BY <1>3, <1>8, <2>1, <3>1
  <2>2. CASE claims'[g] # claims[g]
    <3>1. g = GenOf[c] /\ claims'[g] = IdOf[c] BY <1>5, <2>2 DEF TypeOK
    <3> QED BY <1>3, <1>8, <3>1
  <2> QED BY <2>1, <2>2
<1>14. OkMeansPublished'
  <2>1. o # "ok" BY DEF Refusal, Outcome
  <2> QED BY <1>5, <1>7, <2>1 DEF OkMeansPublished
<1> QED BY <1>6, <1>10, <1>11, <1>12, <1>13, <1>14

\* The publication.
LEMMA PublishCalls ==
  ASSUME CallInv, NEW c \in Call, Publishes(c)
  PROVE  /\ CallInv'
         /\ published' = published \union {IdOf[c]} /\ pc' = [pc EXCEPT ![c] = "retiring"]
         /\ finalized' = [finalized EXCEPT ![GenOf[c]] = IdOf[c]]
<1> USE DEF CallInv
<1>1. /\ pc[c] = "gate" /\ inFlight[IdOf[c]] = c /\ IdOf[c] \notin published /\ GenOf[c] <= owner
  BY DEF Publishes, Gate, CallsInFlight, CallsHaveOwned, Working, Running
<1>2. /\ IdOf[c] \in Id /\ GenOf[c] \in Gen /\ GenOfId[IdOf[c]] = GenOf[c] /\ IntentOf[c] \in Intent
      /\ c # None /\ IdOf[c] # None
  BY EventsType, FinalizationAssumption
<1>3. StoresTyped' BY <1>1, AttemptStores DEF Publishes, Gate, environment
<1>4. /\ published' = published \union {IdOf[c]}
      /\ finalized' = [finalized EXCEPT ![GenOf[c]] = IdOf[c]]
      /\ intents' = [intents EXCEPT ![IdOf[c]] = IntentOf[c]]
      /\ pc' = [pc EXCEPT ![c] = "retiring"] /\ result' = [result EXCEPT ![c] = "ok"]
      /\ UNCHANGED <<inFlight, owner, aborted, expired, joins, owned>>
  <2>1. Publish(c) BY DEF Publishes
  <2>2. UNCHANGED <<inFlight, owner, aborted, expired, joins, owned>>
    BY <1>1, <2>1 DEF Publishes, Gate, ledgers, environment, Publish, CallsInFlight
  <2> QED BY <2>1, <2>2 DEF Publish, End
<1>5. claims' = [claims EXCEPT ![GenOf[c]] = IdOf[c]]
  <2>1. IdOf[c] \in published' BY <1>4
  <2> QED BY <1>1, <2>1 DEF Publishes, Gate, ledgers
<1>6. TypeOK'
  <2>1. pc' \in [Call -> Running \union {"idle", "joined", "retiring", "done"}]
        /\ result' \in [Call -> Outcome \union {"none"}]
    BY <1>4 DEF TypeOK, Outcome
  <2>2. /\ claims' \in [Gen -> Id \union {None}] /\ finalized' \in [Gen -> Id \union {None}]
        /\ intents' \in [Id -> Intent \union {None}] /\ published' \subseteq Id
    BY <1>2, <1>4, <1>5 DEF TypeOK
  <2> QED BY <1>3, <1>4, <2>1, <2>2 DEF TypeOK, StoresTyped
<1>7. pc'[c] = "retiring" /\ \A d \in Call : d # c => pc'[d] = pc[d] /\ result'[d] = result[d]
  BY <1>4 DEF TypeOK
<1>8. CallsInFlight'
  <2>1. \A id \in Id : inFlight[id] # None => inFlight[id] \in Call BY DEF TypeOK
  <2>2. \A d \in Call : pc'[d] \in Running => d # c /\ pc[d] \in Running
    BY <1>7 DEF Running
  <2>3. \A d \in Call : pc'[d] \in Running => IdOf[d] \notin published'
    BY <1>1, <1>4, <2>2 DEF CallsInFlight, Working
  <2>4. \A d \in Call : pc'[d] \in Working <=> pc[d] \in Working
    BY <1>1, <1>7 DEF Working, Running
  <2> QED BY <1>4, <2>1, <2>3, <2>4 DEF CallsInFlight
<1>9. CallsHaveOwned' BY <1>1, <1>4, <1>7 DEF CallsHaveOwned
<1>10. JoinsAreAlike' BY <1>4, <1>7 DEF JoinsAreAlike
<1>11. ClaimsAreLive'
  <2>1. inFlight'[IdOf[c]] # None BY <1>1, <1>2, <1>4
  <2> QED BY <1>2, <1>4, <1>5, <2>1 DEF ClaimsAreLive, TypeOK
<1>12. OkMeansPublished'
  <2>1. intents'[IdOf[c]] = IntentOf[c] /\ \A id \in Id : id # IdOf[c] => intents'[id] = intents[id]
    BY <1>2, <1>4 DEF TypeOK
  <2>2. ASSUME NEW d \in Call, d # c, result'[d] = "ok" PROVE IdOf[d] \in published /\ intents[IdOf[d]] = IntentOf[d]
    BY <1>7, <2>2 DEF OkMeansPublished
  <2> QED BY <1>1, <1>4, <2>1, <2>2, EventsType DEF OkMeansPublished
<1> QED BY <1>4, <1>6, <1>8, <1>9, <1>10, <1>11, <1>12

\* A call is answered: at its entry, or with the outcome of the call it joined.
LEMMA AnswerCalls ==
  ASSUME CallInv, NEW c \in Call, Reconcile(c) \/ Supersede(c) \/ Collide(c) \/ Share(c)
  PROVE  CallInv'
<1> USE DEF CallInv
<1>1. PICK o \in Outcome \union {"none"} :
        /\ o = "ok" => IdOf[c] \in published /\ intents[IdOf[c]] = IntentOf[c]
        /\ result' = [result EXCEPT ![c] = o]
  <2>1. CASE Share(c)
    <3>1. joins[c] \in Call /\ IdOf[joins[c]] = IdOf[c] /\ IntentOf[joins[c]] = IntentOf[c]
      BY <2>1 DEF Share, JoinsAreAlike
    <3> QED BY <2>1, <3>1 DEF Share, OkMeansPublished, TypeOK
  <2>2. CASE ~Share(c)
    BY <2>2 DEF Reconcile, Supersede, Collide, Respond, Outcome
  <2> QED BY <2>1, <2>2
<1>2. /\ pc[c] \in {"idle", "joined"} /\ pc' = [pc EXCEPT ![c] = "done"] /\ GenOf[c] <= owner
      /\ UNCHANGED <<stores, ledgers, environment, joins, owned, faults>>
  BY DEF Reconcile, Supersede, Collide, Share, Respond, Called, CallsHaveOwned
<1> USE DEF stores, ledgers, environment
<1>3. TypeOK' BY <1>1, <1>2 DEF TypeOK
<1>4. /\ \A d \in Call : d # c => pc'[d] = pc[d] /\ result'[d] = result[d]
      /\ pc'[c] = "done" /\ result'[c] = o
  BY <1>1, <1>2 DEF TypeOK
<1>5. CallsInFlight'
  <2>1. \A d \in Call : (pc'[d] \in Working <=> pc[d] \in Working) /\ (pc'[d] \in Running <=> pc[d] \in Running)
    BY <1>2, <1>4 DEF Working, Running
  <2>2. \A id \in Id : inFlight[id] # None => inFlight[id] \in Call BY DEF TypeOK
  <2> QED BY <1>2, <2>1, <2>2 DEF CallsInFlight
<1>6. CallsHaveOwned' /\ JoinsAreAlike' BY <1>2, <1>4 DEF CallsHaveOwned, JoinsAreAlike
<1>7. ClaimsAreLive' BY <1>2 DEF ClaimsAreLive
<1>8. OkMeansPublished' BY <1>1, <1>2, <1>4 DEF OkMeansPublished
<1> QED BY <1>3, <1>5, <1>6, <1>7, <1>8

LEMMA JoinCalls ==
  ASSUME CallInv, NEW c \in Call, Join(c)
  PROVE  CallInv'
<1> USE DEF CallInv
<1>1. /\ pc[c] = "idle" /\ pc' = [pc EXCEPT ![c] = "joined"] /\ GenOf[c] <= owner
      /\ inFlight[IdOf[c]] # None /\ IntentOf[inFlight[IdOf[c]]] = IntentOf[c]
      /\ joins' = [joins EXCEPT ![c] = inFlight[IdOf[c]]]
      /\ UNCHANGED <<stores, ledgers, environment, owned, faults, result>>
  BY DEF Join, Called, Goto
<1> USE DEF stores, ledgers, environment
<1>2. inFlight[IdOf[c]] \in Call /\ IdOf[inFlight[IdOf[c]]] = IdOf[c]
  BY <1>1, EventsType DEF CallsInFlight, TypeOK
<1>3. TypeOK' BY <1>1, <1>2 DEF TypeOK
<1>4. /\ \A d \in Call : d # c => pc'[d] = pc[d] /\ joins'[d] = joins[d]
      /\ pc'[c] = "joined" /\ joins'[c] = inFlight[IdOf[c]]
  BY <1>1 DEF TypeOK
<1>5. CallsInFlight'
  <2>1. \A d \in Call : (pc'[d] \in Working <=> pc[d] \in Working) /\ (pc'[d] \in Running <=> pc[d] \in Running)
    BY <1>1, <1>4 DEF Working, Running
  <2>2. \A id \in Id : inFlight[id] # None => inFlight[id] \in Call BY DEF TypeOK
  <2> QED BY <1>1, <2>1, <2>2 DEF CallsInFlight
<1>6. CallsHaveOwned' BY <1>1, <1>4 DEF CallsHaveOwned
<1>7. JoinsAreAlike' BY <1>1, <1>2, <1>4 DEF JoinsAreAlike
<1>8. ClaimsAreLive' /\ OkMeansPublished' BY <1>1 DEF ClaimsAreLive, OkMeansPublished
<1> QED BY <1>3, <1>5, <1>6, <1>7, <1>8

\* The finally of #run: the claim goes with the identity in flight.
LEMMA RetireCalls ==
  ASSUME CallInv, NEW c \in Call, Retire(c)
  PROVE  CallInv'
<1> USE DEF CallInv
<1>1. /\ pc[c] = "retiring" /\ pc' = [pc EXCEPT ![c] = "done"]
      /\ claims' = IF claims[GenOf[c]] = IdOf[c] THEN [claims EXCEPT ![GenOf[c]] = None] ELSE claims
      /\ inFlight' = [inFlight EXCEPT ![IdOf[c]] = None]
      /\ UNCHANGED <<stores, published, finalized, intents, environment, joins, owned, result, faults>>
  BY DEF Retire
<1> USE DEF stores, environment
<1>2. IdOf[c] \in Id /\ GenOf[c] \in Gen /\ GenOfId[IdOf[c]] = GenOf[c] BY EventsType
<1>3. inFlight[IdOf[c]] = c BY <1>1 DEF CallsInFlight, Working
<1>4. TypeOK' BY <1>1, <1>2 DEF TypeOK
<1>5. pc'[c] = "done" /\ \A d \in Call : d # c => pc'[d] = pc[d] BY <1>1 DEF TypeOK
<1>6. inFlight'[IdOf[c]] = None /\ \A id \in Id : id # IdOf[c] => inFlight'[id] = inFlight[id]
  BY <1>1, <1>2 DEF TypeOK
<1>7. CallsInFlight'
  <2>1. ASSUME NEW id \in Id, inFlight'[id] # None
        PROVE  IdOf[inFlight'[id]] = id /\ pc'[inFlight'[id]] \in Working
    <3>1. id # IdOf[c] /\ inFlight'[id] = inFlight[id] BY <1>6, <2>1
    <3>2. inFlight[id] \in Call /\ IdOf[inFlight[id]] = id /\ pc[inFlight[id]] \in Working
      BY <2>1, <3>1 DEF CallsInFlight, TypeOK
    <3> QED BY <1>5, <3>1, <3>2
  <2>2. ASSUME NEW d \in Call, pc'[d] \in Working
        PROVE  inFlight'[IdOf[d]] = d /\ (pc'[d] \in Running => IdOf[d] \notin published')
    <3>1. d # c /\ pc[d] \in Working BY <1>5, <2>2 DEF Working, Running
    <3>2. inFlight[IdOf[d]] = d BY <3>1 DEF CallsInFlight
    <3>3. IdOf[d] # IdOf[c] /\ IdOf[d] \in Id BY <1>3, <3>1, <3>2, EventsType
    <3> QED BY <1>1, <1>5, <1>6, <3>1, <3>2, <3>3 DEF CallsInFlight
  <2>3. Running \subseteq Working BY DEF Working
  <2> QED BY <2>1, <2>2, <2>3 DEF CallsInFlight
<1>8. CallsHaveOwned' BY <1>1, <1>5 DEF CallsHaveOwned
<1>9. JoinsAreAlike' BY <1>1, <1>5 DEF JoinsAreAlike
<1>10. ClaimsAreLive'
  <2> SUFFICES ASSUME NEW g \in Gen, claims'[g] # None
               PROVE  GenOfId[claims'[g]] = g /\ inFlight'[claims'[g]] # None
    BY DEF ClaimsAreLive
  <2>1. claims'[g] = claims[g] /\ claims[g] # IdOf[c]
    <3>1. claims'[g] = claims[g] BY <1>1, <1>2 DEF TypeOK
    <3>2. claims[g] = IdOf[c] => g = GenOf[c] BY <1>2, <3>1 DEF ClaimsAreLive
    <3>3. g = GenOf[c] => claims[g] # IdOf[c] BY <1>1, <1>2, <3>1 DEF TypeOK
    <3> QED BY <3>1, <3>2, <3>3
  <2>2. claims[g] \in Id /\ GenOfId[claims[g]] = g /\ inFlight[claims[g]] # None
    BY <2>1 DEF ClaimsAreLive, TypeOK
  <2> QED BY <1>6, <2>1, <2>2
<1>11. OkMeansPublished' BY <1>1 DEF OkMeansPublished
<1> QED BY <1>4, <1>7, <1>8, <1>9, <1>10, <1>11

Environment == \/ \E c \in Call : Abort(c) \/ Expire(c)
               \/ NewOwner
               \/ \E g \in Gen, e \in Event : Emit(g, e)
               \/ \E s \in {"journal", "evidence"}, g \in Gen : Append(s, g)
               \/ UNCHANGED vars

\* What surrounds finalization changes no call.
LEMMA EnvironmentCalls ==
  ASSUME CallInv, Environment
  PROVE  CallInv'
<1> USE DEF CallInv
<1>1. /\ UNCHANGED <<tails, bundles, published, finalized, intents, claims, inFlight, pc, joins, owned, result>>
      /\ owner' \in Gen /\ owner <= owner'
  BY FinalizationAssumption
  DEF Environment, Abort, Expire, NewOwner, Emit, Append, vars, stores, ledgers, environment, TypeOK, Gen
<1>2. high' \in [Store -> 0 .. owner']
  <2>1. ASSUME NEW s \in Store, NEW g \in Gen, g <= owner, Serve(s, g), owner' = owner
        PROVE  high' \in [Store -> 0 .. owner']
    BY <2>1, ServeType
  <2>2. CASE high' = high
    <3>1. \A n \in 0 .. owner : n \in 0 .. owner' BY <1>1 DEF TypeOK, Gen
    <3> QED BY <2>2, <3>1 DEF TypeOK
  <2> QED BY <2>1, <2>2
      DEF Environment, Abort, Expire, NewOwner, Emit, Append, vars, stores, environment, Store
<1>3. landed' \subseteq Event /\ stages' \subseteq [id : Id, event : Event]
  <2>1. ASSUME NEW g \in Gen, NEW e \in Event, Emit(g, e)
        PROVE  landed' \subseteq landed \union {e} /\ stages' \subseteq stages
    BY <2>1 DEF Emit, LandedAfter, StagesAfterEmit
  <2>2. CASE \E g \in Gen, e \in Event : Emit(g, e) BY <2>1, <2>2 DEF TypeOK
  <2>3. CASE UNCHANGED <<landed, stages>> BY <2>3 DEF TypeOK
  <2> QED BY <2>2, <2>3 DEF Environment, Abort, Expire, NewOwner, Append, vars, stores
<1>4. aborted' \subseteq Call /\ expired' \subseteq Call /\ faults' \in 0 .. MaxFaults
  BY FaultEffect
  DEF Environment, Abort, Expire, NewOwner, Emit, Append, vars, stores, environment, TypeOK
<1>5. TypeOK' BY <1>1, <1>2, <1>3, <1>4 DEF TypeOK
<1>6. CallsInFlight' /\ JoinsAreAlike' /\ ClaimsAreLive' /\ OkMeansPublished'
  BY <1>1 DEF CallsInFlight, JoinsAreAlike, ClaimsAreLive, OkMeansPublished
<1>7. CallsHaveOwned'
  <2>1. \A c \in Call : GenOf[c] \in Nat /\ (pc[c] # "idle" => GenOf[c] <= owner)
    BY EventsType DEF Gen, CallsHaveOwned
  <2> QED BY <1>1, <2>1 DEF CallsHaveOwned, TypeOK, Gen
<1> QED BY <1>5, <1>6, <1>7

LEMMA InitCalls == Init => CallInv
<1> SUFFICES ASSUME Init PROVE CallInv
  OBVIOUS
<1>1. TypeOK BY FinalizationAssumption DEF Init, TypeOK, Gen, Store, Row
<1>2. \A c \in Call : pc[c] = "idle" /\ result[c] = "none" BY DEF Init
<1> QED BY <1>1, <1>2 DEF Init, CallInv, CallsInFlight, CallsHaveOwned, JoinsAreAlike, ClaimsAreLive,
                      OkMeansPublished, Working, Running

LEMMA StepsAre ==
  ASSUME [Next]_vars
  PROVE  \/ Environment
         \/ \E c \in Call : \/ Attempt(c) \/ Join(c) \/ Retire(c)
                            \/ Reconcile(c) \/ Supersede(c) \/ Collide(c) \/ Share(c)
BY DEF Next, Continue, Environment, Attempt

LEMMA StepCalls == CallInv /\ [Next]_vars => CallInv'
BY StepsAre, EnvironmentCalls, AttemptCalls, PublishCalls, JoinCalls, RetireCalls, AnswerCalls

-----------------------------------------------------------------------------
(* Rows.                                                                   *)

RecordStep == [Record!Next]_<<Readable(tails), Readable(bundles), Visible>>

LEMMA HeldIsAll ==
  /\ Visible \subseteq Held
  /\ \A e : Occupied(landed, stages, published, e) <=> Clash(Held, e)
<1>1. Held = Visible \union Reserved(stages, published)
  BY DEF Held, Visible, VisibleEvents, Reserved, Unpublished
<1> QED BY <1>1 DEF Occupied, Visible

\* A step that writes no row and takes no call into or out of an attempt's run.
LEMMA QuietRows ==
  ASSUME IInv, UNCHANGED <<tails, landed, stages, bundles, published, finalized>>,
         \A c \in Call : pc'[c] \in Running \/ pc[c] \in Running => pc'[c] = pc[c]
  PROVE  RowInv' /\ RecordStep
<1> USE DEF IInv, RowInv
<1>1. Visible' = Visible /\ Held' = Held /\ Readable(tails)' = Readable(tails)
      /\ Readable(bundles)' = Readable(bundles)
  BY DEF Visible, VisibleEvents, Held, Readable
<1>2. \A c \in Call : /\ pc'[c] \in Running <=> pc[c] \in Running
                      /\ pc'[c] \in HoldsStage <=> pc[c] \in HoldsStage
                      /\ pc'[c] \in HoldsBundle <=> pc[c] \in HoldsBundle
  BY DEF Running, HoldsStage, HoldsBundle
<1>3. RowsAreOwned' BY <1>2 DEF RowsAreOwned, RowOf, StageOf, TerminalEvent
<1>4. RowsStand' BY <1>1, <1>2 DEF RowsStand, RowOf, StageOf, TerminalEvent
<1>5. HeldAreDistinct' /\ PublishedAreFinal' BY <1>1 DEF HeldAreDistinct, PublishedAreFinal
<1> QED BY <1>1, <1>3, <1>4, <1>5 DEF RecordStep

LEMMA QuietSteps ==
  ASSUME IInv, NEW c \in Call,
         Join(c) \/ Retire(c) \/ Reconcile(c) \/ Supersede(c) \/ Collide(c) \/ Share(c)
  PROVE  RowInv' /\ RecordStep
<1>1. /\ pc[c] \notin Running
      /\ \E p \in {"joined", "done"} : pc' = [pc EXCEPT ![c] = p]
      /\ UNCHANGED <<tails, landed, stages, bundles, published, finalized>>
  BY DEF Join, Retire, Reconcile, Supersede, Collide, Share, Respond, Called, Goto, stores, ledgers, Running
<1>2. \A d \in Call : pc'[d] \in Running \/ pc[d] \in Running => pc'[d] = pc[d]
  BY <1>1 DEF IInv, CallInv, TypeOK, Running
<1> QED BY <1>1, <1>2, QuietRows

\* An ordinary event that lands takes the place of the rows that reserved it.
LEMMA EmitRows ==
  ASSUME IInv, NEW g \in Gen, NEW e \in Event, Emit(g, e)
  PROVE  RowInv' /\ RecordStep
<1> USE DEF IInv, RowInv
<1>1. UNCHANGED <<tails, bundles, published, finalized, pc>> BY DEF Emit, ledgers
<1>2. CASE UNCHANGED <<landed, stages>> BY <1>1, <1>2, QuietRows
<1>3. CASE ~UNCHANGED <<landed, stages>>
  <2>1. /\ ~Occupied(landed, stages, published, e) /\ e \notin Visible
        /\ landed' = landed \union {e}
        /\ stages' = stages \ {s \in Unpublished(stages, published) : s.event = e}
    BY <1>3 DEF Emit, LandedAfter, StagesAfterEmit, Visible
  <2>2. {t \in stages' : t.id \in published'} = {t \in stages : t.id \in published}
    BY <1>1, <2>1 DEF Unpublished
  <2>3. Visible' = Visible \union {e} BY <2>1, <2>2 DEF Visible, VisibleEvents
  <2>4. Held' \subseteq Held \union {e} BY <2>1 DEF Held
  <2>5. \A f \in Held : f.seq = e.seq => f = e BY <2>1, HeldIsAll DEF Clash
  <2>6. HeldAreDistinct' BY <2>4, <2>5 DEF HeldAreDistinct
  <2>7. RowsAreOwned'
    <3>1. stages' \subseteq stages BY <2>1
    <3> QED BY <1>1, <3>1 DEF RowsAreOwned, RowOf, StageOf, TerminalEvent
  <2>8. RowsStand'
    <3>1. \A c \in Call : StageOf(c) \in stages => StageOf(c) \in stages' \/ TerminalEvent(c) = e
      BY <2>1 DEF StageOf
    <3> QED BY <1>1, <2>3, <3>1 DEF RowsStand, RowOf, StageOf, TerminalEvent
  <2>9. Readable(tails)' = Readable(tails) /\ Readable(bundles)' = Readable(bundles)
    BY <1>1 DEF Readable
  <2>10. Record!Emit(e)
    BY <2>3, <2>5, <2>9, HeldIsAll DEF Record!Emit, Record!Compatible, Visible
  <2> QED BY <1>1, <2>6, <2>7, <2>8, <2>10 DEF PublishedAreFinal, RecordStep, Record!Next, Visible
<1> QED BY <1>2, <1>3

LEMMA EnvironmentRows ==
  ASSUME IInv, Environment
  PROVE  RowInv' /\ RecordStep
<1>1. CASE \E g \in Gen, e \in Event : Emit(g, e) BY <1>1, EmitRows
<1>2. CASE ~\E g \in Gen, e \in Event : Emit(g, e)
  <2>1. UNCHANGED <<tails, landed, stages, bundles, published, finalized, pc>>
    BY <1>2 DEF Environment, Abort, Expire, NewOwner, Append, vars, stores, ledgers
  <2> QED BY <2>1, QuietRows
<1> QED BY <1>1, <1>2

\* The unpublished rows under a call's identity are its own.
LEMMA OwnRows ==
  ASSUME IInv, NEW c \in Call, MayAttempt(c)
  PROVE  /\ \A d \in Call : d # c /\ pc[d] \in Running => IdOf[d] # IdOf[c]
         /\ \A t \in tails : t.id = IdOf[c] => pc[c] \in Running /\ t = RowOf(c)
         /\ \A s \in stages : s.id = IdOf[c] => pc[c] \in HoldsStage /\ s = StageOf(c)
         /\ \A b \in bundles : b.id = IdOf[c] => pc[c] \in HoldsBundle /\ b = RowOf(c)
<1> USE DEF IInv, RowInv, CallInv
<1>1. \A d \in Call : d # c /\ pc[d] \in Running => IdOf[d] # IdOf[c]
  <2>1. inFlight[IdOf[c]] \in {c, None} /\ None \notin Call BY FinalizationAssumption DEF MayAttempt
  <2>2. \A d \in Call : pc[d] \in Running => inFlight[IdOf[d]] = d BY DEF CallsInFlight, Working
  <2> QED BY <2>1, <2>2
<1>2. IdOf[c] \notin published BY DEF MayAttempt
<1>3. \A d \in Call : RowOf(d).id = IdOf[d] /\ StageOf(d).id = IdOf[d] BY DEF RowOf, StageOf
<1>4. HoldsStage \subseteq Running /\ HoldsBundle \subseteq Running BY DEF HoldsStage, HoldsBundle, Running
<1> QED BY <1>1, <1>2, <1>3, <1>4 DEF RowsAreOwned

\* An attempt that fails leaves none of its rows.
LEMMA FailRows ==
  ASSUME IInv, NEW c \in Call, MayAttempt(c), NEW o, Fail(c, o),
         UNCHANGED <<landed, published, finalized>>
  PROVE  RowInv' /\ RecordStep
<1> USE DEF IInv, RowInv, CallInv
<1>1. /\ tails' = {t \in tails : t.id # IdOf[c]}
      /\ stages' = {s \in stages : s.id # IdOf[c]}
      /\ bundles' = {b \in bundles : b.id # IdOf[c]}
  <2>1. Abandon(c) /\ IdOf[c] \notin published BY DEF Fail, MayAttempt
  <2>2. tails' = {t \in tails : t.id # IdOf[c]}
    <3>1. CASE pc[c] \in Running BY <2>1, <3>1 DEF Abandon, Running
    <3>2. CASE pc[c] \notin Running
      <4>1. tails' = tails BY <2>1, <3>2 DEF Abandon, Running
      <4> QED BY <3>2, <4>1, OwnRows
    <3> QED BY <3>1, <3>2
  <2>3. stages' = {s \in stages : s.id # IdOf[c]}
    <3>1. CASE pc[c] \in HoldsStage
      BY <2>1, <3>1 DEF Abandon, HoldsStage, StagesAfterRelease, Unpublished
    <3>2. CASE pc[c] \notin HoldsStage
      <4>1. stages' = stages BY <2>1, <3>2 DEF Abandon, HoldsStage
      <4> QED BY <3>2, <4>1, OwnRows
    <3> QED BY <3>1, <3>2
  <2>4. bundles' = {b \in bundles : b.id # IdOf[c]}
    <3>1. CASE pc[c] \in HoldsBundle BY <2>1, <3>1 DEF Abandon, HoldsBundle
    <3>2. CASE pc[c] \notin HoldsBundle
      <4>1. bundles' = bundles BY <2>1, <3>2 DEF Abandon, HoldsBundle
      <4> QED BY <3>2, <4>1, OwnRows
    <3> QED BY <3>1, <3>2
  <2> QED BY <2>2, <2>3, <2>4
<1>2. IdOf[c] \notin published BY DEF MayAttempt
<1>3. /\ {t \in tails' : t.id \in published} = {t \in tails : t.id \in published}
      /\ {s \in stages' : s.id \in published} = {s \in stages : s.id \in published}
      /\ {b \in bundles' : b.id \in published} = {b \in bundles : b.id \in published}
  BY <1>1, <1>2
<1>4. Visible' = Visible /\ Readable(tails)' = Readable(tails) /\ Readable(bundles)' = Readable(bundles)
  BY <1>3 DEF Visible, VisibleEvents, Readable
<1>5. pc'[c] = "retiring" /\ \A d \in Call : d # c => pc'[d] = pc[d]
  BY FailEffect DEF TypeOK
<1>6. HeldAreDistinct' BY <1>1 DEF HeldAreDistinct, Held
<1>7. \A d \in Call : RowOf(d).id = IdOf[d] /\ StageOf(d).id = IdOf[d] BY DEF RowOf, StageOf
<1>8. RowsAreOwned' BY <1>1, <1>5, <1>7 DEF RowsAreOwned, RowOf, StageOf, TerminalEvent
<1>9. RowsStand'
  <2>1. \A d \in Call : pc'[d] \in Running => d # c /\ pc[d] \in Running /\ IdOf[d] # IdOf[c]
    BY <1>5, OwnRows DEF Running
  <2>2. HoldsStage \subseteq Running /\ HoldsBundle \subseteq Running BY DEF HoldsStage, HoldsBundle, Running
  <2>3. \A d \in Call : IdOf[d] # IdOf[c] =>
          /\ RowOf(d) \in tails => RowOf(d) \in tails'
          /\ StageOf(d) \in stages => StageOf(d) \in stages'
          /\ RowOf(d) \in bundles => RowOf(d) \in bundles'
    BY <1>1, <1>7
  <2> QED BY <1>4, <1>5, <2>1, <2>2, <2>3 DEF RowsStand, RowOf, StageOf, TerminalEvent
<1> QED BY <1>4, <1>6, <1>8, <1>9 DEF PublishedAreFinal, RecordStep

\* What a call adds when its attempt goes on to p.
Adds(c, p) ==
  /\ tails' = tails \union {RowOf(c)}
  /\ IF p \in HoldsStage
     THEN \/ stages' = stages /\ (StageOf(c) \in stages \/ TerminalEvent(c) \in Visible)
          \/ stages' = stages \union {StageOf(c)} /\ ~Occupied(landed, stages, published, TerminalEvent(c))
     ELSE stages' = stages /\ pc[c] \notin HoldsStage
  /\ IF p \in HoldsBundle THEN bundles' = bundles \union {RowOf(c)}
     ELSE bundles' = bundles /\ pc[c] \notin HoldsBundle

LEMMA AdvanceRows ==
  ASSUME IInv, NEW c \in Call, MayAttempt(c), NEW p \in Running, Adds(c, p),
         pc' = [pc EXCEPT ![c] = p], UNCHANGED <<landed, published, finalized>>
  PROVE  RowInv' /\ RecordStep
<1> USE DEF IInv, RowInv, CallInv
<1>1. /\ IdOf[c] \notin published /\ RowOf(c).id = IdOf[c] /\ StageOf(c).id = IdOf[c]
      /\ StageOf(c).event = TerminalEvent(c)
  BY DEF MayAttempt, RowOf, StageOf
<1>2. /\ tails' = tails \union {RowOf(c)}
      /\ stages' = stages \/ stages' = stages \union {StageOf(c)}
      /\ bundles' = bundles \/ bundles' = bundles \union {RowOf(c)}
  BY DEF Adds
<1>3. /\ {t \in tails' : t.id \in published} = {t \in tails : t.id \in published}
      /\ {s \in stages' : s.id \in published} = {s \in stages : s.id \in published}
      /\ {b \in bundles' : b.id \in published} = {b \in bundles : b.id \in published}
  BY <1>1, <1>2
<1>4. Visible' = Visible /\ Readable(tails)' = Readable(tails) /\ Readable(bundles)' = Readable(bundles)
  BY <1>3 DEF Visible, VisibleEvents, Readable
<1>5. pc'[c] = p /\ \A d \in Call : d # c => pc'[d] = pc[d] BY DEF TypeOK
<1>6. HeldAreDistinct'
  <2>1. CASE stages' = stages BY <2>1 DEF HeldAreDistinct, Held
  <2>2. CASE stages' # stages
    <3>1. \A f \in Held : f.seq = TerminalEvent(c).seq => f = TerminalEvent(c)
      BY <2>2, HeldIsAll DEF Adds, Clash
    <3>2. Held' = Held \union {TerminalEvent(c)} BY <1>1, <1>2, <2>2 DEF Held
    <3> QED BY <3>1, <3>2 DEF HeldAreDistinct
  <2> QED BY <2>1, <2>2
<1>7. RowsAreOwned'
  <2>1. ASSUME NEW t \in tails', t.id \notin published
        PROVE  \E d \in Call : pc'[d] \in Running /\ t = RowOf(d)
    <3>1. CASE t = RowOf(c) BY <1>5, <3>1
    <3>2. CASE t \in tails BY <1>5, <2>1, <3>2 DEF RowsAreOwned
    <3> QED BY <1>2, <3>1, <3>2
  <2>2. ASSUME NEW s \in stages', s.id \notin published
        PROVE  \E d \in Call : pc'[d] \in HoldsStage /\ s = StageOf(d)
    <3>1. CASE s \notin stages BY <1>2, <1>5, <3>1 DEF Adds
    <3>2. CASE s \in stages
      <4>1. PICK d \in Call : pc[d] \in HoldsStage /\ s = StageOf(d) BY <2>2, <3>2 DEF RowsAreOwned
      <4>2. d = c => p \in HoldsStage BY <4>1 DEF Adds
      <4> QED BY <1>5, <4>1, <4>2
    <3> QED BY <3>1, <3>2
  <2>3. ASSUME NEW b \in bundles', b.id \notin published
        PROVE  \E d \in Call : pc'[d] \in HoldsBundle /\ b = RowOf(d)
    <3>1. CASE b \notin bundles BY <1>2, <1>5, <3>1 DEF Adds
    <3>2. CASE b \in bundles
      <4>1. PICK d \in Call : pc[d] \in HoldsBundle /\ b = RowOf(d) BY <2>3, <3>2 DEF RowsAreOwned
      <4>2. d = c => p \in HoldsBundle BY <4>1 DEF Adds
      <4> QED BY <1>5, <4>1, <4>2
    <3> QED BY <3>1, <3>2
  <2> QED BY <2>1, <2>2, <2>3 DEF RowsAreOwned, RowOf, StageOf, TerminalEvent
<1>8. RowsStand'
  <2>1. ASSUME NEW d \in Call
        PROVE  /\ pc'[d] \in Running => RowOf(d) \in tails'
               /\ pc'[d] \in HoldsStage => StageOf(d) \in stages' \/ TerminalEvent(d) \in Visible
               /\ pc'[d] \in HoldsBundle => RowOf(d) \in bundles'
    <3>1. CASE d = c BY <1>2, <1>5, <3>1 DEF Adds
    <3>2. CASE d # c BY <1>2, <1>5, <3>2 DEF RowsStand
    <3> QED BY <3>1, <3>2
  <2> QED BY <1>4, <2>1 DEF RowsStand, RowOf, StageOf, TerminalEvent
<1> QED BY <1>4, <1>6, <1>7, <1>8 DEF PublishedAreFinal, RecordStep

\* The marker makes the call's three rows readable, and nothing else.
LEMMA PublishRows ==
  ASSUME IInv, NEW c \in Call, Publishes(c)
  PROVE  RowInv' /\ RecordStep
<1> USE DEF IInv, RowInv, CallInv
<1>1. /\ pc[c] = "gate" /\ ~Taken(c) /\ UNCHANGED <<landed, tails, stages, bundles>>
      /\ IdOf[c] \notin published
  <2>1. pc[c] = "gate" /\ UNCHANGED <<landed, tails, stages, bundles>> BY DEF Publishes, Gate, Publish
  <2>2. IdOf[c] \notin published BY <2>1 DEF CallsInFlight, Running
  <2>3. ~Taken(c)
    <3>1. published' # published BY <2>2 DEF Publishes, Publish
    <3> QED BY <3>1 DEF Publishes, Gate, ledgers
  <2> QED BY <2>1, <2>2, <2>3
<1>2. /\ published' = published \union {IdOf[c]} /\ pc' = [pc EXCEPT ![c] = "retiring"]
      /\ finalized' = [finalized EXCEPT ![GenOf[c]] = IdOf[c]]
  BY PublishCalls
<1>3. MayAttempt(c) BY AttemptsMay DEF Publishes, Attempt
<1>4. /\ IdOf[c] \in Id /\ GenOf[c] \in Gen /\ GenOfId[IdOf[c]] = GenOf[c] /\ IdOf[c] # None
      /\ IntentOf[c] \in Intent
  BY EventsType, FinalizationAssumption
<1>5. /\ RowOf(c) \in tails /\ RowOf(c) \in bundles
      /\ StageOf(c) \in stages \/ TerminalEvent(c) \in Visible
      /\ RowOf(c).id = IdOf[c] /\ RowOf(c).intent = IntentOf[c]
      /\ StageOf(c).id = IdOf[c] /\ StageOf(c).event = TerminalEvent(c)
  BY <1>1 DEF RowsStand, HoldsStage, HoldsBundle, Running, RowOf, StageOf
<1>6. /\ {t \in tails : t.id \in published'} = {t \in tails : t.id \in published} \union {RowOf(c)}
      /\ {b \in bundles : b.id \in published'} = {b \in bundles : b.id \in published} \union {RowOf(c)}
      /\ \/ StageOf(c) \in stages
            /\ {q \in stages : q.id \in published'} = {q \in stages : q.id \in published} \union {StageOf(c)}
         \/ TerminalEvent(c) \in Visible
            /\ {q \in stages : q.id \in published'} = {q \in stages : q.id \in published}
  BY <1>2, <1>3, <1>5, OwnRows
<1>7. /\ Readable(tails)' = Readable(tails) \union {<<IdOf[c], IntentOf[c]>>}
      /\ Readable(bundles)' = Readable(bundles) \union {<<IdOf[c], IntentOf[c]>>}
  BY <1>1, <1>5, <1>6 DEF Readable
<1>8. Visible' = Visible \union {TerminalEvent(c)}
  BY <1>1, <1>5, <1>6 DEF Visible, VisibleEvents
<1>9. pc'[c] = "retiring" /\ \A d \in Call : d # c => pc'[d] = pc[d] BY <1>2 DEF TypeOK
<1>10. HeldAreDistinct' BY <1>1 DEF HeldAreDistinct, Held
<1>11. RowsAreOwned'
  <2>1. /\ \A t \in tails : t = RowOf(c) => t.id \in published'
        /\ \A s \in stages : s = StageOf(c) => s.id \in published'
        /\ \A b \in bundles : b = RowOf(c) => b.id \in published'
    BY <1>2, <1>5
  <2>2. published \subseteq published' BY <1>2
  <2> QED BY <1>1, <1>9, <2>1, <2>2 DEF RowsAreOwned, RowOf, StageOf, TerminalEvent
<1>12. RowsStand'
  <2>1. \A d \in Call : pc'[d] \in Running \/ pc'[d] \in HoldsStage \/ pc'[d] \in HoldsBundle =>
          d # c /\ pc'[d] = pc[d]
    BY <1>9 DEF Running, HoldsStage, HoldsBundle
  <2> QED BY <1>1, <1>8, <2>1 DEF RowsStand, RowOf, StageOf, TerminalEvent
<1>13. PublishedAreFinal'
  <2>1. finalized'[GenOf[c]] # None /\ \A g \in Gen : g # GenOf[c] => finalized'[g] = finalized[g]
    BY <1>2, <1>4 DEF TypeOK
  <2>2. \A id \in published' : GenOfId[id] \in Gen BY <1>2, <1>4, FinalizationAssumption DEF TypeOK
  <2> QED BY <1>2, <1>4, <2>1, <2>2 DEF PublishedAreFinal
<1>14. Record!Commit(IdOf[c], IntentOf[c])
  <2>1. \A t \in Readable(tails) : GenOfId[t[1]] # GenOfId[IdOf[c]]
    <3>1. \A t \in Readable(tails) : t[1] \in published BY DEF Readable
    <3> QED BY <1>1, <1>4, <3>1 DEF PublishedAreFinal, Taken
  <2>2. \A f \in Visible : f.seq = TerminalEvent(c).seq => f = TerminalEvent(c)
    <3>1. TerminalEvent(c) \in Held BY <1>5, HeldIsAll DEF Held
    <3> QED BY <3>1, HeldIsAll DEF HeldAreDistinct
  <2> QED BY <1>7, <1>8, <2>1, <2>2 DEF Record!Commit, Record!Compatible, TerminalEvent, Visible
<1> QED BY <1>4, <1>10, <1>11, <1>12, <1>13, <1>14 DEF RecordStep, Record!Next

LEMMA AttemptRows ==
  ASSUME IInv, NEW c \in Call, Attempt(c), ~Publishes(c)
  PROVE  RowInv' /\ RecordStep
<1> USE DEF IInv, CallInv
<1>1. MayAttempt(c) /\ UNCHANGED <<published, finalized>>
  BY AttemptsMay, AttemptMovesCalls DEF AttemptMoves
<1>2. ASSUME NEW o, Fail(c, o), UNCHANGED landed PROVE RowInv' /\ RecordStep
  BY <1>1, <1>2, FailRows
<1>3. CASE \E s \in Store : PrepareFails(c, s)
  BY <1>2, <1>3, PrepareFailsEffect DEF Unserved
<1>4. ASSUME NEW p \in Running, Adds(c, p), Goto(c, p), UNCHANGED landed PROVE RowInv' /\ RecordStep
  BY <1>1, <1>4, AdvanceRows DEF Goto
<1>5. CASE Begin(c) /\ ~PrepareFails(c, "journal")
  <2>1. pc[c] = "idle" /\ Goto(c, "event") /\ UNCHANGED <<landed, stages, bundles>>
        /\ tails' = tails \union {RowOf(c)}
    BY <1>5 DEF Begin, Called, Prepares, RowOf
  <2>2. Adds(c, "event") BY <2>1 DEF Adds, HoldsStage, HoldsBundle
  <2> QED BY <1>4, <2>1, <2>2 DEF Running
<1>6. CASE StageEvent(c) /\ ~PrepareFails(c, "events")
  <2>1. UNCHANGED landed /\ pc[c] = "event" BY <1>6 DEF StageEvent, Prepares
  <2>2. CASE Fail(c, "conflicting_replay") BY <1>2, <2>1, <2>2
  <2>3. CASE ~Fail(c, "conflicting_replay")
    <3>1. /\ ~Occupied(landed, stages, published, TerminalEvent(c)) /\ Goto(c, "bundle")
          /\ stages' = StagesAfterStaging(landed, stages, published, IdOf[c], TerminalEvent(c))
          /\ UNCHANGED <<tails, bundles>>
      BY <1>6, <2>3 DEF StageEvent
    <3>2. RowOf(c) \in tails BY <2>1 DEF RowInv, RowsStand, Running
    <3>3. Adds(c, "bundle")
      BY <2>1, <3>1, <3>2 DEF Adds, HoldsStage, HoldsBundle, StagesAfterStaging, StageOf, Visible
    <3> QED BY <1>4, <2>1, <3>1, <3>3 DEF Running
  <2> QED BY <2>2, <2>3
<1>7. CASE StageBundle(c) /\ ~PrepareFails(c, "evidence")
  <2>1. /\ UNCHANGED <<landed, tails, stages>> /\ pc[c] = "bundle" /\ Goto(c, "confirm")
        /\ bundles' = bundles \union {RowOf(c)}
    BY <1>7 DEF StageBundle, Prepares, RowOf
  <2>2. RowOf(c) \in tails /\ (StageOf(c) \in stages \/ TerminalEvent(c) \in Visible)
    BY <2>1 DEF RowInv, RowsStand, Running, HoldsStage
  <2>3. Adds(c, "confirm") BY <2>1, <2>2 DEF Adds, HoldsStage, HoldsBundle
  <2> QED BY <1>4, <2>1, <2>3 DEF Running
<1>8. CASE Confirm(c) \/ Gate(c)
  <2>1. UNCHANGED landed BY <1>8 DEF Confirm, Gate
  <2>2. CASE \E o \in Outcome : Fail(c, o) BY <1>2, <2>1, <2>2
  <2>3. CASE ~\E o \in Outcome : Fail(c, o)
    <3>1. pc[c] = "confirm" /\ Goto(c, "gate") /\ UNCHANGED <<tails, stages, bundles>>
      BY <1>8, <2>3 DEF Confirm, Gate, Publishes, Outcome
    <3>2. RowOf(c) \in tails /\ (StageOf(c) \in stages \/ TerminalEvent(c) \in Visible) /\ RowOf(c) \in bundles
      BY <3>1 DEF RowInv, RowsStand, Running, HoldsStage, HoldsBundle
    <3>3. Adds(c, "gate") BY <3>1, <3>2 DEF Adds, HoldsStage, HoldsBundle
    <3> QED BY <1>4, <2>1, <3>1, <3>3 DEF Running
  <2> QED BY <2>2, <2>3
<1> QED BY <1>3, <1>5, <1>6, <1>7, <1>8 DEF Attempt, Store

-----------------------------------------------------------------------------
(* The theorems.                                                           *)

LEMMA InitRows == Init => RowInv /\ Record!Init
<1> SUFFICES ASSUME Init PROVE RowInv /\ Record!Init
  OBVIOUS
<1>1. tails = {} /\ landed = {} /\ stages = {} /\ bundles = {} /\ published = {} BY DEF Init
<1>2. \A c \in Call : pc[c] = "idle" BY DEF Init
<1>3. RowsAreOwned /\ HeldAreDistinct /\ PublishedAreFinal
  BY <1>1 DEF RowsAreOwned, HeldAreDistinct, Held, PublishedAreFinal
<1>4. RowsStand BY <1>2 DEF RowsStand, Running, HoldsStage, HoldsBundle
<1>5. Record!Init BY <1>1 DEF Record!Init, Readable, VisibleEvents
<1> QED BY <1>3, <1>4, <1>5 DEF RowInv

LEMMA Step == IInv /\ [Next]_vars => IInv' /\ RecordStep
<1> SUFFICES ASSUME IInv, [Next]_vars PROVE IInv' /\ RecordStep
  OBVIOUS
<1>1. CallInv' BY StepCalls DEF IInv
<1>2. RowInv' /\ RecordStep
  BY StepsAre, EnvironmentRows, QuietSteps, AttemptRows, PublishRows
<1> QED BY <1>1, <1>2 DEF IInv

\* The finalization invariant holds in every state that calls of commit(),
\* the lease and the ordinary writers of the three stores reach.
THEOREM Invariance == Spec => []IInv
<1>1. Init => IInv BY InitCalls, InitRows DEF IInv
<1>2. IInv /\ [Next]_vars => IInv' BY Step
<1> QED BY <1>1, <1>2, PTL DEF Spec

\* Stores, ledgers and calls of finalization are of their types.
THEOREM TypeCorrect == Spec => []TypeOK
<1>1. IInv => TypeOK BY DEF IInv, CallInv
<1> QED BY <1>1, Invariance, PTL

\* A call of commit() that is over leaves no unreadable row and no claim that
\* a retry or a later commit would meet (abandon in #attempt, finally of #run).
THEOREM NothingIsLeft == Spec => []NothingLeftBehind
<1>1. IInv => NothingLeftBehind
  <2> SUFFICES ASSUME IInv PROVE NoResidue
    BY DEF NothingLeftBehind, IInv, CallInv
  <2>1. HoldsStage \subseteq Running /\ HoldsBundle \subseteq Running BY DEF HoldsStage, HoldsBundle, Running
  <2>2. \A c \in Call : pc[c] \in Running => inFlight[IdOf[c]] = c /\ c # None
    BY FinalizationAssumption DEF IInv, CallInv, CallsInFlight, Working
  <2>3. ASSUME NEW r \in tails \union bundles \union stages, r.id \notin published
        PROVE  \E c \in Call : pc[c] \in Running /\ r.id = IdOf[c]
    BY <2>1, <2>3 DEF IInv, RowInv, RowsAreOwned, RowOf, StageOf
  <2> QED BY <2>2, <2>3 DEF NoResidue
<1> QED BY <1>1, Invariance, PTL

\* commit() answers ok only with the caller's own intent published under its
\* identity, for the call that published, one that joined it and one that came
\* back after a lost acknowledgement.
THEOREM OkIsPublished == Spec => []OkMeansPublished
<1>1. IInv => OkMeansPublished BY DEF IInv, CallInv
<1> QED BY <1>1, Invariance, PTL

\* TransactionalFinalization over its three stores implements AtomicRecord:
\* the marker makes the tail, the event and the bundle of one intent readable
\* in one step, once for a generation.
THEOREM ImplementsRecord == Spec => RecordSpec
<1>1. Init => IInv /\ Record!Init BY InitCalls, InitRows DEF IInv
<1>2. IInv /\ [Next]_vars => IInv' /\
        [Record!Next]_<<Readable(tails), Readable(bundles), VisibleEvents(landed, stages, published)>>
  BY Step DEF RecordStep, Visible
<1> QED BY <1>1, <1>2, PTL DEF Spec, RecordSpec, Record!Spec

=============================================================================
