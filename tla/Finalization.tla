---------------------------- MODULE Finalization ----------------------------
(***************************************************************************)
(* Terminal finalization of one run (TransactionalFinalization,            *)
(* adapters/finalization.ts) with the three stores it commits to: the      *)
(* journal, the event sink and the evidence sink.                          *)
(*                                                                         *)
(* A Call is one call of commit(): it carries a generation, the identity   *)
(* its caller chose and an intent (what it would make durable).  Retries   *)
(* are further calls with the same identity.  Code between two awaits is   *)
(* one action; calls interleave at the awaits.  Everything staged is       *)
(* stored at once and stays unreadable until its identity is published.    *)
(***************************************************************************)
EXTENDS Naturals, FiniteSets, EventSink

CONSTANTS Call,           \* calls of commit()
          Id,             \* commit identities
          Intent,         \* canonical intents
          Event,          \* events that may be emitted, [seq, fact]
          GenOf, IdOf, IntentOf,   \* what each call carries
          AgainOf,        \* the call that a later one under its identity follows, or None
          EventOf,        \* the terminal event of an intent
          GenOfId,        \* the generation an identity names
          MaxGeneration,  \* bound on the generations that own the run
          MaxCalls,       \* bound on the calls made in one behaviour
          MaxFaults,      \* bound on aborts, expiries and participant failures
          None            \* no identity, no intent

Gen == 1 .. MaxGeneration
Store == {"journal", "events", "evidence"}
Outcome == {"ok", "already_committed", "conflicting_replay", "stale_fence", "expired", "failed"}

ASSUME FinalizationAssumption ==
  /\ MaxGeneration \in Nat \ {0} /\ MaxCalls \in Nat /\ MaxFaults \in Nat
  /\ GenOf \in [Call -> Gen] /\ IdOf \in [Call -> Id] /\ IntentOf \in [Call -> Intent]
  /\ EventOf \in [Intent -> Event] /\ GenOfId \in [Id -> Gen]
  /\ \A c \in Call : GenOfId[IdOf[c]] = GenOf[c]
  /\ AgainOf \in [Call -> Call \union {None}]
  /\ \A c \in Call : AgainOf[c] # None => IdOf[AgainOf[c]] = IdOf[c]
  /\ None \notin Id \union Intent \union Call

VARIABLES
  owner,       \* the generation that holds the run's lease
  high,        \* high[s]: the highest generation store s served
  tails,       \* rows of the journal staged by commits, [id, intent]
  landed,      \* events emitted ordinarily
  stages,      \* events staged by commits, [id, event]
  bundles,     \* bundles staged by commits, [id, intent]
  published,   \* identities published (CommitLedger)
  finalized,   \* finalized[g]: the identity generation g published
  intents,     \* intents[id]: the intent published under id
  claims,      \* claims[g]: the identity finalizing generation g
  inFlight,    \* inFlight[id]: the call that runs under id
  pc,          \* pc[c]: where call c is
  joins,       \* joins[c]: the call whose outcome c shares
  owned,       \* owned[c]: the lease's answer to renew
  result,      \* result[c]: the outcome of call c
  aborted,     \* calls whose signal is aborted
  expired,     \* calls whose expiry has passed
  faults       \* faults so far

stores == <<high, tails, landed, stages, bundles>>
ledgers == <<published, finalized, intents, claims, inFlight>>
environment == <<owner, aborted, expired>>
vars == <<stores, ledgers, environment, pc, joins, owned, result, faults>>

Init == /\ owner = 1
        /\ high = [s \in Store |-> 0]
        /\ tails = {} /\ landed = {} /\ stages = {} /\ bundles = {}
        /\ published = {}
        /\ finalized = [g \in Gen |-> None]
        /\ intents = [id \in Id |-> None]
        /\ claims = [g \in Gen |-> None]
        /\ inFlight = [id \in Id |-> None]
        /\ pc = [c \in Call |-> "idle"]
        /\ joins = [c \in Call |-> None]
        /\ owned = [c \in Call |-> FALSE]
        /\ result = [c \in Call |-> "none"]
        /\ aborted = {} /\ expired = {}
        /\ faults = 0

-----------------------------------------------------------------------------
(* Faulty variants of operators defined below.                             *)

\* The evidence sink's handle is not called.
AbandonKeepsBundle(c) ==
  /\ tails' = IF pc[c] \in {"event", "bundle", "confirm", "gate"}
              THEN {t \in tails : t.id # IdOf[c]} ELSE tails
  /\ stages' = IF pc[c] \in {"bundle", "confirm", "gate"}
               THEN StagesAfterRelease(stages, published, IdOf[c]) ELSE stages
  /\ UNCHANGED bundles

\* Equivalence by the identity alone.
ReconcileByIdentity(c) ==
  /\ pc[c] = "idle" /\ GenOf[c] <= owner /\ IdOf[c] \in published
  /\ result' = [result EXCEPT ![c] = "ok"]
  /\ pc' = [pc EXCEPT ![c] = "done"]
  /\ UNCHANGED <<stores, ledgers, environment, joins, owned, faults>>

\* A joined call waits for a publication.
OutcomePublished(c) == pc[c] = "done" /\ result[c] = "ok"

-----------------------------------------------------------------------------
(* Pieces shared by the steps of #attempt.                                 *)

\* Ends the attempt; its claims are retired in a later step (#run).
End(c, outcome) == /\ result' = [result EXCEPT ![c] = outcome]
                   /\ pc' = [pc EXCEPT ![c] = "retiring"]

Goto(c, step) == pc' = [pc EXCEPT ![c] = step] /\ UNCHANGED result

\* Drops what the attempt staged so far: pc tells which handles it holds.
Abandon(c) ==
  /\ tails' = IF pc[c] \in {"event", "bundle", "confirm", "gate"}
              THEN {t \in tails : t.id # IdOf[c]} ELSE tails
  /\ stages' = IF pc[c] \in {"bundle", "confirm", "gate"}
               THEN StagesAfterRelease(stages, published, IdOf[c]) ELSE stages
  /\ bundles' = IF pc[c] \in {"confirm", "gate"}
                THEN {b \in bundles : b.id # IdOf[c]} ELSE bundles

Fail(c, outcome) == Abandon(c) /\ End(c, outcome)

\* FenceLedger.refuse: a store serves no generation below its highest.
Stale(c, s) == GenOf[c] < high[s]

Serve(s, g) == high' = [high EXCEPT ![s] = IF g > @ THEN g ELSE @]

\* A participant, or the lease, throws.
Fault == faults < MaxFaults /\ faults' = faults + 1

Blocked(c) == c \in aborted \union expired

Why(c) == IF c \in aborted THEN "failed" ELSE "expired"

\* The checks before a participant prepares, and its failures.
PrepareFails(c, s) ==
  /\ \/ Blocked(c) /\ Fail(c, Why(c)) /\ UNCHANGED faults
     \/ ~Blocked(c) /\ Fault /\ Fail(c, "failed")
     \/ ~Blocked(c) /\ Stale(c, s) /\ Fail(c, "stale_fence") /\ UNCHANGED faults
  /\ UNCHANGED <<high, landed>>

Prepares(c, s) == ~Blocked(c) /\ ~Stale(c, s) /\ Serve(s, GenOf[c]) /\ UNCHANGED <<landed, faults>>

-----------------------------------------------------------------------------
(* commit(): the entry ledger, synchronous up to the first await.          *)

Called(c) == /\ pc[c] = "idle" /\ GenOf[c] <= owner
             /\ AgainOf[c] # None => pc[AgainOf[c]] # "idle"
             /\ Cardinality({d \in Call : pc[d] # "idle"}) < MaxCalls

Entered(c) == pc[c] \notin {"idle", "done"}

Unsettled(c) == IdOf[c] \notin published /\ finalized[GenOf[c]] = None

Respond(c, outcome) == /\ result' = [result EXCEPT ![c] = outcome]
                       /\ pc' = [pc EXCEPT ![c] = "done"]
                       /\ UNCHANGED <<stores, ledgers, environment, joins, owned, faults>>

\* The identity is published: the same intent is a lost acknowledgement.
Reconcile(c) ==
  /\ Called(c)
  /\ IdOf[c] \in published
  /\ Respond(c, IF intents[IdOf[c]] = IntentOf[c] THEN "ok" ELSE "already_committed")

\* The generation published another identity.
Supersede(c) == /\ Called(c)
                /\ IdOf[c] \notin published
                /\ finalized[GenOf[c]] # None
                /\ Respond(c, "already_committed")

\* The identity is in flight with this intent: share that call's outcome.
Join(c) == /\ Called(c) /\ Unsettled(c)
           /\ inFlight[IdOf[c]] # None
           /\ IntentOf[inFlight[IdOf[c]]] = IntentOf[c]
           /\ joins' = [joins EXCEPT ![c] = inFlight[IdOf[c]]]
           /\ Goto(c, "joined")
           /\ UNCHANGED <<stores, ledgers, environment, owned, faults>>

\* The identity is in flight with another intent.
Collide(c) == /\ Called(c) /\ Unsettled(c)
              /\ inFlight[IdOf[c]] # None
              /\ IntentOf[inFlight[IdOf[c]]] # IntentOf[c]
              /\ Respond(c, "conflicting_replay")

\* Binds the identity, claims the generation when free, stages the journal.
Begin(c) ==
  /\ Called(c) /\ Unsettled(c)
  /\ inFlight[IdOf[c]] = None
  /\ inFlight' = [inFlight EXCEPT ![IdOf[c]] = c]
  /\ claims' = IF claims[GenOf[c]] = None THEN [claims EXCEPT ![GenOf[c]] = IdOf[c]] ELSE claims
  /\ \/ PrepareFails(c, "journal")
     \/ /\ Prepares(c, "journal")
        /\ tails' = tails \union {[id |-> IdOf[c], intent |-> IntentOf[c]]}
        /\ Goto(c, "event")
        /\ UNCHANGED <<stages, bundles>>
  /\ UNCHANGED <<published, finalized, intents, environment, joins, owned>>

-----------------------------------------------------------------------------
(* The rest of #attempt, one action between two awaits.                    *)

TerminalEvent(c) == EventOf[IntentOf[c]]

\* stageEmit on the event sink.
StageEvent(c) ==
  /\ pc[c] = "event"
  /\ \/ PrepareFails(c, "events")
     \/ /\ Prepares(c, "events")
        /\ Occupied(landed, stages, published, TerminalEvent(c))
        /\ Fail(c, "conflicting_replay")
     \/ /\ Prepares(c, "events")
        /\ ~Occupied(landed, stages, published, TerminalEvent(c))
        /\ stages' = StagesAfterStaging(landed, stages, published, IdOf[c], TerminalEvent(c))
        /\ Goto(c, "bundle")
        /\ UNCHANGED <<tails, bundles>>
  /\ UNCHANGED <<ledgers, environment, joins, owned>>

\* stageWrite on the evidence sink.
StageBundle(c) ==
  /\ pc[c] = "bundle"
  /\ \/ PrepareFails(c, "evidence")
     \/ /\ Prepares(c, "evidence")
        /\ bundles' = bundles \union {[id |-> IdOf[c], intent |-> IntentOf[c]]}
        /\ Goto(c, "confirm")
        /\ UNCHANGED <<tails, stages>>
  /\ UNCHANGED <<ledgers, environment, joins, owned>>

\* The signal, then the question to the lease; the answer arrives later.
Confirm(c) ==
  /\ pc[c] = "confirm"
  /\ \/ c \in aborted /\ Fail(c, "failed") /\ UNCHANGED <<owned, faults>>
     \/ c \notin aborted /\ Fault /\ Fail(c, "failed") /\ UNCHANGED owned
     \/ /\ c \notin aborted
        /\ owned' = [owned EXCEPT ![c] = (owner = GenOf[c])]
        /\ Goto(c, "gate")
        /\ UNCHANGED <<tails, stages, bundles, faults>>
  /\ UNCHANGED <<high, landed, ledgers, environment, joins>>

\* Another commit finalized the generation, or is finalizing it.
Taken(c) == \/ finalized[GenOf[c]] # None
            \/ claims[GenOf[c]] \notin {None, IdOf[c]}

Publish(c) == /\ published' = published \union {IdOf[c]}
              /\ finalized' = [finalized EXCEPT ![GenOf[c]] = IdOf[c]]
              /\ intents' = [intents EXCEPT ![IdOf[c]] = IntentOf[c]]
              /\ End(c, "ok")
              /\ UNCHANGED <<tails, stages, bundles>>

\* The answer, the signal, the generation gate, the expiry and the marker.
Gate(c) ==
  /\ pc[c] = "gate"
  /\ \/ /\ ~owned[c] /\ Fail(c, "stale_fence")
        /\ UNCHANGED ledgers
     \/ /\ owned[c] /\ c \in aborted /\ Fail(c, "failed")
        /\ UNCHANGED ledgers
     \/ /\ owned[c] /\ c \notin aborted /\ Taken(c) /\ Fail(c, "already_committed")
        /\ UNCHANGED ledgers
     \/ /\ owned[c] /\ c \notin aborted /\ ~Taken(c)
        /\ claims' = [claims EXCEPT ![GenOf[c]] = IdOf[c]]
        /\ \/ c \in expired /\ Fail(c, "expired") /\ UNCHANGED <<published, finalized, intents>>
           \/ c \notin expired /\ Publish(c)
        /\ UNCHANGED inFlight
  /\ UNCHANGED <<high, landed, environment, joins, owned, faults>>

\* The finally of #run: only what this operation still owns is released.
Retire(c) ==
  /\ pc[c] = "retiring"
  /\ pc' = [pc EXCEPT ![c] = "done"]
  /\ claims' = IF claims[GenOf[c]] = IdOf[c] THEN [claims EXCEPT ![GenOf[c]] = None] ELSE claims
  /\ inFlight' = [inFlight EXCEPT ![IdOf[c]] = None]
  /\ UNCHANGED <<stores, published, finalized, intents, environment, joins, owned, result, faults>>

OutcomeKnown(c) == pc[c] = "done"

\* A joined call resolves with the outcome of the call it joined.
Share(c) == /\ pc[c] = "joined"
            /\ OutcomeKnown(joins[c])
            /\ result' = [result EXCEPT ![c] = result[joins[c]]]
            /\ pc' = [pc EXCEPT ![c] = "done"]
            /\ UNCHANGED <<stores, ledgers, environment, joins, owned, faults>>

-----------------------------------------------------------------------------
(* What surrounds finalization.                                            *)

\* The caller's deadline aborts the commit's signal.
Abort(c) == /\ Called(c) \/ Entered(c)
            /\ c \notin aborted /\ Fault
            /\ aborted' = aborted \union {c}
            /\ UNCHANGED <<stores, ledgers, owner, expired, pc, joins, owned, result>>

\* The expiry the caller named passes.
Expire(c) == /\ Called(c) \/ Entered(c)
             /\ c \notin expired /\ Fault
             /\ expired' = expired \union {c}
             /\ UNCHANGED <<stores, ledgers, owner, aborted, pc, joins, owned, result>>

\* The run's ownership moves to a newer generation.
NewOwner == /\ owner < MaxGeneration
            /\ owner' = owner + 1
            /\ UNCHANGED <<stores, ledgers, aborted, expired, pc, joins, owned, result, faults>>

\* An ordinary event of generation g reaches the sink (emit).
Emit(g, e) ==
  /\ g <= owner /\ g >= high["events"]
  /\ Serve("events", g)
  /\ IF Occupied(landed, stages, published, e) THEN UNCHANGED <<landed, stages>>
     ELSE /\ landed' = LandedAfter(landed, stages, published, e)
          /\ stages' = StagesAfterEmit(landed, stages, published, e)
  /\ UNCHANGED <<tails, bundles, ledgers, environment, pc, joins, owned, result, faults>>

\* An ordinary journal append or evidence write of generation g.
Append(s, g) == /\ g <= owner /\ g > high[s]
                /\ Serve(s, g)
                /\ UNCHANGED <<tails, landed, stages, bundles, ledgers, environment,
                               pc, joins, owned, result, faults>>

-----------------------------------------------------------------------------
Continue(c) == StageEvent(c) \/ StageBundle(c) \/ Confirm(c) \/ Gate(c) \/ Retire(c) \/ Share(c)

Next == \/ \E c \in Call : \/ Reconcile(c) \/ Supersede(c) \/ Join(c) \/ Collide(c) \/ Begin(c)
                           \/ Continue(c)
                           \/ Abort(c) \/ Expire(c)
        \/ NewOwner
        \/ \E g \in Gen, e \in Event : Emit(g, e)
        \/ \E s \in {"journal", "evidence"}, g \in Gen : Append(s, g)

Spec == Init /\ [][Next]_vars

\* The event loop runs every continuation whose promise has settled.
Fairness == \A c \in Call : WF_vars(Continue(c))

FairSpec == Spec /\ Fairness

-----------------------------------------------------------------------------
(* Properties.                                                             *)

Running == {"event", "bundle", "confirm", "gate"}

Row == [id : Id, intent : Intent]

\* Type invariant.
TypeOK ==
  /\ owner \in Gen
  /\ high \in [Store -> 0 .. owner]
  /\ tails \subseteq Row /\ bundles \subseteq Row
  /\ landed \subseteq Event /\ stages \subseteq [id : Id, event : Event]
  /\ published \subseteq Id
  /\ finalized \in [Gen -> Id \union {None}]
  /\ intents \in [Id -> Intent \union {None}]
  /\ claims \in [Gen -> Id \union {None}]
  /\ inFlight \in [Id -> Call \union {None}]
  /\ pc \in [Call -> Running \union {"idle", "joined", "retiring", "done"}]
  /\ joins \in [Call -> Call \union {None}]
  /\ owned \in [Call -> BOOLEAN]
  /\ result \in [Call -> Outcome \union {"none"}]
  /\ aborted \subseteq Call /\ expired \subseteq Call
  /\ faults \in 0 .. MaxFaults

\* What is stored and unreadable belongs to an attempt that is still running:
\* a failed commit leaves nothing behind that a retry under the same identity
\* could publish with its own record (abandon in #attempt).
NoResidue ==
  \A id \in Id \ published :
    (\E r \in tails \union bundles \union stages : r.id = id)
      => inFlight[id] # None /\ pc[inFlight[id]] \in Running

\* A generation is claimed only by an identity in flight for it: no failed
\* commit leaves a claim that would refuse every later one (finally of #run).
ClaimsAreLive ==
  \A g \in Gen : claims[g] # None
    => GenOfId[claims[g]] = g /\ inFlight[claims[g]] # None

\* A call that is over leaves nothing that a reader or a later call trips over.
NothingLeftBehind == NoResidue /\ ClaimsAreLive

\* A call answered ok, by its own publication, by joining another call or by
\* reconciliation, finds its own intent published under its identity.
OkMeansPublished ==
  \A c \in Call : result[c] = "ok"
    => IdOf[c] \in published /\ intents[IdOf[c]] = IntentOf[c]

\* Every call that enters, which it does once, is answered: a call never waits on a dead
\* one, nor two on each other (commit, #run).
EveryCallResolves == <>[](\A c \in Call : pc[c] \in {"idle", "done"})

\* Readers of the three stores see an atomic record.
Readable(rows) == {<<r.id, r.intent>> : r \in {q \in rows : q.id \in published}}

Record == INSTANCE AtomicRecord WITH
  tails <- Readable(tails),
  bundles <- Readable(bundles),
  events <- VisibleEvents(landed, stages, published)

\* Finalization implements AtomicRecord (the single commit marker).
RecordSpec == Record!Spec

=============================================================================
