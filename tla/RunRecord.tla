----------------------------- MODULE RunRecord -----------------------------
(***************************************************************************)
(* How the attempts of one run make what they did durable, up to their     *)
(* conclusions: RunMachine's record and cursors (lifecycle/machine.ts),    *)
(* the one outbox (run-state/outbox.ts), #flushJournal and the walk        *)
(* (orchestration/run.ts), finish and conclude (terminate.ts), settlement  *)
(* and recovery (settle.ts), and the journal (run-state/in-memory.ts).     *)
(*                                                                         *)
(* An attempt is named by its ownership generation.  A port call in flight *)
(* is answered, throws, is refused, or is cut off when the boundary that   *)
(* guards it expires.  An append that was sent may land at any later time  *)
(* and any number of times.  The machine runs the canonical table, where   *)
(* every terminal is declared from every state that is not terminal.       *)
(***************************************************************************)
EXTENDS Naturals, FiniteSets, Sequences

CONSTANTS Owners,  \* bound on the generations that own the run
          Budgets  \* the bounds a behaviour may be held to

\* Transitions a run earns before it may complete, how often it changes
\* hands, and how many calls throw or commits are refused.
ASSUME RunRecordAssumption ==
  /\ Owners \in Nat \ {0}
  /\ Budgets \subseteq [progress : Nat \ {0}, seizures : 0 .. Owners - 1, faults : Nat]

Gen == 1 .. Owners
Store == {"journal", "evidence"}
\* "ended" stands for REFUSED, OPERATIONAL_FAILURE, CANCELLED and TIMED_OUT.
Terminal == {"completed", "ended", "indeterminate"}
TerminalOf == [complete |-> "completed", end |-> "ended", indeterminate |-> "indeterminate"]

VARIABLES
  owner,      \* the generation that holds the lease
  high,       \* high[s]: the highest generation store s served
  rows,       \* the journal: entries in the order they landed
  sent,       \* entries ever sent to the journal
  finalized,  \* generations whose terminal commit is published
  made,       \* made[g]: what attempt g did, in order of occurrence
  undrained,  \* undrained[g][c]: facts of category c not handed to the outbox
  queue,      \* queue[g]: the outbox
  minted,     \* minted[g]: entry identities minted
  captured,   \* attempts that captured a profile (scope.authorityCaptured)
  lost,       \* attempts that know they lost the fence
  recorded,   \* recorded[g]: the governed record the scope names
  produced,   \* produced[g]: what the pending conclusion claims
  mode,       \* mode[g]: walk, halt (past the walk), settle or recover
  pc,         \* pc[g]: what the attempt does next
  ret,        \* ret[g]: what follows the journal tick
  wants,      \* wants[g]: the kind of terminal being committed
  answer,     \* answer[g]: the conclusion
  budget      \* what is left of the bounds this behaviour is held to

\* Of both categories the machine keeps, everything is in the outbox.
Nothing == [transition |-> <<>>, rejection |-> <<>>]

stores == <<high, rows, finalized>>
outbox == <<made, undrained, queue, minted>>
scope == <<captured, lost, recorded, produced>>
control == <<mode, pc, ret, wants, answer>>
recordVars == <<owner, stores, sent, outbox, scope, control, budget>>

RecordInit ==
  /\ owner = 1 /\ high = [s \in Store |-> 0] /\ rows = <<>>
  /\ sent = {} /\ finalized = {} /\ budget \in Budgets
  /\ made = [g \in Gen |-> <<>>]
  /\ undrained = [g \in Gen |-> Nothing]
  /\ queue = [g \in Gen |-> <<>>] /\ minted = [g \in Gen |-> 0]
  /\ captured = {} /\ lost = {}
  /\ recorded = [g \in Gen |-> "none"] /\ produced = [g \in Gen |-> "none"]
  /\ mode = [g \in Gen |-> "walk"]
  /\ pc = [g \in Gen |-> "idle"] /\ ret = [g \in Gen |-> "walk"]
  /\ wants = [g \in Gen |-> "end"] /\ answer = [g \in Gen |-> "none"]

At(g, step) == pc[g] = step

\* A continuation reads and writes the state of its own attempt only, and
\* runs to its next port call before anything else moves.
Undisturbed ==
  \A g \in Gen : pc[g] \in {"idle", "walk", "phase", "await", "commit", "record", "answered"}

\* A port throws or refuses on its own account.
Faults == budget.faults > 0 /\ budget' = [budget EXCEPT !.faults = @ - 1]

\* The attempt is at a port call, or in a phase that may make one.
AtPort(g, step) == At(g, step) /\ Undisturbed

Goto(g, step) == pc' = [pc EXCEPT ![g] = step]

-----------------------------------------------------------------------------
(* The machine's record.  A fact is [gen, n, cat, to]: the n-th thing the  *)
(* attempt did, its category, and the state a transition reached.          *)

Steps(facts) == {i \in 1 .. Len(facts) : facts[i].cat = "transition"}

Taken(g) == Cardinality(Steps(made[g]))

Ended(facts) == \E i \in Steps(facts) : facts[i].to \in Terminal

IsTerminal(g) == Ended(made[g])

\* The first phase earned its transition: scope.established.
Established(g) == \E i \in 1 .. Len(made[g]) : made[g][i].to = "progress"

\* The next thing the attempt does, or the k-th from here.
Fact(g, k, cat, to) == [gen |-> g, n |-> Len(made[g]) + k, cat |-> cat, to |-> to]

\* A rejected attempt changes no state and is recorded.
Rejected(g, k) == Fact(g, k, "rejection", "none")

\* reachTerminal: a machine that is terminal rejects the kind, and then the
\* fallback to INDETERMINATE.
Reached(g, kind) ==
  CASE ~IsTerminal(g) -> <<Fact(g, 1, "transition", TerminalOf[kind])>>
    [] IsTerminal(g) /\ kind = "indeterminate" -> <<Rejected(g, 1)>>
    [] OTHER -> <<Rejected(g, 1), Rejected(g, 2)>>

\* What finish projects: completing takes two transitions.
Projected(g, kind) ==
  IF kind = "complete"
  THEN <<Fact(g, 1, "transition", "sealed"), Fact(g, 2, "transition", "completed")>>
  ELSE <<Fact(g, 1, "transition", TerminalOf[kind])>>

\* What is undrained once the machine recorded facts, which are of one category.
Undrained(g, facts) ==
  LET of(cat) == IF facts # <<>> /\ Head(facts).cat = cat THEN facts ELSE <<>>
  IN [transition |-> undrained[g].transition \o of("transition"),
      rejection |-> undrained[g].rejection \o of("rejection")]

-----------------------------------------------------------------------------
(* The outbox and the journal tick (#flushJournal).                        *)

\* Entries with fresh identities.
Entries(g, facts) ==
  [i \in 1 .. Len(facts) |-> [gen |-> g, id |-> minted[g] + i, fact |-> facts[i]]]

\* The outbox is q: its head is sent, or there is nothing left to send.
SendHead(g, q, then) ==
  /\ queue' = [queue EXCEPT ![g] = q]
  /\ IF q = <<>>
     THEN Goto(g, then) /\ UNCHANGED sent
     ELSE Goto(g, "await") /\ sent' = sent \union {Head(q)}

\* Faulty: an attempt that lost the fence goes on emptying its outbox.
TickUnguarded(g, facts, own, then) ==
  LET left == Undrained(g, facts)
      new == Entries(g, own \o left.transition \o left.rejection)
  IN /\ made' = [made EXCEPT ![g] = @ \o own \o facts]
     /\ minted' = [minted EXCEPT ![g] = @ + Len(new)]
     /\ undrained' = [undrained EXCEPT ![g] = Nothing]
     /\ ret' = [ret EXCEPT ![g] = then]
     /\ SendHead(g, queue[g] \o new, then)

\* The machine recorded something, or the attempt puts a fact of its own in the
\* outbox; it drains the machine, transitions first, and starts to empty the
\* outbox; then says what follows.
Tick(g, facts, own, then) ==
  LET left == Undrained(g, facts)
      new == Entries(g, IF g \in lost THEN own ELSE own \o left.transition \o left.rejection)
  IN /\ made' = [made EXCEPT ![g] = @ \o own \o facts]
     /\ minted' = [minted EXCEPT ![g] = @ + Len(new)]
     /\ undrained' = [undrained EXCEPT ![g] = IF g \in lost THEN left ELSE Nothing]
     /\ ret' = [ret EXCEPT ![g] = then]
     /\ IF g \in lost
        THEN /\ queue' = [queue EXCEPT ![g] = @ \o new]
             /\ Goto(g, then) /\ UNCHANGED sent
        ELSE SendHead(g, queue[g] \o new, then)

Landed(e) == \E i \in 1 .. Len(rows) : rows[i] = e

SameIdentity(e) == \E i \in 1 .. Len(rows) : rows[i].gen = e.gen /\ rows[i].id = e.id

Stale(g, s) == g < high[s]

\* The journal serves an append: an identity it has seen adds nothing.
Land(e) ==
  /\ Undisturbed /\ ~Stale(e.gen, "journal") /\ ~SameIdentity(e)
  /\ rows' = Append(rows, e)
  /\ high' = [high EXCEPT !["journal"] = e.gen]
  /\ UNCHANGED <<owner, finalized, sent, outbox, scope, control, budget>>

\* The append is answered ok: the head landed, now or before.
Acknowledged(g) ==
  /\ AtPort(g, "await") /\ ~Stale(g, "journal") /\ Landed(Head(queue[g]))
  /\ SendHead(g, Tail(queue[g]), ret[g])
  /\ UNCHANGED <<owner, stores, made, undrained, minted, scope, mode, ret, wants, answer, budget>>

\* Faulty: an append that throws is not retried.
DropsPending(g) ==
  /\ AtPort(g, "await") /\ Faults
  /\ queue' = [queue EXCEPT ![g] = Tail(@)]
  /\ Goto(g, ret[g])
  /\ UNCHANGED <<owner, stores, sent, made, undrained, minted, scope, mode, ret, wants, answer>>

\* The append throws, or its identity carries another fact: it stays pending.
StaysPending(g) ==
  /\ AtPort(g, "await")
  /\ LET conflict == SameIdentity(Head(queue[g])) /\ ~Landed(Head(queue[g]))
     IN IF conflict THEN UNCHANGED budget ELSE Faults
  /\ Goto(g, ret[g])
  /\ UNCHANGED <<owner, stores, sent, outbox, scope, mode, ret, wants, answer>>

\* The journal served a newer generation: the attempt writes no more.
Refused(g) ==
  /\ AtPort(g, "await") /\ Stale(g, "journal")
  /\ lost' = lost \union {g}
  /\ Goto(g, ret[g])
  /\ UNCHANGED <<owner, stores, sent, outbox, captured, recorded, produced,
                 mode, ret, wants, answer, budget>>

-----------------------------------------------------------------------------
(* The terminal owner: conclude, finish and the early-terminal record.     *)
(* These are the last steps of the actions below.                          *)

EndWith(g, claim) ==
  /\ produced' = [produced EXCEPT ![g] = claim]
  /\ Goto(g, "conclude")
  /\ UNCHANGED <<sent, ret>>

SameQueue == UNCHANGED <<queue, minted>>

\* The machine recorded facts that no tick drains yet.
Records(g, facts) ==
  /\ made' = [made EXCEPT ![g] = @ \o facts]
  /\ undrained' = [undrained EXCEPT ![g] = Undrained(g, facts)]
  /\ SameQueue

\* The machine reaches a terminal without a record of it.
FailClosed(g, kind) ==
  /\ Records(g, Reached(g, kind))
  /\ EndWith(g, "none")

\* finish, up to the durability gate.
Finish(g, kind) ==
  /\ wants' = [wants EXCEPT ![g] = kind]
  /\ CASE g \in lost -> EndWith(g, "none") /\ UNCHANGED outbox
       [] g \notin lost /\ IsTerminal(g) -> FailClosed(g, "end")
       [] OTHER -> Tick(g, <<>>, <<>>, "gate") /\ UNCHANGED produced

\* terminateEarly, up to the write of the record.
TerminateEarly(g, kind) ==
  IF g \in lost
  THEN EndWith(g, "none") /\ UNCHANGED outbox
  ELSE /\ Records(g, Reached(g, kind))
       /\ Goto(g, "record") /\ UNCHANGED <<ret, produced, sent>>

\* Faulty: the gate waits until the journal is complete.
GateWaits(g) ==
  /\ At(g, "gate") /\ queue[g] = <<>> /\ Goto(g, "commit")
  /\ UNCHANGED <<owner, stores, sent, outbox, scope, mode, ret, wants, answer, budget>>

\* A run whose walk is not durable does not seal.
Gate(g) ==
  /\ At(g, "gate")
  /\ IF queue[g] = <<>>
     THEN Goto(g, "commit") /\ UNCHANGED <<outbox, produced, ret, sent>>
     ELSE FailClosed(g, "end")
  /\ UNCHANGED <<owner, stores, captured, lost, recorded, mode, wants, answer, budget>>

Superseded(g) == owner # g \/ \E s \in Store : Stale(g, s)

\* The commit is published: the tail, the event and the bundle at once; the
\* machine adopts the tail (commitProjected), which needs no draining.
Commit(g) ==
  /\ AtPort(g, "commit") /\ ~Superseded(g)
  /\ LET tail == Projected(g, wants[g])
     IN /\ rows' = rows \o [i \in 1 .. Len(tail) |-> [gen |-> g, id |-> 0, fact |-> tail[i]]]
        /\ made' = [made EXCEPT ![g] = @ \o tail]
  /\ high' = [s \in Store |-> g]
  /\ finalized' = finalized \union {g}
  /\ recorded' = [recorded EXCEPT ![g] = "bundle"]
  /\ EndWith(g, "bundle")
  /\ UNCHANGED <<owner, undrained, queue, minted, captured, lost, mode, wants, answer, budget>>

CommitStale(g) ==
  /\ AtPort(g, "commit") /\ Superseded(g)
  /\ lost' = lost \union {g}
  /\ EndWith(g, "none")
  /\ UNCHANGED <<owner, stores, outbox, captured, recorded, mode, wants, answer, budget>>

\* Refused for another reason: the run fails or is timed out by its own
\* expiry or, past the walk, may keep the terminal it wanted.
CommitRefused(g) ==
  /\ AtPort(g, "commit") /\ Faults
  /\ \E kind \in {"end"} \union IF mode[g] = "walk" THEN {} ELSE {wants[g]} : FailClosed(g, kind)
  /\ UNCHANGED <<owner, stores, captured, lost, recorded, mode, wants, answer>>

\* writeEarlyTerminalRecord: a record written again is a replay.
Record(g) ==
  /\ AtPort(g, "record")
  /\ IF g \in lost \/ Stale(g, "evidence")
     THEN /\ lost' = lost \union {g}
          /\ EndWith(g, "none") /\ UNCHANGED <<high, recorded>>
     ELSE /\ high' = [high EXCEPT !["evidence"] = g]
          /\ recorded' = [recorded EXCEPT ![g] = "early"]
          /\ EndWith(g, "early") /\ UNCHANGED lost
  /\ UNCHANGED <<owner, rows, finalized, outbox, captured, mode, wants, answer, budget>>

\* conclude ticks twice before it answers.
ConcludeTick(g) ==
  /\ At(g, "conclude") \/ At(g, "conclude again")
  /\ Tick(g, <<>>, <<>>, IF At(g, "conclude") THEN "conclude again" ELSE "answer")
  /\ UNCHANGED <<owner, stores, scope, mode, wants, answer, budget>>

HeldAt(g) == \E i \in 1 .. Len(made[g]) : made[g][i].cat = "hold"

\* Faulty: a hold remembered in the process counts.
ConclusionFromMemory(g) ==
  CASE g \in lost -> "ownership_lost"
    [] g \notin lost /\ IsTerminal(g) ->
         IF queue[g] # <<>> \/ produced[g] = "none" THEN "settlement_failed" ELSE "terminal"
    [] OTHER -> IF HeldAt(g) THEN "held" ELSE "unterminated"

Conclusion(g) ==
  CASE g \in lost -> "ownership_lost"
    [] g \notin lost /\ IsTerminal(g) ->
         IF queue[g] # <<>> \/ produced[g] = "none" THEN "settlement_failed" ELSE "terminal"
    [] OTHER -> IF queue[g] = <<>> /\ HeldAt(g) THEN "held" ELSE "unterminated"

Report(g) ==
  /\ At(g, "answer")
  /\ answer' = [answer EXCEPT ![g] = Conclusion(g)]
  /\ Goto(g, "answered")
  /\ UNCHANGED <<owner, stores, sent, outbox, scope, mode, ret, wants, budget>>

-----------------------------------------------------------------------------
(* The walk.                                                               *)

Renewed(g) == g \notin lost /\ owner = g

\* An attempt that was granted the run begins.
Start(g) ==
  /\ AtPort(g, "idle") /\ owner = g
  /\ Goto(g, "walk")
  /\ UNCHANGED <<owner, stores, sent, outbox, scope, mode, ret, wants, answer, budget>>

\* beforePhase: the lease is asked before each phase's effects.
BeforePhase(g) ==
  /\ AtPort(g, "walk")
  /\ IF Renewed(g)
     THEN Goto(g, "phase") /\ UNCHANGED <<lost, answer>>
     ELSE /\ lost' = lost \union {g}
          /\ answer' = [answer EXCEPT ![g] = "ownership_lost"]
          /\ Goto(g, "answered")
  /\ UNCHANGED <<owner, stores, sent, outbox, captured, recorded, produced,
                 mode, ret, wants, budget>>

InPhase(g) == AtPort(g, "phase") /\ g \notin lost

\* A phase journals an acquisition at the moment it occurs.
Acquire(g) ==
  /\ InPhase(g) /\ \A i \in 1 .. Len(made[g]) : made[g][i].cat # "acquisition"
  /\ Tick(g, <<>>, <<Fact(g, 1, "acquisition", "none")>>, "phase")
  /\ UNCHANGED <<owner, stores, scope, mode, wants, answer, budget>>

\* A phase earned its transition.
Earn(g) ==
  /\ InPhase(g) /\ Taken(g) < budget.progress
  /\ captured' = captured \union {g}
  /\ Tick(g, <<Fact(g, 1, "transition", "progress")>>, <<>>, "walk")
  /\ UNCHANGED <<owner, stores, lost, recorded, produced, mode, wants, answer, budget>>

\* Consent is missing: the phase's transition is not attempted.
Hold(g) ==
  /\ InPhase(g) /\ Established(g) /\ Taken(g) < budget.progress
  /\ Tick(g, <<Rejected(g, 1)>>, <<>>, "held")
  /\ UNCHANGED <<owner, stores, scope, mode, wants, answer, budget>>

\* The pending identity of a held run, recorded past the walk.
RecordHold(g) ==
  /\ At(g, "held")
  /\ mode' = [mode EXCEPT ![g] = "halt"]
  /\ produced' = [produced EXCEPT ![g] = "none"]
  /\ Tick(g, <<>>, <<Fact(g, 1, "hold", "none")>>, "conclude")
  /\ UNCHANGED <<owner, stores, captured, lost, recorded, wants, answer, budget>>

\* A phase terminates the run: before authority with a record of its own,
\* which may follow the capture of a profile.
PhaseTerminates(g) ==
  /\ AtPort(g, "phase")
  /\ \E kind \in {"end"} \union IF Taken(g) = budget.progress THEN {"complete"} ELSE {} :
        IF Established(g)
        THEN Finish(g, kind) /\ UNCHANGED captured
        ELSE /\ TerminateEarly(g, kind)
             /\ captured' \in {captured, captured \union {g}} /\ UNCHANGED wants
  /\ UNCHANGED <<owner, stores, lost, recorded, mode, answer, budget>>

-----------------------------------------------------------------------------
(* Escapes, settlement and recovery.                                       *)

Concluding(g) == At(g, "await") /\ ret[g] \in {"conclude again", "answer"}

\* The boundary that guards the call in flight expires.
ToAfterExpiry(g) ==
  CASE mode[g] = "walk" -> IF Concluding(g) THEN {"recover"} ELSE {"settle"}
    [] mode[g] = "halt" -> {"recover"}
    [] mode[g] = "settle" -> IF ret[g] = "incomplete" THEN {"incomplete"} ELSE {"fallback"}
    [] mode[g] = "recover" -> {"incomplete"} \union IF Concluding(g) THEN {} ELSE {"settle"}

\* The port throws an error of its own.
ToAfterThrow(g) ==
  CASE mode[g] = "walk" -> "recover"
    [] mode[g] = "settle" -> "fallback"
    [] mode[g] = "recover" -> "incomplete"

EscapeTo(g, step) ==
  /\ mode' = IF step \in {"settle", "recover"} THEN [mode EXCEPT ![g] = step] ELSE mode
  /\ Goto(g, step)

Expires(g) ==
  /\ Undisturbed /\ pc[g] \in {"walk", "phase", "await", "commit", "record"}
  /\ \E step \in ToAfterExpiry(g) : EscapeTo(g, step)
  /\ UNCHANGED <<owner, stores, sent, outbox, scope, ret, wants, answer, budget>>

Throws(g) ==
  /\ Undisturbed /\ pc[g] \in {"walk", "phase", "commit", "record"}
  /\ Faults
  /\ EscapeTo(g, ToAfterThrow(g))
  /\ UNCHANGED <<owner, stores, sent, outbox, scope, ret, wants, answer>>

\* settleInterrupt: a machine that is terminal resumes at the missing write.
Settle(g) ==
  /\ At(g, "settle")
  /\ CASE Established(g) -> Finish(g, "end")
       [] ~Established(g) /\ IsTerminal(g) ->
            Goto(g, "record") /\ UNCHANGED <<sent, outbox, produced, ret, wants>>
       [] OTHER -> TerminateEarly(g, "end") /\ UNCHANGED wants
  /\ UNCHANGED <<owner, stores, captured, lost, recorded, mode, answer, budget>>

\* recoverRun, up to the record of a run without authority.
Recover(g) ==
  /\ At(g, "recover")
  /\ IF g \notin lost /\ Established(g)
     THEN Finish(g, "indeterminate")
     ELSE /\ IF g \in lost THEN Tick(g, <<>>, <<>>, "incomplete")
             ELSE Tick(g, Reached(g, "indeterminate"), <<>>, "recovered")
          /\ UNCHANGED <<produced, wants>>
  /\ UNCHANGED <<owner, stores, captured, lost, recorded, mode, answer, budget>>

Recovered(g) ==
  /\ At(g, "recovered")
  /\ Goto(g, IF g \in captured THEN "incomplete" ELSE "record")
  /\ UNCHANGED <<owner, stores, sent, outbox, scope, mode, ret, wants, answer, budget>>

\* interruptFallback, whose journal tick may fail unnoticed.
Fallback(g) ==
  /\ At(g, "fallback")
  /\ Tick(g, IF g \in lost THEN <<>> ELSE Reached(g, "end"), <<>>, "incomplete")
  /\ UNCHANGED <<owner, stores, scope, mode, wants, answer, budget>>

\* incomplete: what the scope recorded decides.
AnswerIncomplete(g) ==
  /\ At(g, "incomplete")
  /\ answer' = [answer EXCEPT ![g] =
       CASE g \in lost -> "ownership_lost"
         [] g \notin lost /\ recorded[g] # "none" /\ IsTerminal(g) -> "terminal"
         [] OTHER -> "settlement_failed"]
  /\ Goto(g, "answered")
  /\ UNCHANGED <<owner, stores, sent, outbox, scope, mode, ret, wants, budget>>

\* The lease hands the run to the next generation.
Displace ==
  /\ Undisturbed /\ owner' = owner + 1 /\ budget.seizures > 0
  /\ budget' = [budget EXCEPT !.seizures = @ - 1]
  /\ UNCHANGED <<stores, sent, outbox, scope, control>>

Progresses(g) ==
  \/ Acknowledged(g) \/ StaysPending(g) \/ Refused(g)
  \/ Gate(g) \/ Commit(g) \/ CommitStale(g) \/ CommitRefused(g) \/ Record(g)
  \/ ConcludeTick(g) \/ Report(g)
  \/ BeforePhase(g) \/ Acquire(g) \/ Earn(g) \/ Hold(g) \/ RecordHold(g)
  \/ PhaseTerminates(g) \/ Expires(g) \/ Throws(g)
  \/ Settle(g) \/ Recover(g) \/ Recovered(g) \/ Fallback(g) \/ AnswerIncomplete(g)

RecordNext ==
  \/ \E g \in Gen : Start(g) \/ Progresses(g)
  \/ \E e \in sent : Land(e)
  \/ Displace

\* Every call has a boundary with a timer and every continuation runs; the
\* journal owes an answer to nobody, and nobody owes the run a start.
RecordSpec ==
  RecordInit /\ [][RecordNext]_recordVars /\ \A g \in Gen : WF_recordVars(Progresses(g))

-----------------------------------------------------------------------------
(* Properties.                                                             *)

Facts == [gen : Gen, n : Nat \ {0}, cat : {"transition", "rejection", "acquisition", "hold"},
          to : Terminal \union {"progress", "sealed", "none"}]
JournalEntry == [gen : Gen, id : Nat, fact : Facts]

\* Where an attempt may go on when the journal tick is over, and all its stages.
AfterTick == {"walk", "phase", "gate", "held", "conclude", "conclude again", "answer",
              "recovered", "incomplete"}
Stage == AfterTick \union
         {"idle", "await", "commit", "record", "settle", "recover", "fallback", "answered"}

RecordTypeOK ==
  /\ owner \in Gen /\ high \in [Store -> 0 .. Owners] /\ finalized \subseteq Gen
  /\ captured \subseteq Gen /\ lost \subseteq Gen
  /\ budget \in [progress : Nat, seizures : Nat, faults : Nat]
  /\ owner + budget.seizures <= Owners
  /\ rows \in Seq(JournalEntry) /\ sent \subseteq JournalEntry
  /\ made \in [Gen -> Seq(Facts)] /\ queue \in [Gen -> Seq(JournalEntry)]
  /\ undrained \in [Gen -> [transition : Seq(Facts), rejection : Seq(Facts)]]
  /\ minted \in [Gen -> Nat]
  /\ recorded \in [Gen -> {"none", "early", "bundle"}]
  /\ produced \in [Gen -> {"none", "early", "bundle"}]
  /\ mode \in [Gen -> {"walk", "halt", "settle", "recover"}]
  /\ wants \in [Gen -> {"complete", "end", "indeterminate"}]
  /\ pc \in [Gen -> Stage] /\ ret \in [Gen -> AfterTick]
  /\ answer \in [Gen -> {"none", "terminal", "held", "unterminated", "settlement_failed",
                        "ownership_lost"}]

\* The rows of attempt g are the first n things it did, once each and in order.
Journaled(g, n) ==
  LET mine == {i \in 1 .. Len(rows) : rows[i].gen = g} IN
  /\ {rows[i].fact : i \in mine} = {made[g][k] : k \in 1 .. n}
  /\ \A i, j \in mine : i < j => rows[i].fact.n < rows[j].fact.n

\* The journal of an attempt is a prefix of what it did: nothing is skipped,
\* repeated or out of order, whatever was retried or arrived late
\* (#flushJournal: only what landed is removed, and the rest is retried).
InOrder == \A g \in Gen : \E n \in 0 .. Len(made[g]) : Journaled(g, n)

\* No generation writes after a newer one was served (FenceLedger).
FencedRows == \A i, j \in 1 .. Len(rows) : i < j => rows[i].gen <= rows[j].gen

\* A published terminal is the last entry of a complete record: the gate of
\* finish, and no rejection after it.
SealIsLast == \A g \in finalized : Journaled(g, Len(made[g])) /\ IsTerminal(g)

\* An attempt whose terminal was published reports it, whatever failed later.
PublishedIsReported ==
  \A g \in finalized : answer[g] \in {"none", "terminal"}

\* A held run left a durable, complete record that says so (conclude: an
\* in-process object remembering a hold is not a held run).
HeldIsDurable ==
  \A g \in Gen : answer[g] = "held" =>
    /\ Journaled(g, Len(made[g])) /\ ~IsTerminal(g) /\ HeldAt(g)

\* An attempt that answers that it terminated did, and left a governed record:
\* the bundle of its published commit, or the early-terminal record it wrote
\* (conclude, incomplete).
TerminalIsRecorded ==
  \A g \in Gen : answer[g] = "terminal" =>
    /\ IsTerminal(g)
    /\ recorded[g] = "early" \/ (recorded[g] = "bundle" /\ g \in finalized)

\* What the journal holds is what happened: of each attempt a prefix, all of it
\* once its terminal is published, and of attempts that displaced one another
\* the older one's first.
JournalIsSound == InOrder /\ FencedRows /\ SealIsLast

\* What run() answers of a terminal or a hold is what a reader of the stores
\* would find: a published terminal is answered, and an answered one is recorded;
\* a hold that is answered is in the journal with all that came before it.
ConclusionsAreTrue == PublishedIsReported /\ TerminalIsRecorded /\ HeldIsDurable

\* An attempt that knows it lost the run writes nothing more: no append, no
\* commit, no record (loseFence).
LostIsSilent ==
  [][\A g \in lost : /\ \A e \in sent' \ sent : e.gen # g
                     /\ g \in finalized' => g \in finalized
                     /\ recorded'[g] = recorded[g]]_recordVars

\* Every attempt that started comes to a conclusion: run() resolves.
Concludes == \A g \in Gen : At(g, "walk") ~> At(g, "answered")

=============================================================================
