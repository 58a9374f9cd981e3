# A verification project for the agent platform

The repository holds a platform for running coding agents under governance. What is
executable in it falls into two halves. One runs an agent: the runner control service
(TypeScript, `services/runner-control`), the core decisions it takes
(`packages/runner-core`) and the adapters that run inside the agent's container
(`agents/adapters/coding`). The other governs the repository itself: workflows and scripts
that admit a revision by comparing it with an earlier one. Both keep state, fail
halfway and are entered by several actors in no fixed order. This project models them in TLA+,
checks the models with TLC and proves, with TLAPS, their safety for every value of
their constants, all but one part of one property.

Source paths below are relative to the repository; `rc/` stands for
`services/runner-control/src/`.

Contents: [the system](#the-system), [hazards](#what-is-hard-to-test-here),
[modules](#modules-and-their-correspondence-to-the-code), [runs](#runs),
[fairness](#fairness), [proofs](#what-is-proved),
[disagreements](#where-the-code-and-its-text-disagree),
[limits](#not-modelled), [plan](#plan).

## The system

### Running an agent

A *run* is one execution of an agent under a captured profile. `Runner.run` makes an
*attempt* at it: it claims the run's lease, receives an ownership *generation*, walks six
phases, and answers with a *conclusion*. Every store the attempt writes to sees the
generation and refuses one lower than the highest it served (the *fence*). One Node.js
process runs many attempts; concurrency is the interleaving of promise continuations, plus
everything the stores behind the ports may do in their own time. The agent itself is a
child process of an adapter's entry, which reports once on stdout; what the run then says of
itself rests on that report and on what the host observed.

| Component | State | Operations | Interacts with |
| --- | --- | --- | --- |
| Run lease (`rc/run-state/in-memory.ts`) | holder of each run, what became of each claim attempt, last generation | `claim`, `abandon`, `renew`, `release`, seizure | called by `Runner.run`, before phases, and by finalization before it publishes |
| Runner, settlement, terminal owner (`rc/orchestration/run.ts`, `terminate.ts`, `settle.ts`) | the walk's position and what it established, the `RunScope` | `run`, `#walk`, `#flushJournal`, `finish`, `terminateEarly`, `conclude`, `settleInterrupt`, `recoverRun` | every port, through a guard with a deadline |
| Phases (`rc/orchestration/phases/`) | none of their own | six phases with their port calls and decisions | authority, session, workspace, adapter, gates, sinks |
| Lifecycle machine, outbox, journal (`rc/lifecycle/`, `rc/run-state/`) | state, rejections, cursors; pending entries; rows in four categories | `advance`, `hold`, `drainMachine`, `landed`, four appends, `stageTail` | fence ledger, commit ledger |
| Finalization (`rc/adapters/finalization.ts`) | commit ledger, finalized generations, intents, claims, calls in flight | `commit` | stages in journal, event sink, evidence sink; asks the lease; publishes by one marker |
| Event emitter (`rc/events/emitter.ts`) | next sequence number | `emit`, `envelope` | event sink |
| Deadline and guards (`rc/orchestration/deadline.ts`, `ports.ts`) | wall clock expiry, reason, settlement and recovery windows | `call`, `commit`, `raise`, `arm`, `settlement`, `recovery` | wraps every port call |
| Acquisition (`rc/acquisition/`) | tokens left per epoch | `consume`, `runEpoch` | authority source, journal |
| Runner core (`packages/runner-core`) | none | capture, eligibility, terminal classification, path policy, evidence, verification | pure; used by the phases |
| Adapter entries (`agents/adapters/coding/*/src/bin.ts`) | the child, captured output, kill timer, signal, report | read invocation, plan, launch, capture, cancel, observe, report | the session that started them; the provider's CLI |

What makes them correct:

* **Lease.** One owner per run; an attempt owns once, for one interval; an attempt whose caller
  gave up holds nothing however late its messages arrive; generations are never reused.
* **Runner, machine, outbox, journal.** The journal of an attempt is a prefix of what it did,
  in order. A run is sealed only over a complete journal. Whatever fails, the attempt
  answers, and answers with what is durable.
* **Phases and deadline.** Nothing is called on a spent budget; a run is called timed out or
  cancelled only for its own cause; what may exist is released by name.
* **Finalization, sinks, emitter.** Readers of three stores see the terminal record of a
  generation all at once, once, or not at all. A failed commit leaves nothing. No number of the
  stream names two events.
* **The account of a run.** A sealed bundle tells of every call the provider carried out and the
  run learnt of, and claims no call that was not; only what was verified leaves isolation.
* **Fence.** After a store served a newer generation an older one writes nothing there.

### Governing the repository

Each of these admits a change by looking at two revisions (or at one and a moving branch), and
what it promises is about all revisions. The promise is an induction over runs that are not
synchronised with the branches they judge.

| Component | State | Operations | Correct when |
| --- | --- | --- | --- |
| Image proof (`.github/workflows/images.yml`, `scripts/pr-merge-plan.mjs`, `image-impact.mjs`) | past runs with their conclusions; the lock of image digests | plan, build what the comparison cannot excuse, verify, reread tips | a green run is a proof for every image, also those it did not build |
| Release history (`packages/knowledge-toolchain/src/set-release.ts`, `scripts/check-release-history.mjs`) | registry, manifests, catalog of a revision | the check of one revision and of two, per push | a version means one digest for ever; its pins were reviewed |
| Review history and boundary (`scripts/check-openspec-review-history.mjs`, `openspec-review-gate.mjs`, `.github/workflows/review-boundary.yml`) | reviews and archived rounds of a change; a boundary run | check of two revisions, gate, two readings | rounds are kept and were reviews, or stand in for files that went; a boundary was current |
| Governance registry (`scripts/governance/model/`) | decisions, questions, gates, landings, evidence | validation of a revision, comparison of two | decisions stand, readiness is kept, the program keeps its shape |
| Activation and projections (`scripts/governance/model/`, `scripts/render-governance-state.mjs`) | candidate, genesis, checkout, staged files | extract, freeze, promote, attest, admit; write and recover | one fresh genesis for ever; projections published or undone |
| Tool maintenance (`.github/workflows/toolchain-maintenance-boundary.yml`, `scripts/check-toolchain-boundaries.mjs` and helpers) | a run, evidence | pin, read, classify, install, run the subject, judge, reread | what is merged moves only tools, under commands that came out as expected |

`PROJECT.json` lists these and the remaining components, with what is modelled of each.

## What is hard to test here

`PROJECT.json` lists each hazard at the line where it bites, with the properties that would catch
it. They come from a few sources: requests delayed, repeated and abandoned (lease); calls
interleaving at every `await` (finalization, event sink); acknowledgements lost by a timer while
the effect lands later (journal, emitter, evidence); faults inside fault handling (settlement,
recovery, the writer of projections); clocks that run out between an effect and its result;
ownership that moves while an answer is on its way; a workspace and sources that change between
the observation a run is judged by and its seal; a child process that ignores its signal; checks of
two revisions whose chain must hold over any number of them; branches that move while a run
judges them. One hazard (`rc/run-state/in-memory.ts:308`) has no property because the code does
not meet it: see [below](#where-the-code-and-its-text-disagree).

## Modules and their correspondence to the code

```
Ownership    <- implemented by - RunLease       <- AttemptProofs
AtomicRecord <- implemented by - Finalization   <- FinalizationProofs;  EXTENDS EventSink
EventLog     <- implemented by - EventStream    <- EventStreamProofs;   EXTENDS EventSink
                                 RunRecord      <- AttemptProofs
                                 RunPhases      <- RunPhasesProofs
                                 RunAccount     <- HistoryProofs;       EXTENDS Adapter
                                 ImageProof     <- WorkflowProofs
                                 ReleaseHistory <- HistoryProofs
                                 ReviewBoundary <- ReviewBoundaryProofs; EXTENDS ReviewHistory
                                 RegistryHistory <- HistoryProofs;      EXTENDS Registry
                                 Projections    <- ActivationProofs;    EXTENDS Activation
                                 Maintenance    <- WorkflowProofs
```

Every model has an `MC` module of the same name with a configuration. Each module with state
states its types in `TypeOK` or a name that ends in it (`HistoryOK` in ReviewHistory). The modules
that share a module of proofs qualify `Init`, `Next`, `Spec` by their subject (`RecordSpec`, `AccountSpec`,
`RegistrySpec`, `MaintenanceSpec`), since one module extends them together. A definition whose comment calls it a
mutant or a faulty variant is used by no action: it is a plausible slip in the definition it
varies, and shows that the property named for it would notice.

### Ownership and RunLease

`Ownership` is the promise, without generations or messages: an attempt is fresh, then perhaps
the owner, then spent for good; a run has at most one owner; a rival may take a run.

`RunLease` has the lease as the code keeps it (`held`, `known`, `earned`, `generation`) and the
callers of `Runner.run` with the requests between them. `wire` is the set of requests ever sent
and is never emptied, so the lease may handle each late, again, or not at all; `answers` holds
the lease's answers, which the caller may take, or not, if its deadline passed. `Claim`,
`Raise`, `GiveUp`, `Answered`, `Conclude` are the caller's steps; `HandleClaim`, `HandleAbandon`,
`HandleRelease` the lease's methods; `Seize` the symbol-keyed seizure, which also stands for a
durable lease's own expiry. `renew` is the operator `Holds`. The map of attempts in the code holds
two kinds of record, granted with its generation, and abandoned: `known` and `earned`. `earned`
remembers the generation after an abandon, which the code forgets; nothing of the lease reads it
then.

### EventSink, AtomicRecord and Finalization

`EventSink` has the operators of `RecordingEventSink` over its state: what is visible, what a
stage reserves, what an emission, a staging, a release does.

`Finalization` has one action per piece of `commit`, `#run` and `#attempt` between two awaits. A
`Call` is one call of `commit` with its generation, identity and intent; retries are further calls
with the same identity. `Begin` is everything up to the first await, with the staging of the
journal tail; `StageEvent`, `StageBundle`, `Confirm` and `Gate` follow; `Retire` is the `finally` of
`#run`, a step later, because the outcome passes through a promise first. The lease's answer to
`renew` is computed in `Confirm` and read in `Gate`. `Abort` is the signal of the caller's deadline,
`Expire` the passing of the wall clock, `NewOwner` a seizure, `Emit` and `Append` ordinary traffic of
any generation on the three stores.

`AtomicRecord` is what readers are promised: `Commit` makes tail, event and bundle readable in one
step, once per generation; an event identity carries one event; nothing readable disappears.

### EventLog and EventStream

`EventStream` is the emitter of every generation over the one event sink. `Emit` allocates a number
and sends; the sink's `Handle` takes a request once, at any time after it was sent; the caller goes
on by `Acknowledged`, `WalkPast` (the number was occupied), `Refused` (a stale fence) or `Unknown`
(the call was cut off; it may still land). A commit stages the terminal event under the number the
emitter would use next, without allocating it (`StageTerminal`, `Confirm`, `Publish`); `CutOff` ends the
commit's caller, `Abandon` releases its stage, perhaps after another terminal was staged.

`EventLog` is what readers and writers are promised: events come in one at a time, under numbers nobody had,
nothing disappears, and what a generation was told is written can be read, under numbers in the order it wrote.

Worth knowing: the number of a terminal event is not walked past an occupied one. If a newer
generation's counter is still below what an older one left, its terminal is refused as
`conflicting_replay`, and the run fails closed, without a record.

### RunRecord

What one attempt did and what of it is durable. For each generation `g`: `made[g]` is the record of
the machine with the acquisitions and holds, in order; `undrained[g]`, by category, the facts behind the
machine's two cursors, which the outbox has not taken over; `queue[g]` and `minted[g]` the outbox; `captured`, `lost`, `recorded` fields of `RunScope`; `produced` the
argument of `conclude`; `mode` says whether an escape would be handled by settlement, recovery or the
fallback; `pc` and `ret` are the continuation. `rows` is the journal; `sent` the entries ever sent to it,
any of which may land at any time, also after its caller stopped waiting, and again.

| Actions | Code (`rc/`) |
| --- | --- |
| `Start`, `BeforePhase`, `Earn`, `Hold`, `Acquire`, `PhaseTerminates`, `RecordHold` | `Runner.#walk`, `lifecycle/walk.ts`, and how a phase can end |
| `Land` | the four appends of the journal |
| `Acknowledged`, `StaysPending`, `Refused` (with `Tick`, `SendHead`) | `#flushJournal` |
| `Finish`, `Gate`, `Commit`, `CommitStale`, `CommitRefused`, `FailClosed` | `finish` |
| `TerminateEarly`, `Record` | `terminateEarly`, `writeEarlyTerminalRecord` |
| `ConcludeTick`, `Report` | `conclude` |
| `Expires`, `Throws` | the deadlines around every port call, a port's own error |
| `Settle`, `Fallback`, `Recover`, `Recovered`, `AnswerIncomplete` | `settleInterrupt`, `interruptFallback`, `recoverRun`, `incomplete` |
| `Displace` | ownership moves |

An action runs from the return of one port call to the next; `Undisturbed` keeps the few
continuations written as two actions from being interleaved. `Commit` is one step because
`Finalization` was shown to be one for its readers. The machine runs the canonical table: a controls
object may narrow it, and then a walk may be halted or a terminal refused; that is left out. Phases
are counted, not told apart, and the terminals other than COMPLETED and INDETERMINATE are one value.

### RunPhases

One attempt with its six phases by name and the clocks that bound it. The phases are data: `Walk` is
a sequence of items, each a port call, a fenced call, a journal tick or a decision, with the
terminals it may end the run in, in the order of `rc/orchestration/phases`. A call is `Send`, then one
of the answers (`Succeeds`, `Fails`, `Dispossessed`, `HasRead`, `Throws`, ...), or `CutOff` when the
boundary guarding it ends. `Pass` lets time go by on the run's clock (`armed`) and the windows
(`window`, `inner`); `Withdraw` is the caller. `Escape`, `Settle`, `Recover`, `Fallback`, `Release` are what
follows an interruption. `name[r]` is what the scope knows of a workspace or session (nothing, the
identity given before the call, the handle) while `exists` is what may be out there.

One source stands for those of an epoch and one emission for those between two other calls.
`cancelAfterMs` and the caller's probe are one flag. Time passes while a port is awaited and in the
code of the phases; terminal code takes none. An early record may be refused by its contract (`Early`). A discard and a close are bounded by the window of the
release they are in and are one step. An answer of provision or prepare that lands after teardown is
not followed further.

### Adapter and RunAccount

`Adapter` is the entry of both coding adapters with the child it runs: the invocation on stdin (`Start`),
its translation to flags (`PlanClaude`, `PlanCopilot`), the launch with a filtered environment (`Begin`),
capture up to the raw cap (`Data`), the signal and the kill timer (`Cancel`, `Kill`), the end of the
child (`NotLaunched`, `Close`), the observation of what was captured under the content budget
(`ObserveClaude`, `ObserveCopilot`) and the report (`Emit`). A name of the grant is a set of names, more
than one if the CLI would split it (`ExpressibleAsOne`). The provider is external: it asks for tools its flags make
visible, carries out or refuses them, writes transcripts of the form of the golden tests, may be
killed, or ignore a signal, or leave a process that holds stdout.

`RunAccount` is the run around it: acquisition by single-use tokens, capture and eligibility,
invocation, the events of each call one emission at a time, the gates, the three observations, the
second acquisition, the candidate bundle, verification, materialization, apply-back, seal. What
RunPhases and RunRecord are about (resources, clocks, journal) is left out here; any awaited call may
be interrupted, and the run is then sealed with what it knows. The workspace and the sources move
between any two readings.

The filesystem observer reports link targets as absolute paths, the other observers relative ones;
both occur (`Undecidable`). One SIGTERM per run; TIMED_OUT takes the same way as CANCELLED; two
dispositions of a gate stand for four; a refused document of the second epoch is a fault. Apply-back
applies the observed changes.

### ImageProof

A commit carries the image inputs and a lock with a digest per image; a digest is what a rebuild
reads. `Open`, `Synchronize`, `Update`, `Advance`, `LandPull` are what happens to the branches, with good and
bad content; an event starts a run (`builds`) or does not. A run carries the tree it checks out: that of
the pushed commit, then the composition. `PlanPull` composes head and live base and picks the
commit to compare with, the previous head if its proof may be reused (`Reusable`); `PlanPush` compares
with the commit before if that has a proof. `Conclude` builds what the comparison cannot excuse and
rereads both tips (`Stable`). A cancelled run never concludes. The target branch moves by commits and
merges only: were it force-pushed, or the pull request retargeted, the pull request half of
`ProofsAreSound` would not hold, because the previous head's proof is looked up by commit and number.

### ReleaseHistory

A revision holds the catalog, the families, the stored manifests and the registry. An author's push
has one or two commits, each any of `Edits`, good or ill. `Run(p)` is the workflow for push `p`: `Base` is the
revision before the push, which the workflow supplies, and `Accepted` the check of the one revision
(`ValidRecord`), of the two registries (`Succession`) and of what is new (`NewAreDerivable`). Runs pass in
any order; a red one leaves nothing. A digest stands for its manifest, and the lifecycle with its two
gates for one flag `held`.

### ReviewHistory and ReviewBoundary

`ReviewHistory` is one OpenSpec change over a graph of commits: its current review, the rounds
archived under `reviews/`, and the archive the change moves into. `Work`, `Update`, `Reset`, `Push`,
`Deliver`, `Forward` move the branches with any edit or merge result; `Passes` is
`checkReviewHistory` over two revisions. The check passes over every rename whose old path is no round, and git
may pair any file that went with any that came: `AdmitsOnlyReviews` asks for the proof of admission of all added rounds
but as many as other files went (`Gone`, `Unproved`), the current review and a set `File` of further files of the
repository. Whether two files are alike is left open, so that a push passes here if it would for some
text of them. `OnlyReviewsSince` of the gate has the same blind spot.
`ReviewBoundary` adds the gate (`Verified`) and the workflow with its two readings of both branches
(`Dispatch`, `ReadBranch`, `RereadPull`, `RereadBranch`). Records differ in epoch, reviewed commit, base and
whether they accept; planning bytes and code are a bit each. The default branch is not force-pushed.
A path holds one file; rounds that are already in the archive may be edited or lost, as the code
allows, so `RoundsWereReviews` speaks of the live rounds and of those a push brings. Of rounds that came as renames it says only
that as many files went.

### Registry and RegistryHistory

`Registry` is the check of one revision (`Evaluated`: decisions mirror their documents, one resolver per
question, deliveries with evidence of their policy, replacements and prerequisites without cycles,
readiness) and of two (`Compared`). The first revision may hold what history had decided, with digests over no prior
state, and what it had delivered: `Historical` completions stay exactly those of the first (`GenesisPreserved`).

`RegistryHistory` lets authors draft revisions on the tip or from an older one; each is an `Admit`, and what is refused
leaves nothing. `Propose` writes, rewrites or removes a proposal with its document (`ProposalDrafts`); `Decide` takes a
decision (`DecisionDraft`); `Amend` edits a document; `Deliver` moves a landing, with an envelope that may be another's, or drops a
node's prerequisites, changes a gate's question or removes the node (`NodeDrafts`); `Touch` edits evidence; `Replace` adds a
batch of nodes in the place of others or beside them. A draft edits one of these; other records change along with it only
where one edit makes them (a decision and those it supersedes, a batch of nodes).

### Activation and Projections

`Activation` is how the registry comes to be: sources and consumers move on the branch, a candidate is
extracted and frozen, promoted in a checkout, attested, merged once. Check and merge are one step (the
branch must be up to date). `Revert` takes the activation out by hand, past the check (the design's
rollback): v1 defines no way to activate again.

`Projections` is the writer on the activation branch: `Prepare` proves what it is about to show, `Stage`,
`Fence`, `Verify`, `Backup`, `Place`, `Leave`, `Installed` swap the targets one by one, `Recover`, `Recovered`, `Sweep`
undo and clean. `Order` is the list of targets; where the code makes a second list of those that it staged
and loops over that one, the model's loops go over `Order` and pass by the targets without a directory. Any filesystem call may fail and authors may edit any file between two steps. The
fence's observation is one step. An edit after the fence may be overwritten when the writer succeeds,
as its own text says.

### Maintenance

A tree has policy, pins, settings, lockfile and protected floor, a generated config and a file that no class names,
either of which may be absent, and what the comparison of texts by name never sees (`unseen`: file modes, names git quotes). A run
goes from the tip it pins (`PinPredecessor`) over the candidate it reads (`ReadCandidate`), the classifier (`Classify`), installation, the
commands of the class (`RunSubject`, any exit codes), the platform proof, the verdict, and second readings
of head and tip (`RereadHead`, `RereadMain`) to evidence. `MergeMaintained` is the owner's merge, modelled
from the procedure (external): evidence for the current head and tip, and a merge tree that equals the
candidate's. `Reviewed` is any other landing, under the policy's own check.

A policy is any map from classes to rows: what protections a class has beside the floor's, its composition and its pack are its
author's, but for what `PolicyHolds` asks. A pack must name each tool its class may move; it need not ask the tool to refuse
anything, and naming a package is metadata (`check-toolchain-boundaries.mjs:1117-1120`): what a command executes is not
known to the policy, so `MovedToolsWereJudged` does not say that the tool ran. `Changed` is what the universe of paths shows: the old
name of a rename is not in it (`RenamedAway`). A class names the same tools in all its projections, and a tool has one resolved
version. Main moves forward only: `EvidenceMet` rests on that, as the properties of `ReviewBoundary` do. A branch set
back to an earlier tip and forward again between two readings looks unchanged to both workflows.

## Runs

State counts are of a complete search; seconds are with two workers.

| Run | Instance | Distinct states | Seconds | Properties |
| --- | --- | --- | --- | --- |
| `run_lease` | three attempts, two of them for one run; up to three generations by seizures; requests repeated without bound | 228,419 | 56 | `NoOrphanedGrant`, `DisplacedOnlyByNewer`, `FencedGenerations`, `OwnershipSpec`, `Freed` |
| `finalization` | any three of five calls (a commit, its retry, a second identity and its retry with another intent, the next generation's); two generations; one fault | 478,726 | 94 | `NothingLeftBehind`, `OkMeansPublished`, `RecordSpec`, `EveryCallResolves` |
| `run_record` | one owner with three progress transitions and four faults; or two owners in turn with one transition, calls hanging or answering late | 666,780 | 134 | `JournalIsSound`, `ConclusionsAreTrue`, `Concludes`, `LostIsSilent` |
| `event_stream` | two generations, two terminals; late, lost and repeated answers | 881,466 | 63 | `NumbersAreUnique`, `StreamSpec`, `EmissionEnds` |
| `run_phases` | budgets of 2 before the profile, 4 by it, 3 by the session; windows of 2 | 258,020 | 19 | `TerminalHasCause`, `ReleasedByName`, `WithinBudget`, `Concludes` |
| `run_account` | two adapters, seven requests; two tools, two calls, two other frames; a budget that cuts; three paths, one change | 752,575 | 39 | `AccountIsTrue`, `OnlyVerifiedLeaves`, `CancelledReports` |
| `image_proof` | an image and one derived of it; five commits; two runs | 2,275,234 | 90 | `ProofsAreSound` |
| `release_history` | two modules, one family of three contents, two versions, two reviewed revisions; three commits | 370,469 | 14 | `ReleasesAreForever`, `PinsWereReviewed`, `SelectionIsFaithful` |
| `review_boundary` | two epochs, one other file, four commits, the root among them | 4,353,445 | 85 | `RoundsWereReviews`, `RoundsAreKept`, `EstablishedTogether`, `EpochsWereReviewed` |
| `registry` | a decision that was taken and one that is new, two questions, two gates, two landings, a spike delivered before the registry and three more; five revisions | 130,691 | 96 | `DecisionsStand`, `ReadyIsKept`, `ProgramKeepsShape` |
| `activation` | one source of two versions, one consumer; five commits; the writer from every state of the first three, two edits, two faults | 3,969,264 | 87 | `GenesisIsFresh`, `GenesisIsForever`, `PublishedOrRestored` |
| `maintenance` | two tools with a library in common, two classes, one composed of the other, four policies; three tips, two pushes, one run | 772,596 | 40 | `EvidenceMet`, `MaintenanceMovesOnlyTools`, `MovedToolsWereJudged` |

What each property says stands above its definition. In short:

* **run_lease**: an attempt given up never holds its run; a working owner loses it to a newer
  generation only; generations fence; the lease implements exclusive ownership; it is freed.
* **finalization**: a failed commit leaves no row, reservation or claim; ok means that the caller's own
  intent is published; readers see `AtomicRecord`; every call is answered.
* **run_record**: rows are an ordered prefix of what happened, fenced and closed by a seal; a published
  terminal is answered, an answered one has its bundle or early record, a hold that is answered is in the journal; every
  attempt concludes; one that lost the run is silent.
* **event_stream**: one event per number; readers see `EventLog`; emissions end.
* **run_phases**: as under correctness above, through settlement, recovery and fallback.
* **run_account**: `AccountIsTrue` relates the sealed bundle to what the provider really did, whose
  answers were captured and which events are on the stream (its parts are `LandedIsTold`,
  `RanIsGranted`, `TallyIsTrue`); `OnlyVerifiedLeaves` relates what was
  applied to what was verified and to the policy captured; `CancelledReports` says that an entry told
  to stop does.
* **image_proof**, **release_history**, **review_boundary**, **registry**: what chains of pairwise checks
  amount to over a whole history.
* **activation**: one genesis, fresh when admitted; and at every step of the writer an author's bytes are
  in the target or its backup, at its end everything is published or everything is as it was.
* **maintenance**: evidence names a head and a tip that were current together; a merge on it moves only
  what the policy in force lets its class move, or loses a file that the comparison took for renamed; a moved tool is one the pack
  names, and each command of the pack came out as expected on the tree that was merged.

**Why the bounds are enough.** Two attempts at one run make every race the lease has; a third on
another run shows that the shared counter does no harm; the proofs remove the bounds for safety. In
finalization a retry needs two calls of one identity, competition two identities, a collision one
identity with two intents; one fault at any point fails an attempt at each of its steps while others
go on. In `RunRecord` three progress transitions leave one before, one at and one after the point where
authority is established; four faults are one in the walk, one in what handles it, one in what handles
that, and one to spare. Two generations are enough for a stream that is occupied when the next begins.
The clocks of `RunPhases` differ, so that each can be the first to run out, and a window is longer than
one call. Two calls allow one answered and one open when the transcript is cut; the raw cap is two
above the budget, so content and capture end in different places. In the histories the interesting
failures need a good revision, a bad one and a good-looking one after it, or a branch that moves
between two readings; each instance has one commit more than that. The proofs remove the bounds for
the safety of all models; of `AccountIsTrue` they leave `TallyIsTrue` to its run.

Deadlock is not checked where the system may stop: an attempt that answered, an entry that is gone, a
history at its bound. The lease's and the finalization's models never come to rest and their runs
check it.

## Fairness

* `RunLease`: weak fairness of `HandleAbandon` and `HandleRelease`. The lease of this repository lives in
  the process and runs its method when called; a durable lease would need an expiry, which
  `RunLeasePort` names as the backstop. Nothing is assumed of claims, answers or callers.
* `Finalization`: weak fairness of `Continue(c)`. The event loop runs a continuation whose promise has
  settled, and the participants of this adapter settle theirs. Nothing is assumed of the arrival of
  calls, of timers, of ownership.
* `RunRecord`: weak fairness of `Progresses(g)` as a whole. Every port call of an attempt is under a
  boundary with a timer, so either the call ends or the boundary does; which is not assumed. The
  journal is not fair: an append may hang until its boundary expires.
* `EventStream`: weak fairness of `Resume(g)`: an emission is under the same boundary. The sink is not fair.
* `RunPhases`: weak fairness of `Pass` (time goes by) and of `Runs` (code that waits for nothing, and a
  boundary that has expired). No port is assumed ever to answer.
* `RunAccount`: weak fairness of an entry's own events while the run waits for it: the kill timer, a
  failed launch, the end of a child whose stdout is closed. Neither the provider nor the session is
  fair. `CancelledReports` excuses an entry while something its child left holds stdout, since `close`
  then does not come.

The histories and the maintenance boundary have no liveness: nobody is obliged to push or merge.

## What is proved

All for every value of the constants that the modules' assumptions admit.

**`AttemptProofs`**, of `RunLease` from `RunLeaseAssumption` (any runs, attempts, bound on generations):

| Theorem | States |
| --- | --- |
| `TypeCorrect` | `Spec => []TypeOK` |
| `NoOrphan` | `Spec => []NoOrphanedGrant` |
| `Fenced` | `Spec => FencedGenerations` |
| `Displaced` | `Spec => DisplacedOnlyByNewer` |
| `ImplementsOwnership` | `Spec => OwnershipSpec`, the refinement of `Ownership` |

None of these is inductive alone. That a release frees only its own generation says nothing unless a
generation belongs to one attempt; that an answer is harmless when late says nothing unless it names
what its own attempt earned. The inductive invariant `IInv` adds those links: `EarnedOnce`,
`KnownMatchesEarned`, `AnswersAreEarned`, `CallerIsEarned`, `RequestsMatchCaller`. One lemma per action shows
that it is kept. `ImplementsOwnership` maps each step: a grant is `Acquire`, an abandon or release that
frees the run is `Retire`, a seizure is `Usurp`, all else stutters.

Of `RunRecord`, from `RunRecordAssumption` (any number of generations; any progress, seizures and faults):

| Theorem | States |
| --- | --- |
| `RecordInvariance` | `RecordSpec => []RecordIInv` |
| `JournalIsSoundAlways` | `RecordSpec => []JournalIsSound` |
| `ConclusionsAreTrueAlways` | `RecordSpec => []ConclusionsAreTrue` |
| `LostIsSilentAlways` | `RecordSpec => LostIsSilent` |

What an attempt did lies in three places while it runs: facts the outbox has not taken, entries that wait in it,
entries that were sent and may still land, or land again. `Books` says that they account for one another: the
record is a chronicle (`Chronicle`), the outbox holds its facts in order under the identities minted last
(`Pending`), of those handed over all but the waiting ones have landed, in order, and of what was ever sent only the head of the
outbox is new to the journal (`Open`). Once the terminal is published all of it is there for good (`Sealed`). That a late or
repeated append does no harm is then that it is either the head or a duplicate. `Control` relates this to
where the attempt is: it commits over an empty outbox and not after it lost the fence; it answers held only with
nothing left. `FencedRows` and `ServedGenerations` keep a displaced attempt from writing after its successor.
`Halted`, that an attempt past its walk only concludes, is needed for `LostIsSilent`. The sequences are compared by positions
instead of by filters, so that no induction over them is needed.

**`HistoryProofs`**, of `ReleaseHistory` from `ReleaseHistoryAssumption` (any modules, families, versions, number and
length of pushes):

| Theorem | States |
| --- | --- |
| `TypeCorrect` | `Spec => []TypeOK` |
| `Forever` | `Spec => []ReleasesAreForever` |
| `PinsReviewed` | `Spec => []PinsWereReviewed` |
| `SelectionFaithful` | `Spec => []SelectionIsFaithful` |

The invariant says that a green push was accepted against the tree before it (`Checked`), and that what
two trees further apart promise each other composes: if releases are kept from i to j and j to k they
are from i to k. With the induction theorems of the library out of the provers' reach, the chain is
carried in the invariant itself, one push at a time, instead of by induction over its length.

Of `RegistryHistory`, from `RegistryAssumption` and `RegistryHistoryAssumption` (any decisions, questions, nodes and
lineages; any valid first registry in which nothing is replaced, whatever it has decided, superseded or delivered; any number of
revisions):

| Theorem | States |
| --- | --- |
| `RegistryInvariance` | `RegistrySpec => []RegistryInv` |
| `DecisionsStandAlways` | `RegistrySpec => []DecisionsStand` |
| `ReadyIsKeptAlways` | `RegistrySpec => []ReadyIsKept` |
| `ProgramKeepsShapeAlways` | `RegistrySpec => []ProgramKeepsShape` |

What an author drafts does not matter, only that it passed `Evaluated` and, with the revision before it, `Compared`
(`AdmittedInv`). A decision, once taken, stays decided, with its acceptance, its bytes and its outcome but for being superseded, and what
stands from i to j and from j to k does from i to k (`Stands`, `DecidedInv`); it was there from the first or was taken in one revision
(`TakenInv`), the only one, since a decision that is not Proposed never becomes so again. A
ready landing stays ready over one comparison, and `KeptReady` composes (`ReadyInv`). The shape needs that the nodes of genesis stay and
the others replace one that is there (`DescentInv`): a batch of replacements extends the map from nodes to their origin by where
what they replace comes from, and a current node is replaced by exactly one.

Of `RunAccount` with `Adapter`, from `RunAccountAssumption` and `AdapterAssumption` (any requests, documents, tools, paths, calls
and changes):

| Theorem | States |
| --- | --- |
| `OnlyVerifiedLeavesAlways` | `AccountSpec => []OnlyVerifiedLeaves` |
| `RanIsGrantedAlways` | `AccountSpec => []RanIsGranted` |
| `LandedIsToldAlways` | `AccountSpec /\ []ReportIsTyped => []LandedIsTold` |

The first rests on `AccountInv`, which says by the place of the walk what the run knows: before the second acquisition no
token of it is spent, during it the sources read again are kept in their order (`Rereading`), what is
seen afresh of the artifacts is one of the states since, and a verification ties what was captured to both
(`Verifying`); from the decision to materialize on, the policy admits what was observed (`Leaving`). For the second, `GrantInv`
follows the grant: of the profile captured, of the invocation, of the flags; a plan shows the provider only names
that are an entry by themselves (`PlansShowGrants`), for either CLI and the empty grant too. For the third, `ToldInv` says how far the events of a report are
accounted, and that what lands was accounted before; its premise `ReportIsTyped` is a part of `AccountIsTrue` and checked by its run,
since a report is made by a fold over a transcript.

**`ReviewBoundaryProofs`**, from `ReviewAssumption` (any number of epochs and commits, records without bound
on their content) and `NoReview`:

| Theorem | States |
| --- | --- |
| `TypeCorrect` | `Spec => []TypeOK` |
| `EstablishedWereTogether` | `Spec => []EstablishedTogether` |
| `PassedPushesKeepRounds` | `Spec => []RoundsAreKept` |
| `RoundsOfReviews` | `Spec => []RoundsWereReviews` |
| `EpochsOfReviews` | `Spec => []EpochsWereReviewed` |

The first rests on three facts of the graph (`GraphInv`): commits are numbered as they are made, descend only
from earlier ones, and the default branch's tip only moves to a descendant, so it never returns. The
workflow reads pull request, branch, pull request, branch; a branch that is the same at its two
readings was so in between, and the pull request's second reading lies there. The pull request's branch
may be force-pushed and return; the argument does not need that it did not. `PassedPushesKeepRounds` composes
what one passed push keeps over all of them.

`RoundsWereReviews` is about what a chain of pairwise checks leaves. Its core is `PushBrings`: a round of the
new tip was in the old one, where the invariant speaks of it, or the push brought it, and then the
check found its review among the ancestors, or it is one of those that were passed over: the rounds of a push that were never a review
are among those it did not prove, so that they too inject into the files that went. That a review was current stays true
since commits are immutable and a tip's past only grows. The case analysis rests on the trees being
well formed, one file to a path (`TreeInv`). `EpochsOfReviews`
adds what each gate that passed saw (`VerifiedInv`).

**`EventStreamProofs`**, from `EventStreamAssumption` (any generations, bodies; ordinary and last ones differ):

| Theorem | States |
| --- | --- |
| `TypeCorrect` | `Spec => []TypeOK` |
| `NumbersUnique` | `Spec => []NumbersAreUnique` |
| `ImplementsLog` | `Spec => StreamSpec`, the refinement of `EventLog` |

That no number is given twice is a matter of the counter: `Counting` puts it above all its generation
sent, until the generation is lost and may have taken a number back; `StagedSendNoMore` and
`OneIsCommitting` say why a terminal event may be staged under a number that is not allocated. The refinement needs what is
in the sink to be distinct, reserved events included (`HeldAreDistinct`), one row to a commit
(`RowsAreOfCommits`), and an answer to be older than what is sent next (`AckedAreOlder`). An event that lands and a
publication are `Append`, an answer ok that the caller takes is `Acknowledge`, all else stutters.

**`FinalizationProofs`**, from `FinalizationAssumption` (any calls, identities, intents, faults; a retry has the
identity of what it retries, an identity one generation):

| Theorem | States |
| --- | --- |
| `TypeCorrect` | `Spec => []TypeOK` |
| `NothingIsLeft` | `Spec => []NothingLeftBehind` |
| `OkIsPublished` | `Spec => []OkMeansPublished` |
| `ImplementsRecord` | `Spec => RecordSpec`, the refinement of `AtomicRecord` |

`CallInv` relates the calls: a working call is the one in flight under its identity, a call that joined
has the intent of the one it joined, a claim is held by a working call. `RowInv` relates them to the stores: a
row that is not published belongs to a running call which has come to it, and stands as long as that
call runs. An abandoned attempt hence takes away its rows and nothing else, whatever calls came between two of its awaits. A publication is `Commit`,
an ordinary emission that lands is `Emit`, all else stutters.

**`RunPhasesProofs`**, from `RunPhasesAssumption` (any budgets and windows):

| Theorem | States |
| --- | --- |
| `TypeCorrect` | `Spec => []TypeOK` |
| `TerminalsAreCaused` | `Spec => []TerminalHasCause` |
| `Released` | `Spec => []ReleasedByName` |
| `BudgetKept` | `Spec => WithinBudget` |

The clock and the time spent add up to the budget while the walk is governed by it (`ClockInv`), so an expired clock is
a spent budget and not, say, one armed for another budget. `CauseInv` follows the cause from the escape
to the terminal, `ReleaseInv` says that whatever may exist has a name. The phases are data, and the proof
evaluates them: no item of them ends in a terminal that needs a cause.

**`WorkflowProofs`**, of `Maintenance` from `MaintenanceAssumption` (any tools, classes and policies; any pushes and runs):

| Theorem | States |
| --- | --- |
| `TypeCorrect` | `MaintenanceSpec => []TypeOK` |
| `EvidenceWasTogether` | `MaintenanceSpec => []EvidenceMet` |
| `OnlyToolsMove` | `MaintenanceSpec => []MaintenanceMovesOnlyTools` |
| `MovedWereJudged` | `MaintenanceSpec => []MovedToolsWereJudged` |

A run that is at a stage has shown what the stages before it say, of the candidate and the tip it
names (`JobInv`); so has evidence (`EvidenceInv`), and a landing on evidence (`MergedInv`). What the classifier admits between any two trees
is the lemma `ClassMoves`, with the composite's protections by what every landed policy keeps of its parts (`PolicyHolds`).
`MovedToolsWereJudged` needs that the pack names what its class may move, and that an envelope answers all of the pack.

Of `ImageProof`, from `ParentAssumption`, `ConsumersAssumption`, `BoundsAssumption` (any images, files and contents; any
number of commits and runs):

| Theorem | States |
| --- | --- |
| `ImageInvariance` | `Spec => []ImageInv` |
| `ImageTypeCorrect` | `Spec => []ImageTypeOK` |
| `GreenRunsAreProofs` | `Spec => []ProofsAreSound` |

A green run looked only at what differs from a commit an earlier run proved, and that run at what differs from another. Two
facts make this compose: an image not affected between two trees matches in one if it does in the other
(`Carries`), and what differs between the ends differs on one of the legs. For pull requests the legs need not end at the same base.
`BuildsInv` therefore says of a run that succeeded which base it judged, and that either the target is still
that base or it is newer than the run's head; when a previous head's proof is reused, the live base is behind that head, so it is the base of the earlier run
and nothing that came in since escapes. This is where the proof uses that commits are
numbered as they are made and that the target only moves forward (`AncestryInv`, `BranchesInv`).

**`ActivationProofs`**, from `ActivationAssumption` and `ProjectionsAssumption` (any facts, consumers, commits; any list of
targets, edits and faults):

| Theorem | States |
| --- | --- |
| `TypeCorrect` | `PrepareSpec => []TypeOK` |
| `GenesisFresh` | `PrepareSpec => []GenesisIsFresh` |
| `GenesisForever` | `PrepareSpec => []GenesisIsForever` |
| `TextIsNeverLost` | `PrepareSpec => []PublishedOrRestored` |

The first three are proved of `Spec` and hold of the writer's specification because it implements that one
(`WriterIsActivation`). A commit is checked against the tip it follows, so that the base its genesis names
lies behind it; commits are only added, so what was found there stays.

`TextIsNeverLost` has an inductive invariant of its own, `PrepareInv`. Its heart is `TargetInv`: a target the writer has not touched holds
what its author wrote; one it touched is what the writer read, and those bytes are in the target, under
the new region, or in the backup. The rest says where the loops are: before the
fence nothing is touched and all that differs is staged (`StageInv`), after it the plan stands for
what the authors have (`FencedInv`), behind the installing loop targets show what is expected (`InstallInv`), behind
the recovering one what was authored (`RecoverInv`), behind a sweep without errors nothing is staged
(`CleanInv`).

Only model-checked:

* all liveness (`Freed`, `EveryCallResolves`, `EmissionEnds`, `Concludes`, `CancelledReports`), because fairness is
  outside the prover's reach;
* of `AccountIsTrue`, the parts `TallyIsTrue` and `ReportIsTyped`: what an adapter's observation says of a
  transcript is a fold over all its frames, and what a fold computes for every sequence is an induction over data.

## Where the code and its text disagree

Seen while modelling. The models follow the code, and the properties of the passing runs say what
the code does keep. No run claims these, they are observations.

Runner control:

1. *Release.* `rc/run/scope.ts:56` says that resources are released on every exit. `incomplete` (`rc/orchestration/settle.ts:230`)
   answers without `scope.release` when recovery is refused; `ReleasedByName` excuses that exit.
2. *A refused claim can be granted later, to nobody.* An attempt refused with `already_leased` leaves no record
   (`rc/run-state/in-memory.ts:308`) and its caller does not abandon it, so a retransmission that arrives after the holder's
   release is granted a generation nobody works under; `rc/run-state/in-memory.ts:292-295` and RO-INV-82 say that a delayed duplicate
   does not. The in-process lease never retransmits.
3. *A commit is refused in favour of one that may fail.* The generation gate answers `already_committed` when another
   identity merely holds the in-flight claim (`rc/adapters/finalization.ts:383-391`); the port's contract says that the generation
   published.
4. *The publisher may have lost the run.* `rc/adapters/finalization.ts:339-340` says nothing can interleave between the lease's answer and
   the publication; the answer is computed when `renew` runs and read by a later continuation.
5. *A terminal conclusion with journal entries pending.* `conclude` asks the outbox first, because "`terminal` says the governed
   record is complete" (`rc/orchestration/terminate.ts:98-107`); `incomplete` (`rc/orchestration/settle.ts:45-52`) asks only
   `scope.recorded`. So in `RunRecord`: an early record is written, a port fails, recovery fails once more, and the attempt
   answers terminal over a journal that lacks what it acquired. What holds, and is checked, is that the record itself is in its store
   (`TerminalIsRecorded`).
6. *An attempt that learnt it lost the run takes a terminal transition on its machine.* `finish` checks the fence on entry; if its own
   journal tick (`rc/orchestration/terminate.ts:373`) is refused by the fence, `failClosed` does what `:172-175` says a stale
   holder may not. Nothing is written.

Adapters and the account:

7. *A signal without a report.* `agents/adapters/coding/claude-code/src/bin.ts:9-10` says the report is still emitted on SIGTERM; one that
   arrives before the handler is installed, or after the entry settled and removed it, ends the process.
8. *The raw cap and the calls.* `observe.ts` says that calls are recorded whatever the content budget; the raw cap cuts the
   transcript before, and drops them.
9. *`transcript_terminal`.* Both adapters report a frame's name (`observe.ts:167`, copilot `:199`), and
   `packages/runner-core/src/outcome/terminal.ts:86` takes anything but `success` with exit 0 for a contradiction: every clean run with a
   terminal frame is INDETERMINATE, as `openspec/changes/runner-adapter-conformance-seed/design.md:149-215` itself says. The bundle of such
   a run has no operations.
10. *Link targets.* The filesystem observer reports them absolute, which the path policy cannot decide: with it, no run that changed a
    link is applied.
11. A denied call of Claude that also had a tool result would be recorded as permitted and then as denied; no golden test has one.

Governance:

12. `scripts/governance/model/validate.mjs:3381-3392` refuses in every later revision a replacement landing that is no longer Planned; the design
    says it begins Planned (`design.md:1568`), and `spec.md:499` lets it go on.
13. `validate.mjs:3353-3372` checks replaced replacements against today's graph: after L was replaced by L2, which requires P, P can never be
    replaced (`design.md:1559`, `:1564`).
14. A decision that supersedes one which superseded others must list them all again; a landing may be completed while its
    prerequisites are open; no workflow calls `check-governance-history`, and `governance/state.json` does not exist yet.
15. *Rounds that come as renames.* `scripts/check-openspec-review-history.mjs:158-177` proves that admission "was a transition, not an authored
    file". Its loop passes over every rename whose old path is no round (`:424-427`) before the proof, over a diff of the whole
    repository with half of the text alike (`:378`). So in `ReviewHistory` a push that deletes a file and adds a round
    nobody reviewed passes; so with several, and with rounds added to an archive. `RoundsWereReviews` says what is left: no more
    such rounds than files that went in the same push. Edits of rounds that are in the archive are not compared (about line 492), though
    the header and the README of `reviews/` refuse them.
16. *Files that go as renames.* `scripts/build-maintenance-plan.mjs:10-13` calls the universe of paths "the union of what actually
    changed and everything the predecessor's protected projections cover"; `git diff --name-only` (`:72`) detects renames and leaves the old
    path out. So in `Maintenance` a class that admits generated configs merges the loss of a file nobody named, which
    `MaintenanceMovesOnlyTools` excuses (`RenamedAway`). Modes, and
    names that git quotes, are not seen either.
17. The evidence of a maintenance run records no merge tree, though the specification speaks of a run against one
    (`spec.md:545-620`): that the tree merged is the tree judged rests on the owner's procedure.
18. A command of the subject that runs into its time limit counts as an expected rejection
    (`scripts/run-subject-launcher.mjs:151-152` calls a timeout a definite failure; the envelope only asks for a nonzero exit).
19. In `check-toolchain-boundaries.mjs` the comment that a candidate cannot enlarge the closure by adding edges is not true of the union
    it stands at; the next step catches it. The comparison of records outside the closure is per revision, so a bump
    that drops a dependency other tools use is refused. The class `lint-engine` is kept to `mapping-detail` of replacement rows, and nothing
    protects that field of the legacy rows.

## Not modelled

**Within the modelled parts.**

* *Runner.* A narrowed transition table, with halted walks and refused terminals; an outbox under it, which hands over the
  transitions of a tick before its rejections. Reading the journal back. The commit behind `RunRecord` never loses the acknowledgement
  of a published commit, which is true of the in-memory one. The ledger of outstanding writes.
* *Finalization, events.* One run; contents of records; a body the contract refuses; compaction of rows behind a published identity,
  which the code does not do either.
* *Account.* The pinned base, the principal, reconciliation of claims, byte bounds of a policy, modes and sizes of
  files, usage measures, SIGINT, a second signal. A single-use token consumed twice: no caller does it.
* *Image proof.* The grammar `check-images` imposes apart from the parent chain, the bootstrap sentinel, manual dispatch, a
  changed inventory; what the classifier cannot decide is nondeterministic; git's merge is external.
* *Release history.* Inferred baselines, the first push of a branch, pull request runs, force pushes; of
  `resolveReleaseMembers` only its two decisions.
* *Review.* Several changes, scopes, the gate's worktree mode, the text of reviews.
* *Registry and activation.* Anchors, actors, dates, spelling, canonical bytes, external references, the git-object form of evidence;
  planning checkpoint, snapshot evidence of historical completions and external handoff; file modes. A consumer file exists iff it states facts; after
  genesis a new consumer stands for a registered decision mirror.
* *Maintenance.* Container isolation, schemas of plan and envelope, preparation commands; a second push during a run only moves one tool.

**Whole components.** `packages/contracts` and the JSON schemas: validators without state. The remaining
governance scripts (`check-knowledge`, the lint policy, grammar and boundary rules over files): functions of one revision.
Byte forms behind digests, module packages and the compiler of knowledge sources: conversions. `apps`, `control-plane`, the
loggers and other stubs: a few lines each. The list in `PROJECT.json` has a reason for every part.

## Plan

What is left, in the order of what it would add:

1. The lifecycle table as data, what a narrowing may remove, and `RunRecord` over a narrowed table.
2. A finalization that may lose the acknowledgement of a published commit, under `RunRecord`: what settlement then reports.
3. Reconciliation of claims and the seal ledger in `RunAccount`.
4. An observation that is built frame by frame, shown to be the fold, so that `TallyIsTrue` can be proved of it.
