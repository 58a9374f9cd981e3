----------------------------- MODULE Activation -----------------------------
(***************************************************************************)
(* How the governance registry comes to be (scripts/governance/model,        *)
(* check-governance-history.mjs): a candidate is extracted from a snapshot of *)
(* its sources and frozen on the governed branch, promoted on a branch of its *)
(* own, attested by the owner, and admitted by the check of two revisions,    *)
(* once.  The sources, the candidate and the branch may move meanwhile.       *)
(*                                                                           *)
(* A version stands for what is extracted of a source (primitives,            *)
(* relationships, local evidence), a file for its value, a digest for the     *)
(* value it hashes, a commit for its place on the branch.                     *)
(***************************************************************************)
EXTENDS Integers, Sequences

CONSTANTS
    Fact,       \* the sources the candidate is extracted from
    Version,
    Consumer,   \* files that state governed facts
    FirstTree,
    None,
    MaxCommits

Member == {"consumers", "manifest", "state"}
NoFiles == [m \in Member |-> None]

Facts == [Fact -> Version]

ASSUME ActivationAssumption ==
    /\ None \notin Facts /\ \A C \in SUBSET Consumer : C # None
    /\ FirstTree \in [facts : Facts, consumers : SUBSET Consumer,
                      candidate : {NoFiles}, registry : {NoFiles}]
    /\ MaxCommits \in Nat \ {0}

VARIABLES
    main,   \* the trees of the governed branch, oldest first: the sources, the
            \* consumers, the candidate and the promoted files of each
    work    \* the checkout of the activation branch, and the commit it is based on

Tip == main[Len(main)]

Present(tree) == tree.registry["state"] # None

(***************************************************************************)
(* The candidate.                                                            *)
(***************************************************************************)
\* validateFrozenSeedStructure: the seed is sound and carries no envelope.
Unattested(seed) == seed.facts \in Facts /\ seed.genesis = None

\* readFrozenCandidate: all three files, and a seed among them.
Readable(files) == (\A m \in Member : files[m] # None) /\ Unattested(files["state"])

\* extractSourceField: every row is what its source says at the common snapshot.
RowsHold(manifest) == manifest.facts = main[manifest.snapshot].facts

\* exactSnapshot: an ancestor of what is checked.
Reachable(snapshot, base) == snapshot \in 1..base

\* validateGenesisSources: the snapshot is reachable, and every primitive has its row.
Sourced(files, base) ==
    LET manifest == files["manifest"] IN
    /\ Reachable(manifest.snapshot, base)
    /\ RowsHold(manifest)
    /\ files["state"].facts = manifest.facts

\* discoverConsumers: the files that state governed facts.
Found(tree) == tree.consumers

\* validateConsumerInventory: the rows are the files found.
Inventoried(consumers, tree) == consumers = Found(tree)

\* extractFreshnessInputs: what is extracted again of a commit.
Inputs(i) == [facts |-> main[i].facts, consumers |-> Found(main[i])]

\* Mutant of Equivalent: the sources are taken as they were when they were extracted.
EquivalentThen(files, base) ==
    /\ Inventoried(files["consumers"], main[base])
    /\ main[base].candidate \in {NoFiles, files}

\* compareCandidateFreshness: each class, extracted again at the base, is unchanged.
Equivalent(files, base) ==
    /\ Inputs(base).facts = Inputs(files["manifest"].snapshot).facts
    /\ Inventoried(files["consumers"], main[base])
    /\ main[base].candidate \in {NoFiles, files}

Fresh(files, base) == Readable(files) /\ Sourced(files, base) /\ Equivalent(files, base)

\* activationFreshnessDigest.
Freshness(files, base) == <<files, base, Inputs(base)>>

\* validateCandidatePromotion: the candidate's very bytes, and no second copy.
Promoted(files, tree) == tree.candidate = NoFiles /\ tree.registry = files

(***************************************************************************)
(* The check of a revision, and of two.                                      *)
(***************************************************************************)
\* preserveConsumerRows.
RowsKept(before, after) == before \subseteq after

\* validateCurrentConsumerInventory: what is found has its row, and the frozen rows stay.
CurrentInventory(tree, frozen) ==
    /\ tree.registry["consumers"] # None
    /\ RowsKept(frozen, tree.registry["consumers"])
    /\ tree.registry["consumers"] = Found(tree)

\* validateGenesisAttestation: there is one, and it names a commit as its base.
Attested(genesis) == genesis # None /\ genesis.base \in DOMAIN main

\* validateGenesisBindings: what the attestation binds is found again at its base.
Bound(tree) ==
    LET genesis == tree.registry["state"].genesis IN
    /\ Attested(genesis)
    /\ LET frozen == main[genesis.base].candidate IN
       /\ Fresh(frozen, genesis.base)
       /\ tree.registry["manifest"] = frozen["manifest"]
       /\ tree.candidate = NoFiles
       /\ CurrentInventory(tree, frozen["consumers"])
       /\ genesis.freeze = frozen
       /\ genesis.seed = frozen["state"].facts
       /\ genesis.snapshot = frozen["manifest"].snapshot
       /\ genesis.freshness = Freshness(frozen, genesis.base)

\* pathEverExistedInAncestry.
PostActivation == \E i \in DOMAIN main : Present(main[i])

\* evaluateHistory: the first registry is the seed, with the inventory, as attested.
Seeded(tree) ==
    LET state == tree.registry["state"] IN
    /\ state.facts = state.genesis.seed
    /\ tree.registry["consumers"] = main[state.genesis.base].candidate["consumers"]

\* Mutant of GenesisException: the base only has to lack a registry.
AnyGenesis(tree) == TRUE

\* evaluateGenesisException.
GenesisException(tree) ==
    /\ ~ PostActivation
    /\ tree.registry["state"].genesis.base = Len(main)

\* compareGenesisPreservation, compareConsumers.
GenesisKept(tree) ==
    /\ tree.registry["state"].genesis = Tip.registry["state"].genesis
    /\ tree.registry["manifest"] = Tip.registry["manifest"]
    /\ RowsKept(Tip.registry["consumers"], tree.registry["consumers"])

\* checkGovernanceHistory with the branch's tip as the explicit base.
Admitted(tree) ==
    /\ Present(tree)
    /\ Bound(tree)
    /\ Present(Tip) => Bound(Tip)
    /\ IF Present(Tip) THEN GenesisKept(tree) ELSE GenesisException(tree) /\ Seeded(tree)

\* A revision is checked once it or its base holds a registry.
Push(tree) ==
    /\ Len(main) < MaxCommits
    /\ tree # Tip
    /\ Present(Tip) \/ Present(tree) => Admitted(tree)
    /\ main' = Append(main, tree)

(***************************************************************************)
(* The governed branch.                                                      *)
(***************************************************************************)
\* extractCandidate: the seed, without any envelope, the rows behind it, and inventoryFor.
SeedOf(snapshot) == [facts |-> main[snapshot].facts, genesis |-> None]

RowsOf(snapshot) == [snapshot |-> snapshot, facts |-> main[snapshot].facts]

InventoryOf(tree) == Found(tree)

Extracted(snapshot) ==
    [consumers |-> InventoryOf(Tip), manifest |-> RowsOf(snapshot), state |-> SeedOf(snapshot)]

\* A source changes, or a file that states governed facts is added.
ChangeSource == \E f \in Fact, v \in Version : Push([Tip EXCEPT !.facts[f] = v])

AddConsumer ==
    \E c \in Consumer, register \in BOOLEAN :
        LET tree == [Tip EXCEPT !.consumers = @ \cup {c}] IN
        Push(IF register /\ Present(Tip)
             THEN [tree EXCEPT !.registry["consumers"] = tree.consumers] ELSE tree)

\* A candidate is frozen from the tip or from an older snapshot, or frozen again.
Freeze == \E s \in DOMAIN main : Push([Tip EXCEPT !.candidate = Extracted(s)])

\* An ordinary transition moves the registry's primitives, or an edit its genesis.
Evolve ==
    /\ Present(Tip)
    /\ \E facts \in Facts, genesis \in {Tip.registry["state"].genesis, None},
          base \in DOMAIN main :
        LET attested == IF genesis = None THEN None ELSE [genesis EXCEPT !.base = base] IN
        Push([Tip EXCEPT !.registry["state"] = [facts |-> facts, genesis |-> attested]])

\* The activation is reverted by hand, past every check.
Revert ==
    /\ Len(main) < MaxCommits
    /\ Present(Tip)
    /\ main' = Append(main, [Tip EXCEPT
                  !.registry = NoFiles,
                  !.candidate = main[Tip.registry["state"].genesis.base].candidate])

(***************************************************************************)
(* The activation branch.                                                    *)
(***************************************************************************)
Checkout == work # None

\* The candidate's files are moved, all or some of them.
Promote ==
    /\ Checkout
    /\ \E M \in {Member, {"consumers", "manifest"}} :
        /\ \A m \in M : work.tree.candidate[m] # None
        /\ work' = [work EXCEPT
              !.tree.candidate = [m \in Member |-> IF m \in M THEN None ELSE @[m]],
              !.tree.registry = [m \in Member |-> IF m \in M THEN work.tree.candidate[m] ELSE @[m]]]

\* The branch edits a source, or the seed it promotes.
Edit ==
    /\ Checkout
    /\ \E f \in Fact, v \in Version :
        \/ work' = [work EXCEPT !.tree.facts[f] = v]
        \/ /\ Present(work.tree)
           /\ work' = [work EXCEPT !.tree.registry["state"].facts[f] = v]

\* The owner attests to the candidate at a base, with the freshness found at one.
Attest ==
    /\ Checkout
    /\ Present(work.tree) /\ work.tree.registry["manifest"] # None
    /\ \E base, at \in DOMAIN main :
        LET frozen == main[base].candidate
            manifest == work.tree.registry["manifest"] IN
        /\ frozen # NoFiles
        /\ work' = [work EXCEPT !.tree.registry["state"].genesis =
              [base |-> base, freeze |-> frozen, seed |-> frozen["state"].facts,
               snapshot |-> manifest.snapshot, freshness |-> Freshness(frozen, at)]]

\* The branch's changes on the tip: git refuses them where both sides changed a file.
Merged ==
    LET base == main[work.base] IN
    [facts |-> [f \in Fact |-> IF work.tree.facts[f] = base.facts[f] THEN Tip.facts[f]
                               ELSE work.tree.facts[f]],
     consumers |-> Tip.consumers,
     candidate |-> work.tree.candidate,
     registry |-> work.tree.registry]

Mergeable ==
    LET base == main[work.base] IN
    /\ Tip.candidate = base.candidate /\ Tip.registry = base.registry
    /\ \A f \in Fact : work.tree.facts[f] # base.facts[f] =>
                           Tip.facts[f] \in {base.facts[f], work.tree.facts[f]}

Branch == work' = [base |-> Len(main), tree |-> Tip]

\* The branch is merged, and checked as what it makes of the tip.
Merge == Checkout /\ Mergeable /\ Push(Merged) /\ work' = None

Governed == (ChangeSource \/ AddConsumer \/ Freeze \/ Evolve \/ Revert) /\ UNCHANGED work

Activating == (Branch \/ Promote \/ Edit \/ Attest) /\ UNCHANGED main

Init == main = <<FirstTree>> /\ work = None

Next == Governed \/ Activating \/ Merge

Spec == Init /\ [][Next]_<<main, work>>

(***************************************************************************)
(* Properties.                                                               *)
(***************************************************************************)
\* Type invariant.
TypeOK ==
    /\ Len(main) \in 1..MaxCommits
    /\ \A i \in DOMAIN main :
         /\ main[i].facts \in Facts /\ main[i].consumers \subseteq Consumer
         /\ DOMAIN main[i].candidate = Member /\ DOMAIN main[i].registry = Member
    /\ work # None => work.base \in DOMAIN main

\* The commit that introduces a registry.
Introduces(i) == i > 1 /\ Present(main[i]) /\ ~ Present(main[i - 1])

\* The first registry is, byte for byte, the candidate its own predecessor held, and it
\* states what the sources say there, whatever moved since the candidate was extracted,
\* frozen, promoted or attested (evaluateGenesisException, compareCandidateFreshness,
\* validateGenesisBindings).
GenesisIsFresh ==
    \A i \in DOMAIN main : Introduces(i) =>
        LET base == main[i - 1]
            registry == main[i].registry IN
        /\ registry["manifest"] = base.candidate["manifest"]
        /\ registry["consumers"] = base.candidate["consumers"]
        /\ [registry["state"] EXCEPT !.genesis = None] = base.candidate["state"]
        /\ registry["state"].facts = base.facts
        /\ registry["consumers"] = base.consumers

\* A registry is introduced once, ever: a revert is not undone by a second genesis, and
\* every later revision carries the first one's attestation and manifest
\* (evaluateGenesisException, compareGenesisPreservation).
GenesisIsForever ==
    \A i \in DOMAIN main : Introduces(i) =>
        \A j \in (i + 1)..Len(main) :
            /\ ~ Introduces(j)
            /\ Present(main[j]) =>
                 /\ main[j].registry["state"].genesis = main[i].registry["state"].genesis
                 /\ main[j].registry["manifest"] = main[i].registry["manifest"]

=============================================================================
