--------------------------- MODULE ReleaseHistory ---------------------------
(***************************************************************************)
(* The release registry of the knowledge toolchain as its repository evolves *)
(* (packages/knowledge-toolchain/src/set-release.ts, check-set-releases.mjs, *)
(* check-release-history.mjs and the workflow that runs them).               *)
(*                                                                           *)
(* A revision (tree) holds the catalog with its mutable families, the stored *)
(* manifests and the registry.  The governed branch grows by pushes of one   *)
(* or two commits, good or bad.  Each push starts a run of the workflow that *)
(* compares the revision before it with the one it left, in its own time and *)
(* possibly again.  A digest stands for the manifest it hashes, and a review *)
(* for the (version, source digest) pair it attests.                         *)
(***************************************************************************)
EXTENDS Integers, Sequences, Functions

CONSTANTS
    Module,     \* knowledge modules
    Family,     \* set families
    Number,     \* release versions
    Revision,   \* reviewed revisions of a module
    FamilyRow,  \* what a family can say: [required, optional, deny, additions, narrowing]
    None,
    FirstRows, FirstFamilies,   \* the catalog before the first release
    MaxCommits

Key == Family \X Number
State == {"Released", "Deprecated", "Retired"}
Row == [review : Revision \cup {None}, held : BOOLEAN]
Pinned == UNION {[S -> Revision \cup {None}] : S \in SUBSET Module}
Release == [key : Key, required : Pinned, optional : Pinned, deny : SUBSET Module,
            additions : BOOLEAN, narrowing : BOOLEAN]
Record == [key : Key, digest : Release, review : Release, state : State]
Tree == [rows : [Module -> Row],             \* the catalog's row of each module
         families : [Family -> FamilyRow \cup {None}],
         manifests : [Key -> Release \cup {None}],   \* the bytes at the path of each key
         registry : SUBSET Record]

ASSUME ReleaseHistoryAssumption ==
    /\ None \notin Revision /\ None \notin FamilyRow /\ None \notin Release
    /\ FamilyRow \subseteq [required : SUBSET Module, optional : SUBSET Module,
                            deny : SUBSET Module, additions : BOOLEAN, narrowing : BOOLEAN]
    /\ FirstRows \in [Module -> Row]
    /\ FirstFamilies \in [Family -> FamilyRow \cup {None}]
    /\ MaxCommits \in Nat

VARIABLES
    main,      \* the pushes to the governed branch: what each left, and the commit below it
    green,     \* the pushes whose run passed
    commits    \* number of commits made

vars == <<main, green, commits>>

(***************************************************************************)
(* A release built from the catalog.                                         *)
(***************************************************************************)
\* memberProblems: the lifecycle and the two gates of a module are one flag.
Eligible(row) == row.review # None /\ ~ row.held

Pins(rows, members) == [m \in members |-> rows[m].review]

Manifest(k, family, rows) ==
    [key |-> k,
     required |-> Pins(rows, family.required),
     optional |-> Pins(rows, family.optional),
     deny |-> family.deny, additions |-> family.additions, narrowing |-> family.narrowing]

\* A manifest that has canonical bytes: one member has one disposition, and is pinned.
Canonical(manifest) ==
    /\ DOMAIN manifest.required \cap DOMAIN manifest.optional = {}
    /\ None \notin Range(manifest.required) \cup Range(manifest.optional)

\* parseSetReleaseManifest and isCanonicalSetReleaseManifest: bytes that read back as a
\* manifest and are the canonical serialization of what they mean.
ReadsBack(bytes) == bytes # None /\ Canonical(bytes)

\* buildSetReleaseCandidate, from the catalog of tree, gives exactly this manifest.
Derivable(manifest, tree) ==
    LET family == tree.families[manifest.key[1]] IN
    /\ family # None
    /\ \A m \in family.required \cup family.optional : Eligible(tree.rows[m])
    /\ manifest = Manifest(manifest.key, family, tree.rows)
    /\ Canonical(manifest)

(***************************************************************************)
(* The check of one revision and the check of two.                           *)
(***************************************************************************)
\* validateSetReleaseRecord: a record against the bytes stored under its path.
ValidRecord(record, tree) ==
    LET bytes == tree.manifests[record.key] IN
    /\ tree.families[record.key[1]] # None
    /\ ReadsBack(bytes)
    /\ bytes.key = record.key
    /\ record.digest = bytes
    /\ record.review = record.digest

\* releaseTransitionDecision.
Moves == {<<s, s>> : s \in State} \cup
         {<<"Released", "Deprecated">>, <<"Deprecated", "Retired">>}

\* successionTransition: nothing outside the vocabulary of states moves.
MayMove(from, to) == <<from, to>> \in Moves

WithoutState(record) == [key |-> record.key, digest |-> record.digest, review |-> record.review]

Unambiguous(records) == \A r, s \in records : r.key = s.key => r = s

Added(prior, current) == {r \in current : \A p \in prior : p.key # r.key}

\* validateRegistrySuccession.
Succession(prior, current) ==
    /\ Unambiguous(prior) /\ Unambiguous(current)
    /\ \A p \in prior : \E r \in current :
         /\ WithoutState(r) = WithoutState(p)
         /\ MayMove(p.state, r.state)
    /\ \A r \in Added(prior, current) : r.state = "Released"

\* Mutant of NewAreDerivable: a new record is held to its own digest alone.
NewAreCanonical(prior, tree) ==
    \A r \in Added(prior, tree.registry) : Canonical(r.digest)

\* checkReleaseHistory: what is new in this window is derived from this window's catalog.
NewAreDerivable(prior, tree) ==
    \A r \in Added(prior, tree.registry) :
        r.digest.key = r.key /\ Derivable(r.digest, tree)

Accepted(prior, tree) ==
    /\ \A r \in tree.registry : ValidRecord(r, tree)
    /\ Succession(prior, tree.registry)
    /\ NewAreDerivable(prior, tree)

(***************************************************************************)
(* What a release is for.                                                    *)
(***************************************************************************)
\* releaseAdoptionDecision, releaseRunDecision.
Allowed(use, state) ==
    CASE use = "adoption" -> state = "Released"
      [] use = "run"      -> state # "Retired"

\* canonicalTaskDelta: a delta that has canonical bytes adds nothing it narrows.
CanonicalDelta(add, narrow) == add \cap narrow = {}

\* applyTaskDelta: which deltas a release takes.
Members(release) == DOMAIN release.required \cup DOMAIN release.optional

\* Mutant of TakesDelta: an addition is compared with what narrowing left behind.
TakesSubstitution(release, add, narrow, rows) ==
    /\ add # {} => release.additions
    /\ narrow # {} => release.narrowing
    /\ narrow \subseteq DOMAIN release.optional
    /\ \A m \in add : m \notin Members(release) \ narrow /\ m \notin release.deny
                      /\ Eligible(rows[m])

TakesDelta(release, add, narrow, rows) ==
    /\ add # {} => release.additions
    /\ narrow # {} => release.narrowing
    /\ narrow \subseteq DOMAIN release.optional
    /\ \A m \in add : m \notin Members(release) /\ m \notin release.deny
                      /\ Eligible(rows[m])
    /\ CanonicalDelta(add, narrow) /\ Canonical(release)

\* The modules a run gets, by the pin each is read at.
Selection(release, add, narrow, rows) ==
    [m \in (Members(release) \ narrow) \cup add |->
        IF m \in add THEN rows[m].review
        ELSE IF m \in DOMAIN release.required THEN release.required[m]
        ELSE release.optional[m]]

\* canonicalResolvedSelection: a selection that has canonical bytes reads every module at
\* a digest.
CanonicalSelection(sel) == None \notin Range(sel)

(***************************************************************************)
(* Commits an author may make.                                               *)
(***************************************************************************)
\* A manifest from any contents of a family, on this catalog or the first one.
Drafts(tree) == {Manifest(k, f, c) : k \in Key, f \in FamilyRow, c \in {tree.rows, FirstRows}}

RecordOf(draft, state) == [key |-> draft.key, digest |-> draft, review |-> draft, state |-> state]

TreeOf(rows, families, manifests, registry) ==
    [rows |-> rows, families |-> families, manifests |-> manifests, registry |-> registry]

EditRow(tree) ==
    {TreeOf([tree.rows EXCEPT ![m] = r], tree.families, tree.manifests, tree.registry) :
        m \in Module, r \in Row}

EditFamily(tree) ==
    {TreeOf(tree.rows, [tree.families EXCEPT ![f] = r], tree.manifests, tree.registry) :
        f \in Family, r \in FamilyRow \cup {None}}

Stored(tree, draft) == [tree.manifests EXCEPT ![draft.key] = draft]

Overwrite(tree) ==
    {TreeOf(tree.rows, tree.families, Stored(tree, d), tree.registry) : d \in Drafts(tree)}

Publish(tree) ==
    {TreeOf(tree.rows, tree.families, Stored(tree, d), tree.registry \cup {RecordOf(d, s)}) :
        d \in Drafts(tree), s \in State \ {"Retired"}}

Rewrite(tree) ==
    {TreeOf(tree.rows, tree.families, Stored(tree, d),
            {IF r.key = d.key THEN RecordOf(d, r.state) ELSE r : r \in tree.registry}) :
        d \in Drafts(tree)}

Drop(tree) ==
    {TreeOf(tree.rows, tree.families, tree.manifests, tree.registry \ {r}) :
        r \in tree.registry}

Restate(tree) ==
    {TreeOf(tree.rows, tree.families, tree.manifests,
            (tree.registry \ {r}) \cup {RecordOf(r.digest, s)}) :
        r \in tree.registry, s \in State}

Edits(tree) == EditRow(tree) \cup EditFamily(tree) \cup Publish(tree) \cup Drop(tree) \cup Rewrite(tree)
                 \cup Overwrite(tree) \cup Restate(tree)

(***************************************************************************)
(* The branch and its runs.                                                  *)
(***************************************************************************)
Tip == main[Len(main)].tree

First == [rows |-> FirstRows, families |-> FirstFamilies,
          manifests |-> [k \in Key |-> None], registry |-> {}]

Init ==
    /\ main = <<[tree |-> First, below |-> First]>>
    /\ green = {1}
    /\ commits = 0

Land(tree, below, n) ==
    /\ main' = Append(main, [tree |-> tree, below |-> below])
    /\ commits' = commits + n
    /\ UNCHANGED green

Push ==
    \/ commits + 1 <= MaxCommits /\ \E c \in Edits(Tip) : Land(c, Tip, 1)
    \/ commits + 2 <= MaxCommits /\ \E c \in Edits(Tip) : \E d \in Edits(c) : Land(d, c, 2)

\* Mutant of Base: a supplied baseline that does not resolve gives way to HEAD~1.
BaseOrParent(p, resolves) == IF resolves THEN main[p - 1].tree ELSE main[p].below

\* resolveBase: the workflow supplies the revision before the push, which alone is
\* acceptable.
Base(p, resolves) == IF resolves THEN main[p - 1].tree ELSE None

\* A run of the workflow for push p that passes.  Reading the prior registry may fail;
\* then, as with any refusal, the run is red and leaves things as they were.
Run(p) ==
    /\ \E resolves, reads \in BOOLEAN :
         LET base == Base(p, resolves) IN
         base # None /\ reads /\ Accepted(base.registry, main[p].tree)
    /\ green' = green \cup {p}
    /\ UNCHANGED <<main, commits>>

Next == Push \/ \E p \in 2 .. Len(main) : Run(p)

Spec == Init /\ [][Next]_vars

(***************************************************************************)
(* Properties.                                                               *)
(***************************************************************************)
TypeOK ==
    /\ main \in Seq([tree : Tree, below : Tree])
    /\ Len(main) >= 1
    /\ green \subseteq DOMAIN main
    /\ commits \in 0 .. MaxCommits

\* The runs of all the pushes after i, up to j, are green.
Governed(i, j) == i + 1 .. j \subseteq green

\* The release r of an earlier tree is still what it was.
Kept(r, tree) ==
    /\ tree.manifests[r.key] = r.digest
    /\ \E s \in tree.registry :
         /\ s.key = r.key /\ s.digest = r.digest
         /\ \A use \in {"adoption", "run"} : Allowed(use, s.state) => Allowed(use, r.state)
    /\ Unambiguous(tree.registry)

\* ADR-0019: a version of a family resolves to one digest forever, its manifest keeps
\* its bytes, and a use once withdrawn never comes back - across any number of pushes
\* whose runs, each of which saw two revisions only, are all green.
ReleasesAreForever ==
    \A i, j \in DOMAIN main : i < j /\ Governed(i, j) =>
        \A r \in main[i].tree.registry : Kept(r, main[j].tree)

\* Every module a release pins was reviewed at that revision, and open, in this tree.
Reviewed(release, tree) ==
    \A m \in Members(release) :
        /\ Eligible(tree.rows[m])
        /\ m \in DOMAIN release.required => release.required[m] = tree.rows[m].review
        /\ m \in DOMAIN release.optional => release.optional[m] = tree.rows[m].review

\* A release found in the registry, however old, pins modules that were all reviewed
\* and open at one revision of the branch, at the digests reviewed then.  The catalog
\* may have moved on since.
PinsWereReviewed ==
    \A j \in DOMAIN main : Governed(1, j) =>
        \A r \in main[j].tree.registry : \E i \in 1 .. j : Reviewed(r.digest, main[i].tree)

\* What a run reads under a task delta: every required pin as it was reviewed, every
\* member it kept at its pin and never at a later revision, and beyond these only what
\* the release lets a task add and the catalog holds open now; and that selection has
\* the bytes that the evidence of the run names it by.
SelectionIsFaithful ==
    Governed(1, Len(main)) =>
    \A r \in Tip.registry : \A add, narrow \in SUBSET Module :
        TakesDelta(r.digest, add, narrow, Tip.rows) =>
            LET sel == Selection(r.digest, add, narrow, Tip.rows) IN
            /\ \A m \in DOMAIN r.digest.required :
                 m \in DOMAIN sel /\ sel[m] = r.digest.required[m]
            /\ \A m \in DOMAIN r.digest.optional \cap DOMAIN sel :
                 sel[m] = r.digest.optional[m]
            /\ \A m \in DOMAIN sel \ Members(r.digest) :
                 r.digest.additions /\ m \notin r.digest.deny /\ Eligible(Tip.rows[m])
            /\ CanonicalSelection(sel)
=============================================================================
