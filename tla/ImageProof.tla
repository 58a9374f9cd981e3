----------------------------- MODULE ImageProof -----------------------------
(***************************************************************************)
(* The proof of governed container images by the images workflow            *)
(* (.github/workflows/images.yml) with scripts/pr-merge-plan.mjs and         *)
(* scripts/image-impact.mjs.                                                 *)
(*                                                                           *)
(* A commit carries the image inputs and the lock that records, for every    *)
(* image, the digest a governed rebuild must produce.  A workflow run builds *)
(* only the images its comparison cannot excuse: a comparison with a commit  *)
(* an earlier run proved.  What a green run means is therefore an induction  *)
(* over runs, branches that move meanwhile, and composed merges; this module *)
(* is that induction's system.                                               *)
(***************************************************************************)
EXTENDS Integers, Sequences, FiniteSets

CONSTANTS
    Image,          \* governed images of the lock
    Parent,         \* [Image -> Image \cup {Root}]: the image it is derived from
    Root,           \* the parent of an image that is not derived
    File,           \* repository files that are image inputs
    Consumers,      \* [File -> SUBSET Image]: whose build reads it
    Content,        \* contents a file can have
    Relocks,        \* sets of lock entries an author may record anew in a commit
    MaxCommits,     \* bound on commits
    MaxBuilds       \* bound on workflow runs

ASSUME ParentAssumption == Parent \in [Image -> Image \cup {Root}] /\ Root \notin Image
ASSUME ConsumersAssumption == Consumers \in [File -> SUBSET Image]
ASSUME BoundsAssumption == Content # {} /\ MaxCommits \in Nat \ {0} /\ MaxBuilds \in Nat

VARIABLES
    commits,    \* sequence of [tree, anc]: what was committed, and on top of what
    target,     \* tip of the target branch
    branch,     \* tip of the pull request's branch
    opened,     \* is the pull request open?
    builds      \* sequence of workflow runs, in the order their events arrived

vars == <<commits, target, branch, opened, builds>>

(***************************************************************************)
(* Images.                                                                   *)
(***************************************************************************)
Children(i) == {c \in Image : Parent[c] = i}

\* A derived image is built on a root image (the two-phase builder refuses more).
Inputs(i) == {f \in File : i \in Consumers[f] \/ Parent[i] \in Consumers[f]}

\* What a rebuild of i from the tree produces: a digest of everything it reads.
Rebuilt(tree, i) == [f \in Inputs(i) |-> tree.file[f]]

Matches(tree, i) == tree.lock[i] = Rebuilt(tree, i)

\* check-images: a derived entry records the digest its parent's entry records.
Lineage(tree) ==
    \A i \in Image : Parent[i] # Root =>
        \A f \in Inputs(Parent[i]) : tree.lock[i][f] = tree.lock[Parent[i]][f]

ChangedFiles(base, tree) == {f \in File : base.file[f] # tree.file[f]}

LockImpacts(base, tree) == {i \in Image : base.lock[i] # tree.lock[i]}

PathImpacts(base, tree) ==
    {i \in Image : \E f \in ChangedFiles(base, tree) : i \in Consumers[f]}

WithChildren(S) == S \cup UNION {Children(i) : i \in S}

Affected(base, tree) == WithChildren(LockImpacts(base, tree) \cup PathImpacts(base, tree))

\* Parents of selected images are built, and verified, with them.
Outputs(S) == S \cup ({Parent[i] : i \in S} \ {Root})

(***************************************************************************)
(* Commits.                                                                  *)
(***************************************************************************)
Commit == 1 .. Len(commits)
TreeOf(c) == commits[c].tree
IsAncestor(a, b) == a \in commits[b].anc

MergeBase(a, b) ==
    LET common == commits[a].anc \cap commits[b].anc
    IN  CHOOSE m \in common : common \subseteq commits[m].anc

Sides(m, a, b) == {x \in {a, b} : x # m}

Conflicts(a, b) ==
    LET m == TreeOf(MergeBase(a, b))
    IN  \/ \E f \in File : Cardinality(
              Sides(m.file[f], TreeOf(a).file[f], TreeOf(b).file[f])) = 2
        \/ \E i \in Image : Cardinality(
              Sides(m.lock[i], TreeOf(a).lock[i], TreeOf(b).lock[i])) = 2

Pick3(m, a, b) == IF a # m THEN a ELSE b

Merged(a, b) ==
    LET m == TreeOf(MergeBase(a, b))
    IN  [file |-> [f \in File |-> Pick3(m.file[f], TreeOf(a).file[f], TreeOf(b).file[f])],
         lock |-> [i \in Image |-> Pick3(m.lock[i], TreeOf(a).lock[i], TreeOf(b).lock[i])]]

Composable(base, h) == IsAncestor(base, h) \/ ~ Conflicts(base, h)

Compose(base, h) == IF IsAncestor(base, h) THEN TreeOf(h) ELSE Merged(base, h)

FileEdits(p) ==
    {TreeOf(p).file} \cup {[TreeOf(p).file EXCEPT ![f] = v] : f \in File, v \in Content}

\* The files fs of a commit on p, composed with the target branch.
ComposedFiles(p, fs) ==
    [f \in File |-> Pick3(TreeOf(MergeBase(target, p)).file[f], TreeOf(target).file[f], fs[f])]

Relocked(p, record, R) ==
    [i \in Image |-> IF i \in R THEN [f \in Inputs(i) |-> record[f]] ELSE TreeOf(p).lock[i]]

\* A commit on p changes at most one input, and records for any of the allowed
\* sets of images the digests of its own tree, or those a run's evidence shows
\* for the tree composed with the target branch.
Edits(p) ==
    UNION {{[file |-> fs, lock |-> Relocked(p, record, R)] :
              record \in {fs, ComposedFiles(p, fs)}, R \in Relocks} : fs \in FileEdits(p)}

AddCommit(tree, parents) ==
    /\ Len(commits) < MaxCommits
    /\ commits' = Append(commits,
         [tree |-> tree,
          anc |-> {Len(commits) + 1} \cup UNION {commits[p].anc : p \in parents}])

(***************************************************************************)
(* Runs.                                                                     *)
(***************************************************************************)
\* The run of the commit just pushed, which it starts with checked out.
Queued(kind, before) ==
    LET pushed == Len(commits')
    IN  [kind |-> kind, before |-> before, head |-> pushed, base |-> 0, compare |-> 0,
         tree |-> commits'[pushed].tree, state |-> "queued"]

\* An event starts a run unless the paths it touches are outside the perimeter.
Trigger(kind, before) ==
    \/ /\ Len(builds) < MaxBuilds
       /\ builds' = Append(builds, Queued(kind, before))
    \/ UNCHANGED builds

Init ==
    /\ commits = << [tree |-> [file |-> [f \in File |-> CHOOSE v \in Content : TRUE],
                               lock |-> [i \in Image |-> [f \in Inputs(i) |->
                                           CHOOSE v \in Content : TRUE]]],
                     anc |-> {1}] >>
    /\ target = 1 /\ branch = 1 /\ opened = FALSE
    /\ builds = <<>>

\* The branch forks off the target and opens the pull request: no previous head.
Open ==
    /\ ~ opened /\ branch = 1
    /\ \E p \in commits[target].anc : \E tree \in Edits(p) : AddCommit(tree, {p})
    /\ branch' = Len(commits) + 1 /\ opened' = TRUE
    /\ Trigger("pull", 0)
    /\ UNCHANGED target

\* A push to the branch: on its tip, or a rewrite on top of the target.
Synchronize ==
    /\ opened
    /\ \E p \in {branch, target} : \E tree \in Edits(p) : AddCommit(tree, {p})
    /\ branch' = Len(commits) + 1
    /\ Trigger("pull", branch)
    /\ UNCHANGED <<target, opened>>

\* The branch takes the target's tip in.
Update ==
    /\ opened /\ ~ IsAncestor(target, branch) /\ ~ Conflicts(branch, target)
    /\ AddCommit(Merged(branch, target), {branch, target})
    /\ branch' = Len(commits) + 1
    /\ Trigger("pull", branch)
    /\ UNCHANGED <<target, opened>>

\* The target branch moves by a commit of its own.
Advance ==
    /\ \E tree \in Edits(target) : AddCommit(tree, {target})
    /\ target' = Len(commits) + 1
    /\ Trigger("push", target)
    /\ UNCHANGED <<branch, opened>>

\* The pull request is merged, whatever its runs said: nothing here forbids it.
LandPull ==
    /\ opened /\ Composable(target, branch)
    /\ AddCommit(Compose(target, branch), {target, branch})
    /\ target' = Len(commits) + 1 /\ opened' = FALSE
    /\ Trigger("push", target)
    /\ UNCHANGED branch

\* Mutant of Proven: a run of that commit will do, whatever it concluded.
ProvenByAnyRun(kind, h) ==
    \E r \in 1 .. Len(builds) : builds[r].kind = kind /\ builds[r].head = h

\* The history lookup finds a successful run for exactly this head.
Proven(kind, h) ==
    \E r \in 1 .. Len(builds) :
        builds[r].kind = kind /\ builds[r].head = h /\ builds[r].state = "success"

\* Mutant of Reusable: the base may have advanced beyond the previous head.
ReusableStale(r, base) ==
    r.before # 0 /\ Proven("pull", r.before) /\ IsAncestor(r.before, r.head)

\* May the proof of the previous head stand for this pull request's comparison?
Reusable(r, base) ==
    /\ r.before # 0
    /\ Proven("pull", r.before)
    /\ IsAncestor(base, r.before)
    /\ IsAncestor(r.before, r.head)

Set(r, fields) == builds' = [builds EXCEPT ![r] = fields]

\* planPullRequest: compose with the live base, choose the comparison's origin,
\* and check the composed tree out.
\* A lookup that fails, or an ancestry nobody can tell, is a full comparison.
PlanPull(r) ==
    /\ builds[r].kind = "pull" /\ builds[r].state = "queued"
    /\ \E compare \in {target} \cup
            (IF Reusable(builds[r], target) THEN {builds[r].before} ELSE {}) :
         Set(r, IF Composable(target, builds[r].head)
                  THEN [builds[r] EXCEPT !.base = target, !.compare = compare,
                          !.tree = Compose(target, builds[r].head), !.state = "planned"]
                  ELSE [builds[r] EXCEPT !.state = "failure"])
    /\ UNCHANGED <<commits, target, branch, opened>>

\* A push compares with the commit before it if that commit has a proof of its
\* own; otherwise (0) everything is built.
PlanPush(r) ==
    /\ builds[r].kind = "push" /\ builds[r].state = "queued"
    /\ \E compare \in {0} \cup
            (IF Proven("push", builds[r].before) THEN {builds[r].before} ELSE {}) :
         Set(r, [builds[r] EXCEPT !.compare = compare, !.state = "planned"])
    /\ UNCHANGED <<commits, target, branch, opened>>

Selected(r) ==
    IF builds[r].compare = 0 THEN Image ELSE Affected(TreeOf(builds[r].compare), builds[r].tree)

Verified(r, selected) ==
    /\ Lineage(builds[r].tree)
    /\ \A i \in Outputs(selected) : Matches(builds[r].tree, i)

\* verifyStable, at the end of the job: neither the target's tip nor the pull
\* request's head has moved.
Stable(r) == builds[r].kind = "pull" => target = builds[r].base /\ branch = builds[r].head

\* What the classifier cannot decide (IMAGE_IMPACT_UNKNOWN) selects every image.
\* A run that a newer head cancels, or that times out, is one that never concludes.
Conclude(r) ==
    /\ builds[r].state = "planned"
    /\ \E selected \in {Selected(r), Image} : Set(r, [builds[r] EXCEPT !.state =
                 IF Verified(r, selected) /\ Stable(r) THEN "success" ELSE "failure"])
    /\ UNCHANGED <<commits, target, branch, opened>>

Next ==
    \/ Open \/ Synchronize \/ Update \/ Advance \/ LandPull
    \/ \E r \in 1 .. Len(builds) : PlanPull(r) \/ PlanPush(r) \/ Conclude(r)

Spec == Init /\ [][Next]_vars

(***************************************************************************)
(* Properties.                                                               *)
(***************************************************************************)

\* Typing; and no run's comparison starts at the very commit it is to prove,
\* which would excuse every image (the plan's "full" and "incremental" origins).
ImageTypeOK ==
    /\ Len(commits) <= MaxCommits /\ Len(builds) <= MaxBuilds
    /\ \A c \in Commit : commits[c].anc \subseteq 1 .. c /\ c \in commits[c].anc
    /\ target \in Commit /\ branch \in Commit /\ opened \in BOOLEAN
    /\ \A r \in 1 .. Len(builds) :
         /\ builds[r].kind \in {"pull", "push"}
         /\ {builds[r].before, builds[r].base, builds[r].compare} \subseteq 0 .. Len(commits)
         /\ builds[r].head \in Commit /\ builds[r].compare # builds[r].head
         /\ builds[r].state \in {"queued", "planned", "success", "failure"}

\* A green run is a sound proof.  A commit of the target branch whose run is
\* green records, for every image, the digest a rebuild produces, although that
\* run built only the affected ones (images.yml, "prior verified default-branch
\* commit").  A green pull request run stands for the whole comparison with the
\* live base: every image the composed tree changes against that base matches
\* its lock, also when only what the last push changed was looked at
\* (planPullRequest: "cannot miss anything the advanced base introduced").
ProofsAreSound ==
    \A r \in 1 .. Len(builds) :
        builds[r].state = "success" =>
            \/ builds[r].kind = "push" /\ \A i \in Image : Matches(TreeOf(builds[r].head), i)
            \/ /\ builds[r].kind = "pull"
               /\ \A i \in Affected(TreeOf(builds[r].base), builds[r].tree) : Matches(builds[r].tree, i)
=============================================================================
