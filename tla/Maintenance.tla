----------------------------- MODULE Maintenance -----------------------------
(* Tool maintenance: an owner dispatches a run that judges the head of a    *)
(* pull request, the candidate, by the code and the policy of the default   *)
(* branch's tip, its predecessor; the candidate's tools are run as a        *)
(* subject, and what was shown becomes evidence the owner may merge on      *)
(* (.github/workflows/toolchain-maintenance-boundary.yml and                *)
(* scripts/check-toolchain-boundaries.mjs, build-maintenance-plan.mjs,      *)
(* materialize-candidate.mjs and run-subject-launcher.mjs).  The default    *)
(* branch is not protected: it, the head and the run move independently.    *)
EXTENDS Integers, FiniteSets, Sequences

CONSTANTS
  Tool,        \* tools that are pinned
  Class,       \* names of maintenance classes
  Policies,    \* boundary policies somebody may write
  Nobody,      \* no evidence, no run
  MaxMain,     \* bound on the tips of the default branch
  MaxPushes,   \* bound on pushes to the pull request
  MaxRuns      \* bound on runs

(* A command names a tool of its pack and says what it must come to.        *)
Command == Tool \X {"success", "rejection"}

(* A policy gives each class the tools whose pins may move, whether mapping *)
(* detail and generated configs may, which of the files that hold pins it   *)
(* protects but for its tools, the classes it is composed of, and its pack. *)
Row == [moves : SUBSET Tool, detail : BOOLEAN, guards : SUBSET {"pins", "lock"},
        of : SUBSET Class, runs : SUBSET Command]

ASSUME MaintenanceAssumption ==
  /\ Policies \subseteq [Class -> Row]
  /\ "lib" \notin Tool
  /\ MaxMain \in Nat \ {0} /\ MaxPushes \in Nat /\ MaxRuns \in Nat

Version == 1 .. 2
Text == 1 .. 2
Lib == "lib"   \* a package that tools depend on

(* What is resolved for a tool: its version, the version of the library it  *)
(* depends on, if it does, and the record that says which bytes these are.  *)
Resolved == [ver : Version, lib : 0 .. 2, bytes : Text]

(* A tree: whether the boundary's program is there; the policy, the pins    *)
(* and the other settings beside them, the lockfile; which policies the     *)
(* engine mappings cover, and their detail with the generated configs; the  *)
(* rest of the protected floor; a generated config that may be absent (0)   *)
(* and a file that no class names, which may be too; what comparing texts   *)
(* by their names never sees, such as a file's mode or a file whose name    *)
(* git quotes; and whether every entry is a regular file.                   *)
Tree == [verifier : BOOLEAN, policy : Policies,
         pins : [Tool -> Version], settings : Text, lock : [Tool -> Resolved],
         coverage : Text, detail : Text, floor : Text, made : 0 .. 2, other : 0 .. 2,
         unseen : Text, inert : BOOLEAN]

VARIABLES
    main,       \* the default branch's tips: [tree, by], and on what evidence
    head,       \* the candidate's branch: the tip it started from, and its tree
    open,       \* whether the pull request is open
    pushes,     \* pushes so far
    job,        \* the run under way
    runs,       \* runs so far
    evidence    \* what the runs left

maintenance == <<main, head, open, pushes, job, runs, evidence>>

Tip == Len(main)
TreeAt(i) == main[i].tree

Stages == {"queued", "pinned", "read", "classified", "installed", "ran", "judged", "reread"}

-----------------------------------------------------------------------------
(* The lockfile.                                                            *)

\* The resolved keys a tool accounts for, and what each depends on.
KeysOf(lock, t) ==
  {<<t, lock[t].ver>>} \cup IF lock[t].lib = 0 THEN {} ELSE {<<Lib, lock[t].lib>>}

Keys(lock) == UNION {KeysOf(lock, t) : t \in Tool}

Edges(lock, t) == KeysOf(lock, t) \ {<<t, lock[t].ver>>}

\* Everything that is reached from the roots.
Closure(lock, roots) == UNION {KeysOf(lock, t) : t \in roots}

\* The graph: each tool's key with its edges; the library has none.
Graph(lock) ==
  {<<<<t, lock[t].ver>>, Edges(lock, t)>> : t \in Tool}
  \cup {<<k, {}>> : k \in {q \in Keys(lock) : q[1] = Lib}}

\* The records of packages that the closure does not reach.
RecordsOutside(lock, roots) ==
  {<<t, lock[t]>> : t \in {s \in Tool : <<s, lock[s].ver>> \notin Closure(lock, roots)}}
  \cup {k \in Keys(lock) : k[1] = Lib /\ k \notin Closure(lock, roots)}

-----------------------------------------------------------------------------
(* The classifier, of predecessor p and candidate c, both trees.            *)

PinsExcept(t, roots) == [s \in Tool \ roots |-> t.pins[s]]

\* The comparison of the revisions detects renames and names the new path: a
\* file that went while a like one was added is not among what changed.
RenamedAway(p, c) == p.other /= 0 /\ c.other = 0 /\ p.made = 0 /\ c.made /= 0

\* What differs between the two, of what is compared: the paths that the
\* comparison names, and those that the policy does.
Changed(p, c) ==
  {f \in DOMAIN p \ {"inert", "unseen"} : p[f] /= c[f]}
  \ (IF RenamedAway(p, c) THEN {"other"} ELSE {})

\* What shares a file with something the class allows to move.
Allowed(row) ==
  (IF row.moves = {} THEN {} ELSE {"pins", "settings", "lock"})
  \cup (IF row.detail THEN {"coverage", "detail", "made"} ELSE {})

Declared(p, c, row) == Changed(p, c) \subseteq Allowed(row)

\* What moved in the resolved graph is in the closure of the roots.
MovesInClosure(p, c, row) ==
  LET reach == Closure(p.lock, row.moves) \cup Closure(c.lock, row.moves)
      moved == {e \in Graph(p.lock) \cup Graph(c.lock) :
                  e \notin Graph(p.lock) \/ e \notin Graph(c.lock)}
  IN \A e \in moved : e[1] \in reach

\* Mutant of ProtectedHolds: of the lockfile only the edges are compared.
ProtectsNoRecords(p, c, row) ==
  /\ \A f \in {"verifier", "policy", "coverage", "floor"} : p[f] = c[f]
  /\ "pins" \in row.guards =>
       p.settings = c.settings /\ PinsExcept(p, row.moves) = PinsExcept(c, row.moves)

\* The protected projections are the same: the floor's, and the class's own.
ProtectedHolds(p, c, row) ==
  /\ \A f \in {"verifier", "policy", "coverage", "floor"} : p[f] = c[f]
  /\ "pins" \in row.guards =>
       p.settings = c.settings /\ PinsExcept(p, row.moves) = PinsExcept(c, row.moves)
  /\ "lock" \in row.guards =>
       RecordsOutside(p.lock, row.moves) = RecordsOutside(c.lock, row.moves)

\* classifyMaintenance: the predecessor holds the program that judges, and
\* its policy says what the class admits.
Classifies(p, c, class) ==
  LET row == p.policy[class]
  IN /\ p.verifier
     /\ Declared(p, c, row)
     /\ MovesInClosure(p, c, row)
     /\ ProtectedHolds(p, c, row)

\* A composite keeps what its parts protect.
PartsKept(policy, k) == \A j \in policy[k].of : policy[j].guards \subseteq policy[k].guards

\* Mutant of PolicyHolds: the pack need not name what its class may move.
PolicyHasPacks(policy) == \A k \in Class : policy[k].runs /= {} /\ PartsKept(policy, k)

\* checkBoundaryPolicy: every class has a pack that names what it may move.
PolicyHolds(policy) ==
  \A k \in Class :
    /\ policy[k].runs /= {}
    /\ policy[k].moves \subseteq {cmd[1] : cmd \in policy[k].runs}
    /\ PartsKept(policy, k)

-----------------------------------------------------------------------------
(* The subject.                                                             *)

\* The plan is the pack of the class in the predecessor's policy.
Commands(p, class) == p.policy[class].runs

\* Exit statuses; 1 stands for any but 0, and for the launcher's 124 for a
\* command that hangs and is killed.
Exit == {0, 1}

\* What the commands may come to.
Outcomes(p, class) == [Commands(p, class) -> Exit]

\* The inputs that are the predecessor's are the candidate's too.
InputsHold(p, c) == c.floor = p.floor

\* The installed package is the one the plan names.
Identified(c, cmd) == c.lock[cmd[1]].ver = c.pins[cmd[1]]

AsExpected(cmd, exit) ==
  IF cmd[2] = "success" THEN exit = 0 ELSE exit /= 0

\* The envelope holds what the plan asked for, on the bytes it named.
EnvelopeHolds(p, c, class, results) ==
  /\ DOMAIN results = Commands(p, class)
  /\ InputsHold(p, c)
  /\ \A cmd \in DOMAIN results : AsExpected(cmd, results[cmd])

-----------------------------------------------------------------------------
(* A run.                                                                   *)

Candidate == job.cand.tree
Predecessor == TreeAt(job.pred)

\* The run and the candidate it is about were both current at one moment.
Together(j) == j.stage \notin {"queued", "pinned"} /\ j.cand = head' /\ j.pred = Len(main')

\* The run moves on, or is refused and leaves nothing.
Proceeds(ok, next) ==
  /\ job' = IF ok THEN next ELSE Nobody
  /\ UNCHANGED <<main, head, open, pushes, runs, evidence>>

At(stage) == job /= Nobody /\ job.stage = stage

\* The owner names a pull request; the definition that runs is that of the
\* default branch's tip.
Dispatched(class) ==
  /\ job = Nobody /\ runs < MaxRuns /\ pushes > 0
  /\ runs' = runs + 1
  /\ job' = [stage |-> "queued", class |-> class, sha |-> Tip, pred |-> Tip,
             cand |-> Nobody, results |-> <<>>, met |-> FALSE]
  /\ UNCHANGED <<main, head, open, pushes, evidence>>

\* The default branch is read.
PinPredecessor ==
  /\ At("queued")
  /\ Proceeds(TRUE, [job EXCEPT !.stage = "pinned", !.pred = Tip])

\* The pull request is read; the run must be the predecessor's.
ReadCandidate ==
  /\ At("pinned")
  /\ Proceeds(open /\ job.sha = job.pred,
              [job EXCEPT !.stage = "read", !.cand = head, !.met = job.pred = Tip])

\* Every entry of the tree is written out as a plain file, or none is.
Materializes(c) == c.inert

\* The candidate is made inert data, then classified.
Classify ==
  /\ At("read")
  /\ Proceeds(Materializes(Candidate) /\ Classifies(Predecessor, Candidate, job.class),
              [job EXCEPT !.stage = "classified"])

\* A frozen lockfile that does not resolve the pins is refused.
Install ==
  /\ At("classified")
  /\ Proceeds(\A t \in Tool : Candidate.lock[t].ver = Candidate.pins[t],
              [job EXCEPT !.stage = "installed"])

\* The launcher runs every command of the plan beneath itself; its envelope
\* is looked at by the verdict, and no other is kept here.
RunSubject ==
  /\ At("installed")
  /\ \E results \in Outcomes(Predecessor, job.class) :
       Proceeds(/\ \A cmd \in DOMAIN results : Identified(Candidate, cmd)
                /\ EnvelopeHolds(Predecessor, Candidate, job.class, results),
                [job EXCEPT !.stage = "ran", !.results = results])

\* The legs of the platform workflow's newest run for the candidate.
Legs == [{"x64", "arm64"} -> {"success", "failure", "skipped"}]

\* A leg that failed or was skipped is no proof.
PlatformProved(legs) == \A arch \in DOMAIN legs : legs[arch] = "success"

\* The verdict, from the predecessor's bytes: the class again, and a native
\* platform proof.
Verdict ==
  /\ At("ran")
  /\ \E legs \in Legs :
       Proceeds(Classifies(Predecessor, Candidate, job.class) /\ PlatformProved(legs),
                [job EXCEPT !.stage = "judged"])

\* Mutant of SameIdentity: only the candidate is compared.
SameCandidate(start, end) == start[1] = end[1]

SameIdentity(start, end) == start = end

\* Both are read again, the head first.
RereadHead ==
  /\ At("judged")
  /\ Proceeds(SameIdentity(<<job.cand, job.pred>>, <<head, job.pred>>),
              [job EXCEPT !.stage = "reread"])

EvidenceOf(j) == [cand |-> j.cand, pred |-> j.pred, class |-> j.class,
                  results |-> j.results, met |-> j.met]

RereadMain ==
  /\ At("reread")
  /\ evidence' = IF SameIdentity(<<job.cand, job.pred>>, <<job.cand, Tip>>)
                   THEN evidence \cup {EvidenceOf(job)} ELSE evidence
  /\ job' = Nobody
  /\ UNCHANGED <<main, head, open, pushes, runs>>

RunNext ==
  \/ \E class \in Class : Dispatched(class)
  \/ PinPredecessor \/ ReadCandidate \/ Classify \/ Install \/ RunSubject
  \/ Verdict \/ RereadHead \/ RereadMain

-----------------------------------------------------------------------------
(* The repository.                                                          *)

\* Pins of some tools, with what is resolved for them, go up or down.
Bumped(t, moved) ==
  LET Other(r) == [r EXCEPT !.ver = 3 - @]
  IN [t EXCEPT !.pins = [s \in Tool |-> IF s \in moved THEN 3 - @[s] ELSE @[s]],
               !.lock = [s \in Tool |-> IF s \in moved THEN Other(@[s]) ELSE @[s]]]

\* Tool changes, and those of a single tool.
Bumps(t) == {Bumped(t, moved) : moved \in SUBSET Tool}
OneBumped(t) == {Bumped(t, {s}) : s \in Tool}

\* What a reviewed change lands, one thing at a time.
Landings(t) ==
  {[t EXCEPT !.verifier = ~@], [t EXCEPT !.floor = 3 - @]}
  \cup {[t EXCEPT !.policy = p] : p \in Policies}
  \cup OneBumped(t)

\* One more thing that a candidate may touch, whatever it was meant to be.
Drifts(t) ==
  {[t EXCEPT !.verifier = ~@], [t EXCEPT !.settings = 3 - @],
   [t EXCEPT !.coverage = 3 - @], [t EXCEPT !.detail = 3 - @],
   [t EXCEPT !.floor = 3 - @], [t EXCEPT !.unseen = 3 - @], [t EXCEPT !.inert = ~@]}
  \cup {[t EXCEPT !.policy = p] : p \in Policies}
  \cup (UNION {{[t EXCEPT !.other = o], [t EXCEPT !.made = 1],
                [t EXCEPT !.other = o, !.made = 1]} : o \in 0 .. 2})
  \cup UNION {{[t EXCEPT !.lock[s].bytes = 3 - @], [t EXCEPT !.lock[s].ver = 3 - @]}
              \cup {[t EXCEPT !.lock[s].lib = v] : v \in 0 .. 2} : s \in Tool}

\* The first push starts from any tip there has been and may hold anything;
\* the later ones, of interest once a run has read the head, move one tool.
Pushed ==
  IF pushes = 0
    THEN UNION {[base : {i}, tree : UNION {Drifts(t) : t \in Bumps(TreeAt(i))}] : i \in 1 .. Tip}
    ELSE [base : {head.base}, tree : OneBumped(TreeAt(head.base))]

\* A field of the merge: the side that changed it.
Side(b, o, h) == IF h = b THEN o ELSE h

\* What merging the head, which started from b, into o gives.
Merge(b, o, h) ==
  [f \in DOMAIN b |->
     CASE f \in {"pins", "lock"} -> [t \in Tool |-> Side(b[f][t], o[f][t], h[f][t])]
       [] OTHER -> Side(b[f], o[f], h[f])]

MergeTree == Merge(TreeAt(head.base), TreeAt(Tip), head.tree)

Moves == job' = IF job = Nobody THEN Nobody ELSE [job EXCEPT !.met = @ \/ Together(job)]

Land(tree, by) ==
  /\ Tip < MaxMain
  /\ main' = Append(main, [tree |-> tree, by |-> by])

\* A change lands in the reviewed way, under the aggregate check and the
\* frozen install.
Reviewed(tree) ==
  /\ tree /= TreeAt(Tip)
  /\ PolicyHolds(tree.policy)
  /\ \A t \in Tool : tree.lock[t].ver = tree.pins[t]
  /\ Land(tree, Nobody)
  /\ UNCHANGED <<head, open, pushes, runs, evidence>>
  /\ Moves

\* The branch is pushed, also by force.
Push ==
  /\ pushes < MaxPushes /\ (pushes > 0 => job /= Nobody /\ job.cand /= Nobody)
  /\ head' \in Pushed
  /\ pushes' = pushes + 1 /\ open' = TRUE
  /\ UNCHANGED <<main, runs, evidence>>
  /\ Moves

\* The owner merges on evidence: head, tip and the tree that is merged are
\* those of the run.
MergeMaintained ==
  /\ open
  /\ \E e \in evidence :
       /\ e.cand = head /\ e.pred = Tip
       /\ MergeTree = head.tree
       /\ Land(MergeTree, e)
  /\ open' = FALSE
  /\ UNCHANGED <<head, pushes, runs, evidence>>
  /\ Moves

RepositoryNext == Push \/ MergeMaintained \/ \E t \in Landings(TreeAt(Tip)) : Reviewed(t)

MaintenanceInit ==
  /\ \E p \in Policies :
       LET tree == [verifier |-> TRUE, policy |-> p, pins |-> [t \in Tool |-> 1],
                    settings |-> 1, coverage |-> 1, detail |-> 1, floor |-> 1,
                    made |-> 0, other |-> 1, unseen |-> 1, inert |-> TRUE,
                    lock |-> [t \in Tool |-> [ver |-> 1, lib |-> 1, bytes |-> 1]]]
       IN /\ PolicyHolds(p)
          /\ main = <<[tree |-> tree, by |-> Nobody]>>
          /\ head = [base |-> 1, tree |-> tree]
  /\ open = FALSE /\ pushes = 0 /\ runs = 0
  /\ job = Nobody /\ evidence = {}

MaintenanceNext == RunNext \/ RepositoryNext

MaintenanceSpec == MaintenanceInit /\ [][MaintenanceNext]_maintenance

-----------------------------------------------------------------------------
(* Properties.                                                              *)

TypeOK ==
  /\ \A i \in 1 .. Tip : main[i].tree \in Tree
  /\ head.base \in 1 .. Tip /\ head.tree \in Tree
  /\ open \in BOOLEAN /\ pushes \in 0 .. MaxPushes /\ runs \in 0 .. MaxRuns
  /\ job /= Nobody => job.stage \in Stages /\ job.pred \in 1 .. Tip /\ job.class \in Class

\* What evidence names was the pull request's head and the default branch's
\* tip at one and the same moment, after the run had read both (the second
\* reading: "either identity moving means what was proved is not what would
\* merge").
EvidenceMet == \A e \in evidence : e.met

Maintained == {i \in 2 .. Tip : main[i].by /= Nobody}

\* What the class protects, or a class that it is composed of.
Guarded(policy, k) == UNION {policy[j].guards : j \in {k} \cup policy[k].of}

\* What class k of p's policy leaves alone between two trees.
LeftAlone(p, c, k) ==
  LET row == p.policy[k]  guards == Guarded(p.policy, k)
  IN /\ \A f \in {"verifier", "policy", "coverage", "floor"} : p[f] = c[f]
     /\ p.other = c.other \/ (row.detail /\ RenamedAway(p, c))
     /\ row.detail \/ (p.detail = c.detail /\ p.made = c.made)
     /\ row.moves = {} => \A f \in {"pins", "settings", "lock"} : p[f] = c[f]
     /\ "pins" \in guards =>
          p.settings = c.settings /\ \A t \in Tool \ row.moves : p.pins[t] = c.pins[t]
     /\ "lock" \in guards => \A t \in Tool \ row.moves : p.lock[t] = c.lock[t]

\* A merge on evidence moves only what a class of the policy then in force
\* admits, whatever the candidate's own policy says: no protected authority,
\* no pin and no resolution of another tool where the class or one it is
\* composed of protects them, and of the rest nothing but a file whose loss
\* the comparison took for a rename to one that the class may add.
MaintenanceMovesOnlyTools ==
  \A i \in Maintained : LeftAlone(TreeAt(i - 1), TreeAt(i), main[i].by.class)

\* A tool that its class may move, and whose pin a merge on evidence moved, is
\* one that the pack in force names; every command of that pack came out as
\* that policy expects, over the very tree that was merged, with the pinned
\* version of every tool resolved.  (That a command names a tool is all the
\* policy says of it: what it executes is not looked at.)
MovedToolsWereJudged ==
  \A i \in Maintained :
    LET p == TreeAt(i - 1)  c == TreeAt(i)  e == main[i].by
    IN \A t \in p.policy[e.class].moves : p.pins[t] /= c.pins[t] =>
         /\ \E cmd \in DOMAIN e.results : cmd[1] = t
         /\ DOMAIN e.results = p.policy[e.class].runs
         /\ \A cmd \in DOMAIN e.results : cmd[2] = "success" <=> e.results[cmd] = 0
         /\ e.cand.tree = c /\ \A s \in Tool : c.lock[s].ver = c.pins[s]

=============================================================================
