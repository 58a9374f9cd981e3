--------------------------- MODULE ReviewHistory ---------------------------
(* The reviews of one OpenSpec change in the history of the repository, and *)
(* the check that compares two revisions of it                              *)
(* (scripts/check-openspec-review-history.mjs).  The change has planning    *)
(* artifacts, one current review, and the rounds that were archived from    *)
(* it.  Commits are made on the default branch and on the branch of a pull  *)
(* request, by people who may do anything to these files; what is checked   *)
(* is every push to the default branch, against the tip before it.          *)
EXTENDS Integers, FiniteSets, Sequences, Functions

CONSTANTS
  None,        \* no current review
  File,        \* files of the repository that are no round and no review
  MaxEpoch,    \* review epochs are 1..MaxEpoch
  MaxCommits   \* commits made, the first one included

ASSUME ReviewAssumption ==
  /\ MaxEpoch \in Nat \ {0}
  /\ MaxCommits \in Nat \ {0}

VARIABLES
  commits,  \* every commit made: its tree, its parents, what it descends from
  main,     \* the tips the default branch has had, in their order
  head      \* the tip of the pull request's branch

history == <<commits, main, head>>

Epoch == 1 .. MaxEpoch
Commit == 1 .. MaxCommits
Made == DOMAIN commits
Tip == main[Len(main)]

(* A review record: which commit it is about, the base it was made against  *)
(* and the epoch.  "accepted" stands for everything the contract and the    *)
(* body of an accepting review require.                                     *)
Doc == [epoch : Epoch, reviewed : Commit, base : Commit, accepted : BOOLEAN]

ASSUME NoReview == None \notin Doc

Accepting(doc) == doc.accepted

(* A round is a file <epoch>-<pin>.md below reviews/, of the live change or *)
(* of its archive.                                                          *)
Round == [epoch : Epoch, pin : Commit, doc : Doc, home : {"live", "archive"}]

Path(r) == <<r.epoch, r.pin, r.home>>
Live(t) == {r \in t.rounds : r.home = "live"}

(* A tree: the planning bytes, everything else, whether the change's own    *)
(* files are in its live directory, the current review, the rounds, and     *)
(* which of the other files there are.                                      *)
Tree == [plan : 0 .. 1, code : 0 .. 1, open : BOOLEAN,
         review : Doc \cup {None}, rounds : SUBSET Round, files : SUBSET File]

TreeOf(c) == commits[c].tree
Past(c) == commits[c].past

-----------------------------------------------------------------------------
(* The check of the window before..after.                                   *)

HasPath(t, r) == \E q \in t.rounds : Path(q) = Path(r)
Added(b, h) == {r \in TreeOf(h).rounds : ~HasPath(TreeOf(b), r)}

\* The round in its other directory.
Moved(r, home) == [epoch |-> r.epoch, pin |-> r.pin, doc |-> r.doc, home |-> home]

\* The change left its live directory between the two revisions.
WholeChangeArchived(b, h) ==
  /\ TreeOf(b).open \/ Live(TreeOf(b)) /= {}
  /\ ~TreeOf(h).open /\ Live(TreeOf(h)) = {}

\* A round that left the live change is in the archive, under its name and
\* with its bytes, and the whole change left with it.
ArchiveMove(b, h, r) ==
  /\ Moved(r, "archive") \in TreeOf(h).rounds
  /\ WholeChangeArchived(b, h)

\* Mutant of Witness: the commit may carry any bytes under the path.
WitnessOfPath(c, r) ==
  \E q \in TreeOf(c).rounds :
    /\ Path(q) = Path(r)
    /\ \E p \in commits[c].parents :
         /\ ~HasPath(TreeOf(p), r)
         /\ TreeOf(p).review = q.doc

\* The commit archives the bytes of the round from the current review.
Witness(c, r) ==
  /\ r \in TreeOf(c).rounds
  /\ \E p \in commits[c].parents :
       /\ ~HasPath(TreeOf(p), r)
       /\ TreeOf(p).review = r.doc

Admitted(b, h, r) == \E c \in Past(h) \ Past(b) : Witness(c, r)

\* The files that are gone and are no round: of the repository at large, and
\* the current review's.
Gone(b, h) ==
  (TreeOf(b).files \ TreeOf(h).files)
  \cup IF TreeOf(b).review /= None /\ TreeOf(h).review = None THEN {None} ELSE {}

\* Mutant of KeepsRounds: a round that is gone is not asked for.
KeepsOnlyBytes(b, h) ==
  \A r \in Live(TreeOf(b)) : HasPath(TreeOf(h), r) => r \in TreeOf(h).rounds

\* No round of the live change was edited, renamed or removed.
KeepsRounds(b, h) ==
  \A r \in Live(TreeOf(b)) :
    \/ r \in TreeOf(h).rounds
    \/ ~HasPath(TreeOf(h), r) /\ ArchiveMove(b, h, r)

\* A round is in the archive as the change was archived with it.
ArchivedFromLive(b, h, r) ==
  /\ r.home = "archive"
  /\ Moved(r, "live") \in TreeOf(b).rounds
  /\ ArchiveMove(b, h, Moved(r, "live"))

\* The added rounds that are neither an admitted round nor an archived one.
Unproved(b, h) ==
  {r \in Added(b, h) : /\ r.home = "live" => ~Admitted(b, h, r)
                       /\ r.home = "archive" => ~ArchivedFromLive(b, h, r)}

(* Git pairs a file that came with one that went, each with another, when   *)
(* half of their text is alike, and a pair whose old name is not a round is *)
(* passed over, whatever its new name.  Which files are alike is left open: *)
(* a push that would pass for some text of them passes here.                *)
AdmitsOnlyReviews(b, h) == ExistsInjection(Unproved(b, h), Gone(b, h))

\* checkReviewHistory finds no problem.
Passes(b, h) == KeepsRounds(b, h) /\ AdmitsOnlyReviews(b, h)

\* The pushes that made the first i tips of the default branch all passed.
Green(i) == \A k \in 2 .. i : Passes(main[k - 1], main[k])

-----------------------------------------------------------------------------
(* What a commit may do to the tree of its first parent, for good or ill.   *)

\* The record of a review made at commit c: the manifest names what it is
\* made at, or the record before it is revised; the base is one that the
\* writer took the default branch to be at.  One record is not accepted.
Records(c) ==
  LET old == TreeOf(c).review
  IN [epoch : Epoch, base : {main[i] : i \in DOMAIN main}, accepted : {TRUE},
      reviewed : {c} \cup IF old = None THEN {} ELSE {old.reviewed}]
     \cup [epoch : {1}, base : {Tip}, accepted : {FALSE}, reviewed : {c}]

\* A record nobody reviewed by, as it would be forged at commit c.
Forged(c) == [epoch : Epoch, reviewed : {c}, base : {Tip}, accepted : {TRUE}]

RoundOf(epoch, doc, home) ==
  [epoch |-> epoch, pin |-> doc.reviewed, doc |-> doc, home |-> home]

Put(t, rounds) == [t EXCEPT !.rounds = rounds]

\* The rounds are written, over what their files held.
Written(t, rs) == {q \in t.rounds : \A r \in rs : Path(q) /= Path(r)} \cup rs

Plans(t) == {[t EXCEPT !.plan = 1 - @]}
Codes(t) == {[t EXCEPT !.code = 1 - @]}
Reviews(c, t) == {[t EXCEPT !.review = d] : d \in Records(c)}

\* A round is added: the current review, or bytes of the writer's own, of which
\* one may be added to the archive.
RoundsAdded(c, t) ==
  LET live == {RoundOf(e, d, "live") : e \in Epoch, d \in Forged(c) \cup ({t.review} \ {None})}
      old == {RoundOf(d.epoch, d, "archive") : d \in Forged(c)}
  IN {Put(t, t.rounds \cup {r}) : r \in {q \in live \cup old : ~HasPath(t, q)}}

RoundsEdited(c, t) ==
  {Put(t, Written(t, {[r EXCEPT !.doc = d]})) : r \in t.rounds, d \in Forged(c)}

RoundsDropped(t) == {Put(t, t.rounds \ {r}) : r \in Live(t)}

\* A round is copied or moved into the archive on its own.
RoundsSlipped(t) ==
  {Put(t, Written(t, {Moved(r, "archive")}) \ s) : r \in Live(t), s \in {{}, Live(t)}}

\* Files go, or the current review's does, perhaps as a round is added.
FilesRemoved(c, t) ==
  UNION {{[u EXCEPT !.review = None]} \cup {[u EXCEPT !.files = s] : s \in SUBSET t.files} :
           u \in {t} \cup RoundsAdded(c, t)} \ {t}

\* The change leaves its directory for the archive, with all that is in it;
\* files go, of those that have no like there.
Archived(t) ==
  {[t EXCEPT !.open = FALSE, !.review = None, !.files = s,
             !.rounds = Written(t, {Moved(r, "archive") : r \in Live(t)}) \ Live(t)] :
     s \in SUBSET t.files}

Edits(c) ==
  LET t == TreeOf(c)
  IN Codes(t) \cup RoundsEdited(c, t) \cup
       IF ~t.open THEN {}
         ELSE Plans(t) \cup Reviews(c, t) \cup FilesRemoved(c, t)
              \cup RoundsDropped(t) \cup RoundsSlipped(t) \cup Archived(t)

\* What a merge of commit d into commit c may come to: either side's planning
\* bytes, code and review, the rounds of one side or of both, some of the
\* files; and the archive where one side has archived the change.
Merges(c, d) ==
  LET t == TreeOf(c)  u == TreeOf(d)
      shut == {s \in {t, u} : ~s.open}
      both == IF \A r \in u.rounds : r \in t.rounds \/ ~HasPath(t, r)
                THEN {t.rounds \cup u.rounds} ELSE {}
      merged == [plan : {t.plan, u.plan}, code : {t.code, u.code}, open : {TRUE},
                 review : {t.review, u.review}, rounds : {t.rounds, u.rounds} \cup both,
                 files : SUBSET (t.files \cup u.files)]
  IN IF shut = {} THEN merged ELSE shut

AddCommit(tree, parents) ==
  commits' = Append(commits,
    [tree |-> tree, parents |-> parents,
     past |-> {Len(commits) + 1} \cup UNION {Past(p) : p \in parents}])

MayCommit == Len(commits) < MaxCommits
Fresh == Len(commits) + 1

\* A commit is pushed to the pull request's branch.
Work ==
  /\ MayCommit
  /\ \E t \in Edits(head) : AddCommit(t, {head})
  /\ head' = Fresh
  /\ UNCHANGED main

\* The default branch is merged into the pull request's branch.
Update ==
  /\ MayCommit
  /\ Tip \notin Past(head)
  /\ \E t \in Merges(head, Tip) : AddCommit(t, {head, Tip})
  /\ head' = Fresh
  /\ UNCHANGED main

\* The pull request's branch is pushed with force.
Reset ==
  /\ \E c \in Made \ {head} : head' = c
  /\ UNCHANGED <<commits, main>>

\* Somebody commits to the default branch.
Push ==
  /\ MayCommit
  /\ \E t \in Edits(Tip) : AddCommit(t, {Tip})
  /\ main' = Append(main, Fresh)
  /\ UNCHANGED head

\* The pull request is delivered by a merge commit, or squashed into one.
Deliver ==
  /\ MayCommit
  /\ head \notin Past(Tip)
  /\ \E t \in Merges(Tip, head), parents \in {{Tip}, {Tip, head}} :
       AddCommit(t, parents)
  /\ main' = Append(main, Fresh)
  /\ UNCHANGED head

\* The default branch is pushed forward to the pull request's head.
Forward ==
  /\ Tip \in Past(head) \ {head}
  /\ main' = Append(main, head)
  /\ UNCHANGED <<commits, head>>

RootTree == [plan |-> 0, code |-> 0, open |-> TRUE, review |-> None, rounds |-> {},
             files |-> File]

HistoryInit ==
  /\ commits = <<[tree |-> RootTree, parents |-> {}, past |-> {1}]>>
  /\ main = <<1>>
  /\ head = 1

HistoryNext == Work \/ Update \/ Reset \/ Push \/ Deliver \/ Forward

HistoryOK ==
  /\ commits \in Seq([tree : Tree, parents : SUBSET Commit, past : SUBSET Commit])
  /\ Len(commits) \in Commit
  /\ main \in Seq(Made) /\ main /= <<>>
  /\ head \in Made

WasCurrent(doc, c) == \E p \in Past(c) : TreeOf(p).review = doc

\* The rounds that the push of the i-th tip brought.
Brought(i) == IF i > 1 THEN Added(main[i - 1], main[i]) ELSE {}

\* The rounds a window brought that were never the current review and are in
\* no live round of its base.
Authored(b, h) ==
  {r \in Added(b, h) : /\ ~WasCurrent(r.doc, h)
                       /\ r.doc \notin {q.doc : q \in Live(TreeOf(b))}}

\* The records of such rounds, where as many other files went in the window.
Renamed(b, h) ==
  IF ExistsInjection(Authored(b, h), Gone(b, h)) THEN {r.doc : r \in Authored(b, h)} ELSE {}

\* checkReviewHistory proves that a round was archived from the current review:
\* where every push passed, the rounds of the live change and those a push
\* brings, into its archive too, were each once the current review in a commit
\* the tip descends from; but for the rounds of a push in which no fewer other
\* files went than there are such rounds.  (What becomes of a round that is in
\* the archive is not checked by the code.)
RoundsWereReviews ==
  \A i \in DOMAIN main : Green(i) =>
    \A r \in Live(TreeOf(main[i])) \cup Brought(i) :
      \/ WasCurrent(r.doc, main[i])
      \/ \E k \in 2 .. i : r.doc \in Renamed(main[k - 1], main[k])

\* Rounds are append-only: one of a passed history is in every later revision,
\* with its bytes, until the change is archived, and is then in the archive
\* as that is made.  What becomes of the archive is not checked by the code.
RoundsAreKept ==
  \A i, j \in DOMAIN main : i < j /\ Green(j) =>
    \A r \in Live(TreeOf(main[i])) :
      \/ r \in TreeOf(main[j]).rounds
      \/ \E k \in i + 1 .. j : /\ ~TreeOf(main[k]).open
                               /\ Moved(r, "archive") \in TreeOf(main[k]).rounds

=============================================================================
