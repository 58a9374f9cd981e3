--------------------------- MODULE ReviewBoundary ---------------------------
(* The review boundary of a pull request: the workflow that reads the pull  *)
(* request and the default branch, has the review gate verify the head      *)
(* against the base, and reads both again                                   *)
(* (.github/workflows/review-boundary.yml, scripts/openspec-review-gate.mjs *)
(* and openspec-review-pins.mjs), over the history of ReviewHistory.  The   *)
(* gate looks at one revision; that its rounds are real reviews is what the *)
(* check of two revisions adds.                                             *)
EXTENDS ReviewHistory

VARIABLES
  stage,    \* how far the boundary run is
  base,     \* the default branch's tip the run was dispatched at
  cand,     \* the head it read
  together  \* whether both were current at one moment since the gate took them

vars == <<history, stage, base, cand, together>>

Stage == {"none", "read", "verified", "reread", "established"}

-----------------------------------------------------------------------------
(* The gate.                                                                *)

\* The round's name and its record cite one commit, and it exists: the
\* workflow fetches it before the gate runs, or refuses.
CitesCommit(r) == r.doc.reviewed = r.pin /\ r.pin \in Made

\* Mutant of Admissible: a round counts by its name alone.
AdmissibleByName(r) == r.epoch \in Epoch

\* A round is an accepted review that agrees with its name.
Admissible(r) == Accepting(r.doc) /\ r.doc.epoch = r.epoch /\ CitesCommit(r)

\* The rounds admitted are those of the epochs before, each once.
EpochsBefore(t, n) ==
  /\ \A r \in Live(t) : Admissible(r)
  /\ {r.epoch : r \in Live(t)} = 1 .. n - 1
  /\ Cardinality(Live(t)) = n - 1

\* The planning bytes are those of the manifest, which was made at c.
ManifestHolds(t, c) == t.plan = TreeOf(c).plan

\* Nothing but the review and its rounds changed since commit c, which h
\* descends from.  The names are those of a diff that lists a renamed file by
\* its new name: one that went is not seen if it may have become the review
\* or a round.
OnlyReviewsSince(c, h) ==
  LET t == TreeOf(h)  u == TreeOf(c)
      archived(v) == v.rounds \ Live(v)
      lost == (u.files \ t.files) \cup (archived(u) \ archived(t))
      came == {r \in Live(t) : ~HasPath(u, r)}
              \cup IF u.review = None THEN {t.review} ELSE {}
  IN /\ c \in Past(h)
     /\ t.plan = u.plan /\ t.code = u.code /\ t.open = u.open
     /\ t.files \subseteq u.files /\ archived(t) \subseteq archived(u)
     /\ ExistsInjection(lost, came)

\* The review was made against the base, and the head contains it.
MadeAgainst(d, b, h) == d.base = b /\ b \in Past(h)

\* The review at h accepts the planning bytes at h, against the base b.
Verified(h, b) ==
  LET t == TreeOf(h)  d == t.review
  IN /\ t.open /\ d /= None
     /\ Accepting(d)
     /\ ManifestHolds(t, d.reviewed)
     /\ OnlyReviewsSince(d.reviewed, h)
     /\ TreeOf(d.reviewed).review /= d
     /\ EpochsBefore(t, d.epoch)
     /\ MadeAgainst(d, b, h)

-----------------------------------------------------------------------------
(* The workflow.                                                            *)

\* The run starts at the default branch's tip and reads the pull request.
\* What the gate judges are commits, so when it does is of no account; a run
\* it refuses leaves nothing and is left out.
Dispatch ==
  /\ stage = "none"
  /\ Verified(head, Tip)
  /\ stage' = "read"
  /\ base' = Tip
  /\ cand' = head
  /\ together' = FALSE
  /\ UNCHANGED history

\* The run goes on to its next step if what it finds is right; otherwise it
\* is refused, and another one may be dispatched.
Goes(to, ok, seen) ==
  /\ IF ok THEN stage' = to /\ together' = seen /\ UNCHANGED <<base, cand>>
     ELSE stage' = "none" /\ together' = FALSE /\ base' = 1 /\ cand' = 1
  /\ UNCHANGED history

\* The default branch is read; it must be where it was at the dispatch.
ReadBranch == stage = "read" /\ Goes("verified", Tip = base, head = cand)

\* Mutant of RereadPull: what was read at first is kept.
KeepPull == stage = "verified" /\ Goes("reread", TRUE, together)

\* The pull request is read again.
RereadPull == stage = "verified" /\ Goes("reread", head = cand, together)

\* The default branch is read again, and the boundary stands.
RereadBranch == stage = "reread" /\ Goes("established", Tip = base, together)

\* The repository moves, also while the run is under way.
Moves ==
  /\ stage /= "established"
  /\ HistoryNext
  /\ together' =
       \/ together
       \/ /\ stage \in {"verified", "reread"}
          /\ head' = cand /\ main'[Len(main')] = base
  /\ UNCHANGED <<stage, base, cand>>

Init ==
  /\ HistoryInit
  /\ stage = "none"
  /\ base = 1 /\ cand = 1
  /\ together = FALSE

Next == Dispatch \/ ReadBranch \/ RereadPull \/ RereadBranch \/ Moves

Spec == Init /\ [][Next]_vars

-----------------------------------------------------------------------------
(* Properties.                                                              *)

TypeOK ==
  /\ HistoryOK
  /\ stage \in Stage
  /\ base \in Made /\ cand \in Made
  /\ together \in BOOLEAN

\* A boundary stands for a head and a base that were the pull request's head
\* and the default branch's tip at one and the same moment, after the gate
\* took them up (the workflow's second reading of both).
EstablishedTogether == stage = "established" => together

\* The gate counts rounds of one revision (assertEpochSequence).  Where the
\* check of two revisions passed on the default branch and on the pull
\* request, the epochs before the established one were each an accepted
\* current review, or came as a file of that text in the place of another.
EpochsWereReviewed ==
  \A i \in DOMAIN main :
    stage = "established" /\ main[i] = base /\ Green(i) /\ Passes(base, cand) =>
      \A n \in 1 .. TreeOf(cand).review.epoch - 1 :
        \E d \in {TreeOf(p).review : p \in Past(cand)} \cup Renamed(base, cand)
                 \cup UNION {Renamed(main[k - 1], main[k]) : k \in 2 .. i} :
          d /= None /\ d.accepted /\ d.epoch = n

=============================================================================
