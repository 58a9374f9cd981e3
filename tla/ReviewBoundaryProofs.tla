------------------------ MODULE ReviewBoundaryProofs ------------------------
(* The review boundary for every history of commits and any number of       *)
(* pushes.  Commits are numbered as they are made, and a commit descends    *)
(* only from earlier ones; so the tip of the default branch never returns   *)
(* to an earlier value, which is what the workflow's second reading of the  *)
(* branch relies on.  And what a passed push adds to the rounds was a       *)
(* current review in a commit the new tip descends from, which every later  *)
(* tip then descends from too.                                              *)
EXTENDS ReviewBoundary, FiniteSetTheorems, FunctionTheorems, TLAPS

\* Commits descend from earlier ones, and the branches' tips are commits.
HistoryInv ==
  /\ \E S : commits \in Seq(S)
  /\ Len(commits) >= 1
  /\ \A c \in Made : Past(c) \subseteq 1 .. c
  /\ main \in Seq(Nat) /\ main /= <<>>
  /\ \A i \in DOMAIN main : main[i] \in Made
  /\ head \in Made

\* What the boundary run may rely on after each of its readings.
RunInv ==
  /\ stage \in Stage
  /\ base \in Made /\ cand \in Made
  /\ stage /= "none" => base <= Tip
  /\ stage = "verified" /\ Tip = base /\ head = cand => together
  /\ stage = "reread" /\ Tip = base => together
  /\ stage = "established" => together

BoundaryInv == HistoryInv /\ RunInv

-----------------------------------------------------------------------------
(* The history.                                                             *)

\* A sequence with one element more.
LEMMA Appended ==
  ASSUME NEW S, NEW s \in Seq(S), NEW e
  PROVE  /\ Append(s, e) \in Seq(S \cup {e})
         /\ Len(Append(s, e)) = Len(s) + 1
         /\ \A i \in 1 .. Len(s) : Append(s, e)[i] = s[i]
         /\ Append(s, e)[Len(s) + 1] = e
<1>1. s \in Seq(S \cup {e})
  OBVIOUS
<1>. QED
  BY <1>1

\* The numbers of the commits made.
LEMMA Numbers ==
  ASSUME HistoryInv
  PROVE  /\ Len(commits) \in Nat /\ Made = 1 .. Len(commits)
         /\ Len(main) \in Nat /\ DOMAIN main = 1 .. Len(main) /\ Len(main) >= 1
         /\ Tip \in Made
<1>1. PICK S : commits \in Seq(S)
  BY DEF HistoryInv
<1>2. main \in Seq(Nat) /\ main /= <<>>
  BY DEF HistoryInv
<1>3. Len(main) \in DOMAIN main
  BY <1>2
<1>4. Tip \in Made
  BY <1>3 DEF HistoryInv, Tip
<1>. QED
  BY <1>1, <1>2, <1>4 DEF Made

\* A commit added leaves those before it as they are, and descends from
\* itself and from earlier ones.
LEMMA CommitAdded ==
  ASSUME HistoryInv, NEW tree, NEW parents \in SUBSET Made, AddCommit(tree, parents)
  PROVE  /\ \E S : commits' \in Seq(S)
         /\ Len(commits') = Len(commits) + 1
         /\ Made' = Made \cup {Fresh}
         /\ \A c \in Made : commits'[c] = commits[c]
         /\ \A c \in Made' : Past(c)' \subseteq 1 .. c
<1> DEFINE new == [tree |-> tree, parents |-> parents,
                   past |-> {Len(commits) + 1} \cup UNION {Past(p) : p \in parents}]
<1>1. PICK S : commits \in Seq(S)
  BY DEF HistoryInv
<1>2. commits' = Append(commits, new)
  BY DEF AddCommit
<1>3. /\ commits' \in Seq(S \cup {new})
      /\ Len(commits') = Len(commits) + 1
      /\ \A i \in 1 .. Len(commits) : commits'[i] = commits[i]
      /\ commits'[Len(commits) + 1] = new
  <2>. HIDE DEF new
  <2>. QED
    BY <1>1, <1>2, Appended
<1>4. Len(commits) \in Nat /\ Made = 1 .. Len(commits)
  BY Numbers
<1>5. Made' = 1 .. Len(commits) + 1
  BY <1>3, <1>4 DEF Made
<1>6. ASSUME NEW c \in Made' PROVE Past(c)' \subseteq 1 .. c
  <2>1. CASE c \in Made
    <3>1. commits'[c] = commits[c]
      BY <2>1, <1>3, <1>4
    <3>2. Past(c)' = Past(c)
      BY <3>1 DEF Past
    <3>. QED
      BY <2>1, <3>2 DEF HistoryInv
  <2>2. CASE c \notin Made
    <3>1. c = Len(commits) + 1
      BY <2>2, <1>4, <1>5
    <3>2. Past(c)' = {c} \cup UNION {Past(p) : p \in parents}
      BY <3>1, <1>3 DEF Past
    <3>3. ASSUME NEW p \in parents PROVE Past(p) \subseteq 1 .. c
      <4>1. p \in Made /\ p <= c
        BY <1>4, <3>1
      <4>2. Past(p) \subseteq 1 .. p
        BY <4>1 DEF HistoryInv
      <4>. QED
        BY <4>1, <4>2, <3>1, <1>4
    <3>4. UNION {Past(p) : p \in parents} \subseteq 1 .. c
      BY <3>3
    <3>. QED
      BY <3>1, <3>2, <3>4, <1>4
  <2>. QED
    BY <2>1, <2>2
<1>7. Made' = Made \cup {Fresh}
  BY <1>4, <1>5 DEF Fresh
<1>8. \E T : commits' \in Seq(T)
  BY <1>3
<1>. QED
  BY <1>3, <1>4, <1>6, <1>7, <1>8

\* What a step does to the commits and to the default branch: commits stay as
\* they are, and a new tip is a greater number than the one before.
Grows ==
  /\ Made \subseteq Made'
  /\ \A c \in Made : commits'[c] = commits[c]
  /\ \/ main' = main
     \/ /\ Len(main') = Len(main) + 1
        /\ \A i \in DOMAIN main : main'[i] = main[i]
        /\ Tip' > Tip

\* A tip added to the default branch.
LEMMA TipAdded ==
  ASSUME HistoryInv, NEW c \in Nat, main' = Append(main, c)
  PROVE  /\ main' \in Seq(Nat) /\ main' /= <<>>
         /\ Len(main') = Len(main) + 1
         /\ DOMAIN main' = 1 .. Len(main) + 1
         /\ \A i \in DOMAIN main : main'[i] = main[i]
         /\ main'[Len(main) + 1] = c
         /\ Tip' = c
<1>1. main \in Seq(Nat)
  BY DEF HistoryInv
<1>2. /\ main' \in Seq(Nat \cup {c})
      /\ Len(main') = Len(main) + 1
      /\ \A i \in 1 .. Len(main) : main'[i] = main[i]
      /\ main'[Len(main) + 1] = c
  BY <1>1, Appended
<1>3. Nat \cup {c} = Nat
  OBVIOUS
<1>4. main' \in Seq(Nat) /\ Len(main) \in Nat /\ DOMAIN main = 1 .. Len(main)
  BY <1>1, <1>2, <1>3
<1>5. main' /= <<>> /\ DOMAIN main' = 1 .. Len(main) + 1
  BY <1>2, <1>4
<1>6. Tip' = c
  BY <1>2 DEF Tip
<1>. QED
  BY <1>2, <1>4, <1>5, <1>6

\* A commit on the pull request's branch.
LEMMA OnHead ==
  ASSUME HistoryInv, NEW tree, NEW parents \in SUBSET Made,
         AddCommit(tree, parents), head' = Fresh, UNCHANGED main
  PROVE  HistoryInv' /\ Grows
<1>1. /\ \E S : commits' \in Seq(S)
      /\ Len(commits') = Len(commits) + 1
      /\ Made' = Made \cup {Fresh}
      /\ \A c \in Made : commits'[c] = commits[c]
      /\ \A c \in Made' : Past(c)' \subseteq 1 .. c
  BY CommitAdded
<1>2. Len(commits) \in Nat
  BY Numbers
<1>3. Len(commits') >= 1 /\ head' \in Made'
  BY <1>1, <1>2
<1>4. main' \in Seq(Nat) /\ main' /= <<>> /\ \A i \in DOMAIN main' : main'[i] \in Made'
  BY <1>1 DEF HistoryInv
<1>. QED
  BY <1>1, <1>3, <1>4 DEF HistoryInv, Grows

\* A commit on the default branch.
LEMMA OnMain ==
  ASSUME HistoryInv, NEW tree, NEW parents \in SUBSET Made,
         AddCommit(tree, parents), main' = Append(main, Fresh), UNCHANGED head
  PROVE  HistoryInv' /\ Grows
<1>1. /\ \E S : commits' \in Seq(S)
      /\ Len(commits') = Len(commits) + 1
      /\ Made' = Made \cup {Fresh}
      /\ \A c \in Made : commits'[c] = commits[c]
      /\ \A c \in Made' : Past(c)' \subseteq 1 .. c
  BY CommitAdded
<1>2. /\ Len(commits) \in Nat /\ Made = 1 .. Len(commits)
      /\ Len(main) \in Nat /\ DOMAIN main = 1 .. Len(main)
      /\ Tip \in Made
  BY Numbers
<1>3. Fresh \in Nat /\ Fresh > Tip
  BY <1>2 DEF Fresh
<1>4. /\ main' \in Seq(Nat) /\ main' /= <<>>
      /\ Len(main') = Len(main) + 1
      /\ DOMAIN main' = 1 .. Len(main) + 1
      /\ \A i \in DOMAIN main : main'[i] = main[i]
      /\ main'[Len(main) + 1] = Fresh
      /\ Tip' = Fresh
  BY <1>3, TipAdded
<1>5. ASSUME NEW i \in DOMAIN main' PROVE main'[i] \in Made'
  <2>1. CASE i \in DOMAIN main
    BY <2>1, <1>1, <1>4 DEF HistoryInv
  <2>2. CASE i = Len(main) + 1
    BY <2>2, <1>1, <1>4
  <2>. QED
    BY <2>1, <2>2, <1>2, <1>4
<1>6. Len(commits') >= 1 /\ head' \in Made'
  BY <1>1, <1>2 DEF HistoryInv
<1>7. HistoryInv'
  BY <1>1, <1>4, <1>5, <1>6 DEF HistoryInv
<1>8. Tip' > Tip
  BY <1>3, <1>4
<1>. QED
  BY <1>1, <1>4, <1>7, <1>8 DEF Grows

\* Every step of the history keeps the numbering, and the default branch only
\* goes forward.
LEMMA HistoryStep ==
  ASSUME HistoryInv, HistoryNext
  PROVE  HistoryInv' /\ Grows
<1>1. /\ Len(commits) \in Nat /\ Made = 1 .. Len(commits)
      /\ Len(main) \in Nat /\ DOMAIN main = 1 .. Len(main)
      /\ Tip \in Made /\ head \in Made
  BY Numbers DEF HistoryInv
<1>2. CASE Work
  <2>1. PICK t \in Edits(head) : AddCommit(t, {head})
    BY <1>2 DEF Work
  <2>2. {head} \in SUBSET Made /\ head' = Fresh /\ UNCHANGED main
    BY <1>1, <1>2 DEF Work
  <2>. QED
    BY <2>1, <2>2, OnHead
<1>3. CASE Update
  <2>1. PICK t \in Merges(head, Tip) : AddCommit(t, {head, Tip})
    BY <1>3 DEF Update
  <2>2. {head, Tip} \in SUBSET Made /\ head' = Fresh /\ UNCHANGED main
    BY <1>1, <1>3 DEF Update
  <2>. QED
    BY <2>1, <2>2, OnHead
<1>4. CASE Reset
  <2>1. head' \in Made /\ UNCHANGED <<commits, main>>
    BY <1>4 DEF Reset
  <2>2. HistoryInv'
    BY <2>1 DEF HistoryInv, Made, Past
  <2>. QED
    BY <2>1, <2>2 DEF Grows, Made
<1>5. CASE Push
  <2>1. PICK t \in Edits(Tip) : AddCommit(t, {Tip})
    BY <1>5 DEF Push
  <2>2. {Tip} \in SUBSET Made /\ main' = Append(main, Fresh) /\ UNCHANGED head
    BY <1>1, <1>5 DEF Push
  <2>. QED
    BY <2>1, <2>2, OnMain
<1>6. CASE Deliver
  <2>1. PICK t \in Merges(Tip, head), parents \in {{Tip}, {Tip, head}} :
          AddCommit(t, parents)
    BY <1>6 DEF Deliver
  <2>2. parents \in SUBSET Made /\ main' = Append(main, Fresh) /\ UNCHANGED head
    BY <1>1, <1>6, <2>1 DEF Deliver
  <2>. QED
    BY <2>1, <2>2, OnMain
<1>7. CASE Forward
  <2>1. /\ Tip \in Past(head) \ {head}
        /\ main' = Append(main, head)
        /\ UNCHANGED <<commits, head>>
    BY <1>7 DEF Forward
  <2>2. head \in Nat /\ Tip \in 1 .. head
    BY <1>1, <2>1 DEF HistoryInv
  <2>3. head > Tip
    BY <2>1, <2>2
  <2>4. /\ main' \in Seq(Nat) /\ main' /= <<>>
        /\ Len(main') = Len(main) + 1
        /\ DOMAIN main' = 1 .. Len(main) + 1
        /\ \A i \in DOMAIN main : main'[i] = main[i]
        /\ main'[Len(main) + 1] = head
        /\ Tip' = head
    BY <2>1, <2>2, TipAdded
  <2>5. ASSUME NEW i \in DOMAIN main' PROVE main'[i] \in Made
    <3>1. CASE i \in DOMAIN main
      BY <3>1, <2>4 DEF HistoryInv
    <3>2. CASE i = Len(main) + 1
      BY <3>2, <1>1, <2>4
    <3>. QED
      BY <3>1, <3>2, <1>1, <2>4
  <2>6. HistoryInv'
    BY <2>1, <2>4, <2>5 DEF HistoryInv, Made, Past
  <2>. QED
    BY <2>1, <2>3, <2>4, <2>6 DEF Grows, Made
<1>. QED
  BY <1>2, <1>3, <1>4, <1>5, <1>6, <1>7 DEF HistoryNext

-----------------------------------------------------------------------------
(* The two readings of the boundary run.                                    *)

\* Initially nothing has been read.
LEMMA InitBoundary ==
  ASSUME Init
  PROVE  BoundaryInv
<1> DEFINE first == [tree |-> RootTree, parents |-> {}, past |-> {1}]
<1>1. commits = <<first>> /\ main = <<1>> /\ head = 1
  BY DEF Init, HistoryInit
<1>2. commits \in Seq({first}) /\ Len(commits) = 1 /\ DOMAIN commits = {1}
  BY <1>1
<1>3. main \in Seq(Nat) /\ main /= <<>> /\ \A i \in DOMAIN main : main[i] = 1
  BY <1>1
<1>4. \A c \in Made : Past(c) \subseteq 1 .. c
  BY <1>1, <1>2 DEF Made, Past
<1>5. HistoryInv
  <2>1. \E S : commits \in Seq(S)
    BY <1>2
  <2>2. Made = {1} /\ Len(commits) >= 1
    BY <1>2 DEF Made
  <2>. QED
    BY <1>1, <1>3, <1>4, <2>1, <2>2 DEF HistoryInv
<1>6. RunInv
  BY <1>1, <1>2 DEF Init, RunInv, Stage, Made
<1>. QED
  BY <1>5, <1>6 DEF BoundaryInv

\* The boundary run's own steps; the second reading of the branch proves the
\* two current together because the branch never comes back to the base.
LEMMA RunSteps ==
  ASSUME BoundaryInv, Dispatch \/ ReadBranch \/ RereadPull \/ RereadBranch
  PROVE  BoundaryInv'
<1>1. UNCHANGED history
  BY DEF Dispatch, ReadBranch, RereadPull, RereadBranch, Goes
<1>2. HistoryInv' /\ Made' = Made /\ Tip' = Tip /\ head' = head
  BY <1>1 DEF BoundaryInv, HistoryInv, history, Made, Past, Tip
<1>3. Tip \in Nat /\ Tip \in Made /\ head \in Made /\ 1 \in Made
  BY Numbers DEF BoundaryInv, HistoryInv
<1>4. ASSUME stage' = "none", base' = 1, cand' = 1 PROVE RunInv'
  BY <1>2, <1>3, <1>4 DEF RunInv, Stage
<1>5. CASE Dispatch
  BY <1>2, <1>3, <1>5 DEF Dispatch, RunInv, Stage, BoundaryInv
<1>6. CASE ReadBranch
  BY <1>2, <1>3, <1>4, <1>6 DEF ReadBranch, Goes, RunInv, Stage, BoundaryInv
<1>7. CASE RereadPull
  BY <1>2, <1>3, <1>4, <1>7 DEF RereadPull, Goes, RunInv, Stage, BoundaryInv
<1>8. CASE RereadBranch
  BY <1>2, <1>3, <1>4, <1>8 DEF RereadBranch, Goes, RunInv, Stage, BoundaryInv
<1>. QED
  BY <1>2, <1>5, <1>6, <1>7, <1>8 DEF BoundaryInv

\* The repository moves under the run: a tip that is the base now was the
\* base before.
LEMMA MovesStep ==
  ASSUME BoundaryInv, Moves
  PROVE  BoundaryInv'
<1>1. HistoryInv' /\ Grows
  BY HistoryStep DEF BoundaryInv, Moves
<1>2. Tip \in Nat /\ Tip' \in Nat /\ base \in Nat
  <2>1. Tip \in Made /\ Made = 1 .. Len(commits) /\ Len(commits) \in Nat
    BY Numbers DEF BoundaryInv
  <2>2. Tip' \in Nat
    <3>1. main' \in Seq(Nat) /\ main' /= <<>>
      BY <1>1 DEF HistoryInv
    <3>. QED
      BY <3>1 DEF Tip
  <2>. QED
    BY <2>1, <2>2 DEF BoundaryInv, RunInv
<1>3. Tip' >= Tip
  BY <1>1, <1>2 DEF Grows, Tip
<1>4. stage' = stage /\ base' = base /\ cand' = cand
  BY DEF Moves
<1>5. together \/ (stage \in {"verified", "reread"} /\ head' = cand /\ Tip' = base)
        => together'
  BY DEF Moves, Tip
<1>6. stage' = "reread" /\ Tip' = base' => together'
  <2>1. ASSUME stage = "reread", Tip' = base PROVE Tip = base
    BY <1>2, <1>3, <2>1 DEF BoundaryInv, RunInv
  <2>. QED
    BY <1>4, <1>5, <2>1 DEF BoundaryInv, RunInv
<1>7. stage' = "verified" /\ Tip' = base' /\ head' = cand' => together'
  BY <1>4, <1>5
<1>8. stage' /= "none" => base' <= Tip'
  BY <1>2, <1>3, <1>4 DEF BoundaryInv, RunInv
<1>9. stage' = "established" => together'
  BY <1>4, <1>5 DEF BoundaryInv, RunInv
<1>10. base' \in Made' /\ cand' \in Made' /\ stage' \in Stage
  BY <1>1, <1>4 DEF Grows, BoundaryInv, RunInv
<1>. QED
  BY <1>1, <1>6, <1>7, <1>8, <1>9, <1>10 DEF BoundaryInv, RunInv

\* Every step keeps the invariant.
LEMMA BoundaryStep ==
  ASSUME BoundaryInv, [Next]_vars
  PROVE  BoundaryInv'
<1>1. CASE Moves
  BY <1>1, MovesStep
<1>2. CASE UNCHANGED vars
  BY <1>2 DEF vars, history, BoundaryInv, HistoryInv, RunInv, Made, Past, Tip
<1>. QED
  BY <1>1, <1>2, RunSteps DEF Next

\* A boundary that the workflow establishes stands for a head and a base that
\* were current at one and the same moment since the gate took them up,
\* whatever happens to the pull request and the default branch in between:
\* two readings of each, the branch's last, are enough, because the default
\* branch is only ever moved forward.
THEOREM EstablishedWereTogether == Spec => []EstablishedTogether
<1>1. Init => BoundaryInv
  BY InitBoundary
<1>2. BoundaryInv /\ [Next]_vars => BoundaryInv'
  BY BoundaryStep
<1>3. BoundaryInv => EstablishedTogether
  BY DEF BoundaryInv, RunInv, EstablishedTogether
<1>. QED
  BY <1>1, <1>2, <1>3, PTL DEF Spec

-----------------------------------------------------------------------------
(* Rounds are append-only.                                                  *)

\* The pushes that made the first j tips each kept the rounds.
AllKept(j) == \A k \in 2 .. j : KeepsRounds(main[k - 1], main[k])

\* A live round of tip i is in tip j, or in the archive that was made between.
KeptFrom(i, j) ==
  \A r \in Live(TreeOf(main[i])) :
    \/ r \in TreeOf(main[j]).rounds
    \/ \E k \in i + 1 .. j : /\ ~TreeOf(main[k]).open
                             /\ Moved(r, "archive") \in TreeOf(main[k]).rounds

KeptInv == \A i, j \in DOMAIN main : i < j /\ AllKept(j) => KeptFrom(i, j)

KeepsOn ==
  \A n \in Nat : \A i \in 1 .. n :
    (i = n \/ KeptFrom(i, n)) /\ KeepsRounds(main[n], main[n + 1])
      => KeptFrom(i, n + 1)

\* One push that keeps the rounds takes what was kept so far to the new tip.
LEMMA KeptOn == KeepsOn
<1> SUFFICES ASSUME NEW n \in Nat, NEW i \in 1 .. n,
                    i = n \/ KeptFrom(i, n),
                    KeepsRounds(main[n], main[n + 1])
             PROVE  KeptFrom(i, n + 1)
  BY DEF KeepsOn
<1> SUFFICES ASSUME NEW r \in Live(TreeOf(main[i]))
             PROVE  \/ r \in TreeOf(main[n + 1]).rounds
                    \/ \E k \in i + 1 .. n + 1 :
                         /\ ~TreeOf(main[k]).open
                         /\ Moved(r, "archive") \in TreeOf(main[k]).rounds
  BY DEF KeptFrom
<1>1. CASE r \in TreeOf(main[n]).rounds
  <2>1. r \in Live(TreeOf(main[n]))
    BY <1>1 DEF Live
  <2>2. r \in TreeOf(main[n + 1]).rounds \/ ArchiveMove(main[n], main[n + 1], r)
    BY <2>1 DEF KeepsRounds
  <2>3. n + 1 \in i + 1 .. n + 1
    OBVIOUS
  <2>. QED
    BY <2>2, <2>3 DEF ArchiveMove, WholeChangeArchived
<1>2. CASE r \notin TreeOf(main[n]).rounds
  <2>1. i /= n
    BY <1>2 DEF Live
  <2>2. PICK k \in i + 1 .. n : /\ ~TreeOf(main[k]).open
                                /\ Moved(r, "archive") \in TreeOf(main[k]).rounds
    BY <1>2, <2>1 DEF KeptFrom
  <2>3. k \in i + 1 .. n + 1
    OBVIOUS
  <2>. QED
    BY <2>2, <2>3
<1>. QED
  BY <1>1, <1>2

\* The trees of the tips stay as they are, and so do the two formulas above.
LEMMA TipsStay ==
  ASSUME HistoryInv, Grows
  PROVE  \A i, j \in DOMAIN main :
           /\ AllKept(j)' => AllKept(j)
           /\ KeptFrom(i, j) => KeptFrom(i, j)'
<1>1. Len(main) \in Nat /\ DOMAIN main = 1 .. Len(main)
  BY Numbers
<1>2. ASSUME NEW k \in DOMAIN main
      PROVE  commits'[main'[k]].tree = commits[main[k]].tree
  <2>1. main'[k] = main[k]
    BY <1>1 DEF Grows
  <2>2. main[k] \in Made
    BY DEF HistoryInv
  <2>. QED
    BY <2>1, <2>2 DEF Grows
<1>3. ASSUME NEW j \in DOMAIN main, AllKept(j)'
      PROVE  AllKept(j)
  <2>1. SUFFICES ASSUME NEW k \in 2 .. j
                 PROVE  KeepsRounds(main[k - 1], main[k])
    BY DEF AllKept
  <2>2. k - 1 \in DOMAIN main /\ k \in DOMAIN main
    BY <1>1
  <2>3. KeepsRounds(main[k - 1], main[k])'
    BY <1>3 DEF AllKept
  <2>. QED
    BY <1>2, <2>2, <2>3
       DEF KeepsRounds, ArchiveMove, WholeChangeArchived, TreeOf, HasPath, Live
<1>4. ASSUME NEW i \in DOMAIN main, NEW j \in DOMAIN main, KeptFrom(i, j)
      PROVE  KeptFrom(i, j)'
  <2>1. \A k \in i + 1 .. j : k \in DOMAIN main
    BY <1>1
  <2>. QED
    BY <1>2, <1>4, <2>1 DEF KeptFrom, TreeOf, Live
<1>. QED
  BY <1>3, <1>4

\* Every step keeps what is kept.
LEMMA KeptStep ==
  ASSUME HistoryInv, KeptInv, HistoryInv', Grows, KeepsOn'
  PROVE  KeptInv'
<1> SUFFICES ASSUME NEW i \in DOMAIN main', NEW j \in DOMAIN main',
                    i < j, AllKept(j)'
             PROVE  KeptFrom(i, j)'
  BY DEF KeptInv
<1>1. Len(main) \in Nat /\ DOMAIN main = 1 .. Len(main)
  BY Numbers
<1>2. CASE j \in DOMAIN main /\ i \in DOMAIN main
  <2>1. AllKept(j)
    BY <1>2, TipsStay
  <2>2. KeptFrom(i, j)
    BY <1>2, <2>1 DEF KeptInv
  <2>. QED
    BY <1>2, <2>2, TipsStay
<1>3. CASE ~(j \in DOMAIN main /\ i \in DOMAIN main)
  <2>1. main' /= main
    BY <1>3
  <2>2. DOMAIN main' = 1 .. Len(main) + 1
    <3>1. main' \in Seq(Nat)
      BY DEF HistoryInv
    <3>. QED
      BY <2>1, <3>1 DEF Grows
  <2>3. PICK n \in Nat : n = Len(main)
    BY <1>1
  <2>4. i \in 1 .. n /\ j = n + 1
    BY <1>1, <1>3, <2>2, <2>3
  <2>5. KeepsRounds(main[n], main[n + 1])'
    <3>1. j \in 2 .. j /\ j - 1 = n
      BY <2>4
    <3>. QED
      BY <2>4, <3>1 DEF AllKept
  <2>6. CASE i = n
    BY <2>4, <2>5, <2>6 DEF KeepsOn
  <2>7. CASE i /= n
    <3>1. n \in DOMAIN main /\ i \in DOMAIN main /\ i < n
      BY <1>1, <2>3, <2>4, <2>7
    <3>2. AllKept(n)'
      <4>1. \A k \in 2 .. n : k \in 2 .. j
        BY <2>4
      <4>. QED
        BY <4>1 DEF AllKept
    <3>3. AllKept(n)
      BY <3>1, <3>2, TipsStay
    <3>4. KeptFrom(i, n)
      BY <3>1, <3>3 DEF KeptInv
    <3>5. KeptFrom(i, n)'
      BY <3>1, <3>4, TipsStay
    <3>. QED
      BY <2>4, <2>5, <3>5 DEF KeepsOn
  <2>. QED
    BY <2>6, <2>7
<1>. QED
  BY <1>2, <1>3

\* Rounds are append-only over any number of pushes, although the check looks
\* at one push at a time: where each push passed, a live round of any earlier
\* tip is in every later one with its bytes, or went to the archive, with its
\* bytes, when the change did.
THEOREM PassedPushesKeepRounds == Spec => []RoundsAreKept
<1>1. Init => HistoryInv /\ KeptInv
  <2>1. ASSUME Init PROVE HistoryInv /\ KeptInv
    <3>1. HistoryInv
      BY <2>1, InitBoundary DEF BoundaryInv
    <3>2. DOMAIN main = {1}
      BY <2>1 DEF Init, HistoryInit
    <3>. QED
      BY <3>1, <3>2 DEF KeptInv
  <2>. QED
    BY <2>1
<1>2. HistoryInv /\ KeptInv /\ [Next]_vars /\ KeepsOn' => HistoryInv' /\ KeptInv'
  <2>1. ASSUME HistoryInv, KeptInv, KeepsOn', UNCHANGED history
        PROVE  HistoryInv' /\ KeptInv'
    <3>1. HistoryInv'
      BY <2>1 DEF history, HistoryInv, Made, Past
    <3>2. Grows
      BY <2>1 DEF history, Grows, Made
    <3>. QED
      BY <2>1, <3>1, <3>2, KeptStep
  <2>2. ASSUME HistoryInv, KeptInv, KeepsOn', Moves
        PROVE  HistoryInv' /\ KeptInv'
    <3>1. HistoryInv' /\ Grows
      BY <2>2, HistoryStep DEF Moves
    <3>. QED
      BY <2>2, <3>1, KeptStep
  <2>3. [Next]_vars => UNCHANGED history \/ Moves
    BY DEF Next, vars, Dispatch, ReadBranch, RereadPull, RereadBranch, Goes
  <2>. QED
    BY <2>1, <2>2, <2>3
<1>3. KeptInv => RoundsAreKept
  BY DEF KeptInv, AllKept, KeptFrom, RoundsAreKept, Green, Passes
<1>4. KeepsOn
  BY KeptOn
<1>. QED
  BY <1>1, <1>2, <1>3, <1>4, PTL DEF Spec

-----------------------------------------------------------------------------
(* Trees.                                                                   *)

OnePerPath(rs) == \A q, r \in rs : Path(q) = Path(r) => q = r

\* A tree as the program keeps them: every path holds one file.
WellFormed(t) == t \in Tree /\ IsFiniteSet(t.rounds) /\ OnePerPath(t.rounds)

\* Other rounds in a tree.
LEMMA PutFormed ==
  ASSUME NEW t, WellFormed(t), NEW rs \in SUBSET Round, IsFiniteSet(rs), OnePerPath(rs)
  PROVE  WellFormed(Put(t, rs))
<1>1. t \in Tree
  BY DEF WellFormed
<1>2. Put(t, rs) \in Tree /\ Put(t, rs).rounds = rs
  BY <1>1 DEF Put, Tree
<1>. QED
  BY <1>2 DEF WellFormed

\* Writing one file over what its path held.
LEMMA WrittenFormed ==
  ASSUME NEW t, WellFormed(t), NEW r \in Round
  PROVE  /\ Written(t, {r}) \in SUBSET Round
         /\ IsFiniteSet(Written(t, {r}))
         /\ OnePerPath(Written(t, {r}))
<1> DEFINE kept == {q \in t.rounds : \A p \in {r} : Path(q) /= Path(p)}
<1>1. t.rounds \in SUBSET Round
  BY DEF WellFormed, Tree
<1>2. kept \in SUBSET t.rounds /\ Written(t, {r}) = kept \cup {r}
  BY DEF Written
<1>3. IsFiniteSet(kept)
  BY <1>2, FS_Subset DEF WellFormed
<1>4. IsFiniteSet(kept \cup {r})
  BY <1>3, FS_AddElement
<1>5. OnePerPath(Written(t, {r}))
  BY DEF Written, WellFormed, OnePerPath
<1>. QED
  BY <1>1, <1>2, <1>4, <1>5

\* Some of the rounds.
LEMMA FewerFormed ==
  ASSUME NEW S, IsFiniteSet(S), OnePerPath(S), NEW T \in SUBSET S
  PROVE  IsFiniteSet(T) /\ OnePerPath(T)
<1>1. IsFiniteSet(T)
  BY FS_Subset
<1>. QED
  BY <1>1 DEF OnePerPath

\* The rounds moved into the archive.
LEMMA ArchivedFormed ==
  ASSUME NEW t, WellFormed(t), NEW u \in Archived(t)
  PROVE  WellFormed(u)
<1> DEFINE came == {Moved(r, "archive") : r \in Live(t)}
           kept == {q \in t.rounds : \A r \in came : Path(q) /= Path(r)}
           move == [r \in Live(t) |-> Moved(r, "archive")]
<1>1. t \in Tree /\ t.rounds \in SUBSET Round /\ IsFiniteSet(t.rounds)
      /\ OnePerPath(t.rounds)
  BY DEF WellFormed, Tree
<1>2. Live(t) \in SUBSET t.rounds /\ kept \in SUBSET t.rounds
  BY DEF Live
<1>3. IsFiniteSet(Live(t)) /\ IsFiniteSet(kept)
  BY <1>1, <1>2, FS_Subset
<1>4. move \in Surjection(Live(t), came)
  <2>1. move \in [Live(t) -> came]
    OBVIOUS
  <2>2. \A y \in came : \E x \in Live(t) : move[x] = y
    OBVIOUS
  <2>. QED
    BY <2>1, <2>2, Fun_IsSurj
<1>5. IsFiniteSet(came)
  BY <1>3, <1>4, FS_Surjection
<1>6. IsFiniteSet(kept \cup came)
  BY <1>3, <1>5, FS_Union
<1>7. Written(t, came) = kept \cup came
  BY DEF Written
<1>8. came \in SUBSET Round
  <2>. SUFFICES ASSUME NEW r \in Live(t) PROVE Moved(r, "archive") \in Round
    OBVIOUS
  <2>. QED
    BY <1>1, <1>2 DEF Moved, Round
<1>9. OnePerPath(kept \cup came)
  <2>1. OnePerPath(came)
    <3>. SUFFICES ASSUME NEW q \in Live(t), NEW r \in Live(t),
                         Path(Moved(q, "archive")) = Path(Moved(r, "archive"))
                  PROVE  Moved(q, "archive") = Moved(r, "archive")
      BY DEF OnePerPath
    <3>1. q.epoch = r.epoch /\ q.pin = r.pin
      BY DEF Path, Moved
    <3>2. Path(q) = Path(r)
      BY <3>1 DEF Path, Live
    <3>3. q = r
      BY <1>1, <1>2, <3>2 DEF OnePerPath
    <3>. QED
      BY <3>3
  <2>2. OnePerPath(kept)
    BY <1>1, <1>2 DEF OnePerPath
  <2>3. \A q \in kept, r \in came : Path(q) /= Path(r)
    OBVIOUS
  <2>. HIDE DEF came, kept
  <2>. QED
    BY <2>1, <2>2, <2>3 DEF OnePerPath
<1> DEFINE rs == Written(t, came) \ Live(t)
<1>10. rs \in SUBSET (kept \cup came) /\ rs \in SUBSET Round
  BY <1>1, <1>2, <1>7, <1>8
<1>11. IsFiniteSet(rs) /\ OnePerPath(rs)
  <2>. HIDE DEF came, kept, rs
  <2>. QED
    BY <1>6, <1>9, <1>10, FewerFormed
<1>12. PICK s \in SUBSET t.files :
         u = [t EXCEPT !.open = FALSE, !.review = None, !.files = s, !.rounds = rs]
  BY DEF Archived
<1>13. u \in Tree /\ u.rounds = rs
  <2>. HIDE DEF rs
  <2>. QED
    BY <1>1, <1>10, <1>12 DEF Tree
<1>. QED
  BY <1>11, <1>13 DEF WellFormed

\* The commits are well formed and as many as may be made.
TreesInv ==
  /\ commits \in Seq([tree : Tree, parents : SUBSET Commit, past : SUBSET Commit])
  /\ Len(commits) \in Commit
  /\ \A c \in Made : WellFormed(TreeOf(c))

\* A record that is written at a commit, honestly or not.
LEMMA RecordsAreDocs ==
  ASSUME NEW c \in Commit, WellFormed(TreeOf(c)), {main[i] : i \in DOMAIN main} \subseteq Commit,
         Tip \in Commit
  PROVE  Records(c) \subseteq Doc /\ Forged(c) \subseteq Doc
<1> DEFINE old == TreeOf(c).review
           cited == {c} \cup IF old = None THEN {} ELSE {old.reviewed}
           tips == {main[i] : i \in DOMAIN main}
<1>1. old \in Doc \cup {None}
  BY DEF WellFormed, Tree
<1>2. old /= None => old.reviewed \in Commit
  BY <1>1 DEF Doc
<1>3. cited \subseteq Commit
  BY <1>2
<1>4. 1 \in Epoch
  BY ReviewAssumption DEF Epoch
<1>5. [epoch : Epoch, base : tips, accepted : {TRUE}, reviewed : cited] \subseteq Doc
  <2>. HIDE DEF tips, cited
  <2>. SUFFICES ASSUME tips \subseteq Commit
                PROVE [epoch : Epoch, base : tips, accepted : {TRUE}, reviewed : cited] \subseteq Doc
    BY DEF tips
  <2>. QED
    BY <1>3 DEF Doc
<1>6. [epoch : {1}, base : {Tip}, accepted : {FALSE}, reviewed : {c}] \subseteq Doc
  BY <1>4 DEF Doc
<1>7. Forged(c) \subseteq Doc
  BY DEF Forged, Doc
<1>8. Records(c) = [epoch : Epoch, base : tips, accepted : {TRUE}, reviewed : cited]
                   \cup [epoch : {1}, base : {Tip}, accepted : {FALSE}, reviewed : {c}]
  BY DEF Records
<1>. QED
  BY <1>5, <1>6, <1>7, <1>8

\* A round is added to a tree that has no file of its path.
LEMMA AddedFormed ==
  ASSUME NEW c, NEW t, WellFormed(t), Forged(c) \subseteq Doc, NEW u \in RoundsAdded(c, t)
  PROVE  WellFormed(u)
<1> DEFINE live == {RoundOf(e, d, "live") : e \in Epoch, d \in Forged(c) \cup ({t.review} \ {None})}
           old == {RoundOf(d.epoch, d, "archive") : d \in Forged(c)}
<1>0. PICK q \in live \cup old : ~HasPath(t, q) /\ u = Put(t, t.rounds \cup {q})
  <2>1. RoundsAdded(c, t) = {Put(t, t.rounds \cup {r}) : r \in {q \in live \cup old : ~HasPath(t, q)}}
    BY DEF RoundsAdded
  <2>. HIDE DEF live, old
  <2>. QED
    BY <2>1
<1>1. ASSUME q \in live PROVE q \in Round
  <2>1. PICK e \in Epoch, d \in Forged(c) \cup ({t.review} \ {None}) : q = RoundOf(e, d, "live")
    BY <1>1
  <2>2. d \in Doc
    BY <2>1 DEF WellFormed, Tree
  <2>. QED
    BY <2>1, <2>2 DEF RoundOf, Round, Doc
<1>2. ASSUME q \in old PROVE q \in Round
  <2>1. PICK d \in Forged(c) : q = RoundOf(d.epoch, d, "archive")
    BY <1>2
  <2>2. d \in Doc
    BY <2>1
  <2>. QED
    BY <2>1, <2>2 DEF RoundOf, Round, Doc
<1>3. q \in Round
  BY <1>1, <1>2, <1>0
<1>4. t.rounds \in SUBSET Round /\ IsFiniteSet(t.rounds) /\ OnePerPath(t.rounds)
  BY DEF WellFormed, Tree
<1>5. t.rounds \cup {q} \in SUBSET Round
  BY <1>3, <1>4
<1>6. IsFiniteSet(t.rounds \cup {q})
  BY <1>4, FS_AddElement
<1>7. OnePerPath(t.rounds \cup {q})
  BY <1>0, <1>4 DEF OnePerPath, HasPath
<1>. QED
  BY <1>0, <1>5, <1>6, <1>7, PutFormed

\* Whatever is done to a tree leaves one file at a path.
LEMMA EditFormed ==
  ASSUME NEW c \in Commit, WellFormed(TreeOf(c)), {main[i] : i \in DOMAIN main} \subseteq Commit,
         Tip \in Commit, NEW u \in Edits(c)
  PROVE  WellFormed(u)
<1> DEFINE t == TreeOf(c)
<1>1. /\ t \in Tree /\ t.rounds \in SUBSET Round
      /\ IsFiniteSet(t.rounds) /\ OnePerPath(t.rounds)
  BY DEF WellFormed, Tree
<1>2. Records(c) \subseteq Doc /\ Forged(c) \subseteq Doc
  BY RecordsAreDocs
<1>3. CASE u \in Codes(t)
  <2>1. u = [t EXCEPT !.code = 1 - @]
    BY <1>3 DEF Codes
  <2>2. u \in Tree /\ u.rounds = t.rounds
    BY <1>1, <2>1 DEF Tree
  <2>. QED
    BY <1>1, <2>2 DEF WellFormed
<1>4. CASE u \in Plans(t)
  <2>1. u = [t EXCEPT !.plan = 1 - @]
    BY <1>4 DEF Plans
  <2>2. u \in Tree /\ u.rounds = t.rounds
    BY <1>1, <2>1 DEF Tree
  <2>. QED
    BY <1>1, <2>2 DEF WellFormed
<1>5. CASE u \in Reviews(c, t)
  <2>1. PICK d \in Records(c) : u = [t EXCEPT !.review = d]
    BY <1>5 DEF Reviews
  <2>2. d \in Doc
    BY <1>2, <2>1
  <2>3. u \in Tree /\ u.rounds = t.rounds
    BY <1>1, <2>1, <2>2 DEF Tree
  <2>. QED
    BY <1>1, <2>3 DEF WellFormed
<1>7. CASE u \in RoundsEdited(c, t)
  <2>1. PICK r \in t.rounds, d \in Forged(c) : u = Put(t, Written(t, {[r EXCEPT !.doc = d]}))
    BY <1>7 DEF RoundsEdited
  <2>2. d \in Doc /\ r \in Round
    BY <1>1, <1>2, <2>1
  <2>3. [r EXCEPT !.doc = d] \in Round
    BY <2>2 DEF Round
  <2>. QED
    BY <2>1, <2>3, WrittenFormed, PutFormed
<1>8. CASE u \in RoundsDropped(t)
  <2>1. PICK r \in Live(t) : u = Put(t, t.rounds \ {r})
    BY <1>8 DEF RoundsDropped
  <2>2. t.rounds \ {r} \in SUBSET t.rounds /\ t.rounds \ {r} \in SUBSET Round
    BY <1>1
  <2>3. IsFiniteSet(t.rounds \ {r}) /\ OnePerPath(t.rounds \ {r})
    BY <1>1, <2>2, FewerFormed
  <2>. QED
    BY <2>1, <2>2, <2>3, PutFormed
<1>9. CASE u \in RoundsSlipped(t)
  <2>1. PICK r \in Live(t), s \in {{}, Live(t)} :
          u = Put(t, Written(t, {Moved(r, "archive")}) \ s)
    BY <1>9 DEF RoundsSlipped
  <2>2. r \in Round
    BY <1>1 DEF Live
  <2>3. Moved(r, "archive") \in Round
    BY <2>2 DEF Moved, Round
  <2> DEFINE w == Written(t, {Moved(r, "archive")})
  <2>4. w \in SUBSET Round /\ IsFiniteSet(w) /\ OnePerPath(w)
    BY <2>3, WrittenFormed
  <2>5. w \ s \in SUBSET w /\ w \ s \in SUBSET Round
    BY <2>4
  <2>6. IsFiniteSet(w \ s) /\ OnePerPath(w \ s)
    <3>. HIDE DEF w
    <3>. QED
      BY <2>4, <2>5, FewerFormed
  <2>. QED
    BY <2>1, <2>5, <2>6, PutFormed
<1>10. CASE u \in FilesRemoved(c, t)
  <2>1. PICK v \in {t} \cup RoundsAdded(c, t) :
          u \in {[v EXCEPT !.review = None]} \cup {[v EXCEPT !.files = s] : s \in SUBSET t.files}
    BY <1>10 DEF FilesRemoved
  <2>2. WellFormed(v)
    BY <1>2, <2>1, AddedFormed
  <2>3. u \in Tree /\ u.rounds = v.rounds
    <3>1. \/ u = [v EXCEPT !.review = None]
          \/ \E s \in SUBSET t.files : u = [v EXCEPT !.files = s]
      BY <2>1
    <3>2. v \in Tree /\ t.files \in SUBSET File
      BY <1>1, <2>2 DEF WellFormed, Tree
    <3>. QED
      BY <3>1, <3>2 DEF Tree
  <2>. QED
    BY <2>2, <2>3 DEF WellFormed
<1>11. CASE u \in Archived(t)
  BY <1>11, ArchivedFormed
<1>12. \/ u \in Codes(t) \cup RoundsEdited(c, t)
       \/ u \in Plans(t) \cup Reviews(c, t) \cup FilesRemoved(c, t)
                \cup RoundsDropped(t) \cup RoundsSlipped(t) \cup Archived(t)
  <2>. HIDE DEF t
  <2>1. Edits(c) \subseteq Codes(t) \cup RoundsEdited(c, t)
                \cup Plans(t) \cup Reviews(c, t) \cup FilesRemoved(c, t)
                \cup RoundsDropped(t) \cup RoundsSlipped(t) \cup Archived(t)
    BY DEF Edits, t
  <2>. QED
    BY <2>1
<1>. QED
  BY <1>3, <1>4, <1>5, <1>7, <1>8, <1>9, <1>10, <1>11, <1>12

\* So does a merge.
LEMMA MergeFormed ==
  ASSUME NEW c, NEW d, WellFormed(TreeOf(c)), WellFormed(TreeOf(d)), NEW v \in Merges(c, d)
  PROVE  WellFormed(v)
<1> DEFINE t == TreeOf(c)
           u == TreeOf(d)
           fits == \A r \in u.rounds : r \in t.rounds \/ ~HasPath(t, r)
           both == IF fits THEN {t.rounds \cup u.rounds} ELSE {}
           merged == [plan : {t.plan, u.plan}, code : {t.code, u.code}, open : {TRUE},
                      review : {t.review, u.review},
                      rounds : {t.rounds, u.rounds} \cup both,
                      files : SUBSET (t.files \cup u.files)]
<1>1. v \in {t, u} \/ v \in merged
  BY DEF Merges
<1>2. CASE v \in merged
  <2>1. /\ t \in Tree /\ IsFiniteSet(t.rounds) /\ OnePerPath(t.rounds)
        /\ u \in Tree /\ IsFiniteSet(u.rounds) /\ OnePerPath(u.rounds)
    BY DEF WellFormed
  <2>2. /\ v.rounds \in {t.rounds, u.rounds} \cup both
        /\ v.plan \in {t.plan, u.plan} /\ v.code \in {t.code, u.code}
        /\ v.open = TRUE /\ v.review \in {t.review, u.review}
        /\ v.files \in SUBSET (t.files \cup u.files)
        /\ v = [plan |-> v.plan, code |-> v.code, open |-> v.open,
                review |-> v.review, rounds |-> v.rounds, files |-> v.files]
    BY <1>2
  <2>3. CASE fits /\ v.rounds = t.rounds \cup u.rounds
    <3>1. IsFiniteSet(v.rounds)
      BY <2>1, <2>3, FS_Union
    <3>2. OnePerPath(v.rounds)
      BY <2>1, <2>3 DEF OnePerPath, HasPath
    <3>3. v.rounds \in SUBSET Round
      BY <2>1, <2>3 DEF Tree
    <3>4. v \in Tree
      BY <2>1, <2>2, <3>3 DEF Tree
    <3>. QED
      BY <3>1, <3>2, <3>4 DEF WellFormed
  <2>4. CASE v.rounds \in {t.rounds, u.rounds}
    <3>1. v \in Tree
      BY <2>1, <2>2, <2>4 DEF Tree
    <3>. QED
      BY <2>1, <2>4, <3>1 DEF WellFormed
  <2>. QED
    BY <2>2, <2>3, <2>4
<1>. QED
  BY <1>1, <1>2

-----------------------------------------------------------------------------
(* What the commits descend from.                                           *)

\* A commit descends from itself, from its parents and from what those
\* descend from; a tip of the default branch descends from the one before.
GraphInv ==
  /\ \A c \in Made : /\ c \in Past(c)
                     /\ commits[c].parents \subseteq Past(c)
                     /\ \A p \in Past(c) : Past(p) \subseteq Past(c)
  /\ \A i \in DOMAIN main : i > 1 => main[i - 1] \in Past(main[i])

TreeInv == HistoryInv /\ TreesInv /\ GraphInv

\* A step makes a commit of a well-formed tree, or none.
Commits(tree, parents) ==
  /\ MayCommit
  /\ WellFormed(tree)
  /\ parents \in SUBSET Made
  /\ AddCommit(tree, parents)
  /\ main' = main \/ (main' = Append(main, Fresh) /\ Tip \in parents)

Points ==
  /\ UNCHANGED commits
  /\ main' = main \/ (main' = Append(main, head) /\ Tip \in Past(head))

\* The commits' numbers and the tips are numbers of commits.
LEMMA Numbered ==
  ASSUME HistoryInv, TreesInv
  PROVE  /\ Made \subseteq Commit
         /\ {main[i] : i \in DOMAIN main} \subseteq Commit
         /\ Tip \in Made /\ head \in Made
<1>1. Len(commits) \in Nat /\ Made = 1 .. Len(commits) /\ Tip \in Made
  BY Numbers
<1>2. Made \subseteq Commit
  BY <1>1, ReviewAssumption DEF TreesInv, Commit
<1>. QED
  BY <1>1, <1>2 DEF HistoryInv

\* Every step of the history is one of the two.
LEMMA StepShape ==
  ASSUME HistoryInv, TreesInv, HistoryNext
  PROVE  Points \/ \E tree, parents : Commits(tree, parents)
<1>1. /\ Made \subseteq Commit
      /\ {main[i] : i \in DOMAIN main} \subseteq Commit
      /\ Tip \in Made /\ head \in Made
  BY Numbered
<1>2. Tip \in Commit /\ head \in Commit
  BY <1>1
<1>3. WellFormed(TreeOf(Tip)) /\ WellFormed(TreeOf(head))
  BY <1>1 DEF TreesInv
<1>4. CASE Work
  <2>1. PICK t \in Edits(head) : AddCommit(t, {head})
    BY <1>4 DEF Work
  <2>2. WellFormed(t)
    BY <1>1, <1>2, <1>3, <2>1, EditFormed
  <2>3. Commits(t, {head})
    BY <1>1, <1>4, <2>1, <2>2 DEF Commits, Work
  <2>. QED
    BY <2>3
<1>5. CASE Update
  <2>1. PICK t \in Merges(head, Tip) : AddCommit(t, {head, Tip})
    BY <1>5 DEF Update
  <2>2. WellFormed(t)
    BY <1>3, <2>1, MergeFormed
  <2>3. Commits(t, {head, Tip})
    BY <1>1, <1>5, <2>1, <2>2 DEF Commits, Update
  <2>. QED
    BY <2>3
<1>6. CASE Reset
  BY <1>6 DEF Reset, Points
<1>7. CASE Push
  <2>1. PICK t \in Edits(Tip) : AddCommit(t, {Tip})
    BY <1>7 DEF Push
  <2>2. WellFormed(t)
    BY <1>1, <1>2, <1>3, <2>1, EditFormed
  <2>3. Commits(t, {Tip})
    BY <1>1, <1>7, <2>1, <2>2 DEF Commits, Push
  <2>. QED
    BY <2>3
<1>8. CASE Deliver
  <2>1. PICK t \in Merges(Tip, head), parents \in {{Tip}, {Tip, head}} :
          AddCommit(t, parents)
    BY <1>8 DEF Deliver
  <2>2. WellFormed(t)
    BY <1>3, <2>1, MergeFormed
  <2>3. Commits(t, parents)
    BY <1>1, <1>8, <2>1, <2>2 DEF Commits, Deliver
  <2>. QED
    BY <2>3
<1>9. CASE Forward
  BY <1>9 DEF Forward, Points
<1>. QED
  BY <1>4, <1>5, <1>6, <1>7, <1>8, <1>9 DEF HistoryNext

\* A new commit of a well-formed tree, and what it descends from.
LEMMA CommitFormed ==
  ASSUME HistoryInv, TreesInv, GraphInv, NEW tree, NEW parents, Commits(tree, parents)
  PROVE  /\ TreesInv'
         /\ \A c \in Made' : /\ c \in Past(c)'
                             /\ commits'[c].parents \subseteq Past(c)'
                             /\ \A p \in Past(c)' : Past(p)' \subseteq Past(c)'
         /\ \A c \in Made : Past(c)' = Past(c)
         /\ parents \subseteq commits'[Fresh].past
<1> DEFINE T == [tree : Tree, parents : SUBSET Commit, past : SUBSET Commit]
           older == UNION {Past(p) : p \in parents}
<1>1. /\ WellFormed(tree) /\ parents \in SUBSET Made /\ AddCommit(tree, parents)
      /\ Len(commits) < MaxCommits
  BY DEF Commits, MayCommit
<1>2. Len(commits) \in Nat /\ Made = 1 .. Len(commits)
  BY Numbers
<1>3. commits \in Seq(T)
  BY DEF TreesInv
<1>4. Fresh \in Commit
  BY <1>1, <1>2, ReviewAssumption DEF Fresh, Commit
<1>5. \A p \in Made : Past(p) \in SUBSET Made /\ Past(p) \in SUBSET Commit
  <2>1. \A p \in Made : Past(p) \in SUBSET Commit
    <3>1. \A p \in Made : commits[p] \in T
      <4>. HIDE DEF T
      <4>. QED
        BY <1>3 DEF Made
    <3>2. \A x \in T : x.past \in SUBSET Commit
      OBVIOUS
    <3>. HIDE DEF T
    <3>. QED
      BY <3>1, <3>2 DEF Past
  <2>2. \A p \in Made : 1 .. p \subseteq Made
    BY <1>2
  <2>. QED
    BY <2>1, <2>2 DEF HistoryInv
<1>6. older \in SUBSET Commit /\ parents \in SUBSET Commit
  BY <1>1, <1>5, Numbered
<1>7. PICK n \in Nat : n = Fresh
  BY <1>2 DEF Fresh
<1>8. PICK new : new = [tree |-> tree, parents |-> parents, past |-> {n} \cup older]
  OBVIOUS
<1>9. commits' = Append(commits, new)
  BY <1>1, <1>7, <1>8 DEF AddCommit, Fresh
<1>10. new \in T
  BY <1>1, <1>4, <1>6, <1>7, <1>8 DEF WellFormed
<1>11. /\ commits' \in Seq(T) /\ Len(commits') = Len(commits) + 1
       /\ \A c \in 1 .. Len(commits) : commits'[c] = commits[c]
       /\ commits'[n] = new
  <2>. HIDE DEF T
  <2>1. T \cup {new} = T
    BY <1>10
  <2>. QED
    BY <1>3, <1>7, <1>9, <2>1, Appended DEF Fresh
<1>12. Made' = 1 .. Len(commits) + 1 /\ Made' = Made \cup {Fresh}
  BY <1>2, <1>11 DEF Made, Fresh
<1>13. \A c \in Made : Past(c)' = Past(c) /\ TreeOf(c)' = TreeOf(c)
                       /\ commits'[c].parents = commits[c].parents
  BY <1>2, <1>11 DEF Past, TreeOf
<1>14. /\ commits'[n].past = {n} \cup older
       /\ commits'[n].tree = tree /\ commits'[n].parents = parents
  BY <1>8, <1>11
<1>15. Past(n)' = {n} \cup older
  BY <1>14 DEF Past
<1>16. TreesInv'
  <2>1. Len(commits') \in Commit
    BY <1>4, <1>11 DEF Fresh, Commit
  <2>2. ASSUME NEW c \in Made' PROVE WellFormed(commits'[c].tree)
    <3>1. CASE c = n
      BY <1>1, <1>14, <3>1
    <3>2. CASE c \in Made
      <4>1. WellFormed(TreeOf(c)) /\ TreeOf(c)' = TreeOf(c)
        BY <1>13, <3>2 DEF TreesInv
      <4>. QED
        BY <4>1 DEF TreeOf
    <3>. QED
      BY <1>12, <1>7, <3>1, <3>2
  <2>3. \A c \in Made' : WellFormed(TreeOf(c))'
    BY <2>2 DEF TreeOf
  <2>4. commits' \in Seq(T)
    BY <1>11
  <2>. QED
    BY <2>1, <2>3, <2>4 DEF TreesInv
<1>17. parents \subseteq older
  BY <1>1 DEF GraphInv
<1>18. ASSUME NEW c \in Made'
       PROVE  /\ c \in Past(c)'
              /\ commits'[c].parents \subseteq Past(c)'
              /\ \A p \in Past(c)' : Past(p)' \subseteq Past(c)'
  <2>1. CASE c \in Made
    <3>1. \A p \in Past(c) : p \in Made
      BY <1>5, <2>1
    <3>2. Past(c)' = Past(c) /\ commits'[c].parents = commits[c].parents
      BY <1>13, <2>1
    <3>3. \A p \in Past(c) : Past(p)' = Past(p) /\ Past(p) \subseteq Past(c)
      BY <1>13, <2>1, <3>1 DEF GraphInv
    <3>. QED
      BY <2>1, <3>2, <3>3 DEF GraphInv
  <2>2. CASE c = n
    <3>1. ASSUME NEW p \in older PROVE Past(p)' \subseteq older
      <4>1. PICK q \in parents : p \in Past(q)
        BY <3>1
      <4>2. q \in Made /\ p \in Made
        BY <1>1, <1>5, <4>1
      <4>3. Past(p) \subseteq Past(q) /\ Past(p)' = Past(p)
        BY <1>13, <4>1, <4>2 DEF GraphInv
      <4>. QED
        BY <4>1, <4>3
    <3>2. ASSUME NEW p \in Past(n)' PROVE Past(p)' \subseteq Past(n)'
      <4>1. CASE p = n
        BY <1>15, <4>1
      <4>2. CASE p \in older
        BY <1>15, <3>1, <4>2
      <4>. QED
        BY <1>15, <3>2, <4>1, <4>2
    <3>3. n \in Past(n)' /\ commits'[n].parents \subseteq Past(n)'
      BY <1>17, <1>14, <1>15
    <3>. QED
      BY <2>2, <3>2, <3>3
  <2>. QED
    BY <1>12, <1>7, <2>1, <2>2
<1>. QED
  BY <1>13, <1>7, <1>16, <1>17, <1>18, <1>14

\* Every step keeps the commits well formed and their descent.
LEMMA TreeStep ==
  ASSUME TreeInv, HistoryNext
  PROVE  TreeInv' /\ Grows
<1>1. HistoryInv /\ TreesInv /\ GraphInv
  BY DEF TreeInv
<1>2. HistoryInv' /\ Grows
  BY <1>1, HistoryStep
<1>3. /\ Len(main) \in Nat /\ DOMAIN main = 1 .. Len(main)
      /\ \A i \in DOMAIN main : main[i] \in Made
      /\ Tip \in Made /\ head \in Made
  BY <1>1, Numbers DEF HistoryInv
<1>4. ASSUME NEW n, n \in Made', main' = Append(main, n), Tip \in Past(n)',
             \A c \in Made : Past(c)' = Past(c)
      PROVE  \A i \in DOMAIN main' : i > 1 => main'[i - 1] \in commits'[main'[i]].past
  <2>1. /\ DOMAIN main' = 1 .. Len(main) + 1
        /\ \A i \in DOMAIN main : main'[i] = main[i]
        /\ main'[Len(main) + 1] = n
    <3>1. n \in Nat
      <4>1. Len(commits)' \in Nat /\ Made' = 1 .. Len(commits)'
        <5>1. PICK S : commits' \in Seq(S)
          BY <1>2 DEF HistoryInv
        <5>. QED
          BY <5>1 DEF Made
      <4>. QED
        BY <1>4, <4>1
    <3>. QED
      BY <1>1, <1>4, <3>1, TipAdded
  <2>. SUFFICES ASSUME NEW i \in DOMAIN main', i > 1
                PROVE  main'[i - 1] \in commits'[main'[i]].past
    OBVIOUS
  <2>2. CASE i \in DOMAIN main
    <3>1. i - 1 \in DOMAIN main
      BY <1>3, <2>2
    <3>2. main[i - 1] \in Past(main[i]) /\ main[i] \in Made
      BY <1>1, <1>3, <2>2 DEF GraphInv
    <3>3. \A c \in Made : commits'[c].past = commits[c].past
      BY <1>4 DEF Past
    <3>. QED
      BY <1>3, <1>4, <2>1, <2>2, <3>1, <3>2, <3>3 DEF Past
  <2>3. CASE i = Len(main) + 1
    <3>1. main'[i - 1] = Tip /\ main'[i] = n
      BY <1>3, <2>1, <2>3 DEF Tip
    <3>. QED
      BY <1>4, <3>1 DEF Past
  <2>. QED
    BY <1>3, <2>1, <2>2, <2>3
<1>5. CASE Points
  <2>1. commits' = commits
    BY <1>5 DEF Points
  <2>2. TreesInv'
    BY <1>1, <2>1 DEF TreesInv, Made, TreeOf
  <2>3. /\ Made' = Made
        /\ \A c \in Made : Past(c)' = Past(c) /\ commits'[c].parents = commits[c].parents
    BY <2>1 DEF Made, Past
  <2>4. \A i \in DOMAIN main' : i > 1 => main'[i - 1] \in commits'[main'[i]].past
    <3>1. CASE main' = main
      BY <1>1, <2>1, <3>1 DEF GraphInv, Past
    <3>2. CASE main' = Append(main, head) /\ Tip \in Past(head)
      BY <1>3, <1>4, <2>3, <3>2
    <3>. QED
      BY <1>5, <3>1, <3>2 DEF Points
  <2>5. GraphInv'
    BY <1>1, <2>1, <2>3, <2>4 DEF GraphInv, Past, Made
  <2>. QED
    BY <1>2, <2>2, <2>5 DEF TreeInv
<1>6. CASE \E tree, parents : Commits(tree, parents)
  <2>1. PICK tree, parents : Commits(tree, parents)
    BY <1>6
  <2>2. /\ TreesInv'
        /\ \A c \in Made' : /\ c \in Past(c)'
                            /\ commits'[c].parents \subseteq Past(c)'
                            /\ \A p \in Past(c)' : Past(p)' \subseteq Past(c)'
        /\ \A c \in Made : Past(c)' = Past(c)
        /\ parents \subseteq commits'[Fresh].past
    BY <1>1, <2>1, CommitFormed
  <2>3. \A i \in DOMAIN main' : i > 1 => main'[i - 1] \in commits'[main'[i]].past
    <3>1. CASE main' = main
      <4>1. \A i \in DOMAIN main : i > 1 => i - 1 \in DOMAIN main
        BY <1>3
      <4>. QED
        BY <1>1, <1>3, <2>2, <3>1 DEF GraphInv, Past
    <3>2. CASE main' = Append(main, Fresh) /\ Tip \in parents
      <4>1. PICK n \in Nat : n = Fresh
        BY <1>1, Numbers DEF Fresh
      <4>2. n \in Made'
        BY <1>1, <2>1, <4>1, CommitAdded DEF Commits
      <4>3. main' = Append(main, n) /\ Tip \in Past(n)'
        BY <2>2, <3>2, <4>1 DEF Past
      <4>. QED
        BY <1>4, <2>2, <4>2, <4>3
    <3>. QED
      BY <2>1, <3>1, <3>2 DEF Commits
  <2>4. GraphInv'
    BY <2>2, <2>3 DEF GraphInv, Past
  <2>. QED
    BY <1>2, <2>2, <2>4 DEF TreeInv
<1>. QED
  BY <1>1, <1>5, <1>6, StepShape

\* Initially there is the root commit.
LEMMA TreeInit ==
  ASSUME Init
  PROVE  TreeInv
<1> DEFINE T == [tree : Tree, parents : SUBSET Commit, past : SUBSET Commit]
<1>1. PICK root : root = [tree |-> RootTree, parents |-> {}, past |-> {1}]
  OBVIOUS
<1>2. commits = <<root>> /\ main = <<1>> /\ head = 1
  BY <1>1 DEF Init, HistoryInit
<1>3. 1 \in Commit
  BY ReviewAssumption DEF Commit
<1>4. WellFormed(RootTree)
  <2>1. RootTree \in Tree /\ RootTree.rounds = {}
    BY DEF RootTree, Tree
  <2>2. IsFiniteSet(RootTree.rounds)
    BY <2>1, FS_EmptySet
  <2>. QED
    BY <2>1, <2>2 DEF WellFormed, OnePerPath
<1>5. root \in T
  BY <1>1, <1>3, <1>4 DEF WellFormed
<1>6. commits \in Seq(T) /\ Len(commits) = 1 /\ Made = {1} /\ commits[1] = root
  <2>. HIDE DEF T
  <2>. QED
    BY <1>2, <1>5 DEF Made
<1>7. TreesInv
  BY <1>1, <1>3, <1>4, <1>6 DEF TreesInv, TreeOf
<1>8. GraphInv
  <2>1. commits[1].parents = {} /\ commits[1].past = {1}
    BY <1>1, <1>6
  <2>2. \A i \in DOMAIN main : i = 1
    BY <1>2
  <2>3. Past(1) = {1}
    BY <2>1 DEF Past
  <2>. QED
    BY <1>6, <2>1, <2>2, <2>3 DEF GraphInv
<1>. QED
  BY <1>7, <1>8, InitBoundary DEF TreeInv, BoundaryInv

\* A step of the boundary run leaves the history as it is.
LEMMA TreeNext ==
  ASSUME TreeInv, [Next]_vars
  PROVE  TreeInv' /\ Grows
<1>1. CASE UNCHANGED history
  <2>1. TreeInv'
    BY <1>1 DEF history, TreeInv, HistoryInv, TreesInv, GraphInv, Made, Past, TreeOf
  <2>2. Grows
    BY <1>1 DEF history, Grows, Made
  <2>. QED
    BY <2>1, <2>2
<1>2. CASE Moves
  BY <1>2, TreeStep DEF Moves
<1>3. UNCHANGED history \/ Moves
  BY DEF Next, vars, Dispatch, ReadBranch, RereadPull, RereadBranch, Goes
<1>. QED
  BY <1>1, <1>2, <1>3

\* The variables hold what they are declared to hold.
THEOREM TypeCorrect == Spec => []TypeOK
<1> DEFINE Inv == BoundaryInv /\ TreeInv /\ together \in BOOLEAN
<1>1. Init => Inv
  BY InitBoundary, TreeInit DEF Init
<1>2. Inv /\ [Next]_vars => Inv'
  <2>. SUFFICES ASSUME Inv, [Next]_vars PROVE Inv'
    OBVIOUS
  <2>1. BoundaryInv' /\ TreeInv'
    BY BoundaryStep, TreeNext
  <2>2. together' \in BOOLEAN
    BY DEF Next, vars, Dispatch, ReadBranch, RereadPull, RereadBranch, Goes, Moves
  <2>. QED
    BY <2>1, <2>2
<1>3. Inv => TypeOK
  <2>. SUFFICES ASSUME Inv PROVE TypeOK
    OBVIOUS
  <2>1. main \in Seq(Made)
    <3>1. main \in Seq(Nat) /\ \A i \in DOMAIN main : main[i] \in Made
      BY DEF BoundaryInv, HistoryInv
    <3>. QED
      BY <3>1
  <2>2. HistoryOK
    BY <2>1 DEF BoundaryInv, HistoryInv, TreeInv, TreesInv, HistoryOK
  <2>. QED
    BY <2>2 DEF BoundaryInv, RunInv, TypeOK
<1>. QED
  BY <1>1, <1>2, <1>3, PTL DEF Spec

-----------------------------------------------------------------------------
(* Rounds were reviews.                                                     *)

\* A set goes one to one into any set that a larger one goes into so.
LEMMA FewerGo ==
  ASSUME NEW S, NEW T, NEW U, T \subseteq S, ExistsInjection(S, U)
  PROVE  ExistsInjection(T, U)
<1>1. [x \in T |-> x] \in Injection(T, S)
  <2>1. [x \in T |-> x] \in [T -> S]
    OBVIOUS
  <2>2. \A x, y \in T : [z \in T |-> z][x] = [z \in T |-> z][y] => x = y
    OBVIOUS
  <2>. QED
    BY <2>1, <2>2, Fun_IsInj
<1>2. ExistsInjection(T, S)
  BY <1>1, Fun_ExistsInj
<1>. QED
  BY <1>2, Fun_ExistsInjTransitive

\* An admitted round was the current review.
LEMMA AdmittedWasCurrent ==
  ASSUME TreeInv, NEW b \in Made, NEW h \in Made, NEW q, Admitted(b, h, q)
  PROVE  WasCurrent(q.doc, h)
<1>1. PICK c \in Past(h) \ Past(b) : Witness(c, q)
  BY DEF Admitted
<1>2. PICK p \in commits[c].parents : TreeOf(p).review = q.doc
  BY <1>1 DEF Witness
<1>3. c \in Made
  <2>1. Past(h) \subseteq 1 .. h /\ Made = 1 .. Len(commits) /\ Len(commits) \in Nat
    BY Numbers DEF TreeInv, HistoryInv
  <2>. QED
    BY <1>1, <2>1
<1>4. p \in Past(c) /\ Past(c) \subseteq Past(h)
  BY <1>1, <1>2, <1>3 DEF TreeInv, GraphInv
<1>. QED
  BY <1>2, <1>4 DEF WasCurrent

\* The rounds of a window that nobody's review became are all unproved: the
\* check lets them by only as git pairs each with another file that is gone.
LEMMA AuthoredAreUnproved ==
  ASSUME TreeInv, NEW b \in Made, NEW h \in Made
  PROVE  Authored(b, h) \subseteq Unproved(b, h)
<1>. SUFFICES ASSUME NEW r \in Added(b, h), ~WasCurrent(r.doc, h),
                     r.doc \notin {q.doc : q \in Live(TreeOf(b))}
              PROVE  ~Admitted(b, h, r) /\ ~ArchivedFromLive(b, h, r)
  BY DEF Authored, Unproved
<1>1. ~Admitted(b, h, r)
  BY AdmittedWasCurrent
<1>2. ~ArchivedFromLive(b, h, r)
  <2>. SUFFICES ASSUME ArchivedFromLive(b, h, r) PROVE FALSE
    OBVIOUS
  <2>1. Moved(r, "live") \in TreeOf(b).rounds
    BY DEF ArchivedFromLive
  <2>2. Moved(r, "live") \in Live(TreeOf(b)) /\ Moved(r, "live").doc = r.doc
    BY <2>1 DEF Live, Moved
  <2>. QED
    BY <2>2
<1>. QED
  BY <1>1, <1>2

\* One push that passes: a round of the live change, or one the push brings,
\* has its bytes from a live round of the tip before, or from a current
\* review that the new tip descends from, or is one of those that a rename
\* let by.
LEMMA PushBrings ==
  ASSUME TreeInv, NEW b \in Made, NEW h \in Made, b \in Past(h), Passes(b, h),
         NEW r \in Live(TreeOf(h)) \cup Added(b, h)
  PROVE  \/ \E q \in Live(TreeOf(b)) : q.doc = r.doc
         \/ WasCurrent(r.doc, h)
         \/ r.doc \in Renamed(b, h)
<1>1. OnePerPath(TreeOf(b).rounds) /\ OnePerPath(TreeOf(h).rounds)
  BY DEF TreeInv, TreesInv, WellFormed
<1>2. KeepsRounds(b, h) /\ ExistsInjection(Unproved(b, h), Gone(b, h))
  BY DEF Passes, AdmitsOnlyReviews
<1>3. r \in TreeOf(h).rounds
  BY DEF Live, Added
<1>4. CASE r \in Added(b, h)
  <2>. SUFFICES ASSUME r \in Authored(b, h) PROVE r.doc \in Renamed(b, h)
    BY <1>4 DEF Authored
  <2>1. ExistsInjection(Authored(b, h), Gone(b, h))
    BY <1>2, AuthoredAreUnproved, FewerGo
  <2>. QED
    BY <2>1 DEF Renamed
<1>5. CASE r \in Live(TreeOf(h)) /\ HasPath(TreeOf(b), r)
  <2>1. PICK q \in TreeOf(b).rounds : Path(q) = Path(r)
    BY <1>5 DEF HasPath
  <2>2. q \in Live(TreeOf(b))
    BY <1>5, <2>1 DEF Live, Path
  <2>3. HasPath(TreeOf(h), q)
    BY <1>3, <2>1 DEF HasPath
  <2>4. q \in TreeOf(h).rounds
    BY <1>2, <2>2, <2>3 DEF KeepsRounds
  <2>5. q = r
    BY <1>1, <1>3, <2>1, <2>4 DEF OnePerPath
  <2>. QED
    BY <2>2, <2>5
<1>. QED
  BY <1>3, <1>4, <1>5 DEF Added

\* What the commits say stays as it is.
CommitsStay ==
  /\ \A c \in Made : /\ TreeOf(c)' = TreeOf(c) /\ Past(c)' = Past(c)
                     /\ commits'[c].parents = commits[c].parents
  /\ \A b, h \in Made : /\ Passes(b, h)' <=> Passes(b, h)
                        /\ Added(b, h)' = Added(b, h)
                        /\ Renamed(b, h)' = Renamed(b, h)
  /\ \A h \in Made : \A d : WasCurrent(d, h)' <=> WasCurrent(d, h)

LEMMA Stays ==
  ASSUME TreeInv, Grows
  PROVE  CommitsStay
<1>1. /\ \A c \in Made : Past(c) \subseteq Made
      /\ \A c \in Made : commits[c].parents \subseteq Made
  <2>1. Made = 1 .. Len(commits) /\ Len(commits) \in Nat
    BY Numbers DEF TreeInv
  <2>2. \A c \in Made : 1 .. c \subseteq Made
    BY <2>1
  <2>. QED
    BY <2>2 DEF TreeInv, HistoryInv, GraphInv
<1>2. \A c \in Made : /\ TreeOf(c)' = TreeOf(c) /\ Past(c)' = Past(c)
                      /\ commits'[c].parents = commits[c].parents
  BY DEF Grows, TreeOf, Past
<1>3. ASSUME NEW h \in Made, NEW d
      PROVE  WasCurrent(d, h)' <=> WasCurrent(d, h)
  BY <1>1, <1>2 DEF WasCurrent
<1>4. ASSUME NEW b \in Made, NEW h \in Made
      PROVE  /\ Passes(b, h)' <=> Passes(b, h)
             /\ Added(b, h)' = Added(b, h)
             /\ Renamed(b, h)' = Renamed(b, h)
  <2>1. /\ TreeOf(b)' = TreeOf(b) /\ TreeOf(h)' = TreeOf(h)
        /\ Past(b)' = Past(b) /\ Past(h)' = Past(h)
    BY <1>2
  <2>2. Added(b, h)' = Added(b, h) /\ Gone(b, h)' = Gone(b, h)
    BY <2>1 DEF Added, HasPath, Gone
  <2>3. \A r : ArchiveMove(b, h, r)' <=> ArchiveMove(b, h, r)
    BY <2>1 DEF ArchiveMove, WholeChangeArchived, Live
  <2>4. KeepsRounds(b, h)' <=> KeepsRounds(b, h)
    BY <2>1, <2>3 DEF KeepsRounds, Live, HasPath
  <2>5. \A r : ArchivedFromLive(b, h, r)' <=> ArchivedFromLive(b, h, r)
    BY <2>1, <2>3 DEF ArchivedFromLive
  <2>6. \A c \in Past(h) : \A r : Witness(c, r)' <=> Witness(c, r)
    <3>1. \A c \in Past(h) : /\ TreeOf(c)' = TreeOf(c)
                             /\ commits'[c].parents = commits[c].parents
                             /\ \A p \in commits[c].parents : TreeOf(p)' = TreeOf(p)
      BY <1>1, <1>2
    <3>. QED
      BY <3>1 DEF Witness, HasPath
  <2>7. \A r : Admitted(b, h, r)' <=> Admitted(b, h, r)
    BY <2>1, <2>6 DEF Admitted
  <2>8. Unproved(b, h)' = Unproved(b, h)
    BY <2>2, <2>5, <2>7 DEF Unproved
  <2>9. AdmitsOnlyReviews(b, h)' <=> AdmitsOnlyReviews(b, h)
    BY <2>2, <2>8 DEF AdmitsOnlyReviews
  <2>10. Authored(b, h)' = Authored(b, h)
    BY <1>3, <2>1, <2>2 DEF Authored, Live
  <2>11. Renamed(b, h)' = Renamed(b, h)
    BY <2>2, <2>10 DEF Renamed
  <2>. QED
    BY <2>2, <2>4, <2>9, <2>11 DEF Passes
<1>. QED
  BY <1>2, <1>3, <1>4 DEF CommitsStay

\* What RoundsWereReviews says of one tip.
Reviewed(i) ==
  \A r \in Live(TreeOf(main[i])) \cup Brought(i) :
    \/ WasCurrent(r.doc, main[i])
    \/ \E k \in 2 .. i : r.doc \in Renamed(main[k - 1], main[k])

ReviewedInv == \A i \in DOMAIN main : Green(i) => Reviewed(i)

ReviewedOn ==
  \A n \in Nat : /\ n \in DOMAIN main /\ n + 1 \in DOMAIN main
                 /\ Reviewed(n) /\ Passes(main[n], main[n + 1])
                 => Reviewed(n + 1)

\* A passing push takes what is proved of a tip to the next.
LEMMA ReviewedNext ==
  ASSUME TreeInv
  PROVE  ReviewedOn
<1> SUFFICES ASSUME NEW n \in Nat, n \in DOMAIN main, n + 1 \in DOMAIN main,
                    Reviewed(n), Passes(main[n], main[n + 1]),
                    NEW r \in Live(TreeOf(main[n + 1])) \cup Brought(n + 1)
             PROVE  \/ WasCurrent(r.doc, main[n + 1])
                    \/ \E k \in 2 .. n + 1 : r.doc \in Renamed(main[k - 1], main[k])
  BY DEF ReviewedOn, Reviewed
<1>1. DOMAIN main = 1 .. Len(main) /\ Len(main) \in Nat
  BY Numbers DEF TreeInv
<1>2. PICK b \in Made : b = main[n]
  BY DEF TreeInv, HistoryInv
<1>3. PICK h \in Made : h = main[n + 1]
  BY DEF TreeInv, HistoryInv
<1>4. n + 1 > 1 /\ (n + 1) - 1 = n /\ n + 1 \in 2 .. n + 1
  BY <1>1
<1>5. b \in Past(h)
  BY <1>2, <1>3, <1>4 DEF TreeInv, GraphInv
<1>6. r \in Live(TreeOf(h)) \cup Added(b, h)
  BY <1>2, <1>3, <1>4 DEF Brought
<1>7. \/ \E q \in Live(TreeOf(b)) : q.doc = r.doc
      \/ WasCurrent(r.doc, h)
      \/ r.doc \in Renamed(b, h)
  BY <1>2, <1>3, <1>5, <1>6, PushBrings
<1>8. ASSUME NEW q \in Live(TreeOf(b)), q.doc = r.doc
      PROVE  \/ WasCurrent(r.doc, h)
             \/ \E k \in 2 .. n + 1 : r.doc \in Renamed(main[k - 1], main[k])
  <2>1. WasCurrent(q.doc, b) => WasCurrent(q.doc, h)
    BY <1>5 DEF WasCurrent, TreeInv, GraphInv
  <2>2. 2 .. n \subseteq 2 .. n + 1
    OBVIOUS
  <2>. QED
    BY <1>2, <1>8, <2>1, <2>2 DEF Reviewed
<1>. QED
  BY <1>2, <1>3, <1>4, <1>7, <1>8

\* Every step keeps what is proved of the tips.
LEMMA ReviewedStep ==
  ASSUME TreeInv, TreeInv', Grows, ReviewedInv, ReviewedOn'
  PROVE  ReviewedInv'
<1>1. /\ DOMAIN main = 1 .. Len(main) /\ Len(main) \in Nat /\ Len(main) >= 1
      /\ \A i \in DOMAIN main : main[i] \in Made
  BY Numbers DEF TreeInv, HistoryInv
<1>2. CommitsStay
  BY Stays
<1>3. \A i \in DOMAIN main : main'[i] = main[i]
  BY DEF Grows
<1>4. ASSUME NEW i \in DOMAIN main, Green(i)' PROVE Green(i)
  <2>. SUFFICES ASSUME NEW k \in 2 .. i PROVE Passes(main[k - 1], main[k])
    BY DEF Green
  <2>1. k \in DOMAIN main /\ k - 1 \in DOMAIN main
    BY <1>1
  <2>2. PICK b \in Made : b = main[k - 1]
    BY <1>1, <2>1
  <2>3. PICK h \in Made : h = main[k]
    BY <1>1, <2>1
  <2>4. Passes(main[k - 1], main[k])'
    BY <1>4 DEF Green
  <2>5. main'[k - 1] = b /\ main'[k] = h
    BY <1>3, <2>1, <2>2, <2>3
  <2>6. Passes(b, h)'
    BY <2>4, <2>5
  <2>. QED
    BY <1>2, <2>2, <2>3, <2>6 DEF CommitsStay
<1>5. ASSUME NEW k \in DOMAIN main, k > 1
      PROVE  /\ \A d : WasCurrent(d, main[k])' <=> WasCurrent(d, main[k])
             /\ Added(main[k - 1], main[k])' = Added(main[k - 1], main[k])
             /\ Renamed(main[k - 1], main[k])' = Renamed(main[k - 1], main[k])
  <2>1. k - 1 \in DOMAIN main
    BY <1>1, <1>5
  <2>2. PICK b \in Made : b = main[k - 1]
    BY <1>1, <2>1
  <2>3. PICK h \in Made : h = main[k]
    BY <1>1
  <2>4. main'[k - 1] = b /\ main'[k] = h
    BY <1>3, <2>1, <2>2, <2>3
  <2>5. \A d : WasCurrent(d, main[k])' <=> WasCurrent(d, h)'
    BY <2>4
  <2>6. Added(main[k - 1], main[k])' = Added(b, h)'
    BY <2>4
  <2>7. Renamed(main[k - 1], main[k])' = Renamed(b, h)'
    BY <2>4
  <2>. QED
    BY <1>2, <2>2, <2>3, <2>5, <2>6, <2>7 DEF CommitsStay
<1>6. ASSUME NEW i \in DOMAIN main, Reviewed(i) PROVE Reviewed(i)'
  <2>1. PICK h \in Made : h = main[i]
    BY <1>1
  <2>2. TreeOf(main[i])' = TreeOf(main[i]) /\ main'[i] = h
    <3>1. TreeOf(main[i])' = TreeOf(h)'
      BY <1>3, <2>1
    <3>. QED
      BY <1>2, <1>3, <2>1, <3>1 DEF CommitsStay
  <2>3. Brought(i)' = Brought(i)
    BY <1>5 DEF Brought
  <2>4. Live(TreeOf(main[i]))' = Live(TreeOf(main[i]))
    BY <2>2 DEF Live
  <2>5. \A d : WasCurrent(d, main[i])' <=> WasCurrent(d, main[i])
    <3>1. \A d : WasCurrent(d, main[i])' <=> WasCurrent(d, h)'
      BY <2>2
    <3>. QED
      BY <1>2, <2>1, <3>1 DEF CommitsStay
  <2>6. \A k \in 2 .. i : Renamed(main[k - 1], main[k])' = Renamed(main[k - 1], main[k])
    <3>1. \A k \in 2 .. i : k \in DOMAIN main /\ k > 1
      BY <1>1
    <3>. QED
      BY <1>5, <3>1
  <2>. QED
    BY <1>6, <2>3, <2>4, <2>5, <2>6 DEF Reviewed
<1>. SUFFICES ASSUME NEW i \in DOMAIN main', Green(i)' PROVE Reviewed(i)'
  BY DEF ReviewedInv
<1>7. CASE i \in DOMAIN main
  BY <1>4, <1>6, <1>7 DEF ReviewedInv
<1>8. CASE i \notin DOMAIN main
  <2>1. main' /= main
    BY <1>8
  <2>2. PICK n \in Nat : n = Len(main)
    BY <1>1
  <2>3. DOMAIN main' = 1 .. n + 1
    <3>1. main' \in Seq(Nat)
      BY DEF TreeInv, HistoryInv
    <3>. QED
      BY <2>1, <2>2, <3>1 DEF Grows
  <2>4. i = n + 1 /\ n \in DOMAIN main
    BY <1>1, <1>8, <2>2, <2>3
  <2>5. Passes(main[n], main[n + 1])'
    <3>1. i \in 2 .. i /\ i - 1 = n
      BY <1>1, <2>2, <2>4
    <3>. QED
      BY <2>4, <3>1 DEF Green
  <2>6. Green(n)'
    <3>1. \A k \in 2 .. n : k \in 2 .. i
      BY <2>4
    <3>. QED
      BY <3>1 DEF Green
  <2>7. Reviewed(n)'
    BY <1>4, <1>6, <2>4, <2>6 DEF ReviewedInv
  <2>8. n \in DOMAIN main' /\ n + 1 \in DOMAIN main'
    BY <1>1, <2>2, <2>3
  <2>. QED
    BY <2>4, <2>5, <2>7, <2>8 DEF ReviewedOn
<1>. QED
  BY <1>7, <1>8

\* The history is well formed, and its passed tips hold only reviews.
LEMMA ReviewedForever == Spec => [](TreeInv /\ ReviewedInv)
<1>1. Init => TreeInv /\ ReviewedInv
  <2>. SUFFICES ASSUME Init PROVE TreeInv /\ ReviewedInv
    OBVIOUS
  <2>1. main = <<1>> /\ commits[1].tree = RootTree
    BY DEF Init, HistoryInit
  <2>2. \A i \in DOMAIN main : i = 1 /\ main[i] = 1 /\ Brought(i) = {}
    BY <2>1 DEF Brought
  <2>3. Live(TreeOf(1)) = {}
    BY <2>1 DEF Live, TreeOf, RootTree
  <2>. QED
    BY <2>2, <2>3, TreeInit DEF ReviewedInv, Reviewed
<1>2. TreeInv /\ ReviewedInv /\ ReviewedOn' /\ [Next]_vars => TreeInv' /\ ReviewedInv'
  BY TreeNext, ReviewedStep
<1>3. TreeInv => ReviewedOn
  BY ReviewedNext
<1>4. TreeInv /\ [Next]_vars => TreeInv'
  BY TreeNext
<1>5. Init => TreeInv
  BY TreeInit
<1>. QED
  BY <1>1, <1>2, <1>3, <1>4, <1>5, PTL DEF Spec

\* Where every push to the default branch passed the check of two revisions,
\* the rounds of the live change and those a push brings were each once the
\* current review, whatever was done on branches and by merges in between;
\* but for rounds that a push brought in the place of as many other files.
THEOREM RoundsOfReviews == Spec => []RoundsWereReviews
<1>1. TreeInv /\ ReviewedInv => RoundsWereReviews
  BY DEF ReviewedInv, Reviewed, RoundsWereReviews
<1>. QED
  BY <1>1, ReviewedForever, PTL

-----------------------------------------------------------------------------
(* The epochs of an established boundary.                                   *)

\* What the gate verified of the candidate stays true.
VerifiedInv ==
  /\ TreeInv
  /\ cand \in Made
  /\ stage /= "none" => /\ base \in Made /\ base \in Past(cand)
                        /\ EpochsBefore(TreeOf(cand), TreeOf(cand).review.epoch)

LEMMA VerifiedStep ==
  ASSUME VerifiedInv, [Next]_vars
  PROVE  VerifiedInv'
<1>1. TreeInv /\ TreeInv' /\ Grows
  BY TreeNext DEF VerifiedInv
<1>2. Made \subseteq Made' /\ head \in Made /\ 1 \in Made /\ Tip \in Made
  <2>1. Made = 1 .. Len(commits) /\ Len(commits) \in Nat /\ Len(commits) >= 1 /\ Tip \in Made
    BY <1>1, Numbers DEF TreeInv, HistoryInv
  <2>. QED
    BY <1>1, <2>1 DEF TreeInv, HistoryInv, Grows
<1>3. \A c \in Made : TreeOf(c)' = TreeOf(c) /\ Past(c)' = Past(c)
  BY <1>1, Stays DEF CommitsStay
<1>4. ASSUME stage' = stage, base' = base, cand' = cand
      PROVE  VerifiedInv'
  <2>1. TreeOf(cand)' = TreeOf(cand) /\ Past(cand)' = Past(cand)
    <3>1. PICK c \in Made : c = cand
      BY DEF VerifiedInv
    <3>2. TreeOf(cand)' = TreeOf(c)' /\ Past(cand)' = Past(c)'
      BY <1>4, <3>1
    <3>. QED
      BY <1>3, <3>1, <3>2
  <2>2. ASSUME NEW t, NEW n, EpochsBefore(t, n) PROVE EpochsBefore(t, n)'
    BY <1>2, <2>2 DEF EpochsBefore, Admissible, CitesCommit
  <2>3. stage /= "none" => EpochsBefore(TreeOf(cand), TreeOf(cand).review.epoch)'
    <3>. SUFFICES ASSUME stage /= "none"
                  PROVE EpochsBefore(TreeOf(cand), TreeOf(cand).review.epoch)'
      OBVIOUS
    <3>1. PICK t : t = TreeOf(cand)
      OBVIOUS
    <3>2. EpochsBefore(t, t.review.epoch)
      BY <3>1 DEF VerifiedInv
    <3>3. EpochsBefore(t, t.review.epoch)'
      BY <2>2, <3>2
    <3>. QED
      BY <2>1, <3>1, <3>3
  <2>. QED
    BY <1>1, <1>2, <1>4, <2>1, <2>3 DEF VerifiedInv
<1>5. ASSUME stage' = "none", cand' = 1
      PROVE  VerifiedInv'
  BY <1>1, <1>2, <1>5 DEF VerifiedInv
<1>6. CASE Dispatch
  <2>1. Verified(head, Tip) /\ base' = Tip /\ cand' = head /\ commits' = commits
    BY <1>6 DEF Dispatch, history
  <2>2. Tip \in Past(head) /\ EpochsBefore(TreeOf(head), TreeOf(head).review.epoch)
    BY <2>1 DEF Verified, MadeAgainst
  <2>. QED
    BY <1>1, <1>2, <2>1, <2>2
       DEF VerifiedInv, EpochsBefore, Admissible, CitesCommit, Made, TreeOf, Past
<1>7. CASE ReadBranch \/ RereadPull \/ RereadBranch
  <2>1. \/ stage' = "none" /\ cand' = 1
        \/ /\ stage /= "none" /\ base' = base /\ cand' = cand
           /\ commits' = commits
    BY <1>7 DEF ReadBranch, RereadPull, RereadBranch, Goes, history
  <2>2. ASSUME stage /= "none", base' = base, cand' = cand, commits' = commits
        PROVE  VerifiedInv'
    BY <1>1, <2>2
       DEF VerifiedInv, EpochsBefore, Admissible, CitesCommit, Made, TreeOf, Past
  <2>. QED
    BY <1>5, <2>1, <2>2
<1>8. CASE Moves \/ UNCHANGED vars
  BY <1>4, <1>8 DEF Moves, vars
<1>. QED
  BY <1>6, <1>7, <1>8 DEF Next

\* A boundary that is established, on a default branch whose every push
\* passed, for a head that passes against it, has behind each earlier epoch an
\* accepted review that was the current one, or one that came in the place of
\* another file: one revision's names and numbers, which are all the gate
\* looks at, and the check of two revisions together leave no other way.
THEOREM EpochsOfReviews == Spec => []EpochsWereReviewed
<1>1. Init => VerifiedInv
  <2>. SUFFICES ASSUME Init PROVE VerifiedInv
    OBVIOUS
  <2>1. TreeInv
    BY TreeInit
  <2>2. head \in Made /\ head = 1 /\ cand = 1 /\ stage = "none"
    BY <2>1 DEF TreeInv, HistoryInv, Init, HistoryInit
  <2>. QED
    BY <2>1, <2>2 DEF VerifiedInv
<1>2. VerifiedInv /\ [Next]_vars => VerifiedInv'
  BY VerifiedStep
<1>3. VerifiedInv /\ ReviewedInv => EpochsWereReviewed
  <2>. SUFFICES ASSUME VerifiedInv, ReviewedInv, stage = "established",
                       NEW i \in DOMAIN main, main[i] = base, Green(i), Passes(base, cand),
                       NEW n \in 1 .. TreeOf(cand).review.epoch - 1
                PROVE  \E d \in {TreeOf(p).review : p \in Past(cand)} \cup Renamed(base, cand)
                               \cup UNION {Renamed(main[k - 1], main[k]) : k \in 2 .. i} :
                         d /= None /\ d.accepted /\ d.epoch = n
    BY DEF EpochsWereReviewed
  <2>1. PICK r \in Live(TreeOf(cand)) : r.epoch = n /\ Admissible(r)
    BY DEF VerifiedInv, EpochsBefore
  <2>2. /\ TreeInv /\ base \in Made /\ cand \in Made /\ base \in Past(cand)
    BY DEF VerifiedInv
  <2>3. \/ WasCurrent(r.doc, cand)
        \/ r.doc \in Renamed(base, cand)
        \/ \E k \in 2 .. i : r.doc \in Renamed(main[k - 1], main[k])
    <3>1. \/ \E q \in Live(TreeOf(base)) : q.doc = r.doc
          \/ WasCurrent(r.doc, cand)
          \/ r.doc \in Renamed(base, cand)
      BY <2>1, <2>2, PushBrings
    <3>2. ASSUME NEW q \in Live(TreeOf(base)), q.doc = r.doc
          PROVE  \/ WasCurrent(r.doc, cand)
                 \/ \E k \in 2 .. i : r.doc \in Renamed(main[k - 1], main[k])
      <4>1. Reviewed(i)
        BY DEF ReviewedInv
      <4>2. \/ WasCurrent(r.doc, base)
            \/ \E k \in 2 .. i : r.doc \in Renamed(main[k - 1], main[k])
        BY <3>2, <4>1 DEF Reviewed
      <4>3. WasCurrent(r.doc, base) => WasCurrent(r.doc, cand)
        BY <2>2 DEF WasCurrent, TreeInv, GraphInv
      <4>. QED
        BY <4>2, <4>3
    <3>. QED
      BY <3>1, <3>2
  <2>4. r.doc \in {TreeOf(p).review : p \in Past(cand)} \cup Renamed(base, cand)
                 \cup UNION {Renamed(main[k - 1], main[k]) : k \in 2 .. i}
    BY <2>3 DEF WasCurrent
  <2>5. r.doc \in Doc
    <3>1. TreeOf(cand) \in Tree
      BY <2>2 DEF TreeInv, TreesInv, WellFormed
    <3>. QED
      BY <2>1, <3>1 DEF Live, Tree, Round
  <2>6. r.doc /= None /\ r.doc.accepted /\ r.doc.epoch = n
    BY <2>1, <2>5, NoReview DEF Admissible, Accepting
  <2>. QED
    BY <2>4, <2>6
<1>. QED
  BY <1>1, <1>2, <1>3, ReviewedForever, PTL DEF Spec

=============================================================================
