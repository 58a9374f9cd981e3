-------------------------- MODULE WorkflowProofs --------------------------
(* What the two workflows that judge a pull request over a moving branch     *)
(* establish: tool maintenance and the proof of governed images.             *)
EXTENDS Maintenance, ImageProof, TLAPS

(***************************************************************************)
(* Tool maintenance.                                                         *)
(*                                                                           *)
(* What a merge on evidence may have moved, for every set of tools, classes  *)
(* and policies and any number of tips, pushes and runs.  Evidence says of   *)
(* a candidate what was shown of it on the tip it names; since the default   *)
(* branch only grows, it says so for ever, and the merge finds the same      *)
(* candidate and the same tip.                                               *)
(***************************************************************************)

Heads == [base : Nat, tree : Tree]

Results == {<<>>} \cup UNION {[S -> Exit] : S \in SUBSET Command}

Job == [stage : Stages, class : Class, sha : Nat, pred : Nat,
        cand : Heads \cup {Nobody}, results : Results, met : BOOLEAN]

Evidence == [cand : Heads, pred : Nat, class : Class, results : Results, met : BOOLEAN]

\* What evidence says, where p is the tree it was judged on.
Classified(p, e) == Classifies(p, e.cand.tree, e.class)

Ran(p, e) == EnvelopeHolds(p, e.cand.tree, e.class, e.results)

Resolves(e) == \A t \in Tool : e.cand.tree.lock[t].ver = e.cand.tree.pins[t]

Shown(p, e) == Classified(p, e) /\ Ran(p, e) /\ Resolves(e)

\* What each stage of a run has shown.
ReadStages == Stages \ {"queued", "pinned"}
ClassifiedStages == {"classified", "installed", "ran", "judged", "reread"}
InstalledStages == {"installed", "ran", "judged", "reread"}
RanStages == {"ran", "judged", "reread"}

\* A tip of the default branch.
Entry == [tree : Tree, by : Evidence \cup {Nobody}]

\* Every tip is a tree whose policy holds.
MainInv ==
  /\ main \in Seq(Entry)
  /\ Tip >= 1 /\ Tip <= MaxMain
  /\ \A i \in 1 .. Tip : PolicyHolds(TreeAt(i).policy)

\* The pull request starts from a tip.
HeadInv ==
  /\ head \in Heads /\ head.base \in 1 .. Tip
  /\ open \in BOOLEAN /\ pushes \in 0 .. MaxPushes /\ runs \in 0 .. MaxRuns

\* A run has shown what its stage says, and, as long as the tip is still its
\* predecessor, it was the predecessor when the head was read.
SoundRun(j) ==
  /\ j \in Job
  /\ j.pred \in 1 .. Tip
  /\ j.stage \in ReadStages => j.cand \in Heads
  /\ j.stage \in ReadStages /\ j.pred = Tip => j.met
  /\ j.stage \in ClassifiedStages => Classified(TreeAt(j.pred), j)
  /\ j.stage \in InstalledStages => Resolves(j)
  /\ j.stage \in RanStages => Ran(TreeAt(j.pred), j)

JobInv == job /= Nobody => SoundRun(job)

\* Evidence was shown on a tip there was, and met.
SoundEvidence(e) ==
  /\ e \in Evidence
  /\ e.pred \in 1 .. Tip
  /\ e.met
  /\ Shown(TreeAt(e.pred), e)

EvidenceInv == \A e \in evidence : SoundEvidence(e)

\* A merge on evidence landed the candidate's tree on the tip it was judged on.
MergedOn(p, c, e) == e \in Evidence /\ e.cand.tree = c /\ Shown(p, e)

MergedInv == \A i \in Maintained : MergedOn(TreeAt(i - 1), TreeAt(i), main[i].by)

IInv == MainInv /\ HeadInv /\ JobInv /\ EvidenceInv /\ MergedInv

-----------------------------------------------------------------------------
(* What the classifier admits, of any two trees.                            *)

LEMMA RowOf ==
  ASSUME NEW p \in Tree, NEW k \in Class
  PROVE  p.policy[k] \in Row
<1>1. p.policy \in Policies
  BY DEF Tree
<1>. QED
  BY <1>1, MaintenanceAssumption

\* What the class has no licence to move is equal in both, but for the file
\* whose loss the comparison takes for a rename.
LEMMA Undeclared ==
  ASSUME NEW p \in Tree, NEW c \in Tree, NEW row \in Row, Declared(p, c, row),
         NEW f \in {"verifier", "policy", "pins", "settings", "lock", "coverage",
                    "detail", "floor", "made", "other"},
         f \notin Allowed(row), f = "other" => ~ RenamedAway(p, c)
  PROVE  p[f] = c[f]
<1>1. f \in DOMAIN p \ {"inert", "unseen"}
  BY DEF Tree
<1>. QED
  BY <1>1 DEF Declared, Changed

\* The record of a tool that the class may not move is outside the closure.
LEMMA RecordStays ==
  ASSUME NEW p \in Tree, NEW c \in Tree, NEW row \in Row, NEW t \in Tool \ row.moves,
         RecordsOutside(p.lock, row.moves) = RecordsOutside(c.lock, row.moves)
  PROVE  p.lock[t] = c.lock[t]
<1> DEFINE pair == <<t, p.lock[t]>>
<1>1. t /= "lib"
  BY MaintenanceAssumption
<1>2. \A s \in row.moves : <<t, p.lock[t].ver>> \notin KeysOf(p.lock, s)
  BY <1>1 DEF KeysOf, Lib
<1>3. <<t, p.lock[t].ver>> \notin Closure(p.lock, row.moves)
  BY <1>2 DEF Closure
<1>4. pair \in RecordsOutside(p.lock, row.moves)
  BY <1>3 DEF RecordsOutside
<1>5. pair \in RecordsOutside(c.lock, row.moves)
  BY <1>4
<1>6. \A k \in Keys(c.lock) : k[1] = Lib => pair /= k
  BY <1>1 DEF Lib
<1>7. \E s \in Tool : pair = <<s, c.lock[s]>>
  BY <1>5, <1>6 DEF RecordsOutside
<1>. QED
  BY <1>7

\* A composite protects what its parts do.
LEMMA GuardsKept ==
  ASSUME NEW policy, PolicyHolds(policy), NEW k \in Class
  PROVE  Guarded(policy, k) = policy[k].guards
BY DEF PolicyHolds, PartsKept, Guarded

\* A class moves nothing but the pins of its tools, what is resolved for
\* them, and, if it may, mapping detail with what is generated from it.
LEMMA ClassMoves ==
  ASSUME NEW p \in Tree, NEW c \in Tree, NEW k \in Class, Classifies(p, c, k),
         PolicyHolds(p.policy)
  PROVE  LeftAlone(p, c, k)
<1> DEFINE row == p.policy[k]
<1>1. row \in Row
  BY RowOf
<1>2. Declared(p, c, row) /\ ProtectedHolds(p, c, row)
  BY DEF Classifies
<1>3. Guarded(p.policy, k) = row.guards
  BY GuardsKept
<1>. HIDE DEF row
<1>4. \A f \in {"verifier", "policy", "coverage", "floor"} : p[f] = c[f]
  BY <1>2 DEF ProtectedHolds
<1>5. row.detail \/ (p["detail"] = c["detail"] /\ p["made"] = c["made"])
  BY <1>1, <1>2, Undeclared DEF Allowed
<1>6. p["other"] = c["other"] \/ (row.detail /\ RenamedAway(p, c))
  <2>1. CASE RenamedAway(p, c)
    <3>1. p["made"] /= c["made"]
      BY <2>1 DEF RenamedAway
    <3>. QED
      BY <1>5, <2>1, <3>1
  <2>2. CASE ~ RenamedAway(p, c)
    BY <1>1, <1>2, <2>2, Undeclared DEF Allowed
  <2>. QED
    BY <2>1, <2>2
<1>7. row.moves = {} => \A f \in {"pins", "settings", "lock"} : p[f] = c[f]
  BY <1>1, <1>2, Undeclared DEF Allowed
<1>8. ASSUME "pins" \in row.guards
      PROVE  p.settings = c.settings /\ \A t \in Tool \ row.moves : p.pins[t] = c.pins[t]
  <2>1. p.settings = c.settings /\ PinsExcept(p, row.moves) = PinsExcept(c, row.moves)
    BY <1>2, <1>8 DEF ProtectedHolds
  <2>2. ASSUME NEW t \in Tool \ row.moves PROVE p.pins[t] = c.pins[t]
    <3>1. PinsExcept(p, row.moves)[t] = PinsExcept(c, row.moves)[t]
      BY <2>1
    <3>. QED
      BY <3>1 DEF PinsExcept
  <2>. QED
    BY <2>1, <2>2
<1>9. ASSUME "lock" \in row.guards, NEW t \in Tool \ row.moves
      PROVE  p.lock[t] = c.lock[t]
  <2>1. RecordsOutside(p.lock, row.moves) = RecordsOutside(c.lock, row.moves)
    BY <1>2, <1>9 DEF ProtectedHolds
  <2>. QED
    BY <1>1, <2>1, RecordStays
<1>. QED
  BY <1>3, <1>4, <1>5, <1>6, <1>7, <1>8, <1>9 DEF LeftAlone, row

\* The pack names what the class may move, and came out as expected.
LEMMA MovedWasJudged ==
  ASSUME NEW p \in Tree, NEW e \in Evidence, PolicyHolds(p.policy), Shown(p, e),
         NEW t \in p.policy[e.class].moves
  PROVE  /\ \E cmd \in DOMAIN e.results : cmd[1] = t
         /\ DOMAIN e.results = p.policy[e.class].runs
         /\ \A cmd \in DOMAIN e.results : cmd[2] = "success" <=> e.results[cmd] = 0
<1>1. e.class \in Class
  BY DEF Evidence
<1>2. DOMAIN e.results = p.policy[e.class].runs
  BY DEF Shown, Ran, EnvelopeHolds, Commands
<1>3. \E cmd \in DOMAIN e.results : cmd[1] = t
  BY <1>1, <1>2 DEF PolicyHolds
<1>4. \A cmd \in DOMAIN e.results : AsExpected(cmd, e.results[cmd])
  BY DEF Shown, Ran, EnvelopeHolds
<1>5. \A cmd \in DOMAIN e.results : cmd[2] = "success" <=> e.results[cmd] = 0
  BY <1>4 DEF AsExpected
<1>. QED
  BY <1>2, <1>3, <1>5

-----------------------------------------------------------------------------
(* The trees that land and that are pushed.                                 *)

LEMMA FieldChanged ==
  ASSUME NEW t \in Tree
  PROVE  /\ \A v \in BOOLEAN : [t EXCEPT !.verifier = v] \in Tree
         /\ \A v \in BOOLEAN : [t EXCEPT !.inert = v] \in Tree
         /\ \A v \in Policies : [t EXCEPT !.policy = v] \in Tree
         /\ \A v \in Text : [t EXCEPT !.settings = v] \in Tree
         /\ \A v \in Text : [t EXCEPT !.coverage = v] \in Tree
         /\ \A v \in Text : [t EXCEPT !.detail = v] \in Tree
         /\ \A v \in Text : [t EXCEPT !.floor = v] \in Tree
         /\ \A v \in Text : [t EXCEPT !.unseen = v] \in Tree
         /\ \A v \in [Tool -> Resolved] : [t EXCEPT !.lock = v] \in Tree
  BY DEF Tree

LEMMA FilesChanged ==
  ASSUME NEW t \in Tree, NEW o \in 0 .. 2
  PROVE  {[t EXCEPT !.other = o], [t EXCEPT !.made = 1],
          [t EXCEPT !.other = o, !.made = 1]} \subseteq Tree
<1>1. [t EXCEPT !.other = o] \in Tree /\ [t EXCEPT !.made = 1] \in Tree
  BY DEF Tree
<1>2. [t EXCEPT !.other = o, !.made = 1] \in Tree
  <2>. DEFINE u == [t EXCEPT !.other = o]
  <2>1. [u EXCEPT !.made = 1] \in Tree
    <3>. HIDE DEF u
    <3>1. u \in Tree
      BY <1>1 DEF u
    <3>. QED
      BY <3>1 DEF Tree
  <2>. QED
    BY <2>1
<1>. QED
  BY <1>1, <1>2

LEMMA BumpsAreTrees ==
  ASSUME NEW t \in Tree
  PROVE  Bumps(t) \subseteq Tree
<1>1. ASSUME NEW moved \in SUBSET Tool PROVE Bumped(t, moved) \in Tree
  <2> DEFINE pins == [s \in Tool |-> IF s \in moved THEN 3 - t.pins[s] ELSE t.pins[s]]
             lock == [s \in Tool |-> IF s \in moved
                                      THEN [t.lock[s] EXCEPT !.ver = 3 - @] ELSE t.lock[s]]
  <2>1. t.pins \in [Tool -> Version] /\ t.lock \in [Tool -> Resolved]
    BY DEF Tree
  <2>2. pins \in [Tool -> Version]
    BY <2>1 DEF Version
  <2>3. lock \in [Tool -> Resolved]
    <3>1. ASSUME NEW s \in Tool PROVE [t.lock[s] EXCEPT !.ver = 3 - @] \in Resolved
      <4>1. t.lock[s] \in Resolved
        BY <2>1
      <4>. QED
        BY <4>1 DEF Resolved, Version
    <3>. QED
      BY <2>1, <3>1
  <2>4. Bumped(t, moved) = [t EXCEPT !.pins = pins, !.lock = lock]
    BY DEF Bumped
  <2>. HIDE DEF pins, lock
  <2>. QED
    BY <2>2, <2>3, <2>4 DEF Tree
<1>. QED
  BY <1>1 DEF Bumps

LEMMA OneBumpedAreTrees ==
  ASSUME NEW t \in Tree
  PROVE  OneBumped(t) \subseteq Tree
<1>1. OneBumped(t) \subseteq Bumps(t)
  BY DEF OneBumped, Bumps
<1>. QED
  BY <1>1, BumpsAreTrees

LEMMA LandingsAreTrees ==
  ASSUME NEW t \in Tree
  PROVE  Landings(t) \subseteq Tree
<1>1. t.verifier \in BOOLEAN /\ t.floor \in Text
  BY DEF Tree
<1>2. (~ t.verifier) \in BOOLEAN /\ 3 - t.floor \in Text
  BY <1>1 DEF Text
<1>3. [t EXCEPT !.verifier = ~ @] \in Tree /\ [t EXCEPT !.floor = 3 - @] \in Tree
  BY <1>2, FieldChanged
<1>4. {[t EXCEPT !.policy = p] : p \in Policies} \subseteq Tree
  BY FieldChanged
<1>. QED
  BY <1>3, <1>4, OneBumpedAreTrees DEF Landings

LEMMA DriftsAreTrees ==
  ASSUME NEW t \in Tree
  PROVE  Drifts(t) \subseteq Tree
<1>1. /\ t.verifier \in BOOLEAN /\ t.inert \in BOOLEAN /\ t.lock \in [Tool -> Resolved]
      /\ t.settings \in Text /\ t.coverage \in Text /\ t.detail \in Text
      /\ t.floor \in Text /\ t.unseen \in Text
  BY DEF Tree
<1>2. \A v \in Text : 3 - v \in Text
  BY DEF Text
<1>3. /\ [t EXCEPT !.verifier = ~ @] \in Tree /\ [t EXCEPT !.inert = ~ @] \in Tree
      /\ [t EXCEPT !.settings = 3 - @] \in Tree /\ [t EXCEPT !.coverage = 3 - @] \in Tree
      /\ [t EXCEPT !.detail = 3 - @] \in Tree /\ [t EXCEPT !.floor = 3 - @] \in Tree
      /\ [t EXCEPT !.unseen = 3 - @] \in Tree
  BY <1>1, <1>2, FieldChanged
<1>4. {[t EXCEPT !.policy = p] : p \in Policies} \subseteq Tree
  BY FieldChanged
<1>5. UNION {{[t EXCEPT !.other = o], [t EXCEPT !.made = 1],
               [t EXCEPT !.other = o, !.made = 1]} : o \in 0 .. 2} \subseteq Tree
  <2>. DEFINE S(o) == {[t EXCEPT !.other = o], [t EXCEPT !.made = 1],
                       [t EXCEPT !.other = o, !.made = 1]}
  <2>1. \A o \in 0 .. 2 : S(o) \subseteq Tree
    BY FilesChanged
  <2>. HIDE DEF S
  <2>2. UNION {S(o) : o \in 0 .. 2} \subseteq Tree
    BY <2>1
  <2>. QED
    BY <2>2 DEF S
<1>6. ASSUME NEW s \in Tool, NEW r \in Resolved
      PROVE  [t EXCEPT !.lock[s] = r] \in Tree
  <2>1. [t.lock EXCEPT ![s] = r] \in [Tool -> Resolved]
    BY <1>1
  <2>2. [t EXCEPT !.lock[s] = r] = [t EXCEPT !.lock = [t.lock EXCEPT ![s] = r]]
    BY DEF Tree
  <2>. QED
    BY <2>1, <2>2, FieldChanged
<1>7. ASSUME NEW s \in Tool
      PROVE  /\ [t EXCEPT !.lock[s].bytes = 3 - @] \in Tree
             /\ [t EXCEPT !.lock[s].ver = 3 - @] \in Tree
             /\ \A v \in 0 .. 2 : [t EXCEPT !.lock[s].lib = v] \in Tree
  <2> DEFINE r == t.lock[s]
  <2>1. r \in Resolved
    BY <1>1
  <2>2. /\ [r EXCEPT !.bytes = 3 - @] \in Resolved /\ [r EXCEPT !.ver = 3 - @] \in Resolved
        /\ \A v \in 0 .. 2 : [r EXCEPT !.lib = v] \in Resolved
    <3>. HIDE DEF r
    <3>. QED
      BY <2>1 DEF Resolved, Text, Version
  <2>. QED
    BY <2>2, <1>6
<1>8. ASSUME NEW s \in Tool
      PROVE  /\ {[t EXCEPT !.lock[s].bytes = 3 - @], [t EXCEPT !.lock[s].ver = 3 - @]} \subseteq Tree
             /\ {[t EXCEPT !.lock[s].lib = v] : v \in 0 .. 2} \subseteq Tree
  BY <1>7
<1>9. UNION {{[t EXCEPT !.lock[s].bytes = 3 - @], [t EXCEPT !.lock[s].ver = 3 - @]}
             \cup {[t EXCEPT !.lock[s].lib = v] : v \in 0 .. 2} : s \in Tool} \subseteq Tree
  BY <1>8
<1>. DEFINE Fields == {[t EXCEPT !.verifier = ~ @], [t EXCEPT !.settings = 3 - @],
                      [t EXCEPT !.coverage = 3 - @], [t EXCEPT !.detail = 3 - @],
                      [t EXCEPT !.floor = 3 - @], [t EXCEPT !.unseen = 3 - @],
                      [t EXCEPT !.inert = ~ @]}
            Written == {[t EXCEPT !.policy = p] : p \in Policies}
            Files == UNION {{[t EXCEPT !.other = o], [t EXCEPT !.made = 1],
                             [t EXCEPT !.other = o, !.made = 1]} : o \in 0 .. 2}
            Locked == UNION {{[t EXCEPT !.lock[s].bytes = 3 - @], [t EXCEPT !.lock[s].ver = 3 - @]}
                             \cup {[t EXCEPT !.lock[s].lib = v] : v \in 0 .. 2} : s \in Tool}
<1>10. Fields \subseteq Tree
  BY <1>3
<1>11. Written \subseteq Tree /\ Files \subseteq Tree /\ Locked \subseteq Tree
  BY <1>4, <1>5, <1>9
<1>12. Drifts(t) = Fields \cup Written \cup Files \cup Locked
  BY DEF Drifts
<1>. HIDE DEF Fields, Written, Files, Locked
<1>. QED
  BY <1>10, <1>11, <1>12

\* Whatever is pushed starts from a tip there has been.
LEMMA PushedIsHead ==
  ASSUME MainInv, HeadInv, NEW h \in Pushed
  PROVE  h \in Heads /\ h.base \in 1 .. Tip
<1>1. Tip \in Nat /\ \A i \in 1 .. Tip : TreeAt(i) \in Tree
  <2>1. main \in Seq(Entry)
    BY DEF MainInv
  <2>2. Tip \in Nat /\ \A i \in 1 .. Tip : main[i] \in Entry
    BY <2>1 DEF Tip
  <2>. QED
    BY <2>2 DEF TreeAt, Entry
<1>2. CASE pushes = 0
  <2>1. PICK i \in 1 .. Tip : h \in [base : {i}, tree : UNION {Drifts(t) : t \in Bumps(TreeAt(i))}]
    BY <1>2 DEF Pushed
  <2>2. TreeAt(i) \in Tree
    BY <1>1
  <2>3. Bumps(TreeAt(i)) \subseteq Tree
    BY <2>2, BumpsAreTrees
  <2>4. UNION {Drifts(t) : t \in Bumps(TreeAt(i))} \subseteq Tree
    BY <2>3, DriftsAreTrees
  <2>. QED
    BY <1>1, <2>1, <2>4 DEF Heads
<1>3. CASE pushes /= 0
  <2>1. h \in [base : {head.base}, tree : OneBumped(TreeAt(head.base))]
    BY <1>3 DEF Pushed
  <2>2. head.base \in 1 .. Tip
    BY DEF HeadInv
  <2>3. OneBumped(TreeAt(head.base)) \subseteq Tree
    BY <1>1, <2>2, OneBumpedAreTrees
  <2>. QED
    BY <1>1, <2>1, <2>2, <2>3 DEF Heads
<1>. QED
  BY <1>2, <1>3

-----------------------------------------------------------------------------
(* The default branch only grows.                                           *)

Grows ==
  /\ Tip \in Nat /\ Tip' \in Nat /\ Tip <= Tip'
  /\ \A i \in 1 .. Tip : main'[i] = main[i]

LEMMA Standing ==
  ASSUME MainInv, UNCHANGED main
  PROVE  MainInv' /\ Grows
<1>1. main \in Seq(Entry)
  BY DEF MainInv
<1>. QED
  BY <1>1 DEF MainInv, Tip, TreeAt, Grows

LEMMA Landed ==
  ASSUME MainInv, NEW tree \in Tree, NEW by \in Evidence \cup {Nobody},
         PolicyHolds(tree.policy), Land(tree, by)
  PROVE  /\ MainInv' /\ Grows
         /\ Tip' = Tip + 1 /\ main'[Tip'] = [tree |-> tree, by |-> by]
<1> DEFINE entry == [tree |-> tree, by |-> by]
<1>1. main \in Seq(Entry) /\ entry \in Entry
  BY DEF MainInv, Entry
<1>2. main' = Append(main, entry) /\ Tip < MaxMain
  BY DEF Land
<1>3. entry.tree = tree
  OBVIOUS
<1>. HIDE DEF entry
<1>4. /\ main' \in Seq(Entry) /\ Len(main) \in Nat
      /\ Len(main') = Len(main) + 1
      /\ \A i \in 1 .. Len(main) : main'[i] = main[i]
      /\ main'[Len(main) + 1] = entry
  BY <1>1, <1>2
<1>5. Grows /\ Tip' = Tip + 1
  BY <1>4 DEF Grows, Tip
<1>6. ASSUME NEW i \in 1 .. Tip' PROVE PolicyHolds(TreeAt(i).policy)'
  <2>1. CASE i \in 1 .. Tip
    <3>1. main'[i] = main[i] /\ PolicyHolds(main[i].tree.policy)
      BY <2>1, <1>5 DEF Grows, MainInv, TreeAt
    <3>. QED
      BY <3>1 DEF TreeAt, PolicyHolds
  <2>2. CASE i = Tip + 1
    <3>1. main'[i].tree = tree
      BY <2>2, <1>4, <1>3 DEF Tip
    <3>. QED
      BY <3>1 DEF TreeAt, PolicyHolds
  <2>. QED
    BY <2>1, <2>2, <1>5 DEF Grows
<1>7. MaxMain \in Nat
  BY MaintenanceAssumption
<1>8. Tip' >= 1 /\ Tip' <= MaxMain
  BY <1>2, <1>4, <1>5, <1>7 DEF Tip
<1>9. MainInv'
  BY <1>4, <1>6, <1>8 DEF MainInv
<1>. QED
  BY <1>4, <1>5, <1>9 DEF entry, Tip

\* What a merge on evidence lands: the candidate, on the tip it was judged on.
LEMMA MergeLands ==
  ASSUME MainInv, HeadInv, EvidenceInv, MergeMaintained
  PROVE  \E e \in evidence :
           /\ e \in Evidence /\ e.cand.tree \in Tree /\ PolicyHolds(e.cand.tree.policy)
           /\ Land(e.cand.tree, e)
           /\ Shown(TreeAt(Tip), e)
<1>1. PICK e \in evidence : /\ e.cand = head /\ e.pred = Tip
                            /\ MergeTree = head.tree /\ Land(MergeTree, e)
  BY DEF MergeMaintained
<1>2. e \in Evidence /\ e.pred \in 1 .. Tip /\ Shown(TreeAt(e.pred), e)
  BY DEF EvidenceInv, SoundEvidence
<1>3. e.cand.tree \in Tree /\ e.class \in Class
  BY <1>2 DEF Evidence, Heads
<1>4. TreeAt(Tip) \in Tree /\ PolicyHolds(TreeAt(Tip).policy)
  <2>1. main \in Seq(Entry) /\ Tip \in 1 .. Len(main)
    BY <1>1, <1>2 DEF MainInv, Tip
  <2>2. main[Tip] \in Entry
    BY <2>1
  <2>. QED
    BY <2>1, <2>2 DEF MainInv, TreeAt, Entry, Tip
<1>5. TreeAt(Tip)["policy"] = e.cand.tree["policy"]
  BY <1>1, <1>2, <1>3, <1>4, ClassMoves DEF Shown, Classified, LeftAlone
<1>6. PolicyHolds(e.cand.tree.policy)
  BY <1>4, <1>5
<1>. QED
  BY <1>1, <1>2, <1>3, <1>6

\* A change that is reviewed lands under the aggregate check.
LEMMA ReviewLands ==
  ASSUME MainInv, NEW t \in Landings(TreeAt(Tip)), Reviewed(t)
  PROVE  t \in Tree /\ PolicyHolds(t.policy) /\ Land(t, Nobody)
<1>1. main \in Seq(Entry) /\ Tip \in 1 .. Len(main)
  BY DEF MainInv, Tip
<1>2. TreeAt(Tip) \in Tree
  <2>1. main[Tip] \in Entry
    BY <1>1
  <2>. QED
    BY <2>1 DEF TreeAt, Entry
<1>3. t \in Tree
  BY <1>2, LandingsAreTrees
<1>. QED
  BY <1>3 DEF Reviewed

LEMMA RunFrame ==
  ASSUME RunNext
  PROVE  /\ UNCHANGED <<main, head, open, pushes>>
         /\ UNCHANGED runs \/ (runs < MaxRuns /\ runs' = runs + 1)
BY DEF RunNext, Dispatched, PinPredecessor, ReadCandidate, Classify, Install, RunSubject,
       Verdict, RereadHead, RereadMain, Proceeds

LEMMA MainStep ==
  ASSUME IInv, [MaintenanceNext]_maintenance
  PROVE  MainInv' /\ Grows
<1>1. MainInv /\ HeadInv /\ EvidenceInv
  BY DEF IInv
<1>2. CASE RunNext \/ Push \/ UNCHANGED maintenance
  BY <1>1, <1>2, RunFrame, Standing DEF Push, maintenance
<1>3. CASE MergeMaintained
  BY <1>1, <1>3, MergeLands, Landed
<1>4. ASSUME NEW t \in Landings(TreeAt(Tip)), Reviewed(t) PROVE MainInv' /\ Grows
  BY <1>1, <1>4, ReviewLands, Landed
<1>. QED
  BY <1>2, <1>3, <1>4 DEF MaintenanceNext, RepositoryNext

LEMMA HeadStep ==
  ASSUME IInv, [MaintenanceNext]_maintenance, Grows
  PROVE  HeadInv'
<1>1. MainInv /\ HeadInv
  BY DEF IInv
<1>2. CASE RunNext
  <2>1. runs' \in 0 .. MaxRuns
    <3>1. runs \in 0 .. MaxRuns /\ MaxRuns \in Nat
      BY <1>1, MaintenanceAssumption DEF HeadInv
    <3>. QED
      BY <3>1, <1>2, RunFrame
  <2>. QED
    BY <1>1, <1>2, <2>1, RunFrame DEF HeadInv, Tip
<1>3. CASE Push
  <2>1. head' \in Heads /\ head'.base \in 1 .. Tip
    BY <1>1, <1>3, PushedIsHead DEF Push
  <2>2. head'.base \in 1 .. Tip'
    BY <2>1 DEF Grows
  <2>. QED
    BY <1>1, <1>3, <2>1, <2>2, MaintenanceAssumption DEF Push, HeadInv
<1>4. CASE MergeMaintained
  <2>1. UNCHANGED <<head, pushes, runs>> /\ open' = FALSE
    BY <1>4 DEF MergeMaintained
  <2>2. open' \in BOOLEAN
    BY <2>1
  <2>3. head'.base \in 1 .. Tip'
    BY <1>1, <2>1 DEF HeadInv, Grows
  <2>. QED
    BY <1>1, <2>1, <2>2, <2>3 DEF HeadInv
<1>5. CASE \E t \in Landings(TreeAt(Tip)) : Reviewed(t)
  <2>1. UNCHANGED <<head, open, pushes, runs>>
    BY <1>5 DEF Reviewed
  <2>. QED
    BY <1>1, <2>1 DEF HeadInv, Grows
<1>6. CASE UNCHANGED maintenance
  BY <1>1, <1>6 DEF maintenance, HeadInv, Tip
<1>. QED
  BY <1>2, <1>3, <1>4, <1>5, <1>6 DEF MaintenanceNext, RepositoryNext

-----------------------------------------------------------------------------
(* A run.                                                                   *)

\* What was shown on a tip stays shown.
LEMMA StaysSound ==
  ASSUME Grows
  PROVE  /\ \A e : SoundEvidence(e) => SoundEvidence(e)'
         /\ \A j : SoundRun(j) /\ (j.stage \in ReadStages /\ j.pred = Tip' => j.met)
                  => SoundRun(j)'
<1>1. \A i \in 1 .. Tip : i \in 1 .. Tip' /\ TreeAt(i)' = TreeAt(i)
  BY DEF Grows, TreeAt
<1>2. ASSUME NEW e, SoundEvidence(e) PROVE SoundEvidence(e)'
  <2>1. TreeAt(e.pred)' = TreeAt(e.pred) /\ e.pred \in 1 .. Tip'
    BY <1>1, <1>2 DEF SoundEvidence
  <2>. QED
    BY <1>2, <2>1 DEF SoundEvidence
<1>3. ASSUME NEW j, SoundRun(j), j.stage \in ReadStages /\ j.pred = Tip' => j.met
      PROVE  SoundRun(j)'
  <2>1. TreeAt(j.pred)' = TreeAt(j.pred) /\ j.pred \in 1 .. Tip'
    BY <1>1, <1>3 DEF SoundRun
  <2>. QED
    BY <1>3, <2>1 DEF SoundRun
<1>. QED
  BY <1>2, <1>3

\* Evidence is left by a run whose predecessor is the tip.
LEMMA EvidenceStep ==
  ASSUME IInv, [MaintenanceNext]_maintenance, Grows
  PROVE  EvidenceInv'
<1>1. \A e \in evidence : SoundEvidence(e)'
  BY StaysSound DEF IInv, EvidenceInv
<1>2. CASE evidence' = evidence
  BY <1>1, <1>2 DEF EvidenceInv
<1>3. CASE RereadMain /\ evidence' /= evidence
  <2>1. evidence' = evidence \cup {EvidenceOf(job)} /\ job.pred = Tip
    BY <1>3 DEF RereadMain, SameIdentity
  <2>2. job.stage = "reread" /\ SoundRun(job)
    BY <1>3 DEF IInv, JobInv, RereadMain, At
  <2>3. EvidenceOf(job) \in Evidence
    BY <2>2 DEF SoundRun, ReadStages, Stages, EvidenceOf, Evidence, Job
  <2>4. Shown(TreeAt(job.pred), EvidenceOf(job))
    BY <2>2 DEF SoundRun, ClassifiedStages, InstalledStages, RanStages, Shown, Classified, Ran,
               Resolves, EvidenceOf
  <2>5. job.pred \in 1 .. Tip /\ job.met
    BY <2>1, <2>2 DEF SoundRun, ReadStages, Stages
  <2>6. SoundEvidence(EvidenceOf(job))
    BY <2>3, <2>4, <2>5 DEF SoundEvidence, EvidenceOf
  <2>7. ASSUME NEW e \in evidence' PROVE SoundEvidence(e)'
    <3>1. SoundEvidence(e)
      BY <2>1, <2>6 DEF IInv, EvidenceInv
    <3>. QED
      BY <3>1, StaysSound
  <2>. QED
    BY <2>7 DEF EvidenceInv
<1>4. evidence' = evidence \/ RereadMain
  BY DEF MaintenanceNext, RunNext, RepositoryNext, maintenance, Dispatched, PinPredecessor,
         ReadCandidate, Classify, Install, RunSubject, Verdict, RereadHead, Proceeds, Push,
         MergeMaintained, Reviewed
<1>. QED
  BY <1>2, <1>3, <1>4

\* Each step of a run shows what the next stage says.
LEMMA RunAdvances ==
  ASSUME IInv, RunNext, NEW j, j = job', j /= Nobody
  PROVE  SoundRun(j)
<1>1. /\ Tip \in Nat /\ Tip >= 1 /\ head \in Heads
      /\ \A i \in 1 .. Tip : TreeAt(i) \in Tree
  <2>1. main \in Seq(Entry) /\ Tip >= 1 /\ head \in Heads
    BY DEF IInv, MainInv, HeadInv
  <2>2. Tip \in Nat /\ \A i \in 1 .. Tip : main[i] \in Entry
    BY <2>1 DEF Tip
  <2>. QED
    BY <2>1, <2>2 DEF TreeAt, Entry
<1>2. ASSUME NEW class \in Class, Dispatched(class) PROVE SoundRun(j)
  <2>1. j = [stage |-> "queued", class |-> class, sha |-> Tip, pred |-> Tip,
             cand |-> Nobody, results |-> <<>>, met |-> FALSE]
    BY <1>2 DEF Dispatched
  <2>. QED
    BY <1>1, <2>1
       DEF SoundRun, Job, Stages, ReadStages, ClassifiedStages, InstalledStages, RanStages,
           Results
<1>3. ASSUME job /= Nobody PROVE SoundRun(job) /\ job \in Job
  BY <1>3 DEF IInv, JobInv, SoundRun
<1>4. CASE PinPredecessor
  <2>1. j = [job EXCEPT !.stage = "pinned", !.pred = Tip] /\ job /= Nobody
    BY <1>4 DEF PinPredecessor, At, Proceeds
  <2>2. j \in Job /\ j.stage = "pinned" /\ j.pred = Tip
    BY <1>1, <1>3, <2>1 DEF Job, Stages
  <2>. QED
    BY <1>1, <2>2 DEF SoundRun, ReadStages, ClassifiedStages, InstalledStages, RanStages
<1>5. CASE ReadCandidate
  <2>1. /\ j = [job EXCEPT !.stage = "read", !.cand = head, !.met = job.pred = Tip]
        /\ job /= Nobody
    BY <1>5 DEF ReadCandidate, At, Proceeds
  <2>2. /\ j \in Job /\ j.stage = "read" /\ j.pred = job.pred /\ j.cand = head
        /\ j.met = (job.pred = Tip)
    BY <1>1, <1>3, <2>1 DEF Job, Stages
  <2>. QED
    BY <1>1, <1>3, <2>1, <2>2 DEF SoundRun, ClassifiedStages, InstalledStages, RanStages
<1>6. CASE Classify
  <2>1. /\ j = [job EXCEPT !.stage = "classified"]
        /\ job /= Nobody /\ job.stage = "read"
        /\ Classifies(Predecessor, Candidate, job.class)
    BY <1>6 DEF Classify, At, Proceeds
  <2>2. Classified(TreeAt(job.pred), job)
    BY <2>1 DEF Classified, Predecessor, Candidate
  <2>3. Classified(TreeAt(j.pred), j) /\ j \in Job
    BY <1>3, <2>1, <2>2 DEF Classified, Job, Stages
  <2>. QED
    BY <1>3, <2>1, <2>3
       DEF SoundRun, Job, ReadStages, Stages, ClassifiedStages, InstalledStages, RanStages
<1>7. CASE Install
  <2>1. /\ j = [job EXCEPT !.stage = "installed"] /\ job /= Nobody /\ job.stage = "classified"
        /\ \A t \in Tool : Candidate.lock[t].ver = Candidate.pins[t]
    BY <1>7 DEF Install, At, Proceeds
  <2>2. Classified(TreeAt(j.pred), j) /\ j \in Job
    BY <1>3, <2>1 DEF SoundRun, Classified, Job, Stages, ClassifiedStages
  <2>3. Resolves(j)
    BY <1>3, <2>1 DEF Resolves, Candidate, Job
  <2>. QED
    BY <1>3, <2>1, <2>2, <2>3
       DEF SoundRun, Job, ReadStages, Stages, ClassifiedStages, InstalledStages, RanStages
<1>8. CASE RunSubject
  <2>1. PICK results \in Outcomes(Predecessor, job.class) :
          /\ j = [job EXCEPT !.stage = "ran", !.results = results]
          /\ job /= Nobody /\ job.stage = "installed"
          /\ EnvelopeHolds(Predecessor, Candidate, job.class, results)
    BY <1>8 DEF RunSubject, At, Proceeds
  <2>2. job.class \in Class /\ job.pred \in 1 .. Tip /\ Classified(TreeAt(job.pred), job)
    BY <1>3, <2>1 DEF SoundRun, Job, ClassifiedStages
  <2>3. Commands(Predecessor, job.class) \subseteq Command
    <3>1. Predecessor.policy[job.class] \in Row
      BY <1>1, <2>2, RowOf DEF Predecessor
    <3>. QED
      BY <3>1 DEF Row, Commands
  <2>4. results \in Results
    BY <2>3 DEF Outcomes, Results
  <2>5. Classified(TreeAt(j.pred), j) /\ j \in Job
    BY <1>3, <2>1, <2>2, <2>4 DEF Classified, Job, Stages
  <2>6. Ran(TreeAt(j.pred), j)
    BY <1>3, <2>1 DEF Ran, Predecessor, Candidate, Job
  <2>7. Resolves(j)
    BY <1>3, <2>1 DEF SoundRun, InstalledStages, Resolves, Job
  <2>. QED
    BY <1>3, <2>1, <2>5, <2>6, <2>7
       DEF SoundRun, Job, ReadStages, Stages, ClassifiedStages, InstalledStages, RanStages
<1>9. CASE Verdict \/ RereadHead
  <2>1. PICK stage \in {"judged", "reread"} :
          /\ j = [job EXCEPT !.stage = stage] /\ job /= Nobody /\ job.stage \in RanStages
    BY <1>9 DEF Verdict, RereadHead, At, Proceeds, RanStages
  <2>2. /\ Classified(TreeAt(j.pred), j) /\ Ran(TreeAt(j.pred), j) /\ Resolves(j)
        /\ j \in Job
    BY <1>3, <2>1 DEF SoundRun, Classified, Ran, Resolves, Job, Stages, ClassifiedStages,
                      InstalledStages, RanStages
  <2>. QED
    BY <1>3, <2>1, <2>2
       DEF SoundRun, Job, ReadStages, Stages, ClassifiedStages, InstalledStages, RanStages
<1>10. CASE RereadMain
  BY <1>10 DEF RereadMain
<1>. QED
  BY <1>2, <1>4, <1>5, <1>6, <1>7, <1>8, <1>9, <1>10 DEF RunNext

LEMMA JobStep ==
  ASSUME IInv, [MaintenanceNext]_maintenance, Grows
  PROVE  JobInv'
<1>1. CASE RunNext
  <2>1. ASSUME NEW j, j = job', j /= Nobody PROVE SoundRun(j)'
    <3>1. SoundRun(j) /\ Tip' = Tip
      BY <1>1, <2>1, RunAdvances, RunFrame DEF Tip
    <3>. QED
      BY <3>1, StaysSound DEF SoundRun
  <2>2. job' /= Nobody => SoundRun(job)'
    BY <2>1
  <2>. QED
    BY <2>2 DEF JobInv
<1>2. CASE UNCHANGED maintenance
  BY <1>2 DEF IInv, JobInv, SoundRun, TreeAt, Tip, maintenance
<1>3. CASE Moves
  <2>1. SUFFICES ASSUME job /= Nobody PROVE SoundRun(job)'
    BY <1>3 DEF Moves, JobInv
  <2>2. SoundRun(job)
    BY <2>1 DEF IInv, JobInv
  <2>3. PICK j : j = job' /\ j = [job EXCEPT !.met = @ \/ Together(job)]
    BY <1>3, <2>1 DEF Moves
  <2>4. (job.met \/ Together(job)) \in BOOLEAN
    BY <2>2 DEF SoundRun, Job, Together
  <2>5. SoundRun(j) /\ (job.met => j.met)
    BY <2>2, <2>3, <2>4 DEF SoundRun, Job, Classified, Ran, Resolves
  <2>6. j.stage \in ReadStages /\ j.pred = Tip' => j.met
    BY <2>2, <2>3, <2>5 DEF Grows, SoundRun, Job
  <2>. QED
    BY <2>3, <2>5, <2>6, StaysSound
<1>4. RunNext \/ Moves \/ UNCHANGED maintenance
  BY DEF MaintenanceNext, RepositoryNext, Push, MergeMaintained, Reviewed
<1>. QED
  BY <1>1, <1>2, <1>3, <1>4

-----------------------------------------------------------------------------
(* The merges.                                                              *)

LEMMA MergedStep ==
  ASSUME IInv, [MaintenanceNext]_maintenance
  PROVE  MergedInv'
<1>1. MainInv /\ HeadInv /\ EvidenceInv /\ MergedInv
  BY DEF IInv
<1>2. ASSUME NEW tree \in Tree, NEW by \in Evidence \cup {Nobody}, PolicyHolds(tree.policy),
             Land(tree, by), by /= Nobody => MergedOn(TreeAt(Tip), tree, by)
      PROVE  MergedInv'
  <2>1. Grows /\ Tip' = Tip + 1 /\ main'[Tip'] = [tree |-> tree, by |-> by] /\ Tip >= 1
    BY <1>1, <1>2, Landed DEF MainInv
  <2>2. SUFFICES ASSUME NEW i \in Maintained'
                 PROVE  MergedOn(TreeAt(i - 1)', TreeAt(i)', main'[i].by)
    BY DEF MergedInv, MergedOn, Shown, Classified, Ran, Resolves
  <2>3. i \in 2 .. Tip' /\ main'[i].by /= Nobody
    BY <2>2 DEF Maintained
  <2>4. CASE i \in 2 .. Tip
    <3>1. main'[i] = main[i] /\ main'[i - 1] = main[i - 1]
      BY <2>4, <2>1 DEF Grows
    <3>2. i \in Maintained
      BY <2>3, <2>4, <3>1 DEF Maintained
    <3>. QED
      BY <1>1, <3>1, <3>2 DEF MergedInv, TreeAt
  <2>5. CASE i = Tip + 1
    <3>1. main'[i - 1] = main[Tip]
      BY <2>5, <2>1 DEF Grows
    <3>2. main'[i].tree = tree /\ main'[i].by = by
      BY <2>5, <2>1
    <3>. QED
      BY <1>2, <2>3, <3>1, <3>2 DEF TreeAt
  <2>. QED
    BY <2>1, <2>3, <2>4, <2>5 DEF Grows
<1>3. CASE MergeMaintained
  <2>1. PICK e \in evidence :
           /\ e \in Evidence /\ e.cand.tree \in Tree /\ PolicyHolds(e.cand.tree.policy)
           /\ Land(e.cand.tree, e)
           /\ Shown(TreeAt(Tip), e)
    BY <1>1, <1>3, MergeLands
  <2>. QED
    BY <1>2, <2>1 DEF MergedOn
<1>4. ASSUME NEW t \in Landings(TreeAt(Tip)), Reviewed(t) PROVE MergedInv'
  BY <1>1, <1>2, <1>4, ReviewLands
<1>5. CASE UNCHANGED main
  BY <1>1, <1>5 DEF MergedInv, Maintained, TreeAt, Tip, MergedOn, Shown, Classified,
                    Ran, Resolves
<1>. QED
  BY <1>3, <1>4, <1>5, RunFrame DEF MaintenanceNext, RepositoryNext, Push, maintenance

-----------------------------------------------------------------------------
(* The theorems.                                                            *)

LEMMA InitHolds ==
  ASSUME MaintenanceInit
  PROVE  IInv
<1>1. PICK p \in Policies :
        LET tree == [verifier |-> TRUE, policy |-> p, pins |-> [t \in Tool |-> 1],
                     settings |-> 1, coverage |-> 1, detail |-> 1, floor |-> 1,
                     made |-> 0, other |-> 1, unseen |-> 1, inert |-> TRUE,
                     lock |-> [t \in Tool |-> [ver |-> 1, lib |-> 1, bytes |-> 1]]]
        IN /\ PolicyHolds(p)
           /\ main = <<[tree |-> tree, by |-> Nobody]>>
           /\ head = [base |-> 1, tree |-> tree]
  BY DEF MaintenanceInit
<1> DEFINE tree == [verifier |-> TRUE, policy |-> p, pins |-> [t \in Tool |-> 1],
                    settings |-> 1, coverage |-> 1, detail |-> 1, floor |-> 1,
                    made |-> 0, other |-> 1, unseen |-> 1, inert |-> TRUE,
                    lock |-> [t \in Tool |-> [ver |-> 1, lib |-> 1, bytes |-> 1]]]
<1>2. tree \in Tree /\ tree.policy = p
  BY DEF Tree, Version, Text, Resolved
<1>3. main = <<[tree |-> tree, by |-> Nobody]>> /\ head = [base |-> 1, tree |-> tree]
  BY <1>1
<1>. HIDE DEF tree
<1>4. /\ main \in Seq(Entry) /\ Tip = 1 /\ main[1].tree = tree
  BY <1>2, <1>3 DEF Entry, Tip
<1>5. MainInv
  BY <1>1, <1>2, <1>4, MaintenanceAssumption DEF MainInv, TreeAt
<1>6. HeadInv
  <2>1. head \in Heads /\ head.base \in 1 .. Tip
    BY <1>2, <1>3, <1>4 DEF Heads
  <2>2. open \in BOOLEAN
    BY DEF MaintenanceInit
  <2>3. pushes \in 0 .. MaxPushes /\ runs \in 0 .. MaxRuns
    BY MaintenanceAssumption DEF MaintenanceInit
  <2>. QED
    BY <2>1, <2>2, <2>3 DEF HeadInv
<1>7. JobInv /\ EvidenceInv
  BY DEF MaintenanceInit, JobInv, EvidenceInv
<1>8. MergedInv
  BY <1>4 DEF MergedInv, Maintained
<1>. QED
  BY <1>5, <1>6, <1>7, <1>8 DEF IInv

THEOREM Invariance == MaintenanceSpec => []IInv
<1>1. MaintenanceInit => IInv
  BY InitHolds
<1>2. IInv /\ [MaintenanceNext]_maintenance => IInv'
  <2>1. ASSUME IInv, [MaintenanceNext]_maintenance PROVE IInv'
    <3>1. MainInv' /\ Grows
      BY <2>1, MainStep
    <3>. QED
      BY <2>1, <3>1, HeadStep, EvidenceStep, JobStep, MergedStep DEF IInv
  <2>. QED
    BY <2>1
<1>. QED
  BY <1>1, <1>2, PTL DEF MaintenanceSpec

\* Every tree, branch and run has its type.
THEOREM TypeCorrect == MaintenanceSpec => []TypeOK
<1>1. IInv => TypeOK
  <2>1. ASSUME IInv PROVE TypeOK
    <3>1. main \in Seq(Entry) /\ Tip = Len(main)
      BY <2>1 DEF IInv, MainInv, Tip
    <3>2. \A i \in 1 .. Tip : main[i] \in Entry
      BY <3>1
    <3>3. \A i \in 1 .. Tip : main[i].tree \in Tree
      BY <3>2 DEF Entry
    <3>4. job /= Nobody => job.stage \in Stages /\ job.pred \in 1 .. Tip /\ job.class \in Class
      BY <2>1 DEF IInv, JobInv, SoundRun, Job
    <3>. QED
      BY <2>1, <3>3, <3>4 DEF IInv, HeadInv, Heads, TypeOK
  <2>. QED
    BY <2>1
<1>. QED
  BY <1>1, Invariance, PTL

\* What evidence names was the head and the tip at one moment, however both
\* moved while the run was under way (the second reading of both, after the
\* verdict).
THEOREM EvidenceWasTogether == MaintenanceSpec => []EvidenceMet
<1>1. IInv => EvidenceMet
  BY DEF IInv, EvidenceInv, SoundEvidence, EvidenceMet
<1>. QED
  BY <1>1, Invariance, PTL

\* What a tip that was merged on evidence says of it and of the tip before.
LEMMA MergedTrees ==
  ASSUME IInv, NEW i \in Maintained
  PROVE  /\ TreeAt(i - 1) \in Tree /\ TreeAt(i) \in Tree /\ main[i].by \in Evidence
         /\ PolicyHolds(TreeAt(i - 1).policy)
         /\ MergedOn(TreeAt(i - 1), TreeAt(i), main[i].by)
<1>1. MergedOn(TreeAt(i - 1), TreeAt(i), main[i].by)
  BY DEF IInv, MergedInv
<1>2. main \in Seq(Entry) /\ i \in 2 .. Len(main) /\ Tip = Len(main)
  BY DEF IInv, MainInv, Maintained, Tip
<1>3. main[i - 1] \in Entry /\ main[i] \in Entry /\ i - 1 \in 1 .. Tip
  BY <1>2
<1>. QED
  BY <1>1, <1>3 DEF TreeAt, Entry, IInv, MainInv, MergedOn

\* A merge on evidence moves no more than its class of the policy then in
\* force admits: no authority, and no other pin and nothing that is resolved
\* for another tool where the class or a part of it protects them; of files no
\* class names, only one whose loss looks like a rename (classifyMaintenance).
THEOREM OnlyToolsMove == MaintenanceSpec => []MaintenanceMovesOnlyTools
<1>1. IInv => MaintenanceMovesOnlyTools
  <2>1. ASSUME IInv, NEW i \in Maintained
        PROVE  LeftAlone(TreeAt(i - 1), TreeAt(i), main[i].by.class)
    <3>1. /\ TreeAt(i - 1) \in Tree /\ TreeAt(i) \in Tree /\ main[i].by.class \in Class
          /\ PolicyHolds(TreeAt(i - 1).policy)
      BY <2>1, MergedTrees DEF Evidence
    <3>2. Classifies(TreeAt(i - 1), TreeAt(i), main[i].by.class)
      BY <2>1, MergedTrees DEF MergedOn, Shown, Classified
    <3>. QED
      BY <3>1, <3>2, ClassMoves
  <2>. QED
    BY <2>1 DEF MaintenanceMovesOnlyTools
<1>. QED
  BY <1>1, Invariance, PTL

\* A tool that its class may move and whose pin moved by a merge on evidence is
\* named by the pack in force, and that whole pack came out as the policy
\* expects over the tree that was merged (checkBoundaryPolicy,
\* verifyResultEnvelope, the frozen install).
THEOREM MovedWereJudged == MaintenanceSpec => []MovedToolsWereJudged
<1>1. IInv => MovedToolsWereJudged
  <2>1. ASSUME IInv, NEW i \in Maintained,
               NEW t \in TreeAt(i - 1).policy[main[i].by.class].moves
        PROVE  LET p == TreeAt(i - 1)  c == TreeAt(i)  e == main[i].by
               IN /\ \E cmd \in DOMAIN e.results : cmd[1] = t
                  /\ DOMAIN e.results = p.policy[e.class].runs
                  /\ \A cmd \in DOMAIN e.results : cmd[2] = "success" <=> e.results[cmd] = 0
                  /\ e.cand.tree = c /\ \A s \in Tool : c.lock[s].ver = c.pins[s]
    <3>1. /\ TreeAt(i - 1) \in Tree /\ main[i].by \in Evidence
          /\ PolicyHolds(TreeAt(i - 1).policy)
          /\ Shown(TreeAt(i - 1), main[i].by) /\ main[i].by.cand.tree = TreeAt(i)
      BY <2>1, MergedTrees DEF MergedOn
    <3>2. \A s \in Tool : TreeAt(i).lock[s].ver = TreeAt(i).pins[s]
      BY <3>1 DEF Shown, Resolves
    <3>. QED
      BY <2>1, <3>1, <3>2, MovedWasJudged
  <2>. QED
    BY <2>1 DEF MovedToolsWereJudged
<1>. QED
  BY <1>1, Invariance, PTL

-----------------------------------------------------------------------------
(***************************************************************************)
(* Governed images.                                                          *)
(*                                                                           *)
(* What a green run of the images workflow shows, for any images, files,     *)
(* contents and any number of commits and runs.  A comparison excuses what   *)
(* neither its lock entry nor an input of it changed; such comparisons       *)
(* compose, so a proof of the comparison's origin carries over.  That the    *)
(* origin was proved on the base that is live now is the subtle part: a base *)
(* that moved since is a newer commit than any head proved before, and can   *)
(* not be among that head's ancestors.                                       *)
(***************************************************************************)

Locks == [Image -> UNION {[Inputs(i) -> Content] : i \in Image}]

Trees == [file : [File -> Content], lock : Locks]

Build == [kind : {"pull", "push"}, before : Nat, head : Nat, base : Nat, compare : Nat,
          tree : Trees, state : {"queued", "planned", "success", "failure"}]

\* A commit follows its ancestors, and has theirs.
AncestryInv ==
  /\ commits \in Seq([tree : Trees, anc : SUBSET Nat])
  /\ \A c \in Commit : c \in commits[c].anc /\ commits[c].anc \subseteq 1 .. c
  /\ \A c \in Commit : \A b \in commits[c].anc : commits[b].anc \subseteq commits[c].anc

BranchesInv ==
  /\ Len(commits) <= MaxCommits /\ Len(builds) <= MaxBuilds
  /\ target \in Commit /\ branch \in Commit /\ opened \in BOOLEAN

AllMatch(tree) == \A i \in Image : Matches(tree, i)

\* The whole comparison of tree with base holds.
ShownOn(base, tree) == \A i \in Affected(base, tree) : Matches(tree, i)

Judged(b) == b.state \in {"planned", "success"}

\* A build is of a commit there is, which is not yet the target, and not of its
\* own origin.
Placed(b) ==
  /\ b.head \in Commit /\ b.before \in 0 .. b.head - 1
  /\ b.base \in 0 .. Len(commits) /\ b.compare \in 0 .. Len(commits)
  /\ b.compare # b.head
  /\ b.kind = "pull" => b.head # target

\* A push compares with a commit that matches throughout.
PushInv(b) ==
  b.kind = "push" =>
    /\ b.tree = TreeOf(b.head)
    /\ Judged(b) /\ b.compare # 0 => AllMatch(TreeOf(b.compare))
    /\ b.state = "success" => AllMatch(b.tree)

\* A pull request run compares with its base, or with an earlier head whose
\* comparison with that same base holds.
Origin(b) ==
  \/ b.compare = b.base
  \/ /\ IsAncestor(b.base, b.compare) /\ IsAncestor(b.compare, b.head)
     /\ ShownOn(TreeOf(b.base), TreeOf(b.compare))

\* A green one was judged on a target that no commit older than its head follows.
PullInv(b) ==
  b.kind = "pull" =>
    /\ Judged(b) =>
         /\ b.base \in Commit /\ b.compare \in Commit
         /\ Origin(b)
         /\ IsAncestor(b.base, b.head) => b.tree = TreeOf(b.head)
    /\ b.state = "success" =>
         /\ target = b.base \/ target > b.head
         /\ ShownOn(TreeOf(b.base), b.tree)

SoundBuild(b) == Placed(b) /\ PushInv(b) /\ PullInv(b)

BuildsInv ==
  /\ builds \in Seq(Build)
  /\ \A r \in 1 .. Len(builds) : SoundBuild(builds[r])

ImageInv == BranchesInv /\ AncestryInv /\ BuildsInv

-----------------------------------------------------------------------------
(* Comparisons of trees.                                                    *)

\* An image that is not affected matches still.
LEMMA Carries ==
  ASSUME NEW a, NEW b, NEW i \in Image, i \notin Affected(a, b), Matches(a, i)
  PROVE  Matches(b, i)
<1>1. a.lock[i] = b.lock[i]
  BY DEF Affected, WithChildren, LockImpacts
<1>2. \A f \in Inputs(i) : a.file[f] = b.file[f]
  <2> SUFFICES ASSUME NEW f \in Inputs(i), a.file[f] # b.file[f] PROVE FALSE
    OBVIOUS
  <2>1. f \in File /\ f \in ChangedFiles(a, b)
    BY DEF Inputs, ChangedFiles
  <2>2. CASE i \in Consumers[f]
    BY <2>1, <2>2 DEF Affected, WithChildren, PathImpacts
  <2>3. CASE Parent[i] \in Consumers[f]
    <3>1. Parent[i] \in Image
      BY <2>1, <2>3, ConsumersAssumption
    <3>2. Parent[i] \in PathImpacts(a, b)
      BY <2>1, <2>3, <3>1 DEF PathImpacts
    <3>3. i \in Children(Parent[i])
      BY DEF Children
    <3> QED
      BY <3>2, <3>3 DEF Affected, WithChildren
  <2> QED
    BY <2>2, <2>3 DEF Inputs
<1>3. Rebuilt(a, i) = Rebuilt(b, i)
  BY <1>2 DEF Rebuilt
<1> QED
  BY <1>1, <1>3 DEF Matches

LEMMA ComparisonsCompose ==
  ASSUME NEW a, NEW b, NEW c
  PROVE  Affected(a, c) \subseteq Affected(a, b) \cup Affected(b, c)
<1> DEFINE Impacts(x, y) == LockImpacts(x, y) \cup PathImpacts(x, y)
<1>1. Impacts(a, c) \subseteq Impacts(a, b) \cup Impacts(b, c)
  <2>1. LockImpacts(a, c) \subseteq LockImpacts(a, b) \cup LockImpacts(b, c)
    BY DEF LockImpacts
  <2>2. PathImpacts(a, c) \subseteq PathImpacts(a, b) \cup PathImpacts(b, c)
    BY DEF PathImpacts, ChangedFiles
  <2> QED
    BY <2>1, <2>2
<1> HIDE DEF Impacts
<1>2. \A x, y : Affected(x, y) = WithChildren(Impacts(x, y))
  BY DEF Affected, Impacts
<1> QED
  BY <1>1, <1>2 DEF WithChildren

LEMMA ShownCompose ==
  ASSUME NEW a, NEW b, NEW c, ShownOn(a, b), ShownOn(b, c)
  PROVE  ShownOn(a, c)
<1> SUFFICES ASSUME NEW i \in Affected(a, c) PROVE Matches(c, i)
  BY DEF ShownOn
<1>1. i \in Image
  BY DEF Affected, WithChildren, LockImpacts, PathImpacts, Children
<1>2. CASE i \in Affected(b, c)
  BY <1>2 DEF ShownOn
<1>3. CASE i \notin Affected(b, c)
  <2>1. Matches(b, i)
    BY <1>3, ComparisonsCompose DEF ShownOn
  <2> QED
    BY <1>1, <1>3, <2>1, Carries
<1> QED
  BY <1>2, <1>3

LEMMA AllCarry ==
  ASSUME NEW a, NEW b, AllMatch(a), ShownOn(a, b)
  PROVE  AllMatch(b)
<1> SUFFICES ASSUME NEW i \in Image PROVE Matches(b, i)
  BY DEF AllMatch
<1> QED
  BY Carries DEF AllMatch, ShownOn

-----------------------------------------------------------------------------
(* What is committed is a tree.                                             *)

LEMMA TreesTyped ==
  ASSUME AncestryInv, NEW c \in Commit
  PROVE  TreeOf(c) \in Trees
<1> DEFINE R == [tree : Trees, anc : SUBSET Nat]
<1>1. commits \in Seq(R)
  BY DEF AncestryInv
<1> HIDE DEF R
<1>2. commits[c] \in R
  BY <1>1 DEF Commit
<1> QED
  BY <1>2 DEF R, TreeOf

LEMMA MergedTyped ==
  ASSUME AncestryInv, NEW a \in Commit, NEW b \in Commit
  PROVE  Merged(a, b) \in Trees
<1>1. TreeOf(a) \in Trees /\ TreeOf(b) \in Trees
  BY TreesTyped
<1> DEFINE m == TreeOf(MergeBase(a, b))
<1> HIDE DEF m
<1>2. \A f \in File : Pick3(m.file[f], TreeOf(a).file[f], TreeOf(b).file[f]) \in Content
  BY <1>1 DEF Trees, Pick3
<1>3. \A i \in Image : Pick3(m.lock[i], TreeOf(a).lock[i], TreeOf(b).lock[i])
                         \in UNION {[Inputs(j) -> Content] : j \in Image}
  BY <1>1 DEF Trees, Locks, Pick3
<1> DEFINE files == [f \in File |-> Pick3(m.file[f], TreeOf(a).file[f], TreeOf(b).file[f])]
           locks == [i \in Image |-> Pick3(m.lock[i], TreeOf(a).lock[i], TreeOf(b).lock[i])]
<1>4. files \in [File -> Content] /\ locks \in Locks
  BY <1>2, <1>3 DEF Locks
<1>5. Merged(a, b) = [file |-> files, lock |-> locks]
  BY DEF Merged, m
<1> HIDE DEF files, locks
<1> QED
  BY <1>4, <1>5 DEF Trees

LEMMA ComposeTyped ==
  ASSUME AncestryInv, NEW a \in Commit, NEW b \in Commit
  PROVE  Compose(a, b) \in Trees
BY MergedTyped, TreesTyped DEF Compose

LEMMA EditsTyped ==
  ASSUME AncestryInv, target \in Commit, NEW p \in Commit, NEW tree \in Edits(p)
  PROVE  tree \in Trees
<1>1. TreeOf(p) \in Trees /\ TreeOf(target) \in Trees
  BY TreesTyped
<1>2. PICK fs \in FileEdits(p) : \E record \in {fs, ComposedFiles(p, fs)}, R \in Relocks :
        tree = [file |-> fs, lock |-> Relocked(p, record, R)]
  BY DEF Edits
<1>3. PICK record \in {fs, ComposedFiles(p, fs)}, R \in Relocks :
        tree = [file |-> fs, lock |-> Relocked(p, record, R)]
  BY <1>2
<1>4. fs \in [File -> Content]
  BY <1>1 DEF FileEdits, Trees
<1>5. ComposedFiles(p, fs) \in [File -> Content]
  <2> DEFINE m == TreeOf(MergeBase(target, p))
  <2> HIDE DEF m
  <2>1. \A f \in File : Pick3(m.file[f], TreeOf(target).file[f], fs[f]) \in Content
    BY <1>1, <1>4 DEF Trees, Pick3
  <2>2. ComposedFiles(p, fs) =
          [f \in File |-> Pick3(m.file[f], TreeOf(target).file[f], fs[f])]
    BY DEF ComposedFiles, m
  <2> QED
    BY <2>1, <2>2
<1>6. \A i \in Image : [f \in Inputs(i) |-> record[f]] \in [Inputs(i) -> Content]
  BY <1>4, <1>5 DEF Inputs
<1>7. Relocked(p, record, R) \in Locks
  <2>1. \A i \in Image : (IF i \in R THEN [f \in Inputs(i) |-> record[f]] ELSE TreeOf(p).lock[i])
                           \in UNION {[Inputs(j) -> Content] : j \in Image}
    <3> TAKE i \in Image
    <3>1. CASE i \in R
      BY <1>6, <3>1
    <3>2. CASE i \notin R
      BY <1>1, <3>2 DEF Trees, Locks
    <3> QED
      BY <3>1, <3>2
  <2> QED
    BY <2>1 DEF Relocked, Locks
<1> QED
  BY <1>3, <1>4, <1>7 DEF Trees

-----------------------------------------------------------------------------
(* Pushes and merges.                                                       *)

\* What a commit more leaves as it was.
Grown == Len(commits') = Len(commits) + 1 /\ \A c \in Commit : commits'[c] = commits[c]

LEMMA CommitGrows ==
  ASSUME AncestryInv, NEW tree \in Trees, NEW parents \in SUBSET Commit,
         AddCommit(tree, parents)
  PROVE  /\ AncestryInv' /\ Grown
         /\ commits'[Len(commits) + 1].tree = tree
<1> DEFINE R == [tree : Trees, anc : SUBSET Nat]
           n == Len(commits) + 1
           ancestors == {n} \cup UNION {commits[p].anc : p \in parents}
           new == [tree |-> tree, anc |-> ancestors]
<1>1. commits \in Seq(R) /\ Len(commits) \in Nat
  BY DEF AncestryInv
<1>2. \A c \in Commit : /\ c \in commits[c].anc /\ commits[c].anc \subseteq 1 .. c
                        /\ \A b \in commits[c].anc : commits[b].anc \subseteq commits[c].anc
  BY DEF AncestryInv
<1>3. ancestors \subseteq 1 .. n
  BY <1>1, <1>2 DEF Commit
<1>4. new \in R
  BY <1>3
<1>5. commits' = Append(commits, new)
  BY DEF AddCommit
<1> HIDE DEF R
<1>6. commits' \in Seq(R) /\ Len(commits') = n /\ commits'[n] = new
  BY <1>1, <1>4, <1>5
<1>7. \A c \in Commit : commits'[c] = commits[c]
  BY <1>1, <1>5 DEF Commit
<1>8. Commit' = Commit \cup {n} /\ n \notin Commit /\ Commit \subseteq Nat
  BY <1>1, <1>6 DEF Commit
<1>9. commits'[n].tree = tree /\ commits'[n].anc = ancestors
  BY <1>6
<1>10. \A c \in Commit' : c \in commits'[c].anc /\ commits'[c].anc \subseteq 1 .. c
  BY <1>2, <1>3, <1>7, <1>8, <1>9
<1>11. \A c \in Commit' : \A b \in commits'[c].anc : commits'[b].anc \subseteq commits'[c].anc
  <2> SUFFICES ASSUME NEW c \in Commit', NEW b \in commits'[c].anc
               PROVE  commits'[b].anc \subseteq commits'[c].anc
    OBVIOUS
  <2>1. \A d \in Commit : \A x \in commits[d].anc : x \in Commit
    BY <1>1, <1>2 DEF Commit
  <2>2. CASE c \in Commit
    BY <1>2, <1>7, <2>1, <2>2
  <2>3. CASE c = n /\ b = n
    BY <2>3
  <2>4. CASE c = n /\ b # n
    <3>1. PICK p \in parents : b \in commits[p].anc
      BY <1>9, <2>4
    <3>2. b \in Commit /\ commits[b].anc \subseteq commits[p].anc
      BY <1>2, <2>1, <3>1
    <3> QED
      BY <1>7, <1>9, <2>4, <3>1, <3>2
  <2> QED
    BY <1>8, <2>2, <2>3, <2>4
<1> QED
  BY <1>6, <1>7, <1>9, <1>10, <1>11 DEF AncestryInv, Grown, R

\* A build stays sound when commits are added and the target moves on.
LEMMA BuildKept ==
  ASSUME AncestryInv, BranchesInv, Grown, NEW b \in Build, SoundBuild(b),
         target' = target \/ target' = Len(commits) + 1
  PROVE  SoundBuild(b)'
<1>1. Len(commits) \in Nat /\ Commit' = Commit \cup {Len(commits) + 1} /\ Commit \subseteq Commit'
  BY DEF AncestryInv, Grown, Commit
<1>2. \A c \in Commit : TreeOf(c)' = TreeOf(c)
  BY DEF Grown, TreeOf
<1>3. \A c \in Commit : \A a : IsAncestor(a, c)' = IsAncestor(a, c)
  BY DEF Grown, IsAncestor
<1>4. target \in 1 .. Len(commits) /\ b.head \in 1 .. Len(commits) /\ b.head \in Commit
  BY DEF BranchesInv, SoundBuild, Placed, Commit
<1>5. Placed(b)'
  BY <1>1, <1>4 DEF SoundBuild, Placed, Grown, Build
<1>6. PushInv(b)'
  <2> SUFFICES ASSUME b.kind = "push" PROVE PushInv(b)'
    BY DEF PushInv
  <2>1. Judged(b) /\ b.compare # 0 => b.compare \in Commit
    BY DEF SoundBuild, Placed, Commit
  <2> QED
    BY <1>2, <1>4, <2>1 DEF SoundBuild, PushInv
<1>7. PullInv(b)'
  <2> SUFFICES ASSUME b.kind = "pull" PROVE PullInv(b)'
    BY DEF PullInv
  <2>1. ASSUME Judged(b)
        PROVE  /\ b.base \in Commit' /\ b.compare \in Commit'
               /\ Origin(b)'
               /\ IsAncestor(b.base, b.head)' => b.tree = TreeOf(b.head)'
    <3>1. b.base \in Commit /\ b.compare \in Commit /\ Origin(b)
          /\ (IsAncestor(b.base, b.head) => b.tree = TreeOf(b.head))
      BY <2>1 DEF SoundBuild, PullInv
    <3>2. Origin(b)'
      BY <1>2, <1>3, <1>4, <3>1 DEF Origin
    <3> QED
      BY <1>1, <1>2, <1>3, <1>4, <3>1, <3>2
  <2>2. ASSUME b.state = "success"
        PROVE  /\ target' = b.base \/ target' > b.head
               /\ ShownOn(TreeOf(b.base), b.tree)'
    <3>1. b.base \in Commit
      BY <2>2 DEF SoundBuild, PullInv, Judged
    <3>2. (target = b.base \/ target > b.head) /\ ShownOn(TreeOf(b.base), b.tree)
      BY <2>2 DEF SoundBuild, PullInv
    <3> QED
      BY <1>2, <1>4, <3>1, <3>2
  <2> QED
    BY <2>1, <2>2 DEF PullInv, Judged
<1> QED
  BY <1>5, <1>6, <1>7 DEF SoundBuild

\* The run of a commit that has just been pushed has shown nothing yet.
LEMMA QueuedSound ==
  ASSUME AncestryInv, Grown, commits'[Len(commits) + 1].tree \in Trees,
         NEW kind \in {"pull", "push"}, NEW before \in 0 .. Len(commits),
         kind = "pull" => target' \in Commit,
         NEW b, b = Queued(kind, before)
  PROVE  b \in Build /\ SoundBuild(b)'
<1> DEFINE n == Len(commits) + 1
<1>1. Len(commits) \in Nat /\ Commit' = Commit \cup {n} /\ n \notin Commit /\ n \in Nat
      /\ Len(commits') = n
  BY DEF AncestryInv, Grown, Commit
<1>2. b = [kind |-> kind, before |-> before, head |-> n, base |-> 0, compare |-> 0,
           tree |-> commits'[n].tree, state |-> "queued"]
  BY <1>1 DEF Queued
<1>3. b \in Build
  BY <1>1, <1>2 DEF Build
<1>4. Placed(b)'
  BY <1>1, <1>2 DEF Placed
<1>5. PushInv(b)' /\ PullInv(b)'
  BY <1>2 DEF PushInv, PullInv, Judged, TreeOf
<1> QED
  BY <1>3, <1>4, <1>5 DEF SoundBuild

LEMMA BuildsKept ==
  ASSUME ImageInv, Grown, commits'[Len(commits) + 1].tree \in Trees,
         NEW kind \in {"pull", "push"}, NEW before \in 0 .. Len(commits),
         Trigger(kind, before),
         kind = "pull" => target' = target,
         target' \in {target, Len(commits) + 1}
  PROVE  BuildsInv' /\ Len(builds') <= MaxBuilds
<1>1. builds \in Seq(Build) /\ \A r \in 1 .. Len(builds) : SoundBuild(builds[r])
  BY DEF ImageInv, BuildsInv
<1>2. ASSUME NEW b \in Build, SoundBuild(b) PROVE SoundBuild(b)'
  BY <1>2, BuildKept DEF ImageInv
<1>3. CASE builds' = builds
  BY <1>1, <1>2, <1>3 DEF BuildsInv, ImageInv, BranchesInv
<1>4. CASE Len(builds) < MaxBuilds /\ builds' = Append(builds, Queued(kind, before))
  <2>1. PICK b : b = Queued(kind, before)
    OBVIOUS
  <2>2. b \in Build /\ SoundBuild(b)'
    BY <2>1, QueuedSound DEF ImageInv, BranchesInv
  <2>3. builds' \in Seq(Build) /\ Len(builds') = Len(builds) + 1
    BY <1>1, <1>4, <2>1, <2>2
  <2>4. \A r \in 1 .. Len(builds') :
          builds'[r] = IF r = Len(builds') THEN b ELSE builds[r]
    BY <1>1, <1>4, <2>1, <2>2
  <2>5. ASSUME NEW r \in 1 .. Len(builds') PROVE SoundBuild(builds[r])'
    <3>1. PICK x \in Build : x = builds'[r]
      BY <2>3
    <3>2. x = b \/ SoundBuild(x)
      BY <1>1, <2>3, <2>4, <3>1
    <3>3. SoundBuild(x)'
      BY <1>2, <2>2, <3>2
    <3> QED
      BY <3>1, <3>3
  <2>6. Len(builds') <= MaxBuilds
    BY <1>1, <1>4, <2>3, BoundsAssumption
  <2> QED
    BY <2>3, <2>5, <2>6 DEF BuildsInv
<1> QED
  BY <1>3, <1>4 DEF Trigger

\* Every push and merge grows the history, and moves one of the two branches to
\* the new commit.
LEMMA PushSteps ==
  ASSUME ImageInv, Open \/ Synchronize \/ Update \/ Advance \/ LandPull
  PROVE  ImageInv'
<1>1. AncestryInv /\ BranchesInv /\ Len(commits) \in Nat
  BY DEF ImageInv, AncestryInv
<1> DEFINE n == Len(commits) + 1
<1>2. ASSUME NEW tree \in Trees, NEW parents \in SUBSET Commit, AddCommit(tree, parents),
             NEW kind \in {"pull", "push"}, NEW before \in 0 .. Len(commits),
             Trigger(kind, before), opened' \in BOOLEAN,
             \/ kind = "pull" /\ target' = target /\ branch' = n
             \/ kind = "push" /\ target' = n /\ branch' = branch
      PROVE  ImageInv'
  <2>1. AncestryInv' /\ Grown /\ commits'[n].tree \in Trees
    BY <1>1, <1>2, CommitGrows
  <2>2. BuildsInv' /\ Len(builds') <= MaxBuilds
    BY <1>2, <2>1, BuildsKept
  <2>3. n <= MaxCommits
    BY <1>1, <1>2, BoundsAssumption DEF AddCommit
  <2>4. BranchesInv'
    BY <1>1, <1>2, <2>1, <2>2, <2>3 DEF BranchesInv, Commit, Grown
  <2> QED
    BY <2>1, <2>2, <2>4 DEF ImageInv
<1>3. target \in Commit /\ branch \in Commit /\ {target, branch} \subseteq 0 .. Len(commits)
  BY <1>1 DEF BranchesInv, Commit
<1>4. CASE Open
  <2>1. PICK p \in commits[target].anc : \E tree \in Edits(p) : AddCommit(tree, {p})
    BY <1>4 DEF Open
  <2>2. PICK tree \in Edits(p) : AddCommit(tree, {p})
    BY <2>1
  <2>3. p \in Commit
    BY <1>1, <1>3 DEF AncestryInv, Commit
  <2>4. tree \in Trees
    BY <1>1, <1>3, <2>3, EditsTyped
  <2> QED
    BY <1>1, <1>2, <1>4, <2>2, <2>3, <2>4 DEF Open
<1>5. CASE Synchronize
  <2>1. PICK p \in {branch, target} : \E tree \in Edits(p) : AddCommit(tree, {p})
    BY <1>5 DEF Synchronize
  <2>2. PICK tree \in Edits(p) : AddCommit(tree, {p})
    BY <2>1
  <2>3. p \in Commit
    BY <1>3
  <2>4. tree \in Trees
    BY <1>1, <1>3, <2>3, EditsTyped
  <2> QED
    BY <1>1, <1>2, <1>3, <1>5, <2>2, <2>3, <2>4 DEF Synchronize, BranchesInv
<1>6. CASE Update
  <2>1. Merged(branch, target) \in Trees
    BY <1>1, <1>3, MergedTyped
  <2> QED
    BY <1>1, <1>2, <1>3, <1>6, <2>1 DEF Update, BranchesInv
<1>7. CASE Advance
  <2>1. PICK tree \in Edits(target) : AddCommit(tree, {target})
    BY <1>7 DEF Advance
  <2>2. tree \in Trees
    BY <1>1, <1>3, <2>1, EditsTyped
  <2> QED
    BY <1>1, <1>2, <1>3, <1>7, <2>1, <2>2 DEF Advance, BranchesInv
<1>8. CASE LandPull
  <2>1. Compose(target, branch) \in Trees
    BY <1>1, <1>3, ComposeTyped
  <2> QED
    BY <1>1, <1>2, <1>3, <1>8, <2>1 DEF LandPull
<1> QED
  BY <1>4, <1>5, <1>6, <1>7, <1>8
-----------------------------------------------------------------------------
(* Runs.                                                                    *)

LEMMA BuildSet ==
  ASSUME ImageInv, NEW r \in 1 .. Len(builds), NEW b \in Build, SoundBuild(b),
         Set(r, b), UNCHANGED <<commits, target, branch, opened>>
  PROVE  ImageInv'
<1>1. builds \in Seq(Build) /\ \A k \in 1 .. Len(builds) : SoundBuild(builds[k])
  BY DEF ImageInv, BuildsInv
<1>2. builds' = [builds EXCEPT ![r] = b]
  BY DEF Set
<1>3. builds' \in Seq(Build) /\ Len(builds') = Len(builds)
  BY <1>1, <1>2
<1>4. \A k \in 1 .. Len(builds') : SoundBuild(builds'[k])
  BY <1>1, <1>2, <1>3
<1>5. ASSUME NEW x, SoundBuild(x) PROVE SoundBuild(x)'
  BY <1>5 DEF SoundBuild, Placed, PushInv, PullInv, Origin, ShownOn, AllMatch, Judged,
              Commit, TreeOf, IsAncestor
<1>6. ASSUME NEW k \in 1 .. Len(builds') PROVE SoundBuild(builds[k])'
  <2>1. PICK x : x = builds'[k]
    OBVIOUS
  <2>2. SoundBuild(x)'
    BY <1>4, <1>5, <2>1
  <2> QED
    BY <2>1, <2>2
<1>7. BuildsInv'
  BY <1>3, <1>6 DEF BuildsInv
<1> QED
  BY <1>3, <1>7 DEF ImageInv, BranchesInv, AncestryInv, Commit

\* The proof of the previous head that may be reused is one against the very
\* base that is live now: a base that had moved would be newer than that head.
LEMMA ReusedProof ==
  ASSUME ImageInv, NEW b \in Build, Reusable(b, target)
  PROVE  /\ b.before \in Commit
         /\ IsAncestor(target, b.before) /\ IsAncestor(b.before, b.head)
         /\ ShownOn(TreeOf(target), TreeOf(b.before))
<1>1. PICK k \in 1 .. Len(builds) :
        builds[k].kind = "pull" /\ builds[k].head = b.before /\ builds[k].state = "success"
  BY DEF Reusable, Proven
<1>2. PICK p \in Build : p = builds[k] /\ SoundBuild(p)
  BY DEF ImageInv, BuildsInv
<1>3. p.kind = "pull" /\ p.head = b.before /\ p.state = "success" /\ p.head \in Commit
  BY <1>1, <1>2 DEF SoundBuild, Placed
<1>4. /\ p.base \in Commit /\ (IsAncestor(p.base, p.head) => p.tree = TreeOf(p.head))
      /\ target = p.base \/ target > p.head
      /\ ShownOn(TreeOf(p.base), p.tree)
  BY <1>2, <1>3 DEF SoundBuild, PullInv, Judged
<1>5. IsAncestor(target, p.head) /\ IsAncestor(b.before, b.head)
  BY <1>3 DEF Reusable
<1>6. target \in 1 .. p.head
  BY <1>3, <1>5 DEF IsAncestor, ImageInv, AncestryInv
<1>7. target = p.base
  BY <1>3, <1>4, <1>6 DEF Commit
<1> QED
  BY <1>3, <1>4, <1>5, <1>7

LEMMA PlanPullSound ==
  ASSUME ImageInv, NEW r \in 1 .. Len(builds), PlanPull(r)
  PROVE  ImageInv'
<1>1. PICK b \in Build : b = builds[r] /\ SoundBuild(b)
  BY DEF ImageInv, BuildsInv
<1>2. PICK compare \in {target} \cup (IF Reusable(b, target) THEN {b.before} ELSE {}) :
        Set(r, IF Composable(target, b.head)
                 THEN [b EXCEPT !.base = target, !.compare = compare,
                         !.tree = Compose(target, b.head), !.state = "planned"]
                 ELSE [b EXCEPT !.state = "failure"])
  BY <1>1 DEF PlanPull
<1>3. /\ b.kind = "pull" /\ UNCHANGED <<commits, target, branch, opened>>
      /\ target \in Commit /\ b.head \in Commit /\ b.head # target /\ b.before \in 0 .. b.head - 1
      /\ b.compare # b.head /\ b.base \in 0 .. Len(commits) /\ b.compare \in 0 .. Len(commits)
      /\ Len(commits) \in Nat
  BY <1>1 DEF PlanPull, ImageInv, BranchesInv, SoundBuild, Placed, AncestryInv
<1>4. CASE ~ Composable(target, b.head)
  <2>1. PICK c : c = [b EXCEPT !.state = "failure"]
    OBVIOUS
  <2>2. c \in Build /\ SoundBuild(c)
    BY <1>3, <2>1 DEF Build, SoundBuild, Placed, PushInv, PullInv, Judged
  <2> QED
    BY <1>2, <1>3, <1>4, <2>1, <2>2, BuildSet
<1>5. CASE Composable(target, b.head)
  <2>1. PICK tree \in Trees : tree = Compose(target, b.head)
    BY <1>3, ComposeTyped DEF ImageInv
  <2>2. PICK c : c = [b EXCEPT !.base = target, !.compare = compare,
                               !.tree = tree, !.state = "planned"]
    OBVIOUS
  <2>3. compare \in Commit /\ compare # b.head
    BY <1>2, <1>3, ReusedProof DEF Commit
  <2>4. c \in Build
    <3>1. compare \in Nat /\ target \in Nat
      BY <1>3, <2>3 DEF Commit
    <3> QED
      BY <2>2, <3>1 DEF Build
  <2>5. /\ c.kind = "pull" /\ c.head = b.head /\ c.before = b.before /\ c.base = target
        /\ c.compare = compare /\ c.tree = tree /\ c.state = "planned"
    BY <1>3, <2>2 DEF Build
  <2>6. Placed(c)
    BY <1>3, <2>3, <2>5 DEF Placed, Commit
  <2>7. Origin(c)
    BY <1>2, <2>5, ReusedProof DEF Origin
  <2>8. IsAncestor(target, b.head) => tree = TreeOf(b.head)
    BY <2>1 DEF Compose
  <2>9. SoundBuild(c)
    BY <1>3, <2>3, <2>5, <2>6, <2>7, <2>8 DEF SoundBuild, PushInv, PullInv, Judged
  <2> QED
    BY <1>2, <1>3, <1>5, <2>1, <2>2, <2>4, <2>9, BuildSet
<1> QED
  BY <1>4, <1>5

LEMMA PlanPushSound ==
  ASSUME ImageInv, NEW r \in 1 .. Len(builds), PlanPush(r)
  PROVE  ImageInv'
<1>1. PICK b \in Build : b = builds[r] /\ SoundBuild(b)
  BY DEF ImageInv, BuildsInv
<1>2. PICK compare \in {0} \cup (IF Proven("push", b.before) THEN {b.before} ELSE {}) :
        Set(r, [b EXCEPT !.compare = compare, !.state = "planned"])
  BY <1>1 DEF PlanPush
<1>3. /\ b.kind = "push" /\ UNCHANGED <<commits, target, branch, opened>>
      /\ b.head \in 1 .. Len(commits) /\ b.before \in 0 .. b.head - 1
      /\ b.base \in 0 .. Len(commits) /\ Len(commits) \in Nat
  BY <1>1 DEF PlanPush, ImageInv, SoundBuild, Placed, AncestryInv, Commit
<1>4. PICK c : c = [b EXCEPT !.compare = compare, !.state = "planned"]
  OBVIOUS
<1>5. compare \in 0 .. Len(commits) /\ compare # b.head
  BY <1>2, <1>3
<1>6. compare \in Nat
  BY <1>3, <1>5
<1>7. c \in Build /\ c.kind = "push" /\ c.head = b.head /\ c.before = b.before
      /\ c.base = b.base /\ c.compare = compare /\ c.tree = b.tree /\ c.state = "planned"
  BY <1>3, <1>4, <1>6 DEF Build
<1>8. Placed(c)
  BY <1>1, <1>3, <1>5, <1>7 DEF SoundBuild, Placed
<1>9. ASSUME compare # 0 PROVE AllMatch(TreeOf(compare))
  <2>1. compare = b.before /\ Proven("push", b.before)
    BY <1>2, <1>9
  <2>2. PICK k \in 1 .. Len(builds) :
          builds[k].kind = "push" /\ builds[k].head = compare /\ builds[k].state = "success"
    BY <2>1 DEF Proven
  <2> QED
    BY <2>2 DEF ImageInv, BuildsInv, SoundBuild, PushInv
<1>10. SoundBuild(c)
  BY <1>1, <1>3, <1>7, <1>8, <1>9 DEF SoundBuild, PushInv, PullInv
<1> QED
  BY <1>2, <1>3, <1>4, <1>7, <1>10, BuildSet

LEMMA ConcludeSound ==
  ASSUME ImageInv, NEW r \in 1 .. Len(builds), Conclude(r)
  PROVE  ImageInv'
<1>1. PICK b \in Build : b = builds[r] /\ SoundBuild(b)
  BY DEF ImageInv, BuildsInv
<1>2. PICK selected \in {Selected(r), Image} : Set(r, [b EXCEPT !.state =
          IF Verified(r, selected) /\ Stable(r) THEN "success" ELSE "failure"])
  BY <1>1 DEF Conclude
<1>3. b.state = "planned" /\ UNCHANGED <<commits, target, branch, opened>>
  BY <1>1 DEF Conclude
<1>4. CASE ~ (Verified(r, selected) /\ Stable(r))
  <2>1. PICK c : c = [b EXCEPT !.state = "failure"]
    OBVIOUS
  <2>2. c \in Build /\ c.kind = b.kind /\ c.head = b.head /\ c.before = b.before
        /\ c.base = b.base /\ c.compare = b.compare /\ c.tree = b.tree /\ c.state = "failure"
    BY <2>1 DEF Build
  <2>3. SoundBuild(c)
    BY <1>1, <2>2 DEF SoundBuild, Placed, PushInv, PullInv, Judged
  <2> QED
    BY <1>2, <1>3, <1>4, <2>1, <2>2, <2>3, BuildSet
<1>5. CASE Verified(r, selected) /\ Stable(r)
  <2>1. PICK c : c = [b EXCEPT !.state = "success"]
    OBVIOUS
  <2>2. c \in Build /\ c.kind = b.kind /\ c.head = b.head /\ c.before = b.before
        /\ c.base = b.base /\ c.compare = b.compare /\ c.tree = b.tree /\ c.state = "success"
    BY <2>1 DEF Build
  <2>3. Placed(c)
    BY <1>1, <2>2 DEF SoundBuild, Placed
  <2>4. b.compare = 0 => AllMatch(b.tree)
    BY <1>1, <1>2, <1>5 DEF Selected, Verified, Outputs, AllMatch
  <2>5. b.compare # 0 => ShownOn(TreeOf(b.compare), b.tree)
    <3>1. Affected(TreeOf(b.compare), b.tree) \subseteq Image
      BY DEF Affected, WithChildren, LockImpacts, PathImpacts, Children
    <3> QED
      BY <1>1, <1>2, <1>5, <3>1 DEF Selected, Verified, Outputs, ShownOn
  <2>6. PushInv(c)
    BY <1>1, <1>3, <2>2, <2>4, <2>5, AllCarry DEF SoundBuild, PushInv, Judged
  <2>7. PullInv(c)
    <3> SUFFICES ASSUME b.kind = "pull" PROVE PullInv(c)
      BY <2>2 DEF PullInv
    <3>1. /\ b.base \in Commit /\ b.compare \in Commit
          /\ Origin(b)
          /\ IsAncestor(b.base, b.head) => b.tree = TreeOf(b.head)
      BY <1>1, <1>3 DEF SoundBuild, PullInv, Judged
    <3>2. target = b.base
      BY <1>1, <1>5 DEF Stable
    <3>3. b.compare # 0
      BY <3>1 DEF Commit
    <3>4. ShownOn(TreeOf(b.base), b.tree)
      BY <2>5, <3>1, <3>3, ShownCompose DEF Origin
    <3> QED
      BY <2>2, <3>1, <3>2, <3>4 DEF PullInv, Origin
  <2> QED
    BY <1>2, <1>3, <1>5, <2>1, <2>2, <2>3, <2>6, <2>7, BuildSet DEF SoundBuild
<1> QED
  BY <1>4, <1>5

-----------------------------------------------------------------------------
(* The theorems.                                                            *)

LEMMA ImageInitial == Init => ImageInv
<1> SUFFICES ASSUME Init PROVE ImageInv
  OBVIOUS
<1> DEFINE v == CHOOSE x \in Content : TRUE
           tree == [file |-> [f \in File |-> v],
                    lock |-> [i \in Image |-> [f \in Inputs(i) |-> v]]]
<1>1. v \in Content
  BY BoundsAssumption
<1> HIDE DEF v
<1>2. tree \in Trees
  BY <1>1 DEF Trees, Locks
<1>3. commits = <<[tree |-> tree, anc |-> {1}]>>
  BY DEF Init, v
<1> HIDE DEF tree
<1>4. /\ commits \in Seq([tree : Trees, anc : SUBSET Nat]) /\ Len(commits) = 1
      /\ Commit = {1} /\ commits[1].anc = {1}
  BY <1>2, <1>3 DEF Commit
<1>5. AncestryInv
  BY <1>4 DEF AncestryInv
<1>6. BranchesInv
  <2>1. Len(builds) = 0 /\ target = 1 /\ branch = 1 /\ opened = FALSE
    BY DEF Init
  <2>2. Len(commits) <= MaxCommits /\ Len(builds) <= MaxBuilds
    BY <1>4, <2>1, BoundsAssumption
  <2> QED
    BY <1>4, <2>1, <2>2 DEF BranchesInv
<1>7. BuildsInv
  BY DEF Init, BuildsInv
<1> QED
  BY <1>5, <1>6, <1>7 DEF ImageInv

\* ImageInv is kept by every step.
LEMMA ImageStep == ImageInv /\ [Next]_vars => ImageInv'
<1> SUFFICES ASSUME ImageInv, [Next]_vars PROVE ImageInv'
  OBVIOUS
<1>1. CASE UNCHANGED vars
  BY <1>1 DEF vars, ImageInv, AncestryInv, BranchesInv, BuildsInv, SoundBuild, Placed, PushInv,
              PullInv, Origin, ShownOn, AllMatch, Judged, Commit, TreeOf, IsAncestor
<1>2. CASE Open \/ Synchronize \/ Update \/ Advance \/ LandPull
  BY <1>2, PushSteps
<1>3. CASE \E r \in 1 .. Len(builds) : PlanPull(r) \/ PlanPush(r) \/ Conclude(r)
  BY <1>3, PlanPullSound, PlanPushSound, ConcludeSound
<1> QED
  BY <1>1, <1>2, <1>3 DEF Next

\* The inductive invariant of the image proof holds throughout.
THEOREM ImageInvariance == Spec => []ImageInv
BY ImageInitial, ImageStep, PTL DEF Spec

\* Commits, branches and runs have their types, and no comparison starts at the
\* commit it is to prove (images.yml, pr-merge-plan.mjs).
THEOREM ImageTypeCorrect == Spec => []ImageTypeOK
<1>1. ImageInv => ImageTypeOK
  <2> SUFFICES ASSUME ImageInv PROVE ImageTypeOK
    OBVIOUS
  <2>1. ASSUME NEW r \in 1 .. Len(builds)
        PROVE  /\ builds[r].kind \in {"pull", "push"}
               /\ {builds[r].before, builds[r].base, builds[r].compare} \subseteq 0 .. Len(commits)
               /\ builds[r].head \in Commit /\ builds[r].compare # builds[r].head
               /\ builds[r].state \in {"queued", "planned", "success", "failure"}
    <3>1. PICK b \in Build : b = builds[r] /\ SoundBuild(b)
      BY DEF ImageInv, BuildsInv
    <3> QED
      BY <3>1 DEF SoundBuild, Placed, Build, Commit, ImageInv, AncestryInv
  <2> QED
    BY <2>1 DEF ImageTypeOK, ImageInv, AncestryInv, BranchesInv
<1> QED
  BY <1>1, ImageInvariance, PTL

\* A green run is a sound proof: of every image of a pushed commit, and of the
\* whole comparison of a pull request with its live base (images.yml,
\* planPullRequest), though only a part was built.
THEOREM GreenRunsAreProofs == Spec => []ProofsAreSound
<1>1. ImageInv => ProofsAreSound
  <2> SUFFICES ASSUME ImageInv, NEW r \in 1 .. Len(builds), builds[r].state = "success"
               PROVE  \/ builds[r].kind = "push" /\ \A i \in Image : Matches(TreeOf(builds[r].head), i)
                      \/ /\ builds[r].kind = "pull"
                         /\ \A i \in Affected(TreeOf(builds[r].base), builds[r].tree) :
                              Matches(builds[r].tree, i)
    BY DEF ProofsAreSound
  <2>1. PICK b \in Build : b = builds[r] /\ SoundBuild(b)
    BY DEF ImageInv, BuildsInv
  <2>2. b.kind = "pull" \/ b.kind = "push"
    BY DEF Build
  <2>3. CASE b.kind = "push"
    BY <2>1, <2>3 DEF SoundBuild, PushInv, AllMatch
  <2>4. CASE b.kind = "pull"
    BY <2>1, <2>4 DEF SoundBuild, PullInv, ShownOn
  <2> QED
    BY <2>2, <2>3, <2>4
<1> QED
  BY <1>1, ImageInvariance, PTL

=============================================================================
