------------------------ MODULE HistoryProofs ------------------------
(***************************************************************************)
(* Proofs about accounts that must stay true: the two histories of the     *)
(* repository that a check admits one revision at a time, of knowledge     *)
(* releases and of the governance registry (each check sees two revisions; *)
(* what two keep, a chain keeps for good); and what a run says of itself   *)
(* when it is sealed.                                                      *)
(***************************************************************************)
EXTENDS ReleaseHistory, RegistryHistory, RunAccount, SequenceTheorems, TLAPS

Entry == [tree : Tree, below : Tree]

(***************************************************************************)
(* Types.                                                                    *)
(***************************************************************************)

\* Pins taken from a catalog are pins.
LEMMA PinsType ==
    ASSUME NEW rows \in [Module -> Row], NEW members \in SUBSET Module
    PROVE  Pins(rows, members) \in Pinned
<1>1. Pins(rows, members) \in [members -> Revision \cup {None}]
  BY DEF Pins, Row
<1> QED
  BY <1>1 DEF Pinned

\* A draft is a release under a key of its own.
LEMMA DraftType ==
    ASSUME NEW tree \in Tree, NEW draft \in Drafts(tree)
    PROVE  draft \in Release
<1> USE ReleaseHistoryAssumption
<1>1. PICK k \in Key, f \in FamilyRow, c \in {tree.rows, FirstRows} :
        draft = Manifest(k, f, c)
  BY DEF Drafts
<1>2. /\ c \in [Module -> Row]
      /\ f.required \in SUBSET Module /\ f.optional \in SUBSET Module
      /\ f.deny \in SUBSET Module /\ f.additions \in BOOLEAN /\ f.narrowing \in BOOLEAN
  BY <1>1 DEF Tree
<1>3. Pins(c, f.required) \in Pinned /\ Pins(c, f.optional) \in Pinned
  BY <1>2, PinsType
<1> QED
  BY <1>1, <1>2, <1>3 DEF Manifest, Release

LEMMA RecordType ==
    ASSUME NEW draft \in Release, NEW state \in State
    PROVE  RecordOf(draft, state) \in Record
BY DEF RecordOf, Record, Release

\* Storing a manifest keeps the paths what they are.
LEMMA StoredType ==
    ASSUME NEW tree \in Tree, NEW draft \in Release
    PROVE  Stored(tree, draft) \in [Key -> Release \cup {None}]
BY DEF Stored, Tree, Release

\* Every commit leaves a tree.
LEMMA EditType ==
    ASSUME NEW tree \in Tree, NEW c \in Edits(tree)
    PROVE  c \in Tree
<1>0. /\ tree.rows \in [Module -> Row]
      /\ tree.families \in [Family -> FamilyRow \cup {None}]
      /\ tree.manifests \in [Key -> Release \cup {None}]
      /\ tree.registry \in SUBSET Record
  BY DEF Tree
<1>a. ASSUME NEW a \in [Module -> Row], NEW b \in [Family -> FamilyRow \cup {None}],
             NEW d \in [Key -> Release \cup {None}], NEW e \in SUBSET Record
      PROVE  TreeOf(a, b, d, e) \in Tree
  BY DEF Tree, TreeOf
<1>b. \A d \in Drafts(tree) : d \in Release
                              /\ Stored(tree, d) \in [Key -> Release \cup {None}]
  BY DraftType, StoredType
<1>c. \A r \in tree.registry : r.digest \in Release /\ r.state \in State
  BY <1>0 DEF Record
<1>1. CASE c \in EditRow(tree)
  <2>1. PICK m \in Module, r \in Row :
          c = TreeOf([tree.rows EXCEPT ![m] = r], tree.families, tree.manifests, tree.registry)
    BY <1>1, SMTT(20) DEF EditRow, Row
  <2>2. [tree.rows EXCEPT ![m] = r] \in [Module -> Row]
    BY <1>0
  <2> QED
    BY <1>0, <1>a, <2>1, <2>2
<1>2. CASE c \in EditFamily(tree)
  <2>1. PICK f \in Family, r \in FamilyRow \cup {None} :
          c = TreeOf(tree.rows, [tree.families EXCEPT ![f] = r], tree.manifests, tree.registry)
    BY <1>2 DEF EditFamily
  <2>2. [tree.families EXCEPT ![f] = r] \in [Family -> FamilyRow \cup {None}]
    BY <1>0
  <2> QED
    BY <1>0, <1>a, <2>1, <2>2
<1>3. CASE c \in Publish(tree)
  <2>1. PICK d \in Drafts(tree), s \in State :
          c = TreeOf(tree.rows, tree.families, Stored(tree, d),
                     tree.registry \cup {RecordOf(d, s)})
    BY <1>3 DEF Publish
  <2>2. tree.registry \cup {RecordOf(d, s)} \in SUBSET Record
    BY <1>0, <1>b, RecordType
  <2> QED
    BY <1>0, <1>a, <1>b, <2>1, <2>2
<1>4. CASE c \in Drop(tree)
  <2>1. PICK r \in tree.registry :
          c = TreeOf(tree.rows, tree.families, tree.manifests, tree.registry \ {r})
    BY <1>4, Zenon DEF Drop
  <2> QED
    BY <1>0, <1>a, <2>1
<1>5. CASE c \in Rewrite(tree)
  <2>1. PICK d \in Drafts(tree) :
          c = TreeOf(tree.rows, tree.families, Stored(tree, d),
                {IF r.key = d.key THEN RecordOf(d, r.state) ELSE r : r \in tree.registry})
    BY <1>5 DEF Rewrite
  <2>2. {IF r.key = d.key THEN RecordOf(d, r.state) ELSE r : r \in tree.registry}
          \in SUBSET Record
    BY <1>0, <1>b, <1>c, RecordType
  <2> QED
    BY <1>0, <1>a, <1>b, <2>1, <2>2
<1>6. CASE c \in Overwrite(tree)
  BY <1>0, <1>6, <1>a, <1>b DEF Overwrite
<1>7. CASE c \in Restate(tree)
  <2>1. PICK r \in tree.registry, s \in State :
          c = TreeOf(tree.rows, tree.families, tree.manifests,
                     (tree.registry \ {r}) \cup {RecordOf(r.digest, s)})
    BY <1>7 DEF Restate
  <2>2. (tree.registry \ {r}) \cup {RecordOf(r.digest, s)} \in SUBSET Record
    BY <1>0, <1>c, RecordType
  <2> QED
    BY <1>0, <1>a, <2>1, <2>2
<1> QED
  BY <1>1, <1>2, <1>3, <1>4, <1>5, <1>6, <1>7 DEF Edits

\* The branch holds trees, and runs are of pushes it holds.
THEOREM TypeCorrect == Spec => []TypeOK
<1> USE ReleaseHistoryAssumption
<1>1. Init => TypeOK
  <2> SUFFICES ASSUME Init PROVE TypeOK
    OBVIOUS
  <2>1. First \in Tree
    BY DEF First, Tree
  <2>2. main \in Seq(Entry) /\ Len(main) = 1
    BY <2>1 DEF Init, Entry
  <2> QED
    BY <2>2 DEF Init, TypeOK, Entry
<1>2. TypeOK /\ [Next]_vars => TypeOK'
  <2> SUFFICES ASSUME TypeOK, [Next]_vars PROVE TypeOK'
    OBVIOUS
  <2>1. ASSUME NEW tree \in Tree, NEW below \in Tree, NEW n \in {1, 2},
               commits + n <= MaxCommits, Land(tree, below, n)
        PROVE  TypeOK'
    <3>1. [tree |-> tree, below |-> below] \in Entry /\ main \in Seq(Entry)
      BY DEF Entry, TypeOK
    <3>2. main' \in Seq(Entry) /\ Len(main') = Len(main) + 1
      BY <2>1, <3>1, AppendProperties DEF Land
    <3>3. DOMAIN main = 1 .. Len(main) /\ DOMAIN main' = 1 .. Len(main') /\ Len(main) \in Nat
      BY <3>1, <3>2
    <3>4. commits' \in 0 .. MaxCommits
      BY <2>1 DEF Land, TypeOK
    <3>5. green' \subseteq DOMAIN main' /\ Len(main') >= 1
      BY <2>1, <3>2, <3>3 DEF Land, TypeOK
    <3> QED
      BY <3>2, <3>4, <3>5 DEF TypeOK, Entry
  <2>2. CASE Push
    <3>1. Tip \in Tree
      <4>1. main \in Seq(Entry) /\ Len(main) \in 1 .. Len(main)
      BY DEF TypeOK, Entry
    <4>2. main[Len(main)] \in Entry
      BY <4>1
    <4> QED
      BY <4>2 DEF Tip, Entry
    <3>2. CASE commits + 1 <= MaxCommits /\ \E c \in Edits(Tip) : Land(c, Tip, 1)
      BY <2>1, <3>1, <3>2, EditType
    <3>3. CASE commits + 2 <= MaxCommits
               /\ \E c \in Edits(Tip) : \E d \in Edits(c) : Land(d, c, 2)
      BY <2>1, <3>1, <3>3, EditType
    <3> QED
      BY <2>2, <3>2, <3>3 DEF Push
  <2>3. CASE \E p \in 2 .. Len(main) : Run(p)
    BY <2>3 DEF Run, TypeOK
  <2>4. CASE UNCHANGED vars
    BY <2>4 DEF vars, TypeOK
  <2> QED
    BY <2>2, <2>3, <2>4 DEF Next
<1> QED
  BY <1>1, <1>2, PTL DEF Spec

(***************************************************************************)
(* Chains of green runs.                                                     *)
(***************************************************************************)
\* A state further on allows no use that an earlier one does not.
Onward(was, is) == \A use \in {"adoption", "run"} : Allowed(use, is) => Allowed(use, was)

\* Every record of one registry is in another under the same digest, and further on.
Carried(prior, current) ==
    \A r \in prior : \E s \in current :
        s.key = r.key /\ s.digest = r.digest /\ Onward(r.state, s.state)

\* What a green run has seen.
Checked == \A p \in green \ {1} : Accepted(main[p - 1].tree.registry, main[p].tree)

\* What chains of them amount to.
Chained ==
    \A i, j \in DOMAIN main : i < j /\ Governed(i, j) =>
        Carried(main[i].tree.registry, main[j].tree.registry)

LEMMA CarriedOn ==
    ASSUME NEW a, NEW b, NEW c, Carried(a, b), Carried(b, c)
    PROVE  Carried(a, c)
BY DEF Carried, Onward

\* No governed transition gives a use back.
LEMMA MovesGoOnward ==
    ASSUME NEW was, NEW is, <<was, is>> \in Moves
    PROVE  Onward(was, is)
BY DEF Moves, State, Onward, Allowed

\* A check of two revisions carries one registry to the next.
LEMMA AcceptedCarries ==
    ASSUME NEW prior, NEW tree, Accepted(prior, tree)
    PROVE  Carried(prior, tree.registry)
<1> SUFFICES ASSUME NEW r \in prior
             PROVE  \E s \in tree.registry :
                      s.key = r.key /\ s.digest = r.digest /\ Onward(r.state, s.state)
  BY DEF Carried
<1>1. PICK s \in tree.registry :
        WithoutState(s) = WithoutState(r) /\ <<r.state, s.state>> \in Moves
  BY DEF Accepted, Succession, MayMove
<1>2. s.key = r.key /\ s.digest = r.digest
  BY <1>1 DEF WithoutState
<1> QED
  BY <1>1, <1>2, MovesGoOnward

\* Only main[p - 1] and main[p] are read by the run of p, and neither ever changes.
LEMMA Invariance == Spec => [](TypeOK /\ Checked /\ Chained)
<1>1. Init => Checked /\ Chained
  BY DEF Init, Checked, Chained
<1>2. TypeOK /\ TypeOK' /\ Checked /\ Chained /\ [Next]_vars => Checked' /\ Chained'
  <2> SUFFICES ASSUME TypeOK, TypeOK', Checked, Chained, [Next]_vars
               PROVE  Checked' /\ Chained'
    OBVIOUS
  <2>0. /\ main \in Seq(Entry) /\ Len(main) \in Nat /\ DOMAIN main = 1 .. Len(main)
        /\ green \subseteq 1 .. Len(main)
    BY DEF TypeOK, Entry
  <2>1. ASSUME NEW tree, NEW below, NEW n, Land(tree, below, n)
        PROVE  Checked' /\ Chained'
    <3>1. main' \in Seq(Entry)
      BY DEF TypeOK, Entry
    <3>2. Len(main') = Len(main) + 1 /\ \A p \in 1 .. Len(main) : main'[p] = main[p]
      BY <2>0, <2>1, <3>1 DEF Land
    <3>3. green' = green /\ DOMAIN main' = 1 .. Len(main) + 1
      BY <2>1, <3>1, <3>2 DEF Land
    <3>4. Checked'
      BY <2>0, <3>2, <3>3 DEF Checked
    <3>5. ASSUME NEW i \in DOMAIN main', NEW j \in DOMAIN main', i < j, Governed(i, j)'
          PROVE  Carried(main'[i].tree.registry, main'[j].tree.registry)
      <4>1. j \in green
        BY <3>3, <3>5 DEF Governed
      <4>2. i \in DOMAIN main /\ j \in DOMAIN main /\ Governed(i, j)
        BY <2>0, <3>3, <3>5, <4>1 DEF Governed
      <4> QED
        BY <2>0, <3>2, <3>5, <4>2 DEF Chained
    <3> QED
      BY <3>4, <3>5 DEF Chained
  <2>2. CASE Push
    BY <2>1, <2>2 DEF Push
  <2>3. ASSUME NEW p \in 2 .. Len(main), Run(p)
        PROVE  Checked' /\ Chained'
    <3>1. main' = main /\ green' = green \cup {p}
      BY <2>3 DEF Run
    <3>2. Accepted(main[p - 1].tree.registry, main[p].tree)
      BY <2>3 DEF Run, Base
    <3>3. Checked'
      BY <3>1, <3>2 DEF Checked
    <3>4. ASSUME NEW i \in DOMAIN main, NEW j \in DOMAIN main, i < j,
                 i + 1 .. j \subseteq green \cup {p}
          PROVE  Carried(main[i].tree.registry, main[j].tree.registry)
      <4>1. CASE p \notin i + 1 .. j
        BY <3>4, <4>1 DEF Chained, Governed
      <4>2. CASE p \in i + 1 .. j
        <5>1. p - 1 \in DOMAIN main /\ p \in DOMAIN main
          BY <2>0
        <5>2. Carried(main[p - 1].tree.registry, main[p].tree.registry)
          BY <3>2, AcceptedCarries
        <5>3. Carried(main[i].tree.registry, main[p].tree.registry)
          <6>1. CASE i = p - 1
            BY <5>2, <6>1
          <6>2. CASE i # p - 1
            <7>1. i < p - 1 /\ Governed(i, p - 1)
              BY <2>0, <3>4, <4>2, <6>2 DEF Governed
            <7>2. Carried(main[i].tree.registry, main[p - 1].tree.registry)
              BY <5>1, <7>1 DEF Chained
            <7> QED
              BY <5>2, <7>2, CarriedOn
          <6> QED
            BY <6>1, <6>2
        <5>4. CASE j = p
          BY <5>3, <5>4
        <5>5. CASE j # p
          <6>1. p < j /\ Governed(p, j)
            BY <2>0, <3>4, <4>2, <5>5 DEF Governed
          <6>2. Carried(main[p].tree.registry, main[j].tree.registry)
            BY <5>1, <6>1 DEF Chained
          <6> QED
            BY <5>3, <6>2, CarriedOn
        <5> QED
          BY <5>4, <5>5
      <4> QED
        BY <4>1, <4>2
    <3>5. Chained'
      BY <3>1, <3>4 DEF Chained, Governed
    <3> QED
      BY <3>3, <3>5
  <2>4. CASE UNCHANGED vars
    BY <2>4 DEF vars, Checked, Chained, Governed
  <2> QED
    BY <2>2, <2>3, <2>4 DEF Next
<1> QED
  BY <1>1, <1>2, TypeCorrect, PTL DEF Spec

\* ADR-0019: a version resolves to one digest, and to its first bytes, for good.
THEOREM Forever == Spec => []ReleasesAreForever
<1>1. TypeOK /\ Checked /\ Chained => ReleasesAreForever
  <2> SUFFICES ASSUME TypeOK, Checked, Chained,
                      NEW i \in DOMAIN main, NEW j \in DOMAIN main, i < j, Governed(i, j),
                      NEW r \in main[i].tree.registry
               PROVE  Kept(r, main[j].tree)
    BY DEF ReleasesAreForever
  <2>1. i \in Nat /\ j \in Nat /\ i >= 1
    BY DEF TypeOK
  <2>2. Accepted(main[j - 1].tree.registry, main[j].tree)
    BY <2>1 DEF Checked, Governed
  <2>3. PICK s \in main[j].tree.registry :
          s.key = r.key /\ s.digest = r.digest /\ Onward(r.state, s.state)
    BY DEF Chained, Carried
  <2>4. main[j].tree.manifests[r.key] = r.digest
    BY <2>2, <2>3 DEF Accepted, ValidRecord
  <2>5. Unambiguous(main[j].tree.registry)
    BY <2>2 DEF Accepted, Succession
  <2> QED
    BY <2>3, <2>4, <2>5 DEF Kept, Onward
<1> QED
  BY <1>1, Invariance, PTL


(***************************************************************************)
(* Where the releases of a registry come from.                               *)
(***************************************************************************)
\* Each record of main[j] was in main[i] already, or was reviewed since.
From(i, j) ==
    \A r \in main[j].tree.registry :
        \/ \E q \in main[i].tree.registry : q.digest = r.digest
        \/ \E l \in i + 1 .. j : Reviewed(r.digest, main[l].tree)

Rooted == \A i, j \in DOMAIN main : i < j /\ Governed(i, j) => From(i, j)

\* The branch starts without releases.
Rootless == main[1].tree.registry = {}

\* What can be built from a catalog was reviewed in it.
LEMMA DerivableIsReviewed ==
    ASSUME NEW release, NEW tree, Derivable(release, tree)
    PROVE  Reviewed(release, tree)
<1> DEFINE family == tree.families[release.key[1]]
           built == Manifest(release.key, family, tree.rows)
<1>1. built.required = Pins(tree.rows, family.required)
      /\ built.optional = Pins(tree.rows, family.optional)
  BY DEF Manifest
<1>2. release = built /\ \A m \in family.required \cup family.optional : Eligible(tree.rows[m])
  BY DEF Derivable
<1> HIDE DEF built, family
<1>3. /\ DOMAIN release.required = family.required
      /\ \A m \in family.required : release.required[m] = tree.rows[m].review
      /\ DOMAIN release.optional = family.optional
      /\ \A m \in family.optional : release.optional[m] = tree.rows[m].review
  BY <1>1, <1>2 DEF Pins
<1> QED
  BY <1>2, <1>3 DEF Reviewed, Members

\* One green run: a record is carried with its digest, or derived from the catalog.
LEMMA AcceptedRoots ==
    ASSUME NEW prior, NEW tree, Accepted(prior, tree), NEW r \in tree.registry
    PROVE  (\E q \in prior : q.digest = r.digest) \/ Reviewed(r.digest, tree)
<1>1. CASE r \in Added(prior, tree.registry)
  BY <1>1, DerivableIsReviewed DEF Accepted, NewAreDerivable
<1>2. CASE r \notin Added(prior, tree.registry)
  <2>1. PICK q \in prior : q.key = r.key
    BY <1>2 DEF Added
  <2>2. PICK s \in tree.registry : WithoutState(s) = WithoutState(q)
    BY DEF Accepted, Succession
  <2>3. s.key = q.key /\ s.digest = q.digest
    BY <2>2 DEF WithoutState
  <2>4. s = r
    BY <2>1, <2>3 DEF Accepted, Succession, Unambiguous
  <2> QED
    BY <2>3, <2>4
<1> QED
  BY <1>1, <1>2

LEMMA FromOn ==
    ASSUME NEW i \in Nat, NEW k \in Nat, NEW j \in Nat, i <= k, k <= j, From(i, k), From(k, j)
    PROVE  From(i, j)
<1> SUFFICES ASSUME NEW r \in main[j].tree.registry,
                    ~ \E l \in i + 1 .. j : Reviewed(r.digest, main[l].tree)
             PROVE  \E q \in main[i].tree.registry : q.digest = r.digest
  BY DEF From
<1>1. ~ \E l \in k + 1 .. j : Reviewed(r.digest, main[l].tree)
  OBVIOUS
<1>2. PICK q \in main[k].tree.registry : q.digest = r.digest
  BY <1>1 DEF From
<1>3. ~ \E l \in i + 1 .. k : Reviewed(q.digest, main[l].tree)
  BY <1>2
<1> QED
  BY <1>2, <1>3 DEF From

\* The same argument as for Invariance, on the way back.
LEMMA Roots == Spec => [](TypeOK /\ Rooted /\ Rootless)
<1>1. Init => Rooted /\ Rootless
  BY DEF Init, Rooted, Rootless, First
<1>2. TypeOK /\ TypeOK' /\ Rooted /\ Rootless /\ [Next]_vars => Rooted' /\ Rootless'
  <2> SUFFICES ASSUME TypeOK, TypeOK', Rooted, Rootless, [Next]_vars
               PROVE  Rooted' /\ Rootless'
    OBVIOUS
  <2>0. /\ main \in Seq(Entry) /\ Len(main) \in Nat /\ DOMAIN main = 1 .. Len(main)
        /\ Len(main) >= 1 /\ green \subseteq 1 .. Len(main)
    BY DEF TypeOK, Entry
  <2>1. ASSUME NEW tree, NEW below, NEW n, Land(tree, below, n)
        PROVE  Rooted' /\ Rootless'
    <3>1. main' \in Seq(Entry)
      BY DEF TypeOK, Entry
    <3>2. Len(main') = Len(main) + 1 /\ \A p \in 1 .. Len(main) : main'[p] = main[p]
      BY <2>0, <2>1, <3>1 DEF Land
    <3>3. green' = green /\ DOMAIN main' = 1 .. Len(main) + 1
      BY <2>1, <3>1, <3>2 DEF Land
    <3>4. Rootless'
      BY <2>0, <3>2 DEF Rootless
    <3>5. ASSUME NEW i \in DOMAIN main', NEW j \in DOMAIN main', i < j, Governed(i, j)'
          PROVE  From(i, j)'
      <4>1. j \in green
        BY <3>3, <3>5 DEF Governed
      <4>2. i \in DOMAIN main /\ j \in DOMAIN main /\ Governed(i, j)
        BY <2>0, <3>3, <3>5, <4>1 DEF Governed
      <4>3. From(i, j)
        BY <3>5, <4>2 DEF Rooted
      <4>4. \A l \in i + 1 .. j : main'[l] = main[l]
        BY <2>0, <3>2, <4>2
      <4> QED
        BY <2>0, <3>2, <4>2, <4>3, <4>4 DEF From
    <3> QED
      BY <3>4, <3>5 DEF Rooted
  <2>2. CASE Push
    BY <2>1, <2>2 DEF Push
  <2>3. ASSUME NEW p \in 2 .. Len(main), Run(p)
        PROVE  Rooted' /\ Rootless'
    <3>1. main' = main /\ green' = green \cup {p}
      BY <2>3 DEF Run
    <3>2. Accepted(main[p - 1].tree.registry, main[p].tree)
      BY <2>3 DEF Run, Base
    <3>3. From(p - 1, p)
      BY <3>2, AcceptedRoots DEF From
    <3>4. ASSUME NEW i \in DOMAIN main, NEW j \in DOMAIN main, i < j,
                 i + 1 .. j \subseteq green \cup {p}
          PROVE  From(i, j)
      <4>1. CASE p \notin i + 1 .. j
        BY <3>4, <4>1 DEF Rooted, Governed
      <4>2. CASE p \in i + 1 .. j
        <5>1. p - 1 \in DOMAIN main /\ p \in DOMAIN main
          BY <2>0
        <5>2. From(i, p)
          <6>1. CASE i = p - 1
            BY <3>3, <6>1
          <6>2. CASE i # p - 1
            <7>1. i < p - 1 /\ Governed(i, p - 1)
              BY <2>0, <3>4, <4>2, <6>2 DEF Governed
            <7>2. From(i, p - 1)
              BY <5>1, <7>1 DEF Rooted
            <7> QED
              BY <2>0, <3>3, <5>1, <7>1, <7>2, FromOn
          <6> QED
            BY <6>1, <6>2
        <5>3. CASE j = p
          BY <5>2, <5>3
        <5>4. CASE j # p
          <6>1. p < j /\ Governed(p, j)
            BY <2>0, <3>4, <4>2, <5>4 DEF Governed
          <6>2. From(p, j)
            BY <5>1, <6>1 DEF Rooted
          <6> QED
            BY <2>0, <4>2, <5>1, <5>2, <6>1, <6>2, FromOn
        <5> QED
          BY <5>3, <5>4
      <4> QED
        BY <4>1, <4>2
    <3> QED
      BY <3>1, <3>4 DEF Rooted, Governed, Rootless, From
  <2>4. CASE UNCHANGED vars
    BY <2>4 DEF vars, Rooted, Rootless, Governed, From
  <2> QED
    BY <2>2, <2>3, <2>4 DEF Next
<1> QED
  BY <1>1, <1>2, TypeCorrect, PTL DEF Spec

\* A release pins what was reviewed, at one revision of the branch, in one catalog.
THEOREM PinsReviewed == Spec => []PinsWereReviewed
<1>1. TypeOK /\ Rooted /\ Rootless => PinsWereReviewed
  <2> SUFFICES ASSUME TypeOK, Rooted, Rootless,
                      NEW j \in DOMAIN main, Governed(1, j), NEW r \in main[j].tree.registry
               PROVE  \E i \in 1 .. j : Reviewed(r.digest, main[i].tree)
    BY DEF PinsWereReviewed
  <2>1. 1 \in DOMAIN main /\ 1 < j /\ j \in Nat
    BY DEF TypeOK, Rootless
  <2>2. From(1, j)
    BY <2>1 DEF Rooted
  <2> QED
    BY <2>1, <2>2 DEF From, Rootless
<1> QED
  BY <1>1, Roots, PTL


\* What a task may do to the selection of a release: nothing to what is pinned.
THEOREM SelectionFaithful == Spec => []SelectionIsFaithful
<1>1. TypeOK /\ Checked /\ Rootless => SelectionIsFaithful
  <2> SUFFICES ASSUME TypeOK, Checked, Rootless, Governed(1, Len(main)),
                      NEW r \in Tip.registry,
                      NEW add \in SUBSET Module, NEW narrow \in SUBSET Module,
                      TakesDelta(r.digest, add, narrow, Tip.rows)
               PROVE  LET sel == Selection(r.digest, add, narrow, Tip.rows) IN
            /\ \A m \in DOMAIN r.digest.required :
                 m \in DOMAIN sel /\ sel[m] = r.digest.required[m]
            /\ \A m \in DOMAIN r.digest.optional \cap DOMAIN sel :
                 sel[m] = r.digest.optional[m]
            /\ \A m \in DOMAIN sel \ Members(r.digest) :
                 r.digest.additions /\ m \notin r.digest.deny /\ Eligible(Tip.rows[m])
            /\ CanonicalSelection(sel)
    BY DEF SelectionIsFaithful
  <2>1. Len(main) \in Nat /\ Len(main) > 1
    BY DEF TypeOK, Rootless, Tip
  <2>2. Accepted(main[Len(main) - 1].tree.registry, Tip)
    <3>1. Len(main) \in green \ {1}
      <4>1. PICK n \in Nat : n = Len(main)
        BY <2>1
      <4>2. n \in 1 + 1 .. n /\ 1 + 1 .. n \subseteq green
        BY <2>1, <4>1 DEF Governed
      <4> QED
        BY <2>1, <4>1, <4>2
    <3> QED
      BY <3>1 DEF Checked, Tip
  <2>3. DOMAIN r.digest.required \cap DOMAIN r.digest.optional = {}
    BY <2>2 DEF Accepted, ValidRecord, ReadsBack, Canonical
  <2> DEFINE d == r.digest
             sel == Selection(d, add, narrow, Tip.rows)
  <2>4. /\ add # {} => d.additions
        /\ narrow \subseteq DOMAIN d.optional
        /\ \A m \in add : m \notin Members(d) /\ m \notin d.deny /\ Eligible(Tip.rows[m])
    BY DEF TakesDelta
  <2>5. /\ DOMAIN sel = (Members(d) \ narrow) \cup add
        /\ \A m \in DOMAIN sel : sel[m] = IF m \in add THEN Tip.rows[m].review
                                          ELSE IF m \in DOMAIN d.required THEN d.required[m]
                                          ELSE d.optional[m]
    BY DEF Selection
  <2> HIDE DEF sel
  <2>6. \A m \in DOMAIN d.required : m \in DOMAIN sel /\ sel[m] = d.required[m]
    BY <2>3, <2>4, <2>5 DEF Members
  <2>7. \A m \in DOMAIN d.optional \cap DOMAIN sel : sel[m] = d.optional[m]
    BY <2>3, <2>4, <2>5 DEF Members
  <2>8. \A m \in DOMAIN sel \ Members(d) :
          d.additions /\ m \notin d.deny /\ Eligible(Tip.rows[m])
    BY <2>4, <2>5
  <2>9. CanonicalSelection(sel)
    <3>1. /\ \A m \in DOMAIN d.required : d.required[m] # None
          /\ \A m \in DOMAIN d.optional : d.optional[m] # None
      BY <2>2 DEF Accepted, ValidRecord, ReadsBack, Canonical, Range
    <3>2. \A m \in DOMAIN sel : sel[m] # None
      BY <2>4, <2>5, <3>1 DEF Members, Eligible
    <3> QED
      BY <3>2 DEF CanonicalSelection, Range
  <2> QED
    BY <2>6, <2>7, <2>8, <2>9 DEF sel
<1> QED
  BY <1>1, Invariance, Roots, PTL

(***************************************************************************)
(* The governance registry.                                                  *)
(*                                                                           *)
(* For any decisions, questions, nodes and replacements, and any number of   *)
(* revisions.  What an author drafts does not matter, only what the check of *)
(* one revision and of two lets through; a decision that stands, or a        *)
(* landing that is ready, is carried from each revision to the next.         *)
(***************************************************************************)

\* Every revision was admitted on the one before it.
AdmittedInv ==
  /\ \E S : revisions \in Seq(S)
  /\ Len(revisions) >= 1
  /\ revisions[1] = Genesis
  /\ \A i \in 1 .. Len(revisions) : Shaped(revisions[i]) /\ Evaluated(revisions[i])
  /\ \A i \in 1 .. Len(revisions) - 1 : Compared(revisions[i], revisions[i + 1])

Decided(rev, a) == a \in Present(rev.adrs) /\ rev.adrs[a].life # "Proposed"

\* What is decided in base stands in target.
Stands(base, target, a) ==
  LET was == base.adrs[a]
      is == target.adrs[a] IN
  /\ is.acceptance = was.acceptance
  /\ target.docs[a] = base.docs[a]
  /\ is.life \in {was.life} \cup (IF was.life = "Accepted" THEN {"Superseded"} ELSE {})

\* What is decided stays decided, as it was.
DecidedInv ==
  \A i \in 1 .. Len(revisions) : \A j \in i .. Len(revisions) : \A a \in Adr :
    Decided(revisions[i], a) =>
      Decided(revisions[j], a) /\ Stands(revisions[i], revisions[j], a)

\* A decision is taken into revision j of history h.
TakenIn(h, a, j) ==
  /\ h[j].adrs[a] # Nil /\ h[j].adrs[a].life # "Proposed"
  /\ j > 1 =>
       /\ h[j - 1].adrs[a] # Nil /\ h[j - 1].adrs[a].life = "Proposed"
       /\ h[j].adrs[a].acceptance.digest = Transition(h[j - 1], h[j], a, h[j].adrs[a].life)

\* What is decided was taken.
TakenInv ==
  \A i \in 1 .. Len(revisions) : \A a \in Adr :
    Decided(revisions[i], a) => \E j \in 1 .. i : TakenIn(revisions, a, j)

\* A landing that is ready stays so, on the same prerequisites.
KeptReady(base, target) ==
  \A n \in Ready(base) :
    /\ n \in Ready(target)
    /\ target.nodes[n].requires = base.nodes[n].requires
    /\ \A p \in base.nodes[n].requires \cap Landing :
         LET completion == base.nodes[p].completion IN
         /\ target.nodes[p].completion = completion
         /\ completion.bytes # Nil => target.files[p] = completion.bytes

ReadyInv ==
  \A i \in 1 .. Len(revisions) : \A j \in i .. Len(revisions) :
    KeptReady(revisions[i], revisions[j])

\* The nodes of genesis stay, the others replace one that is there, and one current node
\* comes from each of genesis.
Descends(rev) ==
  /\ Present(Genesis.nodes) \subseteq Present(rev.nodes)
  /\ \A n \in Present(rev.nodes) \ Present(Genesis.nodes) :
       rev.nodes[n].replaces \in Present(rev.nodes)
  /\ KeepsShape(rev.nodes)

DescentInv == \A i \in 1 .. Len(revisions) : Descends(revisions[i])

RegistryInv == AdmittedInv /\ DecidedInv /\ TakenInv /\ ReadyInv /\ DescentInv

LEMMA DraftShaped ==
  ASSUME Shaped(Newest)
  PROVE  /\ \A a, adr, text : Shaped(WithAdr(a, adr, text))
         /\ \A a, doc : Shaped([Newest EXCEPT !.docs[a] = doc])
         /\ \A a : Shaped([Newest EXCEPT !.adrs[a] = Nil, !.docs[a] = Nil])
         /\ \A n \in Node : \A node : (n \in Gate => node = Nil \/ node.requires = {})
              => Shaped([Newest EXCEPT !.nodes[n] = node])
         /\ \A n, bytes : Shaped([Newest EXCEPT !.files[n] = bytes])
<1> PICK rev : rev = Newest
  OBVIOUS
<1>1. \A a, adr, text : Shaped([rev EXCEPT !.adrs[a] = adr, !.docs[a] = Header(adr, text)])
  BY DEF Shaped
<1>2. \A a, doc : Shaped([rev EXCEPT !.docs[a] = doc])
  BY DEF Shaped
<1>3. \A n \in Node : \A node : (n \in Gate => node = Nil \/ node.requires = {})
        => Shaped([rev EXCEPT !.nodes[n] = node])
  <2> TAKE n \in Node
  <2> TAKE node
  <2> HAVE n \in Gate => node = Nil \/ node.requires = {}
  <2> PICK next : next = [rev EXCEPT !.nodes[n] = node]
    OBVIOUS
  <2>1. /\ DOMAIN next = DOMAIN rev
        /\ next.adrs = rev.adrs /\ next.docs = rev.docs /\ next.files = rev.files
        /\ DOMAIN next.nodes = DOMAIN rev.nodes
        /\ \A m \in DOMAIN rev.nodes : m # n => next.nodes[m] = rev.nodes[m]
    BY DEF Shaped
  <2>2. n \in DOMAIN rev.nodes => next.nodes[n] = node
    BY DEF Shaped
  <2>3. \A m \in Present(next.nodes) \cap Gate : next.nodes[m].requires = {}
    <3> TAKE m \in Present(next.nodes) \cap Gate
    <3>1. m \in DOMAIN rev.nodes /\ next.nodes[m] # Nil
      BY <2>1 DEF Present
    <3>2. CASE m = n
      BY <2>2, <3>1, <3>2
    <3>3. CASE m # n
      BY <2>1, <3>1, <3>3 DEF Shaped, Present
    <3> QED
      BY <3>2, <3>3
  <2> QED
    BY <2>1, <2>3 DEF Shaped
<1>4. \A n, bytes : Shaped([rev EXCEPT !.files[n] = bytes])
  BY DEF Shaped
<1>5. \A a, adr, text : Shaped(WithAdr(a, adr, text))
  BY <1>1 DEF WithAdr
<1>6. \A a : Shaped([rev EXCEPT !.adrs[a] = Nil, !.docs[a] = Nil])
  BY DEF Shaped
<1> QED
  BY <1>2, <1>3, <1>4, <1>5, <1>6

\* Whatever is drafted, a step admits a revision that has its shape.
LEMMA StepAdmits ==
  ASSUME Shaped(Newest), RegistryNext
  PROVE  \E revision : Shaped(revision) /\ Admit(revision)
<1>1. CASE \E a \in Adr : Propose(a)
  <2> PICK a \in Adr : Propose(a)
    BY <1>1
  <2>1. PICK revision \in ProposalDrafts(a) : Admit(revision)
    BY DEF Propose
  <2>2. revision = [Newest EXCEPT !.adrs[a] = Nil, !.docs[a] = Nil]
        \/ \E adr : revision = WithAdr(a, adr, TextOf(a))
    BY <2>1 DEF ProposalDrafts
  <2>3. Shaped(revision)
    <3>1. Shaped([Newest EXCEPT !.adrs[a] = Nil, !.docs[a] = Nil])
      BY DraftShaped
    <3>2. \A adr, text : Shaped(WithAdr(a, adr, text))
      BY DraftShaped
    <3> QED
      BY <2>2, <3>1, <3>2, Zenon
  <2> QED
    BY <2>1, <2>3
<1>2. CASE \E a \in Adr : Decide(a)
  <2>1. PICK a \in Adr, life \in {"Accepted", "Rejected"}, supersede \in BOOLEAN,
             on \in DOMAIN revisions, again \in BOOLEAN :
               Admit(DecisionDraft(a, life, supersede, on, again))
    BY <1>2 DEF Decide
  <2> DEFINE adr == [Newest.adrs[a] EXCEPT !.life = life]
             decided == WithAdr(a, adr, TextOf(a))
             target == IF supersede THEN Supersede(decided, a) ELSE decided
             pinned == [target EXCEPT !.adrs[a].acceptance = [content |-> target.docs[a]]]
             signed == [content |-> target.docs[a],
                        digest |-> Transition(revisions[on], pinned, a, life)]
             draft == IF again \/ adr.acceptance = Nil
                        THEN [target EXCEPT !.adrs[a].acceptance = signed] ELSE target
  <2>2. DecisionDraft(a, life, supersede, on, again) = draft
    BY DEF DecisionDraft
  <2>3. Shaped(decided)
    BY DraftShaped
  <2> HIDE DEF decided, signed, adr
  <2>4. Shaped(target)
    BY <2>3 DEF Shaped, Supersede
  <2> HIDE DEF target
  <2>5. Shaped([target EXCEPT !.adrs[a].acceptance = signed])
    BY <2>4 DEF Shaped
  <2>6. Shaped(draft)
    BY <2>4, <2>5
  <2> HIDE DEF draft
  <2> QED
    BY <2>1, <2>2, <2>6
<1>3. CASE \E a \in Adr : Amend(a)
  <2>1. PICK a \in Adr : Amend(a)
    BY <1>3
  <2>2. PICK text \in Text, follow \in BOOLEAN :
        LET doc == [Newest.docs[a] EXCEPT !.text = text]
            edited == [Newest EXCEPT !.docs[a] = doc]
        IN Admit(IF follow /\ Newest.adrs[a].acceptance # Nil
                   THEN [edited EXCEPT !.adrs[a].acceptance.content = doc] ELSE edited)
    BY <2>1 DEF Amend
  <2> DEFINE doc == [Newest.docs[a] EXCEPT !.text = text]
             edited == [Newest EXCEPT !.docs[a] = doc]
  <2>3. Shaped(edited)
    BY DraftShaped
  <2>4. Admit(IF follow /\ Newest.adrs[a].acceptance # Nil
                THEN [edited EXCEPT !.adrs[a].acceptance.content = doc] ELSE edited)
    BY <2>2
  <2> HIDE DEF edited, doc
  <2>5. Shaped([edited EXCEPT !.adrs[a].acceptance.content = doc])
    BY <2>3 DEF Shaped
  <2> QED
    BY <2>3, <2>4, <2>5
<1>4. CASE \E n \in Node : Deliver(n)
  <2> PICK n \in Node : Deliver(n)
    BY <1>4
  <2>1. PICK node \in NodeDrafts(n) :
          Newest.nodes[n] # Nil /\ Admit([Newest EXCEPT !.nodes[n] = node])
    BY DEF Deliver
  <2>2. ASSUME n \in Gate, node # Nil PROVE node.requires = {}
    <3> PICK rev : rev = [Newest EXCEPT !.nodes[n] = node]
      OBVIOUS
    <3>1. rev.nodes[n] = node /\ n \in Present(Newest.nodes) /\ n \in Present(rev.nodes)
      BY <2>1, <2>2 DEF Shaped, Present
    <3>2. Identity(n, Newest.nodes[n]) = Identity(n, rev.nodes[n])
      BY <2>1, <3>1 DEF Admit, Compared, InputsCompared
    <3>3. rev.nodes[n].requires = Newest.nodes[n].requires
      BY <3>2 DEF Identity
    <3> QED
      BY <2>2, <3>1, <3>3 DEF Shaped
  <2> QED
    BY <2>1, <2>2, DraftShaped
<1>5. CASE \E n \in Landing : Touch(n)
  BY <1>5, DraftShaped DEF Touch
<1>6. CASE Replace
  <2>1. ASSUME NEW f, DOMAIN f = Node, \A m \in Present(f) \cap Gate : f[m].requires = {}
        PROVE  Shaped([Newest EXCEPT !.nodes = f])
    BY <2>1 DEF Shaped
  <2>2. \E f : /\ DOMAIN f = Node /\ \A m \in Present(f) \cap Gate : f[m].requires = {}
               /\ Admit([Newest EXCEPT !.nodes = f])
    <3> PICK S \in SUBSET Present(Newest.nodes) :
            /\ \A n \in S : Fresh(n) # {}
            /\ \E repoint, linked \in BOOLEAN, question \in Question :
               LET heir == [n \in S |-> CHOOSE m \in Fresh(n) : TRUE]
                   Repointed(p) == IF repoint /\ p \in S THEN heir[p] ELSE p
                   New(n) == Replacement(n, heir[n], {Repointed(p) : p \in Newest.nodes[n].requires},
                                         question, linked)
               IN Admit([Newest EXCEPT !.nodes = [m \in Node |->
                      IF \E n \in S : heir[n] = m THEN New(CHOOSE n \in S : heir[n] = m)
                      ELSE Newest.nodes[m]]])
      BY <1>6, Zenon DEF Replace
    <3>1. PICK repoint \in BOOLEAN, linked \in BOOLEAN, question \in Question :
               LET heir == [n \in S |-> CHOOSE m \in Fresh(n) : TRUE]
                   Repointed(p) == IF repoint /\ p \in S THEN heir[p] ELSE p
                   New(n) == Replacement(n, heir[n], {Repointed(p) : p \in Newest.nodes[n].requires},
                                         question, linked)
               IN Admit([Newest EXCEPT !.nodes = [m \in Node |->
                      IF \E n \in S : heir[n] = m THEN New(CHOOSE n \in S : heir[n] = m)
                      ELSE Newest.nodes[m]]])
      OBVIOUS
    <3> DEFINE heir == [n \in S |-> CHOOSE m \in Fresh(n) : TRUE]
               Repointed(p) == IF repoint /\ p \in S THEN heir[p] ELSE p
               New(n) == Replacement(n, heir[n], {Repointed(p) : p \in Newest.nodes[n].requires},
                                         question, linked)
               f == [m \in Node |->
                      IF \E n \in S : heir[n] = m THEN New(CHOOSE n \in S : heir[n] = m)
                      ELSE Newest.nodes[m]]
    <3>2. \A n \in S : heir[n] \in Fresh(n)
      BY <3>1
    <3>3. Admit([Newest EXCEPT !.nodes = f])
      BY <3>1
    <3>4. DOMAIN f = Node
      OBVIOUS
    <3>5. ASSUME NEW m \in Present(f) \cap Gate
          PROVE  f[m].requires = {}
      <4>1. m \in Node /\ f[m] # Nil
        BY DEF Present
      <4>2. CASE \E n \in S : heir[n] = m
        <5>1. PICK n \in S : f[m] = New(n) /\ heir[n] = m
          BY <4>1, <4>2
        <5>2. heir[n] \in Fresh(n)
          BY <3>2
        <5>3. n \in Present(Newest.nodes) /\ Kind(n) = Kind(m)
          BY <5>1, <5>2 DEF Fresh
        <5>4. n \in Gate
          BY <5>3 DEF Kind
        <5>5. Newest.nodes[n].requires = {}
          BY <5>3, <5>4 DEF Shaped
        <5>6. {Repointed(p) : p \in Newest.nodes[n].requires} = {}
          BY <5>5
        <5> HIDE DEF Repointed
        <5>7. New(n) = Replacement(n, heir[n], {}, question, linked)
          BY <5>6
        <5>8. New(n).requires = {}
          BY <5>7 DEF Replacement
        <5> QED
          BY <5>1, <5>8
      <4>3. CASE ~ \E n \in S : heir[n] = m
        <5>1. f[m] = Newest.nodes[m]
          BY <4>1, <4>3
        <5>2. m \in Present(Newest.nodes) \cap Gate
          BY <4>1, <5>1 DEF Shaped, Present
        <5> QED
          BY <5>1, <5>2 DEF Shaped
      <4> QED
        BY <4>2, <4>3
    <3> HIDE DEF f
    <3> QED
      BY <3>3, <3>4, <3>5
  <2> QED
    BY <2>1, <2>2
<1> QED
  BY <1>1, <1>2, <1>3, <1>4, <1>5, <1>6 DEF RegistryNext
-----------------------------------------------------------------------------
(* What two revisions keep.                                                 *)

\* A decision's document has the bytes its acceptance pins.
LEMMA DocumentPinned ==
  ASSUME NEW rev, Evaluated(rev), NEW a, Decided(rev, a)
  PROVE  rev.docs[a] = rev.adrs[a].acceptance.content
BY DEF Evaluated, ValidAdr, PinHolds, Decided

\* A decision that is taken stays as it is.
LEMMA DecisionKept ==
  ASSUME NEW base, NEW target, Compared(base, target), Evaluated(base), Evaluated(target),
         NEW a, Decided(base, a)
  PROVE  Decided(target, a) /\ Stands(base, target, a)
<1>1. a \in Present(base.adrs) \cap Present(target.adrs)
  BY DEF Compared, Decided
<1>2. /\ <<base.adrs[a].life, target.adrs[a].life>> \in AdrTransitions
      /\ target.adrs[a].acceptance = base.adrs[a].acceptance
  BY <1>1 DEF Compared, DecisionsCompared, Decided
<1>3. Decided(target, a)
  BY <1>1, <1>2 DEF AdrTransitions, Decided
<1>4. target.docs[a] = base.docs[a]
  BY <1>2, <1>3, DocumentPinned
<1>5. base.adrs[a].life # "Proposed"
  BY DEF Decided
<1> QED
  BY <1>2, <1>3, <1>4, <1>5 DEF AdrTransitions, Stands

LEMMA StandsComposes ==
  ASSUME NEW r, NEW s, NEW t, NEW a, Stands(r, s, a), Stands(s, t, a)
  PROVE  Stands(r, t, a)
BY DEF Stands

\* A decision that is new was proposed, and names these two revisions.
LEMMA DecisionTaken ==
  ASSUME NEW base, NEW target, Compared(base, target), NEW a, Decided(target, a), ~ Decided(base, a)
  PROVE  /\ base.adrs[a] # Nil /\ base.adrs[a].life = "Proposed"
         /\ target.adrs[a].acceptance.digest = Transition(base, target, a, target.adrs[a].life)
<1>1. a \in Present(base.adrs)
  BY DEF Compared, DecisionsCompared, Decided
<1>2. base.adrs[a] # Nil /\ base.adrs[a].life = "Proposed"
  BY <1>1 DEF Decided, Present
<1>3. a \in Present(target.adrs) /\ target.adrs[a].life # "Proposed"
  BY DEF Decided
<1>4. target.adrs[a].acceptance.digest = Transition(base, target, a, target.adrs[a].life)
  BY <1>1, <1>2, <1>3 DEF Compared, DecisionsCompared
<1> QED
  BY <1>2, <1>4

LEMMA ReadyStep ==
  ASSUME NEW base, NEW target, Evaluated(base), Evaluated(target), Compared(base, target)
  PROVE  KeptReady(base, target)
<1> SUFFICES ASSUME NEW n \in Ready(base)
             PROVE  /\ n \in Ready(target)
                    /\ target.nodes[n].requires = base.nodes[n].requires
                    /\ \A p \in base.nodes[n].requires \cap Landing :
                         LET completion == base.nodes[p].completion IN
                         /\ target.nodes[p].completion = completion
                         /\ completion.bytes # Nil => target.files[p] = completion.bytes
  BY DEF KeptReady
<1>1. Present(base.nodes) \subseteq Present(target.nodes)
  BY DEF Compared
<1>2. n \in Present(base.nodes) /\ n \in Landing /\ base.nodes[n].requires \subseteq Satisfied(base)
  BY DEF Ready
<1>3. \A m \in Present(base.nodes) :
        /\ target.nodes[m].requires = base.nodes[m].requires
        /\ target.nodes[m].question = base.nodes[m].question
  <2> SUFFICES ASSUME NEW m \in Present(base.nodes)
               PROVE  /\ target.nodes[m].requires = base.nodes[m].requires
                      /\ target.nodes[m].question = base.nodes[m].question
    OBVIOUS
  <2>1. Identity(m, base.nodes[m]) = Identity(m, target.nodes[m])
    BY <1>1 DEF Compared, InputsCompared
  <2> QED
    BY <2>1 DEF Identity
<1>4. ASSUME NEW p \in Satisfied(base), p \in Gate
      PROVE  p \in Satisfied(target)
  <2>1. p \in Present(base.nodes) /\ p \notin Landing
    BY <1>4, RegistryAssumption DEF Satisfied
  <2>2. Resolved(base.adrs, base.nodes[p].question)
    BY <2>1 DEF Satisfied
  <2>3. base.nodes[p].question \in Question
    BY <2>2 DEF Resolved, Resolvers, Evaluated, ValidRelationships
  <2>4. Resolved(target.adrs, base.nodes[p].question)
    BY <2>2, <2>3 DEF Compared, ResolversCompared
  <2> QED
    BY <1>1, <1>3, <1>4, <2>1, <2>4 DEF Satisfied
<1>5. ASSUME NEW p \in Satisfied(base), p \in Landing
      PROVE  /\ p \in Satisfied(target)
             /\ target.nodes[p].completion = base.nodes[p].completion
             /\ base.nodes[p].completion.bytes # Nil => target.files[p] = base.nodes[p].completion.bytes
  <2>1. p \in Present(base.nodes) \cap Present(target.nodes) \cap Landing
        /\ base.nodes[p].life = "Complete"
    BY <1>1, <1>5, RegistryAssumption DEF Satisfied
  <2>2. /\ <<base.nodes[p].life, target.nodes[p].life>> \in DeliveryTransitions
        /\ target.nodes[p].completion = base.nodes[p].completion
    BY <2>1 DEF Compared, DeliveryCompared
  <2>3. target.nodes[p].life = "Complete"
    BY <2>1, <2>2 DEF DeliveryTransitions
  <2>4. ValidDelivery(p, target)
    BY <2>1 DEF Evaluated
  <2>5. ValidCompletion(p, target.nodes[p].completion, target)
    BY <2>3, <2>4 DEF ValidDelivery
  <2>6. base.nodes[p].completion.bytes # Nil => target.files[p] = base.nodes[p].completion.bytes
    BY <2>2, <2>5 DEF ValidCompletion, Evidenced, ContentHolds
  <2> QED
    BY <2>1, <2>2, <2>3, <2>6 DEF Satisfied
<1>6. \A p \in Satisfied(base) : p \in Gate \/ p \in Landing
  BY DEF Satisfied
<1>7. n \in Ready(target)
  BY <1>1, <1>2, <1>3, <1>4, <1>5, <1>6 DEF Ready
<1> QED
  BY <1>2, <1>3, <1>5, <1>7

LEMMA ReadyComposes ==
  ASSUME NEW a, NEW b, NEW c, KeptReady(a, b), KeptReady(b, c)
  PROVE  KeptReady(a, c)
BY DEF KeptReady

LEMMA ReadyReflexive ==
  ASSUME NEW rev, Evaluated(rev)
  PROVE  KeptReady(rev, rev)
<1> SUFFICES ASSUME NEW n \in Ready(rev), NEW p \in rev.nodes[n].requires \cap Landing,
                    rev.nodes[p].completion.bytes # Nil
             PROVE  rev.files[p] = rev.nodes[p].completion.bytes
  BY DEF KeptReady
<1>1. p \in Present(rev.nodes) /\ (p \in Gate \/ rev.nodes[p].life = "Complete")
  BY DEF Ready, Satisfied
<1>2. rev.nodes[p].life = "Complete" /\ ValidDelivery(p, rev)
  BY <1>1, RegistryAssumption DEF Evaluated
<1>3. ValidCompletion(p, rev.nodes[p].completion, rev)
  BY <1>2 DEF ValidDelivery
<1> QED
  BY <1>3 DEF ValidCompletion, Evidenced, ContentHolds

-----------------------------------------------------------------------------
(* What replacements keep.                                                  *)

\* What a comparison says of the nodes that were there, and of those that were not.
LEMMA NodesCompared ==
  ASSUME NEW base, NEW target, Compared(base, target)
  PROVE  /\ Present(base.nodes) \subseteq Present(target.nodes)
         /\ \A n \in Present(base.nodes) :
              /\ target.nodes[n].replaces = base.nodes[n].replaces
              /\ target.nodes[n].requires = base.nodes[n].requires
         /\ \A n \in Present(target.nodes) \ Present(base.nodes) :
              target.nodes[n].replaces \in Current(base.nodes)
<1>1. Present(base.nodes) \subseteq Present(target.nodes)
  BY DEF Compared
<1>2. ASSUME NEW n \in Present(base.nodes)
      PROVE  target.nodes[n].requires = base.nodes[n].requires
  <2>1. Identity(n, base.nodes[n]) = Identity(n, target.nodes[n])
    BY <1>1 DEF Compared, InputsCompared
  <2> QED
    BY <2>1 DEF Identity
<1> QED
  BY <1>1, <1>2 DEF Compared, ReplacementsCompared

\* What is current and was there was current; what is new is current.
LEMMA CurrentStep ==
  ASSUME NEW base, NEW target, Compared(base, target),
         Evaluated(base), Shaped(base), Shaped(target)
  PROVE  /\ Current(target.nodes) \cap Present(base.nodes) \subseteq Current(base.nodes)
         /\ Present(target.nodes) \ Present(base.nodes) \subseteq Current(target.nodes)
         /\ Nil \notin Present(target.nodes)
<1>1. Nil \notin Present(target.nodes) /\ Nil \notin Present(base.nodes)
  BY RegistryAssumption DEF Shaped, Present, Node
<1>2. Replaced(base.nodes) \subseteq Replaced(target.nodes)
  BY NodesCompared DEF Replaced
<1>3. ASSUME NEW m \in Present(target.nodes) \ Present(base.nodes), m \in Replaced(target.nodes)
      PROVE  FALSE
  <2>1. PICK x \in Present(target.nodes) : target.nodes[x].replaces = m
    BY <1>3 DEF Replaced
  <2>2. m # Nil
    BY <1>1
  <2>3. CASE x \in Present(base.nodes)
    BY <2>1, <2>2, <2>3, NodesCompared DEF Evaluated, ValidReplacements
  <2>4. CASE x \notin Present(base.nodes)
    BY <2>1, <2>4, NodesCompared DEF Current
  <2> QED
    BY <2>3, <2>4
<1> QED
  BY <1>1, <1>2, <1>3 DEF Current

\* The heir of what was current is current: itself, or the one new node that replaces it.
LEMMA HeirStep ==
  ASSUME NEW base, NEW target, Compared(base, target),
         Evaluated(base), Evaluated(target), Shaped(base), Shaped(target),
         NEW p \in Current(base.nodes)
  PROVE  /\ Heir(target.nodes, p) \in Current(target.nodes)
         /\ \/ p \in Current(target.nodes) /\ Heir(target.nodes, p) = p
            \/ /\ p \notin Current(target.nodes)
               /\ Heir(target.nodes, p) \in Present(target.nodes) \ Present(base.nodes)
               /\ target.nodes[Heir(target.nodes, p)].replaces = p
<1>1. p \in Present(base.nodes) /\ p \in Present(target.nodes) /\ p # Nil
  BY NodesCompared, CurrentStep DEF Current
<1>2. CASE p \notin Replaced(target.nodes)
  BY <1>1, <1>2 DEF Heir, Current
<1>3. CASE p \in Replaced(target.nodes)
  <2> DEFINE m == Heir(target.nodes, p)
  <2>1. \E x \in Present(target.nodes) : target.nodes[x].replaces = p
    BY <1>3 DEF Replaced
  <2>2. m \in Present(target.nodes) /\ target.nodes[m].replaces = p
    BY <1>3, <2>1 DEF Heir
  <2>3. m \notin Present(base.nodes)
    BY <1>1, <2>2, NodesCompared DEF Current, Replaced
  <2>4. p \notin Current(target.nodes)
    BY <1>3 DEF Current
  <2> QED
    BY <2>2, <2>3, <2>4, CurrentStep
<1> QED
  BY <1>2, <1>3

\* What a new node requires are the heirs of what the one it replaces required.
LEMMA RequiresStep ==
  ASSUME NEW base, NEW target, Compared(base, target),
         Evaluated(base), Evaluated(target), Shaped(base), Shaped(target),
         NEW x \in Present(target.nodes) \ Present(base.nodes)
  PROVE  target.nodes[x].requires =
           {Heir(target.nodes, p) : p \in base.nodes[target.nodes[x].replaces].requires}
<1> DEFINE y == target.nodes[x].replaces
<1>1. y \in Present(base.nodes) /\ y \in Present(target.nodes)
      /\ target.nodes[y].requires = base.nodes[y].requires /\ y # Nil
  BY NodesCompared, CurrentStep DEF Current
<1>2. Kind(y) = Kind(x)
  BY <1>1 DEF Evaluated, ValidReplacements
<1>3. x \in Gate \cup Landing
  BY DEF Shaped, Present, Node
<1>4. CASE x \in Landing
  BY <1>1, <1>4 DEF Evaluated, KeepsPrerequisites
<1>5. CASE x \in Gate
  <2>1. y \in Gate
    BY <1>2, <1>5 DEF Kind
  <2>2. target.nodes[x].requires = {} /\ base.nodes[y].requires = {}
    BY <1>1, <1>5, <2>1 DEF Shaped
  <2> QED
    BY <2>2
<1> QED
  BY <1>3, <1>4, <1>5

LEMMA DescendsStep ==
  ASSUME NEW base, NEW target, Compared(base, target),
         Evaluated(base), Evaluated(target), Shaped(base), Shaped(target), Descends(base)
  PROVE  Descends(target)
<1> DEFINE Root == Present(Genesis.nodes)
           was == Present(base.nodes)
           is == Present(target.nodes)
<1>a. PICK before \in [was \ Root -> Root] :
        LET from == [n \in was |-> IF n \in Root THEN n ELSE before[n]] IN
        /\ \A n \in was \ Root : from[n] = from[base.nodes[n].replaces]
        /\ \A r \in Root : \E n \in Current(base.nodes) :
             from[n] = r /\ \A m \in Current(base.nodes) : from[m] = r => m = n
        /\ \A n \in Current(base.nodes) :
             base.nodes[n].requires =
               {p \in Current(base.nodes) : from[p] \in Genesis.nodes[from[n]].requires}
  <2> SUFFICES ASSUME KeepsShape(base.nodes) PROVE
        \E before \in [was \ Root -> Root] :
          LET from == [n \in was |-> IF n \in Root THEN n ELSE before[n]] IN
          /\ \A n \in was \ Root : from[n] = from[base.nodes[n].replaces]
          /\ \A r \in Root : \E n \in Current(base.nodes) :
               from[n] = r /\ \A m \in Current(base.nodes) : from[m] = r => m = n
          /\ \A n \in Current(base.nodes) :
               base.nodes[n].requires =
                 {p \in Current(base.nodes) : from[p] \in Genesis.nodes[from[n]].requires}
    BY DEF Descends
  <2> QED
    BY DEF KeepsShape
<1> DEFINE origin == [n \in was |-> IF n \in Root THEN n ELSE before[n]]
<1>b. /\ \A n \in was \ Root : origin[n] = origin[base.nodes[n].replaces]
      /\ \A r \in Root : \E n \in Current(base.nodes) :
           origin[n] = r /\ \A m \in Current(base.nodes) : origin[m] = r => m = n
      /\ \A n \in Current(base.nodes) :
           base.nodes[n].requires =
             {p \in Current(base.nodes) : origin[p] \in Genesis.nodes[origin[n]].requires}
  BY <1>a
<1>1. origin \in [was -> Root] /\ \A n \in Root : n \in was => origin[n] = n
  OBVIOUS
<1> HIDE DEF origin
<1>2. /\ Root \subseteq was /\ was \subseteq is
      /\ Current(base.nodes) \subseteq was /\ Current(target.nodes) \subseteq is
  BY NodesCompared DEF Descends, Current
<1>3. \A n \in is \ was : target.nodes[n].replaces \in Current(base.nodes)
  BY NodesCompared
<1>4. PICK next : next = [n \in is |-> IF n \in was THEN origin[n]
                                       ELSE origin[target.nodes[n].replaces]]
  OBVIOUS
<1>5. /\ next \in [is -> Root]
      /\ \A n \in was : next[n] = origin[n]
      /\ \A n \in is \ was : next[n] = origin[target.nodes[n].replaces]
  BY <1>1, <1>2, <1>3, <1>4
<1>6. ASSUME NEW n \in is
      PROVE  next[n] = IF n \in Root THEN n ELSE next[target.nodes[n].replaces]
  <2>1. CASE n \in Root
    BY <1>1, <1>2, <1>5, <2>1
  <2>2. CASE n \in was \ Root
    <3>1. origin[n] = origin[base.nodes[n].replaces]
      BY <1>b, <2>2
    <3>2. base.nodes[n].replaces \in was
      BY <2>2 DEF Descends
    <3> QED
      BY <1>5, <2>2, <3>1, <3>2, NodesCompared
  <2>3. CASE n \in is \ was
    BY <1>2, <1>3, <1>5, <2>3
  <2> QED
    BY <1>2, <2>1, <2>2, <2>3
<1>7. ASSUME NEW p \in Current(base.nodes)
      PROVE  Heir(target.nodes, p) \in Current(target.nodes) /\ next[Heir(target.nodes, p)] = origin[p]
  BY <1>2, <1>5, HeirStep
<1>8. ASSUME NEW q \in Current(target.nodes)
      PROVE  \E p \in Current(base.nodes) : Heir(target.nodes, p) = q /\ origin[p] = next[q]
  <2>1. CASE q \in was
    <3>1. q \in Current(base.nodes)
      BY <2>1, CurrentStep
    <3> QED
      BY <1>5, <2>1, <3>1, HeirStep
  <2>2. CASE q \notin was
    <3>1. PICK p \in Current(base.nodes) : p = target.nodes[q].replaces
      BY <1>2, <1>3, <2>2
    <3>2. p # Nil /\ q \in is
      BY <1>2, CurrentStep
    <3>3. p \in Replaced(target.nodes)
      BY <3>1, <3>2 DEF Replaced
    <3>4. Heir(target.nodes, p) \in is /\ target.nodes[Heir(target.nodes, p)].replaces = p
      BY <3>3, HeirStep DEF Current
    <3>5. Heir(target.nodes, p) = q
      BY <3>1, <3>2, <3>4 DEF Evaluated, ValidReplacements
    <3> QED
      BY <1>2, <1>5, <2>2, <3>1, <3>2, <3>5
  <2> QED
    BY <2>1, <2>2
<1>9. ASSUME NEW r \in Root
      PROVE  \E n \in Current(target.nodes) :
               next[n] = r /\ \A m \in Current(target.nodes) : next[m] = r => m = n
  <2>1. PICK n \in Current(base.nodes) :
          origin[n] = r /\ \A m \in Current(base.nodes) : origin[m] = r => m = n
    BY <1>b
  <2>2. \A m \in Current(target.nodes) : next[m] = r => m = Heir(target.nodes, n)
    BY <1>8, <2>1
  <2> QED
    BY <1>7, <2>1, <2>2
<1>10. ASSUME NEW x \in Current(target.nodes)
       PROVE  target.nodes[x].requires =
                {q \in Current(target.nodes) : next[q] \in Genesis.nodes[next[x]].requires}
  <2>1. CASE x \in was
    <3>1. x \in Current(base.nodes) /\ next[x] = origin[x]
          /\ target.nodes[x].requires = base.nodes[x].requires
      BY <1>5, <2>1, CurrentStep, NodesCompared
    <3>2. target.nodes[x].requires \subseteq Current(target.nodes)
      BY DEF Evaluated, DependentsFollow
    <3>3. target.nodes[x].requires =
            {p \in Current(base.nodes) : origin[p] \in Genesis.nodes[next[x]].requires}
      BY <1>b, <3>1
    <3>4. \A p \in target.nodes[x].requires : next[p] = origin[p]
      BY <1>2, <1>5, <3>3
    <3>5. ASSUME NEW q \in Current(target.nodes), next[q] \in Genesis.nodes[next[x]].requires
          PROVE  q \in target.nodes[x].requires
      <4>1. PICK p \in Current(base.nodes) : Heir(target.nodes, p) = q /\ origin[p] = next[q]
        BY <1>8
      <4>2. p \in target.nodes[x].requires
        BY <3>3, <3>5, <4>1
      <4>3. p \in Current(target.nodes)
        BY <3>2, <4>2
      <4> QED
        BY <4>1, <4>2, <4>3, HeirStep
    <3> QED
      BY <3>2, <3>3, <3>4, <3>5
  <2>2. CASE x \notin was
    <3>1. PICK y \in Current(base.nodes) : y = target.nodes[x].replaces /\ next[x] = origin[y]
      BY <1>2, <1>3, <1>5, <2>2
    <3>2. target.nodes[x].requires = {Heir(target.nodes, p) : p \in base.nodes[y].requires}
      BY <1>2, <2>2, <3>1, RequiresStep
    <3>3. base.nodes[y].requires =
            {p \in Current(base.nodes) : origin[p] \in Genesis.nodes[next[x]].requires}
      BY <1>b, <3>1
    <3>4. ASSUME NEW p \in base.nodes[y].requires
          PROVE  /\ Heir(target.nodes, p) \in Current(target.nodes)
                 /\ next[Heir(target.nodes, p)] \in Genesis.nodes[next[x]].requires
      BY <1>7, <3>3
    <3>5. ASSUME NEW q \in Current(target.nodes), next[q] \in Genesis.nodes[next[x]].requires
          PROVE  \E p \in base.nodes[y].requires : Heir(target.nodes, p) = q
      <4>1. PICK p \in Current(base.nodes) : Heir(target.nodes, p) = q /\ origin[p] = next[q]
        BY <1>8
      <4> QED
        BY <3>3, <3>5, <4>1
    <3> QED
      BY <3>2, <3>4, <3>5
  <2> QED
    BY <2>1, <2>2
<1>11. KeepsShape(target.nodes)
  <2> DEFINE later == [n \in is \ Root |-> next[n]]
             full == [n \in is |-> IF n \in Root THEN n ELSE later[n]]
  <2>1. later \in [is \ Root -> Root]
    BY <1>5
  <2>2. full = next
    <3>1. \A n \in is : full[n] = next[n]
      BY <1>6
    <3> QED
      BY <1>5, <3>1
  <2> HIDE DEF later
  <2>3. /\ \A n \in is \ Root : next[n] = next[target.nodes[n].replaces]
        /\ \A r \in Root : \E n \in Current(target.nodes) :
             next[n] = r /\ \A m \in Current(target.nodes) : next[m] = r => m = n
        /\ \A n \in Current(target.nodes) :
             target.nodes[n].requires =
               {p \in Current(target.nodes) : next[p] \in Genesis.nodes[next[n]].requires}
    BY <1>6, <1>9, <1>10
  <2> HIDE DEF full
  <2>4. /\ \A n \in is \ Root : full[n] = full[target.nodes[n].replaces]
        /\ \A r \in Root : \E n \in Current(target.nodes) :
             full[n] = r /\ \A m \in Current(target.nodes) : full[m] = r => m = n
        /\ \A n \in Current(target.nodes) :
             target.nodes[n].requires =
               {p \in Current(target.nodes) : full[p] \in Genesis.nodes[full[n]].requires}
    BY <2>2, <2>3
  <2> USE DEF full
  <2> QED
    BY <2>1, <2>4, Zenon DEF KeepsShape
<1>12. \A n \in is \ Root : target.nodes[n].replaces \in is
  BY <1>2, <1>3, NodesCompared DEF Descends
<1> QED
  BY <1>2, <1>11, <1>12 DEF Descends

LEMMA GenesisDescends == Descends(Genesis)
<1> DEFINE Root == Present(Genesis.nodes)
<1>1. Replaced(Genesis.nodes) = {} /\ Current(Genesis.nodes) = Root
  BY RegistryHistoryAssumption DEF Replaced, Current
<1>2. PICK origin : origin = [n \in Root |-> n]
  OBVIOUS
<1>3. origin \in [Root -> Root] /\ \A n \in Root : origin[n] = n
  BY <1>2
<1>4. \A n \in Root : Genesis.nodes[n].requires \subseteq Root
  BY <1>1, RegistryHistoryAssumption DEF Evaluated, DependentsFollow
<1>5. \A n \in Root : Genesis.nodes[n].requires = {p \in Root : origin[p] \in Genesis.nodes[origin[n]].requires}
  BY <1>3, <1>4
<1>6. KeepsShape(Genesis.nodes)
  <2> PICK later : later = [n \in Root \ Root |-> n]
    OBVIOUS
  <2>1. later \in [Root \ Root -> Root]
    OBVIOUS
  <2>2. origin = [n \in Root |-> IF n \in Root THEN n ELSE later[n]]
    BY <1>3
  <2> QED
    BY <1>1, <1>3, <1>5, <2>1, <2>2 DEF KeepsShape
<1> QED
  BY <1>6 DEF Descends

-----------------------------------------------------------------------------
(* What a history keeps.                                                    *)

LEMMA AdmittedOn ==
  ASSUME RegistryInv, NEW rev, Shaped(rev), Admit(rev)
  PROVE  RegistryInv'
<1>1. PICK S : revisions \in Seq(S)
  BY DEF RegistryInv, AdmittedInv
<1>2. PICK n, h : n = Len(revisions) /\ n \in Nat /\ h = revisions'
  BY <1>1
<1> n \in Nat
  BY <1>2
<1>3. /\ n >= 1 /\ h \in Seq(S \cup {rev}) /\ Len(h) = n + 1
      /\ h[n + 1] = rev
      /\ \A i \in 1 .. n : h[i] = revisions[i]
  <2>1. revisions \in Seq(S \cup {rev}) /\ revisions' = Append(revisions, rev)
    BY <1>1 DEF Admit
  <2> QED
    BY <1>2, <2>1 DEF RegistryInv, AdmittedInv
<1>4. Compared(revisions[n], rev) /\ Evaluated(rev)
  BY <1>2 DEF Admit, Newest
<1>5. \A i \in 1 .. n + 1 : Shaped(h[i]) /\ Evaluated(h[i])
  BY <1>2, <1>3, <1>4 DEF RegistryInv, AdmittedInv
<1>6. \A i \in 1 .. n : Compared(h[i], h[i + 1])
  <2> TAKE i \in 1 .. n
  <2>1. CASE i = n
    BY <1>3, <1>4, <2>1
  <2>2. CASE i < n
    <3>1. i \in 1 .. n - 1 /\ i + 1 \in 1 .. n
      BY <2>2
    <3> QED
      BY <1>2, <1>3, <3>1 DEF RegistryInv, AdmittedInv
  <2> QED
    BY <2>1, <2>2
<1>7. n \in 1 .. n /\ n + 1 \in 1 .. n + 1 /\ 1 \in 1 .. n /\ n + 1 - 1 = n
  BY <1>3
<1>8. AdmittedInv'
  BY <1>2, <1>3, <1>5, <1>6, <1>7 DEF AdmittedInv, RegistryInv
<1>9. \A i \in 1 .. n : \A j \in i .. n : \A a \in Adr :
        Decided(h[i], a) => Decided(h[j], a) /\ Stands(h[i], h[j], a)
  BY <1>2, <1>3 DEF RegistryInv, DecidedInv
<1>10. \A i \in 1 .. n : \A j \in i .. n : KeptReady(h[i], h[j])
  BY <1>2, <1>3 DEF RegistryInv, ReadyInv
<1>11. \A i \in 1 .. n : n \in i .. n
  OBVIOUS
<1>12. \A i \in 1 .. n + 1 : \A j \in i .. n + 1 : \A a \in Adr :
         Decided(h[i], a) => Decided(h[j], a) /\ Stands(h[i], h[j], a)
  <2> SUFFICES ASSUME NEW i \in 1 .. n + 1, NEW j \in i .. n + 1, NEW a \in Adr, Decided(h[i], a)
               PROVE  Decided(h[j], a) /\ Stands(h[i], h[j], a)
    OBVIOUS
  <2>1. CASE j <= n
    <3>1. i \in 1 .. n /\ j \in i .. n
      BY <2>1
    <3> QED
      BY <1>9, <3>1
  <2>2. CASE j = n + 1 /\ i <= n
    <3>1. i \in 1 .. n /\ n \in 1 .. n + 1
      BY <1>3, <2>2
    <3>2. Decided(h[n], a) /\ Stands(h[i], h[n], a)
      BY <1>9, <1>11, <3>1
    <3>3. Decided(h[n + 1], a) /\ Stands(h[n], h[n + 1], a)
      BY <1>5, <1>6, <1>7, <3>1, <3>2, DecisionKept
    <3> QED
      BY <2>2, <3>2, <3>3, StandsComposes
  <2>3. CASE i = n + 1 /\ j = n + 1
    BY <2>3 DEF Stands
  <2> QED
    BY <2>1, <2>2, <2>3
<1>13. \A i \in 1 .. n + 1 : \A j \in i .. n + 1 : KeptReady(h[i], h[j])
  <2> SUFFICES ASSUME NEW i \in 1 .. n + 1, NEW j \in i .. n + 1 PROVE KeptReady(h[i], h[j])
    OBVIOUS
  <2>1. CASE j <= n
    <3>1. i \in 1 .. n /\ j \in i .. n
      BY <2>1
    <3> QED
      BY <1>10, <3>1
  <2>2. CASE j = n + 1 /\ i <= n
    <3>1. i \in 1 .. n /\ n \in 1 .. n + 1
      BY <1>3, <2>2
    <3>2. KeptReady(h[i], h[n])
      BY <1>10, <1>11, <3>1
    <3>3. KeptReady(h[n], h[n + 1])
      BY <1>5, <1>6, <1>7, <3>1, ReadyStep
    <3> QED
      BY <2>2, <3>2, <3>3, ReadyComposes
  <2>3. CASE i = n + 1
    <3>1. i = j /\ Evaluated(h[i])
      BY <1>5, <2>3
    <3> QED
      BY <3>1, ReadyReflexive
  <2> QED
    BY <2>1, <2>2, <2>3
<1>14. \A i \in 1 .. n : \A a \in Adr : Decided(h[i], a) => \E j \in 1 .. i : TakenIn(h, a, j)
  <2> SUFFICES ASSUME NEW i \in 1 .. n, NEW a \in Adr, Decided(h[i], a)
               PROVE  \E j \in 1 .. i : TakenIn(h, a, j)
    OBVIOUS
  <2>1. PICK j \in 1 .. i : TakenIn(revisions, a, j)
    BY <1>2, <1>3 DEF RegistryInv, TakenInv
  <2>2. j \in 1 .. n /\ (j > 1 => j - 1 \in 1 .. n)
    OBVIOUS
  <2>3. TakenIn(h, a, j)
    BY <1>3, <2>1, <2>2 DEF TakenIn
  <2> QED
    BY <2>3
<1>15. \A a \in Adr : Decided(h[n + 1], a) => \E j \in 1 .. n + 1 : TakenIn(h, a, j)
  <2> SUFFICES ASSUME NEW a \in Adr, Decided(h[n + 1], a)
               PROVE  \E j \in 1 .. n + 1 : TakenIn(h, a, j)
    OBVIOUS
  <2>1. CASE Decided(h[n], a)
    <3>1. PICK j \in 1 .. n : TakenIn(h, a, j)
      BY <1>7, <1>14, <2>1
    <3> QED
      BY <3>1
  <2>2. CASE ~ Decided(h[n], a)
    <3>1. /\ h[n].adrs[a] # Nil /\ h[n].adrs[a].life = "Proposed"
          /\ h[n + 1].adrs[a].acceptance.digest = Transition(h[n], h[n + 1], a, h[n + 1].adrs[a].life)
      BY <1>6, <1>7, <2>2, DecisionTaken
    <3>2. TakenIn(h, a, n + 1)
      BY <1>7, <3>1 DEF TakenIn, Decided, Present
    <3> QED
      BY <1>7, <3>2
  <2> QED
    BY <2>1, <2>2
<1>16. DecidedInv' /\ ReadyInv'
  BY <1>2, <1>3, <1>12, <1>13 DEF DecidedInv, ReadyInv
<1>17. TakenInv'
  <2>1. \A i \in 1 .. n + 1 : \A a \in Adr : Decided(h[i], a) => \E j \in 1 .. i : TakenIn(h, a, j)
    BY <1>7, <1>14, <1>15
  <2> QED
    BY <1>2, <1>3, <2>1 DEF TakenInv
<1>18. Descends(h[n + 1])
  <2>1. Descends(h[n])
    BY <1>2, <1>3, <1>7 DEF RegistryInv, DescentInv
  <2> QED
    BY <1>5, <1>6, <1>7, <2>1, DescendsStep
<1>19. \A i \in 1 .. n : Descends(h[i])
  BY <1>2, <1>3 DEF RegistryInv, DescentInv
<1>20. DescentInv'
  BY <1>2, <1>3, <1>18, <1>19 DEF DescentInv
<1> QED
  BY <1>8, <1>16, <1>17, <1>20 DEF RegistryInv

LEMMA RegistryInitial == RegistryInit => RegistryInv
<1> SUFFICES ASSUME RegistryInit PROVE RegistryInv
  OBVIOUS
<1>1. revisions \in Seq({Genesis}) /\ Len(revisions) = 1 /\ revisions[1] = Genesis
  BY DEF RegistryInit
<1>2. AdmittedInv
  BY <1>1, RegistryHistoryAssumption DEF AdmittedInv
<1>3. \A i \in 1 .. 1 : i = 1 /\ \A j \in i .. 1 : j = 1
  OBVIOUS
<1>4. DecidedInv /\ ReadyInv
  BY <1>1, <1>3, ReadyReflexive, RegistryHistoryAssumption DEF DecidedInv, ReadyInv, Stands
<1>5. \A a \in Adr : Decided(revisions[1], a) => TakenIn(revisions, a, 1)
  BY DEF Decided, Present, TakenIn
<1>6. TakenInv
  BY <1>1, <1>3, <1>5 DEF TakenInv
<1>7. DescentInv
  BY <1>1, <1>3, GenesisDescends DEF DescentInv
<1> QED
  BY <1>2, <1>4, <1>6, <1>7 DEF RegistryInv

\* The registry's inductive invariant holds throughout.
THEOREM RegistryInvariance == RegistrySpec => []RegistryInv
<1>1. RegistryInv /\ [RegistryNext]_revisions => RegistryInv'
  <2> SUFFICES ASSUME RegistryInv, [RegistryNext]_revisions PROVE RegistryInv'
    OBVIOUS
  <2>1. CASE UNCHANGED revisions
    BY <2>1 DEF RegistryInv, AdmittedInv, DecidedInv, TakenInv, ReadyInv, DescentInv
  <2>2. CASE RegistryNext
    <3>1. Shaped(Newest)
      <4>1. Len(revisions) \in 1 .. Len(revisions)
        BY DEF RegistryInv, AdmittedInv
      <4> QED
        BY <4>1 DEF RegistryInv, AdmittedInv, Newest
    <3> QED
      BY <2>2, <3>1, StepAdmits, AdmittedOn
  <2> QED
    BY <2>1, <2>2
<1> QED
  BY <1>1, RegistryInitial, PTL DEF RegistrySpec

\* A decision is taken into one revision only.
LEMMA TakenOnce ==
  ASSUME AdmittedInv, DecidedInv, NEW a \in Adr, NEW j \in 1 .. Len(revisions), NEW k \in 1 .. Len(revisions),
         TakenIn(revisions, a, j), TakenIn(revisions, a, k), k < j
  PROVE  FALSE
<1>1. j > 1 /\ j - 1 \in 1 .. Len(revisions) /\ j - 1 \in k .. Len(revisions)
  BY DEF AdmittedInv
<1>2. DOMAIN revisions[k].adrs = Adr
  BY DEF AdmittedInv, Shaped
<1>3. Decided(revisions[k], a)
  BY <1>2 DEF TakenIn, Decided, Present
<1>4. Decided(revisions[j - 1], a)
  BY <1>1, <1>3 DEF DecidedInv
<1> QED
  BY <1>1, <1>4 DEF TakenIn, Decided

\* Whatever decisions, documents and proposals there are, and whatever history had decided
\* before the first revision: every decision of the registry was there then or was taken
\* once, on the revision its digest names, and stands (compareDecisions).
THEOREM DecisionsStandAlways == RegistrySpec => []DecisionsStand
<1>1. RegistryInv => DecisionsStand
  <2> SUFFICES ASSUME RegistryInv PROVE DecisionsStand
    OBVIOUS
  <2>1. DOMAIN revisions = 1 .. Len(revisions) /\ Len(revisions) \in Nat
    BY DEF RegistryInv, AdmittedInv
  <2>2. \A a, j : TakenAt(a, j) = TakenIn(revisions, a, j)
    BY DEF TakenAt, TakenIn
  <2>3. \A a, i, j : Upheld(a, i, j) = Stands(revisions[j], revisions[i], a)
    BY DEF Upheld, Stands
  <2>4. \A i \in 1 .. Len(revisions) : \A a \in Present(revisions[i].adrs) : a \in Adr
    BY DEF RegistryInv, AdmittedInv, Shaped, Present
  <2>5. ASSUME NEW i \in 1 .. Len(revisions), NEW a \in Present(revisions[i].adrs),
               revisions[i].adrs[a].life # "Proposed"
        PROVE  \E j \in 1..i :
                 TakenAt(a, j) /\ Upheld(a, i, j) /\ \A k \in 1..i : TakenAt(a, k) => k = j
    <3>1. a \in Adr
      BY <2>4
    <3>2. PICK j \in 1 .. i : TakenIn(revisions, a, j)
      BY <2>5, <3>1 DEF RegistryInv, TakenInv, Decided
    <3>3. j \in 1 .. Len(revisions) /\ i \in j .. Len(revisions) /\ DOMAIN revisions[j].adrs = Adr
      BY <2>1 DEF RegistryInv, AdmittedInv, Shaped
    <3>4. Decided(revisions[j], a)
      BY <3>1, <3>2, <3>3 DEF TakenIn, Decided, Present
    <3>5. Stands(revisions[j], revisions[i], a)
      BY <3>1, <3>3, <3>4 DEF RegistryInv, DecidedInv
    <3>6. ASSUME NEW k \in 1 .. i, TakenIn(revisions, a, k) PROVE k = j
      <4>1. k \in 1 .. Len(revisions)
        BY <2>1
      <4>2. ~ (k < j) /\ ~ (j < k)
        BY <3>1, <3>2, <3>3, <3>6, <4>1, TakenOnce DEF RegistryInv
      <4> QED
        BY <4>2
    <3> QED
      BY <2>2, <2>3, <3>2, <3>5, <3>6
  <2> QED
    BY <2>1, <2>5 DEF DecisionsStand
<1> QED
  BY <1>1, RegistryInvariance, PTL

\* For any gates and landings and any replacements: what is ready stays ready, and what it
\* requires keeps its evidence (compareResolvers, compareDelivery, validateDelivery).
THEOREM ReadyIsKeptAlways == RegistrySpec => []ReadyIsKept
<1>1. RegistryInv => ReadyIsKept
  <2> SUFFICES ASSUME RegistryInv PROVE ReadyIsKept
    OBVIOUS
  <2>1. DOMAIN revisions = 1 .. Len(revisions)
    BY DEF RegistryInv, AdmittedInv
  <2> QED
    BY <2>1 DEF RegistryInv, ReadyInv, KeptReady, ReadyIsKept
<1> QED
  BY <1>1, RegistryInvariance, PTL

\* For any registry, any batches of replacements and any number of revisions: one current
\* node comes from each of genesis, and requires those that come from what that one
\* required (deriveNodes, compareReplacement).
THEOREM ProgramKeepsShapeAlways == RegistrySpec => []ProgramKeepsShape
<1>1. RegistryInv => ProgramKeepsShape
  <2> SUFFICES ASSUME RegistryInv PROVE ProgramKeepsShape
    OBVIOUS
  <2>1. Len(revisions) \in 1 .. Len(revisions)
    BY DEF RegistryInv, AdmittedInv
  <2>2. Descends(Newest)
    BY <2>1 DEF RegistryInv, DescentInv, Newest
  <2> QED
    BY <2>2 DEF Descends, ProgramKeepsShape
<1> QED
  BY <1>1, RegistryInvariance, PTL


-----------------------------------------------------------------------------
(* What leaves a run was verified.  By the place the walk has reached, what *)
(* it knows: every gate asked for was disposed of before the observations; *)
(* a source that was read again is kept as it was then; what is seen of    *)
(* the artifacts after that is what the workspace held meanwhile; and a    *)
(* verification relates all three to what was captured.                    *)

BeforeSources == {"acquire", "resolve", "announce", "invoke", "invoked", "calls", "complete", "gates",
                  "observe", "artifacts"}
AfterVerify == {"materialize", "confirm", "apply", "seal"}
AfterSources == {"candidate", "fresh", "verify"} \union AfterVerify
AfterGates == {"observe", "artifacts", "reacquire"} \union AfterSources

Shapes ==
  /\ evidence = [gates |-> evidence.gates, observed |-> evidence.observed,
                 artifacts |-> evidence.artifacts, operations |-> evidence.operations]
  /\ since = [sources |-> since.sources, artifacts |-> since.artifacts]
  /\ tokens = [e \in {"production", "verification"} |-> tokens[e]]
  /\ verification = [s \in SourceName |-> verification[s]]

ReadAgain(s) == <<s, verification[s]>> \in since.sources

\* The sources are read again in their order, each once.
Rereading ==
  /\ at \in BeforeSources => tokens["verification"] = Source
  /\ at = "reacquire" =>
       \/ tokens["verification"] = Source
       \/ tokens["verification"] = <<"path_policy", "gate_registry">> /\ ReadAgain("profile")
       \/ tokens["verification"] = <<"gate_registry">> /\ ReadAgain("profile") /\ ReadAgain("path_policy")
  /\ at \in AfterSources => \A s \in SourceName : ReadAgain(s)

SeenSince(a) == [ok |-> TRUE, of |-> a.of] \in since.artifacts

Verifying ==
  /\ at = "fresh" => Artifacts(TRUE) \in since.artifacts
  /\ at = "verify" /\ fresh.ok => SeenSince(fresh)
  /\ at \in AfterVerify => /\ SeenSince(evidence.artifacts)
                           /\ \A s \in SourceName : production[s] = verification[s]

Leaving ==
  /\ at \in {"confirm", "apply"} =>
       DecideMaterialization(production["path_policy"], evidence.observed)
  /\ at \notin {"seal", "ended"} => applied = {}
  /\ at = "seal" => applied = evidence.observed
  /\ at # "ended" => bundle = Null

AccountInv ==
  /\ at \in BeforeSources \union AfterGates \union {"ended"}
  /\ at \in AfterGates => DOMAIN evidence.gates = Scheduled
  /\ Shapes /\ Rereading /\ Verifying /\ Leaving
  /\ OnlyVerifiedLeaves

-----------------------------------------------------------------------------
\* What Finish leaves: nothing sealed, or a bundle of the terminal.
LEMMA Finished ==
  ASSUME NEW terminal, Finish(terminal)
  PROVE  /\ at' = "ended"
         /\ bundle' = Null \/ (/\ bundle'.terminal = terminal /\ bundle'.identities = production'
                               /\ bundle'.gates = evidence'.gates
                               /\ bundle'.artifacts = evidence'.artifacts.of
                               /\ bundle'.observed = evidence'.observed)
BY DEF Finish, Sealed, Bundle

\* A run that ends before it completes, with nothing applied.
LEMMA EndsShort ==
  ASSUME Shapes', at' = "ended", applied' = {},
         bundle' = Null \/ bundle'.terminal # "COMPLETED"
  PROVE  AccountInv'
<1>1. Rereading' /\ Verifying' /\ Leaving'
  BY DEF Rereading, Verifying, Leaving, BeforeSources, AfterSources, AfterVerify
<1>2. OnlyVerifiedLeaves' BY DEF OnlyVerifiedLeaves
<1> QED BY <1>1, <1>2 DEF AccountInv, AfterGates, AfterSources, AfterVerify

LEMMA FinishesShort ==
  ASSUME Shapes', applied' = {},
         NEW terminal \in {"REFUSED", "OPERATIONAL_FAILURE", "CANCELLED", "INDETERMINATE"},
         Finish(terminal)
  PROVE  AccountInv'
<1>1. at' = "ended" /\ (bundle' = Null \/ bundle'.terminal = terminal) BY Finished
<1> QED BY <1>1, EndsShort

\* Lost runs, and those without authority.
LEMMA StopsShort ==
  ASSUME AccountInv, at # "ended", Shapes', applied' = {}, Lose \/ TerminateEarly
  PROVE  AccountInv'
<1>1. at' = "ended" /\ bundle' = Null BY DEF Lose, TerminateEarly, AccountInv, Leaving
<1> QED BY <1>1, EndsShort

\* Where the walk is, and nothing leaves.
LEMMA NothingLeft ==
  ASSUME AccountInv, at \notin {"seal", "ended"}
  PROVE  Shapes /\ applied = {} /\ bundle = Null
BY DEF AccountInv, Leaving

\* A step of the walk before the sources are read again.
LEMMA GoesBefore ==
  ASSUME AccountInv, at \in BeforeSources, Shapes', NEW to \in BeforeSources, Goes(to),
         to \in {"observe", "artifacts"} => DOMAIN evidence'.gates = Scheduled',
         tokens'["verification"] = tokens["verification"], UNCHANGED applied
  PROVE  AccountInv'
<1>1. at' = to /\ bundle' = Null /\ applied' = {} /\ tokens'["verification"] = Source
  BY DEF AccountInv, Leaving, Rereading, Goes, BeforeSources
<1>2. Rereading' BY <1>1 DEF Rereading, BeforeSources, AfterSources, AfterVerify
<1>3. Verifying' BY <1>1 DEF Verifying, BeforeSources, AfterVerify
<1>4. Leaving' BY <1>1 DEF Leaving, BeforeSources
<1>5. OnlyVerifiedLeaves' BY <1>1 DEF OnlyVerifiedLeaves
<1>6. at' \in AfterGates => DOMAIN evidence'.gates = Scheduled'
  BY <1>1 DEF AfterGates, AfterSources, AfterVerify, BeforeSources
<1> QED BY <1>1, <1>2, <1>3, <1>4, <1>5, <1>6 DEF AccountInv

\* The sets of places, and what is said at each.
LEMMA ShapesKept ==
  ASSUME Shapes, UNCHANGED <<evidence, since, tokens, verification>>
  PROVE  Shapes'
BY DEF Shapes

LEMMA AcquireAccount == ASSUME AccountInv, Acquire PROVE AccountInv'
<1>1. /\ at = "acquire" /\ Shapes /\ applied = {} /\ bundle = Null
      /\ tokens' = [tokens EXCEPT !["production"] = Tail(@)]
      /\ UNCHANGED <<verification, evidence, since, applied, request>>
  BY NothingLeft DEF Acquire, Consume, SameAcquired, world
<1>2. tokens'["verification"] = tokens["verification"] /\ Shapes' BY <1>1 DEF Shapes
<1>3. TerminateEarly \/ Goes("resolve") \/ Goes("acquire")
  BY DEF Acquire
<1>4. CASE TerminateEarly BY <1>1, <1>2, <1>4, StopsShort
<1>5. CASE Goes("resolve") BY <1>1, <1>2, <1>5, GoesBefore DEF BeforeSources
<1>6. CASE Goes("acquire") BY <1>1, <1>2, <1>6, GoesBefore DEF BeforeSources
<1> QED BY <1>3, <1>4, <1>5, <1>6

LEMMA EarlyAccount ==
  ASSUME AccountInv, ResolveProfile \/ Announce \/ Complete \/ Invoke \/ Reported \/ CallsRecorded
  PROVE  AccountInv'
<1>1. /\ at \in {"resolve", "announce", "complete", "invoke", "invoked", "calls"}
      /\ UNCHANGED <<acquired, evidence, since, applied>>
      /\ \/ \E terminal \in {"REFUSED", "OPERATIONAL_FAILURE", "INDETERMINATE"} : Finish(terminal)
         \/ \E to \in {"announce", "invoke", "gates", "invoked", "calls", "complete"} : Goes(to)
         \/ Lose \/ TerminateEarly
  BY DEF ResolveProfile, Announce, Complete, Emission, Invoke, Reported, CallsRecorded, SameAcquired, world,
         acquired
<1>2. Shapes /\ applied = {} /\ bundle = Null BY <1>1, NothingLeft
<1>3. Shapes' /\ applied' = {} BY <1>1, <1>2, ShapesKept DEF acquired
<1>4. CASE \E terminal \in {"REFUSED", "OPERATIONAL_FAILURE", "INDETERMINATE"} : Finish(terminal)
  BY <1>3, <1>4, FinishesShort
<1>5. CASE \E to \in {"announce", "invoke", "gates", "invoked", "calls", "complete"} : Goes(to)
  <2>1. PICK to \in {"announce", "invoke", "gates", "invoked", "calls", "complete"} : Goes(to) BY <1>5
  <2>2. to \in BeforeSources /\ at \in BeforeSources /\ to \notin {"observe", "artifacts"}
    BY <1>1, <2>1 DEF BeforeSources
  <2> QED BY <1>1, <1>3, <2>1, <2>2, GoesBefore DEF acquired
<1>6. CASE Lose \/ TerminateEarly BY <1>1, <1>3, <1>6, StopsShort
<1> QED BY <1>1, <1>4, <1>5, <1>6

LEMMA RecordCallAccount == ASSUME AccountInv, RecordCallEvent PROVE AccountInv'
<1>1. /\ at = "calls" /\ UNCHANGED <<acquired, since, applied>> /\ Account
      /\ \/ Lose \/ Goes("calls")
         \/ \E terminal \in {"OPERATIONAL_FAILURE", "CANCELLED", "INDETERMINATE"} : Finish(terminal)
  BY DEF RecordCallEvent, Interrupted, world, acquired
<1>2. Shapes /\ applied = {} /\ bundle = Null BY <1>1, NothingLeft
<1>3. evidence' = [evidence EXCEPT !.operations = evidence'.operations] BY <1>1, <1>2 DEF Account, Shapes
<1>4. Shapes' /\ applied' = {} BY <1>1, <1>2, <1>3 DEF Shapes, acquired
<1>5. CASE Lose BY <1>1, <1>4, <1>5, StopsShort
<1>6. CASE Goes("calls") BY <1>1, <1>4, <1>6, GoesBefore DEF BeforeSources, acquired
<1>7. CASE \E terminal \in {"OPERATIONAL_FAILURE", "CANCELLED", "INDETERMINATE"} : Finish(terminal)
  BY <1>4, <1>7, FinishesShort
<1> QED BY <1>1, <1>5, <1>6, <1>7

LEMMA RunGateAccount == ASSUME AccountInv, RunGate PROVE AccountInv'
<1>1. /\ at = "gates" /\ UNCHANGED <<acquired, since, applied>>
      /\ \/ Lose /\ UNCHANGED evidence
         \/ UNCHANGED evidence /\ \E terminal \in {"OPERATIONAL_FAILURE", "REFUSED"} : Finish(terminal)
         \/ Goes("gates") /\ \E g : \E d \in {"PASS", "FAIL"} : RecordDisposition(g, d)
  BY DEF RunGate, world, acquired
<1>2. Shapes /\ applied = {} /\ bundle = Null BY <1>1, NothingLeft
<1>3. CASE Lose /\ UNCHANGED evidence
  <2>1. Shapes' /\ applied' = {} BY <1>1, <1>2, <1>3, ShapesKept DEF acquired
  <2> QED BY <1>1, <1>3, <2>1, StopsShort
<1>4. CASE UNCHANGED evidence /\ \E terminal \in {"OPERATIONAL_FAILURE", "REFUSED"} : Finish(terminal)
  <2>1. Shapes' /\ applied' = {} BY <1>1, <1>2, <1>4, ShapesKept DEF acquired
  <2> QED BY <1>4, <2>1, FinishesShort
<1>5. CASE Goes("gates") /\ \E g : \E d \in {"PASS", "FAIL"} : RecordDisposition(g, d)
  <2>1. evidence' = evidence \/ \E gates : evidence' = [evidence EXCEPT !.gates = gates]
    BY <1>5 DEF RecordDisposition
  <2>2. Shapes' BY <1>1, <1>2, <2>1 DEF Shapes, acquired
  <2> QED BY <1>1, <1>5, <2>2, GoesBefore DEF BeforeSources, acquired
<1> QED BY <1>1, <1>3, <1>4, <1>5

LEMMA GatesRunAccount == ASSUME AccountInv, GatesRun PROVE AccountInv'
<1>1. /\ at = "gates" /\ UNCHANGED <<acquired, since, evidence, applied, request>> /\ Goes("observe")
      /\ DOMAIN evidence.gates = Scheduled
  BY DEF GatesRun, SameAcquired, world, acquired
<1>2. Shapes' BY <1>1, NothingLeft, ShapesKept DEF acquired
<1>3. DOMAIN evidence'.gates = Scheduled' BY <1>1 DEF Scheduled
<1> QED BY <1>1, <1>2, <1>3, GoesBefore DEF BeforeSources, acquired

LEMMA ObserveAccount == ASSUME AccountInv, Observe PROVE AccountInv'
<1>1. /\ at = "observe" /\ UNCHANGED <<acquired, since, applied, request>>
      /\ \/ UNCHANGED evidence /\ \E terminal \in {"OPERATIONAL_FAILURE", "REFUSED"} : Finish(terminal)
         \/ evidence' = [evidence EXCEPT !.observed = Changes] /\ Goes("artifacts")
  BY DEF Observe, Sees, acquired
<1>2. Shapes /\ applied = {} /\ DOMAIN evidence.gates = Scheduled
  BY <1>1, NothingLeft DEF AccountInv, AfterGates
<1>3. CASE UNCHANGED evidence /\ \E terminal \in {"OPERATIONAL_FAILURE", "REFUSED"} : Finish(terminal)
  <2>1. Shapes' /\ applied' = {} BY <1>1, <1>2, <1>3, ShapesKept DEF acquired
  <2> QED BY <1>3, <2>1, FinishesShort
<1>4. CASE evidence' = [evidence EXCEPT !.observed = Changes] /\ Goes("artifacts")
  <2>1. Shapes' /\ evidence'.gates = evidence.gates BY <1>1, <1>2, <1>4 DEF Shapes, acquired
  <2>2. DOMAIN evidence'.gates = Scheduled' BY <1>1, <1>2, <2>1 DEF Scheduled
  <2> QED BY <1>1, <1>4, <2>1, <2>2, GoesBefore DEF BeforeSources, acquired
<1> QED BY <1>1, <1>3, <1>4

\* From here on, the gates and the changes seen are settled.
LEMMA ObserveArtifactsAccount == ASSUME AccountInv, ObserveArtifacts PROVE AccountInv'
<1>1. /\ at = "artifacts" /\ UNCHANGED <<acquired, since, applied, request>> /\ Goes("reacquire")
      /\ \E a : evidence' = [evidence EXCEPT !.artifacts = a]
  BY DEF ObserveArtifacts, Sees, acquired
<1>2. Shapes /\ applied = {} /\ bundle = Null /\ DOMAIN evidence.gates = Scheduled
      /\ tokens["verification"] = Source
  BY <1>1, NothingLeft DEF AccountInv, AfterGates, Rereading, BeforeSources
<1>3. Shapes' /\ evidence'.gates = evidence.gates BY <1>1, <1>2 DEF Shapes, acquired
<1>4. at' = "reacquire" /\ bundle' = Null /\ applied' = {} /\ tokens'["verification"] = Source
  BY <1>1, <1>2 DEF Goes, acquired
<1>5. DOMAIN evidence'.gates = Scheduled' BY <1>1, <1>2, <1>3 DEF Scheduled
<1>6. Rereading' BY <1>4 DEF Rereading, BeforeSources, AfterSources, AfterVerify
<1>7. Verifying' /\ Leaving' BY <1>4 DEF Verifying, AfterVerify, Leaving
<1>8. OnlyVerifiedLeaves' BY <1>4 DEF OnlyVerifiedLeaves
<1> QED BY <1>3, <1>4, <1>5, <1>6, <1>7, <1>8 DEF AccountInv, AfterGates

\* A source read again is kept as it was then.
LEMMA ReacquireAccount == ASSUME AccountInv, Reacquire PROVE AccountInv'
<1>0. PICK s : s = Head(tokens["verification"]) OBVIOUS
<1>1. /\ at = "reacquire" /\ UNCHANGED <<production, evidence, applied, request>>
      /\ tokens' = [tokens EXCEPT !["verification"] = Tail(@)]
      /\ \/ UNCHANGED <<verification, since>> /\ Finish("OPERATIONAL_FAILURE")
         \/ \E read : /\ verification' = [verification EXCEPT ![s] = read.document]
                      /\ since' = [since EXCEPT !.sources = @ \union {<<s, read.document>>}]
                      /\ Goes(IF Len(tokens["verification"]) = 1 THEN "candidate" ELSE "reacquire")
  BY <1>0 DEF Reacquire, Sees, Consume
<1>2. /\ Shapes /\ applied = {} /\ bundle = Null /\ DOMAIN evidence.gates = Scheduled
      /\ Rereading
  BY <1>1, NothingLeft DEF AccountInv, AfterGates
<1>3. applied' = {} BY <1>1, <1>2
<1>4. CASE UNCHANGED <<verification, since>> /\ Finish("OPERATIONAL_FAILURE")
  <2>1. Shapes' BY <1>1, <1>2, <1>4 DEF Shapes
  <2> QED BY <1>3, <1>4, <2>1, FinishesShort
<1>5. CASE \E read : /\ verification' = [verification EXCEPT ![s] = read.document]
                    /\ since' = [since EXCEPT !.sources = @ \union {<<s, read.document>>}]
                    /\ Goes(IF Len(tokens["verification"]) = 1 THEN "candidate" ELSE "reacquire")
  <2>1. PICK d : /\ verification' = [verification EXCEPT ![s] = d]
                 /\ since' = [since EXCEPT !.sources = @ \union {<<s, d>>}]
                 /\ at' = IF Len(tokens["verification"]) = 1 THEN "candidate" ELSE "reacquire"
                 /\ bundle' = Null
    BY <1>2, <1>5 DEF Goes
  <2>2. Shapes' BY <1>1, <1>2, <2>1 DEF Shapes
  <2>3. s \in SourceName => <<s, verification'[s]>> \in since'.sources
    BY <1>2, <2>1 DEF Shapes
  <2>4. ASSUME NEW x \in SourceName, x # s, ReadAgain(x) PROVE <<x, verification'[x]>> \in since'.sources
    BY <1>2, <2>1, <2>4 DEF Shapes, ReadAgain
  <2>5. tokens'["verification"] = Tail(tokens["verification"]) BY <1>1, <1>2 DEF Shapes
  <2>6. SourceName = {"profile", "path_policy", "gate_registry"} BY DEF SourceName, Contract
  <2>7. \/ tokens["verification"] = Source
        \/ tokens["verification"] = <<"path_policy", "gate_registry">> /\ ReadAgain("profile")
        \/ tokens["verification"] = <<"gate_registry">> /\ ReadAgain("profile") /\ ReadAgain("path_policy")
    BY <1>1, <1>2 DEF Rereading
  <2>8. Rereading' /\ at' \in {"reacquire", "candidate"}
    <3>1. CASE tokens["verification"] = Source
      <4>1. s = "profile" /\ Len(tokens["verification"]) = 3 BY <1>0, <3>1 DEF Source
      <4>2. Tail(tokens["verification"]) = <<"path_policy", "gate_registry">> BY <3>1 DEF Source
      <4>3. at' = "reacquire" BY <2>1, <4>1
      <4>4. ReadAgain("profile")' BY <2>3, <2>6, <4>1 DEF ReadAgain
      <4>5. tokens'["verification"] = <<"path_policy", "gate_registry">> BY <2>5, <4>2
      <4> QED BY <4>3, <4>4, <4>5 DEF Rereading, BeforeSources, AfterSources, AfterVerify
    <3>2. CASE tokens["verification"] = <<"path_policy", "gate_registry">> /\ ReadAgain("profile")
      <4>1. s = "path_policy" /\ Len(tokens["verification"]) = 2 BY <1>0, <3>2
      <4>2. Tail(tokens["verification"]) = <<"gate_registry">> BY <3>2
      <4>3. at' = "reacquire" BY <2>1, <4>1
      <4>4. ReadAgain("profile")' /\ ReadAgain("path_policy")' BY <2>3, <2>4, <2>6, <3>2, <4>1 DEF ReadAgain
      <4>5. tokens'["verification"] = <<"gate_registry">> BY <2>5, <4>2
      <4> QED BY <4>3, <4>4, <4>5 DEF Rereading, BeforeSources, AfterSources, AfterVerify
    <3>3. CASE /\ tokens["verification"] = <<"gate_registry">>
               /\ ReadAgain("profile") /\ ReadAgain("path_policy")
      <4>1. s = "gate_registry" /\ Len(tokens["verification"]) = 1 BY <1>0, <3>3
      <4>2. at' = "candidate" BY <2>1, <4>1
      <4>3. ReadAgain("profile")' /\ ReadAgain("path_policy")' /\ ReadAgain("gate_registry")'
        BY <2>3, <2>4, <2>6, <3>3, <4>1 DEF ReadAgain
      <4>4. \A x \in SourceName : ReadAgain(x)' BY <2>6, <4>3
      <4> QED BY <4>2, <4>4, <2>6 DEF Rereading, BeforeSources, SourceName, Contract
    <3> QED BY <2>7, <3>1, <3>2, <3>3
  <2>9. DOMAIN evidence'.gates = Scheduled' BY <1>1, <1>2 DEF Scheduled
  <2>10. Verifying' /\ Leaving' /\ OnlyVerifiedLeaves'
    BY <1>3, <2>1, <2>8 DEF Verifying, AfterVerify, Leaving, OnlyVerifiedLeaves
  <2> QED BY <2>2, <2>8, <2>9, <2>10 DEF AccountInv, AfterGates, AfterSources
<1> QED BY <1>1, <1>4, <1>5

\* A step of the walk after that, which moves neither sources nor changes.
LEMMA GoesAfter ==
  ASSUME AccountInv, at \in AfterSources, Shapes', NEW to \in AfterSources, Goes(to),
         UNCHANGED <<request, verification, evidence>>, since'.sources = since.sources,
         Verifying', Leaving', OnlyVerifiedLeaves'
  PROVE  AccountInv'
<1>1. at' = to BY DEF Goes
<1>2. DOMAIN evidence'.gates = Scheduled' BY DEF AccountInv, AfterGates, Scheduled
<1>3. \A s \in SourceName : ReadAgain(s) BY DEF AccountInv, Rereading
<1>4. \A s \in SourceName : ReadAgain(s)' BY <1>3 DEF ReadAgain
<1>5. Rereading' BY <1>1, <1>4 DEF Rereading, BeforeSources, AfterSources, AfterVerify
<1> QED BY <1>1, <1>2, <1>5 DEF AccountInv, AfterGates

\* The artifacts are followed from the candidate on.
LEMMA AssembleAccount == ASSUME AccountInv, Assemble PROVE AccountInv'
<1>1. /\ at = "candidate" /\ UNCHANGED <<acquired, evidence, applied, request, files>>
      /\ since' = [since EXCEPT !.artifacts = {Artifacts(TRUE)}]
      /\ \/ Goes("fresh") \/ \E terminal \in {"REFUSED", "OPERATIONAL_FAILURE"} : Finish(terminal)
  BY DEF Assemble, Sees, acquired
<1>2. Shapes /\ applied = {} /\ bundle = Null BY <1>1, NothingLeft
<1>3. /\ Shapes' /\ applied' = {} /\ since'.sources = since.sources
      /\ Artifacts(TRUE) \in since'.artifacts
  BY <1>1, <1>2 DEF Shapes, acquired
<1>4. CASE Goes("fresh")
  <2>1. at' = "fresh" /\ bundle' = Null BY <1>2, <1>4 DEF Goes
  <2>2. Artifacts(TRUE)' = Artifacts(TRUE) BY <1>1 DEF Artifacts
  <2>3. Verifying' BY <1>3, <2>1, <2>2 DEF Verifying, AfterVerify
  <2>4. Leaving' /\ OnlyVerifiedLeaves' BY <1>3, <2>1 DEF Leaving, OnlyVerifiedLeaves
  <2> QED BY <1>1, <1>3, <1>4, <2>3, <2>4, GoesAfter DEF AfterSources, acquired
<1>5. CASE \E terminal \in {"REFUSED", "OPERATIONAL_FAILURE"} : Finish(terminal)
  BY <1>3, <1>5, FinishesShort
<1> QED BY <1>1, <1>4, <1>5

LEMMA ObserveAgainAccount == ASSUME AccountInv, ObserveAgain PROVE AccountInv'
<1>1. /\ at = "fresh" /\ UNCHANGED <<acquired, evidence, since, applied, request>> /\ Goes("verify")
      /\ \E readable \in BOOLEAN : fresh' = Artifacts(readable)
  BY DEF ObserveAgain, Sees, acquired
<1>2. Shapes /\ applied = {} /\ bundle = Null /\ Artifacts(TRUE) \in since.artifacts
  BY <1>1, NothingLeft DEF AccountInv, Verifying
<1>3. at' = "verify" /\ bundle' = Null /\ applied' = {} BY <1>1, <1>2 DEF Goes
<1>4. fresh'.ok => fresh' = Artifacts(TRUE) /\ fresh' = [ok |-> TRUE, of |-> fresh'.of]
  <2>1. PICK readable \in BOOLEAN : fresh' = Artifacts(readable) BY <1>1
  <2>2. CASE readable /\ \A p \in request.artifacts : files[p].link = Null /\ files[p].content # "gone"
    <3>1. Artifacts(readable) = [ok |-> TRUE, of |-> [p \in request.artifacts |-> files[p].content]]
      BY <2>2 DEF Artifacts
    <3>2. Artifacts(TRUE) = Artifacts(readable) BY <2>2, <3>1 DEF Artifacts
    <3> QED BY <2>1, <3>1, <3>2
  <2>3. CASE ~(readable /\ \A p \in request.artifacts : files[p].link = Null /\ files[p].content # "gone")
    <3>1. Artifacts(readable) = [ok |-> FALSE] BY <2>3 DEF Artifacts
    <3> QED BY <2>1, <3>1
  <2> QED BY <2>2, <2>3
<1>5. Verifying' BY <1>1, <1>2, <1>3, <1>4 DEF Verifying, AfterVerify, SeenSince
<1>6. Leaving' /\ OnlyVerifiedLeaves' BY <1>3 DEF Leaving, OnlyVerifiedLeaves
<1>7. Shapes' BY <1>1, <1>2, ShapesKept DEF acquired
<1> QED BY <1>1, <1>5, <1>6, <1>7, GoesAfter DEF AfterSources, acquired

LEMMA VerifyAccount == ASSUME AccountInv, Verify PROVE AccountInv'
<1>1. /\ at = "verify" /\ UNCHANGED <<acquired, evidence, since, fresh, applied, request>>
      /\ \/ Goes("materialize") /\ VerifyEvidence(Bundle("COMPLETED")) = "verified"
         \/ \E terminal \in {"REFUSED", "OPERATIONAL_FAILURE"} : Finish(terminal)
  BY DEF Verify, Decides, SameAcquired, world, acquired
<1>2. Shapes /\ applied = {} /\ bundle = Null /\ (fresh.ok => SeenSince(fresh))
  BY <1>1, NothingLeft DEF AccountInv, Verifying
<1>3. Shapes' /\ applied' = {} BY <1>1, <1>2, ShapesKept DEF acquired
<1>4. CASE Goes("materialize") /\ VerifyEvidence(Bundle("COMPLETED")) = "verified"
  <2>1. at' = "materialize" /\ bundle' = Null BY <1>2, <1>4 DEF Goes
  <2>2. /\ fresh.ok /\ evidence.artifacts.of = fresh.of
        /\ \A s \in SourceName : production[s] = verification[s]
    <3>1. /\ Bundle("COMPLETED").identities = production
          /\ Bundle("COMPLETED").artifacts = evidence.artifacts.of
      BY DEF Bundle
    <3>2. \A b : b = Bundle("COMPLETED") =>
            VerifyEvidence(b) = "verified" /\ b.identities = production
            /\ b.artifacts = evidence.artifacts.of
      BY <1>4, <3>1
    <3>3. \A b : VerifyEvidence(b) = "verified" =>
            /\ fresh.ok /\ b.artifacts = fresh.of
            /\ \A s \in SourceName : b.identities[s] = verification[s]
      BY DEF VerifyEvidence
    <3> QED BY <3>2, <3>3
  <2>3. SeenSince(evidence.artifacts) BY <1>2, <2>2 DEF SeenSince
  <2>4. SeenSince(evidence.artifacts)' /\ \A s \in SourceName : production'[s] = verification'[s]
    BY <1>1, <2>2, <2>3 DEF SeenSince, acquired
  <2>5. Verifying' BY <2>1, <2>4 DEF Verifying
  <2>6. Leaving' /\ OnlyVerifiedLeaves' BY <1>3, <2>1 DEF Leaving, OnlyVerifiedLeaves
  <2> QED BY <1>1, <1>3, <1>4, <2>5, <2>6, GoesAfter DEF AfterSources, AfterVerify, acquired
<1>5. CASE \E terminal \in {"REFUSED", "OPERATIONAL_FAILURE"} : Finish(terminal)
  BY <1>3, <1>5, FinishesShort
<1> QED BY <1>1, <1>4, <1>5

\* What was verified stays so.
LEMMA VerifiedStays ==
  ASSUME AccountInv, at \in AfterVerify, UNCHANGED <<acquired, evidence, since>>,
         at' \in AfterVerify
  PROVE  Verifying' /\ Shapes'
<1>1. Shapes /\ SeenSince(evidence.artifacts) /\ \A s \in SourceName : production[s] = verification[s]
  BY DEF AccountInv, Verifying
<1>2. SeenSince(evidence.artifacts)' /\ \A s \in SourceName : production'[s] = verification'[s]
  BY <1>1 DEF SeenSince, acquired
<1>3. Verifying' BY <1>2 DEF Verifying, AfterVerify
<1>4. Shapes' BY <1>1, ShapesKept DEF acquired
<1> QED BY <1>3, <1>4

LEMMA MaterializeAccount == ASSUME AccountInv, Materialize PROVE AccountInv'
<1>1. /\ at = "materialize" /\ UNCHANGED <<acquired, evidence, since, applied, request>>
      /\ \/ Goes("seal") /\ evidence.observed = {}
         \/ Goes("confirm") /\ DecideMaterialization(production["path_policy"], evidence.observed)
         \/ Finish("REFUSED")
  BY DEF Materialize, Decides, SameAcquired, world, acquired
<1>2. Shapes /\ applied = {} /\ bundle = Null BY <1>1, NothingLeft
<1>3. Shapes' /\ applied' = {} BY <1>1, <1>2, ShapesKept DEF acquired
<1>4. CASE Goes("seal") /\ evidence.observed = {}
  <2>1. at' = "seal" /\ bundle' = Null BY <1>2, <1>4 DEF Goes
  <2>2. Verifying' BY <1>1, <2>1, VerifiedStays DEF AfterVerify
  <2>3. Leaving' /\ OnlyVerifiedLeaves' BY <1>1, <1>3, <1>4, <2>1 DEF Leaving, OnlyVerifiedLeaves
  <2> QED BY <1>1, <1>3, <1>4, <2>2, <2>3, GoesAfter DEF AfterSources, AfterVerify, acquired
<1>5. CASE Goes("confirm") /\ DecideMaterialization(production["path_policy"], evidence.observed)
  <2>1. at' = "confirm" /\ bundle' = Null BY <1>2, <1>5 DEF Goes
  <2>2. Verifying' BY <1>1, <2>1, VerifiedStays DEF AfterVerify
  <2>3. DecideMaterialization(production["path_policy"], evidence.observed)'
    BY <1>1, <1>5 DEF DecideMaterialization, acquired
  <2>4. Leaving' /\ OnlyVerifiedLeaves' BY <1>3, <2>1, <2>3 DEF Leaving, OnlyVerifiedLeaves
  <2> QED BY <1>1, <1>3, <1>5, <2>2, <2>4, GoesAfter DEF AfterSources, AfterVerify, acquired
<1>6. CASE Finish("REFUSED") BY <1>3, <1>6, FinishesShort
<1> QED BY <1>1, <1>4, <1>5, <1>6

LEMMA ConfirmAccount == ASSUME AccountInv, Confirm PROVE AccountInv'
<1>1. /\ at = "confirm" /\ UNCHANGED <<acquired, evidence, since, applied, request>>
      /\ Lose \/ Goes("apply")
  BY DEF Confirm, SameAcquired, world, acquired
<1>2. /\ Shapes /\ applied = {} /\ bundle = Null
      /\ DecideMaterialization(production["path_policy"], evidence.observed)
  BY <1>1, NothingLeft DEF AccountInv, Leaving
<1>3. Shapes' /\ applied' = {} BY <1>1, <1>2, ShapesKept DEF acquired
<1>4. CASE Lose BY <1>1, <1>3, <1>4, StopsShort
<1>5. CASE Goes("apply")
  <2>1. at' = "apply" /\ bundle' = Null BY <1>2, <1>5 DEF Goes
  <2>2. Verifying' BY <1>1, <2>1, VerifiedStays DEF AfterVerify
  <2>3. DecideMaterialization(production["path_policy"], evidence.observed)'
    BY <1>1, <1>2 DEF DecideMaterialization, acquired
  <2>4. Leaving' /\ OnlyVerifiedLeaves' BY <1>3, <2>1, <2>3 DEF Leaving, OnlyVerifiedLeaves
  <2> QED BY <1>1, <1>3, <1>5, <2>2, <2>4, GoesAfter DEF AfterSources, AfterVerify, acquired
<1> QED BY <1>1, <1>4, <1>5

\* Changes a policy lets out are at places under its roots, and at none it
\* prohibits or a source is at.
LEMMA PlacesAllowed ==
  ASSUME NEW policy, NEW changes, DecideMaterialization(policy, changes)
  PROVE  LET places == UNION {{c.path} \union ({c.link} \ {Null}) : c \in changes}
         IN /\ places \subseteq policy.roots \ policy.prohibited
            /\ places \intersect {SourcePath[s] : s \in SourceName} = {}
<1> DEFINE effective(c) == IF c.link = Null THEN c.path ELSE c.link
           protected == policy.prohibited \union {SourcePath[s] : s \in SourceName}
           places == UNION {{c.path} \union ({c.link} \ {Null}) : c \in changes}
<1>1. /\ \A c \in changes : {c.path, effective(c)} \intersect protected = {}
      /\ \A c \in changes : {c.path, effective(c)} \subseteq policy.roots
  BY DEF DecideMaterialization
<1>2. ASSUME NEW x \in places
      PROVE  x \in policy.roots /\ x \notin protected
  <2>1. PICK c \in changes : x \in {c.path} \union ({c.link} \ {Null}) OBVIOUS
  <2>2. x \in {c.path, effective(c)} BY <2>1
  <2> HIDE DEF effective, protected
  <2> QED BY <1>1, <2>2
<1> QED BY <1>2

LEMMA ApplyAccount == ASSUME AccountInv, ApplyBack PROVE AccountInv'
<1>1. /\ at = "apply" /\ UNCHANGED <<acquired, evidence, since, request>>
      /\ \/ Lose /\ UNCHANGED applied
         \/ applied' = evidence.observed /\ Goes("seal")
         \/ applied' = evidence.observed /\ \E terminal \in {"CANCELLED", "INDETERMINATE"} : Finish(terminal)
         \/ UNCHANGED applied /\ Finish("OPERATIONAL_FAILURE")
  BY DEF ApplyBack, world, Interrupted, acquired
<1>2. /\ Shapes /\ applied = {} /\ bundle = Null
      /\ DecideMaterialization(production["path_policy"], evidence.observed)
      /\ \A s \in SourceName : production[s] = verification[s] /\ ReadAgain(s)
  BY <1>1, NothingLeft DEF AccountInv, Leaving, Verifying, Rereading, AfterSources, AfterVerify
<1>3. Shapes' BY <1>1, <1>2, ShapesKept DEF acquired
<1>4. "path_policy" \in SourceName BY DEF SourceName, Contract
<1>5. <<"path_policy", production["path_policy"]>> \in since.sources BY <1>2, <1>4 DEF ReadAgain
<1>6. /\ <<"path_policy", production'["path_policy"]>> \in since'.sources
      /\ DecideMaterialization(production'["path_policy"], evidence'.observed)
  BY <1>1, <1>2, <1>5 DEF acquired
<1>7. applied' = evidence'.observed /\ (bundle' = Null \/ bundle'.terminal # "COMPLETED")
        => OnlyVerifiedLeaves'
  BY <1>6, PlacesAllowed DEF OnlyVerifiedLeaves
<1>8. CASE Lose /\ UNCHANGED applied BY <1>1, <1>2, <1>3, <1>8, StopsShort
<1>9. CASE applied' = evidence.observed /\ Goes("seal")
  <2>1. at' = "seal" /\ bundle' = Null /\ applied' = evidence'.observed BY <1>1, <1>2, <1>9 DEF Goes
  <2>2. Verifying' BY <1>1, <2>1, VerifiedStays DEF AfterVerify
  <2>3. Leaving' BY <2>1 DEF Leaving
  <2> QED BY <1>1, <1>3, <1>7, <1>9, <2>1, <2>2, <2>3, GoesAfter DEF AfterSources, AfterVerify, acquired
<1>10. CASE applied' = evidence.observed /\ \E terminal \in {"CANCELLED", "INDETERMINATE"} : Finish(terminal)
  <2>1. at' = "ended" /\ applied' = evidence'.observed /\ (bundle' = Null \/ bundle'.terminal # "COMPLETED")
    BY <1>1, <1>10, Finished
  <2>2. Rereading' /\ Verifying' /\ Leaving'
    BY <2>1 DEF Rereading, Verifying, Leaving, BeforeSources, AfterSources, AfterVerify
  <2> QED BY <1>3, <1>7, <2>1, <2>2 DEF AccountInv, AfterGates, AfterSources, AfterVerify
<1>11. CASE UNCHANGED applied /\ Finish("OPERATIONAL_FAILURE") BY <1>2, <1>3, <1>11, FinishesShort
<1> QED BY <1>1, <1>8, <1>9, <1>10, <1>11

LEMMA SealAccount == ASSUME AccountInv, Seal PROVE AccountInv'
<1>1. at = "seal" /\ UNCHANGED <<acquired, evidence, since, applied, request>> /\ Finish("COMPLETED")
  BY DEF Seal, Decides, SameAcquired, world, acquired
<1>2. /\ Shapes /\ applied = evidence.observed /\ OnlyVerifiedLeaves
      /\ DOMAIN evidence.gates = Scheduled /\ SeenSince(evidence.artifacts)
      /\ \A s \in SourceName : production[s] = verification[s] /\ ReadAgain(s)
  BY <1>1 DEF AccountInv, Leaving, Verifying, Rereading, AfterGates, AfterSources, AfterVerify
<1>3. Shapes' BY <1>1, <1>2, ShapesKept DEF acquired
<1>4. /\ at' = "ended"
      /\ bundle' = Null \/ (/\ bundle'.identities = production /\ bundle'.gates = evidence.gates
                            /\ bundle'.artifacts = evidence.artifacts.of
                            /\ bundle'.observed = evidence.observed)
  BY <1>1, Finished DEF acquired
<1>5. Rereading' /\ Verifying' /\ Leaving'
  BY <1>4 DEF Rereading, Verifying, Leaving, BeforeSources, AfterSources, AfterVerify
<1>6. \A s \in SourceName : <<s, production[s]>> \in since.sources BY <1>2 DEF ReadAgain
<1>7. OnlyVerifiedLeaves'
  BY <1>1, <1>2, <1>4, <1>6 DEF OnlyVerifiedLeaves, SeenSince, Scheduled, acquired
<1> QED BY <1>3, <1>4, <1>5, <1>7 DEF AccountInv, AfterGates, AfterSources, AfterVerify

LEMMA InterruptAccount == ASSUME AccountInv, Interrupt PROVE AccountInv'
<1>1. /\ at \notin {"seal", "ended"} /\ UNCHANGED <<acquired, evidence, since, applied>>
      /\ \E terminal \in {"CANCELLED", "INDETERMINATE"} : Finish(terminal)
  BY DEF Interrupt, Awaits, Interrupted, world, acquired
<1>2. Shapes' /\ applied' = {} BY <1>1, NothingLeft, ShapesKept DEF acquired
<1> QED BY <1>1, <1>2, FinishesShort

\* The host writes while a reading is next: what is seen from then on is kept.
LEMMA WritesAccount == ASSUME AccountInv, NEW p \in Path, NEW f, Writes(p, f) PROVE AccountInv'
<1>1. /\ at \in {"observe", "artifacts", "reacquire", "fresh"}
      /\ UNCHANGED <<request, at, acquired, evidence, fresh, applied, bundle>>
      /\ since' = [since EXCEPT !.artifacts = @ \union {Artifacts(TRUE)'}]
  BY DEF Writes, outputs, acquired
<1>2. Shapes /\ applied = {} /\ bundle = Null BY <1>1, NothingLeft
<1>3. /\ Shapes' /\ since'.sources = since.sources /\ Artifacts(TRUE)' \in since'.artifacts
  BY <1>1, <1>2 DEF Shapes, acquired
<1>4. Rereading BY DEF AccountInv
<1>5. Rereading' BY <1>1, <1>3, <1>4 DEF Rereading, ReadAgain, acquired
<1>6. Verifying' BY <1>1, <1>3 DEF Verifying, AfterVerify
<1>7. Leaving' /\ OnlyVerifiedLeaves' BY <1>1, <1>2 DEF Leaving, OnlyVerifiedLeaves
<1>8. at' \in AfterGates => DOMAIN evidence'.gates = Scheduled' BY <1>1 DEF AccountInv, Scheduled
<1> QED BY <1>1, <1>3, <1>5, <1>6, <1>7, <1>8 DEF AccountInv

\* The adapter's own steps.
LEMMA AsideAccount == ASSUME AccountInv, UNCHANGED runVars PROVE AccountInv'
<1>1. UNCHANGED <<request, at, lost, tokens, production, verification, files, writes, since, half,
                  evidence, fresh, landed, applied, bundle>>
  BY DEF runVars, acquired, world, outputs
<1>2. Shapes' BY <1>1, ShapesKept DEF AccountInv
<1>3. Rereading' BY <1>1 DEF AccountInv, Rereading, ReadAgain
<1>4. Verifying' BY <1>1 DEF AccountInv, Verifying, SeenSince, Artifacts
<1>5. Leaving' BY <1>1 DEF AccountInv, Leaving, DecideMaterialization
<1>6. OnlyVerifiedLeaves' BY <1>1 DEF AccountInv, OnlyVerifiedLeaves, Scheduled
<1> QED BY <1>1, <1>2, <1>3, <1>4, <1>5, <1>6 DEF AccountInv, Scheduled

LEMMA InitAccount == ASSUME AccountInit PROVE AccountInv
<1>1. at = "acquire" /\ applied = {} /\ bundle = Null BY DEF AccountInit
<1>2. Shapes BY DEF AccountInit, Shapes, EmptyEvidence
<1>3. Rereading BY <1>1 DEF AccountInit, Rereading, BeforeSources, AfterSources, AfterVerify
<1>4. Verifying /\ Leaving /\ OnlyVerifiedLeaves
  BY <1>1 DEF Verifying, Leaving, OnlyVerifiedLeaves, AfterVerify
<1> QED BY <1>1, <1>2, <1>3, <1>4 DEF AccountInv, BeforeSources, AfterGates, AfterSources, AfterVerify

LEMMA NextAccount == ASSUME AccountInv, [AccountNext]_accountVars PROVE AccountInv'
<1>1. CASE Runner
  BY <1>1, AcquireAccount, EarlyAccount, RecordCallAccount, RunGateAccount, GatesRunAccount, ObserveAccount,
     ObserveArtifactsAccount, ReacquireAccount, AssembleAccount, ObserveAgainAccount, VerifyAccount,
     MaterializeAccount, ConfirmAccount, ApplyAccount, SealAccount, InterruptAccount DEF Runner
<1>2. CASE Host BY <1>2, WritesAccount DEF Host
<1>3. CASE UNCHANGED runVars BY <1>3, AsideAccount
<1> QED BY <1>1, <1>2, <1>3 DEF AccountNext, accountVars

\* Whatever the provider and the gates left running do, and whatever the
\* sources hold meanwhile: only changes that were observed leave isolation,
\* under a policy that was acquired again and let them; and what a completed
\* run says of its authority, artifacts and gates is what was verified
\* (phases/verifying.ts, materialize.ts).
THEOREM OnlyVerifiedLeavesAlways == AccountSpec => []OnlyVerifiedLeaves
<1>1. AccountInit => AccountInv BY InitAccount
<1>2. AccountInv /\ [AccountNext]_accountVars => AccountInv' BY NextAccount
<1>3. AccountInv => OnlyVerifiedLeaves BY DEF AccountInv
<1> QED BY <1>1, <1>2, <1>3, PTL DEF AccountSpec

-----------------------------------------------------------------------------
(* What the provider carries out was granted.  The grant of the profile    *)
(* captured is the grant of the invocation, an entry refuses a grant the   *)
(* CLI would split, and what is visible to the provider is then what is    *)
(* granted by name.                                                        *)

Unstarted == {"acquire", "resolve", "announce", "invoke"}
Granted == production["profile"].grant

GrantInv ==
  /\ at \in Unstarted => entry = "idle"
  /\ entry = "idle" => open = {} /\ ran = Zero
  /\ entry \in {"reading", "watching"} => wire.grant = Granted
  /\ entry = "watching" => \A t \in Visible : {t} \in Granted
  /\ \A p \in open : p[2] \in ToolName /\ {p[2]} \in Granted
  /\ ran \in [ToolName -> Nat]
  /\ RanIsGranted

\* What a plan lets the provider see is granted by name, for either CLI.
LEMMA PlansShowGrants ==
  ASSUME NEW w, PlanLaunch(w).ok, NEW t,
         t \in (IF PlanLaunch(w).visible = {} THEN ToolName
                ELSE UNION UNION {f[2] : f \in PlanLaunch(w).visible})
  PROVE  {t} \in w.grant
<1>1. \A e \in w.grant : \A u \in e : e = {u}
  BY DEF PlanLaunch, PlanClaude, PlanCopilot, ExpressibleAsOne, Refused
<1>2. CASE w.adapter = "claude"
  <2>1. PlanLaunch(w) = PlanClaude(w) BY <1>2 DEF PlanLaunch
  <2>2. PlanLaunch(w).visible = {<<"tools", w.grant>>}
    BY <2>1 DEF PlanClaude, Refused, Flags
  <2>3. t \in UNION w.grant
    <3>1. PICK e \in UNION {f[2] : f \in PlanLaunch(w).visible} : t \in e BY <2>2
    <3>2. PICK f \in PlanLaunch(w).visible : e \in f[2] BY <3>1
    <3>3. f[2] = w.grant BY <2>2, <3>2
    <3> QED BY <3>1, <3>2, <3>3
  <2> QED BY <1>1, <2>3
<1>3. CASE w.adapter # "claude" /\ w.grant = {}
  <2>1. PlanLaunch(w) = PlanCopilot(w) BY <1>3 DEF PlanLaunch
  <2>2. PlanLaunch(w).visible = {<<"available-tools", {}>>}
    BY <1>3, <2>1 DEF PlanCopilot, Refused, Flags
  <2>3. PICK e \in UNION {f[2] : f \in PlanLaunch(w).visible} : t \in e BY <2>2
  <2>4. PICK f \in PlanLaunch(w).visible : e \in f[2] BY <2>3
  <2>5. f[2] = {} BY <2>2, <2>4
  <2> QED BY <2>4, <2>5
<1>4. CASE w.adapter # "claude" /\ w.grant # {}
  <2>1. PlanLaunch(w) = PlanCopilot(w) BY <1>4 DEF PlanLaunch
  <2>2. PlanLaunch(w).visible = {<<"available-tools", {e}>> : e \in w.grant}
    BY <1>4, <2>1 DEF PlanCopilot, Refused, Flags
  <2>3. PICK e \in UNION {f[2] : f \in PlanLaunch(w).visible} : t \in e
    BY <1>4, <2>2
  <2>4. PICK f \in PlanLaunch(w).visible : e \in f[2] BY <2>3
  <2>5. PICK g \in w.grant : f = <<"available-tools", {g}>> BY <2>2, <2>4
  <2>6. e = g BY <2>4, <2>5
  <2> QED BY <1>1, <2>3, <2>5, <2>6
<1> QED BY <1>2, <1>3, <1>4

\* A step that leaves the entry alone, or ends it.
LEMMA GrantStays ==
  ASSUME GrantInv, UNCHANGED <<production, open, ran>>,
         \/ UNCHANGED <<wire, plan>> /\ entry' \in {entry, "settled"}
         \/ entry' \in {"reported", "dead", "crashed", "gone"},
         at' \in Unstarted => at \in Unstarted /\ entry' = entry
  PROVE  GrantInv'
BY DEF GrantInv, Granted, Visible, RanIsGranted, Zero

LEMMA AcquireGrant == ASSUME GrantInv, Acquire PROVE GrantInv'
<1>1. entry = "idle" /\ open = {} /\ ran = Zero /\ UNCHANGED adapterVars
  BY DEF GrantInv, Acquire, SameAcquired, Unstarted
<1>2. UNCHANGED <<entry, open, ran, wire, plan>> BY <1>1 DEF adapterVars, child
<1> QED BY <1>1, <1>2 DEF GrantInv, RanIsGranted, Zero

LEMMA InvokeGrant == ASSUME GrantInv, Invoke PROVE GrantInv'
<1>1. /\ entry = "idle" /\ production' = production /\ at = "invoke"
      /\ open = {} /\ ran = Zero
  BY DEF GrantInv, Invoke, Unstarted, acquired
<1>2. \/ UNCHANGED adapterVars /\ at' = "ended"
      \/ at' = "invoked" /\ \E form \in {"whole", "cut"} : Start(Invocation(form))
  BY DEF Invoke, Lose, Goes, Finish
<1>3. CASE UNCHANGED adapterVars /\ at' = "ended"
  BY <1>1, <1>3, GrantStays DEF adapterVars, child, Unstarted
<1>4. CASE at' = "invoked" /\ \E form \in {"whole", "cut"} : Start(Invocation(form))
  <2>1. /\ entry' = "reading" /\ UNCHANGED <<open, ran>> /\ wire'.grant = Granted
    BY <1>4 DEF Start, Invocation, Granted, child
  <2> QED BY <1>1, <1>4, <2>1 DEF GrantInv, RanIsGranted, Granted, Unstarted, Zero
<1> QED BY <1>2, <1>3, <1>4

\* The rest of the runner starts nothing and acquires no authority for it.
LEMMA RunnerGrant ==
  ASSUME GrantInv, Runner
  PROVE  GrantInv'
<1>1. CASE CallsRecorded
  BY <1>1, GrantStays DEF CallsRecorded, Goes, Unstarted, acquired, child
<1>2. CASE UNCHANGED <<adapterVars, production>> /\ (at' \in Unstarted => at \in Unstarted)
  BY <1>2, GrantStays DEF adapterVars, child
<1>3. CASE ResolveProfile
  <2>1. UNCHANGED <<adapterVars, production>> /\ at \in Unstarted
    BY <1>3 DEF ResolveProfile, SameAcquired, acquired, Unstarted
  <2> QED BY <1>2, <2>1
<1>4. CASE Announce \/ Complete
  <2>1. UNCHANGED <<adapterVars, production>> /\ (at' \in Unstarted => at \in Unstarted)
    BY <1>4 DEF Announce, Complete, Emission, SameAcquired, acquired, Unstarted, Lose, Goes, Finish
  <2> QED BY <1>2, <2>1
<1>5. CASE Reported \/ GatesRun
  <2>1. UNCHANGED <<adapterVars, production>> /\ (at' \in Unstarted => at \in Unstarted)
    BY <1>5 DEF Reported, GatesRun, SameAcquired, acquired, Unstarted, Goes, Finish
  <2> QED BY <1>2, <2>1
<1>6. CASE RecordCallEvent \/ RunGate
  <2>1. UNCHANGED <<adapterVars, production>> /\ (at' \in Unstarted => at \in Unstarted)
    BY <1>6 DEF RecordCallEvent, RunGate, acquired, Unstarted, Lose, Goes, Finish
  <2> QED BY <1>2, <2>1
<1>7. CASE Observe \/ ObserveArtifacts \/ ObserveAgain \/ Assemble
  <2>1. UNCHANGED <<adapterVars, production>>
    BY <1>7 DEF Observe, ObserveArtifacts, ObserveAgain, Assemble, Sees, acquired
  <2>2. at' \notin Unstarted
    BY <1>7 DEF Observe, ObserveArtifacts, ObserveAgain, Assemble, Unstarted, Goes, Finish
  <2> QED BY <1>2, <2>1, <2>2
<1>8. CASE Reacquire
  <2>1. UNCHANGED <<adapterVars, production>>
    BY <1>8 DEF Reacquire, Sees
  <2>2. at' \notin Unstarted
    BY <1>8 DEF Reacquire, Unstarted, Goes, Finish
  <2> QED BY <1>2, <2>1, <2>2
<1>9. CASE Verify \/ Materialize \/ Seal \/ Confirm
  <2>1. UNCHANGED <<adapterVars, production>> /\ (at' \in Unstarted => at \in Unstarted)
    BY <1>9 DEF Verify, Materialize, Seal, Confirm, Decides, SameAcquired, acquired, Unstarted, Goes, Finish,
       Lose
  <2> QED BY <1>2, <2>1
<1>10. CASE ApplyBack \/ Interrupt
  <2>1. UNCHANGED <<adapterVars, production>> /\ (at' \in Unstarted => at \in Unstarted)
    BY <1>10 DEF ApplyBack, Interrupt, acquired, Unstarted, Goes, Finish, Lose
  <2> QED BY <1>2, <2>1
<1> QED
  BY <1>1, <1>3, <1>4, <1>5, <1>6, <1>7, <1>8, <1>9, <1>10, AcquireGrant, InvokeGrant DEF Runner

LEMMA EntryGrant ==
  ASSUME GrantInv, UNCHANGED <<at, production>>, NEW ambients, EntryStep(ambients) \/ Cancel
  PROVE  GrantInv'
<1>1. CASE \E ambient \in ambients, there \in BOOLEAN : Begin(ambient, there)
  <2>1. PICK ambient \in ambients, there \in BOOLEAN : Begin(ambient, there) BY <1>1
  <2>2. /\ entry = "reading" /\ at \notin Unstarted /\ UNCHANGED <<open, ran, wire>>
        /\ \/ entry' \in {"reported", "crashed"}
           \/ /\ PlanLaunch(wire).ok /\ entry' = "watching"
              /\ plan' = [PlanLaunch(wire) EXCEPT !.env = ChildEnvironment(PlanLaunch(wire), ambient)]
    BY <2>1 DEF Begin, child, GrantInv
  <2>3. CASE entry' \in {"reported", "crashed"} BY <2>2, <2>3, GrantStays
  <2>4. CASE /\ PlanLaunch(wire).ok /\ entry' = "watching"
             /\ plan' = [PlanLaunch(wire) EXCEPT !.env = ChildEnvironment(PlanLaunch(wire), ambient)]
    <3>1. plan'.visible = PlanLaunch(wire).visible
      <4>1. PICK v, a, d, e : PlanLaunch(wire) = Flags(v, a, d, e)
        BY <2>4 DEF PlanLaunch, PlanClaude, PlanCopilot, Refused
      <4> QED BY <2>4, <4>1 DEF Flags
    <3>2. \A t \in Visible' : {t} \in wire.grant
      BY <2>4, <3>1, PlansShowGrants DEF Visible
    <3> QED BY <2>2, <2>4, <3>2 DEF GrantInv, RanIsGranted, Granted, Zero
  <2> QED BY <2>2, <2>3, <2>4
<1>2. CASE Watching
  <2>1. /\ entry = "watching" /\ at \notin Unstarted /\ UNCHANGED <<open, ran, wire, plan>>
        /\ entry' \in {"watching", "settled"}
    BY <1>2 DEF Watching, Kill, NotLaunched, Close, Settle, child, GrantInv
  <2> QED BY <2>1, GrantStays
<1>3. CASE Emit
  BY <1>3 DEF Emit, GrantInv, RanIsGranted, Granted
<1>4. CASE Cancel
  <2>1. /\ at \notin Unstarted /\ UNCHANGED <<open, ran, wire, plan>> /\ entry' \in {entry, "dead"}
    BY <1>4 DEF Cancel, child, GrantInv
  <2> QED BY <2>1, GrantStays
<1> QED BY <1>1, <1>2, <1>3, <1>4 DEF EntryStep

LEMMA ProviderGrant == ASSUME GrantInv, UNCHANGED <<at, production>>, Provider PROVE GrantInv'
<1>1. ASSUME NEW t \in ToolName, Ask(t) PROVE GrantInv'
  <2>1. /\ entry = "watching" /\ t \in Visible /\ open' = open \union {<<asks + 1, t>>}
        /\ UNCHANGED <<ran, wire, entry, plan>>
    BY <1>1 DEF Ask, Works, StillWorks
  <2>2. {t} \in Granted BY <2>1 DEF GrantInv
  <2>3. \A p \in open' : p \in open \/ p[2] = t BY <2>1
  <2>4. Visible' = Visible BY <2>1 DEF Visible
  <2> QED BY <2>1, <2>2, <2>3, <2>4 DEF GrantInv, RanIsGranted, Granted
<1>2. ASSUME NEW p \in open, NEW answered \in BOOLEAN, NEW leaves \in BOOLEAN,
             CarryOut(p, answered, leaves)
      PROVE  GrantInv'
  <2>1. /\ entry = "watching" /\ open' = open \ {p} /\ ran' = [ran EXCEPT ![p[2]] = @ + 1]
        /\ UNCHANGED <<wire, entry, plan>>
    BY <1>2 DEF CarryOut, Works, StillWorks
  <2>2. p[2] \in ToolName /\ {p[2]} \in Granted BY DEF GrantInv
  <2>3. ran' \in [ToolName -> Nat] /\ \A t \in ToolName : t # p[2] => ran'[t] = ran[t]
    BY <2>1, <2>2 DEF GrantInv
  <2>4. RanIsGranted' BY <2>2, <2>3 DEF RanIsGranted, GrantInv, Granted
  <2> QED BY <2>1, <2>3, <2>4 DEF GrantInv, Granted, Visible
<1>3. ASSUME NEW p \in open, Deny(p) PROVE GrantInv'
  <2>1. /\ entry = "watching" /\ open' = open \ {p} /\ UNCHANGED <<ran, wire, entry, plan>>
    BY <1>3 DEF Deny, Works, StillWorks
  <2> QED BY <2>1 DEF GrantInv, RanIsGranted, Granted, Visible
<1>4. CASE UNCHANGED <<open, ran, wire, entry, plan>> BY <1>4, GrantStays
<1>5. ASSUME NEW t \in ToolName, Refuse(t) PROVE GrantInv'
  BY <1>4, <1>5 DEF Refuse, StillWorks
<1>6. ASSUME NEW type, Remark(type) PROVE GrantInv' BY <1>4, <1>6 DEF Remark, StillWorks
<1>7. ASSUME NEW as, Conclude(as) PROVE GrantInv' BY <1>4, <1>7 DEF Conclude, StillWorks
<1>8. ASSUME NEW code, NEW signal, Exit(code, signal) PROVE GrantInv' BY <1>4, <1>8 DEF Exit
<1>9. CASE LetGo BY <1>4, <1>9 DEF LetGo
<1> QED BY <1>1, <1>2, <1>3, <1>5, <1>6, <1>7, <1>8, <1>9 DEF Provider

LEMMA NextGrant == ASSUME GrantInv, [AccountNext]_accountVars PROVE GrantInv'
<1>1. CASE Runner BY <1>1, RunnerGrant
<1>2. CASE Host
  <2>1. UNCHANGED <<adapterVars, production, at>> BY <1>2 DEF Host, Writes, acquired
  <2> QED BY <2>1, GrantStays DEF adapterVars, child
<1>3. CASE AdapterStep /\ UNCHANGED runVars
  <2>1. UNCHANGED <<at, production>> BY <1>3 DEF runVars, acquired
  <2> QED BY <1>3, <2>1, EntryGrant, ProviderGrant DEF AdapterStep
<1>4. CASE UNCHANGED accountVars
  <2>1. UNCHANGED <<adapterVars, production, at>> BY <1>4 DEF accountVars, runVars, acquired
  <2> QED BY <2>1, GrantStays DEF adapterVars, child
<1> QED BY <1>1, <1>2, <1>3, <1>4 DEF AccountNext

\* Whatever the profile grants, and whatever the provider asks for: what it
\* carries out is granted by name in the profile the run captured, though
\* the CLI is started with flags that split their text (plan.ts planLaunch:
\* a widened surface is never the fallback).
THEOREM RanIsGrantedAlways == AccountSpec => []RanIsGranted
<1>1. AccountInit => GrantInv
  BY DEF AccountInit, AdapterInit, GrantInv, RanIsGranted, Zero, Unstarted
<1>2. GrantInv /\ [AccountNext]_accountVars => GrantInv' BY NextGrant
<1>3. GrantInv => RanIsGranted BY DEF GrantInv
<1> QED BY <1>1, <1>2, <1>3, PTL DEF AccountSpec
-----------------------------------------------------------------------------
(* What lands was told.  While calls are recorded, the n-th event of the    *)
(* report is accounted before it may land, so whatever landed is in the     *)
(* operations; they only grow, and a bundle is sealed with all of them.     *)

BeforeCalls == {"acquire", "resolve", "announce", "invoke", "invoked"}

ToldIn(ops, e) ==
  /\ e[1] \in 1..Len(ops.attempted)
  /\ \/ e[2] = "attempted"
     \/ e[2] \in {"permitted", "denied"} /\ <<e[1], ops.attempted[e[1]]>> \in ops[e[2]]

ToldInv ==
  /\ evidence.operations =
       [attempted |-> evidence.operations.attempted, permitted |-> evidence.operations.permitted,
        denied |-> evidence.operations.denied]
  /\ evidence.operations.attempted \in Seq(ToolName)
  /\ \A e \in landed : ToldIn(evidence.operations, e)
  /\ at \in BeforeCalls => half = 0 /\ evidence.operations.attempted = <<>>
  /\ at = "calls" =>
       /\ entry = "reported" /\ report # Fault /\ half \in Nat
       /\ Len(evidence.operations.attempted) = (half + 1) \div 2
       /\ half % 2 = 1 => evidence.operations.attempted[Nth] = Now.tool
  /\ at # "ended" => bundle = Null
  /\ bundle # Null => /\ bundle.operations = evidence.operations
                      /\ bundle.identities = production

\* A step in which nothing lands and nothing is accounted.
LEMMA ToldStays ==
  ASSUME ToldInv, UNCHANGED landed, evidence'.operations = evidence.operations,
         bundle' = Null \/ (/\ bundle'.operations = evidence.operations
                            /\ bundle'.identities = production'),
         at' = "ended" \/ bundle' = Null,
         at' # "calls",
         at' \in BeforeCalls => at \in BeforeCalls /\ half' = half
  PROVE  ToldInv'
BY DEF ToldInv, ToldIn

\* The steps of the runner that are about no call's event.
Quiet ==
  /\ UNCHANGED landed
  /\ evidence'.operations = evidence.operations
  /\ \/ at' = "ended" /\ (bundle' \in {bundle, Null} \/ \E t : bundle' = Bundle(t)')
     \/ bundle' = bundle /\ at' # "calls" /\ (at' \in BeforeCalls => at \in BeforeCalls /\ half' = half)

LEMMA QuietTold == ASSUME ToldInv, Quiet, at # "ended" PROVE ToldInv'
<1>1. bundle = Null BY DEF ToldInv
<1>2. CASE at' = "ended" /\ \E t : bundle' = Bundle(t)'
  <2>1. PICK t : bundle' = Bundle(t)' BY <1>2
  <2>2. bundle'.operations = evidence'.operations /\ bundle'.identities = production'
    BY <2>1 DEF Bundle
  <2> QED BY <1>2, <2>2, ToldStays DEF Quiet, BeforeCalls
<1> QED BY <1>1, <1>2, ToldStays DEF Quiet, BeforeCalls

\* The ways to end.
LEMMA EndsQuietly ==
  ASSUME UNCHANGED landed, evidence'.operations = evidence.operations,
         TerminateEarly \/ Lose \/ \E terminal : Finish(terminal)
  PROVE  Quiet
<1>1. at' = "ended" BY DEF TerminateEarly, Lose, Finish
<1>2. bundle' \in {bundle, Null} \/ \E t : bundle' = Bundle(t)'
  BY DEF TerminateEarly, Lose, Finish, Sealed
<1> QED BY <1>1, <1>2 DEF Quiet

LEMMA GoesQuietly ==
  ASSUME UNCHANGED landed, evidence'.operations = evidence.operations,
         NEW to, Goes(to), to # "calls", to \in BeforeCalls => at \in BeforeCalls /\ half' = half
  PROVE  Quiet
BY DEF Goes, Quiet

\* Observations and gates are no matter of the calls.
LEMMA OperationsKept ==
  ASSUME Shapes, NEW x,
         \/ evidence' = evidence
         \/ evidence' = [evidence EXCEPT !.gates = x]
         \/ evidence' = [evidence EXCEPT !.observed = x]
         \/ evidence' = [evidence EXCEPT !.artifacts = x]
  PROVE  evidence'.operations = evidence.operations
<1>1. evidence = [gates |-> evidence.gates, observed |-> evidence.observed,
                  artifacts |-> evidence.artifacts, operations |-> evidence.operations]
  BY DEF Shapes
<1> QED BY <1>1

LEMMA AcquireQuiet == ASSUME Acquire PROVE Quiet
<1>1. at \in BeforeCalls /\ UNCHANGED <<landed, evidence, half>>
  BY DEF Acquire, SameAcquired, BeforeCalls
<1>2. TerminateEarly \/ Goes("resolve") \/ Goes("acquire") BY DEF Acquire
<1> QED BY <1>1, <1>2, EndsQuietly, GoesQuietly DEF BeforeCalls

LEMMA ResolveQuiet == ASSUME ResolveProfile PROVE Quiet
<1>1. at \in BeforeCalls /\ UNCHANGED <<landed, evidence, half>>
  BY DEF ResolveProfile, SameAcquired, BeforeCalls
<1>2. TerminateEarly \/ Finish("REFUSED") \/ Goes("announce") BY DEF ResolveProfile
<1> QED BY <1>1, <1>2, EndsQuietly, GoesQuietly DEF BeforeCalls

LEMMA EmissionQuiet ==
  ASSUME Announce \/ Complete
  PROVE  Quiet
<1>1. /\ UNCHANGED <<landed, evidence, half>>
      /\ \/ Lose \/ Finish("OPERATIONAL_FAILURE")
         \/ (at = "announce" /\ Goes("invoke")) \/ Goes("gates")
  BY DEF Announce, Complete, Emission, SameAcquired
<1> QED BY <1>1, EndsQuietly, GoesQuietly DEF BeforeCalls

LEMMA InvokeQuiet == ASSUME Invoke PROVE Quiet
<1>1. /\ at \in BeforeCalls /\ UNCHANGED <<landed, evidence, half>>
      /\ Lose \/ Finish("OPERATIONAL_FAILURE") \/ Goes("invoked")
  BY DEF Invoke, BeforeCalls
<1> QED BY <1>1, EndsQuietly, GoesQuietly DEF BeforeCalls

LEMMA GatesQuiet == ASSUME Shapes, RunGate \/ GatesRun \/ CallsRecorded PROVE Quiet
<1>1. UNCHANGED landed
  BY DEF RunGate, GatesRun, CallsRecorded, SameAcquired
<1>2. \/ evidence' = evidence \/ \E x : evidence' = [evidence EXCEPT !.gates = x]
  <2>1. CASE RunGate
    <3>1. PICK g : evidence' = evidence \/ \E d \in {"PASS", "FAIL"} : RecordDisposition(g, d)
      BY <2>1 DEF RunGate
    <3> QED BY <3>1 DEF RecordDisposition
  <2>2. CASE GatesRun \/ CallsRecorded BY <2>2 DEF GatesRun, CallsRecorded, SameAcquired
  <2> QED BY <2>1, <2>2
<1>3. evidence'.operations = evidence.operations BY <1>2, OperationsKept
<1>4. \/ Lose \/ (\E terminal : Finish(terminal)) \/ Goes("gates") \/ Goes("observe") \/ Goes("complete")
  BY DEF RunGate, GatesRun, CallsRecorded
<1> QED BY <1>1, <1>3, <1>4, EndsQuietly, GoesQuietly DEF BeforeCalls

LEMMA ObservationsQuiet ==
  ASSUME Shapes, Observe \/ ObserveArtifacts \/ ObserveAgain \/ Assemble \/ Reacquire
  PROVE  Quiet
<1>1. UNCHANGED landed
  BY DEF Observe, ObserveArtifacts, ObserveAgain, Assemble, Reacquire, Sees
<1>2. \E x : \/ evidence' = evidence
             \/ evidence' = [evidence EXCEPT !.observed = x]
             \/ evidence' = [evidence EXCEPT !.artifacts = x]
  BY DEF Observe, ObserveArtifacts, ObserveAgain, Assemble, Reacquire
<1>3. evidence'.operations = evidence.operations BY <1>2, OperationsKept
<1>4. \/ \E terminal : Finish(terminal)
      \/ Goes("artifacts") \/ Goes("reacquire") \/ Goes("candidate") \/ Goes("fresh") \/ Goes("verify")
  BY DEF Observe, ObserveArtifacts, ObserveAgain, Assemble, Reacquire
<1> QED BY <1>1, <1>3, <1>4, EndsQuietly, GoesQuietly DEF BeforeCalls

LEMMA VerificationQuiet ==
  ASSUME Verify \/ Materialize \/ Confirm \/ ApplyBack \/ Seal \/ Interrupt
  PROVE  Quiet
<1>1. UNCHANGED <<landed, evidence>>
  BY DEF Verify, Materialize, Confirm, ApplyBack, Seal, Interrupt, Decides, SameAcquired
<1>2. \/ Lose \/ \E terminal : Finish(terminal)
      \/ Goes("materialize") \/ Goes("confirm") \/ Goes("seal") \/ Goes("apply")
  BY DEF Verify, Materialize, Confirm, ApplyBack, Seal, Interrupt
<1> QED BY <1>1, <1>2, EndsQuietly, GoesQuietly DEF BeforeCalls

\* The calls are taken up.
LEMMA ReportedTold == ASSUME ToldInv, Reported PROVE ToldInv'
<1>1. /\ at = "invoked" /\ half = 0 /\ evidence.operations.attempted = <<>>
      /\ UNCHANGED <<landed, evidence, half, entry, report>>
  BY DEF Reported, SameAcquired, ToldInv, BeforeCalls, adapterVars
<1>2. CASE \E terminal : Finish(terminal) BY <1>1, <1>2, EndsQuietly, QuietTold
<1>3. CASE Goes("calls") /\ entry = "reported" /\ report # Fault
  <2>1. at' = "calls" /\ bundle' = Null BY <1>1, <1>3 DEF Goes, ToldInv
  <2>2. Len(evidence.operations.attempted) = (half + 1) \div 2 /\ half % 2 # 1 BY <1>1
  <2> QED BY <1>1, <1>3, <2>1, <2>2 DEF ToldInv, ToldIn, BeforeCalls
<1> QED BY <1>2, <1>3 DEF Reported

\* The fact is accounted, and then its event lands or does not.
LEMMA RecordCallTold == ASSUME AccountInv, ToldInv, ReportIsTyped, RecordCallEvent PROVE ToldInv'
<1> DEFINE ops == evidence.operations
<1>1. /\ at = "calls" /\ entry = "reported" /\ report # Fault /\ half \in Nat
      /\ half < 2 * Len(report.calls) /\ half' = half + 1
      /\ bundle = Null /\ UNCHANGED <<entry, report, production>> /\ Account
  BY DEF RecordCallEvent, ToldInv, adapterVars, acquired
<1>2. Nth \in 1..Len(report.calls) /\ Now.tool \in ToolName /\ Now.disposition \in {"permitted", "denied"}
  <2>1. report.calls \in Seq([tool : ToolName, disposition : {"permitted", "denied"}])
    BY <1>1 DEF ReportIsTyped
  <2>2. Len(report.calls) \in Nat BY <2>1
  <2>3. Nth \in 1..Len(report.calls) BY <1>1, <2>2 DEF Nth
  <2>4. report.calls[Nth] \in [tool : ToolName, disposition : {"permitted", "denied"}]
    BY <2>1, <2>3, ElementOfSeq
  <2>5. Now \in [tool : ToolName, disposition : {"permitted", "denied"}] BY <2>4 DEF Now
  <2> QED BY <2>3, <2>5
<1>3. /\ ops = [attempted |-> ops.attempted, permitted |-> ops.permitted, denied |-> ops.denied]
      /\ ops.attempted \in Seq(ToolName) /\ Len(ops.attempted) = (half + 1) \div 2
      /\ half % 2 = 1 => ops.attempted[Nth] = Now.tool
      /\ \A e \in landed : ToldIn(ops, e)
  BY <1>1 DEF ToldInv
<1>4. evidence'.operations = [ops EXCEPT ![Stage] = IF Stage = "attempted" THEN Append(@, Now.tool)
                                                   ELSE @ \union {<<Nth, Now.tool>>}]
  <2>1. evidence = [gates |-> evidence.gates, observed |-> evidence.observed,
                    artifacts |-> evidence.artifacts, operations |-> evidence.operations]
    BY DEF AccountInv, Shapes
  <2> QED BY <1>1, <2>1 DEF Account
<1>5. /\ evidence'.operations =
           [attempted |-> evidence'.operations.attempted, permitted |-> evidence'.operations.permitted,
            denied |-> evidence'.operations.denied]
      /\ evidence'.operations.attempted \in Seq(ToolName)
      /\ \A e \in landed : ToldIn(evidence'.operations, e)
      /\ Len(evidence'.operations.attempted) = (half' + 1) \div 2
      /\ half' % 2 = 1 => evidence'.operations.attempted[Nth'] = Now'.tool
      /\ ToldIn(evidence'.operations, <<Nth, Stage>>)
  <2>1. CASE half % 2 = 0
    <3>1. Stage = "attempted" BY <2>1 DEF Stage
    <3>2. evidence'.operations = [attempted |-> Append(ops.attempted, Now.tool),
                                  permitted |-> ops.permitted, denied |-> ops.denied]
      BY <1>3, <1>4, <3>1
    <3>3. /\ evidence'.operations.attempted = Append(ops.attempted, Now.tool)
          /\ evidence'.operations["permitted"] = ops["permitted"]
          /\ evidence'.operations["denied"] = ops["denied"]
      BY <3>2
    <3>4. /\ Append(ops.attempted, Now.tool) \in Seq(ToolName)
          /\ Len(Append(ops.attempted, Now.tool)) = Len(ops.attempted) + 1
          /\ \A i \in 1..Len(ops.attempted) : Append(ops.attempted, Now.tool)[i] = ops.attempted[i]
          /\ Append(ops.attempted, Now.tool)[Len(ops.attempted) + 1] = Now.tool
      BY <1>2, <1>3
    <3>5. /\ Nth = Len(ops.attempted) + 1 /\ Nth' = Nth
          /\ (half' + 1) \div 2 = Len(ops.attempted) + 1
      <4>1. PICK k \in Nat : half = 2 * k
        <5>1. half \div 2 \in Nat /\ half = 2 * (half \div 2) BY <1>1, <2>1
        <5> QED BY <5>1
      <4>2. half' = 2 * k + 1 BY <1>1, <4>1
      <4>3. Nth = k + 1 /\ Nth' = k + 1 BY <4>1, <4>2 DEF Nth
      <4>4. (half + 1) \div 2 = k /\ (half' + 1) \div 2 = k + 1 BY <4>1, <4>2
      <4> QED BY <1>3, <4>3, <4>4
    <3>6. Now' = Now BY <1>1, <3>5 DEF Now
    <3>7. \A e \in landed : ToldIn(evidence'.operations, e)
      <4> SUFFICES ASSUME NEW e \in landed PROVE ToldIn(evidence'.operations, e) OBVIOUS
      <4>1. ToldIn(ops, e) /\ Len(ops.attempted) \in Nat BY <1>3
      <4>2. /\ e[1] \in 1..Len(ops.attempted)
            /\ \/ e[2] = "attempted"
               \/ e[2] \in {"permitted", "denied"} /\ <<e[1], ops.attempted[e[1]]>> \in ops[e[2]]
        BY <4>1 DEF ToldIn
      <4>3. /\ e[1] \in 1..Len(evidence'.operations.attempted)
            /\ evidence'.operations.attempted[e[1]] = ops.attempted[e[1]]
        BY <3>4, <3>3, <4>1, <4>2
      <4>4. e[2] \in {"permitted", "denied"} => evidence'.operations[e[2]] = ops[e[2]] BY <3>3
      <4> QED BY <4>2, <4>3, <4>4 DEF ToldIn
    <3>8. ToldIn(evidence'.operations, <<Nth, Stage>>)
      <4>1. Len(ops.attempted) \in Nat BY <1>3
      <4>2. Nth \in 1..Len(evidence'.operations.attempted) BY <3>4, <3>5, <3>3, <4>1
      <4>3. <<Nth, Stage>>[1] = Nth /\ <<Nth, Stage>>[2] = "attempted" BY <3>1
      <4> QED BY <4>2, <4>3 DEF ToldIn
    <3>9. evidence'.operations =
            [attempted |-> evidence'.operations.attempted, permitted |-> evidence'.operations.permitted,
             denied |-> evidence'.operations.denied]
      BY <3>2
    <3>10. /\ evidence'.operations.attempted \in Seq(ToolName)
           /\ Len(evidence'.operations.attempted) = (half' + 1) \div 2
           /\ evidence'.operations.attempted[Nth'] = Now'.tool
      BY <1>3, <3>4, <3>5, <3>6, <3>3
    <3> QED BY <3>7, <3>8, <3>9, <3>10
  <2>2. CASE half % 2 = 1
    <3>1. Stage = Now.disposition BY <2>2 DEF Stage
    <3>2. /\ evidence'.operations =
               [attempted |-> evidence'.operations.attempted, permitted |-> evidence'.operations.permitted,
                denied |-> evidence'.operations.denied]
          /\ evidence'.operations.attempted = ops.attempted
          /\ evidence'.operations[Stage] = ops[Stage] \union {<<Nth, Now.tool>>}
          /\ \A d \in {"permitted", "denied"} : ops[d] \subseteq evidence'.operations[d]
      BY <1>2, <1>3, <1>4, <3>1
    <3>3. /\ Nth = Len(ops.attempted) /\ (half' + 1) \div 2 = Len(ops.attempted)
          /\ half' % 2 # 1 /\ Nth \in 1..Nth
      <4>1. PICK k \in Nat : half = 2 * k + 1
        <5>1. half \div 2 \in Nat /\ half = 2 * (half \div 2) + 1 BY <1>1, <2>2
        <5> QED BY <5>1
      <4>2. Nth = k + 1 BY <4>1 DEF Nth
      <4>3. half' = 2 * (k + 1) BY <1>1, <4>1
      <4>4. (half + 1) \div 2 = k + 1 /\ (half' + 1) \div 2 = k + 1 /\ half' % 2 = 0 BY <4>1, <4>3
      <4> QED BY <1>3, <4>2, <4>4
    <3>4. \A e \in landed : ToldIn(evidence'.operations, e)
      BY <1>3, <3>2 DEF ToldIn
    <3>5. ToldIn(evidence'.operations, <<Nth, Stage>>)
      BY <1>2, <1>3, <2>2, <3>1, <3>2, <3>3 DEF ToldIn
    <3> QED BY <1>3, <3>2, <3>3, <3>4, <3>5
  <2> QED BY <1>1, <2>1, <2>2
<1>6. \A e \in landed' : ToldIn(evidence'.operations, e)
  <2>1. landed' = landed \/ landed' = landed \union {<<Nth, Stage>>}
    BY DEF RecordCallEvent, Lands
  <2> QED BY <1>5, <2>1
<1>7. \/ at' \in {"calls", "ended"} /\ bundle' = Null
      \/ at' = "ended" /\ \E t : bundle' = Bundle(t)'
  BY <1>1 DEF RecordCallEvent, Lose, Goes, Finish, Sealed
<1>8. bundle' # Null => bundle'.operations = evidence'.operations /\ bundle'.identities = production'
  BY <1>7 DEF Bundle
<1> QED BY <1>1, <1>5, <1>6, <1>7, <1>8 DEF ToldInv, BeforeCalls

\* What the entry and its provider do, its report stands.
LEMMA ReportStands ==
  ASSUME AdapterStep, entry = "reported"
  PROVE  UNCHANGED <<entry, report>>
BY DEF AdapterStep, Provider, EntryStep, Watching, Begin, Kill, NotLaunched, Close, Emit, Cancel, Ask, Refuse,
   Deny, CarryOut, Remark, Conclude, Works, Exit, LetGo

LEMMA AsideTold ==
  ASSUME ToldInv, UNCHANGED runVars, at = "calls" => UNCHANGED <<entry, report>>
  PROVE  ToldInv'
BY DEF ToldInv, ToldIn, BeforeCalls, Nth, Now, runVars, acquired, world, outputs

LEMMA NextTold ==
  ASSUME AccountInv, ToldInv, ReportIsTyped, [AccountNext]_accountVars
  PROVE  ToldInv'
<1>1. CASE Runner
  <2>1. at # "ended" /\ Shapes
    BY <1>1 DEF Runner, Acquire, ResolveProfile, Announce, Emission, Invoke, Reported, RecordCallEvent,
       CallsRecorded, Complete, RunGate, GatesRun, Observe, ObserveArtifacts, Reacquire, Assemble,
       ObserveAgain, Verify, Materialize, Confirm, ApplyBack, Seal, Interrupt, Awaits, AccountInv
  <2>2. CASE Quiet BY <2>1, <2>2, QuietTold
  <2> QED
    BY <1>1, <2>1, <2>2, AcquireQuiet, ResolveQuiet, EmissionQuiet, InvokeQuiet, ReportedTold, RecordCallTold,
       GatesQuiet, ObservationsQuiet, VerificationQuiet DEF Runner
<1>2. CASE Host
  <2>1. UNCHANGED <<at, evidence, landed, bundle, half, entry, report, production>> /\ at # "ended"
    BY <1>2 DEF Host, Writes, outputs, acquired, adapterVars
  <2>2. bundle = Null /\ at # "calls"
    BY <1>2, <2>1 DEF ToldInv, Host, Writes
  <2> QED BY <2>1, <2>2, ToldStays
<1>3. CASE AdapterStep /\ UNCHANGED runVars
  <2>1. at = "calls" => UNCHANGED <<entry, report>> BY <1>3, ReportStands DEF ToldInv
  <2> QED BY <1>3, <2>1, AsideTold
<1>4. CASE UNCHANGED accountVars BY <1>4, AsideTold DEF accountVars, adapterVars
<1> QED BY <1>1, <1>2, <1>3, <1>4 DEF AccountNext

\* Wherever an emission fails or is interrupted: when the reports of the entry
\* are of their type, a bundle tells every event of a call that landed on the
\* stream (calls.ts recordCalls: the fact precedes its acknowledgement).
THEOREM LandedIsToldAlways == AccountSpec /\ []ReportIsTyped => []LandedIsTold
<1>1. AccountInit => AccountInv /\ ToldInv
  <2> SUFFICES ASSUME AccountInit PROVE ToldInv BY InitAccount
  <2>1. /\ evidence = EmptyEvidence /\ landed = {} /\ at = "acquire" /\ bundle = Null /\ half = 0
    BY DEF AccountInit
  <2>2. evidence.operations = [attempted |-> <<>>, permitted |-> {}, denied |-> {}]
    BY <2>1 DEF EmptyEvidence
  <2> QED BY <2>1, <2>2 DEF ToldInv
<1>2. AccountInv /\ ToldInv /\ ReportIsTyped /\ [AccountNext]_accountVars => AccountInv' /\ ToldInv'
  BY NextAccount, NextTold
<1>3. AccountInv /\ ToldInv => LandedIsTold
  <2> SUFFICES ASSUME ToldInv, bundle # Null, NEW e \in landed
               PROVE  IF e[2] = "attempted" THEN e[1] <= Len(bundle.operations.attempted)
                      ELSE \E o \in bundle.operations[e[2]] :
                             o[1] = e[1] /\ o[2] = bundle.operations.attempted[e[1]]
    BY DEF LandedIsTold
  <2>1. ToldIn(bundle.operations, e) /\ bundle.operations.attempted \in Seq(ToolName) BY DEF ToldInv
  <2>2. CASE e[2] = "attempted" BY <2>1, <2>2 DEF ToldIn
  <2>3. CASE e[2] # "attempted"
    <3>1. <<e[1], bundle.operations.attempted[e[1]]>> \in bundle.operations[e[2]]
      BY <2>1, <2>3 DEF ToldIn
    <3> QED BY <2>3, <3>1
  <2> QED BY <2>2, <2>3
<1> QED BY <1>1, <1>2, <1>3, PTL DEF AccountSpec
=============================================================================
