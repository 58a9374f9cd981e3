-------------------------- MODULE ActivationProofs --------------------------
(***************************************************************************)
(* The genesis of the governance registry, for every set of sources, of      *)
(* versions and of consumers and any number of commits.  The check of a      *)
(* revision looks at its base, which is the tip, and at the ancestry; what   *)
(* it found holds for ever, since commits are only added.  And the writer of *)
(* the projections, for every list of targets and any number of edits and of *)
(* faults.                                                                   *)
(***************************************************************************)
EXTENDS Projections, SequenceTheorems, TLAPS

\* A registry's state is a record of its facts and its genesis.
Stately(state) == state = [facts |-> state.facts, genesis |-> state.genesis]

Filed(held) ==
    /\ held = [m \in Member |-> held[m]]
    /\ held["state"] # None => Stately(held["state"])

Planted(tree) ==
    /\ tree = [facts |-> tree.facts, consumers |-> tree.consumers,
               candidate |-> tree.candidate, registry |-> tree.registry]
    /\ tree.facts \in Facts /\ tree.consumers \subseteq Consumer
    /\ Filed(tree.candidate) /\ Filed(tree.registry)

\* A registry was attested at a commit.
Based(tree) == Present(tree) => tree.registry["state"].genesis.base \in 1..Len(main)

\* The commits are a sequence of trees.
MainInv ==
    /\ Len(main) \in 1..MaxCommits /\ main = [i \in 1..Len(main) |-> main[i]]
    /\ \A i \in 1..Len(main) : Planted(main[i]) /\ Based(main[i])

\* The checkout is a tree, based on a commit.
WorkInv ==
    work # None =>
        /\ work = [base |-> work.base, tree |-> work.tree]
        /\ work.base \in 1..Len(main) /\ Planted(work.tree)

IInv == MainInv /\ WorkInv /\ GenesisIsFresh /\ GenesisIsForever

-----------------------------------------------------------------------------
\* The commits are a sequence; one more leaves the others as they are.
LEMMA Commits ==
    ASSUME MainInv
    PROVE  /\ Len(main) \in Nat /\ Len(main) >= 1 /\ DOMAIN main = 1..Len(main)
           /\ Planted(Tip) /\ Based(Tip)
<1>1. Len(main) \in Nat /\ Len(main) >= 1 /\ main = [i \in 1..Len(main) |-> main[i]]
  BY ActivationAssumption DEF MainInv
<1>2. DOMAIN main = 1..Len(main)
  BY <1>1
<1>. QED
  BY <1>1, <1>2 DEF MainInv, Tip

LEMMA Appended ==
    ASSUME MainInv, NEW tree, main' = Append(main, tree)
    PROVE  /\ Len(main') = Len(main) + 1
           /\ main' = [i \in 1..Len(main') |-> main'[i]]
           /\ DOMAIN main' = 1..(Len(main) + 1)
           /\ \A i \in 1..Len(main) : main'[i] = main[i]
           /\ main'[Len(main) + 1] = tree
<1> DEFINE S == {main[i] : i \in 1..Len(main)} \cup {tree}
<1>1. Len(main) \in Nat /\ main = [i \in 1..Len(main) |-> main[i]]
  BY Commits DEF MainInv
<1>2. \A i \in 1..Len(main) : main[i] \in S
  OBVIOUS
<1>3. main \in Seq(S)
  <2>. HIDE DEF S
  <2>. QED
    BY <1>1, <1>2
<1>4. tree \in S
  OBVIOUS
<1>. HIDE DEF S
<1>5. main' \in Seq(S)
  BY <1>3, <1>4
<1>6. main' = [i \in 1..Len(main') |-> main'[i]]
  BY <1>5, LenProperties
<1>. QED
  BY <1>3, <1>4, <1>6

\* What a commit keeps, if its tree is a tree and follows the tip as the
\* properties ask.
Follows(tree) ==
    /\ Based(tree)
    /\ Present(tree) /\ ~ Present(Tip) =>
         /\ ~ PostActivation
         /\ tree.registry["manifest"] = Tip.candidate["manifest"]
         /\ tree.registry["consumers"] = Tip.candidate["consumers"]
         /\ [tree.registry["state"] EXCEPT !.genesis = None] = Tip.candidate["state"]
         /\ tree.registry["state"].facts = Tip.facts
         /\ tree.registry["consumers"] = Tip.consumers
    /\ Present(tree) /\ Present(Tip) =>
         /\ tree.registry["state"].genesis = Tip.registry["state"].genesis
         /\ tree.registry["manifest"] = Tip.registry["manifest"]

LEMMA CommitKeeps ==
    ASSUME MainInv, GenesisIsFresh, GenesisIsForever, Len(main) < MaxCommits,
           NEW tree, Planted(tree), Follows(tree), main' = Append(main, tree)
    PROVE  MainInv' /\ GenesisIsFresh' /\ GenesisIsForever'
<1> PICK n : n = Len(main) + 1
  OBVIOUS
<1>1. /\ Len(main) \in Nat /\ Len(main) >= 1 /\ DOMAIN main = 1..Len(main)
      /\ Len(main') = n /\ DOMAIN main' = 1..n
      /\ main' = [i \in 1..Len(main') |-> main'[i]]
      /\ \A i \in 1..Len(main) : main'[i] = main[i]
      /\ main'[n] = tree /\ Tip = main[Len(main)]
  BY Commits, Appended DEF Tip
<1>2. \A i \in 1..Len(main) : Introduces(i)' <=> Introduces(i)
  BY <1>1 DEF Introduces, Present
<1>3. Introduces(n)' <=> Present(tree) /\ ~ Present(Tip)
  BY <1>1 DEF Introduces, Present
<1>4. MainInv'
  <2>1. ASSUME NEW i \in 1..n PROVE Planted(main[i])' /\ Based(main[i])'
    <3>1. i \in 1..Len(main) \/ i = n
      BY <1>1
    <3>2. Planted(main'[i]) /\ Based(main'[i])
      BY <1>1, <3>1 DEF MainInv, Follows
    <3>3. 1..Len(main) \subseteq 1..Len(main')
      BY <1>1
    <3>. QED
      BY <3>2, <3>3 DEF Based, Present, Planted, Filed, Stately
  <2>. QED
    BY <1>1, <2>1, ActivationAssumption DEF MainInv
<1>5. GenesisIsFresh'
  <2>1. ASSUME NEW i \in 1..n, Introduces(i)'
        PROVE  /\ main'[i].registry["manifest"] = main'[i - 1].candidate["manifest"]
               /\ main'[i].registry["consumers"] = main'[i - 1].candidate["consumers"]
               /\ [main'[i].registry["state"] EXCEPT !.genesis = None]
                    = main'[i - 1].candidate["state"]
               /\ main'[i].registry["state"].facts = main'[i - 1].facts
               /\ main'[i].registry["consumers"] = main'[i - 1].consumers
    <3>1. CASE i \in 1..Len(main)
      <4>1. Introduces(i) /\ i > 1
        BY <1>2, <2>1, <3>1 DEF Introduces
      <4>2. main'[i] = main[i] /\ main'[i - 1] = main[i - 1]
        BY <1>1, <3>1, <4>1
      <4>. QED
        BY <1>1, <3>1, <4>1, <4>2 DEF GenesisIsFresh
    <3>2. CASE i = n
      <4>1. main'[i] = tree /\ main'[i - 1] = Tip
        BY <1>1, <3>2
      <4>2. Present(tree) /\ ~ Present(Tip)
        BY <1>3, <2>1, <3>2
      <4>. QED
        BY <4>1, <4>2 DEF Follows
    <3>3. i \in 1..Len(main) \/ i = n
      BY <1>1
    <3>. QED
      BY <3>1, <3>2, <3>3
  <2>. QED
    BY <1>1, <2>1 DEF GenesisIsFresh
<1>6. GenesisIsForever'
  <2>1. ASSUME NEW i \in 1..n, Introduces(i)', NEW j \in (i + 1)..n
        PROVE  /\ ~ Introduces(j)'
               /\ Present(main'[j]) =>
                    /\ main'[j].registry["state"].genesis = main'[i].registry["state"].genesis
                    /\ main'[j].registry["manifest"] = main'[i].registry["manifest"]
    <3>1. i \in 1..Len(main) /\ main'[i] = main[i] /\ Introduces(i) /\ Present(main[i])
      BY <1>1, <1>2, <2>1 DEF Introduces
    <3>2. CASE j \in 1..Len(main)
      <4>1. main'[j] = main[j] /\ j \in (i + 1)..Len(main)
        BY <1>1, <3>1, <3>2
      <4>. QED
        BY <1>1, <1>2, <3>1, <3>2, <4>1 DEF GenesisIsForever
    <3>3. CASE j = n
      <4>1. PostActivation
        BY <1>1, <3>1 DEF PostActivation
      <4>2. ~ Introduces(j)'
        BY <1>3, <3>3, <4>1 DEF Follows
      <4>3. ASSUME Present(tree)
            PROVE  /\ tree.registry["state"].genesis = main[i].registry["state"].genesis
                   /\ tree.registry["manifest"] = main[i].registry["manifest"]
        <5>1. Present(Tip)
          BY <4>1, <4>3 DEF Follows
        <5>2. /\ Tip.registry["state"].genesis = main[i].registry["state"].genesis
              /\ Tip.registry["manifest"] = main[i].registry["manifest"]
          <6>1. CASE i = Len(main)
            BY <1>1, <6>1
          <6>2. CASE i # Len(main)
            <7>1. Len(main) \in (i + 1)..Len(main)
              BY <1>1, <3>1, <6>2
            <7>. QED
              BY <1>1, <3>1, <5>1, <7>1 DEF GenesisIsForever
          <6>. QED
            BY <6>1, <6>2
        <5>. QED
          BY <4>3, <5>1, <5>2 DEF Follows
      <4>. QED
        BY <1>1, <3>1, <3>3, <4>2, <4>3
    <3>. QED
      BY <1>1, <3>1, <3>2, <3>3
  <2>. QED
    BY <1>1, <2>1 DEF GenesisIsForever
<1>. QED
  BY <1>4, <1>5, <1>6

-----------------------------------------------------------------------------
(***************************************************************************)
(* The check of two revisions.                                               *)
(***************************************************************************)
\* What a checked revision follows from: a first registry is the candidate of its base,
\* a later one has the genesis of its base.
LEMMA CheckedFollows ==
    ASSUME MainInv, NEW tree, Planted(tree),
           Present(Tip) \/ Present(tree) => Admitted(tree)
    PROVE  Follows(tree)
<1>1. Len(main) \in Nat /\ Len(main) >= 1 /\ DOMAIN main = 1..Len(main) /\ Planted(Tip)
  BY Commits
<1>2. ASSUME Present(tree), ~ Present(Tip)
      PROVE  /\ ~ PostActivation
             /\ tree.registry["manifest"] = Tip.candidate["manifest"]
             /\ tree.registry["consumers"] = Tip.candidate["consumers"]
             /\ [tree.registry["state"] EXCEPT !.genesis = None] = Tip.candidate["state"]
             /\ tree.registry["state"].facts = Tip.facts
             /\ tree.registry["consumers"] = Tip.consumers
  <2> DEFINE genesis == tree.registry["state"].genesis
             frozen == Tip.candidate
  <2>1. /\ Bound(tree) /\ GenesisException(tree) /\ Seeded(tree)
    BY <1>2 DEF Admitted
  <2>2. ~ PostActivation /\ genesis.base = Len(main) /\ main[genesis.base] = Tip
    BY <2>1 DEF GenesisException, Tip
  <2>3. /\ Fresh(frozen, Len(main))
        /\ tree.registry["manifest"] = frozen["manifest"]
        /\ genesis.seed = frozen["state"].facts
    BY <2>1, <2>2 DEF Bound
  <2>4. /\ tree.registry["state"].facts = frozen["state"].facts
        /\ tree.registry["consumers"] = frozen["consumers"]
    BY <2>1, <2>2, <2>3 DEF Seeded
  <2>5. /\ frozen["state"] # None /\ frozen["state"].genesis = None
        /\ frozen["state"].facts = Tip.facts /\ frozen["consumers"] = Tip.consumers
    BY <2>3 DEF Fresh, Readable, Unattested, Sourced, RowsHold, Equivalent, Inputs,
                Inventoried, Found, Tip, Member
  <2>6. [tree.registry["state"] EXCEPT !.genesis = None] = frozen["state"]
    <3>1. Stately(tree.registry["state"]) /\ Stately(frozen["state"])
      BY <1>1, <1>2, <2>5 DEF Planted, Filed, Present
    <3>. QED
      BY <2>4, <2>5, <3>1 DEF Stately
  <2>. QED
    BY <2>2, <2>3, <2>4, <2>5, <2>6
<1>3. ASSUME Present(tree), Present(Tip)
      PROVE  /\ tree.registry["state"].genesis = Tip.registry["state"].genesis
             /\ tree.registry["manifest"] = Tip.registry["manifest"]
  BY <1>3 DEF Admitted, GenesisKept
<1>4. Based(tree)
  BY <1>1 DEF Admitted, Bound, Attested, Based
<1>. QED
  BY <1>2, <1>3, <1>4 DEF Follows

LEMMA PushKeeps ==
    ASSUME MainInv, GenesisIsFresh, GenesisIsForever, NEW tree, Planted(tree), Push(tree)
    PROVE  MainInv' /\ GenesisIsFresh' /\ GenesisIsForever'
BY CheckedFollows, CommitKeeps DEF Push

(***************************************************************************)
(* The trees that are pushed.                                                *)
(***************************************************************************)
LEMMA Changed ==
    ASSUME NEW tree, Planted(tree)
    PROVE  /\ \A facts \in Facts : Planted([tree EXCEPT !.facts = facts])
           /\ \A consumers \in SUBSET Consumer : Planted([tree EXCEPT !.consumers = consumers])
           /\ \A held : Filed(held) => /\ Planted([tree EXCEPT !.candidate = held])
                                        /\ Planted([tree EXCEPT !.registry = held])
           /\ \A f \in Fact, v \in Version :
                Planted([tree EXCEPT !.facts[f] = v])
<1>1. ASSUME NEW f \in Fact, NEW v \in Version
      PROVE  Planted([tree EXCEPT !.facts[f] = v])
  <2>1. tree.facts \in Facts
    BY DEF Planted
  <2>2. [tree.facts EXCEPT ![f] = v] \in Facts
    BY <2>1 DEF Facts
  <2>3. [tree EXCEPT !.facts[f] = v] = [tree EXCEPT !.facts = [tree.facts EXCEPT ![f] = v]]
    OBVIOUS
  <2>. QED
    BY <2>2, <2>3 DEF Planted
<1>. QED
  BY <1>1 DEF Planted

LEMMA Refiled ==
    ASSUME NEW held, Filed(held)
    PROVE  /\ \A c : Filed([held EXCEPT !["consumers"] = c])
           /\ \A facts, genesis :
                Filed([held EXCEPT !["state"] = [facts |-> facts, genesis |-> genesis]])
<1>1. held = [m \in Member |-> held[m]]
  BY DEF Filed
<1>2. ASSUME NEW c PROVE Filed([held EXCEPT !["consumers"] = c])
  BY <1>1 DEF Filed, Member
<1>3. ASSUME NEW facts, NEW genesis
      PROVE  Filed([held EXCEPT !["state"] = [facts |-> facts, genesis |-> genesis]])
  <2> DEFINE state == [facts |-> facts, genesis |-> genesis]
  <2>1. Stately(state)
    BY DEF Stately
  <2>. HIDE DEF state
  <2>2. Filed([held EXCEPT !["state"] = state])
    BY <1>1, <2>1 DEF Filed, Member
  <2>. QED
    BY <2>2 DEF state
<1>. QED
  BY <1>2, <1>3

\* A step of the governed branch.
LEMMA GovernedKeeps ==
    ASSUME IInv, Governed
    PROVE  MainInv' /\ GenesisIsFresh' /\ GenesisIsForever'
<1>1. MainInv /\ GenesisIsFresh /\ GenesisIsForever /\ Planted(Tip)
  BY Commits DEF IInv
<1>2. CASE ChangeSource
  BY <1>1, <1>2, Changed, PushKeeps DEF ChangeSource
<1>3. CASE AddConsumer
  <2>1. PICK c \in Consumer, register \in BOOLEAN :
          LET tree == [Tip EXCEPT !.consumers = @ \cup {c}] IN
          Push(IF register /\ Present(Tip)
               THEN [tree EXCEPT !.registry["consumers"] = tree.consumers] ELSE tree)
    BY <1>3 DEF AddConsumer
  <2> DEFINE tree == [Tip EXCEPT !.consumers = @ \cup {c}]
             registered == [tree EXCEPT !.registry["consumers"] = tree.consumers]
  <2>2. Planted(tree)
    <3>1. Tip.consumers \cup {c} \in SUBSET Consumer
      BY <1>1 DEF Planted
    <3>. QED
      BY <1>1, <3>1, Changed
  <2>3. Push(registered) \/ Push(tree)
    BY <2>1
  <2>. HIDE DEF tree
  <2>4. Planted(registered)
    <3>1. Filed(tree.registry)
      BY <2>2 DEF Planted
    <3>2. Filed([tree.registry EXCEPT !["consumers"] = tree.consumers])
      BY <3>1, Refiled
    <3>3. registered = [tree EXCEPT !.registry = [tree.registry EXCEPT !["consumers"] = tree.consumers]]
      OBVIOUS
    <3>. QED
      BY <2>2, <3>2, <3>3, Changed
  <2>. QED
    BY <1>1, <2>2, <2>3, <2>4, PushKeeps
<1>4. CASE Freeze
  <2>1. PICK s \in DOMAIN main : Push([Tip EXCEPT !.candidate = Extracted(s)])
    BY <1>4 DEF Freeze
  <2>2. Filed(Extracted(s))
    <3>1. Extracted(s) = [m \in Member |-> Extracted(s)[m]]
      BY DEF Extracted, Member
    <3>2. Stately(Extracted(s)["state"])
      BY DEF Extracted, SeedOf, Stately
    <3>. QED
      BY <3>1, <3>2 DEF Filed
  <2>. QED
    BY <1>1, <2>1, <2>2, Changed, PushKeeps
<1>5. CASE Evolve
  <2>1. PICK facts, genesis :
          Push([Tip EXCEPT !.registry["state"] = [facts |-> facts, genesis |-> genesis]])
    BY <1>5 DEF Evolve
  <2> DEFINE state == [facts |-> facts, genesis |-> genesis]
             held == [Tip.registry EXCEPT !["state"] = state]
  <2>2. Filed(Tip.registry)
    BY <1>1 DEF Planted
  <2>3. Filed(held)
    BY <2>2, Refiled
  <2>4. [Tip EXCEPT !.registry["state"] = state] = [Tip EXCEPT !.registry = held]
    OBVIOUS
  <2>. QED
    BY <1>1, <2>1, <2>3, <2>4, Changed, PushKeeps
<1>6. CASE Revert
  <2> DEFINE frozen == main[Tip.registry["state"].genesis.base].candidate
             tree == [Tip EXCEPT !.registry = NoFiles, !.candidate = frozen]
  <2>1. Len(main) < MaxCommits /\ main' = Append(main, tree)
    BY <1>6 DEF Revert
  <2>2. Filed(NoFiles)
    BY DEF NoFiles, Filed, Member
  <2>3. Filed(frozen)
    <3>1. Present(Tip) /\ Based(Tip)
      BY <1>1, <1>6, Commits DEF Revert
    <3>2. Tip.registry["state"].genesis.base \in 1..Len(main)
      BY <3>1 DEF Based
    <3>. QED
      BY <1>1, <3>2 DEF MainInv, Planted
  <2>. HIDE DEF frozen
  <2>4. Planted([Tip EXCEPT !.registry = NoFiles])
    BY <1>1, <2>2, Changed
  <2>6. Planted(tree) /\ tree.registry = NoFiles
    <3>1. tree = [[Tip EXCEPT !.registry = NoFiles] EXCEPT !.candidate = frozen]
      OBVIOUS
    <3>2. Planted(tree)
      BY <2>3, <2>4, <3>1, Changed
    <3>3. "registry" \in DOMAIN Tip
      BY <1>1 DEF Planted
    <3>. QED
      BY <3>2, <3>3
  <2>. HIDE DEF tree
  <2>5. Follows(tree)
    BY <2>6 DEF Follows, Present, NoFiles, Member, Based
  <2>. QED
    BY <1>1, <2>1, <2>5, <2>6, CommitKeeps
<1>. QED
  BY <1>2, <1>3, <1>4, <1>5, <1>6 DEF Governed

\* The governed branch only grows.
LEMMA GrowsOnly ==
    ASSUME IInv, Governed
    PROVE  /\ UNCHANGED work /\ Len(main) \in Nat /\ Len(main') \in Nat
           /\ Len(main) <= Len(main')
<1>1. PICK tree : main' = Append(main, tree)
  BY DEF Governed, ChangeSource, AddConsumer, Freeze, Evolve, Revert, Push
<1>2. MainInv
  BY DEF IInv
<1>. QED
  BY <1>1, <1>2, Commits, Appended DEF Governed

\* A step of the activation branch.
LEMMA ActivatingKeeps ==
    ASSUME IInv, Activating
    PROVE  WorkInv'
<1>1. MainInv /\ Planted(Tip) /\ Len(main) \in Nat /\ Len(main) >= 1
  BY Commits DEF IInv
<1>2. CASE Branch
  BY <1>1, <1>2 DEF Activating, Branch, WorkInv
<1>3. ASSUME Checkout
      PROVE  /\ work = [base |-> work.base, tree |-> work.tree]
             /\ work.base \in 1..Len(main) /\ Planted(work.tree)
             /\ Filed(work.tree.candidate) /\ Filed(work.tree.registry)
  BY <1>3 DEF IInv, WorkInv, Checkout, Planted
<1>4. ASSUME Checkout, UNCHANGED main, NEW tree, Planted(tree),
             work' = [work EXCEPT !.tree = tree]
      PROVE  WorkInv'
  BY <1>3, <1>4 DEF WorkInv
<1>5. CASE Promote
  <2>1. PICK M \in {Member, {"consumers", "manifest"}} :
          /\ \A m \in M : work.tree.candidate[m] # None
          /\ work' = [work EXCEPT
               !.tree.candidate = [m \in Member |-> IF m \in M THEN None ELSE @[m]],
               !.tree.registry = [m \in Member |-> IF m \in M THEN work.tree.candidate[m] ELSE @[m]]]
    BY <1>5 DEF Promote
  <2> DEFINE candidate == [m \in Member |-> IF m \in M THEN None ELSE work.tree.candidate[m]]
             registry == [m \in Member |-> IF m \in M THEN work.tree.candidate[m]
                                            ELSE work.tree.registry[m]]
             tree == [work.tree EXCEPT !.candidate = candidate, !.registry = registry]
  <2>2. Checkout /\ UNCHANGED main
    BY <1>5 DEF Promote, Activating
  <2>3. Filed(candidate) /\ Filed(registry)
    BY <1>3, <2>2 DEF Filed, Member
  <2>4. work' = [work EXCEPT !.tree.candidate = candidate, !.tree.registry = registry]
    BY <2>1
  <2>. HIDE DEF candidate, registry
  <2>5. work' = [work EXCEPT !.tree = tree]
    <3>1. work' = [work EXCEPT !.tree = [[work.tree EXCEPT !.candidate = candidate]
                                          EXCEPT !.registry = registry]]
      BY <1>3, <2>2, <2>4
    <3>. QED
      BY <3>1
  <2>6. Planted(tree)
    <3>1. tree = [[work.tree EXCEPT !.candidate = candidate] EXCEPT !.registry = registry]
      OBVIOUS
    <3>. QED
      BY <1>3, <2>2, <2>3, <3>1, Changed
  <2>. QED
    BY <1>4, <2>2, <2>5, <2>6
<1>6. CASE Edit
  <2>1. Checkout /\ UNCHANGED main
    BY <1>6 DEF Edit, Activating
  <2>2. PICK f \in Fact, v \in Version :
          \/ work' = [work EXCEPT !.tree.facts[f] = v]
          \/ /\ Present(work.tree)
             /\ work' = [work EXCEPT !.tree.registry["state"].facts[f] = v]
    BY <1>6 DEF Edit
  <2>3. CASE work' = [work EXCEPT !.tree.facts[f] = v]
    <3>1. Planted([work.tree EXCEPT !.facts[f] = v])
      BY <1>3, <2>1, Changed
    <3>2. work' = [work EXCEPT !.tree = [work.tree EXCEPT !.facts[f] = v]]
      BY <2>3
    <3>. QED
      BY <1>4, <2>1, <3>1, <3>2
  <2>4. CASE Present(work.tree) /\ work' = [work EXCEPT !.tree.registry["state"].facts[f] = v]
    <3> DEFINE old == work.tree.registry["state"]
               state == [facts |-> [old.facts EXCEPT ![f] = v], genesis |-> old.genesis]
               held == [work.tree.registry EXCEPT !["state"] = state]
               tree == [work.tree EXCEPT !.registry = held]
    <3>1. Stately(old)
      BY <1>3, <2>1, <2>4 DEF Filed, Present
    <3>2. [old EXCEPT !.facts[f] = v] = state
      BY <3>1 DEF Stately
    <3>3. Filed(held)
      BY <1>3, <2>1, Refiled
    <3>4. Planted(tree)
      BY <1>3, <2>1, <3>3, Changed
    <3>5. work' = [work EXCEPT !.tree = tree]
      BY <2>4, <3>2
    <3>. QED
      BY <1>4, <2>1, <3>4, <3>5
  <2>. QED
    BY <2>2, <2>3, <2>4
<1>7. CASE Attest
  <2>1. Checkout /\ UNCHANGED main /\ Present(work.tree)
    BY <1>7 DEF Attest, Activating
  <2>2. PICK genesis : work' = [work EXCEPT !.tree.registry["state"].genesis = genesis]
    BY <1>7 DEF Attest
  <2> DEFINE old == work.tree.registry["state"]
             state == [facts |-> old.facts, genesis |-> genesis]
             held == [work.tree.registry EXCEPT !["state"] = state]
             tree == [work.tree EXCEPT !.registry = held]
  <2>3. Stately(old)
    BY <1>3, <2>1 DEF Filed, Present
  <2>4. [old EXCEPT !.genesis = genesis] = state
    BY <2>3 DEF Stately
  <2>5. Filed(held)
    BY <1>3, <2>1, Refiled
  <2>6. Planted(tree)
    BY <1>3, <2>1, <2>5, Changed
  <2>7. work' = [work EXCEPT !.tree = tree]
    BY <2>2, <2>4
  <2>. QED
    BY <1>4, <2>1, <2>6, <2>7
<1>. QED
  BY <1>2, <1>5, <1>6, <1>7 DEF Activating

\* The merge of the branch.
LEMMA MergeKeeps ==
    ASSUME IInv, Merge
    PROVE  IInv'
<1>1. MainInv /\ GenesisIsFresh /\ GenesisIsForever /\ Planted(Tip)
  BY Commits DEF IInv
<1>2. Planted(work.tree)
  BY DEF IInv, WorkInv, Merge, Checkout
<1>3. Planted(Merged)
  <2>1. Merged.facts \in Facts
    <3>1. work.tree.facts \in [Fact -> Version] /\ Tip.facts \in [Fact -> Version]
      BY <1>1, <1>2 DEF Planted, Facts
    <3>. QED
      BY <3>1 DEF Merged, Facts
  <2>. QED
    BY <1>1, <1>2, <2>1 DEF Planted, Merged
<1>4. MainInv' /\ GenesisIsFresh' /\ GenesisIsForever'
  BY <1>1, <1>3, PushKeeps DEF Merge
<1>5. WorkInv'
  BY DEF Merge, WorkInv
<1>. QED
  BY <1>4, <1>5 DEF IInv

-----------------------------------------------------------------------------
(***************************************************************************)
(* The theorems.                                                             *)
(***************************************************************************)
LEMMA InitHolds ==
    ASSUME Init
    PROVE  IInv
<1>1. /\ Len(main) = 1 /\ main[1] = FirstTree /\ main = [i \in 1..1 |-> main[i]]
      /\ work = None
  BY DEF Init
<1>2. Planted(FirstTree) /\ ~ Present(FirstTree)
  <2>1. FirstTree \in [facts : Facts, consumers : SUBSET Consumer,
                       candidate : {NoFiles}, registry : {NoFiles}]
    BY ActivationAssumption
  <2>2. Filed(NoFiles) /\ NoFiles["state"] = None
    BY DEF Filed, NoFiles, Member
  <2>. QED
    BY <2>1, <2>2 DEF Planted, Present
<1>3. MainInv
  BY <1>1, <1>2, ActivationAssumption DEF MainInv, Based
<1>4. GenesisIsFresh /\ GenesisIsForever
  BY <1>1, <1>2 DEF GenesisIsFresh, GenesisIsForever, Introduces
<1>. QED
  BY <1>1, <1>3, <1>4 DEF IInv, WorkInv

THEOREM Invariance == Spec => []IInv
<1>1. Init => IInv
  BY InitHolds
<1>2. IInv /\ [Next]_<<main, work>> => IInv'
  <2>1. ASSUME IInv, Governed PROVE IInv'
    <3>1. MainInv' /\ GenesisIsFresh' /\ GenesisIsForever'
      BY <2>1, GovernedKeeps
    <3>2. UNCHANGED work /\ Len(main) \in Nat /\ Len(main') \in Nat /\ Len(main) <= Len(main')
      BY <2>1, GrowsOnly
    <3>3. WorkInv'
      BY <2>1, <3>2 DEF IInv, WorkInv
    <3>. QED
      BY <3>1, <3>3 DEF IInv
  <2>2. ASSUME IInv, Activating PROVE IInv'
    <3>1. WorkInv'
      BY <2>2, ActivatingKeeps
    <3>2. MainInv' /\ GenesisIsFresh' /\ GenesisIsForever'
      BY <2>2 DEF IInv, Activating, MainInv, Based, GenesisIsFresh, GenesisIsForever,
                  Introduces, Present
    <3>. QED
      BY <3>1, <3>2 DEF IInv
  <2>3. ASSUME IInv, UNCHANGED <<main, work>> PROVE IInv'
    BY <2>3 DEF IInv, MainInv, Based, WorkInv, GenesisIsFresh, GenesisIsForever,
                Introduces, Present
  <2>. QED
    BY <2>1, <2>2, <2>3, MergeKeeps DEF Next
<1>. QED
  BY <1>1, <1>2, PTL DEF Spec

\* The writer of the projections leaves the branches as they are, and what its authors do
\* meanwhile is an edit of the activation branch.
THEOREM WriterIsActivation == PrepareSpec => Spec
<1>1. PrepareInit => Init
  BY DEF PrepareInit
<1>2. [PrepareNext]_<<main, work, pvars>> => [Next]_<<main, work>>
  <2>1. Prepare => UNCHANGED <<main, work>>
    BY DEF Prepare
  <2>2. Meanwhile => (Edit /\ UNCHANGED main) \/ UNCHANGED <<main, work>>
    BY DEF Meanwhile, EditTarget, EditStaged
  <2>3. Edit /\ UNCHANGED main => Next
    BY DEF Next, Activating
  <2>. QED
    BY <2>1, <2>2, <2>3 DEF PrepareNext
<1>. QED
  BY <1>1, <1>2, PTL DEF PrepareSpec, Spec

\* Every commit is a tree, and the checkout is based on one.
THEOREM TypeCorrect == PrepareSpec => []TypeOK
<1>1. IInv => TypeOK
  <2>1. ASSUME IInv PROVE TypeOK
    <3>1. DOMAIN main = 1..Len(main)
      BY <2>1, Commits DEF IInv
    <3>2. \A held : Filed(held) => DOMAIN held = Member
      BY DEF Filed
    <3>. QED
      BY <2>1, <3>1, <3>2 DEF IInv, MainInv, WorkInv, Planted, TypeOK
  <2>. QED
    BY <2>1
<1>. QED
  BY <1>1, Invariance, WriterIsActivation, PTL

\* The first registry is the candidate its own predecessor held, and states what the
\* sources say there, whatever moved while it was extracted, frozen, promoted or attested
\* (evaluateGenesisException, compareCandidateFreshness).
THEOREM GenesisFresh == PrepareSpec => []GenesisIsFresh
<1>1. IInv => GenesisIsFresh
  BY DEF IInv
<1>. QED
  BY <1>1, Invariance, WriterIsActivation, PTL

\* A registry is introduced once, and its attestation and manifest stand for ever, also
\* when the activation is reverted (pathEverExistedInAncestry, compareGenesisPreservation).
THEOREM GenesisForever == PrepareSpec => []GenesisIsForever
<1>1. IInv => GenesisIsForever
  BY DEF IInv
<1>. QED
  BY <1>1, Invariance, WriterIsActivation, PTL

-----------------------------------------------------------------------------
(* The writer of projections.                                                *)

Busy == {"stage", "verify", "install", "cleanup", "recover", "resweep"}
Over == {"ok", "refused", "failed"}

Doc(t) == Content(t) \cup {None}
Docs == UNION {Doc(t) : t \in Target}
Entries == UNION {Entry(t) : t \in Target}

\* What the variables hold while the writer runs and after.

ShapeInv ==
    /\ docs \in [Target -> Docs] /\ \A t \in Target : docs[t] \in Doc(t)
    /\ authored \in [Target -> Docs]
    /\ staged \in [Target -> Entries \cup {None}]
    /\ \A t \in Target : staged[t] \in Entry(t) \cup {None}
    /\ late \subseteq Target
    /\ errors \in BOOLEAN

WriterInv ==
    /\ writer = [pc |-> writer.pc, at |-> writer.at, tree |-> writer.tree,
                 docs |-> writer.docs, facts |-> writer.facts]
    /\ writer.pc \in Busy \cup Over
    /\ writer.at \in 0 .. Len(Order) + 1
    /\ writer.pc \in {"stage", "install", "cleanup", "resweep"} => writer.at >= 1
    /\ writer.facts \in Facts
    /\ \A t \in Target : writer.docs[t] \in Doc(t)
    /\ \A t \in Target \ WholeFile : writer.docs[t] # None

\* What was authored is in the target until the writer touches it, and then in the
\* target, under the new region, or in the backup.
TargetInv ==
    \A t \in Target \ late :
        /\ ~ Touched(t) => /\ docs[t] = authored[t]
                           /\ Started(t) => staged[t].backup = None
        /\ Touched(t) => /\ authored[t] = writer.docs[t]
                         /\ staged[t].backup \in {None, authored[t]}
                         /\ \/ docs[t] \in {authored[t], Expected(t)}
                            \/ staged[t].backup = authored[t]

\* Before the fence nothing is touched, and what differs is staged.
StageInv ==
    At("stage") =>
        /\ late = {}
        /\ \A t \in Target : ~ Touched(t)
        /\ \A i \in DOMAIN Order : i < writer.at =>
             Started(Order[i]) \/ Expected(Order[i]) = writer.docs[Order[i]]

\* After it the plan stands for what the authors have.
FencedInv ==
    writer.pc \in {"verify", "install", "cleanup", "ok"} =>
        /\ \A t \in Target : Started(t) \/ Expected(t) = writer.docs[t]
        /\ \A t \in Target \ late : authored[t] = writer.docs[t]

InstallInv ==
    /\ At("verify") => \A t \in Target : ~ Touched(t)
    /\ At("install") => \A i \in DOMAIN Order : Order[i] \notin late /\ Started(Order[i]) =>
        IF i < writer.at THEN docs[Order[i]] = Expected(Order[i])
        ELSE /\ staged[Order[i]].prepared = Expected(Order[i])
             /\ ~ staged[Order[i]].installed
             /\ staged[Order[i]].backedUp => i = writer.at

Gone(n) == \A i \in DOMAIN Order : i < n /\ Started(Order[i]) => ~ staged[Order[i]].there

CleanInv ==
    /\ writer.pc \in {"cleanup", "ok"} => \A t \in Target \ late : docs[t] = Expected(t)
    /\ writer.pc \in {"cleanup", "resweep"} /\ ~ errors => Gone(writer.at)
    /\ writer.pc \in {"ok", "refused"} => NothingStaged

RecoverInv ==
    /\ At("recover") => writer.at \in 0 .. Len(Order)
    /\ At("recover") /\ ~ errors => \A i \in DOMAIN Order :
        i > writer.at /\ Order[i] \notin late => docs[Order[i]] = authored[Order[i]]
    /\ writer.pc \in {"resweep", "refused"} =>
        \A t \in Target \ late : docs[t] = authored[t]

PrepareInv ==
    /\ ShapeInv
    /\ IF At("idle") THEN /\ late = {} /\ staged = [t \in Target |-> None]
       ELSE WriterInv /\ TargetInv /\ StageInv /\ FencedInv /\ InstallInv
            /\ CleanInv /\ RecoverInv

LEMMA OrderFacts ==
    /\ Len(Order) \in Nat /\ DOMAIN Order = 1 .. Len(Order)
    /\ \A i \in DOMAIN Order : Order[i] \in Target
    /\ \A t \in Target : \E i \in DOMAIN Order : t = Order[i]
<1>1. Order \in Seq(Target)
  BY ProjectionsAssumption
<1>2. Len(Order) \in Nat /\ DOMAIN Order = 1 .. Len(Order)
  BY <1>1
<1>. QED
  BY <1>2 DEF Target

\* A directory is something, and so is a document.
LEMMA NotNone ==
  ASSUME NEW t \in Target
  PROVE  None \notin Content(t) /\ None \notin Entry(t)
BY ProjectionsAssumption

\* The writer goes on: what it proved stays.
LEMMA GoesOn ==
  ASSUME WriterInv, NEW pc \in Busy \cup Over, NEW at \in 0 .. Len(Order) + 1, Goto(pc, at),
         pc \in {"stage", "install", "cleanup", "resweep"} => at >= 1
  PROVE  /\ WriterInv'
         /\ writer'.pc = pc /\ writer'.at = at
         /\ writer'.docs = writer.docs /\ writer'.facts = writer.facts
         /\ \A t : Expected(t)' = Expected(t)
<1>1. writer' = [pc |-> pc, at |-> at, tree |-> writer.tree,
                 docs |-> writer.docs, facts |-> writer.facts]
  BY DEF WriterInv, Goto
<1>2. /\ writer'.pc = pc /\ writer'.at = at /\ writer'.tree = writer.tree
      /\ writer'.docs = writer.docs /\ writer'.facts = writer.facts
  BY <1>1
<1>3. \A t : Expected(t)' = Expected(t)
  BY <1>2 DEF Expected
<1>4. WriterInv'
  BY <1>1, <1>2 DEF WriterInv
<1>. QED
  BY <1>2, <1>3, <1>4

\* The target a loop is at.
LEMMA TurnFacts ==
  ASSUME WriterInv, Going, writer.at >= 1
  PROVE  /\ writer.at \in DOMAIN Order /\ Turn \in Target
         /\ writer.at \in 1 .. Len(Order)
         /\ \A i \in DOMAIN Order : Order[i] = Turn => i = writer.at
<1>1. writer.at \in 1 .. Len(Order)
  BY OrderFacts DEF WriterInv, Going
<1>. QED
  BY <1>1, OrderFacts, ProjectionsAssumption DEF Turn

\* What is written is a document.
LEMMA ExpectedDoc ==
  ASSUME WriterInv, NEW t \in Target
  PROVE  Expected(t) \in Content(t)
<1>1. writer.facts \in Facts
  BY DEF WriterInv
<1>2. CASE t \in WholeFile
  BY <1>1, <1>2 DEF Expected, Rendered, Content
<1>3. CASE t \notin WholeFile
  <2>1. writer.docs[t] \in Content(t)
    BY <1>3 DEF WriterInv, Doc
  <2>. QED
    BY <1>1, <1>3, <2>1 DEF Expected, Rendered, Content
<1>. QED
  BY <1>2, <1>3

\* One target's directory changes.
LEMMA StagedAt ==
  ASSUME ShapeInv, NEW t \in Target, NEW e \in Entry(t), staged' = [staged EXCEPT ![t] = e]
  PROVE  /\ staged' \in [Target -> Entries \cup {None}]
         /\ \A u \in Target : staged'[u] \in Entry(u) \cup {None}
         /\ staged'[t] = e
         /\ \A u \in Target : u # t => staged'[u] = staged[u]
<1>1. staged \in [Target -> Entries \cup {None}]
      /\ \A u \in Target : staged[u] \in Entry(u) \cup {None}
  BY DEF ShapeInv
<1>2. e \in Entries
  BY DEF Entries
<1>3. staged' \in [Target -> Entries \cup {None}]
  BY <1>1, <1>2
<1>4. staged'[t] = e /\ \A u \in Target : u # t => staged'[u] = staged[u]
  BY <1>1
<1>. QED
  BY <1>1, <1>3, <1>4

\* One target's document changes.
LEMMA DocsAt ==
  ASSUME ShapeInv, NEW t \in Target, NEW d \in Doc(t), docs' = [docs EXCEPT ![t] = d]
  PROVE  /\ docs' \in [Target -> Docs] /\ \A u \in Target : docs'[u] \in Doc(u)
         /\ docs'[t] = d
         /\ \A u \in Target : u # t => docs'[u] = docs[u]
<1>1. docs \in [Target -> Docs] /\ \A u \in Target : docs[u] \in Doc(u)
  BY DEF ShapeInv
<1>2. d \in Docs
  BY DEF Docs
<1>3. docs' \in [Target -> Docs]
  BY <1>1, <1>2
<1>4. docs'[t] = d /\ \A u \in Target : u # t => docs'[u] = docs[u]
  BY <1>1
<1>. QED
  BY <1>1, <1>3, <1>4

\* What holds while the writer runs and after it.
RunInv == /\ ShapeInv /\ WriterInv /\ TargetInv /\ StageInv /\ FencedInv /\ InstallInv
          /\ CleanInv /\ RecoverInv

\* While the writer runs, and after, the invariant is RunInv.
LEMMA RunPrepareNext ==
  RunInv' => PrepareInv'
BY DEF RunInv, PrepareInv, WriterInv, Busy, Over, At

\* Where nothing was touched the target holds what was authored; going to the recovery
\* asks for nothing more.
LEMMA Thrown ==
  ASSUME RunInv, Throw, ShapeInv', TargetInv'
  PROVE  RunInv'
<1>1. Len(Order) \in 0 .. Len(Order) + 1 /\ "recover" \in Busy \cup Over
  BY OrderFacts DEF Busy
<1>2. /\ WriterInv' /\ writer'.pc = "recover" /\ writer'.at = Len(Order)
  BY <1>1, GoesOn DEF RunInv, Throw
<1>3. StageInv' /\ FencedInv' /\ InstallInv' /\ CleanInv'
  BY <1>2 DEF StageInv, FencedInv, InstallInv, CleanInv, At
<1>4. RecoverInv'
  BY <1>2, OrderFacts DEF RecoverInv, At
<1>. QED
  BY <1>2, <1>3, <1>4 DEF RunInv

\* The files stay as they are.
LEMMA FilesStay ==
  ASSUME RunInv, UNCHANGED files, errors' \in BOOLEAN,
         writer'.docs = writer.docs, \A t : Expected(t)' = Expected(t)
  PROVE  /\ ShapeInv' /\ TargetInv'
         /\ \A t : (Touched(t)' <=> Touched(t)) /\ (Started(t)' <=> Started(t))
<1>1. docs' = docs /\ authored' = authored /\ late' = late /\ staged' = staged
  BY DEF files
<1>2. \A t : (Touched(t)' <=> Touched(t)) /\ (Started(t)' <=> Started(t))
  BY <1>1 DEF Touched, Started
<1>3. ShapeInv'
  BY <1>1 DEF RunInv, ShapeInv
<1>4. TargetInv'
  BY <1>1, <1>2 DEF RunInv, TargetInv
<1>. QED
  BY <1>2, <1>3, <1>4

\* A directory is made for the target of a loop that stages.
LEMMA Staged ==
  ASSUME RunInv, At("stage"), Going, NEW t \in Target, t = Turn,
         NEW p \in Doc(t), Directory(t, p),
         UNCHANGED <<docs, authored, late>>, errors' \in BOOLEAN,
         writer'.docs = writer.docs, \A u : Expected(u)' = Expected(u)
  PROVE  /\ ShapeInv' /\ TargetInv'
         /\ \A u \in Target : ~ Touched(u)'
         /\ Started(t)' /\ \A u \in Target : Started(u) => Started(u)'
<1> DEFINE e == [there |-> TRUE, prepared |-> p, backup |-> None,
                 backedUp |-> FALSE, installed |-> FALSE]
<1>1. writer.at >= 1 /\ WriterInv /\ ShapeInv
  BY DEF RunInv, WriterInv, At
<1>2. e \in Entry(t)
  BY DEF Entry, Doc
<1>3. staged' = [staged EXCEPT ![t] = e]
  BY DEF Directory
<1>4. /\ staged' \in [Target -> Entries \cup {None}]
      /\ \A u \in Target : staged'[u] \in Entry(u) \cup {None}
      /\ staged'[t] = e
      /\ \A u \in Target : u # t => staged'[u] = staged[u]
  <2>. HIDE DEF e
  <2>. QED
    BY <1>1, <1>2, <1>3, StagedAt
<1>5. ShapeInv'
  BY <1>4 DEF RunInv, ShapeInv
<1>6. e # None
  <2>. HIDE DEF e
  <2>. QED
    BY <1>2, NotNone
<1>7. /\ staged'[t] # None /\ staged'[t].backup = None
      /\ ~ staged'[t].backedUp /\ ~ staged'[t].installed
  BY <1>4, <1>6
<1>8. \A u \in Target : ~ Touched(u)'
  <2>1. \A u \in Target : ~ Touched(u)
    BY DEF RunInv, StageInv
  <2>. QED
    BY <1>4, <1>7, <2>1 DEF Touched, Started
<1>9. TargetInv'
  <2>. SUFFICES ASSUME NEW u \in Target \ late
                PROVE docs[u] = authored[u] /\ (Started(u)' => staged'[u].backup = None)
    BY <1>8 DEF TargetInv
  <2>1. docs[u] = authored[u] /\ (Started(u) => staged[u].backup = None)
    BY DEF RunInv, StageInv, TargetInv
  <2>. QED
    BY <1>4, <1>7, <2>1 DEF Started
<1>. QED
  BY <1>4, <1>5, <1>7, <1>8, <1>9 DEF Started

\* A target that is as expected is passed by, the others are staged.
LEMMA StageStep ==
  ASSUME RunInv, Stage
  PROVE  RunInv'
<1>1. /\ At("stage") /\ Going /\ writer.at >= 1 /\ WriterInv /\ ShapeInv
      /\ docs' = docs /\ authored' = authored /\ late' = late
  BY DEF Stage, RunInv, WriterInv, At
<1>2. /\ writer.at \in DOMAIN Order /\ Turn \in Target /\ Turn = Order[writer.at]
      /\ writer.at \in 1 .. Len(Order) /\ Len(Order) \in Nat
      /\ DOMAIN Order = 1 .. Len(Order)
  BY <1>1, TurnFacts, OrderFacts DEF Turn
<1>3. writer.at + 1 \in 0 .. Len(Order) + 1 /\ writer.at + 1 >= 1
      /\ "stage" \in Busy \cup Over
  BY <1>2 DEF Busy
<1>4. PICK t \in Target : t = Turn
  BY <1>2
<1>5. Expected(t) \in Doc(t) /\ None \in Doc(t)
  BY <1>1, ExpectedDoc DEF Doc
\* The loop goes on, the target passed by or staged.
<1>6. ASSUME Goto("stage", writer.at + 1), ShapeInv', TargetInv',
             \A u \in Target : ~ Touched(u)', \A u \in Target : Started(u) => Started(u)',
             Started(t)' \/ Expected(t) = writer.docs[t]
      PROVE  RunInv'
  <2>1. /\ WriterInv' /\ writer'.pc = "stage" /\ writer'.at = writer.at + 1
        /\ writer'.docs = writer.docs /\ \A u : Expected(u)' = Expected(u)
    BY <1>1, <1>3, <1>6, GoesOn
  <2>2. StageInv'
    <3>1. ASSUME NEW i \in DOMAIN Order, i < writer.at + 1
          PROVE  Started(Order[i])' \/ Expected(Order[i]) = writer.docs[Order[i]]
      <4>1. CASE i = writer.at
        BY <1>2, <1>6, <1>4, <4>1
      <4>2. CASE i < writer.at
        BY <1>1, <1>6, <4>2, OrderFacts DEF RunInv, StageInv
      <4>. QED
        BY <1>2, <3>1, <4>1, <4>2
    <3>2. late = {}
      BY <1>1 DEF RunInv, StageInv
    <3>. QED
      BY <1>1, <1>6, <2>1, <3>1, <3>2 DEF StageInv
  <2>3. FencedInv' /\ InstallInv' /\ CleanInv' /\ RecoverInv'
    BY <2>1 DEF FencedInv, InstallInv, CleanInv, RecoverInv, At
  <2>. QED
    BY <1>6, <2>1, <2>2, <2>3 DEF RunInv
<1>7. CASE Expected(t) = writer.docs[t] /\ Goto("stage", writer.at + 1)
           /\ UNCHANGED <<staged, errors>>
  <2>1. writer'.docs = writer.docs /\ \A u : Expected(u)' = Expected(u)
    BY <1>1, <1>3, <1>7, GoesOn
  <2>2. /\ ShapeInv' /\ TargetInv'
        /\ \A u : (Touched(u)' <=> Touched(u)) /\ (Started(u)' <=> Started(u))
    BY <1>1, <1>7, <2>1, FilesStay DEF files, ShapeInv
  <2>. QED
    BY <1>1, <1>6, <1>7, <2>2 DEF RunInv, StageInv
<1>8. CASE Directory(t, Expected(t)) /\ Goto("stage", writer.at + 1) /\ UNCHANGED errors
  <2>1. writer'.docs = writer.docs /\ \A u : Expected(u)' = Expected(u)
    BY <1>1, <1>3, <1>8, GoesOn
  <2>2. /\ ShapeInv' /\ TargetInv' /\ \A u \in Target : ~ Touched(u)'
        /\ Started(t)' /\ \A u \in Target : Started(u) => Started(u)'
    BY <1>1, <1>5, <1>8, <1>4, <2>1, Staged DEF ShapeInv
  <2>. QED
    BY <1>6, <1>8, <2>2
<1>9. CASE (Directory(t, None) \/ UNCHANGED staged) /\ Throw
  <2>1. "recover" \in Busy \cup Over /\ Len(Order) \in 0 .. Len(Order) + 1
    BY <1>2 DEF Busy
  <2>2. /\ writer'.docs = writer.docs /\ \A u : Expected(u)' = Expected(u)
        /\ errors' \in BOOLEAN
    BY <1>1, <1>9, <2>1, GoesOn DEF Throw
  <2>3. CASE Directory(t, None)
    BY <1>1, <1>5, <1>9, <1>4, <2>2, <2>3, Staged, Thrown
  <2>4. CASE UNCHANGED staged
    BY <1>1, <1>9, <2>2, <2>4, FilesStay, Thrown DEF files
  <2>. QED
    BY <1>9, <2>3, <2>4
<1>. QED
  BY <1>7, <1>8, <1>9, <1>4 DEF Stage

\* The fence: nothing was edited, so the plan stands for what the authors have.
LEMMA FenceStep ==
  ASSUME RunInv, Fence
  PROVE  RunInv'
<1>1. /\ At("stage") /\ ~ Going /\ writer.at >= 1 /\ WriterInv /\ ShapeInv /\ UNCHANGED files
  BY DEF Fence, RunInv, WriterInv, At
<1>2. "verify" \in Busy \cup Over /\ 1 \in 0 .. Len(Order) + 1
      /\ "recover" \in Busy \cup Over /\ Len(Order) \in 0 .. Len(Order) + 1
  BY OrderFacts DEF Busy
<1>3. CASE Unchanged /\ Goto("verify", 1) /\ UNCHANGED errors
  <2>1. /\ WriterInv' /\ writer'.pc = "verify" /\ writer'.at = 1
        /\ writer'.docs = writer.docs /\ \A t : Expected(t)' = Expected(t)
    BY <1>1, <1>2, <1>3, GoesOn
  <2>2. /\ ShapeInv' /\ TargetInv'
        /\ \A t : (Touched(t)' <=> Touched(t)) /\ (Started(t)' <=> Started(t))
    BY <1>1, <1>3, <2>1, FilesStay DEF ShapeInv
  <2>3. FencedInv'
    <3>1. \A t \in Target : Started(t) \/ Expected(t) = writer.docs[t]
      <4>. SUFFICES ASSUME NEW i \in DOMAIN Order
                    PROVE Started(Order[i]) \/ Expected(Order[i]) = writer.docs[Order[i]]
        BY OrderFacts
      <4>1. i < writer.at
        BY <1>1, OrderFacts DEF Going, WriterInv
      <4>. QED
        BY <1>1, <4>1 DEF RunInv, StageInv
    <3>2. \A t \in Target : authored[t] = writer.docs[t]
      BY <1>1, <1>3 DEF RunInv, StageInv, TargetInv, Unchanged
    <3>. QED
      BY <1>1, <2>1, <2>2, <3>1, <3>2 DEF FencedInv, files
  <2>4. InstallInv'
    BY <1>1, <2>1, <2>2 DEF InstallInv, RunInv, StageInv, At
  <2>5. StageInv' /\ CleanInv' /\ RecoverInv'
    BY <2>1 DEF StageInv, CleanInv, RecoverInv, At
  <2>. QED
    BY <2>1, <2>2, <2>3, <2>4, <2>5 DEF RunInv
<1>4. CASE Throw
  <2>1. /\ writer'.docs = writer.docs /\ \A t : Expected(t)' = Expected(t)
        /\ errors' \in BOOLEAN
    BY <1>1, <1>2, <1>4, GoesOn DEF Throw
  <2>. QED
    BY <1>1, <1>4, <2>1, FilesStay, Thrown
<1>. QED
  BY <1>3, <1>4 DEF Fence

\* What is staged is what is expected.
LEMMA VerifyStep ==
  ASSUME RunInv, Verify
  PROVE  RunInv'
<1>1. /\ At("verify") /\ WriterInv /\ ShapeInv /\ UNCHANGED files
  BY DEF Verify, RunInv
<1>2. "install" \in Busy \cup Over /\ 1 \in 0 .. Len(Order) + 1
      /\ "recover" \in Busy \cup Over /\ Len(Order) \in 0 .. Len(Order) + 1
  BY OrderFacts DEF Busy
<1>3. CASE /\ \A t \in Target : Started(t) => staged[t].prepared = Expected(t)
           /\ Goto("install", 1) /\ UNCHANGED errors
  <2>1. /\ WriterInv' /\ writer'.pc = "install" /\ writer'.at = 1
        /\ writer'.docs = writer.docs /\ \A t : Expected(t)' = Expected(t)
    BY <1>1, <1>2, <1>3, GoesOn
  <2>2. /\ ShapeInv' /\ TargetInv'
        /\ \A t : (Touched(t)' <=> Touched(t)) /\ (Started(t)' <=> Started(t))
    BY <1>1, <1>3, <2>1, FilesStay DEF ShapeInv
  <2>3. FencedInv'
    BY <1>1, <2>1, <2>2 DEF RunInv, FencedInv, files, At
  <2>4. InstallInv'
    <3>. SUFFICES ASSUME NEW i \in DOMAIN Order, Started(Order[i])
                  PROVE  /\ ~ (i < 1)
                         /\ staged[Order[i]].prepared = Expected(Order[i])
                         /\ ~ staged[Order[i]].installed
                         /\ ~ staged[Order[i]].backedUp
      BY <1>1, <2>1, <2>2 DEF InstallInv, files, At
    <3>1. PICK t \in Target : t = Order[i]
      BY OrderFacts
    <3>2. ~ Touched(t) /\ Started(t)
      BY <1>1, <3>1 DEF RunInv, InstallInv
    <3>3. ~ staged[t].installed /\ ~ staged[t].backedUp
      BY <3>2 DEF Touched
    <3>. QED
      BY <1>3, <3>1, <3>2, <3>3, OrderFacts
  <2>5. StageInv' /\ CleanInv' /\ RecoverInv'
    BY <2>1 DEF StageInv, CleanInv, RecoverInv, At
  <2>. QED
    BY <2>1, <2>2, <2>3, <2>4, <2>5 DEF RunInv
<1>4. CASE Throw
  <2>1. /\ writer'.docs = writer.docs /\ \A t : Expected(t)' = Expected(t)
        /\ errors' \in BOOLEAN
    BY <1>1, <1>2, <1>4, GoesOn DEF Throw
  <2>. QED
    BY <1>1, <1>4, <2>1, FilesStay, Thrown
<1>. QED
  BY <1>3, <1>4 DEF Verify

\* What an install loop knows of the target it is at.
LEMMA AtInstall ==
  ASSUME RunInv, At("install"), Going, NEW t \in Target, t = Turn
  PROVE  /\ writer.at >= 1 /\ writer.at \in DOMAIN Order /\ Order[writer.at] = t
         /\ writer.at + 1 \in 0 .. Len(Order) + 1 /\ writer.at + 1 >= 1
         /\ \A i \in DOMAIN Order : Order[i] = t => i = writer.at
         /\ t \notin late /\ Started(t) =>
              /\ staged[t].prepared = Expected(t) /\ ~ staged[t].installed
              /\ authored[t] = writer.docs[t]
         /\ t \notin late /\ Started(t) /\ ~ staged[t].backedUp => docs[t] = authored[t]
<1>1. writer.at >= 1 /\ WriterInv
  BY DEF RunInv, WriterInv, At
<1>2. /\ writer.at \in DOMAIN Order /\ Order[writer.at] = t
      /\ writer.at \in 1 .. Len(Order) /\ Len(Order) \in Nat
      /\ \A i \in DOMAIN Order : Order[i] = t => i = writer.at
  BY <1>1, TurnFacts, OrderFacts DEF Turn
<1>3. ~ (writer.at < writer.at)
  BY <1>2
<1>4. t \notin late /\ Started(t) =>
        staged[t].prepared = Expected(t) /\ ~ staged[t].installed
  BY <1>2, <1>3 DEF RunInv, InstallInv
<1>5. t \notin late => authored[t] = writer.docs[t]
  BY DEF RunInv, FencedInv, At
<1>6. t \notin late /\ Started(t) /\ ~ staged[t].backedUp => docs[t] = authored[t]
  BY <1>4 DEF RunInv, TargetInv, Touched
<1>. QED
  BY <1>1, <1>2, <1>4, <1>5, <1>6

\* The author's bytes go from the target to the backup.
LEMMA BackupStep ==
  ASSUME RunInv, Backup
  PROVE  RunInv'
<1>1. /\ At("install") /\ Going /\ WriterInv /\ ShapeInv
      /\ authored' = authored /\ late' = late
  BY DEF Backup, RunInv
<1>2. PICK t \in Target : t = Turn
  BY <1>1, TurnFacts DEF RunInv, WriterInv, At
<1>3. /\ writer.at >= 1 /\ writer.at \in DOMAIN Order /\ Order[writer.at] = t
      /\ \A i \in DOMAIN Order : Order[i] = t => i = writer.at
      /\ t \notin late /\ Started(t) =>
           /\ staged[t].prepared = Expected(t) /\ ~ staged[t].installed
           /\ authored[t] = writer.docs[t]
      /\ t \notin late /\ Started(t) /\ ~ staged[t].backedUp => docs[t] = authored[t]
  BY <1>1, <1>2, AtInstall
<1>4. Started(t) /\ writer.docs[t] # None /\ ~ staged[t].backedUp
  BY <1>2 DEF Backup
<1>5. CASE Throw /\ UNCHANGED <<docs, staged>>
  <2>1. "recover" \in Busy \cup Over /\ Len(Order) \in 0 .. Len(Order) + 1
    BY OrderFacts DEF Busy
  <2>2. /\ writer'.docs = writer.docs /\ \A u : Expected(u)' = Expected(u)
        /\ errors' \in BOOLEAN
    BY <1>1, <1>5, <2>1, GoesOn DEF Throw
  <2>. QED
    BY <1>1, <1>5, <2>2, FilesStay, Thrown DEF files
<1>6. CASE /\ docs[t] # None
           /\ docs' = [docs EXCEPT ![t] = None]
           /\ staged' = [staged EXCEPT ![t].backup = docs[t], ![t].backedUp = TRUE]
           /\ UNCHANGED <<writer, errors, faults>>
  <2> DEFINE e == [staged[t] EXCEPT !.backup = docs[t], !.backedUp = TRUE]
  <2>1. staged[t] \in Entry(t) /\ docs[t] \in Doc(t) /\ None \in Doc(t)
    BY <1>1, <1>4 DEF ShapeInv, Started, Doc
  <2>2. /\ e \in Entry(t) /\ e.backup = docs[t] /\ e.backedUp = TRUE
        /\ e.prepared = staged[t].prepared /\ e.installed = staged[t].installed
    BY <2>1 DEF Entry, Doc
  <2>3. staged' = [staged EXCEPT ![t] = e]
    BY <1>6
  <2>4. /\ staged' \in [Target -> Entries \cup {None}]
        /\ \A u \in Target : staged'[u] \in Entry(u) \cup {None}
        /\ staged'[t] = e
        /\ \A u \in Target : u # t => staged'[u] = staged[u]
    <3>. HIDE DEF e
    <3>. QED
      BY <1>1, <2>2, <2>3, StagedAt
  <2>5. /\ docs' \in [Target -> Docs] /\ \A u \in Target : docs'[u] \in Doc(u)
        /\ docs'[t] = None
        /\ \A u \in Target : u # t => docs'[u] = docs[u]
    BY <1>1, <1>6, <2>1, DocsAt
  <2>6. ShapeInv'
    BY <1>1, <1>6, <2>4, <2>5 DEF ShapeInv
  <2>7. WriterInv' /\ \A u : Expected(u)' = Expected(u)
    BY <1>1, <1>6 DEF WriterInv, Expected
  <2>8. /\ staged'[t] # None /\ staged'[t].backup = docs[t] /\ staged'[t].backedUp
        /\ staged'[t].prepared = staged[t].prepared
        /\ staged'[t].installed = staged[t].installed
    <3>1. e # None
      <4>. HIDE DEF e
      <4>. QED
        BY <2>2, NotNone
    <3>. HIDE DEF e
    <3>. QED
      BY <2>2, <2>4, <3>1
  <2>9. \A u \in Target : u # t =>
          (Touched(u)' <=> Touched(u)) /\ (Started(u)' <=> Started(u))
    BY <2>4 DEF Touched, Started
  <2>10. Touched(t)' /\ Started(t)'
    BY <2>8 DEF Touched, Started
  <2>11. TargetInv'
    <3>. SUFFICES ASSUME NEW u \in Target, u \notin late
                  PROVE  /\ ~ Touched(u)' => /\ docs'[u] = authored[u]
                                             /\ Started(u)' => staged'[u].backup = None
                         /\ Touched(u)' => /\ authored[u] = writer.docs[u]
                                           /\ staged'[u].backup \in {None, authored[u]}
                                           /\ \/ docs'[u] \in {authored[u], Expected(u)}
                                              \/ staged'[u].backup = authored[u]
      BY <1>1, <1>6, <2>7 DEF TargetInv
    <3>1. CASE u = t
      BY <1>3, <1>4, <2>8, <2>10, <3>1
    <3>2. CASE u # t
      BY <2>4, <2>5, <2>9, <3>2 DEF RunInv, TargetInv
    <3>. QED
      BY <3>1, <3>2
  <2>12. FencedInv'
    BY <1>1, <1>6, <2>7, <2>9, <2>10 DEF RunInv, FencedInv
  <2>13. InstallInv'
    <3>1. writer'.pc = "install" /\ writer'.at = writer.at
      BY <1>1, <1>6 DEF At
    <3>. SUFFICES ASSUME NEW i \in DOMAIN Order, Order[i] \notin late, Started(Order[i])'
                  PROVE  IF i < writer.at THEN docs'[Order[i]] = Expected(Order[i])
                         ELSE /\ staged'[Order[i]].prepared = Expected(Order[i])
                              /\ ~ staged'[Order[i]].installed
                              /\ staged'[Order[i]].backedUp => i = writer.at
      BY <1>1, <2>7, <3>1 DEF InstallInv, At
    <3>2. PICK u \in Target : u = Order[i]
      BY OrderFacts
    <3>3. CASE u = t
      <4>1. i \in Nat
        BY OrderFacts
      <4>2. i = writer.at
        BY <1>3, <3>2, <3>3
      <4>3. ~ (i < writer.at)
        BY <4>1, <4>2
      <4>. QED
        BY <1>3, <1>4, <2>8, <3>2, <3>3, <4>2, <4>3
    <3>4. CASE u # t
      <4>1. Started(u) /\ docs'[u] = docs[u] /\ staged'[u] = staged[u]
        BY <2>4, <2>5, <2>9, <3>2, <3>4
      <4>. QED
        BY <1>1, <3>2, <4>1 DEF RunInv, InstallInv
    <3>. QED
      BY <3>3, <3>4
  <2>14. StageInv' /\ CleanInv' /\ RecoverInv'
    BY <1>1, <1>6 DEF StageInv, CleanInv, RecoverInv, At
  <2>. QED
    BY <2>6, <2>7, <2>11, <2>12, <2>13, <2>14 DEF RunInv
<1>. QED
  BY <1>2, <1>5, <1>6 DEF Backup

\* The new content takes the place of what is in the backup.
LEMMA PlaceStep ==
  ASSUME RunInv, Place
  PROVE  RunInv'
<1>1. /\ At("install") /\ Going /\ WriterInv /\ ShapeInv
      /\ authored' = authored /\ late' = late
  BY DEF Place, RunInv
<1>2. PICK t \in Target : t = Turn
  BY <1>1, TurnFacts DEF RunInv, WriterInv, At
<1>3. /\ writer.at >= 1 /\ writer.at \in DOMAIN Order /\ Order[writer.at] = t
      /\ writer.at + 1 \in 0 .. Len(Order) + 1 /\ writer.at + 1 >= 1
      /\ \A i \in DOMAIN Order : Order[i] = t => i = writer.at
      /\ t \notin late /\ Started(t) =>
           /\ staged[t].prepared = Expected(t) /\ ~ staged[t].installed
           /\ authored[t] = writer.docs[t]
      /\ t \notin late /\ Started(t) /\ ~ staged[t].backedUp => docs[t] = authored[t]
  BY <1>1, <1>2, AtInstall
<1>4. Started(t) /\ (writer.docs[t] = None \/ staged[t].backedUp)
  BY <1>2 DEF Place
<1>5. CASE Throw /\ UNCHANGED <<docs, staged>>
  <2>1. "recover" \in Busy \cup Over /\ Len(Order) \in 0 .. Len(Order) + 1
    BY OrderFacts DEF Busy
  <2>2. /\ writer'.docs = writer.docs /\ \A u : Expected(u)' = Expected(u)
        /\ errors' \in BOOLEAN
    BY <1>1, <1>5, <2>1, GoesOn DEF Throw
  <2>. QED
    BY <1>1, <1>5, <2>2, FilesStay, Thrown DEF files
<1>6. CASE /\ docs' = [docs EXCEPT ![t] = staged[t].prepared]
           /\ staged' = [staged EXCEPT ![t].prepared = None, ![t].installed = TRUE]
           /\ Goto("install", writer.at + 1)
           /\ UNCHANGED <<errors, faults>>
  <2> DEFINE e == [staged[t] EXCEPT !.prepared = None, !.installed = TRUE]
  <2>1. staged[t] \in Entry(t) /\ staged[t].prepared \in Doc(t)
    BY <1>1, <1>4 DEF ShapeInv, Started, Entry, Doc
  <2>2. /\ e \in Entry(t) /\ e.installed = TRUE /\ e.backup = staged[t].backup
    BY <2>1 DEF Entry, Doc
  <2>3. staged' = [staged EXCEPT ![t] = e]
    BY <1>6
  <2>4. /\ staged' \in [Target -> Entries \cup {None}]
        /\ \A u \in Target : staged'[u] \in Entry(u) \cup {None}
        /\ staged'[t] = e
        /\ \A u \in Target : u # t => staged'[u] = staged[u]
    <3>. HIDE DEF e
    <3>. QED
      BY <1>1, <2>2, <2>3, StagedAt
  <2>5. /\ docs' \in [Target -> Docs] /\ \A u \in Target : docs'[u] \in Doc(u)
        /\ docs'[t] = staged[t].prepared
        /\ \A u \in Target : u # t => docs'[u] = docs[u]
    BY <1>1, <1>6, <2>1, DocsAt
  <2>6. ShapeInv'
    BY <1>1, <1>6, <2>4, <2>5 DEF ShapeInv
  <2>7. /\ WriterInv' /\ writer'.pc = "install" /\ writer'.at = writer.at + 1
        /\ writer'.docs = writer.docs /\ \A u : Expected(u)' = Expected(u)
    BY <1>1, <1>3, <1>6, GoesOn DEF Busy
  <2>8. staged'[t] # None /\ staged'[t].backup = staged[t].backup /\ staged'[t].installed
    <3>1. e # None
      <4>. HIDE DEF e
      <4>. QED
        BY <2>2, NotNone
    <3>. HIDE DEF e
    <3>. QED
      BY <2>2, <2>4, <3>1
  <2>9. \A u \in Target : u # t =>
          (Touched(u)' <=> Touched(u)) /\ (Started(u)' <=> Started(u))
    BY <2>4 DEF Touched, Started
  <2>10. Touched(t)' /\ Started(t)'
    BY <2>8 DEF Touched, Started
  <2>11. TargetInv'
    <3>. SUFFICES ASSUME NEW u \in Target, u \notin late
                  PROVE  /\ ~ Touched(u)' => /\ docs'[u] = authored[u]
                                             /\ Started(u)' => staged'[u].backup = None
                         /\ Touched(u)' => /\ authored[u] = writer.docs[u]
                                           /\ staged'[u].backup \in {None, authored[u]}
                                           /\ \/ docs'[u] \in {authored[u], Expected(u)}
                                              \/ staged'[u].backup = authored[u]
      BY <1>1, <2>7 DEF TargetInv
    <3>1. CASE u = t
      <4>1. staged[t].backup \in {None, authored[t]}
        <5>1. CASE Touched(t)
          BY <3>1, <5>1 DEF RunInv, TargetInv
        <5>2. CASE ~ Touched(t)
          BY <1>4, <3>1, <5>2 DEF RunInv, TargetInv
        <5>. QED
          BY <5>1, <5>2
      <4>. QED
        BY <1>3, <1>4, <2>5, <2>8, <2>10, <3>1, <4>1
    <3>2. CASE u # t
      BY <2>4, <2>5, <2>9, <3>2 DEF RunInv, TargetInv
    <3>. QED
      BY <3>1, <3>2
  <2>12. FencedInv'
    BY <1>1, <2>7, <2>9, <2>10 DEF RunInv, FencedInv, At
  <2>13. InstallInv'
    <3>. SUFFICES ASSUME NEW i \in DOMAIN Order, Order[i] \notin late, Started(Order[i])'
                  PROVE  IF i < writer.at + 1 THEN docs'[Order[i]] = Expected(Order[i])
                         ELSE /\ staged'[Order[i]].prepared = Expected(Order[i])
                              /\ ~ staged'[Order[i]].installed
                              /\ staged'[Order[i]].backedUp => i = writer.at + 1
      BY <1>1, <2>7 DEF InstallInv, At
    <3>2. PICK u \in Target : u = Order[i]
      BY OrderFacts
    <3>3. CASE u = t
      <4>1. i \in Nat
        BY OrderFacts
      <4>2. i = writer.at
        BY <1>3, <3>2, <3>3
      <4>3. i < writer.at + 1
        BY <4>1, <4>2
      <4>. QED
        BY <1>3, <1>4, <2>5, <3>2, <3>3, <4>3
    <3>4. CASE u # t
      <4>1. Started(u) /\ docs'[u] = docs[u] /\ staged'[u] = staged[u]
        BY <2>4, <2>5, <2>9, <3>2, <3>4
      <4>2. i # writer.at /\ i \in Nat /\ writer.at \in Nat
        BY <1>3, <3>2, <3>4, OrderFacts
      <4>3. i < writer.at + 1 <=> i < writer.at
        BY <4>2
      <4>4. IF i < writer.at THEN docs[u] = Expected(u)
            ELSE /\ staged[u].prepared = Expected(u)
                 /\ ~ staged[u].installed
                 /\ staged[u].backedUp => i = writer.at
        BY <1>1, <3>2, <4>1 DEF RunInv, InstallInv
      <4>. QED
        BY <3>2, <4>1, <4>2, <4>3, <4>4
    <3>. QED
      BY <3>3, <3>4
  <2>14. StageInv' /\ CleanInv' /\ RecoverInv'
    BY <2>7 DEF StageInv, CleanInv, RecoverInv, At
  <2>. QED
    BY <2>6, <2>7, <2>11, <2>12, <2>13, <2>14 DEF RunInv
<1>. QED
  BY <1>2, <1>5, <1>6 DEF Place

\* A target that needed nothing is as expected already.
LEMMA LeaveStep ==
  ASSUME RunInv, Leave
  PROVE  RunInv'
<1>1. /\ At("install") /\ Going /\ WriterInv /\ ShapeInv /\ UNCHANGED files
      /\ errors' = errors
  BY DEF Leave, RunInv
<1>2. PICK t \in Target : t = Turn
  BY <1>1, TurnFacts DEF RunInv, WriterInv, At
<1>3. /\ writer.at >= 1 /\ writer.at \in DOMAIN Order /\ Order[writer.at] = t
      /\ writer.at + 1 \in 0 .. Len(Order) + 1 /\ writer.at + 1 >= 1
  BY <1>1, <1>2, AtInstall
<1>4. /\ WriterInv' /\ writer'.pc = "install" /\ writer'.at = writer.at + 1
      /\ writer'.docs = writer.docs /\ \A u : Expected(u)' = Expected(u)
  BY <1>1, <1>3, GoesOn DEF Leave, Busy
<1>5. /\ ShapeInv' /\ TargetInv'
      /\ \A u : (Touched(u)' <=> Touched(u)) /\ (Started(u)' <=> Started(u))
  BY <1>1, <1>4, FilesStay DEF ShapeInv
<1>6. FencedInv'
  BY <1>1, <1>4, <1>5 DEF RunInv, FencedInv, files, At
<1>7. InstallInv'
  <2>. SUFFICES ASSUME NEW i \in DOMAIN Order, Order[i] \notin late, Started(Order[i])
                PROVE  IF i < writer.at + 1 THEN docs[Order[i]] = Expected(Order[i])
                       ELSE /\ staged[Order[i]].prepared = Expected(Order[i])
                            /\ ~ staged[Order[i]].installed
                            /\ staged[Order[i]].backedUp => i = writer.at + 1
    BY <1>1, <1>4, <1>5 DEF InstallInv, files, At
  <2>1. ~ Started(t)
    BY <1>2 DEF Leave
  <2>2. i # writer.at
    BY <1>3, <2>1
  <2>3. i \in Nat /\ writer.at \in Nat
    BY <1>3, OrderFacts
  <2>4. i < writer.at + 1 <=> i < writer.at
    BY <2>2, <2>3
  <2>5. IF i < writer.at THEN docs[Order[i]] = Expected(Order[i])
        ELSE /\ staged[Order[i]].prepared = Expected(Order[i])
             /\ ~ staged[Order[i]].installed
             /\ staged[Order[i]].backedUp => i = writer.at
    BY <1>1 DEF RunInv, InstallInv
  <2>. QED
    BY <2>2, <2>4, <2>5
<1>8. StageInv' /\ CleanInv' /\ RecoverInv'
  BY <1>4 DEF StageInv, CleanInv, RecoverInv, At
<1>. QED
  BY <1>4, <1>5, <1>6, <1>7, <1>8 DEF RunInv

\* At the end of the loop every target shows what is expected.
LEMMA InstalledStep ==
  ASSUME RunInv, Installed
  PROVE  RunInv'
<1>1. /\ At("install") /\ ~ Going /\ WriterInv /\ ShapeInv /\ UNCHANGED files
      /\ errors' = FALSE
  BY DEF Installed, RunInv
<1>2. /\ WriterInv' /\ writer'.pc = "cleanup" /\ writer'.at = 1
      /\ writer'.docs = writer.docs /\ \A u : Expected(u)' = Expected(u)
  <2>1. "cleanup" \in Busy \cup Over /\ 1 \in 0 .. Len(Order) + 1
    BY OrderFacts DEF Busy
  <2>. QED
    BY <1>1, <2>1, GoesOn DEF Installed
<1>3. /\ ShapeInv' /\ TargetInv'
      /\ \A u : (Touched(u)' <=> Touched(u)) /\ (Started(u)' <=> Started(u))
  BY <1>1, <1>2, FilesStay
<1>4. FencedInv'
  BY <1>1, <1>2, <1>3 DEF RunInv, FencedInv, files, At
<1>5. \A t \in Target \ late : docs[t] = Expected(t)
  <2>. SUFFICES ASSUME NEW t \in Target, t \notin late PROVE docs[t] = Expected(t)
    OBVIOUS
  <2>1. PICK i \in DOMAIN Order : t = Order[i]
    BY OrderFacts
  <2>2. i < writer.at
    BY <1>1, OrderFacts DEF Going, WriterInv
  <2>3. CASE Started(t)
    BY <1>1, <2>1, <2>2, <2>3 DEF RunInv, InstallInv
  <2>4. CASE ~ Started(t)
    <3>1. Expected(t) = writer.docs[t] /\ authored[t] = writer.docs[t]
      BY <1>1, <2>4 DEF RunInv, FencedInv, At
    <3>2. docs[t] = authored[t]
      BY <2>4 DEF RunInv, TargetInv, Touched
    <3>. QED
      BY <3>1, <3>2
  <2>. QED
    BY <2>3, <2>4
<1>6. CleanInv'
  <2>1. Gone(1)'
    BY OrderFacts DEF Gone
  <2>2. Gone(writer.at)'
    BY <1>2, <2>1
  <2>. QED
    BY <1>1, <1>2, <1>5, <2>2 DEF CleanInv, files
<1>7. StageInv' /\ InstallInv' /\ RecoverInv'
  BY <1>2 DEF StageInv, InstallInv, RecoverInv, At
<1>. QED
  BY <1>2, <1>3, <1>4, <1>6, <1>7 DEF RunInv

\* The directories go, in the cleanup and after the recovery.
LEMMA SweepStep ==
  ASSUME RunInv, NEW pc \in {"cleanup", "resweep"}, Sweep(pc)
  PROVE  RunInv'
<1>1. /\ At(pc) /\ Going /\ WriterInv /\ ShapeInv /\ writer.at >= 1
      /\ docs' = docs /\ authored' = authored /\ late' = late
      /\ errors' \in BOOLEAN
  BY DEF Sweep, RunInv, WriterInv, ShapeInv, At
<1>2. PICK t \in Target : t = Turn
  BY <1>1, TurnFacts
<1>3. /\ writer.at \in DOMAIN Order /\ Order[writer.at] = t
      /\ writer.at \in 1 .. Len(Order) /\ Len(Order) \in Nat
      /\ \A i \in DOMAIN Order : Order[i] = t => i = writer.at
  BY <1>1, <1>2, TurnFacts, OrderFacts DEF Turn
<1>4. /\ WriterInv' /\ writer'.pc = pc /\ writer'.at = writer.at + 1
      /\ writer'.docs = writer.docs /\ \A u : Expected(u)' = Expected(u)
  <2>1. pc \in Busy \cup Over /\ writer.at + 1 \in 0 .. Len(Order) + 1 /\ writer.at + 1 >= 1
    BY <1>3 DEF Busy
  <2>. QED
    BY <1>1, <2>1, GoesOn DEF Sweep
\* What becomes of the directory.
<1>5. /\ staged' \in [Target -> Entries \cup {None}]
      /\ \A u \in Target : staged'[u] \in Entry(u) \cup {None}
      /\ \A u \in Target : u # t => staged'[u] = staged[u]
      /\ ~ Started(t) => staged'[t] = None
      /\ Started(t) => /\ staged'[t] # None
                       /\ staged'[t].backedUp = staged[t].backedUp
                       /\ staged'[t].installed = staged[t].installed
                       /\ staged'[t].backup \in {None, staged[t].backup}
                       /\ errors' \/ (errors' = errors /\ ~ staged'[t].there)
  <2> DEFINE bare == Emptied(staged[t])
             swept == [bare EXCEPT !.there = FALSE]
  <2>1. staged[t] \in Entry(t) \cup {None} /\ staged \in [Target -> Entries \cup {None}]
    BY <1>1 DEF ShapeInv
  <2>2. ASSUME Started(t)
        PROVE  /\ bare \in Entry(t) /\ bare.backup = None
               /\ bare.backedUp = staged[t].backedUp
               /\ bare.installed = staged[t].installed
               /\ swept \in Entry(t) /\ swept.backup = None /\ swept.there = FALSE
               /\ swept.backedUp = staged[t].backedUp
               /\ swept.installed = staged[t].installed
               /\ bare # None /\ swept # None
    <3>1. staged[t] \in Entry(t)
      BY <2>1, <2>2 DEF Started
    <3>2. /\ bare \in Entry(t) /\ bare.backup = None
          /\ bare.backedUp = staged[t].backedUp
          /\ bare.installed = staged[t].installed
      BY <3>1 DEF Emptied, Entry
    <3>3. /\ swept \in Entry(t) /\ swept.backup = None /\ swept.there = FALSE
          /\ swept.backedUp = bare.backedUp
          /\ swept.installed = bare.installed
      <4>. HIDE DEF bare
      <4>. QED
        BY <3>2 DEF Entry
    <3>4. bare # None /\ swept # None
      <4>. HIDE DEF bare, swept
      <4>. QED
        BY <3>2, <3>3, NotNone
    <3>. HIDE DEF bare, swept
    <3>. QED
      BY <3>2, <3>3, <3>4
  <2>3. CASE /\ Started(t) /\ errors' = errors
             /\ staged' = [staged EXCEPT ![t] = swept]
    <3>. HIDE DEF bare, swept
    <3>. QED
      BY <1>1, <2>2, <2>3, StagedAt
  <2>4. CASE /\ Started(t) /\ errors' = TRUE
             /\ staged' = [staged EXCEPT ![t] = bare]
    <3>. HIDE DEF bare, swept
    <3>. QED
      BY <1>1, <2>2, <2>4, StagedAt
  <2>5. CASE Started(t) /\ errors' = TRUE /\ staged' = staged
    BY <1>1, <2>1, <2>5 DEF ShapeInv, Started
  <2>6. CASE /\ ~ Started(t) /\ errors' = errors
             /\ staged' = [staged EXCEPT ![t] = None]
    BY <1>1, <2>1, <2>6 DEF ShapeInv, Started
  <2>7. \/ /\ staged' = [staged EXCEPT ![t] = IF Started(t) THEN swept ELSE None]
           /\ errors' = errors
        \/ /\ Started(t) /\ errors' = TRUE
           /\ staged' \in {staged, [staged EXCEPT ![t] = bare]}
    <3>1. LET EmptiedAt == [staged EXCEPT ![t] = Emptied(@)]
          IN EmptiedAt = [staged EXCEPT ![t] = bare]
      OBVIOUS
    <3>2. [staged EXCEPT ![t] = IF Started(t) THEN [Emptied(@) EXCEPT !.there = FALSE] ELSE None]
            = [staged EXCEPT ![t] = IF Started(t) THEN swept ELSE None]
      OBVIOUS
    <3>. QED
      BY <1>2, <3>1, <3>2 DEF Sweep
  <2>8. CASE /\ staged' = [staged EXCEPT ![t] = IF Started(t) THEN swept ELSE None]
             /\ errors' = errors
    <3>1. CASE Started(t)
      <4>1. (IF Started(t) THEN swept ELSE None) = swept
        BY <3>1
      <4>. QED
        BY <2>3, <2>8, <3>1, <4>1
    <3>2. CASE ~ Started(t)
      <4>1. (IF Started(t) THEN swept ELSE None) = None
        BY <3>2
      <4>. QED
        BY <2>6, <2>8, <3>2, <4>1
    <3>. QED
      BY <3>1, <3>2
  <2>. QED
    BY <2>4, <2>5, <2>7, <2>8
<1>6. \A u \in Target : (Touched(u)' <=> Touched(u)) /\ (Started(u)' <=> Started(u))
  BY <1>5 DEF Touched, Started
<1>7. ShapeInv'
  BY <1>1, <1>5 DEF ShapeInv
<1>8. \A u \in Target \ late : docs[u] \in {authored[u], Expected(u)}
  BY <1>1 DEF RunInv, CleanInv, RecoverInv, At
<1>9. TargetInv'
  <2>. SUFFICES ASSUME NEW u \in Target, u \notin late
                PROVE  /\ ~ Touched(u) => /\ docs[u] = authored[u]
                                          /\ Started(u) => staged'[u].backup = None
                       /\ Touched(u) => /\ authored[u] = writer.docs[u]
                                        /\ staged'[u].backup \in {None, authored[u]}
    BY <1>1, <1>4, <1>6, <1>8 DEF TargetInv
  <2>1. CASE u = t
    BY <1>5, <2>1 DEF RunInv, TargetInv, Touched
  <2>2. CASE u # t
    BY <1>5, <2>2 DEF RunInv, TargetInv
  <2>. QED
    BY <2>1, <2>2
<1>10. FencedInv'
  BY <1>1, <1>4, <1>6 DEF RunInv, FencedInv, At
<1>11. PICK n : n = writer.at + 1
  OBVIOUS
<1>12. ASSUME ~ errors', NEW i \in DOMAIN Order, i < n, Started(Order[i])
       PROVE  ~ staged'[Order[i]].there
  <2>1. i \in Nat /\ writer.at \in Nat /\ (i = writer.at \/ i < writer.at)
    BY <1>3, <1>11, <1>12, OrderFacts
  <2>2. CASE i = writer.at
    BY <1>3, <1>5, <1>12, <2>2
  <2>3. CASE i < writer.at
    <3>1. Order[i] # t /\ Order[i] \in Target
      BY <1>3, <2>1, <2>3, OrderFacts
    <3>2. ~ errors
      <4>1. CASE Started(t)
        BY <1>5, <1>12, <4>1
      <4>2. CASE ~ Started(t)
        BY <1>2, <1>12, <4>2 DEF Sweep
      <4>. QED
        BY <4>1, <4>2
    <3>3. Gone(writer.at)
      BY <1>1, <3>2 DEF RunInv, CleanInv, At
    <3>4. ~ staged[Order[i]].there
      BY <1>12, <2>3, <3>3 DEF Gone
    <3>. QED
      BY <1>5, <3>1, <3>4
  <2>. QED
    BY <2>1, <2>2, <2>3
<1>13. CleanInv'
  <2>1. ~ errors' => \A i \in DOMAIN Order :
          i < writer'.at /\ Started(Order[i])' => ~ staged'[Order[i]].there
    BY <1>4, <1>6, <1>11, <1>12, OrderFacts
  <2>2. ~ errors' => Gone(writer.at)'
    BY <2>1 DEF Gone
  <2>3. pc = "cleanup" => \A u \in Target \ late : docs[u] = Expected(u)
    BY <1>1 DEF RunInv, CleanInv, At
  <2>. QED
    BY <1>1, <1>4, <2>2, <2>3 DEF CleanInv
<1>14. RecoverInv'
  BY <1>1, <1>4 DEF RunInv, RecoverInv, At
<1>15. StageInv' /\ InstallInv'
  BY <1>4 DEF StageInv, InstallInv, At
<1>. QED
  BY <1>4, <1>7, <1>9, <1>10, <1>13, <1>14, <1>15 DEF RunInv

\* Without an error nothing is left beside the targets.
LEMMA SweptStep ==
  ASSUME RunInv, Swept
  PROVE  RunInv'
<1>1. /\ At("cleanup") /\ ~ Going /\ WriterInv /\ ShapeInv /\ UNCHANGED files
  BY DEF Swept, RunInv
<1>2. "ok" \in Busy \cup Over /\ 0 \in 0 .. Len(Order) + 1
      /\ "recover" \in Busy \cup Over /\ Len(Order) \in 0 .. Len(Order) + 1
  BY OrderFacts DEF Busy, Over
<1>3. CASE errors /\ Throw
  <2>1. /\ writer'.docs = writer.docs /\ \A t : Expected(t)' = Expected(t)
        /\ errors' \in BOOLEAN
    BY <1>1, <1>2, <1>3, GoesOn DEF Throw
  <2>. QED
    BY <1>1, <1>3, <2>1, FilesStay, Thrown
<1>4. CASE ~ errors /\ Goto("ok", 0) /\ UNCHANGED errors
  <2>1. /\ WriterInv' /\ writer'.pc = "ok"
        /\ writer'.docs = writer.docs /\ \A t : Expected(t)' = Expected(t)
    BY <1>1, <1>2, <1>4, GoesOn
  <2>2. /\ ShapeInv' /\ TargetInv'
        /\ \A t : (Touched(t)' <=> Touched(t)) /\ (Started(t)' <=> Started(t))
    BY <1>1, <1>4, <2>1, FilesStay DEF ShapeInv
  <2>3. FencedInv'
    BY <1>1, <2>1, <2>2 DEF RunInv, FencedInv, files, At
  <2>4. CleanInv'
    <3>1. ASSUME NEW t \in Target, Started(t) PROVE ~ staged[t].there
      <4>1. PICK i \in DOMAIN Order : t = Order[i]
        BY OrderFacts
      <4>2. i < writer.at
        BY <1>1, OrderFacts DEF Going, WriterInv
      <4>. QED
        BY <1>1, <1>4, <3>1, <4>1, <4>2 DEF RunInv, CleanInv, Gone, At
    <3>2. \A t \in Target \ late : docs[t] = Expected(t)
      BY <1>1 DEF RunInv, CleanInv, At
    <3>. QED
      BY <1>1, <2>1, <2>2, <3>1, <3>2 DEF CleanInv, NothingStaged, files
  <2>5. StageInv' /\ InstallInv' /\ RecoverInv'
    BY <2>1 DEF StageInv, InstallInv, RecoverInv, At
  <2>. QED
    BY <2>1, <2>2, <2>3, <2>4, <2>5 DEF RunInv
<1>. QED
  BY <1>3, <1>4 DEF Swept

\* The loop back: what was touched gets the author's bytes, from the backup or from memory.
LEMMA RecoverStep ==
  ASSUME RunInv, Recover
  PROVE  RunInv'
<1>1. /\ At("recover") /\ writer.at > 0 /\ WriterInv /\ ShapeInv
      /\ authored' = authored /\ late' = late
  BY DEF Recover, RunInv
<1>2. /\ writer.at \in 1 .. Len(Order) /\ Len(Order) \in Nat /\ DOMAIN Order = 1 .. Len(Order)
      /\ Turn \in Target
  BY <1>1, OrderFacts DEF RunInv, RecoverInv, Turn
<1>3. PICK t \in Target : t = Turn
  BY <1>2
<1>4. PICK n : n = writer.at - 1
  OBVIOUS
<1>5. n \in 0 .. Len(Order) /\ n \in 0 .. Len(Order) + 1 /\ "recover" \in Busy \cup Over
  BY <1>2, <1>4 DEF Busy
<1>6. /\ WriterInv' /\ writer'.pc = "recover" /\ writer'.at = n
      /\ writer'.docs = writer.docs /\ \A u : Expected(u)' = Expected(u)
  <2>1. Goto("recover", n)
    BY <1>4 DEF Recover
  <2>. QED
    BY <1>1, <1>5, <2>1, GoesOn
\* What becomes of the target and of its directory.
<1>7. /\ ShapeInv'
      /\ \A u \in Target : u # t => docs'[u] = docs[u] /\ staged'[u] = staged[u]
      /\ (Touched(t)' <=> Touched(t)) /\ (Started(t)' <=> Started(t))
      /\ \/ docs'[t] = docs[t] /\ staged'[t] = staged[t] /\ (~ Touched(t) \/ errors')
         \/ Touched(t) /\ docs'[t] = Original(t) /\ staged'[t].backup = None
      /\ errors' \in BOOLEAN /\ (errors => errors')
  <2>1. CASE UNCHANGED <<docs, staged>> /\ (~ Touched(t) \/ errors') /\ errors' \in {errors, TRUE}
    <3>1. errors' \in BOOLEAN /\ (errors => errors')
      <4>1. CASE errors' = errors
        BY <1>1, <4>1 DEF ShapeInv
      <4>2. CASE errors' = TRUE
        BY <4>2
      <4>. QED
        BY <2>1, <4>1, <4>2
    <3>2. ShapeInv'
      BY <1>1, <2>1, <3>1 DEF ShapeInv
    <3>3. (Touched(t)' <=> Touched(t)) /\ (Started(t)' <=> Started(t))
      BY <2>1 DEF Touched, Started
    <3>. QED
      BY <2>1, <3>1, <3>2, <3>3
  <2>2. CASE /\ Touched(t)
             /\ docs' = [docs EXCEPT ![t] = Original(t)]
             /\ staged' = [staged EXCEPT ![t].backup = None]
             /\ errors' = errors
    <3> DEFINE e == [staged[t] EXCEPT !.backup = None]
    <3>1. Started(t) /\ staged[t] \in Entry(t)
      BY <1>1, <2>2 DEF ShapeInv, Touched, Started
    <3>2. staged[t].backup \in Doc(t) /\ writer.docs[t] \in Doc(t)
      BY <1>1, <3>1 DEF Entry, Doc, WriterInv
    <3>3. Original(t) \in Doc(t)
      BY <3>2 DEF Original
    <3>4. /\ e \in Entry(t) /\ e.backup = None
          /\ e.backedUp = staged[t].backedUp /\ e.installed = staged[t].installed
      BY <3>1 DEF Entry
    <3>5. staged' = [staged EXCEPT ![t] = e]
      BY <2>2
    <3>6. e # None
      <4>. HIDE DEF e
      <4>. QED
        BY <3>4, NotNone
    <3>7. /\ staged' \in [Target -> Entries \cup {None}]
          /\ \A u \in Target : staged'[u] \in Entry(u) \cup {None}
          /\ staged'[t] = e
          /\ \A u \in Target : u # t => staged'[u] = staged[u]
      <4>. HIDE DEF e
      <4>. QED
        BY <1>1, <3>4, <3>5, StagedAt
    <3>8. /\ docs' \in [Target -> Docs] /\ \A u \in Target : docs'[u] \in Doc(u)
          /\ docs'[t] = Original(t)
          /\ \A u \in Target : u # t => docs'[u] = docs[u]
      <4>1. PICK d \in Doc(t) : d = Original(t)
        BY <3>3
      <4>2. docs' = [docs EXCEPT ![t] = d]
        BY <2>2, <4>1
      <4>. QED
        BY <1>1, <4>1, <4>2, DocsAt
    <3>9. ShapeInv'
      BY <1>1, <2>2, <3>7, <3>8 DEF ShapeInv
    <3>10. /\ staged'[t] # None /\ staged'[t].backup = None
           /\ staged'[t].backedUp = staged[t].backedUp
           /\ staged'[t].installed = staged[t].installed
      <4>. HIDE DEF e
      <4>. QED
        BY <3>4, <3>6, <3>7
    <3>11. (Touched(t)' <=> Touched(t)) /\ (Started(t)' <=> Started(t))
      BY <3>1, <3>10 DEF Touched, Started
    <3>. QED
      BY <1>1, <2>2, <3>7, <3>8, <3>9, <3>10, <3>11 DEF ShapeInv
  <2>. QED
    BY <1>3, <2>1, <2>2 DEF Recover
<1>8. \A u \in Target : (Touched(u)' <=> Touched(u)) /\ (Started(u)' <=> Started(u))
  BY <1>7 DEF Touched, Started
\* What is put back is what the author wrote.
<1>9. ASSUME t \notin late, Touched(t)
      PROVE  Original(t) = authored[t] /\ authored[t] = writer.docs[t]
  BY <1>9 DEF RunInv, TargetInv, Original
<1>10. TargetInv'
  <2>. SUFFICES ASSUME NEW u \in Target, u \notin late
                PROVE  /\ ~ Touched(u) => /\ docs'[u] = authored[u]
                                          /\ Started(u) => staged'[u].backup = None
                       /\ Touched(u) => /\ authored[u] = writer.docs[u]
                                        /\ staged'[u].backup \in {None, authored[u]}
                                        /\ \/ docs'[u] \in {authored[u], Expected(u)}
                                           \/ staged'[u].backup = authored[u]
    BY <1>1, <1>6, <1>8 DEF TargetInv
  <2>1. CASE docs'[u] = docs[u] /\ staged'[u] = staged[u]
    BY <2>1 DEF RunInv, TargetInv
  <2>2. CASE u = t /\ Touched(t) /\ docs'[t] = Original(t) /\ staged'[t].backup = None
    BY <1>9, <2>2
  <2>. QED
    BY <1>7, <2>1, <2>2
<1>11. RecoverInv'
  <2>1. ASSUME ~ errors', NEW i \in DOMAIN Order, i > n, Order[i] \notin late
        PROVE  docs'[Order[i]] = authored[Order[i]]
    <3>1. PICK u \in Target : u = Order[i]
      BY OrderFacts
    <3>2. ~ errors
      BY <1>7, <2>1
    <3>3. i \in Nat /\ (i = writer.at \/ i > writer.at)
      BY <1>2, <1>4, <2>1
    <3>4. CASE i = writer.at
      <4>1. u = t
        BY <1>3, <3>1, <3>4 DEF Turn
      <4>2. ~ Touched(t) => docs[t] = authored[t]
        BY <2>1, <3>1, <4>1 DEF RunInv, TargetInv
      <4>. QED
        BY <1>7, <1>9, <2>1, <3>1, <4>1, <4>2
    <3>5. CASE i > writer.at
      <4>1. docs[u] = authored[u]
        BY <1>1, <2>1, <3>1, <3>2, <3>5 DEF RunInv, RecoverInv
      <4>2. u # t
        <5>1. writer.at \in DOMAIN Order /\ Order[writer.at] = t /\ writer.at \in Nat
          BY <1>2, <1>3 DEF Turn
        <5>. QED
          BY <3>1, <3>3, <3>5, <5>1, ProjectionsAssumption
      <4>. QED
        BY <1>7, <3>1, <4>1, <4>2
    <3>. QED
      BY <3>3, <3>4, <3>5
  <2>. QED
    BY <1>1, <1>5, <1>6, <2>1 DEF RecoverInv, At
<1>12. StageInv' /\ FencedInv' /\ InstallInv' /\ CleanInv'
  BY <1>6 DEF StageInv, FencedInv, InstallInv, CleanInv, At
<1>. QED
  BY <1>6, <1>7, <1>10, <1>11, <1>12 DEF RunInv

\* Without an error every target is what its author wrote.
LEMMA RecoveredStep ==
  ASSUME RunInv, Recovered
  PROVE  RunInv'
<1>1. /\ At("recover") /\ writer.at = 0 /\ WriterInv /\ ShapeInv /\ UNCHANGED files
      /\ errors' = errors
  BY DEF Recovered, RunInv
<1>2. "failed" \in Busy \cup Over /\ 0 \in 0 .. Len(Order) + 1
      /\ "resweep" \in Busy \cup Over /\ 1 \in 0 .. Len(Order) + 1
  BY OrderFacts DEF Busy, Over
<1>3. /\ WriterInv' /\ writer'.pc \in {"failed", "resweep"}
      /\ errors => writer'.pc = "failed"
      /\ ~ errors => writer'.pc = "resweep" /\ writer'.at = 1
      /\ writer'.docs = writer.docs /\ \A t : Expected(t)' = Expected(t)
  <2>1. CASE errors /\ Goto("failed", 0)
    BY <1>1, <1>2, <2>1, GoesOn
  <2>2. CASE ~ errors /\ Goto("resweep", 1)
    BY <1>1, <1>2, <2>2, GoesOn
  <2>. QED
    BY <2>1, <2>2 DEF Recovered
<1>4. /\ ShapeInv' /\ TargetInv'
      /\ \A t : (Touched(t)' <=> Touched(t)) /\ (Started(t)' <=> Started(t))
  BY <1>1, <1>3, FilesStay DEF ShapeInv
<1>5. ~ errors => \A t \in Target \ late : docs[t] = authored[t]
  <2>. SUFFICES ASSUME ~ errors, NEW t \in Target, t \notin late PROVE docs[t] = authored[t]
    OBVIOUS
  <2>1. PICK i \in DOMAIN Order : t = Order[i]
    BY OrderFacts
  <2>2. i > writer.at
    BY <1>1, OrderFacts
  <2>. QED
    BY <1>1, <2>1, <2>2 DEF RunInv, RecoverInv
<1>6. RecoverInv'
  BY <1>1, <1>3, <1>5 DEF RecoverInv, files, At
<1>7. CleanInv'
  <2>1. Gone(1)'
    BY OrderFacts DEF Gone
  <2>. QED
    BY <1>1, <1>3, <2>1 DEF CleanInv, Gone
<1>8. StageInv' /\ FencedInv' /\ InstallInv'
  BY <1>3 DEF StageInv, FencedInv, InstallInv, At
<1>. QED
  BY <1>3, <1>4, <1>6, <1>7, <1>8 DEF RunInv

\* And nothing is left beside it.
LEMMA ResweptStep ==
  ASSUME RunInv, Reswept
  PROVE  RunInv'
<1>1. /\ At("resweep") /\ ~ Going /\ WriterInv /\ ShapeInv /\ UNCHANGED files
      /\ errors' = errors
  BY DEF Reswept, RunInv
<1>2. "failed" \in Busy \cup Over /\ 0 \in 0 .. Len(Order) + 1
      /\ "refused" \in Busy \cup Over
  BY OrderFacts DEF Busy, Over
<1>3. /\ WriterInv' /\ writer'.pc \in {"failed", "refused"}
      /\ errors => writer'.pc = "failed"
      /\ writer'.docs = writer.docs /\ \A t : Expected(t)' = Expected(t)
  <2>1. CASE errors /\ Goto("failed", 0)
    BY <1>1, <1>2, <2>1, GoesOn
  <2>2. CASE ~ errors /\ Goto("refused", 0)
    BY <1>1, <1>2, <2>2, GoesOn
  <2>. QED
    BY <2>1, <2>2 DEF Reswept
<1>4. /\ ShapeInv' /\ TargetInv'
      /\ \A t : (Touched(t)' <=> Touched(t)) /\ (Started(t)' <=> Started(t))
  BY <1>1, <1>3, FilesStay DEF ShapeInv
<1>5. ~ errors => NothingStaged
  <2>. SUFFICES ASSUME ~ errors, NEW t \in Target, Started(t) PROVE ~ staged[t].there
    BY DEF NothingStaged
  <2>1. PICK i \in DOMAIN Order : t = Order[i]
    BY OrderFacts
  <2>2. i < writer.at
    BY <1>1, OrderFacts DEF Going, WriterInv
  <2>. QED
    BY <1>1, <2>1, <2>2 DEF RunInv, CleanInv, Gone, At
<1>6. CleanInv'
  BY <1>1, <1>3, <1>4, <1>5 DEF CleanInv, NothingStaged, files
<1>7. RecoverInv'
  <2>1. \A t \in Target \ late : docs[t] = authored[t]
    BY <1>1 DEF RunInv, RecoverInv, At
  <2>. QED
    BY <1>1, <1>3, <2>1 DEF RecoverInv, files, At
<1>8. StageInv' /\ FencedInv' /\ InstallInv'
  BY <1>3 DEF StageInv, FencedInv, InstallInv, At
<1>. QED
  BY <1>3, <1>4, <1>6, <1>7, <1>8 DEF RunInv

\* Every step of the writer.
LEMMA WriteStep ==
  ASSUME RunInv, Write
  PROVE  RunInv'
BY StageStep, FenceStep, VerifyStep, BackupStep, PlaceStep, LeaveStep, InstalledStep,
   SweepStep, SweptStep, RecoverStep, RecoveredStep, ResweptStep DEF Write

\* The author's edit of a target: before the fence what was authored changes with it,
\* after it the target is left out.
LEMMA EditTargetStep ==
  ASSUME RunInv, Running, NEW t \in Target, EditTarget(t), UNCHANGED <<writer, errors>>
  PROVE  RunInv'
<1>1. /\ WriterInv /\ ShapeInv /\ staged' = staged /\ writer' = writer /\ errors' = errors
  BY DEF RunInv, EditTarget
<1>2. PICK doc \in Doc(t) : /\ docs' = [docs EXCEPT ![t] = doc]
                            /\ authored' = [authored EXCEPT ![t] = doc]
  BY DEF EditTarget, Doc
<1>3. late' = IF At("stage") THEN late ELSE late \cup {t}
  BY DEF EditTarget
<1>4. /\ docs' \in [Target -> Docs] /\ \A u \in Target : docs'[u] \in Doc(u)
      /\ docs'[t] = doc
      /\ \A u \in Target : u # t => docs'[u] = docs[u]
  BY <1>1, <1>2, DocsAt
<1>5. /\ authored' \in [Target -> Docs] /\ authored'[t] = doc
      /\ \A u \in Target : u # t => authored'[u] = authored[u]
  <2>1. doc \in Docs
    BY DEF Docs
  <2>. QED
    BY <1>1, <1>2, <2>1 DEF ShapeInv
<1>6. ShapeInv'
  BY <1>1, <1>3, <1>4, <1>5 DEF ShapeInv
<1>7. WriterInv' /\ \A u : Expected(u)' = Expected(u)
  BY <1>1 DEF WriterInv, Expected
<1>8. \A u : (Touched(u)' <=> Touched(u)) /\ (Started(u)' <=> Started(u))
  BY <1>1 DEF Touched, Started
<1>9. late \subseteq late' /\ (~ At("stage") => t \in late')
  BY <1>3
<1>10. TargetInv'
  <2>. SUFFICES ASSUME NEW u \in Target, u \notin late'
                PROVE  /\ ~ Touched(u) => /\ docs'[u] = authored'[u]
                                          /\ Started(u) => staged[u].backup = None
                       /\ Touched(u) => /\ authored'[u] = writer.docs[u]
                                        /\ staged[u].backup \in {None, authored'[u]}
                                        /\ \/ docs'[u] \in {authored'[u], Expected(u)}
                                           \/ staged[u].backup = authored'[u]
    BY <1>1, <1>7, <1>8 DEF TargetInv
  <2>1. CASE u = t
    <3>1. At("stage")
      BY <1>9, <2>1
    <3>2. ~ Touched(u) /\ u \notin late
      BY <1>9, <3>1 DEF RunInv, StageInv
    <3>. QED
      BY <1>4, <1>5, <2>1, <3>2 DEF RunInv, TargetInv
  <2>2. CASE u # t
    BY <1>4, <1>5, <1>9, <2>2 DEF RunInv, TargetInv
  <2>. QED
    BY <2>1, <2>2
<1>11. StageInv'
  BY <1>1, <1>3, <1>7, <1>8 DEF RunInv, StageInv, At
<1>12. ~ At("stage") => \A u \in Target \ late' :
         /\ u \in Target \ late /\ docs'[u] = docs[u] /\ authored'[u] = authored[u]
  BY <1>4, <1>5, <1>9
<1>13. FencedInv'
  BY <1>1, <1>7, <1>8, <1>12 DEF RunInv, FencedInv, At
<1>14. InstallInv'
  <2>1. ASSUME At("install"), NEW i \in DOMAIN Order, Order[i] \notin late'
        PROVE  Order[i] \notin late /\ docs'[Order[i]] = docs[Order[i]]
    BY <1>12, <2>1, OrderFacts DEF At
  <2>. QED
    BY <1>1, <1>7, <1>8, <2>1 DEF RunInv, InstallInv, At
<1>15. CleanInv'
  BY <1>1, <1>7, <1>8, <1>12 DEF RunInv, CleanInv, Gone, NothingStaged, At
<1>16. RecoverInv'
  <2>1. ASSUME At("recover"), NEW i \in DOMAIN Order, Order[i] \notin late'
        PROVE  /\ Order[i] \notin late /\ docs'[Order[i]] = docs[Order[i]]
               /\ authored'[Order[i]] = authored[Order[i]]
    BY <1>12, <2>1, OrderFacts DEF At
  <2>. QED
    BY <1>1, <1>12, <2>1 DEF RunInv, RecoverInv, At
<1>. QED
  BY <1>6, <1>7, <1>10, <1>11, <1>13, <1>14, <1>15, <1>16 DEF RunInv

\* An edit of what is staged: the verification or the exclusion answers for it.
LEMMA EditStagedStep ==
  ASSUME RunInv, Running, NEW t \in Target, EditStaged(t), UNCHANGED <<writer, errors>>
  PROVE  RunInv'
<1>1. /\ WriterInv /\ ShapeInv /\ docs' = docs /\ authored' = authored
      /\ writer' = writer /\ errors' = errors
      /\ Started(t) /\ staged[t] \in Entry(t)
  BY DEF RunInv, EditStaged, ShapeInv, Started
<1>2. PICK doc \in Content(t) : staged' = [staged EXCEPT ![t].prepared = doc]
  BY DEF EditStaged
<1>3. late' = IF At("install") THEN late \cup {t} ELSE late
  BY DEF EditStaged
<1> DEFINE e == [staged[t] EXCEPT !.prepared = doc]
<1>4. /\ e \in Entry(t) /\ e.backup = staged[t].backup /\ e.there = staged[t].there
      /\ e.backedUp = staged[t].backedUp /\ e.installed = staged[t].installed
  BY <1>1 DEF Entry
<1>5. /\ staged' \in [Target -> Entries \cup {None}]
      /\ \A u \in Target : staged'[u] \in Entry(u) \cup {None}
      /\ staged'[t] = e
      /\ \A u \in Target : u # t => staged'[u] = staged[u]
  <2>1. staged' = [staged EXCEPT ![t] = e]
    BY <1>2
  <2>. HIDE DEF e
  <2>. QED
    BY <1>1, <1>4, <2>1, StagedAt
<1>6. /\ staged'[t] # None /\ staged'[t].backup = staged[t].backup
      /\ staged'[t].there = staged[t].there
      /\ staged'[t].backedUp = staged[t].backedUp
      /\ staged'[t].installed = staged[t].installed
  <2>. HIDE DEF e
  <2>1. e # None
    BY <1>4, NotNone
  <2>. QED
    BY <1>4, <1>5, <2>1
<1>7. ShapeInv'
  BY <1>1, <1>3, <1>5 DEF ShapeInv
<1>8. WriterInv' /\ \A u : Expected(u)' = Expected(u)
  BY <1>1 DEF WriterInv, Expected
<1>9. \A u \in Target : /\ Touched(u)' <=> Touched(u)
                        /\ Started(u)' <=> Started(u)
                        /\ Started(u) => /\ staged'[u].backup = staged[u].backup
                                         /\ staged'[u].there = staged[u].there
  BY <1>1, <1>5, <1>6 DEF Touched, Started
<1>10. late \subseteq late' /\ (At("install") => t \in late') /\ (~ At("install") => late' = late)
  BY <1>3
<1>11. TargetInv'
  BY <1>1, <1>8, <1>9, <1>10 DEF RunInv, TargetInv, Touched
<1>12. StageInv' /\ FencedInv'
  <2>1. StageInv'
    BY <1>1, <1>8, <1>9, <1>10, OrderFacts DEF RunInv, StageInv, At
  <2>. QED
    BY <1>1, <1>8, <1>9, <1>10, <2>1 DEF RunInv, FencedInv, At
<1>13. InstallInv'
  <2>1. ASSUME At("install"), NEW i \in DOMAIN Order, Order[i] \notin late'
        PROVE  Order[i] \notin late /\ staged'[Order[i]] = staged[Order[i]]
    BY <1>5, <1>10, <2>1, OrderFacts
  <2>. QED
    BY <1>1, <1>8, <1>9, <2>1, OrderFacts DEF RunInv, InstallInv, At
<1>14. CleanInv' /\ RecoverInv'
  <2>1. ASSUME NEW n, Gone(n)
        PROVE  \A i \in DOMAIN Order : i < n /\ Started(Order[i])' => ~ staged'[Order[i]].there
    BY <1>9, <2>1, OrderFacts DEF Gone
  <2>2. ASSUME Gone(writer.at) PROVE Gone(writer.at)'
    BY <1>1, <2>1, <2>2 DEF Gone
  <2>3. NothingStaged => NothingStaged'
    BY <1>9 DEF NothingStaged
  <2>4. CleanInv'
    BY <1>1, <1>8, <1>10, <2>2, <2>3 DEF RunInv, CleanInv, At
  <2>. QED
    BY <1>1, <1>10, <2>4 DEF RunInv, RecoverInv, At
<1>. QED
  BY <1>7, <1>8, <1>11, <1>12, <1>13, <1>14 DEF RunInv

\* Steps that concern neither the files nor the writer.
LEMMA FilesOnly ==
  ASSUME RunInv, UNCHANGED <<files, writer, errors>>
  PROVE  RunInv'
BY DEF RunInv, files, ShapeInv, WriterInv, TargetInv, StageInv, FencedInv, InstallInv,
       CleanInv, RecoverInv, Gone, NothingStaged, Touched, Started, Expected, At

\* The writer starts: the facts it proved are facts, and nothing is staged.
LEMMA PrepareStep ==
  ASSUME staged = [t \in Target |-> None], late = {}, errors \in BOOLEAN, Prepare
  PROVE  RunInv'
<1>1. PICK base \in DOMAIN main, found \in [Target -> {None} \cup UNION {Content(t) : t \in Target}] :
        /\ \A t \in Target : found[t] \in Content(t) \cup {None}
        /\ Provable(base) /\ Renderable(found)
        /\ docs' = found /\ authored' = found
        /\ writer' = [pc |-> "stage", at |-> 1, tree |-> work.tree, docs |-> found,
                      facts |-> main[base].candidate["state"].facts]
  BY DEF Prepare
<1>2. staged' = staged /\ late' = {} /\ errors' = errors
  BY DEF Prepare
<1>3. main[base].candidate["state"].facts \in Facts
  BY <1>1 DEF Provable, Fresh, Readable, Unattested
<1>4. \A t \in Target : ~ Started(t)' /\ ~ Touched(t)'
  BY <1>2 DEF Started, Touched
<1>5. /\ writer'.pc = "stage" /\ writer'.at = 1 /\ writer'.docs = found
      /\ writer'.facts \in Facts
  BY <1>1, <1>3
<1>6. ShapeInv'
  <2>1. found \in [Target -> Docs] /\ \A t \in Target : found[t] \in Doc(t)
    BY <1>1 DEF Docs, Doc
  <2>. QED
    BY <1>1, <1>2, <2>1 DEF ShapeInv
<1>7. WriterInv'
  BY <1>1, <1>5, OrderFacts DEF WriterInv, Busy, Renderable, Doc
<1>8. TargetInv'
  BY <1>1, <1>2, <1>4 DEF TargetInv
<1>9. StageInv'
  BY <1>2, <1>4, <1>5, OrderFacts DEF StageInv
<1>10. FencedInv' /\ InstallInv' /\ CleanInv' /\ RecoverInv'
  BY <1>5 DEF FencedInv, InstallInv, CleanInv, RecoverInv, At
<1>. QED
  BY <1>6, <1>7, <1>8, <1>9, <1>10 DEF RunInv

\* The invariant is inductive.
LEMMA PrepareInvNext ==
  ASSUME PrepareInv, [PrepareNext]_<<main, work, pvars>>
  PROVE  PrepareInv'
<1>1. CASE At("idle")
  <2>1. staged = [t \in Target |-> None] /\ late = {} /\ errors \in BOOLEAN
    BY <1>1 DEF PrepareInv, ShapeInv
  <2>2. CASE UNCHANGED pvars
    BY <1>1, <2>2 DEF PrepareInv, ShapeInv, At, pvars
  <2>3. CASE Prepare
    BY <2>1, <2>3, PrepareStep, RunPrepareNext
  <2>4. ~ Write /\ ~ Meanwhile
    BY <1>1 DEF Write, Stage, Fence, Verify, Backup, Place, Leave, Installed, Sweep, Swept,
                Recover, Recovered, Reswept, Meanwhile, Running, At
  <2>. QED
    BY <2>2, <2>3, <2>4 DEF PrepareNext, pvars
<1>2. CASE ~ At("idle")
  <2>. USE RunPrepareNext
  <2>1. RunInv
    BY <1>2 DEF PrepareInv, RunInv
  <2>2. CASE UNCHANGED pvars
    BY <2>1, <2>2, FilesOnly DEF pvars, files
  <2>3. CASE Write
    BY <2>1, <2>3, WriteStep
  <2>4. CASE Meanwhile
    <3>1. Running /\ UNCHANGED <<writer, errors>>
      BY <2>4 DEF Meanwhile
    <3>2. \/ \E t \in Target : EditTarget(t) \/ EditStaged(t)
          \/ UNCHANGED files
      BY <2>4 DEF Meanwhile
    <3>. QED
      BY <2>1, <3>1, <3>2, EditTargetStep, EditStagedStep, FilesOnly
  <2>. QED
    BY <1>2, <2>2, <2>3, <2>4 DEF PrepareNext, Prepare, pvars
<1>. QED
  BY <1>1, <1>2

\* Before it starts nothing is there.
LEMMA PrepareInvInit ==
  PrepareInit => PrepareInv
<1>. SUFFICES ASSUME PrepareInit PROVE PrepareInv
  OBVIOUS
<1>1. /\ docs = [t \in Target |-> None] /\ authored = [t \in Target |-> None]
      /\ late = {} /\ writer = [pc |-> "idle"] /\ staged = [t \in Target |-> None]
      /\ errors = FALSE
  BY DEF PrepareInit
<1>2. \A t \in Target : None \in Docs /\ None \in Doc(t)
  BY DEF Doc, Docs
<1>3. docs \in [Target -> Docs] /\ \A t \in Target : docs[t] \in Doc(t)
  BY <1>1, <1>2
<1>4. authored \in [Target -> Docs]
  BY <1>1, <1>2
<1>5. ShapeInv
  BY <1>1, <1>3, <1>4 DEF ShapeInv
<1>. QED
  BY <1>1, <1>5 DEF PrepareInv, At

\* Under the fence, what is expected of a target is what it shows once published.
LEMMA PrepareInvEnds ==
  PrepareInv => PublishedOrRestored
<1>. SUFFICES ASSUME PrepareInv, ~ At("idle") PROVE PublishedOrRestored
  BY DEF PublishedOrRestored, At
<1>1. RunInv
  BY DEF PrepareInv, RunInv
<1>2. ASSUME NEW t \in Target, authored[t] = writer.docs[t], docs[t] = Expected(t)
      PROVE  Published(t)
  BY <1>2 DEF Published, Expected
<1>3. ASSUME NEW t \in Target, t \notin late
      PROVE  \/ docs[t] = authored[t] \/ Published(t)
             \/ Started(t) /\ staged[t].backup = authored[t]
  <2>1. CASE ~ Touched(t)
    BY <1>1, <1>3, <2>1 DEF RunInv, TargetInv
  <2>2. CASE Touched(t)
    BY <1>1, <1>2, <1>3, <2>2 DEF RunInv, TargetInv, Touched
  <2>. QED
    BY <2>1, <2>2
<1>4. At("ok") => NothingStaged /\ \A t \in Target \ late : Published(t)
  BY <1>1, <1>2 DEF RunInv, CleanInv, FencedInv, At
<1>5. At("refused") => NothingStaged /\ \A t \in Target \ late : docs[t] = authored[t]
  BY <1>1 DEF RunInv, CleanInv, RecoverInv, At
<1>. QED
  BY <1>3, <1>4, <1>5 DEF PublishedOrRestored

\* Whatever fails and whoever edits, the author's text is in the target or in its backup
\* at every step of the writer, under the new region when it answers ok, untouched when
\* it refuses (writePreparedProjections).
THEOREM TextIsNeverLost == PrepareSpec => []PublishedOrRestored
<1>1. PrepareInv /\ [PrepareNext]_<<main, work, pvars>> => PrepareInv'
  BY PrepareInvNext
<1>. QED
  BY <1>1, PrepareInvInit, PrepareInvEnds, PTL DEF PrepareSpec

=============================================================================
