-------------------------- MODULE RegistryHistory --------------------------
(***************************************************************************)
(* The governance registry as its repository evolves: revisions admitted one *)
(* by one by the check of two revisions (model/history.mjs, run by           *)
(* check-governance-history.mjs with the branch's tip as its explicit base). *)
(*                                                                           *)
(* The first revision holds what history had decided and delivered.  From    *)
(* there an author edits the registry and the files it binds, rightly or not: *)
(* a decision, its document, a node, an evidence file, a batch of new nodes.  *)
(* What is refused leaves nothing.                                           *)
(***************************************************************************)
EXTENDS Registry, Sequences

CONSTANTS Genesis,      \* the first revision
          RootOf,       \* the genesis node whose replacements a node is meant for
          MaxRevisions

\* A revision has a place for every name, and a gate has no prerequisites.
Shaped(rev) ==
    /\ DOMAIN rev = {"adrs", "docs", "nodes", "files"}
    /\ DOMAIN rev.adrs = Adr /\ DOMAIN rev.docs = Adr
    /\ DOMAIN rev.nodes = Node /\ DOMAIN rev.files = Landing
    /\ \A n \in Present(rev.nodes) \cap Gate : rev.nodes[n].requires = {}

ASSUME RegistryHistoryAssumption ==
    /\ Shaped(Genesis)
    /\ Evaluated(Genesis)
    /\ \A n \in Present(Genesis.nodes) : Genesis.nodes[n].replaces = Nil
    /\ RootOf \in [Node -> Present(Genesis.nodes)]
    /\ MaxRevisions \in Nat

VARIABLE revisions    \* the revisions of the governed branch, the first registry first

Newest == revisions[Len(revisions)]

\* MaxRevisions bounds the history.
Growing == Len(revisions) < MaxRevisions

\* checkGovernanceHistory on the tip and what an author proposes.
Admit(revision) ==
    /\ revision # Newest
    /\ Compared(Newest, revision)
    /\ Evaluated(revision)
    /\ revisions' = Append(revisions, revision)

(***************************************************************************)
(* Decisions.                                                                *)
(***************************************************************************)
Header(adr, text) ==
    [status |-> IF adr.life = "Superseded" THEN "Accepted" ELSE adr.life,
     resolves |-> adr.resolves, supersedes |-> adr.supersedes, text |-> text]

\* The tip with the record of a, and its document under the header that mirrors it.
WithAdr(a, adr, text) ==
    [Newest EXCEPT !.adrs[a] = adr, !.docs[a] = Header(adr, text)]

TextOf(a) == IF Newest.docs[a] = Nil THEN CHOOSE t \in Text : TRUE ELSE Newest.docs[a].text

Proposal(resolves, supersedes) ==
    [life |-> "Proposed", resolves |-> resolves, supersedes |-> supersedes, acceptance |-> Nil]

\* A decision is proposed, its proposal rewritten, or its record and document removed.
ProposalDrafts(a) ==
    {WithAdr(a, Proposal(resolves, supersedes), TextOf(a)) :
        resolves \in SUBSET Question, supersedes \in SUBSET (Adr \ {a})}
    \cup {[Newest EXCEPT !.adrs[a] = Nil, !.docs[a] = Nil]}

Propose(a) == Growing /\ \E revision \in ProposalDrafts(a) : Admit(revision)

\* Those a supersedes, marked so in the revision that accepts a.
Supersede(revision, a) ==
    [revision EXCEPT !.adrs = [b \in Adr |->
        IF b \in revision.adrs[a].supersedes \cap Present(revision.adrs)
        THEN [revision.adrs[b] EXCEPT !.life = "Superseded"] ELSE revision.adrs[b]]]

\* The draft of a decision: signed over revision on, or with the acceptance it had.
DecisionDraft(a, life, supersede, on, again) ==
    LET adr == [Newest.adrs[a] EXCEPT !.life = life]
        decided == WithAdr(a, adr, TextOf(a))
        target == IF supersede THEN Supersede(decided, a) ELSE decided
        pinned == [target EXCEPT !.adrs[a].acceptance = [content |-> target.docs[a]]]
        signed == [content |-> target.docs[a],
                   digest |-> Transition(revisions[on], pinned, a, life)]
    IN IF again \/ adr.acceptance = Nil
         THEN [target EXCEPT !.adrs[a].acceptance = signed] ELSE target

\* A decision is taken, on the tip or on what was the tip when it was drafted.
Decide(a) ==
    /\ Growing
    /\ Newest.adrs[a] # Nil
    /\ \E life \in {"Accepted", "Rejected"}, supersede \in BOOLEAN, on \in DOMAIN revisions,
         again \in BOOLEAN :
           Admit(DecisionDraft(a, life, supersede, on, again))

\* The text of a document is edited, with the digest that pins it or without.
Amend(a) ==
    /\ Growing
    /\ Newest.docs[a] # Nil
    /\ \E text \in Text, follow \in BOOLEAN :
           LET doc == [Newest.docs[a] EXCEPT !.text = text]
               edited == [Newest EXCEPT !.docs[a] = doc]
           IN Admit(IF follow /\ Newest.adrs[a].acceptance # Nil
                   THEN [edited EXCEPT !.adrs[a].acceptance.content = doc] ELSE edited)

(***************************************************************************)
(* Landings.                                                                 *)
(***************************************************************************)
\* How a landing may be drafted: moved in its lifecycle, with an envelope for what ends
\* it that may have been written when the landing was elsewhere, for another one, or as
\* if it were older than the registry.
DeliveryDrafts(n) ==
    LET node == Newest.nodes[n]
        Open == {"Planned", "InProgress"} IN
    {[node EXCEPT !.life = life, !.completion = Nil, !.withdrawal = Nil] : life \in Open}
    \cup {[node EXCEPT !.life = "Complete", !.withdrawal = Nil,
              !.completion = Envelope(m, from, Policy(n), IF file THEN Newest.files[m] ELSE Nil)] :
            m \in Present(Newest.nodes) \cap Landing, from \in Open \cup {"genesis"},
            file \in BOOLEAN}
    \cup {[node EXCEPT !.life = "Withdrawn", !.completion = Nil,
              !.withdrawal = Envelope(n, from, "withdrawal", Nil)] : from \in Open}

\* How any node may be: rid of what it requires, about another question, or removed.
NodeDrafts(n) ==
    {[Newest.nodes[n] EXCEPT !.requires = {}], Nil}
    \cup (IF n \in Landing THEN DeliveryDrafts(n)
          ELSE {[Newest.nodes[n] EXCEPT !.question = question] : question \in Question})

Deliver(n) ==
    /\ Growing
    /\ Newest.nodes[n] # Nil
    /\ \E node \in NodeDrafts(n) : Admit([Newest EXCEPT !.nodes[n] = node])

\* The file a landing's evidence names is edited.
Touch(n) ==
    /\ Growing
    /\ Newest.nodes[n] # Nil
    /\ \E bytes \in Text : Admit([Newest EXCEPT !.files[n] = bytes])

\* A node of its own lineage not used yet, to replace n.
Fresh(n) == {m \in Node : RootOf[m] = RootOf[n] /\ Kind(m) = Kind(n) /\ Newest.nodes[m] = Nil}

\* The node m in the place of n, or beside it; a gate may ask another question.
Replacement(n, m, requires, question, linked) ==
    LET node == [question |-> IF n \in Gate THEN question ELSE Nil, requires |-> requires,
                 replaces |-> IF linked THEN n ELSE Nil,
                 replacement |-> Nil, life |-> IF n \in Landing THEN "Planned" ELSE Nil,
                 completion |-> Nil, withdrawal |-> Nil]
    IN IF linked
         THEN [node EXCEPT !.replacement = <<Identity(n, Newest.nodes[n]), Identity(m, node)>>]
         ELSE node

\* Nodes are replaced in one batch, each by one of its lineage; what they require is
\* repointed to the batch or left as it was.  They may also be added beside the old ones.
Replace ==
    /\ Growing
    /\ \E S \in SUBSET Present(Newest.nodes) :
        /\ S # {}
        /\ \A n, m \in S : RootOf[n] = RootOf[m] => n = m
        /\ \A n \in S : Fresh(n) # {}
        /\ \E repoint, linked \in BOOLEAN, question \in Question :
           LET heir == [n \in S |-> CHOOSE m \in Fresh(n) : TRUE]
               Repointed(p) == IF repoint /\ p \in S THEN heir[p] ELSE p
               New(n) == Replacement(n, heir[n], {Repointed(p) : p \in Newest.nodes[n].requires},
                                      question, linked)
           IN Admit([Newest EXCEPT !.nodes = [m \in Node |->
                  IF \E n \in S : heir[n] = m THEN New(CHOOSE n \in S : heir[n] = m)
                  ELSE Newest.nodes[m]]])

RegistryInit == revisions = <<Genesis>>

RegistryNext ==
    \/ \E a \in Adr : Propose(a) \/ Decide(a) \/ Amend(a)
    \/ \E n \in Node : Deliver(n)
    \/ \E n \in Landing : Touch(n)
    \/ Replace

RegistrySpec == RegistryInit /\ [][RegistryNext]_revisions

(***************************************************************************)
(* Properties.                                                               *)
(***************************************************************************)
\* A decision a is taken into revision j, by a digest of this very step; into the first
\* come those that history had taken.
TakenAt(a, j) ==
    LET target == revisions[j] IN
    /\ target.adrs[a] # Nil /\ target.adrs[a].life # "Proposed"
    /\ j > 1 =>
         LET base == revisions[j - 1] IN
         /\ base.adrs[a] # Nil /\ base.adrs[a].life = "Proposed"
         /\ target.adrs[a].acceptance.digest = Transition(base, target, a, target.adrs[a].life)

\* What was decided of a in revision j is so in revision i: who accepted which bytes, the
\* bytes, and the outcome, which may have been superseded.
Upheld(a, i, j) ==
    LET was == revisions[j].adrs[a]
        is == revisions[i].adrs[a] IN
    /\ is.acceptance = was.acceptance
    /\ revisions[i].docs[a] = revisions[j].docs[a]
    /\ is.life \in {was.life} \cup (IF was.life = "Accepted" THEN {"Superseded"} ELSE {})

\* Every decision in the registry was there from the first or was taken once, on the very
\* revision its digest names, and stands as it was taken, whatever was drafted, stale or
\* amended since (validateAcceptance of each revision, compareDecisions of each two).
DecisionsStand ==
    \A i \in DOMAIN revisions : \A a \in Present(revisions[i].adrs) :
        revisions[i].adrs[a].life # "Proposed" =>
            \E j \in 1..i :
                TakenAt(a, j) /\ Upheld(a, i, j) /\ \A k \in 1..i : TakenAt(a, k) => k = j

\* A landing that is ready stays ready: its gates may be resolved by another decision
\* but never reopened, and what it requires stays complete with the evidence that
\* completed it (compareResolvers, compareDelivery, validateDelivery).
ReadyIsKept ==
    \A i \in DOMAIN revisions : LET ready == Ready(revisions[i]) IN
        \A j \in i..Len(revisions) :
            /\ ready \subseteq Ready(revisions[j])
            /\ \A n \in ready : \A p \in revisions[i].nodes[n].requires \cap Landing :
                 LET completion == revisions[i].nodes[p].completion IN
                 /\ revisions[j].nodes[p].completion = completion
                 /\ completion.bytes # Nil => revisions[j].files[p] = completion.bytes

\* Each node comes from one of genesis: a replacement from where what it replaces does.
\* One current node comes from each, and requires the current ones that come from what
\* that one required.
KeepsShape(nodes) ==
    LET Root == Present(Genesis.nodes) IN
    \E later \in [Present(nodes) \ Root -> Root] :
        LET origin == [n \in Present(nodes) |-> IF n \in Root THEN n ELSE later[n]] IN
        /\ \A n \in Present(nodes) \ Root : origin[n] = origin[nodes[n].replaces]
        /\ \A r \in Root : \E n \in Current(nodes) :
             origin[n] = r /\ \A m \in Current(nodes) : origin[m] = r => m = n
        /\ \A n \in Current(nodes) :
             nodes[n].requires =
                 {p \in Current(nodes) : origin[p] \in Genesis.nodes[origin[n]].requires}

\* However it is replaced, in parts, in batches and again, the program is the one of
\* genesis (deriveNodes of each revision, compareReplacement of each two).
ProgramKeepsShape == KeepsShape(Newest.nodes)

=============================================================================
