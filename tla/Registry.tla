------------------------------ MODULE Registry ------------------------------
(***************************************************************************)
(* The governance registry (scripts/governance/model): what the check of one *)
(* revision accepts, and what the check of two accepts between them.         *)
(*                                                                           *)
(* A revision is the registry with the files it binds: the decision documents *)
(* and the evidence of the landings.  A digest stands for the value it        *)
(* hashes, a document for its header and its text, an envelope for what its   *)
(* digest and attestation bind.  Anchors, actors, dates and spelling are      *)
(* left out.                                                                 *)
(***************************************************************************)
EXTENDS Integers, FiniteSets

CONSTANTS
    Adr,        \* identifiers of decisions
    Question,
    Gate, Landing,  \* identifiers of the two kinds of node
    Spike,      \* the landings whose kind is spike-landing
    Text,       \* texts of a document below its header; versions of an evidence file
    Nil

ASSUME RegistryAssumption ==
    /\ Gate \cap Landing = {} /\ Spike \subseteq Landing
    /\ IsFiniteSet(Gate \cup Landing)
    /\ Nil \notin Gate \cup Landing

Node == Gate \cup Landing
Kind(n) == IF n \in Gate THEN "gate" ELSE IF n \in Spike THEN "spike" ELSE "implementation"

Present(f) == {x \in DOMAIN f : f[x] # Nil}

(***************************************************************************)
(* Decisions.                                                                *)
(***************************************************************************)
\* verifyHeader: the document mirrors the record.
Mirrored(adr, doc) ==
    /\ doc # Nil
    /\ doc.status = IF adr.life = "Superseded" THEN "Accepted" ELSE adr.life
    /\ doc.resolves = adr.resolves /\ doc.supersedes = adr.supersedes

\* validateAcceptance: once it is decided, the record pins the document's bytes.
PinHolds(adr, doc) ==
    IF adr.life = "Proposed" THEN adr.acceptance = Nil
    ELSE adr.acceptance # Nil /\ adr.acceptance.content = doc

\* validateAdr.
ValidAdr(a, rev) == Mirrored(rev.adrs[a], rev.docs[a]) /\ PinHolds(rev.adrs[a], rev.docs[a])

\* validateAdrRelationships.
ValidRelationships(adrs) ==
    /\ \A a \in Present(adrs) :
         adrs[a].resolves \subseteq Question /\ adrs[a].supersedes \subseteq Present(adrs) \ {a}
    /\ \A a \in Present(adrs) : adrs[a].life = "Superseded" =>
         \E b \in Present(adrs) : adrs[b].life = "Accepted" /\ a \in adrs[b].supersedes
    /\ \A b \in Present(adrs) : adrs[b].life = "Accepted" =>
         \A a \in adrs[b].supersedes : adrs[a].life = "Superseded"

\* deriveQuestions: the accepted resolvers of a question.
Resolvers(adrs, q) == {a \in Present(adrs) : adrs[a].life = "Accepted" /\ q \in adrs[a].resolves}

Resolved(adrs, q) == Resolvers(adrs, q) # {}

OneResolver(adrs) == \A q \in Question : Cardinality(Resolvers(adrs, q)) <= 1

(***************************************************************************)
(* Deliveries.                                                               *)
(***************************************************************************)
\* expectedPolicy.
Policy(n) == IF Kind(n) = "spike" THEN "reviewed-spike-evidence" ELSE "reviewed-delivery"

\* completionPreimage and withdrawalPreimage: what an envelope's digest binds.
Envelope(n, from, policy, bytes) ==
    [landing |-> n, from |-> from, policy |-> policy, bytes |-> bytes]

\* verifyContent: a file that is named has the bytes that are named.  A delivery may name
\* commits only, what a spike found is always a file (requireEvidenceContentIdentity).
ContentHolds(n, evidence, rev) ==
    \/ evidence.bytes = Nil /\ Kind(n) # "spike"
    \/ evidence.bytes = rev.files[n]

\* validateEvidence: the landing's policy, which the evidence mirrors, says what is proven.
Evidenced(n, evidence, rev) == evidence.policy = Policy(n) /\ ContentHolds(n, evidence, rev)

\* A completion from "genesis" is the historical one: its evidence is held to the same
\* policy (validateHistoricalCompletion).
ValidCompletion(n, completion, rev) ==
    /\ completion # Nil
    /\ completion.from \in {"Planned", "InProgress", "genesis"}
    /\ Evidenced(n, completion, rev)
    /\ completion = Envelope(n, completion.from, completion.policy, completion.bytes)

ValidWithdrawal(n, withdrawal) ==
    /\ withdrawal # Nil
    /\ withdrawal.from \in {"Planned", "InProgress"}
    /\ withdrawal = Envelope(n, withdrawal.from, "withdrawal", Nil)

\* validateDelivery.
ValidDelivery(n, rev) ==
    LET node == rev.nodes[n] IN
    CASE node.life \in {"Planned", "InProgress"} -> node.completion = Nil /\ node.withdrawal = Nil
      [] node.life = "Complete" -> node.withdrawal = Nil /\ ValidCompletion(n, node.completion, rev)
      [] node.life = "Withdrawn" -> node.completion = Nil /\ ValidWithdrawal(n, node.withdrawal)

(***************************************************************************)
(* The graph of gates and landings.                                          *)
(***************************************************************************)
\* semanticIdentity: the rule inputs of a node, immutable but for its replacement.
Identity(n, node) ==
    [id |-> n, kind |-> Kind(n), question |-> node.question, requires |-> node.requires]

Replaced(nodes) == {nodes[n].replaces : n \in Present(nodes)} \ {Nil}
Current(nodes) == Present(nodes) \ Replaced(nodes)

\* The node that replaces n directly, or n itself.
Heir(nodes, n) ==
    IF n \in Replaced(nodes) THEN CHOOSE m \in Present(nodes) : nodes[m].replaces = n ELSE n

\* What is left of S when the nodes with no edge into what is left are taken out,
\* as often as there are nodes: the cycles, and what leads to them.
Cyclic(S, edges) ==
    LET left[k \in 0..Cardinality(Node)] ==
          IF k = 0 THEN S ELSE {n \in left[k - 1] : edges[n] \cap left[k - 1] # {}}
    IN left[Cardinality(Node)]

\* deriveNodes: a replacement names one existing node of its kind, which no other
\* node names, and its digest binds both identities.
ValidReplacements(nodes) ==
    /\ \A n \in Present(nodes) :
         LET old == nodes[n].replaces IN
         /\ (old = Nil) = (nodes[n].replacement = Nil)
         /\ old # Nil =>
              /\ old \in Present(nodes)
              /\ Kind(old) = Kind(n)
              /\ nodes[n].replacement = <<Identity(old, nodes[old]), Identity(n, nodes[n])>>
              /\ \A m \in Present(nodes) : nodes[m].replaces = old => m = n
    /\ Cyclic(Present(nodes), [n \in Present(nodes) |-> {nodes[n].replaces}]) = {}

\* deriveNodes: what is required exists, and nothing requires itself.
ValidPrerequisites(nodes) ==
    /\ \A n \in Present(nodes) : nodes[n].requires \subseteq Present(nodes)
    /\ Cyclic(Present(nodes), [n \in Present(nodes) |-> nodes[n].requires]) = {}

\* Mutant of DependentsFollow: what requires a replaced node may stay.
DependentsStay(nodes) == TRUE

\* deriveNodes: what is current requires what is current, so that a replacement
\* takes every dependent with it.
DependentsFollow(nodes) == \A n \in Current(nodes) : nodes[n].requires \subseteq Current(nodes)

\* deriveNodes: a replacement landing requires what the old one did, by its heirs.
KeepsPrerequisites(nodes) ==
    \A n \in Present(nodes) \cap Landing :
        nodes[n].replaces # Nil =>
            nodes[n].requires = {Heir(nodes, p) : p \in nodes[nodes[n].replaces].requires}

\* deriveNodes: in every revision, not only the first, a replacement is Planned.
StartsPlanned(nodes) ==
    \A n \in Present(nodes) \cap Landing : nodes[n].replaces # Nil => nodes[n].life = "Planned"

\* deriveGates, deriveReadiness.
Satisfied(rev) ==
    {n \in Present(rev.nodes) : \/ n \in Gate /\ Resolved(rev.adrs, rev.nodes[n].question)
                                \/ n \in Landing /\ rev.nodes[n].life = "Complete"}

Ready(rev) == {n \in Present(rev.nodes) \cap Landing : rev.nodes[n].requires \subseteq Satisfied(rev)}

\* evaluateState: the check of one revision.
Evaluated(rev) ==
    /\ \A a \in Present(rev.adrs) : ValidAdr(a, rev)
    /\ \A n \in Present(rev.nodes) \cap Landing : ValidDelivery(n, rev)
    /\ ValidRelationships(rev.adrs)
    /\ OneResolver(rev.adrs)
    /\ ValidReplacements(rev.nodes)
    /\ ValidPrerequisites(rev.nodes)
    /\ DependentsFollow(rev.nodes)
    /\ KeepsPrerequisites(rev.nodes)
    /\ StartsPlanned(rev.nodes)

(***************************************************************************)
(* The check of two revisions.                                               *)
(***************************************************************************)
\* primitiveProjection: the registry without its attestations and transition digests.
Primitive(rev) ==
    [adrs |-> [a \in Adr |-> IF rev.adrs[a] = Nil \/ rev.adrs[a].acceptance = Nil
                             THEN rev.adrs[a]
                             ELSE [rev.adrs[a] EXCEPT !.acceptance = rev.adrs[a].acceptance.content]],
     nodes |-> rev.nodes]

\* transitionDigest.
Transition(base, target, a, life) ==
    [prior |-> Primitive(base), target |-> Primitive(target), subject |-> a, to |-> life]

AdrTransitions == {<<"Proposed", "Proposed">>, <<"Proposed", "Accepted">>, <<"Proposed", "Rejected">>,
                   <<"Accepted", "Accepted">>, <<"Accepted", "Superseded">>,
                   <<"Rejected", "Rejected">>, <<"Superseded", "Superseded">>}

DeliveryTransitions ==
    {<<"Planned", "Planned">>, <<"Planned", "InProgress">>, <<"Planned", "Complete">>,
     <<"Planned", "Withdrawn">>, <<"InProgress", "InProgress">>, <<"InProgress", "Complete">>,
     <<"InProgress", "Withdrawn">>, <<"Complete", "Complete">>, <<"Withdrawn", "Withdrawn">>}

\* Mutant of DecisionsCompared: a decision need not name the revision it was taken on.
DecisionsUnbound(base, target) ==
    /\ \A a \in Present(target.adrs) \ Present(base.adrs) : target.adrs[a].life = "Proposed"
    /\ \A a \in Present(base.adrs) \cap Present(target.adrs) :
         LET before == base.adrs[a]
             after == target.adrs[a] IN
         /\ <<before.life, after.life>> \in AdrTransitions
         /\ before.life # "Proposed" =>
              /\ after.acceptance = before.acceptance
              /\ after.resolves = before.resolves /\ after.supersedes = before.supersedes

\* compareDecisions.
DecisionsCompared(base, target) ==
    /\ \A a \in Present(target.adrs) \ Present(base.adrs) : target.adrs[a].life = "Proposed"
    /\ \A a \in Present(base.adrs) \cap Present(target.adrs) :
         LET before == base.adrs[a]
             after == target.adrs[a] IN
         /\ <<before.life, after.life>> \in AdrTransitions
         /\ before.life = "Proposed" /\ after.life # "Proposed" =>
              after.acceptance.digest = Transition(base, target, a, after.life)
         /\ before.life # "Proposed" =>
              /\ after.acceptance = before.acceptance
              /\ after.resolves = before.resolves /\ after.supersedes = before.supersedes

\* Mutant of ResolversCompared: a question may lose its resolver.
ResolversLost(base, target) == TRUE

\* compareResolvers: a resolved question keeps the decisions that name it, and an answer.
ResolversCompared(base, target) ==
    \A q \in Question : Resolved(base.adrs, q) =>
        /\ \A a \in Present(base.adrs) : q \in base.adrs[a].resolves =>
             a \in Present(target.adrs) /\ q \in target.adrs[a].resolves
        /\ Resolved(target.adrs, q)

\* The landings that were complete before there was a registry.
Historical(nodes) ==
    {n \in Present(nodes) \cap Landing : nodes[n].completion # Nil /\ nodes[n].completion.from = "genesis"}

\* compareGenesisPreservation, and validateHistoricalCorrespondence of each with one manifest.
GenesisPreserved(base, target) == Historical(target.nodes) = Historical(base.nodes)

\* compareRuleInputs.
InputsCompared(base, target) ==
    \A n \in Present(base.nodes) \cap Present(target.nodes) :
        Identity(n, base.nodes[n]) = Identity(n, target.nodes[n])

\* compareDelivery.
DeliveryCompared(base, target) ==
    \A n \in Present(base.nodes) \cap Present(target.nodes) \cap Landing :
        LET before == base.nodes[n]
            after == target.nodes[n] IN
        /\ <<before.life, after.life>> \in DeliveryTransitions
        /\ before.life = "Complete" => after.completion = before.completion
        /\ before.life = "Withdrawn" => after.withdrawal = before.withdrawal
        /\ after.life = "Complete" /\ before.life # "Complete" =>
             after.completion # Nil /\ after.completion.from = before.life
        /\ after.life = "Withdrawn" /\ before.life # "Withdrawn" =>
             after.withdrawal # Nil /\ after.withdrawal.from = before.life

\* compareReplacement: a new node replaces one that was current before.
ReplacementsCompared(base, target) ==
    /\ \A n \in Present(base.nodes) \cap Present(target.nodes) :
         /\ target.nodes[n].replaces = base.nodes[n].replaces
         /\ target.nodes[n].replacement = base.nodes[n].replacement
    /\ \A n \in Present(target.nodes) \ Present(base.nodes) :
         target.nodes[n].replaces \in Current(base.nodes)

\* evaluateHistory, between two revisions that hold a registry.
Compared(base, target) ==
    /\ Present(base.adrs) \subseteq Present(target.adrs)
    /\ Present(base.nodes) \subseteq Present(target.nodes)
    /\ GenesisPreserved(base, target)
    /\ DecisionsCompared(base, target)
    /\ ResolversCompared(base, target)
    /\ InputsCompared(base, target)
    /\ DeliveryCompared(base, target)
    /\ ReplacementsCompared(base, target)

=============================================================================
