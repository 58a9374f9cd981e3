------------------------- MODULE MCRegistryHistory -------------------------
(* Two questions and a gate for one, a landing behind the gate, and a spike  *)
(* behind that landing and one that is complete already, with names for what *)
(* may replace them; a decision that history had taken, and one that may be  *)
(* proposed.                                                                *)
EXTENDS RegistryHistory

CONSTANTS a, b, q, r, g0, g1, h0, l0, l1, s0, s1, s2

NewNode(question, requires, life) ==
    [question |-> question, requires |-> requires, replaces |-> Nil, replacement |-> Nil,
     life |-> life, completion |-> Nil, withdrawal |-> Nil]

MCRootOf == [n \in Node |-> CASE n \in Gate -> g0 [] n = h0 -> h0 [] n \in Spike -> s0 [] OTHER -> l0]

MCDocs ==
    [d \in Adr |-> IF d = a THEN [status |-> "Accepted", resolves |-> {q}, supersedes |-> {}, text |-> 1]
                   ELSE Nil]

\* The first registry with the given digest in the acceptance that history left.
Seed(digest) ==
    [adrs |-> [d \in Adr |-> IF d = a THEN [life |-> "Accepted", resolves |-> {q}, supersedes |-> {},
                                            acceptance |-> [content |-> MCDocs[a], digest |-> digest]]
                             ELSE Nil],
     docs |-> MCDocs,
     nodes |-> [n \in Node |->
        CASE n = g0 -> NewNode(q, {}, Nil)
          [] n = h0 -> [NewNode(Nil, {}, "Complete") EXCEPT
                            !.completion = Envelope(h0, "genesis", Policy(h0), 1)]
          [] n = l0 -> NewNode(Nil, {g0}, "Planned")
          [] n = s0 -> NewNode(Nil, {l0, h0}, "Planned")
          [] OTHER -> Nil],
     files |-> [n \in Landing |-> 1]]

\* extractCandidate: the digest of a decision that history took names no prior state.
MCGenesis ==
    Seed([prior |-> Nil, target |-> Primitive(Seed(Nil)), subject |-> a, to |-> "Accepted"])

=============================================================================
