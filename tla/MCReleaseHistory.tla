-------------------------- MODULE MCReleaseHistory --------------------------
EXTENDS ReleaseHistory
CONSTANTS m, n, f

Says(required, optional, deny, additions, narrowing) ==
    [required |-> required, optional |-> optional, deny |-> deny,
     additions |-> additions, narrowing |-> narrowing]

MCFamilyRow == {Says({m}, {n}, {}, TRUE, TRUE),
                Says({m}, {}, {n}, TRUE, FALSE),
                Says({n}, {n}, {}, FALSE, FALSE)}
MCFirstRows == [x \in {m, n} |-> [review |-> 1, held |-> FALSE]]
MCFirstFamilies == [x \in {f} |-> Says({m}, {n}, {}, TRUE, TRUE)]
=============================================================================
