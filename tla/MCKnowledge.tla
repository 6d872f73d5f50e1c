---------------------------- MODULE MCKnowledge -----------------------------
EXTENDS KnowledgeBase, TLC

CONSTANTS o1, o2, n1, n2, r1, r2, g1, g2

Symmetry ==
    Permutations({o1, o2}) \cup Permutations({n1, n2})
        \cup Permutations({r1, r2}) \cup Permutations({g1, g2})
=============================================================================
