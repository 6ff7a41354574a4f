------------------------------ MODULE MCPeople ------------------------------
EXTENDS People, TLC
CONSTANTS d1, a1, a2, r1, e1, e2, m1, s1, s2
MCDomainOf == [e \in {e1, e2} |-> m1]
Symmetry == UNION {Permutations(S) : S \in {{a1, a2}, {e1, e2}, {s1, s2}}}
=============================================================================
