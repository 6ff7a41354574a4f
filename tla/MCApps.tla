------------------------------- MODULE MCApps -------------------------------
\* The parts share no state, so they share the model values that play
\* interchangeable roles: permuting r1, r2, r3 permutes them in every part.
EXTENDS Apps, TLC
CONSTANTS e1, e2, r1, r2, r3, k1, k2, l1, l2, w1, w2
MCMixes == {{}, {"setup", "conns"}, {"setup", "remove"}, {"setup", "redundant"},
            {"setup", "delete"}, {"setup", "m2m"}, {"m2m", "rotate", "dropM2m"}}
Symmetry == Permutations({r1, r2, r3}) \cup Permutations({e1, e2})
=============================================================================
