----------------------------- MODULE MCPlatform -----------------------------
(* The parts share no state, so they share the model values that play       *)
(* interchangeable roles: permuting x1, x2 permutes them in every part.     *)
EXTENDS Platform, TLC
CONSTANTS x1, x2, y1, y2, t1, t2, c1, c2, n1, n2, n3, l1
MCChartOf == (t1 :> c1) @@ (t2 :> c2)
MCNameOf == (n1 :> c1) @@ (n2 :> c1) @@ (n3 :> c2)
MCTargetOf == l1 :> n1
MCEnvOf == [c \in Clients |-> c1]
Symmetry == Permutations({x1, x2}) \cup Permutations({y1, y2})
=============================================================================
