---------------------------- MODULE MCDatasource ----------------------------
(* Small instances of Datasource for TLC. *)
EXTENDS Datasource, TLC

CONSTANTS i1, i2, i3, n1, n2, w1, w2

OneName == [i \in Ids |-> n1]
TwoNames == [i \in Ids |-> IF i = i3 THEN n2 ELSE n1]

WorkersAlike == Permutations(Workers)
=============================================================================
