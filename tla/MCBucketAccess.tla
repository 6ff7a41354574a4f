--------------------------- MODULE MCBucketAccess ---------------------------
(* Small instances of BucketAccess for TLC. *)
EXTENDS BucketAccess, TLC

CONSTANTS p1, b1, b2, r1, r2, q1, q2, w1, w2

\* The two rows are about two buckets of one principal ...
TwoBuckets == [i \in Ids |-> IF i = r2 THEN <<p1, b2>> ELSE <<p1, b1>>]

\* ... or all are about the same one.
SameBucket == [i \in Ids |-> <<p1, b1>>]

Swap(x, y) == (x :> y) @@ (y :> x)

\* The workers are alike, and so are the buckets taken together with their rows.
Symmetry == Permutations(Workers) \cup {Swap(b1, b2) @@ Swap(r1, r2)}
=============================================================================
