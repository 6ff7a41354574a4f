----------------------------- MODULE MCConsole -----------------------------
(* As in MCPlatform, the parts share the model values that play             *)
(* interchangeable roles.                                                  *)
EXTENDS Console
CONSTANTS bucket, foo, foobar, x1, x2, y1, y2, n1, n2

\* A path, a path below it, and a path beside it.
ThreePaths == {<<"x">>, <<"x", "y">>, <<"z">>}

\* One folder's name begins with the other's.
OneBegins == {<<foo, foobar>>}

Symmetry == Permutations({x1, x2}) \cup Permutations({y1, y2})
=============================================================================
