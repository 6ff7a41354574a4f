----------------------------- MODULE MCRoleGroup -----------------------------
(* Small instances of RoleGroup for TLC. *)
EXTENDS RoleGroup, TLC

Alike == Permutations(Users) \cup Permutations(Requests)
==============================================================================
