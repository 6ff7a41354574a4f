---------------------------- MODULE TableGrants ----------------------------
(***************************************************************************)
(* One user's access to the tables of one database: the permissions and the *)
(* opt-ins Lake Formation keeps, and the requests of database administrators *)
(* that grant and revoke.  The panel keeps no rows of its own; every step   *)
(* is a call to AWS, and a table can be used with the permission on it, the *)
(* opt-in for it and the opt-in for its database.                           *)
(*                                                                         *)
(* Lake Formation is external: revoking what is not granted is an error;    *)
(* creating an opt-in that is there, or deleting one that is not, may be an *)
(* error or nothing.                                                        *)
(***************************************************************************)
EXTENDS Naturals, FiniteSets

CONSTANTS
  Tables,         \* tables of the database
  Links,          \* resource links of the database
  TargetOf,       \* the table each link names
  Stewards,       \* administrators, one request at a time
  MaxChanges,     \* bound: requests
  MaxCallFails    \* bound: calls that fail

ASSUME TableGrantsAssumption ==
  /\ MaxChanges \in Nat /\ MaxCallFails \in Nat
  /\ Links \cap Tables = {} /\ TargetOf \in [Links -> Tables]

VARIABLES
  granted,     \* tables with the SELECT permission
  optTables,   \* tables with an opt-in
  optDatabase, \* whether the database has one
  change,      \* the request of each administrator
  changes, callFails,
  tangled      \* history: requests overlapped, or one failed half done

grantVars == <<granted, optTables, optDatabase, change, changes, callFails, tangled>>
optIns == <<optTables, optDatabase>>

At0 == [pc |-> "none"]
GrantPcs == {"grant", "look", "optDatabase", "optTable"}
RevokePcs == {"revoke", "count", "dropDatabase", "dropTable"}

GrantsTypeOK ==
  /\ granted \subseteq Tables /\ optTables \subseteq Tables /\ optDatabase \in BOOLEAN
  /\ \A s \in Stewards :
       change[s] # At0 => change[s].pc \in GrantPcs \cup RevokePcs /\ change[s].table \in Tables
  /\ changes \in 0 .. MaxChanges /\ callFails \in 0 .. MaxCallFails /\ tangled \in BOOLEAN

GrantsInit ==
  /\ granted = {} /\ optTables = {} /\ optDatabase = FALSE
  /\ change = [s \in Stewards |-> At0]
  /\ changes = 0 /\ callFails = 0 /\ tangled = FALSE

Step(s, from, pc) ==
  /\ change[s].pc = from
  /\ change' = [change EXCEPT ![s] = IF pc = "none" THEN At0 ELSE [@ EXCEPT !.pc = pc]]

\* A page names a table or a link to one; it is the table that is granted.
GetTableData(n) == IF n \in Links THEN TargetOf[n] ELSE n

Ask0(s, pc, n) ==
  /\ change[s] = At0 /\ changes < MaxChanges /\ changes' = changes + 1
  /\ change' = [change EXCEPT ![s] = [pc |-> pc, table |-> GetTableData(n)]]
  /\ tangled' = (tangled \/ \E r \in Stewards : change[r] # At0)
  /\ UNCHANGED <<granted, optIns, callFails>>

-----------------------------------------------------------------------------
(* TableGrantView: any user and table may be named, granted or not *)
AskGrant(s, n) == Ask0(s, "grant", n)

GrantTable(s) ==
  /\ Step(s, "grant", "look")
  /\ granted' = granted \cup {change[s].table}
  /\ UNCHANGED <<optIns, changes, callFails, tangled>>

\* The opt-ins are listed once, before the calls that depend on them.
LookOptIns(s) ==
  /\ Step(s, "look", IF optDatabase THEN "optTable" ELSE "optDatabase")
  /\ UNCHANGED <<granted, optIns, changes, callFails, tangled>>

OptDatabase(s) ==
  /\ \/ Step(s, "optDatabase", "optTable")
     \/ optDatabase /\ Step(s, "optDatabase", "none")
  /\ optDatabase' = TRUE
  /\ UNCHANGED <<granted, optTables, changes, callFails, tangled>>

OptTable(s) ==
  /\ Step(s, "optTable", "none")
  /\ optTables' = optTables \cup {change[s].table}
  /\ UNCHANGED <<granted, optDatabase, changes, callFails, tangled>>

-----------------------------------------------------------------------------
(* RevokeTableAccessView: asked from a page that may be out of date *)
AskRevoke(s, n) == Ask0(s, "revoke", n)

RevokeTable(s) ==
  /\ Step(s, "revoke", IF change[s].table \in granted THEN "count" ELSE "none")
  /\ granted' = granted \ {change[s].table}
  /\ UNCHANGED <<optIns, changes, callFails, tangled>>

CountAtMostTwo(s) ==   \* mutant: the table's own opt-in is not counted
  /\ Step(s, "count", IF Cardinality(optTables) \in {1, 2} THEN "dropDatabase" ELSE "dropTable")
  /\ UNCHANGED <<granted, optIns, changes, callFails, tangled>>

\* With one table opted in, whichever it is, the database's opt-in goes first.
CountOptIns(s) ==
  /\ Step(s, "count", IF Cardinality(optTables) = 1 THEN "dropDatabase" ELSE "dropTable")
  /\ UNCHANGED <<granted, optIns, changes, callFails, tangled>>

DropDatabase(s) ==
  /\ \/ Step(s, "dropDatabase", "dropTable")
     \/ ~ optDatabase /\ Step(s, "dropDatabase", "none")
  /\ optDatabase' = FALSE
  /\ UNCHANGED <<granted, optTables, changes, callFails, tangled>>

DropTable(s) ==
  /\ Step(s, "dropTable", "none")
  /\ optTables' = optTables \ {change[s].table}
  /\ UNCHANGED <<granted, optDatabase, changes, callFails, tangled>>

\* A call is refused: the page reports it, what was done stays.
CallFails(s) ==
  /\ change[s] # At0 /\ change' = [change EXCEPT ![s] = At0]
  /\ callFails < MaxCallFails /\ callFails' = callFails + 1
  /\ tangled' = (tangled \/ change[s].pc \notin {"grant", "revoke"})
  /\ UNCHANGED <<granted, optIns, changes>>

-----------------------------------------------------------------------------
GrantsNext ==
  \E s \in Stewards :
    \/ \E n \in Tables \cup Links : AskGrant(s, n) \/ AskRevoke(s, n)
    \/ GrantTable(s) \/ LookOptIns(s) \/ OptDatabase(s) \/ OptTable(s)
    \/ RevokeTable(s) \/ CountOptIns(s) \/ DropDatabase(s) \/ DropTable(s)
    \/ CallFails(s)

GrantsSpec == GrantsInit /\ [][GrantsNext]_grantVars

\* With no request under way, a user holds the permission on exactly the tables
\* opted in, and the database is opted in just when one of them is, provided no
\* requests overlapped and none failed half done: whatever the order of grants
\* and revocations, repeated ones too, no table granted is unusable and nothing
\* is left of one revoked (aws.py create_lf_opt_in, delete_lf_opt_in).
GrantsUsable ==
  ~ tangled /\ (\A s \in Stewards : change[s] = At0) =>
    /\ granted = optTables
    /\ optDatabase <=> optTables # {}
=============================================================================
