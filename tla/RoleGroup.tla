------------------------------ MODULE RoleGroup ------------------------------
(***************************************************************************)
(* A group of users: a row with its members, and the IAM managed policy    *)
(* that is attached to the members' roles.                                 *)
(*                                                                         *)
(* Every save of the row reads the members, reads the attached roles, and  *)
(* attaches and detaches the difference one call at a time.  Requests      *)
(* overlap, and any of them may fail between two calls.                    *)
(***************************************************************************)
EXTENDS Naturals

CONSTANTS
  Users,       \* users; each has one role
  Requests,    \* requests; each is made once
  MaxFaults    \* bound on failed requests

ASSUME RoleGroupAssumption == MaxFaults \in Nat

VARIABLES
  row,         \* the group's row is in the database
  members,     \* users of the row
  granted,     \* the row has access to buckets
  policy,      \* the managed policy exists
  attached,    \* users whose role it is attached to
  req,         \* progress of each request
  overlapped,  \* history: requests that ran at the same time as another one
  faults       \* failed requests so far

vars == <<row, members, granted, policy, attached, req, overlapped, faults>>

Kinds == {"create", "add", "remove", "grant", "delete"}
Steps == {"idle", "save", "make", "names", "roles", "apply",
          "load", "clear", "drop", "forget", "done", "failed"}
RequestState ==
  [kind : Kinds, step : Steps, names : SUBSET Users, attach : SUBSET Users, detach : SUBSET Users]

TypeOK ==
  /\ row \in BOOLEAN /\ granted \in BOOLEAN /\ policy \in BOOLEAN
  /\ members \subseteq Users /\ attached \subseteq Users
  /\ req \in [Requests -> RequestState]
  /\ \A r \in Requests : /\ req[r].attach \cap req[r].detach = {}
                         /\ req[r].step = "load" => req[r].attach = {}
  /\ overlapped \subseteq Requests
  /\ faults \in 0 .. MaxFaults

Fresh == [kind |-> "add", step |-> "idle", names |-> {}, attach |-> {}, detach |-> {}]

Init ==
  /\ row = FALSE /\ granted = FALSE /\ policy = FALSE
  /\ members = {} /\ attached = {}
  /\ req = [r \in Requests |-> Fresh]
  /\ overlapped = {}
  /\ faults = 0

-----------------------------------------------------------------------------
(* Requests *)

Running == {r \in Requests : req[r].step \notin {"idle", "done", "failed"}}
Others(r) == Running \ {r}

Begin(r, kind, step) ==
  /\ req[r].step = "idle"
  /\ req' = [req EXCEPT ![r] = [Fresh EXCEPT !.kind = kind, !.step = step]]
  /\ overlapped' = overlapped \cup Running \cup (IF Running = {} THEN {} ELSE {r})

At(r, step) == req[r].step = step
GoTo(r, step) == req' = [req EXCEPT ![r].step = step]

\* A call to IAM for a policy that is not there raises.
CallFails(r) ==
  /\ GoTo(r, "failed")
  /\ UNCHANGED <<row, members, granted, policy, attached, overlapped, faults>>

-----------------------------------------------------------------------------
(* Creating a group, and adding a user to it *)

Create(r) ==
  /\ ~row
  /\ \A q \in Requests : req[q].kind # "create"
  /\ Begin(r, "create", "make")
  /\ row' = TRUE
  /\ UNCHANGED <<members, granted, policy, attached, faults>>

\* A policy that exists is left as it is.
CreatePolicy(r) ==
  /\ At(r, "make")
  /\ policy' = TRUE
  /\ GoTo(r, "names")
  /\ UNCHANGED <<row, members, granted, attached, overlapped, faults>>

AddUser(r, u) ==
  /\ row
  /\ Begin(r, "add", "save")
  /\ members' = members \cup {u}
  /\ UNCHANGED <<row, granted, policy, attached, faults>>

\* The save inserts the row again when it was deleted meanwhile.
SaveRow(r) ==
  /\ At(r, "save")
  /\ row' = TRUE
  /\ GoTo(r, "names")
  /\ UNCHANGED <<members, granted, policy, attached, overlapped, faults>>

ReadNames(r) ==
  /\ At(r, "names")
  /\ req' = [req EXCEPT ![r] = [@ EXCEPT !.names = members, !.step = "roles"]]
  /\ UNCHANGED <<row, members, granted, policy, attached, overlapped, faults>>

\* Mutant: roles are attached, never detached.
ReadRolesAttachOnly(r) ==
  /\ At(r, "roles") /\ policy
  /\ req' = [req EXCEPT ![r] = [@ EXCEPT !.attach = req[r].names \ attached, !.step = "apply"]]
  /\ UNCHANGED <<row, members, granted, policy, attached, overlapped, faults>>

\* Mutant: the roles attached are not taken off those to attach.
ReadRolesReattach(r) ==
  /\ At(r, "roles") /\ policy
  /\ req' = [req EXCEPT ![r] = [@ EXCEPT !.attach = req[r].names, !.detach = attached,
                                       !.step = "apply"]]
  /\ UNCHANGED <<row, members, granted, policy, attached, overlapped, faults>>

ReadRoles(r) ==
  /\ At(r, "roles")
  /\ \/ /\ policy
        /\ req' = [req EXCEPT ![r] = [@ EXCEPT !.attach = req[r].names \ attached,
                                             !.detach = attached \ req[r].names,
                                             !.step = "apply"]]
        /\ UNCHANGED <<row, members, granted, policy, attached, overlapped, faults>>
     \/ ~policy /\ CallFails(r)

AttachRole(r) ==
  /\ At(r, "apply") /\ req[r].attach # {}
  /\ \/ /\ policy
        /\ \E u \in req[r].attach :
             /\ attached' = attached \cup {u}
             /\ req' = [req EXCEPT ![r].attach = @ \ {u}]
        /\ UNCHANGED <<row, members, granted, policy, overlapped, faults>>
     \/ ~policy /\ CallFails(r)

\* Detaching a role somebody else detached raises too.
DetachRole(r) ==
  /\ At(r, "apply") /\ req[r].attach = {}
  /\ \E u \in req[r].detach :
       \/ /\ u \in attached
          /\ attached' = attached \ {u}
          /\ req' = [req EXCEPT ![r].detach = @ \ {u}]
          /\ UNCHANGED <<row, members, granted, policy, overlapped, faults>>
       \/ u \notin attached /\ CallFails(r)

Report(r) ==
  /\ At(r, "apply") /\ req[r].attach = {} /\ req[r].detach = {}
  /\ GoTo(r, "done")
  /\ UNCHANGED <<row, members, granted, policy, attached, overlapped, faults>>

-----------------------------------------------------------------------------
(* Access to buckets, as far as the deletion of the group meets it *)

\* The access row is saved before the policy is edited.
GrantBucket(r) ==
  /\ row /\ ~granted
  /\ Begin(r, "grant", IF policy THEN "done" ELSE "failed")
  /\ granted' = TRUE
  /\ UNCHANGED <<row, members, policy, attached, faults>>

\* And revoked before it is deleted.
RevokeBucket(r) ==
  /\ row /\ granted
  /\ Begin(r, "grant", IF policy THEN "done" ELSE "failed")
  /\ granted' = ~policy
  /\ UNCHANGED <<row, members, policy, attached, faults>>

-----------------------------------------------------------------------------
(* Removing a user, and deleting the group *)

\* One request, one statement; the policy is not touched.
RemoveUser(r, u) ==
  /\ row /\ u \in members
  /\ Begin(r, "remove", "done")
  /\ members' = members \ {u}
  /\ UNCHANGED <<row, granted, policy, attached, faults>>

Delete(r) ==
  /\ row
  /\ Begin(r, "delete", "load")
  /\ UNCHANGED <<row, members, granted, policy, attached, faults>>

LoadPolicy(r) ==
  /\ At(r, "load")
  /\ req' = [req EXCEPT ![r] =
       IF policy THEN [@ EXCEPT !.step = "clear", !.detach = attached] ELSE [@ EXCEPT !.step = "forget"]]
  /\ UNCHANGED <<row, members, granted, policy, attached, overlapped, faults>>

ClearRole(r) ==
  /\ At(r, "clear")
  /\ \E u \in req[r].detach :
       \/ /\ u \in attached
          /\ attached' = attached \ {u}
          /\ req' = [req EXCEPT ![r].detach = @ \ {u}]
          /\ UNCHANGED <<row, members, granted, policy, overlapped, faults>>
       \/ u \notin attached /\ CallFails(r)

\* IAM refuses to delete a policy that is still attached.
DropPolicy(r) ==
  /\ At(r, "clear") /\ req[r].detach = {}
  /\ \/ /\ policy /\ attached = {}
        /\ policy' = FALSE
        /\ GoTo(r, "forget")
        /\ UNCHANGED <<row, members, granted, attached, overlapped, faults>>
     \/ (~policy \/ attached # {}) /\ CallFails(r)

\* Removing the row removes its memberships and its access rows, and before
\* an access row goes its access is revoked in the policy.
DeleteRow(r) ==
  /\ At(r, "forget")
  /\ \/ /\ granted => policy
        /\ row' = FALSE /\ granted' = FALSE
        /\ members' = {}
        /\ GoTo(r, "done")
        /\ UNCHANGED <<policy, attached, overlapped, faults>>
     \/ granted /\ ~policy /\ CallFails(r)

\* IAM does not answer, or the server process dies.
RequestFails(r) ==
  /\ r \in Running
  /\ faults < MaxFaults /\ faults' = faults + 1
  /\ GoTo(r, "failed")
  /\ UNCHANGED <<row, members, granted, policy, attached, overlapped>>

-----------------------------------------------------------------------------

SaveStep(r) ==
  \/ CreatePolicy(r) \/ SaveRow(r) \/ ReadNames(r) \/ ReadRoles(r)
  \/ AttachRole(r) \/ DetachRole(r) \/ Report(r)
DeleteStep(r) == LoadPolicy(r) \/ ClearRole(r) \/ DropPolicy(r) \/ DeleteRow(r)

Next ==
  \E r \in Requests :
    \/ Create(r) \/ Delete(r) \/ GrantBucket(r) \/ RevokeBucket(r)
    \/ \E u \in Users : AddUser(r, u) \/ RemoveUser(r, u)
    \/ SaveStep(r) \/ DeleteStep(r) \/ RequestFails(r)

Spec == Init /\ [][Next]_vars

-----------------------------------------------------------------------------
(* Properties *)

Ends(r) == req'[r].step = "done"

\* A request that ran alone leaves IAM as the database says, whatever
\* earlier requests failed half-way: a save attaches the members' roles and
\* no others, a deletion leaves neither policy nor row.
AloneRepairs ==
  [][\A r \in Requests \ overlapped' :
       /\ At(r, "apply") /\ Ends(r) => policy' /\ attached' = members'
       /\ At(r, "forget") /\ Ends(r) => ~policy' /\ attached' = {} /\ ~row']_vars

\* A deletion that runs alone, and gets its answers, succeeds: access of a
\* group that is deleted is revoked on the way ("Revokes access when the
\* delete is via cascade delete").
DeletionsSucceed ==
  \A r \in Requests \ overlapped :
    req[r].kind = "delete" /\ At(r, "failed") => faults > 0

\* What the pages say and overlapping requests break; no run checks these, the
\* README describes the counterexamples.

Quiet == Running = {}

\* "Successfully added user": a member's role has the policy ...
MembersAreAttached == Quiet /\ faults = 0 => members \subseteq attached

\* ... and "Successfully removed user": nobody else's has.
AttachedAreMembers == Quiet /\ faults = 0 => attached \subseteq members

\* A group that was deleted stays deleted.
DeletedStays ==
  [][\A r \in Requests : req[r].kind = "delete" /\ At(r, "done") /\ ~row => ~row']_vars
=============================================================================
