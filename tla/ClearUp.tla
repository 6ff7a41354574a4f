------------------------------ MODULE ClearUp ------------------------------
(***************************************************************************)
(* The command that clears Auth0 of what no app uses any more, while pages  *)
(* set up and remove the authentication of apps.  It lists roles, clients   *)
(* and groups, each once, then deletes the roles whose client it did not    *)
(* see, with their group, and the groups it saw without a role.             *)
(*                                                                         *)
(* Each set-up has an identity, which is that of the client and the role it *)
(* makes, and of the group if it makes one: an environment that was set up  *)
(* before, in whole or in part, has a group of its name, which is used      *)
(* again.  AppAuth has these requests in detail, with what the app records  *)
(* of them; here they are the calls that make, link and delete.  That the   *)
(* command then removes from the groups it saw the members who have not     *)
(* signed in for months is left out.                                        *)
(***************************************************************************)
EXTENDS Naturals, Sequences

CONSTANTS
  Clients,        \* identities of set-ups
  EnvOf,          \* the environment that each sets up, which names the group
  NoGroup,
  MaxBroken       \* bound: calls that fail, requests that are cut off

ASSUME ClearUpAssumption == MaxBroken \in Nat /\ NoGroup \notin Clients

VARIABLES
  stands,     \* what Auth0 has of each identity: "client", "role", "group"
  links,      \* <<g, c>>: the group g has the role of c
  at,         \* the request on each identity: the call it makes next
  uses,       \* the group each set-up found or made
  doomed,     \* the roles a removal is to delete
  sweep,      \* the command: the next list, and what it has seen
  broken,
  late        \* history: links made since the command listed the groups

clearVars == <<stands, links, at, uses, doomed, sweep, broken, late>>
sweepVars == <<sweep, late>>

Setting == {"client", "role", "group", "find", "link", "save"}
Removing == {"look", "ungroup", "unrole", "unclient", "clear"}

ClearUpTypeOK ==
  /\ stands \in [Clients -> SUBSET {"client", "role", "group"}]
  /\ links \subseteq Clients \X Clients
  /\ at \in [Clients -> Setting \cup Removing \cup {"new", "set", "over"}]
  /\ uses \in [Clients -> Clients \cup {NoGroup}]
  /\ doomed \in [Clients -> SUBSET Clients]
  /\ sweep \in [next : 1 .. 4, roles : SUBSET Clients, clients : SUBSET Clients,
               groups : SUBSET (Clients \X Clients), bare : SUBSET Clients]
  /\ broken \in 0 .. MaxBroken /\ late \subseteq Clients \X Clients

With(part) == {c \in Clients : part \in stands[c]}
Alike(c) == {d \in Clients : EnvOf[d] = EnvOf[c]}
GroupsOf(c) == With("group") \cap Alike(c)
RolesOf(g) == {c \in Clients : <<g, c>> \in links}

ReadsClientsFirst == <<"clients", "roles", "groups">>   \* mutant
Reads == <<"roles", "clients", "groups">>
Listed0 == sweep.next > Len(Reads)

\* Some are left over, without a client, from before the migration.
ClearUpInit ==
  /\ stands \in [Clients -> {{}, {"role", "group"}, {"group"}}]
  /\ \A c \in Clients : \A d \in GroupsOf(c) : "group" \in stands[c] => d = c
  /\ links = {<<c, c>> : c \in With("role")}
  /\ at = [c \in Clients |-> IF stands[c] = {} THEN "new" ELSE "over"]
  /\ uses = [c \in Clients |-> NoGroup]
  /\ doomed = [c \in Clients |-> {}]
  /\ sweep = [next |-> 1, roles |-> {}, clients |-> {}, groups |-> {}, bare |-> {}]
  /\ broken = 0 /\ late = {}

-----------------------------------------------------------------------------
(* Setting up: setup_auth0_client, save_auth_settings *)

\* Anybody may set up any environment at any time, again too.
Start(c) ==
  /\ at[c] = "new" /\ at' = [at EXCEPT ![c] = "client"]
  /\ UNCHANGED <<stands, links, uses, doomed, sweepVars, broken>>

MakePart(c) ==
  /\ at[c] \in {"client", "role"}
  /\ at' = [at EXCEPT ![c] = IF @ = "client" THEN "role" ELSE "group"]
  /\ stands' = [stands EXCEPT ![c] = @ \cup {at[c]}]
  /\ UNCHANGED <<links, uses, doomed, sweepVars, broken>>

MakeGroup(c) ==
  /\ at[c] = "group" /\ GroupsOf(c) = {}
  /\ at' = [at EXCEPT ![c] = "link"]
  /\ stands' = [stands EXCEPT ![c] = @ \cup {"group"}]
  /\ uses' = [uses EXCEPT ![c] = c]
  /\ UNCHANGED <<links, doomed, sweepVars, broken>>

\* The environment has a group already, or the call fails: either is taken for
\* the former.
GroupExists(c) ==
  /\ at[c] = "group" /\ at' = [at EXCEPT ![c] = "find"]
  /\ IF GroupsOf(c) = {} THEN broken < MaxBroken /\ broken' = broken + 1 ELSE UNCHANGED broken
  /\ UNCHANGED <<stands, links, uses, doomed, sweepVars>>

\* get_group_id
FindGroup(c) ==
  /\ at[c] = "find" /\ at' = [at EXCEPT ![c] = "link"]
  /\ \E g \in IF GroupsOf(c) = {} THEN {NoGroup} ELSE GroupsOf(c) :
       uses' = [uses EXCEPT ![c] = g]
  /\ UNCHANGED <<stands, links, doomed, sweepVars, broken>>

\* groups.add_role: of a group that was not found, or has gone, it raises.
LinkRole(c) ==
  /\ at[c] = "link"
  /\ IF uses[c] \in With("group")
     THEN /\ links' = links \cup {<<uses[c], c>>}
          /\ late' = IF Listed0 THEN late \cup {<<uses[c], c>>} ELSE late
          /\ at' = [at EXCEPT ![c] = "save"]
     ELSE at' = [at EXCEPT ![c] = "over"] /\ UNCHANGED <<links, late>>
  /\ UNCHANGED <<stands, uses, doomed, sweep, broken>>

\* The app records one client and group of an environment; what it had recorded
\* of it before is forgotten.
Records(c, step) ==
  at' = [d \in Clients |-> IF d = c THEN step
                           ELSE IF d \in Alike(c) /\ at[d] = "set" THEN "over" ELSE at[d]]

SaveSettings(c) ==
  /\ at[c] = "save" /\ Records(c, "set")
  /\ UNCHANGED <<stands, links, uses, doomed, sweepVars, broken>>

-----------------------------------------------------------------------------
(* Removing: clear_up_app, clear_up_group, clear_auth_settings *)

Remove(c) ==
  /\ at[c] = "set" /\ at' = [at EXCEPT ![c] = "look"]
  /\ UNCHANGED <<stands, links, uses, doomed, sweepVars, broken>>

\* Without its group the roles are not looked for.
LookForRoles(c) ==
  /\ at[c] = "look"
  /\ IF uses[c] \in With("group")
     THEN at' = [at EXCEPT ![c] = "ungroup"] /\ doomed' = [doomed EXCEPT ![c] = RolesOf(uses[c])]
     ELSE at' = [at EXCEPT ![c] = "unclient"] /\ UNCHANGED doomed
  /\ UNCHANGED <<stands, links, uses, sweepVars, broken>>

\* Deletes p of d; its links go along.
Deletes(d, p) ==
  /\ stands' = [stands EXCEPT ![d] = @ \ {p}]
  /\ links' = {l \in links : (p = "group" => l[1] # d) /\ (p = "role" => l[2] # d)}

\* The request goes on; what has gone meanwhile may be an error, which ends it.
\* The app has what it recorded, or what another request recorded since.
Continues(c, d, p, step) ==
  \E next \in {step} \cup IF p \in stands[d] THEN {} ELSE {"set", "over"} :
    at' = [at EXCEPT ![c] = next]

UnmakeGroup(c) ==
  /\ at[c] = "ungroup"
  /\ Deletes(uses[c], "group") /\ Continues(c, uses[c], "group", "unrole")
  /\ UNCHANGED <<uses, doomed, sweepVars, broken>>

UnmakeRole(c) ==
  /\ at[c] = "unrole"
  /\ \E d \in doomed[c] :
       /\ Deletes(d, "role") /\ Continues(c, d, "role", "unrole")
       /\ doomed' = [doomed EXCEPT ![c] = @ \ {d}]
  /\ UNCHANGED <<uses, sweepVars, broken>>

UnmakeClient(c) ==
  /\ at[c] = "unclient" \/ (at[c] = "unrole" /\ doomed[c] = {})
  /\ at' = [at EXCEPT ![c] = "clear"] /\ Deletes(c, "client")
  /\ UNCHANGED <<uses, doomed, sweepVars, broken>>

ClearSettings(c) ==
  /\ at[c] = "clear" /\ Records(c, "over")
  /\ UNCHANGED <<stands, links, uses, doomed, sweepVars, broken>>

\* A call fails or the request is cut off; what was made or left stands.
RequestBreaks(c) ==
  /\ \/ at[c] \in Setting /\ at' = [at EXCEPT ![c] = "over"]
     \/ at[c] \in Removing /\ \E step \in {"set", "over"} : at' = [at EXCEPT ![c] = step]
  /\ broken < MaxBroken /\ broken' = broken + 1
  /\ UNCHANGED <<stands, links, uses, doomed, sweepVars>>

-----------------------------------------------------------------------------
(* The command *)

\* A paged list is one step here; Customers has the pages.  A group with more
\* than one role is in neither of the two collections.
List ==
  /\ sweep.next \in DOMAIN Reads
  /\ LET what == Reads[sweep.next] IN
     /\ sweep' = [sweep EXCEPT !.next = @ + 1,
          ![what] = CASE what = "roles" -> With("role")
                      [] what = "clients" -> With("client")
                      [] what = "groups" -> {l \in links : RolesOf(l[1]) = {l[2]}},
          !.bare = IF what = "groups" THEN {g \in With("group") : RolesOf(g) = {}} ELSE @]
     /\ late' = IF what = "groups" THEN {} ELSE late
  /\ UNCHANGED <<stands, links, at, uses, doomed, broken>>

Unused == sweep.roles \ sweep.clients

Ends == [sweep EXCEPT !.roles = {}, !.bare = {}]

\* What has gone meanwhile may be an error, and so may a role that a group still
\* has; an error ends the command.
Takes(d, p, rest) ==
  /\ \/ Deletes(d, p) /\ sweep' = rest
     \/ /\ p \notin stands[d] \/ (p = "role" /\ \E g \in Clients : <<g, d>> \in links)
        /\ sweep' = Ends /\ UNCHANGED <<stands, links>>
  /\ UNCHANGED <<at, uses, doomed, broken, late>>

\* The group of an unused role goes first, when it was seen with that role only.
DropUnusedGroup(c) ==
  /\ Listed0 /\ c \in Unused
  /\ \E g \in Clients :
       /\ <<g, c>> \in sweep.groups
       /\ Takes(g, "group", [sweep EXCEPT !.groups = @ \ {<<g, c>>}])

DropUnusedRole(c) ==
  /\ Listed0 /\ c \in Unused /\ \A g \in Clients : <<g, c>> \notin sweep.groups
  /\ Takes(c, "role", [sweep EXCEPT !.roles = @ \ {c}])

DropBareGroup(c) ==
  /\ Listed0 /\ Unused = {} /\ c \in sweep.bare
  /\ Takes(c, "group", [sweep EXCEPT !.bare = @ \ {c}])

-----------------------------------------------------------------------------
ClearUpNext ==
  \/ \E c \in Clients :
       \/ Start(c) \/ MakePart(c) \/ MakeGroup(c) \/ GroupExists(c) \/ FindGroup(c)
       \/ LinkRole(c) \/ SaveSettings(c)
       \/ Remove(c) \/ LookForRoles(c) \/ UnmakeGroup(c) \/ UnmakeRole(c) \/ UnmakeClient(c)
       \/ ClearSettings(c) \/ RequestBreaks(c)
       \/ DropUnusedGroup(c) \/ DropUnusedRole(c) \/ DropBareGroup(c)
  \/ List

ClearUpSpec == ClearUpInit /\ [][ClearUpNext]_clearVars

-----------------------------------------------------------------------------
\* The command takes no role whose client stands, however its lists interleave
\* with apps being set up: a role is made after its client, and roles are listed
\* before clients.  It takes no group that has the role of a client that stands,
\* of however many set-ups, unless the role was linked to it since the groups
\* were listed: a set-up that was half done then, or one that uses a left-over
\* group again (clear_up_auth0_resources.py load_auth0_resources, auth0.py
\* setup_auth0_client).
ClearUpSpares ==
  [][sweep' # sweep =>
       \A c \in With("client") :
         /\ "role" \in stands[c] => "role" \in stands'[c]
         /\ \A g \in With("group") : <<g, c>> \in links \ late => "group" \in stands'[g]]_clearVars
=============================================================================
