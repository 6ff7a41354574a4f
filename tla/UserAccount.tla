----------------------------- MODULE UserAccount -----------------------------
(***************************************************************************)
(* One user of the control panel: the row, the IAM role with its attached   *)
(* policies, the two helm releases that make the namespace, the membership  *)
(* of the QuickSight groups in the identity store, and the QuickSight       *)
(* permissions.  Requests work call by call, without a transaction, and may *)
(* fail at each call, leaving what was done.                                *)
(***************************************************************************)
EXTENDS Naturals

CONSTANTS
  Slots,       \* requests under way at once
  MaxMadeAsks, \* bound: requests
  MaxBreaks    \* bound: calls that fail

ASSUME UserAccountAssumption == MaxMadeAsks \in Nat /\ MaxBreaks \in Nat

Grades == {"author", "reader"}
Charts == {"bootstrap", "provision"}
Policies == {"base", "bedrock", "legacy"}

VARIABLES
  account,   \* the row: is it there, is_superuser, is_bedrock_enabled
  iam,       \* the role: is it there, attached policies
  charts,    \* installed releases of the user
  member,    \* QuickSight groups the user is in
  perm,      \* QuickSight permissions the user has
  req,       \* the request in each slot
  asks, breaks,
  single,    \* history: the request in the slot overlapped with no other
  promised,  \* history: what the last request promised, if it was single
  half,      \* history: the role was left without all of its base policies
  strayed    \* history: groups that something other than the form changed

accountVars == <<account, iam, charts, member, perm, req, asks, breaks,
                 single, promised, half, strayed>>
outside == <<iam, charts, member>>
tallies == <<asks, breaks>>
notes == <<single, promised, half, strayed>>

Nobody == [here |-> FALSE, super |-> FALSE, bedrock |-> FALSE]
NoRole == [made |-> FALSE, attached |-> {}]
Free == [pc |-> "free"]
Unsaid == [op |-> "none"]
Busy(s) == req[s].pc # "free"

AccountTypeOK ==
  /\ account \in [here : BOOLEAN, super : BOOLEAN, bedrock : BOOLEAN]
  /\ ~ account.here => account = Nobody /\ perm = {}
  /\ iam \in [made : BOOLEAN, attached : SUBSET Policies]
  /\ ~ iam.made => iam = NoRole
  /\ charts \subseteq Charts /\ member \subseteq Grades /\ perm \subseteq Grades
  /\ asks \in 0 .. MaxMadeAsks /\ breaks \in 0 .. MaxBreaks
  /\ single \in [Slots -> BOOLEAN] /\ half \in BOOLEAN /\ strayed \subseteq Grades

AccountInit ==
  /\ account = Nobody /\ iam = NoRole /\ charts = {} /\ member = {} /\ perm = {}
  /\ req = [s \in Slots |-> Free]
  /\ asks = 0 /\ breaks = 0
  /\ single = [s \in Slots |-> TRUE]
  /\ promised = Unsaid /\ half = FALSE /\ strayed = {}

-----------------------------------------------------------------------------
(* Requests begin and end *)

\* A request loads the row, and the permissions with it.
Asked(s, op, pc, arg) ==
  [pc |-> pc, op |-> op, arg |-> arg, copy |-> account, had |-> perm, fresh |-> FALSE]

Asking(s, op, pc, arg) ==
  /\ ~ Busy(s) /\ asks < MaxMadeAsks /\ asks' = asks + 1
  /\ account.here = (op # "signIn")
  /\ req' = [req EXCEPT ![s] = Asked(s, op, pc, arg)]
  /\ single' = [q \in Slots |-> IF q = s THEN \A t \in Slots : ~ Busy(t) ELSE single[q] /\ ~ Busy(q)]
  /\ promised' = Unsaid
  /\ UNCHANGED <<account, outside, perm, breaks, half, strayed>>

SignIn(s) == Asking(s, "signIn", "role", {})
\* Signing in again, or with another e-mail, saves the row.
Touch(s) == Asking(s, "touch", "check", {})
SetSuper(s, on) == Asking(s, "super", "group", on)
SetBedrock(s, on) == Asking(s, "bedrock", "policy", on)
SetQuicksight(s, grades) == Asking(s, "quicksight", "author", grades)
SetAllQuicksight(s, grades, legacy) ==
  Asking(s, "quicksight", "legacy", grades \cup (IF legacy THEN {"legacy"} ELSE {}))
Reinitialise(s) == Asking(s, "reinit", "role", {})
CleanNamespace(s) == Asking(s, "clean", "uninstall", {})
DeleteUser(s) == Asking(s, "delete", "dropRole", {})

Onward(s, from, pc) == req[s].pc = from /\ req' = [req EXCEPT ![s].pc = pc]
Quit(s, from) == req[s].pc = from /\ req' = [req EXCEPT ![s] = Free]

Ends(s, from) ==
  /\ Quit(s, from)
  /\ promised' = IF single[s] THEN [op |-> req[s].op, arg |-> req[s].arg, had |-> req[s].had]
                 ELSE Unsaid

\* A call fails or the process dies.  Creating a role and attaching its
\* policies are several calls, as are deleting one, uninstalling the releases,
\* and the group and the permission.
Breaks(s) ==
  /\ Busy(s) /\ breaks < MaxBreaks /\ breaks' = breaks + 1
  /\ req' = [req EXCEPT ![s] = Free]
  /\ iam' \in {iam} \cup IF req[s].pc = "dropRole" /\ iam.made
                        THEN {[iam EXCEPT !.attached = left] : left \in SUBSET iam.attached} ELSE {}
  /\ charts' \in {charts} \cup IF req[s].pc = "uninstall" THEN SUBSET charts ELSE {}
  /\ half' = (half \/ req[s].pc = "attach" \/ iam' # iam)
  /\ strayed' = IF req[s].pc \in {"permAuthor", "permReader"}
                THEN strayed \cup {IF req[s].pc = "permAuthor" THEN "author" ELSE "reader"}
                ELSE strayed
  /\ UNCHANGED <<account, member, perm, asks, single, promised>>

-----------------------------------------------------------------------------
(* cluster.User.create *)

\* A role that is there already is left as it is, attached or not.
CreateRole(s) ==
  /\ Onward(s, "role", IF iam.made THEN "bootstrap" ELSE "attach")
  /\ iam' = [iam EXCEPT !.made = TRUE]
  /\ half' = (half /\ iam.made)
  /\ UNCHANGED <<account, charts, member, perm, tallies, single, promised, strayed>>

AttachNothing(s) ==   \* mutant: the policies are not attached
  /\ Onward(s, "attach", "bootstrap")
  /\ UNCHANGED <<account, outside, perm, tallies, notes>>

\* A role deleted meanwhile cannot be attached to.
AttachBase(s) ==
  /\ IF iam.made
     THEN Onward(s, "attach", "bootstrap") /\ iam' = [iam EXCEPT !.attached = @ \cup {"base"}]
     ELSE Quit(s, "attach") /\ UNCHANGED iam
  /\ UNCHANGED <<account, charts, member, perm, tallies, notes>>

Bootstrap(s) ==
  /\ Onward(s, "bootstrap", "provision")
  /\ charts' = charts \cup {"bootstrap"}
  /\ UNCHANGED <<account, iam, member, perm, tallies, notes>>

Provision(s) ==
  /\ req[s].pc = "provision"
  /\ charts' = charts \cup {"provision"}
  /\ \/ req[s].op = "reinit" /\ Ends(s, "provision")
     \/ req[s].op # "reinit" /\ Onward(s, "provision", "write") /\ UNCHANGED promised
  /\ UNCHANGED <<account, iam, member, perm, tallies, single, half, strayed>>

-----------------------------------------------------------------------------
(* User.save: a user without a row is created first, then the whole row is
   written.  A first sign-in only inserts. *)

Check(s) ==
  /\ Onward(s, "check", IF account.here THEN "write" ELSE "role")
  /\ UNCHANGED <<account, outside, perm, tallies, notes>>

Rewritten(s) ==
  CASE req[s].op = "super"   -> [req[s].copy EXCEPT !.super = req[s].arg]
    [] req[s].op = "bedrock" -> [req[s].copy EXCEPT !.bedrock = req[s].arg]
    [] OTHER                 -> [req[s].copy EXCEPT !.here = TRUE]

WriteDefault(s) ==   \* mutant: signing in again writes a row of its own
  /\ req[s].pc = "write"
  /\ Ends(s, "write")
  /\ account' = IF req[s].op = "touch" THEN [Nobody EXCEPT !.here = TRUE] ELSE Rewritten(s)
  /\ UNCHANGED <<outside, perm, tallies, single, half, strayed>>

Write(s) ==
  /\ req[s].pc = "write"
  /\ IF req[s].op = "signIn" /\ account.here
     THEN Quit(s, "write") /\ UNCHANGED <<account, promised>>
     ELSE Ends(s, "write") /\ account' = Rewritten(s)
  /\ UNCHANGED <<outside, perm, tallies, single, half, strayed>>

-----------------------------------------------------------------------------
(* SetSuperadmin, EnableBedrockUser and the QuickSight form *)

\* The author group follows the superuser, whatever the permissions say.
JoinGroup(s) ==
  /\ Onward(s, "group", "check")
  /\ member' = IF req[s].arg THEN member \cup {"author"} ELSE member \ {"author"}
  /\ strayed' = IF ("author" \in member') = ("author" \in perm)
                THEN strayed \ {"author"} ELSE strayed \cup {"author"}
  /\ UNCHANGED <<account, iam, charts, perm, tallies, single, promised, half>>

\* A role that is not there raises.
Attach(s, policy, on, pc) ==
  /\ IF iam.made
     THEN /\ Onward(s, req[s].pc, pc)
          /\ iam' = [iam EXCEPT !.attached = IF on THEN @ \cup {policy} ELSE @ \ {policy}]
     ELSE Quit(s, req[s].pc) /\ UNCHANGED iam
  /\ UNCHANGED <<account, charts, member, perm, tallies, notes>>

SetBedrockPolicy(s) == req[s].pc = "policy" /\ Attach(s, "bedrock", req[s].arg, "check")
SetLegacyPolicy(s) == req[s].pc = "legacy" /\ Attach(s, "legacy", "legacy" \in req[s].arg, "author")

PermOf(g) == IF g = "author" THEN "permAuthor" ELSE "permReader"

\* A superuser is passed over, as is a grade that is as it was asked to be.
SetGroup(s, g) ==
  LET want == g \in req[s].arg IN
  /\ req[s].pc = g
  /\ IF req[s].copy.super \/ want = (g \in req[s].had)
     THEN UNCHANGED member /\ IF g = "author" THEN Onward(s, g, "reader") /\ UNCHANGED promised
                              ELSE Ends(s, g)
     ELSE /\ Onward(s, g, PermOf(g)) /\ UNCHANGED promised
          /\ member' = IF want THEN member \cup {g} ELSE member \ {g}
  /\ UNCHANGED <<account, iam, charts, perm, tallies, single, half, strayed>>

\* A user deleted meanwhile fails the foreign key.
SetPerm(s, g) ==
  LET want == g \in req[s].arg IN
  /\ req[s].pc = PermOf(g)
  /\ IF account.here
     THEN /\ perm' = IF want THEN perm \cup {g} ELSE perm \ {g}
          /\ IF g = "author" THEN Onward(s, PermOf(g), "reader") /\ UNCHANGED promised
                             ELSE Ends(s, PermOf(g))
     ELSE Quit(s, PermOf(g)) /\ UNCHANGED <<perm, promised>>
  /\ strayed' = IF single[s] THEN strayed \ {g} ELSE strayed \cup {g}
  /\ UNCHANGED <<account, outside, tallies, single, half>>

-----------------------------------------------------------------------------
(* User.delete, and the command that cleans namespaces *)

DropRole(s) ==
  /\ Onward(s, "dropRole", "uninstall")
  /\ iam' = NoRole /\ half' = FALSE
  /\ UNCHANGED <<account, charts, member, perm, tallies, single, promised, strayed>>

\* The command passes over a user who has not both releases.
HasRequiredCharts == charts = Charts

Uninstall(s) ==
  /\ req[s].pc = "uninstall"
  /\ charts' = IF req[s].op = "clean" /\ ~ HasRequiredCharts THEN charts ELSE {}
  /\ \/ req[s].op = "clean" /\ Ends(s, "uninstall")
     \/ req[s].op = "delete" /\ Onward(s, "uninstall", "dropRow") /\ UNCHANGED promised
  /\ UNCHANGED <<account, iam, member, perm, tallies, single, half, strayed>>

\* The permissions go with the row; the groups of the identity store stay.
DropUser(s) ==
  /\ Ends(s, "dropRow")
  /\ account' = Nobody /\ perm' = {}
  /\ strayed' = strayed \cup member
  /\ UNCHANGED <<outside, tallies, single, half>>

-----------------------------------------------------------------------------
SlotNext(s) ==
  \/ SignIn(s) \/ Touch(s) \/ Reinitialise(s) \/ CleanNamespace(s) \/ DeleteUser(s)
  \/ \E on \in BOOLEAN : SetSuper(s, on) \/ SetBedrock(s, on)
  \/ \E grades \in SUBSET Grades :
       SetQuicksight(s, grades) \/ \E legacy \in BOOLEAN : SetAllQuicksight(s, grades, legacy)
  \/ CreateRole(s) \/ AttachBase(s) \/ Bootstrap(s) \/ Provision(s) \/ Check(s) \/ Write(s)
  \/ JoinGroup(s) \/ SetBedrockPolicy(s) \/ SetLegacyPolicy(s)
  \/ \E g \in Grades : SetGroup(s, g) \/ SetPerm(s, g)
  \/ DropRole(s) \/ Uninstall(s) \/ DropUser(s)
  \/ Breaks(s)

AccountNext == \E s \in Slots : SlotNext(s)

AccountSpec == AccountInit /\ [][AccountNext]_accountVars

-----------------------------------------------------------------------------
(* Properties *)

Identity == iam.made /\ ("base" \in iam.attached \/ half) /\ charts = Charts

\* A request that overlapped with no other and succeeded leaves what its page
\* says, until the next request: a sign-in a whole identity, SetSuperadmin and
\* EnableBedrockUser the flag and the group or policy that goes with it, the
\* QuickSight form permission and group of each grade, a deletion nothing.
\* Not promised: the policies of a role found half-made, and the group of a
\* grade that was permitted before and whose group something else changed.
SinglesDeliver ==
  CASE promised.op \in {"signIn", "reinit"} -> Identity
    [] promised.op = "super" ->
         account.super = promised.arg /\ ("author" \in member <=> promised.arg)
    [] promised.op = "bedrock" ->
         account.bedrock = promised.arg /\ ("bedrock" \in iam.attached <=> promised.arg)
    [] promised.op = "quicksight" /\ ~ account.super ->
         /\ perm = promised.arg \ {"legacy"}
         /\ \A g \in Grades : g \notin strayed => (g \in member <=> g \in promised.arg)
    [] promised.op = "delete" -> ~ account.here /\ iam = NoRole /\ charts = {}
    [] OTHER -> TRUE

\* Superusers are made and unmade by SetSuperadmin and by deletion alone; a
\* page or a sign-in that saves the row it loaded undoes one only if the two
\* overlapped.
OnlySetSuperadmin ==
  [][account'.super # account.super =>
       \E s \in Slots : Busy(s) /\ req'[s] # req[s]
                        /\ (req[s].op \in {"super", "delete"} \/ ~ single[s])]_accountVars

\* "Successfully updated QuickSight access" (views/user.py): after a form that
\* overlapped with nothing the user is in the groups of the grades it ticked.
\* It does not hold: a grade already permitted is passed over, also when the end
\* of being a superuser took the user out of its group.
GrantDelivers ==
  promised.op = "quicksight" /\ ~ account.super => member = promised.arg \ {"legacy"}
=============================================================================
