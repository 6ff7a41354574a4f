------------------------------- MODULE Rights -------------------------------
(***************************************************************************)
(* Who may do what with buckets, apps and their connections.  The rule is   *)
(* written once in rules.py, for one object, and once more in the query of  *)
(* every list and lookup, as joins over the same rows.  This module has the *)
(* rows, the requests that change them, both forms of the rule, and where   *)
(* they must agree.                                                        *)
(*                                                                         *)
(* A request is one step: it reads and writes rows of the database alone;   *)
(* what it asks of AWS is in BucketAccess.  A query gives rows, an object   *)
(* once for each combination of joined rows, unless it says distinct.       *)
(***************************************************************************)
EXTENDS FiniteSets, Naturals

CONSTANTS
  Users,
  Sources,        \* buckets for apps, not warehouse buckets
  Apps,
  Creator         \* who registers apps and buckets

ASSUME RightsAssumption == Creator \in Users

VARIABLES
  supers,         \* superusers
  accesses,       \* UserS3Bucket: person, bucket, write access, is_admin
  pooled,         \* PolicyS3Bucket: buckets shared with the group
  members,        \* the people of the group
  userapps,       \* UserApp: person, app, is_admin
  links,          \* AppS3Bucket: app, bucket
  made,           \* rows of buckets
  gone            \* those marked as deleted: the rows stay

rightVars == <<supers, accesses, pooled, members, userapps, links, made, gone>>

Access == [who : Users, on : Sources, write : BOOLEAN, admin : BOOLEAN]
Link == [app : Apps, on : Sources]

RightsTypeOK ==
  /\ supers \subseteq Users /\ members \subseteq Users
  /\ accesses \subseteq Access
  /\ \A r, s \in accesses : r.who = s.who /\ r.on = s.on => r = s
  /\ pooled \subseteq made /\ gone \subseteq made /\ made \subseteq Sources
  /\ userapps \subseteq Users \X Apps \X BOOLEAN /\ links \subseteq Link

RightsInit ==
  /\ supers = {Creator} /\ pooled = {} /\ members = {}
  /\ accesses = {} /\ userapps = {} /\ links = {} /\ made = {} /\ gone = {}

-----------------------------------------------------------------------------
(* rules.py: superusers are let through before any rule, by Django *)

IsSuper(u) == u \in supers
IsAppAdmin(u, a) == IsSuper(u) \/ <<u, a, TRUE>> \in userapps
RowOf(u, b) == {r \in accesses : r.who = u /\ r.on = b}
HasBucketAccess(u, b) == RowOf(u, b) # {}
HasBucketWriteAccess(u, b) == \E r \in RowOf(u, b) : r.write
IsBucketAdmin(u, b) == \E r \in RowOf(u, b) : r.admin

BucketRule(u, action, b) ==
  \/ IsSuper(u)
  \/ action = "retrieve" /\ HasBucketAccess(u, b)
  \/ action = "update" /\ HasBucketWriteAccess(u, b)
  \/ action = "destroy" /\ IsBucketAdmin(u, b)

AppRule(u, action, a) ==
  IF action = "destroy" THEN IsSuper(u) ELSE IsAppAdmin(u, a)

LinkRule(u, action, l) ==
  \/ IsSuper(u)
  \/ action = "retrieve" /\ (IsAppAdmin(u, l.app) \/ IsBucketAdmin(u, l.on))
  \/ action = "update" /\ IsAppAdmin(u, l.app) /\ IsBucketAdmin(u, l.on)

\* A row of access, whatever the action.
RowRule(u, r) == IsSuper(u) \/ IsBucketAdmin(u, r.on)

-----------------------------------------------------------------------------
(* filters.py and the querysets of the views *)

\* accessible_by: the people of the rows and those of the group, outer joins.
OrNobody(who) == IF who = {} THEN {"nobody"} ELSE who
JoinedTo(b) ==
  OrNobody({r.who : r \in {s \in accesses : s.on = b}})
    \X OrNobody(IF b \in pooled THEN members ELSE {})
AccessibleBy(u) ==
  {b \in made : HasBucketAccess(u, b) \/ (b \in pooled /\ u \in members)}
TimesAccessible(u, b) == Cardinality({j \in JoinedTo(b) : u \in {j[1], j[2]}})

S3BucketList(u) == IF IsSuper(u) THEN made ELSE AccessibleBy(u)
RowList(u) == IF IsSuper(u) THEN accesses ELSE {r \in accesses : r.on \in AccessibleBy(u)}
AppQuery(u) == IF IsSuper(u) THEN Apps ELSE {a \in Apps : \E admin \in BOOLEAN : <<u, a, admin>> \in userapps}

AppS3BucketListSplit(u) ==   \* mutant: two filters, so two rows may match
  IF IsSuper(u) THEN links
  ELSE {l \in links : \/ <<u, l.app, TRUE>> \in userapps
                      \/ HasBucketAccess(u, l.on) /\ \E r \in accesses : r.on = l.on /\ r.admin}

\* The same joined row must be the user's and an administrator's; distinct.
AppS3BucketList(u) ==
  IF IsSuper(u) THEN links
  ELSE {l \in links : \/ <<u, l.app, TRUE>> \in userapps
                      \/ \E r \in accesses : r.on = l.on /\ r.who = u /\ r.admin}

\* The pages: lists of data sources and apps, a data source, and the data
\* sources an app may be connected to.
BucketPages(u) == {b \in made \ gone : HasBucketAccess(u, b)}
BucketPage(u) == IF IsSuper(u) THEN made ELSE made \ gone
Connectable(u, a) ==
  LET free == {b \in made \ gone : [app |-> a, on |-> b] \notin links} IN
  IF IsSuper(u) THEN free ELSE {b \in free : IsBucketAdmin(u, b)}

-----------------------------------------------------------------------------
(* Requests *)

\* Somebody lets the request through.
ByAdminOf(b) == b \in made /\ \E u \in Users : IsSuper(u) \/ IsBucketAdmin(u, b)
ByAppAdmin(action, a) == \E u \in Users : AppRule(u, action, a)
BySuperuser == \E u \in Users : IsSuper(u)

\* CreateDatasource: the creator is given the first row.
CreateSource(u, b) ==
  /\ b \notin made /\ made' = made \cup {b}
  /\ accesses' = accesses \cup {[who |-> u, on |-> b, write |-> TRUE, admin |-> TRUE]}
  /\ UNCHANGED <<supers, pooled, members, userapps, links, gone>>

SetAccessAdds(v, b, write, admin) ==   \* mutant: a second row beside the first
  /\ ByAdminOf(b)
  /\ accesses' = accesses \cup {[who |-> v, on |-> b, write |-> write, admin |-> admin]}
  /\ UNCHANGED <<supers, pooled, members, userapps, links, made, gone>>

\* GrantAccess and UpdateAccessLevel.
SetAccess(v, b, write, admin) ==
  /\ ByAdminOf(b)
  /\ accesses' = (accesses \ RowOf(v, b)) \cup {[who |-> v, on |-> b, write |-> write, admin |-> admin]}
  /\ UNCHANGED <<supers, pooled, members, userapps, links, made, gone>>

\* RevokeAccess by whoever may, RevokeAccessSelf by whose it is: any row.
Revoke(r) ==
  /\ r \in accesses /\ \E u \in Users : RowRule(u, r) \/ r.who = u
  /\ accesses' = accesses \ {r}
  /\ UNCHANGED <<supers, pooled, members, userapps, links, made, gone>>

\* GrantPolicyAccess, RevokeIAMManagedPolicyAccess; and who is in the group.
ShareWithGroup(b) ==
  /\ ByAdminOf(b)
  /\ pooled' = IF b \in pooled THEN pooled \ {b} ELSE pooled \cup {b}
  /\ UNCHANGED <<supers, accesses, members, userapps, links, made, gone>>

SetMembers(group) ==
  /\ BySuperuser /\ group # members /\ members' = group
  /\ UNCHANGED <<supers, accesses, pooled, userapps, links, made, gone>>

\* AddAdmin, RevokeAdmin; UserAppViewSet, for superusers, also without is_admin.
AddAppAdmin(v, a, admin) ==
  /\ IF admin THEN ByAppAdmin("update", a) ELSE BySuperuser
  /\ \A x \in userapps : <<x[1], x[2]>> # <<v, a>>
  /\ userapps' = userapps \cup {<<v, a, admin>>}
  /\ UNCHANGED <<supers, accesses, pooled, members, links, made, gone>>

RevokeAppAdmin(x) ==
  /\ x \in userapps /\ ByAppAdmin("update", x[2]) /\ userapps' = userapps \ {x}
  /\ UNCHANGED <<supers, accesses, pooled, members, links, made, gone>>

\* GrantAppAccess; RevokeAppAccess, for superusers.
Connect(a, b) ==
  /\ \E u \in Users : AppRule(u, "update", a) /\ b \in Connectable(u, a)
  /\ links' = links \cup {[app |-> a, on |-> b]}
  /\ UNCHANGED <<supers, accesses, pooled, members, userapps, made, gone>>

Disconnect(l) ==
  /\ l \in links /\ BySuperuser /\ links' = links \ {l}
  /\ UNCHANGED <<supers, accesses, pooled, members, userapps, made, gone>>

\* DeleteDatasource marks the bucket.  S3BucketRevokeAllAccess changes IAM alone:
\* the rows of access stay.
DeleteSource(b) ==
  /\ \E u \in Users : b \in BucketPage(u) /\ BucketRule(u, "destroy", b)
  /\ b \notin gone /\ gone' = gone \cup {b}
  /\ UNCHANGED <<supers, accesses, pooled, members, userapps, links, made>>

\* SetSuperadmin.
SetSuperuser(v) ==
  /\ BySuperuser
  /\ supers' = IF v \in supers THEN supers \ {v} ELSE supers \cup {v}
  /\ UNCHANGED <<accesses, pooled, members, userapps, links, made, gone>>

RightsNext ==
  \/ \E v \in Users :
       \/ \E b \in Sources : CreateSource(v, b)
       \/ \E b \in Sources : \E write, admin \in BOOLEAN : SetAccess(v, b, write, admin)
       \/ \E a \in Apps : \E admin \in BOOLEAN : AddAppAdmin(v, a, admin)
       \/ SetSuperuser(v)
  \/ \E b \in made : ShareWithGroup(b) \/ DeleteSource(b)
  \/ (\E r \in accesses : Revoke(r)) \/ (\E x \in userapps : RevokeAppAdmin(x))
  \/ (\E group \in SUBSET Users : SetMembers(group)) \/ (\E l \in links : Disconnect(l))
  \/ \E a \in Apps, b \in made : Connect(a, b)

RightsSpec == RightsInit /\ [][RightsNext]_rightVars

-----------------------------------------------------------------------------
\* The two forms of each rule agree: what a rule lets somebody do, the query of
\* the view that does it finds; the list of connections has exactly what its
\* reader may open; a page lists only data sources that open, and offers an app
\* only those its reader administers (rules.py, filters.py, forms.py
\* GrantAppAccessForm).
ListedAsAllowed ==
  \A u \in Users :
    /\ \A b \in made, action \in {"retrieve", "update", "destroy"} :
         BucketRule(u, action, b) => b \in S3BucketList(u)
    /\ \A r \in accesses : RowRule(u, r) => r \in RowList(u)
    /\ \A a \in Apps : AppRule(u, "retrieve", a) => a \in AppQuery(u)
    /\ \A l \in links : LinkRule(u, "retrieve", l) <=> l \in AppS3BucketList(u)
    /\ \A l \in links : LinkRule(u, "update", l) => l \in AppS3BucketList(u)
    /\ BucketPages(u) \subseteq {b \in BucketPage(u) : BucketRule(u, "retrieve", b)}
    /\ \A a \in Apps : Connectable(u, a) \subseteq {b \in BucketPage(u) : BucketRule(u, "destroy", b)}

\* "Normal users see only S3 buckets they have access to (looking at
\* UserS3Bucket records)" (filters.py S3BucketFilter).  It does not hold: the
\* query has what a group shares too, which the rule then refuses to open, and
\* a bucket of several people that is shared with a group of theirs comes more
\* than once, so that its lookup fails.
ListedByRows ==
  \A u \in Users \ supers : \A b \in Sources :
    TimesAccessible(u, b) = Cardinality(RowOf(u, b))
=============================================================================
