------------------------------ MODULE Sharing ------------------------------
(***************************************************************************)
(* Dashboards and whom they are shared with: the rows of dashboards, their  *)
(* admins, viewers and e-mail domains, the viewers' own rows, and the Auth0 *)
(* role a viewer needs.  Requests work statement by statement; only the     *)
(* registration of a dashboard is one transaction.  The deletion of a user  *)
(* is in UserAccount; here are the rows of dashboards that go with the row. *)
(*                                                                         *)
(* Access rows have no unique constraint: bags, as counts per pair.         *)
(***************************************************************************)
EXTENDS Naturals, FiniteSets

CONSTANTS
  Boards,     \* rows of dashboards: each is registered at most once
  Admins,     \* users who may register dashboards and be their admins
  Superusers, \* users who may manage every dashboard, and stay
  Emails,     \* addresses of viewers
  DomainOf,   \* the domain of each address
  Jobs,       \* who works at once: requests and the prune task
  MaxBegun,   \* bound: requests and runs begun
  MaxRows,    \* bound: rows for one pair
  MaxMishaps  \* bound: failures

ASSUME SharingAssumption == MaxRows \in Nat \ {0} /\ MaxBegun \in Nat /\ MaxMishaps \in Nat

Domains == {DomainOf[e] : e \in Emails}

VARIABLES
  boards,    \* registered dashboards
  removed,   \* dashboards that were deleted
  gone,      \* users who were deleted
  admin,     \* rows of DashboardAdminAccess for each dashboard and user
  view,      \* rows of DashboardViewerAccess for each dashboard and address
  wide,      \* rows of DashboardDomainAccess for each dashboard and domain
  viewers,   \* rows of DashboardViewer
  role,      \* addresses that have the Auth0 role
  job,       \* what each request does
  begun,     \* number of requests and runs begun
  mishaps,   \* number of failures
  torn,      \* history: addresses pruned not to the end, or while being shared with
  doubled,   \* history: what two requests granted, or deprived of an admin, at once
  bereft     \* history: dashboards whose last admin was deleted, and has no successor

sharingVars == <<boards, removed, gone, admin, view, wide, viewers, role, job, begun,
                 mishaps, torn, doubled, bereft>>
access == <<admin, view, wide>>
ghosts == <<torn, doubled, bereft>>

Resting(j) == job[j].pc = "new"
At(j, pc) == job[j].pc = pc
Go(j, from, next) == At(j, from) /\ job' = [job EXCEPT ![j] = next]
To(j, from, pc) == Go(j, from, [job[j] EXCEPT !.pc = pc])
Over == [pc |-> "new"]

Count(rows, n) == rows \in [DOMAIN rows -> 0 .. n]
Give(rows, pair) == rows[pair] < MaxRows /\ rows' = [rows EXCEPT ![pair] = @ + 1]

SharingTypeOK ==
  /\ boards \subseteq Boards \ removed /\ removed \subseteq Boards /\ gone \subseteq Admins
  /\ viewers \subseteq Emails /\ role \subseteq Emails
  /\ DOMAIN admin = Boards \X Admins /\ Count(admin, MaxRows)
  /\ DOMAIN view = Boards \X Emails /\ Count(view, MaxRows)
  /\ DOMAIN wide = Boards \X Domains /\ Count(wide, MaxRows)
  /\ \A d \in Boards, e \in Emails : view[<<d, e>>] > 0 => d \in boards /\ e \in viewers
  /\ \A d \in Boards, u \in Admins : admin[<<d, u>>] > 0 => d \in boards /\ u \notin gone
  /\ begun \in 0 .. MaxBegun /\ mishaps \in 0 .. MaxMishaps /\ torn \subseteq Emails

SharingInit ==
  /\ boards = {} /\ removed = {} /\ gone = {} /\ viewers = {} /\ role = {}
  /\ admin = [p \in Boards \X Admins |-> 0]
  /\ view = [p \in Boards \X Emails |-> 0]
  /\ wide = [p \in Boards \X Domains |-> 0]
  /\ job = [j \in Jobs |-> [pc |-> "new"]]
  /\ begun = 0 /\ mishaps = 0 /\ torn = {} /\ doubled = {} /\ bereft = {}

\* The viewer rows a registration has inserted and not committed.
Pending(e) == \E j \in Jobs : ~ Resting(j) /\ job[j].op = "register" /\ e \in job[j].fresh
Known(j, e) == e \in viewers \/ (job[j].op = "register" /\ e \in job[j].fresh)

\* An Auth0 call or the process fails: an open transaction is rolled back,
\* everything else stays.  The prune task ends with its first failure.
Mishap(j) ==
  /\ ~ Resting(j) /\ mishaps < MaxMishaps
  /\ mishaps' = mishaps + 1
  /\ job' = [job EXCEPT ![j] = Over]
  /\ torn' = IF At(j, "erase") THEN torn \cup {job[j].email} ELSE torn
  /\ UNCHANGED <<boards, removed, gone, access, viewers, role, doubled, bereft>>

-----------------------------------------------------------------------------
(* RegisterDashboardPreview.post and AddDashboardViewers *)

\* RegisterDashboardForm: a dashboard already there is refused, and no
\* addresses needs a domain.
Registrable(d, emails, domains) == d \notin boards /\ (emails # {} \/ domains # {})

\* The preview inserts the dashboard first: one being registered is waited for.
Register(j, d, u, emails, domains) ==
  /\ u \notin gone /\ d \notin removed /\ Registrable(d, emails, domains)
  /\ \A i \in Jobs : ~ Resting(i) => ~ (job[i].op = "register" /\ job[i].d = d)
  /\ Go(j, "new", [pc |-> "next", op |-> "register", d |-> d, u |-> u, todo |-> emails,
                   email |-> "", domains |-> domains, fresh |-> {}, got |-> {}])
  /\ UNCHANGED <<boards, removed, gone, access, viewers, role, mishaps, ghosts>>

\* An admin of the dashboard manages it, or any superuser.
Manages(u, d) ==
  /\ d \in boards /\ u \notin gone
  /\ u \in Superusers \/ (u \in Admins /\ admin[<<d, u>>] > 0)

\* The addresses that have access already are left out.
NewTo(d, emails) == {e \in emails : view[<<d, e>>] = 0}

Share(j, d, u, emails) ==
  LET new == NewTo(d, emails) IN
  /\ Manages(u, d) /\ new # {}
  /\ Go(j, "new", [pc |-> "next", op |-> "share", d |-> d, u |-> u, email |-> "", todo |-> new])
  /\ UNCHANGED <<boards, removed, gone, access, viewers, role, mishaps, ghosts>>

NextUngiven(j, e) ==   \* mutant: the row of a viewer is made without the role
  /\ At(j, "next") /\ e \in job[j].todo
  /\ Go(j, "next", [job[j] EXCEPT !.pc = IF Known(j, e) THEN "look" ELSE "insert",
                                  !.email = e, !.todo = @ \ {e}])
  /\ UNCHANGED <<boards, removed, gone, access, viewers, role, mishaps, ghosts>>

\* DashboardViewer.get_or_create: a viewer's row is there already, or made.
NextEmail(j, e) ==
  /\ At(j, "next") /\ e \in job[j].todo
  /\ Go(j, "next", [job[j] EXCEPT !.pc = IF Known(j, e) THEN "look" ELSE "role",
                                  !.email = e, !.todo = @ \ {e}])
  /\ UNCHANGED <<boards, removed, gone, access, viewers, role, mishaps, ghosts>>

\* Saving a viewer gives the role first.
GiveRole(j) ==
  /\ To(j, "role", "insert")
  /\ role' = role \cup {job[j].email}
  /\ UNCHANGED <<boards, removed, gone, access, viewers, mishaps, ghosts>>

\* A row inserted meanwhile is used; one not committed yet is waited for.
InsertViewer(j) ==
  LET e == job[j].email IN
  /\ At(j, "insert") /\ (~ Pending(e) \/ Known(j, e))
  /\ IF job[j].op = "register" /\ e \notin viewers
     THEN /\ Go(j, "insert", [job[j] EXCEPT !.pc = "look", !.fresh = @ \cup {e}])
          /\ UNCHANGED viewers
     ELSE To(j, "insert", "look") /\ viewers' = viewers \cup {e}
  /\ UNCHANGED <<boards, removed, gone, access, role, mishaps, ghosts>>

LookForNothing(j) ==   \* mutant: the access row is always inserted
  /\ At(j, "look")
  /\ \/ job[j].op = "register"
        /\ Go(j, "look", [job[j] EXCEPT !.pc = "next", !.got = @ \cup {job[j].email}])
     \/ job[j].op = "share" /\ To(j, "look", "grant")
  /\ UNCHANGED <<boards, removed, gone, access, viewers, role, mishaps, ghosts>>

\* DashboardViewerAccess.get_or_create looks, then inserts.
LookForAccess(j) ==
  LET e == job[j].email IN
  /\ At(j, "look")
  /\ \/ job[j].op = "register"
        /\ Go(j, "look", [job[j] EXCEPT !.pc = "next", !.got = @ \cup {e}])
     \/ job[j].op = "share"
        /\ To(j, "look", IF view[<<job[j].d, e>>] > 0 THEN "next" ELSE "grant")
  /\ UNCHANGED <<boards, removed, gone, access, viewers, role, mishaps, ghosts>>

Granting(d, e) ==
  {j \in Jobs : At(j, "grant") /\ job[j].d = d /\ job[j].email = e}

\* A viewer, a dashboard or a user that has gone fails the foreign key.
GrantAccess(j) ==
  LET d == job[j].d  e == job[j].email IN
  /\ At(j, "grant")
  /\ IF e \in viewers /\ d \in boards /\ job[j].u \notin gone
     THEN /\ To(j, "grant", "next") /\ Give(view, <<d, e>>)
          /\ doubled' = IF Granting(d, e) # {j} THEN doubled \cup {<<d, e>>} ELSE doubled
     ELSE job' = [job EXCEPT ![j] = Over] /\ UNCHANGED <<view, doubled>>
  /\ UNCHANGED <<boards, removed, gone, admin, wide, viewers, role, mishaps, torn, bereft>>

ShareDone(j) ==
  /\ At(j, "next") /\ job[j].op = "share" /\ job[j].todo = {}
  /\ Go(j, "next", Over)
  /\ UNCHANGED <<boards, removed, gone, access, viewers, role, mishaps, ghosts>>

\* The transaction commits, unless a viewer or the user has gone meanwhile.
CommitRegister(j) ==
  LET d == job[j].d  got == job[j].got IN
  /\ At(j, "next") /\ job[j].op = "register" /\ job[j].todo = {}
  /\ Go(j, "next", Over)
  /\ IF got \subseteq viewers \cup job[j].fresh /\ job[j].u \notin gone
     THEN /\ boards' = boards \cup {d}
          /\ viewers' = viewers \cup job[j].fresh
          /\ admin' = [admin EXCEPT ![<<d, job[j].u>>] = 1]
          /\ view' = [p \in DOMAIN view |-> IF p \in {d} \X got THEN 1 ELSE view[p]]
          /\ wide' = [p \in DOMAIN wide |-> IF p \in {d} \X job[j].domains THEN 1 ELSE wide[p]]
     ELSE UNCHANGED <<boards, viewers, access>>
  /\ UNCHANGED <<removed, gone, role, mishaps, ghosts>>

-----------------------------------------------------------------------------
(* Withdrawing: RevokeDashboardViewer, RevokeDomainAccess, DeleteDashboard *)

Without(rows, pairs) == [p \in DOMAIN rows |-> IF p \in pairs THEN 0 ELSE rows[p]]

\* Dashboard.delete_viewers: .get() raises on two rows.
DeleteViewers(d, emails) ==
  /\ \A e \in emails : view[<<d, e>>] = 1
  /\ view' = Without(view, {d} \X emails)

RevokeViewer(j, d, u, e) ==
  /\ Manages(u, d)
  /\ Go(j, "new", Over)
  /\ DeleteViewers(d, {e})
  /\ UNCHANGED <<boards, removed, gone, admin, wide, viewers, role, mishaps, ghosts>>

\* The form offers the domains the dashboard has not.
OfferedTo(d) == {m \in Domains : wide[<<d, m>>] = 0}

GrantDomain(j, d, u, m) ==
  /\ Manages(u, d) /\ m \in OfferedTo(d)
  /\ Go(j, "new", Over)
  /\ wide' = [wide EXCEPT ![<<d, m>>] = 1]
  /\ UNCHANGED <<boards, removed, gone, admin, view, viewers, role, mishaps, ghosts>>

RevokeDomain(j, d, u, m) ==
  /\ Manages(u, d) /\ wide[<<d, m>>] = 1
  /\ Go(j, "new", Over)
  /\ wide' = [wide EXCEPT ![<<d, m>>] = 0]
  /\ UNCHANGED <<boards, removed, gone, admin, view, viewers, role, mishaps, ghosts>>

\* The rows of a dashboard go with it.
DeleteBoard(j, d, u) ==
  LET without(rows) == Without(rows, {p \in DOMAIN rows : p[1] = d}) IN
  /\ Manages(u, d)
  /\ Go(j, "new", Over)
  /\ boards' = boards \ {d} /\ removed' = removed \cup {d}
  /\ admin' = without(admin) /\ view' = without(view) /\ wide' = without(wide)
  /\ UNCHANGED <<gone, viewers, role, mishaps, ghosts>>

-----------------------------------------------------------------------------
(* Admins: AddDashboardAdmin and RevokeDashboardAdmin *)

Changing(d, pc) == {j \in Jobs : At(j, pc) /\ job[j].d = d}

\* Users who are admins already are refused.
Appointable(d) == {u \in Admins \ gone : admin[<<d, u>>] = 0}

AddAdmin(j, d, u, new) ==
  /\ Manages(u, d) /\ new \in Appointable(d)
  /\ Go(j, "new", [pc |-> "appoint", op |-> "add", d |-> d, u |-> u, who |-> new])
  /\ UNCHANGED <<boards, removed, gone, access, viewers, role, mishaps, ghosts>>

Appoint(j) ==
  LET d == job[j].d  pair == <<job[j].d, job[j].who>> IN
  /\ At(j, "appoint")
  /\ doubled' = IF \E i \in Changing(d, "appoint") : i # j /\ job[i].who = job[j].who
                THEN doubled \cup {pair} ELSE doubled
  /\ job' = [job EXCEPT ![j] = Over]
  /\ IF d \in boards /\ {job[j].u, job[j].who} \cap gone = {}
     THEN Give(admin, pair) /\ bereft' = bereft \ {d}
     ELSE UNCHANGED <<admin, bereft>>
  /\ UNCHANGED <<boards, removed, gone, view, wide, viewers, role, mishaps, torn>>

\* The rows of admins are counted first, and one is deleted afterwards.
Depose(j, d, u, who) ==
  /\ Manages(u, d) /\ admin[<<d, who>>] = 1
  /\ \E a \in Admins \ {who} : admin[<<d, a>>] > 0
  /\ Go(j, "new", [pc |-> "remove", op |-> "depose", d |-> d, who |-> who])
  /\ UNCHANGED <<boards, removed, gone, access, viewers, role, mishaps, ghosts>>

RemoveAdmin(j) ==
  LET d == job[j].d  pair == <<job[j].d, job[j].who>> IN
  /\ Go(j, "remove", Over)
  /\ admin' = IF admin[pair] = 1 THEN [admin EXCEPT ![pair] = 0] ELSE admin
  /\ doubled' = IF Changing(d, "remove") # {j} THEN doubled \cup {d} ELSE doubled
  /\ UNCHANGED <<boards, removed, gone, view, wide, viewers, role, mishaps, torn, bereft>>

\* UserDelete: the rows that make a user an admin go with the user, counted by
\* nobody.  Its requests under way go on until they name it in a row.
RemoveUser(j, u) ==
  LET managed == {d \in Boards : admin[<<d, u>>] > 0} IN
  /\ u \notin gone
  /\ Go(j, "new", Over)
  /\ gone' = gone \cup {u}
  /\ admin' = Without(admin, Boards \X {u})
  /\ bereft' = bereft \cup {d \in managed : \A a \in Admins : admin'[<<d, a>>] = 0}
  /\ doubled' = doubled \cup {d \in managed : Changing(d, "remove") # {}}
  /\ UNCHANGED <<boards, removed, view, wide, viewers, role, mishaps, torn>>

-----------------------------------------------------------------------------
(* prune_dashboard_viewers *)

Unshared == {e \in viewers : \A d \in Boards : view[<<d, e>>] = 0}
InUse == {m \in Domains : \E d \in Boards : wide[<<d, m>>] > 0}

\* The viewers without a dashboard and the domains with one are read at once;
\* viewers of a domain in use are kept.  Bound: one run of the task at a time.
StartPrune(j) ==
  /\ \A i \in Jobs : ~ Resting(i) => job[i].op # "prune"
  /\ Go(j, "new", [pc |-> "pick", op |-> "prune", email |-> "",
                   todo |-> {e \in Unshared : DomainOf[e] \notin InUse}])
  /\ UNCHANGED <<boards, removed, gone, access, viewers, role, mishaps, ghosts>>

PruneNext(j) ==
  /\ At(j, "pick")
  /\ \/ job[j].todo = {} /\ Go(j, "pick", Over)
     \/ \E e \in job[j].todo :
          Go(j, "pick", [job[j] EXCEPT !.pc = "unrole", !.email = e, !.todo = @ \ {e}])
  /\ UNCHANGED <<boards, removed, gone, access, viewers, role, mishaps, ghosts>>

RemoveRole(j) ==
  /\ To(j, "unrole", "erase")
  /\ role' = role \ {job[j].email}
  /\ UNCHANGED <<boards, removed, gone, access, viewers, mishaps, ghosts>>

EraseAlone(j) ==   \* mutant: the access rows stay
  LET e == job[j].email IN
  /\ To(j, "erase", "pick")
  /\ viewers' = viewers \ {e}
  /\ torn' = IF \E i \in Jobs : At(i, "insert") /\ job[i].email = e
             THEN torn \cup {e} ELSE torn \ {e}
  /\ UNCHANGED <<boards, removed, gone, access, role, mishaps, doubled, bereft>>

\* The row goes with its access rows.  A request that looked for the viewer
\* before it had a row goes on as if it still had the role.
EraseViewer(j) ==
  LET e == job[j].email IN
  /\ To(j, "erase", "pick")
  /\ viewers' = viewers \ {e}
  /\ view' = Without(view, Boards \X {e})
  /\ torn' = IF \E i \in Jobs : At(i, "insert") /\ job[i].email = e
             THEN torn \cup {e} ELSE torn \ {e}
  /\ UNCHANGED <<boards, removed, gone, admin, wide, role, mishaps, doubled, bereft>>

-----------------------------------------------------------------------------
Begins(j) ==
  /\ begun < MaxBegun /\ begun' = begun + 1
  /\ \/ \E d \in Boards, u \in Admins :
          \/ \E emails \in SUBSET Emails, domains \in {{}} \cup {{m} : m \in Domains} :
               Register(j, d, u, emails, domains)
     \/ \E d \in Boards, u \in Admins \cup Superusers :
          \/ \E emails \in SUBSET Emails : Share(j, d, u, emails)
          \/ \E e \in Emails : RevokeViewer(j, d, u, e)
          \/ \E m \in Domains : GrantDomain(j, d, u, m) \/ RevokeDomain(j, d, u, m)
          \/ \E who \in Admins : AddAdmin(j, d, u, who) \/ Depose(j, d, u, who)
          \/ DeleteBoard(j, d, u)
     \/ \E u \in Admins : RemoveUser(j, u)
     \/ StartPrune(j)

GoesOn(j) ==
  /\ \/ \E e \in Emails : NextEmail(j, e)
     \/ GiveRole(j) \/ InsertViewer(j) \/ LookForAccess(j) \/ GrantAccess(j) \/ ShareDone(j)
     \/ CommitRegister(j) \/ Appoint(j) \/ RemoveAdmin(j)
     \/ PruneNext(j) \/ RemoveRole(j) \/ EraseViewer(j)
     \/ Mishap(j)
  /\ UNCHANGED begun

SharingNext == \E j \in Jobs : Begins(j) \/ GoesOn(j)

SharingSpec == SharingInit /\ [][SharingNext]_sharingVars

-----------------------------------------------------------------------------
(* Properties *)

\* An address a dashboard is shared with has the Auth0 role that lets it look,
\* except while it is being pruned, and unless a run of the task ended between
\* the role and the row, or erased a viewer a request had just looked for
\* (DashboardViewer.save and delete, prune_dashboard_viewers).
ViewersHaveRole ==
  \A d \in Boards, e \in Emails :
    view[<<d, e>>] > 0 =>
      e \in role \cup torn \/ \E j \in Jobs : At(j, "erase") /\ job[j].email = e

\* A registered dashboard has an admin (RevokeDashboardAdmin counts them before
\* it deletes a row), unless its last one was deleted as a user and nobody has
\* been appointed since, or a removal overlapped with another removal or with
\* the deletion of an admin.  Nobody is admin or viewer of one twice, which
\* makes removing them raise (AddDashboardAdminForm, Dashboard.add_viewers),
\* but for what two requests granted at once.
AccessStaysSound ==
  /\ \A d \in boards \ (doubled \cup bereft) : \E u \in Admins : admin[<<d, u>>] > 0
  /\ \A p \in DOMAIN view \ doubled : view[p] <= 1
  /\ \A p \in DOMAIN admin \ doubled : admin[p] <= 1
=============================================================================
