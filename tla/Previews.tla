------------------------------ MODULE Previews ------------------------------
(***************************************************************************)
(* What an administrator submits and then confirms on a second page: access *)
(* to a data source for somebody outside the ministry, and the registration *)
(* of a dashboard.  Between the pages the form's values are in the session, *)
(* which every tab of the browser shares.                                   *)
(*                                                                         *)
(* A request reads the session as it begins and writes it back whole as it  *)
(* ends, if it changed it and did not fail (Django's SessionMiddleware).    *)
(* Access levels and paths go with the submission.  That the user may grant *)
(* is left out, as are viewers and domains of a dashboard (Sharing).        *)
(***************************************************************************)
EXTENDS Naturals, Sequences

CONSTANTS
  Tabs,
  Datasources,    \* data sources
  Guests,         \* external users
  Staff,          \* internal users
  Analyses,       \* QuickSight dashboards
  MaxSubmits,     \* bound: submissions that wait for a confirmation
  MaxTrips        \* bound: requests that fail, grants and dashboards undone

ASSUME PreviewsAssumption == MaxSubmits \in Nat /\ MaxTrips \in Nat

VARIABLES
  session,        \* the submission that waits, of each kind
  submitted,      \* history: every submission
  page,           \* what each tab shows
  call,           \* the request each tab waits for
  rows,           \* access rows: <<data source, user>>
  shared,         \* registered dashboards
  confirmed,      \* history: what was carried out from which page
  overlapped,     \* history: two requests were under way together
  trips

previewVars ==
  <<session, submitted, page, call, rows, shared, confirmed, overlapped, trips>>

None == 0
Ids == 1 .. MaxSubmits
Kinds == {"grant", "share"}
NoCall == [name |-> "none", on |-> None, read |-> [k \in Kinds |-> None]]
Page(name, on, shown) == [name |-> name, on |-> on, shown |-> shown]
Home == Page("home", None, None)

PreviewsTypeOK ==
  /\ session \in [Kinds -> {None} \cup Ids]
  /\ \A k \in Kinds : session[k] # None => submitted[session[k]].kind = k
  /\ Len(submitted) <= MaxSubmits
  /\ \A t \in Tabs : page[t].shown \in {None} \cup DOMAIN submitted
  /\ rows \subseteq Datasources \X (Guests \cup Staff) /\ shared \subseteq Analyses
  /\ \A c \in confirmed : c.used \in DOMAIN submitted
  /\ overlapped \in BOOLEAN /\ trips \in 0 .. MaxTrips

PreviewsInit ==
  /\ session = [k \in Kinds |-> None] /\ submitted = <<>>
  /\ page = [t \in Tabs |-> Home] /\ call = [t \in Tabs |-> NoCall]
  /\ rows = {} /\ shared = {}
  /\ confirmed = {} /\ overlapped = FALSE /\ trips = 0

\* A tab asks for a page, or posts the one it shows: the session is read.  Of
\* requests that overlap nothing is stated, so what comes after them is left out.
Ask(t, name, on) ==
  /\ call[t] = NoCall /\ ~ overlapped
  /\ call' = [call EXCEPT ![t] = [name |-> name, on |-> on, read |-> session]]
  /\ overlapped' = (overlapped \/ \E u \in Tabs \ {t} : call[u] # NoCall)
  /\ UNCHANGED <<session, submitted, page, rows, shared, confirmed, trips>>

\* The answer: the session is written if it changed.
Answer(t, name, s, next) ==
  /\ call[t].name = name
  /\ session' = IF s = call[t].read THEN session ELSE s
  /\ page' = [page EXCEPT ![t] = next] /\ call' = [call EXCEPT ![t] = NoCall]
  /\ UNCHANGED <<overlapped, trips>>

\* An error page: nothing is written, and going back shows the page as it was.
Fails(t) ==
  /\ call[t] # NoCall /\ trips < MaxTrips /\ trips' = trips + 1
  /\ call' = [call EXCEPT ![t] = NoCall]
  /\ UNCHANGED <<session, submitted, page, rows, shared, confirmed, overlapped>>

Without(t, kind) == [call[t].read EXCEPT ![kind] = None]
Waiting(t, kind) == call[t].read[kind]
Submits(kind, on, to) ==
  /\ Len(submitted) < MaxSubmits
  /\ submitted' = Append(submitted, [kind |-> kind, on |-> on, to |-> to])

\* How often the submission was carried out is part of the record.
Confirms(t, n, on) ==
  confirmed' = confirmed \cup
    {[shown |-> page[t].shown, used |-> n, on |-> on,
      again |-> \E c \in confirmed : c.used = n]}

-----------------------------------------------------------------------------
(* GrantAccess, ConfirmExternalGrantAccess *)

ToForm(t, b) == Ask(t, "form", b)
ToSubmit(t) == page[t].name = "form" /\ Ask(t, "submit", page[t].on)
ToConfirm(t) == page[t].name \in {"submitted", "confirm"} /\ Ask(t, "look", page[t].on)
ToGrant(t) == page[t].name = "confirm" /\ Ask(t, "confirm", page[t].on)

OpenForm(t) ==
  /\ Answer(t, "form", Without(t, "grant"), Page("form", call[t].on, None))
  /\ UNCHANGED <<submitted, rows, shared, confirmed>>

SubmitGuest(t, g) ==
  /\ call[t].name = "submit" /\ Submits("grant", call[t].on, g)
  /\ Answer(t, "submit", [call[t].read EXCEPT !["grant"] = Len(submitted')],
            Page("submitted", call[t].on, None))
  /\ UNCHANGED <<rows, shared, confirmed>>

SubmitStaff(t, u) ==
  /\ call[t].name = "submit" /\ <<call[t].on, u>> \notin rows
  /\ Answer(t, "submit", Without(t, "grant"), Home)
  /\ rows' = rows \cup {<<call[t].on, u>>}
  /\ UNCHANGED <<submitted, shared, confirmed>>

\* Only if it matches this data source.
AccessData(t) ==
  LET n == Waiting(t, "grant") IN
  IF n # None /\ submitted[n].on = call[t].on THEN n ELSE None

LookAtGrant(t) ==
  /\ IF AccessData(t) = None
     THEN Answer(t, "look", Without(t, "grant"), Page("form", call[t].on, None))
     ELSE Answer(t, "look", call[t].read, Page("confirm", call[t].on, AccessData(t)))
  /\ UNCHANGED <<submitted, rows, shared, confirmed>>

\* The values come from the session, the data source from the address; without
\* values, or with a row there already, the request fails.
ConfirmGrant(t) ==
  LET n == Waiting(t, "grant") b == call[t].on IN
  /\ call[t].name = "confirm" /\ n # None /\ <<b, submitted[n].to>> \notin rows
  /\ Answer(t, "confirm", Without(t, "grant"), page[t])
  /\ rows' = rows \cup {<<b, submitted[n].to>>} /\ Confirms(t, n, b)
  /\ UNCHANGED <<submitted, shared>>

ConfirmRaises(t) ==
  LET n == Waiting(t, "grant") IN
  /\ call[t].name = "confirm"
  /\ n # None => <<call[t].on, submitted[n].to>> \in rows
  /\ call' = [call EXCEPT ![t] = NoCall]
  /\ UNCHANGED <<session, submitted, page, rows, shared, confirmed, overlapped, trips>>

\* Access is revoked, by whoever may.
Revoked(r) ==
  /\ r \in rows /\ rows' = rows \ {r} /\ trips < MaxTrips /\ trips' = trips + 1
  /\ UNCHANGED <<session, submitted, page, call, shared, confirmed, overlapped>>

-----------------------------------------------------------------------------
(* RegisterDashboard, RegisterDashboardPreview, CancelDashboardRegistration *)

ToRegister(t) == Ask(t, "register", None)
ToShare(t) == page[t].name = "register" /\ Ask(t, "share", None)
ToPreview(t) == page[t].name \in {"chosen", "preview"} /\ Ask(t, "preview", None)
ToPost(t) == page[t].name = "preview" /\ Ask(t, "post", None)
ToCancel(t) == page[t].name = "preview" /\ Ask(t, "cancel", None)

\* What waits is offered again, as the form's initial values.
OpenRegister(t) ==
  /\ Answer(t, "register", call[t].read, Page("register", None, None))
  /\ UNCHANGED <<submitted, rows, shared, confirmed>>

Choose(t, d) ==
  /\ call[t].name = "share" /\ d \notin shared /\ Submits("share", d, None)
  /\ Answer(t, "share", [call[t].read EXCEPT !["share"] = Len(submitted')],
            Page("chosen", None, None))
  /\ UNCHANGED <<rows, shared, confirmed>>

Preview(t) ==
  /\ Answer(t, "preview", call[t].read,
            IF Waiting(t, "share") = None THEN Page("register", None, None)
            ELSE Page("preview", None, Waiting(t, "share")))
  /\ UNCHANGED <<submitted, rows, shared, confirmed>>

PostKeeps(t) ==   \* mutant: read from the session, not taken out of it
  LET n == Waiting(t, "share") IN
  /\ n # None => submitted[n].on \notin shared
  /\ Answer(t, "post", call[t].read, page[t])
  /\ IF n = None THEN UNCHANGED <<shared, confirmed>>
     ELSE shared' = shared \cup {submitted[n].on} /\ Confirms(t, n, submitted[n].on)
  /\ UNCHANGED <<submitted, rows>>

\* A dashboard registered meanwhile raises; going back shows the preview again.
Post(t) ==
  LET n == Waiting(t, "share") IN
  /\ n # None => submitted[n].on \notin shared
  /\ Answer(t, "post", Without(t, "share"), page[t])
  /\ IF n = None THEN UNCHANGED <<shared, confirmed>>
     ELSE shared' = shared \cup {submitted[n].on} /\ Confirms(t, n, submitted[n].on)
  /\ UNCHANGED <<submitted, rows>>

PostRaises(t) ==
  LET n == Waiting(t, "share") IN
  /\ call[t].name = "post" /\ n # None /\ submitted[n].on \in shared
  /\ call' = [call EXCEPT ![t] = NoCall]
  /\ UNCHANGED <<session, submitted, page, rows, shared, confirmed, overlapped, trips>>

Cancel(t) ==
  /\ Answer(t, "cancel", Without(t, "share"), Home)
  /\ UNCHANGED <<submitted, rows, shared, confirmed>>

\* DeleteDashboard: it may be registered again.
Unshare(d) ==
  /\ d \in shared /\ shared' = shared \ {d} /\ trips < MaxTrips /\ trips' = trips + 1
  /\ UNCHANGED <<session, submitted, page, call, rows, confirmed, overlapped>>

-----------------------------------------------------------------------------
PreviewsNext ==
  \/ \E t \in Tabs :
       \/ ToSubmit(t) \/ ToConfirm(t) \/ ToGrant(t)
       \/ OpenForm(t) \/ LookAtGrant(t) \/ ConfirmGrant(t) \/ ConfirmRaises(t)
       \/ \E b \in Datasources : ToForm(t, b)
       \/ \E g \in Guests : SubmitGuest(t, g)
       \/ \E u \in Staff : SubmitStaff(t, u)
       \/ ToRegister(t) \/ ToShare(t) \/ ToPreview(t) \/ ToPost(t) \/ ToCancel(t)
       \/ OpenRegister(t) \/ Preview(t) \/ Post(t) \/ PostRaises(t) \/ Cancel(t)
       \/ \E d \in Analyses : Choose(t, d)
       \/ Fails(t)
  \/ (\E r \in rows : Revoked(r)) \/ \E d \in shared : Unshare(d)

PreviewsSpec == PreviewsInit /\ [][PreviewsNext]_previewVars

-----------------------------------------------------------------------------
\* While no two requests of one browser overlap, what is confirmed is what the
\* page showed, for the data source it showed, or what another tab submitted
\* since; and nothing submitted is carried out twice, whichever page is posted
\* again, after a failure or after what it did was undone
\* (datasource.py GrantAccess.get_form_kwargs, dashboard.py RegisterDashboardPreview).
ConfirmedOnceAsShown ==
  ~ overlapped =>
    \A c \in confirmed :
      /\ ~ c.again
      /\ (c.used = c.shown /\ c.on = submitted[c.used].on) \/ c.used > c.shown
=============================================================================
