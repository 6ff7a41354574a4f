---------------------------- MODULE AppSettings ----------------------------
(***************************************************************************)
(* The settings of an app on its page: what the page gathers from GitHub,   *)
(* the database and Auth0, call by call, and what it then offers for each   *)
(* environment; and the requests that set or delete a variable or a secret  *)
(* of an environment on GitHub, several of which may be under way.          *)
(*                                                                         *)
(* A variable is AUTHENTICATION_REQUIRED, a secret is AUTH0_CLIENT_ID: what *)
(* the page decides by.  Wording, links, display names, other settings and  *)
(* the form's initial values are left out.                                  *)
(***************************************************************************)
EXTENDS FiniteSets, Naturals

CONSTANTS
  PageEnvs,       \* names of environments of the app's repository
  Admins,         \* requests under way together
  Readers,        \* readers of the page
  MaxSettings,    \* bound: requests to set or delete
  MaxHiccups      \* bound: GitHub and Auth0 calls that fail, environments gone

ASSUME SettingsAssumption == MaxSettings \in Nat /\ MaxHiccups \in Nat

VARIABLES
  stored,         \* GitHub: what each setting of an environment holds
  standing,       \* GitHub: environments
  known,          \* database: environments app_conf has a client of
  edit,           \* the requests that set or delete
  could,          \* history: what each setting may hold, by the requests that ended
  view,           \* the page as each reader has gathered it
  edits, hiccups

settingVars == <<stored, standing, known, edit, could, view, edits, hiccups>>

Absent == "absent"
Values == [variable |-> {"true", "false"}, secret |-> {"set"}]
Settings == {"variable", "secret"} \X PageEnvs
NoEdit == [step |-> "free"]
Offers == {"redundant", "create", "remove"}

\* The page of one reader: the environments still to read, what was read of the
\* others, the message shown, and (history) what stood and was known throughout.
Blank == [step |-> "blank"]
ViewTypeOK(v) ==
  \/ v = Blank
  \/ /\ v.step \in {"list", "secrets", "variables", "status", "shown"}
     /\ v.todo \subseteq PageEnvs /\ v.now \in SUBSET PageEnvs /\ v.message \in BOOLEAN
     /\ v.read \subseteq [env : PageEnvs, secret : BOOLEAN, required : BOOLEAN]
     /\ v.offers \subseteq PageEnvs \X Offers /\ v.stood \subseteq PageEnvs
     /\ v.knew \subseteq PageEnvs /\ v.on \subseteq PageEnvs

SettingsTypeOK ==
  /\ \A s \in Settings : stored[s] \in Values[s[1]] \cup {Absent}
  /\ \A s \in Settings : could[s] \subseteq Values[s[1]] \cup {Absent}
  /\ standing \subseteq PageEnvs /\ known \subseteq PageEnvs
  /\ \A a \in Admins :
       edit[a] = NoEdit \/ edit[a].step \in {"begun", "create", "update", "delete"}
  /\ \A r \in Readers : ViewTypeOK(view[r])
  /\ edits \in 0 .. MaxSettings /\ hiccups \in 0 .. MaxHiccups

SettingsInit ==
  /\ stored = [s \in Settings |-> Absent] /\ could = [s \in Settings |-> {Absent}]
  /\ standing = PageEnvs /\ known = {}
  /\ edit = [a \in Admins |-> NoEdit] /\ view = [r \in Readers |-> Blank]
  /\ edits = 0 /\ hiccups = 0

Hiccup == hiccups < MaxHiccups /\ hiccups' = hiccups + 1

-----------------------------------------------------------------------------
(* Setting and deleting *)

Editing == {a \in Admins : edit[a] # NoEdit}
EndedOn(s, value) ==
  [a \in Admins |->
     IF edit[a] # NoEdit /\ edit[a].on = s
     THEN [edit[a] EXCEPT !.since = @ \cup {value}] ELSE edit[a]]

\* AppVariableCreate, AppVariableUpdate, AppSecretCreate, AppSecretUpdate; and
\* AppVariableDelete, AppSecretDelete: value is Absent.
AskSetting(a, s, value) ==
  /\ edit[a] = NoEdit /\ edits < MaxSettings /\ edits' = edits + 1
  /\ edit' = [edit EXCEPT ![a] = [step |-> "begun", on |-> s, value |-> value, since |-> {}]]
  /\ UNCHANGED <<stored, standing, known, could, view, hiccups>>

\* The repository, for its id; for a secret the environment's public key too.
FindRepository(a) ==
  /\ edit[a] # NoEdit /\ edit[a].step = "begun"
  /\ edit[a].on[1] = "secret" /\ edit[a].value # Absent => edit[a].on[2] \in standing
  /\ edit' = [edit EXCEPT ![a].step = IF edit[a].value = Absent THEN "delete" ELSE "create"]
  /\ UNCHANGED <<stored, standing, known, could, view, edits, hiccups>>

\* Success is answered: the setting holds this value, or that of a request
\* which ended while this one was under way.
Succeeds(a) ==
  LET s == edit[a].on IN
  /\ edit' = [EndedOn(s, edit[a].value) EXCEPT ![a] = NoEdit]
  /\ could' = [could EXCEPT ![s] = edit[a].since \cup {edit[a].value}]

\* An error page: whether the setting was changed is not known.
Errs(a) ==
  LET s == edit[a].on IN
  /\ edit' = [EndedOn(s, edit[a].value) EXCEPT ![a] = NoEdit]
  /\ could' = [could EXCEPT ![s] = @ \cup {edit[a].value}]

Stores(a) == stored' = [stored EXCEPT ![edit[a].on] = edit[a].value]

\* POST of a variable: refused if there is one.  PUT of a secret: created or
\* replaced.
Creates(a) ==
  LET s == edit[a].on IN
  /\ edit[a] # NoEdit /\ edit[a].step = "create" /\ s[2] \in standing
  /\ s[1] = "variable" => stored[s] = Absent
  /\ Stores(a) /\ Succeeds(a)
  /\ UNCHANGED <<standing, known, view, edits, hiccups>>

\* Any failure to create a variable is followed by a PATCH; the failed call
\* may have been carried out.
NotCreated(a) ==
  LET s == edit[a].on IN
  /\ edit[a] # NoEdit /\ edit[a].step = "create" /\ s[1] = "variable"
  /\ \/ (stored[s] # Absent \/ s[2] \notin standing) /\ UNCHANGED <<stored, hiccups>>
     \/ stored[s] = Absent /\ s[2] \in standing /\ Hiccup /\ (Stores(a) \/ UNCHANGED stored)
  /\ edit' = [edit EXCEPT ![a].step = "update"]
  /\ UNCHANGED <<standing, known, could, view, edits>>

Updates(a) ==
  LET s == edit[a].on IN
  /\ edit[a] # NoEdit /\ edit[a].step = "update" /\ stored[s] # Absent
  /\ Stores(a) /\ Succeeds(a)
  /\ UNCHANGED <<standing, known, view, edits, hiccups>>

\* A setting that is not there, or whose environment is not, answers 404: done.
Deletes(a) ==
  /\ edit[a] # NoEdit /\ edit[a].step = "delete"
  /\ Stores(a) /\ Succeeds(a)
  /\ UNCHANGED <<standing, known, view, edits, hiccups>>

\* What GitHub refuses or does not answer to, the request reports.
EditFails(a) ==
  LET s == edit[a].on IN
  /\ edit[a] # NoEdit
  /\ \/ /\ \/ edit[a].step = "begun" /\ s[2] \notin standing
           \/ edit[a].step = "create" /\ s[1] = "secret" /\ s[2] \notin standing
           \/ edit[a].step = "update" /\ stored[s] = Absent
        /\ UNCHANGED <<stored, hiccups>>
     \/ /\ edit[a].step = "begun" /\ Hiccup /\ UNCHANGED stored
     \/ /\ edit[a].step \in {"create", "update", "delete"} /\ Hiccup
        /\ s[1] = "variable" => edit[a].step # "create"
        /\ \/ UNCHANGED stored
           \/ s[2] \in standing /\ (edit[a].step = "update" => stored[s] # Absent) /\ Stores(a)
  /\ Errs(a)
  /\ UNCHANGED <<standing, known, view, edits>>

-----------------------------------------------------------------------------
(* The page *)

Gathering == {r \in Readers : view[r].step \notin {"blank", "shown"}}

OpenPage(r) ==
  /\ view[r] = Blank
  /\ view' = [view EXCEPT ![r] =
       [step |-> "list", todo |-> {}, now |-> {}, read |-> {}, message |-> FALSE,
        offers |-> {}, on |-> {}, stood |-> standing, knew |-> known]]
  /\ UNCHANGED <<stored, standing, known, edit, could, edits, hiccups>>

\* get_deployment_envs, then the enabled connections from Auth0.
ListEnvs(r) ==
  /\ view[r].step = "list"
  /\ \/ /\ UNCHANGED hiccups
        /\ view' = [view EXCEPT ![r].step = "secrets", ![r].todo = standing]
     \/ /\ Hiccup
        /\ view' = [view EXCEPT ![r].step = "status", ![r].message = TRUE]
  /\ UNCHANGED <<stored, standing, known, edit, could, edits>>

\* The secrets of one environment.
ReadSecrets(r) ==
  /\ view[r].step = "secrets" /\ view[r].todo # {}
  /\ \E e \in view[r].todo :
       /\ e \in standing
       /\ view' = [view EXCEPT ![r].step = "variables", ![r].now = {e},
                               ![r].read = @ \cup {[env |-> e, required |-> TRUE,
                                 secret |-> stored[<<"secret", e>>] # Absent]}]
  /\ UNCHANGED <<stored, standing, known, edit, could, edits, hiccups>>

\* Then its variables: none means that authentication is required.
ReadVariables(r) ==
  LET e == CHOOSE x \in view[r].now : TRUE IN
  /\ view[r].step = "variables" /\ e \in standing
  /\ view' = [view EXCEPT ![r].step = "secrets", ![r].now = {}, ![r].todo = @ \ {e},
       ![r].read = {IF x.env = e THEN [x EXCEPT !.required = stored[<<"variable", e>>] # "false"]
                    ELSE x : x \in @}]
  /\ UNCHANGED <<stored, standing, known, edit, could, edits, hiccups>>

ReadStopsSilently(r) ==   \* mutant: the second handler leaves the message unset
  /\ view[r].step \in {"secrets", "variables"} /\ view[r].todo # {}
  /\ \/ \E e \in view[r].todo \ standing :
          (view[r].now # {} => e \in view[r].now) /\ UNCHANGED hiccups
     \/ Hiccup
  /\ view' = [view EXCEPT ![r].step = "status",
                          ![r].read = {x \in @ : x.env \notin view[r].now}]
  /\ UNCHANGED <<stored, standing, known, edit, could, edits>>

\* A call fails: what was read of this environment is dropped, the rest is not
\* read, and the page says why.
ReadStops(r) ==
  /\ view[r].step \in {"secrets", "variables"} /\ view[r].todo # {}
  /\ \/ \E e \in view[r].todo \ standing :
          (view[r].now # {} => e \in view[r].now) /\ UNCHANGED hiccups
     \/ Hiccup
  /\ view' = [view EXCEPT ![r].step = "status", ![r].message = TRUE,
                          ![r].read = {x \in @ : x.env \notin view[r].now}]
  /\ UNCHANGED <<stored, standing, known, edit, could, edits>>

\* What an environment that was read is offered, ok being its clients' status.
OfferOf(x, ok) ==
  IF x.required THEN IF x.env \in ok THEN {} ELSE {"create"}
  ELSE IF x.secret \/ x.env \in known THEN {"remove"} ELSE {}

SeenIn(read) == {x.env : x \in read}

\* An environment with a client that was not read is taken for one that is gone.
OffersOf(read, ok) ==
  (UNION {{x.env} \X OfferOf(x, ok) : x \in read}) \cup ((known \ SeenIn(read)) \X {"redundant"})

\* The clients of app_conf, each looked up in Auth0; then the offers.
Show(r) ==
  /\ view[r].step = "status" \/ (view[r].step = "secrets" /\ view[r].todo = {})
  /\ \E ok \in {known} \cup {known \ {e} : e \in known} :
       /\ IF ok = known THEN UNCHANGED hiccups ELSE Hiccup
       /\ view' = [view EXCEPT ![r].step = "shown", ![r].on = SeenIn(view[r].read) \cup known,
            ![r].offers = OffersOf(view[r].read, ok), ![r].read = {},
            ![r].todo = {}, ![r].now = {}]
  /\ UNCHANGED <<stored, standing, known, edit, could, edits>>

\* Auth0 does not list the connections: an error page.
PageFails(r) ==
  /\ view[r].step = "secrets" /\ view[r].read = {} /\ Hiccup
  /\ view' = [view EXCEPT ![r] = Blank]
  /\ UNCHANGED <<stored, standing, known, edit, could, edits>>

LeavePage(r) ==
  /\ view[r].step = "shown" /\ view' = [view EXCEPT ![r] = Blank]
  /\ UNCHANGED <<stored, standing, known, edit, could, edits, hiccups>>

-----------------------------------------------------------------------------
(* What happens meanwhile *)

StillStands(left) ==
  view' = [r \in Readers |-> IF view[r] = Blank THEN Blank
                             ELSE [view[r] EXCEPT !.stood = @ \cap left]]

\* An environment is deleted on GitHub, with its settings, or made again.
DeleteEnv(e) ==
  /\ e \in standing /\ Hiccup /\ standing' = standing \ {e} /\ StillStands(standing')
  /\ stored' = [s \in Settings |-> IF s[2] = e THEN Absent ELSE stored[s]]
  /\ could' = [s \in Settings |-> IF s[2] = e THEN could[s] \cup {Absent} ELSE could[s]]
  /\ edit' = [a \in Admins |->
       IF edit[a] # NoEdit /\ edit[a].on[2] = e
       THEN [edit[a] EXCEPT !.since = @ \cup {Absent}] ELSE edit[a]]
  /\ UNCHANGED <<known, edits>>

MakeEnv(e) ==
  /\ e \notin standing /\ standing' = standing \cup {e}
  /\ UNCHANGED <<stored, known, edit, could, view, edits, hiccups>>

\* A client is saved into app_conf, or cleared from it (AppAuth).
SaveClient(e) ==
  /\ e \in standing \ known /\ known' = known \cup {e}
  /\ UNCHANGED <<stored, standing, edit, could, view, edits, hiccups>>

ClearClient(e) ==
  /\ e \in known /\ Hiccup /\ known' = known \ {e}
  /\ view' = [r \in Readers |-> IF view[r] = Blank THEN Blank
                                ELSE [view[r] EXCEPT !.knew = @ \ {e}]]
  /\ UNCHANGED <<stored, standing, edit, could, edits>>

SettingsNext ==
  \/ \E a \in Admins :
       \/ \E s \in Settings : \E v \in Values[s[1]] \cup {Absent} : AskSetting(a, s, v)
       \/ FindRepository(a) \/ Creates(a) \/ NotCreated(a) \/ Updates(a)
       \/ Deletes(a) \/ EditFails(a)
  \/ \E r \in Readers :
       \/ OpenPage(r) \/ ListEnvs(r) \/ ReadSecrets(r) \/ ReadVariables(r)
       \/ ReadStops(r) \/ Show(r) \/ PageFails(r) \/ LeavePage(r)
  \/ \E e \in PageEnvs : DeleteEnv(e) \/ MakeEnv(e) \/ SaveClient(e) \/ ClearClient(e)

SettingsSpec == SettingsInit /\ [][SettingsNext]_settingVars

-----------------------------------------------------------------------------
\* However requests to set and delete one setting interleave, and whichever of
\* their calls fail, it holds what the last that answered success asked for, or
\* what was asked by one that did not end before that began: no answer of success
\* is for a change that was not made (github.py create_or_update_env_var,
\* cluster.py App.delete_env_var).
SuccessIsStored ==
  \A s \in Settings :
    stored[s] \in could[s] \cup {edit[a].value : a \in {b \in Editing : edit[b].on = s}}

\* A page has every environment whose client was known while it was gathered,
\* and calls none redundant that stood all that while without saying that GitHub
\* failed (app.py AppDetail._get_all_app_settings, serializers.py:485-492).
BlamedWithMessage ==
  \A r \in Readers : view[r].step = "shown" =>
    /\ view[r].knew \subseteq view[r].on
    /\ \A e \in view[r].stood : <<e, "redundant">> \in view[r].offers => view[r].message

\* Both of the above: what the pages for an app's settings tell is true.
SettingsPagesTrue == SuccessIsStored /\ BlamedWithMessage
=============================================================================
