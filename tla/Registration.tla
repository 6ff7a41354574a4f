---------------------------- MODULE Registration ----------------------------
(***************************************************************************)
(* Registering an app: what the form checks, and then, one after the other  *)
(* and with no transaction around them, the app's row, the message for its  *)
(* role, its Cloud Platform ARNs, its administrator, a bucket (row and AWS  *)
(* bucket in a transaction of their own) and the row that connects the two. *)
(* Constraints of the database wait for an open transaction on their value. *)
(*                                                                         *)
(* Simplifications: a repository stands for its namespace too; ARNs are     *)
(* among what fails between the message and the administrator; one user    *)
(* registers the apps and no data source is deleted meanwhile.              *)
(***************************************************************************)
EXTENDS Naturals, FiniteSets

CONSTANTS
  Forms,      \* submissions of the form
  Repos,      \* repositories
  Stores,     \* names of buckets
  NoForm,     \* "no submission", "no bucket"
  MaxSetbacks \* bound: calls that fail, processes that die

ASSUME RegistrationAssumption == MaxSetbacks \in Nat /\ NoForm \notin Forms \cup Stores

VARIABLES
  form,      \* each submission: how far it is, and what it asks for
  appBy,     \* committed App rows: the submission that inserted each
  asksRole,  \* apps whose role has been asked for
  adminOf,   \* apps with their administrator's row
  storeBy,   \* committed S3Bucket rows, with the creator's access row
  s3By,      \* AWS buckets: the submission that made each
  linkOf,    \* AppS3Bucket rows: the bucket of each app
  setbacks

registerVars == <<form, appBy, asksRole, adminOf, storeBy, s3By, linkOf, setbacks>>

-----------------------------------------------------------------------------
Blank == [pc |-> "blank", repo |-> NoForm, kind |-> "later", store |-> NoForm]
Steps == {"blank", "checked", "role", "admin", "insert", "make", "set up", "commit", "link", "done", "refused"}
Open(f) == form[f].pc \in {"make", "set up", "commit"}

FormsTyped ==
  /\ form \in [Forms -> [pc : Steps, repo : Repos \cup {NoForm}, kind : {"new", "existing", "later"},
                         store : Stores \cup {NoForm}]]
  /\ \A f \in Forms : form[f].kind = "later" <=> form[f].store = NoForm

RowsTyped ==
  /\ appBy \in [Repos -> Forms \cup {NoForm}]
  /\ asksRole \subseteq Repos /\ adminOf \subseteq asksRole
  /\ storeBy \in [Stores -> Forms \cup {NoForm}]
  /\ s3By \in [Stores -> Forms \cup {NoForm}]
  /\ linkOf \in [Repos -> Stores \cup {NoForm}]
  /\ setbacks \in 0 .. MaxSetbacks

\* Two transactions are never open on one name.
NamesApart == \A f, g \in Forms : Open(f) /\ Open(g) /\ f # g => form[f].store # form[g].store

RegistrationTypeOK == FormsTyped /\ RowsTyped /\ NamesApart

RegistrationInit ==
  /\ form = [f \in Forms |-> Blank]
  /\ appBy = [p \in Repos |-> NoForm]
  /\ asksRole = {} /\ adminOf = {}
  /\ storeBy = [b \in Stores |-> NoForm]
  /\ s3By = [b \in Stores |-> NoForm]
  /\ linkOf = [p \in Repos |-> NoForm]
  /\ setbacks = 0

At2(f, pc) == form[f].pc = pc
ToStep(f, pc) == form' = [form EXCEPT ![f].pc = pc]

-----------------------------------------------------------------------------
(* CreateAppForm: what it looks up, at various times before the first write *)

\* The data sources one administers: those one has made.
Choosable == {b \in Stores : storeBy[b] # NoForm}
Valid(kind, b) ==
  CASE kind = "new"      -> b \in Stores /\ storeBy[b] = NoForm /\ s3By[b] = NoForm
    [] kind = "existing" -> b \in Choosable
    [] OTHER             -> b = NoForm

SubmitForm(f, p, kind, b) ==
  /\ At2(f, "blank")
  /\ Valid(kind, b)
  /\ form' = [form EXCEPT ![f] = [pc |-> IF appBy[p] = NoForm THEN "checked" ELSE "refused",
                                  repo |-> p, kind |-> kind, store |-> b]]
  /\ UNCHANGED <<appBy, asksRole, adminOf, storeBy, s3By, linkOf, setbacks>>

-----------------------------------------------------------------------------
(* AppManager.register_app *)

\* The address of the repository is unique.
InsertApp(f) ==
  /\ At2(f, "checked")
  /\ IF appBy[form[f].repo] = NoForm
     THEN appBy' = [appBy EXCEPT ![form[f].repo] = f] /\ ToStep(f, "role")
     ELSE ToStep(f, "refused") /\ UNCHANGED appBy
  /\ UNCHANGED <<asksRole, adminOf, storeBy, s3By, linkOf, setbacks>>

\* trigger_app_create_related_messages, once the row is saved.
AskRole(f) ==
  /\ At2(f, "role")
  /\ asksRole' = asksRole \cup {form[f].repo}
  /\ ToStep(f, "admin")
  /\ UNCHANGED <<appBy, adminOf, storeBy, s3By, linkOf, setbacks>>

AddAdmin(f) ==
  /\ At2(f, "admin")
  /\ adminOf' = adminOf \cup {form[f].repo}
  /\ ToStep(f, CASE form[f].kind = "new" -> "insert" [] form[f].kind = "existing" -> "link" [] OTHER -> "done")
  /\ UNCHANGED <<appBy, asksRole, storeBy, s3By, linkOf, setbacks>>

\* The transaction begins; the row's name is unique, a row not yet committed
\* is waited for.
InsertStore(f) ==
  LET b == form[f].store IN
  /\ At2(f, "insert")
  /\ \A g \in Forms : Open(g) => form[g].store # b
  /\ ToStep(f, IF storeBy[b] = NoForm THEN "make" ELSE "refused")
  /\ UNCHANGED <<appBy, asksRole, adminOf, storeBy, s3By, linkOf, setbacks>>

MakeStoreAnyway(f) ==   \* mutant: a bucket that is there already is taken over
  /\ At2(f, "make")
  /\ ToStep(f, "set up")
  /\ s3By' = IF s3By[form[f].store] = NoForm THEN [s3By EXCEPT ![form[f].store] = f] ELSE s3By
  /\ UNCHANGED <<appBy, asksRole, adminOf, storeBy, linkOf, setbacks>>

\* AWSBucket.create: a name that is taken ends the request, its row undone.
MakeStore(f) ==
  LET b == form[f].store IN
  /\ At2(f, "make")
  /\ IF s3By[b] = NoForm
     THEN s3By' = [s3By EXCEPT ![b] = f] /\ ToStep(f, "set up")
     ELSE ToStep(f, "refused") /\ UNCHANGED s3By
  /\ UNCHANGED <<appBy, asksRole, adminOf, storeBy, linkOf, setbacks>>

\* Versioning, encryption and the rest, each a call that may fail.
SetUpStore(f) ==
  /\ At2(f, "set up") /\ ToStep(f, "commit")
  /\ UNCHANGED <<appBy, asksRole, adminOf, storeBy, s3By, linkOf, setbacks>>

CommitStore(f) ==
  /\ At2(f, "commit")
  /\ storeBy' = [storeBy EXCEPT ![form[f].store] = f]
  /\ ToStep(f, "link")
  /\ UNCHANGED <<appBy, asksRole, adminOf, s3By, linkOf, setbacks>>

LinkStore(f) ==
  /\ At2(f, "link")
  /\ linkOf' = [linkOf EXCEPT ![form[f].repo] = form[f].store]
  /\ ToStep(f, "done")
  /\ UNCHANGED <<appBy, asksRole, adminOf, storeBy, s3By, setbacks>>

\* A call fails, or the process dies: what is open is undone, the rest stays.
FormFails(f) ==
  /\ form[f].pc \notin {"blank", "done", "refused"}
  /\ setbacks < MaxSetbacks /\ setbacks' = setbacks + 1
  /\ ToStep(f, "refused")
  /\ UNCHANGED <<appBy, asksRole, adminOf, storeBy, s3By, linkOf>>

RegistrationNext ==
  \E f \in Forms :
    \/ \E p \in Repos, kind \in {"new", "existing", "later"}, b \in Stores \cup {NoForm} : SubmitForm(f, p, kind, b)
    \/ InsertApp(f) \/ AskRole(f) \/ AddAdmin(f)
    \/ InsertStore(f) \/ MakeStore(f) \/ SetUpStore(f) \/ CommitStore(f) \/ LinkStore(f)
    \/ FormFails(f)

RegistrationSpec == RegistrationInit /\ [][RegistrationNext]_registerVars

-----------------------------------------------------------------------------
(* Properties *)

\* However submissions for the same repositories and names interleave and
\* fail: every bucket's row has an AWS bucket made for it by the submission
\* that inserted the row, never one that another submission made; and an app
\* whose page said "Successfully registered" is its submission's own, with its
\* role asked for, its administrator and the bucket that was chosen.
RegisteredIsWhole ==
  /\ \A b \in Stores : storeBy[b] # NoForm => s3By[b] = storeBy[b]
  /\ \A f \in Forms : form[f].pc = "done" =>
       LET p == form[f].repo IN
       appBy[p] = f /\ p \in asksRole \cap adminOf /\ linkOf[p] = form[f].store
       /\ (form[f].kind = "new" => storeBy[form[f].store] = f)

\* A submission that was refused for its bucket may be made again with another
\* name: not so, its app stands and the form answers "App already exists".
RefusedLeavesNothing ==
  \A f \in Forms : form[f].pc = "refused" => \A p \in Repos : appBy[p] # f
=============================================================================
