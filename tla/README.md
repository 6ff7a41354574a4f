# Analytics Platform Control Panel: formal models

Control Panel is a Django application with which users of the Analytics
Platform manage data sources (S3 buckets and folders), apps, tools, dashboards,
groups and secrets. What a page or the REST API changes in the PostgreSQL
database has to be brought about in AWS IAM and S3, in Kubernetes, in Auth0 and
in GitHub, partly in the request itself and partly by Celery workers that take
messages from SQS. No transaction spans those systems. These modules state what
the combination promises, check it with TLC on small instances and prove the
parts that matter most for every instance with TLAPS.

Paths in this file are relative to `src/controlpanel/`.

## 1. The system

### Components

**Background task pipeline** (`api/tasks/task_base.py`, `api/message_broker.py`,
`api/tasks/handlers/base.py`, `celery.py`, `frontend/views/task.py`,
`api/views/tasks.py`).
State: the `Task` table (completed, cancelled, the message body), the SQS
queues, what each worker holds. Operations: `create_task` sends a message and
then inserts a row; a worker takes a message, returns early if the row is
completed or cancelled, loads the main object, runs the handler, saves the row
as completed and acknowledges late (failures are not acknowledged);
administrators cancel and retry on a page and through an API, each saving the
whole row as it was read. Hard: the message leaves before the row exists and
before the transaction that writes it commits; delivery is at least once and in
any order; rows are saved whole from stale copies; a row can wait for a message
nobody will send. Correct when: no task is lost without a cancellation or the
expiry of its message, a row says completed only of something done, a waiting
row has a message, fair workers finish what can be finished.

**Data sources and their access rows** (`api/models/s3bucket.py`,
`access_to_s3bucket.py`, `users3bucket.py`, `apps3bucket.py`,
`api/tasks/s3bucket.py`, `api/tasks/handlers/s3.py`,
`frontend/views/datasource.py`, `api/cluster.py`).
State: `S3Bucket` rows (with `is_deleted`), `UserS3Bucket` and `AppS3Bucket`
rows, buckets and tags in S3, the messages on the way. Operations: a page
creates the bucket within its request, the API asks a worker to; grants, edits
and revocations of access save or delete a row and send a message; deletion is
soft on a page and hard through the API and tags the bucket; deleting a bucket
revokes all access by a message that fans out. Hard: the name is claimed in S3
outside any transaction; grants and revocations of one row overtake one another;
redelivered creations meet their own bucket. Correct when: a name has one owner,
a row made through the API gets a bucket or goes, policies grant only what rows
asked for and end up as the rows are, revocations take effect.

**Role policy document** (`api/aws.py`, `S3AccessPolicy`,
`ManagedS3AccessPolicy`, `AWSRole`). State: the inline policy `s3-access` of a
role, or the managed policy of a group: statements for objects, for listing
buckets, and for listing folders by prefix. Operations: grant or revoke a
bucket or a folder, with paths, each editing the whole document. Hard: one
statement serves many data sources; entries are told apart by comparing the
beginnings of strings; prefixes depend on the order of the paths. Correct when:
the document allows what the last grants say, no more and no less.

**Policy groups** (`api/models/iam_managed_policy.py`, `policys3bucket.py`,
`frontend/views/policy.py`, `api/aws.py` `AWSPolicy`, `api/cluster.py`
`RoleGroup`). State: the group's row and members, the managed policy and the
roles it is attached to. Operations: create, add a user, remove a user, grant
and revoke buckets, delete; each save brings attachments in line with the
members one IAM call at a time. Hard: overlapping requests with stale member
lists, failures between two calls, and the order of a deletion. Correct when: a
request that runs alone leaves IAM as the database says, whatever happened
before.

**Tools** (`api/serializers.py`, `frontend/consumers.py`, `api/models/tool.py`,
`api/helm.py`, `api/tasks/tools.py`, `frontend/views/tool.py`).
State: `Tool` and `ToolDeployment` rows (with `is_active`), helm releases, the
channel layer, the pages that show statuses. Operations: the API records a
deployment and sends a message that every background worker receives; a worker
uninstalls the previous release, installs the new one and waits for it; tools
are removed or retired from the catalogue, which uninstalls what they left;
workers send statuses to the pages of the user. Hard: every worker handles every
message; requests overlap; each helm command may fail; a page is rendered before
its stream joins the group. Correct when: an active row tells what is installed;
a page settles on what the workers said last.

**Dashboards** (`api/models/dashboard.py`, `dashboard_viewer.py`,
`api/tasks/dashboards.py`, `frontend/views/dashboard.py`).
State: dashboards, access rows of admins, viewers and domains, viewers' own rows,
their Auth0 role. Operations: register after a preview, share with addresses
and domains, add and remove admins, delete, prune viewers who have no dashboard
left. Hard: pruning against sharing; a role is given in Auth0 before the row;
admins are counted, then one removed. Correct when: whoever may view has the
role, a dashboard has an admin, nobody is on a list twice.

**Apps, environments and Auth0 settings** (`api/models/app.py`,
`frontend/views/app.py`, `frontend/views/apps_mng.py`, `api/auth0.py`,
`api/cluster.py`, `api/tasks/handlers/app.py`).
State: the `App` row with `app_conf`, one JSON document saved whole; clients,
roles, permissions, groups and enabled connections in Auth0; secrets and
variables on GitHub; an IAM role. Operations: register (row, message, ARNs,
administrator, bucket, connection, one after the other), set up, change and
remove authentication for an environment and for the machine-to-machine client,
set Cloud Platform roles, switch services, manage customers, delete. Hard: lost
updates of `app_conf`; set-ups of ten calls that fail half-way and are tried
again; a task that makes the role while pages change it; paginated lists that
move. Correct when: an operation that ran alone leaves row, Auth0 and GitHub in
agreement; a registration reported as successful is whole; the role is as the
rows and flags say; a list of customers is exact.

**IP allowlists** (`api/models/ip_allowlist.py`, `app_ip_allowlist.py`,
`frontend/views/ip_allowlist.py`, `frontend/consumers.py`).
State: lists, the rows that give them to environments of apps, a secret per
environment. Operations: give lists to an app (rows and secrets in one
transaction), edit or delete a list, after which every worker writes the
secrets. Hard: check-then-delete; workers that meet a list the other has
removed. Correct when: each secret has the ranges of the lists of its rows.

**Users** (`api/models/user.py`, `oidc.py`, `frontend/views/user.py`).
State: a row, an IAM role with policies, two helm releases, QuickSight groups
and permissions. Operations: sign in, make or unmake a superuser, enable
Bedrock, grant QuickSight grades, reinitialise, delete, clean namespaces. Hard:
everything outside the database is made before the row; rows saved whole.
Correct when: a request leaves what its page says, and nobody is promoted by
another page's save.

**App secrets, variables and parameters** (`frontend/views/secrets.py`,
`app_variables.py`, `parameter.py`, `api/models/parameter.py`, `api/github.py`).
State: settings of GitHub environments, shown on a page that reads them call by
call; `Parameter` rows and secure strings. Hard: the page goes on without what
failed; two rows may name one string. Correct when: what a page tells is true;
strings follow their rows.

**AWS session cache** (`api/aws_auth.py`). State: one set of sessions per process,
keyed by role and region. Hard: threads share it unlocked; a role that cannot be
assumed is replaced by the process itself. Correct when: calls are made as
configured.

**Authorisation** (`api/rules.py`, `api/permissions.py`) and **REST filters**
(`api/filters.py`). State: rows of access, membership and connections. Hard: a
rule for one object is written again as a query for lists. Correct when: the two
agree.

**Databases** (`frontend/views/databases.py`, `api/aws.py` `AWSLakeFormation`).
State, all of it AWS's: permissions and opt-ins of tables and of their database.
Hard: the database's opt-in is shared by its tables. Correct when: whoever was
granted a table can use it, and nothing is left of what was revoked.

**Server-sent events**, **management commands**, **Kubernetes proxy and
webhooks**, **forms and settings**: see `components` in `PROJECT.json` for the
sources of each and the reason where it is left out.

### How they interact

- Requests and workers share the database and, through it, the rows. Every
  statement commits on its own except inside `transaction.atomic`:
  `settings/common.py:328` sets `ATOMIC_REQUESTS`, but at the top level of the
  settings, where Django does not read it.
- Requests reach workers through SQS messages that name a row by class and
  primary key; the worker loads the row as it is when it handles the message.
- Requests and workers share IAM documents, which each of them reads, edits and
  puts back whole, and S3, where a bucket name belongs to who made it first.
- Model signals (`pre_delete`, `post_delete`) run in the request that deletes,
  for each row that goes along.
- Requests also send on the channel layer (Redis publish and subscribe), which
  gives each message to every background worker that runs and keeps nothing for
  one that does not.
- What is shown on one page is confirmed on the next through the session, which
  all tabs of a browser share and which is saved whole.

## 2. The modules

| Module | Models | Extended or used by |
|---|---|---|
| `TaskPromise` | what the pipeline promises: asked, done or given up | refined by `TaskQueue` |
| `TaskQueue` | the pipeline: producers, SQS, workers, administrators | `MCTaskQueue`, `TaskQueueProofs` |
| `BucketAccess` | access rows, their messages, the roles' policies | `MCBucketAccess`, `BucketAccessProofs` |
| `Datasource` | creation and deletion of a data source and its bucket | `MCDatasource`, `DatasourceProofs` |
| `RoleGroup` | a group, its members and its managed policy | `MCRoleGroup`, `RoleGroupProofs` |
| `AppAuth` | `app_conf`, Auth0 and GitHub of one app | `Apps`; `MCApps` checks it, `AppsProofs` proves it |
| `AppRanges` | IP allowlists of one app and its secrets | `Apps` |
| `Registration` | registration of apps with their buckets | `Apps` |
| `Sharing` | dashboards, whom they are shared with, pruning | `People`; `MCPeople` checks it, `PeopleProofs` proves it |
| `UserAccount` | one user's row, role, releases, groups, permissions | `People` |
| `ToolDeploy` | deployments of one tool type of one user | `Platform`; `MCPlatform` checks it, `PlatformProofs` proves it |
| `ToolStatus` | the tools page and the events that update it | `Platform` |
| `AppRole` | the IAM role of an app | `Platform` |
| `TableGrants` | Lake Formation permissions and opt-ins | `Platform` |
| `FolderArchive` | archiving the objects of a deleted folder | `Platform` |
| `Parameters` | parameter rows and the secure strings they name | `Platform` |
| `Customers` | the members of an app's Auth0 group, paginated | `Platform` |
| `ClearUp` | the command that clears Auth0 of unused resources | `Platform` |
| `S3AccessPolicy` | the content of one policy document | `Console`; `MCConsole` checks it, `ConsoleProofs` proves it |
| `Previews` | forms that are confirmed on a second page | `Console` |
| `AppSettings` | variables and secrets of an app, and the page of them | `Console` |
| `Rights` | the rules, and the queries that repeat them | `Console` |
| `Sessions` | the AWS sessions of one process | `Console` |

`Apps`, `People`, `Platform` and `Console` put together parts that the same pages
or processes use and that share no state of the models: `Init` picks the part a
behaviour exercises by letting its `Next` step and leaving the others where they
start, so a run checks each part in full and their products never. Where parts
do share state (a page and the workers, two operations on one row) they are
actions of one module. One request touches rows of two parts: the deletion of a
user takes along the user's rows as admin of dashboards. Both parts of `People`
have it, `UserAccount` its calls and the row, `Sharing` the cascade.

A step of a model is one database statement, one call to AWS, Auth0, GitHub or
helm, or one part of a handler in which nothing shared is touched; a request
inside `transaction.atomic` reads what is committed and what it wrote itself.
`map` in `PROJECT.json` names the lines of every definition. A definition whose
comment says mutant is not part of a specification; it is a plausible bug that
shows that a property can fail. Variables marked history in a module exist for
its properties only: most record that two operations overlapped or that one
failed half done, which is the condition under which the code promises nothing.

### TaskQueue and TaskPromise

`producer` follows each request through saving its object, sending and recording
the task; `AtomicTasks` are created inside `transaction.atomic`, so object and
row appear at commit, or never, while the message has left. `msg` holds copies
of each message. `wpc`, `wmsg` and `wrow` are a worker's place in
`BaseModelTaskHandler.run`, its message and the row it read; `apc`, `atask` and
`arow` are those of a request to the task page or API. `AppTasks` are tasks
about an App, whose `Task` rows `remove_app_related_tasks` deletes; a worker or
administrator that read such a row earlier inserts it again. Acknowledging with
a receipt that is no longer the latest removes the message or does not; SQS
allows both. Four history variables (`handled`, `cancelledOnce`, `expired`,
`untracked`) exist for the properties only.

`TaskPromise` is the abstract specification: a task is asked for, done at least
once, or given up, and given up only if waived. The refinement mapping derives
`fate` from `handled` and the copies of the message, and takes cancellation and
expiry as waivers.

### BucketAccess

Principals are users and apps, each with one role. `level` is the table of
access rows by primary key, `policy` what each role's inline policy grants per
bucket, `queue` the copies of each grant, revoke and revoke-all message. Workers
read a whole policy, change one entry and put all of it back (`wpolicy`). An
edit saves a row read earlier and inserts it again when it was deleted
meanwhile; a deletion sends its revocation before it removes the row. Deleting a
principal removes its role first. `overtaken` records, of each worker in the
middle of a read and a put, whose entries others have put since, and `undone`
the entries that a later put of a whole document took back: the lost updates of
one role's policy, for any number of workers. A level stands for the level and
paths of a row; what they become in the document is the subject of
`S3AccessPolicy`. Cancelled and expired messages are left to `TaskQueue`;
redelivery and an administrator's retry are `Resend`. For an App that is gone
the revoke handler lacks a `return` after `complete()`; it then raises, and the
next delivery finds the row completed: the model takes the two deliveries as
one. A principal lives once.

### Datasource

`request` and `removal` follow the requests that create and delete each row;
`bucket` is S3 (no bucket, made, made and set up, or another account's). Bucket
names are never freed, as the platform archives buckets and does not delete
them. A page makes and sets up the bucket before it commits, so a failure rolls
the row back and leaves the bucket; a worker that finds the name taken deletes
the row, which tags the bucket first. `task` is the Task row of the API's message:
a worker reads it first and returns when it is completed or cancelled, and marks
the copy it read as completed when the bucket is ready. Administrators cancel and
retry through the whole row they loaded (`desk`); a retry that un-cancels the row
and then fails to send is in `unsent`. One deletion per row; folders, and the
creator's access row, are not modelled here.

### RoleGroup

`req` is the progress of each request: the member names a save read, the roles it
still has to attach and detach. Requests overlap freely; `overlapped` records
which did. Granting and revoking a bucket is one step and matters only to the
deletion of the group, whose cascade revokes access in the policy.

### Apps: AppAuth, AppRanges, Registration

`AppAuth` runs the operations of `cluster.App` call by call for requests that
loaded their own copy of `app_conf` (`my`) and save it whole. A client, its view
permission and its role have one identity. Auth0 lists what is linked to what;
some calls read a list and put it back. Any call may fail and leaves what was
done; `settled` records what the last request on an environment promised, if it
overlapped with none.

`AppRanges` has the page of an app, which writes rows and secrets in one
transaction, and the edits and deletions of lists, which leave the secrets to
every worker. An edit loads the row, keeps the ranges it had, saves the whole
row with its mark as it was loaded (inserted again if it has gone), and sends a
message only if the new ranges differ from those it kept; edits of one list
overlap. A deletion marks the row and sends its message. A worker writes the
secrets of each environment that has the list and, for a deletion, removes the
list last. One that finds it gone raises and loses its queue (`inbox`).
`clashed` records what the code has no answer to: something going on during a
page's transaction or a deletion, and an edit whose save puts back, unnoticed,
what another changed since it looked.

`Registration` follows each submission from the check of the form through the
app's row, the message for its role, its administrator, the bucket (row and
AWS bucket in a transaction) and the connection. Unique constraints wait for an
open transaction on their value and then refuse.

### People: Sharing, UserAccount

`Sharing` counts access rows in bags, as no constraint keeps them unique. A
viewer is made by looking for the row, giving the Auth0 role, and saving; the
prune task reads the viewers without access once and then deletes them one by
one with their role. `torn` and `doubled` record what a failed or overlapping
run has touched. Superusers manage every dashboard. The deletion of a user
(`gone`) takes the user's admin rows; a dashboard that loses its last one is in
`bereft` until somebody, a superuser that is, appoints another.

`UserAccount` has two requests at a time on one user, each with the copy of the
row it loaded. A sign-in makes role, policies and releases before the row;
superuser and QuickSight requests change groups and permissions call by call;
cleaning of namespaces uninstalls both releases.

### Platform

`ToolDeploy`: a request reads the active deployment, marks all inactive and
inserts its own, then sends a message naming both. Every worker receives it and
uninstalls, installs and waits, each of which may fail; a worker that dies loses
its inbox. `release` is what helm has under each release name, one per chart, so
tools of one chart share it. Tools are removed at once or retired by a clocked
job, which send Celery jobs that uninstall by name whatever they find.

`ToolStatus`: `tabs` are pages, rendered, joined and receiving events in order;
`runners` are the workers, which read Kubernetes and tell every page that has
joined. A status that nobody hears is lost. Helm runs to its end before the
polling starts; its refusal fails the deployment, while an error that
`helm._execute` takes for transient leaves no process to have failed, and what
Kubernetes has decides.

`AppRole`: the task that makes the role, at the places it reads and writes, and
the requests that rewrite the trust policy, the inline policy and the attached
policies. `TableGrants`: each request a sequence of calls; whether repeating an
opt-in is an error is left open. `FolderArchive`: versions of objects in the
folder and the archive, tasks that copy and then delete, repeated when a worker
dies. `Parameters`: several rows may name one string; a string that is there is
not put again. `Customers`: a page of the list at a time, the total compared
with the first; a search that lags. `ClearUp`: set-ups and removals, each with an
identity, that make, link and delete call by call; a set-up uses the group that
its environment has already, left-overs of earlier times and of set-ups that
broke off included. Beside them the three lists of the command, taken one after
the other, and what it deletes by comparing them; `late` are the links made since
it listed the groups.

### Console

`S3AccessPolicy`: a resource is a sequence of path segments headed by its data
source; `Begins` says which names begin with which others, all that string
comparison brings in. `doc` has the statements' resources and the two lists of
prefixes; a grant edits a folder's paths in the order they come in (`order`).
Effective listing (`CanList`) reads the prefixes as IAM does, a pattern matching
all below it. `unlisted` are folders whose listing went when another, with whose
name theirs begins, was granted or revoked, until they are granted again.
Documents edited by hand in AWS are not modelled.

`Previews`: a request reads the session as it begins and writes it whole as it
ends, unless it failed. `AppSettings`: requests that set and delete, which may
overlap, and a reader that gathers variables, secrets and environments call by
call; `could` is what a setting may hold given the requests that ended.
`Rights`: requests change the rows under the guards of the rules; the queries are
written as the joins Django makes of them, with the rows a join repeats.
`Sessions`: threads that find no session, or no set of sessions, and make one.
`AWS_ROLES_MAP` names settings (`rolesMap`), and a setting, located in the
environment or else in the settings, names a role or has no value (`located`), in
which case the calls are the process's own. Both are picked initially, in any
way.

## 3. What is checked

| Run | Instance | Checks |
|---|---|---|
| `taskqueue_page` | 1 task about an App, 2 workers, 2 administrators, 2 copies, 1 fault | `CompletedWasHandled`, `NoSilentLoss`, `WaitingIsLive`, `OnlyAdminsReopen`, refinement `Promised` |
| `taskqueue_live` | 2 tasks, one atomic and about an App, 1 worker, 1 administrator, 1 fault, fair | `EventuallyHandled`, `CancelDrains` |
| `bucket_race` | 1 principal that may go, 2 buckets, 1 level, 2 workers | `Provenance`, `OnlyItsBucket` |
| `bucket_live` | 1 bucket, 1 row, 2 levels, 2 workers, 1 fault or resend, fair | `GrantsConverge`, `RevocationsLand` |
| `datasource_owner` | 1 page and 1 API request for one name, 2 workers, 3 faults or administrators' requests, fair | `OneOwner`, `ApiSettles` |
| `datasource_again` | 1 API request, 1 worker, 1 failure | counterexample to `CreatedStays` |
| `rolegroup_alone` | 2 users, 4 requests, 2 faults | `AloneRepairs` |
| `rolegroup_undeletable` | 1 user, 3 requests, no fault | counterexample to `DeletionsSucceed` |
| `apps_apart` | authentication: 3 requests, 2 environments and the machine-to-machine client; allowlists: 2 lists with 2 versions, 3 users, 2 workers, 3 requests; registration: 3 forms, 2 repositories, 2 buckets | `AppsTypeOK`, `AloneAgrees`, `OthersSettingsKept`, `SecretsSettle`, `RegisteredIsWhole` |
| `people_single` | 1 dashboard, 2 admins who may be deleted, 1 superuser, 2 addresses, 6 jobs, 2 at a time; 4 requests on one user, 2 at a time | `PeopleTypeOK`, `ViewersHaveRole`, `AccessStaysSound`, `SinglesDeliver`, `OnlySetSuperadmin` |
| `platform_apart` | 2 deployments, tools and charts, 2 workers; and the seven other parts of `Platform` | `PlatformTypeOK`, `RowsTellReleases`, `StatusesSettle`, `RoleSettles`, `GrantsUsable`, `LatestKept`, `StringsFollowRows`, `PagesAreExact`, `ClearUpSpares` |
| `console_apart` | 1 bucket, 2 folders, one's name beginning with the other's, nested paths; 2 tabs; 2 environments, 2 admins, a reader; 2 people; 2 threads, 2 settings with or without a role, 2 regions | `ConsoleTypeOK`, `ObjectsAsGranted`, `FoldersListedAsGranted`, `ConfirmedOnceAsShown`, `SettingsPagesTrue`, `ListedAsAllowed`, `CallsAsConfigured` |

**Bounds.** Constants named `MaxFaults`, `MaxFails`, `MaxSetbacks`,
`MaxMishaps`, `MaxBreaks`, `MaxDeaths`, `MaxUpsets`, `MaxBroken`, `MaxTrips`,
`MaxHiccups`, `MaxDenials`, `MaxRoleFaults`, `MaxCallFails` and `MaxStoreFails`
bound the failures, crashes, early timeouts and redeliveries of their module.
One reaches every window between two steps; two in `rolegroup_alone` and
`FolderArchive` let a fault hit the recovery from another one, and three in
`datasource_owner` fit an administrator's cancellation and retry beside a fault.
`bucket_race` has none and one level: what it is about are two workers, each
between reading a document and putting it back, with rows of two buckets saved,
edited and deleted, and the principal deleted meanwhile; failures,
redeliveries and edits to another level are in `bucket_live`, again with two
workers. The other bounds are on requests: `MaxSends` and `MaxCopies` on copies
of a message (two suffice for one delivery to overtake another); `MaxMade` and
`MaxVersion` on the clients made for a place and the versions of a list's
ranges; `MaxAsked` (3), `MaxBegun` (6), `MaxMadeAsks` (4), `MaxAsks` (2),
`MaxChanges` (5), `MaxOrders` (3), `MaxSubmits` (2), `MaxSettings` (2) and
`MaxCalls` (3) on how many requests a behaviour has. Two are under way together
everywhere that matters and another comes after them, which is what the hazards
need: one actor acting on what another has changed, and a later one meeting what
they left. `MaxRows` (2) lets a duplicate row arise, `MaxGone` (1) one tool of
two leave the catalogue, `MaxWire` and `MaxTurns` (1) an event be under way and
Kubernetes move once, `MaxRounds` and `MaxVersions` (2) an object be listed
twice and written anew. `PerPage` is 1, so that two members already make two
pages. In `AppAuth` the three requests draw their operations from six mixes
(`MCMixes`), one for each group of operations that touch the same records; all
mixes of all operations do not fit.

Actors, requests and names are interchangeable in most modules; the safety runs
use that symmetry, and the parts of a composition share model values so that one
permutation serves them. No run of a leads-to property uses symmetry. In
`S3AccessPolicy` a path, a path below it and a path beside it give all the
relations two paths can have.

**Deadlock.** `CHECK_DEADLOCK FALSE` everywhere: all requests may have been made
and all messages handled, and the system then stands still.

**Fairness.** Three modules state it. Workers poll for ever and the broker
chooses among visible messages at random, so a message that is available again
and again is taken: strong fairness per message (in `Datasource`, per row). It
has to be per message: with strong fairness per worker only, TLC lets a message
whose row was rolled back, and which raises on every delivery, keep every worker
busy. A worker goes on with what it holds, the visibility timeout fires, and, in
`Datasource`, a request that inserted a row goes on: weak fairness. Requests,
administrators and faults owe nothing, and faults are finitely many. The other
modules promise what is true once everything has come to rest; that it comes to
rest depends on services outside.

**What the runs show.**
- A message is used up only when its task was done, cancelled or outlived its
  retention, through crashes, duplicates and stale saves; each step of the
  pipeline is a step of `TaskPromise` or none. Only an administrator's save takes
  a completion back. A waiting row has a message except in the three ways
  recorded in `untracked`: a worker that found no row, a retry whose send failed,
  and the task API's retry, which un-cancels the row and then fails on an
  attribute that is never set (`api/views/tasks.py:26`).
- Whichever workers handle them and in whatever order, messages put into a role's
  policy only what its rows asked. A put changes its own entry and takes back, of
  the others, only what another worker put since it read the document. Where
  nothing was taken back, every entry ends as its row, and revocations take
  effect beside grants of the same row.
- One requester only is told that a name is theirs. A row of the API gets its
  bucket or goes, unless an administrator leaves its task cancelled, or retries
  it by a request that then sends nothing.
- A group request that ran alone repairs whatever failed before; so does a
  request on an app's authentication, for the row, Auth0 and GitHub alike, and it
  leaves the settings of other environments alone.
- Allowlist secrets settle on the ranges of the rows, with edits of one list that
  overlap, unless something went on in the middle of a page or a deletion or an
  edit put back unnoticed what another had changed.
- An app reported as registered is its submission's own and whole, and a bucket
  row always has an AWS bucket its own submission made.
- Dashboard viewers have their role except in a pruning, and requests one after
  the other leave no duplicates, and an admin on every dashboard but one whose
  last admin was deleted as a user. Requests on a user deliver what
  their page says; only the superuser page makes superusers.
- An active deployment was installed by its own request, is being installed, or
  lost its worker; when requests did not overlap it is exactly what helm has.
  Pages settle on the last status, never on one that says something is still
  going on, and on what Kubernetes has when the workers did not cross, a
  transient error of helm included.
- The role of an app is as rows and flags say though its task runs at any time;
  Lake Formation grants stay usable in any order; the last version of an object
  survives archiving, unless it was written between a copy and its deletion;
  strings follow rows whose names were never shared; lists of customers are exact
  or end in an error; the clean-up takes no role of a client that stands, and
  no group with such a role unless it was linked since the groups were listed.
- Objects are accessible exactly as granted last; folder listings are too, but
  for a folder whose name begins with that of one granted or revoked since. What
  is confirmed is what was shown, once. The settings page offers and blames
  truly. Queries find all a rule allows. Calls to AWS are made as the configured
  role, or as the process because that role was refused or because the setting
  the map names has no value.

**Where the code and its own text disagree**, each shown by a run:
1. `datasource_again`: a creation that is delivered again deletes the data source.
   The worker fails after it made the bucket and before it completes the Task row;
   the next delivery finds the row open, and then its own bucket, which it takes
   for somebody else's.
2. `rolegroup_undeletable`: a group with bucket access cannot be deleted.

Further claims that the code does not keep are stated in the modules and left
out of the runs. Naming one in a configuration of its module, with the values
given here where they matter, yields the counterexample:
- `ListedIsUnfinished` (`TaskQueue`): a task done before its row is inserted stays
  on the list of incomplete tasks.
- `GrantsConverge` (`BucketAccess`) without `KeyOf[i] \notin undone`, with the
  values of `bucket_race`: of two workers that change one role's policy the later
  put loses the other's change.
- `RevokedIsRevoked` (`BucketAccess`): a grant still queued is handled after the
  revocation and before the row goes; the access outlives the row.
- `RetiredIsRevoked` (`BucketAccess`): a grant handled after the revoke-all of a
  deleted bucket gives access to it; nothing looks at `is_deleted`.
- `FoldersListedAsGranted` (`S3AccessPolicy`) without `\ unlisted`: granting or
  revoking folder `foo` takes the listing of `foobar` away.
- `MetaAsGranted` (`S3AccessPolicy`): revoking one folder takes the look-up of
  the folder bucket away from the others.
- `ApiSettles` with `Foreign = {n1}` (`Datasource`): tagging another account's
  bucket is refused, the clean-up fails on every delivery. Without its last two
  disjuncts: a cancelled task leaves an API row without a bucket.
- `SecretsSettle` (`AppRanges`) without the `PutsBack` of `SaveList`: an edit of a
  list's description, which finds its ranges unchanged, saves the ranges it
  loaded over another's and tells nobody, or brings back a list that has gone.
- `AccessStaysSound` (`Sharing`) without `bereft`: deleting the user who is the
  last admin of a dashboard leaves it to superusers.
- `DeletedIsTagged` (`Datasource`): a row deleted before a worker makes its
  bucket leaves that bucket untagged.
- `FailedDeletionChangesNothing` (`Datasource`): when tagging is refused the row
  stays deleted although the request failed, see `ATOMIC_REQUESTS` above.
- `MembersAreAttached`, `AttachedAreMembers`, `DeletedStays` (`RoleGroup`): a save
  with a stale member list detaches a role attached since; removing a user does
  not detach the role before the next save; a save overlapping a deletion inserts
  the group's row again.
- `OneActive` (`ToolDeploy`): of two overlapping deployments each deactivates
  what it sees and activates its own. `DeletionSparesOthers`: uninstalling a
  removed tool takes the release that another tool of the chart holds by then.
- `JoinedSettle` (`ToolStatus`): a status sent between the rendering of a page and
  the joining of its stream is missing on it.
- `InlineFollows` (`AppRole`): the task read the ARNs before registration inserted
  them, or a page changed them in between; the inline policy stays as it was.
- `DeletedStaysDeleted` (`AppAuth`): a request that loaded the app saves it again
  after its deletion.
- `RefusedLeavesNothing` (`Registration`): a submission refused for its bucket
  leaves its app, and is told "App already exists" when made again.
- `RequestsAtomic` (`Parameters`): a put that fails leaves the row.
- `GrantDelivers` (`UserAccount`): a QuickSight grade already permitted is passed
  over though the user has since been taken out of its group.
- `ListedByRows` (`Rights`): the list of buckets includes those shared by a group,
  which the rule refuses to open, and has a bucket twice that several people and
  a group of theirs share.

## 4. What is proved

Theorems hold for every value of the constants that meets the assumption of its
module: any number of workers, requests, users, rows, names and faults. Every
safety property and every type invariant of the passing runs is stated by one,
and so is the refinement of `TaskPromise`. A proof has an inductive invariant,
which TLC checked first, one lemma per action or conjunct, and a final step by
temporal reasoning. What an invariant needs beyond the property is, nearly
always, what is true of the things actors hold between their steps.

- `TaskQueueProofs`. `Invariance`: `TypeOK`, `RowsHonest`, `WorkersHonest`,
  `AdminsHonest` and `GoneIsSettled` hold together. It has to speak of the copies
  of rows that workers and administrators hold, as any of them may be saved: each
  claims completed only of a handled task and cancelled only of one cancelled
  once. A worker about to acknowledge has handled its task or read a row that
  excuses it, so a message goes only with a reason. From it: `NothingLost`
  (`NoSilentLoss`) and `CompletionHonest` (`CompletedWasHandled`).
  `OnlyAdminsTakeBack` (`OnlyAdminsReopen`) adds that nobody holds a row of a task
  before its request records it (`SeenInv`). `WaitingRowsLive` (`WaitingIsLive`)
  adds that a task is owed from the moment its message leaves, as the row comes
  later (`OwedIsTended`), by a copy that no worker is about to acknowledge; hence
  what a worker holds was sent. `PromiseKept` (`Promised`) shows that each step
  is a step of `TaskPromise` or changes no task's fate: every action moves the
  fate of one task at most, and a copy disappears only with a reason.
- `BucketAccessProofs`. `TypeCorrect` and `NeverOverAcknowledged`
  (`HeldIsQueued`) prove each other: a count never falls below the number of
  workers that hold the message. `GrantedWasAsked` (`Provenance`) says of rows, of
  levels that were read and of every document in a worker's hands that they hold
  only what was asked. `LosesOnlyOvertaken`
  (`OnlyItsBucket`) and `GrantsArrive` (`GrantsConverge`) hold for any number of
  workers, whatever they do at once. For the first, a document in hand is the one
  in force but for the entries others put since it was read (`DocumentsFresh`).
  For the second, an entry is as its row, or was taken back, or a grant that reads
  the row again or puts what it says now is to come (`Converging`); and a worker
  with an outdated level is followed by another, or has been overtaken, so that
  its put will be noted (`OutdatedIsCovered`).
- `DatasourceProofs`. `NameHasOneOwner` (`OneOwner`). The invariant counts as
  maker of a bucket also the request or worker that made it and has not reported
  it; a name has at most one maker, and once it has one it is not free. What workers
  read of the Task row plays no part in it.
- `RoleGroupProofs`. `LonelyRequestsRepair` (`AloneRepairs`). The invariant says
  of a request no other overlapped that the lists it holds are still those of the
  database and IAM.
- `AppsProofs`. `Registered` (`RegisteredIsWhole`): what a submission has
  written by each step, and that no two hold one repository or name inside their
  transactions. `AloneLeavesAgreement` (`AloneAgrees`) and `OthersSettings`
  (`OthersSettingsKept`): whose identity each record in Auth0 and in each copy
  of `app_conf` is (`Owned`), what a request alone has done so far (`SoFar`),
  and that nobody's work reaches a settled place (`Spares`). `Settled`
  (`SecretsSettle`): with nothing failed or clashed, and edits overlapping,
  every secret is right, or a message or a worker that reads the rows later is
  on its way (`WillBeRight`), and a worker with an outdated text is followed by
  another (`StaysRight`).
- `PeopleProofs`. `EveryViewerLooks` (`ViewersHaveRole`), `AccessSound`
  (`AccessStaysSound`): what each job looked up is still so unless the history
  says it was changed, and a dashboard is `bereft` from the moment its last admin
  goes. `RequestsDeliver` (`SinglesDeliver`), `SuperadminKept`
  (`OnlySetSuperadmin`): what a lone request on a user has done by each call.
- `PlatformProofs`. `DeploymentsTold` (`RowsTellReleases`): while requests come
  one after the other, what the workers are about to install and what the
  request deactivated is what the cluster holds (`Untouched`, `Delivering`,
  `Installing`), for any number of workers that take the message in any order.
  `PagesSettle` (`StatusesSettle`): the last event on its way to a page is the
  one told last, and in calm a worker is about to tell what Kubernetes has
  (`RunnerAgrees`). `GrantsEven` (`GrantsUsable`), `RoleFollowsRows` (`RoleSettles`) and
  `StringsFollow` (`StringsFollowRows`): what a request by itself leaves at each
  call. `LatestIsKept` (`LatestKept`): an object in the folder is the latest
  version, and who copied one that nobody wrote since has it in the archive.
  `ListingsAreExact` (`PagesAreExact`): by how much a list read in pages can
  differ, which its total tells. `ClearedUpUnused` (`ClearUpSpares`): what the
  lists taken so far say of a client that stands, of the group its set-up found
  and of those linked late.
- `ConsoleProofs`. `ObjectAccessAsGranted` (`ObjectsAsGranted`): revoking one data
  source leaves the resources of the others, since a resource belongs to the
  data source it starts with, whatever names begin with each other.
  `FolderListsAsGranted` (`FoldersListedAsGranted`), for any names, supposes that
  there are finitely many paths.
  The fold over the paths of a grant is unfolded into
  steps (`FoldGoes`), each of which leaves a list that has gone through one path
  more (`Complete`, `Sound`); a directory is listed with its slash unless it is a
  granted path, and then its pattern covers it.
  `ConfirmedAsShown` (`ConfirmedOnceAsShown`), `SettingsTold`
  (`SettingsPagesTrue`): what a page being gathered has seen was so at some time
  since it began. `RightsListed` (`ListedAsAllowed`), `CalledAsConfigured`
  (`CallsAsConfigured`): a session fits its key in every set of sessions a thread
  may still hold, dropped ones too, and a key without a role stands for a setting
  without a value.

`AppsParts`, `PeopleParts`, `PlatformParts` and `ConsoleParts` show that a behaviour
of a composition is one of each part, and `AppsKeeps`, `PeopleKeeps`,
`PlatformKeeps` and `ConsoleKeeps` that the specification the run checks has all
the safety properties the run names (for `ConsoleKeeps` if there are finitely many
paths); `AppsTyped`, `PeopleTyped`, `PlatformTyped` and `ConsoleTyped`
do so for the types.

**Assumed.** The bounds are numbers, model values that stand for nothing are not
members of the sets, `Hands # {}` and `Users \cap Hands = {}` (`AppRanges`:
there is a worker, and a page is not one), and `Threads` and `Addresses` are
finite: the sets of sessions a process made and the pages of a list are counted.
What a theorem supposes beyond that stands in its statement, and is only that
paths are finitely many.

**Model-checked only.** Liveness under fairness (`EventuallyHandled`,
`CancelDrains`, `RevocationsLand`, `ApiSettles`), as TLAPS has no `ENABLED`.

## 5. Plan

1. `ToolDeploy` and `ToolStatus` joined: the status a page shows against the row,
   which the two modules now relate to different things.
2. The parts of components that `PROJECT.json` names as left out: lifecycle rules
   of buckets, the catalogue of tools, resetting of multi-factor authentication.
3. Abstract specifications that `Registration` and `Datasource` could refine, and
   the proofs that they do.

## 6. What is not modelled, and why

Templates, presentation and settings have no state; checks of a form that guard a
change are part of the action. Commands that migrated data were run once. The
Kubernetes proxy, webhooks, Slack and PagerDuty clients pass calls on.
Authentication by OIDC and JWT, and the renewal of AWS credentials, are those of
libraries. A denied AWS role is never tried again by the process; whether it
should be is not stated anywhere, so no property asks it. Overlapping requests of
one browser session overwrite one another's session whole, and
`ConfirmedOnceAsShown` says nothing of them. AWS, Kubernetes, Auth0 and GitHub
are modelled only by what the code sees of them; `map` marks such definitions as
external.

## Running

`tlc -config MCTaskQueue_page.cfg MCTaskQueue` and likewise for the others
checks one run; `tlapm TaskQueueProofs.tla` checks the proofs of one module, which
takes about seven minutes for `AppsProofs`, four or less for the others. With
two workers `apps_apart` and `console_apart` take somewhat over two minutes, the
others two or less.
