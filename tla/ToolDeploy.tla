----------------------------- MODULE ToolDeploy -----------------------------
(***************************************************************************)
(* Deployments of one tool type by one user: the API request that records a *)
(* deployment, the channel layer, the background workers that uninstall the *)
(* previous release and install the new one with helm, the removal of tools *)
(* and the Celery jobs that uninstall what they leave.                      *)
(*                                                                         *)
(* The channel layer is Redis publish and subscribe: what is sent reaches   *)
(* every worker that runs, once each, and is gone with a worker that dies.  *)
(*                                                                         *)
(* Simplifications: other users and other tool types share no row and no    *)
(* release with these; a request inserts its row as it commits, nothing     *)
(* else happening between; a helm command takes effect as it ends.          *)
(***************************************************************************)
EXTENDS Naturals, Sequences, FiniteSets

CONSTANTS
  Deps,       \* deployments the user may ask for
  Tools,      \* releases in the catalogue, all of one tool type
  Charts,     \* their charts: one release per chart and user, by its name
  ChartOf,    \* the chart of each tool
  Workers,    \* processes that run the background consumer
  MaxFaults,  \* bound: failed commands, crashes, lost messages
  MaxGone,    \* bound: tools that are retired or deleted
  NoDep,      \* "no deployment"
  NoTool,     \* "nothing installed"
  Broken      \* "what a failed upgrade left"

ASSUME ToolDeployAssumption ==
  /\ ChartOf \in [Tools -> Charts]
  /\ MaxFaults \in Nat /\ MaxGone \in Nat
  /\ NoDep \notin Deps
  /\ NoTool \notin Tools /\ Broken \notin Tools /\ NoTool # Broken

VARIABLES
  req,       \* progress of the request behind each deployment
  tool,      \* the tool it asks for
  prev,      \* the active deployment it read, sent along in the message
  row,       \* the ToolDeployment row
  created,   \* rank of each row by its creation time
  inbox,     \* each worker: messages received and not yet handled
  pc, job,   \* each worker: control point and the deployment it works on
  release,   \* what helm has installed under each release name
  listed,    \* tools still in the catalogue
  sched,     \* the clocked job that uninstalls a retired tool
  queued,    \* Celery jobs that uninstall a release, counted per chart
  faults,
  installed, \* history: deployments whose installation succeeded
  orphaned,  \* history: deployments a worker died on
  clashes,   \* history: pairs of deployments that were pending together
  disturbed  \* history: a tool went, or a failure nothing makes good

rowVars == <<row, created>>
reqVars == <<req, tool, prev>>
workerVars == <<pc, job>>
jobVars == <<listed, sched, queued>>
history == <<installed, orphaned, clashes, disturbed>>
vars == <<reqVars, rowVars, inbox, workerVars, release, jobVars, faults, history>>

-----------------------------------------------------------------------------
Active(d) == row[d] = "active"
ActiveDeps == {d \in Deps : Active(d)}
Waits(d) == \E w \in Workers : \E i \in 1 .. Len(inbox[w]) : inbox[w][i] = d
WorkedOn(d) == \E w \in Workers : pc[w] # "idle" /\ job[w] = d
Pending(d) == req[d] = "read" \/ Waits(d) \/ WorkedOn(d)
Pcs == {"idle", "uninstall", "start", "installing", "waiting"}

TypeOK ==
  /\ req \in [Deps -> {"idle", "read", "done", "failed"}]
  /\ tool \in [Deps -> Tools \cup {NoTool}]
  /\ \A d \in Deps : req[d] # "idle" => tool[d] \in Tools
  /\ prev \in [Deps -> Deps \cup {NoDep}]
  /\ row \in [Deps -> {"none", "inactive", "active", "gone"}]
  /\ \A d \in Deps : row[d] # "none" <=> req[d] = "done"
  /\ \A d \in Deps : row[d] \in {"inactive", "active"} => tool[d] \in listed
  /\ created \in [Deps -> Nat]
  /\ inbox \in [Workers -> Seq(Deps)]
  /\ \A d \in Deps : Waits(d) => req[d] = "done"
  /\ pc \in [Workers -> Pcs]
  /\ job \in [Workers -> Deps \cup {NoDep}]
  /\ \A w \in Workers : pc[w] # "idle" => job[w] \in Deps /\ req[job[w]] = "done"
  /\ release \in [Charts -> Tools \cup {NoTool, Broken}]
  /\ listed \subseteq Tools
  /\ sched \in [Tools -> {"no", "due", "done"}]
  /\ queued \in [Charts -> Nat]
  /\ faults \in 0 .. MaxFaults
  /\ installed \subseteq Deps
  /\ orphaned \subseteq Deps
  /\ clashes \subseteq SUBSET Deps
  /\ disturbed \in BOOLEAN

Init ==
  /\ req = [d \in Deps |-> "idle"]
  /\ tool = [d \in Deps |-> NoTool]
  /\ prev = [d \in Deps |-> NoDep]
  /\ row = [d \in Deps |-> "none"]
  /\ created = [d \in Deps |-> 0]
  /\ inbox = [w \in Workers |-> <<>>]
  /\ pc = [w \in Workers |-> "idle"]
  /\ job = [w \in Workers |-> NoDep]
  /\ release = [c \in Charts |-> NoTool]
  /\ listed = Tools
  /\ sched = [t \in Tools |-> "no"]
  /\ queued = [c \in Charts |-> 0]
  /\ faults = 0
  /\ installed = {}
  /\ orphaned = {}
  /\ clashes = {}
  /\ disturbed = FALSE

Fault == faults < MaxFaults /\ faults' = faults + 1

-----------------------------------------------------------------------------
(* The request: ToolDeploymentSerializer.create *)

Latest(ds) == CHOOSE d \in ds : \A e \in ds : created[e] <= created[d]

\* The first query of the transaction: the active deployment, newest first.
ReadActive(d, t) ==
  /\ req[d] = "idle"
  /\ t \in listed
  /\ req' = [req EXCEPT ![d] = "read"]
  /\ tool' = [tool EXCEPT ![d] = t]
  /\ prev' = [prev EXCEPT ![d] = IF ActiveDeps = {} THEN NoDep ELSE Latest(ActiveDeps)]
  /\ clashes' = clashes \cup {{d, e} : e \in {e \in Deps \ {d} : Pending(e)}}
  /\ UNCHANGED <<rowVars, inbox, workerVars, release, jobVars, faults,
                 installed, orphaned, disturbed>>

InsertRow(d, others) ==
  /\ req[d] = "read"
  /\ tool[d] \in listed
  /\ req' = [req EXCEPT ![d] = "done"]
  /\ row' = [e \in Deps |-> IF e = d THEN "inactive" ELSE others[e]]
  /\ created' = [created EXCEPT ![d] = 1 + Cardinality({e \in Deps : row[e] # "none"})]

AllInactive == [e \in Deps |-> IF Active(e) THEN "inactive" ELSE row[e]]
Broadcast(d) == inbox' = [w \in Workers |-> Append(inbox[w], d)]

\* The rest of the transaction, and what runs on commit: every row of the type
\* becomes inactive, the new one is inserted, the message goes to all workers.
CommitDeploy(d) ==
  /\ InsertRow(d, AllInactive)
  /\ Broadcast(d)
  /\ UNCHANGED <<tool, prev, workerVars, release, jobVars, faults, history>>

\* The process dies before the message is sent, or nobody is subscribed.
CommitUnheard(d) ==
  /\ Fault
  /\ InsertRow(d, AllInactive)
  /\ disturbed' = TRUE
  /\ UNCHANGED <<tool, prev, inbox, workerVars, release, jobVars, installed, orphaned, clashes>>

\* The tool has been deleted since the request was validated.
CommitFails(d) ==
  /\ req[d] = "read"
  /\ tool[d] \notin listed
  /\ req' = [req EXCEPT ![d] = "failed"]
  /\ UNCHANGED <<tool, prev, rowVars, inbox, workerVars, release, jobVars, faults, history>>

-----------------------------------------------------------------------------
(* The worker: BackgroundTaskConsumer.tool_deploy *)

GoTo(w, p) == pc' = [pc EXCEPT ![w] = p]
Idle(w) == GoTo(w, "idle") /\ job' = [job EXCEPT ![w] = NoDep]

\* Mutant: the check for an active row is dropped.
TakeUnchecked(w) ==
  LET d == Head(inbox[w]) IN
  /\ pc[w] = "idle" /\ inbox[w] # <<>>
  /\ inbox' = [inbox EXCEPT ![w] = Tail(@)]
  /\ IF row[d] # "gone"
     THEN /\ row' = [row EXCEPT ![d] = "active"]
          /\ GoTo(w, "uninstall")
          /\ job' = [job EXCEPT ![w] = d]
     ELSE UNCHANGED <<row, workerVars>>
  /\ UNCHANGED <<reqVars, created, release, jobVars, faults, history>>

\* Under the row's lock: a row that is active already ends the handler, as does
\* one that is gone (it raises); otherwise it is made active.
Take(w) ==
  LET d == Head(inbox[w]) IN
  /\ pc[w] = "idle" /\ inbox[w] # <<>>
  /\ inbox' = [inbox EXCEPT ![w] = Tail(@)]
  /\ IF row[d] = "inactive"
     THEN /\ row' = [row EXCEPT ![d] = "active"]
          /\ GoTo(w, "uninstall")
          /\ job' = [job EXCEPT ![w] = d]
     ELSE UNCHANGED <<row, workerVars>>
  /\ UNCHANGED <<reqVars, created, release, jobVars, faults, history>>

\* What helm's exit status and error output come to (helm._execute).
HelmOutcome(command, status, says) ==
  CASE status = 0                                     -> "ok"
    [] status # 0 /\ says = "release not loaded"      -> "not found"
    [] status # 0 /\ says = "deadline exceeded"       -> "timeout"
    [] status # 0 /\ says = "operation in progress"   -> "conflict"
    [] status # 0 /\ says = "transient"
                  /\ command = "upgrade"              -> "ok"
    [] OTHER                                          -> "error"

HelmSays == {"release not loaded", "deadline exceeded", "operation in progress",
             "transient", "something else"}

PrevChart(w) == ChartOf[tool[prev[job[w]]]]
HasPrev(w) == prev[job[w]] # NoDep /\ row[prev[job[w]]] # "gone"

\* helm.delete waits for the previous release to go; one that is not there is
\* no error to the handler.
UninstallPrev(w) ==
  /\ pc[w] = "uninstall"
  /\ GoTo(w, "start")
  /\ release' = IF HasPrev(w) THEN [release EXCEPT ![PrevChart(w)] = NoTool] ELSE release
  /\ UNCHANGED <<reqVars, rowVars, inbox, job, jobVars, faults, history>>

\* Nor is any other failure: "Continuing to deploy".
UninstallPrevFails(w) ==
  /\ pc[w] = "uninstall"
  /\ HasPrev(w)
  /\ Fault
  /\ \E says \in HelmSays : HelmOutcome("uninstall", 1, says) # "ok"
  /\ GoTo(w, "start")
  /\ disturbed' = TRUE
  /\ UNCHANGED <<reqVars, rowVars, inbox, job, release, jobVars, installed, orphaned, clashes>>

Chart(w) == ChartOf[tool[job[w]]]
Busy(c) == \E v \in Workers : pc[v] = "installing" /\ Chart(v) = c

\* Mutant: a row that went meanwhile is saved again.
GiveUpSaves(w) ==
  /\ Idle(w)
  /\ row' = [row EXCEPT ![job[w]] = "inactive"]
  /\ UNCHANGED created

\* Mutant: a failure leaves the row active.
GiveUpActive(w) ==
  /\ Idle(w)
  /\ UNCHANGED rowVars

\* The error handler: inactive again, so that the user may retry; a row that
\* went meanwhile cannot be saved, its tool being gone too.
GiveUp(w) ==
  /\ Idle(w)
  /\ row' = IF row[job[w]] = "gone" THEN row ELSE [row EXCEPT ![job[w]] = "inactive"]
  /\ UNCHANGED created

\* helm upgrade --install begins, unless another one is at this release.
StartInstall(w) ==
  /\ pc[w] = "start"
  /\ ~ Busy(Chart(w))
  /\ GoTo(w, "installing")
  /\ UNCHANGED <<reqVars, rowVars, inbox, job, release, jobVars, faults, history>>

InstallConflicts(w) ==
  /\ pc[w] = "start"
  /\ Busy(Chart(w))
  /\ HelmOutcome("upgrade", 1, "operation in progress") # "ok"
  /\ GiveUp(w)
  /\ UNCHANGED <<reqVars, inbox, release, jobVars, faults, history>>

EndInstall(w) ==
  /\ pc[w] = "installing"
  /\ GoTo(w, "waiting")
  /\ release' = [release EXCEPT ![Chart(w)] = tool[job[w]]]
  /\ installed' = installed \cup {job[w]}
  /\ UNCHANGED <<reqVars, rowVars, inbox, job, jobVars, faults, orphaned, clashes, disturbed>>

\* helm ends with an error.  What it says decides whether the deployment is
\* given up or goes on to be judged by its status.
InstallFails(w) ==
  /\ pc[w] = "installing"
  /\ Fault
  /\ \E left \in {release[Chart(w)], Broken} : release' = [release EXCEPT ![Chart(w)] = left]
  /\ \E says \in HelmSays :
       IF HelmOutcome("upgrade", 1, says) = "ok"
       THEN /\ GoTo(w, "waiting")
            /\ installed' = installed \cup {job[w]}
            /\ disturbed' = TRUE
            /\ UNCHANGED <<rowVars, job>>
       ELSE GiveUp(w) /\ UNCHANGED <<installed, disturbed>>
  /\ UNCHANGED <<reqVars, inbox, jobVars, orphaned, clashes>>

\* wait_for_deployment: the status is settled and the page is told.
Settled(w) ==
  /\ pc[w] = "waiting"
  /\ Idle(w)
  /\ UNCHANGED <<reqVars, rowVars, inbox, release, jobVars, faults, history>>

\* The process dies, or an exception in a handler ends its consumer instance
\* with what is queued for it.
WorkerDies(w) ==
  /\ pc[w] # "idle" \/ inbox[w] # <<>>
  /\ Fault
  /\ Idle(w)
  /\ inbox' = [inbox EXCEPT ![w] = <<>>]
  /\ orphaned' = orphaned \cup (IF pc[w] = "idle" THEN {} ELSE {job[w]})
  /\ disturbed' = TRUE
  /\ UNCHANGED <<reqVars, rowVars, release, jobVars, installed, clashes>>

WorkerStep(w) ==
  \/ Take(w) \/ UninstallPrev(w) \/ StartInstall(w)
  \/ InstallConflicts(w) \/ EndInstall(w) \/ Settled(w)

-----------------------------------------------------------------------------
(* Tools go: Tool.save when retired, and deletion *)

RowsOf(t, states) == {d \in Deps : row[d] \in states /\ tool[d] = t}

MayGo(t) == Cardinality({t} \cup {u \in Tools : u \notin listed \/ sched[u] # "no"}) <= MaxGone

\* Saving a retired tool schedules the removal for the next night.  (Bound:
\* once per tool.)
RetireTool(t) ==
  /\ t \in listed /\ MayGo(t)
  /\ sched[t] = "no"
  /\ sched' = [sched EXCEPT ![t] = "due"]
  /\ UNCHANGED <<reqVars, rowVars, inbox, workerVars, release, listed, queued, faults, history>>

\* uninstall_tool: a job for each active deployment; no row changes.
RunUninstallTool(t) ==
  /\ sched[t] = "due"
  /\ sched' = [sched EXCEPT ![t] = "done"]
  /\ queued' = IF t \in listed
               THEN [queued EXCEPT ![ChartOf[t]] = @ + Cardinality(RowsOf(t, {"active"}))]
               ELSE queued
  /\ disturbed' = TRUE
  /\ UNCHANGED <<reqVars, rowVars, inbox, workerVars, release, listed, faults,
                 installed, orphaned, clashes>>

\* Deletion takes along every deployment of the tool, active or not, and each
\* of them queues the removal of its release.
DeleteTool(t) ==
  /\ t \in listed /\ MayGo(t)
  /\ listed' = listed \ {t}
  /\ row' = [d \in Deps |-> IF d \in RowsOf(t, {"active", "inactive"}) THEN "gone" ELSE row[d]]
  /\ queued' = [queued EXCEPT ![ChartOf[t]] = @ + Cardinality(RowsOf(t, {"active", "inactive"}))]
  /\ disturbed' = TRUE
  /\ UNCHANGED <<reqVars, created, inbox, workerVars, release, sched, faults,
                 installed, orphaned, clashes>>

\* uninstall_helm_release, acknowledged on receipt: a failure is not retried.
RunUninstall(c) ==
  /\ queued[c] > 0
  /\ queued' = [queued EXCEPT ![c] = @ - 1]
  /\ \/ release' = [release EXCEPT ![c] = NoTool] /\ UNCHANGED faults
     \/ Fault /\ UNCHANGED release
  /\ UNCHANGED <<reqVars, rowVars, inbox, workerVars, listed, sched, history>>

-----------------------------------------------------------------------------
RequestNext ==
  \E d \in Deps :
    \/ \E t \in Tools : ReadActive(d, t)
    \/ CommitDeploy(d) \/ CommitUnheard(d) \/ CommitFails(d)

WorkerNext ==
  \E w \in Workers :
    WorkerStep(w) \/ UninstallPrevFails(w) \/ InstallFails(w) \/ WorkerDies(w)

JobNext ==
  \/ \E t \in Tools : RetireTool(t) \/ RunUninstallTool(t) \/ DeleteTool(t)
  \/ \E c \in Charts : RunUninstall(c)

Next == RequestNext \/ WorkerNext \/ JobNext

Spec == Init /\ [][Next]_vars

-----------------------------------------------------------------------------
(* Properties *)

Quiet == \A d \in Deps : ~ Pending(d)

\* An active row is one whose installation succeeded, is in progress, or was
\* cut off by a crash: no failure leaves the page showing a tool that is not
\* there (consumers.py: "unmark the deployment object as active to allow the
\* user to retry").
ActiveWasInstalled ==
  \A d \in ActiveDeps : WorkedOn(d) \/ d \in installed \cup orphaned

\* Requests that did not overlap leave at most one active row of a type, and
\* exactly its tool installed, although every worker receives every message and
\* installations fail: the rest is NoTool, or what a failed upgrade left
\* (serializers.py "mark all previous deployments ... as inactive").
AloneIsExact ==
  Quiet /\ clashes = {} /\ ~ disturbed =>
    \A c \in Charts :
      LET here == {d \in ActiveDeps : ChartOf[tool[d]] = c}
      IN  /\ Cardinality(here) <= 1
          /\ release[c] \in Tools <=> \E d \in here : release[c] = tool[d]

\* Both of the above: the row that a page shows as active tells what is
\* installed.
RowsTellReleases == ActiveWasInstalled /\ AloneIsExact

\* What deletion of a tool uninstalls is a release of that tool ("Uninstall the
\* tool deployment from the cluster", tool.py): while nothing else is going on
\* and all requests came one after the other, an active deployment of a tool
\* that is still listed and was never retired keeps its release.
DeletionSparesOthers ==
  Quiet /\ clashes = {} /\ faults = 0 /\ (\A t \in Tools : sched[t] = "no") =>
    \A d \in ActiveDeps : release[ChartOf[tool[d]]] = tool[d]

\* At most one deployment of a type is active; overlapping requests break it,
\* and no run checks it.
OneActive == Cardinality(ActiveDeps) <= 1
=============================================================================
