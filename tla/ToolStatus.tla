----------------------------- MODULE ToolStatus -----------------------------
(***************************************************************************)
(* The tools page of one user and the events that keep it up to date: the   *)
(* stream a page opens after it was rendered, the status messages sent by   *)
(* the workers that deploy and restart the tools of one type, and what      *)
(* Kubernetes says of them meanwhile.                                       *)
(*                                                                         *)
(* The channel layer is publish and subscribe: a request reaches every      *)
(* worker, a status every page that has joined the user's group, in the     *)
(* order it was sent; nothing is kept for a page that joins later.          *)
(*                                                                         *)
(* Simplifications: no tool is retired meanwhile, and of several active     *)
(* deployments the page may show any (ToolDeploy has both).                 *)
(***************************************************************************)
EXTENDS Naturals, Sequences, FiniteSets

CONSTANTS
  Tabs,      \* pages the user may have open
  Runners,   \* background workers
  Releases,  \* tools of the type (bound: each is deployed at most once)
  Nothing,   \* "no deployment"
  MaxAsks,   \* bound: deployments and restarts asked for
  MaxWire,   \* bound: events on their way to one page
  MaxTurns   \* bound: connections, workers and calls that break, and
             \* changes Kubernetes makes by itself

ASSUME ToolStatusAssumption ==
  /\ MaxAsks \in Nat /\ MaxWire \in Nat /\ MaxTurns \in Nat
  /\ Nothing \notin Releases

VARIABLES
  tabs,     \* each page: what it shows, and the events on their way to it
  runners,  \* each worker: requests received, what it is at, what it read
  actives,  \* deployments whose row is active
  deployed, \* deployments asked for
  kube,     \* what Kubernetes has of the tool
  bounds,   \* use of the bounds
  told,     \* history: the status sent last
  stale,    \* history: what Kubernetes has is not what that status was read from
  mixed,    \* history: two workers were busy at once
  cutOff    \* history: a worker stopped before its last status

statusVars == <<tabs, runners, actives, deployed, kube, bounds, told, stale, mixed, cutOff>>

-----------------------------------------------------------------------------
\* ToolDeployment.get_status: conditions as Kubernetes shows them, and their names.
Says == [absent |-> "Not deployed", progressing |-> "Deploying", available |-> "Ready",
         scaled |-> "Idled", stuck |-> "Failed", several |-> "Unknown"]
Statuses == {Says[k] : k \in DOMAIN Says} \cup {"Restarting"}
Unsettled == {"Deploying", "Restarting"}

Order(kind, d) == [kind |-> kind, dep |-> d]
Orders == [kind : {"deploy", "restart"}, dep : Releases]
NewTab == [pc |-> "shown", dep |-> Nothing, label |-> "Not deployed",
           wire |-> <<>>, heard |-> FALSE]
IdleRunner == [pc |-> "idle", dep |-> Nothing, helm |-> "none", saw |-> "Not deployed", inbox |-> <<>>]

StatusTypeOK ==
  /\ tabs \in [Tabs -> [pc : {"shown", "joined"}, dep : Releases \cup {Nothing},
                        label : Statuses, wire : Seq(Statuses), heard : BOOLEAN]]
  /\ \A t \in Tabs : tabs[t].pc # "joined" => tabs[t].wire = <<>>
  /\ runners \in [Runners -> [pc : {"idle", "deploy", "restart", "read", "tell"}, dep : Releases \cup {Nothing},
                              helm : {"none", "ok"}, saw : Statuses, inbox : Seq(Orders)]]
  /\ actives \subseteq deployed /\ deployed \subseteq Releases
  /\ kube \in DOMAIN Says
  /\ told \in Statuses /\ stale \in BOOLEAN /\ mixed \in BOOLEAN /\ cutOff \in BOOLEAN

StatusInit ==
  /\ tabs = [t \in Tabs |-> NewTab]
  /\ runners = [w \in Runners |-> IdleRunner]
  /\ actives = {} /\ deployed = {}
  /\ kube = "absent"
  /\ bounds = [asks |-> 0, turns |-> 0]
  /\ told = "Not deployed" /\ stale = FALSE /\ mixed = FALSE /\ cutOff = FALSE

Spend(b, max) == bounds[b] < max /\ bounds' = [bounds EXCEPT ![b] = @ + 1]
AtWork(w) == runners[w].pc # "idle"

-----------------------------------------------------------------------------
(* The page *)

\* ToolList, also to look again: the active deployment and its status, asked
\* of Kubernetes.  The stream of the page it replaces ends.
OpenPage(t) ==
  /\ \E d \in IF actives = {} THEN {Nothing} ELSE actives :
       tabs' = [tabs EXCEPT ![t] = [NewTab EXCEPT !.dep = d, !.label = IF d = Nothing THEN @ ELSE Says[kube]]]
  /\ UNCHANGED <<runners, actives, deployed, kube, bounds, told, stale, mixed, cutOff>>

\* SSEConsumer.handle: the page joins its user's group after it was rendered.
JoinStream(t) ==
  /\ tabs[t].pc = "shown"
  /\ tabs' = [tabs EXCEPT ![t].pc = "joined"]
  /\ UNCHANGED <<runners, actives, deployed, kube, bounds, told, stale, mixed, cutOff>>

\* The event handler of tool-status.js.
ShowEvent(t) ==
  /\ tabs[t].wire # <<>>
  /\ tabs' = [tabs EXCEPT ![t].label = Head(tabs[t].wire), ![t].wire = Tail(@)]
  /\ UNCHANGED <<runners, actives, deployed, kube, bounds, told, stale, mixed, cutOff>>

\* The connection breaks: the browser opens another, what was sent is lost.
StreamBreaks(t) ==
  /\ tabs[t].pc = "joined"
  /\ Spend("turns", MaxTurns)
  /\ tabs' = [tabs EXCEPT ![t].pc = "shown", ![t].wire = <<>>, ![t].heard = FALSE]
  /\ UNCHANGED <<runners, actives, deployed, kube, told, stale, mixed, cutOff>>

-----------------------------------------------------------------------------
(* Requests *)

Publish(o) == runners' = [w \in Runners |-> [runners[w] EXCEPT !.inbox = Append(@, o)]]

\* Every other deployment of the type is made inactive.
AskDeploy(d) ==
  /\ d \notin deployed
  /\ Spend("asks", MaxAsks)
  /\ deployed' = deployed \cup {d}
  /\ actives' = {}
  /\ Publish(Order("deploy", d))
  /\ UNCHANGED <<tabs, kube, told, stale, mixed, cutOff>>

\* RestartTool: the deployment the page was rendered with must still be active.
Restartable == actives
AskRestart(t) ==
  /\ tabs[t].dep \in Restartable
  /\ Spend("asks", MaxAsks)
  /\ Publish(Order("restart", tabs[t].dep))
  /\ UNCHANGED <<tabs, actives, deployed, kube, told, stale, mixed, cutOff>>

-----------------------------------------------------------------------------
(* The workers *)

\* update_tool_status: to the pages that are in the group now.
SendStatus(s) ==
  /\ \A t \in Tabs : Len(tabs[t].wire) < MaxWire
  /\ tabs' = [t \in Tabs |-> IF tabs[t].pc = "joined"
                             THEN [tabs[t] EXCEPT !.wire = Append(@, s), !.heard = TRUE] ELSE tabs[t]]
  /\ told' = s

Starts(w, pc) ==
  /\ runners' = [runners EXCEPT ![w].pc = pc, ![w].dep = Head(runners[w].inbox).dep,
                                ![w].helm = "none", ![w].inbox = Tail(@)]
  /\ mixed' = (mixed \/ \E v \in Runners \ {w} : AtWork(v))

Free(w) == [IdleRunner EXCEPT !.inbox = runners[w].inbox]
Waiting(w, kind) == runners[w].pc = "idle" /\ runners[w].inbox # <<>> /\ Head(runners[w].inbox).kind = kind

\* tool_deploy: unless the row is active already.
TakeDeploy(w) ==
  LET d == Head(runners[w].inbox).dep IN
  /\ Waiting(w, "deploy")
  /\ IF d \in actives
     THEN /\ runners' = [runners EXCEPT ![w].inbox = Tail(@)]
          /\ UNCHANGED <<tabs, actives, told, mixed>>
     ELSE Starts(w, "deploy") /\ actives' = actives \cup {d} /\ SendStatus("Deploying")
  /\ UNCHANGED <<deployed, kube, bounds, stale, cutOff>>

\* helm installs and waits.  A process that ended well is kept and says so; one
\* that ended with an error taken for a transient one is not, and Kubernetes,
\* wherever the upgrade left it, is asked instead.
HelmEnds(w) ==
  /\ runners[w].pc = "deploy"
  /\ \/ /\ kube' = "available" /\ stale' = FALSE
        /\ runners' = [runners EXCEPT ![w].pc = "read", ![w].helm = "ok", ![w].dep = Nothing]
     \/ /\ kube' \in {kube, "progressing", "available", "stuck"} /\ stale' = (stale \/ kube' # kube)
        /\ runners' = [runners EXCEPT ![w].pc = "read", ![w].helm = "none", ![w].dep = Nothing]
  /\ UNCHANGED <<tabs, actives, deployed, bounds, told, mixed, cutOff>>

HelmRaisesQuietly(w) ==   \* mutant: the page is not told of a failed deployment
  /\ runners[w].pc = "deploy"
  /\ kube' \in {"absent", "progressing", "stuck"} /\ stale' = TRUE
  /\ actives' = actives \ {runners[w].dep}
  /\ runners' = [runners EXCEPT ![w] = Free(w)]
  /\ UNCHANGED <<tabs, told, deployed, bounds, mixed, cutOff>>

HelmRaises(w) ==
  /\ runners[w].pc = "deploy"
  /\ kube' \in {"absent", "progressing", "stuck"} /\ stale' = TRUE
  /\ actives' = actives \ {runners[w].dep}
  /\ runners' = [runners EXCEPT ![w] = Free(w)]
  /\ SendStatus("Failed")
  /\ UNCHANGED <<deployed, bounds, mixed, cutOff>>

\* tool_restart raises when the deployment is no longer active; its consumer
\* ends, with the requests queued for it.
TakeRestart(w) ==
  /\ Waiting(w, "restart")
  /\ IF Head(runners[w].inbox).dep \in actives
     THEN Starts(w, "restart") /\ SendStatus("Restarting") /\ UNCHANGED cutOff
     ELSE /\ runners' = [runners EXCEPT ![w].inbox = <<>>]
          /\ UNCHANGED <<tabs, told, mixed, cutOff>>
  /\ UNCHANGED <<actives, deployed, kube, bounds, stale>>

\* The replica sets are deleted; the deployment may still show its old conditions.
DeleteReplicas(w) ==
  /\ runners[w].pc = "restart"
  /\ kube' \in (IF kube = "absent" THEN {kube} ELSE {kube, "progressing"})
  /\ stale' = (stale \/ kube' # kube)
  /\ runners' = [runners EXCEPT ![w].pc = "read", ![w].dep = Nothing]
  /\ UNCHANGED <<tabs, actives, deployed, bounds, told, mixed, cutOff>>

\* ToolDeployment.get_status: what the process that was kept says, once, else
\* what Kubernetes says.
StatusRead(w) == IF runners[w].helm = "ok" THEN "Ready" ELSE Says[kube]

ReadStatus(w) ==
  /\ runners[w].pc = "read"
  /\ runners' = [runners EXCEPT ![w].pc = "tell", ![w].saw = StatusRead(w), ![w].helm = "none"]
  /\ stale' = (runners[w].helm # "none" /\ stale)
  /\ UNCHANGED <<tabs, actives, deployed, kube, bounds, told, mixed, cutOff>>

\* wait_for_deployment: tell the pages, and go on while it is deploying.
TellStatus(w) ==
  /\ runners[w].pc = "tell"
  /\ SendStatus(runners[w].saw)
  /\ runners' = [runners EXCEPT ![w] = IF runners[w].saw = "Deploying"
                                         THEN [Free(w) EXCEPT !.pc = "read"] ELSE Free(w)]
  /\ UNCHANGED <<actives, deployed, kube, bounds, stale, mixed, cutOff>>

\* The process dies, or a call to Kubernetes raises: nothing more is sent.
RunnerBreaks(w) ==
  /\ AtWork(w) \/ runners[w].inbox # <<>>
  /\ Spend("turns", MaxTurns)
  /\ runners' = [runners EXCEPT ![w] = IdleRunner]
  /\ cutOff' = (cutOff \/ AtWork(w))
  /\ UNCHANGED <<tabs, actives, deployed, kube, told, stale, mixed>>

\* Pods start, fail, are scaled down by the idler and up by the unidler.
Shifts == {<<"progressing", "available">>, <<"progressing", "stuck">>, <<"available", "scaled">>,
          <<"scaled", "available">>, <<"available", "progressing">>, <<"available", "several">>}
KubeMoves ==
  /\ Spend("turns", MaxTurns)
  /\ \E m \in Shifts : kube = m[1] /\ kube' = m[2]
  /\ stale' = TRUE
  /\ UNCHANGED <<tabs, runners, actives, deployed, told, mixed, cutOff>>

StatusNext ==
  \/ \E t \in Tabs : OpenPage(t) \/ JoinStream(t) \/ ShowEvent(t) \/ StreamBreaks(t) \/ AskRestart(t)
  \/ \E d \in Releases : AskDeploy(d)
  \/ \E w \in Runners : TakeDeploy(w) \/ HelmEnds(w) \/ HelmRaises(w) \/ TakeRestart(w)
                        \/ DeleteReplicas(w) \/ ReadStatus(w) \/ TellStatus(w) \/ RunnerBreaks(w)
  \/ KubeMoves

-----------------------------------------------------------------------------
(* Properties *)

AtRest == \A w \in Runners : ~ AtWork(w) /\ runners[w].inbox = <<>>
Follows(t) == tabs[t].pc = "joined" /\ tabs[t].heard /\ tabs[t].wire = <<>>

\* "The status of your tools will update automatically" (tool-list.html): once
\* the workers are done, a page that heard of any of their work shows how it
\* ended, never that it is still going on; and when the workers did not cross
\* and Kubernetes has not moved since, it shows what Kubernetes has.
StatusesSettle ==
  AtRest /\ ~ cutOff =>
    \A t \in Tabs : Follows(t) =>
      /\ tabs[t].label = told /\ told \notin Unsettled
      /\ ~ mixed /\ ~ stale => tabs[t].label = Says[kube]

\* The same of every page that has joined, heard or not: a status sent between
\* the rendering of the page and its joining the group is lost on it.
JoinedSettle ==
  AtRest /\ ~ cutOff =>
    \A t \in Tabs : tabs[t].pc = "joined" /\ tabs[t].wire = <<>> => tabs[t].label \notin Unsettled
=============================================================================
