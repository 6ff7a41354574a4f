----------------------------- MODULE TaskQueue -----------------------------
(***************************************************************************)
(* The background task pipeline: a web request that sends a message to SQS *)
(* and then records a Task row, Celery workers with late acknowledgement,  *)
(* and the administrators' task page, whose cancel and retry save a whole  *)
(* row read earlier.                                                       *)
(*                                                                         *)
(* A step of the model is one database statement, one SQS call or one      *)
(* handler body.  Rows are read and written whole, as Django's save() does.*)
(***************************************************************************)
EXTENDS Naturals

CONSTANTS
  Tasks,         \* tasks that requests may create (one message body each)
  AtomicTasks,   \* those created inside transaction.atomic
  AppTasks,      \* those about an App, whose rows go when the App goes
  Workers,       \* Celery worker processes
  Admins,        \* requests of administrators to the task page or task API
  MaxSends,      \* bound: copies of one task's message ever sent
  MaxFaults,     \* bound: failures, crashes, early timeouts, expiries
  NoRow,         \* "no Task row found"
  NoMsg, NoTask  \* "worker holds no message", "admin looks at no task"

Row == [completed : BOOLEAN, cancelled : BOOLEAN]
Msgs == Tasks \X (1 .. MaxSends)      \* <<t, n>>: the n-th copy for task t

ASSUME TaskQueueAssumption ==
  /\ AtomicTasks \subseteq Tasks
  /\ AppTasks \subseteq Tasks
  /\ MaxSends \in Nat \ {0}
  /\ MaxFaults \in Nat
  /\ NoRow \notin Row
  /\ NoMsg \notin Msgs
  /\ NoTask \notin Tasks

VARIABLES
  producer,   \* progress of the request that creates each task
  entity,     \* tasks whose main object (bucket, access row, app) is committed
  row,        \* the Task table
  msg,        \* state of every message copy in SQS
  wpc, wmsg, wrow,   \* each worker: control point, message, Task row it read
  apc, atask, arow,  \* each admin request: control point, task, row it read
  faults,     \* faults so far
  handled,    \* history: tasks whose handler took effect
  cancelledOnce,     \* history: tasks whose row was ever saved cancelled
  expired,    \* history: tasks that lost a message to SQS retention
  untracked   \* history: tasks whose row and messages have come apart

rowVars == <<row, cancelledOnce>>
workerVars == <<wpc, wmsg, wrow>>
adminVars == <<apc, atask, arow>>
vars == <<producer, entity, row, msg, wpc, wmsg, wrow, apc, atask, arow,
          faults, handled, cancelledOnce, expired, untracked>>

-----------------------------------------------------------------------------
TaskOf(m) == m[1]
CopiesOf(t) == {m \in Msgs : TaskOf(m) = t}
FreshRow == [completed |-> FALSE, cancelled |-> FALSE]
Live(m) == msg[m] \in {"visible", "inflight"}
HasLiveCopy(t) == \E m \in CopiesOf(t) : Live(m)
Sent(t) == \E m \in CopiesOf(t) : msg[m] # "unsent"
WorkerPcs == {"idle", "received", "loading", "handling", "completing", "returning"}

TypeOK ==
  /\ producer \in [Tasks -> {"idle", "saved", "sent", "recorded", "done", "aborted"}]
  /\ entity \subseteq Tasks
  /\ row \in [Tasks -> Row \cup {NoRow}]
  /\ msg \in [Msgs -> {"unsent", "visible", "inflight", "gone"}]
  /\ wpc \in [Workers -> WorkerPcs]
  /\ wmsg \in [Workers -> Msgs \cup {NoMsg}]
  /\ wrow \in [Workers -> Row \cup {NoRow}]
  /\ \A w \in Workers : wpc[w] # "idle" => wmsg[w] \in Msgs
  /\ apc \in [Admins -> {"idle", "loaded", "resend"}]
  /\ atask \in [Admins -> Tasks \cup {NoTask}]
  /\ arow \in [Admins -> Row \cup {NoRow}]
  /\ \A a \in Admins : apc[a] # "idle" => atask[a] \in Tasks /\ arow[a] \in Row
  /\ faults \in 0 .. MaxFaults
  /\ handled \subseteq Tasks
  /\ cancelledOnce \subseteq Tasks
  /\ expired \subseteq Tasks
  /\ untracked \subseteq Tasks

Init ==
  /\ producer = [t \in Tasks |-> "idle"]
  /\ entity = {}
  /\ row = [t \in Tasks |-> NoRow]
  /\ msg = [m \in Msgs |-> "unsent"]
  /\ wpc = [w \in Workers |-> "idle"]
  /\ wmsg = [w \in Workers |-> NoMsg]
  /\ wrow = [w \in Workers |-> NoRow]
  /\ apc = [a \in Admins |-> "idle"]
  /\ atask = [a \in Admins |-> NoTask]
  /\ arow = [a \in Admins |-> NoRow]
  /\ faults = 0
  /\ handled = {}
  /\ cancelledOnce = {}
  /\ expired = {}
  /\ untracked = {}

-----------------------------------------------------------------------------
(* The request that asks for a task *)

\* The main object is saved, unseen by others until commit if in a transaction.
SaveEntity(t) ==
  /\ producer[t] = "idle"
  /\ producer' = [producer EXCEPT ![t] = "saved"]
  /\ entity' = IF t \in AtomicTasks THEN entity ELSE entity \cup {t}
  /\ UNCHANGED <<rowVars, msg, workerVars, adminVars, faults, handled, expired, untracked>>

\* create_task, first half: the message leaves at once, transaction or not.
SendMessage(t) ==
  /\ producer[t] = "saved"
  /\ producer' = [producer EXCEPT ![t] = "sent"]
  /\ msg' = [msg EXCEPT ![<<t, 1>>] = "visible"]
  /\ UNCHANGED <<entity, rowVars, workerVars, adminVars, faults, handled, expired, untracked>>

\* create_task, second half: the row that tracks the task.
RecordTask(t) ==
  /\ producer[t] = "sent"
  /\ IF t \in AtomicTasks
     THEN /\ producer' = [producer EXCEPT ![t] = "recorded"]
          /\ UNCHANGED rowVars
     ELSE /\ producer' = [producer EXCEPT ![t] = "done"]
          /\ row' = [row EXCEPT ![t] = FreshRow]
          /\ UNCHANGED cancelledOnce
  /\ UNCHANGED <<entity, msg, workerVars, adminVars, faults, handled, expired, untracked>>

Commit(t) ==
  /\ producer[t] = "recorded"
  /\ producer' = [producer EXCEPT ![t] = "done"]
  /\ entity' = entity \cup {t}
  /\ row' = [row EXCEPT ![t] = FreshRow]
  /\ UNCHANGED <<msg, cancelledOnce, workerVars, adminVars, faults, handled, expired, untracked>>

\* The request dies, or a later call in the transaction raises: what was sent
\* stays sent, an open transaction is rolled back.
RequestFails(t) ==
  /\ producer[t] \in {"saved", "sent", "recorded"}
  /\ faults < MaxFaults
  /\ faults' = faults + 1
  /\ producer' = [producer EXCEPT ![t] = "aborted"]
  /\ UNCHANGED <<entity, rowVars, msg, workerVars, adminVars, handled, expired, untracked>>

\* Somebody deletes the object; App's post_delete takes its Task rows along.
DeleteEntity(t) ==
  /\ t \in entity
  /\ entity' = entity \ {t}
  /\ row' = IF t \in AppTasks THEN [row EXCEPT ![t] = NoRow] ELSE row
  /\ UNCHANGED <<producer, msg, cancelledOnce, workerVars, adminVars, faults, handled, expired, untracked>>

-----------------------------------------------------------------------------
(* SQS: at-least-once delivery, visibility timeout, retention *)
\* Mutant: acknowledged on receipt, as with acks_late off.
ReceiveAcksEarly(w, m) ==
  /\ wpc[w] = "idle"
  /\ msg[m] = "visible"
  /\ msg' = [msg EXCEPT ![m] = "gone"]
  /\ wpc' = [wpc EXCEPT ![w] = "received"]
  /\ wmsg' = [wmsg EXCEPT ![w] = m]
  /\ UNCHANGED <<producer, entity, rowVars, wrow, adminVars, faults, handled, expired, untracked>>

Receive(w, m) ==
  /\ wpc[w] = "idle"
  /\ msg[m] = "visible"
  /\ msg' = [msg EXCEPT ![m] = "inflight"]
  /\ wpc' = [wpc EXCEPT ![w] = "received"]
  /\ wmsg' = [wmsg EXCEPT ![w] = m]
  /\ UNCHANGED <<producer, entity, rowVars, wrow, adminVars, faults, handled, expired, untracked>>

Held(m) == \E w \in Workers : wmsg[w] = m

\* The message comes back once nobody works on it any more ...
VisibilityTimeout(m) ==
  /\ msg[m] = "inflight"
  /\ ~ Held(m)
  /\ msg' = [msg EXCEPT ![m] = "visible"]
  /\ UNCHANGED <<producer, entity, rowVars, workerVars, adminVars, faults, handled, expired, untracked>>

\* ... or under a worker that is slower than the timeout of 30 seconds.
EarlyTimeout(m) ==
  /\ msg[m] = "inflight"
  /\ Held(m)
  /\ faults < MaxFaults
  /\ faults' = faults + 1
  /\ msg' = [msg EXCEPT ![m] = "visible"]
  /\ UNCHANGED <<producer, entity, rowVars, workerVars, adminVars, handled, expired, untracked>>

\* SQS drops a message that outlived the retention period.
Expire(m) ==
  /\ msg[m] = "visible"
  /\ faults < MaxFaults
  /\ faults' = faults + 1
  /\ msg' = [msg EXCEPT ![m] = "gone"]
  /\ expired' = expired \cup {TaskOf(m)}
  /\ UNCHANGED <<producer, entity, rowVars, workerVars, adminVars, handled, untracked>>

-----------------------------------------------------------------------------
(* The worker: BaseModelTaskHandler.run *)

GoTo(w, pc) == wpc' = [wpc EXCEPT ![w] = pc]

Release(w) ==
  /\ GoTo(w, "idle")
  /\ wmsg' = [wmsg EXCEPT ![w] = NoMsg]
  /\ wrow' = [wrow EXCEPT ![w] = NoRow]
\* Mutant: run() looks at completed only.
ReadTaskIgnoresCancel(w) ==
  LET found == row[TaskOf(wmsg[w])] IN
  /\ wpc[w] = "received"
  /\ wrow' = [wrow EXCEPT ![w] = found]
  /\ IF found # NoRow /\ found.completed THEN GoTo(w, "returning") ELSE GoTo(w, "loading")
  /\ UNCHANGED <<producer, entity, rowVars, msg, wmsg, adminVars, faults, handled, expired, untracked>>

\* get_task_obj and the early return; a missing row does not stop the worker.
ReadTask(w) ==
  LET found == row[TaskOf(wmsg[w])] IN
  /\ wpc[w] = "received"
  /\ wrow' = [wrow EXCEPT ![w] = found]
  /\ IF found # NoRow /\ (found.completed \/ found.cancelled)
     THEN GoTo(w, "returning")
     ELSE GoTo(w, "loading")
  /\ UNCHANGED <<producer, entity, rowVars, msg, wmsg, adminVars, faults, handled, expired, untracked>>
\* Mutant: the row is completed before the handler runs.
GetObjectCompletesFirst(w) ==
  LET t == TaskOf(wmsg[w]) IN
  /\ wpc[w] = "loading"
  /\ t \in entity
  /\ row' = IF row[t] = NoRow THEN row ELSE [row EXCEPT ![t].completed = TRUE]
  /\ GoTo(w, "handling")
  /\ UNCHANGED <<producer, entity, cancelledOnce, msg, wmsg, wrow, adminVars, faults, handled, expired, untracked>>

GetObject(w) ==
  /\ wpc[w] = "loading"
  /\ TaskOf(wmsg[w]) \in entity
  /\ GoTo(w, "handling")
  /\ UNCHANGED <<producer, entity, rowVars, msg, wmsg, wrow, adminVars, faults, handled, expired, untracked>>
\* Mutant: a missing object is swallowed and the message acknowledged.
ObjectMissingAcks(w) ==
  /\ wpc[w] = "loading"
  /\ TaskOf(wmsg[w]) \notin entity
  /\ msg' = [msg EXCEPT ![wmsg[w]] = "gone"]
  /\ Release(w)
  /\ UNCHANGED <<producer, entity, rowVars, adminVars, faults, handled, expired, untracked>>

\* DoesNotExist is raised on: the message is not acknowledged.
ObjectMissing(w) ==
  /\ wpc[w] = "loading"
  /\ TaskOf(wmsg[w]) \notin entity
  /\ Release(w)
  /\ UNCHANGED <<producer, entity, rowVars, msg, adminVars, faults, handled, expired, untracked>>

Handle(w) ==
  /\ wpc[w] = "handling"
  /\ handled' = handled \cup {TaskOf(wmsg[w])}
  /\ GoTo(w, "completing")
  /\ UNCHANGED <<producer, entity, rowVars, msg, wmsg, wrow, adminVars, faults, expired, untracked>>

\* complete() saves the whole row the worker read before it started, which
\* also re-inserts a row deleted meanwhile; without a row it only logs.
Complete(w) ==
  LET t == TaskOf(wmsg[w]) IN
  /\ wpc[w] = "completing"
  /\ IF wrow[w] = NoRow
     THEN /\ untracked' = untracked \cup {t}
          /\ UNCHANGED rowVars
     ELSE /\ row' = [row EXCEPT ![t] = [wrow[w] EXCEPT !.completed = TRUE]]
          /\ UNCHANGED <<cancelledOnce, untracked>>
  /\ GoTo(w, "returning")
  /\ UNCHANGED <<producer, entity, msg, wmsg, wrow, adminVars, faults, handled, expired>>

\* The late acknowledgement.  With a receipt that is no longer the latest
\* one, SQS accepts the delete but may keep the message.
Ack(w) ==
  LET m == wmsg[w]
      outdated == msg[m] # "inflight" \/ \E v \in Workers \ {w} : wmsg[v] = m
  IN
  /\ wpc[w] = "returning"
  /\ \/ msg' = [msg EXCEPT ![m] = "gone"]
     \/ outdated /\ UNCHANGED msg
  /\ Release(w)
  /\ UNCHANGED <<producer, entity, rowVars, adminVars, faults, handled, expired, untracked>>
\* Mutant: the failure hook saves the row as the worker read it.
WorkerFailsSavingRow(w) ==
  /\ wpc[w] # "idle"
  /\ faults < MaxFaults
  /\ faults' = faults + 1
  /\ row' = IF wrow[w] = NoRow THEN row ELSE [row EXCEPT ![TaskOf(wmsg[w])] = wrow[w]]
  /\ Release(w)
  /\ UNCHANGED <<producer, entity, cancelledOnce, msg, adminVars, handled, expired, untracked>>

\* Mutant: failures are acknowledged, as with acks_on_failure_or_timeout on.
WorkerFailsAcks(w) ==
  /\ wpc[w] # "idle"
  /\ faults < MaxFaults
  /\ faults' = faults + 1
  /\ msg' = [msg EXCEPT ![wmsg[w]] = "gone"]
  /\ Release(w)
  /\ UNCHANGED <<producer, entity, rowVars, adminVars, handled, expired, untracked>>

\* The handler raises, or the worker process dies: nothing is acknowledged.
WorkerFails(w) ==
  /\ wpc[w] # "idle"
  /\ faults < MaxFaults
  /\ faults' = faults + 1
  /\ Release(w)
  /\ UNCHANGED <<producer, entity, rowVars, msg, adminVars, handled, expired, untracked>>

WorkerStep(w) ==
  \/ ReadTask(w) \/ GetObject(w) \/ ObjectMissing(w)
  \/ Handle(w) \/ Complete(w) \/ Ack(w)

-----------------------------------------------------------------------------
(* The task page (TaskDetail.post) and the task API (TaskAPIView) *)

AdminDone(a) ==
  /\ apc' = [apc EXCEPT ![a] = "idle"]
  /\ atask' = [atask EXCEPT ![a] = NoTask]
  /\ arow' = [arow EXCEPT ![a] = NoRow]

LoadTask(a, t) ==
  /\ apc[a] = "idle"
  /\ row[t] # NoRow
  /\ apc' = [apc EXCEPT ![a] = "loaded"]
  /\ atask' = [atask EXCEPT ![a] = t]
  /\ arow' = [arow EXCEPT ![a] = row[t]]
  /\ UNCHANGED <<producer, entity, rowVars, msg, workerVars, faults, handled, expired, untracked>>

CancelTask(a) ==
  /\ apc[a] = "loaded"
  /\ row' = [row EXCEPT ![atask[a]] = [arow[a] EXCEPT !.cancelled = TRUE]]
  /\ cancelledOnce' = cancelledOnce \cup {atask[a]}
  /\ AdminDone(a)
  /\ UNCHANGED <<producer, entity, msg, workerVars, faults, handled, expired, untracked>>
\* Mutant: the retry saves the row but sends nothing.
RetryTaskNoSend(a) ==
  /\ apc[a] = "loaded"
  /\ row' = [row EXCEPT ![atask[a]] = [arow[a] EXCEPT !.cancelled = FALSE]]
  /\ AdminDone(a)
  /\ UNCHANGED <<producer, entity, msg, cancelledOnce, workerVars, faults, handled, expired, untracked>>

\* _retry_task, up to the save; completed is kept as it was read.
RetryTask(a) ==
  /\ apc[a] = "loaded"
  /\ \E m \in CopiesOf(atask[a]) : msg[m] = "unsent"
  /\ row' = [row EXCEPT ![atask[a]] = [arow[a] EXCEPT !.cancelled = FALSE]]
  /\ apc' = [apc EXCEPT ![a] = "resend"]
  /\ UNCHANGED <<producer, entity, msg, cancelledOnce, workerVars, atask, arow, faults, handled, expired, untracked>>

\* send_task: the stored body is sent again as a new message.
Resend(a) ==
  /\ apc[a] = "resend"
  /\ \E m \in CopiesOf(atask[a]) :
       /\ msg[m] = "unsent"
       /\ msg' = [msg EXCEPT ![m] = "visible"]
  /\ AdminDone(a)
  /\ UNCHANGED <<producer, entity, rowVars, workerVars, faults, handled, expired, untracked>>

ResendFails(a) ==
  /\ apc[a] = "resend"
  /\ faults < MaxFaults
  /\ faults' = faults + 1
  /\ untracked' = untracked \cup {atask[a]}
  /\ AdminDone(a)
  /\ UNCHANGED <<producer, entity, rowVars, msg, workerVars, handled, expired>>

\* TaskAPIView._send_message un-cancels the row, then reads self.object,
\* which this view never sets: AttributeError, and nothing is sent.
ApiSendMessage(a) ==
  /\ apc[a] = "loaded"
  /\ IF arow[a].cancelled
     THEN /\ row' = [row EXCEPT ![atask[a]] = [arow[a] EXCEPT !.cancelled = FALSE]]
          /\ untracked' = untracked \cup {atask[a]}
          /\ UNCHANGED cancelledOnce
     ELSE UNCHANGED <<rowVars, untracked>>
  /\ AdminDone(a)
  /\ UNCHANGED <<producer, entity, msg, workerVars, faults, handled, expired>>

-----------------------------------------------------------------------------
ProducerNext ==
  \E t \in Tasks :
    \/ SaveEntity(t) \/ SendMessage(t) \/ RecordTask(t) \/ Commit(t)
    \/ RequestFails(t) \/ DeleteEntity(t)

QueueNext ==
  \E m \in Msgs :
    \/ \E w \in Workers : Receive(w, m)
    \/ VisibilityTimeout(m) \/ EarlyTimeout(m) \/ Expire(m)

WorkerNext == \E w \in Workers : WorkerStep(w) \/ WorkerFails(w)

AdminNext ==
  \E a \in Admins :
    \/ \E t \in Tasks : LoadTask(a, t)
    \/ CancelTask(a) \/ RetryTask(a) \/ Resend(a) \/ ResendFails(a)
    \/ ApiSendMessage(a)

Next == ProducerNext \/ QueueNext \/ WorkerNext \/ AdminNext

Spec == Init /\ [][Next]_vars

-----------------------------------------------------------------------------
(* Fairness.  Celery workers keep polling and SQS picks among the visible   *)
(* messages at random, so no visible message is passed over for ever        *)
(* (strong); timeouts fire and a worker goes on with what it holds (weak).  *)
(* Requests, administrators and faults owe nothing.                         *)

Fairness ==
  /\ \A m \in Msgs : /\ SF_vars(\E w \in Workers : Receive(w, m))
                     /\ WF_vars(VisibilityTimeout(m))
  /\ \A w \in Workers : WF_vars(WorkerStep(w))

FairSpec == Spec /\ Fairness

-----------------------------------------------------------------------------
(* Properties *)

\* A task whose messages are all used up took effect, unless it was cancelled
\* at some time or SQS retention took a message: acks_late with
\* acks_on_failure_or_timeout off loses nothing to failures, crashes or
\* duplicate deliveries (handlers/base.py, the comment on acknowledgement).
NoSilentLoss ==
  \A t \in Tasks :
    Sent(t) /\ ~ HasLiveCopy(t) => t \in handled \cup cancelledOnce \cup expired

\* A row says completed only if the handler took effect, whatever stale
\* copies workers and administrators save over one another.
CompletedWasHandled ==
  \A t \in Tasks : row[t] # NoRow /\ row[t].completed => t \in handled

\* A row that waits (neither completed nor cancelled) has a message that can
\* still settle it, or an administrator's request about to send one; the only
\* ways out are those recorded in untracked (a worker that found no row, a
\* retry whose send failed, the task API's retry) and retention.
WaitingIsLive ==
  \A t \in Tasks \ (untracked \cup expired) :
    row[t] # NoRow /\ ~ row[t].completed /\ ~ row[t].cancelled
      => HasLiveCopy(t) \/ \E a \in Admins : apc[a] = "resend" /\ atask[a] = t

\* The task page lists the rows that are not completed (TaskList: "Used to
\* display a list of incomplete tasks"): a listed task is not one that was
\* done and whose messages are all acknowledged.
ListedIsUnfinished ==
  \A t \in handled : row[t] # NoRow /\ ~ row[t].completed => HasLiveCopy(t)

\* Only an administrator takes a completion back: however many workers hold
\* stale copies of the row, their saves, failures and redeliveries leave a
\* completed row completed (handlers/base.py, complete and the early return).
OnlyAdminsReopen ==
  [][\A t \in Tasks : row[t] # NoRow /\ row[t].completed =>
       \/ row'[t] = NoRow \/ row'[t].completed
       \/ \E a \in Admins : apc[a] = "loaded" /\ atask[a] = t /\ apc'[a] # "loaded"]_vars

Missing(t) == t \notin entity

\* A message whose object is there and stays there is worked off: the task is
\* handled, unless cancelled or dropped by retention (redelivery, base.py).
EventuallyHandled ==
  \A t \in Tasks :
    Sent(t) ~> (t \in handled \cup cancelledOnce \cup expired \/ Missing(t))

\* Cancelling drains: once the row stays cancelled, workers get rid of every
\* copy of the message, even of one that can never be handled.
CancelDrains ==
  \A t \in Tasks :
    <>[](row[t] # NoRow /\ row[t].cancelled) => <>[](~ HasLiveCopy(t))

-----------------------------------------------------------------------------
(* What the queue implements *)

fate ==
  [t \in Tasks |->
    IF t \in handled THEN "done"
    ELSE IF ~ Sent(t) THEN "unasked"
    ELSE IF HasLiveCopy(t) THEN "pending"
    ELSE "givenUp"]

Abstract == INSTANCE TaskPromise WITH waived <- cancelledOnce \cup expired

\* Every step of the pipeline is a step of the promised at-least-once task,
\* or none: a task is forgotten only after a cancellation or by retention.
Promised == Abstract!Promise
=============================================================================
