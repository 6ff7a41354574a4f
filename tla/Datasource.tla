----------------------------- MODULE Datasource -----------------------------
(***************************************************************************)
(* The life of a data source that is a bucket: its row, its bucket in S3,  *)
(* the message that asks a worker to create the bucket, and the Task row   *)
(* that tracks the message, which a worker completes and an administrator  *)
(* may cancel or retry.                                                    *)
(*                                                                         *)
(* A page creates the bucket itself, inside the transaction that inserts   *)
(* the row.  The REST API inserts the row and sends create_s3bucket inside *)
(* a transaction; a worker creates the bucket, or, when the name is taken, *)
(* deletes the row.  A page deletes softly, the REST API for good; both    *)
(* tag the bucket for archival.  Bucket names are never freed.             *)
(***************************************************************************)
EXTENDS Naturals, FiniteSets

CONSTANTS
  Ids,         \* primary keys, one per creation request
  ApiIds,      \* those created through the REST API
  Names,       \* bucket names
  Foreign,     \* names of buckets in other accounts
  NameOf,      \* the name asked for in each request
  Workers,
  MaxFaults,   \* bound on failures, resent messages, rollbacks and administrators' requests
  NoId         \* a worker with nothing to do

ASSUME DatasourceAssumption ==
  /\ ApiIds \subseteq Ids
  /\ Foreign \subseteq Names
  /\ NameOf \in [Ids -> Names]
  /\ NoId \notin Ids
  /\ MaxFaults \in Nat

VARIABLES
  request,    \* progress of the request that creates a row
  removal,    \* progress of the request that deletes a row
  row,        \* the row: absent, live or deleted (softly)
  bucket,     \* S3: no bucket, made but not set up, ready, or another account's
  tagged,     \* buckets tagged to-archive
  copies,     \* copies of the create message on the queue
  task,       \* the Task row of the message
  desk,       \* the administrator's request: which Task row it loaded, and as what
  worker,     \* what each worker does, for which row, and if it has the Task row
  created,    \* history: rows whose bucket was made and set up for them
  unsent,     \* history: rows whose task was retried by a request that sent nothing
  faults      \* failures so far

tracking == <<task, desk, unsent>>
vars == <<request, removal, row, bucket, tagged, copies, tracking, worker, created, faults>>

Requests == {"idle", "checked", "inserted", "made", "set up", "sent", "done", "refused"}
Removals == {"none", "saved", "tagging", "done", "failed"}
Steps == {"idle", "taken", "loading", "creating", "setting up", "completing", "cleaning",
          "tagged", "returning"}
TaskRows == {"absent", "open", "cancelled", "completed"}
Doings == [step : Steps, id : Ids \cup {NoId}, tracked : BOOLEAN]

TypeOK ==
  /\ request \in [Ids -> Requests]
  /\ removal \in [Ids -> Removals]
  /\ row \in [Ids -> {"absent", "live", "deleted"}]
  /\ bucket \in [Names -> {"none", "bare", "ready", "foreign"}]
  /\ tagged \subseteq Names
  /\ copies \in [Ids -> Nat]
  /\ task \in [Ids -> TaskRows]
  /\ desk \in [id : Ids \cup {NoId}, seen : TaskRows \cup {"saved"}]
  /\ worker \in [Workers -> Doings]
  /\ created \subseteq Ids /\ unsent \subseteq Ids
  /\ faults \in 0 .. MaxFaults

Idle == [step |-> "idle", id |-> NoId, tracked |-> FALSE]
Nobody == [id |-> NoId, seen |-> "absent"]

Init ==
  /\ request = [i \in Ids |-> "idle"]
  /\ removal = [i \in Ids |-> "none"]
  /\ row = [i \in Ids |-> "absent"]
  /\ bucket = [n \in Names |-> IF n \in Foreign THEN "foreign" ELSE "none"]
  /\ tagged = {}
  /\ copies = [i \in Ids |-> 0]
  /\ task = [i \in Ids |-> "absent"]
  /\ desk = Nobody
  /\ worker = [w \in Workers |-> Idle]
  /\ created = {} /\ unsent = {}
  /\ faults = 0

-----------------------------------------------------------------------------
(* Names and buckets *)

Owned(n) == bucket[n] \in {"bare", "ready"}
Pending(i) == request[i] \in {"inserted", "made", "set up", "sent"}

\* The name is unique: an insert waits for one that is not committed yet.
MayInsert(i) ==
  \A j \in Ids \ {i} : NameOf[j] = NameOf[i] => row[j] = "absent" /\ ~Pending(j)

NameTaken(i) == \E j \in Ids \ {i} : NameOf[j] = NameOf[i] /\ row[j] # "absent"

Fault == faults < MaxFaults /\ faults' = faults + 1

ToRequest(i, s) == request' = [request EXCEPT ![i] = s]
ToRow(i, s) == row' = [row EXCEPT ![i] = s]
ToWorker(w, s) == worker' = [worker EXCEPT ![w].step = s]

\* S3 creates a bucket whose name nobody has.
MakeBucket(n) == bucket[n] = "none" /\ bucket' = [bucket EXCEPT ![n] = "bare"]
SetUpBucket(n) == bucket' = [bucket EXCEPT ![n] = IF @ = "bare" THEN "ready" ELSE @]

-----------------------------------------------------------------------------
(* The page *)

\* The form asks S3 whether the name is free.
PageCheck(i) ==
  /\ i \notin ApiIds /\ request[i] = "idle"
  /\ ToRequest(i, IF bucket[NameOf[i]] = "none" THEN "checked" ELSE "refused")
  /\ UNCHANGED <<removal, row, bucket, tagged, copies, tracking, worker, created, faults>>

PageInsert(i) ==
  /\ request[i] = "checked"
  /\ \/ MayInsert(i) /\ ToRequest(i, "inserted")
     \/ NameTaken(i) /\ ToRequest(i, "refused")
  /\ UNCHANGED <<removal, row, bucket, tagged, copies, tracking, worker, created, faults>>

PageMake(i) ==
  /\ i \notin ApiIds /\ request[i] = "inserted"
  /\ \/ MakeBucket(NameOf[i]) /\ ToRequest(i, "made")
     \/ bucket[NameOf[i]] # "none" /\ ToRequest(i, "refused") /\ UNCHANGED bucket
  /\ UNCHANGED <<removal, row, tagged, copies, tracking, worker, created, faults>>

PageSetUp(i) ==
  /\ request[i] = "made"
  /\ SetUpBucket(NameOf[i])
  /\ ToRequest(i, "set up")
  /\ UNCHANGED <<removal, row, tagged, copies, tracking, worker, created, faults>>

PageCommit(i) ==
  /\ request[i] = "set up"
  /\ ToRequest(i, "done")
  /\ ToRow(i, "live")
  /\ created' = created \cup {i}
  /\ UNCHANGED <<removal, bucket, tagged, copies, tracking, worker, faults>>

-----------------------------------------------------------------------------
(* The REST API *)

ApiInsert(i) ==
  /\ i \in ApiIds /\ request[i] = "idle"
  /\ \/ MayInsert(i) /\ ToRequest(i, "inserted")
     \/ NameTaken(i) /\ ToRequest(i, "refused")
  /\ UNCHANGED <<removal, row, bucket, tagged, copies, tracking, worker, created, faults>>

ApiSend(i) ==
  /\ i \in ApiIds /\ request[i] = "inserted"
  /\ ToRequest(i, "sent")
  /\ copies' = [copies EXCEPT ![i] = @ + 1]
  /\ UNCHANGED <<removal, row, bucket, tagged, tracking, worker, created, faults>>

\* The Task row is inserted in the same transaction.
ApiCommit(i) ==
  /\ request[i] = "sent"
  /\ ToRequest(i, "done")
  /\ ToRow(i, "live")
  /\ task' = [task EXCEPT ![i] = "open"]
  /\ UNCHANGED <<removal, bucket, tagged, copies, desk, unsent, worker, created, faults>>

\* Either request fails: the row is rolled back, a bucket or message is not.
Rollback(i) ==
  /\ Pending(i) /\ Fault
  /\ ToRequest(i, "refused")
  /\ UNCHANGED <<removal, row, bucket, tagged, copies, tracking, worker, created>>

-----------------------------------------------------------------------------
(* Deletion *)

ToRemoval(i, s) == removal' = [removal EXCEPT ![i] = s]

\* soft_delete saves the flag first, outside any transaction.
PageDelete(i) ==
  /\ row[i] = "live" /\ removal[i] = "none"
  /\ ToRow(i, "deleted")
  /\ ToRemoval(i, "saved")
  /\ UNCHANGED <<request, bucket, tagged, copies, tracking, worker, created, faults>>

\* Tagging a bucket there is not does nothing; another account's is refused.
Tag(n) ==
  /\ bucket[n] # "foreign"
  /\ tagged' = IF Owned(n) THEN tagged \cup {n} ELSE tagged

PageTag(i) ==
  /\ removal[i] = "saved" /\ Tag(NameOf[i])
  /\ ToRemoval(i, "done")
  /\ UNCHANGED <<request, row, bucket, copies, tracking, worker, created, faults>>

\* The REST API tags, then removes the row.
ApiTag(i) ==
  /\ row[i] # "absent" /\ removal[i] = "none" /\ Tag(NameOf[i])
  /\ ToRemoval(i, "tagging")
  /\ UNCHANGED <<request, row, bucket, copies, tracking, worker, created, faults>>

ApiRemove(i) ==
  /\ removal[i] = "tagging"
  /\ ToRow(i, "absent")
  /\ ToRemoval(i, "done")
  /\ UNCHANGED <<request, bucket, tagged, copies, tracking, worker, created, faults>>

\* S3 refuses, or the server process dies.
DeleteFails(i) ==
  /\ removal[i] \in {"saved", "tagging"} /\ Fault
  /\ ToRemoval(i, "failed")
  /\ UNCHANGED <<request, row, bucket, tagged, copies, tracking, worker, created>>

-----------------------------------------------------------------------------
(* Workers *)

HeldCopies(i) == Cardinality({w \in Workers : worker[w].id = i})

Take(w) ==
  /\ worker[w] = Idle
  /\ \E i \in Ids :
       /\ copies[i] > HeldCopies(i)
       /\ worker' = [worker EXCEPT ![w] = [step |-> "taken", id |-> i, tracked |-> FALSE]]
  /\ UNCHANGED <<request, removal, row, bucket, tagged, copies, tracking, created, faults>>

\* A Task row that is completed or cancelled ends the turn, one that is not
\* there does not.
ReadTask(w) ==
  LET t == task[worker[w].id] IN
  /\ worker[w].step = "taken"
  /\ worker' = [worker EXCEPT ![w].step = IF t \in {"completed", "cancelled"} THEN "returning"
                                          ELSE "loading",
                             ![w].tracked = (t # "absent")]
  /\ UNCHANGED <<request, removal, row, bucket, tagged, copies, tracking, created, faults>>

\* No row: the handler raises, and the message comes back.
FindRow(w) ==
  /\ worker[w].step = "loading"
  /\ worker' = [worker EXCEPT ![w] = IF row[@.id] = "absent" THEN Idle
                                     ELSE [@ EXCEPT !.step = "creating"]]
  /\ UNCHANGED <<request, removal, row, bucket, tagged, copies, tracking, created, faults>>

\* Mutant: a taken name is skipped, as grant and policy creation do.
CreateBucketSkips(w) ==
  LET n == NameOf[worker[w].id] IN
  /\ worker[w].step = "creating"
  /\ ToWorker(w, "setting up")
  /\ \/ MakeBucket(n)
     \/ bucket[n] # "none" /\ UNCHANGED bucket
  /\ UNCHANGED <<request, removal, row, tagged, copies, tracking, created, faults>>

CreateBucket(w) ==
  LET n == NameOf[worker[w].id] IN
  /\ worker[w].step = "creating"
  /\ \/ MakeBucket(n) /\ ToWorker(w, "setting up")
     \/ bucket[n] # "none" /\ ToWorker(w, "cleaning") /\ UNCHANGED bucket
  /\ UNCHANGED <<request, removal, row, tagged, copies, tracking, created, faults>>

SetUp(w) ==
  /\ worker[w].step = "setting up"
  /\ SetUpBucket(NameOf[worker[w].id])
  /\ created' = created \cup {worker[w].id}
  /\ ToWorker(w, "completing")
  /\ UNCHANGED <<request, removal, row, tagged, copies, tracking, faults>>

\* complete() saves the Task row as it was found, if it was.
Complete(w) ==
  LET i == worker[w].id IN
  /\ worker[w].step = "completing"
  /\ task' = IF worker[w].tracked THEN [task EXCEPT ![i] = "completed"] ELSE task
  /\ ToWorker(w, "returning")
  /\ UNCHANGED <<request, removal, row, bucket, tagged, copies, desk, unsent, created, faults>>

\* A handler that returns acknowledges its message.
Acknowledge(w) ==
  /\ worker[w].step = "returning"
  /\ copies' = [copies EXCEPT ![worker[w].id] = @ - 1]
  /\ worker' = [worker EXCEPT ![w] = Idle]
  /\ UNCHANGED <<request, removal, row, bucket, tagged, tracking, created, faults>>

\* Mutant: a taken name is reported and the message acknowledged, no more.
CleanTagSkips(w) ==
  /\ worker[w].step = "cleaning"
  /\ ToWorker(w, "returning")
  /\ UNCHANGED <<request, removal, row, bucket, tagged, copies, tracking, created, faults>>

\* The row is deleted, which tags the bucket; a refusal makes the handler raise.
CleanTag(w) ==
  LET n == NameOf[worker[w].id] IN
  /\ worker[w].step = "cleaning"
  /\ \/ Tag(n) /\ ToWorker(w, "tagged")
     \/ bucket[n] = "foreign" /\ worker' = [worker EXCEPT ![w] = Idle] /\ UNCHANGED tagged
  /\ UNCHANGED <<request, removal, row, bucket, copies, tracking, created, faults>>

\* The Task row is left as it is.
CleanRow(w) ==
  /\ worker[w].step = "tagged"
  /\ ToRow(worker[w].id, "absent")
  /\ ToWorker(w, "returning")
  /\ UNCHANGED <<request, removal, bucket, tagged, copies, tracking, created, faults>>

\* A call fails or the process dies: the message was not acknowledged.
WorkerFails(w) ==
  /\ worker[w] # Idle /\ Fault
  /\ worker' = [worker EXCEPT ![w] = Idle]
  /\ UNCHANGED <<request, removal, row, bucket, tagged, copies, tracking, created>>

\* SQS delivers twice, or while a worker slower than the timeout is at it.
Resend(i) ==
  /\ request[i] \in {"sent", "done"} /\ i \in ApiIds /\ Fault
  /\ copies' = [copies EXCEPT ![i] = @ + 1]
  /\ UNCHANGED <<request, removal, row, bucket, tagged, tracking, worker, created>>

-----------------------------------------------------------------------------
(* The task page: each request saves the whole row it loaded *)

LoadTask(i) ==
  /\ desk = Nobody /\ task[i] # "absent" /\ Fault
  /\ desk' = [id |-> i, seen |-> task[i]]
  /\ UNCHANGED <<request, removal, row, bucket, tagged, copies, task, unsent, worker, created>>

SaveTask(state) ==
  task' = [task EXCEPT ![desk.id] = IF desk.seen = "completed" THEN "completed" ELSE state]

CancelTask ==
  /\ desk # Nobody /\ desk.seen # "saved"
  /\ SaveTask("cancelled")
  /\ desk' = Nobody
  /\ UNCHANGED <<request, removal, row, bucket, tagged, copies, unsent, worker, created, faults>>

\* A retry saves the row first, and sends afterwards.
RetryTask ==
  /\ desk # Nobody /\ desk.seen # "saved"
  /\ SaveTask("open")
  /\ desk' = [desk EXCEPT !.seen = "saved"]
  /\ UNCHANGED <<request, removal, row, bucket, tagged, copies, unsent, worker, created, faults>>

SendTask ==
  /\ desk.seen = "saved"
  /\ copies' = [copies EXCEPT ![desk.id] = @ + 1]
  /\ desk' = Nobody
  /\ UNCHANGED <<request, removal, row, bucket, tagged, task, unsent, worker, created, faults>>

RetryFails ==
  /\ desk.seen = "saved" /\ Fault
  /\ desk' = Nobody
  /\ unsent' = unsent \cup {desk.id}
  /\ UNCHANGED <<request, removal, row, bucket, tagged, copies, task, worker, created>>

-----------------------------------------------------------------------------

PageStep(i) == PageCheck(i) \/ PageInsert(i) \/ PageMake(i) \/ PageSetUp(i) \/ PageCommit(i)
ApiStep(i) == ApiInsert(i) \/ ApiSend(i) \/ ApiCommit(i)
RemovalStep(i) == PageDelete(i) \/ PageTag(i) \/ ApiTag(i) \/ ApiRemove(i) \/ DeleteFails(i)
HandlerStep(w) ==
  \/ ReadTask(w) \/ FindRow(w) \/ CreateBucket(w) \/ SetUp(w) \/ Complete(w) \/ Acknowledge(w)
  \/ CleanTag(w) \/ CleanRow(w)
AdminStep == (\E i \in Ids : LoadTask(i)) \/ CancelTask \/ RetryTask \/ SendTask \/ RetryFails

Next ==
  \/ \E i \in Ids : PageStep(i) \/ ApiStep(i) \/ Rollback(i) \/ RemovalStep(i) \/ Resend(i)
  \/ \E w \in Workers : Take(w) \/ HandlerStep(w) \/ WorkerFails(w)
  \/ AdminStep

Spec == Init /\ [][Next]_vars

\* Every message that is on the queue again and again is taken again and
\* again, workers finish what they start, requests end; nobody has to ask for
\* anything, and faults need not happen.
Fairness ==
  /\ \A i \in Ids : SF_vars(\E w \in Workers : Take(w) /\ worker'[w].id = i)
  /\ \A w \in Workers : WF_vars(HandlerStep(w))
  /\ WF_vars(SendTask)
  /\ \A i \in Ids : WF_vars(PageInsert(i) \/ PageMake(i) \/ PageSetUp(i) \/ PageCommit(i)
                            \/ ApiSend(i) \/ ApiCommit(i))

FairSpec == Spec /\ Fairness

-----------------------------------------------------------------------------
(* Properties *)

\* The bucket of one name is made for one request only, whatever races between
\* pages, workers, redeliveries and rollbacks: S3 decides.
OneOwner == \A i, j \in created : NameOf[i] = NameOf[j] => i = j

\* Deletion tags the bucket (test_delete_marks_bucket_for_archival).
DeletedIsTagged ==
  \A i \in created : removal[i] = "done" => NameOf[i] \in tagged

\* A row created through the API gets its bucket, or goes away when the name
\* is taken (the log line "already exists, cleaning up database record"), unless
\* its task stays cancelled, or a retry un-cancelled it and sent nothing.
ApiSettles ==
  \A i \in ApiIds :
    row[i] = "live" ~> \/ i \in created \/ row[i] # "live"
                       \/ task[i] = "cancelled" \/ i \in unsent

\* A row whose bucket was made for it stays until somebody asks for its
\* deletion, whatever fails and is delivered again (BaseTaskHandler: "if an
\* error occurs, they remain in the queue, and will be resent to the worker").
CreatedStays ==
  [][\A i \in created : row[i] = "live" /\ row'[i] = "absent" => removal[i] # "none"]_vars

\* A request that fails changes nothing (settings: "Wrap each request in a
\* transaction").
FailedDeletionChangesNothing ==
  \A i \in Ids : removal[i] = "failed" => row[i] # "deleted"
=============================================================================
