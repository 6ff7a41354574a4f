-------------------------- MODULE DatasourceProofs --------------------------
(***************************************************************************)
(* The bucket of one name is made for one request, for any number of       *)
(* requests, workers, failures, redeliveries and administrators' requests. *)
(***************************************************************************)
EXTENDS Datasource, TLAPS

Works(w, i) == worker[w].step = "setting up" /\ worker[w].id = i

\* i is the request whose page or message made the bucket.
Maker(i) ==
  \/ request[i] \in {"made", "set up"}
  \/ i \in created
  \/ \E w \in Workers : Works(w, i)

Shape ==
  /\ request \in [Ids -> Requests]
  /\ worker \in [Workers -> Doings]
  /\ \A w \in Workers : worker[w].step # "idle" => worker[w].id \in Ids
  /\ bucket \in [Names -> {"none", "bare", "ready", "foreign"}]
  /\ created \subseteq Ids

\* Whoever made a bucket made it when the name was free, and it stays.
MakersFound == \A i \in Ids : Maker(i) => bucket[NameOf[i]] # "none"
MakersAlone == \A i, j \in Ids : Maker(i) /\ Maker(j) /\ NameOf[i] = NameOf[j] => i = j

OwnerInv == Shape /\ MakersFound /\ MakersAlone

-----------------------------------------------------------------------------

LEMMA InitHolds == Init => OwnerInv
<1> SUFFICES ASSUME Init PROVE OwnerInv OBVIOUS
<1>1. Shape
  <2>1. request \in [Ids -> Requests] /\ created \subseteq Ids BY DEF Init, Requests
  <2>2. worker \in [Workers -> Doings] BY DEF Init, Idle, Doings, Steps
  <2>3. \A w \in Workers : worker[w].step = "idle" BY DEF Init, Idle
  <2>4. bucket \in [Names -> {"none", "bare", "ready", "foreign"}] BY DEF Init
  <2> QED BY <2>1, <2>2, <2>3, <2>4 DEF Shape
<1>2. \A i \in Ids : ~Maker(i) BY DEF Init, Maker, Works, Idle
<1> QED BY <1>1, <1>2 DEF OwnerInv, MakersFound, MakersAlone

\* A step that makes no new maker and frees no name keeps the invariant.
LEMMA NoNewMaker ==
  ASSUME OwnerInv, Shape',
         \A i \in Ids : Maker(i)' => Maker(i),
         \A n \in Names : bucket[n] # "none" => bucket'[n] # "none"
  PROVE  OwnerInv'
BY DatasourceAssumption DEF OwnerInv, MakersFound, MakersAlone

\* A step that makes m the maker, of a name that was free, keeps it too.
LEMMA OneNewMaker ==
  ASSUME OwnerInv, Shape', NEW m \in Ids,
         bucket[NameOf[m]] = "none",
         bucket' = [bucket EXCEPT ![NameOf[m]] = "bare"],
         \A i \in Ids : Maker(i)' => Maker(i) \/ i = m
  PROVE  OwnerInv'
<1>1. \A n \in Names : bucket[n] # "none" => bucket'[n] # "none" BY DEF OwnerInv, Shape
<1>2. bucket'[NameOf[m]] # "none" BY DatasourceAssumption DEF OwnerInv, Shape
<1>3. MakersFound' BY <1>1, <1>2, DatasourceAssumption DEF OwnerInv, MakersFound
<1>4. \A i \in Ids : Maker(i) => NameOf[i] # NameOf[m] BY DEF OwnerInv, MakersFound
<1>5. MakersAlone' BY <1>4 DEF OwnerInv, MakersAlone
<1> QED BY <1>3, <1>5 DEF OwnerInv

-----------------------------------------------------------------------------
(* Requests *)

LEMMA PageKeeps ==
  ASSUME OwnerInv, NEW i \in Ids, PageStep(i)
  PROVE  OwnerInv'
<1> USE DEF OwnerInv
<1>1. CASE PageCheck(i)
  <2>1. Shape' BY <1>1 DEF Shape, PageCheck, ToRequest, Requests
  <2>2. \A j \in Ids : Maker(j)' => Maker(j)
    BY <1>1 DEF Shape, PageCheck, ToRequest, Maker, Works
  <2> QED BY <1>1, <2>1, <2>2, NoNewMaker DEF PageCheck
<1>2. CASE PageInsert(i)
  <2>1. Shape' BY <1>2 DEF Shape, PageInsert, ToRequest, Requests
  <2>2. \A j \in Ids : Maker(j)' => Maker(j)
    BY <1>2 DEF Shape, PageInsert, ToRequest, Maker, Works
  <2> QED BY <1>2, <2>1, <2>2, NoNewMaker DEF PageInsert
<1>3. CASE PageMake(i) /\ MakeBucket(NameOf[i]) /\ ToRequest(i, "made")
  <2>1. Shape' BY <1>3, DatasourceAssumption DEF Shape, PageMake, MakeBucket, ToRequest, Requests
  <2>2. \A j \in Ids : Maker(j)' => Maker(j) \/ j = i
    BY <1>3 DEF Shape, PageMake, ToRequest, Maker, Works
  <2> QED BY <1>3, <2>1, <2>2, OneNewMaker DEF MakeBucket
<1>4. CASE PageMake(i) /\ ToRequest(i, "refused") /\ UNCHANGED bucket
  <2>1. Shape' BY <1>4 DEF Shape, PageMake, ToRequest, Requests
  <2>2. \A j \in Ids : Maker(j)' => Maker(j)
    BY <1>4 DEF Shape, PageMake, ToRequest, Maker, Works
  <2> QED BY <1>4, <2>1, <2>2, NoNewMaker
<1>5. CASE PageSetUp(i)
  <2>1. Shape' /\ \A n \in Names : bucket[n] # "none" => bucket'[n] # "none"
    BY <1>5, DatasourceAssumption DEF Shape, PageSetUp, SetUpBucket, ToRequest, Requests
  <2>2. \A j \in Ids : Maker(j)' => Maker(j)
    BY <1>5 DEF Shape, PageSetUp, ToRequest, Maker, Works
  <2> QED BY <2>1, <2>2, NoNewMaker
<1>6. CASE PageCommit(i)
  <2>1. Shape' BY <1>6 DEF Shape, PageCommit, ToRequest, Requests
  <2>2. \A j \in Ids : Maker(j)' => Maker(j)
    BY <1>6 DEF Shape, PageCommit, ToRequest, Maker, Works
  <2> QED BY <1>6, <2>1, <2>2, NoNewMaker DEF PageCommit
<1> QED BY <1>1, <1>2, <1>3, <1>4, <1>5, <1>6 DEF PageStep, PageMake

LEMMA ApiKeeps ==
  ASSUME OwnerInv, NEW i \in Ids, ApiStep(i) \/ Rollback(i)
  PROVE  OwnerInv'
<1>1. UNCHANGED <<bucket, worker, created>>
  BY DEF ApiStep, ApiInsert, ApiSend, ApiCommit, Rollback
<1>2. \E s \in {"inserted", "refused", "sent", "done"} : ToRequest(i, s)
  BY DEF ApiStep, ApiInsert, ApiSend, ApiCommit, Rollback
<1>3. Shape' BY <1>1, <1>2 DEF OwnerInv, Shape, ToRequest, Requests
<1>4. \A j \in Ids : Maker(j)' => Maker(j)
  BY <1>1, <1>2 DEF OwnerInv, Shape, ToRequest, Maker, Works
<1> QED BY <1>1, <1>3, <1>4, NoNewMaker

-----------------------------------------------------------------------------
(* Workers *)

\* A worker that goes on to a step other than "setting up" is no new maker.
LEMMA WorkerMoves ==
  ASSUME OwnerInv, NEW w \in Workers, NEW x \in Doings,
         x.step # "setting up", x.step # "idle" => x.id \in Ids,
         worker' = [worker EXCEPT ![w] = x],
         UNCHANGED <<request, bucket>>, created' = created
  PROVE  OwnerInv'
<1>1. Shape' BY DEF OwnerInv, Shape
<1>2. \A i \in Ids : Maker(i)' => Maker(i) BY DEF OwnerInv, Shape, Maker, Works
<1> QED BY <1>1, <1>2, NoNewMaker

LEMMA IdleIsShaped == Idle \in Doings /\ Idle.step = "idle"
BY DEF Idle, Doings, Steps

\* The commonest of them: only the step changes.
LEMMA StepMoves ==
  ASSUME OwnerInv, NEW w \in Workers, NEW s \in Steps \ {"idle", "setting up"},
         worker[w].step # "idle", ToWorker(w, s),
         UNCHANGED <<request, bucket>>, created' = created
  PROVE  OwnerInv'
<1> DEFINE x == [worker[w] EXCEPT !.step = s]
<1>1. worker[w] \in Doings /\ worker[w].id \in Ids BY DEF OwnerInv, Shape
<1>2. x \in Doings /\ x.step = s /\ x.id \in Ids BY <1>1 DEF Doings
<1>3. worker' = [worker EXCEPT ![w] = x] BY DEF ToWorker
<1> HIDE DEF x
<1> QED BY <1>2, <1>3, WorkerMoves

LEMMA WorkerKeeps ==
  ASSUME OwnerInv, NEW w \in Workers, Take(w) \/ HandlerStep(w) \/ WorkerFails(w)
  PROVE  OwnerInv'
<1> DEFINE v == worker[w]
<1>0. v \in Doings /\ (v.step # "idle" => v.id \in Ids)
  BY DEF OwnerInv, Shape
<1>1. CASE Take(w)
  <2>1. PICK i \in Ids :
          worker' = [worker EXCEPT ![w] = [step |-> "taken", id |-> i, tracked |-> FALSE]]
    BY <1>1 DEF Take
  <2>2. [step |-> "taken", id |-> i, tracked |-> FALSE] \in Doings BY DEF Doings, Steps
  <2> QED BY <1>1, <2>1, <2>2, WorkerMoves DEF Take
<1>2. CASE ReadTask(w)
  <2> DEFINE x == [v EXCEPT !.step = IF task[v.id] \in {"completed", "cancelled"}
                                     THEN "returning" ELSE "loading",
                            !.tracked = (task[v.id] # "absent")]
  <2>1. v.id \in Ids BY <1>0, <1>2 DEF ReadTask
  <2>2. x \in Doings /\ x.step \in {"returning", "loading"} /\ x.id = v.id
    BY <1>0 DEF Doings, Steps
  <2>3. worker' = [worker EXCEPT ![w] = x] BY <1>2 DEF ReadTask
  <2> HIDE DEF x
  <2> QED BY <1>2, <2>1, <2>2, <2>3, WorkerMoves DEF ReadTask
<1>3. CASE FindRow(w)
  <2>1. CASE row[v.id] = "absent"
    BY <1>3, <2>1, WorkerMoves, IdleIsShaped DEF FindRow
  <2>2. CASE row[v.id] # "absent"
    <3>1. ToWorker(w, "creating") BY <1>3, <2>2 DEF FindRow, ToWorker
    <3> QED BY <1>3, <3>1, StepMoves DEF FindRow, Steps
  <2> QED BY <2>1, <2>2
<1>4. CASE CreateBucket(w) /\ MakeBucket(NameOf[v.id]) /\ ToWorker(w, "setting up")
  <2>1. v.id \in Ids BY <1>0, <1>4 DEF CreateBucket
  <2>2. Shape'
    BY <1>0, <1>4, <2>1, DatasourceAssumption
       DEF OwnerInv, Shape, CreateBucket, MakeBucket, ToWorker, Doings, Steps
  <2>3. \A j \in Ids : Maker(j)' => Maker(j) \/ j = v.id
    BY <1>0, <1>4 DEF OwnerInv, Shape, CreateBucket, ToWorker, Maker, Works, Doings
  <2> QED BY <1>4, <2>1, <2>2, <2>3, OneNewMaker DEF MakeBucket
<1>5. CASE CreateBucket(w) /\ ToWorker(w, "cleaning") /\ UNCHANGED bucket
  BY <1>5, StepMoves DEF CreateBucket, Steps
<1>6. CASE SetUp(w)
  <2>1. v.id \in Ids BY <1>0, <1>6 DEF SetUp
  <2>2. Shape' /\ \A n \in Names : bucket[n] # "none" => bucket'[n] # "none"
    BY <1>0, <1>6, <2>1, DatasourceAssumption
       DEF OwnerInv, Shape, SetUp, SetUpBucket, ToWorker, Doings, Steps
  <2>3. Works(w, v.id) BY <1>6 DEF SetUp, Works
  <2>4. \A j \in Ids : Maker(j)' => Maker(j)
    BY <1>0, <1>6, <2>3 DEF OwnerInv, Shape, SetUp, ToWorker, Maker, Works, Doings
  <2> QED BY <2>2, <2>4, NoNewMaker
<1>7. CASE CleanTag(w)
  <2>1. CASE ToWorker(w, "tagged") BY <1>7, <2>1, StepMoves DEF CleanTag, Steps
  <2>2. CASE worker' = [worker EXCEPT ![w] = Idle]
    BY <1>7, <2>2, WorkerMoves, IdleIsShaped DEF CleanTag
  <2> QED BY <1>7, <2>1, <2>2 DEF CleanTag
<1>8. CASE CleanRow(w) BY <1>8, StepMoves DEF CleanRow, Steps
<1>9. CASE WorkerFails(w) BY <1>9, WorkerMoves, IdleIsShaped DEF WorkerFails
<1>10. CASE Complete(w) BY <1>10, StepMoves DEF Complete, Steps
<1>11. CASE Acknowledge(w) BY <1>11, WorkerMoves, IdleIsShaped DEF Acknowledge
<1> QED BY <1>1, <1>2, <1>3, <1>4, <1>5, <1>6, <1>7, <1>8, <1>9, <1>10, <1>11
       DEF HandlerStep, CreateBucket

-----------------------------------------------------------------------------

LEMMA StepHolds == OwnerInv /\ [Next]_vars => OwnerInv'
<1> SUFFICES ASSUME OwnerInv, [Next]_vars PROVE OwnerInv' OBVIOUS
<1>1. CASE \E i \in Ids : PageStep(i) BY <1>1, PageKeeps
<1>2. CASE \E i \in Ids : ApiStep(i) \/ Rollback(i) BY <1>2, ApiKeeps
<1>3. CASE UNCHANGED <<request, bucket, worker, created>>
  <2>1. Shape' BY <1>3 DEF OwnerInv, Shape
  <2>2. \A i \in Ids : Maker(i)' => Maker(i) BY <1>3 DEF Maker, Works
  <2> QED BY <1>3, <2>1, <2>2, NoNewMaker
<1>4. CASE \E i \in Ids : RemovalStep(i) \/ Resend(i)
  BY <1>3, <1>4
     DEF RemovalStep, PageDelete, PageTag, ApiTag, ApiRemove, DeleteFails, Resend
<1>5. CASE \E w \in Workers : Take(w) \/ HandlerStep(w) \/ WorkerFails(w)
  BY <1>5, WorkerKeeps
<1>6. CASE AdminStep
  BY <1>3, <1>6 DEF AdminStep, LoadTask, CancelTask, RetryTask, SendTask, RetryFails
<1> QED BY <1>1, <1>2, <1>3, <1>4, <1>5, <1>6 DEF Next, vars

\* For every set of requests, names, workers and any number of failures and
\* administrators' requests: the bucket of one name is made and set up for one
\* request only (CreateDatasource.form_valid, CreateS3Bucket.handle).
THEOREM NameHasOneOwner == Spec => []OneOwner
<1>1. OwnerInv => OneOwner BY DEF OwnerInv, Shape, MakersAlone, Maker, OneOwner
<1> QED BY <1>1, InitHolds, StepHolds, PTL DEF Spec
=============================================================================
