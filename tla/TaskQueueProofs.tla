-------------------------- MODULE TaskQueueProofs --------------------------
(***************************************************************************)
(* Theorems about TaskQueue, for every set of tasks, workers and admins    *)
(* and every bound.  Rows travel: workers and administrators hold copies   *)
(* and save them back later, so the invariant says of every copy what it   *)
(* says of the table.                                                      *)
(***************************************************************************)
EXTENDS TaskQueue, TLAPS

\* What a row of task t, or any copy of one, may claim.
HonestRow(r, t) ==
  r # NoRow => /\ r.completed => t \in handled
               /\ r.cancelled => t \in cancelledOnce

RowsHonest == \A t \in Tasks : HonestRow(row[t], t)

WorkersHonest ==
  \A w \in Workers :
    wpc[w] # "idle" =>
      /\ wpc[w] # "received" => HonestRow(wrow[w], TaskOf(wmsg[w]))
      /\ wpc[w] = "completing" => TaskOf(wmsg[w]) \in handled
      /\ wpc[w] = "returning" => TaskOf(wmsg[w]) \in handled \cup cancelledOnce

AdminsHonest == \A a \in Admins : apc[a] # "idle" => HonestRow(arow[a], atask[a])

GoneIsSettled ==
  \A m \in Msgs : msg[m] = "gone" => TaskOf(m) \in handled \cup cancelledOnce \cup expired

IInv == TypeOK /\ RowsHonest /\ WorkersHonest /\ AdminsHonest /\ GoneIsSettled

-----------------------------------------------------------------------------
(* Type correctness *)

LEMMA MsgFacts ==
  /\ \A m \in Msgs : TaskOf(m) \in Tasks
  /\ \A t \in Tasks : <<t, 1>> \in Msgs /\ TaskOf(<<t, 1>>) = t
  /\ \A t \in Tasks : CopiesOf(t) \subseteq Msgs
  BY TaskQueueAssumption DEF Msgs, TaskOf, CopiesOf

LEMMA RowFacts ==
  /\ FreshRow \in Row
  /\ NoRow \notin Row
  /\ \A r \in Row : /\ [r EXCEPT !.completed = TRUE] \in Row
                    /\ [r EXCEPT !.cancelled = TRUE] \in Row
                    /\ [r EXCEPT !.cancelled = FALSE] \in Row
  BY TaskQueueAssumption DEF Row, FreshRow

LEMMA RowUpdate ==
  ASSUME row \in [Tasks -> Row \cup {NoRow}],
         NEW t \in Tasks, NEW r \in Row, row' = [row EXCEPT ![t] = r]
  PROVE  row' \in [Tasks -> Row \cup {NoRow}]
  OBVIOUS

LEMMA TypeStep == TypeOK /\ [Next]_vars => TypeOK'
<1> SUFFICES ASSUME TypeOK, [Next]_vars PROVE TypeOK'
  OBVIOUS
<1> USE MsgFacts, RowFacts, TaskQueueAssumption
<1>1. ASSUME NEW t \in Tasks, SaveEntity(t) PROVE TypeOK'
  BY <1>1 DEF TypeOK, SaveEntity, rowVars, workerVars, adminVars
<1>2. ASSUME NEW t \in Tasks, SendMessage(t) PROVE TypeOK'
  BY <1>2 DEF TypeOK, SendMessage, rowVars, workerVars, adminVars
<1>3. ASSUME NEW t \in Tasks, RecordTask(t) PROVE TypeOK'
  BY <1>3 DEF TypeOK, RecordTask, rowVars, workerVars, adminVars
<1>4. ASSUME NEW t \in Tasks, Commit(t) PROVE TypeOK'
  BY <1>4 DEF TypeOK, Commit, rowVars, workerVars, adminVars
<1>5. ASSUME NEW t \in Tasks, RequestFails(t) PROVE TypeOK'
  BY <1>5 DEF TypeOK, RequestFails, rowVars, workerVars, adminVars
<1>6. ASSUME NEW t \in Tasks, DeleteEntity(t) PROVE TypeOK'
  BY <1>6 DEF TypeOK, DeleteEntity, rowVars, workerVars, adminVars
<1>7. ASSUME NEW w \in Workers, NEW m \in Msgs, Receive(w, m) PROVE TypeOK'
  BY <1>7 DEF TypeOK, Receive, rowVars, workerVars, adminVars, WorkerPcs
<1>8. ASSUME NEW m \in Msgs, VisibilityTimeout(m) \/ EarlyTimeout(m) \/ Expire(m)
      PROVE TypeOK'
  <2>1. CASE VisibilityTimeout(m)
    BY <2>1 DEF TypeOK, VisibilityTimeout, rowVars, workerVars, adminVars
  <2>2. CASE EarlyTimeout(m)
    BY <2>2 DEF TypeOK, EarlyTimeout, rowVars, workerVars, adminVars
  <2>3. CASE Expire(m)
    BY <2>3 DEF TypeOK, Expire, rowVars, workerVars, adminVars
  <2> QED
    BY <1>8, <2>1, <2>2, <2>3
<1>9. ASSUME NEW w \in Workers, ReadTask(w) PROVE TypeOK'
  BY <1>9 DEF TypeOK, ReadTask, GoTo, rowVars, workerVars, adminVars, WorkerPcs
<1>10. ASSUME NEW w \in Workers, GetObject(w) \/ Handle(w) PROVE TypeOK'
  BY <1>10 DEF TypeOK, GetObject, Handle, GoTo, rowVars, workerVars, adminVars, WorkerPcs
<1>11. ASSUME NEW w \in Workers, ObjectMissing(w) \/ WorkerFails(w) PROVE TypeOK'
  <2>1. faults' \in 0 .. MaxFaults
    BY <1>11 DEF TypeOK, ObjectMissing, WorkerFails
  <2>2. /\ wpc' \in [Workers -> WorkerPcs]
        /\ wmsg' \in [Workers -> Msgs \cup {NoMsg}]
        /\ wrow' \in [Workers -> Row \cup {NoRow}]
    BY <1>11 DEF TypeOK, ObjectMissing, WorkerFails, Release, GoTo, WorkerPcs
  <2>3. \A v \in Workers : wpc'[v] # "idle" => wmsg'[v] \in Msgs
    BY <1>11 DEF TypeOK, ObjectMissing, WorkerFails, Release, GoTo
  <2> QED
    BY <1>11, <2>1, <2>2, <2>3
    DEF TypeOK, ObjectMissing, WorkerFails, rowVars, adminVars
<1>12. ASSUME NEW w \in Workers, Complete(w) PROVE TypeOK'
  <2>1. TaskOf(wmsg[w]) \in Tasks
    BY <1>12 DEF TypeOK, Complete
  <2>2. /\ row' \in [Tasks -> Row \cup {NoRow}]
        /\ untracked' \subseteq Tasks
        /\ cancelledOnce' = cancelledOnce
    <3>1. CASE wrow[w] = NoRow
      BY <1>12, <2>1, <3>1 DEF TypeOK, Complete, rowVars
    <3>2. CASE wrow[w] # NoRow
      <4>1. [wrow[w] EXCEPT !.completed = TRUE] \in Row
        BY <3>2 DEF TypeOK
      <4>2. row' = [row EXCEPT ![TaskOf(wmsg[w])] = [wrow[w] EXCEPT !.completed = TRUE]]
        BY <1>12, <3>2, Zenon DEF Complete
      <4>3. row' \in [Tasks -> Row \cup {NoRow}]
        BY <2>1, <4>1, <4>2, RowUpdate DEF TypeOK
      <4> QED
        BY <1>12, <3>2, <4>3 DEF TypeOK, Complete
    <3> QED
      BY <3>1, <3>2
  <2>3. wpc' \in [Workers -> WorkerPcs]
    BY <1>12 DEF TypeOK, Complete, GoTo, WorkerPcs
  <2>4. \A v \in Workers : wpc'[v] # "idle" => wmsg'[v] \in Msgs
    BY <1>12 DEF TypeOK, Complete, GoTo
  <2> QED
    BY <1>12, <2>2, <2>3, <2>4 DEF TypeOK, Complete, rowVars, adminVars
<1>13. ASSUME NEW w \in Workers, Ack(w) PROVE TypeOK'
  BY <1>13 DEF TypeOK, Ack, GoTo, Release, rowVars, workerVars, adminVars, WorkerPcs
<1>14. ASSUME NEW a \in Admins, NEW t \in Tasks, LoadTask(a, t) PROVE TypeOK'
  BY <1>14 DEF TypeOK, LoadTask, rowVars, workerVars, adminVars
<1>15. ASSUME NEW a \in Admins, CancelTask(a) PROVE TypeOK'
  BY <1>15 DEF TypeOK, CancelTask, AdminDone, rowVars, workerVars, adminVars
<1>16. ASSUME NEW a \in Admins, RetryTask(a) PROVE TypeOK'
  BY <1>16 DEF TypeOK, RetryTask, rowVars, workerVars, adminVars
<1>17. ASSUME NEW a \in Admins, Resend(a) PROVE TypeOK'
  BY <1>17 DEF TypeOK, Resend, AdminDone, rowVars, workerVars, adminVars
<1>18. ASSUME NEW a \in Admins, ResendFails(a) PROVE TypeOK'
  BY <1>18 DEF TypeOK, ResendFails, AdminDone, rowVars, workerVars, adminVars
<1>19. ASSUME NEW a \in Admins, ApiSendMessage(a) PROVE TypeOK'
  <2>1. atask[a] \in Tasks /\ arow[a] \in Row
    BY <1>19 DEF TypeOK, ApiSendMessage
  <2>2. row' \in [Tasks -> Row \cup {NoRow}] /\ untracked' \subseteq Tasks
    <3>1. [arow[a] EXCEPT !.cancelled = FALSE] \in Row
      BY <2>1
    <3>2. CASE arow[a].cancelled
      <4>1. row' = [row EXCEPT ![atask[a]] = [arow[a] EXCEPT !.cancelled = FALSE]]
        BY <1>19, <3>2, Zenon DEF ApiSendMessage
      <4>2. row' \in [Tasks -> Row \cup {NoRow}]
        BY <2>1, <3>1, <4>1, RowUpdate DEF TypeOK
      <4> QED
        BY <1>19, <2>1, <3>2, <4>2 DEF TypeOK, ApiSendMessage
    <3>3. CASE ~ arow[a].cancelled
      BY <1>19, <3>3 DEF TypeOK, ApiSendMessage, rowVars
    <3> QED
      BY <3>2, <3>3
  <2>3. /\ apc' \in [Admins -> {"idle", "loaded", "resend"}]
        /\ atask' \in [Admins -> Tasks \cup {NoTask}]
        /\ arow' \in [Admins -> Row \cup {NoRow}]
    BY <1>19 DEF TypeOK, ApiSendMessage, AdminDone
  <2>4. \A b \in Admins : apc'[b] # "idle" => atask'[b] \in Tasks /\ arow'[b] \in Row
    BY <1>19 DEF TypeOK, ApiSendMessage, AdminDone
  <2>5. cancelledOnce' = cancelledOnce
    BY <1>19 DEF ApiSendMessage, rowVars
  <2> QED
    BY <1>19, <2>2, <2>3, <2>4, <2>5 DEF TypeOK, ApiSendMessage, workerVars
<1>20. CASE UNCHANGED vars
  BY <1>20 DEF TypeOK, vars, rowVars, workerVars, adminVars
<1> QED
  BY <1>1, <1>2, <1>3, <1>4, <1>5, <1>6, <1>7, <1>8, <1>9, <1>10, <1>11, <1>12,
     <1>13, <1>14, <1>15, <1>16, <1>17, <1>18, <1>19, <1>20
  DEF Next, ProducerNext, QueueNext, WorkerNext, WorkerStep, AdminNext

\* Every variable keeps its type, in every instance.
THEOREM TypeCorrect == Spec => []TypeOK
<1>1. Init => TypeOK
  BY TaskQueueAssumption DEF Init, TypeOK, WorkerPcs
<1> QED
  BY <1>1, TypeStep, PTL DEF Spec

-----------------------------------------------------------------------------
(* The inductive invariant *)

LEMMA HistoryGrows ==
  ASSUME [Next]_vars
  PROVE  handled \subseteq handled' /\ cancelledOnce \subseteq cancelledOnce' /\ expired \subseteq expired'
  BY DEF Next, ProducerNext, QueueNext, WorkerNext, WorkerStep, AdminNext, vars, rowVars,
         SaveEntity, SendMessage, RecordTask, Commit, RequestFails, DeleteEntity,
         Receive, VisibilityTimeout, EarlyTimeout, Expire,
         ReadTask, GetObject, ObjectMissing, Handle, Complete, Ack, WorkerFails,
         LoadTask, CancelTask, RetryTask, Resend, ResendFails, ApiSendMessage

LEMMA RowChanges ==
  ASSUME [Next]_vars
  PROVE  \/ row' = row
         \/ \E t \in Tasks : RecordTask(t) \/ Commit(t) \/ DeleteEntity(t)
         \/ \E w \in Workers : Complete(w)
         \/ \E a \in Admins : CancelTask(a) \/ RetryTask(a) \/ ApiSendMessage(a)
  BY DEF Next, ProducerNext, QueueNext, WorkerNext, WorkerStep, AdminNext, vars, rowVars,
         SaveEntity, SendMessage, RequestFails,
         Receive, VisibilityTimeout, EarlyTimeout, Expire,
         ReadTask, GetObject, ObjectMissing, Handle, Ack, WorkerFails,
         LoadTask, Resend, ResendFails

LEMMA WorkerChanges ==
  ASSUME [Next]_vars
  PROVE  \/ UNCHANGED workerVars
         \/ \E w \in Workers : WorkerStep(w) \/ WorkerFails(w) \/ \E m \in Msgs : Receive(w, m)
  BY DEF Next, ProducerNext, QueueNext, WorkerNext, AdminNext, vars, workerVars,
         SaveEntity, SendMessage, RecordTask, Commit, RequestFails, DeleteEntity,
         VisibilityTimeout, EarlyTimeout, Expire,
         LoadTask, CancelTask, RetryTask, Resend, ResendFails, ApiSendMessage

LEMMA AdminChanges ==
  ASSUME [Next]_vars
  PROVE  \/ UNCHANGED adminVars
         \/ \E a \in Admins : \/ \E t \in Tasks : LoadTask(a, t)
                              \/ RetryTask(a)
                              \/ AdminDone(a)
  BY DEF Next, ProducerNext, QueueNext, WorkerNext, WorkerStep, AdminNext, vars, adminVars,
         SaveEntity, SendMessage, RecordTask, Commit, RequestFails, DeleteEntity,
         Receive, VisibilityTimeout, EarlyTimeout, Expire,
         ReadTask, GetObject, ObjectMissing, Handle, Complete, Ack, WorkerFails,
         CancelTask, Resend, ResendFails, ApiSendMessage

LEMMA MsgChanges ==
  ASSUME [Next]_vars
  PROVE  \/ UNCHANGED msg
         \/ \E t \in Tasks : SendMessage(t)
         \/ \E n \in Msgs, w \in Workers : Receive(w, n)
         \/ \E n \in Msgs : VisibilityTimeout(n) \/ EarlyTimeout(n)
         \/ \E n \in Msgs : Expire(n)
         \/ \E w \in Workers : Ack(w)
         \/ \E a \in Admins : Resend(a)
  BY DEF Next, ProducerNext, QueueNext, WorkerNext, WorkerStep, AdminNext, vars,
         SaveEntity, RecordTask, Commit, RequestFails, DeleteEntity,
         ReadTask, GetObject, ObjectMissing, Handle, Complete, WorkerFails,
         LoadTask, CancelTask, RetryTask, ResendFails, ApiSendMessage

LEMMA MsgGoes ==
  ASSUME [Next]_vars, TypeOK, NEW m \in Msgs, msg'[m] = "gone", msg[m] # "gone"
  PROVE  \/ Expire(m)
         \/ \E w \in Workers : Ack(w) /\ wmsg[w] = m
<1> USE MsgFacts DEF TypeOK
<1>1. CASE UNCHANGED msg
  BY <1>1
<1>2. CASE \E t \in Tasks : SendMessage(t)
  BY <1>2 DEF SendMessage
<1>3. CASE \E n \in Msgs, w \in Workers : Receive(w, n)
  BY <1>3 DEF Receive
<1>4. CASE \E n \in Msgs : VisibilityTimeout(n) \/ EarlyTimeout(n)
  BY <1>4 DEF VisibilityTimeout, EarlyTimeout
<1>5. CASE \E n \in Msgs : Expire(n)
  BY <1>5 DEF Expire
<1>6. CASE \E w \in Workers : Ack(w)
  BY <1>6 DEF Ack
<1>7. CASE \E a \in Admins : Resend(a)
  BY <1>7 DEF Resend
<1> QED
  BY <1>1, <1>2, <1>3, <1>4, <1>5, <1>6, <1>7, MsgChanges

LEMMA HonestStays ==
  ASSUME [Next]_vars, NEW r, NEW t, HonestRow(r, t)
  PROVE  HonestRow(r, t)'
  BY HistoryGrows DEF HonestRow

LEMMA HonestUpdates ==
  ASSUME NEW r \in Row, NEW t \in Tasks, HonestRow(r, t)
  PROVE  /\ t \in handled' /\ cancelledOnce \subseteq cancelledOnce' /\ handled \subseteq handled'
              => HonestRow([r EXCEPT !.completed = TRUE], t)'
         /\ t \in cancelledOnce' /\ handled \subseteq handled'
              => HonestRow([r EXCEPT !.cancelled = TRUE], t)'
         /\ handled \subseteq handled'
              => HonestRow([r EXCEPT !.cancelled = FALSE], t)'
  BY TaskQueueAssumption DEF HonestRow, Row

\* Whoever saves a row saves an honest one.
LEMMA RowsStep == IInv /\ [Next]_vars => RowsHonest'
<1> SUFFICES ASSUME IInv, [Next]_vars, NEW u \in Tasks PROVE HonestRow(row[u], u)'
  BY DEF RowsHonest
<1> TypeOK /\ RowsHonest /\ WorkersHonest /\ AdminsHonest
  BY DEF IInv
<1>0. HonestRow(row[u], u) /\ row \in [Tasks -> Row \cup {NoRow}]
  BY DEF RowsHonest, TypeOK
<1>1. CASE row'[u] = row[u]
  BY <1>0, <1>1, HonestStays DEF HonestRow
<1>2. ASSUME NEW t \in Tasks, RecordTask(t) \/ Commit(t) \/ DeleteEntity(t)
      PROVE  HonestRow(row[u], u)'
  <2>1. row'[u] \in {row[u], FreshRow, NoRow}
    BY <1>0, <1>2 DEF RecordTask, Commit, DeleteEntity, rowVars
  <2> QED
    BY <1>1, <2>1 DEF HonestRow, FreshRow
<1>3. ASSUME NEW w \in Workers, Complete(w) PROVE HonestRow(row[u], u)'
  <2> DEFINE t == TaskOf(wmsg[w])
  <2>1. t \in Tasks /\ t \in handled /\ HonestRow(wrow[w], t) /\ wrow[w] \in Row \cup {NoRow}
    BY <1>3, MsgFacts DEF Complete, TypeOK, WorkersHonest
  <2>2. CASE wrow[w] = NoRow \/ u # t
    BY <1>0, <1>1, <1>3, <2>1, <2>2 DEF Complete, rowVars
  <2>3. CASE wrow[w] # NoRow /\ u = t
    <3>1. row'[u] = [wrow[w] EXCEPT !.completed = TRUE]
      BY <1>0, <1>3, <2>1, <2>3 DEF Complete
    <3> QED
      BY <2>1, <2>3, <3>1, HistoryGrows, HonestUpdates DEF HonestRow
  <2> QED
    BY <2>2, <2>3
<1>4. ASSUME NEW a \in Admins, CancelTask(a) \/ RetryTask(a) \/ ApiSendMessage(a)
      PROVE  HonestRow(row[u], u)'
  <2>1. atask[a] \in Tasks /\ arow[a] \in Row /\ HonestRow(arow[a], atask[a])
    BY <1>4 DEF CancelTask, RetryTask, ApiSendMessage, TypeOK, AdminsHonest
  <2>2. CASE u # atask[a]
    BY <1>0, <1>1, <1>4, <2>1, <2>2 DEF CancelTask, RetryTask, ApiSendMessage, rowVars
  <2>3. CASE u = atask[a] /\ CancelTask(a)
    <3>1. row'[u] = [arow[a] EXCEPT !.cancelled = TRUE] /\ u \in cancelledOnce'
      BY <1>0, <2>1, <2>3 DEF CancelTask
    <3> QED
      BY <2>1, <2>3, <3>1, HistoryGrows, HonestUpdates DEF HonestRow
  <2>4. CASE u = atask[a] /\ (RetryTask(a) \/ ApiSendMessage(a))
    <3>1. row'[u] = [arow[a] EXCEPT !.cancelled = FALSE] \/ row'[u] = row[u]
      BY <1>0, <2>1, <2>4 DEF RetryTask, ApiSendMessage, rowVars
    <3> QED
      BY <1>1, <2>1, <2>4, <3>1, HistoryGrows, HonestUpdates DEF HonestRow
  <2> QED
    BY <1>4, <2>2, <2>3, <2>4
<1> QED
  BY <1>1, <1>2, <1>3, <1>4, RowChanges

LEMMA WorkersStep == IInv /\ [Next]_vars => WorkersHonest'
<1> SUFFICES ASSUME IInv, [Next]_vars PROVE WorkersHonest'
  OBVIOUS
<1> TypeOK /\ RowsHonest /\ WorkersHonest
  BY DEF IInv
<1> DEFINE P(v) == wpc[v] # "idle" =>
      /\ wpc[v] # "received" => HonestRow(wrow[v], TaskOf(wmsg[v]))
      /\ wpc[v] = "completing" => TaskOf(wmsg[v]) \in handled
      /\ wpc[v] = "returning" => TaskOf(wmsg[v]) \in handled \cup cancelledOnce
<1>0. \A v \in Workers : P(v)
  BY DEF WorkersHonest
<1>1. ASSUME NEW v \in Workers, wpc'[v] = wpc[v], wmsg'[v] = wmsg[v], wrow'[v] = wrow[v]
      PROVE  P(v)'
  <2>1. P(v)
    BY <1>0
  <2>2. HonestRow(wrow[v], TaskOf(wmsg[v])) => HonestRow(wrow[v], TaskOf(wmsg[v]))'
    BY <1>1, HistoryGrows DEF HonestRow, TaskOf
  <2> QED
    BY <1>1, <2>1, <2>2, HistoryGrows DEF TaskOf
<1>2. CASE UNCHANGED workerVars
  BY <1>1, <1>2 DEF WorkersHonest, workerVars
<1>3. ASSUME NEW w \in Workers, NEW v \in Workers, v # w,
             WorkerStep(w) \/ WorkerFails(w) \/ \E m \in Msgs : Receive(w, m)
      PROVE  P(v)'
  <2>1. wpc'[v] = wpc[v] /\ wmsg'[v] = wmsg[v] /\ wrow'[v] = wrow[v]
    BY <1>3 DEF WorkerStep, WorkerFails, Receive, ReadTask, GetObject, ObjectMissing,
                Handle, Complete, Ack, GoTo, Release, TypeOK
  <2> QED
    BY <1>1, <2>1
<1>4. ASSUME NEW w \in Workers, WorkerStep(w) \/ WorkerFails(w) \/ \E m \in Msgs : Receive(w, m)
      PROVE  P(w)'
  <2>1. CASE ObjectMissing(w) \/ Ack(w) \/ WorkerFails(w)
    BY <2>1 DEF ObjectMissing, Ack, WorkerFails, Release, GoTo, TypeOK
  <2>2. CASE \E m \in Msgs : Receive(w, m)
    BY <2>2 DEF Receive, TypeOK
  <2>3. CASE ReadTask(w)
    <3> DEFINE t == TaskOf(wmsg[w])
    <3>1. t \in Tasks /\ HonestRow(row[t], t)
      BY <2>3, MsgFacts DEF ReadTask, TypeOK, RowsHonest
    <3>2. wrow'[w] = row[t] /\ wmsg'[w] = wmsg[w] /\ wpc'[w] # "completing"
      BY <2>3 DEF ReadTask, GoTo, TypeOK
    <3>3. HonestRow(wrow[w], TaskOf(wmsg[w]))'
      BY <3>1, <3>2, HistoryGrows DEF HonestRow, TaskOf
    <3>4. wpc'[w] = "returning" => t \in handled \cup cancelledOnce
      BY <2>3, <3>1 DEF ReadTask, GoTo, TypeOK, HonestRow
    <3>5. TaskOf(wmsg[w])' = t
      BY <3>2 DEF TaskOf
    <3> QED
      BY <3>2, <3>3, <3>4, <3>5, HistoryGrows
  <2>4. CASE GetObject(w) \/ Handle(w) \/ Complete(w)
    <3>1. /\ wpc[w] \notin {"idle", "received"}
          /\ wmsg'[w] = wmsg[w] /\ wrow'[w] = wrow[w]
          /\ wpc'[w] = "handling" \/ TaskOf(wmsg[w]) \in handled'
      BY <2>4, <1>0, HistoryGrows DEF GetObject, Handle, Complete, GoTo, TypeOK
    <3>2. HonestRow(wrow[w], TaskOf(wmsg[w])) => HonestRow(wrow[w], TaskOf(wmsg[w]))'
      BY <3>1, HistoryGrows DEF HonestRow, TaskOf
    <3>3. wpc'[w] \in {"handling", "completing", "returning"}
      BY <2>4 DEF GetObject, Handle, Complete, GoTo, TypeOK
    <3> QED
      BY <1>0, <3>1, <3>2, <3>3 DEF TaskOf
  <2> QED
    BY <1>4, <2>1, <2>2, <2>3, <2>4 DEF WorkerStep
<1>5. ASSUME NEW w \in Workers, WorkerStep(w) \/ WorkerFails(w) \/ \E m \in Msgs : Receive(w, m)
      PROVE  WorkersHonest'
  BY <1>3, <1>4, <1>5 DEF WorkersHonest
<1> QED
  BY <1>2, <1>5, WorkerChanges

LEMMA AdminsStep == IInv /\ [Next]_vars => AdminsHonest'
<1> SUFFICES ASSUME IInv, [Next]_vars, NEW b \in Admins, apc'[b] # "idle"
             PROVE  HonestRow(arow[b], atask[b])'
  BY DEF AdminsHonest
<1> TypeOK /\ RowsHonest /\ AdminsHonest
  BY DEF IInv
<1>1. ASSUME arow'[b] = arow[b], atask'[b] = atask[b], apc[b] # "idle"
      PROVE  HonestRow(arow[b], atask[b])'
  BY <1>1, HistoryGrows DEF AdminsHonest, HonestRow
<1>2. CASE UNCHANGED adminVars
  BY <1>1, <1>2 DEF adminVars
<1>3. ASSUME NEW a \in Admins, NEW t \in Tasks, LoadTask(a, t)
      PROVE  HonestRow(arow[b], atask[b])'
  <2>1. CASE a # b
    BY <1>1, <1>3, <2>1 DEF LoadTask, TypeOK
  <2>2. CASE a = b
    <3>1. arow'[b] = row[t] /\ atask'[b] = t /\ HonestRow(row[t], t)
      BY <1>3, <2>2 DEF LoadTask, TypeOK, RowsHonest
    <3> QED
      BY <3>1, HistoryGrows DEF HonestRow
  <2> QED
    BY <2>1, <2>2
<1>4. ASSUME NEW a \in Admins, RetryTask(a) PROVE HonestRow(arow[b], atask[b])'
  BY <1>1, <1>4 DEF RetryTask, TypeOK
<1>5. ASSUME NEW a \in Admins, AdminDone(a) PROVE HonestRow(arow[b], atask[b])'
  BY <1>1, <1>5 DEF AdminDone, TypeOK
<1> QED
  BY <1>2, <1>3, <1>4, <1>5, AdminChanges

LEMMA GoneStep == IInv /\ [Next]_vars => GoneIsSettled'
<1> SUFFICES ASSUME IInv, [Next]_vars, NEW m \in Msgs, msg'[m] = "gone"
             PROVE  TaskOf(m) \in handled' \cup cancelledOnce' \cup expired'
  BY DEF GoneIsSettled, TaskOf
<1> TypeOK /\ WorkersHonest /\ GoneIsSettled
  BY DEF IInv
<1>1. CASE msg[m] = "gone"
  BY <1>1, HistoryGrows DEF GoneIsSettled
<1>2. CASE Expire(m)
  BY <1>2 DEF Expire
<1>3. ASSUME NEW w \in Workers, Ack(w), wmsg[w] = m
      PROVE  TaskOf(m) \in handled' \cup cancelledOnce'
  BY <1>3, HistoryGrows DEF Ack, WorkersHonest
<1> QED
  BY <1>1, <1>2, <1>3, MsgGoes

THEOREM Invariance == Spec => []IInv
<1>1. Init => IInv
  <2>1. Init => TypeOK
    BY TaskQueueAssumption DEF Init, TypeOK, WorkerPcs
  <2> QED
    BY <2>1 DEF Init, IInv, RowsHonest, WorkersHonest, AdminsHonest, GoneIsSettled, HonestRow
<1>2. IInv /\ [Next]_vars => IInv'
  BY TypeStep, RowsStep, WorkersStep, AdminsStep, GoneStep DEF IInv
<1> QED
  BY <1>1, <1>2, PTL DEF Spec

\* No task is lost silently, whatever fails, crashes or is delivered twice
\* (late acknowledgement, handlers/base.py).
THEOREM NothingLost == Spec => []NoSilentLoss
<1>1. IInv => NoSilentLoss
  <2> SUFFICES ASSUME IInv, NEW t \in Tasks, Sent(t), ~ HasLiveCopy(t)
               PROVE  t \in handled \cup cancelledOnce \cup expired
    BY DEF NoSilentLoss
  <2>1. PICK m \in CopiesOf(t) : msg[m] # "unsent"
    BY DEF Sent
  <2>2. m \in Msgs /\ TaskOf(m) = t
    BY DEF CopiesOf
  <2>3. msg[m] = "gone"
    BY <2>1, <2>2 DEF HasLiveCopy, Live, IInv, TypeOK
  <2> QED
    BY <2>2, <2>3 DEF IInv, GoneIsSettled
<1> QED
  BY <1>1, Invariance, PTL

\* A row claims completion only for a task whose handler took effect, although
\* every save writes back a copy read earlier (task.py, views/task.py).
THEOREM CompletionHonest == Spec => []CompletedWasHandled
<1>1. IInv => CompletedWasHandled
  BY DEF IInv, RowsHonest, HonestRow, CompletedWasHandled
<1> QED
  BY <1>1, Invariance, PTL

-----------------------------------------------------------------------------
(* Who takes a completion back *)

Unrecorded(t) == producer[t] \in {"idle", "saved", "sent", "recorded"}

\* Until the request has recorded its task nobody holds a row of it, so the
\* insertion of a fresh row overwrites nothing.
UnrecordedIsUnseen ==
  \A t \in Tasks : Unrecorded(t) =>
    /\ row[t] = NoRow
    /\ \A w \in Workers : wpc[w] # "idle" /\ TaskOf(wmsg[w]) = t => wrow[w] = NoRow
    /\ \A a \in Admins : apc[a] # "idle" => atask[a] # t

UnreadIsEmpty == \A w \in Workers : wpc[w] \in {"idle", "received"} => wrow[w] = NoRow

SeenInv == TypeOK /\ UnrecordedIsUnseen /\ UnreadIsEmpty

LEMMA UnrecordedBefore ==
  ASSUME TypeOK, [Next]_vars, NEW t \in Tasks, Unrecorded(t)'
  PROVE  Unrecorded(t) /\ ~ Commit(t) /\ (RecordTask(t) => t \in AtomicTasks)
  BY DEF Next, ProducerNext, QueueNext, WorkerNext, WorkerStep, AdminNext, vars,
         Unrecorded, TypeOK,
         SaveEntity, SendMessage, RecordTask, Commit, RequestFails, DeleteEntity,
         Receive, VisibilityTimeout, EarlyTimeout, Expire,
         ReadTask, GetObject, ObjectMissing, Handle, Complete, Ack, WorkerFails,
         LoadTask, CancelTask, RetryTask, Resend, ResendFails, ApiSendMessage

LEMMA UnreadStep == SeenInv /\ [Next]_vars => UnreadIsEmpty'
<1> SUFFICES ASSUME SeenInv, [Next]_vars, NEW v \in Workers, wpc'[v] \in {"idle", "received"}
             PROVE  wrow'[v] = NoRow
  BY DEF UnreadIsEmpty
<1> TypeOK /\ UnreadIsEmpty
  BY DEF SeenInv
<1>1. CASE UNCHANGED workerVars
  BY <1>1 DEF workerVars, UnreadIsEmpty
<1>2. ASSUME NEW w \in Workers, NEW m \in Msgs, Receive(w, m) PROVE wrow'[v] = NoRow
  BY <1>2 DEF Receive, TypeOK, UnreadIsEmpty
<1>3. ASSUME NEW w \in Workers, WorkerStep(w) \/ WorkerFails(w) PROVE wrow'[v] = NoRow
  <2>1. CASE ReadTask(w)
    BY <2>1 DEF ReadTask, GoTo, TypeOK, UnreadIsEmpty
  <2>2. CASE GetObject(w) \/ Handle(w) \/ Complete(w)
    BY <2>2 DEF GetObject, Handle, Complete, GoTo, TypeOK, UnreadIsEmpty
  <2>3. CASE ObjectMissing(w) \/ Ack(w) \/ WorkerFails(w)
    BY <2>3 DEF ObjectMissing, Ack, WorkerFails, Release, GoTo, TypeOK, UnreadIsEmpty
  <2> QED
    BY <1>3, <2>1, <2>2, <2>3 DEF WorkerStep
<1> QED
  BY <1>1, <1>2, <1>3, WorkerChanges

LEMMA UnseenStep == SeenInv /\ [Next]_vars => UnrecordedIsUnseen'
<1> SUFFICES ASSUME SeenInv, [Next]_vars, NEW t \in Tasks, Unrecorded(t)'
             PROVE  /\ row'[t] = NoRow
                    /\ \A w \in Workers : wpc'[w] # "idle" /\ TaskOf(wmsg'[w]) = t => wrow'[w] = NoRow
                    /\ \A a \in Admins : apc'[a] # "idle" => atask'[a] # t
  BY DEF UnrecordedIsUnseen, TaskOf
<1> TypeOK /\ UnrecordedIsUnseen /\ UnreadIsEmpty
  BY DEF SeenInv
<1>1. /\ Unrecorded(t) /\ ~ Commit(t) /\ (RecordTask(t) => t \in AtomicTasks)
      /\ row[t] = NoRow
  BY UnrecordedBefore DEF UnrecordedIsUnseen
<1>2. \A w \in Workers : wpc[w] # "idle" /\ TaskOf(wmsg[w]) = t => wrow[w] = NoRow
  BY <1>1 DEF UnrecordedIsUnseen
<1>3. \A a \in Admins : apc[a] # "idle" => atask[a] # t
  BY <1>1 DEF UnrecordedIsUnseen
<1>4. row'[t] = NoRow
  <2>1. ASSUME NEW u \in Tasks, RecordTask(u) \/ Commit(u) \/ DeleteEntity(u)
        PROVE  row'[t] = NoRow
    BY <1>1, <2>1 DEF RecordTask, Commit, DeleteEntity, rowVars, TypeOK
  <2>2. ASSUME NEW w \in Workers, Complete(w) PROVE row'[t] = NoRow
    BY <1>1, <1>2, <2>2 DEF Complete, rowVars, TypeOK
  <2>3. ASSUME NEW a \in Admins, CancelTask(a) \/ RetryTask(a) \/ ApiSendMessage(a)
        PROVE  row'[t] = NoRow
    BY <1>1, <1>3, <2>3 DEF CancelTask, RetryTask, ApiSendMessage, rowVars, TypeOK
  <2> QED
    BY <1>1, <2>1, <2>2, <2>3, RowChanges
<1>5. ASSUME NEW v \in Workers, wpc'[v] # "idle", TaskOf(wmsg'[v]) = t PROVE wrow'[v] = NoRow
  <2>1. CASE UNCHANGED workerVars
    BY <1>2, <1>5, <2>1 DEF workerVars
  <2>2. ASSUME NEW w \in Workers, NEW m \in Msgs, Receive(w, m) PROVE wrow'[v] = NoRow
    BY <1>2, <1>5, <2>2 DEF Receive, TypeOK, UnreadIsEmpty
  <2>3. ASSUME NEW w \in Workers, ReadTask(w) PROVE wrow'[v] = NoRow
    BY <1>1, <1>2, <1>5, <2>3 DEF ReadTask, GoTo, TypeOK
  <2>4. ASSUME NEW w \in Workers, GetObject(w) \/ Handle(w) \/ Complete(w)
        PROVE  wrow'[v] = NoRow
    BY <1>2, <1>5, <2>4 DEF GetObject, Handle, Complete, GoTo, TypeOK
  <2>5. ASSUME NEW w \in Workers, ObjectMissing(w) \/ Ack(w) \/ WorkerFails(w)
        PROVE  wrow'[v] = NoRow
    BY <1>2, <1>5, <2>5 DEF ObjectMissing, Ack, WorkerFails, Release, GoTo, TypeOK
  <2> QED
    BY <2>1, <2>2, <2>3, <2>4, <2>5, WorkerChanges DEF WorkerStep
<1>6. ASSUME NEW b \in Admins, apc'[b] # "idle" PROVE atask'[b] # t
  <2>1. CASE UNCHANGED adminVars
    BY <1>3, <1>6, <2>1 DEF adminVars
  <2>2. ASSUME NEW a \in Admins, NEW u \in Tasks, LoadTask(a, u) PROVE atask'[b] # t
    BY <1>1, <1>3, <1>6, <2>2 DEF LoadTask, TypeOK
  <2>3. ASSUME NEW a \in Admins, RetryTask(a) \/ AdminDone(a) PROVE atask'[b] # t
    BY <1>3, <1>6, <2>3 DEF RetryTask, AdminDone, TypeOK
  <2> QED
    BY <2>1, <2>2, <2>3, AdminChanges
<1> QED
  BY <1>4, <1>5, <1>6

LEMMA ReopenStep ==
  ASSUME SeenInv, [Next]_vars, NEW t \in Tasks, row[t] # NoRow, row[t].completed
  PROVE  \/ row'[t] = NoRow \/ row'[t].completed
         \/ \E a \in Admins : apc[a] = "loaded" /\ atask[a] = t /\ apc'[a] # "loaded"
<1> TypeOK /\ UnrecordedIsUnseen
  BY DEF SeenInv
<1> ~ Unrecorded(t)
  BY DEF UnrecordedIsUnseen
<1>1. ASSUME NEW u \in Tasks, RecordTask(u) \/ Commit(u) \/ DeleteEntity(u)
      PROVE  row'[t] \in {row[t], NoRow}
  BY <1>1 DEF RecordTask, Commit, DeleteEntity, rowVars, TypeOK, Unrecorded
<1>2. ASSUME NEW w \in Workers, Complete(w)
      PROVE  row'[t] = row[t] \/ row'[t].completed
  <2> DEFINE u == TaskOf(wmsg[w])
  <2>1. CASE wrow[w] = NoRow \/ u # t
    BY <1>2, <2>1 DEF Complete, rowVars, TypeOK
  <2>2. CASE wrow[w] # NoRow /\ u = t
    <3>1. row'[t] = [wrow[w] EXCEPT !.completed = TRUE] /\ wrow[w] \in Row
      BY <1>2, <2>2 DEF Complete, TypeOK
    <3> QED
      BY <3>1 DEF Row
  <2> QED
    BY <2>1, <2>2
<1>3. ASSUME NEW a \in Admins, CancelTask(a) \/ RetryTask(a) \/ ApiSendMessage(a)
      PROVE  \/ row'[t] = row[t]
             \/ apc[a] = "loaded" /\ atask[a] = t /\ apc'[a] # "loaded"
  <2>1. apc[a] = "loaded" /\ atask[a] \in Tasks
    BY <1>3 DEF CancelTask, RetryTask, ApiSendMessage, TypeOK
  <2>2. apc'[a] # "loaded"
    <3>1. apc \in [Admins -> {"idle", "loaded", "resend"}]
      BY DEF TypeOK
    <3> QED
      BY <1>3, <3>1 DEF CancelTask, RetryTask, ApiSendMessage, AdminDone
  <2>3. CASE atask[a] # t
    <3>1. row \in [Tasks -> Row \cup {NoRow}]
      BY DEF TypeOK
    <3>2. row' = row \/ \E r : row' = [row EXCEPT ![atask[a]] = r]
      BY <1>3 DEF CancelTask, RetryTask, ApiSendMessage, rowVars
    <3> QED
      BY <2>1, <2>3, <3>1, <3>2
  <2> QED
    BY <2>1, <2>2, <2>3
<1> QED
  BY <1>1, <1>2, <1>3, RowChanges

\* Only an administrator's save takes a completion back; no worker does, however
\* stale the row it saves (handlers/base.py complete, task.py).
THEOREM OnlyAdminsTakeBack == Spec => OnlyAdminsReopen
<1>1. Init => SeenInv
  <2>1. Init => TypeOK
    BY TaskQueueAssumption DEF Init, TypeOK, WorkerPcs
  <2> QED
    BY <2>1 DEF Init, SeenInv, UnrecordedIsUnseen, UnreadIsEmpty
<1>2. SeenInv /\ [Next]_vars => SeenInv'
  BY TypeStep, UnseenStep, UnreadStep DEF SeenInv
<1>3. SeenInv /\ [Next]_vars =>
        [\A t \in Tasks : row[t] # NoRow /\ row[t].completed =>
           \/ row'[t] = NoRow \/ row'[t].completed
           \/ \E a \in Admins : apc[a] = "loaded" /\ atask[a] = t /\ apc'[a] # "loaded"]_vars
  <2> SUFFICES ASSUME SeenInv, [Next]_vars, NEW t \in Tasks, row[t] # NoRow, row[t].completed
               PROVE  \/ row'[t] = NoRow \/ row'[t].completed
                      \/ \E a \in Admins : apc[a] = "loaded" /\ atask[a] = t /\ apc'[a] # "loaded"
    OBVIOUS
  <2> QED
    BY ReopenStep
<1> QED
  BY <1>1, <1>2, <1>3, PTL DEF Spec, OnlyAdminsReopen

-----------------------------------------------------------------------------
(* Who will settle a row that waits *)

Waiting(t) == row[t] # NoRow /\ ~ row[t].completed /\ ~ row[t].cancelled

\* A worker that only has to acknowledge m will not look at the row again.
Finishing(m) == \E w \in Workers : wpc[w] = "returning" /\ wmsg[w] = m

Tended(t) == \E m \in CopiesOf(t) : Live(m) /\ ~ Finishing(m)
Resending(t) == \E a \in Admins : apc[a] = "resend" /\ atask[a] = t

\* A task whose message left and whose row is not written yet is owed as much
\* as one whose row waits.
Owed(t) == Waiting(t) \/ producer[t] \in {"sent", "recorded"}

OwedIsTended ==
  \A t \in Tasks \ (untracked \cup expired) : Owed(t) => Tended(t) \/ Resending(t)

UnsentBefore ==
  \A t \in Tasks : producer[t] \in {"idle", "saved"} =>
    \A m \in CopiesOf(t) : msg[m] = "unsent"

HeldWereSent == \A w \in Workers : wpc[w] # "idle" => msg[wmsg[w]] # "unsent"

WaitInv == SeenInv /\ HeldWereSent /\ UnsentBefore /\ OwedIsTended

LEMMA UntrackedGrows ==
  ASSUME [Next]_vars
  PROVE  untracked \subseteq untracked'
  BY DEF Next, ProducerNext, QueueNext, WorkerNext, WorkerStep, AdminNext, vars,
         SaveEntity, SendMessage, RecordTask, Commit, RequestFails, DeleteEntity,
         Receive, VisibilityTimeout, EarlyTimeout, Expire,
         ReadTask, GetObject, ObjectMissing, Handle, Complete, Ack, WorkerFails,
         LoadTask, CancelTask, RetryTask, Resend, ResendFails, ApiSendMessage

LEMMA SentStays ==
  ASSUME TypeOK, [Next]_vars, NEW m \in Msgs, msg[m] # "unsent"
  PROVE  msg'[m] # "unsent"
<1> USE MsgFacts DEF TypeOK
<1>1. CASE UNCHANGED msg
  BY <1>1
<1>2. CASE \E t \in Tasks : SendMessage(t)
  BY <1>2 DEF SendMessage
<1>3. CASE \E n \in Msgs, w \in Workers : Receive(w, n)
  BY <1>3 DEF Receive
<1>4. CASE \E n \in Msgs : VisibilityTimeout(n) \/ EarlyTimeout(n) \/ Expire(n)
  BY <1>4 DEF VisibilityTimeout, EarlyTimeout, Expire
<1>5. CASE \E w \in Workers : Ack(w)
  BY <1>5 DEF Ack
<1>6. CASE \E a \in Admins : Resend(a)
  BY <1>6 DEF Resend
<1> QED
  BY <1>1, <1>2, <1>3, <1>4, <1>5, <1>6, MsgChanges

\* Whoever holds a message after a step received it now or held it before.
LEMMA HeldBefore ==
  ASSUME TypeOK, [Next]_vars, NEW v \in Workers, wpc'[v] # "idle"
  PROVE  \/ wpc[v] # "idle" /\ wmsg'[v] = wmsg[v]
         \/ \E m \in Msgs : Receive(v, m) /\ wmsg'[v] = m
<1> USE DEF TypeOK
<1>1. CASE UNCHANGED workerVars
  BY <1>1 DEF workerVars
<1>2. ASSUME NEW w \in Workers, NEW m \in Msgs, Receive(w, m)
      PROVE  \/ wpc[v] # "idle" /\ wmsg'[v] = wmsg[v]
             \/ Receive(v, m) /\ wmsg'[v] = m
  <2>1. CASE v = w
    BY <1>2, <2>1 DEF Receive
  <2>2. CASE v # w
    BY <1>2, <2>2 DEF Receive
  <2> QED
    BY <2>1, <2>2
<1>3. ASSUME NEW w \in Workers, WorkerStep(w) \/ WorkerFails(w)
      PROVE  wpc[v] # "idle" /\ wmsg'[v] = wmsg[v]
  <2>1. CASE ReadTask(w) \/ GetObject(w) \/ Handle(w) \/ Complete(w)
    BY <2>1 DEF ReadTask, GetObject, Handle, Complete, GoTo
  <2>2. CASE ObjectMissing(w) \/ Ack(w) \/ WorkerFails(w)
    BY <2>2 DEF ObjectMissing, Ack, WorkerFails, Release, GoTo
  <2> QED
    BY <1>3, <2>1, <2>2 DEF WorkerStep
<1> QED
  BY <1>1, <1>2, <1>3, WorkerChanges

LEMMA HeldStep == TypeOK /\ HeldWereSent /\ [Next]_vars => HeldWereSent'
<1> SUFFICES ASSUME TypeOK, HeldWereSent, [Next]_vars, NEW v \in Workers, wpc'[v] # "idle"
             PROVE  msg'[wmsg'[v]] # "unsent"
  BY DEF HeldWereSent
<1>1. CASE wpc[v] # "idle" /\ wmsg'[v] = wmsg[v]
  <2>1. wmsg[v] \in Msgs /\ msg[wmsg[v]] # "unsent"
    BY <1>1 DEF TypeOK, HeldWereSent
  <2> QED
    BY <1>1, <2>1, SentStays
<1>2. ASSUME NEW m \in Msgs, Receive(v, m), wmsg'[v] = m PROVE msg'[m] # "unsent"
  BY <1>2, SentStays DEF Receive
<1> QED
  BY <1>1, <1>2, HeldBefore

LEMMA ProducerBefore ==
  ASSUME TypeOK, [Next]_vars, NEW t \in Tasks
  PROVE  /\ producer'[t] \in {"idle", "saved"} =>
              producer[t] \in {"idle", "saved"} /\ ~ SendMessage(t)
         /\ producer'[t] \in {"sent", "recorded"} =>
              producer[t] \in {"sent", "recorded"} \/ SendMessage(t)
  BY DEF Next, ProducerNext, QueueNext, WorkerNext, WorkerStep, AdminNext, vars, TypeOK,
         SaveEntity, SendMessage, RecordTask, Commit, RequestFails, DeleteEntity,
         Receive, VisibilityTimeout, EarlyTimeout, Expire,
         ReadTask, GetObject, ObjectMissing, Handle, Complete, Ack, WorkerFails,
         LoadTask, CancelTask, RetryTask, Resend, ResendFails, ApiSendMessage

LEMMA UnsentStep == SeenInv /\ HeldWereSent /\ UnsentBefore /\ [Next]_vars => UnsentBefore'
<1> SUFFICES ASSUME SeenInv, HeldWereSent, UnsentBefore, [Next]_vars, NEW t \in Tasks,
                    producer'[t] \in {"idle", "saved"}, NEW m \in CopiesOf(t)
             PROVE  msg'[m] = "unsent"
  BY DEF UnsentBefore, CopiesOf, TaskOf
<1> TypeOK
  BY DEF SeenInv
<1>0. m \in Msgs /\ TaskOf(m) = t
  BY DEF CopiesOf
<1>1. producer[t] \in {"idle", "saved"} /\ ~ SendMessage(t) /\ msg[m] = "unsent"
  BY ProducerBefore DEF UnsentBefore
<1>2. \A a \in Admins : apc[a] # "idle" => atask[a] # t
  BY <1>1 DEF SeenInv, UnrecordedIsUnseen, Unrecorded
<1>3. ASSUME NEW u \in Tasks, SendMessage(u) PROVE msg'[m] = "unsent"
  BY <1>0, <1>1, <1>3, MsgFacts DEF SendMessage, TypeOK
<1>4. ASSUME NEW n \in Msgs, NEW w \in Workers, Receive(w, n) PROVE msg'[m] = "unsent"
  BY <1>0, <1>1, <1>4 DEF Receive, TypeOK
<1>5. ASSUME NEW n \in Msgs, VisibilityTimeout(n) \/ EarlyTimeout(n) \/ Expire(n)
      PROVE  msg'[m] = "unsent"
  BY <1>0, <1>1, <1>5 DEF VisibilityTimeout, EarlyTimeout, Expire, TypeOK
<1>6. ASSUME NEW w \in Workers, Ack(w) PROVE msg'[m] = "unsent"
  <2>1. wmsg[w] # m
    BY <1>1, <1>6 DEF Ack, HeldWereSent
  <2> QED
    BY <1>0, <1>1, <1>6, <2>1 DEF Ack, TypeOK
<1>7. ASSUME NEW a \in Admins, Resend(a) PROVE msg'[m] = "unsent"
  <2>1. PICK n \in CopiesOf(atask[a]) : msg' = [msg EXCEPT ![n] = "visible"]
    BY <1>7 DEF Resend
  <2>2. n \in Msgs /\ n # m
    BY <1>0, <1>2, <1>7, <2>1 DEF Resend, CopiesOf
  <2> QED
    BY <1>0, <1>1, <2>1, <2>2 DEF TypeOK
<1> QED
  BY <1>1, <1>3, <1>4, <1>5, <1>6, <1>7, MsgChanges

LEMMA OwedBefore ==
  ASSUME SeenInv, [Next]_vars, NEW t \in Tasks, t \notin untracked', Owed(t)'
  PROVE  \/ Owed(t)
         \/ SendMessage(t)
         \/ \E a \in Admins : RetryTask(a) /\ atask[a] = t
<1> TypeOK /\ row \in [Tasks -> Row \cup {NoRow}]
  BY DEF SeenInv, TypeOK
<1>1. CASE producer'[t] \in {"sent", "recorded"}
  BY <1>1, ProducerBefore DEF Owed
<1>2. CASE Waiting(t)'
  <2>1. CASE row' = row
    BY <1>2, <2>1 DEF Owed, Waiting
  <2>2. ASSUME NEW u \in Tasks, RecordTask(u) \/ Commit(u) \/ DeleteEntity(u)
        PROVE  Owed(t)
    <3>1. CASE u = t /\ (RecordTask(u) \/ Commit(u))
      BY <3>1 DEF RecordTask, Commit, Owed
    <3>2. CASE u # t \/ DeleteEntity(u)
      <4>1. row'[t] = row[t] \/ row'[t] = NoRow
        BY <2>2, <3>2 DEF RecordTask, Commit, DeleteEntity, rowVars
      <4> QED
        BY <1>2, <4>1 DEF Owed, Waiting
    <3> QED
      BY <2>2, <3>1, <3>2
  <2>3. ASSUME NEW w \in Workers, Complete(w) PROVE Owed(t)
    <3>1. CASE wrow[w] = NoRow \/ TaskOf(wmsg[w]) # t
      <4>1. row'[t] = row[t]
        BY <2>3, <3>1 DEF Complete, rowVars
      <4> QED
        BY <1>2, <4>1 DEF Owed, Waiting
    <3>2. CASE wrow[w] # NoRow /\ TaskOf(wmsg[w]) = t
      <4>1. row'[t] = [wrow[w] EXCEPT !.completed = TRUE] /\ wrow[w] \in Row
        BY <2>3, <3>2 DEF Complete, TypeOK
      <4>2. row'[t].completed
        BY <4>1 DEF Row
      <4> QED
        BY <1>2, <4>2 DEF Waiting
    <3> QED
      BY <3>1, <3>2
  <2>4. ASSUME NEW a \in Admins, CancelTask(a) \/ RetryTask(a) \/ ApiSendMessage(a)
        PROVE  Owed(t) \/ (RetryTask(a) /\ atask[a] = t)
    <3>1. atask[a] \in Tasks /\ arow[a] \in Row
      BY <2>4 DEF CancelTask, RetryTask, ApiSendMessage, TypeOK
    <3>2. CASE atask[a] # t
      <4>1. row'[t] = row[t]
        BY <2>4, <3>1, <3>2 DEF CancelTask, RetryTask, ApiSendMessage, rowVars
      <4> QED
        BY <1>2, <4>1 DEF Owed, Waiting
    <3>3. CASE atask[a] = t /\ CancelTask(a)
      <4>1. row'[t] = [arow[a] EXCEPT !.cancelled = TRUE]
        BY <3>3 DEF CancelTask
      <4>2. row'[t].cancelled
        BY <3>1, <4>1 DEF Row
      <4> QED
        BY <1>2, <4>2 DEF Waiting
    <3>4. CASE atask[a] = t /\ ApiSendMessage(a)
      <4>1. ~ arow[a].cancelled
        BY <3>4 DEF ApiSendMessage
      <4>2. row' = row
        BY <3>4, <4>1 DEF ApiSendMessage, rowVars
      <4> QED
        BY <1>2, <4>2 DEF Owed, Waiting
    <3> QED
      BY <2>4, <3>2, <3>3, <3>4
  <2> QED
    BY <2>1, <2>2, <2>3, <2>4, RowChanges
<1> QED
  BY <1>1, <1>2 DEF Owed

\* Nobody turns to acknowledging the message of a task that is still owed.
LEMMA FinishingBefore ==
  ASSUME SeenInv, [Next]_vars, NEW m \in Msgs,
         TaskOf(m) \notin untracked', Owed(TaskOf(m))', Finishing(m)'
  PROVE  Finishing(m)
<1> DEFINE t == TaskOf(m)
<1> TypeOK /\ t \in Tasks
  BY MsgFacts DEF SeenInv
<1>1. PICK v \in Workers : wpc'[v] = "returning" /\ wmsg'[v] = m
  BY DEF Finishing
<1>2. wpc[v] # "idle" /\ wmsg[v] = m
  <2>1. ASSUME NEW n \in Msgs, Receive(v, n) PROVE FALSE
    BY <1>1, <2>1 DEF Receive, TypeOK
  <2> QED
    BY <1>1, <2>1, HeldBefore
<1>3. CASE wpc[v] = "returning"
  BY <1>2, <1>3 DEF Finishing
<1>4. CASE wpc[v] # "returning"
  <2>1. ReadTask(v) \/ Complete(v)
    <3>1. ASSUME NEW w \in Workers, WorkerStep(w) \/ WorkerFails(w)
          PROVE  ReadTask(v) \/ Complete(v)
      BY <1>1, <1>4, <3>1
      DEF TypeOK, WorkerStep, ReadTask, GetObject, ObjectMissing, Handle, Complete, Ack,
          WorkerFails, Release, GoTo
    <3>2. ASSUME NEW w \in Workers, NEW n \in Msgs, Receive(w, n) PROVE FALSE
      BY <1>1, <1>4, <3>2 DEF TypeOK, Receive
    <3>3. ~ UNCHANGED workerVars
      BY <1>1, <1>4 DEF workerVars
    <3> QED
      BY <3>1, <3>2, <3>3, WorkerChanges
  <2>2. CASE ReadTask(v)
    <3>1. row[t] # NoRow /\ (row[t].completed \/ row[t].cancelled)
      BY <1>1, <1>2, <2>2 DEF ReadTask, GoTo, TypeOK
    <3>2. row'[t] = row[t] /\ producer'[t] = producer[t]
      BY <2>2 DEF ReadTask, rowVars
    <3>3. ~ Unrecorded(t)
      BY <3>1 DEF SeenInv, UnrecordedIsUnseen
    <3> QED
      BY <3>1, <3>2, <3>3 DEF Owed, Waiting, Unrecorded
  <2>3. CASE Complete(v)
    <3>1. wrow[v] # NoRow /\ wrow[v] \in Row
      BY <1>2, <2>3 DEF Complete, TypeOK
    <3>2. row' = [row EXCEPT ![t] = [wrow[v] EXCEPT !.completed = TRUE]]
      BY <1>2, <2>3, <3>1 DEF Complete
    <3>3. row'[t].completed /\ producer'[t] = producer[t]
      BY <2>3, <3>1, <3>2 DEF Complete, TypeOK, Row
    <3>4. ~ Unrecorded(t)
      BY <1>2, <3>1 DEF SeenInv, UnrecordedIsUnseen
    <3> QED
      BY <3>3, <3>4 DEF Owed, Waiting, Unrecorded
  <2> QED
    BY <2>1, <2>2, <2>3
<1> QED
  BY <1>3, <1>4

LEMMA TendedStep ==
  ASSUME WaitInv, [Next]_vars, NEW t \in Tasks, t \notin untracked', t \notin expired',
         Owed(t)', Tended(t)
  PROVE  Tended(t)'
<1> TypeOK /\ SeenInv
  BY DEF WaitInv, SeenInv
<1>1. PICK m \in CopiesOf(t) : Live(m) /\ ~ Finishing(m)
  BY DEF Tended
<1>2. m \in Msgs /\ TaskOf(m) = t
  BY <1>1 DEF CopiesOf
<1>3. ~ Finishing(m)'
  BY <1>1, <1>2, FinishingBefore
<1>4. msg'[m] # "unsent"
  BY <1>1, <1>2, SentStays DEF Live
<1>5. msg'[m] # "gone"
  <2>1. ~ Expire(m)
    BY <1>2 DEF Expire
  <2>2. ASSUME NEW w \in Workers, Ack(w), wmsg[w] = m PROVE FALSE
    BY <1>1, <2>2 DEF Ack, Finishing
  <2> QED
    BY <1>1, <1>2, <2>1, <2>2, MsgGoes DEF Live
<1>6. msg'[m] \in {"unsent", "visible", "inflight", "gone"}
  BY <1>2, TypeStep DEF TypeOK
<1>7. Live(m)'
  BY <1>4, <1>5, <1>6 DEF Live
<1>8. m \in CopiesOf(t)'
  BY <1>1 DEF CopiesOf
<1> QED
  BY <1>3, <1>7, <1>8 DEF Tended

LEMMA ResendingStep ==
  ASSUME WaitInv, [Next]_vars, NEW t \in Tasks, t \notin untracked', Resending(t)
  PROVE  Tended(t)' \/ Resending(t)'
<1> TypeOK /\ HeldWereSent
  BY DEF WaitInv, SeenInv
<1>1. PICK a \in Admins : apc[a] = "resend" /\ atask[a] = t
  BY DEF Resending
<1>2. CASE apc'[a] = apc[a] /\ atask'[a] = atask[a]
  BY <1>1, <1>2 DEF Resending
<1>3. CASE Resend(a)
  <2>1. PICK m \in CopiesOf(t) : msg[m] = "unsent" /\ msg' = [msg EXCEPT ![m] = "visible"]
    BY <1>1, <1>3 DEF Resend
  <2>2. m \in Msgs /\ msg'[m] = "visible"
    BY <2>1 DEF CopiesOf, TypeOK
  <2>3. Live(m)'
    BY <2>2 DEF Live
  <2>4. ~ Finishing(m)'
    BY <1>3, <2>1 DEF Finishing, HeldWereSent, Resend, workerVars
  <2>5. m \in CopiesOf(t)'
    BY <2>1 DEF CopiesOf
  <2> QED
    BY <2>3, <2>4, <2>5 DEF Tended
<1>4. ~ ResendFails(a)
  BY <1>1 DEF ResendFails
<1>5. Resend(a) \/ (apc'[a] = apc[a] /\ atask'[a] = atask[a])
  <2>1. ASSUME NEW b \in Admins,
               \/ \E u \in Tasks : LoadTask(b, u)
               \/ CancelTask(b) \/ RetryTask(b) \/ Resend(b) \/ ResendFails(b) \/ ApiSendMessage(b)
        PROVE  Resend(a) \/ (apc'[a] = apc[a] /\ atask'[a] = atask[a])
    <3>1. CASE b = a
      BY <1>1, <1>4, <2>1, <3>1 DEF LoadTask, CancelTask, RetryTask, ApiSendMessage
    <3>2. CASE b # a
      BY <2>1, <3>2
      DEF TypeOK, AdminDone, LoadTask, CancelTask, RetryTask, Resend, ResendFails, ApiSendMessage
    <3> QED
      BY <3>1, <3>2
  <2>2. UNCHANGED adminVars \/ AdminNext
    BY DEF Next, ProducerNext, QueueNext, WorkerNext, WorkerStep, vars, adminVars,
           SaveEntity, SendMessage, RecordTask, Commit, RequestFails, DeleteEntity,
           Receive, VisibilityTimeout, EarlyTimeout, Expire,
           ReadTask, GetObject, ObjectMissing, Handle, Complete, Ack, WorkerFails
  <2> QED
    BY <2>1, <2>2 DEF AdminNext, adminVars
<1> QED
  BY <1>2, <1>3, <1>5

LEMMA OwedStep == WaitInv /\ [Next]_vars => OwedIsTended'
<1> SUFFICES ASSUME WaitInv, [Next]_vars, NEW t \in Tasks,
                    t \notin untracked', t \notin expired', Owed(t)'
             PROVE  Tended(t)' \/ Resending(t)'
  BY DEF OwedIsTended
<1> TypeOK /\ SeenInv /\ HeldWereSent
  BY DEF WaitInv, SeenInv
<1>1. CASE Owed(t)
  <2>1. t \notin untracked /\ t \notin expired
    BY HistoryGrows, UntrackedGrows
  <2>2. Tended(t) \/ Resending(t)
    BY <1>1, <2>1 DEF WaitInv, OwedIsTended
  <2> QED
    BY <2>2, TendedStep, ResendingStep
<1>2. CASE SendMessage(t)
  <2> DEFINE m == <<t, 1>>
  <2>1. m \in Msgs /\ m \in CopiesOf(t)
    BY MsgFacts DEF CopiesOf
  <2>2. msg[m] = "unsent"
    BY <1>2, <2>1 DEF WaitInv, UnsentBefore, SendMessage
  <2>3. msg'[m] = "visible"
    BY <1>2, <2>1 DEF SendMessage, TypeOK
  <2>4. ~ Finishing(m)'
    BY <1>2, <2>2 DEF Finishing, HeldWereSent, SendMessage, workerVars
  <2>5. Live(m)' /\ m \in CopiesOf(t)'
    BY <2>1, <2>3 DEF Live, CopiesOf
  <2> QED
    BY <2>4, <2>5 DEF Tended
<1>3. ASSUME NEW a \in Admins, RetryTask(a), atask[a] = t PROVE Resending(t)'
  <2>1. apc'[a] = "resend" /\ atask'[a] = t
    BY <1>3 DEF RetryTask, TypeOK
  <2> QED
    BY <2>1 DEF Resending
<1> QED
  BY <1>1, <1>2, <1>3, OwedBefore

\* A row that waits has a message some worker will still look at, or a retry
\* about to send one (task.py, views/task.py, handlers/base.py), but for the
\* losses that untracked and expired record.
THEOREM WaitingRowsLive == Spec => []WaitingIsLive
<1>1. Init => WaitInv
  <2>1. Init => TypeOK
    BY TaskQueueAssumption DEF Init, TypeOK, WorkerPcs
  <2>2. Init => SeenInv
    BY <2>1 DEF Init, SeenInv, UnrecordedIsUnseen, UnreadIsEmpty
  <2> QED
    BY <2>2 DEF Init, WaitInv, HeldWereSent, UnsentBefore, OwedIsTended, Owed, Waiting, CopiesOf
<1>2. WaitInv /\ [Next]_vars => WaitInv'
  BY TypeStep, UnseenStep, UnreadStep, HeldStep, UnsentStep, OwedStep DEF WaitInv, SeenInv
<1>3. WaitInv => WaitingIsLive
  BY DEF WaitInv, OwedIsTended, WaitingIsLive, Owed, Waiting, Tended, HasLiveCopy, Resending
<1> QED
  BY <1>1, <1>2, <1>3, PTL DEF Spec

-----------------------------------------------------------------------------
(* The pipeline implements the promise *)

LEMMA FateIsFunction ==
  /\ fate = [t \in Tasks |-> fate[t]] /\ DOMAIN fate = Tasks
  /\ fate' = [t \in Tasks |-> fate'[t]] /\ DOMAIN fate' = Tasks
  BY DEF fate

\* What a task's fate depends on.
LEMMA FateOf ==
  ASSUME NEW t \in Tasks
  PROVE  /\ fate[t] = IF t \in handled THEN "done"
                      ELSE IF ~ Sent(t) THEN "unasked"
                      ELSE IF HasLiveCopy(t) THEN "pending" ELSE "givenUp"
         /\ fate'[t] = IF t \in handled' THEN "done"
                       ELSE IF ~ Sent(t)' THEN "unasked"
                       ELSE IF HasLiveCopy(t)' THEN "pending" ELSE "givenUp"
  BY DEF fate

LEMMA LiveIsSent ==
  ASSUME NEW t, HasLiveCopy(t)
  PROVE  Sent(t)
  BY DEF HasLiveCopy, Live, Sent

LEMMA SameFate ==
  ASSUME handled' = handled,
         \A m \in Msgs : /\ Live(m)' <=> Live(m)
                         /\ msg'[m] = "unsent" <=> msg[m] = "unsent"
  PROVE  fate' = fate
<1>1. ASSUME NEW t \in Tasks PROVE fate'[t] = fate[t]
  <2>1. CopiesOf(t)' = CopiesOf(t) /\ CopiesOf(t) \subseteq Msgs
    BY MsgFacts DEF CopiesOf, TaskOf
  <2>2. Sent(t)' <=> Sent(t)
    BY <2>1 DEF Sent
  <2>3. HasLiveCopy(t)' <=> HasLiveCopy(t)
    BY <2>1 DEF HasLiveCopy
  <2> QED
    BY <2>2, <2>3, FateOf
<1> QED
  BY <1>1, FateIsFunction

\* A step on one message moves no task's fate but its own.
LEMMA OneFate ==
  ASSUME TypeOK, handled' = handled, NEW m \in Msgs, NEW s, msg' = [msg EXCEPT ![m] = s]
  PROVE  fate' = [fate EXCEPT ![TaskOf(m)] = fate'[TaskOf(m)]]
<1>1. ASSUME NEW t \in Tasks, t # TaskOf(m) PROVE fate'[t] = fate[t]
  <2>1. CopiesOf(t)' = CopiesOf(t)
    BY DEF CopiesOf
  <2>2. \A n \in CopiesOf(t) : msg'[n] = msg[n]
    BY <1>1 DEF CopiesOf, TypeOK
  <2>3. (Sent(t)' <=> Sent(t)) /\ (HasLiveCopy(t)' <=> HasLiveCopy(t))
    BY <2>1, <2>2 DEF Sent, HasLiveCopy, Live
  <2> QED
    BY <1>1, <2>3, FateOf
<1> QED
  BY <1>1, FateIsFunction

\* A message that appears asks for its task, or asks again.
LEMMA FateOfAppearing ==
  ASSUME TypeOK, handled' = handled, UNCHANGED (cancelledOnce \cup expired),
         NEW m \in Msgs, msg' = [msg EXCEPT ![m] = "visible"]
  PROVE  \/ UNCHANGED fate
         \/ Abstract!Ask(TaskOf(m)) \/ Abstract!AskAgain(TaskOf(m))
<1> DEFINE t == TaskOf(m)
<1>1. t \in Tasks /\ m \in CopiesOf(t)'
  BY MsgFacts DEF CopiesOf
<1>2. HasLiveCopy(t)' /\ Sent(t)'
  BY <1>1 DEF HasLiveCopy, Live, Sent, TypeOK
<1>3. fate'[t] = IF t \in handled THEN "done" ELSE "pending"
  BY <1>1, <1>2, FateOf
<1>4. fate[t] = "done" <=> t \in handled
  BY <1>1, FateOf
<1>5. fate[t] \in {"done", "pending", "unasked", "givenUp"}
  BY <1>1, FateOf
<1>6. fate' = [fate EXCEPT ![t] = fate'[t]]
  BY OneFate
<1>7. CASE fate'[t] = fate[t]
  BY <1>1, <1>6, <1>7, FateIsFunction
<1>8. CASE fate'[t] = "pending" /\ fate[t] = "unasked"
  BY <1>6, <1>8 DEF Abstract!Ask
<1>9. CASE fate'[t] = "pending" /\ fate[t] = "givenUp"
  BY <1>6, <1>9 DEF Abstract!AskAgain
<1> QED
  BY <1>3, <1>4, <1>5, <1>7, <1>8, <1>9

\* A message that is used up leaves its task as it was, or gives it up.
LEMMA FateOfGoing ==
  ASSUME TypeOK, handled' = handled, NEW m \in Msgs, msg[m] # "unsent",
         msg' = [msg EXCEPT ![m] = "gone"]
  PROVE  LET t == TaskOf(m) IN
         \/ UNCHANGED fate
         \/ /\ fate[t] = "pending" /\ t \notin handled
            /\ fate' = [fate EXCEPT ![t] = "givenUp"]
<1> DEFINE t == TaskOf(m)
<1>1. t \in Tasks /\ m \in CopiesOf(t) /\ CopiesOf(t)' = CopiesOf(t) /\ CopiesOf(t) \subseteq Msgs
  BY MsgFacts DEF CopiesOf, TaskOf
<1>2. fate' = [fate EXCEPT ![t] = fate'[t]]
  BY OneFate
<1>3. Sent(t) /\ Sent(t)'
  BY <1>1 DEF Sent, TypeOK
<1>4. CASE msg[m] = "gone"
  BY <1>4, SameFate DEF Live, TypeOK
<1>5. CASE msg[m] # "gone"
  <2>1. HasLiveCopy(t)
    BY <1>1, <1>5 DEF HasLiveCopy, Live, TypeOK
  <2>2. \/ fate'[t] = fate[t]
        \/ fate[t] = "pending" /\ t \notin handled /\ fate'[t] = "givenUp"
    BY <1>1, <1>3, <2>1, FateOf
  <2>3. CASE fate'[t] = fate[t]
    BY <1>1, <1>2, <2>3, FateIsFunction
  <2> QED
    BY <1>2, <2>2, <2>3
<1> QED
  BY <1>4, <1>5

LEMMA FatesStep ==
  ASSUME IInv, HeldWereSent, [Next]_vars
  PROVE  [Abstract!PromiseNext]_Abstract!promiseVars
<1> DEFINE waived == cancelledOnce \cup expired
<1> SUFFICES \/ UNCHANGED <<fate, waived>>
             \/ Abstract!PromiseNext
  BY DEF Abstract!promiseVars
<1> TypeOK /\ WorkersHonest
  BY DEF IInv
<1>1. ASSUME UNCHANGED msg, UNCHANGED handled, UNCHANGED expired
      PROVE  UNCHANGED fate
  BY <1>1, SameFate DEF Live
<1>2. ASSUME NEW t \in Tasks, SendMessage(t)
      PROVE  UNCHANGED <<fate, waived>> \/ Abstract!PromiseNext
  <2> DEFINE m == <<t, 1>>
  <2>1. m \in Msgs /\ TaskOf(m) = t
    BY MsgFacts
  <2>2. /\ UNCHANGED waived /\ handled' = handled
        /\ msg' = [msg EXCEPT ![m] = "visible"]
    BY <1>2 DEF SendMessage, rowVars
  <2>3. UNCHANGED fate \/ Abstract!Ask(t) \/ Abstract!AskAgain(t)
    BY <2>1, <2>2, FateOfAppearing
  <2> QED
    BY <2>2, <2>3 DEF Abstract!PromiseNext
<1>3. ASSUME NEW a \in Admins, Resend(a)
      PROVE  UNCHANGED <<fate, waived>> \/ Abstract!PromiseNext
  <2>1. PICK m \in CopiesOf(atask[a]) : msg' = [msg EXCEPT ![m] = "visible"]
    BY <1>3 DEF Resend
  <2>2. m \in Msgs /\ TaskOf(m) \in Tasks
    BY <2>1, MsgFacts DEF CopiesOf
  <2>3. UNCHANGED waived /\ handled' = handled
    BY <1>3 DEF Resend, rowVars
  <2>4. UNCHANGED fate \/ Abstract!Ask(TaskOf(m)) \/ Abstract!AskAgain(TaskOf(m))
    BY <2>1, <2>2, <2>3, FateOfAppearing
  <2> QED
    BY <2>2, <2>3, <2>4 DEF Abstract!PromiseNext
<1>4. ASSUME NEW m \in Msgs,
             (\E w \in Workers : Receive(w, m)) \/ VisibilityTimeout(m) \/ EarlyTimeout(m)
      PROVE  UNCHANGED <<fate, waived>>
  <2>1. \E s \in {"visible", "inflight"} :
          msg[m] \in {"visible", "inflight"} /\ msg' = [msg EXCEPT ![m] = s]
    BY <1>4 DEF Receive, VisibilityTimeout, EarlyTimeout
  <2>2. UNCHANGED waived /\ handled' = handled
    BY <1>4 DEF Receive, VisibilityTimeout, EarlyTimeout, rowVars
  <2>3. \A n \in Msgs : /\ Live(n)' <=> Live(n)
                        /\ msg'[n] = "unsent" <=> msg[n] = "unsent"
    BY <2>1 DEF Live, TypeOK
  <2> QED
    BY <2>2, <2>3, SameFate
<1>5. ASSUME NEW m \in Msgs, Expire(m) PROVE Abstract!PromiseNext
  <2> DEFINE t == TaskOf(m)
  <2>1. /\ msg[m] # "unsent" /\ msg' = [msg EXCEPT ![m] = "gone"]
        /\ handled' = handled /\ waived' = waived \cup {t} /\ t \in Tasks
    BY <1>5, MsgFacts DEF Expire, rowVars
  <2>2. CASE UNCHANGED fate
    <3>1. Abstract!Waive(t)
      BY <2>1, <2>2 DEF Abstract!Waive
    <3> QED
      BY <2>1, <3>1 DEF Abstract!PromiseNext
  <2>3. CASE fate[t] = "pending" /\ fate' = [fate EXCEPT ![t] = "givenUp"]
    <3>1. Abstract!GiveUp(t)
      BY <2>1, <2>3 DEF Abstract!GiveUp
    <3> QED
      BY <2>1, <3>1 DEF Abstract!PromiseNext
  <2> QED
    BY <2>1, <2>2, <2>3, FateOfGoing
<1>6. ASSUME NEW w \in Workers, Handle(w)
      PROVE  UNCHANGED <<fate, waived>> \/ Abstract!PromiseNext
  <2> DEFINE m == wmsg[w]
             t == TaskOf(wmsg[w])
  <2>1. /\ m \in Msgs /\ t \in Tasks /\ msg[m] # "unsent"
        /\ handled' = handled \cup {t} /\ UNCHANGED <<msg, waived>>
    BY <1>6, MsgFacts DEF Handle, HeldWereSent, TypeOK, rowVars
  <2>2. CASE t \in handled
    BY <1>1, <1>6, <2>1, <2>2 DEF Handle
  <2>3. CASE t \notin handled
    <3>1. Sent(t)
      BY <2>1 DEF Sent, CopiesOf
    <3>2. fate[t] \in {"pending", "givenUp"} /\ fate'[t] = "done"
      BY <2>1, <2>3, <3>1, FateOf
    <3>3. ASSUME NEW u \in Tasks, u # t PROVE fate'[u] = fate[u]
      <4>1. (Sent(u)' <=> Sent(u)) /\ (HasLiveCopy(u)' <=> HasLiveCopy(u))
        BY <2>1 DEF Sent, HasLiveCopy, Live, CopiesOf
      <4> QED
        BY <2>1, <3>3, <4>1, FateOf
    <3>4. fate' = [fate EXCEPT ![t] = "done"]
      BY <3>2, <3>3, FateIsFunction
    <3>5. Abstract!Do(t)
      BY <2>1, <3>2, <3>4 DEF Abstract!Do
    <3> QED
      BY <2>1, <3>5 DEF Abstract!PromiseNext
  <2> QED
    BY <2>2, <2>3
<1>7. ASSUME NEW w \in Workers, Ack(w)
      PROVE  UNCHANGED <<fate, waived>> \/ Abstract!PromiseNext
  <2> DEFINE m == wmsg[w]
             t == TaskOf(wmsg[w])
  <2>1. /\ m \in Msgs /\ t \in Tasks /\ msg[m] # "unsent"
        /\ handled' = handled /\ UNCHANGED waived /\ UNCHANGED expired
        /\ t \in handled \cup waived
    BY <1>7, MsgFacts DEF Ack, HeldWereSent, TypeOK, rowVars, WorkersHonest
  <2>2. CASE UNCHANGED msg
    BY <1>1, <2>1, <2>2
  <2>3. CASE msg' = [msg EXCEPT ![m] = "gone"]
    <3>1. \/ UNCHANGED fate
          \/ /\ fate[t] = "pending" /\ t \notin handled
             /\ fate' = [fate EXCEPT ![t] = "givenUp"]
      BY <2>1, <2>3, FateOfGoing
    <3>2. CASE /\ fate[t] = "pending" /\ t \notin handled
               /\ fate' = [fate EXCEPT ![t] = "givenUp"]
      <4>1. Abstract!GiveUp(t)
        BY <2>1, <3>2 DEF Abstract!GiveUp
      <4> QED
        BY <2>1, <4>1 DEF Abstract!PromiseNext
    <3> QED
      BY <2>1, <3>1, <3>2
  <2> QED
    BY <1>7, <2>2, <2>3 DEF Ack
<1>8. ASSUME NEW a \in Admins, CancelTask(a) PROVE Abstract!PromiseNext
  <2>1. UNCHANGED fate
    BY <1>1, <1>8 DEF CancelTask
  <2>2. atask[a] \in Tasks /\ waived' = waived \cup {atask[a]}
    BY <1>8 DEF CancelTask, TypeOK
  <2>3. Abstract!Waive(atask[a])
    BY <2>1, <2>2 DEF Abstract!Waive
  <2> QED
    BY <2>2, <2>3 DEF Abstract!PromiseNext
<1>9. ASSUME UNCHANGED <<msg, handled, cancelledOnce, expired>>
      PROVE  UNCHANGED <<fate, waived>>
  BY <1>1, <1>9
<1>10. \/ UNCHANGED <<msg, handled, cancelledOnce, expired>>
       \/ \E t \in Tasks : SendMessage(t)
       \/ \E m \in Msgs : \/ \E w \in Workers : Receive(w, m)
                          \/ VisibilityTimeout(m) \/ EarlyTimeout(m) \/ Expire(m)
       \/ \E w \in Workers : Handle(w) \/ Ack(w)
       \/ \E a \in Admins : CancelTask(a) \/ Resend(a)
  BY DEF Next, ProducerNext, QueueNext, WorkerNext, WorkerStep, AdminNext, vars, rowVars,
         SaveEntity, RecordTask, Commit, RequestFails, DeleteEntity,
         ReadTask, GetObject, ObjectMissing, Complete, WorkerFails,
         LoadTask, RetryTask, ResendFails, ApiSendMessage
<1> QED
  BY <1>2, <1>3, <1>4, <1>5, <1>6, <1>7, <1>8, <1>9, <1>10

\* The pipeline implements the at-least-once task: whatever its rows, messages
\* and workers do, a task is given up only once it was cancelled or retention
\* took a message of it.
THEOREM PromiseKept == Spec => Promised
<1>1. Init => Abstract!PromiseInit
  <2>1. Init => fate = [t \in Tasks |-> "unasked"]
    BY DEF Init, fate, Sent, CopiesOf
  <2> QED
    BY <2>1 DEF Init, Abstract!PromiseInit
<1>2. Init => HeldWereSent
  BY DEF Init, HeldWereSent
<1>3. IInv /\ HeldWereSent /\ [Next]_vars => HeldWereSent'
  BY HeldStep DEF IInv
<1>4. IInv /\ HeldWereSent /\ [Next]_vars => [Abstract!PromiseNext]_Abstract!promiseVars
  BY FatesStep
<1> QED
  BY <1>1, <1>2, <1>3, <1>4, Invariance, PTL DEF Spec, Promised, Abstract!Promise
=============================================================================
