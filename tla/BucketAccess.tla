---------------------------- MODULE BucketAccess ----------------------------
(***************************************************************************)
(* Access to data sources: rows of UserS3Bucket and AppS3Bucket in the     *)
(* database, the grant and revoke messages that saving and deleting them   *)
(* send, and the inline policy "s3-access" of each role, which workers     *)
(* read, change and put back whole.                                        *)
(*                                                                         *)
(* A level stands for what a row grants (access level and paths); a policy *)
(* is what it grants per bucket.  Message transport is that of TaskQueue,  *)
(* reduced to: any order, at least once, again on demand.                  *)
(***************************************************************************)
EXTENDS Naturals, FiniteSets

CONSTANTS
  Principals,   \* users and apps, each with one IAM role
  Buckets,
  Levels,       \* what a row may grant
  NoLevel,      \* no row, or nothing granted
  Ids,          \* primary keys, never used twice
  KeyOf,        \* KeyOf[i]: the <<principal, bucket>> of the row with key i
  Requests,     \* web requests
  Workers,      \* Celery workers on the IAM and S3 queues
  NoItem,       \* a request or a worker holds nothing
  Deletable,    \* principals that may be deleted
  MaxCopies,    \* bound: copies of one message that requests leave queued
  MaxFaults     \* bound: failures, redeliveries, resends

Keys == Principals \X Buckets
Grant(i) == <<"grant", i>>
Revoke(k) == <<"revoke", k>>
RevokeAll(b) == <<"revokeAll", b>>
Msgs == {Grant(i) : i \in Ids} \cup {Revoke(k) : k \in Keys} \cup {RevokeAll(b) : b \in Buckets}

ASSUME BucketAccessAssumption ==
  /\ KeyOf \in [Ids -> Keys]
  /\ NoLevel \notin Levels
  /\ NoItem \notin Ids \cup Buckets \cup Principals \cup Msgs
  /\ IsFiniteSet(Workers)
  /\ Deletable \subseteq Principals
  /\ MaxCopies \in Nat \ {0}
  /\ MaxFaults \in Nat

VARIABLES
  level,     \* the table: what row i grants, NoLevel if there is no row
  used,      \* primary keys handed out
  retired,   \* buckets marked is_deleted
  present,   \* principals in the database
  roles,     \* principals whose IAM role exists
  policy,    \* what the role's inline policy grants
  undone,    \* history: entries a put took back that others had put meanwhile
  queue,     \* copies of each message not yet acknowledged
  rpc, ritem,                  \* each request: control point, row or bucket
  wpc, wmsg, wlevel, wpolicy,  \* each worker: ... row level, document it read
  overtaken, \* history: entries others put since a worker read row or document
  faults,
  asked,     \* history: levels ever saved for each key
  sent,      \* history: messages ever sent
  broken     \* history: rows saved by a request that died before sending

tableVars == <<level, used, asked>>
requestVars == <<rpc, ritem>>
policyVars == <<policy, undone>>
workerVars == <<wpc, wmsg, wlevel, wpolicy, overtaken>>
vars == <<level, used, retired, present, roles, policy, undone, queue, rpc, ritem,
          wpc, wmsg, wlevel, wpolicy, overtaken, faults, asked, sent, broken>>

Access == Levels \cup {NoLevel}
RequestPcs == {"idle", "saved", "loaded", "revoked", "retired", "roleless"}
WorkerPcs == {"idle", "taken", "read", "write", "ack"}

TypeOK ==
  /\ level \in [Ids -> Access]
  /\ used \subseteq Ids
  /\ retired \subseteq Buckets
  /\ present \subseteq Principals
  /\ roles \subseteq Principals
  /\ policy \in [Keys -> Access]
  /\ undone \subseteq Keys
  /\ queue \in [Msgs -> Nat]
  /\ rpc \in [Requests -> RequestPcs]
  /\ ritem \in [Requests -> Ids \cup Buckets \cup Principals \cup {NoItem}]
  /\ \A q \in Requests : /\ rpc[q] \in {"saved", "loaded", "revoked"} => ritem[q] \in Ids
                         /\ rpc[q] = "retired" => ritem[q] \in Buckets
                         /\ rpc[q] = "roleless" => ritem[q] \in Principals
  /\ wpc \in [Workers -> WorkerPcs]
  /\ wmsg \in [Workers -> Msgs \cup {NoItem}]
  /\ \A w \in Workers : wmsg[w] \in Msgs <=> wpc[w] # "idle"
  /\ wlevel \in [Workers -> Access]
  /\ wpolicy \in [Workers -> [Buckets -> Access]]
  /\ overtaken \in [Workers -> SUBSET Keys]
  /\ faults \in 0 .. MaxFaults
  /\ asked \in [Keys -> SUBSET Levels]
  /\ sent \subseteq Msgs
  /\ broken \subseteq Ids

Empty == [b \in Buckets |-> NoLevel]

Init ==
  /\ level = [i \in Ids |-> NoLevel]
  /\ used = {}
  /\ retired = {}
  /\ present = Principals
  /\ roles = Principals
  /\ policy = [k \in Keys |-> NoLevel]
  /\ undone = {}
  /\ queue = [m \in Msgs |-> 0]
  /\ rpc = [q \in Requests |-> "idle"]
  /\ ritem = [q \in Requests |-> NoItem]
  /\ wpc = [w \in Workers |-> "idle"]
  /\ wmsg = [w \in Workers |-> NoItem]
  /\ wlevel = [w \in Workers |-> NoLevel]
  /\ wpolicy = [w \in Workers |-> Empty]
  /\ overtaken = [w \in Workers |-> {}]
  /\ faults = 0
  /\ asked = [k \in Keys |-> {}]
  /\ sent = {}
  /\ broken = {}

-----------------------------------------------------------------------------
(* Requests *)

RowsOf(p) == {i \in Ids : KeyOf[i][1] = p /\ level[i] # NoLevel}
RowsIn(b) == {i \in Ids : KeyOf[i][2] = b /\ level[i] # NoLevel}

Send(M) ==
  /\ queue' = [m \in Msgs |-> IF m \in M THEN queue[m] + 1 ELSE queue[m]]
  /\ sent' = sent \cup M

HasRoom(m) == queue[m] < MaxCopies

Go(q, pc, item) ==
  /\ rpc' = [rpc EXCEPT ![q] = pc]
  /\ ritem' = [ritem EXCEPT ![q] = item]

\* unique_together: at most one row per principal and bucket.
MayInsert(i) ==
  /\ KeyOf[i][1] \in present
  /\ \A j \in Ids \ {i} : KeyOf[j] = KeyOf[i] => level[j] = NoLevel

StoreRow(i, l) ==
  /\ level' = [level EXCEPT ![i] = l]
  /\ used' = used \cup {i}
  /\ asked' = [asked EXCEPT ![KeyOf[i]] = @ \cup {l}]

\* Nothing here looks at is_deleted of the bucket.
CreateRow(q, i, l) ==
  /\ rpc[q] = "idle"
  /\ i \notin used
  /\ MayInsert(i)
  /\ StoreRow(i, l)
  /\ Go(q, "saved", i)
  /\ UNCHANGED <<retired, present, roles, policyVars, queue, workerVars, faults, sent, broken>>

LoadRow(q, i) ==
  /\ rpc[q] = "idle"
  /\ level[i] # NoLevel
  /\ Go(q, "loaded", i)
  /\ UNCHANGED <<tableVars, retired, present, roles, policyVars, queue, workerVars, faults, sent, broken>>

\* Mutant: the edit updates the table and sends nothing.
SaveEditSilently(q, l) ==
  LET i == ritem[q] IN
  /\ rpc[q] = "loaded"
  /\ IF level[i] # NoLevel \/ MayInsert(i) THEN StoreRow(i, l) ELSE UNCHANGED tableVars
  /\ Go(q, "idle", NoItem)
  /\ UNCHANGED <<retired, present, roles, policyVars, queue, workerVars, faults, sent, broken>>

\* save() of a loaded row: an UPDATE, or an INSERT if the row has gone since.
SaveEdit(q, l) ==
  LET i == ritem[q] IN
  /\ rpc[q] = "loaded"
  /\ IF level[i] # NoLevel \/ MayInsert(i)
     THEN StoreRow(i, l) /\ Go(q, "saved", i)
     ELSE Go(q, "idle", NoItem) /\ UNCHANGED tableVars
  /\ UNCHANGED <<retired, present, roles, policyVars, queue, workerVars, faults, sent, broken>>

SendGrant(q) ==
  /\ rpc[q] = "saved"
  /\ HasRoom(Grant(ritem[q]))
  /\ Send({Grant(ritem[q])})
  /\ Go(q, "idle", NoItem)
  /\ UNCHANGED <<tableVars, retired, present, roles, policyVars, workerVars, faults, broken>>

\* delete(): the revocation is sent first ...
SendRevoke(q) ==
  LET k == KeyOf[ritem[q]] IN
  /\ rpc[q] = "loaded"
  /\ HasRoom(Revoke(k))
  /\ Send({Revoke(k)})
  /\ Go(q, "revoked", ritem[q])
  /\ UNCHANGED <<tableVars, retired, present, roles, policyVars, workerVars, faults, broken>>

\* ... and then the row is removed.
RemoveRow(q) ==
  /\ rpc[q] = "revoked"
  /\ level' = [level EXCEPT ![ritem[q]] = NoLevel]
  /\ Go(q, "idle", NoItem)
  /\ UNCHANGED <<used, asked, retired, present, roles, policyVars, queue, workerVars, faults, sent, broken>>

\* soft_delete(): the page offers it for buckets not deleted yet.
Retire(q, b) ==
  /\ rpc[q] = "idle"
  /\ b \notin retired
  /\ retired' = retired \cup {b}
  /\ Go(q, "retired", b)
  /\ UNCHANGED <<tableVars, present, roles, policyVars, queue, workerVars, faults, sent, broken>>

SendRevokeAll(q) ==
  /\ rpc[q] = "retired"
  /\ Send({RevokeAll(ritem[q])})
  /\ Go(q, "idle", NoItem)
  /\ UNCHANGED <<tableVars, retired, present, roles, policyVars, workerVars, faults, broken>>

\* User.delete() and App.delete(): the role goes first, with its policies ...
DeleteRole(q, p) ==
  /\ rpc[q] = "idle"
  /\ p \in Deletable \cap roles
  /\ roles' = roles \ {p}
  /\ policy' = [k \in Keys |-> IF k[1] = p THEN NoLevel ELSE policy[k]]
  /\ Go(q, "roleless", p)
  /\ UNCHANGED <<tableVars, retired, present, undone, queue, workerVars, faults, sent, broken>>

\* ... then the principal and, by cascade, its rows, each revoked by pre_delete.
DeletePrincipal(q) ==
  LET p == ritem[q] IN
  /\ rpc[q] = "roleless"
  /\ present' = present \ {p}
  /\ Send({Revoke(KeyOf[i]) : i \in RowsOf(p)})
  /\ level' = [i \in Ids |-> IF KeyOf[i][1] = p THEN NoLevel ELSE level[i]]
  /\ Go(q, "idle", NoItem)
  /\ UNCHANGED <<used, asked, retired, roles, policyVars, workerVars, faults, broken>>

\* A request dies between the database and the queue, or the other way round.
RequestFails(q) ==
  /\ rpc[q] # "idle"
  /\ faults < MaxFaults
  /\ faults' = faults + 1
  /\ broken' = IF rpc[q] = "saved" THEN broken \cup {ritem[q]} ELSE broken
  /\ Go(q, "idle", NoItem)
  /\ UNCHANGED <<tableVars, retired, present, roles, policyVars, queue, workerVars, sent>>

-----------------------------------------------------------------------------
(* Delivery *)

Holders(m) == {w \in Workers : wmsg[w] = m}

Take(w, m) ==
  /\ wpc[w] = "idle"
  /\ queue[m] > Cardinality(Holders(m))
  /\ wpc' = [wpc EXCEPT ![w] = "taken"]
  /\ wmsg' = [wmsg EXCEPT ![w] = m]
  /\ UNCHANGED <<tableVars, retired, present, roles, policyVars, queue, requestVars,
                 wlevel, wpolicy, overtaken, faults, sent, broken>>

\* SQS delivers a message twice, or an administrator sends a task again.
Resend(m) ==
  /\ m \in sent
  /\ faults < MaxFaults
  /\ faults' = faults + 1
  /\ Send({m})
  /\ UNCHANGED <<tableVars, retired, present, roles, policyVars, requestVars, workerVars, broken>>

-----------------------------------------------------------------------------
(* Workers *)

KeyFor(m) == IF m[1] = "grant" THEN KeyOf[m[2]] ELSE m[2]

Idle(w) ==
  /\ wpc' = [wpc EXCEPT ![w] = "idle"]
  /\ wmsg' = [wmsg EXCEPT ![w] = NoItem]
  /\ wlevel' = [wlevel EXCEPT ![w] = NoLevel]
  /\ wpolicy' = [wpolicy EXCEPT ![w] = Empty]
  /\ overtaken' = [overtaken EXCEPT ![w] = {}]

WGo(w, pc) == wpc' = [wpc EXCEPT ![w] = pc]

\* A grant reads the row as it is now; without one it raises, and the message
\* stays in the queue.
GetRow(w) ==
  LET i == wmsg[w][2] IN
  /\ wpc[w] = "taken"
  /\ wmsg[w][1] = "grant"
  /\ IF level[i] = NoLevel
     THEN Idle(w)
     ELSE /\ wlevel' = [wlevel EXCEPT ![w] = level[i]]
          /\ WGo(w, "read")
          /\ UNCHANGED <<wmsg, wpolicy, overtaken>>
  /\ UNCHANGED <<tableVars, retired, present, roles, policyVars, queue, requestVars, faults, sent, broken>>

\* A revocation needs no row; without the principal it is complete at once.
StartRevoke(w) ==
  /\ wpc[w] = "taken"
  /\ wmsg[w][1] = "revoke"
  /\ WGo(w, IF wmsg[w][2][1] \in present THEN "read" ELSE "ack")
  /\ UNCHANGED <<tableVars, retired, present, roles, policyVars, queue, requestVars,
                 wmsg, wlevel, wpolicy, overtaken, faults, sent, broken>>

\* Without a role a revocation is done and a grant raises.
ReadPolicy(w) ==
  LET p == KeyFor(wmsg[w])[1] IN
  /\ wpc[w] = "read"
  /\ \/ /\ p \in roles
        /\ wpolicy' = [wpolicy EXCEPT ![w] = [b \in Buckets |-> policy[<<p, b>>]]]
        /\ overtaken' = [overtaken EXCEPT ![w] = @ \cap {KeyFor(wmsg[w])}]
        /\ WGo(w, "write")
        /\ UNCHANGED <<wmsg, wlevel>>
     \/ /\ p \notin roles
        /\ wmsg[w][1] = "revoke"
        /\ WGo(w, "ack")
        /\ UNCHANGED <<wmsg, wlevel, wpolicy, overtaken>>
     \/ /\ p \notin roles
        /\ wmsg[w][1] = "grant"
        /\ Idle(w)
  /\ UNCHANGED <<tableVars, retired, present, roles, policyVars, queue, requestVars, faults, sent, broken>>

MidTurn(w) == wpc[w] \in {"read", "write"}
SameRole(v, w) == KeyFor(wmsg[v])[1] = KeyFor(wmsg[w])[1]

\* What a put by w does to the histories: to the workers that read before it, the
\* entries it put are news; an entry it changes that was news to w is undone.
Overtakes(w) ==
  LET k == KeyFor(wmsg[w])
      changed == {j \in Keys : policy'[j] # policy[j]}
  IN
  /\ overtaken' = [v \in Workers |-> IF v = w THEN {}
                                     ELSE IF MidTurn(v) /\ SameRole(v, w)
                                     THEN overtaken[v] \cup changed \cup {k}
                                     ELSE overtaken[v]]
  /\ undone' = {j \in Keys : IF j \in overtaken[w] THEN j \in undone \cup changed
                                                  ELSE j \in undone \ {k}}

\* Mutant: the document is built from the empty one, not from the one read.
WritePolicyFromBase(w) ==
  LET k == KeyFor(wmsg[w]) IN
  /\ wpc[w] = "write"
  /\ k[1] \in roles
  /\ policy' = [j \in Keys |-> IF j[1] # k[1] THEN policy[j]
                               ELSE IF j = k THEN wlevel[w] ELSE NoLevel]
  /\ Overtakes(w)
  /\ WGo(w, "ack")
  /\ UNCHANGED <<tableVars, retired, present, roles, queue, requestVars,
                 wmsg, wlevel, wpolicy, faults, sent, broken>>

\* Mutant: the entry replaced is that of any bucket of the role.
WritePolicyWrongBucket(w) ==
  LET k == KeyFor(wmsg[w]) IN
  /\ wpc[w] = "write"
  /\ k[1] \in roles
  /\ \E b \in Buckets : policy' = [policy EXCEPT ![<<k[1], b>>] = wlevel[w]]
  /\ Overtakes(w)
  /\ WGo(w, "ack")
  /\ UNCHANGED <<tableVars, retired, present, roles, queue, requestVars,
                 wmsg, wlevel, wpolicy, faults, sent, broken>>

\* The whole document goes back, with the entry of this bucket replaced.  A
\* put to a role deleted meanwhile raises.
WritePolicy(w) ==
  LET k == KeyFor(wmsg[w])
      new == [wpolicy[w] EXCEPT ![k[2]] = wlevel[w]]
  IN
  /\ wpc[w] = "write"
  /\ IF k[1] \in roles
     THEN /\ policy' = [j \in Keys |-> IF j[1] = k[1] THEN new[j[2]] ELSE policy[j]]
          /\ Overtakes(w)
          /\ WGo(w, "ack")
          /\ UNCHANGED <<wmsg, wlevel, wpolicy>>
     ELSE Idle(w) /\ UNCHANGED policyVars
  /\ UNCHANGED <<tableVars, retired, present, roles, queue, requestVars, faults, sent, broken>>

\* One revocation per row of the bucket; the rows stay.
FanOut(w) ==
  /\ wpc[w] = "taken"
  /\ wmsg[w][1] = "revokeAll"
  /\ Send({Revoke(KeyOf[i]) : i \in RowsIn(wmsg[w][2])})
  /\ WGo(w, "ack")
  /\ UNCHANGED <<tableVars, retired, present, roles, policyVars, requestVars,
                 wmsg, wlevel, wpolicy, overtaken, faults, broken>>

\* Sending stops half-way; the message comes back and all are sent again.
FanOutFails(w) ==
  /\ wpc[w] = "taken"
  /\ wmsg[w][1] = "revokeAll"
  /\ faults < MaxFaults
  /\ faults' = faults + 1
  /\ \E I \in SUBSET RowsIn(wmsg[w][2]) : Send({Revoke(KeyOf[i]) : i \in I})
  /\ Idle(w)
  /\ UNCHANGED <<tableVars, retired, present, roles, policyVars, requestVars, broken>>

Ack(w) ==
  /\ wpc[w] = "ack"
  /\ queue' = [queue EXCEPT ![wmsg[w]] = @ - 1]
  /\ Idle(w)
  /\ UNCHANGED <<tableVars, retired, present, roles, policyVars, requestVars, faults, sent, broken>>

\* Mutant: failures are acknowledged, as with acks_on_failure_or_timeout on.
WorkerFailsAcks(w) ==
  /\ wpc[w] # "idle"
  /\ faults < MaxFaults
  /\ faults' = faults + 1
  /\ queue' = [queue EXCEPT ![wmsg[w]] = @ - 1]
  /\ Idle(w)
  /\ UNCHANGED <<tableVars, retired, present, roles, policyVars, requestVars, sent, broken>>

\* The worker raises or dies; what it did not acknowledge stays queued.
WorkerFails(w) ==
  /\ wpc[w] # "idle"
  /\ faults < MaxFaults
  /\ faults' = faults + 1
  /\ Idle(w)
  /\ UNCHANGED <<tableVars, retired, present, roles, policyVars, queue, requestVars, sent, broken>>

WorkerStep(w) ==
  \/ GetRow(w) \/ StartRevoke(w) \/ ReadPolicy(w) \/ WritePolicy(w)
  \/ FanOut(w) \/ Ack(w)

-----------------------------------------------------------------------------
RequestNext ==
  \E q \in Requests :
    \/ \E i \in Ids, l \in Levels : CreateRow(q, i, l)
    \/ \E i \in Ids : LoadRow(q, i)
    \/ \E l \in Levels : SaveEdit(q, l)
    \/ SendGrant(q) \/ SendRevoke(q) \/ RemoveRow(q)
    \/ \E b \in Buckets : Retire(q, b)
    \/ SendRevokeAll(q)
    \/ \E p \in Principals : DeleteRole(q, p)
    \/ DeletePrincipal(q) \/ RequestFails(q)

WorkerNext ==
  \E w \in Workers :
    \/ \E m \in Msgs : Take(w, m)
    \/ WorkerStep(w) \/ FanOutFails(w) \/ WorkerFails(w)

Next == RequestNext \/ WorkerNext \/ \E m \in Msgs : Resend(m)

Spec == Init /\ [][Next]_vars

\* As in TaskQueue: every queued message is taken again and again, workers go on.
FairSpec ==
  /\ Spec
  /\ \A m \in Msgs : SF_vars(\E w \in Workers : Take(w, m))
  /\ \A w \in Workers : WF_vars(WorkerStep(w))

-----------------------------------------------------------------------------
(* Properties *)

\* No message is acknowledged more often than it was delivered, however many
\* workers hold copies of it: what a worker holds is still queued.
HeldIsQueued == \A m \in Msgs : Cardinality(Holders(m)) <= queue[m]

\* A policy grants only what some row of that principal and bucket once said,
\* although every worker puts back a document it read for another bucket.
Provenance == \A k \in Keys : policy[k] # NoLevel => policy[k] \in asked[k]

\* No grant of row i is queued, being handled, or about to be sent.
Settled(i) ==
  /\ queue[Grant(i)] = 0
  /\ \A q \in Requests : rpc[q] = "saved" => ritem[q] # i

\* A row that was saved, edited any number of times and never revoked is in
\* the policy as it is in the table once its messages are handled, whatever
\* their order, however often they were delivered and whichever workers handled
\* them, unless the last put of its entry took back what another worker had put
\* since that one read (AWSRole.grant_bucket_access).
GrantsConverge ==
  \A i \in Ids \ broken :
    /\ level[i] # NoLevel /\ Settled(i) /\ Revoke(KeyOf[i]) \notin sent
    /\ KeyOf[i][1] \in roles /\ KeyOf[i] \notin undone
    => policy[KeyOf[i]] = level[i]

\* Handling a message about one bucket leaves the other buckets of the role
\* alone (tests/api/test_aws.py: "make sure that the policy has not been
\* overwritten, and contains both folders"): the put of a whole document loses
\* no entry but those another worker put between its reading and its put.
OnlyItsBucket ==
  [][\A k \in Keys :
       policy'[k] # policy[k] =>
         \/ k[1] \notin roles'
         \/ \E w \in Workers : /\ wpc[w] = "write" /\ wpc'[w] = "ack"
                              /\ k \in overtaken[w] \cup {KeyFor(wmsg[w])}]_vars

\* A copy of m has not taken effect yet: not all are only to be acknowledged.
Due(m) == queue[m] > Cardinality({w \in Holders(m) : wpc[w] = "ack"})

\* A revocation that was sent takes effect at some time; and deleting a bucket
\* revokes every row of it that is not being revoked already, even if sending the
\* revocations fails half-way (S3BucketRevokeAllAccess), and while other workers
\* put grants of the same row.
RevocationsLand ==
  /\ \A k \in Keys : Due(Revoke(k)) ~> policy[k] = NoLevel
  /\ \A i \in Ids :
       Due(RevokeAll(KeyOf[i][2])) /\ level[i] # NoLevel /\ Revoke(KeyOf[i]) \notin sent
         ~> policy[KeyOf[i]] = NoLevel

Quiet(k) ==
  /\ \A w \in Workers : wpc[w] = "idle"
  /\ \A q \in Requests : rpc[q] = "idle"
  /\ queue[Revoke(k)] = 0
  /\ queue[RevokeAll(k[2])] = 0
  /\ \A i \in Ids : KeyOf[i] = k /\ level[i] # NoLevel => queue[Grant(i)] = 0

\* The page says "Successfully revoked access" once the row is gone
\* (views/datasource.py, RevokeAccess): nothing is granted without a row.
RevokedIsRevoked ==
  \A k \in Keys :
    Quiet(k) /\ (\A i \in Ids : KeyOf[i] = k => level[i] = NoLevel) => policy[k] = NoLevel

\* The page of a deleted bucket says "All access listed below has been revoked
\* in IAM." (jinja2/datasource-detail.html).
RetiredIsRevoked ==
  \A k \in Keys : Quiet(k) /\ k[2] \in retired => policy[k] = NoLevel
=============================================================================
