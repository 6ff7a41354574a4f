------------------------- MODULE BucketAccessProofs -------------------------
(***************************************************************************)
(* For every set of principals, buckets, rows, requests and workers:       *)
(* every variable of BucketAccess keeps its type, no message is            *)
(* acknowledged more often than it was delivered, a policy grants only     *)
(* what was once asked for that principal and bucket, a put of a whole     *)
(* document loses no entry but those put since it was read, and entries    *)
(* not lost that way end up as the rows say.                               *)
(*                                                                         *)
(* Requests, deliveries and workers touch different variables; the lemmas  *)
(* below say who changes what, so that each conjunct of the invariant is   *)
(* looked at under the few actions that can disturb it.                    *)
(***************************************************************************)
EXTENDS BucketAccess, FiniteSetTheorems, TLAPS

RowsAsked == \A i \in Ids : level[i] # NoLevel => level[i] \in asked[KeyOf[i]]

\* What a worker is about to put: the level of the row it read, and the
\* document it read, both made of levels asked for.
WorkersAsked ==
  \A w \in Workers :
    /\ wpc[w] \in {"idle", "taken"} => wlevel[w] = NoLevel
    /\ wpc[w] \in {"read", "write"} =>
         /\ KeyFor(wmsg[w]) \in Keys
         /\ wlevel[w] # NoLevel => wlevel[w] \in asked[KeyFor(wmsg[w])]
    /\ wpc[w] = "write" =>
         \A b \in Buckets : wpolicy[w][b] # NoLevel
                              => wpolicy[w][b] \in asked[<<KeyFor(wmsg[w])[1], b>>]

AskedInv == RowsAsked /\ WorkersAsked /\ Provenance

\* Only grants and revocations get as far as a policy.
KindsApart == \A w \in Workers : MidTurn(w) => wmsg[w][1] \in {"grant", "revoke"}

QueueInv == TypeOK /\ HeldIsQueued /\ KindsApart
IInv == QueueInv /\ AskedInv

-----------------------------------------------------------------------------
(* Facts about the data *)

LEMMA MsgFacts ==
  /\ \A i \in Ids : Grant(i) \in Msgs /\ KeyOf[i] \in Keys
  /\ \A k \in Keys : Revoke(k) \in Msgs
  /\ \A b \in Buckets : RevokeAll(b) \in Msgs
  /\ NoItem \notin Msgs
  /\ \A m \in Msgs : /\ m[1] = "grant" => m[2] \in Ids
                     /\ m[1] = "revoke" => m[2] \in Keys
                     /\ m[1] = "revokeAll" => m[2] \in Buckets
                     /\ m[1] \in {"grant", "revoke"} => KeyFor(m) \in Keys
  BY BucketAccessAssumption DEF Msgs, Grant, Revoke, RevokeAll, KeyFor

LEMMA KeyFacts ==
  \A k \in Keys : k[1] \in Principals /\ k[2] \in Buckets /\ k = <<k[1], k[2]>>
  BY DEF Keys

LEMMA AccessFacts == NoLevel \notin Levels /\ NoLevel \in Access /\ Empty \in [Buckets -> Access]
  BY BucketAccessAssumption DEF Access, Empty

-----------------------------------------------------------------------------
(* Who changes what *)

LEMMA WorkerChanges ==
  ASSUME [Next]_vars
  PROVE  \/ UNCHANGED workerVars
         \/ \E w \in Workers : WorkerStep(w) \/ FanOutFails(w) \/ WorkerFails(w) \/ \E m \in Msgs : Take(w, m)
  BY DEF Next, RequestNext, WorkerNext, vars, workerVars,
         CreateRow, LoadRow, SaveEdit, SendGrant, SendRevoke, RemoveRow, Retire,
         SendRevokeAll, DeleteRole, DeletePrincipal, RequestFails, Resend

-----------------------------------------------------------------------------
(* Types, and the queue *)

LEMMA HolderFacts ==
  \A m : /\ IsFiniteSet(Holders(m))
         /\ Cardinality(Holders(m)) \in Nat
         /\ \A w \in Workers : wmsg[w] = m => Cardinality(Holders(m)) > 0
<1> TAKE m
<1>1. IsFiniteSet(Holders(m))
  BY BucketAccessAssumption, FS_Subset DEF Holders
<1>2. Cardinality(Holders(m)) \in Nat
  BY <1>1, FS_CardinalityType
<1>3. ASSUME NEW w \in Workers, wmsg[w] = m PROVE Cardinality(Holders(m)) > 0
  BY <1>1, <1>2, <1>3, FS_EmptySet DEF Holders
<1> QED
  BY <1>1, <1>2, <1>3

LEMMA TypeStep == QueueInv /\ [Next]_vars => TypeOK'
<1> SUFFICES ASSUME TypeOK, HeldIsQueued, KindsApart, [Next]_vars PROVE TypeOK'
  BY DEF QueueInv
<1> USE MsgFacts, KeyFacts, AccessFacts, BucketAccessAssumption
<1> USE DEF tableVars, requestVars, workerVars, policyVars
<1>1. ASSUME NEW q \in Requests, NEW i \in Ids, NEW l \in Levels, CreateRow(q, i, l) PROVE TypeOK'
  BY <1>1 DEF TypeOK, CreateRow, StoreRow, Go, Access, RequestPcs
<1>2. ASSUME NEW q \in Requests, NEW i \in Ids, LoadRow(q, i) PROVE TypeOK'
  BY <1>2 DEF TypeOK, LoadRow, Go, RequestPcs
<1>3. ASSUME NEW q \in Requests, NEW l \in Levels, SaveEdit(q, l) PROVE TypeOK'
  <2> DEFINE i == ritem[q]
  <2>1. i \in Ids
    BY <1>3 DEF TypeOK, SaveEdit
  <2>2. CASE StoreRow(i, l) /\ Go(q, "saved", i)
    BY <1>3, <2>1, <2>2 DEF TypeOK, SaveEdit, StoreRow, Go, Access, RequestPcs
  <2>3. CASE Go(q, "idle", NoItem) /\ UNCHANGED tableVars
    BY <1>3, <2>3 DEF TypeOK, SaveEdit, Go, RequestPcs
  <2> QED
    BY <1>3, <2>2, <2>3 DEF SaveEdit
<1>4. ASSUME NEW q \in Requests, SendGrant(q) PROVE TypeOK'
  BY <1>4 DEF TypeOK, SendGrant, Send, Go, RequestPcs
<1>5. ASSUME NEW q \in Requests, SendRevoke(q) PROVE TypeOK'
  BY <1>5 DEF TypeOK, SendRevoke, Send, Go, RequestPcs
<1>6. ASSUME NEW q \in Requests, RemoveRow(q) PROVE TypeOK'
  BY <1>6 DEF TypeOK, RemoveRow, Go, Access, RequestPcs
<1>7. ASSUME NEW q \in Requests, NEW b \in Buckets, Retire(q, b) PROVE TypeOK'
  BY <1>7 DEF TypeOK, Retire, Go, RequestPcs
<1>8. ASSUME NEW q \in Requests, SendRevokeAll(q) PROVE TypeOK'
  BY <1>8 DEF TypeOK, SendRevokeAll, Send, Go, RequestPcs
<1>9. ASSUME NEW q \in Requests, NEW p \in Principals, DeleteRole(q, p) PROVE TypeOK'
  BY <1>9 DEF TypeOK, DeleteRole, Go, Access, RequestPcs
<1>10. ASSUME NEW q \in Requests, DeletePrincipal(q) PROVE TypeOK'
  BY <1>10 DEF TypeOK, DeletePrincipal, RowsOf, Send, Go, Access, RequestPcs
<1>11. ASSUME NEW q \in Requests, RequestFails(q) PROVE TypeOK'
  BY <1>11 DEF TypeOK, RequestFails, Go, RequestPcs
<1>12. ASSUME NEW m \in Msgs, Resend(m) PROVE TypeOK'
  BY <1>12 DEF TypeOK, Resend, Send
<1>13. ASSUME NEW w \in Workers, NEW m \in Msgs, Take(w, m) PROVE TypeOK'
  BY <1>13 DEF TypeOK, Take, WorkerPcs
<1>14. ASSUME NEW w \in Workers, GetRow(w) PROVE TypeOK'
  <2>1. CASE Idle(w)
    BY <1>14, <2>1 DEF TypeOK, GetRow, Idle, WorkerPcs
  <2>2. CASE /\ wlevel' = [wlevel EXCEPT ![w] = level[wmsg[w][2]]]
             /\ WGo(w, "read")
             /\ UNCHANGED <<wmsg, wpolicy, overtaken>>
    BY <1>14, <2>2 DEF TypeOK, GetRow, WGo, WorkerPcs
  <2> QED
    BY <1>14, <2>1, <2>2 DEF GetRow
<1>15. ASSUME NEW w \in Workers, StartRevoke(w) PROVE TypeOK'
  BY <1>15 DEF TypeOK, StartRevoke, WGo, WorkerPcs
<1>16. ASSUME NEW w \in Workers, ReadPolicy(w) PROVE TypeOK'
  <2>1. CASE Idle(w)
    BY <1>16, <2>1 DEF TypeOK, ReadPolicy, Idle, WorkerPcs
  <2>2. CASE /\ KeyFor(wmsg[w])[1] \in roles
             /\ wpolicy' = [wpolicy EXCEPT ![w] =
                              [b \in Buckets |-> policy[<<KeyFor(wmsg[w])[1], b>>]]]
             /\ overtaken' = [overtaken EXCEPT ![w] = @ \cap {KeyFor(wmsg[w])}]
             /\ WGo(w, "write")
             /\ UNCHANGED <<wmsg, wlevel>>
    <3>1. [b \in Buckets |-> policy[<<KeyFor(wmsg[w])[1], b>>]] \in [Buckets -> Access]
      BY <2>2 DEF TypeOK, Keys
    <3> QED
      BY <1>16, <2>2, <3>1 DEF TypeOK, ReadPolicy, WGo, WorkerPcs
  <2>3. CASE WGo(w, "ack") /\ UNCHANGED <<wmsg, wlevel, wpolicy, overtaken>>
    BY <1>16, <2>3 DEF TypeOK, ReadPolicy, WGo, WorkerPcs
  <2> QED
    BY <1>16, <2>1, <2>2, <2>3 DEF ReadPolicy
<1>17. ASSUME NEW w \in Workers, WritePolicy(w) PROVE TypeOK'
  <2> DEFINE k == KeyFor(wmsg[w])
             new == [wpolicy[w] EXCEPT ![k[2]] = wlevel[w]]
  <2>1. CASE Idle(w) /\ UNCHANGED policyVars
    BY <1>17, <2>1 DEF TypeOK, WritePolicy, Idle, WorkerPcs
  <2>2. CASE /\ policy' = [j \in Keys |-> IF j[1] = k[1] THEN new[j[2]] ELSE policy[j]]
             /\ Overtakes(w)
             /\ WGo(w, "ack")
             /\ UNCHANGED <<wmsg, wlevel, wpolicy>>
    <3>1. new \in [Buckets -> Access]
      BY DEF TypeOK
    <3>2. policy' \in [Keys -> Access]
      BY <2>2, <3>1 DEF TypeOK
    <3>3. k \in Keys
      BY <1>17 DEF WritePolicy, KindsApart, MidTurn, TypeOK
    <3>4. overtaken' \in [Workers -> SUBSET Keys] /\ undone' \subseteq Keys
      BY <2>2, <3>3 DEF Overtakes, TypeOK
    <3> QED
      BY <1>17, <2>2, <3>2, <3>4 DEF TypeOK, WritePolicy, WGo, WorkerPcs
  <2> QED
    BY <1>17, <2>1, <2>2 DEF WritePolicy
<1>18. ASSUME NEW w \in Workers, FanOut(w) PROVE TypeOK'
  BY <1>18 DEF TypeOK, FanOut, RowsIn, Send, WGo, WorkerPcs
<1>19. ASSUME NEW w \in Workers, FanOutFails(w) PROVE TypeOK'
  BY <1>19 DEF TypeOK, FanOutFails, RowsIn, Send, Idle, WorkerPcs
<1>20. ASSUME NEW w \in Workers, Ack(w) PROVE TypeOK'
  BY <1>20, HolderFacts DEF TypeOK, Ack, Idle, WorkerPcs, HeldIsQueued
<1>21. ASSUME NEW w \in Workers, WorkerFails(w) PROVE TypeOK'
  BY <1>21 DEF TypeOK, WorkerFails, Idle, WorkerPcs
<1>22. CASE UNCHANGED vars
  BY <1>22 DEF TypeOK, vars
<1> QED
  BY <1>1, <1>2, <1>3, <1>4, <1>5, <1>6, <1>7, <1>8, <1>9, <1>10, <1>11, <1>12, <1>13, <1>14, <1>15, <1>16, <1>17, <1>18, <1>19, <1>20, <1>21, <1>22
  DEF Next, RequestNext, WorkerNext, WorkerStep

LEMMA QueueGrows ==
  ASSUME TypeOK, [Next]_vars, NEW m \in Msgs
  PROVE  \/ queue'[m] >= queue[m]
         \/ \E w \in Workers : Ack(w)
<1> USE DEF TypeOK
<1>1. CASE UNCHANGED queue
  BY <1>1
<1>2. CASE \E M : Send(M)
  BY <1>2 DEF Send
<1> QED
  BY <1>1, <1>2
  DEF Next, RequestNext, WorkerNext, WorkerStep, vars,
      CreateRow, LoadRow, SaveEdit, SendGrant, SendRevoke, RemoveRow, Retire,
      SendRevokeAll, DeleteRole, DeletePrincipal, RequestFails, Resend,
      Take, GetRow, StartRevoke, ReadPolicy, WritePolicy, FanOut, FanOutFails, WorkerFails

LEMMA HoldingChanges ==
  ASSUME [Next]_vars
  PROVE  \/ UNCHANGED wmsg
         \/ \E w \in Workers : Idle(w)
         \/ \E w \in Workers, m \in Msgs : Take(w, m)
  BY WorkerChanges
  DEF WorkerStep, workerVars, GetRow, StartRevoke, ReadPolicy, WritePolicy, FanOut,
      FanOutFails, Ack, WorkerFails

\* A worker that lets go leaves fewer holders of each message; one that takes
\* a message found a copy nobody held; an acknowledgement drops both by one.
LEMMA HeldStep == QueueInv /\ [Next]_vars => HeldIsQueued'
<1> SUFFICES ASSUME TypeOK, HeldIsQueued, KindsApart, [Next]_vars, NEW m \in Msgs
             PROVE  Cardinality(Holders(m)') <= queue'[m]
  BY DEF QueueInv, HeldIsQueued, Holders
<1> USE MsgFacts, HolderFacts
<1>1. queue[m] \in Nat /\ queue'[m] \in Nat /\ Cardinality(Holders(m)) <= queue[m]
  BY TypeStep DEF TypeOK, HeldIsQueued, QueueInv
<1>2. ASSUME NEW w \in Workers, Ack(w) PROVE Cardinality(Holders(m)') <= queue'[m]
  <2>1. Holders(m)' = Holders(m) \ {w}
    BY <1>2 DEF Ack, Idle, Holders, TypeOK
  <2>2. CASE wmsg[w] = m
    <3>1. Cardinality(Holders(m)') = Cardinality(Holders(m)) - 1
      <4>1. w \in Holders(m) /\ IsFiniteSet(Holders(m))
        BY <2>2 DEF Holders
      <4> QED
        BY <2>1, <4>1, FS_RemoveElement
    <3>2. queue'[m] = queue[m] - 1
      BY <1>2, <2>2 DEF Ack, TypeOK
    <3> QED
      BY <1>1, <3>1, <3>2
  <2>3. CASE wmsg[w] # m
    <3>1. Holders(m)' = Holders(m)
      BY <2>1, <2>3 DEF Holders
    <3>2. queue'[m] = queue[m]
      BY <1>2, <2>3 DEF Ack, TypeOK
    <3> QED
      BY <1>1, <3>1, <3>2
  <2> QED
    BY <2>2, <2>3
<1>3. ASSUME NEW w \in Workers, NEW n \in Msgs, Take(w, n)
      PROVE  Cardinality(Holders(m)') <= queue'[m]
  <2>1. queue' = queue /\ queue[n] > Cardinality(Holders(n)) /\ wmsg[w] \notin Msgs
    BY <1>3 DEF Take, TypeOK
  <2>2. CASE n = m
    <3>1. Holders(m)' = Holders(m) \cup {w} /\ w \notin Holders(m)
      BY <1>3, <2>1, <2>2 DEF Take, Holders, TypeOK
    <3>2. Cardinality(Holders(m)') = Cardinality(Holders(m)) + 1
      BY <3>1, FS_AddElement
    <3>3. queue'[m] > Cardinality(Holders(m)) /\ Cardinality(Holders(m)) \in Nat
      BY <2>1, <2>2
    <3> HIDE HolderFacts
    <3> QED
      BY <1>1, <3>2, <3>3
  <2>3. CASE n # m
    <3>1. Holders(m)' = Holders(m)
      BY <1>3, <2>1, <2>3 DEF Take, Holders, TypeOK
    <3> QED
      BY <1>1, <2>1, <3>1
  <2> QED
    BY <2>2, <2>3
<1>4. ASSUME NEW w \in Workers, Idle(w), queue'[m] >= queue[m]
      PROVE  Cardinality(Holders(m)') <= queue'[m]
  <2>1. Holders(m)' \subseteq Holders(m)
    BY <1>4 DEF Idle, Holders, TypeOK
  <2>2. Cardinality(Holders(m)') <= Cardinality(Holders(m)) /\ Cardinality(Holders(m)') \in Nat
    BY <2>1, FS_Subset, FS_CardinalityType
  <2> QED
    BY <1>1, <1>4, <2>2
<1>5. CASE UNCHANGED wmsg /\ queue'[m] >= queue[m]
  <2>1. Holders(m)' = Holders(m)
    BY <1>5 DEF Holders
  <2> QED
    BY <1>1, <1>5, <2>1
<1> QED
  BY <1>2, <1>3, <1>4, <1>5, QueueGrows, HoldingChanges

Stays(w) ==
  /\ wpc'[w] = wpc[w] /\ wmsg'[w] = wmsg[w]
  /\ wlevel'[w] = wlevel[w] /\ wpolicy'[w] = wpolicy[w]

LEMMA OwnStep ==
  ASSUME TypeOK, [Next]_vars, NEW w \in Workers
  PROVE  \/ Stays(w)
         \/ WorkerStep(w) \/ FanOutFails(w) \/ WorkerFails(w) \/ \E m \in Msgs : Take(w, m)
<1>1. ASSUME NEW v \in Workers, v # w,
             WorkerStep(v) \/ FanOutFails(v) \/ WorkerFails(v) \/ \E m \in Msgs : Take(v, m)
      PROVE  Stays(w)
  BY <1>1
  DEF Stays, TypeOK, WorkerStep, GetRow, StartRevoke, ReadPolicy, WritePolicy, FanOut, Ack,
      FanOutFails, WorkerFails, Take, Idle, WGo
<1>2. CASE UNCHANGED workerVars
  BY <1>2 DEF workerVars, Stays
<1> QED
  BY <1>1, <1>2, WorkerChanges

LEMMA KindsStep == TypeOK /\ KindsApart /\ [Next]_vars => KindsApart'
<1> SUFFICES ASSUME TypeOK, KindsApart, [Next]_vars, NEW w \in Workers, MidTurn(w)'
             PROVE  wmsg'[w][1] \in {"grant", "revoke"}
  BY DEF KindsApart
<1> USE DEF MidTurn, TypeOK
<1>1. CASE Stays(w)
  BY <1>1 DEF Stays, KindsApart
<1>2. CASE WorkerStep(w)
  BY <1>2 DEF WorkerStep, GetRow, StartRevoke, ReadPolicy, WritePolicy, FanOut, Ack, WGo, Idle, KindsApart
<1>3. CASE FanOutFails(w) \/ WorkerFails(w)
  BY <1>3 DEF FanOutFails, WorkerFails, Idle
<1>4. CASE \E m \in Msgs : Take(w, m)
  BY <1>4 DEF Take
<1> QED
  BY <1>1, <1>2, <1>3, <1>4, OwnStep

LEMMA QueueInit == Init => QueueInv
<1> SUFFICES ASSUME Init PROVE TypeOK /\ HeldIsQueued /\ KindsApart
  BY DEF QueueInv
<1> USE MsgFacts, AccessFacts, BucketAccessAssumption
<1>1. TypeOK
  BY DEF Init, TypeOK, RequestPcs, WorkerPcs
<1>2. ASSUME NEW m \in Msgs PROVE Cardinality(Holders(m)) <= queue[m]
  <2>1. Holders(m) = {}
    BY DEF Init, Holders
  <2> QED
    BY <2>1, FS_EmptySet DEF Init
<1>3. KindsApart
  BY DEF Init, KindsApart, MidTurn
<1> QED
  BY <1>1, <1>2, <1>3 DEF HeldIsQueued

LEMMA QueueInvariant == Spec => []QueueInv
<1>1. QueueInv /\ [Next]_vars => QueueInv'
  BY TypeStep, HeldStep, KindsStep DEF QueueInv
<1> QED
  BY QueueInit, <1>1, PTL DEF Spec

\* Every variable keeps its type; in particular no count of copies falls below
\* zero (acknowledgement, handlers/base.py).
THEOREM TypeCorrect == Spec => []TypeOK
  BY QueueInvariant, PTL DEF QueueInv

\* What a worker holds is still queued: no message is acknowledged more often
\* than it was delivered (handlers/base.py).
THEOREM NeverOverAcknowledged == Spec => []HeldIsQueued
  BY QueueInvariant, PTL DEF QueueInv

-----------------------------------------------------------------------------
(* Provenance *)

LEMMA TableChanges ==
  ASSUME [Next]_vars
  PROVE  \/ UNCHANGED tableVars
         \/ \E q \in Requests, i \in Ids, l \in Levels : CreateRow(q, i, l)
         \/ \E q \in Requests, l \in Levels : SaveEdit(q, l)
         \/ \E q \in Requests : RemoveRow(q) \/ DeletePrincipal(q)
  BY DEF Next, RequestNext, WorkerNext, WorkerStep, vars, tableVars,
         LoadRow, SendGrant, SendRevoke, Retire, SendRevokeAll, DeleteRole, RequestFails,
         Resend, Take, GetRow, StartRevoke, ReadPolicy, WritePolicy, FanOut, FanOutFails,
         Ack, WorkerFails

\* Rows only ever take levels that are recorded, and the record only grows.
LEMMA RowsChange ==
  ASSUME TypeOK, [Next]_vars
  PROVE  /\ \A k \in Keys : asked[k] \subseteq asked'[k]
         /\ \A i \in Ids : \/ level'[i] = level[i]
                           \/ level'[i] = NoLevel
                           \/ level'[i] \in asked'[KeyOf[i]]
<1> USE MsgFacts, BucketAccessAssumption DEF TypeOK
<1>1. CASE UNCHANGED tableVars
  BY <1>1 DEF tableVars
<1>2. ASSUME NEW j \in Ids, NEW l \in Levels, StoreRow(j, l)
      PROVE  /\ \A k \in Keys : asked[k] \subseteq asked'[k]
             /\ \A i \in Ids : level'[i] = level[i] \/ level'[i] \in asked'[KeyOf[i]]
  BY <1>2 DEF StoreRow
<1>3. CASE \E q \in Requests, i \in Ids, l \in Levels : CreateRow(q, i, l)
  BY <1>2, <1>3 DEF CreateRow
<1>4. CASE \E q \in Requests, l \in Levels : SaveEdit(q, l)
  BY <1>1, <1>2, <1>4 DEF SaveEdit
<1>5. CASE \E q \in Requests : RemoveRow(q)
  BY <1>5 DEF RemoveRow
<1>6. CASE \E q \in Requests : DeletePrincipal(q)
  BY <1>6 DEF DeletePrincipal
<1> QED
  BY <1>1, <1>3, <1>4, <1>5, <1>6, TableChanges

LEMMA RowsStep == IInv /\ [Next]_vars => RowsAsked'
  BY RowsChange, MsgFacts DEF IInv, QueueInv, AskedInv, RowsAsked

\* The same conjunct for one worker, primed or not.
WorkerAsked(w) ==
  /\ wpc[w] \in {"idle", "taken"} => wlevel[w] = NoLevel
  /\ wpc[w] \in {"read", "write"} =>
       /\ KeyFor(wmsg[w]) \in Keys
       /\ wlevel[w] # NoLevel => wlevel[w] \in asked[KeyFor(wmsg[w])]
  /\ wpc[w] = "write" =>
       \A b \in Buckets : wpolicy[w][b] # NoLevel
                            => wpolicy[w][b] \in asked[<<KeyFor(wmsg[w])[1], b>>]

LEMMA WorkersStep == IInv /\ [Next]_vars => WorkersAsked'
<1> SUFFICES ASSUME TypeOK, RowsAsked, WorkersAsked, Provenance, [Next]_vars,
                    NEW w \in Workers
             PROVE  WorkerAsked(w)'
  BY DEF IInv, QueueInv, AskedInv, WorkersAsked, WorkerAsked
<1> USE MsgFacts, KeyFacts
<1>1. WorkerAsked(w) /\ \A k \in Keys : asked[k] \subseteq asked'[k]
  BY RowsChange DEF WorkersAsked, WorkerAsked
<1>2. CASE /\ wpc'[w] = wpc[w] /\ wmsg'[w] = wmsg[w]
           /\ wlevel'[w] = wlevel[w] /\ wpolicy'[w] = wpolicy[w]
  <2>1. wpc[w] = "write" => \A b \in Buckets : <<KeyFor(wmsg[w])[1], b>> \in Keys
    BY <1>1 DEF WorkerAsked, Keys
  <2> QED
    BY <1>1, <1>2, <2>1 DEF WorkerAsked, KeyFor
<1>3. CASE Idle(w)
  BY <1>3 DEF Idle, WorkerAsked, TypeOK
<1>4. ASSUME NEW m \in Msgs, Take(w, m) PROVE WorkerAsked(w)'
  BY <1>1, <1>4 DEF Take, WorkerAsked, TypeOK
<1>5. ASSUME GetRow(w) PROVE WorkerAsked(w)'
  <2>1. CASE Idle(w)
    BY <1>3, <2>1
  <2>2. CASE /\ level[wmsg[w][2]] # NoLevel
             /\ wlevel' = [wlevel EXCEPT ![w] = level[wmsg[w][2]]]
             /\ WGo(w, "read")
             /\ UNCHANGED <<wmsg, wpolicy, overtaken>>
    <3>1. wmsg[w] \in Msgs /\ wmsg[w][1] = "grant" /\ wmsg[w][2] \in Ids
      BY <1>5 DEF GetRow, TypeOK
    <3>2. KeyFor(wmsg[w]) = KeyOf[wmsg[w][2]] /\ KeyFor(wmsg[w]) \in Keys
      BY <3>1 DEF KeyFor
    <3>3. wlevel'[w] \in asked'[KeyFor(wmsg[w])]
      BY <1>1, <2>2, <3>1, <3>2 DEF RowsAsked, TypeOK
    <3> QED
      BY <2>2, <3>2, <3>3 DEF WorkerAsked, WGo, TypeOK, KeyFor
  <2> QED
    BY <1>5, <2>1, <2>2 DEF GetRow
<1>6. ASSUME StartRevoke(w) PROVE WorkerAsked(w)'
  <2>1. KeyFor(wmsg[w]) \in Keys /\ wlevel[w] = NoLevel
    BY <1>1, <1>6 DEF StartRevoke, WorkerAsked, TypeOK
  <2> QED
    BY <1>6, <2>1 DEF StartRevoke, WGo, WorkerAsked, TypeOK, KeyFor
<1>7. ASSUME ReadPolicy(w) PROVE WorkerAsked(w)'
  <2> DEFINE p == KeyFor(wmsg[w])[1]
  <2>1. KeyFor(wmsg[w]) \in Keys /\ \A b \in Buckets : <<p, b>> \in Keys
    BY <1>1, <1>7 DEF ReadPolicy, WorkerAsked, Keys
  <2>2. CASE Idle(w)
    BY <1>3, <2>2
  <2>3. CASE WGo(w, "ack")
    BY <2>3 DEF WGo, WorkerAsked, TypeOK
  <2>4. CASE /\ wpolicy' = [wpolicy EXCEPT ![w] = [b \in Buckets |-> policy[<<p, b>>]]]
             /\ WGo(w, "write")
             /\ UNCHANGED <<wmsg, wlevel>>
    <3>1. \A b \in Buckets : wpolicy'[w][b] = policy[<<p, b>>]
      BY <2>4 DEF TypeOK
    <3>2. \A b \in Buckets : wpolicy'[w][b] # NoLevel => wpolicy'[w][b] \in asked'[<<p, b>>]
      BY <1>1, <2>1, <3>1 DEF Provenance
    <3>3. wlevel'[w] # NoLevel => wlevel'[w] \in asked'[KeyFor(wmsg[w])]
      BY <1>1, <1>7, <2>1, <2>4 DEF ReadPolicy, WorkerAsked
    <3>4. wpc'[w] = "write" /\ KeyFor(wmsg[w])' = KeyFor(wmsg[w])
      BY <2>4 DEF WGo, TypeOK, KeyFor
    <3> QED
      BY <2>1, <3>2, <3>3, <3>4 DEF WorkerAsked
  <2> QED
    BY <1>7, <2>2, <2>3, <2>4 DEF ReadPolicy
<1>8. ASSUME wpc' = [wpc EXCEPT ![w] = "ack"] PROVE WorkerAsked(w)'
  BY <1>8 DEF WorkerAsked, TypeOK
<1>9. ASSUME WorkerStep(w) \/ FanOutFails(w) \/ WorkerFails(w) PROVE WorkerAsked(w)'
  BY <1>3, <1>5, <1>6, <1>7, <1>8, <1>9
  DEF WorkerStep, WritePolicy, FanOut, Ack, FanOutFails, WorkerFails, WGo
<1>10. ASSUME NEW v \in Workers, v # w,
              WorkerStep(v) \/ FanOutFails(v) \/ WorkerFails(v) \/ \E m \in Msgs : Take(v, m)
       PROVE  WorkerAsked(w)'
  BY <1>2, <1>10
  DEF TypeOK, WorkerStep, GetRow, StartRevoke, ReadPolicy, WritePolicy, FanOut, Ack,
      FanOutFails, WorkerFails, Take, Idle, WGo
<1>11. CASE UNCHANGED workerVars
  BY <1>2, <1>11 DEF workerVars
<1> QED
  BY <1>4, <1>9, <1>10, <1>11, WorkerChanges

LEMMA PolicyChanges ==
  ASSUME [Next]_vars
  PROVE  \/ UNCHANGED policyVars
         \/ \E q \in Requests, p \in Principals : DeleteRole(q, p)
         \/ \E w \in Workers : WritePolicy(w)
  BY DEF policyVars, Next, RequestNext, WorkerNext, WorkerStep, vars,
         CreateRow, LoadRow, SaveEdit, SendGrant, SendRevoke, RemoveRow, Retire,
         SendRevokeAll, DeletePrincipal, RequestFails, Resend,
         Take, GetRow, StartRevoke, ReadPolicy, FanOut, FanOutFails, Ack, WorkerFails

LEMMA PolicyStep == IInv /\ [Next]_vars => Provenance'
<1> SUFFICES ASSUME TypeOK, WorkersAsked, Provenance, [Next]_vars,
                    NEW k \in Keys, policy'[k] # NoLevel
             PROVE  policy'[k] \in asked'[k]
  BY DEF IInv, QueueInv, AskedInv, Provenance
<1> USE KeyFacts
<1>1. asked[k] \subseteq asked'[k]
  BY RowsChange
<1>2. CASE policy'[k] = policy[k]
  BY <1>1, <1>2 DEF Provenance
<1>3. CASE \E q \in Requests, p \in Principals : DeleteRole(q, p)
  BY <1>2, <1>3 DEF DeleteRole
<1>4. ASSUME NEW w \in Workers, WritePolicy(w), policy'[k] # policy[k]
      PROVE  policy'[k] \in asked'[k]
  <2> DEFINE c == KeyFor(wmsg[w])
             new == [wpolicy[w] EXCEPT ![c[2]] = wlevel[w]]
  <2>1. k[1] = c[1] /\ policy'[k] = new[k[2]]
    BY <1>4 DEF WritePolicy, TypeOK, policyVars
  <2>2. c \in Keys /\ WorkerAsked(w)
    BY <1>4 DEF WritePolicy, WorkersAsked, WorkerAsked
  <2>3. CASE k[2] = c[2]
    <3>1. policy'[k] = wlevel[w] /\ k = c
      BY <2>1, <2>2, <2>3 DEF TypeOK
    <3> QED
      BY <1>1, <1>4, <2>2, <3>1 DEF WritePolicy, WorkerAsked
  <2>4. CASE k[2] # c[2]
    <3>1. policy'[k] = wpolicy[w][k[2]] /\ k = <<c[1], k[2]>>
      BY <2>1, <2>4 DEF TypeOK
    <3> QED
      BY <1>1, <1>4, <2>2, <3>1 DEF WritePolicy, WorkerAsked
  <2> QED
    BY <2>3, <2>4
<1> QED
  BY <1>2, <1>3, <1>4, PolicyChanges DEF policyVars

LEMMA AskedInvariant == Spec => []IInv
<1>1. Init => IInv
  <2> SUFFICES ASSUME Init PROVE IInv
    OBVIOUS
  <2>1. QueueInv
    BY QueueInit
  <2>2. AskedInv
    BY MsgFacts, AccessFacts DEF Init, AskedInv, RowsAsked, WorkersAsked, Provenance
  <2> QED
    BY <2>1, <2>2 DEF IInv
<1>2. IInv /\ [Next]_vars => IInv'
  BY TypeStep, HeldStep, KindsStep, RowsStep, WorkersStep, PolicyStep DEF IInv, QueueInv, AskedInv
<1> QED
  BY <1>1, <1>2, PTL DEF Spec

\* A role's policy grants, for each bucket, only what some access row of that
\* principal and bucket once said, for any number of workers putting back
\* documents they read earlier (aws.py, grant_bucket_access).
THEOREM GrantedWasAsked == Spec => []Provenance
<1>1. IInv => Provenance
  BY DEF IInv, AskedInv
<1> QED
  BY <1>1, AskedInvariant, PTL

-----------------------------------------------------------------------------
(* Documents, rows and messages *)

\* The document a worker is about to change is the one in force, but for the
\* entries others put since it was read.
DocumentsFresh ==
  \A w \in Workers :
    wpc[w] = "write" /\ KeyFor(wmsg[w])[1] \in roles =>
      \A b \in Buckets :
        <<KeyFor(wmsg[w])[1], b>> \notin overtaken[w]
          => wpolicy[w][b] = policy[<<KeyFor(wmsg[w])[1], b>>]

\* A principal and a bucket have one row at a time, and a row that went was
\* revoked; what a request or a message is about was stored.
RowsUnique ==
  \A i, j \in Ids : level[i] # NoLevel /\ level[j] # NoLevel /\ KeyOf[i] = KeyOf[j] => i = j
RowsUsed == \A i \in Ids : level[i] # NoLevel => i \in used
GoneWasRevoked == \A i \in used : level[i] # NoLevel \/ Revoke(KeyOf[i]) \in sent
RequestsUsed ==
  \A q \in Requests :
    /\ rpc[q] \in {"saved", "loaded", "revoked"} => ritem[q] \in used
    /\ rpc[q] = "revoked" => Revoke(KeyOf[ritem[q]]) \in sent
QueuedWasSent == \A m \in Msgs : queue[m] > 0 => m \in sent
GrantsUsed == \A i \in Ids : Grant(i) \in sent => i \in used

TableInv ==
  /\ RowsUnique /\ RowsUsed /\ GoneWasRevoked /\ RequestsUsed
  /\ QueuedWasSent /\ GrantsUsed

Standing(i) ==
  /\ i \notin broken
  /\ level[i] # NoLevel
  /\ Revoke(KeyOf[i]) \notin sent
  /\ KeyOf[i][1] \in roles

Spare(m) == queue[m] > Cardinality(Holders(m))

\* A grant that will look at row i again.
Coming(i) ==
  \/ \E q \in Requests : rpc[q] = "saved" /\ ritem[q] = i
  \/ Spare(Grant(i))
  \/ \E w \in Workers : wmsg[w] = Grant(i) /\ wpc[w] = "taken"

Granting(w, i) == wmsg[w] = Grant(i) /\ MidTurn(w)

Converging ==
  \A i \in Ids : Standing(i) =>
    \/ KeyOf[i] \in undone
    \/ policy[KeyOf[i]] = level[i]
    \/ Coming(i)
    \/ \E w \in Workers : Granting(w, i) /\ wlevel[w] = level[i]

\* Whoever is about to put an outdated level is not the last to do so, or another
\* has put since and this put will be noted as taking it back.
OutdatedIsCovered ==
  \A i \in Ids, w \in Workers :
    Standing(i) /\ Granting(w, i) /\ wlevel[w] # level[i] =>
      \/ Coming(i)
      \/ KeyOf[i] \in overtaken[w]
      \/ \E v \in Workers : Granting(v, i) /\ wlevel[v] = level[i]

GrantsInv == DocumentsFresh /\ TableInv /\ Converging /\ OutdatedIsCovered

LEMMA HistoriesGrow ==
  ASSUME [Next]_vars
  PROVE  sent \subseteq sent' /\ used \subseteq used' /\ broken \subseteq broken' /\ roles' \subseteq roles
  BY DEF Next, RequestNext, WorkerNext, WorkerStep, vars, tableVars, StoreRow, Send,
         CreateRow, LoadRow, SaveEdit, SendGrant, SendRevoke, RemoveRow, Retire,
         SendRevokeAll, DeleteRole, DeletePrincipal, RequestFails, Resend,
         Take, GetRow, StartRevoke, ReadPolicy, WritePolicy, FanOut, FanOutFails, Ack, WorkerFails

\* A request stores row i and is about to send its grant.
Stores(q, i) ==
  /\ rpc'[q] = "saved" /\ ritem'[q] = i
  /\ level'[i] \in Levels /\ used' = used \cup {i}
  /\ \A j \in Ids \ {i} : level'[j] = level[j]
  /\ level[i] # NoLevel \/ MayInsert(i)

LEMMA TableMoves ==
  ASSUME TypeOK, [Next]_vars
  PROVE  \/ UNCHANGED <<level, used>>
         \/ \E q \in Requests, i \in Ids : Stores(q, i)
         \/ \E q \in Requests : RemoveRow(q) \/ DeletePrincipal(q)
<1> USE DEF TypeOK
<1>1. ASSUME NEW q \in Requests, NEW i \in Ids, NEW l \in Levels, CreateRow(q, i, l)
      PROVE  Stores(q, i)
  BY <1>1 DEF CreateRow, StoreRow, Go, Stores
<1>2. ASSUME NEW q \in Requests, NEW l \in Levels, SaveEdit(q, l)
      PROVE  UNCHANGED <<level, used>> \/ \E i \in Ids : Stores(q, i)
  <2> DEFINE i == ritem[q]
  <2>1. i \in Ids
    BY <1>2 DEF SaveEdit
  <2>2. CASE level[i] # NoLevel \/ MayInsert(i)
    <3>1. StoreRow(i, l) /\ Go(q, "saved", i)
      BY <1>2, <2>2 DEF SaveEdit
    <3>2. Stores(q, i)
      BY <2>1, <2>2, <3>1 DEF StoreRow, Go, Stores
    <3> QED
      BY <2>1, <3>2
  <2>3. CASE ~ (level[i] # NoLevel \/ MayInsert(i))
    BY <1>2, <2>3 DEF SaveEdit, tableVars
  <2> QED
    BY <2>2, <2>3
<1> QED
  BY <1>1, <1>2, TableChanges DEF tableVars

LEMMA QueueMoves ==
  ASSUME [Next]_vars
  PROVE  \/ UNCHANGED <<queue, sent>>
         \/ \E M : Send(M)
         \/ \E w \in Workers : Ack(w)
  BY DEF Next, RequestNext, WorkerNext, WorkerStep, vars,
         CreateRow, LoadRow, SaveEdit, SendGrant, SendRevoke, RemoveRow, Retire,
         SendRevokeAll, DeleteRole, DeletePrincipal, RequestFails, Resend,
         Take, GetRow, StartRevoke, ReadPolicy, WritePolicy, FanOut, FanOutFails, WorkerFails

LEMMA GrantsSent ==
  ASSUME TypeOK, [Next]_vars, NEW i \in Ids, Grant(i) \in sent', Grant(i) \notin sent
  PROVE  \E q \in Requests : rpc[q] = "saved" /\ ritem[q] = i
<1> USE DEF Grant, Revoke, RevokeAll
<1>1. ASSUME NEW q \in Requests, SendGrant(q) PROVE rpc[q] = "saved" /\ ritem[q] = i
  BY <1>1 DEF SendGrant, Send
<1>2. ~ \E q \in Requests : SendRevoke(q) \/ SendRevokeAll(q) \/ DeletePrincipal(q)
  <2>1. ~ \E q \in Requests : SendRevoke(q)
    BY DEF SendRevoke, Send
  <2>2. ~ \E q \in Requests : SendRevokeAll(q)
    BY DEF SendRevokeAll, Send
  <2>3. ~ \E q \in Requests : DeletePrincipal(q)
    BY DEF DeletePrincipal, Send
  <2> QED
    BY <2>1, <2>2, <2>3
<1>3. ~ \E m \in Msgs : Resend(m)
  BY DEF Resend, Send
<1>4. ~ \E w \in Workers : FanOut(w) \/ FanOutFails(w)
  BY DEF FanOut, FanOutFails, Send
<1> QED
  BY <1>1, <1>2, <1>3, <1>4
  DEF Next, RequestNext, WorkerNext, WorkerStep, vars,
      CreateRow, LoadRow, SaveEdit, RemoveRow, Retire, DeleteRole, RequestFails,
      Take, GetRow, StartRevoke, ReadPolicy, WritePolicy, Ack, WorkerFails

LEMMA RequestMoves ==
  ASSUME TypeOK, [Next]_vars, NEW q \in Requests
  PROVE  \/ rpc'[q] = rpc[q] /\ ritem'[q] = ritem[q]
         \/ rpc'[q] \notin {"saved", "loaded", "revoked"}
         \/ \E i \in Ids : Stores(q, i)
         \/ \E i \in Ids : LoadRow(q, i)
         \/ SendRevoke(q)
<1> USE DEF TypeOK
<1>1. CASE UNCHANGED requestVars
  BY <1>1 DEF requestVars
<1>2. ASSUME NEW v \in Requests, v # q,
             \/ \E i \in Ids, l \in Levels : CreateRow(v, i, l)
             \/ \E i \in Ids : LoadRow(v, i)
             \/ \E l \in Levels : SaveEdit(v, l)
             \/ SendGrant(v) \/ SendRevoke(v) \/ RemoveRow(v)
             \/ \E b \in Buckets : Retire(v, b)
             \/ SendRevokeAll(v)
             \/ \E p \in Principals : DeleteRole(v, p)
             \/ DeletePrincipal(v) \/ RequestFails(v)
      PROVE  rpc'[q] = rpc[q] /\ ritem'[q] = ritem[q]
  <2>1. \E pc, item : Go(v, pc, item)
    BY <1>2
    DEF CreateRow, LoadRow, SaveEdit, SendGrant, SendRevoke, RemoveRow, Retire,
        SendRevokeAll, DeleteRole, DeletePrincipal, RequestFails
  <2> QED
    BY <1>2, <2>1 DEF Go
<1>3. ASSUME NEW i \in Ids, NEW l \in Levels, CreateRow(q, i, l) PROVE Stores(q, i)
  BY <1>3 DEF CreateRow, StoreRow, Go, Stores
<1>4. ASSUME NEW l \in Levels, SaveEdit(q, l)
      PROVE  rpc'[q] = "idle" \/ \E i \in Ids : Stores(q, i)
  <2> DEFINE i == ritem[q]
  <2>1. i \in Ids
    BY <1>4 DEF SaveEdit
  <2>2. CASE level[i] # NoLevel \/ MayInsert(i)
    <3>1. StoreRow(i, l) /\ Go(q, "saved", i)
      BY <1>4, <2>2 DEF SaveEdit
    <3>2. Stores(q, i)
      BY <2>1, <2>2, <3>1 DEF StoreRow, Go, Stores
    <3> QED
      BY <2>1, <3>2
  <2>3. CASE ~ (level[i] # NoLevel \/ MayInsert(i))
    <3>1. Go(q, "idle", NoItem)
      BY <1>4, <2>3 DEF SaveEdit
    <3> QED
      BY <3>1 DEF Go
  <2> QED
    BY <2>2, <2>3
<1>5. ASSUME \/ SendGrant(q) \/ RemoveRow(q) \/ SendRevokeAll(q)
             \/ \E b \in Buckets : Retire(q, b)
             \/ \E p \in Principals : DeleteRole(q, p)
             \/ DeletePrincipal(q) \/ RequestFails(q)
      PROVE  rpc'[q] \in {"idle", "retired", "roleless"}
  BY <1>5
  DEF SendGrant, RemoveRow, SendRevokeAll, Retire, DeleteRole, DeletePrincipal, RequestFails, Go
<1>6. UNCHANGED requestVars \/ RequestNext
  BY DEF Next, WorkerNext, WorkerStep, vars, requestVars, Resend,
         Take, GetRow, StartRevoke, ReadPolicy, WritePolicy, FanOut, FanOutFails, Ack, WorkerFails
<1>7. CASE RequestNext
  BY <1>2, <1>3, <1>4, <1>5, <1>7 DEF RequestNext
<1> QED
  BY <1>1, <1>6, <1>7

LEMMA TableStep == QueueInv /\ TableInv /\ [Next]_vars => TableInv'
<1> SUFFICES ASSUME QueueInv, TableInv, [Next]_vars PROVE TableInv'
  OBVIOUS
<1> TypeOK /\ HeldIsQueued
  BY DEF QueueInv
<1> RowsUnique /\ RowsUsed /\ GoneWasRevoked /\ RequestsUsed /\ QueuedWasSent /\ GrantsUsed
  BY DEF TableInv
<1> USE MsgFacts, AccessFacts
<1>1. ASSUME NEW q \in Requests, RemoveRow(q)
      PROVE  /\ ritem[q] \in Ids /\ Revoke(KeyOf[ritem[q]]) \in sent
             /\ used' = used
             /\ \A i \in Ids : level'[i] = IF i = ritem[q] THEN NoLevel ELSE level[i]
  BY <1>1 DEF RemoveRow, RequestsUsed, TypeOK
<1>2. ASSUME NEW q \in Requests, DeletePrincipal(q)
      PROVE  /\ used' = used
             /\ \A i \in Ids : \/ level'[i] = level[i]
                               \/ level'[i] = NoLevel /\ Revoke(KeyOf[i]) \in sent'
  <2>1. \A i \in Ids : level'[i] = IF KeyOf[i][1] = ritem[q] THEN NoLevel ELSE level[i]
    BY <1>2 DEF DeletePrincipal
  <2>2. \A i \in RowsOf(ritem[q]) : Revoke(KeyOf[i]) \in sent'
    BY <1>2 DEF DeletePrincipal, Send
  <2>3. used' = used
    BY <1>2 DEF DeletePrincipal
  <2> QED
    BY <2>1, <2>2, <2>3 DEF RowsOf
<1>3. \/ UNCHANGED <<level, used>>
      \/ \E q \in Requests, i \in Ids : Stores(q, i)
      \/ /\ used' = used
         /\ \A i \in Ids : \/ level'[i] = level[i]
                           \/ level'[i] = NoLevel /\ Revoke(KeyOf[i]) \in sent'
  BY <1>1, <1>2, TableMoves, HistoriesGrow
<1>4. RowsUnique' /\ RowsUsed'
  <2>1. ASSUME NEW q \in Requests, NEW i \in Ids, Stores(q, i) PROVE RowsUnique' /\ RowsUsed'
    BY <2>1 DEF Stores, MayInsert, RowsUnique, RowsUsed
  <2>2. CASE UNCHANGED <<level, used>>
    BY <2>2 DEF RowsUnique, RowsUsed
  <2>3. CASE /\ used' = used
             /\ \A i \in Ids : level'[i] = level[i] \/ level'[i] = NoLevel
    BY <2>3 DEF RowsUnique, RowsUsed
  <2> QED
    BY <1>3, <2>1, <2>2, <2>3
<1>5. GoneWasRevoked'
  <2> SUFFICES ASSUME NEW i \in Ids, i \in used', level'[i] = NoLevel
               PROVE  Revoke(KeyOf[i]) \in sent'
    <3>1. used' \subseteq Ids
      BY TypeStep DEF TypeOK
    <3> QED
      BY <3>1 DEF GoneWasRevoked, Revoke
  <2>1. CASE i \in used /\ level'[i] = level[i]
    BY <2>1, HistoriesGrow DEF GoneWasRevoked
  <2>2. ASSUME NEW q \in Requests, NEW j \in Ids, Stores(q, j) PROVE i \in used /\ level'[i] = level[i]
    BY <2>2 DEF Stores
  <2> QED
    BY <1>3, <2>1, <2>2
<1>6. RequestsUsed'
  <2> SUFFICES ASSUME NEW q \in Requests, rpc'[q] \in {"saved", "loaded", "revoked"}
               PROVE  /\ ritem'[q] \in used'
                      /\ rpc'[q] = "revoked" => Revoke(KeyOf[ritem'[q]]) \in sent'
    BY DEF RequestsUsed, Revoke
  <2>1. CASE rpc'[q] = rpc[q] /\ ritem'[q] = ritem[q]
    BY <2>1, HistoriesGrow DEF RequestsUsed
  <2>2. ASSUME NEW i \in Ids, Stores(q, i) PROVE ritem'[q] \in used' /\ rpc'[q] = "saved"
    BY <2>2 DEF Stores
  <2>3. ASSUME NEW i \in Ids, LoadRow(q, i) PROVE ritem'[q] \in used' /\ rpc'[q] = "loaded"
    BY <2>3, HistoriesGrow DEF LoadRow, Go, RowsUsed, TypeOK
  <2>4. CASE SendRevoke(q)
    <3>1. ritem'[q] = ritem[q] /\ ritem[q] \in used
      BY <2>4 DEF SendRevoke, Go, RequestsUsed, TypeOK
    <3>2. Revoke(KeyOf[ritem[q]]) \in sent'
      BY <2>4 DEF SendRevoke, Send
    <3> QED
      BY <3>1, <3>2, HistoriesGrow
  <2> QED
    BY <2>1, <2>2, <2>3, <2>4, RequestMoves
<1>7. QueuedWasSent'
  <2> SUFFICES ASSUME NEW m \in Msgs, queue'[m] > 0 PROVE m \in sent'
    BY DEF QueuedWasSent
  <2>1. queue[m] \in Nat
    BY DEF TypeOK
  <2>2. CASE UNCHANGED <<queue, sent>>
    BY <2>2 DEF QueuedWasSent
  <2>3. ASSUME NEW M, Send(M) PROVE m \in sent'
    BY <2>1, <2>3 DEF Send, QueuedWasSent
  <2>4. ASSUME NEW w \in Workers, Ack(w) PROVE m \in sent'
    <3>1. queue[m] > 0
      BY <2>1, <2>4 DEF Ack, TypeOK
    <3> QED
      BY <3>1, HistoriesGrow DEF QueuedWasSent
  <2> QED
    BY <2>2, <2>3, <2>4, QueueMoves
<1>8. GrantsUsed'
  <2> SUFFICES ASSUME NEW i \in Ids, Grant(i) \in sent' PROVE i \in used'
    BY DEF GrantsUsed, Grant
  <2>1. CASE Grant(i) \in sent
    BY <2>1, HistoriesGrow DEF GrantsUsed
  <2>2. CASE Grant(i) \notin sent
    BY <2>2, GrantsSent, HistoriesGrow DEF RequestsUsed
  <2> QED
    BY <2>1, <2>2
<1> QED
  BY <1>4, <1>5, <1>6, <1>7, <1>8 DEF TableInv

-----------------------------------------------------------------------------
(* What is lost between reading and putting *)

\* Who puts a policy puts it for its own role only, and then lets go of it.
LEMMA PutsElsewhere ==
  ASSUME TypeOK, NEW v \in Workers, WritePolicy(v), NEW k \in Keys,
         k[1] # KeyFor(wmsg[v])[1] \/ k[1] \notin roles
  PROVE  policy'[k] = policy[k]
  BY DEF WritePolicy, TypeOK, policyVars

\* What others put while a worker is at work is news to it.
LEMMA OvertakenGrows ==
  ASSUME TypeOK, [Next]_vars, NEW w \in Workers, Stays(w), MidTurn(w)
  PROVE  overtaken[w] \subseteq overtaken'[w]
<1> USE DEF TypeOK, MidTurn, Stays
<1>1. CASE UNCHANGED workerVars
  BY <1>1 DEF workerVars
<1>2. ASSUME NEW v \in Workers, Idle(v) PROVE overtaken[w] \subseteq overtaken'[w]
  BY <1>2 DEF Idle
<1>3. ASSUME NEW v \in Workers, WritePolicy(v) PROVE overtaken[w] \subseteq overtaken'[w]
  <2>1. CASE Overtakes(v) /\ WGo(v, "ack")
    BY <2>1 DEF Overtakes, WGo
  <2> QED
    BY <1>2, <1>3, <2>1 DEF WritePolicy
<1>4. ASSUME NEW v \in Workers, ReadPolicy(v) PROVE overtaken[w] \subseteq overtaken'[w]
  <2>1. CASE WGo(v, "write") /\ overtaken' = [overtaken EXCEPT ![v] = @ \cap {KeyFor(wmsg[v])}]
    BY <1>4, <2>1 DEF WGo, ReadPolicy
  <2>2. CASE UNCHANGED overtaken
    BY <2>2
  <2> QED
    BY <1>2, <1>4, <2>1, <2>2 DEF ReadPolicy
<1>5. ASSUME NEW v \in Workers, UNCHANGED overtaken PROVE overtaken[w] \subseteq overtaken'[w]
  BY <1>5
<1> QED
  BY <1>1, <1>2, <1>3, <1>4, <1>5, WorkerChanges
  DEF WorkerStep, GetRow, StartRevoke, FanOut, Ack, FanOutFails, WorkerFails, Take

LEMMA PutIsNews ==
  ASSUME TypeOK, NEW v \in Workers, WritePolicy(v), KeyFor(wmsg[v])[1] \in roles,
         NEW w \in Workers, v # w, MidTurn(w), SameRole(w, v),
         NEW k \in Keys, policy'[k] # policy[k] \/ k = KeyFor(wmsg[v])
  PROVE  k \in overtaken'[w]
<1>1. Overtakes(v)
  BY DEF WritePolicy
<1>2. overtaken'[w] = overtaken[w] \cup {j \in Keys : policy'[j] # policy[j]} \cup {KeyFor(wmsg[v])}
  BY <1>1 DEF Overtakes
<1> QED
  BY <1>2

LEMMA FreshStep == IInv /\ DocumentsFresh /\ [Next]_vars => DocumentsFresh'
<1> SUFFICES ASSUME IInv, DocumentsFresh, [Next]_vars, NEW w \in Workers,
                    wpc'[w] = "write", KeyFor(wmsg'[w])[1] \in roles', NEW b \in Buckets,
                    <<KeyFor(wmsg'[w])[1], b>> \notin overtaken'[w]
             PROVE  wpolicy'[w][b] = policy'[<<KeyFor(wmsg'[w])[1], b>>]
  BY DEF DocumentsFresh, KeyFor
<1> TypeOK /\ WorkersAsked
  BY DEF IInv, QueueInv, AskedInv
<1> DEFINE p == KeyFor(wmsg[w])[1]
<1>1. CASE Stays(w)
  <2>1. wpc[w] = "write" /\ p \in roles' /\ p \in roles /\ wpolicy'[w] = wpolicy[w] /\ wmsg'[w] = wmsg[w]
    BY <1>1, HistoriesGrow DEF Stays
  <2>2. <<p, b>> \in Keys /\ <<p, b>> \notin overtaken'[w]
    BY <2>1, KeyFacts DEF WorkersAsked, Keys
  <2>3. wpolicy[w][b] = policy[<<p, b>>]
    BY <1>1, <2>1, <2>2, OvertakenGrows DEF DocumentsFresh, MidTurn
  <2>4. policy'[<<p, b>>] = policy[<<p, b>>]
    <3>1. ASSUME NEW q \in Requests, NEW r \in Principals, DeleteRole(q, r)
          PROVE  policy'[<<p, b>>] = policy[<<p, b>>]
      BY <2>1, <2>2, <3>1 DEF DeleteRole
    <3>2. ASSUME NEW v \in Workers, WritePolicy(v) PROVE policy'[<<p, b>>] = policy[<<p, b>>]
      <4>1. CASE v = w
        BY <2>1, <3>2, <4>1 DEF WritePolicy, WGo, Idle, TypeOK
      <4>2. CASE v # w /\ KeyFor(wmsg[v])[1] = p
        BY <2>1, <2>2, <3>2, <4>2, PutIsNews DEF MidTurn, SameRole
      <4>3. CASE KeyFor(wmsg[v])[1] # p
        BY <2>2, <3>2, <4>3, PutsElsewhere
      <4> QED
        BY <4>1, <4>2, <4>3
    <3> QED
      BY <3>1, <3>2, PolicyChanges DEF policyVars
  <2> QED
    BY <2>1, <2>3, <2>4
<1>2. CASE WorkerStep(w) \/ FanOutFails(w) \/ WorkerFails(w) \/ \E m \in Msgs : Take(w, m)
  <2>1. ReadPolicy(w) /\ p \in roles
    BY <1>2
    DEF TypeOK, WorkerStep, GetRow, StartRevoke, ReadPolicy, WritePolicy, FanOut, Ack,
        FanOutFails, WorkerFails, Take, Idle, WGo
  <2>2. /\ wpolicy' = [wpolicy EXCEPT ![w] = [c \in Buckets |-> policy[<<p, c>>]]]
        /\ wmsg' = wmsg /\ policy' = policy
    BY <2>1 DEF ReadPolicy, policyVars
  <2>3. wpolicy'[w] = [c \in Buckets |-> policy[<<p, c>>]]
    BY <2>2 DEF TypeOK
  <2> QED
    BY <2>2, <2>3
<1> QED
  BY <1>1, <1>2, OwnStep

\* A put changes the entry of its own bucket, to what the row said, and else
\* only entries that others put since the document was read.
LEMMA PutsForeign ==
  ASSUME TypeOK, WorkersAsked, DocumentsFresh, NEW w \in Workers, WritePolicy(w),
         NEW k \in Keys, policy'[k] # policy[k], k[1] \in roles
  PROVE  /\ wpc[w] = "write" /\ wpc'[w] = "ack" /\ Overtakes(w)
         /\ \/ KeyFor(wmsg[w]) = k /\ policy'[k] = wlevel[w]
            \/ k \in overtaken[w]
<1> DEFINE c == KeyFor(wmsg[w])
           new == [wpolicy[w] EXCEPT ![c[2]] = wlevel[w]]
<1>1. wpc[w] = "write" /\ c \in Keys /\ c[1] = k[1]
  BY PutsElsewhere DEF WritePolicy, WorkersAsked
<1>2. policy'[k] = new[k[2]] /\ wpc'[w] = "ack" /\ Overtakes(w)
  BY <1>1 DEF WritePolicy, WGo, TypeOK
<1>3. wpolicy[w] \in [Buckets -> Access] /\ k[2] \in Buckets /\ k = <<c[1], k[2]>>
  BY <1>1, KeyFacts DEF TypeOK
<1>4. CASE k[2] # c[2]
  <2>1. policy'[k] = wpolicy[w][k[2]]
    BY <1>2, <1>3, <1>4
  <2>2. k \in overtaken[w]
    BY <1>1, <1>3, <2>1 DEF DocumentsFresh
  <2> QED
    BY <1>1, <1>2, <2>2
<1>5. CASE k[2] = c[2]
  <2>1. c = k
    BY <1>1, <1>3, <1>5, KeyFacts
  <2>2. policy'[k] = wlevel[w]
    BY <1>2, <1>3, <1>5
  <2> QED
    BY <1>1, <1>2, <2>1, <2>2
<1> QED
  BY <1>4, <1>5

\* A message touches no bucket of the role but its own (aws.py, the policy put
\* back whole), except that it takes back what other workers put between the
\* reading and the put: for any number of workers, messages and buckets.
THEOREM LosesOnlyOvertaken == Spec => OnlyItsBucket
<1>1. Init => DocumentsFresh
  BY DEF Init, DocumentsFresh
<1>2. IInv /\ DocumentsFresh /\ [Next]_vars => DocumentsFresh'
  BY FreshStep
<1>3. IInv /\ DocumentsFresh /\ [Next]_vars =>
        [\A k \in Keys :
           policy'[k] # policy[k] =>
             \/ k[1] \notin roles'
             \/ \E w \in Workers : /\ wpc[w] = "write" /\ wpc'[w] = "ack"
                                  /\ k \in overtaken[w] \cup {KeyFor(wmsg[w])}]_vars
  <2> SUFFICES ASSUME IInv, DocumentsFresh, [Next]_vars, NEW k \in Keys,
                      policy'[k] # policy[k], k[1] \in roles'
               PROVE  \E w \in Workers : /\ wpc[w] = "write" /\ wpc'[w] = "ack"
                                       /\ k \in overtaken[w] \cup {KeyFor(wmsg[w])}
    OBVIOUS
  <2> TypeOK /\ WorkersAsked
    BY DEF IInv, QueueInv, AskedInv
  <2>1. ASSUME NEW q \in Requests, NEW p \in Principals, DeleteRole(q, p) PROVE FALSE
    BY <2>1 DEF DeleteRole
  <2>2. ASSUME NEW w \in Workers, WritePolicy(w)
        PROVE  wpc[w] = "write" /\ wpc'[w] = "ack" /\ k \in overtaken[w] \cup {KeyFor(wmsg[w])}
    BY <2>2, PutsForeign, HistoriesGrow
  <2> QED
    BY <2>1, <2>2, PolicyChanges DEF policyVars
<1> QED
  BY <1>1, <1>2, <1>3, AskedInvariant, PTL DEF Spec, OnlyItsBucket

-----------------------------------------------------------------------------
(* Grants arrive *)

\* A message that is held is queued, hence was sent.
LEMMA HeldWasSent ==
  ASSUME QueueInv, TableInv, NEW w \in Workers, wpc[w] # "idle"
  PROVE  wmsg[w] \in Msgs /\ wmsg[w] \in sent /\ queue[wmsg[w]] > 0
<1> DEFINE m == wmsg[w]
<1>1. m \in Msgs
  BY DEF QueueInv, TypeOK
<1>2. Cardinality(Holders(m)) > 0 /\ Cardinality(Holders(m)) \in Nat
  BY HolderFacts
<1>3. queue[m] \in Nat /\ Cardinality(Holders(m)) <= queue[m]
  BY <1>1 DEF QueueInv, TypeOK, HeldIsQueued
<1>4. queue[m] > 0
  BY <1>2, <1>3
<1> QED
  BY <1>1, <1>4 DEF TableInv, QueuedWasSent

\* Of a standing row's key, only its own grant can be at a policy.
LEMMA OnlyItsGrant ==
  ASSUME QueueInv, TableInv, NEW i \in Ids, Standing(i), NEW w \in Workers,
         MidTurn(w), KeyFor(wmsg[w]) = KeyOf[i]
  PROVE  wmsg[w] = Grant(i)
<1> DEFINE m == wmsg[w]
<1>1. m \in Msgs /\ m \in sent
  BY HeldWasSent DEF MidTurn
<1>2. m[1] \in {"grant", "revoke"}
  BY DEF QueueInv, KindsApart
<1>3. CASE m[1] = "revoke"
  <2>1. m = Revoke(KeyOf[i])
    BY <1>1, <1>3 DEF Msgs, Grant, Revoke, RevokeAll, KeyFor
  <2> QED
    BY <1>1, <2>1 DEF Standing
<1>4. CASE m[1] = "grant"
  <2>1. PICK j \in Ids : m = Grant(j)
    BY <1>1, <1>4 DEF Msgs, Grant, Revoke, RevokeAll
  <2>2. KeyOf[j] = KeyOf[i] /\ j \in used
    BY <1>1, <2>1 DEF KeyFor, Grant, TableInv, GrantsUsed
  <2>3. level[j] # NoLevel
    BY <2>2 DEF TableInv, GoneWasRevoked, Standing
  <2>4. j = i
    BY <2>2, <2>3 DEF TableInv, RowsUnique, Standing
  <2> QED
    BY <2>1, <2>4
<1> QED
  BY <1>2, <1>3, <1>4

\* A spare copy stays spare until a worker takes it; what is let go is spare.
LEMMA SpareStep ==
  ASSUME QueueInv, [Next]_vars, NEW m \in Msgs, Spare(m)
  PROVE  Spare(m)' \/ \E w \in Workers : Take(w, m)
<1> TypeOK /\ HeldIsQueued
  BY DEF QueueInv
<1> USE MsgFacts
<1>1. /\ queue[m] \in Nat /\ queue'[m] \in Nat /\ queue[m] > Cardinality(Holders(m))
      /\ Cardinality(Holders(m)) \in Nat /\ IsFiniteSet(Holders(m))
  BY TypeStep, HolderFacts DEF TypeOK, Spare
<1>2. ASSUME NEW w \in Workers, Ack(w) PROVE Spare(m)'
  <2>1. Holders(m)' = Holders(m) \ {w}
    BY <1>2 DEF Ack, Idle, Holders, TypeOK
  <2>2. CASE wmsg[w] = m
    <3>1. w \in Holders(m)
      BY <2>2 DEF Holders
    <3>2. Cardinality(Holders(m)') = Cardinality(Holders(m)) - 1
      <4> HIDE MsgFacts
      <4> DEFINE H == Holders(m)
      <4>1. IsFiniteSet(H) /\ w \in H /\ Holders(m)' = H \ {w}
        BY <1>1, <2>1, <3>1
      <4> HIDE DEF H
      <4>2. Cardinality(H \ {w}) = Cardinality(H) - 1
        BY <4>1, FS_RemoveElement
      <4> QED
        BY <4>1, <4>2 DEF H
    <3>3. queue'[m] = queue[m] - 1
      BY <1>2, <2>2 DEF Ack, TypeOK
    <3>4. queue'[m] > Cardinality(Holders(m)')
      BY <1>1, <3>2, <3>3
    <3> QED
      BY <3>4 DEF Spare, Holders
  <2>3. CASE wmsg[w] # m
    <3>1. Holders(m)' = Holders(m)
      BY <2>1, <2>3 DEF Holders
    <3>2. queue'[m] = queue[m]
      BY <1>2, <2>3 DEF Ack, TypeOK
    <3> QED
      BY <1>1, <3>1, <3>2 DEF Spare, Holders
  <2> QED
    BY <2>2, <2>3
<1>3. ASSUME queue'[m] >= queue[m], Holders(m)' \subseteq Holders(m) PROVE Spare(m)'
  <2>1. Cardinality(Holders(m)') <= Cardinality(Holders(m)) /\ Cardinality(Holders(m)') \in Nat
    BY <1>1, <1>3, FS_Subset, FS_CardinalityType
  <2>2. queue'[m] > Cardinality(Holders(m)')
    BY <1>1, <1>3, <2>1
  <2> QED
    BY <2>2 DEF Spare, Holders
<1>4. ASSUME NEW w \in Workers, NEW n \in Msgs, Take(w, n), n # m PROVE Spare(m)'
  <2>1. Holders(m)' \subseteq Holders(m) /\ queue'[m] >= queue[m]
    BY <1>1, <1>4 DEF Take, Holders, TypeOK
  <2> QED
    BY <1>3, <2>1
<1>5. ASSUME NEW w \in Workers, Idle(w), queue'[m] >= queue[m] PROVE Spare(m)'
  <2>1. Holders(m)' \subseteq Holders(m)
    BY <1>5 DEF Idle, Holders, TypeOK
  <2> QED
    BY <1>3, <1>5, <2>1
<1>6. ASSUME UNCHANGED wmsg, queue'[m] >= queue[m] PROVE Spare(m)'
  <2>1. Holders(m)' \subseteq Holders(m)
    BY <1>6 DEF Holders
  <2> QED
    BY <1>3, <1>6, <2>1
<1> QED
  BY <1>2, <1>4, <1>5, <1>6, QueueGrows, HoldingChanges

LEMMA LetGoIsSpare ==
  ASSUME QueueInv, [Next]_vars, NEW m \in Msgs, NEW w \in Workers, wmsg[w] = m,
         Idle(w), queue'[m] >= queue[m]
  PROVE  Spare(m)'
<1> USE MsgFacts
<1>1. /\ queue[m] \in Nat /\ queue'[m] \in Nat /\ Cardinality(Holders(m)) <= queue[m]
      /\ Cardinality(Holders(m)) \in Nat /\ IsFiniteSet(Holders(m))
  BY TypeStep, HolderFacts DEF QueueInv, TypeOK, HeldIsQueued
<1>2. w \in Holders(m)
  BY DEF Holders
<1>3. Holders(m)' = Holders(m) \ {w}
  BY DEF Idle, Holders, QueueInv, TypeOK
<1>4. Cardinality(Holders(m)') = Cardinality(Holders(m)) - 1
  <2> HIDE MsgFacts
  <2> DEFINE H == Holders(m)
  <2>1. IsFiniteSet(H) /\ w \in H /\ Holders(m)' = H \ {w}
    BY <1>1, <1>2, <1>3
  <2> HIDE DEF H
  <2>2. Cardinality(H \ {w}) = Cardinality(H) - 1
    BY <2>1, FS_RemoveElement
  <2> QED
    BY <2>1, <2>2 DEF H
<1>5. queue'[m] > Cardinality(Holders(m)')
  <2> HIDE MsgFacts
  <2> QED
    BY <1>1, <1>4
<1> QED
  BY <1>5 DEF Spare, Holders

\* One step of a saved request: it sends the grant, dies, or waits.
LEMMA SavedMoves ==
  ASSUME TypeOK, [Next]_vars, NEW q \in Requests, rpc[q] = "saved"
  PROVE  \/ rpc'[q] = rpc[q] /\ ritem'[q] = ritem[q]
         \/ SendGrant(q) \/ RequestFails(q)
<1> USE DEF TypeOK
<1>1. CASE UNCHANGED requestVars
  BY <1>1 DEF requestVars
<1>2. ASSUME NEW v \in Requests, v # q, \E pc, item : Go(v, pc, item)
      PROVE  rpc'[q] = rpc[q] /\ ritem'[q] = ritem[q]
  BY <1>2 DEF Go
<1>3. ASSUME NEW v \in Requests,
             \/ \E i \in Ids, l \in Levels : CreateRow(v, i, l)
             \/ \E i \in Ids : LoadRow(v, i)
             \/ \E l \in Levels : SaveEdit(v, l)
             \/ SendGrant(v) \/ SendRevoke(v) \/ RemoveRow(v)
             \/ \E b \in Buckets : Retire(v, b)
             \/ SendRevokeAll(v)
             \/ \E p \in Principals : DeleteRole(v, p)
             \/ DeletePrincipal(v) \/ RequestFails(v)
      PROVE  \/ rpc'[q] = rpc[q] /\ ritem'[q] = ritem[q]
             \/ SendGrant(q) \/ RequestFails(q)
  <2>1. \E pc, item : Go(v, pc, item)
    BY <1>3
    DEF CreateRow, LoadRow, SaveEdit, SendGrant, SendRevoke, RemoveRow, Retire,
        SendRevokeAll, DeleteRole, DeletePrincipal, RequestFails
  <2>2. CASE v = q
    BY <1>3, <2>2
    DEF CreateRow, LoadRow, SaveEdit, SendRevoke, RemoveRow, Retire,
        SendRevokeAll, DeleteRole, DeletePrincipal
  <2> QED
    BY <1>2, <2>1, <2>2
<1>4. UNCHANGED requestVars \/ RequestNext
  BY DEF Next, WorkerNext, WorkerStep, vars, requestVars, Resend,
         Take, GetRow, StartRevoke, ReadPolicy, WritePolicy, FanOut, FanOutFails, Ack, WorkerFails
<1> QED
  BY <1>1, <1>3, <1>4 DEF RequestNext

\* A row that stands after a step stood as it does now, or was just saved.
LEMMA StandingBefore ==
  ASSUME QueueInv, [Next]_vars, NEW i \in Ids, Standing(i)'
  PROVE  \/ Standing(i) /\ level'[i] = level[i]
         \/ Coming(i)'
<1> TypeOK
  BY DEF QueueInv
<1>1. i \notin broken /\ Revoke(KeyOf[i]) \notin sent /\ KeyOf[i][1] \in roles /\ level'[i] # NoLevel
  BY HistoriesGrow DEF Standing, Revoke
<1>2. CASE level'[i] = level[i]
  BY <1>1, <1>2 DEF Standing
<1>3. ASSUME NEW q \in Requests, NEW j \in Ids, Stores(q, j)
      PROVE  level'[i] = level[i] \/ Coming(i)'
  <2>1. CASE j = i
    BY <1>3, <2>1 DEF Stores, Coming
  <2>2. CASE j # i
    BY <1>3, <2>2 DEF Stores
  <2> QED
    BY <2>1, <2>2
<1>4. ASSUME NEW q \in Requests, RemoveRow(q) \/ DeletePrincipal(q) PROVE level'[i] = level[i]
  BY <1>1, <1>4 DEF RemoveRow, DeletePrincipal, TypeOK
<1> QED
  BY <1>2, <1>3, <1>4, TableMoves

\* What a worker handling the grant of a standing row does next.
LEMMA GrantingStep ==
  ASSUME QueueInv, [Next]_vars, NEW i \in Ids, Standing(i)', NEW w \in Workers, Granting(w, i)
  PROVE  \/ Granting(w, i)' /\ wlevel'[w] = wlevel[w]
         \/ WritePolicy(w) /\ policy'[KeyOf[i]] = wlevel[w]
         \/ Coming(i)'
<1> TypeOK
  BY DEF QueueInv
<1>1. KeyOf[i] \in Keys /\ KeyOf[i][1] \in roles /\ KeyFor(Grant(i)) = KeyOf[i]
  BY MsgFacts, HistoriesGrow DEF Standing, KeyFor, Grant
<1>2. wmsg[w] = Grant(i) /\ wpc[w] \in {"read", "write"} /\ Grant(i) \in Msgs
  BY MsgFacts DEF Granting, MidTurn
<1>3. CASE Stays(w)
  BY <1>2, <1>3 DEF Stays, Granting, MidTurn
<1>4. CASE ReadPolicy(w)
  <2>1. WGo(w, "write") /\ UNCHANGED <<wmsg, wlevel>>
    BY <1>1, <1>2, <1>4 DEF ReadPolicy
  <2> QED
    BY <1>2, <2>1 DEF WGo, Granting, MidTurn, TypeOK
<1>5. CASE WritePolicy(w)
  <2> DEFINE new == [wpolicy[w] EXCEPT ![KeyOf[i][2]] = wlevel[w]]
  <2>1. policy' = [j \in Keys |-> IF j[1] = KeyOf[i][1] THEN new[j[2]] ELSE policy[j]]
    BY <1>1, <1>2, <1>5 DEF WritePolicy
  <2>2. new[KeyOf[i][2]] = wlevel[w]
    BY <1>1, KeyFacts DEF TypeOK
  <2> QED
    BY <1>1, <1>5, <2>1, <2>2
<1>6. CASE WorkerFails(w)
  <2>1. Idle(w) /\ queue' = queue
    BY <1>6 DEF WorkerFails
  <2>2. queue'[wmsg[w]] >= queue[wmsg[w]]
    BY <1>2, <2>1 DEF TypeOK
  <2>3. ASSUME NEW m \in Msgs, m = Grant(i) PROVE Spare(m)'
    BY <1>2, <2>1, <2>2, <2>3, LetGoIsSpare
  <2>4. Spare(Grant(i))'
    BY <1>2, <2>3 DEF Spare, Holders
  <2> QED
    BY <2>4 DEF Coming
<1>7. ~ (\/ GetRow(w) \/ StartRevoke(w) \/ FanOut(w) \/ Ack(w) \/ FanOutFails(w)
         \/ \E m \in Msgs : Take(w, m))
  BY <1>2 DEF GetRow, StartRevoke, FanOut, Ack, FanOutFails, Take
<1> QED
  BY <1>3, <1>4, <1>5, <1>6, <1>7, OwnStep DEF WorkerStep

\* A grant that is coming stays so until a worker reads the row for it.
LEMMA ComingStep ==
  ASSUME QueueInv, [Next]_vars, NEW i \in Ids, Standing(i)', Standing(i), level'[i] = level[i],
         Coming(i)
  PROVE  \/ Coming(i)'
         \/ \E w \in Workers : Granting(w, i)' /\ wlevel'[w] = level'[i]
<1> TypeOK /\ HeldIsQueued
  BY DEF QueueInv
<1>0. Grant(i) \in Msgs /\ Grant(i)[1] = "grant" /\ Grant(i)[2] = i
  BY MsgFacts DEF Grant
<1>1. ASSUME NEW q \in Requests, rpc[q] = "saved", ritem[q] = i PROVE Coming(i)'
  <2>1. CASE rpc'[q] = rpc[q] /\ ritem'[q] = ritem[q]
    BY <1>1, <2>1 DEF Coming
  <2>2. ~ RequestFails(q)
    BY <1>1 DEF RequestFails, Standing
  <2>3. CASE SendGrant(q)
    <3>1. queue'[Grant(i)] = queue[Grant(i)] + 1 /\ wmsg' = wmsg
      BY <1>0, <1>1, <2>3 DEF SendGrant, Send, workerVars
    <3>2. Holders(Grant(i))' = Holders(Grant(i))
      BY <3>1 DEF Holders, Grant
    <3>3. /\ queue[Grant(i)] \in Nat /\ Cardinality(Holders(Grant(i))) <= queue[Grant(i)]
          /\ Cardinality(Holders(Grant(i))) \in Nat
      BY <1>0, HolderFacts DEF TypeOK, HeldIsQueued
    <3>4. Spare(Grant(i))'
      BY <3>1, <3>2, <3>3 DEF Spare, Holders, Grant
    <3> QED
      BY <3>4 DEF Coming
  <2> QED
    BY <1>1, <2>1, <2>2, <2>3, SavedMoves
<1>2. CASE Spare(Grant(i))
  <2>1. CASE Spare(Grant(i))'
    BY <2>1 DEF Coming
  <2>2. ASSUME NEW w \in Workers, Take(w, Grant(i)) PROVE Coming(i)'
    BY <2>2 DEF Take, TypeOK, Coming, Grant
  <2> QED
    BY <1>0, <1>2, <2>1, <2>2, SpareStep
<1>3. ASSUME NEW w \in Workers, wmsg[w] = Grant(i), wpc[w] = "taken"
      PROVE  Coming(i)' \/ (Granting(w, i)' /\ wlevel'[w] = level'[i])
  <2>1. CASE Stays(w)
    BY <1>3, <2>1 DEF Stays, Coming
  <2>2. CASE GetRow(w)
    <3>1. /\ wlevel' = [wlevel EXCEPT ![w] = level[i]] /\ level' = level
          /\ WGo(w, "read") /\ wmsg' = wmsg
      BY <1>0, <1>3, <2>2 DEF GetRow, Standing, tableVars
    <3> QED
      BY <1>3, <3>1 DEF WGo, TypeOK, Granting, MidTurn
  <2>3. CASE WorkerFails(w)
    <3>1. Idle(w) /\ queue' = queue
      BY <2>3 DEF WorkerFails
    <3>2. queue'[wmsg[w]] >= queue[wmsg[w]]
      BY <1>0, <1>3, <3>1 DEF TypeOK
    <3>3. ASSUME NEW m \in Msgs, m = Grant(i) PROVE Spare(m)'
      BY <1>0, <1>3, <3>1, <3>2, <3>3, LetGoIsSpare
    <3>4. Spare(Grant(i))'
      BY <1>0, <3>3 DEF Spare, Holders
    <3> QED
      BY <3>4 DEF Coming
  <2>4. ~ (\/ StartRevoke(w) \/ ReadPolicy(w) \/ WritePolicy(w) \/ FanOut(w) \/ Ack(w)
           \/ FanOutFails(w) \/ \E m \in Msgs : Take(w, m))
    BY <1>0, <1>3 DEF StartRevoke, ReadPolicy, WritePolicy, FanOut, Ack, FanOutFails, Take
  <2> QED
    BY <2>1, <2>2, <2>3, <2>4, OwnStep DEF WorkerStep
<1> QED
  BY <1>1, <1>2, <1>3 DEF Coming

\* The policy of a standing row changes only by its own grant, or is noted as
\* taken back.
LEMMA StandingPolicy ==
  ASSUME IInv, GrantsInv, [Next]_vars, NEW i \in Ids, Standing(i), Standing(i)',
         policy'[KeyOf[i]] # policy[KeyOf[i]]
  PROVE  \/ KeyOf[i] \in undone'
         \/ \E w \in Workers : WritePolicy(w) /\ Granting(w, i)
<1> DEFINE k == KeyOf[i]
<1> QueueInv /\ TypeOK /\ WorkersAsked
  BY DEF IInv, QueueInv, AskedInv
<1>1. k \in Keys /\ k[1] \in roles /\ k[1] \in roles'
  BY MsgFacts DEF Standing
<1>2. ASSUME NEW q \in Requests, NEW p \in Principals, DeleteRole(q, p) PROVE FALSE
  BY <1>1, <1>2 DEF DeleteRole
<1>3. ASSUME NEW w \in Workers, WritePolicy(w) PROVE Granting(w, i) \/ k \in undone'
  <2>1. /\ wpc[w] = "write" /\ Overtakes(w)
        /\ KeyFor(wmsg[w]) = k \/ k \in overtaken[w]
    BY <1>1, <1>3, PutsForeign DEF GrantsInv
  <2>2. CASE KeyFor(wmsg[w]) = k
    <3>1. wmsg[w] = Grant(i)
      BY <2>1, <2>2, OnlyItsGrant DEF GrantsInv, MidTurn
    <3> QED
      BY <2>1, <3>1 DEF Granting, MidTurn
  <2>3. CASE k \in overtaken[w]
    BY <1>1, <2>1, <2>3 DEF Overtakes
  <2> QED
    BY <2>1, <2>2, <2>3
<1> QED
  BY <1>2, <1>3, PolicyChanges DEF policyVars

\* What is noted as taken back stays so until its own grant is put.
LEMMA UndoneStays ==
  ASSUME IInv, GrantsInv, [Next]_vars, NEW i \in Ids, Standing(i), KeyOf[i] \in undone
  PROVE  \/ KeyOf[i] \in undone'
         \/ \E w \in Workers : WritePolicy(w) /\ Granting(w, i)
<1> DEFINE k == KeyOf[i]
<1> QueueInv
  BY DEF IInv
<1>1. CASE UNCHANGED undone
  BY <1>1
<1>2. ASSUME NEW w \in Workers, WritePolicy(w) PROVE Granting(w, i) \/ k \in undone'
  <2>1. CASE UNCHANGED policyVars
    BY <2>1 DEF policyVars
  <2>2. CASE Overtakes(w) /\ KeyFor(wmsg[w]) # k
    BY <2>2, MsgFacts DEF Overtakes
  <2>3. CASE KeyFor(wmsg[w]) = k
    <3>1. MidTurn(w)
      BY <1>2 DEF WritePolicy, MidTurn
    <3>2. wmsg[w] = Grant(i)
      BY <2>3, <3>1, OnlyItsGrant DEF GrantsInv
    <3> QED
      BY <3>1, <3>2 DEF Granting
  <2> QED
    BY <1>2, <2>1, <2>2, <2>3 DEF WritePolicy
<1>3. ASSUME NEW q \in Requests, NEW p \in Principals, DeleteRole(q, p) PROVE UNCHANGED undone
  BY <1>3 DEF DeleteRole
<1> QED
  BY <1>1, <1>2, <1>3, PolicyChanges DEF policyVars

LEMMA ConvergingStep == IInv /\ GrantsInv /\ [Next]_vars => Converging'
<1> SUFFICES ASSUME IInv, GrantsInv, [Next]_vars, NEW i \in Ids, Standing(i)'
             PROVE  \/ KeyOf[i] \in undone'
                    \/ policy'[KeyOf[i]] = level'[i]
                    \/ Coming(i)'
                    \/ \E w \in Workers : Granting(w, i)' /\ wlevel'[w] = level'[i]
  BY DEF Converging
<1> DEFINE k == KeyOf[i]
           Done == \/ k \in undone'
                   \/ policy'[k] = level'[i]
                   \/ Coming(i)'
                   \/ \E w \in Workers : Granting(w, i)' /\ wlevel'[w] = level'[i]
<1> QueueInv /\ TypeOK
  BY DEF IInv, QueueInv
<1>1. CASE Standing(i) /\ level'[i] = level[i]
  <2>1. ASSUME Coming(i) PROVE Done
    BY <1>1, <2>1, ComingStep
  <2>2. ASSUME NEW v \in Workers, Granting(v, i), wlevel[v] = level[i] PROVE Done
    BY <1>1, <2>2, GrantingStep
  <2>3. ASSUME NEW w \in Workers, WritePolicy(w), Granting(w, i) PROVE Done
    <3>1. k \in Keys /\ k[1] \in roles /\ KeyFor(wmsg[w]) = k
      <4>1. wmsg[w] = Grant(i) /\ KeyFor(Grant(i)) = k
        BY <2>3 DEF Granting, KeyFor, Grant
      <4> QED
        BY <1>1, <4>1, MsgFacts DEF Standing
    <3>2. Overtakes(w)
      BY <2>3, <3>1 DEF WritePolicy
    <3>3. CASE wlevel[w] = level[i]
      BY <2>2, <2>3, <3>3
    <3>4. CASE wlevel[w] # level[i] /\ k \in overtaken[w]
      <4>1. CASE policy'[k] # policy[k] \/ k \in undone
        BY <3>1, <3>2, <3>4, <4>1 DEF Overtakes
      <4>2. CASE policy'[k] = policy[k] /\ k \notin undone
        <5>1. policy[k] # level[i] \/ Done
          BY <1>1, <4>2
        <5> QED
          BY <1>1, <2>1, <2>2, <4>2, <5>1 DEF GrantsInv, Converging
      <4> QED
        BY <4>1, <4>2
    <3> QED
      BY <1>1, <2>1, <2>2, <2>3, <3>3, <3>4 DEF GrantsInv, OutdatedIsCovered
  <2>4. ASSUME ~ \E w \in Workers : WritePolicy(w) /\ Granting(w, i) PROVE Done
    <3>1. CASE k \in undone
      BY <1>1, <2>4, <3>1, UndoneStays
    <3>2. CASE policy[k] = level[i]
      BY <1>1, <2>4, <3>2, StandingPolicy
    <3> QED
      BY <1>1, <2>1, <2>2, <3>1, <3>2 DEF GrantsInv, Converging
  <2> QED
    BY <2>3, <2>4
<1> QED
  BY <1>1, StandingBefore

LEMMA CoveredStep == IInv /\ GrantsInv /\ [Next]_vars => OutdatedIsCovered'
<1> SUFFICES ASSUME IInv, GrantsInv, [Next]_vars, NEW i \in Ids, NEW w \in Workers,
                    Standing(i)', Granting(w, i)', wlevel'[w] # level'[i]
             PROVE  \/ Coming(i)'
                    \/ KeyOf[i] \in overtaken'[w]
                    \/ \E v \in Workers : Granting(v, i)' /\ wlevel'[v] = level'[i]
  BY DEF OutdatedIsCovered
<1> DEFINE k == KeyOf[i]
<1> QueueInv /\ TypeOK
  BY DEF IInv, QueueInv
<1>0. /\ wmsg'[w] = Grant(i) /\ wpc'[w] \in {"read", "write"}
      /\ Grant(i)[1] = "grant" /\ Grant(i)[2] = i /\ KeyFor(Grant(i)) = k /\ k \in Keys
  BY MsgFacts DEF Granting, MidTurn, Grant, KeyFor
<1>1. CASE Standing(i) /\ level'[i] = level[i]
  <2>1. /\ Granting(w, i) /\ wlevel'[w] = wlevel[w]
        /\ Stays(w) \/ ReadPolicy(w)
    <3>1. CASE Stays(w)
      BY <1>0, <3>1 DEF Stays, Granting, MidTurn
    <3>2. CASE GetRow(w)
      <4>1. wmsg[w] = Grant(i) /\ wlevel'[w] = level[i]
        BY <1>0, <3>2 DEF GetRow, Idle, TypeOK
      <4> QED
        BY <1>1, <4>1
    <3>3. CASE StartRevoke(w)
      BY <1>0, <3>3 DEF StartRevoke
    <3>4. CASE ReadPolicy(w)
      BY <1>0, <3>4 DEF ReadPolicy, Idle, WGo, TypeOK, Granting, MidTurn
    <3>5. ~ (\/ WritePolicy(w) \/ FanOut(w) \/ Ack(w) \/ FanOutFails(w) \/ WorkerFails(w)
             \/ \E m \in Msgs : Take(w, m))
      BY <1>0 DEF WritePolicy, FanOut, Ack, FanOutFails, WorkerFails, Take, Idle, WGo, TypeOK
    <3> QED
      BY <3>1, <3>2, <3>3, <3>4, <3>5, OwnStep DEF WorkerStep
  <2>2. CASE Coming(i)
    BY <1>1, <2>2, ComingStep
  <2>3. CASE k \in overtaken[w]
    <3>1. CASE Stays(w)
      BY <2>1, <2>3, <3>1, OvertakenGrows DEF Granting
    <3>2. CASE ReadPolicy(w)
      <4>1. wmsg[w] = Grant(i)
        BY <2>1 DEF Granting
      <4>2. overtaken' = [overtaken EXCEPT ![w] = @ \cap {KeyFor(wmsg[w])}]
        BY <1>0, <3>2 DEF ReadPolicy, Idle, WGo, TypeOK
      <4> QED
        BY <1>0, <2>3, <4>1, <4>2 DEF TypeOK
    <3> QED
      BY <2>1, <3>1, <3>2
  <2>4. ASSUME NEW v \in Workers, Granting(v, i), wlevel[v] = level[i]
        PROVE  \/ Coming(i)'
               \/ k \in overtaken'[w]
               \/ Granting(v, i)' /\ wlevel'[v] = level'[i]
    <3>1. CASE WritePolicy(v)
      <4>1. v # w
        BY <1>1, <2>1, <2>4
      <4>2. KeyFor(wmsg[v]) = k /\ KeyFor(wmsg[w]) = k /\ MidTurn(w) /\ k[1] \in roles
        BY <1>0, <1>1, <2>1, <2>4 DEF Granting, Standing
      <4> QED
        BY <1>0, <3>1, <4>1, <4>2, PutIsNews DEF SameRole
    <3>2. CASE ~ WritePolicy(v)
      BY <1>1, <2>4, <3>2, GrantingStep
    <3> QED
      BY <3>1, <3>2
  <2> QED
    BY <1>1, <2>1, <2>2, <2>3, <2>4 DEF GrantsInv, OutdatedIsCovered
<1> QED
  BY <1>1, StandingBefore

\* A row that stands is in its role's policy once its grants are handled
\* (s3bucket.py, handlers/s3.py, aws.py), unless the last put of its entry took
\* back what another worker had put: for any number of workers, and whatever
\* the order, failures and redeliveries.
THEOREM GrantsArrive == Spec => []GrantsConverge
<1>1. Init => GrantsInv
  <2> SUFFICES ASSUME Init PROVE GrantsInv
    OBVIOUS
  <2>1. DocumentsFresh
    BY DEF Init, DocumentsFresh
  <2>2. TableInv
    BY MsgFacts
    DEF Init, TableInv, RowsUnique, RowsUsed, GoneWasRevoked, RequestsUsed, QueuedWasSent, GrantsUsed
  <2>3. Converging /\ OutdatedIsCovered
    BY DEF Init, Converging, OutdatedIsCovered, Standing
  <2> QED
    BY <2>1, <2>2, <2>3 DEF GrantsInv
<1>2. IInv /\ GrantsInv /\ [Next]_vars => GrantsInv'
  BY FreshStep, TableStep, ConvergingStep, CoveredStep DEF GrantsInv, IInv
<1>3. IInv /\ GrantsInv => GrantsConverge
  <2> SUFFICES ASSUME IInv, GrantsInv, NEW i \in Ids, Standing(i), Settled(i), KeyOf[i] \notin undone
               PROVE  policy[KeyOf[i]] = level[i]
    BY DEF GrantsConverge, Standing
  <2> QueueInv /\ TypeOK /\ TableInv
    BY DEF IInv, QueueInv, GrantsInv
  <2>1. ASSUME NEW w \in Workers, wmsg[w] = Grant(i), wpc[w] # "idle" PROVE FALSE
    BY <2>1, HeldWasSent DEF Settled
  <2>2. ~ Spare(Grant(i))
    BY HolderFacts DEF Spare, Settled
  <2>3. ~ Coming(i)
    BY <2>1, <2>2 DEF Coming, Settled
  <2> QED
    BY <2>1, <2>3 DEF GrantsInv, Converging, Granting, MidTurn
<1> QED
  BY <1>1, <1>2, <1>3, AskedInvariant, PTL DEF Spec
=============================================================================
