--------------------------- MODULE RoleGroupProofs ---------------------------
(***************************************************************************)
(* Whatever earlier requests left behind, a request on a group that no     *)
(* other one overlaps leaves IAM as the database says.                     *)
(***************************************************************************)
EXTENDS RoleGroup, TLAPS

\* A policy that is not there is attached to nobody.
NothingDangles == ~policy => attached = {}

\* A request that was not overlapped runs alone.
Lonely(r) == r \in Running \ overlapped
LonelyIsAlone == \A r \in Requests : Lonely(r) => Running = {r}

\* And what it holds is still what the database and IAM say.
SaveHoldsTruth(r) ==
  /\ At(r, "roles") \/ At(r, "apply") => req[r].names = members
  /\ At(r, "apply") => /\ policy
                       /\ req[r].attach = members \ attached
                       /\ req[r].detach = attached \ members
DeleteHoldsTruth(r) ==
  /\ At(r, "clear") => policy /\ req[r].detach = attached
  /\ At(r, "forget") => ~policy
LonelyHoldsTruth == \A r \in Requests : Lonely(r) => SaveHoldsTruth(r) /\ DeleteHoldsTruth(r)

\* The inductive invariant.
IInv == TypeOK /\ NothingDangles /\ LonelyIsAlone /\ LonelyHoldsTruth

-----------------------------------------------------------------------------

Start(r) == \/ Create(r) \/ Delete(r) \/ GrantBucket(r) \/ RevokeBucket(r)
            \/ \E u \in Users : AddUser(r, u) \/ RemoveUser(r, u)
GoOn(r) == SaveStep(r) \/ DeleteStep(r) \/ RequestFails(r)

LEMMA NextIs == Next <=> \E r \in Requests : Start(r) \/ GoOn(r)
BY DEF Next, Start, GoOn

\* Type correctness of one request's record after a change to it.
LEMMA Fields ==
  ASSUME TypeOK, NEW r \in Requests
  PROVE  /\ req[r] = [kind |-> req[r].kind, step |-> req[r].step, names |-> req[r].names,
                      attach |-> req[r].attach, detach |-> req[r].detach]
         /\ req[r].kind \in Kinds /\ req[r].step \in Steps
         /\ req[r].names \in SUBSET Users
         /\ req[r].attach \in SUBSET Users /\ req[r].detach \in SUBSET Users
BY DEF TypeOK, RequestState

\* The last part of TypeOK.
ReqFits ==
  \A r \in Requests : /\ req[r].attach \cap req[r].detach = {}
                      /\ req[r].step = "load" => req[r].attach = {}

LEMMA StepTyped ==
  ASSUME TypeOK, NEW r \in Requests, NEW s \in Steps \ {"load"}, GoTo(r, s)
  PROVE  req' \in [Requests -> RequestState] /\ ReqFits'
BY DEF TypeOK, RequestState, GoTo, ReqFits

LEMMA RecordTyped ==
  ASSUME TypeOK, NEW r \in Requests, NEW new \in RequestState,
         new.attach \cap new.detach = {}, new.step # "load",
         req' = [req EXCEPT ![r] = new]
  PROVE  req' \in [Requests -> RequestState] /\ ReqFits'
BY DEF TypeOK, ReqFits

LEMMA StartTyped ==
  ASSUME TypeOK, NEW r \in Requests, Start(r)
  PROVE  TypeOK'
<1>1. ASSUME NEW k \in Kinds, NEW s \in Steps, Begin(r, k, s)
      PROVE  /\ req' \in [Requests -> RequestState]
             /\ ReqFits'
             /\ overlapped' \subseteq Requests
  <2>1. [Fresh EXCEPT !.kind = k, !.step = s] \in RequestState BY DEF Fresh, RequestState
  <2>2. req' \in [Requests -> RequestState] BY <1>1, <2>1 DEF Begin, TypeOK, ReqFits
  <2>3. ReqFits' BY <1>1 DEF Begin, TypeOK, Fresh, RequestState, ReqFits
  <2>4. overlapped' \subseteq Requests BY <1>1 DEF Begin, TypeOK, ReqFits, Running
  <2> QED BY <2>2, <2>3, <2>4
<1>2. CASE Create(r) BY <1>1, <1>2 DEF Create, TypeOK, ReqFits, Kinds, Steps
<1>3. CASE Delete(r) BY <1>1, <1>3 DEF Delete, TypeOK, ReqFits, Kinds, Steps
<1>4. CASE GrantBucket(r) BY <1>1, <1>4 DEF GrantBucket, TypeOK, ReqFits, Kinds, Steps
<1>5. CASE RevokeBucket(r) BY <1>1, <1>5 DEF RevokeBucket, TypeOK, ReqFits, Kinds, Steps
<1>6. ASSUME NEW u \in Users, AddUser(r, u) \/ RemoveUser(r, u) PROVE TypeOK'
  BY <1>1, <1>6 DEF AddUser, RemoveUser, TypeOK, ReqFits, Kinds, Steps
<1> QED BY <1>2, <1>3, <1>4, <1>5, <1>6 DEF Start

LEMMA GoOnTyped ==
  ASSUME TypeOK, NEW r \in Requests, GoOn(r)
  PROVE  TypeOK'
<1> DEFINE Typed == req' \in [Requests -> RequestState] /\ ReqFits'
<1>0. CASE CallFails(r) BY <1>0, StepTyped DEF CallFails, TypeOK, ReqFits, Steps
<1>1. CASE CreatePolicy(r) BY <1>1, StepTyped DEF CreatePolicy, TypeOK, ReqFits, Steps
<1>2. CASE SaveRow(r) BY <1>2, StepTyped DEF SaveRow, TypeOK, ReqFits, Steps
<1>3. CASE ReadNames(r)
  <2> DEFINE new == [req[r] EXCEPT !.names = members, !.step = "roles"]
  <2>0. req[r] \in RequestState /\ members \in SUBSET Users /\ "roles" \in Steps
    BY DEF TypeOK, Steps
  <2>1. new \in RequestState BY <2>0 DEF RequestState
  <2>2. new.attach \cap new.detach = {} /\ new.step = "roles" BY Fields DEF TypeOK
  <2>3. req' = [req EXCEPT ![r] = new] BY <1>3 DEF ReadNames
  <2>4. Typed BY <2>1, <2>2, <2>3, RecordTyped
  <2> QED BY <1>3, <2>4 DEF ReadNames, TypeOK, ReqFits
<1>4. CASE ReadRoles(r) /\ ~CallFails(r)
  <2> DEFINE new == [req[r] EXCEPT !.attach = req[r].names \ attached,
                                   !.detach = attached \ req[r].names, !.step = "apply"]
  <2>0. /\ req[r] \in RequestState /\ "apply" \in Steps
        /\ req[r].names \ attached \in SUBSET Users /\ attached \ req[r].names \in SUBSET Users
    BY Fields DEF TypeOK, Steps
  <2>1. new \in RequestState BY <2>0 DEF RequestState
  <2>2. new.attach \cap new.detach = {} /\ new.step = "apply" BY Fields DEF TypeOK
  <2>3. req' = [req EXCEPT ![r] = new] BY <1>4 DEF ReadRoles
  <2>4. Typed BY <2>1, <2>2, <2>3, RecordTyped
  <2> QED BY <1>4, <2>4 DEF ReadRoles, TypeOK, ReqFits
<1>5. CASE AttachRole(r) /\ ~CallFails(r)
  <2>1. PICK u \in req[r].attach : /\ attached' = attached \cup {u}
                                   /\ req' = [req EXCEPT ![r].attach = @ \ {u}]
    BY <1>5 DEF AttachRole
  <2>2. Typed BY <2>1, Fields DEF TypeOK, ReqFits, RequestState
  <2>3. attached' \subseteq Users BY <2>1, Fields DEF TypeOK, ReqFits
  <2> QED BY <1>5, <2>2, <2>3 DEF AttachRole, TypeOK, ReqFits
<1>6. CASE (DetachRole(r) \/ ClearRole(r)) /\ ~CallFails(r)
  <2>1. PICK u \in req[r].detach : /\ attached' = attached \ {u}
                                   /\ req' = [req EXCEPT ![r].detach = @ \ {u}]
    BY <1>6 DEF DetachRole, ClearRole
  <2>2. Typed BY <2>1, Fields DEF TypeOK, ReqFits, RequestState
  <2>3. attached' \subseteq Users BY <2>1 DEF TypeOK, ReqFits
  <2> QED BY <1>6, <2>2, <2>3 DEF DetachRole, ClearRole, TypeOK, ReqFits
<1>7. CASE Report(r) BY <1>7, StepTyped DEF Report, TypeOK, ReqFits, Steps
<1>8. CASE LoadPolicy(r)
  <2>1. req[r].attach = {} BY <1>8 DEF LoadPolicy, At, TypeOK, ReqFits
  <2> DEFINE new == IF policy THEN [req[r] EXCEPT !.step = "clear", !.detach = attached]
                    ELSE [req[r] EXCEPT !.step = "forget"]
  <2>2. new \in RequestState
    <3>1. req[r] \in RequestState /\ attached \in SUBSET Users /\ {"clear", "forget"} \subseteq Steps
      BY DEF TypeOK, Steps
    <3>2. CASE policy
      <4>1. new = [req[r] EXCEPT !.step = "clear", !.detach = attached] BY <3>2
      <4> QED BY <3>1, <4>1 DEF RequestState
    <3>3. CASE ~ policy
      <4>1. new = [req[r] EXCEPT !.step = "forget"] BY <3>3
      <4> QED BY <3>1, <4>1 DEF RequestState
    <3> QED BY <3>2, <3>3
  <2>3. new.attach \cap new.detach = {} /\ new.step # "load" BY <2>1, Fields DEF TypeOK
  <2>4. req' = [req EXCEPT ![r] = new] BY <1>8 DEF LoadPolicy
  <2>5. Typed BY <2>2, <2>3, <2>4, RecordTyped
  <2> QED BY <1>8, <2>5 DEF LoadPolicy, TypeOK, ReqFits
<1>9. CASE DropPolicy(r) /\ ~CallFails(r) BY <1>9, StepTyped DEF DropPolicy, TypeOK, ReqFits, Steps
<1>10. CASE DeleteRow(r) /\ ~CallFails(r) BY <1>10, StepTyped DEF DeleteRow, TypeOK, ReqFits, Steps
<1>11. CASE RequestFails(r)
  <2>1. faults' \in 0 .. MaxFaults BY <1>11, RoleGroupAssumption DEF RequestFails, TypeOK, ReqFits
  <2> QED BY <1>11, <2>1, StepTyped DEF RequestFails, TypeOK, ReqFits, Steps
<1> QED BY <1>0, <1>1, <1>2, <1>3, <1>4, <1>5, <1>6, <1>7, <1>8, <1>9, <1>10, <1>11
        DEF GoOn, SaveStep, DeleteStep

LEMMA TypeStep == TypeOK /\ [Next]_vars => TypeOK'
<1> SUFFICES ASSUME TypeOK, [Next]_vars PROVE TypeOK' OBVIOUS
<1>1. CASE Next BY <1>1, NextIs, StartTyped, GoOnTyped
<1>2. CASE UNCHANGED vars BY <1>2 DEF vars, TypeOK
<1> QED BY <1>1, <1>2

LEMMA TypeInit == Init => TypeOK
<1> SUFFICES ASSUME Init PROVE TypeOK OBVIOUS
<1>1. Fresh \in RequestState BY DEF Fresh, RequestState, Kinds, Steps
<1>2. \A r \in Requests : req[r].attach \cap req[r].detach = {} /\ req[r].step = "idle"
  BY DEF Init, Fresh
<1>3. req \in [Requests -> RequestState] BY <1>1 DEF Init
<1>4. faults \in 0 .. MaxFaults BY RoleGroupAssumption DEF Init
<1> QED BY <1>2, <1>3, <1>4 DEF Init, TypeOK

\* The variables keep their types.
THEOREM TypeCorrect == Spec => []TypeOK
BY TypeInit, TypeStep, PTL DEF Spec

-----------------------------------------------------------------------------
(* Who is alone *)

\* A request that starts overlaps all that run, and they overlap it.
LEMMA StartOverlaps ==
  ASSUME TypeOK, NEW r \in Requests, Start(r)
  PROVE  /\ UNCHANGED <<policy, attached>>
         /\ \A q \in Requests : Lonely(q)' => Running' = {q} /\ q = r
         /\ req'[r].step \in {"make", "save", "load", "done", "failed"}
<1>1. ASSUME NEW k, NEW s \in {"make", "save", "load", "done", "failed"}, Begin(r, k, s)
      PROVE  /\ \A q \in Requests : Lonely(q)' => Running' = {q} /\ q = r
             /\ req'[r].step \in {"make", "save", "load", "done", "failed"}
  <2>1. req'[r].step = s /\ \A q \in Requests \ {r} : req'[q] = req[q]
    BY <1>1 DEF Begin, TypeOK, Fresh
  <2>2. ASSUME NEW q \in Requests, Lonely(q)' PROVE Running' = {q} /\ q = r
    <3>1. q \notin Running BY <1>1, <2>2 DEF Begin, Lonely
    <3>2. q = r BY <2>1, <2>2, <3>1 DEF Lonely, Running
    <3>3. Running = {} BY <1>1, <2>2, <3>2 DEF Begin, Lonely
    <3>4. Running' \subseteq {r} BY <2>1, <3>3 DEF Running
    <3>5. q \in Running' BY <2>2 DEF Lonely
    <3> QED BY <3>2, <3>4, <3>5
  <2> QED BY <2>1, <2>2
<1> QED BY <1>1 DEF Start, Create, Delete, GrantBucket, RevokeBucket, AddUser, RemoveUser

\* A request that goes on was running, and moves no other.
LEMMA GoOnFacts ==
  ASSUME TypeOK, NEW r \in Requests, GoOn(r)
  PROVE  /\ r \in Running
         /\ overlapped' = overlapped
         /\ \A q \in Requests \ {r} : req'[q] = req[q]
<1>1. ASSUME SaveStep(r) \/ DeleteStep(r)
      PROVE  r \in Running /\ overlapped' = overlapped
  BY <1>1 DEF SaveStep, DeleteStep, CreatePolicy, SaveRow, ReadNames, ReadRoles, AttachRole,
              DetachRole, Report, LoadPolicy, ClearRole, DropPolicy, DeleteRow, CallFails,
              At, Running
<1>2. ASSUME SaveStep(r) \/ DeleteStep(r)
      PROVE  \A q \in Requests \ {r} : req'[q] = req[q]
  BY <1>2 DEF SaveStep, DeleteStep, CreatePolicy, SaveRow, ReadNames, ReadRoles, AttachRole,
              DetachRole, Report, LoadPolicy, ClearRole, DropPolicy, DeleteRow, CallFails,
              GoTo, TypeOK
<1>3. CASE RequestFails(r) BY <1>3 DEF RequestFails, GoTo, TypeOK
<1> QED BY <1>1, <1>2, <1>3 DEF GoOn

\* If some request is alone after that, it is the one that went on.
LEMMA GoOnAlone ==
  ASSUME IInv, NEW r \in Requests, GoOn(r), NEW q \in Requests, Lonely(q)'
  PROVE  q = r /\ Lonely(r) /\ Running' = {q}
<1>1. r \in Running /\ overlapped' = overlapped /\ \A p \in Requests \ {r} : req'[p] = req[p]
  BY GoOnFacts DEF IInv
<1>2. Running' \subseteq Running BY <1>1 DEF Running
<1>3. q \in Running' /\ Lonely(q) BY <1>1, <1>2 DEF Lonely
<1>4. Running = {q} BY <1>3 DEF IInv, LonelyIsAlone
<1> QED BY <1>1, <1>2, <1>3, <1>4

-----------------------------------------------------------------------------
(* What a lonely request holds *)

\* The step of a request is what it is set to.
LEMMA StepIs ==
  ASSUME TypeOK, NEW r \in Requests, NEW s, GoTo(r, s)
  PROVE  req'[r] = [req[r] EXCEPT !.step = s] /\ req'[r].step = s
BY Fields DEF TypeOK, GoTo

LEMMA GoOnDangles ==
  ASSUME IInv, NEW r \in Requests, GoOn(r)
  PROVE  NothingDangles'
<1> USE DEF IInv, NothingDangles
<1>1. CASE SaveStep(r)
  BY <1>1 DEF SaveStep, CreatePolicy, SaveRow, ReadNames, ReadRoles, AttachRole,
              DetachRole, Report, CallFails
<1>2. CASE DeleteStep(r)
  BY <1>2 DEF DeleteStep, LoadPolicy, ClearRole, DropPolicy, DeleteRow, CallFails
<1>3. CASE RequestFails(r) BY <1>3 DEF RequestFails
<1> QED BY <1>1, <1>2, <1>3 DEF GoOn

LEMMA GoOnHolds ==
  ASSUME IInv, NEW r \in Requests, GoOn(r), Lonely(r)
  PROVE  SaveHoldsTruth(r)' /\ DeleteHoldsTruth(r)'
<1> DEFINE Holds == SaveHoldsTruth(r)' /\ DeleteHoldsTruth(r)'
           Plain == {"names", "load", "done", "failed"}
<1>a. TypeOK /\ SaveHoldsTruth(r) /\ DeleteHoldsTruth(r) BY DEF IInv, LonelyHoldsTruth
<1>b. ASSUME req'[r].step \in Plain PROVE Holds
  BY <1>b DEF SaveHoldsTruth, DeleteHoldsTruth, At
<1>c. ASSUME NEW s \in Plain, GoTo(r, s) PROVE Holds BY <1>a, <1>b, <1>c, StepIs
<1>0. CASE CallFails(r) \/ RequestFails(r) BY <1>0, <1>c DEF CallFails, RequestFails
<1>1. CASE CreatePolicy(r) \/ SaveRow(r) \/ Report(r)
  BY <1>1, <1>c DEF CreatePolicy, SaveRow, Report
<1>2. CASE ReadNames(r)
  <2>1. req'[r].names = members /\ req'[r].step = "roles" /\ members' = members
    BY <1>a, <1>2, Fields DEF ReadNames, TypeOK
  <2> QED BY <2>1 DEF SaveHoldsTruth, DeleteHoldsTruth, At
<1>3. CASE ReadRoles(r) /\ ~CallFails(r)
  <2>1. req[r].names = members BY <1>a, <1>3 DEF ReadRoles, SaveHoldsTruth, At
  <2> DEFINE new == [req[r] EXCEPT !.attach = req[r].names \ attached,
                                   !.detach = attached \ req[r].names, !.step = "apply"]
  <2>4. req'[r] = new BY <1>a, <1>3 DEF ReadRoles, TypeOK
  <2>5. /\ new.names = req[r].names /\ new.step = "apply"
        /\ new.attach = req[r].names \ attached /\ new.detach = attached \ req[r].names
    BY <1>a, Fields
  <2>2. /\ req'[r].names = members /\ req'[r].step = "apply"
        /\ req'[r].attach = members \ attached /\ req'[r].detach = attached \ members
    BY <2>1, <2>4, <2>5
  <2>3. policy /\ UNCHANGED <<members, policy, attached>> BY <1>3 DEF ReadRoles
  <2> QED BY <2>2, <2>3 DEF SaveHoldsTruth, DeleteHoldsTruth, At
<1>4. CASE AttachRole(r) /\ ~CallFails(r)
  <2>1. PICK u \in req[r].attach : /\ attached' = attached \cup {u}
                                   /\ req' = [req EXCEPT ![r].attach = @ \ {u}]
    BY <1>4 DEF AttachRole
  <2>2. req'[r] = [req[r] EXCEPT !.attach = @ \ {u}] BY <1>a, <2>1 DEF TypeOK
  <2>3. /\ req'[r].names = req[r].names /\ req'[r].step = "apply"
        /\ req'[r].attach = req[r].attach \ {u} /\ req'[r].detach = req[r].detach
    BY <1>a, <1>4, <2>2, Fields DEF AttachRole, At
  <2>4. policy /\ UNCHANGED <<members, policy>> BY <1>4 DEF AttachRole
  <2>5. /\ req[r].names = members
        /\ req[r].attach = members \ attached /\ req[r].detach = attached \ members
    BY <1>a, <1>4 DEF AttachRole, SaveHoldsTruth, At
  <2>6. /\ req'[r].attach = members \ attached'
        /\ req'[r].detach = attached' \ members
    BY <2>1, <2>3, <2>5
  <2> QED BY <2>3, <2>4, <2>5, <2>6 DEF SaveHoldsTruth, DeleteHoldsTruth, At
<1>5. CASE DetachRole(r) /\ ~CallFails(r)
  <2>1. PICK u \in req[r].detach : /\ attached' = attached \ {u}
                                   /\ req' = [req EXCEPT ![r].detach = @ \ {u}]
    BY <1>5 DEF DetachRole
  <2>2. req'[r] = [req[r] EXCEPT !.detach = @ \ {u}] BY <1>a, <2>1 DEF TypeOK
  <2>3. /\ req'[r].names = req[r].names /\ req'[r].step = "apply"
        /\ req'[r].attach = req[r].attach /\ req'[r].detach = req[r].detach \ {u}
    BY <1>a, <1>5, <2>2, Fields DEF DetachRole, At
  <2>4. UNCHANGED <<members, policy>> BY <1>5 DEF DetachRole
  <2>5. /\ req[r].names = members /\ policy
        /\ req[r].attach = members \ attached /\ req[r].detach = attached \ members
    BY <1>a, <1>5 DEF DetachRole, SaveHoldsTruth, At
  <2>6. /\ req'[r].attach = members \ attached'
        /\ req'[r].detach = attached' \ members
    BY <2>1, <2>3, <2>5
  <2> QED BY <2>3, <2>4, <2>5, <2>6 DEF SaveHoldsTruth, DeleteHoldsTruth, At
<1>6. CASE LoadPolicy(r)
  <2>1. /\ policy => req'[r].step = "clear" /\ req'[r].detach = attached
        /\ ~policy => req'[r].step = "forget"
    BY <1>a, <1>6, Fields DEF LoadPolicy, TypeOK
  <2>2. UNCHANGED <<policy, attached>> BY <1>6 DEF LoadPolicy
  <2> QED BY <2>1, <2>2 DEF SaveHoldsTruth, DeleteHoldsTruth, At
<1>7. CASE ClearRole(r) /\ ~CallFails(r)
  <2>1. PICK u \in req[r].detach : /\ attached' = attached \ {u}
                                   /\ req' = [req EXCEPT ![r].detach = @ \ {u}]
    BY <1>7 DEF ClearRole
  <2>2. req'[r] = [req[r] EXCEPT !.detach = @ \ {u}] BY <1>a, <2>1 DEF TypeOK
  <2>3. req'[r].step = "clear" /\ req'[r].detach = req[r].detach \ {u}
    BY <1>a, <1>7, <2>2, Fields DEF ClearRole, At
  <2>4. policy /\ policy' = policy /\ req[r].detach = attached
    BY <1>a, <1>7 DEF ClearRole, DeleteHoldsTruth, At
  <2> QED BY <2>1, <2>3, <2>4 DEF SaveHoldsTruth, DeleteHoldsTruth, At
<1>8. CASE DropPolicy(r) /\ ~CallFails(r)
  <2>1. ~policy' /\ req'[r].step = "forget" BY <1>a, <1>8, StepIs DEF DropPolicy
  <2> QED BY <2>1 DEF SaveHoldsTruth, DeleteHoldsTruth, At
<1>9. CASE DeleteRow(r) /\ ~CallFails(r) BY <1>9, <1>c DEF DeleteRow
<1> QED BY <1>0, <1>1, <1>2, <1>3, <1>4, <1>5, <1>6, <1>7, <1>8, <1>9
        DEF GoOn, SaveStep, DeleteStep

-----------------------------------------------------------------------------

LEMMA InitHolds == Init => IInv
<1> SUFFICES ASSUME Init PROVE IInv OBVIOUS
<1>1. \A r \in Requests : r \notin Running BY DEF Init, Running, Fresh
<1>2. NothingDangles BY DEF Init, NothingDangles
<1> QED BY <1>1, <1>2, TypeInit DEF IInv, LonelyIsAlone, LonelyHoldsTruth, Lonely

LEMMA StepHolds == IInv /\ [Next]_vars => IInv'
<1> SUFFICES ASSUME IInv, [Next]_vars PROVE IInv' OBVIOUS
<1>0. TypeOK' BY TypeStep DEF IInv
<1>1. ASSUME NEW r \in Requests, Start(r) PROVE IInv'
  <2>1. NothingDangles' BY <1>1, StartOverlaps DEF IInv, NothingDangles
  <2>2. LonelyIsAlone' BY <1>1, StartOverlaps DEF IInv, LonelyIsAlone
  <2>3. ASSUME NEW q \in Requests, Lonely(q)' PROVE (SaveHoldsTruth(q) /\ DeleteHoldsTruth(q))'
    <3>1. q = r /\ req'[r].step \in {"make", "save", "load", "done", "failed"}
      BY <1>1, <2>3, StartOverlaps DEF IInv
    <3> QED BY <3>1 DEF SaveHoldsTruth, DeleteHoldsTruth, At
  <2> QED BY <1>0, <2>1, <2>2, <2>3 DEF IInv, LonelyHoldsTruth
<1>2. ASSUME NEW r \in Requests, GoOn(r) PROVE IInv'
  <2>1. NothingDangles' BY <1>2, GoOnDangles
  <2>2. LonelyIsAlone' BY <1>2, GoOnAlone DEF LonelyIsAlone
  <2>3. ASSUME NEW q \in Requests, Lonely(q)' PROVE (SaveHoldsTruth(q) /\ DeleteHoldsTruth(q))'
    BY <1>2, <2>3, GoOnAlone, GoOnHolds
  <2> QED BY <1>0, <2>1, <2>2, <2>3 DEF IInv, LonelyHoldsTruth
<1>3. CASE UNCHANGED vars
  BY <1>0, <1>3 DEF vars, IInv, NothingDangles, LonelyIsAlone, LonelyHoldsTruth, Lonely,
                    Running, SaveHoldsTruth, DeleteHoldsTruth, At
<1> QED BY <1>1, <1>2, <1>3, NextIs

\* The step that ends a request that ran alone finds nothing left to do.
LEMMA EndsRepaired ==
  ASSUME IInv, Next
  PROVE  \A r \in Requests \ overlapped' :
           /\ At(r, "apply") /\ Ends(r) => policy' /\ attached' = members'
           /\ At(r, "forget") /\ Ends(r) => ~policy' /\ attached' = {} /\ ~row'
<1> SUFFICES ASSUME NEW r \in Requests, r \notin overlapped', Ends(r),
                    At(r, "apply") \/ At(r, "forget")
             PROVE  /\ At(r, "apply") => policy' /\ attached' = members'
                    /\ At(r, "forget") => ~policy' /\ attached' = {} /\ ~row'
  OBVIOUS
<1>1. PICK q \in Requests : Start(q) \/ GoOn(q) BY NextIs
<1>2. r \in Running BY DEF Running, At
<1>3. ~Start(q)
  <2>1. ASSUME NEW k, NEW s, Begin(q, k, s) PROVE FALSE BY <1>2, <2>1 DEF Begin
  <2> QED BY <2>1 DEF Start, Create, Delete, GrantBucket, RevokeBucket, AddUser, RemoveUser
<1>4. overlapped' = overlapped BY <1>1, <1>3, GoOnFacts DEF IInv
<1>5. Lonely(r) BY <1>2, <1>4 DEF Lonely
<1>6. q = r BY <1>1, <1>3, <1>5, GoOnFacts DEF IInv, LonelyIsAlone
<1>7. SaveHoldsTruth(r) /\ DeleteHoldsTruth(r) BY <1>5 DEF IInv, LonelyHoldsTruth
<1>8. ~CallFails(r) /\ ~RequestFails(r)
  <2>1. ~GoTo(r, "failed")
    <3>1. ASSUME GoTo(r, "failed") PROVE req'[r].step = "failed" BY <3>1, StepIs DEF IInv
    <3> QED BY <3>1 DEF Ends
  <2> QED BY <2>1 DEF CallFails, RequestFails
<1>9. CASE At(r, "apply")
  <2>1. ~AttachRole(r) /\ ~DetachRole(r)
    <3>1. ASSUME NEW u, \/ req' = [req EXCEPT ![r].attach = @ \ {u}]
                        \/ req' = [req EXCEPT ![r].detach = @ \ {u}]
          PROVE  FALSE
      <4>1. req'[r].step = req[r].step BY <3>1, Fields DEF IInv, TypeOK
      <4> QED BY <4>1, <1>9 DEF At, Ends
    <3> QED BY <3>1, <1>8 DEF AttachRole, DetachRole
  <2>2. Report(r)
    BY <1>1, <1>3, <1>6, <1>8, <1>9, <2>1
    DEF GoOn, SaveStep, DeleteStep, CreatePolicy, SaveRow, ReadNames, ReadRoles, LoadPolicy,
        ClearRole, DropPolicy, DeleteRow, At
  <2>3. members \ attached = {} /\ attached \ members = {} /\ policy
    BY <1>7, <1>9, <2>2 DEF Report, SaveHoldsTruth
  <2> QED BY <1>9, <2>2, <2>3 DEF Report, At
<1>10. CASE At(r, "forget")
  <2>1. DeleteRow(r)
    BY <1>1, <1>3, <1>6, <1>8, <1>10
    DEF GoOn, SaveStep, DeleteStep, CreatePolicy, SaveRow, ReadNames, ReadRoles, AttachRole,
        DetachRole, Report, LoadPolicy, ClearRole, DropPolicy, At
  <2>2. ~policy /\ attached = {} BY <1>7, <1>10 DEF DeleteHoldsTruth, IInv, NothingDangles
  <2> QED BY <1>8, <1>10, <2>1, <2>2 DEF DeleteRow, At
<1> QED BY <1>9, <1>10

\* A request on a group that no other one overlaps leaves IAM as the database
\* says, whatever failed before it (update_policy_members, delete_policy).
THEOREM LonelyRequestsRepair == Spec => AloneRepairs
<1>1. Spec => []IInv BY InitHolds, StepHolds, PTL DEF Spec
<1>2. IInv /\ [Next]_vars =>
        [\A r \in Requests \ overlapped' :
           /\ At(r, "apply") /\ Ends(r) => policy' /\ attached' = members'
           /\ At(r, "forget") /\ Ends(r) => ~policy' /\ attached' = {} /\ ~row']_vars
  BY EndsRepaired
<1> QED BY <1>1, <1>2, PTL DEF Spec, AloneRepairs
==============================================================================
