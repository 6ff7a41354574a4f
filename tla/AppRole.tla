------------------------------ MODULE AppRole ------------------------------
(***************************************************************************)
(* The IAM role of one app: the task that makes it, the page that sets the  *)
(* Cloud Platform roles that may assume it, the switches that attach a      *)
(* service's policy, and the deletion of the app.  The role has a trust     *)
(* policy, one inline policy and attached policies; the database has the    *)
(* ARNs, one row each, and a flag per service.                              *)
(*                                                                         *)
(* Simplifications: the pages are used once registration has ended; a call  *)
(* that looks before it writes (add_inline_policy) is one step, as is the   *)
(* removal of the role.  The task's own rows and retries are TaskQueue's.   *)
(***************************************************************************)
EXTENDS Naturals, FiniteSets

CONSTANTS
  Arns,           \* Cloud Platform roles
  Services,       \* bedrock, textract, comprehend
  Pages,          \* requests of administrators, each made once
  MaxRoleFaults   \* bound: calls that fail, processes that die

ASSUME AppRoleAssumption == MaxRoleFaults \in Nat

VARIABLES
  app,       \* the App row: "none", "live" or "gone"
  todo,      \* ARNs the registration has still to insert
  arnRows,   \* CloudPlatformRole rows: the ARN and who inserted it
  flags,     \* the is_..._enabled fields of the row
  role,      \* the IAM role
  make,      \* the create_app_aws_role task
  page,      \* the requests
  failures,
  spoiled    \* history: operations overlapped, or one failed half done

roleVars == <<app, todo, arnRows, flags, role, make, page, failures, spoiled>>

NoRole == [exists |-> FALSE, trust |-> {}, inline |-> {}, attached |-> {}]
Over == [pc |-> "over"]
ArnPcs == {"wipe", "insert", "trust", "inline", "commit"}
FlagPcs == {"attach", "save"}
DropPcs == {"unrole", "drop"}
MakePcs == {"create", "policy", "put"}

ArnsOf(rows) == {row[1] : row \in rows}

\* What an open transaction has deleted and inserted, and what it sees.
Open(p) == page[p].pc \in ArnPcs
Deleted(p) == IF Open(p) THEN page[p].del ELSE {}
Added(p) == IF Open(p) THEN page[p].ins ELSE {}
Sees(p) == (arnRows \ Deleted(p)) \cup Added(p)

RoleTypeOK ==
  /\ app \in {"none", "live", "gone"} /\ todo \subseteq Arns
  /\ arnRows \subseteq Arns \X (Pages \cup {"registration"})
  /\ \A x, y \in arnRows : x[1] = y[1] => x = y
  /\ flags \in [Services -> BOOLEAN]
  /\ role \in [exists : BOOLEAN, trust : SUBSET Arns, inline : SUBSET Arns,
               attached : SUBSET Services]
  /\ ~ role.exists => role = NoRole
  /\ make.pc \in MakePcs \cup {"none", "queued", "done"} /\ make.doc \subseteq Arns
  /\ DOMAIN page = Pages
  /\ failures \in 0 .. MaxRoleFaults /\ spoiled \in BOOLEAN

RoleInit ==
  /\ app = "none" /\ todo = {} /\ arnRows = {}
  /\ flags = [s \in Services |-> FALSE]
  /\ role = NoRole /\ make = [pc |-> "none", doc |-> {}]
  /\ page = [p \in Pages |-> [pc |-> "unused"]]
  /\ failures = 0 /\ spoiled = FALSE

\* Something of the kind given is going on, besides p.
At(pcs, p) == \E q \in Pages \ {p} : page[q].pc \in pcs
Making == make.pc \in MakePcs
Overlaps(now) == spoiled' = (spoiled \/ now)

Turn(p, from, next) == page[p].pc = from /\ page' = [page EXCEPT ![p] = next]
To(p, pc) == [page[p] EXCEPT !.pc = pc]

-----------------------------------------------------------------------------
(* Registration and the task *)

\* The task is sent as the row is inserted, before the rows of the ARNs.
Register(arns) ==
  /\ app = "none" /\ app' = "live" /\ todo' = arns
  /\ make' = [make EXCEPT !.pc = "queued"]
  /\ UNCHANGED <<arnRows, flags, role, page, failures, spoiled>>

InsertArn(a) ==
  /\ a \in todo /\ todo' = todo \ {a}
  /\ arnRows' = arnRows \cup {<<a, "registration">>}
  /\ UNCHANGED <<app, flags, role, make, page, failures, spoiled>>

\* The page shows the error; what was inserted stays.
RegistrationFails ==
  /\ todo # {} /\ todo' = {}
  /\ failures < MaxRoleFaults /\ failures' = failures + 1
  /\ UNCHANGED <<app, arnRows, flags, role, make, page, spoiled>>

\* Without the row of the app the handler raises and the message comes back.
TakeMake ==
  /\ make.pc = "queued" /\ app = "live"
  /\ make' = [pc |-> "create", doc |-> ArnsOf(arnRows)]
  /\ Overlaps(todo # {} \/ \E q \in Pages : page[q].pc \in ArnPcs \cup DropPcs)
  /\ UNCHANGED <<app, todo, arnRows, flags, role, page, failures>>

CreateOverwrites ==   \* mutant: a role that exists is made again
  /\ make.pc = "create" /\ make' = [make EXCEPT !.pc = "policy"]
  /\ role' = [NoRole EXCEPT !.exists = TRUE, !.trust = make.doc]
  /\ UNCHANGED <<app, todo, arnRows, flags, page, failures, spoiled>>

\* A role that exists is left as it is.
CreateRole ==
  /\ make.pc = "create" /\ make' = [make EXCEPT !.pc = "policy"]
  /\ role' = IF role.exists THEN role
             ELSE [NoRole EXCEPT !.exists = TRUE, !.trust = make.doc]
  /\ UNCHANGED <<app, todo, arnRows, flags, page, failures, spoiled>>

ReadArns ==
  /\ make.pc = "policy" /\ make' = [pc |-> "put", doc |-> ArnsOf(arnRows)]
  /\ UNCHANGED <<app, todo, arnRows, flags, role, page, failures, spoiled>>

\* A policy that exists is left as it is; without ARNs it is removed.
PutInline(arns) ==
  role' = [role EXCEPT !.inline = IF arns = {} \/ role.inline = {} THEN arns ELSE @]
PutRaises(arns) == arns # {} /\ ~ role.exists

PutPolicy ==
  /\ make.pc = "put"
  /\ IF PutRaises(make.doc)
     THEN make' = [make EXCEPT !.pc = "queued"] /\ UNCHANGED role
     ELSE make' = [make EXCEPT !.pc = "done"] /\ PutInline(make.doc)
  /\ UNCHANGED <<app, todo, arnRows, flags, page, failures, spoiled>>

\* A call fails or the worker dies: the message is delivered again.
MakeFails ==
  /\ Making /\ make' = [make EXCEPT !.pc = "queued"]
  /\ failures < MaxRoleFaults /\ failures' = failures + 1
  /\ UNCHANGED <<app, todo, arnRows, flags, role, page, spoiled>>

-----------------------------------------------------------------------------
(* UpdateCloudPlatformRoleArn: one transaction around the calls to IAM *)

AskArns(p, arns) ==
  /\ app = "live" /\ todo = {}
  /\ Turn(p, "unused", [pc |-> "wipe", want |-> arns, seen |-> arnRows, del |-> {}, ins |-> {}])
  /\ Overlaps(Making \/ At(ArnPcs \cup DropPcs, p))
  /\ UNCHANGED <<app, todo, arnRows, flags, role, make, failures>>

\* Rows another transaction is deleting are waited for; what it inserted
\* meanwhile is not among those this statement saw.
Wipe(p) ==
  /\ page[p].pc = "wipe"
  /\ \A q \in Pages \ {p} : Deleted(q) \cap page[p].seen = {}
  /\ Turn(p, "wipe", [page[p] EXCEPT !.pc = "insert", !.del = page[p].seen \cap arnRows])
  /\ UNCHANGED <<app, todo, arnRows, flags, role, make, failures, spoiled>>

\* An ARN is unique for the app: the insertion waits for the transactions that
\* have it in hand, and raises when it is there.
Insert(p) ==
  /\ page[p].pc = "insert"
  /\ \A q \in Pages \ {p} : ArnsOf(Deleted(q) \cup Added(q)) \cap page[p].want = {}
  /\ Turn(p, "insert",
          IF ArnsOf(Sees(p)) \cap page[p].want # {} THEN Over
          ELSE [page[p] EXCEPT !.pc = "trust", !.ins = page[p].want \X {p}])
  /\ UNCHANGED <<app, todo, arnRows, flags, role, make, failures, spoiled>>

UpdateTrust(p) ==
  /\ Turn(p, "trust", IF role.exists THEN To(p, "inline") ELSE Over)
  /\ role' = IF role.exists THEN [role EXCEPT !.trust = ArnsOf(Sees(p))] ELSE role
  /\ UNCHANGED <<app, todo, arnRows, flags, make, failures, spoiled>>

UpdateInline(p) ==
  LET arns == ArnsOf(Sees(p)) IN
  /\ Turn(p, "inline", IF PutRaises(arns) THEN Over ELSE To(p, "commit"))
  /\ IF PutRaises(arns) THEN UNCHANGED role ELSE PutInline(arns)
  /\ UNCHANGED <<app, todo, arnRows, flags, make, failures, spoiled>>

\* The foreign key is checked at the commit.
CommitArns(p) ==
  /\ arnRows' = IF app = "live" THEN Sees(p) ELSE arnRows
  /\ Turn(p, "commit", Over)
  /\ UNCHANGED <<app, todo, flags, role, make, failures, spoiled>>

-----------------------------------------------------------------------------
(* PolicyAccessMixin and DeleteApp *)

AskFlag(p, s, on) ==
  /\ app = "live" /\ todo = {}
  /\ Turn(p, "unused", [pc |-> "attach", service |-> s, copy |-> [flags EXCEPT ![s] = on]])
  /\ Overlaps(At(FlagPcs \cup DropPcs, p))
  /\ UNCHANGED <<app, todo, arnRows, flags, role, make, failures>>

\* Without the role the request raises, the flag not saved.
AttachPolicy(p) ==
  /\ Turn(p, "attach", IF role.exists THEN To(p, "save") ELSE Over)
  /\ role' = IF ~ role.exists THEN role
             ELSE [role EXCEPT !.attached = IF page[p].copy[page[p].service]
                                            THEN @ \cup {page[p].service}
                                            ELSE @ \ {page[p].service}]
  /\ UNCHANGED <<app, todo, arnRows, flags, make, failures, spoiled>>

\* The whole row is saved; one that has gone is inserted again, and then the
\* task is sent as for a new app.
SaveFlag(p) ==
  /\ Turn(p, "save", Over)
  /\ flags' = page[p].copy /\ app' = "live"
  /\ make' = IF app = "gone" THEN [make EXCEPT !.pc = "queued"] ELSE make
  /\ UNCHANGED <<todo, arnRows, role, failures, spoiled>>

AskDelete(p) ==
  /\ app = "live" /\ todo = {}
  /\ Turn(p, "unused", [pc |-> "unrole"])
  /\ Overlaps(Making \/ At(ArnPcs \cup FlagPcs \cup DropPcs, p))
  /\ UNCHANGED <<app, todo, arnRows, flags, role, make, failures>>

DeleteRole(p) ==
  /\ Turn(p, "unrole", To(p, "drop"))
  /\ role' = NoRole
  /\ UNCHANGED <<app, todo, arnRows, flags, make, failures, spoiled>>

DropApp(p) ==
  /\ \A q \in Pages \ {p} : Deleted(q) = {}
  /\ Turn(p, "drop", Over)
  /\ app' = "gone" /\ arnRows' = {}
  /\ UNCHANGED <<todo, flags, role, make, failures, spoiled>>

\* A call fails: an open transaction is rolled back, IAM keeps what it has.
PageFails(p) ==
  /\ page[p].pc \notin {"unused", "over"} /\ page' = [page EXCEPT ![p] = Over]
  /\ failures < MaxRoleFaults /\ failures' = failures + 1
  /\ Overlaps(page[p].pc \in {"inline", "commit", "save", "drop"})
  /\ UNCHANGED <<app, todo, arnRows, flags, role, make>>

-----------------------------------------------------------------------------
RoleNext ==
  \/ \E arns \in SUBSET Arns : Register(arns)
  \/ (\E a \in Arns : InsertArn(a)) \/ RegistrationFails
  \/ TakeMake \/ CreateRole \/ ReadArns \/ PutPolicy \/ MakeFails
  \/ \E p \in Pages :
       \/ \E arns \in SUBSET Arns : AskArns(p, arns)
       \/ Wipe(p) \/ Insert(p) \/ UpdateTrust(p) \/ UpdateInline(p) \/ CommitArns(p)
       \/ \E s \in Services, on \in BOOLEAN : AskFlag(p, s, on)
       \/ AttachPolicy(p) \/ SaveFlag(p)
       \/ AskDelete(p) \/ DeleteRole(p) \/ DropApp(p) \/ PageFails(p)

RoleSpec == RoleInit /\ [][RoleNext]_roleVars

-----------------------------------------------------------------------------
RoleStill ==
  /\ todo = {} /\ ~ Making /\ ~ spoiled
  /\ \A p \in Pages : page[p].pc \in {"unused", "over"}

\* When nothing is under way, nothing overlapped and no request failed half
\* done, the role of a live app trusts exactly the Cloud Platform roles of the
\* rows, has exactly the policies switched on, and, once the task is done, an
\* inline policy just when there are rows; an app that has gone left no role.
\* The task may have failed and run again between any of the requests
\* (handlers/app.py CreateAppAWSRole, views/app.py UpdateCloudPlatformRoleArn,
\* mixins.py PolicyAccessMixin).
RoleSettles ==
  RoleStill =>
    /\ app = "gone" => ~ role.exists
    /\ app = "live" /\ role.exists => /\ role.trust = ArnsOf(arnRows)
                                      /\ role.attached = {s \in Services : flags[s]}
    /\ app = "live" /\ make.pc = "done" => /\ role.exists
                                           /\ role.inline = {} <=> arnRows = {}

\* The same for the roles the app's role may assume: the inline policy names
\* those of the rows.  What "Successfully updated cloud platform ARN" tells the
\* user (views/app.py:452); it does not hold.
InlineFollows ==
  RoleStill /\ app = "live" /\ make.pc = "done" => role.inline = ArnsOf(arnRows)
=============================================================================
