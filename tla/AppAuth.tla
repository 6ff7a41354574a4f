------------------------------ MODULE AppAuth ------------------------------
(***************************************************************************)
(* The authentication settings of one app: what its row records of Auth0    *)
(* clients and groups (app_conf, one document saved whole), what Auth0 has, *)
(* and the secrets and variables of its GitHub environments.  Requests run  *)
(* the operations of cluster.App call by call and may fail at each call,    *)
(* leaving what was done.                                                   *)
(*                                                                         *)
(* A client, its view permission and its role are known by one identity; a  *)
(* new group takes the identity of the client it was made for.              *)
(***************************************************************************)
EXTENDS Naturals, FiniteSets

CONSTANTS
  Envs,        \* deployment environments of the app's repository
  M2m,         \* the place in app_conf of the machine-to-machine client
  Conns,       \* Auth0 connections
  Email,       \* the default connection
  Requests,    \* requests, each made at most once
  Mixes,       \* bound: sets of operations that are used together
  MaxMade,     \* bound: clients made per place
  MaxFails,    \* bound: calls that fail
  None

ASSUME AppAuthAssumption ==
  /\ M2m \notin Envs
  /\ Email \in Conns
  /\ MaxMade \in Nat /\ MaxFails \in Nat
  /\ None \notin (Envs \cup {M2m}) \X (1 .. MaxMade)

VARIABLES
  here, conf,   \* the App row and its app_conf
  auth0,        \* clients, roles, group of each name, roles of each group, enabled clients
  github,       \* of each environment: client secret, domain and passwordless variables
  my,           \* each request: operation, place, next call, copy of app_conf, locals
  made,         \* clients made for each place
  mix, fails,   \* the bounds
  alone,        \* history: the request overlapped with no other
  settled,      \* history: what the last request on a place left, if it was alone
  asked         \* history: the connections last asked for

row == <<here, conf>>
bounds == <<made, mix, fails>>
history == <<alone, settled, asked>>
authVars == <<row, auth0, github, my, bounds, history>>

Places == Envs \cup {M2m}
Ids == Places \X (1 .. MaxMade)
Nothing == [client |-> None, group |-> None]
Unread == [k \in Conns |-> {}]
EnvOps == {"setup", "conns", "remove", "redundant"}
Ops == EnvOps \cup {"delete", "m2m", "rotate", "dropM2m"}
Running(r) == my[r].pc \notin {"idle", "done", "failed"}

AuthTypeOK ==
  /\ here \in BOOLEAN
  /\ conf \in [Places -> [client : Ids \cup {None}, group : Ids \cup {None}]]
  /\ \A p \in Places : conf[p].client # None => conf[p].client[1] = p
  /\ ~ here => \A p \in Places : conf[p] = Nothing
  /\ auth0 \in [clients : SUBSET Ids, roles : SUBSET Ids, group : [Envs -> Ids \cup {None}],
                viewers : [Ids -> SUBSET Ids], enabled : [Conns -> SUBSET Ids]]
  /\ github \in [Envs -> [secret : Ids \cup {None}, domain : BOOLEAN, passwordless : BOOLEAN]]
  /\ made \in [Places -> 0 .. MaxMade]
  /\ \A i \in auth0.clients \cup auth0.roles : i[2] <= made[i[1]]
  /\ alone \in [Requests -> BOOLEAN]
  /\ settled \in [Places -> {"unknown", "set", "connected", "cleared"}]
  /\ asked \in [Envs -> SUBSET Conns]

AuthInit ==
  /\ here = TRUE
  /\ conf = [p \in Places |-> Nothing]
  /\ auth0 = [clients |-> {}, roles |-> {}, group |-> [e \in Envs |-> None],
              viewers |-> [i \in Ids |-> {}], enabled |-> [k \in Conns |-> {}]]
  /\ github = [e \in Envs |-> [secret |-> None, domain |-> FALSE, passwordless |-> FALSE]]
  /\ my = [r \in Requests |-> [op |-> None, at |-> None, pc |-> "idle"]]
  /\ made = [p \in Places |-> 0]
  /\ mix \in Mixes
  /\ fails = 0
  /\ alone = [r \in Requests |-> TRUE]
  /\ settled = [p \in Places |-> "unknown"]
  /\ asked = [e \in Envs |-> {}]

-----------------------------------------------------------------------------
(* A request begins by loading the app, and ends *)

FirstCall(o) ==
  CASE o = "setup"     -> "client"
    [] o = "conns"     -> "existing"
    [] o = "remove"    -> "forgetSecrets"
    [] o = "delete"    -> "nextEnv"
    [] o = "redundant" -> "readGroup"
    [] o = "m2m"       -> "search"
    [] o = "rotate"    -> "rotate"
    [] o = "dropM2m"   -> "dropClient"

\* A set-up asks for the default connection, an update for any the form shows.
Choices == SUBSET Conns
Wanted(o) == IF o = "setup" THEN {{Email}} ELSE IF o = "conns" THEN Choices ELSE {{}}

\* With a token DeleteApp goes through the environments of the repository;
\* without one it only drops the row.
Asks(o, p) ==
  [op : {o}, at : {p}, pc : {FirstCall(o)}, copy : {conf}, client : {None}, group : {None},
   want : Wanted(o),
   todo : IF o = "delete" THEN {Envs, {}} ELSE {{}},
   seen : {Unread}, doomed : {{}}]

Begin(r, o, p) ==
  /\ my[r].pc = "idle" /\ here /\ o \in mix
  /\ p \in IF o \in EnvOps THEN Envs ELSE {M2m}
  /\ o \in {"conns", "rotate", "dropM2m"} => conf[p].client # None
  /\ \E asks \in Asks(o, p) : my' = [my EXCEPT ![r] = asks]
  /\ alone' = [q \in Requests |->
       alone[q] /\ ~ Running(q) /\ (q = r => \A s \in Requests : ~ Running(s))]
  /\ settled' = [q \in Places |-> IF o = "delete" \/ q = p THEN "unknown" ELSE settled[q]]
  /\ UNCHANGED <<row, auth0, github, bounds, asked>>

Step(r, from, next) == my[r].pc = from /\ my' = [my EXCEPT ![r] = next]
Call(r, from, to) == Step(r, from, [my[r] EXCEPT !.pc = to])
Save(doc) == conf' = doc /\ here' = TRUE
Ended(to) == [op |-> None, at |-> None, pc |-> to]

Leaves(o) ==
  CASE o \in {"setup", "m2m"}      -> "set"
    [] o = "conns"                 -> "connected"
    [] o \in {"remove", "dropM2m"} -> "cleared"
    [] OTHER                       -> "unknown"

\* The last call of a request succeeded.
Finish(r, from) ==
  LET p == my[r].at IN
  /\ Step(r, from, Ended("done"))
  /\ settled' = IF alone[r] THEN [settled EXCEPT ![p] = Leaves(my[r].op)] ELSE settled
  /\ asked' = IF my[r].op = "conns" THEN [asked EXCEPT ![p] = my[r].want] ELSE asked
  /\ UNCHANGED alone

Fails(r, from) == Step(r, from, Ended("failed"))

\* A call fails, or the process dies: what was done stays.
CallFails(r) ==
  /\ Running(r) /\ fails < MaxFails
  /\ fails' = fails + 1
  /\ Fails(r, my[r].pc)
  /\ UNCHANGED <<row, auth0, github, made, mix, history>>

-----------------------------------------------------------------------------
(* create_auth_settings and setup_auth0_client *)

Create(r, from, to) ==
  LET p == my[r].at  new == <<p, made[p] + 1>> IN
  /\ my[r].pc = from /\ made[p] < MaxMade
  /\ made' = [made EXCEPT ![p] = @ + 1]
  /\ Step(r, from, [my[r] EXCEPT !.pc = to, !.client = new])
  /\ auth0' = [auth0 EXCEPT !.clients = @ \cup {new}]
  /\ UNCHANGED <<row, github, mix, fails, history>>

NewClient(r) == Create(r, "client", "role")

NewRole(r) ==
  /\ Call(r, "role", "group")
  /\ auth0' = [auth0 EXCEPT !.roles = @ \cup {my[r].client}]
  /\ UNCHANGED <<row, github, bounds, history>>

\* A name that is taken makes the call fail; the group is then looked up.
NewGroup(r) ==
  LET e == my[r].at  c == my[r].client IN
  /\ my[r].pc = "group"
  /\ IF auth0.group[e] = None
     THEN /\ Step(r, "group", [my[r] EXCEPT !.pc = "viewer", !.group = c])
          /\ auth0' = [auth0 EXCEPT !.group[e] = c]
     ELSE Call(r, "group", "lookUp") /\ UNCHANGED auth0
  /\ UNCHANGED <<row, github, bounds, history>>

LookUpGroup(r) ==
  /\ Step(r, "lookUp", [my[r] EXCEPT !.pc = "viewer", !.group = auth0.group[my[r].at]])
  /\ UNCHANGED <<row, auth0, github, bounds, history>>

\* The role joins the group; a group that has gone makes the request fail.
AddViewer(r) ==
  LET g == my[r].group IN
  /\ my[r].pc = "viewer"
  /\ IF g # None /\ auth0.group[my[r].at] = g
     THEN /\ Call(r, "viewer", "readConns")
          /\ auth0' = [auth0 EXCEPT !.viewers[g] = @ \cup {my[r].client}]
     ELSE Fails(r, "viewer") /\ UNCHANGED auth0
  /\ UNCHANGED <<row, github, bounds, history>>

Client(r) == IF my[r].op = "setup" THEN my[r].client ELSE my[r].copy[my[r].at].client

\* All connections are read; those to change are put back whole, one by one.
ReadConns(r) ==
  LET want == my[r].want  had == my[r].todo IN
  /\ Step(r, "readConns", [my[r] EXCEPT !.pc = "putConns", !.seen = auth0.enabled,
                             !.todo = (had \ want) \cup (want \ had)])
  /\ UNCHANGED <<row, auth0, github, bounds, history>>

PutConn(r, k) ==
  LET seen == my[r].seen[k] IN
  /\ my[r].pc = "putConns" /\ k \in my[r].todo
  /\ Step(r, "putConns", [my[r] EXCEPT !.todo = @ \ {k}])
  /\ auth0' = IF (Client(r) \in seen) = (k \in my[r].want) THEN auth0
              ELSE [auth0 EXCEPT !.enabled[k] = IF k \in my[r].want
                                                THEN seen \cup {Client(r)}
                                                ELSE seen \ {Client(r)}]
  /\ UNCHANGED <<row, github, bounds, history>>

ConnsPut(r) ==
  /\ my[r].pc = "putConns" /\ my[r].todo = {}
  /\ \/ /\ my[r].op = "setup"
        /\ Step(r, "putConns", [my[r] EXCEPT !.pc = "save", !.seen = Unread])
        /\ UNCHANGED history
     \/ my[r].op = "conns" /\ Finish(r, "putConns")
  /\ UNCHANGED <<row, auth0, github, bounds>>

\* save_auth_settings writes the whole document of the request's copy, and
\* saving inserts a row that was deleted.
SaveAuthSettings(r) ==
  /\ Call(r, "save", "putSecrets")
  /\ Save([my[r].copy EXCEPT ![my[r].at] = [client |-> my[r].client, group |-> my[r].group]])
  /\ UNCHANGED <<auth0, github, bounds, history>>

PutSecrets(r) ==
  /\ Call(r, "putSecrets", "putVars")
  /\ github' = [github EXCEPT ![my[r].at].secret = my[r].client]
  /\ UNCHANGED <<row, auth0, bounds, history>>

PutVars(r) ==
  /\ Finish(r, "putVars")
  /\ github' = [github EXCEPT ![my[r].at].domain = TRUE,
                              ![my[r].at].passwordless = Email \in my[r].want]
  /\ UNCHANGED <<row, auth0, bounds>>

-----------------------------------------------------------------------------
(* update_auth_connections *)

ReadExisting(r) ==
  /\ Step(r, "existing", [my[r] EXCEPT !.pc = "putPasswordless",
                            !.todo = {k \in Conns : Client(r) \in auth0.enabled[k]}])
  /\ UNCHANGED <<row, auth0, github, bounds, history>>

PutPasswordless(r) ==
  /\ Call(r, "putPasswordless", "readConns")
  /\ github' = [github EXCEPT ![my[r].at].passwordless = Email \in my[r].want]
  /\ UNCHANGED <<row, auth0, bounds, history>>

-----------------------------------------------------------------------------
(* remove_auth_settings, remove_redundant_env, and DeleteApp over all of them *)

NextEnv(r) ==
  /\ my[r].pc = "nextEnv"
  /\ \/ my[r].todo = {} /\ Call(r, "nextEnv", "dropRow")
     \/ \E e \in my[r].todo :
          Step(r, "nextEnv", [my[r] EXCEPT !.pc = "forgetSecrets", !.at = e, !.todo = @ \ {e}])
  /\ UNCHANGED <<row, auth0, github, bounds, history>>

\* A secret or variable that is not there is no error.
ForgetSecrets(r) ==
  /\ Call(r, "forgetSecrets", "forgetDomain")
  /\ github' = [github EXCEPT ![my[r].at].secret = None]
  /\ UNCHANGED <<row, auth0, bounds, history>>

ForgetDomain(r) ==
  /\ Call(r, "forgetDomain", "readGroup")
  /\ github' = [github EXCEPT ![my[r].at].domain = FALSE]
  /\ UNCHANGED <<row, auth0, bounds, history>>

Recorded(r) == my[r].copy[my[r].at]
GroupStands(r) ==
  my[r].at # M2m /\ Recorded(r).group # None /\ auth0.group[my[r].at] = Recorded(r).group

\* clear_up_group: a group that is not there is passed over; the roles of one
\* that is are read before it goes.
ReadGroup(r) ==
  /\ my[r].pc = "readGroup"
  /\ IF GroupStands(r)
     THEN Step(r, "readGroup", [my[r] EXCEPT !.pc = "dropGroup",
                                  !.doomed = auth0.viewers[Recorded(r).group]])
     ELSE Call(r, "readGroup", "dropClient")
  /\ UNCHANGED <<row, auth0, github, bounds, history>>

DropGroup(r) ==
  /\ my[r].pc = "dropGroup"
  /\ IF GroupStands(r)
     THEN /\ Call(r, "dropGroup", "dropRoles")
          /\ auth0' = [auth0 EXCEPT !.group[my[r].at] = None,
                                    !.viewers[Recorded(r).group] = {}]
     ELSE Fails(r, "dropGroup") /\ UNCHANGED auth0
  /\ UNCHANGED <<row, github, bounds, history>>

DropRoles(r) ==
  /\ Call(r, "dropRoles", "dropClient")
  /\ auth0' = [auth0 EXCEPT !.roles = @ \ my[r].doomed]
  /\ UNCHANGED <<row, github, bounds, history>>

\* Deleting a client that is not there is no error.
DropClient(r) ==
  /\ Call(r, "dropClient", "clear")
  /\ auth0' = [auth0 EXCEPT !.clients = @ \ {Recorded(r).client}]
  /\ UNCHANGED <<row, github, bounds, history>>

ClearUnsaved(r) ==   \* mutant: the settings are dropped from the copy alone
  LET clear == [my[r].copy EXCEPT ![my[r].at] = Nothing] IN
  /\ my[r].pc = "clear"
  /\ \/ /\ my[r].op = "delete"
        /\ Step(r, "clear", [my[r] EXCEPT !.pc = "nextEnv", !.copy = clear])
        /\ UNCHANGED history
     \/ my[r].op # "delete" /\ Finish(r, "clear")
  /\ UNCHANGED <<row, auth0, github, bounds>>

\* clear_auth_settings, or app_conf.pop("m2m"), and the save that follows.
ClearSettings(r) ==
  LET clear == [my[r].copy EXCEPT ![my[r].at] = Nothing] IN
  /\ my[r].pc = "clear"
  /\ IF Recorded(r) # Nothing \/ my[r].op = "dropM2m" THEN Save(clear) ELSE UNCHANGED row
  /\ \/ /\ my[r].op = "delete"
        /\ Step(r, "clear", [my[r] EXCEPT !.pc = "nextEnv", !.copy = clear])
        /\ UNCHANGED history
     \/ my[r].op # "delete" /\ Finish(r, "clear")
  /\ UNCHANGED <<auth0, github, bounds>>

DropRow(r) ==
  /\ Finish(r, "dropRow")
  /\ here' = FALSE
  /\ conf' = [p \in Places |-> Nothing]
  /\ UNCHANGED <<auth0, github, bounds>>

-----------------------------------------------------------------------------
(* The machine-to-machine client *)

SearchAny(r) ==   \* mutant: the first client is taken for the one looked for
  /\ \/ auth0.clients = {} /\ Call(r, "search", "newM2m")
     \/ \E i \in auth0.clients :
          Step(r, "search", [my[r] EXCEPT !.pc = "saveM2m", !.client = i])
  /\ UNCHANGED <<row, auth0, github, bounds, history>>

\* get_or_create looks for the name among all clients, then creates.
SearchM2m(r) ==
  LET found == {i \in auth0.clients : i[1] = M2m} IN
  /\ \/ found = {} /\ Call(r, "search", "newM2m")
     \/ \E i \in found : Step(r, "search", [my[r] EXCEPT !.pc = "saveM2m", !.client = i])
  /\ UNCHANGED <<row, auth0, github, bounds, history>>

NewM2m(r) == Create(r, "newM2m", "grant")

\* A grant that is refused takes the new client with it.
GrantM2m(r) ==
  /\ \/ Call(r, "grant", "saveM2m") /\ UNCHANGED <<auth0, fails>>
     \/ /\ fails < MaxFails /\ fails' = fails + 1
        /\ Fails(r, "grant")
        /\ auth0' = [auth0 EXCEPT !.clients = @ \ {my[r].client}]
  /\ UNCHANGED <<row, github, made, mix, history>>

SaveM2mOnly(r) ==   \* mutant: the document is begun anew
  /\ Finish(r, "saveM2m")
  /\ Save([p \in Places |-> [client |-> IF p = M2m THEN my[r].client ELSE None,
                             group |-> None]])
  /\ UNCHANGED <<auth0, github, bounds>>

SaveM2m(r) ==
  /\ Finish(r, "saveM2m")
  /\ Save([my[r].copy EXCEPT ![M2m].client = my[r].client])
  /\ UNCHANGED <<auth0, github, bounds>>

\* A client that is gone from Auth0 is struck from the app.
RotateM2m(r) ==
  /\ Finish(r, "rotate")
  /\ IF Recorded(r).client \in auth0.clients THEN UNCHANGED row
     ELSE Save([my[r].copy EXCEPT ![M2m] = Nothing])
  /\ UNCHANGED <<auth0, github, bounds>>

-----------------------------------------------------------------------------
SetupNext(r) ==
  \/ NewClient(r) \/ NewRole(r) \/ NewGroup(r) \/ LookUpGroup(r) \/ AddViewer(r)
  \/ SaveAuthSettings(r) \/ PutSecrets(r) \/ PutVars(r)

ConnsNext(r) ==
  \/ ReadExisting(r) \/ PutPasswordless(r) \/ ReadConns(r) \/ ConnsPut(r)
  \/ \E k \in Conns : PutConn(r, k)

RemoveNext(r) ==
  \/ NextEnv(r) \/ ForgetSecrets(r) \/ ForgetDomain(r) \/ ReadGroup(r) \/ DropGroup(r)
  \/ DropRoles(r) \/ DropClient(r) \/ ClearSettings(r) \/ DropRow(r)

M2mNext(r) ==
  \/ SearchM2m(r) \/ NewM2m(r) \/ GrantM2m(r) \/ SaveM2m(r) \/ RotateM2m(r)

RequestNext(r) == SetupNext(r) \/ ConnsNext(r) \/ RemoveNext(r) \/ M2mNext(r) \/ CallFails(r)

AuthNext ==
  \E r \in Requests :
    (\E o \in Ops, p \in Places : Begin(r, o, p)) \/ RequestNext(r)

AuthSpec == AuthInit /\ [][AuthNext]_authVars

-----------------------------------------------------------------------------
(* Properties *)

SetUp(p) ==
  /\ conf[p].client \in auth0.clients
  /\ p \in Envs =>
       /\ conf[p].client \in auth0.roles
       /\ conf[p].group # None /\ auth0.group[p] = conf[p].group
       /\ conf[p].client \in auth0.viewers[conf[p].group]
       /\ conf[p].client \in auth0.enabled[Email]
       /\ github[p] = [secret |-> conf[p].client, domain |-> TRUE, passwordless |-> TRUE]

Connected(e) ==
  /\ github[e].passwordless = (Email \in asked[e])
  /\ \A k \in Conns : k \in asked[e] <=> conf[e].client \in auth0.enabled[k]

Cleared(p) ==
  /\ conf[p] = Nothing
  /\ p \in Envs => github[p].secret = None /\ ~ github[p].domain

\* Whatever failed or overlapped before, a request that overlaps with no other
\* and succeeds leaves the row, Auth0 and GitHub in agreement about its place,
\* and later requests on other environments keep it so (create_auth_settings,
\* update_auth_connections, remove_auth_settings and the m2m operations).
AloneAgrees ==
  \A p \in Places :
    /\ settled[p] = "set" /\ here => SetUp(p)
    /\ settled[p] = "connected" /\ here => Connected(p)
    /\ settled[p] = "cleared" => Cleared(p)

\* A request changes what the row records of another place only if it
\* overlapped with another request: it writes back the copy it loaded.
OthersSettingsKept ==
  [][\A p \in Places : conf'[p] # conf[p] =>
       \E r \in Requests :
           /\ Running(r) /\ my'[r] # my[r]
         /\ (my[r].at = p \/ my[r].pc = "dropRow" \/ ~ alone[r])]_authVars

\* An app that was deleted stays deleted.  A request that overlaps the deletion
\* breaks it by saving its copy; no run checks it.
DeletedStaysDeleted == [][here \/ ~ here']_authVars
=============================================================================
