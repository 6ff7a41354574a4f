------------------------------ MODULE Sessions ------------------------------
(***************************************************************************)
(* The AWS sessions of one process of the control panel.  A component asks  *)
(* for a service, which is given the role configured for the two: a map     *)
(* names a setting, and the setting, where there is one, names the role.    *)
(* Its calls use a session that assumes the role, or the process's own      *)
(* credentials without one, made at the first call and kept in one set for  *)
(* the life of the process.  Threads share the set unlocked.  A session     *)
(* renews its own credentials; that is left out.                            *)
(***************************************************************************)
EXTENDS FiniteSets, Naturals, Sequences

CONSTANTS
  Threads,
  Entities,       \* categories of AWS_ROLES_MAP
  AwsServices,    \* AWS services
  SettingNames,   \* what AWS_ROLES_MAP may name: variables or settings
  Roles,
  Regions,
  MaxCalls,       \* bound: calls made
  MaxDenials      \* bound: roles that could not be assumed

ASSUME SessionsAssumption == IsFiniteSet(Threads) /\ MaxCalls \in Nat /\ MaxDenials \in Nat

VARIABLES
  rolesMap,       \* AWS_ROLES_MAP: entries of a category, and the default
  located,        \* what the environment, or else the settings, has under a name
  sets,           \* the sets of sessions made so far, by their number
  theSet,         \* the one a new service is given, 0 before there is one
  thread,         \* what each thread is doing
  denied,         \* history: what could not be assumed
  calls, denials

configVars == <<rolesMap, located>>
sessionVars == <<rolesMap, located, sets, theSet, thread, denied, calls, denials>>

DEFAULT == "DEFAULT"
Unset == "unset"
NoSession == [role |-> Unset, region |-> Unset, fallback |-> FALSE]
Session(role, region, fallback) == [role |-> role, region |-> region, fallback |-> fallback]
Resting == [step |-> "rest", role |-> Unset, region |-> Unset, set |-> 0, session |-> NoSession]
RoleValues == Roles \cup {Unset}
SessionKeys == RoleValues \X Regions

SessionsTypeOK ==
  /\ \A k \in DOMAIN rolesMap : rolesMap[k] \in SettingNames \cup {Unset}
  /\ located \in [SettingNames -> RoleValues]
  /\ theSet \in 0 .. Cardinality(Threads)
  /\ \A n \in DOMAIN sets : DOMAIN sets[n] \subseteq SessionKeys
  /\ \A t \in Threads :
       /\ thread[t].step \in {"rest", "service", "look", "assume", "call"}
       /\ thread[t].set \in 0 .. Cardinality(Threads)
  /\ denied \subseteq SessionKeys
  /\ calls \in 0 .. MaxCalls /\ denials \in 0 .. MaxDenials

\* Any configuration: levels may lack an entry, and settings may lack a value.
SessionsInit ==
  /\ rolesMap \in [(Entities \X (AwsServices \cup {DEFAULT})) \cup {<<DEFAULT, DEFAULT>>}
                     -> SettingNames \cup {Unset}]
  /\ located \in [SettingNames -> RoleValues]
  /\ sets = <<>> /\ theSet = 0
  /\ thread = [t \in Threads |-> Resting]
  /\ denied = {} /\ calls = 0 /\ denials = 0

-----------------------------------------------------------------------------
\* An empty variable, and a name that neither place knows, are as none.
LocateSetting(name) == located[name]

\* get_credential_setting: the name given for the service, the category, or all.
FoundName(entity, service) ==
  LET found == {k \in {<<entity, service>>, <<entity, DEFAULT>>} : rolesMap[k] # Unset} IN
  IF <<entity, service>> \in found THEN rolesMap[<<entity, service>>]
  ELSE IF <<entity, DEFAULT>> \in found THEN rolesMap[<<entity, DEFAULT>>]
  ELSE rolesMap[<<DEFAULT, DEFAULT>>]

\* A name without a value gives no role; no level further up is tried.
GetCredentialSetting(entity, service) == LocateSetting(FoundName(entity, service))

\* EntityResource.create_aws_service, AWSService: the set is looked for first.  It
\* raises if no level names a setting.
CreateAwsService(t, entity, service, region) ==
  /\ FoundName(entity, service) # Unset
  /\ thread[t].step = "rest" /\ calls < MaxCalls /\ calls' = calls + 1
  /\ thread' = [thread EXCEPT ![t] =
       [step |-> IF theSet = 0 THEN "service" ELSE "look", set |-> theSet, session |-> NoSession,
        role |-> GetCredentialSetting(entity, service), region |-> region]]
  /\ UNCHANGED <<configVars, sets, theSet, denied, denials>>

\* SingletonMeta: there was none, so one is made and kept, another or not.
MakeSet(t) ==
  /\ thread[t].step = "service"
  /\ sets' = Append(sets, <<>>) /\ theSet' = Len(sets')
  /\ thread' = [thread EXCEPT ![t].step = "look", ![t].set = Len(sets')]
  /\ UNCHANGED <<configVars, denied, calls, denials>>

KeyOfRole(role, region) ==   \* mutant: the region is not part of the key
  <<role, CHOOSE r \in Regions : TRUE>>

KeyOf(role, region) == <<role, region>>

\* AWSCredentialSessionSet.get_session
GetSession(t) ==
  LET key == KeyOf(thread[t].role, thread[t].region) kept == sets[thread[t].set] IN
  /\ thread[t].step = "look"
  /\ thread' = IF key \in DOMAIN kept
               THEN [thread EXCEPT ![t].step = "call", ![t].session = kept[key]]
               ELSE [thread EXCEPT ![t].step = "assume"]
  /\ UNCHANGED <<configVars, sets, theSet, denied, calls, denials>>

Keeps(t, session) ==
  LET key == KeyOf(thread[t].role, thread[t].region) n == thread[t].set IN
  /\ thread[t].step = "assume"
  /\ sets' = [sets EXCEPT ![n] =
       [k \in DOMAIN @ \cup {key} |-> IF k = key THEN session ELSE @[k]]]
  /\ thread' = [thread EXCEPT ![t].step = "call", ![t].session = session]
  /\ UNCHANGED <<configVars, theSet, calls>>

\* BotoSession.refreshable_session: without a role, the process's credentials.
RefreshableSession(t) ==
  /\ Keeps(t, Session(thread[t].role, thread[t].region, FALSE))
  /\ UNCHANGED <<denied, denials>>

\* Whatever raises is logged, and the process's own session kept instead.
DefaultSession(t) ==
  /\ denials < MaxDenials /\ denials' = denials + 1
  /\ denied' = denied \cup {<<thread[t].role, thread[t].region>>}
  /\ Keeps(t, Session(Unset, Unset, TRUE))

CallAws(t) ==
  /\ thread[t].step = "call" /\ thread' = [thread EXCEPT ![t] = Resting]
  /\ UNCHANGED <<configVars, sets, theSet, denied, calls, denials>>

SessionsNext ==
  \E t \in Threads :
    \/ \E e \in Entities, s \in AwsServices, r \in Regions : CreateAwsService(t, e, s, r)
    \/ MakeSet(t) \/ GetSession(t) \/ RefreshableSession(t) \/ DefaultSession(t) \/ CallAws(t)

SessionsSpec == SessionsInit /\ [][SessionsNext]_sessionVars

-----------------------------------------------------------------------------
\* Whatever threads race to make and keep, a call is made as the role that is
\* configured for it and in its region, or else as the process itself because
\* that very role could not be assumed in that region before; without any such
\* denial only if the map names a setting that has no value (aws_auth.py
\* get_session, refreshable_session, cluster.py AWSServiceCredentialSettings).
CallsAsConfigured ==
  \A t \in Threads : thread[t].step = "call" =>
    LET s == thread[t].session k == <<thread[t].role, thread[t].region>> IN
    IF s.fallback THEN k \in denied
    ELSE /\ <<s.role, s.region>> = k
         /\ s.role = Unset => \E n \in SettingNames : LocateSetting(n) = Unset

=============================================================================
