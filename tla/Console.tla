------------------------------- MODULE Console -------------------------------
(***************************************************************************)
(* What a request to the control panel relies on, of itself: the policy     *)
(* document it edits, the session its pages share, the settings it reads    *)
(* call by call, the rules it is let through by, and the AWS session it     *)
(* calls with.  They share no state of these models, so a behaviour         *)
(* exercises one of them.                                                  *)
(***************************************************************************)
EXTENDS S3AccessPolicy, Previews, AppSettings, Rights, Sessions

VARIABLE part

policyVars == vars
consoleVars == <<policyVars, previewVars, settingVars, rightVars, sessionVars, part>>

\* Every variable of every part keeps its type.
ConsoleTypeOK ==
  /\ doc.list \subseteq Buckets /\ granted \in [Names -> Grants \cup {NoGrant}]
  /\ unlisted \subseteq Folders
  /\ PreviewsTypeOK /\ SettingsTypeOK /\ RightsTypeOK /\ SessionsTypeOK

ConsoleInit ==
  /\ Init /\ PreviewsInit /\ SettingsInit /\ RightsInit /\ SessionsInit
  /\ part \in {"policy", "previews", "settings", "rights", "sessions"}
  /\ part # "sessions" =>
       /\ \A k \in DOMAIN rolesMap : rolesMap[k] = Unset
       /\ \A n \in SettingNames : located[n] = Unset

ConsoleNext ==
  \/ /\ part = "policy" /\ Next
     /\ UNCHANGED <<previewVars, settingVars, rightVars, sessionVars, part>>
  \/ /\ part = "previews" /\ PreviewsNext
     /\ UNCHANGED <<policyVars, settingVars, rightVars, sessionVars, part>>
  \/ /\ part = "settings" /\ SettingsNext
     /\ UNCHANGED <<policyVars, previewVars, rightVars, sessionVars, part>>
  \/ /\ part = "rights" /\ RightsNext
     /\ UNCHANGED <<policyVars, previewVars, settingVars, sessionVars, part>>
  \/ /\ part = "sessions" /\ SessionsNext
     /\ UNCHANGED <<policyVars, previewVars, settingVars, rightVars, part>>

ConsoleSpec == ConsoleInit /\ [][ConsoleNext]_consoleVars
=============================================================================
