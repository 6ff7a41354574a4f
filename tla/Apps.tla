-------------------------------- MODULE Apps --------------------------------
(***************************************************************************)
(* The app pages of the control panel: registration of apps, authentication *)
(* settings and IP allowlists.  They share no state (the last two write     *)
(* different secrets of the same environments), so a behaviour exercises    *)
(* one of them.                                                             *)
(***************************************************************************)
EXTENDS AppAuth, AppRanges, Registration

VARIABLE page

\* Every variable of the parts keeps its type.
AppsTypeOK == AuthTypeOK /\ RangesTypeOK /\ RegistrationTypeOK

Init ==
  /\ AuthInit /\ RangesInit /\ RegistrationInit
  /\ page \in {"authentication", "allowlists", "registration"}
  /\ page = "authentication" <=> mix # {}

Next ==
  /\ \/ page = "authentication" /\ AuthNext /\ UNCHANGED <<rangeVars, registerVars>>
     \/ page = "allowlists" /\ RangesNext /\ UNCHANGED <<authVars, registerVars>>
     \/ page = "registration" /\ RegistrationNext /\ UNCHANGED <<authVars, rangeVars>>
  /\ UNCHANGED page

Spec == Init /\ [][Next]_<<authVars, rangeVars, registerVars, page>>
=============================================================================
