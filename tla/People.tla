------------------------------- MODULE People -------------------------------
(***************************************************************************)
(* The people of the control panel: the account of a user, and the viewers  *)
(* and admins of dashboards.  The deletion of a user meets both: in          *)
(* UserAccount it goes call by call up to the row, in Sharing the rows of    *)
(* an admin go with that row.  They share no variable, so a behaviour        *)
(* exercises one of them.                                                   *)
(***************************************************************************)
EXTENDS Sharing, UserAccount

VARIABLE part

\* Every variable of both parts keeps its type.
PeopleTypeOK == SharingTypeOK /\ AccountTypeOK

Init == SharingInit /\ AccountInit /\ part \in {"dashboards", "account"}

Next ==
  \/ part = "dashboards" /\ SharingNext /\ UNCHANGED <<accountVars, part>>
  \/ part = "account" /\ AccountNext /\ UNCHANGED <<sharingVars, part>>

Spec == Init /\ [][Next]_<<sharingVars, accountVars, part>>
=============================================================================
