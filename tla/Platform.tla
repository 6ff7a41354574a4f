------------------------------ MODULE Platform ------------------------------
(***************************************************************************)
(* What the control panel keeps outside its database, by the request, the   *)
(* task or the command that changes it: releases of tools and the page that *)
(* shows them, the IAM role of an app, the grants of Lake Formation,        *)
(* archived folders, stored parameters, the customers of an app and what    *)
(* Auth0 has of unused apps.                                                *)
(* They share no state, so a behaviour exercises one of them.               *)
(***************************************************************************)
EXTENDS ToolDeploy, ToolStatus, AppRole, TableGrants, FolderArchive, Parameters, Customers, ClearUp

VARIABLE part

platformVars == <<vars, statusVars, roleVars, grantVars, folderVars, paramVars, customerVars, clearVars, part>>

\* Every variable of every part keeps its type.
PlatformTypeOK ==
  /\ TypeOK /\ StatusTypeOK /\ RoleTypeOK /\ GrantsTypeOK /\ FolderTypeOK /\ ParametersTypeOK
  /\ CustomersTypeOK /\ ClearUpTypeOK

PlatformInit ==
  /\ Init /\ StatusInit /\ RoleInit /\ GrantsInit /\ FolderInit /\ ParametersInit
  /\ part \in {"tools", "status", "role", "tables", "folder", "parameters", "customers", "clear up"}
  /\ CustomersInit /\ (part # "customers" => accounts = {})
  /\ ClearUpInit /\ (part # "clear up" => stands = [c \in Clients |-> {}])

PlatformNext ==
  \/ /\ part = "tools" /\ Next
     /\ UNCHANGED <<statusVars, roleVars, grantVars, folderVars, paramVars, customerVars, clearVars, part>>
  \/ /\ part = "status" /\ StatusNext
     /\ UNCHANGED <<vars, roleVars, grantVars, folderVars, paramVars, customerVars, clearVars, part>>
  \/ /\ part = "role" /\ RoleNext
     /\ UNCHANGED <<vars, statusVars, grantVars, folderVars, paramVars, customerVars, clearVars, part>>
  \/ /\ part = "tables" /\ GrantsNext
     /\ UNCHANGED <<vars, statusVars, roleVars, folderVars, paramVars, customerVars, clearVars, part>>
  \/ /\ part = "folder" /\ FolderNext
     /\ UNCHANGED <<vars, statusVars, roleVars, grantVars, paramVars, customerVars, clearVars, part>>
  \/ /\ part = "parameters" /\ ParametersNext
     /\ UNCHANGED <<vars, statusVars, roleVars, grantVars, folderVars, customerVars, clearVars, part>>
  \/ /\ part = "customers" /\ CustomersNext
     /\ UNCHANGED <<vars, statusVars, roleVars, grantVars, folderVars, paramVars, clearVars, part>>
  \/ /\ part = "clear up" /\ ClearUpNext
     /\ UNCHANGED <<vars, statusVars, roleVars, grantVars, folderVars, paramVars, customerVars, part>>

PlatformSpec == PlatformInit /\ [][PlatformNext]_platformVars
=============================================================================
