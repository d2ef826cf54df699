------------------------- MODULE MCMaintenanceRequest -------------------------
(* Instances of MaintenanceRequest for TLC. *)
EXTENDS MaintenanceRequest

By(who, scope, tenant, phone) ==
  [by |-> who, scope |-> scope, tenant |-> tenant, phone |-> phone]

FewFilings ==
  {By("fm", "unit", TRUE, TRUE), By("fm", "unit", TRUE, FALSE), By("fm", "common", FALSE, FALSE)}
=============================================================================
