---------------------------- MODULE MCWlanRoles -----------------------------
(* Instances of WlanRoles for TLC.  Reports is what the parts of WlanRoles   *)
(* report; it bounds nothing.                                                *)
EXTENDS WlanRoles

MCReports == [r \in Role |-> Code(r) \ {"UNKNOWN"}]
=============================================================================
