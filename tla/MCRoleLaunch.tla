---------------------------- MODULE MCRoleLaunch ----------------------------
(* An instance of RoleLaunch for TLC: one configuration per role, all the   *)
(* request types, and the reports that rl_*_may_next_launch and             *)
(* rl_pre_sta_set_status tell apart.                                        *)
EXTENDS RoleLaunch

MCReports ==
    [r \in Role |->
        IF r = "STA"
        THEN {"STA_DHCPING", "STA_CHANNEL_SWITCHING",
              "STA_LAUNCHED"}
        ELSE {"AP_TRANSMITTED_BCN"}]
=============================================================================
