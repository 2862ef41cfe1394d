----------------------------- MODULE WlanRoles ------------------------------
(***************************************************************************)
(* The role launcher (RoleLaunch) together with the roles it launches: the *)
(* station, with its supplicant, DHCP client, channel-switch callback and  *)
(* power save, the pure scan, and the access point with its beacons.  The  *)
(* statuses that RoleLaunch leaves open are here the ones these parts      *)
(* report, at the points of the code where they report them.               *)
(*                                                                         *)
(* The MAC and the supplicant are outside the repository's own code; they  *)
(* are modelled by the calls they make into it.                            *)
(***************************************************************************)
EXTENDS RoleLaunch

CONSTANTS MaxRequests,  \* bound on the calls of the application
          MaxTrouble,   \* bound on failed scans and lost links
          EmptyScans,   \* may a scan find no network at all?
          Dhcp          \* is the station configured as a DHCP client?

ASSUME WlanAssumption ==
    /\ MaxRequests \in Nat /\ MaxTrouble \in Nat
    /\ EmptyScans \in BOOLEAN /\ Dhcp \in BOOLEAN
\* RoleLaunch is open to every status that the roles below report.
ASSUME OpenToRoles ==
    /\ {"STA_SCANNING", "STA_CONNECTING", "STA_DHCPING", "STA_CHANNEL_SWITCHING",
        "STA_CHANNEL_SWITCHED", "STA_LAUNCHED", "STA_LAUNCH_FAILED",
        "STA_PS_SETTING"}
           \subseteq Reports["STA"]
    /\ {"AP_TRANSMITTED_BCN", "AP_LAUNCHED"} \subseteq Reports["AP"]

VARIABLES
    sta,        \* how far the station has come
    finished,   \* the station's last word to the launcher: LAUNCHED or FAILED
    scanning,   \* a pure scan runs
    scan_cb,    \* scan_cfm_cb: whose callback gets the end of a scan
    csa,        \* the soft AP has yet to change to the station's channel
    beacons,    \* the soft AP sends beacons
    ps,         \* how far the station's power save has come
    told,       \* the stop or scan in progress has asked to leave power save
    answered,   \* power save has reported LAUNCHED since the station came up
    asked,      \* calls of the application so far
    trouble     \* failed scans and lost links so far

power == <<ps, told, answered>>
world == <<sta, finished, scanning, scan_cb, csa, beacons, power>>
wvars == <<vars, world, asked, trouble>>

Phase == {"off", "initing", "scanning", "connecting", "assoc", "dhcp", "up",
          "abandoned", "deaf"}
\* A disable request may wait behind an opening in progress ("saved") or for
\* the next wake-up of a sleeping radio ("deferred").
PowerPhase == {"no", "opening", "saved", "on", "deferred", "closing"}

WInit ==
    /\ Init
    /\ sta = "off" /\ finished = FALSE /\ scanning = FALSE
    /\ scan_cb = "none" /\ csa = FALSE /\ beacons = FALSE
    /\ ps = "no" /\ told = FALSE /\ answered = FALSE
    /\ asked = 0 /\ trouble = 0

-----------------------------------------------------------------------------
(* The callers, and the timer task's steps that touch a role. *)

\* bk_wlan_start and the CLI commands.
Ask(r, q) ==
    /\ asked < MaxRequests
    /\ asked' = asked + 1
    /\ RequestEnter(r, q)
    /\ UNCHANGED <<world, trouble>>

\* The station has an active interface (vif_entry->active): it is associated.
\* An abandoned attempt is or is not, as it was abandoned before or after.
ActiveSta == CASE sta \in {"assoc", "dhcp", "up"} -> {TRUE}
               [] sta = "abandoned" -> BOOLEAN
               [] OTHER -> {FALSE}

\* power_save_dtim_disable and power_save_me_ps_set_all_state, in the core
\* thread, which runs at once: the report and the request to the ME are for an
\* active station only.
PsDisable ==
    \E active \in ActiveSta :
        IF active /\ ps # "no"
        THEN /\ Report("STA", "STA_PS_SETTING")
             /\ ps' = IF ps \in {"opening", "saved"} THEN "saved" ELSE "closing"
        ELSE /\ UNCHANGED vars
             /\ ps' = IF ps = "deferred" THEN "on" ELSE ps

\* bk_wlan_dtim_rf_ps_disable_send_msg: while the radio sleeps the request is
\* left for the wake-up.
PsDisableSend ==
    \/ ps \in {"on", "deferred"} /\ ps' = "deferred" /\ UNCHANGED vars
    \/ ps # "deferred" /\ PsDisable

\* bk_wlan_stop and bk_wlan_start_scan ask to leave power save first, and go on
\* without waiting for it.  bk_wlan_start_ap stops the access point once more
\* when hostapd_main_entry has failed.
StopPower ==
    /\ pc \in {"stop", "scan", "hostapd"} /\ ~told
    /\ told' = TRUE
    /\ PsDisableSend
    /\ UNCHANGED <<sta, finished, scanning, scan_cb, csa, beacons, answered,
                   asked, trouble>>

\* bk_wlan_stop(STATION) ends the supplicant and the IP stack's interface;
\* bk_wlan_stop(SOFT_AP) disables the beacons.
WStopRole ==
    /\ StopRole
    /\ told /\ told' = FALSE
    /\ IF role = "STA"
       THEN sta' = "off" /\ finished' = FALSE /\ UNCHANGED beacons
       ELSE beacons' = FALSE /\ UNCHANGED <<sta, finished>>
    /\ UNCHANGED <<scanning, scan_cb, csa, ps, answered, asked, trouble>>

\* The supplicant registers its own scan callback.
WBringUp ==
    /\ BringUp
    /\ IF role = "STA"
       THEN sta' = "initing" /\ scan_cb' = "wpa" /\ answered' = FALSE
       ELSE UNCHANGED <<sta, scan_cb, answered>>
    /\ UNCHANGED <<finished, scanning, csa, beacons, ps, told, asked, trouble>>

WHostapdEntry(ok) ==
    /\ HostapdEntry(ok)
    /\ told = ~ok /\ told' = FALSE
    /\ beacons' = ok
    /\ UNCHANGED <<sta, finished, scanning, scan_cb, csa, ps, answered, asked,
                   trouble>>

\* demo_scan_app_init replaces the supplicant's scan callback by its own.
WStartScan(ok) ==
    /\ StartScan(ok)
    /\ told /\ told' = FALSE
    /\ scan_cb' = "app"
    /\ scanning' = (scanning \/ ok)
    /\ UNCHANGED <<sta, finished, csa, beacons, ps, answered, asked, trouble>>

WTimerOther ==
    /\ EnterHandler \/ LaunchHandler \/ StartRole
    /\ UNCHANGED <<world, asked, trouble>>

-----------------------------------------------------------------------------
(* The station. *)

\* A report that makes the reporting thread give up when it is cancelled:
\* rl_pre_sta_set_status returns the cancel flag.
StaGoesOn(s, phase) ==
    /\ Report("STA", s)
    /\ sta' = IF cancel["STA"] THEN "abandoned" ELSE phase

\* rw_msg_send_scanu_req for the supplicant.
StaScan ==
    /\ sta = "initing"
    /\ StaGoesOn("STA_SCANNING", "scanning")
    /\ finished' = FALSE
    /\ UNCHANGED <<scanning, scan_cb, csa, beacons, power, asked, trouble>>

\* wpa_get_scan_rst without a result: the supplicant scans again.  The MAC runs
\* one scan at a time, in the order it was asked: a pure scan that still runs
\* ends first.
StaNotFound ==
    /\ sta = "scanning" /\ scan_cb = "wpa" /\ ~scanning /\ trouble < MaxTrouble
    /\ trouble' = trouble + 1
    /\ Report("STA", "STA_LAUNCH_FAILED")
    /\ finished' = TRUE
    /\ sta' = "initing"
    /\ UNCHANGED <<scanning, scan_cb, csa, beacons, power, asked>>

\* wpa_get_scan_rst with results.
StaFound ==
    /\ sta = "scanning" /\ scan_cb = "wpa" /\ ~scanning
    /\ StaGoesOn("STA_CONNECTING", "connecting")
    /\ UNCHANGED <<finished, scanning, scan_cb, csa, beacons, power, asked, trouble>>

\* mhdr_connect_ind, and the user callback bk_wlan_ap_csa_coexist_mode in the
\* same thread: with a soft AP up and no cancel it starts a channel switch, also
\* when both are on one channel: wpa_intf_channel_switch compares the station's
\* frequency, in MHz, with the number of the access point's channel.
StaAssociated ==
    /\ sta = "connecting"
    /\ sta' = "assoc"
    /\ IF beacons /\ ~cancel["STA"]
       THEN Report("STA", "STA_CHANNEL_SWITCHING") /\ csa' = TRUE
       ELSE UNCHANGED <<vars, csa>>
    /\ UNCHANGED <<finished, scanning, scan_cb, beacons, power, asked, trouble>>

\* net_configure_address: dhcp_start reports, a static address does not.
StaAddress ==
    /\ sta = "assoc"
    /\ IF Dhcp THEN StaGoesOn("STA_DHCPING", "dhcp")
               ELSE sta' = "up" /\ UNCHANGED vars
    /\ UNCHANGED <<finished, scanning, scan_cb, csa, beacons, power, asked, trouble>>

\* wm_netif_status_callback with a bound DHCP lease.
StaBound ==
    /\ sta = "dhcp"
    /\ Report("STA", "STA_LAUNCHED")
    /\ finished' = TRUE
    /\ sta' = "up"
    /\ UNCHANGED <<scanning, scan_cb, csa, beacons, power, asked, trouble>>

\* mhdr_disconnect_ind: without a previous STA request the cached one is
\* handed in again, otherwise the supplicant is told and connects again.
StaLost ==
    /\ sta \in {"connecting", "assoc", "dhcp", "up"} /\ trouble < MaxTrouble
    /\ trouble' = trouble + 1
    /\ \/ DisconnectInd /\ sta' = "off"
       \/ previous["STA"] # None /\ sta' = "initing" /\ UNCHANGED vars
    /\ UNCHANGED <<finished, scanning, scan_cb, csa, beacons, power, asked>>

\* mhdr_scanu_start_cfm: the end of a scan, the pure one or the supplicant's,
\* goes to the one registered callback.  scan_cb reports LAUNCHED, unless the
\* scan found no network at all and it returns early; the supplicant does not
\* hear of its own scan any more.
ScanDoneApp(found) ==
    /\ scan_cb = "app"
    /\ \/ scanning /\ scanning' = FALSE /\ UNCHANGED sta
       \/ sta = "scanning" /\ sta' = "deaf" /\ UNCHANGED scanning
    /\ IF found THEN Report("STA", "STA_LAUNCHED") ELSE UNCHANGED vars
    /\ UNCHANGED <<finished, scan_cb, csa, beacons, power, asked, trouble>>

\* The end of a pure scan that the supplicant gets: it takes the results for
\* those of its own scan, and reads them whatever it is doing.
ScanDoneWpa(found) ==
    /\ scan_cb = "wpa" /\ scanning
    /\ scanning' = FALSE
    /\ IF sta \in {"off", "initing", "scanning"}
       THEN /\ sta' = IF sta = "initing" THEN "scanning" ELSE sta
            /\ UNCHANGED vars
       ELSE /\ Report("STA", IF found THEN "STA_CONNECTING"
                                      ELSE "STA_LAUNCH_FAILED")
            /\ UNCHANGED sta
    /\ UNCHANGED <<finished, scan_cb, csa, beacons, power, asked, trouble>>

ScanDone ==
    \E found \in IF EmptyScans THEN BOOLEAN ELSE {TRUE} :
        ScanDoneApp(found) \/ ScanDoneWpa(found)

-----------------------------------------------------------------------------
(* The station's power save, as far as the launcher hears of it: PowerSave  *)
(* has the rest.                                                             *)

\* The application turns power save on, for a station with an address and
\* without an access point (power_save_dtim_enable), or off.  bk_wlan_stop has
\* reset the station's status by the time it asks to leave power save; that a
\* stop of the access point resets it for good is left out, so that power save
\* is turned on more often here than in the code.
PsEnable ==
    /\ ps = "no" /\ sta = "up" /\ (told => pc = "scan")
    /\ ~beacons /\ ~(role = "AP" /\ pc = "hostapd")
    /\ Report("STA", "STA_PS_SETTING")
    /\ ps' = "opening"
PsCall ==
    /\ asked < MaxRequests
    /\ asked' = asked + 1
    /\ PsEnable \/ PsDisableSend
    /\ UNCHANGED <<sta, finished, scanning, scan_cb, csa, beacons, told, answered,
                   trouble>>

\* power_save_dtim_exit_check: the radio wakes, the deferred request is sent.
PsWake ==
    /\ ps = "deferred"
    /\ PsDisable
    /\ UNCHANGED <<sta, finished, scanning, scan_cb, csa, beacons, told, answered,
                   asked, trouble>>

\* power_save_dtim_enable_handler and power_save_dtim_disable_handler: the ME
\* has its answer, whoever has the interface by now.
PsAnswer ==
    /\ ps \in {"opening", "saved", "closing"}
    /\ Report("STA", "STA_LAUNCHED")
    /\ ps' = CASE ps = "opening" -> "on" [] ps = "saved" -> "closing"
               [] OTHER -> "no"
    /\ answered' = TRUE
    /\ UNCHANGED <<sta, finished, scanning, scan_cb, csa, beacons, told, asked,
                   trouble>>

-----------------------------------------------------------------------------
(* The MAC library. *)

\* mm_switch_channel.
ChannelSwitched ==
    /\ csa
    /\ Report("STA", "STA_CHANNEL_SWITCHED")
    /\ csa' = FALSE
    /\ UNCHANGED <<sta, finished, scanning, scan_cb, beacons, power, asked, trouble>>

\* mm_bcn_transmitted reports each beacon; mm_bcn_transmit asks
\* rl_pre_ap_disable_autobcn first and, when cancelled, disables the AP and
\* reports LAUNCHED instead of sending.
Beacon ==
    /\ beacons
    /\ \/ Report("AP", "AP_TRANSMITTED_BCN")
       \/ cancel["AP"] /\ Report("AP", "AP_LAUNCHED")
    /\ UNCHANGED <<world, asked, trouble>>

-----------------------------------------------------------------------------
Station ==
    \/ StaScan \/ StaNotFound \/ StaFound \/ StaAssociated \/ StaAddress
    \/ StaBound \/ StaLost

WTimerTask ==
    \/ WTimerOther \/ StopPower \/ WStopRole \/ WBringUp
    \/ \E ok \in BOOLEAN : WHostapdEntry(ok) \/ WStartScan(ok)

WNext ==
    \/ \E r \in Role : \E q \in Req(r) : Ask(r, q)
    \/ WTimerTask
    \/ PsCall \/ PsWake \/ PsAnswer
    \/ Station \/ ScanDone \/ ChannelSwitched \/ Beacon

\* The timer task runs on; both timers fire when they keep being armed (each is
\* started for a fixed time, so neither can hold the other back for ever).  The
\* supplicant, the scan, the MAC's channel switch and its beacons go on, the
\* radio wakes and the ME is answered.
Fairness ==
    /\ WF_wvars(WTimerTask)
    /\ SF_wvars(EnterExpire /\ UNCHANGED <<world, asked, trouble>>)
    /\ SF_wvars(LaunchExpire /\ UNCHANGED <<world, asked, trouble>>)
    /\ WF_wvars(Station) /\ WF_wvars(PsWake) /\ WF_wvars(PsAnswer)
    /\ WF_wvars(ScanDone) /\ WF_wvars(ChannelSwitched) /\ WF_wvars(Beacon)

WSpec == WInit /\ [][WNext]_wvars /\ Fairness

-----------------------------------------------------------------------------
WTypeOK ==
    /\ TypeOK
    /\ sta \in Phase
    /\ finished \in BOOLEAN /\ scanning \in BOOLEAN
    /\ scan_cb \in {"none", "wpa", "app"}
    /\ csa \in BOOLEAN /\ beacons \in BOOLEAN
    /\ ps \in PowerPhase /\ told \in BOOLEAN /\ answered \in BOOLEAN
    /\ asked \in 0..MaxRequests /\ trouble \in 0..MaxTrouble

\* A station connection that nobody wants to replace is retired only after the
\* station itself has reported an outcome since it was brought up, or power save
\* has: the answer to a disable request that bk_wlan_stop does not wait for may
\* come when the next launch has begun, and is then taken for its outcome.  No
\* other report of an earlier launch is (role_launch.c:51-61, 631-635).
RetiredHasFinished ==
    [][previous["STA"].type = "STA" /\ previous'["STA"] = None
          => finished \/ answered]_wvars

\* A waiting request is launched in the end: "ASAP: as soon as possible"
\* (role_launch.h:41), the launch type of every entity (role_launch.c:457).
WaitingIsLaunched ==
    \A r \in Role : (following[r] # None) ~> (following[r] = None)

\* Beside an access point a waiting request is launched in the end, or the
\* station's last word is for ever that the channel has been switched: the
\* MAC's CHANNEL_SWITCHED may overwrite the outcome of the launch, and is none
\* itself (role_launch.c:545-554).  Nothing else keeps a request waiting.
LaunchedOrSwitched ==
    \A r \in Role :
        [](following[r] # None =>
              <>(\/ following[r] = None
                 \/ [](status["STA"].code = "STA_CHANNEL_SWITCHED")))

\* A connection attempt that was abandoned on the launcher's cancel is not left
\* abandoned: the request it gave way to takes the interface over
\* (wlan_ui.c:520, hostapd_intf.c:508, rw_msg_tx.c:552, dhcp.c:852).
AbandonedIsReplaced == (sta = "abandoned") ~> (sta # "abandoned")
=============================================================================
