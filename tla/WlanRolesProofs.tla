--------------------------- MODULE WlanRolesProofs ---------------------------
(***************************************************************************)
(* Proofs about WlanRoles: with the roles as they are in the code, the     *)
(* launcher is still the one of RoleLaunch, and of the reports of earlier  *)
(* launches only power save's is taken for the outcome of a station's.     *)
(***************************************************************************)
EXTENDS WlanRoles, RoleLaunchProofs

\* A station connection that has been brought up and that nothing waits to
\* replace.
Up ==
    /\ previous["STA"].type = "STA" /\ following["STA"] = None
    /\ ~(role = "STA" /\ pc \in {"start", "stop", "bring_up"})

\* The statuses that end a launch, or that the end of a channel switch turns
\* into one that does.
Ends == {"STA_CSA_LAUNCHED_UNCERTAINTY", "STA_LAUNCHED", "STA_LAUNCH_FAILED"}

\* What keeps the reports of others from such a station: it has the scan
\* callback, a pure scan that is still running comes to its end before the
\* station's own scan does, and a status that ends the launch is its own word or
\* power save's.
StationInv ==
    /\ pc = "scan" => role = "STA" /\ previous["STA"].type = "SCAN"
    /\ Up => /\ scan_cb = "wpa"
             /\ scanning => sta \in {"off", "initing", "scanning"}
             /\ status["STA"].code \in Ends => finished \/ answered

WInv == TypeInv /\ CancelInv /\ StationInv

-----------------------------------------------------------------------------
(* The composition. *)

\* A report of the roles is one that RoleLaunch leaves to the environment.
LEMMA ReportIsOpen ==
    /\ \A s \in {"STA_SCANNING", "STA_CONNECTING", "STA_DHCPING",
                 "STA_CHANNEL_SWITCHING", "STA_CHANNEL_SWITCHED", "STA_LAUNCHED",
                 "STA_LAUNCH_FAILED", "STA_PS_SETTING"} : Report("STA", s) => Next
    /\ \A s \in {"AP_TRANSMITTED_BCN", "AP_LAUNCHED"} : Report("AP", s) => Next
BY OpenToRoles DEF Next, Role

\* Every step of the roles is one of the launcher, or leaves it alone.
LEMMA StepIsLaunchers == [WNext]_wvars => [Next]_vars
<1> SUFFICES ASSUME [WNext]_wvars PROVE Next \/ UNCHANGED vars
  OBVIOUS
<1>1. ASSUME NEW r \in Role, NEW q \in Req(r), Ask(r, q) PROVE Next
  BY <1>1 DEF Ask, Next
<1>2. CASE WTimerTask
  <2>1. CASE StopPower
    BY <2>1, ReportIsOpen DEF StopPower, PsDisableSend, PsDisable
  <2> QED
    BY <1>2, <2>1 DEF WTimerTask, WTimerOther, WStopRole, WBringUp, WHostapdEntry,
                      WStartScan, Next, TimerTask, RequestStart
<1>3. CASE Station
  BY <1>3, ReportIsOpen DEF Station, StaScan, StaNotFound, StaFound, StaAssociated,
              StaAddress, StaBound, StaLost, StaGoesOn, Next
<1>4. CASE ScanDone
  BY <1>4, ReportIsOpen DEF ScanDone, ScanDoneApp, ScanDoneWpa
<1>5. CASE ChannelSwitched \/ Beacon
  BY <1>5, ReportIsOpen DEF ChannelSwitched, Beacon
<1>6. CASE PsCall \/ PsWake \/ PsAnswer
  BY <1>6, ReportIsOpen DEF PsCall, PsEnable, PsDisableSend, PsDisable, PsWake, PsAnswer
<1>7. CASE UNCHANGED wvars
  BY <1>7 DEF wvars
<1> QED
  BY <1>1, <1>2, <1>3, <1>4, <1>5, <1>6, <1>7 DEF WNext

\* The system with its roles implements the launcher in its most general
\* environment: what is proved of Spec (no waiting request stranded, nobody
\* overtaken, cancel only for a successor, the queue of RoleQueue) holds with
\* the station, the scan and the access point as they are in the code.
THEOREM RolesImplementLauncher == WSpec => Spec
<1>1. WInit => Init
  BY DEF WInit
<1> QED
  BY <1>1, StepIsLaunchers, PTL DEF WSpec, Spec

-----------------------------------------------------------------------------
LEMMA WorldType ==
    ASSUME WTypeOK, TypeOK', [WNext]_wvars
    PROVE  WTypeOK'
<1> USE WlanAssumption DEF WTypeOK, Phase, world, power
<1>1. CASE \E r \in Role : \E q \in Req(r) : Ask(r, q)
  BY <1>1 DEF Ask
<1>0. ASSUME PsDisableSend \/ PsEnable \/ PsDisable PROVE ps' \in PowerPhase
  BY <1>0 DEF PsDisableSend, PsEnable, PsDisable, PowerPhase
<1>2. CASE WTimerTask
  <2>1. CASE StopPower
    BY <1>0, <2>1, Zenon DEF StopPower
  <2>2. CASE WStopRole
    BY <2>2, Zenon DEF WStopRole
  <2>3. CASE WBringUp
    <3>1. /\ answered' \in BOOLEAN /\ sta' \in Phase /\ scan_cb' \in {"none", "wpa", "app"}
      BY <2>3, Zenon DEF WBringUp
    <3> QED
      BY <2>3, <3>1, Zenon DEF WBringUp
  <2>4. ASSUME NEW ok \in BOOLEAN, WHostapdEntry(ok) PROVE WTypeOK'
    BY <2>4, Zenon DEF WHostapdEntry
  <2>5. ASSUME NEW ok \in BOOLEAN, WStartScan(ok) PROVE WTypeOK'
    <3>1. scanning' \in BOOLEAN
      BY <2>5, Zenon DEF WStartScan
    <3> QED
      BY <2>5, <3>1, Zenon DEF WStartScan
  <2>6. CASE WTimerOther
    BY <2>6, Zenon DEF WTimerOther
  <2> QED
    BY <1>2, <2>1, <2>2, <2>3, <2>4, <2>5, <2>6, Zenon DEF WTimerTask
<1>3. CASE Station
  <2>1. CASE StaScan BY <2>1 DEF StaScan, StaGoesOn
  <2>2. CASE StaNotFound BY <2>2 DEF StaNotFound
  <2>3. CASE StaFound BY <2>3 DEF StaFound, StaGoesOn
  <2>4. CASE StaAssociated
    <3>1. csa' \in BOOLEAN
      BY <2>4, Zenon DEF StaAssociated
    <3> QED
      BY <2>4, <3>1 DEF StaAssociated
  <2>5. CASE StaAddress BY <2>5 DEF StaAddress, StaGoesOn
  <2>6. CASE StaBound BY <2>6 DEF StaBound
  <2>7. CASE StaLost BY <2>7 DEF StaLost
  <2> QED
    BY <1>3, <2>1, <2>2, <2>3, <2>4, <2>5, <2>6, <2>7 DEF Station
<1>4. CASE ScanDone
  BY <1>4 DEF ScanDone, ScanDoneApp, ScanDoneWpa
<1>5. CASE ChannelSwitched \/ Beacon
  BY <1>5 DEF ChannelSwitched, Beacon
<1>6. CASE PsCall
  BY <1>0, <1>6 DEF PsCall
<1>7. CASE PsWake
  BY <1>0, <1>7 DEF PsWake
<1>8. CASE PsAnswer
  BY <1>8 DEF PsAnswer, PowerPhase
<1>9. CASE UNCHANGED wvars
  BY <1>9 DEF wvars
<1> QED
  BY <1>1, <1>2, <1>3, <1>4, <1>5, <1>6, <1>7, <1>8, <1>9 DEF WNext

\* Every variable of the roles keeps its type.
THEOREM RoleTypes == WSpec => []WTypeOK
<1>1. WInit => WTypeOK /\ TypeInv
  <2> SUFFICES ASSUME WInit PROVE WTypeOK /\ TypeInv
    OBVIOUS
  <2>1. TypeInv
    BY InitType DEF WInit
  <2>2. /\ finished \in BOOLEAN /\ scanning \in BOOLEAN
        /\ csa \in BOOLEAN /\ beacons \in BOOLEAN
        /\ told \in BOOLEAN /\ answered \in BOOLEAN /\ ps \in PowerPhase
    BY Zenon DEF WInit, PowerPhase
  <2>3. asked \in 0..MaxRequests /\ trouble \in 0..MaxTrouble
    BY WlanAssumption DEF WInit
  <2> QED
    BY <2>1, <2>2, <2>3 DEF WInit, WTypeOK, Phase, TypeInv
<1>2. WTypeOK /\ TypeInv /\ [WNext]_wvars => WTypeOK' /\ TypeInv'
  BY StepIsLaunchers, NextType, WorldType DEF TypeInv
<1> QED
  BY <1>1, <1>2, PTL DEF WSpec
-----------------------------------------------------------------------------
(* The end of a station's launch. *)

\* A status that is neither an end nor the switched channel makes none.
LEMMA EndsOf ==
    ASSUME TypeInv, NEW s, SetStatus("STA", s)
    PROVE  status'["STA"].code \in Ends =>
              \/ s \in Ends
              \/ s = "STA_CHANNEL_SWITCHED" /\ status["STA"].code \in Ends
BY DEF SetStatus, NewCode, Ends, TypeInv, TypeOK, Role

\* The access point's reports leave the station's status alone.
LEMMA ApStatus ==
    ASSUME TypeInv, NEW s, SetStatus("AP", s)
    PROVE  status'["STA"] = status["STA"]
BY DEF SetStatus, TypeInv, TypeOK, Role

\* A station that is up and has no successor has not been told to give up.
LEMMA UpNotCancelled ==
    ASSUME TypeInv, CancelInv, Up
    PROVE  ~cancel["STA"] /\ ~status["STA"].bit
BY DEF CancelInv, CancelHasSuccessor, Up, Role, TypeInv, TypeOK

\* The launcher's steps, which leave the roles alone.
LEMMA TimerKeepsStation ==
    ASSUME TypeInv, StationInv, EnterHandler \/ LaunchHandler \/ StartRole,
           UNCHANGED world
    PROVE  StationInv'
<1> USE DEF StationInv, world, power, Up
<1>0. None.type # "STA" /\ "STA" \in Role /\ "AP" \in Role
  BY DEF None, Role
<1>1. CASE EnterExpire \/ EnterCopy \/ CacheParam \/ CacheFlag
  BY <1>1 DEF EnterExpire, EnterCopy, CacheParam, CacheFlag, entities, launches, locals
<1>2. ASSUME NEW r \in Role, EnterNone(r) \/ RefuseFull(r) PROVE StationInv'
  BY <1>2 DEF EnterNone, RefuseFull, EnterPc, AfterEnter, entities, launches, locals
<1>3. ASSUME NEW r \in Role, AcceptNow(r) PROVE StationInv'
  BY <1>0, <1>3 DEF AcceptNow, EnterPc, launches, TypeInv, TypeOK
<1>4. ASSUME NEW r \in Role, AcceptFollowing(r) PROVE StationInv'
  BY <1>0, <1>4 DEF AcceptFollowing, AfterAccept, EnterPc, launches, TypeInv, TypeOK
<1>5. CASE LaunchExpire \/ LaunchCheck \/ Rearm
  BY <1>5 DEF LaunchExpire, LaunchCheck, Rearm, entities, launches, locals
<1>6. ASSUME Promote, pc \notin {"start", "stop", "bring_up"} PROVE StationInv'
  <2>1. pc' = "start" /\ role' = role /\ role \in {"STA", "AP"}
    BY <1>6 DEF Promote, TypeInv, TypeOK, Role
  <2>2. role = "AP" => /\ previous'["STA"] = previous["STA"]
                       /\ following'["STA"] = following["STA"]
                       /\ status'["STA"] = status["STA"]
    BY <1>0, <1>6 DEF Promote, PreInit, TypeInv, TypeOK
  <2> QED
    BY <1>6, <2>1, <2>2
<1>7. ASSUME Over, previous' = [previous EXCEPT ![role] = None],
             UNCHANGED <<following, launches>>, pc \notin {"start", "stop", "bring_up"}
      PROVE  StationInv'
  BY <1>0, <1>7 DEF Over, launches, TypeInv, TypeOK, Role
<1>8. CASE LaunchRole
  <2>1. CASE previous[role] = None /\ following[role] = None
    <3>1. previous' = [previous EXCEPT ![role] = None]
      BY <1>8, <2>1 DEF LaunchRole, TypeInv, TypeOK
    <3> QED
      BY <1>8, <2>1, <3>1, <1>7 DEF LaunchRole
  <2>2. CASE previous[role] = None /\ following[role] # None
    BY <1>8, <2>2, <1>6 DEF LaunchRole
  <2>3. CASE previous[role] # None
    BY <1>8, <2>3 DEF LaunchRole, entities
  <2> QED
    BY <2>1, <2>2, <2>3
<1>9. CASE LaunchDecide
  <2>1. CASE ~MayNext(role)
    BY <1>9, <2>1 DEF LaunchDecide, entities, launches
  <2>2. CASE MayNext(role) /\ following[role] # None
    BY <1>9, <2>2, <1>6 DEF LaunchDecide
  <2>3. CASE MayNext(role) /\ following[role] = None
    BY <1>9, <2>3, <1>7 DEF LaunchDecide
  <2> QED
    BY <2>1, <2>2, <2>3
<1>10. CASE StartRole
  <2>1. /\ pc = "start" /\ UNCHANGED <<previous, following, role>>
        /\ pc' \in {"stop", "scan", "idle", "cache_param", "rearm"}
    BY <1>10 DEF StartRole, entities, locals, TypeInv, TypeOK
  <2>2. pc' = "scan" => previous[role].type = "SCAN"
    BY <1>10 DEF StartRole, TypeInv, TypeOK
  <2>3. previous["AP"].type # "SCAN"
    <3>1. previous["AP"] \in Slot("AP") \cup {None}
      BY DEF TypeInv, TypeOK, Role
    <3>2. Slot("AP") = [type : ApTypes, cfg : Cfg]
      BY DEF Slot, Req, Types
    <3>3. None.type # "SCAN"
      BY DEF None
    <3>4. \A q \in [type : ApTypes, cfg : Cfg] : q.type # "SCAN"
      <4>1. \A q \in [type : ApTypes, cfg : Cfg] : q.type \in ApTypes
        OBVIOUS
      <4> QED
        BY <4>1, TypesAssumption
    <3> QED
      BY <3>1, <3>2, <3>3, <3>4
  <2>4. CASE role = "STA"
    <3>1. previous["STA"].type = "STA" => pc' = "stop"
      BY <1>10, <2>4 DEF StartRole
    <3> QED
      BY <2>1, <2>2, <2>4, <3>1
  <2>5. CASE role = "AP"
    <3>1. status'["STA"] = status["STA"]
      BY <1>10, <1>0, <2>5 DEF StartRole, PreInit, launches, TypeInv, TypeOK
    <3> QED
      BY <2>1, <2>2, <2>3, <2>5, <3>1
  <2> QED
    BY <2>4, <2>5 DEF TypeInv, TypeOK, Role
<1> QED
  BY <1>1, <1>2, <1>3, <1>4, <1>5, <1>8, <1>9, <1>10 DEF EnterHandler, LaunchHandler

\* The steps of the timer task that touch a role.
LEMMA StartKeepsStation ==
    ASSUME TypeInv, StationInv,
           \/ WStopRole \/ WBringUp
           \/ \E ok \in BOOLEAN : WHostapdEntry(ok) \/ WStartScan(ok)
    PROVE  StationInv'
<1> USE DEF StationInv, Up, Ends
<1>0. role \in {"STA", "AP"} /\ resume \in {"idle", "cache_param", "rearm"}
  BY DEF TypeInv, TypeOK, Role
<1>1. CASE WStopRole
  <2>1. /\ pc = "stop" /\ UNCHANGED <<previous, following, role, scanning, scan_cb>>
        /\ pc' = IF previous[role].type = "DELIF" THEN resume ELSE "bring_up"
        /\ UNCHANGED answered
        /\ role = "AP" => UNCHANGED <<sta, finished>>
    BY <1>1 DEF WStopRole, StopRole, entities, locals
  <2>2. role = "AP" => status'["STA"] = status["STA"]
    BY <1>1, ApStatus DEF WStopRole, StopRole
  <2> QED
    BY <1>0, <2>1, <2>2
<1>2. CASE WBringUp
  <2>1. /\ pc = "bring_up" /\ UNCHANGED <<previous, following, role, scanning, finished>>
        /\ pc' = IF role = "STA" THEN resume ELSE "hostapd"
        /\ role = "STA" => sta' = "initing" /\ scan_cb' = "wpa"
        /\ role = "AP" => UNCHANGED <<sta, scan_cb, answered>>
    BY <1>2 DEF WBringUp, BringUp, entities, locals
  <2>2. role = "AP" => status'["STA"] = status["STA"]
    BY <1>2, ApStatus DEF WBringUp, BringUp
  <2>3. role = "STA" => status'["STA"].code \notin Ends
    BY <1>2, EndsOf DEF WBringUp, BringUp
  <2> QED
    BY <1>0, <2>1, <2>2, <2>3
<1>3. ASSUME NEW ok \in BOOLEAN, WHostapdEntry(ok) PROVE StationInv'
  <2>1. /\ pc = "hostapd" /\ pc' = resume
        /\ UNCHANGED <<previous, following, role, scanning, scan_cb, sta, finished,
                       answered>>
    BY <1>3 DEF WHostapdEntry, HostapdEntry, entities, locals
  <2>2. status'["STA"] = status["STA"]
    BY <1>3, ApStatus DEF WHostapdEntry, HostapdEntry
  <2> QED
    BY <1>0, <2>1, <2>2
<1>4. ASSUME NEW ok \in BOOLEAN, WStartScan(ok) PROVE StationInv'
  BY <1>0, <1>4 DEF WStartScan, StartScan, entities, locals
<1> QED
  BY <1>1, <1>2, <1>3, <1>4

\* The station's power save: what it reports is no end, or its answer.
LEMMA PowerKeepsStation ==
    ASSUME TypeInv, StationInv, StopPower \/ PsCall \/ PsWake \/ PsAnswer
    PROVE  StationInv'
<1> USE DEF StationInv, Ends
<1>0. /\ UNCHANGED <<previous, following, role, pc>> /\ Up' = Up
      /\ UNCHANGED <<sta, finished, scanning, scan_cb>>
  BY DEF StopPower, PsCall, PsEnable, PsDisableSend, PsDisable, PsWake, PsAnswer,
         Report, vars, entities, locals, Up
<1>1. ASSUME PsDisableSend \/ PsDisable \/ PsEnable
      PROVE  status'["STA"].code \in Ends => status["STA"].code \in Ends
  BY <1>1, EndsOf DEF PsDisableSend, PsDisable, PsEnable, Report, vars, launches
<1>2. CASE StopPower \/ PsCall \/ PsWake
  <2>1. (PsDisableSend \/ PsDisable \/ PsEnable) /\ UNCHANGED answered
    BY <1>2 DEF StopPower, PsCall, PsWake
  <2> QED
    BY <1>0, <1>1, <2>1
<1>3. CASE PsAnswer
  BY <1>0, <1>3 DEF PsAnswer
<1> QED
  BY <1>2, <1>3

\* The roles' own steps: only the station itself says that a launch has ended.
LEMMA RolesKeepStation ==
    ASSUME TypeInv, CancelInv, StationInv,
           Station \/ ScanDone \/ ChannelSwitched \/ Beacon
    PROVE  StationInv'
<1> USE DEF StationInv, Ends, power
<1>0. UNCHANGED <<previous, following, role, pc>> /\ Up' = Up
  BY DEF Station, StaScan, StaNotFound, StaFound, StaAssociated, StaAddress,
         StaBound, StaLost, StaGoesOn, DisconnectInd, ScanDone, ScanDoneApp,
         ScanDoneWpa, ChannelSwitched, Beacon, Report, vars, entities, locals, Up
<1>1. Up => ~cancel["STA"]
  BY UpNotCancelled
<1>2. CASE StaScan
  BY <1>0, <1>1, <1>2, EndsOf DEF StaScan, StaGoesOn, Report
<1>3. CASE StaNotFound
  BY <1>0, <1>3 DEF StaNotFound
<1>4. CASE StaFound
  BY <1>0, <1>4, EndsOf DEF StaFound, StaGoesOn, Report
<1>5. CASE StaAssociated
  <2>1. status'["STA"].code \in Ends => status["STA"].code \in Ends
    BY <1>5, EndsOf DEF StaAssociated, Report, vars, launches
  <2> QED
    BY <1>0, <1>5, <2>1 DEF StaAssociated
<1>6. CASE StaAddress
  <2>1. status'["STA"].code \in Ends => status["STA"].code \in Ends
    BY <1>6, EndsOf DEF StaAddress, StaGoesOn, Report, vars, launches
  <2> QED
    BY <1>0, <1>6, <2>1 DEF StaAddress
<1>7. CASE StaBound
  BY <1>0, <1>7 DEF StaBound
<1>8. CASE StaLost
  BY <1>0, <1>8 DEF StaLost, DisconnectInd, vars, launches
<1>9. ASSUME NEW found \in BOOLEAN, ScanDoneApp(found) PROVE StationInv'
  BY <1>0, <1>9 DEF ScanDoneApp
<1>10. ASSUME NEW found \in BOOLEAN, ScanDoneWpa(found) PROVE StationInv'
  <2>1. Up => sta \in {"off", "initing", "scanning"}
    BY <1>10 DEF ScanDoneWpa
  <2>2. Up => status'["STA"] = status["STA"]
    BY <1>10, <2>1 DEF ScanDoneWpa, vars, launches
  <2> QED
    BY <1>0, <1>10, <2>2 DEF ScanDoneWpa
<1>11. CASE ChannelSwitched
  <2>1. status'["STA"].code \in Ends => status["STA"].code \in Ends
    BY <1>11, EndsOf DEF ChannelSwitched, Report
  <2> QED
    BY <1>0, <1>11, <2>1 DEF ChannelSwitched
<1>12. CASE Beacon
  <2>1. status'["STA"] = status["STA"]
    BY <1>12, ApStatus DEF Beacon, Report
  <2> QED
    BY <1>0, <1>12, <2>1 DEF Beacon, world
<1> QED
  BY <1>2, <1>3, <1>4, <1>5, <1>6, <1>7, <1>8, <1>9, <1>10, <1>11, <1>12
     DEF Station, ScanDone

LEMMA WInvStep == WInv /\ [WNext]_wvars => WInv'
<1> SUFFICES ASSUME WInv, [WNext]_wvars PROVE WInv'
  OBVIOUS
<1>1. TypeInv' /\ CancelInv'
  BY StepIsLaunchers, NextType, NextCancel DEF WInv
<1>2. CASE \E r \in Role : \E q \in Req(r) : Ask(r, q)
  BY <1>1, <1>2 DEF WInv, Ask, RequestEnter, world, power, entities, launches, locals,
                    StationInv, Up
<1>3. CASE WTimerTask
  BY <1>1, <1>3, TimerKeepsStation, StartKeepsStation, PowerKeepsStation
     DEF WInv, WTimerTask, WTimerOther
<1>4. CASE Station \/ ScanDone \/ ChannelSwitched \/ Beacon
  BY <1>1, <1>4, RolesKeepStation DEF WInv
<1>5. CASE PsCall \/ PsWake \/ PsAnswer
  BY <1>1, <1>5, PowerKeepsStation DEF WInv
<1>6. CASE UNCHANGED wvars
  BY <1>1, <1>6 DEF WInv, wvars, vars, world, power, entities, launches, locals,
                    StationInv, Up
<1> QED
  BY <1>2, <1>3, <1>4, <1>5, <1>6 DEF WNext

\* The launch handler retires a station's request only on a status that the
\* station itself or its power save has reported since it was brought up.
LEMMA RetiredStep ==
    ASSUME WInv, [WNext]_wvars,
           previous["STA"].type = "STA", previous'["STA"] = None
    PROVE  finished \/ answered
<1>0. None.type # "STA" /\ "STA" \in Role
  BY DEF None, Role
<1>1. [Next]_vars
  BY StepIsLaunchers
<1>2. LaunchRole \/ LaunchDecide \/ (\E r \in Role : AcceptNow(r)) \/ UNCHANGED previous
  BY <1>1 DEF Next, TimerTask, EnterHandler, EnterNone, AcceptFollowing, RefuseFull,
     EnterExpire, EnterCopy, CacheParam, CacheFlag, RequestStart, StartRole, StopRole,
     BringUp, HostapdEntry, StartScan, LaunchHandler, LaunchExpire, LaunchCheck, Rearm,
     RequestEnter, DisconnectInd, Report, vars, entities
<1>3. CASE \E r \in Role : AcceptNow(r)
  BY <1>0, <1>3 DEF AcceptNow
<1>4. CASE UNCHANGED previous
  BY <1>0, <1>4
<1>5. CASE LaunchRole
  BY <1>0, <1>5 DEF LaunchRole, Promote, entities, WInv, TypeInv, TypeOK
<1>6. CASE LaunchDecide
  <2>1. /\ pc \in {"decide", "decide_uncertain"} /\ MayNext(role) /\ role = "STA"
    BY <1>0, <1>6 DEF LaunchDecide, Promote, entities, WInv, TypeInv, TypeOK
  <2>2. following["STA"] = None
    BY <1>0, <1>6, <2>1 DEF LaunchDecide, Promote, WInv, TypeInv, TypeOK
  <2>3. Up
    BY <2>1, <2>2 DEF Up
  <2>4. ~cancel["STA"] /\ ~status["STA"].bit
    BY <2>3, UpNotCancelled DEF WInv
  <2>5. status["STA"].code \in Ends
    BY <2>1, <2>4 DEF MayNext, StaMayNext, Ends
  <2> QED
    BY <2>3, <2>5 DEF WInv, StationInv
<1> QED
  BY <1>2, <1>3, <1>4, <1>5, <1>6

\* A station connection that nothing waits to replace is retired only after the
\* station has reported an outcome of its own, although an old scan, a channel
\* switch and the stop of the old interface report with the same words; the one
\* other report that may retire it is power save's late answer.
THEOREM RetiredOnlyWhenFinished == WSpec => RetiredHasFinished
<1>1. WInit => WInv
  BY InitType DEF WInit, Init, WInv, StationInv, Up, CancelInv, BitInv,
     CancelHasSuccessor, None, Unknown, Role
<1>2. WInv /\ [WNext]_wvars =>
        [previous["STA"].type = "STA" /\ previous'["STA"] = None
            => finished \/ answered]_wvars
  BY RetiredStep
<1> QED
  BY <1>1, <1>2, WInvStep, PTL DEF WSpec, RetiredHasFinished
=============================================================================
