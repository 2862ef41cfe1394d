----------------------------- MODULE RoleLaunch -----------------------------
(***************************************************************************)
(* The role launcher of the firmware, func/joint_up/role_launch.c.  It     *)
(* serialises the requests to start and stop the two Wi-Fi roles of the    *)
(* chip, the station (STA) and the soft access point (AP).                 *)
(*                                                                         *)
(* Callers drop a request into a one-place socket per role and (re)start   *)
(* the one-shot enter_timer; its handler moves the request into            *)
(* jl_previous (started at once) or jl_following (waits); the handler of   *)
(* the one-shot rl_timer retires the previous request of a role when the   *)
(* status that other threads report allows it, and starts the following.   *)
(*                                                                         *)
(* Both handlers run in the FreeRTOS timer task, which has the lowest      *)
(* priority of all the threads involved (FreeRTOSConfig.h:86 against       *)
(* sys_config.h:21-31), so every other thread may run between any two of   *)
(* its steps that are not under GLOBAL_INT_DISABLE.  Those steps are the   *)
(* actions of the timer task; pc says where it stands.  The callers, the   *)
(* disconnect indication and the status reports are single actions: the    *)
(* code runs them with interrupts disabled.                                *)
(*                                                                         *)
(* The environment is the most general one: any role may report any of     *)
(* the statuses in Reports at any time.  WlanRoles restricts it to what    *)
(* the station and the access point really report.                         *)
(***************************************************************************)
EXTENDS Naturals, FiniteSets

CONSTANTS Cfg,          \* the configurations (descr) a caller may ask for
          StaTypes,     \* the station request types the callers use
          ApTypes,      \* the access point request types the callers use
          Reports       \* Reports[r]: the status codes other threads report

Role == {"STA", "AP"}
Other(r) == IF r = "STA" THEN "AP" ELSE "STA"

StaCode == {"UNKNOWN", "STA_INITING", "STA_SCANNING", "STA_CONNECTING",
            "STA_DHCPING", "STA_CHANNEL_SWITCHING", "STA_CHANNEL_SWITCHED",
            "STA_CSA_LAUNCHED_UNCERTAINTY", "STA_LAUNCHED",
            "STA_LAUNCH_FAILED", "STA_PS_SETTING"}
ApCode == {"UNKNOWN", "AP_INITING", "AP_UPDATING_BCN", "AP_TRANSMITTING_BCN",
           "AP_TRANSMITTED_BCN", "AP_LAUNCHED"}
Code(r) == IF r = "STA" THEN StaCode ELSE ApCode

ASSUME TypesAssumption ==
    /\ StaTypes \subseteq {"STA", "SCAN", "DELIF"}
    /\ ApTypes \subseteq {"AP", "DELIF"}
ASSUME ReportsAssumption ==
    /\ Reports \in [Role -> SUBSET (StaCode \cup ApCode)]
    /\ \A r \in Role : Reports[r] \subseteq Code(r)

\* A LAUNCH_REQ: its req_type and its descr.  ZeroReq is the all-zero record
\* that os_memset leaves behind, None a null pointer or a cleared req_flag.
None == [type |-> "none", cfg |-> "none"]
ZeroReq == [type |-> "zero", cfg |-> "none"]
Types(r) == IF r = "STA" THEN StaTypes ELSE ApTypes
Req(r) == [type : Types(r), cfg : Cfg]
\* What the slots of role r may hold besides None: the station's cache can
\* hand in a zeroed record (see CacheFlag).
Slot(r) == IF r = "STA" THEN Req(r) \cup {ZeroReq} ELSE Req(r)

VARIABLES
    socket,      \* g_rl_socket: per role the request handed in, or None
    sta_cache,   \* g_sta_cache: [flag, param] of the last accepted STA request
    enter_timer, \* is the one-shot enter_timer running?
    rl_timer,    \* is the one-shot rl_timer running?
    pre_entity_type,
    previous,    \* jl_previous_sta, jl_previous_ap
    following,   \* jl_following_sta, jl_following_ap
    cancel,      \* pre_sta_cancel, pre_ap_cancel
    status,      \* pre_sta_status, pre_ap_status: code and RL_STATUS_CANCEL bit
    pc,          \* where the timer task stands
    hit,         \* rl_enter_handler's copies of the socket
    role,        \* the role the timer task works on
    second,      \* rl_launch_handler: is role the one tried after an OVER?
    resume       \* where the timer task goes on after *_request_start

requests == <<socket, sta_cache, enter_timer>>
entities == <<previous, following, pre_entity_type>>
launches == <<cancel, status>>
locals == <<hit, role, second, resume>>
vars == <<requests, rl_timer, entities, launches, pc, locals>>

-----------------------------------------------------------------------------
(* Status words. *)

Unknown == [code |-> "UNKNOWN", bit |-> FALSE]

\* rl_pre_sta_set_status and rl_pre_ap_set_status: the station's word goes
\* through UNCERTAINTY when it is launched while the AP still changes channel.
\* The comparisons are with the whole word, cancel bit included.
NewCode(r, old, s) ==
    IF /\ r = "STA"
       /\ old = [code |-> "STA_CHANNEL_SWITCHING", bit |-> FALSE]
       /\ s = "STA_LAUNCHED"
    THEN "STA_CSA_LAUNCHED_UNCERTAINTY"
    ELSE IF /\ r = "STA"
            /\ old = [code |-> "STA_CSA_LAUNCHED_UNCERTAINTY", bit |-> FALSE]
            /\ s = "STA_CHANNEL_SWITCHED"
         THEN "STA_LAUNCHED"
         ELSE s

SetStatus(r, s) ==
    status' = [status EXCEPT ![r] =
                  [code |-> NewCode(r, status[r], s), bit |-> cancel[r]]]

\* Faulty variant of PreInit: the cancel flag of the old launch survives.
PreInitKeepsCancel(r) ==
    /\ status' = [status EXCEPT ![r] = Unknown]
    /\ UNCHANGED cancel

\* rl_pre_sta_init and rl_pre_ap_init.
PreInit(r) ==
    /\ cancel' = [cancel EXCEPT ![r] = FALSE]
    /\ status' = [status EXCEPT ![r] = Unknown]

\* Faulty variant of StaMayNext: a status with the cancel bit does not count.
StaMayNextNoCancel ==
    status["STA"] \in {[code |-> c, bit |-> FALSE] :
                          c \in {"STA_LAUNCHED", "STA_LAUNCH_FAILED"}}

\* rl_sta_may_next_launch, on the word read at the decision; its first read,
\* of LaunchCheck, ruled UNCERTAINTY out when pc is "decide".
StaMayNext ==
    \/ /\ pc = "decide"
       /\ \/ status["STA"].bit
          \/ status["STA"].code \in {"STA_LAUNCHED", "STA_LAUNCH_FAILED"}
    \/ cancel["STA"] /\ status["STA"] = [code |-> "STA_DHCPING", bit |-> FALSE]
    \/ status["STA"] = [code |-> "STA_LAUNCH_FAILED", bit |-> FALSE]

\* rl_ap_may_next_launch; its pre_cancel argument says that an AP request
\* follows (rl_launch_ap:103-111).
ApMayNext ==
    \/ following["AP"] = None
    \/ status["AP"] = [code |-> "AP_TRANSMITTED_BCN", bit |-> TRUE]
    \/ status["AP"].code = "AP_LAUNCHED"

MayNext(r) == IF r = "STA" THEN StaMayNext ELSE ApMayNext

-----------------------------------------------------------------------------
(* The other threads. *)

\* rl_sta_request_enter and rl_ap_request_enter: a request not yet taken by
\* the enter handler is overwritten, and the enter timer starts anew.
RequestEnter(r, q) ==
    /\ socket' = [socket EXCEPT ![r] = q]
    /\ enter_timer' = TRUE
    /\ UNCHANGED <<sta_cache, rl_timer, entities, launches, pc, locals>>

\* Faulty variant of DisconnectInd: the request is put in the socket but the
\* enter timer is not started.
DisconnectIndNoTimer ==
    /\ previous["STA"] = None
    /\ IF sta_cache.flag
       THEN socket' = [socket EXCEPT !["STA"] = sta_cache.param]
       ELSE UNCHANGED socket
    /\ sta_cache' = [flag |-> FALSE, param |-> ZeroReq]
    /\ UNCHANGED <<enter_timer, rl_timer, entities, launches, pc, locals>>

\* mhdr_disconnect_ind when rl_sta_req_is_null(): rl_sta_cache_request_enter
\* hands the cached request in again and clears the cache.
DisconnectInd ==
    /\ previous["STA"] = None
    /\ IF sta_cache.flag
       THEN /\ socket' = [socket EXCEPT !["STA"] = sta_cache.param]
            /\ enter_timer' = TRUE
       ELSE UNCHANGED <<socket, enter_timer>>
    /\ sta_cache' = [flag |-> FALSE, param |-> ZeroReq]
    /\ UNCHANGED <<rl_timer, entities, launches, pc, locals>>

\* A status report of some thread.
Report(r, s) ==
    /\ SetStatus(r, s)
    /\ UNCHANGED <<requests, rl_timer, entities, cancel, pc, locals>>

-----------------------------------------------------------------------------
(* The timer task: rl_enter_handler. *)

EnterExpire ==
    /\ pc = "idle" /\ enter_timer
    /\ enter_timer' = FALSE
    /\ pc' = "enter"
    /\ UNCHANGED <<socket, sta_cache, rl_timer, entities, launches, locals>>

\* The copy of the socket, and its os_memset, with interrupts disabled.
EnterCopy ==
    /\ pc = "enter"
    /\ hit' = socket
    /\ socket' = [r \in Role |-> None]
    /\ pc' = "sta_enter"
    /\ UNCHANGED <<sta_cache, enter_timer, rl_timer, entities, launches,
                   role, second, resume>>

\* Where the enter handler goes on when it is done with role r.
AfterEnter(r) == IF r = "STA" THEN "ap_enter" ELSE "idle"
\* Faulty variant of AfterAccept: AP requests are cached as well.
AfterAcceptCachesAp(r) == "cache_param"
AfterAccept(r) == IF r = "STA" THEN "cache_param" ELSE "idle"
EnterPc(r) == IF r = "STA" THEN "sta_enter" ELSE "ap_enter"
\* The copy of a request goes out of use: the station's after CacheParam, the
\* access point's once accepted.
Drop(r) == hit' = [hit EXCEPT ![r] = None]
DropAccepted(r) == IF r = "AP" THEN Drop(r) ELSE UNCHANGED hit

EnterNone(r) ==
    /\ pc = EnterPc(r) /\ hit[r] = None
    /\ pc' = AfterEnter(r)
    /\ UNCHANGED <<requests, rl_timer, entities, launches, locals>>

TypeOnAccept(r) ==
    pre_entity_type' = IF pre_entity_type = "IDLE" THEN r ELSE pre_entity_type

\* _sta_request_enter and _ap_request_enter, the three branches.
AcceptNow(r) ==
    /\ pc = EnterPc(r) /\ hit[r] # None
    /\ \A x \in Role : previous[x] = None
    /\ previous' = [previous EXCEPT ![r] = hit[r]]
    /\ TypeOnAccept(r)
    /\ role' = r
    /\ resume' = AfterAccept(r)
    /\ pc' = "start"
    /\ DropAccepted(r)
    /\ UNCHANGED <<requests, rl_timer, following, launches, second>>

\* Faulty variant of AcceptFollowing: a waiting request is overwritten.
AcceptFollowingAlways(r) ==
    /\ pc = EnterPc(r) /\ hit[r] # None
    /\ \E x \in Role : previous[x] # None
    /\ following' = [following EXCEPT ![r] = hit[r]]
    /\ TypeOnAccept(r)
    /\ rl_timer' = TRUE
    /\ pc' = AfterAccept(r)
    /\ DropAccepted(r)
    /\ UNCHANGED <<requests, previous, launches, role, second, resume>>

AcceptFollowing(r) ==
    /\ pc = EnterPc(r) /\ hit[r] # None
    /\ \E x \in Role : previous[x] # None
    /\ following[r] = None
    /\ following' = [following EXCEPT ![r] = hit[r]]
    /\ TypeOnAccept(r)
    /\ rl_timer' = TRUE
    /\ pc' = AfterAccept(r)
    /\ DropAccepted(r)
    /\ UNCHANGED <<requests, previous, launches, role, second, resume>>

\* "cmd queue fill!": the request is dropped, the launch timer restarted.
RefuseFull(r) ==
    /\ pc = EnterPc(r) /\ hit[r] # None
    /\ \E x \in Role : previous[x] # None
    /\ following[r] # None
    /\ rl_timer' = TRUE
    /\ pc' = AfterEnter(r)
    /\ Drop(r)
    /\ UNCHANGED <<requests, entities, launches, role, second, resume>>

\* The cache is filled without a lock: a disconnect indication between the
\* two writes clears the parameters and leaves the flag to be set.
CacheParam ==
    /\ pc = "cache_param"
    /\ sta_cache' = [sta_cache EXCEPT !.param = hit["STA"]]
    /\ pc' = "cache_flag"
    /\ Drop("STA")
    /\ UNCHANGED <<socket, enter_timer, rl_timer, entities, launches,
                   role, second, resume>>

CacheFlag ==
    /\ pc = "cache_flag"
    /\ sta_cache' = [sta_cache EXCEPT !.flag = TRUE]
    /\ pc' = "ap_enter"
    /\ UNCHANGED <<socket, enter_timer, rl_timer, entities, launches, locals>>

-----------------------------------------------------------------------------
(* The timer task: rl_sta_request_start and rl_ap_request_start of         *)
(* previous[role].  They block, so other threads run between their steps.  *)

\* The switch on req_type; a new launch begins with a clean cancel and status.
StartRole ==
    /\ pc = "start"
    /\ CASE previous[role].type \in {"STA", "AP"} ->
              PreInit(role) /\ pc' = "stop"
         [] previous[role].type = "SCAN" ->
              PreInit(role) /\ pc' = "scan"
         [] previous[role].type = "DELIF" ->
              UNCHANGED launches /\ pc' = "stop"
         [] OTHER -> UNCHANGED launches /\ pc' = resume
    /\ UNCHANGED <<requests, rl_timer, entities, locals>>

\* bk_wlan_stop reports LAUNCHED when the old interface is down.
StopRole ==
    /\ pc = "stop"
    /\ SetStatus(role, IF role = "STA" THEN "STA_LAUNCHED" ELSE "AP_LAUNCHED")
    /\ pc' = IF previous[role].type = "DELIF" THEN resume ELSE "bring_up"
    /\ UNCHANGED <<requests, rl_timer, entities, cancel, locals>>

\* Faulty variant of BringUp: the new launch does not report INITING.
BringUpSilent ==
    /\ pc = "bring_up"
    /\ pc' = IF role = "STA" THEN resume ELSE "hostapd"
    /\ UNCHANGED <<requests, rl_timer, entities, launches, locals>>

\* bk_wlan_sta_init / bk_wlan_ap_init and the supplicant or hostapd entry.
BringUp ==
    /\ pc = "bring_up"
    /\ SetStatus(role, IF role = "STA" THEN "STA_INITING" ELSE "AP_INITING")
    /\ pc' = IF role = "STA" THEN resume ELSE "hostapd"
    /\ UNCHANGED <<requests, rl_timer, entities, cancel, locals>>

\* hostapd_main_entry sets the beacon, in the calling thread; when it fails
\* bk_wlan_start_ap stops the access point again.
HostapdEntry(ok) ==
    /\ pc = "hostapd"
    /\ SetStatus("AP", IF ok THEN "AP_UPDATING_BCN" ELSE "AP_LAUNCHED")
    /\ pc' = resume
    /\ UNCHANGED <<requests, rl_timer, entities, cancel, locals>>

\* demo_scan_app_init: bk_wlan_start_scan fails in monitor mode, and sends the
\* scan request otherwise.
StartScan(ok) ==
    /\ pc = "scan"
    /\ SetStatus("STA", IF ok THEN "STA_SCANNING" ELSE "STA_LAUNCH_FAILED")
    /\ pc' = resume
    /\ UNCHANGED <<requests, rl_timer, entities, cancel, locals>>

-----------------------------------------------------------------------------
(* The timer task: rl_launch_handler. *)

LaunchExpire ==
    /\ pc = "idle" /\ rl_timer
    /\ rl_timer' = FALSE
    /\ pc' = IF pre_entity_type = "IDLE" THEN "idle" ELSE "launch"
    /\ role' = IF pre_entity_type = "IDLE" THEN role ELSE pre_entity_type
    /\ UNCHANGED <<requests, entities, launches, hit, second, resume>>

\* Faulty variant of Over: the other role is left for the next timeout.
OverOneRole ==
    /\ pc' = "rearm"
    /\ pre_entity_type' = Other(role)
    /\ second' = FALSE
    /\ UNCHANGED role

\* LAUNCH_STATUS_OVER of role: try the other one, or end the handler.
Over ==
    IF second
    THEN /\ pc' = "idle"
         /\ second' = FALSE
         /\ UNCHANGED <<pre_entity_type, role>>
    ELSE /\ pc' = "launch"
         /\ pre_entity_type' = Other(role)
         /\ role' = Other(role)
         /\ second' = TRUE

\* The following request becomes the previous one and is started; rl_launch_ap
\* calls rl_pre_ap_init first, rl_launch_sta leaves that to the request type.
Promote ==
    /\ previous' = [previous EXCEPT ![role] = following[role]]
    /\ following' = [following EXCEPT ![role] = None]
    /\ IF role = "AP" THEN PreInit("AP") ELSE UNCHANGED launches
    /\ resume' = "rearm"
    /\ pc' = "start"
    /\ UNCHANGED <<pre_entity_type, role, second>>

\* rl_launch_sta and rl_launch_ap up to the call of may_next_launch.
LaunchRole ==
    /\ pc = "launch"
    /\ IF previous[role] = None
       THEN IF following[role] = None
            THEN Over /\ UNCHANGED <<previous, following, launches, resume>>
            ELSE Promote
       ELSE /\ cancel' = [cancel EXCEPT ![role] =
                             cancel[role] \/ following[role] # None]
            /\ pc' = "check"
            /\ UNCHANGED <<entities, status, role, second, resume>>
    /\ UNCHANGED <<requests, rl_timer, hit>>

\* rl_sta_may_next_launch reads the status word several times; the first read
\* decides whether it is UNCERTAINTY, and another thread may report between it
\* and the next.
LaunchCheck ==
    /\ pc = "check"
    /\ pc' = IF status[role].code = "STA_CSA_LAUNCHED_UNCERTAINTY"
             THEN "decide_uncertain" ELSE "decide"
    /\ UNCHANGED <<requests, rl_timer, entities, launches, locals>>

\* The rest of rl_launch_sta and rl_launch_ap.
LaunchDecide ==
    /\ pc \in {"decide", "decide_uncertain"}
    /\ IF ~MayNext(role)
       THEN /\ pc' = "rearm"
            /\ UNCHANGED <<entities, launches, role, second, resume>>
       ELSE IF following[role] # None
            THEN Promote
            ELSE /\ previous' = [previous EXCEPT ![role] = None]
                 /\ Over
                 /\ UNCHANGED <<following, launches, resume>>
    /\ UNCHANGED <<requests, rl_timer, hit>>

\* Faulty variant of Rearm: the one-shot timer is not reloaded.
RearmForgotten ==
    /\ pc = "rearm"
    /\ pc' = "idle"
    /\ second' = FALSE
    /\ UNCHANGED <<requests, rl_timer, entities, launches, hit, role, resume>>

\* rl_relaunch_chance.
Rearm ==
    /\ pc = "rearm"
    /\ rl_timer' = TRUE
    /\ pc' = "idle"
    /\ second' = FALSE
    /\ UNCHANGED <<requests, entities, launches, hit, role, resume>>

-----------------------------------------------------------------------------
\* After rl_init: all the state is zero, the timers exist and do not run.
Init ==
    /\ socket = [r \in Role |-> None]
    /\ sta_cache = [flag |-> FALSE, param |-> ZeroReq]
    /\ enter_timer = FALSE
    /\ rl_timer = FALSE
    /\ pre_entity_type = "IDLE"
    /\ previous = [r \in Role |-> None]
    /\ following = [r \in Role |-> None]
    /\ cancel = [r \in Role |-> FALSE]
    /\ status = [r \in Role |-> Unknown]
    /\ pc = "idle"
    /\ hit = [r \in Role |-> None]
    /\ role = "STA"
    /\ second = FALSE
    /\ resume = "idle"

EnterHandler ==
    \/ EnterExpire \/ EnterCopy \/ CacheParam \/ CacheFlag
    \/ \E r \in Role :
          EnterNone(r) \/ AcceptNow(r) \/ AcceptFollowing(r) \/ RefuseFull(r)
RequestStart ==
    \/ StartRole \/ StopRole \/ BringUp
    \/ \E ok \in BOOLEAN : HostapdEntry(ok) \/ StartScan(ok)
LaunchHandler ==
    LaunchExpire \/ LaunchRole \/ LaunchCheck \/ LaunchDecide \/ Rearm

TimerTask == EnterHandler \/ RequestStart \/ LaunchHandler

Next ==
    \/ TimerTask
    \/ \E r \in Role : \E q \in Req(r) : RequestEnter(r, q)
    \/ DisconnectInd
    \/ \E r \in Role : \E s \in Reports[r] : Report(r, s)

Spec == Init /\ [][Next]_vars
-----------------------------------------------------------------------------
(* Properties. *)

Pc == {"idle", "enter", "sta_enter", "ap_enter", "cache_param", "cache_flag",
       "start", "stop", "bring_up", "hostapd", "scan",
       "launch", "check", "decide", "decide_uncertain", "rearm"}
Launching == {"launch", "check", "decide", "decide_uncertain", "rearm"}
Starting == {"start", "stop", "bring_up", "hostapd", "scan"}

AnySlot == Slot("STA") \cup Slot("AP") \cup {None}

TypeOK ==
    /\ socket \in [Role -> AnySlot]
    /\ \A r \in Role : socket[r] \in Slot(r) \cup {None}
    /\ sta_cache \in [flag : BOOLEAN, param : Slot("STA")]
    /\ enter_timer \in BOOLEAN /\ rl_timer \in BOOLEAN
    /\ pre_entity_type \in Role \cup {"IDLE"}
    /\ previous \in [Role -> AnySlot]
    /\ \A r \in Role : previous[r] \in Slot(r) \cup {None}
    /\ following \in [Role -> AnySlot]
    /\ \A r \in Role : following[r] \in Slot(r) \cup {None}
    /\ cancel \in [Role -> BOOLEAN]
    /\ status \in [Role -> [code : StaCode \cup ApCode, bit : BOOLEAN]]
    /\ \A r \in Role : status[r].code \in Code(r)
    /\ pc \in Pc
    /\ hit \in [Role -> AnySlot]
    /\ \A r \in Role : hit[r] \in Slot(r) \cup {None}
    /\ role \in Role
    /\ second \in BOOLEAN
    /\ resume \in {"idle", "cache_param", "rearm"}

\* A request handed in is never stranded in the socket: as long as one lies
\* there, the enter timer runs or its handler is about to copy the socket,
\* whatever restarts the timer in between (role_launch.c:276-286, 691-711).
SocketHasTimer ==
    (\E r \in Role : socket[r] # None) => enter_timer \/ pc = "enter"

\* A waiting request is never stranded: as long as one waits, the launch timer
\* runs or its handler is at work and will re-arm it, on every path through
\* the one-shot timer's handler (role_launch.c:328-368, 195-207).
FollowingHasTimer ==
    (\E r \in Role : following[r] # None) =>
        \/ rl_timer
        \/ pc \in Launching
        \/ pc \in Starting /\ resume = "rearm"

\* Nobody overtakes a waiting request: when no role has a previous request
\* and yet one waits, the launch handler is on its way to it, so the "start at
\* once" branch of the enter handler (role_launch.c:183-194, 226-237) is never
\* taken past a waiting request.
NoOvertaking ==
    (\A r \in Role : previous[r] = None) /\ (\E r \in Role : following[r] # None)
        => pc = "launch"

\* A launch is told to give up (its cancel flag, or the cancel bit in a status
\* that makes the reporting thread abandon the connection) only when another
\* request waits to take its place, or when it has not begun and will clear
\* the flag first (role_launch.c:35-42, 557-561, 631-635).
CancelHasSuccessor ==
    \A r \in Role :
        previous[r].type \in {"STA", "SCAN", "AP"}
            /\ (cancel[r] \/ status[r].bit)
        => following[r] # None \/ (pc = "start" /\ role = r)

\* The launcher implements RoleQueue: previous is the running request and
\* following the waiting one (role_launch.c:14-149, 176-261).
Queue == INSTANCE RoleQueue WITH running <- previous, waiting <- following
ImplementsQueue == Queue!QueueSpec

=============================================================================
