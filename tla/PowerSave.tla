------------------------------ MODULE PowerSave ------------------------------
(***************************************************************************)
(* DTIM power save of the station's radio, func/power_save/power_save.c,   *)
(* with the calls of func/wlan_ui/wlan_ui.c that ask for it and the loop   *)
(* of the core thread (app/app.c) that carries them out.                   *)
(*                                                                         *)
(* Callers post a message to the core thread; it runs power_save.c, sends  *)
(* requests to the MAC's management entity (ME), which answers later, and  *)
(* at the end of every round of its loop may put the radio to sleep.  The  *)
(* MAC's wake-up interrupt ends a sleep; so does a frame to be sent and a  *)
(* thread that needs the radio (bk_wlan_dtim_rf_ps_mode_do_wakeup).        *)
(*                                                                         *)
(* The core thread has the highest priority: another thread or the timer   *)
(* task runs only while it waits on an empty queue (ThreadsRun), so that   *)
(* the queue refuses none of their messages.  Interrupts come at any time  *)
(* between the sections that run with interrupts off.                      *)
(*                                                                         *)
(* Left out: roles other than a lone station, the lists of the listen      *)
(* interval, the td timer (it only drives a timer of the MAC library), the *)
(* wake-up by PWM (pwm_less_time is always 0).                             *)
(***************************************************************************)
EXTENDS Naturals, Sequences

CONSTANTS
    Thread,     \* the threads that call hapd_intf_add_key or do_wakeup
    Timers,     \* the one-shot timers in use
    Requests,   \* what the other callers ask for
    MaxSaved    \* bound on the requests the ME has saved

ASSUME TimersAssumption == Timers \subseteq {"keep", "wait"}
ASSUME RequestsAssumption ==
    Requests \subseteq {"TX", "TIMER_INIT", "TIMER_DEINIT", "ENABLE", "DISABLE",
                       "STOP"}
ASSUME MaxSavedAssumption == MaxSaved \in Nat

VARIABLES
    mode,           \* bk_ps_mode
    way,            \* ps_arm_wakeup_way
    real_sleep,     \* ps_real_sleep: the radio is off
    ps_lock,
    can_sleep,      \* ps_can_sleep
    bcn,            \* waited_beacon
    sleep_first,
    prevent,        \* prevent_sleep of the station and the MAC's own bits
    need_disable,   \* NEED_DISABLE_BIT of ps_dis_flag
    timers,         \* the keep and the wait timer
    keep_period,    \* ps_keep_timer_period is not 0 (the timer exists)
    sta,            \* mhdr_get_station_status
    active,         \* the station has an active interface (vif_entry->active)
    queue,          \* the core thread's io_queue
    cpc,            \* where the core thread stands in its loop
    cmsg,           \* the message it handles
    ke,             \* requests on their way to the ME
    me_busy,        \* the ME waits for the confirmation of the MAC
    ps_on,          \* me_env.ps_on
    rl,             \* the status reported to the role launcher
    wk_list,        \* the threads on bk_ps_info.wk_list
    sema,           \* the threads whose semaphore is given
    pc              \* where each thread stands in hapd_intf_add_key

radio == <<way, real_sleep, ps_lock, can_sleep, bcn, sleep_first, prevent,
           need_disable>>
waiters == <<wk_list, sema>>
me == <<ke, me_busy, ps_on, rl>>
link == <<sta, active>>
vars == <<mode, radio, timers, keep_period, link, queue, cpc, cmsg, me, waiters,
          pc>>

\* The one-shot timers: status is the code's own flag, runs the timer of the
\* operating system.
Timer == {"keep", "wait"}
Off == [status |-> FALSE, runs |-> FALSE]
On == [status |-> TRUE, runs |-> TRUE]
\* Messages of the core thread's queue: PS_BMSG_IOCTL_* and three others.
SetOf(t) == IF t = "keep" THEN "KP_SET" ELSE "WAIT_TM_SET"
HandlerOf(t) == IF t = "keep" THEN "KP_HANDLER" ELSE "WAIT_TM_HANDLER"
TimerMsg == {"KP_SET", "WAIT_TM_SET", "KP_HANDLER", "WAIT_TM_HANDLER",
             "KP_STOP", "TIMER_INIT", "TIMER_DEINIT"}
Message == {"ENABLE", "DISANABLE", "USER_WKUP", "RX", "TX", "NULL"}
           \cup TimerMsg

Has(m) == \E i \in DOMAIN queue : queue[i] = m
Posted(cond, m) == IF cond THEN <<m>> ELSE <<>>
ThreadsRun == cpc = "wait" /\ queue = <<>>

-----------------------------------------------------------------------------
(* Sleeping and waking. *)

Switch == mode = "DTIM" /\ sta = "GOT_IP"
StaDtimCanSleep == Switch /\ (bcn = "TRUE" \/ way = "USER") /\ can_sleep

\* power_save_ieee_dtim_wakeup with power_save_wakeup: w is the new
\* ps_arm_wakeup_way, q the queue so far.  A disable request that waited for the radio is sent
\* now; the threads on the list are released.
\* Faulty variant: power_save_dtim_exit_check is forgotten.
WakeNoExitCheck(w, q) ==
    /\ way' = w /\ real_sleep' = FALSE /\ can_sleep' = TRUE /\ bcn' = "FALSE"
    /\ prevent' = IF w = "RW" THEN prevent \cup {"WAITING_BCN"} ELSE prevent
    /\ ps_lock' = ps_lock + 1
    /\ sema' = sema \cup wk_list /\ wk_list' = {}
    /\ queue' = q \o Posted(~sleep_first /\ keep_period, "KP_SET")
    /\ UNCHANGED <<need_disable, sleep_first>>

Wakeup(w, q) ==
    /\ way' = w /\ real_sleep' = FALSE /\ can_sleep' = TRUE /\ bcn' = "FALSE"
    /\ prevent' = IF w = "RW" THEN prevent \cup {"WAITING_BCN"} ELSE prevent
    /\ ps_lock' = ps_lock + 1
    /\ sema' = sema \cup wk_list /\ wk_list' = {}
    /\ queue' = q \o Posted(~sleep_first /\ keep_period, "KP_SET")
                  \o Posted(need_disable /\ mode # "NO", "DISANABLE")
    /\ need_disable' = FALSE
    /\ UNCHANGED sleep_first

\* power_save_dtim_wake, the interrupt of the MAC's wake-up timer, which is
\* enabled only while the radio sleeps.
DtimWake ==
    /\ mode = "DTIM" /\ way = "NONE" /\ real_sleep
    /\ Wakeup("RW", queue)
    /\ UNCHANGED <<mode, timers, keep_period, link, cpc, cmsg, me, pc>>

\* power_save_rf_dtim_manual_do_wakeup.  Faulty variant: it does not look
\* whether the radio sleeps.
WakeupUnchecked(q) ==
    IF mode = "DTIM" THEN Wakeup("USER", q)
    ELSE queue' = q /\ UNCHANGED <<radio, waiters>>
ManualDoWakeup(q) ==
    IF mode = "DTIM" /\ way = "NONE" /\ real_sleep
    THEN Wakeup("USER", q)
    ELSE queue' = q /\ UNCHANGED <<radio, waiters>>

\* power_save_sleep_status_set.  Faulty variant: the way of the last wake-up
\* is kept.
SleepStatusKeepsWay == real_sleep' = TRUE /\ way' = way
SleepStatusSet == real_sleep' = TRUE /\ way' = "NONE"

\* power_save_rf_sleep_check asks ps_sleep_check of the MAC library, which
\* forgets the reasons to stay awake before the first sleep.
Asked ==
    /\ cpc = "check" /\ queue = <<>> /\ (ke = <<>> \/ me_busy)
    /\ StaDtimCanSleep /\ ps_on
Prevented == IF sleep_first THEN {} ELSE prevent

\* power_save_sleep goes through; the MAC's idle callback ends the first sleep.
Sleep ==
    /\ Asked /\ Prevented = {} /\ ~real_sleep
    /\ sleep_first' = FALSE
    /\ prevent' = {}
    /\ IF ps_lock > 0
       THEN /\ ps_lock' = ps_lock - 1
            /\ SleepStatusSet
            /\ queue' = queue \o Posted(timers["keep"].status, "KP_STOP")
       ELSE UNCHANGED <<ps_lock, real_sleep, way, queue>>
    /\ cpc' = "wait"
    /\ UNCHANGED <<mode, can_sleep, bcn, need_disable, timers, keep_period, link,
                   cmsg, me, waiters, pc>>

\* No sleep in this round: a condition fails, or the MAC is not idle.
NoSleep ==
    /\ cpc = "check"
    /\ prevent' = IF Asked THEN Prevented ELSE prevent
    /\ cpc' = "wait"
    /\ UNCHANGED <<mode, way, real_sleep, ps_lock, can_sleep, bcn, sleep_first,
                   need_disable, timers, keep_period, link, queue, cmsg, me,
                   waiters, pc>>

-----------------------------------------------------------------------------
(* The core thread. *)

\* power_save_dtim_disable and power_save_me_ps_set_all_state: no request is made
\* when the station's interface is gone, whatever the mode.
\* Faulty variant: the report does not depend on the interface.
DtimDisableReports ==
    IF mode # "NO"
    THEN /\ ke' = IF active THEN Append(ke, "DISABLE_REQ") ELSE ke
         /\ rl' = "PS_SETTING"
    ELSE UNCHANGED <<ke, rl>>
DtimDisable ==
    IF mode # "NO" /\ active
    THEN ke' = Append(ke, "DISABLE_REQ") /\ rl' = "PS_SETTING"
    ELSE UNCHANGED <<ke, rl>>

\* A frame has come in; beacon: it is a beacon of the access point.
RxFrame(beacon) ==
    /\ bcn' = IF beacon /\ Switch THEN "TRUE" ELSE bcn
    /\ prevent' = IF beacon THEN prevent \ {"WAITING_BCN"} ELSE prevent
    /\ UNCHANGED <<way, real_sleep, ps_lock, can_sleep, sleep_first,
                   need_disable>>

\* The disable request is handled before the MAC's scheduler runs, the other
\* power-save messages after it.  bmsg_tx_handler wakes the radio before it
\* hands its frame to the MAC.
Pop ==
    /\ cpc = "wait" /\ queue # <<>>
    /\ cmsg' = Head(queue)
    /\ cpc' = "sched"
    /\ CASE cmsg' = "DISANABLE" -> /\ DtimDisable
                                   /\ queue' = Tail(queue)
                                   /\ UNCHANGED <<radio, waiters>>
         [] cmsg' = "RX" -> /\ \E beacon \in BOOLEAN : RxFrame(beacon)
                            /\ queue' = Tail(queue)
                            /\ UNCHANGED <<ke, rl, waiters>>
         [] cmsg' = "TX" -> /\ ManualDoWakeup(Tail(queue))
                            /\ UNCHANGED <<ke, rl>>
         [] OTHER -> /\ queue' = Tail(queue)
                     /\ UNCHANGED <<radio, ke, rl, waiters>>
    /\ UNCHANGED <<mode, timers, keep_period, link, me_busy, ps_on, pc>>

\* The ME's handlers of ME_PS_REQ and ME_SET_PS_DISABLE_REQ.
MeHandler ==
    /\ cpc = "sched" /\ ke # <<>> /\ ~me_busy
    /\ ke' = Tail(ke)
    /\ \/ /\ Head(ke) = "PS_REQ"
          /\ mode' = "OPENING" /\ me_busy' = TRUE /\ ps_on' = TRUE
       \/ /\ Head(ke) = "DISABLE_REQ" /\ ps_on
          /\ mode' = "CLOSING" /\ me_busy' = TRUE
          /\ UNCHANGED ps_on
       \/ /\ Head(ke) = "DISABLE_REQ" /\ ~ps_on
          /\ UNCHANGED <<mode, me_busy, ps_on>>
    /\ UNCHANGED <<radio, timers, keep_period, link, queue, cpc, cmsg, rl,
                   waiters, pc>>

\* The report to the role launcher at the end of the handler.
\* Faulty variant: only a success is reported.
EnableReportSuccess == rl' = IF mode' = "DTIM" THEN "LAUNCHED" ELSE rl
EnableReport == rl' = "LAUNCHED"

\* power_save_dtim_enable_handler, the MAC's confirmation of an opening.
DtimEnableHandler ==
    /\ cpc = "sched" /\ me_busy /\ mode = "OPENING"
    /\ me_busy' = FALSE
    /\ IF sta \in {"CONN_SUCCESS", "GOT_IP"}
       THEN /\ mode' = "DTIM" /\ sleep_first' = TRUE /\ can_sleep' = TRUE
            /\ timers' = [timers EXCEPT !["wait"] = Off]
       ELSE UNCHANGED <<mode, sleep_first, can_sleep, timers>>
    /\ EnableReport
    /\ UNCHANGED <<way, real_sleep, ps_lock, bcn, prevent, need_disable,
                   keep_period, link, queue, cpc, cmsg, ke, ps_on, waiters, pc>>

\* power_save_dtim_disable_handler, the confirmation of a closing.
DtimDisableHandler ==
    /\ cpc = "sched" /\ me_busy /\ mode = "CLOSING"
    /\ me_busy' = FALSE /\ ps_on' = FALSE
    /\ mode' = "NO"
    /\ can_sleep' = FALSE /\ bcn' = "INIT" /\ real_sleep' = FALSE
    /\ sleep_first' = TRUE
    /\ rl' = "LAUNCHED"
    /\ UNCHANGED <<way, ps_lock, prevent, need_disable, timers, keep_period,
                   link, queue, cpc, cmsg, ke, waiters, pc>>

\* power_save_dtim_enable and power_save_me_ps_first_set_state: the mode stays as
\* it is until the ME has run.
DtimEnable ==
    IF sta = "GOT_IP" /\ mode = "NO" /\ active
    THEN ke' = Append(ke, "PS_REQ") /\ rl' = "PS_SETTING"
    ELSE UNCHANGED <<ke, rl>>

-----------------------------------------------------------------------------
(* Messages of the two one-shot timers. *)

Exists(t) == t = "wait" \/ keep_period

TimerSet(t) ==
    /\ IF Exists(t) /\ ~timers[t].status
       THEN /\ timers' = [timers EXCEPT ![t] = On]
            /\ bcn' = IF t = "wait" THEN "FALSE" ELSE bcn
       ELSE UNCHANGED <<timers, bcn>>
    /\ UNCHANGED <<way, prevent, queue, keep_period>>

\* power_save_wait_timer_real_handler, power_save_keep_timer_real_handler.
WaitRealHandler ==
    /\ timers' = [timers EXCEPT !["wait"] = Off]
    /\ bcn' = "TRUE"
    /\ UNCHANGED <<way, prevent, queue, keep_period>>

KeepRealHandler ==
    /\ timers' = [timers EXCEPT !["keep"] = Off]
    /\ IF way = "RW" /\ ~real_sleep
       THEN \E reseted \in BOOLEAN :
              /\ way' = IF reseted THEN way ELSE "USER"
              /\ prevent' = IF reseted THEN prevent
                            ELSE prevent \ {"WAITING_BCN"}
              /\ queue' = queue \o Posted(queue = <<>>, "NULL")
       ELSE UNCHANGED <<way, prevent, queue>>
    /\ UNCHANGED <<bcn, keep_period>>

\* power_save_keep_timer_stop; power_save_set_keep_timer_time(10) and (0).
KeepStop(period) ==
    /\ timers' = [timers EXCEPT !["keep"] = Off]
    /\ keep_period' = period
    /\ UNCHANGED <<way, prevent, bcn, queue>>

\* ps_msg_process for the messages of the timers.
TimerProcess ==
    /\ \/ \E t \in Timer : cmsg = SetOf(t) /\ TimerSet(t)
       \/ cmsg = "WAIT_TM_HANDLER" /\ WaitRealHandler
       \/ cmsg = "KP_HANDLER" /\ KeepRealHandler
       \/ cmsg = "KP_STOP" /\ KeepStop(keep_period)
       \/ cmsg = "TIMER_INIT" /\ KeepStop(TRUE)
       \/ cmsg = "TIMER_DEINIT" /\ KeepStop(FALSE)
    /\ UNCHANGED <<real_sleep, ps_lock, can_sleep, sleep_first, need_disable,
                   ke, rl, waiters>>

\* The scheduler of the MAC has nothing more to do: bmsg_ps_handler.
PsHandler ==
    /\ cpc = "sched" /\ (ke = <<>> \/ me_busy)
    /\ cpc' = "check" /\ cmsg' = "NULL"
    /\ \/ /\ cmsg = "ENABLE" /\ DtimEnable
          /\ UNCHANGED <<radio, timers, keep_period, queue, waiters>>
       \/ /\ cmsg = "USER_WKUP" /\ ManualDoWakeup(queue)
          /\ UNCHANGED <<timers, keep_period, ke, rl>>
       \/ /\ cmsg \in TimerMsg /\ TimerProcess
       \/ /\ cmsg \in {"DISANABLE", "RX", "TX", "NULL"}
          /\ UNCHANGED <<radio, timers, keep_period, queue, ke, rl, waiters>>
    /\ UNCHANGED <<mode, link, me_busy, ps_on, pc>>

Core == \/ Pop \/ MeHandler \/ PsHandler \/ Sleep \/ NoSleep
Confirm == DtimEnableHandler \/ DtimDisableHandler

-----------------------------------------------------------------------------
(* Interrupts, timers and the MAC library. *)

\* bmsg_rx_sender, from the receive interrupt.
Receive ==
    /\ ~real_sleep /\ ~Has("RX")
    /\ queue' = Append(queue, "RX")
    /\ UNCHANGED <<mode, radio, timers, keep_period, link, cpc, cmsg, me,
                   waiters, pc>>

\* power_save_wait_timer_set, which the MAC library calls in the core thread.
WaitTimerSet ==
    /\ cpc = "sched" /\ "wait" \in Timers /\ Switch /\ ~Has("WAIT_TM_SET")
    /\ queue' = Append(queue, "WAIT_TM_SET")
    /\ UNCHANGED <<mode, radio, timers, keep_period, link, cpc, cmsg, me,
                   waiters, pc>>

\* power_save_keep_timer_handler, power_save_wait_timer_handler.
Expire(t) ==
    /\ ThreadsRun /\ timers[t].runs
    /\ timers' = [timers EXCEPT ![t].runs = FALSE]
    /\ queue' = Append(queue, HandlerOf(t))
    /\ UNCHANGED <<mode, radio, keep_period, link, cpc, cmsg, me, waiters, pc>>

-----------------------------------------------------------------------------
(* The callers. *)

\* A frame to send, and bk_wlan_dtim_rf_ps_timer_start and _pause.
Post(m) ==
    /\ ThreadsRun
    /\ queue' = Append(queue, m)
    /\ UNCHANGED <<mode, radio, timers, keep_period, link, cpc, cmsg, me,
                   waiters, pc>>

\* bk_wlan_dtim_rf_ps_mode_enable.
ModeEnable ==
    /\ ThreadsRun
    /\ queue' = Append(queue, "ENABLE")
    /\ UNCHANGED <<mode, radio, timers, keep_period, link, cpc, cmsg, me,
                   waiters, pc>>

\* bk_wlan_dtim_rf_ps_disable_send_msg: while the radio sleeps the request is
\* left for the next wake-up.  Faulty variant: it is sent at once.
DisableSendNow ==
    /\ queue' = queue \o Posted(mode # "NO", "DISANABLE")
    /\ UNCHANGED need_disable
DisableSendMsg ==
    IF mode = "DTIM" /\ real_sleep
    THEN need_disable' = TRUE /\ UNCHANGED queue
    ELSE /\ queue' = queue \o Posted(mode # "NO", "DISANABLE")
         /\ UNCHANGED need_disable

ModeDisable ==
    /\ ThreadsRun /\ Len(ke) < MaxSaved
    /\ DisableSendMsg
    /\ UNCHANGED <<mode, way, real_sleep, ps_lock, can_sleep, bcn, sleep_first,
                   prevent, timers, keep_period, link, cpc, cmsg, me, waiters,
                   pc>>

\* bk_wlan_stop: the station's status is reset, then power save is left, and
\* the interface is removed without waiting for that.
Stop ==
    /\ ThreadsRun /\ Len(ke) < MaxSaved /\ sta # "IDLE"
    /\ sta' = "IDLE"
    /\ DisableSendMsg
    /\ UNCHANGED <<mode, way, real_sleep, ps_lock, can_sleep, bcn, sleep_first,
                   prevent, timers, keep_period, active, cpc, cmsg, me, waiters,
                   pc>>
RemoveInterface ==
    /\ ThreadsRun /\ sta = "IDLE" /\ active
    /\ active' = FALSE
    /\ UNCHANGED <<mode, radio, timers, keep_period, sta, queue, cpc, cmsg, me,
                   waiters, pc>>

\* The station connects, its interface becomes active, and it gets its address.
Connect ==
    /\ ThreadsRun
    /\ \/ sta = "IDLE" /\ ~active /\ sta' = "CONN_SUCCESS" /\ active' = TRUE
       \/ sta = "CONN_SUCCESS" /\ sta' = "GOT_IP" /\ UNCHANGED active
    /\ UNCHANGED <<mode, radio, timers, keep_period, queue, cpc, cmsg, me,
                   waiters, pc>>

Goto(t, l) == pc' = [pc EXCEPT ![t] = l]

\* hapd_intf_add_key sets a reason to stay awake; other callers of
\* bk_wlan_dtim_rf_ps_mode_do_wakeup do not.
Begin(t) ==
    /\ ThreadsRun /\ pc[t] = "idle"
    /\ \/ Goto(t, "call") /\ UNCHANGED prevent
       \/ Goto(t, "call_key") /\ prevent' = prevent \cup {"KEY"}
    /\ UNCHANGED <<mode, way, real_sleep, ps_lock, can_sleep, bcn, sleep_first,
                   need_disable, timers, keep_period, link, queue, cpc, cmsg,
                   me, waiters>>

\* The look at the radio in bk_wlan_dtim_rf_ps_mode_do_wakeup.
DoWakeupCheck(t) ==
    /\ ThreadsRun /\ pc[t] \in {"call", "call_key"}
    /\ Goto(t, IF mode = "DTIM" /\ real_sleep THEN "asleep" ELSE "awake")
    /\ UNCHANGED <<mode, radio, timers, keep_period, link, queue, cpc, cmsg, me,
                   waiters>>

\* power_save_rf_ps_wkup_semlist_wait: the thread joins the list, then asks
\* for the wake-up, then waits without a timeout.
SemlistJoin(t) ==
    /\ ThreadsRun /\ pc[t] = "asleep"
    /\ wk_list' = wk_list \cup {t}
    /\ Goto(t, "listed")
    /\ UNCHANGED <<mode, radio, timers, keep_period, link, queue, cpc, cmsg, me,
                   sema>>
SemlistAsk(t) ==
    /\ ThreadsRun /\ pc[t] = "listed"
    /\ queue' = Append(queue, "USER_WKUP")
    /\ Goto(t, "waiting")
    /\ UNCHANGED <<mode, radio, timers, keep_period, link, cpc, cmsg, me,
                   waiters>>
SemlistReturn(t) ==
    /\ ThreadsRun /\ pc[t] = "waiting" /\ t \in sema
    /\ sema' = sema \ {t}
    /\ Goto(t, "awake")
    /\ UNCHANGED <<mode, radio, timers, keep_period, link, queue, cpc, cmsg, me,
                   wk_list>>

\* The key is set and the control port opened (me_set_control_port_req), which
\* ends the reason to stay awake.
PortOpen(t) ==
    /\ ThreadsRun /\ pc[t] = "awake"
    /\ prevent' = prevent \ {"KEY"}
    /\ Goto(t, "idle")
    /\ UNCHANGED <<mode, way, real_sleep, ps_lock, can_sleep, bcn, sleep_first,
                   need_disable, timers, keep_period, link, queue, cpc, cmsg,
                   me, waiters>>

-----------------------------------------------------------------------------
Init ==
    /\ mode = "NO" /\ way = "NONE" /\ real_sleep = FALSE /\ ps_lock = 1
    /\ can_sleep = FALSE /\ bcn = "INIT" /\ sleep_first = TRUE
    /\ prevent = {} /\ need_disable = FALSE
    /\ timers = [t \in Timer |-> Off] /\ keep_period = FALSE
    /\ sta = "IDLE" /\ active = FALSE
    /\ queue = <<>> /\ cpc = "wait" /\ cmsg = "NULL"
    /\ ke = <<>> /\ me_busy = FALSE /\ ps_on = FALSE /\ rl = "LAUNCHED"
    /\ wk_list = {} /\ sema = {} /\ pc = [t \in Thread |-> "idle"]

ThreadStep(t) == \/ DoWakeupCheck(t) \/ SemlistJoin(t) \/ SemlistAsk(t)
                 \/ SemlistReturn(t) \/ PortOpen(t)
Request == \/ \E m \in Requests \cap {"TX", "TIMER_INIT", "TIMER_DEINIT"} : Post(m)
           \/ "ENABLE" \in Requests /\ ModeEnable
           \/ "DISABLE" \in Requests /\ ModeDisable
           \/ "STOP" \in Requests /\ Stop
           \/ RemoveInterface \/ Connect
           \/ \E t \in Thread : Begin(t)
Next == \/ Core \/ Confirm \/ DtimWake \/ Receive \/ WaitTimerSet
        \/ \E t \in Timer : Expire(t)
        \/ Request
        \/ \E t \in Thread : ThreadStep(t)

Spec == Init /\ [][Next]_vars

-----------------------------------------------------------------------------
\* Fairness.  The core thread, the other threads and the timer task are
\* scheduled; the radio receives while it is on; the MAC's wake-up timer ends
\* a sleep; the MAC answers a request it has had for long enough; the traffic
\* leaves the core thread idle again and again.  Nothing forces a caller to ask
\* for anything.
Fairness ==
    /\ WF_vars(Core) /\ WF_vars(Receive) /\ WF_vars(DtimWake)
    /\ SF_vars(Confirm)
    /\ \A t \in Thread : SF_vars(ThreadStep(t))
    /\ []<>ThreadsRun
FairSpec == Spec /\ Fairness

\* Type correctness.
PTypeOK ==
    /\ mode \in {"NO", "OPENING", "DTIM", "CLOSING"}
    /\ way \in {"NONE", "RW", "USER"} /\ real_sleep \in BOOLEAN
    /\ ps_lock \in {0, 1}
    /\ can_sleep \in BOOLEAN /\ bcn \in {"INIT", "TRUE", "FALSE"}
    /\ sleep_first \in BOOLEAN /\ prevent \subseteq {"WAITING_BCN", "KEY"}
    /\ need_disable \in BOOLEAN
    /\ timers \in [Timer -> [status : BOOLEAN, runs : BOOLEAN]]
    /\ keep_period \in BOOLEAN
    /\ sta \in {"IDLE", "CONN_SUCCESS", "GOT_IP"} /\ active \in BOOLEAN
    /\ queue \in Seq(Message) /\ cpc \in {"wait", "sched", "check"}
    /\ cmsg \in Message
    /\ ke \in Seq({"PS_REQ", "DISABLE_REQ"}) /\ me_busy \in BOOLEAN
    /\ ps_on \in BOOLEAN /\ rl \in {"LAUNCHED", "PS_SETTING"}
    /\ wk_list \subseteq Thread /\ sema \subseteq Thread
    /\ pc \in [Thread -> {"idle", "call", "call_key", "asleep", "listed",
                          "waiting", "awake"}]

\* ps_lock counts the radio: power_save_wakeup's ASSERT(!ps_lock) holds, and
\* power_save_sleep never meets its "error ps" branch, although
\* power_save_dtim_ps_exit clears ps_real_sleep without touching ps_lock.
LockMatchesSleep == real_sleep <=> ps_lock = 0

\* A sleeping radio can be woken: power_save_dtim_wake and the manual wake-up
\* before a frame is sent test the mode and the way, and no request that
\* closes or opens power save gets through while the radio sleeps.
AsleepIsWakeable == real_sleep => mode = "DTIM" /\ way = "NONE"

\* The station is "setting power save" for the role launcher only while an
\* answer is to come: the ME waits for a confirmation, whose handler reports
\* LAUNCHED, or the next request it takes up is one that it does not drop (it
\* drops a disable request when power save is off).
SettingIsOwed ==
    rl = "PS_SETTING" =>
        \/ me_busy
        \/ ke # <<>> /\ (ps_on \/ Head(ke) = "PS_REQ")

\* A disable request that was left for the wake-up waits only while the radio
\* sleeps: no other way out of a sleep, the end of power save included, goes
\* past power_save_dtim_exit_check.
DeferredUntilWake == need_disable => real_sleep

\* A thread that is on the list while the radio sleeps is released.
WokenWhenAsleep ==
    \A t \in Thread : (t \in wk_list /\ real_sleep) ~> t \notin wk_list

\* A disable request that was accepted, at once or for the next wake-up, is
\* carried out, whatever else is asked for meanwhile, unless the station's
\* interface is removed first: the one that bk_wlan_stop leaves for the wake-up
\* then reaches nobody, and power save stays on.
DisableEnds == (need_disable \/ Has("DISANABLE")) ~> (mode = "NO" \/ ~active)

\* The role launcher is not left with a station that is "setting power save":
\* every PS_SETTING is followed by LAUNCHED, also for the requests that the
\* ME drops.
SettingEnds == rl = "PS_SETTING" ~> rl = "LAUNCHED"
=============================================================================
