--------------------------- MODULE PowerSaveProofs ---------------------------
(***************************************************************************)
(* Safety of the radio's sleep, for any threads, timers and requests.      *)
(*                                                                         *)
(* LockMatchesSleep and AsleepIsWakeable need more than themselves: while  *)
(* the radio sleeps, nothing that would change the mode may be under way.  *)
(* Asleep says so: no request lies with the ME, none is being confirmed,   *)
(* and no DISANABLE message is in the core thread's queue.                 *)
(*                                                                         *)
(* The second part is about requests that wait: a disable request left for *)
(* the wake-up, and the confirmation that ends a PS_SETTING.  The latter   *)
(* needs OwedInv: power_save.c and the ME agree whether power save is on.  *)
(***************************************************************************)
EXTENDS PowerSave, TLAPS

USE DEF link

NoDisable(q) == \A i \in 1..Len(q) : q[i] # "DISANABLE"

Asleep ==
    real_sleep => /\ mode = "DTIM" /\ way = "NONE" /\ ps_lock = 0
                  /\ ke = <<>> /\ ~me_busy /\ NoDisable(queue)
Awake == ~real_sleep => ps_lock = 1
Busy == me_busy => mode \in {"OPENING", "CLOSING"}
PInv == PTypeOK /\ Asleep /\ Awake /\ Busy

\* The part of PTypeOK that a wake-up touches.
RadioTypeOK ==
    /\ real_sleep \in BOOLEAN /\ ps_lock \in {0, 1}
    /\ way \in {"NONE", "RW", "USER"} /\ can_sleep \in BOOLEAN
    /\ bcn \in {"INIT", "TRUE", "FALSE"} /\ sleep_first \in BOOLEAN
    /\ prevent \subseteq {"WAITING_BCN", "KEY"} /\ need_disable \in BOOLEAN
    /\ queue \in Seq(Message)
    /\ wk_list \subseteq Thread /\ sema \subseteq Thread

-----------------------------------------------------------------------------
(* Messages. *)

\* A conditional post adds at most one message of the queue.
LEMMA PostedType ==
    ASSUME NEW c, NEW m \in Message
    PROVE  Posted(c, m) \in Seq(Message)
BY DEF Posted

\* Posting anything but a disable request adds none.
LEMMA NoDisableAppend ==
    ASSUME NEW q \in Seq(Message), NEW m \in Message, m # "DISANABLE",
           NoDisable(q)
    PROVE  NoDisable(Append(q, m))
BY DEF NoDisable

LEMMA NoDisablePosted ==
    ASSUME NEW q \in Seq(Message), NEW m \in Message, m # "DISANABLE",
           NEW c, NoDisable(q)
    PROVE  NoDisable(q \o Posted(c, m))
<1>1. CASE c
  <2>1. q \o Posted(c, m) = Append(q, m)
    BY <1>1 DEF Posted
  <2> QED
    BY <2>1, NoDisableAppend
<1>2. CASE ~c
  <2>1. q \o Posted(c, m) = q
    BY <1>2 DEF Posted
  <2> QED
    BY <2>1
<1> QED
  BY <1>1, <1>2

\* Taking a message away adds none.
LEMMA NoDisableTail ==
    ASSUME NEW q \in Seq(Message), q # <<>>, NoDisable(q)
    PROVE  NoDisable(Tail(q)) /\ Tail(q) \in Seq(Message)
BY DEF NoDisable

\* The messages the timers and the radio post are messages of the queue.
LEMMA Messages ==
    /\ {"ENABLE", "DISANABLE", "USER_WKUP", "RX", "TX", "NULL"} \subseteq Message
    /\ TimerMsg \subseteq Message
    /\ \A t \in Timer : HandlerOf(t) \in Message /\ HandlerOf(t) # "DISANABLE"
BY DEF Message, TimerMsg, HandlerOf, Timer

\* Setting one timer leaves two timers.
LEMMA TimersUpdate ==
    ASSUME timers \in [Timer -> [status : BOOLEAN, runs : BOOLEAN]],
           NEW t \in Timer, NEW v \in {Off, On},
           timers' = [timers EXCEPT ![t] = v]
    PROVE  timers' \in [Timer -> [status : BOOLEAN, runs : BOOLEAN]]
<1>1. v \in [status : BOOLEAN, runs : BOOLEAN]
  <2>1. Off \in [status : BOOLEAN, runs : BOOLEAN]
    BY Zenon DEF Off
  <2>2. On \in [status : BOOLEAN, runs : BOOLEAN]
    BY Zenon DEF On
  <2> QED
    BY <2>1, <2>2
<1> QED
  BY <1>1, Zenon

-----------------------------------------------------------------------------
(* One lemma per step that touches the radio's sleep. *)

\* power_save_ieee_dtim_wakeup leaves the radio on and the lock taken.
LEMMA WakeupAwake ==
    ASSUME PInv, real_sleep, NEW w \in {"RW", "USER"},
           NEW q \in Seq(Message), Wakeup(w, q)
    PROVE  /\ real_sleep' = FALSE /\ ps_lock' = 1
           /\ RadioTypeOK'
<1>1. queue' \in Seq(Message)
  <2>1. /\ Posted(~sleep_first /\ keep_period, "KP_SET") \in Seq(Message)
        /\ Posted(need_disable /\ mode # "NO", "DISANABLE") \in Seq(Message)
    BY PostedType DEF Message, TimerMsg
  <2> QED
    BY <2>1 DEF Wakeup
<1>2. ps_lock' = 1
  BY DEF Wakeup, PInv, Asleep
<1>3. sleep_first' \in BOOLEAN
  BY DEF Wakeup, PInv, PTypeOK
<1>4. prevent' \subseteq {"WAITING_BCN", "KEY"}
  BY DEF Wakeup, PInv, PTypeOK
<1> QED
  BY <1>1, <1>2, <1>3, <1>4 DEF Wakeup, PInv, PTypeOK, RadioTypeOK

LEMMA DtimWakePreserves ==
    ASSUME PInv, DtimWake
    PROVE  PInv'
<1>1. /\ real_sleep' = FALSE /\ ps_lock' = 1
      /\ RadioTypeOK'
  <2>1. queue \in Seq(Message) /\ real_sleep /\ Wakeup("RW", queue)
    BY DEF DtimWake, PInv, PTypeOK
  <2> QED
    BY <2>1, WakeupAwake
<1>2. PTypeOK'
  BY <1>1 DEF DtimWake, PInv, PTypeOK, RadioTypeOK, me
<1>3. Asleep' /\ Awake'
  BY <1>1 DEF Asleep, Awake
<1>4. Busy'
  BY DEF DtimWake, PInv, Busy, me
<1> QED
  BY <1>2, <1>3, <1>4 DEF PInv

\* power_save_sleep: the mode is DTIM, so no request is with the ME.
LEMMA SleepPreserves ==
    ASSUME PInv, Sleep
    PROVE  PInv'
<1>1. ~real_sleep /\ ps_lock = 1 /\ mode = "DTIM" /\ ~me_busy /\ ke = <<>>
  BY DEF Sleep, Asked, StaDtimCanSleep, Switch, PInv, Awake, Busy
<1>2. ps_lock' = 0 /\ real_sleep' = TRUE /\ way' = "NONE"
  BY <1>1 DEF Sleep, SleepStatusSet
<1>3. queue' \in Seq(Message) /\ NoDisable(queue')
  <2>1. queue \in Seq(Message) /\ NoDisable(queue)
    BY DEF Sleep, Asked, NoDisable, PInv, PTypeOK
  <2>2. "KP_STOP" \in Message
    BY Messages DEF TimerMsg
  <2>3. queue' = queue \o Posted(timers["keep"].status, "KP_STOP")
    BY <1>1 DEF Sleep
  <2>4. Posted(timers["keep"].status, "KP_STOP") \in Seq(Message)
    BY <2>2, PostedType
  <2> QED
    BY <2>1, <2>2, <2>3, <2>4, NoDisablePosted
<1>4. /\ prevent' = {} /\ sleep_first' = FALSE /\ cpc' = "wait"
      /\ UNCHANGED <<mode, can_sleep, bcn, need_disable, timers, keep_period,
                     link, cmsg, me, waiters, pc>>
  BY DEF Sleep
<1>5. real_sleep' \in BOOLEAN /\ sleep_first' \in BOOLEAN /\ prevent' = {}
  BY <1>2, <1>4, Zenon
<1>6. ps_lock' \in {0, 1} /\ way' \in {"NONE", "RW", "USER"}
  BY <1>2
<1>7. PTypeOK'
  BY <1>3, <1>4, <1>5, <1>6 DEF PInv, PTypeOK, me, waiters
<1>8. Asleep' /\ Awake' /\ Busy'
  BY <1>1, <1>2, <1>3 DEF Sleep, Asleep, Awake, Busy, me
<1> QED
  BY <1>7, <1>8 DEF PInv

LEMMA NoSleepPreserves ==
    ASSUME PInv, NoSleep
    PROVE  PInv'
<1>1. prevent' \subseteq {"WAITING_BCN", "KEY"}
  BY DEF NoSleep, Prevented, PInv, PTypeOK
<1>2. PTypeOK'
  BY <1>1 DEF NoSleep, PInv, PTypeOK, me, waiters
<1>3. Asleep' /\ Awake' /\ Busy'
  BY DEF NoSleep, PInv, Asleep, Awake, Busy, me
<1> QED
  BY <1>2, <1>3 DEF PInv

-----------------------------------------------------------------------------
(* The core thread's other steps. *)

\* power_save_rf_dtim_manual_do_wakeup, from the queue q without the message.
LEMMA ManualWakeup ==
    ASSUME PInv, NEW q \in Seq(Message), NoDisable(queue) => NoDisable(q),
           ManualDoWakeup(q)
    PROVE  /\ real_sleep' => /\ real_sleep /\ way' = "NONE" /\ ps_lock' = 0
                             /\ NoDisable(queue')
           /\ ~real_sleep' => ps_lock' = 1
           /\ RadioTypeOK'
<1>1. CASE mode = "DTIM" /\ way = "NONE" /\ real_sleep
  <2>1. Wakeup("USER", q)
    BY <1>1 DEF ManualDoWakeup
  <2> QED
    BY <1>1, <2>1, WakeupAwake
<1>2. CASE ~(mode = "DTIM" /\ way = "NONE" /\ real_sleep)
  <2>1. queue' = q /\ UNCHANGED <<radio, waiters>>
    BY <1>2 DEF ManualDoWakeup
  <2> QED
    BY <1>2, <2>1 DEF PInv, PTypeOK, RadioTypeOK, Asleep, Awake, radio, waiters
<1> QED
  BY <1>1, <1>2

LEMMA PopPreserves ==
    ASSUME PInv, Pop
    PROVE  PInv'
<1> USE DEF PInv
<1>1. /\ queue \in Seq(Message) /\ queue # <<>> /\ cmsg' = Head(queue)
      /\ cmsg' \in Message /\ cpc' = "sched" /\ Tail(queue) \in Seq(Message)
  BY DEF Pop, PTypeOK
<1>2. NoDisable(queue) => cmsg' # "DISANABLE" /\ NoDisable(Tail(queue))
  BY <1>1, NoDisableTail DEF NoDisable
<1>3. CASE cmsg' = "DISANABLE"
  <2>1. /\ DtimDisable /\ queue' = Tail(queue) /\ UNCHANGED <<radio, waiters>>
        /\ UNCHANGED <<mode, timers, keep_period, link, me_busy, ps_on, pc>>
    BY <1>3 DEF Pop
  <2>2. ~real_sleep
    BY <1>2, <1>3 DEF Asleep
  <2>3. ke' \in Seq({"PS_REQ", "DISABLE_REQ"})
    <3>1. ke' = Append(ke, "DISABLE_REQ") \/ ke' = ke
      BY <2>1, Zenon DEF DtimDisable
    <3> QED
      BY <3>1 DEF PTypeOK
  <2>4. rl' \in {"LAUNCHED", "PS_SETTING"}
    BY <2>1 DEF DtimDisable, PTypeOK
  <2>5. PTypeOK'
    BY <1>1, <2>1, <2>3, <2>4 DEF PTypeOK, radio, waiters
  <2> QED
    BY <2>1, <2>2, <2>5 DEF Asleep, Awake, Busy, radio
<1>4. CASE cmsg' = "RX"
  <2>1. PICK beacon \in BOOLEAN : RxFrame(beacon)
    BY <1>4 DEF Pop
  <2>2. /\ queue' = Tail(queue) /\ UNCHANGED <<ke, rl, waiters>>
        /\ UNCHANGED <<mode, timers, keep_period, link, me_busy, ps_on, pc>>
    BY <1>4 DEF Pop
  <2>3. PTypeOK'
    BY <1>1, <2>1, <2>2 DEF RxFrame, PTypeOK, waiters
  <2> QED
    BY <1>2, <2>1, <2>2, <2>3 DEF RxFrame, Asleep, Awake, Busy
<1>5. CASE cmsg' = "TX"
  <2>1. /\ ManualDoWakeup(Tail(queue)) /\ UNCHANGED <<ke, rl>>
        /\ UNCHANGED <<mode, timers, keep_period, link, me_busy, ps_on, pc>>
    BY <1>5 DEF Pop
  <2>2. /\ real_sleep' => /\ real_sleep /\ way' = "NONE" /\ ps_lock' = 0
                          /\ NoDisable(queue')
        /\ ~real_sleep' => ps_lock' = 1
        /\ RadioTypeOK'
    BY <1>1, <1>2, <2>1, ManualWakeup
  <2>3. PTypeOK'
    BY <1>1, <2>1, <2>2 DEF PTypeOK, RadioTypeOK
  <2> QED
    BY <2>1, <2>2, <2>3 DEF Asleep, Awake, Busy
<1>6. CASE cmsg' \notin {"DISANABLE", "RX", "TX"}
  <2>1. /\ queue' = Tail(queue) /\ UNCHANGED <<radio, ke, rl, waiters>>
        /\ UNCHANGED <<mode, timers, keep_period, link, me_busy, ps_on, pc>>
    BY <1>6 DEF Pop
  <2>2. PTypeOK'
    BY <1>1, <2>1 DEF PTypeOK, radio, waiters
  <2> QED
    BY <1>2, <2>1, <2>2 DEF Asleep, Awake, Busy, radio
<1> QED
  BY <1>3, <1>4, <1>5, <1>6

\* A request with the ME means that the radio is on.
LEMMA MeHandlerPreserves ==
    ASSUME PInv, MeHandler
    PROVE  PInv'
<1>1. ~real_sleep
  BY DEF MeHandler, PInv, Asleep
<1>2. ke' \in Seq({"PS_REQ", "DISABLE_REQ"})
  BY DEF MeHandler, PInv, PTypeOK
<1>3. /\ mode' \in {"NO", "OPENING", "DTIM", "CLOSING"}
      /\ me_busy' \in BOOLEAN /\ ps_on' \in BOOLEAN
  BY DEF MeHandler, PInv, PTypeOK
<1>4. PTypeOK'
  BY <1>2, <1>3 DEF MeHandler, PInv, PTypeOK, radio, waiters
<1>5. Busy'
  BY DEF MeHandler, PInv, Busy
<1>6. Asleep' /\ Awake'
  BY <1>1 DEF MeHandler, PInv, Asleep, Awake, radio
<1> QED
  BY <1>4, <1>5, <1>6 DEF PInv

LEMMA ConfirmPreserves ==
    ASSUME PInv, Confirm
    PROVE  PInv'
<1>1. ~real_sleep /\ ps_lock = 1
  BY DEF Confirm, DtimEnableHandler, DtimDisableHandler, PInv, Asleep, Awake
<1>2. CASE DtimEnableHandler
  <2>1. timers' \in [Timer -> [status : BOOLEAN, runs : BOOLEAN]]
    <3>1. CASE sta \in {"CONN_SUCCESS", "GOT_IP"}
      BY <1>2, <3>1, TimersUpdate DEF DtimEnableHandler, PInv, PTypeOK, Timer
    <3>2. CASE sta \notin {"CONN_SUCCESS", "GOT_IP"}
      BY <1>2, <3>2 DEF DtimEnableHandler, PInv, PTypeOK
    <3> QED
      BY <3>1, <3>2
  <2>2. /\ mode' \in {"NO", "OPENING", "DTIM", "CLOSING"}
        /\ sleep_first' \in BOOLEAN /\ can_sleep' \in BOOLEAN
    BY <1>2 DEF DtimEnableHandler, PInv, PTypeOK
  <2>3. PTypeOK'
    BY <1>2, <2>1, <2>2
    DEF DtimEnableHandler, EnableReport, PInv, PTypeOK, waiters
  <2>4. Asleep' /\ Awake' /\ Busy'
    BY <1>1, <1>2 DEF DtimEnableHandler, PInv, Asleep, Awake, Busy
  <2> QED
    BY <2>3, <2>4 DEF PInv
<1>3. CASE DtimDisableHandler
  <2>1. PTypeOK'
    BY <1>3 DEF DtimDisableHandler, PInv, PTypeOK, waiters
  <2>2. Asleep' /\ Awake' /\ Busy'
    BY <1>1, <1>3 DEF DtimDisableHandler, PInv, Asleep, Awake, Busy
  <2> QED
    BY <2>1, <2>2 DEF PInv
<1> QED
  BY <1>2, <1>3 DEF Confirm

\* The messages of the timers change the way of the wake-up only while the
\* radio is on.
LEMMA TimerProcessEffect ==
    ASSUME PInv, TimerProcess
    PROVE  /\ timers' \in [Timer -> [status : BOOLEAN, runs : BOOLEAN]]
           /\ keep_period' \in BOOLEAN
           /\ RadioTypeOK'
           /\ real_sleep => way' = way /\ queue' = queue
           /\ UNCHANGED <<real_sleep, ps_lock, ke, rl>>
<1> USE DEF PInv, PTypeOK, RadioTypeOK
<1>1. UNCHANGED <<real_sleep, ps_lock, can_sleep, sleep_first, need_disable, ke, rl,
                 waiters>>
  BY DEF TimerProcess
<1>2. CASE \E t \in Timer : TimerSet(t)
  <2>1. PICK t \in Timer : TimerSet(t)
    BY <1>2
  <2>2. timers' \in [Timer -> [status : BOOLEAN, runs : BOOLEAN]]
    <3>1. CASE Exists(t) /\ ~timers[t].status
      BY <2>1, <3>1, TimersUpdate DEF TimerSet
    <3>2. CASE ~(Exists(t) /\ ~timers[t].status)
      BY <2>1, <3>2 DEF TimerSet
    <3> QED
      BY <3>1, <3>2
  <2>3. bcn' \in {"INIT", "TRUE", "FALSE"}
    BY <2>1 DEF TimerSet
  <2> QED
    BY <1>1, <2>1, <2>2, <2>3 DEF TimerSet, waiters
<1>3. CASE WaitRealHandler
  <2>1. timers' \in [Timer -> [status : BOOLEAN, runs : BOOLEAN]]
    BY <1>3, TimersUpdate DEF WaitRealHandler, Timer
  <2> QED
    BY <1>1, <1>3, <2>1 DEF WaitRealHandler, waiters
<1>4. CASE KeepRealHandler
  <2>1. timers' \in [Timer -> [status : BOOLEAN, runs : BOOLEAN]]
    BY <1>4, TimersUpdate DEF KeepRealHandler, Timer
  <2>2. CASE way = "RW" /\ ~real_sleep
    <3>1. PICK reseted \in BOOLEAN :
            /\ way' = IF reseted THEN way ELSE "USER"
            /\ prevent' = IF reseted THEN prevent
                          ELSE prevent \ {"WAITING_BCN"}
            /\ queue' = queue \o Posted(queue = <<>>, "NULL")
      BY <1>4, <2>2 DEF KeepRealHandler
    <3>2. queue' \in Seq(Message)
      BY <3>1, PostedType DEF Message
    <3>3. way' \in {"NONE", "RW", "USER"}
      BY <3>1
    <3>4. prevent' \subseteq {"WAITING_BCN", "KEY"}
      BY <3>1
    <3> QED
      BY <1>1, <1>4, <2>1, <2>2, <3>2, <3>3, <3>4 DEF KeepRealHandler, waiters
  <2>3. CASE ~(way = "RW" /\ ~real_sleep)
    BY <1>1, <1>4, <2>1, <2>3 DEF KeepRealHandler, waiters
  <2> QED
    BY <2>2, <2>3
<1>5. CASE \E p \in BOOLEAN : KeepStop(p)
  <2>1. timers' \in [Timer -> [status : BOOLEAN, runs : BOOLEAN]]
    BY <1>5, TimersUpdate DEF KeepStop, Timer
  <2> QED
    BY <1>1, <1>5, <2>1 DEF KeepStop, waiters
<1>6. keep_period \in BOOLEAN
  BY Zenon
<1>7. \/ \E t \in Timer : TimerSet(t)
      \/ WaitRealHandler \/ KeepRealHandler
      \/ \E p \in BOOLEAN : KeepStop(p)
  BY <1>6, Zenon DEF TimerProcess
<1> QED
  BY <1>2, <1>3, <1>4, <1>5, <1>7

LEMMA PsHandlerPreserves ==
    ASSUME PInv, PsHandler
    PROVE  PInv'
<1>1. /\ cpc' = "check" /\ cmsg' = "NULL"
      /\ UNCHANGED <<mode, link, me_busy, ps_on, pc>>
  BY DEF PsHandler
<1>2. CASE cmsg = "ENABLE" /\ DtimEnable
           /\ UNCHANGED <<radio, timers, keep_period, queue, waiters>>
  <2>1. ke' \in Seq({"PS_REQ", "DISABLE_REQ"})
    <3>1. ke \in Seq({"PS_REQ", "DISABLE_REQ"})
      BY DEF PInv, PTypeOK
    <3>2. ke' \in {ke, Append(ke, "PS_REQ")}
      BY <1>2 DEF DtimEnable
    <3> QED
      BY <3>1, <3>2
  <2>2. rl' \in {"LAUNCHED", "PS_SETTING"}
    BY <1>2 DEF DtimEnable, PInv, PTypeOK
  <2>3. PTypeOK'
    BY <1>1, <1>2, <2>1, <2>2 DEF PInv, PTypeOK, radio, waiters, Message
  <2>4. real_sleep => ke' = ke
    BY <1>2 DEF DtimEnable, PInv, Asleep
  <2> QED
    BY <1>1, <1>2, <2>3, <2>4 DEF PInv, Asleep, Awake, Busy, radio
<1>3. CASE cmsg = "USER_WKUP" /\ ManualDoWakeup(queue)
           /\ UNCHANGED <<timers, keep_period, ke, rl>>
  <2>1. queue \in Seq(Message)
    BY DEF PInv, PTypeOK
  <2>2. /\ real_sleep' => /\ real_sleep /\ way' = "NONE" /\ ps_lock' = 0
                          /\ NoDisable(queue')
        /\ ~real_sleep' => ps_lock' = 1
        /\ RadioTypeOK'
    BY <1>3, <2>1, ManualWakeup
  <2>3. PTypeOK'
    BY <1>1, <1>3, <2>2 DEF PInv, PTypeOK, RadioTypeOK, Message
  <2> QED
    BY <1>1, <1>3, <2>2, <2>3 DEF PInv, Asleep, Awake, Busy
<1>4. CASE TimerProcess
  <2>1. PTypeOK'
    BY <1>1, <1>4, TimerProcessEffect DEF PInv, PTypeOK, RadioTypeOK, Message
  <2> QED
    BY <1>1, <1>4, <2>1, TimerProcessEffect DEF PInv, Asleep, Awake, Busy
<1>5. CASE UNCHANGED <<radio, timers, keep_period, queue, ke, rl, waiters>>
  <2>1. PTypeOK'
    BY <1>1, <1>5 DEF PInv, PTypeOK, radio, waiters, Message
  <2> QED
    BY <1>1, <1>5, <2>1 DEF PInv, Asleep, Awake, Busy, radio
<1> QED
  BY <1>2, <1>3, <1>4, <1>5 DEF PsHandler

-----------------------------------------------------------------------------
(* Interrupts, timers and callers. *)

\* A step that only posts a message other than a disable request.
LEMMA PostPreserves ==
    ASSUME PInv, NEW m \in Message, m # "DISANABLE",
           queue' = Append(queue, m),
           UNCHANGED <<mode, radio, keep_period, link, cpc, cmsg, me, wk_list,
                       sema>>,
           timers' \in [Timer -> [status : BOOLEAN, runs : BOOLEAN]],
           pc' \in [Thread -> {"idle", "call", "call_key", "asleep", "listed",
                              "waiting", "awake"}]
    PROVE  PInv'
<1>1. queue' \in Seq(Message) /\ (NoDisable(queue) => NoDisable(queue'))
  BY NoDisableAppend DEF PInv, PTypeOK
<1>2. PTypeOK'
  BY <1>1 DEF PInv, PTypeOK, radio, me
<1> QED
  BY <1>1, <1>2 DEF PInv, Asleep, Awake, Busy, radio, me

\* bk_wlan_dtim_rf_ps_disable_send_msg posts nothing while the radio sleeps.
LEMMA DisableSend ==
    ASSUME PInv, DisableSendMsg
    PROVE  /\ queue' \in Seq(Message) /\ need_disable' \in BOOLEAN
           /\ real_sleep => queue' = queue
<1>1. CASE mode = "DTIM" /\ real_sleep
  BY <1>1 DEF DisableSendMsg, PInv, PTypeOK
<1>2. CASE ~(mode = "DTIM" /\ real_sleep)
  <2>1. ~real_sleep
    BY <1>2 DEF PInv, Asleep
  <2>2. Posted(mode # "NO", "DISANABLE") \in Seq(Message)
    BY PostedType DEF Message
  <2> QED
    <3>1. need_disable' = need_disable
      BY <1>2 DEF DisableSendMsg
    <3>2. need_disable' \in BOOLEAN
      BY <3>1 DEF PInv, PTypeOK
    <3>3. queue' = queue \o Posted(mode # "NO", "DISANABLE")
      BY <1>2 DEF DisableSendMsg
    <3> QED
      BY <2>1, <2>2, <3>2, <3>3 DEF PInv, PTypeOK
<1> QED
  BY <1>1, <1>2

LEMMA RequestPreserves ==
    ASSUME PInv, Request
    PROVE  PInv'
<1> USE DEF PInv
<1>1. ASSUME NEW m \in {"TX", "TIMER_INIT", "TIMER_DEINIT"}, Post(m)
      PROVE  PInv'
  <2>1. m \in Message /\ m # "DISANABLE"
    BY DEF Message, TimerMsg
  <2> QED
    BY <1>1, <2>1, PostPreserves DEF Post, PTypeOK, waiters
<1>2. CASE ModeEnable
  <2>1. "ENABLE" \in Message
    BY DEF Message
  <2> QED
    BY <1>2, <2>1, PostPreserves DEF ModeEnable, PTypeOK, waiters
<1>3. CASE ModeDisable
  <2>1. PTypeOK'
    BY <1>3, DisableSend DEF ModeDisable, PTypeOK, me, waiters
  <2> QED
    BY <1>3, <2>1, DisableSend DEF ModeDisable, Asleep, Awake, Busy, me
<1>4. CASE Stop
  <2>1. PTypeOK'
    BY <1>4, DisableSend DEF Stop, PTypeOK, me, waiters
  <2> QED
    BY <1>4, <2>1, DisableSend DEF Stop, Asleep, Awake, Busy, me
<1>5. CASE Connect
  <2>1. sta' \in {"IDLE", "CONN_SUCCESS", "GOT_IP"} /\ active' \in BOOLEAN
    BY <1>5, Zenon DEF Connect, PTypeOK
  <2>2. PTypeOK'
    BY <1>5, <2>1 DEF Connect, PTypeOK, radio, me, waiters
  <2> QED
    BY <1>5, <2>2 DEF Connect, Asleep, Awake, Busy, radio, me
<1>6. ASSUME NEW t \in Thread, Begin(t)
      PROVE  PInv'
  <2>1. prevent' \subseteq {"WAITING_BCN", "KEY"}
    BY <1>6 DEF Begin, PTypeOK
  <2>2. pc' \in [Thread -> {"idle", "call", "call_key", "asleep", "listed",
                           "waiting", "awake"}]
    BY <1>6 DEF Begin, Goto, PTypeOK
  <2>3. PTypeOK'
    BY <1>6, <2>1, <2>2 DEF Begin, PTypeOK, me, waiters
  <2> QED
    BY <1>6, <2>3 DEF Begin, Asleep, Awake, Busy, me
<1>7. CASE RemoveInterface
  <2>0. active' \in BOOLEAN
    BY <1>7, Zenon DEF RemoveInterface
  <2>1. PTypeOK'
    BY <1>7, <2>0 DEF RemoveInterface, PTypeOK, radio, me, waiters
  <2> QED
    BY <1>7, <2>1 DEF RemoveInterface, Asleep, Awake, Busy, radio, me
<1> QED
  BY <1>1, <1>2, <1>3, <1>4, <1>5, <1>6, <1>7 DEF Request

LEMMA ThreadStepPreserves ==
    ASSUME PInv, NEW t \in Thread, ThreadStep(t)
    PROVE  PInv'
<1> USE DEF PInv
<1>1. pc' \in [Thread -> {"idle", "call", "call_key", "asleep", "listed",
                         "waiting", "awake"}]
  BY DEF ThreadStep, DoWakeupCheck, SemlistJoin, SemlistAsk, SemlistReturn,
         PortOpen, Goto, PTypeOK
<1>2. CASE DoWakeupCheck(t)
  <2>1. PTypeOK'
    BY <1>1, <1>2 DEF DoWakeupCheck, PTypeOK, radio, me, waiters
  <2> QED
    BY <1>2, <2>1 DEF DoWakeupCheck, Asleep, Awake, Busy, radio, me
<1>3. CASE SemlistJoin(t)
  <2>1. PTypeOK'
    BY <1>1, <1>3 DEF SemlistJoin, PTypeOK, radio, me
  <2> QED
    BY <1>3, <2>1 DEF SemlistJoin, Asleep, Awake, Busy, radio, me
<1>4. CASE SemlistAsk(t)
  <2>1. "USER_WKUP" \in Message
    BY Messages
  <2> QED
    BY <1>1, <1>4, <2>1, PostPreserves DEF SemlistAsk, PTypeOK, waiters
<1>5. CASE SemlistReturn(t)
  <2>1. PTypeOK'
    BY <1>1, <1>5 DEF SemlistReturn, PTypeOK, radio, me
  <2> QED
    BY <1>5, <2>1 DEF SemlistReturn, Asleep, Awake, Busy, radio, me
<1>6. CASE PortOpen(t)
  <2>1. PTypeOK'
    BY <1>1, <1>6 DEF PortOpen, PTypeOK, me, waiters
  <2> QED
    BY <1>6, <2>1 DEF PortOpen, Asleep, Awake, Busy, me
<1> QED
  BY <1>2, <1>3, <1>4, <1>5, <1>6 DEF ThreadStep

LEMMA InterruptPreserves ==
    ASSUME PInv, Receive \/ WaitTimerSet \/ \E t \in Timer : Expire(t)
    PROVE  PInv'
<1> USE DEF PInv
<1>1. CASE Receive
  <2>1. "RX" \in Message
    BY Messages
  <2> QED
    BY <1>1, <2>1, PostPreserves DEF Receive, PTypeOK, waiters
<1>2. CASE WaitTimerSet
  <2>1. "WAIT_TM_SET" \in Message
    BY Messages DEF TimerMsg
  <2> QED
    BY <1>2, <2>1, PostPreserves DEF WaitTimerSet, PTypeOK, waiters
<1>3. ASSUME NEW t \in Timer, Expire(t)
      PROVE  PInv'
  <2>1. HandlerOf(t) \in Message /\ HandlerOf(t) # "DISANABLE"
    BY Messages
  <2>2. timers' \in [Timer -> [status : BOOLEAN, runs : BOOLEAN]]
    <3>1. [timers[t] EXCEPT !.runs = FALSE] \in [status : BOOLEAN, runs : BOOLEAN]
      BY Zenon DEF PTypeOK
    <3>2. timers' = [timers EXCEPT ![t] = [timers[t] EXCEPT !.runs = FALSE]]
      BY <1>3 DEF Expire
    <3> QED
      BY <3>1, <3>2, Zenon DEF PTypeOK
  <2> QED
    BY <1>3, <2>1, <2>2, PostPreserves DEF Expire, PTypeOK, waiters
<1> QED
  BY <1>1, <1>2, <1>3

-----------------------------------------------------------------------------
(* The theorems. *)

LEMMA InitInvariant == Init => PInv
<1>1. Init => Asleep /\ Awake /\ Busy
  BY DEF Init, Asleep, Awake, Busy
<1>2. Init => timers \in [Timer -> [status : BOOLEAN, runs : BOOLEAN]]
  <2>1. Off \in [status : BOOLEAN, runs : BOOLEAN]
    BY Zenon DEF Off
  <2> QED
    BY <2>1 DEF Init
<1>3. Init => /\ real_sleep \in BOOLEAN /\ can_sleep \in BOOLEAN
              /\ sleep_first \in BOOLEAN /\ need_disable \in BOOLEAN
              /\ keep_period \in BOOLEAN /\ me_busy \in BOOLEAN
              /\ ps_on \in BOOLEAN
  BY Zenon DEF Init
<1>4. Init => /\ queue \in Seq(Message) /\ cmsg \in Message
              /\ ke \in Seq({"PS_REQ", "DISABLE_REQ"})
  BY DEF Init, Message
<1>5. Init => PTypeOK
  BY <1>2, <1>3, <1>4 DEF Init, PTypeOK
<1> QED
  BY <1>1, <1>5 DEF PInv

\* PInv is an invariant of every behaviour of the specification.
THEOREM SleepInvariant == Spec => []PInv
<1>1. PInv /\ [Next]_vars => PInv'
  <2> SUFFICES ASSUME PInv, [Next]_vars PROVE PInv'
    OBVIOUS
  <2>1. CASE Core
    BY <2>1, PopPreserves, MeHandlerPreserves, PsHandlerPreserves,
       SleepPreserves, NoSleepPreserves DEF Core
  <2>2. CASE Confirm
    BY <2>2, ConfirmPreserves
  <2>3. CASE DtimWake
    BY <2>3, DtimWakePreserves
  <2>4. CASE Receive \/ WaitTimerSet \/ \E t \in Timer : Expire(t)
    BY <2>4, InterruptPreserves
  <2>5. CASE Request
    BY <2>5, RequestPreserves
  <2>6. CASE \E t \in Thread : ThreadStep(t)
    BY <2>6, ThreadStepPreserves
  <2>7. CASE UNCHANGED vars
    <3>1. PTypeOK'
      BY <2>7 DEF vars, radio, me, waiters, PInv, PTypeOK
    <3> QED
      BY <2>7, <3>1 DEF vars, radio, me, waiters, PInv, Asleep, Awake, Busy
  <2> QED
    BY <2>1, <2>2, <2>3, <2>4, <2>5, <2>6, <2>7 DEF Next
<1> QED
  BY <1>1, InitInvariant, PTL DEF Spec

\* Type correctness; with it, ps_lock is never counted past one.
THEOREM SleepTypes == Spec => []PTypeOK
<1>1. PInv => PTypeOK
  BY DEF PInv
<1> QED
  BY <1>1, SleepInvariant, PTL

\* The radio's lock is free exactly while it sleeps, so that ASSERT(!ps_lock)
\* in power_save_wakeup holds whenever the radio is woken.
THEOREM LockIsRight == Spec => []LockMatchesSleep
<1>1. PInv => LockMatchesSleep
  BY DEF PInv, PTypeOK, Asleep, Awake, LockMatchesSleep
<1> QED
  BY <1>1, SleepInvariant, PTL

\* The radio sleeps only in a state from which every wake-up works.
THEOREM SleeperCanBeWoken == Spec => []AsleepIsWakeable
<1>1. PInv => AsleepIsWakeable
  BY DEF PInv, Asleep, AsleepIsWakeable
<1> QED
  BY <1>1, SleepInvariant, PTL
-----------------------------------------------------------------------------
(* A disable request that waits for the wake-up. *)

\* The wake-up sends the request that was left for it.
LEMMA WakeupSends ==
    ASSUME DeferredUntilWake, NEW q, ManualDoWakeup(q) \/ Wakeup("RW", q)
    PROVE  DeferredUntilWake'
BY DEF DeferredUntilWake, ManualDoWakeup, Wakeup, radio

\* Only DisableSendMsg leaves a request, and it does so while the radio
\* sleeps; the confirmation of a closing, which clears ps_real_sleep too,
\* finds the radio on (Asleep).
LEMMA DeferredPreserved ==
    ASSUME PInv, DeferredUntilWake, [Next]_vars
    PROVE  DeferredUntilWake'
<1>1. CASE Pop
  <2>1. \/ UNCHANGED radio
        \/ \E beacon \in BOOLEAN : RxFrame(beacon)
        \/ ManualDoWakeup(Tail(queue))
    BY <1>1 DEF Pop
  <2> QED
    BY <2>1, WakeupSends DEF RxFrame, DeferredUntilWake, radio
<1>2. CASE MeHandler \/ NoSleep
  BY <1>2 DEF MeHandler, NoSleep, DeferredUntilWake, radio
<1>3. CASE PsHandler
  <2>1. \/ UNCHANGED radio
        \/ ManualDoWakeup(queue)
        \/ TimerProcess
    BY <1>3 DEF PsHandler
  <2> QED
    BY <2>1, WakeupSends DEF TimerProcess, DeferredUntilWake, radio
<1>4. CASE Sleep
  BY <1>4 DEF Sleep, SleepStatusSet, DeferredUntilWake
<1>5. CASE Confirm
  <2>1. ~real_sleep
    BY <1>5 DEF Confirm, DtimEnableHandler, DtimDisableHandler, PInv, Asleep
  <2> QED
    BY <1>5, <2>1
    DEF Confirm, DtimEnableHandler, DtimDisableHandler, DeferredUntilWake
<1>6. CASE DtimWake
  BY <1>6, WakeupSends DEF DtimWake
<1>7. CASE Receive \/ WaitTimerSet \/ \E t \in Timer : Expire(t)
  BY <1>7 DEF Receive, WaitTimerSet, Expire, DeferredUntilWake, radio
<1>8. CASE Request
  <2>1. \/ UNCHANGED <<real_sleep, need_disable>>
        \/ DisableSendMsg /\ UNCHANGED real_sleep
    BY <1>8 DEF Request, Post, ModeEnable, ModeDisable, Stop, Connect, Begin,
                RemoveInterface, radio
  <2> QED
    BY <2>1 DEF DisableSendMsg, DeferredUntilWake
<1>9. CASE \E t \in Thread : ThreadStep(t)
  <2>1. UNCHANGED <<real_sleep, need_disable>>
    BY <1>9 DEF ThreadStep, DoWakeupCheck, SemlistJoin, SemlistAsk,
                SemlistReturn, PortOpen, radio
  <2> QED
    BY <2>1 DEF DeferredUntilWake
<1>10. CASE UNCHANGED vars
  BY <1>10 DEF vars, radio, DeferredUntilWake
<1> QED
  BY <1>1, <1>2, <1>3, <1>4, <1>5, <1>6, <1>7, <1>8, <1>9, <1>10 DEF Next, Core

\* A disable request that was left for the wake-up waits only while the radio
\* sleeps; with SleeperCanBeWoken, the wake-up that is to send it can come.
THEOREM DeferredIsSent == Spec => []DeferredUntilWake
<1>1. Init => DeferredUntilWake
  BY DEF Init, DeferredUntilWake
<1>2. PInv /\ DeferredUntilWake /\ [Next]_vars => DeferredUntilWake'
  BY DeferredPreserved
<1> QED
  BY <1>1, <1>2, SleepInvariant, PTL DEF Spec

-----------------------------------------------------------------------------
(* What the ME owes the role launcher. *)

\* power_save.c and the ME agree whether power save is on, and only while the
\* MAC's scheduler runs does the ME hold a request it could take up at once,
\* but for an enable request, which is made after the scheduler has run.
Agreed == mode = "NO" <=> ~ps_on
Saved == cpc # "sched" => ke = <<>> \/ me_busy \/ ke = <<"PS_REQ">>
OwedInv == Agreed /\ Saved /\ SettingIsOwed

\* A round of the core thread up to the scheduler: a disable request is sent
\* only while power save is on, so that the ME does not drop it.
LEMMA PopOwed ==
    ASSUME PInv, OwedInv, Pop
    PROVE  OwedInv'
<1>1. /\ cpc' = "sched" /\ UNCHANGED <<mode, me_busy, ps_on>>
      /\ DtimDisable \/ UNCHANGED <<ke, rl>>
  BY DEF Pop
<1>2. ke \in Seq({"PS_REQ", "DISABLE_REQ"})
  BY DEF PInv, PTypeOK
<1>3. CASE UNCHANGED <<ke, rl>>
  BY <1>1, <1>3 DEF OwedInv, Agreed, Saved, SettingIsOwed
<1>4. CASE DtimDisable /\ mode # "NO" /\ active
  <2>1. ke' # <<>>
    BY <1>2, <1>4 DEF DtimDisable
  <2>2. ps_on'
    BY <1>1, <1>4 DEF OwedInv, Agreed
  <2> QED
    BY <1>1, <2>1, <2>2 DEF OwedInv, Agreed, Saved, SettingIsOwed
<1> QED
  BY <1>1, <1>3, <1>4 DEF DtimDisable

\* The ME takes up a request, or drops one whose sender was answered before.
LEMMA MeHandlerOwed ==
    ASSUME PInv, OwedInv, MeHandler
    PROVE  OwedInv'
<1>1. CASE me_busy'
  <2>1. ps_on \in BOOLEAN /\ me_busy \in BOOLEAN /\ ~me_busy
    BY Zenon DEF PInv, PTypeOK, MeHandler
  <2>2. CASE mode' = "OPENING" /\ me_busy' = TRUE /\ ps_on' = TRUE
    BY <1>1, <2>2 DEF MeHandler, OwedInv, Agreed, Saved, SettingIsOwed
  <2>3. CASE /\ ps_on /\ mode' = "CLOSING" /\ me_busy' = TRUE
             /\ UNCHANGED ps_on
    BY <1>1, <2>1, <2>3 DEF MeHandler, OwedInv, Agreed, Saved, SettingIsOwed
  <2>4. ~(UNCHANGED <<mode, me_busy, ps_on>>)
    BY <1>1, <2>1
  <2> QED
    BY <2>2, <2>3, <2>4 DEF MeHandler
<1>2. CASE ~me_busy'
  <2>1. /\ Head(ke) = "DISABLE_REQ" /\ ~ps_on /\ ~me_busy
        /\ cpc' = "sched" /\ UNCHANGED <<mode, ps_on, rl>>
    BY <1>2 DEF MeHandler
  <2>2. rl' # "PS_SETTING"
    BY <2>1 DEF OwedInv, SettingIsOwed
  <2> QED
    BY <2>1, <2>2 DEF OwedInv, Agreed, Saved, SettingIsOwed
<1> QED
  BY <1>1, <1>2

\* The end of the round: an enable request is made only while power save is
\* off, when the ME has nothing to do.
LEMMA PsHandlerOwed ==
    ASSUME PInv, OwedInv, PsHandler
    PROVE  OwedInv'
<1>1. /\ cpc' = "check" /\ UNCHANGED <<mode, me_busy, ps_on>>
      /\ ke = <<>> \/ me_busy
      /\ DtimEnable \/ UNCHANGED <<ke, rl>>
  BY DEF PsHandler, TimerProcess
<1>2. CASE UNCHANGED <<ke, rl>>
  BY <1>1, <1>2 DEF OwedInv, Agreed, Saved, SettingIsOwed
<1>3. CASE DtimEnable /\ sta = "GOT_IP" /\ mode = "NO" /\ active
  <2>1. ~me_busy /\ ke = <<>>
    BY <1>1, <1>3 DEF PInv, Busy
  <2>2. ke' = <<"PS_REQ">>
    BY <1>3, <2>1 DEF DtimEnable
  <2>3. ke' # <<>> /\ Head(ke') = "PS_REQ"
    BY <2>2
  <2> QED
    BY <1>1, <2>2, <2>3 DEF OwedInv, Agreed, Saved, SettingIsOwed
<1> QED
  BY <1>1, <1>2, <1>3 DEF DtimEnable

LEMMA OwedPreserved ==
    ASSUME PInv, OwedInv, [Next]_vars
    PROVE  OwedInv'
<1>1. CASE Confirm
  <2>1. rl' = "LAUNCHED" /\ cpc' = "sched"
    BY <1>1 DEF Confirm, DtimEnableHandler, EnableReport, DtimDisableHandler
  <2>2. Agreed'
    BY <1>1 DEF Confirm, DtimEnableHandler, DtimDisableHandler, OwedInv, Agreed
  <2> QED
    BY <2>1, <2>2 DEF OwedInv, Saved, SettingIsOwed
<1>2. CASE Sleep \/ NoSleep
  <2>1. cpc # "sched" /\ cpc' # "sched" /\ UNCHANGED <<mode, me>>
    BY <1>2 DEF Sleep, Asked, NoSleep
  <2> QED
    BY <2>1 DEF OwedInv, Agreed, Saved, SettingIsOwed, me
<1>3. CASE UNCHANGED <<mode, cpc, me>>
  BY <1>3 DEF OwedInv, Agreed, Saved, SettingIsOwed, me
<1>4. \/ Pop \/ MeHandler \/ PsHandler \/ Sleep \/ NoSleep \/ Confirm
      \/ UNCHANGED <<mode, cpc, me>>
  BY DEF Next, Core, vars, DtimWake, Receive, WaitTimerSet, Expire, Request,
         Post, ModeEnable, ModeDisable, Stop, RemoveInterface, Connect, Begin,
         ThreadStep,
         DoWakeupCheck, SemlistJoin, SemlistAsk, SemlistReturn, PortOpen
<1> QED
  BY <1>1, <1>2, <1>3, <1>4, PopOwed, MeHandlerOwed, PsHandlerOwed

\* While the role launcher is told PS_SETTING, the ME has a request that it
\* confirms: the answer that reports LAUNCHED is never dropped.
THEOREM SettingIsAlwaysOwed == Spec => []SettingIsOwed
<1>1. Init => OwedInv
  BY DEF Init, OwedInv, Agreed, Saved, SettingIsOwed
<1>2. PInv /\ OwedInv /\ [Next]_vars => OwedInv'
  BY OwedPreserved
<1>3. OwedInv => SettingIsOwed
  BY DEF OwedInv
<1> QED
  BY <1>1, <1>2, <1>3, SleepInvariant, PTL DEF Spec
=============================================================================
