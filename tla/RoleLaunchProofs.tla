-------------------------- MODULE RoleLaunchProofs --------------------------
(***************************************************************************)
(* Proofs about RoleLaunch, for every set of configurations and request    *)
(* types and for every choice of the statuses the other threads report.    *)
(*                                                                         *)
(* None of the safety properties is inductive as it stands.  What they     *)
(* need besides is where the timer task stands: TaskInv says what each     *)
(* value of pc promises about the entities.                                *)
(***************************************************************************)
EXTENDS RoleLaunch, TLAPS

Deciding == {"check", "decide", "decide_uncertain"}

\* The station request to be cached is still at hand.
CacheInv ==
    pc = "cache_param" \/ (pc \in Starting /\ resume = "cache_param")
        => hit["STA"] # None

TypeInv == TypeOK /\ CacheInv

\* What the launch handler knows at each of its steps.
TaskInv ==
    /\ pc \in Deciding \cup Starting \cup {"rearm"} => previous[role] # None
    /\ second /\ pc \in Deciding \cup {"launch"} =>
          previous[Other(role)] = None /\ following[Other(role)] = None
    /\ pc \notin Launching \cup Starting => ~second
    /\ pc \in Starting /\ resume # "rearm" => ~second

\* The launch timer never fires into the IDLE case of rl_launch_handler.
EntityInv ==
    rl_timer \/ (\E r \in Role : previous[r] # None \/ following[r] # None)
        => pre_entity_type # "IDLE"

\* The cancel bit of a status word comes from the cancel flag.
BitInv == \A r \in Role : status[r].bit => cancel[r]

QueueInv == TaskInv /\ EntityInv /\ FollowingHasTimer /\ NoOvertaking

-----------------------------------------------------------------------------
LEMMA OtherRole == \A r \in Role : Other(r) \in Role /\ Other(r) # r
BY DEF Role, Other

LEMMA InitType == Init => TypeInv
<1> SUFFICES ASSUME Init PROVE TypeInv
  OBVIOUS
<1>1. None \in AnySlot /\ ZeroReq \in Slot("STA")
  BY DEF AnySlot, Slot
<1>2. /\ Unknown \in [code : StaCode \cup ApCode, bit : BOOLEAN]
      /\ \A r \in Role : Unknown.code \in Code(r)
  BY DEF Unknown, Code, StaCode, ApCode
<1>3. /\ socket \in [Role -> AnySlot] /\ previous \in [Role -> AnySlot]
      /\ following \in [Role -> AnySlot] /\ hit \in [Role -> AnySlot]
      /\ \A r \in Role : socket[r] = None /\ previous[r] = None
                       /\ following[r] = None /\ hit[r] = None
  BY <1>1 DEF Init
<1>4. sta_cache \in [flag : BOOLEAN, param : Slot("STA")]
  BY <1>1 DEF Init
<1>5. /\ cancel \in [Role -> BOOLEAN]
      /\ status \in [Role -> [code : StaCode \cup ApCode, bit : BOOLEAN]]
      /\ \A r \in Role : status[r].code \in Code(r)
  BY <1>2 DEF Init
<1> QED
  BY <1>3, <1>4, <1>5 DEF Init, TypeInv, TypeOK, CacheInv, Role, Pc, Starting

\* SetStatus keeps the type of the status words.
LEMMA SetStatusType ==
    ASSUME TypeOK, NEW r \in Role, NEW s \in Code(r), SetStatus(r, s)
    PROVE  /\ status' \in [Role -> [code : StaCode \cup ApCode, bit : BOOLEAN]]
           /\ \A x \in Role : status'[x].code \in Code(x)
<1>1. NewCode(r, status[r], s) \in Code(r)
  BY DEF NewCode, Code, StaCode
<1>2. Code(r) \subseteq StaCode \cup ApCode
  BY DEF Code
<1>3. cancel[r] \in BOOLEAN
  BY DEF TypeOK
<1> QED
  BY <1>1, <1>2, <1>3 DEF SetStatus, TypeOK

\* So does PreInit.
LEMMA PreInitType ==
    ASSUME TypeOK, NEW r \in Role, PreInit(r)
    PROVE  /\ cancel' \in [Role -> BOOLEAN]
           /\ status' \in [Role -> [code : StaCode \cup ApCode, bit : BOOLEAN]]
           /\ \A x \in Role : status'[x].code \in Code(x)
<1>1. Unknown.code \in Code(r) /\ Unknown \in [code : StaCode \cup ApCode, bit : BOOLEAN]
  BY DEF Unknown, Code, StaCode, ApCode
<1> QED
  BY <1>1 DEF PreInit, TypeOK

\* Every step keeps TypeInv.
LEMMA NextType == TypeInv /\ [Next]_vars => TypeInv'
<1> SUFFICES ASSUME TypeInv, [Next]_vars PROVE TypeInv'
  OBVIOUS
<1> USE DEF TypeInv
<1>1. ASSUME NEW r \in Role, NEW q \in Req(r), RequestEnter(r, q)
      PROVE  TypeInv'
  <2>1. q \in Slot(r) /\ q \in AnySlot
    BY DEF Slot, AnySlot, Role
  <2> QED
    BY <1>1, <2>1 DEF RequestEnter, TypeOK, CacheInv, entities, launches, locals
<1>2. CASE DisconnectInd
  <2>1. ZeroReq \in Slot("STA") /\ sta_cache.param \in Slot("STA")
    BY DEF Slot, TypeOK
  <2>2. Slot("STA") \subseteq AnySlot
    BY DEF AnySlot
  <2> QED
    BY <1>2, <2>1, <2>2
    DEF DisconnectInd, TypeOK, CacheInv, entities, launches, locals
<1>3. ASSUME NEW r \in Role, NEW s \in Reports[r], Report(r, s)
      PROVE  TypeInv'
  <2>1. s \in Code(r)
    BY ReportsAssumption
  <2> QED
    BY <1>3, <2>1, SetStatusType
    DEF Report, TypeOK, CacheInv, requests, entities, locals
<1>4. CASE EnterExpire
  BY <1>4 DEF EnterExpire, TypeOK, CacheInv, entities, launches, locals, Pc,
              Starting
<1>5. CASE EnterCopy
  BY <1>5 DEF EnterCopy, TypeOK, CacheInv, entities, launches, Pc, Starting,
              AnySlot
<1>6. ASSUME NEW r \in Role, EnterNone(r)
      PROVE  TypeInv'
  BY <1>6 DEF EnterNone, AfterEnter, TypeOK, CacheInv, requests, entities,
              launches, locals, Pc, Starting
<1>7. ASSUME NEW r \in Role, AcceptNow(r)
      PROVE  TypeInv'
  BY <1>7 DEF AcceptNow, AfterAccept, EnterPc, TypeOnAccept, DropAccepted, Drop,
              TypeOK, CacheInv, requests, launches, Pc, Starting, AnySlot, Role
<1>8. ASSUME NEW r \in Role, AcceptFollowing(r)
      PROVE  TypeInv'
  BY <1>8 DEF AcceptFollowing, AfterAccept, EnterPc, TypeOnAccept, DropAccepted,
              Drop, TypeOK, CacheInv, requests, launches, Pc, Starting, AnySlot,
              Role
<1>9. ASSUME NEW r \in Role, RefuseFull(r)
      PROVE  TypeInv'
  BY <1>9 DEF RefuseFull, AfterEnter, EnterPc, Drop, TypeOK, CacheInv, requests,
              entities, launches, Pc, Starting, AnySlot, Role
<1>10. CASE CacheParam
  <2>1. hit["STA"] \in Slot("STA")
    BY <1>10 DEF CacheParam, TypeOK, CacheInv, Role
  <2> QED
    BY <1>10, <2>1 DEF CacheParam, Drop, TypeOK, CacheInv, entities, launches, Pc,
              Starting, AnySlot, Role
<1>11. CASE CacheFlag
  BY <1>11 DEF CacheFlag, TypeOK, CacheInv, entities, launches, locals, Pc,
              Starting
<1>12. CASE StartRole
  <2>1. /\ cancel' \in [Role -> BOOLEAN]
        /\ status' \in [Role -> [code : StaCode \cup ApCode, bit : BOOLEAN]]
        /\ \A x \in Role : status'[x].code \in Code(x)
    BY <1>12, PreInitType DEF StartRole, TypeOK, launches
  <2> QED
    BY <1>12, <2>1 DEF StartRole, TypeOK, CacheInv, requests, entities, locals,
              Pc, Starting
<1>13. CASE StopRole
  <2>1. /\ role = "STA" => "STA_LAUNCHED" \in Code(role)
        /\ role # "STA" => "AP_LAUNCHED" \in Code(role)
    BY DEF Code, StaCode, ApCode
  <2>2. /\ status' \in [Role -> [code : StaCode \cup ApCode, bit : BOOLEAN]]
        /\ \A x \in Role : status'[x].code \in Code(x)
    BY <1>13, <2>1, SetStatusType DEF StopRole, TypeOK
  <2> QED
    BY <1>13, <2>2 DEF StopRole, TypeOK, CacheInv, requests, entities, locals,
              Pc, Starting
<1>14. CASE BringUp
  <2>1. /\ role = "STA" => "STA_INITING" \in Code(role)
        /\ role # "STA" => "AP_INITING" \in Code(role)
    BY DEF Code, StaCode, ApCode
  <2>2. /\ status' \in [Role -> [code : StaCode \cup ApCode, bit : BOOLEAN]]
        /\ \A x \in Role : status'[x].code \in Code(x)
    BY <1>14, <2>1, SetStatusType DEF BringUp, TypeOK
  <2> QED
    BY <1>14, <2>2 DEF BringUp, TypeOK, CacheInv, requests, entities, locals,
              Pc, Starting
<1>15. ASSUME NEW ok \in BOOLEAN, HostapdEntry(ok)
       PROVE  TypeInv'
  <2>1. "AP" \in Role /\ {"AP_UPDATING_BCN", "AP_LAUNCHED"} \subseteq Code("AP")
    BY DEF Code, ApCode, Role
  <2>2. /\ status' \in [Role -> [code : StaCode \cup ApCode, bit : BOOLEAN]]
        /\ \A x \in Role : status'[x].code \in Code(x)
    BY <1>15, <2>1, SetStatusType DEF HostapdEntry, TypeOK
  <2> QED
    BY <1>15, <2>2 DEF HostapdEntry, TypeOK, CacheInv, requests, entities,
              locals, Pc, Starting
<1>16. ASSUME NEW ok \in BOOLEAN, StartScan(ok)
       PROVE  TypeInv'
  <2>1. "STA" \in Role /\ {"STA_SCANNING", "STA_LAUNCH_FAILED"} \subseteq Code("STA")
    BY DEF Code, StaCode, Role
  <2>2. /\ status' \in [Role -> [code : StaCode \cup ApCode, bit : BOOLEAN]]
        /\ \A x \in Role : status'[x].code \in Code(x)
    BY <1>16, <2>1, SetStatusType DEF StartScan, TypeOK
  <2> QED
    BY <1>16, <2>2 DEF StartScan, TypeOK, CacheInv, requests, entities, locals,
              Pc, Starting
<1>17. CASE LaunchExpire
  BY <1>17 DEF LaunchExpire, TypeOK, CacheInv, requests, entities, launches, Pc,
              Starting
<1>18. ASSUME Promote, UNCHANGED <<requests, rl_timer, hit>>
       PROVE  TypeInv'
  <2>1. /\ cancel' \in [Role -> BOOLEAN]
        /\ status' \in [Role -> [code : StaCode \cup ApCode, bit : BOOLEAN]]
        /\ \A x \in Role : status'[x].code \in Code(x)
    BY <1>18, PreInitType DEF Promote, TypeOK, launches, Role
  <2> QED
    BY <1>18, <2>1 DEF Promote, TypeOK, CacheInv, requests, Pc, Starting, AnySlot
<1>19. CASE LaunchRole
  <2>1. CASE previous[role] = None /\ following[role] = None
    BY <1>19, <2>1, OtherRole DEF LaunchRole, Over, TypeOK, CacheInv, requests,
              launches, Pc, Starting
  <2>2. CASE previous[role] = None /\ following[role] # None
    BY <1>19, <2>2, <1>18 DEF LaunchRole
  <2>3. CASE previous[role] # None
    BY <1>19, <2>3 DEF LaunchRole, TypeOK, CacheInv, requests, entities, Pc,
              Starting
  <2> QED
    BY <2>1, <2>2, <2>3
<1>20. CASE LaunchCheck
  BY <1>20 DEF LaunchCheck, TypeOK, CacheInv, requests, entities, launches,
              locals, Pc, Starting
<1>21. CASE LaunchDecide
  <2>1. CASE ~MayNext(role)
    BY <1>21, <2>1 DEF LaunchDecide, TypeOK, CacheInv, requests, entities,
              launches, Pc, Starting
  <2>2. CASE MayNext(role) /\ following[role] # None
    BY <1>21, <2>2, <1>18 DEF LaunchDecide
  <2>3. CASE MayNext(role) /\ following[role] = None
    BY <1>21, <2>3, OtherRole DEF LaunchDecide, Over, TypeOK, CacheInv,
              requests, launches, Pc, Starting, AnySlot
  <2> QED
    BY <2>1, <2>2, <2>3
<1>22. CASE Rearm
  BY <1>22 DEF Rearm, TypeOK, CacheInv, requests, entities, launches, Pc,
              Starting
<1>23. CASE UNCHANGED vars
  BY <1>23 DEF vars, requests, entities, launches, locals, TypeOK, CacheInv
<1> QED
  BY <1>1, <1>2, <1>3, <1>4, <1>5, <1>6, <1>7, <1>8, <1>9, <1>10, <1>11, <1>12,
     <1>13, <1>14, <1>15, <1>16, <1>17, <1>19, <1>20, <1>21, <1>22, <1>23
  DEF Next, TimerTask, EnterHandler, RequestStart, LaunchHandler

\* Type correctness of the launcher's state, for every instance.
THEOREM TypeCorrect == Spec => []TypeOK
<1>1. Init => TypeInv
  BY InitType
<1>2. TypeInv /\ [Next]_vars => TypeInv'
  BY NextType
<1> QED
  BY <1>1, <1>2, PTL DEF Spec, TypeInv

-----------------------------------------------------------------------------
(* The queue: where the timer task stands keeps the waiting requests safe. *)

LEMMA InitQueue == Init => QueueInv
BY DEF Init, QueueInv, TaskInv, EntityInv, FollowingHasTimer, NoOvertaking,
       Deciding, Starting, Launching, Role

\* The steps of the other threads touch nothing that QueueInv speaks of.
LEMMA OthersKeepQueue ==
    QueueInv /\ UNCHANGED <<rl_timer, entities, pc, role, second, resume>>
        => QueueInv'
BY DEF QueueInv, TaskInv, EntityInv, FollowingHasTimer, NoOvertaking, entities

\* Starting a waiting request keeps it in sight of the launch timer.
LEMMA PromoteKeepsQueue ==
    ASSUME TypeInv, QueueInv, pc \in Deciding \cup {"launch"}, Promote,
           following[role] # None, UNCHANGED rl_timer
    PROVE  QueueInv'
<1>1. /\ role \in Role /\ role' = role /\ second' = second
      /\ pc' = "start" /\ resume' = "rearm"
      /\ previous'[role] = following[role]
      /\ pre_entity_type' = pre_entity_type
  BY DEF Promote, TypeInv, TypeOK
<1>2. TaskInv'
  BY <1>1 DEF TaskInv, Deciding, Launching, Starting
<1>3. EntityInv'
  BY <1>1 DEF QueueInv, EntityInv
<1>4. FollowingHasTimer' /\ NoOvertaking'
  BY <1>1 DEF FollowingHasTimer, NoOvertaking, Starting
<1> QED
  BY <1>2, <1>3, <1>4 DEF QueueInv

\* LAUNCH_STATUS_OVER: a role with nothing previous and nothing following.
LEMMA OverKeepsQueue ==
    ASSUME TypeInv, QueueInv, pc \in Deciding \cup {"launch"}, Over,
           following[role] = None,
           previous' = [previous EXCEPT ![role] = None],
           UNCHANGED <<following, rl_timer>>
    PROVE  QueueInv'
<1>1. /\ role \in Role /\ Other(role) \in Role /\ Other(role) # role
      /\ Other(Other(role)) = role
      /\ \A r \in Role : r = role \/ r = Other(role)
  BY DEF TypeInv, TypeOK, Role, Other
<1>2. /\ previous'[role] = None /\ following'[role] = None
      /\ previous'[Other(role)] = previous[Other(role)]
      /\ following'[Other(role)] = following[Other(role)]
  BY <1>1 DEF TypeInv, TypeOK
<1>3. CASE second
  <2>1. \A r \in Role : previous'[r] = None /\ following'[r] = None
    BY <1>1, <1>2, <1>3 DEF QueueInv, TaskInv
  <2>2. pc' = "idle" /\ second' = FALSE /\ pre_entity_type' = pre_entity_type
    BY <1>3 DEF Over
  <2> QED
    BY <2>1, <2>2 DEF QueueInv, TaskInv, EntityInv, FollowingHasTimer,
                      NoOvertaking, Deciding, Starting, Launching
<1>4. CASE ~second
  <2>1. pc' = "launch" /\ role' = Other(role) /\ pre_entity_type' = Other(role)
    BY <1>4 DEF Over
  <2>2. TaskInv'
    BY <2>1, <1>1, <1>2 DEF TaskInv, Deciding, Starting, Launching
  <2>3. EntityInv'
    BY <2>1, <1>1 DEF EntityInv, Role
  <2>4. FollowingHasTimer' /\ NoOvertaking'
    BY <2>1 DEF FollowingHasTimer, NoOvertaking, Launching
  <2> QED
    BY <2>2, <2>3, <2>4 DEF QueueInv
<1> QED
  BY <1>3, <1>4

\* Every step keeps QueueInv.
LEMMA NextQueue == TypeInv /\ QueueInv /\ [Next]_vars => QueueInv'
<1> SUFFICES ASSUME TypeInv, QueueInv, [Next]_vars PROVE QueueInv'
  OBVIOUS
<1>1. ASSUME NEW r \in Role, NEW q \in Req(r), RequestEnter(r, q)
      PROVE  QueueInv'
  BY <1>1, OthersKeepQueue DEF RequestEnter, locals
<1>2. CASE DisconnectInd
  BY <1>2, OthersKeepQueue DEF DisconnectInd, locals
<1>3. ASSUME NEW r \in Role, NEW s \in Reports[r], Report(r, s)
      PROVE  QueueInv'
  BY <1>3, OthersKeepQueue DEF Report, locals
<1>4. CASE EnterExpire \/ EnterCopy \/ CacheParam \/ CacheFlag
  BY <1>4 DEF EnterExpire, EnterCopy, CacheParam, CacheFlag, entities, locals,
              QueueInv, TaskInv, EntityInv, FollowingHasTimer, NoOvertaking,
              Deciding, Starting, Launching
<1>5. ASSUME NEW r \in Role, EnterNone(r) \/ RefuseFull(r)
      PROVE  QueueInv'
  BY <1>5 DEF EnterNone, RefuseFull, EnterPc, AfterEnter, entities, locals,
              QueueInv, TaskInv, EntityInv, FollowingHasTimer, NoOvertaking,
              Deciding, Starting, Launching
<1>6. ASSUME NEW r \in Role, AcceptNow(r)
      PROVE  QueueInv'
  <2>1. /\ previous'[r] # None /\ role' = r /\ pc' = "start"
        /\ UNCHANGED <<following, rl_timer, second>>
        /\ pc \in {"sta_enter", "ap_enter"}
        /\ resume' = AfterAccept(r)
    BY <1>6 DEF AcceptNow, TypeInv, TypeOK, EnterPc
  <2>2. \A x \in Role : following[x] = None
    BY <1>6, <2>1 DEF AcceptNow, QueueInv, NoOvertaking
  <2>3. pre_entity_type' # "IDLE"
    BY <1>6 DEF AcceptNow, TypeOnAccept, Role
  <2>4. TaskInv'
    BY <2>1 DEF QueueInv, TaskInv, Deciding, Starting, Launching, AfterAccept
  <2> QED
    BY <2>1, <2>2, <2>3, <2>4
    DEF QueueInv, EntityInv, FollowingHasTimer, NoOvertaking
<1>7. ASSUME NEW r \in Role, AcceptFollowing(r)
      PROVE  QueueInv'
  <2>1. /\ rl_timer' = TRUE /\ UNCHANGED <<previous, role, second, resume>>
        /\ pc \in {"sta_enter", "ap_enter"} /\ pc' \in {"cache_param", "idle"}
        /\ \E x \in Role : previous[x] # None
    BY <1>7 DEF AcceptFollowing, EnterPc, AfterAccept
  <2>2. pre_entity_type' # "IDLE"
    BY <1>7 DEF AcceptFollowing, TypeOnAccept, Role
  <2> QED
    BY <2>1, <2>2 DEF QueueInv, TaskInv, EntityInv, FollowingHasTimer,
                      NoOvertaking, Deciding, Starting, Launching
<1>8. CASE StartRole
  BY <1>8 DEF StartRole, entities, locals, TypeInv, TypeOK, QueueInv, TaskInv,
              EntityInv, FollowingHasTimer, NoOvertaking, Deciding, Starting,
              Launching
<1>9. CASE StopRole \/ BringUp
  BY <1>9 DEF StopRole, BringUp, entities, locals, TypeInv, TypeOK, QueueInv,
              TaskInv, EntityInv, FollowingHasTimer, NoOvertaking, Deciding,
              Starting, Launching
<1>10. ASSUME NEW ok \in BOOLEAN, HostapdEntry(ok) \/ StartScan(ok)
       PROVE  QueueInv'
  BY <1>10 DEF HostapdEntry, StartScan, entities, locals, TypeInv, TypeOK,
              QueueInv, TaskInv, EntityInv, FollowingHasTimer, NoOvertaking,
              Deciding, Starting, Launching
<1>11. CASE LaunchExpire
  BY <1>11 DEF LaunchExpire, entities, QueueInv, TaskInv, EntityInv,
              FollowingHasTimer, NoOvertaking, Deciding, Starting, Launching
<1>12. CASE LaunchRole
  <2>1. pc \in Deciding \cup {"launch"} /\ UNCHANGED rl_timer
    BY <1>12 DEF LaunchRole
  <2>2. CASE previous[role] = None /\ following[role] = None
    <3>1. previous' = [previous EXCEPT ![role] = None]
      BY <1>12, <2>2 DEF LaunchRole, TypeInv, TypeOK
    <3> QED
      BY <1>12, <2>1, <2>2, <3>1, OverKeepsQueue DEF LaunchRole
  <2>3. CASE previous[role] = None /\ following[role] # None
    BY <1>12, <2>1, <2>3, PromoteKeepsQueue DEF LaunchRole
  <2>4. CASE previous[role] # None
    BY <1>12, <2>4 DEF LaunchRole, entities, TypeInv, TypeOK, QueueInv, TaskInv,
              EntityInv, FollowingHasTimer, NoOvertaking, Deciding, Starting,
              Launching
  <2> QED
    BY <2>2, <2>3, <2>4
<1>13. CASE LaunchCheck
  BY <1>13 DEF LaunchCheck, entities, locals, QueueInv, TaskInv, EntityInv,
              FollowingHasTimer, NoOvertaking, Deciding, Starting, Launching
<1>14. CASE LaunchDecide
  <2>1. pc \in Deciding \cup {"launch"} /\ UNCHANGED rl_timer
    BY <1>14 DEF LaunchDecide, Deciding
  <2>2. CASE ~MayNext(role)
    BY <1>14, <2>2 DEF LaunchDecide, entities, QueueInv, TaskInv, EntityInv,
              FollowingHasTimer, NoOvertaking, Deciding, Starting, Launching
  <2>3. CASE MayNext(role) /\ following[role] # None
    BY <1>14, <2>1, <2>3, PromoteKeepsQueue DEF LaunchDecide
  <2>4. CASE MayNext(role) /\ following[role] = None
    BY <1>14, <2>1, <2>4, OverKeepsQueue DEF LaunchDecide
  <2> QED
    BY <2>2, <2>3, <2>4
<1>15. CASE Rearm
  <2>1. pre_entity_type # "IDLE" /\ role \in Role
    BY <1>15 DEF Rearm, TypeInv, TypeOK, QueueInv, TaskInv, EntityInv
  <2> QED
    BY <1>15, <2>1 DEF Rearm, entities, QueueInv, TaskInv, EntityInv,
              FollowingHasTimer, NoOvertaking, Deciding, Starting, Launching
<1>16. CASE UNCHANGED vars
  BY <1>16, OthersKeepQueue DEF vars, locals
<1> QED
  BY <1>1, <1>2, <1>3, <1>4, <1>5, <1>6, <1>7, <1>8, <1>9, <1>10, <1>11, <1>12,
     <1>13, <1>14, <1>15, <1>16
  DEF Next, TimerTask, EnterHandler, RequestStart, LaunchHandler

LEMMA QueueInvariant == Spec => [](TypeInv /\ QueueInv)
<1>1. Init => TypeInv /\ QueueInv
  BY InitType, InitQueue
<1>2. TypeInv /\ QueueInv /\ [Next]_vars => TypeInv' /\ QueueInv'
  BY NextType, NextQueue
<1> QED
  BY <1>1, <1>2, PTL DEF Spec

\* A waiting request always has the launch timer, or the launch handler at
\* work, behind it: no path through the one-shot timer's handler strands it.
THEOREM WaitingIsNotStranded == Spec => []FollowingHasTimer
BY QueueInvariant, PTL DEF QueueInv

\* The enter handler never starts a request past one that waits.
THEOREM NobodyOvertakes == Spec => []NoOvertaking
BY QueueInvariant, PTL DEF QueueInv

-----------------------------------------------------------------------------
(* The socket. *)

\* A request in the socket always has the enter timer, or the handler that is
\* about to copy it, behind it.
THEOREM RequestIsNotStranded == Spec => []SocketHasTimer
<1>1. Init => SocketHasTimer
  BY DEF Init, SocketHasTimer
<1>2. SocketHasTimer /\ [Next]_vars => SocketHasTimer'
  <2> SUFFICES ASSUME SocketHasTimer, [Next]_vars PROVE SocketHasTimer'
    OBVIOUS
  <2>1. ASSUME NEW r \in Role, NEW q \in Req(r), RequestEnter(r, q)
        PROVE  SocketHasTimer'
    BY <2>1 DEF RequestEnter, SocketHasTimer
  <2>2. CASE DisconnectInd
    BY <2>2 DEF DisconnectInd, SocketHasTimer
  <2>3. ASSUME NEW r \in Role, NEW s \in Reports[r], Report(r, s)
        PROVE  SocketHasTimer'
    BY <2>3 DEF Report, SocketHasTimer, requests
  <2>4. CASE EnterHandler
    BY <2>4 DEF EnterHandler, EnterExpire, EnterCopy, CacheParam, CacheFlag,
                EnterNone, AcceptNow, AcceptFollowing, RefuseFull, EnterPc,
                SocketHasTimer, requests
  <2>5. CASE RequestStart
    BY <2>5 DEF RequestStart, StartRole, StopRole, BringUp, HostapdEntry,
                StartScan, SocketHasTimer, requests
  <2>6. CASE LaunchHandler
    BY <2>6 DEF LaunchHandler, LaunchExpire, LaunchRole, LaunchCheck,
                LaunchDecide, Rearm, SocketHasTimer, requests
  <2>7. CASE UNCHANGED vars
    BY <2>7 DEF vars, requests, SocketHasTimer
  <2> QED
    BY <2>1, <2>2, <2>3, <2>4, <2>5, <2>6, <2>7 DEF Next, TimerTask
<1> QED
  BY <1>1, <1>2, PTL DEF Spec

-----------------------------------------------------------------------------
(* The cancel flags. *)

\* The steps that touch neither the entities nor the cancel flags, and that
\* only write status words that carry the flag.
LEMMA ReportKeepsCancel ==
    ASSUME TypeInv, BitInv, NEW r \in Role, NEW s, SetStatus(r, s),
           UNCHANGED cancel
    PROVE  BitInv'
BY DEF SetStatus, BitInv, TypeInv, TypeOK

\* A new launch clears both words of its role.
LEMMA PreInitClears ==
    ASSUME TypeInv, BitInv, NEW r \in Role, PreInit(r)
    PROVE  /\ BitInv'
           /\ ~cancel'[r] /\ ~status'[r].bit
           /\ \A x \in Role \ {r} : cancel'[x] = cancel[x] /\ status'[x] = status[x]
BY DEF PreInit, BitInv, TypeInv, TypeOK, Unknown

CancelInv == BitInv /\ CancelHasSuccessor

\* Starting a waiting request: its predecessor's flag is cleared when it starts.
LEMMA PromoteKeepsCancel ==
    ASSUME TypeInv, CancelInv, Promote, pc # "start"
    PROVE  CancelInv'
<1>1. role \in Role /\ role' = role /\ pc' = "start" /\ "AP" \in Role
  BY DEF Promote, TypeInv, TypeOK, Role
<1>2. BitInv'
  BY <1>1, PreInitClears DEF CancelInv, BitInv, Promote, launches
<1>3. ASSUME NEW r \in Role, r # role
      PROVE  /\ previous'[r] = previous[r] /\ following'[r] = following[r]
             /\ cancel'[r] = cancel[r]
  BY <1>1, <1>3, PreInitClears DEF CancelInv, Promote, launches, TypeInv, TypeOK
<1>4. CancelHasSuccessor'
  BY <1>1, <1>2, <1>3 DEF CancelInv, CancelHasSuccessor, BitInv
<1> QED
  BY <1>2, <1>4 DEF CancelInv

\* Every step keeps CancelInv.
LEMMA NextCancel == TypeInv /\ CancelInv /\ [Next]_vars => CancelInv'
<1> SUFFICES ASSUME TypeInv, CancelInv, [Next]_vars PROVE CancelInv'
  OBVIOUS
<1>1. ASSUME UNCHANGED <<entities, launches, role>>, pc = "start" => pc' = "start"
      PROVE  CancelInv'
  BY <1>1 DEF CancelInv, BitInv, CancelHasSuccessor, entities, launches
<1>2. ASSUME NEW r \in Role, NEW s, SetStatus(r, s), UNCHANGED <<cancel, entities,
             role>>, pc = "start" => pc' = "start"
      PROVE  CancelInv'
  <2>1. BitInv'
    BY <1>2, ReportKeepsCancel DEF CancelInv
  <2> QED
    BY <1>2, <2>1 DEF CancelInv, BitInv, CancelHasSuccessor, entities
<1>3. ASSUME NEW r \in Role, NEW q \in Req(r), RequestEnter(r, q)
      PROVE  CancelInv'
  BY <1>3, <1>1 DEF RequestEnter, locals
<1>4. CASE DisconnectInd
  BY <1>4, <1>1 DEF DisconnectInd, locals
<1>5. ASSUME NEW r \in Role, NEW s \in Reports[r], Report(r, s)
      PROVE  CancelInv'
  BY <1>5, <1>2 DEF Report, locals
<1>6. CASE EnterExpire \/ EnterCopy \/ CacheParam \/ CacheFlag \/ LaunchExpire
           \/ LaunchCheck \/ Rearm
  BY <1>6, <1>1 DEF EnterExpire, EnterCopy, CacheParam, CacheFlag, LaunchExpire,
              LaunchCheck, Rearm, locals, CancelInv, BitInv, CancelHasSuccessor,
              entities, launches
<1>7. ASSUME NEW r \in Role, EnterNone(r) \/ RefuseFull(r)
      PROVE  CancelInv'
  BY <1>7, <1>1 DEF EnterNone, RefuseFull, EnterPc, locals
<1>8. ASSUME NEW r \in Role, AcceptNow(r)
      PROVE  CancelInv'
  <2>1. /\ role' = r /\ pc' = "start" /\ pc # "start"
        /\ UNCHANGED <<following, cancel, status>>
        /\ \A x \in Role : x # r => previous'[x] = previous[x]
    BY <1>8 DEF AcceptNow, EnterPc, launches, TypeInv, TypeOK
  <2> QED
    BY <2>1 DEF CancelInv, BitInv, CancelHasSuccessor
<1>9. ASSUME NEW r \in Role, AcceptFollowing(r)
      PROVE  CancelInv'
  <2>1. /\ pc # "start" /\ UNCHANGED <<previous, cancel, status>>
        /\ following'[r] # None
        /\ \A x \in Role : x # r => following'[x] = following[x]
    BY <1>9 DEF AcceptFollowing, EnterPc, launches, TypeInv, TypeOK
  <2> QED
    BY <2>1 DEF CancelInv, BitInv, CancelHasSuccessor
<1>10. CASE StartRole
  <2>1. role \in Role /\ UNCHANGED <<previous, following, role>>
    BY <1>10 DEF StartRole, entities, locals, TypeInv, TypeOK
  <2>2. CASE previous[role].type \in {"STA", "SCAN", "AP"}
    <3>1. PreInit(role)
      BY <1>10, <2>2 DEF StartRole
    <3>2. /\ BitInv' /\ ~cancel'[role] /\ ~status'[role].bit
          /\ \A x \in Role \ {role} : cancel'[x] = cancel[x] /\ status'[x] = status[x]
      BY <2>1, <3>1, PreInitClears DEF CancelInv
    <3> QED
      BY <2>1, <3>2 DEF CancelInv, BitInv, CancelHasSuccessor
  <2>3. CASE previous[role].type \notin {"STA", "SCAN", "AP"}
    <3>1. UNCHANGED <<cancel, status>>
      BY <1>10, <2>3 DEF StartRole, launches
    <3> QED
      BY <2>1, <2>3, <3>1 DEF CancelInv, BitInv, CancelHasSuccessor
  <2> QED
    BY <2>2, <2>3
<1>11. CASE StopRole \/ BringUp
  <2>1. role \in Role
    BY DEF TypeInv, TypeOK
  <2> QED
    BY <1>11, <2>1, <1>2 DEF StopRole, BringUp, locals
<1>12. ASSUME NEW ok \in BOOLEAN, HostapdEntry(ok) \/ StartScan(ok)
       PROVE  CancelInv'
  <2>1. "AP" \in Role /\ "STA" \in Role
    BY DEF Role
  <2> QED
    BY <1>12, <2>1, <1>2 DEF HostapdEntry, StartScan, locals
<1>13. ASSUME Over, pc # "start", UNCHANGED <<following, launches>>,
              previous' = [previous EXCEPT ![role] = None]
       PROVE  CancelInv'
  <2>1. None.type \notin {"STA", "SCAN", "AP"}
    BY DEF None
  <2>2. \A x \in Role : previous'[x] = previous[x] \/ previous'[x] = None
    BY <1>13 DEF TypeInv, TypeOK
  <2> QED
    BY <1>13, <2>1, <2>2 DEF CancelInv, BitInv, CancelHasSuccessor, launches
<1>14. CASE LaunchRole
  <2>1. CASE previous[role] = None /\ following[role] = None
    <3>1. previous' = [previous EXCEPT ![role] = None]
      BY <1>14, <2>1 DEF LaunchRole, TypeInv, TypeOK
    <3> QED
      BY <1>14, <2>1, <3>1, <1>13 DEF LaunchRole
  <2>2. CASE previous[role] = None /\ following[role] # None
    BY <1>14, <2>2, PromoteKeepsCancel DEF LaunchRole
  <2>3. CASE previous[role] # None
    <3>1. /\ pc # "start" /\ UNCHANGED <<previous, following, status>>
          /\ role \in Role
          /\ cancel'[role] = (cancel[role] \/ following[role] # None)
          /\ \A x \in Role \ {role} : cancel'[x] = cancel[x]
      BY <1>14, <2>3 DEF LaunchRole, entities, TypeInv, TypeOK
    <3> QED
      BY <3>1 DEF CancelInv, BitInv, CancelHasSuccessor
  <2> QED
    BY <2>1, <2>2, <2>3
<1>15. CASE LaunchDecide
  <2>1. CASE ~MayNext(role)
    BY <1>15, <2>1, <1>1 DEF LaunchDecide
  <2>2. CASE MayNext(role) /\ following[role] # None
    BY <1>15, <2>2, PromoteKeepsCancel DEF LaunchDecide
  <2>3. CASE MayNext(role) /\ following[role] = None
    BY <1>15, <2>3, <1>13 DEF LaunchDecide
  <2> QED
    BY <2>1, <2>2, <2>3
<1>16. CASE UNCHANGED vars
  BY <1>16, <1>1 DEF vars, locals
<1> QED
  BY <1>3, <1>4, <1>5, <1>6, <1>7, <1>8, <1>9, <1>10, <1>11, <1>12, <1>14, <1>15,
     <1>16
  DEF Next, TimerTask, EnterHandler, RequestStart, LaunchHandler

\* A launch is told to give up only in favour of a request that waits.
THEOREM CancelIsForASuccessor == Spec => []CancelHasSuccessor
<1>1. Init => TypeInv /\ CancelInv
  BY InitType DEF Init, CancelInv, BitInv, CancelHasSuccessor, None, Unknown
<1>2. TypeInv /\ CancelInv /\ [Next]_vars => TypeInv' /\ CancelInv'
  BY NextType, NextCancel
<1> QED
  BY <1>1, <1>2, PTL DEF Spec, CancelInv

-----------------------------------------------------------------------------
(* The refinement. *)

\* Every step of the launcher is a step of RoleQueue or leaves it alone.
LEMMA NextImplementsQueue ==
    TypeInv /\ QueueInv /\ [Next]_vars => [Queue!QueueNext]_(Queue!qvars)
<1> SUFFICES ASSUME TypeInv, QueueInv, [Next]_vars
             PROVE  Queue!QueueNext \/ UNCHANGED <<previous, following>>
  BY DEF Queue!qvars
<1> USE DEF Queue!QueueNext
<1>1. ASSUME NEW r \in Role, AcceptNow(r)
      PROVE  Queue!QueueNext
  <2>1. hit[r] \in Slot(r)
    BY <1>1 DEF AcceptNow, TypeInv, TypeOK
  <2>2. \A x \in Role : previous[x] = None /\ following[x] = None
    BY <1>1 DEF AcceptNow, EnterPc, QueueInv, NoOvertaking
  <2>3. Queue!StartNow(r, hit[r])
    BY <1>1, <2>2 DEF AcceptNow, Queue!StartNow
  <2> QED
    BY <2>1, <2>3
<1>2. ASSUME NEW r \in Role, AcceptFollowing(r)
      PROVE  Queue!QueueNext
  <2>1. hit[r] \in Slot(r)
    BY <1>2 DEF AcceptFollowing, TypeInv, TypeOK
  <2>2. Queue!Enqueue(r, hit[r])
    BY <1>2 DEF AcceptFollowing, Queue!Enqueue
  <2> QED
    BY <2>1, <2>2
<1>3. ASSUME Promote, following[role] # None
      PROVE  Queue!QueueNext
  <2>1. role \in Role
    BY DEF TypeInv, TypeOK
  <2>2. Queue!StartNext(role)
    BY <1>3 DEF Promote, Queue!StartNext
  <2> QED
    BY <2>1, <2>2
<1>4. CASE LaunchRole
  BY <1>4, <1>3 DEF LaunchRole, entities
<1>5. CASE LaunchDecide
  <2>1. CASE ~MayNext(role)
    BY <1>5, <2>1 DEF LaunchDecide, entities
  <2>2. CASE MayNext(role) /\ following[role] # None
    BY <1>5, <2>2, <1>3 DEF LaunchDecide
  <2>3. CASE MayNext(role) /\ following[role] = None
    <3>1. role \in Role /\ previous[role] # None
      BY <1>5 DEF LaunchDecide, Deciding, TypeInv, TypeOK, QueueInv, TaskInv
    <3>2. Queue!Finish(role)
      BY <1>5, <2>3, <3>1 DEF LaunchDecide, Queue!Finish
    <3> QED
      BY <3>1, <3>2
  <2> QED
    BY <2>1, <2>2, <2>3
<1>6. ASSUME \/ \E r \in Role : EnterNone(r) \/ RefuseFull(r)
             \/ EnterExpire \/ EnterCopy \/ CacheParam \/ CacheFlag
             \/ RequestStart
             \/ LaunchExpire \/ LaunchCheck \/ Rearm
      PROVE  UNCHANGED <<previous, following>>
  BY <1>6 DEF EnterNone, RefuseFull, EnterExpire, EnterCopy, CacheParam,
              CacheFlag, RequestStart, StartRole, StopRole, BringUp,
              HostapdEntry, StartScan, LaunchExpire, LaunchCheck, Rearm, entities
<1>7. ASSUME \/ \E r \in Role : \E q \in Req(r) : RequestEnter(r, q)
             \/ DisconnectInd
             \/ \E r \in Role : \E s \in Reports[r] : Report(r, s)
             \/ UNCHANGED vars
      PROVE  UNCHANGED <<previous, following>>
  BY <1>7 DEF RequestEnter, DisconnectInd, Report, vars, entities
<1> QED
  BY <1>1, <1>2, <1>4, <1>5, <1>6, <1>7
  DEF Next, TimerTask, EnterHandler, LaunchHandler

\* The launcher implements the abstract queue of RoleQueue.
THEOREM LauncherImplementsQueue == Spec => ImplementsQueue
<1>1. Init => Queue!QueueInit
  BY DEF Init, Queue!QueueInit
<1>2. TypeInv /\ QueueInv /\ [Next]_vars => [Queue!QueueNext]_(Queue!qvars)
  BY NextImplementsQueue
<1> QED
  BY <1>1, <1>2, QueueInvariant, PTL DEF Spec, ImplementsQueue, Queue!QueueSpec

=============================================================================
