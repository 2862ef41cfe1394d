# Verification of the Wi-Fi firmware of tysdk_for_bk7231

TLA+ models, TLC runs and TLAPS proofs for the BK7231 SDK (`src/beken378`).
The SDK is a FreeRTOS firmware: a closed MAC library (`librwnx.a`), a vendored
supplicant and IP stack, and the SDK's own code that ties them together. That
own code is what is modelled here: the *role launcher*, which decides when the
station and the soft access point are started, stopped and replaced, the roles
that report to it, the messages between host and MAC, the radio's power save, the
life of the scan results, and the DHCP server of the soft access point.

## The system's parts

| part | state | operations | what is hard |
|---|---|---|---|
| role launcher, `func/joint_up/role_launch.c` | a one-place socket per role, the station's request cache, one *previous* and one *following* entity per role, a status word and a cancel flag per role, two one-shot timers | `rl_*_request_enter` from any thread; `rl_enter_handler`, `rl_launch_handler` in the timer task; `rl_pre_*_set_status` from the supplicant, DHCP, MAC and kmsg threads | the timer task has the lowest priority, so every other thread runs between any two of its steps; one-shot timers must be re-armed on every path; statuses arrive late or not at all |
| role control, `func/wlan_ui/wlan_ui.c` | the parameters of the roles, the coexist mode | `bk_wlan_start`, `bk_wlan_stop`, `bk_wlan_start_sta`, `bk_wlan_start_ap`, `bk_wlan_start_scan`, the channel-switch callback | each blocks, and reports to the launcher on the way |
| host/MAC messages, `func/rwnx_intf/rw_msg_{tx,rx}.c` | the list of senders that wait, the list of messages received, the callbacks | `rw_msg_send` (waits up to five seconds), `rwnx_recv_msg`, the `mhdr_*` handlers | a confirmation that arrives when its sender times out |
| scan results, `rw_msg_rx.c`, `hostapd_intf.c` | the set of results, two pointers to it, a flag that a scan was confirmed | filled and sorted by the kmsg thread, copied by the supplicant or `scan_cb`, freed in four places of three threads | free and clear are two steps; the flag outlives the set it speaks of |
| core thread bus, `app/app.c` | the core queue, counters of pending receive and transmit interrupts | `bmsg_*_sender`, `core_thread_main` | a full queue, a lost count |
| RF power save, `func/power_save/power_save.c` | the sleep state, prevent flags, the lock and its list of waiters, two timers | enable, disable, sleep, wake-up, the beacon and timer handlers | core thread, timers and interrupts race for the same state |
| MCU power save, `func/power_save/mcu_ps.c` | prevent mask, sleep counters | prevent set and clear, the idle hook | |
| data path, `func/rwnx_intf/rw_msdu.c` | transmit lists, per-station buffers of the soft AP | | sleeping stations |
| DHCP server, `func/lwip_intf/dhcpd` | a cache of eight clients, the next address, sockets, buffer, mutex and thread | messages of clients; start and stop from `uap_ip_start`, `uap_ip_down` | a full cache, lost answers, an endless search, a stop against a server that starts, works or has ended |
| flash parameters, `func/net_param_intf` | the parameter sector | save, read | a reset between erase and write |
| Tuya drivers, `project/tuya_common` | key states, UART rings, LED timers | | interrupts against threads |

Everything else is listed in `PROJECT.json` with the reason it is left out:
vendored code, register access, test commands and socket I/O.

## Role launcher: `RoleLaunch`, `RoleQueue`, `RoleLaunchProofs`

`RoleLaunch` has one variable per field of `g_role_launch` that matters, the
socket and the cache, and four variables for where the timer task stands (`pc`,
`role`, `second`, `resume`) and what it has copied (`hit`).

* `RequestEnter` is `rl_sta_request_enter` / `rl_ap_request_enter`,
  `DisconnectInd` the re-entry of the cached request on a lost link, `Report` a
  call of `rl_pre_*_set_status`. Each is one step, because the code runs it with
  interrupts disabled.
* `EnterExpire`, `EnterCopy`, `EnterNone`, `AcceptNow`, `AcceptFollowing`,
  `RefuseFull`, `CacheParam`, `CacheFlag` are `rl_enter_handler`. The cache is
  written in two steps without a lock, so it takes two actions.
* `StartRole`, `StopRole`, `BringUp`, `HostapdEntry`, `StartScan` are
  `rl_*_request_start` with the `bk_wlan_*` functions it calls, one action for
  every report they make.
* `LaunchExpire`, `LaunchRole`, `LaunchCheck`, `LaunchDecide`, `Rearm` are
  `rl_launch_handler`. `rl_sta_may_next_launch` reads the status word several
  times; `LaunchCheck` is its first read, `LaunchDecide` the others.

The environment is the most general one: any thread may report any status of
the constant `Reports` at any time.

`RoleQueue` is what callers may rely on: one request runs per role, one more
may wait, a request is started at once only when nothing runs *and nothing
waits*, and a waiting request leaves only by being started. `ImplementsQueue`
says that `RoleLaunch` implements it under `running <- previous`,
`waiting <- following`.

### Run `role_launch`

One configuration per role (the launcher never looks into it), all three
station request types and the soft AP, and the reports that the code tells
apart: DHCPING (allows the next launch only with a cancel), CHANNEL_SWITCHING
(leads to UNCERTAINTY), LAUNCHED, and TRANSMITTED_BCN. The instance has no
bound on the number of requests: the state space is finite as it is.

### Proofs

`RoleLaunchProofs` proves all six properties of that run for every set of
configurations, request types and reports. The assumptions are
`TypesAssumption` and `ReportsAssumption`, which say that the constants are
request types and status codes of their role.

* `TypeCorrect`: inductive with `CacheInv` (the copy of a station request is
  still there when it is to be cached).
* `RequestIsNotStranded` (`SocketHasTimer`): inductive as it stands.
* `WaitingIsNotStranded` (`FollowingHasTimer`) and `NobodyOvertakes`
  (`NoOvertaking`) need `QueueInv`: `TaskInv` says what the launch handler knows
  at each of its steps (the role it decides on has a previous entity; when it
  tries the second role, the first has nothing left), and `EntityInv` that the
  launch timer never fires into the IDLE case. Without `TaskInv` the handler
  could end with the other role still waiting.
* `CancelIsForASuccessor` (`CancelHasSuccessor`) needs `BitInv`: the cancel bit
  of a status word comes from the cancel flag.
* `LauncherImplementsQueue`: every step is a step of `RoleQueue` or leaves it
  alone; `AcceptNow` uses `NoOvertaking`, the retirement uses `TaskInv`.

Liveness is model-checked in the runs of the roles.

## The roles: `WlanRoles`, `WlanRolesProofs`

`WlanRoles` adds to the launcher the parts that report to it: the station's
supplicant and DHCP client (`sta` is how far it has come), the pure scan, the
one scan callback both share, the channel switch of the coexist mode, the
beacons, and power save as far as the launcher hears of it. The steps of the MAC library (`ChannelSwitched`, `Beacon`) are external:
they are modelled by the calls that `librwnx.a` makes to `rl_pre_*_set_status`.
The MAC is taken to run one scan at a time in the order asked.

Two things about these reports are easy to miss in the code:

* Every association beside a soft AP announces and starts a channel switch
  (`StaAssociated`). The test that should skip it when both are on one channel,
  `hostapd_intf.c:138`, compares a frequency in MHz with a channel number and never
  succeeds.
* `bk_wlan_stop` and `bk_wlan_start_scan` ask to leave power save (`StopPower`) and go
  on without waiting. The core thread reports PS_SETTING at once if the station has an
  active interface and, when the ME has answered (`PsAnswer`), LAUNCHED, whoever has the
  interface by then; while the radio sleeps the request itself waits for the wake-up
  (`PsWake`). `ps` keeps as much of `PowerSave` as these reports need. The application
  turns power save on and off with `PsCall`.

Bounds: `MaxRequests` calls of the application (requests and power-save calls
together) and `MaxTrouble` failed scans or lost links. Three requests are needed for
one previous, one following and one refused or cached; the passing runs have four.

Fairness: the timer task goes on when it can; each timer fires when it is armed
again and again (both are started for a fixed time); the supplicant, the scan,
the channel switch and the beacons proceed; a sleeping radio wakes and the ME is
answered. None of it is assumed of callers or
of failures.

* Run `station`: station requests and removals, DHCP, two troubles. Every
  waiting request is launched (`WaitingIsLaunched`), and a connection attempt
  given up on a cancel is replaced (`AbandonedIsReplaced`).
* Run `coexist`: station, scan and soft AP with their removals, and scans that find
  something. `LaunchedOrSwitched`: every waiting request is launched, or the station's
  last word is for ever CHANNEL_SWITCHED. That exception happens: with DHCPING between
  CHANNEL_SWITCHING and LAUNCHED, a CHANNEL_SWITCHED that the MAC reports after LAUNCHED
  overwrites it, and the launch is never retired. TLC finds it when `WaitingIsLaunched`
  is checked on this instance. The property says that nothing else goes wrong: not the
  order of the other reports, not a station removed during the switch, not the answers
  of power save.
* Run `channels`: all of this with a lost link and scans that may find nothing, where
  requests may wait for ever. `RetiredHasFinished` says that still a station launch nobody
  replaces is retired only on an outcome of its own or on an answer of power save. The
  second is an exception the code needs: the LAUNCHED that answers the disable request
  of `bk_wlan_stop` may come after INITING of the next launch and retire it, while the
  station is still scanning. No other report meant for a launch before it does that.
* Run `static_ip` (violation): with a static address nothing reports LAUNCHED, and
  a waiting request is polled for ever, against the "as soon as possible" of
  `role_launch.h:41`. The instance is that of `station`, smaller and with `Dhcp` FALSE.

In one more case the model leaves a waiting request polled for ever: a scan without
results (`EmptyScans = TRUE`), whose callback returns before it reports. The runs of the
two liveness properties exclude it and the hazards list it.

Proofs, for all requests, bounds and choices of these constants, from
`WlanAssumption`, the launcher's assumptions and `OpenToRoles` (the launcher's
constant `Reports` has every status that the roles report):

* `RolesImplementLauncher`, `WSpec => Spec`: every step of the roles is a step of the
  launcher in its most general environment or leaves it alone. Every theorem of
  `RoleLaunchProofs`, the refinement of `RoleQueue` included, therefore holds of the
  composition.
* `RoleTypes` (`WTypeOK`).
* `RetiredOnlyWhenFinished` (`RetiredHasFinished`) needs `StationInv`: while a station
  that nobody is to replace is up, it has the scan callback; a pure scan that still runs
  ends before the station's own scan can; and, until power save answers (`answered`), a
  status that ends the launch, or that the end of a channel switch turns into one that
  does, is the station's own last word. By
  the launcher's `CancelHasSuccessor` such a station is not told to give up either.

## Host/MAC messages: `RwMsg`, `RwMsgProofs`

`RwMsg` is the round trip of a request that waits for its confirmation.
`SendList`, `SendQueue`, `SendFails`, `TakeSemaphore`, `Timeout`, `Extract` and
`Free` are the steps of `rw_msg_send`; `CoreForward` is the core thread's
`bmsg_ioctl_handler`; `Confirm` and `Indicate` are the MAC (external), which
hands its messages to `mr_kmsg_fwd` (`Fwd`); the `Kmsg...` actions are
`rwnx_recv_msg` in the kmsg thread. A node of `rw_msg_tx_head` is a record of its
sender and a number, which also stands for the request and its confirmation;
the list is a set, ordered by the numbers.

`KmsgPop` is one step, although `rwnx_recv_msg` takes the message off outside the
section that `GLOBAL_INT_DISABLE` protects: `co_list_pop_front` and `co_list_push_back`
mask the interrupts themselves. They are in `beken378/lib/librwnx.a`, which
`application.mk` links; `readelf -r` on its `co_list.o` shows the calls of
`portDISABLE_FIQ` and `portDISABLE_IRQ` that both make before they touch the list. Their
callers have to mask for `co_list_extract`, and for the walk with `co_list_pick` and
`co_list_next`, which make no such calls, and they do. The faulty variant
`KmsgPopUnlocked` shows what an unprotected pop would do: a confirmation forwarded
meanwhile is lost, and `AnswerIsComing` fails.

No lock protects a node between the kmsg thread's `co_list_extract` and its
`rtos_set_semaphore`. `Runs` says why that is enough: the kmsg thread
(`THD_APPLICATION_PRIORITY`) goes before every thread that sends, so that a
sender runs only when it sleeps or is inside a handler. What is read from a freed
node is arbitrary: it may match any message, and giving its semaphore may do
nothing or reach any other node.

Run `rw_msg`: two senders with requests of different kinds, three calls, one
timeout, one refused send, one indication.

* `NodesLiveUntilFailure`: nobody frees a node that is on the list or in the kmsg
  thread's hands, until the core queue refuses a request.
* `GiveSucceeds`: until then the assertion after `rtos_set_semaphore` holds. After
  a refused send it does not: `rw_msg_send` frees its node and leaves it on the
  list, and the retry's confirmation is delivered to the freed node.
* `OwnConfirmation`: a sender gets its own confirmation unless a request of the
  same kind timed out before. It does not say that only the next one is wrong: a
  late confirmation answers the next request, whose own then answers the one after
  it, and nothing in the code brings the two back into step.
* `AnswerIsComing`: until a send is refused, a sender that waits has been given its
  semaphore, or there is something in the core queue or with the MAC, or the kmsg thread
  is at work or has been woken: nobody waits on threads that all sleep.
* `ConfirmArrives`: a sender that waits returns, without the help of a timeout,
  unless a send was refused. Fairness: the threads run, the core thread forwards,
  the MAC answers every request; no timeout has to happen and nobody has to call.

Three calls are needed for a request that times out, one that gets its
confirmation, and one that gets the second one's.

`RwMsgProofs` proves all of them but `ConfirmArrives`, for all senders and bounds; the
assumptions are that the bounds are natural numbers and that an indication is no request.

* `RTypeOK`, `NodesLiveUntilFailure` and `GiveSucceeds` hold for any assignment of kinds
  to senders. The inductive invariant is `Ownership`: a node on the list is held by a
  call that has not been answered (so its semaphore is not given, and `Free` cannot be
  next); a node taken off by the kmsg thread is still held until its semaphore is given,
  because `Runs` keeps the senders still.
* `OwnConfirmation` is proved of one sender if nobody else sends its kind of request
  (`OwnConfirmationIfAlone`), and of all if no two do (`OwnConfirmationAlways`). The
  hypothesis is needed: a node goes on the list and its request into the core queue in two
  steps, so that two senders of one kind can have their confirmations swapped, as the
  hazard at `rw_msg_tx.c:58` says. The invariant `Answering` says where a request may be:
  only the present one of a sender is under way, in one place at a time, and not before it
  was sent or after it was matched.
* `AnswerAlwaysComes` (`AnswerIsComing`), under the same hypothesis: `Coming` says that
  the node of a waiting sender is on the list with its confirmation still to come, or in
  the kmsg thread's hands, or answered; `Woken` that the kmsg thread does not sleep on a
  message, although its semaphore counts to one. It is the safety half of
  `ConfirmArrives`.

## Power save: `PowerSave`, `PowerSaveProofs`

DTIM power save of a lone station. Callers post a message to the core thread; it
runs `power_save.c`, sends requests to the MAC's management entity (ME), which
answers later, and may put the radio to sleep at the end of each round of its
loop. `Pop`, `MeHandler`, `PsHandler`, `Sleep`, `NoSleep` are a round of
`core_thread_main`; `DtimWake` is the MAC's wake-up interrupt; `Wakeup` and
`ManualDoWakeup` are the wake-up itself; `DtimEnableHandler` and
`DtimDisableHandler` the ME's answers; `Expire` and `TimerProcess` the keep and
wait timers; `ModeEnable`, `DisableSendMsg`, `ModeDisable`, `Stop` what
`wlan_ui.c` asks for, and `RemoveInterface` the end of `bk_wlan_stop`; `Begin` to `PortOpen` a thread in `hapd_intf_add_key`, which
joins the list of those that wait for the radio.

External, from the calls the closed `librwnx.a` makes and receives:
`me_send_ps_req`, `me_set_ps_disable_req_handler`, `mm_set_ps_mode_cfm`,
`ps_sleep_check`, `ps_clear_key_prevent`.

The core thread has the highest priority, so another thread runs only while it
waits on an empty queue (`ThreadsRun`). Interrupts come between any two sections
that run with interrupts off.

* Run `power_save`: all requests, both timers, one thread. `LockMatchesSleep` is
  `power_save_wakeup`'s `ASSERT(!ps_lock)` seen from both sides: `ps_lock` is free
  exactly while the radio sleeps, although the end of power save clears
  `ps_real_sleep` without touching it. `AsleepIsWakeable`: the radio never sleeps in
  a state whose tests would ignore the interrupt or a frame to be sent.
  `SettingIsOwed`: while the launcher is told PS_SETTING, the ME works on a request or is
  to take up one that it does not drop. `DeferredUntilWake`: a disable request that was
  left for the wake-up waits only while the radio sleeps.
* Run `power_save_live`: without the timers. `WokenWhenAsleep`: a thread on the
  list while the radio sleeps is released. `DisableEnds`: an accepted disable
  request, also one put off until the wake-up, ends in mode NO, unless `bk_wlan_stop`
  removes the interface before the request is carried out: `power_save_me_ps_set_all_state`
  then finds no active station, asks the ME for nothing, and the mode stays DTIM, as the
  model shows. `SettingEnds`: every
  PS_SETTING is followed by LAUNCHED, also when the ME drops the request.

Bounds: `MaxSaved`, the requests the ME holds back while it is busy. Two are
needed: with one, a stop can never come between an enable request and the ME, the
case `SettingEnds` is about. `Timers` and `Requests` say what an instance uses.

Fairness: weak for the core thread, for reception while the radio is on and for
the wake-up timer of the MAC; strong for the ME's answers and for each thread, both
of which run only in some of the core thread's states; and the core thread is idle
again and again (`[]<>ThreadsRun`), for it could otherwise starve every thread. No
caller has to ask for anything.

The proofs rest on an inductive invariant, `PInv`: `PTypeOK`; `Asleep` (mode DTIM, no
wake-up recorded, `ps_lock` free, no request that would change the mode in the queue
or with the ME); `Awake` (`ps_lock` taken); `Busy` (what the ME works on agrees with
the mode). `LockIsRight` and `SleeperCanBeWoken` follow from it. `Asleep` has to speak
of the queue, because a request that is already under way when the radio falls
asleep would break the mode later.

`DeferredIsSent` (`DeferredUntilWake`) rests on `PInv`: the confirmation of a closing also
clears `ps_real_sleep`, without the check that sends the request, and `Asleep` says that it
never finds the radio asleep. `SettingIsAlwaysOwed` (`SettingIsOwed`) needs `OwedInv` beside
`PInv`: power_save.c and the ME agree whether power save is on (`Agreed`), and outside the
MAC's scheduler the ME has nothing to take up but one enable request (`Saved`), so that a
disable request is never queued behind one that switches power save off without an answer
for it. They are the safety halves of `DisableEnds` and `SettingEnds`.

Two things the model shows that no property of a run states: a thread that finds the
radio asleep, and joins the list after it has been woken, waits for the next sleep,
which its own key prevent holds off; and a disable request made while the enable
request is on its way to the ME is dropped.

## Scan results: `ScanResults`, `ScanSortProofs`, `ScanResultsProofs`

The kmsg thread fills a set while a scan runs (`ResultNew`, `ResultAppend`, through
`set_ptr`) and hands it over when the scan is confirmed (`StartCfm`): to the
supplicant through a second pointer, or to `scan_cb`. Four places free it: the kmsg
thread for the next scan and for a connection (`ConnectInd`), the supplicant after it
has asked to associate (`AssocTest`), the timer task when the station is stopped
(`StopTest`). In the last two `FreeAll` and `ClearPtr` are separate steps, as in
`sr_release_scan_results`. Priorities: kmsg 6, supplicant 4, timer task 2; a handler of
the kmsg thread does not block and is one step.

History: `heard` are the reports of this scan, `overtaken` whether somebody used a set
while another thread was between its look at the pointer and the end of its use, `bad`
whether freed memory was used. After `bad` the model takes no more steps, because
nothing can be said of the program.

* Run `scan_results`: two scans, three reports each, three networks, a set for two.
  `FreedOnce`: unless somebody was overtaken, every set is freed once and none is
  lost. `ResultsOfThisScan`: the set holds networks of this scan only, each as heard on
  its own channel if it was, and at most the first report is missing.
  `UploadIsSorted`: what the supplicant reads is sorted and has no duplicates.
  Symmetric in the addresses. `MCScanResults` also checks `Sort` on every list of up
  to four results against what a sort is (`SortSorts`).
* Run `first_result` (violation): `scan_cfm` is reset only where the kmsg thread
  releases a stale set, so that a set begun after another place has released its
  predecessor is taken for stale itself, and its first network is lost. It has room
  for all three networks, so that the limit is not the cause.

Proofs, for all networks, addresses and bounds; levels are integers, the
bounds natural numbers, and NULL is no address:

* `ResultsAreFreedOnce` (`FreedOnce`). Its invariant, `SInv`, says who owns the allocated
  set: the present one is the only one, except for one that a thread has freed and not yet
  cleared.
* `SortSortsAll`: `Sort` returns a permutation of its list, strongest first, for lists of
  any length. `Sort` and `Pass` are the outer and the inner loop of `sort_scan_result`,
  recursive functions over `i` and `j`. The induction theorems of the library cannot be
  used with these provers; `LoopInduction` and `LoopExists` get the induction from the
  least-number principle, which speaks of sets: `LoopExists` shows that a recursive
  function over a loop variable is what its equation says, and `PassSettles` that after
  pass `i` the first `i` places are final (`Settled`).
* `ScanTypes` (`STypeOK`): `TInv` adds that no set lists a network twice, which keeps the
  set within its limit, and that the requests outstanding are among those made.
* `SetIsOfThisScan` (`ResultsOfThisScan`) and `SupplicantReadsSorted` (`UploadIsSorted`):
  `CInv` adds `Contents`, whose key is that a set still marked `scan_cfm` has seen at most
  one report of the present scan. That is why no more than the first report gets lost,
  and why a stale set is never taken for the result.

## DHCP server: `DhcpServer`, `DhcpServerProofs`

Two threads, the server and the caller of `uap_ip_start` / `uap_ip_down` (the timer
task), with the same priority, and the idle task, which frees the control block of a
thread that has deleted itself when both wait.

* The server: `ServerLock` (it holds `dhcpd_mutex` all its life), `Select`, `Ignore` or
  `Handle` for a message, `ResetDefault`, `ReadCtrl` for a HALT, then `ServerClean`,
  `ServerUnlock`, `ServerExit`. `Handle` is `process_dhcp_message` whole: `Option` is
  one turn of its loop over the options, with the address, `need_ip`, `got_ip` and the
  answer as they change; then `make_response` with `next_yiaddr` and `send_response`.
* The caller: `Up`, `Create`, `Created`; `Down`, `SendHalt`, and the steps of
  `dhcp_free_allocations` and `rtos_delete_thread` one by one.
* Failures: of the start, of a HALT, of `select`, of a send, and answers that are lost.

Addresses are host parts of a subnet and one address outside. Clients send what DHCP
clients send: one address per message, in `ciaddr` or as an option, which comes before
or after the type. That is an assumption on the clients: the server does not refuse a
message with both, nothing is claimed of one, and with a full cache it could acknowledge
an address that another client holds. `offered` and `leased` say what a client has been told; `early`
whether a server was stopped before it took the mutex; `bad` what was used after its
end, after which the model stops.

Run `dhcp_server`: three clients, a cache for one, eight addresses, three messages that
are not ignored (any number are), one kind of failure. The second and third client meet
a full cache, as the ninth and tenth do in the code.

* `LeasesAreUnique`: two clients share an address only when both came to a full cache.
  They then do: the address is acknowledged and not stored.
* `OfferIsHonoured`: whatever others do in between, a client that asks for what it was
  offered is given it.
* `SearchEnds`: the loop of `next_yiaddr` ends. `RoomAssumption` (more than
  `CacheSize + 3` addresses) is needed: in a smaller network, a /29 say, the code loops
  for ever once the cache is full.
* `StopIsClean`: nothing is used after its release, but for two windows that the model
  reaches: a server that is stopped before it took the mutex, and one that deletes
  itself between `xTaskIsTaskFinished` and `vTaskDelete`.
* `ServedWhenUp`: an access point that is up has a live server, unless the start or
  `select` failed. After a failed `select`, `dhcpd_running` stays set and the server can
  neither be stopped nor started.
* `HaltIsSeen`: while `dhcp_free_allocations` waits for the mutex, which it does without a
  timeout, the mutex is free, or the server that holds it has the HALT still before it or
  is on its way out.
* `CallsReturn`: start and stop return however many messages come, although
  `dhcp_free_allocations` waits without a timeout. Fairness: each of the two threads
  goes on when it can; nothing of clients, failures or calls.

Run `default_netif` (violation): after a broadcast answer the default interface is NULL,
where three comments say that it is the station's.

Proofs, for all clients, subnets, caches and bounds, from `SubnetAssumption` and
`RoomAssumption`:

* `LInv` is `LeaseInv` and `SearchEnds`. `LeaseInv` says that the cache has no address
  and no client twice and no reserved address, and what was promised to a client is
  either in the cache under its name or the cache is full and nobody in it has that
  address. Lemmas about `Option` (`OptionStep`, `ProcessStep`) say that a message only
  adds entries and keeps promises; `FreeLeft` is the pigeonhole argument that a cache of
  fewer entries than addresses leaves one free.
* `ThreadInv`, with `Cycle`, relates where the caller stands to where the server stands
  and who holds the mutex. The server's end before the caller's lock is what makes the
  caller's release safe, and the two exceptions in `StopIsClean` are where `Cycle` fails.
  `HaltIsAlwaysSeen` (`HaltIsSeen`) follows from it too: a HALT that the caller has sent is
  unread or has taken the server to its end. It is the safety half of `CallsReturn`.
* `TypesAreRight`: types, with the cache's limit from `LeaseInv`.

## What is only model-checked

Liveness under fairness, which TLAPS cannot reason about. Every other property of the
passing runs is also a theorem. What keeps the system from a state in which the liveness
property could no longer come true is proved, for most of them, as a safety property:

| liveness, model-checked | proved |
|---|---|
| `WaitingIsLaunched`, `LaunchedOrSwitched` | `FollowingHasTimer`: a waiting request has the launch timer or its handler behind it |
| `AbandonedIsReplaced` | `CancelHasSuccessor`: a launch is given up only for a request that waits |
| `ConfirmArrives` | `AnswerIsComing`, for senders with requests of different kinds |
| `WokenWhenAsleep` | `AsleepIsWakeable`: a sleeping radio can be woken |
| `DisableEnds` | `DeferredUntilWake`, for the requests that were left for the wake-up |
| `SettingEnds` | `SettingIsOwed` |
| `CallsReturn` | `HaltIsSeen`, `SearchEnds` |

The proofs of these say nothing of how long anything takes or that it comes at all; that
needs the fairness stated with each model. `SortSorts` in `MCScanResults` is the check of
`SortSortsAll` on small lists.

## Not modelled

* In the launcher: `rl_uninit` and `rl_stop` (no callers), failed allocations
  (asserted), the adv variants of the start functions (they bypass the launcher), the
  length of time anything takes, monitor mode beyond the failure of
  `bk_wlan_start_scan`.
* In `RwMsg`: the failed allocation of a node (it returns at once and changes nothing)
  and requests without a confirmation, which no one waits for.
* In `PowerSave`: roles other than a lone station, the listen interval written into MAC
  registers, the td timer (it drives a timer of the MAC library), the wake-up by PWM
  (`pwm_less_time` is never set).
* In `DhcpServer`: DNS answers (nobody enables them), the gratuitous ARP, lease times
  (the server expires nothing), what a failed start leaks, callers that overlap.
* The core thread's bus by itself (its loop is in `PowerSave`, its queue in `RwMsg`), MCU
  power save, the data path, flash parameters, the Tuya drivers: see the notes in
  `PROJECT.json`.
* Most of the repository is vendored code, register headers, a toolchain and closed
  libraries; the map covers a small share of its lines for that reason.

## Plan

Done, in this order: the launcher with its abstract specification, the roles, the message
round trip, power save, scan results, the DHCP server. What is left:

1. Proofs: a wider `OwnConfirmation`, for senders that share a kind but never call at the
   same time; the invariant that a confirmation which answers the wrong request is
   exactly one behind.
2. `CoreBus` (`app/app.c`): the queue with its capacity and every `bmsg_*` sender with
   its own way to fail; the count `bmsg_rx_count` that a refused push leaves too high.
3. The prevent mask of `mcu_ps.c`, and the Tuya keys and UART rings.
4. Compositions: the message round trip over `CoreBus`, and the launcher's station with
   the whole of `PowerSave` in place of the reports `WlanRoles` keeps of it.
