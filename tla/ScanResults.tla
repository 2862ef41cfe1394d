----------------------------- MODULE ScanResults -----------------------------
(***************************************************************************)
(* The set of scan results: func/rwnx_intf/rw_msg_rx.c and                 *)
(* func/hostapd_intf/hostapd_intf.c.                                       *)
(*                                                                         *)
(* The kmsg thread fills a set while a scan runs (scan_rst_set_ptr) and    *)
(* hands it over when the scan is confirmed: to the supplicant, through a  *)
(* second pointer (s_scan_result_upload_ptr), or to scan_cb, which reads   *)
(* and releases it on the spot.  Four places free a set: the kmsg thread,  *)
(* for the next scan and for a connection; the supplicant's thread, after  *)
(* it has asked to associate; the timer task, when the station is stopped. *)
(*                                                                         *)
(* The kmsg thread has the highest priority of the three (6; the           *)
(* supplicant 4, the timer task 2) and its handlers do not block: each of  *)
(* them is one step, and comes between any two steps of the others.        *)
(***************************************************************************)
EXTENDS Integers, Sequences, FiniteSetsExt

CONSTANTS
    Net,        \* the networks, one BSSID each
    Level,      \* Level[n]: the signal level a network is received with
    MaxBss,     \* MAX_BSS_LIST
    Addr,       \* the addresses the allocator can give a set
    NULL,       \* no set
    MaxScans,   \* bound on the scan requests
    MaxInds     \* bound on the reports of one scan

ASSUME NullAssumption == NULL \notin Addr
ASSUME BoundAssumption == {MaxBss, MaxScans, MaxInds} \subseteq Nat
ASSUME LevelAssumption == Level \in [Net -> Int]

VARIABLES
    set_ptr,    \* scan_rst_set_ptr
    upload_ptr, \* s_scan_result_upload_ptr
    scan_cfm,   \* scan_cfm: has a scan been confirmed since the last release?
    live,       \* the addresses of the sets that are allocated
    heap,       \* what is stored there: res[0..scanu_num-1]
    cb,         \* scan_cfm_cb: whom the end of a scan is told
    sig,        \* is SIGSCAN pending in the supplicant's loop?
    sta,        \* the supplicant's interface
    pc, arg,    \* where a thread stands, and the set it is about to free
    requests,   \* the scan requests the MAC has not begun
    scanning,   \* is the MAC scanning?
    connecting, \* does the MAC owe an SM_CONNECT_IND?
    scans, inds,\* requests made, reports of the present scan
    heard,      \* history: the reports of this scan that were to be kept
    overtaken,  \* history: has somebody used a set that another was releasing?
    bad         \* history: has freed memory been used, or freed again?

pointers == <<set_ptr, upload_ptr, scan_cfm>>
memory == <<live, heap>>
threads == <<sig, sta, pc, arg>>
mac == <<requests, scanning, connecting, scans, inds>>
history == <<heard, overtaken, bad>>
vars == <<pointers, memory, cb, threads, mac, history>>

Thread == {"wpa", "timer"}
Item == [net : Net, on : BOOLEAN]
Ptr == Addr \cup {NULL}

\* The steps of a thread between its look at a pointer and the moment it is
\* done with what it has seen.
Window(t) == pc[t] \in {"copy", "free", "clear"}
Overtakes(by) ==
    overtaken' = (overtaken \/ \E t \in Thread \ by : Window(t))

\* A set that is pointed to although it has been freed.
Dangling(p) == p # NULL /\ p \notin live

-----------------------------------------------------------------------------
(* The contents of a set. *)

\* Faulty variants of Add: no limit; the report of a known network is always
\* dropped.
AddBeyond(s, it, ok) ==
    LET Same == {i \in DOMAIN s : s[i].net = it.net}
    IN  IF ~ok \/ \E i \in Same : s[i].on \/ ~it.on
        THEN s
        ELSE IF Same = {} THEN Append(s, it) ELSE [s EXCEPT ![Max(Same)] = it]
AddFirst(s, it, ok) ==
    IF ~ok \/ Len(s) >= MaxBss \/ \E i \in DOMAIN s : s[i].net = it.net
    THEN s ELSE Append(s, it)

\* mhdr_scanu_result_ind: a report is dropped when the set is full, when its
\* channel is not allowed or memory is short (ok), and when the network is
\* there already, unless only the new report was received on the network's own
\* channel.
Add(s, it, ok) ==
    LET Same == {i \in DOMAIN s : s[i].net = it.net}
    IN  IF ~ok \/ Len(s) >= MaxBss \/ \E i \in Same : s[i].on \/ ~it.on
        THEN s
        ELSE IF Same = {} THEN Append(s, it) ELSE [s EXCEPT ![Max(Same)] = it]

\* sr_free_all empties the set before it frees it.
Emptied(p) == [a \in Addr |-> IF a = p THEN <<>> ELSE heap[a]]

\* sort_scan_result: for every place i, each later place j in turn; the two are
\* exchanged when j holds the stronger network.
Exchange(s, i, j) ==
    IF Level[s[j].net] > Level[s[i].net]
    THEN [s EXCEPT ![i] = s[j], ![j] = s[i]]
    ELSE s
Pass(s, i) ==
    LET f[j \in i..Len(s)] == IF j = i THEN s ELSE Exchange(f[j - 1], i, j)
    IN  f[Len(s)]
Sort(s) ==
    LET f[i \in 0..(Len(s) - 1)] == IF i = 0 THEN s ELSE Pass(f[i - 1], i)
    IN  IF Len(s) = 0 THEN s ELSE f[Len(s) - 1]

-----------------------------------------------------------------------------
(* The kmsg thread: rwnx_handle_recv_msg. *)

\* A message about a set that another thread has just freed: the handler sorts,
\* fills or frees memory that is not its own any more.
UseFreed ==
    /\ Dangling(set_ptr) /\ bad' = TRUE /\ overtaken' = TRUE
    /\ UNCHANGED <<pointers, memory, cb, threads, mac, heard>>

Hear(it, ok) ==
    /\ inds < MaxInds /\ inds' = inds + 1
    /\ heard' = IF ok THEN Append(heard, it) ELSE heard

\* Is the set the one of an earlier scan?
\* Faulty variant: the results of the scans pile up.
StaleNever == FALSE
Stale == scan_cfm /\ set_ptr # NULL

\* SCANU_RESULT_IND with a set to go on with.
ResultAppend(it, ok) ==
    /\ scanning /\ set_ptr \in live /\ ~Stale
    /\ heap' = [heap EXCEPT ![set_ptr] = Add(heap[set_ptr], it, ok)]
    /\ Hear(it, ok) /\ Overtakes({})
    /\ UNCHANGED <<pointers, live, cb, threads, requests, scanning, connecting,
                   scans, bad>>

\* SCANU_RESULT_IND that begins a set, after the release of an earlier one, if
\* there is one.  scan_cfm is reset only with such a release: after a scan whose
\* results have been released already, the first report of the next scan
\* begins a set and leaves it marked as the set of an earlier scan.
ResultNew(it, ok) ==
    /\ scanning
    /\ set_ptr = NULL \/ (Stale /\ set_ptr \in live)
    /\ \E a \in Addr \ (live \ {set_ptr}) :
          /\ live' = (live \ {set_ptr}) \cup {a}
          /\ heap' = [Emptied(set_ptr) EXCEPT ![a] = Add(<<>>, it, ok)]
          /\ set_ptr' = a
    /\ IF Stale
       THEN upload_ptr' = NULL /\ scan_cfm' = FALSE
       ELSE UNCHANGED <<upload_ptr, scan_cfm>>
    /\ Hear(it, ok) /\ Overtakes({})
    /\ UNCHANGED <<cb, threads, requests, scanning, connecting, scans, bad>>

\* sr_release_scan_results by the kmsg thread.
\* Faulty variant: without wpa_clear_scan_results.
ReleaseOnly ==
    /\ live' = live \ {set_ptr} /\ heap' = Emptied(set_ptr)
    /\ set_ptr' = NULL /\ UNCHANGED upload_ptr
Release ==
    /\ live' = live \ {set_ptr} /\ heap' = Emptied(set_ptr)
    /\ set_ptr' = NULL /\ upload_ptr' = NULL

\* SCANU_START_CFM: the set is sorted and handed to the supplicant's interface;
\* then the registered callback is called.  scan_cb reads the set, if there is
\* one, and releases it; the supplicant's callback raises SIGSCAN.
StartCfm ==
    /\ scanning /\ ~Dangling(set_ptr)
    /\ scanning' = FALSE /\ scan_cfm' = TRUE
    /\ \/ /\ cb = "app" /\ set_ptr # NULL
          /\ Release /\ UNCHANGED sig
       \/ /\ cb = "wpa" /\ set_ptr # NULL
          /\ heap' = [heap EXCEPT ![set_ptr] = Sort(heap[set_ptr])]
          /\ upload_ptr' = set_ptr /\ sig' = (sig \/ sta = "on")
          /\ UNCHANGED <<live, set_ptr>>
       \/ /\ set_ptr = NULL
          /\ sig' = (sig \/ (cb = "wpa" /\ sta = "on"))
          /\ UNCHANGED <<memory, set_ptr, upload_ptr>>
    /\ Overtakes({})
    /\ inds' = 0 /\ heard' = <<>>
    /\ UNCHANGED <<cb, sta, pc, arg, requests, connecting, scans, bad>>

\* SM_CONNECT_IND: the results are not needed any more.
ConnectInd ==
    /\ connecting /\ ~Dangling(set_ptr)
    /\ connecting' = FALSE
    /\ IF set_ptr # NULL
       THEN Release /\ heard' = <<>>
       ELSE UNCHANGED <<memory, set_ptr, upload_ptr, heard>>
    /\ Overtakes({})
    /\ UNCHANGED <<scan_cfm, cb, threads, requests, scanning, scans, inds,
                   bad>>

Kmsg ==
    \/ \E it \in Item, ok \in BOOLEAN : ResultAppend(it, ok) \/ ResultNew(it, ok)
    \/ StartCfm \/ ConnectInd
    \/ (scanning \/ connecting) /\ UseFreed

-----------------------------------------------------------------------------
(* The MAC: one scan after the other. *)
ScanBegin ==
    /\ requests > 0 /\ ~scanning
    /\ requests' = requests - 1 /\ scanning' = TRUE
    /\ UNCHANGED <<pointers, memory, cb, threads, connecting, scans, inds, history>>

\* The callback is registered before rw_msg_send_scanu_req, which sends nothing
\* when the launcher has cancelled the role (sent).
AskScan(who, sent) ==
    /\ scans < MaxScans /\ scans' = scans + 1
    /\ cb' = who
    /\ requests' = IF sent THEN requests + 1 ELSE requests
    /\ UNCHANGED <<pointers, memory, scanning, connecting, inds, history>>

-----------------------------------------------------------------------------
(* The steps of a release by a thread: sr_release_scan_results(ptr). *)

Goto(t, l) == pc' = [pc EXCEPT ![t] = l]
Take(t, p) == arg' = [arg EXCEPT ![t] = p]

\* sr_free_all.
FreeAll(t) ==
    /\ pc[t] = "free"
    /\ IF arg[t] \in live
       THEN live' = live \ {arg[t]} /\ heap' = Emptied(arg[t]) /\ UNCHANGED bad
       ELSE bad' = TRUE /\ UNCHANGED memory
    /\ heard' = <<>>
    /\ Goto(t, "clear")
    /\ UNCHANGED <<pointers, cb, sig, sta, arg, mac, overtaken>>

\* Both pointers are cleared, whatever they point to by now.
ClearPtr(t) ==
    /\ pc[t] = "clear"
    /\ set_ptr' = NULL /\ upload_ptr' = NULL
    /\ heard' = <<>>
    /\ Goto(t, "idle") /\ Take(t, NULL)
    /\ UNCHANGED <<scan_cfm, memory, cb, sig, sta, mac, overtaken, bad>>

-----------------------------------------------------------------------------
(* The supplicant's thread. *)

WpaScan(sent) ==
    /\ sta = "on" /\ pc["wpa"] = "idle" /\ ~sig
    /\ AskScan("wpa", sent)
    /\ UNCHANGED threads

\* wpa_get_scan_rst on SIGSCAN: fails without a set, and when the launcher has
\* cancelled the role (go).
GetScanRst(go) ==
    /\ sig /\ pc["wpa"] = "idle"
    /\ sig' = FALSE
    /\ IF upload_ptr # NULL /\ go
       THEN Goto("wpa", "copy") /\ Overtakes({"wpa"})
       ELSE UNCHANGED <<pc, overtaken>>
    /\ UNCHANGED <<pointers, memory, cb, sta, arg, mac, heard, bad>>

\* The results are copied through s_scan_result_upload_ptr, which is read again
\* for every one of them.
CopyRst ==
    /\ pc["wpa"] = "copy"
    /\ bad' = (bad \/ upload_ptr \notin live)
    /\ \/ Goto("wpa", "idle")
       \/ Goto("wpa", "assoc")
    /\ UNCHANGED <<pointers, memory, cb, sig, sta, arg, mac, heard, overtaken>>

\* wpa_send_assoc_req: sa_station_send_associate_cmd waits for the confirmation
\* of its request, or fails at once; the results are released either way.
Associate ==
    /\ pc["wpa"] = "assoc"
    /\ \/ connecting' = TRUE
       \/ UNCHANGED connecting
    /\ Goto("wpa", "test")
    /\ UNCHANGED <<pointers, memory, cb, sig, sta, arg, requests, scanning, scans,
                   inds, history>>
AssocTest ==
    /\ pc["wpa"] = "test"
    /\ IF upload_ptr # NULL
       THEN Goto("wpa", "free") /\ Take("wpa", upload_ptr) /\ Overtakes({"wpa"})
       ELSE Goto("wpa", "idle") /\ UNCHANGED <<arg, overtaken>>
    /\ UNCHANGED <<pointers, memory, cb, sig, sta, mac, heard, bad>>

Wpa ==
    \/ \E yes \in BOOLEAN : WpaScan(yes) \/ GetScanRst(yes)
    \/ CopyRst \/ Associate \/ AssocTest
    \/ FreeAll("wpa") \/ ClearPtr("wpa")

-----------------------------------------------------------------------------
(* The timer task, where the role launcher starts and stops the roles.  It    *)
(* runs while the supplicant has nothing to do or waits for its confirmation. *)

TimerRuns == pc["wpa"] \in {"idle", "assoc"} /\ ~sig

\* demo_scan_app_init.
PureScan(sent) ==
    /\ pc["timer"] = "idle" /\ sta # "starting" /\ TimerRuns
    /\ AskScan("app", sent)
    /\ UNCHANGED threads

\* bk_wlan_stop, by itself or as the first thing bk_wlan_start_sta does: the
\* supplicant's interface goes first.
StopStation(next) ==
    /\ pc["timer"] = "idle" /\ sta # "starting" /\ TimerRuns
    /\ sta' = next
    /\ Goto("timer", "test")
    /\ UNCHANGED <<pointers, memory, cb, sig, arg, mac, history>>

\* wpa_hostapd_release_scan_rst: the set that was handed over, else the one that
\* is being filled, if there is one.
StopTest ==
    /\ pc["timer"] = "test" /\ TimerRuns
    /\ LET p == IF upload_ptr # NULL THEN upload_ptr ELSE set_ptr
       IN  /\ Take("timer", p)
           /\ Goto("timer", IF p = NULL THEN "clear" ELSE "free")
    /\ Overtakes({"timer"})
    /\ UNCHANGED <<pointers, memory, cb, sig, sta, mac, heard, bad>>

\* The rest of bk_wlan_start_sta.
StartStation ==
    /\ pc["timer"] = "idle" /\ sta = "starting" /\ TimerRuns
    /\ sta' = "on"
    /\ UNCHANGED <<pointers, memory, cb, sig, pc, arg, mac, history>>

Timer ==
    \/ \E next \in {"off", "starting"} : StopStation(next)
    \/ StartStation \/ StopTest
    \/ \E sent \in BOOLEAN : PureScan(sent)
    \/ TimerRuns /\ FreeAll("timer")
    \/ TimerRuns /\ ClearPtr("timer")

-----------------------------------------------------------------------------
Init ==
    /\ set_ptr = NULL /\ upload_ptr = NULL /\ scan_cfm = FALSE
    /\ live = {} /\ heap = [a \in Addr |-> <<>>]
    /\ cb = "none" /\ sig = FALSE /\ sta = "off"
    /\ pc = [t \in Thread |-> "idle"] /\ arg = [t \in Thread |-> NULL]
    /\ requests = 0 /\ scanning = FALSE /\ connecting = FALSE
    /\ scans = 0 /\ inds = 0
    /\ heard = <<>> /\ overtaken = FALSE /\ bad = FALSE

\* Once freed memory has been used nothing can be said of the program.
Next == ~bad /\ (Kmsg \/ ScanBegin \/ Wpa \/ Timer)
Spec == Init /\ [][Next]_vars

-----------------------------------------------------------------------------
(* Properties. *)

STypeOK ==
    /\ set_ptr \in Ptr /\ upload_ptr \in Ptr /\ scan_cfm \in BOOLEAN
    /\ live \subseteq Addr
    /\ heap \in [Addr -> UNION {[1..n -> Item] : n \in 0..MaxBss}]
    /\ cb \in {"none", "wpa", "app"} /\ sig \in BOOLEAN /\ sta \in {"off", "starting", "on"}
    /\ pc \in [Thread -> {"idle", "copy", "assoc", "test", "free", "clear"}]
    /\ arg \in [Thread -> Ptr]
    /\ requests \in 0..MaxScans /\ scanning \in BOOLEAN
    /\ connecting \in BOOLEAN
    /\ scans \in 0..MaxScans /\ inds \in 0..MaxInds
    /\ heard \in Seq(Item) /\ overtaken \in BOOLEAN /\ bad \in BOOLEAN

Clearing == {t \in Thread : pc[t] = "clear"}

\* As long as no message of the MAC and no second thread comes between a
\* thread's look at a set and the end of its use of it, each set is freed once
\* and none is lost, although two pointers lead to it and four places free it.
FreedOnce ==
    ~overtaken =>
        /\ ~bad
        /\ live = {set_ptr} \ ({NULL} \cup {arg[t] : t \in Clearing})
        /\ upload_ptr # NULL => upload_ptr = set_ptr /\ scan_cfm

Nets(s) == {s[i].net : i \in DOMAIN s}

\* The set that fills up during a scan holds the networks of this scan and no
\* other, each as it was received on its own channel, if it was; only the first
\* report may be missing, and what came after the set was full.
ResultsOfThisScan ==
    scanning /\ heard # <<>> /\ ~overtaken =>
        LET s == heap[set_ptr]
        IN  /\ set_ptr # NULL
            /\ Nets(s) \subseteq Nets(heard)
            /\ Len(s) < MaxBss =>
                  \A k \in 2..Len(heard) : \E i \in DOMAIN s :
                      s[i].net = heard[k].net /\ (heard[k].on => s[i].on)

\* The set that the supplicant reads is sorted, strongest network first, has no
\* network twice, and no report of a later scan gets into it.
UploadIsSorted ==
    upload_ptr \in live /\ ~overtaken =>
        LET s == heap[upload_ptr]
        IN  \A i, j \in DOMAIN s : i < j =>
                /\ s[i].net # s[j].net
                /\ Level[s[i].net] >= Level[s[j].net]

\* What wlan_ui_pub.h:114 says of ApNum, "The number of access points found in
\* scanning": no network that was found is missing when the scan ends.
FoundIsListed ==
    [][scanning /\ ~scanning' /\ heard # <<>> /\ ~overtaken'
       /\ Len(heap[set_ptr]) < MaxBss
          => Nets(heard) \subseteq Nets(heap[set_ptr])]_vars
=============================================================================
