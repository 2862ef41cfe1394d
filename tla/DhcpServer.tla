----------------------------- MODULE DhcpServer -----------------------------
(***************************************************************************)
(* The DHCP server of the soft AP: func/lwip_intf/dhcpd, started and       *)
(* stopped by uap_ip_start and uap_ip_down of port/net.c.                  *)
(*                                                                         *)
(* The server is a thread that waits in select for requests of clients and *)
(* for a HALT on its control socket.  It holds dhcpd_mutex all its life,   *)
(* so that whoever stops it waits for its end; then the caller frees the   *)
(* buffer, deletes the mutex and deletes the thread, unless it is gone.    *)
(* The calls come one after the other, from the timer task (bk_wlan_start, *)
(* bk_wlan_stop).  It has the priority of the server, so the two threads   *)
(* interleave freely; the idle task, which frees a thread that has deleted *)
(* itself, runs only when both of them wait.                               *)
(*                                                                         *)
(* Addresses are the host parts of the subnet; OutIp is any other address. *)
(***************************************************************************)
EXTENDS Naturals, Sequences, FiniteSets

CONSTANTS
    Client,     \* the hardware addresses of the clients
    Size,       \* the number of addresses of the subnet, a power of two
    MyIp,       \* dhcps.my_ip
    OutIp,      \* an address outside the subnet
    NoIp,       \* CLIENT_IP_NOT_FOUND; no address
    Wanted,     \* the addresses that clients ask for
    CacheSize,  \* MAC_IP_CACHE_SIZE
    MaxMessages,\* bound on the messages that are not ignored
    MaxFaults   \* bound on the kinds of failures

Host == 0..Size - 1
Ip == Host \cup {OutIp}

ASSUME SubnetAssumption ==
    /\ Size \in Nat /\ CacheSize \in Nat /\ {MaxMessages, MaxFaults} \subseteq Nat
    /\ MyIp \in Host /\ Wanted \subseteq Ip
    /\ OutIp \notin Host /\ NoIp \notin Ip

\* A subnet has its network address, its broadcast address, the server's and
\* at least one that is left when the cache is full.
ASSUME RoomAssumption == Size > CacheSize + 3

VARIABLES
    flag,       \* uap_ip_start_flag
    running,    \* dhcpd_running
    ctl,        \* where the caller of uap_ip_start or uap_ip_down stands
    mutex,      \* dhcpd_mutex: who holds it
    buf,        \* dhcps.msg: is the buffer allocated?
    open,       \* are dhcps.sock and dhcps.ctrlsock open?
    halt,       \* is a HALT waiting in the control socket?
    server,     \* where the server's thread stands
    rfds,       \* the sockets that select has reported
    table,      \* ip_mac_mapping[0..count_clients-1]
    current,    \* current_ip
    netif,      \* netif_default
    sta,        \* is the station's interface up?
    messages,   \* messages received that were not ignored
    offered,    \* history: the address of the last offer a client has received
    leased,     \* history: the address a client uses on the server's word
    faults,     \* history: which operations have failed
    early,      \* history: was a server stopped before it took the mutex?
    bad         \* history: what has been used after its end

calls == <<flag, running, ctl>>
shared == <<mutex, buf, open, halt>>
thread == <<server, rfds>>
leases == <<table, current, messages, offered, leased>>
route == <<netif, sta>>
history == <<faults, early, bad>>
vars == <<calls, shared, thread, leases, route, history>>

Alive == server \notin {"none", "ended", "freed"}

-----------------------------------------------------------------------------
(* The cache of the clients' addresses. *)

Has(t, c) == \E i \in DOMAIN t : t[i].mac = c

\* ac_lookup_mac: the first entry of a client
First(t, c) ==
    CHOOSE i \in DOMAIN t : t[i].mac = c /\ \A j \in 1..i - 1 : t[j].mac # c
Lookup(t, c) == IF Has(t, c) THEN t[First(t, c)].ip ELSE NoIp

\* ac_add
\* Faulty variant: the limit is not tested.
AddBeyond(t, c, a) == Append(t, [mac |-> c, ip |-> a])
Add(t, c, a) ==
    IF Len(t) < CacheSize THEN Append(t, [mac |-> c, ip |-> a]) ELSE t

\* ac_valid_ip, of an address in the subnet
\* Faulty variants: the cache is not looked up; a full cache has no free address.
ValidAnyway(t, a) == a \notin {0, MyIp, Size - 1}
ValidUnlessFull(t, a) == ValidAnyway(t, a) /\ Len(t) < CacheSize
                         /\ \A i \in DOMAIN t : t[i].ip # a
Valid(t, a) ==
    /\ a \notin {0, MyIp, Size - 1}
    /\ \A i \in DOMAIN t : t[i].ip # a

\* The search of next_yiaddr: the first valid address after the current one,
\* round the subnet.  Without one it never ends.
Free(t) == {a \in Host : Valid(t, a)}
Ahead(a, cur) == (a + Size - cur - 1) % Size
NextIp(t, cur) ==
    {a \in Free(t) : \A b \in Free(t) : Ahead(a, cur) <= Ahead(b, cur)}

-----------------------------------------------------------------------------
(* process_dhcp_message: one turn of its loop over the options.  A message  *)
(* names its type and perhaps an address, in the option REQUESTED IP or in  *)
(* ciaddr, but not in both.                                                 *)

Message ==
    {m \in [mac : Client, type : {"DISCOVER", "REQUEST", "DECLINE", "RELEASE"},
            ciaddr : Wanted \cup {NoIp}, requested : Wanted \cup {NoIp}] :
        /\ m.ciaddr = NoIp \/ m.requested = NoIp
        /\ m.type = "DISCOVER" => m.ciaddr = NoIp
        /\ m.type = "DECLINE" => m.requested # NoIp
        /\ m.type = "RELEASE" => m.ciaddr # NoIp}

Start(t) ==
    [table |-> t, ip |-> NoIp, need |-> FALSE, got |-> FALSE, response |-> "NONE"]

Option(s, m, o) ==
    LET request == o = "type" /\ m.type = "REQUEST"
        ip == IF request /\ m.ciaddr # NoIp THEN m.ciaddr
              ELSE IF o = "requested" THEN m.requested ELSE s.ip
        need == s.need \/ request
        known == ip \in Host /\ Lookup(s.table, m.mac) # NoIp
        fresh == ip \in Host /\ Lookup(s.table, m.mac) = NoIp /\ Valid(s.table, ip)
        got == IF known THEN Lookup(s.table, m.mac) = ip ELSE fresh \/ s.got
    IN  [table |-> IF fresh THEN Add(s.table, m.mac, ip) ELSE s.table,
         ip |-> ip, need |-> need, got |-> got,
         response |-> IF need THEN IF got THEN "ACK" ELSE "NAK"
                      ELSE IF o = "type" /\ m.type = "DISCOVER" THEN "OFFER"
                      ELSE s.response]

\* The options come in either order; "other" stands for the ones that are
\* skipped.
Orders(m) ==
    IF m.requested # NoIp
    THEN {<<"type", "requested">>, <<"requested", "type">>}
    ELSE {<<"type", "other">>, <<"other", "type">>}
Process(m, t, o) == Option(Option(Start(t), m, o[1]), m, o[2])

-----------------------------------------------------------------------------
(* The server's thread: dhcp_server. *)

Goto(l) == server' = l
Misuse(what) == bad' = bad \cup {what}
Fail(what) ==
    /\ faults' = faults \cup {what}
    /\ Cardinality(faults') <= MaxFaults

\* rtos_lock_mutex, on entry
ServerLock ==
    /\ server = "ready"
    /\ \/ /\ mutex = "free" /\ mutex' = "server" /\ Goto("select")
          /\ UNCHANGED bad
       \/ /\ mutex = "none" /\ Misuse("mutex") /\ UNCHANGED <<mutex, server>>
    /\ UNCHANGED <<calls, buf, open, halt, rfds, leases, route, faults, early>>

\* lwip_select: it returns when a message has come to one of the sockets, and
\* reports both when there is one in each.
Select ==
    /\ server = "select"
    /\ \/ /\ ~open /\ Misuse("socket") /\ UNCHANGED thread
       \/ /\ open /\ Goto("recv") /\ UNCHANGED bad
          /\ rfds' \in {{"dhcp"}, {"ctrl"}, {"dhcp", "ctrl"}}
          /\ "ctrl" \in rfds' <=> halt
    /\ UNCHANGED <<calls, shared, leases, route, faults, early>>

\* "select failed": the thread ends of itself.
SelectFails ==
    /\ server = "select" /\ open
    /\ Goto("clean") /\ Fail("select")
    /\ UNCHANGED <<calls, shared, rfds, leases, route, early, bad>>

\* A message that process_dhcp_message ignores (INFORM, a wrong header).
\* Faulty variant: the control socket is looked at only when it was alone.
IgnoreAndSelect ==
    /\ server = "recv" /\ "dhcp" \in rfds
    /\ rfds' = {} /\ Goto("select")
    /\ UNCHANGED <<calls, shared, leases, route, history>>
Ignore ==
    /\ server = "recv" /\ "dhcp" \in rfds
    /\ rfds' = rfds \ {"dhcp"}
    /\ UNCHANGED <<calls, shared, server, leases, route, history>>

\* What the client makes of the answer, if it receives it.
\* A client that discovers, declines or releases has no address any more.
Told(m, response, ip, received) ==
    /\ offered' = [offered EXCEPT ![m.mac] =
          IF response = "OFFER" THEN IF received THEN ip ELSE NoIp ELSE @]
    /\ leased' = [leased EXCEPT ![m.mac] =
          IF m.type # "REQUEST" THEN NoIp
          ELSE IF ~received THEN @
          ELSE IF response = "ACK" THEN ip ELSE NoIp]

Receives ==
    /\ server = "recv" /\ "dhcp" \in rfds /\ messages < MaxMessages
    /\ rfds' = rfds \ {"dhcp"} /\ messages' = messages + 1
    /\ IF buf THEN UNCHANGED bad ELSE Misuse("buffer")

\* send_response broadcasts through the soft AP's interface, which it makes the
\* default; when lwip_sendto fails it returns at once.
Send(ok) ==
    /\ netif' = "ap" /\ UNCHANGED sta
    /\ Goto(IF ok THEN "reset" ELSE "recv")

\* make_response and send_response
NoResponse(s, m) ==
    /\ s.response = "NONE" /\ table' = s.table
    /\ Told(m, "NONE", NoIp, FALSE)
    /\ UNCHANGED <<server, current, route>>
Respond(s, m, ok, received) ==
    /\ s.response \in {"ACK", "NAK"} /\ table' = s.table
    /\ Told(m, s.response, s.ip, received) /\ Send(ok)
    /\ UNCHANGED current

\* The same with next_yiaddr: a client in the cache is offered its own address,
\* another one the next that is free, which is noted in the cache.
\* Faulty variant: it is not noted.
OfferKnown(s, m, ok, received) ==
    /\ s.response = "OFFER" /\ table' = s.table
    /\ Lookup(s.table, m.mac) # NoIp
    /\ Told(m, "OFFER", Lookup(s.table, m.mac), received) /\ Send(ok)
    /\ UNCHANGED current
OfferUnnoted(s, m, ok, received) ==
    /\ s.response = "OFFER" /\ Lookup(s.table, m.mac) = NoIp
    /\ \E ip \in NextIp(s.table, current) :
          /\ current' = ip /\ table' = s.table
          /\ Told(m, "OFFER", ip, received) /\ Send(ok)
OfferNew(s, m, ok, received) ==
    /\ s.response = "OFFER" /\ Lookup(s.table, m.mac) = NoIp
    /\ IF Free(s.table) = {}
       THEN /\ Goto("searching") /\ table' = s.table
            /\ UNCHANGED <<current, offered, leased, route>>
       ELSE \E ip \in NextIp(s.table, current) :
              /\ current' = ip /\ table' = Add(s.table, m.mac, ip)
              /\ Told(m, "OFFER", ip, received) /\ Send(ok)

\* process_dhcp_message
Handle(m, o) ==
    /\ Receives
    /\ LET s == Process(m, table, o)
       IN  \/ NoResponse(s, m)
           \/ \E ok \in BOOLEAN : \E received \in {FALSE, ok} :
                 \/ Respond(s, m, ok, received)
                 \/ OfferKnown(s, m, ok, received)
                 \/ OfferNew(s, m, ok, received)
    /\ UNCHANGED <<calls, shared, faults, early>>

\* reset_default_netif
ResetDefault ==
    /\ server = "reset" /\ Goto("recv") /\ netif' = "none"
    /\ UNCHANGED <<calls, shared, rfds, leases, sta, history>>

\* The control socket: HALT ends the loop.
\* Faulty variant: the socket is emptied on every turn, also when select did not
\* report it.
ReadCtrlAlways ==
    /\ server = "recv" /\ "dhcp" \notin rfds /\ rfds' = {}
    /\ halt' = FALSE /\ Goto(IF "ctrl" \in rfds THEN "clean" ELSE "select")
    /\ UNCHANGED <<calls, mutex, buf, open, leases, route, history>>
ReadCtrl ==
    /\ server = "recv" /\ "dhcp" \notin rfds /\ rfds' = {}
    /\ IF "ctrl" \in rfds THEN halt' = FALSE /\ Goto("clean")
                          ELSE UNCHANGED halt /\ Goto("select")
    /\ UNCHANGED <<calls, mutex, buf, open, leases, route, history>>

\* dhcp_clean_sockets, rtos_unlock_mutex and rtos_delete_thread(NULL)
ServerClean ==
    /\ server = "clean" /\ Goto("unlock") /\ open' = FALSE /\ halt' = FALSE
    /\ UNCHANGED <<calls, mutex, buf, rfds, leases, route, history>>
ServerUnlock ==
    /\ server = "unlock" /\ Goto("exit") /\ mutex' = "free"
    /\ UNCHANGED <<calls, buf, open, halt, rfds, leases, route, history>>
ServerExit ==
    /\ server = "exit" /\ Goto("ended")
    /\ UNCHANGED <<calls, shared, rfds, leases, route, history>>

Server ==
    \/ ServerLock \/ Select \/ Ignore \/ ResetDefault \/ ReadCtrl
    \/ ServerClean \/ ServerUnlock \/ ServerExit
    \/ \E m \in Message : \E o \in Orders(m) : Handle(m, o)

-----------------------------------------------------------------------------
(* uap_ip_start and uap_ip_down: dhcp_server_start and dhcp_server_stop. *)

\* uap_ip_start while the server is still running: it goes on as it is.
UpRunning ==
    /\ ctl = "idle" /\ ~flag /\ running
    /\ flag' = TRUE
    /\ UNCHANGED <<running, ctl, shared, thread, leases, route, history>>

\* dhcp_server_init clears dhcps, allocates the buffer, creates the mutex and
\* the two sockets.
Fresh ==
    /\ table' = <<>> /\ current' = 0
    /\ offered' = [c \in Client |-> NoIp] /\ leased' = [c \in Client |-> NoIp]
    /\ UNCHANGED messages
Up ==
    /\ ctl = "idle" /\ ~flag /\ ~running
    /\ flag' = TRUE /\ ctl' = "create"
    /\ mutex' = "free" /\ buf' = TRUE /\ open' = TRUE /\ halt' = FALSE
    /\ Fresh
    /\ UNCHANGED <<running, thread, route, history>>

\* One of these fails, or the thread cannot be created: what there was is
\* released again.  (A socket that the code leaks may make later starts fail.)
StartFails ==
    /\ \/ ctl = "idle" /\ ~flag /\ ~running /\ Fresh
       \/ ctl = "create" /\ UNCHANGED leases
    /\ flag' = TRUE /\ ctl' = "idle"
    /\ mutex' = "none" /\ buf' = FALSE /\ open' = FALSE /\ halt' = FALSE
    /\ Fail("start")
    /\ UNCHANGED <<running, thread, route, early, bad>>

Create ==
    /\ ctl = "create" /\ ctl' = "created"
    /\ server' = "ready" /\ rfds' = {}
    /\ UNCHANGED <<flag, running, shared, leases, route, history>>
Created ==
    /\ ctl = "created" /\ ctl' = "idle" /\ running' = TRUE
    /\ UNCHANGED <<flag, shared, thread, leases, route, history>>

\* uap_ip_down, and the test of dhcp_server_stop
Down ==
    /\ ctl = "idle" /\ flag
    /\ flag' = FALSE /\ ctl' = IF running THEN "halt" ELSE "idle"
    /\ UNCHANGED <<running, shared, thread, leases, route, history>>

\* dhcp_send_halt
SendHalt ==
    /\ ctl = "halt" /\ open
    /\ halt' = TRUE /\ ctl' = "lock"
    /\ UNCHANGED <<flag, running, mutex, buf, open, thread, leases, route, history>>
\* The sending fails, at least when the server has closed its sockets already.
SendHaltFails ==
    /\ ctl = "halt" /\ ctl' = "idle"
    /\ IF open THEN Fail("halt") ELSE UNCHANGED faults
    /\ UNCHANGED <<flag, running, shared, thread, leases, route, early, bad>>

\* dhcp_free_allocations
\* Faulty variant: it does not wait for the server to give the mutex back.
LockAtOnce ==
    /\ ctl = "lock" /\ ctl' = "close"
    /\ early' = (early \/ server = "ready")
    /\ UNCHANGED <<flag, running, shared, thread, leases, route, faults, bad>>
LockMutex ==
    /\ ctl = "lock" /\ mutex = "free"
    /\ mutex' = "caller" /\ ctl' = "close"
    /\ early' = (early \/ server = "ready")
    /\ UNCHANGED <<flag, running, buf, open, halt, thread, leases, route, faults, bad>>
CloseSockets ==
    /\ ctl = "close" /\ ctl' = "unlock"
    /\ open' = FALSE /\ halt' = FALSE
    /\ UNCHANGED <<flag, running, mutex, buf, thread, leases, route, history>>
UnlockMutex ==
    /\ ctl = "unlock" /\ ctl' = "free" /\ mutex' = "free"
    /\ UNCHANGED <<flag, running, buf, open, halt, thread, leases, route, history>>
FreeBuffer ==
    /\ ctl = "free" /\ ctl' = "deinit" /\ buf' = FALSE
    /\ UNCHANGED <<flag, running, mutex, open, halt, thread, leases, route, history>>
\* The mutex is deleted under a server that holds it only after an early stop.
DeinitMutex ==
    /\ ctl = "deinit" /\ ctl' = "finished"
    /\ mutex' = "none"
    /\ IF mutex = "free" THEN UNCHANGED bad ELSE Misuse("mutex")
    /\ UNCHANGED <<flag, running, buf, open, halt, thread, leases, route, faults, early>>

\* rtos_delete_thread: xTaskIsTaskFinished looks into the thread's control
\* block, and vTaskDelete follows when the thread is in no list of live ones.
IsFinished ==
    /\ ctl = "finished"
    /\ ctl' = IF Alive THEN "delete" ELSE "stopped"
    /\ IF server = "freed" THEN Misuse("freed") ELSE UNCHANGED bad
    /\ UNCHANGED <<flag, running, shared, thread, leases, route, faults, early>>
DeleteThread ==
    /\ ctl = "delete" /\ ctl' = "stopped"
    /\ server' = "none" /\ rfds' = {}
    /\ IF Alive THEN UNCHANGED bad ELSE Misuse("deleted twice")
    /\ UNCHANGED <<flag, running, shared, leases, route, faults, early>>
\* Faulty variant: dhcpd_running is not reset.
StoppedStill ==
    /\ ctl = "stopped" /\ ctl' = "idle"
    /\ UNCHANGED <<flag, running, shared, thread, leases, route, history>>
Stopped ==
    /\ ctl = "stopped" /\ ctl' = "idle" /\ running' = FALSE
    /\ UNCHANGED <<flag, shared, thread, leases, route, history>>

Stop ==
    \/ LockMutex \/ CloseSockets \/ UnlockMutex \/ FreeBuffer \/ DeinitMutex
    \/ IsFinished \/ DeleteThread \/ Stopped
Caller ==
    \/ UpRunning \/ Up \/ StartFails \/ Create \/ Created \/ Down
    \/ SendHalt \/ SendHaltFails \/ Stop

-----------------------------------------------------------------------------
(* The others. *)

\* The idle task frees the control block of a thread that has deleted itself.
\* It has the lowest priority.
Waits == ctl = "idle" \/ (ctl = "lock" /\ mutex # "free")
Idle ==
    /\ server = "ended" /\ Waits /\ Goto("freed")
    /\ UNCHANGED <<calls, shared, rfds, leases, route, history>>

\* net_configure_address makes the station's interface the default;
\* net_wlan_remove_netif takes it away.
StationUp ==
    /\ ~sta /\ sta' = TRUE /\ netif' = "sta"
    /\ UNCHANGED <<calls, shared, thread, leases, history>>
StationDown ==
    /\ sta /\ sta' = FALSE /\ netif' = IF netif = "sta" THEN "none" ELSE netif
    /\ UNCHANGED <<calls, shared, thread, leases, history>>

Init ==
    /\ flag = FALSE /\ running = FALSE /\ ctl = "idle"
    /\ mutex = "none" /\ buf = FALSE /\ open = FALSE /\ halt = FALSE
    /\ server = "none" /\ rfds = {}
    /\ table = <<>> /\ current = 0 /\ messages = 0
    /\ offered = [c \in Client |-> NoIp] /\ leased = [c \in Client |-> NoIp]
    /\ netif = "none" /\ sta = FALSE
    /\ faults = {} /\ early = FALSE /\ bad = {}

\* Once something has been used after its end nothing can be said of the
\* program.
Next ==
    /\ bad = {}
    /\ Server \/ SelectFails \/ Caller \/ Idle \/ StationUp \/ StationDown
Spec == Init /\ [][Next]_vars

\* The two threads go on when they can.  Nothing is assumed of clients, of
\* failures, nor of the calls themselves.
FairSpec ==
    /\ Spec
    /\ WF_vars(bad = {} /\ Server)
    /\ WF_vars(bad = {} /\ (Create \/ Created \/ SendHalt \/ SendHaltFails \/ Stop))

-----------------------------------------------------------------------------
(* Properties. *)

Entry == [mac : Client, ip : Host]
DTypeOK ==
    /\ flag \in BOOLEAN /\ running \in BOOLEAN
    /\ ctl \in {"idle", "create", "created", "halt", "lock", "close", "unlock",
                "free", "deinit", "finished", "delete", "stopped"}
    /\ mutex \in {"none", "free", "server", "caller"}
    /\ buf \in BOOLEAN /\ open \in BOOLEAN /\ halt \in BOOLEAN
    /\ server \in {"none", "ready", "select", "recv", "reset", "searching", "clean",
                   "unlock", "exit", "ended", "freed"}
    /\ rfds \subseteq {"dhcp", "ctrl"}
    /\ table \in Seq(Entry) /\ Len(table) <= CacheSize
    /\ current \in Host /\ messages \in 0..MaxMessages
    /\ offered \in [Client -> Host \cup {NoIp}]
    /\ leased \in [Client -> Host \cup {NoIp}]
    /\ netif \in {"none", "sta", "ap"} /\ sta \in BOOLEAN
    /\ faults \subseteq {"start", "halt", "select"}
    /\ early \in BOOLEAN
    /\ bad \subseteq {"mutex", "socket", "buffer", "freed", "deleted twice"}

\* Two clients use the same address only when both of them came after the cache
\* was full, so that neither is in it; and nobody is given the server's address,
\* nor the network's or the broadcast address.
LeasesAreUnique ==
    \A c \in Client : leased[c] # NoIp =>
        /\ leased[c] \notin {0, MyIp, Size - 1}
        /\ \A d \in Client \ {c} : leased[d] = leased[c] =>
              /\ ~Has(table, c) /\ ~Has(table, d)
              /\ Len(table) = CacheSize

\* A client that asks for the address it was offered will be given it, whatever
\* the others have asked for in between.
Ask(c, a) == [mac |-> c, type |-> "REQUEST", ciaddr |-> NoIp, requested |-> a]
OfferIsHonoured ==
    \A c \in Client : offered[c] # NoIp =>
        \A o \in {<<"type", "requested">>, <<"requested", "type">>} :
            LET s == Process(Ask(c, offered[c]), table, o)
            IN  s.response = "ACK" /\ s.ip = offered[c]

\* The search for a free address ends: the server is never caught in it.
SearchEnds == server # "searching"

\* From the start of the server to its end nobody uses a socket, the buffer, the
\* mutex or the thread itself once it is gone; but for a server stopped before it
\* has taken the mutex, and for the moment between xTaskIsTaskFinished and
\* vTaskDelete, in which the server may delete itself.
StopIsClean == ~early => bad \subseteq {"deleted twice"}

\* An access point that is up has a server that serves, unless the server could
\* not be started, or its select failed.  A HALT that could not be sent does no
\* harm.
ServedWhenUp ==
    ctl = "idle" /\ flag /\ bad = {} /\ faults \subseteq {"halt"} =>
        running /\ Alive /\ open /\ buf /\ mutex # "none"

\* No HALT gets lost: while dhcp_free_allocations waits for the mutex, which it
\* does without a timeout, the mutex is free, or the server that holds it has the
\* HALT still before it or is on its way out.
HaltIsSeen ==
    ctl = "lock" /\ bad = {} =>
        \/ mutex = "free"
        \/ server \in {"select", "recv", "reset"} /\ halt
        \/ server \in {"clean", "unlock"}

\* uap_ip_start and uap_ip_down return, however many messages clients send.
CallsReturn == (ctl # "idle") ~> (ctl = "idle" \/ bad # {})

\* dhcp-server.c:275, "rest default netif to sta's netif", and net.c:384, "as the
\* default netif is sta's netif": when send_response is done, the station's
\* interface is the default one, if the station is up.
StationIsDefault ==
    [][server = "reset" /\ server' = "recv" /\ sta => netif' = "sta"]_vars
=============================================================================
