-------------------------------- MODULE RwMsg --------------------------------
(***************************************************************************)
(* Requests of the host to the MAC and their confirmations,                *)
(* func/rwnx_intf/rw_msg_tx.c and rw_msg_rx.c.                             *)
(*                                                                         *)
(* rw_msg_send puts a node on rw_msg_tx_head, hands its request to the     *)
(* core thread's queue and waits up to five seconds on the node's          *)
(* semaphore.  The MAC's answers are put on rw_msg_rx_head by the core     *)
(* thread; the kmsg thread takes them off, looks the node up by the        *)
(* identity of the confirmation and gives its semaphore.                   *)
(*                                                                         *)
(* The node is allocated and freed by the sender and used by the kmsg      *)
(* thread, outside the lock: what keeps the kmsg thread from using a freed *)
(* node is only that the senders' threads have a lower priority than its   *)
(* own (see Runs).                                                         *)
(***************************************************************************)
EXTENDS Naturals, Sequences, FiniteSets

CONSTANTS Sender,       \* the threads that call rw_msg_send with a cfm
          ReqOf,        \* ReqOf[s]: the reqid of the sender's requests
          Ind,          \* a message of the MAC that answers no request
          MaxSends,     \* bound on the calls of rw_msg_send
          MaxTimeouts,  \* bound on the timeouts
          MaxFails,     \* bound on the sends refused by a full core queue
          MaxInds       \* bound on the indications of the MAC

ASSUME SenderAssumption == Ind \notin [by : Sender, n : Nat]
ASSUME BoundAssumption ==
    {MaxSends, MaxTimeouts, MaxFails, MaxInds} \subseteq Nat

VARIABLES
    spc,        \* where each sender stands in rw_msg_send
    node,       \* the tx_msg of each sender's current or last call
    sends,      \* calls so far; numbers the nodes in the order of the list
    tx,         \* rw_msg_tx_head: the nodes on it
    alive,      \* the nodes that are allocated
    sema,       \* the nodes whose semaphore is given
    cfm,        \* the request whose confirmation is in the sender's buffer
    io_queue,   \* the core thread's queue: the requests in it
    mac,        \* the requests the MAC has and has not answered
    rx,         \* rw_msg_rx_head: the messages of the MAC
    app_sema,   \* is the kmsg thread's semaphore given?
    kpc,        \* where the kmsg thread stands in rwnx_recv_msg
    rx_msg,     \* the message it has taken
    tx_msg,     \* the node it has found
    inds,       \* indications so far
    late,       \* nodes of the sends that timed out
    failed      \* nodes of the sends that the core queue refused

lists == <<tx, alive, sema>>
senders == <<spc, node, sends, late, failed>>
kmsg == <<kpc, rx_msg, tx_msg>>
bus == <<io_queue, mac, inds>>
vars == <<senders, lists, cfm, bus, rx, app_sema, kmsg>>

\* A node, and with it the request and its confirmation: whose and which one.
Node == [by : Sender, n : Nat]
NoNode(s) == [by |-> s, n |-> 0]
Msg == Node \cup {Ind}

\* The kmsg thread has the higher priority (6; the senders' are 4, 5 and
\* below): a sender runs only while it waits for its semaphore, or while it is
\* in a handler, which may block.
\* Faulty variant: a sender whose priority is higher.
RunsAnyTime == TRUE
Runs == kpc \in {"sleep", "handle"}

-----------------------------------------------------------------------------
(* rw_msg_send. *)

\* The node is allocated and put at the end of the list.
SendList(s) ==
    /\ spc[s] = "idle" /\ Runs /\ sends < MaxSends
    /\ sends' = sends + 1
    /\ node' = [node EXCEPT ![s] = [by |-> s, n |-> sends + 1]]
    /\ alive' = alive \cup {node'[s]}
    /\ tx' = tx \cup {node'[s]}
    /\ cfm' = [cfm EXCEPT ![s] = NoNode(s)]
    /\ spc' = [spc EXCEPT ![s] = "listed"]
    /\ UNCHANGED <<sema, late, failed, bus, rx, app_sema, kmsg>>

\* bmsg_ioctl_sender does not wait for a place in the core queue.
SendQueue(s) ==
    /\ spc[s] = "listed" /\ Runs
    /\ io_queue' = Append(io_queue, node[s])
    /\ spc' = [spc EXCEPT ![s] = "waiting"]
    /\ UNCHANGED <<node, sends, late, failed, lists, cfm, mac, inds, rx,
                   app_sema, kmsg>>

\* The queue is full: the node is freed below and stays on the list.
SendFails(s) ==
    /\ spc[s] = "listed" /\ Runs
    /\ Cardinality(failed) < MaxFails
    /\ failed' = failed \cup {node[s]}
    /\ spc' = [spc EXCEPT ![s] = "giving_up"]
    /\ UNCHANGED <<node, sends, late, lists, cfm, bus, rx, app_sema, kmsg>>

TakeSemaphore(s) ==
    /\ spc[s] = "waiting" /\ Runs /\ node[s] \in sema
    /\ sema' = sema \ {node[s]}
    /\ spc' = [spc EXCEPT ![s] = "confirmed"]
    /\ UNCHANGED <<node, sends, late, failed, tx, alive, cfm, bus, rx, app_sema,
                   kmsg>>

\* rtos_get_semaphore gives up only if the semaphore is not given by the time
\* the sender runs again.
Timeout(s) ==
    /\ spc[s] = "waiting" /\ Runs /\ node[s] \notin sema
    /\ Cardinality(late) < MaxTimeouts
    /\ late' = late \cup {node[s]}
    /\ spc' = [spc EXCEPT ![s] = "timed_out"]
    /\ UNCHANGED <<node, sends, failed, lists, cfm, bus, rx, app_sema, kmsg>>

\* Faulty variant of Extract: the node stays on the list after a timeout.
ExtractForgotten(s) ==
    /\ spc[s] = "timed_out" /\ Runs
    /\ spc' = [spc EXCEPT ![s] = "giving_up"]
    /\ UNCHANGED <<node, sends, late, failed, lists, cfm, bus, rx, app_sema, kmsg>>

\* After a timeout the node is taken off the list, if it is still there.
Extract(s) ==
    /\ spc[s] = "timed_out" /\ Runs
    /\ tx' = tx \ {node[s]}
    /\ spc' = [spc EXCEPT ![s] = "giving_up"]
    /\ UNCHANGED <<node, sends, late, failed, alive, sema, cfm, bus, rx, app_sema,
                   kmsg>>

\* Both ways out delete the semaphore and free the node.
Free(s) ==
    /\ spc[s] \in {"confirmed", "giving_up"} /\ Runs
    /\ alive' = alive \ {node[s]}
    /\ sema' = sema \ {node[s]}
    /\ spc' = [spc EXCEPT ![s] = "idle"]
    /\ UNCHANGED <<node, sends, late, failed, tx, cfm, bus, rx, app_sema, kmsg>>

-----------------------------------------------------------------------------
(* The core thread and the MAC. *)

\* bmsg_ioctl_handler: ke_msg_send.
CoreForward ==
    /\ io_queue # <<>>
    /\ mac' = mac \cup {Head(io_queue)}
    /\ io_queue' = Tail(io_queue)
    /\ UNCHANGED <<senders, lists, cfm, inds, rx, app_sema, kmsg>>

\* mr_kmsg_fwd: the message goes on the list, the kmsg thread is woken.
Fwd(m) ==
    /\ rx' = Append(rx, m)
    /\ app_sema' = TRUE

Confirm(m) ==
    /\ m \in mac
    /\ mac' = mac \ {m}
    /\ Fwd(m)
    /\ UNCHANGED <<senders, lists, cfm, io_queue, inds, kmsg>>

Indicate ==
    /\ inds < MaxInds
    /\ inds' = inds + 1
    /\ Fwd(Ind)
    /\ UNCHANGED <<senders, lists, cfm, io_queue, mac, kmsg>>

-----------------------------------------------------------------------------
(* The kmsg thread: rwnx_recv_msg. *)

KmsgWake ==
    /\ kpc = "sleep" /\ app_sema
    /\ app_sema' = FALSE
    /\ kpc' = "pop"
    /\ UNCHANGED <<senders, lists, cfm, bus, rx, rx_msg, tx_msg>>

\* Faulty variant of KmsgPop: an empty list is not noticed.
KmsgPopUnchecked ==
    /\ kpc = "pop"
    /\ kpc' = "match"
    /\ IF rx = <<>>
       THEN rx_msg' = [n |-> 0] /\ UNCHANGED rx
       ELSE rx_msg' = Head(rx) /\ rx' = Tail(rx)
    /\ UNCHANGED <<senders, lists, cfm, bus, app_sema, tx_msg>>

\* Faulty variant of KmsgPop: the list is not protected, and a message that is
\* forwarded while the only one is taken off is lost with it.
KmsgPopUnlocked ==
    /\ kpc = "pop"
    /\ \/ rx = <<>> /\ kpc' = "sleep" /\ UNCHANGED <<rx, rx_msg, mac, app_sema>>
       \/ /\ rx # <<>>
          /\ kpc' = "match" /\ rx_msg' = Head(rx) /\ rx' = Tail(rx)
          /\ UNCHANGED <<mac, app_sema>>
       \/ /\ Len(rx) = 1 /\ mac # {}
          /\ kpc' = "match" /\ rx_msg' = Head(rx) /\ rx' = <<>>
          /\ \E m \in mac : mac' = mac \ {m}
          /\ app_sema' = TRUE
    /\ UNCHANGED <<senders, lists, cfm, io_queue, inds, tx_msg>>

\* One step, although rwnx_recv_msg takes the message off outside
\* GLOBAL_INT_DISABLE: co_list_pop_front masks FIQ and IRQ itself around the two
\* accesses to the list's head, as co_list_push_back does (co_list.o of the
\* librwnx.a that is linked; co_list_pick, _next and _extract do not, and their
\* callers mask the interrupts).
KmsgPop ==
    /\ kpc = "pop"
    /\ IF rx = <<>>
       THEN kpc' = "sleep" /\ UNCHANGED <<rx, rx_msg>>
       ELSE kpc' = "match" /\ rx_msg' = Head(rx) /\ rx' = Tail(rx)
    /\ UNCHANGED <<senders, lists, cfm, bus, app_sema, tx_msg>>

\* Faulty variant: any confirmation is taken for the oldest request.
WaitsAny(t) == rx_msg # Ind
\* rx_msg->id == tx_msg->reqid.
Waits(t) == rx_msg # Ind /\ ReqOf[t.by] = ReqOf[rx_msg.by]

\* The list is walked from its head, the oldest node.  What the walk reads from
\* a node that has been freed is arbitrary: it may match any message.
KmsgMatch ==
    /\ kpc = "match"
    /\ LET Matching == {t \in tx \cap alive : Waits(t)}
       IN  \/ /\ Matching = {}
              /\ kpc' = "handle" /\ UNCHANGED tx_msg
           \/ /\ tx_msg' \in {t \in (tx \ alive) \cup Matching :
                                 \A u \in Matching : t.n <= u.n}
              /\ kpc' = "found"
    /\ UNCHANGED <<senders, lists, cfm, bus, rx, app_sema, rx_msg>>

KmsgExtract ==
    /\ kpc = "found"
    /\ tx' = tx \ {tx_msg}
    /\ kpc' = "give"
    /\ UNCHANGED <<senders, alive, sema, cfm, bus, rx, app_sema, rx_msg, tx_msg>>

\* Where rwnx_recv_msg goes on when it is done with a message.
\* Faulty variant: one message per wake-up.
NextMessageSleeps == "sleep"
NextMessage == "pop"

\* The copy into the sender's buffer and the semaphore.
Give(t) ==
    /\ cfm' = [cfm EXCEPT ![t.by] = rx_msg]
    /\ sema' = sema \cup {t}

\* When the node has been freed, its memory holds nothing of use or belongs to
\* another node by now.
KmsgGive ==
    /\ kpc = "give"
    /\ \/ tx_msg \in alive /\ Give(tx_msg)
       \/ tx_msg \notin alive /\ UNCHANGED <<cfm, sema>>
       \/ tx_msg \notin alive /\ \E t \in alive : Give(t)
    /\ kpc' = NextMessage
    /\ UNCHANGED <<senders, tx, alive, bus, rx, app_sema, rx_msg, tx_msg>>

\* rwnx_handle_recv_msg: nobody waits for the message.
KmsgHandle ==
    /\ kpc = "handle"
    /\ kpc' = NextMessage
    /\ UNCHANGED <<senders, lists, cfm, bus, rx, app_sema, rx_msg, tx_msg>>

-----------------------------------------------------------------------------
Init ==
    /\ spc = [s \in Sender |-> "idle"]
    /\ node = [s \in Sender |-> NoNode(s)]
    /\ sends = 0
    /\ tx = {} /\ alive = {} /\ sema = {}
    /\ cfm = [s \in Sender |-> NoNode(s)]
    /\ io_queue = <<>> /\ mac = {} /\ rx = <<>> /\ app_sema = FALSE
    /\ kpc = "sleep" /\ rx_msg = Ind /\ tx_msg = Ind
    /\ inds = 0 /\ late = {} /\ failed = {}

SenderStep(s) ==
    \/ SendList(s) \/ SendQueue(s) \/ SendFails(s) \/ TakeSemaphore(s)
    \/ Timeout(s) \/ Extract(s) \/ Free(s)
Kmsg ==
    KmsgWake \/ KmsgPop \/ KmsgMatch \/ KmsgExtract \/ KmsgGive \/ KmsgHandle
Next ==
    \/ \E s \in Sender : SenderStep(s)
    \/ CoreForward \/ Indicate \/ \E m \in mac : Confirm(m)
    \/ Kmsg
Spec == Init /\ [][Next]_vars

\* The scheduler runs every thread that can run, the MAC answers every request;
\* nothing makes a caller call again, and no timeout has to happen.
Fairness ==
    /\ \A s \in Sender : WF_vars(\/ SendQueue(s) \/ TakeSemaphore(s)
                                 \/ Extract(s) \/ Free(s))
    /\ WF_vars(CoreForward)
    /\ WF_vars(\E m \in mac : Confirm(m))
    /\ WF_vars(Kmsg)
LiveSpec == Spec /\ Fairness

-----------------------------------------------------------------------------
(* Properties. *)

Pc == {"idle", "listed", "waiting", "confirmed", "timed_out", "giving_up"}
KPc == {"sleep", "pop", "match", "found", "give", "handle"}

\* Every variable has its type: in particular a node is always found again under
\* the sender that made it, and no node is numbered beyond the calls made.
RTypeOK ==
    /\ spc \in [Sender -> Pc]
    /\ sends \in 0..MaxSends
    /\ node \in [Sender -> Node]
    /\ \A s \in Sender : node[s].by = s /\ node[s].n <= sends
    /\ tx \subseteq Node /\ alive \subseteq Node /\ sema \subseteq Node
    /\ \A t \in tx \cup alive \cup sema : t.n <= sends
    /\ cfm \in [Sender -> Msg]
    /\ io_queue \in Seq(Node) /\ mac \subseteq Node /\ rx \in Seq(Msg)
    /\ app_sema \in BOOLEAN
    /\ kpc \in KPc /\ rx_msg \in Msg /\ tx_msg \in Msg
    /\ inds \in 0..MaxInds /\ late \subseteq Node /\ failed \subseteq Node

\* As long as the core queue has refused no request, every node on
\* rw_msg_tx_head, and the node the kmsg thread is working on, is allocated:
\* rw_msg_send frees a node only after one of the two has taken it off.
NodesLiveUntilFailure ==
    failed = {} => /\ tx \subseteq alive
                   /\ kpc \in {"found", "give"} => tx_msg \in alive

\* As long as the core queue has refused no request, rtos_set_semaphore
\* succeeds (rw_msg_rx.c:669-670): the node is still there, and nobody has
\* given its semaphore, whose count is at most one, before.
GiveSucceeds ==
    failed = {} /\ kpc = "give" => tx_msg \in alive /\ tx_msg \notin sema

\* A sender that returns with a confirmation has the one of its own request,
\* unless a request with the same reqid timed out before: its late confirmation
\* answers the next one, whose own confirmation answers the one after that.
OwnConfirmation ==
    failed = {} =>
        \A s \in Sender : spc[s] = "confirmed" =>
            \/ cfm[s] = node[s]
            \/ \E t \in late : t.n < node[s].n /\ ReqOf[t.by] = ReqOf[s]

\* Nobody waits for nothing: as long as the core queue has refused no request, a
\* sender that waits can go on, or its answer is still coming and somebody on its
\* way has been told: the core thread has a message, the MAC a request, or the
\* kmsg thread is at work or woken.
AnswerIsComing ==
    failed = {} =>
        \A s \in Sender : spc[s] = "waiting" =>
            \/ node[s] \in sema
            \/ io_queue # <<>> \/ mac # {}
            \/ kpc # "sleep" \/ app_sema

\* Unless the core queue refuses a request, every sender that waits returns in
\* the end, although many messages may share one wake-up of the kmsg thread and
\* no timeout helps.
ConfirmArrives ==
    \A s \in Sender :
        spc[s] = "waiting" ~> spc[s] = "idle" \/ failed # {}
=============================================================================
