----------------------------- MODULE RwMsgProofs -----------------------------
(***************************************************************************)
(* Proofs about RwMsg, for every set of senders, every assignment of       *)
(* request identities and all bounds.                                      *)
(***************************************************************************)
EXTENDS RwMsg, TLAPS

\* A sender still needs its node, so that nobody may have freed it.
Holds(t) == /\ spc[t.by] \in {"listed", "waiting", "timed_out"}
            /\ node[t.by] = t

\* The inductive strengthening of NodesLiveUntilFailure and GiveSucceeds.  A node
\* on the list belongs to a call that has not yet been answered; a node whose
\* semaphore is given has left the list; and the node that the kmsg thread has
\* taken off is still held, since no sender runs before its semaphore is given.
Ownership ==
    /\ \A s \in Sender : spc[s] # "idle" => node[s] \in alive
    /\ \A t \in tx : Holds(t) /\ t \notin sema
    /\ kpc = "found" => tx_msg \in tx
    /\ kpc = "give" => /\ tx_msg \in Node /\ Holds(tx_msg)
                       /\ tx_msg \notin tx /\ tx_msg \notin sema

OwnershipUntilFailure == failed = {} => Ownership

-----------------------------------------------------------------------------
LEMMA InitType == Init => RTypeOK
<1> SUFFICES ASSUME Init PROVE RTypeOK
  OBVIOUS
<1>1. \A s \in Sender : NoNode(s) \in Node /\ NoNode(s).by = s /\ NoNode(s).n = 0
  BY DEF NoNode, Node
<1>2. sends \in 0..MaxSends /\ inds \in 0..MaxInds
  BY BoundAssumption DEF Init
<1>3. node \in [Sender -> Node] /\ cfm \in [Sender -> Msg]
  BY <1>1 DEF Init, Msg
<1>4. \A s \in Sender : node[s].by = s /\ node[s].n <= sends
  BY <1>1 DEF Init
<1>5. rx_msg \in Msg /\ tx_msg \in Msg
  BY DEF Init, Msg
<1>6. spc \in [Sender -> Pc] /\ kpc \in KPc
  BY DEF Init, Pc, KPc
<1>7. io_queue \in Seq(Node) /\ rx \in Seq(Msg)
  BY DEF Init
<1>8. app_sema \in BOOLEAN
  BY DEF Init
<1> QED BY <1>2, <1>3, <1>4, <1>5, <1>6, <1>7, <1>8 DEF Init, RTypeOK

LEMMA SenderType ==
    ASSUME RTypeOK, NEW s \in Sender, SenderStep(s)
    PROVE  RTypeOK'
<1> USE BoundAssumption DEF RTypeOK, lists, bus, kmsg, Pc
<1>1. CASE SendList(s)
  <2>1. [by |-> s, n |-> sends + 1] \in Node /\ NoNode(s) \in Node
    BY DEF Node, NoNode
  <2>2. sends' \in 0..MaxSends
    BY <1>1 DEF SendList
  <2>3. node' \in [Sender -> Node] /\ cfm' \in [Sender -> Msg]
    BY <1>1, <2>1 DEF SendList, Msg
  <2>4. \A r \in Sender : node'[r].by = r /\ node'[r].n <= sends'
    BY <1>1, <2>1 DEF SendList, Node
  <2>5. \A t \in tx' \cup alive' \cup sema' : t \in Node /\ t.n <= sends'
    BY <1>1, <2>1, <2>4 DEF SendList, Node
  <2> QED BY <1>1, <2>2, <2>3, <2>4, <2>5 DEF SendList
<1>2. CASE SendQueue(s) BY <1>2 DEF SendQueue
<1>3. CASE SendFails(s) BY <1>3 DEF SendFails
<1>4. CASE TakeSemaphore(s) BY <1>4 DEF TakeSemaphore
<1>5. CASE Timeout(s) BY <1>5 DEF Timeout
<1>6. CASE Extract(s) BY <1>6 DEF Extract
<1>7. CASE Free(s) BY <1>7 DEF Free
<1> QED BY <1>1, <1>2, <1>3, <1>4, <1>5, <1>6, <1>7 DEF SenderStep

LEMMA KmsgType ==
    ASSUME RTypeOK, Kmsg
    PROVE  RTypeOK'
<1> USE DEF RTypeOK, senders, lists, bus, KPc
<1>1. CASE KmsgWake BY <1>1 DEF KmsgWake
<1>2. CASE KmsgPop BY <1>2 DEF KmsgPop
<1>3. CASE KmsgMatch BY <1>3 DEF KmsgMatch, Msg
<1>4. CASE KmsgExtract BY <1>4 DEF KmsgExtract
<1>5. CASE KmsgGive
  <2>1. \A t \in alive : Give(t) => /\ cfm' \in [Sender -> Msg]
                                    /\ sema' \subseteq Node
                                    /\ \A u \in sema' : u.n <= sends
    BY DEF Give
  <2> QED BY <1>5, <2>1 DEF KmsgGive, NextMessage
<1>6. CASE KmsgHandle BY <1>6 DEF KmsgHandle, NextMessage
<1> QED BY <1>1, <1>2, <1>3, <1>4, <1>5, <1>6 DEF Kmsg

LEMMA NextType ==
    ASSUME RTypeOK, [Next]_vars
    PROVE  RTypeOK'
<1> USE BoundAssumption DEF senders, lists, bus, kmsg
<1>1. CASE \E s \in Sender : SenderStep(s) BY <1>1, SenderType
<1>2. CASE CoreForward BY <1>2 DEF RTypeOK, CoreForward
<1>3. CASE Indicate BY <1>3 DEF RTypeOK, Indicate, Fwd, Msg
<1>4. CASE \E m \in mac : Confirm(m) BY <1>4 DEF RTypeOK, Confirm, Fwd, Msg
<1>5. CASE Kmsg BY <1>5, KmsgType
<1>6. CASE UNCHANGED vars BY <1>6 DEF vars, RTypeOK
<1> QED BY <1>1, <1>2, <1>3, <1>4, <1>5, <1>6 DEF Next

-----------------------------------------------------------------------------
\* The senders' steps.  Those of SendList, TakeSemaphore, Extract and Free run
\* only while the kmsg thread has no node in hand (Runs).
LEMMA SenderOwnership ==
    ASSUME RTypeOK, Ownership, NEW s \in Sender, SenderStep(s), failed' = {}
    PROVE  Ownership'
<1> USE DEF RTypeOK, Ownership, Holds, lists, kmsg, Pc, Node
<1>1. CASE SendList(s)
  <2>1. node'[s] \notin sema /\ node'[s].by = s /\ spc'[s] = "listed"
    BY <1>1 DEF SendList
  <2>2. \A t \in tx : t.by # s
    BY <1>1 DEF SendList
  <2>3. \A t \in tx' : Holds(t)' /\ t \notin sema'
    BY <1>1, <2>1, <2>2 DEF SendList
  <2> QED BY <1>1, <2>1, <2>3 DEF SendList, Runs
<1>2. CASE SendQueue(s) BY <1>2 DEF SendQueue, Runs
<1>3. CASE SendFails(s) BY <1>3 DEF SendFails
<1>4. CASE TakeSemaphore(s) BY <1>4 DEF TakeSemaphore, Runs
<1>5. CASE Timeout(s) BY <1>5 DEF Timeout, Runs
<1>6. CASE Extract(s)
  <2>1. \A t \in tx' : t \in tx /\ t.by # s
    BY <1>6 DEF Extract
  <2> QED BY <1>6, <2>1 DEF Extract, Runs
<1>7. CASE Free(s)
  <2>1. \A t \in tx : t.by # s
    BY <1>7 DEF Free
  <2>2. \A r \in Sender : r # s => node[r] # node[s]
    OBVIOUS
  <2> QED BY <1>7, <2>1, <2>2 DEF Free, Runs
<1> QED BY <1>1, <1>2, <1>3, <1>4, <1>5, <1>6, <1>7 DEF SenderStep

LEMMA KmsgOwnership ==
    ASSUME RTypeOK, Ownership, Kmsg
    PROVE  Ownership'
<1> USE DEF RTypeOK, Ownership, Holds, senders, lists
<1>1. CASE KmsgWake BY <1>1 DEF KmsgWake
<1>2. CASE KmsgPop BY <1>2 DEF KmsgPop
<1>3. CASE KmsgMatch BY <1>3 DEF KmsgMatch
<1>4. CASE KmsgExtract BY <1>4 DEF KmsgExtract
<1>5. CASE KmsgGive
  <2>1. tx_msg \in alive
    BY <1>5 DEF KmsgGive, Node
  <2> QED BY <1>5, <2>1 DEF KmsgGive, Give, NextMessage
<1>6. CASE KmsgHandle BY <1>6 DEF KmsgHandle, NextMessage
<1> QED BY <1>1, <1>2, <1>3, <1>4, <1>5, <1>6 DEF Kmsg

\* No step takes a node out of failed.
LEMMA FailedGrows ==
    ASSUME [Next]_vars
    PROVE  failed \subseteq failed'
BY DEF Next, vars, senders, SenderStep, SendList, SendQueue, SendFails,
       TakeSemaphore, Timeout, Extract, Free, CoreForward, Indicate, Confirm, Kmsg,
       KmsgWake, KmsgPop, KmsgMatch, KmsgExtract, KmsgGive, KmsgHandle

LEMMA NextOwnership ==
    ASSUME RTypeOK, OwnershipUntilFailure, [Next]_vars
    PROVE  OwnershipUntilFailure'
<1> SUFFICES ASSUME failed' = {} PROVE Ownership'
  BY DEF OwnershipUntilFailure
<1>0. Ownership
  BY FailedGrows DEF OwnershipUntilFailure
<1> USE DEF Ownership, Holds, senders, lists, kmsg
<1>1. CASE \E s \in Sender : SenderStep(s) BY <1>0, <1>1, SenderOwnership
<1>2. CASE CoreForward BY <1>0, <1>2 DEF CoreForward
<1>3. CASE Indicate BY <1>0, <1>3 DEF Indicate
<1>4. CASE \E m \in mac : Confirm(m) BY <1>0, <1>4 DEF Confirm
<1>5. CASE Kmsg BY <1>0, <1>5, KmsgOwnership
<1>6. CASE UNCHANGED vars BY <1>0, <1>6 DEF vars
<1> QED BY <1>1, <1>2, <1>3, <1>4, <1>5, <1>6 DEF Next

-----------------------------------------------------------------------------
\* Every variable keeps its type.
THEOREM MessageTypes == Spec => []RTypeOK
<1>1. Init => RTypeOK BY InitType
<1>2. RTypeOK /\ [Next]_vars => RTypeOK' BY NextType
<1> QED BY <1>1, <1>2, PTL DEF Spec

LEMMA OwnershipInvariant == Spec => [](RTypeOK /\ OwnershipUntilFailure)
<1>1. Init => OwnershipUntilFailure
  BY DEF Init, OwnershipUntilFailure, Ownership
<1>2. RTypeOK /\ OwnershipUntilFailure /\ [Next]_vars => OwnershipUntilFailure'
  BY NextOwnership
<1> QED BY <1>1, <1>2, MessageTypes, PTL DEF Spec

\* While the core queue refuses nothing, the kmsg thread and rw_msg_tx_head hold
\* no node that rw_msg_send has freed, whatever times out and however late the
\* MAC answers.
THEOREM NodesAreLive == Spec => []NodesLiveUntilFailure
<1>1. RTypeOK /\ OwnershipUntilFailure => NodesLiveUntilFailure
  <2> SUFFICES ASSUME RTypeOK, Ownership
               PROVE  /\ tx \subseteq alive
                      /\ kpc \in {"found", "give"} => tx_msg \in alive
    BY DEF OwnershipUntilFailure, NodesLiveUntilFailure
  <2>1. \A t \in Node : Holds(t) => t \in alive
    BY DEF Ownership, Holds, Node
  <2> QED BY <2>1 DEF RTypeOK, Ownership
<1> QED BY <1>1, OwnershipInvariant, PTL

\* Until the core queue refuses a request, the assertion after
\* rtos_set_semaphore in rwnx_recv_msg holds.
THEOREM GiveSucceedsUntilFailure == Spec => []GiveSucceeds
<1>1. RTypeOK /\ OwnershipUntilFailure => GiveSucceeds
  BY DEF RTypeOK, OwnershipUntilFailure, Ownership, Holds, Node, GiveSucceeds
<1> QED BY <1>1, OwnershipInvariant, PTL

-----------------------------------------------------------------------------
(* The confirmation of one's own request. *)

In(q, m) == \E i \in 1..Len(q) : q[i] = m
Once(q, m) == \A i, j \in 1..Len(q) : q[i] = m /\ q[j] = m => i = j

\* The request or its confirmation is still on its way to the list of nodes.
UnderWay(m) ==
    In(io_queue, m) \/ m \in mac \/ In(rx, m) \/ (kpc = "match" /\ rx_msg = m)

\* No other thread has requests of the kind of this one's.
Alone(s) == \A r \in Sender : ReqOf[r] = ReqOf[s] => r = s

\* No request of the kind of the present one timed out before it.
Clean(s) == ~\E t \in late : t.n < node[s].n /\ ReqOf[t.by] = ReqOf[s]

\* The strengthening of OwnConfirmation, for a sender alone with its kind of
\* request.  Only the present request is under way, and in one place: it is not
\* under way before it is sent, nor once it has been matched, and it may outlive
\* the call only if the call timed out.
Answering(s) ==
    LET c == node[s]
    IN  /\ \A m \in Node : m.by = s /\ UnderWay(m) => m = c
        /\ Once(io_queue, c) /\ Once(rx, c)
        /\ In(io_queue, c) => c \notin mac
        /\ In(io_queue, c) \/ c \in mac => ~In(rx, c)
        /\ kpc = "match" /\ rx_msg = c =>
              ~In(io_queue, c) /\ c \notin mac /\ ~In(rx, c)
        /\ UnderWay(c) => /\ c \notin sema
                          /\ \/ spc[s] \in {"waiting", "timed_out", "giving_up"}
                             \/ spc[s] = "idle" /\ c \in late
        /\ kpc \in {"found", "give"} /\ tx_msg.by = s =>
              rx_msg = c /\ ~UnderWay(c) /\ spc[s] # "listed"
        /\ spc[s] = "listed" => c \notin sema
        /\ c \in sema \/ spc[s] = "confirmed" => cfm[s] = c
        /\ spc[s] \in {"timed_out", "giving_up"} => c \in late

AnsweringUntilFailure(s) == failed = {} /\ Clean(s) => Answering(s)

LEMMA InAppend ==
    ASSUME NEW S, NEW q \in Seq(S), NEW e \in S, NEW m
    PROVE  /\ In(Append(q, e), m) <=> In(q, m) \/ e = m
           /\ Once(q, m) /\ (e = m => ~In(q, m)) => Once(Append(q, e), m)
BY DEF In, Once

LEMMA InTail ==
    ASSUME NEW S, NEW q \in Seq(S), q # <<>>, NEW m
    PROVE  /\ In(q, m) <=> In(Tail(q), m) \/ Head(q) = m
           /\ Once(q, m) => Once(Tail(q), m)
           /\ Once(q, m) /\ Head(q) = m => ~In(Tail(q), m)
<1>1. Tail(q) \in Seq(S) /\ Len(Tail(q)) = Len(q) - 1 /\ Len(q) \in Nat \ {0}
  OBVIOUS
<1>2. \A i \in 1..Len(Tail(q)) : Tail(q)[i] = q[i + 1]
  OBVIOUS
<1>3. \A i \in 2..Len(q) : i - 1 \in 1..Len(Tail(q)) /\ q[i] = Tail(q)[i - 1]
  BY <1>1, <1>2
<1>4. Head(q) = q[1]
  OBVIOUS
<1>5. In(q, m) <=> In(Tail(q), m) \/ Head(q) = m
  <2>1. ASSUME In(q, m) PROVE In(Tail(q), m) \/ Head(q) = m
    <3>1. PICK i \in 1..Len(q) : q[i] = m
      BY <2>1 DEF In
    <3>2. CASE i = 1 BY <3>1, <3>2, <1>4
    <3>3. CASE i # 1
      <4>1. i - 1 \in 1..Len(Tail(q)) /\ Tail(q)[i - 1] = m
        BY <3>1, <3>3, <1>1, <1>3
      <4> QED BY <4>1 DEF In
    <3> QED BY <3>2, <3>3
  <2>2. ASSUME In(Tail(q), m) PROVE In(q, m)
    <3>1. PICK i \in 1..Len(Tail(q)) : Tail(q)[i] = m
      BY <2>2 DEF In
    <3>2. i + 1 \in 1..Len(q) /\ q[i + 1] = m
      BY <3>1, <1>1, <1>2
    <3> QED BY <3>2 DEF In
  <2>3. ASSUME Head(q) = m PROVE In(q, m)
    BY <2>3, <1>1, <1>4 DEF In
  <2> QED BY <2>1, <2>2, <2>3
<1>6. Once(q, m) => Once(Tail(q), m)
  <2> SUFFICES ASSUME Once(q, m), NEW i \in 1..Len(Tail(q)), NEW j \in 1..Len(Tail(q)),
                      Tail(q)[i] = m, Tail(q)[j] = m
               PROVE  i = j
    BY DEF Once
  <2>1. i + 1 \in 1..Len(q) /\ j + 1 \in 1..Len(q) /\ q[i + 1] = m /\ q[j + 1] = m
    BY <1>1, <1>2
  <2>2. i + 1 = j + 1
    BY <2>1 DEF Once
  <2> QED BY <2>2
<1>7. Once(q, m) /\ Head(q) = m => ~In(Tail(q), m)
  <2> SUFFICES ASSUME Once(q, m), Head(q) = m, NEW i \in 1..Len(Tail(q)), Tail(q)[i] = m
               PROVE  FALSE
    BY DEF In
  <2>1. i + 1 \in 1..Len(q) /\ 1 \in 1..Len(q) /\ q[i + 1] = m /\ q[1] = m
    BY <1>1, <1>2, <1>4
  <2>2. i + 1 = 1
    BY <2>1 DEF Once
  <2> QED BY <2>2
<1> QED BY <1>5, <1>6, <1>7

\* Requests that have timed out are not forgotten, and calls get later numbers.
LEMMA CleanBefore ==
    ASSUME RTypeOK, [Next]_vars, NEW s \in Sender, Clean(s)'
    PROVE  Clean(s)
<1>1. late \subseteq late' /\ late' \subseteq Node
  <2>1. late \subseteq late'
    BY DEF Next, vars, senders, SenderStep, SendList, SendQueue, SendFails,
       TakeSemaphore, Timeout, Extract, Free, CoreForward, Indicate, Confirm, Kmsg,
       KmsgWake, KmsgPop, KmsgMatch, KmsgExtract, KmsgGive, KmsgHandle
  <2> QED BY <2>1, NextType DEF RTypeOK
<1>2. node[s].n \in Nat /\ node'[s].n \in Nat /\ node[s].n <= node'[s].n
  <2>1. node' = node \/ \E r \in Sender : SendList(r)
    BY DEF Next, vars, senders, SenderStep, SendQueue, SendFails,
       TakeSemaphore, Timeout, Extract, Free, CoreForward, Indicate, Confirm, Kmsg,
       KmsgWake, KmsgPop, KmsgMatch, KmsgExtract, KmsgGive, KmsgHandle
  <2>2. node \in [Sender -> Node] /\ node' \in [Sender -> Node] /\ node[s].n <= sends
        /\ sends \in Nat
    BY NextType, BoundAssumption DEF RTypeOK
  <2>3. node[s].n \in Nat /\ node'[s].n \in Nat
    BY <2>2 DEF Node
  <2>4. ASSUME NEW r \in Sender, SendList(r) PROVE node[s].n <= node'[s].n
    BY <2>2, <2>3, <2>4 DEF SendList
  <2> QED BY <2>1, <2>3, <2>4
<1> QED BY <1>1, <1>2 DEF Clean, Node

\* The steps of the sender itself.
LEMMA OwnStepAnswering ==
    ASSUME RTypeOK, RTypeOK', Ownership, NEW s \in Sender, SenderStep(s),
           failed' = {}, Clean(s)', Answering(s)
    PROVE  Answering(s)'
<1> DEFINE c == node[s]
<1>0. c \in Node /\ c.by = s /\ c' \in Node /\ c'.by = s /\ node' \in [Sender -> Node]
      /\ c.n \in Nat /\ spc \in [Sender -> Pc] /\ cfm \in [Sender -> Msg]
  BY DEF RTypeOK, Node
<1>1. CASE SendList(s)
  <2>1. /\ spc[s] = "idle" /\ spc'[s] = "listed" /\ c'.n = sends + 1
        /\ UNCHANGED <<io_queue, mac, rx, kpc, rx_msg, sema, late, tx_msg>>
        /\ kpc \in {"sleep", "handle"}
    BY <1>0, <1>1 DEF SendList, bus, kmsg, Runs, RTypeOK
  <2>2. c \notin late
    <3>1. c.n < c'.n /\ ReqOf[c.by] = ReqOf[s]
      BY <1>0, <2>1 DEF RTypeOK
    <3> QED BY <3>1, <2>1, <1>0 DEF Clean
  <2>3. \A m \in Node : m.by = s => ~UnderWay(m)
    BY <2>1, <2>2 DEF Answering
  <2>4. \A m \in Node : UnderWay(m)' <=> UnderWay(m)
    BY <2>1 DEF UnderWay, In
  <2>5. ~UnderWay(c)' /\ \A m \in Node : m.by = s => ~UnderWay(m)'
    BY <2>3, <2>4, <1>0
  <2>6. ~In(io_queue', c') /\ c' \notin mac' /\ ~In(rx', c')
    BY <2>5 DEF UnderWay
  <2>7. c' \notin sema'
    BY <2>1 DEF RTypeOK
  <2>8. Once(io_queue', c') /\ Once(rx', c')
    BY <2>6 DEF In, Once
  <2> QED BY <2>1, <2>5, <2>6, <2>7, <2>8 DEF Answering, In, Once
<1>2. CASE SendQueue(s)
  <2>1. /\ io_queue' = Append(io_queue, c) /\ spc[s] = "listed" /\ spc'[s] = "waiting"
        /\ UNCHANGED <<node, mac, rx, kpc, rx_msg, tx_msg, sema, cfm, late>>
        /\ kpc \in {"sleep", "handle"}
    BY <1>0, <1>2 DEF SendQueue, lists, kmsg, Runs
  <2>2. ~UnderWay(c)
    BY <2>1 DEF Answering
  <2>3. ~In(io_queue, c) /\ c \notin mac /\ ~In(rx, c)
    BY <2>2 DEF UnderWay
  <2>4. io_queue \in Seq(Node)
    BY DEF RTypeOK
  <2>5. Once(io_queue', c) /\ \A m \in Node : In(io_queue', m) => In(io_queue, m) \/ m = c
    BY <2>1, <2>3, <2>4, <1>0, InAppend DEF Answering
  <2>6. \A m \in Node : UnderWay(m)' => UnderWay(m) \/ m = c
    BY <2>1, <2>5 DEF UnderWay, In
  <2>7. c \notin sema
    BY <2>1 DEF Answering
  <2>8. In(io_queue', c) /\ c \notin mac' /\ ~In(rx', c)
    BY <2>1, <2>3, <2>4, <1>0, InAppend
  <2> QED BY <2>1, <2>5, <2>6, <2>7, <2>8 DEF Answering
<1>3. CASE SendFails(s)
  BY <1>3 DEF SendFails
<1>4. CASE TakeSemaphore(s)
  <2>1. /\ spc[s] = "waiting" /\ spc'[s] = "confirmed" /\ c \in sema
        /\ sema' = sema \ {c}
        /\ UNCHANGED <<node, io_queue, mac, rx, kpc, rx_msg, tx_msg, cfm, late>>
    BY <1>0, <1>4 DEF TakeSemaphore, bus, kmsg
  <2>2. \A m \in Node : UnderWay(m)' <=> UnderWay(m)
    BY <2>1 DEF UnderWay, In
  <2> QED BY <1>0, <2>1, <2>2 DEF Answering, In, Once
<1>5. CASE Timeout(s)
  <2>1. /\ spc[s] = "waiting" /\ spc'[s] = "timed_out" /\ late' = late \cup {c}
        /\ UNCHANGED <<node, io_queue, mac, rx, kpc, rx_msg, tx_msg, cfm, sema>>
    BY <1>0, <1>5 DEF Timeout, lists, bus, kmsg
  <2>2. \A m \in Node : UnderWay(m)' <=> UnderWay(m)
    BY <2>1 DEF UnderWay, In
  <2> QED BY <1>0, <2>1, <2>2 DEF Answering, In, Once
<1>6. CASE Extract(s)
  <2>1. /\ spc[s] = "timed_out" /\ spc'[s] = "giving_up"
        /\ UNCHANGED <<node, io_queue, mac, rx, kpc, rx_msg, tx_msg, cfm, sema, late>>
    BY <1>0, <1>6 DEF Extract, bus, kmsg
  <2>2. \A m \in Node : UnderWay(m)' <=> UnderWay(m)
    BY <2>1 DEF UnderWay, In
  <2> QED BY <1>0, <2>1, <2>2 DEF Answering, In, Once
<1>7. CASE Free(s)
  <2>1. /\ spc[s] \in {"confirmed", "giving_up"} /\ spc'[s] = "idle"
        /\ sema' = sema \ {c}
        /\ UNCHANGED <<node, io_queue, mac, rx, kpc, rx_msg, tx_msg, cfm, late>>
    BY <1>0, <1>7 DEF Free, bus, kmsg
  <2>2. \A m \in Node : UnderWay(m)' <=> UnderWay(m)
    BY <2>1 DEF UnderWay, In
  <2> QED BY <1>0, <2>1, <2>2 DEF Answering, In, Once
<1> QED BY <1>1, <1>2, <1>3, <1>4, <1>5, <1>6, <1>7 DEF SenderStep

\* The steps of the other senders add their own requests only.
LEMMA OtherStepAnswering ==
    ASSUME RTypeOK, NEW s \in Sender, NEW r \in Sender \ {s}, SenderStep(r),
           Answering(s)
    PROVE  Answering(s)'
<1>1. node[s] \in Node /\ node[s].by = s /\ node[r] \in Node /\ node[r].by = r
      /\ io_queue \in Seq(Node)
  BY DEF RTypeOK
<1>2. /\ node'[s] = node[s] /\ spc'[s] = spc[s] /\ cfm'[s] = cfm[s]
      /\ UNCHANGED <<mac, rx, kpc, rx_msg, tx_msg>>
      /\ node[s] \in sema' <=> node[s] \in sema
      /\ node[s] \in late' <=> node[s] \in late
  BY <1>1 DEF SenderStep, SendList, SendQueue, SendFails, TakeSemaphore, Timeout,
              Extract, Free, bus, kmsg, lists, RTypeOK
<1>3. io_queue' = io_queue \/ io_queue' = Append(io_queue, node[r])
  BY DEF SenderStep, SendList, SendQueue, SendFails, TakeSemaphore, Timeout,
         Extract, Free, bus
<1>4. ASSUME NEW m \in Node, m.by = s
      PROVE  /\ In(io_queue', m) <=> In(io_queue, m)
             /\ Once(io_queue, m) => Once(io_queue', m)
  <2>1. node[r] # m
    BY <1>1, <1>4
  <2>2. CASE io_queue' = io_queue BY <2>2
  <2>3. CASE io_queue' = Append(io_queue, node[r])
    BY <1>1, <2>1, <2>3, InAppend
  <2> QED BY <1>3, <2>2, <2>3
<1>5. Once(io_queue', node[s])
  BY <1>1, <1>4 DEF Answering
<1>6. \A m \in Node : m.by = s => (UnderWay(m)' <=> UnderWay(m))
  BY <1>2, <1>4 DEF UnderWay, In
<1> QED BY <1>1, <1>2, <1>4, <1>5, <1>6 DEF Answering

\* The core thread and the MAC pass a request on, from one place to the next.
LEMMA BusAnswering ==
    ASSUME RTypeOK, NEW s \in Sender, Answering(s),
           CoreForward \/ Indicate \/ \E m \in mac : Confirm(m)
    PROVE  Answering(s)'
<1> DEFINE c == node[s]
<1>0. /\ c \in Node /\ c.by = s /\ c \in Msg /\ io_queue \in Seq(Node) /\ rx \in Seq(Msg)
      /\ mac \subseteq Node /\ mac \subseteq Msg /\ c # Ind
      /\ Node \subseteq Msg /\ Ind \in Msg /\ Ind \notin Node
  BY SenderAssumption DEF RTypeOK, Msg, Node
<1>1. UNCHANGED <<node, spc, cfm, kpc, rx_msg, tx_msg, sema, late>>
  BY DEF CoreForward, Indicate, Confirm, senders, lists, kmsg
<1>2. CASE CoreForward
  <2>1. /\ io_queue # <<>> /\ io_queue' = Tail(io_queue) /\ rx' = rx
        /\ mac' = mac \cup {Head(io_queue)}
    BY <1>2 DEF CoreForward
  <2>2. \A m \in Node : /\ In(io_queue, m) <=> In(io_queue', m) \/ Head(io_queue) = m
                        /\ Once(io_queue, m) => Once(io_queue', m)
                        /\ Once(io_queue, m) /\ Head(io_queue) = m => ~In(io_queue', m)
    BY <1>0, <2>1, InTail
  <2>3. \A m \in Node : UnderWay(m)' <=> UnderWay(m)
    BY <1>1, <2>1, <2>2 DEF UnderWay
  <2> QED BY <1>0, <1>1, <2>1, <2>2, <2>3 DEF Answering
<1>3. CASE Indicate
  <2>1. UNCHANGED <<io_queue, mac>> /\ rx' = Append(rx, Ind)
    BY <1>3 DEF Indicate, Fwd
  <2>2. \A m \in Node : /\ In(rx', m) <=> In(rx, m)
                        /\ Once(rx, m) => Once(rx', m)
    BY <1>0, <2>1, InAppend
  <2>3. \A m \in Node : UnderWay(m)' <=> UnderWay(m)
    BY <1>1, <2>1, <2>2 DEF UnderWay
  <2> QED BY <1>0, <1>1, <2>1, <2>2, <2>3 DEF Answering
<1>4. ASSUME NEW k \in mac, Confirm(k) PROVE Answering(s)'
  <2>1. io_queue' = io_queue /\ mac' = mac \ {k} /\ rx' = Append(rx, k)
    BY <1>4 DEF Confirm, Fwd
  <2>2. \A m \in Node : /\ In(rx', m) <=> In(rx, m) \/ k = m
                        /\ Once(rx, m) /\ (k = m => ~In(rx, m)) => Once(rx', m)
    BY <1>0, <2>1, InAppend
  <2>3. \A m \in Node : UnderWay(m)' <=> UnderWay(m)
    BY <1>1, <2>1, <2>2 DEF UnderWay
  <2> QED BY <1>0, <1>1, <2>1, <2>2, <2>3 DEF Answering
<1> QED BY <1>2, <1>3, <1>4

\* The kmsg thread: a confirmation of the sender's kind can only be that of its
\* present request, so that it meets no other node of the sender.
LEMMA KmsgAnswering ==
    ASSUME RTypeOK, Ownership, NEW s \in Sender, Alone(s), Answering(s), Kmsg
    PROVE  Answering(s)'
<1> DEFINE c == node[s]
<1>0. /\ c \in Node /\ c.by = s /\ rx \in Seq(Msg) /\ c # Ind
      /\ rx_msg \in Msg /\ tx \subseteq Node /\ cfm \in [Sender -> Msg]
  BY SenderAssumption DEF RTypeOK, Msg, Node
<1>1. UNCHANGED <<node, spc, io_queue, mac, late>>
  BY DEF Kmsg, KmsgWake, KmsgPop, KmsgMatch, KmsgExtract, KmsgGive, KmsgHandle,
         senders, bus
<1>2. CASE KmsgWake \/ KmsgHandle
  <2>1. UNCHANGED <<rx, rx_msg, tx_msg, cfm, sema>>
        /\ kpc # "match" /\ kpc' \notin {"match", "found", "give"}
    BY <1>2 DEF KmsgWake, KmsgHandle, NextMessage, lists
  <2>2. \A m \in Node : UnderWay(m)' <=> UnderWay(m)
    BY <1>1, <2>1 DEF UnderWay
  <2> QED BY <1>0, <1>1, <2>1, <2>2 DEF Answering
<1>3. CASE KmsgPop /\ rx = <<>>
  <2>1. UNCHANGED <<rx, rx_msg, tx_msg, cfm, sema>>
        /\ kpc # "match" /\ kpc' \notin {"match", "found", "give"}
    BY <1>3 DEF KmsgPop, lists
  <2>2. \A m \in Node : UnderWay(m)' <=> UnderWay(m)
    BY <1>1, <2>1 DEF UnderWay
  <2> QED BY <1>0, <1>1, <2>1, <2>2 DEF Answering
<1>4. CASE KmsgPop /\ rx # <<>>
  <2>1. /\ kpc = "pop" /\ kpc' = "match" /\ rx_msg' = Head(rx) /\ rx' = Tail(rx)
        /\ UNCHANGED <<tx_msg, cfm, sema>>
    BY <1>4 DEF KmsgPop, lists
  <2>2. \A m \in Node : /\ In(rx, m) <=> In(rx', m) \/ Head(rx) = m
                        /\ Once(rx, m) => Once(rx', m)
                        /\ Once(rx, m) /\ Head(rx) = m => ~In(rx', m)
    BY <1>0, <1>4, <2>1, InTail
  <2>3. \A m \in Node : UnderWay(m)' <=> UnderWay(m)
    BY <1>1, <2>1, <2>2 DEF UnderWay
  <2> QED BY <1>0, <1>1, <2>1, <2>2, <2>3 DEF Answering
<1>5. CASE KmsgMatch
  <2>1. /\ kpc = "match" /\ kpc' \in {"handle", "found"}
        /\ UNCHANGED <<rx, rx_msg, cfm, sema>>
    BY <1>5 DEF KmsgMatch, lists
  <2>2. \A m \in Node : UnderWay(m)' => UnderWay(m)
    BY <1>1, <2>1 DEF UnderWay
  <2>3. rx_msg = c => UnderWay(c) /\ ~UnderWay(c)'
    BY <1>1, <2>1 DEF UnderWay, Answering
  <2>4. kpc' = "found" /\ tx_msg'.by = s => rx_msg = c
    <3> SUFFICES ASSUME kpc' = "found", tx_msg'.by = s PROVE rx_msg = c
      OBVIOUS
    <3>1. tx \subseteq alive
      <4>1. \A t \in tx : Holds(t)
        BY DEF Ownership
      <4> QED BY <4>1, <1>0 DEF Ownership, Holds, Node
    <3>2. Waits(tx_msg') /\ tx_msg' \in tx
      BY <1>5, <3>1 DEF KmsgMatch
    <3>3. rx_msg \in Node /\ rx_msg.by \in Sender /\ ReqOf[rx_msg.by] = ReqOf[s]
      BY <3>2, <1>0 DEF Waits, Msg, Node
    <3>4. rx_msg.by = s /\ UnderWay(rx_msg)
      BY <3>3, <2>1 DEF Alone, UnderWay
    <3> QED BY <3>3, <3>4 DEF Answering
  <2> QED BY <1>0, <1>1, <2>1, <2>2, <2>3, <2>4 DEF Answering
<1>6. CASE KmsgExtract
  <2>1. /\ kpc = "found" /\ kpc' = "give"
        /\ UNCHANGED <<rx, rx_msg, tx_msg, cfm, sema>>
    BY <1>6 DEF KmsgExtract
  <2>2. \A m \in Node : UnderWay(m)' <=> UnderWay(m)
    BY <1>1, <2>1 DEF UnderWay
  <2> QED BY <1>0, <1>1, <2>1, <2>2 DEF Answering
<1>7. CASE KmsgGive
  <2>1. tx_msg \in Node /\ Holds(tx_msg) /\ tx_msg \in alive
    BY <1>7 DEF KmsgGive, Ownership, Holds, Node
  <2>2. /\ kpc = "give" /\ kpc' = "pop"
        /\ cfm' = [cfm EXCEPT ![tx_msg.by] = rx_msg] /\ sema' = sema \cup {tx_msg}
        /\ UNCHANGED <<rx, rx_msg, tx_msg>>
    BY <1>7, <2>1 DEF KmsgGive, Give, NextMessage
  <2>3. \A m \in Node : UnderWay(m)' <=> UnderWay(m)
    BY <1>1, <2>2 DEF UnderWay
  <2>4. CASE tx_msg.by = s
    <3>1. tx_msg = c /\ rx_msg = c /\ ~UnderWay(c) /\ spc[s] # "listed"
      BY <2>1, <2>2, <2>4 DEF Holds, Answering
    <3>2. cfm'[s] = c
      BY <1>0, <2>2, <3>1
    <3> QED BY <1>0, <1>1, <2>2, <2>3, <3>1, <3>2 DEF Answering
  <2>5. CASE tx_msg.by # s
    <3>1. cfm'[s] = cfm[s] /\ (c \in sema' <=> c \in sema)
      BY <1>0, <2>1, <2>2, <2>5
    <3> QED BY <1>0, <1>1, <2>2, <2>3, <3>1 DEF Answering
  <2> QED BY <2>4, <2>5
<1> QED BY <1>2, <1>3, <1>4, <1>5, <1>6, <1>7 DEF Kmsg

LEMMA NextAnswering ==
    ASSUME RTypeOK, OwnershipUntilFailure, [Next]_vars, NEW s \in Sender, Alone(s),
           AnsweringUntilFailure(s)
    PROVE  AnsweringUntilFailure(s)'
<1> SUFFICES ASSUME failed' = {}, Clean(s)' PROVE Answering(s)'
  BY DEF AnsweringUntilFailure
<1>0. Ownership /\ Answering(s) /\ RTypeOK'
  BY FailedGrows, CleanBefore, NextType DEF OwnershipUntilFailure, AnsweringUntilFailure
<1>1. CASE SenderStep(s) BY <1>0, <1>1, OwnStepAnswering
<1>2. CASE \E r \in Sender \ {s} : SenderStep(r) BY <1>0, <1>2, OtherStepAnswering
<1>3. CASE CoreForward \/ Indicate \/ \E m \in mac : Confirm(m)
  BY <1>0, <1>3, BusAnswering
<1>4. CASE Kmsg BY <1>0, <1>4, KmsgAnswering
<1>5. CASE UNCHANGED vars
  BY <1>0, <1>5 DEF vars, senders, lists, bus, kmsg, Answering, UnderWay
<1> QED BY <1>1, <1>2, <1>3, <1>4, <1>5 DEF Next

LEMMA InitAnswering ==
    ASSUME Init, NEW s \in Sender
    PROVE  Answering(s)
<1>1. \A m \in Node : ~UnderWay(m) /\ Once(<<>>, m) /\ ~In(<<>>, m)
  BY DEF Init, UnderWay, In, Once
<1> QED BY <1>1, InitType DEF Init, Answering, RTypeOK

\* What OwnConfirmation says of one sender.
OwnConfirmationOf(s) ==
    failed = {} /\ spc[s] = "confirmed" =>
        \/ cfm[s] = node[s]
        \/ \E t \in late : t.n < node[s].n /\ ReqOf[t.by] = ReqOf[s]

\* A thread that alone sends requests of its kind returns with the confirmation
\* of its own request, unless one of its calls has timed out before, whatever the
\* others send and however late the MAC answers (rwnx_recv_msg's search by
\* reqid).  The others may well share their kinds of request.
THEOREM OwnConfirmationIfAlone ==
    ASSUME NEW s \in Sender, Alone(s)
    PROVE  Spec => []OwnConfirmationOf(s)
<1>1. Init => AnsweringUntilFailure(s)
  BY InitAnswering DEF AnsweringUntilFailure
<1>2. RTypeOK /\ OwnershipUntilFailure /\ AnsweringUntilFailure(s) /\ [Next]_vars
      => AnsweringUntilFailure(s)'
  BY NextAnswering
<1>3. AnsweringUntilFailure(s) => OwnConfirmationOf(s)
  BY DEF OwnConfirmationOf, AnsweringUntilFailure, Answering, Clean
<1> QED BY <1>1, <1>2, <1>3, OwnershipInvariant, PTL DEF Spec

\* OwnConfirmation, when no two threads share a kind of request.
THEOREM OwnConfirmationAlways ==
    ASSUME \A s, r \in Sender : ReqOf[s] = ReqOf[r] => s = r
    PROVE  Spec => []OwnConfirmation
<1> DEFINE AllAnswering == \A s \in Sender : AnsweringUntilFailure(s)
<1>1. Init => AllAnswering
  BY InitAnswering DEF AnsweringUntilFailure
<1>2. RTypeOK /\ OwnershipUntilFailure /\ AllAnswering /\ [Next]_vars => AllAnswering'
  BY NextAnswering DEF Alone
<1>3. AllAnswering => OwnConfirmation
  BY DEF OwnConfirmation, AnsweringUntilFailure, Answering, Clean
<1> QED BY <1>1, <1>2, <1>3, OwnershipInvariant, PTL DEF Spec

-----------------------------------------------------------------------------
(* Nobody waits for nothing. *)

\* The strengthening of AnswerIsComing, for a sender alone with its kind of
\* request: its node is on the list, in the kmsg thread's hands, or answered; and
\* a node on the list whose request has been sent has its confirmation to come.
\* An earlier confirmation, of a call that timed out, may answer the node too.
Coming(s) ==
    LET c == node[s]
        Found == kpc \in {"found", "give"} /\ tx_msg = c
    IN  /\ spc[s] \in {"listed", "waiting"} => c \in tx \/ c \in sema \/ Found
        /\ spc[s] = "waiting" /\ c \in tx => UnderWay(c) \/ Found

\* The kmsg thread does not sleep on a message.
Woken == rx # <<>> /\ kpc = "sleep" => app_sema

\* What is under way stays so, but for the match.
LEMMA UnderWayStep ==
    ASSUME RTypeOK, NEW m \in Node, UnderWay(m), [Next]_vars
    PROVE  UnderWay(m)' \/ (KmsgMatch /\ rx_msg = m)
<1>0. io_queue \in Seq(Node) /\ rx \in Seq(Msg) /\ mac \subseteq Node /\ m \in Msg
      /\ mac \subseteq Msg /\ Ind \in Msg
  BY DEF RTypeOK, Msg
<1>1. ASSUME NEW s \in Sender, SenderStep(s) PROVE UnderWay(m)'
  <2>1. /\ UNCHANGED <<mac, rx, kpc, rx_msg>>
        /\ io_queue' = io_queue \/ io_queue' = Append(io_queue, node[s])
    BY <1>1 DEF SenderStep, SendList, SendQueue, SendFails, TakeSemaphore, Timeout,
                Extract, Free, bus, kmsg
  <2>2. node[s] \in Node
    BY DEF RTypeOK
  <2>3. In(io_queue, m) => In(io_queue', m)
    <3>1. CASE io_queue' = io_queue BY <3>1
    <3>2. CASE io_queue' = Append(io_queue, node[s]) BY <1>0, <2>2, <3>2, InAppend
    <3> QED BY <2>1, <3>1, <3>2
  <2> QED BY <2>1, <2>3 DEF UnderWay
<1>2. CASE CoreForward
  <2>1. /\ io_queue # <<>> /\ io_queue' = Tail(io_queue)
        /\ mac' = mac \cup {Head(io_queue)} /\ UNCHANGED <<rx, kpc, rx_msg>>
    BY <1>2 DEF CoreForward, kmsg
  <2>2. In(io_queue, m) => In(io_queue', m) \/ Head(io_queue) = m
    BY <1>0, <2>1, InTail
  <2> QED BY <2>1, <2>2 DEF UnderWay
<1>3. ASSUME NEW k \in Msg, Fwd(k), mac \ {k} \subseteq mac', UNCHANGED <<io_queue, kmsg>>
      PROVE  UnderWay(m)'
  <2>1. rx' = Append(rx, k)
    BY <1>3 DEF Fwd
  <2>2. In(rx, m) \/ k = m => In(rx', m)
    BY <1>0, <1>3, <2>1, InAppend
  <2> QED BY <1>3, <2>2 DEF UnderWay, kmsg
<1>4. CASE Indicate \/ \E k \in mac : Confirm(k)
  BY <1>0, <1>3, <1>4 DEF Indicate, Confirm
<1>5. CASE KmsgPop
  <2>1. /\ kpc = "pop" /\ UNCHANGED <<io_queue, mac>>
        /\ rx = <<>> => rx' = rx
        /\ rx # <<>> => kpc' = "match" /\ rx_msg' = Head(rx) /\ rx' = Tail(rx)
    BY <1>5 DEF KmsgPop, bus
  <2>2. In(rx, m) /\ rx # <<>> => In(rx', m) \/ Head(rx) = m
    BY <1>0, <2>1, InTail
  <2> QED BY <2>1, <2>2 DEF UnderWay
<1>6. CASE KmsgMatch
  BY <1>6 DEF KmsgMatch, bus, UnderWay
<1>7. CASE KmsgWake \/ KmsgExtract \/ KmsgGive \/ KmsgHandle
  BY <1>7 DEF KmsgWake, KmsgExtract, KmsgGive, KmsgHandle, bus, UnderWay
<1>8. CASE UNCHANGED vars
  BY <1>8 DEF vars, bus, kmsg, UnderWay
<1> QED BY <1>1, <1>2, <1>4, <1>5, <1>6, <1>7, <1>8 DEF Next, Kmsg

LEMMA SenderComing ==
    ASSUME RTypeOK, Ownership, NEW s \in Sender, NEW r \in Sender, SenderStep(r),
           failed' = {}, Coming(s)
    PROVE  Coming(s)'
<1> DEFINE c == node[s]
<1>0. /\ c \in Node /\ c.by = s /\ node[r] \in Node /\ node[r].by = r
      /\ spc \in [Sender -> Pc] /\ node \in [Sender -> Node] /\ io_queue \in Seq(Node)
  BY DEF RTypeOK
<1>1. \A m \in Node : UnderWay(m) => UnderWay(m)'
  <2>1. Next /\ ~KmsgMatch
    BY DEF Next, SenderStep, SendList, SendQueue, SendFails, TakeSemaphore, Timeout,
           Extract, Free, Runs, KmsgMatch
  <2> QED BY <2>1, UnderWayStep
<1>2. CASE r # s
  <2>1. /\ c' = c /\ spc'[s] = spc[s] /\ UNCHANGED <<kpc, tx_msg>>
        /\ c \in tx' <=> c \in tx
        /\ c \in sema' <=> c \in sema
    BY <1>0, <1>2 DEF SenderStep, SendList, SendQueue, SendFails, TakeSemaphore, Timeout,
                      Extract, Free, lists, kmsg
  <2> QED BY <1>0, <1>1, <2>1 DEF Coming
<1>3. CASE r = s
  <2>1. CASE SendList(s)
    BY <1>0, <2>1 DEF SendList, Coming
  <2>2. CASE SendQueue(s)
    <3>1. /\ io_queue' = Append(io_queue, c) /\ spc[s] = "listed" /\ spc'[s] = "waiting"
          /\ UNCHANGED <<node, tx, sema, kpc, tx_msg>>
      BY <1>0, <2>2 DEF SendQueue, lists, kmsg
    <3>2. UnderWay(c)'
      BY <1>0, <3>1, InAppend DEF UnderWay
    <3> QED BY <3>1, <3>2 DEF Coming
  <2>3. CASE SendFails(s)
    BY <2>3 DEF SendFails
  <2>4. CASE TakeSemaphore(s) \/ Timeout(s) \/ Extract(s) \/ Free(s)
    <3>1. spc'[s] \notin {"listed", "waiting"}
      BY <1>0, <2>4 DEF TakeSemaphore, Timeout, Extract, Free
    <3> QED BY <3>1 DEF Coming
  <2> QED BY <1>3, <2>1, <2>2, <2>3, <2>4 DEF SenderStep
<1> QED BY <1>2, <1>3

\* The confirmation of a node on the list is not overlooked by the kmsg thread,
\* and finds no other node.
LEMMA KmsgComing ==
    ASSUME RTypeOK, Ownership, NEW s \in Sender, Alone(s), Coming(s), Kmsg
    PROVE  Coming(s)'
<1> DEFINE c == node[s]
<1>0. c \in Node /\ c.by = s /\ tx \subseteq Node /\ UNCHANGED <<node, spc>> /\ Next
  BY DEF RTypeOK, Next, Kmsg, KmsgWake, KmsgPop, KmsgMatch, KmsgExtract, KmsgGive,
         KmsgHandle, senders
<1>1. \A m \in Node : UnderWay(m) => UnderWay(m)' \/ (KmsgMatch /\ rx_msg = m)
  BY <1>0, UnderWayStep
<1>2. CASE KmsgWake \/ KmsgPop \/ KmsgHandle
  <2>1. UNCHANGED <<tx, sema>> /\ kpc \notin {"found", "give"} /\ ~KmsgMatch
    BY <1>2 DEF KmsgWake, KmsgPop, KmsgHandle, KmsgMatch, lists
  <2> QED BY <1>0, <1>1, <2>1 DEF Coming
<1>3. CASE KmsgMatch
  <2>1. kpc = "match" /\ UNCHANGED <<tx, alive, sema>>
    BY <1>3 DEF KmsgMatch, lists
  <2>2. ASSUME c \in tx, rx_msg = c PROVE kpc' = "found" /\ tx_msg' = c
    <3>1. tx \subseteq alive
      <4>1. \A t \in tx : Holds(t)
        BY DEF Ownership
      <4> QED BY <4>1, <1>0 DEF Ownership, Holds, Node
    <3>2. c \in alive /\ Waits(c)
      BY <2>2, <3>1, <1>0, SenderAssumption DEF Waits, Node
    <3>3. kpc' = "found" /\ tx_msg' \in tx /\ Waits(tx_msg')
      BY <1>3, <2>2, <3>1, <3>2 DEF KmsgMatch
    <3>4. tx_msg'.by = s
      BY <3>3, <2>2, <1>0 DEF Waits, Alone, Node
    <3> QED BY <3>3, <3>4 DEF Ownership, Holds
  <2> QED BY <1>0, <1>1, <2>1, <2>2 DEF Coming
<1>4. CASE KmsgExtract
  <2>1. /\ kpc = "found" /\ kpc' = "give" /\ tx' = tx \ {tx_msg}
        /\ UNCHANGED <<sema, tx_msg>> /\ ~KmsgMatch
    BY <1>4 DEF KmsgExtract, KmsgMatch
  <2> QED BY <1>0, <1>1, <2>1 DEF Coming
<1>5. CASE KmsgGive
  <2>1. tx_msg \in alive /\ tx_msg \notin tx
    BY <1>5 DEF KmsgGive, Ownership, Holds, Node
  <2>2. sema' = sema \cup {tx_msg} /\ tx' = tx /\ ~KmsgMatch /\ kpc = "give"
    BY <1>5, <2>1 DEF KmsgGive, Give, KmsgMatch
  <2> QED BY <1>0, <1>1, <2>1, <2>2 DEF Coming
<1> QED BY <1>2, <1>3, <1>4, <1>5 DEF Kmsg

LEMMA NextComing ==
    ASSUME RTypeOK, OwnershipUntilFailure, [Next]_vars, NEW s \in Sender, Alone(s),
           failed = {} => Coming(s), failed' = {}
    PROVE  Coming(s)'
<1>0. Ownership /\ Coming(s) /\ node[s] \in Node
  BY FailedGrows DEF OwnershipUntilFailure, RTypeOK
<1>1. CASE \E r \in Sender : SenderStep(r) BY <1>0, <1>1, SenderComing
<1>2. CASE Kmsg BY <1>0, <1>2, KmsgComing
<1>3. CASE CoreForward \/ Indicate \/ (\E m \in mac : Confirm(m)) \/ UNCHANGED vars
  <2>1. UNCHANGED <<senders, lists, kmsg>>
    BY <1>3 DEF CoreForward, Indicate, Confirm, vars
  <2>2. \A m \in Node : UnderWay(m) => UnderWay(m)'
    <3>1. KmsgMatch => kpc' # kpc
      BY DEF KmsgMatch
    <3>2. ~KmsgMatch
      BY <2>1, <3>1 DEF kmsg
    <3> QED BY <3>2, UnderWayStep
  <2> QED BY <1>0, <2>1, <2>2 DEF Coming, senders, lists, kmsg
<1> QED BY <1>1, <1>2, <1>3 DEF Next

LEMMA NextWoken ==
    ASSUME Woken, [Next]_vars
    PROVE  Woken'
BY DEF Woken, Next, vars, SenderStep, SendList, SendQueue, SendFails, TakeSemaphore,
       Timeout, Extract, Free, CoreForward, Indicate, Confirm, Fwd, Kmsg, KmsgWake,
       KmsgPop, KmsgMatch, KmsgExtract, KmsgGive, KmsgHandle, NextMessage, kmsg

\* The safety half of ConfirmArrives.  When no two threads share a kind of
\* request and the core queue has refused none, no thread waits in rw_msg_send
\* while everybody else is done: no confirmation gets lost, no node is
\* overlooked, and the kmsg thread does not sleep on a message although many
\* share one wake-up (mr_kmsg_fwd, rwnx_recv_msg).
THEOREM AnswerAlwaysComes ==
    ASSUME \A s, r \in Sender : ReqOf[s] = ReqOf[r] => s = r
    PROVE  Spec => []AnswerIsComing
<1> DEFINE AllComing == failed = {} => \A s \in Sender : Coming(s)
<1>1. Init => AllComing /\ Woken
  BY DEF Init, Coming, Woken
<1>2. RTypeOK /\ OwnershipUntilFailure /\ AllComing /\ Woken /\ [Next]_vars
      => AllComing' /\ Woken'
  <2> SUFFICES ASSUME RTypeOK, OwnershipUntilFailure, AllComing, Woken, [Next]_vars
               PROVE  AllComing' /\ Woken'
    OBVIOUS
  <2>1. AllComing'
    BY NextComing DEF Alone
  <2> QED BY <2>1, NextWoken
<1>3. RTypeOK /\ OwnershipUntilFailure /\ AllComing /\ Woken => AnswerIsComing
  <2> SUFFICES ASSUME RTypeOK, Ownership, Woken, NEW s \in Sender, Coming(s),
                      spc[s] = "waiting"
               PROVE  \/ node[s] \in sema
                      \/ io_queue # <<>> \/ mac # {}
                      \/ kpc # "sleep" \/ app_sema
    BY DEF OwnershipUntilFailure, AnswerIsComing
  <2>1. CASE node[s] \in sema \/ kpc # "sleep"
    BY <2>1
  <2>2. CASE UnderWay(node[s])
    <3>1. \A m : ~In(<<>>, m)
      BY DEF In
    <3> QED BY <2>2, <3>1 DEF UnderWay, Woken
  <2> QED BY <2>1, <2>2 DEF Coming
<1> QED BY <1>1, <1>2, <1>3, OwnershipInvariant, PTL DEF Spec
=============================================================================
