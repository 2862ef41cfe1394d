-------------------------- MODULE DhcpServerProofs --------------------------
(***************************************************************************)
(* Theorems about DhcpServer, for any clients, subnets and bounds.         *)
(***************************************************************************)
EXTENDS DhcpServer, FiniteSetTheorems, TLAPS

Reserved == {0, MyIp, Size - 1}

\* A cache as the server keeps it: no client and no address twice.
Sound(t) ==
    /\ t \in Seq(Entry) /\ Len(t) <= CacheSize
    /\ \A i \in DOMAIN t : t[i].ip \notin Reserved
    /\ \A i, j \in DOMAIN t : i # j => t[i].mac # t[j].mac /\ t[i].ip # t[j].ip

\* Address a is client c's: it is in the cache, or the cache is full and has
\* neither of them.
Promise(t, c, a) ==
    /\ a \in Host \ Reserved
    /\ \/ \E i \in DOMAIN t : t[i].mac = c /\ t[i].ip = a
       \/ ~Has(t, c) /\ Len(t) = CacheSize /\ \A i \in DOMAIN t : t[i].ip # a

Keeps(t, u) ==
    \A c \in Client, a \in Host : Promise(t, c, a) => Promise(u, c, a)

\* Lookup finds the one entry of a client.
LEMMA LookupFound ==
    ASSUME NEW t, Sound(t), NEW c, NEW i \in DOMAIN t, t[i].mac = c
    PROVE  Lookup(t, c) = t[i].ip /\ t[i].ip \in Host
<1>1. Has(t, c)
  BY DEF Has
<1>2. First(t, c) = i
  BY DEF Sound, First
<1>3. Lookup(t, c) = t[i].ip
  BY <1>1, <1>2 DEF Lookup
<1>4. t[i] \in Entry
  BY DEF Sound
<1>5. t[i].ip \in Host
  BY <1>4 DEF Entry
<1> QED
  BY <1>3, <1>5

\* Lookup finds nothing only when the client has no entry.
LEMMA LookupNone ==
    ASSUME NEW t, Sound(t), NEW c
    PROVE  Lookup(t, c) = NoIp <=> ~Has(t, c)
<1>1. CASE Has(t, c)
  <2>1. PICK i \in DOMAIN t : t[i].mac = c
    BY <1>1 DEF Has
  <2> QED
    BY <1>1, <2>1, LookupFound, SubnetAssumption DEF Ip
<1>2. CASE ~Has(t, c)
  BY <1>2 DEF Lookup
<1> QED
  BY <1>1, <1>2

\* What ac_add does for a client without an entry and a valid address.
LEMMA AddIsSound ==
    ASSUME NEW t, Sound(t), NEW c \in Client, ~Has(t, c),
           NEW a \in Host, Valid(t, a)
    PROVE  /\ Sound(Add(t, c, a)) /\ Promise(Add(t, c, a), c, a)
           /\ Keeps(t, Add(t, c, a))
<1> DEFINE e == [mac |-> c, ip |-> a]
           u == Append(t, e)
<1>1. a \in Host \ Reserved /\ \A i \in DOMAIN t : t[i].ip # a
  BY DEF Valid, Reserved
<1>2. t \in Seq(Entry) /\ e \in Entry /\ Len(t) \in Nat /\ CacheSize \in Nat
  BY SubnetAssumption DEF Sound, Entry
<1>3. CASE Len(t) < CacheSize
  <2>1. Add(t, c, a) = u
    BY <1>3 DEF Add
  <2> HIDE DEF e
  <2>2. /\ u \in Seq(Entry) /\ Len(u) = Len(t) + 1 /\ DOMAIN u = 1..Len(t) + 1
        /\ DOMAIN t = 1..Len(t)
        /\ \A i \in DOMAIN t : u[i] = t[i]
        /\ u[Len(t) + 1] = e
    BY <1>2
  <2> HIDE DEF u
  <2>3. e.mac = c /\ e.ip = a
    BY DEF e
  <2>4. Sound(u)
    BY <1>1, <1>2, <1>3, <2>2, <2>3 DEF Sound, Has
  <2>5. Promise(u, c, a)
    BY <1>1, <1>2, <2>2, <2>3 DEF Promise
  <2>6. Keeps(t, u)
    <3> SUFFICES ASSUME NEW d \in Client, NEW b \in Host, Promise(t, d, b)
                 PROVE  Promise(u, d, b)
      BY DEF Keeps
    <3>1. PICK i \in DOMAIN t : t[i].mac = d /\ t[i].ip = b
      BY <1>2, <1>3 DEF Promise
    <3>2. i \in DOMAIN u /\ u[i] = t[i]
      BY <1>2, <2>2
    <3> QED
      BY <3>1, <3>2 DEF Promise
  <2> QED
    BY <2>1, <2>4, <2>5, <2>6
<1>4. CASE ~(Len(t) < CacheSize)
  <2>1. Add(t, c, a) = t /\ Len(t) = CacheSize
    BY <1>2, <1>4 DEF Add, Sound
  <2> QED
    BY <1>1, <2>1 DEF Promise, Keeps
<1> QED
  BY <1>3, <1>4

-----------------------------------------------------------------------------
(* The loop over the options. *)

\* The one address a message names, and what the loop knows after some options:
\* got_ip is set only for the client's own address.
Named(m) == IF m.requested # NoIp THEN m.requested ELSE m.ciaddr

LoopInv(s, m, t) ==
    /\ Sound(s.table) /\ Keeps(t, s.table)
    /\ s.ip \in {NoIp, Named(m)}
    /\ s.got \in BOOLEAN /\ s.need \in BOOLEAN
    /\ s.got => s.ip = Named(m) /\ Promise(s.table, m.mac, s.ip)
    /\ s.response \in {"NONE", "OFFER", "ACK", "NAK"}
    /\ s.response = "ACK" => s.got
    /\ s.response = "ACK" \/ s.response = "NAK" => s.need
    /\ s.need => m.type = "REQUEST"
    /\ s.response = "OFFER" => m.type = "DISCOVER"

LEMMA KeepsTrans ==
    ASSUME NEW t, NEW u, NEW v, Keeps(t, u), Keeps(u, v)
    PROVE  Keeps(t, v)
BY DEF Keeps

\* One option keeps LoopInv.
LEMMA OptionStep ==
    ASSUME NEW t, NEW m \in Message, NEW s, LoopInv(s, m, t),
           NEW o \in {"type", "requested", "other"},
           o = "requested" => m.requested # NoIp
    PROVE  LoopInv(Option(s, m, o), m, t)
<1> DEFINE request == o = "type" /\ m.type = "REQUEST"
           ip == IF request /\ m.ciaddr # NoIp THEN m.ciaddr
                 ELSE IF o = "requested" THEN m.requested ELSE s.ip
           need == s.need \/ request
           known == ip \in Host /\ Lookup(s.table, m.mac) # NoIp
           fresh == ip \in Host /\ Lookup(s.table, m.mac) = NoIp /\ Valid(s.table, ip)
           got == IF known THEN Lookup(s.table, m.mac) = ip ELSE fresh \/ s.got
           tab == IF fresh THEN Add(s.table, m.mac, ip) ELSE s.table
           resp == IF need THEN IF got THEN "ACK" ELSE "NAK"
                   ELSE IF o = "type" /\ m.type = "DISCOVER" THEN "OFFER"
                   ELSE s.response
           r == Option(s, m, o)
<1>1. r.table = tab /\ r.ip = ip /\ r.need = need /\ r.got = got /\ r.response = resp
  BY DEF Option
<1>2. /\ m.mac \in Client
      /\ m.ciaddr = NoIp \/ m.requested = NoIp
  BY DEF Message
<1>3. /\ ip \in {NoIp, Named(m)}
      /\ s.got => ip = s.ip /\ ip = Named(m)
  BY <1>2 DEF LoopInv, Named
<1>4. Sound(s.table) /\ Keeps(t, s.table)
  BY DEF LoopInv
<1>5. NoIp \notin Host
  BY SubnetAssumption DEF Ip
<1>6. need \in BOOLEAN /\ (need => m.type = "REQUEST")
  BY DEF LoopInv
<1>10. ASSUME got \in BOOLEAN
       PROVE  /\ resp \in {"NONE", "OFFER", "ACK", "NAK"}
              /\ resp = "ACK" => got
              /\ resp = "ACK" \/ resp = "NAK" => need
              /\ resp = "OFFER" => m.type = "DISCOVER"
  BY <1>6, <1>10 DEF LoopInv
<1> HIDE DEF ip, r, need, resp
<1>7. CASE fresh
  <2>1. ~Has(s.table, m.mac) /\ ip \in Host /\ Valid(s.table, ip)
    BY <1>4, <1>7, LookupNone
  <2>2. /\ Sound(tab) /\ Promise(tab, m.mac, ip) /\ Keeps(s.table, tab)
    BY <1>2, <1>4, <1>7, <2>1, AddIsSound
  <2>3. Keeps(t, tab)
    BY <1>4, <2>2, KeepsTrans
  <2>4. got /\ ip = Named(m)
    BY <1>3, <1>5, <1>7
  <2> HIDE DEF tab, fresh, known
  <2>9. LoopInv(r, m, t)
    BY <1>1, <1>3, <1>6, <1>10, <2>2, <2>3, <2>4 DEF LoopInv
  <2> QED
    BY <2>9 DEF r
<1>8. CASE known
  <2>1. PICK i \in DOMAIN s.table : s.table[i].mac = m.mac
    BY <1>4, <1>8, LookupNone DEF Has
  <2>2. Lookup(s.table, m.mac) = s.table[i].ip /\ s.table[i].ip \in Host \ Reserved
    BY <1>4, <2>1, LookupFound DEF Sound
  <2>3. got \in BOOLEAN /\ (got => ip = Named(m) /\ Promise(s.table, m.mac, ip))
    BY <1>3, <1>5, <1>8, <2>1, <2>2 DEF Promise
  <2>4. tab = s.table
    BY <1>8
  <2> HIDE DEF tab, fresh, known, got
  <2>9. LoopInv(r, m, t)
    BY <1>1, <1>3, <1>4, <1>6, <1>10, <2>3, <2>4 DEF LoopInv
  <2> QED
    BY <2>9 DEF r
<1>9. CASE ~fresh /\ ~known
  <2>1. got = s.got /\ tab = s.table
    BY <1>9 DEF LoopInv
  <2> HIDE DEF tab, fresh, known, got
  <2>9. LoopInv(r, m, t)
    BY <1>1, <1>3, <1>4, <1>6, <1>10, <2>1 DEF LoopInv
  <2> QED
    BY <2>9 DEF r
<1> QED
  BY <1>7, <1>8, <1>9

\* The whole loop.
LEMMA ProcessStep ==
    ASSUME NEW t, Sound(t), NEW m \in Message, NEW o \in Orders(m)
    PROVE  LoopInv(Process(m, t, o), m, t)
<1>1. LoopInv(Start(t), m, t)
  BY DEF LoopInv, Start, Keeps
<1>2. /\ o[1] \in {"type", "requested", "other"} /\ o[2] \in {"type", "requested", "other"}
      /\ o[1] = "requested" \/ o[2] = "requested" => m.requested # NoIp
  BY DEF Orders
<1>3. LoopInv(Option(Start(t), m, o[1]), m, t)
  BY <1>1, <1>2, OptionStep
<1> QED
  BY <1>2, <1>3, OptionStep DEF Process

-----------------------------------------------------------------------------
(* A free address. *)

\* The subnet has more addresses than the cache and the three reserved ones
\* can take.
LEMMA FreeLeft ==
    ASSUME NEW t, Sound(t)
    PROVE  Free(t) # {}
<1> SUFFICES ASSUME Free(t) = {} PROVE FALSE
  OBVIOUS
<1> DEFINE n == Len(t) + 3
           g == [k \in 1..n |-> IF k <= Len(t) THEN t[k].ip
                                ELSE IF k = Len(t) + 1 THEN 0
                                ELSE IF k = Len(t) + 2 THEN MyIp ELSE Size - 1]
           f == [a \in Host |-> CHOOSE k \in 1..n : g[k] = a]
<1>1. Len(t) \in Nat /\ DOMAIN t = 1..Len(t) /\ n \in Nat /\ n < Size /\ Size \in Nat
  BY SubnetAssumption, RoomAssumption DEF Sound
<1>2. ASSUME NEW a \in Host PROVE \E k \in 1..n : g[k] = a
  <2>1. a \in {0, MyIp, Size - 1} \/ \E i \in DOMAIN t : t[i].ip = a
    BY DEF Free, Valid
  <2> QED
    BY <1>1, <2>1
<1> HIDE DEF n, g
<1>3. f \in [Host -> 1..n] /\ \A a \in Host : g[f[a]] = a
  BY <1>2
<1> HIDE DEF f
<1>4. IsFiniteSet(Host) /\ Cardinality(Host) = Size
  BY <1>1, FS_Interval DEF Host
<1>5. IsFiniteSet(1..n) /\ Cardinality(1..n) = n
  BY <1>1, FS_Interval
<1>6. \E x, y \in Host : x # y /\ f[x] = f[y]
  BY <1>1, <1>3, <1>4, <1>5, FS_PigeonHole
<1> QED
  BY <1>3, <1>6

-----------------------------------------------------------------------------
(* The leases. *)

LeaseInv ==
    /\ Sound(table)
    /\ offered \in [Client -> Host \cup {NoIp}]
    /\ leased \in [Client -> Host \cup {NoIp}]
    /\ \A c \in Client : offered[c] # NoIp => Promise(table, c, offered[c])
    /\ \A c \in Client : leased[c] # NoIp => Promise(table, c, leased[c])

LEMMA EmptyIsSound == Sound(<<>>)
BY SubnetAssumption DEF Sound

LEMMA FreshStep == Fresh => LeaseInv'
BY EmptyIsSound DEF Fresh, LeaseInv

\* What a client is told, it can rely on.
LEMMA ToldStep ==
    ASSUME LeaseInv, NEW m \in Message, NEW response, NEW ip,
           NEW received \in BOOLEAN,
           Told(m, response, ip, received),
           Sound(table'), Keeps(table, table'),
           received /\ response \in {"ACK", "OFFER"} => Promise(table', m.mac, ip)
    PROVE  LeaseInv'
<1>1. m.mac \in Client
  BY DEF Message
<1>2. received /\ response \in {"ACK", "OFFER"} => ip \in Host /\ ip # NoIp
  BY SubnetAssumption DEF Promise, Ip
<1>3. /\ offered' \in [Client -> Host \cup {NoIp}]
      /\ leased' \in [Client -> Host \cup {NoIp}]
  BY <1>1, <1>2 DEF LeaseInv, Told
<1>4. ASSUME NEW c \in Client, offered'[c] # NoIp
      PROVE  Promise(table', c, offered'[c])
  <2>1. CASE c = m.mac /\ response = "OFFER"
    BY <1>1, <1>4, <2>1 DEF LeaseInv, Told
  <2>2. CASE ~(c = m.mac /\ response = "OFFER")
    <3>1. offered'[c] = offered[c] /\ offered[c] \in Host
      BY <1>1, <1>4, <2>2 DEF LeaseInv, Told
    <3> QED
      BY <1>4, <3>1 DEF LeaseInv, Keeps
  <2> QED
    BY <2>1, <2>2
<1>5. ASSUME NEW c \in Client, leased'[c] # NoIp
      PROVE  Promise(table', c, leased'[c])
  <2>1. CASE leased'[c] = leased[c]
    <3>1. leased[c] \in Host
      BY <1>5, <2>1 DEF LeaseInv
    <3> QED
      BY <1>5, <2>1, <3>1 DEF LeaseInv, Keeps
  <2>2. CASE leased'[c] # leased[c]
    <3>1. c = m.mac /\ received /\ response = "ACK" /\ leased'[c] = ip
      BY <1>1, <1>5, <2>2 DEF LeaseInv, Told
    <3> QED
      BY <3>1
  <2> QED
    BY <2>1, <2>2
<1> QED
  BY <1>3, <1>4, <1>5 DEF LeaseInv

\* process_dhcp_message keeps the leases, and its search ends.
LEMMA HandleStep ==
    ASSUME LeaseInv, NEW m \in Message, NEW o \in Orders(m), Handle(m, o)
    PROVE  LeaseInv' /\ (server' # "searching" \/ server' = server)
<1> DEFINE s == Process(m, table, o)
<1>1. LoopInv(s, m, table)
  BY ProcessStep DEF LeaseInv
<1>2. Sound(s.table) /\ Keeps(table, s.table) /\ m.mac \in Client
  BY <1>1 DEF LoopInv, Message
<1> HIDE DEF s
<1>3. CASE NoResponse(s, m)
  BY <1>2, <1>3, ToldStep DEF NoResponse
<1>4. ASSUME NEW ok \in BOOLEAN, NEW received \in {FALSE, ok},
             Respond(s, m, ok, received)
      PROVE  LeaseInv' /\ server' # "searching"
  <2>1. s.response = "ACK" => Promise(s.table, m.mac, s.ip)
    BY <1>1 DEF LoopInv
  <2>2. s.response # "OFFER" /\ table' = s.table /\ Told(m, s.response, s.ip, received)
    BY <1>4 DEF Respond
  <2>3. LeaseInv'
    BY <1>2, <2>1, <2>2, ToldStep
  <2> QED
    BY <1>4, <2>3 DEF Respond, Send, Goto
<1>5. ASSUME NEW ok \in BOOLEAN, NEW received \in {FALSE, ok},
             OfferKnown(s, m, ok, received)
      PROVE  LeaseInv' /\ server' # "searching"
  <2> DEFINE ip == Lookup(s.table, m.mac)
  <2>1. Has(s.table, m.mac)
    BY <1>2, <1>5, LookupNone DEF OfferKnown
  <2>2. PICK i \in DOMAIN s.table : s.table[i].mac = m.mac
    BY <2>1 DEF Has
  <2>3. Promise(s.table, m.mac, ip)
    BY <1>2, <2>2, LookupFound DEF Promise, Sound
  <2> HIDE DEF ip
  <2>4. table' = s.table /\ Told(m, "OFFER", ip, received)
    BY <1>5 DEF OfferKnown, ip
  <2>5. LeaseInv'
    BY <1>2, <2>3, <2>4, ToldStep
  <2> QED
    BY <1>5, <2>5 DEF OfferKnown, Send, Goto
<1>6. ASSUME NEW ok \in BOOLEAN, NEW received \in {FALSE, ok},
             OfferNew(s, m, ok, received)
      PROVE  LeaseInv' /\ server' # "searching"
  <2>1. ~Has(s.table, m.mac)
    BY <1>2, <1>6, LookupNone DEF OfferNew
  <2>2. Free(s.table) # {}
    BY <1>2, FreeLeft
  <2>3. PICK ip \in NextIp(s.table, current) :
          /\ table' = Add(s.table, m.mac, ip)
          /\ Told(m, "OFFER", ip, received) /\ Send(ok)
    BY <1>6, <2>2 DEF OfferNew
  <2>4. ip \in Host /\ Valid(s.table, ip)
    BY DEF NextIp, Free
  <2>5. /\ Sound(table') /\ Promise(table', m.mac, ip)
        /\ Keeps(s.table, table')
    BY <1>2, <2>1, <2>3, <2>4, AddIsSound
  <2>6. Keeps(table, table')
    BY <1>2, <2>5, KeepsTrans
  <2>7. LeaseInv'
    BY <2>3, <2>5, <2>6, ToldStep
  <2> QED
    BY <2>3, <2>7 DEF Send, Goto
<1>7. \/ NoResponse(s, m)
      \/ \E ok \in BOOLEAN : \E received \in {FALSE, ok} :
            \/ Respond(s, m, ok, received)
            \/ OfferKnown(s, m, ok, received)
            \/ OfferNew(s, m, ok, received)
  BY DEF Handle, s
<1>8. CASE NoResponse(s, m)
  BY <1>3, <1>8 DEF NoResponse
<1> QED
  BY <1>4, <1>5, <1>6, <1>7, <1>8

LInv == LeaseInv /\ SearchEnds

\* Every step keeps the leases and the end of the search.
LEMMA LeaseStep == LInv /\ [Next]_vars => LInv'
<1> SUFFICES ASSUME LInv, [Next]_vars PROVE LInv'
  OBVIOUS
<1>1. ASSUME UNCHANGED leases PROVE LeaseInv'
  BY <1>1 DEF LInv, LeaseInv, leases
<1>2. CASE UNCHANGED vars
  BY <1>1, <1>2 DEF vars, thread, LInv, SearchEnds
<1>3. ASSUME NEW m \in Message, NEW o \in Orders(m), Handle(m, o) PROVE LInv'
  BY <1>3, HandleStep DEF LInv, SearchEnds
<1>4. CASE \/ ServerLock \/ Select \/ Ignore \/ ResetDefault \/ ReadCtrl
           \/ ServerClean \/ ServerUnlock \/ ServerExit \/ SelectFails \/ Idle
  <2>1. UNCHANGED leases
    BY <1>4 DEF ServerLock, Select, Ignore, ResetDefault, ReadCtrl, ServerClean,
                ServerUnlock, ServerExit, SelectFails, Idle
  <2>2. server' # "searching"
    BY <1>4 DEF ServerLock, Select, Ignore, ResetDefault, ReadCtrl, ServerClean,
                ServerUnlock, ServerExit, SelectFails, Idle, Goto, thread,
                LInv, SearchEnds
  <2> QED
    BY <1>1, <2>1, <2>2 DEF LInv, SearchEnds
<1>5. CASE Up \/ StartFails
  <2>1. LeaseInv'
    BY <1>1, <1>5, FreshStep DEF Up, StartFails
  <2> QED
    BY <1>5, <2>1 DEF Up, StartFails, thread, LInv, SearchEnds
<1>6. CASE \/ UpRunning \/ Create \/ Created \/ Down \/ SendHalt \/ SendHaltFails
           \/ Stop \/ StationUp \/ StationDown
  <2>1. UNCHANGED leases
    BY <1>6 DEF UpRunning, Create, Created, Down, SendHalt, SendHaltFails, Stop,
                LockMutex, CloseSockets, UnlockMutex, FreeBuffer, DeinitMutex,
                IsFinished, DeleteThread, Stopped, StationUp, StationDown
  <2>2. server' # "searching"
    BY <1>6 DEF UpRunning, Create, Created, Down, SendHalt, SendHaltFails, Stop,
                LockMutex, CloseSockets, UnlockMutex, FreeBuffer, DeinitMutex,
                IsFinished, DeleteThread, Stopped, StationUp, StationDown, thread,
                LInv, SearchEnds
  <2> QED
    BY <1>1, <2>1, <2>2 DEF LInv, SearchEnds
<1> QED
  BY <1>2, <1>3, <1>4, <1>5, <1>6 DEF Next, Server, Caller

LEMMA InitLInv == Init => LInv
BY EmptyIsSound DEF Init, LInv, LeaseInv, SearchEnds

LEMMA LeaseAlways == Spec => []LInv
BY InitLInv, LeaseStep, PTL DEF Spec

\* next_yiaddr always finds an address, for every subnet that has four addresses
\* more than the cache has places.
THEOREM SearchAlwaysEnds == Spec => []SearchEnds
BY LeaseAlways, PTL DEF LInv

\* No two clients are given the same address, as long as the cache has room for
\* them.
THEOREM LeasesAreAlwaysUnique == Spec => []LeasesAreUnique
<1>1. LInv => LeasesAreUnique
  <2> SUFFICES ASSUME LInv, NEW c \in Client, leased[c] # NoIp
               PROVE  /\ leased[c] \notin {0, MyIp, Size - 1}
                      /\ \A d \in Client \ {c} : leased[d] = leased[c] =>
                            /\ ~Has(table, c) /\ ~Has(table, d)
                            /\ Len(table) = CacheSize
    BY DEF LeasesAreUnique
  <2>1. Promise(table, c, leased[c]) /\ Sound(table)
    BY DEF LInv, LeaseInv
  <2>2. ASSUME NEW d \in Client \ {c}, leased[d] = leased[c]
        PROVE  ~Has(table, c) /\ ~Has(table, d) /\ Len(table) = CacheSize
    <3>1. Promise(table, d, leased[c])
      BY <2>2 DEF LInv, LeaseInv
    <3> QED
      BY <2>1, <2>2, <3>1 DEF Promise, Sound, Has
  <2> QED
    BY <2>1, <2>2 DEF Promise, Reserved
<1> QED
  BY <1>1, LeaseAlways, PTL

\* The option that names the client's own address sets got_ip, and leaves a full
\* cache alone.
LEMMA OwnAddress ==
    ASSUME NEW t, Sound(t), NEW c \in Client, NEW a, Promise(t, c, a)
    PROVE  /\ a \in Host
           /\ Lookup(t, c) # NoIp => Lookup(t, c) = a
           /\ Lookup(t, c) = NoIp => Valid(t, a) /\ Add(t, c, a) = t
<1>1. CASE Has(t, c)
  <2>1. PICK i \in DOMAIN t : t[i].mac = c /\ t[i].ip = a
    BY <1>1 DEF Promise
  <2>2. Lookup(t, c) = a
    BY <2>1, LookupFound
  <2>3. Lookup(t, c) # NoIp
    BY <1>1, LookupNone
  <2> QED
    BY <2>2, <2>3 DEF Promise
<1>2. CASE ~Has(t, c)
  <2>1. Lookup(t, c) = NoIp
    BY <1>2, LookupNone
  <2>2. Valid(t, a) /\ a \in Host
    BY <1>2 DEF Promise, Has, Valid, Reserved
  <2>3. Len(t) = CacheSize /\ CacheSize \in Nat
    BY <1>2, SubnetAssumption DEF Promise, Has
  <2>4. Add(t, c, a) = t
    BY <2>3 DEF Add
  <2> QED
    BY <2>1, <2>2, <2>4
<1> QED
  BY <1>1, <1>2

\* A client is acknowledged the address it was offered.
THEOREM OffersAreHonoured == Spec => []OfferIsHonoured
<1>1. LInv => OfferIsHonoured
  <2> SUFFICES ASSUME LInv, NEW c \in Client, offered[c] # NoIp,
                      NEW o \in {<<"type", "requested">>, <<"requested", "type">>}
               PROVE  LET s == Process(Ask(c, offered[c]), table, o)
                      IN  s.response = "ACK" /\ s.ip = offered[c]
    BY DEF OfferIsHonoured
  <2> DEFINE a == offered[c]
             m == Ask(c, a)
             s0 == Start(table)
  <2>1. Promise(table, c, a) /\ Sound(table)
    BY DEF LInv, LeaseInv
  <2>2. /\ a \in Host /\ a # NoIp
        /\ Lookup(table, c) # NoIp => Lookup(table, c) = a
        /\ Lookup(table, c) = NoIp => Valid(table, a) /\ Add(table, c, a) = table
    BY <2>1, OwnAddress
  <2>3. m.mac = c /\ m.type = "REQUEST" /\ m.ciaddr = NoIp /\ m.requested = a
    BY DEF Ask
  <2>4. NoIp \notin Host
    BY SubnetAssumption DEF Ip
  <2> HIDE DEF a, m
  <2>5. ASSUME NEW s, s.table = table
        PROVE  LET r == Option(s, m, "requested")
               IN  /\ r.table = table /\ r.ip = a /\ r.got = TRUE
                   /\ s.need = TRUE => r.response = "ACK"
    BY <2>2, <2>3, <2>5 DEF Option
  <2>6. ASSUME NEW s, s.table = table, s.ip = a, s.got = TRUE
        PROVE  LET r == Option(s, m, "type")
               IN  r.ip = a /\ r.response = "ACK"
    BY <2>2, <2>3, <2>6 DEF Option
  <2>7. LET r == Option(s0, m, "type") IN r.table = table /\ r.need = TRUE
    BY <2>3, <2>4 DEF Option, Start
  <2>8. s0.table = table
    BY DEF Start
  <2>9. CASE o = <<"type", "requested">>
    <3>1. Process(m, table, o) = Option(Option(s0, m, "type"), m, "requested")
      BY <2>9 DEF Process
    <3> QED
      BY <2>5, <2>7, <3>1 DEF a, m
  <2>10. CASE o = <<"requested", "type">>
    <3>1. Process(m, table, o) = Option(Option(s0, m, "requested"), m, "type")
      BY <2>10 DEF Process
    <3> DEFINE r == Option(s0, m, "requested")
    <3>2. r.table = table /\ r.ip = a /\ r.got = TRUE
      BY <2>5, <2>8
    <3> HIDE DEF r
    <3>3. Option(r, m, "type").ip = a /\ Option(r, m, "type").response = "ACK"
      BY <2>6, <3>2
    <3> QED
      BY <3>1, <3>3 DEF a, m, r
  <2> QED
    BY <2>9, <2>10
<1> QED
  BY <1>1, LeaseAlways, PTL

-----------------------------------------------------------------------------
(* The life of the server. *)

Serving == {"ready", "select", "recv", "reset", "searching"}
Holding == {"select", "recv", "reset", "searching", "clean", "unlock"}
Started == ctl = "created" \/ (running /\ ctl \in {"idle", "halt", "lock"})
Releasing == {"close", "unlock", "free", "deinit", "finished", "delete"}

\* Where the caller and the server stand with each other.
Cycle ==
    /\ ctl \in {"idle", "create", "created", "halt", "lock", "stopped"} \cup Releasing
    /\ ctl \in {"create", "created"} => flag /\ ~running
    /\ ctl \in {"halt", "lock", "stopped"} \cup Releasing => ~flag /\ running
    /\ ctl = "idle" /\ ~running => ~Alive
    /\ ctl = "idle" /\ flag /\ "start" \notin faults => running
    /\ ctl = "create" => ~Alive /\ mutex = "free" /\ open /\ buf
    /\ Started =>
          /\ server \in Serving \cup {"clean", "unlock", "exit", "ended", "freed"}
          /\ buf /\ mutex \in {"free", "server"}
          /\ mutex = "server" <=> server \in Holding
          /\ open <=> server \in Serving \cup {"clean"}
          /\ ctl # "lock" /\ "select" \notin faults => server \in Serving
          /\ ctl = "lock" => server # "freed"
          /\ ctl = "lock" => halt \/ server \in {"clean", "unlock", "exit", "ended"}
    /\ ctl \in {"close", "unlock"} =>
          mutex = "caller" /\ server \in {"ready", "exit", "ended"}
    /\ ctl \in {"free", "deinit"} =>
          \/ mutex = "free" /\ server \in {"ready", "exit", "ended"}
          \/ mutex = "server" /\ server = "select"
    /\ ctl \in {"unlock", "free", "deinit"} => ~open
    /\ ctl \in {"finished", "delete"} =>
          mutex = "none" /\ server \in {"ready", "exit", "ended"}
    /\ ctl = "stopped" => ~Alive
    /\ ctl \in Releasing /\ ~early => server \in {"exit", "ended"}
    /\ halt => ctl \in {"lock", "close"}
    /\ "ctrl" \in rfds => ctl = "lock"
    /\ server \notin {"recv", "reset", "searching"} => rfds = {}

ThreadInv == (~early => bad \subseteq {"deleted twice"}) /\ (bad = {} => Cycle)

\* Every step keeps the two in step.
LEMMA ThreadStep == ThreadInv /\ [Next]_vars => ThreadInv'
<1> SUFFICES ASSUME ThreadInv, [Next]_vars PROVE ThreadInv'
  OBVIOUS
<1>1. ASSUME UNCHANGED <<calls, shared, thread, history>> PROVE ThreadInv'
  BY <1>1 DEF calls, shared, thread, history, ThreadInv, Cycle, Started, Alive
<1> SUFFICES ASSUME bad = {}, Next PROVE ThreadInv'
  BY <1>1 DEF Next, vars
<1>2. Cycle
  BY DEF ThreadInv
<1> USE <1>2 DEF ThreadInv, Cycle, Started, Releasing, Serving, Holding, Alive, Goto,
                 Misuse, calls, shared, thread, history
<1>3. ASSUME NEW m \in Message, NEW o \in Orders(m), Handle(m, o) PROVE ThreadInv'
  <2>1. /\ server = "recv" /\ rfds' = rfds \ {"dhcp"}
        /\ server' \in {"recv", "reset", "searching"}
    BY <1>3 DEF Handle, Receives, NoResponse, Respond, OfferKnown, OfferNew, Send
  <2>2. UNCHANGED <<calls, shared, faults, early>> /\ (buf => UNCHANGED bad)
    BY <1>3 DEF Handle, Receives
  <2>3. buf
    BY <2>1
  <2> QED
    BY <2>1, <2>2, <2>3
<1>4. CASE ServerLock
  BY <1>4 DEF ServerLock
<1>5. CASE Select
  BY <1>5 DEF Select
<1>6. CASE Ignore
  BY <1>6 DEF Ignore
<1>7. CASE ResetDefault
  BY <1>7 DEF ResetDefault
<1>8. CASE ReadCtrl
  BY <1>8 DEF ReadCtrl
<1>9. CASE ServerClean
  BY <1>9 DEF ServerClean
<1>10. CASE ServerUnlock
  BY <1>10 DEF ServerUnlock
<1>11. CASE ServerExit
  BY <1>11 DEF ServerExit
<1>12. CASE SelectFails
  BY <1>12 DEF SelectFails, Fail
<1>13. CASE Idle
  BY <1>13 DEF Idle, Waits
<1>14. CASE UpRunning
  BY <1>14 DEF UpRunning
<1>15. CASE Up
  BY <1>15 DEF Up
<1>16. CASE StartFails
  <2>1. /\ ~Alive /\ ~running /\ ctl' = "idle" /\ halt' = FALSE
        /\ UNCHANGED <<running, thread, early, bad>>
        /\ "start" \in faults'
    BY <1>16 DEF StartFails, Fail
  <2> QED
    BY <2>1
<1>17. CASE Create
  BY <1>17 DEF Create
<1>18. CASE Created
  BY <1>18 DEF Created
<1>19. CASE Down
  BY <1>19 DEF Down
<1>20. CASE SendHalt
  BY <1>20 DEF SendHalt
<1>21. CASE SendHaltFails
  BY <1>21 DEF SendHaltFails, Fail
<1>22. CASE LockMutex
  BY <1>22 DEF LockMutex
<1>23. CASE CloseSockets
  BY <1>23 DEF CloseSockets
<1>24. CASE UnlockMutex
  BY <1>24 DEF UnlockMutex
<1>25. CASE FreeBuffer
  BY <1>25 DEF FreeBuffer
<1>26. CASE DeinitMutex
  BY <1>26 DEF DeinitMutex
<1>27. CASE IsFinished
  BY <1>27 DEF IsFinished
<1>28. CASE DeleteThread
  BY <1>28 DEF DeleteThread
<1>29. CASE Stopped
  BY <1>29 DEF Stopped
<1>30. CASE StationUp \/ StationDown
  <2>1. UNCHANGED <<calls, shared, thread, history>>
    BY <1>30 DEF StationUp, StationDown
  <2> QED
    BY <1>1, <2>1
<1> QED
  BY <1>3, <1>4, <1>5, <1>6, <1>7, <1>8, <1>9, <1>10, <1>11, <1>12, <1>13, <1>14, <1>15, <1>16, <1>17, <1>18, <1>19, <1>20, <1>21, <1>22, <1>23, <1>24, <1>25, <1>26, <1>27, <1>28, <1>29, <1>30
     DEF Next, Server, Caller, Stop

LEMMA InitThreadInv == Init => ThreadInv
BY DEF Init, ThreadInv, Cycle, Started, Releasing, Serving, Holding, Alive

LEMMA ThreadAlways == Spec => []ThreadInv
BY InitThreadInv, ThreadStep, PTL DEF Spec

\* A stop never touches what is gone, unless it comes before the server has
\* taken the mutex; the one exception is a second deletion of the thread.
THEOREM StopIsAlwaysClean == Spec => []StopIsClean
<1>1. ThreadInv => StopIsClean
  BY DEF ThreadInv, StopIsClean
<1> QED
  BY <1>1, ThreadAlways, PTL

\* An access point that is up is served, unless starting or select failed.
THEOREM AlwaysServedWhenUp == Spec => []ServedWhenUp
<1>1. ThreadInv => ServedWhenUp
  BY DEF ThreadInv, Cycle, Started, Serving, Holding, Alive, ServedWhenUp
<1> QED
  BY <1>1, ThreadAlways, PTL

\* The safety half of CallsReturn: whatever messages come in between, the HALT
\* that dhcp_server_stop has sent is not lost, so that the mutex it waits for is
\* free or will be given back by a server that still has the HALT to read.
THEOREM HaltIsAlwaysSeen == Spec => []HaltIsSeen
<1>1. ThreadInv /\ SearchEnds => HaltIsSeen
  BY DEF ThreadInv, Cycle, Started, Serving, Holding, SearchEnds, HaltIsSeen
<1> QED
  BY <1>1, ThreadAlways, SearchAlwaysEnds, PTL

-----------------------------------------------------------------------------
(* Types. *)

\* The parts of DTypeOK that are not in LeaseInv.
Flags ==
    /\ flag \in BOOLEAN /\ running \in BOOLEAN /\ buf \in BOOLEAN /\ open \in BOOLEAN
    /\ halt \in BOOLEAN /\ sta \in BOOLEAN /\ early \in BOOLEAN
Places ==
    /\ ctl \in {"idle", "create", "created", "halt", "lock", "close", "unlock",
                "free", "deinit", "finished", "delete", "stopped"}
    /\ mutex \in {"none", "free", "server", "caller"}
    /\ server \in {"none", "ready", "select", "recv", "reset", "searching", "clean",
                   "unlock", "exit", "ended", "freed"}
    /\ rfds \subseteq {"dhcp", "ctrl"}
    /\ current \in Host /\ messages \in 0..MaxMessages
    /\ netif \in {"none", "sta", "ap"}
    /\ faults \subseteq {"start", "halt", "select"}
    /\ bad \subseteq {"mutex", "socket", "buffer", "freed", "deleted twice"}

LEMMA PlacesStep == Places /\ [Next]_vars => Places'
<1> SUFFICES ASSUME Places, [Next]_vars PROVE Places'
  OBVIOUS
<1>1. 0 \in Host /\ MaxMessages \in Nat
  BY SubnetAssumption, RoomAssumption DEF Host
<1> USE <1>1 DEF Places, calls, shared, thread, leases, route, history, Goto,
                 Misuse, Fail, Fresh
<1>2. CASE UNCHANGED vars
  BY <1>2 DEF vars
<1>3. ASSUME NEW m \in Message, NEW o \in Orders(m), Handle(m, o) PROVE Places'
  <2>1. /\ rfds' = rfds \ {"dhcp"} /\ server = "recv"
        /\ messages < MaxMessages /\ messages' = messages + 1
        /\ UNCHANGED <<calls, shared, faults, early>>
        /\ bad' = bad \/ bad' = bad \cup {"buffer"}
    BY <1>3 DEF Handle, Receives
  <2>2. server' \in {"recv", "reset", "searching"} /\ netif' \in {"ap", netif}
    BY <1>3, <2>1 DEF Handle, NoResponse, Respond, OfferKnown, OfferNew, Send
  <2>3. current' \in Host
    BY <1>3, <2>1 DEF Handle, NoResponse, Respond, OfferKnown, OfferNew, NextIp, Free
  <2>4. messages' = messages + 1 /\ messages < MaxMessages
    BY <1>3, Zenon DEF Handle, Receives
  <2>5. messages \in 0..MaxMessages
    BY Zenon
  <2>6. messages' \in 0..MaxMessages
    BY ONLY <1>1, <2>4, <2>5
  <2>7. rfds' \subseteq {"dhcp", "ctrl"}
    BY <2>1, Zenon
  <2>8. ctl' = ctl /\ mutex' = mutex /\ faults' = faults
    BY <2>1
  <2> QED
    BY <2>1, <2>2, <2>3, <2>6, <2>7, <2>8
<1>4. CASE ServerLock
  BY <1>4 DEF ServerLock
<1>5. CASE Select
  BY <1>5 DEF Select
<1>6. CASE Ignore
  BY <1>6 DEF Ignore
<1>7. CASE ResetDefault
  BY <1>7 DEF ResetDefault
<1>8. CASE ReadCtrl
  BY <1>8 DEF ReadCtrl
<1>9. CASE ServerClean
  BY <1>9 DEF ServerClean
<1>10. CASE ServerUnlock
  BY <1>10 DEF ServerUnlock
<1>11. CASE ServerExit
  BY <1>11 DEF ServerExit
<1>12. CASE SelectFails
  BY <1>12 DEF SelectFails
<1>13. CASE Idle
  BY <1>13 DEF Idle
<1>14. CASE UpRunning
  BY <1>14 DEF UpRunning
<1>15. CASE Up
  BY <1>15 DEF Up
<1>16. CASE StartFails
  BY <1>16 DEF StartFails
<1>17. CASE Create
  BY <1>17 DEF Create
<1>18. CASE Created
  BY <1>18 DEF Created
<1>19. CASE Down
  BY <1>19 DEF Down
<1>20. CASE SendHalt
  BY <1>20 DEF SendHalt
<1>21. CASE SendHaltFails
  BY <1>21 DEF SendHaltFails
<1>22. CASE LockMutex
  BY <1>22 DEF LockMutex
<1>23. CASE CloseSockets
  BY <1>23 DEF CloseSockets
<1>24. CASE UnlockMutex
  BY <1>24 DEF UnlockMutex
<1>25. CASE FreeBuffer
  BY <1>25 DEF FreeBuffer
<1>26. CASE DeinitMutex
  BY <1>26 DEF DeinitMutex
<1>27. CASE IsFinished
  BY <1>27 DEF IsFinished
<1>28. CASE DeleteThread
  BY <1>28 DEF DeleteThread
<1>29. CASE Stopped
  BY <1>29 DEF Stopped
<1>30. CASE StationUp
  BY <1>30 DEF StationUp
<1>31. CASE StationDown
  BY <1>31 DEF StationDown
<1> QED
  BY <1>2, <1>3, <1>4, <1>5, <1>6, <1>7, <1>8, <1>9, <1>10, <1>11, <1>12, <1>13, <1>14, <1>15, <1>16, <1>17, <1>18, <1>19, <1>20, <1>21, <1>22, <1>23, <1>24, <1>25, <1>26, <1>27, <1>28, <1>29, <1>30, <1>31
     DEF Next, Server, Caller, Stop

LEMMA FlagsStep == Flags /\ [Next]_vars => Flags'
<1> SUFFICES ASSUME Flags, [Next]_vars PROVE Flags'
  OBVIOUS
<1> USE DEF Flags, calls, shared, thread, leases, route, history
<1>2. CASE UNCHANGED vars
  BY <1>2 DEF vars
<1>3. ASSUME NEW m \in Message, NEW o \in Orders(m), Handle(m, o) PROVE Flags'
  <2>1. UNCHANGED <<calls, shared, faults, early, sta>>
    BY <1>3 DEF Handle, NoResponse, Respond, OfferKnown, OfferNew, Send
  <2> QED
    BY <2>1
<1>4. CASE ServerLock
  BY <1>4, Zenon DEF ServerLock
<1>5. CASE Select
  BY <1>5, Zenon DEF Select
<1>6. CASE Ignore
  BY <1>6, Zenon DEF Ignore
<1>7. CASE ResetDefault
  BY <1>7, Zenon DEF ResetDefault
<1>8. CASE ReadCtrl
  BY <1>8, Zenon DEF ReadCtrl
<1>9. CASE ServerClean
  BY <1>9, Zenon DEF ServerClean
<1>10. CASE ServerUnlock
  BY <1>10, Zenon DEF ServerUnlock
<1>11. CASE ServerExit
  BY <1>11, Zenon DEF ServerExit
<1>12. CASE SelectFails
  BY <1>12, Zenon DEF SelectFails
<1>13. CASE Idle
  BY <1>13, Zenon DEF Idle
<1>14. CASE UpRunning
  BY <1>14, Zenon DEF UpRunning
<1>15. CASE Up
  BY <1>15, Zenon DEF Up
<1>16. CASE StartFails
  BY <1>16, Zenon DEF StartFails
<1>17. CASE Create
  BY <1>17, Zenon DEF Create
<1>18. CASE Created
  BY <1>18, Zenon DEF Created
<1>19. CASE Down
  BY <1>19, Zenon DEF Down
<1>20. CASE SendHalt
  BY <1>20, Zenon DEF SendHalt
<1>21. CASE SendHaltFails
  BY <1>21, Zenon DEF SendHaltFails
<1>22. CASE LockMutex
  BY <1>22, Zenon DEF LockMutex
<1>23. CASE CloseSockets
  BY <1>23, Zenon DEF CloseSockets
<1>24. CASE UnlockMutex
  BY <1>24, Zenon DEF UnlockMutex
<1>25. CASE FreeBuffer
  BY <1>25, Zenon DEF FreeBuffer
<1>26. CASE DeinitMutex
  BY <1>26, Zenon DEF DeinitMutex
<1>27. CASE IsFinished
  BY <1>27, Zenon DEF IsFinished
<1>28. CASE DeleteThread
  BY <1>28, Zenon DEF DeleteThread
<1>29. CASE Stopped
  BY <1>29, Zenon DEF Stopped
<1>30. CASE StationUp
  BY <1>30, Zenon DEF StationUp
<1>31. CASE StationDown
  BY <1>31, Zenon DEF StationDown
<1> QED
  BY <1>2, <1>3, <1>4, <1>5, <1>6, <1>7, <1>8, <1>9, <1>10, <1>11, <1>12, <1>13, <1>14, <1>15, <1>16, <1>17, <1>18, <1>19, <1>20, <1>21, <1>22, <1>23, <1>24, <1>25, <1>26, <1>27, <1>28, <1>29, <1>30, <1>31
     DEF Next, Server, Caller, Stop

\* Type correctness.
THEOREM TypesAreRight == Spec => []DTypeOK
<1>1. Init => Places /\ Flags
  <2>1. 0 \in Host /\ MaxMessages \in Nat
    BY SubnetAssumption, RoomAssumption DEF Host
  <2>2. Init => Places
    BY <2>1 DEF Init, Places
  <2>3. Init => Flags
    BY Zenon DEF Init, Flags
  <2> QED
    BY <2>2, <2>3
<1>2. Spec => []Places
  BY <1>1, PlacesStep, PTL DEF Spec
<1>3. Spec => []Flags
  BY <1>1, FlagsStep, PTL DEF Spec
<1>4. Places /\ Flags /\ LInv => DTypeOK
  BY DEF Places, Flags, LInv, LeaseInv, Sound, DTypeOK
<1> QED
  BY <1>2, <1>3, <1>4, LeaseAlways, PTL
=============================================================================
