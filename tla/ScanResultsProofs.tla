-------------------------- MODULE ScanResultsProofs --------------------------
(***************************************************************************)
(* The life and the contents of the sets of results, for any networks,     *)
(* addresses, scans and reports: who owns a set (SInv, for FreedOnce), the *)
(* types (TInv), and what a set holds of the scan that filled it (CInv).   *)
(***************************************************************************)
EXTENDS ScanSortProofs

\* The types of what the argument about ownership needs; the contents of the
\* sets come later.
Types ==
    /\ set_ptr \in Ptr /\ upload_ptr \in Ptr /\ live \subseteq Addr
    /\ pc \in [Thread -> {"idle", "copy", "assoc", "test", "free", "clear"}]
    /\ arg \in [Thread -> Ptr]
    /\ pc["timer"] # "copy"

\* The strengthening of FreedOnce: only one thread at a time is between its
\* look at a set and the end of its use of it, and what it has seen is the
\* present set.
Owner ==
    /\ ~bad
    /\ live = {set_ptr} \ ({NULL} \cup {arg[t] : t \in Clearing})
    /\ upload_ptr # NULL => upload_ptr = set_ptr /\ scan_cfm
    /\ ~(Window("wpa") /\ Window("timer"))
    /\ \A t \in Thread : pc[t] = "free" => arg[t] = set_ptr /\ set_ptr # NULL
    /\ \A t \in Thread : pc[t] = "clear" => arg[t] = set_ptr
    /\ pc["wpa"] = "copy" => upload_ptr # NULL

SInv == Types /\ (~overtaken => Owner)

\* While no thread is in its window, the present set is the one allocated.
LEMMA NoWindow ==
    ASSUME Types, Owner, \A t \in Thread : ~Window(t)
    PROVE  live = {set_ptr} \ {NULL} /\ Clearing = {}
BY NullAssumption DEF Types, Owner, Window, Clearing, Thread, Ptr

LEMMA InitSInv == Init => SInv
BY NullAssumption DEF Init, SInv, Types, Owner, Thread, Ptr, Clearing, Window

\* Every step keeps the types.
LEMMA TypesStep == Types /\ Next => Types'
<1> SUFFICES ASSUME Types, Next PROVE Types'
  OBVIOUS
<1> USE NullAssumption DEF Types, Thread, Ptr
<1>1. CASE UseFreed
  BY <1>1 DEF UseFreed, pointers, memory, threads
<1>2. ASSUME NEW it \in Item, NEW ok \in BOOLEAN, ResultAppend(it, ok) PROVE Types'
  BY <1>2 DEF ResultAppend, pointers, threads
<1>3. ASSUME NEW it \in Item, NEW ok \in BOOLEAN, ResultNew(it, ok) PROVE Types'
  BY <1>3 DEF ResultNew, threads, Stale
<1>4. CASE StartCfm
  BY <1>4 DEF StartCfm, Release, memory, Dangling
<1>5. CASE ConnectInd
  BY <1>5 DEF ConnectInd, Release, memory, threads
<1>6. CASE ScanBegin
  BY <1>6 DEF ScanBegin, pointers, memory, threads
<1>7. ASSUME NEW t \in Thread, FreeAll(t) PROVE Types'
  BY <1>7 DEF FreeAll, Goto, pointers, memory
<1>8. ASSUME NEW t \in Thread, ClearPtr(t) PROVE Types'
  BY <1>8 DEF ClearPtr, Goto, Take, memory
<1>9. ASSUME NEW yes \in BOOLEAN, WpaScan(yes) \/ PureScan(yes) PROVE Types'
  BY <1>9 DEF WpaScan, PureScan, AskScan, pointers, memory, threads
<1>10. ASSUME NEW yes \in BOOLEAN, GetScanRst(yes) PROVE Types'
  BY <1>10 DEF GetScanRst, Goto, pointers, memory
<1>11. CASE CopyRst \/ Associate \/ AssocTest
  BY <1>11 DEF CopyRst, Associate, AssocTest, Goto, Take, pointers, memory
<1>12. ASSUME NEW next \in {"off", "starting"},
              StartStation \/ StopStation(next) \/ StopTest
       PROVE  Types'
  BY <1>12 DEF StartStation, StopStation, StopTest, Goto, Take, pointers, memory
<1> QED
  BY <1>1, <1>2, <1>3, <1>4, <1>5, <1>6, <1>7, <1>8, <1>9, <1>10, <1>11, <1>12
     DEF Next, Kmsg, Wpa, Timer

\* Every step that overtakes nobody keeps the owner of the set.
LEMMA OwnerStep == Types /\ (~overtaken => Owner) /\ Next /\ ~overtaken' => Owner'
<1> SUFFICES ASSUME Types, ~overtaken => Owner, Next, ~overtaken' PROVE Owner'
  OBVIOUS
<1> USE NullAssumption DEF Types, Thread, Ptr
<1>1. CASE UseFreed
  BY <1>1 DEF UseFreed
<1>2. ASSUME Overtakes({}) PROVE Owner /\ \A t \in Thread : ~Window(t)
  BY <1>2 DEF Overtakes
<1>3. ASSUME NEW it \in Item, NEW ok \in BOOLEAN, ResultAppend(it, ok) PROVE Owner'
  BY <1>2, <1>3 DEF ResultAppend, pointers, threads, Owner, Window, Clearing
<1>4. ASSUME NEW it \in Item, NEW ok \in BOOLEAN, ResultNew(it, ok) PROVE Owner'
  <2>1. Owner /\ (\A t \in Thread : ~Window(t)) /\ live = {set_ptr} \ {NULL}
    BY <1>2, <1>4, NoWindow DEF ResultNew
  <2>2. \A t \in Thread : ~Window(t)'
    BY <2>1, <1>4 DEF ResultNew, threads, Window
  <2>3. live' = {set_ptr'} /\ set_ptr' # NULL
    BY <2>1, <1>4 DEF ResultNew
  <2>4. upload_ptr' = NULL
    BY <2>1, <1>4 DEF ResultNew, Stale, Owner
  <2>5. ~bad'
    BY <2>1, <1>4 DEF ResultNew, Owner
  <2> QED
    BY <2>2, <2>3, <2>4, <2>5 DEF Owner, Window, Clearing
<1>5. ASSUME StartCfm \/ ConnectInd PROVE Owner'
  <2>1. Owner /\ (\A t \in Thread : ~Window(t)) /\ live = {set_ptr} \ {NULL}
    BY <1>2, <1>5, NoWindow DEF StartCfm, ConnectInd
  <2>2. \A t \in Thread : ~Window(t)'
    BY <2>1, <1>5 DEF StartCfm, ConnectInd, threads, Window
  <2>3. live' = {set_ptr'} \ {NULL}
    BY <2>1, <1>5 DEF StartCfm, ConnectInd, Release, memory
  <2>4. upload_ptr' # NULL => upload_ptr' = set_ptr' /\ scan_cfm'
    BY <2>1, <1>5 DEF StartCfm, ConnectInd, Release, Owner
  <2>5. ~bad'
    BY <2>1, <1>5 DEF StartCfm, ConnectInd, Owner
  <2> QED
    BY <2>2, <2>3, <2>4, <2>5 DEF Owner, Window, Clearing
<1>6. CASE ScanBegin
  BY <1>6 DEF ScanBegin, pointers, memory, threads, history, Owner, Window, Clearing
<1>7. ASSUME NEW t \in Thread, FreeAll(t) PROVE Owner'
  <2>1. Owner /\ pc[t] = "free" /\ arg[t] = set_ptr /\ set_ptr # NULL
    BY <1>7 DEF FreeAll, Owner
  <2>2. Clearing = {} /\ live = {set_ptr}
    BY <2>1 DEF Owner, Clearing, Window
  <2>3. /\ live' = {} /\ ~bad' /\ Clearing' = {t}
        /\ UNCHANGED <<set_ptr, upload_ptr, scan_cfm, arg>>
    BY <2>1, <2>2, <1>7 DEF FreeAll, Goto, pointers, Owner, Clearing
  <2>4. pc' = [pc EXCEPT ![t] = "clear"]
    BY <1>7 DEF FreeAll, Goto
  <2> QED
    BY <2>1, <2>2, <2>3, <2>4 DEF Owner, Window
<1>8. ASSUME NEW t \in Thread, ClearPtr(t) PROVE Owner'
  <2>1. Owner /\ pc[t] = "clear" /\ arg[t] = set_ptr
    BY <1>8 DEF ClearPtr, Owner
  <2>2. live = {} /\ \A u \in Thread : u # t => ~Window(u)
    BY <2>1 DEF Owner, Clearing, Window
  <2>3. pc' = [pc EXCEPT ![t] = "idle"] /\ set_ptr' = NULL /\ upload_ptr' = NULL
        /\ UNCHANGED <<live, bad>>
    BY <1>8 DEF ClearPtr, Goto, memory
  <2>4. \A u \in Thread : ~Window(u)'
    BY <2>2, <2>3 DEF Window
  <2> QED
    BY <2>1, <2>2, <2>3, <2>4 DEF Owner, Window, Clearing
<1>9. ASSUME NEW yes \in BOOLEAN, WpaScan(yes) \/ PureScan(yes) PROVE Owner'
  BY <1>9 DEF WpaScan, PureScan, AskScan, pointers, memory, threads, history,
              Owner, Window, Clearing
<1>10. ASSUME NEW yes \in BOOLEAN, GetScanRst(yes) PROVE Owner'
  BY <1>10 DEF GetScanRst, Goto, Overtakes, pointers, memory, Owner, Window, Clearing
<1>11. CASE CopyRst
  <2>1. Owner /\ pc["wpa"] = "copy" /\ Clearing = {}
    BY <1>11 DEF CopyRst, Owner, Window, Clearing
  <2>2. upload_ptr \in live
    BY <2>1 DEF Owner
  <2>3. ~bad'
    BY <2>1, <2>2, <1>11 DEF CopyRst, Owner
  <2>4. UNCHANGED <<set_ptr, upload_ptr, scan_cfm, live, arg>>
    BY <1>11 DEF CopyRst, pointers, memory
  <2>5. /\ pc'["timer"] = pc["timer"]
        /\ pc'["wpa"] \in {"idle", "assoc"}
    BY <1>11 DEF CopyRst, Goto
  <2>6. Clearing' = {}
    BY <2>1, <2>5 DEF Clearing
  <2> QED
    BY <2>1, <2>3, <2>4, <2>5, <2>6 DEF Owner, Window
<1>12. CASE Associate
  BY <1>12 DEF Associate, Goto, pointers, memory, history, Owner, Window, Clearing
<1>13. CASE AssocTest
  <2>1. Owner /\ UNCHANGED <<set_ptr, upload_ptr, scan_cfm, live, bad>>
    BY <1>13 DEF AssocTest, Overtakes, pointers, memory
  <2>2. CASE upload_ptr # NULL
    <3>1. ~Window("timer")
      BY <1>13, <2>2 DEF AssocTest, Overtakes
    <3>2. /\ pc' = [pc EXCEPT !["wpa"] = "free"]
          /\ arg' = [arg EXCEPT !["wpa"] = upload_ptr] /\ pc["wpa"] = "test"
      BY <1>13, <2>2 DEF AssocTest, Goto, Take
    <3>3. Clearing = {} /\ Clearing' = {}
      BY <3>1, <3>2 DEF Clearing, Window
    <3> QED
      BY <2>1, <2>2, <3>1, <3>2, <3>3 DEF Owner, Window
  <2>3. CASE upload_ptr = NULL
    <3>1. pc' = [pc EXCEPT !["wpa"] = "idle"] /\ arg' = arg /\ pc["wpa"] = "test"
      BY <1>13, <2>3 DEF AssocTest, Goto
    <3>2. Clearing' = Clearing
      BY <3>1 DEF Clearing
    <3> QED
      BY <2>1, <2>3, <3>1, <3>2 DEF Owner, Window
  <2> QED
    BY <2>2, <2>3
<1>14. ASSUME NEW next \in {"off", "starting"}, StartStation \/ StopStation(next)
       PROVE  Owner'
  BY <1>14 DEF StartStation, StopStation, Goto, pointers, memory, history, Owner, Window, Clearing
<1>15. CASE StopTest
  BY <1>15 DEF StopTest, TimerRuns, Goto, Take, Overtakes, pointers, memory, Owner, Window, Clearing
<1> QED
  BY <1>1, <1>3, <1>4, <1>5, <1>6, <1>7, <1>8, <1>9, <1>10, <1>11, <1>12, <1>13,
     <1>14, <1>15
     DEF Next, Kmsg, Wpa, Timer

\* The inductive invariant holds in every behaviour.
LEMMA SInvAlways == Spec => []SInv
<1>1. SInv /\ [Next]_vars => SInv'
  <2>1. SInv /\ Next => SInv'
    BY TypesStep, OwnerStep DEF SInv
  <2>2. SInv /\ UNCHANGED vars => SInv'
    BY DEF SInv, Types, Owner, Window, Clearing, vars, pointers, memory, threads,
           history
  <2> QED
    BY <2>1, <2>2
<1> QED
  BY InitSInv, <1>1, PTL DEF Spec

\* A set of scan results is freed once and none is lost, unless a message of the
\* MAC or a second thread comes between a thread's look at the set and the end
\* of its use of it (sr_release_scan_results and its four callers).
THEOREM ResultsAreFreedOnce == Spec => []FreedOnce
<1>1. SInv => FreedOnce
  BY DEF SInv, Owner, FreedOnce
<1> QED
  BY SInvAlways, <1>1, PTL

-----------------------------------------------------------------------------
(* The contents of a set. *)

Sets == UNION {[1..n -> Item] : n \in 0..MaxBss}

Distinct(s) == \A i, j \in DOMAIN s : s[i].net = s[j].net => i = j
Sorted(s) == \A i, j \in DOMAIN s : i < j => Level[s[i].net] >= Level[s[j].net]

\* s holds what the reports h call for.
Lists(s, h) ==
    /\ Nets(s) \subseteq Nets(h)
    /\ Len(s) < MaxBss =>
          \A k \in 2..Len(h) : \E i \in DOMAIN s :
              s[i].net = h[k].net /\ (h[k].on => s[i].on)

LEMMA LenOfSet ==
    ASSUME NEW s \in Sets
    PROVE  /\ Len(s) \in 0..MaxBss /\ s \in Results(Len(s)) /\ s \in Seq(Item)
           /\ DOMAIN s = 1..Len(s)
<1>1. PICK n \in 0..MaxBss : s \in Results(n)
  BY DEF Sets, Results
<1>2. n \in Nat
  BY <1>1, BoundAssumption
<1> QED
  BY <1>1, <1>2, LenOfResults

LEMMA ResultsAreSets ==
    ASSUME NEW n \in 0..MaxBss, NEW s \in Results(n)
    PROVE  s \in Sets
BY DEF Sets, Results

LEMMA EmptySet == <<>> \in Sets /\ Distinct(<<>>) /\ Sorted(<<>>) /\ Len(<<>>) = 0
<1>1. <<>> \in Results(0)
  BY DEF Results
<1>2. 0 \in 0..MaxBss
  BY BoundAssumption
<1> QED
  BY <1>1, <1>2, ResultsAreSets DEF Distinct, Sorted

LEMMA AppendIs ==
    ASSUME NEW s \in Seq(Item), NEW it \in Item
    PROVE  /\ Append(s, it) \in Results(Len(s) + 1)
           /\ Append(s, it) \in Seq(Item) /\ Len(Append(s, it)) = Len(s) + 1
           /\ DOMAIN Append(s, it) = 1..(Len(s) + 1)
           /\ \A i \in 1..Len(s) : Append(s, it)[i] = s[i]
           /\ Append(s, it)[Len(s) + 1] = it
<1> DEFINE t == Append(s, it)
<1>1. /\ t \in Seq(Item) /\ Len(t) = Len(s) + 1 /\ DOMAIN t = 1..(Len(s) + 1)
      /\ \A i \in 1..Len(s) : t[i] = s[i]
      /\ t[Len(s) + 1] = it
  OBVIOUS
<1> HIDE DEF t
<1>2. t \in Results(Len(s) + 1)
  BY <1>1 DEF Results
<1> QED
  BY <1>1, <1>2 DEF t

\* The three outcomes of mhdr_scanu_result_ind.
LEMMA AddOutcomes ==
    ASSUME NEW s \in Sets, Distinct(s), NEW it \in Item, NEW ok \in BOOLEAN
    PROVE  \/ /\ Add(s, it, ok) = s
              /\ \/ ~ok \/ Len(s) >= MaxBss
                 \/ \E i \in DOMAIN s : s[i].net = it.net /\ (it.on => s[i].on)
           \/ /\ Add(s, it, ok) = Append(s, it) /\ Len(s) < MaxBss /\ ok
              /\ \A i \in DOMAIN s : s[i].net # it.net
           \/ \E m \in DOMAIN s :
                 /\ Add(s, it, ok) = [s EXCEPT ![m] = it]
                 /\ s[m].net = it.net /\ it.on /\ ok
<1> DEFINE Same == {i \in DOMAIN s : s[i].net = it.net}
<1>1. Len(s) \in 0..MaxBss /\ MaxBss \in Nat
  BY LenOfSet, BoundAssumption
<1>2. CASE ~ok \/ Len(s) >= MaxBss \/ \E i \in Same : s[i].on \/ ~it.on
  BY <1>2 DEF Add
<1>3. CASE ~(~ok \/ Len(s) >= MaxBss \/ \E i \in Same : s[i].on \/ ~it.on)
  <2>1. Add(s, it, ok) = IF Same = {} THEN Append(s, it) ELSE [s EXCEPT ![Max(Same)] = it]
    BY <1>3 DEF Add
  <2>2. ok /\ Len(s) < MaxBss /\ \A i \in Same : ~s[i].on /\ it.on
    BY <1>1, <1>3
  <2>3. CASE Same = {}
    BY <2>1, <2>2, <2>3
  <2>4. CASE Same # {}
    <3>1. PICK m \in DOMAIN s : s[m].net = it.net
      BY <2>4
    <3>2. Same = {m}
      BY <3>1 DEF Distinct
    <3>3. m \in Int
      BY <3>1, <1>1, LenOfSet
    <3>4. Max({m}) = m
      BY <3>3 DEF Max
    <3> HIDE DEF Same
    <3>5. Add(s, it, ok) = [s EXCEPT ![m] = it]
      BY <2>1, <2>4, <3>2, <3>4
    <3>6. it.on /\ ok
      BY <2>2, <3>2
    <3> QED
      BY <3>1, <3>5, <3>6
  <2> QED
    BY <2>3, <2>4
<1> QED
  BY <1>2, <1>3

LEMMA AddKeepsSets ==
    ASSUME NEW s \in Sets, Distinct(s), NEW it \in Item, NEW ok \in BOOLEAN
    PROVE  Add(s, it, ok) \in Sets /\ Distinct(Add(s, it, ok))
<1> DEFINE t == Add(s, it, ok)
<1> DEFINE n == Len(s)
<1>1. n \in 0..MaxBss /\ MaxBss \in Nat /\ s \in Results(n) /\ s \in Seq(Item)
      /\ DOMAIN s = 1..n
  BY LenOfSet, BoundAssumption
<1>2. CASE t = s
  BY <1>2
<1>3. CASE t = Append(s, it) /\ n < MaxBss /\ \A i \in DOMAIN s : s[i].net # it.net
  <2>1. /\ Append(s, it) \in Results(n + 1) /\ DOMAIN Append(s, it) = 1..(n + 1)
        /\ \A i \in 1..n : Append(s, it)[i] = s[i]
        /\ Append(s, it)[n + 1] = it
    BY <1>1, AppendIs
  <2>2. n + 1 \in 0..MaxBss
    BY <1>1, <1>3
  <2>3. \A i \in 1..(n + 1) : i \in 1..n \/ i = n + 1
    BY <1>1
  <2>4. Distinct(Append(s, it))
    BY <2>1, <2>3, <1>1, <1>3 DEF Distinct
  <2> QED
    BY <1>3, <2>1, <2>2, <2>4, ResultsAreSets
<1>4. ASSUME NEW m \in DOMAIN s, t = [s EXCEPT ![m] = it], s[m].net = it.net
      PROVE  t \in Sets /\ Distinct(t)
  <2>1. [s EXCEPT ![m] = it] \in Results(n)
    BY <1>1, <1>4 DEF Results
  <2>2. Distinct([s EXCEPT ![m] = it])
    BY <1>1, <1>4 DEF Distinct
  <2> QED
    BY <1>1, <1>4, <2>1, <2>2, ResultsAreSets
<1> QED
  BY <1>2, <1>3, <1>4, AddOutcomes

LEMMA NothingHeard ==
    ASSUME NEW h \in Seq(Item), Len(h) <= 1
    PROVE  Lists(<<>>, h)
BY DEF Lists, Nets

\* A report that is kept or dropped leaves the set in accordance with the
\* reports so far.
LEMMA AddLists ==
    ASSUME NEW s \in Sets, Distinct(s), NEW it \in Item,
           NEW h \in Seq(Item), Lists(s, h)
    PROVE  Lists(Add(s, it, TRUE), Append(h, it))
<1>1. PICK t, g : t = Add(s, it, TRUE) /\ g = Append(h, it)
  OBVIOUS
<1>2. /\ Len(s) \in 0..MaxBss /\ MaxBss \in Nat /\ s \in Seq(Item)
      /\ DOMAIN s = 1..Len(s)
  BY LenOfSet, BoundAssumption
<1>3. /\ Len(g) = Len(h) + 1 /\ g[Len(h) + 1] = it /\ Len(h) \in Nat
      /\ \A k \in 1..Len(h) : g[k] = h[k]
      /\ DOMAIN g = 1..(Len(h) + 1) /\ DOMAIN h = 1..Len(h)
  BY <1>1, AppendIs
<1> SUFFICES Lists(t, g)
  BY <1>1
<1>4. Nets(g) = Nets(h) \cup {it.net}
  <2>1. \A k \in 1..(Len(h) + 1) : k \in 1..Len(h) \/ k = Len(h) + 1
    BY <1>3
  <2>2. \A k \in 1..Len(h) : k \in 1..(Len(h) + 1)
    BY <1>3
  <2>3. Len(h) + 1 \in 1..(Len(h) + 1)
    BY <1>3
  <2> QED
    BY <1>3, <2>1, <2>2, <2>3 DEF Nets
<1> SUFFICES /\ Nets(t) \subseteq Nets(h) \cup {it.net}
             /\ Len(t) < MaxBss =>
                  /\ \A k \in 2..Len(h) : \E i \in DOMAIN t :
                        t[i].net = h[k].net /\ (h[k].on => t[i].on)
                  /\ \E i \in DOMAIN t : t[i].net = it.net /\ (it.on => t[i].on)
  <2>1. \A k \in 2..Len(g) : k = Len(h) + 1 \/ (k \in 2..Len(h) /\ g[k] = h[k])
    BY <1>3
  <2> QED
    BY <1>3, <1>4, <2>1 DEF Lists
<1>5. CASE /\ t = s
           /\ Len(s) >= MaxBss
              \/ \E i \in DOMAIN s : s[i].net = it.net /\ (it.on => s[i].on)
  BY <1>2, <1>5 DEF Lists
<1>6. CASE t = Append(s, it) /\ Len(s) < MaxBss
  <2>1. /\ DOMAIN t = 1..(Len(s) + 1) /\ t[Len(s) + 1] = it
        /\ \A i \in 1..Len(s) : t[i] = s[i]
    BY <1>2, <1>6, AppendIs
  <2>2. /\ \A i \in 1..(Len(s) + 1) : i \in 1..Len(s) \/ i = Len(s) + 1
        /\ \A i \in 1..Len(s) : i \in 1..(Len(s) + 1)
        /\ Len(s) + 1 \in 1..(Len(s) + 1)
    BY <1>2
  <2>3. Nets(t) \subseteq Nets(h) \cup {it.net}
    <3>1. \A i \in DOMAIN t : t[i].net \in Nets(s) \/ t[i].net = it.net
      BY <1>2, <2>1, <2>2 DEF Nets
    <3>2. Nets(t) \subseteq Nets(s) \cup {it.net}
      BY <3>1 DEF Nets
    <3> QED
      BY <3>2 DEF Lists
  <2>4. ASSUME NEW k \in 2..Len(h)
        PROVE  \E i \in DOMAIN t : t[i].net = h[k].net /\ (h[k].on => t[i].on)
    <3>1. PICK i \in DOMAIN s : s[i].net = h[k].net /\ (h[k].on => s[i].on)
      BY <1>6 DEF Lists
    <3>2. i \in DOMAIN t /\ t[i] = s[i]
      BY <1>2, <2>1, <2>2
    <3> QED
      BY <3>1, <3>2
  <2>5. \E i \in DOMAIN t : t[i].net = it.net /\ (it.on => t[i].on)
    BY <2>1, <2>2
  <2> QED
    BY <2>3, <2>4, <2>5
<1>7. ASSUME NEW m \in DOMAIN s, t = [s EXCEPT ![m] = it], s[m].net = it.net, it.on
      PROVE  /\ Nets(t) \subseteq Nets(h) \cup {it.net}
             /\ Len(t) < MaxBss =>
                  /\ \A k \in 2..Len(h) : \E i \in DOMAIN t :
                        t[i].net = h[k].net /\ (h[k].on => t[i].on)
                  /\ \E i \in DOMAIN t : t[i].net = it.net /\ (it.on => t[i].on)
  <2>1. /\ DOMAIN t = DOMAIN s /\ Len(t) = Len(s) /\ t[m] = it
        /\ \A i \in DOMAIN s : i # m => t[i] = s[i]
    BY <1>2, <1>7
  <2>2. \A i \in DOMAIN s : t[i].net = s[i].net /\ (s[i].on => t[i].on)
    BY <1>7, <2>1
  <2>3. Nets(t) = Nets(s)
    BY <2>1, <2>2 DEF Nets
  <2>4. ASSUME Len(s) < MaxBss, NEW k \in 2..Len(h)
        PROVE  \E i \in DOMAIN t : t[i].net = h[k].net /\ (h[k].on => t[i].on)
    <3>1. PICK i \in DOMAIN s : s[i].net = h[k].net /\ (h[k].on => s[i].on)
      BY <2>4 DEF Lists
    <3> QED
      BY <2>1, <2>2, <3>1
  <2> QED
    BY <1>7, <2>1, <2>3, <2>4 DEF Lists
<1>8. \/ /\ t = s
         /\ \/ Len(s) >= MaxBss
            \/ \E i \in DOMAIN s : s[i].net = it.net /\ (it.on => s[i].on)
      \/ t = Append(s, it) /\ Len(s) < MaxBss
      \/ \E m \in DOMAIN s : t = [s EXCEPT ![m] = it] /\ s[m].net = it.net /\ it.on
  BY <1>1, AddOutcomes, Zenon
<1> QED
  BY <1>5, <1>6, <1>7, <1>8, Zenon

LEMMA SortKeepsSets ==
    ASSUME NEW s \in Sets, Distinct(s)
    PROVE  Sort(s) \in Sets /\ Distinct(Sort(s)) /\ Sorted(Sort(s))
<1> DEFINE n == Len(s)
<1> DEFINE t == Sort(s)
<1>1. n \in 0..MaxBss /\ n \in Nat /\ s \in Results(n) /\ DOMAIN s = 1..n
  BY LenOfSet, BoundAssumption
<1> HIDE DEF n, t
<1>2. /\ t \in Results(n)
      /\ Permutes(t, s, n)
      /\ \A i, j \in 1..n : i < j => Level[t[i].net] >= Level[t[j].net]
  BY <1>1, SortSortsAll DEF t
<1>3. DOMAIN t = 1..n
  BY <1>1, <1>2, LenOfResults
<1>4. Distinct(t)
  <2>1. PICK p \in [1..n -> 1..n] :
          /\ \A a, b \in 1..n : a # b => p[a] # p[b]
          /\ \A a \in 1..n : t[a] = s[p[a]]
    BY <1>2 DEF Permutes
  <2> SUFFICES ASSUME NEW i \in 1..n, NEW j \in 1..n, t[i].net = t[j].net PROVE i = j
    BY <1>3 DEF Distinct
  <2>2. s[p[i]].net = s[p[j]].net /\ p[i] \in 1..n /\ p[j] \in 1..n
    BY <2>1
  <2>3. p[i] = p[j]
    BY <2>2, <1>1 DEF Distinct
  <2> QED
    BY <2>1, <2>3
<1> QED
  BY <1>1, <1>2, <1>3, <1>4, ResultsAreSets DEF Sorted, t

-----------------------------------------------------------------------------
(* The types of all variables.  That no set grows beyond its limit needs that *)
(* none has a network twice, and that the requests outstanding stay within    *)
(* their bound needs that they are among those made.                          *)

Sound(h) == h \in [Addr -> Sets] /\ \A a \in Addr : Distinct(h[a])

\* The counters and the flags.
Flags ==
    /\ scan_cfm \in BOOLEAN /\ cb \in {"none", "wpa", "app"} /\ sig \in BOOLEAN
    /\ sta \in {"off", "starting", "on"}
    /\ requests \in 0..MaxScans /\ scanning \in BOOLEAN /\ connecting \in BOOLEAN
    /\ scans \in 0..MaxScans /\ inds \in 0..MaxInds /\ requests <= scans
    /\ heard \in Seq(Item) /\ overtaken \in BOOLEAN /\ bad \in BOOLEAN

TInv == Types /\ Sound(heap) /\ Flags

LEMMA EmptiedSound ==
    ASSUME Sound(heap), NEW p
    PROVE  Sound(Emptied(p))
BY EmptySet DEF Sound, Emptied

LEMMA StoreSound ==
    ASSUME NEW h, Sound(h), NEW a \in Addr, NEW s \in Sets, Distinct(s)
    PROVE  Sound([h EXCEPT ![a] = s])
BY DEF Sound

LEMMA HearTypes ==
    ASSUME STypeOK, NEW it \in Item, NEW ok \in BOOLEAN, Hear(it, ok)
    PROVE  inds' \in 0..MaxInds /\ heard' \in Seq(Item)
<1>1. inds' \in 0..MaxInds
  BY BoundAssumption DEF Hear, STypeOK
<1>2. heard \in Seq(Item)
  BY DEF STypeOK
<1>3. heard' \in Seq(Item)
  BY <1>2, AppendIs DEF Hear
<1> QED
  BY <1>1, <1>3

LEMMA OvertakesType ==
    ASSUME overtaken \in BOOLEAN, NEW by, Overtakes(by)
    PROVE  overtaken' \in BOOLEAN
BY DEF Overtakes

LEMMA TInvTypes == TInv => STypeOK
BY DEF TInv, Types, Sound, Sets, Flags, STypeOK

LEMMA InitTInv == Init => TInv
<1> SUFFICES ASSUME Init PROVE TInv
  OBVIOUS
<1>1. Sound(heap)
  BY EmptySet DEF Init, Sound
<1>2. /\ requests \in 0..MaxScans /\ scans \in 0..MaxScans /\ inds \in 0..MaxInds
      /\ requests <= scans
  BY BoundAssumption DEF Init
<1>3. heard \in Seq(Item)
  BY DEF Init
<1>4. Flags
  BY <1>2, <1>3 DEF Init, Flags
<1> QED
  BY <1>1, <1>4, InitSInv DEF TInv, SInv

\* What every step does to the contents of the sets.
LEMMA SoundStep == Types /\ STypeOK /\ Sound(heap) /\ Next => Sound(heap)'
<1> SUFFICES ASSUME Types, STypeOK, Sound(heap), Next PROVE Sound(heap)'
  OBVIOUS
<1>1. ASSUME UNCHANGED heap PROVE Sound(heap)'
  BY <1>1
<1>2. ASSUME Release PROVE Sound(heap)'
  BY <1>2, EmptiedSound DEF Release
<1>3. ASSUME NEW it \in Item, NEW ok \in BOOLEAN, ResultAppend(it, ok)
      PROVE  Sound(heap)'
  <2>1. set_ptr \in Addr /\ heap' = [heap EXCEPT ![set_ptr] = Add(heap[set_ptr], it, ok)]
    BY <1>3 DEF ResultAppend, STypeOK
  <2>2. heap[set_ptr] \in Sets /\ Distinct(heap[set_ptr])
    BY <2>1 DEF Sound
  <2>3. Add(heap[set_ptr], it, ok) \in Sets /\ Distinct(Add(heap[set_ptr], it, ok))
    BY <2>2, AddKeepsSets
  <2>4. Sound([heap EXCEPT ![set_ptr] = Add(heap[set_ptr], it, ok)])
    BY <2>1, <2>3, StoreSound
  <2> QED
    BY <2>1, <2>4
<1>4. ASSUME NEW it \in Item, NEW ok \in BOOLEAN, ResultNew(it, ok)
      PROVE  Sound(heap)'
  <2>1. PICK a \in Addr : heap' = [Emptied(set_ptr) EXCEPT ![a] = Add(<<>>, it, ok)]
    BY <1>4 DEF ResultNew
  <2>2. Add(<<>>, it, ok) \in Sets /\ Distinct(Add(<<>>, it, ok))
    BY EmptySet, AddKeepsSets
  <2>3. Sound(Emptied(set_ptr))
    BY EmptiedSound
  <2>4. Sound([Emptied(set_ptr) EXCEPT ![a] = Add(<<>>, it, ok)])
    BY <2>2, <2>3, StoreSound
  <2> QED
    BY <2>1, <2>4
<1>5. CASE StartCfm
  <2>1. CASE heap' = [heap EXCEPT ![set_ptr] = Sort(heap[set_ptr])] /\ set_ptr # NULL
    <3>1. set_ptr \in Addr
      BY <2>1 DEF STypeOK, Ptr
    <3>2. heap[set_ptr] \in Sets /\ Distinct(heap[set_ptr])
      BY <3>1 DEF Sound
    <3>3. Sort(heap[set_ptr]) \in Sets /\ Distinct(Sort(heap[set_ptr]))
      BY <3>2, SortKeepsSets
    <3>4. Sound([heap EXCEPT ![set_ptr] = Sort(heap[set_ptr])])
      BY <3>1, <3>3, StoreSound
    <3> QED
      BY <2>1, <3>4
  <2> QED
    BY <1>1, <1>2, <1>5, <2>1 DEF StartCfm, memory
<1>6. CASE ConnectInd
  BY <1>1, <1>2, <1>6 DEF ConnectInd, memory
<1>7. ASSUME NEW t \in Thread, FreeAll(t) PROVE Sound(heap)'
  BY <1>1, <1>7, EmptiedSound DEF FreeAll, memory
<1>8. ASSUME NEW t \in Thread, ClearPtr(t) PROVE Sound(heap)'
  BY <1>1, <1>8 DEF ClearPtr, memory
<1>9. CASE UseFreed \/ ScanBegin \/ CopyRst \/ Associate \/ AssocTest \/ StartStation
           \/ StopTest
  BY <1>1, <1>9 DEF UseFreed, ScanBegin, CopyRst, Associate, AssocTest, StartStation,
                    StopTest, memory
<1>10. ASSUME NEW yes \in BOOLEAN, WpaScan(yes) \/ PureScan(yes) \/ GetScanRst(yes)
       PROVE  Sound(heap)'
  BY <1>1, <1>10 DEF WpaScan, PureScan, GetScanRst, AskScan, memory
<1>11. ASSUME NEW next \in {"off", "starting"}, StopStation(next) PROVE Sound(heap)'
  BY <1>1, <1>11 DEF StopStation, memory
<1> QED
  BY <1>3, <1>4, <1>5, <1>6, <1>7, <1>8, <1>9, <1>10, <1>11
     DEF Next, Kmsg, Wpa, Timer, Thread

LEMMA FlagsStep == STypeOK /\ Flags /\ Next => Flags'
<1> SUFFICES ASSUME STypeOK, Flags, Next PROVE Flags'
  OBVIOUS
<1>0. heard \in Seq(Item) /\ <<>> \in Seq(Item) /\ 0 \in 0..MaxInds
  BY BoundAssumption DEF Flags
<1>a. \A by : Overtakes(by) => overtaken' \in BOOLEAN
  BY OvertakesType DEF Flags
<1>1. ASSUME NEW it \in Item, NEW ok \in BOOLEAN, ResultAppend(it, ok)
      PROVE  Flags'
  <2>1. inds' \in 0..MaxInds /\ heard' \in Seq(Item)
    BY <1>1, HearTypes DEF ResultAppend
  <2>2. overtaken' \in BOOLEAN
    BY <1>a, <1>1 DEF ResultAppend
  <2>3. UNCHANGED <<scan_cfm, cb, sig, sta, requests, scanning, connecting, scans, bad>>
    BY <1>1 DEF ResultAppend, pointers, threads
  <2> QED
    BY <2>1, <2>2, <2>3 DEF Flags
<1>2. ASSUME NEW it \in Item, NEW ok \in BOOLEAN, ResultNew(it, ok)
      PROVE  Flags'
  <2>1. inds' \in 0..MaxInds /\ heard' \in Seq(Item)
    BY <1>2, HearTypes DEF ResultNew
  <2>2. overtaken' \in BOOLEAN
    BY <1>a, <1>2 DEF ResultNew
  <2>3. UNCHANGED <<cb, sig, sta, requests, scanning, connecting, scans, bad>>
    BY <1>2 DEF ResultNew, threads
  <2>4. scan_cfm' \in BOOLEAN
    BY <1>2 DEF ResultNew, Flags
  <2> QED
    BY <2>1, <2>2, <2>3, <2>4 DEF Flags
<1>3. CASE StartCfm
  <2>1. overtaken' \in BOOLEAN
    BY <1>a, <1>3 DEF StartCfm
  <2>2. sig' \in BOOLEAN
    BY <1>3 DEF StartCfm, Flags
  <2>3. scanning' = FALSE /\ scan_cfm' = TRUE /\ inds' = 0 /\ heard' = <<>>
        /\ UNCHANGED <<cb, sta, requests, connecting, scans, bad>>
    BY <1>3 DEF StartCfm
  <2> QED
    BY <1>0, <2>1, <2>2, <2>3 DEF Flags
<1>4. CASE ConnectInd
  <2>1. overtaken' \in BOOLEAN
    BY <1>a, <1>4 DEF ConnectInd
  <2>2. heard' \in Seq(Item)
    BY <1>0, <1>4 DEF ConnectInd
  <2>3. connecting' = FALSE
        /\ UNCHANGED <<scan_cfm, cb, sig, sta, requests, scanning, scans, inds, bad>>
    BY <1>4 DEF ConnectInd, threads
  <2> QED
    BY <2>1, <2>2, <2>3 DEF Flags
<1>5. CASE UseFreed
  BY <1>5 DEF UseFreed, Flags, pointers, threads, mac
<1>6. CASE ScanBegin
  <2>1. requests' \in 0..MaxScans /\ requests' <= scans
    BY <1>6, BoundAssumption DEF ScanBegin, Flags
  <2>2. scanning' = TRUE
        /\ UNCHANGED <<scan_cfm, cb, sig, sta, connecting, scans, inds, heard, overtaken, bad>>
    BY <1>6 DEF ScanBegin, pointers, threads, history
  <2> QED
    BY <2>1, <2>2 DEF Flags
<1>7. ASSUME NEW who \in {"wpa", "app"}, NEW sent \in BOOLEAN, AskScan(who, sent),
             UNCHANGED threads
      PROVE  Flags'
  <2>1. requests' \in 0..MaxScans /\ scans' \in 0..MaxScans /\ requests' <= scans'
    BY <1>7, BoundAssumption DEF AskScan, Flags
  <2>2. cb' \in {"none", "wpa", "app"}
        /\ UNCHANGED <<scan_cfm, sig, sta, scanning, connecting, inds, heard, overtaken, bad>>
    BY <1>7 DEF AskScan, pointers, threads, history
  <2> QED
    BY <2>1, <2>2 DEF Flags
<1>8. ASSUME NEW yes \in BOOLEAN, WpaScan(yes) \/ PureScan(yes) PROVE Flags'
  BY <1>7, <1>8 DEF WpaScan, PureScan
<1>9. ASSUME NEW t \in Thread, FreeAll(t) \/ ClearPtr(t) PROVE Flags'
  <2>1. bad' \in BOOLEAN /\ heard' = <<>>
    BY <1>9 DEF FreeAll, ClearPtr, Flags
  <2>2. UNCHANGED <<scan_cfm, cb, sig, sta, requests, scanning, connecting, scans, inds,
                    overtaken>>
    BY <1>9 DEF FreeAll, ClearPtr, pointers, mac
  <2> QED
    BY <1>0, <2>1, <2>2 DEF Flags
<1>10. ASSUME NEW yes \in BOOLEAN, GetScanRst(yes) PROVE Flags'
  <2>1. overtaken' \in BOOLEAN
    BY <1>a, <1>10 DEF GetScanRst, Flags
  <2>2. sig' = FALSE
        /\ UNCHANGED <<scan_cfm, cb, sta, requests, scanning, connecting, scans, inds, heard, bad>>
    BY <1>10 DEF GetScanRst, pointers, mac
  <2> QED
    BY <2>1, <2>2 DEF Flags
<1>11. CASE CopyRst
  <2>1. bad' \in BOOLEAN
    BY <1>11 DEF CopyRst, Flags
  <2> QED
    BY <2>1, <1>11 DEF CopyRst, Flags, pointers, mac
<1>12. CASE Associate
  <2>1. connecting' \in BOOLEAN
    BY <1>12 DEF Associate, Flags
  <2> QED
    BY <2>1, <1>12 DEF Associate, Flags, pointers, history
<1>13. CASE AssocTest \/ StopTest
  <2>1. overtaken' \in BOOLEAN
    BY <1>a, <1>13 DEF AssocTest, StopTest, Flags
  <2>2. UNCHANGED <<scan_cfm, cb, sig, sta, requests, scanning, connecting, scans, inds,
                    heard, bad>>
    BY <1>13 DEF AssocTest, StopTest, pointers, mac
  <2> QED
    BY <2>1, <2>2 DEF Flags
<1>14. ASSUME NEW next \in {"off", "starting"}, StartStation \/ StopStation(next)
       PROVE  Flags'
  BY <1>14 DEF StartStation, StopStation, Flags, pointers, mac, history
<1> QED
  BY <1>1, <1>2, <1>3, <1>4, <1>5, <1>6, <1>8, <1>9, <1>10, <1>11, <1>12, <1>13, <1>14
     DEF Next, Kmsg, Wpa, Timer, Thread

LEMMA TInvAlways == Spec => []TInv
<1>1. TInv /\ Next => TInv'
  BY TInvTypes, TypesStep, SoundStep, FlagsStep DEF TInv
<1>2. TInv /\ UNCHANGED vars => TInv'
  BY DEF TInv, Types, Sound, Flags, vars, pointers, memory, threads, mac, history
<1> QED
  BY InitTInv, <1>1, <1>2, PTL DEF Spec

\* The variables have the values the code can give them; in particular no set
\* holds more than MAX_BSS_LIST results, although the limit is tested before the
\* search for the network and not where a result is added
\* (mhdr_scanu_result_ind).
THEOREM ScanTypes == Spec => []STypeOK
BY TInvAlways, TInvTypes, PTL

-----------------------------------------------------------------------------
(* Whose results a set holds. *)

\* The strengthening of ResultsOfThisScan and UploadIsSorted.  A set that is
\* still marked as the set of an earlier scan has seen one report of this scan
\* at most: this is why only the first one can get lost.
Contents ==
    /\ ~scanning => heard = <<>>
    /\ scan_cfm => Len(heard) <= 1
    /\ heard # <<>> => set_ptr # NULL
    /\ set_ptr # NULL /\ (heard # <<>> \/ ~scan_cfm) => Lists(heap[set_ptr], heard)
    /\ upload_ptr # NULL => Sorted(heap[upload_ptr])

CInv == TInv /\ (~overtaken => Owner /\ Contents)

\* A step that nobody in its window sees: the set is as the owner knows it.
LEMMA NoWindowStep ==
    ASSUME CInv, Overtakes({}), ~overtaken'
    PROVE  /\ ~overtaken /\ Owner /\ Contents
           /\ live = {set_ptr} \ {NULL}
<1>1. ~overtaken /\ \A t \in Thread : ~Window(t)
  BY DEF Overtakes
<1>2. Owner /\ Contents /\ Types
  BY <1>1 DEF CInv, TInv
<1> QED
  BY <1>1, <1>2, NoWindow

\* A step that changes neither the set nor what is said of it.
LEMMA ContentsUnchanged ==
    ASSUME Contents, UNCHANGED <<set_ptr, upload_ptr, scan_cfm, heap, heard>>,
           scanning' = scanning \/ scanning'
    PROVE  Contents'
BY DEF Contents

LEMMA ResultAppendContents ==
    ASSUME CInv, ~overtaken', NEW it \in Item, NEW ok \in BOOLEAN, ResultAppend(it, ok)
    PROVE  Contents'
<1>1. Contents /\ set_ptr \in Addr /\ set_ptr # NULL /\ ~scan_cfm /\ Owner
  BY NoWindowStep, NullAssumption DEF ResultAppend, Stale, CInv, TInv, Types
<1>2. heard \in Seq(Item) /\ Sound(heap)
  BY DEF CInv, TInv, Flags
<1>3. heap[set_ptr] \in Sets /\ Distinct(heap[set_ptr]) /\ Lists(heap[set_ptr], heard)
  BY <1>1, <1>2 DEF Sound, Contents
<1>4. heap'[set_ptr] = Add(heap[set_ptr], it, ok)
  BY <1>1, <1>2 DEF ResultAppend, Sound
<1>5. Lists(heap'[set_ptr], heard')
  <2>1. CASE ok
    <3>1. heard' = Append(heard, it) /\ ok = TRUE
      BY <2>1 DEF ResultAppend, Hear
    <3> QED
      BY <3>1, <1>2, <1>3, <1>4, AddLists
  <2>2. CASE ~ok
    <3>1. heard' = heard /\ Add(heap[set_ptr], it, ok) = heap[set_ptr]
      BY <2>2 DEF ResultAppend, Hear, Add
    <3> QED
      BY <3>1, <1>3, <1>4
  <2> QED
    BY <2>1, <2>2
<1>6. UNCHANGED <<set_ptr, upload_ptr, scan_cfm, scanning>> /\ scanning
  BY DEF ResultAppend, pointers
<1>7. upload_ptr = NULL
  BY <1>1 DEF Owner
<1> QED
  BY <1>1, <1>5, <1>6, <1>7 DEF Contents

LEMMA ResultNewContents ==
    ASSUME CInv, ~overtaken', NEW it \in Item, NEW ok \in BOOLEAN, ResultNew(it, ok)
    PROVE  Contents'
<1>1. Contents /\ Owner
  BY NoWindowStep DEF ResultNew
<1>2. heard \in Seq(Item)
  BY DEF CInv, TInv, Flags
<1>3. Len(heard) <= 1
  BY <1>1, <1>2 DEF ResultNew, Stale, Contents
<1>4. set_ptr' # NULL /\ heap'[set_ptr'] = Add(<<>>, it, ok)
  <2>1. PICK a \in Addr : /\ heap' = [Emptied(set_ptr) EXCEPT ![a] = Add(<<>>, it, ok)]
                          /\ set_ptr' = a
    BY DEF ResultNew
  <2>2. heap'[a] = Add(<<>>, it, ok)
    BY <2>1 DEF Emptied
  <2> QED
    BY <2>1, <2>2, NullAssumption
<1>5. Lists(<<>>, heard)
  BY <1>2, <1>3, NothingHeard
<1>6. Lists(heap'[set_ptr'], heard')
  <2>1. CASE ok
    <3>1. heard' = Append(heard, it) /\ ok = TRUE
      BY <2>1 DEF ResultNew, Hear
    <3> QED
      BY <3>1, <1>2, <1>4, <1>5, EmptySet, AddLists
  <2>2. CASE ~ok
    <3>1. heard' = heard /\ Add(<<>>, it, ok) = <<>>
      BY <2>2 DEF ResultNew, Hear, Add
    <3> QED
      BY <3>1, <1>4, <1>5
  <2> QED
    BY <2>1, <2>2
<1>7. upload_ptr' = NULL /\ scanning'
  BY <1>1 DEF ResultNew, Stale, Owner
<1>8. scan_cfm' => Len(heard') <= 1
  <2>1. CASE Stale
    BY <2>1 DEF ResultNew
  <2>2. CASE ~Stale
    <3>1. heard = <<>>
      BY <1>1, <2>2 DEF ResultNew, Contents
    <3>2. heard' = <<>> \/ heard' = Append(<<>>, it)
      BY <3>1 DEF ResultNew, Hear
    <3>3. PICK e : e = <<>>
      OBVIOUS
    <3>4. e \in Seq(Item) /\ Len(e) = 0
      BY <3>3
    <3>5. Len(Append(e, it)) = 1
      BY <3>4, AppendIs
    <3>6. heard' = e \/ heard' = Append(e, it)
      BY <3>2, <3>3
    <3> QED
      BY <3>4, <3>5, <3>6
  <2> QED
    BY <2>1, <2>2
<1> QED
  BY <1>4, <1>6, <1>7, <1>8 DEF Contents

LEMMA StartCfmContents ==
    ASSUME CInv, ~overtaken', StartCfm
    PROVE  Contents'
<1>1. Contents /\ Owner
  BY NoWindowStep DEF StartCfm
<1>2. heard' = <<>> /\ scan_cfm' = TRUE /\ Len(<<>>) = 0
  BY DEF StartCfm
<1>3. upload_ptr' # NULL => Sorted(heap'[upload_ptr'])
  <2>1. CASE Release
    BY <2>1 DEF Release
  <2>2. CASE /\ set_ptr # NULL /\ upload_ptr' = set_ptr
             /\ heap' = [heap EXCEPT ![set_ptr] = Sort(heap[set_ptr])]
    <3>1. set_ptr \in Addr /\ Sound(heap)
      BY <2>2 DEF CInv, TInv, Types, Ptr
    <3>2. heap[set_ptr] \in Sets /\ Distinct(heap[set_ptr])
      BY <3>1 DEF Sound
    <3>3. Sorted(Sort(heap[set_ptr]))
      BY <3>2, SortKeepsSets
    <3>4. heap'[set_ptr] = Sort(heap[set_ptr])
      BY <3>1, <2>2 DEF Sound
    <3> QED
      BY <2>2, <3>3, <3>4
  <2>3. CASE UNCHANGED <<memory, set_ptr, upload_ptr>>
    BY <2>3, <1>1 DEF memory, Contents
  <2> QED
    BY <2>1, <2>2, <2>3 DEF StartCfm
<1> QED
  BY <1>2, <1>3 DEF Contents

\* Every step that overtakes nobody keeps the contents.
LEMMA ContentsStep == CInv /\ Next /\ ~overtaken' => Contents'
<1> SUFFICES ASSUME CInv, Next, ~overtaken' PROVE Contents'
  OBVIOUS
<1>1. ASSUME ~overtaken PROVE Owner /\ Contents
  BY <1>1 DEF CInv
<1>2. ASSUME NEW it \in Item, NEW ok \in BOOLEAN, ResultAppend(it, ok) \/ ResultNew(it, ok)
      PROVE  Contents'
  BY <1>2, ResultAppendContents, ResultNewContents
<1>3. CASE StartCfm
  BY <1>3, StartCfmContents
<1>4. CASE ConnectInd
  <2>1. Contents /\ UNCHANGED <<scan_cfm, scanning>>
    BY <1>4, NoWindowStep DEF ConnectInd
  <2>2. CASE set_ptr # NULL
    <3>1. set_ptr' = NULL /\ upload_ptr' = NULL /\ heard' = <<>> /\ Len(<<>>) = 0
      BY <1>4, <2>2 DEF ConnectInd, Release
    <3> QED
      BY <3>1 DEF Contents
  <2>3. CASE set_ptr = NULL
    BY <1>4, <2>1, <2>3, ContentsUnchanged DEF ConnectInd, memory
  <2> QED
    BY <2>2, <2>3
<1>5. ASSUME NEW t \in Thread, FreeAll(t) PROVE Contents'
  <2>1. /\ Owner /\ Contents /\ pc[t] = "free" /\ UNCHANGED <<set_ptr, upload_ptr, scan_cfm>>
        /\ heard' = <<>> /\ Len(<<>>) = 0
    BY <1>1, <1>5 DEF FreeAll, pointers
  <2>2. arg[t] = set_ptr /\ set_ptr # NULL /\ Clearing = {}
    BY <2>1 DEF Owner, Clearing, Window, Thread
  <2>3. set_ptr \in live /\ set_ptr \in Addr
    BY <2>1, <2>2 DEF Owner, CInv, TInv, Types, Ptr
  <2>4. heap'[set_ptr] = <<>>
    BY <1>5, <2>2, <2>3 DEF FreeAll, Emptied
  <2>5. Lists(<<>>, <<>>) /\ Sorted(<<>>)
    <3>1. <<>> \in Seq(Item) /\ Len(<<>>) <= 1
      OBVIOUS
    <3> QED
      BY <3>1, NothingHeard, EmptySet, Zenon
  <2> QED
    BY <2>1, <2>4, <2>5 DEF Contents, Owner
<1>6. ASSUME NEW t \in Thread, ClearPtr(t) PROVE Contents'
  <2>1. set_ptr' = NULL /\ upload_ptr' = NULL /\ heard' = <<>> /\ Len(<<>>) = 0
    BY <1>6 DEF ClearPtr
  <2> QED
    BY <2>1 DEF Contents
<1>7. CASE UseFreed
  BY <1>7 DEF UseFreed
<1>8. CASE ScanBegin
  BY <1>1, <1>8, ContentsUnchanged DEF ScanBegin, pointers, memory, history
<1>9. ASSUME NEW yes \in BOOLEAN, WpaScan(yes) \/ PureScan(yes) PROVE Contents'
  BY <1>1, <1>9, ContentsUnchanged DEF WpaScan, PureScan, AskScan, pointers, memory, history
<1>10. ASSUME NEW yes \in BOOLEAN, GetScanRst(yes) PROVE Contents'
  <2>1. ~overtaken
    BY <1>10 DEF GetScanRst, Overtakes
  <2> QED
    BY <1>1, <1>10, <2>1, ContentsUnchanged DEF GetScanRst, pointers, memory, mac
<1>11. CASE CopyRst \/ AssocTest \/ StopTest
  <2>1. ~overtaken
    BY <1>11 DEF CopyRst, AssocTest, StopTest, Overtakes
  <2> QED
    BY <1>1, <1>11, <2>1, ContentsUnchanged
       DEF CopyRst, AssocTest, StopTest, pointers, memory, mac
<1>12. CASE Associate
  BY <1>1, <1>12, ContentsUnchanged DEF Associate, pointers, memory, history
<1>13. ASSUME NEW next \in {"off", "starting"}, StartStation \/ StopStation(next)
       PROVE  Contents'
  BY <1>1, <1>13, ContentsUnchanged
     DEF StartStation, StopStation, pointers, memory, mac, history
<1> QED
  BY <1>2, <1>3, <1>4, <1>5, <1>6, <1>7, <1>8, <1>9, <1>10, <1>11, <1>12, <1>13
     DEF Next, Kmsg, Wpa, Timer, Thread

LEMMA CInvAlways == Spec => [](~overtaken => Owner /\ Contents) /\ []TInv
<1>1. Init => CInv
  <2>1. Init => Contents
    BY EmptySet DEF Init, Contents
  <2> QED
    BY <2>1, InitTInv, InitSInv DEF CInv, SInv
<1>2. CInv /\ TInv' /\ [Next]_vars => CInv'
  <2>1. CInv /\ TInv' /\ Next => CInv'
    BY ContentsStep, OwnerStep DEF CInv, TInv
  <2>2. CInv /\ UNCHANGED vars => CInv'
    <3>1. CInv /\ UNCHANGED vars => (~overtaken => Owner /\ Contents)'
      BY DEF CInv, Owner, Contents, Window, Clearing, vars, pointers, memory, threads, mac,
             history
    <3>2. CInv /\ UNCHANGED vars => TInv'
      BY DEF CInv, TInv, Types, Sound, Flags, vars, pointers, memory, threads, mac, history
    <3> QED
      BY <3>1, <3>2 DEF CInv
  <2> QED
    BY <2>1, <2>2
<1>3. CInv => (~overtaken => Owner /\ Contents)
  BY DEF CInv
<1> QED
  BY <1>1, <1>2, <1>3, TInvAlways, PTL DEF Spec

\* The set that fills up during a scan holds the networks of this scan and no
\* other, each as received on its own channel, if it was; only the first report
\* may be missing, and what came after the set was full (the test of scan_cfm at
\* SCANU_RESULT_IND and the insertion), for any number of networks and reports.
THEOREM SetIsOfThisScan == Spec => []ResultsOfThisScan
<1>1. (~overtaken => Owner /\ Contents) => ResultsOfThisScan
  BY DEF Contents, ResultsOfThisScan, Lists
<1> QED
  BY <1>1, CInvAlways, PTL

\* The supplicant reads a set that is sorted, strongest network first, and has
\* no network twice: no report of a later scan gets into it
\* (mhdr_scanu_start_cfm, wpa_buffer_scan_results, wpa_get_scan_rst).
THEOREM SupplicantReadsSorted == Spec => []UploadIsSorted
<1>1. TInv /\ (~overtaken => Owner /\ Contents) => UploadIsSorted
  <2> SUFFICES ASSUME TInv, Owner, Contents, upload_ptr \in live PROVE
                 LET s == heap[upload_ptr]
                 IN  \A i, j \in DOMAIN s : i < j =>
                         /\ s[i].net # s[j].net
                         /\ Level[s[i].net] >= Level[s[j].net]
    BY DEF UploadIsSorted
  <2>1. upload_ptr \in Addr /\ upload_ptr # NULL
    BY NullAssumption DEF TInv, Types
  <2>2. Sorted(heap[upload_ptr]) /\ Distinct(heap[upload_ptr]) /\ heap[upload_ptr] \in Sets
    BY <2>1 DEF Contents, TInv, Sound
  <2>3. DOMAIN heap[upload_ptr] \subseteq Int
    BY <2>2, LenOfSet, BoundAssumption
  <2> QED
    BY <2>2, <2>3 DEF Sorted, Distinct
<1> QED
  BY <1>1, CInvAlways, PTL
=============================================================================
