---------------------------- MODULE ScanSortProofs ----------------------------
(***************************************************************************)
(* sort_scan_result for any list of results: it returns the same results,  *)
(* the strongest first.                                                    *)
(*                                                                         *)
(* Sort and Pass are recursive functions over the two loop variables.  The *)
(* induction over a loop is taken from the principle of the least number,  *)
(* about sets: if the places of a loop where something holds contain the   *)
(* first one, and with each place the next, they are all of them.          *)
(***************************************************************************)
EXTENDS ScanResults, WellFoundedInduction, TLAPS

-----------------------------------------------------------------------------
(* Induction and recursion over the values of a loop variable. *)

LEMMA LeastNatural ==
    ASSUME NEW S \in SUBSET Nat, S # {}
    PROVE  \E m \in S : \A k \in S : m <= k
<1> DEFINE R == OpToRel(<, Nat)
<1>1. IsWellFoundedOn(R, Nat)
  BY NatLessThanWellFounded
<1>2. PICK x \in S : \A y \in S : ~(<<y, x>> \in R)
  <2> HIDE DEF R
  <2> QED
    BY <1>1, WFMin
<1>3. \A y \in S : ~(y < x)
  <2> SUFFICES ASSUME NEW y \in S, y < x PROVE FALSE
    OBVIOUS
  <2>1. <<y, x>> \in R
    BY DEF OpToRel
  <2> QED
    BY <1>2, <2>1
<1> QED
  BY <1>3

LEMMA LoopInduction ==
    ASSUME NEW m \in Int, NEW n \in Int, NEW P, m \in P,
           \A k \in m..n : k \in P /\ k < n => k + 1 \in P
    PROVE  \A k \in m..n : k \in P
<1> DEFINE S == {k \in Nat : m + k \in m..n /\ m + k \notin P}
<1>1. S = {}
  <2> SUFFICES ASSUME S # {} PROVE FALSE
    OBVIOUS
  <2>1. PICK k \in S : \A l \in S : k <= l
    <3>1. S \in SUBSET Nat
      OBVIOUS
    <3> HIDE DEF S
    <3> QED
      BY <3>1, LeastNatural
  <2>2. k \in Nat /\ m + k \in m..n /\ m + k \notin P /\ k # 0
    BY <2>1
  <2>3. k - 1 \in Nat /\ k - 1 \notin S
    BY <2>1, <2>2
  <2>4. m + (k - 1) \in m..n /\ m + (k - 1) < n /\ m + (k - 1) \in P
    BY <2>2, <2>3
  <2>5. (m + (k - 1)) + 1 \in P
    BY <2>4
  <2> QED
    BY <2>2, <2>5
<1>2. ASSUME NEW k \in m..n PROVE k \in P
  <2>1. k - m \in Nat /\ k - m \notin S /\ m + (k - m) = k
    BY <1>1
  <2> QED
    BY <2>1
<1> QED
  BY <1>2

Results(n) == [1..n -> Item]

\* The bodies and the runs of a loop from m to n over lists of l results.
Bodies(m, n, l) == [(m + 1)..n -> [Results(l) -> Results(l)]]
Runs(m, n, l) == [m..n -> Results(l)]
IsRun(f, m, n, v, Step) ==
    f[m] = v /\ \A j \in (m + 1)..n : f[j] = Step[j][f[j - 1]]

\* A loop from m to n whose body is Step[j], started with v.
LEMMA LoopExists ==
    ASSUME NEW m \in Int, NEW n \in Int, m <= n, NEW l \in Nat, NEW v \in Results(l),
           NEW Step \in Bodies(m, n, l)
    PROVE  \E f \in Runs(m, n, l) : IsRun(f, m, n, v, Step)
<1> USE DEF Bodies, Runs, IsRun
<1> DEFINE Upto(f, k) ==
        /\ f \in [m..k -> Results(l)] /\ f[m] = v
        /\ \A j \in (m + 1)..k : f[j] = Step[j][f[j - 1]]
<1> DEFINE P == {k \in m..n : \E f : Upto(f, k)}
<1>1. m \in P
  <2>1. Upto([j \in m..m |-> v], m)
    OBVIOUS
  <2>2. m \in m..n
    OBVIOUS
  <2> HIDE DEF Upto
  <2> QED
    BY <2>1, <2>2
<1>2. ASSUME NEW k \in m..n, k \in P, k < n PROVE k + 1 \in P
  <2>1. PICK f : Upto(f, k)
    BY <1>2
  <2>2. k + 1 \in (m + 1)..n /\ k + 1 \in m..n /\ k \in m..k
    BY <1>2
  <2> DEFINE g == [j \in m..(k + 1) |-> IF j = k + 1 THEN Step[k + 1][f[k]] ELSE f[j]]
  <2>3. Step[k + 1][f[k]] \in Results(l)
    BY <2>1, <2>2
  <2>4. g \in [m..(k + 1) -> Results(l)]
    BY <2>1, <2>3
  <2>5. (\A j \in m..k : g[j] = f[j]) /\ g[k + 1] = Step[k + 1][f[k]]
    BY <2>2
  <2>6. ASSUME NEW j \in (m + 1)..(k + 1) PROVE g[j] = Step[j][g[j - 1]]
    <3> HIDE DEF g
    <3>1. CASE j = k + 1
      <4>1. j - 1 = k
        BY <3>1
      <4> QED
        BY <3>1, <4>1, <2>5, <2>2
    <3>2. CASE j # k + 1
      <4>1. j \in (m + 1)..k /\ j - 1 \in m..k /\ j \in m..k
        BY <3>2
      <4> QED
        BY <4>1, <2>1, <2>5
    <3> QED
      BY <3>1, <3>2
  <2>7. Upto(g, k + 1)
    <3>1. m \in m..k
      OBVIOUS
    <3> HIDE DEF g
    <3> QED
      BY <2>1, <2>4, <2>5, <2>6, <3>1
  <2> HIDE DEF Upto, g
  <2> QED
    BY <2>2, <2>7
<1>3. n \in P
  <2> HIDE DEF P
  <2>1. \A k \in m..n : k \in P
    BY <1>1, <1>2, LoopInduction
  <2> QED
    BY <2>1
<1> QED
  BY <1>3

-----------------------------------------------------------------------------
(* The two loops. *)

\* t holds the results of s in another order.
Permutes(t, s, n) ==
    \E p \in [1..n -> 1..n] :
        /\ \A a, b \in 1..n : a # b => p[a] # p[b]
        /\ \A b \in 1..n : \E a \in 1..n : p[a] = b
        /\ \A a \in 1..n : t[a] = s[p[a]]

\* The first i places hold the i strongest results, in order.
Settled(s, i, n) ==
    \A a \in 1..i, b \in 1..n : a < b => Level[s[a].net] >= Level[s[b].net]

LEMMA LenOfResults ==
    ASSUME NEW n \in Nat, NEW s \in Results(n)
    PROVE  s \in Seq(Item) /\ Len(s) = n /\ DOMAIN s = 1..n
BY DEF Results

LEMMA PermutesReflexive ==
    ASSUME NEW n \in Nat, NEW s \in Results(n)
    PROVE  Permutes(s, s, n)
<1> DEFINE p == [a \in 1..n |-> a]
<1>1. p \in [1..n -> 1..n] /\ \A a \in 1..n : p[a] = a
  OBVIOUS
<1> HIDE DEF p
<1> QED
  BY <1>1 DEF Permutes

LEMMA PermutesTransitive ==
    ASSUME NEW n \in Nat, NEW s, NEW t, NEW u, Permutes(t, s, n), Permutes(u, t, n)
    PROVE  Permutes(u, s, n)
<1>1. PICK p \in [1..n -> 1..n] :
        /\ \A a, b \in 1..n : a # b => p[a] # p[b]
        /\ \A b \in 1..n : \E a \in 1..n : p[a] = b
        /\ \A a \in 1..n : t[a] = s[p[a]]
  BY DEF Permutes
<1>2. PICK q \in [1..n -> 1..n] :
        /\ \A a, b \in 1..n : a # b => q[a] # q[b]
        /\ \A b \in 1..n : \E a \in 1..n : q[a] = b
        /\ \A a \in 1..n : u[a] = t[q[a]]
  BY DEF Permutes
<1> DEFINE r == [a \in 1..n |-> p[q[a]]]
<1>3. r \in [1..n -> 1..n] /\ \A a \in 1..n : q[a] \in 1..n /\ r[a] = p[q[a]]
  OBVIOUS
<1> HIDE DEF r
<1>4. ASSUME NEW a \in 1..n, NEW b \in 1..n, a # b PROVE r[a] # r[b]
  <2>1. q[a] \in 1..n /\ q[b] \in 1..n /\ q[a] # q[b]
    BY <1>2, <1>3, <1>4
  <2>2. p[q[a]] # p[q[b]]
    BY <1>1, <2>1
  <2> QED
    BY <1>3, <2>2
<1>5. ASSUME NEW b \in 1..n PROVE \E a \in 1..n : r[a] = b
  <2>1. PICK c \in 1..n : p[c] = b
    BY <1>1
  <2>2. PICK a \in 1..n : q[a] = c
    BY <1>2
  <2> QED
    BY <2>1, <2>2, <1>3
<1>6. ASSUME NEW a \in 1..n PROVE u[a] = s[r[a]]
  <2>1. u[a] = t[q[a]] /\ q[a] \in 1..n
    BY <1>2, <1>3
  <2>2. t[q[a]] = s[p[q[a]]]
    BY <1>1, <2>1
  <2> QED
    BY <1>3, <2>1, <2>2
<1> QED
  BY <1>3, <1>4, <1>5, <1>6 DEF Permutes

LEMMA ExchangeOf ==
    ASSUME NEW n \in Nat, NEW s \in Results(n), NEW i \in 1..n, NEW j \in 1..n, i # j
    PROVE  /\ Exchange(s, i, j) \in Results(n)
           /\ Permutes(Exchange(s, i, j), s, n)
<1>1. CASE Level[s[j].net] > Level[s[i].net]
  <2> DEFINE t == [s EXCEPT ![i] = s[j], ![j] = s[i]]
  <2> DEFINE p == [a \in 1..n |-> IF a = i THEN j ELSE IF a = j THEN i ELSE a]
  <2>1. Exchange(s, i, j) = t
    BY <1>1 DEF Exchange
  <2>2. t \in Results(n) /\ \A a \in 1..n : t[a] = s[IF a = i THEN j ELSE IF a = j THEN i ELSE a]
    BY DEF Results
  <2>3. p \in [1..n -> 1..n] /\ \A a \in 1..n : p[a] = IF a = i THEN j ELSE IF a = j THEN i ELSE a
    OBVIOUS
  <2> HIDE DEF t, p
  <2>4. /\ \A a, b \in 1..n : a # b => p[a] # p[b]
        /\ \A b \in 1..n : \E a \in 1..n : p[a] = b
        /\ \A a \in 1..n : t[a] = s[p[a]]
    <3>1. \A a, b \in 1..n : a # b => p[a] # p[b]
      BY <2>3
    <3>2. \A b \in 1..n : p[p[b]] = b
      BY <2>3
    <3>3. \A a \in 1..n : t[a] = s[p[a]]
      BY <2>2, <2>3
    <3> QED
      BY <2>3, <3>1, <3>2, <3>3
  <2> QED
    BY <2>1, <2>2, <2>3, <2>4 DEF Permutes
<1>2. CASE ~(Level[s[j].net] > Level[s[i].net])
  BY <1>2, PermutesReflexive DEF Exchange
<1> QED
  BY <1>1, <1>2

\* What Pass computes, as a sequence of exchanges.
LEMMA PassRuns ==
    ASSUME NEW n \in Nat, NEW s \in Results(n), NEW i \in 1..n
    PROVE  \E f \in [i..n -> Results(n)] :
              /\ f[i] = s /\ Pass(s, i) = f[n]
              /\ \A j \in (i + 1)..n : f[j] = Exchange(f[j - 1], i, j)
<1> DEFINE Loop(f) ==
        f = [j \in i..Len(s) |-> IF j = i THEN s ELSE Exchange(f[j - 1], i, j)]
<1> DEFINE F == CHOOSE f : Loop(f)
<1>1. Len(s) = n
  BY LenOfResults
<1>2. \E f : Loop(f)
  <2> DEFINE Step == [j \in (i + 1)..n |-> [x \in Results(n) |-> Exchange(x, i, j)]]
  <2>1. Step \in Bodies(i, n, n)
    <3>1. \A j \in (i + 1)..n, x \in Results(n) : Exchange(x, i, j) \in Results(n)
      BY ExchangeOf
    <3> QED
      BY <3>1 DEF Bodies
  <2>2. \A j \in (i + 1)..n, x \in Results(n) : Step[j][x] = Exchange(x, i, j)
    OBVIOUS
  <2> HIDE DEF Step
  <2>3. PICK f \in Runs(i, n, n) : IsRun(f, i, n, s, Step)
    <3>1. i \in Int /\ n \in Int /\ i <= n
      OBVIOUS
    <3> QED
      BY <2>1, <3>1, LoopExists
  <2> USE DEF Runs, IsRun
  <2>4. ASSUME NEW j \in i..n PROVE f[j] = IF j = i THEN s ELSE Exchange(f[j - 1], i, j)
    <3>1. CASE j = i
      BY <3>1, <2>3
    <3>2. CASE j # i
      <4>1. j \in (i + 1)..n /\ j - 1 \in i..n
        BY <3>2
      <4> QED
        BY <3>2, <4>1, <2>2, <2>3
    <3> QED
      BY <3>1, <3>2
  <2>5. f = [j \in i..n |-> f[j]]
    OBVIOUS
  <2>6. Loop(f)
    BY <2>4, <2>5, <1>1
  <2> QED
    BY <2>6
<1>3. Loop(F)
  <2> HIDE DEF Loop
  <2> QED
    BY <1>2
<1>4. Pass(s, i) = F[n]
  BY <1>1 DEF Pass
<1> HIDE DEF F
<1>5. F = [j \in i..n |-> F[j]] /\ F[i] = s /\ \A j \in (i + 1)..n : F[j] = Exchange(F[j - 1], i, j)
  BY <1>1, <1>3
<1>6. \A j \in i..n : F[j] \in Results(n)
  <2> DEFINE P == {j \in i..n : F[j] \in Results(n)}
  <2>1. i \in P
    BY <1>5
  <2>2. ASSUME NEW k \in i..n, k \in P, k < n PROVE k + 1 \in P
    <3>1. k + 1 \in (i + 1)..n /\ k + 1 \in i..n /\ k + 1 \in 1..n /\ (k + 1) - 1 = k /\ i # k + 1
      BY <2>2
    <3>2. F[k + 1] = Exchange(F[k], i, k + 1)
      BY <3>1, <1>5
    <3>3. F[k] \in Results(n)
      BY <2>2
    <3>4. Exchange(F[k], i, k + 1) \in Results(n)
      BY <3>1, <3>3, ExchangeOf
    <3> QED
      BY <3>1, <3>2, <3>4
  <2>3. \A k \in i..n : k \in P
    <3> HIDE DEF P
    <3> QED
      BY <2>1, <2>2, LoopInduction
  <2> QED
    BY <2>3
<1>7. F \in [i..n -> Results(n)]
  BY <1>5, <1>6
<1> QED
  BY <1>4, <1>5, <1>7

\* The inner loop has come to j: place i holds the strongest result of places i
\* to j.
Strongest(s, i, j) == \A b \in (i + 1)..j : Level[s[i].net] >= Level[s[b].net]

LEMMA LevelOf ==
    ASSUME NEW n \in Nat, NEW s \in Results(n), NEW a \in 1..n
    PROVE  Level[s[a].net] \in Int
BY LevelAssumption DEF Results, Item

LEMMA ExchangeSettles ==
    ASSUME NEW n \in Nat, NEW s \in Results(n), NEW i \in 1..n, NEW j \in (i + 1)..n,
           Settled(s, i - 1, n), Strongest(s, i, j - 1)
    PROVE  Settled(Exchange(s, i, j), i - 1, n) /\ Strongest(Exchange(s, i, j), i, j)
<1>1. j \in 1..n /\ i # j
  OBVIOUS
<1>2. \A a \in 1..n : Level[s[a].net] \in Int
  BY LevelOf
<1>3. CASE Level[s[j].net] > Level[s[i].net]
  <2> DEFINE t == Exchange(s, i, j)
  <2>1. \A a \in 1..n : t[a] = s[IF a = i THEN j ELSE IF a = j THEN i ELSE a]
    BY <1>1, <1>3 DEF Exchange, Results
  <2> HIDE DEF t
  <2>2. ASSUME NEW a \in 1..(i - 1), NEW b \in 1..n, a < b
        PROVE  Level[t[a].net] >= Level[t[b].net]
    <3>1. a \in 1..n /\ t[a] = s[a]
      BY <2>1, <2>2
    <3>2. PICK c \in 1..n : t[b] = s[c] /\ a < c
      BY <2>1, <2>2, <1>1
    <3> QED
      BY <3>1, <3>2 DEF Settled
  <2>3. ASSUME NEW b \in (i + 1)..j PROVE Level[t[i].net] >= Level[t[b].net]
    <3>1. t[i] = s[j] /\ b \in 1..n
      BY <2>1, <1>1
    <3>2. CASE b = j
      BY <3>1, <3>2, <2>1, <1>1, <1>2, <1>3
    <3>3. CASE b # j
      <4>1. t[b] = s[b] /\ b \in (i + 1)..(j - 1)
        BY <3>1, <3>3, <2>1
      <4>2. Level[s[i].net] >= Level[s[b].net]
        BY <4>1 DEF Strongest
      <4> QED
        BY <3>1, <4>1, <4>2, <1>1, <1>2, <1>3
    <3> QED
      BY <3>2, <3>3
  <2> QED
    BY <2>2, <2>3 DEF Settled, Strongest, t
<1>4. CASE ~(Level[s[j].net] > Level[s[i].net])
  <2>1. Exchange(s, i, j) = s
    BY <1>4 DEF Exchange
  <2>2. Level[s[i].net] >= Level[s[j].net]
    BY <1>1, <1>2, <1>4
  <2>3. ASSUME NEW b \in (i + 1)..j PROVE Level[s[i].net] >= Level[s[b].net]
    BY <2>2 DEF Strongest
  <2> QED
    BY <2>1, <2>3 DEF Strongest
<1> QED
  BY <1>3, <1>4

\* A run of the inner loop settles one more place.
LEMMA PassSettles ==
    ASSUME NEW n \in Nat, NEW s \in Results(n), NEW i \in 1..n, Settled(s, i - 1, n)
    PROVE  /\ Pass(s, i) \in Results(n)
           /\ Permutes(Pass(s, i), s, n)
           /\ Settled(Pass(s, i), i, n)
<1>1. PICK f \in [i..n -> Results(n)] :
        /\ f[i] = s /\ Pass(s, i) = f[n]
        /\ \A j \in (i + 1)..n : f[j] = Exchange(f[j - 1], i, j)
  BY PassRuns
<1> DEFINE P == {j \in i..n : /\ Permutes(f[j], s, n)
                              /\ Settled(f[j], i - 1, n)
                              /\ Strongest(f[j], i, j)}
<1>2. i \in P
  <2>1. Permutes(f[i], s, n)
    BY <1>1, PermutesReflexive
  <2>2. Strongest(f[i], i, i)
    BY DEF Strongest
  <2> QED
    BY <1>1, <2>1, <2>2
<1>3. ASSUME NEW k \in i..n, k \in P, k < n PROVE k + 1 \in P
  <2>1. /\ k + 1 \in (i + 1)..n /\ k + 1 \in i..n /\ k + 1 \in 1..n
        /\ (k + 1) - 1 = k /\ i # k + 1
    BY <1>3
  <2>2. f[k + 1] = Exchange(f[k], i, k + 1) /\ f[k] \in Results(n)
    BY <2>1, <1>1
  <2>3. Permutes(f[k], s, n) /\ Settled(f[k], i - 1, n) /\ Strongest(f[k], i, k)
    BY <1>3
  <2>4. Permutes(f[k + 1], f[k], n)
    BY <2>1, <2>2, ExchangeOf
  <2>5. Permutes(f[k + 1], s, n)
    BY <2>3, <2>4, PermutesTransitive
  <2>6. Settled(f[k + 1], i - 1, n) /\ Strongest(f[k + 1], i, k + 1)
    BY <2>1, <2>2, <2>3, ExchangeSettles
  <2> QED
    BY <2>1, <2>5, <2>6
<1>4. n \in P
  <2>1. \A k \in i..n : k \in P
    <3> HIDE DEF P
    <3> QED
      BY <1>2, <1>3, LoopInduction
  <2> QED
    BY <2>1
<1>5. Settled(f[n], i, n)
  <2>1. Settled(f[n], i - 1, n) /\ Strongest(f[n], i, n)
    BY <1>4
  <2> SUFFICES ASSUME NEW a \in 1..i, NEW b \in 1..n, a < b
               PROVE  Level[f[n][a].net] >= Level[f[n][b].net]
    BY DEF Settled
  <2>2. CASE a = i
    BY <2>1, <2>2 DEF Strongest
  <2>3. CASE a # i
    BY <2>1, <2>3 DEF Settled
  <2> QED
    BY <2>2, <2>3
<1> QED
  BY <1>1, <1>4, <1>5

\* What Sort computes, as a sequence of runs of the inner loop.
LEMMA SortRuns ==
    ASSUME NEW n \in Nat, n # 0, NEW s \in Results(n)
    PROVE  \E f :
              /\ f[0] = s /\ Sort(s) = f[n - 1]
              /\ \A i \in 1..(n - 1) : f[i] = Pass(f[i - 1], i)
<1> DEFINE Loop(f) ==
        f = [i \in 0..(Len(s) - 1) |-> IF i = 0 THEN s ELSE Pass(f[i - 1], i)]
<1> DEFINE F == CHOOSE f : Loop(f)
<1>1. Len(s) = n
  BY LenOfResults
<1>2. \E f : Loop(f)
  <2> DEFINE Step == [i \in (0 + 1)..(n - 1) |-> [x \in Results(n) |-> Pass(x, i)]]
  <2>1. Step \in Bodies(0, n - 1, n)
    <3>1. ASSUME NEW i \in (0 + 1)..(n - 1), NEW x \in Results(n)
          PROVE  Pass(x, i) \in Results(n)
      <4>1. i \in 1..n /\ n \in i..n
        OBVIOUS
      <4> QED
        BY <4>1, PassRuns
    <3> QED
      BY <3>1 DEF Bodies
  <2>2. \A i \in (0 + 1)..(n - 1), x \in Results(n) : Step[i][x] = Pass(x, i)
    OBVIOUS
  <2> HIDE DEF Step
  <2>3. PICK f \in Runs(0, n - 1, n) : IsRun(f, 0, n - 1, s, Step)
    <3>1. 0 \in Int /\ n - 1 \in Int /\ 0 <= n - 1
      OBVIOUS
    <3> QED
      BY <2>1, <3>1, LoopExists
  <2> USE DEF Runs, IsRun
  <2>4. ASSUME NEW i \in 0..(n - 1) PROVE f[i] = IF i = 0 THEN s ELSE Pass(f[i - 1], i)
    <3>1. CASE i = 0
      BY <3>1, <2>3
    <3>2. CASE i # 0
      <4>1. i \in (0 + 1)..(n - 1) /\ i - 1 \in 0..(n - 1)
        BY <3>2
      <4> QED
        BY <3>2, <4>1, <2>2, <2>3
    <3> QED
      BY <3>1, <3>2
  <2>5. f = [i \in 0..(n - 1) |-> f[i]]
    OBVIOUS
  <2>6. Loop(f)
    BY <2>4, <2>5, <1>1
  <2> QED
    BY <2>6
<1>3. Loop(F)
  <2> HIDE DEF Loop
  <2> QED
    BY <1>2
<1>4. Sort(s) = F[n - 1]
  BY <1>1 DEF Sort
<1> HIDE DEF F
<1>5. F[0] = s /\ \A i \in 1..(n - 1) : F[i] = Pass(F[i - 1], i)
  BY <1>1, <1>3
<1> QED
  BY <1>4, <1>5

\* sort_scan_result returns the results it is given, each as often as it was
\* there, and the stronger one of two before the weaker one, however many they
\* are and whatever their levels.
THEOREM SortSortsAll ==
    ASSUME NEW n \in Nat, NEW s \in Results(n)
    PROVE  /\ Sort(s) \in Results(n)
           /\ Permutes(Sort(s), s, n)
           /\ \A i, j \in 1..n : i < j => Level[Sort(s)[i].net] >= Level[Sort(s)[j].net]
<1>1. CASE n = 0
  <2>1. Sort(s) = s
    BY <1>1, LenOfResults DEF Sort
  <2> QED
    BY <1>1, <2>1, PermutesReflexive
<1>2. CASE n # 0
  <2>1. PICK f :
          /\ f[0] = s /\ Sort(s) = f[n - 1]
          /\ \A i \in 1..(n - 1) : f[i] = Pass(f[i - 1], i)
    BY <1>2, SortRuns
  <2> DEFINE P == {i \in 0..(n - 1) : /\ f[i] \in Results(n)
                                      /\ Permutes(f[i], s, n)
                                      /\ Settled(f[i], i, n)}
  <2>2. 0 \in P
    BY <1>2, <2>1, PermutesReflexive DEF Settled
  <2>3. ASSUME NEW k \in 0..(n - 1), k \in P, k < n - 1 PROVE k + 1 \in P
    <3>1. /\ k + 1 \in 1..(n - 1) /\ k + 1 \in 1..n /\ (k + 1) - 1 = k
          /\ k + 1 \in 0..(n - 1)
      BY <2>3
    <3>2. f[k + 1] = Pass(f[k], k + 1)
      BY <2>1, <3>1
    <3>3. f[k] \in Results(n) /\ Permutes(f[k], s, n) /\ Settled(f[k], (k + 1) - 1, n)
      BY <2>3, <3>1
    <3>4. /\ f[k + 1] \in Results(n)
          /\ Permutes(f[k + 1], f[k], n)
          /\ Settled(f[k + 1], k + 1, n)
      BY <3>1, <3>2, <3>3, PassSettles
    <3>5. Permutes(f[k + 1], s, n)
      BY <3>3, <3>4, PermutesTransitive
    <3> QED
      BY <3>1, <3>4, <3>5
  <2>4. n - 1 \in P
    <3>1. 0 \in Int /\ n - 1 \in Int /\ n - 1 \in 0..(n - 1)
      BY <1>2
    <3>2. \A k \in 0..(n - 1) : k \in P
      <4> HIDE DEF P
      <4> QED
        BY <2>2, <2>3, <3>1, LoopInduction
    <3> QED
      BY <3>1, <3>2
  <2>5. f[n - 1] \in Results(n) /\ Permutes(f[n - 1], s, n) /\ Settled(f[n - 1], n - 1, n)
    BY <2>4
  <2>6. ASSUME NEW i \in 1..n, NEW j \in 1..n, i < j
        PROVE  Level[f[n - 1][i].net] >= Level[f[n - 1][j].net]
    <3>1. i \in 1..(n - 1)
      BY <2>6
    <3> QED
      BY <3>1, <2>5, <2>6 DEF Settled
  <2> QED
    BY <2>1, <2>5, <2>6
<1> QED
  BY <1>1, <1>2
=============================================================================
