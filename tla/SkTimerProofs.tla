--------------------------- MODULE SkTimerProofs ----------------------------
(***************************************************************************)
(* Proofs about SkTimer for any number of timers, clock and days: the array *)
(* stays sorted and without holes, and a check runs every entry that is due *)
(* exactly once although it shifts and sorts the array under its own walk.  *)
(***************************************************************************)
EXTENDS SkTimer, WellFoundedInduction, SequenceTheorems, TLAPS

-----------------------------------------------------------------------------
(* Recursion: functions and folds have the values their equations say       *)

\* A set that has 0 and the successor of each of its numbers has every number.
LEMMA Induction ==
    ASSUME NEW S, 0 \in S, \A n \in Nat : n \in S => n + 1 \in S
    PROVE  \A n \in Nat : n \in S
<1> DEFINE T == Nat \ S
<1> SUFFICES ASSUME T # {}
             PROVE  FALSE
  OBVIOUS
<1>1. PICK m \in T : \A y \in T : ~(<<y, m>> \in OpToRel(<, Nat))
  BY WFMin, NatLessThanWellFounded, Zenon
<1>2. m \in Nat /\ m # 0
  OBVIOUS
<1>3. m - 1 \in Nat /\ m - 1 < m
  BY <1>2
<1>4. m - 1 \in S
  BY <1>1, <1>3 DEF OpToRel
<1>5. m - 1 + 1 \in S
  BY <1>3, <1>4
<1> QED
  BY <1>2, <1>5

\* A set of numbers that is not empty has a least one, and below a bound a largest one.
LEMMA LeastExists ==
    ASSUME NEW S \in SUBSET Nat, S # {}
    PROVE  Min(S) \in S /\ \A y \in S : Min(S) <= y
<1>1. PICK m \in S : \A y \in S : ~(<<y, m>> \in OpToRel(<, Nat))
  BY WFMin, NatLessThanWellFounded, Zenon
<1>2. ASSUME NEW y \in S
      PROVE  m <= y
  <2>1. m \in Nat /\ y \in Nat
    OBVIOUS
  <2>2. y < m => <<y, m>> \in OpToRel(<, Nat)
    BY <2>1 DEF OpToRel
  <2>3. ~(y < m)
    BY <1>1, <2>2, Zenon
  <2> QED
    BY <2>1, <2>3
<1> QED
  BY <1>2, Zenon DEF Min

LEMMA LargestExists ==
    ASSUME NEW n \in Nat, NEW S \in SUBSET (0..n), S # {}
    PROVE  Max(S) \in S /\ \A y \in S : Max(S) >= y
<1> DEFINE T == {m \in 0..n : n - m \in S}
<1>1. T \in SUBSET Nat /\ T # {}
  <2>1. PICK x \in S : TRUE
    OBVIOUS
  <2>2. x \in 0..n /\ n - x \in 0..n /\ n - (n - x) = x
    OBVIOUS
  <2>3. n - x \in T
    BY <2>1, <2>2
  <2>4. T \in SUBSET Nat
    OBVIOUS
  <2> HIDE DEF T
  <2> QED
    BY <2>3, <2>4
<1>2. Min(T) \in T /\ \A y \in T : Min(T) <= y
  BY <1>1, LeastExists
<1>3. PICK m \in T : \A y \in T : m <= y
  BY <1>2
<1>4. n - m \in S /\ \A y \in S : n - m >= y
  <2>1. ASSUME NEW y \in S
        PROVE  n - m >= y
    <3>1. n - y \in T
      OBVIOUS
    <3>2. m <= n - y /\ m \in Nat /\ y \in Nat
      BY <1>3, <3>1
    <3> QED
      BY <3>2
  <2> QED
    BY <2>1
<1> QED
  BY <1>4, Zenon DEF Max

\* The largest element is Max.
LEMMA MaxIs ==
    ASSUME NEW S \in SUBSET Nat, NEW x \in S, \A y \in S : x >= y
    PROVE  Max(S) = x
<1>1. Max(S) \in S /\ \A y \in S : Max(S) >= y
  BY Zenon DEF Max
<1>2. Max(S) \in Nat /\ x \in Nat /\ Max(S) >= x /\ x >= Max(S)
  BY <1>1
<1> QED
  BY <1>2

LEMMA InSegment ==
    ASSUME NEW n \in Nat, NEW S \in SUBSET (1..n), S # {}
    PROVE  Max(S) \in S /\ Max(S) \in 1..n /\ S \ {Max(S)} \in SUBSET (1..n)
<1>1. S \in SUBSET (0..n)
  OBVIOUS
<1>2. Max(S) \in S
  BY <1>1, LargestExists
<1> QED
  BY <1>2

\* What the recursive function inside a fold from the left computes on sets of places.
Iterates(g, D, r, step, s) ==
    g = [S \in SUBSET D |-> IF S = {} THEN r ELSE step[<<g[S \ {Max(S)}], s[Max(S)]>>]]

\* A step that stays within T can be iterated over any sequence.
LEMMA IterationExists ==
    ASSUME NEW T, NEW E, NEW step \in [T \X E -> T], NEW r \in T,
           NEW n \in Nat, NEW s \in [1..n -> E]
    PROVE  \E g \in [SUBSET (1..n) -> T] : Iterates(g, 1..n, r, step, s)
<1> DEFINE Some(m) == m <= n => \E g \in [SUBSET (1..m) -> T] : Iterates(g, 1..m, r, step, s)
           Good == {m \in Nat : Some(m)}
<1>1. Some(0)
  <2> DEFINE g == [S \in SUBSET (1..0) |-> r]
  <2>1. SUBSET (1..0) = {{}}
    OBVIOUS
  <2>2. g \in [SUBSET (1..0) -> T] /\ Iterates(g, 1..0, r, step, s)
    BY <2>1 DEF Iterates
  <2> QED
    BY <2>2
<1>2. ASSUME NEW m \in Nat, Some(m)
      PROVE  Some(m + 1)
  <2> SUFFICES ASSUME m + 1 <= n
               PROVE  \E g \in [SUBSET (1..(m + 1)) -> T] : Iterates(g, 1..(m + 1), r, step, s)
    OBVIOUS
  <2>0. m <= n
    OBVIOUS
  <2>1. PICK g \in [SUBSET (1..m) -> T] : Iterates(g, 1..m, r, step, s)
    BY <1>2, <2>0, Zenon
  <2> DEFINE h == [S \in SUBSET (1..(m + 1)) |->
                      IF m + 1 \in S THEN step[<<g[S \ {m + 1}], s[m + 1]>>] ELSE g[S]]
  <2>2. ASSUME NEW S \in SUBSET (1..(m + 1))
        PROVE  /\ h[S] \in T
               /\ h[S] = IF S = {} THEN r ELSE step[<<h[S \ {Max(S)}], s[Max(S)]>>]
    <3>1. CASE m + 1 \in S
      <4>1. Max(S) = m + 1
        BY <3>1, MaxIs
      <4>2. S \ {m + 1} \in SUBSET (1..m) /\ S \ {m + 1} \in SUBSET (1..(m + 1))
        OBVIOUS
      <4>3. h[S \ {m + 1}] = g[S \ {m + 1}] /\ g[S \ {m + 1}] \in T
        BY <4>2
      <4>4. s[m + 1] \in E
        OBVIOUS
      <4>5. h[S] = step[<<g[S \ {m + 1}], s[m + 1]>>]
        BY <3>1
      <4> QED
        BY <4>1, <4>3, <4>4, <4>5, <3>1
    <3>2. CASE m + 1 \notin S
      <4>1. S \in SUBSET (1..m)
        BY <3>2
      <4>2. h[S] = g[S] /\ g[S] \in T
        BY <3>2, <4>1
      <4>3. g[S] = IF S = {} THEN r ELSE step[<<g[S \ {Max(S)}], s[Max(S)]>>]
        BY <2>1, <4>1 DEF Iterates
      <4>4. h[S \ {Max(S)}] = g[S \ {Max(S)}]
        BY <3>2
      <4> QED
        BY <4>2, <4>3, <4>4
    <3> QED
      BY <3>1, <3>2
  <2>3. h \in [SUBSET (1..(m + 1)) -> T]
    BY <2>2
  <2>4. h = [S \in SUBSET (1..(m + 1)) |-> IF S = {} THEN r ELSE step[<<h[S \ {Max(S)}], s[Max(S)]>>]]
    BY <2>2
  <2> QED
    BY <2>3, <2>4, Zenon DEF Iterates
<1> HIDE DEF Some
<1>3. 0 \in Good /\ \A m \in Nat : m \in Good => m + 1 \in Good
  BY <1>1, <1>2
<1>4. n \in Good
  BY <1>3, Induction
<1>5. Some(n)
  BY <1>4
<1>6. n <= n
  OBVIOUS
<1> QED
  BY <1>5, <1>6, Zenon DEF Some

\* The places from the first to the k-th, of which the k-th is the last.
LEMMA Segments ==
    ASSUME NEW n \in Nat, NEW k \in 1..n
    PROVE  /\ Max(1..k) = k
           /\ (1..k) \ {k} = 1..(k - 1)
           /\ 1..k # {}
           /\ 1..k \in SUBSET (1..n)
BY MaxIs

-----------------------------------------------------------------------------
(* The inductive invariant                                                  *)

Arrays == [1..Num -> Entries]

\* The entries in use are the first ones.
NoHoles(a) == \A j, k \in 1..Num : (j < k /\ Valid(a[k])) => Valid(a[j])

\* Entries in use are in the order of their times.
InTime(a) == \A j, k \in 1..Num :
                (j < k /\ Valid(a[j]) /\ Valid(a[k])) => a[j].time <= a[k].time

\* No entry is in two places.
Once(a) == \A j, k \in 1..Num : (j # k /\ Valid(a[j])) => a[j].node # a[k].node

\* An entry that ends when it runs: no bit of its week is a day.
Ends(e) == e.week \cap (0..6) = {}

\* Before the first check nothing has run.
Unused == ran = [n \in Nodes |-> 0] /\ due = {} /\ stay = {}

\* In a check, with the array a and the counts r: an entry of the array is due and has not
\* run, or neither and is later than the check; and it is to leave only while it is due.
DueOrLater(a, r) ==
    \A k \in Live(a) :
        /\ a[k].time <= now <=> (a[k].node \in due /\ r[a[k].node] = 0)
        /\ a[k].node \notin stay <=> (a[k].time <= now /\ Ends(a[k]))

\* One that was due and has not run, and one that should stay, is still in the array.
StillThere(a, r) ==
    /\ \A n \in due : r[n] = 0 => \E k \in Live(a) : a[k].node = n
    /\ \A n \in stay : \E k \in Live(a) : a[k].node = n

RanDue(r) == \A n \in Nodes : r[n] <= 1 /\ (r[n] = 1 => n \in due)

\* The walk has left nothing behind that is due.
BehindLater == \A k \in Live(slots) : k < i => slots[k].time > now

Walk == DueOrLater(slots, ran) /\ StillThere(slots, ran) /\ RanDue(ran) /\ BehindLater

TimerInv ==
    /\ TypeOK
    /\ NoHoles(slots) /\ Once(slots)
    /\ pc = "new" => Unused
    /\ pc # "new" => InTime(slots)
    /\ (pc = "check" /\ ~NearWrap) => Walk
    /\ EachDueRunsOnce

-----------------------------------------------------------------------------
(* sk_sort_timer                                                            *)

\* The array b has the entries of a, each once, at the places in use in a.
Shuffled(a, b) ==
    /\ \A k \in 1..Num : Valid(b[k]) <=> Valid(a[k])
    /\ \A k \in Live(a) : \E j \in Live(b) : b[j] = a[k]
    /\ \A k \in Live(b) : \E j \in Live(a) : b[k] = a[j]
    /\ Once(a) => Once(b)

\* Everything before j, and j as far as k, is in the order of the times.
SortedTo(a, j, k) ==
    \A p, q \in 1..Num :
        (p < q /\ Valid(a[p]) /\ Valid(a[q]) /\ (p < j \/ (p = j /\ q <= k)))
            => a[p].time <= a[q].time

LEMMA ShuffledSame == \A a : Shuffled(a, a)
BY DEF Shuffled

LEMMA ShuffledTwice ==
    ASSUME NEW a, NEW b, NEW c, Shuffled(a, b), Shuffled(b, c)
    PROVE  Shuffled(a, c)
<1>1. \A k \in 1..Num : Valid(c[k]) <=> Valid(a[k])
  BY DEF Shuffled
<1>2. ASSUME NEW k \in Live(a)
      PROVE  \E j \in Live(c) : c[j] = a[k]
  <2>1. PICK m \in Live(b) : b[m] = a[k]
    BY DEF Shuffled
  <2>2. PICK j \in Live(c) : c[j] = b[m]
    BY DEF Shuffled
  <2> QED
    BY <2>1, <2>2
<1>3. ASSUME NEW k \in Live(c)
      PROVE  \E j \in Live(a) : c[k] = a[j]
  <2>1. PICK m \in Live(b) : c[k] = b[m]
    BY DEF Shuffled
  <2>2. PICK j \in Live(a) : b[m] = a[j]
    BY DEF Shuffled
  <2> QED
    BY <2>1, <2>2
<1>4. Once(a) => Once(c)
  BY DEF Shuffled
<1> QED
  BY <1>1, <1>2, <1>3, <1>4 DEF Shuffled

\* Two entries that change places, or stay.
LEMMA InOrderSwaps ==
    ASSUME NEW a \in Arrays, NEW j \in 1..Num, NEW k \in 1..Num, j < k
    PROVE  InOrder(a, j, k) \in Arrays /\ Shuffled(a, InOrder(a, j, k))
<1> DEFINE b == [a EXCEPT ![j] = a[k], ![k] = a[j]]
<1>1. CASE Valid(a[j]) /\ Valid(a[k]) /\ a[k].time < a[j].time
  <2>1. InOrder(a, j, k) = b
    BY <1>1 DEF InOrder
  <2>2. /\ b \in Arrays /\ b[j] = a[k] /\ b[k] = a[j]
        /\ \A m \in 1..Num : (m # j /\ m # k) => b[m] = a[m]
    BY DEF Arrays
  <2> HIDE DEF b
  <2>3. \A m \in 1..Num : Valid(b[m]) <=> Valid(a[m])
    BY <2>2, <1>1
  <2>4. ASSUME NEW m \in Live(a)
        PROVE  \E q \in Live(b) : b[q] = a[m]
    <3>1. j \in Live(b) /\ k \in Live(b) /\ m \in Live(b)
      BY <2>3, <1>1 DEF Live
    <3>2. m \in 1..Num
      BY DEF Live
    <3> QED
      BY <3>1, <3>2, <2>2
  <2>5. ASSUME NEW m \in Live(b)
        PROVE  \E q \in Live(a) : b[m] = a[q]
    <3>1. j \in Live(a) /\ k \in Live(a) /\ m \in Live(a)
      BY <2>3, <1>1 DEF Live
    <3>2. m \in 1..Num
      BY DEF Live
    <3> QED
      BY <3>1, <3>2, <2>2
  <2>6. ASSUME Once(a), NEW p \in 1..Num, NEW q \in 1..Num, p # q, Valid(b[p])
        PROVE  b[p].node # b[q].node
    <3> DEFINE at(x) == IF x = j THEN k ELSE IF x = k THEN j ELSE x
    <3>1. b[p] = a[at(p)] /\ b[q] = a[at(q)] /\ at(p) # at(q) /\ at(p) \in 1..Num /\ at(q) \in 1..Num
      BY <2>2, <2>6
    <3> HIDE DEF at
    <3> QED
      BY <3>1, <2>6 DEF Once
  <2> QED
    BY <2>1, <2>2, <2>3, <2>4, <2>5, <2>6 DEF Shuffled, Once
<1>2. CASE ~(Valid(a[j]) /\ Valid(a[k]) /\ a[k].time < a[j].time)
  BY <1>2, ShuffledSame DEF InOrder
<1> QED
  BY <1>1, <1>2

\* Comparing j with one more place brings the order further.
LEMMA InOrderSorts ==
    ASSUME NEW a \in Arrays, NEW j \in 1..Num, NEW k \in 1..Num, j < k, SortedTo(a, j, k - 1)
    PROVE  SortedTo(InOrder(a, j, k), j, k)
<1> DEFINE b == InOrder(a, j, k)
           t == [m \in 1..Num |-> a[m].time]
           u == [m \in 1..Num |-> b[m].time]
<1>0. Width \in Nat
  BY SkTimerAssumption
<1>1. t \in [1..Num -> Nat]
  BY <1>0 DEF Arrays, Entries
<1> SUFFICES ASSUME NEW p \in 1..Num, NEW q \in 1..Num,
                    p < q, Valid(b[p]), Valid(b[q]), p < j \/ (p = j /\ q <= k)
             PROVE  u[p] <= u[q]
  BY DEF SortedTo
<1>2. \A x, y \in 1..Num : (x < y /\ Valid(a[x]) /\ Valid(a[y]) /\ (x < j \/ (x = j /\ y <= k - 1)))
                              => t[x] <= t[y]
  BY DEF SortedTo
<1>3. CASE Valid(a[j]) /\ Valid(a[k]) /\ a[k].time < a[j].time
  <2>1. b = [a EXCEPT ![j] = a[k], ![k] = a[j]]
    BY <1>3 DEF InOrder
  <2>2. /\ b[j] = a[k] /\ b[k] = a[j]
        /\ \A m \in 1..Num : (m # j /\ m # k) => b[m] = a[m]
    BY <2>1 DEF Arrays
  <2>3. /\ u[j] = t[k] /\ u[k] = t[j] /\ t[k] < t[j]
        /\ \A m \in 1..Num : (m # j /\ m # k) => u[m] = t[m]
    BY <2>2, <1>3
  <2>4. \A m \in 1..Num : Valid(b[m]) <=> Valid(a[m])
    BY <2>2, <1>3
  <2> HIDE DEF b, t, u
  <2>5. Valid(a[p]) /\ Valid(a[q])
    BY <2>4
  <2>6. CASE p = j
    <3>1. CASE q = k
      BY <2>6, <3>1, <2>3, <1>1
    <3>2. CASE q # k
      <4>1. q <= k - 1 /\ q # j
        BY <2>6, <3>2
      <4>2. t[j] <= t[q]
        BY <4>1, <2>6, <1>2, <2>5
      <4>3. u[q] = t[q]
        BY <4>1, <3>2, <2>3
      <4> QED
        BY <4>2, <4>3, <2>3, <2>6, <1>1
    <3> QED
      BY <3>1, <3>2
  <2>7. CASE p < j
    <3>1. u[p] = t[p]
      BY <2>7, <2>3
    <3>2. t[p] <= t[q] /\ t[p] <= t[j] /\ t[p] <= t[k]
      BY <2>7, <1>2, <2>5, <1>3
    <3> QED
      BY <3>1, <3>2, <2>3
  <2> QED
    BY <2>6, <2>7
<1>4. CASE ~(Valid(a[j]) /\ Valid(a[k]) /\ a[k].time < a[j].time)
  <2>1. b = a
    BY <1>4 DEF InOrder
  <2>2. t = u
    BY <2>1
  <2>3. CASE p = j /\ q = k
    <3>1. ~(t[k] < t[j])
      BY <1>4, <2>1, <2>3
    <3> QED
      BY <3>1, <2>2, <2>3, <1>1
  <2>4. CASE ~(p = j /\ q = k)
    <3>1. p < j \/ (p = j /\ q <= k - 1)
      BY <2>4
    <3>2. Valid(a[p]) /\ Valid(a[q])
      BY <2>1
    <3> HIDE DEF b, t, u
    <3> QED
      BY <3>1, <3>2, <1>2, <2>2
  <2> QED
    BY <2>3, <2>4
<1> QED
  BY <1>3, <1>4

\* The array as the inner loop compares j with one place after the other.
LEMMA PassFold ==
    ASSUME NEW a \in Arrays, NEW j \in 1..Num
    PROVE  \E g : /\ g[0] = a
                  /\ \A m \in 1..(Num - j) : g[m] = InOrder(g[m - 1], j, j + m)
                  /\ Pass(a, j) = g[Num - j]
<1> DEFINE n == Num - j
           s == [m \in 1..(Num - j) |-> j + m]
           step == [p \in Arrays \X (1..n) |-> InOrder(p[1], j, j + p[2])]
           Eq(g) == g = [S \in SUBSET (DOMAIN s) |-> IF S = {} THEN a ELSE InOrder(g[S \ {Max(S)}], j, s[Max(S)])]
           h == CHOOSE g : Eq(g)
<1>1. Pass(a, j) = h[DOMAIN s]
  BY Zenon DEF Pass, FoldLeft, MapThenFoldSet
<1>2. n \in Nat /\ DOMAIN s = 1..n /\ \A m \in 1..n : s[m] = j + m
  BY SkTimerAssumption
<1>3. step \in [Arrays \X (1..n) -> Arrays]
  <2>1. ASSUME NEW b \in Arrays, NEW m \in 1..n
        PROVE  InOrder(b, j, j + m) \in Arrays
    <3>1. j + m \in 1..Num /\ j < j + m
      BY SkTimerAssumption
    <3> QED
      BY <3>1, InOrderSwaps
  <2> QED
    BY <2>1
<1> DEFINE id == [m \in 1..n |-> m]
<1>4. \E g : Eq(g)
  <2> HIDE DEF step
  <2>0. id \in [1..n -> 1..n]
    OBVIOUS
  <2>1. PICK g \in [SUBSET (1..n) -> Arrays] : Iterates(g, 1..n, a, step, id)
    <3> HIDE DEF id, n
    <3> QED
      BY <1>2, <1>3, <2>0, IterationExists, Zenon
  <2>2. ASSUME NEW S \in SUBSET (1..n), S # {}
        PROVE  step[<<g[S \ {Max(S)}], id[Max(S)]>>] = InOrder(g[S \ {Max(S)}], j, s[Max(S)])
    <3>1. Max(S) \in 1..n /\ S \ {Max(S)} \in SUBSET (1..n)
      BY <1>2, <2>2, InSegment, Zenon
    <3>2. g[S \ {Max(S)}] \in Arrays /\ id[Max(S)] = Max(S) /\ s[Max(S)] = j + Max(S)
      BY <3>1, <2>1, <1>2
    <3> QED
      BY <3>1, <3>2 DEF step
  <2>3. Eq(g)
    <3> HIDE DEF id, s, n
    <3> QED
      BY <2>1, <2>2, <1>2, Zenon DEF Iterates
  <2> QED
    BY <2>3
<1>5. Eq(h)
  <2> HIDE DEF Eq
  <2> QED
    BY <1>4, Zenon
<1> HIDE DEF s, n
<1>6. h[{}] = a /\ \A S \in SUBSET (1..n) : S # {} => h[S] = InOrder(h[S \ {Max(S)}], j, s[Max(S)])
  <2> HIDE DEF h
  <2>1. h[{}] = IF {} = {} THEN a ELSE InOrder(h[{} \ {Max({})}], j, s[Max({})])
    BY <1>2, <1>5, Zenon
  <2> QED
    BY <1>2, <1>5, <2>1, Zenon
<1> DEFINE v == [m \in 0..n |-> h[1..m]]
<1> HIDE DEF h
<1>7. v[0] = a
  <2>1. 1..0 = {} /\ 0 \in 0..n
    BY <1>2
  <2> QED
    BY <2>1, <1>6
<1>8. ASSUME NEW m \in 1..n
      PROVE  v[m] = InOrder(v[m - 1], j, j + m)
  <2>1. v[m] = h[1..m] /\ v[m - 1] = h[1..(m - 1)]
    BY <1>2
  <2>2. /\ Max(1..m) = m /\ (1..m) \ {m} = 1..(m - 1)
        /\ 1..m # {} /\ 1..m \in SUBSET (1..n)
    BY <1>2, Segments
  <2>3. h[1..m] = InOrder(h[(1..m) \ {Max(1..m)}], j, s[Max(1..m)])
    BY <1>6, <2>2, Zenon
  <2>4. s[m] = j + m
    BY <1>2
  <2> QED
    BY <2>1, <2>2, <2>3, <2>4, Zenon
<1>9. Pass(a, j) = v[n]
  BY <1>1, <1>2
<1> QED
  BY <1>7, <1>8, <1>9, Zenon DEF n

\* One round of the outer loop: the j-th entry is the first of those from j on.
LEMMA PassSorts ==
    ASSUME NEW a \in Arrays, NEW j \in 1..Num
    PROVE  /\ Pass(a, j) \in Arrays
           /\ Shuffled(a, Pass(a, j))
           /\ SortedTo(a, j, j) => SortedTo(Pass(a, j), j, Num)
<1>1. PICK g : /\ g[0] = a
               /\ \A m \in 1..(Num - j) : g[m] = InOrder(g[m - 1], j, j + m)
               /\ Pass(a, j) = g[Num - j]
  BY PassFold, Zenon
<1> DEFINE P(m) == /\ g[m] \in Arrays /\ Shuffled(a, g[m])
                   /\ SortedTo(a, j, j) => SortedTo(g[m], j, j + m)
           Good == {m \in Nat : m <= Num - j => P(m)}
<1>2. P(0)
  <2>1. j + 0 = j
    OBVIOUS
  <2> QED
    BY <1>1, <2>1, ShuffledSame
<1>3. ASSUME NEW m \in Nat, P(m), m + 1 <= Num - j
      PROVE  P(m + 1)
  <2>1. g[m + 1] = InOrder(g[m], j, j + m + 1)
    <3>1. m + 1 \in 1..(Num - j) /\ m + 1 - 1 = m /\ j + (m + 1) = j + m + 1
      BY <1>3, SkTimerAssumption
    <3> QED
      BY <1>1, <3>1
  <2>2. j + m + 1 \in 1..Num /\ j < j + m + 1 /\ j + m + 1 - 1 = j + m /\ j + (m + 1) = j + m + 1
    BY <1>3, SkTimerAssumption
  <2>3. g[m + 1] \in Arrays /\ Shuffled(g[m], g[m + 1])
    BY <1>3, <2>1, <2>2, InOrderSwaps
  <2>4. Shuffled(a, g[m + 1])
    BY <1>3, <2>3, ShuffledTwice
  <2>5. SortedTo(a, j, j) => SortedTo(g[m + 1], j, j + (m + 1))
    <3> SUFFICES ASSUME SortedTo(a, j, j)
                 PROVE  SortedTo(InOrder(g[m], j, j + m + 1), j, j + m + 1)
      BY <2>1, <2>2, Zenon
    <3>1. SortedTo(g[m], j, j + m + 1 - 1) /\ g[m] \in Arrays
      BY <1>3, <2>2
    <3> QED
      BY <3>1, <2>2, InOrderSorts
  <2> QED
    BY <2>3, <2>4, <2>5
<1>4. 0 \in Good /\ \A m \in Nat : m \in Good => m + 1 \in Good
  <2> HIDE DEF P
  <2>1. ASSUME NEW m \in Nat, m \in Good, m + 1 <= Num - j
        PROVE  P(m + 1)
    <3>1. m <= Num - j
      BY <2>1, SkTimerAssumption
    <3> QED
      BY <3>1, <2>1, <1>3
  <2> QED
    BY <1>2, <2>1
<1>5. Num - j \in Nat /\ j + (Num - j) = Num /\ Num - j <= Num - j
  BY SkTimerAssumption
<1>6. Num - j \in Good
  <2> HIDE DEF Good
  <2> QED
    BY <1>4, <1>5, Induction
<1>7. P(Num - j)
  <2> HIDE DEF P
  <2> QED
    BY <1>5, <1>6
<1> QED
  BY <1>1, <1>5, <1>7

LEMMA SortFold ==
    ASSUME NEW a \in Arrays
    PROVE  \E g : /\ g[0] = a
                  /\ \A j \in 1..Num : g[j] = Pass(g[j - 1], j)
                  /\ Sort(a) = g[Num]
<1> DEFINE s == [j \in 1..Num |-> j]
           step == [p \in Arrays \X (1..Num) |-> Pass(p[1], p[2])]
           Eq(g) == g = [S \in SUBSET (DOMAIN s) |-> IF S = {} THEN a ELSE Pass(g[S \ {Max(S)}], s[Max(S)])]
           h == CHOOSE g : Eq(g)
<1>1. Sort(a) = h[DOMAIN s]
  BY Zenon DEF Sort, FoldLeft, MapThenFoldSet
<1>2. Num \in Nat /\ s \in [1..Num -> 1..Num] /\ DOMAIN s = 1..Num /\ \A j \in 1..Num : s[j] = j
  BY SkTimerAssumption
<1>3. step \in [Arrays \X (1..Num) -> Arrays]
  BY PassSorts
<1> HIDE DEF s
<1>4. \E g : Eq(g)
  <2> HIDE DEF step
  <2>1. PICK g \in [SUBSET (1..Num) -> Arrays] : Iterates(g, 1..Num, a, step, s)
    BY <1>2, <1>3, IterationExists, Zenon
  <2>2. ASSUME NEW S \in SUBSET (1..Num), S # {}
        PROVE  step[<<g[S \ {Max(S)}], s[Max(S)]>>] = Pass(g[S \ {Max(S)}], s[Max(S)])
    <3>1. Max(S) \in 1..Num /\ S \ {Max(S)} \in SUBSET (1..Num)
      BY <1>2, <2>2, InSegment, Zenon
    <3>2. g[S \ {Max(S)}] \in Arrays /\ s[Max(S)] \in 1..Num
      BY <3>1, <2>1, <1>2
    <3> QED
      BY <3>2 DEF step
  <2>3. Eq(g)
    BY <2>1, <2>2, <1>2, Zenon DEF Iterates
  <2> QED
    BY <2>3
<1>5. Eq(h)
  <2> HIDE DEF Eq
  <2> QED
    BY <1>4, Zenon
<1>6. h[{}] = a /\ \A S \in SUBSET (1..Num) : S # {} => h[S] = Pass(h[S \ {Max(S)}], s[Max(S)])
  <2> HIDE DEF h
  <2>1. h[{}] = IF {} = {} THEN a ELSE Pass(h[{} \ {Max({})}], s[Max({})])
    BY <1>2, <1>5, Zenon
  <2> QED
    BY <1>2, <1>5, <2>1, Zenon
<1> DEFINE v == [j \in 0..Num |-> h[1..j]]
<1> HIDE DEF h
<1>7. v[0] = a
  <2>1. 1..0 = {} /\ 0 \in 0..Num
    BY <1>2
  <2> QED
    BY <2>1, <1>6
<1>8. ASSUME NEW j \in 1..Num
      PROVE  v[j] = Pass(v[j - 1], j)
  <2>1. v[j] = h[1..j] /\ v[j - 1] = h[1..(j - 1)]
    BY <1>2
  <2>2. /\ Max(1..j) = j /\ (1..j) \ {j} = 1..(j - 1)
        /\ 1..j # {} /\ 1..j \in SUBSET (1..Num)
    BY <1>2, Segments
  <2>3. h[1..j] = Pass(h[(1..j) \ {Max(1..j)}], s[Max(1..j)])
    BY <1>6, <2>2, Zenon
  <2> QED
    BY <2>1, <2>2, <2>3, <1>2, Zenon
<1>9. Sort(a) = v[Num]
  BY <1>1, <1>2
<1> QED
  BY <1>7, <1>8, <1>9, Zenon

\* sk_sort_timer sorts by time and loses, doubles and moves into a hole no entry.
LEMMA SortSorts ==
    ASSUME NEW a \in Arrays
    PROVE  Sort(a) \in Arrays /\ Shuffled(a, Sort(a)) /\ InTime(Sort(a))
<1>1. PICK g : /\ g[0] = a
               /\ \A j \in 1..Num : g[j] = Pass(g[j - 1], j)
               /\ Sort(a) = g[Num]
  BY SortFold, Zenon
<1>n. Num \in Nat
  BY SkTimerAssumption
<1> DEFINE P(j) == g[j] \in Arrays /\ Shuffled(a, g[j]) /\ SortedTo(g[j], j, Num)
           Good == {j \in Nat : j <= Num => P(j)}
<1>2. P(0)
  <2>1. SortedTo(a, 0, Num)
    BY <1>n DEF SortedTo
  <2> QED
    BY <1>1, <2>1, ShuffledSame
<1>3. ASSUME NEW j \in Nat, P(j), j + 1 <= Num
      PROVE  P(j + 1)
  <2>1. j + 1 \in 1..Num /\ j + 1 - 1 = j
    BY <1>3, <1>n
  <2>2. g[j + 1] = Pass(g[j], j + 1)
    BY <1>1, <2>1
  <2>3. SortedTo(g[j], j + 1, j + 1)
    BY <1>3, <1>n DEF SortedTo
  <2>4. g[j + 1] \in Arrays /\ Shuffled(g[j], g[j + 1]) /\ SortedTo(g[j + 1], j + 1, Num)
    BY <1>3, <2>1, <2>2, <2>3, PassSorts
  <2> QED
    BY <1>3, <2>4, ShuffledTwice
<1>4. 0 \in Good /\ \A j \in Nat : j \in Good => j + 1 \in Good
  <2> HIDE DEF P
  <2> QED
    BY <1>2, <1>3, <1>n
<1>5. Num \in Good
  <2> HIDE DEF Good
  <2> QED
    BY <1>4, <1>n, Induction
<1>6. P(Num)
  <2> HIDE DEF P
  <2> QED
    BY <1>5, <1>n
<1>7. InTime(g[Num])
  BY <1>6, <1>n DEF SortedTo, InTime
<1> QED
  BY <1>1, <1>6, <1>7

-----------------------------------------------------------------------------
(* sk_remove_timer, and the next time                                       *)

\* What an array without the entry at k has at each place.
LEMMA ShiftPlaces ==
    ASSUME NEW a \in Arrays, NEW k \in 1..Num
    PROVE  /\ Shift(a, k) \in Arrays
           /\ \A m \in 1..Num : Shift(a, k)[m] = IF m = Num THEN Invalid
                                                 ELSE IF m < k THEN a[m] ELSE a[m + 1]
<1>1. Num \in Nat \ {0} /\ Width \in Nat /\ 0 \in 0..(Width - 1)
  BY SkTimerAssumption
<1>2. a \in Seq(Entries) /\ Len(a) = Num
  BY <1>1 DEF Arrays
<1>3. Invalid \in Entries
  BY <1>1 DEF Invalid, Entries
<1> DEFINE f == SubSeq(a, 1, k - 1)
           r == SubSeq(a, k + 1, Num)
<1>4. f \in Seq(Entries) /\ Len(f) = k - 1 /\ \A m \in 1..(k - 1) : f[m] = a[m]
  BY <1>1, <1>2
<1>5. r \in Seq(Entries) /\ Len(r) = Num - k /\ \A m \in 1..(Num - k) : r[m] = a[k + m]
  BY <1>1, <1>2
<1>6. Shift(a, k) = Append(f \o r, Invalid)
  BY <1>2 DEF Shift, RemoveAt
<1> HIDE DEF f, r
<1>7. f \o r \in Seq(Entries) /\ Len(f \o r) = Num - 1
  <2>1. f \o r \in Seq(Entries) /\ Len(f \o r) = Len(f) + Len(r)
    BY <1>4, <1>5, ConcatProperties
  <2>2. (k - 1) + (Num - k) = Num - 1
    BY <1>1
  <2> QED
    BY <2>1, <2>2, <1>4, <1>5
<1>8. \A m \in 1..(Num - 1) : (f \o r)[m] = IF m < k THEN a[m] ELSE a[m + 1]
  <2> TAKE m \in 1..(Num - 1)
  <2>1. CASE m < k
    BY <2>1, <1>1, <1>4, <1>5
  <2>2. CASE ~(m < k)
    <3>1. (f \o r)[m] = r[m - (k - 1)] /\ m - (k - 1) \in 1..(Num - k) /\ k + (m - (k - 1)) = m + 1
      BY <2>2, <1>1, <1>4, <1>5
    <3> QED
      BY <3>1, <2>2, <1>5
  <2> QED
    BY <2>1, <2>2
<1>9. Append(f \o r, Invalid) \in [1..Num -> Entries]
  <2>1. /\ Append(f \o r, Invalid) \in Seq(Entries)
        /\ Len(Append(f \o r, Invalid)) = Num - 1 + 1
    BY <1>3, <1>7, AppendProperties
  <2>2. Num - 1 + 1 = Num
    BY <1>1
  <2>3. \A z \in Seq(Entries) : Len(z) = Num => z \in [1..Num -> Entries]
    OBVIOUS
  <2> QED
    BY <2>1, <2>2, <2>3
<1>10. ASSUME NEW m \in 1..Num
       PROVE  Append(f \o r, Invalid)[m] = IF m = Num THEN Invalid ELSE (f \o r)[m]
  BY <1>1, <1>7
<1> QED
  BY <1>1, <1>6, <1>8, <1>9, <1>10 DEF Arrays

\* Far from the wrap, an entry that repeats gets a later time, and only one that does not
\* is told that it has no next event.
LEMMA NextLater ==
    ASSUME NEW week \in SUBSET (0..7), NEW t \in 0..(Width - 1)
    PROVE  /\ NextTime(week, t) \in 0..(Width - 1)
           /\ t + 7 * Period < NoNext =>
                 /\ NextTime(week, t) = NoNext <=> week \cap (0..6) = {}
                 /\ NextTime(week, t) # NoNext => NextTime(week, t) > t
<1>1. Width \in Nat /\ Period \in Nat \ {0} /\ Width > 0
  BY SkTimerAssumption
<1>2. Days(week) \in 1..7
  <2>1. CASE week \cap (1..6) # {}
    <3>1. week \cap (1..6) \in SUBSET Nat
      OBVIOUS
    <3>2. Min(week \cap (1..6)) \in week \cap (1..6)
      BY <2>1, <3>1, LeastExists
    <3> QED
      BY <2>1, <3>2 DEF Days
  <2>2. CASE week \cap (1..6) = {}
    BY <2>2 DEF Days
  <2> QED
    BY <2>1, <2>2
<1> DEFINE d == Days(week) * Period
<1>3. d \in Nat /\ d >= 1 /\ d <= 7 * Period
  <2>1. \A x \in 1..7 : x * Period \in Nat /\ x * Period >= 1 /\ x * Period <= 7 * Period
    BY <1>1
  <2> QED
    BY <1>2, <2>1
<1>4. CASE week \cap (0..6) = {}
  <2>1. NextTime(week, t) = Width - 1
    BY <1>4 DEF NextTime, NoNext
  <2> QED
    BY <2>1, <1>1, <1>4 DEF NoNext
<1>5. CASE week \cap (0..6) # {}
  <2>1. NextTime(week, t) = (t + d) % Width
    BY <1>5 DEF NextTime
  <2> HIDE DEF d
  <2>2. (t + d) % Width \in 0..(Width - 1)
    BY <1>1, <1>3
  <2>3. ASSUME t + 7 * Period < NoNext
        PROVE  (t + d) % Width = t + d /\ t + d < Width - 1
    <3>1. t + d < Width - 1 /\ t + d \in Nat
      BY <2>3, <1>1, <1>3 DEF NoNext
    <3> QED
      BY <3>1, <1>1
  <2> QED
    BY <2>1, <2>2, <2>3, <1>1, <1>3, <1>5 DEF NoNext
<1> QED
  BY <1>4, <1>5

\* The entries in use that are left are the others, and remain in order.
LEMMA ShiftRemoves ==
    ASSUME NEW a \in Arrays, NEW k \in Live(a)
    PROVE  /\ Shift(a, k) \in Arrays
           /\ \A m \in Live(a) \ {k} : \E q \in Live(Shift(a, k)) : Shift(a, k)[q] = a[m]
           /\ \A q \in Live(Shift(a, k)) : \E m \in Live(a) \ {k} : Shift(a, k)[q] = a[m]
           /\ NoHoles(a) => NoHoles(Shift(a, k))
           /\ InTime(a) => InTime(Shift(a, k))
           /\ Once(a) => Once(Shift(a, k))
<1> DEFINE b == Shift(a, k)
           from(q) == IF q < k THEN q ELSE q + 1
<1>1. Num \in Nat \ {0} /\ k \in 1..Num /\ ~Valid(Invalid)
  BY SkTimerAssumption DEF Live, Valid, Invalid
<1>2. b \in Arrays
  BY <1>1, ShiftPlaces
<1>3. \A q \in 1..Num : b[q] = IF q = Num THEN Invalid ELSE IF q < k THEN a[q] ELSE a[q + 1]
  BY <1>1, ShiftPlaces
<1> HIDE DEF b
<1>4. ASSUME NEW q \in 1..Num, Valid(b[q])
      PROVE  q < Num /\ from(q) \in Live(a) \ {k} /\ b[q] = a[from(q)]
  <2>1. q < Num
    BY <1>1, <1>3, <1>4
  <2>2. b[q] = a[from(q)] /\ from(q) \in 1..Num /\ from(q) # k
    BY <2>1, <1>1, <1>3
  <2> QED
    BY <2>1, <2>2, <1>4 DEF Live
<1>5. \A p, q \in 1..Num : p < q => from(p) < from(q)
  BY <1>1
<1>6. ASSUME NEW m \in Live(a) \ {k}
      PROVE  \E q \in Live(b) : b[q] = a[m]
  <2>1. m \in 1..Num /\ Valid(a[m]) /\ m # k
    BY DEF Live
  <2>2. CASE m < k
    <3>1. m < Num /\ b[m] = a[m]
      BY <2>1, <2>2, <1>1, <1>3
    <3> QED
      BY <3>1, <2>1 DEF Live
  <2>3. CASE m > k
    <3>1. m - 1 \in 1..Num /\ m - 1 < Num /\ ~(m - 1 < k) /\ m - 1 + 1 = m
      BY <2>1, <2>3, <1>1
    <3>2. b[m - 1] = a[m]
      BY <3>1, <1>3
    <3> QED
      BY <3>1, <3>2, <2>1 DEF Live
  <2> QED
    BY <2>1, <2>2, <2>3, <1>1
<1>7. \A q \in Live(b) : \E m \in Live(a) \ {k} : b[q] = a[m]
  BY <1>4 DEF Live
<1>8. ASSUME NoHoles(a)
      PROVE  NoHoles(b)
  <2> SUFFICES ASSUME NEW p \in 1..Num, NEW q \in 1..Num, p < q, Valid(b[q])
               PROVE  Valid(b[p])
    BY DEF NoHoles
  <2>1. q < Num /\ from(q) \in 1..Num /\ Valid(a[from(q)])
    BY <1>4 DEF Live
  <2>2. p # Num /\ from(p) < from(q) /\ from(p) \in 1..Num
    BY <2>1, <1>1, <1>5
  <2>3. Valid(a[from(p)])
    <3> HIDE DEF from
    <3> QED
      BY <2>1, <2>2, <1>8 DEF NoHoles
  <2>4. b[p] = a[from(p)]
    BY <1>3, <2>2
  <2> QED
    BY <2>3, <2>4
<1>9. ASSUME InTime(a)
      PROVE  InTime(b)
  <2> SUFFICES ASSUME NEW p \in 1..Num, NEW q \in 1..Num, p < q, Valid(b[p]), Valid(b[q])
               PROVE  b[p].time <= b[q].time
    BY DEF InTime
  <2>1. /\ from(p) \in 1..Num /\ Valid(a[from(p)]) /\ b[p] = a[from(p)]
        /\ from(q) \in 1..Num /\ Valid(a[from(q)]) /\ b[q] = a[from(q)]
    BY <1>4 DEF Live
  <2>2. from(p) < from(q)
    BY <1>5
  <2> HIDE DEF from
  <2> QED
    BY <2>1, <2>2, <1>9 DEF InTime
<1>10. ASSUME Once(a)
       PROVE  Once(b)
  <2> SUFFICES ASSUME NEW p \in 1..Num, NEW q \in 1..Num, p # q, Valid(b[p])
               PROVE  b[p].node # b[q].node
    BY DEF Once
  <2>1. from(p) \in 1..Num /\ Valid(a[from(p)]) /\ b[p] = a[from(p)]
    BY <1>4 DEF Live
  <2>2. CASE Valid(b[q])
    <3>1. from(q) \in 1..Num /\ b[q] = a[from(q)]
      BY <2>2, <1>4 DEF Live
    <3>2. from(p) # from(q)
      BY <1>1
    <3> HIDE DEF from
    <3> QED
      BY <2>1, <3>1, <3>2, <1>10 DEF Once
  <2>3. CASE ~Valid(b[q])
    BY <2>3 DEF Valid
  <2> QED
    BY <2>2, <2>3
<1> QED
  BY <1>2, <1>6, <1>7, <1>8, <1>9, <1>10 DEF b

\* What sorting does to the array that a walk goes through.
LEMMA WalkSorted ==
    ASSUME NEW a \in Arrays, NEW r
    PROVE  /\ NoHoles(a) => NoHoles(Sort(a))
           /\ Once(a) => Once(Sort(a))
           /\ DueOrLater(a, r) => DueOrLater(Sort(a), r)
           /\ StillThere(a, r) => StillThere(Sort(a), r)
<1> DEFINE b == Sort(a)
<1>1. Shuffled(a, b)
  BY SortSorts
<1> HIDE DEF b
<1>2. NoHoles(a) => NoHoles(b)
  BY <1>1 DEF NoHoles, Shuffled
<1>3. DueOrLater(a, r) => DueOrLater(b, r)
  <2> SUFFICES ASSUME DueOrLater(a, r), NEW k \in Live(b)
               PROVE  /\ b[k].time <= now <=> (b[k].node \in due /\ r[b[k].node] = 0)
                      /\ b[k].node \notin stay <=> (b[k].time <= now /\ Ends(b[k]))
    BY DEF DueOrLater
  <2>1. PICK j \in Live(a) : b[k] = a[j]
    BY <1>1 DEF Shuffled
  <2> QED
    BY <2>1 DEF DueOrLater
<1>4. StillThere(a, r) => StillThere(b, r)
  <2>1. ASSUME NEW n, \E k \in Live(a) : a[k].node = n
        PROVE  \E k \in Live(b) : b[k].node = n
    <3>1. PICK k \in Live(a) : a[k].node = n
      BY <2>1
    <3>2. PICK j \in Live(b) : b[j] = a[k]
      BY <1>1 DEF Shuffled
    <3> QED
      BY <3>1, <3>2
  <2> QED
    BY <2>1 DEF StillThere
<1> QED
  BY <1>1, <1>2, <1>3, <1>4 DEF b, Shuffled

-----------------------------------------------------------------------------
(* The actions                                                              *)

LEMMA TimerInit == Init => TimerInv
<1> SUFFICES ASSUME Init
             PROVE  TimerInv
  OBVIOUS
<1>0. Num \in Nat \ {0} /\ Width \in Nat /\ Width > 0 /\ Starts \subseteq 0..(Width - 1)
  BY SkTimerAssumption
<1>m. PICK m \in 0..Num : \E first \in [1..m -> [time : Starts, week : Weeks]] :
          slots = [k \in 1..Num |->
                     IF k <= m THEN [node |-> k, time |-> first[k].time, week |-> first[k].week]
                               ELSE Invalid]
  BY DEF Init
<1>1. PICK first \in [1..m -> [time : Starts, week : Weeks]] :
          slots = [k \in 1..Num |->
                     IF k <= m THEN [node |-> k, time |-> first[k].time, week |-> first[k].week]
                               ELSE Invalid]
  BY <1>m
<1>2. ASSUME NEW k \in 1..Num
      PROVE  /\ slots[k] \in Entries
             /\ Valid(slots[k]) <=> k <= m
             /\ k <= m => slots[k].node = k
  <2>1. CASE k <= m
    <3>1. slots[k] = [node |-> k, time |-> first[k].time, week |-> first[k].week]
      BY <1>1, <2>1
    <3>2. first[k].time \in Starts /\ first[k].week \in Weeks
      BY <1>0, <2>1
    <3>3. k \in Nodes \cup {0} /\ first[k].time \in 0..(Width - 1)
      BY <1>0, <3>2 DEF Nodes
    <3>4. slots[k] \in Entries
      BY <3>1, <3>2, <3>3 DEF Entries
    <3> QED
      BY <1>0, <2>1, <3>1, <3>4 DEF Valid
  <2>2. CASE ~(k <= m)
    BY <1>0, <1>1, <2>2 DEF Invalid, Entries, Valid
  <2> QED
    BY <2>1, <2>2
<1>3. slots \in Arrays
  BY <1>1, <1>2 DEF Arrays
<1>4. NoHoles(slots)
  <2>1. m \in Nat
    OBVIOUS
  <2> QED
    BY <1>0, <1>2, <2>1 DEF NoHoles
<1>5. Once(slots)
  BY <1>0, <1>2 DEF Once, Valid
<1>6. TypeOK
  BY <1>0, <1>3 DEF Init, TypeOK, Arrays, Nodes
<1>7. Unused /\ pc = "new"
  BY DEF Init, Unused
<1> QED
  BY <1>4, <1>5, <1>6, <1>7 DEF TimerInv, EachDueRunsOnce

LEMMA TestNext ==
    ASSUME TimerInv, Test
    PROVE  TimerInv'
<1>1. slots \in Arrays /\ NoHoles(slots) /\ Once(slots) /\ Unused
  BY DEF TimerInv, TypeOK, Arrays, Test
<1>2. slots' \in Arrays /\ InTime(slots') /\ NoHoles(slots') /\ Once(slots')
  BY <1>1, SortSorts, WalkSorted DEF Test
<1>3. TypeOK'
  BY <1>2 DEF TimerInv, TypeOK, Test, history, Arrays
<1>4. EachDueRunsOnce'
  <2>1. ran' = [n \in Nodes |-> 0] /\ due' = {} /\ stay' = {}
    BY <1>1 DEF Unused, Test, history
  <2> QED
    BY <2>1 DEF EachDueRunsOnce
<1> QED
  BY <1>2, <1>3, <1>4 DEF TimerInv, Test

LEMMA CheckNext ==
    ASSUME TimerInv, NEW second \in Clock, Check(second)
    PROVE  TimerInv'
<1> DEFINE fires == {k \in Live(slots) : slots[k].time <= second}
           ends  == {k \in fires : NextTime(slots[k].week, second) = NoNext}
<1>1. /\ slots \in Arrays /\ NoHoles(slots) /\ Once(slots) /\ InTime(slots)
      /\ UNCHANGED slots /\ pc' = "check" /\ i' = 1 /\ now' = second
      /\ ran' = [n \in Nodes |-> 0]
      /\ due' = {slots[k].node : k \in fires} /\ stay' = {slots[k].node : k \in Live(slots) \ ends}
  BY DEF TimerInv, TypeOK, Arrays, Check
<1>2. second \in 0..(Width - 1) /\ Num \in Nat \ {0} /\ Width \in Nat
  BY SkTimerAssumption
<1>3. ASSUME NEW k \in Live(slots)
      PROVE  /\ k \in 1..Num /\ slots[k].node \in Nodes
             /\ slots[k].week \in SUBSET (0..7)
             /\ \A m \in Live(slots) : slots[m].node = slots[k].node => m = k
  <2>1. k \in 1..Num /\ Valid(slots[k]) /\ slots[k] \in Entries
    BY <1>1 DEF Live, Arrays
  <2>2. slots[k].week \in SUBSET (0..7)
    BY <2>1, SkTimerAssumption DEF Entries
  <2> QED
    BY <2>1, <2>2, <1>1 DEF Valid, Entries, Live, Once
<1> HIDE DEF fires, ends
<1>4. TypeOK'
  <2>1. due' \subseteq Nodes
    BY <1>1, <1>3 DEF fires
  <2>2. stay' \subseteq Nodes
    BY <1>1, <1>3
  <2> QED
    BY <1>1, <1>2, <2>1, <2>2 DEF TypeOK, Arrays
<1>5. ASSUME ~NearWrap'
      PROVE  Walk'
  <2>1. second + 7 * Period < NoNext
    <3>1. Period \in Nat /\ 7 * Period \in Nat
      BY SkTimerAssumption
    <3> QED
      BY <1>1, <1>2, <1>5, <3>1 DEF NearWrap, NoNext
  <2>2. ASSUME NEW k \in Live(slots)
        PROVE  /\ slots[k].node \in due' <=> slots[k].time <= second
               /\ slots[k].node \notin stay' <=> (slots[k].time <= second /\ Ends(slots[k]))
    <3>1. slots[k].node \in due' <=> k \in fires
      BY <1>1, <1>3 DEF fires
    <3>2. slots[k].node \in stay' <=> k \notin ends
      BY <1>1, <1>3
    <3>3. k \in ends <=> (slots[k].time <= second /\ Ends(slots[k]))
      <4>1. NextTime(slots[k].week, second) = NoNext <=> Ends(slots[k])
        BY <1>2, <1>3, <2>1, NextLater DEF Ends
      <4> QED
        BY <4>1 DEF ends, fires
    <3> QED
      BY <3>1, <3>2, <3>3 DEF fires
  <2>3. DueOrLater(slots, ran)'
    BY <1>1, <1>3, <2>2 DEF DueOrLater, Live
  <2>4. StillThere(slots, ran)'
    BY <1>1 DEF StillThere, fires, Live
  <2>5. RanDue(ran)'
    BY <1>1 DEF RanDue
  <2>6. BehindLater'
    BY <1>1, <1>2 DEF BehindLater, Live
  <2> QED
    BY <2>3, <2>4, <2>5, <2>6 DEF Walk
<1> QED
  BY <1>1, <1>4, <1>5 DEF TimerInv, EachDueRunsOnce

LEMMA ReturnNext ==
    ASSUME TimerInv, Return
    PROVE  TimerInv'
<1>1. /\ slots \in Arrays /\ NoHoles(slots) /\ Once(slots) /\ InTime(slots)
      /\ UNCHANGED <<slots, i, now, ran, due, stay>> /\ pc' = "idle" /\ pc = "check" /\ Past
      /\ TypeOK
      /\ ~NearWrap => Walk
  BY DEF TimerInv, TypeOK, Arrays, Return, history
<1>2. Num \in Nat \ {0} /\ Width \in Nat /\ i \in 1..(Num + 1) /\ now \in 0..(Width - 1)
  BY <1>1, SkTimerAssumption DEF TypeOK
<1>3. TypeOK'
  BY <1>1 DEF TypeOK
<1>4. ASSUME NEW k \in Live(slots)
      PROVE  k < i /\ slots[k].node \in Nodes /\ slots[k].time \in Nat
  <2>1. k \in 1..Num /\ Valid(slots[k]) /\ slots[k] \in Entries
    BY <1>1 DEF Live, Arrays
  <2>2. CASE i > Num
    BY <1>2, <2>1, <2>2 DEF Valid, Entries
  <2>3. CASE i <= Num
    <3>1. ~Valid(slots[i]) /\ i \in 1..Num
      BY <1>1, <1>2, <2>3 DEF Past
    <3>2. ~(i < k) /\ i # k
      BY <2>1, <3>1, <1>1 DEF NoHoles
    <3> QED
      BY <1>2, <2>1, <3>2 DEF Valid, Entries
  <2> QED
    BY <1>2, <2>2, <2>3
<1>5. ASSUME ~NearWrap
      PROVE  /\ \A n \in Nodes : ran[n] = IF n \in due THEN 1 ELSE 0
             /\ stay = {slots[k].node : k \in Live(slots)}
             /\ \A k \in Live(slots) : slots[k].time > now
  <2>1. DueOrLater(slots, ran) /\ StillThere(slots, ran) /\ RanDue(ran) /\ BehindLater
    BY <1>1, <1>5 DEF Walk
  <2>2. \A k \in Live(slots) : slots[k].time > now /\ ~(slots[k].time <= now)
    BY <1>2, <1>4, <2>1 DEF BehindLater
  <2>3. ASSUME NEW n \in Nodes
        PROVE  ran[n] = IF n \in due THEN 1 ELSE 0
    <3>1. ran[n] \in 0..2 /\ ran[n] <= 1 /\ (ran[n] = 1 => n \in due)
      BY <1>1, <2>1 DEF TypeOK, RanDue
    <3>2. n \in due => ran[n] # 0
      <4> SUFFICES ASSUME n \in due, ran[n] = 0
                   PROVE  FALSE
        OBVIOUS
      <4>1. PICK k \in Live(slots) : slots[k].node = n
        BY <2>1 DEF StillThere
      <4> QED
        BY <4>1, <2>1, <2>2 DEF DueOrLater
    <3> QED
      BY <3>1, <3>2
  <2>4. \A k \in Live(slots) : slots[k].node \in stay
    BY <2>1, <2>2 DEF DueOrLater
  <2>5. stay = {slots[k].node : k \in Live(slots)}
    BY <2>1, <2>4 DEF StillThere
  <2> QED
    BY <2>2, <2>3, <2>5
<1>6. EachDueRunsOnce'
  <2>1. ~NearWrap' => ~NearWrap
    BY <1>1 DEF NearWrap
  <2> QED
    BY <1>1, <1>5, <2>1 DEF EachDueRunsOnce, Live
<1> QED
  BY <1>1, <1>3, <1>6 DEF TimerInv

LEMMA StepNext ==
    ASSUME TimerInv, Step
    PROVE  TimerInv'
<1>1. /\ slots \in Arrays /\ NoHoles(slots) /\ Once(slots) /\ InTime(slots)
      /\ UNCHANGED <<slots, pc, now, ran, due, stay>> /\ pc = "check" /\ ~Past /\ i' = i + 1
      /\ slots[i].time > now
      /\ TypeOK
      /\ ~NearWrap => Walk
  BY DEF TimerInv, TypeOK, Arrays, Step, history
<1>2. Num \in Nat \ {0} /\ Width \in Nat /\ i \in 1..Num /\ Valid(slots[i])
  BY <1>1, SkTimerAssumption DEF TypeOK, Past
<1>3. TypeOK'
  BY <1>1, <1>2 DEF TypeOK
<1>4. Walk => Walk'
  <2>1. BehindLater => BehindLater'
    <3> SUFFICES ASSUME BehindLater, NEW k \in Live(slots), k < i + 1
                 PROVE  slots[k].time > now
      BY <1>1 DEF BehindLater, Live
    <3>1. k \in 1..Num
      BY DEF Live
    <3>2. k < i \/ k = i
      BY <3>1, <1>2
    <3> QED
      BY <3>2, <1>1 DEF BehindLater
  <2> QED
    BY <2>1, <1>1 DEF Walk, DueOrLater, StillThere, RanDue, Live
<1> QED
  BY <1>1, <1>3, <1>4 DEF TimerInv, EachDueRunsOnce, NearWrap

\* Running the entry at i and removing it, or giving it its next time, keeps the account of
\* what is due: of a sorted array the walk then begins anew.
LEMMA FireWalks ==
    ASSUME TimerInv, Fire, ~NearWrap
    PROVE  DueOrLater(slots, ran)' /\ StillThere(slots, ran)' /\ RanDue(ran)'
<1> DEFINE e == slots[i]
           nt == NextTime(e.week, now)
           b == [slots EXCEPT ![i].time = nt]
<1>1. /\ slots \in Arrays /\ Once(slots) /\ ran \in [Nodes -> 0..2]
      /\ pc = "check" /\ ~Past /\ e.time <= now /\ now \in 0..(Width - 1) /\ i \in 1..(Num + 1)
      /\ DueOrLater(slots, ran) /\ StillThere(slots, ran) /\ RanDue(ran)
      /\ UNCHANGED <<now, due, stay>>
  BY DEF TimerInv, TypeOK, Arrays, Fire, Walk
<1>2. /\ slots' = IF nt = NoNext THEN Shift(slots, i) ELSE Sort(b)
      /\ ran' = [ran EXCEPT ![e.node] = Min({@ + 1, 2})]
  BY DEF Fire
<1>3. /\ Num \in Nat \ {0} /\ Width \in Nat /\ Period \in Nat \ {0}
      /\ i \in 1..Num /\ i \in Live(slots) /\ e \in Entries /\ e.node \in Nodes
      /\ e.week \in SUBSET (0..7)
  <2>1. i \in 1..Num /\ Valid(e)
    BY <1>1, SkTimerAssumption DEF Past
  <2>2. e \in Entries
    BY <2>1, <1>1 DEF Arrays
  <2> QED
    BY <2>1, <2>2, SkTimerAssumption DEF Live, Valid, Entries
<1>4. /\ nt \in 0..(Width - 1)
      /\ nt = NoNext <=> Ends(e)
      /\ nt # NoNext => nt > now
  <2>1. now + 7 * Period < NoNext
    BY <1>1, <1>3 DEF NearWrap, NoNext
  <2> QED
    BY <1>1, <1>3, <2>1, NextLater DEF Ends
<1>5. ASSUME NEW k \in Live(slots)
      PROVE  slots[k].node \in Nodes /\ (k # i => slots[k].node # e.node)
  <2>1. k \in 1..Num /\ Valid(slots[k]) /\ slots[k] \in Entries
    BY <1>1 DEF Live, Arrays
  <2> QED
    BY <2>1, <1>1, <1>3 DEF Valid, Entries, Once
<1> HIDE DEF e, nt, b
<1>6. e.node \in due /\ ran[e.node] = 0 /\ (e.node \notin stay <=> Ends(e))
  BY <1>1, <1>3 DEF DueOrLater, e
<1>7. ran'[e.node] = 1 /\ \A n \in Nodes : n # e.node => ran'[n] = ran[n]
  <2>1. Min({0 + 1, 2}) = 1
    <3>1. {0 + 1, 2} \in SUBSET Nat /\ {0 + 1, 2} # {} /\ 0 + 1 \in {0 + 1, 2} /\ 0 + 1 = 1
      OBVIOUS
    <3>2. Min({0 + 1, 2}) \in {0 + 1, 2} /\ \A y \in {0 + 1, 2} : Min({0 + 1, 2}) <= y
      BY <3>1, LeastExists
    <3> QED
      BY <3>1, <3>2
  <2> QED
    BY <1>1, <1>2, <1>3, <1>6, <2>1
<1>8. RanDue(ran)'
  BY <1>1, <1>3, <1>6, <1>7 DEF RanDue
<1>9. CASE nt = NoNext
  <2>1. slots' = Shift(slots, i)
    BY <1>2, <1>9
  <2>2. /\ \A m \in Live(slots) \ {i} : \E q \in Live(slots') : slots'[q] = slots[m]
        /\ \A q \in Live(slots') : \E m \in Live(slots) \ {i} : slots'[q] = slots[m]
    <3> DEFINE z == Shift(slots, i)
    <3>1. /\ \A m \in Live(slots) \ {i} : \E q \in Live(z) : z[q] = slots[m]
          /\ \A q \in Live(z) : \E m \in Live(slots) \ {i} : z[q] = slots[m]
      BY <1>1, <1>3, ShiftRemoves
    <3>2. slots' = z
      BY <2>1
    <3> HIDE DEF z
    <3> QED
      BY <3>1, <3>2
  <2>3. ASSUME NEW q \in Live(slots')
        PROVE  /\ slots'[q].time <= now <=> (slots'[q].node \in due /\ ran'[slots'[q].node] = 0)
               /\ slots'[q].node \notin stay <=> (slots'[q].time <= now /\ Ends(slots'[q]))
    <3>1. PICK m \in Live(slots) \ {i} : slots'[q] = slots[m]
      BY <2>2
    <3>2. slots[m].node # e.node /\ slots[m].node \in Nodes
      BY <1>5
    <3> QED
      BY <3>1, <3>2, <1>1, <1>7 DEF DueOrLater
  <2>4. ASSUME NEW n, n # e.node, \E k \in Live(slots) : slots[k].node = n
        PROVE  \E q \in Live(slots') : slots'[q].node = n
    <3>1. PICK k \in Live(slots) : slots[k].node = n
      BY <2>4
    <3>2. k # i
      BY <2>4, <3>1 DEF e
    <3>3. PICK q \in Live(slots') : slots'[q] = slots[k]
      BY <2>2, <3>2
    <3> QED
      BY <3>1, <3>3
  <2>5. e.node \notin stay
    BY <1>4, <1>6, <1>9
  <2>6. due \subseteq Nodes
    BY DEF TimerInv, TypeOK
  <2>7. StillThere(slots, ran)'
    <3>1. ASSUME NEW n \in due, ran'[n] = 0
          PROVE  \E q \in Live(slots') : slots'[q].node = n
      <4>1. n # e.node /\ ran[n] = 0
        BY <3>1, <1>7, <2>6
      <4> QED
        BY <4>1, <2>4, <1>1 DEF StillThere
    <3>2. ASSUME NEW n \in stay
          PROVE  \E q \in Live(slots') : slots'[q].node = n
      BY <2>4, <2>5, <1>1 DEF StillThere
    <3> QED
      BY <3>1, <3>2, <1>1 DEF StillThere
  <2>8. DueOrLater(slots, ran)'
    BY <2>3, <1>1 DEF DueOrLater
  <2> QED
    BY <1>8, <2>7, <2>8
<1>10. CASE nt # NoNext
  <2>1. /\ slots' = Sort(b) /\ b \in Arrays
        /\ b[i].time = nt /\ b[i].node = e.node /\ b[i].week = e.week
        /\ \A k \in 1..Num : k # i => b[k] = slots[k]
    <3>1. e.node \in Nodes \cup {0} /\ e.week \in Weeks \cup {{}} /\ nt \in 0..(Width - 1)
      BY <1>3, <1>4 DEF Entries
    <3>2. b = [slots EXCEPT ![i] = [e EXCEPT !.time = nt]]
      BY <1>1, <1>3 DEF b, Arrays, e
    <3>3. [e EXCEPT !.time = nt] \in Entries
      BY <1>3, <3>1 DEF Entries
    <3> QED
      BY <1>1, <1>2, <1>3, <1>10, <3>2, <3>3 DEF Arrays, Entries
  <2>2. Live(b) = Live(slots)
    BY <2>1 DEF Live, Valid, e
  <2>3. e.node \in stay
    BY <1>4, <1>6, <1>10
  <2>4. ~(nt <= now)
    BY <1>1, <1>4, <1>10
  <2>5. DueOrLater(b, ran')
    <3> SUFFICES ASSUME NEW k \in Live(b)
                 PROVE  /\ b[k].time <= now <=> (b[k].node \in due /\ ran'[b[k].node] = 0)
                        /\ b[k].node \notin stay <=> (b[k].time <= now /\ Ends(b[k]))
      BY DEF DueOrLater
    <3>1. CASE k = i
      BY <3>1, <2>1, <2>3, <2>4, <1>7
    <3>2. CASE k # i
      <4>1. b[k] = slots[k] /\ k \in Live(slots)
        BY <3>2, <2>1, <2>2 DEF Live
      <4>2. slots[k].node # e.node /\ slots[k].node \in Nodes
        BY <4>1, <3>2, <1>5
      <4> QED
        BY <4>1, <4>2, <1>1, <1>7 DEF DueOrLater
    <3> QED
      BY <3>1, <3>2
  <2>6. StillThere(b, ran')
    <3>1. ASSUME NEW n, \E k \in Live(slots) : slots[k].node = n
          PROVE  \E k \in Live(b) : b[k].node = n
      <4>1. PICK k \in Live(slots) : slots[k].node = n
        BY <3>1
      <4>2. b[k].node = n
        BY <4>1, <2>1 DEF e, Live
      <4> QED
        BY <4>1, <4>2, <2>2
    <3>2. due \subseteq Nodes
      BY DEF TimerInv, TypeOK
    <3>3. ASSUME NEW n \in due, ran'[n] = 0
          PROVE  ran[n] = 0
      BY <3>3, <3>2, <1>7
    <3> QED
      BY <3>1, <3>3, <1>1 DEF StillThere
  <2>7. DueOrLater(Sort(b), ran') /\ StillThere(Sort(b), ran')
    BY <2>1, <2>5, <2>6, WalkSorted
  <2> QED
    BY <2>1, <2>7, <1>1, <1>8 DEF DueOrLater, StillThere
<1> QED
  BY <1>9, <1>10

LEMMA FireNext ==
    ASSUME TimerInv, Fire
    PROVE  TimerInv'
<1> DEFINE nt == NextTime(slots[i].week, now)
           b == [slots EXCEPT ![i].time = nt]
<1>1. /\ slots \in Arrays /\ NoHoles(slots) /\ Once(slots) /\ InTime(slots)
      /\ ran \in [Nodes -> 0..2] /\ TypeOK
      /\ pc = "check" /\ ~Past /\ now \in 0..(Width - 1) /\ i \in 1..(Num + 1)
      /\ UNCHANGED <<pc, now, due, stay>> /\ i' = 1
  BY DEF TimerInv, TypeOK, Arrays, Fire, Again
<1>2. /\ slots' = IF nt = NoNext THEN Shift(slots, i) ELSE Sort(b)
      /\ ran' = [ran EXCEPT ![slots[i].node] = Min({@ + 1, 2})]
  BY DEF Fire
<1>3. /\ Num \in Nat \ {0} /\ Width \in Nat /\ i \in 1..Num /\ i \in Live(slots)
      /\ slots[i] \in Entries /\ slots[i].node \in Nodes /\ slots[i].week \in SUBSET (0..7)
  <2>1. i \in 1..Num /\ Valid(slots[i])
    BY <1>1, SkTimerAssumption DEF Past
  <2>2. slots[i] \in Entries
    BY <2>1, <1>1 DEF Arrays
  <2> QED
    BY <2>1, <2>2, SkTimerAssumption DEF Live, Valid, Entries
<1>4. nt \in 0..(Width - 1)
  BY <1>1, <1>3, NextLater
<1> HIDE DEF nt
<1>5. slots' \in Arrays /\ NoHoles(slots') /\ Once(slots') /\ InTime(slots')
  <2>1. CASE nt = NoNext
    BY <2>1, <1>1, <1>2, <1>3, ShiftRemoves
  <2>2. CASE nt # NoNext
    <3> DEFINE e == [slots[i] EXCEPT !.time = nt]
    <3>1. e \in Entries /\ e.node = slots[i].node
      BY <1>3, <1>4 DEF Entries
    <3>2. b = [slots EXCEPT ![i] = e]
      BY <1>1, <1>3 DEF Arrays
    <3> HIDE DEF b, e
    <3>3. b \in Arrays /\ b[i] = e /\ \A k \in 1..Num : k # i => b[k] = slots[k]
      BY <1>1, <1>3, <3>1, <3>2 DEF Arrays
    <3>4. \A k \in 1..Num : b[k].node = slots[k].node
      BY <3>1, <3>3
    <3>5. NoHoles(b) /\ Once(b)
      BY <3>4, <1>1 DEF NoHoles, Once, Valid
    <3> QED
      BY <3>3, <3>5, <1>2, <2>2, SortSorts, WalkSorted
  <2> QED
    BY <2>1, <2>2
<1>6. ran' \in [Nodes -> 0..2]
  <2>1. ASSUME NEW x \in 0..2
        PROVE  Min({x + 1, 2}) \in 0..2
    <3>1. {x + 1, 2} \in SUBSET Nat /\ {x + 1, 2} # {} /\ 2 \in {x + 1, 2}
      OBVIOUS
    <3>2. Min({x + 1, 2}) \in {x + 1, 2} /\ \A y \in {x + 1, 2} : Min({x + 1, 2}) <= y
      BY <3>1, LeastExists
    <3> QED
      BY <3>1, <3>2
  <2> QED
    BY <1>1, <1>2, <1>3, <2>1
<1>7. TypeOK'
  BY <1>1, <1>3, <1>5, <1>6 DEF TypeOK, Arrays
<1>8. ~NearWrap' => Walk'
  <2>1. ~NearWrap' => ~NearWrap
    BY <1>1 DEF NearWrap
  <2>2. BehindLater'
    BY <1>1, <1>3 DEF BehindLater, Live
  <2> QED
    BY <2>1, <2>2, FireWalks DEF Walk
<1> QED
  BY <1>1, <1>5, <1>7, <1>8 DEF TimerInv, EachDueRunsOnce

LEMMA TimerNext == TimerInv /\ [Next]_vars => TimerInv'
<1> SUFFICES ASSUME TimerInv, [Next]_vars
             PROVE  TimerInv'
  OBVIOUS
<1>1. CASE Test
  BY <1>1, TestNext
<1>2. ASSUME NEW second \in Clock, Check(second)
      PROVE  TimerInv'
  BY <1>2, CheckNext
<1>3. CASE Return
  BY <1>3, ReturnNext
<1>4. CASE Step
  BY <1>4, StepNext
<1>5. CASE Fire
  BY <1>5, FireNext
<1>6. CASE UNCHANGED vars
  BY <1>6 DEF vars, history, TimerInv, TypeOK, Unused, Walk, DueOrLater, StillThere, RanDue,
              BehindLater, EachDueRunsOnce, NearWrap, Live
<1> QED
  BY <1>1, <1>2, <1>3, <1>4, <1>5, <1>6 DEF Next

LEMMA TimerAlways == Spec => []TimerInv
BY TimerInit, TimerNext, PTL DEF Spec

-----------------------------------------------------------------------------
(* Theorems                                                                 *)

\* Every time that the array holds is one of 32 bits, every index of the walk is within the
\* array or one behind it, for any number of timers.
THEOREM TypeCorrect == Spec => []TypeOK
<1>1. TimerInv => TypeOK
  BY DEF TimerInv
<1> QED
  BY <1>1, TimerAlways, PTL

\* However sk_timer_check_callback shifts and sorts the array, it has no hole, behind which
\* the next check would not look, and its times are in order, wrapped ones too.
THEOREM AlwaysSorted == Spec => []SortedNoHoles
<1>1. TimerInv => SortedNoHoles
  <2> SUFFICES ASSUME TimerInv, pc # "new", NEW k \in 1..(Num - 1), Valid(slots[k + 1])
               PROVE  Valid(slots[k]) /\ slots[k].time <= slots[k + 1].time
    BY DEF SortedNoHoles
  <2>1. k \in 1..Num /\ k + 1 \in 1..Num /\ k < k + 1
    BY SkTimerAssumption
  <2> QED
    BY <2>1 DEF TimerInv, NoHoles, InTime
<1> QED
  BY <1>1, TimerAlways, PTL

\* When sk_timer_check_callback returns, each entry that was due at its beginning has run
\* exactly once and no other has, and the array has exactly the entries that repeat or were
\* not due - unless a week from now is beyond 32 bits.
THEOREM AlwaysRunsOnce == Spec => []EachDueRunsOnce
<1>1. TimerInv => EachDueRunsOnce
  BY DEF TimerInv
<1> QED
  BY <1>1, TimerAlways, PTL
=============================================================================
