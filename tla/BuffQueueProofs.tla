-------------------------- MODULE BuffQueueProofs ---------------------------
(***************************************************************************)
(* Proofs about BuffQueue for any buffers, threads and lengths: the ring    *)
(* stays closed, every buffer is in one place, and the queue is a FIFO.     *)
(***************************************************************************)
EXTENDS BuffQueue, WellFoundedInduction, SequenceTheorems, FunctionTheorems, FiniteSetTheorems, TLAPS

-----------------------------------------------------------------------------
(* Recursion: functions and folds have the values their equations say       *)

\* A set that has 0 and the successor of each of its numbers has every number.
LEMMA Induction ==
    ASSUME NEW S, 0 \in S, \A n \in Nat : n \in S => n + 1 \in S
    PROVE  \A n \in Nat : n \in S
<1> DEFINE T == Nat \ S
<1> SUFFICES ASSUME T # {}
             PROVE  FALSE
  OBVIOUS
<1>1. PICK m \in T : \A y \in T : ~(<<y, m>> \in OpToRel(<, Nat))
  BY WFMin, NatLessThanWellFounded, Zenon
<1>2. m \in Nat /\ m # 0
  OBVIOUS
<1>3. m - 1 \in Nat /\ m - 1 < m
  BY <1>2
<1>4. m - 1 \in S
  BY <1>1, <1>3 DEF OpToRel
<1>5. m - 1 + 1 \in S
  BY <1>3, <1>4
<1> QED
  BY <1>2, <1>5

\* A set of numbers that is not empty has a least one, and below a bound a largest one.
LEMMA LeastExists ==
    ASSUME NEW S \in SUBSET Nat, S # {}
    PROVE  Min(S) \in S /\ \A y \in S : Min(S) <= y
<1>1. PICK m \in S : \A y \in S : ~(<<y, m>> \in OpToRel(<, Nat))
  BY WFMin, NatLessThanWellFounded, Zenon
<1>2. ASSUME NEW y \in S
      PROVE  m <= y
  <2>1. m \in Nat /\ y \in Nat
    OBVIOUS
  <2>2. y < m => <<y, m>> \in OpToRel(<, Nat)
    BY <2>1 DEF OpToRel
  <2>3. ~(y < m)
    BY <1>1, <2>2, Zenon
  <2> QED
    BY <2>1, <2>3
<1> QED
  BY <1>2, Zenon DEF Min

LEMMA LargestExists ==
    ASSUME NEW n \in Nat, NEW S \in SUBSET (0..n), S # {}
    PROVE  Max(S) \in S /\ \A y \in S : Max(S) >= y
<1> DEFINE T == {m \in 0..n : n - m \in S}
<1>1. T \in SUBSET Nat /\ T # {}
  <2>1. PICK x \in S : TRUE
    OBVIOUS
  <2>2. x \in 0..n /\ n - x \in 0..n /\ n - (n - x) = x
    OBVIOUS
  <2>3. n - x \in T
    BY <2>1, <2>2
  <2>4. T \in SUBSET Nat
    OBVIOUS
  <2> HIDE DEF T
  <2> QED
    BY <2>3, <2>4
<1>2. Min(T) \in T /\ \A y \in T : Min(T) <= y
  BY <1>1, LeastExists
<1>3. PICK m \in T : \A y \in T : m <= y
  BY <1>2
<1>4. n - m \in S /\ \A y \in S : n - m >= y
  <2>1. ASSUME NEW y \in S
        PROVE  n - m >= y
    <3>1. n - y \in T
      OBVIOUS
    <3>2. m <= n - y /\ m \in Nat /\ y \in Nat
      BY <1>3, <3>1
    <3> QED
      BY <3>2
  <2> QED
    BY <2>1
<1> QED
  BY <1>4, Zenon DEF Max

\* The largest element is Max.
LEMMA MaxIs ==
    ASSUME NEW S \in SUBSET Nat, NEW x \in S, \A y \in S : x >= y
    PROVE  Max(S) = x
<1>1. Max(S) \in S /\ \A y \in S : Max(S) >= y
  BY Zenon DEF Max
<1>2. Max(S) \in Nat /\ x \in Nat /\ Max(S) >= x /\ x >= Max(S)
  BY <1>1
<1> QED
  BY <1>2

LEMMA InSegment ==
    ASSUME NEW n \in Nat, NEW S \in SUBSET (1..n), S # {}
    PROVE  Max(S) \in S /\ Max(S) \in 1..n /\ S \ {Max(S)} \in SUBSET (1..n)
<1>1. S \in SUBSET (0..n)
  OBVIOUS
<1>2. Max(S) \in S
  BY <1>1, LargestExists
<1> QED
  BY <1>2

\* What the recursive function inside a fold from the left computes on sets of places.
Iterates(g, D, r, step, s) ==
    g = [S \in SUBSET D |-> IF S = {} THEN r ELSE step[<<g[S \ {Max(S)}], s[Max(S)]>>]]

\* A step that stays within T can be iterated over any sequence.
LEMMA IterationExists ==
    ASSUME NEW T, NEW E, NEW step \in [T \X E -> T], NEW r \in T,
           NEW n \in Nat, NEW s \in [1..n -> E]
    PROVE  \E g \in [SUBSET (1..n) -> T] : Iterates(g, 1..n, r, step, s)
<1> DEFINE Some(m) == m <= n => \E g \in [SUBSET (1..m) -> T] : Iterates(g, 1..m, r, step, s)
           Good == {m \in Nat : Some(m)}
<1>1. Some(0)
  <2> DEFINE g == [S \in SUBSET (1..0) |-> r]
  <2>1. SUBSET (1..0) = {{}}
    OBVIOUS
  <2>2. g \in [SUBSET (1..0) -> T] /\ Iterates(g, 1..0, r, step, s)
    BY <2>1 DEF Iterates
  <2> QED
    BY <2>2
<1>2. ASSUME NEW m \in Nat, Some(m)
      PROVE  Some(m + 1)
  <2> SUFFICES ASSUME m + 1 <= n
               PROVE  \E g \in [SUBSET (1..(m + 1)) -> T] : Iterates(g, 1..(m + 1), r, step, s)
    OBVIOUS
  <2>0. m <= n
    OBVIOUS
  <2>1. PICK g \in [SUBSET (1..m) -> T] : Iterates(g, 1..m, r, step, s)
    BY <1>2, <2>0, Zenon
  <2> DEFINE h == [S \in SUBSET (1..(m + 1)) |->
                      IF m + 1 \in S THEN step[<<g[S \ {m + 1}], s[m + 1]>>] ELSE g[S]]
  <2>2. ASSUME NEW S \in SUBSET (1..(m + 1))
        PROVE  /\ h[S] \in T
               /\ h[S] = IF S = {} THEN r ELSE step[<<h[S \ {Max(S)}], s[Max(S)]>>]
    <3>1. CASE m + 1 \in S
      <4>1. Max(S) = m + 1
        BY <3>1, MaxIs
      <4>2. S \ {m + 1} \in SUBSET (1..m) /\ S \ {m + 1} \in SUBSET (1..(m + 1))
        OBVIOUS
      <4>3. h[S \ {m + 1}] = g[S \ {m + 1}] /\ g[S \ {m + 1}] \in T
        BY <4>2
      <4>4. s[m + 1] \in E
        OBVIOUS
      <4>5. h[S] = step[<<g[S \ {m + 1}], s[m + 1]>>]
        BY <3>1
      <4> QED
        BY <4>1, <4>3, <4>4, <4>5, <3>1
    <3>2. CASE m + 1 \notin S
      <4>1. S \in SUBSET (1..m)
        BY <3>2
      <4>2. h[S] = g[S] /\ g[S] \in T
        BY <3>2, <4>1
      <4>3. g[S] = IF S = {} THEN r ELSE step[<<g[S \ {Max(S)}], s[Max(S)]>>]
        BY <2>1, <4>1 DEF Iterates
      <4>4. h[S \ {Max(S)}] = g[S \ {Max(S)}]
        BY <3>2
      <4> QED
        BY <4>2, <4>3, <4>4
    <3> QED
      BY <3>1, <3>2
  <2>3. h \in [SUBSET (1..(m + 1)) -> T]
    BY <2>2
  <2>4. h = [S \in SUBSET (1..(m + 1)) |-> IF S = {} THEN r ELSE step[<<h[S \ {Max(S)}], s[Max(S)]>>]]
    BY <2>2
  <2> QED
    BY <2>3, <2>4, Zenon DEF Iterates
<1> HIDE DEF Some
<1>3. 0 \in Good /\ \A m \in Nat : m \in Good => m + 1 \in Good
  BY <1>1, <1>2
<1>4. n \in Good
  BY <1>3, Induction
<1>5. Some(n)
  BY <1>4
<1>6. n <= n
  OBVIOUS
<1> QED
  BY <1>5, <1>6, Zenon DEF Some

\* The places from the first to the k-th, of which the k-th is the last.
LEMMA Segments ==
    ASSUME NEW n \in Nat, NEW k \in 1..n
    PROVE  /\ Max(1..k) = k
           /\ (1..k) \ {k} = 1..(k - 1)
           /\ 1..k # {}
           /\ 1..k \in SUBSET (1..n)
BY MaxIs

-----------------------------------------------------------------------------
(* The three recursions of BuffQueue                                        *)

Now   == [head |-> head, tail |-> tail, next |-> next, prev |-> prev]
Rings == [head : Pointer, tail : Pointer, next : [Nodes -> Pointer], prev : [Nodes -> Pointer]]

LEMMA CutType ==
    ASSUME NEW r \in Rings, NEW b \in Nodes
    PROVE  Cut(r, b) \in Rings
BY DEF Cut, Rings, Pointer

\* The pointers as the buffers of s leave one after the other.
LEMMA CutFold ==
    ASSUME NEW r \in Rings, NEW s \in Seq(Nodes)
    PROVE  \E g : /\ g[0] = r
                  /\ \A k \in 1..Len(s) : g[k] = Cut(g[k - 1], s[k])
                  /\ FoldLeft(Cut, r, s) = g[Len(s)]
<1> DEFINE n == Len(s)
           step == [p \in Rings \X Nodes |-> Cut(p[1], p[2])]
           Eq(g) == g = [S \in SUBSET (DOMAIN s) |-> IF S = {} THEN r ELSE Cut(g[S \ {Max(S)}], s[Max(S)])]
           h == CHOOSE g : Eq(g)
<1>1. FoldLeft(Cut, r, s) = h[DOMAIN s]
  BY Zenon DEF FoldLeft, MapThenFoldSet
<1>2. n \in Nat /\ s \in [1..n -> Nodes] /\ DOMAIN s = 1..n
  OBVIOUS
<1>3. step \in [Rings \X Nodes -> Rings]
  BY CutType
<1>4. \E g : Eq(g)
  <2> HIDE DEF step
  <2>1. PICK g \in [SUBSET (1..n) -> Rings] : Iterates(g, 1..n, r, step, s)
    BY <1>2, <1>3, IterationExists, Zenon
  <2>2. ASSUME NEW S \in SUBSET (1..n), S # {}
        PROVE  step[<<g[S \ {Max(S)}], s[Max(S)]>>] = Cut(g[S \ {Max(S)}], s[Max(S)])
    <3>1. Max(S) \in 1..n /\ S \ {Max(S)} \in SUBSET (1..n)
      BY <1>2, <2>2, InSegment, Zenon
    <3>2. g[S \ {Max(S)}] \in Rings /\ s[Max(S)] \in Nodes
      BY <3>1, <2>1, <1>2
    <3> QED
      BY <3>2 DEF step
  <2>3. Eq(g)
    BY <2>1, <2>2, <1>2, Zenon DEF Iterates
  <2> QED
    BY <2>3
<1>5. Eq(h)
  <2> HIDE DEF Eq
  <2> QED
    BY <1>4, Zenon
<1>6. h[{}] = r /\ \A S \in SUBSET (1..n) : S # {} => h[S] = Cut(h[S \ {Max(S)}], s[Max(S)])
  <2> HIDE DEF h
  <2>1. h[{}] = IF {} = {} THEN r ELSE Cut(h[{} \ {Max({})}], s[Max({})])
    BY <1>2, <1>5, Zenon
  <2> QED
    BY <1>2, <1>5, <2>1, Zenon
<1> DEFINE v == [k \in 0..n |-> h[1..k]]
<1> HIDE DEF h
<1>7. v[0] = r
  <2>1. 1..0 = {}
    OBVIOUS
  <2> QED
    BY <2>1, <1>6
<1>8. ASSUME NEW k \in 1..n
      PROVE  v[k] = Cut(v[k - 1], s[k])
  <2>1. v[k] = h[1..k] /\ v[k - 1] = h[1..(k - 1)]
    OBVIOUS
  <2>2. h[1..k] = Cut(h[(1..k) \ {Max(1..k)}], s[Max(1..k)])
    BY <1>6, <1>2, Segments, Zenon
  <2> QED
    BY <2>1, <2>2, <1>2, Segments
<1>9. FoldLeft(Cut, r, s) = v[n]
  BY <1>1, <1>2
<1> QED
  BY <1>7, <1>8, <1>9

\* Sums of the first numbers of v.
SumsOf(g, v, n) ==
    /\ g[0] = 0
    /\ \A k \in 1..n : g[k] = g[k - 1] + v[k]

\* There is one sum for each number of summands.
LEMMA SumsAgree ==
    ASSUME NEW n \in Nat, NEW v \in [1..n -> Nat], NEW g, NEW h, SumsOf(g, v, n), SumsOf(h, v, n)
    PROVE  \A k \in 0..n : g[k] \in Nat /\ g[k] = h[k]
<1> DEFINE Good == {m \in Nat : m <= n => g[m] \in Nat /\ g[m] = h[m]}
<1>1. 0 \in Good
  BY DEF SumsOf
<1>2. ASSUME NEW m \in Nat, m \in Good
      PROVE  m + 1 \in Good
  <2> SUFFICES ASSUME m + 1 <= n
               PROVE  g[m + 1] \in Nat /\ g[m + 1] = h[m + 1]
    OBVIOUS
  <2>1. g[m] \in Nat /\ g[m] = h[m]
    BY <1>2
  <2>2. m + 1 \in 1..n /\ (m + 1) - 1 = m
    OBVIOUS
  <2>3. g[m + 1] = g[m] + v[m + 1] /\ h[m + 1] = h[m] + v[m + 1]
    BY <2>2 DEF SumsOf
  <2> QED
    BY <2>1, <2>2, <2>3
<1>3. \A m \in Nat : m \in Good
  <2> HIDE DEF Good
  <2> QED
    BY <1>1, <1>2, Induction
<1> QED
  BY <1>3

\* A recursive sum over sets of places, as a fold from the left has it.
Adds(h, v, n) ==
    h = [S \in SUBSET (1..n) |-> IF S = {} THEN 0 ELSE h[S \ {Max(S)}] + v[Max(S)]]

LEMMA SumExists ==
    ASSUME NEW n \in Nat, NEW v \in [1..n -> Nat]
    PROVE  \E h : Adds(h, v, n)
<1> DEFINE step == [p \in Nat \X Nat |-> p[1] + p[2]]
<1>1. step \in [Nat \X Nat -> Nat]
  OBVIOUS
<1> HIDE DEF step
<1>2. PICK g \in [SUBSET (1..n) -> Nat] : Iterates(g, 1..n, 0, step, v)
  BY <1>1, IterationExists, Zenon
<1>3. ASSUME NEW S \in SUBSET (1..n), S # {}
      PROVE  step[<<g[S \ {Max(S)}], v[Max(S)]>>] = g[S \ {Max(S)}] + v[Max(S)]
  <2>1. Max(S) \in 1..n /\ S \ {Max(S)} \in SUBSET (1..n)
    BY <1>3, InSegment, Zenon
  <2>2. g[S \ {Max(S)}] \in Nat /\ v[Max(S)] \in Nat
    BY <2>1
  <2> QED
    BY <2>2 DEF step
<1>4. Adds(g, v, n)
  BY <1>2, <1>3, Zenon DEF Iterates, Adds
<1> QED
  BY <1>4

LEMMA SumValues ==
    ASSUME NEW n \in Nat, NEW v \in [1..n -> Nat], NEW h, Adds(h, v, n), NEW g, SumsOf(g, v, n)
    PROVE  h[1..n] = g[n]
<1>1. h[{}] = 0 /\ \A S \in SUBSET (1..n) : S # {} => h[S] = h[S \ {Max(S)}] + v[Max(S)]
  <2>1. h[{}] = IF {} = {} THEN 0 ELSE h[{} \ {Max({})}] + v[Max({})]
    BY Zenon DEF Adds
  <2> QED
    BY <2>1, Zenon DEF Adds
<1> DEFINE w == [k \in 0..n |-> h[1..k]]
<1>2. w[0] = 0
  <2>1. 1..0 = {}
    OBVIOUS
  <2> QED
    BY <2>1, <1>1
<1>3. ASSUME NEW k \in 1..n
      PROVE  w[k] = w[k - 1] + v[k]
  <2>1. w[k] = h[1..k] /\ w[k - 1] = h[1..(k - 1)]
    OBVIOUS
  <2>2. /\ Max(1..k) = k /\ (1..k) \ {k} = 1..(k - 1)
        /\ 1..k # {} /\ 1..k \in SUBSET (1..n)
    BY Segments
  <2>3. h[1..k] = h[(1..k) \ {Max(1..k)}] + v[Max(1..k)]
    BY <1>1, <2>2, Zenon
  <2> QED
    BY <2>1, <2>2, <2>3
<1>4. SumsOf(w, v, n)
  BY <1>2, <1>3 DEF SumsOf
<1>5. w[n] = g[n]
  <2> HIDE DEF w
  <2> QED
    BY <1>4, SumsAgree
<1> QED
  BY <1>5

\* buf_get_total_len adds the lengths up.
LEMMA BytesAdd ==
    ASSUME len \in [Nodes -> Nat], NEW s \in Seq(Nodes), NEW g,
           SumsOf(g, [k \in 1..Len(s) |-> len[s[k]]], Len(s))
    PROVE  BytesIn(s) = g[Len(s)]
<1> DEFINE n == Len(s)
           v == [k \in 1..n |-> len[s[k]]]
           Eq(h) == h = [S \in SUBSET (DOMAIN s) |-> IF S = {} THEN 0 ELSE h[S \ {Max(S)}] + len[s[Max(S)]]]
           c == CHOOSE h : Eq(h)
<1>1. BytesIn(s) = c[DOMAIN s]
  BY Zenon DEF BytesIn, FoldLeft, MapThenFoldSet
<1>2. n \in Nat /\ s \in [1..n -> Nodes] /\ DOMAIN s = 1..n /\ v \in [1..n -> Nat]
  OBVIOUS
<1>3. ASSUME NEW h
      PROVE  Eq(h) <=> Adds(h, v, n)
  <2>1. ASSUME NEW S \in SUBSET (1..n), S # {}
        PROVE  v[Max(S)] = len[s[Max(S)]]
    <3>1. Max(S) \in 1..n
      BY <1>2, <2>1, InSegment, Zenon
    <3> QED
      BY <3>1
  <2> HIDE DEF v, n
  <2>2. [S \in SUBSET (1..n) |-> IF S = {} THEN 0 ELSE h[S \ {Max(S)}] + v[Max(S)]]
         = [S \in SUBSET (DOMAIN s) |-> IF S = {} THEN 0 ELSE h[S \ {Max(S)}] + len[s[Max(S)]]]
    BY <2>1, <1>2, Zenon
  <2> QED
    BY <2>2, Zenon DEF Adds
<1> HIDE DEF v, Eq, n
<1>4. Eq(c)
  BY <1>2, <1>3, SumExists, Zenon
<1>5. Adds(c, v, n)
  BY <1>3, <1>4
<1>6. SumsOf(g, v, n)
  BY DEF v, n
<1>7. c[1..n] = g[n]
  BY <1>2, <1>5, <1>6, SumValues, Zenon
<1> QED
  BY <1>1, <1>2, <1>7, Zenon DEF n

\* A function whose values follow from the value before.
Recurs(g, n, r, step) == g = [k \in 1..n |-> IF k = 1 THEN r ELSE step[g[k - 1]]]

LEMMA RecursionExists ==
    ASSUME NEW n \in Nat, NEW T, NEW r \in T, NEW step \in [T -> T]
    PROVE  \E g \in [1..n -> T] : Recurs(g, n, r, step)
<1> DEFINE Is(g, m) == g = [k \in 1..m |-> IF k = 1 THEN r ELSE step[g[k - 1]]]
           Some(m) == \E g \in [1..m -> T] : Is(g, m)
           Good == {m \in Nat : Some(m)}
<1>1. Some(0)
  <2> DEFINE g == [k \in 1..0 |-> r]
  <2>1. g \in [1..0 -> T] /\ Is(g, 0)
    OBVIOUS
  <2> QED
    BY <2>1, Zenon
<1>2. ASSUME NEW m \in Nat, Some(m)
      PROVE  Some(m + 1)
  <2>1. PICK g \in [1..m -> T] : Is(g, m)
    BY <1>2, Zenon
  <2> DEFINE h == [k \in 1..(m + 1) |-> IF k = m + 1 THEN (IF m = 0 THEN r ELSE step[g[m]]) ELSE g[k]]
  <2>2. ASSUME NEW k \in 1..(m + 1)
        PROVE  h[k] \in T /\ h[k] = IF k = 1 THEN r ELSE step[h[k - 1]]
    <3>1. CASE k = m + 1
      <4>1. CASE m = 0
        BY <3>1, <4>1
      <4>2. CASE m # 0
        <5>1. h[k] = step[g[m]] /\ k # 1 /\ k - 1 = m /\ m \in 1..m /\ h[m] = g[m]
          BY <3>1, <4>2
        <5>2. g[m] \in T
          BY <5>1
        <5> QED
          BY <5>1, <5>2
      <4> QED
        BY <4>1, <4>2
    <3>2. CASE k # m + 1
      <4>1. k \in 1..m
        BY <3>2
      <4>2. h[k] = g[k] /\ g[k] \in T
        BY <3>2, <4>1
      <4>3. g[k] = IF k = 1 THEN r ELSE step[g[k - 1]]
        BY <2>1, <4>1, Zenon
      <4>4. k # 1 => h[k - 1] = g[k - 1]
        BY <4>1
      <4> QED
        BY <4>2, <4>3, <4>4
    <3> QED
      BY <3>1, <3>2
  <2>3. h \in [1..(m + 1) -> T]
    BY <2>2
  <2>4. Is(h, m + 1)
    BY <2>2
  <2> QED
    BY <2>3, <2>4, Zenon
<1> HIDE DEF Some
<1>3. 0 \in Good /\ \A m \in Nat : m \in Good => m + 1 \in Good
  BY <1>1, <1>2
<1>4. n \in Good
  BY <1>3, Induction
<1>5. Some(n)
  BY <1>4
<1> QED
  BY <1>5, Zenon DEF Some, Recurs

\* The walk from the head along next.
LEMMA WalkValues ==
    ASSUME head \in Pointer, next \in [Nodes -> Pointer], Cardinality(Nodes) \in Nat
    PROVE  Walk = [k \in 1..Cardinality(Nodes) |->
                      IF k = 1 THEN head ELSE IF Walk[k - 1] = Null THEN Null ELSE next[Walk[k - 1]]]
<1> DEFINE C == Cardinality(Nodes)
           Eq(g) == g = [k \in 1..C |-> IF k = 1 THEN head ELSE IF g[k - 1] = Null THEN Null ELSE next[g[k - 1]]]
           step == [p \in Pointer |-> IF p = Null THEN Null ELSE next[p]]
<1>1. Walk = CHOOSE g : Eq(g)
  BY Zenon DEF Walk
<1>2. step \in [Pointer -> Pointer]
  BY DEF Pointer
<1>3. PICK g \in [1..C -> Pointer] : Recurs(g, C, head, step)
  <2>1. C \in Nat
    OBVIOUS
  <2> HIDE DEF step, C
  <2> QED
    BY <1>2, <2>1, RecursionExists
<1>4. ASSUME NEW k \in 1..C, k # 1
      PROVE  step[g[k - 1]] = IF g[k - 1] = Null THEN Null ELSE next[g[k - 1]]
  <2>1. k - 1 \in 1..C
    BY <1>4
  <2>2. g[k - 1] \in Pointer
    BY <2>1
  <2> QED
    BY <2>2
<1>5. Eq(g)
  <2> HIDE DEF step, C
  <2> QED
    BY <1>3, <1>4, Zenon DEF Recurs
<1> HIDE DEF Eq, C
<1>6. Eq(Walk)
  BY <1>1, <1>5, Zenon
<1> QED
  BY <1>6, Zenon DEF Eq, C

-----------------------------------------------------------------------------
(* What it means that pointers are a ring of the buffers of s               *)

\* In a ring of n places k comes behind j.
Follows(j, k, n) == k = j + 1 \/ (j = n /\ k = 1)

Distinct(s) == \A j, k \in 1..Len(s) : s[j] = s[k] => j = k

Ring(r, s) ==
    /\ r \in Rings
    /\ s \in Seq(Nodes)
    /\ Distinct(s)
    /\ Len(s) = 0 => r.head = Null /\ r.tail = Null
    /\ Len(s) > 0 => r.head = s[1] /\ r.tail = s[Len(s)]
    /\ \A j, k \in 1..Len(s) :
          Follows(j, k, Len(s)) => r.next[s[j]] = s[k] /\ r.prev[s[k]] = s[j]

\* s without the j elements behind the k-th.
Without(s, k, j) == [i \in 1..(Len(s) - j) |-> IF i <= k THEN s[i] ELSE s[i + j]]

LEMMA WithoutOne ==
    ASSUME NEW s \in Seq(Nodes), NEW i \in 1..Len(s), Distinct(s)
    PROVE  /\ Without(s, i - 1, 1) \in Seq(Nodes)
           /\ Len(Without(s, i - 1, 1)) = Len(s) - 1
           /\ Distinct(Without(s, i - 1, 1))
           /\ \A j \in 1..(Len(s) - 1) :
                 Without(s, i - 1, 1)[j] = s[IF j < i THEN j ELSE j + 1]
<1> DEFINE n == Len(s)
           w == Without(s, i - 1, 1)
<1>1. n \in Nat /\ n - 1 \in Nat /\ s \in [1..n -> Nodes]
  OBVIOUS
<1>2. ASSUME NEW j \in 1..(n - 1)
      PROVE  /\ (IF j < i THEN j ELSE j + 1) \in 1..n
             /\ w[j] = s[IF j < i THEN j ELSE j + 1]
  BY <1>1 DEF Without
<1>3. w = [j \in 1..(n - 1) |-> s[IF j < i THEN j ELSE j + 1]]
  BY <1>1, <1>2 DEF Without
<1>4. w \in [1..(n - 1) -> Nodes]
  BY <1>1, <1>2, <1>3
<1>5. w \in Seq(Nodes) /\ Len(w) = n - 1
  BY <1>1, <1>4 DEF Without
<1>6. Distinct(w)
  <2> SUFFICES ASSUME NEW j \in 1..(n - 1), NEW k \in 1..(n - 1), w[j] = w[k]
               PROVE  j = k
    BY <1>5 DEF Distinct
  <2> DEFINE x == IF j < i THEN j ELSE j + 1
             y == IF k < i THEN k ELSE k + 1
  <2>1. x \in 1..n /\ y \in 1..n /\ s[x] = s[y]
    BY <1>2
  <2>2. x = y
    BY <2>1 DEF Distinct
  <2> QED
    BY <2>2
<1> QED
  BY <1>2, <1>5, <1>6

\* remove_node takes one buffer out of the ring and closes the gap.
LEMMA CutRing ==
    ASSUME NEW r, NEW s, NEW i \in 1..Len(s), Ring(r, s), Null \notin Nodes
    PROVE  Ring(Cut(r, s[i]), Without(s, i - 1, 1))
<1> DEFINE n == Len(s)
           w == Without(s, i - 1, 1)
           b == s[i]
           c == Cut(r, b)
           p == IF i = 1 THEN n ELSE i - 1
           q == IF i = n THEN 1 ELSE i + 1
<1>1. r \in Rings /\ s \in Seq(Nodes) /\ Distinct(s)
  BY DEF Ring
<1>2. n \in Nat /\ n > 0 /\ s \in [1..n -> Nodes] /\ b \in Nodes /\ p \in 1..n /\ q \in 1..n
  BY <1>1
<1>3. w \in Seq(Nodes) /\ Len(w) = n - 1 /\ Distinct(w)
  BY <1>1, WithoutOne
<1>s. \A j \in 1..(n - 1) : w[j] = s[IF j < i THEN j ELSE j + 1]
  BY <1>1, WithoutOne
<1>4. c \in Rings
  BY <1>1, <1>2, CutType
<1>5. r.head = s[1] /\ r.tail = s[n]
  BY <1>2 DEF Ring
<1>6. CASE n = 1
  <2>1. r.head = r.tail
    BY <1>5, <1>6
  <2>2. c.head = Null /\ c.tail = Null
    BY <1>1, <2>1 DEF Cut, Rings
  <2>3. Len(w) = 0 /\ 1..Len(w) = {}
    BY <1>3, <1>6
  <2> QED
    BY <1>3, <1>4, <2>2, <2>3 DEF Ring
<1>7. CASE n > 1
  <2>1. p # i /\ q # i /\ s[p] # b /\ s[q] # b
    <3>1. p # i /\ q # i
      BY <1>2, <1>7
    <3> QED
      BY <1>1, <1>2, <3>1 DEF Distinct
  <2>2. r.next[b] = s[q] /\ r.prev[b] = s[p]
    <3>1. Follows(i, q, n) /\ Follows(p, i, n)
      BY <1>2 DEF Follows
    <3> QED
      BY <1>2, <3>1 DEF Ring
  <2>3. r.head # r.tail
    BY <1>1, <1>2, <1>5, <1>7 DEF Distinct
  <2>4. /\ r.next \in [Nodes -> Pointer] /\ r.prev \in [Nodes -> Pointer]
        /\ s[p] \in Nodes /\ s[q] \in Nodes
    BY <1>1, <1>2 DEF Rings
  <2>5. /\ c.head = IF b = r.head THEN s[q] ELSE r.head
        /\ c.tail = IF b = r.tail THEN s[p] ELSE r.tail
        /\ c.next = [[r.next EXCEPT ![s[p]] = s[q]] EXCEPT ![b] = Null]
        /\ c.prev = [[r.prev EXCEPT ![s[q]] = s[p]] EXCEPT ![b] = Null]
    BY <2>2, <2>3 DEF Cut
  <2>6. ASSUME NEW x \in 1..n, x # i
        PROVE  /\ s[x] \in Nodes /\ s[x] # b
               /\ c.next[s[x]] = IF x = p THEN s[q] ELSE r.next[s[x]]
               /\ c.prev[s[x]] = IF x = q THEN s[p] ELSE r.prev[s[x]]
    <3>1. s[x] \in Nodes /\ s[x] # b /\ (s[x] = s[p] <=> x = p) /\ (s[x] = s[q] <=> x = q)
      BY <1>1, <1>2, <2>6 DEF Distinct
    <3> HIDE DEF c, b, p, q
    <3> QED
      BY <2>4, <2>5, <3>1
  <2>7. ASSUME NEW j \in 1..(n - 1), NEW k \in 1..(n - 1), Follows(j, k, n - 1)
        PROVE  c.next[w[j]] = w[k] /\ c.prev[w[k]] = w[j]
    <3> DEFINE x == IF j < i THEN j ELSE j + 1
               y == IF k < i THEN k ELSE k + 1
    <3>1. x \in 1..n /\ y \in 1..n /\ x # i /\ y # i
      BY <1>2, SMTT(30)
    <3>2. w[j] = s[x] /\ w[k] = s[y]
      BY <1>1, WithoutOne
    <3>3. (x = p /\ y = q) \/ (Follows(x, y, n) /\ x # p /\ y # q)
      BY <1>2, <1>7, <2>7 DEF Follows
    <3>4. CASE x = p /\ y = q
      BY <2>6, <3>1, <3>2, <3>4
    <3>5. CASE Follows(x, y, n) /\ x # p /\ y # q
      <4>1. r.next[s[x]] = s[y] /\ r.prev[s[y]] = s[x]
        BY <3>1, <3>5 DEF Ring
      <4> HIDE DEF c, b, p, q, w, x, y
      <4> QED
        BY <2>6, <3>1, <3>2, <3>5, <4>1
    <3> QED
      BY <3>3, <3>4, <3>5
  <2>8. c.head = w[1]
    <3>0. 1 \in 1..(n - 1) /\ 1 \in 1..n /\ 1 + 1 = 2
      BY <1>2, <1>7
    <3>1. w[1] = s[IF 1 < i THEN 1 ELSE 2] /\ 1 \in 1..n
      <4> HIDE DEF w
      <4> QED
        BY <1>s, <3>0
    <3>2. b = r.head <=> i = 1
      BY <1>1, <1>2, <1>5, <3>1 DEF Distinct
    <3>3. i = 1 => q = 2
      BY <1>2, <1>7
    <3> QED
      BY <1>2, <1>5, <2>5, <3>1, <3>2, <3>3
  <2>9. c.tail = w[n - 1]
    <3>0. n - 1 \in 1..(n - 1) /\ n \in 1..n /\ (n - 1) + 1 = n
      BY <1>2, <1>7
    <3>1. w[n - 1] = s[IF n - 1 < i THEN n - 1 ELSE n] /\ n \in 1..n
      <4> HIDE DEF w, n
      <4> QED
        BY <1>s, <3>0
    <3>2. b = r.tail <=> i = n
      BY <1>1, <1>2, <1>5, <3>1 DEF Distinct
    <3>3. i = n => p = n - 1
      BY <1>7
    <3> QED
      BY <1>2, <1>5, <2>5, <3>1, <3>2, <3>3
  <2>10. \A j, k \in 1..Len(w) : Follows(j, k, Len(w)) => c.next[w[j]] = w[k] /\ c.prev[w[k]] = w[j]
    BY <1>3, <2>7
  <2>11. Len(w) > 0 /\ Len(w) # 0 /\ c.tail = w[Len(w)]
    BY <1>2, <1>3, <1>7, <2>9
  <2> QED
    BY <1>3, <1>4, <2>8, <2>10, <2>11, Zenon DEF Ring
<1> QED
  BY <1>2, <1>6, <1>7

\* add_buf as an effect on the pointers r.
Linked(r, b) ==
    [head |-> IF r.head = Null THEN b ELSE r.head,
     tail |-> b,
     next |-> IF r.tail = Null THEN [r.next EXCEPT ![b] = b]
              ELSE [[r.next EXCEPT ![b] = r.next[r.tail]] EXCEPT ![r.tail] = b],
     prev |-> IF r.tail = Null THEN [r.prev EXCEPT ![b] = b]
              ELSE [[r.prev EXCEPT ![r.next[r.tail]] = b] EXCEPT ![b] = r.tail]]

\* add_buf puts a buffer that is not in the ring between its last and its first.
LEMMA LinkRing ==
    ASSUME NEW r, NEW s, NEW b \in Nodes, Ring(r, s), Null \notin Nodes,
           \A j \in 1..Len(s) : s[j] # b
    PROVE  Ring(Linked(r, b), Append(s, b))
<1> DEFINE n == Len(s)
           a == Append(s, b)
           c == Linked(r, b)
<1>1. r \in Rings /\ s \in Seq(Nodes) /\ Distinct(s)
  BY DEF Ring
<1>2. n \in Nat /\ s \in [1..n -> Nodes]
  BY <1>1
<1>3. /\ a \in Seq(Nodes) /\ Len(a) = n + 1
      /\ \A j \in 1..n : a[j] = s[j] /\ s[j] \in Nodes
      /\ a[n + 1] = b
  BY <1>1
<1>4. Distinct(a)
  <2> SUFFICES ASSUME NEW j \in 1..(n + 1), NEW k \in 1..(n + 1), a[j] = a[k]
               PROVE  j = k
    BY <1>3 DEF Distinct
  <2>1. (j \in 1..n \/ j = n + 1) /\ (k \in 1..n \/ k = n + 1)
    BY <1>2
  <2> HIDE DEF a
  <2> QED
    BY <1>1, <1>3, <2>1 DEF Distinct
<1>5. CASE n = 0
  <2>1. r.head = Null /\ r.tail = Null
    BY <1>5 DEF Ring
  <2>2. /\ c.head = b /\ c.tail = b
        /\ c.next = [r.next EXCEPT ![b] = b] /\ c.prev = [r.prev EXCEPT ![b] = b]
    BY <2>1 DEF Linked
  <2>3. c.next[b] = b /\ c.prev[b] = b /\ c \in Rings
    BY <1>1, <2>1, <2>2 DEF Rings, Linked, Pointer
  <2>4. Len(a) = 1 /\ a[1] = b /\ \A j \in 1..Len(a) : j = 1
    BY <1>3, <1>5
  <2>5. \A j, k \in 1..Len(a) : c.next[a[j]] = a[k] /\ c.prev[a[k]] = a[j]
    BY <2>3, <2>4
  <2>6. Len(a) # 0 /\ c.head = a[1] /\ c.tail = a[Len(a)]
    BY <2>2, <2>4
  <2> QED
    BY <1>3, <1>4, <2>3, <2>5, <2>6, Zenon DEF Ring
<1>6. CASE n > 0
  <2>1. 1 \in 1..n /\ n \in 1..n
    BY <1>2, <1>6
  <2>2. r.head = s[1] /\ r.tail = s[n] /\ r.head # Null /\ r.tail # Null
    BY <1>2, <1>6, <2>1 DEF Ring
  <2>3. r.next[s[n]] = s[1]
    BY <1>6, <2>1 DEF Ring, Follows
  <2>4. /\ r.next \in [Nodes -> Pointer] /\ r.prev \in [Nodes -> Pointer]
        /\ s[1] \in Nodes /\ s[n] \in Nodes /\ s[1] # b /\ s[n] # b /\ b \in Pointer
    BY <1>1, <1>2, <2>1 DEF Rings, Pointer
  <2>5. /\ c.head = s[1] /\ c.tail = b
        /\ c.next = [[r.next EXCEPT ![b] = s[1]] EXCEPT ![s[n]] = b]
        /\ c.prev = [[r.prev EXCEPT ![s[1]] = b] EXCEPT ![b] = s[n]]
    BY <2>2, <2>3 DEF Linked
  <2>6. c \in Rings
    <3>1. c.next \in [Nodes -> Pointer] /\ c.prev \in [Nodes -> Pointer]
      BY <2>4, <2>5 DEF Pointer
    <3>2. c = [head |-> c.head, tail |-> c.tail, next |-> c.next, prev |-> c.prev]
      BY DEF Linked
    <3>3. c.head \in Pointer /\ c.tail \in Pointer
      BY <2>4, <2>5 DEF Pointer
    <3> HIDE DEF c
    <3> QED
      BY <3>1, <3>2, <3>3 DEF Rings
  <2>7. c.next[b] = s[1] /\ c.prev[b] = s[n] /\ c.next[s[n]] = b /\ c.prev[s[1]] = b
    BY <2>4, <2>5
  <2>8. ASSUME NEW j \in 1..n, NEW k \in 1..n, k = j + 1
        PROVE  c.next[s[j]] = s[k] /\ c.prev[s[k]] = s[j]
    <3>1. r.next[s[j]] = s[k] /\ r.prev[s[k]] = s[j]
      BY <2>8 DEF Ring, Follows
    <3>2. j # n /\ k # 1
      BY <1>2, <2>8
    <3>3. s[j] \in Nodes /\ s[k] \in Nodes /\ s[j] # b /\ s[k] # b /\ s[j] # s[n] /\ s[k] # s[1]
      BY <1>1, <1>2, <2>1, <3>2 DEF Distinct
    <3> HIDE DEF c
    <3> QED
      BY <2>4, <2>5, <3>1, <3>3
  <2>9. ASSUME NEW j \in 1..(n + 1), NEW k \in 1..(n + 1), Follows(j, k, n + 1)
        PROVE  c.next[a[j]] = a[k] /\ c.prev[a[k]] = a[j]
    <3>1. \/ j \in 1..n /\ k \in 1..n /\ k = j + 1
          \/ j = n /\ k = n + 1
          \/ j = n + 1 /\ k = 1
      BY <1>2, <2>9 DEF Follows
    <3> HIDE DEF a, c
    <3>2. CASE j \in 1..n /\ k \in 1..n /\ k = j + 1
      BY <1>3, <2>8, <3>2
    <3>3. CASE j = n /\ k = n + 1
      BY <1>3, <2>1, <2>7, <3>3
    <3>4. CASE j = n + 1 /\ k = 1
      BY <1>3, <2>1, <2>7, <3>4
    <3> QED
      BY <3>1, <3>2, <3>3, <3>4
  <2>10. Len(a) # 0 /\ c.head = a[1] /\ c.tail = a[Len(a)]
    BY <1>2, <1>3, <2>1, <2>5
  <2>11. \A j, k \in 1..Len(a) : Follows(j, k, Len(a)) => c.next[a[j]] = a[k] /\ c.prev[a[k]] = a[j]
    BY <1>3, <2>9
  <2> QED
    BY <1>3, <1>4, <2>6, <2>10, <2>11, Zenon DEF Ring
<1> QED
  BY <1>2, <1>5, <1>6

\* The buffers of a ring are no more than there are.
LEMMA RingLength ==
    ASSUME NEW s \in Seq(Nodes), Distinct(s), IsFiniteSet(Nodes)
    PROVE  Len(s) \in Nat /\ Cardinality(Nodes) \in Nat /\ Len(s) <= Cardinality(Nodes)
<1> DEFINE n == Len(s)
<1>1. n \in Nat /\ s \in [1..n -> Nodes]
  OBVIOUS
<1>2. s \in Injection(1..n, Nodes)
  <2>1. \A j, k \in 1..n : s[j] = s[k] => j = k
    BY DEF Distinct
  <2> QED
    BY <1>1, <2>1, Fun_IsInj
<1>3. Cardinality(1..n) = n
  BY <1>1, FS_Interval
<1> HIDE DEF n
<1>4. Cardinality(1..n) <= Cardinality(Nodes)
  BY <1>2, FS_Injection
<1>5. Cardinality(Nodes) \in Nat
  BY FS_CardinalityType
<1> QED
  BY <1>1, <1>3, <1>4, <1>5 DEF n

\* A walk from the head meets the buffers of the ring in their order and stops at the last.
WalkMeetsAll == \A s \in Seq(Nodes) : Ring(Now, s) => Content = s

LEMMA WalkRing == WalkMeetsAll
<1> SUFFICES ASSUME NEW s \in Seq(Nodes), Ring(Now, s)
             PROVE  Content = s
  BY DEF WalkMeetsAll
<1> DEFINE n == Len(s)
           C == Cardinality(Nodes)
<1>1. Null \notin Nodes /\ IsFiniteSet(Nodes)
  BY BuffQueueAssumption DEF BuffQueueAssumption
<1>2. Distinct(s) /\ n \in Nat /\ s \in [1..n -> Nodes] /\ DOMAIN s = 1..n
  BY DEF Ring
<1>3. head \in Pointer /\ next \in [Nodes -> Pointer]
  BY DEF Ring, Rings, Now
<1>n. \A j, k \in 1..n : k = j + 1 => next[s[j]] = s[k]
  BY DEF Ring, Now, Follows
<1>4. C \in Nat /\ n <= C
  BY <1>1, <1>2, RingLength
<1>5. CASE n = 0
  <2>1. head = Null
    BY <1>5 DEF Ring, Now
  <2>2. s = <<>>
    BY <1>5
  <2> QED
    BY <2>1, <2>2 DEF Content
<1>6. CASE n > 0
  <2>1. head = s[1] /\ tail = s[n] /\ head # Null
    BY <1>1, <1>2, <1>6 DEF Ring, Now
  <2> DEFINE w == Walk
             ends == {k \in DOMAIN w : w[k] = tail}
  <2>2. DOMAIN w = 1..C /\ \A k \in 1..C : w[k] = IF k = 1 THEN head ELSE IF w[k - 1] = Null THEN Null ELSE next[w[k - 1]]
    BY <1>3, <1>4, WalkValues, Zenon
  <2> HIDE DEF w, C
  <2>3. \A k \in 1..n : w[k] = s[k]
    <3> DEFINE Good == {m \in Nat : m + 1 <= n => w[m + 1] = s[m + 1]}
    <3>1. 0 \in Good
      <4>1. 0 + 1 = 1 /\ 1 \in 1..C
        BY <1>4, <1>6, <1>2
      <4> QED
        BY <2>1, <2>2, <4>1
    <3>2. ASSUME NEW m \in Nat, m \in Good
          PROVE  m + 1 \in Good
      <4> SUFFICES ASSUME (m + 1) + 1 <= n
                   PROVE  w[(m + 1) + 1] = s[(m + 1) + 1]
        OBVIOUS
      <4>1. w[m + 1] = s[m + 1]
        BY <1>2, <3>2
      <4>2. /\ (m + 1) + 1 \in 1..C /\ (m + 1) + 1 # 1 /\ ((m + 1) + 1) - 1 = m + 1
            /\ m + 1 \in 1..n /\ (m + 1) + 1 \in 1..n
        BY <1>2, <1>4
      <4>3. next[s[m + 1]] = s[(m + 1) + 1] /\ s[m + 1] # Null
        BY <1>1, <1>2, <1>n, <4>2
      <4>4. w[(m + 1) + 1] = IF w[m + 1] = Null THEN Null ELSE next[w[m + 1]]
        BY <2>2, <4>2
      <4> QED
        BY <4>1, <4>3, <4>4
    <3>3. \A m \in Nat : m \in Good
      <4> HIDE DEF Good
      <4> QED
        BY <3>1, <3>2, Induction
    <3> SUFFICES ASSUME NEW k \in 1..n
                 PROVE  w[k] = s[k]
      OBVIOUS
    <3>4. k - 1 \in Nat /\ (k - 1) + 1 = k /\ k <= n
      BY <1>2
    <3>5. k - 1 \in Good
      BY <3>3, <3>4
    <3> QED
      BY <3>4, <3>5
  <2>4. ends \in SUBSET Nat /\ n \in ends /\ \A k \in ends : n <= k
    <3>1. n \in 1..n /\ n \in 1..C /\ 1..C \in SUBSET Nat
      BY <1>2, <1>4, <1>6
    <3>2. ASSUME NEW k \in ends
          PROVE  n <= k
      <4>1. k \in 1..C /\ w[k] = s[n]
        BY <2>1, <2>2
      <4>2. k \in 1..n => k = n
        BY <2>3, <4>1, <1>2, <3>1 DEF Distinct
      <4>3. k \in 1..n \/ n < k
        BY <4>1, <1>2, <1>4
      <4>4. k \in Nat
        BY <4>1
      <4> HIDE DEF ends, n
      <4> QED
        BY <4>2, <4>3, <4>4, <1>2
    <3> QED
      BY <2>1, <2>2, <2>3, <3>1, <3>2
  <2>5. Min(ends) = n
    <3> HIDE DEF ends
    <3>1. ends # {}
      BY <2>4
    <3>2. Min(ends) \in ends /\ Min(ends) <= n
      BY <2>4, <3>1, LeastExists
    <3>3. Min(ends) \in Nat /\ n <= Min(ends)
      BY <2>4, <3>2
    <3> QED
      BY <1>2, <3>2, <3>3
  <2>6. Content = SubSeq(w, 1, n)
    <3>1. ends # {}
      BY <2>4
    <3> QED
      BY <2>1, <2>5, <3>1, Zenon DEF Content, w
  <2>7. SubSeq(w, 1, n) = [k \in 1..n |-> s[k]]
    <3>1. SubSeq(w, 1, n) = [k \in 1..n |-> w[k]]
      BY <1>2
    <3> QED
      BY <2>3, <3>1
  <2> QED
    BY <1>2, <2>6, <2>7
<1> QED
  BY <1>2, <1>5, <1>6

\* The same after a step.
LEMMA RingAfter ==
    ASSUME NEW s, Ring(Now', s)
    PROVE  Content' = s /\ Ring(Now', Content')
<1>1. WalkMeetsAll'
  BY WalkRing, PTL
<1>2. s \in Seq(Nodes)
  BY DEF Ring
<1>3. Content' = s
  BY <1>1, <1>2, Zenon DEF WalkMeetsAll
<1> QED
  BY <1>3

LEMMA WithoutType ==
    ASSUME NEW s \in Seq(Nodes), NEW k \in 0..Len(s), NEW j \in 0..(Len(s) - k)
    PROVE  /\ Without(s, k, j) \in Seq(Nodes)
           /\ Len(Without(s, k, j)) = Len(s) - j
           /\ \A i \in 1..(Len(s) - j) : Without(s, k, j)[i] = IF i <= k THEN s[i] ELSE s[i + j]
<1> DEFINE n == Len(s)
           w == Without(s, k, j)
<1>1. n \in Nat /\ s \in [1..n -> Nodes] /\ n - j \in Nat
  OBVIOUS
<1>2. ASSUME NEW i \in 1..(n - j)
      PROVE  (IF i <= k THEN s[i] ELSE s[i + j]) \in Nodes
  BY <1>1
<1>3. w \in [1..(n - j) -> Nodes]
  BY <1>2 DEF Without
<1> QED
  BY <1>1, <1>3 DEF Without

\* A block of neighbours is taken out one after the other.
LEMMA CutBlock ==
    ASSUME NEW r, NEW s, Ring(r, s), Null \notin Nodes, NEW k \in 0..Len(s), NEW m \in k..Len(s)
    PROVE  Ring(FoldLeft(Cut, r, SubSeq(s, k + 1, m)), Without(s, k, m - k))
<1> DEFINE n == Len(s)
           t == SubSeq(s, k + 1, m)
<1>1. r \in Rings /\ s \in Seq(Nodes)
  BY DEF Ring
<1>2. n \in Nat /\ s \in [1..n -> Nodes] /\ m \in Nat /\ m <= n
  BY <1>1
<1>3. t \in Seq(Nodes) /\ Len(t) = m - k /\ \A j \in 1..(m - k) : t[j] = s[k + j]
  BY <1>1, <1>2
<1>4. PICK g : /\ g[0] = r
               /\ \A j \in 1..(m - k) : g[j] = Cut(g[j - 1], t[j])
               /\ FoldLeft(Cut, r, t) = g[m - k]
  <2> HIDE DEF t
  <2>1. \E g : /\ g[0] = r
               /\ \A j \in 1..Len(t) : g[j] = Cut(g[j - 1], t[j])
               /\ FoldLeft(Cut, r, t) = g[Len(t)]
    BY <1>1, <1>3, CutFold, Zenon
  <2> QED
    BY <1>3, <2>1, Zenon
<1>w. ASSUME NEW j \in 0..(n - k)
      PROVE  /\ Without(s, k, j) \in Seq(Nodes) /\ Len(Without(s, k, j)) = n - j
             /\ \A i \in 1..(n - j) : Without(s, k, j)[i] = IF i <= k THEN s[i] ELSE s[i + j]
  BY <1>1, WithoutType
<1> DEFINE Kept(j) == Ring(g[j], Without(s, k, j))
           Good == {j \in Nat : j <= m - k => Kept(j)}
<1>5. Kept(0)
  <2>1. Without(s, k, 0) = s
    <3>0. 0 \in 0..(n - k) /\ n - 0 = n /\ \A i \in 1..n : i + 0 = i
      BY <1>2
    <3>1. Len(Without(s, k, 0)) = n /\ Without(s, k, 0) \in Seq(Nodes)
      BY <1>w, <3>0
    <3>2. \A i \in 1..n : Without(s, k, 0)[i] = s[i]
      BY <1>w, <3>0, ZenonT(40)
    <3> QED
      BY <1>1, <3>1, <3>2, SeqEqual
  <2> QED
    BY <1>4, <2>1
<1>6. ASSUME NEW j \in Nat, j + 1 <= m - k, Kept(j)
      PROVE  Kept(j + 1)
  <2> DEFINE w == Without(s, k, j)
  <2>0. /\ j \in 0..(n - k) /\ j + 1 \in 0..(n - k) /\ n - (j + 1) = (n - j) - 1
        /\ k + 1 \in 1..(n - j) /\ ~(k + 1 <= k) /\ n - j \in Nat
    BY <1>2, <1>6
  <2>1. w \in Seq(Nodes) /\ Len(w) = n - j /\ k + 1 \in 1..Len(w) /\ w[k + 1] = s[k + 1 + j]
    BY <1>w, <2>0
  <2>2. g[j + 1] = Cut(g[j], w[k + 1])
    <3>1. j + 1 \in 1..(m - k) /\ (j + 1) - 1 = j /\ k + (j + 1) = k + 1 + j
      BY <1>2, <1>6
    <3>2. t[j + 1] = s[k + 1 + j]
      BY <1>3, <3>1
    <3>3. g[j + 1] = Cut(g[j], t[j + 1])
      BY <1>4, <3>1
    <3> QED
      BY <2>1, <3>2, <3>3
  <2>3. Ring(Cut(g[j], w[k + 1]), Without(w, k + 1 - 1, 1))
    <3> HIDE DEF w
    <3>1. Ring(g[j], w)
      BY <1>6 DEF w
    <3> QED
      BY <2>1, <3>1, CutRing
  <2>4. k + 1 - 1 = k
    BY <1>2
  <2>5. Without(w, k, 1) = Without(s, k, j + 1)
    <3> DEFINE x == Without(w, k, 1)
               y == Without(s, k, j + 1)
    <3>1. /\ y \in Seq(Nodes) /\ Len(y) = n - (j + 1)
          /\ \A i \in 1..(n - (j + 1)) : y[i] = IF i <= k THEN s[i] ELSE s[i + (j + 1)]
      BY <1>w, <2>0
    <3>2. /\ x \in Seq(Nodes) /\ Len(x) = (n - j) - 1
          /\ \A i \in 1..((n - j) - 1) : x[i] = IF i <= k THEN w[i] ELSE w[i + 1]
      <4>1. k \in 0..Len(w) /\ 1 \in 0..(Len(w) - k)
        BY <1>2, <2>0, <2>1
      <4> HIDE DEF w
      <4>2. /\ x \in Seq(Nodes) /\ Len(x) = Len(w) - 1
            /\ \A i \in 1..(Len(w) - 1) : x[i] = IF i <= k THEN w[i] ELSE w[i + 1]
        BY <2>1, <4>1, WithoutType
      <4> HIDE DEF x
      <4> QED
        BY <2>1, <4>2
    <3>3. \A i \in 1..(n - j) : w[i] = IF i <= k THEN s[i] ELSE s[i + j]
      BY <1>w, <2>0
    <3> HIDE DEF x, y, w
    <3>4. ASSUME NEW i \in 1..(n - (j + 1))
          PROVE  x[i] = y[i]
      <4>1. i \in 1..(n - j) /\ i + 1 \in 1..(n - j) /\ (i + 1) + j = i + (j + 1)
        BY <1>2
      <4>2. i > k => ~(i + 1 <= k)
        BY <1>2
      <4>3. CASE i <= k
        BY <1>2, <3>1, <3>2, <3>3, <4>1, <4>3
      <4>4. CASE ~(i <= k)
        <5>1. x[i] = w[i + 1]
          BY <1>2, <3>2, <4>4
        <5>2. w[i + 1] = s[(i + 1) + j]
          BY <1>2, <3>3, <4>1, <4>4
        <5>3. y[i] = s[i + (j + 1)]
          BY <3>1, <4>4
        <5> QED
          BY <4>1, <5>1, <5>2, <5>3
      <4> QED
        BY <4>3, <4>4
    <3> QED
      BY <1>2, <3>1, <3>2, <3>4, SeqEqual, SMTT(30) DEF x, y
  <2> QED
    BY <2>2, <2>3, <2>4, <2>5
<1> HIDE DEF Kept
<1>7. 0 \in Good /\ \A j \in Nat : j \in Good => j + 1 \in Good
  <2>1. ASSUME NEW j \in Nat, j \in Good, j + 1 <= m - k
        PROVE  Kept(j + 1)
    <3>1. j <= m - k
      BY <1>2, <2>1
    <3> QED
      BY <1>6, <2>1, <3>1
  <2> QED
    BY <1>5, <2>1
<1>8. m - k \in Good /\ m - k \in Nat
  <2> HIDE DEF Good
  <2>1. m - k \in Nat
    BY <1>2
  <2> QED
    BY <1>7, <2>1, Induction
<1>9. Kept(m - k)
  BY <1>8
<1> QED
  BY <1>4, <1>9 DEF Kept

-----------------------------------------------------------------------------
(* What each operation does to the queue                                    *)

\* Lengths are numbers up to the largest.
LEMMA LengthBound ==
    /\ Max(Lens \cup {1}) \in Nat
    /\ \A n \in Lens \cup {1} : n \in 0..Max(Lens \cup {1})
<1>1. Lens \cup {1} \in SUBSET Nat
  BY BuffQueueAssumption DEF BuffQueueAssumption
<1>2. PICK x \in Lens \cup {1} : \A m \in Lens \cup {1} : x >= m
  BY BuffQueueAssumption DEF BuffQueueAssumption
<1>3. Max(Lens \cup {1}) = x
  BY <1>1, <1>2, MaxIs, Zenon
<1> QED
  BY <1>1, <1>2, <1>3

LEMMA NullApart == Null \notin Nodes
BY BuffQueueAssumption DEF BuffQueueAssumption

LEMMA AddRing ==
    ASSUME NEW b \in Nodes, NEW n, Ring(Now, Content), b \notin ToSet(Content), AddBuf(b, n)
    PROVE  Ring(Now', Content') /\ Content' = Append(Content, b)
<1>1. Now' = Linked(Now, b)
  BY DEF AddBuf, sync, LinkedBack, Linked, Now
<1>2. Content \in Seq(Nodes)
  BY DEF Ring
<1>3. \A j \in 1..Len(Content) : Content[j] # b
  BY <1>2 DEF ToSet
<1>4. Ring(Linked(Now, b), Append(Content, b))
  BY <1>3, NullApart, LinkRing
<1> QED
  BY <1>1, <1>4, RingAfter

LEMMA UnlinkedRing ==
    ASSUME Ring(Now, Content), Unlinked
    PROVE  /\ Ring(Now', Content')
           /\ head = Null => Len(Content) = 0 /\ Content' = Content
           /\ head # Null => /\ Len(Content) > 0 /\ head = Content[1]
                             /\ Content' = Without(Content, 0, 1)
<1> DEFINE s == Content
           n == Len(s)
<1>1. s \in Seq(Nodes) /\ n \in Nat /\ s \in [1..n -> Nodes]
  BY DEF Ring
<1>2. CASE n = 0
  <2>1. head = Null /\ tail = Null
    BY <1>2 DEF Ring, Now
  <2>2. Now' = Now
    BY <2>1 DEF Unlinked, FirstOne, Now
  <2>3. Ring(Now', s)
    BY <2>2
  <2> QED
    BY <1>2, <2>1, <2>3, RingAfter
<1>3. CASE n > 0
  <2>1. head = s[1] /\ tail = s[n] /\ 1 \in 1..n
    BY <1>1, <1>3 DEF Ring, Now
  <2>2. head # Null /\ head \in Nodes
    BY <1>1, <2>1, NullApart
  <2>3. Now' = Cut(Now, s[1])
    <3>1. CASE head = tail
      BY <2>1, <3>1 DEF Unlinked, FirstOne, Now, Cut
    <3>2. CASE head # tail
      <4>1. /\ head' = next[head] /\ tail' = tail
            /\ prev' = [[prev EXCEPT ![next[head]] = prev[head]] EXCEPT ![head] = Null]
            /\ next' = [[next EXCEPT ![prev[head]] = next[head]] EXCEPT ![head] = Null]
        BY <3>2 DEF Unlinked, FirstOne
      <4> QED
        BY <2>1, <3>2, <4>1 DEF Now, Cut
    <3> QED
      BY <3>1, <3>2
  <2>4. Ring(Cut(Now, s[1]), Without(s, 1 - 1, 1))
    BY <2>1, NullApart, CutRing
  <2>5. 1 - 1 = 0
    OBVIOUS
  <2>6. Ring(Now', Without(s, 0, 1))
    BY <2>3, <2>4, <2>5
  <2> QED
    BY <1>3, <2>1, <2>2, <2>6, RingAfter
<1> QED
  BY <1>1, <1>2, <1>3

\* The buffers from k + 1 to m leave.
LEMMA CutAllRing ==
    ASSUME Ring(Now, Content), NEW k \in 0..Len(Content), NEW m \in k..Len(Content),
           CutAll(SubSeq(Content, k + 1, m))
    PROVE  Ring(Now', Content') /\ Content' = Without(Content, k, m - k)
<1> DEFINE r == FoldLeft(Cut, Now, SubSeq(Content, k + 1, m))
<1>1. Ring(r, Without(Content, k, m - k))
  BY NullApart, CutBlock
<1>2. r \in Rings
  BY <1>1 DEF Ring
<1>3. head' = r.head /\ tail' = r.tail /\ next' = r.next /\ prev' = r.prev
  BY Zenon DEF CutAll, Now
<1> HIDE DEF r
<1>4. Now' = r
  BY <1>2, <1>3 DEF Now, Rings
<1> QED
  BY <1>1, <1>4, RingAfter

\* buf_get_total_len of the first buffers: each adds its length to those before it.
LEMMA PrefixBytes ==
    ASSUME len \in [Nodes -> Nat], NEW s \in Seq(Nodes)
    PROVE  \E g : /\ SumsOf(g, [k \in 1..Len(s) |-> len[s[k]]], Len(s))
                  /\ \A k \in 0..Len(s) : g[k] \in Nat /\ BytesIn(SubSeq(s, 1, k)) = g[k]
                  /\ BytesIn(s) = g[Len(s)]
<1> DEFINE n == Len(s)
           v == [k \in 1..n |-> len[s[k]]]
<1>1. n \in Nat /\ s \in [1..n -> Nodes] /\ v \in [1..n -> Nat]
  OBVIOUS
<1>2. \E g : SumsOf(g, v, n)
  <2> HIDE DEF v, n
  <2>1. PICK h : Adds(h, v, n)
    BY <1>1, SumExists
  <2> DEFINE w == [k \in 0..n |-> h[1..k]]
  <2>2. h[{}] = 0 /\ \A S \in SUBSET (1..n) : S # {} => h[S] = h[S \ {Max(S)}] + v[Max(S)]
    <3>1. h[{}] = IF {} = {} THEN 0 ELSE h[{} \ {Max({})}] + v[Max({})]
      BY <2>1, Zenon DEF Adds
    <3> QED
      BY <2>1, <3>1, Zenon DEF Adds
  <2>3. w[0] = 0
    <3>1. 1..0 = {}
      OBVIOUS
    <3> QED
      BY <3>1, <2>2, <1>1
  <2>4. ASSUME NEW k \in 1..n
        PROVE  w[k] = w[k - 1] + v[k]
    <3>1. w[k] = h[1..k] /\ w[k - 1] = h[1..(k - 1)]
      BY <1>1
    <3>2. /\ Max(1..k) = k /\ (1..k) \ {k} = 1..(k - 1)
          /\ 1..k # {} /\ 1..k \in SUBSET (1..n)
      BY <1>1, Segments
    <3>3. h[1..k] = h[(1..k) \ {Max(1..k)}] + v[Max(1..k)]
      BY <2>2, <3>2, Zenon
    <3> QED
      BY <3>1, <3>2, <3>3
  <2>5. SumsOf(w, v, n)
    BY <2>3, <2>4 DEF SumsOf
  <2> QED
    BY <2>5, Zenon
<1>3. PICK g : SumsOf(g, v, n)
  BY <1>2
<1>4. \A k \in 0..n : g[k] \in Nat
  <2> HIDE DEF v, n
  <2> QED
    BY <1>1, <1>3, SumsAgree
<1>5. ASSUME NEW k \in 0..n
      PROVE  BytesIn(SubSeq(s, 1, k)) = g[k]
  <2> DEFINE p == SubSeq(s, 1, k)
             u == [j \in 1..Len(p) |-> len[p[j]]]
  <2>1. p \in Seq(Nodes) /\ Len(p) = k /\ \A j \in 1..k : p[j] = s[j]
    BY <1>1
  <2>2. \A j \in 1..k : u[j] = v[j]
    BY <1>1, <2>1
  <2>3. SumsOf(g, u, Len(p))
    <3>1. \A j \in 1..k : j \in 1..n
      BY <1>1
    <3> HIDE DEF u, p, v
    <3> QED
      BY <1>3, <2>1, <2>2, <3>1 DEF SumsOf
  <2> HIDE DEF p
  <2>4. BytesIn(p) = g[Len(p)]
    BY <2>1, <2>3, BytesAdd
  <2> QED
    BY <2>1, <2>4 DEF p
<1>6. BytesIn(s) = g[n]
  BY <1>3, BytesAdd
<1> QED
  BY <1>3, <1>4, <1>5, <1>6

-----------------------------------------------------------------------------
(* The invariant                                                            *)

Types ==
    /\ pc \in [Removers -> {"idle", "check", "locked", "drain", "drain_locked", "init", "enter", "peek"}]
    /\ node \in [Removers -> Pointer]
    /\ cs \in Senders \cup {Null}
    /\ section \in {"none", "ready", "reset"} /\ broken \in BOOLEAN
    /\ mine \in [Holders -> SUBSET Nodes]
    /\ spare \subseteq Nodes
    /\ users \in Kinds
    /\ len \in [Nodes -> 0..Max(Lens \cup {1})]

\* A buffer is with the pool, in the queue or with one thread.
Apart ==
    /\ spare \cap ToSet(Content) = {}
    /\ \A t \in Holders : mine[t] \cap (spare \cup ToSet(Content)) = {}
    /\ \A t, u \in Holders : t # u => mine[t] \cap mine[u] = {}
    /\ \A b \in Nodes : b \in spare \cup ToSet(Content) \/ \E t \in Holders : b \in mine[t]

\* Threads are at places of their kind, and only users of the queue are at any.
Places ==
    /\ \A t \in Removers : pc[t] # "idle" => t \in users
    /\ \A t \in Takers : pc[t] \notin {"init", "enter", "peek"}
    /\ \A t \in Senders : pc[t] \notin {"drain", "drain_locked"}

\* Where a sender is inside the critical section.
Inside == {"peek", "check", "locked"}

\* A sender between its look at the first buffer and its removal is alone, and what
\* it looked at still is the first, unless the critical section was initialised under it.
Sending ==
    /\ broken => section = "reset"
    /\ section = "none" => \A t \in Senders : pc[t] \in {"idle", "init"}
    /\ \A t \in Senders : pc[t] \in {"check", "locked"} => node[t] \in Nodes
    /\ section # "reset" =>
          \A t \in Senders :
             /\ cs = t <=> pc[t] \in Inside
             /\ pc[t] \in {"check", "locked"} => node[t] = head /\ head # Null

QueueInv == Ring(Now, Content) /\ Types /\ (~broken => Apart) /\ Places /\ Sending

-----------------------------------------------------------------------------
(* Where the buffers go                                                     *)

LEMMA ElementsAppend ==
    ASSUME NEW s \in Seq(Nodes), NEW b \in Nodes
    PROVE  ToSet(Append(s, b)) = ToSet(s) \cup {b}
<1> DEFINE n == Len(s)
           a == Append(s, b)
<1>1. n \in Nat /\ DOMAIN s = 1..n
  OBVIOUS
<1>2. DOMAIN a = 1..(n + 1) /\ (\A j \in 1..n : a[j] = s[j]) /\ a[n + 1] = b
  OBVIOUS
<1>3. 1..(n + 1) = (1..n) \cup {n + 1}
  BY <1>1
<1> HIDE DEF a, n
<1> QED
  BY <1>1, <1>2, <1>3 DEF ToSet, a

\* Buffers that leave are no longer in the queue, the others still are.
LEMMA ElementsWithout ==
    ASSUME NEW s \in Seq(Nodes), Distinct(s), NEW k \in 0..Len(s), NEW j \in 0..(Len(s) - k)
    PROVE  /\ ToSet(Without(s, k, j)) = ToSet(s) \ ToSet(SubSeq(s, k + 1, k + j))
           /\ ToSet(SubSeq(s, k + 1, k + j)) \subseteq ToSet(s)
           /\ ToSet(s) \subseteq Nodes
<1> DEFINE n == Len(s)
           w == Without(s, k, j)
           p == SubSeq(s, k + 1, k + j)
<1>1. n \in Nat /\ DOMAIN s = 1..n /\ s \in [1..n -> Nodes]
  OBVIOUS
<1>2. DOMAIN w = 1..(n - j) /\ \A i \in 1..(n - j) : w[i] = IF i <= k THEN s[i] ELSE s[i + j]
  BY <1>1 DEF Without
<1>3. DOMAIN p = 1..j /\ \A i \in 1..j : p[i] = s[k + i]
  BY <1>1
<1>4. ToSet(p) = {s[i] : i \in (k + 1)..(k + j)}
  <2>1. ASSUME NEW i \in (k + 1)..(k + j)
        PROVE  i - k \in 1..j /\ p[i - k] = s[i]
    <3>1. i - k \in 1..j /\ k + (i - k) = i
      OBVIOUS
    <3> QED
      BY <1>3, <3>1
  <2>2. ASSUME NEW i \in 1..j
        PROVE  k + i \in (k + 1)..(k + j)
    OBVIOUS
  <2> HIDE DEF p
  <2>3. ToSet(p) = {p[i] : i \in 1..j}
    BY <1>3, Zenon DEF ToSet
  <2> QED
    BY <1>3, <2>1, <2>2, <2>3
<1>5. ToSet(w) = {s[i] : i \in (1..n) \ ((k + 1)..(k + j))}
  <2>1. ASSUME NEW i \in (1..n) \ ((k + 1)..(k + j))
        PROVE  \E x \in 1..(n - j) : w[x] = s[i]
    <3>1. CASE i <= k
      <4>1. i \in 1..(n - j)
        BY <1>1, <3>1
      <4> QED
        BY <1>2, <3>1, <4>1
    <3>2. CASE i > k
      <4>1. i - j \in 1..(n - j) /\ ~(i - j <= k) /\ (i - j) + j = i
        BY <1>1, <3>2
      <4> QED
        BY <1>2, <4>1
    <3> QED
      BY <1>1, <3>1, <3>2
  <2>2. ASSUME NEW x \in 1..(n - j)
        PROVE  \E i \in (1..n) \ ((k + 1)..(k + j)) : w[x] = s[i]
    <3>1. CASE x <= k
      <4>1. x \in (1..n) \ ((k + 1)..(k + j))
        BY <1>1, <3>1
      <4> QED
        BY <1>2, <3>1, <4>1
    <3>2. CASE x > k
      <4>1. x + j \in (1..n) \ ((k + 1)..(k + j)) /\ ~(x <= k)
        BY <1>1, <3>2
      <4> QED
        BY <1>2, <4>1
    <3> QED
      BY <1>1, <3>1, <3>2
  <2> HIDE DEF w
  <2>3. ToSet(w) = {w[x] : x \in 1..(n - j)}
    BY <1>2, Zenon DEF ToSet
  <2> DEFINE I == (1..n) \ ((k + 1)..(k + j))
             X == 1..(n - j)
  <2>4. /\ \A i \in I : \E x \in X : w[x] = s[i]
        /\ \A x \in X : \E i \in I : w[x] = s[i]
    BY <2>1, <2>2
  <2> HIDE DEF I, X
  <2>5. {w[x] : x \in X} = {s[i] : i \in I}
    <3>1. ASSUME NEW x \in X
          PROVE  w[x] \in {s[i] : i \in I}
      <4>1. PICK i \in I : w[x] = s[i]
        BY <2>4
      <4> QED
        BY <4>1
    <3>2. ASSUME NEW i \in I
          PROVE  s[i] \in {w[x] : x \in X}
      <4>1. PICK x \in X : w[x] = s[i]
        BY <2>4
      <4> QED
        BY <4>1
    <3> QED
      BY <3>1, <3>2
  <2> QED
    BY <2>3, <2>5 DEF I, X
<1>6. ToSet(s) = {s[i] : i \in 1..n} /\ (k + 1)..(k + j) \in SUBSET (1..n)
  BY <1>1 DEF ToSet
<1>7. \A i, x \in 1..n : s[i] = s[x] => i = x
  BY DEF Distinct
<1> HIDE DEF n, w, p
<1> QED
  BY <1>1, <1>4, <1>5, <1>6, <1>7 DEF w, p

\* In particular when one buffer leaves.
LEMMA ElementsWithoutOne ==
    ASSUME NEW s \in Seq(Nodes), Distinct(s), NEW i \in 1..Len(s)
    PROVE  /\ ToSet(Without(s, i - 1, 1)) = ToSet(s) \ {s[i]}
           /\ s[i] \in ToSet(s) /\ ToSet(s) \subseteq Nodes
           /\ SubSeq(s, i, i) = <<s[i]>>
<1>1. i - 1 \in 0..Len(s) /\ 1 \in 0..(Len(s) - (i - 1)) /\ (i - 1) + 1 = i
  OBVIOUS
<1>2. SubSeq(s, i, i) = <<s[i]>>
  <2>1. SubSeq(s, i, i) \in Seq(Nodes) /\ Len(SubSeq(s, i, i)) = 1 /\ SubSeq(s, i, i)[1] = s[i]
    OBVIOUS
  <2>2. s[i] \in Nodes /\ <<s[i]>> \in Seq(Nodes) /\ Len(<<s[i]>>) = 1
    OBVIOUS
  <2>3. \A j \in 1..Len(SubSeq(s, i, i)) : SubSeq(s, i, i)[j] = <<s[i]>>[j]
    BY <2>1
  <2> QED
    BY <2>1, <2>2, <2>3, SeqEqual
<1>3. ToSet(<<s[i]>>) = {s[i]}
  BY DEF ToSet
<1>4. ToSet(Without(s, i - 1, 1)) = ToSet(s) \ ToSet(SubSeq(s, (i - 1) + 1, (i - 1) + 1)) /\ ToSet(s) \subseteq Nodes
  BY <1>1, ElementsWithout
<1>5. s[i] \in ToSet(s)
  BY DEF ToSet
<1> QED
  BY <1>1, <1>2, <1>3, <1>4, <1>5

\* All users of a queue are of one kind.
LEMMA OneKind ==
    ASSUME users \in Kinds, NEW t \in users, NEW u \in users
    PROVE  /\ t \in Takers => u \in Takers /\ u \notin Senders
           /\ t \in Senders => u \in Senders /\ u \notin Takers
           /\ t \in Owners => u \in Owners /\ u \notin Removers
BY BuffQueueAssumption DEF BuffQueueAssumption, Kinds, Removers

\* Buffers b of the queue go to the pool.
LEMMA ApartFreed ==
    ASSUME Apart, Types, NEW B \in SUBSET ToSet(Content), ToSet(Content) \subseteq Nodes,
           ToSet(Content') = ToSet(Content) \ B, spare' = spare \cup B, mine' = mine
    PROVE  Apart'
<1>1. spare' \cup ToSet(Content)' = spare \cup ToSet(Content)
  OBVIOUS
<1> QED
  BY <1>1 DEF Apart

\* A buffer of the queue goes to the thread t.
LEMMA ApartTaken ==
    ASSUME Apart, Types, NEW b \in ToSet(Content), ToSet(Content) \subseteq Nodes,
           ToSet(Content') = ToSet(Content) \ {b}, spare' = spare,
           NEW t \in Holders, mine' = [mine EXCEPT ![t] = @ \cup {b}]
    PROVE  Apart'
<1>1. \A u \in Holders : mine'[u] = IF u = t THEN mine[u] \cup {b} ELSE mine[u]
  BY DEF Types
<1>2. b \notin spare /\ \A u \in Holders : b \notin mine[u]
  BY DEF Apart
<1> QED
  BY <1>1, <1>2 DEF Apart

-----------------------------------------------------------------------------
(* What an owner's operations leave                                         *)

LEMMA RemoveNodeLeaves ==
    ASSUME Ring(Now, Content), NEW t, NEW b, RemoveNode(t, b)
    PROVE  /\ Ring(Now', Content')
           /\ \E i \in 1..Len(Content) : b = Content[i] /\ Content' = Without(Content, i - 1, 1)
<1>1. Content \in Seq(Nodes) /\ Distinct(Content)
  BY DEF Ring
<1>2. PICK i \in 1..Len(Content) : b = Content[i]
  BY <1>1 DEF RemoveNode, sync, ToSet
<1>3. i - 1 \in 0..Len(Content) /\ i \in (i - 1)..Len(Content) /\ (i - 1) + 1 = i /\ i - (i - 1) = 1
  BY <1>1, <1>2
<1>4. SubSeq(Content, i, i) = <<b>>
  BY <1>1, <1>2, ElementsWithoutOne
<1>5. CutAll(SubSeq(Content, (i - 1) + 1, i))
  BY <1>3, <1>4 DEF RemoveNode, sync
<1>6. Ring(Now', Content') /\ Content' = Without(Content, i - 1, i - (i - 1))
  BY <1>3, <1>5, CutAllRing
<1> QED
  BY <1>2, <1>3, <1>6

LEMMA DecreaseLeaves ==
    ASSUME Ring(Now, Content), len \in [Nodes -> Nat], NEW t, NEW final \in Nat, DecreaseToLen(t, final)
    PROVE  /\ Ring(Now', Content')
           /\ \E k \in 0..Len(Content), m \in Nat :
                 /\ Content' = Without(Content, k, Len(Content) - k)
                 /\ spare' = spare \cup ToSet(SubSeq(Content, k + 1, Len(Content)))
                 /\ k = 0 => final = 0 /\ len' = len
                 /\ k > 0 => /\ BytesIn(SubSeq(Content, 1, k - 1)) + m = final
                             /\ BytesIn(SubSeq(Content, 1, k - 1)) \in Nat
                             /\ m <= len[Content[k]]
                             /\ len' = [len EXCEPT ![Content[k]] = m]
<1> DEFINE s == Content
           n == Len(s)
           J == {j \in 1..n : BytesIn(SubSeq(s, 1, j)) >= final}
           k == IF final = 0 THEN 0 ELSE Min(J)
           rest == SubSeq(s, k + 1, n)
<1>1. s \in Seq(Nodes) /\ n \in Nat /\ s \in [1..n -> Nodes]
  BY DEF Ring
<1>2. PICK g : /\ SumsOf(g, [j \in 1..n |-> len[s[j]]], n)
               /\ \A j \in 0..n : g[j] \in Nat /\ BytesIn(SubSeq(s, 1, j)) = g[j]
               /\ BytesIn(s) = g[n]
  BY <1>1, PrefixBytes
<1>3. g[0] = 0 /\ \A j \in 1..n : g[j] = g[j - 1] + len[s[j]]
  BY <1>2 DEF SumsOf
<1>4. /\ CutAll(rest)
      /\ spare' = spare \cup ToSet(rest)
      /\ len' = IF k = 0 THEN len ELSE [len EXCEPT ![s[k]] = final - BytesIn(SubSeq(s, 1, k - 1))]
      /\ final < BytesIn(s)
  BY Zenon DEF DecreaseToLen, sync
<1>5. final # 0 => /\ k \in 1..n /\ g[k] >= final
                   /\ k - 1 \in 0..n /\ g[k - 1] < final
  <2> SUFFICES ASSUME final # 0
               PROVE  /\ k \in 1..n /\ g[k] >= final
                      /\ k - 1 \in 0..n /\ g[k - 1] < final
    OBVIOUS
  <2>1. final < g[n] /\ g[n] \in Nat /\ n \in 0..n
    BY <1>1, <1>2, <1>4
  <2>2. n # 0
    BY <1>3, <2>1
  <2>3. J \in SUBSET Nat /\ n \in J /\ J # {}
    <3>1. BytesIn(SubSeq(s, 1, n)) >= final
      BY <1>2, <2>1
    <3>2. n \in 1..n
      BY <1>1, <2>2
    <3> QED
      BY <3>1, <3>2
  <2>4. k = Min(J)
    OBVIOUS
  <2>5. k \in J /\ \A j \in J : k <= j
    <3> HIDE DEF J, k
    <3> QED
      BY <2>3, <2>4, LeastExists
  <2> HIDE DEF k
  <2>6. k \in 1..n /\ g[k] >= final
    BY <1>2, <2>5
  <2>7. k - 1 \in 0..n
    BY <2>6
  <2>8. g[k - 1] < final
    <3>1. CASE k = 1
      BY <1>3, <3>1
    <3>2. CASE k # 1
      <4>1. k - 1 \in 1..n
        BY <2>6, <3>2
      <4>2. k - 1 \notin J
        BY <2>5, <2>6
      <4>3. ~(g[k - 1] >= final) /\ g[k - 1] \in Nat
        BY <1>2, <2>7, <4>1, <4>2
      <4> QED
        BY <4>3
    <3> QED
      BY <3>1, <3>2
  <2> QED
    BY <2>6, <2>7, <2>8
<1>6. k \in 0..n /\ n \in k..n
  BY <1>1, <1>5
<1> DEFINE m == IF k = 0 THEN 0 ELSE final - g[k - 1]
<1>7. /\ m \in Nat
      /\ k = 0 => final = 0
      /\ k > 0 => /\ BytesIn(SubSeq(s, 1, k - 1)) = g[k - 1] /\ g[k - 1] \in Nat
                  /\ g[k - 1] + m = final /\ m <= len[s[k]]
  <2>1. k > 0 => final # 0
    OBVIOUS
  <2>2. final # 0 => k > 0
    BY <1>5
  <2>3. k > 0 => /\ BytesIn(SubSeq(s, 1, k - 1)) = g[k - 1] /\ g[k - 1] \in Nat
                 /\ g[k] = g[k - 1] + len[s[k]] /\ len[s[k]] \in Nat
    BY <1>1, <1>2, <1>3, <1>5, <2>1
  <2> HIDE DEF k
  <2> QED
    BY <1>5, <1>6, <2>1, <2>2, <2>3
<1> HIDE DEF k, m
<1>8. Ring(Now', Content') /\ Content' = Without(s, k, n - k)
  BY <1>4, <1>6, CutAllRing
<1>9. k = 0 => len' = len
  BY <1>4
<1>10. k > 0 => len' = [len EXCEPT ![s[k]] = m]
  <2>1. k > 0 => m = final - BytesIn(SubSeq(s, 1, k - 1)) /\ k # 0
    BY <1>7 DEF m
  <2> QED
    BY <1>4, <2>1
<1> QED
  BY <1>4, <1>6, <1>7, <1>8, <1>9, <1>10

LEMMA AccumulateLeaves ==
    ASSUME Ring(Now, Content), len \in [Nodes -> Nat], NEW t, NEW room \in Nat, Accumulate(t, room)
    PROVE  /\ Ring(Now', Content')
           /\ \E k \in 0..Len(Content) :
                 /\ Content' = Without(Content, 0, k)
                 /\ spare' = spare \cup ToSet(SubSeq(Content, 1, k))
                 /\ BytesIn(SubSeq(Content, 1, k)) <= room
                 /\ k < Len(Content) => ~(BytesIn(SubSeq(Content, 1, k + 1)) <= room)
<1> DEFINE s == Content
           n == Len(s)
           J == {j \in 0..n : BytesIn(SubSeq(s, 1, j)) <= room}
           k == Max(J)
<1>1. s \in Seq(Nodes) /\ n \in Nat
  BY DEF Ring
<1>2. CutAll(SubSeq(s, 1, k)) /\ spare' = spare \cup ToSet(SubSeq(s, 1, k))
  BY Zenon DEF Accumulate, sync
<1>3. BytesIn(SubSeq(s, 1, 0)) = 0
  <2>1. PICK g : g[0] = 0 /\ \A j \in 0..n : BytesIn(SubSeq(s, 1, j)) = g[j]
    BY <1>1, PrefixBytes DEF SumsOf
  <2>2. 0 \in 0..n
    BY <1>1
  <2> QED
    BY <2>1, <2>2
<1>4. J \in SUBSET (0..n) /\ 0 \in J
  BY <1>1, <1>3
<1>5. k \in J /\ \A j \in J : k >= j
  <2> HIDE DEF J
  <2>1. J # {}
    BY <1>4
  <2> QED
    BY <1>1, <1>4, <2>1, LargestExists, Zenon
<1> HIDE DEF k
<1>6. k \in 0..n /\ BytesIn(SubSeq(s, 1, k)) <= room
  BY <1>5
<1>7. ASSUME k < n
      PROVE  ~(BytesIn(SubSeq(s, 1, k + 1)) <= room)
  <2>1. k + 1 \in 0..n /\ ~(k >= k + 1)
    BY <1>1, <1>6, <1>7
  <2> QED
    BY <1>5, <2>1
<1>8. 0 \in 0..n /\ k \in 0..n /\ 0 + 1 = 1 /\ k - 0 = k
  BY <1>1, <1>6
<1>9. Ring(Now', Content') /\ Content' = Without(s, 0, k)
  <2>1. CutAll(SubSeq(s, 0 + 1, k))
    BY <1>2, <1>8
  <2>2. Ring(Now', Content') /\ Content' = Without(s, 0, k - 0)
    BY <1>8, <2>1, CutAllRing
  <2> QED
    BY <1>8, <2>2
<1> QED
  BY <1>2, <1>6, <1>7, <1>9

-----------------------------------------------------------------------------
(* The invariant is kept                                                    *)

LEMMA QueueInit == Init => QueueInv
<1> SUFFICES ASSUME Init
             PROVE  QueueInv
  OBVIOUS
<1>1. Ring(Now, <<>>)
  <2>1. Now \in Rings /\ Now.head = Null /\ Now.tail = Null
    BY DEF Init, Now, Rings, Pointer
  <2>2. <<>> \in Seq(Nodes) /\ Len(<<>>) = 0 /\ 1..Len(<<>>) = {}
    OBVIOUS
  <2> QED
    BY <2>1, <2>2 DEF Ring, Distinct
<1>2. Content = <<>>
  <2>1. <<>> \in Seq(Nodes)
    OBVIOUS
  <2> QED
    BY <1>1, <2>1, WalkRing, Zenon DEF WalkMeetsAll
<1>3. Ring(Now, Content)
  BY <1>1, <1>2
<1>4. ToSet(Content) = {}
  <2>1. DOMAIN Content = {}
    BY <1>2
  <2> QED
    BY <2>1 DEF ToSet
<1>5. Types
  <2>1. 0 \in 0..Max(Lens \cup {1})
    BY LengthBound
  <2> QED
    BY <2>1 DEF Init, Types, Pointer, Holders
<1>6. Apart
  BY <1>4 DEF Init, Apart
<1>7. Places /\ Sending
  <2>1. Null \notin Senders
    BY BuffQueueAssumption DEF BuffQueueAssumption
  <2> QED
    BY <2>1 DEF Init, Places, Sending, Removers, Inside
<1> QED
  BY <1>3, <1>5, <1>6, <1>7 DEF QueueInv

\* A step that leaves the pointers alone leaves the queue alone.
LEMMA RingStays ==
    ASSUME Ring(Now, Content), UNCHANGED ring
    PROVE  Ring(Now', Content') /\ Content' = Content /\ head' = head
<1>1. Now' = Now /\ head' = head
  BY DEF ring, Now
<1> QED
  BY <1>1, RingAfter

\* Facts about the kinds of threads.
LEMMA KindsApart ==
    /\ \A t \in Takers : t \notin Senders /\ t \in Removers /\ t \in Holders
    /\ \A t \in Senders : t \notin Takers /\ t \in Removers /\ t \notin Holders /\ t # Null
    /\ \A t \in Owners : t \notin Removers /\ t \in Holders
    /\ \A t \in Removers : t \in Takers \/ t \in Senders
    /\ \A t \in Holders : t \in Takers \/ t \in Owners
BY BuffQueueAssumption DEF BuffQueueAssumption, Removers, Holders

LEMMA AddNext ==
    ASSUME ~broken, QueueInv, NEW b \in Nodes, NEW n \in Lens \cup {1}, AddBuf(b, n)
    PROVE  QueueInv'
<1>1. Ring(Now, Content) /\ Types /\ Apart /\ Places /\ Sending
  BY DEF QueueInv
<1>2. b \in spare /\ b \notin ToSet(Content) /\ \A t \in Holders : b \notin mine[t]
  BY <1>1 DEF AddBuf, sync, Apart
<1>3. Ring(Now', Content') /\ Content' = Append(Content, b)
  BY <1>1, <1>2, AddRing
<1>4. ToSet(Content') = ToSet(Content) \cup {b}
  BY <1>1, <1>3, ElementsAppend DEF Ring
<1>5. Types'
  BY <1>1, LengthBound DEF AddBuf, sync, Types
<1>6. Apart'
  BY <1>1, <1>2, <1>4 DEF AddBuf, sync, Apart
<1>7. Places'
  BY <1>1 DEF AddBuf, sync, Places
<1>8. Sending'
  BY <1>1 DEF AddBuf, sync, Sending
<1> QED
  BY <1>3, <1>5, <1>6, <1>7, <1>8 DEF QueueInv

\* When a taker or an owner acts no sender does.
LEMMA NoneSends ==
    ASSUME QueueInv, NEW t \in users, t \in Takers \cup Owners, NEW u \in Senders
    PROVE  pc[u] = "idle"
<1>1. users \in Kinds /\ Places
  BY DEF QueueInv, Types
<1>2. \A v \in Senders : v \notin users
  BY <1>1, OneKind, KindsApart
<1>3. \A v \in Senders : pc[v] = "idle"
  BY <1>1, <1>2, KindsApart DEF Places
<1> QED
  BY <1>3

\* The steps that change neither the ring nor the pool.
LEMMA StartNext ==
    ASSUME ~broken, QueueInv, NEW t \in users \cap Removers, NEW place \in {"check", "drain"}, StartRemove(t, place)
    PROVE  QueueInv'
<1>1. Ring(Now, Content) /\ Types /\ Apart /\ Places /\ Sending
  BY DEF QueueInv
<1>2. Ring(Now', Content') /\ Content' = Content /\ head' = head
  BY <1>1, RingStays DEF StartRemove, sync
<1>3. t \in Takers /\ t \notin Senders /\ pc' = [pc EXCEPT ![t] = place]
  BY KindsApart DEF StartRemove, sync, GoTo
<1>4. Types'
  BY <1>1, <1>3 DEF StartRemove, sync, Types
<1>5. Apart'
  BY <1>1, <1>2 DEF StartRemove, sync, Apart
<1>6. Places'
  BY <1>1, <1>3, KindsApart DEF StartRemove, sync, Places, Types
<1>7. Sending'
  BY <1>1, <1>2, <1>3, KindsApart DEF StartRemove, sync, Sending, Types
<1> QED
  BY <1>2, <1>4, <1>5, <1>6, <1>7 DEF QueueInv

LEMMA CheckNext ==
    ASSUME ~broken, QueueInv, NEW t \in users \cap Removers, CheckHead(t)
    PROVE  QueueInv'
<1>1. Ring(Now, Content) /\ Types /\ Apart /\ Places /\ Sending
  BY DEF QueueInv
<1>2. Ring(Now', Content') /\ Content' = Content /\ head' = head
  BY <1>1, RingStays DEF CheckHead
<1>3. pc[t] \in {"check", "drain"} /\ t \in Removers /\ t \in users
  BY DEF CheckHead
<1>4. CASE head = Null /\ t \notin Senders
  <2>1. t \in Takers
    BY <1>3, <1>4, KindsApart
  <2>2. /\ pc' = [pc EXCEPT ![t] = "idle"]
        /\ UNCHANGED <<node, cs, section, broken, spare, len, mine, users>>
    BY <1>4 DEF CheckHead, GoTo, sync
  <2>3. Types'
    BY <1>1, <2>2 DEF Types
  <2>4. Apart'
    BY <1>1, <1>2, <2>2 DEF Apart
  <2>5. Places'
    BY <1>1, <1>3, <2>1, <2>2, KindsApart DEF Places, Types
  <2>6. Sending'
    BY <1>1, <1>2, <1>4, <2>2, KindsApart DEF Sending, Types
  <2> QED
    BY <1>2, <2>3, <2>4, <2>5, <2>6 DEF QueueInv
<1>5. CASE head = Null /\ t \in Senders
  <2>1. pc[t] = "check" /\ section = "reset" /\ node[t] \in Nodes
    BY <1>1, <1>3, <1>5 DEF Sending, Places
  <2>2. /\ pc' = [pc EXCEPT ![t] = "idle"] /\ node' = [node EXCEPT ![t] = Null] /\ cs' = Null
        /\ spare' = spare \cup {node[t]} /\ broken' = TRUE /\ UNCHANGED <<section, len, mine, users>>
    BY <1>5 DEF CheckHead, Leave, GoTo
  <2>3. Types'
    BY <1>1, <2>1, <2>2 DEF Types, Pointer
  <2>4. Places'
    BY <1>1, <1>3, <1>5, <2>2, KindsApart DEF Places, Types
  <2>5. Sending'
    BY <1>1, <1>3, <2>1, <2>2, KindsApart DEF Sending, Types
  <2> QED
    BY <1>2, <2>2, <2>3, <2>4, <2>5 DEF QueueInv
<1>6. CASE head # Null
  <2>1. /\ pc' = [pc EXCEPT ![t] = IF pc[t] = "check" THEN "locked" ELSE "drain_locked"]
        /\ UNCHANGED <<node, cs, section, broken, spare, len, mine, users>>
    BY <1>6 DEF CheckHead, GoTo, sync
  <2>2. t \in Senders => pc[t] = "check"
    BY <1>1, <1>3 DEF Places
  <2>3. Types'
    BY <1>1, <1>3, <2>1 DEF Types
  <2>4. Apart'
    BY <1>1, <1>2, <2>1 DEF Apart
  <2>5. Places'
    BY <1>1, <1>3, <2>1, <2>2, KindsApart DEF Places, Types
  <2>6. Sending'
    BY <1>1, <1>2, <1>3, <2>1, <2>2, KindsApart DEF Sending, Types, Inside
  <2> QED
    BY <1>2, <2>3, <2>4, <2>5, <2>6 DEF QueueInv
<1> QED
  BY <1>4, <1>5, <1>6

\* The elements when the first buffer leaves, if there is one.
LEMMA UnlinkedElements ==
    ASSUME Ring(Now, Content), Unlinked
    PROVE  /\ Ring(Now', Content')
           /\ ToSet(Content') = ToSet(Content) \ {head}
           /\ head # Null => head \in ToSet(Content)
           /\ ToSet(Content) \subseteq Nodes
<1>1. Content \in Seq(Nodes) /\ Distinct(Content)
  BY DEF Ring
<1>2. ToSet(Content) \subseteq Nodes
  BY <1>1 DEF ToSet
<1>3. CASE head = Null
  <2>1. Ring(Now', Content') /\ Content' = Content
    BY <1>3, UnlinkedRing
  <2> QED
    BY <1>2, <1>3, <2>1, NullApart
<1>4. CASE head # Null
  <2>1. /\ Ring(Now', Content') /\ Len(Content) > 0 /\ head = Content[1]
        /\ Content' = Without(Content, 0, 1)
    BY <1>4, UnlinkedRing
  <2>2. 1 \in 1..Len(Content) /\ 1 - 1 = 0
    BY <1>1, <2>1
  <2> QED
    BY <1>1, <1>2, <2>1, <2>2, ElementsWithoutOne
<1> QED
  BY <1>3, <1>4

LEMMA TakeNext ==
    ASSUME ~broken, QueueInv, NEW t \in users \cap Removers, TakeBuf(t)
    PROVE  QueueInv'
<1>1. Ring(Now, Content) /\ Types /\ Apart /\ Places /\ Sending
  BY DEF QueueInv
<1>2. t \in Takers /\ t \in Holders /\ t \notin Senders
  BY KindsApart DEF TakeBuf, sync
<1>3. /\ Ring(Now', Content')
      /\ ToSet(Content') = ToSet(Content) \ {head}
      /\ head # Null => head \in ToSet(Content)
      /\ ToSet(Content) \subseteq Nodes
  BY <1>1, UnlinkedElements DEF TakeBuf, sync
<1>4. /\ pc' = [pc EXCEPT ![t] = "idle"]
      /\ mine' = [mine EXCEPT ![t] = @ \cup ({head} \ {Null})]
      /\ UNCHANGED <<len, node, cs, section, broken, spare, users>>
  BY DEF TakeBuf, sync, GoTo, Taken, FirstOne
<1>5. Types'
  BY <1>1, <1>2, <1>3, <1>4 DEF Types
<1>6. Apart'
  <2>1. CASE head = Null
    <3>1. mine' = mine
      BY <1>1, <1>2, <1>4, <2>1 DEF Types
    <3>2. ToSet(Content') = ToSet(Content)
      BY <1>3, <2>1, NullApart
    <3> QED
      BY <1>1, <1>4, <3>1, <3>2 DEF Apart
  <2>2. CASE head # Null
    <3>1. {head} \ {Null} = {head}
      BY <2>2
    <3>2. mine' = [mine EXCEPT ![t] = @ \cup {head}]
      BY <1>4, <3>1
    <3> QED
      BY <1>1, <1>2, <1>3, <1>4, <2>2, <3>2, ApartTaken
  <2> QED
    BY <2>1, <2>2
<1>7. Places'
  BY <1>1, <1>4, KindsApart DEF Places, Types
<1>8. Sending'
  <2>1. \A u \in Senders : pc[u] = "idle"
    BY <1>2, NoneSends
  <2> QED
    BY <1>1, <1>2, <1>4, <2>1, KindsApart DEF Sending, Types
<1> QED
  BY <1>3, <1>5, <1>6, <1>7, <1>8 DEF QueueInv

LEMMA DrainNext ==
    ASSUME ~broken, QueueInv, NEW t \in users \cap Removers, DrainBuf(t)
    PROVE  QueueInv'
<1>1. Ring(Now, Content) /\ Types /\ Apart /\ Places /\ Sending
  BY DEF QueueInv
<1>2. t \in Takers /\ t \notin Senders /\ pc[t] = "drain_locked"
  BY <1>1, KindsApart DEF DrainBuf, sync, Places
<1>3. /\ Ring(Now', Content')
      /\ ToSet(Content') = ToSet(Content) \ {head}
      /\ head # Null => head \in ToSet(Content)
      /\ ToSet(Content) \subseteq Nodes
  BY <1>1, UnlinkedElements DEF DrainBuf, sync
<1>4. /\ pc' = [pc EXCEPT ![t] = IF head = Null THEN "idle" ELSE "drain"]
      /\ spare' = spare \cup ({head} \ {Null})
      /\ UNCHANGED <<len, node, cs, section, broken, mine, users>>
  BY DEF DrainBuf, sync, GoTo, Taken, FirstOne
<1>5. Types'
  BY <1>1, <1>2, <1>3, <1>4 DEF Types
<1>6. Apart'
  <2>1. {head} \ {Null} \in SUBSET ToSet(Content) /\ ToSet(Content') = ToSet(Content) \ ({head} \ {Null})
    BY <1>3, NullApart
  <2>2. spare' = spare \cup ({head} \ {Null}) /\ mine' = mine
    BY <1>4
  <2> DEFINE B == {head} \ {Null}
  <2>3. B \in SUBSET ToSet(Content) /\ ToSet(Content') = ToSet(Content) \ B /\ spare' = spare \cup B
    BY <2>1, <2>2
  <2> HIDE DEF B
  <2> QED
    BY <1>1, <1>3, <2>2, <2>3, ApartFreed
<1>7. Places'
  BY <1>1, <1>2, <1>4, KindsApart DEF Places, Types
<1>8. Sending'
  <2>1. \A u \in Senders : pc[u] = "idle"
    BY <1>2, NoneSends
  <2> QED
    BY <1>1, <1>2, <1>4, <2>1, KindsApart DEF Sending, Types
<1> QED
  BY <1>3, <1>5, <1>6, <1>7, <1>8 DEF QueueInv

LEMMA FreeNext ==
    ASSUME ~broken, QueueInv, NEW t \in users \cap Holders, FreeMine(t)
    PROVE  QueueInv'
<1>1. Ring(Now, Content) /\ Types /\ Apart /\ Places /\ Sending
  BY DEF QueueInv
<1>2. Ring(Now', Content') /\ Content' = Content /\ head' = head
  BY <1>1, RingStays DEF FreeMine, sync
<1>3. PICK b \in mine[t] : mine' = [mine EXCEPT ![t] = @ \ {b}] /\ spare' = spare \cup {b}
  BY DEF FreeMine, sync
<1>4. UNCHANGED <<len, pc, node, cs, section, broken, users>>
  BY DEF FreeMine, sync
<1>5. Types'
  BY <1>1, <1>3, <1>4 DEF Types
<1>6. Apart'
  <2>1. \A u \in Holders : mine'[u] = IF u = t THEN mine[u] \ {b} ELSE mine[u]
    BY <1>1, <1>3 DEF Types
  <2>2. b \notin ToSet(Content) /\ \A u \in Holders : u # t => b \notin mine[u]
    BY <1>1 DEF Apart
  <2> QED
    BY <1>1, <1>2, <1>3, <2>1, <2>2 DEF Apart
<1>7. Places' /\ Sending'
  BY <1>1, <1>2, <1>4 DEF Places, Sending
<1> QED
  BY <1>2, <1>5, <1>6, <1>7 DEF QueueInv

LEMMA CallNext ==
    ASSUME ~broken, QueueInv, NEW t \in users \cap Removers, StartSend(t)
    PROVE  QueueInv'
<1>1. Ring(Now, Content) /\ Types /\ Apart /\ Places /\ Sending
  BY DEF QueueInv
<1>2. Ring(Now', Content') /\ Content' = Content /\ head' = head
  BY <1>1, RingStays DEF StartSend
<1>3. /\ t \in Senders /\ t \notin Takers /\ pc[t] = "idle"
      /\ pc' = [pc EXCEPT ![t] = IF section = "none" THEN "init" ELSE "enter"]
      /\ UNCHANGED <<len, node, cs, section, broken, mine, spare, users>>
  BY KindsApart DEF StartSend, GoTo, sync
<1>4. Types'
  BY <1>1, <1>3 DEF Types
<1>5. Apart'
  BY <1>1, <1>2, <1>3 DEF Apart
<1>6. Places'
  BY <1>1, <1>3, KindsApart DEF Places, Types
<1>7. Sending'
  BY <1>1, <1>2, <1>3, KindsApart DEF Sending, Types, Inside
<1> QED
  BY <1>2, <1>4, <1>5, <1>6, <1>7 DEF QueueInv

LEMMA SectionNext ==
    ASSUME ~broken, QueueInv, NEW t \in users \cap Removers, InitSection(t)
    PROVE  QueueInv'
<1>1. Ring(Now, Content) /\ Types /\ Apart /\ Places /\ Sending
  BY DEF QueueInv
<1>2. Ring(Now', Content') /\ Content' = Content /\ head' = head
  BY <1>1, RingStays DEF InitSection
<1>3. /\ t \in Senders /\ t \notin Takers /\ pc[t] = "init" /\ cs' = Null
      /\ pc' = [pc EXCEPT ![t] = "enter"]
      /\ UNCHANGED <<len, node, broken, mine, spare, users>>
  BY <1>1, KindsApart DEF InitSection, GoTo, Places
<1>4. section' \in {"none", "ready", "reset"} /\ (section' # "reset" => section # "reset" /\ (section = "none" \/ cs = Null))
      /\ section' # "none"
  BY <1>1 DEF InitSection, Types
<1>5. Types'
  BY <1>1, <1>3, <1>4 DEF Types
<1>6. Apart'
  BY <1>1, <1>2, <1>3 DEF Apart
<1>7. Places'
  BY <1>1, <1>3, KindsApart DEF Places, Types
<1>8. Sending'
  <2>1. \A u \in Senders : pc'[u] \in {"check", "locked"} => node'[u] \in Nodes
    BY <1>1, <1>3, KindsApart DEF Sending, Types
  <2>2. ASSUME section' # "reset", NEW u \in Senders
        PROVE  u # Null /\ pc'[u] \notin Inside
    BY <1>1, <1>3, <1>4, <2>2, KindsApart DEF Sending, Types, Inside
  <2>3. "check" \in Inside /\ "locked" \in Inside
    BY DEF Inside
  <2> QED
    BY <1>1, <1>3, <1>4, <2>1, <2>2, <2>3 DEF Sending
<1> QED
  BY <1>2, <1>5, <1>6, <1>7, <1>8 DEF QueueInv

LEMMA EnterNext ==
    ASSUME ~broken, QueueInv, NEW t \in users \cap Removers, EnterSend(t)
    PROVE  QueueInv'
<1>1. Ring(Now, Content) /\ Types /\ Apart /\ Places /\ Sending
  BY DEF QueueInv
<1>2. Ring(Now', Content') /\ Content' = Content /\ head' = head
  BY <1>1, RingStays DEF EnterSend
<1>3. /\ t \in Senders /\ t \notin Takers /\ cs = Null /\ cs' = t /\ pc[t] = "enter"
      /\ pc' = [pc EXCEPT ![t] = "peek"]
      /\ UNCHANGED <<len, node, section, broken, mine, spare, users>>
  BY <1>1, KindsApart DEF EnterSend, MayEnter, GoTo, Places
<1>4. Types'
  BY <1>1, <1>3 DEF Types
<1>5. Apart'
  BY <1>1, <1>2, <1>3 DEF Apart
<1>6. Places'
  BY <1>1, <1>3, KindsApart DEF Places, Types
<1>7. Sending'
  BY <1>1, <1>2, <1>3, KindsApart DEF Sending, Types, Inside
<1> QED
  BY <1>2, <1>4, <1>5, <1>6, <1>7 DEF QueueInv

LEMMA PeekNext ==
    ASSUME ~broken, QueueInv, NEW t \in users \cap Removers, PeekAndSend(t)
    PROVE  QueueInv'
<1>1. Ring(Now, Content) /\ Types /\ Apart /\ Places /\ Sending
  BY DEF QueueInv
<1>2. Ring(Now', Content') /\ Content' = Content /\ head' = head
  BY <1>1, RingStays DEF PeekAndSend
<1>3. t \in Senders /\ t \notin Takers /\ t # Null /\ pc[t] = "peek"
  BY <1>1, KindsApart DEF PeekAndSend, Places
<1>4. head \in Pointer
  BY <1>1 DEF Ring, Rings, Now
<1>5. /\ node' = [node EXCEPT ![t] = head]
      /\ pc' = [pc EXCEPT ![t] = IF head = Null THEN "idle" ELSE "check"]
      /\ cs' = IF head = Null THEN Null ELSE cs
      /\ UNCHANGED <<len, section, broken, mine, spare, users>>
  BY DEF PeekAndSend, Leave, GoTo
<1>6. Types'
  BY <1>1, <1>3, <1>4, <1>5 DEF Types
<1>7. Apart'
  BY <1>1, <1>2, <1>5 DEF Apart
<1>8. Places'
  BY <1>1, <1>3, <1>5, KindsApart DEF Places, Types
<1>9. Sending'
  <2>1. /\ pc'[t] = (IF head = Null THEN "idle" ELSE "check") /\ node'[t] = head
        /\ \A u \in Senders : u # t => pc'[u] = pc[u] /\ node'[u] = node[u]
    BY <1>1, <1>5, KindsApart DEF Types
  <2>2. \A u \in Senders : pc'[u] \in {"check", "locked"} => node'[u] \in Nodes
    BY <1>1, <1>4, <2>1 DEF Sending, Pointer
  <2>3. ASSUME section # "reset"
        PROVE  cs = t /\ \A u \in Senders : u # t => pc[u] \notin Inside
    BY <1>1, <1>3, <2>3 DEF Sending, Inside
  <2>4. ASSUME section # "reset", NEW u \in Senders
        PROVE  /\ cs' = u <=> pc'[u] \in Inside
               /\ pc'[u] \in {"check", "locked"} => node'[u] = head' /\ head' # Null
    <3>1. CASE u = t
      BY <1>2, <1>3, <1>5, <2>1, <2>3, <2>4, <3>1 DEF Inside
    <3>2. CASE u # t
      BY <1>5, <2>1, <2>3, <2>4, <3>2, KindsApart DEF Inside
    <3> QED
      BY <3>1, <3>2
  <2>5. section' = "none" => \A u \in Senders : pc'[u] \in {"idle", "init"}
    BY <1>1, <1>3, <1>5 DEF Sending
  <2> QED
    BY <1>1, <1>5, <2>2, <2>4, <2>5 DEF Sending
<1> QED
  BY <1>2, <1>6, <1>7, <1>8, <1>9 DEF QueueInv

LEMMA DropNext ==
    ASSUME ~broken, QueueInv, NEW t \in users \cap Removers, DropSent(t)
    PROVE  QueueInv'
<1>1. Ring(Now, Content) /\ Types /\ Apart /\ Places /\ Sending
  BY DEF QueueInv
<1>2. /\ t \in Senders /\ t \notin Takers /\ t \in Removers /\ t # Null
      /\ pc[t] = "locked" /\ node[t] \in Nodes
  BY <1>1, KindsApart DEF DropSent, Sending
<1>3. /\ Ring(Now', Content')
      /\ ToSet(Content') = ToSet(Content) \ {head}
      /\ head # Null => head \in ToSet(Content)
      /\ ToSet(Content) \subseteq Nodes
  BY <1>1, UnlinkedElements DEF DropSent
<1>4. /\ pc' = [pc EXCEPT ![t] = "idle"] /\ node' = [node EXCEPT ![t] = Null]
      /\ cs' = Null /\ spare' = spare \cup {node[t]} /\ broken' = (node[t] # head)
      /\ UNCHANGED <<len, section, mine, users>>
  BY DEF DropSent, Leave, GoTo, FirstOne
<1>5. Types'
  BY <1>1, <1>2, <1>4 DEF Types, Pointer
<1>6. ASSUME ~broken'
      PROVE  Apart'
  <2>1. node[t] = head /\ head # Null
    BY <1>2, <1>4, <1>6, NullApart
  <2>2. {head} \in SUBSET ToSet(Content) /\ spare' = spare \cup {head} /\ mine' = mine
    BY <1>3, <1>4, <2>1
  <2> QED
    BY <1>1, <1>3, <2>2, ApartFreed
<1>7. Places'
  BY <1>1, <1>2, <1>4, KindsApart DEF Places, Types
<1>8. Sending'
  <2>1. pc'[t] = "idle" /\ \A u \in Senders : u # t => pc'[u] = pc[u] /\ node'[u] = node[u]
    BY <1>1, <1>2, <1>4, KindsApart DEF Types
  <2>2. \A u \in Senders : pc'[u] \in {"check", "locked"} => node'[u] \in Nodes
    BY <1>1, <2>1 DEF Sending
  <2>3. ASSUME section # "reset"
        PROVE  node[t] = head /\ \A u \in Senders : pc'[u] \notin Inside
    BY <1>1, <1>2, <2>1, <2>3 DEF Sending, Inside
  <2>4. "check" \in Inside /\ "locked" \in Inside /\ \A u \in Senders : u # Null
    BY KindsApart DEF Inside
  <2>5. broken' => section' = "reset"
    BY <1>4, <2>3
  <2>6. ASSUME section' # "reset", NEW u \in Senders
        PROVE  cs' # u /\ pc'[u] \notin Inside
    BY <1>4, <2>3, <2>4, <2>6
  <2>7. section' = "none" => \A u \in Senders : pc'[u] \in {"idle", "init"}
    BY <1>1, <1>4, <2>1 DEF Sending
  <2> QED
    BY <2>2, <2>4, <2>5, <2>6, <2>7 DEF Sending
<1> QED
  BY <1>3, <1>5, <1>6, <1>7, <1>8 DEF QueueInv

\* Threads and the critical section, when an owner has acted.
LEMMA OwnerRest ==
    ASSUME QueueInv, NEW t \in users \cap Owners, UNCHANGED <<pc, node, cs, section, broken, users>>
    PROVE  Places' /\ Sending'
<1>1. Places /\ Sending /\ Types
  BY DEF QueueInv
<1>2. \A u \in Senders : pc[u] = "idle"
  BY NoneSends
<1> QED
  BY <1>1, <1>2 DEF Places, Sending

LEMMA RemoveNodeNext ==
    ASSUME ~broken, QueueInv, NEW t \in users \cap Owners, NEW b \in Nodes, RemoveNode(t, b)
    PROVE  QueueInv'
<1>1. Ring(Now, Content) /\ Types /\ Apart
  BY DEF QueueInv
<1>2. PICK i \in 1..Len(Content) : b = Content[i] /\ Content' = Without(Content, i - 1, 1)
  BY <1>1, RemoveNodeLeaves
<1>3. Ring(Now', Content')
  BY <1>1, RemoveNodeLeaves
<1>4. /\ ToSet(Content') = ToSet(Content) \ {b} /\ b \in ToSet(Content) /\ ToSet(Content) \subseteq Nodes
  <2>1. Content \in Seq(Nodes) /\ Distinct(Content)
    BY <1>1 DEF Ring
  <2> QED
    BY <1>2, <2>1, ElementsWithoutOne
<1>5. mine' = [mine EXCEPT ![t] = @ \cup {b}] /\ UNCHANGED <<len, pc, node, cs, section, broken, spare, users>>
  BY DEF RemoveNode, sync
<1>6. Types'
  BY <1>1, <1>5 DEF Types
<1>7. Apart'
  BY <1>1, <1>4, <1>5, KindsApart, ApartTaken
<1>8. Places' /\ Sending'
  BY <1>5, OwnerRest
<1> QED
  BY <1>3, <1>6, <1>7, <1>8 DEF QueueInv

LEMMA DecreaseNext ==
    ASSUME ~broken, QueueInv, NEW t \in users \cap Owners, NEW final \in Nat, DecreaseToLen(t, final)
    PROVE  QueueInv'
<1>1. Ring(Now, Content) /\ Types /\ Apart
  BY DEF QueueInv
<1>2. Content \in Seq(Nodes) /\ Distinct(Content) /\ Len(Content) \in Nat
  BY <1>1 DEF Ring
<1>3. Max(Lens \cup {1}) \in Nat /\ len \in [Nodes -> Nat]
  BY <1>1, LengthBound DEF Types
<1>4. Ring(Now', Content')
  BY <1>1, <1>3, DecreaseLeaves
<1>5. PICK k \in 0..Len(Content), m \in Nat :
         /\ Content' = Without(Content, k, Len(Content) - k)
         /\ spare' = spare \cup ToSet(SubSeq(Content, k + 1, Len(Content)))
         /\ k = 0 => len' = len
         /\ k > 0 => m <= len[Content[k]] /\ len' = [len EXCEPT ![Content[k]] = m]
  BY <1>1, <1>3, DecreaseLeaves
<1>6. UNCHANGED <<pc, node, cs, section, broken, mine, users>>
  BY DEF DecreaseToLen, sync
<1> DEFINE B == ToSet(SubSeq(Content, k + 1, Len(Content)))
<1>7. B \in SUBSET ToSet(Content) /\ ToSet(Content') = ToSet(Content) \ B /\ ToSet(Content) \subseteq Nodes
  <2>1. Len(Content) - k \in 0..(Len(Content) - k) /\ k + (Len(Content) - k) = Len(Content)
    BY <1>2
  <2> QED
    BY <1>2, <1>5, <2>1, ElementsWithout
<1>8. len' \in [Nodes -> 0..Max(Lens \cup {1})]
  <2>1. CASE k = 0
    BY <1>1, <1>5, <2>1 DEF Types
  <2>2. CASE k > 0
    <3>0. k \in 1..Len(Content)
      BY <1>2, <1>5, <2>2
    <3>1. Content[k] \in Nodes /\ len[Content[k]] \in 0..Max(Lens \cup {1})
      <4>1. Content[k] \in Nodes
        BY <1>2, <3>0
      <4> QED
        BY <1>1, <4>1 DEF Types
    <3>2. m \in 0..Max(Lens \cup {1})
      BY <1>3, <1>5, <2>2, <3>1
    <3> QED
      BY <1>1, <1>5, <2>2, <3>2 DEF Types
  <2>3. k = 0 \/ k > 0
    BY <1>2, <1>5
  <2> QED
    BY <2>1, <2>2, <2>3
<1> HIDE DEF B
<1>9. spare' = spare \cup B
  BY <1>5 DEF B
<1>10. Types'
  BY <1>1, <1>6, <1>7, <1>8, <1>9 DEF Types
<1>11. Apart'
  BY <1>1, <1>6, <1>7, <1>9, ApartFreed
<1>12. Places' /\ Sending'
  BY <1>6, OwnerRest
<1> QED
  BY <1>4, <1>10, <1>11, <1>12 DEF QueueInv

LEMMA AccumulateNext ==
    ASSUME ~broken, QueueInv, NEW t \in users \cap Owners, NEW room \in Nat, Accumulate(t, room)
    PROVE  QueueInv'
<1>1. Ring(Now, Content) /\ Types /\ Apart
  BY DEF QueueInv
<1>2. Content \in Seq(Nodes) /\ Distinct(Content) /\ Len(Content) \in Nat
  BY <1>1 DEF Ring
<1>3. len \in [Nodes -> Nat]
  BY <1>1, LengthBound DEF Types
<1>4. Ring(Now', Content')
  BY <1>1, <1>3, AccumulateLeaves
<1>5. PICK k \in 0..Len(Content) :
         /\ Content' = Without(Content, 0, k)
         /\ spare' = spare \cup ToSet(SubSeq(Content, 1, k))
  BY <1>1, <1>3, AccumulateLeaves
<1>6. UNCHANGED <<len, pc, node, cs, section, broken, mine, users>>
  BY DEF Accumulate, sync
<1> DEFINE B == ToSet(SubSeq(Content, 1, k))
<1>7. B \in SUBSET ToSet(Content) /\ ToSet(Content') = ToSet(Content) \ B /\ ToSet(Content) \subseteq Nodes
  <2>1. 0 \in 0..Len(Content) /\ k \in 0..(Len(Content) - 0) /\ 0 + 1 = 1 /\ 0 + k = k
    BY <1>2
  <2>2. /\ ToSet(Without(Content, 0, k)) = ToSet(Content) \ ToSet(SubSeq(Content, 0 + 1, 0 + k))
        /\ ToSet(SubSeq(Content, 0 + 1, 0 + k)) \subseteq ToSet(Content)
        /\ ToSet(Content) \subseteq Nodes
    BY <1>2, <2>1, ElementsWithout
  <2> QED
    BY <1>5, <2>1, <2>2
<1> HIDE DEF B
<1>8. spare' = spare \cup B
  BY <1>5 DEF B
<1>9. Types'
  BY <1>1, <1>6, <1>7, <1>8 DEF Types
<1>10. Apart'
  BY <1>1, <1>6, <1>7, <1>8, ApartFreed
<1>11. Places' /\ Sending'
  BY <1>6, OwnerRest
<1> QED
  BY <1>4, <1>9, <1>10, <1>11 DEF QueueInv

LEMMA QueueNext == QueueInv /\ [Next]_vars => QueueInv'
<1> SUFFICES ASSUME QueueInv, [Next]_vars
             PROVE  QueueInv'
  OBVIOUS
<1>1. len \in [Nodes -> Nat] /\ Ring(Now, Content)
  BY LengthBound DEF QueueInv, Types
<1>2. BytesIn(Content) \in Nat
  <2>1. Content \in Seq(Nodes) /\ Len(Content) \in 0..Len(Content)
    BY <1>1 DEF Ring
  <2> QED
    BY <1>1, <2>1, PrefixBytes
<1>3. ASSUME NEW b \in Nodes, NEW n \in IF users = Owners THEN Lens ELSE {1}, AddBuf(b, n), ~broken
      PROVE  QueueInv'
  <2>1. n \in Lens \cup {1}
    OBVIOUS
  <2> QED
    BY <1>3, <2>1, AddNext
<1>4. ASSUME NEW t \in users \cap Removers,
             \/ \E place \in {"check", "drain"} : StartRemove(t, place)
             \/ CheckHead(t) \/ TakeBuf(t) \/ DrainBuf(t)
             \/ StartSend(t) \/ InitSection(t) \/ EnterSend(t) \/ PeekAndSend(t) \/ DropSent(t),
             ~broken
      PROVE  QueueInv'
  BY <1>4, StartNext, CheckNext, TakeNext, DrainNext, CallNext, SectionNext, EnterNext, PeekNext, DropNext
<1>5. ASSUME NEW t \in users \cap Holders, FreeMine(t), ~broken
      PROVE  QueueInv'
  BY <1>5, FreeNext
<1>6. ASSUME NEW t \in users \cap Owners, NEW b \in Nodes, RemoveNode(t, b), ~broken
      PROVE  QueueInv'
  BY <1>6, RemoveNodeNext
<1>7. ASSUME NEW t \in users \cap Owners, NEW n \in 0..BytesIn(Content),
             DecreaseToLen(t, n) \/ Accumulate(t, n), ~broken
      PROVE  QueueInv'
  <2>1. n \in Nat
    BY <1>2
  <2> QED
    BY <1>7, <2>1, DecreaseNext, AccumulateNext
<1>8. CASE UNCHANGED vars
  <2>1. Ring(Now', Content') /\ Content' = Content /\ head' = head
    BY <1>1, <1>8, RingStays DEF vars, sync
  <2> QED
    BY <1>8, <2>1 DEF vars, sync, QueueInv, Types, Apart, Places, Sending
<1> QED
  BY <1>3, <1>4, <1>5, <1>6, <1>7, <1>8 DEF Next, Operation

LEMMA QueueAlways == Spec => []QueueInv
BY QueueInit, QueueNext, PTL DEF Spec

-----------------------------------------------------------------------------
(* The theorems                                                             *)

\* Whoever walks along the ring, without the semaphore too, meets no NULL and no
\* buffer that has left: the ring is closed in both directions at every moment.
THEOREM AlwaysClosed == Spec => []RingClosed
<1>1. QueueInv => RingClosed
  <2> SUFFICES ASSUME QueueInv
               PROVE  RingClosed
    OBVIOUS
  <2> DEFINE s == Content
             n == Len(s)
  <2>1. s \in Seq(Nodes) /\ n \in Nat /\ s \in [1..n -> Nodes]
    BY DEF QueueInv, Ring
  <2>2. /\ n = 0 => head = Null /\ tail = Null
        /\ n > 0 => head = s[1] /\ tail = s[n]
        /\ \A j, k \in 1..n : Follows(j, k, n) => next[s[j]] = s[k] /\ prev[s[k]] = s[j]
    BY DEF QueueInv, Ring, Now
  <2>3. CASE n = 0
    BY <2>2, <2>3 DEF RingClosed
  <2>4. CASE n > 0
    <3>1. head = s[1] /\ tail = s[n] /\ 1 \in 1..n /\ n \in 1..n
      BY <2>1, <2>2, <2>4
    <3>2. head # Null /\ tail # Null
      BY <2>1, <3>1, NullApart
    <3>3. next[tail] = head /\ prev[head] = tail
      BY <2>2, <3>1 DEF Follows
    <3>4. \A k \in 1..(n - 1) : prev[s[k + 1]] = s[k]
      <4> SUFFICES ASSUME NEW k \in 1..(n - 1)
                   PROVE  prev[s[k + 1]] = s[k]
        OBVIOUS
      <4>1. k \in 1..n /\ k + 1 \in 1..n
        BY <2>1
      <4> QED
        BY <2>2, <4>1 DEF Follows
    <3> QED
      BY <3>1, <3>2, <3>3, <3>4 DEF RingClosed
  <2> QED
    BY <2>1, <2>3, <2>4
<1> QED
  BY <1>1, QueueAlways, PTL

\* No buffer is lost, lent twice or freed by two: it is in the pool, in the queue or
\* with one thread, however adds, removals, drains and sends interleave - unless the
\* senders' critical section, which is created on first use without a lock, was
\* initialised again while one of them owned it.
THEOREM AlwaysOnePlace == Spec => []OnePlace
<1>1. QueueInv => OnePlace
  <2>0. QueueInv /\ broken => OnePlace
    BY DEF QueueInv, Sending, OnePlace
  <2> SUFFICES ASSUME QueueInv, ~broken
               PROVE  OnePlace
    BY <2>0
  <2>1. Ring(Now, Content) /\ Apart /\ Types
    BY DEF QueueInv
  <2>2. Content \in Seq(Nodes) /\ Distinct(Content) /\ DOMAIN Content = 1..Len(Content)
    BY <2>1 DEF Ring
  <2>3. IsInjective(Content)
    BY <2>2 DEF Distinct, IsInjective
  <2>4. ToSet(Content) \subseteq Nodes
    BY <2>2 DEF ToSet
  <2>5. Nodes = spare \cup ToSet(Content) \cup (UNION {mine[t] : t \in Holders})
    <3>1. \A t \in Holders : mine[t] \subseteq Nodes
      BY <2>1 DEF Types
    <3>2. spare \subseteq Nodes
      BY <2>1 DEF Types
    <3>3. \A b \in Nodes : b \in spare \cup ToSet(Content) \/ b \in UNION {mine[t] : t \in Holders}
      BY <2>1 DEF Apart
    <3> QED
      BY <2>4, <3>1, <3>2, <3>3
  <2>6. \A t, u \in Takers : t # u => mine[t] \cap mine[u] = {}
    BY <2>1, KindsApart DEF Apart
  <2> QED
    BY <2>1, <2>3, <2>5, <2>6 DEF OnePlace, Apart
<1> QED
  BY <1>1, QueueAlways, PTL

\* Every variable keeps its type: no pointer leaves the buffers and NULL, and no length grows.
THEOREM TypeCorrect == Spec => []TypeOK
<1>1. QueueInv => TypeOK
  BY DEF QueueInv, Ring, Rings, Now, Types, TypeOK
<1> QED
  BY <1>1, QueueAlways, PTL

-----------------------------------------------------------------------------
(* The queue as Fifo sees it                                                *)

\* A buffer with its length.
Entries == [buf : Nodes, len : Nat]

\* The buffers of s with the lengths l.
Entered(s, l) == [k \in DOMAIN s |-> [buf |-> s[k], len |-> l[s[k]]]]

LEMMA EnteredIs ==
    ASSUME NEW s \in Seq(Nodes), NEW l \in [Nodes -> Nat]
    PROVE  /\ Entered(s, l) \in Seq(Entries) /\ Len(Entered(s, l)) = Len(s)
           /\ DOMAIN Entered(s, l) = 1..Len(s)
           /\ \A k \in 1..Len(s) : /\ Entered(s, l)[k] \in Entries
                                   /\ Entered(s, l)[k] = [buf |-> s[k], len |-> l[s[k]]]
<1>1. Len(s) \in Nat /\ s \in [1..Len(s) -> Nodes] /\ DOMAIN s = 1..Len(s)
  OBVIOUS
<1>2. Entered(s, l) \in [1..Len(s) -> Entries]
  BY <1>1 DEF Entered, Entries
<1> QED
  BY <1>1, <1>2 DEF Entered

\* Bytes of Fifo adds the lengths up as buf_get_total_len does.
LEMMA EntryBytes ==
    ASSUME NEW q \in Seq(Entries), NEW g, SumsOf(g, [k \in 1..Len(q) |-> q[k].len], Len(q))
    PROVE  Abs!Bytes(q) = g[Len(q)]
<1> DEFINE n == Len(q)
           v == [k \in 1..n |-> q[k].len]
           Eq(h) == h = [S \in SUBSET (DOMAIN q) |-> IF S = {} THEN 0 ELSE h[S \ {Max(S)}] + q[Max(S)].len]
           c == CHOOSE h : Eq(h)
<1>0. \A S : Abs!Max(S) = Max(S)
  BY Zenon DEF Abs!Max, Max
<1>1. Abs!Bytes(q) = c[DOMAIN q]
  BY <1>0, Zenon DEF Abs!Bytes, Abs!FoldLeft, Abs!MapThenFoldSet
<1>2. n \in Nat /\ q \in [1..n -> Entries] /\ DOMAIN q = 1..n /\ v \in [1..n -> Nat]
  <2>1. n \in Nat /\ q \in [1..n -> Entries] /\ DOMAIN q = 1..n
    OBVIOUS
  <2>2. ASSUME NEW k \in 1..n
        PROVE  q[k].len \in Nat
    <3>1. q[k] \in Entries
      BY <2>1
    <3> QED
      BY <3>1 DEF Entries
  <2> QED
    BY <2>1, <2>2
<1>3. ASSUME NEW h
      PROVE  Eq(h) <=> Adds(h, v, n)
  <2>1. ASSUME NEW S \in SUBSET (1..n), S # {}
        PROVE  v[Max(S)] = q[Max(S)].len
    <3>1. Max(S) \in 1..n
      BY <1>2, <2>1, InSegment, Zenon
    <3> QED
      BY <3>1
  <2> HIDE DEF v, n
  <2>2. [S \in SUBSET (1..n) |-> IF S = {} THEN 0 ELSE h[S \ {Max(S)}] + v[Max(S)]]
         = [S \in SUBSET (DOMAIN q) |-> IF S = {} THEN 0 ELSE h[S \ {Max(S)}] + q[Max(S)].len]
    BY <2>1, <1>2, Zenon
  <2> QED
    BY <2>2, Zenon DEF Adds
<1> HIDE DEF v, Eq, n
<1>4. Eq(c)
  BY <1>2, <1>3, SumExists, Zenon
<1>5. Adds(c, v, n)
  BY <1>3, <1>4
<1>6. SumsOf(g, v, n)
  BY DEF v, n
<1>7. c[1..n] = g[n]
  BY <1>2, <1>5, <1>6, SumValues, Zenon
<1> QED
  BY <1>1, <1>2, <1>7, Zenon DEF n

\* Sums of the lengths, as Fifo and as buf_get_total_len have them.
LEMMA EntriesSum ==
    ASSUME NEW s \in Seq(Nodes), len \in [Nodes -> Nat]
    PROVE  /\ Abs!Bytes(Entered(s, len)) = BytesIn(s)
           /\ \A k \in 0..Len(s) :
                 Abs!Bytes(SubSeq(Entered(s, len), 1, k)) = BytesIn(SubSeq(s, 1, k))
<1> DEFINE n == Len(s)
           e == Entered(s, len)
           v == [k \in 1..n |-> len[s[k]]]
<1>1. n \in Nat /\ s \in [1..n -> Nodes]
  OBVIOUS
<1>2. PICK g : /\ SumsOf(g, v, n)
               /\ \A k \in 0..n : g[k] \in Nat /\ BytesIn(SubSeq(s, 1, k)) = g[k]
               /\ BytesIn(s) = g[n]
  BY PrefixBytes
<1>3. e \in Seq(Entries) /\ Len(e) = n /\ \A k \in 1..n : e[k].len = v[k]
  <2>1. e \in Seq(Entries) /\ Len(e) = n /\ \A k \in 1..n : e[k] = [buf |-> s[k], len |-> len[s[k]]]
    BY EnteredIs
  <2>2. ASSUME NEW k \in 1..n
        PROVE  e[k].len = v[k]
    <3>1. e[k] = [buf |-> s[k], len |-> len[s[k]]] /\ v[k] = len[s[k]]
      BY <2>1
    <3> HIDE DEF e, v
    <3> QED
      BY <3>1
  <2> HIDE DEF e, v, n
  <2> QED
    BY <2>1, <2>2
<1> HIDE DEF e, v, n
<1>4. ASSUME NEW k \in 0..n
      PROVE  Abs!Bytes(SubSeq(e, 1, k)) = g[k]
  <2> DEFINE p == SubSeq(e, 1, k)
             u == [j \in 1..Len(p) |-> p[j].len]
  <2>1. p \in Seq(Entries) /\ Len(p) = k /\ \A j \in 1..k : j \in 1..n /\ p[j] = e[j]
    BY <1>1, <1>3
  <2> HIDE DEF p
  <2>2. \A j \in 1..k : u[j] = v[j]
    BY <1>3, <2>1
  <2>3. SumsOf(g, u, Len(p))
    <3> HIDE DEF u
    <3> QED
      BY <1>2, <2>1, <2>2 DEF SumsOf
  <2>4. Abs!Bytes(p) = g[Len(p)]
    BY <2>1, <2>3, EntryBytes
  <2> QED
    BY <2>1, <2>4 DEF p
<1>5. Abs!Bytes(e) = g[n]
  <2> DEFINE u == [j \in 1..Len(e) |-> e[j].len]
  <2>1. \A j \in 1..n : u[j] = v[j]
    BY <1>3
  <2>2. SumsOf(g, u, Len(e))
    <3> HIDE DEF u
    <3> QED
      BY <1>2, <1>3, <2>1 DEF SumsOf
  <2> QED
    BY <1>3, <2>2, EntryBytes
<1>6. \A k \in 0..n : Abs!Bytes(SubSeq(e, 1, k)) = BytesIn(SubSeq(s, 1, k))
  BY <1>2, <1>4
<1> QED
  BY <1>2, <1>5, <1>6 DEF e, n

\* Two queues are the same if they have the same entries.
LEMMA SameEntries ==
    ASSUME NEW s \in Seq(Nodes), NEW l \in [Nodes -> Nat], NEW e \in Seq(Entries),
           Len(e) = Len(s), \A k \in 1..Len(s) : e[k] = [buf |-> s[k], len |-> l[s[k]]]
    PROVE  Entered(s, l) = e
<1>1. /\ Entered(s, l) \in Seq(Entries) /\ Len(Entered(s, l)) = Len(s)
      /\ \A k \in 1..Len(s) : Entered(s, l)[k] = [buf |-> s[k], len |-> l[s[k]]]
  BY EnteredIs
<1> DEFINE f == Entered(s, l)
<1> HIDE DEF f
<1>2. f \in Seq(Entries) /\ Len(f) = Len(e)
  BY <1>1 DEF f
<1>3. \A k \in 1..Len(f) : f[k] = e[k]
  BY <1>1 DEF f
<1>4. f = e
  BY <1>2, <1>3, SeqEqual
<1> QED
  BY <1>4 DEF f

\* f is e with an entry for b, which has none in e, behind it.
Longer(e, f, b) ==
    /\ \A k \in DOMAIN e : e[k].buf # b
    /\ Len(f) = Len(e) + 1
    /\ SubSeq(f, 1, Len(f) - 1) = e
    /\ f[Len(f)].buf = b

\* A buffer is added behind the others.
LEMMA EnteredAppend ==
    ASSUME NEW s \in Seq(Nodes), NEW l \in [Nodes -> Nat], NEW m \in [Nodes -> Nat], NEW b \in Nodes,
           \A k \in 1..Len(s) : s[k] # b /\ m[s[k]] = l[s[k]],
           NEW e, NEW f, e = Entered(s, l), f = Entered(Append(s, b), m)
    PROVE  Longer(e, f, b)
<1> DEFINE n == Len(s)
           a == Append(s, b)
<1>1. n \in Nat /\ s \in [1..n -> Nodes]
  OBVIOUS
<1>2. a \in Seq(Nodes) /\ Len(a) = n + 1 /\ a[n + 1] = b /\ \A k \in 1..n : a[k] = s[k]
  OBVIOUS
<1>3. /\ e \in Seq(Entries) /\ Len(e) = n /\ DOMAIN e = 1..n
      /\ \A k \in 1..n : e[k] = [buf |-> s[k], len |-> l[s[k]]]
  BY EnteredIs
<1> HIDE DEF a
<1>4. /\ f \in Seq(Entries) /\ Len(f) = n + 1
      /\ \A k \in 1..(n + 1) : f[k] = [buf |-> a[k], len |-> m[a[k]]]
  <2>1. f = Entered(a, m)
    BY DEF a
  <2> QED
    BY <1>2, <2>1, EnteredIs
<1> HIDE DEF n
<1>5. \A k \in DOMAIN e : e[k].buf # b
  <2> SUFFICES ASSUME NEW k \in 1..n
               PROVE  e[k].buf # b
    BY <1>3
  <2>1. s[k] # b
    BY DEF n
  <2> QED
    BY <1>3, <2>1
<1>6. f[n + 1].buf = b
  <2>1. n + 1 \in 1..(n + 1)
    BY <1>1
  <2> QED
    BY <1>2, <1>4, <2>1
<1>7. SubSeq(f, 1, n) = e
  <2> DEFINE p == SubSeq(f, 1, n)
  <2>1. p \in Seq(Entries) /\ Len(p) = n /\ \A k \in 1..n : p[k] = f[k]
    BY <1>1, <1>4
  <2> HIDE DEF p
  <2>2. ASSUME NEW k \in 1..n
        PROVE  p[k] = [buf |-> s[k], len |-> l[s[k]]]
    <3>1. k \in 1..(n + 1)
      BY <1>1
    <3>2. m[s[k]] = l[s[k]]
      BY DEF n
    <3>3. f[k] = [buf |-> a[k], len |-> m[a[k]]] /\ a[k] = s[k]
      BY <1>2, <1>4, <3>1
    <3>4. p[k] = f[k]
      BY <2>1
    <3> QED
      BY <3>2, <3>3, <3>4
  <2>3. Entered(s, l) = p
    BY <2>1, <2>2, SameEntries DEF n
  <2> QED
    BY <2>3 DEF p
<1>8. Len(f) - 1 = n
  BY <1>1, <1>4
<1> QED
  BY <1>3, <1>4, <1>5, <1>6, <1>7, <1>8 DEF Longer

\* Neighbours leave: what is before them and what is behind them stays.
LEMMA EnteredWithout ==
    ASSUME NEW s \in Seq(Nodes), NEW l \in [Nodes -> Nat], NEW k \in 0..Len(s), NEW j \in 0..(Len(s) - k),
           NEW e, e = Entered(s, l)
    PROVE  Entered(Without(s, k, j), l) = SubSeq(e, 1, k) \o SubSeq(e, k + j + 1, Len(e))
<1> DEFINE n == Len(s)
           w == Without(s, k, j)
           p == SubSeq(e, 1, k)
           r == SubSeq(e, k + j + 1, n)
<1>1. n \in Nat /\ s \in [1..n -> Nodes]
  OBVIOUS
<1>2. /\ w \in Seq(Nodes) /\ Len(w) = n - j
      /\ \A i \in 1..(n - j) : w[i] = IF i <= k THEN s[i] ELSE s[i + j]
  BY WithoutType
<1>3. /\ e \in Seq(Entries) /\ Len(e) = n
      /\ \A i \in 1..n : e[i] = [buf |-> s[i], len |-> l[s[i]]]
  BY EnteredIs
<1> HIDE DEF w
<1>4. p \in Seq(Entries) /\ Len(p) = k /\ \A i \in 1..k : p[i] = e[i]
  BY <1>1, <1>3
<1>6. k \in 0..n /\ j \in 0..(n - k)
  OBVIOUS
<1> DEFINE z == n - (k + j)
           y == k + j
<1>5. r \in Seq(Entries) /\ Len(r) = z /\ \A i \in 1..z : r[i] = e[i + y]
  <2>1. y \in Nat /\ z \in Nat /\ y + z = n /\ n \in Nat
    BY <1>1, <1>6
  <2>2. r = SubSeq(e, y + 1, n)
    OBVIOUS
  <2> HIDE DEF z, y, r, n
  <2>3. r \in Seq(Entries) /\ Len(r) = z
    BY <1>3, <2>1, <2>2, SMTT(30)
  <2>4. ASSUME NEW i \in 1..z
        PROVE  r[i] = e[i + y]
    <3>1. r[i] = e[(y + 1) + i - 1]
      BY <1>3, <2>1, <2>2
    <3>2. (y + 1) + i - 1 = i + y
      BY <2>1
    <3> QED
      BY <3>1, <3>2
  <2> QED
    BY <2>3, <2>4
<1>11. z \in Nat /\ k + z = n - j /\ y = k + j
  BY <1>1, <1>6
<1> HIDE DEF p, r, n, z, y
<1>7. /\ p \o r \in Seq(Entries) /\ Len(p \o r) = n - j
      /\ \A i \in 1..(n - j) : (p \o r)[i] = IF i <= k THEN e[i] ELSE e[i + j]
  <2>1. p \o r \in Seq(Entries) /\ Len(p \o r) = n - j
    <3>1. p \o r \in Seq(Entries) /\ Len(p \o r) = Len(p) + Len(r)
      BY <1>4, <1>5, ConcatProperties
    <3> QED
      BY <1>4, <1>5, <1>11, <3>1
  <2>2. ASSUME NEW i \in 1..(n - j)
        PROVE  (p \o r)[i] = IF i <= k THEN e[i] ELSE e[i + j]
    <3>1. CASE i <= k
      <4>1. i \in 1..k
        BY <3>1
      <4>2. (p \o r)[i] = p[i]
        BY <1>4, <1>5, <4>1
      <4> QED
        BY <1>4, <3>1, <4>1, <4>2
    <3>2. CASE ~(i <= k)
      <4>1. i - k \in 1..z /\ (i - k) + y = i + j /\ i \in 1..(k + z) /\ i > k
        BY <1>1, <1>6, <1>11, <3>2
      <4>2. (p \o r)[i] = IF i <= k THEN p[i] ELSE r[i - k]
        BY <1>4, <1>5, <4>1, ConcatProperties
      <4>3. r[i - k] = e[(i - k) + y]
        BY <1>5, <4>1
      <4> QED
        BY <3>2, <4>1, <4>2, <4>3, Zenon
    <3> QED
      BY <3>1, <3>2
  <2> QED
    BY <1>1, <1>6, <2>1, <2>2
<1>8. ASSUME NEW i \in 1..(n - j)
      PROVE  (p \o r)[i] = [buf |-> w[i], len |-> l[w[i]]]
  <2>1. CASE i <= k
    <3>1. i \in 1..n
      BY <1>1, <1>6
    <3>2. w[i] = s[i] /\ (p \o r)[i] = e[i]
      BY <1>2, <1>7, <2>1
    <3> QED
      BY <1>3, <3>1, <3>2
  <2>2. CASE ~(i <= k)
    <3>1. i + j \in 1..n
      BY <1>1, <1>6
    <3>2. w[i] = s[i + j] /\ (p \o r)[i] = e[i + j]
      BY <1>2, <1>7, <2>2
    <3> QED
      BY <1>3, <3>1, <3>2
  <2> QED
    BY <2>1, <2>2
<1>9. Entered(w, l) = p \o r
  <2> DEFINE a == p \o r
  <2>1. a \in Seq(Entries) /\ Len(a) = Len(w)
    BY <1>2, <1>7
  <2>2. \A i \in 1..Len(w) : a[i] = [buf |-> w[i], len |-> l[w[i]]]
    BY <1>2, <1>8
  <2> HIDE DEF a
  <2>3. Entered(w, l) = a
    BY <1>2, <2>1, <2>2, SameEntries
  <2> QED
    BY <2>3 DEF a
<1> QED
  BY <1>3, <1>9 DEF w, p, r

\* The first ones leave.
LEMMA EnteredBehind ==
    ASSUME NEW s \in Seq(Nodes), NEW l \in [Nodes -> Nat], NEW k \in 0..Len(s), NEW e, e = Entered(s, l)
    PROVE  Entered(Without(s, 0, k), l) = SubSeq(e, k + 1, Len(e))
<1>1. e \in Seq(Entries) /\ Len(e) = Len(s)
  BY EnteredIs
<1>2. SubSeq(e, 1, 0) = <<>>
  BY <1>1
<1>3. SubSeq(e, k + 1, Len(e)) \in Seq(Entries)
  BY <1>1
<1>4. 0 \in 0..Len(s) /\ k \in 0..(Len(s) - 0) /\ 0 + k + 1 = k + 1
  OBVIOUS
<1>5. \A i \in 0..Len(s) : \A j \in 0..(Len(s) - i) :
         Entered(Without(s, i, j), l) = SubSeq(e, 1, i) \o SubSeq(e, i + j + 1, Len(e))
  <2> SUFFICES ASSUME NEW i \in 0..Len(s), NEW j \in 0..(Len(s) - i)
               PROVE  Entered(Without(s, i, j), l) = SubSeq(e, 1, i) \o SubSeq(e, i + j + 1, Len(e))
    OBVIOUS
  <2>1. \A f : f = Entered(s, l) => Entered(Without(s, i, j), l) = SubSeq(f, 1, i) \o SubSeq(f, i + j + 1, Len(f))
    BY EnteredWithout
  <2> QED
    BY <2>1
<1>6. Entered(Without(s, 0, k), l) = SubSeq(e, 1, 0) \o SubSeq(e, 0 + k + 1, Len(e))
  BY <1>4, <1>5, Zenon
<1> QED
  BY <1>2, <1>3, <1>4, <1>6

\* Buffer b is cut to m bytes.
Shortened(l, b, m) == [l EXCEPT ![b] = m]
\* The first k entries of e, the last of them cut to m bytes.
FirstCut(e, k, m) == Append(SubSeq(e, 1, k - 1), [e[k] EXCEPT !.len = m])

\* The last ones leave, and the last of the others is cut to m.
LEMMA EnteredCut ==
    ASSUME NEW s \in Seq(Nodes), Distinct(s), NEW l \in [Nodes -> Nat], NEW k \in 1..Len(s), NEW m \in Nat,
           NEW e, e = Entered(s, l), NEW c, c = Shortened(l, s[k], m)
    PROVE  /\ Entered(Without(s, k, Len(s) - k), c) = FirstCut(e, k, m)
           /\ c \in [Nodes -> Nat]
           /\ \A j \in 1..(k - 1) : c[s[j]] = l[s[j]]
           /\ c[s[k]] = m
<1> DEFINE n == Len(s)
           w == Without(s, k, n - k)
           p == SubSeq(e, 1, k - 1)
           x == [buf |-> s[k], len |-> m]
<1>1. n \in Nat /\ s \in [1..n -> Nodes] /\ k \in 1..n /\ k \in 0..n /\ n - k \in 0..(n - k) /\ n - (n - k) = k
  OBVIOUS
<1>2. /\ w \in Seq(Nodes) /\ Len(w) = n - (n - k)
      /\ \A i \in 1..(n - (n - k)) : w[i] = IF i <= k THEN s[i] ELSE s[i + (n - k)]
  BY <1>1, WithoutType
<1>3. w \in Seq(Nodes) /\ Len(w) = k /\ \A i \in 1..k : w[i] = s[i]
  <2> HIDE DEF w, n
  <2>1. \A i \in 1..k : i \in 1..(n - (n - k)) /\ i <= k
    BY <1>1
  <2> QED
    BY <1>1, <1>2, <2>1
<1>4. /\ e \in Seq(Entries) /\ Len(e) = n
      /\ \A i \in 1..n : e[i] = [buf |-> s[i], len |-> l[s[i]]]
  BY EnteredIs
<1>5. c \in [Nodes -> Nat] /\ c[s[k]] = m /\ \A b \in Nodes : b # s[k] => c[b] = l[b]
  BY <1>1 DEF Shortened
<1>6. ASSUME NEW i \in 1..(k - 1)
      PROVE  i \in 1..n /\ i \in 1..k /\ s[i] # s[k] /\ c[s[i]] = l[s[i]]
  <2>1. i \in 1..n /\ i \in 1..k /\ i # k
    BY <1>1
  <2>2. s[i] # s[k]
    BY <1>1, <2>1 DEF Distinct
  <2> QED
    BY <1>1, <1>5, <2>1, <2>2
<1>7. p \in Seq(Entries) /\ Len(p) = k - 1 /\ \A i \in 1..(k - 1) : p[i] = e[i]
  BY <1>1, <1>4
<1>8. x \in Entries /\ [e[k] EXCEPT !.len = m] = x
  <2>1. e[k] = [buf |-> s[k], len |-> l[s[k]]]
    BY <1>1, <1>4
  <2>2. s[k] \in Nodes
    BY <1>1
  <2> QED
    BY <2>1, <2>2 DEF Entries
<1> HIDE DEF w, p, x, n
<1>9. Append(p, x) \in Seq(Entries) /\ Len(Append(p, x)) = k
  BY <1>7, <1>8
<1>10. ASSUME NEW i \in 1..k
       PROVE  Append(p, x)[i] = [buf |-> w[i], len |-> c[w[i]]]
  <2>1. CASE i = k
    <3>1. Append(p, x)[i] = x
      BY <1>7, <1>8, <2>1
    <3>2. w[i] = s[k]
      BY <1>3, <2>1
    <3> QED
      BY <1>5, <3>1, <3>2 DEF x
  <2>2. CASE i # k
    <3>1. i \in 1..(k - 1)
      BY <2>2
    <3>2. Append(p, x)[i] = p[i]
      BY <1>7, <1>8, <3>1
    <3>3. p[i] = e[i] /\ w[i] = s[i] /\ i \in 1..n /\ c[s[i]] = l[s[i]]
      BY <1>3, <1>6, <1>7, <3>1
    <3> QED
      BY <1>4, <3>2, <3>3
  <2> QED
    BY <2>1, <2>2
<1>11. Entered(w, c) = Append(p, x)
  <2> DEFINE a == Append(p, x)
  <2>1. a \in Seq(Entries) /\ Len(a) = Len(w)
    BY <1>3, <1>9
  <2>2. \A i \in 1..Len(w) : a[i] = [buf |-> w[i], len |-> c[w[i]]]
    BY <1>3, <1>10
  <2> HIDE DEF a
  <2>3. Entered(w, c) = a
    BY <1>3, <1>5, <2>1, <2>2, SameEntries
  <2> QED
    BY <2>3 DEF a
<1> QED
  BY <1>5, <1>6, <1>8, <1>11 DEF w, p, n, FirstCut

-----------------------------------------------------------------------------
(* Every step of the ring is a step of Fifo, or none                        *)

LEMMA LengthsNumbers ==
    ASSUME Types
    PROVE  len \in [Nodes -> Nat]
BY LengthBound DEF Types

\* The state functions of Fifo in those of the ring.
LEMMA FifoStutters ==
    ASSUME Content' = Content, len' = len, users' = users
    PROVE  UNCHANGED Abs!vars
BY DEF Abs!vars

LEMMA FifoAdd ==
    ASSUME ~broken, QueueInv, QueueInv', NEW b \in Nodes, NEW n \in Lens \cup {1}, AddBuf(b, n)
    PROVE  Abs!Next
<1> DEFINE e == Entered(Content, len)
           f == Entered(Append(Content, b), len')
<1>1. Ring(Now, Content) /\ Types /\ Apart /\ Types'
  BY DEF QueueInv
<1>2. Content \in Seq(Nodes) /\ len \in [Nodes -> Nat] /\ len' \in [Nodes -> Nat]
  <2>1. (len \in [Nodes -> Nat])'
    BY <1>1, LengthBound DEF Types
  <2> QED
    BY <1>1, <2>1, LengthsNumbers DEF Ring
<1>3. b \notin ToSet(Content)
  BY <1>1 DEF AddBuf, sync, Apart
<1>4. Content' = Append(Content, b)
  BY <1>1, <1>3, AddRing
<1>5. \A k \in 1..Len(Content) : Content[k] # b /\ len'[Content[k]] = len[Content[k]]
  <2> SUFFICES ASSUME NEW k \in 1..Len(Content)
               PROVE  Content[k] # b /\ len'[Content[k]] = len[Content[k]]
    OBVIOUS
  <2>1. Content[k] # b /\ Content[k] \in Nodes
    BY <1>2, <1>3 DEF ToSet
  <2> QED
    BY <1>2, <2>1 DEF AddBuf, sync
<1>6. Longer(e, f, b)
  <2>1. \A m \in [Nodes -> Nat] : \A x, y :
           /\ \A k \in 1..Len(Content) : Content[k] # b /\ m[Content[k]] = len[Content[k]]
           /\ x = Entered(Content, len) /\ y = Entered(Append(Content, b), m)
           => Longer(x, y, b)
    BY <1>2, EnteredAppend
  <2> QED
    BY <1>2, <1>5, <2>1
<1>7. Entered(Content', len') = f
  BY <1>4
<1> HIDE DEF e, f
<1>8. Abs!Put
  <2>1. /\ \A k \in DOMAIN Entered(Content, len) : Entered(Content, len)[k].buf # b
        /\ Len(Entered(Content', len')) = Len(Entered(Content, len)) + 1
        /\ SubSeq(Entered(Content', len'), 1, Len(Entered(Content', len')) - 1) = Entered(Content, len)
        /\ Entered(Content', len')[Len(Entered(Content', len'))].buf = b
    BY <1>6, <1>7 DEF e, Longer
  <2> QED
    BY <2>1, Zenon DEF Abs!Put, Abs!Front, Abs!Last, Entered
<1> QED
  BY <1>8 DEF Abs!Next, AddBuf, sync

LEMMA FifoUnlinked ==
    ASSUME QueueInv, Unlinked, len' = len, users' = users
    PROVE  [Abs!Next]_Abs!vars
<1>1. Ring(Now, Content) /\ Types
  BY DEF QueueInv
<1>2. Content \in Seq(Nodes) /\ len \in [Nodes -> Nat]
  BY <1>1, LengthsNumbers DEF Ring
<1>3. CASE head = Null
  BY <1>1, <1>3, UnlinkedRing, FifoStutters
<1>4. CASE head # Null
  <2> DEFINE e == Entered(Content, len)
  <2>1. Len(Content) > 0 /\ Content' = Without(Content, 0, 1)
    BY <1>1, <1>4, UnlinkedRing
  <2>2. 1 \in 0..Len(Content) /\ 1 + 1 = 2
    BY <1>2, <2>1
  <2>3. Entered(Without(Content, 0, 1), len) = SubSeq(e, 1 + 1, Len(e))
    BY <1>2, <2>2, EnteredBehind
  <2>4. e \in Seq(Entries) /\ Len(e) = Len(Content)
    BY <1>2, EnteredIs
  <2>5. Tail(e) = SubSeq(e, 2, Len(e))
    <3> HIDE DEF e
    <3>1. Tail(e) \in Seq(Entries) /\ Len(Tail(e)) = Len(e) - 1 /\ \A i \in 1..(Len(e) - 1) : Tail(e)[i] = e[i + 1]
      BY <2>1, <2>4
    <3>2. /\ SubSeq(e, 2, Len(e)) \in Seq(Entries) /\ Len(SubSeq(e, 2, Len(e))) = Len(e) - 1
          /\ \A i \in 1..(Len(e) - 1) : SubSeq(e, 2, Len(e))[i] = e[i + 1]
      BY <2>1, <2>4
    <3> QED
      BY <3>1, <3>2, SeqEqual
  <2>6. e # <<>>
    <3> SUFFICES ASSUME e = <<>>
                 PROVE  FALSE
      OBVIOUS
    <3>1. Len(e) = 0
      OBVIOUS
    <3> QED
      BY <1>2, <2>1, <2>4, <3>1
  <2>7. Entered(Content', len') = Tail(e)
    BY <2>1, <2>2, <2>3, <2>5
  <2>8. Abs!Take
    BY <2>6, <2>7, Zenon DEF Abs!Take, Entered
  <2> QED
    BY <2>8 DEF Abs!Next
<1> QED
  BY <1>3, <1>4

LEMMA FifoRemove ==
    ASSUME QueueInv, NEW t \in users \cap Owners, NEW b, RemoveNode(t, b)
    PROVE  Abs!Next
<1> DEFINE e == Entered(Content, len)
<1>1. Ring(Now, Content) /\ Types
  BY DEF QueueInv
<1>2. Content \in Seq(Nodes) /\ len \in [Nodes -> Nat]
  BY <1>1, LengthsNumbers DEF Ring
<1>3. PICK i \in 1..Len(Content) : Content' = Without(Content, i - 1, 1)
  BY <1>1, RemoveNodeLeaves
<1>4. i - 1 \in 0..Len(Content) /\ 1 \in 0..(Len(Content) - (i - 1)) /\ (i - 1) + 1 + 1 = i + 1
  BY <1>2
<1>5. Entered(Without(Content, i - 1, 1), len) = SubSeq(e, 1, i - 1) \o SubSeq(e, (i - 1) + 1 + 1, Len(e))
  <2>1. \A x : x = Entered(Content, len) =>
           Entered(Without(Content, i - 1, 1), len) = SubSeq(x, 1, i - 1) \o SubSeq(x, (i - 1) + 1 + 1, Len(x))
    BY <1>2, <1>4, EnteredWithout
  <2> QED
    BY <2>1
<1>6. i \in DOMAIN e
  BY <1>2, EnteredIs
<1>7. len' = len /\ users' = users
  BY DEF RemoveNode, sync
<1>8. Entered(Content', len') = SubSeq(e, 1, i - 1) \o SubSeq(e, i + 1, Len(e))
  BY <1>3, <1>4, <1>5, <1>7
<1> HIDE DEF e
<1>9. \E k \in DOMAIN e : Entered(Content', len') = SubSeq(e, 1, k - 1) \o SubSeq(e, k + 1, Len(e))
  BY <1>6, <1>8
<1>10. Abs!Drop
  BY <1>9, Zenon DEF Abs!Drop, Abs!RemoveAt, Entered, e
<1>11. users = Owners
  BY <1>1, OneKind, KindsApart DEF Types, Kinds
<1> QED
  BY <1>7, <1>10, <1>11 DEF Abs!Next

\* The bytes of the queue, cut to its first k entries, the last of which has m bytes.
LEMMA CutBytes ==
    ASSUME NEW s \in Seq(Nodes), Distinct(s), len \in [Nodes -> Nat], NEW k \in 1..Len(s), NEW m \in Nat,
           NEW q, q = FirstCut(Entered(s, len), k, m)
    PROVE  Abs!Bytes(q) = BytesIn(SubSeq(s, 1, k - 1)) + m
<1> DEFINE e == Entered(s, len)
           n == Len(s)
           v == [i \in 1..n |-> len[s[i]]]
           p == SubSeq(e, 1, k - 1)
           x == [e[k] EXCEPT !.len = m]
           u == [i \in 1..Len(q) |-> q[i].len]
<1>1. n \in Nat /\ s \in [1..n -> Nodes] /\ k - 1 \in 0..n
  OBVIOUS
<1>2. PICK g : /\ SumsOf(g, v, n)
               /\ \A i \in 0..n : g[i] \in Nat /\ BytesIn(SubSeq(s, 1, i)) = g[i]
  BY PrefixBytes
<1>3. /\ e \in Seq(Entries) /\ Len(e) = n
      /\ \A i \in 1..n : e[i] \in Entries /\ e[i] = [buf |-> s[i], len |-> len[s[i]]]
  BY EnteredIs
<1> HIDE DEF e
<1>4. p \in Seq(Entries) /\ Len(p) = k - 1 /\ \A i \in 1..(k - 1) : p[i] = e[i]
  BY <1>1, <1>3
<1>5. x \in Entries /\ x.len = m
  <2>1. e[k] \in Entries /\ e[k] = [buf |-> s[k], len |-> len[s[k]]]
    BY <1>3
  <2> QED
    BY <2>1 DEF Entries
<1>6. q = Append(p, x)
  BY DEF e, FirstCut
<1> HIDE DEF p, x
<1>7. /\ q \in Seq(Entries) /\ Len(q) = k /\ q[k] = x
      /\ \A i \in 1..(k - 1) : q[i] = p[i]
  BY <1>1, <1>4, <1>5, <1>6, AppendProperties
<1>8. u[k] = m /\ \A i \in 1..(k - 1) : u[i] = v[i]
  <2>1. u[k] = m
    BY <1>5, <1>7
  <2>2. ASSUME NEW i \in 1..(k - 1)
        PROVE  u[i] = v[i]
    <3>1. i \in 1..n /\ i \in 1..k
      BY <1>1
    <3>2. u[i] = q[i].len
      BY <1>7, <3>1
    <3>3. q[i] = e[i]
      BY <1>4, <1>7
    <3>4. e[i].len = len[s[i]]
      <4>1. e[i] = [buf |-> s[i], len |-> len[s[i]]]
        BY <1>3, <3>1
      <4> QED
        BY <4>1
    <3> QED
      BY <3>1, <3>2, <3>3, <3>4
  <2> QED
    BY <2>1, <2>2
<1> DEFINE h == [i \in 0..k |-> IF i = k THEN g[k - 1] + m ELSE g[i]]
<1>9. SumsOf(h, u, Len(q))
  <2> HIDE DEF u, v
  <2>1. g[0] = 0 /\ \A i \in 1..n : g[i] = g[i - 1] + v[i]
    BY <1>2 DEF SumsOf
  <2>2. h[0] = 0
    BY <2>1, <1>1
  <2>3. ASSUME NEW i \in 1..k
        PROVE  h[i] = h[i - 1] + u[i]
    <3>1. h[i - 1] = g[i - 1]
      BY <1>1
    <3>2. CASE i = k
      BY <1>8, <3>1, <3>2
    <3>3. CASE i # k
      <4>1. i \in 1..(k - 1) /\ i \in 1..n
        BY <1>1, <3>3
      <4> QED
        BY <1>8, <2>1, <3>1, <3>3, <4>1
    <3> QED
      BY <3>2, <3>3
  <2> HIDE DEF h
  <2> QED
    BY <1>7, <2>2, <2>3 DEF SumsOf
<1>10. Abs!Bytes(q) = h[Len(q)]
  <2> HIDE DEF h
  <2> QED
    BY <1>7, <1>9, EntryBytes
<1>11. h[Len(q)] = g[k - 1] + m
  BY <1>1, <1>7
<1> QED
  BY <1>1, <1>2, <1>10, <1>11

LEMMA FifoDecrease ==
    ASSUME QueueInv, NEW t \in users \cap Owners, NEW n \in 0..BytesIn(Content), DecreaseToLen(t, n)
    PROVE  Abs!Next
<1> DEFINE s == Content
           e == Entered(s, len)
           f == Entered(Content', len')
<1>1. Ring(Now, s) /\ Types
  BY DEF QueueInv
<1>2. s \in Seq(Nodes) /\ len \in [Nodes -> Nat] /\ Distinct(s) /\ Len(s) \in Nat
  BY <1>1, LengthsNumbers DEF Ring
<1>3. BytesIn(s) \in Nat /\ Abs!Bytes(e) = BytesIn(s) /\ n \in Nat
  <2>1. PICK g : (\A k \in 0..Len(s) : g[k] \in Nat) /\ BytesIn(s) = g[Len(s)]
    BY <1>2, PrefixBytes
  <2>2. BytesIn(s) \in Nat
    BY <1>2, <2>1
  <2> QED
    BY <1>2, <2>2, EntriesSum
<1>4. PICK k \in 0..Len(s), m \in Nat :
         /\ Content' = Without(s, k, Len(s) - k)
         /\ k = 0 => n = 0 /\ len' = len
         /\ k > 0 => /\ BytesIn(SubSeq(s, 1, k - 1)) + m = n
                     /\ BytesIn(SubSeq(s, 1, k - 1)) \in Nat
                     /\ m <= len[s[k]]
                     /\ len' = [len EXCEPT ![s[k]] = m]
  BY <1>1, <1>2, <1>3, DecreaseLeaves
<1>5. e \in Seq(Entries) /\ Len(e) = Len(s) /\ DOMAIN e = 1..Len(s)
      /\ \A j \in 1..Len(s) : e[j] = [buf |-> s[j], len |-> len[s[j]]]
  BY <1>2, EnteredIs
<1> HIDE DEF e, s
<1>6. ASSUME k = 0
      PROVE  n = 0 /\ f = <<>>
  <2>1. n = 0 /\ len' = len /\ Content' = Without(s, 0, Len(s))
    BY <1>2, <1>4, <1>6
  <2>2. Len(s) \in 0..(Len(s) - 0) /\ Len(s) - Len(s) = 0 /\ 0 \in 0..Len(s)
    BY <1>2
  <2>3. Content' \in Seq(Nodes) /\ Len(Content') = 0
    BY <1>2, <2>1, <2>2, WithoutType
  <2>4. f \in Seq(Entries) /\ Len(f) = 0
    BY <1>2, <2>1, <2>3, EnteredIs
  <2> HIDE DEF f
  <2>5. f = <<>>
    BY <2>4
  <2> QED
    BY <2>1, <2>5
<1>7. ASSUME k > 0
      PROVE  /\ k \in DOMAIN e /\ m \in 0..n /\ m <= e[k].len
             /\ f = FirstCut(e, k, m)
             /\ Abs!Bytes(f) = n
  <2>1. k \in 1..Len(s)
    BY <1>7
  <2>2. k \in DOMAIN e /\ m <= e[k].len
    BY <1>4, <1>5, <1>7, <2>1
  <2>3. m \in 0..n
    BY <1>3, <1>4, <1>7
  <2>4. \A x, c : (x = Entered(s, len) /\ c = Shortened(len, s[k], m)) =>
            Entered(Without(s, k, Len(s) - k), c) = FirstCut(x, k, m)
    BY <1>2, <2>1, EnteredCut
  <2>5. f = FirstCut(e, k, m)
    <3>1. len' = Shortened(len, s[k], m)
      BY <1>4, <1>7 DEF Shortened
    <3> QED
      BY <1>4, <2>4, <3>1 DEF e
  <2>6. \A q : q = FirstCut(Entered(s, len), k, m) => Abs!Bytes(q) = BytesIn(SubSeq(s, 1, k - 1)) + m
    BY <1>2, <2>1, CutBytes
  <2>7. Abs!Bytes(f) = n
    BY <1>4, <1>7, <2>5, <2>6 DEF e
  <2> QED
    BY <2>2, <2>3, <2>5, <2>7
<1>8. \/ n = 0 /\ f = <<>>
      \/ \E j \in DOMAIN e, i \in 0..n :
            /\ i <= e[j].len
            /\ f = FirstCut(e, j, i)
            /\ Abs!Bytes(f) = n
  <2>1. k = 0 \/ k > 0
    OBVIOUS
  <2> HIDE DEF f
  <2> QED
    BY <1>6, <1>7, <2>1
<1>9. Abs!Keep(n)
  BY <1>8, Zenon DEF Abs!Keep, FirstCut, Entered, e, f, s
<1>10. users = Owners /\ users' = users
  BY <1>1, OneKind, KindsApart DEF Types, Kinds, DecreaseToLen, sync
<1>11. n \in 0..Abs!Bytes(e)
  BY <1>3 DEF s
<1> QED
  BY <1>9, <1>10, <1>11, Zenon DEF Abs!Next, Entered, e, s

LEMMA FifoAccumulate ==
    ASSUME QueueInv, NEW t \in users \cap Owners, NEW n \in 0..BytesIn(Content), Accumulate(t, n)
    PROVE  Abs!Next
<1> DEFINE s == Content
           e == Entered(s, len)
           f == Entered(Content', len')
<1>1. Ring(Now, s) /\ Types
  BY DEF QueueInv
<1>2. s \in Seq(Nodes) /\ len \in [Nodes -> Nat] /\ Len(s) \in Nat
  BY <1>1, LengthsNumbers DEF Ring
<1>3. PICK g : /\ \A k \in 0..Len(s) : g[k] \in Nat /\ BytesIn(SubSeq(s, 1, k)) = g[k]
               /\ BytesIn(s) = g[Len(s)]
  BY <1>2, PrefixBytes
<1>4. BytesIn(s) \in Nat /\ Abs!Bytes(e) = BytesIn(s) /\ n \in Nat
      /\ \A k \in 0..Len(s) : Abs!Bytes(SubSeq(e, 1, k)) = BytesIn(SubSeq(s, 1, k))
  <2>1. BytesIn(s) \in Nat
    BY <1>2, <1>3
  <2> QED
    BY <1>2, <2>1, EntriesSum
<1>5. PICK k \in 0..Len(s) :
         /\ Content' = Without(s, 0, k)
         /\ BytesIn(SubSeq(s, 1, k)) <= n
         /\ k < Len(s) => ~(BytesIn(SubSeq(s, 1, k + 1)) <= n)
  BY <1>1, <1>2, <1>4, AccumulateLeaves
<1>6. Len(e) = Len(s)
  BY <1>2, EnteredIs
<1>7. len' = len /\ users' = users
  BY DEF Accumulate, sync
<1> HIDE DEF e, s
<1>8. f = SubSeq(e, k + 1, Len(e))
  <2>1. \A x : x = Entered(s, len) => Entered(Without(s, 0, k), len) = SubSeq(x, k + 1, Len(x))
    BY <1>2, EnteredBehind
  <2> QED
    BY <1>5, <1>7, <2>1 DEF e
<1>9. k \in 0..Len(e) /\ Abs!Bytes(SubSeq(e, 1, k)) <= n
  BY <1>4, <1>5, <1>6
<1>10. k < Len(e) => Abs!Bytes(SubSeq(e, 1, k + 1)) > n
  <2> SUFFICES ASSUME k < Len(s)
               PROVE  Abs!Bytes(SubSeq(e, 1, k + 1)) > n
    BY <1>6
  <2>1. k + 1 \in 0..Len(s)
    BY <1>2
  <2>2. Abs!Bytes(SubSeq(e, 1, k + 1)) = g[k + 1] /\ g[k + 1] \in Nat /\ ~(g[k + 1] <= n)
    BY <1>3, <1>4, <1>5, <2>1
  <2> QED
    BY <1>4, <2>2
<1> HIDE DEF f
<1>11. \E j \in 0..Len(e) : /\ Abs!Bytes(SubSeq(e, 1, j)) <= n
                            /\ j < Len(e) => Abs!Bytes(SubSeq(e, 1, j + 1)) > n
                            /\ f = SubSeq(e, j + 1, Len(e))
  BY <1>8, <1>9, <1>10
<1>12. Abs!TakeUpTo(n)
  BY <1>11, Zenon DEF Abs!TakeUpTo, Entered, e, f, s
<1>13. users = Owners
  BY <1>1, OneKind, KindsApart DEF Types, Kinds
<1>14. n \in 0..Abs!Bytes(e)
  BY <1>4 DEF s
<1> QED
  BY <1>7, <1>12, <1>13, <1>14, Zenon DEF Abs!Next, Entered, e, s

LEMMA FifoInit == Init => Abs!Init
<1> SUFFICES ASSUME Init
             PROVE  Abs!Init
  OBVIOUS
<1>1. Content = <<>>
  BY DEF Init, Content
<1>2. Entered(Content, len) = <<>>
  BY <1>1 DEF Entered
<1> QED
  BY <1>2, Zenon DEF Abs!Init, Entered

LEMMA FifoNext == QueueInv /\ QueueInv' /\ [Next]_vars => [Abs!Next]_Abs!vars
<1> SUFFICES ASSUME QueueInv, QueueInv', [Next]_vars
             PROVE  [Abs!Next]_Abs!vars
  OBVIOUS
<1>1. Ring(Now, Content)
  BY DEF QueueInv
<1>2. ASSUME UNCHANGED <<ring, len, users>>
      PROVE  UNCHANGED Abs!vars
  BY <1>1, <1>2, RingStays, FifoStutters
<1>3. ASSUME NEW b \in Nodes, NEW n \in IF users = Owners THEN Lens ELSE {1}, AddBuf(b, n), ~broken
      PROVE  Abs!Next
  <2>1. n \in Lens \cup {1}
    OBVIOUS
  <2> QED
    BY <1>3, <2>1, FifoAdd
<1>4. ASSUME NEW t \in users \cap Removers,
             \/ \E place \in {"check", "drain"} : StartRemove(t, place)
             \/ CheckHead(t) \/ StartSend(t) \/ InitSection(t) \/ EnterSend(t) \/ PeekAndSend(t)
      PROVE  UNCHANGED Abs!vars
  BY <1>2, <1>4 DEF StartRemove, sync, CheckHead, StartSend, InitSection, EnterSend, PeekAndSend, sync
<1>5. ASSUME NEW t \in users \cap Removers, TakeBuf(t) \/ DrainBuf(t) \/ DropSent(t)
      PROVE  [Abs!Next]_Abs!vars
  BY <1>5, FifoUnlinked DEF TakeBuf, sync, DrainBuf, sync, DropSent
<1>6. ASSUME NEW t \in users \cap Holders, FreeMine(t)
      PROVE  UNCHANGED Abs!vars
  BY <1>2, <1>6 DEF FreeMine, sync
<1>7. ASSUME NEW t \in users \cap Owners, NEW b \in Nodes, RemoveNode(t, b)
      PROVE  Abs!Next
  BY <1>7, FifoRemove
<1>8. ASSUME NEW t \in users \cap Owners, NEW n \in 0..BytesIn(Content),
             DecreaseToLen(t, n) \/ Accumulate(t, n)
      PROVE  Abs!Next
  BY <1>8, FifoDecrease, FifoAccumulate
<1>9. CASE UNCHANGED vars
  BY <1>2, <1>9 DEF vars, sync
<1> QED
  BY <1>3, <1>4, <1>5, <1>6, <1>7, <1>8, <1>9 DEF Next, Operation

\* The queue is a FIFO: however the unlocked test of remove_buf interleaves with the adds
\* and removals of others, each step of the code puts one buffer behind the others, takes
\* the first, or leaves the queue alone; and an owner's cut leaves exactly the bytes asked for.
THEOREM AlwaysFifo == Spec => QueueIsFifo
BY FifoInit, FifoNext, QueueAlways, PTL DEF Spec, QueueIsFifo, Abs!Spec
=============================================================================
