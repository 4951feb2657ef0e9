-------------------------- MODULE AddrAllocProofs ---------------------------
(***************************************************************************)
(* Proofs about AddrAlloc for any stations, lengths and identities: every   *)
(* handle is a pool of addresses, and as long as none of the faults has     *)
(* happened the list of the one who works is the table, the table's rows    *)
(* lie apart, and no address is handed out twice.                           *)
(***************************************************************************)
EXTENDS AddrAlloc, WellFoundedInduction, SequenceTheorems, FiniteSetTheorems, TLAPS

-----------------------------------------------------------------------------
(* The inductive invariant                                                  *)

\* Records inside the segment.  One without addresses is at its beginning.
Good == {r \in [addr : 0..Size, len : 0..Size, id : Ids \cup {NoId}] :
            End(r) <= Size /\ (r.len = 0 => r.addr = 0)}
Lists == Seq(Good)

\* The records are in order and neither touch nor overlap.
Sorted(l) == \A j, k \in 1..Len(l) : j < k => Below(l[j], l[k])

\* Every row has an identity of its own.
OwnIds(R) == \A q, r \in R : q.id # NoId /\ (q.id = r.id => q = r)

Statements == [kind : {"insert", "update", "delete"}, rec : Good, pos : Nat]
Calls      == [op : Ops, at : 0..Size, len : Asked \cup Freed \cup {0}]

\* What a statement makes of the rows R, an insert without the identity, and what the rest
\* of a call makes of them.
Done(R, st) == IF st.kind = "insert" THEN R \cup {st.rec}
               ELSE IF st.kind = "update" THEN {IF r.id = st.rec.id THEN st.rec ELSE r : r \in R}
               ELSE {r \in R : r.id # st.rec.id}
Rest(R, td) == IF td = <<>> THEN R
               ELSE IF Len(td) = 1 THEN Done(R, td[1]) ELSE Done(Done(R, td[1]), td[2])

\* Addresses in the station's list, those of its call, and those that the call is about to
\* hand out; with the ones handed out, all that must be in the table.
Mine(s)  == Cover(ToSet(list[s]))
Asks(s)  == IF call[s].op = "alloc" THEN Run(call[s].at, call[s].len) ELSE {}
Holds(s) == IF todo[s] = <<>> THEN Asks(s) ELSE {}
Taken    == granted \cup UNION {Holds(s) : s \in Stations}

Types ==
    /\ open \subseteq Stations
    /\ list \in [Stations -> Lists] /\ todo \in [Stations -> Seq(Statements)]
    /\ call \in [Stations -> Calls]
    /\ table \subseteq Good /\ IsFiniteSet(table) /\ OwnIds(table)
    /\ sound \subseteq open /\ begun \subseteq open /\ stale \subseteq open
    /\ intact \in BOOLEAN /\ granted \subseteq Space

\* A station without a call has nothing to execute, and one without a handle has no call.
Idle ==
    \A s \in Stations :
        /\ s \notin open => call[s] = NoCall
        /\ call[s] = NoCall => todo[s] = <<>> /\ s \notin begun

\* A call has two statements at most, and an insert is the last; the record it is for
\* waits in the list l for its identity.
Plan(td, l) ==
    /\ Len(td) <= 2
    /\ \A k \in 1..Len(td) :
          IF td[k].kind = "insert"
          THEN k = Len(td) /\ td[k].pos \in 1..Len(l) /\ l[td[k].pos] = td[k].rec /\ td[k].rec.id = NoId
          ELSE td[k].pos = 0

Pending == \A s \in Stations : Plan(todo[s], list[s])

SoundSorted == \A s \in sound : Sorted(list[s])

\* Only a sound station has statements to execute, and while one has executed the first
\* of its two nobody else's list is up to date.
OneHalfDone ==
    \A s \in Stations :
        /\ todo[s] # <<>> => s \in sound
        /\ HalfDone(s) => Len(todo[s]) = 1 /\ s \notin stale /\ open \ {s} \subseteq stale

\* The rest of its call makes a station's list of the table.
Agrees(s) ==
    /\ Rest(table, todo[s]) = ToSet(list[s])
    /\ Len(todo[s]) = 2 => Done(table, todo[s][1]) # table
    /\ Taken \subseteq Mine(s)
    /\ Asks(s) \subseteq Mine(s)
    /\ todo[s] # <<>> => /\ Asks(s) \cap Taken = {}
                         /\ s \notin begun => Asks(s) \cap Cover(table) = {}

\* What is handed out, and what each call is about to hand out, lie apart.
HeldApart ==
    /\ \A s \in Stations : Holds(s) \cap granted = {}
    /\ \A s, t \in Stations : s # t => Holds(s) \cap Holds(t) = {}

Undamaged ==
    /\ OneHalfDone
    /\ \A s \in sound \ stale : Agrees(s)
    /\ HeldApart
    /\ (\A s \in Stations : ~HalfDone(s)) => Apart(table) /\ Taken \subseteq Cover(table)

AddrInv == Types /\ Idle /\ Pending /\ SoundSorted /\ (intact => Undamaged)

-----------------------------------------------------------------------------
(* Induction                                                                *)

\* A set that has 0 and the successor of each of its numbers has every number.
LEMMA Induction ==
    ASSUME NEW S, 0 \in S, \A n \in Nat : n \in S => n + 1 \in S
    PROVE  \A n \in Nat : n \in S
<1> DEFINE T == Nat \ S
<1> SUFFICES ASSUME T # {}
             PROVE  FALSE
  OBVIOUS
<1>1. PICK m \in T : \A y \in T : ~(<<y, m>> \in OpToRel(<, Nat))
  BY WFMin, NatLessThanWellFounded, Zenon
<1>2. m \in Nat /\ m # 0
  OBVIOUS
<1>3. m - 1 \in Nat /\ m - 1 < m
  BY <1>2
<1>4. m - 1 \in S
  BY <1>1, <1>3 DEF OpToRel
<1>5. m - 1 + 1 \in S
  BY <1>3, <1>4
<1> QED
  BY <1>2, <1>5

\* A set of numbers that is not empty has a least one, and below a bound a largest one.
LEMMA LeastExists ==
    ASSUME NEW S \in SUBSET Nat, S # {}
    PROVE  Min(S) \in S /\ \A y \in S : Min(S) <= y
<1>1. PICK m \in S : \A y \in S : ~(<<y, m>> \in OpToRel(<, Nat))
  BY WFMin, NatLessThanWellFounded, Zenon
<1>2. ASSUME NEW y \in S
      PROVE  m <= y
  <2>1. m \in Nat /\ y \in Nat
    OBVIOUS
  <2>2. y < m => <<y, m>> \in OpToRel(<, Nat)
    BY <2>1 DEF OpToRel
  <2>3. ~(y < m)
    BY <1>1, <2>2, Zenon
  <2> QED
    BY <2>1, <2>3
<1> QED
  BY <1>2, Zenon DEF Min

LEMMA LargestExists ==
    ASSUME NEW n \in Nat, NEW S \in SUBSET (0..n), S # {}
    PROVE  Max(S) \in S /\ \A y \in S : Max(S) >= y
<1> DEFINE T == {m \in 0..n : n - m \in S}
<1>1. T \in SUBSET Nat /\ T # {}
  <2>1. PICK x \in S : TRUE
    OBVIOUS
  <2>2. x \in 0..n /\ n - x \in 0..n /\ n - (n - x) = x
    OBVIOUS
  <2>3. n - x \in T
    BY <2>1, <2>2
  <2>4. T \in SUBSET Nat
    OBVIOUS
  <2> HIDE DEF T
  <2> QED
    BY <2>3, <2>4
<1>2. Min(T) \in T /\ \A y \in T : Min(T) <= y
  BY <1>1, LeastExists
<1>3. PICK m \in T : \A y \in T : m <= y
  BY <1>2
<1>4. n - m \in S /\ \A y \in S : n - m >= y
  <2>1. ASSUME NEW y \in S
        PROVE  n - m >= y
    <3>1. n - y \in T
      OBVIOUS
    <3>2. m <= n - y /\ m \in Nat /\ y \in Nat
      BY <1>3, <3>1
    <3> QED
      BY <3>2
  <2> QED
    BY <2>1
<1> QED
  BY <1>4, Zenon DEF Max

-----------------------------------------------------------------------------
(* Records and lists of them                                                *)

LEMMA GoodFacts ==
    ASSUME NEW r \in Good
    PROVE  /\ r.addr \in Nat /\ r.len \in Nat /\ r.id \in Ids \cup {NoId}
           /\ End(r) = r.addr + r.len /\ End(r) \in Nat /\ End(r) <= Size
           /\ r.len = 0 => r.addr = 0
BY AddrAllocAssumption DEF Good, End

LEMMA GoodMade ==
    ASSUME NEW a \in Nat, NEW n \in Nat, NEW i \in Ids \cup {NoId}, a + n <= Size, n = 0 => a = 0
    PROVE  /\ Rec(a, n, i) \in Good /\ End(Rec(a, n, i)) = a + n
           /\ Rec(a, n, i).addr = a /\ Rec(a, n, i).len = n /\ Rec(a, n, i).id = i
<1>1. a \in 0..Size /\ n \in 0..Size
  BY AddrAllocAssumption
<1> QED
  BY <1>1 DEF Good, End, Rec

LEMMA RecFields ==
    /\ \A r \in Good : r = Rec(r.addr, r.len, r.id)
    /\ \A a, n, i, x : [Rec(a, n, i) EXCEPT !.len = x] = Rec(a, x, i)
    /\ \A a, n, i : Rec(a, n, i).addr = a /\ Rec(a, n, i).len = n /\ Rec(a, n, i).id = i
BY DEF Good, Rec

LEMMA FrontFields == \A x, y, z, n : FrontFreed(Rec(x, y, z), n) = Rec(x + n, y - n, z)
<1> TAKE x, y, z, n
<1> DEFINE f == [Rec(x, y, z) EXCEPT !.addr = x + n]
<1>1. f = [addr |-> x + n, len |-> y, id |-> z]
  BY DEF Rec
<1>2. [f EXCEPT !.len = y - n] = [addr |-> x + n, len |-> y - n, id |-> z]
  <2> HIDE DEF f
  <2> QED
    BY <1>1
<1>3. [Rec(x, y, z) EXCEPT !.addr = x + n, !.len = y - n] = Rec(x + n, y - n, z)
  BY <1>1, <1>2 DEF Rec
<1>4. FrontFreed(Rec(x, y, z), n)
      = [[addr |-> x, len |-> y, id |-> z] EXCEPT !.addr = x + n, !.len = y - n]
  BY Zenon DEF FrontFreed, Rec
<1> QED
  BY <1>3, <1>4 DEF Rec

LEMMA BelowOrder ==
    ASSUME NEW q \in Good, NEW r \in Good, NEW t \in Good, Below(q, r)
    PROVE  q # r /\ ~Below(r, q) /\ (Below(r, t) => Below(q, t))
<1>1. /\ q.addr \in Nat /\ q.len \in Nat /\ r.addr \in Nat /\ r.len \in Nat
      /\ End(q) = q.addr + q.len /\ End(r) = r.addr + r.len /\ t.addr \in Nat
  BY GoodFacts
<1> QED
  BY <1>1 DEF Below

LEMMA ListFacts ==
    ASSUME NEW l \in Lists
    PROVE  /\ Len(l) \in Nat /\ DOMAIN l = 1..Len(l)
           /\ \A k \in 1..Len(l) : l[k] \in Good
           /\ ToSet(l) = {l[k] : k \in 1..Len(l)} /\ ToSet(l) \subseteq Good
BY DEF Lists, ToSet

LEMMA SortedApart ==
    ASSUME NEW l \in Lists, Sorted(l)
    PROVE  /\ \A j, k \in 1..Len(l) : j # k => l[j] # l[k]
           /\ Apart(ToSet(l))
<1>1. ASSUME NEW j \in 1..Len(l), NEW k \in 1..Len(l), j # k
      PROVE  l[j] # l[k] /\ (Below(l[j], l[k]) \/ Below(l[k], l[j]))
  <2>1. j < k \/ k < j
    BY <1>1, ListFacts
  <2>2. l[j] \in Good /\ l[k] \in Good
    BY ListFacts
  <2> QED
    BY <2>1, <2>2, BelowOrder DEF Sorted
<1>2. Apart(ToSet(l))
  <2> SUFFICES ASSUME NEW q \in ToSet(l), NEW r \in ToSet(l)
               PROVE  q = r \/ Below(q, r) \/ Below(r, q)
    BY DEF Apart
  <2>1. PICK j \in 1..Len(l) : q = l[j]
    BY ListFacts
  <2>2. PICK k \in 1..Len(l) : r = l[k]
    BY ListFacts
  <2> QED
    BY <2>1, <2>2, <1>1
<1> QED
  BY <1>1, <1>2

\* The list with another record in one of its places.
With(l, k, r) == [l EXCEPT ![k] = r]

\* A record in the place of another one keeps the order if it fits between the neighbours.
LEMMA ReplaceList ==
    ASSUME NEW l \in Lists, Sorted(l), NEW k \in 1..Len(l), NEW r \in Good,
           k > 1 => Below(l[k - 1], r),
           k < Len(l) => Below(r, l[k + 1])
    PROVE  /\ With(l, k, r) \in Lists /\ Sorted(With(l, k, r)) /\ Len(With(l, k, r)) = Len(l)
           /\ \A j \in 1..Len(l) : With(l, k, r)[j] = IF j = k THEN r ELSE l[j]
           /\ ToSet(With(l, k, r)) = (ToSet(l) \ {l[k]}) \cup {r}
<1> DEFINE m == With(l, k, r)
<1>1. m \in Lists /\ Len(m) = Len(l) /\ Len(l) \in Nat
      /\ \A j \in 1..Len(l) : m[j] = IF j = k THEN r ELSE l[j]
  BY DEF Lists, With
<1> HIDE DEF m
<1>2. \A j \in 1..Len(l) : l[j] \in Good
  BY ListFacts
<1>3. ASSUME NEW j \in 1..Len(l), NEW q \in 1..Len(l), j < q
      PROVE  Below(m[j], m[q])
  <2>1. CASE j # k /\ q # k
    BY <2>1, <1>1, <1>3 DEF Sorted
  <2>2. CASE q = k
    <3>1. k > 1 /\ k - 1 \in 1..Len(l) /\ j <= k - 1 /\ m[j] = l[j] /\ m[q] = r
      BY <2>2, <1>1, <1>3
    <3>2. CASE j = k - 1
      BY <3>1, <3>2
    <3>3. CASE j < k - 1
      <4>1. Below(l[j], l[k - 1])
        BY <3>1, <3>3 DEF Sorted
      <4> QED
        BY <4>1, <3>1, <1>2, BelowOrder
    <3> QED
      BY <3>1, <3>2, <3>3, <1>1
  <2>3. CASE j = k
    <3>1. k < Len(l) /\ k + 1 \in 1..Len(l) /\ k + 1 <= q /\ m[q] = l[q] /\ m[j] = r
      BY <2>3, <1>1, <1>3
    <3>2. CASE q = k + 1
      BY <3>1, <3>2
    <3>3. CASE k + 1 < q
      <4>1. Below(l[k + 1], l[q])
        BY <3>1, <3>3 DEF Sorted
      <4> QED
        BY <4>1, <3>1, <1>2, BelowOrder
    <3> QED
      BY <3>1, <3>2, <3>3, <1>1
  <2> QED
    BY <2>1, <2>2, <2>3
<1>4. Sorted(m)
  BY <1>1, <1>3 DEF Sorted
<1>5. ToSet(m) = (ToSet(l) \ {l[k]}) \cup {r}
  <2>1. ToSet(m) = {m[j] : j \in 1..Len(l)} /\ ToSet(l) = {l[j] : j \in 1..Len(l)}
    BY <1>1, ListFacts
  <2>2. \A j \in 1..Len(l) : j # k => l[j] # l[k]
    BY SortedApart
  <2>3. ASSUME NEW j \in 1..Len(l)
        PROVE  m[j] \in (ToSet(l) \ {l[k]}) \cup {r}
    BY <2>1, <2>2, <1>1
  <2>4. r \in ToSet(m) /\ ToSet(l) \ {l[k]} \subseteq ToSet(m)
    BY <2>1, <1>1
  <2> QED
    BY <2>1, <2>3, <2>4
<1> QED
  BY <1>1, <1>4, <1>5 DEF m

\* Without one of its records a list is still in order.
LEMMA RemoveList ==
    ASSUME NEW l \in Lists, Sorted(l), NEW k \in 1..Len(l)
    PROVE  LET m == RemoveAt(l, k)
           IN  /\ m \in Lists /\ Sorted(m) /\ Len(m) = Len(l) - 1
               /\ \A j \in 1..Len(m) : m[j] = IF j < k THEN l[j] ELSE l[j + 1]
               /\ ToSet(m) = ToSet(l) \ {l[k]}
<1> DEFINE f == SubSeq(l, 1, k - 1)
           b == SubSeq(l, k + 1, Len(l))
           m == RemoveAt(l, k)
<1>1. l \in Seq(Good) /\ Len(l) \in Nat
  BY DEF Lists
<1>2. f \in Seq(Good) /\ Len(f) = k - 1 /\ \A j \in 1..(k - 1) : f[j] = l[j]
  BY <1>1
<1>3. b \in Seq(Good) /\ Len(b) = Len(l) - k /\ \A j \in 1..(Len(l) - k) : b[j] = l[k + j]
  BY <1>1
<1>4. m = f \o b
  BY DEF RemoveAt
<1> HIDE DEF f, b, m
<1>5. m \in Seq(Good) /\ Len(m) = Len(f) + Len(b)
      /\ \A j \in 1..(Len(f) + Len(b)) : m[j] = IF j <= Len(f) THEN f[j] ELSE b[j - Len(f)]
  BY <1>2, <1>3, <1>4, ConcatProperties
<1>6. Len(m) = Len(l) - 1
  <2>1. (k - 1) + (Len(l) - k) = Len(l) - 1
    BY <1>1
  <2> QED
    BY <2>1, <1>2, <1>3, <1>5
<1>7. ASSUME NEW j \in 1..(Len(l) - 1)
      PROVE  m[j] = IF j < k THEN l[j] ELSE l[j + 1]
  <2>0. j \in 1..(Len(f) + Len(b))
    BY <1>1, <1>5, <1>6
  <2>1. CASE j < k
    <3>1. j <= Len(f) /\ j \in 1..(k - 1)
      BY <2>1, <1>1, <1>2
    <3> QED
      BY <3>1, <2>0, <2>1, <1>2, <1>5
  <2>2. CASE ~(j < k)
    <3>1. ~(j <= Len(f)) /\ j - Len(f) \in 1..(Len(l) - k) /\ k + (j - Len(f)) = j + 1
      BY <2>2, <1>1, <1>2
    <3> QED
      BY <3>1, <2>0, <2>2, <1>3, <1>5
  <2> QED
    BY <2>1, <2>2
<1> DEFINE from(j) == IF j < k THEN j ELSE j + 1
<1>8. /\ \A j \in 1..Len(m) : from(j) \in 1..Len(l) /\ from(j) # k /\ m[j] = l[from(j)]
      /\ \A i, j \in 1..Len(m) : i < j => from(i) < from(j)
  BY <1>1, <1>6, <1>7
<1>9. \A i \in 1..Len(l) : i # k => \E j \in 1..Len(m) : from(j) = i
  <2> TAKE i \in 1..Len(l)
  <2> HAVE i # k
  <2>1. CASE i < k
    BY <2>1, <1>1, <1>6
  <2>2. CASE i > k
    <3>1. i - 1 \in 1..Len(m) /\ from(i - 1) = i
      BY <2>2, <1>1, <1>6
    <3> QED
      BY <3>1
  <2> QED
    BY <2>1, <2>2, <1>1
<1>10. Sorted(m)
  <2> HIDE DEF from
  <2> QED
    BY <1>8 DEF Sorted
<1>11. ToSet(m) = ToSet(l) \ {l[k]}
  <2>1. ToSet(m) = {m[j] : j \in 1..Len(m)} /\ ToSet(l) = {l[j] : j \in 1..Len(l)}
    BY <1>5, ListFacts DEF Lists
  <2>2. \A j \in 1..Len(l) : j # k => l[j] # l[k]
    BY SortedApart
  <2> HIDE DEF from
  <2>3. ToSet(m) \subseteq ToSet(l) \ {l[k]}
    BY <2>1, <2>2, <1>8
  <2>4. ToSet(l) \ {l[k]} \subseteq ToSet(m)
    BY <2>1, <1>8, <1>9
  <2> QED
    BY <2>3, <2>4
<1> QED
  BY <1>5, <1>6, <1>7, <1>10, <1>11 DEF m, Lists

\* A record put between two others, or at an end, keeps the order if it fits there.
LEMMA InsertedList ==
    ASSUME NEW l \in Lists, Sorted(l), NEW p \in 1..(Len(l) + 1), NEW r \in Good,
           p > 1 => Below(l[p - 1], r),
           p <= Len(l) => Below(r, l[p]),
           NEW m \in Lists, Len(m) = Len(l) + 1,
           \A j \in 1..(Len(l) + 1) : m[j] = IF j < p THEN l[j] ELSE IF j = p THEN r ELSE l[j - 1]
    PROVE  Sorted(m) /\ ToSet(m) = ToSet(l) \cup {r}
<1>1. Len(l) \in Nat /\ \A j \in 1..Len(l) : l[j] \in Good
  BY ListFacts
<1>2. ASSUME NEW j \in 1..Len(l), NEW k \in 1..Len(l), j < k
      PROVE  Below(l[j], l[k])
  BY <1>2 DEF Sorted
<1>3. ASSUME NEW j \in 1..Len(l), j < p
      PROVE  Below(l[j], r)
  <2>1. p - 1 \in 1..Len(l) /\ p > 1 /\ j <= p - 1
    BY <1>1, <1>3
  <2>2. CASE j = p - 1
    BY <2>1, <2>2
  <2>3. CASE j < p - 1
    BY <2>1, <2>3, <1>1, <1>2, BelowOrder
  <2> QED
    BY <2>1, <2>2, <2>3, <1>1
<1>4. ASSUME NEW j \in 1..Len(l), j >= p
      PROVE  Below(r, l[j])
  <2>1. p \in 1..Len(l) /\ p <= Len(l)
    BY <1>1, <1>4
  <2>2. CASE j = p
    BY <2>1, <2>2
  <2>3. CASE p < j
    BY <2>1, <2>3, <1>1, <1>2, BelowOrder
  <2> QED
    BY <2>1, <2>2, <2>3, <1>1, <1>4
<1>5. ASSUME NEW j \in 1..(Len(l) + 1), NEW k \in 1..(Len(l) + 1), j < k
      PROVE  Below(m[j], m[k])
  <2>1. CASE k < p
    BY <2>1, <1>1, <1>2, <1>5
  <2>2. CASE k = p
    BY <2>2, <1>1, <1>3, <1>5
  <2>3. CASE k > p /\ j < p
    <3>1. m[j] = l[j] /\ m[k] = l[k - 1] /\ j \in 1..Len(l) /\ k - 1 \in 1..Len(l) /\ j < k - 1
      BY <2>3, <1>1
    <3> QED
      BY <3>1, <1>2
  <2>4. CASE k > p /\ j = p
    <3>1. m[j] = r /\ m[k] = l[k - 1] /\ k - 1 \in 1..Len(l) /\ k - 1 >= p
      BY <2>4, <1>1
    <3> QED
      BY <3>1, <1>4
  <2>5. CASE k > p /\ j > p
    <3>1. /\ m[j] = l[j - 1] /\ m[k] = l[k - 1] /\ j - 1 \in 1..Len(l)
          /\ k - 1 \in 1..Len(l) /\ j - 1 < k - 1
      BY <2>5, <1>1, <1>5
    <3> QED
      BY <3>1, <1>2
  <2> QED
    BY <2>1, <2>2, <2>3, <2>4, <2>5, <1>1
<1>6. ToSet(m) = ToSet(l) \cup {r}
  <2>1. ToSet(m) = {m[j] : j \in 1..(Len(l) + 1)} /\ ToSet(l) = {l[j] : j \in 1..Len(l)}
    BY ListFacts
  <2>2. ASSUME NEW j \in 1..(Len(l) + 1)
        PROVE  m[j] \in ToSet(l) \cup {r}
    <3>1. j < p \/ j = p \/ (j > p /\ j - 1 \in 1..Len(l))
      BY <1>1
    <3>2. j < p => j \in 1..Len(l)
      BY <1>1
    <3>3. j > p => ~(j < p) /\ j # p
      BY <1>1
    <3> QED
      BY <3>1, <3>2, <3>3, <2>1
  <2>3. r \in ToSet(m)
    BY <2>1, <1>1
  <2>4. ASSUME NEW j \in 1..Len(l)
        PROVE  l[j] \in ToSet(m)
    <3>1. CASE j < p
      BY <3>1, <2>1, <1>1
    <3>2. CASE j >= p
      <4>1. j + 1 \in 1..(Len(l) + 1) /\ ~(j + 1 < p) /\ j + 1 # p /\ j + 1 - 1 = j
        BY <3>2, <1>1
      <4>2. m[j + 1] = l[j]
        BY <4>1
      <4> QED
        BY <4>1, <4>2, <2>1
    <3> QED
      BY <3>1, <3>2, <1>1
  <2> QED
    BY <2>1, <2>2, <2>3, <2>4
<1> QED
  BY <1>5, <1>6 DEF Sorted

LEMMA PrependList ==
    ASSUME NEW l \in Lists, Sorted(l), NEW r \in Good, l # <<>> => Below(r, l[1])
    PROVE  LET m == <<r>> \o l
           IN  /\ m \in Lists /\ Sorted(m) /\ Len(m) = Len(l) + 1 /\ m[1] = r
               /\ ToSet(m) = ToSet(l) \cup {r}
<1> DEFINE m == <<r>> \o l
<1>1. l \in Seq(Good) /\ Len(l) \in Nat /\ (l = <<>> <=> Len(l) = 0)
  BY DEF Lists
<1>2. <<r>> \in Seq(Good) /\ Len(<<r>>) = 1 /\ <<r>>[1] = r
  OBVIOUS
<1> HIDE DEF m
<1>3. m \in Seq(Good) /\ Len(m) = 1 + Len(l)
      /\ \A j \in 1..(1 + Len(l)) : m[j] = IF j <= 1 THEN <<r>>[j] ELSE l[j - 1]
  BY <1>1, <1>2, ConcatProperties DEF m
<1>4. Len(m) = Len(l) + 1 /\ m \in Lists
  BY <1>1, <1>3 DEF Lists
<1>5. \A j \in 1..(Len(l) + 1) : m[j] = IF j < 1 THEN l[j] ELSE IF j = 1 THEN r ELSE l[j - 1]
  <2> TAKE j \in 1..(Len(l) + 1)
  <2>1. j \in 1..(1 + Len(l)) /\ ~(j < 1)
    BY <1>1
  <2>2. CASE j = 1
    BY <2>1, <2>2, <1>2, <1>3
  <2>3. CASE j # 1
    <3>1. ~(j <= 1)
      BY <2>3
    <3> QED
      BY <2>1, <2>3, <3>1, <1>3
  <2> QED
    BY <2>2, <2>3
<1>6. 1 \in 1..(Len(l) + 1) /\ ~(1 > 1) /\ (1 <= Len(l) => Below(r, l[1]))
  BY <1>1
<1>7. Sorted(m) /\ ToSet(m) = ToSet(l) \cup {r}
  BY <1>4, <1>5, <1>6, InsertedList
<1> QED
  BY <1>4, <1>5, <1>6, <1>7 DEF m

LEMMA InsertPlaces ==
    ASSUME NEW l \in Lists, NEW p \in 1..(Len(l) + 1), NEW r \in Good
    PROVE  LET m == InsertAt(l, p, r)
           IN  /\ m \in Lists /\ Len(m) = Len(l) + 1
               /\ \A j \in 1..(Len(l) + 1) :
                     m[j] = IF j < p THEN l[j] ELSE IF j = p THEN r ELSE l[j - 1]
<1> DEFINE f == SubSeq(l, 1, p - 1)
           b == SubSeq(l, p, Len(l))
           g == f \o <<r>>
           m == InsertAt(l, p, r)
<1>1. l \in Seq(Good) /\ Len(l) \in Nat
  BY DEF Lists
<1>2. f \in Seq(Good) /\ Len(f) = p - 1 /\ \A j \in 1..(p - 1) : f[j] = l[j]
  BY <1>1
<1>3. b \in Seq(Good) /\ Len(b) = Len(l) - p + 1 /\ \A j \in 1..(Len(l) - p + 1) : b[j] = l[p + j - 1]
  BY <1>1
<1>4. m = g \o b
  BY DEF InsertAt
<1>5. <<r>> \in Seq(Good) /\ Len(<<r>>) = 1 /\ <<r>>[1] = r
  OBVIOUS
<1> HIDE DEF f, b, m
<1>6. g \in Seq(Good) /\ Len(g) = Len(f) + 1
      /\ \A j \in 1..(Len(f) + 1) : g[j] = IF j <= Len(f) THEN f[j] ELSE <<r>>[j - Len(f)]
  <2>1. g \in Seq(Good) /\ Len(g) = Len(f) + Len(<<r>>)
        /\ \A j \in 1..(Len(f) + Len(<<r>>)) : g[j] = IF j <= Len(f) THEN f[j] ELSE <<r>>[j - Len(f)]
    BY <1>2, <1>5, ConcatProperties
  <2> QED
    BY <2>1, <1>5
<1> HIDE DEF g
<1>7. Len(g) = p /\ (\A j \in 1..(p - 1) : g[j] = l[j]) /\ g[p] = r
  <2>1. Len(g) = p
    BY <1>2, <1>6
  <2>2. ASSUME NEW j \in 1..(p - 1)
        PROVE  g[j] = l[j]
    <3>1. j \in 1..(Len(f) + 1) /\ j <= Len(f)
      BY <1>1, <1>2
    <3> QED
      BY <3>1, <1>2, <1>6
  <2>3. g[p] = r
    <3>1. p \in 1..(Len(f) + 1) /\ ~(p <= Len(f)) /\ p - Len(f) = 1
      BY <1>1, <1>2
    <3>2. g[p] = <<r>>[p - Len(f)]
      BY <3>1, <1>6
    <3> QED
      BY <3>1, <3>2, <1>5
  <2> QED
    BY <2>1, <2>2, <2>3
<1>8. m \in Seq(Good) /\ Len(m) = Len(g) + Len(b)
      /\ \A j \in 1..(Len(g) + Len(b)) : m[j] = IF j <= Len(g) THEN g[j] ELSE b[j - Len(g)]
  BY <1>3, <1>4, <1>6, ConcatProperties
<1>9. Len(m) = Len(l) + 1 /\ m \in Lists
  <2>1. p + (Len(l) - p + 1) = Len(l) + 1
    BY <1>1
  <2> QED
    BY <2>1, <1>3, <1>7, <1>8 DEF Lists
<1>10. ASSUME NEW j \in 1..(Len(l) + 1)
       PROVE  m[j] = IF j < p THEN l[j] ELSE IF j = p THEN r ELSE l[j - 1]
  <2>0. j \in 1..(Len(g) + Len(b))
    BY <1>8, <1>9
  <2>1. CASE j <= p
    <3>1. m[j] = g[j]
      BY <2>0, <2>1, <1>7, <1>8
    <3>2. j = p \/ j \in 1..(p - 1)
      BY <2>1, <1>1
    <3> QED
      BY <3>1, <3>2, <2>1, <1>1, <1>7
  <2>2. CASE ~(j <= p)
    <3>1. m[j] = b[j - p]
      BY <2>0, <2>2, <1>7, <1>8
    <3>2. j - p \in 1..(Len(l) - p + 1) /\ p + (j - p) - 1 = j - 1 /\ ~(j < p) /\ j # p
      BY <2>2, <1>1
    <3> QED
      BY <3>1, <3>2, <1>3
  <2> QED
    BY <2>1, <2>2
<1> QED
  BY <1>9, <1>10 DEF m

LEMMA InsertList ==
    ASSUME NEW l \in Lists, Sorted(l), NEW p \in 1..(Len(l) + 1), NEW r \in Good,
           p > 1 => Below(l[p - 1], r),
           p <= Len(l) => Below(r, l[p])
    PROVE  LET m == InsertAt(l, p, r)
           IN  /\ m \in Lists /\ Sorted(m) /\ Len(m) = Len(l) + 1 /\ m[p] = r
               /\ ToSet(m) = ToSet(l) \cup {r}
<1> DEFINE m == InsertAt(l, p, r)
<1>1. /\ m \in Lists /\ Len(m) = Len(l) + 1
      /\ \A j \in 1..(Len(l) + 1) : m[j] = IF j < p THEN l[j] ELSE IF j = p THEN r ELSE l[j - 1]
  BY InsertPlaces
<1> HIDE DEF m
<1>2. Sorted(m) /\ ToSet(m) = ToSet(l) \cup {r}
  BY <1>1, InsertedList
<1>3. m[p] = r
  BY <1>1, ListFacts
<1> QED
  BY <1>1, <1>2, <1>3 DEF m

\* Rows that lie apart, in an order in which none belongs before the one it follows, are
\* in order.
LEMMA FetchedList ==
    ASSUME NEW R \in SUBSET Good, IsFiniteSet(R), Apart(R), NEW l \in SetToSeqs(R),
           \A k \in 1..(Len(l) - 1) : ~Below(l[k + 1], l[k])
    PROVE  l \in Lists /\ Sorted(l) /\ ToSet(l) = R
<1> DEFINE n == Cardinality(R)
<1>1. n \in Nat
  BY FS_CardinalityType
<1>2. l \in [1..n -> R] /\ \A i, j \in 1..n : i # j => l[i] # l[j]
  BY DEF SetToSeqs
<1> HIDE DEF n
<1>3. l \in Lists /\ Len(l) = n
  BY <1>1, <1>2 DEF Lists
<1>4. ASSUME NEW k \in 1..n, k + 1 \in 1..n
      PROVE  Below(l[k], l[k + 1])
  <2>1. k # k + 1 /\ k \in 1..(Len(l) - 1)
    BY <1>1, <1>3, <1>4
  <2>2. l[k] # l[k + 1] /\ l[k] \in R /\ l[k + 1] \in R /\ ~Below(l[k + 1], l[k])
    BY <1>2, <1>4, <2>1
  <2> QED
    BY <2>2 DEF Apart
<1> DEFINE Far(d) == \A j \in 1..n : j + d + 1 \in 1..n => Below(l[j], l[j + d + 1])
           S == {d \in Nat : Far(d)}
<1>5. 0 \in S
  <2>1. Far(0)
    <3> SUFFICES ASSUME NEW j \in 1..n, j + 0 + 1 \in 1..n
                 PROVE  Below(l[j], l[j + 0 + 1])
      OBVIOUS
    <3>1. j + 0 + 1 = j + 1
      BY <1>1
    <3> QED
      BY <3>1, <1>4
  <2> QED
    BY <2>1
<1>6. ASSUME NEW d \in Nat, Far(d)
      PROVE  Far(d + 1)
  <2> SUFFICES ASSUME NEW j \in 1..n, j + (d + 1) + 1 \in 1..n
               PROVE  Below(l[j], l[j + (d + 1) + 1])
    OBVIOUS
  <2>1. j + d + 1 \in 1..n /\ (j + d + 1) + 1 = j + (d + 1) + 1
    BY <1>1
  <2>2. Below(l[j], l[j + d + 1])
    BY <1>6, <2>1
  <2>3. Below(l[j + d + 1], l[j + (d + 1) + 1])
    <3>1. (j + d + 1) + 1 \in 1..n
      BY <2>1
    <3>2. Below(l[j + d + 1], l[(j + d + 1) + 1])
      BY <2>1, <3>1, <1>4
    <3> QED
      BY <2>1, <3>2
  <2>4. l[j] \in Good /\ l[j + d + 1] \in Good /\ l[j + (d + 1) + 1] \in Good
    BY <1>2, <2>1
  <2> QED
    BY <2>2, <2>3, <2>4, BelowOrder
<1>7. \A d \in Nat : d \in S
  <2>1. \A d \in Nat : d \in S => d + 1 \in S
    <3> HIDE DEF Far
    <3> QED
      BY <1>6
  <2> HIDE DEF S
  <2> QED
    BY <1>5, <2>1, Induction
<1>8. Sorted(l)
  <2> SUFFICES ASSUME NEW j \in 1..n, NEW k \in 1..n, j < k
               PROVE  Below(l[j], l[k])
    BY <1>3 DEF Sorted
  <2>1. k - j - 1 \in Nat /\ j + (k - j - 1) + 1 = k
    BY <1>1
  <2>2. Far(k - j - 1)
    BY <1>7, <2>1
  <2> QED
    BY <2>1, <2>2
<1>9. ToSet(l) = R
  <2>1. ToSet(l) = {l[k] : k \in 1..n}
    BY <1>3, ListFacts
  <2>2. l \in Injection(1..n, R)
    BY <1>2 DEF Injection, IsInjective
  <2>3. \A r \in R : \E k \in 1..n : l[k] = r
    <3>1. IsFiniteSet(1..n) /\ Cardinality(1..n) = Cardinality(R)
      <4>1. 1 \in Int /\ n \in Int
        BY <1>1
      <4>2. IsFiniteSet(1..n) /\ Cardinality(1..n) = IF 1 > n THEN 0 ELSE n - 1 + 1
        BY <4>1, FS_Interval
      <4> QED
        BY <4>2, <1>1 DEF n
    <3>2. l \in Surjection(1..n, R)
      BY <2>2, <3>1, FS_Injection
    <3> QED
      BY <3>2, <1>2 DEF Surjection
  <2> QED
    BY <1>2, <2>1, <2>3
<1> QED
  BY <1>3, <1>8, <1>9

-----------------------------------------------------------------------------
(* What a statement and a change of the list make of a set of records       *)

LEMMA RunIs ==
    ASSUME NEW a \in Nat, NEW n \in Nat
    PROVE  \A x : x \in Run(a, n) <=> x \in Nat /\ a <= x /\ x < a + n
BY DEF Run

LEMMA RunJoined ==
    ASSUME NEW n \in Nat, NEW b \in Nat
    PROVE  Run(0, n + b) = Run(0, n) \cup Run(n, b)
BY DEF Run

LEMMA CoverIs == \A R : \A x : x \in Cover(R) <=> \E r \in R : x \in Run(r.addr, r.len)
BY DEF Cover

LEMMA CoverAdd ==
    ASSUME NEW R, NEW r
    PROVE  Cover(R \cup {r}) = Cover(R) \cup Run(r.addr, r.len)
BY DEF Cover

\* Records that lie apart have no address in common.
LEMMA CoverRemove ==
    ASSUME NEW R \in SUBSET Good, Apart(R), NEW r \in R
    PROVE  Cover(R \ {r}) = Cover(R) \ Run(r.addr, r.len)
<1>1. ASSUME NEW q \in R, q # r
      PROVE  Run(q.addr, q.len) \cap Run(r.addr, r.len) = {}
  <2>1. /\ q.addr \in Nat /\ q.len \in Nat /\ End(q) = q.addr + q.len
        /\ r.addr \in Nat /\ r.len \in Nat /\ End(r) = r.addr + r.len
    BY GoodFacts
  <2>2. End(q) < r.addr \/ End(r) < q.addr
    BY <1>1 DEF Apart, Below
  <2> QED
    BY <2>1, <2>2 DEF Run
<1>2. ASSUME NEW x \in Cover(R \ {r})
      PROVE  x \in Cover(R) \ Run(r.addr, r.len)
  BY <1>1, CoverIs
<1>3. ASSUME NEW x \in Cover(R) \ Run(r.addr, r.len)
      PROVE  x \in Cover(R \ {r})
  BY CoverIs
<1> QED
  BY <1>2, <1>3

LEMMA CoverInSpace ==
    ASSUME NEW R \in SUBSET Good
    PROVE  Cover(R) \subseteq Space
<1> SUFFICES ASSUME NEW r \in R, NEW x \in Run(r.addr, r.len)
             PROVE  x \in Space
  BY CoverIs
<1>1. r.addr \in Nat /\ r.len \in Nat /\ End(r) = r.addr + r.len /\ End(r) <= Size /\ Size \in Nat
  BY GoodFacts, AddrAllocAssumption
<1> QED
  BY <1>1 DEF Run, Space

LEMMA ApartLess == \A R, S : Apart(R) /\ S \subseteq R => Apart(S)
BY DEF Apart

\* An update puts a record in the place of the row with its identity.
LEMMA UpdateRow ==
    ASSUME NEW R, OwnIds(R), NEW q \in R, NEW r, r.id = q.id
    PROVE  Done(R, Update(r)) = (R \ {q}) \cup {r} /\ OwnIds(Done(R, Update(r)))
<1>1. Done(R, Update(r)) = {IF x.id = r.id THEN r ELSE x : x \in R}
  BY DEF Done, Update
<1>2. \A x \in R : x.id = r.id <=> x = q
  BY DEF OwnIds
<1> QED
  BY <1>1, <1>2 DEF OwnIds

LEMMA DeleteRow ==
    ASSUME NEW R, OwnIds(R), NEW q \in R, NEW r, r.id = q.id
    PROVE  Done(R, Delete(r)) = R \ {q} /\ OwnIds(Done(R, Delete(r)))
<1>1. Done(R, Delete(r)) = {x \in R : x.id # r.id}
  BY DEF Done, Delete
<1>2. \A x \in R : x.id = r.id <=> x = q
  BY DEF OwnIds
<1> QED
  BY <1>1, <1>2 DEF OwnIds

LEMMA InsertRow == \A R, r, p : Done(R, Insert(r, p)) = R \cup {r}
BY DEF Done, Insert

\* The whole of a call that has one statement, and of one that has two.
LEMMA RestOne == \A R, st : Rest(R, <<st>>) = Done(R, st)
BY DEF Rest

LEMMA RestTwo == \A R, st, su : Rest(R, <<st>> \o <<su>>) = Done(Done(R, st), su)
<1> TAKE R, st, su
<1> DEFINE z == <<st>> \o <<su>>
<1>1. <<st>> \in Seq({st, su}) /\ <<su>> \in Seq({st, su})
      /\ Len(<<st>>) = 1 /\ Len(<<su>>) = 1 /\ <<st>>[1] = st /\ <<su>>[1] = su
  OBVIOUS
<1>2. Len(z) = 1 + 1
      /\ \A j \in 1..(1 + 1) : z[j] = IF j <= 1 THEN <<st>>[j] ELSE <<su>>[j - 1]
  BY <1>1, ConcatProperties
<1> HIDE DEF z
<1>3. z[1] = st /\ z[2] = su /\ Len(z) = 2 /\ z # <<>>
  BY <1>1, <1>2
<1> QED
  BY <1>3 DEF Rest, z

-----------------------------------------------------------------------------
(* What each outcome of addr_alloc and addr_free makes of a list            *)

Shape(m, td) == m \in Lists /\ td \in Seq(Statements) /\ Plan(td, m)

\* The statements td, executed on rows that are those of l, leave those of m.
Makes(l, m, td) ==
    /\ Shape(m, td) /\ Sorted(m) /\ td # <<>>
    /\ \A R : (R = ToSet(l) /\ OwnIds(R)) =>
          Rest(R, td) = ToSet(m) /\ (Len(td) = 2 => Done(R, td[1]) # R)

\* The list m, once the statements are executed, has the run more than l, or less.
Gives(l, m, td, a, n) ==
    /\ Makes(l, m, td)
    /\ Cover(ToSet(m)) = Cover(ToSet(l)) \cup Run(a, n)
    /\ Run(a, n) \cap Cover(ToSet(l)) = {}
    /\ a \in Nat /\ a + n <= Size
TakesOut(l, m, td, a, n) ==
    /\ Makes(l, m, td)
    /\ Cover(ToSet(m)) = Cover(ToSet(l)) \ Run(a, n)
    /\ Run(a, n) \subseteq Cover(ToSet(l))

LEMMA StatementTypes ==
    ASSUME NEW r \in Good
    PROVE  /\ Update(r) \in Statements /\ Update(r).kind = "update" /\ Update(r).pos = 0
           /\ Update(r).rec = r
           /\ Delete(r) \in Statements /\ Delete(r).kind = "delete" /\ Delete(r).pos = 0
           /\ \A p \in Nat : /\ Insert(r, p) \in Statements /\ Insert(r, p).kind = "insert"
                             /\ Insert(r, p).pos = p /\ Insert(r, p).rec = r
BY DEF Update, Delete, Insert, Statements

LEMMA ShapeOne ==
    ASSUME NEW m \in Lists, NEW r \in Good
    PROVE  /\ Shape(m, <<Update(r)>>) /\ Shape(m, <<Delete(r)>>)
           /\ \A p \in 1..Len(m) : (m[p] = r /\ r.id = NoId) => Shape(m, <<Insert(r, p)>>)
<1>1. \A st \in Statements : /\ <<st>> \in Seq(Statements) /\ Len(<<st>>) = 1 /\ <<st>>[1] = st
                             /\ \A k \in 1..Len(<<st>>) : k = 1
  OBVIOUS
<1>2. Shape(m, <<Update(r)>>)
  <2>1. Update(r) \in Statements /\ Update(r).kind # "insert" /\ Update(r).pos = 0
    BY StatementTypes
  <2> HIDE DEF Update
  <2> QED
    BY <1>1, <2>1 DEF Shape, Plan
<1>3. Shape(m, <<Delete(r)>>)
  <2>1. Delete(r) \in Statements /\ Delete(r).kind # "insert" /\ Delete(r).pos = 0
    BY StatementTypes
  <2> QED
    BY <1>1, <2>1 DEF Shape, Plan
<1>4. ASSUME NEW p \in 1..Len(m), m[p] = r, r.id = NoId
      PROVE  Shape(m, <<Insert(r, p)>>)
  <2>1. Insert(r, p) \in Statements /\ Insert(r, p).kind = "insert"
        /\ Insert(r, p).pos = p /\ Insert(r, p).rec = r
    BY StatementTypes
  <2> QED
    BY <1>1, <1>4, <2>1 DEF Shape, Plan
<1> QED
  BY <1>2, <1>3, <1>4

LEMMA ShapeTwo ==
    ASSUME NEW m \in Lists, NEW r \in Good, NEW q \in Good
    PROVE  /\ Shape(m, <<Update(r)>> \o <<Delete(q)>>)
           /\ \A p \in 1..Len(m) : (m[p] = q /\ q.id = NoId) => Shape(m, <<Update(r)>> \o <<Insert(q, p)>>)
<1>1. ASSUME NEW st \in Statements, NEW su \in Statements
      PROVE  LET z == <<st>> \o <<su>>
             IN  z \in Seq(Statements) /\ Len(z) = 2 /\ z[1] = st /\ z[2] = su
  <2> DEFINE z == <<st>> \o <<su>>
  <2>1. <<st>> \in Seq(Statements) /\ <<su>> \in Seq(Statements)
        /\ Len(<<st>>) = 1 /\ Len(<<su>>) = 1 /\ <<st>>[1] = st /\ <<su>>[1] = su
    OBVIOUS
  <2>2. z \in Seq(Statements) /\ Len(z) = 1 + 1
        /\ \A j \in 1..(1 + 1) : z[j] = IF j <= 1 THEN <<st>>[j] ELSE <<su>>[j - 1]
    BY <2>1, ConcatProperties
  <2> HIDE DEF z
  <2>3. z[1] = st /\ z[2] = su /\ Len(z) = 2
    BY <2>1, <2>2
  <2> QED
    BY <2>2, <2>3 DEF z
<1>2. Update(r) \in Statements /\ Update(r).kind # "insert" /\ Update(r).pos = 0
  BY StatementTypes
<1>3. Shape(m, <<Update(r)>> \o <<Delete(q)>>)
  <2> DEFINE z == <<Update(r)>> \o <<Delete(q)>>
  <2>1. Delete(q) \in Statements /\ Delete(q).kind # "insert" /\ Delete(q).pos = 0
    BY StatementTypes
  <2>2. z \in Seq(Statements) /\ Len(z) = 2 /\ z[1] = Update(r) /\ z[2] = Delete(q)
    BY <1>1, <1>2, <2>1
  <2> HIDE DEF z
  <2>3. \A k \in 1..Len(z) : z[k].kind # "insert" /\ z[k].pos = 0
    BY <1>2, <2>1, <2>2
  <2> QED
    BY <2>2, <2>3 DEF z, Shape, Plan
<1>4. ASSUME NEW p \in 1..Len(m), m[p] = q, q.id = NoId
      PROVE  Shape(m, <<Update(r)>> \o <<Insert(q, p)>>)
  <2> DEFINE z == <<Update(r)>> \o <<Insert(q, p)>>
  <2>1. Insert(q, p) \in Statements /\ Insert(q, p).kind = "insert"
        /\ Insert(q, p).pos = p /\ Insert(q, p).rec = q
    BY StatementTypes
  <2>2. z \in Seq(Statements) /\ Len(z) = 2 /\ z[1] = Update(r) /\ z[2] = Insert(q, p)
    BY <1>1, <1>2, <2>1
  <2> HIDE DEF z
  <2>3. ASSUME NEW k \in 1..Len(z)
        PROVE  IF z[k].kind = "insert"
               THEN k = Len(z) /\ z[k].pos \in 1..Len(m) /\ m[z[k].pos] = z[k].rec /\ z[k].rec.id = NoId
               ELSE z[k].pos = 0
    <3>1. k = 1 \/ k = 2
      BY <2>2
    <3> QED
      BY <3>1, <1>2, <1>4, <2>1, <2>2
  <2> QED
    BY <2>2, <2>3 DEF z, Shape, Plan
<1> QED
  BY <1>3, <1>4

\* A run behind the first k records and before the others meets none of them.
LEMMA RoomFree ==
    ASSUME NEW l \in Lists, Sorted(l), NEW k \in 0..Len(l), NEW a \in Nat, NEW n \in Nat,
           k > 0 => End(l[k]) <= a,
           k < Len(l) => a + n <= l[k + 1].addr
    PROVE  Run(a, n) \cap Cover(ToSet(l)) = {}
<1> SUFFICES ASSUME NEW j \in 1..Len(l), NEW x \in Run(a, n), x \in Run(l[j].addr, l[j].len)
             PROVE  FALSE
  BY ListFacts, CoverIs
<1>1. /\ Len(l) \in Nat /\ l[j].addr \in Nat /\ l[j].len \in Nat /\ End(l[j]) = l[j].addr + l[j].len
      /\ x \in Nat /\ a <= x /\ x < a + n /\ l[j].addr <= x /\ x < l[j].addr + l[j].len
  BY ListFacts, GoodFacts, RunIs
<1>2. CASE j <= k
  <2>1. k > 0 /\ k \in 1..Len(l)
    BY <1>1, <1>2
  <2>2. End(l[j]) <= End(l[k])
    <3>1. CASE j = k
      BY <3>1, <1>1
    <3>2. CASE j < k
      <4>1. End(l[j]) < l[k].addr
        BY <2>1, <3>2 DEF Sorted, Below
      <4>2. l[j] \in Good /\ l[k] \in Good
        BY <2>1, ListFacts
      <4>3. /\ l[k].addr \in Nat /\ l[k].len \in Nat /\ End(l[k]) = l[k].addr + l[k].len
            /\ End(l[j]) \in Nat
        BY <4>2, GoodFacts
      <4> QED
        BY <4>1, <4>3
    <3> QED
      BY <3>1, <3>2, <1>1, <1>2
  <2>3. End(l[k]) \in Nat
    BY <2>1, ListFacts, GoodFacts
  <2> QED
    BY <2>1, <2>2, <2>3, <1>1
<1>3. CASE j > k
  <2>1. k < Len(l) /\ k + 1 \in 1..Len(l)
    BY <1>1, <1>3
  <2>2. l[k + 1].addr \in Nat /\ l[k + 1].len \in Nat /\ End(l[k + 1]) = l[k + 1].addr + l[k + 1].len
    BY <2>1, ListFacts, GoodFacts
  <2>3. l[k + 1].addr <= l[j].addr
    <3>1. CASE j = k + 1
      BY <3>1, <1>1
    <3>2. CASE k + 1 < j
      <4>1. End(l[k + 1]) < l[j].addr
        BY <2>1, <3>2 DEF Sorted, Below
      <4> QED
        BY <4>1, <2>2, <1>1, SMTT(30)
    <3> QED
      BY <3>1, <3>2, <1>1, <1>3
  <2> QED
    BY <2>1, <2>2, <2>3, <1>1, SMTT(30)
<1> QED
  BY <1>1, <1>2, <1>3

\* A new record before all others, when the list is empty or has room there.
LEMMA NewFront ==
    ASSUME NEW l \in Lists, Sorted(l), NEW n \in Nat, n <= Size, l # <<>> => n < l[1].addr
    PROVE  LET r == Rec(0, n, NoId)
               m == <<r>> \o l
               td == <<Insert(r, 1)>>
           IN  /\ Makes(l, m, td)
               /\ Cover(ToSet(m)) = Cover(ToSet(l)) \cup Run(0, n)
               /\ Run(0, n) \cap Cover(ToSet(l)) = {}
<1> DEFINE r == Rec(0, n, NoId)
           m == <<r>> \o l
           td == <<Insert(r, 1)>>
<1>1. r \in Good /\ End(r) = n /\ r.addr = 0 /\ r.len = n /\ r.id = NoId
  <2>1. 0 \in Nat /\ NoId \in Ids \cup {NoId} /\ 0 + n <= Size /\ 0 + n = n
    OBVIOUS
  <2> QED
    BY <2>1, GoodMade
<1> HIDE DEF r
<1>2. l # <<>> => Below(r, l[1])
  BY <1>1 DEF Below
<1>3. m \in Lists /\ Sorted(m) /\ Len(m) = Len(l) + 1 /\ m[1] = r /\ ToSet(m) = ToSet(l) \cup {r}
  BY <1>1, <1>2, PrependList
<1> HIDE DEF m
<1>4. Shape(m, td)
  <2>1. 1 \in 1..Len(m)
    BY <1>3, ListFacts
  <2> QED
    BY <1>1, <1>3, <2>1, ShapeOne
<1>5. Makes(l, m, td)
  <2>1. td # <<>> /\ Len(td) = 1
    OBVIOUS
  <2>2. \A R : Rest(R, td) = R \cup {r}
    BY RestOne, InsertRow
  <2> HIDE DEF td
  <2> QED
    BY <1>3, <1>4, <2>1, <2>2 DEF Makes
<1>6. Cover(ToSet(m)) = Cover(ToSet(l)) \cup Run(0, n)
  BY <1>1, <1>3, CoverAdd
<1>7. Run(0, n) \cap Cover(ToSet(l)) = {}
  <2>1. 0 \in 0..Len(l) /\ (0 < Len(l) => 0 + n <= l[0 + 1].addr)
    <3>1. Len(l) \in Nat /\ (0 < Len(l) => 1 \in 1..Len(l) /\ l # <<>>)
      BY ListFacts DEF Lists
    <3>2. 0 < Len(l) => l[1].addr \in Nat
      BY <3>1, ListFacts, GoodFacts
    <3> QED
      BY <3>1, <3>2
  <2> QED
    BY <2>1, RoomFree
<1> QED
  BY <1>5, <1>6, <1>7 DEF r, m

\* A record in the place of one with the same identity.
LEMMA Replaced ==
    ASSUME NEW l \in Lists, Sorted(l), NEW k \in 1..Len(l), NEW r \in Good, r.id = l[k].id,
           k > 1 => Below(l[k - 1], r),
           k < Len(l) => Below(r, l[k + 1])
    PROVE  LET m == With(l, k, r)
           IN  /\ Makes(l, m, <<Update(r)>>)
               /\ Cover(ToSet(m)) = (Cover(ToSet(l)) \ Run(l[k].addr, l[k].len)) \cup Run(r.addr, r.len)
<1> DEFINE m == With(l, k, r)
           td == <<Update(r)>>
<1>1. m \in Lists /\ Sorted(m) /\ ToSet(m) = (ToSet(l) \ {l[k]}) \cup {r}
  BY ReplaceList
<1> HIDE DEF m
<1>2. l[k] \in ToSet(l) /\ ToSet(l) \subseteq Good /\ Apart(ToSet(l))
  BY ListFacts, SortedApart
<1>3. Shape(m, td)
  BY <1>1, ShapeOne
<1>4. Makes(l, m, td)
  <2>1. td # <<>> /\ Len(td) = 1
    OBVIOUS
  <2>2. ASSUME NEW R, R = ToSet(l), OwnIds(R)
        PROVE  Rest(R, td) = ToSet(m)
    <3>0. l[k] \in R /\ r.id = l[k].id
      BY <2>2, <1>2
    <3>1. Done(R, Update(r)) = (R \ {l[k]}) \cup {r}
      BY <2>2, <3>0, UpdateRow
    <3> QED
      BY <3>1, <2>2, <1>1, RestOne
  <2> HIDE DEF td
  <2> QED
    BY <1>1, <1>3, <2>1, <2>2 DEF Makes
<1>5. Cover(ToSet(m)) = Cover(ToSet(l) \ {l[k]}) \cup Run(r.addr, r.len)
  BY <1>1, CoverAdd
<1> QED
  BY <1>2, <1>4, <1>5, CoverRemove DEF m

\* The first record grows to the beginning of the segment.
LEMMA GrowFront ==
    ASSUME NEW l \in Lists, Sorted(l), l # <<>>, NEW n \in Nat, n = l[1].addr
    PROVE  LET r == Rec(0, l[1].len + n, l[1].id)
               m == With(l, 1, r)
               td == <<Update(r)>>
           IN  /\ Makes(l, m, td)
               /\ Cover(ToSet(m)) = Cover(ToSet(l)) \cup Run(0, n)
               /\ Run(0, n) \cap Cover(ToSet(l)) = {}
<1> DEFINE r == Rec(0, l[1].len + n, l[1].id)
           m == With(l, 1, r)
<1>1. Len(l) \in Nat /\ 1 \in 1..Len(l) /\ l[1] \in Good
  BY ListFacts DEF Lists
<1>2. /\ l[1].addr \in Nat /\ l[1].len \in Nat /\ End(l[1]) = l[1].addr + l[1].len
      /\ End(l[1]) <= Size /\ l[1].id \in Ids \cup {NoId}
  BY <1>1, GoodFacts
<1>3. r \in Good /\ End(r) = End(l[1]) /\ r.addr = 0 /\ r.len = l[1].len + n /\ r.id = l[1].id
  <2>1. 0 \in Nat /\ l[1].len + n \in Nat /\ 0 + (l[1].len + n) = End(l[1])
    BY <1>2
  <2> QED
    BY <1>2, <2>1, GoodMade
<1> HIDE DEF r
<1>4. 1 < Len(l) => Below(r, l[1 + 1])
  BY <1>1, <1>3 DEF Sorted, Below
<1>5. /\ Makes(l, m, <<Update(r)>>)
      /\ Cover(ToSet(m)) = (Cover(ToSet(l)) \ Run(l[1].addr, l[1].len)) \cup Run(r.addr, r.len)
  <2> DEFINE k == 1
  <2>1. /\ k \in 1..Len(l) /\ r.id = l[k].id /\ (k > 1 => Below(l[k - 1], r))
        /\ (k < Len(l) => Below(r, l[k + 1]))
    BY <1>1, <1>3, <1>4
  <2> HIDE DEF k
  <2>2. /\ Makes(l, With(l, k, r), <<Update(r)>>)
        /\ Cover(ToSet(With(l, k, r))) = (Cover(ToSet(l)) \ Run(l[k].addr, l[k].len)) \cup Run(r.addr, r.len)
    BY <1>3, <2>1, Replaced
  <2> QED
    BY <2>2 DEF k
<1>6. Run(r.addr, r.len) = Run(0, n) \cup Run(l[1].addr, l[1].len)
  <2> DEFINE a == l[1].addr
             b == l[1].len
             c == r.len
  <2>1. a \in Nat /\ b \in Nat /\ a = n /\ c = n + b /\ r.addr = 0
    BY <1>2, <1>3
  <2> HIDE DEF a, b, c
  <2>2. Run(0, n + b) = Run(0, n) \cup Run(n, b)
    BY <2>1, RunJoined
  <2>3. Run(0, c) = Run(0, n) \cup Run(n, b)
    BY <2>1, <2>2, Zenon
  <2> QED
    BY <2>1, <2>3 DEF a, b, c
<1>7. Run(l[1].addr, l[1].len) \subseteq Cover(ToSet(l))
  BY <1>1, ListFacts, CoverIs
<1>8. Run(0, n) \cap Cover(ToSet(l)) = {}
  <2>1. 0 \in 0..Len(l) /\ 0 + n <= l[0 + 1].addr
    BY <1>1, <1>2
  <2> QED
    BY <2>1, RoomFree
<1> QED
  BY <1>5, <1>6, <1>7, <1>8 DEF r

\* A record grows into the room behind it and does not reach the next one.
LEMMA GrowEnd ==
    ASSUME NEW l \in Lists, Sorted(l), NEW k \in 1..Len(l), NEW n \in Nat, End(l[k]) + n <= Size,
           k < Len(l) => End(l[k]) + n < l[k + 1].addr
    PROVE  LET r == [l[k] EXCEPT !.len = @ + n]
               m == With(l, k, r)
               td == <<Update(r)>>
           IN  /\ Makes(l, m, td)
               /\ Cover(ToSet(m)) = Cover(ToSet(l)) \cup Run(End(l[k]), n)
               /\ Run(End(l[k]), n) \cap Cover(ToSet(l)) = {}
<1> DEFINE r == [l[k] EXCEPT !.len = @ + n]
           m == With(l, k, r)
           q == l[k]
<1>1. Len(l) \in Nat /\ q \in Good
  BY ListFacts
<1>2. /\ q.addr \in Nat /\ q.len \in Nat /\ End(q) = q.addr + q.len /\ End(q) \in Nat
      /\ q.id \in Ids \cup {NoId} /\ (q.len = 0 => q.addr = 0)
  BY <1>1, GoodFacts
<1>3. r \in Good /\ End(r) = End(q) + n /\ r.addr = q.addr /\ r.len = q.len + n /\ r.id = q.id
  <2>1. r = Rec(q.addr, q.len + n, q.id)
    BY <1>1 DEF Good, Rec
  <2>2. q.len + n \in Nat /\ q.addr + (q.len + n) = End(q) + n /\ (q.len + n = 0 => q.addr = 0)
    BY <1>2, SMTT(30)
  <2>3. End(q) + n <= Size
    OBVIOUS
  <2> DEFINE a == q.addr
             c == q.len + n
             i == q.id
  <2>4. a \in Nat /\ c \in Nat /\ i \in Ids \cup {NoId} /\ a + c <= Size /\ (c = 0 => a = 0)
    BY <1>2, <2>2, <2>3
  <2>5. r = Rec(a, c, i) /\ a + c = End(q) + n
    BY <2>1, <2>2
  <2> HIDE DEF a, c, i
  <2>6. /\ Rec(a, c, i) \in Good /\ End(Rec(a, c, i)) = a + c
        /\ Rec(a, c, i).addr = a /\ Rec(a, c, i).len = c /\ Rec(a, c, i).id = i
    BY <2>4, GoodMade
  <2> QED
    BY <2>5, <2>6 DEF a, c, i
<1> HIDE DEF r
<1>4. k < Len(l) => Below(r, l[k + 1])
  BY <1>3 DEF Below
<1>5. k > 1 => Below(l[k - 1], r)
  <2> SUFFICES ASSUME k > 1
               PROVE  Below(l[k - 1], r)
    OBVIOUS
  <2>1. k - 1 \in 1..Len(l) /\ k - 1 < k
    BY <1>1
  <2>2. Below(l[k - 1], q)
    BY <2>1 DEF Sorted
  <2> QED
    BY <2>2, <1>3 DEF Below
<1>6. /\ Makes(l, m, <<Update(r)>>)
      /\ Cover(ToSet(m)) = (Cover(ToSet(l)) \ Run(q.addr, q.len)) \cup Run(r.addr, r.len)
  BY <1>3, <1>4, <1>5, Replaced
<1>7. Run(r.addr, r.len) = Run(End(q), n) \cup Run(q.addr, q.len)
  <2> DEFINE a == q.addr
             b == End(q)
             c == q.len
             d == r.len
  <2>1. a \in Nat /\ c \in Nat /\ b = a + c /\ d = c + n /\ r.addr = a
    BY <1>2, <1>3
  <2> HIDE DEF a, b, c, d
  <2>2. Run(a, d) = Run(a, c) \cup Run(b, n)
    BY <2>1 DEF Run
  <2> QED
    BY <2>1, <2>2 DEF a, b, c, d
<1>8. Run(q.addr, q.len) \subseteq Cover(ToSet(l))
  BY ListFacts, CoverIs
<1>9. Run(End(q), n) \cap Cover(ToSet(l)) = {}
  <2>1. k \in 0..Len(l) /\ (k > 0 => End(l[k]) <= End(q))
    BY <1>1, <1>2
  <2>2. k < Len(l) => End(q) + n <= l[k + 1].addr
    <3> SUFFICES ASSUME k < Len(l)
                 PROVE  End(q) + n <= l[k + 1].addr
      OBVIOUS
    <3>1. l[k + 1].addr \in Nat
      BY <1>1, ListFacts, GoodFacts
    <3> QED
      BY <3>1, <1>2
  <2> HIDE DEF q
  <2> QED
    BY <2>1, <2>2, <1>2, RoomFree
<1> QED
  BY <1>6, <1>7, <1>8, <1>9 DEF r

\* Two neighbours become one record, which fills the room between them.
LEMMA MergedPair ==
    ASSUME NEW l \in Lists, Sorted(l), NEW k \in 1..Len(l), k < Len(l), NEW u \in Good,
           u.id = l[k].id, u.addr = l[k].addr, End(u) = End(l[k + 1])
    PROVE  LET m == With(RemoveAt(l, k + 1), k, u)
           IN  /\ Makes(l, m, <<Update(u)>> \o <<Delete(l[k + 1])>>)
               /\ Cover(ToSet(m)) = ((Cover(ToSet(l)) \ Run(l[k + 1].addr, l[k + 1].len))
                                       \ Run(l[k].addr, l[k].len)) \cup Run(u.addr, u.len)
<1> DEFINE g == RemoveAt(l, k + 1)
           m == With(g, k, u)
           q == l[k]
           t == l[k + 1]
<1>0. Len(l) \in Nat /\ k + 1 \in 1..Len(l) /\ q \in Good /\ t \in Good
      /\ \A j \in 1..Len(l) : l[j] \in Good
  BY ListFacts
<1>1. /\ q.addr \in Nat /\ q.len \in Nat /\ End(q) = q.addr + q.len
      /\ t.addr \in Nat /\ t.len \in Nat /\ End(t) = t.addr + t.len
      /\ u.addr \in Nat /\ u.len \in Nat /\ End(u) = u.addr + u.len
  BY <1>0, GoodFacts
<1>2. Below(q, t) /\ q # t /\ u # q
  <2>1. Below(q, t)
    BY <1>0 DEF Sorted
  <2>2. End(q) < t.addr /\ End(u) = End(t)
    BY <2>1 DEF Below
  <2>3. End(q) < End(u) /\ End(q) < End(t)
    <3> HIDE DEF q, t
    <3> QED
      BY <2>2, <1>1
  <2>4. End(q) \in Nat
    BY <1>0, GoodFacts
  <2> HIDE DEF q, t
  <2> QED
    BY <2>1, <2>3, <2>4
<1>3. /\ g \in Lists /\ Sorted(g) /\ Len(g) = Len(l) - 1
      /\ \A j \in 1..Len(g) : g[j] = IF j < k + 1 THEN l[j] ELSE l[j + 1]
      /\ ToSet(g) = ToSet(l) \ {t}
  BY <1>0, RemoveList
<1> HIDE DEF g
<1>4. /\ k \in 1..Len(g) /\ g[k] = q
      /\ (k > 1 => Below(g[k - 1], u)) /\ (k < Len(g) => Below(u, g[k + 1]))
  <2>1. k \in 1..Len(g) /\ k < k + 1
    BY <1>0, <1>3
  <2>2. g[k] = q
    BY <2>1, <1>3
  <2>3. ASSUME k > 1
        PROVE  Below(g[k - 1], u)
    <3>1. k - 1 \in 1..Len(g) /\ k - 1 \in 1..Len(l) /\ k - 1 < k + 1 /\ k - 1 < k
      BY <2>1, <2>3, <1>0
    <3>2. g[k - 1] = l[k - 1]
      BY <3>1, <1>3
    <3>3. Below(l[k - 1], q)
      BY <3>1 DEF Sorted
    <3>4. u.addr = q.addr
      OBVIOUS
    <3> QED
      BY <3>2, <3>3, <3>4 DEF Below
  <2>4. ASSUME k < Len(g)
        PROVE  Below(u, g[k + 1])
    <3>1. k + 1 \in 1..Len(g) /\ k + 2 \in 1..Len(l) /\ ~(k + 1 < k + 1) /\ k + 1 + 1 = k + 2 /\ k + 1 < k + 2
      BY <2>1, <2>4, <1>0, <1>3
    <3>2. g[k + 1] = l[k + 2]
      BY <3>1, <1>3
    <3>3. Below(t, l[k + 2])
      BY <3>1, <1>0 DEF Sorted
    <3>4. End(u) = End(t)
      OBVIOUS
    <3> QED
      BY <3>2, <3>3, <3>4 DEF Below
  <2> QED
    BY <2>1, <2>2, <2>3, <2>4
<1>5. /\ m \in Lists /\ Sorted(m) /\ ToSet(m) = (ToSet(g) \ {q}) \cup {u}
      /\ Cover(ToSet(m)) = (Cover(ToSet(g)) \ Run(q.addr, q.len)) \cup Run(u.addr, u.len)
  <2>1. u.id = g[k].id
    BY <1>4
  <2>2. m \in Lists /\ Sorted(m) /\ ToSet(m) = (ToSet(g) \ {g[k]}) \cup {u}
    BY <1>3, <1>4, ReplaceList
  <2>3. Cover(ToSet(m)) = (Cover(ToSet(g)) \ Run(g[k].addr, g[k].len)) \cup Run(u.addr, u.len)
    BY <1>3, <1>4, <2>1, Replaced
  <2> QED
    BY <2>2, <2>3, <1>4
<1> HIDE DEF m
<1>6. q \in ToSet(l) /\ t \in ToSet(l) /\ ToSet(l) \subseteq Good /\ Apart(ToSet(l))
  BY <1>0, ListFacts, SortedApart
<1>7. Cover(ToSet(g)) = Cover(ToSet(l)) \ Run(t.addr, t.len)
  BY <1>3, <1>6, CoverRemove
<1> DEFINE st == Update(u)
           su == Delete(t)
           td == <<st>> \o <<su>>
<1>8. ASSUME NEW R, R = ToSet(l), OwnIds(R)
      PROVE  Rest(R, td) = ToSet(m) /\ Done(R, st) # R
  <2>1. q \in R /\ t \in R /\ u.id = q.id
    BY <1>6, <1>8
  <2>2. Done(R, st) = (R \ {q}) \cup {u} /\ OwnIds(Done(R, st))
    BY <2>1, <1>8, UpdateRow
  <2>3. u \notin R /\ u # t
    BY <2>1, <1>2, <1>8 DEF OwnIds
  <2> HIDE DEF st, q, t
  <2>4. t \in Done(R, st)
    BY <2>1, <2>2, <1>2
  <2>5. Done(Done(R, st), su) = Done(R, st) \ {t}
    BY <2>2, <2>4, DeleteRow
  <2> HIDE DEF su
  <2>6. Rest(R, td) = Done(R, st) \ {t}
    BY <2>5, RestTwo
  <2>7. Done(R, st) # R
    BY <2>2, <2>3
  <2> QED
    BY <2>2, <2>3, <2>6, <2>7, <1>3, <1>5, <1>8
<1>9. Makes(l, m, td)
  <2>1. Shape(m, td)
    BY <1>0, <1>5, ShapeTwo
  <2>2. td # <<>> /\ td[1] = st
    BY <1>1
  <2> HIDE DEF td, st
  <2> QED
    BY <2>1, <2>2, <1>5, <1>8 DEF Makes
<1> QED
  BY <1>5, <1>7, <1>9 DEF m, g

\* A record grows and fills the room behind it: it becomes one with the next.
LEMMA Merge ==
    ASSUME NEW l \in Lists, Sorted(l), NEW k \in 1..Len(l), k < Len(l), NEW n \in Nat,
           End(l[k]) + n = l[k + 1].addr
    PROVE  LET r == [l[k] EXCEPT !.len = @ + n]
               u == [r EXCEPT !.len = @ + l[k + 1].len]
               m == With(RemoveAt(l, k + 1), k, u)
           IN  /\ Makes(l, m, <<Update(u)>> \o <<Delete(l[k + 1])>>)
               /\ Cover(ToSet(m)) = Cover(ToSet(l)) \cup Run(End(l[k]), n)
               /\ Run(End(l[k]), n) \cap Cover(ToSet(l)) = {}
<1> DEFINE q == l[k]
           t == l[k + 1]
           r == [q EXCEPT !.len = @ + n]
           u == [r EXCEPT !.len = @ + t.len]
           m == With(RemoveAt(l, k + 1), k, u)
<1>0. Len(l) \in Nat /\ k + 1 \in 1..Len(l) /\ q \in Good /\ t \in Good
  BY ListFacts
<1>1. /\ q.addr \in Nat /\ q.len \in Nat /\ End(q) = q.addr + q.len /\ End(q) \in Nat
      /\ t.addr \in Nat /\ t.len \in Nat /\ End(t) = t.addr + t.len /\ End(t) <= Size
      /\ q.id \in Ids \cup {NoId} /\ (q.len = 0 => q.addr = 0)
      /\ End(q) + n = t.addr
  BY <1>0, GoodFacts
<1>2. u \in Good /\ u.addr = q.addr /\ u.id = q.id /\ u.len = q.len + n + t.len /\ End(u) = End(t)
  <2> DEFINE a == q.addr
             b == q.len
             c == q.len + n + t.len
             i == q.id
  <2>0. q = Rec(a, b, i)
    BY <1>0, RecFields
  <2>1. u = Rec(a, c, i)
    <3> HIDE DEF a, b, i, q, t
    <3>1. r = Rec(a, b + n, i)
      BY <2>0 DEF Rec
    <3> HIDE DEF r
    <3>2. u = Rec(a, b + n + t.len, i)
      BY <3>1 DEF Rec
    <3> QED
      BY <3>2 DEF b
  <2>2. a \in Nat /\ c \in Nat /\ i \in Ids \cup {NoId} /\ a + c = End(t) /\ (c = 0 => a = 0)
    <3>1. a \in Nat /\ q.len \in Nat /\ t.len \in Nat /\ i \in Ids \cup {NoId}
      BY <1>1
    <3>2. q.len + n + t.len = 0 => q.len = 0
      BY <3>1
    <3>3. q.addr + (q.len + n + t.len) = End(t)
      <4> DEFINE d == t.len
                 e == End(q)
                 f == t.addr
                 g == End(t)
      <4>1. a + b = e /\ e + n = f /\ f + d = g /\ a \in Nat /\ b \in Nat /\ d \in Nat
        BY <1>1
      <4> HIDE DEF a, b, d, e, f, g
      <4>2. a + (b + n + d) = g
        BY <4>1
      <4> QED
        BY <4>2 DEF a, b, d, g
    <3>4. c \in Nat
      BY <3>1, SMTT(30)
    <3>5. c = 0 => a = 0
      BY <3>2, <1>1, Zenon
    <3>6. a + c = End(t)
      BY <3>3, Zenon
    <3> HIDE DEF a, c
    <3> QED
      BY <3>1, <3>4, <3>5, <3>6
  <2>3. End(t) <= Size
    BY <1>1
  <2> HIDE DEF a, c, i, t
  <2>4. /\ Rec(a, c, i) \in Good /\ End(Rec(a, c, i)) = a + c
        /\ Rec(a, c, i).addr = a /\ Rec(a, c, i).len = c /\ Rec(a, c, i).id = i
    BY <2>2, <2>3, GoodMade
  <2> QED
    BY <2>1, <2>2, <2>4 DEF a, c, i
<1> HIDE DEF u
<1>3. /\ Makes(l, m, <<Update(u)>> \o <<Delete(t)>>)
      /\ Cover(ToSet(m)) = ((Cover(ToSet(l)) \ Run(t.addr, t.len))
                              \ Run(q.addr, q.len)) \cup Run(u.addr, u.len)
  BY <1>2, MergedPair
<1>4. Run(q.addr, q.len) \subseteq Cover(ToSet(l)) /\ Run(t.addr, t.len) \subseteq Cover(ToSet(l))
  BY <1>0, ListFacts, CoverIs
<1>5. ASSUME NEW x
      PROVE  x \in Run(u.addr, u.len) <=>
                x \in Run(q.addr, q.len) \/ x \in Run(End(q), n) \/ x \in Run(t.addr, t.len)
  <2> DEFINE a == q.addr
             b == q.len
             e == End(q)
             c == t.addr
             d == t.len
             f == u.addr
             g == u.len
  <2>1. /\ a \in Nat /\ b \in Nat /\ c \in Nat /\ d \in Nat
        /\ e = a + b /\ e + n = c /\ f = a /\ g = b + n + d
    BY <1>1, <1>2
  <2> HIDE DEF a, b, c, d, e, f, g
  <2>2. x \in Run(f, g) <=> x \in Run(a, b) \/ x \in Run(e, n) \/ x \in Run(c, d)
    BY <2>1 DEF Run
  <2> QED
    BY <2>2 DEF a, b, c, d, e, f, g
<1>6. Run(End(q), n) \cap Cover(ToSet(l)) = {}
  <2>1. k \in 0..Len(l) /\ (k > 0 => End(l[k]) <= End(q)) /\ End(q) + n <= l[k + 1].addr
    BY <1>0, <1>1
  <2> QED
    BY <2>1, <1>1, RoomFree
<1>7. Cover(ToSet(m)) = Cover(ToSet(l)) \cup Run(End(q), n)
  <2> HIDE DEF q, t, m
  <2> QED
    BY <1>3, <1>4, <1>5
<1> QED
  BY <1>3, <1>6, <1>7 DEF u

\* A record that is freed as a whole goes.
LEMMA RemoveWhole ==
    ASSUME NEW l \in Lists, Sorted(l), NEW k \in 1..Len(l)
    PROVE  LET m == RemoveAt(l, k)
           IN  /\ Makes(l, m, <<Delete(l[k])>>)
               /\ Cover(ToSet(m)) = Cover(ToSet(l)) \ Run(l[k].addr, l[k].len)
<1> DEFINE m == RemoveAt(l, k)
           q == l[k]
           su == Delete(q)
           td == <<su>>
<1>1. m \in Lists /\ Sorted(m) /\ ToSet(m) = ToSet(l) \ {q}
  BY RemoveList
<1> HIDE DEF m
<1>2. q \in Good /\ q \in ToSet(l) /\ ToSet(l) \subseteq Good /\ Apart(ToSet(l))
  BY ListFacts, SortedApart
<1>3. Shape(m, td)
  BY <1>1, <1>2, ShapeOne
<1>4. ASSUME NEW R, R = ToSet(l), OwnIds(R)
      PROVE  Rest(R, td) = ToSet(m)
  <2>1. q \in R
    BY <1>2, <1>4
  <2> HIDE DEF q
  <2>2. Done(R, su) = R \ {q}
    BY <2>1, <1>4, DeleteRow
  <2> HIDE DEF su
  <2>3. Rest(R, td) = R \ {q}
    BY <2>2, RestOne
  <2> QED
    BY <2>3, <1>1, <1>4
<1>5. td # <<>> /\ Len(td) = 1
  OBVIOUS
<1>6. Makes(l, m, td)
  <2> HIDE DEF td
  <2> QED
    BY <1>1, <1>3, <1>4, <1>5 DEF Makes
<1>7. Cover(ToSet(m)) = Cover(ToSet(l)) \ Run(q.addr, q.len)
  BY <1>1, <1>2, CoverRemove
<1> QED
  BY <1>6, <1>7 DEF m

\* A record loses addresses at its beginning.
LEMMA ShrinkFront ==
    ASSUME NEW l \in Lists, Sorted(l), NEW k \in 1..Len(l), NEW n \in Nat, n < l[k].len
    PROVE  LET r == FrontFreed(l[k], n)
               m == With(l, k, r)
           IN  /\ Makes(l, m, <<Update(r)>>)
               /\ Cover(ToSet(m)) = Cover(ToSet(l)) \ Run(l[k].addr, n)
<1> DEFINE q == l[k]
           r == FrontFreed(q, n)
           m == With(l, k, r)
<1>0. Len(l) \in Nat /\ q \in Good
  BY ListFacts
<1>1. /\ q.addr \in Nat /\ q.len \in Nat /\ End(q) = q.addr + q.len /\ End(q) <= Size
      /\ q.id \in Ids \cup {NoId}
  BY <1>0, GoodFacts
<1>2. r \in Good /\ r.addr = q.addr + n /\ r.id = q.id /\ r.len = q.len - n /\ End(r) = End(q)
  <2> DEFINE a == q.addr + n
             c == q.len - n
             i == q.id
  <2>1. r = Rec(a, c, i)
    <3> DEFINE x == q.addr
               y == q.len
    <3>1. q = Rec(x, y, i)
      BY <1>0, RecFields
    <3> HIDE DEF q, x, y, i
    <3>2. FrontFreed(q, n) = Rec(x + n, y - n, i)
      BY <3>1, FrontFields
    <3> QED
      BY <3>2 DEF x, y
  <2>2. a \in Nat /\ c \in Nat /\ i \in Ids \cup {NoId} /\ a + c = End(q) /\ c # 0
    BY <1>1, SMTT(30)
  <2>3. End(q) <= Size
    BY <1>1
  <2> HIDE DEF a, c, i, q
  <2>4. /\ Rec(a, c, i) \in Good /\ End(Rec(a, c, i)) = a + c
        /\ Rec(a, c, i).addr = a /\ Rec(a, c, i).len = c /\ Rec(a, c, i).id = i
    BY <2>2, <2>3, GoodMade
  <2> QED
    BY <2>1, <2>2, <2>4 DEF a, c, i
<1> HIDE DEF r
<1>3. k > 1 => Below(l[k - 1], r)
  <2> SUFFICES ASSUME k > 1
               PROVE  Below(l[k - 1], r)
    OBVIOUS
  <2>1. k - 1 \in 1..Len(l) /\ k - 1 < k
    BY <1>0
  <2>2. Below(l[k - 1], q)
    BY <2>1 DEF Sorted
  <2>3. End(l[k - 1]) \in Nat
    BY <2>1, ListFacts, GoodFacts
  <2>4. End(l[k - 1]) < q.addr
    BY <2>2 DEF Below
  <2>5. End(l[k - 1]) < r.addr
    BY <2>3, <2>4, <1>1, <1>2
  <2> QED
    BY <2>5 DEF Below
<1>4. k < Len(l) => Below(r, l[k + 1])
  <2> SUFFICES ASSUME k < Len(l)
               PROVE  Below(r, l[k + 1])
    OBVIOUS
  <2>1. k + 1 \in 1..Len(l) /\ k < k + 1
    BY <1>0
  <2>2. Below(q, l[k + 1])
    BY <2>1 DEF Sorted
  <2> QED
    BY <2>2, <1>2 DEF Below
<1>5. /\ Makes(l, m, <<Update(r)>>)
      /\ Cover(ToSet(m)) = (Cover(ToSet(l)) \ Run(q.addr, q.len)) \cup Run(r.addr, r.len)
  BY <1>2, <1>3, <1>4, Replaced
<1>6. Run(q.addr, q.len) \subseteq Cover(ToSet(l))
  BY <1>0, ListFacts, CoverIs
<1>7. ASSUME NEW x
      PROVE  /\ x \in Run(r.addr, r.len) <=> x \in Run(q.addr, q.len) /\ x \notin Run(q.addr, n)
             /\ x \in Run(q.addr, n) => x \in Run(q.addr, q.len)
  <2>0. r.addr \in Nat /\ r.len \in Nat
    BY <1>2, GoodFacts
  <2>1. x \in Run(r.addr, r.len) <=> x \in Nat /\ q.addr + n <= x /\ x < q.addr + q.len
    BY <2>0, <1>1, <1>2, RunIs
  <2>2. x \in Run(q.addr, q.len) <=> x \in Nat /\ q.addr <= x /\ x < q.addr + q.len
    BY <1>1, RunIs
  <2>3. x \in Run(q.addr, n) <=> x \in Nat /\ q.addr <= x /\ x < q.addr + n
    BY <1>1, RunIs
  <2> QED
    BY <2>1, <2>2, <2>3, <1>1, SMTT(30)
<1>8. Cover(ToSet(m)) = Cover(ToSet(l)) \ Run(q.addr, n)
  <2> HIDE DEF q, m
  <2> QED
    BY <1>5, <1>6, <1>7
<1> QED
  BY <1>5, <1>8 DEF r

\* A record that ends earlier, at a.
Cut(q, a) == [q EXCEPT !.len = a - q.addr]

LEMMA CutShort ==
    ASSUME NEW l \in Lists, Sorted(l), NEW k \in 1..Len(l), NEW a \in Nat,
           l[k].addr < a, a <= End(l[k])
    PROVE  LET r == Cut(l[k], a)
               m == With(l, k, r)
           IN  /\ r \in Good /\ r.addr = l[k].addr /\ r.id = l[k].id /\ End(r) = a
               /\ r.len = a - l[k].addr
               /\ m \in Lists /\ Sorted(m) /\ Len(m) = Len(l) /\ m[k] = r
               /\ k < Len(l) => m[k + 1] = l[k + 1]
               /\ ToSet(m) = (ToSet(l) \ {l[k]}) \cup {r}
               /\ Makes(l, m, <<Update(r)>>)
               /\ Cover(ToSet(m)) = (Cover(ToSet(l)) \ Run(l[k].addr, l[k].len)) \cup Run(r.addr, r.len)
<1> DEFINE q == l[k]
           r == Cut(q, a)
           m == With(l, k, r)
<1>0. Len(l) \in Nat /\ q \in Good
  BY ListFacts
<1>1. /\ q.addr \in Nat /\ q.len \in Nat /\ End(q) = q.addr + q.len /\ End(q) <= Size
      /\ q.id \in Ids \cup {NoId} /\ End(q) \in Nat
  BY <1>0, GoodFacts
<1>2. r \in Good /\ r.addr = q.addr /\ r.id = q.id /\ r.len = a - q.addr /\ End(r) = a
  <2> DEFINE b == q.addr
             c == a - q.addr
             i == q.id
  <2>1. r = Rec(b, c, i)
    BY <1>0 DEF Good, Rec, Cut
  <2>2. b \in Nat /\ c \in Nat /\ i \in Ids \cup {NoId} /\ b + c = a /\ c # 0 /\ b + c <= Size
    <3>1. q.addr < a /\ a <= End(q)
      OBVIOUS
    <3> HIDE DEF q
    <3> QED
      BY <3>1, <1>1, AddrAllocAssumption
  <2> HIDE DEF b, c, i, q
  <2>3. /\ Rec(b, c, i) \in Good /\ End(Rec(b, c, i)) = b + c
        /\ Rec(b, c, i).addr = b /\ Rec(b, c, i).len = c /\ Rec(b, c, i).id = i
    BY <2>2, GoodMade
  <2> QED
    BY <2>1, <2>2, <2>3 DEF b, c, i
<1> HIDE DEF r
<1>3. k > 1 => Below(l[k - 1], r)
  <2> SUFFICES ASSUME k > 1
               PROVE  Below(l[k - 1], r)
    OBVIOUS
  <2>1. k - 1 \in 1..Len(l) /\ k - 1 < k
    BY <1>0
  <2>2. Below(l[k - 1], q)
    BY <2>1 DEF Sorted
  <2> QED
    BY <2>2, <1>2 DEF Below
<1>4. k < Len(l) => Below(r, l[k + 1])
  <2> SUFFICES ASSUME k < Len(l)
               PROVE  Below(r, l[k + 1])
    OBVIOUS
  <2>1. k + 1 \in 1..Len(l) /\ k < k + 1
    BY <1>0
  <2>2. End(q) < l[k + 1].addr
    BY <2>1 DEF Sorted, Below
  <2>3. l[k + 1].addr \in Nat
    BY <2>1, ListFacts, GoodFacts
  <2>4. End(r) < l[k + 1].addr
    <3>1. a <= End(q)
      OBVIOUS
    <3> HIDE DEF q
    <3> QED
      BY <3>1, <2>2, <2>3, <1>1, <1>2
  <2> QED
    BY <2>4 DEF Below
<1>5. /\ Makes(l, m, <<Update(r)>>)
      /\ Cover(ToSet(m)) = (Cover(ToSet(l)) \ Run(q.addr, q.len)) \cup Run(r.addr, r.len)
  BY <1>2, <1>3, <1>4, Replaced
<1>6. /\ m \in Lists /\ Sorted(m) /\ Len(m) = Len(l)
      /\ \A j \in 1..Len(l) : m[j] = IF j = k THEN r ELSE l[j]
      /\ ToSet(m) = (ToSet(l) \ {q}) \cup {r}
  BY <1>2, <1>3, <1>4, ReplaceList
<1>7. m[k] = r /\ (k < Len(l) => m[k + 1] = l[k + 1])
  <2>1. k < Len(l) => k + 1 \in 1..Len(l) /\ k + 1 # k
    BY <1>0
  <2> HIDE DEF m
  <2> QED
    BY <2>1, <1>6
<1> QED
  BY <1>2, <1>5, <1>6, <1>7 DEF r

\* A record loses addresses at its end.
LEMMA ShrinkEnd ==
    ASSUME NEW l \in Lists, Sorted(l), NEW k \in 1..Len(l), NEW a \in Nat, NEW n \in Nat,
           l[k].addr < a, a + n = End(l[k])
    PROVE  LET r == Cut(l[k], a)
               m == With(l, k, r)
           IN  TakesOut(l, m, <<Update(r)>>, a, n)
<1> DEFINE q == l[k]
           r == Cut(q, a)
           m == With(l, k, r)
<1>0. q \in Good /\ Run(q.addr, q.len) \subseteq Cover(ToSet(l)) /\ a <= End(l[k])
  BY ListFacts, CoverIs
<1>1. /\ q.addr \in Nat /\ q.len \in Nat /\ q.addr < a /\ a + n = q.addr + q.len
  BY <1>0, GoodFacts
<1>2. /\ r.addr = q.addr /\ r.len = a - q.addr
      /\ Makes(l, m, <<Update(r)>>)
      /\ Cover(ToSet(m)) = (Cover(ToSet(l)) \ Run(q.addr, q.len)) \cup Run(r.addr, r.len)
  BY <1>0, CutShort
<1> HIDE DEF q, r, m
<1>3. ASSUME NEW x
      PROVE  /\ x \in Run(r.addr, r.len) <=> x \in Run(q.addr, q.len) /\ x \notin Run(a, n)
             /\ x \in Run(a, n) => x \in Run(q.addr, q.len)
  <2>0. r.addr \in Nat /\ r.len \in Nat /\ r.addr + r.len = a
    BY <1>1, <1>2
  <2>1. x \in Run(r.addr, r.len) <=> x \in Nat /\ q.addr <= x /\ x < a
    BY <2>0, <1>1, <1>2, RunIs
  <2>2. x \in Run(q.addr, q.len) <=> x \in Nat /\ q.addr <= x /\ x < q.addr + q.len
    BY <1>1, RunIs
  <2>3. x \in Run(a, n) <=> x \in Nat /\ a <= x /\ x < q.addr + q.len
    BY <1>1, RunIs
  <2> QED
    BY <2>1, <2>2, <2>3, <1>1
<1>4. Cover(ToSet(m)) = Cover(ToSet(l)) \ Run(a, n) /\ Run(a, n) \subseteq Cover(ToSet(l))
  BY <1>0, <1>2, <1>3
<1> QED
  BY <1>2, <1>4 DEF q, r, m, TakesOut

\* Addresses inside a record are freed, which leaves two records; of no address, the two
\* touch.
LEMMA Split ==
    ASSUME NEW l \in Lists, Sorted(l), NEW k \in 1..Len(l), NEW a \in Nat, NEW n \in Nat,
           l[k].addr < a, a + n < End(l[k])
    PROVE  LET r == Cut(l[k], a)
               t == Rec(a + n, End(l[k]) - (a + n), NoId)
               m == InsertAt(With(l, k, r), k + 1, t)
               td == <<Update(r)>> \o <<Insert(t, k + 1)>>
           IN  /\ Shape(m, td)
               /\ n > 0 => Makes(l, m, td) /\ Cover(ToSet(m)) = Cover(ToSet(l)) \ Run(a, n)
<1> DEFINE q == l[k]
           r == Cut(q, a)
           t == Rec(a + n, End(q) - (a + n), NoId)
           w == With(l, k, r)
           p == k + 1
           m == InsertAt(w, p, t)
           st == Update(r)
           su == Insert(t, p)
           td == <<st>> \o <<su>>
<1>0. /\ q \in Good /\ Run(q.addr, q.len) \subseteq Cover(ToSet(l)) /\ q \in ToSet(l)
      /\ ToSet(l) \subseteq Good /\ Len(l) \in Nat
  BY ListFacts, CoverIs
<1>1. /\ q.addr \in Nat /\ q.len \in Nat /\ q.addr < a /\ a + n < q.addr + q.len
      /\ End(q) = q.addr + q.len /\ End(q) <= Size /\ a <= End(q) /\ End(q) \in Nat
  BY <1>0, GoodFacts
<1>2. /\ r \in Good /\ r.addr = q.addr /\ r.len = a - q.addr /\ r.id = q.id /\ End(r) = a
      /\ w \in Lists /\ Sorted(w) /\ Len(w) = Len(l) /\ w[k] = r
      /\ k < Len(l) => w[k + 1] = l[k + 1]
      /\ ToSet(w) = (ToSet(l) \ {q}) \cup {r}
      /\ Cover(ToSet(w)) = (Cover(ToSet(l)) \ Run(q.addr, q.len)) \cup Run(r.addr, r.len)
  <2>0. a <= End(l[k])
    BY <1>1
  <2>1. r \in Good /\ r.addr = q.addr /\ r.len = a - q.addr /\ r.id = q.id /\ End(r) = a
    BY <2>0, CutShort
  <2>2. /\ w \in Lists /\ Sorted(w) /\ Len(w) = Len(l) /\ w[k] = r
        /\ k < Len(l) => w[k + 1] = l[k + 1]
    BY <2>0, CutShort
  <2>3. ToSet(w) = (ToSet(l) \ {q}) \cup {r}
    <3>1. \A x : x \in ToSet(w) <=> x \in (ToSet(l) \ {q}) \cup {r}
      BY <2>0, CutShort
    <3> HIDE DEF w, q, r
    <3> QED
      BY <3>1
  <2>4. Cover(ToSet(w)) = (Cover(ToSet(l)) \ Run(q.addr, q.len)) \cup Run(r.addr, r.len)
    BY <2>0, CutShort
  <2> QED
    BY <2>1, <2>2, <2>3, <2>4
<1> HIDE DEF r, w
<1>3. t \in Good /\ t.addr = a + n /\ t.len = End(q) - (a + n) /\ t.id = NoId /\ End(t) = End(q)
  <2> DEFINE b == a + n
             c == End(q) - (a + n)
  <2>1. b \in Nat /\ c \in Nat /\ b + c = End(q) /\ c # 0 /\ b + c <= Size /\ NoId \in Ids \cup {NoId}
    <3> HIDE DEF q
    <3> QED
      BY <1>1
  <2> HIDE DEF b, c, q
  <2>2. /\ Rec(b, c, NoId) \in Good /\ End(Rec(b, c, NoId)) = b + c
        /\ Rec(b, c, NoId).addr = b /\ Rec(b, c, NoId).len = c /\ Rec(b, c, NoId).id = NoId
    BY <2>1, GoodMade
  <2> QED
    BY <2>1, <2>2 DEF b, c
<1> HIDE DEF t
<1>4. p \in 1..(Len(w) + 1) /\ p - 1 = k /\ p > 1 /\ k < p
  BY <1>0, <1>2
<1>5. m \in Lists /\ Len(m) = Len(w) + 1 /\ m[p] = t /\ p \in 1..Len(m)
  <2> HIDE DEF p
  <2>1. m \in Lists /\ Len(m) = Len(w) + 1
        /\ \A j \in 1..(Len(w) + 1) : m[j] = IF j < p THEN w[j] ELSE IF j = p THEN t ELSE w[j - 1]
    BY <1>2, <1>3, <1>4, InsertPlaces
  <2>2. ~(p < p)
    BY <1>4, <1>0
  <2> HIDE DEF m
  <2> QED
    BY <2>1, <2>2, <1>4
<1>6. Shape(m, td)
  <2> HIDE DEF m, p
  <2> QED
    BY <1>2, <1>3, <1>5, ShapeTwo
<1>7. ASSUME n > 0
      PROVE  Makes(l, m, td) /\ Cover(ToSet(m)) = Cover(ToSet(l)) \ Run(a, n)
  <2>1. Sorted(m) /\ ToSet(m) = ToSet(w) \cup {t}
    <3>1. Below(w[p - 1], t)
      <4>1. End(r) < t.addr
        BY <1>2, <1>3, <1>7
      <4> QED
        BY <4>1, <1>2, <1>4 DEF Below
    <3>2. p <= Len(w) => Below(t, w[p])
      <4> SUFFICES ASSUME p <= Len(w)
                   PROVE  Below(t, w[p])
        OBVIOUS
      <4>1. k < Len(l) /\ p \in 1..Len(l)
        BY <1>0, <1>2
      <4>2. Below(q, l[p]) /\ w[p] = l[p]
        BY <4>1, <1>2, <1>4 DEF Sorted
      <4> QED
        BY <4>2, <1>3 DEF Below
    <3> HIDE DEF p
    <3> QED
      BY <3>1, <3>2, <1>2, <1>3, <1>4, InsertList
  <2>2. ASSUME NEW R, R = ToSet(l), OwnIds(R)
        PROVE  Rest(R, td) = ToSet(m) /\ Done(R, st) # R
    <3>1. q \in R /\ r.id = q.id
      BY <1>0, <1>2, <2>2
    <3>2. Done(R, st) = (R \ {q}) \cup {r}
      BY <3>1, <2>2, UpdateRow
    <3>3. r # q
      <4>1. r.len # q.len
        BY <1>1, <1>2
      <4> QED
        BY <4>1
    <3>4. r \notin R
      BY <3>1, <3>3, <2>2 DEF OwnIds
    <3> HIDE DEF st, q, p, m
    <3>5. Done(Done(R, st), su) = Done(R, st) \cup {t}
      BY InsertRow
    <3> HIDE DEF su
    <3>6. Rest(R, td) = Done(R, st) \cup {t}
      BY <3>5, RestTwo
    <3>7. Done(R, st) # R
      BY <3>2, <3>4
    <3> QED
      BY <3>2, <3>6, <3>7, <2>1, <2>2, <1>2
  <2>3. td # <<>> /\ td[1] = st
    <3>1. Len(<<st>>) = 1 /\ <<st>>[1] = st /\ Len(<<su>>) = 1
      OBVIOUS
    <3> HIDE DEF st, su
    <3> QED
      OBVIOUS
  <2>4. Makes(l, m, td)
    <3> HIDE DEF td, st, m
    <3> QED
      BY <2>1, <2>2, <2>3, <1>6 DEF Makes
  <2>5. Cover(ToSet(m)) = Cover(ToSet(w)) \cup Run(t.addr, t.len)
    BY <2>1, CoverAdd
  <2> HIDE DEF q, m
  <2>6. ASSUME NEW x
        PROVE  /\ (x \in Run(r.addr, r.len) \/ x \in Run(t.addr, t.len))
                     <=> x \in Run(q.addr, q.len) /\ x \notin Run(a, n)
               /\ x \in Run(a, n) => x \in Run(q.addr, q.len)
    <3>1. r.addr \in Nat /\ r.len \in Nat /\ r.addr + r.len = a
      BY <1>2, GoodFacts
    <3>2. t.addr \in Nat /\ t.len \in Nat /\ t.addr + t.len = q.addr + q.len
      BY <1>1, <1>3
    <3>3. x \in Run(r.addr, r.len) <=> x \in Nat /\ q.addr <= x /\ x < a
      BY <3>1, <1>2, RunIs
    <3>4. x \in Run(t.addr, t.len) <=> x \in Nat /\ a + n <= x /\ x < q.addr + q.len
      BY <3>2, <1>3, RunIs
    <3>5. x \in Run(q.addr, q.len) <=> x \in Nat /\ q.addr <= x /\ x < q.addr + q.len
      BY <1>1, RunIs
    <3>6. x \in Run(a, n) <=> x \in Nat /\ a <= x /\ x < a + n
      BY RunIs
    <3> QED
      BY <3>3, <3>4, <3>5, <3>6, <1>1
  <2>7. Cover(ToSet(m)) = Cover(ToSet(l)) \ Run(a, n)
    BY <2>5, <2>6, <1>0, <1>2
  <2> QED
    BY <2>4, <2>7
<1> QED
  BY <1>6, <1>7 DEF r, t, w

-----------------------------------------------------------------------------
(* addr_alloc and addr_free                                                 *)

\* No run of n addresses is free.
Full(l, n) == \A a \in 0..(Size - n) : Run(a, n) \cap Cover(ToSet(l)) # {}

\* A record that is not at the beginning of the segment has an address, its first one.
LEMMA FirstAddress ==
    ASSUME NEW l \in Lists, NEW k \in 1..Len(l)
    PROVE  /\ l[k].addr > 0 => l[k].addr \in Cover(ToSet(l))
           /\ \A x \in Nat : (l[k].addr <= x /\ x < End(l[k])) => x \in Cover(ToSet(l))
<1>1. /\ l[k] \in ToSet(l) /\ l[k].addr \in Nat /\ l[k].len \in Nat
      /\ End(l[k]) = l[k].addr + l[k].len /\ (l[k].len = 0 => l[k].addr = 0)
  BY ListFacts, GoodFacts
<1>2. ASSUME NEW x \in Nat, l[k].addr <= x, x < End(l[k])
      PROVE  x \in Cover(ToSet(l))
  <2>1. x \in Run(l[k].addr, l[k].len)
    BY <1>1, <1>2, RunIs
  <2> QED
    BY <2>1, <1>1, CoverIs
<1>3. ASSUME l[k].addr > 0
      PROVE  l[k].addr \in Cover(ToSet(l))
  <2>1. l[k].addr < End(l[k])
    BY <1>1, <1>3
  <2> QED
    BY <2>1, <1>1, <1>2
<1> QED
  BY <1>2, <1>3

\* Whoever is refused finds no room between the records, nor before or behind them.
LEMMA NoRoom ==
    ASSUME NEW l \in Lists, Sorted(l), l # <<>>, NEW n \in Nat, n <= Size,
           n > l[1].addr,
           \A k \in 1..Len(l) : k < Len(l) => End(l[k]) + n > l[k + 1].addr,
           End(l[Len(l)]) + n > Size
    PROVE  Full(l, n)
<1> SUFFICES ASSUME NEW a \in 0..(Size - n), Run(a, n) \cap Cover(ToSet(l)) = {}
             PROVE  FALSE
  BY DEF Full
<1>0. Len(l) \in Nat /\ 1 \in 1..Len(l) /\ Size \in Nat /\ a \in Nat /\ a + n <= Size
  BY ListFacts, AddrAllocAssumption DEF Lists
<1>1. \A k \in 1..Len(l) : l[k].addr \in Nat /\ End(l[k]) \in Nat
  BY ListFacts, GoodFacts
<1>2. n > 0
  BY <1>0, <1>1
<1>3. \A x \in Nat : (a <= x /\ x < a + n) => x \notin Cover(ToSet(l))
  BY <1>0, RunIs
<1> DEFINE S == {k \in 1..Len(l) : l[k].addr <= a}
<1>4. 1 \in S
  <2> SUFFICES ASSUME a < l[1].addr
               PROVE  FALSE
    BY <1>0, <1>1
  <2> DEFINE x == l[1].addr
  <2>1. x \in Nat /\ a < x /\ x < a + n /\ x > 0
    BY <1>0, <1>1
  <2>2. x \in Cover(ToSet(l))
    BY <2>1, <1>0, FirstAddress
  <2> HIDE DEF x
  <2> QED
    BY <2>1, <2>2, <1>0, <1>3
<1> DEFINE k == Max(S)
<1>5. k \in S /\ \A y \in S : k >= y
  <2>1. S \in SUBSET (0..Len(l)) /\ S # {}
    BY <1>0, <1>4
  <2> HIDE DEF S
  <2> QED
    BY <2>1, <1>0, LargestExists
<1>6. k \in 1..Len(l) /\ l[k].addr <= a
  <2> HIDE DEF k
  <2> QED
    BY <1>5
<1> HIDE DEF k
<1>7. End(l[k]) <= a
  <2> SUFFICES ASSUME a < End(l[k])
               PROVE  FALSE
    BY <1>0, <1>1, <1>6
  <2>1. a \in Cover(ToSet(l))
    BY <1>0, <1>6, FirstAddress
  <2> QED
    BY <2>1, <1>0, <1>2, <1>3
<1>8. CASE k < Len(l)
  <2> DEFINE j == k + 1
             x == l[j].addr
  <2>1. j \in 1..Len(l) /\ j > k /\ x \in Nat
    BY <1>0, <1>1, <1>6, <1>8
  <2>2. j \notin S
    BY <2>1, <1>5, <1>6
  <2>3. a < x
    <3>1. ~(x <= a)
      BY <2>1, <2>2
    <3> HIDE DEF x
    <3> QED
      BY <3>1, <2>1, <1>0
  <2>4. x \in Cover(ToSet(l))
    BY <2>1, <2>3, <1>0, FirstAddress
  <2>5. ~(x < a + n)
    <3> HIDE DEF x
    <3> QED
      BY <2>1, <2>3, <2>4, <1>0, <1>3
  <2>6. End(l[k]) + n > x
    BY <1>6, <1>8
  <2>7. End(l[k]) \in Nat
    BY <1>1, <1>6
  <2> HIDE DEF x
  <2> QED
    BY <2>1, <2>5, <2>6, <2>7, <1>0, <1>7
<1>9. CASE k = Len(l)
  <2>1. End(l[k]) + n > Size /\ End(l[k]) \in Nat
    BY <1>1, <1>6, <1>9
  <2> QED
    BY <2>1, <1>0, <1>7
<1> QED
  BY <1>0, <1>6, <1>8, <1>9

Granted(s, n) == \E a, m, td : Gives(list[s], m, td, a, n) /\ Begin(s, Given(a, n), m, td)
Freeing(s, a, n) == \E m, td : /\ TakesOut(list[s], m, td, a, n)
                               /\ Begin(s, [op |-> "free", at |-> a, len |-> n], m, td)

LEMMA ModSmall == ASSUME NEW x \in Nat, x <= Size
                  PROVE  x % Width = x
<1>1. Width \in Nat /\ x < Width
  BY AddrAllocAssumption
<1> QED
  BY <1>1

\* addr_alloc takes a run of free addresses, and is refused only when there is none.
LEMMA AllocBegins ==
    ASSUME NEW s \in Stations, list[s] \in Lists, Sorted(list[s]), NEW n \in Nat, Alloc(s, n)
    PROVE  Granted(s, n) \/ (Refuse(s, n) /\ (n > Size \/ Full(list[s], n)))
<1> DEFINE l == list[s]
           first == l # <<>> => n <= l[1].addr
           rooms == {k \in 1..(Len(l) - 1) : Fits(l, k, n)}
           grown(k) == [l[k] EXCEPT !.len = @ + n]
<1>0. /\ l \in Lists /\ Sorted(l) /\ Len(l) \in Nat /\ (l # <<>> => 1 \in 1..Len(l) /\ Len(l) \in 1..Len(l))
      /\ \A k \in 1..Len(l) : l[k] \in Good
  BY ListFacts DEF Lists
<1>1. \A k \in 1..Len(l) : /\ l[k].addr \in Nat /\ End(l[k]) \in Nat /\ End(l[k]) <= Size
                           /\ l[k].addr <= Size
  <2> TAKE k \in 1..Len(l)
  <2>1. l[k] \in Good
    BY <1>0
  <2> DEFINE a == l[k].addr
             b == l[k].len
             e == End(l[k])
  <2>2. a \in Nat /\ b \in Nat /\ e = a + b /\ e <= Size
    <3> HIDE DEF l
    <3> QED
      BY <2>1, GoodFacts
  <2> HIDE DEF a, b, e
  <2>3. a \in Nat /\ e \in Nat /\ e <= Size /\ a <= Size
    BY <2>2, AddrAllocAssumption
  <2> QED
    BY <2>3 DEF a, e
<1>2. \/ n > Size /\ Refuse(s, n)
      \/ n <= Size /\ first /\ AllocFirst(s, n)
      \/ n <= Size /\ ~first /\ rooms # {} /\ AllocBetween(s, n, Min(rooms))
      \/ n <= Size /\ ~first /\ rooms = {} /\ AllocLast(s, n)
      \/ n <= Size /\ ~first /\ rooms = {} /\ ~FitsAtEnd(Last(l), n) /\ Refuse(s, n)
  BY Zenon DEF Alloc
<1>3. \A m, td, a : (Gives(l, m, td, a, n) /\ Begin(s, Given(a, n), m, td)) => Granted(s, n)
  BY Zenon DEF Granted
<1>4. ASSUME n <= Size, AllocFirst(s, n)
      PROVE  Granted(s, n)
  <2> DEFINE q == Rec(0, n, NoId)
             r == Rec(0, l[1].len + n, l[1].id)
  <2>1. \/ l = <<>> /\ Begin(s, Given(0, n), <<q>>, <<Insert(q, 1)>>)
        \/ l # <<>> /\ n < l[1].addr /\ Begin(s, Given(0, n), <<q>> \o l, <<Insert(q, 1)>>)
        \/ l # <<>> /\ n = l[1].addr /\ Begin(s, Given(0, n), [l EXCEPT ![1] = r], <<Update(r)>>)
    BY <1>4, Zenon DEF AllocFirst
  <2>2. 0 \in Nat /\ 0 + n <= Size
    BY <1>4
  <2>3. (l # <<>> => n < l[1].addr) => Gives(l, <<q>> \o l, <<Insert(q, 1)>>, 0, n)
    <3> SUFFICES ASSUME l # <<>> => n < l[1].addr
                 PROVE  Gives(l, <<q>> \o l, <<Insert(q, 1)>>, 0, n)
      OBVIOUS
    <3> HIDE DEF l
    <3>1. /\ Makes(l, <<q>> \o l, <<Insert(q, 1)>>)
          /\ Cover(ToSet(<<q>> \o l)) = Cover(ToSet(l)) \cup Run(0, n)
          /\ Run(0, n) \cap Cover(ToSet(l)) = {}
      BY <1>0, <1>4, NewFront, Zenon
    <3> QED
      BY <2>2, <3>1, Zenon DEF Gives
  <2>4. CASE l = <<>> /\ Begin(s, Given(0, n), <<q>>, <<Insert(q, 1)>>)
    <3>1. <<q>> \o l = <<q>>
      BY <2>4
    <3>2. Gives(l, <<q>>, <<Insert(q, 1)>>, 0, n)
      BY <2>3, <2>4, <3>1, Zenon
    <3> QED
      BY <2>4, <3>2, <1>3, Zenon
  <2>5. CASE l # <<>> /\ n < l[1].addr /\ Begin(s, Given(0, n), <<q>> \o l, <<Insert(q, 1)>>)
    BY <2>3, <2>5, <1>3, Zenon
  <2>6. CASE l # <<>> /\ n = l[1].addr /\ Begin(s, Given(0, n), [l EXCEPT ![1] = r], <<Update(r)>>)
    <3> DEFINE m == [l EXCEPT ![1] = r]
    <3>1. Gives(l, m, <<Update(r)>>, 0, n)
      <4> HIDE DEF l
      <4>1. /\ Makes(l, With(l, 1, r), <<Update(r)>>)
            /\ Cover(ToSet(With(l, 1, r))) = Cover(ToSet(l)) \cup Run(0, n)
            /\ Run(0, n) \cap Cover(ToSet(l)) = {}
        BY <1>0, <2>6, GrowFront, Zenon
      <4>2. m = With(l, 1, r)
        BY Zenon DEF With
      <4> QED
        BY <4>1, <4>2, <2>2, Zenon DEF Gives
    <3> QED
      BY <3>1, <2>6, <1>3, Zenon
  <2> QED
    BY <2>1, <2>4, <2>5, <2>6
<1>5. ASSUME NEW k \in 1..Len(l), End(l[k]) + n <= Size,
             k < Len(l) => End(l[k]) + n < l[k + 1].addr,
             Begin(s, Given(End(l[k]), n), [l EXCEPT ![k] = grown(k)], <<Update(grown(k))>>)
      PROVE  Granted(s, n)
  <2> DEFINE r == grown(k)
             m == [l EXCEPT ![k] = r]
             b == End(l[k])
  <2>1. Gives(l, m, <<Update(r)>>, b, n)
    <3> HIDE DEF l
    <3>1. /\ Makes(l, With(l, k, r), <<Update(r)>>)
          /\ Cover(ToSet(With(l, k, r))) = Cover(ToSet(l)) \cup Run(End(l[k]), n)
          /\ Run(End(l[k]), n) \cap Cover(ToSet(l)) = {}
      BY <1>0, <1>5, GrowEnd, Zenon
    <3>2. m = With(l, k, r)
      BY Zenon DEF With
    <3>3. End(l[k]) \in Nat
      BY <1>1
    <3> QED
      BY <3>1, <3>2, <3>3, <1>5, Zenon DEF Gives
  <2> QED
    BY <2>1, <1>5, <1>3, Zenon
<1>6. ASSUME n <= Size, ~first, rooms # {}, AllocBetween(s, n, Min(rooms))
      PROVE  Granted(s, n)
  <2> DEFINE k == Min(rooms)
             r == [l[k] EXCEPT !.len = @ + n]
             u == [r EXCEPT !.len = @ + l[k + 1].len]
  <2>1. k \in rooms
    <3>1. rooms \in SUBSET Nat
      BY <1>0
    <3> HIDE DEF rooms
    <3> QED
      BY <3>1, <1>6, LeastExists
  <2>2. k \in 1..Len(l) /\ k < Len(l) /\ k + 1 \in 1..Len(l) /\ Fits(l, k, n)
    <3>1. k \in 1..(Len(l) - 1) /\ Fits(l, k, n)
      BY <2>1
    <3> HIDE DEF k, l
    <3> QED
      BY <3>1, <1>0
  <2>3. IF End(r) = l[k + 1].addr
        THEN Begin(s, Given(End(l[k]), n), [RemoveAt(l, k + 1) EXCEPT ![k] = u],
                   <<Update(u)>> \o MergedRow(l[k + 1]))
        ELSE Begin(s, Given(End(l[k]), n), [l EXCEPT ![k] = r], <<Update(r)>>)
    BY <1>6, Zenon DEF AllocBetween
  <2> HIDE DEF k, l
  <2>4. End(r) = End(l[k]) + n
    <3>1. l[k] \in Good
      BY <1>0, <2>2
    <3> QED
      BY <3>1 DEF Good, End
  <2>5. End(l[k]) + n <= l[k + 1].addr /\ l[k + 1].addr <= Size /\ End(l[k]) \in Nat /\ l[k + 1].addr \in Nat
    <3> DEFINE a == End(l[k])
               b == l[k + 1].addr
    <3>1. a \in Nat /\ b \in Nat /\ b <= Size /\ a < b /\ (b - a) % Width >= n
      <4>1. Below(l[k], l[k + 1])
        BY <1>0, <2>2 DEF Sorted
      <4> QED
        BY <4>1, <2>2, <1>1 DEF Below, Fits
    <3> HIDE DEF a, b
    <3>2. b - a \in Nat /\ b - a <= Size
      BY <3>1, AddrAllocAssumption
    <3>3. (b - a) % Width = b - a
      BY <3>2, ModSmall
    <3>4. a + n <= b
      BY <3>1, <3>3
    <3> QED
      BY <3>1, <3>4 DEF a, b
  <2> HIDE DEF r
  <2>6. CASE End(r) = l[k + 1].addr
    <3> DEFINE b == End(l[k])
               t == l[k + 1]
               m == [RemoveAt(l, k + 1) EXCEPT ![k] = u]
               td == <<Update(u)>> \o <<Delete(t)>>
    <3>1. Begin(s, Given(b, n), m, td)
      BY <2>3, <2>6, Zenon DEF MergedRow
    <3>2. End(l[k]) + n = l[k + 1].addr
      BY <2>4, <2>6, Zenon
    <3>3. /\ Makes(l, With(RemoveAt(l, k + 1), k, u), td)
          /\ Cover(ToSet(With(RemoveAt(l, k + 1), k, u))) = Cover(ToSet(l)) \cup Run(b, n)
          /\ Run(b, n) \cap Cover(ToSet(l)) = {}
      BY <3>2, <2>2, <1>0, Merge, Zenon DEF r
    <3>4. m = With(RemoveAt(l, k + 1), k, u)
      BY Zenon DEF With
    <3>5. b \in Nat /\ b + n <= Size
      BY <2>5, <3>2, Zenon
    <3>6. Gives(l, m, td, b, n)
      BY <3>3, <3>4, <3>5, Zenon DEF Gives
    <3> QED
      BY <3>1, <3>6, <1>3, Zenon
  <2>7. CASE End(r) # l[k + 1].addr
    <3>1. Begin(s, Given(End(l[k]), n), [l EXCEPT ![k] = r], <<Update(r)>>)
      BY <2>3, <2>7, Zenon
    <3>2. End(l[k]) + n <= Size /\ End(l[k]) + n < l[k + 1].addr
      BY <2>4, <2>5, <2>7, AddrAllocAssumption
    <3>3. r = [l[k] EXCEPT !.len = @ + n]
      BY DEF r
    <3> QED
      BY <3>1, <3>2, <3>3, <2>2, <1>5
  <2> QED
    BY <2>6, <2>7
<1>7. ASSUME n <= Size, ~first, AllocLast(s, n)
      PROVE  Granted(s, n)
  <2> DEFINE k == Len(l)
             r == [l[k] EXCEPT !.len = @ + n]
  <2>1. End(l[k]) + n <= Size /\ Begin(s, Given(End(l[k]), n), [l EXCEPT ![k] = r], <<Update(r)>>)
    BY <1>7, Zenon DEF AllocLast, Last, FitsAtEnd
  <2>2. k \in 1..Len(l) /\ ~(k < Len(l))
    <3>1. l # <<>>
      BY <1>7
    <3> HIDE DEF l
    <3> QED
      BY <3>1, <1>0
  <2> HIDE DEF l, k
  <2> QED
    BY <2>1, <2>2, <1>5, Zenon
<1>8. ASSUME n <= Size, ~first, rooms = {}, ~FitsAtEnd(Last(l), n)
      PROVE  Full(l, n)
  <2>1. l # <<>> /\ ~(n <= l[1].addr)
    BY <1>8, Zenon
  <2> HIDE DEF l
  <2>2. n > l[1].addr
    BY <2>1, <1>0, <1>1
  <2>3. ASSUME NEW k \in 1..Len(l), k < Len(l)
        PROVE  End(l[k]) + n > l[k + 1].addr
    <3>1. k \in 1..(Len(l) - 1) /\ k + 1 \in 1..Len(l)
      BY <1>0, <2>3
    <3>2. ~Fits(l, k, n)
      BY <3>1, <1>8
    <3> DEFINE a == End(l[k])
               b == l[k + 1].addr
    <3>3. a \in Nat /\ b \in Nat /\ b <= Size /\ a < b /\ ~((b - a) % Width >= n)
      <4>1. Below(l[k], l[k + 1])
        BY <1>0, <2>3, <3>1 DEF Sorted
      <4> QED
        BY <4>1, <3>1, <3>2, <1>1 DEF Below, Fits
    <3> HIDE DEF a, b
    <3>4. b - a \in Nat /\ b - a <= Size
      BY <3>3, AddrAllocAssumption
    <3>5. (b - a) % Width = b - a
      BY <3>4, ModSmall
    <3>6. a + n > b
      BY <3>3, <3>5
    <3> QED
      BY <3>6 DEF a, b
  <2>4. End(l[Len(l)]) + n > Size
    <3>1. ~(End(l[Len(l)]) + n <= Size)
      BY <1>8, Zenon DEF FitsAtEnd, Last
    <3>2. End(l[Len(l)]) \in Nat
      BY <2>1, <1>0, <1>1
    <3> QED
      BY <3>1, <3>2, AddrAllocAssumption
  <2> QED
    BY <2>1, <2>2, <2>3, <2>4, <1>0, <1>8, NoRoom, Zenon
<1> QED
  BY <1>2, <1>4, <1>6, <1>7, <1>8, Zenon

Released(a, n) == [op |-> "free", at |-> a, len |-> n]

\* A run that reaches over the end of a record is not in use as a whole.
LEMMA NotInUse ==
    ASSUME NEW l \in Lists, Sorted(l), NEW a \in Nat, NEW n \in Nat, n > 0,
           Run(a, n) \subseteq Cover(ToSet(l))
    PROVE  \E j \in 1..Len(l) : l[j].addr <= a /\ a + n <= End(l[j])
<1>1. \A x \in Nat : (a <= x /\ x < a + n) => x \in Cover(ToSet(l))
  BY RunIs
<1>2. a \in Cover(ToSet(l))
  BY <1>1
<1>3. \A x : x \in Cover(ToSet(l)) <=> \E j \in 1..Len(l) : x \in Run(l[j].addr, l[j].len)
  BY ListFacts, CoverIs
<1>4. PICK j \in 1..Len(l) : a \in Run(l[j].addr, l[j].len)
  BY <1>2, <1>3
<1>5. \A i \in 1..Len(l) : /\ l[i].addr \in Nat /\ l[i].len \in Nat /\ End(l[i]) \in Nat
                           /\ End(l[i]) = l[i].addr + l[i].len
  BY ListFacts, GoodFacts
<1>6. l[j].addr <= a /\ a < End(l[j])
  <2>1. l[j].addr \in Nat /\ l[j].len \in Nat /\ End(l[j]) = l[j].addr + l[j].len
    BY <1>5
  <2> QED
    BY <2>1, <1>4, RunIs
<1>7. a + n <= End(l[j])
  <2> SUFFICES ASSUME End(l[j]) < a + n
               PROVE  FALSE
    BY <1>5
  <2> DEFINE e == End(l[j])
  <2>1. e \in Cover(ToSet(l))
    BY <1>1, <1>5, <1>6
  <2>2. PICK i \in 1..Len(l) : e \in Run(l[i].addr, l[i].len)
    BY <2>1, <1>3
  <2>3. l[i].addr <= e /\ e < End(l[i])
    <3>1. l[i].addr \in Nat /\ l[i].len \in Nat /\ End(l[i]) = l[i].addr + l[i].len
      BY <1>5
    <3> QED
      BY <3>1, <2>2, RunIs
  <2>4. i # j
    BY <2>3, <1>5
  <2>5. Below(l[i], l[j]) \/ Below(l[j], l[i])
    BY <2>4, ListFacts DEF Sorted
  <2>6. End(l[i]) < l[j].addr \/ e < l[i].addr
    BY <2>5 DEF Below
  <2> DEFINE ei == End(l[i])
             ai == l[i].addr
             aj == l[j].addr
  <2>7. ei \in Nat /\ ai \in Nat /\ aj \in Nat /\ e \in Nat /\ ai <= e /\ e < ei /\ aj <= a /\ a < e
        /\ (ei < aj \/ e < ai)
    BY <2>3, <2>6, <1>5, <1>6
  <2> HIDE DEF ei, ai, aj, e
  <2> QED
    BY <2>7
<1> QED
  BY <1>6, <1>7

\* addr_free refuses a run that the list does not have as a whole, and takes any other
\* out; only one of no address, inside a record, leaves records that touch.
LEMMA FreeBegins ==
    ASSUME NEW s \in Stations, list[s] \in Lists, Sorted(list[s]),
           NEW a \in Space, NEW n \in Nat, Free(s, a, n)
    PROVE  \/ /\ Keep(s, a, n) /\ sound' = sound /\ Note(FALSE, granted, begun, stale)
              /\ n > 0 => ~(Run(a, n) \subseteq Cover(ToSet(list[s])))
           \/ Freeing(s, a, n) /\ sound' = sound /\ Note(FALSE, granted \ Run(a, n), begun, stale)
           \/ /\ \E m, td : Shape(m, td) /\ Begin(s, Released(a, n), m, td)
              /\ n = 0
              /\ sound' = sound \ {s} /\ Note(TRUE, granted \ Run(a, n), begun, stale)
<1> DEFINE l == list[s]
           k == Min(Holders(s, a))
           refused == Holders(s, a) = {} \/ a + n > End(l[k])
           splits == ~refused /\ n = 0 /\ l[k].addr < a /\ a < End(l[k])
<1>0. /\ l \in Lists /\ Sorted(l) /\ Len(l) \in Nat /\ a \in Nat
      /\ Holders(s, a) = {j \in 1..Len(l) : l[j].addr <= a /\ a <= End(l[j])}
  BY ListFacts, AddrAllocAssumption DEF Space, Holders
<1>1. /\ IF refused THEN Keep(s, a, n) ELSE FreeAccepted(s, k, a, n)
      /\ sound' = IF splits THEN sound \ {s} ELSE sound
      /\ Note(splits, IF refused THEN granted ELSE granted \ Run(a, n), begun, stale)
  BY Zenon DEF Free
<1>2. \A i \in 1..Len(l) : /\ l[i].addr \in Nat /\ l[i].len \in Nat /\ End(l[i]) \in Nat
                           /\ End(l[i]) = l[i].addr + l[i].len
  <2> HIDE DEF l
  <2> QED
    BY <1>0, ListFacts, GoodFacts
<1>3. Holders(s, a) # {} => /\ k \in 1..Len(l) /\ l[k].addr <= a /\ a <= End(l[k])
                            /\ \A j \in Holders(s, a) : k <= j
  <2> SUFFICES ASSUME Holders(s, a) # {}
               PROVE  k \in Holders(s, a) /\ \A j \in Holders(s, a) : k <= j
    BY <1>0
  <2>1. Holders(s, a) \in SUBSET Nat
    BY <1>0
  <2> QED
    BY <2>1, LeastExists
<1>4. CASE refused
  <2>1. ASSUME n > 0, Run(a, n) \subseteq Cover(ToSet(l))
        PROVE  FALSE
    <3>1. PICK j \in 1..Len(l) : l[j].addr <= a /\ a + n <= End(l[j])
      <4> HIDE DEF l
      <4> QED
        BY <2>1, <1>0, NotInUse
    <3>2. a <= End(l[j])
      BY <3>1, <1>0, <1>2
    <3>3. j \in Holders(s, a)
      BY <3>1, <3>2, <1>0
    <3>4. k \in 1..Len(l) /\ l[k].addr <= a /\ a <= End(l[k]) /\ k <= j /\ a + n > End(l[k])
      BY <3>3, <1>3, <1>4
    <3> HIDE DEF k, l
    <3>5. k # j
      BY <3>1, <3>4, <1>0, <1>2
    <3>6. Below(l[k], l[j])
      BY <3>4, <3>5, <1>0 DEF Sorted
    <3>7. End(l[k]) < l[j].addr
      BY <3>6 DEF Below
    <3> QED
      BY <3>1, <3>4, <3>7, <1>0, <1>2
  <2>2. ~splits
    BY <1>4
  <2>3. sound' = sound /\ Note(FALSE, granted, begun, stale) /\ Keep(s, a, n)
    <3>1. Note(splits, granted, begun, stale) /\ Keep(s, a, n) /\ sound' = sound
      BY <1>1, <1>4, <2>2
    <3> HIDE DEF splits
    <3> QED
      BY <3>1, <2>2, Zenon DEF Note
  <2> QED
    BY <2>1, <2>3
<1>5. CASE ~refused
  <2>0. FreeAccepted(s, k, a, n) /\ k \in 1..Len(l) /\ l[k].addr <= a /\ a <= End(l[k]) /\ ~(a + n > End(l[k]))
    BY <1>1, <1>3, <1>5
  <2>1. CASE splits
    <3>0. Note(TRUE, granted \ Run(a, n), begun, stale) /\ sound' = sound \ {s}
      <4>1. Note(splits, granted \ Run(a, n), begun, stale) /\ sound' = sound \ {s}
        BY <1>1, <1>5, <2>1
      <4> HIDE DEF splits
      <4> QED
        BY <4>1, <2>1, Zenon DEF Note
    <3>1. n = 0 /\ l[k].addr < a /\ a < End(l[k])
      BY <2>1
    <3> HIDE DEF k, l
    <3>2. FreeInside(s, k, a, n)
      <4>1. ~(a = l[k].addr)
        BY <3>1, <2>0, <1>0, <1>2
      <4> QED
        BY <4>1, <2>0, Zenon DEF FreeAccepted, l
    <3> DEFINE r == [l[k] EXCEPT !.len = a - l[k].addr]
               t == Rec(a + n, End(l[k]) - (a + n), NoId)
               m == InsertAt([l EXCEPT ![k] = r], k + 1, t)
               td == <<Update(r)>> \o <<Insert(t, k + 1)>>
    <3>3. t.len > 0 /\ a + n < End(l[k])
      <4>1. t.len = End(l[k]) - (a + n)
        BY RecFields
      <4> QED
        BY <4>1, <3>1, <2>0, <1>0, <1>2
    <3>4. Begin(s, Released(a, n), m, td)
      BY <3>2, <3>3, Zenon DEF FreeInside, TailRow, Released, l
    <3>5. Shape(InsertAt(With(l, k, Cut(l[k], a)), k + 1, t), <<Update(Cut(l[k], a))>> \o <<Insert(t, k + 1)>>)
      BY <3>1, <3>3, <2>0, <1>0, Split, Zenon
    <3>6. Shape(m, td)
      BY <3>5, Zenon DEF With, Cut
    <3> QED
      BY <3>0, <3>1, <3>4, <3>6, Zenon
  <2>2. CASE ~splits
    <3>0. Note(FALSE, granted \ Run(a, n), begun, stale) /\ sound' = sound
      <4>1. Note(splits, granted \ Run(a, n), begun, stale) /\ sound' = sound
        BY <1>1, <1>5, <2>2
      <4> HIDE DEF splits
      <4> QED
        BY <4>1, <2>2, Zenon DEF Note
    <3>1. ~(n = 0 /\ l[k].addr < a /\ a < End(l[k]))
      BY <1>5, <2>2
    <3> HIDE DEF k, l
    <3>2. Run(a, n) \subseteq Cover(ToSet(l))
      <4> SUFFICES ASSUME NEW x \in Run(a, n)
                   PROVE  x \in Cover(ToSet(l))
        OBVIOUS
      <4>1. x \in Nat /\ a <= x /\ x < a + n
        BY <1>0, RunIs
      <4>2. l[k].addr <= x /\ x < End(l[k])
        BY <4>1, <2>0, <1>0, <1>2
      <4> QED
        BY <4>1, <4>2, <2>0, <1>0, FirstAddress
    <3>3. \A m, td : /\ Makes(l, m, td) /\ Cover(ToSet(m)) = Cover(ToSet(l)) \ Run(a, n)
                     /\ Begin(s, Released(a, n), m, td)
                     => Freeing(s, a, n)
      BY <3>2, Zenon DEF Freeing, TakesOut, Released, l
    <3> HIDE DEF refused, splits
    <3>4. CASE a = l[k].addr /\ FreeAtFront(s, k, n)
      <4>1. CASE n = l[k].len /\ Begin(s, Released(a, n), RemoveAt(l, k), <<Delete(l[k])>>)
        <5>1. /\ Makes(l, RemoveAt(l, k), <<Delete(l[k])>>)
              /\ Cover(ToSet(RemoveAt(l, k))) = Cover(ToSet(l)) \ Run(a, n)
          BY <4>1, <3>4, <2>0, <1>0, RemoveWhole
        <5> QED
          BY <5>1, <4>1, <3>3, <3>0, Zenon
      <4>2. CASE n < l[k].len /\ Begin(s, Released(a, n), [l EXCEPT ![k] = FrontFreed(l[k], n)],
                                       <<Update(FrontFreed(l[k], n))>>)
        <5> DEFINE r == FrontFreed(l[k], n)
                   m == [l EXCEPT ![k] = r]
        <5>1. /\ Makes(l, With(l, k, r), <<Update(r)>>)
              /\ Cover(ToSet(With(l, k, r))) = Cover(ToSet(l)) \ Run(l[k].addr, n)
          BY <4>2, <2>0, <1>0, ShrinkFront
        <5>2. m = With(l, k, r)
          BY Zenon DEF With
        <5>3. Makes(l, m, <<Update(r)>>) /\ Cover(ToSet(m)) = Cover(ToSet(l)) \ Run(a, n)
          BY <5>1, <5>2, <3>4, Zenon
        <5> QED
          BY <5>3, <4>2, <3>3, <3>0, Zenon
      <4> QED
        BY <4>1, <4>2, <3>4, Zenon DEF FreeAtFront, Released, l
    <3>5. CASE a > l[k].addr /\ FreeInside(s, k, a, n)
      <4> DEFINE r == [l[k] EXCEPT !.len = a - l[k].addr]
                 t == Rec(a + n, End(l[k]) - (a + n), NoId)
                 w == [l EXCEPT ![k] = r]
                 m == InsertAt(w, k + 1, t)
                 td == <<Update(r)>> \o <<Insert(t, k + 1)>>
      <4>0. /\ a + n <= End(l[k]) /\ l[k].addr < a
            /\ IF t.len > 0 THEN Begin(s, Released(a, n), m, td)
                            ELSE Begin(s, Released(a, n), w, <<Update(r)>>)
        <5>1. l[k].addr < a
          BY <3>5, <2>0, <1>0, <1>2
        <5> QED
          BY <5>1, <3>5, Zenon DEF FreeInside, TailRow, Released, l
      <4>1. t.len = End(l[k]) - (a + n) /\ End(l[k]) \in Nat
        BY RecFields, <2>0, <1>2
      <4>2. CASE t.len > 0
        <5>1. a + n < End(l[k])
          BY <4>1, <4>2, <1>0
        <5>2. n > 0
          BY <5>1, <4>0, <3>1, <1>0
        <5>3. /\ Makes(l, InsertAt(With(l, k, Cut(l[k], a)), k + 1, t),
                       <<Update(Cut(l[k], a))>> \o <<Insert(t, k + 1)>>)
              /\ Cover(ToSet(InsertAt(With(l, k, Cut(l[k], a)), k + 1, t))) = Cover(ToSet(l)) \ Run(a, n)
          <6>1. l[k].addr < a /\ a \in Nat /\ k \in 1..Len(l) /\ l \in Lists /\ Sorted(l)
            BY <4>0, <2>0, <1>0
          <6> QED
            BY <6>1, <5>1, <5>2, Split
        <5>4. m = InsertAt(With(l, k, Cut(l[k], a)), k + 1, t) /\ r = Cut(l[k], a)
          BY Zenon DEF With, Cut
        <5>5. Makes(l, m, td) /\ Cover(ToSet(m)) = Cover(ToSet(l)) \ Run(a, n)
          BY <5>3, <5>4, Zenon
        <5> QED
          BY <5>5, <4>0, <4>2, <3>3, <3>0, Zenon
      <4>3. CASE ~(t.len > 0)
        <5>1. a + n = End(l[k])
          <6> DEFINE e == End(l[k])
                     c == t.len
          <6>1. e \in Nat /\ a \in Nat /\ a + n <= e /\ c = e - (a + n) /\ ~(c > 0)
            BY <4>0, <4>1, <4>3, <1>0
          <6> HIDE DEF e, c
          <6>2. a + n = e
            BY <6>1
          <6> QED
            BY <6>2 DEF e
        <5>2. /\ Makes(l, With(l, k, Cut(l[k], a)), <<Update(Cut(l[k], a))>>)
              /\ Cover(ToSet(With(l, k, Cut(l[k], a)))) = Cover(ToSet(l)) \ Run(a, n)
          <6>1. l[k].addr < a /\ a \in Nat /\ k \in 1..Len(l) /\ l \in Lists /\ Sorted(l)
            BY <4>0, <2>0, <1>0
          <6>2. TakesOut(l, With(l, k, Cut(l[k], a)), <<Update(Cut(l[k], a))>>, a, n)
            BY <6>1, <5>1, ShrinkEnd, Zenon
          <6> QED
            BY <6>2, Zenon DEF TakesOut
        <5>3. w = With(l, k, Cut(l[k], a)) /\ r = Cut(l[k], a)
          BY Zenon DEF With, Cut
        <5>4. Makes(l, w, <<Update(r)>>) /\ Cover(ToSet(w)) = Cover(ToSet(l)) \ Run(a, n)
          BY <5>2, <5>3, Zenon
        <5> QED
          BY <5>4, <4>0, <4>3, <3>3, <3>0, Zenon
      <4> QED
        BY <4>2, <4>3
    <3> QED
      BY <3>4, <3>5, <2>0, Zenon DEF FreeAccepted, l
  <2> QED
    BY <2>1, <2>2
<1> QED
  BY <1>4, <1>5

-----------------------------------------------------------------------------
(* Calls begin                                                              *)

LEMMA StationTypes ==
    ASSUME Types, NEW s \in Stations
    PROVE  /\ list[s] \in Lists /\ todo[s] \in Seq(Statements) /\ call[s] \in Calls
           /\ call[s].op \in Ops /\ call[s].at \in 0..Size /\ call[s].len \in Nat
<1>1. list[s] \in Lists /\ todo[s] \in Seq(Statements) /\ call[s] \in Calls
  BY DEF Types
<1>2. Asked \cup Freed \cup {0} \subseteq Nat
  BY AddrAllocAssumption
<1>3. \A c \in Calls : c.op \in Ops /\ c.at \in 0..Size /\ c.len \in Nat
  BY <1>2 DEF Calls
<1> QED
  BY <1>1, <1>3

\* Nothing of the station changes.
Same(s) == list'[s] = list[s] /\ todo'[s] = todo[s] /\ call'[s] = call[s]

LEMMA SameSets ==
    ASSUME NEW s, Same(s)
    PROVE  Mine(s)' = Mine(s) /\ Asks(s)' = Asks(s) /\ Holds(s)' = Holds(s)
<1>1. Mine(s)' = Mine(s)
  BY Zenon DEF Same, Mine
<1>2. Asks(s)' = Asks(s)
  BY Zenon DEF Same, Asks
<1>3. Holds(s)' = Holds(s)
  BY <1>2, Zenon DEF Same, Holds
<1> QED
  BY <1>1, <1>2, <1>3

LEMMA TakenIs == \A x : x \in Taken <=> x \in granted \/ \E s \in Stations : x \in Holds(s)
BY DEF Taken

LEMMA TakenNext == \A x : x \in Taken' <=> x \in granted' \/ \E s \in Stations : x \in Holds(s)'
BY DEF Taken

LEMMA BeginFrame ==
    ASSUME Types, NEW s \in Stations, NEW c \in Calls, NEW m \in Lists, NEW td \in Seq(Statements),
           Begin(s, c, m, td)
    PROVE  /\ list' \in [Stations -> Lists] /\ todo' \in [Stations -> Seq(Statements)]
           /\ call' \in [Stations -> Calls]
           /\ list'[s] = m /\ todo'[s] = td /\ call'[s] = c
           /\ \A t \in Stations : t # s => Same(t)
           /\ open' = open /\ table' = table
<1>1. /\ list \in [Stations -> Lists] /\ todo \in [Stations -> Seq(Statements)]
      /\ call \in [Stations -> Calls]
  BY DEF Types
<1>2. /\ list' = [list EXCEPT ![s] = m] /\ todo' = [todo EXCEPT ![s] = td]
      /\ call' = [call EXCEPT ![s] = c] /\ open' = open /\ table' = table
  BY DEF Begin
<1>3. list' \in [Stations -> Lists] /\ list'[s] = m
      /\ \A t \in Stations : t # s => list'[t] = list[t]
  BY <1>1, <1>2
<1>4. todo' \in [Stations -> Seq(Statements)] /\ todo'[s] = td
      /\ \A t \in Stations : t # s => todo'[t] = todo[t]
  BY <1>1, <1>2
<1>5. call' \in [Stations -> Calls] /\ call'[s] = c
      /\ \A t \in Stations : t # s => call'[t] = call[t]
  BY <1>1, <1>2
<1> QED
  BY <1>2, <1>3, <1>4, <1>5, Zenon DEF Same

\* What a call that begins makes of the history.
Remembers ==
    /\ intact' \in BOOLEAN /\ (intact' => intact /\ begun' = begun /\ stale' = stale)
    /\ begun' \subseteq begun /\ stale' \subseteq stale /\ granted' \subseteq granted
    /\ sound' \subseteq sound

LEMMA BeginShape ==
    ASSUME Types, Idle, Pending, SoundSorted, Remembers, NEW s \in Stations, Ready(s),
           NEW c \in Calls, NEW m, NEW td, Begin(s, c, m, td), c # NoCall, Shape(m, td),
           s \in sound' => Sorted(m)
    PROVE  Types' /\ Idle' /\ Pending' /\ SoundSorted'
<1>1. m \in Lists /\ td \in Seq(Statements) /\ Plan(td, m)
  BY DEF Shape
<1>2. /\ list' \in [Stations -> Lists] /\ todo' \in [Stations -> Seq(Statements)]
      /\ call' \in [Stations -> Calls]
      /\ list'[s] = m /\ todo'[s] = td /\ call'[s] = c
      /\ \A t \in Stations : t # s => Same(t)
      /\ open' = open /\ table' = table
  BY <1>1, BeginFrame
<1>3. Types'
  BY <1>2, Zenon DEF Types, Remembers
<1>4. Idle'
  <2> SUFFICES ASSUME NEW t \in Stations
               PROVE  /\ t \notin open' => call'[t] = NoCall
                      /\ call'[t] = NoCall => todo'[t] = <<>> /\ t \notin begun'
    BY DEF Idle, NoCall
  <2>1. CASE t = s
    BY <2>1, <1>2, Zenon DEF Ready
  <2>2. CASE t # s
    BY <2>2, <1>2, Zenon DEF Same, Idle, Remembers
  <2> QED
    BY <2>1, <2>2
<1>5. Pending'
  <2> SUFFICES ASSUME NEW t \in Stations
               PROVE  Plan(todo'[t], list'[t])
    BY DEF Pending, Plan
  <2> QED
    BY <1>1, <1>2, Zenon DEF Same, Pending
<1>6. SoundSorted'
  <2> SUFFICES ASSUME NEW t \in sound'
               PROVE  Sorted(list'[t])
    BY DEF SoundSorted, Sorted, Below, End
  <2>1. t \in sound /\ t \in Stations
    BY DEF Remembers, Types
  <2> QED
    BY <2>1, <1>2, Zenon DEF Same, SoundSorted
<1> QED
  BY <1>3, <1>4, <1>5, <1>6

\* What a station agrees on depends on nothing else.
LEMMA AgreesStays ==
    ASSUME NEW t, Same(t), Agrees(t), table' = table, Taken' \subseteq Taken,
           t \in begun => t \in begun'
    PROVE  Agrees(t)'
<1>1. Mine(t)' = Mine(t) /\ Asks(t)' = Asks(t)
  BY SameSets
<1>2. /\ Rest(table', todo'[t]) = ToSet(list'[t])
      /\ Len(todo'[t]) = 2 => Done(table', todo'[t][1]) # table'
  BY Zenon DEF Agrees, Same
<1>3. Taken' \subseteq Mine(t)' /\ Asks(t)' \subseteq Mine(t)'
  BY <1>1 DEF Agrees
<1>4. todo'[t] # <<>> => /\ Asks(t)' \cap Taken' = {}
                         /\ t \notin begun' => Asks(t)' \cap Cover(table') = {}
  <2>1. todo'[t] = todo[t] /\ table' = table
    BY DEF Same
  <2>2. todo[t] # <<>> => /\ Asks(t) \cap Taken = {}
                          /\ t \notin begun => Asks(t) \cap Cover(table) = {}
    BY DEF Agrees
  <2>3. todo[t] # <<>> => Asks(t)' \cap Taken' = {}
    BY <2>2, <1>1
  <2>4. todo[t] # <<>> /\ t \notin begun' => Asks(t)' \cap Cover(table') = {}
    BY <2>1, <2>2, <1>1, Zenon
  <2> QED
    BY <2>1, <2>3, <2>4, Zenon
<1> QED
  BY <1>2, <1>3, <1>4, Zenon DEF Agrees

\* A call that begins keeps what holds while nothing has damaged the table, if it keeps
\* what its own station agrees on.
LEMMA BeginUndamaged ==
    ASSUME AddrInv, intact, NEW s \in Stations, Ready(s),
           begun' = begun, stale' = stale, sound' = sound, granted' \subseteq granted,
           NEW c \in Calls, NEW m \in Lists, NEW td \in Seq(Statements), Begin(s, c, m, td),
           td # <<>> \/ c.op # "alloc",
           s \notin stale => Agrees(s)'
    PROVE  Undamaged'
<1>1. /\ list'[s] = m /\ todo'[s] = td /\ call'[s] = c
      /\ \A t \in Stations : t # s => Same(t)
      /\ open' = open /\ table' = table
  BY BeginFrame DEF AddrInv
<1>2. Undamaged /\ Types /\ Idle
  BY DEF AddrInv
<1>3. s \in sound /\ s \notin begun /\ todo[s] = <<>> /\ call[s] = NoCall
  BY <1>2, Zenon DEF Ready, Idle
<1>4. Holds(s) = {} /\ Holds(s)' = {}
  <2>1. Asks(s) = {}
    BY <1>3 DEF Asks, NoCall
  <2>2. td = <<>> => Asks(s)' = {}
    BY <1>1 DEF Asks
  <2> QED
    BY <2>1, <2>2, <1>1, <1>3, Zenon DEF Holds
<1>5. \A t \in Stations : Holds(t)' = Holds(t)
  BY <1>1, <1>4, SameSets
<1>6. Taken' \subseteq Taken
  BY <1>5, TakenIs, TakenNext
<1>7. \A t \in Stations : HalfDone(t)' <=> HalfDone(t)
  BY <1>1, <1>3, Zenon DEF HalfDone, Same
<1>8. OneHalfDone'
  <2> SUFFICES ASSUME NEW t \in Stations
               PROVE  /\ todo'[t] # <<>> => t \in sound'
                      /\ HalfDone(t)' => /\ Len(todo'[t]) = 1 /\ t \notin stale'
                                         /\ open' \ {t} \subseteq stale'
    BY DEF OneHalfDone
  <2>1. /\ todo[t] # <<>> => t \in sound
        /\ HalfDone(t) => Len(todo[t]) = 1 /\ t \notin stale /\ open \ {t} \subseteq stale
    BY <1>2, Zenon DEF Undamaged, OneHalfDone
  <2>2. CASE t = s
    BY <2>2, <1>3, <1>7, Zenon DEF HalfDone
  <2>3. CASE t # s
    <3>1. todo'[t] = todo[t]
      BY <2>3, <1>1 DEF Same
    <3> QED
      BY <2>1, <3>1, <1>1, <1>7, Zenon
  <2> QED
    BY <2>2, <2>3
<1>9. ASSUME NEW t \in sound' \ stale'
      PROVE  Agrees(t)'
  <2>1. CASE t = s
    BY <2>1, <1>9
  <2>2. CASE t # s
    <3>1. t \in Stations /\ t \in sound \ stale
      BY <1>2 DEF Types
    <3>2. Same(t) /\ Agrees(t)
      BY <1>1, <1>2, <2>2, <3>1 DEF Undamaged
    <3> QED
      BY <3>2, <1>1, <1>6, AgreesStays
  <2> QED
    BY <2>1, <2>2
<1>10. HeldApart'
  <2>1. HeldApart
    BY <1>2 DEF Undamaged
  <2> SUFFICES /\ \A t \in Stations : Holds(t)' \cap granted' = {}
               /\ \A t, u \in Stations : t # u => Holds(t)' \cap Holds(u)' = {}
    BY DEF HeldApart
  <2> QED
    BY <2>1, <1>5 DEF HeldApart
<1>11. (\A t \in Stations : ~HalfDone(t)') => Apart(table)' /\ Taken' \subseteq Cover(table)'
  <2>1. (\A t \in Stations : ~HalfDone(t)') => Apart(table) /\ Taken \subseteq Cover(table)
    BY <1>2, <1>7, Zenon DEF Undamaged
  <2>2. Apart(table)' = Apart(table) /\ Cover(table)' = Cover(table)
    BY <1>1, Zenon DEF Apart, Cover
  <2> QED
    BY <2>1, <2>2, <1>6
<1> QED
  BY <1>8, <1>9, <1>10, <1>11, Zenon DEF Undamaged

\* A station without a call holds nothing, and while its list is up to date it is the table.
LEMMA AtRest ==
    ASSUME AddrInv, NEW s \in Stations, call[s] = NoCall
    PROVE  /\ todo[s] = <<>> /\ s \notin begun /\ Asks(s) = {} /\ Holds(s) = {}
           /\ (intact /\ s \in sound \ stale) => table = ToSet(list[s]) /\ Taken \subseteq Mine(s)
<1>1. todo[s] = <<>> /\ s \notin begun
  BY Zenon DEF AddrInv, Idle
<1>2. Asks(s) = {}
  BY DEF Asks, NoCall
<1>3. Holds(s) = {}
  BY <1>1, <1>2, Zenon DEF Holds
<1>4. (intact /\ s \in sound \ stale) => Agrees(s)
  BY Zenon DEF AddrInv, Undamaged
<1>5. Rest(table, <<>>) = table
  BY DEF Rest
<1> QED
  BY <1>1, <1>2, <1>3, <1>4, <1>5, Zenon DEF Agrees

\* No call hands anything out when it begins.
LEMMA BeginTaken ==
    ASSUME AddrInv, NEW s \in Stations, Ready(s), granted' \subseteq granted,
           NEW c \in Calls, NEW m \in Lists, NEW td \in Seq(Statements), Begin(s, c, m, td),
           td # <<>> \/ c.op # "alloc"
    PROVE  /\ \A t \in Stations : Holds(t)' = Holds(t)
           /\ Taken' \subseteq Taken
<1>1. /\ list'[s] = m /\ todo'[s] = td /\ call'[s] = c
      /\ \A t \in Stations : t # s => Same(t)
  BY BeginFrame DEF AddrInv
<1>2. Holds(s) = {}
  BY AtRest DEF Ready
<1>3. td = <<>> => Asks(s)' = {}
  BY <1>1 DEF Asks
<1>4. Holds(s)' = {}
  BY <1>1, <1>3, Zenon DEF Holds
<1>5. \A t \in Stations : Holds(t)' = Holds(t)
  BY <1>1, <1>2, <1>4, SameSets
<1> QED
  BY <1>5, TakenIs, TakenNext

\* A call that leaves the list alone keeps the invariant.
LEMMA IdleBegins ==
    ASSUME AddrInv, NEW s \in Stations, Ready(s), NEW c \in Calls, c # NoCall, c.op # "alloc",
           Begin(s, c, list[s], <<>>), Remembers, sound' = sound
    PROVE  AddrInv'
<1>0. Types /\ Idle /\ Pending /\ SoundSorted /\ s \in sound /\ call[s] = NoCall
  BY Zenon DEF AddrInv, Ready
<1>1. list[s] \in Lists /\ Sorted(list[s]) /\ <<>> \in Seq(Statements)
  BY <1>0, StationTypes DEF SoundSorted
<1>2. Shape(list[s], <<>>)
  BY <1>1 DEF Shape, Plan
<1>3. Types' /\ Idle' /\ Pending' /\ SoundSorted'
  BY <1>0, <1>1, <1>2, BeginShape
<1>5. granted' \subseteq granted
  BY DEF Remembers
<1>4. intact' => Undamaged'
  <2> SUFFICES ASSUME intact'
               PROVE  Undamaged'
    OBVIOUS
  <2>1. intact /\ begun' = begun /\ stale' = stale
    BY DEF Remembers
  <2>2. list'[s] = list[s] /\ todo'[s] = <<>> /\ call'[s] = c /\ table' = table
    BY <1>0, <1>1, BeginFrame
  <2>3. s \notin stale => Agrees(s)'
    <3> SUFFICES ASSUME s \notin stale
                 PROVE  Agrees(s)'
      OBVIOUS
    <3>1. table = ToSet(list[s]) /\ Taken \subseteq Mine(s)
      BY <1>0, <2>1, AtRest
    <3>2. Taken' \subseteq Taken
      BY <1>0, <1>1, <1>5, BeginTaken
    <3>3. Rest(table', todo'[s]) = ToSet(list'[s])
      BY <2>2, <3>1 DEF Rest
    <3>4. Mine(s)' = Mine(s) /\ Asks(s)' = {}
      BY <2>2 DEF Mine, Asks
    <3>5. Len(todo'[s]) # 2
      BY <2>2
    <3>6. Taken' \subseteq Mine(s)' /\ Asks(s)' \subseteq Mine(s)'
      BY <3>1, <3>2, <3>4
    <3> QED
      BY <2>2, <3>3, <3>5, <3>6, Zenon DEF Agrees
  <2> QED
    BY <1>0, <1>1, <1>5, <2>1, <2>3, BeginUndamaged
<1> QED
  BY <1>3, <1>4 DEF AddrInv

LEMMA GivesAgrees ==
    ASSUME AddrInv, intact, NEW s \in Stations, Ready(s), s \notin stale, UNCHANGED history,
           NEW n \in Asked, NEW a, NEW m, NEW td,
           Gives(list[s], m, td, a, n), Begin(s, Given(a, n), m, td)
    PROVE  Agrees(s)'
<1>1. Given(a, n) \in Calls /\ Given(a, n).op = "alloc" /\ Given(a, n).at = a /\ Given(a, n).len = n
  <2>1. a \in 0..Size
    BY AddrAllocAssumption DEF Gives
  <2> QED
    BY <2>1 DEF Given, Calls, Ops
<1>2. /\ m \in Lists /\ td \in Seq(Statements) /\ td # <<>>
      /\ \A R : (R = ToSet(list[s]) /\ OwnIds(R)) =>
            Rest(R, td) = ToSet(m) /\ (Len(td) = 2 => Done(R, td[1]) # R)
  BY Zenon DEF Gives, Makes, Shape
<1>3. list'[s] = m /\ todo'[s] = td /\ call'[s] = Given(a, n) /\ table' = table
  BY <1>1, <1>2, BeginFrame DEF AddrInv
<1>4. granted' = granted
  BY DEF history
<1>5. Taken' \subseteq Taken
  BY <1>1, <1>2, <1>4, BeginTaken
<1>6. s \in sound \ stale /\ call[s] = NoCall
  BY DEF Ready
<1>7. table = ToSet(list[s]) /\ Taken \subseteq Mine(s)
  BY <1>6, AtRest
<1>8. OwnIds(table)
  BY DEF AddrInv, Types
<1>9. Rest(table', todo'[s]) = ToSet(list'[s]) /\ (Len(todo'[s]) = 2 => Done(table', todo'[s][1]) # table')
  BY <1>2, <1>3, <1>7, <1>8, Zenon
<1>10. Asks(s)' = Run(a, n)
  BY <1>1, <1>3 DEF Asks
<1>11. Mine(s)' = Mine(s) \cup Run(a, n) /\ Run(a, n) \cap Mine(s) = {}
  BY <1>3, Zenon DEF Mine, Gives
<1>12. Cover(table') = Mine(s)
  BY <1>3, <1>7, Zenon DEF Mine
<1>13. Taken' \subseteq Mine(s)' /\ Asks(s)' \subseteq Mine(s)'
  BY <1>5, <1>7, <1>10, <1>11
<1>14. Asks(s)' \cap Taken' = {} /\ Asks(s)' \cap Cover(table') = {}
  BY <1>5, <1>7, <1>10, <1>11, <1>12
<1> QED
  BY <1>9, <1>13, <1>14, Zenon DEF Agrees

\* addr_alloc keeps the invariant.
LEMMA AllocKeeps ==
    ASSUME AddrInv, NEW s \in Stations, NEW n \in Asked, Alloc(s, n)
    PROVE  AddrInv'
<1>0. Types /\ Idle /\ Pending /\ SoundSorted /\ Ready(s) /\ s \in sound
  BY Zenon DEF AddrInv, Alloc, Ready
<1>1. /\ UNCHANGED history /\ sound' = sound /\ intact' = intact /\ granted' = granted
      /\ begun' = begun /\ stale' = stale
  BY Zenon DEF Alloc, history
<1>2. Remembers
  BY <1>0, <1>1 DEF Remembers, Types
<1>3. n \in Nat /\ list[s] \in Lists /\ Sorted(list[s])
  BY <1>0, AddrAllocAssumption, StationTypes DEF SoundSorted
<1>4. Granted(s, n) \/ Refuse(s, n)
  BY <1>3, AllocBegins
<1>5. CASE Granted(s, n)
  <2>1. PICK a, m, td : Gives(list[s], m, td, a, n) /\ Begin(s, Given(a, n), m, td)
    BY <1>5, Zenon DEF Granted
  <2>2. Given(a, n) \in Calls /\ Given(a, n) # NoCall
    <3>1. a \in 0..Size
      BY <2>1, <1>3, AddrAllocAssumption DEF Gives
    <3> QED
      BY <3>1 DEF Given, Calls, Ops, NoCall
  <2>3. Shape(m, td) /\ Sorted(m) /\ td # <<>>
    BY <2>1, Zenon DEF Gives, Makes
  <2>4. Types' /\ Idle' /\ Pending' /\ SoundSorted'
    BY <1>0, <1>2, <2>1, <2>2, <2>3, BeginShape
  <2>5. intact' => Undamaged'
    <3> SUFFICES ASSUME intact
                 PROVE  Undamaged'
      BY <1>1
    <3>1. s \notin stale => Agrees(s)'
      BY <1>0, <1>1, <2>1, GivesAgrees
    <3>2. m \in Lists /\ td \in Seq(Statements)
      BY <2>3, Zenon DEF Shape
    <3>3. granted' \subseteq granted
      BY <1>1
    <3> QED
      BY <1>0, <1>1, <2>1, <2>2, <2>3, <3>1, <3>2, <3>3, BeginUndamaged
  <2> QED
    BY <2>4, <2>5 DEF AddrInv
<1>6. CASE Refuse(s, n)
  <2> DEFINE c == [op |-> "refused", at |-> 0, len |-> n]
  <2>1. Begin(s, c, list[s], <<>>)
    BY <1>6, Zenon DEF Refuse
  <2>2. c \in Calls /\ c # NoCall /\ c.op # "alloc"
    BY AddrAllocAssumption DEF Calls, Ops, NoCall
  <2> HIDE DEF c
  <2>3. AddrInv'
    BY <1>0, <1>1, <1>2, <1>3, <2>1, <2>2, IdleBegins
  <2> QED
    BY <2>3
<1> QED
  BY <1>4, <1>5, <1>6

LEMMA FreeAgrees ==
    ASSUME AddrInv, intact, NEW s \in Stations, Ready(s), s \notin stale,
           NEW n \in Freed, NEW a \in Space, MayFree(s, a, n), NEW m, NEW td,
           granted' = granted \ Run(a, n), begun' = begun, stale' = stale,
           TakesOut(list[s], m, td, a, n), Begin(s, Released(a, n), m, td)
    PROVE  Agrees(s)'
<1>1. Released(a, n) \in Calls /\ Released(a, n).op = "free"
  <2>1. a \in 0..Size
    BY AddrAllocAssumption DEF Space
  <2> QED
    BY <2>1 DEF Released, Calls, Ops
<1>2. /\ m \in Lists /\ td \in Seq(Statements) /\ td # <<>>
      /\ \A R : (R = ToSet(list[s]) /\ OwnIds(R)) =>
            Rest(R, td) = ToSet(m) /\ (Len(td) = 2 => Done(R, td[1]) # R)
  BY Zenon DEF TakesOut, Makes, Shape
<1>3. list'[s] = m /\ todo'[s] = td /\ call'[s] = Released(a, n) /\ table' = table
  BY <1>1, <1>2, BeginFrame DEF AddrInv
<1>4. granted' \subseteq granted
  OBVIOUS
<1>5. Taken' \subseteq Taken /\ \A t \in Stations : Holds(t)' = Holds(t)
  BY <1>1, <1>2, <1>4, BeginTaken
<1>6. s \in sound \ stale /\ call[s] = NoCall
  BY DEF Ready
<1>7. table = ToSet(list[s]) /\ Taken \subseteq Mine(s)
  BY <1>6, AtRest
<1>8. OwnIds(table)
  BY DEF AddrInv, Types
<1>9. Rest(table', todo'[s]) = ToSet(list'[s]) /\ (Len(todo'[s]) = 2 => Done(table', todo'[s][1]) # table')
  BY <1>2, <1>3, <1>7, <1>8, Zenon
<1>10. Asks(s)' = {}
  BY <1>1, <1>3 DEF Asks
<1>11. Mine(s)' = Mine(s) \ Run(a, n) /\ Run(a, n) \subseteq Mine(s)
  BY <1>3, Zenon DEF Mine, TakesOut
<1>12. Run(a, n) \subseteq granted
  BY <1>11, Zenon DEF MayFree, Mine
<1>13. Taken' \cap Run(a, n) = {}
  <2>1. \A t \in Stations : Holds(t) \cap granted = {}
    BY Zenon DEF AddrInv, Undamaged, HeldApart
  <2> SUFFICES ASSUME NEW x \in Run(a, n), x \in Taken'
               PROVE  FALSE
    OBVIOUS
  <2>2. PICK t \in Stations : x \in Holds(t)'
    BY TakenNext
  <2> QED
    BY <2>1, <2>2, <1>5, <1>12
<1>14. Taken' \subseteq Mine(s)' /\ Asks(s)' \subseteq Mine(s)'
  BY <1>5, <1>7, <1>10, <1>11, <1>13
<1>15. Asks(s)' \cap Taken' = {} /\ Asks(s)' \cap Cover(table') = {}
  BY <1>10
<1> QED
  BY <1>9, <1>14, <1>15, Zenon DEF Agrees

\* addr_free keeps the invariant.
LEMMA FreeKeeps ==
    ASSUME AddrInv, NEW s \in Stations, NEW n \in Freed, NEW a \in Space,
           MayFree(s, a, n), Free(s, a, n)
    PROVE  AddrInv'
<1>0. Types /\ Idle /\ Pending /\ SoundSorted /\ Ready(s) /\ s \in sound
  BY Zenon DEF AddrInv, Free, Ready
<1>1. n \in Nat /\ list[s] \in Lists /\ Sorted(list[s]) /\ intact \in BOOLEAN
  BY <1>0, AddrAllocAssumption, StationTypes DEF SoundSorted, Types
<1>2. \/ /\ Keep(s, a, n) /\ sound' = sound /\ Note(FALSE, granted, begun, stale)
      \/ Freeing(s, a, n) /\ sound' = sound /\ Note(FALSE, granted \ Run(a, n), begun, stale)
      \/ /\ \E m, td : Shape(m, td) /\ Begin(s, Released(a, n), m, td)
         /\ sound' = sound \ {s} /\ Note(TRUE, granted \ Run(a, n), begun, stale)
  BY <1>1, FreeBegins, Zenon
<1>3. Released(a, n) \in Calls /\ Released(a, n) # NoCall
  <2>1. a \in 0..Size
    BY AddrAllocAssumption DEF Space
  <2> QED
    BY <2>1 DEF Released, Calls, Ops, NoCall
<1>4. CASE Keep(s, a, n) /\ sound' = sound /\ Note(FALSE, granted, begun, stale)
  <2> DEFINE c == [op |-> "kept", at |-> a, len |-> n]
  <2>1. Begin(s, c, list[s], <<>>)
    BY <1>4, Zenon DEF Keep
  <2>2. c \in Calls /\ c # NoCall /\ c.op # "alloc"
    <3>1. a \in 0..Size
      BY AddrAllocAssumption DEF Space
    <3> QED
      BY <3>1 DEF Calls, Ops, NoCall
  <2>3. Remembers
    BY <1>4, <1>1 DEF Remembers, Note
  <2> HIDE DEF c
  <2> QED
    BY <1>0, <1>4, <2>1, <2>2, <2>3, IdleBegins
<1>5. CASE Freeing(s, a, n) /\ sound' = sound /\ Note(FALSE, granted \ Run(a, n), begun, stale)
  <2>1. PICK m, td : TakesOut(list[s], m, td, a, n) /\ Begin(s, Released(a, n), m, td)
    BY <1>5, Zenon DEF Freeing, Released
  <2>2. Shape(m, td) /\ Sorted(m) /\ td # <<>>
    BY <2>1, Zenon DEF TakesOut, Makes
  <2>3. Remembers
    BY <1>5, <1>1 DEF Remembers, Note
  <2>4. Types' /\ Idle' /\ Pending' /\ SoundSorted'
    BY <1>0, <1>3, <2>1, <2>2, <2>3, BeginShape
  <2>5. intact' => Undamaged'
    <3> SUFFICES ASSUME intact'
                 PROVE  Undamaged'
      OBVIOUS
    <3>1. intact /\ begun' = begun /\ stale' = stale /\ granted' = granted \ Run(a, n)
      BY <1>5 DEF Note
    <3>2. s \notin stale => Agrees(s)'
      BY <1>0, <2>1, <3>1, FreeAgrees
    <3>3. m \in Lists /\ td \in Seq(Statements) /\ granted' \subseteq granted /\ sound' = sound
      BY <2>2, <3>1, <1>5 DEF Shape
    <3> QED
      BY <1>0, <1>3, <2>1, <2>2, <3>1, <3>2, <3>3, BeginUndamaged
  <2> QED
    BY <2>4, <2>5 DEF AddrInv
<1>6. CASE /\ \E m, td : Shape(m, td) /\ Begin(s, Released(a, n), m, td)
           /\ sound' = sound \ {s} /\ Note(TRUE, granted \ Run(a, n), begun, stale)
  <2>1. PICK m, td : Shape(m, td) /\ Begin(s, Released(a, n), m, td)
    BY <1>6, Zenon
  <2>2. Remembers /\ ~intact' /\ s \notin sound'
    BY <1>6, <1>1 DEF Remembers, Note
  <2>3. Types' /\ Idle' /\ Pending' /\ SoundSorted'
    BY <1>0, <1>3, <2>1, <2>2, BeginShape
  <2> QED
    BY <2>2, <2>3 DEF AddrInv
<1> QED
  BY <1>2, <1>4, <1>5, <1>6, Zenon

-----------------------------------------------------------------------------
(* Handles come and go                                                      *)

\* A station leaves; a call that is between its two statements damages the table.
LEMMA LeaveKeeps ==
    ASSUME AddrInv, NEW s \in Stations, NEW damages \in BOOLEAN, HalfDone(s) => damages,
           Leave(s, damages)
    PROVE  AddrInv'
<1>0. Types /\ Idle /\ Pending /\ SoundSorted
  BY DEF AddrInv
<1>1. /\ open' = open \ {s} /\ list' = [list EXCEPT ![s] = <<>>] /\ table' = table
      /\ todo' = [todo EXCEPT ![s] = <<>>] /\ call' = [call EXCEPT ![s] = NoCall]
      /\ sound' = sound \ {s} /\ intact' = (intact /\ ~damages)
      /\ granted' = IF intact' THEN granted ELSE {}
      /\ begun' = IF intact' THEN begun \ {s} ELSE {}
      /\ stale' = IF intact' THEN stale \ {s} ELSE {}
  BY DEF Leave, Note
<1>2. <<>> \in Lists /\ <<>> \in Seq(Statements) /\ NoCall \in Calls
  BY AddrAllocAssumption DEF Lists, NoCall, Calls, Ops
<1>3. list' \in [Stations -> Lists] /\ list'[s] = <<>>
      /\ \A t \in Stations : t # s => list'[t] = list[t]
  BY <1>0, <1>1, <1>2 DEF Types
<1>4. todo' \in [Stations -> Seq(Statements)] /\ todo'[s] = <<>>
      /\ \A t \in Stations : t # s => todo'[t] = todo[t]
  BY <1>0, <1>1, <1>2 DEF Types
<1>5. call' \in [Stations -> Calls] /\ call'[s] = NoCall
      /\ \A t \in Stations : t # s => call'[t] = call[t]
  BY <1>0, <1>1, <1>2 DEF Types
<1>6. \A t \in Stations : t # s => Same(t)
  BY <1>3, <1>4, <1>5 DEF Same
<1>7. Types'
  <2>1. open' \subseteq Stations /\ sound' \subseteq open' /\ begun' \subseteq open' /\ stale' \subseteq open'
    BY <1>0, <1>1 DEF Types
  <2>2. intact' \in BOOLEAN /\ granted' \subseteq Space
    BY <1>0, <1>1 DEF Types
  <2>3. table' \subseteq Good /\ IsFiniteSet(table') /\ OwnIds(table')
    BY <1>0, <1>1, Zenon DEF Types
  <2> QED
    BY <1>3, <1>4, <1>5, <2>1, <2>2, <2>3, Zenon DEF Types
<1>8. Idle'
  <2> SUFFICES ASSUME NEW t \in Stations
               PROVE  /\ t \notin open' => call'[t] = NoCall
                      /\ call'[t] = NoCall => todo'[t] = <<>> /\ t \notin begun'
    BY DEF Idle, NoCall
  <2>1. CASE t = s
    BY <2>1, <1>1, <1>4, <1>5
  <2>2. CASE t # s
    <3>1. /\ t \notin open => call[t] = NoCall
          /\ call[t] = NoCall => todo[t] = <<>> /\ t \notin begun
      BY <1>0, Zenon DEF Idle
    <3> QED
      BY <2>2, <3>1, <1>1, <1>4, <1>5
  <2> QED
    BY <2>1, <2>2
<1>9. Pending'
  <2> SUFFICES ASSUME NEW t \in Stations
               PROVE  Plan(todo'[t], list'[t])
    BY DEF Pending, Plan
  <2>1. CASE t = s
    BY <2>1, <1>3, <1>4 DEF Plan
  <2>2. CASE t # s
    BY <2>2, <1>0, <1>3, <1>4, Zenon DEF Pending
  <2> QED
    BY <2>1, <2>2
<1>10. SoundSorted'
  <2> SUFFICES ASSUME NEW t \in sound'
               PROVE  Sorted(list'[t])
    BY DEF SoundSorted, Sorted, Below, End
  <2>1. t \in sound /\ t # s /\ t \in Stations
    BY <1>0, <1>1 DEF Types
  <2> QED
    BY <2>1, <1>0, <1>3, Zenon DEF SoundSorted
<1>11. intact' => Undamaged'
  <2> SUFFICES ASSUME intact'
               PROVE  Undamaged'
    OBVIOUS
  <2>1. /\ Undamaged /\ ~HalfDone(s) /\ granted' = granted
        /\ begun' = begun \ {s} /\ stale' = stale \ {s}
    BY <1>1 DEF AddrInv
  <2>2. Holds(s)' = {} /\ \A t \in Stations : t # s => Holds(t)' = Holds(t)
    <3>1. Asks(s)' = {}
      BY <1>5 DEF Asks, NoCall
    <3>2. Holds(s)' = {}
      BY <3>1, <1>4, Zenon DEF Holds
    <3> QED
      BY <3>2, <1>6, SameSets
  <2>3. Taken' \subseteq Taken
    <3> SUFFICES ASSUME NEW x \in Taken'
                 PROVE  x \in Taken
      OBVIOUS
    <3> QED
      BY <2>1, <2>2, TakenIs, TakenNext
  <2>4. \A t \in Stations : HalfDone(t)' => t # s /\ HalfDone(t)
    BY <2>1, <1>4 DEF HalfDone
  <2>5. \A t \in Stations : HalfDone(t) => HalfDone(t)'
    BY <2>1, <1>4 DEF HalfDone
  <2>6. OneHalfDone'
    <3> SUFFICES ASSUME NEW t \in Stations
                 PROVE  /\ todo'[t] # <<>> => t \in sound'
                        /\ HalfDone(t)' => /\ Len(todo'[t]) = 1 /\ t \notin stale'
                                           /\ open' \ {t} \subseteq stale'
      BY DEF OneHalfDone
    <3>1. /\ todo[t] # <<>> => t \in sound
          /\ HalfDone(t) => Len(todo[t]) = 1 /\ t \notin stale /\ open \ {t} \subseteq stale
      BY <2>1, Zenon DEF Undamaged, OneHalfDone
    <3>2. CASE t = s
      BY <3>2, <1>4, <2>4
    <3>3. CASE t # s
      BY <3>1, <3>3, <1>1, <1>4, <2>1, <2>4
    <3> QED
      BY <3>2, <3>3
  <2>7. ASSUME NEW t \in sound' \ stale'
        PROVE  Agrees(t)'
    <3>1. t \in Stations /\ t # s /\ t \in sound \ stale
      BY <1>0, <1>1, <2>1 DEF Types
    <3>2. Same(t) /\ Agrees(t) /\ (t \in begun => t \in begun')
      BY <3>1, <1>6, <2>1 DEF Undamaged
    <3> QED
      BY <3>2, <1>1, <2>3, AgreesStays
  <2>8. HeldApart'
    <3>1. HeldApart
      BY <2>1 DEF Undamaged
    <3> SUFFICES /\ \A t \in Stations : Holds(t)' \cap granted' = {}
                 /\ \A t, u \in Stations : t # u => Holds(t)' \cap Holds(u)' = {}
      BY DEF HeldApart
    <3> QED
      BY <3>1, <2>1, <2>2 DEF HeldApart
  <2>9. (\A t \in Stations : ~HalfDone(t)') => Apart(table)' /\ Taken' \subseteq Cover(table)'
    <3>1. (\A t \in Stations : ~HalfDone(t)') => Apart(table) /\ Taken \subseteq Cover(table)
      BY <2>1, <2>5, Zenon DEF Undamaged
    <3>2. Apart(table)' = Apart(table) /\ Cover(table)' = Cover(table)
      BY <1>1, Zenon DEF Apart, Cover
    <3> QED
      BY <3>1, <3>2, <2>3
  <2> QED
    BY <2>6, <2>7, <2>8, <2>9, Zenon DEF Undamaged
<1> QED
  BY <1>7, <1>8, <1>9, <1>10, <1>11 DEF AddrInv

LEMMA FetchedRecords ==
    ASSUME NEW R \in SUBSET Good, IsFiniteSet(R), NEW l \in SetToSeqs(R)
    PROVE  l \in Lists
<1> DEFINE n == Cardinality(R)
<1>1. n \in Nat
  BY FS_CardinalityType
<1>2. l \in [1..n -> R]
  BY DEF SetToSeqs
<1> HIDE DEF n
<1> QED
  BY <1>1, <1>2 DEF Lists

\* A station fetches the rows; while another is between its two statements they are not
\* to be relied on.
LEMMA FetchKeeps ==
    ASSUME AddrInv, NEW s \in Stations, Fetch(s)
    PROVE  AddrInv'
<1>0. Types /\ Idle /\ Pending /\ SoundSorted
  BY DEF AddrInv
<1>1. PICK l \in SetToSeqs(table) :
        /\ \A k \in 1..(Len(l) - 1) : ~Below(l[k + 1], l[k])
        /\ list' = [list EXCEPT ![s] = l]
  BY Zenon DEF Fetch
<1>2. /\ s \notin open /\ open' = open \cup {s} /\ todo' = todo /\ call' = call /\ table' = table
      /\ sound' = IF Apart(table) THEN sound \cup {s} ELSE sound
      /\ intact' = intact /\ granted' = IF intact' THEN granted ELSE {}
      /\ begun' = IF intact' THEN begun ELSE {}
      /\ stale' = IF intact' THEN (IF \E t \in open : HalfDone(t) THEN stale \cup {s} ELSE stale) ELSE {}
  BY <1>0 DEF Fetch, Note, Types
<1>3. table \subseteq Good /\ IsFiniteSet(table) /\ OwnIds(table)
  BY <1>0, Zenon DEF Types
<1>4. l \in Lists
  BY <1>1, <1>3, FetchedRecords
<1>5. Apart(table) => Sorted(l) /\ ToSet(l) = table
  BY <1>1, <1>3, FetchedList
<1>6. list' \in [Stations -> Lists] /\ list'[s] = l
      /\ \A t \in Stations : t # s => list'[t] = list[t]
  BY <1>0, <1>1, <1>4 DEF Types
<1>7. \A t \in Stations : t # s => Same(t)
  BY <1>2, <1>6 DEF Same
<1>8. call[s] = NoCall
  BY <1>0, <1>2, Zenon DEF Idle
<1>9. todo[s] = <<>> /\ s \notin begun /\ Asks(s) = {} /\ Holds(s) = {}
  BY <1>8, AtRest
<1>10. s \notin sound
  BY <1>0, <1>2 DEF Types
<1>11. Types'
  <2>1. open' \subseteq Stations /\ sound' \subseteq open' /\ begun' \subseteq open' /\ stale' \subseteq open'
    BY <1>0, <1>2 DEF Types
  <2>2. intact' \in BOOLEAN /\ granted' \subseteq Space
    BY <1>0, <1>2 DEF Types
  <2>3. table' \subseteq Good /\ IsFiniteSet(table') /\ OwnIds(table')
    BY <1>2, <1>3, Zenon
  <2>4. todo' \in [Stations -> Seq(Statements)] /\ call' \in [Stations -> Calls]
    BY <1>0, <1>2, Zenon DEF Types
  <2> QED
    BY <1>6, <2>1, <2>2, <2>3, <2>4, Zenon DEF Types
<1>12. Idle'
  <2> SUFFICES ASSUME NEW t \in Stations
               PROVE  /\ t \notin open' => call'[t] = NoCall
                      /\ call'[t] = NoCall => todo'[t] = <<>> /\ t \notin begun'
    BY DEF Idle, NoCall
  <2>1. /\ t \notin open => call[t] = NoCall
        /\ call[t] = NoCall => todo[t] = <<>> /\ t \notin begun
    BY <1>0, Zenon DEF Idle
  <2> QED
    BY <2>1, <1>2
<1>13. Pending'
  <2> SUFFICES ASSUME NEW t \in Stations
               PROVE  Plan(todo'[t], list'[t])
    BY DEF Pending, Plan
  <2>1. CASE t = s
    BY <2>1, <1>2, <1>9 DEF Plan
  <2>2. CASE t # s
    BY <2>2, <1>0, <1>7, Zenon DEF Pending, Same
  <2> QED
    BY <2>1, <2>2
<1>14. SoundSorted'
  <2> SUFFICES ASSUME NEW t \in sound'
               PROVE  Sorted(list'[t])
    BY DEF SoundSorted, Sorted, Below, End
  <2>1. CASE t = s
    BY <2>1, <1>2, <1>5, <1>6, <1>10
  <2>2. CASE t # s
    <3>1. t \in sound /\ t \in Stations
      BY <2>2, <1>0, <1>2 DEF Types
    <3> QED
      BY <2>2, <3>1, <1>0, <1>6, Zenon DEF SoundSorted
  <2> QED
    BY <2>1, <2>2
<1>15. intact' => Undamaged'
  <2> SUFFICES ASSUME intact'
               PROVE  Undamaged'
    OBVIOUS
  <2>1. /\ Undamaged /\ granted' = granted /\ begun' = begun
        /\ stale' = IF \E t \in open : HalfDone(t) THEN stale \cup {s} ELSE stale
    BY <1>2 DEF AddrInv
  <2>2. \A t \in Stations : Holds(t)' = Holds(t)
    <3>1. Holds(s)' = Holds(s)
      <4>1. Asks(s)' = Asks(s)
        BY <1>2, Zenon DEF Asks
      <4> QED
        BY <4>1, <1>2, Zenon DEF Holds
    <3> QED
      BY <3>1, <1>7, SameSets
  <2>3. Taken' \subseteq Taken
    BY <2>1, <2>2, TakenIs, TakenNext
  <2>4. \A t \in Stations : HalfDone(t)' <=> HalfDone(t)
    BY <2>1, <1>2, Zenon DEF HalfDone
  <2>5. \A t \in Stations : HalfDone(t) => t \in open /\ t # s
    BY <1>0, <1>9 DEF HalfDone, Types
  <2>6. OneHalfDone'
    <3> SUFFICES ASSUME NEW t \in Stations
                 PROVE  /\ todo'[t] # <<>> => t \in sound'
                        /\ HalfDone(t)' => /\ Len(todo'[t]) = 1 /\ t \notin stale'
                                           /\ open' \ {t} \subseteq stale'
      BY DEF OneHalfDone
    <3>1. /\ todo[t] # <<>> => t \in sound
          /\ HalfDone(t) => Len(todo[t]) = 1 /\ t \notin stale /\ open \ {t} \subseteq stale
      BY <2>1, Zenon DEF Undamaged, OneHalfDone
    <3>2. sound \subseteq sound'
      BY <1>2
    <3>3. HalfDone(t) => /\ t \notin stale' /\ open' \ {t} \subseteq stale'
      BY <3>1, <2>1, <2>5, <1>2
    <3> QED
      BY <3>1, <3>2, <3>3, <1>2, <2>4
  <2>7. ASSUME NEW t \in sound' \ stale'
        PROVE  Agrees(t)'
    <3>1. CASE t = s
      <4>1. Apart(table) /\ \A u \in Stations : ~HalfDone(u)
        BY <3>1, <2>1, <2>5, <2>7, <1>2, <1>10
      <4>2. Taken \subseteq Cover(table)
        BY <4>1, <2>1, Zenon DEF Undamaged
      <4>3. ToSet(list'[s]) = table'
        BY <4>1, <1>2, <1>5, <1>6
      <4>4. Mine(s)' = Cover(table)
        BY <4>3, <1>2, Zenon DEF Mine
      <4>5. Asks(s)' = {}
        BY <1>2, <1>8 DEF Asks, NoCall
      <4>6. todo'[s] = <<>> /\ Rest(table', <<>>) = table' /\ Len(todo'[s]) # 2
        BY <1>2, <1>9 DEF Rest
      <4>7. Taken' \subseteq Mine(s)' /\ Asks(s)' \subseteq Mine(s)'
        BY <4>2, <4>4, <4>5, <2>3
      <4> QED
        BY <3>1, <4>3, <4>6, <4>7, Zenon DEF Agrees
    <3>2. CASE t # s
      <4>1. t \in Stations /\ t \in sound \ stale
        BY <1>0, <1>2, <2>1, <2>7, <3>2 DEF Types
      <4>2. Same(t) /\ Agrees(t) /\ (t \in begun => t \in begun')
        BY <4>1, <3>2, <1>7, <2>1 DEF Undamaged
      <4> QED
        BY <4>2, <1>2, <2>3, AgreesStays
    <3> QED
      BY <3>1, <3>2
  <2>8. HeldApart'
    <3>1. HeldApart
      BY <2>1 DEF Undamaged
    <3> SUFFICES /\ \A t \in Stations : Holds(t)' \cap granted' = {}
                 /\ \A t, u \in Stations : t # u => Holds(t)' \cap Holds(u)' = {}
      BY DEF HeldApart
    <3> QED
      BY <3>1, <2>1, <2>2 DEF HeldApart
  <2>9. (\A t \in Stations : ~HalfDone(t)') => Apart(table)' /\ Taken' \subseteq Cover(table)'
    <3>1. (\A t \in Stations : ~HalfDone(t)') => Apart(table) /\ Taken \subseteq Cover(table)
      BY <2>1, <2>4, Zenon DEF Undamaged
    <3>2. Apart(table)' = Apart(table) /\ Cover(table)' = Cover(table)
      BY <1>2, Zenon DEF Apart, Cover
    <3> QED
      BY <3>1, <3>2, <2>3
  <2> QED
    BY <2>6, <2>7, <2>8, <2>9, Zenon DEF Undamaged
<1> QED
  BY <1>11, <1>12, <1>13, <1>14, <1>15 DEF AddrInv

-----------------------------------------------------------------------------
(* Calls return                                                             *)

LEMMA TakenInSpace ==
    ASSUME AddrInv, intact
    PROVE  Taken \subseteq Space
<1>0. Types /\ Undamaged
  BY DEF AddrInv
<1>1. CASE \A s \in Stations : ~HalfDone(s)
  <2>1. Taken \subseteq Cover(table)
    BY <1>0, <1>1, Zenon DEF Undamaged
  <2>2. Cover(table) \subseteq Space
    BY <1>0, CoverInSpace DEF Types
  <2> QED
    BY <2>1, <2>2
<1>2. ASSUME NEW s \in Stations, HalfDone(s)
      PROVE  Taken \subseteq Space
  <2>1. s \in sound \ stale
    BY <1>0, <1>2 DEF Undamaged, OneHalfDone, HalfDone
  <2>2. Taken \subseteq Mine(s)
    BY <1>0, <2>1, Zenon DEF Undamaged, Agrees
  <2>3. ToSet(list[s]) \subseteq Good
    BY <1>0, StationTypes, ListFacts
  <2>4. Mine(s) \subseteq Space
    BY <2>3, CoverInSpace DEF Mine
  <2> QED
    BY <2>2, <2>4
<1> QED
  BY <1>1, <1>2

\* A call returns; what an allocation has asked for is handed out.
LEMMA ReturnKeeps ==
    ASSUME AddrInv, NEW s \in Stations, Return(s)
    PROVE  AddrInv'
<1>0. Types /\ Idle /\ Pending /\ SoundSorted
  BY DEF AddrInv
<1>1. /\ call[s] # NoCall /\ todo[s] = <<>> /\ call' = [call EXCEPT ![s] = NoCall]
      /\ open' = open /\ list' = list /\ todo' = todo /\ table' = table /\ sound' = sound
      /\ intact' = intact
      /\ begun' = IF intact' THEN begun \ {s} ELSE {}
      /\ stale' = IF intact' THEN stale ELSE {}
  BY <1>0 DEF Return, Note, Types
<1>2. granted' = IF intact' THEN granted \cup Holds(s) ELSE {}
  <2>1. Holds(s) = IF call[s].op = "alloc" THEN Run(call[s].at, call[s].len) ELSE {}
    BY <1>1, Zenon DEF Holds, Asks
  <2>2. granted' = IF intact' THEN (IF call[s].op = "alloc" THEN granted \cup Run(call[s].at, call[s].len)
                                    ELSE granted) ELSE {}
    BY Zenon DEF Return, Note
  <2> QED
    BY <2>1, <2>2
<1>3. NoCall \in Calls
  BY AddrAllocAssumption DEF NoCall, Calls, Ops
<1>4. call' \in [Stations -> Calls] /\ call'[s] = NoCall
      /\ \A t \in Stations : t # s => call'[t] = call[t]
  BY <1>0, <1>1, <1>3 DEF Types
<1>5. \A t \in Stations : t # s => Same(t)
  BY <1>1, <1>4 DEF Same
<1>6. Types'
  <2>1. open' \subseteq Stations /\ sound' \subseteq open' /\ begun' \subseteq open' /\ stale' \subseteq open'
    BY <1>0, <1>1 DEF Types
  <2>2. intact' \in BOOLEAN /\ granted' \subseteq Space
    <3>1. intact => granted \cup Holds(s) \subseteq Space
      BY TakenInSpace, TakenIs
    <3> QED
      BY <3>1, <1>0, <1>1, <1>2 DEF Types
  <2>3. table' \subseteq Good /\ IsFiniteSet(table') /\ OwnIds(table')
    BY <1>0, <1>1, Zenon DEF Types
  <2>4. todo' \in [Stations -> Seq(Statements)] /\ list' \in [Stations -> Lists]
    BY <1>0, <1>1, Zenon DEF Types
  <2> QED
    BY <1>4, <2>1, <2>2, <2>3, <2>4, Zenon DEF Types
<1>7. Idle'
  <2> SUFFICES ASSUME NEW t \in Stations
               PROVE  /\ t \notin open' => call'[t] = NoCall
                      /\ call'[t] = NoCall => todo'[t] = <<>> /\ t \notin begun'
    BY DEF Idle, NoCall
  <2>1. /\ t \notin open => call[t] = NoCall
        /\ call[t] = NoCall => todo[t] = <<>> /\ t \notin begun
    BY <1>0, Zenon DEF Idle
  <2>2. CASE t = s
    BY <2>2, <1>1, <1>4
  <2>3. CASE t # s
    BY <2>1, <2>3, <1>1, <1>4
  <2> QED
    BY <2>2, <2>3
<1>8. Pending'
  BY <1>0, <1>1, Zenon DEF Pending, Plan
<1>9. SoundSorted'
  BY <1>0, <1>1, Zenon DEF SoundSorted, Sorted, Below, End
<1>10. intact' => Undamaged'
  <2> SUFFICES ASSUME intact'
               PROVE  Undamaged'
    OBVIOUS
  <2>1. Undamaged /\ granted' = granted \cup Holds(s) /\ begun' = begun \ {s} /\ stale' = stale
    BY <1>1, <1>2 DEF AddrInv
  <2>2. Asks(s)' = {} /\ Holds(s)' = {}
    <3>1. Asks(s)' = {}
      BY <1>4 DEF Asks, NoCall
    <3> QED
      BY <3>1, Zenon DEF Holds
  <2>3. \A t \in Stations : t # s => Holds(t)' = Holds(t)
    BY <1>5, SameSets
  <2>4. Taken' \subseteq Taken
    <3> SUFFICES ASSUME NEW x \in Taken'
                 PROVE  x \in Taken
      OBVIOUS
    <3> QED
      BY <2>1, <2>2, <2>3, TakenIs, TakenNext
  <2>5. \A t \in Stations : HalfDone(t)' <=> HalfDone(t)
    <3> SUFFICES ASSUME NEW t \in Stations
                 PROVE  (t \in begun' /\ todo'[t] # <<>>) <=> (t \in begun /\ todo[t] # <<>>)
      BY DEF HalfDone
    <3> QED
      BY <2>1, <1>1
  <2>6. OneHalfDone'
    <3> SUFFICES ASSUME NEW t \in Stations
                 PROVE  /\ todo'[t] # <<>> => t \in sound'
                        /\ HalfDone(t)' => /\ Len(todo'[t]) = 1 /\ t \notin stale'
                                           /\ open' \ {t} \subseteq stale'
      BY DEF OneHalfDone
    <3>1. /\ todo[t] # <<>> => t \in sound
          /\ HalfDone(t) => Len(todo[t]) = 1 /\ t \notin stale /\ open \ {t} \subseteq stale
      BY <2>1, Zenon DEF Undamaged, OneHalfDone
    <3> QED
      BY <3>1, <1>1, <2>1, <2>5, Zenon
  <2>7. ASSUME NEW t \in sound' \ stale'
        PROVE  Agrees(t)'
    <3>0. t \in Stations /\ t \in sound \ stale
      BY <1>0, <1>1, <2>1, <2>7 DEF Types
    <3>1. CASE t = s
      <4>1. Agrees(s)
        BY <3>0, <3>1, <2>1 DEF Undamaged
      <4>2. Mine(s)' = Mine(s)
        BY <1>1, Zenon DEF Mine
      <4>3. /\ Rest(table', todo'[s]) = ToSet(list'[s])
            /\ Len(todo'[s]) = 2 => Done(table', todo'[s][1]) # table'
        BY <4>1, <1>1, Zenon DEF Agrees
      <4>4. Taken' \subseteq Mine(s)' /\ Asks(s)' \subseteq Mine(s)'
        BY <4>1, <4>2, <2>2, <2>4 DEF Agrees
      <4>5. todo'[s] = <<>>
        BY <1>1
      <4> QED
        BY <3>1, <4>3, <4>4, <4>5, Zenon DEF Agrees
    <3>2. CASE t # s
      <4>1. Same(t) /\ Agrees(t) /\ (t \in begun => t \in begun')
        BY <3>0, <3>2, <1>5, <2>1 DEF Undamaged
      <4> QED
        BY <4>1, <1>1, <2>4, AgreesStays
    <3> QED
      BY <3>1, <3>2
  <2>8. HeldApart'
    <3>1. HeldApart
      BY <2>1 DEF Undamaged
    <3> SUFFICES /\ \A t \in Stations : Holds(t)' \cap granted' = {}
                 /\ \A t, u \in Stations : t # u => Holds(t)' \cap Holds(u)' = {}
      BY DEF HeldApart
    <3>2. \A t \in Stations : Holds(t)' \cap granted' = {}
      <4> SUFFICES ASSUME NEW t \in Stations
                   PROVE  Holds(t)' \cap granted' = {}
        OBVIOUS
      <4>1. Holds(t) \cap granted = {} /\ (t # s => Holds(t) \cap Holds(s) = {})
        BY <3>1 DEF HeldApart
      <4> QED
        BY <4>1, <2>1, <2>2, <2>3
    <3>3. \A t, u \in Stations : t # u => Holds(t)' \cap Holds(u)' = {}
      BY <3>1, <2>2, <2>3 DEF HeldApart
    <3> QED
      BY <3>2, <3>3
  <2>9. (\A t \in Stations : ~HalfDone(t)') => Apart(table)' /\ Taken' \subseteq Cover(table)'
    <3>1. (\A t \in Stations : ~HalfDone(t)') => Apart(table) /\ Taken \subseteq Cover(table)
      BY <2>1, <2>5, Zenon DEF Undamaged
    <3>2. Apart(table)' = Apart(table) /\ Cover(table)' = Cover(table)
      BY <1>1, Zenon DEF Apart, Cover
    <3> QED
      BY <3>1, <3>2, <2>4
  <2> QED
    BY <2>6, <2>7, <2>8, <2>9, Zenon DEF Undamaged
<1> QED
  BY <1>6, <1>7, <1>8, <1>9, <1>10 DEF AddrInv

-----------------------------------------------------------------------------
(* Statements are executed                                                  *)

Named(r, i) == [r EXCEPT !.id = i]

LEMMA NamedFacts ==
    ASSUME NEW r \in Good, NEW i \in Ids \cup {NoId}
    PROVE  /\ Named(r, i) \in Good /\ Named(r, i).id = i
           /\ Named(r, i).addr = r.addr /\ Named(r, i).len = r.len /\ End(Named(r, i)) = End(r)
<1>1. r \in [addr : 0..Size, len : 0..Size, id : Ids \cup {NoId}] /\ End(r) <= Size /\ (r.len = 0 => r.addr = 0)
  BY DEF Good
<1>2. /\ Named(r, i) \in [addr : 0..Size, len : 0..Size, id : Ids \cup {NoId}]
      /\ Named(r, i).id = i /\ Named(r, i).addr = r.addr /\ Named(r, i).len = r.len
  BY <1>1 DEF Named
<1>3. End(Named(r, i)) = End(r)
  BY <1>2, Zenon DEF End
<1> QED
  BY <1>1, <1>2, <1>3, Zenon DEF Good

\* A record that gets its identity keeps its place and its addresses.
LEMMA NamedInList ==
    ASSUME NEW l \in Lists, NEW p \in 1..Len(l), NEW i \in Ids, NEW m, m = With(l, p, Named(l[p], i))
    PROVE  /\ m \in Lists /\ Len(m) = Len(l)
           /\ Sorted(l) => Sorted(m) /\ ToSet(m) = (ToSet(l) \ {l[p]}) \cup {Named(l[p], i)}
           /\ Cover(ToSet(m)) = Cover(ToSet(l))
<1> DEFINE r == Named(l[p], i)
<1>1. \A j \in 1..Len(l) : l[j] \in Good
  BY ListFacts
<1>2. /\ r \in Good /\ r.addr = l[p].addr /\ r.len = l[p].len /\ End(r) = End(l[p])
  BY <1>1, NamedFacts
<1> HIDE DEF r
<1>3. m = [l EXCEPT ![p] = r]
  BY DEF With, r
<1>4. m \in Lists /\ Len(m) = Len(l) /\ \A j \in 1..Len(l) : m[j] = IF j = p THEN r ELSE l[j]
  BY <1>2, <1>3 DEF Lists
<1>5. \A j \in 1..Len(l) : m[j].addr = l[j].addr /\ m[j].len = l[j].len /\ End(m[j]) = End(l[j])
  BY <1>2, <1>4
<1>6. ASSUME Sorted(l)
      PROVE  Sorted(m) /\ ToSet(m) = (ToSet(l) \ {l[p]}) \cup {r}
  <2>1. \A j, k \in 1..Len(l) : j < k => Below(l[j], l[k])
    BY <1>6 DEF Sorted
  <2>2. p \in Int /\ Len(l) \in Nat
    BY ListFacts
  <2>3. p > 1 => Below(l[p - 1], r)
    <3>1. p > 1 => p - 1 \in 1..Len(l) /\ p - 1 < p
      BY <2>2
    <3>2. p > 1 => Below(l[p - 1], l[p])
      BY <2>1, <3>1
    <3> QED
      BY <3>2, <1>2 DEF Below
  <2>4. p < Len(l) => Below(r, l[p + 1])
    <3>1. p < Len(l) => p + 1 \in 1..Len(l) /\ p < p + 1
      BY <2>2
    <3>2. p < Len(l) => Below(l[p], l[p + 1])
      BY <2>1, <3>1
    <3> QED
      BY <3>2, <1>2 DEF Below
  <2>5. m = With(l, p, r)
    BY <1>3 DEF With
  <2>6. Sorted(With(l, p, r)) /\ ToSet(With(l, p, r)) = (ToSet(l) \ {l[p]}) \cup {r}
    BY <1>2, <1>6, <2>3, <2>4, ReplaceList
  <2> QED
    BY <2>5, <2>6, Zenon
<1>7. Cover(ToSet(m)) = Cover(ToSet(l))
  <2>1. ToSet(m) = {m[j] : j \in 1..Len(l)} /\ ToSet(l) = {l[j] : j \in 1..Len(l)}
    BY <1>4, ListFacts
  <2>2. \A x : x \in Cover(ToSet(m)) <=> \E j \in 1..Len(l) : x \in Run(m[j].addr, m[j].len)
    BY <2>1, CoverIs
  <2>3. \A x : x \in Cover(ToSet(l)) <=> \E j \in 1..Len(l) : x \in Run(l[j].addr, l[j].len)
    BY <2>1, CoverIs
  <2> QED
    BY <2>2, <2>3, <1>5
<1> QED
  BY <1>4, <1>6, <1>7 DEF r

\* Typed rows, each with an identity of its own.
Rows(R) == R \subseteq Good /\ IsFiniteSet(R) /\ OwnIds(R)

LEMMA RowsDone ==
    ASSUME NEW R, Rows(R), NEW st \in Statements, st.kind # "insert"
    PROVE  Rows(Done(R, st))
<1>0. R \subseteq Good /\ IsFiniteSet(R) /\ OwnIds(R) /\ st.rec \in Good
      /\ st.kind \in {"insert", "update", "delete"}
  BY DEF Rows, Statements
<1>1. CASE st.kind = "update"
  <2>0. Done(R, st) = {IF r.id = st.rec.id THEN st.rec ELSE r : r \in R}
    BY <1>1 DEF Done
  <2>1. CASE \A r \in R : r.id # st.rec.id
    <3>1. Done(R, st) = R
      BY <2>0, <2>1
    <3> QED
      BY <3>1, Zenon
  <2>2. ASSUME NEW q \in R, q.id = st.rec.id
        PROVE  Rows(Done(R, st))
    <3>1. Done(R, Update(st.rec)) = (R \ {q}) \cup {st.rec} /\ OwnIds(Done(R, Update(st.rec)))
      BY <1>0, <2>2, UpdateRow
    <3>2. Done(R, Update(st.rec)) = Done(R, st)
      BY <2>0 DEF Done, Update
    <3>3. IsFiniteSet((R \ {q}) \cup {st.rec})
      BY <1>0, FS_RemoveElement, FS_AddElement
    <3>4. (R \ {q}) \cup {st.rec} \subseteq Good
      BY <1>0
    <3> QED
      BY <3>1, <3>2, <3>3, <3>4, Zenon DEF Rows
  <2> QED
    BY <2>1, <2>2
<1>2. CASE st.kind = "delete"
  <2>0. Done(R, st) = {r \in R : r.id # st.rec.id}
    BY <1>2 DEF Done
  <2>1. Done(R, st) \subseteq R
    BY <2>0
  <2>2. IsFiniteSet(Done(R, st))
    BY <1>0, <2>1, FS_Subset
  <2>3. OwnIds(Done(R, st))
    BY <2>1, <1>0 DEF OwnIds
  <2> QED
    BY <2>1, <2>2, <2>3, <1>0 DEF Rows
<1> QED
  BY <1>0, <1>1, <1>2

LEMMA RowsInserted ==
    ASSUME NEW R, Rows(R), NEW r \in Good, r.id # NoId, \A q \in R : q.id # r.id
    PROVE  Rows(R \cup {r})
<1>1. R \subseteq Good /\ IsFiniteSet(R) /\ OwnIds(R)
  BY DEF Rows
<1>2. IsFiniteSet(R \cup {r})
  BY <1>1, FS_AddElement
<1>3. OwnIds(R \cup {r})
  BY <1>1 DEF OwnIds
<1> QED
  BY <1>1, <1>2, <1>3 DEF Rows

\* The statement that comes first, and what is left behind it.
LEMMA FirstStatement ==
    ASSUME NEW td \in Seq(Statements), NEW l \in Lists, Plan(td, l), td # <<>>
    PROVE  /\ Head(td) = td[1] /\ td[1] \in Statements /\ td[1].rec \in Good
           /\ Tail(td) \in Seq(Statements) /\ Plan(Tail(td), l)
           /\ td[1].kind = "insert" => /\ Len(td) = 1 /\ Tail(td) = <<>> /\ td[1].pos \in 1..Len(l)
                                       /\ l[td[1].pos] = td[1].rec /\ td[1].rec.id = NoId
           /\ \/ Len(td) = 1 /\ Tail(td) = <<>> /\ \A R : Rest(R, td) = Done(R, td[1])
              \/ /\ Len(td) = 2 /\ Tail(td) # <<>> /\ Len(Tail(td)) = 1
                 /\ \A R : Rest(R, td) = Rest(Done(R, td[1]), Tail(td))
<1>1. /\ Len(td) \in Nat /\ Len(td) <= 2 /\ Len(td) # 0
      /\ \A k \in 1..Len(td) : td[k] \in Statements
      /\ Head(td) = td[1] /\ Tail(td) \in Seq(Statements) /\ Len(Tail(td)) = Len(td) - 1
      /\ \A k \in 1..(Len(td) - 1) : Tail(td)[k] = td[k + 1]
  BY DEF Plan
<1>2. 1 \in 1..Len(td) /\ (Len(td) = 1 \/ Len(td) = 2)
  BY <1>1
<1>3. td[1] \in Statements /\ td[1].rec \in Good
  BY <1>1, <1>2 DEF Statements
<1>4. \A k \in 1..Len(td) :
          IF td[k].kind = "insert"
          THEN k = Len(td) /\ td[k].pos \in 1..Len(l) /\ l[td[k].pos] = td[k].rec /\ td[k].rec.id = NoId
          ELSE td[k].pos = 0
  BY DEF Plan
<1>5. td[1].kind = "insert" => /\ Len(td) = 1 /\ td[1].pos \in 1..Len(l)
                               /\ l[td[1].pos] = td[1].rec /\ td[1].rec.id = NoId
  BY <1>2, <1>4
<1>6. CASE Len(td) = 1
  <2>1. Tail(td) = <<>>
    <3> DEFINE u == Tail(td)
    <3>1. u \in Seq(Statements) /\ Len(u) = 0
      BY <1>1, <1>6
    <3> HIDE DEF u
    <3>2. u = <<>>
      BY <3>1
    <3> QED
      BY <3>2 DEF u
  <2>2. Plan(<<>>, l)
    BY DEF Plan
  <2>3. \A R : Rest(R, td) = Done(R, td[1])
    BY <1>6 DEF Rest
  <2> QED
    BY <1>1, <1>3, <1>5, <1>6, <2>1, <2>2, <2>3
<1>7. CASE Len(td) = 2
  <2> DEFINE u == Tail(td)
  <2>1. u \in Seq(Statements) /\ Len(u) = 1 /\ u # <<>> /\ u[1] = td[2] /\ 2 \in 1..Len(td)
    <3>1. 1 \in 1..(Len(td) - 1) /\ 1 + 1 = 2 /\ Len(td) - 1 = 1 /\ 2 \in 1..Len(td)
      BY <1>7
    <3>2. u \in Seq(Statements) /\ Len(u) = 1
      BY <1>1, <3>1, Zenon
    <3>3. u[1] = td[1 + 1]
      BY <1>1, <3>1, Zenon
    <3> HIDE DEF u
    <3>4. u # <<>>
      <4> SUFFICES ASSUME u = <<>>
                   PROVE  FALSE
        OBVIOUS
      <4>1. Len(<<>>) = 0
        OBVIOUS
      <4>2. Len(u) = 0
        BY <4>1, Zenon
      <4> QED
        BY <3>2, <4>2
    <3> QED
      BY <3>1, <3>2, <3>3, <3>4, Zenon
  <2>2. IF td[2].kind = "insert"
        THEN 2 = Len(td) /\ td[2].pos \in 1..Len(l) /\ l[td[2].pos] = td[2].rec /\ td[2].rec.id = NoId
        ELSE td[2].pos = 0
    BY <1>4, <2>1
  <2> HIDE DEF u
  <2>3. \A k \in 1..Len(u) : k = 1
    BY <2>1
  <2>4. Plan(u, l)
    BY <2>1, <2>2, <2>3 DEF Plan
  <2>5. \A R : Rest(R, td) = Done(Done(R, td[1]), td[2])
    BY <1>7 DEF Rest
  <2>6. \A R : Rest(Done(R, td[1]), u) = Done(Done(R, td[1]), u[1])
    BY <2>1 DEF Rest
  <2>7. td[1].kind # "insert"
    BY <1>5, <1>7
  <2> QED
    BY <1>1, <1>3, <1>7, <2>1, <2>4, <2>5, <2>6, <2>7, Zenon DEF u
<1> QED
  BY <1>2, <1>6, <1>7

\* What comes of the statement st: nothing, a row with a new identity, which the list
\* learns or not, or what the statement makes of the rows.
AddsRow(st, i) ==
    /\ i \in Ids \ Known
    /\ table' = table \cup {Named(st.rec, i)}
Inserts(s, st, i) ==
    /\ AddsRow(st, i)
    /\ list' = [list EXCEPT ![s] = With(list[s], st.pos, Named(list[s][st.pos], i))]
Effect(s, st, fails) ==
    \/ fails /\ table' = table /\ list' = list
    \/ fails /\ st.kind = "insert" /\ list' = list /\ \E i : AddsRow(st, i)
    \/ ~fails /\ st.kind = "insert" /\ \E i : Inserts(s, st, i)
    \/ ~fails /\ st.kind # "insert" /\ table' = Done(table, st) /\ list' = list

LEMMA ExecuteEffect ==
    ASSUME Types, Pending, NEW s \in Stations, NEW fails \in BOOLEAN, Execute(s, fails)
    PROVE  todo[s] # <<>> /\ Effect(s, todo[s][1], fails)
<1>1. todo[s] # <<>> /\ todo[s] \in Seq(Statements) /\ list[s] \in Lists /\ Plan(todo[s], list[s])
  BY StationTypes DEF Execute, Pending
<1> DEFINE st == todo[s][1]
<1>2. Head(todo[s]) = st /\ st \in Statements
  BY <1>1, FirstStatement
<1>3. \/ fails /\ table' = table /\ list' = list
      \/ /\ fails /\ st.kind = "insert" /\ list' = list
         /\ \E i \in Ids \ Known : table' = table \cup {[st.rec EXCEPT !.id = i]}
      \/ /\ ~fails /\ st.kind = "insert"
         /\ \E i \in Ids \ Known : /\ table' = table \cup {[st.rec EXCEPT !.id = i]}
                                   /\ list' = [list EXCEPT ![s][st.pos].id = i]
      \/ /\ ~fails /\ st.kind = "update"
         /\ table' = {IF r.id = st.rec.id THEN st.rec ELSE r : r \in table} /\ list' = list
      \/ /\ ~fails /\ st.kind = "delete" /\ table' = {r \in table : r.id # st.rec.id} /\ list' = list
  BY <1>2, Zenon DEF Execute
<1>4. ASSUME st.kind = "insert", NEW i \in Ids \ Known, table' = table \cup {[st.rec EXCEPT !.id = i]},
             list' = [list EXCEPT ![s][st.pos].id = i]
      PROVE  Inserts(s, st, i)
  BY <1>4 DEF Inserts, AddsRow, Named, With
<1>9. ASSUME NEW i \in Ids \ Known, table' = table \cup {[st.rec EXCEPT !.id = i]}
      PROVE  AddsRow(st, i)
  BY <1>9 DEF AddsRow, Named
<1>5. st.kind = "update" => Done(table, st) = {IF r.id = st.rec.id THEN st.rec ELSE r : r \in table}
  BY DEF Done
<1>6. st.kind = "delete" => Done(table, st) = {r \in table : r.id # st.rec.id}
  BY DEF Done
<1>7. st.kind = "update" \/ st.kind = "delete" => st.kind # "insert"
  OBVIOUS
<1> HIDE DEF st
<1>8. Effect(s, st, fails)
  <2>1. CASE ~fails /\ st.kind = "insert"
    BY <1>3, <1>4, <1>7, <2>1, Zenon DEF Effect
  <2>2. CASE ~fails /\ st.kind # "insert"
    BY <1>3, <1>5, <1>6, <1>7, <2>2, Zenon DEF Effect
  <2>3. CASE fails
    BY <1>3, <1>9, <2>3, Zenon DEF Effect
  <2> QED
    BY <2>1, <2>2, <2>3, Zenon
<1> QED
  BY <1>1, <1>8 DEF st

\* No row, record or statement has the new identity.
LEMMA NewIdentity ==
    ASSUME Types, NEW i \in Ids \ Known
    PROVE  i # NoId /\ \A q \in table : q.id # i
<1>1. i # NoId
  BY AddrAllocAssumption
<1>2. ASSUME NEW q \in table
      PROVE  q.id \in Known
  BY DEF Known
<1> QED
  BY <1>1, <1>2

LEMMA ExecuteFrame ==
    ASSUME Types, Idle, Pending, NEW s \in Stations, NEW fails \in BOOLEAN, Execute(s, fails)
    PROVE  /\ open' = open /\ call' = call /\ sound' = sound /\ s \in open /\ call[s] # NoCall
           /\ todo' \in [Stations -> Seq(Statements)] /\ todo'[s] = Tail(todo[s])
           /\ list' \in [Stations -> Lists] /\ Plan(todo'[s], list'[s])
           /\ \A t \in Stations : t # s => Same(t)
           /\ Sorted(list[s]) => Sorted(list'[s])
           /\ Mine(s)' = Mine(s) /\ Asks(s)' = Asks(s)
           /\ Rows(table')
<1> DEFINE td == todo[s]
           l == list[s]
           st == td[1]
<1>1. td # <<>> /\ Effect(s, st, fails)
  BY ExecuteEffect
<1>2. td \in Seq(Statements) /\ l \in Lists /\ Plan(td, l)
  BY StationTypes DEF Pending
<1>3. /\ st \in Statements /\ st.rec \in Good /\ Tail(td) \in Seq(Statements) /\ Plan(Tail(td), l)
      /\ st.kind = "insert" => /\ Len(td) = 1 /\ Tail(td) = <<>> /\ st.pos \in 1..Len(l)
                               /\ l[st.pos] = st.rec /\ st.rec.id = NoId
  BY <1>1, <1>2, FirstStatement
<1>4. call[s] # NoCall
  BY <1>1, Zenon DEF Idle
<1>5. s \in open
  BY <1>4, Zenon DEF Idle
<1>6. open' = open /\ call' = call /\ sound' = sound /\ todo' = [todo EXCEPT ![s] = Tail(@)]
  BY Zenon DEF Execute
<1>7. list \in [Stations -> Lists] /\ todo \in [Stations -> Seq(Statements)] /\ Rows(table)
  BY DEF Types, Rows
<1>8. todo' \in [Stations -> Seq(Statements)] /\ todo'[s] = Tail(td)
      /\ \A t \in Stations : t # s => todo'[t] = todo[t]
  <2>1. todo' = [todo EXCEPT ![s] = Tail(td)]
    BY <1>6, <1>7
  <2> DEFINE u == Tail(td)
  <2>2. u \in Seq(Statements)
    BY <1>3
  <2> HIDE DEF u
  <2>3. todo' = [todo EXCEPT ![s] = u]
    BY <2>1 DEF u
  <2>4. todo' \in [Stations -> Seq(Statements)] /\ todo'[s] = u
        /\ \A t \in Stations : t # s => todo'[t] = todo[t]
    BY <1>7, <2>2, <2>3
  <2> QED
    BY <2>4 DEF u
<1>9. Asks(s)' = Asks(s)
  BY <1>6, Zenon DEF Asks
<1> HIDE DEF td, l, st
<1>10. /\ list' \in [Stations -> Lists] /\ Plan(todo'[s], list'[s])
       /\ \A t \in Stations : t # s => list'[t] = list[t]
       /\ Sorted(l) => Sorted(list'[s])
       /\ Cover(ToSet(list'[s])) = Cover(ToSet(l))
       /\ Rows(table')
  <2>1. CASE list' = list
    <3>1. Rows(table')
      <4>1. table' = table \/ (st.kind # "insert" /\ table' = Done(table, st)) \/ \E i : AddsRow(st, i)
        BY <1>1, Zenon DEF Effect, Inserts
      <4>2. ASSUME NEW i, AddsRow(st, i), st.kind = "insert"
            PROVE  Rows(table')
        <5>1. i \in Ids \ Known /\ table' = table \cup {Named(st.rec, i)}
          BY <4>2, Zenon DEF AddsRow
        <5>2. i # NoId /\ (\A q \in table : q.id # i) /\ Named(st.rec, i) \in Good /\ Named(st.rec, i).id = i
          BY <5>1, <1>3, NewIdentity, NamedFacts
        <5> QED
          BY <5>1, <5>2, <1>7, RowsInserted
      <4>3. st.kind # "insert" => Rows(Done(table, st))
        BY <1>3, <1>7, RowsDone
      <4> QED
        BY <4>2, <4>3, <1>1, <1>7, Zenon DEF Effect, Inserts
    <3> QED
      BY <2>1, <3>1, <1>3, <1>7, <1>8, Zenon DEF l
  <2>2. list' = list \/ (st.kind = "insert" /\ \E i : Inserts(s, st, i))
    BY <1>1, Zenon DEF Effect
  <2>3. CASE st.kind = "insert" /\ \E i : Inserts(s, st, i)
    <3>0. PICK i : Inserts(s, st, i)
      BY <2>3, Zenon
    <3>1. /\ i \in Ids \ Known /\ table' = table \cup {Named(st.rec, i)}
          /\ list' = [list EXCEPT ![s] = With(l, st.pos, Named(l[st.pos], i))]
      BY <3>0, Zenon DEF Inserts, AddsRow, l
    <3>2. i # NoId /\ (\A q \in table : q.id # i) /\ Named(st.rec, i) \in Good /\ Named(st.rec, i).id = i
      BY <3>1, <1>3, NewIdentity, NamedFacts
    <3>3. Rows(table')
      BY <3>1, <3>2, <1>7, RowsInserted
    <3> DEFINE m == With(l, st.pos, Named(l[st.pos], i))
    <3>4. m \in Lists /\ (Sorted(l) => Sorted(m)) /\ Cover(ToSet(m)) = Cover(ToSet(l))
      BY <3>1, <2>3, <1>2, <1>3, NamedInList DEF l, td
    <3>5. list' = [list EXCEPT ![s] = m]
      BY <3>1
    <3> HIDE DEF m
    <3>6. list' \in [Stations -> Lists] /\ list'[s] = m
          /\ \A t \in Stations : t # s => list'[t] = list[t]
      BY <3>4, <3>5, <1>7
    <3>7. Plan(todo'[s], m)
      <4>1. Tail(td) = <<>>
        BY <2>3, <1>3, Zenon
      <4>2. Plan(<<>>, m)
        BY DEF Plan
      <4> QED
        BY <4>1, <4>2, <1>8 DEF td
    <3> QED
      BY <3>3, <3>4, <3>6, <3>7, Zenon
  <2> QED
    BY <2>1, <2>2, <2>3, Zenon
<1>11. \A t \in Stations : t # s => Same(t)
  BY <1>6, <1>8, <1>10 DEF Same
<1>12. Mine(s)' = Mine(s)
  BY <1>10, Zenon DEF Mine, l
<1> QED
  BY <1>4, <1>5, <1>6, <1>8, <1>9, <1>10, <1>11, <1>12 DEF l, td

\* A statement that is executed leaves the rest of the call to make the list of the rows.
LEMMA ExecuteRest ==
    ASSUME AddrInv, intact, NEW s \in Stations, s \notin stale, Execute(s, FALSE)
    PROVE  /\ s \in sound \ stale /\ Agrees(s)
           /\ Rest(table', todo'[s]) = ToSet(list'[s])
           /\ \/ Len(todo[s]) = 1 /\ todo'[s] = <<>>
              \/ Len(todo[s]) = 2 /\ todo'[s] # <<>> /\ Len(todo'[s]) = 1 /\ table' # table
<1> DEFINE td == todo[s]
           l == list[s]
           st == td[1]
<1>0. Types /\ Idle /\ Pending /\ SoundSorted /\ Undamaged
  BY DEF AddrInv
<1>1. td # <<>> /\ Effect(s, st, FALSE)
  BY <1>0, ExecuteEffect
<1>2. td \in Seq(Statements) /\ l \in Lists /\ Plan(td, l)
  BY <1>0, StationTypes DEF Pending
<1>3. s \in sound \ stale
  BY <1>0, <1>1 DEF Undamaged, OneHalfDone
<1>4. Agrees(s) /\ Sorted(l)
  BY <1>0, <1>3, Zenon DEF Undamaged, SoundSorted
<1>5. Rest(table, td) = ToSet(l) /\ (Len(td) = 2 => Done(table, st) # table)
  BY <1>4, Zenon DEF Agrees
<1>6. /\ st.rec \in Good
      /\ st.kind = "insert" => /\ Len(td) = 1 /\ Tail(td) = <<>> /\ st.pos \in 1..Len(l)
                               /\ l[st.pos] = st.rec /\ st.rec.id = NoId
      /\ \/ Len(td) = 1 /\ Tail(td) = <<>> /\ \A R : Rest(R, td) = Done(R, st)
         \/ /\ Len(td) = 2 /\ Tail(td) # <<>> /\ Len(Tail(td)) = 1
            /\ \A R : Rest(R, td) = Rest(Done(R, st), Tail(td))
  BY <1>1, <1>2, FirstStatement
<1>7. todo'[s] = Tail(td)
  BY <1>0, ExecuteFrame
<1> HIDE DEF td, l, st
<1>8. CASE st.kind = "insert"
  <2>1. PICK i : Inserts(s, st, i)
    BY <1>1, <1>8, Zenon DEF Effect
  <2> DEFINE r == Named(st.rec, i)
  <2>2. /\ i \in Ids \ Known /\ table' = table \cup {r}
        /\ list' = [list EXCEPT ![s] = With(l, st.pos, Named(l[st.pos], i))]
    BY <2>1, Zenon DEF Inserts, AddsRow, l
  <2> DEFINE m == With(l, st.pos, Named(l[st.pos], i))
  <2>3. ToSet(m) = (ToSet(l) \ {l[st.pos]}) \cup {Named(l[st.pos], i)}
    <3>1. m = With(l, st.pos, Named(l[st.pos], i)) /\ i \in Ids /\ st.pos \in 1..Len(l)
      BY <2>2, <1>6, <1>8, Zenon
    <3> DEFINE p == st.pos
    <3>2. m = With(l, p, Named(l[p], i)) /\ p \in 1..Len(l)
      BY <3>1
    <3> HIDE DEF m, p
    <3>3. Sorted(l) => Sorted(m) /\ ToSet(m) = (ToSet(l) \ {l[p]}) \cup {Named(l[p], i)}
      BY <3>1, <3>2, <1>2, NamedInList
    <3> QED
      BY <3>3, <1>4, Zenon DEF p
  <2>4. list'[s] = m
    BY <2>2, <1>0 DEF Types
  <2> HIDE DEF m, r
  <2>5. l[st.pos] = st.rec /\ st.rec.id = NoId /\ Len(td) = 1 /\ Tail(td) = <<>>
    BY <1>6, <1>8, Zenon
  <2>6. ToSet(m) = (ToSet(l) \ {st.rec}) \cup {r}
    BY <2>3, <2>5, Zenon DEF r
  <2>7. ToSet(l) = table \cup {st.rec}
    <3>1. Rest(table, td) = Done(table, st)
      BY <1>6, <2>5
    <3>2. Done(table, st) = table \cup {st.rec}
      BY <1>8 DEF Done
    <3> QED
      BY <3>1, <3>2, <1>5
  <2>8. st.rec \notin table
    BY <2>5, <1>0 DEF Types, OwnIds
  <2>9. table' = ToSet(list'[s])
    BY <2>2, <2>4, <2>6, <2>7, <2>8
  <2>10. Rest(table', <<>>) = table'
    BY DEF Rest
  <2> QED
    BY <2>5, <2>9, <2>10, <1>3, <1>4, <1>7, Zenon DEF td
<1>9. CASE st.kind # "insert"
  <2>1. table' = Done(table, st) /\ list' = list
    BY <1>1, <1>9, Zenon DEF Effect
  <2>2. CASE Len(td) = 1 /\ Tail(td) = <<>> /\ \A R : Rest(R, td) = Done(R, st)
    <3>1. Rest(table', <<>>) = table'
      BY DEF Rest
    <3>2. table' = ToSet(list'[s])
      BY <2>1, <2>2, <1>5, Zenon DEF l
    <3> QED
      BY <2>2, <3>1, <3>2, <1>3, <1>4, <1>7, Zenon DEF td
  <2>3. CASE /\ Len(td) = 2 /\ Tail(td) # <<>> /\ Len(Tail(td)) = 1
             /\ \A R : Rest(R, td) = Rest(Done(R, st), Tail(td))
    <3>1. Rest(table', todo'[s]) = ToSet(list'[s])
      BY <2>1, <2>3, <1>5, <1>7, Zenon DEF l
    <3>2. table' # table
      BY <2>1, <2>3, <1>5, Zenon
    <3> QED
      BY <2>3, <3>1, <3>2, <1>3, <1>4, <1>7, Zenon DEF td
  <2> QED
    BY <2>2, <2>3, <1>6, Zenon
<1> QED
  BY <1>8, <1>9

\* A statement that succeeds, of a station whose list is up to date, damages nothing.
LEMMA ExecuteUndamaged ==
    ASSUME AddrInv, intact, NEW s \in Stations, s \notin stale, Execute(s, FALSE),
           granted' = granted, begun' = begun \cup {s},
           stale' = IF table' = table THEN stale ELSE stale \cup (open \ {s})
    PROVE  Undamaged'
<1>0. Types /\ Idle /\ Pending /\ SoundSorted /\ Undamaged /\ FALSE \in BOOLEAN
  BY DEF AddrInv
<1>1. /\ open' = open /\ call' = call /\ sound' = sound /\ s \in open /\ call[s] # NoCall
      /\ \A t \in Stations : t # s => Same(t)
      /\ Sorted(list[s]) => Sorted(list'[s])
      /\ list' \in [Stations -> Lists]
      /\ Mine(s)' = Mine(s) /\ Asks(s)' = Asks(s)
  BY <1>0, ExecuteFrame
<1>2. /\ s \in sound \ stale /\ Agrees(s)
      /\ Rest(table', todo'[s]) = ToSet(list'[s])
      /\ \/ Len(todo[s]) = 1 /\ todo'[s] = <<>>
         \/ Len(todo[s]) = 2 /\ todo'[s] # <<>> /\ Len(todo'[s]) = 1 /\ table' # table
  BY ExecuteRest
<1>3. todo[s] # <<>>
  BY Zenon DEF Execute
<1>4. /\ Taken \subseteq Mine(s) /\ Asks(s) \subseteq Mine(s) /\ Asks(s) \cap Taken = {}
      /\ s \notin begun => Asks(s) \cap Cover(table) = {}
  BY <1>2, <1>3, Zenon DEF Agrees
<1>5. \A t \in Stations : t # s => ~HalfDone(t) /\ ~HalfDone(t)'
  <2> SUFFICES ASSUME NEW t \in Stations, t # s
               PROVE  ~HalfDone(t) /\ ~HalfDone(t)'
    OBVIOUS
  <2>1. HalfDone(t) => s \in stale
    BY <1>0, <1>1 DEF Undamaged, OneHalfDone
  <2>2. HalfDone(t)' => HalfDone(t)
    BY <1>1 DEF HalfDone, Same
  <2> QED
    BY <2>1, <2>2
<1>6. Holds(s) = {} /\ \A t \in Stations : t # s => Holds(t)' = Holds(t)
  BY <1>1, <1>3, SameSets DEF Holds
<1>7. /\ \A t \in Stations : Holds(t) \cap granted = {}
      /\ \A t, u \in Stations : t # u => Holds(t) \cap Holds(u) = {}
  BY <1>0, Zenon DEF Undamaged, HeldApart
<1>8. Holds(s)' \subseteq Asks(s)
  BY <1>1 DEF Holds
<1>9. Taken' \subseteq Taken \cup Asks(s)
  <2> SUFFICES ASSUME NEW x \in Taken'
               PROVE  x \in Taken \cup Asks(s)
    OBVIOUS
  <2> QED
    BY <1>6, <1>8, TakenIs, TakenNext
<1>10. HeldApart'
  <2> SUFFICES /\ \A t \in Stations : Holds(t)' \cap granted' = {}
               /\ \A t, u \in Stations : t # u => Holds(t)' \cap Holds(u)' = {}
    BY DEF HeldApart
  <2>1. Asks(s) \cap granted = {} /\ \A t \in Stations : Asks(s) \cap Holds(t) = {}
    BY <1>4, TakenIs
  <2>2. \A t \in Stations : Holds(t)' \cap granted' = {}
    BY <2>1, <1>6, <1>7, <1>8
  <2>3. \A t, u \in Stations : t # u => Holds(t)' \cap Holds(u)' = {}
    <3> SUFFICES ASSUME NEW t \in Stations, NEW u \in Stations, t # u
                 PROVE  Holds(t)' \cap Holds(u)' = {}
      OBVIOUS
    <3>1. CASE t # s /\ u # s
      BY <3>1, <1>6, <1>7
    <3>2. CASE t = s
      BY <3>2, <2>1, <1>6, <1>8
    <3>3. CASE u = s
      BY <3>3, <2>1, <1>6, <1>8
    <3> QED
      BY <3>1, <3>2, <3>3
  <2> QED
    BY <2>2, <2>3
<1>11. s \notin stale' /\ s \in begun'
  BY <1>2
<1>12. CASE Len(todo[s]) = 1 /\ todo'[s] = <<>>
  <2>1. \A t \in Stations : ~HalfDone(t)'
    BY <1>5, <1>12 DEF HalfDone
  <2>2. OneHalfDone'
    <3> SUFFICES ASSUME NEW t \in Stations
                 PROVE  /\ todo'[t] # <<>> => t \in sound'
                        /\ HalfDone(t)' => /\ Len(todo'[t]) = 1 /\ t \notin stale'
                                           /\ open' \ {t} \subseteq stale'
      BY DEF OneHalfDone
    <3>1. todo[t] # <<>> => t \in sound
      BY <1>0, Zenon DEF Undamaged, OneHalfDone
    <3>2. todo'[t] # <<>> => t \in sound'
      <4>1. CASE t = s
        BY <4>1, <1>1, <1>2
      <4>2. CASE t # s
        BY <4>2, <3>1, <1>1 DEF Same
      <4> QED
        BY <4>1, <4>2
    <3> QED
      BY <2>1, <3>2
  <2>3. table' = ToSet(list'[s])
    BY <1>2, <1>12 DEF Rest
  <2>4. Mine(s)' = Cover(table')
    BY <2>3, Zenon DEF Mine
  <2>5. Taken' \subseteq Mine(s)'
    BY <1>1, <1>4, <1>9
  <2>6. Agrees(s)'
    <3>1. Rest(table', todo'[s]) = ToSet(list'[s])
      BY <1>2
    <3>2. Asks(s)' \subseteq Mine(s)'
      BY <1>1, <1>4
    <3>3. Len(todo'[s]) # 2
      BY <1>12
    <3> QED
      BY <3>1, <3>2, <3>3, <2>5, <1>12, Zenon DEF Agrees
  <2>7. ASSUME NEW t \in sound' \ stale', t # s
        PROVE  Agrees(t)'
    <3>1. t \in sound /\ t \in open /\ t \in Stations
      BY <2>7, <1>0, <1>1 DEF Types
    <3>2. table' = table /\ t \notin stale
      BY <2>7, <3>1
    <3>3. s \notin begun
      <4>1. s \in begun => HalfDone(s)
        BY <1>3 DEF HalfDone
      <4>2. HalfDone(s) => open \ {s} \subseteq stale
        BY <1>0 DEF Undamaged, OneHalfDone
      <4> QED
        BY <4>1, <4>2, <3>1, <3>2, <2>7
    <3>4. Asks(s) = {}
      BY <3>2, <3>3, <2>4, <1>1, <1>4
    <3>5. Taken' \subseteq Taken
      BY <3>4, <1>9
    <3>6. Same(t) /\ Agrees(t) /\ (t \in begun => t \in begun')
      BY <2>7, <3>1, <3>2, <1>0, <1>1 DEF Undamaged
    <3> QED
      BY <3>2, <3>5, <3>6, AgreesStays
  <2>8. Apart(table)' /\ Taken' \subseteq Cover(table)'
    <3>1. list'[s] \in Lists /\ Sorted(list'[s])
      BY <1>0, <1>1, <1>2, Zenon DEF SoundSorted
    <3>2. Apart(table')
      BY <3>1, <2>3, SortedApart
    <3>3. Apart(table)' /\ Cover(table)' = Cover(table')
      BY <3>2, Zenon DEF Apart, Cover, Below, End
    <3> QED
      BY <3>3, <2>4, <2>5
  <2> QED
    BY <2>2, <2>6, <2>7, <2>8, <1>10, Zenon DEF Undamaged
<1>13. CASE Len(todo[s]) = 2 /\ todo'[s] # <<>> /\ Len(todo'[s]) = 1 /\ table' # table
  <2>1. HalfDone(s)' /\ stale' = stale \cup (open \ {s})
    BY <1>11, <1>13 DEF HalfDone
  <2>2. OneHalfDone'
    <3> SUFFICES ASSUME NEW t \in Stations
                 PROVE  /\ todo'[t] # <<>> => t \in sound'
                        /\ HalfDone(t)' => /\ Len(todo'[t]) = 1 /\ t \notin stale'
                                           /\ open' \ {t} \subseteq stale'
      BY DEF OneHalfDone
    <3>1. CASE t = s
      BY <3>1, <2>1, <1>1, <1>2, <1>11, <1>13
    <3>2. CASE t # s
      <4>1. todo[t] # <<>> => t \in sound
        BY <1>0, Zenon DEF Undamaged, OneHalfDone
      <4> QED
        BY <3>2, <4>1, <1>1, <1>5 DEF Same
    <3> QED
      BY <3>1, <3>2
  <2>3. Holds(s)' = {}
    BY <1>13, Zenon DEF Holds
  <2>4. Taken' \subseteq Taken
    <3> SUFFICES ASSUME NEW x \in Taken'
                 PROVE  x \in Taken
      OBVIOUS
    <3> QED
      BY <2>3, <1>6, TakenIs, TakenNext
  <2>5. Agrees(s)'
    <3>1. Rest(table', todo'[s]) = ToSet(list'[s])
      BY <1>2
    <3>2. Taken' \subseteq Mine(s)' /\ Asks(s)' \subseteq Mine(s)'
      BY <2>4, <1>1, <1>4
    <3>3. Asks(s)' \cap Taken' = {}
      BY <2>4, <1>1, <1>4
    <3>4. Len(todo'[s]) # 2
      BY <1>13
    <3> QED
      BY <3>1, <3>2, <3>3, <3>4, <1>11, Zenon DEF Agrees
  <2>6. \A t \in sound' \ stale' : t = s
    BY <2>1, <1>0, <1>1 DEF Types
  <2> QED
    BY <2>1, <2>2, <2>5, <2>6, <1>10, Zenon DEF Undamaged
<1> QED
  BY <1>2, <1>12, <1>13

\* A statement keeps the invariant.
LEMMA ExecuteKeeps ==
    ASSUME AddrInv, NEW s \in Stations, NEW fails \in BOOLEAN, Execute(s, fails)
    PROVE  AddrInv'
<1>0. Types /\ Idle /\ Pending /\ SoundSorted
  BY DEF AddrInv
<1>1. /\ open' = open /\ call' = call /\ sound' = sound /\ s \in open /\ call[s] # NoCall
      /\ todo' \in [Stations -> Seq(Statements)]
      /\ list' \in [Stations -> Lists] /\ Plan(todo'[s], list'[s])
      /\ \A t \in Stations : t # s => Same(t)
      /\ Sorted(list[s]) => Sorted(list'[s])
      /\ Rows(table')
  BY <1>0, ExecuteFrame
<1>2. /\ intact' = (intact /\ ~(fails \/ s \in stale))
      /\ granted' = IF intact' THEN granted ELSE {}
      /\ begun' = IF intact' THEN begun \cup {s} ELSE {}
      /\ stale' = IF intact' THEN (IF table' = table THEN stale ELSE stale \cup (open \ {s})) ELSE {}
  BY Zenon DEF Execute, Note
<1>3. Types'
  <2>1. open' \subseteq Stations /\ sound' \subseteq open' /\ begun' \subseteq open' /\ stale' \subseteq open'
    BY <1>0, <1>1, <1>2 DEF Types
  <2>2. intact' \in BOOLEAN /\ granted' \subseteq Space
    BY <1>0, <1>2 DEF Types
  <2>3. table' \subseteq Good /\ IsFiniteSet(table') /\ OwnIds(table')
    BY <1>1, Zenon DEF Rows
  <2>4. call' \in [Stations -> Calls]
    BY <1>0, <1>1, Zenon DEF Types
  <2> QED
    BY <1>1, <2>1, <2>2, <2>3, <2>4, Zenon DEF Types
<1>4. Idle'
  <2> SUFFICES ASSUME NEW t \in Stations
               PROVE  /\ t \notin open' => call'[t] = NoCall
                      /\ call'[t] = NoCall => todo'[t] = <<>> /\ t \notin begun'
    BY DEF Idle, NoCall
  <2>1. /\ t \notin open => call[t] = NoCall
        /\ call[t] = NoCall => todo[t] = <<>> /\ t \notin begun
    BY <1>0, Zenon DEF Idle
  <2>2. CASE t = s
    BY <2>2, <1>1
  <2>3. CASE t # s
    BY <2>1, <2>3, <1>1, <1>2 DEF Same
  <2> QED
    BY <2>2, <2>3
<1>5. Pending'
  <2> SUFFICES ASSUME NEW t \in Stations
               PROVE  Plan(todo'[t], list'[t])
    BY DEF Pending, Plan
  <2> QED
    BY <1>0, <1>1, Zenon DEF Pending, Same
<1>6. SoundSorted'
  <2> SUFFICES ASSUME NEW t \in sound'
               PROVE  Sorted(list'[t])
    BY DEF SoundSorted, Sorted, Below, End
  <2>1. t \in sound /\ t \in Stations
    BY <1>0, <1>1 DEF Types
  <2>2. Sorted(list[t])
    BY <2>1, <1>0, Zenon DEF SoundSorted
  <2> QED
    BY <2>1, <2>2, <1>1, Zenon DEF Same
<1>7. intact' => Undamaged'
  <2> SUFFICES ASSUME intact'
               PROVE  Undamaged'
    OBVIOUS
  <2>1. intact /\ fails = FALSE /\ s \notin stale
    BY <1>2
  <2>2. Execute(s, FALSE)
    BY <2>1
  <2>3. granted' = granted /\ begun' = begun \cup {s}
        /\ stale' = IF table' = table THEN stale ELSE stale \cup (open \ {s})
    BY <1>2
  <2> QED
    BY <2>1, <2>2, <2>3, ExecuteUndamaged
<1> QED
  BY <1>3, <1>4, <1>5, <1>6, <1>7 DEF AddrInv

-----------------------------------------------------------------------------
(* The invariant holds                                                      *)

LEMMA InitInv ==
    ASSUME Init
    PROVE  AddrInv
<1>1. /\ open = {} /\ list = [s \in Stations |-> <<>>] /\ todo = [s \in Stations |-> <<>>]
      /\ call = [s \in Stations |-> NoCall] /\ table = {}
      /\ intact = TRUE /\ granted = {} /\ begun = {} /\ sound = {} /\ stale = {}
  BY DEF Init
<1>2. <<>> \in Lists /\ <<>> \in Seq(Statements) /\ NoCall \in Calls
  BY AddrAllocAssumption DEF Lists, NoCall, Calls, Ops
<1>3. Types
  <2>1. IsFiniteSet(table) /\ OwnIds(table)
    BY <1>1, FS_EmptySet DEF OwnIds
  <2> QED
    BY <1>1, <1>2, <2>1 DEF Types
<1>4. Idle /\ SoundSorted
  BY <1>1 DEF Idle, SoundSorted
<1>5. Pending
  BY <1>1 DEF Pending, Plan
<1>6. \A s \in Stations : Holds(s) = {} /\ ~HalfDone(s) /\ todo[s] = <<>>
  BY <1>1 DEF Holds, Asks, NoCall, HalfDone
<1>7. Taken = {}
  BY <1>1, <1>6, TakenIs
<1>8. OneHalfDone /\ HeldApart
  BY <1>1, <1>6 DEF OneHalfDone, HeldApart
<1>9. Apart(table)
  BY <1>1 DEF Apart
<1>10. Undamaged
  BY <1>1, <1>7, <1>8, <1>9 DEF Undamaged
<1> QED
  BY <1>3, <1>4, <1>5, <1>10 DEF AddrInv

LEMMA StutterInv ==
    ASSUME AddrInv, UNCHANGED vars
    PROVE  AddrInv'
<1>1. /\ open' = open /\ list' = list /\ todo' = todo /\ call' = call /\ table' = table
      /\ sound' = sound /\ intact' = intact /\ granted' = granted /\ begun' = begun /\ stale' = stale
  BY DEF vars, handles, history
<1>2. Types' /\ Idle'
  BY <1>1, Zenon DEF AddrInv, Types, Idle
<1>3. Pending' /\ SoundSorted'
  BY <1>1, Zenon DEF AddrInv, Pending, SoundSorted
<1>4. Taken' = Taken
  <2>1. \A s \in Stations : Holds(s)' = Holds(s)
    BY <1>1 DEF Holds, Asks
  <2> QED
    BY <1>1, <2>1 DEF Taken
<1>5. ASSUME Undamaged
      PROVE  Undamaged'
  <2>1. \A s \in Stations : HalfDone(s)' = HalfDone(s)
    BY <1>1 DEF HalfDone
  <2>2. OneHalfDone'
    BY <1>1, <1>5, Zenon DEF Undamaged, OneHalfDone, HalfDone
  <2>3. \A s \in sound' \ stale' : Agrees(s)'
    <3> SUFFICES ASSUME NEW s \in sound \ stale
                 PROVE  Agrees(s)'
      BY <1>1
    <3> QED
      BY <1>1, <1>4, <1>5, AgreesStays DEF Undamaged, Same
  <2>4. HeldApart'
    BY <1>1, <1>5, Zenon DEF Undamaged, HeldApart, Holds, Asks
  <2>5. Apart(table)' = Apart(table) /\ Cover(table)' = Cover(table)
    BY <1>1, Zenon DEF Apart, Cover
  <2> QED
    BY <2>1, <2>2, <2>3, <2>4, <2>5, <1>4, <1>5, Zenon DEF Undamaged
<1> QED
  BY <1>1, <1>2, <1>3, <1>5, Zenon DEF AddrInv

LEMMA NextInv ==
    ASSUME AddrInv, [Next]_vars
    PROVE  AddrInv'
<1>1. CASE UNCHANGED vars
  BY <1>1, StutterInv
<1>2. CASE Next
  <2>1. PICK s \in Stations :
            \/ Fetch(s) \/ Deinit(s) \/ Crash(s) \/ Return(s)
            \/ \E n \in Asked : Alloc(s, n)
            \/ \E n \in Freed, a \in Space : MayFree(s, a, n) /\ Free(s, a, n)
            \/ \E fails \in BOOLEAN : Execute(s, fails)
    BY <1>2, Zenon DEF Next
  <2>2. CASE Fetch(s)
    BY <2>2, FetchKeeps
  <2>3. CASE Deinit(s)
    <3>1. call[s] = NoCall /\ Leave(s, FALSE)
      BY <2>3, Zenon DEF Deinit
    <3>2. ~HalfDone(s)
      BY <3>1, AtRest DEF HalfDone
    <3>3. FALSE \in BOOLEAN /\ (HalfDone(s) => FALSE)
      BY <3>2
    <3> QED
      BY <3>1, <3>3, LeaveKeeps
  <2>4. CASE Crash(s)
    <3>1. Leave(s, HalfDone(s))
      BY <2>4, Zenon DEF Crash
    <3>2. HalfDone(s) \in BOOLEAN
      BY DEF HalfDone
    <3>3. PICK b \in BOOLEAN : b = HalfDone(s)
      BY <3>2
    <3>4. Leave(s, b) /\ (HalfDone(s) => b)
      BY <3>1, <3>3, Zenon
    <3> QED
      BY <3>4, LeaveKeeps
  <2>5. CASE Return(s)
    BY <2>5, ReturnKeeps
  <2>6. CASE \E n \in Asked : Alloc(s, n)
    BY <2>6, AllocKeeps
  <2>7. CASE \E n \in Freed, a \in Space : MayFree(s, a, n) /\ Free(s, a, n)
    BY <2>7, FreeKeeps
  <2>8. CASE \E fails \in BOOLEAN : Execute(s, fails)
    BY <2>8, ExecuteKeeps
  <2> QED
    BY <2>1, <2>2, <2>3, <2>4, <2>5, <2>6, <2>7, <2>8
<1> QED
  BY <1>1, <1>2

\* However calls, statements that fail, crashes and other stations interleave.
LEMMA AlwaysInv == Spec => []AddrInv
<1>1. Init => AddrInv
  BY InitInv
<1>2. AddrInv /\ [Next]_vars => AddrInv'
  BY NextInv
<1> QED
  BY <1>1, <1>2, PTL DEF Spec

LEMMA InvTypeOK ==
    ASSUME AddrInv
    PROVE  TypeOK
<1>0. Types /\ Pending
  BY DEF AddrInv
<1>1. Good \subseteq Records
  BY AddrAllocAssumption DEF Good, Records
<1>2. ASSUME NEW s \in Stations
      PROVE  /\ list[s] \in Seq(Records)
             /\ \A k \in 1..Len(todo[s]) : /\ todo[s][k].kind \in {"insert", "update", "delete"}
                                           /\ todo[s][k].rec \in Records
                                           /\ todo[s][k].pos \in 0..Len(list[s])
             /\ call[s] \in [op : Ops, at : 0..Size, len : Asked \cup Freed \cup {0}]
             /\ s \in sound => \A k \in 1..Len(list[s]) : End(list[s][k]) <= Size
  <2>1. list[s] \in Lists /\ todo[s] \in Seq(Statements) /\ call[s] \in Calls
    BY <1>0, StationTypes
  <2>2. list[s] \in Seq(Records)
    BY <2>1, <1>1 DEF Lists
  <2>3. ASSUME NEW k \in 1..Len(todo[s])
        PROVE  /\ todo[s][k].kind \in {"insert", "update", "delete"}
               /\ todo[s][k].rec \in Records
               /\ todo[s][k].pos \in 0..Len(list[s])
    <3>1. todo[s][k] \in Statements
      BY <2>1
    <3>2. todo[s][k].kind \in {"insert", "update", "delete"} /\ todo[s][k].rec \in Records
      BY <3>1, <1>1 DEF Statements
    <3>3. todo[s][k].pos \in 1..Len(list[s]) \/ todo[s][k].pos = 0
      BY <1>0, Zenon DEF Pending, Plan
    <3>4. Len(list[s]) \in Nat
      BY <2>1, ListFacts
    <3>5. 0 \in 0..Len(list[s]) /\ 1..Len(list[s]) \subseteq 0..Len(list[s])
      BY <3>4
    <3> QED
      BY <3>2, <3>3, <3>5
  <2>4. \A k \in 1..Len(list[s]) : End(list[s][k]) <= Size
    BY <2>1, ListFacts, GoodFacts
  <2> QED
    BY <2>1, <2>2, <2>3, <2>4 DEF Calls
<1>3. /\ open \subseteq Stations /\ table \subseteq Records
      /\ sound \subseteq open /\ begun \subseteq open /\ stale \subseteq open
      /\ intact \in BOOLEAN /\ granted \subseteq Space
  BY <1>0, <1>1 DEF Types
<1> QED
  BY <1>2, <1>3, Zenon DEF TypeOK

\* In every state the lists, the statements of a call in progress and the rows are well
\* formed: no identity, address or count outside what the code's types and the segment hold.
THEOREM TypeCorrect == Spec => []TypeOK
BY AlwaysInv, InvTypeOK, PTL

\* An address that addr_alloc is about to hand out is with nobody else, in spite of
\* merging, splitting, fetching again and crashes, as long as no fault hit the table.
THEOREM AlwaysGrantsApart == Spec => []GrantsApart
<1>1. AddrInv => GrantsApart
  <2> SUFFICES ASSUME AddrInv, intact, NEW s \in Stations, call[s].op = "alloc", todo[s] = <<>>
               PROVE  Run(call[s].at, call[s].len) \cap granted = {}
    BY DEF GrantsApart
  <2>1. Holds(s) = Run(call[s].at, call[s].len)
    BY DEF Holds, Asks
  <2>2. Holds(s) \cap granted = {}
    BY Zenon DEF AddrInv, Undamaged, HeldApart
  <2> QED
    BY <2>1, <2>2
<1> QED
  BY <1>1, AlwaysInv, PTL

\* Whoever fetches the table while nobody is between two statements gets rows that lie
\* apart and cover every address that is in use.
THEOREM AlwaysTableSound == Spec => []TableSound
<1>1. AddrInv => TableSound
  <2> SUFFICES ASSUME AddrInv, intact, \A s \in Stations : ~HalfDone(s)
               PROVE  Apart(table) /\ granted \subseteq Cover(table)
    BY DEF TableSound
  <2>1. Apart(table) /\ Taken \subseteq Cover(table)
    BY Zenon DEF AddrInv, Undamaged
  <2> QED
    BY <2>1, TakenIs
<1> QED
  BY <1>1, AlwaysInv, PTL

\* A list in order has each of its records once.
LEMMA SortedCounts ==
    ASSUME NEW l \in Lists, Sorted(l), IsFiniteSet(ToSet(l))
    PROVE  Len(l) = Cardinality(ToSet(l))
<1> DEFINE n == Len(l)
<1>1. n \in Nat /\ l \in [1..n -> ToSet(l)] /\ ToSet(l) = {l[k] : k \in 1..n}
  <2>1. l \in Seq(Good) /\ ToSet(l) = {l[k] : k \in 1..Len(l)}
    BY ListFacts DEF Lists
  <2> QED
    BY <2>1
<1>2. \A j, k \in 1..n : j # k => l[j] # l[k]
  BY SortedApart
<1> HIDE DEF n
<1>3. l \in Injection(1..n, ToSet(l))
  BY <1>1, <1>2 DEF Injection, IsInjective
<1>4. l \in Surjection(1..n, ToSet(l))
  BY <1>1 DEF Surjection
<1>5. Cardinality(1..n) = Cardinality(ToSet(l))
  BY <1>3, <1>4, FS_Injection
<1>6. Cardinality(1..n) = n
  <2>1. 1 \in Int /\ n \in Int
    BY <1>1
  <2>2. Cardinality(1..n) = IF 1 > n THEN 0 ELSE n - 1 + 1
    BY <2>1, FS_Interval
  <2> QED
    BY <2>2, <1>1
<1> QED
  BY <1>5, <1>6 DEF n

\* The list of the station that works is, between its calls' statements, the table: the
\* same records with the same identities, each once and in order.
THEOREM AlwaysListIsTable == Spec => []ListIsTable
<1>1. AddrInv => ListIsTable
  <2> SUFFICES ASSUME AddrInv, NEW s \in open, intact, s \in sound \ stale, todo[s] = <<>>
               PROVE  /\ ToSet(list[s]) = table /\ Len(list[s]) = Cardinality(table)
                      /\ \A k \in 1..(Len(list[s]) - 1) : Below(list[s][k], list[s][k + 1])
    BY DEF ListIsTable
  <2>0. Types /\ s \in Stations
    BY DEF AddrInv, Types
  <2>1. list[s] \in Lists /\ Sorted(list[s]) /\ Len(list[s]) \in Nat
    BY <2>0, StationTypes, ListFacts DEF AddrInv, SoundSorted
  <2>2. Agrees(s) /\ Rest(table, <<>>) = table
    BY DEF AddrInv, Undamaged, Rest
  <2>3. ToSet(list[s]) = table
    BY <2>2, Zenon DEF Agrees
  <2>4. IsFiniteSet(table)
    BY <2>0, Zenon DEF Types
  <2>5. Len(list[s]) = Cardinality(table)
    BY <2>1, <2>3, <2>4, SortedCounts
  <2>6. ASSUME NEW k \in 1..(Len(list[s]) - 1)
        PROVE  Below(list[s][k], list[s][k + 1])
    <3>1. k \in 1..Len(list[s]) /\ k + 1 \in 1..Len(list[s]) /\ k < k + 1
      BY <2>1
    <3> QED
      BY <3>1, <2>1 DEF Sorted
  <2> QED
    BY <2>3, <2>5, <2>6
<1> QED
  BY <1>1, AlwaysInv, PTL

-----------------------------------------------------------------------------
(* A handle is a pool of addresses                                          *)

\* What a step of the handle's pool is, in terms of the station.
LEMMA PoolStays ==
    ASSUME NEW s \in Stations, s \in sound' <=> s \in sound,
           s \in sound => Mine(s)' = Mine(s) /\ call'[s] = call[s]
    PROVE  UNCHANGED Pool(s)!vars
<1>1. s \in sound => Cover(ToSet(list'[s])) = Cover(ToSet(list[s]))
  BY Zenon DEF Mine
<1> QED
  BY <1>1 DEF Pool!vars

LEMMA PoolOpens ==
    ASSUME NEW s \in Stations, s \notin sound, s \in sound', Mine(s)' \subseteq Space, call'[s] = NoCall
    PROVE  Pool(s)!Open
<1>1. Cover(ToSet(list'[s])) \subseteq Space
  BY Zenon DEF Mine
<1> QED
  BY <1>1 DEF Pool!Open, Pool!NoCall, NoCall, Space

LEMMA PoolCloses ==
    ASSUME NEW s \in Stations, s \in sound, s \notin sound'
    PROVE  Pool(s)!Close
BY DEF Pool!Close, Pool!NoCall, NoCall

LEMMA PoolReturns ==
    ASSUME NEW s \in Stations, s \in sound, s \in sound', call[s] # NoCall, call'[s] = NoCall,
           Mine(s)' = Mine(s)
    PROVE  Pool(s)!Return
<1>1. Cover(ToSet(list'[s])) = Cover(ToSet(list[s]))
  BY Zenon DEF Mine
<1> QED
  BY <1>1 DEF Pool!Return, Pool!NoCall, NoCall

LEMMA PoolGives ==
    ASSUME NEW s \in Stations, s \in sound, s \in sound', call[s] = NoCall, NEW n \in Nat, NEW a \in Nat,
           a + n <= Size, Run(a, n) \cap Mine(s) = {}, Mine(s)' = Mine(s) \cup Run(a, n),
           call'[s] = Given(a, n)
    PROVE  Pool(s)!Alloc(n)
<1>1. Cover(ToSet(list'[s])) = Cover(ToSet(list[s])) \cup Run(a, n)
      /\ Run(a, n) \cap Cover(ToSet(list[s])) = {}
  BY Zenon DEF Mine
<1>2. a \in 0..(Size - n)
  BY AddrAllocAssumption
<1>3. a \in Pool(s)!CanHold(n)
  BY <1>1, <1>2 DEF Pool!CanHold, Pool!Run, Run
<1> QED
  BY <1>1, <1>3 DEF Pool!Alloc, Pool!Run, Run, Pool!NoCall, NoCall, Given

LEMMA PoolRefuses ==
    ASSUME NEW s \in Stations, s \in sound, s \in sound', call[s] = NoCall, NEW n \in Nat,
           n > Size \/ Full(list[s], n), Mine(s)' = Mine(s),
           call'[s] = [op |-> "refused", at |-> 0, len |-> n]
    PROVE  Pool(s)!Alloc(n)
<1>1. Cover(ToSet(list'[s])) = Cover(ToSet(list[s]))
  BY Zenon DEF Mine
<1>2. n > Size \/ Pool(s)!CanHold(n) = {}
  <2>1. CASE Full(list[s], n)
    BY <2>1 DEF Full, Pool!CanHold, Pool!Run, Run
  <2> QED
    BY <2>1
<1> QED
  BY <1>1, <1>2 DEF Pool!Alloc, Pool!NoCall, NoCall

LEMMA PoolFrees ==
    ASSUME NEW s \in Stations, s \in sound, s \in sound', call[s] = NoCall, NEW n \in Nat, NEW a \in Nat,
           Run(a, n) \subseteq Mine(s), Mine(s)' = Mine(s) \ Run(a, n), call'[s] = Released(a, n)
    PROVE  Pool(s)!Free(a, n)
<1>1. Cover(ToSet(list'[s])) = Cover(ToSet(list[s])) \ Run(a, n)
      /\ Run(a, n) \subseteq Cover(ToSet(list[s]))
  BY Zenon DEF Mine
<1> QED
  BY <1>1 DEF Pool!Free, Pool!Run, Run, Pool!NoCall, NoCall, Released

LEMMA PoolKeeps ==
    ASSUME NEW s \in Stations, s \in sound, s \in sound', call[s] = NoCall, NEW n \in Nat, NEW a \in Nat,
           n > 0 => ~(Run(a, n) \subseteq Mine(s)), Mine(s)' = Mine(s),
           call'[s] = [op |-> "kept", at |-> a, len |-> n]
    PROVE  Pool(s)!Free(a, n)
<1>1. Cover(ToSet(list'[s])) = Cover(ToSet(list[s]))
      /\ (n > 0 => ~(Run(a, n) \subseteq Cover(ToSet(list[s]))))
  BY Zenon DEF Mine
<1> QED
  BY <1>1 DEF Pool!Free, Pool!Run, Run, Pool!NoCall, NoCall

\* A call that begins leaves the other handles alone.
LEMMA BeginOthers ==
    ASSUME Types, NEW u \in Stations, NEW c, NEW m, NEW td, Begin(u, c, m, td)
    PROVE  /\ list'[u] = m /\ call'[u] = c
           /\ \A s \in Stations : s # u => Mine(s)' = Mine(s) /\ call'[s] = call[s]
<1>1. /\ list' = [list EXCEPT ![u] = m] /\ call' = [call EXCEPT ![u] = c]
      /\ list \in [Stations -> Lists] /\ call \in [Stations -> Calls]
  BY DEF Begin, Types
<1>2. list'[u] = m /\ \A s \in Stations : s # u => list'[s] = list[s]
  BY <1>1
<1>3. call'[u] = c /\ \A s \in Stations : s # u => call'[s] = call[s]
  BY <1>1
<1>4. \A s \in Stations : s # u => Mine(s)' = Mine(s)
  BY <1>2, Zenon DEF Mine
<1> QED
  BY <1>2, <1>3, <1>4

LEMMA AllocPool ==
    ASSUME AddrInv, NEW u \in Stations, NEW n \in Asked, Alloc(u, n), NEW s \in Stations
    PROVE  Pool(s)!Alloc(n) \/ UNCHANGED Pool(s)!vars
<1>0. Types /\ SoundSorted /\ Ready(u) /\ u \in sound /\ call[u] = NoCall /\ sound' = sound
  BY Zenon DEF AddrInv, Alloc, Ready, history
<1>1. n \in Nat /\ list[u] \in Lists /\ Sorted(list[u])
  BY <1>0, AddrAllocAssumption, StationTypes DEF SoundSorted
<1>2. Granted(u, n) \/ (Refuse(u, n) /\ (n > Size \/ Full(list[u], n)))
  BY <1>1, AllocBegins
<1>3. CASE Granted(u, n)
  <2>1. PICK a, m, td : Gives(list[u], m, td, a, n) /\ Begin(u, Given(a, n), m, td)
    BY <1>3, Zenon DEF Granted
  <2>2. /\ list'[u] = m /\ call'[u] = Given(a, n)
        /\ \A t \in Stations : t # u => Mine(t)' = Mine(t) /\ call'[t] = call[t]
    BY <1>0, <2>1, BeginOthers
  <2>3. CASE s # u
    BY <2>2, <2>3, <1>0, PoolStays
  <2>4. CASE s = u
    <3>1. Mine(u)' = Mine(u) \cup Run(a, n) /\ Run(a, n) \cap Mine(u) = {} /\ a \in Nat /\ a + n <= Size
      BY <2>1, <2>2, Zenon DEF Mine, Gives
    <3> QED
      BY <2>2, <2>4, <3>1, <1>0, <1>1, PoolGives
  <2> QED
    BY <2>3, <2>4
<1>4. CASE Refuse(u, n) /\ (n > Size \/ Full(list[u], n))
  <2> DEFINE c == [op |-> "refused", at |-> 0, len |-> n]
  <2>1. Begin(u, c, list[u], <<>>)
    BY <1>4, Zenon DEF Refuse
  <2>2. c = [op |-> "refused", at |-> 0, len |-> n]
    OBVIOUS
  <2> HIDE DEF c
  <2>3. /\ list'[u] = list[u] /\ call'[u] = c
        /\ \A t \in Stations : t # u => Mine(t)' = Mine(t) /\ call'[t] = call[t]
    BY <1>0, <2>1, BeginOthers
  <2>4. CASE s # u
    BY <2>3, <2>4, <1>0, PoolStays
  <2>5. CASE s = u
    <3>1. Mine(u)' = Mine(u)
      BY <2>3, Zenon DEF Mine
    <3>2. call'[u] = [op |-> "refused", at |-> 0, len |-> n]
      BY <2>2, <2>3, Zenon
    <3> QED
      BY <2>5, <3>1, <3>2, <1>0, <1>1, <1>4, PoolRefuses
  <2> QED
    BY <2>4, <2>5
<1> QED
  BY <1>2, <1>3, <1>4, Zenon

LEMMA FreePool ==
    ASSUME AddrInv, NEW u \in Stations, NEW n \in Freed, NEW a \in Space, Free(u, a, n), NEW s \in Stations
    PROVE  Pool(s)!Free(a, n) \/ Pool(s)!Close \/ UNCHANGED Pool(s)!vars
<1>0. Types /\ SoundSorted /\ Ready(u) /\ u \in sound /\ call[u] = NoCall
  BY Zenon DEF AddrInv, Free, Ready
<1>1. n \in Nat /\ a \in Nat /\ list[u] \in Lists /\ Sorted(list[u])
  <2>1. a \in Nat
    BY AddrAllocAssumption DEF Space
  <2> QED
    BY <2>1, <1>0, AddrAllocAssumption, StationTypes DEF SoundSorted
<1>2. \/ /\ Keep(u, a, n) /\ sound' = sound
         /\ n > 0 => ~(Run(a, n) \subseteq Cover(ToSet(list[u])))
      \/ Freeing(u, a, n) /\ sound' = sound
      \/ (\E m, td : Shape(m, td) /\ Begin(u, Released(a, n), m, td)) /\ sound' = sound \ {u}
  BY <1>1, FreeBegins, Zenon
<1>3. CASE /\ Keep(u, a, n) /\ sound' = sound
           /\ n > 0 => ~(Run(a, n) \subseteq Cover(ToSet(list[u])))
  <2> DEFINE c == [op |-> "kept", at |-> a, len |-> n]
  <2>1. Begin(u, c, list[u], <<>>)
    BY <1>3, Zenon DEF Keep
  <2>2. c = [op |-> "kept", at |-> a, len |-> n]
    OBVIOUS
  <2> HIDE DEF c
  <2>3. /\ list'[u] = list[u] /\ call'[u] = c
        /\ \A t \in Stations : t # u => Mine(t)' = Mine(t) /\ call'[t] = call[t]
    BY <1>0, <2>1, BeginOthers
  <2>4. CASE s # u
    BY <2>3, <2>4, <1>3, PoolStays
  <2>5. CASE s = u
    <3>1. Mine(u)' = Mine(u) /\ (n > 0 => ~(Run(a, n) \subseteq Mine(u)))
      BY <2>3, <1>3, Zenon DEF Mine
    <3>2. call'[u] = [op |-> "kept", at |-> a, len |-> n]
      BY <2>2, <2>3, Zenon
    <3>3. u \in sound'
      BY <1>0, <1>3
    <3> QED
      BY <2>5, <3>1, <3>2, <3>3, <1>0, <1>1, PoolKeeps
  <2> QED
    BY <2>4, <2>5
<1>4. CASE Freeing(u, a, n) /\ sound' = sound
  <2>1. PICK m, td : TakesOut(list[u], m, td, a, n) /\ Begin(u, Released(a, n), m, td)
    BY <1>4, Zenon DEF Freeing, Released
  <2>2. /\ list'[u] = m /\ call'[u] = Released(a, n)
        /\ \A t \in Stations : t # u => Mine(t)' = Mine(t) /\ call'[t] = call[t]
    BY <1>0, <2>1, BeginOthers
  <2>3. CASE s # u
    BY <2>2, <2>3, <1>4, PoolStays
  <2>4. CASE s = u
    <3>1. Mine(u)' = Mine(u) \ Run(a, n) /\ Run(a, n) \subseteq Mine(u)
      BY <2>1, <2>2, Zenon DEF Mine, TakesOut
    <3>2. u \in sound'
      BY <1>0, <1>4
    <3> QED
      BY <2>2, <2>4, <3>1, <3>2, <1>0, <1>1, PoolFrees
  <2> QED
    BY <2>3, <2>4
<1>5. CASE (\E m, td : Shape(m, td) /\ Begin(u, Released(a, n), m, td)) /\ sound' = sound \ {u}
  <2>1. PICK m, td : Begin(u, Released(a, n), m, td)
    BY <1>5, Zenon
  <2>2. \A t \in Stations : t # u => Mine(t)' = Mine(t) /\ call'[t] = call[t]
    BY <1>0, <2>1, BeginOthers
  <2>3. CASE s # u
    BY <2>2, <2>3, <1>5, PoolStays
  <2>4. CASE s = u
    BY <2>4, <1>0, <1>5, PoolCloses
  <2> QED
    BY <2>3, <2>4
<1> QED
  BY <1>2, <1>3, <1>4, <1>5, Zenon

\* The steps that are no begin of a call.
LEMMA OtherPool ==
    ASSUME AddrInv, NEW u \in Stations, NEW s \in Stations,
           \/ Fetch(u) \/ Deinit(u) \/ Crash(u) \/ Return(u)
           \/ \E fails \in BOOLEAN : Execute(u, fails)
    PROVE  Pool(s)!Open \/ Pool(s)!Close \/ Pool(s)!Return \/ UNCHANGED Pool(s)!vars
<1>0. /\ Types /\ Idle /\ Pending
      /\ list \in [Stations -> Lists] /\ call \in [Stations -> Calls]
  BY DEF AddrInv, Types
<1>1. CASE Fetch(u)
  <2>1. PICK l \in SetToSeqs(table) :
          /\ \A k \in 1..(Len(l) - 1) : ~Below(l[k + 1], l[k])
          /\ list' = [list EXCEPT ![u] = l]
    BY <1>1, Zenon DEF Fetch
  <2>2. /\ u \notin open /\ call' = call
        /\ sound' = IF Apart(table) THEN sound \cup {u} ELSE sound
    BY <1>1 DEF Fetch
  <2>3. list'[u] = l /\ \A t \in Stations : t # u => list'[t] = list[t]
    BY <2>1, <1>0
  <2>4. CASE s # u \/ ~Apart(table)
    <3>1. (s \in sound' <=> s \in sound) /\ (s \in sound => s # u)
      BY <2>2, <2>4, <1>0 DEF Types
    <3>2. s \in sound => Mine(s)' = Mine(s) /\ call'[s] = call[s]
      BY <3>1, <2>2, <2>3, Zenon DEF Mine
    <3> QED
      BY <3>1, <3>2, PoolStays
  <2>5. CASE s = u /\ Apart(table)
    <3>1. s \notin sound /\ s \in sound' /\ call'[s] = NoCall
      BY <2>2, <2>5, <1>0 DEF Types, Idle
    <3>2. table \in SUBSET Good /\ IsFiniteSet(table)
      BY <1>0 DEF Types
    <3>3. ToSet(l) = table
      BY <3>2, <2>1, <2>5, FetchedList
    <3>4. Cover(table) \subseteq Space
      BY <3>2, CoverInSpace
    <3>5. Mine(s)' = Cover(table)
      BY <2>3, <2>5, <3>3, Zenon DEF Mine
    <3>6. Mine(s)' \subseteq Space
      BY <3>4, <3>5
    <3> QED
      BY <3>1, <3>6, PoolOpens
  <2> QED
    BY <2>4, <2>5
<1>2. CASE Deinit(u) \/ Crash(u)
  <2>1. /\ list' = [list EXCEPT ![u] = <<>>] /\ call' = [call EXCEPT ![u] = NoCall]
        /\ sound' = sound \ {u}
    BY <1>2, Zenon DEF Deinit, Crash, Leave
  <2>2. CASE s # u
    <3>1. s \in sound' <=> s \in sound
      BY <2>1, <2>2
    <3>2. list'[s] = list[s] /\ call'[s] = call[s]
      BY <2>1, <2>2, <1>0
    <3>3. Mine(s)' = Mine(s)
      BY <3>2, Zenon DEF Mine
    <3> QED
      BY <3>1, <3>2, <3>3, PoolStays
  <2>3. CASE s = u /\ s \in sound
    BY <2>1, <2>3, PoolCloses
  <2>4. CASE s = u /\ s \notin sound
    BY <2>1, <2>4, PoolStays
  <2> QED
    BY <2>2, <2>3, <2>4
<1>3. CASE Return(u)
  <2>1. /\ call[u] # NoCall /\ call' = [call EXCEPT ![u] = NoCall] /\ list' = list /\ sound' = sound
    BY <1>3 DEF Return
  <2>2. Mine(s)' = Mine(s)
    BY <2>1, Zenon DEF Mine
  <2>3. CASE s # u
    <3>1. call'[s] = call[s]
      BY <2>1, <2>3, <1>0
    <3> QED
      BY <2>1, <2>2, <3>1, PoolStays
  <2>4. CASE s = u /\ s \in sound
    <3>1. call'[s] = NoCall
      BY <2>1, <2>4, <1>0
    <3> QED
      BY <2>1, <2>2, <2>4, <3>1, PoolReturns
  <2>5. CASE s = u /\ s \notin sound
    BY <2>1, <2>5, PoolStays
  <2> QED
    BY <2>3, <2>4, <2>5
<1>4. CASE \E fails \in BOOLEAN : Execute(u, fails)
  <2>1. PICK fails \in BOOLEAN : Execute(u, fails)
    BY <1>4
  <2>2. /\ call' = call /\ sound' = sound /\ Mine(u)' = Mine(u)
        /\ \A t \in Stations : t # u => Same(t)
    BY <2>1, <1>0, ExecuteFrame
  <2>3. Mine(s)' = Mine(s)
    BY <2>2, SameSets
  <2> QED
    BY <2>2, <2>3, PoolStays
<1> QED
  BY <1>1, <1>2, <1>3, <1>4

LEMMA PoolStep ==
    ASSUME AddrInv, [Next]_vars, NEW s \in Stations
    PROVE  [Pool(s)!Next]_(Pool(s)!vars)
<1>1. CASE UNCHANGED vars
  <2>1. list' = list /\ call' = call /\ sound' = sound
    BY <1>1 DEF vars, handles, history
  <2>2. Mine(s)' = Mine(s)
    BY <2>1, Zenon DEF Mine
  <2> QED
    BY <2>1, <2>2, PoolStays
<1>2. CASE Next
  <2>1. PICK u \in Stations :
            \/ Fetch(u) \/ Deinit(u) \/ Crash(u) \/ Return(u)
            \/ \E n \in Asked : Alloc(u, n)
            \/ \E n \in Freed, a \in Space : MayFree(u, a, n) /\ Free(u, a, n)
            \/ \E fails \in BOOLEAN : Execute(u, fails)
    BY <1>2, Zenon DEF Next
  <2>2. CASE \E n \in Asked : Alloc(u, n)
    <3>1. PICK n \in Asked : Alloc(u, n)
      BY <2>2
    <3>2. Pool(s)!Alloc(n) \/ UNCHANGED Pool(s)!vars
      BY <3>1, AllocPool
    <3> QED
      BY <3>2, Zenon DEF Pool!Next
  <2>3. CASE \E n \in Freed, a \in Space : MayFree(u, a, n) /\ Free(u, a, n)
    <3>1. PICK n \in Freed, a \in Space : Free(u, a, n)
      BY <2>3
    <3>2. Pool(s)!Free(a, n) \/ Pool(s)!Close \/ UNCHANGED Pool(s)!vars
      BY <3>1, FreePool
    <3>3. a \in 0..Size
      BY AddrAllocAssumption DEF Space
    <3> QED
      BY <3>2, <3>3, Zenon DEF Pool!Next
  <2>4. CASE \/ Fetch(u) \/ Deinit(u) \/ Crash(u) \/ Return(u)
             \/ \E fails \in BOOLEAN : Execute(u, fails)
    <3>1. Pool(s)!Open \/ Pool(s)!Close \/ Pool(s)!Return \/ UNCHANGED Pool(s)!vars
      BY <2>4, OtherPool
    <3> QED
      BY <3>1, Zenon DEF Pool!Next
  <2> QED
    BY <2>1, <2>2, <2>3, <2>4
<1> QED
  BY <1>1, <1>2

\* Every handle fetched from sound rows implements the pool of addresses: addr_alloc takes
\* a run of free addresses whenever there is one, and addr_free takes back any run in use.
THEOREM EveryHandleIsPool == Spec => HandleIsPool
<1>1. Init => \A s \in Stations : Pool(s)!Init
  BY DEF Init, Pool!Init, Pool!NoCall, NoCall
<1>2. AddrInv /\ [Next]_vars => [\A s \in Stations : [Pool(s)!Next]_(Pool(s)!vars)]_vars
  BY PoolStep
<1>3. Spec => [][\A s \in Stations : [Pool(s)!Next]_(Pool(s)!vars)]_vars
  BY <1>2, AlwaysInv, PTL DEF Spec
<1> QED
  BY <1>1, <1>3 DEF HandleIsPool, Spec

=============================================================================
