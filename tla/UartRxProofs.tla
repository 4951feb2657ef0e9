---------------------------- MODULE UartRxProofs ----------------------------
(***************************************************************************)
(* Proofs about UartRx for any bytes, any size of the buffer and any cuts   *)
(* of the stream into reads: the search of the buffer, with its memmoves    *)
(* and the stale bytes behind the length, finds exactly the frames that     *)
(* FrameParsing finds in the bytes of one read.                             *)
(***************************************************************************)
EXTENDS UartRx, WellFoundedInduction, SequenceTheorems, TLAPS

-----------------------------------------------------------------------------
(* Numbers and sequences                                                    *)

\* A set that has 0 and the successor of each of its numbers has every number.
LEMMA Induction ==
    ASSUME NEW S, 0 \in S, \A n \in Nat : n \in S => n + 1 \in S
    PROVE  \A n \in Nat : n \in S
<1> DEFINE T == Nat \ S
<1> SUFFICES ASSUME T # {}
             PROVE  FALSE
  OBVIOUS
<1>1. PICK m \in T : \A y \in T : ~(<<y, m>> \in OpToRel(<, Nat))
  BY WFMin, NatLessThanWellFounded, Zenon
<1>2. m \in Nat /\ m # 0
  OBVIOUS
<1>3. m - 1 \in Nat /\ m - 1 < m
  BY <1>2
<1>4. m - 1 \in S
  BY <1>1, <1>3 DEF OpToRel
<1>5. m - 1 + 1 \in S
  BY <1>3, <1>4
<1> QED
  BY <1>2, <1>5

\* A set of numbers that is not empty has a least one.
LEMMA LeastExists ==
    ASSUME NEW S \in SUBSET Nat, S # {}
    PROVE  Min(S) \in S /\ \A y \in S : Min(S) <= y
<1>1. PICK m \in S : \A y \in S : ~(<<y, m>> \in OpToRel(<, Nat))
  BY WFMin, NatLessThanWellFounded, Zenon
<1>2. ASSUME NEW y \in S
      PROVE  m <= y
  <2>1. m \in Nat /\ y \in Nat
    OBVIOUS
  <2>2. y < m => <<y, m>> \in OpToRel(<, Nat)
    BY <2>1 DEF OpToRel
  <2>3. ~(y < m)
    BY <1>1, <2>2, Zenon
  <2> QED
    BY <2>1, <2>3
<1> QED
  BY <1>2, Zenon DEF Min

\* A piece of a sequence.
LEMMA Piece ==
    ASSUME NEW T, NEW s \in Seq(T), NEW a \in 1..(Len(s) + 1), NEW b \in (a - 1)..Len(s)
    PROVE  /\ SubSeq(s, a, b) \in Seq(T)
           /\ Len(SubSeq(s, a, b)) = b - a + 1
           /\ \A k \in 1..(b - a + 1) : SubSeq(s, a, b)[k] = s[a + k - 1]
<1>1. Len(s) \in Nat /\ \A i \in a..b : s[i] \in T
  <2>1. Len(s) \in Nat /\ s \in [1..Len(s) -> T]
    OBVIOUS
  <2>2. \A i \in a..b : i \in 1..Len(s)
    BY <2>1
  <2> QED
    BY <2>1, <2>2
<1>2. a \in Int /\ b \in Int
  BY <1>1
<1>3. /\ SubSeq(s, a, b) \in Seq(T)
      /\ Len(SubSeq(s, a, b)) = IF a <= b THEN b - a + 1 ELSE 0
      /\ \A k \in 1..(b - a + 1) : SubSeq(s, a, b)[k] = s[a + k - 1]
  BY <1>1, <1>2, SubSeqProperties
<1>4. a <= b \/ b - a + 1 = 0
  BY <1>1, <1>2
<1> QED
  BY <1>3, <1>4

-----------------------------------------------------------------------------
(* Headers and frames in a piece of the stream                              *)

LEMMA NextHeaderIs ==
    ASSUME NEW s \in Seq(Nat), NEW p \in 1..(Len(s) + 1)
    PROVE  /\ NextHeader(s, p) \in p..(Len(s) + 1)
           /\ NextHeader(s, p) <= Len(s) => HeaderAt(s, NextHeader(s, p))
           /\ \A q \in p..Len(s) : HeaderAt(s, q) => NextHeader(s, p) <= q
<1> DEFINE hs == {q \in p..Len(s) : HeaderAt(s, q)}
<1>1. Len(s) \in Nat /\ p \in Nat /\ p >= 1 /\ p <= Len(s) + 1
  OBVIOUS
<1>2. CASE hs = {}
  <2>1. NextHeader(s, p) = Len(s) + 1
    BY <1>2 DEF NextHeader
  <2> QED
    BY <1>1, <1>2, <2>1
<1>3. CASE hs # {}
  <2>1. NextHeader(s, p) = Min(hs)
    BY <1>3 DEF NextHeader
  <2>2. hs \in SUBSET Nat
    BY <1>1
  <2>3. Min(hs) \in hs /\ \A y \in hs : Min(hs) <= y
    <3> HIDE DEF hs
    <3> QED
      BY <1>3, <2>2, LeastExists
  <2> QED
    BY <1>1, <2>1, <2>3
<1> QED
  BY <1>2, <1>3

\* A complete frame ends inside the piece, behind its four bytes of header.
LEMMA FrameEndIs ==
    ASSUME NEW s \in Seq(Nat), NEW p \in 1..Len(s), CompleteAt(s, p)
    PROVE  FrameEnd(s, p) \in (p + 3)..Len(s)
<1>1. Len(s) \in Nat /\ p + 2 \in 1..Len(s) /\ p + 3 \in 1..Len(s)
  BY DEF CompleteAt
<1>2. s[p + 2] \in Nat /\ s[p + 3] \in Nat
  BY <1>1
<1>3. p + 3 + s[p + 2] + 256 * s[p + 3] <= Len(s)
  BY DEF CompleteAt
<1> DEFINE a == s[p + 2]
           b == 256 * s[p + 3]
<1>4. a \in Nat /\ b \in Nat
  BY <1>2
<1> HIDE DEF a, b
<1>5. FrameEnd(s, p) = p + 3 + a + b /\ p + 3 + a + b <= Len(s)
  BY <1>3 DEF FrameEnd, a, b
<1> QED
  BY <1>1, <1>4, <1>5

\* A function whose value at a place follows from its value at a later place.
LEMMA RecursionUp ==
    ASSUME NEW n \in Nat, NEW hd \in [1..(n + 1) -> Nat], NEW nx \in [1..(n + 1) -> Nat],
           \A p \in 1..(n + 1) : nx[p] # 0 => p < nx[p] /\ nx[p] <= n + 1
    PROVE  \E g \in [1..(n + 1) -> Seq(Nat)] :
              \A p \in 1..(n + 1) : g[p] = IF nx[p] = 0 THEN <<>> ELSE <<hd[p]>> \o g[nx[p]]
<1> DEFINE D == 1..(n + 1)
           Val(g, p) == IF nx[p] = 0 THEN <<>> ELSE <<hd[p]>> \o g[nx[p]]
           From(m) == \E g \in [D -> Seq(Nat)] : \A p \in D : p > n + 1 - m => g[p] = Val(g, p)
           Good == {m \in Nat : m <= n + 1 => From(m)}
<1>1. From(0)
  <2> DEFINE g == [p \in D |-> <<>>]
  <2>1. g \in [D -> Seq(Nat)] /\ \A p \in D : ~(p > n + 1 - 0)
    OBVIOUS
  <2> QED
    BY <2>1, Zenon
<1>2. ASSUME NEW m \in Nat, From(m), m + 1 <= n + 1
      PROVE  From(m + 1)
  <2>1. PICK g \in [D -> Seq(Nat)] : \A p \in D : p > n + 1 - m => g[p] = Val(g, p)
    BY <1>2, Zenon
  <2> DEFINE q == n + 1 - m
  <2>2. q \in D /\ \A p \in D : p > n + 1 - (m + 1) => p = q \/ p > q
    BY <1>2
  <2>3. Val(g, q) \in Seq(Nat)
    <3>1. nx[q] # 0 => nx[q] \in D
      BY <2>2
    <3>2. nx[q] # 0 => g[nx[q]] \in Seq(Nat) /\ <<hd[q]>> \in Seq(Nat)
      BY <2>2, <3>1
    <3> HIDE DEF q, D
    <3>3. CASE nx[q] = 0
      BY <3>3
    <3>4. CASE nx[q] # 0
      BY <3>2, <3>4, ConcatProperties
    <3> QED
      BY <3>3, <3>4
  <2> DEFINE h == [g EXCEPT ![q] = Val(g, q)]
  <2>4. h \in [D -> Seq(Nat)] /\ h[q] = Val(g, q) /\ \A p \in D : p # q => h[p] = g[p]
    <3> HIDE DEF Val, D, q
    <3> QED
      BY <2>2, <2>3
  <2>5. ASSUME NEW p \in D, p >= q
        PROVE  Val(h, p) = Val(g, p)
    <3>1. nx[p] # 0 => nx[p] \in D /\ nx[p] # q
      BY <2>2, <2>5
    <3>2. nx[p] # 0 => h[nx[p]] = g[nx[p]]
      BY <2>4, <3>1
    <3> HIDE DEF h
    <3> QED
      BY <3>2, Zenon
  <2>6. ASSUME NEW p \in D, p > n + 1 - (m + 1)
        PROVE  h[p] = Val(h, p)
    <3>1. CASE p = q
      <4>1. Val(h, q) = Val(g, q)
        BY <2>2, <2>5
      <4> HIDE DEF h, Val, q
      <4> QED
        BY <2>4, <3>1, <4>1
    <3>2. CASE p > q
      <4>1. p # q /\ p >= q
        BY <3>2, <2>2
      <4>2. Val(h, p) = Val(g, p)
        BY <2>5, <4>1
      <4>3. g[p] = Val(g, p)
        BY <2>1, <3>2
      <4> HIDE DEF h, Val, q
      <4> QED
        BY <2>4, <4>1, <4>2, <4>3
    <3> QED
      BY <2>2, <2>6, <3>1, <3>2
  <2> HIDE DEF h, Val
  <2> QED
    BY <2>4, <2>6
<1> HIDE DEF From
<1>3. 0 \in Good /\ \A m \in Nat : m \in Good => m + 1 \in Good
  BY <1>1, <1>2
<1>4. n + 1 \in Good
  BY <1>3, Induction
<1>5. From(n + 1)
  BY <1>4
<1>6. \A p \in D : p > n + 1 - (n + 1)
  OBVIOUS
<1> QED
  BY <1>5, <1>6, Zenon DEF From

\* Where the search goes on after the first frame at p or behind it; 0 if there is none.
After(s, p) ==
    LET h == NextHeader(s, p)
    IN  IF h > Len(s) \/ ~CompleteAt(s, h) THEN 0 ELSE FrameEnd(s, h) + 1

LEMMA AfterIs ==
    ASSUME NEW s \in Seq(Nat), NEW p \in 1..(Len(s) + 1)
    PROVE  /\ After(s, p) \in Nat
           /\ After(s, p) # 0 => /\ NextHeader(s, p) \in p..Len(s)
                                 /\ CompleteAt(s, NextHeader(s, p))
                                 /\ After(s, p) = FrameEnd(s, NextHeader(s, p)) + 1
                                 /\ NextHeader(s, p) + 3 < After(s, p)
                                 /\ After(s, p) <= Len(s) + 1
           /\ After(s, p) = 0 => NextHeader(s, p) > Len(s) \/ ~CompleteAt(s, NextHeader(s, p))
<1> DEFINE h == NextHeader(s, p)
<1>1. Len(s) \in Nat /\ h \in p..(Len(s) + 1) /\ h \in Nat
  BY NextHeaderIs
<1>2. CASE h > Len(s) \/ ~CompleteAt(s, h)
  <2>1. After(s, p) = 0
    BY <1>2, Zenon DEF After
  <2> QED
    BY <1>2, <2>1
<1>3. CASE ~(h > Len(s) \/ ~CompleteAt(s, h))
  <2>1. After(s, p) = FrameEnd(s, h) + 1
    BY <1>3, Zenon DEF After
  <2>2. h \in p..Len(s) /\ h \in 1..Len(s) /\ CompleteAt(s, h)
    BY <1>1, <1>3
  <2> HIDE DEF h
  <2>3. FrameEnd(s, h) \in (h + 3)..Len(s)
    BY <2>2, FrameEndIs
  <2>4. FrameEnd(s, h) \in Nat /\ h \in Nat
    BY <1>1, <2>3
  <2> QED
    BY <1>1, <2>1, <2>2, <2>3, <2>4 DEF h
<1> QED
  BY <1>2, <1>3

\* The recursive function inside FrameStarts.
Follows(s, f) ==
    f = [p \in 1..(Len(s) + 1) |->
            IF NextHeader(s, p) > Len(s) \/ ~CompleteAt(s, NextHeader(s, p)) THEN <<>>
            ELSE <<NextHeader(s, p)>> \o f[FrameEnd(s, NextHeader(s, p)) + 1]]
StartsFrom(s) == CHOOSE f : Follows(s, f)

LEMMA StartsAre == \A s : FrameStarts(s) = StartsFrom(s)[1]
BY Zenon DEF FrameStarts, StartsFrom, Follows

\* Where the frames at p or behind it begin: none, or the first and those that begin after it.
LEMMA StartsFromIs ==
    ASSUME NEW s \in Seq(Nat)
    PROVE  /\ StartsFrom(s) \in [1..(Len(s) + 1) -> Seq(Nat)]
           /\ \A p \in 1..(Len(s) + 1) :
                 StartsFrom(s)[p] = IF After(s, p) = 0 THEN <<>>
                                    ELSE <<NextHeader(s, p)>> \o StartsFrom(s)[After(s, p)]
<1> DEFINE n == Len(s)
           D == 1..(n + 1)
           hd == [p \in D |-> NextHeader(s, p)]
           nx == [p \in D |-> After(s, p)]
           Val(f, p) == IF NextHeader(s, p) > n \/ ~CompleteAt(s, NextHeader(s, p)) THEN <<>>
                        ELSE <<NextHeader(s, p)>> \o f[FrameEnd(s, NextHeader(s, p)) + 1]
           Short(f, p) == IF After(s, p) = 0 THEN <<>> ELSE <<NextHeader(s, p)>> \o f[After(s, p)]
<1>1. n \in Nat
  OBVIOUS
<1>2. hd \in [D -> Nat] /\ nx \in [D -> Nat]
      /\ \A p \in D : nx[p] # 0 => p < nx[p] /\ nx[p] <= n + 1
  <2>1. ASSUME NEW p \in D
        PROVE  /\ NextHeader(s, p) \in Nat /\ After(s, p) \in Nat
               /\ After(s, p) # 0 => p < After(s, p) /\ After(s, p) <= n + 1
    <3>1. NextHeader(s, p) \in p..(n + 1)
      BY NextHeaderIs
    <3>2. /\ After(s, p) \in Nat
          /\ After(s, p) # 0 => NextHeader(s, p) + 3 < After(s, p) /\ After(s, p) <= n + 1
      BY AfterIs
    <3> QED
      BY <1>1, <3>1, <3>2
  <2> HIDE DEF D
  <2> QED
    BY <2>1
<1>3. ASSUME NEW f, NEW p \in D
      PROVE  Val(f, p) = Short(f, p)
  <2>1. /\ After(s, p) # 0 => /\ NextHeader(s, p) \in p..n /\ CompleteAt(s, NextHeader(s, p))
                              /\ After(s, p) = FrameEnd(s, NextHeader(s, p)) + 1
        /\ After(s, p) = 0 => NextHeader(s, p) > n \/ ~CompleteAt(s, NextHeader(s, p))
    BY AfterIs
  <2>2. NextHeader(s, p) \in p..n => ~(NextHeader(s, p) > n)
    BY <1>1
  <2> QED
    BY <2>1, <2>2, Zenon
<1>4. PICK g \in [D -> Seq(Nat)] : \A p \in D : g[p] = IF nx[p] = 0 THEN <<>> ELSE <<hd[p]>> \o g[nx[p]]
  <2> HIDE DEF hd, nx, n
  <2> QED
    BY <1>1, <1>2, RecursionUp, Zenon DEF D
<1>5. \A p \in D : g[p] = Short(g, p)
  BY <1>4, Zenon
<1>6. Follows(s, g)
  <2>1. \A p \in D : g[p] = Val(g, p)
    BY <1>3, <1>5, Zenon
  <2>2. g = [p \in D |-> g[p]]
    BY <1>4
  <2>3. g = [p \in D |-> Val(g, p)]
    <3> HIDE DEF Val, D
    <3> QED
      BY <2>1, <2>2
  <2> QED
    BY <2>3, Zenon DEF Follows
<1> DEFINE f == StartsFrom(s)
<1>7. Follows(s, f)
  BY <1>6, Zenon DEF StartsFrom
<1>8. f = [p \in D |-> Val(f, p)]
  BY <1>7, Zenon DEF Follows
<1> HIDE DEF f
<1>9. \A p \in D : f[p] = Short(f, p)
  <2> SUFFICES ASSUME NEW p \in D
               PROVE  f[p] = Short(f, p)
    OBVIOUS
  <2>1. f[p] = Val(f, p)
    <3> HIDE DEF Val, D
    <3> QED
      BY <1>8, Zenon
  <2> QED
    BY <1>3, <2>1, Zenon
<1>10. f \in [D -> Seq(Nat)]
  <2> DEFINE B == {m \in Nat : \A p \in D : p > n + 1 - m => f[p] \in Seq(Nat)}
  <2>1. 0 \in B
    BY <1>1
  <2>2. ASSUME NEW m \in Nat, m \in B
        PROVE  m + 1 \in B
    <3> SUFFICES ASSUME NEW p \in D, p > n + 1 - (m + 1)
                 PROVE  f[p] \in Seq(Nat)
      OBVIOUS
    <3>1. CASE After(s, p) = 0
      <4>1. f[p] = <<>>
        BY <1>9, <3>1
      <4> QED
        BY <4>1
    <3>2. CASE After(s, p) # 0
      <4>1. After(s, p) \in D /\ After(s, p) > n + 1 - m /\ NextHeader(s, p) \in Nat
        <5>1. p < After(s, p) /\ After(s, p) <= n + 1 /\ After(s, p) \in Nat /\ NextHeader(s, p) \in Nat
          BY <1>2, <3>2
        <5> QED
          BY <1>1, <5>1
      <4>2. f[After(s, p)] \in Seq(Nat)
        BY <2>2, <4>1
      <4>3. <<NextHeader(s, p)>> \in Seq(Nat)
        BY <4>1
      <4>4. f[p] = <<NextHeader(s, p)>> \o f[After(s, p)]
        BY <1>9, <3>2
      <4> QED
        BY <4>2, <4>3, <4>4, ConcatProperties
    <3> QED
      BY <3>1, <3>2
  <2>3. n + 1 \in B
    <3> HIDE DEF B
    <3> QED
      BY <1>1, <2>1, <2>2, Induction
  <2>4. \A p \in D : f[p] \in Seq(Nat)
    BY <1>1, <2>3
  <2>5. f = [p \in D |-> f[p]]
    BY <1>8
  <2> HIDE DEF D
  <2> QED
    BY <2>4, <2>5
<1> QED
  BY <1>9, <1>10, Zenon DEF f, D, n

-----------------------------------------------------------------------------
(* The search of the buffer                                                 *)

\* The buffer holds what is left of the read behind its first c bytes.
Holds(c) ==
    /\ c \in Nat
    /\ c + nlen = Len(chunk)
    /\ \A k \in 1..nlen : mem[k] = chunk[c + k]

\* Behind the bytes of a read that fills the buffer is the 0.
ZeroBehind == nlen = BufSize - 1 => mem[BufSize] = 0

\* The types the search relies on.
Buffer ==
    /\ chunk \in Seq(Nat) /\ mem \in [1..BufSize -> Nat]
    /\ nlen \in Nat /\ nlen <= BufSize - 1
    /\ BufSize \in Nat /\ BufSize > 1

\* A header in the buffer that is not cut off by its length is a header of the read, and the
\* other way round; a stale byte can only complete one at the last byte.
LEMMA MatchIs ==
    ASSUME Buffer, NEW c, Holds(c), NEW p \in 1..nlen
    PROVE  /\ p < nlen => (MatchAt(p) <=> HeaderAt(chunk, c + p))
           /\ p = nlen => ~HeaderAt(chunk, c + p)
<1>1. c \in Nat /\ nlen \in Nat /\ c + nlen = Len(chunk) /\ Len(chunk) \in Nat
  BY DEF Holds, Buffer
<1>2. ASSUME p < nlen
      PROVE  MatchAt(p) <=> HeaderAt(chunk, c + p)
  <2>1. p \in 1..nlen /\ p + 1 \in 1..nlen /\ c + p < Len(chunk) /\ c + (p + 1) = c + p + 1
    BY <1>1, <1>2
  <2>2. mem[p] = chunk[c + p] /\ mem[p + 1] = chunk[c + p + 1]
    BY <2>1 DEF Holds
  <2> QED
    BY <2>1, <2>2 DEF MatchAt, HeaderAt
<1>3. ASSUME p = nlen
      PROVE  ~HeaderAt(chunk, c + p)
  <2>1. ~(c + p < Len(chunk))
    BY <1>1, <1>3
  <2> QED
    BY <2>1 DEF HeaderAt
<1> QED
  BY <1>2, <1>3

LEMMA FoundIs ==
    ASSUME Buffer
    PROVE  /\ Found \in 0..nlen
           /\ Found = 0 => \A p \in 1..nlen : ~MatchAt(p)
           /\ Found # 0 => MatchAt(Found) /\ \A p \in 1..nlen : MatchAt(p) => Found <= p
<1> DEFINE ps == {p \in 1..nlen : MatchAt(p)}
<1>1. CASE ps = {}
  <2>1. Found = 0
    BY <1>1 DEF Found
  <2> QED
    BY <1>1, <2>1 DEF Buffer
<1>2. CASE ps # {}
  <2>1. Found = Min(ps)
    BY <1>2 DEF Found
  <2>2. Min(ps) \in ps /\ \A y \in ps : Min(ps) <= y
    <3>1. ps \in SUBSET Nat
      OBVIOUS
    <3> HIDE DEF ps
    <3> QED
      BY <1>2, <3>1, LeastExists
  <2>3. Found \in ps /\ \A y \in ps : Found <= y
    BY <2>1, <2>2
  <2> HIDE DEF Found
  <2>4. Found \in 1..nlen /\ MatchAt(Found) /\ Found # 0
    BY <2>3
  <2>5. \A p \in 1..nlen : MatchAt(p) => Found <= p
    BY <2>3
  <2> QED
    BY <2>4, <2>5
<1> QED
  BY <1>1, <1>2

\* The search finds the header FrameParsing finds; or none, or what looks like one at the
\* last byte, when there is none.
LEMMA SearchFinds ==
    ASSUME Buffer, ZeroBehind, Kind # 0, NEW c, Holds(c)
    PROVE  /\ c + 1 \in 1..(Len(chunk) + 1)
           /\ Found = 0 => NextHeader(chunk, c + 1) = Len(chunk) + 1
           /\ Found # 0 => \/ Found < nlen /\ NextHeader(chunk, c + 1) = c + Found
                           \/ Found = nlen /\ NextHeader(chunk, c + 1) = Len(chunk) + 1
           /\ Found # 0 => Found + 2 <= BufSize
<1> DEFINE h == NextHeader(chunk, c + 1)
           n == Len(chunk)
<1>1. c \in Nat /\ nlen \in Nat /\ c + nlen = n /\ n \in Nat /\ chunk \in Seq(Nat) /\ c + 1 \in 1..(n + 1)
  BY DEF Holds, Buffer
<1>2. /\ h \in (c + 1)..(n + 1)
      /\ h <= n => HeaderAt(chunk, h)
      /\ \A q \in (c + 1)..n : HeaderAt(chunk, q) => h <= q
  BY <1>1, NextHeaderIs
<1>3. /\ Found \in 0..nlen
      /\ Found = 0 => \A p \in 1..nlen : ~MatchAt(p)
      /\ Found # 0 => MatchAt(Found) /\ \A p \in 1..nlen : MatchAt(p) => Found <= p
  BY FoundIs
<1> HIDE DEF h, n
<1>4. ASSUME h <= n
      PROVE  h - c \in 1..nlen /\ h - c < nlen /\ MatchAt(h - c)
  <2>1. h - c \in 1..nlen /\ c + (h - c) = h
    BY <1>1, <1>2, <1>4
  <2>2. HeaderAt(chunk, c + (h - c))
    BY <1>2, <1>4, <2>1
  <2>3. h - c # nlen
    BY <2>1, <2>2, MatchIs
  <2>4. h - c < nlen
    BY <1>1, <2>1, <2>3
  <2> QED
    BY <2>1, <2>2, <2>4, MatchIs
<1>5. ASSUME Found = 0
      PROVE  h = n + 1
  <2>1. ~(h <= n)
    BY <1>3, <1>4, <1>5
  <2> QED
    BY <1>1, <1>2, <2>1
<1>6. ASSUME Found # 0, Found < nlen
      PROVE  h = c + Found
  <2>1. Found \in 1..nlen
    BY <1>3, <1>6
  <2>2. HeaderAt(chunk, c + Found)
    BY <1>3, <1>6, <2>1, MatchIs
  <2>3. c + Found \in (c + 1)..n
    BY <1>1, <2>1
  <2>4. h <= c + Found
    BY <1>2, <2>2, <2>3
  <2>5. h <= n /\ h \in Nat
    BY <1>1, <1>2, <2>3, <2>4
  <2>6. Found <= h - c
    BY <1>3, <1>4, <1>6, <2>5
  <2> QED
    BY <1>1, <2>1, <2>4, <2>5, <2>6
<1>7. ASSUME Found = nlen, Found # 0
      PROVE  h = n + 1
  <2>1. ~(h <= n)
    <3> SUFFICES ASSUME h <= n
                 PROVE  FALSE
      OBVIOUS
    <3>1. Found <= h - c /\ h - c < nlen /\ h - c \in Nat
      BY <1>3, <1>4, <1>7
    <3> QED
      BY <1>1, <1>7, <3>1
  <2> QED
    BY <1>1, <1>2, <2>1
<1>8. ASSUME Found # 0
      PROVE  Found + 2 <= BufSize
  <2>1. Found \in Nat /\ Found <= nlen /\ nlen <= BufSize - 1 /\ BufSize \in Nat
    BY <1>3 DEF Buffer
  <2>2. ~(Found = BufSize - 1)
    <3> SUFFICES ASSUME Found = BufSize - 1
                 PROVE  FALSE
      OBVIOUS
    <3>1. nlen = BufSize - 1 /\ Found + 1 = BufSize
      BY <1>1, <2>1
    <3>2. mem[Found + 1] = 0
      BY <3>1 DEF ZeroBehind
    <3> QED
      BY <1>3, <1>8, <3>2 DEF MatchAt
  <2> QED
    BY <1>1, <2>1, <2>2
<1>9. Found # 0 => \/ Found < nlen /\ h = c + Found
                   \/ Found = nlen /\ h = n + 1
  <2>1. Found # 0 => Found < nlen \/ Found = nlen
    BY <1>1, <1>3
  <2> QED
    BY <1>6, <1>7, <2>1
<1> QED
  BY <1>1, <1>5, <1>8, <1>9 DEF h, n

\* A frame is whole in the buffer if and only if it is complete in the read.
LEMMA WholeIs ==
    ASSUME Buffer, ZeroBehind, Kind # 0, NEW c, Holds(c), Found # 0
    PROVE  /\ FrameLen(Found) \in Nat
           /\ Whole(Found) <=> After(chunk, c + 1) # 0
           /\ Whole(Found) => /\ NextHeader(chunk, c + 1) = c + Found
                              /\ FrameEnd(chunk, c + Found) = c + Found + FrameLen(Found) - 1
                              /\ FrameLen(Found) >= 4
<1> DEFINE h == NextHeader(chunk, c + 1)
           n == Len(chunk)
           f == Found
<1>1. /\ c \in Nat /\ nlen \in Nat /\ c + nlen = n /\ n \in Nat /\ chunk \in Seq(Nat)
      /\ BufSize \in Nat /\ mem \in [1..BufSize -> Nat] /\ nlen <= BufSize - 1
  BY DEF Holds, Buffer
<1>2. f \in 0..nlen
  BY FoundIs
<1>3. /\ c + 1 \in 1..(n + 1) /\ f + 2 <= BufSize
      /\ \/ f < nlen /\ h = c + f
         \/ f = nlen /\ h = n + 1
  BY SearchFinds
<1> HIDE DEF h, n, f
<1>4. f \in Nat /\ f >= 1 /\ f <= nlen
  BY <1>1, <1>2 DEF f
<1>5. /\ After(chunk, c + 1) # 0 <=> h <= n /\ CompleteAt(chunk, h)
  <2>1. /\ After(chunk, c + 1) # 0 => h \in (c + 1)..n /\ CompleteAt(chunk, h)
        /\ After(chunk, c + 1) = 0 => h > n \/ ~CompleteAt(chunk, h)
    BY <1>1, <1>3, AfterIs DEF h, n
  <2>2. h \in Nat
    BY <1>1, <1>3, <1>4
  <2>3. h > n => ~(h <= n)
    BY <1>1, <2>2
  <2>4. h \in (c + 1)..n => h <= n
    BY <1>1
  <2> QED
    BY <2>1, <2>3, <2>4
<1> DEFINE a == mem[f + 2]
           b == 256 * (IF f + 3 \in DOMAIN mem THEN mem[f + 3] ELSE 0)
<1>6. a \in Nat /\ b \in Nat
  <2>1. f + 2 \in 1..BufSize
    BY <1>1, <1>3, <1>4
  <2>2. (IF f + 3 \in DOMAIN mem THEN mem[f + 3] ELSE 0) \in Nat
    BY <1>1
  <2> DEFINE x == IF f + 3 \in DOMAIN mem THEN mem[f + 3] ELSE 0
  <2>3. x \in Nat /\ b = 256 * x
    BY <2>2
  <2> HIDE DEF x
  <2>4. b \in Nat
    BY <2>3
  <2> QED
    BY <1>1, <2>1, <2>4
<1>7. FrameLen(f) = a + b + 4
  BY DEF FrameLen, LenField
<1>8. f + 3 <= nlen => /\ a = chunk[c + f + 2] /\ b = 256 * chunk[c + f + 3]
  <2> SUFFICES ASSUME f + 3 <= nlen
               PROVE  a = chunk[c + f + 2] /\ b = 256 * chunk[c + f + 3]
    OBVIOUS
  <2>1. f + 2 \in 1..nlen /\ f + 3 \in 1..nlen /\ f + 3 \in 1..BufSize
        /\ c + (f + 2) = c + f + 2 /\ c + (f + 3) = c + f + 3
    BY <1>1, <1>4
  <2>2. f + 3 \in DOMAIN mem
    BY <1>1, <2>1
  <2>3. mem[f + 2] = chunk[c + f + 2] /\ mem[f + 3] = chunk[c + f + 3]
    BY <2>1 DEF Holds
  <2> QED
    BY <2>2, <2>3
<1> HIDE DEF a, b
<1>9. FrameLen(f) \in Nat /\ FrameLen(f) >= 4
  BY <1>6, <1>7
<1>10. Whole(f) <=> a + b + 4 <= nlen - (f - 1)
  BY <1>7 DEF Whole
<1>11. Whole(f) => f + 3 <= nlen
  BY <1>1, <1>4, <1>6, <1>10
<1>12. ASSUME Whole(f)
       PROVE  h <= n /\ CompleteAt(chunk, h) /\ h = c + f /\ FrameEnd(chunk, c + f) = c + f + FrameLen(f) - 1
  <2>1. f < nlen /\ h = c + f /\ h <= n /\ f + 3 <= nlen
    BY <1>1, <1>3, <1>4, <1>11, <1>12
  <2>2. a + b + 4 <= nlen - (f - 1)
    BY <1>10, <1>12
  <2>3. h + 3 <= n /\ h + 3 + a + b <= n
    BY <1>1, <1>4, <1>6, <2>1, <2>2
  <2>4. CompleteAt(chunk, h)
    BY <1>8, <2>1, <2>3 DEF CompleteAt, n
  <2>5. FrameEnd(chunk, c + f) = c + f + 3 + a + b
    BY <1>8, <2>1 DEF FrameEnd
  <2>6. c + f + 3 + a + b = c + f + (a + b + 4) - 1
    BY <1>1, <1>4, <1>6
  <2> QED
    BY <1>7, <2>1, <2>4, <2>5, <2>6
<1>13. ASSUME h <= n, CompleteAt(chunk, h)
       PROVE  Whole(f)
  <2>1. f < nlen /\ h = c + f
    BY <1>1, <1>3, <1>13
  <2>2. h + 3 <= n /\ h + 3 + chunk[h + 2] + 256 * chunk[h + 3] <= n
    BY <1>13 DEF CompleteAt, n
  <2>3. f + 3 <= nlen
    BY <1>1, <1>4, <2>1, <2>2
  <2>4. h + 3 + a + b <= n
    BY <1>8, <2>1, <2>2, <2>3
  <2>5. a + b + 4 <= nlen - (f - 1)
    BY <1>1, <1>4, <1>6, <2>1, <2>4
  <2> QED
    BY <1>10, <2>5
<1> QED
  BY <1>5, <1>9, <1>12, <1>13 DEF h, n, f

-----------------------------------------------------------------------------
(* Pieces put together                                                      *)

LEMMA Associative == \A a, b, c \in Seq(Nat) : (a \o b) \o c = a \o (b \o c)
<1> TAKE a, b, c \in Seq(Nat)
<1> QED
  BY ConcatAssociative, SMTT(30)

LEMMA ConcatAppend ==
    ASSUME NEW T, NEW s \in Seq(T), NEW t \in Seq(T), NEW e \in T
    PROVE  s \o Append(t, e) = Append(s \o t, e)
<1> DEFINE x == s \o Append(t, e)
           y == Append(s \o t, e)
           m == Len(s)
           n == Len(t)
<1>1. m \in Nat /\ n \in Nat
  OBVIOUS
<1>2. Append(t, e) \in Seq(T) /\ Len(Append(t, e)) = n + 1 /\ Append(t, e)[n + 1] = e
      /\ \A k \in 1..n : Append(t, e)[k] = t[k]
  BY <1>1, AppendProperties
<1>3. s \o t \in Seq(T) /\ Len(s \o t) = m + n
      /\ \A k \in 1..(m + n) : (s \o t)[k] = IF k <= m THEN s[k] ELSE t[k - m]
  BY ConcatProperties
<1> DEFINE a == Append(t, e)
           b == s \o t
<1> HIDE DEF a, b
<1>4. x \in Seq(T) /\ Len(x) = m + (n + 1)
      /\ \A k \in 1..(m + (n + 1)) : x[k] = IF k <= m THEN s[k] ELSE a[k - m]
  BY <1>2, ConcatProperties DEF a
<1>5. y \in Seq(T) /\ Len(y) = m + n + 1 /\ y[m + n + 1] = e /\ \A k \in 1..(m + n) : y[k] = b[k]
  BY <1>3, AppendProperties DEF b
<1> HIDE DEF x, y, m, n
<1>6. ASSUME NEW k \in 1..(m + n + 1)
      PROVE  x[k] = y[k]
  <2>1. k \in 1..(m + (n + 1))
    BY <1>1
  <2>2. x[k] = IF k <= m THEN s[k] ELSE a[k - m]
    BY <1>4, <2>1
  <2>3. CASE k <= m
    <3>1. k \in 1..(m + n)
      BY <1>1, <2>3
    <3>2. b[k] = s[k]
      BY <1>3, <2>3, <3>1 DEF b
    <3> QED
      BY <1>5, <2>2, <2>3, <3>1, <3>2
  <2>4. CASE k > m /\ k <= m + n
    <3>1. k \in 1..(m + n) /\ k - m \in 1..n /\ ~(k <= m)
      BY <1>1, <2>4
    <3>2. b[k] = t[k - m] /\ a[k - m] = t[k - m]
      BY <1>2, <1>3, <3>1 DEF a, b
    <3> QED
      BY <1>5, <2>2, <3>1, <3>2
  <2>5. CASE k = m + n + 1
    <3>1. k - m = n + 1 /\ ~(k <= m)
      BY <1>1, <2>5
    <3>2. a[n + 1] = e
      BY <1>2 DEF a
    <3> QED
      BY <1>5, <2>2, <2>5, <3>1, <3>2
  <2> QED
    BY <1>1, <2>3, <2>4, <2>5
<1>7. x = y
  <2>1. Len(x) = Len(y) /\ Len(x) = m + n + 1
    BY <1>1, <1>4, <1>5
  <2>2. \A k \in 1..Len(x) : x[k] = y[k]
    BY <1>6, <2>1
  <2> QED
    BY <1>4, <1>5, <2>1, <2>2, SeqEqual
<1> QED
  BY <1>7 DEF x, y

\* u ends v.
LEMMA SuffixIs ==
    ASSUME NEW T, NEW u \in Seq(T), NEW v \in Seq(T), Len(u) <= Len(v),
           \A k \in 1..Len(u) : u[k] = v[Len(v) - Len(u) + k]
    PROVE  IsSuffix(u, v)
<1> DEFINE m == Len(u)
           n == Len(v)
           x == Reverse(u)
           y == Reverse(v)
<1>1. m \in Nat /\ n \in Nat /\ m <= n /\ u \in [1..m -> T] /\ v \in [1..n -> T]
  OBVIOUS
<1>2. x \in Seq(T) /\ Len(x) = m /\ \A k \in 1..m : x[k] = u[(m - k) + 1]
  <2>1. x = [k \in 1..m |-> u[(m - k) + 1]]
    BY DEF Reverse
  <2>2. \A k \in 1..m : (m - k) + 1 \in 1..m
    BY <1>1
  <2>3. x \in [1..m -> T]
    BY <1>1, <2>1, <2>2
  <2> HIDE DEF x, m
  <2> QED
    BY <1>1, <2>1, <2>3
<1>3. y \in Seq(T) /\ Len(y) = n /\ \A k \in 1..n : y[k] = v[(n - k) + 1]
  <2>1. y = [k \in 1..n |-> v[(n - k) + 1]]
    BY DEF Reverse
  <2>2. \A k \in 1..n : (n - k) + 1 \in 1..n
    BY <1>1
  <2>3. y \in [1..n -> T]
    BY <1>1, <2>1, <2>2
  <2> HIDE DEF y, n
  <2> QED
    BY <1>1, <2>1, <2>3, SMTT(30)
<1>4. \A k \in 1..m : u[k] = v[n - m + k]
  OBVIOUS
<1> HIDE DEF m, n, x, y
<1>5. ASSUME NEW k \in 1..m
      PROVE  x[k] = y[k]
  <2>1. (m - k) + 1 \in 1..m /\ k \in 1..n /\ n - m + ((m - k) + 1) = (n - k) + 1
    BY <1>1
  <2>2. u[(m - k) + 1] = v[n - m + ((m - k) + 1)]
    BY <1>4, <2>1
  <2> QED
    BY <1>2, <1>3, <2>1, <2>2
<1>6. SubSeq(x, 1, m) = SubSeq(y, 1, m)
  <2>1. SubSeq(x, 1, m) \in Seq(T) /\ Len(SubSeq(x, 1, m)) = m /\ \A k \in 1..m : SubSeq(x, 1, m)[k] = x[k]
    BY <1>1, <1>2
  <2>2. SubSeq(y, 1, m) \in Seq(T) /\ Len(SubSeq(y, 1, m)) = m /\ \A k \in 1..m : SubSeq(y, 1, m)[k] = y[k]
    BY <1>1, <1>3
  <2> QED
    BY <1>5, <2>1, <2>2, SeqEqual
<1> QED
  BY <1>1, <1>2, <1>3, <1>6 DEF IsSuffix, IsPrefix, x, y

\* The frames of s that begin at the places st.
FramesAt(s, st) == [k \in DOMAIN st |-> SubSeq(s, st[k], FrameEnd(s, st[k]))]

\* Complete frames begin at these places.
Sound(s, st) == st \in Seq(Nat) /\ \A k \in 1..Len(st) : st[k] \in 1..Len(s) /\ CompleteAt(s, st[k])

LEMMA FrameIs ==
    ASSUME NEW s \in Seq(Nat), NEW p \in 1..Len(s), CompleteAt(s, p)
    PROVE  /\ SubSeq(s, p, FrameEnd(s, p)) \in Seq(Nat)
           /\ Len(SubSeq(s, p, FrameEnd(s, p))) = FrameEnd(s, p) - p + 1
           /\ \A k \in 1..(FrameEnd(s, p) - p + 1) : SubSeq(s, p, FrameEnd(s, p))[k] = s[p + k - 1]
<1> DEFINE e == FrameEnd(s, p)
<1>1. e \in (p + 3)..Len(s)
  BY FrameEndIs
<1> HIDE DEF e
<1>2. e \in (p - 1)..Len(s) /\ p \in 1..(Len(s) + 1)
  BY <1>1
<1>3. /\ SubSeq(s, p, e) \in Seq(Nat)
      /\ Len(SubSeq(s, p, e)) = e - p + 1
      /\ \A k \in 1..(e - p + 1) : SubSeq(s, p, e)[k] = s[p + k - 1]
  BY <1>2, Piece
<1> QED
  BY <1>3 DEF e

LEMMA FramesAtType ==
    ASSUME NEW s \in Seq(Nat), NEW st, Sound(s, st)
    PROVE  FramesAt(s, st) \in Seq(Seq(Nat)) /\ Len(FramesAt(s, st)) = Len(st)
<1>1. st \in Seq(Nat) /\ Len(st) \in Nat /\ DOMAIN st = 1..Len(st)
  BY DEF Sound
<1>2. \A k \in 1..Len(st) : SubSeq(s, st[k], FrameEnd(s, st[k])) \in Seq(Nat)
  BY FrameIs DEF Sound
<1>3. FramesAt(s, st) \in [1..Len(st) -> Seq(Nat)]
  BY <1>1, <1>2 DEF FramesAt
<1> QED
  BY <1>1, <1>3 DEF FramesAt

LEMMA FramesAtAppend ==
    ASSUME NEW s \in Seq(Nat), NEW st, Sound(s, st), NEW h \in 1..Len(s), CompleteAt(s, h)
    PROVE  /\ Sound(s, Append(st, h))
           /\ FramesAt(s, Append(st, h)) = Append(FramesAt(s, st), SubSeq(s, h, FrameEnd(s, h)))
<1> DEFINE n == Len(st)
           a == Append(st, h)
           f == SubSeq(s, h, FrameEnd(s, h))
           x == FramesAt(s, a)
           g == FramesAt(s, st)
           y == Append(g, f)
<1>1. st \in Seq(Nat) /\ n \in Nat /\ DOMAIN st = 1..n
      /\ \A k \in 1..n : st[k] \in 1..Len(s) /\ CompleteAt(s, st[k])
  BY DEF Sound
<1>2. a \in Seq(Nat) /\ Len(a) = n + 1 /\ a[n + 1] = h /\ \A k \in 1..n : a[k] = st[k]
  BY <1>1, AppendProperties
<1> HIDE DEF a
<1>3. Sound(s, a)
  <2>1. ASSUME NEW k \in 1..(n + 1)
        PROVE  a[k] \in 1..Len(s) /\ CompleteAt(s, a[k])
    <3>1. k \in 1..n \/ k = n + 1
      BY <1>1, SMTT(30)
    <3> HIDE DEF n
    <3> QED
      BY <1>1, <1>2, <3>1
  <2> HIDE DEF n
  <2> QED
    BY <1>2, <2>1 DEF Sound
<1>4. x \in Seq(Seq(Nat)) /\ Len(x) = n + 1
  BY <1>2, <1>3, FramesAtType
<1>5. g \in Seq(Seq(Nat)) /\ Len(g) = n
  BY FramesAtType
<1>6. f \in Seq(Nat)
  BY FrameIs
<1>7. y \in Seq(Seq(Nat)) /\ Len(y) = n + 1 /\ y[n + 1] = f /\ \A k \in 1..n : y[k] = g[k]
  <2> HIDE DEF f, g
  <2> QED
    BY <1>5, <1>6, AppendProperties
<1>8. ASSUME NEW k \in 1..(n + 1)
      PROVE  x[k] = y[k]
  <2>1. DOMAIN a = 1..(n + 1)
    BY <1>2
  <2>2. x[k] = SubSeq(s, a[k], FrameEnd(s, a[k]))
    BY <2>1 DEF FramesAt
  <2>3. CASE k = n + 1
    BY <1>2, <1>7, <2>2, <2>3
  <2>4. CASE k # n + 1
    <3>1. k \in 1..n
      BY <1>1, <2>4
    <3>2. g[k] = SubSeq(s, st[k], FrameEnd(s, st[k]))
      BY <1>1, <3>1 DEF FramesAt
    <3>3. a[k] = st[k] /\ y[k] = g[k]
      BY <1>2, <1>7, <3>1
    <3> QED
      BY <2>2, <3>2, <3>3
  <2> QED
    BY <2>3, <2>4
<1>9. x = y
  <2> HIDE DEF x, y, n
  <2>1. Len(x) = Len(y) /\ \A k \in 1..Len(x) : x[k] = y[k]
    BY <1>4, <1>7, <1>8
  <2> QED
    BY <1>4, <1>7, <2>1, SeqEqual
<1> QED
  BY <1>3, <1>9 DEF a

-----------------------------------------------------------------------------
(* The invariant                                                            *)

\* The first c bytes of the read are parsed: they end with the last of the frames at the
\* places done, which were handed on, and the buffer holds the bytes behind them.
Parsed(c, done) ==
    /\ Holds(c)
    /\ Sound(chunk, done)
    /\ FrameStarts(chunk) = done \o StartsFrom(chunk)[c + 1]
    /\ got = before \o FramesAt(chunk, done)
    /\ Len(done) = 0 => c = 0
    /\ Len(done) > 0 => c = FrameEnd(chunk, done[Len(done)])

RxInv ==
    /\ TypeOK
    /\ pc = "wait" => len = 0
    /\ pc # "wait" => len = Len(chunk) /\ len > 0
    /\ pc = "parse" => ZeroBehind /\ \E c, done : Parsed(c, done)
    /\ pc = "return" => got = before \o Frames(chunk) /\ RestAtFront

LEMMA KindNotZero == Kind # 0 /\ BufSize \in Nat /\ BufSize > 1
BY UartRxAssumption DEF UartRxAssumption

LEMMA TypesBuffer ==
    ASSUME TypeOK
    PROVE  /\ Buffer
           /\ mem \in Seq(Nat) /\ Len(mem) = BufSize
           /\ len \in Nat /\ len <= BufSize - 1 /\ nlen <= len
<1>1. BufSize \in Nat /\ BufSize > 1
  BY KindNotZero
<1>2. mem \in [1..BufSize -> Nat] /\ chunk \in Seq(Nat) /\ len \in 0..(BufSize - 1) /\ nlen \in 0..len
  BY DEF TypeOK, Bytes
<1>3. mem \in Seq(Nat) /\ Len(mem) = BufSize
  BY <1>1, <1>2
<1> QED
  BY <1>1, <1>2, <1>3 DEF Buffer

\* memmove brings m bytes from p to the front.
LEMMA MovedIs ==
    ASSUME Buffer, NEW p \in Nat, p > 0, NEW m \in Nat, p + m <= BufSize + 1
    PROVE  /\ Moved(p, m) \in [1..BufSize -> Nat]
           /\ \A k \in 1..m : Moved(p, m)[k] = mem[p + k - 1]
<1>1. BufSize \in Nat /\ mem \in [1..BufSize -> Nat]
  BY DEF Buffer
<1>2. ASSUME NEW k \in 1..BufSize
      PROVE  (IF k <= m THEN mem[p + k - 1] ELSE mem[k]) \in Nat
  <2>1. k <= m => p + k - 1 \in 1..BufSize
    BY <1>1
  <2> QED
    BY <1>1, <2>1
<1>3. \A k \in 1..m : k \in 1..BufSize /\ k <= m
  BY <1>1
<1> QED
  BY <1>2, <1>3 DEF Moved

\* A prefix, and what stands behind it, of a function on an interval.
LEMMA BufferPiece ==
    ASSUME NEW f, NEW b \in Nat, f \in [1..b -> Nat], NEW m \in 0..b
    PROVE  /\ SubSeq(f, 1, m) \in Seq(Nat) /\ Len(SubSeq(f, 1, m)) = m
           /\ \A k \in 1..m : SubSeq(f, 1, m)[k] = f[k]
<1>1. f \in Seq(Nat) /\ Len(f) = b
  OBVIOUS
<1>2. 1 \in 1..(Len(f) + 1) /\ m \in (1 - 1)..Len(f) /\ m - 1 + 1 = m
  BY <1>1
<1>3. /\ SubSeq(f, 1, m) \in Seq(Nat)
      /\ Len(SubSeq(f, 1, m)) = m - 1 + 1
      /\ \A k \in 1..(m - 1 + 1) : SubSeq(f, 1, m)[k] = f[1 + k - 1]
  BY <1>1, <1>2, Piece
<1>4. \A k \in 1..m : 1 + k - 1 = k
  OBVIOUS
<1> QED
  BY <1>2, <1>3, <1>4

-----------------------------------------------------------------------------
(* The end of a read                                                        *)

\* When no complete frame follows, all frames are found, and what is left begins at c + 1.
LEMMA NothingFollows ==
    ASSUME chunk \in Seq(Nat), NEW c, NEW done, Parsed(c, done), nlen \in Nat, After(chunk, c + 1) = 0
    PROVE  /\ FrameStarts(chunk) = done
           /\ got = before \o Frames(chunk)
           /\ AfterFrames(chunk) \in Seq(Nat)
           /\ Len(AfterFrames(chunk)) = nlen
           /\ \A k \in 1..nlen : AfterFrames(chunk)[k] = chunk[c + k]
           /\ BegunAt(chunk) \in Nat
           /\ BegunAt(chunk) >= NextHeader(chunk, c + 1) \/ BegunAt(chunk) = Len(chunk)
           /\ nlen = 0 => BegunAt(chunk) >= NextHeader(chunk, c + 1)
<1> DEFINE n == Len(chunk)
           A == AfterFrames(chunk)
<1>1. /\ c \in Nat /\ n \in Nat /\ c + nlen = n /\ c + 1 \in 1..(n + 1)
      /\ done \in Seq(Nat) /\ Len(done) \in Nat /\ DOMAIN done = 1..Len(done)
  BY DEF Parsed, Holds, Sound
<1>2. StartsFrom(chunk)[c + 1] = <<>>
  BY <1>1, StartsFromIs
<1>3. FrameStarts(chunk) = done
  <2>1. FrameStarts(chunk) = done \o <<>>
    BY <1>2 DEF Parsed
  <2>2. done \o <<>> = done
    BY <1>1, ConcatEmptySeq
  <2> QED
    BY <2>1, <2>2
<1>4. Frames(chunk) = FramesAt(chunk, done)
  BY <1>3, Zenon DEF Frames, FramesAt
<1>5. A = SubSeq(chunk, c + 1, n)
  <2>1. CASE done = <<>>
    <3>1. A = chunk
      BY <1>3, <2>1, Zenon DEF AfterFrames
    <3>2. Len(done) = 0
      BY <2>1
    <3>3. c = 0 /\ c + 1 = 1
      BY <3>2 DEF Parsed
    <3>4. SubSeq(chunk, 1, n) = chunk
      BY SubSeqFull
    <3> QED
      BY <3>1, <3>3, <3>4
  <2>2. CASE done # <<>>
    <3>1. A = SubSeq(chunk, FrameEnd(chunk, Last(done)) + 1, n)
      BY <1>3, <2>2, Zenon DEF AfterFrames
    <3>2. Len(done) > 0
      BY <1>1, <2>2, EmptySeq
    <3>3. c = FrameEnd(chunk, done[Len(done)])
      BY <3>2 DEF Parsed
    <3> QED
      BY <3>1, <3>3 DEF Last
  <2> QED
    BY <2>1, <2>2
<1>6. A \in Seq(Nat) /\ Len(A) = nlen /\ \A k \in 1..nlen : A[k] = chunk[c + k]
  <2>1. c + 1 \in 1..(n + 1) /\ n \in ((c + 1) - 1)..n /\ n - (c + 1) + 1 = nlen
    BY <1>1
  <2>2. /\ SubSeq(chunk, c + 1, n) \in Seq(Nat)
        /\ Len(SubSeq(chunk, c + 1, n)) = n - (c + 1) + 1
        /\ \A k \in 1..(n - (c + 1) + 1) : SubSeq(chunk, c + 1, n)[k] = chunk[(c + 1) + k - 1]
    BY <2>1, Piece
  <2>3. \A k \in 1..nlen : (c + 1) + k - 1 = c + k
    BY <1>1
  <2> HIDE DEF A, n
  <2> QED
    BY <1>5, <2>1, <2>2, <2>3
<1>7. n - Len(A) + 1 = c + 1
  <2> HIDE DEF A, n
  <2> QED
    BY <1>1, <1>6
<1> DEFINE h == NextHeader(chunk, c + 1)
<1>8. BegunAt(chunk) = IF h > n /\ A # <<>> /\ Last(chunk) = Header THEN n ELSE h
  BY <1>7, Zenon DEF BegunAt
<1>9. h \in (c + 1)..(n + 1)
  BY <1>1, NextHeaderIs
<1>10. nlen = 0 => A = <<>>
  <2> HIDE DEF A
  <2> QED
    BY <1>6, EmptySeq
<1> HIDE DEF A, n, h
<1>11. BegunAt(chunk) \in Nat /\ (BegunAt(chunk) >= h \/ BegunAt(chunk) = n)
  BY <1>1, <1>8, <1>9
<1>12. nlen = 0 => BegunAt(chunk) >= h
  BY <1>1, <1>8, <1>9, <1>10
<1> QED
  BY <1>3, <1>4, <1>6, <1>11, <1>12 DEF Parsed, A, n, h

\* The last m bytes of a read are at the front of the buffer f: they end what follows the
\* frames, and nothing of a frame that has begun is missing.
LEMMA RestIs ==
    ASSUME NEW s \in Seq(Nat), NEW b \in Nat, NEW f \in [1..b -> Nat], NEW m \in 0..b,
           m <= Len(AfterFrames(s)), AfterFrames(s) \in Seq(Nat),
           \A k \in 1..m : f[k] = AfterFrames(s)[Len(AfterFrames(s)) - m + k]
    PROVE  IsSuffix(SubSeq(f, 1, m), AfterFrames(s))
<1> DEFINE A == AfterFrames(s)
           u == SubSeq(f, 1, m)
<1>1. u \in Seq(Nat) /\ Len(u) = m /\ \A k \in 1..m : u[k] = f[k]
  BY BufferPiece
<1> HIDE DEF A, u
<1>2. A \in Seq(Nat) /\ m <= Len(A) /\ \A k \in 1..m : f[k] = A[Len(A) - m + k]
  BY DEF A
<1>3. Len(u) <= Len(A) /\ \A k \in 1..Len(u) : u[k] = A[Len(A) - Len(u) + k]
  BY <1>1, <1>2
<1>4. IsSuffix(u, A)
  BY <1>1, <1>2, <1>3, SuffixIs
<1> QED
  BY <1>4 DEF A, u

-----------------------------------------------------------------------------
(* The steps                                                                *)

LEMMA RxInit == Init => RxInv
<1> SUFFICES ASSUME Init
             PROVE  RxInv
  OBVIOUS
<1>1. BufSize \in Nat /\ BufSize > 1
  BY KindNotZero
<1>2. mem \in [1..BufSize -> Bytes] /\ len \in 0..(BufSize - 1) /\ nlen \in 0..len
  BY <1>1 DEF Init, Bytes
<1>3. line \in Seq(Bytes) /\ all \in Seq(Bytes) /\ chunk \in Seq(Bytes)
  BY DEF Init
<1>4. got \in Seq(Seq(Bytes)) /\ before \in Seq(Seq(Bytes))
  BY DEF Init
<1>5. pc \in {"wait", "parse", "return"} /\ split \in BOOLEAN
  BY DEF Init
<1>6. TypeOK
  BY <1>2, <1>3, <1>4, <1>5 DEF TypeOK
<1> QED
  BY <1>6 DEF Init, RxInv

\* A step that leaves the buffer and the frames alone keeps what is said about them.
LEMMA KeptWhenUnchanged ==
    ASSUME RxInv, UNCHANGED <<mem, len, nlen, pc, got, chunk, before>>, TypeOK'
    PROVE  RxInv'
<1>1. (ZeroBehind' <=> ZeroBehind) /\ (RestAtFront' <=> RestAtFront)
  BY DEF ZeroBehind, RestAtFront
<1>2. (\E c, done : Parsed(c, done)) => (\E c, done : Parsed(c, done))'
  <2> SUFFICES ASSUME NEW c, NEW done, Parsed(c, done)
               PROVE  Parsed(c, done)'
    BY Zenon
  <2> QED
    BY DEF Parsed, Holds
<1> QED
  BY <1>1, <1>2 DEF RxInv

LEMMA ArriveKeeps ==
    ASSUME RxInv, NEW it \in Items, Arrive(it)
    PROVE  RxInv'
<1>1. it \in Seq(Nat)
  BY FrameAssumption DEF FrameAssumption
<1>2. line \in Seq(Nat) /\ all \in Seq(Nat)
  BY DEF RxInv, TypeOK, Bytes
<1>3. line \o it \in Seq(Nat) /\ all \o it \in Seq(Nat)
  BY <1>1, <1>2, ConcatProperties
<1>4. TypeOK'
  BY <1>3 DEF RxInv, TypeOK, Bytes, Arrive
<1> QED
  BY <1>4, KeptWhenUnchanged DEF Arrive

LEMMA ReadKeeps ==
    ASSUME RxInv, NEW n \in 1..(BufSize - 1), Read(n)
    PROVE  RxInv'
<1>1. /\ TypeOK /\ pc = "wait" /\ len = 0 /\ n \in Nat /\ n > 0 /\ n <= BufSize - 1
      /\ BufSize \in Nat /\ BufSize > 1
  BY KindNotZero DEF RxInv, Read
<1>2. /\ line \in Seq(Nat) /\ Len(line) \in Nat /\ n <= Len(line)
      /\ mem \in [1..BufSize -> Nat] /\ got \in Seq(Seq(Nat))
  BY <1>1 DEF TypeOK, Bytes, Read
<1>3. /\ chunk' \in Seq(Nat) /\ Len(chunk') = n /\ \A k \in 1..n : chunk'[k] = line[k]
  <2>1. line \in [1..Len(line) -> Nat] /\ n \in 0..Len(line)
    BY <1>1, <1>2
  <2>2. /\ SubSeq(line, 1, n) \in Seq(Nat) /\ Len(SubSeq(line, 1, n)) = n
        /\ \A k \in 1..n : SubSeq(line, 1, n)[k] = line[k]
    BY <1>2, <2>1, BufferPiece
  <2> QED
    BY <2>2 DEF Read
<1>4. line' \in Seq(Nat)
  <2>1. n + 1 \in 1..(Len(line) + 1) /\ Len(line) \in ((n + 1) - 1)..Len(line)
    BY <1>1, <1>2
  <2>2. SubSeq(line, n + 1, Len(line)) \in Seq(Nat)
    BY <1>2, <2>1, Piece
  <2> QED
    BY <2>2 DEF Read
<1>5. mem' = [k \in 1..BufSize |-> IF k \in 1..n THEN line[k] ELSE IF k = n + 1 THEN 0 ELSE mem[k]]
  <2>1. \A k \in 1..BufSize : (k \in (len + 1)..(len + n) <=> k \in 1..n) /\ k - len = k /\ len + n + 1 = n + 1
    BY <1>1
  <2> QED
    BY <2>1 DEF Read
<1>6. /\ mem' \in [1..BufSize -> Nat]
      /\ \A k \in 1..n : mem'[k] = line[k]
      /\ mem'[n + 1] = 0
  <2>1. \A k \in 1..n : k \in 1..Len(line) /\ k \in 1..BufSize
    BY <1>1, <1>2
  <2>2. \A k \in 1..n : line[k] \in Nat
    BY <1>2, <2>1
  <2>3. n + 1 \in 1..BufSize /\ n + 1 \notin 1..n
    BY <1>1
  <2>4. mem' \in [1..BufSize -> Nat]
    BY <1>2, <1>5, <2>2
  <2> QED
    BY <1>5, <2>1, <2>3, <2>4
<1>7. len' = n /\ nlen' = n /\ pc' = "parse" /\ got' = got /\ before' = got /\ all' = all
  BY <1>1 DEF Read
<1>8. TypeOK'
  <2>1. split' \in BOOLEAN
    BY <1>1 DEF Read, TypeOK
  <2>2. len' \in 0..(BufSize - 1) /\ nlen' \in 0..len' /\ mem' \in [1..BufSize -> Nat]
    BY <1>1, <1>6, <1>7
  <2>3. line' \in Seq(Nat) /\ all' \in Seq(Nat) /\ chunk' \in Seq(Nat)
    BY <1>1, <1>3, <1>4, <1>7 DEF TypeOK, Bytes
  <2>4. got' \in Seq(Seq(Nat)) /\ before' \in Seq(Seq(Nat))
    BY <1>2, <1>7
  <2>5. pc' \in {"wait", "parse", "return"}
    BY <1>7
  <2> QED
    BY <2>1, <2>2, <2>3, <2>4, <2>5 DEF TypeOK, Bytes
<1>9. ZeroBehind'
  BY <1>1, <1>6, <1>7 DEF ZeroBehind
<1> DEFINE s == chunk'
<1>10. Parsed(0, <<>>)'
  <2>1. Holds(0)'
    <3>1. \A k \in 1..n : 0 + k = k
      BY <1>1
    <3>2. 0 \in Nat /\ 0 + nlen' = Len(chunk')
      BY <1>1, <1>3, <1>7
    <3>3. \A k \in 1..nlen' : mem'[k] = chunk'[0 + k]
      BY <1>3, <1>6, <1>7, <3>1
    <3> QED
      BY <3>2, <3>3 DEF Holds
  <2>2. Sound(s, <<>>)
    BY DEF Sound
  <2>3. FrameStarts(s) = <<>> \o StartsFrom(s)[0 + 1]
    <3>1. 1 \in 1..(Len(s) + 1)
      BY <1>1, <1>3
    <3>2. StartsFrom(s)[1] \in Seq(Nat)
      BY <1>3, <3>1, StartsFromIs
    <3>3. FrameStarts(s) = StartsFrom(s)[1]
      BY StartsAre
    <3>4. <<>> \o StartsFrom(s)[1] = StartsFrom(s)[1]
      BY <3>2, ConcatEmptySeq
    <3> QED
      BY <3>3, <3>4
  <2>4. got' = before' \o FramesAt(s, <<>>)
    <3>1. FramesAt(s, <<>>) \in Seq(Seq(Nat)) /\ Len(FramesAt(s, <<>>)) = 0
      BY <1>3, <2>2, FramesAtType
    <3>2. FramesAt(s, <<>>) = <<>>
      BY <3>1, EmptySeq
    <3>3. got \o <<>> = got
      BY <1>2, ConcatEmptySeq
    <3> QED
      BY <1>7, <3>2, <3>3
  <2> QED
    BY <2>1, <2>2, <2>3, <2>4 DEF Parsed
<1> QED
  BY <1>1, <1>3, <1>7, <1>8, <1>9, <1>10 DEF RxInv

\* A complete frame is handed on: the next bytes of the read are parsed, to its end.
LEMMA ParseFrameKeeps ==
    ASSUME RxInv, ParseFrame
    PROVE  RxInv'
<1> DEFINE f == Found
           L == FrameLen(Found)
           m == nlen - (f - 1) - L
           n == Len(chunk)
           S == StartsFrom(chunk)
<1>1. /\ TypeOK /\ pc = "parse" /\ ZeroBehind /\ f # 0 /\ Whole(f) /\ Buffer
      /\ len = n /\ len > 0 /\ mem \in Seq(Nat) /\ Len(mem) = BufSize
  BY TypesBuffer DEF RxInv, ParseFrame
<1>2. PICK c, done : Parsed(c, done)
  BY <1>1 DEF RxInv
<1>3. /\ Holds(c) /\ Sound(chunk, done) /\ got = before \o FramesAt(chunk, done)
      /\ FrameStarts(chunk) = done \o S[c + 1]
      /\ chunk \in Seq(Nat) /\ BufSize \in Nat /\ mem \in [1..BufSize -> Nat]
      /\ c \in Nat /\ n \in Nat /\ nlen \in Nat /\ c + nlen = n /\ nlen <= BufSize - 1
      /\ before \in Seq(Seq(Nat)) /\ got \in Seq(Seq(Nat)) /\ done \in Seq(Nat)
  <2>1. /\ Holds(c) /\ Sound(chunk, done) /\ got = before \o FramesAt(chunk, done)
        /\ FrameStarts(chunk) = done \o S[c + 1]
    BY <1>2 DEF Parsed
  <2>2. c \in Nat /\ c + nlen = n /\ done \in Seq(Nat)
    BY <2>1 DEF Holds, Sound
  <2>3. /\ chunk \in Seq(Nat) /\ BufSize \in Nat /\ mem \in [1..BufSize -> Nat]
        /\ nlen \in Nat /\ nlen <= BufSize - 1 /\ n \in Nat
    BY <1>1 DEF Buffer
  <2>4. before \in Seq(Seq(Nat)) /\ got \in Seq(Seq(Nat))
    BY <1>1 DEF TypeOK, Bytes
  <2> QED
    BY <2>1, <2>2, <2>3, <2>4
<1> DEFINE e == FrameEnd(chunk, c + f)
<1>4. /\ L \in Nat /\ L >= 4 /\ After(chunk, c + 1) # 0
      /\ NextHeader(chunk, c + 1) = c + f /\ e = c + f + L - 1
  BY <1>1, <1>3, KindNotZero, WholeIs
<1>5. f \in 1..nlen
  BY <1>1, FoundIs
<1>6. /\ c + 1 \in 1..(n + 1)
      /\ c + f \in (c + 1)..n /\ CompleteAt(chunk, c + f)
      /\ After(chunk, c + 1) = e + 1 /\ e + 1 <= n + 1
  <2>1. c + 1 \in 1..(n + 1)
    BY <1>3
  <2>2. /\ NextHeader(chunk, c + 1) \in (c + 1)..n
        /\ CompleteAt(chunk, NextHeader(chunk, c + 1))
        /\ After(chunk, c + 1) = FrameEnd(chunk, NextHeader(chunk, c + 1)) + 1
        /\ After(chunk, c + 1) <= n + 1
    BY <1>3, <1>4, <2>1, AfterIs
  <2> QED
    BY <1>4, <2>1, <2>2
<1>7. /\ got' = Append(got, SubSeq(mem, f, f + L - 1))
      /\ nlen' = m /\ mem' = Moved(f + L, m)
      /\ UNCHANGED <<line, len, pc, chunk, before, all, split>>
  BY DEF ParseFrame
<1> HIDE DEF f, L, n, S
<1>8. /\ m \in Nat /\ m < nlen /\ e \in Nat /\ e + m = n
      /\ f + L \in Nat /\ f + L > 0 /\ (f + L) + m = nlen + 1 /\ f + L - 1 <= nlen
  <2>1. e = c + f + L - 1 /\ e <= n /\ e \in Nat
    <3> HIDE DEF e
    <3> QED
      BY <1>3, <1>4, <1>5, <1>6
  <2> HIDE DEF e
  <2> QED
    BY <1>3, <1>4, <1>5, <2>1
<1> DEFINE fr == SubSeq(mem, f, f + L - 1)
<1>9. fr = SubSeq(chunk, c + f, e) /\ fr \in Seq(Nat)
  <2>1. f \in 1..(BufSize + 1) /\ f + L - 1 \in (f - 1)..BufSize /\ (f + L - 1) - f + 1 = L
    BY <1>3, <1>4, <1>5, <1>8
  <2>2. /\ fr \in Seq(Nat) /\ Len(fr) = (f + L - 1) - f + 1
        /\ \A k \in 1..((f + L - 1) - f + 1) : fr[k] = mem[f + k - 1]
    BY <1>1, <2>1, Piece
  <2> DEFINE t == SubSeq(chunk, c + f, e)
  <2>3. /\ t \in Seq(Nat) /\ Len(t) = e - (c + f) + 1
        /\ \A k \in 1..(e - (c + f) + 1) : t[k] = chunk[(c + f) + k - 1]
    <3>1. c + f \in 1..n
      BY <1>3, <1>5
    <3> QED
      BY <1>3, <1>6, <3>1, FrameIs DEF n
  <2> HIDE DEF fr, t
  <2>4. e - (c + f) + 1 = L
    <3>1. e = c + f + L - 1
      BY <1>4
    <3> HIDE DEF e
    <3> QED
      BY <1>3, <1>4, <1>5, <3>1
  <2>5. ASSUME NEW k \in 1..L
        PROVE  fr[k] = t[k]
    <3>1. f + k - 1 \in 1..nlen /\ c + (f + k - 1) = (c + f) + k - 1
      BY <1>3, <1>4, <1>5, <1>8
    <3>2. mem[f + k - 1] = chunk[c + (f + k - 1)]
      BY <1>3, <3>1 DEF Holds
    <3>3. fr[k] = mem[f + k - 1]
      BY <2>1, <2>2
    <3>4. t[k] = chunk[(c + f) + k - 1]
      BY <2>3, <2>4
    <3> QED
      BY <3>1, <3>2, <3>3, <3>4
  <2>6. Len(fr) = L /\ Len(t) = L
    BY <2>1, <2>2, <2>3, <2>4
  <2>7. fr = t
    BY <2>2, <2>3, <2>5, <2>6, SeqEqual
  <2> QED
    BY <2>2, <2>7 DEF t
<1>10. c + f \in 1..Len(chunk)
  BY <1>3, <1>6 DEF n
<1> DEFINE d == Append(done, c + f)
<1>11. Sound(chunk, d) /\ FramesAt(chunk, d) = Append(FramesAt(chunk, done), SubSeq(chunk, c + f, e))
  BY <1>3, <1>6, <1>10, FramesAtAppend
<1>12. got' = before \o FramesAt(chunk, d) /\ got' \in Seq(Seq(Nat))
  <2>1. FramesAt(chunk, done) \in Seq(Seq(Nat))
    BY <1>3, FramesAtType
  <2> HIDE DEF fr, d, e
  <2>2. before \o Append(FramesAt(chunk, done), fr) = Append(before \o FramesAt(chunk, done), fr)
    <3>1. \A s, t \in Seq(Seq(Nat)) : \A x \in Seq(Nat) : s \o Append(t, x) = Append(s \o t, x)
      BY ConcatAppend
    <3>2. before \in Seq(Seq(Nat)) /\ fr \in Seq(Nat)
      BY <1>3, <1>9
    <3> QED
      BY <2>1, <3>1, <3>2, Zenon
  <2>3. got' = Append(got, fr)
    BY <1>7 DEF fr
  <2>4. Append(got, fr) \in Seq(Seq(Nat))
    BY <1>3, <1>9, AppendProperties
  <2>5. got' = Append(before \o FramesAt(chunk, done), fr)
    BY <1>3, <2>3, Zenon
  <2>6. FramesAt(chunk, d) = Append(FramesAt(chunk, done), fr)
    BY <1>9, <1>11, Zenon
  <2>7. got' = before \o FramesAt(chunk, d)
    BY <2>2, <2>5, <2>6, Zenon
  <2> QED
    BY <2>3, <2>4, <2>7
<1>13. FrameStarts(chunk) = d \o S[e + 1]
  <2>1. S[c + 1] = <<c + f>> \o S[e + 1]
    <3>1. S[c + 1] = IF After(chunk, c + 1) = 0 THEN <<>>
                     ELSE <<NextHeader(chunk, c + 1)>> \o S[After(chunk, c + 1)]
      BY <1>3, <1>6, StartsFromIs DEF S, n
    <3> QED
      BY <1>4, <1>6, <3>1
  <2>2. e + 1 \in 1..(n + 1)
    <3> HIDE DEF e
    <3> QED
      BY <1>3, <1>6, <1>8
  <2>3. S[e + 1] \in Seq(Nat)
    BY <1>3, <2>2, StartsFromIs DEF S, n
  <2>4. c + f \in Nat
    BY <1>3, <1>5
  <2> DEFINE x == S[e + 1]
             p == c + f
  <2> HIDE DEF x, p
  <2>5. done \o (<<p>> \o x) = (done \o <<p>>) \o x
    <3>1. <<p>> \in Seq(Nat) /\ x \in Seq(Nat)
      BY <2>3, <2>4 DEF x, p
    <3> QED
      <4>1. done \in Seq(Nat)
        BY <1>3
      <4> QED
        BY <3>1, <4>1, Associative, Zenon
  <2>6. done \o <<p>> = Append(done, p)
    BY <1>3, <2>4, AppendIsConcat DEF p
  <2>7. FrameStarts(chunk) = done \o (<<p>> \o x)
    BY <1>3, <2>1, Zenon DEF p, x
  <2>8. FrameStarts(chunk) = Append(done, p) \o x
    BY <2>5, <2>6, <2>7, Zenon
  <2> QED
    BY <2>8 DEF p, x
<1>14. /\ mem' \in [1..BufSize -> Nat]
       /\ \A k \in 1..m : mem'[k] = chunk[e + k]
  <2> HIDE DEF m
  <2>1. /\ Moved(f + L, m) \in [1..BufSize -> Nat]
        /\ \A k \in 1..m : Moved(f + L, m)[k] = mem[(f + L) + k - 1]
    <3>1. (f + L) + m <= BufSize + 1
      BY <1>3, <1>8
    <3> QED
      BY <1>1, <1>8, <3>1, MovedIs
  <2>2. ASSUME NEW k \in 1..m
        PROVE  mem[(f + L) + k - 1] = chunk[e + k]
    <3>1. (f + L) + k - 1 \in 1..nlen
      BY <1>3, <1>8, <1>4, <1>5
    <3>2. c + ((f + L) + k - 1) = e + k
      <4>1. e = c + f + L - 1
        BY <1>4
      <4> HIDE DEF e
      <4> QED
        BY <1>3, <1>4, <1>5, <4>1
    <3>3. mem[(f + L) + k - 1] = chunk[c + ((f + L) + k - 1)]
      BY <1>3, <3>1 DEF Holds
    <3> QED
      BY <3>2, <3>3
  <2> QED
    BY <1>7, <2>1, <2>2
<1>15. \E c1, d1 : Parsed(c1, d1)'
  <2>1. PICK c1 : c1 = e
    OBVIOUS
  <2>2. PICK d1 : d1 = d
    OBVIOUS
  <2>3. /\ c1 \in Nat /\ c1 + m = n /\ \A k \in 1..m : mem'[k] = chunk[c1 + k]
        /\ Sound(chunk, d1) /\ got' = before \o FramesAt(chunk, d1)
        /\ FrameStarts(chunk) = d1 \o S[c1 + 1]
    <3> HIDE DEF m, e, d
    <3> QED
      BY <1>8, <1>11, <1>12, <1>13, <1>14, <2>1, <2>2
  <2>4. Len(d1) > 0 /\ FrameEnd(chunk, d1[Len(d1)]) = c1
    <3>1. c + f \in Nat /\ Len(done) \in Nat
      BY <1>3, <1>5
    <3>2. Len(d1) = Len(done) + 1 /\ d1[Len(done) + 1] = c + f
      BY <1>3, <2>2, <3>1, AppendProperties
    <3> QED
      BY <2>1, <3>1, <3>2
  <2>5. Len(d1) # 0
    BY <2>4
  <2> HIDE DEF m, e, d
  <2>6. Holds(c1)'
    BY <1>7, <2>3 DEF Holds, n
  <2>7. Parsed(c1, d1)'
    BY <1>7, <2>3, <2>4, <2>5, <2>6 DEF Parsed, S
  <2> QED
    BY <2>7
<1>16. ZeroBehind'
  <2> HIDE DEF m
  <2>1. nlen' # BufSize - 1
    BY <1>3, <1>7, <1>8
  <2> QED
    BY <2>1 DEF ZeroBehind
<1>17. TypeOK'
  <2> HIDE DEF m
  <2>1. nlen' \in 0..len' /\ len' = len
    BY <1>1, <1>3, <1>7, <1>8, TypesBuffer
  <2> QED
    BY <1>1, <1>7, <1>12, <1>14, <2>1 DEF TypeOK, Bytes
<1> QED
  BY <1>1, <1>7, <1>15, <1>16, <1>17 DEF RxInv, n

\* What the parse knows when it finds no frame that is complete.
LEMMA NoWholeFrame ==
    ASSUME RxInv, pc = "parse", ~(Found # 0 /\ Whole(Found))
    PROVE  \E c, done : Parsed(c, done) /\ After(chunk, c + 1) = 0
<1>1. TypeOK /\ ZeroBehind /\ Buffer
  BY TypesBuffer DEF RxInv
<1>2. PICK c, done : Parsed(c, done)
  BY DEF RxInv
<1>3. Holds(c)
  BY <1>2 DEF Parsed
<1>4. CASE Found # 0
  BY <1>1, <1>2, <1>3, <1>4, KindNotZero, WholeIs
<1>5. CASE Found = 0
  <2>1. NextHeader(chunk, c + 1) = Len(chunk) + 1 /\ c + 1 \in 1..(Len(chunk) + 1)
    BY <1>1, <1>3, <1>5, KindNotZero, SearchFinds
  <2>2. chunk \in Seq(Nat) /\ Len(chunk) \in Nat
    BY <1>1 DEF Buffer
  <2>3. ~(NextHeader(chunk, c + 1) \in (c + 1)..Len(chunk))
    BY <2>1, <2>2
  <2>4. After(chunk, c + 1) = 0
    BY <2>1, <2>2, <2>3, AfterIs
  <2> QED
    BY <1>2, <2>4
<1> QED
  BY <1>4, <1>5

\* The left-over bytes are where RestAtFront says: m of them, from the byte the search
\* stopped at, are at the front of the buffer b.
LEMMA RestFound ==
    ASSUME TypeOK, ZeroBehind, NEW c, NEW done, Parsed(c, done), After(chunk, c + 1) = 0,
           NEW b \in [1..BufSize -> Nat],
           NEW m, m = IF Found = 0 THEN nlen ELSE nlen - (Found - 1),
           \A k \in 1..m : b[k] = mem[(nlen - m) + k]
    PROVE  /\ m \in Nat /\ m <= nlen
           /\ IsSuffix(SubSeq(b, 1, m), AfterFrames(chunk))
           /\ m >= Len(chunk) + 1 - BegunAt(chunk)
<1> DEFINE n == Len(chunk)
           A == AfterFrames(chunk)
           h == NextHeader(chunk, c + 1)
           g == BegunAt(chunk)
           f == Found
<1>1. Buffer /\ Holds(c)
  BY TypesBuffer DEF Parsed
<1>2. /\ chunk \in Seq(Nat) /\ BufSize \in Nat /\ nlen \in Nat /\ nlen <= BufSize - 1 /\ n \in Nat
      /\ c \in Nat /\ c + nlen = n
  BY <1>1 DEF Buffer, Holds
<1>3. f \in 0..nlen
  BY <1>1, FoundIs
<1>4. /\ f = 0 => h = n + 1
      /\ f # 0 => \/ f < nlen /\ h = c + f
                  \/ f = nlen /\ h = n + 1
  BY <1>1, KindNotZero, SearchFinds
<1>5. /\ A \in Seq(Nat) /\ Len(A) = nlen /\ \A k \in 1..nlen : A[k] = chunk[c + k]
      /\ g \in Nat /\ (g >= h \/ g = n) /\ (nlen = 0 => g >= h)
  BY <1>2, NothingFollows
<1> HIDE DEF n, A, h, g, f
<1>6. m = IF f = 0 THEN nlen ELSE nlen - (f - 1)
  BY DEF f
<1>7. m \in Nat /\ m <= nlen /\ nlen - m \in Nat
  BY <1>2, <1>3, <1>6, SMTT(30)
<1>8. m >= n + 1 - g
  BY <1>2, <1>3, <1>4, <1>5, <1>6, SMTT(30)
<1>9. ASSUME NEW k \in 1..m
      PROVE  b[k] = A[nlen - m + k]
  <2>1. nlen - m + k \in 1..nlen
    <3>1. \A i, j \in Nat : i <= j => \A l \in 1..i : j - i + l \in 1..j
      OBVIOUS
    <3> QED
      BY <1>2, <1>7, <3>1, Zenon
  <2>2. mem[nlen - m + k] = chunk[c + (nlen - m + k)]
    BY <1>1, <2>1 DEF Holds
  <2>3. A[nlen - m + k] = chunk[c + (nlen - m + k)]
    BY <1>5, <2>1
  <2> QED
    BY <2>2, <2>3
<1>10. IsSuffix(SubSeq(b, 1, m), A)
  <2>1. m \in 0..BufSize /\ m <= Len(A)
    BY <1>2, <1>5, <1>7
  <2>2. \A k \in 1..m : b[k] = A[Len(A) - m + k]
    BY <1>5, <1>9
  <2> QED
    BY <1>2, <1>5, <2>1, <2>2, RestIs DEF A
<1> QED
  BY <1>7, <1>8, <1>10 DEF A, n, g

\* A frame that has only begun is moved to the front.
LEMMA ParsePartialKeeps ==
    ASSUME RxInv, ParsePartial
    PROVE  RxInv'
<1> DEFINE f == Found
           m == nlen - (f - 1)
<1>1. /\ TypeOK /\ pc = "parse" /\ ZeroBehind /\ Buffer /\ f # 0 /\ ~Whole(f)
      /\ len = Len(chunk) /\ len > 0 /\ len \in Nat /\ nlen <= len
  BY TypesBuffer DEF RxInv, ParsePartial
<1>2. PICK c, done : Parsed(c, done) /\ After(chunk, c + 1) = 0
  BY <1>1, NoWholeFrame
<1>3. /\ nlen' = m /\ mem' = Moved(f, m) /\ pc' = "return"
      /\ UNCHANGED <<line, len, got, chunk, before, all, split>>
  BY DEF ParsePartial
<1>4. /\ f \in 1..nlen /\ nlen \in Nat /\ nlen <= BufSize - 1 /\ BufSize \in Nat
  BY <1>1, FoundIs DEF Buffer
<1> HIDE DEF f
<1>5. /\ m \in Nat /\ f \in Nat /\ f > 0 /\ f + m <= BufSize + 1
      /\ \A k \in 1..m : f + k - 1 = (nlen - m) + k
  BY <1>4
<1>6. /\ mem' \in [1..BufSize -> Nat]
      /\ \A k \in 1..m : mem'[k] = mem[(nlen - m) + k]
  <2> HIDE DEF m
  <2>1. /\ Moved(f, m) \in [1..BufSize -> Nat]
        /\ \A k \in 1..m : Moved(f, m)[k] = mem[f + k - 1]
    BY <1>1, <1>5, MovedIs
  <2> QED
    BY <1>3, <1>5, <2>1
<1>7. PICK r, b : r = m /\ b = mem'
  OBVIOUS
<1>8. r = IF Found = 0 THEN nlen ELSE nlen - (Found - 1)
  BY <1>1, <1>7 DEF f
<1> HIDE DEF m
<1>9. b \in [1..BufSize -> Nat] /\ \A k \in 1..r : b[k] = mem[(nlen - r) + k]
  BY <1>6, <1>7
<1>10. /\ r \in Nat /\ r <= nlen
       /\ IsSuffix(SubSeq(b, 1, r), AfterFrames(chunk))
       /\ r >= Len(chunk) + 1 - BegunAt(chunk)
  BY <1>1, <1>2, <1>8, <1>9, RestFound
<1>11. RestAtFront'
  BY <1>3, <1>7, <1>10 DEF RestAtFront
<1>12. got' = before' \o Frames(chunk')
  <2>1. got = before \o Frames(chunk)
    BY <1>1, <1>2, <1>4, NothingFollows DEF Buffer
  <2> QED
    BY <1>3, <2>1
<1>13. TypeOK'
  <2>1. nlen' \in 0..len' /\ len' = len
    BY <1>1, <1>3, <1>4, <1>7, <1>10
  <2> QED
    BY <1>1, <1>3, <1>6, <2>1 DEF TypeOK, Bytes
<1> QED
  BY <1>1, <1>3, <1>11, <1>12, <1>13 DEF RxInv

LEMMA ParseNoneKeeps ==
    ASSUME RxInv, ParseNone
    PROVE  RxInv'
<1>1. /\ TypeOK /\ pc = "parse" /\ ZeroBehind /\ Buffer /\ Found = 0
      /\ len = Len(chunk) /\ len > 0
  BY TypesBuffer DEF RxInv, ParseNone
<1>2. PICK c, done : Parsed(c, done) /\ After(chunk, c + 1) = 0
  BY <1>1, NoWholeFrame
<1>3. pc' = "return" /\ UNCHANGED <<line, mem, len, nlen, got, chunk, before, all, split>>
  BY DEF ParseNone
<1>4. mem \in [1..BufSize -> Nat] /\ nlen \in Nat /\ \A k \in 1..nlen : mem[k] = mem[(nlen - nlen) + k]
  BY <1>1 DEF Buffer
<1>5. /\ IsSuffix(SubSeq(mem, 1, nlen), AfterFrames(chunk))
      /\ nlen >= Len(chunk) + 1 - BegunAt(chunk)
  BY <1>1, <1>2, <1>4, RestFound
<1>6. RestAtFront'
  BY <1>3, <1>5 DEF RestAtFront
<1>7. got' = before' \o Frames(chunk')
  <2>1. got = before \o Frames(chunk)
    BY <1>1, <1>2, <1>4, NothingFollows DEF Buffer
  <2> QED
    BY <1>3, <2>1
<1>8. TypeOK'
  BY <1>1, <1>3 DEF TypeOK
<1> QED
  BY <1>1, <1>3, <1>6, <1>7, <1>8 DEF RxInv

LEMMA ReturnKeeps ==
    ASSUME RxInv, Return
    PROVE  RxInv'
<1>1. TypeOK /\ BufSize \in Nat /\ BufSize > 1
  BY KindNotZero DEF RxInv
<1>2. len' = 0 /\ nlen' = 0 /\ pc' = "wait" /\ UNCHANGED <<line, mem, got, chunk, before, all, split>>
  BY DEF Return
<1>3. len' \in 0..(BufSize - 1) /\ nlen' \in 0..len'
  BY <1>1, <1>2
<1>4. TypeOK'
  BY <1>1, <1>2, <1>3 DEF TypeOK
<1> QED
  BY <1>2, <1>4 DEF RxInv

LEMMA RxNext == RxInv /\ [Next]_vars => RxInv'
<1> SUFFICES ASSUME RxInv, [Next]_vars
             PROVE  RxInv'
  OBVIOUS
<1>1. ASSUME NEW it \in Items, Arrive(it) PROVE RxInv'
  BY <1>1, ArriveKeeps
<1>2. ASSUME NEW n \in 1..(BufSize - 1), Read(n) PROVE RxInv'
  BY <1>2, ReadKeeps
<1>3. CASE ParseFrame
  BY <1>3, ParseFrameKeeps
<1>4. CASE ParsePartial
  BY <1>4, ParsePartialKeeps
<1>5. CASE ParseNone
  BY <1>5, ParseNoneKeeps
<1>6. CASE Return
  BY <1>6, ReturnKeeps
<1>7. CASE UNCHANGED vars
  <2>1. TypeOK'
    BY <1>7 DEF RxInv, TypeOK, vars
  <2> QED
    BY <1>7, <2>1, KeptWhenUnchanged DEF vars
<1> QED
  BY <1>1, <1>2, <1>3, <1>4, <1>5, <1>6, <1>7 DEF Next

\* The inductive invariant of the search.
THEOREM RxAlways == Spec => []RxInv
BY RxInit, RxNext, PTL DEF Spec

\* Type correctness: the lengths of the buffer stay below its size, and what is left of a
\* parse is never more than was read.
THEOREM TypeCorrect == Spec => []TypeOK
<1>1. RxInv => TypeOK
  BY DEF RxInv
<1> QED
  BY <1>1, RxAlways, PTL

\* What process_data_buffer returns is left at the front of the buffer, undamaged by the
\* memmoves: the end of the bytes behind the last frame of the read, with every byte of a
\* frame that has begun.
THEOREM AlwaysRestAtFront == Spec => []RestAtFront
<1>1. RxInv => RestAtFront
  BY DEF RxInv, RestAtFront
<1> QED
  BY <1>1, RxAlways, PTL

-----------------------------------------------------------------------------
(* The thread implements the parser of single reads                         *)

LEMMA SameFrames == \A s : Abs!Frames(s) = Frames(s)
<1>1. ASSUME NEW s, NEW p
      PROVE  /\ Abs!HeaderAt(s, p) <=> HeaderAt(s, p)
             /\ Abs!CompleteAt(s, p) <=> CompleteAt(s, p)
             /\ Abs!FrameEnd(s, p) = FrameEnd(s, p)
  BY Zenon DEF Abs!HeaderAt, HeaderAt, Abs!CompleteAt, CompleteAt, Abs!FrameEnd, FrameEnd
<1>2. ASSUME NEW s
      PROVE  Abs!FrameStarts(s) = FrameStarts(s)
  BY Zenon DEF Abs!FrameStarts, FrameStarts, Abs!NextHeader, NextHeader, Abs!HeaderAt, HeaderAt,
     Abs!Min, Min, Abs!CompleteAt, CompleteAt, Abs!FrameEnd, FrameEnd
<1> QED
  BY <1>1, <1>2, Zenon DEF Abs!Frames, Frames

\* A sequence cut at n is the sequence again.
LEMMA CutConcat ==
    ASSUME NEW s \in Seq(Nat), NEW n \in 0..Len(s)
    PROVE  SubSeq(s, 1, n) \o SubSeq(s, n + 1, Len(s)) = s
<1> DEFINE m == Len(s)
           a == SubSeq(s, 1, n)
           b == SubSeq(s, n + 1, m)
           x == a \o b
<1>1. m \in Nat /\ n \in Nat /\ n <= m /\ s \in [1..m -> Nat]
  OBVIOUS
<1>2. a \in Seq(Nat) /\ Len(a) = n /\ \A k \in 1..n : a[k] = s[k]
  BY <1>1, BufferPiece
<1>3. b \in Seq(Nat) /\ Len(b) = m - n /\ \A k \in 1..(m - n) : b[k] = s[n + k]
  <2>1. n + 1 \in 1..(m + 1) /\ m \in ((n + 1) - 1)..m /\ m - (n + 1) + 1 = m - n
    BY <1>1
  <2>2. b \in Seq(Nat) /\ Len(b) = m - (n + 1) + 1
        /\ \A k \in 1..(m - (n + 1) + 1) : b[k] = s[(n + 1) + k - 1]
    BY <2>1, Piece
  <2>3. \A k \in 1..(m - n) : (n + 1) + k - 1 = n + k
    BY <1>1
  <2> HIDE DEF b, m
  <2> QED
    BY <2>1, <2>2, <2>3
<1> HIDE DEF a, b
<1>4. x \in Seq(Nat) /\ Len(x) = n + (m - n)
      /\ \A k \in 1..(n + (m - n)) : x[k] = IF k <= n THEN a[k] ELSE b[k - n]
  <2>1. /\ x \in Seq(Nat) /\ Len(x) = Len(a) + Len(b)
        /\ \A k \in 1..(Len(a) + Len(b)) : x[k] = IF k <= Len(a) THEN a[k] ELSE b[k - Len(a)]
    BY <1>2, <1>3, ConcatProperties
  <2>2. Len(a) = n /\ Len(b) = m - n
    BY <1>2, <1>3
  <2> HIDE DEF x
  <2> QED
    BY <2>1, <2>2, Zenon
<1> HIDE DEF x, m
<1>5. n + (m - n) = m
  BY <1>1
<1>6. ASSUME NEW k \in 1..m
      PROVE  x[k] = s[k]
  <2>1. x[k] = IF k <= n THEN a[k] ELSE b[k - n]
    BY <1>4, <1>5
  <2>2. CASE k <= n
    <3>1. k \in 1..n
      BY <1>1, <2>2
    <3> QED
      BY <1>2, <2>1, <2>2, <3>1
  <2>3. CASE ~(k <= n)
    <3>1. k - n \in 1..(m - n) /\ n + (k - n) = k
      BY <1>1, <2>3
    <3> QED
      BY <1>3, <2>1, <2>3, <3>1
  <2> QED
    BY <2>2, <2>3
<1>7. x = s
  <2>1. Len(x) = m /\ Len(s) = m
    BY <1>4, <1>5 DEF m
  <2> QED
    BY <1>4, <1>6, <2>1, SeqEqual
<1> QED
  BY <1>7 DEF x, a, b, m

\* Two sequences put together, cut where the first one ends.
LEMMA ConcatCut ==
    ASSUME NEW s \in Seq(Nat), NEW t \in Seq(Nat)
    PROVE  /\ Len(s) <= Len(s \o t)
           /\ SubSeq(s \o t, 1, Len(s)) = s
           /\ SubSeq(s \o t, Len(s) + 1, Len(s \o t)) = t
<1> DEFINE m == Len(s)
           n == Len(t)
           x == s \o t
           a == SubSeq(x, 1, m)
           b == SubSeq(x, m + 1, m + n)
<1>1. m \in Nat /\ n \in Nat
  OBVIOUS
<1>2. x \in Seq(Nat) /\ Len(x) = m + n
      /\ \A k \in 1..(m + n) : x[k] = IF k <= m THEN s[k] ELSE t[k - m]
  BY ConcatProperties
<1> HIDE DEF x
<1>3. a \in Seq(Nat) /\ Len(a) = m /\ \A k \in 1..m : a[k] = x[k]
  <2>1. x \in [1..(m + n) -> Nat] /\ m + n \in Nat /\ m \in 0..(m + n)
    BY <1>1, <1>2
  <2> HIDE DEF m, n
  <2> QED
    BY <2>1, BufferPiece
<1>4. b \in Seq(Nat) /\ Len(b) = n /\ \A k \in 1..n : b[k] = x[m + k]
  <2>1. m + 1 \in 1..(Len(x) + 1) /\ m + n \in ((m + 1) - 1)..Len(x) /\ (m + n) - (m + 1) + 1 = n
    BY <1>1, <1>2
  <2>2. b \in Seq(Nat) /\ Len(b) = (m + n) - (m + 1) + 1
        /\ \A k \in 1..((m + n) - (m + 1) + 1) : b[k] = x[(m + 1) + k - 1]
    BY <1>2, <2>1, Piece
  <2>3. \A k \in 1..n : (m + 1) + k - 1 = m + k
    BY <1>1
  <2> HIDE DEF b, m, n
  <2> QED
    BY <2>1, <2>2, <2>3
<1> HIDE DEF a, b, m, n
<1>5. a = s
  <2>1. \A k \in 1..m : k \in 1..(m + n) /\ k <= m
    BY <1>1
  <2>2. \A k \in 1..m : a[k] = s[k]
    BY <1>2, <1>3, <2>1
  <2>3. Len(s) = m
    BY DEF m
  <2> QED
    BY <1>3, <2>2, <2>3, SeqEqual
<1>6. b = t
  <2>1. \A k \in 1..n : m + k \in 1..(m + n) /\ ~(m + k <= m) /\ (m + k) - m = k
    BY <1>1
  <2>2. \A k \in 1..n : b[k] = t[k]
    BY <1>2, <1>4, <2>1
  <2>3. Len(t) = n
    BY DEF n
  <2> QED
    BY <1>4, <2>2, <2>3, SeqEqual
<1>7. m <= Len(x)
  BY <1>1, <1>2
<1>8. SubSeq(x, m + 1, Len(x)) = t
  BY <1>2, <1>6 DEF b
<1> QED
  BY <1>5, <1>7, <1>8 DEF a, x, m

\* The stream the abstract parser sees: a read takes its bytes when the thread is done
\* with them.
Stream == IF pc = "wait" THEN line ELSE chunk \o line
Delivered == IF pc = "wait" THEN got ELSE before

LEMMA StreamInit == Init => Abs!Init
<1> SUFFICES ASSUME Init
             PROVE  Abs!Init
  OBVIOUS
<1>1. Stream = <<>> /\ Len(all) = 0 /\ Delivered = <<>>
  BY DEF Init, Stream, Delivered
<1> QED
  BY <1>1, Zenon DEF Abs!Init, Stream, Delivered

LEMMA StreamArrive ==
    ASSUME TypeOK, NEW it \in Items, Arrive(it)
    PROVE  Abs!Arrive(it)
<1>1. it \in Seq(Nat)
  BY FrameAssumption DEF FrameAssumption
<1>2. line \in Seq(Nat) /\ all \in Seq(Nat) /\ chunk \in Seq(Nat)
  BY DEF TypeOK, Bytes
<1>3. line' = line \o it /\ all' = all \o it /\ Len(all) + Len(it) <= MaxBytes
      /\ UNCHANGED <<pc, got, chunk, before>>
  BY DEF Arrive
<1>4. Len(all') = Len(all) + Len(it)
  BY <1>1, <1>2, <1>3, ConcatProperties
<1>5. chunk \o (line \o it) = (chunk \o line) \o it
  BY <1>1, <1>2, Associative, Zenon
<1>6. Stream' = Stream \o it
  BY <1>3, <1>5, Zenon DEF Stream
<1>7. Delivered' = Delivered
  BY <1>3 DEF Delivered
<1> QED
  BY <1>3, <1>4, <1>6, <1>7, Zenon DEF Abs!Arrive, Stream, Delivered

\* A read is not seen: its bytes are still there, in front of the others.
LEMMA StreamRead ==
    ASSUME TypeOK, NEW n \in 1..(BufSize - 1), Read(n)
    PROVE  UNCHANGED Abs!streamVars
<1>1. /\ pc = "wait" /\ pc' = "parse" /\ all' = all /\ before' = got
      /\ chunk' = SubSeq(line, 1, n) /\ line' = SubSeq(line, n + 1, Len(line))
  BY DEF Read
<1>2. line \in Seq(Nat) /\ n \in 0..Len(line)
  BY KindNotZero DEF Read, TypeOK, Bytes
<1>3. chunk' \o line' = line
  BY <1>1, <1>2, CutConcat
<1>4. Stream' = Stream /\ Delivered' = Delivered
  BY <1>1, <1>3, Zenon DEF Stream, Delivered
<1> QED
  BY <1>1, <1>4, Zenon DEF Abs!streamVars, Stream, Delivered

\* The end of a read delivers the frames of its bytes.
LEMMA StreamReturn ==
    ASSUME RxInv, Return
    PROVE  Abs!Next
<1> DEFINE n == Len(chunk)
           s == chunk \o line
<1>1. /\ pc = "return" /\ pc' = "wait" /\ UNCHANGED <<line, got, all>>
      /\ chunk \in Seq(Nat) /\ line \in Seq(Nat) /\ n \in 1..(BufSize - 1)
      /\ got = before \o Frames(chunk)
  <2>1. len = n /\ len > 0 /\ len \in 0..(BufSize - 1) /\ BufSize \in Nat
    BY KindNotZero DEF RxInv, Return, TypeOK
  <2> HIDE DEF n
  <2>2. n \in 1..(BufSize - 1)
    BY <2>1
  <2> QED
    BY <2>2 DEF RxInv, Return, TypeOK, Bytes
<1>2. n <= Len(s) /\ SubSeq(s, 1, n) = chunk /\ SubSeq(s, n + 1, Len(s)) = line
  BY <1>1, ConcatCut
<1>3. Stream = s /\ Delivered = before
  BY <1>1 DEF Stream, Delivered
<1>4. Stream' = line /\ Delivered' = got
  BY <1>1 DEF Stream, Delivered
<1>5. n <= Len(Stream) /\ Stream' = SubSeq(Stream, n + 1, Len(Stream))
  BY <1>2, <1>3, <1>4, Zenon
<1>6. Delivered' = Delivered \o Abs!Frames(SubSeq(Stream, 1, n))
  <2>1. Abs!Frames(SubSeq(Stream, 1, n)) = Frames(chunk)
    BY <1>2, <1>3, SameFrames, Zenon
  <2> QED
    BY <1>1, <1>3, <1>4, <2>1, Zenon
<1>7. Len(all') = Len(all)
  BY <1>1
<1>8. Abs!Deliver(n)
  BY <1>5, <1>6, <1>7, Zenon DEF Abs!Deliver, Stream, Delivered
<1> QED
  BY <1>1, <1>5, <1>8, Zenon DEF Abs!Next, Stream

LEMMA StreamNext == RxInv /\ [Next]_vars => [Abs!Next]_Abs!streamVars
<1> SUFFICES ASSUME RxInv, [Next]_vars
             PROVE  [Abs!Next]_Abs!streamVars
  OBVIOUS
<1>1. TypeOK
  BY DEF RxInv
<1>2. ASSUME NEW it \in Items, Arrive(it) PROVE Abs!Next
  BY <1>1, <1>2, StreamArrive, Zenon DEF Abs!Next
<1>3. ASSUME NEW n \in 1..(BufSize - 1), Read(n) PROVE UNCHANGED Abs!streamVars
  BY <1>1, <1>3, StreamRead
<1>4. ASSUME ParseFrame \/ ParsePartial \/ ParseNone PROVE UNCHANGED Abs!streamVars
  <2>1. pc # "wait" /\ pc' # "wait" /\ UNCHANGED <<line, chunk, before, all>>
    BY <1>4 DEF ParseFrame, ParsePartial, ParseNone
  <2>2. Stream' = Stream /\ Delivered' = Delivered
    BY <2>1 DEF Stream, Delivered
  <2> QED
    BY <2>1, <2>2, Zenon DEF Abs!streamVars, Stream, Delivered
<1>5. CASE Return
  BY <1>5, StreamReturn
<1>6. CASE UNCHANGED vars
  <2>1. UNCHANGED <<line, pc, got, chunk, before, all>>
    BY <1>6 DEF vars
  <2>2. Stream' = Stream /\ Delivered' = Delivered
    BY <2>1 DEF Stream, Delivered
  <2> QED
    BY <2>1, <2>2, Zenon DEF Abs!streamVars, Stream, Delivered
<1> QED
  BY <1>2, <1>3, <1>4, <1>5, <1>6, Zenon DEF Next

\* The receive thread, with its buffer, its stale bytes and its memmoves, implements a parser
\* that sees each read by itself: no frame is made of bytes of another read or of consumed
\* bytes, none that is complete is skipped and none is delivered twice.
THEOREM ImplementsPerReadParser == Spec => PerReadParser
BY StreamInit, StreamNext, RxAlways, PTL DEF Spec, PerReadParser, Abs!Spec

-----------------------------------------------------------------------------
(* The frames of two pieces of the stream put together                      *)

\* What holds at a place if it holds at all later ones holds everywhere.
LEMMA Downwards ==
    ASSUME NEW n \in Nat, NEW G,
           \A p \in 1..(n + 1) : (\A q \in 1..(n + 1) : q > p => q \in G) => p \in G
    PROVE  \A p \in 1..(n + 1) : p \in G
<1> DEFINE D == 1..(n + 1)
           B == {m \in Nat : \A p \in D : p > n + 1 - m => p \in G}
<1>1. 0 \in B
  OBVIOUS
<1>2. ASSUME NEW m \in Nat, m \in B
      PROVE  m + 1 \in B
  <2> SUFFICES ASSUME NEW p \in D, p > n + 1 - (m + 1)
               PROVE  p \in G
    OBVIOUS
  <2>1. ASSUME NEW q \in D, q > p
        PROVE  q \in G
    <3>1. q > n + 1 - m
      BY <2>1
    <3> QED
      BY <1>2, <3>1
  <2> QED
    BY <2>1
<1>3. n + 1 \in B
  <2> HIDE DEF B
  <2> QED
    BY <1>1, <1>2, Induction
<1>4. \A p \in D : p > n + 1 - (n + 1)
  OBVIOUS
<1> QED
  BY <1>3, <1>4

LEMMA NextHeaderUnique ==
    ASSUME NEW s \in Seq(Nat), NEW p \in 1..(Len(s) + 1), NEW h \in p..(Len(s) + 1),
           h <= Len(s) => HeaderAt(s, h), \A q \in p..Len(s) : HeaderAt(s, q) => h <= q
    PROVE  NextHeader(s, p) = h
<1> DEFINE g == NextHeader(s, p)
           n == Len(s)
<1>1. /\ g \in p..(n + 1)
      /\ g <= n => HeaderAt(s, g)
      /\ \A q \in p..n : HeaderAt(s, q) => g <= q
  BY NextHeaderIs
<1>2. n \in Nat /\ p \in Nat
  OBVIOUS
<1> HIDE DEF g, n
<1>3. h \in p..(n + 1) /\ (h <= n => HeaderAt(s, h)) /\ \A q \in p..n : HeaderAt(s, q) => h <= q
  BY DEF n
<1>4. g <= n => h <= g
  BY <1>1, <1>2, <1>3
<1>5. h <= n => g <= h
  BY <1>1, <1>2, <1>3
<1>6. g = h
  BY <1>1, <1>2, <1>3, <1>4, <1>5
<1> QED
  BY <1>6 DEF g

\* Places without a header can be skipped.
LEMMA StartsSkip ==
    ASSUME NEW s \in Seq(Nat), NEW t \in 1..(Len(s) + 1), NEW p \in 1..t,
           \A q \in p..(t - 1) : ~HeaderAt(s, q)
    PROVE  StartsFrom(s)[p] = StartsFrom(s)[t]
<1> DEFINE n == Len(s)
           h == NextHeader(s, t)
<1>1. n \in Nat /\ p \in 1..(n + 1) /\ p <= t /\ t \in Nat /\ p \in Nat
  OBVIOUS
<1>2. /\ h \in t..(n + 1)
      /\ h <= n => HeaderAt(s, h)
      /\ \A q \in t..n : HeaderAt(s, q) => h <= q
  BY NextHeaderIs
<1>3. NextHeader(s, p) = h
  <2> HIDE DEF n, h
  <2>1. h \in p..(n + 1)
    BY <1>1, <1>2
  <2>2. ASSUME NEW q \in p..n, HeaderAt(s, q)
        PROVE  h <= q
    <3>1. ~(q \in p..(t - 1))
      BY <2>2
    <3>2. q \in t..n
      BY <1>1, <3>1
    <3> QED
      BY <1>2, <2>2, <3>2
  <2> QED
    BY <1>1, <1>2, <2>1, <2>2, NextHeaderUnique DEF n
<1>4. After(s, p) = After(s, t)
  BY <1>3, Zenon DEF After
<1>5. /\ StartsFrom(s)[p] = IF After(s, p) = 0 THEN <<>> ELSE <<NextHeader(s, p)>> \o StartsFrom(s)[After(s, p)]
      /\ StartsFrom(s)[t] = IF After(s, t) = 0 THEN <<>> ELSE <<NextHeader(s, t)>> \o StartsFrom(s)[After(s, t)]
  BY <1>1, StartsFromIs
<1> HIDE DEF h
<1>6. NextHeader(s, t) = h
  BY DEF h
<1> QED
  BY <1>3, <1>4, <1>5, <1>6

\* What follows the frames at p or behind it begins here.
RestFrom(s, p) ==
    IF StartsFrom(s)[p] = <<>> THEN p ELSE FrameEnd(s, Last(StartsFrom(s)[p])) + 1

LEMMA RestFromIs ==
    ASSUME NEW s \in Seq(Nat), NEW p \in 1..(Len(s) + 1)
    PROVE  /\ After(s, p) = 0 => StartsFrom(s)[p] = <<>> /\ RestFrom(s, p) = p
           /\ After(s, p) # 0 =>
                 /\ After(s, p) \in 1..(Len(s) + 1) /\ After(s, p) > p
                 /\ NextHeader(s, p) \in p..Len(s)
                 /\ CompleteAt(s, NextHeader(s, p))
                 /\ After(s, p) = FrameEnd(s, NextHeader(s, p)) + 1
                 /\ StartsFrom(s)[After(s, p)] \in Seq(Nat)
                 /\ StartsFrom(s)[p] = <<NextHeader(s, p)>> \o StartsFrom(s)[After(s, p)]
                 /\ StartsFrom(s)[p] # <<>>
                 /\ RestFrom(s, p) = RestFrom(s, After(s, p))
<1> DEFINE a == After(s, p)
           h == NextHeader(s, p)
           n == Len(s)
           t == StartsFrom(s)[a]
           u == StartsFrom(s)[p]
<1>1. /\ a \in Nat /\ n \in Nat /\ p \in Nat /\ p >= 1
      /\ a # 0 => /\ h \in p..n /\ CompleteAt(s, h) /\ a = FrameEnd(s, h) + 1
                  /\ h + 3 < a /\ a <= n + 1
  BY AfterIs
<1>2. u = IF a = 0 THEN <<>> ELSE <<h>> \o t
  BY StartsFromIs
<1>3. CASE a = 0
  BY <1>2, <1>3 DEF RestFrom
<1>4. CASE a # 0
  <2>1. a \in 1..(n + 1) /\ a > p /\ h \in Nat
    <3> HIDE DEF a, h, n
    <3> QED
      BY <1>1, <1>4
  <2>2. t \in Seq(Nat)
    BY <2>1, StartsFromIs
  <2> HIDE DEF t, u
  <2>3. u = <<h>> \o t
    BY <1>2, <1>4
  <2>4. Len(u) = 1 + Len(t) /\ Len(t) \in Nat
        /\ \A k \in 1..(1 + Len(t)) : u[k] = IF k <= 1 THEN h ELSE t[k - 1]
    <3>1. <<h>> \in Seq(Nat) /\ Len(<<h>>) = 1 /\ <<h>>[1] = h
      BY <2>1
    <3>2. Len(u) = Len(<<h>>) + Len(t)
          /\ \A k \in 1..(Len(<<h>>) + Len(t)) : u[k] = IF k <= Len(<<h>>) THEN <<h>>[k] ELSE t[k - Len(<<h>>)]
      BY <2>2, <2>3, <3>1, ConcatProperties
    <3> HIDE DEF h
    <3>3. \A k \in Nat : k >= 1 /\ k <= 1 => k = 1
      OBVIOUS
    <3> QED
      BY <2>2, <3>1, <3>2, <3>3
  <2>5. u # <<>>
    BY <2>4
  <2>6. RestFrom(s, p) = FrameEnd(s, u[Len(u)]) + 1
    BY <2>5 DEF RestFrom, Last, u
  <2>7. CASE t = <<>>
    <3>1. Len(t) = 0 /\ u[Len(u)] = h
      BY <2>4, <2>7
    <3>2. RestFrom(s, a) = a
      BY <2>7 DEF RestFrom, t
    <3> QED
      BY <1>1, <1>4, <2>1, <2>2, <2>3, <2>5, <2>6, <3>1, <3>2 DEF t, u
  <2>8. CASE t # <<>>
    <3>1. Len(t) > 0
      BY <2>2, <2>8, EmptySeq
    <3>2. u[Len(u)] = t[Len(t)]
      <4>1. Len(u) \in 1..(1 + Len(t)) /\ ~(Len(u) <= 1) /\ Len(u) - 1 = Len(t)
        BY <2>4, <3>1
      <4> QED
        BY <2>4, <4>1
    <3>3. RestFrom(s, a) = FrameEnd(s, t[Len(t)]) + 1
      BY <2>8 DEF RestFrom, Last, t
    <3> QED
      BY <1>1, <1>4, <2>1, <2>2, <2>3, <2>5, <2>6, <3>2, <3>3 DEF t, u
  <2> QED
    BY <2>7, <2>8
<1> QED
  BY <1>3, <1>4

\* A place put in front of a sequence of places.
LEMMA FrontPlace ==
    ASSUME NEW h \in Nat, NEW t \in Seq(Nat)
    PROVE  /\ <<h>> \o t \in Seq(Nat) /\ Len(<<h>> \o t) = Len(t) + 1
           /\ (<<h>> \o t)[1] = h
           /\ \A k \in 1..Len(t) : (<<h>> \o t)[k + 1] = t[k]
           /\ \A k \in 1..(Len(t) + 1) : k = 1 \/ (k - 1 \in 1..Len(t) /\ (<<h>> \o t)[k] = t[k - 1])
<1> DEFINE u == <<h>> \o t
           n == Len(t)
<1>1. n \in Nat
  OBVIOUS
<1>2. /\ u \in Seq(Nat) /\ Len(u) = 1 + n
      /\ \A k \in 1..(1 + n) : u[k] = IF k <= 1 THEN <<h>>[k] ELSE t[k - 1]
  <2>1. <<h>> \in Seq(Nat) /\ Len(<<h>>) = 1
    OBVIOUS
  <2>2. /\ u \in Seq(Nat) /\ Len(u) = Len(<<h>>) + n
        /\ \A k \in 1..(Len(<<h>>) + n) : u[k] = IF k <= Len(<<h>>) THEN <<h>>[k] ELSE t[k - Len(<<h>>)]
    BY <2>1, ConcatProperties
  <2> HIDE DEF u, n
  <2> QED
    BY <2>1, <2>2
<1> HIDE DEF u, n
<1>3. u[1] = h
  <2>1. 1 \in 1..(1 + n) /\ <<h>>[1] = h
    BY <1>1
  <2> QED
    BY <1>2, <2>1
<1>4. ASSUME NEW k \in 1..n
      PROVE  u[k + 1] = t[k]
  <2>1. k + 1 \in 1..(1 + n) /\ ~(k + 1 <= 1) /\ (k + 1) - 1 = k
    BY <1>1
  <2> QED
    BY <1>2, <2>1
<1>5. ASSUME NEW k \in 1..(n + 1), k # 1
      PROVE  k - 1 \in 1..n /\ u[k] = t[k - 1]
  <2>1. k - 1 \in 1..n /\ (k - 1) + 1 = k
    BY <1>1, <1>5
  <2> QED
    BY <1>4, <2>1
<1>6. 1 + n = n + 1
  BY <1>1
<1> QED
  BY <1>2, <1>3, <1>4, <1>5, <1>6 DEF u, n

\* Complete frames begin at all the places found, and what follows them begins in s or
\* right behind it.
LEMMA SoundFrom ==
    ASSUME NEW s \in Seq(Nat)
    PROVE  \A p \in 1..(Len(s) + 1) : Sound(s, StartsFrom(s)[p]) /\ RestFrom(s, p) \in p..(Len(s) + 1)
<1> DEFINE n == Len(s)
           G == {p \in 1..(n + 1) : Sound(s, StartsFrom(s)[p]) /\ RestFrom(s, p) \in p..(n + 1)}
<1>1. n \in Nat
  OBVIOUS
<1>2. ASSUME NEW p \in 1..(n + 1), \A q \in 1..(n + 1) : q > p => q \in G
      PROVE  p \in G
  <2> DEFINE a == After(s, p)
             h == NextHeader(s, p)
  <2>1. CASE a = 0
    <3>1. StartsFrom(s)[p] = <<>> /\ RestFrom(s, p) = p
      BY <2>1, RestFromIs
    <3>2. Sound(s, <<>>)
      BY DEF Sound
    <3>3. p \in p..(n + 1)
      BY <1>1
    <3> QED
      BY <3>1, <3>2, <3>3
  <2>2. CASE a # 0
    <3> DEFINE t == StartsFrom(s)[a]
    <3>1. /\ a \in 1..(n + 1) /\ a > p /\ h \in p..n /\ CompleteAt(s, h) /\ t \in Seq(Nat)
          /\ StartsFrom(s)[p] = <<h>> \o t
          /\ RestFrom(s, p) = RestFrom(s, a)
      BY <2>2, RestFromIs
    <3>2. a \in G
      BY <1>2, <3>1
    <3>3. Sound(s, t) /\ RestFrom(s, a) \in a..(n + 1)
      BY <3>2
    <3> HIDE DEF a, h, t, G
    <3>4. h \in Nat /\ h \in 1..n
      BY <1>1, <3>1
    <3>5. Sound(s, <<h>> \o t)
      <4> DEFINE u == <<h>> \o t
      <4>1. /\ u \in Seq(Nat) /\ Len(u) = Len(t) + 1 /\ u[1] = h
            /\ \A k \in 1..(Len(t) + 1) : k = 1 \/ (k - 1 \in 1..Len(t) /\ u[k] = t[k - 1])
        BY <3>1, <3>4, FrontPlace
      <4> HIDE DEF u
      <4>2. ASSUME NEW k \in 1..Len(u)
            PROVE  u[k] \in 1..Len(s) /\ CompleteAt(s, u[k])
        <5>1. CASE k = 1
          BY <3>1, <3>4, <4>1, <5>1 DEF n
        <5>2. CASE k # 1
          <6>1. k - 1 \in 1..Len(t) /\ u[k] = t[k - 1]
            BY <4>1, <5>2
          <6> QED
            BY <3>3, <6>1 DEF Sound
        <5> QED
          BY <5>1, <5>2
      <4>3. Sound(s, u)
        BY <4>1, <4>2 DEF Sound
      <4> QED
        BY <4>3 DEF u
    <3>6. RestFrom(s, p) \in p..(n + 1)
      BY <1>1, <3>1, <3>3
    <3> QED
      BY <3>1, <3>5, <3>6 DEF G
  <2> QED
    BY <2>1, <2>2
<1>3. \A p \in 1..(n + 1) : p \in G
  <2> HIDE DEF G, n
  <2> QED
    BY <1>1, <1>2, Downwards
<1> QED
  BY <1>3

\* s is r with x behind it.
Joined(s, r, x) ==
    /\ s \in Seq(Nat) /\ r \in Seq(Nat) /\ x \in Seq(Nat)
    /\ Len(s) = Len(r) + Len(x)
    /\ \A k \in 1..Len(r) : s[k] = r[k]
    /\ \A k \in 1..Len(x) : s[Len(r) + k] = x[k]

LEMMA Joining ==
    ASSUME NEW r \in Seq(Nat), NEW x \in Seq(Nat)
    PROVE  Joined(r \o x, r, x)
<1> DEFINE s == r \o x
           m == Len(r)
           n == Len(x)
<1>1. /\ s \in Seq(Nat) /\ Len(s) = m + n
      /\ \A k \in 1..(m + n) : s[k] = IF k <= m THEN r[k] ELSE x[k - m]
  BY ConcatProperties
<1>2. m \in Nat /\ n \in Nat
  OBVIOUS
<1> HIDE DEF s, m, n
<1>3. \A k \in 1..m : k \in 1..(m + n) /\ k <= m
  BY <1>2
<1>4. \A k \in 1..n : m + k \in 1..(m + n) /\ ~(m + k <= m) /\ (m + k) - m = k
  BY <1>2
<1>5. (\A k \in 1..m : s[k] = r[k]) /\ (\A k \in 1..n : s[m + k] = x[k])
  BY <1>1, <1>3, <1>4
<1> QED
  BY <1>1, <1>5 DEF Joined, s, m, n

\* Headers and frames in the second piece.
LEMMA InSecond ==
    ASSUME NEW s, NEW r, NEW x, Joined(s, r, x), NEW q \in 1..Len(x)
    PROVE  /\ HeaderAt(s, Len(r) + q) <=> HeaderAt(x, q)
           /\ CompleteAt(s, Len(r) + q) <=> CompleteAt(x, q)
           /\ CompleteAt(x, q) => FrameEnd(s, Len(r) + q) = Len(r) + FrameEnd(x, q)
<1> DEFINE m == Len(r)
           n == Len(x)
<1>1. m \in Nat /\ n \in Nat /\ Len(s) = m + n /\ \A k \in 1..n : s[m + k] = x[k] /\ x[k] \in Nat
  BY SMTT(30) DEF Joined
<1> HIDE DEF m, n
<1>2. q \in 1..n
  BY DEF n
<1>3. HeaderAt(s, m + q) <=> HeaderAt(x, q)
  <2>1. s[m + q] = x[q] /\ (m + q < m + n <=> q < n)
    BY <1>1, <1>2
  <2>2. q < n => q + 1 \in 1..n /\ m + (q + 1) = m + q + 1
    BY <1>1, <1>2
  <2>3. q < n => s[m + q + 1] = x[q + 1]
    BY <1>1, <2>2
  <2> QED
    BY <1>1, <2>1, <2>3 DEF HeaderAt, n
<1>4. q + 3 <= n => s[m + q + 2] = x[q + 2] /\ s[m + q + 3] = x[q + 3] /\ x[q + 2] \in Nat /\ x[q + 3] \in Nat
  <2> SUFFICES ASSUME q + 3 <= n
               PROVE  s[m + q + 2] = x[q + 2] /\ s[m + q + 3] = x[q + 3] /\ x[q + 2] \in Nat /\ x[q + 3] \in Nat
    OBVIOUS
  <2>1. q + 2 \in 1..n /\ q + 3 \in 1..n /\ m + (q + 2) = m + q + 2 /\ m + (q + 3) = m + q + 3
    BY <1>1, <1>2
  <2>2. s[m + (q + 2)] = x[q + 2] /\ s[m + (q + 3)] = x[q + 3] /\ x[q + 2] \in Nat /\ x[q + 3] \in Nat
    BY <1>1, <2>1
  <2> QED
    BY <2>1, <2>2
<1>5. m + q + 3 <= m + n <=> q + 3 <= n
  BY <1>1, <1>2
<1> DEFINE a == x[q + 2]
           b == x[q + 3]
<1>6. CASE q + 3 <= n
  <2>1. a \in Nat /\ b \in Nat /\ s[m + q + 2] = a /\ s[m + q + 3] = b
    BY <1>4, <1>6
  <2>2. CompleteAt(s, m + q) <=> m + q + 3 + a + 256 * b <= m + n
    BY <1>1, <1>5, <1>6, <2>1 DEF CompleteAt
  <2>3. CompleteAt(x, q) <=> q + 3 + a + 256 * b <= n
    BY <1>6 DEF CompleteAt, n
  <2>4. FrameEnd(s, m + q) = m + q + 3 + a + 256 * b /\ FrameEnd(x, q) = q + 3 + a + 256 * b
    BY <2>1 DEF FrameEnd
  <2> HIDE DEF a, b
  <2>5. 256 * b \in Nat
    BY <2>1
  <2> DEFINE c == 256 * b
  <2> HIDE DEF c
  <2>6. c \in Nat
    BY <2>5 DEF c
  <2>7. (m + q + 3 + a + c <= m + n <=> q + 3 + a + c <= n) /\ m + q + 3 + a + c = m + (q + 3 + a + c)
    BY <1>1, <1>2, <2>1, <2>6
  <2> QED
    BY <1>3, <2>2, <2>3, <2>4, <2>7 DEF c, m
<1>7. CASE ~(q + 3 <= n)
  <2>1. ~CompleteAt(x, q) /\ ~CompleteAt(s, m + q)
    BY <1>1, <1>5, <1>7 DEF CompleteAt, n
  <2> QED
    BY <1>3, <2>1 DEF m
<1> QED
  BY <1>6, <1>7

\* Places counted from m on.
Shifted(t, m) == [k \in DOMAIN t |-> m + t[k]]

LEMMA ShiftedIs ==
    ASSUME NEW t \in Seq(Nat), NEW m \in Nat
    PROVE  /\ Shifted(t, m) \in Seq(Nat) /\ Len(Shifted(t, m)) = Len(t)
           /\ \A k \in 1..Len(t) : Shifted(t, m)[k] = m + t[k]
<1>1. DOMAIN t = 1..Len(t) /\ Len(t) \in Nat /\ \A k \in 1..Len(t) : t[k] \in Nat
  OBVIOUS
<1>2. \A k \in 1..Len(t) : m + t[k] \in Nat
  BY <1>1
<1>3. Shifted(t, m) \in [1..Len(t) -> Nat]
  BY <1>1, <1>2 DEF Shifted
<1> QED
  BY <1>1, <1>3 DEF Shifted

LEMMA ShiftedFront ==
    ASSUME NEW h \in Nat, NEW t \in Seq(Nat), NEW m \in Nat
    PROVE  Shifted(<<h>> \o t, m) = <<m + h>> \o Shifted(t, m)
<1> DEFINE u == <<h>> \o t
           v == Shifted(t, m)
           n == Len(t)
           a == Shifted(u, m)
           b == <<m + h>> \o v
<1>1. /\ u \in Seq(Nat) /\ Len(u) = n + 1 /\ u[1] = h
      /\ \A k \in 1..(n + 1) : k = 1 \/ (k - 1 \in 1..n /\ u[k] = t[k - 1])
  BY FrontPlace
<1>2. v \in Seq(Nat) /\ Len(v) = n /\ \A k \in 1..n : v[k] = m + t[k]
  BY ShiftedIs
<1>3. m + h \in Nat /\ n \in Nat
  OBVIOUS
<1> HIDE DEF u, v, n
<1>4. a \in Seq(Nat) /\ Len(a) = n + 1 /\ \A k \in 1..(n + 1) : a[k] = m + u[k]
  BY <1>1, ShiftedIs
<1>5. /\ b \in Seq(Nat) /\ Len(b) = n + 1 /\ b[1] = m + h
      /\ \A k \in 1..(n + 1) : k = 1 \/ (k - 1 \in 1..n /\ b[k] = v[k - 1])
  BY <1>2, <1>3, FrontPlace
<1> HIDE DEF a, b
<1>6. ASSUME NEW k \in 1..(n + 1)
      PROVE  a[k] = b[k]
  <2>1. a[k] = m + u[k]
    BY <1>4
  <2>2. CASE k = 1
    BY <1>1, <1>5, <2>1, <2>2
  <2>3. CASE k # 1
    <3>1. k - 1 \in 1..n /\ u[k] = t[k - 1] /\ b[k] = v[k - 1]
      BY <1>1, <1>5, <2>3
    <3>2. v[k - 1] = m + t[k - 1]
      BY <1>2, <3>1
    <3> QED
      BY <2>1, <3>1, <3>2
  <2> QED
    BY <2>2, <2>3
<1>7. a = b
  BY <1>4, <1>5, <1>6, SeqEqual
<1> QED
  BY <1>7 DEF a, b, u, v

\* The search of the second piece in the whole goes as it does in the piece itself.
LEMMA AfterShift ==
    ASSUME NEW s, NEW r, NEW x, Joined(s, r, x), NEW p \in 1..(Len(x) + 1)
    PROVE  /\ NextHeader(s, Len(r) + p) = Len(r) + NextHeader(x, p)
           /\ After(s, Len(r) + p) = IF After(x, p) = 0 THEN 0 ELSE Len(r) + After(x, p)
<1> DEFINE m == Len(r)
           n == Len(x)
           h == NextHeader(x, p)
           g == NextHeader(s, m + p)
<1>1. /\ s \in Seq(Nat) /\ x \in Seq(Nat) /\ m \in Nat /\ n \in Nat /\ Len(s) = m + n
      /\ p \in 1..(n + 1) /\ m + p \in 1..(Len(s) + 1) /\ p \in Nat
  BY DEF Joined
<1>2. /\ h \in p..(n + 1)
      /\ h <= n => HeaderAt(x, h)
      /\ \A q \in p..n : HeaderAt(x, q) => h <= q
  BY <1>1, NextHeaderIs
<1>a. \A q \in 1..n : HeaderAt(s, m + q) <=> HeaderAt(x, q)
  BY InSecond
<1> HIDE DEF n, m, h
<1>3. g = m + h
  <2>1. m + h \in (m + p)..(Len(s) + 1)
    BY <1>1, <1>2
  <2>2. m + h <= Len(s) => HeaderAt(s, m + h)
    <3> SUFFICES ASSUME m + h <= Len(s)
                 PROVE  HeaderAt(s, m + h)
      OBVIOUS
    <3>1. h \in 1..n /\ h <= n
      BY <1>1, <1>2
    <3> QED
      BY <1>2, <1>a, <3>1
  <2>3. ASSUME NEW q \in (m + p)..Len(s), HeaderAt(s, q)
        PROVE  m + h <= q
    <3>1. q - m \in 1..n /\ q - m \in p..n /\ m + (q - m) = q
      BY <1>1
    <3>2. HeaderAt(x, q - m)
      BY <1>a, <2>3, <3>1
    <3>3. h <= q - m
      BY <1>2, <3>1, <3>2
    <3> QED
      BY <1>1, <1>2, <3>1, <3>3
  <2> QED
    BY <1>1, <2>1, <2>2, <2>3, NextHeaderUnique
<1>4. h \in Nat
  BY <1>1, <1>2
<1>5. CASE h > n
  <2>1. m + h > Len(s)
    BY <1>1, <1>4, <1>5
  <2>2. After(s, m + p) = 0
    BY <1>3, <2>1 DEF After
  <2>3. After(x, p) = 0
    BY <1>5 DEF After, h, n
  <2> QED
    BY <1>3, <2>2, <2>3 DEF h, m
<1>6. CASE h <= n
  <2>1. h \in 1..n /\ ~(h > n) /\ ~(m + h > Len(s))
    BY <1>1, <1>2, <1>6
  <2>2. /\ CompleteAt(s, m + h) <=> CompleteAt(x, h)
        /\ CompleteAt(x, h) => FrameEnd(s, m + h) = m + FrameEnd(x, h)
    BY <2>1, InSecond DEF m, n
  <2>3. CASE ~CompleteAt(x, h)
    <3>1. After(s, m + p) = 0
      BY <1>3, <2>2, <2>3 DEF After
    <3>2. After(x, p) = 0
      BY <2>3 DEF After, h
    <3> QED
      BY <1>3, <3>1, <3>2 DEF h, m
  <2>4. CASE CompleteAt(x, h)
    <3>1. After(s, m + p) = FrameEnd(s, m + h) + 1
      BY <1>3, <2>1, <2>2, <2>4 DEF After
    <3>2. After(x, p) = FrameEnd(x, h) + 1
      BY <2>1, <2>4 DEF After, h, n
    <3>3. FrameEnd(x, h) \in (h + 3)..n
      BY <1>1, <2>1, <2>4, FrameEndIs DEF n
    <3>4. FrameEnd(x, h) \in Nat
      BY <1>1, <1>4, <3>3
    <3> DEFINE e == FrameEnd(x, h)
    <3>5. e \in Nat /\ After(x, p) = e + 1 /\ After(s, m + p) = (m + e) + 1
      BY <2>2, <2>4, <3>1, <3>2, <3>4
    <3> HIDE DEF e
    <3>6. After(x, p) # 0 /\ After(s, m + p) = m + After(x, p)
      BY <1>1, <3>5
    <3> QED
      BY <1>3, <3>6 DEF h, m
  <2> QED
    BY <2>3, <2>4
<1> QED
  BY <1>1, <1>4, <1>5, <1>6

LEMMA StartsShift ==
    ASSUME NEW s, NEW r, NEW x, Joined(s, r, x)
    PROVE  \A p \in 1..(Len(x) + 1) : StartsFrom(s)[Len(r) + p] = Shifted(StartsFrom(x)[p], Len(r))
<1> DEFINE m == Len(r)
           n == Len(x)
           G == {p \in 1..(n + 1) : StartsFrom(s)[m + p] = Shifted(StartsFrom(x)[p], m)}
<1>1. s \in Seq(Nat) /\ x \in Seq(Nat) /\ m \in Nat /\ n \in Nat /\ Len(s) = m + n
  BY DEF Joined
<1>2. ASSUME NEW p \in 1..(n + 1), \A q \in 1..(n + 1) : q > p => q \in G
      PROVE  p \in G
  <2> DEFINE a == After(x, p)
             h == NextHeader(x, p)
             t == StartsFrom(x)[a]
  <2>1. NextHeader(s, m + p) = m + h /\ After(s, m + p) = IF a = 0 THEN 0 ELSE m + a
    BY <1>1, AfterShift
  <2>2. m + p \in 1..(Len(s) + 1)
    BY <1>1
  <2>3. CASE a = 0
    <3>1. StartsFrom(x)[p] = <<>>
      BY <1>1, <2>3, RestFromIs
    <3>2. StartsFrom(s)[m + p] = <<>>
      BY <1>1, <2>1, <2>2, <2>3, RestFromIs
    <3>3. Shifted(<<>>, m) \in Seq(Nat) /\ Len(Shifted(<<>>, m)) = 0
      <4>1. \A w \in Seq(Nat) : Shifted(w, m) \in Seq(Nat) /\ Len(Shifted(w, m)) = Len(w)
        BY <1>1, ShiftedIs
      <4>2. <<>> \in Seq(Nat) /\ Len(<<>>) = 0
        OBVIOUS
      <4> QED
        BY <4>1, <4>2, Zenon
    <3>4. Shifted(<<>>, m) = <<>>
      BY <3>3, EmptySeq
    <3> QED
      BY <3>1, <3>2, <3>4
  <2>4. CASE a # 0
    <3>1. a \in 1..(n + 1) /\ a > p /\ h \in p..n /\ t \in Seq(Nat) /\ StartsFrom(x)[p] = <<h>> \o t
      BY <1>1, <2>4, RestFromIs
    <3>2. StartsFrom(s)[m + a] = Shifted(t, m)
      BY <1>2, <3>1
    <3>3. m + a # 0 /\ h \in Nat
      <4> HIDE DEF a, h
      <4> QED
        BY <1>1, <3>1
    <3>4. StartsFrom(s)[m + p] = <<NextHeader(s, m + p)>> \o StartsFrom(s)[After(s, m + p)]
      BY <1>1, <2>1, <2>2, <2>4, <3>3, RestFromIs
    <3>5. StartsFrom(s)[m + p] = <<m + h>> \o Shifted(t, m)
      BY <2>1, <2>4, <3>2, <3>4
    <3>6. Shifted(<<h>> \o t, m) = <<m + h>> \o Shifted(t, m)
      BY <1>1, <3>1, <3>3, ShiftedFront
    <3>7. StartsFrom(s)[m + p] = Shifted(StartsFrom(x)[p], m)
      BY <3>1, <3>5, <3>6
    <3> QED
      BY <3>7
  <2> QED
    BY <2>3, <2>4
<1>3. \A p \in 1..(n + 1) : p \in G
  <2> HIDE DEF G, n
  <2> QED
    BY <1>1, <1>2, Downwards
<1> QED
  BY <1>3

\* Headers and frames in the first piece.
LEMMA InFirst ==
    ASSUME NEW s, NEW r, NEW x, Joined(s, r, x), NEW q \in 1..Len(r)
    PROVE  /\ q < Len(r) => (HeaderAt(s, q) <=> HeaderAt(r, q))
           /\ CompleteAt(r, q) => CompleteAt(s, q) /\ FrameEnd(s, q) = FrameEnd(r, q)
           /\ CompleteAt(s, q) /\ FrameEnd(s, q) <= Len(r) =>
                 CompleteAt(r, q) /\ FrameEnd(s, q) = FrameEnd(r, q)
<1> DEFINE m == Len(r)
           n == Len(x)
<1>1. m \in Nat /\ n \in Nat /\ Len(s) = m + n /\ \A k \in 1..m : s[k] = r[k] /\ r[k] \in Nat
  BY SMTT(30) DEF Joined
<1>0. \A k \in 1..(m + n) : s[k] \in Nat
  BY <1>1 DEF Joined
<1> HIDE DEF m, n
<1>2. q \in 1..m /\ q \in Nat
  BY DEF m
<1>3. q < m => (HeaderAt(s, q) <=> HeaderAt(r, q))
  <2> SUFFICES ASSUME q < m
               PROVE  HeaderAt(s, q) <=> HeaderAt(r, q)
    OBVIOUS
  <2>1. q \in 1..m /\ q + 1 \in 1..m /\ q < m + n
    BY <1>1, <1>2
  <2>2. s[q] = r[q] /\ s[q + 1] = r[q + 1]
    BY <1>1, <2>1
  <2> QED
    BY <1>1, <2>1, <2>2 DEF HeaderAt, m
<1>4. q + 3 <= m => s[q + 2] = r[q + 2] /\ s[q + 3] = r[q + 3] /\ r[q + 2] \in Nat /\ r[q + 3] \in Nat
  <2> SUFFICES ASSUME q + 3 <= m
               PROVE  s[q + 2] = r[q + 2] /\ s[q + 3] = r[q + 3] /\ r[q + 2] \in Nat /\ r[q + 3] \in Nat
    OBVIOUS
  <2>1. q + 2 \in 1..m /\ q + 3 \in 1..m
    BY <1>1, <1>2
  <2> QED
    BY <1>1, <2>1
<1>5. CompleteAt(r, q) => CompleteAt(s, q) /\ FrameEnd(s, q) = FrameEnd(r, q)
  <2> SUFFICES ASSUME CompleteAt(r, q)
               PROVE  CompleteAt(s, q) /\ FrameEnd(s, q) = FrameEnd(r, q)
    OBVIOUS
  <2> DEFINE e == q + 3 + r[q + 2] + 256 * r[q + 3]
  <2>1. q + 3 <= m /\ e <= m
    BY DEF CompleteAt, m
  <2>2. s[q + 2] = r[q + 2] /\ s[q + 3] = r[q + 3]
    BY <1>4, <2>1
  <2>3. e \in (q + 3)..m
    <3>1. FrameEnd(r, q) \in (q + 3)..Len(r)
      BY FrameEndIs DEF Joined
    <3> QED
      BY <3>1 DEF FrameEnd, m
  <2>4. FrameEnd(s, q) = e /\ FrameEnd(r, q) = e
    BY <2>2 DEF FrameEnd
  <2>5. CompleteAt(s, q) <=> q + 3 <= m + n /\ e <= m + n
    BY <1>1, <2>2 DEF CompleteAt
  <2> HIDE DEF e
  <2>6. q + 3 <= m + n /\ e <= m + n
    BY <1>1, <1>2, <2>1, <2>3
  <2> QED
    BY <2>4, <2>5, <2>6
<1>6. CompleteAt(s, q) /\ FrameEnd(s, q) <= m => CompleteAt(r, q)
  <2> SUFFICES ASSUME CompleteAt(s, q), FrameEnd(s, q) <= m
               PROVE  CompleteAt(r, q)
    OBVIOUS
  <2>1. FrameEnd(s, q) \in (q + 3)..Len(s)
    <3>1. s \in Seq(Nat) /\ q \in 1..Len(s)
      BY <1>1, <1>2 DEF Joined
    <3> QED
      BY <3>1, FrameEndIs
  <2>2. q + 3 <= m
    <3> DEFINE e == FrameEnd(s, q)
    <3>1. e \in (q + 3)..(m + n) /\ e <= m
      BY <1>1, <2>1
    <3> HIDE DEF e
    <3> QED
      BY <1>1, <1>2, <3>1
  <2>3. s[q + 2] = r[q + 2] /\ s[q + 3] = r[q + 3]
    BY <1>4, <2>2
  <2>4. q + 3 + r[q + 2] + 256 * r[q + 3] <= m
    BY <2>3 DEF FrameEnd
  <2> QED
    BY <2>2, <2>4 DEF CompleteAt, m
<1> QED
  BY <1>3, <1>5, <1>6 DEF m

\* If no header begins in r behind its frames, not even one whose second byte is the first of
\* x, the frames of s begin where those of r do and then where they do behind r.
LEMMA StartsJoin ==
    ASSUME NEW s, NEW r, NEW x, Joined(s, r, x)
    PROVE  \A p \in 1..(Len(r) + 1) :
              (\A q \in RestFrom(r, p)..Len(r) : ~HeaderAt(s, q)) =>
                 StartsFrom(s)[p] = StartsFrom(r)[p] \o StartsFrom(s)[Len(r) + 1]
<1> DEFINE m == Len(r)
           Z == StartsFrom(s)[m + 1]
           Quiet(p) == \A q \in RestFrom(r, p)..m : ~HeaderAt(s, q)
           G == {p \in 1..(m + 1) : Quiet(p) => StartsFrom(s)[p] = StartsFrom(r)[p] \o Z}
<1>1. /\ s \in Seq(Nat) /\ r \in Seq(Nat) /\ m \in Nat /\ Len(s) \in Nat /\ m <= Len(s)
  BY DEF Joined
<1>2. Z \in Seq(Nat)
  <2>1. m + 1 \in 1..(Len(s) + 1)
    BY <1>1
  <2> QED
    BY <1>1, <2>1, StartsFromIs
<1>3. ASSUME NEW p \in 1..(m + 1), \A q \in 1..(m + 1) : q > p => q \in G, Quiet(p)
      PROVE  StartsFrom(s)[p] = StartsFrom(r)[p] \o Z
  <2> DEFINE a == After(r, p)
             h == NextHeader(r, p)
             t == StartsFrom(r)[a]
  <2>0. p \in 1..(Len(s) + 1) /\ p \in Nat
    BY <1>1
  <2>1. CASE a = 0
    <3>1. StartsFrom(r)[p] = <<>> /\ RestFrom(r, p) = p
      BY <1>1, <2>1, RestFromIs
    <3>2. \A q \in p..((m + 1) - 1) : ~HeaderAt(s, q)
      <4>1. (m + 1) - 1 = m
        BY <1>1
      <4> QED
        BY <1>3, <3>1, <4>1
    <3>3. StartsFrom(s)[p] = Z
      <4>1. m + 1 \in 1..(Len(s) + 1)
        BY <1>1
      <4> QED
        BY <1>1, <3>2, <4>1, StartsSkip
    <3> HIDE DEF Z
    <3>4. <<>> \o Z = Z
      BY <1>2, ConcatEmptySeq
    <3> QED
      BY <3>1, <3>3, <3>4
  <2>2. CASE a # 0
    <3>1. /\ a \in 1..(m + 1) /\ a > p /\ h \in p..m /\ CompleteAt(r, h) /\ a = FrameEnd(r, h) + 1
          /\ t \in Seq(Nat) /\ StartsFrom(r)[p] = <<h>> \o t
          /\ RestFrom(r, p) = RestFrom(r, a)
      BY <1>1, <2>2, RestFromIs
    <3>2. /\ h <= m => HeaderAt(r, h)
          /\ \A q \in p..m : HeaderAt(r, q) => h <= q
      BY <1>1, NextHeaderIs
    <3> HIDE DEF h
    <3>3. h \in Nat /\ h <= m /\ h \in 1..m /\ HeaderAt(r, h) /\ h >= p
      BY <1>1, <2>0, <3>1, <3>2
    <3>4. h < m
      BY <3>3 DEF HeaderAt
    <3>5. NextHeader(s, p) = h
      <4>1. HeaderAt(s, h) /\ h \in p..(Len(s) + 1)
        BY <1>1, <2>0, <3>3, <3>4, InFirst
      <4>2. ASSUME NEW q \in p..Len(s), HeaderAt(s, q)
            PROVE  h <= q
        <5>1. CASE q < m
          <6>1. q \in 1..m /\ q \in p..m
            BY <1>1, <2>0, <5>1
          <6> QED
            BY <3>2, <4>2, <5>1, <6>1, InFirst
        <5>2. CASE ~(q < m)
          BY <1>1, <2>0, <3>3, <3>4, <5>2
        <5> QED
          BY <5>1, <5>2
      <4> QED
        BY <1>1, <2>0, <4>1, <4>2, NextHeaderUnique
    <3>6. CompleteAt(s, h) /\ FrameEnd(s, h) = FrameEnd(r, h)
      BY <3>1, <3>3, InFirst
    <3>7. After(s, p) = a
      <4>1. ~(h > Len(s))
        BY <1>1, <3>3
      <4>2. After(s, p) = FrameEnd(s, h) + 1
        BY <3>5, <3>6, <4>1 DEF After
      <4> QED
        BY <3>1, <3>6, <4>2
    <3> HIDE DEF a, t, Z
    <3>8. StartsFrom(s)[p] = <<h>> \o StartsFrom(s)[a]
      BY <1>1, <2>0, <2>2, <3>5, <3>7, RestFromIs
    <3>9. Quiet(a)
      BY <1>3, <3>1
    <3>10. StartsFrom(s)[a] = t \o Z
      BY <1>3, <3>1, <3>9 DEF t
    <3>11. (<<h>> \o t) \o Z = <<h>> \o (t \o Z)
      <4>1. <<h>> \in Seq(Nat)
        BY <3>3
      <4> QED
        BY <1>2, <3>1, <4>1, Associative, Zenon
    <3> QED
      BY <3>1, <3>8, <3>10, <3>11
  <2> QED
    BY <2>1, <2>2
<1>4. \A p \in 1..(m + 1) : p \in G
  <2>1. ASSUME NEW p \in 1..(m + 1), \A q \in 1..(m + 1) : q > p => q \in G
        PROVE  p \in G
    BY <1>3, <2>1
  <2> HIDE DEF G, m
  <2> QED
    BY <1>1, <2>1, Downwards
<1> QED
  BY <1>4

LEMMA FrameInFirst ==
    ASSUME NEW s, NEW r, NEW x, Joined(s, r, x), NEW q \in 1..Len(r), CompleteAt(r, q)
    PROVE  SubSeq(s, q, FrameEnd(s, q)) = SubSeq(r, q, FrameEnd(r, q))
<1>1. s \in Seq(Nat) /\ r \in Seq(Nat) /\ Len(r) \in Nat /\ Len(s) \in Nat /\ Len(r) <= Len(s)
      /\ q \in 1..Len(s) /\ q \in Nat
  BY SMTT(30) DEF Joined
<1>2. PICK e : e = FrameEnd(r, q)
  OBVIOUS
<1>3. CompleteAt(s, q) /\ FrameEnd(s, q) = e
  BY <1>2, InFirst
<1> DEFINE a == SubSeq(s, q, e)
           b == SubSeq(r, q, e)
<1>4. e \in (q + 3)..Len(r)
  BY <1>1, <1>2, FrameEndIs
<1>5. b \in Seq(Nat) /\ Len(b) = e - q + 1 /\ \A k \in 1..(e - q + 1) : b[k] = r[q + k - 1]
  BY <1>1, <1>2, FrameIs
<1>6. a \in Seq(Nat) /\ Len(a) = e - q + 1 /\ \A k \in 1..(e - q + 1) : a[k] = s[q + k - 1]
  BY <1>1, <1>3, FrameIs
<1> HIDE DEF a, b
<1>7. \A k \in 1..(e - q + 1) : q + k - 1 \in 1..Len(r)
  BY <1>1, <1>4
<1>8. \A k \in 1..(e - q + 1) : a[k] = b[k]
  BY <1>5, <1>6, <1>7 DEF Joined
<1>9. a = b
  BY <1>5, <1>6, <1>8, SeqEqual
<1> QED
  BY <1>2, <1>3, <1>9 DEF a, b

FrameAt(s, p) == SubSeq(s, p, FrameEnd(s, p))

LEMMA FrameInSecond ==
    ASSUME NEW s, NEW r, NEW x, Joined(s, r, x)
    PROVE  \A q \in 1..Len(x) : CompleteAt(x, q) => FrameAt(s, Len(r) + q) = FrameAt(x, q)
<1> SUFFICES ASSUME NEW q \in 1..Len(x), CompleteAt(x, q)
             PROVE  FrameAt(s, Len(r) + q) = FrameAt(x, q)
  OBVIOUS
<1> DEFINE m == Len(r)
           e == FrameEnd(x, q)
<1>1. /\ s \in Seq(Nat) /\ x \in Seq(Nat) /\ m \in Nat /\ Len(x) \in Nat /\ Len(s) = m + Len(x)
      /\ q \in Nat /\ m + q \in 1..Len(s)
  BY SMTT(30) DEF Joined
<1>2. CompleteAt(s, m + q) /\ FrameEnd(s, m + q) = m + e
  BY InSecond
<1>3. e \in (q + 3)..Len(x) /\ e \in Nat
  <2>1. e \in (q + 3)..Len(x)
    BY <1>1, FrameEndIs
  <2> HIDE DEF e
  <2> QED
    BY <1>1, <2>1
<1>4. PICK w, f : w = m + q /\ f = m + e
  OBVIOUS
<1>5. w \in 1..Len(s) /\ CompleteAt(s, w) /\ FrameEnd(s, w) = f
  BY <1>1, <1>2, <1>4
<1> DEFINE a == SubSeq(s, w, f)
           b == SubSeq(x, q, e)
<1>6. b \in Seq(Nat) /\ Len(b) = e - q + 1 /\ \A k \in 1..(e - q + 1) : b[k] = x[q + k - 1]
  BY <1>1, FrameIs
<1>7. a \in Seq(Nat) /\ Len(a) = f - w + 1 /\ \A k \in 1..(f - w + 1) : a[k] = s[w + k - 1]
  BY <1>1, <1>5, FrameIs
<1> HIDE DEF m, e, a, b
<1>8. f - w + 1 = e - q + 1
  BY <1>1, <1>3, <1>4
<1>9. ASSUME NEW k \in 1..(e - q + 1)
      PROVE  a[k] = b[k]
  <2>1. q + k - 1 \in 1..Len(x) /\ w + k - 1 = m + (q + k - 1)
    BY <1>1, <1>3, <1>4
  <2>2. s[m + (q + k - 1)] = x[q + k - 1]
    BY <2>1 DEF Joined, m
  <2>3. a[k] = s[w + k - 1] /\ b[k] = x[q + k - 1]
    BY <1>6, <1>7, <1>8
  <2> QED
    BY <2>1, <2>2, <2>3
<1>10. a = b
  <2>1. Len(a) = Len(b) /\ Len(a) = e - q + 1
    BY <1>6, <1>7, <1>8
  <2> QED
    BY <1>6, <1>7, <1>9, <2>1, SeqEqual
<1>11. FrameAt(s, w) = a /\ FrameAt(x, q) = b
  BY <1>5 DEF FrameAt, a, b, e
<1> QED
  BY <1>4, <1>10, <1>11 DEF m

LEMMA StartsOf ==
    ASSUME NEW s \in Seq(Nat)
    PROVE  /\ FrameStarts(s) = StartsFrom(s)[1]
           /\ Sound(s, FrameStarts(s)) /\ FrameStarts(s) \in Seq(Nat)
           /\ Frames(s) = FramesAt(s, FrameStarts(s))
           /\ RestFrom(s, 1) \in 1..(Len(s) + 1)
<1>1. 1 \in 1..(Len(s) + 1)
  OBVIOUS
<1>2. FrameStarts(s) = StartsFrom(s)[1]
  BY StartsAre
<1>3. Sound(s, StartsFrom(s)[1]) /\ RestFrom(s, 1) \in 1..(Len(s) + 1)
  BY <1>1, SoundFrom
<1>4. Frames(s) = FramesAt(s, FrameStarts(s))
  BY Zenon DEF Frames, FramesAt
<1> QED
  BY <1>2, <1>3, <1>4 DEF Sound

\* No header begins in r behind its frames, as seen in s.
Quiet(s, r) == \A q \in RestFrom(r, 1)..Len(r) : ~HeaderAt(s, q)

\* Then the frames of s are those of the pieces.
LEMMA FramesJoin ==
    ASSUME NEW s, NEW r, NEW x, Joined(s, r, x), Quiet(s, r)
    PROVE  /\ FrameStarts(s) = FrameStarts(r) \o Shifted(FrameStarts(x), Len(r))
           /\ Frames(s) = Frames(r) \o Frames(x)
<1> DEFINE m == Len(r)
           a == FrameStarts(r)
           b == FrameStarts(x)
           c == Shifted(b, m)
           u == FrameStarts(s)
           la == Len(a)
           lb == Len(b)
<1>1. s \in Seq(Nat) /\ r \in Seq(Nat) /\ x \in Seq(Nat) /\ m \in Nat /\ Len(x) \in Nat
  BY DEF Joined
<1>2. /\ Sound(r, a) /\ Sound(x, b) /\ Sound(s, u)
      /\ Frames(s) = FramesAt(s, u) /\ Frames(r) = FramesAt(r, a) /\ Frames(x) = FramesAt(x, b)
      /\ a \in Seq(Nat) /\ b \in Seq(Nat) /\ u \in Seq(Nat) /\ la \in Nat /\ lb \in Nat
  <2>1. Sound(r, a) /\ a \in Seq(Nat) /\ Frames(r) = FramesAt(r, a)
    BY <1>1, StartsOf
  <2>2. Sound(x, b) /\ b \in Seq(Nat) /\ Frames(x) = FramesAt(x, b)
    BY <1>1, StartsOf
  <2>3. Sound(s, u) /\ u \in Seq(Nat) /\ Frames(s) = FramesAt(s, u)
    BY <1>1, StartsOf
  <2> HIDE DEF a, b, u
  <2> QED
    BY <2>1, <2>2, <2>3
<1>3. u = a \o c
  <2>1. 1 \in 1..(Len(r) + 1) /\ 1 \in 1..(Len(x) + 1)
    BY <1>1
  <2>2. StartsFrom(s)[1] = StartsFrom(r)[1] \o StartsFrom(s)[m + 1]
    BY <2>1, StartsJoin DEF Quiet
  <2>3. StartsFrom(s)[m + 1] = Shifted(StartsFrom(x)[1], m)
    BY <2>1, StartsShift
  <2>4. u = StartsFrom(s)[1] /\ a = StartsFrom(r)[1] /\ b = StartsFrom(x)[1]
    BY StartsAre
  <2> HIDE DEF u, a, b
  <2> QED
    BY <2>2, <2>3, <2>4
<1>s. \A q \in 1..Len(x) : CompleteAt(x, q) => FrameAt(s, m + q) = FrameAt(x, q)
  BY FrameInSecond
<1> HIDE DEF a, b, u, c
<1>4. c \in Seq(Nat) /\ Len(c) = lb /\ \A k \in 1..lb : c[k] = m + b[k]
  BY <1>1, <1>2, ShiftedIs DEF c
<1>5. /\ Len(u) = la + lb
      /\ \A k \in 1..(la + lb) : u[k] = IF k <= la THEN a[k] ELSE c[k - la]
  <2>1. /\ Len(a \o c) = Len(a) + Len(c)
        /\ \A k \in 1..(Len(a) + Len(c)) : (a \o c)[k] = IF k <= Len(a) THEN a[k] ELSE c[k - Len(a)]
    <3>1. a \in Seq(Nat) /\ c \in Seq(Nat)
      BY <1>2, <1>4
    <3> QED
      BY <3>1, ConcatProperties
  <2> QED
    BY <1>3, <1>4, <2>1
<1> DEFINE F == FramesAt(s, u)
           A == FramesAt(r, a)
           B == FramesAt(x, b)
           W == A \o B
<1>6. /\ F \in Seq(Seq(Nat)) /\ Len(F) = la + lb
      /\ A \in Seq(Seq(Nat)) /\ Len(A) = la
      /\ B \in Seq(Seq(Nat)) /\ Len(B) = lb
  BY <1>1, <1>2, <1>5, FramesAtType
<1>7. /\ \A k \in 1..(la + lb) : F[k] = SubSeq(s, u[k], FrameEnd(s, u[k]))
      /\ \A k \in 1..la : A[k] = SubSeq(r, a[k], FrameEnd(r, a[k]))
      /\ \A k \in 1..lb : B[k] = SubSeq(x, b[k], FrameEnd(x, b[k]))
  <2>1. DOMAIN u = 1..(la + lb) /\ DOMAIN a = 1..la /\ DOMAIN b = 1..lb
    BY <1>2, <1>5
  <2> QED
    BY <2>1 DEF FramesAt
<1> HIDE DEF F, A, B
<1>8. W \in Seq(Seq(Nat)) /\ Len(W) = la + lb
      /\ \A k \in 1..(la + lb) : W[k] = IF k <= la THEN A[k] ELSE B[k - la]
  BY <1>6, ConcatProperties, SMTT(30)
<1> HIDE DEF W, la, lb
<1>9. ASSUME NEW k \in 1..(la + lb)
      PROVE  F[k] = W[k]
  <2>1. CASE k <= la
    <3>1. k \in 1..la
      BY <1>2, <2>1
    <3>2. u[k] = a[k] /\ W[k] = A[k]
      BY <1>5, <1>8, <2>1
    <3>3. a[k] \in 1..Len(r) /\ CompleteAt(r, a[k])
      BY <1>2, <3>1 DEF Sound, la
    <3>4. SubSeq(s, a[k], FrameEnd(s, a[k])) = SubSeq(r, a[k], FrameEnd(r, a[k]))
      BY <3>3, FrameInFirst
    <3> QED
      BY <1>7, <3>1, <3>2, <3>4
  <2>2. CASE ~(k <= la)
    <3> DEFINE j == k - la
    <3>1. j \in 1..lb
      BY <1>2, <2>2
    <3>2. u[k] = c[j] /\ W[k] = B[j]
      BY <1>5, <1>8, <2>2
    <3> HIDE DEF j
    <3>3. b[j] \in 1..Len(x) /\ CompleteAt(x, b[j])
      BY <1>2, <3>1 DEF Sound, lb
    <3>4. FrameAt(s, m + b[j]) = FrameAt(x, b[j])
      BY <1>s, <3>3, Zenon
    <3>5. u[k] = m + b[j]
      BY <1>4, <3>1, <3>2
    <3> HIDE DEF m
    <3>6. F[k] = FrameAt(s, u[k]) /\ B[j] = FrameAt(x, b[j])
      BY <1>7, <3>1 DEF FrameAt
    <3> QED
      BY <3>2, <3>4, <3>5, <3>6
  <2> QED
    BY <2>1, <2>2
<1>10. F = W
  BY <1>6, <1>8, <1>9, SeqEqual
<1> QED
  BY <1>2, <1>3, <1>10 DEF F, W, A, B, a, b, u, c

-----------------------------------------------------------------------------
(* Reads that end between two frames                                        *)

\* Behind position p of r no frame has begun, whatever y brings.
CleanBehind(r, p, y) ==
    /\ \A q \in p..Len(r) : ~HeaderAt(r, q)
    /\ p <= Len(r) /\ r[Len(r)] = Header => y # <<>> /\ y[1] # Kind
Clean(r, y) == CleanBehind(r, RestFrom(r, 1), y)

\* y goes on as z does.
GoesOn(y, z) == y # <<>> => z # <<>> /\ z[1] = y[1]

LEMMA CleanGoesOn ==
    ASSUME NEW r, NEW y, NEW z, Clean(r, y), GoesOn(y, z)
    PROVE  Clean(r, z)
BY DEF Clean, CleanBehind, GoesOn

LEMMA GoesOnConcat ==
    ASSUME NEW y \in Seq(Nat), NEW z \in Seq(Nat)
    PROVE  GoesOn(y, y \o z)
<1>1. /\ y \o z \in Seq(Nat) /\ Len(y \o z) = Len(y) + Len(z)
      /\ \A k \in 1..(Len(y) + Len(z)) : (y \o z)[k] = IF k <= Len(y) THEN y[k] ELSE z[k - Len(y)]
  BY ConcatProperties
<1> SUFFICES ASSUME y # <<>>
             PROVE  y \o z # <<>> /\ (y \o z)[1] = y[1]
  BY DEF GoesOn
<1>2. Len(y) \in Nat /\ Len(y) > 0 /\ Len(z) \in Nat
  BY EmptySeq
<1> DEFINE w == y \o z
<1>3. w[1] = y[1]
  <2>1. 1 \in 1..(Len(y) + Len(z)) /\ 1 <= Len(y)
    BY <1>2
  <2> QED
    BY <1>1, <2>1
<1>4. Len(w) > 0
  BY <1>1, <1>2
<1>5. w # <<>>
  <2> HIDE DEF w
  <2> QED
    BY <1>4
<1> QED
  BY <1>3, <1>5

LEMMA CleanQuiet ==
    ASSUME NEW s, NEW r, NEW x, Joined(s, r, x), x # <<>>, Clean(r, x)
    PROVE  Quiet(s, r)
<1>1. /\ r \in Seq(Nat) /\ x \in Seq(Nat) /\ Len(r) \in Nat /\ Len(x) \in Nat
      /\ \A k \in 1..Len(r) : s[k] = r[k]
      /\ \A k \in 1..Len(x) : s[Len(r) + k] = x[k]
  BY DEF Joined
<1>2. RestFrom(r, 1) \in 1..(Len(r) + 1)
  BY <1>1, StartsOf
<1>3. Len(x) > 0
  BY <1>1, EmptySeq
<1> SUFFICES ASSUME NEW q \in RestFrom(r, 1)..Len(r)
             PROVE  ~HeaderAt(s, q)
  BY DEF Quiet
<1>4. q \in 1..Len(r) /\ RestFrom(r, 1) <= Len(r)
  BY <1>1, <1>2
<1>5. CASE q < Len(r)
  <2>1. ~HeaderAt(r, q)
    BY DEF Clean, CleanBehind
  <2> QED
    BY <1>4, <1>5, <2>1, InFirst
<1>6. CASE q = Len(r)
  <2>1. s[q] = r[Len(r)] /\ s[q + 1] = x[1]
    BY <1>1, <1>3, <1>4, <1>6
  <2>2. r[Len(r)] = Header => x[1] # Kind
    BY <1>4 DEF Clean, CleanBehind
  <2> QED
    BY <2>1, <2>2 DEF HeaderAt
<1> QED
  BY <1>1, <1>4, <1>5, <1>6

\* r and x both end between frames: so does the whole.
LEMMA CleanJoin ==
    ASSUME NEW s, NEW r, NEW x, Joined(s, r, x), x # <<>>, Quiet(s, r), NEW y, Clean(x, y)
    PROVE  Clean(s, y)
<1> DEFINE m == Len(r)
           n == Len(x)
           a == FrameStarts(r)
           b == FrameStarts(x)
           c == Shifted(b, m)
           u == FrameStarts(s)
           Rr == RestFrom(r, 1)
           Rx == RestFrom(x, 1)
           Rs == RestFrom(s, 1)
<1>1. /\ s \in Seq(Nat) /\ r \in Seq(Nat) /\ x \in Seq(Nat) /\ m \in Nat /\ n \in Nat
      /\ Len(s) = m + n /\ n > 0
      /\ s[m + n] = x[n]
  <2>1. /\ s \in Seq(Nat) /\ r \in Seq(Nat) /\ x \in Seq(Nat) /\ m \in Nat /\ n \in Nat
        /\ Len(s) = m + n /\ \A k \in 1..n : s[m + k] = x[k]
    BY DEF Joined
  <2>2. n > 0
    BY <2>1, EmptySeq
  <2>3. n \in 1..n
    BY <2>1, <2>2
  <2> QED
    BY <2>1, <2>2, <2>3
<1>2. Sound(r, a) /\ a \in Seq(Nat) /\ a = StartsFrom(r)[1] /\ Rr \in 1..(m + 1)
  BY <1>1, StartsOf
<1>3. Sound(x, b) /\ b \in Seq(Nat) /\ b = StartsFrom(x)[1] /\ Rx \in 1..(n + 1)
  BY <1>1, StartsOf
<1>4. u = StartsFrom(s)[1] /\ u = a \o c
  <2>1. u = StartsFrom(s)[1]
    BY StartsAre
  <2>2. u = a \o c
    BY FramesJoin
  <2> QED
    BY <2>1, <2>2
<1>5. c \in Seq(Nat) /\ Len(c) = Len(b) /\ \A k \in 1..Len(b) : c[k] = m + b[k]
  BY <1>1, <1>3, ShiftedIs
<1>6. /\ Rr = IF a = <<>> THEN 1 ELSE FrameEnd(r, Last(a)) + 1
      /\ Rx = IF b = <<>> THEN 1 ELSE FrameEnd(x, Last(b)) + 1
      /\ Rs = IF u = <<>> THEN 1 ELSE FrameEnd(s, Last(u)) + 1
  BY <1>2, <1>3, <1>4, Zenon DEF RestFrom
<1>7. /\ \A q \in Rx..n : ~HeaderAt(x, q)
      /\ Rx <= n /\ x[n] = Header => y # <<>> /\ y[1] # Kind
  BY DEF Clean, CleanBehind
<1>8. \A q \in Rr..m : ~HeaderAt(s, q)
  BY DEF Quiet
<1>9. \A q \in 1..n : HeaderAt(s, m + q) <=> HeaderAt(x, q)
  BY InSecond
<1> HIDE DEF a, b, c, u, m, n, Rr, Rx, Rs
<1>10. CASE b = <<>>
  <2>1. Len(c) = 0
    BY <1>5, <1>10
  <2>2. u = a
    <3>1. c = <<>>
      BY <1>5, <2>1, EmptySeq
    <3> QED
      BY <1>2, <1>4, <3>1, ConcatEmptySeq
  <2>3. Rs = Rr
    <3>1. CASE a = <<>>
      BY <1>6, <2>2, <3>1
    <3>2. CASE a # <<>>
      <4>1. Len(a) \in Nat /\ Len(a) > 0
        BY <1>2, <3>2, EmptySeq
      <4>2. Last(a) \in 1..Len(r) /\ CompleteAt(r, Last(a))
        BY <1>2, <4>1 DEF Sound, Last
      <4>3. FrameEnd(s, Last(a)) = FrameEnd(r, Last(a))
        BY <4>2, InFirst
      <4> QED
        BY <1>6, <2>2, <3>2, <4>3
    <3> QED
      BY <3>1, <3>2
  <2>4. Rx = 1
    BY <1>6, <1>10
  <2>5. ASSUME NEW q \in Rs..(m + n)
        PROVE  ~HeaderAt(s, q)
    <3>1. CASE q <= m
      <4>1. q \in Rr..m
        BY <1>1, <1>2, <2>3, <3>1
      <4> QED
        BY <1>8, <4>1
    <3>2. CASE ~(q <= m)
      <4>1. q - m \in 1..n /\ q - m \in Rx..n /\ m + (q - m) = q
        BY <1>1, <1>2, <2>3, <2>4, <3>2
      <4> QED
        BY <1>7, <1>9, <4>1
    <3> QED
      BY <3>1, <3>2
  <2>6. s[m + n] = Header => y # <<>> /\ y[1] # Kind
    BY <1>1, <1>7, <2>4
  <2> QED
    BY <1>1, <2>5, <2>6 DEF Clean, CleanBehind, Rs
<1>11. CASE b # <<>>
  <2>1. Len(b) \in Nat /\ Len(b) > 0 /\ Len(a) \in Nat
    BY <1>2, <1>3, <1>11, EmptySeq
  <2>2. /\ Len(u) = Len(a) + Len(c) /\ u \in Seq(Nat)
        /\ \A k \in 1..(Len(a) + Len(c)) : u[k] = IF k <= Len(a) THEN a[k] ELSE c[k - Len(a)]
    <3>1. a \in Seq(Nat) /\ c \in Seq(Nat)
      BY <1>2, <1>5
    <3>2. /\ Len(a \o c) = Len(a) + Len(c) /\ a \o c \in Seq(Nat)
          /\ \A k \in 1..(Len(a) + Len(c)) : (a \o c)[k] = IF k <= Len(a) THEN a[k] ELSE c[k - Len(a)]
      BY <3>1, ConcatProperties
    <3> QED
      BY <1>4, <3>2
  <2>3. Last(u) = m + Last(b) /\ u # <<>>
    <3> DEFINE i == Len(a)
               j == Len(b)
    <3>1. i \in Nat /\ j \in Nat /\ j > 0 /\ Len(u) = i + j
          /\ \A k \in 1..(i + j) : u[k] = IF k <= i THEN a[k] ELSE c[k - i]
      BY <1>5, <2>1, <2>2
    <3>2. j \in 1..j /\ c[j] = m + b[j]
      BY <1>5, <2>1
    <3> HIDE DEF i, j
    <3>3. i + j \in 1..(i + j) /\ ~(i + j <= i) /\ (i + j) - i = j /\ i + j > 0
      BY <3>1
    <3>4. u[i + j] = m + b[j]
      BY <3>1, <3>2, <3>3
    <3>5. Len(u) > 0 /\ Last(u) = u[i + j]
      BY <3>1, <3>3 DEF Last
    <3>6. u # <<>>
      BY <3>5
    <3> QED
      BY <3>4, <3>5, <3>6 DEF Last, j
  <2>4. Last(b) \in 1..Len(x) /\ CompleteAt(x, Last(b))
    BY <1>3, <2>1 DEF Sound, Last
  <2>5. FrameEnd(s, m + Last(b)) = m + FrameEnd(x, Last(b))
    BY <2>4, InSecond DEF m
  <2>6. FrameEnd(x, Last(b)) \in Nat
    <3> DEFINE l == Last(b)
    <3>1. FrameEnd(x, l) \in (l + 3)..Len(x)
      BY <1>1, <2>4, FrameEndIs
    <3>2. l \in Nat /\ Len(x) \in Nat
      BY <1>1, <2>4
    <3> HIDE DEF l
    <3>3. FrameEnd(x, l) \in Nat
      BY <3>1, <3>2
    <3> QED
      BY <3>3 DEF l
  <2>7. Rs = m + Rx
    <3> DEFINE e == FrameEnd(x, Last(b))
    <3>1. Rs = (m + e) + 1 /\ Rx = e + 1 /\ e \in Nat
      BY <1>6, <1>11, <2>3, <2>5, <2>6
    <3> HIDE DEF e
    <3> QED
      BY <1>1, <3>1
  <2>8. ASSUME NEW q \in Rs..(m + n)
        PROVE  ~HeaderAt(s, q)
    <3>1. q - m \in 1..n /\ q - m \in Rx..n /\ m + (q - m) = q
      BY <1>1, <1>3, <2>7
    <3> QED
      BY <1>7, <1>9, <3>1
  <2>9. Rs <= m + n /\ s[m + n] = Header => y # <<>> /\ y[1] # Kind
    <3>1. Rs <= m + n => Rx <= n
      BY <1>1, <1>3, <2>7
    <3> QED
      BY <1>1, <1>7, <3>1
  <2> QED
    BY <1>1, <2>8, <2>9 DEF Clean, CleanBehind, Rs
<1> QED
  BY <1>10, <1>11

\* Where a frame begins that s leaves open.
LEMMA BegunIs ==
    ASSUME NEW s \in Seq(Nat)
    PROVE  BegunAt(s) = IF /\ NextHeader(s, RestFrom(s, 1)) > Len(s)
                           /\ RestFrom(s, 1) <= Len(s)
                           /\ s[Len(s)] = Header
                        THEN Len(s) ELSE NextHeader(s, RestFrom(s, 1))
<1> DEFINE n == Len(s)
           A == AfterFrames(s)
           R == RestFrom(s, 1)
           st == FrameStarts(s)
<1>1. n \in Nat /\ st = StartsFrom(s)[1] /\ R \in 1..(n + 1)
  BY StartsOf
<1>2. A = SubSeq(s, R, n)
  <2> HIDE DEF n
  <2>1. CASE st = <<>>
    <3>1. A = s
      BY <2>1, Zenon DEF AfterFrames
    <3>2. R = 1
      BY <1>1, <2>1, Zenon DEF RestFrom
    <3>3. SubSeq(s, 1, n) = s
      BY SubSeqFull DEF n
    <3> QED
      BY <3>1, <3>2, <3>3
  <2>2. CASE st # <<>>
    <3>1. A = SubSeq(s, FrameEnd(s, Last(st)) + 1, n)
      BY <2>2, Zenon DEF AfterFrames, n
    <3>2. R = FrameEnd(s, Last(st)) + 1
      BY <1>1, <2>2, Zenon DEF RestFrom
    <3> QED
      BY <3>1, <3>2, Zenon
  <2> QED
    BY <2>1, <2>2
<1> HIDE DEF A, R, st
<1>3. A \in Seq(Nat) /\ Len(A) = n - R + 1
  <2>1. R \in 1..(n + 1) /\ n \in (R - 1)..n
    BY <1>1
  <2> HIDE DEF n
  <2> QED
    BY <1>2, <2>1, Piece DEF n
<1>4. n - Len(A) + 1 = R
  <2> HIDE DEF n
  <2> QED
    BY <1>1, <1>3
<1>5. A # <<>> <=> R <= n
  <2> HIDE DEF n
  <2>1. Len(A) > 0 <=> R <= n
    BY <1>1, <1>3
  <2> QED
    BY <1>3, <2>1, EmptySeq
<1>6. BegunAt(s) = IF NextHeader(s, R) > n /\ A # <<>> /\ Last(s) = Header THEN n ELSE NextHeader(s, R)
  BY <1>4, Zenon DEF BegunAt, A
<1> QED
  BY <1>5, <1>6, Zenon DEF Last, R

\* A cut that goes through no frame, complete or begun, leaves the piece before it clean.
LEMMA CutClean ==
    ASSUME NEW l, NEW x, NEW y, Joined(l, x, y), x # <<>>, CutsNoFrame(l, Len(x))
    PROVE  Clean(x, y)
<1> DEFINE n == Len(x)
           R == RestFrom(l, 1)
           Spared(p) == \A k \in 1..Len(StartsFrom(l)[p]) :
                           \/ n < StartsFrom(l)[p][k]
                           \/ n >= FrameEnd(l, StartsFrom(l)[p][k])
           G == {p \in 1..(n + 1) : RestFrom(l, p) = R /\ Spared(p) => CleanBehind(x, RestFrom(x, p), y)}
<1>1. /\ l \in Seq(Nat) /\ x \in Seq(Nat) /\ y \in Seq(Nat) /\ n \in Nat /\ Len(l) \in Nat
      /\ n <= Len(l) /\ Len(l) = n + Len(y) /\ Len(y) \in Nat /\ n > 0
  <2>1. /\ l \in Seq(Nat) /\ x \in Seq(Nat) /\ y \in Seq(Nat) /\ n \in Nat /\ Len(l) \in Nat
        /\ Len(l) = n + Len(y) /\ Len(y) \in Nat
    BY DEF Joined
  <2>2. n > 0
    BY <2>1, EmptySeq
  <2> QED
    BY <2>1, <2>2
<1>2. ~(NextHeader(l, R) <= n)
  <2>1. n < BegunAt(l) \/ BegunAt(l) > Len(l)
    BY DEF CutsNoFrame
  <2>2. BegunAt(l) = IF NextHeader(l, R) > Len(l) /\ R <= Len(l) /\ l[Len(l)] = Header
                     THEN Len(l) ELSE NextHeader(l, R)
    BY <1>1, BegunIs
  <2>3. R \in 1..(Len(l) + 1)
    BY <1>1, StartsOf
  <2>4. NextHeader(l, R) \in R..(Len(l) + 1)
    BY <1>1, <2>3, NextHeaderIs
  <2> HIDE DEF n, R
  <2> QED
    BY <1>1, <2>1, <2>2, <2>3, <2>4
<1>3. ASSUME Len(l) = n, NextHeader(l, R) > n, R <= n
      PROVE  l[n] # Header
  <2>1. n < BegunAt(l) \/ BegunAt(l) > Len(l)
    BY DEF CutsNoFrame
  <2>2. BegunAt(l) = IF NextHeader(l, R) > Len(l) /\ R <= Len(l) /\ l[Len(l)] = Header
                     THEN Len(l) ELSE NextHeader(l, R)
    BY <1>1, BegunIs
  <2> HIDE DEF n, R
  <2> QED
    BY <1>1, <1>3, <2>1, <2>2
<1>4. ASSUME NEW p \in 1..(n + 1), \A q \in 1..(n + 1) : q > p => q \in G,
             RestFrom(l, p) = R, Spared(p)
      PROVE  CleanBehind(x, RestFrom(x, p), y)
  <2> DEFINE h == NextHeader(l, p)
             a == After(l, p)
             t == StartsFrom(l)[a]
  <2>1. p \in 1..(Len(l) + 1) /\ p \in Nat /\ p >= 1 /\ p <= n + 1
    BY <1>1
  <2>2. /\ h \in p..(Len(l) + 1) /\ h \in Nat
        /\ h <= Len(l) => HeaderAt(l, h)
        /\ \A q \in p..Len(l) : HeaderAt(l, q) => h <= q
    <3>1. /\ h \in p..(Len(l) + 1)
          /\ h <= Len(l) => HeaderAt(l, h)
          /\ \A q \in p..Len(l) : HeaderAt(l, q) => h <= q
      BY <1>1, <2>1, NextHeaderIs
    <3>2. h \in Nat
      <4> HIDE DEF h
      <4> QED
        BY <1>1, <2>1, <3>1
    <3> QED
      BY <3>1, <3>2
  <2>3. \A q \in 1..n : HeaderAt(x, q) => q < n /\ HeaderAt(l, q)
    <3> SUFFICES ASSUME NEW q \in 1..n, HeaderAt(x, q)
                 PROVE  q < n /\ HeaderAt(l, q)
      OBVIOUS
    <3>1. q < n
      BY DEF HeaderAt
    <3> QED
      BY <3>1, InFirst
  <2>4. CASE h <= n /\ a # 0
    <3>1. /\ a \in 1..(Len(l) + 1) /\ a > p /\ CompleteAt(l, h) /\ a = FrameEnd(l, h) + 1
          /\ t \in Seq(Nat) /\ StartsFrom(l)[p] = <<h>> \o t
          /\ RestFrom(l, p) = RestFrom(l, a)
      BY <1>1, <2>1, <2>4, RestFromIs
    <3>2. /\ Len(<<h>> \o t) = Len(t) + 1
          /\ (<<h>> \o t)[1] = h
          /\ \A k \in 1..Len(t) : (<<h>> \o t)[k + 1] = t[k]
          /\ Len(t) \in Nat
      BY <2>2, <3>1, FrontPlace
    <3> HIDE DEF h, t, n, a
    <3>3. n >= FrameEnd(l, h)
      <4>1. 1 \in 1..Len(StartsFrom(l)[p]) /\ StartsFrom(l)[p][1] = h
        BY <3>1, <3>2
      <4>2. n < h \/ n >= FrameEnd(l, h)
        BY <1>4, <4>1
      <4> QED
        BY <1>1, <2>2, <2>4, <4>2
    <3>4. h \in 1..n /\ h \in 1..Len(l)
      BY <1>1, <2>1, <2>2, <2>4
    <3>5. FrameEnd(l, h) \in (h + 3)..Len(l)
      BY <1>1, <3>1, <3>4, FrameEndIs
    <3>6. CompleteAt(x, h) /\ FrameEnd(x, h) = FrameEnd(l, h)
      BY <3>1, <3>3, <3>4, InFirst DEF n
    <3>7. h < n /\ a \in 1..(n + 1)
      BY <1>1, <2>2, <3>1, <3>3, <3>5, SMTT(30)
    <3>8. NextHeader(x, p) = h
      <4>1. HeaderAt(x, h)
        BY <1>1, <2>2, <3>4, <3>7, InFirst DEF n
      <4>2. ASSUME NEW q \in p..n, HeaderAt(x, q)
            PROVE  h <= q
        <5>1. q \in 1..n /\ q \in p..Len(l)
          BY <1>1, <2>1
        <5> QED
          BY <2>2, <2>3, <4>2, <5>1
      <4>3. h \in p..(n + 1)
        BY <1>1, <2>1, <2>2, <3>7
      <4> QED
        BY <1>1, <4>1, <4>2, <4>3, NextHeaderUnique DEF n
    <3>9. After(x, p) = a
      <4>1. ~(h > n)
        BY <1>1, <2>2, <3>7
      <4>2. After(x, p) = FrameEnd(x, h) + 1
        BY <3>6, <3>8, <4>1 DEF After, n
      <4> QED
        BY <3>1, <3>6, <4>2
    <3>10. RestFrom(x, p) = RestFrom(x, a)
      BY <1>1, <2>4, <3>9, RestFromIs DEF n
    <3>11. Spared(a)
      <4> SUFFICES ASSUME NEW k \in 1..Len(t)
                   PROVE  n < t[k] \/ n >= FrameEnd(l, t[k])
        BY DEF t
      <4>1. k + 1 \in 1..Len(StartsFrom(l)[p]) /\ StartsFrom(l)[p][k + 1] = t[k]
        BY <3>1, <3>2
      <4> QED
        BY <1>4, <4>1
    <3>12. a \in G
      BY <1>4, <3>1, <3>7
    <3>13. RestFrom(l, a) = R
      BY <1>4, <3>1
    <3> HIDE DEF Spared, R
    <3>14. CleanBehind(x, RestFrom(x, a), y)
      BY <3>11, <3>12, <3>13
    <3> QED
      BY <3>10, <3>14
  <2>5. CASE h <= n /\ a = 0
    <3>1. RestFrom(l, p) = p
      BY <1>1, <2>1, <2>5, RestFromIs
    <3>2. NextHeader(l, R) <= n
      BY <1>4, <2>5, <3>1
    <3> QED
      BY <1>2, <3>2
  <2>6. CASE ~(h <= n)
    <3>1. \A q \in p..n : ~HeaderAt(l, q)
      <4> SUFFICES ASSUME NEW q \in p..n, HeaderAt(l, q)
                   PROVE  FALSE
        OBVIOUS
      <4>1. q \in p..Len(l) /\ q <= n /\ q \in Nat
        BY <1>1, <2>1
      <4>2. h <= q
        BY <2>2, <4>1
      <4> HIDE DEF h, n
      <4> QED
        BY <1>1, <2>2, <2>6, <4>1, <4>2
    <3>2. \A q \in p..n : ~HeaderAt(x, q)
      <4>1. \A q \in p..n : q \in 1..n
        BY <1>1, <2>1
      <4> QED
        BY <2>3, <3>1, <4>1
    <3>3. NextHeader(x, p) = n + 1
      <4>1. n + 1 \in p..(n + 1) /\ ~(n + 1 <= n)
        BY <1>1, <2>1
      <4> QED
        BY <1>1, <3>2, <4>1, NextHeaderUnique
    <3>4. After(x, p) = 0
      <4>1. n + 1 > n
        BY <1>1
      <4> QED
        BY <3>3, <4>1, Zenon DEF After
    <3>5. RestFrom(x, p) = p
      BY <1>1, <3>4, RestFromIs
    <3>6. ASSUME p <= n, x[n] = Header
          PROVE  y # <<>> /\ y[1] # Kind
      <4>1. l[n] = Header
        <5>1. n \in 1..n
          BY <1>1
        <5> QED
          BY <3>6, <5>1 DEF Joined
      <4>2. y # <<>>
        <5> SUFFICES ASSUME y = <<>>
                     PROVE  FALSE
          OBVIOUS
        <5>1. Len(l) = n
          <6>1. Len(y) = 0
            OBVIOUS
          <6> QED
            BY <1>1, <6>1
        <5>2. h > Len(l)
          <6> HIDE DEF h, n
          <6> QED
            BY <1>1, <2>2, <2>6, <5>1
        <5>3. a = 0
          BY <5>2, Zenon DEF After
        <5>4. RestFrom(l, p) = p
          BY <1>1, <2>1, <5>3, RestFromIs
        <5>5. R = p
          BY <1>4, <5>4
        <5> QED
          BY <1>3, <3>6, <4>1, <5>1, <5>2, <5>5
      <4>3. y[1] # Kind
        <5> SUFFICES ASSUME y[1] = Kind
                     PROVE  FALSE
          OBVIOUS
        <5>1. Len(y) > 0
          BY <1>1, <4>2, EmptySeq
        <5>2. l[n + 1] = Kind /\ n < Len(l) /\ n \in p..n
          <6>1. 1 \in 1..Len(y)
            BY <1>1, <5>1
          <6>2. l[n + 1] = y[1]
            BY <6>1 DEF Joined
          <6> QED
            BY <1>1, <2>1, <3>6, <5>1, <6>2
        <5>3. HeaderAt(l, n)
          BY <4>1, <5>2 DEF HeaderAt
        <5> QED
          BY <3>1, <5>2, <5>3
      <4> QED
        BY <4>2, <4>3
    <3> QED
      BY <3>2, <3>5, <3>6 DEF CleanBehind
  <2> QED
    BY <2>4, <2>5, <2>6
<1>5. \A p \in 1..(n + 1) : p \in G
  <2>1. ASSUME NEW p \in 1..(n + 1), \A q \in 1..(n + 1) : q > p => q \in G
        PROVE  p \in G
    BY <1>4, <2>1
  <2> HIDE DEF G, n
  <2> QED
    BY <1>1, <2>1, Downwards
<1>6. Spared(1)
  <2>1. FrameStarts(l) = StartsFrom(l)[1] /\ FrameStarts(l) \in Seq(Nat)
    BY <1>1, StartsOf
  <2>2. DOMAIN FrameStarts(l) = 1..Len(FrameStarts(l))
    BY <2>1
  <2>3. \A k \in DOMAIN FrameStarts(l) : n < FrameStarts(l)[k] \/ n >= FrameEnd(l, FrameStarts(l)[k])
    BY DEF CutsNoFrame
  <2> HIDE DEF n
  <2> QED
    BY <2>1, <2>2, <2>3, Zenon
<1>7. 1 \in 1..(n + 1)
  BY <1>1
<1>8. 1 \in G
  BY <1>5, <1>7
<1> HIDE DEF Spared
<1> QED
  BY <1>6, <1>8 DEF Clean

-----------------------------------------------------------------------------
(* What the reads delivered, as long as they end between two frames         *)

\* The bytes r were read: their frames are delivered, and none is open behind them.  That
\* none is open behind a read that is being processed follows when it is cut off (CutClean)
\* and is needed when it is delivered (FramesJoin, CleanJoin).
ReadSoFar(r) ==
    /\ r \in Seq(Nat)
    /\ all = r \o Stream
    /\ Delivered = Frames(r)
    /\ Clean(r, Stream)
    /\ pc # "wait" => Clean(chunk, line)

WholeInv == ~split => \E r : ReadSoFar(r)

\* Nothing read: no frame, and none open.
LEMMA EmptyClean == Frames(<<>>) = <<>> /\ Clean(<<>>, <<>>)
<1> DEFINE e == <<>>
           st == FrameStarts(e)
<1>1. e \in Seq(Nat) /\ Len(e) = 0
  OBVIOUS
<1>2. Sound(e, st) /\ st \in Seq(Nat) /\ Frames(e) = FramesAt(e, st) /\ RestFrom(e, 1) \in 1..(Len(e) + 1)
  BY <1>1, StartsOf
<1> HIDE DEF st, e
<1>3. Len(st) = 0
  <2>1. \A k \in 1..Len(st) : st[k] \in 1..0
    BY <1>1, <1>2 DEF Sound
  <2>2. Len(st) \in Nat
    BY <1>2
  <2> QED
    BY <2>1, <2>2
<1>4. Frames(e) = <<>>
  <2>1. FramesAt(e, st) \in Seq(Seq(Nat)) /\ Len(FramesAt(e, st)) = 0
    BY <1>1, <1>2, <1>3, FramesAtType
  <2> QED
    BY <1>2, <2>1, EmptySeq
<1>5. Clean(e, e)
  <2>1. RestFrom(e, 1) = 1
    BY <1>1, <1>2
  <2>2. \A q \in 1..0 : ~HeaderAt(e, q)
    OBVIOUS
  <2> QED
    BY <1>1, <2>1, <2>2 DEF Clean, CleanBehind
<1> QED
  BY <1>4, <1>5 DEF e

LEMMA WholeInit == Init => WholeInv
<1> SUFFICES ASSUME Init
             PROVE  ReadSoFar(<<>>)
  BY DEF WholeInv
<1>1. all = <<>> /\ Stream = <<>> /\ Delivered = <<>> /\ pc = "wait"
  BY DEF Init, Stream, Delivered
<1>2. <<>> \in Seq(Nat) /\ <<>> \o <<>> = <<>>
  BY ConcatEmptySeq
<1> QED
  BY <1>1, <1>2, EmptyClean DEF ReadSoFar

LEMMA WholeArrive ==
    ASSUME TypeOK, WholeInv, NEW it \in Items, Arrive(it)
    PROVE  WholeInv'
<1> SUFFICES ASSUME ~split, NEW r, ReadSoFar(r)
             PROVE  ReadSoFar(r)'
  BY DEF WholeInv, Arrive
<1>1. it \in Seq(Nat)
  BY FrameAssumption DEF FrameAssumption
<1>2. line \in Seq(Nat) /\ chunk \in Seq(Nat) /\ r \in Seq(Nat)
  BY DEF TypeOK, Bytes, ReadSoFar
<1>3. line' = line \o it /\ all' = all \o it /\ UNCHANGED <<pc, got, chunk, before>>
  BY DEF Arrive
<1>4. Stream \in Seq(Nat)
  BY <1>2, ConcatProperties DEF Stream
<1>5. Stream' = Stream \o it
  <2>1. chunk \o (line \o it) = (chunk \o line) \o it
    BY <1>1, <1>2, Associative, ZenonT(30)
  <2> QED
    BY <1>3, <2>1, Zenon DEF Stream
<1>6. Delivered' = Delivered
  BY <1>3 DEF Delivered
<1>7. all' = r \o Stream'
  <2>1. (r \o Stream) \o it = r \o (Stream \o it)
    BY <1>1, <1>2, <1>4, Associative, ZenonT(30)
  <2> QED
    BY <1>3, <1>5, <2>1, Zenon DEF ReadSoFar
<1>8. Clean(r, Stream \o it)
  <2>1. GoesOn(Stream, Stream \o it)
    BY <1>1, <1>4, GoesOnConcat, Zenon
  <2>2. Clean(r, Stream)
    BY DEF ReadSoFar
  <2> QED
    BY <2>1, <2>2, CleanGoesOn, Zenon
<1>9. pc # "wait" => Clean(chunk, line \o it)
  <2>1. GoesOn(line, line \o it)
    BY <1>1, <1>2, GoesOnConcat, Zenon
  <2>2. pc # "wait" => Clean(chunk, line)
    BY DEF ReadSoFar
  <2> QED
    BY <2>1, <2>2, CleanGoesOn, Zenon
<1>10. Delivered' = Frames(r)
  BY <1>6, Zenon DEF ReadSoFar
<1>11. Clean(r, Stream')
  BY <1>5, <1>8, Zenon
<1>12. pc' # "wait" => Clean(chunk', line')
  BY <1>3, <1>9, Zenon
<1> QED
  BY <1>2, <1>7, <1>10, <1>11, <1>12, Zenon DEF ReadSoFar

\* A read that cuts no frame leaves none open behind its bytes.
LEMMA WholeRead ==
    ASSUME TypeOK, WholeInv, NEW n \in 1..(BufSize - 1), Read(n)
    PROVE  WholeInv'
<1> SUFFICES ASSUME ~split, CutsNoFrame(line, n), NEW r, ReadSoFar(r)
             PROVE  ReadSoFar(r)'
  BY DEF WholeInv, Read
<1>1. /\ pc = "wait" /\ pc' = "parse" /\ all' = all /\ before' = got
      /\ chunk' = SubSeq(line, 1, n) /\ line' = SubSeq(line, n + 1, Len(line))
  BY DEF Read
<1>2. line \in Seq(Nat) /\ n \in 0..Len(line) /\ n > 0 /\ Len(line) \in Nat /\ r \in Seq(Nat)
  BY KindNotZero DEF Read, TypeOK, Bytes, ReadSoFar
<1> DEFINE x == SubSeq(line, 1, n)
           y == SubSeq(line, n + 1, Len(line))
<1>3. x \o y = line
  BY <1>2, CutConcat
<1>4. x \in Seq(Nat) /\ y \in Seq(Nat) /\ Len(x) = n
  <2>1. x \in Seq(Nat) /\ Len(x) = n - 1 + 1
    <3>1. 1 \in 1..(Len(line) + 1) /\ n \in (1 - 1)..Len(line)
      BY <1>2
    <3> QED
      BY <1>2, <3>1, Piece
  <2>2. y \in Seq(Nat)
    <3>1. n + 1 \in 1..(Len(line) + 1) /\ Len(line) \in ((n + 1) - 1)..Len(line)
      BY <1>2
    <3> QED
      BY <1>2, <3>1, Piece
  <2> HIDE DEF x, y
  <2> QED
    BY <1>2, <2>1, <2>2
<1>5. Clean(x, y)
  <2> HIDE DEF x, y
  <2>1. Joined(line, x, y)
    BY <1>3, <1>4, Joining
  <2>2. x # <<>>
    BY <1>2, <1>4
  <2> QED
    BY <1>4, <2>1, <2>2, CutClean
<1>6. Clean(chunk', line')
  BY <1>1, <1>5, Zenon
<1>7. Stream' = Stream /\ Delivered' = Delivered
  BY <1>1, <1>3, Zenon DEF Stream, Delivered
<1>8. all' = r \o Stream' /\ Delivered' = Frames(r) /\ Clean(r, Stream')
  BY <1>1, <1>7, Zenon DEF ReadSoFar
<1> QED
  BY <1>2, <1>6, <1>8, Zenon DEF ReadSoFar

\* A step of the search moves no bytes of the stream.
LEMMA WholeKept ==
    ASSUME WholeInv, UNCHANGED <<line, chunk, before, all, split>>,
           UNCHANGED <<pc, got>> \/ (pc # "wait" /\ pc' # "wait")
    PROVE  WholeInv'
<1>1. Stream' = Stream /\ Delivered' = Delivered /\ (pc' # "wait" <=> pc # "wait")
  BY DEF Stream, Delivered
<1> SUFFICES ASSUME ~split, NEW r, ReadSoFar(r)
             PROVE  ReadSoFar(r)'
  BY DEF WholeInv
<1>2. all' = r \o Stream' /\ Delivered' = Frames(r) /\ Clean(r, Stream')
  BY <1>1, Zenon DEF ReadSoFar
<1>3. pc' # "wait" => Clean(chunk', line')
  BY <1>1, Zenon DEF ReadSoFar
<1> QED
  BY <1>2, <1>3, Zenon DEF ReadSoFar

\* A read is over: its bytes join those read before.
LEMMA WholeReturn ==
    ASSUME RxInv, WholeInv, Return
    PROVE  WholeInv'
<1> SUFFICES ASSUME ~split, NEW r, ReadSoFar(r)
             PROVE  \E w : ReadSoFar(w)'
  BY DEF WholeInv, Return
<1>1. /\ pc = "return" /\ pc' = "wait" /\ UNCHANGED <<line, chunk, got, all>>
      /\ chunk \in Seq(Nat) /\ line \in Seq(Nat) /\ r \in Seq(Nat)
      /\ got = before \o Frames(chunk)
  BY DEF RxInv, Return, TypeOK, Bytes, ReadSoFar
<1>2. chunk # <<>>
  <2>1. len = Len(chunk) /\ len > 0
    BY <1>1 DEF RxInv
  <2> QED
    BY <2>1
<1>3. Stream = chunk \o line /\ Delivered = before /\ Stream' = line /\ Delivered' = got
  BY <1>1 DEF Stream, Delivered
<1>s. PICK s : s = r \o chunk
  OBVIOUS
<1>4. Joined(s, r, chunk) /\ s \in Seq(Nat)
  <2>1. Joined(s, r, chunk)
    BY <1>1, <1>s, Joining
  <2> QED
    BY <2>1 DEF Joined
<1>5. Clean(r, chunk)
  <2>1. Clean(r, chunk \o line)
    BY <1>3, Zenon DEF ReadSoFar
  <2>2. GoesOn(chunk, chunk \o line)
    BY <1>1, GoesOnConcat
  <2>3. GoesOn(chunk \o line, chunk)
    BY <1>2, <2>2, Zenon DEF GoesOn
  <2> QED
    BY <2>1, <2>3, CleanGoesOn, Zenon
<1>6. Clean(chunk, line)
  <2>1. pc # "wait"
    BY <1>1
  <2> QED
    BY <2>1 DEF ReadSoFar
<1>7. Quiet(s, r)
  BY <1>2, <1>4, <1>5, CleanQuiet, Zenon
<1>8. Frames(s) = Frames(r) \o Frames(chunk)
  BY <1>4, <1>7, FramesJoin
<1>9. Clean(s, line)
  BY <1>2, <1>4, <1>6, <1>7, CleanJoin, Zenon
<1>10. all = s \o line
  <2>1. all = r \o (chunk \o line)
    BY <1>3, Zenon DEF ReadSoFar
  <2> QED
    BY <1>1, <1>s, <2>1, Associative, ZenonT(30)
<1>11. got = Frames(s)
  BY <1>1, <1>3, <1>8, Zenon DEF ReadSoFar
<1>12. all' = s \o Stream' /\ Delivered' = Frames(s) /\ Clean(s, Stream') /\ pc' = "wait"
  BY <1>1, <1>3, <1>9, <1>10, <1>11, Zenon
<1>13. ReadSoFar(s)'
  BY <1>4, <1>12, Zenon DEF ReadSoFar
<1> QED
  BY <1>13

LEMMA WholeNext == RxInv /\ WholeInv /\ [Next]_vars => WholeInv'
<1> SUFFICES ASSUME RxInv, WholeInv, [Next]_vars
             PROVE  WholeInv'
  OBVIOUS
<1>1. TypeOK
  BY DEF RxInv
<1>2. ASSUME NEW it \in Items, Arrive(it) PROVE WholeInv'
  BY <1>1, <1>2, WholeArrive
<1>3. ASSUME NEW n \in 1..(BufSize - 1), Read(n) PROVE WholeInv'
  BY <1>1, <1>3, WholeRead
<1>4. ASSUME ParseFrame \/ ParsePartial \/ ParseNone PROVE WholeInv'
  <2>1. pc # "wait" /\ pc' # "wait" /\ UNCHANGED <<line, chunk, before, all, split>>
    BY <1>4 DEF ParseFrame, ParsePartial, ParseNone
  <2> QED
    BY <2>1, WholeKept
<1>5. CASE Return
  BY <1>5, WholeReturn
<1>6. CASE UNCHANGED vars
  BY <1>6, WholeKept DEF vars
<1> QED
  BY <1>2, <1>3, <1>4, <1>5, <1>6, Zenon DEF Next

\* As long as every read ended between two frames, nothing is lost and nothing made up: what
\* was delivered is the frames of all bytes read so far.
THEOREM AlwaysWholeFrames == Spec => []WholeFramesArrive
<1>1. Spec => []WholeInv
  BY WholeInit, WholeNext, RxAlways, PTL DEF Spec
<1>2. RxInv /\ WholeInv => WholeFramesArrive
  <2> SUFFICES ASSUME RxInv, WholeInv, ~split, pc = "wait"
               PROVE  got = Frames(SubSeq(all, 1, Len(all) - Len(line)))
    BY DEF WholeFramesArrive
  <2>1. PICK r : ReadSoFar(r)
    BY DEF WholeInv
  <2>2. r \in Seq(Nat) /\ line \in Seq(Nat) /\ all = r \o line /\ got = Frames(r)
    BY <2>1 DEF ReadSoFar, Stream, Delivered, RxInv, TypeOK, Bytes
  <2>3. Len(all) = Len(r) + Len(line)
    BY <2>2, ConcatProperties
  <2>4. Len(all) - Len(line) = Len(r)
    BY <2>2, <2>3
  <2>5. SubSeq(r \o line, 1, Len(r)) = r
    BY <2>2, ConcatCut
  <2> QED
    BY <2>2, <2>4, <2>5
<1> QED
  BY <1>1, <1>2, RxAlways, PTL
=============================================================================
