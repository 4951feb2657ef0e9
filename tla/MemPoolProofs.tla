--------------------------- MODULE MemPoolProofs ----------------------------
(***************************************************************************)
(* Proofs about MemPool for any threads, pools and blocks: the semaphore is *)
(* held inside the critical sections only, blocks stay in their pools, no   *)
(* buffer is smaller than what was asked for, every block has one owner,    *)
(* and the counts are right as long as no two updates overlapped.           *)
(***************************************************************************)
EXTENDS MemPool, SequenceTheorems, FunctionTheorems, FiniteSetTheorems, TLAPS

Inside == {"pop", "popped", "push", "inc", "inc_write", "free_post"}

\* SemaHeldInside with the types its step needs.
SemaInv ==
    /\ pc \in [Threads -> Places]
    /\ hSema \in Threads \cup {None, Other}
    /\ SemaHeldInside

LEMMA SemaInit == Init => SemaInv
  BY MemPoolAssumption DEF MemPoolAssumption, Init, SemaInv, SemaHeldInside, Places, FreePlaces

LEMMA SemaNext == SemaInv /\ [Next]_vars => SemaInv'
  <1> SUFFICES ASSUME SemaInv, [Next]_vars PROVE SemaInv'
    OBVIOUS
  <1> USE MemPoolAssumption DEF MemPoolAssumption, SemaInv, SemaHeldInside, Places, AllocPlaces, FreePlaces,
          GoTo, Return
  <1>1. ASSUME NEW t \in Threads, NEW s \in Asked, Alloc(t, s) PROVE SemaInv'
    BY <1>1 DEF Alloc
  <1>2. ASSUME NEW t \in Threads, NEW b \in Buffers, Free(t, b) PROVE SemaInv'
    BY <1>2 DEF Free
  <1>3. ASSUME NEW t \in Threads, TakeSema(t) PROVE SemaInv'
    BY <1>3 DEF TakeSema, SemaFree
  <1>4. ASSUME NEW t \in Threads, Scan(t) PROVE SemaInv'
    BY <1>4 DEF Scan
  <1>5. ASSUME NEW t \in Threads, Pop(t) PROVE SemaInv'
    BY <1>5 DEF Pop, ReleasedOnEmpty
  <1>6. ASSUME NEW t \in Threads, Unlink(t) PROVE SemaInv'
    BY <1>6 DEF Unlink
  <1>7. ASSUME NEW t \in Threads, ReadCount(t) PROVE SemaInv'
    BY <1>7 DEF ReadCount
  <1>8. ASSUME NEW t \in Threads, DecWrite(t) PROVE SemaInv'
    BY <1>8 DEF DecWrite
  <1>9. ASSUME NEW t \in Threads, Push(t) PROVE SemaInv'
    BY <1>9 DEF Push
  <1>10. ASSUME NEW t \in Threads, IncWrite(t) PROVE SemaInv'
    BY <1>10 DEF IncWrite
  <1>11. ASSUME NEW t \in Threads, FreePost(t) PROVE SemaInv'
    BY <1>11 DEF FreePost
  <1>12. ASSUME OtherTakes \/ OtherPosts \/ OtherDies PROVE SemaInv'
    BY <1>12 DEF OtherTakes, OtherPosts, OtherDies, SemaFree
  <1>13. CASE UNCHANGED vars
    BY <1>13 DEF vars
  <1> QED
    BY <1>1, <1>2, <1>3, <1>4, <1>5, <1>6, <1>7, <1>8, <1>9, <1>10, <1>11, <1>12, <1>13 DEF Next, Step

\* The semaphore is held by a thread exactly while it is inside one of the two
\* critical sections of new_alloc_buffer and new_free_buffer, on every path.
THEOREM SemaphoreInside == Spec => []SemaHeldInside
  <1>1. SemaInv => SemaHeldInside
    BY DEF SemaInv
  <1> QED
    BY <1>1, SemaInit, SemaNext, PTL DEF Spec

\* Hence no two threads are inside a critical section together: the free lists are
\* used by one thread at a time.
THEOREM MutualExclusion ==
  Spec => [](\A t, u \in Threads : pc[t] \in Inside /\ pc[u] \in Inside => t = u)
  <1>1. SemaHeldInside => \A t, u \in Threads : pc[t] \in Inside /\ pc[u] \in Inside => t = u
    BY DEF SemaHeldInside, Inside, FreePlaces
  <1> QED
    BY <1>1, SemaphoreInside, PTL

-----------------------------------------------------------------------------
(* Blocks stay in their pools.                                              *)

BuffersOf(p) == {<<p, k>> : k \in 1..BlkCnt[p]}

\* Lists hold blocks of their own pool ...
ListsApart ==
    /\ free = [p \in Pools |-> free[p]]
    /\ \A p \in Pools : free[p] \in Seq(BuffersOf(p))
\* ... and the block at hand belongs to the pool at hand, which a scan only moves
\* towards larger blocks.
AtHand ==
    \A t \in Threads :
        /\ pc[t] \in AllocPlaces => size[t] \in 1..BlkSize[pool[t]]
        /\ pc[t] \in {"popped", "dec", "dec_write", "free_wait", "push"}
              => ret[t] \in BuffersOf(pool[t])
ThreadTypes ==
    /\ pc \in [Threads -> Places]
    /\ size \in [Threads -> Asked \cup {0}] /\ pool \in [Threads -> Pools]
    /\ ret \in [Threads -> Buffers \cup {NoBuffer}]
SizeInv == ListsApart /\ AtHand /\ ThreadTypes

LEMMA BlocksOfPool ==
  /\ \A p \in Pools : BuffersOf(p) \subseteq Buffers
  /\ \A p \in Pools : \A b \in BuffersOf(p) : PoolOf(b) = p
  /\ \A b \in Buffers : PoolOf(b) \in Pools /\ b \in BuffersOf(PoolOf(b))
  BY DEF BuffersOf, Buffers, PoolOf

\* get_mem_pool_index gives a pool whose blocks are large enough, for every size that is
\* not above the largest, and finds a buffer's own pool from its blk_size.
LEMMA Sizes ==
  /\ \A s \in Int : FittingPool(s) # NoPool =>
        FittingPool(s) \in Pools /\ s <= BlkSize[FittingPool(s)]
  /\ \A b \in Buffers : HomePool(b) = PoolOf(b)
  /\ \A p \in Pools : p + 1 \in Pools => BlkSize[p] < BlkSize[p + 1]
  /\ \A p \in Pools : BlkSize[p] \in Nat
  <1>1. /\ Pools \subseteq Int /\ \A p \in Pools : BlkSize[p] \in Nat \ {0}
        /\ \A p, q \in Pools : p < q => BlkSize[p] < BlkSize[q]
    BY MemPoolAssumption DEF MemPoolAssumption, Pools
  <1>2. \A p \in Pools : p > 1 => p - 1 \in Pools
    BY MemPoolAssumption DEF MemPoolAssumption, Pools
  <1>3. ASSUME NEW s \in Int, FittingPool(s) # NoPool
        PROVE  FittingPool(s) \in Pools /\ s <= BlkSize[FittingPool(s)]
    <2>1. FittingPool(s) \in Pools /\ Fits(s, FittingPool(s))
      BY <1>3 DEF FittingPool
    <2>2. ASSUME NEW p \in Pools, Fits(s, p) PROVE s <= BlkSize[p]
      BY <1>1, <2>2 DEF Fits
    <2> QED
      BY <2>1, <2>2
  <1>4. ASSUME NEW p \in Pools PROVE FittingPool(BlkSize[p]) = p
    <2>1. Fits(BlkSize[p], p)
      BY DEF Fits
    <2>2. ASSUME NEW q \in Pools, Fits(BlkSize[p], q) PROVE q = p
      <3>1. /\ p \in Int /\ q \in Int /\ BlkSize[p] \in Nat /\ BlkSize[q] \in Nat
            /\ p < q => BlkSize[p] < BlkSize[q]
            /\ q < p => BlkSize[q] < BlkSize[p]
        BY <1>1
      <3>2. CASE BlkSize[p] = BlkSize[q]
        BY <3>1, <3>2
      <3>3. CASE q > 1 /\ BlkSize[q - 1] < BlkSize[p] /\ BlkSize[p] < BlkSize[q]
        <4>1. q - 1 \in Pools /\ BlkSize[q - 1] \in Nat /\ (p < q - 1 => BlkSize[p] < BlkSize[q - 1])
          BY <1>1, <1>2, <3>3
        <4>2. p < q /\ p >= q - 1 /\ p # q - 1
          BY <3>1, <3>3, <4>1
        <4> QED
          BY <3>1, <4>2
      <3>4. CASE q = 1 /\ BlkSize[p] < BlkSize[1]
        <4>1. p >= 1
          BY DEF Pools
        <4> QED
          BY <3>1, <3>4, <4>1
      <3> QED
        BY <2>2, <3>2, <3>3, <3>4 DEF Fits
    <2> QED
      BY <2>1, <2>2 DEF FittingPool
  <1>5. \A b \in Buffers : HomePool(b) = PoolOf(b)
    BY <1>4, BlocksOfPool DEF HomePool
  <1>6. ASSUME NEW p \in Pools, p + 1 \in Pools PROVE BlkSize[p] < BlkSize[p + 1]
    BY <1>1, <1>6
  <1> QED
    BY <1>1, <1>3, <1>5, <1>6

LEMMA SizeNext == SizeInv /\ [Next]_vars => SizeInv'
  <1> SUFFICES ASSUME SizeInv, [Next]_vars PROVE SizeInv'
    OBVIOUS
  <1>a. ASSUME NEW t \in Threads
        PROVE  /\ size = [size EXCEPT ![t] = size[t]] /\ size[t] \in Asked \cup {0}
               /\ pool = [pool EXCEPT ![t] = pool[t]] /\ pool[t] \in Pools
               /\ ret = [ret EXCEPT ![t] = ret[t]] /\ ret[t] \in Buffers \cup {NoBuffer}
               /\ pc = [pc EXCEPT ![t] = pc[t]] /\ pc[t] \in Places
               /\ pc[t] \in AllocPlaces => size[t] \in 1..BlkSize[pool[t]]
               /\ pc[t] \in {"popped", "dec", "dec_write", "free_wait", "push"}
                     => ret[t] \in BuffersOf(pool[t])
    BY DEF SizeInv, ThreadTypes, AtHand
  <1>b. Pools \subseteq Nat
    BY DEF Pools
  <1>c. free' = free => ListsApart'
    BY DEF SizeInv, ListsApart
  <1> USE DEF Places, AllocPlaces, FreePlaces, GoTo, Return, AtHand, ThreadTypes
  <1>1. ASSUME NEW t \in Threads, NEW s \in Asked, Alloc(t, s) PROVE SizeInv'
    <2>1. CASE s > 0 /\ FittingPool(s) # NoPool
      <3>1. s \in Int
        BY MemPoolAssumption DEF MemPoolAssumption
      <3>2. FittingPool(s) \in Pools /\ s \in 1..BlkSize[FittingPool(s)]
        BY <2>1, <3>1, Sizes
      <3> QED
        BY <1>c, <1>1, <2>1, <3>2 DEF Alloc, SizeInv
    <2>2. CASE ~(s > 0 /\ FittingPool(s) # NoPool)
      BY <1>c, <1>1, <2>2 DEF Alloc, SizeInv
    <2> QED
      BY <2>1, <2>2
  <1>2. ASSUME NEW t \in Threads, NEW b \in Buffers, Free(t, b) PROVE SizeInv'
    <2>1. PoolOf(b) \in Pools /\ b \in BuffersOf(PoolOf(b))
      BY BlocksOfPool
    <2>2. HomePool(b) = PoolOf(b)
      BY Sizes
    <2> QED
      BY <1>a, <1>c, <1>2, <2>1, <2>2 DEF Free, SizeInv
  <1>3. ASSUME NEW t \in Threads, TakeSema(t) PROVE SizeInv'
    BY <1>a, <1>c, <1>3 DEF TakeSema, SizeInv
  <1>4. ASSUME NEW t \in Threads, Scan(t) PROVE SizeInv'
    <2>1. CASE GoTo(t, "alloc_wait") /\ UNCHANGED <<pool, size>>
      BY <1>a, <1>c, <1>4, <2>1 DEF Scan, SizeInv
    <2>2. CASE pool[t] + 1 \in Pools /\ pool' = [pool EXCEPT ![t] = pool[t] + 1]
           /\ UNCHANGED <<pc, size>>
      <3>1. pc[t] = "scan" /\ size[t] \in 1..BlkSize[pool[t]]
        BY <1>a, <1>4 DEF Scan
      <3>2. size[t] \in 1..BlkSize[pool[t] + 1]
        BY <1>a, <2>2, <3>1, Sizes
      <3> QED
        BY <1>a, <1>c, <1>4, <2>2, <3>1, <3>2 DEF Scan, SizeInv
    <2>3. CASE Return(t) /\ UNCHANGED pool
      BY <1>a, <1>c, <1>4, <2>3 DEF Scan, SizeInv
    <2> QED
      BY <1>4, <2>1, <2>2, <2>3 DEF Scan
  <1>5. ASSUME NEW t \in Threads, Pop(t) PROVE SizeInv'
    <2>1. CASE free[pool[t]] = <<>>
      BY <1>a, <1>c, <1>5, <2>1 DEF Pop, SizeInv
    <2>2. CASE free[pool[t]] # <<>>
      <3>1. Head(free[pool[t]]) \in BuffersOf(pool[t])
        BY <1>a, <2>2, HeadTailProperties DEF SizeInv, ListsApart
      <3>2. Head(free[pool[t]]) \in Buffers
        BY <1>a, <3>1, BlocksOfPool
      <3> QED
        BY <1>a, <1>c, <1>5, <2>2, <3>1, <3>2 DEF Pop, SizeInv
    <2> QED
      BY <2>1, <2>2
  <1>6. ASSUME NEW t \in Threads, Unlink(t) PROVE SizeInv'
    <2>1. free[pool[t]] # <<>> => Tail(free[pool[t]]) \in Seq(BuffersOf(pool[t]))
      BY <1>a, HeadTailProperties DEF SizeInv, ListsApart
    <2>2. ListsApart'
      BY <1>a, <1>6, <2>1 DEF Unlink, SizeInv, ListsApart
    <2> QED
      BY <1>a, <1>6, <2>2 DEF Unlink, SizeInv
  <1>7. ASSUME NEW t \in Threads, ReadCount(t) PROVE SizeInv'
    BY <1>a, <1>c, <1>7 DEF ReadCount, SizeInv
  <1>8. ASSUME NEW t \in Threads, DecWrite(t) PROVE SizeInv'
    BY <1>a, <1>c, <1>8 DEF DecWrite, SizeInv
  <1>9. ASSUME NEW t \in Threads, Push(t) PROVE SizeInv'
    <2>1. <<ret[t]>> \o free[pool[t]] \in Seq(BuffersOf(pool[t]))
      <3>1. <<ret[t]>> \in Seq(BuffersOf(pool[t]))
        BY <1>a, <1>9 DEF Push
      <3>2. free[pool[t]] \in Seq(BuffersOf(pool[t]))
        BY <1>a DEF SizeInv, ListsApart
      <3> QED
        BY <3>1, <3>2, ConcatProperties
    <2>2. ListsApart'
      BY <1>a, <1>9, <2>1 DEF Push, SizeInv, ListsApart
    <2> QED
      BY <1>a, <1>9, <2>2 DEF Push, SizeInv
  <1>10. ASSUME NEW t \in Threads, IncWrite(t) PROVE SizeInv'
    BY <1>a, <1>c, <1>10 DEF IncWrite, SizeInv
  <1>11. ASSUME NEW t \in Threads, FreePost(t) PROVE SizeInv'
    BY <1>a, <1>c, <1>11 DEF FreePost, SizeInv
  <1>12. ASSUME OtherTakes \/ OtherPosts \/ OtherDies PROVE SizeInv'
    BY <1>12 DEF OtherTakes, OtherPosts, OtherDies, data, SizeInv, ListsApart
  <1>13. CASE UNCHANGED vars
    BY <1>13 DEF vars, data, SizeInv, ListsApart
  <1> QED
    BY <1>1, <1>2, <1>3, <1>4, <1>5, <1>6, <1>7, <1>8, <1>9, <1>10, <1>11, <1>12, <1>13 DEF Next, Step

LEMMA SizeInit == Init => SizeInv
  <1> SUFFICES ASSUME Init PROVE SizeInv
    OBVIOUS
  <1>1. ASSUME NEW p \in Pools PROVE free[p] \in Seq(BuffersOf(p))
    <2>1. BlkCnt[p] \in Nat
      BY MemPoolAssumption DEF MemPoolAssumption
    <2>2. free[p] \in [1..BlkCnt[p] -> BuffersOf(p)]
      BY DEF Init, BuffersOf
    <2> QED
      BY <2>1, <2>2, SeqDef
  <1>2. 1 \in Pools
    BY MemPoolAssumption DEF MemPoolAssumption, Pools
  <1>3. ListsApart
    BY <1>1 DEF Init, ListsApart
  <1>4. ThreadTypes /\ AtHand
    BY <1>2 DEF Init, ThreadTypes, AtHand, Places, AllocPlaces
  <1> QED
    BY <1>3, <1>4 DEF SizeInv

\* The buffer new_alloc_buffer hands out is at least as large as the size asked for,
\* although a larger pool may lend it and it has to find its own pool again.
THEOREM BigEnough == Spec => []LargeEnough
  <1>1. SizeInv => LargeEnough
    BY BlocksOfPool DEF SizeInv, AtHand, ThreadTypes, LargeEnough, AllocPlaces
  <1> QED
    BY <1>1, SizeInit, SizeNext, PTL DEF Spec

-----------------------------------------------------------------------------
(* Every buffer has one owner.                                              *)

\* The places at which a thread has a buffer in hand.
Carrying == {"popped", "dec", "dec_write", "free_wait", "push"}
Mine(t)  == held[t] \cup InHand(t)

HandsFull ==
    /\ held \in [Threads -> SUBSET Buffers]
    /\ \A t \in Threads : ret[t] \notin held[t]
    /\ \A t \in Threads : pc[t] \notin Carrying => ret[t] = NoBuffer
\* The head of the list is in hand before it is unlinked.
AtHead ==
    \A t \in Threads : pc[t] = "popped" =>
        free[pool[t]] # <<>> /\ ret[t] = Head(free[pool[t]])
NoDoubles ==
    /\ \A p \in Pools : IsInjective(free[p])
    /\ \A t, u \in Threads : t # u => Mine(t) \cap Mine(u) = {}
    /\ \A t \in Threads, p \in Pools :
          /\ held[t] \cap ToSet(free[p]) = {}
          /\ pc[t] # "popped" => ret[t] \notin ToSet(free[p])
NothingLost ==
    \A b \in Buffers :
        \/ \E p \in Pools : b \in ToSet(free[p])
        \/ \E t \in Threads : b \in held[t] \/ b = ret[t]
OwnInv == HandsFull /\ AtHead /\ NoDoubles /\ NothingLost

LEMMA ListElements ==
  ASSUME NEW S, NEW s \in Seq(S)
  PROVE  /\ ToSet(s) \subseteq S
         /\ ToSet(<<>>) = {}
         /\ s # <<>> => ToSet(s) = {Head(s)} \cup ToSet(Tail(s))
         /\ s # <<>> /\ IsInjective(s) =>
               IsInjective(Tail(s)) /\ Head(s) \notin ToSet(Tail(s))
  <1>1. s \in [1..Len(s) -> S] /\ Len(s) \in Nat /\ DOMAIN s = 1..Len(s)
    BY LenProperties
  <1>2. ToSet(s) \subseteq S /\ ToSet(<<>>) = {}
    BY <1>1 DEF ToSet
  <1>3. ASSUME s # <<>>
        PROVE  /\ ToSet(s) = {Head(s)} \cup ToSet(Tail(s))
               /\ IsInjective(s) => IsInjective(Tail(s)) /\ Head(s) \notin ToSet(Tail(s))
    <2>1. /\ Len(s) \in Nat \ {0} /\ Head(s) = s[1]
          /\ Tail(s) \in Seq(S) /\ Len(Tail(s)) = Len(s) - 1
          /\ \A i \in 1..(Len(s) - 1) : Tail(s)[i] = s[i + 1]
      BY <1>3, EmptySeq, HeadTailProperties
    <2>2. DOMAIN Tail(s) = 1..(Len(s) - 1)
      BY <2>1, LenProperties
    <2>3. \A k \in 1..Len(s) : k = 1 \/ (k - 1 \in 1..(Len(s) - 1) /\ s[k] = Tail(s)[k - 1])
      BY <2>1
    <2>4. ToSet(s) = {Head(s)} \cup ToSet(Tail(s))
      <3>1. ASSUME NEW k \in 1..Len(s) PROVE s[k] \in {Head(s)} \cup ToSet(Tail(s))
        BY <2>1, <2>2, <2>3 DEF ToSet
      <3>2. ASSUME NEW k \in 1..(Len(s) - 1) PROVE Tail(s)[k] \in ToSet(s)
        <4>1. k + 1 \in 1..Len(s) /\ Tail(s)[k] = s[k + 1]
          BY <2>1
        <4> QED
          BY <1>1, <4>1 DEF ToSet
      <3>3. Head(s) \in ToSet(s)
        <4>1. 1 \in 1..Len(s)
          BY <2>1
        <4> QED
          BY <1>1, <2>1, <4>1 DEF ToSet
      <3> QED
        BY <1>1, <2>2, <3>1, <3>2, <3>3 DEF ToSet
    <2>5. IsInjective(s) => IsInjective(Tail(s)) /\ Head(s) \notin ToSet(Tail(s))
      BY <1>1, <2>1, <2>2 DEF ToSet, IsInjective
    <2> QED
      BY <2>4, <2>5
  <1> QED
    BY <1>2, <1>3

LEMMA PushedElements ==
  ASSUME NEW S, NEW s \in Seq(S), NEW x \in S
  PROVE  /\ ToSet(<<x>> \o s) = {x} \cup ToSet(s)
         /\ IsInjective(s) /\ x \notin ToSet(s) => IsInjective(<<x>> \o s)
         /\ Len(<<x>> \o s) = Len(s) + 1 /\ <<x>> \o s # <<>>
         /\ Head(<<x>> \o s) = x
  <1> DEFINE r == <<x>> \o s
  <1>1. Len(s) \in Nat /\ DOMAIN s = 1..Len(s)
    BY LenProperties
  <1>2. <<x>> \in Seq(S) /\ Len(<<x>>) = 1 /\ <<x>>[1] = x
    OBVIOUS
  <1>3. /\ r \in Seq(S) /\ Len(r) = Len(s) + 1
        /\ \A i \in 1..(Len(s) + 1) : r[i] = IF i = 1 THEN x ELSE s[i - 1]
    BY <1>1, <1>2, ConcatProperties
  <1>4. DOMAIN r = 1..(Len(s) + 1) /\ r # <<>> /\ r[1] = x
    BY <1>1, <1>3, LenProperties, EmptySeq
  <1>5. \A k \in 1..Len(s) : k + 1 \in 1..(Len(s) + 1) /\ r[k + 1] = s[k]
    BY <1>1, <1>3
  <1> HIDE DEF r
  <1>6. ToSet(r) = {x} \cup ToSet(s)
    <2>1. ASSUME NEW k \in 1..(Len(s) + 1) PROVE r[k] \in {x} \cup ToSet(s)
      <3>1. k = 1 \/ (k - 1 \in 1..Len(s) /\ r[k] = s[k - 1])
        BY <1>1, <1>3
      <3> QED
        BY <1>1, <1>4, <3>1 DEF ToSet
    <2>2. ASSUME NEW k \in 1..Len(s) PROVE s[k] \in ToSet(r)
      BY <1>4, <1>5 DEF ToSet
    <2>3. x \in ToSet(r)
      <3>1. 1 \in 1..(Len(s) + 1)
        BY <1>1
      <3> QED
        BY <1>4, <3>1 DEF ToSet
    <2> QED
      BY <1>1, <1>4, <2>1, <2>2, <2>3 DEF ToSet
  <1>7. ASSUME IsInjective(s), x \notin ToSet(s) PROVE IsInjective(r)
    <2> SUFFICES ASSUME NEW a \in 1..(Len(s) + 1), NEW b \in 1..(Len(s) + 1), r[a] = r[b]
                 PROVE  a = b
      BY <1>4 DEF IsInjective
    <2>1. ASSUME NEW k \in 1..(Len(s) + 1), k # 1
          PROVE  k - 1 \in 1..Len(s) /\ r[k] = s[k - 1] /\ r[k] # x
      <3>1. k - 1 \in 1..Len(s) /\ r[k] = s[k - 1]
        BY <1>1, <1>3, <2>1
      <3>2. s[k - 1] \in ToSet(s)
        BY <1>1, <3>1 DEF ToSet
      <3> QED
        BY <1>7, <3>1, <3>2
    <2>2. a # 1 /\ b # 1 => a - 1 = b - 1
      BY <1>1, <1>7, <2>1 DEF IsInjective
    <2> QED
      BY <1>3, <1>4, <2>1, <2>2
  <1>8. Head(r) = x
    BY <1>3, <1>4
  <1> QED
    BY <1>3, <1>4, <1>6, <1>7, <1>8 DEF r

LEMMA NoBufferOutside == NoBuffer \notin Buffers
  BY DEF NoBuffer, Buffers, Pools

LEMMA OwnNext ==
  ASSUME SemaInv, SizeInv, OwnInv, [Next]_vars
  PROVE  OwnInv'
  <1>a. ASSUME NEW t \in Threads
        PROVE  /\ ret = [ret EXCEPT ![t] = ret[t]] /\ ret[t] \in Buffers \cup {NoBuffer}
               /\ pc = [pc EXCEPT ![t] = pc[t]] /\ pool[t] \in Pools
               /\ free[pool[t]] \in Seq(BuffersOf(pool[t])) /\ BuffersOf(pool[t]) \subseteq Buffers
               /\ pc[t] \in Carrying => ret[t] \in BuffersOf(pool[t]) /\ ret[t] \in Buffers
               /\ pc[t] \in {"popped", "push"} => hSema = t
    BY BlocksOfPool DEF SizeInv, ThreadTypes, AtHand, ListsApart, Carrying, SemaInv, SemaHeldInside, FreePlaces
  <1>b. \A p, q \in Pools : p # q => \A b \in BuffersOf(p) : b \notin BuffersOf(q)
    BY BlocksOfPool
  <1>c. \A p \in Pools : ToSet(free[p]) \subseteq BuffersOf(p)
    BY ListElements DEF SizeInv, ListsApart
  <1>d. free = [p \in Pools |-> free[p]]
    BY DEF SizeInv, ListsApart
  <1>e. /\ held \in [Threads -> SUBSET Buffers] /\ ret \in [Threads -> Buffers \cup {NoBuffer}]
        /\ pc \in [Threads -> Places] /\ pool \in [Threads -> Pools]
    BY DEF OwnInv, HandsFull, SizeInv, ThreadTypes
  \* A step that moves no buffer.
  <1>q. ASSUME NEW t \in Threads, UNCHANGED <<free, held, ret>>, pc[t] # "popped", pc'[t] # "popped",
               pc[t] \in Carrying => pc'[t] \in Carrying,
               \A u \in Threads : u # t => pc'[u] = pc[u] /\ pool'[u] = pool[u]
        PROVE  OwnInv'
    <2>1. HandsFull'
      BY <1>q DEF OwnInv, HandsFull
    <2>2. AtHead'
      BY <1>q DEF OwnInv, AtHead
    <2>3. NoDoubles'
      BY <1>q DEF OwnInv, NoDoubles, Mine, InHand
    <2>4. NothingLost'
      BY <1>q DEF OwnInv, NothingLost
    <2> QED
      BY <2>1, <2>2, <2>3, <2>4 DEF OwnInv
  <1> USE DEF GoTo, Return
  <1>1. ASSUME NEW t \in Threads, NEW s \in Asked, Alloc(t, s) PROVE OwnInv'
    BY <1>1, <1>q, <1>e DEF Alloc, Carrying
  <1>2. ASSUME NEW t \in Threads, NEW b \in Buffers, Free(t, b) PROVE OwnInv'
    <2>1. /\ ret[t] = NoBuffer /\ ret' = [ret EXCEPT ![t] = b] /\ held' = [held EXCEPT ![t] = held[t] \ {b}]
          /\ pc' = [pc EXCEPT ![t] = "free_wait"] /\ UNCHANGED free /\ b \in held[t]
      BY <1>2 DEF Free, OwnInv, HandsFull, Carrying
    <2>2. /\ ret'[t] = b /\ held'[t] = held[t] \ {b} /\ pc'[t] = "free_wait"
          /\ \A u \in Threads : u # t => /\ ret'[u] = ret[u] /\ held'[u] = held[u] /\ pc'[u] = pc[u]
                                         /\ pool'[u] = pool[u]
      BY <1>2, <1>e, <2>1 DEF Free
    <2>3. HandsFull'
      BY <2>1, <2>2 DEF OwnInv, HandsFull, Carrying
    <2>4. AtHead'
      BY <2>1, <2>2 DEF OwnInv, AtHead
    <2>5. NoDoubles'
      BY <2>1, <2>2 DEF OwnInv, NoDoubles, Mine, InHand
    <2>6. NothingLost'
      BY <2>1, <2>2, NoBufferOutside DEF OwnInv, NothingLost
    <2> QED
      BY <2>3, <2>4, <2>5, <2>6 DEF OwnInv
  <1>3. ASSUME NEW t \in Threads, TakeSema(t) PROVE OwnInv'
    BY <1>3, <1>q, <1>a DEF TakeSema, Carrying
  <1>4. ASSUME NEW t \in Threads, Scan(t) PROVE OwnInv'
    BY <1>4, <1>q, <1>a DEF Scan, Carrying, SizeInv, ThreadTypes
  <1>5. ASSUME NEW t \in Threads, Pop(t) PROVE OwnInv'
    <2>1. CASE free[pool[t]] = <<>>
      <3>1. GoTo(t, "idle") /\ UNCHANGED <<ret, free, held, pool>> /\ pc[t] = "pop"
        BY <1>5, <2>1 DEF Pop
      <3> QED
        BY <3>1, <1>e, <1>q DEF Carrying
    <2>2. CASE free[pool[t]] # <<>>
      <3> DEFINE h == Head(free[pool[t]])
      <3>1. /\ ret[t] = NoBuffer /\ ret' = [ret EXCEPT ![t] = h] /\ UNCHANGED <<free, held, pool>>
            /\ pc' = [pc EXCEPT ![t] = "popped"]
        BY <1>5, <2>2 DEF Pop, OwnInv, HandsFull, Carrying
      <3>2. /\ ret'[t] = h /\ pc'[t] = "popped"
            /\ \A u \in Threads : u # t => ret'[u] = ret[u] /\ pc'[u] = pc[u]
        BY <3>1, <1>e
      <3>3. h \in ToSet(free[pool[t]]) /\ h \in BuffersOf(pool[t]) /\ h \in Buffers
        BY <1>a, <1>c, <2>2, ListElements
      <3>4. \A u \in Threads : u # t => pc[u] # "popped"
        BY <1>a, <1>5 DEF Pop, SemaInv, SemaHeldInside
      <3>5. \A u \in Threads : h \notin held[u] /\ (u # t => ret[u] # h)
        BY <1>a, <3>3, <3>4 DEF OwnInv, NoDoubles
      <3> HIDE DEF h
      <3>6. HandsFull'
        BY <3>1, <3>2, <3>5 DEF OwnInv, HandsFull, Carrying
      <3>7. AtHead'
        BY <2>2, <3>1, <3>2 DEF OwnInv, AtHead, h
      <3>8. NoDoubles'
        BY <3>1, <3>2, <3>5 DEF OwnInv, NoDoubles, Mine, InHand
      <3>9. NothingLost'
        BY <3>1, <3>2, NoBufferOutside DEF OwnInv, NothingLost
      <3> QED
        BY <3>6, <3>7, <3>8, <3>9 DEF OwnInv
    <2> QED
      BY <2>1, <2>2
  <1>6. ASSUME NEW t \in Threads, Unlink(t) PROVE OwnInv'
    <2> DEFINE q == pool[t]
               h == ret[t]
    <2>1. /\ pc[t] = "popped" /\ free[q] # <<>> /\ h = Head(free[q]) /\ q \in Pools /\ h \in Buffers
          /\ UNCHANGED <<held, ret, pool>> /\ pc' = [pc EXCEPT ![t] = "dec"]
          /\ free' = [free EXCEPT ![q] = Tail(free[q])]
      BY <1>6, <1>a DEF Unlink, OwnInv, AtHead, Carrying
    <2>2. /\ pc'[t] = "dec" /\ free'[q] = Tail(free[q])
          /\ \A u \in Threads : u # t => pc'[u] = pc[u]
          /\ \A p \in Pools : p # q => free'[p] = free[p]
      BY <2>1, <1>e, <1>d
    <2>3. /\ ToSet(free[q]) = {h} \cup ToSet(free'[q]) /\ IsInjective(free'[q])
          /\ h \notin ToSet(free'[q])
      BY <2>1, <2>2, <1>a, ListElements DEF OwnInv, NoDoubles
    <2>4. \A u \in Threads : u # t => pc[u] # "popped"
      BY <1>a, <2>1
    <2>5. \A p \in Pools : h \notin ToSet(free'[p])
      BY <1>a, <1>b, <1>c, <2>1, <2>2, <2>3 DEF Carrying
    <2>6. \A p \in Pools : ToSet(free'[p]) \subseteq ToSet(free[p]) /\ IsInjective(free'[p])
      BY <2>2, <2>3 DEF OwnInv, NoDoubles
    <2> HIDE DEF q, h
    <2>7. HandsFull'
      BY <2>1, <2>2 DEF OwnInv, HandsFull, Carrying
    <2>8. AtHead'
      BY <2>2, <2>4 DEF AtHead
    <2>9. NoDoubles'
      <3>1. \A u, v \in Threads : u # v => Mine(u)' \cap Mine(v)' = {}
        BY <2>1 DEF OwnInv, NoDoubles, Mine, InHand
      <3>2. ASSUME NEW u \in Threads, NEW p \in Pools
            PROVE  (held[u] \cap ToSet(free[p]) = {})' /\ ret'[u] \notin ToSet(free'[p])
        BY <2>1, <2>4, <2>5, <2>6 DEF OwnInv, NoDoubles, h
      <3> QED
        BY <2>6, <3>1, <3>2 DEF NoDoubles
    <2>10. NothingLost'
      <3>1. \A p \in Pools : \A b \in ToSet(free[p]) : b = h \/ b \in ToSet(free'[p])
        BY <2>2, <2>3
      <3> QED
        BY <2>1, <3>1 DEF OwnInv, NothingLost, h
    <2> QED
      BY <2>7, <2>8, <2>9, <2>10 DEF OwnInv
  <1>7. ASSUME NEW t \in Threads, ReadCount(t) PROVE OwnInv'
    BY <1>7, <1>q, <1>a DEF ReadCount, Carrying
  <1>8. ASSUME NEW t \in Threads, DecWrite(t) PROVE OwnInv'
    <2> DEFINE h == ret[t]
    <2>1. /\ pc[t] = "dec_write" /\ UNCHANGED <<free, pool>> /\ pc' = [pc EXCEPT ![t] = "idle"]
          /\ ret' = [ret EXCEPT ![t] = NoBuffer] /\ held' = [held EXCEPT ![t] = held[t] \cup {h}]
          /\ h \in Buffers
      BY <1>8, <1>a DEF DecWrite, Carrying
    <2>2. /\ pc'[t] = "idle" /\ ret'[t] = NoBuffer /\ held'[t] = held[t] \cup {h}
          /\ \A u \in Threads : u # t => ret'[u] = ret[u] /\ pc'[u] = pc[u] /\ held'[u] = held[u]
      BY <2>1, <1>e
    <2>3. h # NoBuffer
      BY <2>1, NoBufferOutside
    <2>4. HandsFull'
      BY <2>1, <2>2, NoBufferOutside DEF OwnInv, HandsFull, Carrying
    <2>5. AtHead'
      BY <2>1, <2>2 DEF OwnInv, AtHead
    <2>6. NoDoubles'
      BY <2>1, <2>2, <2>3, <1>c, NoBufferOutside, BlocksOfPool DEF OwnInv, NoDoubles, Mine, InHand
    <2>7. NothingLost'
      BY <2>1, <2>2 DEF OwnInv, NothingLost
    <2> QED
      BY <2>4, <2>5, <2>6, <2>7 DEF OwnInv
  <1>9. ASSUME NEW t \in Threads, Push(t) PROVE OwnInv'
    <2> DEFINE q == pool[t]
               h == ret[t]
    <2>1. /\ pc[t] = "push" /\ q \in Pools /\ h \in Buffers /\ h \in BuffersOf(q)
          /\ UNCHANGED <<held, pool>> /\ pc' = [pc EXCEPT ![t] = "inc"]
          /\ ret' = [ret EXCEPT ![t] = NoBuffer]
          /\ free' = [free EXCEPT ![q] = <<h>> \o free[q]]
      BY <1>9, <1>a DEF Push, Carrying
    <2>2. /\ pc'[t] = "inc" /\ ret'[t] = NoBuffer /\ free'[q] = <<h>> \o free[q]
          /\ \A u \in Threads : u # t => pc'[u] = pc[u] /\ ret'[u] = ret[u]
          /\ \A p \in Pools : p # q => free'[p] = free[p]
      BY <2>1, <1>e, <1>d
    <2>3. \A u \in Threads : h \notin held[u] /\ (u # t => h # ret[u])
      BY <2>1, NoBufferOutside DEF OwnInv, HandsFull, NoDoubles, Mine, InHand
    <2>4. \A p \in Pools : h \notin ToSet(free[p])
      BY <2>1 DEF OwnInv, NoDoubles
    <2>5. ToSet(free'[q]) = {h} \cup ToSet(free[q]) /\ IsInjective(free'[q])
      BY <2>1, <2>2, <2>4, <1>a, PushedElements DEF OwnInv, NoDoubles
    <2>6. \A u \in Threads : u # t => pc[u] # "popped"
      BY <1>a, <2>1
    <2>7. \A p \in Pools : \A b \in ToSet(free'[p]) : b = h \/ b \in ToSet(free[p])
      BY <2>2, <2>5
    <2>8. NoBuffer # h /\ \A p \in Pools : NoBuffer \notin ToSet(free[p])
      BY <1>c, <2>1, NoBufferOutside, BlocksOfPool
    <2> HIDE DEF q, h
    <2>9. HandsFull'
      BY <2>1, <2>2, NoBufferOutside DEF OwnInv, HandsFull, Carrying
    <2>10. AtHead'
      BY <2>2, <2>6 DEF AtHead
    <2>11. NoDoubles'
      <3>1. \A u, v \in Threads : u # v => Mine(u)' \cap Mine(v)' = {}
        BY <2>1, <2>2 DEF OwnInv, NoDoubles, Mine, InHand
      <3>2. \A p \in Pools : IsInjective(free'[p])
        BY <2>2, <2>5 DEF OwnInv, NoDoubles
      <3>3. ASSUME NEW u \in Threads, NEW p \in Pools
            PROVE  (held[u] \cap ToSet(free[p]) = {})' /\ ret'[u] \notin ToSet(free'[p])
        <4>1. held[u] \cap ToSet(free[p]) = {} /\ (u # t => ret[u] \notin ToSet(free[p]))
          BY <2>6 DEF OwnInv, NoDoubles
        <4>2. (held[u] \cap ToSet(free[p]) = {})'
          BY <2>1, <2>3, <2>7, <4>1
        <4>3. ret'[u] \notin ToSet(free'[p])
          BY <2>2, <2>3, <2>7, <2>8, <4>1
        <4> QED
          BY <4>2, <4>3
      <3> QED
        BY <3>1, <3>2, <3>3 DEF NoDoubles
    <2>12. NothingLost'
      <3>1. \A p \in Pools : ToSet(free[p]) \subseteq ToSet(free'[p])
        BY <2>2, <2>5
      <3>2. h \in ToSet(free'[q])
        BY <2>5
      <3> QED
        BY <2>1, <2>2, <3>1, <3>2 DEF OwnInv, NothingLost, h
    <2> QED
      BY <2>9, <2>10, <2>11, <2>12 DEF OwnInv
  <1>10. ASSUME NEW t \in Threads, IncWrite(t) PROVE OwnInv'
    BY <1>10, <1>q, <1>a DEF IncWrite, Carrying
  <1>11. ASSUME NEW t \in Threads, FreePost(t) PROVE OwnInv'
    BY <1>11, <1>q, <1>a DEF FreePost, Carrying
  <1>12. ASSUME UNCHANGED <<pc, data>> PROVE OwnInv'
    BY <1>12 DEF data, OwnInv, HandsFull, AtHead, NoDoubles, NothingLost, Mine, InHand
  <1> QED
    BY <1>1, <1>2, <1>3, <1>4, <1>5, <1>6, <1>7, <1>8, <1>9, <1>10, <1>11, <1>12
       DEF Next, Step, OtherTakes, OtherPosts, OtherDies, vars

LEMMA OwnInit == Init => OwnInv
  <1> SUFFICES ASSUME Init PROVE OwnInv
    OBVIOUS
  <1>1. ASSUME NEW p \in Pools PROVE IsInjective(free[p]) /\ ToSet(free[p]) = BuffersOf(p)
    BY DEF Init, IsInjective, ToSet, BuffersOf
  <1>2. HandsFull /\ AtHead
    BY NoBufferOutside DEF Init, HandsFull, AtHead, Carrying
  <1>3. NoDoubles
    <2>1. \A p \in Pools : NoBuffer \notin ToSet(free[p])
      BY <1>1, NoBufferOutside, BlocksOfPool
    <2> QED
      BY <1>1, <2>1 DEF Init, NoDoubles, Mine, InHand
  <1>4. NothingLost
    BY <1>1, BlocksOfPool DEF NothingLost
  <1> QED
    BY <1>2, <1>3, <1>4 DEF OwnInv

\* A buffer is in one free list, once, or with one thread, and none is lost, although
\* new_alloc_buffer chooses its pool by a count it reads without the semaphore.
THEOREM OneOwnerAlways == Spec => []OneOwner
  <1>1. ASSUME SizeInv, OwnInv PROVE OneOwner
    <2>1. \A p \in Pools : ToSet(free[p]) \subseteq BuffersOf(p)
      BY <1>1, ListElements DEF SizeInv, ListsApart
    <2>2. \A p \in Pools : IsInjective(free[p]) /\ \A b \in ToSet(free[p]) : PoolOf(b) = p
      BY <1>1, <2>1, BlocksOfPool DEF OwnInv, NoDoubles
    <2>3. \A t, u \in Threads : t # u => (held[t] \cup InHand(t)) \cap (held[u] \cup InHand(u)) = {}
      BY <1>1 DEF OwnInv, NoDoubles, Mine
    <2>4. \A t \in Threads : \A p \in Pools :
             pc[t] # "popped" => (held[t] \cup InHand(t)) \cap ToSet(free[p]) = {}
      BY <1>1 DEF OwnInv, NoDoubles, InHand
    <2>5. Buffers = (UNION {ToSet(free[p]) : p \in Pools}) \cup (UNION {held[t] \cup InHand(t) : t \in Threads})
      <3>1. \A p \in Pools : ToSet(free[p]) \subseteq Buffers
        BY <2>1, BlocksOfPool
      <3>2. \A t \in Threads : held[t] \cup InHand(t) \subseteq Buffers
        BY <1>1 DEF OwnInv, HandsFull, SizeInv, ThreadTypes, InHand
      <3>3. ASSUME NEW b \in Buffers
            PROVE  b \in (UNION {ToSet(free[p]) : p \in Pools}) \cup (UNION {held[t] \cup InHand(t) : t \in Threads})
        BY <1>1, NoBufferOutside DEF OwnInv, NothingLost, InHand
      <3> QED
        BY <3>1, <3>2, <3>3
    <2> QED
      BY <2>2, <2>3, <2>4, <2>5 DEF OneOwner
  <1> QED
    BY <1>1, SemaInit, SizeInit, OwnInit, SemaNext, SizeNext, OwnNext, PTL DEF Spec

-----------------------------------------------------------------------------
(* free_cnt and the free list.                                              *)

\* The threads whose free_cnt-- is still to come, and whether a free_cnt++ is.
Leaving(p) == {t \in Threads : pc[t] \in {"dec", "dec_write"} /\ pool[t] = p}
Adding(t)  == pc[t] \in {"inc", "inc_write"}
Pending(p) == IF \E t \in Threads : Adding(t) /\ pool[t] = p THEN 1 ELSE 0
Writing    == {"dec_write", "inc_write"}

CountInv ==
    /\ cnt \in [Pools -> 0..(Width - 1)] /\ reg \in [Threads -> 0..(Width - 1)]
    /\ torn \in BOOLEAN
    /\ \A t \in Threads : Adding(t) => free[pool[t]] # <<>>
    /\ ~torn =>
          /\ \A p \in Pools : cnt[p] + Pending(p) = Len(free[p]) + Cardinality(Leaving(p))
          /\ \A t \in Threads : pc[t] \in Writing => reg[t] = cnt[pool[t]]
          /\ \A t, u \in Threads :
                pc[t] \in Writing /\ pc[u] \in Writing /\ pool[t] = pool[u] => t = u

\* A pool has room for its list and for the blocks that threads still have to count.
LEMMA Room ==
  ASSUME SizeInv, OwnInv, NEW p \in Pools
  PROVE  /\ IsFiniteSet(Leaving(p)) /\ Cardinality(Leaving(p)) \in Nat /\ Len(free[p]) \in Nat
         /\ Len(free[p]) + Cardinality(Leaving(p)) <= BlkCnt[p]
  <1> DEFINE s == free[p]
             B == BuffersOf(p)
             L == Leaving(p)
             f == [b \in B |-> b[2]]
             g == [t \in L |-> ret[t]]
             R == B \ ToSet(s)
  <1>1. BlkCnt[p] \in Nat /\ BlkCnt[p] > 0
    BY MemPoolAssumption DEF MemPoolAssumption
  <1>2. IsFiniteSet(B) /\ Cardinality(B) <= BlkCnt[p]
    <2>1. f \in [B -> 1..BlkCnt[p]]
      BY <1>1 DEF BuffersOf
    <2>2. \A a, b \in B : f[a] = f[b] => a = b
      BY DEF BuffersOf
    <2>3. f \in Injection(B, 1..BlkCnt[p])
      BY <2>1, <2>2, Fun_IsInj
    <2>4. IsFiniteSet(1..BlkCnt[p]) /\ Cardinality(1..BlkCnt[p]) = BlkCnt[p]
      <3>1. 1 \in Int /\ BlkCnt[p] \in Int /\ ~(1 > BlkCnt[p]) /\ BlkCnt[p] - 1 + 1 = BlkCnt[p]
        BY <1>1
      <3> QED
        BY <3>1, FS_Interval
    <2> HIDE DEF f
    <2> QED
      BY <2>3, <2>4, FS_Injection
  <1>3. s \in Seq(B) /\ Len(s) \in Nat /\ s \in [1..Len(s) -> B] /\ DOMAIN s = 1..Len(s)
    BY LenProperties DEF SizeInv, ListsApart
  <1>4. IsInjective(s)
    BY DEF OwnInv, NoDoubles
  <1>5. IsFiniteSet(ToSet(s)) /\ Cardinality(ToSet(s)) = Len(s)
    <2>1. s \in [1..Len(s) -> ToSet(s)]
      BY <1>3 DEF ToSet
    <2>2. s \in Bijection(1..Len(s), ToSet(s))
      BY <1>3, <1>4, <2>1 DEF Bijection, Injection, Surjection, ToSet, IsInjective
    <2>3. IsFiniteSet(1..Len(s)) /\ Cardinality(1..Len(s)) = Len(s)
      BY <1>3, FS_Interval
    <2>4. ExistsBijection(1..Len(s), ToSet(s))
      BY <2>2 DEF ExistsBijection
    <2> HIDE DEF s
    <2> QED
      BY <2>3, <2>4, FS_Bijection
  <1>6. ToSet(s) \subseteq B
    BY <1>3, ListElements
  <1>7. IsFiniteSet(R) /\ Cardinality(R) = Cardinality(B) - Len(s)
    <2>1. B \cap ToSet(s) = ToSet(s)
      BY <1>6
    <2>2. /\ IsFiniteSet(B \ ToSet(s))
          /\ Cardinality(B \ ToSet(s)) = Cardinality(B) - Cardinality(B \cap ToSet(s))
      <3> HIDE DEF s, B
      <3> QED
        BY <1>2, FS_Difference
    <2> HIDE DEF s, B
    <2> QED
      BY <1>5, <2>1, <2>2
  <1>8. g \in Injection(L, R)
    <2>1. ASSUME NEW t \in L PROVE ret[t] \in R /\ ret[t] \in Buffers /\ ret[t] \in Mine(t)
      <3>1. t \in Threads /\ pc[t] \in {"dec", "dec_write"} /\ pool[t] = p
        BY <2>1 DEF Leaving
      <3>2. ret[t] \in B /\ ret[t] \in Buffers
        BY <3>1, BlocksOfPool DEF SizeInv, AtHand
      <3> QED
        BY <3>1, <3>2, NoBufferOutside DEF OwnInv, NoDoubles, Mine, InHand
    <2>2. g \in [L -> R]
      BY <2>1
    <2>3. \A t, u \in L : g[t] = g[u] => t = u
      BY <2>1 DEF OwnInv, NoDoubles, Leaving
    <2> HIDE DEF g, R, L
    <2> QED
      BY <2>2, <2>3, Fun_IsInj
  <1>9. IsFiniteSet(L) /\ Cardinality(L) <= Cardinality(R)
    <2> HIDE DEF g, R, L
    <2> QED
      BY <1>7, <1>8, FS_Injection
  <1>10. Cardinality(L) \in Nat /\ Cardinality(B) \in Nat
    <2> HIDE DEF B, L
    <2> QED
      BY <1>2, <1>9, FS_CardinalityType
  <1> HIDE DEF s, B, R, L
  <1>11. Len(s) + Cardinality(L) <= BlkCnt[p]
    BY <1>1, <1>2, <1>3, <1>7, <1>9, <1>10
  <1> QED
    BY <1>3, <1>9, <1>10, <1>11 DEF s, L

\* The list's length follows from its elements' moves.
LEMMA ListLengths ==
  ASSUME SizeInv, OwnInv, NEW t \in Threads
  PROVE  /\ pc[t] = "popped" => Len(Tail(free[pool[t]])) = Len(free[pool[t]]) - 1
         /\ pc[t] = "push" => /\ Len(<<ret[t]>> \o free[pool[t]]) = Len(free[pool[t]]) + 1
                              /\ <<ret[t]>> \o free[pool[t]] # <<>>
  <1>1. pool[t] \in Pools /\ free[pool[t]] \in Seq(BuffersOf(pool[t]))
    BY DEF SizeInv, ThreadTypes, ListsApart
  <1>2. CASE pc[t] = "popped"
    <2>1. free[pool[t]] # <<>>
      BY <1>2 DEF OwnInv, AtHead
    <2> QED
      BY <1>1, <1>2, <2>1, HeadTailProperties
  <1>3. CASE pc[t] = "push"
    <2>1. ret[t] \in BuffersOf(pool[t])
      BY <1>3 DEF SizeInv, AtHand
    <2> QED
      BY <1>1, <1>3, <2>1, PushedElements
  <1> QED
    BY <1>2, <1>3

LEMMA CountsExactly ==
  ASSUME NEW w \in Nat, NEW n \in Nat, n < w
  PROVE  /\ n + 1 < w => (n + 1) % w = n + 1
         /\ n >= 1 => (n + w - 1) % w = n - 1
  OBVIOUS

LEMMA CountNext ==
  ASSUME SemaInv, SizeInv, OwnInv, CountInv, [Next]_vars
  PROVE  CountInv'
  <1>a. /\ pc \in [Threads -> Places] /\ pool \in [Threads -> Pools]
        /\ cnt \in [Pools -> 0..(Width - 1)] /\ reg \in [Threads -> 0..(Width - 1)]
        /\ torn \in BOOLEAN /\ free = [p \in Pools |-> free[p]]
    BY DEF CountInv, SizeInv, ThreadTypes, ListsApart
  <1>b. \A t \in Threads : Adding(t) \/ pc[t] \in {"popped", "push"} => hSema = t
    BY DEF Adding, SemaInv, SemaHeldInside, FreePlaces
  <1>w. Width \in Nat /\ Width > 0
    BY MemPoolAssumption DEF MemPoolAssumption
  <1>r. ASSUME NEW p \in Pools
        PROVE  /\ IsFiniteSet(Leaving(p)) /\ Cardinality(Leaving(p)) \in Nat /\ Len(free[p]) \in Nat
               /\ Len(free[p]) + Cardinality(Leaving(p)) < Width /\ cnt[p] \in Nat
    <2>1. BlkCnt[p] \in Nat /\ BlkCnt[p] < Width
      BY MemPoolAssumption DEF MemPoolAssumption
    <2> QED
      BY <1>a, <1>w, <2>1, Room
  \* A step outside the updates of a count.
  <1>q. ASSUME NEW t \in Threads, UNCHANGED <<free, cnt, reg, torn>>,
               pc[t] \notin {"dec", "dec_write", "inc", "inc_write"},
               pc'[t] \notin {"dec", "dec_write", "inc", "inc_write"},
               \A u \in Threads : u # t => pc'[u] = pc[u] /\ pool'[u] = pool[u]
        PROVE  CountInv'
    <2>1. \A u \in Threads : Adding(u)' <=> Adding(u)
      BY <1>q DEF Adding
    <2>2. ASSUME NEW p \in Pools PROVE Leaving(p)' = Leaving(p) /\ Pending(p)' = Pending(p)
      <3>1. Leaving(p)' = Leaving(p)
        BY <1>q DEF Leaving
      <3>2. Pending(p)' = Pending(p)
        BY <1>q, <2>1 DEF Pending, Adding
      <3> QED
        BY <3>1, <3>2
    <2>3. \A u \in Threads : Adding(u)' => free'[pool'[u]] # <<>>
      BY <1>q, <2>1 DEF CountInv, Adding
    <2>4. \A u \in Threads : pc'[u] \in Writing => u # t /\ pc[u] \in Writing
      BY <1>q DEF Writing
    <2>5. ~torn' => \A u \in Threads : pc'[u] \in Writing => reg'[u] = cnt'[pool'[u]]
      BY <1>q, <2>4 DEF CountInv
    <2>6. ~torn' => \A u, v \in Threads :
             pc'[u] \in Writing /\ pc'[v] \in Writing /\ pool'[u] = pool'[v] => u = v
      BY <1>q, <2>4 DEF CountInv
    <2>7. ~torn' => \A p \in Pools : cnt'[p] + Pending(p)' = Len(free'[p]) + Cardinality(Leaving(p)')
      BY <1>q, <2>2 DEF CountInv
    <2> QED
      BY <1>a, <1>q, <2>3, <2>5, <2>6, <2>7 DEF CountInv
  <1> USE DEF GoTo, Return
  <1>1. ASSUME NEW t \in Threads, NEW s \in Asked, Alloc(t, s) PROVE CountInv'
    BY <1>1, <1>a, <1>q DEF Alloc
  <1>2. ASSUME NEW t \in Threads, NEW b \in Buffers, Free(t, b) PROVE CountInv'
    BY <1>2, <1>a, <1>q DEF Free
  <1>3. ASSUME NEW t \in Threads, TakeSema(t) PROVE CountInv'
    BY <1>3, <1>a, <1>q DEF TakeSema
  <1>4. ASSUME NEW t \in Threads, Scan(t) PROVE CountInv'
    BY <1>4, <1>a, <1>q DEF Scan
  <1>5. ASSUME NEW t \in Threads, Pop(t) PROVE CountInv'
    <2>1. /\ pc[t] = "pop" /\ UNCHANGED <<free, cnt, pool, reg, torn>>
          /\ pc' = [pc EXCEPT ![t] = "popped"] \/ pc' = [pc EXCEPT ![t] = "idle"]
      BY <1>5 DEF Pop
    <2> QED
      BY <2>1, <1>a, <1>q
  <1>11. ASSUME NEW t \in Threads, FreePost(t) PROVE CountInv'
    BY <1>11, <1>a, <1>q DEF FreePost
  <1>6. ASSUME NEW t \in Threads, Unlink(t) PROVE CountInv'
    <2> DEFINE q == pool[t]
    <2>1. /\ pc[t] = "popped" /\ q \in Pools /\ UNCHANGED <<cnt, pool, reg, torn>>
          /\ pc' = [pc EXCEPT ![t] = "dec"] /\ free' = [free EXCEPT ![q] = Tail(free[q])]
          /\ Len(Tail(free[q])) = Len(free[q]) - 1
      BY <1>6, <1>a, ListLengths DEF Unlink, OwnInv, AtHead
    <2>2. /\ pc'[t] = "dec" /\ Len(free'[q]) = Len(free[q]) - 1
          /\ \A u \in Threads : u # t => pc'[u] = pc[u]
          /\ \A p \in Pools : p # q => free'[p] = free[p]
      BY <2>1, <1>a
    <2>3. \A u \in Threads : ~Adding(u) /\ ~Adding(u)'
      BY <1>b, <2>1, <2>2 DEF Adding
    <2>4. \A p \in Pools : Pending(p)' = Pending(p) /\ (p # q => Leaving(p)' = Leaving(p))
      BY <2>1, <2>2, <2>3 DEF Pending, Leaving
    <2>5. t \notin Leaving(q) /\ Leaving(q)' = Leaving(q) \cup {t}
      BY <2>1, <2>2 DEF Leaving
    <2>6. Cardinality(Leaving(q)') = Cardinality(Leaving(q)) + 1
      BY <1>r, <2>1, <2>5, FS_AddElement
    <2>7. ASSUME ~torn', NEW p \in Pools
          PROVE  cnt'[p] + Pending(p)' = Len(free'[p]) + Cardinality(Leaving(p)')
      <3>1. cnt[p] + Pending(p) = Len(free[p]) + Cardinality(Leaving(p))
        BY <2>1, <2>7 DEF CountInv
      <3>2. CASE p = q
        BY <1>r, <2>1, <2>2, <2>4, <2>6, <3>1, <3>2
      <3>3. CASE p # q
        BY <2>1, <2>2, <2>4, <3>1, <3>3
      <3> QED
        BY <3>2, <3>3
    <2>8. \A u \in Threads : pc'[u] \in Writing => u # t /\ pc[u] \in Writing
      BY <2>1, <2>2 DEF Writing
    <2> QED
      BY <1>a, <2>1, <2>3, <2>7, <2>8 DEF CountInv
  <1>7. ASSUME NEW t \in Threads, ReadCount(t) PROVE CountInv'
    <2> DEFINE q == pool[t]
    <2>1. /\ pc[t] \in {"dec", "inc"} /\ q \in Pools /\ UNCHANGED <<free, cnt, pool>>
          /\ pc' = [pc EXCEPT ![t] = IF pc[t] = "dec" THEN "dec_write" ELSE "inc_write"]
          /\ reg' = [reg EXCEPT ![t] = cnt[q]] /\ torn' = (torn \/ Overlaps(t, q))
      BY <1>7, <1>a DEF ReadCount
    <2>2. /\ pc'[t] = IF pc[t] = "dec" THEN "dec_write" ELSE "inc_write"
          /\ reg'[t] = cnt[q] /\ reg' \in [Threads -> 0..(Width - 1)]
          /\ \A u \in Threads : u # t => pc'[u] = pc[u] /\ reg'[u] = reg[u]
      BY <2>1, <1>a
    <2>3. \A u \in Threads : Adding(u)' <=> Adding(u)
      BY <2>1, <2>2 DEF Adding
    <2>4. \A p \in Pools : Pending(p)' = Pending(p) /\ Leaving(p)' = Leaving(p)
      BY <2>1, <2>2, <2>3 DEF Pending, Leaving
    <2>5. torn' \in BOOLEAN
      BY <2>1, <1>a DEF Overlaps
    <2>6. ASSUME ~torn', NEW u \in Threads, pc'[u] \in Writing
          PROVE  reg'[u] = cnt'[pool'[u]] /\ (u # t => pc[u] \in Writing /\ pool[u] # q)
      <3>1. ~torn /\ ~Overlaps(t, q)
        BY <2>1, <2>6
      <3> QED
        BY <2>1, <2>2, <2>6, <3>1 DEF CountInv, Overlaps, Writing
    <2>7. ASSUME ~torn', NEW u \in Threads, NEW v \in Threads, pc'[u] \in Writing, pc'[v] \in Writing,
                 pool'[u] = pool'[v]
          PROVE  u = v
      BY <2>1, <2>6, <2>7 DEF CountInv
    <2>8. \A u \in Threads : Adding(u)' => free'[pool'[u]] # <<>>
      BY <2>1, <2>3 DEF CountInv
    <2>9. ~torn' => \A p \in Pools : cnt'[p] + Pending(p)' = Len(free'[p]) + Cardinality(Leaving(p)')
      BY <2>1, <2>4 DEF CountInv
    <2> QED
      BY <1>a, <2>1, <2>2, <2>5, <2>6, <2>7, <2>8, <2>9 DEF CountInv
  <1>8. ASSUME NEW t \in Threads, DecWrite(t) PROVE CountInv'
    <2> DEFINE q == pool[t]
    <2>1. /\ pc[t] = "dec_write" /\ q \in Pools /\ UNCHANGED <<free, pool, torn>>
          /\ pc' = [pc EXCEPT ![t] = "idle"] /\ reg' = [reg EXCEPT ![t] = 0]
          /\ cnt' = [cnt EXCEPT ![q] = (reg[t] + Width - 1) % Width]
      BY <1>8, <1>a DEF DecWrite
    <2>2. /\ pc'[t] = "idle" /\ cnt'[q] = (reg[t] + Width - 1) % Width
          /\ reg' \in [Threads -> 0..(Width - 1)]
          /\ \A u \in Threads : u # t => pc'[u] = pc[u] /\ reg'[u] = reg[u]
          /\ \A p \in Pools : p # q => cnt'[p] = cnt[p]
      BY <2>1, <1>a, <1>w
    <2>3. reg[t] \in Nat /\ (reg[t] + Width - 1) % Width \in 0..(Width - 1)
      BY <1>a, <1>w
    <2>4. cnt' \in [Pools -> 0..(Width - 1)]
      BY <2>1, <2>3, <1>a
    <2>5. \A u \in Threads : Adding(u)' <=> Adding(u)
      BY <2>1, <2>2 DEF Adding
    <2>6. \A p \in Pools : Pending(p)' = Pending(p) /\ (p # q => Leaving(p)' = Leaving(p))
      BY <2>1, <2>2, <2>5 DEF Pending, Leaving
    <2>7. t \in Leaving(q) /\ Leaving(q)' = Leaving(q) \ {t}
      BY <2>1, <2>2 DEF Leaving
    <2>8. Cardinality(Leaving(q)') = Cardinality(Leaving(q)) - 1
      BY <1>r, <2>1, <2>7, FS_RemoveElement
    <2>9. Cardinality(Leaving(q)) >= 1
      BY <1>r, <2>1, <2>7, FS_EmptySet
    <2>10. ASSUME ~torn', NEW p \in Pools
           PROVE  cnt'[p] + Pending(p)' = Len(free'[p]) + Cardinality(Leaving(p)')
      <3>1. /\ cnt[p] + Pending(p) = Len(free[p]) + Cardinality(Leaving(p))
            /\ reg[t] = cnt[q]
        BY <2>1, <2>10 DEF CountInv, Writing
      <3>2. CASE p = q
        <4>1. Pending(q) \in {0, 1} /\ (Pending(q) = 1 => Len(free[q]) > 0)
          <5>1. Pending(q) = 1 => free[q] # <<>>
            BY DEF Pending, CountInv
          <5>2. free[q] # <<>> => Len(free[q]) > 0
            BY <2>1, EmptySeq, LenProperties DEF SizeInv, ListsApart
          <5> QED
            BY <5>1, <5>2 DEF Pending
        <4>2. cnt[q] >= 1 /\ cnt[q] < Width /\ cnt[q] \in Nat
          BY <1>a, <1>w, <1>r, <2>1, <2>9, <3>1, <3>2, <4>1
        <4>3. cnt'[q] = cnt[q] - 1
          <5>1. \A n \in Nat : n < Width /\ n >= 1 => (n + Width - 1) % Width = n - 1
            BY <1>w, CountsExactly
          <5>2. (cnt[q] + Width - 1) % Width = cnt[q] - 1
            BY <4>2, <5>1, Zenon
          <5>3. reg[t] = cnt[q]
            BY <3>1
          <5> QED
            BY <2>2, <5>2, <5>3, Zenon
        <4>4. Pending(q)' = Pending(q) /\ free'[q] = free[q] /\ cnt[q] \in Nat
          BY <2>1, <2>6, <4>2
        <4>5. cnt'[q] + Pending(q)' = Len(free'[q]) + Cardinality(Leaving(q)')
          BY <1>r, <2>1, <2>8, <3>1, <3>2, <4>1, <4>3, <4>4, SMTT(30)
        <4> QED
          BY <2>1, <3>2, <4>5
      <3>3. CASE p # q
        BY <2>1, <2>2, <2>6, <3>1, <3>3
      <3> QED
        BY <3>2, <3>3
    <2>11. ASSUME ~torn', NEW u \in Threads, pc'[u] \in Writing
           PROVE  u # t /\ pc[u] \in Writing /\ reg'[u] = cnt'[pool'[u]]
      <3>1. u # t /\ pc[u] \in Writing
        BY <2>1, <2>2, <2>11 DEF Writing
      <3>2. pool[u] # q /\ reg[u] = cnt[pool[u]] /\ pool[u] \in Pools
        BY <1>a, <2>1, <2>11, <3>1 DEF CountInv, Writing
      <3> QED
        BY <2>1, <2>2, <3>1, <3>2
    <2> QED
      BY <1>a, <2>1, <2>2, <2>4, <2>5, <2>10, <2>11 DEF CountInv
  <1>9. ASSUME NEW t \in Threads, Push(t) PROVE CountInv'
    <2> DEFINE q == pool[t]
    <2>1. /\ pc[t] = "push" /\ q \in Pools /\ UNCHANGED <<cnt, pool, reg, torn>>
          /\ pc' = [pc EXCEPT ![t] = "inc"] /\ free' = [free EXCEPT ![q] = <<ret[t]>> \o free[q]]
          /\ Len(<<ret[t]>> \o free[q]) = Len(free[q]) + 1 /\ <<ret[t]>> \o free[q] # <<>>
      BY <1>9, <1>a, ListLengths DEF Push
    <2>2. /\ pc'[t] = "inc" /\ Len(free'[q]) = Len(free[q]) + 1 /\ free'[q] # <<>>
          /\ \A u \in Threads : u # t => pc'[u] = pc[u]
          /\ \A p \in Pools : p # q => free'[p] = free[p]
      BY <2>1, <1>a
    <2>3. \A u \in Threads : ~Adding(u) /\ (Adding(u)' <=> u = t)
      BY <1>b, <2>1, <2>2 DEF Adding
    <2>4. \A p \in Pools : /\ Leaving(p)' = Leaving(p) /\ Pending(p) = 0
                           /\ Pending(p)' = IF p = q THEN 1 ELSE 0
      BY <2>1, <2>2, <2>3 DEF Pending, Leaving
    <2>5. ASSUME ~torn', NEW p \in Pools
          PROVE  cnt'[p] + Pending(p)' = Len(free'[p]) + Cardinality(Leaving(p)')
      <3>1. cnt[p] + Pending(p) = Len(free[p]) + Cardinality(Leaving(p))
        BY <2>1, <2>5 DEF CountInv
      <3>2. CASE p = q
        BY <1>r, <2>1, <2>2, <2>4, <3>1, <3>2
      <3>3. CASE p # q
        BY <2>1, <2>2, <2>4, <3>1, <3>3
      <3> QED
        BY <3>2, <3>3
    <2>6. \A u \in Threads : pc'[u] \in Writing => u # t /\ pc[u] \in Writing
      BY <2>1, <2>2 DEF Writing
    <2> QED
      BY <1>a, <2>1, <2>2, <2>3, <2>5, <2>6 DEF CountInv
  <1>10. ASSUME NEW t \in Threads, IncWrite(t) PROVE CountInv'
    <2> DEFINE q == pool[t]
    <2>1. /\ pc[t] = "inc_write" /\ q \in Pools /\ UNCHANGED <<free, pool, torn>>
          /\ pc' = [pc EXCEPT ![t] = "free_post"] /\ reg' = [reg EXCEPT ![t] = 0]
          /\ cnt' = [cnt EXCEPT ![q] = (reg[t] + 1) % Width]
      BY <1>10, <1>a DEF IncWrite, Incremented
    <2>2. /\ pc'[t] = "free_post" /\ cnt'[q] = (reg[t] + 1) % Width
          /\ reg' \in [Threads -> 0..(Width - 1)]
          /\ \A u \in Threads : u # t => pc'[u] = pc[u] /\ reg'[u] = reg[u]
          /\ \A p \in Pools : p # q => cnt'[p] = cnt[p]
      BY <2>1, <1>a, <1>w
    <2>3. reg[t] \in Nat /\ (reg[t] + 1) % Width \in 0..(Width - 1)
      BY <1>a, <1>w
    <2>4. cnt' \in [Pools -> 0..(Width - 1)]
      BY <2>1, <2>3, <1>a
    <2>5. \A u \in Threads : (Adding(u) <=> u = t) /\ ~Adding(u)'
      BY <1>b, <2>1, <2>2 DEF Adding
    <2>6. \A p \in Pools : /\ Leaving(p)' = Leaving(p) /\ Pending(p)' = 0
                           /\ Pending(p) = IF p = q THEN 1 ELSE 0
      BY <2>1, <2>2, <2>5 DEF Pending, Leaving
    <2>7. ASSUME ~torn', NEW p \in Pools
          PROVE  cnt'[p] + Pending(p)' = Len(free'[p]) + Cardinality(Leaving(p)')
      <3>1. /\ cnt[p] + Pending(p) = Len(free[p]) + Cardinality(Leaving(p))
            /\ reg[t] = cnt[q]
        BY <2>1, <2>7 DEF CountInv, Writing
      <3>2. CASE p = q
        <4>1. cnt[q] + 1 < Width /\ cnt[q] \in Nat
          BY <1>r, <2>1, <2>6, <3>1, <3>2
        <4>2. cnt'[q] = cnt[q] + 1
          <5>1. \A n \in Nat : n < Width /\ n + 1 < Width => (n + 1) % Width = n + 1
            BY <1>w, CountsExactly
          <5>2. cnt[q] < Width
            BY <1>a, <1>w, <4>1
          <5>3. (cnt[q] + 1) % Width = cnt[q] + 1
            BY <4>1, <5>1, <5>2, Zenon
          <5>4. reg[t] = cnt[q]
            BY <3>1
          <5> QED
            BY <2>2, <5>3, <5>4, Zenon
        <4> QED
          BY <1>r, <2>1, <2>6, <3>1, <3>2, <4>1, <4>2
      <3>3. CASE p # q
        BY <2>1, <2>2, <2>6, <3>1, <3>3
      <3> QED
        BY <3>2, <3>3
    <2>8. ASSUME ~torn', NEW u \in Threads, pc'[u] \in Writing
          PROVE  u # t /\ pc[u] \in Writing /\ reg'[u] = cnt'[pool'[u]]
      <3>1. u # t /\ pc[u] \in Writing
        BY <2>1, <2>2, <2>8 DEF Writing
      <3>2. pool[u] # q /\ reg[u] = cnt[pool[u]] /\ pool[u] \in Pools
        BY <1>a, <2>1, <2>8, <3>1 DEF CountInv, Writing
      <3> QED
        BY <2>1, <2>2, <3>1, <3>2
    <2> QED
      BY <1>a, <2>1, <2>2, <2>4, <2>5, <2>7, <2>8 DEF CountInv
  <1>12. ASSUME UNCHANGED <<pc, data>> PROVE CountInv'
    BY <1>12 DEF data, CountInv, Adding, Pending, Leaving
  <1> QED
    BY <1>1, <1>2, <1>3, <1>4, <1>5, <1>6, <1>7, <1>8, <1>9, <1>10, <1>11, <1>12
       DEF Next, Step, OtherTakes, OtherPosts, OtherDies, vars

LEMMA CountInit == Init => CountInv
  <1> SUFFICES ASSUME Init PROVE CountInv
    OBVIOUS
  <1>1. ASSUME NEW p \in Pools
        PROVE  BlkCnt[p] \in 0..(Width - 1) /\ cnt[p] = BlkCnt[p] /\ Len(free[p]) = BlkCnt[p]
    BY MemPoolAssumption DEF MemPoolAssumption, Init
  <1>2. \A p \in Pools : Leaving(p) = {} /\ Pending(p) = 0
    BY DEF Init, Leaving, Pending, Adding
  <1>3. \A p \in Pools : cnt[p] + Pending(p) = Len(free[p]) + Cardinality(Leaving(p))
    BY <1>1, <1>2, FS_EmptySet
  <1>4. cnt \in [Pools -> 0..(Width - 1)] /\ reg \in [Threads -> 0..(Width - 1)]
    BY <1>1, MemPoolAssumption DEF MemPoolAssumption, Init
  <1> QED
    BY <1>3, <1>4 DEF Init, CountInv, Adding, Writing

PoolInv == SemaInv /\ SizeInv /\ OwnInv /\ CountInv

LEMMA PoolAlways == Spec => []PoolInv
  <1>1. Init => PoolInv
    BY SemaInit, SizeInit, OwnInit, CountInit DEF PoolInv
  <1>2. PoolInv /\ [Next]_vars => PoolInv'
    BY SemaNext, SizeNext, OwnNext, CountNext DEF PoolInv
  <1> QED
    BY <1>1, <1>2, PTL DEF Spec

\* With no call in progress, free_cnt is the length of the free list, unless two of
\* its updates have overlapped.  No pool is so large that its count wraps.
THEOREM CountRight == Spec => []CountAtRest
  <1>1. ASSUME PoolInv, ~torn, \A t \in Threads : pc[t] = "idle", NEW p \in Pools
        PROVE  cnt[p] = Len(free[p])
    <2>1. Leaving(p) = {} /\ Pending(p) = 0
      BY <1>1 DEF Leaving, Pending, Adding
    <2>2. cnt[p] + Pending(p) = Len(free[p]) + Cardinality(Leaving(p))
      BY <1>1 DEF PoolInv, CountInv
    <2>3. cnt[p] \in Nat /\ Len(free[p]) \in Nat
      BY <1>1, Room, MemPoolAssumption DEF PoolInv, CountInv, MemPoolAssumption
    <2> QED
      BY <2>1, <2>2, <2>3, FS_EmptySet
  <1>2. PoolInv => CountAtRest
    BY <1>1 DEF CountAtRest
  <1> QED
    BY <1>2, PoolAlways, PTL

\* Every variable keeps its type; in particular no free list outgrows its pool.
THEOREM TypeCorrect == Spec => []TypeOK
  <1>1. ASSUME PoolInv, NEW p \in Pools PROVE free[p] \in Seq(Buffers) /\ Len(free[p]) <= BlkCnt[p]
    <2>1. free[p] \in Seq(BuffersOf(p)) /\ BuffersOf(p) \subseteq Buffers
      BY <1>1, BlocksOfPool DEF PoolInv, SizeInv, ListsApart
    <2>2. free[p] \in Seq(Buffers)
      BY <2>1
    <2>3. BlkCnt[p] \in Nat
      BY MemPoolAssumption DEF MemPoolAssumption
    <2> QED
      BY <1>1, <2>2, <2>3, Room DEF PoolInv
  <1>2. PoolInv /\ orphan \in BOOLEAN => TypeOK
    BY <1>1 DEF PoolInv, SemaInv, SizeInv, ThreadTypes, OwnInv, HandsFull, CountInv, TypeOK
  <1>3. Init => orphan \in BOOLEAN
    BY DEF Init
  <1>4. orphan \in BOOLEAN /\ [Next]_vars => (orphan \in BOOLEAN)'
    BY DEF Next, OtherDies, vars
  <1>5. Spec => [](orphan \in BOOLEAN)
    BY <1>3, <1>4, PTL DEF Spec
  <1> QED
    BY <1>2, <1>5, PoolAlways, PTL
=============================================================================
