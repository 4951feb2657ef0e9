------------------------------ MODULE MemPool -------------------------------
(***************************************************************************)
(* The buffer pools of jx_common/src/data_buff.c: new_alloc_buffer and      *)
(* new_free_buffer called by several threads.                               *)
(*                                                                          *)
(* Each pool has a free list, used only while the semaphore hSema is held,  *)
(* and a count free_cnt that alloc reads before it takes the semaphore and  *)
(* decrements after it has given it back, while free increments it inside.  *)
(* The x86 code of an update is a read, an addition and a write, and        *)
(* another thread may come between the read and the write.                  *)
(*                                                                          *)
(* The semaphore has a name: every instance of the program opens the same    *)
(* one, for pools of its own, and one that is killed inside keeps it.        *)
(***************************************************************************)
EXTENDS Integers, Sequences, FiniteSets, SequencesExt

CONSTANTS Threads,  \* threads that use the pools
          NumPools, \* BLK_NUM: pools, by growing blk_size
          BlkCnt,   \* blk_cnt of each pool
          BlkSize,  \* blk_size of each pool: 16 to 2048 bytes
          Asked,    \* the sizes callers ask for
          Width,    \* free_cnt counts modulo this: 2^16
          None,     \* nobody
          Other     \* a thread of another instance of the program

Pools == 1..NumPools

ASSUME MemPoolAssumption ==
    /\ NumPools \in Nat \ {0}
    /\ BlkCnt \in [Pools -> Nat \ {0}]
    /\ BlkSize \in [Pools -> Nat \ {0}]
    /\ \A p, q \in Pools : p < q => BlkSize[p] < BlkSize[q]
    /\ Asked \subseteq Int
    /\ Width \in Nat \ {0}
    /\ \A p \in Pools : BlkCnt[p] < Width
    /\ None \notin Threads /\ Other \notin Threads /\ None # Other

VARIABLES free,   \* free_list of each pool
          cnt,    \* free_cnt of each pool
          hSema,  \* who holds the semaphore
          pc,     \* where each thread is
          size,   \* the size asked for by the call in progress, else 0
          pool,   \* the pool at hand: pmem
          ret,    \* the buffer at hand
          reg,    \* free_cnt as read by the update in progress, else 0
          held,   \* buffers each thread has been given and not freed
          torn,   \* history: two updates of one free_cnt have overlapped
          orphan  \* another instance was killed while it held the semaphore

data == <<free, cnt, size, pool, ret, reg, held, torn>>
vars == <<hSema, pc, data, orphan>>

Buffers  == UNION {{<<p, k>> : k \in 1..BlkCnt[p]} : p \in Pools}
NoBuffer == <<0, 0>>
PoolOf(b) == b[1]

AllocPlaces == {"scan", "alloc_wait", "pop", "popped", "dec", "dec_write"}
FreePlaces  == {"free_wait", "push", "inc", "inc_write", "free_post"}
Places      == {"idle"} \cup AllocPlaces \cup FreePlaces

TypeOK ==
    /\ \A p \in Pools : free[p] \in Seq(Buffers) /\ Len(free[p]) <= BlkCnt[p]
    /\ cnt \in [Pools -> 0..(Width - 1)]
    /\ hSema \in Threads \cup {None, Other}
    /\ pc \in [Threads -> Places]
    /\ size \in [Threads -> Asked \cup {0}] /\ pool \in [Threads -> Pools]
    /\ ret \in [Threads -> Buffers \cup {NoBuffer}]
    /\ reg \in [Threads -> 0..(Width - 1)]
    /\ held \in [Threads -> SUBSET Buffers]
    /\ torn \in BOOLEAN /\ orphan \in BOOLEAN

\* init_mem_pool
Init ==
    /\ free = [p \in Pools |-> [k \in 1..BlkCnt[p] |-> <<p, k>>]]
    /\ cnt = [p \in Pools |-> BlkCnt[p]]
    /\ hSema = None
    /\ pc = [t \in Threads |-> "idle"]
    /\ size = [t \in Threads |-> 0] /\ pool = [t \in Threads |-> 1]
    /\ ret = [t \in Threads |-> NoBuffer] /\ reg = [t \in Threads |-> 0]
    /\ held = [t \in Threads |-> {}] /\ torn = FALSE /\ orphan = FALSE

-----------------------------------------------------------------------------
(* Single decisions of the code, named so that each can be mutated.         *)

\* Mutant: WaitForSingleObject forgotten.
SemaIgnored == TRUE
\* The semaphore (count 1) may be taken.
SemaFree == hSema = None

\* Mutant: the early return of an empty list leaves the semaphore taken.
NotReleased(t) == hSema
\* ReleaseSemaphore on the path where the list turned out to be empty.
ReleasedOnEmpty(t) == None

\* Mutant: no free_cnt++ when the list was empty.
CountedUnlessEmpty(t) == IF Len(free[pool[t]]) = 1 THEN reg[t] ELSE (reg[t] + 1) % Width
\* free_cnt++
Incremented(t) == (reg[t] + 1) % Width

\* The tests of get_mem_pool_index: the size is the pool's own, lies strictly between
\* the pool before and it, or lies below the first.
Fits(s, p) ==
    \/ s = BlkSize[p]
    \/ p > 1 /\ BlkSize[p - 1] < s /\ s < BlkSize[p]
    \/ p = 1 /\ s < BlkSize[1]

NoPool == 0 \* index -1

\* Mutant: a size above the largest goes to the last pool, as in the branch that the
\* source has disabled (lines 480 to 484).
TooLargeToLast(s) ==
    IF \E p \in Pools : Fits(s, p) THEN CHOOSE p \in Pools : Fits(s, p) ELSE NumPools
\* get_mem_pool_index
FittingPool(s) ==
    IF \E p \in Pools : Fits(s, p) THEN CHOOSE p \in Pools : Fits(s, p) ELSE NoPool

\* Mutant: free puts the buffer into the smallest pool.
SmallestPool(b) == 1
\* get_mem_pool(b->size, FALSE), where size is the blk_size the buffer was set up with.
HomePool(b) == FittingPool(BlkSize[PoolOf(b)])

-----------------------------------------------------------------------------
GoTo(t, place) == pc' = [pc EXCEPT ![t] = place]

\* new_alloc_buffer returns.
Return(t) == GoTo(t, "idle") /\ size' = [size EXCEPT ![t] = 0]

\* new_alloc_buffer: get_mem_pool refuses sizes up to 0 and those above the largest block.
Alloc(t, s) ==
    /\ pc[t] = "idle"
    /\ \/ /\ s > 0 /\ FittingPool(s) # NoPool
          /\ size' = [size EXCEPT ![t] = s]
          /\ pool' = [pool EXCEPT ![t] = FittingPool(s)]
          /\ GoTo(t, "scan")
       \/ /\ ~(s > 0 /\ FittingPool(s) # NoPool)
          /\ UNCHANGED <<size, pool, pc>>
    /\ UNCHANGED <<free, cnt, hSema, ret, reg, held, torn>>

\* get_mem_pool: one pool after the other, without the semaphore; NULL in the end.
Scan(t) ==
    /\ pc[t] = "scan"
    /\ \/ /\ cnt[pool[t]] > 0
          /\ GoTo(t, "alloc_wait")
          /\ UNCHANGED <<pool, size>>
       \/ /\ cnt[pool[t]] = 0
          /\ pool[t] + 1 \in Pools
          /\ pool' = [pool EXCEPT ![t] = @ + 1]
          /\ UNCHANGED <<pc, size>>
       \/ /\ cnt[pool[t]] = 0
          /\ pool[t] + 1 \notin Pools
          /\ Return(t)
          /\ UNCHANGED pool
    /\ UNCHANGED <<free, cnt, hSema, ret, reg, held, torn>>

TakeSema(t) ==
    /\ pc[t] \in {"alloc_wait", "free_wait"}
    /\ SemaFree
    /\ hSema' = t
    /\ GoTo(t, IF pc[t] = "alloc_wait" THEN "pop" ELSE "push")
    /\ UNCHANGED <<free, cnt, size, pool, ret, reg, held, torn>>

\* ret = pool->free_list
Pop(t) ==
    /\ pc[t] = "pop"
    /\ \/ /\ free[pool[t]] # <<>>
          /\ ret' = [ret EXCEPT ![t] = Head(free[pool[t]])]
          /\ GoTo(t, "popped")
          /\ UNCHANGED <<hSema, size>>
       \/ /\ free[pool[t]] = <<>>
          /\ hSema' = ReleasedOnEmpty(t)
          /\ Return(t)
          /\ UNCHANGED ret
    /\ UNCHANGED <<free, cnt, pool, reg, held, torn>>

\* pool->free_list = pool->free_list->next, and the semaphore is given back.
Unlink(t) ==
    /\ pc[t] = "popped"
    /\ free' = [free EXCEPT ![pool[t]] = IF @ = <<>> THEN @ ELSE Tail(@)]
    /\ hSema' = None
    /\ GoTo(t, "dec")
    /\ UNCHANGED <<cnt, size, pool, ret, reg, held, torn>>

\* Another thread is between the read and the write of pool p's count.
Overlaps(t, p) == \E u \in Threads \ {t} : pc[u] \in {"dec_write", "inc_write"} /\ pool[u] = p

\* The update of free_cnt begins.
ReadCount(t) ==
    /\ pc[t] \in {"dec", "inc"}
    /\ reg' = [reg EXCEPT ![t] = cnt[pool[t]]]
    /\ GoTo(t, IF pc[t] = "dec" THEN "dec_write" ELSE "inc_write")
    /\ torn' = (torn \/ Overlaps(t, pool[t]))
    /\ UNCHANGED <<free, cnt, hSema, size, pool, ret, held>>

\* pool->free_cnt-- ends; the caller has its buffer.
DecWrite(t) ==
    /\ pc[t] = "dec_write"
    /\ cnt' = [cnt EXCEPT ![pool[t]] = (reg[t] + Width - 1) % Width]
    /\ held' = [held EXCEPT ![t] = @ \cup {ret[t]}]
    /\ ret' = [ret EXCEPT ![t] = NoBuffer]
    /\ reg' = [reg EXCEPT ![t] = 0]
    /\ Return(t)
    /\ UNCHANGED <<free, hSema, pool, torn>>

\* new_free_buffer of a buffer the thread has.
Free(t, b) ==
    /\ pc[t] = "idle"
    /\ b \in held[t]
    /\ held' = [held EXCEPT ![t] = @ \ {b}]
    /\ ret' = [ret EXCEPT ![t] = b]
    /\ pool' = [pool EXCEPT ![t] = HomePool(b)]
    /\ GoTo(t, "free_wait")
    /\ UNCHANGED <<free, cnt, hSema, size, reg, torn>>

\* The buffer becomes the head of the list.
Push(t) ==
    /\ pc[t] = "push"
    /\ free' = [free EXCEPT ![pool[t]] = <<ret[t]>> \o @]
    /\ ret' = [ret EXCEPT ![t] = NoBuffer]
    /\ GoTo(t, "inc")
    /\ UNCHANGED <<cnt, hSema, size, pool, reg, held, torn>>

\* pool->free_cnt++ ends, still inside the semaphore.
IncWrite(t) ==
    /\ pc[t] = "inc_write"
    /\ cnt' = [cnt EXCEPT ![pool[t]] = Incremented(t)]
    /\ reg' = [reg EXCEPT ![t] = 0]
    /\ GoTo(t, "free_post")
    /\ UNCHANGED <<free, hSema, size, pool, ret, held, torn>>

FreePost(t) ==
    /\ pc[t] = "free_post"
    /\ hSema' = None
    /\ GoTo(t, "idle")
    /\ UNCHANGED <<free, cnt, size, pool, ret, reg, held, torn>>

Step(t) ==
    \/ Scan(t) \/ Pop(t) \/ Unlink(t) \/ ReadCount(t) \/ DecWrite(t)
    \/ Push(t) \/ IncWrite(t) \/ FreePost(t)

\* Another instance in new_alloc_buffer or new_free_buffer, for its own pools.
OtherTakes == SemaFree /\ hSema' = Other /\ UNCHANGED <<pc, data>>
OtherPosts == hSema = Other /\ hSema' = None /\ UNCHANGED <<pc, data>>

\* It is killed there.  Nobody gives back a semaphore whose holder is gone.
OtherDies == hSema = Other /\ orphan' = TRUE /\ UNCHANGED <<hSema, pc, data>>

Next ==
    \/ /\ \E t \in Threads :
             \/ \E s \in Asked : Alloc(t, s)
             \/ \E b \in Buffers : Free(t, b)
             \/ TakeSema(t)
             \/ Step(t)
       /\ UNCHANGED orphan
    \/ ~orphan /\ (OtherTakes \/ OtherPosts) /\ UNCHANGED orphan
    \/ ~orphan /\ OtherDies

Spec == Init /\ [][Next]_vars
\* A thread inside a call is scheduled, in the other instance as well unless it is
\* killed; a semaphore wakes its waiters in turn.
FairSpec ==
    /\ Spec
    /\ \A t \in Threads : WF_vars(Step(t) /\ UNCHANGED orphan)
                         /\ SF_vars(TakeSema(t) /\ UNCHANGED orphan)
    /\ WF_vars(~orphan /\ OtherPosts /\ UNCHANGED orphan)

-----------------------------------------------------------------------------
(* Properties *)

InHand(t) == {ret[t]} \ {NoBuffer}

\* A buffer has one owner: it is in one free list, once, or belongs to one thread,
\* and none is lost, although a pool is chosen by a count read without the semaphore.
OneOwner ==
    /\ \A p \in Pools : IsInjective(free[p]) /\ \A b \in ToSet(free[p]) : PoolOf(b) = p
    /\ \A t, u \in Threads :
          t # u => (held[t] \cup InHand(t)) \cap (held[u] \cup InHand(u)) = {}
    /\ \A t \in Threads : \A p \in Pools :
          pc[t] # "popped" => (held[t] \cup InHand(t)) \cap ToSet(free[p]) = {}
    /\ Buffers = (UNION {ToSet(free[p]) : p \in Pools})
                 \cup (UNION {held[t] \cup InHand(t) : t \in Threads})

\* The buffer a call hands out is at least as large as the size asked for, whichever
\* pool lends it, and no call is answered that asked for nothing or for too much.
LargeEnough ==
    \A t \in Threads : pc[t] \in {"dec", "dec_write"} => size[t] \in 1..BlkSize[PoolOf(ret[t])]

\* No path through a call keeps the semaphore: it is held exactly by the thread
\* inside the critical section, of which there is at most one.
SemaHeldInside ==
    \A t \in Threads : hSema = t <=> pc[t] \in {"pop", "popped"} \cup (FreePlaces \ {"free_wait"})

\* Every call returns, whatever the other instances do with the semaphore, as long as
\* none of them is killed while it holds it.
CallsReturn == \A t \in Threads : pc[t] # "idle" ~> (pc[t] = "idle" \/ orphan)

\* "The number of free blocks" (mem_pool_t): with no call in progress free_cnt is
\* the length of the free list, although alloc decrements it outside the semaphore -
\* unless two updates have overlapped, after which a decrement or an increment may be
\* lost for good.
CountAtRest ==
    (~torn /\ \A t \in Threads : pc[t] = "idle") => \A p \in Pools : cnt[p] = Len(free[p])
=============================================================================
