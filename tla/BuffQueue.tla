----------------------------- MODULE BuffQueue ------------------------------
(***************************************************************************)
(* A buffer queue of jx_common/src/data_buff.c: a ring of doubly linked     *)
(* buffers with a head and a tail, used by several threads.  add_buf and    *)
(* remove_buf hold the semaphore hQueSema while they change the ring, but   *)
(* remove_buf tests the head before it waits for the semaphore.             *)
(*                                                                          *)
(* A queue has one kind of user.  Takers (a connection's threads) call      *)
(* remove_buf, and free_queue_buff when the connection is closed.           *)
(* Senders (of the UART) call obd_test_send_uart: inside a critical section *)
(* they look at the first buffer, send it, and then remove "the first       *)
(* buffer".  An owner uses its queue alone, and may call remove_node,       *)
(* buf_decrease_to_len and buf_acc, which take no semaphore.  The sections  *)
(* inside the semaphore are one step here: other threads can only read the  *)
(* head meanwhile, and it is written once.                                  *)
(***************************************************************************)
EXTENDS Naturals, Sequences, FiniteSets, SequencesExt, FiniteSetsExt

CONSTANTS Nodes,    \* the buffers
          Takers,   \* threads that remove them
          Senders,  \* threads that send and remove them
          Owners,   \* a thread that has a queue of its own
          Lens,     \* lengths of the buffers in an owner's queue
          Null      \* NULL

ASSUME BuffQueueAssumption ==
    /\ Null \notin Nodes /\ Null \notin Takers \cup Senders \cup Owners
    /\ IsFiniteSet(Nodes) /\ Lens \subseteq Nat
    /\ \E n \in Lens \cup {1} : \A m \in Lens \cup {1} : n >= m  \* a block has a size
    /\ Takers \cap Senders = {} /\ (Takers \cup Senders) \cap Owners = {}
    /\ Cardinality(Owners) = 1

VARIABLES head, tail,  \* of the buff_queue_t
          next, prev,  \* of each buffer
          len,         \* of each buffer
          pc,          \* where each thread is
          node,        \* the buffer a thread works on
          cs,          \* sender that owns the critical section of obd_test_send_uart
          section,     \* "none" (cs_inited FALSE), "ready", or history: "reset" under an owner
          broken,      \* history: a sender has freed another buffer than it removed
          mine,        \* buffers each thread has removed and not freed
          spare,       \* buffers in the pool
          users        \* the threads that use this queue: of one kind

ring == <<head, tail, next, prev>>
sync == <<cs, section, broken>>
vars == <<ring, len, pc, node, sync, mine, spare, users>>

Removers == Takers \cup Senders
Holders  == Takers \cup Owners
Kinds    == {Takers, Senders, Owners}
Pointer  == Nodes \cup {Null}

TypeOK ==
    /\ head \in Pointer /\ tail \in Pointer
    /\ next \in [Nodes -> Pointer] /\ prev \in [Nodes -> Pointer]
    /\ pc \in [Removers -> {"idle", "check", "locked", "drain", "drain_locked", "init", "enter", "peek"}]
    /\ node \in [Removers -> Pointer]
    /\ cs \in Senders \cup {Null}
    /\ section \in {"none", "ready", "reset"} /\ broken \in BOOLEAN
    /\ mine \in [Holders -> SUBSET Nodes]
    /\ spare \subseteq Nodes
    /\ users \in Kinds
    /\ len \in [Nodes -> 0..Max(Lens \cup {1})]

Init ==
    /\ head = Null /\ tail = Null
    /\ next = [b \in Nodes |-> Null] /\ prev = [b \in Nodes |-> Null]
    /\ pc = [t \in Removers |-> "idle"] /\ node = [t \in Removers |-> Null]
    /\ cs = Null /\ section = "none" /\ broken = FALSE
    /\ mine = [t \in Holders |-> {}] /\ spare = Nodes
    /\ len = [b \in Nodes |-> 0]
    /\ users \in Kinds

-----------------------------------------------------------------------------
(* What a walk along the ring meets                                         *)

\* The buffers from the head along next, as many as there are buffers.
Walk ==
    LET at[k \in 1..Cardinality(Nodes)] ==
            IF k = 1 THEN head ELSE IF at[k - 1] = Null THEN Null ELSE next[at[k - 1]]
    IN  at
\* The walk up to the tail; the head alone if it never gets there.
Content ==
    IF head = Null THEN <<>>
    ELSE LET ends == {k \in DOMAIN Walk : Walk[k] = tail}
         IN  SubSeq(Walk, 1, IF ends = {} THEN 1 ELSE Min(ends))

\* buf_get_total_len
BytesIn(s) == FoldLeft(LAMBDA sum, b : sum + len[b], 0, s)

-----------------------------------------------------------------------------
(* Single decisions of the code, named so that each can be mutated.         *)

\* Mutant: add_buf without node->next->prev = buff.
LinkedForward(b) == [prev EXCEPT ![b] = IF tail = Null THEN b ELSE tail]
\* prev after add_buf: the new buffer comes between the tail and the first one.
LinkedBack(b) ==
    IF tail = Null THEN [prev EXCEPT ![b] = b]
    ELSE [prev EXCEPT ![next[tail]] = b, ![b] = tail]

\* Mutant: free_queue_buff frees whatever remove_buf returned.
TakenOrNull(n) == {n}
\* The loop of free_queue_buff ends at NULL, and a taker uses no NULL.
Taken(n) == {n} \ {Null}

\* Mutant: obd_test_send_uart without EnterCriticalSection.
AnyoneEnters == TRUE
\* The critical section is free.
MayEnter == cs = Null

\* Mutant: remove_buf takes the last buffer.
LastOne == tail
\* The buffer remove_buf takes.
FirstOne == head

-----------------------------------------------------------------------------
GoTo(t, place) == pc' = [pc EXCEPT ![t] = place]

\* LeaveCriticalSection, whoever owns it, and obd_test_send_uart returns.
Leave(t) == GoTo(t, "idle") /\ node' = [node EXCEPT ![t] = Null] /\ cs' = Null

\* add_buf, by any thread, of a buffer that was just allocated and filled.
AddBuf(b, n) ==
    /\ b \in spare
    /\ len' = [len EXCEPT ![b] = n]
    /\ spare' = spare \ {b}
    /\ next' = IF tail = Null THEN [next EXCEPT ![b] = b]
               ELSE [next EXCEPT ![b] = next[tail], ![tail] = b]
    /\ prev' = LinkedBack(b)
    /\ tail' = b
    /\ head' = IF head = Null THEN b ELSE head
    /\ UNCHANGED <<pc, node, sync, mine, users>>

\* remove_buf's part inside the semaphore, as an effect on the ring.  When another
\* thread took the last buffer since the test, node and tail are both NULL.
Unlinked ==
    LET n == FirstOne IN
    IF n = tail
    THEN /\ head' = Null
         /\ tail' = Null
         /\ UNCHANGED <<next, prev>>
    ELSE LET back == [prev EXCEPT ![next[n]] = prev[n]]
             forw == [next EXCEPT ![prev[n]] = next[n]]
         IN  /\ head' = next[n]
             /\ prev' = [back EXCEPT ![n] = Null]
             /\ next' = [forw EXCEPT ![n] = Null]
             /\ UNCHANGED tail

\* A taker calls remove_buf, or free_queue_buff.
StartRemove(t, place) ==
    /\ t \in Takers
    /\ pc[t] = "idle"
    /\ GoTo(t, place)
    /\ UNCHANGED <<ring, len, node, sync, mine, spare, users>>

\* if (pb->head == NULL) return NULL, without the semaphore.  A sender, which does not
\* look at the result, frees the buffer it sent and leaves: as another one has removed
\* that buffer and freed it, it is freed twice.
CheckHead(t) ==
    /\ pc[t] \in {"check", "drain"}
    /\ \/ /\ head = Null /\ t \in Senders
          /\ Leave(t)
          /\ spare' = spare \cup {node[t]}
          /\ broken' = TRUE
          /\ UNCHANGED section
       \/ /\ head = Null /\ t \notin Senders
          /\ GoTo(t, "idle")
          /\ UNCHANGED <<node, spare, sync>>
       \/ /\ head # Null
          /\ GoTo(t, IF pc[t] = "check" THEN "locked" ELSE "drain_locked")
          /\ UNCHANGED <<node, spare, sync>>
    /\ UNCHANGED <<ring, len, mine, users>>

\* remove_buf of a taker, which uses the buffer and will free it.
TakeBuf(t) ==
    /\ t \in Takers
    /\ pc[t] = "locked"
    /\ Unlinked
    /\ mine' = [mine EXCEPT ![t] = @ \cup Taken(FirstOne)]
    /\ GoTo(t, "idle")
    /\ UNCHANGED <<len, node, sync, spare, users>>

\* One round of free_queue_buff: it ends when remove_buf returns NULL.
DrainBuf(t) ==
    /\ pc[t] = "drain_locked"
    /\ Unlinked
    /\ spare' = spare \cup Taken(FirstOne)
    /\ GoTo(t, IF FirstOne = Null THEN "idle" ELSE "drain")
    /\ UNCHANGED <<len, node, sync, mine, users>>

\* free_buffer by whoever has taken the buffer.
FreeMine(t) ==
    /\ t \in Holders
    /\ t \in Takers => pc[t] = "idle"
    /\ \E b \in mine[t] :
          /\ mine' = [mine EXCEPT ![t] = @ \ {b}]
          /\ spare' = spare \cup {b}
    /\ UNCHANGED <<ring, len, pc, node, sync, users>>

\* obd_test_send_uart: cs_inited is tested without a lock.
StartSend(t) ==
    /\ t \in Senders
    /\ pc[t] = "idle"
    /\ GoTo(t, IF section = "none" THEN "init" ELSE "enter")
    /\ UNCHANGED <<ring, len, node, sync, mine, spare, users>>

\* InitializeCriticalSection and cs_inited = TRUE.  A sender that read the flag before
\* another one set it does so again, and what was owned is free.
InitSection(t) ==
    /\ pc[t] = "init"
    /\ section' = IF section = "none" \/ (section = "ready" /\ cs = Null) THEN "ready" ELSE "reset"
    /\ cs' = Null
    /\ GoTo(t, "enter")
    /\ UNCHANGED <<ring, len, node, broken, mine, spare, users>>

\* EnterCriticalSection
EnterSend(t) ==
    /\ pc[t] = "enter"
    /\ MayEnter
    /\ cs' = t
    /\ GoTo(t, "peek")
    /\ UNCHANGED <<ring, len, node, section, broken, mine, spare, users>>

\* get_buf, and uart_send_buf when there is one.
PeekAndSend(t) ==
    /\ pc[t] = "peek"
    /\ \/ head = Null /\ Leave(t)
       \/ /\ head # Null
          /\ node' = [node EXCEPT ![t] = head]
          /\ GoTo(t, "check")
          /\ UNCHANGED cs
    /\ UNCHANGED <<ring, len, section, broken, mine, spare, users>>

\* remove_buf of a sender, whose result is not looked at; then free_buffer of the
\* buffer that was sent, and LeaveCriticalSection.
DropSent(t) ==
    /\ t \in Senders
    /\ pc[t] = "locked"
    /\ Unlinked
    /\ spare' = spare \cup {node[t]}
    /\ broken' = (node[t] # FirstOne)
    /\ Leave(t)
    /\ UNCHANGED <<len, section, mine, users>>

-----------------------------------------------------------------------------
(* A queue with one user, which needs no semaphore                          *)

\* remove_node, as an effect on the pointers r.
Cut(r, b) ==
    IF r.head = r.tail THEN [r EXCEPT !.head = Null, !.tail = Null]
    ELSE LET back == [r.prev EXCEPT ![r.next[b]] = r.prev[b]]
             forw == [r.next EXCEPT ![r.prev[b]] = r.next[b]]
         IN  [head |-> IF b = r.head THEN r.next[b] ELSE r.head,
              tail |-> IF b = r.tail THEN r.prev[b] ELSE r.tail,
              prev |-> [back EXCEPT ![b] = Null],
              next |-> [forw EXCEPT ![b] = Null]]

\* The buffers of s are removed one after the other.
CutAll(s) ==
    LET r == FoldLeft(Cut, [head |-> head, tail |-> tail, next |-> next, prev |-> prev], s)
    IN  head' = r.head /\ tail' = r.tail /\ next' = r.next /\ prev' = r.prev

\* remove_node of a buffer of the queue, as in its only call (line 1269).  Given another
\* one, the code would empty a queue of one buffer all the same.
RemoveNode(t, b) ==
    /\ t \in Owners /\ b \in ToSet(Content)
    /\ CutAll(<<b>>)
    /\ mine' = [mine EXCEPT ![t] = @ \cup {b}]
    /\ UNCHANGED <<len, pc, node, sync, spare, users>>

\* buf_decrease_to_len: the first final bytes stay, and what lies behind them is freed.
DecreaseToLen(t, final) ==
    /\ t \in Owners /\ final < BytesIn(Content)
    /\ LET k == IF final = 0 THEN 0
                ELSE Min({j \in 1..Len(Content) : BytesIn(SubSeq(Content, 1, j)) >= final})
           rest == SubSeq(Content, k + 1, Len(Content))
       IN  /\ CutAll(rest)
           /\ spare' = spare \cup ToSet(rest)
           /\ len' = IF k = 0 THEN len
                     ELSE [len EXCEPT ![Content[k]] = final - BytesIn(SubSeq(Content, 1, k - 1))]
    /\ UNCHANGED <<pc, node, sync, mine, users>>

\* buf_acc: buffers from the head are appended to another one while they fit, and freed.
Accumulate(t, room) ==
    /\ t \in Owners
    /\ LET k == Max({j \in 0..Len(Content) : BytesIn(SubSeq(Content, 1, j)) <= room})
           first == SubSeq(Content, 1, k)
       IN  CutAll(first) /\ spare' = spare \cup ToSet(first)
    /\ UNCHANGED <<len, pc, node, sync, mine, users>>

\* After a buffer was freed twice, or freed while another one was removed, the pool's list,
\* which goes through next, is no longer a list: nothing is modelled after that.
Operation ==
    \/ \E b \in Nodes, n \in IF users = Owners THEN Lens ELSE {1} : AddBuf(b, n)
    \/ \E t \in users \cap Removers :
          \/ \E place \in {"check", "drain"} : StartRemove(t, place)
          \/ CheckHead(t) \/ TakeBuf(t) \/ DrainBuf(t)
          \/ StartSend(t) \/ InitSection(t) \/ EnterSend(t) \/ PeekAndSend(t) \/ DropSent(t)
    \/ \E t \in users \cap Holders : FreeMine(t)
    \/ \E t \in users \cap Owners :
          \/ \E b \in Nodes : RemoveNode(t, b)
          \/ \E n \in 0..BytesIn(Content) : DecreaseToLen(t, n) \/ Accumulate(t, n)

Next ==
    \/ ~broken /\ Operation
    \/ broken /\ UNCHANGED vars

Spec == Init /\ [][Next]_vars

-----------------------------------------------------------------------------
(* Properties *)

\* Under every interleaving of the unlocked test with the other threads' adds and
\* removes the queue behaves as a FIFO; and an owner's cut leaves exactly the bytes it was
\* asked to leave, in whatever buffer it falls.
Abs == INSTANCE Fifo WITH q <- [k \in DOMAIN Content |-> [buf |-> Content[k], len |-> len[Content[k]]]],
                          alone <- users = Owners
QueueIsFifo == Abs!Spec

\* The ring stays closed in both directions, so that no walk meets a NULL or a
\* buffer that has left: what the unlocked readers (buf_get_total_len) rely on.
RingClosed ==
    /\ head = Null <=> tail = Null
    /\ head # Null =>
          /\ next[tail] = head /\ prev[head] = tail
          /\ Content[Len(Content)] = tail
          /\ \A k \in 1..(Len(Content) - 1) : prev[Content[k + 1]] = Content[k]

\* A buffer is in the pool, in the queue or with one taker, never in two places, never
\* nowhere and never freed twice - with senders, the buffer freed is the buffer that was
\* removed - unless two first senders both saw cs_inited FALSE and one initialised the
\* critical section while the other owned it.
OnePlace ==
    /\ broken => section = "reset"
    /\ ~broken =>
          /\ IsInjective(Content)
          /\ spare \cap ToSet(Content) = {}
          /\ \A t \in Holders : mine[t] \cap (spare \cup ToSet(Content)) = {}
          /\ \A t, u \in Takers : t # u => mine[t] \cap mine[u] = {}
          /\ Nodes = spare \cup ToSet(Content) \cup UNION {mine[t] : t \in Holders}
=============================================================================
