----------------------------- MODULE AddrAlloc ------------------------------
(***************************************************************************)
(* The allocation of MAC addresses: jx_common/src/amalloc.cpp and the        *)
(* statements of jx_common/database.cpp it executes.                         *)
(*                                                                          *)
(* Each station fetches the rows of the table mac_alloc into a sorted list   *)
(* of records (address, length), allocates and frees on its list, and        *)
(* repeats every change on the table, row by row.  Between two statements    *)
(* the station may crash, a statement may fail (no caller looks at its       *)
(* result), and another station may work on the same table with a list of    *)
(* its own.                                                                  *)
(***************************************************************************)
EXTENDS Integers, Sequences, FiniteSets, SequencesExt, FiniteSetsExt

CONSTANTS Stations, \* processes that use the table
          Size,     \* base_len: addresses of the segment
          Asked,    \* lengths that are asked for
          Freed,    \* lengths that are freed
          Width,    \* kal_uint32 counts modulo this: 2^32
          Ids,      \* bound: identities of rows; the program has one for every insert
          NoId      \* identity 0, of a record that has no row

ASSUME AddrAllocAssumption ==
    /\ Size \in Nat \ {0} /\ Asked \subseteq Nat /\ Freed \subseteq Nat /\ NoId \notin Ids
    /\ Width \in Nat /\ Width > 2 * Size

VARIABLES open,   \* the stations that have a handle
          list,   \* plist->list of each
          todo,   \* statements the call in progress has yet to execute
          call,   \* the call in progress with its outcome
          table,  \* rows of mac_alloc
          sound,  \* history: stations whose records lay apart when fetched, and still do
          intact, \* history: nothing has damaged the table yet; while this holds:
          granted,\* history: addresses handed out and not given back
          begun,  \* history: stations whose call has executed a statement
          stale   \* history: stations whose list is not what another has made of the table

handles == <<open, list, todo, call>>
history == <<sound, intact, granted, begun, stale>>
vars    == <<handles, table, history>>

Rec(a, n, i) == [addr |-> a, len |-> n, id |-> i]
End(r)       == r.addr + r.len
Run(a, n)    == a .. (a + n - 1)
Cover(R)     == UNION {Run(r.addr, r.len) : r \in R}
Space        == 0..(Size - 1)

\* AddrItem::operator<
Below(q, r) == End(q) < r.addr
Apart(R)    == \A q, r \in R : q = r \/ Below(q, r) \/ Below(r, q)

Insert(r, p) == [kind |-> "insert", rec |-> r, pos |-> p]
Update(r)    == [kind |-> "update", rec |-> r, pos |-> 0]
Delete(r)    == [kind |-> "delete", rec |-> r, pos |-> 0]

NoCall  == [op |-> "none", at |-> 0, len |-> 0]
Ops     == {"none", "alloc", "refused", "free", "kept"}
Records == [addr : 0..Width, len : 0..Width, id : Ids \cup {NoId}]

TypeOK ==
    /\ open \subseteq Stations
    /\ \A s \in Stations :
          /\ list[s] \in Seq(Records)
          /\ \A k \in 1..Len(todo[s]) : /\ todo[s][k].kind \in {"insert", "update", "delete"}
                                        /\ todo[s][k].rec \in Records
                                        /\ todo[s][k].pos \in 0..Len(list[s])
          /\ call[s] \in [op : Ops, at : 0..Size, len : Asked \cup Freed \cup {0}]
          /\ s \in sound => \A k \in 1..Len(list[s]) : End(list[s][k]) <= Size
    /\ table \subseteq Records
    /\ sound \subseteq open /\ begun \subseteq open /\ stale \subseteq open
    /\ intact \in BOOLEAN /\ granted \subseteq Space

Init ==
    /\ open = {} /\ list = [s \in Stations |-> <<>>] /\ todo = [s \in Stations |-> <<>>]
    /\ call = [s \in Stations |-> NoCall]
    /\ table = {}
    /\ intact = TRUE /\ granted = {} /\ begun = {} /\ sound = {} /\ stale = {}

\* A step that damages the table or not, and what is remembered while nothing has.
Note(damages, g, b, st) ==
    /\ intact' = (intact /\ ~damages)
    /\ granted' = IF intact' THEN g ELSE {}
    /\ begun' = IF intact' THEN b ELSE {}
    /\ stale' = IF intact' THEN st ELSE {}

-----------------------------------------------------------------------------
(* Single decisions of the code, named so that each can be mutated.         *)

\* Mutant: the room must be larger than the request.
FitsLoosely(l, k, n) == (l[k + 1].addr - End(l[k])) % Width > n
\* The room between records k and k+1, in kal_uint32, holds n addresses.
Fits(l, k, n) == (l[k + 1].addr - End(l[k])) % Width >= n

\* Mutant: one address too many at the end of the segment.
FitsPastEnd(r, n) == End(r) + n <= Size + 1
\* item.addr + item.len + len > base_len refuses.
FitsAtEnd(r, n) == End(r) + n <= Size

\* Mutant: a record that was merged stays in the table.
RowLeft(r) == <<>>
\* db_delete_alloc_record(next.id)
MergedRow(r) == <<Delete(r)>>

\* Mutant: what is left behind a freed run is not written to the table.
TailForgotten(r, p) == <<>>
\* db_insert_alloc_record for the rest of the record.
TailRow(r, p) == <<Insert(r, p)>>

\* Mutant: the record keeps its beginning when a run is freed at its front.
FrontKept(r, n) == [r EXCEPT !.len = @ - n]
\* item.addr += len; item.len -= len
FrontFreed(r, n) == [r EXCEPT !.addr = @ + n, !.len = @ - n]

-----------------------------------------------------------------------------
(* Handles                                                                  *)

\* The call has executed one of its two statements.
HalfDone(s) == s \in begun /\ todo[s] # <<>>

\* db_fetch_mac_allocate_list: the rows in any order that sort() may leave them in.
Fetch(s) ==
    /\ s \notin open
    /\ open' = open \cup {s}
    /\ \E l \in SetToSeqs(table) :
          /\ \A k \in 1..(Len(l) - 1) : ~Below(l[k + 1], l[k])
          /\ list' = [list EXCEPT ![s] = l]
    /\ sound' = IF Apart(table) THEN sound \cup {s} ELSE sound
    /\ Note(FALSE, granted, begun,
            IF \E t \in open : HalfDone(t) THEN stale \cup {s} ELSE stale)
    /\ UNCHANGED <<todo, call, table>>

Leave(s, damages) ==
    /\ open' = open \ {s}
    /\ list' = [list EXCEPT ![s] = <<>>] /\ todo' = [todo EXCEPT ![s] = <<>>]
    /\ call' = [call EXCEPT ![s] = NoCall]
    /\ sound' = sound \ {s}
    /\ Note(damages, granted, begun \ {s}, stale \ {s})
    /\ UNCHANGED table

\* deinit_address_list
Deinit(s) == s \in open /\ call[s] = NoCall /\ Leave(s, FALSE)

\* The process ends inside a call: between its two statements the table is damaged.
Crash(s) == call[s] # NoCall /\ Leave(s, HalfDone(s))

\* A call changes the list to l, has the outcome given, and statements to execute.
Begin(s, outcome, l, statements) ==
    /\ list' = [list EXCEPT ![s] = l]
    /\ todo' = [todo EXCEPT ![s] = statements]
    /\ call' = [call EXCEPT ![s] = outcome]
    /\ UNCHANGED <<open, table>>

\* The station may begin a call.  A handle whose records touch or overlap is not followed
\* further: the difference of two of its addresses may wrap, and nothing is claimed of it.
Ready(s) == s \in open /\ call[s] = NoCall /\ s \in sound

-----------------------------------------------------------------------------
(* addr_alloc                                                               *)

Given(a, n) == [op |-> "alloc", at |-> a, len |-> n]

AllocFirst(s, n) ==
    LET l == list[s] IN
    \/ /\ l = <<>>
       /\ Begin(s, Given(0, n), <<Rec(0, n, NoId)>>, <<Insert(Rec(0, n, NoId), 1)>>)
    \/ /\ l # <<>> /\ n < l[1].addr
       /\ Begin(s, Given(0, n), <<Rec(0, n, NoId)>> \o l, <<Insert(Rec(0, n, NoId), 1)>>)
    \/ /\ l # <<>> /\ n = l[1].addr
       /\ LET r == Rec(0, l[1].len + n, l[1].id)
          IN  Begin(s, Given(0, n), [l EXCEPT ![1] = r], <<Update(r)>>)

\* The first room between two records; the two become one when it is filled.
AllocBetween(s, n, k) ==
    LET l == list[s]
        r == [l[k] EXCEPT !.len = @ + n]
        m == [r EXCEPT !.len = @ + l[k + 1].len]
    IN  IF End(r) = l[k + 1].addr
        THEN Begin(s, Given(End(l[k]), n), [RemoveAt(l, k + 1) EXCEPT ![k] = m],
                   <<Update(m)>> \o MergedRow(l[k + 1]))
        ELSE Begin(s, Given(End(l[k]), n), [l EXCEPT ![k] = r], <<Update(r)>>)

AllocLast(s, n) ==
    LET l == list[s]
        r == [Last(l) EXCEPT !.len = @ + n]
    IN  /\ FitsAtEnd(Last(l), n)
        /\ Begin(s, Given(End(Last(l)), n), [l EXCEPT ![Len(l)] = r], <<Update(r)>>)

Refuse(s, n) == Begin(s, [op |-> "refused", at |-> 0, len |-> n], list[s], <<>>)

Alloc(s, n) ==
    /\ Ready(s)
    /\ LET l == list[s]
           first == l # <<>> => n <= l[1].addr
           rooms == {k \in 1..(Len(l) - 1) : Fits(l, k, n)}
       IN  \/ n > Size /\ Refuse(s, n)
           \/ n <= Size /\ first /\ AllocFirst(s, n)
           \/ n <= Size /\ ~first /\ rooms # {} /\ AllocBetween(s, n, Min(rooms))
           \/ n <= Size /\ ~first /\ rooms = {} /\ AllocLast(s, n)
           \/ n <= Size /\ ~first /\ rooms = {} /\ ~FitsAtEnd(Last(l), n) /\ Refuse(s, n)
    /\ UNCHANGED history

-----------------------------------------------------------------------------
(* addr_free                                                                *)

\* offset == item.addr
FreeAtFront(s, k, n) ==
    LET l == list[s]
        r == FrontFreed(l[k], n)
        outcome == [op |-> "free", at |-> l[k].addr, len |-> n]
    IN  \/ n = l[k].len /\ Begin(s, outcome, RemoveAt(l, k), <<Delete(l[k])>>)
        \/ n < l[k].len /\ Begin(s, outcome, [l EXCEPT ![k] = r], <<Update(r)>>)

\* The record ends at the run; what lies behind the run becomes a record of its own.
FreeInside(s, k, a, n) ==
    LET l == list[s]
        r == [l[k] EXCEPT !.len = a - l[k].addr]
        rest == Rec(a + n, End(l[k]) - (a + n), NoId)
        outcome == [op |-> "free", at |-> a, len |-> n]
    IN  /\ a + n <= End(l[k])
        /\ IF rest.len > 0
           THEN Begin(s, outcome, InsertAt([l EXCEPT ![k] = r], k + 1, rest),
                      <<Update(r)>> \o TailRow(rest, k + 1))
           ELSE Begin(s, outcome, [l EXCEPT ![k] = r], <<Update(r)>>)

FreeAccepted(s, k, a, n) ==
    \/ a = list[s][k].addr /\ FreeAtFront(s, k, n)
    \/ a > list[s][k].addr /\ FreeInside(s, k, a, n)

Keep(s, a, n) == Begin(s, [op |-> "kept", at |-> a, len |-> n], list[s], <<>>)

\* Records that the address belongs to, or that end at it; the first is taken.
Holders(s, a) == {k \in 1..Len(list[s]) : list[s][k].addr <= a /\ a <= End(list[s][k])}

Free(s, a, n) ==
    /\ Ready(s)
    /\ LET k == Min(Holders(s, a))
           refused == Holders(s, a) = {} \/ a + n > End(list[s][k])
           \* No address is freed, and one record becomes two that touch.
           splits == ~refused /\ n = 0 /\ list[s][k].addr < a /\ a < End(list[s][k])
       IN  /\ IF refused THEN Keep(s, a, n) ELSE FreeAccepted(s, k, a, n)
           /\ sound' = IF splits THEN sound \ {s} ELSE sound
           /\ Note(splits, IF refused THEN granted ELSE granted \ Run(a, n), begun, stale)

-----------------------------------------------------------------------------
(* Statements                                                               *)

\* Identities that a row, a list or a statement still has.  IDENTITY repeats none at all;
\* one that nobody has any more cannot be told from a new one.
Known ==
    LET written(s) == {st.rec : st \in ToSet(todo[s])}
    IN  {r.id : r \in table \cup UNION {ToSet(list[s]) \cup written(s) : s \in Stations}}

\* One statement of the call.  One that fails, fails unnoticed, and an insert returns 0;
\* also when its row is there and only the identity could not be read back.
Execute(s, fails) ==
    /\ todo[s] # <<>>
    /\ LET st == Head(todo[s])
       IN  \/ fails /\ UNCHANGED <<table, list>>
           \/ /\ fails /\ st.kind = "insert"
              /\ \E i \in Ids \ Known : table' = table \cup {[st.rec EXCEPT !.id = i]}
              /\ UNCHANGED list
           \/ /\ ~fails /\ st.kind = "insert"
              /\ \E i \in Ids \ Known :
                    /\ table' = table \cup {[st.rec EXCEPT !.id = i]}
                    /\ list' = [list EXCEPT ![s][st.pos].id = i]
           \/ /\ ~fails /\ st.kind = "update"
              /\ table' = {IF r.id = st.rec.id THEN st.rec ELSE r : r \in table}
              /\ UNCHANGED list
           \/ /\ ~fails /\ st.kind = "delete"
              /\ table' = {r \in table : r.id # st.rec.id}
              /\ UNCHANGED list
    /\ todo' = [todo EXCEPT ![s] = Tail(@)]
    /\ Note(fails \/ s \in stale, granted, begun \cup {s},
            IF table' = table THEN stale ELSE stale \cup (open \ {s}))
    /\ UNCHANGED <<open, call, sound>>

\* The call returns; an allocation hands its addresses out.
Return(s) ==
    /\ call[s] # NoCall /\ todo[s] = <<>>
    /\ call' = [call EXCEPT ![s] = NoCall]
    /\ Note(FALSE, IF call[s].op = "alloc" THEN granted \cup Run(call[s].at, call[s].len)
                                           ELSE granted, begun \ {s}, stale)
    /\ UNCHANGED <<open, list, todo, table, sound>>

\* A caller frees addresses that have been handed out, or by mistake some that the list
\* does not have; any, once the table is damaged.
MayFree(s, a, n) ==
    intact => (Run(a, n) \subseteq granted \/ ~(Run(a, n) \subseteq Cover(ToSet(list[s]))))

Next ==
    \E s \in Stations :
        \/ Fetch(s) \/ Deinit(s) \/ Crash(s) \/ Return(s)
        \/ \E n \in Asked : Alloc(s, n)
        \/ \E n \in Freed, a \in Space : MayFree(s, a, n) /\ Free(s, a, n)
        \/ \E fails \in BOOLEAN : Execute(s, fails)

Spec == Init /\ [][Next]_vars

-----------------------------------------------------------------------------
(* Properties                                                               *)

\* An address is never handed out while someone else has it, whatever was freed,
\* merged, split and fetched again before, and wherever a station crashed - unless one of
\* the faults has happened to the table.
GrantsApart ==
    intact =>
        \A s \in Stations : (call[s].op = "alloc" /\ todo[s] = <<>>) =>
            Run(call[s].at, call[s].len) \cap granted = {}

\* Whoever fetches the table next may rely on it: its rows lie apart and cover every
\* address that is in use, after each statement except the first of the two that fill a
\* gap or free a run inside a record.
TableSound ==
    (intact /\ \A s \in Stations : ~HalfDone(s)) =>
        Apart(table) /\ granted \subseteq Cover(table)

\* At rest the list of the one station that works is the table, row for row and with the
\* rows' identities, and in order.
ListIsTable ==
    \A s \in open : (intact /\ s \in sound \ stale /\ todo[s] = <<>>) =>
        /\ ToSet(list[s]) = table /\ Len(list[s]) = Cardinality(table)
        /\ \A k \in 1..(Len(list[s]) - 1) : Below(list[s][k], list[s][k + 1])

Pool(s) == INSTANCE AddrPool WITH
    open <- s \in sound,
    used <- IF s \in sound THEN Cover(ToSet(list[s])) ELSE {},
    call <- IF s \in sound THEN call[s] ELSE NoCall

\* A handle fetched from sound rows is a pool of addresses: it takes a run of free
\* addresses whenever one exists and takes back any run in use, no other, although its
\* records are merged and split, statements fail and other stations write.
HandleIsPool ==
    /\ \A s \in Stations : Pool(s)!Init
    /\ [][\A s \in Stations : [Pool(s)!Next]_(Pool(s)!vars)]_vars
=============================================================================
