------------------------------ MODULE SkTimer -------------------------------
(***************************************************************************)
(* The software timers of jx_common/src/sk_timer_task.c: an array of         *)
(* entries, kept in the order of their times and without holes, which a      *)
(* check walks from its beginning again after each entry that was due.       *)
(*                                                                          *)
(* The check is followed entry by entry: that the walk meets every due entry *)
(* once although the array is shifted and sorted under it, and that it ends, *)
(* are what the module is about.                                             *)
(***************************************************************************)
EXTENDS Integers, Sequences, FiniteSets, SequencesExt, FiniteSetsExt

CONSTANTS Num,    \* SK_TIMER_NUM
          Period, \* PEROID_T: what the code counts for a day
          Width,  \* U32 counts modulo this: 2^32
          Weeks,  \* values of week_flag, as the sets of their bits
          Starts, \* times that the first entries have
          Clock   \* seconds at which a check is called, in any order

ASSUME SkTimerAssumption ==
    /\ Num \in Nat \ {0} /\ Period \in Nat \ {0} /\ Width \in Nat /\ Width > 8 * Period
    /\ Weeks \subseteq SUBSET (0..7)
    /\ Starts \subseteq 0..(Width - 1) /\ Clock \subseteq 0..(Width - 1)

VARIABLES slots, \* gSkTimer
          pc,    \* "new" until sk_timer_test has sorted the array, "check" in a check
          i,     \* the check's index, from 1
          now,   \* current_second of the check
          ran,   \* history: how often each entry ran in this check, up to 2
          due,   \* history: entries that were due when it began
          stay   \* history: entries that it should leave in the array

history == <<ran, due, stay>>
vars    == <<slots, pc, i, now, history>>

\* timer_id is what the application chose and may repeat; entries are told apart by the
\* place they had at first.  Node 0 is SK_TIMER_INVALID_ID.
Nodes   == 1..Num
Entries == [node : Nodes \cup {0}, time : 0..(Width - 1), week : Weeks \cup {{}}]
Invalid == [node |-> 0, time |-> 0, week |-> {}]
NoNext  == Width - 1 \* SK_NO_NEXT_EVENT

Valid(e) == e.node # 0
Live(a)  == {k \in 1..Num : Valid(a[k])}

TypeOK ==
    /\ slots \in [1..Num -> Entries]
    /\ pc \in {"new", "idle", "check"} /\ i \in 1..(Num + 1) /\ now \in 0..(Width - 1)
    /\ ran \in [Nodes -> 0..2] /\ due \subseteq Nodes /\ stay \subseteq Nodes

-----------------------------------------------------------------------------
(* The array                                                                *)

\* The entries at j and k, both in use, change places when the second is due before.
InOrder(a, j, k) ==
    IF Valid(a[j]) /\ Valid(a[k]) /\ a[k].time < a[j].time
    THEN [a EXCEPT ![j] = a[k], ![k] = a[j]]
    ELSE a

\* The inner loop of sk_sort_timer compares the entry at j with those behind it ...
Pass(a, j) == FoldLeft(LAMBDA b, k : InOrder(b, j, k), a, [m \in 1..(Num - j) |-> j + m])
\* ... and the outer loop does so for every j.
Sort(a) == FoldLeft(Pass, a, [j \in 1..Num |-> j])

\* Mutant: the entry is marked and its place stays.
LeaveHole(a, k) == [a EXCEPT ![k] = Invalid]
\* sk_remove_timer
Shift(a, k) == Append(RemoveAt(a, k), Invalid)

\* Days until the next of the week's bits, counted from the first day: `week' is 1 in the
\* code, whatever day it is, and decremented.
Days(week) == IF week \cap (1..6) # {} THEN Min(week \cap (1..6)) ELSE 7

\* Mutant: the day of the event itself counts.
NextToday(week, t) ==
    IF week \cap (0..6) = {} THEN NoNext ELSE (t + (Days(week) - 1) * Period) % Width
\* Mutant: the sum is not kal_uint32's.
NextUnbounded(week, t) ==
    IF week \cap (0..6) = {} THEN NoNext ELSE t + Days(week) * Period
\* sk_timer_get_next_event_time
NextTime(week, t) ==
    IF week \cap (0..6) = {} THEN NoNext ELSE (t + Days(week) * Period) % Width

\* Mutant: the walk goes on behind the entry.
GoOn(k) == k + 1
\* goto again
Again(k) == 1

-----------------------------------------------------------------------------
(* sk_timer_init fills the first places, in no order; sk_timer_test sorts them.          *)

Init ==
    /\ \E m \in 0..Num : \E first \in [1..m -> [time : Starts, week : Weeks]] :
          slots = [k \in 1..Num |->
                     IF k <= m THEN [node |-> k, time |-> first[k].time, week |-> first[k].week]
                               ELSE Invalid]
    /\ pc = "new" /\ i = 1 /\ now = 0
    /\ ran = [n \in Nodes |-> 0] /\ due = {} /\ stay = {}

Test ==
    /\ pc = "new"
    /\ slots' = Sort(slots)
    /\ pc' = "idle"
    /\ UNCHANGED <<i, now, history>>

\* sk_timer_check_callback is called; nothing says that the seconds only grow.
Check(second) ==
    /\ pc = "idle"
    /\ pc' = "check" /\ i' = 1 /\ now' = second
    /\ LET fires == {k \in Live(slots) : slots[k].time <= second}
           ends  == {k \in fires : NextTime(slots[k].week, second) = NoNext}
       IN  /\ due' = {slots[k].node : k \in fires}
           /\ stay' = {slots[k].node : k \in Live(slots) \ ends}
    /\ ran' = [n \in Nodes |-> 0]
    /\ UNCHANGED slots

Past == i <= Num => ~Valid(slots[i])

Return == pc = "check" /\ Past /\ pc' = "idle" /\ UNCHANGED <<slots, i, now, history>>

Step ==
    /\ pc = "check" /\ ~Past /\ slots[i].time > now
    /\ i' = i + 1
    /\ UNCHANGED <<slots, pc, now, history>>

\* sk_do_timer_task, and the entry is removed or gets its next time.
Fire ==
    /\ pc = "check" /\ ~Past /\ slots[i].time <= now
    /\ LET e == slots[i]
           next == NextTime(e.week, now)
       IN  /\ slots' = IF next = NoNext THEN Shift(slots, i)
                                        ELSE Sort([slots EXCEPT ![i].time = next])
           /\ ran' = [ran EXCEPT ![e.node] = Min({@ + 1, 2})]
    /\ i' = Again(i)
    /\ UNCHANGED <<pc, now, due, stay>>

Next == Test \/ (\E second \in Clock : Check(second)) \/ Return \/ Step \/ Fire

Spec     == Init /\ [][Next]_vars
FairSpec == Spec /\ WF_vars(Return \/ Step \/ Fire)

-----------------------------------------------------------------------------
(* Properties                                                               *)

\* A week from now is not representable, or taken for SK_NO_NEXT_EVENT.
NearWrap == now + 7 * Period >= NoNext

\* When a check returns, every entry that was due has run once and no other, none is due
\* any more, and those that stay are the others: although entries were shifted and sorted
\* under the walk.
EachDueRunsOnce ==
    (pc = "idle" /\ ~NearWrap) =>
        /\ \A n \in Nodes : ran[n] = IF n \in due THEN 1 ELSE 0
        /\ due \cup stay # {} =>
              /\ stay = {slots[k].node : k \in Live(slots)}
              /\ \A k \in Live(slots) : slots[k].time > now

\* The array never has a hole, behind which a check would not look, and is in the order of
\* the times, also when one has wrapped.
SortedNoHoles ==
    pc # "new" => \A k \in 1..(Num - 1) :
        Valid(slots[k + 1]) => Valid(slots[k]) /\ slots[k].time <= slots[k + 1].time

\* A check returns, except in the last week that 32 bits can count, where a time that has
\* wrapped is due at once and for ever.
CheckEnds == pc = "check" ~> (pc = "idle" \/ NearWrap)
=============================================================================
