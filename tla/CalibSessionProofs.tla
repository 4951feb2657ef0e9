------------------------- MODULE CalibSessionProofs -------------------------
(***************************************************************************)
(* Proofs about CalibSession for every number of attempts and of runs.      *)
(***************************************************************************)
EXTENDS CalibSession, SequenceTheorems, FiniteSetTheorems, TLAPS

USE SessionAssumption DEF SessionAssumption

-----------------------------------------------------------------------------
(* The inductive invariant                                                  *)

\* Where the latest worker is.
Place == IF runs = 0 THEN "none" ELSE wpc[runs]

\* No message of s has a status in S; its last one, and no other, has status t.
None(s, S) == \A k \in DOMAIN s : s[k].st \notin S
OnlyLast(s, t) ==
    /\ s # <<>>
    /\ \A k \in DOMAIN s : s[k].st = t <=> k = Len(s)

\* The four stages of the dialog.  No run: the last one's messages are all handled.
AtRest ==
    /\ ~running /\ button /\ "TURN_ON_POWER" \notin timers
    /\ msgs = <<>> /\ (runs > 0 => wpc[runs] = "ended") /\ counted = 1..runs
\* A run was asked for; its thread starts with the power timer.
Powering ==
    /\ running /\ ~button /\ "TURN_ON_POWER" \in timers
    /\ msgs = <<>> /\ (runs > 0 => wpc[runs] = "ended") /\ counted = 1..runs
\* The worker is alive, and STATUS_ALL_DONE was not posted.
Working ==
    /\ running /\ ~button /\ "TURN_ON_POWER" \notin timers
    /\ Place \notin {"none", "ended"} /\ counted = 1..(runs - 1)
    /\ Place = "begin" => msgs = <<>>
    /\ None(msgs, {"ALL_DONE"})
\* The thread has ended; STATUS_ALL_DONE is its last message and not handled yet.
Closing ==
    /\ running /\ ~button /\ "TURN_ON_POWER" \notin timers
    /\ Place = "ended" /\ counted = 1..(runs - 1)
    /\ OnlyLast(msgs, "ALL_DONE")

Stages == AtRest \/ Powering \/ Working \/ Closing

\* Earlier runs have ended, later ones have not begun, and a success is not
\* reported before the query of its half.
RunsInOrder ==
    /\ \A r \in Runs : r < runs => wpc[r] = "ended"
    /\ \A r \in Runs : r > runs => wpc[r] = "none"
    /\ \A r \in Runs : wpc[r] \in {"none", "begin", "out_ear", "far_query"} => ~farOk[r]
    /\ \A r \in Runs : wpc[r] \notin {"finish", "ended"} => ~nearOk[r]

\* The in-ear half of the worker.
InEarHalf == {"in_ear", "near_query", "finish", "ended"}

\* Every pending message is the latest worker's, and one of the in-ear half is
\* handled with m_rawdata_stage naming that half.
AllOf(s, r) == \A k \in DOMAIN s : s[k].run = r
AllFar(s)   == \A k \in DOMAIN s : s[k].phase = "far"
OwnMessages ==
    /\ AllOf(msgs, runs)
    /\ AllFar(msgs) \/ (stage = "near" /\ Place \in InEarHalf)
    /\ Place \in {"in_ear", "near_query", "finish"} => stage = "near"

\* The last message of s in P is one in Q; there being none, now holds.  (So now
\* will hold once all of s is handled.)
Settles(s, P, Q, now) ==
    \/ now /\ \A k \in DOMAIN s : s[k] \notin P
    \/ \E k \in DOMAIN s : s[k] \in Q /\ \A j \in DOMAIN s : j > k => s[j] \notin P

Of(S) == {m \in Message : m.st \in S}
FarPainters  == Of({"FAR_DOING", "FAR_FAILED", "FAR_SUCCESS"})
                  \cup {m \in Of({"cmd_error"}) : m.phase = "far"}
NearPainters == Of({"NEAR_DOING", "NEAR_FAILED", "NEAR_SUCCESS", "cmd_error"})

\* The static flags, once the pending messages are handled, say what the worker
\* reported for the halves it has begun.
FarFlag(s) ==
    IF farOk[runs]
    THEN Settles(s, Of({"FAR_BEGIN", "FAR_SUCCESS"}), Of({"FAR_SUCCESS"}), outear)
    ELSE Settles(s, Of({"FAR_BEGIN", "FAR_SUCCESS"}), Of({"FAR_BEGIN"}), ~outear)
NearFlag(s) ==
    IF nearOk[runs]
    THEN Settles(s, Of({"NEAR_BEGIN", "NEAR_SUCCESS"}), Of({"NEAR_SUCCESS"}), inear)
    ELSE Settles(s, Of({"NEAR_BEGIN", "NEAR_SUCCESS"}), Of({"NEAR_BEGIN"}), ~inear)
FlagsSettle ==
    (Working \/ Closing) =>
        /\ Place # "begin" => FarFlag(msgs)
        /\ Place \in InEarHalf => NearFlag(msgs)

\* A success is shown, or about to be, only if the worker reported it; and then
\* nothing that is pending overwrites it.
FarLabel(s) ==
    /\ (far = "success" \/ ~None(s, {"FAR_SUCCESS"})) => farOk[runs]
    /\ farOk[runs] => Settles(s, FarPainters, Of({"FAR_SUCCESS"}), far = "success")
NearLabel(s) ==
    /\ (near = "success" \/ ~None(s, {"NEAR_SUCCESS"})) => nearOk[runs]
    /\ nearOk[runs] => Settles(s, NearPainters, Of({"NEAR_SUCCESS"}), near = "success")
LabelsSettle ==
    IF "TURN_ON_POWER" \in timers
    THEN far # "success" /\ near # "success"
    ELSE runs > 0 => FarLabel(msgs) /\ NearLabel(msgs)

\* With no expired wait, a run's prompt is in one place: asked for, open, or
\* closed with the event set; and nothing of it is left after the wait.
OwnPrompt ==
    expired = {} =>
      IF Place # "wait"
      THEN boxes = <<>> /\ ~event /\ None(msgs, {"WAIT_PROMPT"})
      ELSE \/ boxes = <<>> /\ ~event /\ OnlyLast(msgs, "WAIT_PROMPT")
           \/ /\ Len(boxes) = 1 /\ boxes[1].run = runs /\ ~event
              /\ None(msgs, {"WAIT_PROMPT"})
           \/ boxes = <<>> /\ event /\ runs \in dismissed /\ None(msgs, {"WAIT_PROMPT"})

TimerArmed ==
    /\ "RACECMD_AUTOTEST" \in timers => autotest
    /\ ~running /\ autotest => "RACECMD_AUTOTEST" \in timers

IInv == /\ TypeOK /\ Stages /\ RunsInOrder /\ OwnMessages /\ FlagsSettle
        /\ LabelsSettle /\ OwnPrompt /\ TimerArmed /\ VerdictsTrue /\ PromptHonoured

-----------------------------------------------------------------------------
(* Lemmas about a queue of messages                                         *)

LEMMA AppendElements ==
  ASSUME NEW s \in Seq(Message), NEW x \in Message
  PROVE  /\ Append(s, x) \in Seq(Message)
         /\ Append(s, x) # <<>>
         /\ Len(Append(s, x)) = Len(s) + 1
         /\ DOMAIN Append(s, x) = 1..(Len(s) + 1)
         /\ \A k \in 1..Len(s) : Append(s, x)[k] = s[k]
         /\ Append(s, x)[Len(s) + 1] = x
  OBVIOUS

LEMMA TailElements ==
  ASSUME NEW s \in Seq(Message), s # <<>>
  PROVE  /\ Head(s) \in Message
         /\ Head(s) = s[1]
         /\ Tail(s) \in Seq(Message)
         /\ Len(s) \in Nat \ {0}
         /\ DOMAIN s = 1..Len(s)
         /\ Len(Tail(s)) = Len(s) - 1
         /\ DOMAIN Tail(s) = 1..(Len(s) - 1)
         /\ \A k \in 1..(Len(s) - 1) : Tail(s)[k] = s[k + 1]
  <1>1. Len(s) \in Nat \ {0} /\ s[1] \in Message
    BY EmptySeq
  <1> QED
    BY <1>1, HeadTailProperties

LEMMA NoneAppend ==
  ASSUME NEW s \in Seq(Message), NEW x \in Message, NEW S
  PROVE  None(Append(s, x), S) <=> None(s, S) /\ x.st \notin S
  BY AppendElements DEF None

LEMMA NoneTail ==
  ASSUME NEW s \in Seq(Message), s # <<>>, NEW S
  PROVE  None(s, S) <=> None(Tail(s), S) /\ Head(s).st \notin S
  <1>1. ASSUME None(s, S) PROVE None(Tail(s), S) /\ Head(s).st \notin S
    BY <1>1, TailElements DEF None
  <1>2. ASSUME None(Tail(s), S), Head(s).st \notin S PROVE None(s, S)
    <2> SUFFICES ASSUME NEW k \in DOMAIN s PROVE s[k].st \notin S
      BY DEF None
    <2>1. CASE k = 1
      BY <1>2, <2>1, TailElements
    <2>2. CASE k # 1
      <3>1. k - 1 \in 1..(Len(s) - 1) /\ Tail(s)[k - 1] = s[k]
        BY <2>2, TailElements
      <3> QED
        BY <1>2, <3>1, TailElements DEF None
    <2> QED
      BY <2>1, <2>2
  <1> QED
    BY <1>1, <1>2

LEMMA OnlyLastAppend ==
  ASSUME NEW s \in Seq(Message), NEW x \in Message, None(s, {x.st})
  PROVE  OnlyLast(Append(s, x), x.st)
  BY AppendElements DEF None, OnlyLast

\* The message that is only last is handled last.
LEMMA OnlyLastTail ==
  ASSUME NEW s \in Seq(Message), NEW t, OnlyLast(s, t)
  PROVE  IF Head(s).st = t THEN Tail(s) = <<>> ELSE OnlyLast(Tail(s), t)
  <1>1. s # <<>> /\ \A k \in 1..Len(s) : s[k].st = t <=> k = Len(s)
    BY DEF OnlyLast
  <1>a. /\ Head(s) = s[1] /\ Tail(s) \in Seq(Message)
        /\ Len(s) \in Nat \ {0} /\ Len(Tail(s)) = Len(s) - 1
    BY <1>1, TailElements
  <1>2. CASE Len(s) = 1
    <2>1. Head(s).st = t
      BY <1>1, <1>a, <1>2
    <2>2. Tail(s) = <<>>
      <3>1. Len(Tail(s)) = 0
        BY <1>a, <1>2
      <3> QED
        BY <1>a, <3>1, EmptySeq
    <2> QED
      BY <2>1, <2>2
  <1>3. CASE Len(s) # 1
    <2>1. Head(s).st # t
      <3>1. 1 \in 1..Len(s) /\ 1 # Len(s)
        BY <1>a, <1>3
      <3>2. s[1].st = t <=> 1 = Len(s)
        BY <1>1, <3>1
      <3> QED
        BY <3>1, <3>2, <1>a
    <2>2. Tail(s) # <<>>
      <3>1. Len(Tail(s)) # 0
        BY <1>a, <1>3
      <3> QED
        BY <3>1, EmptySeq
    <2>3. ASSUME NEW k \in 1..(Len(s) - 1)
          PROVE  Tail(s)[k].st = t <=> k = Len(Tail(s))
      <3>1. k + 1 \in 1..Len(s) /\ Tail(s)[k] = s[k + 1]
        BY <1>1, TailElements
      <3> QED
        BY <1>1, <3>1, TailElements
    <2> QED
      BY <1>1, <2>1, <2>2, <2>3, TailElements DEF OnlyLast
  <1> QED
    BY <1>2, <1>3

LEMMA SettlesEmpty ==
  ASSUME NEW P, NEW Q, NEW now \in BOOLEAN
  PROVE  Settles(<<>>, P, Q, now) <=> now
  BY DEF Settles

\* A message outside P changes nothing.
LEMMA SettlesOther ==
  ASSUME NEW s \in Seq(Message), NEW x \in Message, NEW P, NEW Q, NEW now \in BOOLEAN,
         Settles(s, P, Q, now), x \notin P
  PROVE  Settles(Append(s, x), P, Q, now)
  BY AppendElements DEF Settles

\* One in Q settles it.
LEMMA SettlesPosted ==
  ASSUME NEW s \in Seq(Message), NEW x \in Message, NEW P, NEW Q, NEW now \in BOOLEAN,
         x \in Q
  PROVE  Settles(Append(s, x), P, Q, now)
  BY AppendElements DEF Settles

\* Handling a message in Q makes now true, one outside P leaves it alone.
LEMMA SettlesTail ==
  ASSUME NEW s \in Seq(Message), s # <<>>, NEW P, NEW Q,
         NEW now \in BOOLEAN, NEW then \in BOOLEAN,
         Settles(s, P, Q, now),
         Head(s) \in Q => then,
         Head(s) \notin P /\ now => then
  PROVE  Settles(Tail(s), P, Q, then)
  <1>1. CASE now /\ \A k \in DOMAIN s : s[k] \notin P
    BY <1>1, TailElements DEF Settles
  <1>2. ASSUME NEW k \in DOMAIN s, s[k] \in Q, \A j \in DOMAIN s : j > k => s[j] \notin P
        PROVE  Settles(Tail(s), P, Q, then)
    <2>1. CASE k = 1
      <3>1. then
        BY <1>2, <2>1, TailElements
      <3>2. \A j \in DOMAIN Tail(s) : Tail(s)[j] \notin P
        BY <1>2, <2>1, TailElements
      <3> QED
        BY <3>1, <3>2 DEF Settles
    <2>2. CASE k # 1
      <3>1. k - 1 \in DOMAIN Tail(s) /\ Tail(s)[k - 1] = s[k]
        BY <2>2, TailElements
      <3>2. \A j \in DOMAIN Tail(s) : j > k - 1 => Tail(s)[j] \notin P
        BY <1>2, TailElements
      <3> QED
        BY <1>2, <3>1, <3>2 DEF Settles
    <2> QED
      BY <2>1, <2>2
  <1> QED
    BY <1>1, <1>2 DEF Settles

\* With nothing of P pending, it is settled now.
LEMMA SettledNow ==
  ASSUME NEW s \in Seq(Message), NEW P, NEW Q, NEW now \in BOOLEAN, Q \subseteq P,
         Settles(s, P, Q, now), \A k \in DOMAIN s : s[k] \notin P
  PROVE  now
  BY DEF Settles

-----------------------------------------------------------------------------
(* What the steps have in common                                            *)

\* Only the latest worker takes steps, and only while it is alive.
LEMMA WorkerIsLatest ==
  ASSUME TypeOK, Stages, RunsInOrder, NEW r \in Runs, WorkerStep(r)
  PROVE  /\ r = runs /\ Place = wpc[r] /\ Working
         /\ UNCHANGED <<guiVars, boxes, runs, counted, dismissed>>
  <1>1. wpc[r] \notin {"none", "ended"} /\ UNCHANGED <<guiVars, boxes, runs, counted, dismissed>>
    BY DEF WorkerStep, Begin, OutEar, FarQuery, AskPrompt, WaitSignalled, WaitTimedOut,
       InEar, NearQuery, Finish
  <1>2. runs \in 0..MaxRuns /\ r \in 1..MaxRuns
    BY DEF TypeOK, Runs
  <1>3. r = runs
    BY <1>1, <1>2 DEF RunsInOrder
  <1>4. Place = wpc[r]
    BY <1>2, <1>3 DEF Place
  <1> QED
    BY <1>1, <1>2, <1>3, <1>4 DEF Stages, AtRest, Powering, Closing

\* The messages of a command: none, or its error.
LEMMA ErrorPosted ==
  ASSUME TypeOK, NEW r \in Runs, NEW p \in Phases, NEW e \in ErrorPosts(r, p)
  PROVE  /\ Msg(r, "cmd_error", p) \in Message
         /\ \/ msgs \o e = msgs
            \/ msgs \o e = Append(msgs, Msg(r, "cmd_error", p))
  <1>1. msgs \in Seq(Message)
    BY DEF TypeOK
  <1>2. Msg(r, "cmd_error", p) \in Message
    BY DEF Msg, Message, Status
  <1>3. CASE e = <<>>
    BY <1>1, <1>2, <1>3
  <1>4. CASE e = <<Msg(r, "cmd_error", p)>>
    BY <1>1, <1>2, <1>4, AppendIsConcat
  <1> QED
    BY <1>3, <1>4 DEF ErrorPosts

LEMMA MsgIsMessage ==
  ASSUME NEW r \in Runs, NEW t \in Status, NEW p \in Phases
  PROVE  /\ Msg(r, t, p) \in Message
         /\ Msg(r, t, p).run = r /\ Msg(r, t, p).st = t /\ Msg(r, t, p).phase = p
  BY DEF Msg, Message

-----------------------------------------------------------------------------
(* Types                                                                    *)

Box == [run : Runs, open : BOOLEAN]

\* TypeOK but for the bounds of the two counters, which follow from VerdictsTrue.
Types ==
    /\ running \in BOOLEAN /\ button \in BOOLEAN /\ autotest \in BOOLEAN
    /\ timers \subseteq Timers /\ msgs \in Seq(Message)
    /\ boxes \in Seq(Box)
    /\ event \in BOOLEAN /\ stage \in Phases \cup {"none"}
    /\ outear \in BOOLEAN /\ inear \in BOOLEAN /\ far \in Labels /\ near \in Labels
    /\ ok \in Nat /\ ng \in Nat /\ runs \in 0..MaxRuns
    /\ wpc \in [Runs -> WorkerPlaces] /\ tries \in [Runs -> 0..(Tries - 1)]
    /\ farOk \in [Runs -> BOOLEAN] /\ nearOk \in [Runs -> BOOLEAN]
    /\ counted \subseteq Runs /\ dismissed \subseteq Runs
    /\ signalled \subseteq Runs /\ expired \subseteq Runs

LEMMA TypesHold == TypeOK => Types
  BY DEF TypeOK, Types, Box

LEMMA WorkerTypes ==
  ASSUME TypeOK, Stages, RunsInOrder, NEW r \in Runs, WorkerStep(r)
  PROVE  Types'
  <1> USE DEF WorkerPlaces, Phases
  <1>1. Types /\ UNCHANGED <<guiVars, boxes, runs, counted, dismissed>>
    BY TypesHold, WorkerIsLatest
  <1>2. msgs \in Seq(Message) /\ 0 \in 0..(Tries - 1)
    BY <1>1 DEF Types
  <1>e. ASSUME NEW p \in Phases, NEW e \in ErrorPosts(r, p)
        PROVE  msgs \o e \in Seq(Message)
    <2>1. /\ Msg(r, "cmd_error", p) \in Message
          /\ msgs \o e = msgs \/ msgs \o e = Append(msgs, Msg(r, "cmd_error", p))
      BY ErrorPosted
    <2>2. Append(msgs, Msg(r, "cmd_error", p)) \in Seq(Message)
      BY <1>2, <2>1, AppendElements
    <2> QED
      BY <1>2, <2>1, <2>2
  <1>m. ASSUME NEW t \in Status, NEW p \in Phases, NEW s \in Seq(Message)
        PROVE  Append(s, Msg(r, t, p)) \in Seq(Message)
    BY MsgIsMessage, AppendElements
  <1>t. /\ [tries EXCEPT ![r] = 0] \in [Runs -> 0..(Tries - 1)]
        /\ MoreTries(tries[r] + 1) =>
              [tries EXCEPT ![r] = @ + 1] \in [Runs -> 0..(Tries - 1)]
        /\ \A place \in WorkerPlaces : [wpc EXCEPT ![r] = place] \in [Runs -> WorkerPlaces]
        /\ tries \in [Runs -> 0..(Tries - 1)] /\ wpc \in [Runs -> WorkerPlaces]
    BY <1>1, <1>2 DEF Types, MoreTries
  <1>q. ASSUME NEW p \in Phases,
               \/ Query(r, p, "prompt", farOk)  /\ UNCHANGED <<stage, nearOk, event, waitHist>>
               \/ Query(r, p, "finish", nearOk) /\ UNCHANGED <<stage, farOk, event, waitHist>>
        PROVE  Types'
    <2>1. msgs' \in Seq(Message)
      <3>1. \/ \E e \in ErrorPosts(r, p), t \in Status :
                   msgs' = (msgs \o e) \o <<Msg(r, t, p)>>
            \/ \E t \in Status : msgs' = Append(msgs, Msg(r, t, p))
        BY <1>q DEF Query, Status
      <3>2. ASSUME NEW e \in ErrorPosts(r, p), NEW t \in Status
            PROVE  (msgs \o e) \o <<Msg(r, t, p)>> = Append(msgs \o e, Msg(r, t, p))
        BY <1>e, MsgIsMessage, AppendIsConcat
      <3> QED
        BY <3>1, <3>2, <1>m, <1>e, <1>2
    <2>2. tries' \in [Runs -> 0..(Tries - 1)] /\ wpc' \in [Runs -> WorkerPlaces]
      BY <1>q, <1>t DEF Query, GoTo
    <2>3. farOk' \in [Runs -> BOOLEAN] /\ nearOk' \in [Runs -> BOOLEAN]
      BY <1>q, <1>1 DEF Query, Types
    <2> QED
      BY <1>1, <1>q, <2>1, <2>2, <2>3 DEF Types, guiVars, waitHist
  <1>3. CASE Begin(r)
    BY <1>1, <1>2, <1>3, <1>m DEF Begin, Types, guiVars, waitHist, GoTo, Status
  <1>4. CASE OutEar(r)
    <2>1. msgs' \in Seq(Message)
      BY <1>4, <1>e, <1>2 DEF OutEar
    <2>2. tries' \in [Runs -> 0..(Tries - 1)] /\ wpc' \in [Runs -> WorkerPlaces]
      BY <1>t, <1>4 DEF OutEar, GoTo
    <2>3. stage' \in Phases \cup {"none"}
      BY <1>1, <1>4 DEF OutEar, Types
    <2> QED
      BY <1>1, <1>4, <2>1, <2>2, <2>3 DEF OutEar, Types, guiVars, waitHist
  <1>5. CASE FarQuery(r)
    BY <1>5, <1>q DEF FarQuery
  <1>6. CASE AskPrompt(r)
    BY <1>1, <1>2, <1>6, <1>m DEF AskPrompt, Types, guiVars, waitHist, GoTo, Status
  <1>7. CASE WaitSignalled(r)
    BY <1>1, <1>2, <1>7, <1>m DEF WaitSignalled, AfterWait, Types, guiVars, GoTo, Status
  <1>8. CASE WaitTimedOut(r)
    BY <1>1, <1>2, <1>8, <1>m DEF WaitTimedOut, AfterWait, Types, guiVars, GoTo, Status
  <1>9. CASE InEar(r)
    <2>1. msgs' \in Seq(Message)
      BY <1>9, <1>e DEF InEar
    <2> QED
      BY <1>1, <1>9, <2>1 DEF InEar, Types, guiVars, waitHist, GoTo
  <1>10. CASE NearQuery(r)
    BY <1>10, <1>q DEF NearQuery
  <1>11. CASE Finish(r)
    BY <1>1, <1>2, <1>11, <1>m DEF Finish, Types, guiVars, waitHist, GoTo, Status
  <1> QED
    BY <1>3, <1>4, <1>5, <1>6, <1>7, <1>8, <1>9, <1>10, <1>11 DEF WorkerStep

LEMMA BoxClosed ==
  ASSUME NEW s \in Seq(Box), NEW b \in DOMAIN s
  PROVE  /\ [s EXCEPT ![b].open = FALSE] \in Seq(Box)
         /\ Len([s EXCEPT ![b].open = FALSE]) = Len(s)
         /\ \A k \in 1..Len(s) : [s EXCEPT ![b].open = FALSE][k].run = s[k].run
  <1> DEFINE x == [s[b] EXCEPT !.open = FALSE]
  <1>1. b \in 1..Len(s) /\ s[b] \in Box
    BY LenProperties, ElementOfSeq
  <1>2. x \in Box /\ x.run = s[b].run
    BY <1>1 DEF Box
  <1>3. [s EXCEPT ![b].open = FALSE] = [s EXCEPT ![b] = x]
    OBVIOUS
  <1> HIDE DEF x
  <1>4. /\ [s EXCEPT ![b] = x] \in Seq(Box)
        /\ Len([s EXCEPT ![b] = x]) = Len(s)
        /\ \A k \in 1..Len(s) : [s EXCEPT ![b] = x][k] = IF k = b THEN x ELSE s[k]
    BY <1>1, <1>2, ExceptSeq
  <1>5. \A k \in 1..Len(s) : [s EXCEPT ![b] = x][k].run = s[k].run
    BY <1>2, <1>4
  <1> QED
    BY <1>3, <1>4, <1>5

LEMMA GuiTypes ==
  ASSUME TypeOK, Operator \/ Gui \/ UNCHANGED vars
  PROVE  Types'
  <1> USE DEF workerVars, waitHist, Timers, Labels
  <1>1. Types
    BY TypesHold
  <1>b. ASSUME NEW b \in DOMAIN boxes
        PROVE  [boxes EXCEPT ![b].open = FALSE] \in Seq(Box)
    BY <1>1, BoxClosed DEF Types
  <1>s. ASSUME NEW on \in BOOLEAN, NEW ts \in SUBSET Timers, StartRun(on, ts)
        PROVE  Types'
    BY <1>1, <1>s, ZenonT(40) DEF StartRun, Types, FlagSet
  <1>2. CASE ClickButton
    BY <1>1, <1>2, <1>s DEF ClickButton, Types
  <1>3. CASE ToggleAutotest
    <2>1. CASE StartRun(~autotest, timers)
      BY <1>1, <1>s, <2>1 DEF Types
    <2>2. CASE ~StartRun(~autotest, timers)
      BY <1>1, <1>3, <2>2, ZenonT(40) DEF ToggleAutotest, TimersAfterToggle, Types
    <2> QED
      BY <2>1, <2>2
  <1>4. CASE OperatorCloses
    BY <1>1, <1>4, <1>b DEF OperatorCloses, guiVars, Types
  <1>5. CASE AutotestTimer
    BY <1>1, <1>5, <1>s DEF AutotestTimer, Types
  <1>6. CASE TurnOnTimer
    <2>1. runs + 1 \in Runs /\ runs' \in 0..MaxRuns
      BY <1>1, <1>6 DEF TurnOnTimer, Types, Runs
    <2>2. wpc' \in [Runs -> WorkerPlaces]
      BY <1>1, <1>6, <2>1 DEF TurnOnTimer, Types, WorkerPlaces
    <2> QED
      BY <1>1, <1>6, <2>1, <2>2 DEF TurnOnTimer, Types
  <1>7. CASE AutoCloseTimer
    <2>1. boxes' \in Seq(Box)
      BY <1>1, <1>7, <1>b DEF AutoCloseTimer, Types
    <2> QED
      BY <1>1, <1>7, <2>1 DEF AutoCloseTimer, Types
  <1>8. CASE PromptReturns
    <2>0. /\ boxes \in Seq(Box) /\ boxes # <<>>
          /\ Len(boxes) \in Nat \ {0}
      BY <1>1, <1>8, EmptySeq DEF PromptReturns, Types
    <2>1. boxes[Len(boxes)].run \in Runs
      <3>1. boxes[Len(boxes)] \in Box
        BY <2>0, ElementOfSeq
      <3> QED
        BY <3>1 DEF Box
    <2>2. boxes' \in Seq(Box)
      <3>1. \A k \in 1..(Len(boxes) - 1) : boxes[k] \in Box
        BY <2>0, ElementOfSeq
      <3>2. SubSeq(boxes, 1, Len(boxes) - 1) \in Seq(Box)
        BY <2>0, <3>1, SubSeqProperties
      <3> QED
        BY <1>8, <3>2 DEF PromptReturns
    <2> QED
      BY <1>1, <1>8, <2>1, <2>2 DEF PromptReturns, guiVars, Types
  <1>9. CASE Dispatch
    <2>0. msgs # <<>> /\ msgs' = Tail(msgs) /\ UNCHANGED <<workerVars, waitHist, event, runs, dismissed>>
      BY <1>9 DEF Dispatch
    <2>1. Head(msgs) \in Message /\ Tail(msgs) \in Seq(Message)
      BY <1>1, <2>0, TailElements DEF Types
    <2>2. CASE HandleProgress(Head(msgs))
      BY <1>1, <2>0, <2>1, <2>2 DEF HandleProgress, Types, NearFlagCleared
    <2>3. CASE HandlePrompt(Head(msgs))
      BY <1>1, <2>0, <2>1, <2>3 DEF HandlePrompt, Types, Message, Box
    <2>4. CASE HandleDone(Head(msgs))
      <3>1. ok' \in Nat /\ ng' \in Nat
        BY <1>1, <2>4 DEF HandleDone, Types
      <3>2. counted' \subseteq Runs
        BY <1>1, <2>1, <2>4 DEF HandleDone, Types, Message
      <3> QED
        BY <1>1, <2>0, <2>1, <2>4, <3>1, <3>2 DEF HandleDone, Types
    <2>5. CASE HandleCmdError(Head(msgs))
      BY <1>1, <2>0, <2>1, <2>5 DEF HandleCmdError, Types
    <2> QED
      BY <1>9, <2>2, <2>3, <2>4, <2>5 DEF Dispatch
  <1>10. CASE UNCHANGED vars
    BY <1>1, <1>10 DEF vars, guiVars, Types
  <1> QED
    BY <1>2, <1>3, <1>4, <1>5, <1>6, <1>7, <1>8, <1>9, <1>10 DEF Operator, Gui

-----------------------------------------------------------------------------
(* The worker's steps, with what they post written as appended messages     *)

\* msgs after a command's own messages.
AfterCommand(r, p) == {msgs, Append(msgs, Msg(r, "cmd_error", p))}

LEMMA AfterCommandType ==
  ASSUME TypeOK, NEW r \in Runs, NEW p \in Phases
  PROVE  /\ AfterCommand(r, p) \subseteq Seq(Message)
         /\ \A e \in ErrorPosts(r, p) : msgs \o e \in AfterCommand(r, p)
  <1>1. msgs \in Seq(Message)
    BY DEF TypeOK
  <1>2. Msg(r, "cmd_error", p) \in Message
    BY DEF Msg, Message
  <1>3. Append(msgs, Msg(r, "cmd_error", p)) \in Seq(Message)
    BY <1>1, <1>2, AppendElements
  <1> QED
    BY <1>1, <1>3, ErrorPosted DEF AfterCommand

LEMMA QueryFails ==
  ASSUME TypeOK, NEW r \in Runs, NEW p \in Phases, NEW t \in Status,
         NEW e \in ErrorPosts(r, p)
  PROVE  \E s \in AfterCommand(r, p) :
            (msgs \o e) \o <<Msg(r, t, p)>> = Append(s, Msg(r, t, p))
  <1>1. msgs \o e \in AfterCommand(r, p) /\ msgs \o e \in Seq(Message)
    BY AfterCommandType
  <1>2. (msgs \o e) \o <<Msg(r, t, p)>> = Append(msgs \o e, Msg(r, t, p))
    BY <1>1, MsgIsMessage, AppendIsConcat
  <1> QED
    BY <1>1, <1>2

FarQueryCases(r) ==
    /\ wpc[r] = "far_query" /\ UNCHANGED <<stage, nearOk>>
    /\ \/ /\ \E s \in AfterCommand(r, "far") :
                 msgs' = Append(s, Msg(r, "FAR_FAILED", "far"))
          /\ UNCHANGED farOk /\ GoTo(r, "prompt")
       \/ /\ msgs' = Append(msgs, Msg(r, "FAR_SUCCESS", "far"))
          /\ farOk' = [farOk EXCEPT ![r] = TRUE] /\ GoTo(r, "prompt")
       \/ /\ msgs' = Append(msgs, Msg(r, "FAR_DOING", "far"))
          /\ UNCHANGED farOk /\ (UNCHANGED wpc \/ GoTo(r, "prompt"))

LEMMA FarQueryPosts ==
  ASSUME TypeOK, NEW r \in Runs, FarQuery(r)
  PROVE  FarQueryCases(r)
  <1>1. ASSUME NEW e \in ErrorPosts(r, "far")
        PROVE  \E s \in AfterCommand(r, "far") :
                  (msgs \o e) \o <<Msg(r, "FAR_FAILED", "far")>>
                     = Append(s, Msg(r, "FAR_FAILED", "far"))
    BY QueryFails DEF Phases, Status
  <1> QED
    BY <1>1 DEF FarQuery, Query, FarQueryCases

NearQueryCases(r) ==
    /\ wpc[r] = "near_query" /\ UNCHANGED <<stage, farOk>>
    /\ \/ /\ \E s \in AfterCommand(r, "near") :
                 msgs' = Append(s, Msg(r, "NEAR_FAILED", "near"))
          /\ UNCHANGED nearOk /\ GoTo(r, "finish")
       \/ /\ msgs' = Append(msgs, Msg(r, "NEAR_SUCCESS", "near"))
          /\ nearOk' = [nearOk EXCEPT ![r] = TRUE] /\ GoTo(r, "finish")
       \/ /\ msgs' = Append(msgs, Msg(r, "NEAR_DOING", "near"))
          /\ UNCHANGED nearOk /\ (UNCHANGED wpc \/ GoTo(r, "finish"))

LEMMA NearQueryPosts ==
  ASSUME TypeOK, NEW r \in Runs, NearQuery(r)
  PROVE  NearQueryCases(r)
  <1>1. ASSUME NEW e \in ErrorPosts(r, "near")
        PROVE  \E s \in AfterCommand(r, "near") :
                  (msgs \o e) \o <<Msg(r, "NEAR_FAILED", "near")>>
                     = Append(s, Msg(r, "NEAR_FAILED", "near"))
    BY QueryFails DEF Phases, Status
  <1> QED
    BY <1>1 DEF NearQuery, Query, NearQueryCases

OutEarCases(r) ==
    /\ wpc[r] = "out_ear" /\ UNCHANGED <<farOk, nearOk>>
    /\ msgs' \in AfterCommand(r, "far")
    /\ UNCHANGED wpc \/ GoTo(r, "far_query")

LEMMA OutEarPosts ==
  ASSUME TypeOK, NEW r \in Runs, OutEar(r)
  PROVE  OutEarCases(r)
  BY AfterCommandType DEF OutEar, OutEarCases, Phases, AfterCommand

LEMMA InEarPosts ==
  ASSUME TypeOK, NEW r \in Runs, InEar(r)
  PROVE  msgs' \in AfterCommand(r, "near")
  BY AfterCommandType DEF InEar, Phases

LEMMA WorkerFrame ==
  ASSUME TypeOK, Stages, RunsInOrder, NEW r \in Runs, WorkerStep(r)
  PROVE  /\ r = runs /\ runs' = runs /\ runs \in 1..MaxRuns
         /\ Place = wpc[r] /\ Place' = wpc'[r]
         /\ msgs \in Seq(Message) /\ wpc \in [Runs -> WorkerPlaces]
         /\ farOk \in [Runs -> BOOLEAN] /\ nearOk \in [Runs -> BOOLEAN]
         /\ "far" \in Phases /\ "near" \in Phases
         /\ AfterCommand(r, "far") \subseteq Seq(Message)
         /\ AfterCommand(r, "near") \subseteq Seq(Message)
  <1>1. r = runs /\ runs' = runs /\ Place = wpc[r] /\ runs \in 1..MaxRuns
    BY WorkerIsLatest DEF Runs
  <1>2. Place' = wpc'[r]
    BY <1>1 DEF Place
  <1>3. "far" \in Phases /\ "near" \in Phases
    BY DEF Phases
  <1> QED
    BY <1>1, <1>2, <1>3, AfterCommandType DEF TypeOK

\* The statuses a worker's step may post are those of its place.
LEMMA WorkerStages ==
  ASSUME TypeOK, Stages, RunsInOrder, NEW r \in Runs, WorkerStep(r)
  PROVE  Stages'
  <1> USE DEF GoTo, Status, WorkerPlaces
  <1>1. Working /\ UNCHANGED <<guiVars, boxes, runs, counted, dismissed>>
    BY WorkerIsLatest
  <1>2. /\ r = runs /\ Place = wpc[r] /\ Place' = wpc'[r] /\ msgs \in Seq(Message)
        /\ wpc \in [Runs -> WorkerPlaces]
        /\ "far" \in Phases /\ "near" \in Phases
    BY WorkerFrame
  <1>3. None(msgs, {"ALL_DONE"})
    BY <1>1 DEF Working
  <1>m. ASSUME NEW s \in Seq(Message), None(s, {"ALL_DONE"}), NEW t \in Status \ {"ALL_DONE"},
               NEW p \in Phases
        PROVE  None(Append(s, Msg(r, t, p)), {"ALL_DONE"})
    BY <1>m, MsgIsMessage, NoneAppend
  <1>e. ASSUME NEW p \in Phases, NEW s \in AfterCommand(r, p)
        PROVE  s \in Seq(Message) /\ None(s, {"ALL_DONE"})
    <2>1. AfterCommand(r, p) \subseteq Seq(Message)
      BY AfterCommandType
    <2>2. Msg(r, "cmd_error", p) \in Message /\ Msg(r, "cmd_error", p).st = "cmd_error"
      BY DEF Msg, Message
    <2> QED
      BY <1>2, <1>3, <2>1, <2>2, NoneAppend DEF AfterCommand
  <1>w. ASSUME wpc'[r] \notin {"none", "ended", "begin"}, None(msgs', {"ALL_DONE"})
        PROVE  Stages'
    BY <1>1, <1>2, <1>w DEF Stages, Working, guiVars
  <1>4. CASE Begin(r)
    BY <1>2, <1>3, <1>4, <1>m, <1>w DEF Begin
  <1>5. CASE OutEar(r)
    <2>1. OutEarCases(r)
      BY <1>5, OutEarPosts
    <2> QED
      BY <1>2, <1>e, <1>w, <2>1 DEF OutEarCases
  <1>6. CASE FarQuery(r)
    <2>1. FarQueryCases(r)
      BY <1>6, FarQueryPosts
    <2>2. None(msgs', {"ALL_DONE"})
      <3>1. \E s \in AfterCommand(r, "far"), t \in Status \ {"ALL_DONE"} :
               msgs' = Append(s, Msg(r, t, "far"))
        BY <2>1 DEF FarQueryCases, AfterCommand
      <3> QED
        BY <1>2, <1>e, <1>m, <3>1
    <2>3. wpc'[r] \notin {"none", "ended", "begin"}
      BY <1>2, <2>1 DEF FarQueryCases
    <2> QED
      BY <1>w, <2>2, <2>3
  <1>7. CASE AskPrompt(r)
    BY <1>2, <1>3, <1>7, <1>m, <1>w DEF AskPrompt
  <1>8. CASE WaitSignalled(r)
    BY <1>2, <1>3, <1>8, <1>m, <1>w DEF WaitSignalled, AfterWait
  <1>9. CASE WaitTimedOut(r)
    BY <1>2, <1>3, <1>9, <1>m, <1>w DEF WaitTimedOut, AfterWait
  <1>10. CASE InEar(r)
    BY <1>2, <1>e, <1>w, <1>10, InEarPosts DEF InEar
  <1>11. CASE NearQuery(r)
    <2>1. NearQueryCases(r)
      BY <1>11, NearQueryPosts
    <2>2. None(msgs', {"ALL_DONE"})
      <3>1. \E s \in AfterCommand(r, "near"), t \in Status \ {"ALL_DONE"} :
               msgs' = Append(s, Msg(r, t, "near"))
        BY <2>1 DEF NearQueryCases, AfterCommand
      <3> QED
        BY <1>2, <1>e, <1>m, <3>1
    <2>3. wpc'[r] \notin {"none", "ended", "begin"}
      BY <1>2, <2>1 DEF NearQueryCases
    <2> QED
      BY <1>w, <2>2, <2>3
  <1>12. CASE Finish(r)
    <2>1. OnlyLast(msgs', "ALL_DONE")
      BY <1>2, <1>3, <1>12, MsgIsMessage, OnlyLastAppend, SMTT(30) DEF Finish
    <2>2. wpc'[r] = "ended"
      BY <1>2, <1>12 DEF Finish
    <2> QED
      BY <1>1, <1>2, <2>1, <2>2 DEF Stages, Working, Closing, guiVars
  <1> QED
    BY <1>4, <1>5, <1>6, <1>7, <1>8, <1>9, <1>10, <1>11, <1>12 DEF WorkerStep

LEMMA WorkerRunsInOrder ==
  ASSUME TypeOK, Stages, RunsInOrder, NEW r \in Runs, WorkerStep(r)
  PROVE  RunsInOrder'
  <1> USE DEF GoTo, RunsInOrder
  <1>1. /\ r = runs /\ runs' = runs /\ wpc \in [Runs -> WorkerPlaces]
        /\ farOk \in [Runs -> BOOLEAN] /\ nearOk \in [Runs -> BOOLEAN]
    BY WorkerFrame
  <1>2. CASE Begin(r)
    BY <1>1, <1>2 DEF Begin
  <1>3. CASE OutEar(r)
    BY <1>1, <1>3, OutEarPosts DEF OutEarCases
  <1>4. CASE FarQuery(r)
    BY <1>1, <1>4, FarQueryPosts DEF FarQueryCases
  <1>5. CASE AskPrompt(r)
    BY <1>1, <1>5 DEF AskPrompt
  <1>6. CASE WaitSignalled(r) \/ WaitTimedOut(r)
    BY <1>1, <1>6 DEF WaitSignalled, WaitTimedOut, AfterWait
  <1>7. CASE InEar(r)
    BY <1>1, <1>7 DEF InEar
  <1>8. CASE NearQuery(r)
    BY <1>1, <1>8, NearQueryPosts DEF NearQueryCases
  <1>9. CASE Finish(r)
    BY <1>1, <1>9 DEF Finish
  <1> QED
    BY <1>2, <1>3, <1>4, <1>5, <1>6, <1>7, <1>8, <1>9 DEF WorkerStep

LEMMA OwnAppend ==
  ASSUME NEW s \in Seq(Message), NEW x \in Message, NEW r
  PROVE  /\ AllOf(Append(s, x), r) <=> AllOf(s, r) /\ x.run = r
         /\ AllFar(Append(s, x)) <=> AllFar(s) /\ x.phase = "far"
  BY AppendElements DEF AllOf, AllFar

LEMMA WorkerOwnMessages ==
  ASSUME TypeOK, Stages, RunsInOrder, OwnMessages, NEW r \in Runs, WorkerStep(r)
  PROVE  OwnMessages'
  <1> USE DEF GoTo, Status
  <1>2. /\ r = runs /\ runs' = runs /\ Place = wpc[r] /\ Place' = wpc'[r]
        /\ msgs \in Seq(Message) /\ wpc \in [Runs -> WorkerPlaces]
        /\ "far" \in Phases /\ "near" \in Phases
    BY WorkerFrame
  <1>3. AllOf(msgs, r)
    BY <1>2 DEF OwnMessages
  <1>m. ASSUME NEW s \in Seq(Message), NEW t \in Status, NEW p \in Phases
        PROVE  /\ AllOf(s, r) => AllOf(Append(s, Msg(r, t, p)), r)
               /\ AllFar(s) /\ p = "far" => AllFar(Append(s, Msg(r, t, p)))
    BY MsgIsMessage, OwnAppend
  <1>e. ASSUME NEW p \in Phases, NEW s \in AfterCommand(r, p)
        PROVE  /\ s \in Seq(Message) /\ AllOf(s, r)
               /\ AllFar(msgs) /\ p = "far" => AllFar(s)
    <2>1. AfterCommand(r, p) \subseteq Seq(Message)
      BY AfterCommandType
    <2>2. /\ Msg(r, "cmd_error", p) \in Message
          /\ Msg(r, "cmd_error", p).run = r /\ Msg(r, "cmd_error", p).phase = p
      BY DEF Msg, Message
    <2> QED
      BY <1>2, <1>3, <2>1, <2>2, OwnAppend DEF AfterCommand
  <1>f. ASSUME wpc'[r] \notin InEarHalf, AllOf(msgs', r), AllFar(msgs')
        PROVE  OwnMessages'
    BY <1>2, <1>f DEF OwnMessages, InEarHalf
  <1>n. ASSUME wpc'[r] \in InEarHalf, AllOf(msgs', r), stage' = "near"
        PROVE  OwnMessages'
    BY <1>2, <1>n DEF OwnMessages
  <1>af. ASSUME wpc[r] \notin InEarHalf PROVE AllFar(msgs)
    BY <1>2, <1>af DEF OwnMessages
  <1>as. ASSUME wpc[r] \in {"in_ear", "near_query", "finish"} PROVE stage = "near"
    BY <1>2, <1>as DEF OwnMessages
  <1> USE DEF InEarHalf
  <1>4. CASE Begin(r)
    BY <1>2, <1>3, <1>4, <1>m, <1>af, <1>f DEF Begin
  <1>5. CASE OutEar(r)
    <2>1. OutEarCases(r)
      BY <1>5, OutEarPosts
    <2>2. AllOf(msgs', r) /\ AllFar(msgs')
      BY <1>2, <1>af, <1>e, <2>1 DEF OutEarCases
    <2> QED
      BY <1>2, <1>f, <2>1, <2>2 DEF OutEarCases
  <1>6. CASE FarQuery(r)
    <2>1. FarQueryCases(r)
      BY <1>6, FarQueryPosts
    <2>2. \E s \in AfterCommand(r, "far"), t \in Status : msgs' = Append(s, Msg(r, t, "far"))
      BY <2>1 DEF FarQueryCases, AfterCommand
    <2>3. wpc[r] = "far_query" /\ wpc'[r] \notin InEarHalf
      BY <1>2, <2>1 DEF FarQueryCases
    <2>4. AllOf(msgs', r) /\ AllFar(msgs')
      BY <1>2, <1>af, <1>e, <1>m, <2>2, <2>3
    <2> QED
      BY <1>f, <2>3, <2>4
  <1>7. CASE AskPrompt(r)
    BY <1>2, <1>3, <1>7, <1>m, <1>af, <1>f DEF AskPrompt
  <1>8. CASE WaitSignalled(r) \/ WaitTimedOut(r)
    BY <1>2, <1>3, <1>8, <1>m, <1>n DEF WaitSignalled, WaitTimedOut, AfterWait
  <1>9. CASE InEar(r)
    BY <1>2, <1>e, <1>as, <1>n, <1>9, InEarPosts DEF InEar
  <1>10. CASE NearQuery(r)
    <2>1. NearQueryCases(r)
      BY <1>10, NearQueryPosts
    <2>2. \E s \in AfterCommand(r, "near"), t \in Status : msgs' = Append(s, Msg(r, t, "near"))
      BY <2>1 DEF NearQueryCases, AfterCommand
    <2>3. wpc[r] = "near_query" /\ wpc'[r] \in InEarHalf /\ stage' = stage
      BY <1>2, <2>1 DEF NearQueryCases
    <2>4. AllOf(msgs', r)
      BY <1>2, <1>e, <1>m, <2>2
    <2> QED
      BY <1>as, <1>n, <2>3, <2>4
  <1>11. CASE Finish(r)
    BY <1>2, <1>3, <1>m, <1>as, <1>n, <1>11 DEF Finish
  <1> QED
    BY <1>4, <1>5, <1>6, <1>7, <1>8, <1>9, <1>10, <1>11 DEF WorkerStep

-----------------------------------------------------------------------------
(* The flags and the labels under the worker's steps                        *)

LEMMA FlagsAppend ==
  ASSUME TypeOK, NEW s \in Seq(Message), NEW x \in Message
  PROVE  /\ FarFlag(s) /\ x.st \notin {"FAR_BEGIN", "FAR_SUCCESS"} => FarFlag(Append(s, x))
         /\ NearFlag(s) /\ x.st \notin {"NEAR_BEGIN", "NEAR_SUCCESS"} => NearFlag(Append(s, x))
  <1>1. outear \in BOOLEAN /\ inear \in BOOLEAN /\ (~outear) \in BOOLEAN /\ (~inear) \in BOOLEAN
    BY DEF TypeOK
  <1>2. ASSUME FarFlag(s), x.st \notin {"FAR_BEGIN", "FAR_SUCCESS"} PROVE FarFlag(Append(s, x))
    <2>1. x \notin Of({"FAR_BEGIN", "FAR_SUCCESS"})
      BY <1>2 DEF Of
    <2> QED
      BY <1>1, <1>2, <2>1, SettlesOther DEF FarFlag
  <1>3. ASSUME NearFlag(s), x.st \notin {"NEAR_BEGIN", "NEAR_SUCCESS"}
        PROVE  NearFlag(Append(s, x))
    <2>1. x \notin Of({"NEAR_BEGIN", "NEAR_SUCCESS"})
      BY <1>3 DEF Of
    <2> QED
      BY <1>1, <1>3, <2>1, SettlesOther DEF NearFlag
  <1> QED
    BY <1>2, <1>3

LEMMA WorkerFlags ==
  ASSUME TypeOK, Stages, RunsInOrder, FlagsSettle, NEW r \in Runs, WorkerStep(r)
  PROVE  FlagsSettle'
  <1> USE DEF GoTo, Status
  <1>1. /\ r = runs /\ runs' = runs /\ Place = wpc[r] /\ Place' = wpc'[r]
        /\ msgs \in Seq(Message) /\ wpc \in [Runs -> WorkerPlaces]
        /\ farOk \in [Runs -> BOOLEAN] /\ nearOk \in [Runs -> BOOLEAN]
        /\ "far" \in Phases /\ "near" \in Phases
    BY WorkerFrame
  <1>2. /\ wpc[r] # "begin" => FarFlag(msgs)
        /\ wpc[r] \in InEarHalf => NearFlag(msgs)
        /\ outear' = outear /\ inear' = inear
    BY <1>1, WorkerIsLatest DEF FlagsSettle, guiVars
  <1>b. /\ outear \in BOOLEAN /\ inear \in BOOLEAN
        /\ (~outear) \in BOOLEAN /\ (~inear) \in BOOLEAN
    BY DEF TypeOK
  <1>m. ASSUME NEW s \in Seq(Message), NEW t \in Status, NEW p \in Phases
        PROVE  /\ FarFlag(s) /\ t \notin {"FAR_BEGIN", "FAR_SUCCESS"}
                     => FarFlag(Append(s, Msg(r, t, p)))
               /\ NearFlag(s) /\ t \notin {"NEAR_BEGIN", "NEAR_SUCCESS"}
                     => NearFlag(Append(s, Msg(r, t, p)))
    BY MsgIsMessage, FlagsAppend
  <1>e. ASSUME NEW p \in Phases, NEW s \in AfterCommand(r, p)
        PROVE  /\ s \in Seq(Message)
               /\ FarFlag(msgs) => FarFlag(s)
               /\ NearFlag(msgs) => NearFlag(s)
    <2>1. AfterCommand(r, p) \subseteq Seq(Message)
      BY AfterCommandType
    <2>2. Msg(r, "cmd_error", p) \in Message /\ Msg(r, "cmd_error", p).st = "cmd_error"
      BY DEF Msg, Message
    <2> QED
      BY <1>1, <2>1, <2>2, FlagsAppend DEF AfterCommand
  <1>s. ASSUME NEW t \in Status, NEW p \in Phases
        PROVE  /\ t = "FAR_BEGIN" => Settles(Append(msgs, Msg(r, t, p)),
                      Of({"FAR_BEGIN", "FAR_SUCCESS"}), Of({"FAR_BEGIN"}), ~outear)
               /\ t = "FAR_SUCCESS" => Settles(Append(msgs, Msg(r, t, p)),
                      Of({"FAR_BEGIN", "FAR_SUCCESS"}), Of({"FAR_SUCCESS"}), outear)
               /\ t = "NEAR_BEGIN" => Settles(Append(msgs, Msg(r, t, p)),
                      Of({"NEAR_BEGIN", "NEAR_SUCCESS"}), Of({"NEAR_BEGIN"}), ~inear)
               /\ t = "NEAR_SUCCESS" => Settles(Append(msgs, Msg(r, t, p)),
                      Of({"NEAR_BEGIN", "NEAR_SUCCESS"}), Of({"NEAR_SUCCESS"}), inear)
    <2>1. Msg(r, t, p) \in Message /\ Msg(r, t, p) \in Of({t})
      BY MsgIsMessage DEF Of
    <2> QED
      BY <1>1, <1>b, <2>1, SettlesPosted
  <1>f. ASSUME UNCHANGED farOk, FarFlag(msgs') PROVE (FarFlag(msgs))'
    BY <1>1, <1>2, <1>f DEF FarFlag
  <1>n. ASSUME UNCHANGED nearOk, NearFlag(msgs') PROVE (NearFlag(msgs))'
    BY <1>1, <1>2, <1>n DEF NearFlag
  <1>q. ASSUME (FarFlag(msgs))', wpc'[r] \in InEarHalf => (NearFlag(msgs))'
        PROVE  FlagsSettle'
    BY <1>1, <1>q DEF FlagsSettle
  <1> USE DEF InEarHalf
  <1>3. CASE Begin(r)
    <2>1. ~farOk[runs] /\ farOk' = farOk
      BY <1>1, <1>3 DEF Begin, RunsInOrder
    <2>2. Settles(msgs', Of({"FAR_BEGIN", "FAR_SUCCESS"}), Of({"FAR_BEGIN"}), ~outear)
      BY <1>1, <1>3, <1>s DEF Begin
    <2>3. FarFlag(msgs')
      BY <2>1, <2>2 DEF FarFlag
    <2> QED
      BY <1>1, <1>3, <1>f, <1>q, <2>1, <2>3 DEF Begin
  <1>4. CASE OutEar(r)
    <2>1. OutEarCases(r)
      BY <1>4, OutEarPosts
    <2>2. FarFlag(msgs')
      BY <1>1, <1>2, <1>e, <2>1 DEF OutEarCases
    <2> QED
      BY <1>1, <1>f, <1>q, <2>1, <2>2 DEF OutEarCases
  <1>5. CASE FarQuery(r)
    <2>1. FarQueryCases(r)
      BY <1>5, FarQueryPosts
    <2>2. FarFlag(msgs) /\ wpc'[r] \notin InEarHalf
      BY <1>1, <1>2, <2>1 DEF FarQueryCases
    <2>3. CASE \E s \in AfterCommand(r, "far"), t \in Status \ {"FAR_BEGIN", "FAR_SUCCESS"} :
                  msgs' = Append(s, Msg(r, t, "far")) /\ farOk' = farOk
      <3>1. FarFlag(msgs')
        BY <1>1, <1>e, <1>m, <2>2, <2>3
      <3> QED
        BY <1>f, <1>q, <2>2, <2>3, <3>1
    <2>4. CASE msgs' = Append(msgs, Msg(r, "FAR_SUCCESS", "far"))
               /\ farOk' = [farOk EXCEPT ![r] = TRUE]
      <3>1. Settles(msgs', Of({"FAR_BEGIN", "FAR_SUCCESS"}), Of({"FAR_SUCCESS"}), outear)
        BY <1>1, <1>s, <2>4
      <3>2. (FarFlag(msgs))'
        BY <1>1, <1>2, <2>4, <3>1 DEF FarFlag
      <3> QED
        BY <1>q, <2>2, <3>2
    <2> QED
      BY <2>1, <2>3, <2>4 DEF FarQueryCases, AfterCommand
  <1>6. CASE AskPrompt(r)
    BY <1>1, <1>2, <1>6, <1>m, <1>f, <1>q DEF AskPrompt
  <1>7. CASE WaitSignalled(r) \/ WaitTimedOut(r)
    <2>1. /\ wpc[r] = "wait" /\ AfterWait(r)
      BY <1>7 DEF WaitSignalled, WaitTimedOut
    <2>2. ~nearOk[runs] /\ UNCHANGED <<farOk, nearOk>>
      BY <1>1, <2>1 DEF AfterWait, RunsInOrder
    <2>3. Settles(msgs', Of({"NEAR_BEGIN", "NEAR_SUCCESS"}), Of({"NEAR_BEGIN"}), ~inear)
      BY <1>1, <1>s, <2>1 DEF AfterWait
    <2>4. NearFlag(msgs')
      BY <2>2, <2>3 DEF NearFlag
    <2>5. FarFlag(msgs')
      BY <1>1, <1>2, <1>m, <2>1 DEF AfterWait
    <2> QED
      BY <1>f, <1>n, <1>q, <2>2, <2>4, <2>5
  <1>8. CASE InEar(r)
    <2>1. FarFlag(msgs') /\ NearFlag(msgs')
      BY <1>1, <1>2, <1>e, <1>8, InEarPosts DEF InEar
    <2> QED
      BY <1>f, <1>n, <1>q, <1>8, <2>1 DEF InEar
  <1>9. CASE NearQuery(r)
    <2>1. NearQueryCases(r)
      BY <1>9, NearQueryPosts
    <2>2. FarFlag(msgs) /\ NearFlag(msgs) /\ farOk' = farOk
      BY <1>1, <1>2, <2>1 DEF NearQueryCases
    <2>3. CASE \E s \in AfterCommand(r, "near"),
                  t \in Status \ {"FAR_BEGIN", "FAR_SUCCESS", "NEAR_BEGIN", "NEAR_SUCCESS"} :
                  msgs' = Append(s, Msg(r, t, "near")) /\ nearOk' = nearOk
      <3>1. FarFlag(msgs') /\ NearFlag(msgs')
        BY <1>1, <1>e, <1>m, <2>2, <2>3
      <3> QED
        BY <1>f, <1>n, <1>q, <2>2, <2>3, <3>1
    <2>4. CASE msgs' = Append(msgs, Msg(r, "NEAR_SUCCESS", "near"))
               /\ nearOk' = [nearOk EXCEPT ![r] = TRUE]
      <3>1. Settles(msgs', Of({"NEAR_BEGIN", "NEAR_SUCCESS"}), Of({"NEAR_SUCCESS"}), inear)
        BY <1>1, <1>s, <2>4
      <3>2. (NearFlag(msgs))'
        BY <1>1, <1>2, <2>4, <3>1 DEF NearFlag
      <3>3. FarFlag(msgs')
        BY <1>1, <1>m, <2>2, <2>4
      <3> QED
        BY <1>f, <1>q, <2>2, <3>2, <3>3
    <2> QED
      BY <2>1, <2>3, <2>4 DEF NearQueryCases, AfterCommand
  <1>10. CASE Finish(r)
    BY <1>1, <1>2, <1>10, <1>m, <1>f, <1>n, <1>q DEF Finish
  <1> QED
    BY <1>3, <1>4, <1>5, <1>6, <1>7, <1>8, <1>9, <1>10 DEF WorkerStep

LEMMA LabelsAppend ==
  ASSUME TypeOK, NEW s \in Seq(Message), NEW x \in Message
  PROVE  /\ FarLabel(s) /\ x.st # "FAR_SUCCESS" /\ (farOk[runs] => x \notin FarPainters)
               => FarLabel(Append(s, x))
         /\ NearLabel(s) /\ x.st # "NEAR_SUCCESS" /\ (nearOk[runs] => x \notin NearPainters)
               => NearLabel(Append(s, x))
  <1>1. (far = "success") \in BOOLEAN /\ (near = "success") \in BOOLEAN
    OBVIOUS
  <1>2. ASSUME FarLabel(s), x.st # "FAR_SUCCESS", farOk[runs] => x \notin FarPainters
        PROVE  FarLabel(Append(s, x))
    BY <1>1, <1>2, NoneAppend, SettlesOther DEF FarLabel
  <1>3. ASSUME NearLabel(s), x.st # "NEAR_SUCCESS", nearOk[runs] => x \notin NearPainters
        PROVE  NearLabel(Append(s, x))
    BY <1>1, <1>3, NoneAppend, SettlesOther DEF NearLabel
  <1> QED
    BY <1>2, <1>3

LEMMA WorkerLabels ==
  ASSUME TypeOK, Stages, RunsInOrder, LabelsSettle, NEW r \in Runs, WorkerStep(r)
  PROVE  LabelsSettle'
  <1> USE DEF GoTo, Status
  <1>1. /\ r = runs /\ runs' = runs /\ runs \in 1..MaxRuns
        /\ msgs \in Seq(Message) /\ wpc \in [Runs -> WorkerPlaces]
        /\ farOk \in [Runs -> BOOLEAN] /\ nearOk \in [Runs -> BOOLEAN]
        /\ "far" \in Phases /\ "near" \in Phases
    BY WorkerFrame
  <1>2. /\ FarLabel(msgs) /\ NearLabel(msgs) /\ "TURN_ON_POWER" \notin timers
        /\ UNCHANGED <<timers, far, near>>
    BY <1>1, WorkerIsLatest DEF LabelsSettle, guiVars, Working
  <1>o. /\ wpc[r] \in {"begin", "out_ear", "far_query"} => ~farOk[runs]
        /\ wpc[r] # "finish" => wpc[r] = "ended" \/ ~nearOk[runs]
    BY <1>1 DEF RunsInOrder
  <1>m. ASSUME NEW s \in Seq(Message), NEW t \in Status, NEW p \in Phases
        PROVE  /\ FarLabel(s) /\ t # "FAR_SUCCESS"
                     /\ (farOk[runs] => t \notin {"FAR_DOING", "FAR_FAILED"})
                     => FarLabel(Append(s, Msg(r, t, p)))
               /\ NearLabel(s) /\ t # "NEAR_SUCCESS"
                     /\ (nearOk[runs] => t \notin {"NEAR_DOING", "NEAR_FAILED"})
                     => NearLabel(Append(s, Msg(r, t, p)))
    <2>1. /\ Msg(r, t, p) \in Message /\ Msg(r, t, p).st = t /\ t # "cmd_error"
      BY MsgIsMessage
    <2>2. /\ t \notin {"FAR_DOING", "FAR_FAILED", "FAR_SUCCESS"} => Msg(r, t, p) \notin FarPainters
          /\ t \notin {"NEAR_DOING", "NEAR_FAILED", "NEAR_SUCCESS"} => Msg(r, t, p) \notin NearPainters
      BY <2>1 DEF Of, FarPainters, NearPainters
    <2> QED
      BY <2>1, <2>2, LabelsAppend
  <1>e. ASSUME NEW p \in Phases, NEW s \in AfterCommand(r, p), ~nearOk[runs],
               farOk[runs] => p = "near"
        PROVE  s \in Seq(Message) /\ FarLabel(s) /\ NearLabel(s)
    <2>1. AfterCommand(r, p) \subseteq Seq(Message)
      BY AfterCommandType
    <2>2. /\ Msg(r, "cmd_error", p) \in Message /\ Msg(r, "cmd_error", p).st = "cmd_error"
          /\ Msg(r, "cmd_error", p).phase = p
      BY DEF Msg, Message
    <2>3. farOk[runs] => Msg(r, "cmd_error", p) \notin FarPainters
      BY <1>e, <2>2 DEF Of, FarPainters
    <2> QED
      BY <1>1, <1>2, <1>e, <2>1, <2>2, <2>3, LabelsAppend DEF AfterCommand
  <1>s. ASSUME NEW t \in Status, NEW p \in Phases
        PROVE  /\ t = "FAR_SUCCESS" => Settles(Append(msgs, Msg(r, t, p)),
                      FarPainters, Of({"FAR_SUCCESS"}), far = "success")
               /\ t = "NEAR_SUCCESS" => Settles(Append(msgs, Msg(r, t, p)),
                      NearPainters, Of({"NEAR_SUCCESS"}), near = "success")
    <2>1. Msg(r, t, p) \in Message /\ Msg(r, t, p) \in Of({t})
      BY MsgIsMessage DEF Of
    <2>2. (far = "success") \in BOOLEAN /\ (near = "success") \in BOOLEAN
      OBVIOUS
    <2> QED
      BY <1>1, <2>1, <2>2, SettlesPosted
  <1>f. ASSUME UNCHANGED farOk, FarLabel(msgs') PROVE (FarLabel(msgs))'
    BY <1>1, <1>2, <1>f DEF FarLabel
  <1>n. ASSUME UNCHANGED nearOk, NearLabel(msgs') PROVE (NearLabel(msgs))'
    BY <1>1, <1>2, <1>n DEF NearLabel
  <1>q. ASSUME (FarLabel(msgs))', (NearLabel(msgs))' PROVE LabelsSettle'
    BY <1>1, <1>2, <1>q DEF LabelsSettle
  <1>3. CASE Begin(r)
    BY <1>1, <1>2, <1>m, <1>f, <1>n, <1>q, <1>3 DEF Begin
  <1>4. CASE OutEar(r)
    <2>1. OutEarCases(r)
      BY <1>4, OutEarPosts
    <2>2. FarLabel(msgs') /\ NearLabel(msgs')
      BY <1>1, <1>o, <1>e, <2>1 DEF OutEarCases
    <2> QED
      BY <1>f, <1>n, <1>q, <2>1, <2>2 DEF OutEarCases
  <1>5. CASE FarQuery(r)
    <2>1. FarQueryCases(r)
      BY <1>5, FarQueryPosts
    <2>2. ~farOk[runs] /\ ~nearOk[runs] /\ nearOk' = nearOk
      BY <1>1, <1>o, <2>1 DEF FarQueryCases
    <2>3. CASE \E s \in AfterCommand(r, "far"), t \in {"FAR_FAILED", "FAR_DOING"} :
                  msgs' = Append(s, Msg(r, t, "far")) /\ farOk' = farOk
      <3>1. FarLabel(msgs') /\ NearLabel(msgs')
        BY <1>1, <1>e, <1>m, <2>2, <2>3
      <3> QED
        BY <1>f, <1>n, <1>q, <2>2, <2>3, <3>1
    <2>4. CASE msgs' = Append(msgs, Msg(r, "FAR_SUCCESS", "far"))
               /\ farOk' = [farOk EXCEPT ![r] = TRUE]
      <3>1. Settles(msgs', FarPainters, Of({"FAR_SUCCESS"}), far = "success")
        BY <1>1, <1>s, <2>4
      <3>2. (FarLabel(msgs))'
        BY <1>1, <1>2, <2>4, <3>1 DEF FarLabel
      <3>3. NearLabel(msgs')
        BY <1>1, <1>2, <1>m, <2>2, <2>4
      <3> QED
        BY <1>n, <1>q, <2>2, <3>2, <3>3
    <2> QED
      BY <2>1, <2>3, <2>4 DEF FarQueryCases, AfterCommand
  <1>6. CASE AskPrompt(r)
    BY <1>1, <1>2, <1>6, <1>m, <1>f, <1>n, <1>q DEF AskPrompt
  <1>7. CASE WaitSignalled(r) \/ WaitTimedOut(r)
    <2>1. FarLabel(msgs') /\ NearLabel(msgs')
      BY <1>1, <1>2, <1>m, <1>7, ZenonT(40) DEF WaitSignalled, WaitTimedOut, AfterWait
    <2> QED
      BY <1>f, <1>n, <1>q, <1>7, <2>1 DEF WaitSignalled, WaitTimedOut, AfterWait
  <1>8. CASE InEar(r)
    <2>1. FarLabel(msgs') /\ NearLabel(msgs')
      BY <1>1, <1>o, <1>e, <1>8, InEarPosts DEF InEar
    <2> QED
      BY <1>f, <1>n, <1>q, <1>8, <2>1 DEF InEar
  <1>9. CASE NearQuery(r)
    <2>1. NearQueryCases(r)
      BY <1>9, NearQueryPosts
    <2>2. ~nearOk[runs] /\ farOk' = farOk
      BY <1>1, <1>o, <2>1 DEF NearQueryCases
    <2>3. CASE \E s \in AfterCommand(r, "near"), t \in {"NEAR_FAILED", "NEAR_DOING"} :
                  msgs' = Append(s, Msg(r, t, "near")) /\ nearOk' = nearOk
      <3>1. FarLabel(msgs') /\ NearLabel(msgs')
        BY <1>1, <1>e, <1>m, <2>2, <2>3
      <3> QED
        BY <1>f, <1>n, <1>q, <2>2, <2>3, <3>1
    <2>4. CASE msgs' = Append(msgs, Msg(r, "NEAR_SUCCESS", "near"))
               /\ nearOk' = [nearOk EXCEPT ![r] = TRUE]
      <3>1. Settles(msgs', NearPainters, Of({"NEAR_SUCCESS"}), near = "success")
        BY <1>1, <1>s, <2>4
      <3>2. (NearLabel(msgs))'
        BY <1>1, <1>2, <2>4, <3>1 DEF NearLabel
      <3>3. FarLabel(msgs')
        BY <1>1, <1>2, <1>m, <2>2, <2>4
      <3> QED
        BY <1>f, <1>q, <2>2, <3>2, <3>3
    <2> QED
      BY <2>1, <2>3, <2>4 DEF NearQueryCases, AfterCommand
  <1>10. CASE Finish(r)
    BY <1>1, <1>2, <1>10, <1>m, <1>f, <1>n, <1>q DEF Finish
  <1> QED
    BY <1>3, <1>4, <1>5, <1>6, <1>7, <1>8, <1>9, <1>10 DEF WorkerStep

-----------------------------------------------------------------------------
(* The prompt, the timers and the verdicts under the worker's steps         *)

LEMMA WorkerPrompt ==
  ASSUME TypeOK, Stages, RunsInOrder, OwnPrompt, PromptHonoured, NEW r \in Runs, WorkerStep(r)
  PROVE  OwnPrompt' /\ PromptHonoured'
  <1> USE DEF GoTo, Status
  <1>1. /\ r = runs /\ runs' = runs /\ Place = wpc[r] /\ Place' = wpc'[r]
        /\ msgs \in Seq(Message) /\ wpc \in [Runs -> WorkerPlaces]
        /\ "far" \in Phases /\ "near" \in Phases
    BY WorkerFrame
  <1>2. UNCHANGED <<boxes, dismissed>> /\ event \in BOOLEAN
    BY WorkerIsLatest DEF TypeOK
  <1>x. expired' = {} => expired = {}
    BY DEF WorkerStep, Begin, OutEar, FarQuery, AskPrompt, WaitSignalled, WaitTimedOut,
       InEar, NearQuery, Finish, waitHist
  <1> SUFFICES ASSUME expired = {}, expired' = {} PROVE OwnPrompt' /\ PromptHonoured'
    BY <1>x DEF OwnPrompt, PromptHonoured
  <1>m. ASSUME NEW s \in Seq(Message), None(s, {"WAIT_PROMPT"}),
               NEW t \in Status \ {"WAIT_PROMPT"}, NEW p \in Phases
        PROVE  None(Append(s, Msg(r, t, p)), {"WAIT_PROMPT"})
    BY <1>m, MsgIsMessage, NoneAppend
  <1>e. ASSUME None(msgs, {"WAIT_PROMPT"}), NEW p \in Phases, NEW s \in AfterCommand(r, p)
        PROVE  s \in Seq(Message) /\ None(s, {"WAIT_PROMPT"})
    <2>1. AfterCommand(r, p) \subseteq Seq(Message)
      BY AfterCommandType
    <2>2. Msg(r, "cmd_error", p) \in Message /\ Msg(r, "cmd_error", p).st = "cmd_error"
      BY DEF Msg, Message
    <2> QED
      BY <1>1, <1>e, <2>1, <2>2, NoneAppend DEF AfterCommand
  <1>p. wpc[r] # "wait" => boxes = <<>> /\ ~event /\ None(msgs, {"WAIT_PROMPT"})
    BY <1>1 DEF OwnPrompt
  <1>q. ASSUME wpc[r] # "wait", UNCHANGED <<event, waitHist>>, wpc'[r] # "wait",
               None(msgs', {"WAIT_PROMPT"})
        PROVE  OwnPrompt' /\ PromptHonoured'
    BY <1>1, <1>2, <1>p, <1>q DEF OwnPrompt, PromptHonoured, waitHist
  <1>3. CASE Begin(r)
    BY <1>1, <1>3, <1>m, <1>p, <1>q DEF Begin
  <1>4. CASE OutEar(r)
    <2>1. OutEarCases(r) /\ UNCHANGED <<event, waitHist>>
      BY <1>4, OutEarPosts DEF OutEar
    <2>2. None(msgs', {"WAIT_PROMPT"})
      BY <1>1, <1>p, <1>e, <2>1 DEF OutEarCases
    <2> QED
      BY <1>1, <1>q, <2>1, <2>2 DEF OutEarCases
  <1>5. CASE FarQuery(r)
    <2>1. FarQueryCases(r) /\ UNCHANGED <<event, waitHist>>
      BY <1>5, FarQueryPosts DEF FarQuery
    <2>2. \E s \in AfterCommand(r, "far"), t \in Status \ {"WAIT_PROMPT"} :
             msgs' = Append(s, Msg(r, t, "far"))
      BY <2>1 DEF FarQueryCases, AfterCommand
    <2>3. wpc[r] = "far_query" /\ wpc'[r] # "wait"
      BY <1>1, <2>1 DEF FarQueryCases
    <2>4. None(msgs', {"WAIT_PROMPT"})
      BY <1>1, <1>p, <1>e, <1>m, <2>2, <2>3
    <2> QED
      BY <1>q, <2>1, <2>3, <2>4
  <1>6. CASE AskPrompt(r)
    <2>1. /\ boxes = <<>> /\ ~event /\ None(msgs, {"WAIT_PROMPT"}) /\ wpc'[r] = "wait"
      BY <1>1, <1>p, <1>6 DEF AskPrompt
    <2>2. OnlyLast(msgs', "WAIT_PROMPT")
      <3>1. /\ Msg(r, "WAIT_PROMPT", "far") \in Message
            /\ Msg(r, "WAIT_PROMPT", "far").st = "WAIT_PROMPT"
        BY <1>1, MsgIsMessage
      <3>2. OnlyLast(Append(msgs, Msg(r, "WAIT_PROMPT", "far")), "WAIT_PROMPT")
        BY <1>1, <2>1, <3>1, OnlyLastAppend
      <3> QED
        BY <1>6, <3>2 DEF AskPrompt
    <2> QED
      BY <1>1, <1>2, <1>6, <2>1, <2>2 DEF AskPrompt, OwnPrompt, PromptHonoured, waitHist
  <1>7. CASE WaitSignalled(r)
    <2>1. /\ wpc[r] = "wait" /\ event /\ wpc'[r] # "wait" /\ ~event'
          /\ msgs' = Append(msgs, Msg(r, "NEAR_BEGIN", "near"))
          /\ signalled' = signalled \cup {r}
      BY <1>1, <1>7 DEF WaitSignalled, AfterWait, WaitOver
    <2>2. boxes = <<>> /\ r \in dismissed /\ None(msgs, {"WAIT_PROMPT"})
      BY <1>1, <2>1 DEF OwnPrompt
    <2>3. None(msgs', {"WAIT_PROMPT"})
      BY <1>1, <1>m, <2>1, <2>2
    <2> QED
      BY <1>1, <1>2, <2>1, <2>2, <2>3 DEF OwnPrompt, PromptHonoured
  <1>8. CASE WaitTimedOut(r)
    BY <1>8 DEF WaitTimedOut
  <1>9. CASE InEar(r)
    <2>1. None(msgs', {"WAIT_PROMPT"})
      BY <1>1, <1>p, <1>e, <1>9, InEarPosts DEF InEar
    <2> QED
      BY <1>1, <1>q, <1>9, <2>1 DEF InEar
  <1>10. CASE NearQuery(r)
    <2>1. NearQueryCases(r) /\ UNCHANGED <<event, waitHist>>
      BY <1>10, NearQueryPosts DEF NearQuery
    <2>2. \E s \in AfterCommand(r, "near"), t \in Status \ {"WAIT_PROMPT"} :
             msgs' = Append(s, Msg(r, t, "near"))
      BY <2>1 DEF NearQueryCases, AfterCommand
    <2>3. wpc[r] = "near_query" /\ wpc'[r] # "wait"
      BY <1>1, <2>1 DEF NearQueryCases
    <2>4. None(msgs', {"WAIT_PROMPT"})
      BY <1>1, <1>p, <1>e, <1>m, <2>2, <2>3
    <2> QED
      BY <1>q, <2>1, <2>3, <2>4
  <1>11. CASE Finish(r)
    BY <1>1, <1>11, <1>m, <1>p, <1>q DEF Finish
  <1> QED
    BY <1>3, <1>4, <1>5, <1>6, <1>7, <1>8, <1>9, <1>10, <1>11 DEF WorkerStep

LEMMA WorkerVerdicts ==
  ASSUME TypeOK, Stages, RunsInOrder, TimerArmed, VerdictsTrue, NEW r \in Runs, WorkerStep(r)
  PROVE  TimerArmed' /\ VerdictsTrue'
  <1>1. /\ r = runs /\ farOk \in [Runs -> BOOLEAN] /\ nearOk \in [Runs -> BOOLEAN]
        /\ runs \in 1..MaxRuns
    BY WorkerFrame
  <1>2. Working /\ UNCHANGED <<guiVars, counted>>
    BY WorkerIsLatest
  <1>3. counted = 1..(runs - 1) /\ r \notin counted
    BY <1>1, <1>2 DEF Working
  <1>4. /\ farOk' \in {farOk, [farOk EXCEPT ![r] = TRUE]}
        /\ nearOk' \in {nearOk, [nearOk EXCEPT ![r] = TRUE]}
    BY FarQueryPosts, NearQueryPosts, OutEarPosts DEF WorkerStep, Begin, AskPrompt, WaitSignalled,
       WaitTimedOut, AfterWait, InEar, Finish, FarQueryCases, NearQueryCases, OutEarCases
  <1>5. {c \in counted : farOk[c] /\ nearOk[c]} = {c \in counted : farOk'[c] /\ nearOk'[c]}
    <2>1. ASSUME NEW c \in counted PROVE farOk'[c] = farOk[c] /\ nearOk'[c] = nearOk[c]
      BY <1>1, <1>3, <1>4 DEF TypeOK
    <2> QED
      BY <2>1
  <1> QED
    BY <1>2, <1>5 DEF TimerArmed, VerdictsTrue, guiVars

-----------------------------------------------------------------------------
(* The steps of the GUI thread that handle no message                       *)

Rest == /\ Stages /\ RunsInOrder /\ OwnMessages /\ FlagsSettle /\ LabelsSettle
        /\ OwnPrompt /\ TimerArmed /\ VerdictsTrue /\ PromptHonoured

\* With a run in progress nothing starts another one.
LEMMA StartRunRest ==
  ASSUME TypeOK, Rest, NEW on \in BOOLEAN, NEW ts, StartRun(on, ts),
         "TURN_ON_POWER" \in ts <=> "TURN_ON_POWER" \in timers,
         "RACECMD_AUTOTEST" \in ts => on
  PROVE  Rest'
  <1> USE DEF workerVars, waitHist
  <1>1. /\ autotest' = on /\ UNCHANGED <<outear, inear, ok, ng, workerVars, waitHist, msgs, boxes,
                                         event, runs, counted, dismissed>>
    BY DEF StartRun
  <1>2. Place' = Place /\ (AllOf(msgs, runs) <=> (AllOf(msgs, runs))')
    BY <1>1 DEF Place
  <1>3. RunsInOrder' /\ OwnMessages' /\ OwnPrompt' /\ VerdictsTrue' /\ PromptHonoured'
    BY <1>1, <1>2 DEF Rest, RunsInOrder, OwnMessages, OwnPrompt, VerdictsTrue, PromptHonoured
  <1>4. CASE running
    <2>1. UNCHANGED <<running, button, far, near>> /\ timers' = ts
      BY <1>4 DEF StartRun, MayStart
    <2>2. Stages'
      BY <1>1, <1>2, <1>4, <2>1 DEF Rest, Stages, AtRest, Powering, Working, Closing
    <2>3. Working' \/ Closing' => Working \/ Closing
      BY <1>1, <1>2, <1>4, <2>1 DEF Working, Closing
    <2>4. FlagsSettle'
      BY <1>1, <1>2, <2>3 DEF Rest, FlagsSettle, FarFlag, NearFlag
    <2>5. LabelsSettle'
      BY <1>1, <2>1 DEF Rest, LabelsSettle, FarLabel, NearLabel
    <2>6. TimerArmed'
      BY <1>1, <1>4, <2>1 DEF TimerArmed
    <2> QED
      BY <1>3, <2>2, <2>4, <2>5, <2>6 DEF Rest
  <1>5. CASE ~running
    <2>1. AtRest
      BY <1>5 DEF Rest, Stages, Powering, Working, Closing
    <2>2. /\ running' /\ ~button' /\ timers' = ts \cup {"TURN_ON_POWER"}
          /\ far' = "initial" /\ near' = "initial"
      BY <1>5, <2>1 DEF StartRun, MayStart, FlagSet, AtRest
    <2>3. Powering'
      BY <1>1, <1>2, <2>1, <2>2 DEF AtRest, Powering
    <2>4. FlagsSettle'
      BY <2>2 DEF FlagsSettle, Working, Closing
    <2>5. LabelsSettle' /\ TimerArmed'
      BY <1>1, <2>2 DEF LabelsSettle, TimerArmed
    <2> QED
      BY <1>3, <2>3, <2>4, <2>5 DEF Rest, Stages
  <1> QED
    BY <1>4, <1>5

\* Setting and killing the autotest timer, and the prompts, disturb no run.
LEMMA FrameRest ==
  ASSUME TypeOK, Rest,
         UNCHANGED <<running, button, outear, inear, far, near, ok, ng, workerVars,
                     waitHist, msgs, runs, counted>>,
         "TURN_ON_POWER" \in timers' <=> "TURN_ON_POWER" \in timers,
         TimerArmed', OwnPrompt', PromptHonoured'
  PROVE  Rest'
  <1> USE DEF workerVars
  <1>1. Place' = Place
    BY DEF Place
  <1>2. Stages' /\ (Working' \/ Closing' => Working \/ Closing)
    BY <1>1 DEF Rest, Stages, AtRest, Powering, Working, Closing
  <1>3. RunsInOrder' /\ OwnMessages' /\ VerdictsTrue'
    BY <1>1 DEF Rest, RunsInOrder, OwnMessages, VerdictsTrue
  <1>4. FlagsSettle'
    BY <1>1, <1>2 DEF Rest, FlagsSettle, FarFlag, NearFlag
  <1>5. LabelsSettle'
    BY DEF Rest, LabelsSettle, FarLabel, NearLabel
  <1> QED
    BY <1>2, <1>3, <1>4, <1>5 DEF Rest

\* The worker thread starts.
LEMMA TurnOnRest ==
  ASSUME TypeOK, Rest, TurnOnTimer
  PROVE  Rest'
  <1>1. /\ runs \in 0..MaxRuns /\ runs < MaxRuns /\ runs + 1 \in Runs /\ runs' = runs + 1
        /\ wpc \in [Runs -> WorkerPlaces] /\ wpc' = [wpc EXCEPT ![runs + 1] = "begin"]
        /\ timers' = timers \ {"TURN_ON_POWER"} /\ "TURN_ON_POWER" \in timers
    BY DEF TurnOnTimer, TypeOK, Runs
  <1>2. Powering /\ msgs = <<>>
    BY <1>1 DEF Rest, Stages, AtRest, Powering, Working, Closing
  <1>3. Place \in {"none", "ended"} /\ Place' = "begin"
    BY <1>1, <1>2 DEF Powering, Place, Runs
  <1>4. UNCHANGED <<running, button, autotest, outear, inear, far, near, ok, ng, stage, farOk,
                    nearOk, waitHist, msgs, boxes, event, counted, dismissed>>
    BY DEF TurnOnTimer
  <1>5. Stages'
    <2>1. counted = 1..runs /\ running /\ ~button
      BY <1>2 DEF Powering
    <2>2. (runs + 1) - 1 = runs
      BY <1>1
    <2>3. Working'
      BY <1>1, <1>2, <1>3, <1>4, <2>1, <2>2 DEF Working, None
    <2> QED
      BY <2>3 DEF Stages
  <1>6. RunsInOrder'
    <2>1. RunsInOrder
      BY DEF Rest
    <2>2. runs > 0 => wpc[runs] = "ended"
      BY <1>2 DEF Powering
    <2>3. ASSUME NEW r \in Runs, r < runs + 1 PROVE wpc'[r] = "ended"
      <3>1. r \in 1..MaxRuns
        BY DEF Runs
      <3>2. CASE r < runs
        BY <1>1, <2>1, <3>2 DEF RunsInOrder
      <3>3. CASE r = runs
        BY <1>1, <2>2, <3>1, <3>3
      <3> QED
        BY <1>1, <2>3, <3>1, <3>2, <3>3
    <2> QED
      BY <1>1, <1>4, <2>1, <2>3 DEF RunsInOrder, Runs
  <1>7. OwnMessages'
    BY <1>2, <1>3, <1>4 DEF OwnMessages, AllOf, AllFar
  <1>8. FlagsSettle'
    BY <1>3 DEF FlagsSettle, InEarHalf
  <1>9. LabelsSettle'
    <2>1. far # "success" /\ near # "success"
      BY <1>1 DEF Rest, LabelsSettle
    <2>2. ~farOk[runs + 1] /\ ~nearOk[runs + 1]
      BY <1>1 DEF Rest, RunsInOrder, Runs
    <2> QED
      BY <1>1, <1>2, <1>4, <2>1, <2>2 DEF LabelsSettle, FarLabel, NearLabel, None
  <1>10. OwnPrompt'
    BY <1>3, <1>4 DEF Rest, OwnPrompt, waitHist
  <1> QED
    BY <1>1, <1>4, <1>5, <1>6, <1>7, <1>8, <1>9, <1>10
    DEF Rest, TimerArmed, VerdictsTrue, PromptHonoured, waitHist

\* A prompt is closed, by the operator or by the timer, or returns.
LEMMA PromptsRest ==
  ASSUME TypeOK, Rest, OperatorCloses \/ AutoCloseTimer \/ PromptReturns
  PROVE  Rest'
  <1> USE DEF guiVars
  <1>1. /\ UNCHANGED <<running, button, autotest, outear, inear, far, near, ok, ng, workerVars,
                       waitHist, msgs, runs, counted>>
        /\ "TURN_ON_POWER" \in timers' <=> "TURN_ON_POWER" \in timers
        /\ "RACECMD_AUTOTEST" \in timers' <=> "RACECMD_AUTOTEST" \in timers
    BY DEF OperatorCloses, AutoCloseTimer, PromptReturns
  <1>2. Place' = Place /\ TimerArmed'
    BY <1>1 DEF Place, workerVars, Rest, TimerArmed
  <1>3. boxes \in Seq(Box)
    BY DEF TypeOK, Box
  <1>4. CASE OperatorCloses \/ AutoCloseTimer
    <2>1. UNCHANGED <<event, dismissed>>
      BY <1>4 DEF OperatorCloses, AutoCloseTimer
    <2>2. \/ boxes' = boxes
          \/ \E b \in DOMAIN boxes : boxes' = [boxes EXCEPT ![b].open = FALSE]
      BY <1>4 DEF OperatorCloses, AutoCloseTimer
    <2>3. Len(boxes') = Len(boxes) /\ \A k \in 1..Len(boxes) : boxes'[k].run = boxes[k].run
      <3>1. CASE boxes' = boxes
        BY <3>1
      <3>2. ASSUME NEW b \in DOMAIN boxes, boxes' = [boxes EXCEPT ![b].open = FALSE]
            PROVE  Len(boxes') = Len(boxes) /\ \A k \in 1..Len(boxes) : boxes'[k].run = boxes[k].run
        <4>1. /\ Len([boxes EXCEPT ![b].open = FALSE]) = Len(boxes)
              /\ \A k \in 1..Len(boxes) :
                    [boxes EXCEPT ![b].open = FALSE][k].run = boxes[k].run
          BY <1>3, BoxClosed
        <4> QED
          BY <3>2, <4>1, Zenon
      <3> QED
        BY <2>2, <3>1, <3>2
    <2>4. boxes = <<>> => boxes' = <<>>
      BY <2>2
    <2>5. OwnPrompt' /\ PromptHonoured'
      BY <1>1, <1>2, <2>1, <2>3, <2>4 DEF Rest, OwnPrompt, PromptHonoured, waitHist
    <2> QED
      BY <1>1, <1>2, <2>5, FrameRest
  <1>5. CASE PromptReturns
    <2>1. /\ boxes # <<>> /\ event' = TRUE
          /\ dismissed' = dismissed \cup {boxes[Len(boxes)].run}
          /\ boxes' = SubSeq(boxes, 1, Len(boxes) - 1)
      BY <1>5 DEF PromptReturns
    <2>2. ASSUME expired = {} PROVE OwnPrompt'
      <3>1. /\ Place = "wait" /\ Len(boxes) = 1 /\ boxes[1].run = runs
            /\ None(msgs, {"WAIT_PROMPT"})
        BY <2>1, <2>2 DEF Rest, OwnPrompt
      <3>2. boxes' = <<>> /\ runs \in dismissed'
        BY <2>1, <3>1, SubSeqEmpty
      <3> QED
        BY <1>1, <1>2, <2>1, <3>1, <3>2 DEF OwnPrompt
    <2>3. OwnPrompt' /\ PromptHonoured'
      BY <1>1, <2>1, <2>2 DEF Rest, OwnPrompt, PromptHonoured, waitHist
    <2> QED
      BY <1>1, <1>2, <2>3, FrameRest
  <1> QED
    BY <1>4, <1>5

LEMMA StartsRest ==
  ASSUME TypeOK, Rest, ClickButton \/ ToggleAutotest \/ AutotestTimer
  PROVE  Rest'
  <1>1. TimerArmed /\ autotest \in BOOLEAN
    BY DEF Rest, TypeOK
  <1>2. CASE ClickButton
    BY <1>1, <1>2, StartRunRest DEF ClickButton, TimerArmed
  <1>3. CASE ToggleAutotest
    <2>1. CASE ~autotest /\ StartRun(~autotest, timers)
      BY <1>1, <2>1, StartRunRest
    <2>2. CASE /\ running \/ autotest
               /\ autotest' = ~autotest
               /\ timers' = TimersAfterToggle(~autotest)
               /\ UNCHANGED <<running, button, outear, inear, far, near, ok, ng, workerVars,
                              waitHist, msgs, boxes, event, runs, counted, dismissed>>
      <3>1. TimerArmed' /\ ("TURN_ON_POWER" \in timers' <=> "TURN_ON_POWER" \in timers)
        BY <1>1, <2>2 DEF TimerArmed, TimersAfterToggle
      <3>2. Place' = Place
        BY <2>2 DEF Place, workerVars
      <3>3. OwnPrompt' /\ PromptHonoured'
        BY <2>2, <3>2 DEF Rest, OwnPrompt, PromptHonoured, waitHist
      <3> QED
        BY <2>2, <3>1, <3>3, FrameRest
    <2> QED
      BY <1>3, <2>1, <2>2 DEF ToggleAutotest
  <1>4. CASE AutotestTimer
    <2>1. autotest /\ StartRun(autotest, timers \ {"RACECMD_AUTOTEST"})
      BY <1>1, <1>4 DEF AutotestTimer, TimerArmed
    <2> QED
      BY <1>1, <2>1, StartRunRest
  <1> QED
    BY <1>2, <1>3, <1>4

-----------------------------------------------------------------------------
(* A posted message is handled                                              *)

\* What a handler does to the flags and the labels.
LEMMA HandlersPaint ==
  ASSUME TypeOK, OwnMessages, Dispatch, NEW m, m = Head(msgs)
  PROVE  /\ m.st = "FAR_BEGIN" => ~outear'
         /\ m.st = "FAR_SUCCESS" => outear' /\ far' = "success"
         /\ m.st \notin {"FAR_BEGIN", "FAR_SUCCESS"} => outear' = outear
         /\ m.st = "NEAR_BEGIN" => ~inear'
         /\ m.st = "NEAR_SUCCESS" => inear' /\ near' = "success"
         /\ m.st \notin {"NEAR_BEGIN", "NEAR_SUCCESS"} => inear' = inear
         /\ m.st # "FAR_SUCCESS" /\ far' = "success" => far = "success"
         /\ m.st # "NEAR_SUCCESS" /\ near' = "success" => near = "success"
         /\ m \notin FarPainters => far' = far
         /\ m \notin NearPainters => near' = near
  <1>0. msgs \in Seq(Message) /\ msgs # <<>>
    BY DEF TypeOK, Dispatch
  <1>1. /\ m \in Message /\ m = msgs[1] /\ 1 \in DOMAIN msgs
        /\ HandleProgress(m) \/ HandlePrompt(m) \/ HandleDone(m) \/ HandleCmdError(m)
    BY <1>0, TailElements DEF Dispatch
  <1>2. m.phase \in {"far", "near"} /\ m.st \in Status \cup {"cmd_error"}
    BY <1>1 DEF Message, Phases
  <1>3. m.phase # "far" => stage = "near"
    BY <1>1 DEF OwnMessages, AllFar
  <1>4. /\ m \notin FarPainters => /\ m.st \notin {"FAR_DOING", "FAR_FAILED", "FAR_SUCCESS"}
                                   /\ m.st = "cmd_error" => stage = "near"
        /\ m \notin NearPainters =>
              m.st \notin {"NEAR_DOING", "NEAR_FAILED", "NEAR_SUCCESS", "cmd_error"}
    BY <1>1, <1>2, <1>3 DEF FarPainters, NearPainters, Of
  <1>5. CASE HandleProgress(m)
    BY <1>2, <1>4, <1>5 DEF HandleProgress, NearFlagCleared
  <1>6. CASE HandlePrompt(m)
    BY <1>6 DEF HandlePrompt
  <1>7. CASE HandleDone(m)
    BY <1>7 DEF HandleDone
  <1>8. CASE HandleCmdError(m)
    BY <1>4, <1>8 DEF HandleCmdError, PaintsLabel
  <1> QED
    BY <1>1, <1>5, <1>6, <1>7, <1>8

LEMMA DispatchRest ==
  ASSUME TypeOK, Rest, Dispatch
  PROVE  Rest'
  <1> DEFINE m == Head(msgs)
             t == Tail(msgs)
  <1>0. /\ msgs \in Seq(Message) /\ msgs # <<>> /\ msgs' = t
        /\ UNCHANGED <<workerVars, waitHist, event, runs, dismissed, autotest, Place>>
        /\ HandleProgress(m) \/ HandlePrompt(m) \/ HandleDone(m) \/ HandleCmdError(m)
    BY DEF TypeOK, Dispatch, workerVars, Place, HandleProgress, HandlePrompt, HandleDone,
       HandleCmdError
  <1>1. /\ m \in Message /\ t \in Seq(Message) /\ m = msgs[1]
        /\ DOMAIN msgs = 1..Len(msgs) /\ 1 \in DOMAIN msgs
        /\ DOMAIN t = 1..(Len(msgs) - 1) /\ Len(msgs) \in Nat
        /\ \A k \in 1..(Len(msgs) - 1) : t[k] = msgs[k + 1]
    BY <1>0, TailElements
  <1>2. /\ Working \/ Closing
        /\ runs \in 0..MaxRuns
        /\ running /\ ~button /\ "TURN_ON_POWER" \notin timers
    BY <1>0 DEF Rest, Stages, AtRest, Powering, Working, Closing, TypeOK
  <1>r. runs > 0 /\ m.run = runs
    BY <1>0, <1>1, <1>2 DEF Working, Closing, Place, Rest, OwnMessages, AllOf
  <1>b. /\ outear \in BOOLEAN /\ inear \in BOOLEAN /\ (~outear) \in BOOLEAN /\ (~inear) \in BOOLEAN
        /\ (far = "success") \in BOOLEAN /\ (near = "success") \in BOOLEAN
        /\ (far' = "success") \in BOOLEAN /\ (near' = "success") \in BOOLEAN
    BY DEF TypeOK
  <1>c. /\ outear' \in BOOLEAN /\ inear' \in BOOLEAN
        /\ (~outear') \in BOOLEAN /\ (~inear') \in BOOLEAN
    BY <1>0, <1>b DEF HandleProgress, HandlePrompt, HandleDone, HandleCmdError, NearFlagCleared
  <1>p. /\ m.st = "FAR_BEGIN" => ~outear'
        /\ m.st = "FAR_SUCCESS" => outear' /\ far' = "success"
        /\ m.st \notin {"FAR_BEGIN", "FAR_SUCCESS"} => outear' = outear
        /\ m.st = "NEAR_BEGIN" => ~inear'
        /\ m.st = "NEAR_SUCCESS" => inear' /\ near' = "success"
        /\ m.st \notin {"NEAR_BEGIN", "NEAR_SUCCESS"} => inear' = inear
        /\ m.st # "FAR_SUCCESS" /\ far' = "success" => far = "success"
        /\ m.st # "NEAR_SUCCESS" /\ near' = "success" => near = "success"
        /\ m \notin FarPainters => far' = far
        /\ m \notin NearPainters => near' = near
    BY HandlersPaint DEF Rest
  <1>n. ASSUME NEW S PROVE None(msgs, S) <=> None(t, S) /\ m.st \notin S
    BY <1>0, NoneTail
  <1>3. RunsInOrder'
    BY <1>0 DEF Rest, RunsInOrder, workerVars
  <1>4. OwnMessages'
    <2>1. AllOf(t, runs) /\ (AllFar(msgs) => AllFar(t))
      BY <1>1 DEF Rest, OwnMessages, AllOf, AllFar
    <2> QED
      BY <1>0, <2>1 DEF Rest, OwnMessages, workerVars
  <1>5. /\ Place # "begin" => (FarFlag(msgs))'
        /\ Place \in InEarHalf => (NearFlag(msgs))'
    <2>o. /\ m \in Of({"FAR_SUCCESS"}) => m.st = "FAR_SUCCESS"
          /\ m \in Of({"FAR_BEGIN"}) => m.st = "FAR_BEGIN"
          /\ m \notin Of({"FAR_BEGIN", "FAR_SUCCESS"}) => m.st \notin {"FAR_BEGIN", "FAR_SUCCESS"}
          /\ m \in Of({"NEAR_SUCCESS"}) => m.st = "NEAR_SUCCESS"
          /\ m \in Of({"NEAR_BEGIN"}) => m.st = "NEAR_BEGIN"
          /\ m \notin Of({"NEAR_BEGIN", "NEAR_SUCCESS"})
                => m.st \notin {"NEAR_BEGIN", "NEAR_SUCCESS"}
      BY <1>1 DEF Of
    <2> HIDE DEF m, t
    <2>1. ASSUME Place # "begin" PROVE (FarFlag(msgs))'
      <3>1. FarFlag(msgs)
        BY <1>2, <2>1 DEF Rest, FlagsSettle
      <3>2. CASE farOk[runs]
        <4>1. Settles(msgs, Of({"FAR_BEGIN", "FAR_SUCCESS"}), Of({"FAR_SUCCESS"}), outear)
          BY <3>1, <3>2 DEF FarFlag
        <4>2. /\ m \in Of({"FAR_SUCCESS"}) => outear'
              /\ m \notin Of({"FAR_BEGIN", "FAR_SUCCESS"}) /\ outear => outear'
          BY <1>p, <2>o
        <4>3. Settles(t, Of({"FAR_BEGIN", "FAR_SUCCESS"}), Of({"FAR_SUCCESS"}), outear')
          BY <1>0, <1>b, <1>c, <4>1, <4>2, SettlesTail DEF m, t
        <4> QED
          BY <1>0, <3>2, <4>3 DEF FarFlag, workerVars
      <3>3. CASE ~farOk[runs]
        <4>1. Settles(msgs, Of({"FAR_BEGIN", "FAR_SUCCESS"}), Of({"FAR_BEGIN"}), ~outear)
          BY <3>1, <3>3 DEF FarFlag
        <4>2. /\ m \in Of({"FAR_BEGIN"}) => ~outear'
              /\ m \notin Of({"FAR_BEGIN", "FAR_SUCCESS"}) /\ ~outear => ~outear'
          BY <1>p, <2>o
        <4>3. Settles(t, Of({"FAR_BEGIN", "FAR_SUCCESS"}), Of({"FAR_BEGIN"}), ~outear')
          BY <1>0, <1>b, <1>c, <4>1, <4>2, SettlesTail DEF m, t
        <4> QED
          BY <1>0, <3>3, <4>3 DEF FarFlag, workerVars
      <3> QED
        BY <3>2, <3>3
    <2>2. ASSUME Place \in InEarHalf PROVE (NearFlag(msgs))'
      <3>1. NearFlag(msgs)
        BY <1>2, <2>2 DEF Rest, FlagsSettle
      <3>2. CASE nearOk[runs]
        <4>1. Settles(msgs, Of({"NEAR_BEGIN", "NEAR_SUCCESS"}), Of({"NEAR_SUCCESS"}), inear)
          BY <3>1, <3>2 DEF NearFlag
        <4>2. /\ m \in Of({"NEAR_SUCCESS"}) => inear'
              /\ m \notin Of({"NEAR_BEGIN", "NEAR_SUCCESS"}) /\ inear => inear'
          BY <1>p, <2>o
        <4>3. Settles(t, Of({"NEAR_BEGIN", "NEAR_SUCCESS"}), Of({"NEAR_SUCCESS"}), inear')
          BY <1>0, <1>b, <1>c, <4>1, <4>2, SettlesTail DEF m, t
        <4> QED
          BY <1>0, <3>2, <4>3 DEF NearFlag, workerVars
      <3>3. CASE ~nearOk[runs]
        <4>1. Settles(msgs, Of({"NEAR_BEGIN", "NEAR_SUCCESS"}), Of({"NEAR_BEGIN"}), ~inear)
          BY <3>1, <3>3 DEF NearFlag
        <4>2. /\ m \in Of({"NEAR_BEGIN"}) => ~inear'
              /\ m \notin Of({"NEAR_BEGIN", "NEAR_SUCCESS"}) /\ ~inear => ~inear'
          BY <1>p, <2>o
        <4>3. Settles(t, Of({"NEAR_BEGIN", "NEAR_SUCCESS"}), Of({"NEAR_BEGIN"}), ~inear')
          BY <1>0, <1>b, <1>c, <4>1, <4>2, SettlesTail DEF m, t
        <4> QED
          BY <1>0, <3>3, <4>3 DEF NearFlag, workerVars
      <3> QED
        BY <3>2, <3>3
    <2> QED
      BY <2>1, <2>2
  <1>6. FlagsSettle'
    BY <1>0, <1>5 DEF FlagsSettle
  <1>7. LabelsSettle'
    <2>1. FarLabel(msgs) /\ NearLabel(msgs)
      BY <1>2, <1>r DEF Rest, LabelsSettle
    <2>2. /\ m \in Of({"FAR_SUCCESS"}) => m.st = "FAR_SUCCESS"
          /\ m \in Of({"NEAR_SUCCESS"}) => m.st = "NEAR_SUCCESS"
      BY DEF Of
    <2>3. (FarLabel(msgs))'
      <3>1. farOk[runs] => Settles(t, FarPainters, Of({"FAR_SUCCESS"}), far' = "success")
        BY <1>0, <1>b, <1>p, <2>1, <2>2, SettlesTail DEF FarLabel
      <3>2. far' = "success" \/ ~None(t, {"FAR_SUCCESS"}) => farOk[runs]
        BY <1>n, <1>p, <2>1 DEF FarLabel
      <3> HIDE DEF t
      <3> QED
        BY <1>0, <3>1, <3>2 DEF FarLabel, workerVars
    <2>4. (NearLabel(msgs))'
      <3>1. nearOk[runs] => Settles(t, NearPainters, Of({"NEAR_SUCCESS"}), near' = "success")
        BY <1>0, <1>b, <1>p, <2>1, <2>2, SettlesTail DEF NearLabel
      <3>2. near' = "success" \/ ~None(t, {"NEAR_SUCCESS"}) => nearOk[runs]
        BY <1>n, <1>p, <2>1 DEF NearLabel
      <3> HIDE DEF t
      <3> QED
        BY <1>0, <3>1, <3>2 DEF NearLabel, workerVars
    <2>5. "TURN_ON_POWER" \notin timers'
      <3>1. timers' \in {timers, timers \cup {"AUTOCLOSE_MSGBOX"}, timers \cup {"RACECMD_AUTOTEST"}}
        BY <1>0 DEF HandleProgress, HandlePrompt, HandleDone, HandleCmdError
      <3> QED
        BY <1>2, <3>1
    <2> QED
      BY <2>3, <2>4, <2>5 DEF LabelsSettle
  <1>8. OwnPrompt' /\ PromptHonoured'
    <2>1. m.st # "WAIT_PROMPT" => boxes' = boxes
      BY <1>0 DEF HandleProgress, HandlePrompt, HandleDone, HandleCmdError
    <2>2. m.st = "WAIT_PROMPT" => boxes' = Append(boxes, [run |-> m.run, open |-> TRUE])
      BY <1>0 DEF HandleProgress, HandlePrompt, HandleDone, HandleCmdError
    <2>3. ASSUME expired = {} PROVE OwnPrompt'
      <3>1. CASE Place # "wait"
        <4>1. boxes = <<>> /\ ~event /\ None(msgs, {"WAIT_PROMPT"})
          BY <2>3, <3>1 DEF Rest, OwnPrompt
        <4> QED
          BY <1>0, <1>n, <2>1, <3>1, <4>1 DEF OwnPrompt
      <3>2. CASE Place = "wait" /\ None(msgs, {"WAIT_PROMPT"})
        <4>1. None(t, {"WAIT_PROMPT"}) /\ boxes' = boxes
          BY <1>n, <2>1, <3>2
        <4>2. ~OnlyLast(msgs, "WAIT_PROMPT")
          BY <1>1, <3>2 DEF None, OnlyLast
        <4> QED
          BY <1>0, <2>3, <3>2, <4>1, <4>2 DEF Rest, OwnPrompt
      <3>3. CASE Place = "wait" /\ ~None(msgs, {"WAIT_PROMPT"})
        <4>1. boxes = <<>> /\ ~event /\ OnlyLast(msgs, "WAIT_PROMPT")
          BY <2>3, <3>3 DEF Rest, OwnPrompt
        <4>2. CASE m.st = "WAIT_PROMPT"
          <5>1. t = <<>>
            BY <1>0, <4>1, <4>2, OnlyLastTail
          <5>2. boxes' = <<[run |-> runs, open |-> TRUE]>>
            BY <1>r, <2>2, <4>1, <4>2
          <5>3. Len(boxes') = 1 /\ boxes'[1].run = runs
            BY <5>2
          <5>4. (None(msgs, {"WAIT_PROMPT"}))'
            BY <1>0, <5>1 DEF None
          <5> QED
            BY <1>0, <3>3, <4>1, <5>3, <5>4 DEF OwnPrompt
        <4>3. CASE m.st # "WAIT_PROMPT"
          <5>1. OnlyLast(t, "WAIT_PROMPT") /\ boxes' = boxes
            BY <1>0, <2>1, <4>1, <4>3, OnlyLastTail
          <5> QED
            BY <1>0, <3>3, <4>1, <5>1 DEF OwnPrompt
        <4> QED
          BY <4>2, <4>3
      <3> QED
        BY <3>1, <3>2, <3>3
    <2> QED
      BY <1>0, <2>3 DEF Rest, OwnPrompt, PromptHonoured, waitHist
  <1>9. CASE ~HandleDone(m)
    <2>1. /\ UNCHANGED <<running, button, ok, ng, counted>>
          /\ "TURN_ON_POWER" \notin timers' /\ m.st # "ALL_DONE"
          /\ ("RACECMD_AUTOTEST" \in timers' <=> "RACECMD_AUTOTEST" \in timers)
      BY <1>0, <1>2, <1>9 DEF HandleProgress, HandlePrompt, HandleCmdError
    <2>2. CASE Working
      <3>1. Place # "begin" /\ None(t, {"ALL_DONE"})
        BY <1>0, <1>n, <2>2 DEF Working
      <3> QED
        BY <1>0, <1>2, <1>3, <1>4, <1>6, <1>7, <1>8, <2>1, <2>2, <3>1
        DEF Rest, Stages, Working, TimerArmed, VerdictsTrue, workerVars
    <2>3. CASE Closing
      <3>1. OnlyLast(t, "ALL_DONE")
        BY <1>0, <2>1, <2>3, OnlyLastTail DEF Closing
      <3> QED
        BY <1>0, <1>2, <1>3, <1>4, <1>6, <1>7, <1>8, <2>1, <2>3, <3>1
        DEF Rest, Stages, Closing, TimerArmed, VerdictsTrue, workerVars
    <2> QED
      BY <1>2, <2>2, <2>3
  <1>10. CASE HandleDone(m)
    <2>1. /\ m.st = "ALL_DONE" /\ running' = FALSE /\ button' = TRUE
          /\ timers' = IF autotest THEN timers \cup {"RACECMD_AUTOTEST"} ELSE timers
          /\ ok' = IF inear /\ outear THEN ok + 1 ELSE ok
          /\ ng' = IF inear /\ outear THEN ng ELSE ng + 1
          /\ counted' = counted \cup {runs} /\ UNCHANGED <<outear, inear>>
      BY <1>r, <1>10 DEF HandleDone
    <2>2. Closing
      BY <1>1, <1>2, <2>1 DEF Working, None
    <2>3. t = <<>>
      BY <1>0, <2>1, <2>2, OnlyLastTail DEF Closing
    <2>4. Place = "ended" /\ counted = 1..(runs - 1) /\ wpc[runs] = "ended"
      BY <1>r, <2>2 DEF Closing, Place
    <2>5. counted' = 1..runs /\ runs \notin counted
      BY <1>2, <1>r, <2>1, <2>4
    <2>6. AtRest'
      BY <1>0, <1>2, <2>1, <2>3, <2>4, <2>5 DEF AtRest, workerVars
    <2>7. outear = farOk[runs] /\ inear = nearOk[runs]
      <3>1. (FarFlag(msgs))' /\ (NearFlag(msgs))'
        BY <1>5, <2>4 DEF InEarHalf
      <3>2. FarFlag(<<>>) /\ NearFlag(<<>>)
        BY <1>0, <2>1, <2>3, <3>1 DEF FarFlag, NearFlag, workerVars
      <3>3. farOk[runs] \in BOOLEAN /\ nearOk[runs] \in BOOLEAN
        BY <1>2, <1>r DEF TypeOK, Runs
      <3> QED
        BY <1>b, <3>2, <3>3, SettlesEmpty DEF FarFlag, NearFlag
    <2>8. VerdictsTrue'
      <3> DEFINE G == {r \in counted : farOk[r] /\ nearOk[r]}
      <3>1. IsFiniteSet(counted) /\ IsFiniteSet(G)
        <4>1. IsFiniteSet(counted)
          BY <1>2, <2>4, FS_Interval
        <4> QED
          BY <4>1, FS_Subset
      <3>2. /\ ok = Cardinality(G) /\ ok + ng = Cardinality(counted)
            /\ ok \in Nat /\ ng \in Nat
        BY DEF Rest, VerdictsTrue, TypeOK
      <3>3. Cardinality(counted \cup {runs}) = Cardinality(counted) + 1
        BY <2>5, <3>1, FS_AddElement
      <3>4. Cardinality(G \cup {runs}) = Cardinality(G) + 1
        BY <2>5, <3>1, FS_AddElement
      <3>5. {r \in counted' : farOk'[r] /\ nearOk'[r]}
              = IF inear /\ outear THEN G \cup {runs} ELSE G
        BY <1>0, <2>1, <2>7 DEF workerVars
      <3> HIDE DEF G
      <3>6. ok' = Cardinality(IF inear /\ outear THEN G \cup {runs} ELSE G)
        BY <2>1, <3>2, <3>4
      <3>7. ok' = Cardinality({r \in counted' : farOk'[r] /\ nearOk'[r]})
        BY <3>5, <3>6, Zenon
      <3>8. ok' + ng' = Cardinality(counted')
        BY <2>1, <3>2, <3>3
      <3> QED
        BY <3>7, <3>8, Zenon DEF VerdictsTrue
    <2>9. TimerArmed'
      BY <1>0, <2>1 DEF Rest, TimerArmed
    <2> QED
      BY <1>3, <1>4, <1>6, <1>7, <1>8, <2>6, <2>8, <2>9 DEF Rest, Stages
  <1> QED
    BY <1>9, <1>10

-----------------------------------------------------------------------------
(* The inductive invariant, and what follows from it                        *)

LEMMA CountersBounded ==
  ASSUME Types, VerdictsTrue
  PROVE  TypeOK
  <1> DEFINE G == {r \in counted : farOk[r] /\ nearOk[r]}
  <1>1. IsFiniteSet(Runs) /\ Cardinality(Runs) = MaxRuns
    BY FS_Interval DEF Runs
  <1>2. counted \subseteq Runs /\ G \subseteq Runs
    BY DEF Types
  <1>3. /\ IsFiniteSet(counted) /\ IsFiniteSet(G)
        /\ Cardinality(counted) <= MaxRuns /\ Cardinality(G) <= MaxRuns
    BY <1>1, <1>2, FS_Subset
  <1>4. ok = Cardinality(G) /\ ok + ng = Cardinality(counted) /\ ok \in Nat /\ ng \in Nat
    BY DEF Types, VerdictsTrue
  <1>5. ok \in 0..MaxRuns /\ ng \in 0..MaxRuns
    <2> HIDE DEF G
    <2>1. Cardinality(counted) \in Nat
      BY <1>3, FS_CardinalityType
    <2> QED
      BY <1>3, <1>4, <2>1
  <1> QED
    BY <1>5 DEF Types, TypeOK, Box

LEMMA IInvInit == Init => IInv
  <1> SUFFICES ASSUME Init PROVE IInv
    OBVIOUS
  <1> USE DEF Init
  <1>1. TypeOK
    <2>1. /\ msgs \in Seq(Message) /\ boxes \in Seq([run : Runs, open : BOOLEAN])
          /\ 0 \in 0..(Tries - 1) /\ 0 \in 0..MaxRuns
      BY EmptySeq
    <2> QED
      BY <2>1 DEF TypeOK, Labels, WorkerPlaces
  <1>2. Stages /\ RunsInOrder
    BY DEF Stages, AtRest, RunsInOrder, Runs
  <1>3. OwnMessages /\ FlagsSettle /\ LabelsSettle
    BY DEF OwnMessages, AllOf, AllFar, FlagsSettle, Working, Closing, LabelsSettle, Place
  <1>4. OwnPrompt /\ TimerArmed /\ PromptHonoured
    BY DEF OwnPrompt, TimerArmed, PromptHonoured, Place, None
  <1>5. VerdictsTrue
    <2>1. {r \in counted : farOk[r] /\ nearOk[r]} = {} /\ Cardinality({}) = 0
      BY FS_EmptySet
    <2> QED
      BY <2>1 DEF VerdictsTrue
  <1> QED
    BY <1>1, <1>2, <1>3, <1>4, <1>5 DEF IInv

LEMMA IInvNext == IInv /\ [Next]_vars => IInv'
  <1> SUFFICES ASSUME IInv, [Next]_vars PROVE IInv'
    OBVIOUS
  <1>1. TypeOK /\ Rest
    BY DEF IInv, Rest
  <1> SUFFICES Types' /\ Rest'
    <2>1. Types' /\ VerdictsTrue' => TypeOK'
      BY CountersBounded, PTL
    <2> QED
      BY <2>1 DEF IInv, Rest
  <1>2. ASSUME NEW r \in Runs, WorkerStep(r) PROVE Types' /\ Rest'
    BY <1>1, <1>2, WorkerTypes, WorkerStages, WorkerRunsInOrder, WorkerOwnMessages, WorkerFlags,
       WorkerLabels, WorkerPrompt, WorkerVerdicts DEF Rest
  <1>3. CASE Operator \/ Gui
    BY <1>1, <1>3, GuiTypes, StartsRest, PromptsRest, TurnOnRest, DispatchRest DEF Operator, Gui
  <1>4. CASE UNCHANGED vars
    <2>1. /\ UNCHANGED <<guiVars, workerVars, waitHist, msgs, boxes, event, runs, counted, dismissed>>
          /\ Place' = Place
      BY <1>4 DEF vars, workerVars, Place
    <2>2. OwnPrompt' /\ PromptHonoured' /\ TimerArmed'
      BY <1>1, <2>1 DEF Rest, OwnPrompt, PromptHonoured, TimerArmed, guiVars, waitHist
    <2>3. Rest'
      BY <1>1, <2>1, <2>2, FrameRest DEF guiVars
    <2> QED
      BY <1>1, <1>4, <2>3, GuiTypes
  <1> QED
    BY <1>2, <1>3, <1>4 DEF Next

LEMMA IInvAlways == Spec => []IInv
  BY IInvInit, IInvNext, PTL DEF Spec

\* Type correctness of the dialog and its worker threads; in particular the counters
\* shown never exceed the runs made.
THEOREM TypeCorrect == Spec => []TypeOK
  <1>1. IInv => TypeOK
    BY DEF IInv
  <1> QED
    BY <1>1, IInvAlways, PTL

\* m_racecmd_running, set before the power timer and cleared by STATUS_ALL_DONE, keeps a
\* second worker off the UART, the event and m_rawdata_stage, for any number of runs.
THEOREM OneWorkerAlways == Spec => []OneWorker
  <1>1. IInv => OneWorker
    <2> SUFFICES ASSUME IInv PROVE OneWorker
      OBVIOUS
    <2>1. TypeOK /\ Stages /\ RunsInOrder /\ runs \in 0..MaxRuns
      BY DEF IInv, TypeOK
    <2>2. Alive \subseteq {runs}
      BY <2>1 DEF Alive, RunsInOrder, Runs
    <2>3. Cardinality(Alive) <= 1
      <3>1. IsFiniteSet({runs}) /\ Cardinality({runs}) = 1
        BY FS_Singleton
      <3> QED
        BY <2>2, <3>1, FS_Subset
    <2>4. AtRest => Alive = {} /\ "TURN_ON_POWER" \notin timers /\ msgs = <<>>
      BY <2>1, <2>2 DEF AtRest, Alive, Runs
    <2>5. ~AtRest => running /\ ~button
      BY <2>1 DEF Stages, Powering, Working, Closing
    <2> QED
      BY <2>3, <2>4, <2>5 DEF OneWorker
  <1> QED
    BY <1>1, IInvAlways, PTL

\* m_racecmd_ok_num and m_racecmd_ng_num count every finished run once, and as OK exactly
\* when its own worker reported both halves as successful, whatever the number of runs and
\* of retries.
THEOREM VerdictsAlwaysTrue == Spec => []VerdictsTrue
  <1>1. IInv => VerdictsTrue
    BY DEF IInv
  <1> QED
    BY <1>1, IInvAlways, PTL

\* Between runs the two result labels agree with the verdict that was counted.
THEOREM LabelsAgree == Spec => []LabelsMatchVerdict
  <1>1. IInv => LabelsMatchVerdict
    <2> SUFFICES ASSUME IInv, ~running, runs > 0
                 PROVE  (far = "success" /\ near = "success") = (farOk[runs] /\ nearOk[runs])
      BY DEF LabelsMatchVerdict
    <2>1. TypeOK /\ Stages /\ LabelsSettle
      BY DEF IInv
    <2>2. msgs = <<>> /\ "TURN_ON_POWER" \notin timers
      BY <2>1 DEF Stages, AtRest, Powering, Working, Closing
    <2>3. FarLabel(<<>>) /\ NearLabel(<<>>)
      BY <2>1, <2>2 DEF LabelsSettle
    <2>4. /\ farOk[runs] \in BOOLEAN /\ nearOk[runs] \in BOOLEAN
          /\ (far = "success") \in BOOLEAN /\ (near = "success") \in BOOLEAN
      BY <2>1 DEF TypeOK, Runs
    <2>5. /\ farOk[runs] <=> far = "success"
          /\ nearOk[runs] <=> near = "success"
      BY <2>3, <2>4, SettlesEmpty DEF FarLabel, NearLabel
    <2> QED
      BY <2>4, <2>5
  <1> QED
    BY <1>1, IInvAlways, PTL

\* With no run in progress the autotest timer is set exactly when the box is checked.
THEOREM AutotestAlwaysArmed == Spec => []AutotestArmed
  <1>1. IInv => AutotestArmed
    BY DEF IInv, TimerArmed, AutotestArmed
  <1> QED
    BY <1>1, IInvAlways, PTL

\* As long as no wait for a prompt expired, the in-ear half of a run starts only after the
\* run's own prompt was closed: m_event is then never left set from one run to the next.
THEOREM PromptAlwaysHonoured == Spec => []PromptHonoured
  <1>1. IInv => PromptHonoured
    BY DEF IInv
  <1> QED
    BY <1>1, IInvAlways, PTL
=============================================================================
