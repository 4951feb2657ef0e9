---------------------------- MODULE CalibSession ----------------------------
(***************************************************************************)
(* The proximity-sensor calibration of the dialog (mp_testDlg.cpp).         *)
(*                                                                          *)
(* The GUI thread starts a run from a button, a check box or a timer; the   *)
(* run's worker thread StartSendUartCmd sends the out-ear and in-ear        *)
(* calibration commands and posts its progress to the GUI thread's message  *)
(* queue.  Between the two halves the GUI shows a modal prompt: its message *)
(* loop is nested, so timers and posted messages go on being handled while  *)
(* the handler of STATUS_WAIT_PROMPT has not returned.                      *)
(*                                                                          *)
(* A RACE command is one step here with the outcomes its caller can see     *)
(* (module RaceCmd has its inside).  Timers are untimed: a timer that is    *)
(* set may fire at any later moment.                                        *)
(***************************************************************************)
EXTENDS Naturals, Sequences, FiniteSets

CONSTANTS Tries,     \* 5: attempts of the calibration and of the query loops
          MaxRuns    \* bound: calibration runs explored

ASSUME SessionAssumption == Tries \in Nat \ {0} /\ MaxRuns \in Nat

VARIABLES running,       \* m_racecmd_running
          button,        \* m_rawdata_button is enabled
          autotest,      \* m_racecmd_autotest
          timers,        \* the timers that are set
          msgs,          \* posted messages, in order
          boxes,         \* open prompts, the innermost last
          event,         \* m_event is signalled (auto-reset)
          stage,         \* m_rawdata_stage
          outear, inear, \* the handler's static flags
          far, near,     \* what the two result labels show
          ok, ng,        \* m_racecmd_ok_num, m_racecmd_ng_num
          runs,          \* workers started so far
          wpc,           \* where the worker of each run is
          tries,         \* its loop index
          farOk, nearOk, \* history: the worker of the run posted the success
          counted,       \* history: runs whose STATUS_ALL_DONE was handled
          dismissed,     \* history: runs whose prompt was closed
          signalled,     \* history: runs whose wait ended by the event
          expired        \* history: runs whose wait ended by its timeout

guiVars    == <<running, button, autotest, timers, outear, inear, far, near, ok, ng>>
workerVars == <<stage, wpc, tries, farOk, nearOk>>
waitHist   == <<signalled, expired>>
vars == <<guiVars, workerVars, waitHist, msgs, boxes, event, runs, counted, dismissed>>

-----------------------------------------------------------------------------
Runs    == 1..MaxRuns
Timers  == {"TURN_ON_POWER", "RACECMD_AUTOTEST", "AUTOCLOSE_MSGBOX"}
Labels  == {"initial", "running", "failed", "success"}
Phases  == {"far", "near"}
Status  == {"FAR_BEGIN", "FAR_DOING", "FAR_FAILED", "FAR_SUCCESS", "WAIT_PROMPT",
            "NEAR_BEGIN", "NEAR_DOING", "NEAR_FAILED", "NEAR_SUCCESS", "ALL_DONE"}
\* WM_UPDATE_THREAD_RESULT carries a status, WM_UPDATE_STATIC only matters here
\* when its result is RAW_DATA_VALUE_ERROR ("cmd_error").  "phase" tells the half
\* of the run that posted it; the code does not send it.
Message == [run : Runs, st : Status \cup {"cmd_error"}, phase : Phases]

WorkerPlaces == {"none", "begin", "out_ear", "far_query", "prompt", "wait",
                 "in_ear", "near_query", "finish", "ended"}
Alive == {r \in Runs : wpc[r] \notin {"none", "ended"}}

TypeOK ==
    /\ running \in BOOLEAN /\ button \in BOOLEAN /\ autotest \in BOOLEAN
    /\ timers \subseteq Timers
    /\ msgs \in Seq(Message)
    /\ boxes \in Seq([run : Runs, open : BOOLEAN])
    /\ event \in BOOLEAN
    /\ stage \in Phases \cup {"none"}
    /\ outear \in BOOLEAN /\ inear \in BOOLEAN
    /\ far \in Labels /\ near \in Labels
    /\ ok \in 0..MaxRuns /\ ng \in 0..MaxRuns /\ runs \in 0..MaxRuns
    /\ wpc \in [Runs -> WorkerPlaces]
    /\ tries \in [Runs -> 0..(Tries - 1)]
    /\ farOk \in [Runs -> BOOLEAN] /\ nearOk \in [Runs -> BOOLEAN]
    /\ counted \subseteq Runs /\ dismissed \subseteq Runs
    /\ signalled \subseteq Runs /\ expired \subseteq Runs

\* OnInitDialog
Init ==
    /\ running = FALSE /\ button = TRUE /\ autotest = FALSE
    /\ timers = {} /\ msgs = <<>> /\ boxes = <<>> /\ event = FALSE
    /\ stage = "none" /\ outear = FALSE /\ inear = FALSE
    /\ far = "initial" /\ near = "initial" /\ ok = 0 /\ ng = 0 /\ runs = 0
    /\ wpc = [r \in Runs |-> "none"] /\ tries = [r \in Runs |-> 0]
    /\ farOk = [r \in Runs |-> FALSE] /\ nearOk = [r \in Runs |-> FALSE]
    /\ counted = {} /\ dismissed = {} /\ signalled = {} /\ expired = {}

-----------------------------------------------------------------------------
(* Single decisions of the code, named so that each can be mutated.         *)

\* OnBnClickedButton1 returns at once when a run is in progress.
MayStart == ~running

\* Mutant: the flag left for the thread to set.
FlagLeftToThread == running
\* m_racecmd_running = TRUE, before the timer that starts the thread is set.
FlagSet == TRUE

\* Mutant: STATUS_NEAR_BEGIN does not clear inear_stauts.
NearFlagKept == inear
\* inear_stauts after STATUS_NEAR_BEGIN.
NearFlagCleared == FALSE

\* Mutant: the loops written i <= 5.
MoreTriesOffByOne(n) == n <= Tries
\* The calibration and query loops go on after n rounds.
MoreTries(n) == n < Tries

\* Mutant: the two branches of OnUpdateStatic swapped.
OtherStage(p) == stage \notin {"none", p}
\* OnUpdateStatic paints the label of m_rawdata_stage.
PaintsLabel(p) == stage = p

\* Mutant: KillTimer forgotten when the check box is cleared.
TimerLeft(on) == timers
\* OnBnClickedCheckAutotest kills the autotest timer when the box is cleared.
TimersAfterToggle(on) == IF on THEN timers ELSE timers \ {"RACECMD_AUTOTEST"}

\* Mutant: the in-ear half starts without waiting for the prompt.
NoWait(r) == TRUE
\* WaitForSingleObject(m_event) returns WAIT_OBJECT_0.
WaitOver(r) == event

\* Mutant: WaitForSingleObject(m_event, INFINITE).
NeverExpires(r) == FALSE
\* The wait for the prompt has a time limit of 4000 ms.
WaitExpires(r) == TRUE

-----------------------------------------------------------------------------
(* The GUI thread                                                            *)

\* OnBnClickedButton1; on is the state of the check box from now on and ts the
\* timers its caller leaves set.
StartRun(on, ts) ==
    /\ autotest' = on
    /\ IF MayStart
       THEN /\ running' = FlagSet
            /\ button' = FALSE
            /\ timers' = ts \cup {"TURN_ON_POWER"}
            /\ far' = "initial"
            /\ near' = "initial"
       ELSE /\ timers' = ts
            /\ UNCHANGED <<running, button, far, near>>
    /\ UNCHANGED <<outear, inear, ok, ng, workerVars, waitHist, msgs, boxes, event,
                   runs, counted, dismissed>>

\* The operator presses the button: a modal prompt disables the dialog.
ClickButton ==
    /\ button
    /\ boxes = <<>>
    /\ runs < MaxRuns
    /\ StartRun(autotest, timers)

\* OnBnClickedCheckAutotest
ToggleAutotest ==
    /\ boxes = <<>>
    /\ LET on == ~autotest IN
       \/ /\ ~running
          /\ on
          /\ runs < MaxRuns
          /\ StartRun(on, timers)
       \/ /\ running \/ ~on
          /\ autotest' = on
          /\ timers' = TimersAfterToggle(on)
          /\ UNCHANGED <<running, button, outear, inear, far, near, ok, ng, workerVars,
                         waitHist, msgs, boxes, event, runs, counted, dismissed>>

\* OnTimer: the autotest timer is one-shot and presses the button.
AutotestTimer ==
    /\ "RACECMD_AUTOTEST" \in timers
    /\ runs < MaxRuns
    /\ StartRun(autotest, timers \ {"RACECMD_AUTOTEST"})

\* OnTimer and SendRawCmd: the earphone has power, the worker thread starts.
TurnOnTimer ==
    /\ "TURN_ON_POWER" \in timers
    /\ runs < MaxRuns
    /\ timers' = timers \ {"TURN_ON_POWER"}
    /\ runs' = runs + 1
    /\ wpc' = [wpc EXCEPT ![runs + 1] = "begin"]
    /\ UNCHANGED <<running, button, autotest, outear, inear, far, near, ok, ng, stage,
                   tries, farOk, nearOk, waitHist, msgs, boxes, event, counted, dismissed>>

\* OnTimer: WM_CLOSE is sent to a window with the prompt's title, if there is one.
AutoCloseTimer ==
    /\ "AUTOCLOSE_MSGBOX" \in timers
    /\ timers' = timers \ {"AUTOCLOSE_MSGBOX"}
    /\ \/ /\ boxes = <<>>
          /\ UNCHANGED boxes
       \/ \E b \in DOMAIN boxes : boxes' = [boxes EXCEPT ![b].open = FALSE]
    /\ UNCHANGED <<running, button, autotest, outear, inear, far, near, ok, ng, workerVars,
                   waitHist, msgs, event, runs, counted, dismissed>>

\* The operator closes a prompt.
OperatorCloses ==
    /\ \E b \in DOMAIN boxes :
          /\ boxes[b].open
          /\ boxes' = [boxes EXCEPT ![b].open = FALSE]
    /\ UNCHANGED <<guiVars, workerVars, waitHist, msgs, event, runs, counted, dismissed>>

\* MessageBox returns, innermost first, and the handler goes on with SetEvent.
PromptReturns ==
    /\ boxes # <<>>
    /\ LET b == boxes[Len(boxes)] IN
          /\ ~b.open
          /\ dismissed' = dismissed \cup {b.run}
    /\ boxes' = SubSeq(boxes, 1, Len(boxes) - 1)
    /\ event' = TRUE
    /\ UNCHANGED <<guiVars, workerVars, waitHist, msgs, runs, counted>>

\* OnGetThreadResult: the statuses that only paint a label or set a flag.
HandleProgress(m) ==
    /\ m.st \notin {"WAIT_PROMPT", "ALL_DONE", "cmd_error"}
    /\ outear' = CASE m.st = "FAR_BEGIN"   -> FALSE
                   [] m.st = "FAR_SUCCESS" -> TRUE
                   [] OTHER                -> outear
    /\ inear'  = CASE m.st = "NEAR_BEGIN"   -> NearFlagCleared
                   [] m.st = "NEAR_SUCCESS" -> TRUE
                   [] OTHER                 -> inear
    /\ far'  = CASE m.st = "FAR_DOING"   -> "running"
                 [] m.st = "FAR_FAILED"  -> "failed"
                 [] m.st = "FAR_SUCCESS" -> "success"
                 [] OTHER                -> far
    /\ near' = CASE m.st = "NEAR_DOING"   -> "running"
                 [] m.st = "NEAR_FAILED"  -> "failed"
                 [] m.st = "NEAR_SUCCESS" -> "success"
                 [] OTHER                 -> near
    /\ UNCHANGED <<running, button, autotest, timers, ok, ng, boxes, counted>>

\* STATUS_WAIT_PROMPT: MessageBox opens and runs its own message loop.
HandlePrompt(m) ==
    /\ m.st = "WAIT_PROMPT"
    /\ timers' = timers \cup {"AUTOCLOSE_MSGBOX"}
    /\ boxes' = Append(boxes, [run |-> m.run, open |-> TRUE])
    /\ UNCHANGED <<running, button, autotest, outear, inear, far, near, ok, ng, counted>>

\* STATUS_ALL_DONE: the run is over and its verdict is counted.
HandleDone(m) ==
    /\ m.st = "ALL_DONE"
    /\ running' = FALSE
    /\ button' = TRUE
    /\ timers' = IF autotest THEN timers \cup {"RACECMD_AUTOTEST"} ELSE timers
    /\ ok' = IF inear /\ outear THEN ok + 1 ELSE ok
    /\ ng' = IF inear /\ outear THEN ng ELSE ng + 1
    /\ counted' = counted \cup {m.run}
    /\ UNCHANGED <<autotest, outear, inear, far, near, boxes>>

\* OnUpdateStatic with RAW_DATA_VALUE_ERROR: m_rawdata_stage, as it is when the
\* message is handled, selects the label that shows the failure.
HandleCmdError(m) ==
    /\ m.st = "cmd_error"
    /\ far'  = IF PaintsLabel("far")  THEN "failed" ELSE far
    /\ near' = IF PaintsLabel("near") THEN "failed" ELSE near
    /\ UNCHANGED <<running, button, autotest, timers, outear, inear, ok, ng, boxes, counted>>

\* The innermost message loop dispatches the oldest posted message.
Dispatch ==
    /\ msgs # <<>>
    /\ msgs' = Tail(msgs)
    /\ LET m == Head(msgs) IN
          HandleProgress(m) \/ HandlePrompt(m) \/ HandleDone(m) \/ HandleCmdError(m)
    /\ UNCHANGED <<workerVars, waitHist, event, runs, dismissed>>

-----------------------------------------------------------------------------
(* The worker thread of run r: StartSendUartCmd                              *)

Msg(r, s, p) == [run |-> r, st |-> s, phase |-> p]
GoTo(r, place) == wpc' = [wpc EXCEPT ![r] = place]
\* The messages one command posts before the worker's own: a command that was
\* not answered posts an error.
ErrorPosts(r, p) == {<<>>, <<Msg(r, "cmd_error", p)>>}

Begin(r) ==
    /\ wpc[r] = "begin"
    /\ msgs' = Append(msgs, Msg(r, "FAR_BEGIN", "far"))
    /\ GoTo(r, "out_ear")
    /\ UNCHANGED <<stage, tries, farOk, nearOk, event, waitHist>>

\* Up to Tries out-ear calibration commands; only then is the stage set.
OutEar(r) ==
    /\ wpc[r] = "out_ear"
    /\ \/ /\ UNCHANGED msgs
          /\ tries' = [tries EXCEPT ![r] = 0]
          /\ stage' = "far"
          /\ GoTo(r, "far_query")
       \/ \E e \in ErrorPosts(r, "far") :
          /\ msgs' = msgs \o e
          /\ IF MoreTries(tries[r] + 1)
             THEN /\ tries' = [tries EXCEPT ![r] = @ + 1]
                  /\ UNCHANGED <<stage, wpc>>
             ELSE /\ tries' = [tries EXCEPT ![r] = 0]
                  /\ stage' = "far"
                  /\ GoTo(r, "far_query")
    /\ UNCHANGED <<farOk, nearOk, event, waitHist>>

\* One t5506_query_cali_status of the loop of phase p, which is left for "next"
\* on a verdict and after Tries queries without one.
Query(r, p, next, okVar) ==
    LET post(s) == Msg(r, s, p)
        fail == IF p = "far" THEN "FAR_FAILED"  ELSE "NEAR_FAILED"
        good == IF p = "far" THEN "FAR_SUCCESS" ELSE "NEAR_SUCCESS"
        busy == IF p = "far" THEN "FAR_DOING"   ELSE "NEAR_DOING"
    IN
    \/ \E e \in ErrorPosts(r, p) :
          /\ msgs' = (msgs \o e) \o <<post(fail)>>
          /\ tries' = [tries EXCEPT ![r] = 0]
          /\ GoTo(r, next)
          /\ UNCHANGED okVar
    \/ /\ msgs' = Append(msgs, post(good))
       /\ okVar' = [okVar EXCEPT ![r] = TRUE]
       /\ tries' = [tries EXCEPT ![r] = 0]
       /\ GoTo(r, next)
    \/ /\ msgs' = Append(msgs, post(busy))
       /\ UNCHANGED okVar
       /\ IF MoreTries(tries[r] + 1)
          THEN /\ tries' = [tries EXCEPT ![r] = @ + 1]
               /\ UNCHANGED wpc
          ELSE /\ tries' = [tries EXCEPT ![r] = 0]
               /\ GoTo(r, next)

FarQuery(r) ==
    /\ wpc[r] = "far_query"
    /\ Query(r, "far", "prompt", farOk)
    /\ UNCHANGED <<stage, nearOk, event, waitHist>>

\* The prompt is asked for whatever the verdict on the out-ear half was.
AskPrompt(r) ==
    /\ wpc[r] = "prompt"
    /\ msgs' = Append(msgs, Msg(r, "WAIT_PROMPT", "far"))
    /\ GoTo(r, "wait")
    /\ UNCHANGED <<stage, tries, farOk, nearOk, event, waitHist>>

\* The result of the wait is not looked at.
AfterWait(r) ==
    /\ stage' = "near"
    /\ msgs' = Append(msgs, Msg(r, "NEAR_BEGIN", "near"))
    /\ GoTo(r, "in_ear")
    /\ UNCHANGED <<tries, farOk, nearOk>>

WaitSignalled(r) ==
    /\ wpc[r] = "wait"
    /\ WaitOver(r)
    /\ event' = FALSE
    /\ signalled' = signalled \cup {r}
    /\ UNCHANGED expired
    /\ AfterWait(r)

WaitTimedOut(r) ==
    /\ wpc[r] = "wait"
    /\ ~event
    /\ WaitExpires(r)
    /\ expired' = expired \cup {r}
    /\ UNCHANGED <<event, signalled>>
    /\ AfterWait(r)

\* One in-ear calibration command; its result is not looked at.
InEar(r) ==
    /\ wpc[r] = "in_ear"
    /\ \E e \in ErrorPosts(r, "near") : msgs' = msgs \o e
    /\ GoTo(r, "near_query")
    /\ UNCHANGED <<stage, tries, farOk, nearOk, event, waitHist>>

NearQuery(r) ==
    /\ wpc[r] = "near_query"
    /\ Query(r, "near", "finish", nearOk)
    /\ UNCHANGED <<stage, farOk, event, waitHist>>

Finish(r) ==
    /\ wpc[r] = "finish"
    /\ msgs' = Append(msgs, Msg(r, "ALL_DONE", "near"))
    /\ GoTo(r, "ended")
    /\ UNCHANGED <<stage, tries, farOk, nearOk, event, waitHist>>

WorkerStep(r) ==
    /\ \/ Begin(r) \/ OutEar(r) \/ FarQuery(r) \/ AskPrompt(r) \/ WaitSignalled(r)
       \/ WaitTimedOut(r) \/ InEar(r) \/ NearQuery(r) \/ Finish(r)
    /\ UNCHANGED <<guiVars, boxes, runs, counted, dismissed>>

-----------------------------------------------------------------------------
Operator == ClickButton \/ ToggleAutotest \/ OperatorCloses
Gui == AutotestTimer \/ TurnOnTimer \/ AutoCloseTimer \/ PromptReturns \/ Dispatch

Next ==
    \/ Operator
    \/ Gui
    \/ \E r \in Runs : WorkerStep(r)

Spec == Init /\ [][Next]_vars
\* The worker thread is scheduled, the GUI thread dispatches posted messages and
\* the power timer fires.  The operator and the other timers may stay idle.
FairSpec ==
    /\ Spec
    /\ \A r \in Runs : WF_vars(WorkerStep(r))
    /\ WF_vars(Dispatch)
    /\ WF_vars(TurnOnTimer)

-----------------------------------------------------------------------------
(* Properties *)

\* The UART, the event and m_rawdata_stage belong to one run at a time: whatever
\* the button, the check box, the autotest timer and the nested message loop do,
\* no second worker starts before STATUS_ALL_DONE of the first was handled.
OneWorker ==
    /\ Cardinality(Alive) <= 1
    /\ (Alive # {} \/ "TURN_ON_POWER" \in timers \/ \E k \in DOMAIN msgs : msgs[k].st = "ALL_DONE")
          => running /\ ~button

\* The OK/NG counters are true: a run is counted once, as OK exactly when its own
\* worker reported success for both halves, although the flags are statics that
\* survive from run to run and messages are handled inside nested loops.
VerdictsTrue ==
    /\ ok = Cardinality({r \in counted : farOk[r] /\ nearOk[r]})
    /\ ok + ng = Cardinality(counted)

\* When a run is over the labels the operator reads agree with what was counted:
\* both show success exactly when the run was counted as OK.
LabelsMatchVerdict ==
    (~running /\ runs > 0) =>
        (far = "success" /\ near = "success") = (farOk[runs] /\ nearOk[runs])

\* Continuous testing neither stops by itself nor goes on against the operator:
\* with no run in progress the autotest timer is set exactly when the box is checked.
AutotestArmed == ~running => (autotest <=> "RACECMD_AUTOTEST" \in timers)

\* As long as no wait for a prompt has expired, the in-ear half of a run starts
\* only after the operator (or the auto-close timer) closed that run's own prompt.
\* (After an expired wait the late SetEvent may release the next run's wait.)
PromptHonoured == expired = {} => signalled \subseteq dismissed

\* A run that was started ends and gives the button back, even if nobody ever
\* closes a prompt.
RunEnds == running ~> ~running

\* What the texts say: an out-ear command that failed ("out-ear calibration could
\* not be sent"), handled while its worker is still sending out-ear commands, is
\* not shown as a failure of the in-ear label.
OwnLabel ==
    [][(msgs # <<>> /\ msgs' = Tail(msgs) /\ Head(msgs).st = "cmd_error"
        /\ wpc[Head(msgs).run] = "out_ear") => near' = near]_vars
=============================================================================
