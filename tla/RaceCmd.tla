------------------------------ MODULE RaceCmd ------------------------------
(***************************************************************************)
(* One RACE command at a time over the earphone's UART (t5506.cpp).         *)
(*                                                                          *)
(* The calibration worker calls t5506_send_race_cmd, which writes a frame,  *)
(* waits for the auto-reset event hRaceCmdEvent and retries when the wait   *)
(* expires; after a success the caller reads the global rsp_value, twice.   *)
(* The UART receive thread counts a reply frame, sets the event, and only   *)
(* THEN stores rsp_value (do_onewire_frame_rsp).  The earphone and the wire *)
(* are external: a request or a reply may be lost.                          *)
(* The event has a name, so every running instance of the program (one per  *)
(* earphone under test) sets and waits for the same event; the other        *)
(* instances are here as far as they touch it.                              *)
(*                                                                          *)
(* A value carried by a reply is abstracted to the number of the call it    *)
(* answers, which is all that the properties tell apart.                    *)
(***************************************************************************)
EXTENDS Naturals, Sequences

CONSTANTS SendCount,    \* T5506_RACECMD_SEND_COUNT
          MaxCalls,     \* bound: calls of t5506_send_race_cmd explored
          MaxForeign    \* bound: steps of other instances on the event

ASSUME ConstantsAssumption ==
    /\ SendCount \in Nat \ {0}
    /\ MaxCalls \in Nat
    /\ MaxForeign \in Nat

VARIABLES pc,         \* where the worker is in the call
          call,       \* number of the current (or last) call
          racecmd,    \* its command: s_race_cmd
          i,          \* the retry loop's index
          ret,        \* what the last call returned
          snd_count,  \* global snd_count, set when a call returns
          rcv_count,  \* global rcv_count, frames seen since the call began
          event,      \* hRaceCmdEvent is signalled
          rsp_value,  \* global rsp_value: the call its content answers, 0 = none
          val,        \* the caller's first read of rsp_value
          info,       \* the caller's second read, which selects the text shown
          rx,         \* frame the receive thread works on
          rxpc,       \* how far it is: counted, or event set and value not stored
          uart_out,   \* requests on their way to the earphone
          uart_in,    \* reply frames on their way to the receive thread
          sent,       \* history: frames written by the current call
          signaller,  \* history: call answered by the frame that last set event
          answered,   \* history: signaller seen by the last successful wait
          prior,      \* history: signaller seen by the successful wait before it
          signals,    \* history: number of SetEvent calls
          releases,   \* history: number of waits that returned WAIT_OBJECT_0
          timing,     \* history: "late" once a wait expired while a frame was under way
          foreign     \* history: steps of other instances on the event

workerVars == <<pc, call, racecmd, i, ret, snd_count, val, info, sent>>
rxVars     == <<rx, rxpc, rsp_value>>
wireVars   == <<uart_out, uart_in>>
waitHist   == <<answered, prior, releases, timing, foreign>>
sigHist    == <<signaller, signals>>
vars == <<workerVars, rxVars, wireVars, waitHist, sigHist, event, rcv_count>>

-----------------------------------------------------------------------------
\* PSENSOR_* commands below PSENSOR_SYSTEM_CMD are answered with the cmd word the
\* receiver expects, T5506_CMD_GET_RAW_DATA; the answer to PSENSOR_HW_RESET is not.
Commands == {"psensor", "hw_reset"}
Calls    == 1..MaxCalls
Requests == [call : Calls, cmd : Commands]
CmdWords == {"raw_data", "other"}
Replies  == [call : Calls, cmd : CmdWords]
NoFrame  == [call |-> 0, cmd |-> "other"]

\* Nothing the earphone was sent, or has answered, is still under way.
Quiet == uart_out = <<>> /\ uart_in = <<>> /\ rxpc = "idle"

TypeOK ==
    /\ pc \in {"idle", "send", "wait", "read", "decide"}
    /\ call \in 0..MaxCalls
    /\ pc # "idle" => call \in Calls
    /\ racecmd \in Commands
    /\ i \in 0..SendCount
    /\ ret \in {"TRUE", "FALSE"}
    /\ snd_count \in 0..(SendCount + 1)
    /\ rcv_count \in Nat
    /\ event \in {"signalled", "reset"}
    /\ rsp_value \in 0..MaxCalls
    /\ val \in 0..MaxCalls
    /\ info \in 0..MaxCalls
    /\ rx \in Replies \cup {NoFrame}
    /\ rxpc \in {"idle", "counted", "signalled"}
    /\ rxpc # "idle" => rx \in Replies
    /\ uart_out \in Seq(Requests)
    /\ uart_in \in Seq(Replies)
    /\ sent \in 0..SendCount
    /\ signaller \in 0..MaxCalls
    /\ answered \in 0..MaxCalls
    /\ prior \in 0..MaxCalls
    /\ signals \in Nat
    /\ releases \in Nat
    /\ timing \in {"prompt", "late"}
    /\ foreign \in 0..MaxForeign

Init ==
    /\ pc = "idle" /\ call = 0 /\ racecmd = "psensor" /\ i = 0
    /\ ret = "FALSE" /\ snd_count = 0 /\ rcv_count = 0
    /\ event = "reset" /\ rsp_value = 0 /\ val = 0 /\ info = 0
    /\ rx = NoFrame /\ rxpc = "idle" /\ uart_out = <<>> /\ uart_in = <<>>
    /\ sent = 0 /\ signaller = 0 /\ answered = 0 /\ prior = 0
    /\ signals = 0 /\ releases = 0 /\ timing = "prompt" /\ foreign = 0

-----------------------------------------------------------------------------
(* Single decisions of the code, named so that each can be mutated.         *)

\* Mutant: the loop condition written i <= T5506_RACECMD_SEND_COUNT.
AttemptsLeftOffByOne(n) == n <= SendCount
\* The retry loop goes on after n attempts.
AttemptsLeft(n) == n < SendCount

\* i++ after an expired wait.
NextAttempt == i + 1

\* Mutant: WaitForSingleObject with INFINITE.
NeverExpires == FALSE
\* The wait for the event has a time limit.
WaitExpires == TRUE

\* Mutant: snd_count taken from the index without the + 1.
SentShort(n) == n
\* snd_count = i + 1 after the loop was left with index n.
SentShown(n) == n + 1

\* Mutant: the event created as a manual-reset event and never reset.
EventKept == "signalled"
\* CreateEvent(NULL, FALSE, ...): a successful wait leaves the event reset.
EventAfterWait == "reset"

\* Mutant: a branch of do_onewire_frame_rsp that forgets to store the value.
NotStored == rsp_value
\* The value do_onewire_frame_rsp stores in rsp_value.
Stored == rx.call

-----------------------------------------------------------------------------
(* The worker: t5506_send_race_cmd and the caller that reads its result.    *)

\* A call begins: a buffer is allocated and the receive count is cleared.
\* The event is NOT reset here.
Call(c) ==
    /\ pc = "idle"
    /\ call < MaxCalls
    /\ call' = call + 1
    /\ racecmd' = c
    /\ i' = 0
    /\ sent' = 0
    /\ rcv_count' = 0
    /\ pc' = "send"
    /\ UNCHANGED <<ret, snd_count, val, info, rxVars, wireVars, waitHist, sigHist, event>>

\* alloc_buffer returned NULL: the call returns FALSE and sends nothing.
AllocFails ==
    /\ pc = "idle"
    /\ ret' = "FALSE"
    /\ UNCHANGED <<pc, call, racecmd, i, snd_count, val, info, sent,
                   rxVars, wireVars, waitHist, sigHist, event, rcv_count>>

\* uart_send_buf of the frame built for racecmd.
Send ==
    /\ pc = "send"
    /\ uart_out' = Append(uart_out, [call |-> call, cmd |-> racecmd])
    /\ sent' = sent + 1
    /\ pc' = "wait"
    /\ UNCHANGED <<call, racecmd, i, ret, snd_count, val, info, uart_in,
                   rxVars, waitHist, sigHist, event, rcv_count>>

\* WaitForSingleObject returned WAIT_OBJECT_0: the auto-reset event is consumed.
\* The callers of a reset never look at rsp_value.
WaitSignalled ==
    /\ pc = "wait"
    /\ event = "signalled"
    /\ event' = EventAfterWait
    /\ ret' = "TRUE"
    /\ snd_count' = SentShown(i)
    /\ pc' = IF racecmd = "hw_reset" THEN "idle" ELSE "read"
    /\ prior' = answered
    /\ answered' = signaller
    /\ releases' = releases + 1
    /\ UNCHANGED <<call, racecmd, i, val, info, sent, rxVars, wireVars, sigHist, rcv_count,
                   timing, foreign>>

\* WAIT_TIMEOUT (or a failed wait): next attempt, or give up when the loop ends
\* with i = SendCount, so that snd_count is one more than the frames sent.
WaitTimeout ==
    /\ pc = "wait"
    /\ event = "reset"
    /\ WaitExpires
    /\ timing' = IF Quiet THEN timing ELSE "late"
    /\ i' = NextAttempt
    /\ \/ /\ AttemptsLeft(NextAttempt)
          /\ pc' = "send"
          /\ UNCHANGED <<ret, snd_count>>
       \/ /\ ~AttemptsLeft(NextAttempt)
          /\ pc' = "idle"
          /\ ret' = "FALSE"
          /\ snd_count' = SentShown(NextAttempt)
    /\ UNCHANGED <<call, racecmd, val, info, sent, rxVars, wireVars, answered, prior,
                   releases, foreign, sigHist, event, rcv_count>>

\* val = rsp_value
ReadValue ==
    /\ pc = "read"
    /\ val' = rsp_value
    /\ pc' = "decide"
    /\ UNCHANGED <<call, racecmd, i, ret, snd_count, info, sent, rxVars, wireVars,
                   waitHist, sigHist, event, rcv_count>>

\* if (rsp_value == ...): a second read selects the text and, for the
\* calibration commands, the result.
Decide ==
    /\ pc = "decide"
    /\ info' = rsp_value
    /\ pc' = "idle"
    /\ UNCHANGED <<call, racecmd, i, ret, snd_count, val, sent, rxVars, wireVars,
                   waitHist, sigHist, event, rcv_count>>

-----------------------------------------------------------------------------
(* The UART receive thread: process_data_buffer and do_onewire_frame_rsp.   *)

\* One frame is taken from the stream and counted.
RecvFrame ==
    /\ rxpc = "idle"
    /\ uart_in # <<>>
    /\ rx' = Head(uart_in)
    /\ uart_in' = Tail(uart_in)
    /\ rcv_count' = rcv_count + 1
    /\ rxpc' = "counted"
    /\ UNCHANGED <<workerVars, rsp_value, uart_out, waitHist, sigHist, event>>

\* A frame whose cmd is not the expected word is dropped ...
DropFrame ==
    /\ rxpc = "counted"
    /\ rx.cmd # "raw_data"
    /\ rx' = NoFrame
    /\ rxpc' = "idle"
    /\ UNCHANGED <<workerVars, rsp_value, wireVars, waitHist, sigHist, event, rcv_count>>

\* ... any other one sets the event, whatever its event id.
SignalEvent ==
    /\ rxpc = "counted"
    /\ rx.cmd = "raw_data"
    /\ event' = "signalled"
    /\ rxpc' = "signalled"
    /\ signaller' = rx.call
    /\ signals' = signals + 1
    /\ UNCHANGED <<workerVars, rx, rsp_value, wireVars, waitHist, rcv_count>>

\* The value is stored only now.
StoreValue ==
    /\ rxpc = "signalled"
    /\ rsp_value' = Stored
    /\ rx' = NoFrame
    /\ rxpc' = "idle"
    /\ UNCHANGED <<workerVars, wireVars, waitHist, sigHist, event, rcv_count>>

-----------------------------------------------------------------------------
(* The earphone and the wire (external).                                    *)

Answer(req) == [call |-> req.call,
                cmd  |-> IF req.cmd = "hw_reset" THEN "other" ELSE "raw_data"]

DeviceReply ==
    /\ uart_out # <<>>
    /\ uart_in' = Append(uart_in, Answer(Head(uart_out)))
    /\ uart_out' = Tail(uart_out)
    /\ UNCHANGED <<workerVars, rxVars, waitHist, sigHist, event, rcv_count>>

LoseRequest ==
    /\ uart_out # <<>>
    /\ uart_out' = Tail(uart_out)
    /\ UNCHANGED <<uart_in, workerVars, rxVars, waitHist, sigHist, event, rcv_count>>

LoseReply ==
    /\ uart_in # <<>>
    /\ uart_in' = Tail(uart_in)
    /\ UNCHANGED <<uart_out, workerVars, rxVars, waitHist, sigHist, event, rcv_count>>

-----------------------------------------------------------------------------
(* Another instance of the program, at the event of the same name.          *)

\* Its earphone has answered: its receive thread sets the event.
ForeignSet ==
    /\ foreign < MaxForeign
    /\ foreign' = foreign + 1
    /\ event' = "signalled"
    /\ signaller' = 0
    /\ signals' = signals + 1
    /\ UNCHANGED <<workerVars, rxVars, wireVars, answered, prior, releases, timing, rcv_count>>

\* Its worker's wait is over: the event is consumed.
ForeignTake ==
    /\ foreign < MaxForeign
    /\ event = "signalled"
    /\ foreign' = foreign + 1
    /\ event' = EventAfterWait
    /\ releases' = releases + 1
    /\ UNCHANGED <<workerVars, rxVars, wireVars, answered, prior, timing, sigHist, rcv_count>>

-----------------------------------------------------------------------------
Worker ==
    \/ Send \/ WaitSignalled \/ WaitTimeout \/ ReadValue \/ Decide
Receiver == RecvFrame \/ DropFrame \/ SignalEvent \/ StoreValue
Foreign  == ForeignSet \/ ForeignTake
Wire     == DeviceReply \/ LoseRequest \/ LoseReply

Next ==
    \/ \E c \in Commands : Call(c)
    \/ AllocFails
    \/ Worker
    \/ Receiver
    \/ Wire
    \/ Foreign

Spec     == Init /\ [][Next]_vars
\* The scheduler runs the worker whenever it is ready, and an expired or
\* signalled wait makes it ready.  Nothing is assumed of the earphone.
FairSpec == Spec /\ WF_vars(Worker)

-----------------------------------------------------------------------------
(* Properties *)

\* No wait has expired while a frame was under way, and no other instance has touched
\* the event.
InTime == timing = "prompt" /\ foreign = 0

\* Then the event that ends a call's wait was set by a reply to that very call, never
\* by a reply to an earlier one.  (A late reply leaves the event set, no call resets
\* it, and the next call's first wait is over before it began.)
OwnSignal == (InTime /\ pc \in {"read", "decide"}) => answered = call

\* Because SetEvent precedes the store, the caller may read an old rsp_value; but
\* the receive thread finishes one frame before it takes the next, so under the same
\* condition what it reads is the answer to this call or to the answered call just before
\* it, never older.
StaleByAtMostOne == (InTime /\ pc = "decide") => val \in {answered, prior}

\* Whatever is lost or late, a call keeps the contract of CommandCall: it writes its
\* frames while it is under way and no more than SendCount, gives up only after that
\* many, and the count dlg_update_status_ui shows after a success is the number of
\* frames written.
Contract == INSTANCE CommandCall WITH
                busy <- pc \in {"send", "wait"}, tries <- sent, result <- ret, told <- snd_count
CommandContract == Contract!Spec

\* A reply ends at most one wait, in whichever instance: late and foreign replies may
\* end the wrong one, but never two.
\* A signalled event is a reply that has ended none yet.
OneReleasePerReply ==
    /\ releases <= signals
    /\ event = "signalled" => releases < signals

\* Every call returns, whatever the earphone does: three attempts at most.
CallReturns == pc # "idle" ~> pc = "idle"

\* What the comment of t5506_init_handle promises ("UART command synchronisation
\* event"): a caller released by the event never reads the value that an earlier
\* command was answered with.  The order of SetEvent and the store breaks it.
OwnValue == (InTime /\ pc = "decide") => ~(0 < val /\ val < call)

\* What the text "enter test mode RSP ok!" of a successful wait says: a response to
\* the commands sent has come, at any rate some frame since the call began.  Another
\* instance's reply breaks it.
SomeResponse == pc = "read" => rcv_count >= 1
=============================================================================
