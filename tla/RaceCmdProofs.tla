--------------------------- MODULE RaceCmdProofs ---------------------------
(***************************************************************************)
(* Proofs about RaceCmd for every number of attempts and of calls.          *)
(***************************************************************************)
EXTENDS RaceCmd, SequenceTheorems, TLAPS

USE DEF Commands, Calls, Requests, Replies, CmdWords, NoFrame

\* Every variable keeps its type; in particular a call never writes more than
\* SendCount frames (the retry loop of t5506_send_race_cmd).
\* The strengthening ties the number of frames sent to the loop index.
SentMatchesIndex ==
    /\ pc = "send" => sent = i /\ i < SendCount
    /\ pc = "wait" => sent = i + 1 /\ i < SendCount
    /\ pc \in {"read", "decide"} => snd_count = sent
TypeInv == TypeOK /\ SentMatchesIndex

LEMMA TypeInvInit == Init => TypeInv
  BY ConstantsAssumption DEF ConstantsAssumption, Init, TypeInv, TypeOK, SentMatchesIndex

LEMMA TypeInvNext == TypeInv /\ [Next]_vars => TypeInv'
  <1> SUFFICES ASSUME TypeInv, [Next]_vars PROVE TypeInv'
    OBVIOUS
  <1> USE ConstantsAssumption DEF ConstantsAssumption, TypeInv, TypeOK, SentMatchesIndex, workerVars,
          rxVars, wireVars, waitHist, sigHist
  <1>1. ASSUME NEW c \in Commands, Call(c) PROVE TypeInv'
    BY <1>1 DEF Call
  <1>2. CASE AllocFails
    BY <1>2 DEF AllocFails
  <1>3. CASE Send
    <2>1. [call |-> call, cmd |-> racecmd] \in Requests
      BY <1>3 DEF Send
    <2> QED
      BY <1>3, <2>1 DEF Send
  <1>4. CASE WaitSignalled
    BY <1>4 DEF WaitSignalled, EventAfterWait, SentShown
  <1>5. CASE WaitTimeout
    BY <1>5 DEF WaitTimeout, NextAttempt, AttemptsLeft, SentShown
  <1>6. CASE ReadValue
    BY <1>6 DEF ReadValue
  <1>7. CASE Decide
    BY <1>7 DEF Decide
  <1>8. CASE RecvFrame
    <2>1. Head(uart_in) \in Replies /\ Tail(uart_in) \in Seq(Replies)
      <3>1. uart_in \in Seq(Replies) /\ uart_in # <<>>
        BY <1>8 DEF RecvFrame
      <3> QED
        BY <3>1, HeadTailProperties
    <2>2. /\ rx' \in Replies
          /\ uart_in' \in Seq(Replies)
          /\ rcv_count' \in Nat
      <3> HIDE DEF Replies, NoFrame
      <3> QED
        BY <1>8, <2>1 DEF RecvFrame
    <2> QED
      BY <1>8, <2>2 DEF RecvFrame
  <1>9. CASE StoreValue
    BY <1>9 DEF StoreValue, Stored
  <1>10. CASE DeviceReply
    <2>1. Head(uart_out) \in Requests /\ Tail(uart_out) \in Seq(Requests)
      <3>1. uart_out \in Seq(Requests) /\ uart_out # <<>>
        BY <1>10 DEF DeviceReply
      <3> QED
        BY <3>1, HeadTailProperties
    <2>2. Answer(Head(uart_out)) \in Replies
      BY <2>1 DEF Answer
    <2> QED
      BY <1>10, <2>1, <2>2 DEF DeviceReply
  <1>11. CASE LoseRequest
    BY <1>11 DEF LoseRequest
  <1>12. CASE LoseReply
    BY <1>12 DEF LoseReply
  <1>13. CASE ForeignSet
    BY <1>13 DEF ForeignSet
  <1>14. CASE ForeignTake
    BY <1>14 DEF ForeignTake, EventAfterWait
  <1>15. CASE UNCHANGED vars
    BY <1>15 DEF vars
  <1>16. CASE DropFrame
    BY <1>16 DEF DropFrame
  <1>17. CASE SignalEvent
    <2>1. rx.call \in 0..MaxCalls
      BY <1>17 DEF SignalEvent
    <2> QED
      BY <1>17, <2>1 DEF SignalEvent
  <1> QED
    BY <1>1, <1>2, <1>3, <1>4, <1>5, <1>6, <1>7, <1>8, <1>9, <1>10, <1>11, <1>12, <1>13,
       <1>14, <1>15, <1>16, <1>17 DEF Next, Worker, Receiver, Wire, Foreign

\* Type correctness of t5506_send_race_cmd, its callers and the receive thread.
THEOREM TypeCorrect == Spec => []TypeOK
  <1>1. TypeInv => TypeOK
    BY DEF TypeInv
  <1> QED
    BY TypeInvInit, TypeInvNext, <1>1, PTL DEF Spec

-----------------------------------------------------------------------------
(* A reply ends at most one wait, however late it is.                       *)

LEMMA ReleaseNext == TypeOK /\ OneReleasePerReply /\ [Next]_vars => OneReleasePerReply'
  <1> SUFFICES ASSUME TypeOK, OneReleasePerReply, [Next]_vars PROVE OneReleasePerReply'
    OBVIOUS
  <1> USE DEF OneReleasePerReply, waitHist, sigHist
  <1>1. signals \in Nat /\ releases \in Nat
    BY DEF TypeOK
  <1>2. CASE WaitSignalled
    BY <1>1, <1>2 DEF WaitSignalled, EventAfterWait
  <1>3. CASE SignalEvent
    BY <1>1, <1>3 DEF SignalEvent
  <1>4. CASE ForeignSet
    BY <1>1, <1>4 DEF ForeignSet
  <1>5. CASE ForeignTake
    BY <1>1, <1>5 DEF ForeignTake, EventAfterWait
  <1>6. CASE UNCHANGED <<event, signals, releases>>
    BY <1>6
  <1>7. ASSUME ~WaitSignalled, ~SignalEvent, ~ForeignSet, ~ForeignTake
        PROVE  UNCHANGED <<event, signals, releases>>
    BY <1>7 DEF Next, Worker, Receiver, Wire, Foreign, vars, Call, AllocFails, Send, WaitTimeout,
       ReadValue, Decide, RecvFrame, DropFrame, StoreValue, DeviceReply, LoseRequest, LoseReply
  <1> QED
    BY <1>2, <1>3, <1>4, <1>5, <1>6, <1>7

\* The auto-reset event lets one processed reply frame end at most one
\* WaitForSingleObject of t5506_send_race_cmd, for any number of calls and
\* attempts and with replies as late as they like.
THEOREM ReleaseOncePerReply == Spec => []OneReleasePerReply
  <1>1. Init => OneReleasePerReply
    BY DEF Init, OneReleasePerReply
  <1> QED
    BY <1>1, ReleaseNext, TypeCorrect, PTL DEF Spec

-----------------------------------------------------------------------------
(* When replies are in time, at most one message is under way, it belongs   *)
(* to the waiting call, and rsp_value lags behind the event by one store.   *)

Request == [call |-> call, cmd |-> racecmd]

\* Only a waiting call has a message under way, and then in one place only.
OneMessage ==
    /\ pc # "wait" =>
          uart_out = <<>> /\ uart_in = <<>> /\ rxpc # "counted" /\ event = "reset"
    /\ \/ uart_out = <<>> /\ uart_in = <<>> /\ rxpc # "counted"
       \/ /\ uart_out = <<Request>> /\ uart_in = <<>> /\ rxpc # "counted"
          /\ event = "reset"
       \/ /\ uart_out = <<>> /\ uart_in = <<Answer(Request)>> /\ rxpc # "counted"
          /\ event = "reset"
       \/ /\ uart_out = <<>> /\ uart_in = <<>> /\ rxpc = "counted" /\ rx = Answer(Request)
          /\ event = "reset"

\* Who set the event, and whose value rsp_value holds.
Provenance ==
    /\ event = "signalled" => signaller = call
    /\ event = "reset" => answered = signaller
    /\ rxpc # "signalled" => rsp_value = signaller
    /\ rxpc = "signalled" =>
          /\ rx.call = signaller
          /\ rsp_value = IF event = "signalled" THEN answered ELSE prior

InTimeInv ==
    InTime => OneMessage /\ Provenance /\ OwnSignal /\ StaleByAtMostOne

LEMMA Singleton ==
  ASSUME NEW x
  PROVE  /\ Append(<<>>, x) = <<x>>
         /\ Head(<<x>>) = x
         /\ Tail(<<x>>) = <<>>
         /\ <<x>> # <<>>
  OBVIOUS

LEMMA InTimeNext == TypeOK /\ InTimeInv /\ [Next]_vars => InTimeInv'
  <1>a. TypeOK /\ InTime' /\ [Next]_vars => InTime
    BY ConstantsAssumption DEF ConstantsAssumption, TypeOK, InTime, Next, Worker, Receiver,
       Wire, Foreign, ForeignSet, ForeignTake, vars, Call, AllocFails, Send, WaitSignalled,
       WaitTimeout, ReadValue, Decide, RecvFrame, DropFrame, SignalEvent, StoreValue,
       DeviceReply, LoseRequest, LoseReply, waitHist
  <1> SUFFICES ASSUME TypeOK, InTime, InTime', OneMessage, Provenance, OwnSignal,
                      StaleByAtMostOne, [Next]_vars
               PROVE  OneMessage' /\ Provenance' /\ OwnSignal' /\ StaleByAtMostOne'
    BY <1>a DEF InTimeInv
  <1> HIDE DEF Replies, NoFrame, Requests
  <1> USE DEF OneMessage, Provenance, OwnSignal, StaleByAtMostOne, Request,
          workerVars, rxVars, wireVars, waitHist, sigHist
  <1>0. call \in 0..MaxCalls
    BY DEF TypeOK
  <1>1. ASSUME NEW c \in Commands, Call(c)
        PROVE  OneMessage' /\ Provenance' /\ OwnSignal' /\ StaleByAtMostOne'
    BY <1>1 DEF Call
  <1>2. CASE AllocFails
    BY <1>2 DEF AllocFails
  <1>3. CASE Send
    BY <1>3, Singleton DEF Send
  <1>4. CASE WaitSignalled
    BY <1>4 DEF WaitSignalled, EventAfterWait
  <1>5. CASE WaitTimeout
    BY <1>5 DEF WaitTimeout, Quiet, InTime
  <1>6. CASE ReadValue
    BY <1>6 DEF ReadValue
  <1>7. CASE Decide
    BY <1>7 DEF Decide
  <1>8. CASE RecvFrame
    <2>1. /\ pc = "wait" /\ event = "reset" /\ uart_out = <<>>
          /\ uart_in = <<Answer(Request)>>
      BY <1>8, Singleton DEF RecvFrame
    <2>2. rx' = Answer(Request) /\ uart_in' = <<>>
      BY <1>8, <2>1, Singleton DEF RecvFrame
    <2> QED
      BY <1>8, <2>1, <2>2 DEF RecvFrame, Answer
  <1>9. CASE StoreValue
    BY <1>9 DEF StoreValue, Stored
  <1>10. CASE DeviceReply
    <2>1. uart_out = <<Request>> /\ uart_in = <<>> /\ event = "reset" /\ pc = "wait"
      BY <1>10 DEF DeviceReply
    <2>2. uart_out' = <<>> /\ uart_in' = <<Answer(Request)>>
      BY <1>10, <2>1, Singleton DEF DeviceReply
    <2> QED
      BY <1>10, <2>1, <2>2 DEF DeviceReply, Answer
  <1>11. CASE LoseRequest
    BY <1>11, Singleton DEF LoseRequest
  <1>12. CASE LoseReply
    BY <1>12, Singleton DEF LoseReply
  <1>13. CASE Foreign
    BY <1>13 DEF Foreign, ForeignSet, ForeignTake, InTime, TypeOK
  <1>14. CASE UNCHANGED vars
    BY <1>14 DEF vars, Answer
  <1>15. CASE DropFrame
    BY <1>15 DEF DropFrame
  <1>16. CASE SignalEvent
    <2>1. /\ pc = "wait" /\ event = "reset" /\ uart_out = <<>> /\ uart_in = <<>>
          /\ rx = Answer(Request)
      BY <1>16 DEF SignalEvent
    <2>2. rx.call = call
      BY <2>1 DEF Answer
    <2> QED
      BY <1>16, <2>1, <2>2 DEF SignalEvent
  <1> QED
    BY <1>1, <1>2, <1>3, <1>4, <1>5, <1>6, <1>7, <1>8, <1>9, <1>10, <1>11, <1>12, <1>13,
       <1>14, <1>15, <1>16 DEF Next, Worker, Receiver, Wire

LEMMA InTimeAlways == Spec => []InTimeInv
  <1>1. Init => InTimeInv
    BY DEF Init, InTimeInv, OneMessage, Provenance, OwnSignal, StaleByAtMostOne
  <1> QED
    BY <1>1, InTimeNext, TypeCorrect, PTL DEF Spec

\* When no wait expires while a frame is under way and no other instance uses the
\* event, the event that ends the wait of a call was set by a reply to that call.
THEOREM SignalIsOwn == Spec => []OwnSignal
  <1>1. InTimeInv => OwnSignal
    BY DEF InTimeInv, OwnSignal
  <1> QED
    BY <1>1, InTimeAlways, PTL

\* Under the same condition the value a caller reads after a success is that of
\* its own reply or of the answered call just before, never older.
THEOREM ValueStaleByOne == Spec => []StaleByAtMostOne
  <1>1. InTimeInv => StaleByAtMostOne
    BY DEF InTimeInv, StaleByAtMostOne
  <1> QED
    BY <1>1, InTimeAlways, PTL

-----------------------------------------------------------------------------
(* t5506_send_race_cmd keeps the contract of CommandCall.                   *)

\* The variables of the contract, under the mapping of Contract.
callVars == <<pc, sent, ret, snd_count>>

LEMMA ContractStep == TypeInv /\ [Next]_vars => [Contract!Next]_(Contract!vars)
  <1> SUFFICES ASSUME TypeInv, [Next]_vars PROVE [Contract!Next]_(Contract!vars)
    OBVIOUS
  <1> USE DEF Contract!vars
  <1>a. /\ i \in Nat /\ sent \in 0..SendCount /\ SendCount \in Nat
        /\ SentMatchesIndex
    BY ConstantsAssumption DEF ConstantsAssumption, TypeInv, TypeOK
  <1>1. ASSUME NEW c \in Commands, Call(c) PROVE Contract!Begin
    BY <1>1 DEF Call, Contract!Begin
  <1>2. CASE AllocFails
    <2>1. Contract!Refuse
      BY <1>2 DEF AllocFails, Contract!Refuse
    <2> QED
      BY <2>1 DEF Contract!Next
  <1>3. CASE Send
    <2>1. Contract!Write
      BY <1>3, <1>a DEF Send, SentMatchesIndex, Contract!Write
    <2> QED
      BY <2>1 DEF Contract!Next
  <1>4. CASE WaitSignalled
    <2>1. Contract!Succeed
      BY <1>4, <1>a DEF WaitSignalled, SentShown, SentMatchesIndex, Contract!Succeed
    <2> QED
      BY <2>1 DEF Contract!Next
  <1>5. CASE WaitTimeout
    <2>1. CASE AttemptsLeft(NextAttempt)
      BY <1>5, <2>1 DEF WaitTimeout
    <2>2. CASE ~AttemptsLeft(NextAttempt)
      <3>1. sent = SendCount
        BY <1>5, <1>a, <2>2 DEF WaitTimeout, AttemptsLeft, NextAttempt, SentMatchesIndex
      <3>2. Contract!GiveUp
        BY <1>5, <2>2, <3>1 DEF WaitTimeout, Contract!GiveUp
      <3> QED
        BY <3>2 DEF Contract!Next
    <2> QED
      BY <2>1, <2>2
  <1>6. CASE ReadValue \/ Decide
    BY <1>6 DEF ReadValue, Decide
  <1>7. CASE UNCHANGED callVars
    BY <1>7 DEF callVars
  <1>8. CASE Receiver \/ Wire \/ Foreign \/ UNCHANGED vars
    <2>1. UNCHANGED callVars
      BY <1>8 DEF callVars, Receiver, RecvFrame, DropFrame, SignalEvent, StoreValue, Wire,
         DeviceReply, LoseRequest, LoseReply, Foreign, ForeignSet, ForeignTake, vars, workerVars
    <2> QED
      BY <2>1, <1>7
  <1> QED
    BY <1>1, <1>2, <1>3, <1>4, <1>5, <1>6, <1>8 DEF Next, Worker, Contract!Next

\* For any limit of attempts and whatever is lost or late, the retry loop of
\* t5506_send_race_cmd implements the contract of CommandCall: frames are written while a
\* call is under way, at most SendCount of them; a call succeeds only after at least one and
\* its snd_count is their number; it gives up only after exactly SendCount, or at once
\* without a buffer.
THEOREM ContractKept == Spec => CommandContract
  <1>1. Init => Contract!Init
    BY DEF Init, Contract!Init
  <1> QED
    BY <1>1, TypeInvInit, TypeInvNext, ContractStep, PTL DEF Spec, CommandContract, Contract!Spec
=============================================================================
