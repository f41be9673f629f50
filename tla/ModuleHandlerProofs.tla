------------------------- MODULE ModuleHandlerProofs -------------------------
(***************************************************************************)
(* Proofs about ModuleHandler and StatusAggregator, for any set of devices,*)
(* any limits and any bounds.                                              *)
(***************************************************************************)
EXTENDS ModuleHandler, QueueLemmas

-----------------------------------------------------------------------------
(* The library *)

\* What the aggregator may find in the Buffer after a call.
LEMMA LibraryResults ==
    /\ \A current, new : \A r \in Library!AggregateStatus(current, new) : r.buffer \in {current, new}
    /\ \A c : \A r \in Library!GenerateCommand(c) : r.ok => r.buffer = c
    /\ \A r \in Library!GenerateFirstCommand : r.buffer = Empty
<1>1. ASSUME NEW yes, NEW no, NEW r \in Library!Call(yes, no) PROVE r = yes \/ r = no
  BY DEF Library!Call
<1>2. ASSUME NEW current, NEW new, NEW r \in Library!AggregateStatus(current, new)
      PROVE  r.buffer \in {current, new}
  <2>1. r = Library!Ok(new) \/ r = Library!NotOk(current)
    BY <1>1, <1>2 DEF Library!AggregateStatus
  <2> QED
    BY <2>1 DEF Library!Ok, Library!NotOk
<1>3. ASSUME NEW c, NEW r \in Library!GenerateCommand(c), r.ok PROVE r.buffer = c
  <2>1. r = Library!Ok(c) \/ r = Library!NotOk(Empty)
    BY <1>1, <1>3 DEF Library!GenerateCommand
  <2> QED
    BY <1>3, <2>1 DEF Library!Ok, Library!NotOk
<1>4. ASSUME NEW r \in Library!GenerateFirstCommand PROVE r.buffer = Empty
  <2>1. r = Library!Ok(Empty) \/ r = Library!NotOk(Empty)
    BY <1>1, <1>4 DEF Library!GenerateFirstCommand
  <2> QED
    BY <2>1 DEF Library!Ok, Library!NotOk
<1> QED
  BY <1>2, <1>3, <1>4

-----------------------------------------------------------------------------
(* Type correctness *)

\* add_status_to_aggregator, on its three paths.
LEMMA AddStatusType ==
    ASSUME AggTypeOK, NEW d \in Devices, NEW n \in Nat, UNCHANGED <<libraryHandler, responding>>,
           \/ AddFirstStatus(d, n) \/ AddStatusRefused(d)
           \/ \E send \in Library!SendStatusCondition : AddNextStatus(d, n, send)
    PROVE  AggTypeOK'
<1>1. CASE AddFirstStatus(d, n)
  <2>1. defaultCommand' = [defaultCommand EXCEPT ![d] = Empty]
    BY <1>1, LibraryResults DEF AddFirstStatus
  <2>2. <<n>> \in Seq(Nat) /\ <<>> \in Seq(Nat)
    OBVIOUS
  <2> QED
    BY <1>1, <2>1, <2>2 DEF AddFirstStatus, AggTypeOK, Empty
<1>2. CASE AddStatusRefused(d)
  BY <1>2 DEF AddStatusRefused, AggTypeOK
<1>3. CASE \E send \in Library!SendStatusCondition : AddNextStatus(d, n, send)
  <2>1. PICK send \in Library!SendStatusCondition : AddNextStatus(d, n, send)
    BY <1>3
  <2>2. PICK r \in Library!AggregateStatus(status[d], n) :
              /\ status' = [status EXCEPT ![d] = r.buffer]
              /\ messages' = IF send THEN [messages EXCEPT ![d] = Append(@, r.buffer)]
                             ELSE messages
    BY <2>1 DEF AddNextStatus
  <2> DEFINE a == r.buffer
  <2>3. a \in {status[d], n}
    BY LibraryResults
  <2>4. a \in Nat /\ messages[d] \in Seq(Nat)
    BY <2>3 DEF AggTypeOK
  <2>5. Append(messages[d], a) \in Seq(Nat)
    BY <2>4
  <2> HIDE DEF a
  <2>6. status' \in [Devices -> Nat] /\ messages' \in [Devices -> Seq(Nat)]
    BY <2>2, <2>4, <2>5 DEF AggTypeOK, a
  <2> QED
    BY <2>1, <2>6 DEF AddNextStatus, AggTypeOK
<1> QED
  BY <1>1, <1>2, <1>3

\* The operations on aggregated messages.
LEMMA MessagesType ==
    ASSUME AggTypeOK, NEW d \in Devices, UNCHANGED <<libraryHandler, responding>>,
           \/ TakeMessage(d) \/ ForceAggregation(d) \/ RemoveDevice(d) \/ EraseDevice(d)
    PROVE  AggTypeOK'
<1>1. /\ messages[d] # <<>> => Tail(messages[d]) \in Seq(Nat)
      /\ Append(messages[d], status[d]) \in Seq(Nat)
      /\ <<>> \in Seq(Nat)
  <2>1. messages[d] \in Seq(Nat) /\ status[d] \in Nat
    BY DEF AggTypeOK
  <2> QED
    BY <2>1
<1>2. CASE TakeMessage(d)
  BY <1>1, <1>2 DEF TakeMessage, AggTypeOK
<1>3. CASE ForceAggregation(d)
  BY <1>1, <1>3 DEF ForceAggregation, Forced, AggTypeOK
<1>4. CASE RemoveDevice(d)
  BY <1>1, <1>4 DEF RemoveDevice, AggTypeOK
<1>5. CASE EraseDevice(d)
  BY <1>1, <1>5 DEF EraseDevice, AggTypeOK, Empty
<1> QED
  BY <1>2, <1>3, <1>4, <1>5

\* The timer.
LEMMA TimerType ==
    ASSUME AggTypeOK, NEW d \in Devices, UNCHANGED <<libraryHandler, responding>>,
           TimerExpires(d) \/ TimerForces(d) \/ UnsetTimeoutedReady
    PROVE  AggTypeOK'
<1>1. Append(messages[d], status[d]) \in Seq(Nat)
  <2>1. messages[d] \in Seq(Nat) /\ status[d] \in Nat
    BY DEF AggTypeOK
  <2> QED
    BY <2>1
<1>2. CASE TimerExpires(d)
  BY <1>2 DEF TimerExpires, AggTypeOK
<1>3. CASE TimerForces(d)
  BY <1>1, <1>3 DEF TimerForces, Forced, AggTypeOK
<1>4. CASE UnsetTimeoutedReady
  BY <1>4 DEF UnsetTimeoutedReady, AggTypeOK
<1> QED
  BY <1>2, <1>3, <1>4

\* The commands.
LEMMA CommandsType ==
    ASSUME AggTypeOK, NEW d \in Devices, NEW c \in Nat, UNCHANGED <<libraryHandler, responding>>,
           UpdateCommand(d, c) \/ ConsumeCommand(d)
    PROVE  AggTypeOK'
<1>1. /\ commands[d] # <<>> => Tail(commands[d]) \in Seq(Nat) /\ Head(commands[d]) \in Nat
      /\ Append(commands[d], c) \in Seq(Nat)
      /\ commands[d] # <<>> => Append(Tail(commands[d]), c) \in Seq(Nat)
      /\ Len(commands[d]) >= MaxExternalCommands => commands[d] # <<>>
  <2>1. commands[d] \in Seq(Nat)
    BY DEF AggTypeOK
  <2>2. Len(commands[d]) >= MaxExternalCommands => commands[d] # <<>>
    BY AggregatorAssumption, EmptySeq
  <2> QED
    BY <2>1, <2>2
<1>2. CASE UpdateCommand(d, c)
  <2>1. Enqueued(commands[d], c) \in Seq(Nat)
    <3>1. Len(commands[d]) \in Nat
      BY LenProperties DEF AggTypeOK
    <3> QED
      BY <1>1, <3>1, AggregatorAssumption DEF Enqueued
  <2> QED
    BY <1>2, <2>1 DEF UpdateCommand, AggTypeOK
<1>3. CASE ConsumeCommand(d)
  BY <1>1, <1>3 DEF ConsumeCommand, AggTypeOK
<1> QED
  BY <1>2, <1>3

\* The handler takes an entry of fromInternalQueue.
LEMMA TakesType ==
    ASSUME TypeOK, NEW kind, NEW p \in PCs, Takes(kind, p)
    PROVE  /\ Head(fromInternal).dev \in Devices /\ Head(fromInternal).n \in Nat
           /\ fromInternal' \in Seq(Entries)
           /\ pc' \in PCs /\ cur' \in Devices /\ todo' \in SUBSET Devices /\ hand' \in Nat
<1>1. fromInternal \in Seq(Entries) /\ fromInternal # <<>>
  BY DEF TypeOK, Takes
<1>2. Head(fromInternal) \in Entries /\ Tail(fromInternal) \in Seq(Entries)
  BY <1>1
<1>3. Head(fromInternal).dev \in Devices /\ Head(fromInternal).n \in Nat
  BY <1>2 DEF Entries
<1> QED
  BY <1>2, <1>3 DEF Takes, TypeOK

\* What is pushed to the external client, and what is sent to the device.
LEMMA PushedType ==
    ASSUME TypeOK, NEW d \in Devices, NEW c \in Nat
    PROVE  /\ OldestMessage(d) \in Nat
           /\ NextCommand(d) \in Nat
           /\ PushStatus(d) => toExternal' \in [Devices -> Nat]
           /\ Sent(d, c) => lastCommand' \in [Devices -> Nat] /\ sentCommands' \in [Devices -> SUBSET Nat]
<1>1. /\ messages[d] \in Seq(Nat) /\ commands[d] \in Seq(Nat) /\ defaultCommand[d] \in Nat
  BY DEF TypeOK, AggTypeOK
<1>2. OldestMessage(d) \in Nat
  BY <1>1 DEF OldestMessage, Empty
<1>3. NextCommand(d) \in Nat
  BY <1>1 DEF NextCommand
<1>4. ASSUME PushStatus(d) PROVE toExternal' \in [Devices -> Nat]
  BY <1>2, <1>4 DEF PushStatus, TypeOK
<1>5. ASSUME Sent(d, c)
      PROVE  lastCommand' \in [Devices -> Nat] /\ sentCommands' \in [Devices -> SUBSET Nat]
  BY <1>5 DEF Sent, TypeOK
<1> QED
  BY <1>2, <1>3, <1>4, <1>5

\* The steps of the handler thread.
LEMMA HandlerType ==
    ASSUME TypeOK, HandlerThread
    PROVE  TypeOK'
<1> USE DEF PCs, Goto, handlerVars, forwardVars, outVars, envVars, paceVars
<1>0. AggTypeOK /\ cur \in Devices
  BY DEF TypeOK
<1>1. CASE CheckTimeouted
  BY <1>1 DEF CheckTimeouted, aggVars, TypeOK, AggTypeOK
<1>2. CASE CheckNextDevice
  BY <1>2 DEF CheckNextDevice, aggVars, TypeOK, AggTypeOK
<1>3. CASE DrainMessage
  <2>1. AggTypeOK'
    BY <1>0, <1>3, MessagesType DEF DrainMessage, SendAggregatedStatus
  <2>2. toExternal' \in [Devices -> Nat]
    BY <1>0, <1>3, PushedType DEF DrainMessage, SendAggregatedStatus
  <2> QED
    BY <1>3, <2>1, <2>2 DEF DrainMessage, TypeOK
<1>4. CASE DrainDone
  BY <1>4 DEF DrainDone, aggVars, TypeOK, AggTypeOK
<1>5. CASE CheckDone
  <2>1. AggTypeOK'
    BY <1>0, <1>5, TimerType DEF CheckDone
  <2> QED
    BY <1>5, <2>1 DEF CheckDone, TypeOK
<1>6. CASE NoMessage
  BY <1>6 DEF NoMessage, aggVars, TypeOK, AggTypeOK
<1>7. CASE HandleConnect
  BY <1>7, TakesType DEF HandleConnect, aggVars, TypeOK, AggTypeOK
<1>8. CASE HandleStatusRefused
  <2>1. Takes("status", "wait")
    BY <1>8 DEF HandleStatusRefused
  <2>2. AggTypeOK'
    <3>1. CASE AddStatusRefused(Head(fromInternal).dev)
      BY <1>0, <1>8, <2>1, <3>1, TakesType, AddStatusType DEF HandleStatusRefused
    <3>2. CASE UNCHANGED aggVars
      BY <1>0, <1>8, <3>2 DEF HandleStatusRefused, aggVars, AggTypeOK
    <3> QED
      BY <1>8, <3>1, <3>2 DEF HandleStatusRefused
  <2> QED
    BY <1>8, <2>1, <2>2, TakesType DEF HandleStatusRefused, TypeOK
<1>9. CASE HandleStatus
  <2>1. Takes("status", "command")
    BY <1>9 DEF HandleStatus
  <2>2. AggTypeOK'
    BY <1>0, <1>9, <2>1, TakesType, AddStatusType DEF HandleStatus
  <2>3. remaining' \in Nat
    <3>1. messages'[Head(fromInternal).dev] \in Seq(Nat)
      BY <2>1, <2>2, TakesType DEF AggTypeOK
    <3> QED
      BY <1>9, <3>1, LenProperties DEF HandleStatus
  <2> QED
    BY <1>9, <2>1, <2>2, <2>3, TakesType DEF HandleStatus, TypeOK
<1>10. CASE GetCommandThrows
  BY <1>10 DEF GetCommandThrows, aggVars, TypeOK, AggTypeOK
<1>11. CASE GetCommand
  <2>1. AggTypeOK'
    BY <1>0, <1>11, CommandsType DEF GetCommand
  <2>2. hand' \in Nat
    BY <1>0, <1>11, PushedType, LibraryResults DEF GetCommand, Empty
  <2> QED
    BY <1>11, <2>1, <2>2 DEF GetCommand, TypeOK
<1>12. CASE GetCommandFails
  <2>1. AggTypeOK'
    BY <1>0, <1>12, CommandsType DEF GetCommandFails
  <2> QED
    BY <1>12, <2>1 DEF GetCommandFails, TypeOK
<1>13. CASE GetCommandUnsupported
  BY <1>13 DEF GetCommandUnsupported, aggVars, TypeOK, AggTypeOK
<1>14. CASE Respond
  <2>1. lastCommand' \in [Devices -> Nat] /\ sentCommands' \in [Devices -> SUBSET Nat]
    BY <1>14, PushedType DEF Respond, TypeOK
  <2> QED
    BY <1>14, <2>1 DEF Respond, aggVars, TypeOK, AggTypeOK, Empty
<1>15. CASE SendAggregated
  <2>1. AggTypeOK'
    BY <1>0, <1>15, MessagesType DEF SendAggregated, SendAggregatedStatus
  <2>2. toExternal' \in [Devices -> Nat]
    BY <1>0, <1>15, PushedType DEF SendAggregated, SendAggregatedStatus
  <2> QED
    BY <1>15, <2>1, <2>2 DEF SendAggregated, TypeOK
<1>16. CASE SendDone
  BY <1>16 DEF SendDone, aggVars, TypeOK, AggTypeOK
<1>17. CASE HandleDisconnectInvalid
  BY <1>17, TakesType DEF HandleDisconnectInvalid, aggVars, TypeOK, AggTypeOK
<1>18. CASE HandleDisconnect
  BY <1>18, TakesType DEF HandleDisconnect, aggVars, TypeOK, AggTypeOK
<1>19. CASE ForceOnDisconnect
  <2>1. AggTypeOK'
    BY <1>0, <1>19, MessagesType DEF ForceOnDisconnect
  <2> QED
    BY <1>19, <2>1 DEF ForceOnDisconnect, TypeOK
<1>20. CASE SendLast
  <2>1. AggTypeOK'
    BY <1>0, <1>20, MessagesType DEF SendLast, SendAggregatedStatus
  <2>2. toExternal' \in [Devices -> Nat]
    BY <1>0, <1>20, PushedType DEF SendLast, SendAggregatedStatus
  <2> QED
    BY <1>20, <2>1, <2>2 DEF SendLast, TypeOK
<1>21. CASE Remove
  <2>1. AggTypeOK'
    BY <1>0, <1>21, MessagesType DEF Remove
  <2> QED
    BY <1>21, <2>1 DEF Remove, TypeOK
<1> QED
  BY <1>1, <1>2, <1>3, <1>4, <1>5, <1>6, <1>7, <1>8, <1>9, <1>10, <1>11, <1>12, <1>13,
     <1>14, <1>15, <1>16, <1>17, <1>18, <1>19, <1>20, <1>21 DEF HandlerThread

\* The steps of the forwarding thread, the io threads and the environment.
LEMMA OthersType ==
    ASSUME TypeOK,
           \/ ForwardTake \/ ForwardPush \/ ModuleBinaryStalls \/ ModuleBinaryRecovers
           \/ \E d \in Devices : IoThread(d) \/ Environment(d)
    PROVE  TypeOK'
<1> USE DEF handlerVars, forwardVars, outVars, envVars, paceVars
<1>0. AggTypeOK
  BY DEF TypeOK
<1>1. CASE ForwardTake
  <2>1. forwards \in Seq(Devices) /\ forwards # <<>>
    BY <1>1 DEF ForwardTake, TypeOK
  <2>2. Head(forwards) \in Devices /\ Tail(forwards) \in Seq(Devices)
    BY <2>1
  <2>3. AggTypeOK'
    BY <1>0, <1>1, <2>2, CommandsType DEF ForwardTake, aggVars, AggTypeOK
  <2>4. forwardHand' \in {<<>>} \cup (Devices \X Nat)
    <3>1. CASE IsDeviceValid(Head(forwards)) /\ HasCommand(Head(forwards), Head(forwards) \in pushDevices)
      <4>1. PICK generated \in Library!GenerateCommand(NextCommand(Head(forwards))) :
                 forwardHand' = IF generated.ok THEN <<Head(forwards), generated.buffer>> ELSE <<>>
        BY <1>1, <3>1 DEF ForwardTake
      <4>2. generated.ok => generated.buffer \in Nat
        BY <2>2, PushedType, LibraryResults
      <4> QED
        BY <2>2, <4>1, <4>2
    <3>2. CASE forwardHand' = forwardHand
      BY <3>2 DEF TypeOK
    <3> QED
      BY <1>1, <3>1, <3>2 DEF ForwardTake
  <2> QED
    BY <1>1, <2>2, <2>3, <2>4 DEF ForwardTake, TypeOK
<1>2. CASE ForwardPush
  <2>1. forwardHand[1] \in Devices /\ forwardHand[2] \in Nat
    BY <1>2 DEF ForwardPush, TypeOK
  <2>2. lastCommand' \in [Devices -> Nat] /\ sentCommands' \in [Devices -> SUBSET Nat]
    BY <1>2, <2>1, PushedType DEF ForwardPush
  <2> QED
    BY <1>2, <2>2 DEF ForwardPush, aggVars, TypeOK, AggTypeOK
<1>3. CASE ModuleBinaryStalls \/ ModuleBinaryRecovers
  <2>1. responding' \in BOOLEAN
    BY <1>3, Zenon DEF ModuleBinaryStalls, ModuleBinaryRecovers
  <2>2. outages' = outages \/ outages' = outages + 1
    BY <1>3, Zenon DEF ModuleBinaryStalls, ModuleBinaryRecovers
  <2>3. outages' \in Nat
    BY <2>2 DEF TypeOK
  <2>4. UNCHANGED <<aggVars, handlerVars, forwardVars, outVars, libraryHandler, pushDevices,
                    connected, statusCount, commandCount, paceVars>>
    BY <1>3 DEF ModuleBinaryStalls, ModuleBinaryRecovers
  <2> QED
    BY <2>1, <2>3, <2>4 DEF aggVars, TypeOK, AggTypeOK
<1>4. ASSUME NEW d \in Devices, IoThread(d) PROVE TypeOK'
  <2>1. AggTypeOK'
    BY <1>0, <1>4, TimerType, MessagesType
       DEF IoThread, TimerTick, TimerCallback, PostedErase
  <2> QED
    BY <1>4, <2>1 DEF IoThread, TimerTick, TimerCallback, PostedErase, TypeOK
<1>5. ASSUME NEW d \in Devices, Environment(d) PROVE TypeOK'
  <2>1. CASE CommandArrives(d)
    <3>1. commandCount[d] + 1 \in Nat
      BY DEF TypeOK
    <3>2. AggTypeOK'
      BY <1>0, <2>1, <3>1, CommandsType DEF CommandArrives
    <3>3. Append(forwards, d) \in Seq(Devices)
      BY DEF TypeOK
    <3> QED
      BY <2>1, <3>1, <3>2, <3>3 DEF CommandArrives, TypeOK
  <2>2. CASE ExternalForce(d)
    <3>1. AggTypeOK'
      BY <1>0, <2>2, MessagesType DEF ExternalForce
    <3> QED
      BY <2>2, <3>1 DEF ExternalForce, TypeOK
  <2>3. CASE ServerConnect(d) \/ ServerStatus(d) \/ ServerDisconnect(d)
    <3>1. PICK kind \in {"connect", "status", "disconnect"}, n \in Nat : Announce(kind, d, n)
      BY <2>3 DEF ServerConnect, ServerStatus, ServerDisconnect, Empty, TypeOK
    <3>2. [kind |-> kind, dev |-> d, n |-> n] \in Entries
      BY DEF Entries
    <3>3. fromInternal' \in Seq(Entries)
      BY <3>1, <3>2, PushProperties DEF Announce, TypeOK
    <3>4. /\ connected' \in SUBSET Devices /\ kicked' \in SUBSET Devices
          /\ statusCount' \in [Devices -> Nat]
      BY <2>3, SMTT(30) DEF ServerConnect, ServerStatus, ServerDisconnect, TypeOK
    <3> QED
      BY <3>1, <3>3, <3>4 DEF Announce, aggVars, TypeOK, AggTypeOK
  <2> QED
    BY <1>5, <2>1, <2>2, <2>3 DEF Environment
<1> QED
  BY <1>1, <1>2, <1>3, <1>4, <1>5

\* Every step keeps the variables in their domains.
LEMMA TypeStep == TypeOK /\ [Next]_vars => TypeOK'
<1> SUFFICES ASSUME TypeOK, [Next]_vars PROVE TypeOK'
  OBVIOUS
<1>1. CASE Next
  BY <1>1, HandlerType, OthersType DEF Next
<1>2. CASE UNCHANGED vars
  BY <1>2 DEF vars, aggVars, handlerVars, forwardVars, outVars, envVars, paceVars, TypeOK, AggTypeOK
<1> QED
  BY <1>1, <1>2

\* Type correctness: in particular addStatusToAggregatorRc never goes below 0, so that
\* handleStatus sends at most as many statuses as the aggregator announced.
THEOREM HandlerTypeCorrect == Spec => []TypeOK
<1>1. Init => TypeOK
  <2> SUFFICES ASSUME Init PROVE TypeOK
    OBVIOUS
  <2>1. AggTypeOK
    <3>1. responding \in BOOLEAN /\ timeoutedReady \in BOOLEAN
      BY DEF Init, AggInit
    <3>2. messages \in [Devices -> Seq(Nat)] /\ commands \in [Devices -> Seq(Nat)]
      BY DEF Init, AggInit
    <3> QED
      BY <3>1, <3>2 DEF Init, AggInit, AggTypeOK, Empty
  <2>2. pushDevices \in SUBSET Devices
    BY DEF Init, Library!ForwardCommandOnReceive
  <2> QED
    BY <2>1, <2>2 DEF Init, TypeOK, PCs, Empty
<1> QED
  BY <1>1, TypeStep, PTL DEF Spec

-----------------------------------------------------------------------------
(* Commands: the inductive invariant *)

\* The queue holds the newest commands, without a gap; written with sums, so that the
\* i-th of them is known without looking at its neighbours.
Window(q, newest) ==
    /\ Len(q) <= MaxExternalCommands
    /\ \A i \in 1..Len(q) : q[i] + Len(q) = newest + i

\* x is older than every command waiting for d.
Older(d, x) == x + Len(commands[d]) <= commandCount[d]

\* The handler thread has a command for d in its hand.
Answering(d) == pc = "respond" /\ cur = d

\* What has left the queue is older than what is in it.
QueueInv(d) ==
    /\ Window(commands[d], commandCount[d])
    /\ Older(d, defaultCommand[d])
    /\ Older(d, lastCommand[d])
    /\ \A x \in sentCommands[d] : x # Empty /\ Older(d, x)
    /\ Answering(d) => Older(d, hand)

\* For a pull device: last sent, in the hand, default command are in the order of arrival.
PullInv(d) ==
    /\ defaultCommand[d] # Empty => defaultCommand[d] >= lastCommand[d]
    /\ Answering(d) /\ hand # Empty => hand >= lastCommand[d]
    /\ Answering(d) /\ defaultCommand[d] # Empty => defaultCommand[d] >= hand

\* For a push-only device: what the handler has in its hand was not sent.
PushInv(d) == Answering(d) => hand \notin sentCommands[d]

\* The forwarding thread works for push-only devices, and what it has in its hand was
\* neither sent nor taken by the handler.
ForwardInv ==
    /\ \A i \in 1..Len(forwards) : forwards[i] \in pushDevices
    /\ forwardHand # <<>> =>
          /\ forwardHand[1] \in pushDevices
          /\ forwardHand[2] # Empty
          /\ Older(forwardHand[1], forwardHand[2])
          /\ forwardHand[2] \notin sentCommands[forwardHand[1]]
          /\ Answering(forwardHand[1]) => forwardHand[2] # hand

CommandInv ==
    /\ \A d \in Devices : QueueInv(d)
    /\ \A d \in Devices \ pushDevices : PullInv(d)
    /\ \A d \in pushDevices : PushInv(d)
    /\ ForwardInv

-----------------------------------------------------------------------------
(* Commands: what the aggregator's operations do to a window *)

\* addExternalCommand of the next command keeps a window, full or not.
LEMMA EnqueuedWindow ==
    ASSUME NEW q \in Seq(Nat), NEW n \in Nat, Window(q, n)
    PROVE  /\ Window(Enqueued(q, n + 1), n + 1)
           /\ Len(Enqueued(q, n + 1)) \in Nat
           /\ Len(Enqueued(q, n + 1)) <= Len(q) + 1
<1> DEFINE r == Enqueued(q, n + 1)
<1>0. Len(q) \in Nat /\ n + 1 \in Nat
  BY LenProperties
<1>1. /\ Len(q) <= MaxExternalCommands
      /\ \A i \in 1..Len(q) : q[i] + Len(q) = n + i
  BY Zenon DEF Window
<1>2. CASE Len(q) < MaxExternalCommands
  <2>1. /\ Len(r) = Len(q) + 1
        /\ \A i \in 1..Len(q) : q[i] \in Nat /\ r[i] = q[i]
        /\ r[Len(q) + 1] = n + 1
    BY <1>0, <1>2, PushProperties DEF Enqueued
  <2> HIDE DEF r
  <2>2. ASSUME NEW i \in 1..Len(r) PROVE r[i] + Len(r) = (n + 1) + i
    <3>1. CASE i = Len(q) + 1
      BY <1>0, <2>1, <3>1
    <3>2. CASE i \in 1..Len(q)
      <4>1. i \in Nat /\ r[i] \in Nat /\ r[i] + Len(q) = n + i
        BY <1>0, <1>1, <2>1, <3>2
      <4>2. r[i] + (Len(q) + 1) = (n + 1) + i
        BY <1>0, <4>1
      <4> QED
        BY <2>1, <4>2, Zenon
    <3> QED
      BY <1>0, <2>1, <3>1, <3>2
  <2>3. Len(r) <= MaxExternalCommands
    BY <1>0, <1>2, <2>1, AggregatorAssumption
  <2>4. Window(r, n + 1)
    BY <2>2, <2>3 DEF Window
  <2> QED
    BY <1>0, <2>1, <2>4 DEF r
<1>3. CASE ~(Len(q) < MaxExternalCommands)
  <2>0. q # <<>>
    BY <1>3, AggregatorAssumption, EmptySeq
  <2> DEFINE t == Tail(q)
  <2>1. /\ t \in Seq(Nat)
        /\ Len(t) = Len(q) - 1
        /\ \A i \in 1..Len(t) : t[i] = q[i + 1]
        /\ \A i \in 1..Len(q) : q[i] \in Nat
        /\ Len(q) \in Nat \ {0}
    BY <2>0, PopProperties
  <2>2. r = Append(t, n + 1)
    BY <1>3 DEF Enqueued
  <2> HIDE DEF t, r
  <2>3. /\ Len(r) = Len(t) + 1
        /\ \A i \in 1..Len(t) : r[i] = t[i]
        /\ r[Len(t) + 1] = n + 1
    BY <1>0, <2>1, <2>2, PushProperties
  <2>4. Len(r) = Len(q) /\ r[Len(q)] = n + 1
    BY <2>1, <2>3
  <2>5. ASSUME NEW i \in 1..Len(r) PROVE r[i] + Len(r) = (n + 1) + i
    <3>1. CASE i = Len(q)
      BY <1>0, <2>4, <3>1
    <3>2. CASE i \in 1..Len(t)
      <4>1. r[i] = q[i + 1] /\ i + 1 \in 1..Len(q)
        BY <2>1, <2>3, <3>2
      <4>2. q[i + 1] \in Nat /\ q[i + 1] + Len(q) = n + (i + 1)
        BY <1>1, <2>1, <4>1
      <4> QED
        BY <1>0, <2>4, <4>1, <4>2
    <3> QED
      BY <2>1, <2>4, <3>1, <3>2
  <2>6. Window(r, n + 1)
    BY <1>1, <2>4, <2>5 DEF Window
  <2> QED
    BY <1>0, <2>4, <2>6 DEF r
<1> QED
  BY <1>2, <1>3

\* consumeCommand of a command keeps a window, and takes the oldest one.
LEMMA TailWindow ==
    ASSUME NEW q \in Seq(Nat), q # <<>>, NEW n \in Nat, Window(q, n)
    PROVE  /\ Window(Tail(q), n)
           /\ Head(q) \in Nat
           /\ Len(Tail(q)) \in Nat
           /\ Len(Tail(q)) + 1 = Len(q)
           /\ Head(q) + Len(q) = n + 1
<1> DEFINE t == Tail(q)
<1>1. /\ Head(q) = q[1]
      /\ Len(t) = Len(q) - 1
      /\ \A i \in 1..Len(t) : t[i] = q[i + 1]
      /\ \A i \in 1..Len(q) : q[i] \in Nat
      /\ Len(q) \in Nat \ {0}
  BY PopProperties
<1>2. /\ Len(q) <= MaxExternalCommands
      /\ \A i \in 1..Len(q) : q[i] + Len(q) = n + i
  BY Zenon DEF Window
<1> HIDE DEF t
<1>3. ASSUME NEW i \in 1..Len(t) PROVE t[i] + Len(t) = n + i
  <2>1. t[i] = q[i + 1] /\ i + 1 \in 1..Len(q)
    BY <1>1
  <2>2. t[i] \in Nat /\ t[i] + Len(q) = n + (i + 1)
    BY <1>1, <1>2, <2>1
  <2>3. i \in Nat /\ Len(t) = Len(q) - 1 /\ Len(q) \in Nat \ {0}
    BY <1>1
  <2>4. \A x, l, k \in Nat : x + l = n + (k + 1) => x + (l - 1) = n + k
    OBVIOUS
  <2>5. t[i] + (Len(q) - 1) = n + i
    BY <2>2, <2>3, <2>4
  <2> QED
    BY <2>3, <2>5, Zenon
<1>4. q[1] \in Nat /\ q[1] + Len(q) = n + 1
  BY <1>1, <1>2
<1>5. Len(t) <= MaxExternalCommands
  BY <1>1, <1>2, AggregatorAssumption
<1>6. Window(t, n)
  BY <1>3, <1>5 DEF Window
<1>7. Len(t) \in Nat /\ Len(t) + 1 = Len(q)
  BY <1>1
<1> QED
  BY <1>1, <1>4, <1>6, <1>7 DEF t

\* consumeCommand: the next command becomes the default command; an external one is
\* newer than all that left the queue before it.
LEMMA ConsumeEffect ==
    ASSUME TypeOK, NEW d \in Devices, QueueInv(d), ConsumeCommand(d)
    PROVE  /\ commands' = [commands EXCEPT ![d] = commands'[d]]
           /\ defaultCommand' = [defaultCommand EXCEPT ![d] = NextCommand(d)]
           /\ NextCommand(d) \in Nat
           /\ Window(commands'[d], commandCount[d])
           /\ Len(commands'[d]) \in Nat /\ Len(commands'[d]) <= Len(commands[d])
           /\ NextCommand(d) + Len(commands'[d]) <= commandCount[d]
           /\ \/ commands[d] = <<>> /\ NextCommand(d) = defaultCommand[d]
              \/ /\ commands[d] # <<>>
                 /\ NextCommand(d) + Len(commands[d]) = commandCount[d] + 1
<1>0. /\ commands \in [Devices -> Seq(Nat)] /\ commands[d] \in Seq(Nat)
      /\ defaultCommand \in [Devices -> Nat] /\ commandCount[d] \in Nat
      /\ Len(commands[d]) \in Nat
  <2>1. commands[d] \in Seq(Nat)
    BY DEF TypeOK, AggTypeOK
  <2> QED
    BY <2>1, LenProperties DEF TypeOK, AggTypeOK
<1>1. CASE commands[d] = <<>>
  <2>1. commands'[d] = commands[d] /\ NextCommand(d) = defaultCommand[d]
    BY <1>0, <1>1 DEF ConsumeCommand, NextCommand
  <2> QED
    BY <1>0, <1>1, <2>1 DEF ConsumeCommand, QueueInv, Older
<1>2. CASE commands[d] # <<>>
  <2>1. commands'[d] = Tail(commands[d]) /\ NextCommand(d) = Head(commands[d])
    BY <1>0, <1>2 DEF ConsumeCommand, NextCommand
  <2>2. /\ Window(Tail(commands[d]), commandCount[d])
        /\ Head(commands[d]) \in Nat
        /\ Len(Tail(commands[d])) \in Nat
        /\ Len(Tail(commands[d])) + 1 = Len(commands[d])
        /\ Head(commands[d]) + Len(commands[d]) = commandCount[d] + 1
    BY <1>0, <1>2, TailWindow DEF QueueInv
  <2>3. /\ commands' = [commands EXCEPT ![d] = commands'[d]]
        /\ defaultCommand' = [defaultCommand EXCEPT ![d] = NextCommand(d)]
    BY <1>0, <1>2, <2>1 DEF ConsumeCommand
  <2> QED
    BY <1>0, <1>2, <2>1, <2>2, <2>3
<1> QED
  BY <1>1, <1>2

-----------------------------------------------------------------------------
(* Commands: which steps touch them *)

\* A step that puts nothing in the handler's hand.
KeepsAnswer == pc' = "respond" => UNCHANGED <<pc, cur, hand>>

\* What a step other than those on commands leaves alone.
takenVars == <<commandCount, lastCommand, sentCommands, forwards, forwardHand, pushDevices>>

KeepsCommands == KeepsAnswer /\ UNCHANGED <<takenVars, commands, defaultCommand>>

\* A device is registered or erased.
ResetsCommands(d) ==
    /\ KeepsAnswer
    /\ commands' = [commands EXCEPT ![d] = <<>>]
    /\ defaultCommand' = [defaultCommand EXCEPT ![d] = Empty]
    /\ UNCHANGED takenVars

\* Every step is one of those.
LEMMA CommandSteps ==
    ASSUME TypeOK, [Next]_vars
    PROVE  \/ KeepsCommands
           \/ \E d \in Devices : ResetsCommands(d) \/ CommandArrives(d)
           \/ GetCommand \/ GetCommandFails \/ Respond
           \/ ForwardTake \/ ForwardPush
<1> USE DEF handlerVars, forwardVars, outVars, envVars, aggVars, Goto,
            KeepsCommands, KeepsAnswer, takenVars
<1>1. CASE UNCHANGED vars
  BY <1>1 DEF vars
<1>2. CASE CheckTimeouted \/ CheckNextDevice \/ DrainMessage \/ DrainDone \/ CheckDone
  BY <1>2 DEF CheckTimeouted, CheckNextDevice, DrainMessage, DrainDone, CheckDone,
              SendAggregatedStatus, TakeMessage, UnsetTimeoutedReady
<1>3. CASE \/ NoMessage \/ HandleConnect \/ HandleDisconnectInvalid \/ HandleDisconnect
           \/ HandleStatusRefused
  BY <1>3 DEF NoMessage, HandleConnect, HandleDisconnectInvalid, HandleDisconnect,
              HandleStatusRefused, Takes, AddStatusRefused
<1>4. CASE HandleStatus
  <2> DEFINE d == Head(fromInternal).dev
             n == Head(fromInternal).n
  <2>1. Takes("status", "command") /\ UNCHANGED <<forwardVars, outVars, envVars, paceVars>>
    BY <1>4 DEF HandleStatus
  <2>2. CASE AddFirstStatus(d, n)
    <3>1. defaultCommand' = [defaultCommand EXCEPT ![d] = Empty]
      BY <2>2, LibraryResults DEF AddFirstStatus
    <3>2. d \in Devices
      BY <2>1, TakesType DEF PCs
    <3>3. ResetsCommands(d)
      BY <2>1, <2>2, <3>1 DEF AddFirstStatus, Takes, ResetsCommands
    <3> QED
      BY <3>2, <3>3
  <2>3. CASE \E send \in Library!SendStatusCondition : AddNextStatus(d, n, send)
    BY <2>1, <2>3 DEF AddNextStatus, Takes
  <2> QED
    BY <1>4, <2>2, <2>3 DEF HandleStatus
<1>5. CASE \/ GetCommandThrows \/ GetCommandUnsupported \/ SendAggregated \/ SendDone
  BY <1>5 DEF GetCommandThrows, GetCommandUnsupported, SendAggregated, SendDone,
              SendAggregatedStatus, TakeMessage
<1>6. CASE ForceOnDisconnect \/ SendLast \/ Remove
  BY <1>6 DEF ForceOnDisconnect, SendLast, Remove, ForceAggregation, RemoveDevice,
              SendAggregatedStatus, TakeMessage
<1>7. CASE ModuleBinaryStalls \/ ModuleBinaryRecovers
  BY <1>7 DEF ModuleBinaryStalls, ModuleBinaryRecovers
<1>8. ASSUME NEW d \in Devices, IoThread(d)
      PROVE  KeepsCommands \/ ResetsCommands(d)
  BY <1>8 DEF IoThread, TimerTick, TimerCallback, PostedErase, TimerExpires, TimerForces,
              EraseDevice, ResetsCommands
<1>9. ASSUME NEW d \in Devices,
             ExternalForce(d) \/ ServerConnect(d) \/ ServerStatus(d) \/ ServerDisconnect(d)
      PROVE  KeepsCommands
  BY <1>9 DEF ExternalForce, ForceAggregation, ServerConnect, ServerStatus, ServerDisconnect,
              Announce
<1> QED
  BY <1>1, <1>2, <1>3, <1>4, <1>5, <1>6, <1>7, <1>8, <1>9
     DEF Next, HandlerThread, Environment

-----------------------------------------------------------------------------
(* Commands: each of those steps preserves the invariant *)

\* The types the steps below need.
LEMMA CommandTypes ==
    ASSUME TypeOK, NEW d \in Devices
    PROVE  /\ commands[d] \in Seq(Nat) /\ Len(commands[d]) \in Nat
           /\ defaultCommand[d] \in Nat /\ lastCommand[d] \in Nat
           /\ commandCount[d] \in Nat /\ hand \in Nat
           /\ \A x \in sentCommands[d] : x \in Nat
<1>1. commands[d] \in Seq(Nat)
  BY DEF TypeOK, AggTypeOK
<1> QED
  BY <1>1, LenProperties DEF TypeOK, AggTypeOK

\* What is true of an empty queue.
LEMMA EmptyWindow ==
    ASSUME NEW n \in Nat
    PROVE  Window(<<>>, n) /\ Len(<<>>) = 0
BY AggregatorAssumption DEF Window

\* Steps that leave the commands alone.
LEMMA KeepsPreserves ==
    ASSUME CommandInv, KeepsCommands
    PROVE  CommandInv'
BY DEF CommandInv, QueueInv, PullInv, PushInv, ForwardInv, Answering, Older, KeepsCommands,
       KeepsAnswer, takenVars

\* A registration or an erasure empties one queue.
LEMMA ResetsPreserves ==
    ASSUME TypeOK, CommandInv, NEW e \in Devices, ResetsCommands(e)
    PROVE  CommandInv'
<1>0. /\ commands \in [Devices -> Seq(Nat)] /\ defaultCommand \in [Devices -> Nat]
      /\ pushDevices \subseteq Devices
  BY DEF TypeOK, AggTypeOK
<1>1. ASSUME NEW d \in Devices, NEW x \in Nat, Older(d, x)
      PROVE  x + Len(commands'[d]) <= commandCount[d]
  <2>1. CASE d = e
    BY <1>0, <1>1, <2>1, CommandTypes, EmptyWindow DEF ResetsCommands, Older
  <2>2. CASE d # e
    BY <1>0, <1>1, <2>2 DEF ResetsCommands, Older
  <2> QED
    BY <2>1, <2>2
<1>2. ASSUME NEW d \in Devices PROVE QueueInv(d)'
  <2>1. Window(commands'[d], commandCount[d])
    BY <1>0, <1>2, CommandTypes, EmptyWindow DEF ResetsCommands, CommandInv, QueueInv
  <2>2. defaultCommand'[d] \in {defaultCommand[d], Empty}
    BY <1>0, <1>2 DEF ResetsCommands
  <2>3. Older(d, Empty)
    BY <1>2, CommandTypes DEF CommandInv, QueueInv, Older, Empty
  <2>4. defaultCommand'[d] + Len(commands'[d]) <= commandCount[d]
    BY <1>1, <1>2, <2>2, <2>3, CommandTypes DEF CommandInv, QueueInv, Empty
  <2>5. lastCommand[d] + Len(commands'[d]) <= commandCount[d]
    BY <1>1, <1>2, CommandTypes DEF CommandInv, QueueInv
  <2>6. \A x \in sentCommands[d] : x # Empty /\ x + Len(commands'[d]) <= commandCount[d]
    BY <1>1, <1>2, CommandTypes DEF CommandInv, QueueInv
  <2>7. Answering(d)' => hand' + Len(commands'[d]) <= commandCount[d]
    BY <1>1, <1>2, CommandTypes DEF CommandInv, QueueInv, Answering, ResetsCommands, KeepsAnswer
  <2> QED
    BY <2>1, <2>4, <2>5, <2>6, <2>7 DEF QueueInv, Older, ResetsCommands, takenVars
<1>3. ASSUME NEW d \in Devices \ pushDevices PROVE PullInv(d)'
  <2>1. defaultCommand'[d] \in {defaultCommand[d], Empty}
    BY <1>0, <1>3 DEF ResetsCommands
  <2> QED
    BY <1>3, <2>1 DEF CommandInv, PullInv, Answering, ResetsCommands, KeepsAnswer, takenVars
<1>4. ASSUME NEW d \in pushDevices PROVE PushInv(d)'
  BY <1>4 DEF CommandInv, PushInv, Answering, ResetsCommands, KeepsAnswer, takenVars
<1>5. ForwardInv'
  <2>1. forwardHand # <<>> => forwardHand[1] \in Devices /\ forwardHand[2] \in Nat
    BY DEF TypeOK
  <2>2. forwardHand # <<>> => forwardHand[2] + Len(commands'[forwardHand[1]]) <= commandCount[forwardHand[1]]
    BY <1>1, <2>1 DEF CommandInv, ForwardInv
  <2> QED
    BY <2>2 DEF CommandInv, ForwardInv, Older, Answering, ResetsCommands, KeepsAnswer, takenVars
<1>6. pushDevices' = pushDevices
  BY DEF ResetsCommands, takenVars
<1> QED
  BY <1>2, <1>3, <1>4, <1>5, <1>6 DEF CommandInv

\* A command that arrives (addExternalCommand) is newer than everything that has left.
LEMMA ArrivesPreserves ==
    ASSUME TypeOK, CommandInv, NEW e \in Devices, CommandArrives(e)
    PROVE  CommandInv'
<1> DEFINE q == Enqueued(commands[e], commandCount[e] + 1)
<1>0. /\ commands \in [Devices -> Seq(Nat)] /\ commandCount \in [Devices -> Nat]
      /\ pushDevices \subseteq Devices
  BY DEF TypeOK, AggTypeOK
<1>1. /\ commands' = [commands EXCEPT ![e] = q]
      /\ commandCount' = [commandCount EXCEPT ![e] = @ + 1]
      /\ UNCHANGED <<defaultCommand, lastCommand, sentCommands, forwardHand, pushDevices, pc, cur, hand>>
      /\ forwards' = IF e \in pushDevices THEN Append(forwards, e) ELSE forwards
  BY DEF CommandArrives, UpdateCommand, handlerVars, outVars
<1>2. /\ Window(q, commandCount[e] + 1)
      /\ Len(q) \in Nat /\ Len(q) <= Len(commands[e]) + 1
  BY CommandTypes, EnqueuedWindow DEF CommandInv, QueueInv
<1> HIDE DEF q
<1>3. ASSUME NEW d \in Devices, NEW x \in Nat, Older(d, x)
      PROVE  x + Len(commands'[d]) <= commandCount'[d]
  <2>1. CASE d = e
    <3>1. commands'[d] = q /\ commandCount'[d] = commandCount[d] + 1
      BY <1>0, <1>1, <2>1
    <3> QED
      BY <1>2, <1>3, <2>1, <3>1, CommandTypes DEF Older
  <2>2. CASE d # e
    BY <1>0, <1>1, <1>3, <2>2 DEF Older
  <2> QED
    BY <2>1, <2>2
<1>4. ASSUME NEW d \in Devices PROVE QueueInv(d)'
  <2>1. Window(commands'[d], commandCount'[d])
    BY <1>0, <1>1, <1>2, <1>4 DEF CommandInv, QueueInv
  <2>2. /\ defaultCommand[d] + Len(commands'[d]) <= commandCount'[d]
        /\ lastCommand[d] + Len(commands'[d]) <= commandCount'[d]
        /\ \A x \in sentCommands[d] : x # Empty /\ x + Len(commands'[d]) <= commandCount'[d]
        /\ Answering(d) => hand + Len(commands'[d]) <= commandCount'[d]
    BY <1>3, <1>4, CommandTypes DEF CommandInv, QueueInv
  <2> QED
    BY <1>1, <2>1, <2>2 DEF QueueInv, Older, Answering
<1>5. ASSUME NEW d \in Devices \ pushDevices PROVE PullInv(d)'
  BY <1>1, <1>5 DEF CommandInv, PullInv, Answering
<1>6. ASSUME NEW d \in pushDevices PROVE PushInv(d)'
  BY <1>1, <1>6 DEF CommandInv, PushInv, Answering
<1>7. ForwardInv'
  <2>1. forwardHand # <<>> => forwardHand[1] \in Devices /\ forwardHand[2] \in Nat
    BY DEF TypeOK
  <2>2. forwardHand # <<>> => forwardHand[2] + Len(commands'[forwardHand[1]]) <= commandCount'[forwardHand[1]]
    BY <1>3, <2>1 DEF CommandInv, ForwardInv
  <2>3. \A i \in 1..Len(forwards') : forwards'[i] \in pushDevices
    <3>1. CASE e \in pushDevices
      <4>1. /\ Len(Append(forwards, e)) = Len(forwards) + 1 /\ Len(forwards) \in Nat
            /\ \A i \in 1..Len(forwards) : Append(forwards, e)[i] = forwards[i]
            /\ Append(forwards, e)[Len(forwards) + 1] = e
        BY PushProperties DEF TypeOK
      <4>2. ASSUME NEW i \in 1..(Len(forwards) + 1) PROVE Append(forwards, e)[i] \in pushDevices
        <5>1. i = Len(forwards) + 1 \/ i \in 1..Len(forwards)
          BY <4>1
        <5> QED
          BY <3>1, <4>1, <5>1 DEF CommandInv, ForwardInv
      <4> QED
        BY <1>1, <3>1, <4>1, <4>2
    <3>2. CASE e \notin pushDevices
      BY <1>1, <3>2 DEF CommandInv, ForwardInv
    <3> QED
      BY <3>1, <3>2
  <2> QED
    BY <1>1, <2>2, <2>3 DEF CommandInv, ForwardInv, Older, Answering
<1> QED
  BY <1>1, <1>4, <1>5, <1>6, <1>7 DEF CommandInv

\* Taking a command, by either thread: the queues stay windows, and what was older than a
\* queue still is.
LEMMA ConsumePreservesQueues ==
    ASSUME TypeOK, CommandInv, NEW e \in Devices, ConsumeCommand(e), NEW d \in Devices
    PROVE  /\ Window(commands'[d], commandCount[d])
           /\ \A x \in Nat : Older(d, x) => x + Len(commands'[d]) <= commandCount[d]
           /\ defaultCommand'[d] + Len(commands'[d]) <= commandCount[d]
           /\ lastCommand[d] + Len(commands'[d]) <= commandCount[d]
           /\ \A x \in sentCommands[d] : x # Empty /\ x + Len(commands'[d]) <= commandCount[d]
           /\ Answering(d) => hand + Len(commands'[d]) <= commandCount[d]
<1>0. commands \in [Devices -> Seq(Nat)] /\ defaultCommand \in [Devices -> Nat]
  BY DEF TypeOK, AggTypeOK
<1>1. QueueInv(d) /\ QueueInv(e)
  BY DEF CommandInv
<1>2. CASE d = e
  <2>1. /\ Window(commands'[d], commandCount[d])
        /\ Len(commands'[d]) \in Nat /\ Len(commands'[d]) <= Len(commands[d])
        /\ defaultCommand' = [defaultCommand EXCEPT ![d] = NextCommand(d)]
        /\ NextCommand(d) + Len(commands'[d]) <= commandCount[d]
    BY <1>1, <1>2, ConsumeEffect
  <2>2. ASSUME NEW x \in Nat, Older(d, x) PROVE x + Len(commands'[d]) <= commandCount[d]
    BY <2>1, <2>2, CommandTypes DEF Older
  <2>3. defaultCommand'[d] = NextCommand(d)
    BY <1>0, <2>1
  <2> QED
    BY <1>1, <2>1, <2>2, <2>3, CommandTypes DEF QueueInv
<1>3. CASE d # e
  <2>1. commands'[d] = commands[d] /\ defaultCommand'[d] = defaultCommand[d]
    BY <1>0, <1>3 DEF ConsumeCommand
  <2> QED
    BY <1>1, <2>1 DEF QueueInv, Older
<1> QED
  BY <1>2, <1>3

\* get_command: the handler takes the next command, or repeats the default one.
LEMMA GetCommandPreserves ==
    ASSUME TypeOK, CommandInv, GetCommand
    PROVE  CommandInv'
<1>0. /\ cur \in Devices /\ pushDevices \subseteq Devices
      /\ commands \in [Devices -> Seq(Nat)] /\ defaultCommand \in [Devices -> Nat]
  BY DEF TypeOK, AggTypeOK
<1>1. /\ ConsumeCommand(cur)
      /\ pc = "command" /\ pc' = "respond" /\ cur' = cur
      /\ UNCHANGED takenVars
      /\ hand' = IF HasCommand(cur, cur \in pushDevices) THEN NextCommand(cur) ELSE Empty
  <2>1. hand' = IF HasCommand(cur, cur \in pushDevices) THEN NextCommand(cur) ELSE Empty
    BY LibraryResults DEF GetCommand
  <2> QED
    BY <2>1 DEF GetCommand, takenVars, forwardVars, outVars, envVars
<1>2. /\ defaultCommand' = [defaultCommand EXCEPT ![cur] = NextCommand(cur)]
      /\ NextCommand(cur) \in Nat
      /\ NextCommand(cur) + Len(commands'[cur]) <= commandCount[cur]
      /\ \/ commands[cur] = <<>> /\ NextCommand(cur) = defaultCommand[cur]
         \/ /\ commands[cur] # <<>>
            /\ NextCommand(cur) + Len(commands[cur]) = commandCount[cur] + 1
  BY <1>0, <1>1, ConsumeEffect DEF CommandInv
<1>3. \A d \in Devices : \A x \in Nat : Older(d, x) => x + Len(commands'[d]) <= commandCount[d]
  BY <1>0, <1>1, ConsumePreservesQueues
<1>4. Older(cur, Empty)
  BY <1>0, CommandTypes DEF CommandInv, QueueInv, Older, Empty
<1>5. ASSUME NEW x \in Nat, Older(cur, x)
      PROVE  commands[cur] # <<>> => x < NextCommand(cur)
  BY <1>0, <1>2, <1>5, CommandTypes DEF Older
<1>6. hand' \in {NextCommand(cur), Empty}
  BY <1>1
<1>7. ASSUME NEW d \in Devices PROVE QueueInv(d)'
  <2>1. hand' + Len(commands'[cur]) <= commandCount[cur]
    BY <1>0, <1>2, <1>3, <1>4, <1>6 DEF Empty
  <2>2. /\ Window(commands'[d], commandCount[d])
        /\ defaultCommand'[d] + Len(commands'[d]) <= commandCount[d]
        /\ lastCommand[d] + Len(commands'[d]) <= commandCount[d]
        /\ \A x \in sentCommands[d] : x # Empty /\ x + Len(commands'[d]) <= commandCount[d]
    BY <1>0, <1>1, <1>7, ConsumePreservesQueues
  <2> QED
    BY <1>1, <2>1, <2>2 DEF QueueInv, Older, Answering, takenVars
<1>8. ASSUME NEW d \in Devices \ pushDevices PROVE PullInv(d)'
  <2>1. CASE d = cur
    <3>1. hand' = NextCommand(d) /\ defaultCommand'[d] = NextCommand(d)
      BY <1>0, <1>1, <1>2, <1>8, <2>1 DEF HasCommand
    <3>2. NextCommand(d) # Empty => NextCommand(d) >= lastCommand[d]
      <4>1. CASE commands[d] = <<>>
        BY <1>2, <1>8, <2>1, <4>1 DEF CommandInv, PullInv
      <4>2. CASE commands[d] # <<>>
        <5>1. lastCommand[d] < NextCommand(d)
          BY <1>5, <1>8, <2>1, <4>2, CommandTypes DEF CommandInv, QueueInv
        <5> QED
          BY <1>2, <1>8, <2>1, <5>1, CommandTypes
      <4> QED
        BY <4>1, <4>2
    <3>3. NextCommand(d) >= NextCommand(d)
      BY <1>2, <2>1
    <3> QED
      BY <1>1, <3>1, <3>2, <3>3 DEF PullInv, takenVars
  <2>2. CASE d # cur
    <3>1. defaultCommand'[d] = defaultCommand[d]
      BY <1>0, <1>2, <1>8, <2>2
    <3> QED
      BY <1>1, <1>8, <2>2, <3>1 DEF CommandInv, PullInv, Answering, takenVars
  <2> QED
    BY <2>1, <2>2
<1>9. ASSUME cur \in pushDevices, NEW x \in Nat, x # Empty, Older(cur, x)
      PROVE  x # hand'
  <2>1. CASE commands[cur] = <<>>
    BY <1>1, <1>9, <2>1 DEF HasCommand
  <2>2. CASE commands[cur] # <<>>
    <3>1. hand' = NextCommand(cur) /\ x < NextCommand(cur)
      BY <1>1, <1>5, <1>9, <2>2 DEF HasCommand
    <3> QED
      BY <1>2, <3>1
  <2> QED
    BY <2>1, <2>2
<1>10. ASSUME NEW d \in pushDevices PROVE PushInv(d)'
  <2>1. d = cur => hand' \notin sentCommands[d]
    BY <1>0, <1>9, <1>10, CommandTypes DEF CommandInv, QueueInv
  <2> QED
    BY <1>1, <2>1 DEF PushInv, Answering, takenVars
<1>11. ForwardInv'
  <2>1. forwardHand # <<>> => forwardHand[1] \in Devices /\ forwardHand[2] \in Nat
    BY DEF TypeOK
  <2>2. ASSUME forwardHand # <<>>
        PROVE  /\ forwardHand[2] + Len(commands'[forwardHand[1]]) <= commandCount[forwardHand[1]]
               /\ forwardHand[1] = cur => forwardHand[2] # hand'
    BY <1>3, <1>9, <2>1, <2>2 DEF CommandInv, ForwardInv
  <2> QED
    BY <1>1, <2>2 DEF CommandInv, ForwardInv, Older, Answering, takenVars
<1>12. pushDevices' = pushDevices
  BY <1>1 DEF takenVars
<1> QED
  BY <1>7, <1>8, <1>10, <1>11, <1>12 DEF CommandInv

\* get_command when generateCommand fails: the command is gone.
LEMMA GetCommandFailsPreserves ==
    ASSUME TypeOK, CommandInv, GetCommandFails
    PROVE  CommandInv'
<1>0. /\ cur \in Devices /\ pushDevices \subseteq Devices
      /\ commands \in [Devices -> Seq(Nat)] /\ defaultCommand \in [Devices -> Nat]
  BY DEF TypeOK, AggTypeOK
<1>1. /\ ConsumeCommand(cur)
      /\ pc' # "respond"
      /\ UNCHANGED takenVars
  BY DEF GetCommandFails, Goto, takenVars, forwardVars, outVars, envVars
<1>2. /\ defaultCommand' = [defaultCommand EXCEPT ![cur] = NextCommand(cur)]
      /\ NextCommand(cur) \in Nat
      /\ \/ commands[cur] = <<>> /\ NextCommand(cur) = defaultCommand[cur]
         \/ /\ commands[cur] # <<>>
            /\ NextCommand(cur) + Len(commands[cur]) = commandCount[cur] + 1
  BY <1>0, <1>1, ConsumeEffect DEF CommandInv
<1>3. ASSUME NEW d \in Devices PROVE QueueInv(d)'
  BY <1>0, <1>1, <1>3, ConsumePreservesQueues DEF QueueInv, Older, Answering, takenVars
<1>4. ASSUME NEW d \in Devices \ pushDevices PROVE PullInv(d)'
  <2>1. defaultCommand'[d] # Empty => defaultCommand'[d] >= lastCommand[d]
    <3>1. CASE d = cur /\ commands[cur] # <<>>
      <4>1. defaultCommand'[d] = NextCommand(d) /\ NextCommand(d) + Len(commands[d]) = commandCount[d] + 1
        BY <1>0, <1>2, <3>1
      <4>2. lastCommand[d] + Len(commands[d]) <= commandCount[d]
        BY <1>0, <3>1 DEF CommandInv, QueueInv, Older
      <4> QED
        BY <1>2, <1>4, <3>1, <4>1, <4>2, CommandTypes
    <3>2. CASE ~(d = cur /\ commands[cur] # <<>>)
      <4>1. defaultCommand'[d] = defaultCommand[d]
        BY <1>0, <1>2, <1>4, <3>2
      <4> QED
        BY <1>4, <4>1 DEF CommandInv, PullInv
    <3> QED
      BY <3>1, <3>2
  <2> QED
    BY <1>1, <2>1 DEF PullInv, Answering, takenVars
<1>5. ASSUME NEW d \in pushDevices PROVE PushInv(d)'
  BY <1>1 DEF PushInv, Answering
<1>6. ForwardInv'
  <2>1. forwardHand # <<>> => forwardHand[1] \in Devices /\ forwardHand[2] \in Nat
    BY DEF TypeOK
  <2>2. ASSUME forwardHand # <<>>
        PROVE  forwardHand[2] + Len(commands'[forwardHand[1]]) <= commandCount[forwardHand[1]]
    BY <1>0, <1>1, <2>1, <2>2, ConsumePreservesQueues DEF CommandInv, ForwardInv
  <2> QED
    BY <1>1, <2>2 DEF CommandInv, ForwardInv, Older, Answering, takenVars
<1>7. pushDevices' = pushDevices
  BY <1>1 DEF takenVars
<1> QED
  BY <1>3, <1>4, <1>5, <1>6, <1>7 DEF CommandInv

\* The handler pushes the command in its hand to toInternalQueue.
LEMMA RespondPreserves ==
    ASSUME TypeOK, CommandInv, Respond
    PROVE  CommandInv'
<1>0. /\ cur \in Devices /\ pushDevices \subseteq Devices /\ hand \in Nat
      /\ lastCommand \in [Devices -> Nat] /\ sentCommands \in [Devices -> SUBSET Nat]
  BY DEF TypeOK
<1>1. /\ pc = "respond" /\ pc' = "send"
      /\ Sent(cur, hand)
      /\ UNCHANGED <<commands, defaultCommand, commandCount, pushDevices, forwards, forwardHand>>
  BY DEF Respond, aggVars, forwardVars, envVars
<1>2. Answering(cur)
  BY <1>1 DEF Answering
<1>3. ASSUME NEW d \in Devices
      PROVE  /\ lastCommand'[d] = IF d = cur /\ d \notin pushDevices THEN hand ELSE lastCommand[d]
             /\ sentCommands'[d] = IF d = cur /\ d \in pushDevices
                                   THEN sentCommands[d] \cup ({hand} \ {Empty}) ELSE sentCommands[d]
  BY <1>0, <1>1, <1>3 DEF Sent
<1>4. ASSUME NEW d \in Devices PROVE QueueInv(d)'
  <2>1. Older(d, lastCommand'[d])
    BY <1>2, <1>3, <1>4 DEF CommandInv, QueueInv
  <2>2. \A x \in sentCommands'[d] : x # Empty /\ Older(d, x)
    BY <1>2, <1>3, <1>4 DEF CommandInv, QueueInv
  <2> QED
    BY <1>1, <1>4, <2>1, <2>2 DEF CommandInv, QueueInv, Older, Answering
<1>5. ASSUME NEW d \in Devices \ pushDevices PROVE PullInv(d)'
  <2>1. defaultCommand[d] # Empty => defaultCommand[d] >= lastCommand'[d]
    BY <1>2, <1>3, <1>5 DEF CommandInv, PullInv
  <2> QED
    BY <1>1, <2>1 DEF PullInv, Answering
<1>6. ASSUME NEW d \in pushDevices PROVE PushInv(d)'
  BY <1>1 DEF PushInv, Answering
<1>7. ForwardInv'
  <2>1. forwardHand # <<>> => forwardHand[1] \in Devices
    BY DEF TypeOK
  <2>2. forwardHand # <<>> => forwardHand[2] \notin sentCommands'[forwardHand[1]]
    BY <1>2, <1>3, <2>1 DEF CommandInv, ForwardInv
  <2> QED
    BY <1>1, <2>2 DEF CommandInv, ForwardInv, Older, Answering
<1> QED
  BY <1>1, <1>4, <1>5, <1>6, <1>7 DEF CommandInv

\* get_command_for_forwarding: nothing, or the forwarding thread takes an external command.
LEMMA ForwardTakePreserves ==
    ASSUME TypeOK, CommandInv, ForwardTake
    PROVE  CommandInv'
<1> DEFINE e == Head(forwards)
<1>0. /\ pushDevices \subseteq Devices
      /\ commands \in [Devices -> Seq(Nat)] /\ defaultCommand \in [Devices -> Nat]
  BY DEF TypeOK, AggTypeOK
<1>1. forwards \in Seq(Devices) /\ forwards # <<>>
  BY DEF TypeOK, ForwardTake
<1>2. /\ e = forwards[1] /\ Len(forwards) \in Nat \ {0}
      /\ Len(Tail(forwards)) = Len(forwards) - 1
      /\ \A i \in 1..Len(Tail(forwards)) : Tail(forwards)[i] = forwards[i + 1]
  BY <1>1, PopProperties
<1>3. e \in pushDevices /\ e \in Devices
  BY <1>0, <1>2 DEF CommandInv, ForwardInv
<1>4. \A i \in 1..Len(Tail(forwards)) : Tail(forwards)[i] \in pushDevices
  <2>1. ASSUME NEW i \in 1..Len(Tail(forwards)) PROVE Tail(forwards)[i] \in pushDevices
    <3>1. Tail(forwards)[i] = forwards[i + 1] /\ i + 1 \in 1..Len(forwards)
      BY <1>2
    <3> QED
      BY <3>1 DEF CommandInv, ForwardInv
  <2> QED
    BY <2>1
<1> HIDE DEF e
<1>5. /\ forwardHand = <<>> /\ forwards' = Tail(forwards)
      /\ UNCHANGED <<pc, cur, hand, commandCount, lastCommand, sentCommands, pushDevices>>
  BY DEF ForwardTake, handlerVars, outVars, envVars
<1>6. CASE UNCHANGED <<aggVars, forwardHand>>
  BY <1>4, <1>5, <1>6 DEF CommandInv, QueueInv, PullInv, PushInv, ForwardInv, Answering, Older,
                           aggVars
<1>7. CASE ConsumeCommand(e) /\ commands[e] # <<>> /\ forwardHand' \in {<<>>, <<e, NextCommand(e)>>}
  <2>1. /\ defaultCommand' = [defaultCommand EXCEPT ![e] = NextCommand(e)]
        /\ NextCommand(e) \in Nat
        /\ NextCommand(e) + Len(commands'[e]) <= commandCount[e]
        /\ NextCommand(e) + Len(commands[e]) = commandCount[e] + 1
    BY <1>3, <1>7, ConsumeEffect DEF CommandInv
  <2>2. ASSUME NEW x \in Nat, Older(e, x) PROVE x < NextCommand(e)
    BY <1>3, <2>1, <2>2, CommandTypes DEF Older
  <2>3. ASSUME NEW d \in Devices PROVE QueueInv(d)'
    BY <1>3, <1>5, <1>7, <2>3, ConsumePreservesQueues DEF QueueInv, Older, Answering
  <2>4. ASSUME NEW d \in Devices \ pushDevices PROVE PullInv(d)'
    <3>1. defaultCommand'[d] = defaultCommand[d]
      BY <1>0, <1>3, <2>1, <2>4
    <3> QED
      BY <1>5, <2>4, <3>1 DEF CommandInv, PullInv, Answering
  <2>5. ASSUME NEW d \in pushDevices PROVE PushInv(d)'
    BY <1>5, <2>5 DEF CommandInv, PushInv, Answering
  <2>6. ForwardInv'
    <3>1. NextCommand(e) # Empty
      <4>1. Older(e, Empty) /\ Empty \in Nat
        BY <1>3, CommandTypes DEF CommandInv, QueueInv, Older, Empty
      <4> QED
        BY <2>1, <2>2, <4>1
    <3>2. NextCommand(e) \notin sentCommands[e]
      BY <1>3, <2>1, <2>2, CommandTypes DEF CommandInv, QueueInv
    <3>3. Answering(e) => NextCommand(e) # hand
      BY <1>3, <2>1, <2>2, CommandTypes DEF CommandInv, QueueInv
    <3>4. forwardHand' # <<>> => forwardHand'[1] = e /\ forwardHand'[2] = NextCommand(e)
      BY <1>7
    <3> QED
      BY <1>3, <1>4, <1>5, <2>1, <3>1, <3>2, <3>3, <3>4 DEF ForwardInv, Older, Answering
  <2> QED
    BY <1>5, <2>3, <2>4, <2>5, <2>6 DEF CommandInv
<1>8. \/ UNCHANGED <<aggVars, forwardHand>>
      \/ ConsumeCommand(e) /\ commands[e] # <<>> /\ forwardHand' \in {<<>>, <<e, NextCommand(e)>>}
  <2>1. CASE IsDeviceValid(e) /\ HasCommand(e, e \in pushDevices)
    <3>1. commands[e] # <<>>
      BY <1>3, <2>1 DEF HasCommand
    <3>2. ConsumeCommand(e)
      BY <2>1 DEF ForwardTake, e
    <3>3. PICK generated \in Library!GenerateCommand(NextCommand(e)) :
               forwardHand' = IF generated.ok THEN <<e, generated.buffer>> ELSE <<>>
      BY <2>1 DEF ForwardTake, e
    <3>4. generated.ok => generated.buffer = NextCommand(e)
      BY LibraryResults
    <3> QED
      BY <3>1, <3>2, <3>3, <3>4
  <2>2. CASE ~(IsDeviceValid(e) /\ HasCommand(e, e \in pushDevices))
    BY <2>2 DEF ForwardTake, e
  <2> QED
    BY <2>1, <2>2
<1> QED
  BY <1>6, <1>7, <1>8

\* The forwarding thread pushes the command in its hand.
LEMMA ForwardPushPreserves ==
    ASSUME TypeOK, CommandInv, ForwardPush
    PROVE  CommandInv'
<1> DEFINE e == forwardHand[1]
           c == forwardHand[2]
<1>0. /\ pushDevices \subseteq Devices /\ sentCommands \in [Devices -> SUBSET Nat]
  BY DEF TypeOK
<1>1. /\ e \in pushDevices /\ e \in Devices /\ c # Empty
      /\ Older(e, c) /\ (Answering(e) => c # hand)
  BY <1>0 DEF ForwardPush, CommandInv, ForwardInv
<1>2. /\ sentCommands' = [sentCommands EXCEPT ![e] = @ \cup {c}]
      /\ forwardHand' = <<>>
      /\ UNCHANGED <<pc, cur, hand, commands, defaultCommand, commandCount, lastCommand,
                     forwards, pushDevices>>
  BY <1>1 DEF ForwardPush, Sent, aggVars, handlerVars, envVars
<1> HIDE DEF e, c
<1>3. ASSUME NEW d \in Devices
      PROVE  sentCommands'[d] = IF d = e THEN sentCommands[d] \cup {c} ELSE sentCommands[d]
  BY <1>0, <1>1, <1>2, <1>3
<1>4. ASSUME NEW d \in Devices PROVE QueueInv(d)'
  <2>1. \A x \in sentCommands'[d] : x # Empty /\ Older(d, x)
    BY <1>1, <1>3, <1>4 DEF CommandInv, QueueInv
  <2> QED
    BY <1>2, <1>4, <2>1 DEF CommandInv, QueueInv, Older, Answering
<1>5. ASSUME NEW d \in Devices \ pushDevices PROVE PullInv(d)'
  BY <1>2, <1>5 DEF CommandInv, PullInv, Answering
<1>6. ASSUME NEW d \in pushDevices PROVE PushInv(d)'
  BY <1>0, <1>1, <1>2, <1>3, <1>6 DEF CommandInv, PushInv, Answering
<1>7. ForwardInv'
  BY <1>2 DEF CommandInv, ForwardInv
<1> QED
  BY <1>2, <1>4, <1>5, <1>6, <1>7 DEF CommandInv

\* The invariant is inductive.
LEMMA CommandInvariant == Spec => []CommandInv
<1>1. Init => CommandInv
  <2> SUFFICES ASSUME Init PROVE CommandInv
    OBVIOUS
  <2>1. ASSUME NEW d \in Devices PROVE QueueInv(d) /\ PullInv(d) /\ PushInv(d)
    BY EmptyWindow DEF Init, AggInit, QueueInv, PullInv, PushInv, Older, Answering, Empty
  <2>2. ForwardInv
    BY DEF Init, ForwardInv
  <2>3. pushDevices \subseteq Devices
    BY DEF Init, Library!ForwardCommandOnReceive
  <2> QED
    BY <2>1, <2>2, <2>3 DEF CommandInv
<1>2. TypeOK /\ CommandInv /\ [Next]_vars => CommandInv'
  BY CommandSteps, KeepsPreserves, ResetsPreserves, ArrivesPreserves, GetCommandPreserves,
     GetCommandFailsPreserves, RespondPreserves, ForwardTakePreserves, ForwardPushPreserves
<1> QED
  BY <1>1, <1>2, HandlerTypeCorrect, PTL DEF Spec

-----------------------------------------------------------------------------
(* Commands: the theorems *)

\* For every limit of the queue: it holds consecutive commands ending with the last one
\* accepted, whichever thread takes from it and however often it overflows.
THEOREM QueueKeepsNewest == Spec => []NewestCommandsKept
<1>1. TypeOK /\ CommandInv => NewestCommandsKept
  <2> SUFFICES ASSUME TypeOK, CommandInv, NEW d \in Devices
               PROVE  LET q == commands[d]
                      IN  /\ Len(q) <= MaxExternalCommands
                          /\ \A i \in 1..(Len(q) - 1) : q[i + 1] = q[i] + 1
                          /\ q # <<>> => q[Len(q)] = commandCount[d]
    BY DEF NewestCommandsKept
  <2> DEFINE q == commands[d]
  <2>1. q \in Seq(Nat) /\ Len(q) \in Nat /\ commandCount[d] \in Nat
    BY CommandTypes
  <2>2. \A i \in 1..Len(q) : q[i] \in Nat
    BY <2>1, ElementOfSeq
  <2>3. /\ Len(q) <= MaxExternalCommands
        /\ \A i \in 1..Len(q) : q[i] + Len(q) = commandCount[d] + i
    BY Zenon DEF CommandInv, QueueInv, Window
  <2>4. q # <<>> => Len(q) \in 1..Len(q)
    BY <2>1, EmptySeq
  <2> HIDE DEF q
  <2>5. ASSUME NEW i \in 1..(Len(q) - 1) PROVE q[i + 1] = q[i] + 1
    <3>1. i \in 1..Len(q) /\ i + 1 \in 1..Len(q) /\ i \in Nat
      BY <2>1
    <3> DEFINE x == q[i]
               y == q[i + 1]
               l == Len(q)
               n == commandCount[d]
    <3>2. x \in Nat /\ y \in Nat /\ l \in Nat /\ n \in Nat
      BY <2>1, <2>2, <3>1
    <3>3. x + l = n + i /\ y + l = n + (i + 1)
      BY <2>3, <3>1
    <3> HIDE DEF x, y, l, n
    <3>4. y = x + 1
      BY <3>1, <3>2, <3>3
    <3> QED
      BY <3>4 DEF x, y
  <2>6. ASSUME q # <<>> PROVE q[Len(q)] = commandCount[d]
    <3>1. q[Len(q)] \in Nat /\ q[Len(q)] + Len(q) = commandCount[d] + Len(q)
      BY <2>2, <2>3, <2>4, <2>6
    <3>2. \A x, l, n \in Nat : x + l = n + l => x = n
      OBVIOUS
    <3> QED
      BY <2>1, <3>1, <3>2
  <2> QED
    BY <2>3, <2>5, <2>6 DEF q
<1> QED
  BY <1>1, HandlerTypeCorrect, CommandInvariant, PTL

\* A push-only device gets each external command at most once, although the handler and
\* the forwarding thread take from the same queue.
THEOREM NoCommandTwice == Spec => []EachCommandOnce
<1>1. TypeOK /\ CommandInv => EachCommandOnce
  <2> SUFFICES ASSUME TypeOK, CommandInv PROVE EachCommandOnce
    OBVIOUS
  <2>1. ASSUME NEW d \in pushDevices
        PROVE  /\ \A i, j \in 1..Len(commands[d]) : i # j => commands[d][i] # commands[d][j]
               /\ \A i \in 1..Len(commands[d]) : \A x \in Nat : Older(d, x) => commands[d][i] # x
    <3> DEFINE q == commands[d]
    <3>1. d \in Devices
      BY DEF TypeOK
    <3>2. q \in Seq(Nat) /\ Len(q) \in Nat /\ commandCount[d] \in Nat
      BY <3>1, CommandTypes
    <3>3. \A i \in 1..Len(q) : q[i] \in Nat
      BY <3>2, ElementOfSeq
    <3>4. \A i \in 1..Len(q) : q[i] + Len(q) = commandCount[d] + i
      BY <3>1, Zenon DEF CommandInv, QueueInv, Window
    <3>5. \A x \in Nat : Older(d, x) => x + Len(q) <= commandCount[d]
      BY DEF Older
    <3> HIDE DEF q
    <3>6. ASSUME NEW i \in 1..Len(q), NEW j \in 1..Len(q), q[i] = q[j] PROVE i = j
      <4>1. /\ i \in Nat /\ j \in Nat
            /\ commandCount[d] + i = commandCount[d] + j
        BY <3>2, <3>4, <3>6
      <4> QED
        BY <3>2, <4>1
    <3>7. ASSUME NEW i \in 1..Len(q), NEW x \in Nat, x + Len(q) <= commandCount[d] PROVE q[i] # x
      <4>1. i \in Nat \ {0} /\ q[i] \in Nat /\ q[i] + Len(q) = commandCount[d] + i
        BY <3>2, <3>3, <3>4
      <4>2. \A n, l, k, y \in Nat : y + l = n + k /\ k # 0 => ~(y + l <= n)
        OBVIOUS
      <4> QED
        BY <3>2, <3>7, <4>1, <4>2
    <3> QED
      BY <3>5, <3>6, <3>7 DEF q
  <2>2. ASSUME NEW d \in pushDevices
        PROVE  /\ Answering(d) => Older(d, hand) /\ hand \in Nat /\ hand \notin sentCommands[d]
               /\ \A x \in sentCommands[d] : x \in Nat /\ Older(d, x)
    BY <2>2, CommandTypes DEF TypeOK, CommandInv, QueueInv, PushInv
  <2>3. forwardHand # <<>> =>
           /\ forwardHand[2] \in Nat
           /\ Older(forwardHand[1], forwardHand[2])
           /\ forwardHand[2] \notin sentCommands[forwardHand[1]]
           /\ Answering(forwardHand[1]) => forwardHand[2] # hand
    BY DEF TypeOK, CommandInv, ForwardInv
  <2> QED
    BY <2>1, <2>2, <2>3 DEF EachCommandOnce, Answering
<1> QED
  BY <1>1, HandlerTypeCorrect, CommandInvariant, PTL

\* A pull device is never answered with an older external command after a newer one.
THEOREM PullCommandsInOrder == Spec => CommandsInOrder
<1>1. TypeOK /\ CommandInv /\ [Next]_vars
        => [\A d \in Devices \ pushDevices :
               lastCommand'[d] # Empty => lastCommand'[d] >= lastCommand[d]]_vars
  <2> SUFFICES ASSUME TypeOK, CommandInv, [Next]_vars, NEW d \in Devices \ pushDevices,
                      lastCommand'[d] # Empty
               PROVE  lastCommand'[d] >= lastCommand[d]
    OBVIOUS
  <2>1. lastCommand[d] \in Nat /\ lastCommand \in [Devices -> Nat]
    BY DEF TypeOK
  <2>2. CASE lastCommand' = lastCommand
    BY <2>1, <2>2
  <2>3. CASE Respond
    <3>1. CASE d = cur
      <4>1. lastCommand'[d] = hand /\ Answering(d)
        BY <2>1, <2>3, <3>1 DEF Respond, Sent, Answering
      <4> QED
        BY <4>1 DEF CommandInv, PullInv
    <3>2. CASE d # cur
      <4>1. lastCommand'[d] = lastCommand[d]
        BY <2>1, <2>3, <3>2 DEF Respond, Sent
      <4> QED
        BY <2>1, <4>1
    <3> QED
      BY <3>1, <3>2
  <2>4. CASE ForwardPush
    BY <2>1, <2>4 DEF ForwardPush, Sent, CommandInv, ForwardInv
  <2>5. lastCommand' = lastCommand \/ Respond \/ ForwardPush
    BY CommandSteps DEF KeepsCommands, ResetsCommands, takenVars, CommandArrives, GetCommand,
                        GetCommandFails, ForwardTake, outVars
  <2> QED
    BY <2>2, <2>3, <2>4, <2>5
<1> QED
  BY <1>1, HandlerTypeCorrect, CommandInvariant, PTL DEF Spec, CommandsInOrder

-----------------------------------------------------------------------------
(* Statuses: the inductive invariant *)

\* The messages of a queue are in order and between lo and hi.
Sorted(q, lo, hi) ==
    \A i \in 1..Len(q) :
        /\ lo <= q[i] /\ q[i] <= hi
        /\ \A j \in 1..Len(q) : i <= j => q[i] <= q[j]

IsStatus(e, d) == e.kind = "status" /\ e.dev = d

\* The statuses of d in fromInternalQueue are in order, after lo and up to hi.
Numbered(q, d, lo, hi) ==
    \A i \in 1..Len(q) : IsStatus(q[i], d) =>
        /\ lo < q[i].n /\ q[i].n <= hi
        /\ \A j \in 1..Len(q) : i < j /\ IsStatus(q[j], d) => q[i].n < q[j].n

\* Last status sent <= aggregated messages <= current status < statuses on their way; a
\* device that is not held has no messages.
StatusInv(d) ==
    /\ Sorted(messages[d], toExternal[d], status[d])
    /\ d \in held => toExternal[d] <= status[d]
    /\ d \notin held => messages[d] = <<>>
    /\ status[d] <= statusCount[d] /\ toExternal[d] <= statusCount[d]
    /\ Numbered(fromInternal, d, status[d], statusCount[d])
    /\ Numbered(fromInternal, d, toExternal[d], statusCount[d])

-----------------------------------------------------------------------------
(* Statuses: what the queue operations do to an order *)

\* A queue stays in order when its bounds are relaxed.
LEMMA Relaxed ==
    ASSUME NEW q \in Seq(Nat), NEW lo \in Nat, NEW hi \in Nat, Sorted(q, lo, hi),
           NEW low \in Nat, NEW high \in Nat, low <= lo, hi <= high
    PROVE  Sorted(q, low, high)
<1>1. \A i \in 1..Len(q) : q[i] \in Nat
  BY ElementOfSeq
<1> QED
  BY <1>1 DEF Sorted

\* push of a message that is not older than the others.
LEMMA SortedPush ==
    ASSUME NEW q \in Seq(Nat), NEW lo \in Nat, NEW hi \in Nat, Sorted(q, lo, hi),
           NEW x \in Nat, lo <= x, hi <= x
    PROVE  Sorted(Append(q, x), lo, x)
<1> DEFINE r == Append(q, x)
<1>1. /\ Len(q) \in Nat /\ Len(r) = Len(q) + 1
      /\ \A i \in 1..Len(q) : q[i] \in Nat /\ r[i] = q[i]
      /\ r[Len(q) + 1] = x
  BY PushProperties
<1> HIDE DEF r
<1>2. ASSUME NEW i \in 1..Len(r) PROVE r[i] \in Nat /\ lo <= r[i] /\ r[i] <= x
  <2>1. i \in 1..Len(q) \/ i = Len(q) + 1
    BY <1>1
  <2> QED
    BY <1>1, <2>1 DEF Sorted
<1>3. ASSUME NEW i \in 1..Len(r), NEW j \in 1..Len(r), i <= j PROVE r[i] <= r[j]
  <2>1. CASE j = Len(q) + 1
    BY <1>1, <1>2, <2>1
  <2>2. CASE j \in 1..Len(q)
    <3>1. i \in 1..Len(q)
      BY <1>1, <1>3, <2>2
    <3> QED
      BY <1>1, <1>3, <2>2, <3>1 DEF Sorted
  <2> QED
    BY <1>1, <2>1, <2>2
<1>4. Sorted(r, lo, x)
  BY <1>2, <1>3 DEF Sorted
<1> QED
  BY <1>4 DEF r

\* front and pop give the oldest message and leave newer ones.
LEMMA SortedPop ==
    ASSUME NEW q \in Seq(Nat), q # <<>>, NEW lo \in Nat, NEW hi \in Nat, Sorted(q, lo, hi)
    PROVE  /\ Head(q) \in Nat /\ lo <= Head(q) /\ Head(q) <= hi
           /\ Sorted(Tail(q), Head(q), hi)
<1> DEFINE t == Tail(q)
           h == Head(q)
<1>1. /\ h = q[1]
      /\ Len(q) \in Nat \ {0} /\ Len(t) = Len(q) - 1
      /\ \A i \in 1..Len(t) : t[i] = q[i + 1]
      /\ \A i \in 1..Len(q) : q[i] \in Nat
  BY PopProperties
<1> HIDE DEF t, h
<1>2. h \in Nat /\ lo <= h /\ h <= hi
  BY <1>1 DEF Sorted
<1>3. ASSUME NEW i \in 1..Len(t)
      PROVE  i + 1 \in 1..Len(q) /\ t[i] = q[i + 1] /\ h <= t[i] /\ t[i] <= hi
  <2>1. i + 1 \in 1..Len(q) /\ 1 \in 1..Len(q) /\ 1 <= i + 1 /\ t[i] = q[i + 1]
    BY <1>1
  <2> QED
    BY <1>1, <2>1 DEF Sorted
<1>4. ASSUME NEW i \in 1..Len(t), NEW j \in 1..Len(t), i <= j PROVE t[i] <= t[j]
  <2>1. /\ i + 1 \in 1..Len(q) /\ j + 1 \in 1..Len(q) /\ i + 1 <= j + 1
        /\ t[i] = q[i + 1] /\ t[j] = q[j + 1]
    BY <1>1, <1>3, <1>4, SMTT(30)
  <2> QED
    BY <2>1 DEF Sorted
<1>5. Sorted(t, h, hi)
  BY <1>3, <1>4 DEF Sorted
<1> QED
  BY <1>2, <1>5 DEF t, h

\* An entry is taken: what follows it is newer.
LEMMA NumberedPop ==
    ASSUME NEW q \in Seq(Entries), q # <<>>, NEW d, NEW lo \in Nat, NEW hi \in Nat,
           Numbered(q, d, lo, hi)
    PROVE  /\ Numbered(Tail(q), d, lo, hi)
           /\ IsStatus(Head(q), d) =>
                 lo < Head(q).n /\ Head(q).n <= hi /\ Numbered(Tail(q), d, Head(q).n, hi)
<1> DEFINE t == Tail(q)
           h == Head(q)
<1>1. /\ h = q[1]
      /\ Len(q) \in Nat \ {0} /\ Len(t) = Len(q) - 1
      /\ \A i \in 1..Len(t) : t[i] = q[i + 1]
  BY PopProperties
<1> HIDE DEF t, h
<1>2. ASSUME NEW i \in 1..Len(t)
      PROVE  i + 1 \in 1..Len(q) /\ 1 \in 1..Len(q) /\ 1 < i + 1 /\ t[i] = q[i + 1]
  BY <1>1
<1>3. ASSUME NEW i \in 1..Len(t), NEW j \in 1..Len(t), i < j PROVE i + 1 < j + 1
  BY <1>1, <1>3
<1>4. Numbered(t, d, lo, hi)
  BY <1>2, <1>3 DEF Numbered
<1>5. ASSUME IsStatus(h, d) PROVE lo < h.n /\ h.n <= hi /\ Numbered(t, d, h.n, hi)
  <2>1. lo < h.n /\ h.n <= hi
    BY <1>1, <1>5 DEF Numbered
  <2>2. ASSUME NEW i \in 1..Len(t), IsStatus(t[i], d) PROVE h.n < t[i].n
    BY <1>1, <1>2, <1>5, <2>2 DEF Numbered
  <2> QED
    BY <1>4, <2>1, <2>2 DEF Numbered
<1> QED
  BY <1>4, <1>5 DEF t, h

\* An entry is pushed: one of another kind or device, or the next status.
LEMMA NumberedPush ==
    ASSUME NEW q \in Seq(Entries), NEW d, NEW lo \in Nat, NEW hi \in Nat, lo <= hi,
           Numbered(q, d, lo, hi), NEW e \in Entries, NEW high \in Nat,
           \/ ~IsStatus(e, d) /\ high = hi
           \/ IsStatus(e, d) /\ high = hi + 1 /\ e.n = high
    PROVE  Numbered(Append(q, e), d, lo, high)
<1> DEFINE r == Append(q, e)
<1>1. /\ Len(q) \in Nat /\ Len(r) = Len(q) + 1
      /\ \A i \in 1..Len(q) : q[i] \in Entries /\ r[i] = q[i]
      /\ r[Len(q) + 1] = e
  BY PushProperties
<1>2. \A i \in 1..Len(q) : q[i].n \in Nat
  BY <1>1 DEF Entries
<1> HIDE DEF r
<1>3. ASSUME NEW i \in 1..Len(r), IsStatus(r[i], d)
      PROVE  /\ lo < r[i].n /\ r[i].n <= high
             /\ \A j \in 1..Len(r) : i < j /\ IsStatus(r[j], d) => r[i].n < r[j].n
  <2>1. CASE i = Len(q) + 1
    <3>1. r[i] = e /\ ~\E j \in 1..Len(r) : i < j
      BY <1>1, <2>1
    <3> QED
      BY <1>3, <3>1
  <2>2. CASE i \in 1..Len(q)
    <3>1. r[i] = q[i] /\ lo < q[i].n /\ q[i].n <= hi /\ q[i].n \in Nat
      BY <1>1, <1>2, <1>3, <2>2 DEF Numbered
    <3>2. ASSUME NEW j \in 1..Len(r), i < j, IsStatus(r[j], d) PROVE r[i].n < r[j].n
      <4>1. CASE j = Len(q) + 1
        BY <1>1, <3>1, <3>2, <4>1
      <4>2. CASE j \in 1..Len(q)
        BY <1>1, <1>3, <2>2, <3>2, <4>2 DEF Numbered
      <4> QED
        BY <1>1, <4>1, <4>2
    <3> QED
      BY <3>1, <3>2
  <2> QED
    BY <1>1, <2>1, <2>2
<1>4. Numbered(r, d, lo, high)
  BY <1>3 DEF Numbered
<1> QED
  BY <1>4 DEF r

\* The bound below may be lowered.
LEMMA NumberedRelaxed ==
    ASSUME NEW q \in Seq(Entries), NEW d, NEW lo \in Nat, NEW hi \in Nat,
           Numbered(q, d, lo, hi), NEW low \in Nat, low <= lo
    PROVE  Numbered(q, d, low, hi)
<1>1. \A i \in 1..Len(q) : q[i] \in Entries
  BY ElementOfSeq
<1>2. \A i \in 1..Len(q) : q[i].n \in Nat
  BY <1>1 DEF Entries
<1> QED
  BY <1>2 DEF Numbered

-----------------------------------------------------------------------------
(* Statuses: which steps touch them *)

statusVars == <<held, status, messages, toExternal, statusCount>>

\* An entry is taken or pushed, or nothing happens to the statuses.
MovesEntries ==
    /\ UNCHANGED statusVars
    /\ \/ fromInternal' = fromInternal
       \/ fromInternal # <<>> /\ fromInternal' = Tail(fromInternal)
       \/ \E e \in Entries : e.kind # "status" /\ fromInternal' = Append(fromInternal, e)

\* get_aggregated_status and the push.
SendsOldest(d) ==
    SendAggregatedStatus(d) /\ UNCHANGED <<held, status, statusCount, fromInternal>>

\* A timer, a disconnect or the external client forces aggregation.
ForcesMessage(d) ==
    messages' = Forced(d) /\ UNCHANGED <<held, status, toExternal, statusCount, fromInternal>>

\* remove_device drops messages, the erasure the status too.
DropsMessages(d) ==
    /\ messages' = [messages EXCEPT ![d] = <<>>]
    /\ \/ UNCHANGED <<held, status>>
       \/ held' = held \ {d} /\ status' = [status EXCEPT ![d] = Empty]
    /\ UNCHANGED <<toExternal, statusCount, fromInternal>>

\* Every step is one of those.
LEMMA StatusSteps ==
    ASSUME TypeOK, [Next]_vars
    PROVE  \/ MovesEntries
           \/ \E d \in Devices : SendsOldest(d) \/ ForcesMessage(d) \/ DropsMessages(d) \/ ServerStatus(d)
           \/ HandleStatus
<1> USE DEF handlerVars, forwardVars, outVars, envVars, aggVars, statusVars, Goto, MovesEntries
<1>0. cur \in Devices
  BY DEF TypeOK
<1>1. CASE UNCHANGED vars
  BY <1>1 DEF vars
<1>2. CASE CheckTimeouted \/ CheckNextDevice \/ DrainDone \/ CheckDone \/ NoMessage
  BY <1>2 DEF CheckTimeouted, CheckNextDevice, DrainDone, CheckDone, NoMessage, UnsetTimeoutedReady
<1>3. CASE DrainMessage \/ SendAggregated \/ SendLast
  <2>1. SendsOldest(cur)
    BY <1>3 DEF DrainMessage, SendAggregated, SendLast, SendsOldest, SendAggregatedStatus, TakeMessage
  <2> QED
    BY <1>0, <2>1
<1>4. CASE HandleConnect \/ HandleDisconnectInvalid \/ HandleDisconnect \/ HandleStatusRefused
  BY <1>4 DEF HandleConnect, HandleDisconnectInvalid, HandleDisconnect, HandleStatusRefused,
              Takes, AddStatusRefused
<1>5. CASE \/ GetCommandThrows \/ GetCommandUnsupported \/ GetCommand \/ GetCommandFails
           \/ Respond \/ SendDone
  BY <1>5 DEF GetCommandThrows, GetCommandUnsupported, GetCommand, GetCommandFails, Respond,
              SendDone, ConsumeCommand
<1>6. CASE ForceOnDisconnect
  <2>1. ForcesMessage(cur)
    BY <1>6 DEF ForceOnDisconnect, ForcesMessage, ForceAggregation
  <2> QED
    BY <1>0, <2>1
<1>7. CASE Remove
  <2>1. DropsMessages(cur) \/ MovesEntries
    BY <1>7 DEF Remove, DropsMessages, RemoveDevice
  <2> QED
    BY <1>0, <2>1
<1>8. CASE ForwardTake \/ ForwardPush \/ ModuleBinaryStalls \/ ModuleBinaryRecovers
  BY <1>8 DEF ForwardTake, ForwardPush, ModuleBinaryStalls, ModuleBinaryRecovers, ConsumeCommand
<1>9. ASSUME NEW d \in Devices, IoThread(d)
      PROVE  MovesEntries \/ ForcesMessage(d) \/ DropsMessages(d)
  BY <1>9 DEF IoThread, TimerTick, TimerCallback, PostedErase, TimerExpires, TimerForces,
              EraseDevice, ForcesMessage, DropsMessages
<1>10. ASSUME NEW d \in Devices, CommandArrives(d) \/ ExternalForce(d)
       PROVE  MovesEntries \/ ForcesMessage(d)
  BY <1>10 DEF CommandArrives, UpdateCommand, ExternalForce, ForceAggregation, ForcesMessage
<1>11. ASSUME NEW d \in Devices, ServerConnect(d) \/ ServerDisconnect(d)
       PROVE  MovesEntries
  <2>1. PICK kind \in {"connect", "disconnect"} : Announce(kind, d, Empty)
    BY <1>11 DEF ServerConnect, ServerDisconnect
  <2>2. [kind |-> kind, dev |-> d, n |-> Empty] \in Entries
    BY DEF Entries, Empty
  <2> QED
    BY <1>11, <2>1, <2>2 DEF ServerConnect, ServerDisconnect, Announce
<1> QED
  BY <1>1, <1>2, <1>3, <1>4, <1>5, <1>6, <1>7, <1>8, <1>9, <1>10, <1>11
     DEF Next, HandlerThread, Environment

-----------------------------------------------------------------------------
(* Statuses: each of those steps preserves the invariant *)

LEMMA StatusTypes ==
    ASSUME TypeOK, NEW d \in Devices
    PROVE  /\ messages[d] \in Seq(Nat) /\ status[d] \in Nat /\ toExternal[d] \in Nat
           /\ statusCount[d] \in Nat /\ fromInternal \in Seq(Entries)
           /\ messages \in [Devices -> Seq(Nat)] /\ status \in [Devices -> Nat]
           /\ toExternal \in [Devices -> Nat] /\ statusCount \in [Devices -> Nat]
BY DEF TypeOK, AggTypeOK

\* An empty queue is in order.
LEMMA EmptySorted ==
    ASSUME NEW lo, NEW hi
    PROVE  Sorted(<<>>, lo, hi)
BY DEF Sorted

\* Entries other than statuses come, and any go.
LEMMA MovesPreserves ==
    ASSUME TypeOK, NEW d \in Devices, StatusInv(d), MovesEntries
    PROVE  StatusInv(d)'
<1>1. ASSUME NEW lo \in Nat, NEW hi \in Nat, lo <= hi, Numbered(fromInternal, d, lo, hi)
      PROVE  Numbered(fromInternal', d, lo, hi)
  <2>1. CASE fromInternal' = fromInternal
    BY <1>1, <2>1
  <2>2. CASE fromInternal # <<>> /\ fromInternal' = Tail(fromInternal)
    BY <1>1, <2>2, StatusTypes, NumberedPop
  <2>3. ASSUME NEW e \in Entries, e.kind # "status", fromInternal' = Append(fromInternal, e)
        PROVE  Numbered(fromInternal', d, lo, hi)
    <3>1. ~IsStatus(e, d)
      BY <2>3 DEF IsStatus
    <3>2. Numbered(Append(fromInternal, e), d, lo, hi)
      BY <1>1, <3>1, StatusTypes, NumberedPush
    <3> QED
      BY <2>3, <3>2
  <2> QED
    BY <2>1, <2>2, <2>3 DEF MovesEntries
<1>2. /\ Numbered(fromInternal', d, status[d], statusCount[d])
      /\ Numbered(fromInternal', d, toExternal[d], statusCount[d])
  BY <1>1, StatusTypes DEF StatusInv
<1> QED
  BY <1>2 DEF StatusInv, MovesEntries, statusVars

\* The oldest message goes to the external client.
LEMMA SendsPreserves ==
    ASSUME TypeOK, NEW d \in Devices, StatusInv(d), NEW e \in Devices, SendsOldest(e)
    PROVE  StatusInv(d)' /\ toExternal'[d] >= toExternal[d]
<1>1. UNCHANGED <<held, status, statusCount, fromInternal>>
  BY DEF SendsOldest
<1>2. CASE d = e /\ IsDeviceValid(d) /\ messages[d] # <<>>
  <2> DEFINE h == Head(messages[d])
  <2>1. /\ h \in Nat /\ toExternal[d] <= h /\ h <= status[d]
        /\ Sorted(Tail(messages[d]), h, status[d])
    BY <1>2, StatusTypes, SortedPop DEF StatusInv
  <2>2. messages'[d] = Tail(messages[d])
    BY <1>2, StatusTypes DEF SendsOldest, SendAggregatedStatus, TakeMessage
  <2>3. toExternal'[d] \in {toExternal[d], h} /\ (h # Empty => toExternal'[d] = h)
    BY <1>2, StatusTypes DEF SendsOldest, SendAggregatedStatus, PushStatus, OldestMessage
  <2>4. toExternal'[d] = h
    <3>1. h = 0 => toExternal[d] = 0
      BY <2>1, StatusTypes
    <3> QED
      BY <2>3, <3>1 DEF Empty
  <2> HIDE DEF h
  <2>5. d \in held
    BY <1>2 DEF IsDeviceValid
  <2>6. Numbered(fromInternal, d, h, statusCount[d])
    BY <2>1, StatusTypes, NumberedRelaxed DEF StatusInv
  <2>7. h <= statusCount[d]
    BY <2>1, StatusTypes DEF StatusInv
  <2> QED
    BY <1>1, <2>1, <2>2, <2>4, <2>5, <2>6, <2>7 DEF StatusInv
<1>3. CASE ~(d = e /\ IsDeviceValid(d) /\ messages[d] # <<>>)
  <2>1. messages'[d] = messages[d] /\ toExternal'[d] = toExternal[d]
    BY <1>3, StatusTypes
       DEF SendsOldest, SendAggregatedStatus, TakeMessage, PushStatus, OldestMessage
  <2>2. toExternal[d] >= toExternal[d]
    BY StatusTypes
  <2> QED
    BY <1>1, <2>1, <2>2 DEF StatusInv
<1> QED
  BY <1>2, <1>3

\* The current status becomes a message: none is newer.
LEMMA ForcesPreserves ==
    ASSUME TypeOK, NEW d \in Devices, StatusInv(d), NEW e \in Devices, ForcesMessage(e)
    PROVE  StatusInv(d)'
<1>1. CASE d = e /\ IsDeviceValid(d)
  <2>1. messages'[d] = Append(messages[d], status[d])
    BY <1>1, StatusTypes DEF ForcesMessage, Forced
  <2>2. d \in held /\ toExternal[d] <= status[d] /\ status[d] <= status[d]
    BY <1>1, StatusTypes DEF IsDeviceValid, StatusInv
  <2>3. Sorted(Append(messages[d], status[d]), toExternal[d], status[d])
    BY <2>2, StatusTypes, SortedPush DEF StatusInv
  <2> QED
    BY <2>1, <2>2, <2>3 DEF ForcesMessage, StatusInv
<1>2. CASE ~(d = e /\ IsDeviceValid(d))
  <2>1. messages'[d] = messages[d]
    BY <1>2, StatusTypes DEF ForcesMessage, Forced
  <2> QED
    BY <2>1 DEF ForcesMessage, StatusInv
<1> QED
  BY <1>1, <1>2

\* Messages, or the device, are dropped.
LEMMA DropsPreserves ==
    ASSUME TypeOK, NEW d \in Devices, StatusInv(d), NEW e \in Devices, DropsMessages(e)
    PROVE  StatusInv(d)'
<1>1. CASE d = e
  <2>1. messages'[d] = <<>>
    BY <1>1, StatusTypes DEF DropsMessages
  <2>2. CASE UNCHANGED <<held, status>>
    BY <2>1, <2>2, EmptySorted DEF DropsMessages, StatusInv
  <2>3. CASE held' = held \ {e} /\ status' = [status EXCEPT ![e] = Empty]
    <3>1. status'[d] = Empty /\ d \notin held'
      BY <1>1, <2>3, StatusTypes
    <3>2. Empty \in Nat /\ Empty <= status[d] /\ Empty <= statusCount[d]
      BY StatusTypes DEF Empty
    <3>3. Numbered(fromInternal, d, Empty, statusCount[d])
      BY <3>2, StatusTypes, NumberedRelaxed DEF StatusInv
    <3> QED
      BY <2>1, <3>1, <3>2, <3>3, EmptySorted DEF DropsMessages, StatusInv
  <2> QED
    BY <2>2, <2>3 DEF DropsMessages
<1>2. CASE d # e
  <2>1. messages'[d] = messages[d] /\ status'[d] = status[d] /\ (d \in held' <=> d \in held)
    BY <1>2, StatusTypes DEF DropsMessages
  <2> QED
    BY <2>1 DEF DropsMessages, StatusInv
<1> QED
  BY <1>1, <1>2

\* A device sends its next status.
LEMMA ServerStatusPreserves ==
    ASSUME TypeOK, NEW d \in Devices, StatusInv(d), NEW e \in Devices, ServerStatus(e)
    PROVE  StatusInv(d)'
<1> DEFINE entry == [kind |-> "status", dev |-> e, n |-> statusCount[e] + 1]
<1>1. /\ fromInternal' = Append(fromInternal, entry)
      /\ statusCount' = [statusCount EXCEPT ![e] = @ + 1]
      /\ UNCHANGED <<held, status, messages, toExternal>>
  BY DEF ServerStatus, Announce, aggVars
<1>2. entry \in Entries
  BY StatusTypes DEF Entries
<1>3. IsStatus(entry, d) <=> d = e
  BY DEF IsStatus
<1>4. entry.n = statusCount[e] + 1
  OBVIOUS
<1>5. /\ d = e => statusCount'[d] = statusCount[d] + 1
      /\ d # e => statusCount'[d] = statusCount[d]
  BY <1>1, StatusTypes
<1>6. statusCount'[d] \in Nat /\ statusCount[d] <= statusCount'[d]
  BY <1>5, StatusTypes
<1> HIDE DEF entry
<1>7. ASSUME NEW lo \in Nat, lo <= statusCount[d], Numbered(fromInternal, d, lo, statusCount[d])
      PROVE  Numbered(fromInternal', d, lo, statusCount'[d])
  BY <1>1, <1>2, <1>3, <1>4, <1>5, <1>6, <1>7, StatusTypes, NumberedPush
<1>8. /\ Numbered(fromInternal', d, status[d], statusCount'[d])
      /\ Numbered(fromInternal', d, toExternal[d], statusCount'[d])
  BY <1>7, StatusTypes DEF StatusInv
<1>9. status[d] <= statusCount'[d] /\ toExternal[d] <= statusCount'[d]
  BY <1>6, StatusTypes DEF StatusInv
<1> QED
  BY <1>1, <1>8, <1>9 DEF StatusInv

\* add_status_to_aggregator: the status at the front is newer than what is known of its
\* device, registered or not.
LEMMA HandleStatusPreserves ==
    ASSUME TypeOK, NEW d \in Devices, StatusInv(d), HandleStatus
    PROVE  StatusInv(d)'
<1> DEFINE e == Head(fromInternal).dev
           n == Head(fromInternal).n
<1>0. Takes("status", "command") /\ UNCHANGED <<toExternal, statusCount>>
  BY DEF HandleStatus, outVars, envVars
<1>1. /\ e \in Devices /\ n \in Nat
      /\ fromInternal # <<>> /\ fromInternal' = Tail(fromInternal)
      /\ IsStatus(Head(fromInternal), e)
  BY <1>0, TakesType DEF Takes, PCs, IsStatus
<1>2. /\ Numbered(fromInternal', d, status[d], statusCount[d])
      /\ Numbered(fromInternal', d, toExternal[d], statusCount[d])
  BY <1>1, StatusTypes, NumberedPop DEF StatusInv
<1>3. d = e => /\ status[d] < n /\ toExternal[d] < n /\ n <= statusCount[d]
               /\ Numbered(fromInternal', d, n, statusCount[d])
  BY <1>1, StatusTypes, NumberedPop DEF StatusInv
<1>4. ASSUME d # e, messages'[d] = messages[d], status'[d] = status[d], d \in held' <=> d \in held
      PROVE  StatusInv(d)'
  BY <1>0, <1>2, <1>4 DEF StatusInv
<1>5. CASE AddFirstStatus(e, n)
  <2>1. CASE d = e
    <3>1. messages'[d] = <<n>> /\ status'[d] = n /\ d \in held'
      BY <1>5, <2>1, StatusTypes DEF AddFirstStatus
    <3>2. Sorted(<<n>>, toExternal[d], n)
      <4>1. <<n>> = Append(<<>>, n)
        OBVIOUS
      <4> DEFINE x == n
                 lo == toExternal[d]
                 none == <<>>
      <4>2. x \in Nat /\ lo \in Nat /\ lo <= x /\ x <= x
        BY <1>1, <1>3, <2>1, StatusTypes
      <4>3. none \in Seq(Nat) /\ Sorted(none, lo, x)
        BY EmptySorted
      <4> HIDE DEF x, lo, none
      <4>4. Sorted(Append(none, x), lo, x)
        BY <4>2, <4>3, SortedPush
      <4> QED
        BY <4>1, <4>4 DEF x, lo, none
    <3>3. toExternal[d] <= n
      BY <1>1, <1>3, <2>1, StatusTypes
    <3> QED
      BY <1>0, <1>2, <1>3, <2>1, <3>1, <3>2, <3>3 DEF StatusInv
  <2>2. CASE d # e
    BY <1>4, <1>5, <2>2, StatusTypes DEF AddFirstStatus
  <2> QED
    BY <2>1, <2>2
<1>6. ASSUME NEW send \in Library!SendStatusCondition, AddNextStatus(e, n, send)
      PROVE  StatusInv(d)'
  <2>1. PICK r \in Library!AggregateStatus(status[e], n) :
              /\ status' = [status EXCEPT ![e] = r.buffer]
              /\ messages' = IF send THEN [messages EXCEPT ![e] = Append(@, r.buffer)] ELSE messages
    BY <1>6 DEF AddNextStatus
  <2> DEFINE a == r.buffer
  <2>2. a \in {status[e], n}
    BY LibraryResults
  <2>3. held' = held /\ e \in held
    BY <1>6 DEF AddNextStatus, IsDeviceValid
  <2> HIDE DEF a
  <2>4. CASE d = e
    <3>1. /\ status'[d] = a
          /\ messages'[d] = Append(messages[d], a) \/ messages'[d] = messages[d]
      BY <2>1, <2>4, StatusTypes DEF a
    <3>2. /\ a \in Nat /\ status[d] <= a /\ a <= statusCount[d] /\ toExternal[d] <= a
          /\ a = status[d] \/ a = n
      BY <1>1, <1>3, <2>2, <2>3, <2>4, StatusTypes DEF StatusInv
    <3>3. Sorted(messages'[d], toExternal[d], a)
      <4>1. Sorted(Append(messages[d], a), toExternal[d], a)
        BY <3>2, StatusTypes, SortedPush DEF StatusInv
      <4>2. toExternal[d] <= toExternal[d]
        BY StatusTypes
      <4>3. Sorted(messages[d], toExternal[d], a)
        BY <3>2, <4>2, StatusTypes, Relaxed DEF StatusInv
      <4> QED
        BY <3>1, <4>1, <4>3
    <3>4. Numbered(fromInternal', d, a, statusCount[d])
      BY <1>2, <1>3, <2>4, <3>2
    <3> QED
      BY <1>0, <1>2, <2>3, <2>4, <3>1, <3>2, <3>3, <3>4 DEF StatusInv
  <2>5. CASE d # e
    BY <1>1, <1>4, <2>1, <2>3, <2>5, StatusTypes
  <2> QED
    BY <2>4, <2>5
<1> QED
  BY <1>5, <1>6 DEF HandleStatus

\* The invariant is inductive.
LEMMA StatusInvariant == Spec => [](\A d \in Devices : StatusInv(d))
<1> DEFINE Inv == \A d \in Devices : StatusInv(d)
<1>1. Init => Inv
  BY DEF Init, AggInit, StatusInv, Sorted, Numbered, Empty
<1>2. TypeOK /\ Inv /\ [Next]_vars => Inv'
  BY StatusSteps, MovesPreserves, SendsPreserves, ForcesPreserves, DropsPreserves,
     ServerStatusPreserves, HandleStatusPreserves
<1> QED
  BY <1>1, <1>2, HandlerTypeCorrect, PTL DEF Spec

\* Statuses leave in order, for any number of devices, timers, forced aggregations,
\* disconnects and late erasures: nothing ever overtakes a newer status of its device.
THEOREM StatusesLeaveInOrder == Spec => StatusesInOrder
<1> DEFINE Inv == \A d \in Devices : StatusInv(d)
<1>1. TypeOK /\ Inv /\ [Next]_vars => [\A d \in Devices : toExternal'[d] >= toExternal[d]]_vars
  <2> SUFFICES ASSUME TypeOK, Inv, [Next]_vars, NEW d \in Devices
               PROVE  toExternal'[d] >= toExternal[d]
    OBVIOUS
  <2>1. ASSUME NEW e \in Devices, SendsOldest(e) PROVE toExternal'[d] >= toExternal[d]
    BY <2>1, SendsPreserves
  <2>2. ASSUME toExternal' = toExternal PROVE toExternal'[d] >= toExternal[d]
    BY <2>2, StatusTypes
  <2>3. \/ toExternal' = toExternal
        \/ \E e \in Devices : SendsOldest(e)
    BY StatusSteps DEF MovesEntries, statusVars, ForcesMessage, DropsMessages, ServerStatus,
                       Announce, HandleStatus, outVars
  <2> QED
    BY <2>1, <2>2, <2>3
<1> QED
  BY <1>1, HandlerTypeCorrect, StatusInvariant, PTL DEF Spec, StatusesInOrder
=============================================================================
