---------------------------- MODULE ModuleHandler ----------------------------
(***************************************************************************)
(* The module handler (source/bringauto/modules/ModuleHandler.cpp) and the *)
(* threads that share the status aggregator with it:                       *)
(*   - the handler thread (handleMessages): one message of                 *)
(*     fromInternalQueue at a time, timed-out messages before each;        *)
(*   - the forwarding thread (handleCommandForwards);                      *)
(*   - the io threads: the devices' timers and the posted erasures;        *)
(*   - the external client's threads: update_command when a command        *)
(*     arrives, force_aggregation_on_device when it reconnects.            *)
(* A handler releases devicesMutex_ between two calls of the aggregator,   *)
(* so each call is a step of its own.                                      *)
(*                                                                         *)
(* The two outgoing queues are only appended to here: of toExternalQueue   *)
(* the model keeps the last status of each device, of toInternalQueue the  *)
(* last command, the set of external commands sent, and whether a          *)
(* disconnect was requested.                                               *)
(*                                                                         *)
(* Time: a timer expires every status_aggregation_timeout (15 s) and the   *)
(* external client reconnects at most every reconnect_delay (10 s), both   *)
(* longer than one round of the handler thread; so per round each device   *)
(* has at most one expiry and one forced aggregation (expired, forced).    *)
(***************************************************************************)
EXTENDS StatusAggregator

CONSTANTS
    MaxQueue,       \* bound: entries of fromInternalQueue
    MaxStatus,      \* bound: statuses a device sends
    MaxCommand,     \* bound: external commands for a device
    MaxMessages,    \* bound: aggregated messages above which neither a status nor
                    \* the external client adds another
    MaxErasures,    \* bound: erasures of one device pending in the io_context
    MaxOutages      \* bound: times the module binary stops answering

ASSUME HandlerAssumption ==
    /\ MaxQueue \in Nat
    /\ MaxStatus \in Nat
    /\ MaxCommand \in Nat
    /\ MaxMessages \in Nat
    /\ MaxErasures \in Nat
    /\ MaxOutages \in Nat

\* Points of the handler thread at which it holds no lock; at "dead" an exception has
\* left the thread function and std::terminate has ended the process.
PCs == {"wait", "check", "drain", "dispatch", "command", "respond", "send",
        "force", "sendLast", "remove", "dead"}

Entries == [kind : {"connect", "status", "disconnect"}, dev : Devices, n : Nat]

VARIABLES
    pushDevices,    \* devices whose module answers forwardCommandOnReceive with OK;
                    \* the library's answer, so fixed from the start
    fromInternal,   \* fromInternalQueue_
    pc,             \* where the handler thread is
    cur,            \* the device it works on
    todo,           \* devices checkTimeoutedMessages has still to visit
    remaining,      \* addStatusToAggregatorRc in handleStatus
    hand,           \* command between get_command and its push
    forwards,       \* commandForwardingQueue_
    forwardHand,    \* <<device, command>> between get_command_for_forwarding and push
    toExternal,     \* toExternal[d]: last status with data pushed for d
    lastCommand,    \* lastCommand[d]: last command pushed to the pull device d
    sentCommands,   \* sentCommands[d]: external commands pushed to the push device d
    kicked,         \* devices the internal server was asked to disconnect
    connected,      \* devices the internal server has announced
    statusCount,    \* statuses each device has sent
    outages,        \* times the module binary has stopped answering
    commandCount,   \* external commands that arrived for each device
    expired,        \* devices whose timer expired in this round of the handler thread
    forced          \* devices the external client forced in this round

handlerVars == <<fromInternal, pc, cur, todo, remaining, hand>>
forwardVars == <<forwards, forwardHand>>
outVars == <<toExternal, lastCommand, sentCommands, kicked>>
envVars == <<libraryHandler, responding, pushDevices, connected, statusCount, commandCount,
             outages>>
paceVars == <<expired, forced>>
vars == <<aggVars, handlerVars, forwardVars, outVars, envVars, paceVars>>

Init ==
    /\ AggInit
    /\ pushDevices \in Library!ForwardCommandOnReceive(Devices)
    /\ fromInternal = <<>>
    /\ pc = "wait"
    /\ cur \in Devices
    /\ todo = {}
    /\ remaining = 0
    /\ hand = Empty
    /\ forwards = <<>>
    /\ forwardHand = <<>>
    /\ toExternal = [d \in Devices |-> Empty]
    /\ lastCommand = [d \in Devices |-> Empty]
    /\ sentCommands = [d \in Devices |-> {}]
    /\ kicked = {}
    /\ connected = {}
    /\ statusCount = [d \in Devices |-> 0]
    /\ outages = 0
    /\ commandCount = [d \in Devices |-> 0]
    /\ expired = {}
    /\ forced = {}

-----------------------------------------------------------------------------
(* checkTimeoutedMessages *)

\* A status goes to toExternalQueue; one without data is not remembered.
PushStatus(d) ==
    toExternal' = [toExternal EXCEPT ![d] =
                      IF OldestMessage(d) = Empty THEN @ ELSE OldestMessage(d)]

\* sendAggregatedStatus: get_aggregated_status and the push, whatever it returned.
SendAggregatedStatus(d) == PushStatus(d) /\ TakeMessage(d)

Goto(p) == pc' = p /\ UNCHANGED <<fromInternal, cur, todo, remaining, hand>>

\* The flag decides; get_unique_devices gives the devices to visit.
CheckTimeouted ==
    /\ pc = "wait"
    /\ IF timeoutedReady THEN pc' = "check" /\ todo' = held
                         ELSE pc' = "dispatch" /\ todo' = {}
    /\ expired' = {}
    /\ forced' = {}
    /\ UNCHANGED <<fromInternal, cur, remaining, hand, aggVars, forwardVars, outVars,
                   envVars>>

CheckNextDevice ==
    /\ pc = "check"
    /\ \E d \in todo : cur' = d /\ todo' = todo \ {d}
    /\ pc' = "drain"
    /\ UNCHANGED <<fromInternal, remaining, hand, aggVars, forwardVars, outVars,
                   envVars, paceVars>>

\* One round of the inner loop: a message goes to the external client.
DrainMessage ==
    /\ pc = "drain"
    /\ IsDeviceValid(cur) /\ messages[cur] # <<>>
    /\ SendAggregatedStatus(cur)
    /\ UNCHANGED <<handlerVars, forwardVars, lastCommand, sentCommands, kicked,
                   envVars, paceVars>>

\* No message is left, or the device is not valid: a device silent for too long is to be disconnected.
DrainDone ==
    /\ pc = "drain"
    /\ ~IsDeviceValid(cur) \/ messages[cur] = <<>>
    /\ kicked' = IF timeouts[cur] >= MaxTimeoutCount THEN kicked \cup {cur} ELSE kicked
    /\ Goto("check")
    /\ UNCHANGED <<aggVars, forwardVars, toExternal, lastCommand, sentCommands,
                   envVars, paceVars>>

CheckDone ==
    /\ pc = "check"
    /\ todo = {}
    /\ UnsetTimeoutedReady
    /\ Goto("dispatch")
    /\ UNCHANGED <<forwardVars, outVars, envVars, paceVars>>

-----------------------------------------------------------------------------
(* handleMessages: the message at the front *)

NoMessage ==
    /\ pc = "dispatch"
    /\ fromInternal = <<>>
    /\ Goto("wait")
    /\ UNCHANGED <<aggVars, forwardVars, outVars, envVars, paceVars>>

\* The handler takes the front message of the given kind and goes to p.
Takes(kind, p) ==
    /\ pc = "dispatch"
    /\ fromInternal # <<>>
    /\ Head(fromInternal).kind = kind
    /\ fromInternal' = Tail(fromInternal)
    /\ cur' = Head(fromInternal).dev
    /\ pc' = p
    /\ UNCHANGED <<todo, hand>>

\* handleConnect: whatever the aggregator knows of the device, a response is pushed.
HandleConnect ==
    /\ Takes("connect", "wait")
    /\ UNCHANGED <<remaining, aggVars, forwardVars, outVars, envVars, paceVars>>

\* handleStatus, early returns: unsupported module, invalid data, or no first command.
HandleStatusRefused ==
    /\ Takes("status", "wait")
    /\ \/ AddStatusRefused(Head(fromInternal).dev)
       \/ FALSE \in Library!StatusDataValid /\ UNCHANGED aggVars
    /\ UNCHANGED <<remaining, forwardVars, outVars, envVars, paceVars>>

\* handleStatus up to add_status_to_aggregator, whose result is 1 for a new device and
\* else the number of messages.
HandleStatus ==
    /\ Takes("status", "command")
    /\ LET d == Head(fromInternal).dev
           n == Head(fromInternal).n
       IN  /\ \/ AddFirstStatus(d, n)
              \/ \E send \in Library!SendStatusCondition :
                    /\ send => Len(messages[d]) < MaxMessages
                    /\ AddNextStatus(d, n, send)
           /\ remaining' = IF d \in held THEN Len(messages'[d]) ELSE 1
           /\ UNCHANGED <<forwardVars, outVars, envVars, paceVars>>

\* get_command looks the device up without asking whether it is still held.
GetCommandThrows ==
    /\ pc = "command"
    /\ Library!IsDeviceTypeSupported
    /\ cur \notin held
    /\ Goto("dead")
    /\ UNCHANGED <<aggVars, forwardVars, outVars, envVars, paceVars>>

\* get_command: the command to answer with, or the empty one for a push-only device.
GetCommand ==
    /\ pc = "command"
    /\ IsDeviceValid(cur)
    /\ IF HasCommand(cur, cur \in pushDevices)
       THEN \E generated \in Library!GenerateCommand(NextCommand(cur)) :
               generated.ok /\ hand' = generated.buffer
       ELSE hand' = Empty
    /\ ConsumeCommand(cur)
    /\ pc' = "respond"
    /\ UNCHANGED <<fromInternal, cur, todo, remaining, forwardVars, outVars,
                   envVars, paceVars>>

\* generateCommand fails: the command is consumed, nothing is answered or sent.
GetCommandFails ==
    /\ pc = "command"
    /\ IsDeviceValid(cur)
    /\ HasCommand(cur, cur \in pushDevices)
    /\ \E generated \in Library!GenerateCommand(NextCommand(cur)) : ~generated.ok
    /\ ConsumeCommand(cur)
    /\ Goto("wait")
    /\ UNCHANGED <<forwardVars, outVars, envVars, paceVars>>

\* The library does not answer (DEVICE_NOT_SUPPORTED): no look-up, no answer.
GetCommandUnsupported ==
    /\ pc = "command"
    /\ ~Library!IsDeviceTypeSupported
    /\ Goto("wait")
    /\ UNCHANGED <<aggVars, forwardVars, outVars, envVars, paceVars>>

\* A command is pushed to toInternalQueue.
Sent(d, c) ==
    /\ lastCommand' = IF d \in pushDevices THEN lastCommand ELSE [lastCommand EXCEPT ![d] = c]
    /\ sentCommands' = IF d \in pushDevices
                       THEN [sentCommands EXCEPT ![d] = @ \cup ({c} \ {Empty})] ELSE sentCommands

Respond ==
    /\ pc = "respond"
    /\ Sent(cur, hand)
    /\ hand' = Empty
    /\ pc' = "send"
    /\ UNCHANGED <<fromInternal, cur, todo, remaining, aggVars, forwardVars, toExternal,
                   kicked, envVars, paceVars>>

\* Mutant of SendAggregated: the loop runs once too often.
SendAggregatedOnceMore ==
    /\ pc = "send"
    /\ SendAggregatedStatus(cur)
    /\ remaining' = remaining - 1
    /\ UNCHANGED <<fromInternal, pc, cur, todo, hand, forwardVars, lastCommand,
                   sentCommands, kicked, envVars, paceVars>>

\* sendAggregatedStatus: its return code is ignored, so an empty status may be sent.
SendAggregated ==
    /\ pc = "send"
    /\ remaining > 0
    /\ SendAggregatedStatus(cur)
    /\ remaining' = remaining - 1
    /\ UNCHANGED <<fromInternal, pc, cur, todo, hand, forwardVars, lastCommand,
                   sentCommands, kicked, envVars, paceVars>>

SendDone ==
    /\ pc = "send"
    /\ remaining = 0
    /\ Goto("wait")
    /\ UNCHANGED <<aggVars, forwardVars, outVars, envVars, paceVars>>

\* handleDisconnect of a device that is not held, or whose library does not answer.
HandleDisconnectInvalid ==
    /\ Takes("disconnect", "wait")
    /\ ~IsDeviceValid(Head(fromInternal).dev)
    /\ UNCHANGED <<remaining, aggVars, forwardVars, outVars, envVars, paceVars>>

HandleDisconnect ==
    /\ Takes("disconnect", "force")
    /\ IsDeviceValid(Head(fromInternal).dev)
    /\ UNCHANGED <<remaining, aggVars, forwardVars, outVars, envVars, paceVars>>

\* force_aggregation_on_device; the handler gives up if the device has gone meanwhile.
ForceOnDisconnect ==
    /\ pc = "force"
    /\ ForceAggregation(cur)
    /\ Goto(IF IsDeviceValid(cur) THEN "sendLast" ELSE "wait")
    /\ UNCHANGED <<forwardVars, outVars, envVars, paceVars>>

SendLast ==
    /\ pc = "sendLast"
    /\ SendAggregatedStatus(cur)
    /\ Goto("remove")
    /\ UNCHANGED <<forwardVars, lastCommand, sentCommands, kicked, envVars, paceVars>>

Remove ==
    /\ pc = "remove"
    /\ RemoveDevice(cur)
    /\ Goto("wait")
    /\ UNCHANGED <<forwardVars, outVars, envVars, paceVars>>

HandlerThread ==
    \/ CheckTimeouted \/ CheckNextDevice \/ DrainMessage \/ DrainDone \/ CheckDone
    \/ NoMessage \/ HandleConnect \/ HandleStatusRefused \/ HandleStatus
    \/ GetCommandThrows \/ GetCommand \/ GetCommandFails \/ GetCommandUnsupported \/ Respond
    \/ SendAggregated \/ SendDone
    \/ HandleDisconnectInvalid \/ HandleDisconnect \/ ForceOnDisconnect \/ SendLast \/ Remove

-----------------------------------------------------------------------------
(* handleCommandForwards *)

\* get_command_for_forwarding: nothing happens if the device is not held or the status
\* path was faster; if generateCommand fails the command is lost.
ForwardTake ==
    /\ pc # "dead"
    /\ forwards # <<>>
    /\ forwardHand = <<>>
    /\ LET d == Head(forwards)
       IN  IF IsDeviceValid(d) /\ HasCommand(d, d \in pushDevices)
           THEN /\ ConsumeCommand(d)
                /\ \E generated \in Library!GenerateCommand(NextCommand(d)) :
                      forwardHand' = IF generated.ok THEN <<d, generated.buffer>> ELSE <<>>
           ELSE UNCHANGED <<aggVars, forwardHand>>
    /\ forwards' = Tail(forwards)
    /\ UNCHANGED <<handlerVars, outVars, envVars, paceVars>>

ForwardPush ==
    /\ pc # "dead"
    /\ forwardHand # <<>>
    /\ Sent(forwardHand[1], forwardHand[2])
    /\ forwardHand' = <<>>
    /\ UNCHANGED <<aggVars, handlerVars, forwards, toExternal, kicked, envVars,
                   paceVars>>

-----------------------------------------------------------------------------
(* io threads, external client, internal server *)

\* ThreadTimer::tick of d's timer begins.
TimerTick(d) ==
    /\ pc # "dead"
    /\ d \notin expired
    /\ TimerExpires(d)
    /\ expired' = expired \cup {d}
    /\ UNCHANGED <<handlerVars, forwardVars, outVars, envVars, forced>>

\* The rest of the callback.
TimerCallback(d) ==
    /\ pc # "dead"
    /\ TimerForces(d)
    /\ UNCHANGED <<handlerVars, forwardVars, outVars, envVars, paceVars>>

\* The io_context runs a posted erasure.
PostedErase(d) ==
    /\ pc # "dead"
    /\ EraseDevice(d)
    /\ UNCHANGED <<handlerVars, forwardVars, outVars, envVars, paceVars>>

IoThread(d) == TimerTick(d) \/ TimerCallback(d) \/ PostedErase(d)

\* ExternalClient::handleCommand: keep the command, and have it forwarded if the
\* module wants that.
CommandArrives(d) ==
    /\ pc # "dead"
    /\ commandCount[d] < MaxCommand
    /\ commandCount' = [commandCount EXCEPT ![d] = @ + 1]
    /\ UpdateCommand(d, commandCount[d] + 1)
    /\ forwards' = IF d \in pushDevices THEN Append(forwards, d) ELSE forwards
    /\ UNCHANGED <<handlerVars, forwardHand, outVars, libraryHandler, responding, pushDevices, connected,
                   statusCount, outages, paceVars>>

\* ExternalConnection::forceAggregationOnAllDevices.
ExternalForce(d) ==
    /\ d \in held
    /\ pc # "dead"
    /\ d \notin forced
    /\ Len(messages[d]) < MaxMessages
    /\ ForceAggregation(d)
    /\ forced' = forced \cup {d}
    /\ UNCHANGED <<handlerVars, forwardVars, outVars, envVars, expired>>

Announce(kind, d, n) ==
    /\ pc # "dead"
    /\ Len(fromInternal) < MaxQueue
    /\ fromInternal' = Append(fromInternal, [kind |-> kind, dev |-> d, n |-> n])
    /\ UNCHANGED <<pc, cur, todo, remaining, hand, aggVars, forwardVars, toExternal,
                   lastCommand, sentCommands, libraryHandler, responding, pushDevices,
                   commandCount, outages, paceVars>>

\* The internal server (module InternalServer): connect, statuses, disconnect.  A device
\* with no status left (MaxStatus) does not come back.
ServerConnect(d) ==
    /\ d \notin connected
    /\ statusCount[d] < MaxStatus
    /\ Announce("connect", d, Empty)
    /\ connected' = connected \cup {d}
    /\ UNCHANGED <<kicked, statusCount>>

\* A status may also be a straggler of a connection that was evicted: it follows the
\* disconnect.
ServerStatus(d) ==
    /\ d \in connected \/ statusCount[d] > 0
    /\ statusCount[d] < MaxStatus
    /\ Announce("status", d, statusCount[d] + 1)
    /\ statusCount' = [statusCount EXCEPT ![d] = @ + 1]
    /\ UNCHANGED <<connected, kicked>>

\* Of its own accord, or because the module handler asked.
ServerDisconnect(d) ==
    /\ d \in connected
    /\ erasures[d] < MaxErasures
    /\ Announce("disconnect", d, Empty)
    /\ connected' = connected \ {d}
    /\ kicked' = kicked \ {d}
    /\ UNCHANGED statusCount

\* External: calls of the module binary run into the Aeron time-out, until they do not.
ModuleBinaryStalls ==
    /\ libraryHandler = "async"
    /\ pc # "dead"
    /\ responding
    /\ outages < MaxOutages
    /\ responding' = FALSE
    /\ outages' = outages + 1
    /\ UNCHANGED <<aggVars, handlerVars, forwardVars, outVars, libraryHandler, pushDevices,
                   connected, statusCount, commandCount, paceVars>>

ModuleBinaryRecovers ==
    /\ ~responding
    /\ pc # "dead"
    /\ responding' = TRUE
    /\ UNCHANGED <<aggVars, handlerVars, forwardVars, outVars, libraryHandler, pushDevices,
                   connected, statusCount, commandCount, outages, paceVars>>

Environment(d) ==
    \/ CommandArrives(d) \/ ExternalForce(d)
    \/ ServerConnect(d) \/ ServerStatus(d) \/ ServerDisconnect(d)

Next ==
    \/ HandlerThread
    \/ ForwardTake \/ ForwardPush
    \/ ModuleBinaryStalls \/ ModuleBinaryRecovers
    \/ \E d \in Devices : IoThread(d) \/ Environment(d)

Spec == Init /\ [][Next]_vars

\* The threads run, the io_context runs what is posted, and the timer of a held
\* device keeps expiring (tick re-arms it).
Fairness ==
    /\ WF_vars(HandlerThread)
    /\ WF_vars(ForwardTake \/ ForwardPush)
    /\ \A d \in Devices :
          /\ WF_vars(TimerTick(d))
          /\ WF_vars(TimerCallback(d))
          /\ WF_vars(PostedErase(d))

FairSpec == Spec /\ Fairness

-----------------------------------------------------------------------------
(* Properties *)

\* Every variable stays in its domain.
TypeOK ==
    /\ AggTypeOK
    /\ fromInternal \in Seq(Entries)
    /\ pc \in PCs
    /\ cur \in Devices
    /\ todo \in SUBSET Devices
    /\ remaining \in Nat
    /\ hand \in Nat
    /\ forwards \in Seq(Devices)
    /\ forwardHand \in {<<>>} \cup (Devices \X Nat)
    /\ toExternal \in [Devices -> Nat]
    /\ lastCommand \in [Devices -> Nat]
    /\ sentCommands \in [Devices -> SUBSET Nat]
    /\ kicked \in SUBSET Devices
    /\ pushDevices \in SUBSET Devices
    /\ connected \in SUBSET Devices
    /\ statusCount \in [Devices -> Nat]
    /\ outages \in Nat
    /\ commandCount \in [Devices -> Nat]
    /\ expired \in SUBSET Devices
    /\ forced \in SUBSET Devices

\* Statuses leave in order: whichever of the timers, the external client, new statuses,
\* disconnects and late erasures queued or dropped messages, no status of a device is
\* pushed to the external client after a newer one of it.
StatusesInOrder ==
    [][\A d \in Devices : toExternal'[d] >= toExternal[d]]_vars

\* The queue of external commands is a window on the newest ones: consecutive, at most
\* max_external_commands of them, ending with the last command accepted.
NewestCommandsKept ==
    \A d \in Devices :
        LET q == commands[d]
        IN  /\ Len(q) <= MaxExternalCommands
            /\ \A i \in 1..(Len(q) - 1) : q[i + 1] = q[i] + 1
            /\ q # <<>> => q[Len(q)] = commandCount[d]

\* A push-only device gets each external command at most once, although the status path
\* and the forwarding thread take from the same queue: a command is waiting, in one
\* thread's hand, or sent, and never two of these.
EachCommandOnce ==
    \A d \in pushDevices :
        LET waiting == {commands[d][i] : i \in 1..Len(commands[d])}
            byStatus == IF cur = d /\ pc = "respond" THEN {hand} \ {Empty} ELSE {}
            byForward == IF forwardHand # <<>> /\ forwardHand[1] = d
                         THEN {forwardHand[2]} ELSE {}
        IN  /\ \A i, j \in 1..Len(commands[d]) : i # j => commands[d][i] # commands[d][j]
            /\ waiting \cap (byStatus \cup byForward \cup sentCommands[d]) = {}
            /\ byStatus \cap (byForward \cup sentCommands[d]) = {}
            /\ byForward \cap sentCommands[d] = {}

\* A pull device never sees an older command after a newer one; the fall-back to the
\* default command repeats the last one, or after a new registration the generated one.
CommandsInOrder ==
    [][\A d \in Devices \ pushDevices :
          lastCommand'[d] # Empty => lastCommand'[d] >= lastCommand[d]]_vars

\* An accepted status is not stuck in the aggregator: it, or a newer one of the device,
\* reaches the external client unless the device is erased first or the module binary
\* stops answering; after an outage it does again.
StatusReachesExternal ==
    \A d \in Devices : \A n \in 1..MaxStatus :
        (d \in held /\ status[d] = n /\ responding)
            ~> (toExternal[d] >= n \/ d \notin held \/ ~responding \/ pc = "dead")

\* No status of d is under way any more.
Quiet(d) ==
    /\ statusCount[d] = MaxStatus
    /\ \A i \in 1..Len(fromInternal) : fromInternal[i].dev = d => fromInternal[i].kind # "status"

\* A device that is held and stays silent is disconnected in the end: the internal
\* server is asked to, or the device goes by itself; so is one whose disconnect was lost
\* in an outage of the module binary.
SilentIsDisconnected ==
    \A d \in Devices :
        (d \in held /\ Quiet(d)) ~> (d \in kicked \/ d \notin held \/ pc = "dead")

\* getCommandUnlocked's comment lists the codes it returns; it would never end by an
\* exception that takes the handler thread, and so the process, down.
GetCommandReturns == pc # "dead"
=============================================================================
