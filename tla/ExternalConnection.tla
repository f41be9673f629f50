------------------------- MODULE ExternalConnection -------------------------
(***************************************************************************)
(* The external client (source/bringauto/external_client/ExternalClient.cpp)*)
(* with one connection to an external server                               *)
(* (connection/ExternalConnection.cpp): the connect sequence, the statuses *)
(* that wait for their response (messages/SentMessagesHandler.cpp,         *)
(* NotAckedStatus.cpp) and the error aggregator (ErrorAggregator.cpp),     *)
(* which keeps what could not be delivered.                                *)
(*                                                                         *)
(* Threads:                                                                *)
(*   client    handleAggregatedMessages: serves reconnect requests, sends  *)
(*             statuses, starts the connect sequence and meanwhile drains  *)
(*             the queue (cpc);                                            *)
(*   connect   initializeConnection, one thread per sequence (xpc);        *)
(*   listener  receivingHandlerLoop while connected (lpc);                 *)
(*   io        time-outs of responses and the reconnect timer.             *)
(* Module handler, channel and server are the environment.                 *)
(*                                                                         *)
(* The channel is what MqttCommunication and QuicCommunication (modules of *)
(* their own, see Channel) promise between them: it may fail to open, it   *)
(* may go down at any time, sending fails while it is down and receiving   *)
(* then gives nothing, and what arrived before it went down may (QUIC) or  *)
(* may not (MQTT) be there when it is up again.  Over QUIC each message    *)
(* has a stream of its own, so messages of one session arrive in any       *)
(* order.  A response is put into the channel when its request is sent, or *)
(* never; the delay is the reading's.                                      *)
(*                                                                         *)
(* A status is a number, counted per device; 0 is the empty Buffer.        *)
(***************************************************************************)
EXTENDS Integers, Sequences, SequencesExt

CONSTANTS
    Devices,
    MaxStatus,      \* bound: statuses a device sends
    MaxCommand,     \* bound: commands the server sends in a session
    MaxChannel,     \* bound: messages of the server in the channel
    MaxReconnect,   \* bound: pending reconnect requests that let a status time out
    MaxEntries      \* bound: entries of one device counted in connectedDevices_

ASSUME ConnectionAssumption ==
    /\ Devices # {}
    /\ MaxStatus \in Nat
    /\ MaxCommand \in Nat
    /\ MaxChannel \in Nat
    /\ MaxReconnect \in Nat
    /\ MaxEntries \in Nat \ {0}

\* InternalClientMessage as it comes from the module handler.
Statuses == [dev : Devices, n : 1..MaxStatus, disconnected : BOOLEAN]

\* ExternalServer messages; "refused" is a connect response ALREADY_LOGGED or a message
\* of unexpected type, "goodbye" the server's disconnect notification.  The status an
\* "ack" answers (dev, n) is auxiliary: the code sees the counter only.  Of the session id
\* only matters whether it is sessionId_, which is random and never repeats (mine).
ServerMessages ==
    [kind : {"connected", "refused", "ack", "command", "goodbye"},
     mine : BOOLEAN, ctr : Nat, dev : Devices, n : Nat]

ClientPCs == {"loop", "take", "join", "collect", "force", "forced", "drain",
              "fill", "joinConnect"}
ConnectPCs == {"none", "init", "connect", "response", "status", "send", "ack", "command",
               "listening", "clear", "ok", "failed"}
ListenerPCs == {"none", "starting", "top", "receive", "handle", "ended"}

VARIABLES
    toExternal,       \* toExternalQueue_
    held,             \* devices the status aggregators hold
    leaving,          \* those whose disconnect message is queued
    statusCount,      \* statuses each device has sent
    state,            \* state_
    clientCounter,    \* clientMessageCounter_
    serverCounter,    \* serverMessageCounter_
    stopReceiving,    \* stopReceiving
    registered,       \* keys of the error aggregators
    lastStatus,       \* their lastStatus
    error,            \* statuses that went into their errorMessage
    notAcked,         \* notAckedStatuses_
    connectedDevices, \* connectedDevices_: how often each device is in the vector
    responseHandled,  \* responseHandled_
    reconnects,       \* reconnectQueue_: the field reconnect of its items
    retries,          \* reconnect timers that have not fired
    expired,          \* a response's time-out handler waits in the io_context
    cpc, caller,      \* client thread: where it is; who asked for the reconnection
    inHand,           \* client thread: <<message>> taken while a connect runs, or <<>>
    forcedDevices,    \* client thread: devices whose forced status is awaited
    xpc,              \* connect thread: where it is
    listed, todo,     \* connect thread: its devices, and those it has not handled yet
    reading,          \* connect thread: <<device, status>> about to be sent, or <<>>
    lpc, received,    \* listener: where it is, and <<message>> it handles, or <<>>
    up,               \* the channel is up
    fromServer,       \* messages that arrived in the channel
    serverSession,    \* the server has a session
    serverSent,       \* commands it has sent in it
    settled,          \* auxiliary: statuses acknowledged, or cleared by a connect sequence
    reported          \* auxiliary: statuses reported by the present connect sequence

queueVars == <<toExternal, held, leaving, statusCount>>
sessionVars == <<clientCounter, serverCounter>>
errorVars == <<registered, lastStatus, error>>
sentVars == <<notAcked, connectedDevices, responseHandled>>
timerVars == <<reconnects, retries, expired>>
clientVars == <<cpc, caller, inHand, forcedDevices>>
connectVars == <<xpc, listed, todo, reading>>
listenVars == <<lpc, received, stopReceiving>>
channelVars == <<up, fromServer, serverSession, serverSent>>
auxVars == <<settled, reported>>
vars == <<queueVars, state, sessionVars, errorVars, sentVars, timerVars, clientVars,
          connectVars, listenVars, channelVars, auxVars>>

Init ==
    /\ toExternal = <<>> /\ held = {} /\ leaving = {} /\ statusCount = [d \in Devices |-> 0]
    /\ state = "NOT_INITIALIZED"
    /\ clientCounter = 0 /\ serverCounter = 0
    /\ registered = {}
    /\ lastStatus = [d \in Devices |-> 0]
    /\ error = [d \in Devices |-> {}]
    /\ notAcked = <<>> /\ connectedDevices = [d \in Devices |-> 0] /\ responseHandled = FALSE
    /\ reconnects = <<>> /\ retries = 0 /\ expired = FALSE
    /\ cpc = "loop" /\ caller = "status" /\ inHand = <<>> /\ forcedDevices = {}
    /\ xpc = "none" /\ listed = {} /\ todo = {} /\ reading = <<>>
    /\ lpc = "none" /\ received = <<>> /\ stopReceiving = FALSE
    /\ up = FALSE /\ fromServer = <<>> /\ serverSession = FALSE /\ serverSent = 0
    /\ settled = [d \in Devices |-> {}] /\ reported = [d \in Devices |-> {}]

-----------------------------------------------------------------------------
(* Error aggregator, sent messages, channel *)

\* add_status_to_error_aggregator for each entry of s in turn.  The module's library is
\* taken to aggregate; what it refuses is not kept (the result is ignored).
AddToAggregator(s) ==
    LET of(d) == {i \in 1..Len(s) : s[i].dev = d}
        last(d) == CHOOSE i \in of(d) : \A j \in of(d) : j <= i
    IN  /\ registered' = registered \cup {s[i].dev : i \in 1..Len(s)}
        /\ lastStatus' = [d \in Devices |-> IF of(d) = {} THEN lastStatus[d] ELSE s[last(d)].n]
        /\ error' = [d \in Devices |-> error[d] \cup {s[i].n : i \in of(d)}]

\* Mutant of FillErrorAggregator: the statuses without response are dropped.
FillErrorAggregatorAlone(more) ==
    /\ AddToAggregator(more)
    /\ notAcked' = <<>>
    /\ responseHandled' = FALSE
    /\ UNCHANGED connectedDevices

\* Mutant of FillErrorAggregator: the list of statuses without response is not cleared.
FillErrorAggregatorKeeping(more) ==
    /\ AddToAggregator(notAcked \o more)
    /\ responseHandled' = FALSE
    /\ UNCHANGED <<notAcked, connectedDevices>>

\* fillErrorAggregatorWithNotAckedStatuses (more = <<>>) and fillErrorAggregator of one
\* status: what has no response yet first, then the list and its timers are cleared.
FillErrorAggregator(more) ==
    /\ AddToAggregator(notAcked \o more)
    /\ notAcked' = <<>>
    /\ responseHandled' = FALSE
    /\ UNCHANGED connectedDevices

\* The entries acknowledgeStatus finds for a counter; it takes the first.
WithCounter(c) == {i \in 1..Len(notAcked) : notAcked[i].ctr = c}

\* acknowledgeStatus.
Acknowledge(m) ==
    IF WithCounter(m.ctr) = {}
    THEN UNCHANGED <<notAcked, settled>>
    ELSE LET i == CHOOSE i \in WithCounter(m.ctr) : \A j \in WithCounter(m.ctr) : i <= j
         IN  /\ notAcked' = RemoveAt(notAcked, i)
             /\ settled' = [settled EXCEPT ![notAcked[i].dev] = @ \cup {notAcked[i].n}]

\* What acknowledgeStatus returns: NOT_OK also when the last device's last status is done.
AcknowledgeOk(m) ==
    /\ WithCounter(m.ctr) # {}
    /\ ~(Len(notAcked) = 1 /\ \A d \in Devices : connectedDevices[d] = 0)

\* ExternalConnection::handleCommand accepts the command m.
CommandOk(m) ==
    /\ m.mine
    /\ serverCounter # 0 => m.ctr = serverCounter + 1

\* closeConnection, or the loss of the connection.
ChannelCloses ==
    /\ up' = FALSE
    /\ fromServer' \in {<<>>, fromServer}
    /\ serverSession' = FALSE
    /\ serverSent' = 0

\* The channel that holds s with m in addition: after what is left of an earlier
\* session, at any place among the messages of this one.
Arrives(s, m) ==
    {InsertAt(s, i, m) : i \in {j \in 1..Len(s) + 1 : \A k \in j..Len(s) : s[k].mine}}

\* The server answers a request with m, or does not; before it the channel holds s.
Replies(s, m) ==
    \/ fromServer' = s
    \/ Len(s) < MaxChannel /\ fromServer' \in Arrives(s, m)

\* Mutant of DeviceEntries: deleteConnectedDevice erases without having found the device.
DeviceEntriesUnchecked(d, devState) ==
    [connectedDevices EXCEPT ![d] = IF devState = "DISCONNECT" THEN @ - 1 ELSE 1]

\* connectedDevices_ after a status of d with the given state.
DeviceEntries(d, devState) ==
    LET s == IF d \notin registered THEN "CONNECTING" ELSE devState
        n == connectedDevices[d]
    IN  [connectedDevices EXCEPT ![d] =
            CASE s = "DISCONNECT"                 -> IF n > 0 THEN n - 1 ELSE 0
              [] s = "CONNECTING" \/ n = 0        -> IF n < MaxEntries THEN n + 1 ELSE n
              [] OTHER                            -> n]

\* ExternalConnection::sendStatus up to sendMessage, which succeeds.
SendStatus(d, n, devState) ==
    LET m == [kind |-> "ack", mine |-> TRUE, ctr |-> clientCounter + 1, dev |-> d, n |-> n]
    IN  /\ up
        /\ IF d \in registered THEN UNCHANGED errorVars ELSE AddToAggregator(<<m>>)
        /\ connectedDevices' = DeviceEntries(d, devState)
        /\ clientCounter' = clientCounter + 1
        /\ notAcked' = Append(notAcked, [ctr |-> clientCounter + 1, dev |-> d, n |-> n])
        /\ Replies(fromServer, m)
        /\ UNCHANGED <<serverCounter, responseHandled, up, serverSession, serverSent>>

-----------------------------------------------------------------------------
(* Client thread: handleAggregatedMessages *)

\* deinitializeConnection(false) up to the join of the listener; it has lost or closes
\* its channel.
Deinitialize ==
    /\ state' = "NOT_INITIALIZED"
    /\ clientCounter' = 0
    /\ serverCounter' = 0
    /\ responseHandled' = FALSE
    /\ stopReceiving' = TRUE
    /\ cpc' = "join"
    /\ UNCHANGED <<lpc, received, inHand, forcedDevices>>

\* The client thread goes on and changes nothing else.
Goto(pc) ==
    /\ cpc' = pc
    /\ UNCHANGED <<queueVars, state, sessionVars, errorVars, sentVars, timerVars, caller, inHand,
                   forcedDevices, connectVars, listenVars, channelVars, auxVars>>

\* The front item of reconnectQueue_ is served; it is popped when that is done.
ServeReconnect ==
    /\ cpc = "loop"
    /\ reconnects # <<>>
    /\ Deinitialize
    /\ caller' = "item"
    /\ ChannelCloses
    /\ UNCHANGED <<queueVars, errorVars, notAcked, connectedDevices, timerVars, connectVars,
                   auxVars>>

NoReconnect == cpc = "loop" /\ reconnects = <<>> /\ Goto("take")

TakeNothing == cpc = "take" /\ toExternal = <<>> /\ Goto("loop")

\* Mutant of Pop: the front is read and not popped.
PopNever ==
    /\ toExternal # <<>>
    /\ UNCHANGED queueVars

\* The front of toExternalQueue_ is taken.
Pop ==
    /\ toExternal # <<>>
    /\ toExternal' = Tail(toExternal)
    /\ UNCHANGED <<held, leaving, statusCount>>

\* ExternalClient::sendStatus without a connection: the status is kept, and if there was
\* no attempt to connect yet, the connect sequence starts.
TakeUnconnected ==
    /\ cpc = "take"
    /\ state # "CONNECTED"
    /\ Pop
    /\ FillErrorAggregator(<<Head(toExternal)>>)
    /\ cpc' = IF state = "NOT_INITIALIZED" THEN "collect" ELSE "loop"
    /\ caller' = "status"
    /\ UNCHANGED <<state, sessionVars, timerVars, inHand, forcedDevices, connectVars, listenVars,
                   channelVars, auxVars>>

DeviceState(m) == IF m.disconnected THEN "DISCONNECT" ELSE "RUNNING"

\* ExternalClient::sendStatus with a connection.
TakeSend ==
    /\ cpc = "take"
    /\ state = "CONNECTED"
    /\ Pop
    /\ SendStatus(Head(toExternal).dev, Head(toExternal).n, DeviceState(Head(toExternal)))
    /\ cpc' = "loop"
    /\ UNCHANGED <<state, timerVars, caller, inHand, forcedDevices, connectVars, listenVars,
                   auxVars>>

\* The same when sendMessage fails: the status is entered all the same, then the
\* connection is deinitialized.
TakeSendFails ==
    /\ cpc = "take"
    /\ state = "CONNECTED"
    /\ ~up
    /\ Pop
    /\ LET m == Head(toExternal)
       IN  /\ IF m.dev \in registered THEN UNCHANGED errorVars ELSE AddToAggregator(<<m>>)
           /\ connectedDevices' = DeviceEntries(m.dev, DeviceState(m))
           /\ notAcked' = Append(notAcked, [ctr |-> clientCounter + 1, dev |-> m.dev, n |-> m.n])
    /\ Deinitialize
    /\ caller' = "status"
    /\ ChannelCloses
    /\ UNCHANGED <<timerVars, connectVars, auxVars>>

\* Mutant of ListenerEnded: no join.
ListenerEndedOrNot == TRUE

\* listeningThread is not joinable, or its join returns.
ListenerEnded == lpc \in {"none", "ended"}

\* The rest of deinitializeConnection; then a reconnect item with reconnect set starts
\* the connect sequence, one without is done (setNotInitialized).
JoinListener ==
    /\ cpc = "join"
    /\ ListenerEnded
    /\ lpc' = IF lpc = "ended" THEN "none" ELSE lpc
    /\ FillErrorAggregator(<<>>)
    /\ cpc' = CASE caller = "status"                       -> "loop"
                [] caller = "item" /\ Head(reconnects)     -> "collect"
                [] OTHER                                   -> "take"
    /\ reconnects' = IF cpc' = "take" THEN Tail(reconnects) ELSE reconnects
    /\ caller' = IF cpc' = "collect" THEN caller ELSE "status"
    /\ UNCHANGED <<queueVars, state, sessionVars, retries, expired, inHand, forcedDevices,
                   connectVars, received, stopReceiving, channelVars, auxVars>>

-----------------------------------------------------------------------------
(* Client thread: startExternalConnectSequence, drainQueueDuringConnect *)

\* What is queued goes to the error aggregator, up to a disconnect message.
Collect ==
    /\ cpc = "collect"
    /\ Pop
    /\ ~Head(toExternal).disconnected
    /\ FillErrorAggregator(<<Head(toExternal)>>)
    /\ UNCHANGED <<state, sessionVars, timerVars, clientVars, connectVars, listenVars,
                   channelVars, auxVars>>

\* getAllConnectedDevices.
ListDevices ==
    /\ cpc = "collect"
    /\ toExternal # <<>> => Head(toExternal).disconnected
    /\ listed' = held
    /\ cpc' = "force"
    /\ UNCHANGED <<queueVars, state, sessionVars, errorVars, sentVars, timerVars, caller, inHand,
                   forcedDevices, xpc, todo, reading, listenVars, channelVars, auxVars>>

\* forceAggregationOnAllDevices skips the devices the error aggregator has an entry for.
ForceAggregation ==
    /\ cpc = "force"
    /\ forcedDevices' = listed \ registered
    /\ cpc' = "forced"
    /\ UNCHANGED <<queueVars, state, sessionVars, errorVars, sentVars, timerVars, caller, inHand,
                   connectVars, listenVars, channelVars, auxVars>>

\* A status of a forced device is awaited; others go to the end of the queue.
AwaitForced ==
    /\ cpc = "forced"
    /\ forcedDevices # {}
    /\ toExternal # <<>>
    /\ LET m == Head(toExternal)
       IN  IF m.dev \in forcedDevices
           THEN /\ FillErrorAggregator(<<m>>)
                /\ forcedDevices' = forcedDevices \ {m.dev}
                /\ toExternal' = Tail(toExternal)
           ELSE /\ toExternal' = Append(Tail(toExternal), m)
                /\ UNCHANGED <<errorVars, sentVars, forcedDevices>>
    /\ UNCHANGED <<held, leaving, statusCount, state, sessionVars, timerVars, cpc, caller, inHand,
                   connectVars,
                   listenVars, channelVars, auxVars>>

\* Mutant of AllForced: the forced statuses are not awaited.
AllForcedOrNot == TRUE

AllForced == forcedDevices = {}

\* The connect thread starts.
StartConnect ==
    /\ cpc = "forced"
    /\ AllForced
    /\ FillErrorAggregator(<<>>)
    /\ xpc' = "init"
    /\ cpc' = "drain"
    /\ UNCHANGED <<queueVars, state, sessionVars, timerVars, caller, inHand, forcedDevices, listed,
                   todo, reading, listenVars, channelVars, auxVars>>

ConnectDone == xpc \in {"ok", "failed"}

\* drainQueueDuringConnect takes a status after its second look at the connection...
DrainTake ==
    /\ cpc = "drain"
    /\ ~ConnectDone
    /\ state # "CONNECTED"
    /\ Pop
    /\ ~Head(toExternal).disconnected
    /\ inHand' = <<Head(toExternal)>>
    /\ cpc' = "fill"
    /\ UNCHANGED <<state, sessionVars, errorVars, sentVars, timerVars, caller, forcedDevices,
                   connectVars,
                   listenVars, channelVars, auxVars>>

\* ... and locks errorAggregatorsMutex_ for it afterwards.
DrainFill ==
    /\ cpc = "fill"
    /\ FillErrorAggregator(inHand)
    /\ inHand' = <<>>
    /\ cpc' = "drain"
    /\ UNCHANGED <<queueVars, state, sessionVars, timerVars, caller, forcedDevices, connectVars,
                   listenVars, channelVars, auxVars>>

DrainDone ==
    /\ cpc = "drain"
    /\ \/ ConnectDone \/ state = "CONNECTED"
       \/ toExternal # <<>> /\ Head(toExternal).disconnected
    /\ Goto("joinConnect")

\* Mutant of RetriesArmed: a failure arms no timer.
RetriesArmedNever == retries

RetriesArmed == IF xpc = "failed" THEN retries + 1 ELSE retries

\* connectThread.join; a failed sequence arms the reconnect timer.
JoinConnect ==
    /\ cpc = "joinConnect"
    /\ ConnectDone
    /\ xpc' = "none" /\ listed' = {} /\ todo' = {} /\ reported' = [d \in Devices |-> {}]
    /\ retries' = RetriesArmed
    /\ reconnects' = IF caller = "item" THEN Tail(reconnects) ELSE reconnects
    /\ cpc' = IF caller = "item" THEN "take" ELSE "loop"
    /\ caller' = "status"
    /\ UNCHANGED <<queueVars, state, sessionVars, errorVars, sentVars, expired, inHand,
                   forcedDevices, reading, listenVars, channelVars, settled>>

ClientThread ==
    \/ ServeReconnect \/ NoReconnect \/ TakeNothing \/ TakeUnconnected \/ TakeSend \/ TakeSendFails
    \/ JoinListener \/ Collect \/ ListDevices \/ ForceAggregation \/ AwaitForced \/ StartConnect
    \/ DrainTake \/ DrainFill \/ DrainDone \/ JoinConnect

-----------------------------------------------------------------------------
(* Connect thread: initializeConnection *)

\* What the client thread, the timers and the modules keep during most of its steps.
ConnectKeeps == <<queueVars, timerVars, clientVars, listed>>

ConnectFails ==
    /\ xpc' = "failed"
    /\ state' = "NOT_CONNECTED"

\* The first message of the channel is received.
Receive ==
    /\ up
    /\ fromServer # <<>>
    /\ fromServer' = Tail(fromServer)
    /\ UNCHANGED <<up, serverSession, serverSent>>

\* receiveMessage returns nullptr: it timed out, or the channel is down.
ReceiveNothing ==
    /\ ~up \/ fromServer = <<>>
    /\ UNCHANGED channelVars

\* The channel's initializeConnection; it throws, or returns with a channel up or not.
InitChannel ==
    /\ xpc = "init"
    /\ \/ /\ ConnectFails
          /\ UNCHANGED up
       \/ /\ xpc' = "connect"
          /\ state' = "CONNECTING"
          /\ up' \in BOOLEAN
    /\ UNCHANGED <<ConnectKeeps, sessionVars, errorVars, sentVars, todo, reading, listenVars,
                   fromServer, serverSession, serverSent, auxVars>>

\* connectMessageHandle up to its sendMessage.
SendConnect ==
    /\ xpc = "connect"
    /\ \/ /\ ~up
          /\ ConnectFails
          /\ UNCHANGED channelVars
       \/ /\ up
          /\ xpc' = "response"
          /\ serverSession' = TRUE
          /\ serverSent' = 0
          /\ \E k \in {"connected", "refused"} :
                Replies([i \in 1..Len(fromServer) |-> [fromServer[i] EXCEPT !.mine = FALSE]],
                        [kind |-> k, mine |-> TRUE, ctr |-> 0,
                         dev |-> CHOOSE d \in Devices : TRUE, n |-> 0])
          /\ UNCHANGED <<state, up>>
    /\ UNCHANGED <<ConnectKeeps, clientCounter, serverCounter, errorVars, sentVars, todo, reading,
                   listenVars, auxVars>>

\* Mutant of ConnectResponseOk: the session of the response is not compared.
ConnectResponseOkAny(m) == m.kind \in {"connected", "ack", "command"}

ConnectResponseOk(m) == m.kind = "connected" /\ m.mine

\* The rest of connectMessageHandle.
ConnectResponse ==
    /\ xpc = "response"
    /\ \/ /\ Receive
          /\ ConnectResponseOk(Head(fromServer))
          /\ xpc' = "status"
          /\ todo' = listed
          /\ UNCHANGED state
       \/ /\ \/ Receive /\ ~ConnectResponseOk(Head(fromServer))
             \/ ReceiveNothing
          /\ ConnectFails
          /\ UNCHANGED todo
    /\ UNCHANGED <<ConnectKeeps, sessionVars, errorVars, sentVars, reading, listenVars, auxVars>>

\* statusMessageHandle reads the error and the last status of a device under the lock...
ReadDevice(d) ==
    /\ xpc = "status"
    /\ d \in todo
    /\ IF d \in registered
       THEN /\ xpc' = "send"
            /\ reading' = <<d, lastStatus[d]>>
            /\ reported' = [reported EXCEPT ![d] = error[d]]
            /\ UNCHANGED state
       ELSE /\ ConnectFails
            /\ UNCHANGED <<reading, reported>>
    /\ UNCHANGED <<ConnectKeeps, sessionVars, errorVars, sentVars, todo, listenVars, channelVars,
                   settled>>

\* ... and sends them without it.
SendDevice ==
    /\ xpc = "send"
    /\ SendStatus(reading[1], reading[2], "CONNECTING")
    /\ xpc' = "status"
    /\ todo' = todo \ {reading[1]}
    /\ reading' = <<>>
    /\ UNCHANGED <<ConnectKeeps, state, listenVars, auxVars>>

\* When sendMessage fails the whole of deinitializeConnection runs in the connect thread
\* (its listener is joined already), and the loop goes on with the next device.
SendDeviceFails ==
    /\ xpc = "send"
    /\ ~up
    /\ state' = "NOT_INITIALIZED"
    /\ clientCounter' = 0
    /\ serverCounter' = 0
    /\ stopReceiving' = TRUE
    /\ ChannelCloses
    /\ AddToAggregator(notAcked \o <<[dev |-> reading[1], n |-> reading[2]]>>)
    /\ notAcked' = <<>>
    /\ responseHandled' = FALSE
    /\ connectedDevices' = DeviceEntries(reading[1], "CONNECTING")
    /\ xpc' = "status"
    /\ todo' = todo \ {reading[1]}
    /\ reading' = <<>>
    /\ UNCHANGED <<ConnectKeeps, lpc, received, auxVars>>

\* All devices are done; the next loop is over the same devices.
NextLoop(from, to) ==
    /\ xpc = from
    /\ todo = {}
    /\ xpc' = to
    /\ todo' = listed
    /\ UNCHANGED <<ConnectKeeps, state, sessionVars, errorVars, sentVars, reading, listenVars,
                   channelVars, auxVars>>

\* statusMessageHandle awaits as many responses as it has devices.
ConnectAck ==
    /\ xpc = "ack"
    /\ todo # {}
    /\ \/ LET m == Head(fromServer)
          IN  /\ Receive
              /\ IF m.kind = "ack" /\ m.mine
                 THEN /\ Acknowledge(m)
                      /\ \E d \in todo : todo' = todo \ {d}
                      /\ UNCHANGED <<xpc, state>>
                 ELSE ConnectFails /\ UNCHANGED <<notAcked, settled, todo>>
       \/ /\ ReceiveNothing
          /\ ConnectFails
          /\ UNCHANGED <<notAcked, settled, todo>>
    /\ UNCHANGED <<ConnectKeeps, sessionVars, errorVars, connectedDevices, responseHandled, reading,
                   listenVars, reported>>

\* commandMessageHandle awaits as many commands.
ConnectCommand ==
    /\ xpc = "command"
    /\ todo # {}
    /\ \/ LET m == Head(fromServer)
          IN  /\ Receive
              /\ IF m.kind = "command" /\ CommandOk(m)
                 THEN /\ serverCounter' = m.ctr
                      /\ \E d \in todo : todo' = todo \ {d}
                      /\ UNCHANGED <<xpc, state>>
                 ELSE ConnectFails /\ UNCHANGED <<serverCounter, todo>>
       \/ /\ ReceiveNothing
          /\ ConnectFails
          /\ UNCHANGED <<serverCounter, todo>>
    /\ UNCHANGED <<ConnectKeeps, clientCounter, errorVars, sentVars, reading, listenVars, auxVars>>

\* The listener starts.
StartListener ==
    /\ xpc = "command"
    /\ todo = {}
    /\ lpc' = "starting"
    /\ xpc' = "listening"
    /\ UNCHANGED <<ConnectKeeps, state, sessionVars, errorVars, sentVars, todo, reading, received,
                   stopReceiving, channelVars, auxVars>>

SetConnected ==
    /\ xpc = "listening"
    /\ state' = "CONNECTED"
    /\ xpc' = "clear"
    /\ UNCHANGED <<ConnectKeeps, sessionVars, errorVars, sentVars, todo, reading, listenVars,
                   channelVars, auxVars>>

\* clear_error_aggregator: its devices stay, with empty buffers.
ClearErrors ==
    /\ xpc = "clear"
    /\ lastStatus' = [d \in Devices |-> 0]
    /\ error' = [d \in Devices |-> {}]
    /\ settled' = [d \in Devices |-> settled[d] \cup error[d]]
    /\ xpc' = "ok"
    /\ UNCHANGED <<ConnectKeeps, state, sessionVars, registered, sentVars, todo, reading,
                   listenVars,
                   channelVars, reported>>

ConnectThread ==
    \/ InitChannel \/ SendConnect \/ ConnectResponse
    \/ \E d \in Devices : ReadDevice(d)
    \/ SendDevice \/ SendDeviceFails \/ NextLoop("status", "ack") \/ ConnectAck
    \/ NextLoop("ack", "command") \/ ConnectCommand \/ StartListener \/ SetConnected \/ ClearErrors

-----------------------------------------------------------------------------
(* Listener: receivingHandlerLoop.  A command for a connected device also goes to        *)
(* fromExternalQueue_, whose consumer is part of module ModuleHandler, and is answered;  *)
(* neither is state of this module.                                                      *)

ListenerKeeps == <<queueVars, state, clientCounter, errorVars, connectedDevices,
                   responseHandled, retries, expired, clientVars, connectVars, reported>>

\* A reconnect item is queued and the loop is left.
Leave(reconnect) ==
    /\ reconnects' = Append(reconnects, reconnect)
    /\ lpc' = "ended"

ListenerStarts ==
    /\ lpc = "starting"
    /\ stopReceiving' = FALSE
    /\ lpc' = "top"
    /\ UNCHANGED <<ListenerKeeps, serverCounter, notAcked, reconnects, received, channelVars,
                   settled>>

ListenerTop ==
    /\ lpc = "top"
    /\ \/ stopReceiving /\ lpc' = "ended"
       \/ ~stopReceiving /\ state # "CONNECTING" /\ lpc' = "receive"
    /\ UNCHANGED <<ListenerKeeps, serverCounter, notAcked, reconnects, received, stopReceiving,
                   channelVars, settled>>

ListenerReceives ==
    /\ lpc = "receive"
    /\ \/ /\ Receive
          /\ received' = <<Head(fromServer)>>
          /\ lpc' = "handle"
       \/ /\ ReceiveNothing
          /\ lpc' = "top"
          /\ UNCHANGED received
    /\ UNCHANGED <<ListenerKeeps, serverCounter, notAcked, reconnects, stopReceiving, settled>>

\* The message is handled.
ListenerHandles ==
    /\ lpc = "handle"
    /\ received' = <<>>
    /\ LET m == received[1]
           kind(k) == m.kind = k /\ state # "NOT_CONNECTED"
       IN  \/ /\ m.kind = "goodbye"
              /\ Leave(FALSE)
              /\ UNCHANGED <<serverCounter, notAcked, settled>>
           \/ /\ m.kind # "goodbye" /\ state = "NOT_CONNECTED"
              /\ lpc' = "top"
              /\ UNCHANGED <<serverCounter, notAcked, settled, reconnects>>
           \/ /\ kind("command") /\ CommandOk(m)
              /\ serverCounter' = m.ctr
              /\ lpc' = "top"
              /\ UNCHANGED <<notAcked, settled, reconnects>>
           \/ /\ (kind("command") /\ ~CommandOk(m)) \/ kind("connected") \/ kind("refused")
              /\ Leave(TRUE)
              /\ UNCHANGED <<serverCounter, notAcked, settled>>
           \/ /\ kind("ack")
              /\ Acknowledge(m)
              /\ IF AcknowledgeOk(m) THEN lpc' = "top" /\ UNCHANGED reconnects ELSE Leave(FALSE)
              /\ UNCHANGED serverCounter
    /\ UNCHANGED <<ListenerKeeps, stopReceiving, channelVars>>

Listener == ListenerStarts \/ ListenerTop \/ ListenerReceives \/ ListenerHandles

-----------------------------------------------------------------------------
(* io_context *)

IoKeeps == <<queueVars, state, sessionVars, errorVars, notAcked, connectedDevices, clientVars,
             connectVars, listenVars, channelVars, auxVars>>

\* The timer of a status expires; from here on cancelTimer comes too late.
ResponseTimeout ==
    /\ notAcked # <<>>
    /\ ~expired
    /\ Len(reconnects) + retries < MaxReconnect
    /\ expired' = TRUE
    /\ UNCHANGED <<IoKeeps, responseHandled, reconnects, retries>>

\* NotAckedStatus::timeoutHandler: only the first since the timers were cleared counts.
TimeoutHandler ==
    /\ expired
    /\ expired' = FALSE
    /\ responseHandled' = TRUE
    /\ reconnects' = IF responseHandled THEN reconnects ELSE Append(reconnects, TRUE)
    /\ UNCHANGED <<IoKeeps, retries>>

\* The reconnect timer of startExternalConnectSequence.
ReconnectTimer ==
    /\ retries > 0
    /\ retries' = retries - 1
    /\ reconnects' = Append(reconnects, TRUE)
    /\ UNCHANGED <<IoKeeps, responseHandled, expired>>

-----------------------------------------------------------------------------
(* Environment: module handler, server, network *)

ModuleKeeps == <<state, sessionVars, errorVars, sentVars, timerVars, clientVars, connectVars,
                 listenVars, channelVars, auxVars>>

\* The module handler queues the next status of d, which its aggregator holds.
Queued(d, disconnected) ==
    /\ d \in held \ leaving
    /\ statusCount[d] < MaxStatus
    /\ statusCount' = [statusCount EXCEPT ![d] = @ + 1]
    /\ toExternal' = Append(toExternal, [dev |-> d, n |-> statusCount'[d],
                                         disconnected |-> disconnected])
    /\ UNCHANGED <<held, ModuleKeeps>>

\* The aggregator takes d's first status (MaxStatus: only while d has one left to send).
ModuleRegisters(d) ==
    /\ d \notin held
    /\ statusCount[d] < MaxStatus
    /\ held' = held \cup {d}
    /\ UNCHANGED <<toExternal, leaving, statusCount, ModuleKeeps>>

ModuleStatus(d) == Queued(d, FALSE) /\ UNCHANGED leaving

\* d is disconnected: its last status goes out, then the aggregator removes it.
ModuleDisconnect(d) == Queued(d, TRUE) /\ leaving' = leaving \cup {d}

ModuleErases(d) ==
    /\ d \in leaving
    /\ held' = held \ {d}
    /\ leaving' = leaving \ {d}
    /\ UNCHANGED <<toExternal, statusCount, ModuleKeeps>>

\* A message of the server that answers nothing.
ServerSends(kind, d) ==
    /\ serverSession
    /\ Len(fromServer) < MaxChannel
    /\ fromServer' \in Arrives(fromServer, [kind |-> kind, mine |-> TRUE,
                                            ctr |-> serverSent', dev |-> d, n |-> 0])
    /\ UNCHANGED <<queueVars, state, sessionVars, errorVars, sentVars, timerVars, clientVars,
                   connectVars, listenVars, up, serverSession, auxVars>>

ServerCommand(d) ==
    /\ serverSent < MaxCommand
    /\ serverSent' = serverSent + 1
    /\ ServerSends("command", d)

\* An unexpected message, or the disconnect notification.
ServerBreaks ==
    /\ serverSent' = serverSent
    /\ \E k \in {"refused", "goodbye"} : ServerSends(k, CHOOSE d \in Devices : TRUE)

ChannelLost ==
    /\ up
    /\ ChannelCloses
    /\ UNCHANGED <<queueVars, state, sessionVars, errorVars, sentVars, timerVars, clientVars,
                   connectVars, listenVars, auxVars>>

Environment ==
    \/ \E d \in Devices :
          ModuleRegisters(d) \/ ModuleStatus(d) \/ ModuleDisconnect(d) \/ ModuleErases(d)
    \/ \E d \in Devices : ServerCommand(d)
    \/ ServerBreaks
    \/ ChannelLost

-----------------------------------------------------------------------------

Next ==
    \/ ClientThread
    \/ ConnectThread
    \/ Listener
    \/ ResponseTimeout \/ TimeoutHandler \/ ReconnectTimer
    \/ Environment

Spec == Init /\ [][Next]_vars

\* Threads run, and the io_context runs handlers that are due.  Neither the server nor the
\* devices owe anything.
Fairness ==
    /\ WF_vars(ClientThread)
    /\ WF_vars(ConnectThread)
    /\ WF_vars(Listener)
    /\ WF_vars(TimeoutHandler)
    /\ WF_vars(ReconnectTimer)

FairSpec == Spec /\ Fairness

-----------------------------------------------------------------------------
(* Properties *)

\* Every variable stays in its domain; in particular connectedDevices_ is never asked to
\* erase a device it does not hold.
TypeOK ==
    /\ toExternal \in Seq(Statuses)
    /\ held \subseteq Devices /\ leaving \subseteq held
    /\ statusCount \in [Devices -> 0..MaxStatus]
    /\ state \in {"NOT_INITIALIZED", "NOT_CONNECTED", "CONNECTING", "CONNECTED"}
    /\ clientCounter \in Nat /\ serverCounter \in 0..MaxCommand
    /\ registered \subseteq Devices
    /\ lastStatus \in [Devices -> 0..MaxStatus]
    /\ error \in [Devices -> SUBSET (0..MaxStatus)]
    /\ notAcked \in Seq([ctr : Nat, dev : Devices, n : 0..MaxStatus])
    /\ connectedDevices \in [Devices -> 0..MaxEntries] /\ responseHandled \in BOOLEAN
    /\ reconnects \in Seq(BOOLEAN)
    /\ retries \in Nat /\ expired \in BOOLEAN
    /\ cpc \in ClientPCs /\ caller \in {"status", "item"}
    /\ inHand \in Seq(Statuses)
    /\ forcedDevices \subseteq Devices
    /\ xpc \in ConnectPCs /\ listed \subseteq Devices /\ todo \subseteq listed
    /\ reading = <<>> \/ reading \in Devices \X (0..MaxStatus)
    /\ lpc \in ListenerPCs /\ stopReceiving \in BOOLEAN
    /\ received \in Seq(ServerMessages)
    /\ up \in BOOLEAN
    /\ fromServer \in Seq(ServerMessages)
    /\ serverSession \in BOOLEAN /\ serverSent \in 0..MaxCommand
    /\ settled \in [Devices -> SUBSET (0..MaxStatus)]
    /\ reported \in [Devices -> SUBSET (0..MaxStatus)]

\* Every status taken from toExternalQueue_ is waiting for its response, kept by the error
\* aggregator, in a variable of the client thread, acknowledged by the server, or cleared by
\* a successful connect sequence: neither failed sends nor reconnections forget one.
NothingForgotten ==
    \A d \in Devices, n \in 1..MaxStatus :
        \/ n > statusCount[d]
        \/ \E i \in 1..Len(toExternal) : toExternal[i].dev = d /\ toExternal[i].n = n
        \/ n \in settled[d] \cup error[d]
        \/ \E i \in 1..Len(notAcked) : notAcked[i].dev = d /\ notAcked[i].n = n
        \/ inHand # <<>> /\ inHand[1].dev = d /\ inHand[1].n = n

\* The connect sequence knows a status of every device it announces: forced statuses are
\* awaited before the connect thread starts, and nothing is unregistered while it runs, so
\* statusMessageHandle never meets DEVICE_NOT_REGISTERED.
ListedAreRegistered == xpc # "none" => listed \subseteq registered

\* The responses among which the code is about to choose a status by its counter.
Accepted ==
    {received[i] : i \in {j \in 1..Len(received) : lpc = "handle" /\ received[j].kind = "ack"}}
    \cup {fromServer[i] : i \in {j \in 1..Len(fromServer) :
              j = 1 /\ xpc = "ack" /\ fromServer[j].kind = "ack" /\ fromServer[j].mine}}

\* A response acknowledges the status it answers.  Counters start anew with each session and
\* the listener does not compare sessions: what is left of an earlier session has to be gone
\* before the connect sequence succeeds.
AcknowledgesItsStatus ==
    \A m \in Accepted : \A i \in WithCounter(m.ctr) : notAcked[i].dev = m.dev /\ notAcked[i].n = m.n

\* While a connect sequence talks to the server no listener of an earlier session takes
\* messages from the channel: it has been joined.
ListenerJoined == xpc \notin {"none", "listening", "clear", "ok"} => lpc = "none"

\* A failed connect sequence is followed by another one, whatever the server, the channel
\* and the devices do.
RetryAfterFailure == xpc = "failed" ~> cpc = "collect"

\* What a connect sequence clears from the error aggregator of a device it announced has been
\* reported by it, as the README says ("as soon as the connection is up, then error
\* aggregated message is sent").
ErrorsReported ==
    xpc = "clear" => \A d \in listed : error[d] \ {0} \subseteq reported[d] \cup settled[d]

\* deinitializeConnection returns: the listener it waits for sees stopReceiving.
JoinReturns == cpc = "join" ~> cpc # "join"

\* The statuses among the entries of s, and those the sets f[d] hold, as module StatusDelivery
\* sees them.  The empty Buffer (0), sent for a device without a last status, is none.
StatusesOf(s) == {<<s[i].dev, s[i].n>> : i \in {j \in 1..Len(s) : s[j].n # 0}}

StatusesIn(f) == {p \in Devices \X (1..MaxStatus) : p[2] \in f[p[1]]}

Delivery == INSTANCE StatusDelivery
    WITH issued <- statusCount, queued <- StatusesOf(toExternal) \cup StatusesOf(inHand),
         awaited <- StatusesOf(notAcked), kept <- StatusesIn(error), settled <- StatusesIn(settled)

\* The external client delivers statuses as StatusDelivery says: whatever fails, is lost, comes
\* late or starts anew, a status is taken from the queue once, moves between the statuses that
\* wait for a response and the error aggregator, none left out and none doubled, and is settled
\* only by its response or by a connect sequence that cleared the aggregator.
ImplementsDelivery == Delivery!DeliverySpec

\* A status that was sent, kept or settled never waits in the queue again.
StatusTakenOnce == Delivery!TakenOnce

=============================================================================
