--------------------------- MODULE InternalServer ---------------------------
(***************************************************************************)
(* The internal server of the module gateway                               *)
(* (source/bringauto/internal_server/InternalServer.cpp): TCP connections  *)
(* of internal clients, the vector connectedDevices_ of the connections    *)
(* that own a device, and the request/response hand-shake with the module  *)
(* handler over two queues.                                                *)
(*                                                                         *)
(* Threads.  NumIoThreads threads run the io_context, that is the accept   *)
(* and receive handlers.  A receive handler occupies its thread from the   *)
(* moment it starts until it returns, its wait for the module handler's    *)
(* response included (conditionVariable.wait_for).  One more thread runs   *)
(* listenToQueue.  connectedDevices_ is only touched under serverMutex_,   *)
(* so every critical section is one action.                                *)
(*                                                                         *)
(* A connection's phase:                                                   *)
(*   gone       no Connection object (not accepted yet, or released);      *)
(*   receiving  an async_receive is outstanding;                           *)
(*   completed  data arrived, its handler waits for an io thread;          *)
(*   handling   processBufferData goes on with the rest of the read;       *)
(*   waiting    blocked in handleMessage's wait_for;                       *)
(*   failed     the handler has seen false and is about to lock            *)
(*              serverMutex_ for removeConnFromMap.                        *)
(*                                                                         *)
(* The field conn of an entry of fromInternal is an auxiliary tag: the     *)
(* connection whose request it is.  No guard but Accept's reads it, and    *)
(* that one only to reuse a name once nothing mentions it.                 *)
(***************************************************************************)
EXTENDS Naturals, Sequences, FiniteSets

CONSTANTS
    Conns,          \* names for structures::Connection objects
    Devices,        \* (module, type, role) triples: what isSame compares
    Prios,          \* priorities; the smaller number is the higher priority
    NoConn, NoId,   \* the null Connection and the null deviceId
    NoPrio,         \* no owner, in the abstract view (module DeviceRegistry)
    NumIoThreads,   \* threads that run the io_context
    MaxBatch,       \* bound: messages in one socket read
    MaxBacklog,     \* bound: entries in the two queues above which clients pause
    MaxUnsolicited  \* bound: toInternalQueue length up to which the module
                    \* handler adds forwarded commands and time-out disconnects

ASSUME ConstantsAssumption ==
    /\ Prios \subseteq Nat
    /\ NoConn \notin Conns
    /\ NoPrio \notin Prios
    /\ NumIoThreads \in Nat \ {0}
    /\ MaxBatch \in Nat \ {0}
    /\ MaxBacklog \in Nat
    /\ MaxUnsolicited \in Nat

\* structures::DeviceIdentification: isSame and operator== ignore the priority
\* (and the name).
Ids == [dev : Devices, prio : Prios]

\* The null deviceId is no identification.
ASSUME NoIdAssumption == NoId \notin Ids

\* What an internal client sends: connect for a device, a status of its own
\* device, or bytes that are rejected by framing or by the Protobuf parser.
ClientMessages ==
    [kind : {"connect"}, id : Ids] \cup [kind : {"status", "bad"}, id : {NoId}]

\* structures::InternalClientMessage, the entries of fromInternalQueue.
ClientEntries ==
    [kind : {"connect", "status", "disconnect"}, id : Ids, conn : Conns]

\* structures::ModuleHandlerMessage, the entries of toInternalQueue.  Connect
\* responses and commands, asked for or not, are told apart by nothing the server reads.
HandlerEntries == [kind : {"response", "disconnect"}, id : Ids]

Phases == {"gone", "receiving", "completed", "handling", "waiting", "failed"}

VARIABLES
    phase,              \* phase[c], see above
    inbox,              \* inbox[c]: messages of the last read not yet handled
    open,               \* open[c]: connection->socket.is_open()
    deviceId,           \* deviceId[c]: connection->deviceId
    ready,              \* ready[c]: connection->ready
    connectedDevices,   \* connectedDevices_, as a set: with one entry per device
                        \* (UniqueDevice) the vector's order cannot be observed
    fromInternal,       \* fromInternalQueue_
    toInternal,         \* toInternalQueue_
    known,              \* devices the module's status aggregator holds
    stopped             \* context_->ioContext.stopped()

vars == <<phase, inbox, open, deviceId, ready, connectedDevices,
          fromInternal, toInternal, known, stopped>>

Init ==
    /\ phase = [c \in Conns |-> "gone"]
    /\ inbox = [c \in Conns |-> <<>>]
    /\ open = [c \in Conns |-> FALSE]
    /\ deviceId = [c \in Conns |-> NoId]
    /\ ready = [c \in Conns |-> FALSE]
    /\ connectedDevices = {}
    /\ fromInternal = <<>>
    /\ toInternal = <<>>
    /\ known = {}
    /\ stopped = FALSE

-----------------------------------------------------------------------------
(* Helpers *)

\* Receive handlers that occupy an io thread.
Busy == {c \in Conns : phase[c] \in {"handling", "waiting", "failed"}}

FreeThread == ~stopped /\ Cardinality(Busy) < NumIoThreads

\* The handler of c may take its next step: it already has a thread, or its
\* completion is dispatched to a free one.
Runs(c) ==
    \/ phase[c] = "handling"
    \/ phase[c] = "completed" /\ FreeThread

\* findConnection: the entry of the device, priority ignored.
FindConnection(d) ==
    IF \E e \in connectedDevices : deviceId[e].dev = d
    THEN CHOOSE e \in connectedDevices : deviceId[e].dev = d
    ELSE NoConn

\* Mutant of ErasedEntry: the priorities are not compared.
ErasedEntryAnyPriority(c) ==
    IF deviceId[c] = NoId THEN NoConn ELSE FindConnection(deviceId[c].dev)

\* The entry removeConnFromMap(c) erases: the one found for c's device, if its
\* priority is c's.  It is looked up by identification, not by connection.
ErasedEntry(c) ==
    LET e == IF deviceId[c] = NoId THEN NoConn ELSE FindConnection(deviceId[c].dev)
    IN  IF e # NoConn /\ deviceId[e].prio = deviceId[c].prio THEN e ELSE NoConn

\* Mutant of DisconnectEntries: the module handler is told although nothing was erased.
DisconnectEntriesAlways(c) ==
    IF deviceId[c] = NoId THEN <<>>
    ELSE <<[kind |-> "disconnect", id |-> deviceId[c], conn |-> c]>>

\* What removeConnFromMap(c) pushes to the module handler.
DisconnectEntries(c) ==
    IF ErasedEntry(c) = NoConn THEN <<>>
    ELSE <<[kind |-> "disconnect", id |-> deviceId[c], conn |-> c]>>

\* removeConnFromMap(c): close the socket, erase the entry, tell the module handler.
RemoveConnFromMap(c) ==
    /\ open' = [open EXCEPT ![c] = FALSE]
    /\ connectedDevices' = connectedDevices \ {ErasedEntry(c)}
    /\ fromInternal' = fromInternal \o DisconnectEntries(c)

\* The handler of c returns without a new receive: the last reference to the
\* Connection object goes.
Release(c) ==
    /\ phase' = [phase EXCEPT ![c] = "gone"]
    /\ deviceId' = [deviceId EXCEPT ![c] = NoId]
    /\ ready' = [ready EXCEPT ![c] = FALSE]

\* The name c can stand for a new object: no queued entry is tagged with it.
Unreferenced(c) == \A i \in 1..Len(fromInternal) : fromInternal[i].conn # c

-----------------------------------------------------------------------------
(* Accepting and receiving *)

\* addAsyncAccept's handler: a fresh Connection, whose first receive is started.
Accept(c) ==
    /\ FreeThread
    /\ phase[c] = "gone"
    /\ Unreferenced(c)
    /\ phase' = [phase EXCEPT ![c] = "receiving"]
    /\ open' = [open EXCEPT ![c] = TRUE]
    /\ UNCHANGED <<inbox, deviceId, ready, connectedDevices, fromInternal, toInternal, known, stopped>>

\* Data of an internal client complete the outstanding async_receive.  One read
\* may hold several messages (processBufferData recurses on the rest).
DataReceived(c) ==
    /\ phase[c] = "receiving"
    /\ open[c]
    /\ ~stopped
    /\ Len(fromInternal) + Len(toInternal) <= MaxBacklog
    /\ \E n \in 1..MaxBatch : \E batch \in [1..n -> ClientMessages] :
          inbox' = [inbox EXCEPT ![c] = batch]
    /\ phase' = [phase EXCEPT ![c] = "completed"]
    /\ UNCHANGED <<open, deviceId, ready, connectedDevices, fromInternal,
                   toInternal, known, stopped>>

\* asyncReceiveHandler with an error: the client closed, the network failed, or
\* the server itself closed the socket (operation_aborted).
ReceiveError(c) ==
    /\ phase[c] = "receiving"
    /\ FreeThread
    /\ RemoveConnFromMap(c)
    /\ Release(c)
    /\ UNCHANGED <<inbox, toInternal, known, stopped>>

-----------------------------------------------------------------------------
(* handleMessage: one action per outcome *)

Handles(c, kind) ==
    /\ Runs(c)
    /\ Head(inbox[c]).kind = kind

Fail(c) ==
    /\ phase' = [phase EXCEPT ![c] = "failed"]
    /\ inbox' = [inbox EXCEPT ![c] = <<>>]
    /\ UNCHANGED <<open, deviceId, ready, connectedDevices, fromInternal,
                   toInternal, known, stopped>>

\* Framing or parsing fails.
HandleBad(c) ==
    /\ Handles(c, "bad")
    /\ Fail(c)

\* handleStatus without a completed connect.
RejectStatus(c) ==
    /\ Handles(c, "status")
    /\ ~ready[c]
    /\ Fail(c)

\* Mutant of HandleStatus: the check of ready is dropped.
HandleStatusUnchecked(c) ==
    /\ Handles(c, "status")
    /\ fromInternal' = Append(fromInternal,
                              [kind |-> "status", id |-> deviceId[c], conn |-> c])
    /\ ready' = [ready EXCEPT ![c] = FALSE]
    /\ phase' = [phase EXCEPT ![c] = "waiting"]
    /\ UNCHANGED <<inbox, open, deviceId, connectedDevices, toInternal, known, stopped>>

\* handleStatus: push the status and lower ready, both under connectionMutex;
\* nothing asks whether the connection still owns its device.
HandleStatus(c) ==
    /\ Handles(c, "status")
    /\ ready[c]
    /\ fromInternal' = Append(fromInternal,
                              [kind |-> "status", id |-> deviceId[c], conn |-> c])
    /\ ready' = [ready EXCEPT ![c] = FALSE]
    /\ phase' = [phase EXCEPT ![c] = "waiting"]
    /\ UNCHANGED <<inbox, open, deviceId, connectedDevices, toInternal, known, stopped>>

\* handleConnection refuses: already connected through this connection, or the
\* device is owned with the same priority (ALREADY_CONNECTED) or a higher one
\* (HIGHER_PRIORITY_ALREADY_CONNECTED).  The two responses leave no state.
RejectConnection(c) ==
    /\ Handles(c, "connect")
    /\ LET id == Head(inbox[c]).id
           e  == FindConnection(id.dev)
       IN  ready[c] \/ (e # NoConn /\ id.prio >= deviceId[e].prio)
    /\ Fail(c)

\* connectNewDevice: the connection takes the device.
ConnectNewDevice(c, id) ==
    /\ deviceId' = [deviceId EXCEPT ![c] = id]
    /\ phase' = [phase EXCEPT ![c] = "waiting"]
    /\ UNCHANGED <<inbox, ready, toInternal, known, stopped>>

\* Mutant of HandleConnection: the look-up compares the whole identification.
HandleConnectionExactMatch(c) ==
    /\ Handles(c, "connect")
    /\ ~ready[c]
    /\ LET id == Head(inbox[c]).id
       IN  /\ \A e \in connectedDevices : deviceId[e] # id
           /\ ConnectNewDevice(c, id)
           /\ connectedDevices' = connectedDevices \cup {c}
           /\ fromInternal' = Append(fromInternal,
                                     [kind |-> "connect", id |-> id, conn |-> c])
    /\ UNCHANGED open

\* handleConnection for a device nobody owns.
HandleConnection(c) ==
    /\ Handles(c, "connect")
    /\ ~ready[c]
    /\ LET id == Head(inbox[c]).id
       IN  /\ FindConnection(id.dev) = NoConn
           /\ ConnectNewDevice(c, id)
           /\ connectedDevices' = connectedDevices \cup {c}
           /\ fromInternal' = Append(fromInternal,
                                     [kind |-> "connect", id |-> id, conn |-> c])
    /\ UNCHANGED open

\* Mutant of ChangeConnection: an equal priority takes over as well.
ChangeConnectionEqual(c) ==
    /\ Handles(c, "connect")
    /\ ~ready[c]
    /\ LET id == Head(inbox[c]).id
           e  == FindConnection(id.dev)
       IN  /\ e # NoConn
           /\ id.prio <= deviceId[e].prio
           /\ ConnectNewDevice(c, id)
           /\ open' = [open EXCEPT ![e] = FALSE]
           /\ connectedDevices' = (connectedDevices \ {ErasedEntry(e)}) \cup {c}
           /\ fromInternal' = fromInternal \o DisconnectEntries(e)
                  \o <<[kind |-> "connect", id |-> id, conn |-> c]>>

\* changeConnection: remove the owner of lower priority, then connect.
ChangeConnection(c) ==
    /\ Handles(c, "connect")
    /\ ~ready[c]
    /\ LET id == Head(inbox[c]).id
           e  == FindConnection(id.dev)
       IN  /\ e # NoConn
           /\ id.prio < deviceId[e].prio
           /\ ConnectNewDevice(c, id)
           /\ open' = [open EXCEPT ![e] = FALSE]
           /\ connectedDevices' = (connectedDevices \ {ErasedEntry(e)}) \cup {c}
           /\ fromInternal' = fromInternal \o DisconnectEntries(e)
                  \o <<[kind |-> "connect", id |-> id, conn |-> c]>>

\* Mutant of ResponseReady: the outcome of wait_for is not looked at.
ResponseReadyUnchecked(c) ==
    /\ phase[c] = "waiting"
    /\ ~stopped
    /\ inbox' = [inbox EXCEPT ![c] = Tail(@)]
    /\ phase' = [phase EXCEPT ![c] =
                    IF Len(inbox[c]) = 1 THEN "receiving" ELSE "handling"]
    /\ UNCHANGED <<open, deviceId, ready, connectedDevices, fromInternal,
                   toInternal, known, stopped>>

\* The wait ends with ready raised: go on with the read, or receive again.
ResponseReady(c) ==
    /\ phase[c] = "waiting"
    /\ ready[c]
    /\ ~stopped
    /\ inbox' = [inbox EXCEPT ![c] = Tail(@)]
    /\ phase' = [phase EXCEPT ![c] =
                    IF Len(inbox[c]) = 1 THEN "receiving" ELSE "handling"]
    /\ UNCHANGED <<open, deviceId, ready, connectedDevices, fromInternal,
                   toInternal, known, stopped>>

\* Mutant of ResponseTimeout: wait instead of wait_for.
ResponseTimeoutNever(c) ==
    /\ phase[c] = "waiting"
    /\ stopped
    /\ Fail(c)

\* The wait times out, or the io_context was stopped.
ResponseTimeout(c) ==
    /\ phase[c] = "waiting"
    /\ ~ready[c] \/ stopped
    /\ Fail(c)

\* Mutant of RemoveFailed: the handler returns without removeConnFromMap.
RemoveFailedForgotten(c) ==
    /\ phase[c] = "failed"
    /\ open' = [open EXCEPT ![c] = FALSE]
    /\ Release(c)
    /\ UNCHANGED <<connectedDevices, fromInternal, inbox, toInternal, known, stopped>>

\* asyncReceiveHandler after processBufferData returned false.
RemoveFailed(c) ==
    /\ phase[c] = "failed"
    /\ RemoveConnFromMap(c)
    /\ Release(c)
    /\ UNCHANGED <<inbox, toInternal, known, stopped>>

-----------------------------------------------------------------------------
(* listenToQueue *)

\* Mutant of HandleDisconnect: the module handler is not told.
HandleDisconnectSilent(d) ==
    LET e == FindConnection(d)
    IN  IF e = NoConn
        THEN UNCHANGED <<open, connectedDevices, fromInternal>>
        ELSE /\ open' = [open EXCEPT ![e] = FALSE]
             /\ connectedDevices' = connectedDevices \ {e}
             /\ UNCHANGED fromInternal

\* handleDisconnect: the device's connection goes, whatever its priority.
HandleDisconnect(d) ==
    LET e == FindConnection(d)
    IN  IF e = NoConn
        THEN UNCHANGED <<open, connectedDevices, fromInternal>>
        ELSE RemoveConnFromMap(e)

\* validateResponse: the connection that owns the identification becomes ready.
\* sendResponse's result is ignored.
ValidateResponse(id) ==
    LET e == FindConnection(id.dev)
    IN  ready' = IF e # NoConn /\ deviceId[e].prio = id.prio
                 THEN [ready EXCEPT ![e] = TRUE] ELSE ready

ListenToDisconnect ==
    /\ ~stopped
    /\ toInternal # <<>>
    /\ Head(toInternal).kind = "disconnect"
    /\ HandleDisconnect(Head(toInternal).id.dev)
    /\ toInternal' = Tail(toInternal)
    /\ UNCHANGED <<phase, inbox, deviceId, ready, known, stopped>>

ListenToResponse ==
    /\ ~stopped
    /\ toInternal # <<>>
    /\ Head(toInternal).kind # "disconnect"
    /\ ValidateResponse(Head(toInternal).id)
    /\ toInternal' = Tail(toInternal)
    /\ UNCHANGED <<phase, inbox, open, deviceId, connectedDevices, fromInternal,
                   known, stopped>>

-----------------------------------------------------------------------------
(* The module handler as the internal server sees it (ModuleHandler.cpp;   *)
(* its own state is the subject of module ModuleHandler)                   *)

ToServer(kind, id) == Append(toInternal, [kind |-> kind, id |-> id])

HandlerTakes(kind) ==
    /\ ~stopped
    /\ fromInternal # <<>>
    /\ Head(fromInternal).kind = kind
    /\ fromInternal' = Tail(fromInternal)
    /\ UNCHANGED <<phase, inbox, open, deviceId, ready, connectedDevices, stopped>>

\* handleConnect: every path answers.
HandlerConnect ==
    /\ HandlerTakes("connect")
    /\ toInternal' = ToServer("response", Head(fromInternal).id)
    /\ UNCHANGED known

\* handleStatus: a command goes back, and the device is known from now on.
HandlerStatus ==
    /\ HandlerTakes("status")
    /\ toInternal' = ToServer("response", Head(fromInternal).id)
    /\ known' = known \cup {Head(fromInternal).id.dev}

\* handleStatus' early returns (unsupported module, invalid status data, the
\* aggregator refuses): no response at all.
HandlerStatusDropped ==
    /\ HandlerTakes("status")
    /\ UNCHANGED <<toInternal, known>>

\* handleDisconnect of the module handler.
HandlerDisconnect ==
    /\ HandlerTakes("disconnect")
    /\ known' = known \ {Head(fromInternal).id.dev}
    /\ UNCHANGED toInternal

\* handleCommandForward: a command of the external server is pushed unasked to a
\* known device; its identification comes from the external server.
HandlerForward(id) ==
    /\ ~stopped
    /\ id.dev \in known
    /\ Len(toInternal) < MaxUnsolicited
    /\ toInternal' = ToServer("response", id)
    /\ UNCHANGED <<phase, inbox, open, deviceId, ready, connectedDevices,
                   fromInternal, known, stopped>>

\* checkTimeoutedMessages: a silent device is to be disconnected.
HandlerTimeout(id) ==
    /\ ~stopped
    /\ id.dev \in known
    /\ Len(toInternal) < MaxUnsolicited
    /\ toInternal' = ToServer("disconnect", id)
    /\ UNCHANGED <<phase, inbox, open, deviceId, ready, connectedDevices,
                   fromInternal, known, stopped>>

\* main's signal handler stops the io_context.
Stop ==
    /\ ~stopped
    /\ stopped' = TRUE
    /\ UNCHANGED <<phase, inbox, open, deviceId, ready, connectedDevices,
                   fromInternal, toInternal, known>>

-----------------------------------------------------------------------------
ConnNext(c) ==
    \/ Accept(c) \/ DataReceived(c) \/ ReceiveError(c)
    \/ HandleBad(c) \/ RejectStatus(c) \/ HandleStatus(c)
    \/ RejectConnection(c) \/ HandleConnection(c) \/ ChangeConnection(c)
    \/ ResponseReady(c) \/ ResponseTimeout(c) \/ RemoveFailed(c)

HandlerNext ==
    \/ HandlerConnect \/ HandlerStatus \/ HandlerStatusDropped \/ HandlerDisconnect
    \/ \E id \in Ids : HandlerForward(id) \/ HandlerTimeout(id)

Next ==
    \/ \E c \in Conns : ConnNext(c)
    \/ ListenToDisconnect
    \/ ListenToResponse
    \/ HandlerNext
    \/ Stop

Spec == Init /\ [][Next]_vars

\* The receive handler of c runs on an io thread.
HandlerRuns(c) ==
    \/ HandleBad(c) \/ RejectStatus(c) \/ HandleStatus(c)
    \/ RejectConnection(c) \/ HandleConnection(c) \/ ChangeConnection(c)

\* Threads keep running; the io_context dispatches completions in order, so a
\* completion is not passed over for ever while threads become free again and
\* again (strong fairness); wait_for returns after fleet_protocol_timeout_length;
\* the receive pending on a socket the server closed completes.
Fairness ==
    /\ \A c \in Conns :
          /\ SF_vars(HandlerRuns(c))
          /\ SF_vars(ReceiveError(c) /\ ~open[c])
          /\ WF_vars(ResponseReady(c) \/ ResponseTimeout(c))
          /\ WF_vars(RemoveFailed(c))
    /\ WF_vars(ListenToDisconnect \/ ListenToResponse)
    /\ WF_vars(HandlerConnect \/ HandlerStatus \/ HandlerStatusDropped \/ HandlerDisconnect)

FairSpec == Spec /\ Fairness

-----------------------------------------------------------------------------
(* Properties *)

\* Every variable stays in its domain.
TypeOK ==
    /\ phase \in [Conns -> Phases]
    /\ inbox \in [Conns -> Seq(ClientMessages)]
    /\ open \in [Conns -> BOOLEAN]
    /\ deviceId \in [Conns -> Ids \cup {NoId}]
    /\ ready \in [Conns -> BOOLEAN]
    /\ connectedDevices \in SUBSET Conns
    /\ fromInternal \in Seq(ClientEntries)
    /\ toInternal \in Seq(HandlerEntries)
    /\ known \in SUBSET Devices
    /\ stopped \in BOOLEAN

\* connectedDevices_ never holds two connections of one device, however connects,
\* take-overs and removals interleave: findConnection's first match is the only one.
UniqueDevice ==
    \A c, e \in connectedDevices : deviceId[c].dev = deviceId[e].dev => c = e

\* An entry of connectedDevices_ is a live connection: it carries an identification,
\* its socket is open, and a receive or a handler of it is still to come, so the
\* entry cannot stay behind for ever after its client is gone.
EntryServed ==
    \A c \in connectedDevices :
        open[c] /\ deviceId[c] # NoId /\ phase[c] # "gone"

\* Back-pressure: the server reads on from a connection that has taken a device
\* only once a response made it ready (handleMessage, Connection::ready).
ReadsOnlyWhenReady ==
    \A c \in Conns :
        phase[c] \in {"receiving", "completed", "handling"} /\ deviceId[c] # NoId
            => ready[c]

\* The owners and the pending announcements as module DeviceRegistry sees them.
OwnerPriority(d) ==
    IF FindConnection(d) = NoConn THEN NoPrio ELSE deviceId[FindConnection(d)].prio

Owners == [d \in Devices |-> OwnerPriority(d)]

Untagged(queue) == [i \in 1..Len(queue) |-> [kind |-> queue[i].kind, id |-> queue[i].id]]

PendingEvents == Untagged(fromInternal)

Registry == INSTANCE DeviceRegistry
    WITH owner <- Owners, events <- PendingEvents

\* The server implements the registry: whatever the handlers, time-outs, stale
\* removals and take-overs do, owners change as the registry allows and the module
\* handler is told of each change once, in order, with the right identification.
ImplementsRegistry == Registry!RegistrySpec

\* What the module handler has still to read of a device is a proper history: connects
\* and disconnects in turn, each disconnect with its connect's identification, ending
\* with the present owner (removeConnFromMap, connectNewDevice).
AnnouncementsAlternate == Registry!EventsAlternate

\* A device changes hands in one step only towards a strictly higher priority
\* (handleConnection, changeConnection).
TakeoverRaisesPriority ==
    [][\A c \in connectedDevices \ connectedDevices' :
          \A e \in connectedDevices' \ connectedDevices :
             deviceId[c].dev = deviceId'[e].dev => deviceId'[e].prio < deviceId[c].prio]_vars

\* No io thread is lost to a dead connection: once the server has closed a socket
\* (take-over, time-out, error), its handlers run out and the connection is released.
ClosedIsReleased ==
    \A c \in Conns :
        (phase[c] # "gone" /\ ~open[c]) ~> (phase[c] = "gone" \/ stopped)

\* removeConnFromMap's comment: it removes the connection it is given.  Then no
\* connection that is still open would have lost its entry.
NoOrphan ==
    \A c \in Conns : open[c] /\ deviceId[c] # NoId => c \in connectedDevices

=============================================================================
