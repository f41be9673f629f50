---------------------------- MODULE GatewayProofs ----------------------------
(***************************************************************************)
(* Proofs about Gateway, for any set of modules and configurations, any    *)
(* number of connection handles, clients and messages.                     *)
(***************************************************************************)
EXTENDS Gateway, SequenceTheorems, TLAPS

-----------------------------------------------------------------------------
(* Start-up: libraries and processes *)

\* Positions of main from which the settings hold, and from which the libraries do.
SettingsDone == {"load", "init", "running", "stopping", "joined"}
LibrariesDone == SettingsDone \ {"load"}

StartupType ==
    /\ child \in [Modules -> {"none", "running", "dead"}]
    /\ loading # NoModule => loading \in Modules /\ main = "load"

\* areSettingsCorrect has looked up the modules of every endpoint, and loadLibraries
\* has not returned without one; no process exists before the first load.
StartupInv ==
    /\ StartupType
    /\ main \in SettingsDone => EndpointModules(connections) \subseteq config.modulePaths
    /\ main \in LibrariesDone => config.modulePaths \subseteq handlers
    /\ main \in {"parse", "exited"} => \A m \in Modules : child[m] = "none"

\* main starts with nothing loaded.
LEMMA InitStartupInv == Init => StartupInv
BY DEF Init, StartupInit, StartupInv, StartupType, SettingsDone, LibrariesDone

\* parseSettings, on either outcome.
LEMMA ParsePreserves ==
    ASSUME StartupInv, ParseSettings \/ SettingsRejected
    PROVE  StartupInv'
BY DEF StartupInv, StartupType, SettingsDone, LibrariesDone, ParseSettings, SettingsRejected,
       AreSettingsCorrect, EndpointModules

\* loadLibraries: nothing is registered twice or lost, and it is left with a process
\* running only towards the clean-up.
LEMMA LoadPreserves ==
    ASSUME StartupInv, LoadStep
    PROVE  StartupInv'
<1>1. CASE \E m \in Modules : LoadLocal(m)
  BY <1>1 DEF StartupInv, StartupType, SettingsDone, LibrariesDone, LoadLocal, EndpointModules
<1>2. CASE \E m \in Modules : SpawnModuleBinary(m)
  BY <1>2 DEF StartupInv, StartupType, SettingsDone, LibrariesDone, SpawnModuleBinary,
              EndpointModules
<1>3. CASE LoadFails
  BY <1>3 DEF StartupInv, StartupType, SettingsDone, LibrariesDone, LoadFails, LoadThrows
<1>4. CASE LibrariesLoaded
  BY <1>4 DEF StartupInv, StartupType, SettingsDone, LibrariesDone, LibrariesLoaded, Unloaded,
              EndpointModules
<1> QED
  BY <1>1, <1>2, <1>3, <1>4 DEF LoadStep

\* A module's process answers, answers wrongly, never answers, or ends.
LEMMA ModulePreserves ==
    ASSUME StartupInv, ModuleStep \/ PollEnds
    PROVE  StartupInv'
<1>1. CASE ModuleAnswers
  BY <1>1 DEF StartupInv, StartupType, SettingsDone, LibrariesDone, ModuleAnswers,
              EndpointModules
<1>2. CASE NumberMismatch \/ StartupTimeout
  BY <1>2 DEF StartupInv, StartupType, SettingsDone, LibrariesDone, NumberMismatch,
              StartupTimeout, LoadThrows
<1>3. CASE ModuleBinaryTerminated
  BY <1>3 DEF StartupInv, StartupType, SettingsDone, LibrariesDone, ModuleBinaryTerminated
<1>4. CASE \E m \in Modules : ModuleBinaryDies(m)
  BY <1>4 DEF StartupInv, StartupType, SettingsDone, LibrariesDone, ModuleBinaryDies,
              EndpointModules
<1> QED
  BY <1>1, <1>2, <1>3, <1>4 DEF ModuleStep, PollEnds

\* From initStatusAggregators to the return of main.
LEMMA RunPreserves ==
    ASSUME StartupInv,
           InitStep \/ Signal \/ JoinThreads \/ DestroyComponents \/ Return
             \/ \E m \in Modules : DestroyHandler(m)
    PROVE  StartupInv'
<1>1. CASE InitStep
  BY <1>1 DEF StartupInv, StartupType, SettingsDone, LibrariesDone, InitStep,
              InitStatusAggregator, SkipModule, Visited, Start, EndpointModules
<1>2. CASE Signal \/ JoinThreads \/ DestroyComponents
  BY <1>2 DEF StartupInv, StartupType, SettingsDone, LibrariesDone, Signal, JoinThreads,
              DestroyComponents, EndpointModules
<1>3. CASE \E m \in Modules : DestroyHandler(m)
  BY <1>3 DEF StartupInv, StartupType, SettingsDone, LibrariesDone, DestroyHandler
<1>4. CASE Return
  BY <1>4 DEF StartupInv, StartupType, SettingsDone, LibrariesDone, Return, Owned
<1> QED
  BY <1>1, <1>2, <1>3, <1>4

\* The channels leave main's state alone.
LEMMA NextStartupInv == StartupInv /\ [Next]_vars => StartupInv'
<1> SUFFICES ASSUME StartupInv, [Next]_vars PROVE StartupInv'
  OBVIOUS
<1>1. CASE UNCHANGED startupVars
  BY <1>1 DEF startupVars, StartupInv, StartupType, EndpointModules
<1>2. CASE QuicStep \/ MqttStep \/ DummyStep \/ UNCHANGED vars
  BY <1>1, <1>2 DEF QuicStep, QuicFrame, MqttStep, DummyStep, vars
<1>3. CASE StartupStep \/ Joins \/ Destroys \/ CleansUp
  BY <1>3, ParsePreserves, LoadPreserves, ModulePreserves, RunPreserves
     DEF StartupStep, Joins, Destroys, CleansUp
<1> QED
  BY <1>2, <1>3 DEF Next

\* The libraries of all endpoints are loaded once threads run (loadLibraries,
\* areSettingsCorrect; ExternalConnection::init relies on it).
THEOREM LibrariesAreThere == Spec => []EndpointsHaveLibraries
<1>1. StartupInv => EndpointsHaveLibraries
  BY DEF StartupInv, SettingsDone, LibrariesDone, EndpointsHaveLibraries, EndpointModules
<1> QED
  BY <1>1, InitStartupInv, NextStartupInv, PTL DEF Spec

\* On every path to its return main has waited for every module process it started
\* (destructor of ModuleManagerLibraryHandlerAsync, running() of a dead one).
THEOREM NoProcessLeft == Spec => []ChildrenReaped
<1>1. StartupInv => ChildrenReaped
  BY DEF StartupInv, ChildrenReaped
<1> QED
  BY <1>1, InitStartupInv, NextStartupInv, PTL DEF Spec

-----------------------------------------------------------------------------
(* MQTT: notifications *)

\* No step of a client leaves a notification behind that came to an earlier one.
LEMMA NextNoStaleNotification == NoStaleNotification /\ [Next]_vars => NoStaleNotification'
<1> SUFFICES ASSUME Mqtt!NoStaleNotification, [Next]_vars PROVE Mqtt!NoStaleNotification'
  BY DEF NoStaleNotification
<1>1. CASE UNCHANGED mqttOwn
  BY <1>1 DEF mqttOwn, Mqtt!NoStaleNotification
<1>2. CASE Mqtt!MqttNext
  <2>1. CASE Mqtt!InitializeConnection \/ Mqtt!CloseConnection
    BY <2>1 DEF Mqtt!NoStaleNotification, Mqtt!InitializeConnection, Mqtt!CloseConnection,
                Mqtt!PendingAfterClose
  <2>2. CASE Mqtt!Connect \/ Mqtt!ConnectionLost \/ Mqtt!AutomaticReconnect
    BY <2>2 DEF Mqtt!NoStaleNotification, Mqtt!Connect, Mqtt!ConnectionLost,
                Mqtt!AutomaticReconnect
  <2>3. CASE \/ Mqtt!SendMessage \/ Mqtt!Publish \/ \E m \in 1..MaxSend : Mqtt!Arrives(m)
             \/ Mqtt!BrokerDelivers \/ Mqtt!BrokerNotifies
    BY <2>3 DEF Mqtt!NoStaleNotification, Mqtt!SendMessage, Mqtt!Publish, Mqtt!Arrives,
                Mqtt!BrokerDelivers, Mqtt!BrokerNotifies
  <2>4. CASE Mqtt!ReceiveMessage \/ Mqtt!ConsumeServerDisconnectNotification
    BY <2>4 DEF Mqtt!NoStaleNotification, Mqtt!ReceiveMessage,
                Mqtt!ConsumeServerDisconnectNotification
  <2> QED
    BY <1>2, <2>1, <2>2, <2>3, <2>4 DEF Mqtt!MqttNext
<1>3. CASE Destroys
  BY <1>1, <1>3 DEF Destroys, Mqtt!CloseConnection, Mqtt!PendingAfterClose,
                    Mqtt!NoStaleNotification
<1> QED
  BY <1>1, <1>2, <1>3 DEF Next, vars, QuicStep, QuicFrame, MqttStep, DummyStep, StartupStep,
                          Joins, CleansUp

\* A disconnect notification that is still to be acted on came to the present client, however
\* clients, reconnections and notifications follow one another (closeConnection).
THEOREM NotificationsAreFresh == Spec => []NoStaleNotification
<1>1. Init => NoStaleNotification
  BY DEF Init, Mqtt!MqttInit, NoStaleNotification, Mqtt!NoStaleNotification
<1> QED
  BY <1>1, NextNoStaleNotification, PTL DEF Spec

-----------------------------------------------------------------------------
(* QUIC: one connection at a time *)

\* closeConnection was called by cancelPendingConnect: no connect begins any more.
Cancelled == cpc \in {"cancel", "cancelled"}

\* Handle h is, or may become, a connection in use; its shut-down is not yet known.
Live(h) ==
    \/ Quic!Carries(h)
    \/ handle[h] = "down" /\ callback[h] # "completed"
    \/ handle[h] = "open" /\ upc = "start" /\ connection = h

\* Why there is one connection only.  NOT_CONNECTED is stored when the last live handle
\* stops being live, and only then does the compare-exchange let a connect begin.
LiveInv ==
    /\ handle \in [Quic!HandleIds ->
                     {"none", "open", "started", "up", "down", "closed"}]
    /\ callback \in [Quic!HandleIds ->
                       {"idle", "connected", "joining", "completed", "closed"}]
    /\ connection \in {0} \union Quic!HandleIds
    /\ \A g, h \in Quic!HandleIds : Live(g) /\ Live(h) => g = h
    /\ connectionState = "NOT_CONNECTED" /\ ~Cancelled => \A h \in Quic!HandleIds : ~Live(h)
    /\ upc = "open" =>
          connectionState # "NOT_CONNECTED" /\ \A h \in Quic!HandleIds : ~Live(h)
    /\ upc = "start" /\ ~Cancelled =>
          \A h \in Quic!HandleIds : Live(h) => h = connection /\ handle[h] = "open"
    /\ cpc = "shut" => upc = "none"
    /\ connection # 0 /\ handle[connection] = "open" => upc = "start"

\* Nothing is live before the first connect.
LEMMA InitLiveInv == Init => LiveInv
BY DEF Init, Quic!QuicInit, LiveInv, Live, Quic!Carries, Quic!HandleIds, Cancelled

\* initializeConnection: a handle is opened only when none is live.
LEMMA ConnectPreserves == LiveInv /\ Quic!ConnectThread => LiveInv'
<1> SUFFICES ASSUME LiveInv, Quic!ConnectThread PROVE LiveInv'
  OBVIOUS
<1> USE DEF LiveInv, Live, Quic!Carries, Quic!HandleIds, Cancelled
<1>1. CASE Quic!InitializeConnection
  BY <1>1 DEF Quic!InitializeConnection, Quic!StartsConnecting
<1>2. CASE Quic!ConnectionOpen
  <2>1. PICK h \in Quic!HandleIds : /\ handle[h] = "none"
                                    /\ handle' = [handle EXCEPT ![h] = "open"]
                                    /\ connection' = h
    BY <1>2 DEF Quic!ConnectionOpen
  <2>2. \A g \in Quic!HandleIds : Live(g)' <=> g = h
    BY <1>2, <2>1 DEF Quic!ConnectionOpen
  <2>3. handle'[h] = "open" /\ connection' \in Quic!HandleIds /\ cpc' = cpc /\ upc' = "start"
    BY <1>2, <2>1 DEF Quic!ConnectionOpen
  <2>4. upc = "open" /\ cpc # "shut"
    BY <1>2 DEF Quic!ConnectionOpen
  <2> HIDE DEF Live
  <2> QED
    BY <1>2, <2>1, <2>2, <2>3, <2>4 DEF Quic!ConnectionOpen
<1>3. CASE Quic!ConnectionOpenFails
  BY <1>3 DEF Quic!ConnectionOpenFails
<1>4. CASE Quic!ConnectionStart
  BY <1>4 DEF Quic!ConnectionStart
<1>5. CASE Quic!ConnectionStartFails
  BY <1>5 DEF Quic!ConnectionStartFails
<1> QED
  BY <1>1, <1>2, <1>3, <1>4, <1>5 DEF Quic!ConnectThread

\* closeConnection: a handle that is shut down stays live until the callback comes.
LEMMA ClosePreserves ==
    LiveInv /\ (\/ Quic!CloseConnection \/ Quic!CancelPendingConnect
                \/ Quic!ConnectionShutdown \/ Quic!Destroy) => LiveInv'
<1> SUFFICES ASSUME LiveInv,
                    \/ Quic!CloseConnection \/ Quic!CancelPendingConnect
                    \/ Quic!ConnectionShutdown \/ Quic!Destroy
             PROVE  LiveInv'
  OBVIOUS
<1> USE DEF LiveInv, Live, Quic!Carries, Quic!HandleIds, Cancelled
<1>1. CASE Quic!CloseConnection
  BY <1>1 DEF Quic!CloseConnection, Quic!NotClosing
<1>2. CASE Quic!CancelPendingConnect
  BY <1>2 DEF Quic!CancelPendingConnect
<1>3. CASE Quic!ConnectionShutdown
  BY <1>3 DEF Quic!ConnectionShutdown, Quic!NotClosing, Quic!ShutDown
<1>4. CASE Quic!Destroy
  BY <1>4 DEF Quic!Destroy, Quic!ShutDown
<1> QED
  BY <1>1, <1>2, <1>3, <1>4

\* connectionCallback, MsQuic and the sender loops.
LEMMA CallbackPreserves ==
    ASSUME NEW h \in Quic!HandleIds, LiveInv,
           \/ Quic!CallbackConnected(h) \/ Quic!CallbackPeerShutdown(h)
           \/ Quic!TransportShutdown(h) \/ Quic!CallbackStep(h)
    PROVE  LiveInv'
<1> USE DEF LiveInv, Live, Quic!Carries, Quic!HandleIds, Cancelled
<1>1. CASE Quic!CallbackConnected(h)
  BY <1>1, ZenonT(30) DEF Quic!CallbackConnected
<1>2. CASE Quic!CallbackPeerShutdown(h)
  BY <1>2 DEF Quic!CallbackPeerShutdown
<1>3. CASE Quic!TransportShutdown(h)
  BY <1>3 DEF Quic!TransportShutdown
<1>4. CASE Quic!CallbackStartsSender(h)
  BY <1>4 DEF Quic!CallbackStartsSender
<1>5. CASE Quic!CallbackJoined(h)
  BY <1>5 DEF Quic!CallbackJoined
<1>6. CASE Quic!CallbackComplete(h)
  BY <1>6 DEF Quic!CallbackComplete
<1>7. CASE Quic!CallbackCloses(h)
  BY <1>7 DEF Quic!CallbackCloses
<1>8. CASE Quic!CallbackForgets(h)
  BY <1>8 DEF Quic!CallbackForgets
<1> QED
  BY <1>1, <1>2, <1>3, <1>4, <1>5, <1>6, <1>7, <1>8 DEF Quic!CallbackStep

\* Every step of the process preserves it; most leave the handles alone.
LEMMA NextLiveInv == LiveInv /\ [Next]_vars => LiveInv'
<1> SUFFICES ASSUME LiveInv, [Next]_vars PROVE LiveInv'
  OBVIOUS
<1>1. CASE UNCHANGED <<connectionState, connection, handle, callback, upc, cpc>>
  BY <1>1 DEF LiveInv, Live, Quic!Carries, Cancelled
<1>2. CASE Quic!QuicNext
  <2>1. CASE \/ Quic!SendMessage \/ Quic!Push \/ Quic!ReceiveMessage
             \/ \E m \in 1..MaxSend : Quic!Arrives(m)
             \/ Quic!RegistrationClosed \/ Quic!SenderThreadJoined
    BY <1>1, <2>1 DEF Quic!SendMessage, Quic!Push, Quic!ReceiveMessage, Quic!Arrives,
                      Quic!RegistrationClosed, Quic!SenderThreadJoined
  <2>2. CASE \E h \in Quic!HandleIds : Quic!SenderStep(h) \/ Quic!StreamReceives(h)
    BY <1>1, <2>2 DEF Quic!SenderStep, Quic!StreamReceives, Quic!SenderTop, Quic!SenderWaits,
                      Quic!SenderSleeps, Quic!SenderLeaves, Quic!SenderTakes,
                      Quic!SendViaQuicStream, Quic!SendFails, Quic!Moves
  <2> QED
    BY <1>2, <2>1, <2>2, ConnectPreserves, ClosePreserves, CallbackPreserves
       DEF Quic!QuicNext
<1>3. CASE Destroys
  BY <1>1, <1>3, ClosePreserves DEF Destroys, quicOwn
<1> QED
  BY <1>1, <1>2, <1>3 DEF Next, vars, quicOwn, QuicStep, MqttStep, DummyStep, StartupStep,
                          Joins, CleansUp

\* Never two MsQuic connections in use at a time, however many handles there are and however
\* late their callbacks come (the compare-exchange of initializeConnection).
THEOREM OneConnectionAtATime == Spec => []OneConnection
<1>1. LiveInv => OneConnection
  BY DEF LiveInv, Live, OneConnection, Quic!OneConnection
<1> QED
  BY <1>1, InitLiveInv, NextLiveInv, PTL DEF Spec
=============================================================================
