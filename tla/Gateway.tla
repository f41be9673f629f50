------------------------------ MODULE Gateway ------------------------------
(***************************************************************************)
(* The process as a whole, from the external client's side: main starts it *)
(* (module Startup), ExternalClient::initConnections creates the channel   *)
(* of the configured protocol, the client uses it (QuicCommunication,      *)
(* MqttCommunication, DummyCommunication), and it is destroyed after the   *)
(* threads were joined.  A further endpoint has a channel of its own that  *)
(* shares nothing with this one.                                           *)
(*                                                                         *)
(* What the external connection does with the channel is module            *)
(* ExternalConnection; here its calls come in any order the threads allow. *)
(***************************************************************************)
EXTENDS Startup

CONSTANTS Connections, MaxClients, MaxSend, MaxAnswer   \* see the channels' modules

ASSUME BoundsAssumption ==
    Connections \in Nat \ {0} /\ MaxClients \in Nat \ {0} /\ MaxSend \in Nat /\ MaxAnswer \in Nat

VARIABLES
    connectionState, connection, handle, callback, sender, taken, outbound, pushing,
    inFlight, inbound, upc, cpc, dpc,                                       \* QUIC
    client, generation, subscribed, consumed, serverDisconnectPending, pendingOf,
    publishing, published,                                                  \* MQTT
    isConnected,                                                            \* dummy
    sent, delivered, answered, received, crashed

quicOwn == <<connectionState, connection, handle, callback, sender, taken, outbound,
             pushing, inFlight, inbound, upc, cpc, dpc>>
mqttOwn == <<client, generation, subscribed, consumed, serverDisconnectPending, pendingOf,
             publishing, published>>
channelVars == <<sent, delivered, answered, received>>
vars == <<startupVars, quicOwn, mqttOwn, isConnected, channelVars, crashed>>

\* The protocol of the endpoint whose channel is modelled; none without endpoints.
Protocol ==
    IF ExternalConnectionSettings = <<>> THEN "none" ELSE ExternalConnectionSettings[1].protocol

\* The external client's thread, as main's position tells.
ClientThread ==
    CASE main = "running" -> "running" [] main = "stopping" -> "stopping" [] OTHER -> "joined"

Quic == INSTANCE QuicCommunication WITH clientThread <- ClientThread
Mqtt == INSTANCE MqttCommunication
Dummy == INSTANCE DummyCommunication

Init ==
    /\ StartupInit
    /\ Quic!QuicInit /\ Mqtt!MqttInit /\ Dummy!DummyInit
    /\ sent = 0 /\ answered = 0
    /\ delivered = [m \in 1..MaxSend |-> 0]
    /\ received = [a \in 1..MaxAnswer |-> 0]
    /\ crashed = FALSE

-----------------------------------------------------------------------------
\* The channel object exists: initConnections has run, the destructor has not.
ChannelExists == main \in {"running", "stopping", "joined"}

\* A step of the QUIC channel leaves the rest alone.
QuicFrame ==
    /\ ~crashed
    /\ Protocol = "QUIC"
    /\ ChannelExists \/ (main = "cleanup" /\ dpc # "alive")
    /\ UNCHANGED <<startupVars, mqttOwn, isConnected>>

QuicStep == QuicFrame /\ Quic!QuicNext

MqttStep ==
    /\ Protocol = "MQTT"
    /\ ChannelExists
    /\ UNCHANGED <<startupVars, quicOwn, isConnected>>
    /\ Mqtt!MqttNext

DummyStep ==
    /\ Protocol = "DUMMY"
    /\ ChannelExists
    /\ UNCHANGED <<startupVars, quicOwn, mqttOwn, crashed>>
    /\ Dummy!DummyNext

\* No call of the channel is under way in a thread that main waits for.
ChannelUnused == upc = "none" /\ Quic!NotClosing /\ pushing = 0 /\ publishing = 0

\* main's steps that leave the channel alone.
StartupStep ==
    /\ ParseSettings \/ SettingsRejected \/ LoadStep \/ ModuleStep \/ PollEnds \/ InitStep \/ Signal
    /\ UNCHANGED <<quicOwn, mqttOwn, isConnected, channelVars, crashed>>

Joins ==
    /\ JoinThreads
    /\ ChannelUnused
    /\ UNCHANGED <<quicOwn, mqttOwn, isConnected, channelVars, crashed>>

\* externalClient.destroy closes the channel and joins its listener.
Destroys ==
    /\ DestroyComponents
    /\ ChannelUnused
    /\ \/ Protocol = "QUIC" /\ Quic!Destroy /\ UNCHANGED <<mqttOwn, isConnected>>
       \/ Protocol = "MQTT" /\ Mqtt!CloseConnection /\ UNCHANGED <<quicOwn, isConnected>>
       \/ /\ Protocol = "DUMMY" /\ Dummy!CloseConnection
          /\ UNCHANGED <<quicOwn, mqttOwn, crashed>>
       \/ /\ Protocol \notin {"QUIC", "MQTT", "DUMMY"}
          /\ UNCHANGED <<quicOwn, mqttOwn, isConnected, channelVars, crashed>>

\* The objects on main's stack go in reverse order: the client with its channel, whose
\* destructor may wait, before the module libraries.
CleansUp ==
    /\ \/ \E m \in Modules : DestroyHandler(m)
       \/ Return
    /\ dpc \in {"alive", "destroyed"}
    /\ UNCHANGED <<quicOwn, mqttOwn, isConnected, channelVars, crashed>>

Next ==
    \/ QuicStep \/ MqttStep \/ DummyStep
    \/ ~crashed /\ (StartupStep \/ Joins \/ Destroys \/ CleansUp)

Spec == Init /\ [][Next]_vars

\* main's thread, the program's other threads and MsQuic's callbacks, once begun, keep
\* running.  A sender loop and sendMessage compete for outboundMutex_, which neither holds
\* for ever, and are not passed over always (strong fairness).  Nothing is assumed of the
\* network, the server, the module processes and the callers of the channel.
Fairness ==
    /\ WF_vars(StartupStep /\ (ParseSettings \/ SettingsRejected \/ LoadStep \/ InitStep))
    /\ WF_vars(StartupStep /\ PollEnds)
    /\ WF_vars(~crashed /\ (Joins \/ Destroys \/ CleansUp))
    /\ WF_vars(QuicFrame /\ (Quic!ConnectionOpen \/ Quic!ConnectionOpenFails))
    /\ WF_vars(QuicFrame /\ (Quic!ConnectionStart \/ Quic!ConnectionStartFails))
    /\ WF_vars(QuicFrame /\ Quic!ConnectionShutdown)
    /\ WF_vars(QuicFrame /\ (Quic!RegistrationClosed \/ Quic!SenderThreadJoined))
    /\ SF_vars(QuicFrame /\ Quic!Push)
    /\ \A h \in 1..Connections :
          /\ WF_vars(QuicFrame /\ Quic!CallbackStep(h))
          /\ SF_vars(QuicFrame /\ Quic!SenderStep(h))

FairSpec == Spec /\ Fairness

-----------------------------------------------------------------------------
(* Properties *)

Interface == INSTANCE Channel WITH repeats <- Protocol = "MQTT", accepted <- sent

\* Each protocol implements the channel interface: through queues that outlive a
\* connection, two sender loops on one queue, dropped and repeated messages, nothing
\* arrives that was not handed over, and over QUIC nothing arrives twice
\* (ICommunicationChannel, its three implementations).
ImplementsChannel == Interface!ChannelSpec

\* See QuicCommunication: initializeConnection, connectionCallback.
OneConnection == Quic!OneConnection

\* See QuicCommunication: sendMessage, senderLoop.
QueuedIsTaken == Quic!QueuedIsTaken

\* See QuicCommunication: the comment on senderLoop.
LoopTerminates == Quic!LoopTerminates

\* See MqttCommunication: closeConnection, consumeServerDisconnectNotification.
NoStaleNotification == Mqtt!NoStaleNotification

=============================================================================
