------------------------- MODULE MqttCommunication -------------------------
(***************************************************************************)
(* The MQTT channel (connection/communication/MqttCommunication.cpp): the  *)
(* owned Paho client client_, its queue of consumed messages and the flag  *)
(* serverDisconnectPending_.                                               *)
(*                                                                         *)
(* receiveMessage and closeConnection exclude each other                   *)
(* (receiveMessageMutex_) and are one step each; sendMessage takes no lock, *)
(* so client_ may go between its test and the publish.                     *)
(*                                                                         *)
(* Paho is external.  It reconnects on its own (automatic_reconnect), but a *)
(* clean session loses its subscriptions, which only connect makes.  With  *)
(* qos 1 a message without acknowledgement is sent again.  publish on a    *)
(* client that is not connected throws, which no caller catches.           *)
(***************************************************************************)
EXTENDS Naturals, Sequences

CONSTANTS
    MaxClients,   \* bound: Paho clients created
    MaxSend,      \* bound: messages given to sendMessage
    MaxAnswer     \* bound: messages of the external server

\* Message of the topic external_server_disconnect in the consumer queue.
Notification == 0

\* Bound: copies of one message.
MaxCopies == 2

VARIABLES
    client,         \* client_: null, idle (created), up, down (Paho reconnects)
    generation,     \* clients created so far; the present one's number
    subscribed,     \* the broker has the client's subscriptions
    consumed,       \* the client's consumer queue
    serverDisconnectPending,  \* serverDisconnectPending_
    pendingOf,      \* auxiliary: the client the notification came to
    publishing,     \* calls of sendMessage between the test and the publish
    published,      \* messages without acknowledgement of the broker
    sent, delivered, answered, received, crashed

mqttVars == <<client, generation, subscribed, consumed, serverDisconnectPending, pendingOf,
              publishing, published, sent, delivered, answered, received, crashed>>

MqttInit ==
    /\ client = "null"
    /\ generation = 0
    /\ subscribed = FALSE
    /\ consumed = <<>>
    /\ serverDisconnectPending = FALSE
    /\ pendingOf = 0
    /\ publishing = 0
    /\ published = {}

-----------------------------------------------------------------------------
\* A client object goes, with its queue and what it had to send again.
ClientReset ==
    /\ subscribed' = FALSE
    /\ consumed' = <<>>
    /\ published' = {}

\* Mutant of PendingAfterClose: the flag outlives the client.
PendingAfterCloseKept == serverDisconnectPending

\* closeConnection stores false.
PendingAfterClose == FALSE

\* initializeConnection up to the new client: nothing if connected; a client that is
\* not is closed first.
InitializeConnection ==
    /\ client # "up"
    /\ generation < MaxClients
    /\ client' = "idle"
    /\ generation' = generation + 1
    /\ ClientReset
    /\ serverDisconnectPending' =
          IF client = "null" THEN serverDisconnectPending ELSE PendingAfterClose
    /\ UNCHANGED <<pendingOf, publishing, sent, delivered, answered, received, crashed>>

\* connect waits for the connection, then for the subscriptions.  Either wait may throw,
\* caught by ExternalConnection::initializeConnection: the client stays idle, or is
\* connected without subscriptions, which initializeConnection then takes for good.
Connect ==
    /\ client = "idle"
    /\ client' = "up"
    /\ subscribed' \in BOOLEAN
    /\ UNCHANGED <<generation, consumed, serverDisconnectPending, pendingOf, publishing,
                   published, sent, delivered, answered, received, crashed>>

\* Paho loses the broker, and reconnects.
ConnectionLost ==
    /\ client = "up"
    /\ client' = "down"
    /\ subscribed' = FALSE
    /\ UNCHANGED <<generation, consumed, serverDisconnectPending, pendingOf, publishing,
                   published, sent, delivered, answered, received, crashed>>

AutomaticReconnect ==
    /\ client = "down"
    /\ client' = "up"
    /\ UNCHANGED <<generation, subscribed, consumed, serverDisconnectPending, pendingOf,
                   publishing, published, sent, delivered, answered, received, crashed>>

\* closeConnection; without a client only the flag is lowered.
CloseConnection ==
    /\ client' = "null"
    /\ ClientReset
    /\ serverDisconnectPending' = PendingAfterClose
    /\ UNCHANGED <<generation, pendingOf, publishing, sent, delivered, answered,
                   received, crashed>>

\* sendMessage: the test of client_ and its connection.
SendMessage ==
    /\ client = "up"
    /\ sent + publishing < MaxSend
    /\ publishing' = publishing + 1
    /\ UNCHANGED <<client, generation, subscribed, consumed, serverDisconnectPending,
                   pendingOf, published, sent, delivered, answered, received, crashed>>

\* publish.  The client may be another one, unconnected or gone: the first sends, the
\* second throws, the third is undefined.
Publish ==
    /\ publishing > 0
    /\ publishing' = publishing - 1
    /\ IF client = "up"
       THEN sent' = sent + 1 /\ published' = published \cup {sent + 1} /\ UNCHANGED crashed
       ELSE crashed' = TRUE /\ UNCHANGED <<sent, published>>
    /\ UNCHANGED <<client, generation, subscribed, consumed, serverDisconnectPending,
                   pendingOf, delivered, answered, received>>

\* The broker passes m on; its acknowledgement may be lost.
Arrives(m) ==
    /\ m \in published
    /\ client = "up"
    /\ delivered[m] < MaxCopies
    /\ delivered' = [delivered EXCEPT ![m] = @ + 1]
    /\ published' \in {published \ {m}, published}
    /\ UNCHANGED <<client, generation, subscribed, consumed, serverDisconnectPending,
                   pendingOf, publishing, sent, answered, received, crashed>>

\* The broker hands over a message of the server, once or twice, or drops it.
BrokerDelivers ==
    /\ client = "up"
    /\ answered < MaxAnswer
    /\ answered' = answered + 1
    /\ \E copies \in IF subscribed THEN 0..MaxCopies ELSE {0} :
          consumed' = consumed \o [i \in 1..copies |-> answered + 1]
    /\ UNCHANGED <<client, generation, subscribed, serverDisconnectPending, pendingOf,
                   publishing, published, sent, delivered, received, crashed>>

\* The server's last will, or its orderly disconnect.
BrokerNotifies ==
    /\ client = "up"
    /\ subscribed
    /\ Notification \notin {consumed[i] : i \in 1..Len(consumed)}
    /\ consumed' = Append(consumed, Notification)
    /\ UNCHANGED <<client, generation, subscribed, serverDisconnectPending, pendingOf,
                   publishing, published, sent, delivered, answered, received, crashed>>

\* receiveMessage with a message: a notification raises the flag, anything else is
\* returned.  Without one, or without a connection, it changes nothing.
ReceiveMessage ==
    /\ client = "up"
    /\ consumed # <<>>
    /\ consumed' = Tail(consumed)
    /\ IF Head(consumed) = Notification
       THEN /\ serverDisconnectPending' = TRUE
            /\ pendingOf' = generation
            /\ UNCHANGED received
       ELSE /\ received' = [received EXCEPT ![Head(consumed)] = @ + 1]
            /\ UNCHANGED <<serverDisconnectPending, pendingOf>>
    /\ UNCHANGED <<client, generation, subscribed, publishing, published, sent,
                   delivered, answered, crashed>>

\* consumeServerDisconnectNotification.
ConsumeServerDisconnectNotification ==
    /\ serverDisconnectPending
    /\ serverDisconnectPending' = FALSE
    /\ UNCHANGED <<client, generation, subscribed, consumed, pendingOf, publishing, published,
                   sent, delivered, answered, received, crashed>>

MqttNext ==
    /\ ~crashed
    /\ \/ InitializeConnection \/ Connect \/ ConnectionLost \/ AutomaticReconnect
       \/ CloseConnection
       \/ SendMessage \/ Publish
       \/ \E m \in 1..MaxSend : Arrives(m)
       \/ BrokerDelivers \/ BrokerNotifies
       \/ ReceiveMessage \/ ConsumeServerDisconnectNotification

-----------------------------------------------------------------------------
\* A disconnect notification that is still to be acted on came to the present client:
\* one that an earlier client received never tears down its successor
\* (serverDisconnectPending_, closeConnection).
NoStaleNotification ==
    serverDisconnectPending => client # "null" /\ pendingOf = generation

=============================================================================
