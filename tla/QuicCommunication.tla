------------------------- MODULE QuicCommunication -------------------------
(***************************************************************************)
(* The QUIC channel (connection/communication/QuicCommunication.cpp): the  *)
(* connection's atomic state, the handle connection_, the outbound queue   *)
(* with its sender thread and condition variable, the inbound queue, and   *)
(* MsQuic, which calls back from threads of its own.                       *)
(*                                                                         *)
(* Actors.  The connect thread (initializeConnection, program counter upc),*)
(* the thread that closes (closeConnection, cpc), callers of sendMessage   *)
(* and receiveMessage, one callback at a time per handle (callback[h]), one *)
(* sender loop per connection that came up (sender[h]; an old loop may     *)
(* still run when the next one starts), and the destructor (dpc).          *)
(*                                                                         *)
(* A sender loop's position:                                               *)
(*   none, done  not started, returned;                                    *)
(*   top         about to test the loop's condition;                       *)
(*   lock        about to lock outboundMutex_ and test the predicate;      *)
(*   blocking    the predicate was false; the mutex is held until it       *)
(*               sleeps, but connectionState_ may change without the mutex; *)
(*   asleep      in outboundCv_.wait;                                      *)
(*   ready       the predicate was true, the mutex is held;                *)
(*   send        a message was taken and the mutex released.               *)
(*                                                                         *)
(* MsQuic is external.  A handle is none, open, started, up, down (shutting *)
(* down, for whatever reason) or closed.  Using a closed handle, the front *)
(* of an empty queue or quic_ after MsQuicClose is undefined: the process  *)
(* may crash or nothing happens.                                           *)
(*                                                                         *)
(* receiveMessage's wait is bounded by receive_message_timeout, so a call  *)
(* that returns nullptr changes nothing and cancelReceive_, which ends the *)
(* wait early, is left out.  A message that comes in several RECEIVE events *)
(* does not parse piece by piece and is lost.                              *)
(***************************************************************************)
EXTENDS Naturals, Sequences

CONSTANTS
    Connections,  \* bound: connection handles opened, numbered in order
    MaxSend,      \* bound: messages given to sendMessage
    MaxAnswer     \* bound: messages of the external server

VARIABLES
    connectionState,  \* connectionState_
    connection,       \* connection_; 0 is nullptr
    handle,           \* handle[h]: MsQuic's view of connection handle h
    callback,         \* callback[h]: where the callback running for h is
    sender,           \* sender[h]: the loop started when h came up, see above
    taken,            \* taken[h]: the message sender[h] holds, 0 if none
    outbound,         \* outboundQueue_
    pushing,          \* calls of sendMessage between the test and the push
    inFlight,         \* inFlight[m]: the connection m travels on, 0 if none;
                      \* its SendBuffer lives as long
    inbound,          \* inboundQueue_
    upc, cpc, dpc,    \* initializeConnection, closeConnection, the destructor
    clientThread,     \* the external client's thread: running, stopping once the
                      \* io_context is stopped, or joined
    sent, delivered, answered, received,  \* see module Channel
    crashed           \* the process is gone

channelVars == <<sent, delivered, answered, received>>
sendVars == <<sender, taken, outbound, pushing, inFlight>>
quicVars == <<connectionState, connection, handle, callback, sendVars, inbound,
              upc, cpc, dpc, clientThread, channelVars, crashed>>

HandleIds == 1..Connections

QuicInit ==
    /\ connectionState = "NOT_CONNECTED"
    /\ connection = 0
    /\ handle = [h \in HandleIds |-> "none"]
    /\ callback = [h \in HandleIds |-> "idle"]
    /\ sender = [h \in HandleIds |-> "none"]
    /\ taken = [h \in HandleIds |-> 0]
    /\ outbound = <<>>
    /\ pushing = 0
    /\ inFlight = [m \in 1..MaxSend |-> 0]
    /\ inbound = <<>>
    /\ upc = "none" /\ cpc = "none" /\ dpc = "alive"

-----------------------------------------------------------------------------
(* Helpers *)

\* The channel object can be used.
Alive == dpc = "alive"

\* outboundMutex_ is held.
Locked == \E h \in HandleIds : sender[h] \in {"blocking", "ready"}

\* outboundCv_.notify_all, on the given positions.
Woken(s) == [h \in HandleIds |-> IF s[h] = "asleep" THEN "lock" ELSE s[h]]

\* Mutant of NotifyOne: the sender is not notified.
NotifyOneForgotten(s) == {s}

\* outboundCv_.notify_one: any one that sleeps wakes up.
NotifyOne(s) ==
    LET asleep == {h \in HandleIds : s[h] = "asleep"}
    IN  IF asleep = {} THEN {s} ELSE {[s EXCEPT ![h] = "lock"] : h \in asleep}

\* The thread object senderThread_ held before h's loop was started.
SendersBefore(h) == {g \in 1..(h - 1) : sender[g] # "none"}

\* connection_ still holds a handle that was closed.
UsesClosed == connection # 0 /\ handle[connection] = "closed"

\* MsQuic carries streams on h.
Carries(h) == handle[h] \in {"started", "up"}

-----------------------------------------------------------------------------
(* initializeConnection *)

\* Mutant of StartsConnecting: the state is stored, not compared.
StartsConnectingAlways == TRUE

\* The compare-exchange from NOT_CONNECTED to CONNECTING succeeds.
StartsConnecting == connectionState = "NOT_CONNECTED"

\* A call that loses the compare-exchange returns and changes nothing.
InitializeConnection ==
    /\ Alive /\ clientThread # "joined"
    /\ upc = "none" /\ cpc = "none"
    /\ \E h \in HandleIds : handle[h] = "none"
    /\ StartsConnecting
    /\ connectionState' = "CONNECTING"
    /\ upc' = "open"
    /\ UNCHANGED <<connection, handle, callback, sendVars, inbound, cpc, dpc,
                   clientThread, channelVars, crashed>>

\* ConnectionOpen succeeds: a fresh handle is stored in connection_.
ConnectionOpen ==
    /\ upc = "open"
    /\ \E h \in HandleIds :
          /\ handle[h] = "none"
          /\ \A g \in 1..(h - 1) : handle[g] # "none"
          /\ handle' = [handle EXCEPT ![h] = "open"]
          /\ connection' = h
    /\ upc' = "start"
    /\ UNCHANGED <<connectionState, callback, sendVars, inbound, cpc, dpc, clientThread,
                   channelVars, crashed>>

ConnectionOpenFails ==
    /\ upc = "open"
    /\ connectionState' = "NOT_CONNECTED"
    /\ upc' = "none"
    /\ UNCHANGED <<connection, handle, callback, sendVars, inbound, cpc, dpc, clientThread,
                   channelVars, crashed>>

ConnectionStart ==
    /\ upc = "start"
    /\ connection # 0
    /\ handle[connection] = "open"
    /\ handle' = [handle EXCEPT ![connection] = "started"]
    /\ upc' = "none"
    /\ UNCHANGED <<connectionState, connection, callback, sendVars, inbound, cpc, dpc,
                   clientThread, channelVars, crashed>>

\* ConnectionStart fails, of necessity when a late callback of the previous
\* connection has set connection_ to nullptr or the handle was shut down already.
ConnectionStartFails ==
    /\ upc = "start"
    /\ handle' = IF connection = 0 THEN handle ELSE [handle EXCEPT ![connection] = "closed"]
    /\ crashed' \in {FALSE, UsesClosed}
    /\ connection' = 0
    /\ connectionState' = "NOT_CONNECTED"
    /\ upc' = "none"
    /\ UNCHANGED <<callback, sendVars, inbound, cpc, dpc, clientThread, channelVars>>

-----------------------------------------------------------------------------
(* closeConnection *)

\* The handle a shutdown is requested for.
ShutDown(h) == IF h # 0 /\ handle[h] \in {"open", "started", "up"}
               THEN [handle EXCEPT ![h] = "down"] ELSE handle

\* No closeConnection is under way.
NotClosing == cpc \in {"none", "cancelled"}

\* Called by deinitializeConnection, never during initializeConnection.
CloseConnection ==
    /\ Alive
    /\ NotClosing
    /\ upc = "none"
    /\ connection # 0
    /\ cpc' = IF cpc = "none" THEN "shut" ELSE "cancel"
    /\ UNCHANGED <<connectionState, connection, handle, callback, sendVars, inbound,
                   upc, dpc, clientThread, channelVars, crashed>>

\* Called by cancelPendingConnect during it, once the io_context is stopped: the client
\* thread then joins the connect thread and its loop ends, so no connect follows.
CancelPendingConnect ==
    /\ Alive /\ clientThread = "stopping"
    /\ cpc = "none"
    /\ upc # "none"
    /\ connection # 0
    /\ cpc' = "cancel"
    /\ UNCHANGED <<connectionState, connection, handle, callback, sendVars, inbound,
                   upc, dpc, clientThread, channelVars, crashed>>

\* connection_ is read again: it may be nullptr by now, or another handle.
\* The state stays what it was until the callback comes.
ConnectionShutdown ==
    /\ ~NotClosing
    /\ cpc' = IF cpc = "shut" THEN "none" ELSE "cancelled"
    /\ handle' = ShutDown(connection)
    /\ crashed' \in {FALSE, UsesClosed}
    /\ UNCHANGED <<connectionState, connection, callback, sendVars, inbound, upc, dpc,
                   clientThread, channelVars>>

-----------------------------------------------------------------------------
(* connectionCallback, one step of a case per action *)

\* QUIC_CONNECTION_EVENT_CONNECTED: the compare-exchange.
CallbackConnected(h) ==
    /\ handle[h] = "started"
    /\ callback[h] = "idle"
    /\ handle' = [handle EXCEPT ![h] = "up"]
    /\ IF connectionState = "CONNECTING"
       THEN /\ connectionState' = "CONNECTED"
            /\ callback' = [callback EXCEPT ![h] = "connected"]
       ELSE UNCHANGED <<connectionState, callback>>
    /\ UNCHANGED <<connection, sendVars, inbound, upc, cpc, dpc, clientThread,
                   channelVars, crashed>>

\* The new thread starts before the assignment to senderThread_ joins the old one.
CallbackStartsSender(h) ==
    /\ callback[h] = "connected"
    /\ sender' = [sender EXCEPT ![h] = "top"]
    /\ callback' = [callback EXCEPT ![h] = "joining"]
    /\ UNCHANGED <<connectionState, connection, handle, taken, outbound, pushing, inFlight,
                   inbound, upc, cpc, dpc, clientThread, channelVars, crashed>>

\* The old thread is joined; outboundCv_.notify_all.
CallbackJoined(h) ==
    /\ callback[h] = "joining"
    /\ \A g \in SendersBefore(h) : sender[g] = "done"
    /\ sender' = Woken(sender)
    /\ callback' = [callback EXCEPT ![h] = "idle"]
    /\ UNCHANGED <<connectionState, connection, handle, taken, outbound, pushing, inFlight,
                   inbound, upc, cpc, dpc, clientThread, channelVars, crashed>>

\* QUIC_CONNECTION_EVENT_SHUTDOWN_INITIATED_BY_PEER.
CallbackPeerShutdown(h) ==
    /\ Carries(h)
    /\ callback[h] = "idle"
    /\ handle' = [handle EXCEPT ![h] = "down"]
    /\ connectionState' = "CLOSING"
    /\ UNCHANGED <<connection, callback, sendVars, inbound, upc, cpc, dpc, clientThread,
                   channelVars, crashed>>

\* The handshake or the path fails; the event is not handled (default case).
TransportShutdown(h) ==
    /\ Carries(h)
    /\ handle' = [handle EXCEPT ![h] = "down"]
    /\ UNCHANGED <<connectionState, connection, callback, sendVars, inbound, upc, cpc, dpc,
                   clientThread, channelVars, crashed>>

\* QUIC_CONNECTION_EVENT_SHUTDOWN_COMPLETE: the state; sends under way were
\* cancelled before (SEND_COMPLETE frees their buffers).
CallbackComplete(h) ==
    /\ handle[h] = "down"
    /\ callback[h] = "idle"
    /\ connectionState' = "NOT_CONNECTED"
    /\ inFlight' = [m \in 1..MaxSend |-> IF inFlight[m] = h THEN 0 ELSE inFlight[m]]
    /\ callback' = [callback EXCEPT ![h] = "completed"]
    /\ UNCHANGED <<connection, handle, sender, taken, outbound, pushing, inbound, upc, cpc,
                   dpc, clientThread, channelVars, crashed>>

\* outboundCv_.notify_all, without outboundMutex_; ConnectionClose.
CallbackCloses(h) ==
    /\ callback[h] = "completed"
    /\ sender' = Woken(sender)
    /\ handle' = [handle EXCEPT ![h] = "closed"]
    /\ callback' = [callback EXCEPT ![h] = "closed"]
    /\ UNCHANGED <<connectionState, connection, taken, outbound, pushing, inFlight, inbound,
                   upc, cpc, dpc, clientThread, channelVars, crashed>>

\* connection_ = nullptr, whichever handle it holds by now.
CallbackForgets(h) ==
    /\ callback[h] = "closed"
    /\ connection' = 0
    /\ callback' = [callback EXCEPT ![h] = "idle"]
    /\ UNCHANGED <<connectionState, handle, sendVars, inbound, upc, cpc, dpc, clientThread,
                   channelVars, crashed>>

-----------------------------------------------------------------------------
(* Sending *)

\* sendMessage up to the lock; it returns false when NOT_CONNECTED.
SendMessage ==
    /\ Alive
    /\ connectionState # "NOT_CONNECTED"
    /\ sent + pushing < MaxSend
    /\ pushing' = pushing + 1
    /\ UNCHANGED <<connectionState, connection, handle, callback, sender, taken, outbound,
                   inFlight, inbound, upc, cpc, dpc, clientThread, channelVars, crashed>>

\* The push and notify_one; the state may have changed since it was tested.
Push ==
    /\ pushing > 0
    /\ ~Locked
    /\ pushing' = pushing - 1
    /\ sent' = sent + 1
    /\ outbound' = Append(outbound, sent + 1)
    /\ sender' \in NotifyOne(sender)
    /\ UNCHANGED <<connectionState, connection, handle, callback, taken, inFlight, inbound,
                   upc, cpc, dpc, clientThread, delivered, answered, received, crashed>>

\* Step of senderLoop that only moves its position.
Moves(h, to) ==
    /\ sender' = [sender EXCEPT ![h] = to]
    /\ UNCHANGED <<connectionState, connection, handle, callback, taken, outbound, pushing,
                   inFlight, inbound, upc, cpc, dpc, clientThread, channelVars, crashed>>

SenderTop(h) ==
    /\ sender[h] = "top"
    /\ Moves(h, IF connectionState = "CONNECTED" THEN "lock" ELSE "done")

\* The mutex is locked and the predicate of wait evaluated.
SenderWaits(h) ==
    /\ sender[h] = "lock"
    /\ ~Locked
    /\ Moves(h, IF outbound # <<>> \/ connectionState # "CONNECTED" THEN "ready" ELSE "blocking")

SenderSleeps(h) ==
    /\ sender[h] = "blocking"
    /\ Moves(h, "asleep")

\* The state is read once more after the wait.
SenderLeaves(h) ==
    /\ sender[h] = "ready"
    /\ connectionState # "CONNECTED"
    /\ Moves(h, "done")

\* Mutant of Rest: the message stays in the queue.
RestUnpopped == outbound

\* outboundQueue_.pop.
Rest == Tail(outbound)

\* A message is taken.  When the state has left CONNECTED and come back between
\* the two reads the queue may be empty.
SenderTakes(h) ==
    /\ sender[h] = "ready"
    /\ connectionState = "CONNECTED"
    /\ IF outbound = <<>>
       THEN crashed' = TRUE /\ UNCHANGED <<sender, taken, outbound>>
       ELSE /\ taken' = [taken EXCEPT ![h] = Head(outbound)]
            /\ outbound' = Rest
            /\ sender' = [sender EXCEPT ![h] = "send"]
            /\ UNCHANGED crashed
    /\ UNCHANGED <<connectionState, connection, handle, callback, pushing, inFlight, inbound,
                   upc, cpc, dpc, clientThread, channelVars>>

\* sendViaQuicStream: a stream of its own on whatever connection_ is now.
SendViaQuicStream(h) ==
    /\ sender[h] = "send"
    /\ Alive \/ dpc = "registration"
    /\ connection # 0
    /\ Carries(connection)
    /\ inFlight' = [inFlight EXCEPT ![taken[h]] = connection]
    /\ taken' = [taken EXCEPT ![h] = 0]
    /\ sender' = [sender EXCEPT ![h] = "top"]
    /\ UNCHANGED <<connectionState, connection, handle, callback, outbound, pushing, inbound,
                   upc, cpc, dpc, clientThread, channelVars, crashed>>

\* StreamOpen, the serialisation or StreamSend fails: the message is dropped.
SendFails(h) ==
    /\ sender[h] = "send"
    /\ taken' = [taken EXCEPT ![h] = 0]
    /\ sender' = [sender EXCEPT ![h] = "top"]
    /\ crashed' \in {FALSE, UsesClosed \/ dpc = "join"}
    /\ UNCHANGED <<connectionState, connection, handle, callback, outbound, pushing, inFlight,
                   inbound, upc, cpc, dpc, clientThread, channelVars>>

\* The server has got m; MsQuic's SEND_COMPLETE frees the buffer.
Arrives(m) ==
    /\ inFlight[m] # 0
    /\ handle[inFlight[m]] = "up"
    /\ inFlight' = [inFlight EXCEPT ![m] = 0]
    /\ delivered' = [delivered EXCEPT ![m] = @ + 1]
    /\ UNCHANGED <<connectionState, connection, handle, callback, sender, taken, outbound,
                   pushing, inbound, upc, cpc, dpc, clientThread, sent, answered, received, crashed>>

-----------------------------------------------------------------------------
(* Receiving *)

\* The server sends; the stream's RECEIVE event brings the whole message
\* (onMessageDecoded), or pieces that do not parse, or the connection is lost first.
\* Events of a connection are serial, so none comes while a callback runs.
StreamReceives(h) ==
    /\ handle[h] = "up"
    /\ callback[h] = "idle"
    /\ answered < MaxAnswer
    /\ answered' = answered + 1
    /\ inbound' \in {Append(inbound, answered + 1), inbound}
    /\ UNCHANGED <<connectionState, connection, handle, callback, sendVars, upc, cpc, dpc,
                   clientThread, sent, delivered, received, crashed>>

\* receiveMessage with a result: messages of an earlier connection come first.
ReceiveMessage ==
    /\ Alive
    /\ connectionState # "NOT_CONNECTED"
    /\ inbound # <<>>
    /\ received' = [received EXCEPT ![Head(inbound)] = @ + 1]
    /\ inbound' = Tail(inbound)
    /\ UNCHANGED <<connectionState, connection, handle, callback, sendVars, upc, cpc, dpc,
                   clientThread, sent, delivered, answered, crashed>>

-----------------------------------------------------------------------------
(* The destructor *)

\* stop: closeConnection, and RegistrationClose is called.
Destroy ==
    /\ Alive /\ clientThread = "joined"
    /\ upc = "none" /\ NotClosing /\ pushing = 0
    /\ handle' = ShutDown(connection)
    /\ crashed' \in {FALSE, UsesClosed}
    /\ dpc' = "registration"
    /\ UNCHANGED <<connectionState, connection, callback, sendVars, inbound, upc, cpc,
                   clientThread, channelVars>>

\* RegistrationClose returns when all connections are closed; MsQuicClose and
\* notify_all follow.
RegistrationClosed ==
    /\ dpc = "registration"
    /\ \A h \in HandleIds : handle[h] \in {"none", "closed"} /\ callback[h] = "idle"
    /\ sender' = Woken(sender)
    /\ dpc' = "join"
    /\ UNCHANGED <<connectionState, connection, handle, callback, taken, outbound, pushing,
                   inFlight, inbound, upc, cpc, clientThread, channelVars, crashed>>

\* The member senderThread_ is destroyed.
SenderThreadJoined ==
    /\ dpc = "join"
    /\ \A h \in HandleIds : sender[h] \in {"none", "done"}
    /\ dpc' = "destroyed"
    /\ UNCHANGED <<connectionState, connection, handle, callback, sendVars, inbound, upc, cpc,
                   clientThread, channelVars, crashed>>

-----------------------------------------------------------------------------
ConnectThread ==
    \/ InitializeConnection \/ ConnectionOpen \/ ConnectionOpenFails
    \/ ConnectionStart \/ ConnectionStartFails

CallbackStep(h) ==
    \/ CallbackStartsSender(h) \/ CallbackJoined(h)
    \/ CallbackComplete(h) \/ CallbackCloses(h) \/ CallbackForgets(h)

SenderStep(h) ==
    \/ SenderTop(h) \/ SenderWaits(h) \/ SenderSleeps(h)
    \/ SenderLeaves(h) \/ SenderTakes(h) \/ SendViaQuicStream(h) \/ SendFails(h)

QuicNext ==
    /\ ~crashed
    /\ \/ ConnectThread
       \/ CloseConnection \/ CancelPendingConnect \/ ConnectionShutdown
       \/ \E h \in HandleIds :
             \/ CallbackConnected(h) \/ CallbackPeerShutdown(h) \/ TransportShutdown(h)
             \/ CallbackStep(h) \/ SenderStep(h) \/ StreamReceives(h)
       \/ SendMessage \/ Push \/ ReceiveMessage
       \/ \E m \in 1..MaxSend : Arrives(m)
       \/ RegistrationClosed \/ SenderThreadJoined

-----------------------------------------------------------------------------
(* Properties *)

\* At most one MsQuic connection at a time is being established or in use, although
\* the connect thread, closeConnection and the callbacks of old and new connections
\* change the state without a common lock (compare-exchange in initializeConnection).
OneConnection ==
    \A g, h \in HandleIds : Carries(g) /\ Carries(h) => g = h

\* A message queued while connected does not wait for ever: some sender loop takes it,
\* or the connection ends (outboundCv_, with the old loop possibly still asleep).
QueuedIsTaken ==
    \A m \in 1..MaxSend :
        (connectionState = "CONNECTED" /\ \E i \in 1..Len(outbound) : outbound[i] = m)
            ~> (crashed \/ connectionState # "CONNECTED"
                  \/ \A i \in 1..Len(outbound) : outbound[i] # m)

\* The comment on senderLoop: "The loop terminates when the connection leaves the
\* CONNECTED state."
LoopTerminates ==
    \A h \in HandleIds :
        (sender[h] # "none" /\ handle[h] = "closed") ~> (sender[h] = "done" \/ crashed)

=============================================================================
