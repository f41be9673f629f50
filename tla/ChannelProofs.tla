---------------------------- MODULE ChannelProofs ----------------------------
(***************************************************************************)
(* Proof that each protocol implements the channel interface (module       *)
(* Channel), for any number of connections, clients and messages.          *)
(***************************************************************************)
EXTENDS GatewayProofs, QueueLemmas

-----------------------------------------------------------------------------
(* The configuration *)

\* Nothing changes the configuration, hence the protocol.
LEMMA ProtocolFixed == [Next]_vars => Protocol' = Protocol
<1> SUFFICES ASSUME [Next]_vars PROVE Protocol' = Protocol
  OBVIOUS
<1>1. config' = config
  <2>1. CASE UNCHANGED startupVars
    BY <2>1 DEF startupVars
  <2>2. CASE StartupStep
    BY <2>2 DEF StartupStep, ParseSettings, SettingsRejected, LoadStep, LoadLocal,
                SpawnModuleBinary, LoadFails, LoadThrows, LibrariesLoaded, ModuleStep,
                ModuleAnswers, NumberMismatch, ModuleBinaryDies, PollEnds,
                ModuleBinaryTerminated, StartupTimeout, InitStep, InitStatusAggregator,
                SkipModule, Visited, Start, Signal
  <2>3. CASE Joins \/ Destroys \/ CleansUp
    BY <2>3 DEF Joins, Destroys, CleansUp, JoinThreads, DestroyComponents, DestroyHandler, Return
  <2> QED
    BY <2>1, <2>2, <2>3 DEF Next, vars, QuicStep, QuicFrame, MqttStep, DummyStep
<1>2. ExternalConnectionSettings' = ExternalConnectionSettings
  BY <1>1 DEF ExternalConnectionSettings
<1> QED
  BY <1>2 DEF Protocol

\* Every channel counts the messages within the bounds.
ChannelType ==
    /\ sent \in 0..MaxSend
    /\ answered \in 0..MaxAnswer
    /\ delivered \in [1..MaxSend -> Nat]
    /\ received \in [1..MaxAnswer -> Nat]

-----------------------------------------------------------------------------
(* QUIC: where a message is *)

Queued(m) == \E i \in 1..Len(outbound) : outbound[i] = m
Held(m) == \E h \in Quic!HandleIds : taken[h] = m

QuicType ==
    /\ connection \in {0} \union Quic!HandleIds
    /\ sender \in [Quic!HandleIds -> {"none", "done", "top", "lock", "blocking", "asleep",
                                      "ready", "send"}]
    /\ taken \in [Quic!HandleIds -> 0..MaxSend]
    /\ outbound \in Seq(1..MaxSend)
    /\ pushing \in Nat
    /\ sent + pushing <= MaxSend
    /\ inFlight \in [1..MaxSend -> {0} \union Quic!HandleIds]
    /\ inbound \in Seq(1..MaxAnswer)

\* A message is in one place: in the queue, with one sender loop, under way, or at the
\* server, and it was given to sendMessage.
QuicSending ==
    /\ \A i, j \in 1..Len(outbound) : outbound[i] = outbound[j] => i = j
    /\ \A g, h \in Quic!HandleIds : taken[g] # 0 /\ taken[g] = taken[h] => g = h
    /\ \A h \in Quic!HandleIds : sender[h] = "send" => taken[h] # 0
    /\ \A m \in 1..MaxSend :
          /\ Queued(m) \/ Held(m) \/ inFlight[m] # 0 \/ delivered[m] # 0 => m <= sent
          /\ Queued(m) => ~Held(m)
          /\ Queued(m) \/ Held(m) => inFlight[m] = 0
          /\ Queued(m) \/ Held(m) \/ inFlight[m] # 0 => delivered[m] = 0

\* A message of the server waits in the queue once, or was received.
QuicReceiving ==
    /\ \A i, j \in 1..Len(inbound) : inbound[i] = inbound[j] => i = j
    /\ \A i \in 1..Len(inbound) : inbound[i] <= answered /\ received[inbound[i]] = 0
    /\ \A a \in 1..MaxAnswer : received[a] # 0 => a <= answered

QuicInv == ChannelType /\ QuicType /\ QuicSending /\ QuicReceiving

\* A step of the interface, or none.
ChannelStep ==
    \/ UNCHANGED channelVars
    \/ Interface!Accept
    \/ \E m \in 1..MaxSend : Interface!Deliver(m)
    \/ Interface!Answer
    \/ \E a \in 1..MaxAnswer : Interface!Receive(a)

\* No channel has been used at the start.
LEMMA InitQuicInv == Init => QuicInv
<1> SUFFICES ASSUME Init PROVE QuicInv
  OBVIOUS
<1>1. ChannelType /\ QuicType
  BY BoundsAssumption, EmptySeq
     DEF Init, Quic!QuicInit, ChannelType, QuicType, Quic!HandleIds
<1>2. Len(outbound) = 0 /\ Len(inbound) = 0
  BY DEF Init, Quic!QuicInit
<1> QED
  BY <1>1, <1>2, BoundsAssumption
     DEF Init, Quic!QuicInit, QuicInv, ChannelType, QuicType, QuicSending, QuicReceiving,
         Queued, Held, Quic!HandleIds

\* A step that moves no message: it may set connection_ and move sender loops, but not to
\* where they hold a message.
LEMMA NothingMoves ==
    ASSUME QuicInv,
           connection' \in {0, connection} \union Quic!HandleIds,
           sender' \in [Quic!HandleIds -> {"none", "done", "top", "lock", "blocking", "asleep",
                                           "ready", "send"}],
           \A h \in Quic!HandleIds : sender'[h] = "send" => sender[h] = "send",
           UNCHANGED <<taken, outbound, pushing, inFlight, inbound, channelVars>>
    PROVE  QuicInv' /\ ChannelStep
<1>1. ChannelType' /\ QuicType'
  BY DEF QuicInv, ChannelType, QuicType, channelVars
<1>2. QuicSending'
  BY DEF QuicInv, QuicSending, Queued, Held, channelVars
<1>3. QuicReceiving'
  BY DEF QuicInv, QuicReceiving, channelVars
<1> QED
  BY <1>1, <1>2, <1>3 DEF QuicInv, ChannelStep

\* initializeConnection, closeConnection and the destructor move no message.
LEMMA QuicConnects ==
    ASSUME QuicInv,
           \/ Quic!ConnectThread \/ Quic!CloseConnection \/ Quic!CancelPendingConnect
           \/ Quic!ConnectionShutdown \/ Quic!Destroy \/ Quic!RegistrationClosed
           \/ Quic!SenderThreadJoined
    PROVE  QuicInv' /\ ChannelStep
<1> USE NothingMoves DEF QuicInv, QuicType, Quic!sendVars, Quic!channelVars, channelVars
<1>1. CASE Quic!ConnectThread
  BY <1>1 DEF Quic!ConnectThread, Quic!InitializeConnection, Quic!ConnectionOpen,
              Quic!ConnectionOpenFails, Quic!ConnectionStart, Quic!ConnectionStartFails
<1>2. CASE Quic!CloseConnection \/ Quic!CancelPendingConnect \/ Quic!ConnectionShutdown
  BY <1>2 DEF Quic!CloseConnection, Quic!CancelPendingConnect, Quic!ConnectionShutdown
<1>3. CASE Quic!Destroy \/ Quic!SenderThreadJoined
  BY <1>3 DEF Quic!Destroy, Quic!SenderThreadJoined
<1>4. CASE Quic!RegistrationClosed
  BY <1>4 DEF Quic!RegistrationClosed, Quic!Woken
<1> QED
  BY <1>1, <1>2, <1>3, <1>4

\* connectionCallback: only the end of a connection touches messages, those under way on it,
\* which are lost.
LEMMA QuicCallback ==
    ASSUME QuicInv, NEW h \in Quic!HandleIds,
           \/ Quic!CallbackConnected(h) \/ Quic!CallbackPeerShutdown(h)
           \/ Quic!TransportShutdown(h) \/ Quic!CallbackStep(h)
    PROVE  QuicInv' /\ ChannelStep
<1>1. CASE \/ Quic!CallbackConnected(h) \/ Quic!CallbackPeerShutdown(h)
           \/ Quic!TransportShutdown(h) \/ Quic!CallbackForgets(h)
  BY <1>1, NothingMoves
     DEF QuicInv, QuicType, Quic!sendVars, Quic!channelVars, channelVars,
         Quic!CallbackConnected, Quic!CallbackPeerShutdown, Quic!TransportShutdown,
         Quic!CallbackForgets
<1>2. CASE \/ Quic!CallbackStartsSender(h) \/ Quic!CallbackJoined(h) \/ Quic!CallbackCloses(h)
  BY <1>2, NothingMoves
     DEF QuicInv, QuicType, Quic!channelVars, channelVars, Quic!CallbackStartsSender,
         Quic!CallbackJoined, Quic!CallbackCloses, Quic!Woken
<1>3. CASE Quic!CallbackComplete(h)
  <2>1. /\ inFlight' = [m \in 1..MaxSend |-> IF inFlight[m] = h THEN 0 ELSE inFlight[m]]
        /\ UNCHANGED <<connection, sender, taken, outbound, pushing, inbound, channelVars>>
    BY <1>3 DEF Quic!CallbackComplete, Quic!channelVars, channelVars
  <2>2. ChannelType' /\ QuicType'
    BY <2>1 DEF QuicInv, ChannelType, QuicType, channelVars
  <2>3. QuicSending'
    BY <2>1 DEF QuicInv, QuicType, QuicSending, Queued, Held, channelVars
  <2>4. QuicReceiving'
    BY <2>1 DEF QuicInv, QuicReceiving, channelVars
  <2> QED
    BY <2>1, <2>2, <2>3, <2>4 DEF QuicInv, ChannelStep
<1> QED
  BY <1>1, <1>2, <1>3 DEF Quic!CallbackStep

\* sendMessage: the message pushed is a new one.
LEMMA QuicSendMessage ==
    ASSUME QuicInv, Quic!SendMessage \/ Quic!Push
    PROVE  QuicInv' /\ ChannelStep
<1>1. CASE Quic!SendMessage
  <2>1. /\ sent + pushing < MaxSend
        /\ pushing' = pushing + 1
        /\ UNCHANGED <<connection, sender, taken, outbound, inFlight, inbound, channelVars>>
    BY <1>1 DEF Quic!SendMessage, Quic!channelVars, channelVars
  <2>2. ChannelType' /\ QuicType'
    BY <2>1, BoundsAssumption DEF QuicInv, ChannelType, QuicType, channelVars
  <2>3. QuicSending'
    BY <2>1 DEF QuicInv, QuicSending, Queued, Held, channelVars
  <2>4. QuicReceiving'
    BY <2>1 DEF QuicInv, QuicReceiving, channelVars
  <2> QED
    BY <2>1, <2>2, <2>3, <2>4 DEF QuicInv, ChannelStep
<1>2. CASE Quic!Push
  <2>1. /\ pushing > 0
        /\ pushing' = pushing - 1
        /\ sent' = sent + 1
        /\ outbound' = Append(outbound, sent + 1)
        /\ UNCHANGED <<connection, taken, inFlight, inbound, delivered, answered, received>>
    BY <1>2 DEF Quic!Push
  <2>2. /\ sender' \in [Quic!HandleIds -> {"none", "done", "top", "lock", "blocking", "asleep",
                                            "ready", "send"}]
        /\ \A h \in Quic!HandleIds : sender'[h] = "send" => sender[h] = "send"
    BY <1>2 DEF Quic!Push, Quic!NotifyOne, QuicInv, QuicType
  <2>3. sent + 1 \in 1..MaxSend /\ sent' + pushing' = sent + pushing
    BY <2>1, BoundsAssumption DEF QuicInv, ChannelType, QuicType
  <2>4. /\ outbound' \in Seq(1..MaxSend)
        /\ Len(outbound') = Len(outbound) + 1
        /\ \A i \in 1..Len(outbound) : outbound'[i] = outbound[i]
        /\ outbound'[Len(outbound) + 1] = sent + 1
        /\ Len(outbound) \in Nat
        /\ \A i \in 1..Len(outbound) : outbound[i] \in 1..MaxSend
    <3>1. outbound \in Seq(1..MaxSend)
      BY DEF QuicInv, QuicType
    <3> DEFINE q == Append(outbound, sent + 1)
    <3>2. /\ q \in Seq(1..MaxSend)
          /\ Len(outbound) \in Nat
          /\ Len(q) = Len(outbound) + 1
          /\ \A i \in 1..Len(outbound) : outbound[i] \in 1..MaxSend /\ q[i] = outbound[i]
          /\ q[Len(outbound) + 1] = sent + 1
      BY PushProperties, <2>3, <3>1, ZenonT(30)
    <3> QED
      BY <2>1, <3>2
  <2>5. ChannelType' /\ QuicType'
    <3>1. ChannelType'
      BY <2>1, <2>3 DEF QuicInv, ChannelType
    <3>2. pushing' \in Nat /\ sent' + pushing' <= MaxSend
      BY <2>1, <2>3 DEF QuicInv, ChannelType, QuicType
    <3> QED
      BY <2>1, <2>2, <2>4, <3>1, <3>2 DEF QuicInv, QuicType
  <2>6. \A m \in 1..MaxSend : Queued(m)' <=> Queued(m) \/ m = sent + 1
    BY <2>4 DEF Queued
  <2>7. \A m \in 1..MaxSend : Held(m)' <=> Held(m)
    BY <2>1 DEF Held
  <2>8. \A i \in 1..Len(outbound) : outbound[i] <= sent
    BY <2>4 DEF QuicInv, QuicSending, Queued
  <2>9. \A i, j \in 1..Len(outbound') : outbound'[i] = outbound'[j] => i = j
    BY <2>3, <2>4, <2>8, SMTT(30) DEF QuicInv, QuicSending, ChannelType
  <2>10. QuicSending'
    BY <2>1, <2>2, <2>3, <2>6, <2>7, <2>9 DEF QuicInv, ChannelType, QuicType, QuicSending
  <2>11. QuicReceiving'
    BY <2>1 DEF QuicInv, QuicReceiving
  <2> QED
    BY <2>1, <2>5, <2>10, <2>11 DEF QuicInv, ChannelStep, Interface!Accept
<1> QED
  BY <1>1, <1>2

\* senderLoop: a message leaves the queue for one loop, and goes to one connection or is lost.
LEMMA QuicSenderStep ==
    ASSUME QuicInv, NEW h \in Quic!HandleIds, Quic!SenderStep(h)
    PROVE  QuicInv' /\ ChannelStep
<1>1. CASE \/ Quic!SenderTop(h) \/ Quic!SenderWaits(h) \/ Quic!SenderSleeps(h)
           \/ Quic!SenderLeaves(h)
  BY <1>1, NothingMoves
     DEF QuicInv, QuicType, Quic!channelVars, channelVars, Quic!SenderTop, Quic!SenderWaits,
         Quic!SenderSleeps, Quic!SenderLeaves, Quic!Moves
<1>2. CASE Quic!SenderTakes(h)
  <2>1. CASE outbound = <<>>
    BY <1>2, <2>1, NothingMoves
       DEF QuicInv, QuicType, Quic!channelVars, channelVars, Quic!SenderTakes
  <2>2. CASE outbound # <<>>
    <3>1. /\ taken' = [taken EXCEPT ![h] = Head(outbound)]
          /\ outbound' = Tail(outbound)
          /\ sender' = [sender EXCEPT ![h] = "send"]
          /\ UNCHANGED <<connection, pushing, inFlight, inbound, channelVars>>
      BY <1>2, <2>2 DEF Quic!SenderTakes, Quic!Rest, Quic!channelVars, channelVars
    <3>2. /\ Head(outbound) = outbound[1]
          /\ outbound' \in Seq(1..MaxSend)
          /\ Len(outbound) \in Nat \ {0}
          /\ Len(outbound') = Len(outbound) - 1
          /\ \A i \in 1..Len(outbound') : outbound'[i] = outbound[i + 1]
          /\ \A i \in 1..Len(outbound) : outbound[i] \in 1..MaxSend
      BY <2>2, <3>1, PopProperties DEF QuicInv, QuicType
    <3>3. ChannelType' /\ QuicType'
      <4>1. ChannelType'
        BY <3>1 DEF QuicInv, ChannelType, channelVars
      <4>2. taken' \in [Quic!HandleIds -> 0..MaxSend]
        BY <3>1, <3>2 DEF QuicInv, QuicType
      <4> QED
        BY <3>1, <3>2, <4>1, <4>2 DEF QuicInv, QuicType, channelVars
    <3>4. \A m \in 1..MaxSend : Queued(m)' <=> Queued(m) /\ m # outbound[1]
      <4>1. \A m \in 1..MaxSend : Queued(m)' => Queued(m) /\ m # outbound[1]
        BY <3>2 DEF Queued, QuicInv, QuicSending
      <4>2. ASSUME NEW m \in 1..MaxSend, Queued(m), m # outbound[1] PROVE Queued(m)'
        <5>1. PICK i \in 1..Len(outbound) : outbound[i] = m
          BY <4>2 DEF Queued
        <5>2. i - 1 \in 1..Len(outbound') /\ outbound'[i - 1] = m
          BY <3>2, <4>2, <5>1
        <5> QED
          BY <5>2 DEF Queued
      <4> QED
        BY <4>1, <4>2
    <3>5. \A m \in 1..MaxSend : Held(m)' => Held(m) \/ m = outbound[1]
      BY <3>1, <3>2 DEF Held, QuicInv, QuicType
    <3>6. Queued(outbound[1]) /\ outbound[1] \in 1..MaxSend
      BY <3>2 DEF Queued
    <3>7. \A i, j \in 1..Len(outbound') : outbound'[i] = outbound'[j] => i = j
      BY <3>2 DEF QuicInv, QuicSending
    <3>8. \A g \in Quic!HandleIds : taken'[g] # 0 => taken'[g] = IF g = h THEN outbound[1] ELSE taken[g]
      BY <3>1, <3>2 DEF QuicInv, QuicType
    <3>9. \A g \in Quic!HandleIds : taken[g] # outbound[1]
      BY <3>6 DEF QuicInv, QuicSending, Held
    <3>10. \A f, g \in Quic!HandleIds : taken'[f] # 0 /\ taken'[f] = taken'[g] => f = g
      BY <3>8, <3>9 DEF QuicInv, QuicSending
    <3>11. \A g \in Quic!HandleIds : sender'[g] = "send" => taken'[g] # 0
      BY <3>1, <3>2, <3>6 DEF QuicInv, QuicSending, QuicType
    <3>12. \A m \in 1..MaxSend :
             /\ Queued(m)' \/ Held(m)' \/ inFlight'[m] # 0 \/ delivered'[m] # 0 => m <= sent'
             /\ Queued(m)' => ~Held(m)'
             /\ Queued(m)' \/ Held(m)' => inFlight'[m] = 0
             /\ Queued(m)' \/ Held(m)' \/ inFlight'[m] # 0 => delivered'[m] = 0
      BY <3>1, <3>4, <3>5, <3>6 DEF QuicInv, QuicSending, channelVars
    <3>13. QuicSending'
      BY <3>7, <3>10, <3>11, <3>12 DEF QuicSending
    <3>14. QuicReceiving'
      BY <3>1 DEF QuicInv, QuicReceiving, channelVars
    <3> QED
      BY <3>1, <3>3, <3>13, <3>14 DEF QuicInv, ChannelStep
  <2> QED
    BY <2>1, <2>2
<1>3. CASE Quic!SendViaQuicStream(h) \/ Quic!SendFails(h)
  <2>1. /\ sender[h] = "send"
        /\ inFlight' \in {inFlight, [inFlight EXCEPT ![taken[h]] = connection]}
        /\ taken' = [taken EXCEPT ![h] = 0]
        /\ sender' = [sender EXCEPT ![h] = "top"]
        /\ UNCHANGED <<connection, outbound, pushing, inbound, channelVars>>
    BY <1>3 DEF Quic!SendViaQuicStream, Quic!SendFails, Quic!channelVars, channelVars
  <2>2. taken[h] \in 1..MaxSend /\ Held(taken[h])
    BY <2>1, BoundsAssumption DEF QuicInv, QuicType, QuicSending, Held
  <2>3. ChannelType' /\ QuicType'
    <3>1. ChannelType'
      BY <2>1 DEF QuicInv, ChannelType, channelVars
    <3>2. taken' \in [Quic!HandleIds -> 0..MaxSend]
      BY <2>1, BoundsAssumption DEF QuicInv, QuicType
    <3>3. inFlight' \in [1..MaxSend -> {0} \union Quic!HandleIds]
      BY <2>1, <2>2 DEF QuicInv, QuicType
    <3> QED
      BY <2>1, <3>1, <3>2, <3>3 DEF QuicInv, QuicType, channelVars
  <2>4. \A m \in 1..MaxSend : Queued(m)' <=> Queued(m)
    BY <2>1 DEF Queued
  <2>5. \A m \in 1..MaxSend : Held(m)' <=> Held(m) /\ m # taken[h]
    BY <2>1, <2>2 DEF Held, QuicInv, QuicType, QuicSending
  <2>6. \A m \in 1..MaxSend : inFlight'[m] # 0 => inFlight[m] # 0 \/ m = taken[h]
    BY <2>1, <2>2 DEF QuicInv, QuicType
  <2>7. \A m \in 1..MaxSend :
             /\ Queued(m)' \/ Held(m)' \/ inFlight'[m] # 0 \/ delivered'[m] # 0 => m <= sent'
             /\ Queued(m)' => ~Held(m)'
             /\ Queued(m)' \/ Held(m)' => inFlight'[m] = 0
             /\ Queued(m)' \/ Held(m)' \/ inFlight'[m] # 0 => delivered'[m] = 0
    BY <2>1, <2>2, <2>4, <2>5, <2>6 DEF QuicInv, QuicSending, channelVars
  <2>8. QuicSending'
    BY <2>1, <2>2, <2>7 DEF QuicInv, QuicType, QuicSending
  <2>9. QuicReceiving'
    BY <2>1 DEF QuicInv, QuicReceiving, channelVars
  <2> QED
    BY <2>1, <2>3, <2>8, <2>9 DEF QuicInv, ChannelStep
<1> QED
  BY <1>1, <1>2, <1>3 DEF Quic!SenderStep

\* A message arrives at the server: it was under way, so it had not arrived before.
LEMMA QuicArrives ==
    ASSUME QuicInv, NEW m \in 1..MaxSend, Quic!Arrives(m)
    PROVE  QuicInv' /\ ChannelStep
<1>1. /\ inFlight[m] # 0
      /\ inFlight' = [inFlight EXCEPT ![m] = 0]
      /\ delivered' = [delivered EXCEPT ![m] = @ + 1]
      /\ UNCHANGED <<connection, sender, taken, outbound, pushing, inbound, sent, answered,
                     received>>
  BY DEF Quic!Arrives
<1>2. ChannelType' /\ QuicType'
  BY <1>1, BoundsAssumption, SMTT(30) DEF QuicInv, ChannelType, QuicType
<1>3. \A n \in 1..MaxSend : (Queued(n)' <=> Queued(n)) /\ (Held(n)' <=> Held(n))
  BY <1>1 DEF Queued, Held
<1>4. QuicSending'
  BY <1>1, <1>3 DEF QuicInv, ChannelType, QuicType, QuicSending
<1>5. QuicReceiving'
  BY <1>1 DEF QuicInv, QuicReceiving
<1>6. Interface!Deliver(m)
  BY <1>1 DEF QuicInv, QuicSending, Interface!Deliver, Interface!MayArrive
<1> QED
  BY <1>2, <1>4, <1>5, <1>6 DEF QuicInv, ChannelStep

\* A message of the server is put into the queue once, or is lost; receiveMessage takes it.
LEMMA QuicReceives ==
    ASSUME QuicInv,
           Quic!ReceiveMessage \/ \E h \in Quic!HandleIds : Quic!StreamReceives(h)
    PROVE  QuicInv' /\ ChannelStep
<1>1. CASE \E h \in Quic!HandleIds : Quic!StreamReceives(h)
  <2>1. /\ answered < MaxAnswer
        /\ answered' = answered + 1
        /\ inbound' \in {Append(inbound, answered + 1), inbound}
        /\ UNCHANGED <<connection, sender, taken, outbound, pushing, inFlight, sent, delivered,
                       received>>
    BY <1>1 DEF Quic!StreamReceives, Quic!sendVars
  <2>2. answered + 1 \in 1..MaxAnswer
    BY <2>1, BoundsAssumption DEF QuicInv, ChannelType
  <2>3. ChannelType'
    BY <2>1, <2>2 DEF QuicInv, ChannelType
  <2>4. /\ inbound' \in Seq(1..MaxAnswer)
        /\ Len(inbound) \in Nat
        /\ Len(inbound') \in {Len(inbound), Len(inbound) + 1}
        /\ \A i \in 1..Len(inbound) : inbound[i] \in 1..MaxAnswer /\ inbound'[i] = inbound[i]
        /\ Len(inbound') = Len(inbound) + 1 => inbound'[Len(inbound) + 1] = answered + 1
    <3> DEFINE q == Append(inbound, answered + 1)
    <3>1. inbound \in Seq(1..MaxAnswer)
      BY DEF QuicInv, QuicType
    <3>2. /\ q \in Seq(1..MaxAnswer)
          /\ Len(inbound) \in Nat
          /\ Len(q) = Len(inbound) + 1
          /\ \A i \in 1..Len(inbound) : inbound[i] \in 1..MaxAnswer /\ q[i] = inbound[i]
          /\ q[Len(inbound) + 1] = answered + 1
      BY PushProperties, <2>2, <3>1, ZenonT(30)
    <3>3. CASE inbound' = inbound
      BY <3>1, <3>2, <3>3
    <3>4. CASE inbound' = q
      BY <3>2, <3>4
    <3> QED
      BY <2>1, <3>3, <3>4
  <2>5. QuicType'
    BY <2>1, <2>4 DEF QuicInv, QuicType
  <2>6. QuicSending'
    BY <2>1 DEF QuicInv, QuicSending, Queued, Held
  <2>7. QuicReceiving'
    <3>1. \A i \in 1..Len(inbound) : inbound[i] <= answered /\ received[inbound[i]] = 0
      BY DEF QuicInv, QuicReceiving
    <3>2. received[answered + 1] = 0 /\ answered \in Nat
      BY <2>2 DEF QuicInv, QuicReceiving, ChannelType
    <3>3. \A i, j \in 1..Len(inbound') : inbound'[i] = inbound'[j] => i = j
      BY <2>4, <3>1, <3>2 DEF QuicInv, QuicReceiving
    <3>4. \A i \in 1..Len(inbound') : inbound'[i] <= answered + 1 /\ received[inbound'[i]] = 0
      BY <2>4, <3>1, <3>2
    <3>5. \A a \in 1..MaxAnswer : received[a] # 0 => a <= answered + 1
      BY <3>2 DEF QuicInv, QuicReceiving
    <3> QED
      BY <2>1, <3>3, <3>4, <3>5 DEF QuicReceiving
  <2> QED
    BY <2>1, <2>3, <2>5, <2>6, <2>7 DEF QuicInv, ChannelStep, Interface!Answer
<1>2. CASE Quic!ReceiveMessage
  <2>1. /\ inbound # <<>>
        /\ received' = [received EXCEPT ![Head(inbound)] = @ + 1]
        /\ inbound' = Tail(inbound)
        /\ UNCHANGED <<connection, sender, taken, outbound, pushing, inFlight, sent, delivered,
                       answered>>
    BY <1>2 DEF Quic!ReceiveMessage, Quic!sendVars
  <2>2. /\ Head(inbound) = inbound[1]
        /\ inbound' \in Seq(1..MaxAnswer)
        /\ Len(inbound) \in Nat \ {0}
        /\ Len(inbound') = Len(inbound) - 1
        /\ \A i \in 1..Len(inbound') : inbound'[i] = inbound[i + 1]
        /\ \A i \in 1..Len(inbound) : inbound[i] \in 1..MaxAnswer
    BY <2>1, PopProperties DEF QuicInv, QuicType
  <2>3. inbound[1] \in 1..MaxAnswer /\ inbound[1] <= answered /\ received[inbound[1]] = 0
    BY <2>2 DEF QuicInv, QuicReceiving
  <2>4. ChannelType'
    BY <2>1, <2>2, <2>3 DEF QuicInv, ChannelType
  <2>5. QuicType'
    BY <2>1, <2>2 DEF QuicInv, QuicType
  <2>6. QuicSending'
    BY <2>1 DEF QuicInv, QuicSending, Queued, Held
  <2>7. QuicReceiving'
    BY <2>1, <2>2, <2>3 DEF QuicInv, ChannelType, QuicReceiving
  <2>8. Interface!Receive(inbound[1])
    BY <2>1, <2>2, <2>3 DEF Interface!Receive, Interface!MayArrive
  <2> QED
    BY <2>3, <2>4, <2>5, <2>6, <2>7, <2>8 DEF QuicInv, ChannelStep
<1> QED
  BY <1>1, <1>2

\* Every step of the QUIC channel.
LEMMA QuicImplements ==
    ASSUME QuicInv, Quic!QuicNext \/ Quic!Destroy
    PROVE  QuicInv' /\ ChannelStep
BY QuicConnects, QuicCallback, QuicSendMessage, QuicSenderStep, QuicArrives, QuicReceives
   DEF Quic!QuicNext

-----------------------------------------------------------------------------
(* MQTT: only what was handed over is published, only what was answered is consumed *)

MqttInv ==
    /\ ChannelType
    /\ publishing \in Nat
    /\ sent + publishing <= MaxSend
    /\ published \subseteq 1..sent
    /\ consumed \in Seq(0..MaxAnswer)
    /\ \A i \in 1..Len(consumed) : consumed[i] <= answered

\* No client exists at the start.
LEMMA InitMqttInv == Init => MqttInv
<1> SUFFICES ASSUME Init PROVE MqttInv
  OBVIOUS
<1>1. consumed \in Seq(0..MaxAnswer) /\ Len(consumed) = 0
  BY EmptySeq DEF Init, Mqtt!MqttInit
<1> QED
  BY <1>1, BoundsAssumption DEF Init, Mqtt!MqttInit, MqttInv, ChannelType

\* Every step of the MQTT channel.
LEMMA MqttImplements ==
    ASSUME MqttInv, Protocol = "MQTT", Mqtt!MqttNext \/ Mqtt!CloseConnection
    PROVE  MqttInv' /\ ChannelStep
<1> USE DEF MqttInv, ChannelType
<1>0. consumed \in Seq(0..MaxAnswer)
  OBVIOUS
<1>1. CASE \/ Mqtt!Connect \/ Mqtt!ConnectionLost \/ Mqtt!AutomaticReconnect
           \/ Mqtt!ConsumeServerDisconnectNotification
  BY <1>1 DEF Mqtt!Connect, Mqtt!ConnectionLost, Mqtt!AutomaticReconnect,
              Mqtt!ConsumeServerDisconnectNotification, ChannelStep, channelVars
<1>2. CASE Mqtt!InitializeConnection \/ Mqtt!CloseConnection
  <2>1. /\ consumed' = <<>>
        /\ published' = {}
        /\ UNCHANGED <<publishing, channelVars>>
    BY <1>2 DEF Mqtt!InitializeConnection, Mqtt!CloseConnection, Mqtt!ClientReset, channelVars
  <2>2. consumed' \in Seq(0..MaxAnswer) /\ Len(consumed') = 0
    BY <2>1, EmptySeq
  <2> QED
    BY <2>1, <2>2 DEF ChannelStep, channelVars
<1>3. CASE Mqtt!SendMessage
  BY <1>3, BoundsAssumption DEF Mqtt!SendMessage, ChannelStep, channelVars
<1>4. CASE Mqtt!Publish
  <2>1. CASE UNCHANGED <<sent, published>>
    <3>1. publishing' \in Nat /\ sent' + publishing' <= MaxSend
      BY <1>4, <2>1, BoundsAssumption DEF Mqtt!Publish
    <3> QED
      BY <1>4, <2>1, <3>1 DEF Mqtt!Publish, ChannelStep, channelVars
  <2>2. CASE sent' = sent + 1 /\ published' = published \cup {sent + 1}
    <3>1. published' \subseteq 1..sent'
      BY <2>2
    <3>2. publishing' \in Nat /\ sent' \in 0..MaxSend /\ sent' + publishing' <= MaxSend
      BY <1>4, <2>2, BoundsAssumption DEF Mqtt!Publish
    <3> QED
      BY <1>4, <2>2, <3>1, <3>2 DEF Mqtt!Publish, ChannelStep, Interface!Accept
  <2> QED
    BY <1>4, <2>1, <2>2 DEF Mqtt!Publish
<1>5. CASE \E m \in 1..MaxSend : Mqtt!Arrives(m)
  <2>1. PICK m \in 1..MaxSend : Mqtt!Arrives(m)
    BY <1>5
  <2>2. Interface!Deliver(m)
    BY <2>1 DEF Mqtt!Arrives, Interface!Deliver, Interface!MayArrive
  <2> QED
    BY <2>1, <2>2 DEF Mqtt!Arrives, ChannelStep
<1>6. CASE Mqtt!BrokerDelivers
  <2>1. PICK copies \in 0..Mqtt!MaxCopies :
                 consumed' = consumed \o [i \in 1..copies |-> answered + 1]
    <3>1. (IF subscribed THEN 0..2 ELSE {0}) \subseteq 0..2
      OBVIOUS
    <3> QED
      BY <1>6, <3>1 DEF Mqtt!BrokerDelivers, Mqtt!MaxCopies
  <2> DEFINE again == [i \in 1..copies |-> answered + 1]
  <2>2. /\ answered < MaxAnswer
        /\ answered' = answered + 1
        /\ UNCHANGED <<publishing, published, sent, delivered, received>>
    BY <1>6 DEF Mqtt!BrokerDelivers
  <2>3. copies \in Nat /\ answered + 1 \in 0..MaxAnswer
    BY <2>2, BoundsAssumption DEF Mqtt!MaxCopies
  <2>4. again \in Seq(0..MaxAnswer) /\ Len(again) = copies
    BY <2>3
  <2>5. /\ consumed' \in Seq(0..MaxAnswer)
        /\ Len(consumed') = Len(consumed) + Len(again)
        /\ \A i \in 1..Len(consumed') :
              consumed'[i] = IF i <= Len(consumed) THEN consumed[i] ELSE again[i - Len(consumed)]
    <3> HIDE DEF again
    <3> QED
      BY <2>1, <2>4, ConcatProperties DEF again
  <2>6. \A i \in 1..Len(consumed') : consumed'[i] <= answered + 1
    <3>1. Len(consumed) \in Nat /\ \A i \in 1..Len(consumed) : consumed[i] \in 0..MaxAnswer
      BY LenProperties, ElementOfSeq
    <3> QED
      BY <2>3, <2>4, <2>5, <3>1, SMTT(30)
  <2> QED
    BY <2>2, <2>3, <2>5, <2>6 DEF ChannelStep, Interface!Answer
<1>7. CASE Mqtt!BrokerNotifies
  <2>1. /\ consumed' = Append(consumed, 0)
        /\ UNCHANGED <<publishing, published, channelVars>>
    BY <1>7 DEF Mqtt!BrokerNotifies, Mqtt!Notification, channelVars
  <2> DEFINE q == Append(consumed, 0)
  <2>2. 0 \in 0..MaxAnswer
    BY BoundsAssumption
  <2>3. /\ q \in Seq(0..MaxAnswer)
        /\ Len(consumed) \in Nat
        /\ Len(q) = Len(consumed) + 1
        /\ \A i \in 1..Len(consumed) : consumed[i] \in 0..MaxAnswer /\ q[i] = consumed[i]
        /\ q[Len(consumed) + 1] = 0
    <3> DEFINE S == 0..MaxAnswer
    <3>1. consumed \in Seq(S) /\ 0 \in S
      BY <1>0, <2>2
    <3> HIDE DEF S
    <3>2. /\ q \in Seq(S)
          /\ Len(consumed) \in Nat
          /\ Len(q) = Len(consumed) + 1
          /\ \A i \in 1..Len(consumed) : consumed[i] \in S /\ q[i] = consumed[i]
          /\ q[Len(consumed) + 1] = 0
      BY <3>1, PushProperties
    <3> QED
      BY <3>2 DEF S
  <2>4. \A i \in 1..Len(consumed') : consumed'[i] <= answered
    BY <2>1, <2>3
  <2> QED
    BY <2>1, <2>3, <2>4 DEF ChannelStep, channelVars
<1>8. CASE Mqtt!ReceiveMessage
  <2>1. /\ consumed # <<>>
        /\ consumed' = Tail(consumed)
        /\ \/ UNCHANGED received
           \/ /\ Head(consumed) # 0
              /\ received' = [received EXCEPT ![Head(consumed)] = @ + 1]
        /\ UNCHANGED <<publishing, published, sent, delivered, answered>>
    BY <1>8 DEF Mqtt!ReceiveMessage, Mqtt!Notification
  <2>2. /\ Head(consumed) = consumed[1]
        /\ consumed' \in Seq(0..MaxAnswer)
        /\ Len(consumed) \in Nat \ {0}
        /\ Len(consumed') = Len(consumed) - 1
        /\ \A i \in 1..Len(consumed') : consumed'[i] = consumed[i + 1]
        /\ \A i \in 1..Len(consumed) : consumed[i] \in 0..MaxAnswer
    <3> DEFINE S == 0..MaxAnswer
    <3>1. consumed \in Seq(S)
      BY <1>0
    <3> HIDE DEF S
    <3>2. /\ Head(consumed) = consumed[1]
          /\ Tail(consumed) \in Seq(S)
          /\ Len(consumed) \in Nat \ {0}
          /\ Len(Tail(consumed)) = Len(consumed) - 1
          /\ \A i \in 1..Len(Tail(consumed)) : Tail(consumed)[i] = consumed[i + 1]
          /\ \A i \in 1..Len(consumed) : consumed[i] \in S
      BY <2>1, <3>1, PopProperties
    <3> QED
      BY <2>1, <3>2 DEF S
  <2>3. ASSUME NEW i \in 1..Len(consumed') PROVE consumed'[i] <= answered
    <3>1. i + 1 \in 1..Len(consumed)
      BY <2>2
    <3> QED
      BY <2>2, <3>1
  <2>4. CASE UNCHANGED received
    BY <2>1, <2>2, <2>3, <2>4 DEF ChannelStep, channelVars
  <2>5. CASE Head(consumed) # 0 /\ received' = [received EXCEPT ![Head(consumed)] = @ + 1]
    <3>1. consumed[1] \in 1..MaxAnswer /\ consumed[1] <= answered
      BY <2>2, <2>5
    <3>2. received' \in [1..MaxAnswer -> Nat]
      BY <2>2, <2>5, <3>1
    <3>3. Interface!Receive(consumed[1])
      BY <2>1, <2>2, <2>5, <3>1 DEF Interface!Receive, Interface!MayArrive
    <3> QED
      BY <2>1, <2>2, <2>3, <3>1, <3>2, <3>3 DEF ChannelStep
  <2> QED
    BY <2>1, <2>4, <2>5
<1> QED
  BY <1>1, <1>2, <1>3, <1>4, <1>5, <1>6, <1>7, <1>8 DEF Mqtt!MqttNext

-----------------------------------------------------------------------------
(* The process *)

ChannelInv ==
    /\ Protocol = "QUIC" => QuicInv
    /\ Protocol = "MQTT" => MqttInv

\* Every step of the process is a step of the interface or none.  Before the channel exists,
\* after it is gone, and while main does something else, no message moves.
LEMMA NextImplements == ChannelInv /\ [Next]_vars => ChannelInv' /\ ChannelStep
<1> SUFFICES ASSUME ChannelInv, [Next]_vars PROVE ChannelInv' /\ ChannelStep
  OBVIOUS
<1>1. Protocol' = Protocol
  BY ProtocolFixed
<1>2. CASE UNCHANGED <<quicOwn, mqttOwn, channelVars>>
  <2>1. QuicInv => QuicInv'
    BY <1>2 DEF QuicInv, ChannelType, QuicType, QuicSending, QuicReceiving, Queued, Held,
                quicOwn, channelVars
  <2>2. MqttInv => MqttInv'
    BY <1>2 DEF MqttInv, ChannelType, mqttOwn, channelVars
  <2> QED
    BY <1>1, <1>2, <2>1, <2>2 DEF ChannelInv, ChannelStep
<1>3. CASE QuicStep \/ (Protocol = "QUIC" /\ Quic!Destroy)
  BY <1>1, <1>3, QuicImplements DEF QuicStep, QuicFrame, ChannelInv
<1>4. CASE MqttStep \/ (Protocol = "MQTT" /\ Mqtt!CloseConnection)
  BY <1>1, <1>4, MqttImplements DEF MqttStep, ChannelInv
<1>5. CASE Protocol = "DUMMY" /\ (Dummy!DummyNext \/ Dummy!CloseConnection)
  BY <1>1, <1>5
     DEF Dummy!DummyNext, Dummy!InitializeConnection, Dummy!SendMessage, Dummy!CloseConnection,
         ChannelInv, ChannelStep, channelVars, Interface!Accept
<1> QED
  BY <1>2, <1>3, <1>4, <1>5 DEF Next, vars, DummyStep, StartupStep, Joins, Destroys, CleansUp

\* Nothing arrives that was not handed over before, in either direction, whatever the
\* protocol, and over QUIC and the dummy channel nothing arrives twice
\* (ICommunicationChannel and its three implementations).
THEOREM ChannelsImplementInterface == Spec => ImplementsChannel
<1>1. Init => ChannelInv
  BY InitQuicInv, InitMqttInv DEF ChannelInv
<1>2. Init => Interface!ChannelInit
  BY DEF Init, Interface!ChannelInit
<1>3. ChannelInv /\ [Next]_vars =>
          [Interface!ChannelNext]_<<Protocol = "MQTT", sent, delivered, answered, received>>
  BY NextImplements, ProtocolFixed
     DEF ChannelStep, channelVars, Interface!ChannelNext
<1>4. ChannelInv /\ [Next]_vars => ChannelInv'
  BY NextImplements
<1> QED
  BY <1>1, <1>2, <1>3, <1>4, PTL DEF Spec, ImplementsChannel, Interface!ChannelSpec
=============================================================================
