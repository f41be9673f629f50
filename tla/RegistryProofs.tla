--------------------------- MODULE RegistryProofs ---------------------------
(***************************************************************************)
(* Proof that the internal server implements the registry of devices       *)
(* (module DeviceRegistry), and what follows from it for the module        *)
(* handler, for any number of connections, devices and priorities.         *)
(***************************************************************************)
EXTENDS InternalServerProofs, QueueLemmas

-----------------------------------------------------------------------------
(* The queue as the registry sees it *)

Events == [kind : {"connect", "status", "disconnect"}, id : Ids]

\* Removing the tags commutes with push and pop.
LEMMA UntaggedQueue ==
    ASSUME NEW q \in Seq(ClientEntries)
    PROVE  /\ Untagged(q) \in Seq(Events)
           /\ Len(Untagged(q)) = Len(q)
           /\ \A i \in 1..Len(q) : Untagged(q)[i] = [kind |-> q[i].kind, id |-> q[i].id]
<1>1. Len(q) \in Nat /\ \A i \in 1..Len(q) : q[i] \in ClientEntries
  BY LenProperties, ElementOfSeq
<1>2. \A i \in 1..Len(q) : [kind |-> q[i].kind, id |-> q[i].id] \in Events
  BY <1>1 DEF ClientEntries, Events
<1> QED
  BY <1>1, <1>2 DEF Untagged

\* A pushed entry appears as an event at the end.
LEMMA UntaggedPush ==
    ASSUME NEW q \in Seq(ClientEntries), NEW e \in ClientEntries
    PROVE  Untagged(Append(q, e)) = Append(Untagged(q), [kind |-> e.kind, id |-> e.id])
<1> DEFINE u == Untagged(q)
           f == [kind |-> e.kind, id |-> e.id]
           v == Untagged(Append(q, e))
<1>1. f \in Events
  BY DEF ClientEntries, Events
<1>2. /\ Append(q, e) \in Seq(ClientEntries)
      /\ Len(q) \in Nat
      /\ Len(Append(q, e)) = Len(q) + 1
      /\ \A i \in 1..Len(q) : Append(q, e)[i] = q[i]
      /\ Append(q, e)[Len(q) + 1] = e
  BY PushProperties
<1>3. /\ u \in Seq(Events)
      /\ Len(u) = Len(q)
      /\ \A i \in 1..Len(q) : u[i] = [kind |-> q[i].kind, id |-> q[i].id]
  BY UntaggedQueue
<1>4. /\ v \in Seq(Events)
      /\ Len(v) = Len(q) + 1
      /\ \A i \in 1..(Len(q) + 1) : v[i] = [kind |-> Append(q, e)[i].kind, id |-> Append(q, e)[i].id]
  BY <1>2, UntaggedQueue
<1> HIDE DEF u, f, v
<1>5. /\ Append(u, f) \in Seq(Events)
      /\ Len(Append(u, f)) = Len(u) + 1
      /\ \A i \in 1..Len(u) : Append(u, f)[i] = u[i]
      /\ Append(u, f)[Len(u) + 1] = f
  BY <1>1, <1>3, PushProperties
<1>6. \A i \in 1..Len(v) : v[i] = Append(u, f)[i]
  BY <1>2, <1>3, <1>4, <1>5 DEF f
<1>7. v = Append(u, f)
  BY <1>3, <1>4, <1>5, <1>6, SeqEqual
<1> QED
  BY <1>7 DEF u, v, f

\* A taken entry is a taken event.
LEMMA UntaggedPop ==
    ASSUME NEW q \in Seq(ClientEntries), q # <<>>
    PROVE  Untagged(q) # <<>> /\ Untagged(Tail(q)) = Tail(Untagged(q))
<1> DEFINE u == Untagged(q)
           v == Untagged(Tail(q))
<1>1. /\ Tail(q) \in Seq(ClientEntries)
      /\ Len(q) \in Nat \ {0}
      /\ Len(Tail(q)) = Len(q) - 1
      /\ \A i \in 1..Len(Tail(q)) : Tail(q)[i] = q[i + 1]
  BY PopProperties
<1>2. /\ u \in Seq(Events)
      /\ Len(u) = Len(q)
      /\ \A i \in 1..Len(q) : u[i] = [kind |-> q[i].kind, id |-> q[i].id]
  BY UntaggedQueue
<1>3. /\ v \in Seq(Events)
      /\ Len(v) = Len(Tail(q))
      /\ \A i \in 1..Len(Tail(q)) : v[i] = [kind |-> Tail(q)[i].kind, id |-> Tail(q)[i].id]
  BY <1>1, UntaggedQueue
<1> HIDE DEF u, v
<1>4. u # <<>>
  BY <1>1, <1>2, EmptySeq
<1>5. /\ Tail(u) \in Seq(Events)
      /\ Len(Tail(u)) = Len(u) - 1
      /\ \A i \in 1..Len(Tail(u)) : Tail(u)[i] = u[i + 1]
  BY <1>2, <1>4, PopProperties
<1>6. ASSUME NEW i \in 1..Len(v) PROVE v[i] = Tail(u)[i]
  <2>1. i \in 1..Len(Tail(q)) /\ i \in 1..Len(Tail(u)) /\ i + 1 \in 1..Len(q)
    BY <1>1, <1>2, <1>3, <1>5
  <2> QED
    BY <1>1, <1>2, <1>3, <1>5, <2>1
<1>7. v = Tail(u)
  BY <1>1, <1>2, <1>3, <1>5, <1>6, SeqEqual
<1> QED
  BY <1>4, <1>7 DEF u, v

-----------------------------------------------------------------------------
(* The owners *)

\* OwnerPriority is the priority of the device's only entry.
OwnerFacts ==
    \A d \in Devices :
        /\ \A e \in connectedDevices :
              deviceId[e].dev = d => OwnerPriority(d) = deviceId[e].prio /\ OwnerPriority(d) \in Prios
        /\ (\A e \in connectedDevices : deviceId[e].dev # d) => OwnerPriority(d) = NoPrio

\* findConnection finds the owner.
LEMMA OwnerResult == IndInv => OwnerFacts
<1> SUFFICES ASSUME IndInv PROVE OwnerFacts
  OBVIOUS
<1>1. \A e \in connectedDevices : deviceId[e] \in Ids
  BY DEF IndInv, TypeOK, EntryServed
<1>2. \A e \in connectedDevices : deviceId[e].prio \in Prios
  BY <1>1 DEF Ids
<1> QED
  BY <1>2, FindConnectionResult DEF IndInv, UniqueDevice, OwnerPriority, OwnerFacts

\* The owners change with the entries only.
LEMMA OwnersKept ==
    ASSUME OwnerFacts, OwnerFacts', connectedDevices' = connectedDevices,
           \A e \in connectedDevices : deviceId'[e] = deviceId[e]
    PROVE  Owners' = Owners
<1>1. \A d \in Devices : OwnerPriority(d)' = OwnerPriority(d)
  BY DEF OwnerFacts
<1> QED
  BY <1>1 DEF Owners

\* An erased entry leaves its device without owner.
LEMMA OwnerErased ==
    ASSUME IndInv, OwnerFacts, OwnerFacts', NEW c \in connectedDevices,
           connectedDevices' = connectedDevices \ {c},
           \A e \in connectedDevices \ {c} : deviceId'[e] = deviceId[e]
    PROVE  /\ deviceId[c].dev \in Devices
           /\ OwnerPriority(deviceId[c].dev) = deviceId[c].prio
           /\ deviceId[c].prio \in Prios
           /\ Owners' = [Owners EXCEPT ![deviceId[c].dev] = NoPrio]
<1>1. deviceId[c] \in Ids
  BY DEF IndInv, TypeOK, EntryServed
<1>2. deviceId[c].dev \in Devices /\ deviceId[c].prio \in Prios
  BY <1>1 DEF Ids
<1>3. \A e \in connectedDevices \ {c} : deviceId[e].dev # deviceId[c].dev
  BY DEF IndInv, UniqueDevice
<1> DEFINE dev == deviceId[c].dev
<1>4. dev \in Devices /\ OwnerPriority(dev) = deviceId[c].prio
  BY <1>2 DEF OwnerFacts
<1>5. [d \in Devices |-> OwnerPriority(d)'][dev] = NoPrio
  BY <1>2, <1>3 DEF OwnerFacts
<1>6. ASSUME NEW d \in Devices, d # dev PROVE OwnerPriority(d)' = OwnerPriority(d)
  <2>1. \A e \in connectedDevices' : deviceId'[e].dev = d => e \in connectedDevices /\ deviceId[e].dev = d
    BY <1>6
  <2>2. \A e \in connectedDevices : deviceId[e].dev = d => e \in connectedDevices' /\ deviceId'[e].dev = d
    BY <1>6
  <2> QED
    BY <2>1, <2>2 DEF OwnerFacts
<1>7. Owners' = [Owners EXCEPT ![dev] = NoPrio]
  BY <1>4, <1>5, <1>6 DEF Owners
<1> QED
  BY <1>2, <1>4, <1>7

\* A connection that becomes the only entry of its device is the owner.
LEMMA OwnerAdded ==
    ASSUME IndInv, OwnerFacts, OwnerFacts', NEW c \in Conns, NEW id \in Ids,
           c \notin connectedDevices, deviceId'[c] = id,
           connectedDevices' =
               {e \in connectedDevices : deviceId[e].dev # id.dev} \union {c},
           \A e \in connectedDevices : deviceId'[e] = deviceId[e]
    PROVE  Owners' = [Owners EXCEPT ![id.dev] = id.prio]
<1>1. id.dev \in Devices /\ id.prio \in Prios
  BY DEF Ids
<1>2. OwnerPriority(id.dev)' = id.prio
  BY <1>1 DEF OwnerFacts
<1>3. ASSUME NEW d \in Devices, d # id.dev PROVE OwnerPriority(d)' = OwnerPriority(d)
  <2>1. \A e \in connectedDevices' : deviceId'[e].dev = d => e \in connectedDevices /\ deviceId[e].dev = d
    BY <1>3
  <2>2. \A e \in connectedDevices : deviceId[e].dev = d => e \in connectedDevices' /\ deviceId'[e].dev = d
    BY <1>3
  <2> QED
    BY <2>1, <2>2 DEF OwnerFacts
<1> QED
  BY <1>1, <1>2, <1>3 DEF Owners

-----------------------------------------------------------------------------
(* Each step of the server is a step of the registry, or none *)

\* The step is one of the registry's.
RegistryStep == [Registry!RegistryNext]_<<Owners, PendingEvents>>

\* A step that touches neither entries nor the queue.
LEMMA NothingAnnounced ==
    ASSUME OwnerFacts, OwnerFacts',
           UNCHANGED <<connectedDevices, fromInternal>>,
           \A e \in connectedDevices : deviceId'[e] = deviceId[e]
    PROVE  RegistryStep
BY OwnersKept DEF RegistryStep, PendingEvents

\* removeConnFromMap: an owner goes and is announced, or nothing happens.
LEMMA RemovalAnnounced ==
    ASSUME IndInv, OwnerFacts, OwnerFacts', NEW c \in Conns, RemoveConnFromMap(c),
           \A e \in connectedDevices' : deviceId'[e] = deviceId[e]
    PROVE  RegistryStep
<1> DEFINE e == ErasedEntry(c)
<1>1. CASE e = NoConn
  <2>1. connectedDevices' = connectedDevices
    BY <1>1, ConstantsAssumption DEF RemoveConnFromMap, IndInv, TypeOK
  <2>2. fromInternal' = fromInternal
    BY <1>1, ConcatEmptySeq DEF RemoveConnFromMap, DisconnectEntries, IndInv, TypeOK
  <2> QED
    BY <2>1, <2>2, NothingAnnounced
<1>2. CASE e # NoConn
  <2>1. /\ e \in connectedDevices
        /\ deviceId[c] \in Ids
        /\ deviceId[e].dev = deviceId[c].dev
        /\ deviceId[e].prio = deviceId[c].prio
    BY <1>2, FindConnectionResult DEF ErasedEntry, IndInv, TypeOK
  <2>2. connectedDevices' = connectedDevices \ {e}
    BY DEF RemoveConnFromMap
  <2> HIDE DEF e
  <2>3. /\ deviceId[e].dev \in Devices
        /\ OwnerPriority(deviceId[e].dev) = deviceId[e].prio
        /\ deviceId[e].prio \in Prios
        /\ Owners' = [Owners EXCEPT ![deviceId[e].dev] = NoPrio]
    BY <2>1, <2>2, OwnerErased
  <2> DEFINE entry == [kind |-> "disconnect", id |-> deviceId[c], conn |-> c]
             d == deviceId[c].dev
  <2>4. entry \in ClientEntries
    BY <2>1 DEF ClientEntries
  <2>5. fromInternal \in Seq(ClientEntries)
    BY DEF IndInv, TypeOK
  <2>6. fromInternal' = Append(fromInternal, entry)
    <3>1. fromInternal' = fromInternal \o <<entry>>
      BY <1>2 DEF RemoveConnFromMap, DisconnectEntries, e
    <3> HIDE DEF entry
    <3> QED
      BY <2>4, <2>5, <3>1, PushIsConcat
  <2>7. PendingEvents' = Append(PendingEvents, [kind |-> "disconnect", id |-> deviceId[c]])
    BY <2>4, <2>5, <2>6, UntaggedPush DEF PendingEvents
  <2>8. deviceId[c] = [dev |-> d, prio |-> Owners[d]]
    BY <2>1, <2>3 DEF Ids, Owners
  <2>9. Registry!Unregister(d)
    BY <2>1, <2>3, <2>7, <2>8, ConstantsAssumption
       DEF Registry!Unregister, Registry!Event, Owners
  <2> QED
    BY <2>1, <2>3, <2>9 DEF RegistryStep, Registry!RegistryNext
<1> QED
  BY <1>1, <1>2

\* handleConnection and changeConnection announce the new owner, after the old one's end.
LEMMA ConnectAnnounced ==
    ASSUME IndInv, OwnerFacts, OwnerFacts', NEW c \in Conns,
           HandleConnection(c) \/ ChangeConnection(c)
    PROVE  RegistryStep
<1> DEFINE id == Head(inbox[c]).id
           e == FindConnection(id.dev)
           entry == [kind |-> "connect", id |-> id, conn |-> c]
<1>1. id \in Ids /\ entry \in ClientEntries
  BY HeadOfInbox DEF HandleConnection, ChangeConnection, Handles, ClientEntries
<1>2. c \notin connectedDevices
  BY DEF IndInv, EntryServed, ReadsOnlyWhenReady, HandleConnection, ChangeConnection, Handles,
         Runs
<1>3. deviceId' = [deviceId EXCEPT ![c] = id]
  BY DEF HandleConnection, ChangeConnection, ConnectNewDevice
<1>4. deviceId'[c] = id /\ \A a \in connectedDevices : deviceId'[a] = deviceId[a]
  BY <1>2, <1>3 DEF IndInv, TypeOK
<1>5. fromInternal \in Seq(ClientEntries)
  BY DEF IndInv, TypeOK
<1>6. id = [dev |-> id.dev, prio |-> id.prio] /\ id.dev \in Devices /\ id.prio \in Prios
  BY <1>1 DEF Ids
<1> DEFINE d == id.dev
<1>7. CASE HandleConnection(c)
  <2>1. /\ connectedDevices' = connectedDevices \union {c}
        /\ \A a \in connectedDevices : deviceId[a].dev # id.dev
    BY <1>7, FindConnectionResult DEF HandleConnection, IndInv
  <2>2. Owners[d] = NoPrio
    BY <1>6, <2>1 DEF OwnerFacts, Owners
  <2> HIDE DEF id
  <2>3. Owners' = [Owners EXCEPT ![d] = id.prio]
    <3>1. connectedDevices' = {a \in connectedDevices : deviceId[a].dev # id.dev} \union {c}
      BY <2>1
    <3> QED
      BY <1>1, <1>2, <1>4, <3>1, OwnerAdded
  <2>4. fromInternal' = Append(fromInternal, entry)
    BY <1>7 DEF HandleConnection, id
  <2>5. PendingEvents' = Append(PendingEvents, [kind |-> "connect", id |-> id])
    BY <1>1, <1>5, <2>4, UntaggedPush DEF PendingEvents
  <2>6. Registry!Register(d, id.prio)
    BY <1>6, <2>2, <2>3, <2>5 DEF Registry!Register, Registry!Event
  <2> QED
    BY <1>6, <2>6 DEF RegistryStep, Registry!RegistryNext
<1>8. CASE ChangeConnection(c)
  <2>1. /\ e \in connectedDevices
        /\ deviceId[e].dev = id.dev
        /\ id.prio < deviceId[e].prio
        /\ e # NoConn
    BY <1>8, FindConnectionResult DEF ChangeConnection, IndInv
  <2>2. ErasedEntry(e) = e
    BY <2>1, OwnEntryErased DEF IndInv
  <2> DEFINE last == [kind |-> "disconnect", id |-> deviceId[e], conn |-> e]
  <2>3. /\ connectedDevices' = (connectedDevices \ {e}) \union {c}
        /\ fromInternal' = fromInternal \o <<last>> \o <<entry>>
    BY <1>8, <2>1, <2>2 DEF ChangeConnection, DisconnectEntries
  <2> HIDE DEF id, e
  <2>4. deviceId[e] \in Ids /\ e \in Conns
    BY <2>1 DEF IndInv, TypeOK, EntryServed
  <2>5. last \in ClientEntries
    BY <2>4 DEF ClientEntries
  <2>6. Owners[d] = deviceId[e].prio /\ deviceId[e].prio \in Prios
    BY <1>6, <2>1 DEF OwnerFacts, Owners
  <2>7. connectedDevices' = {a \in connectedDevices : deviceId[a].dev # id.dev} \union {c}
    BY <2>1, <2>3 DEF IndInv, UniqueDevice
  <2>8. Owners' = [Owners EXCEPT ![d] = id.prio]
    BY <1>1, <1>2, <1>4, <2>7, OwnerAdded
  <2>9. deviceId[e] = [dev |-> d, prio |-> Owners[d]]
    BY <2>1, <2>4, <2>6 DEF Ids
  <2>10. /\ fromInternal' = Append(Append(fromInternal, last), entry)
         /\ Append(fromInternal, last) \in Seq(ClientEntries)
    <3> HIDE DEF last, entry
    <3>1. fromInternal \o <<last>> = Append(fromInternal, last)
      BY <1>5, <2>5, PushIsConcat
    <3>2. Append(fromInternal, last) \in Seq(ClientEntries)
      BY <1>5, <2>5, PushProperties
    <3> QED
      BY <1>1, <2>3, <3>1, <3>2, PushIsConcat
  <2>11. PendingEvents' = Append(Append(PendingEvents, [kind |-> "disconnect", id |-> deviceId[e]]),
                                 [kind |-> "connect", id |-> id])
    BY <1>1, <1>5, <2>5, <2>10, UntaggedPush DEF PendingEvents
  <2>12. Registry!Takeover(d, id.prio)
    BY <1>6, <2>1, <2>6, <2>8, <2>9, <2>11, ConstantsAssumption
       DEF Registry!Takeover, Registry!Event
  <2> QED
    BY <1>6, <2>12 DEF RegistryStep, Registry!RegistryNext
<1> QED
  BY <1>7, <1>8

\* handleStatus passes a status on.
LEMMA StatusReported ==
    ASSUME IndInv, OwnerFacts, OwnerFacts', NEW c \in Conns, HandleStatus(c)
    PROVE  RegistryStep
<1> DEFINE entry == [kind |-> "status", id |-> deviceId[c], conn |-> c]
<1>1. /\ fromInternal' = Append(fromInternal, entry)
      /\ UNCHANGED <<connectedDevices, deviceId>>
  BY DEF HandleStatus
<1>2. Owners' = Owners
  BY <1>1, OwnersKept
<1>3. deviceId[c] \in Ids
  BY DEF IndInv, TypeOK, ReadyHasId, HandleStatus
<1>4. entry \in ClientEntries /\ fromInternal \in Seq(ClientEntries)
  BY <1>3 DEF ClientEntries, IndInv, TypeOK
<1>5. PendingEvents' = Append(PendingEvents, [kind |-> "status", id |-> deviceId[c]])
  BY <1>1, <1>4, UntaggedPush DEF PendingEvents
<1> DEFINE d == deviceId[c].dev
           p == deviceId[c].prio
<1>6. d \in Devices /\ p \in Prios /\ deviceId[c] = [dev |-> d, prio |-> p]
  BY <1>3 DEF Ids
<1>7. Registry!Report(d, p)
  BY <1>2, <1>5, <1>6 DEF Registry!Report, Registry!Event
<1> QED
  BY <1>6, <1>7 DEF RegistryStep, Registry!RegistryNext

\* The module handler takes one event, or only pushes to the server.
LEMMA HandlerObserves ==
    ASSUME IndInv, OwnerFacts, OwnerFacts', HandlerNext
    PROVE  RegistryStep
<1>1. UNCHANGED <<connectedDevices, deviceId>>
  BY DEF HandlerNext, HandlerConnect, HandlerStatus, HandlerStatusDropped, HandlerDisconnect,
         HandlerTakes, HandlerForward, HandlerTimeout
<1>2. CASE fromInternal # <<>> /\ fromInternal' = Tail(fromInternal)
  <2>1. Owners' = Owners
    BY <1>1, OwnersKept
  <2>2. fromInternal \in Seq(ClientEntries)
    BY DEF IndInv, TypeOK
  <2>3. PendingEvents # <<>> /\ PendingEvents' = Tail(PendingEvents)
    BY <1>2, <2>2, UntaggedPop DEF PendingEvents
  <2>4. Registry!Observe
    BY <2>1, <2>3 DEF Registry!Observe
  <2> QED
    BY <2>4 DEF RegistryStep, Registry!RegistryNext
<1>3. CASE UNCHANGED fromInternal
  BY <1>1, <1>3, NothingAnnounced
<1> QED
  BY <1>2, <1>3
     DEF HandlerNext, HandlerConnect, HandlerStatus, HandlerStatusDropped, HandlerDisconnect,
         HandlerTakes, HandlerForward, HandlerTimeout

\* Every step.
LEMMA NextRegistry ==
    ASSUME IndInv, IndInv', OwnerFacts, OwnerFacts', [Next]_vars
    PROVE  RegistryStep
<1>1. ASSUME NEW c \in Conns, ReceiveError(c) \/ RemoveFailed(c) PROVE RegistryStep
  <2>1. RemoveConnFromMap(c) /\ Release(c)
    BY <1>1 DEF ReceiveError, RemoveFailed
  <2>2. connectedDevices' \subseteq connectedDevices \ {c}
    BY <2>1, OwnEntryErased DEF IndInv, RemoveConnFromMap
  <2>3. \A e \in connectedDevices' : deviceId'[e] = deviceId[e]
    BY <2>1, <2>2 DEF Release, IndInv, TypeOK
  <2> QED
    BY <2>1, <2>3, RemovalAnnounced
<1>2. ASSUME NEW c \in Conns,
             \/ Accept(c) \/ DataReceived(c) \/ HandleBad(c) \/ RejectStatus(c)
             \/ RejectConnection(c) \/ ResponseReady(c) \/ ResponseTimeout(c)
      PROVE  RegistryStep
  <2>1. UNCHANGED <<connectedDevices, fromInternal, deviceId>>
    BY <1>2 DEF Accept, DataReceived, HandleBad, RejectStatus, RejectConnection, ResponseReady,
                ResponseTimeout, Fail
  <2> QED
    BY <2>1, NothingAnnounced
<1>3. CASE ListenToDisconnect
  <2> DEFINE e == FindConnection(Head(toInternal).id.dev)
  <2>1. UNCHANGED deviceId
    BY <1>3 DEF ListenToDisconnect
  <2>2. CASE e = NoConn
    <3>1. UNCHANGED <<connectedDevices, fromInternal>>
      BY <1>3, <2>2 DEF ListenToDisconnect, HandleDisconnect
    <3> QED
      BY <2>1, <3>1, NothingAnnounced
  <2>3. CASE e # NoConn
    <3>1. e \in Conns
      BY <2>3, FindConnectionResult DEF IndInv, TypeOK
    <3>2. RemoveConnFromMap(e)
      BY <1>3, <2>3 DEF ListenToDisconnect, HandleDisconnect
    <3> HIDE DEF e
    <3> QED
      BY <2>1, <3>1, <3>2, RemovalAnnounced
  <2> QED
    BY <2>2, <2>3
<1>4. CASE ListenToResponse \/ Stop \/ UNCHANGED vars
  <2>1. UNCHANGED <<connectedDevices, fromInternal, deviceId>>
    BY <1>4 DEF ListenToResponse, Stop, vars
  <2> QED
    BY <2>1, NothingAnnounced
<1> QED
  BY <1>1, <1>2, <1>3, <1>4, StatusReported, ConnectAnnounced, HandlerObserves DEF Next, ConnNext

\* The internal server implements the registry: owners change as it allows, and the module
\* handler is told of each change once, in order, with the right identification
\* (handleConnection, changeConnection, removeConnFromMap, handleDisconnect).
THEOREM ServerImplementsRegistry == Spec => ImplementsRegistry
<1>1. Init => Registry!RegistryInit
  <2> SUFFICES ASSUME Init PROVE Registry!RegistryInit
    OBVIOUS
  <2>1. Owners = [d \in Devices |-> NoPrio]
    BY DEF Init, Owners, OwnerPriority, FindConnection
  <2>2. PendingEvents = <<>>
    BY DEF Init, PendingEvents, Untagged
  <2> QED
    BY <2>1, <2>2 DEF Registry!RegistryInit
<1>2. IndInv /\ IndInv' /\ OwnerFacts /\ OwnerFacts' /\ [Next]_vars => RegistryStep
  BY NextRegistry
<1>3. RegistryStep => [Registry!RegistryNext]_Registry!registryVars
  BY DEF RegistryStep, Registry!registryVars
<1> QED
  BY <1>1, <1>2, <1>3, OwnerResult, IndInvAlways, PTL
     DEF Spec, ImplementsRegistry, Registry!RegistrySpec

-----------------------------------------------------------------------------
(* The announcements *)

\* EventsAlternate for a queue q and owners o.
AnnouncesIn(q, i, d) == q[i].kind # "status" /\ q[i].id.dev = d

Successive(q, d, i, j) ==
    AnnouncesIn(q, i, d) /\ AnnouncesIn(q, j, d) /\ \A k \in (i + 1)..(j - 1) : ~AnnouncesIn(q, k, d)

Last(q, d, i) == AnnouncesIn(q, i, d) /\ \A j \in (i + 1)..Len(q) : ~AnnouncesIn(q, j, d)

InTurn(q, d) ==
    \A i \in 1..Len(q) : \A j \in (i + 1)..Len(q) :
        Successive(q, d, i, j) =>
            /\ q[i].kind # q[j].kind
            /\ q[i].kind = "connect" => q[i].id = q[j].id

TellsOwner(q, d, p) ==
    \A i \in 1..Len(q) :
        Last(q, d, i) => p = IF q[i].kind = "connect" THEN q[i].id.prio ELSE NoPrio

Alternates(q, o) == \A d \in Devices : InTurn(q, d) /\ TellsOwner(q, d, o[d])

\* It is what the registry says of its events.
LEMMA AlternatesMeaning == Registry!EventsAlternate <=> Alternates(PendingEvents, Owners)
BY DEF Registry!EventsAlternate, Registry!Announces, Alternates, InTurn, TellsOwner,
       Successive, Last, AnnouncesIn

\* A further event of another device, or a status, changes nothing for d.
LEMMA OtherEvent ==
    ASSUME NEW q \in Seq(Events), NEW e \in Events, NEW d \in Devices, NEW p,
           e.kind = "status" \/ e.id.dev # d, InTurn(q, d), TellsOwner(q, d, p)
    PROVE  InTurn(Append(q, e), d) /\ TellsOwner(Append(q, e), d, p)
<1> DEFINE r == Append(q, e)
<1>1. /\ Len(q) \in Nat
      /\ Len(r) = Len(q) + 1
      /\ \A i \in 1..Len(q) : r[i] = q[i]
      /\ r[Len(q) + 1] = e
  BY PushProperties
<1> HIDE DEF r
<1>2. \A i \in 1..Len(r) : AnnouncesIn(r, i, d) => i \in 1..Len(q) /\ AnnouncesIn(q, i, d)
  BY <1>1 DEF AnnouncesIn
<1>3. \A i \in 1..Len(q) : AnnouncesIn(r, i, d) <=> AnnouncesIn(q, i, d)
  BY <1>1 DEF AnnouncesIn
<1>4. InTurn(r, d)
  <2> SUFFICES ASSUME NEW i \in 1..Len(r), NEW j \in (i + 1)..Len(r), Successive(r, d, i, j)
               PROVE  /\ r[i].kind # r[j].kind
                      /\ r[i].kind = "connect" => r[i].id = r[j].id
    BY DEF InTurn
  <2>1. i \in 1..Len(q) /\ j \in 1..Len(q) /\ j \in (i + 1)..Len(q)
    BY <1>1, <1>2 DEF Successive
  <2>2. Successive(q, d, i, j)
    BY <1>1, <1>3, <2>1 DEF Successive
  <2> QED
    BY <1>1, <2>1, <2>2 DEF InTurn
<1>5. TellsOwner(r, d, p)
  <2> SUFFICES ASSUME NEW i \in 1..Len(r), Last(r, d, i)
               PROVE  p = IF r[i].kind = "connect" THEN r[i].id.prio ELSE NoPrio
    BY DEF TellsOwner
  <2>1. i \in 1..Len(q)
    BY <1>2 DEF Last
  <2>2. Last(q, d, i)
    BY <1>1, <1>3, <2>1 DEF Last
  <2> QED
    BY <1>1, <2>1, <2>2 DEF TellsOwner
<1> QED
  BY <1>4, <1>5 DEF r

\* An announcement that fits the owner known before tells the new one.
LEMMA OwnEvent ==
    ASSUME NEW q \in Seq(Events), NEW e \in Events, NEW p \in Prios \union {NoPrio},
           InTurn(q, e.id.dev), TellsOwner(q, e.id.dev, p),
           \/ e.kind = "connect" /\ p = NoPrio
           \/ e.kind = "disconnect" /\ p = e.id.prio
    PROVE  /\ InTurn(Append(q, e), e.id.dev)
           /\ TellsOwner(Append(q, e), e.id.dev,
                         IF e.kind = "connect" THEN e.id.prio ELSE NoPrio)
<1> DEFINE r == Append(q, e)
           d == e.id.dev
<1>1. /\ Len(q) \in Nat
      /\ Len(r) = Len(q) + 1
      /\ \A i \in 1..Len(q) : q[i] \in Events /\ r[i] = q[i]
      /\ r[Len(q) + 1] = e
  BY PushProperties
<1> HIDE DEF r
<1>2. \A i \in 1..Len(q) : AnnouncesIn(r, i, d) <=> AnnouncesIn(q, i, d)
  BY <1>1 DEF AnnouncesIn
<1>3. AnnouncesIn(r, Len(q) + 1, d)
  BY <1>1 DEF AnnouncesIn
<1>4. InTurn(r, d)
  <2> SUFFICES ASSUME NEW i \in 1..Len(r), NEW j \in (i + 1)..Len(r), Successive(r, d, i, j)
               PROVE  /\ r[i].kind # r[j].kind
                      /\ r[i].kind = "connect" => r[i].id = r[j].id
    BY DEF InTurn
  <2>1. i \in 1..Len(q)
    BY <1>1
  <2>2. CASE j \in 1..Len(q)
    <3>1. Successive(q, d, i, j)
      BY <1>1, <1>2, <2>1, <2>2 DEF Successive
    <3> QED
      BY <1>1, <2>1, <2>2, <3>1 DEF InTurn
  <2>3. CASE j = Len(q) + 1
    <3>1. Last(q, d, i)
      BY <1>1, <1>2, <2>1, <2>3 DEF Successive, Last
    <3>2. p = IF q[i].kind = "connect" THEN q[i].id.prio ELSE NoPrio
      BY <2>1, <3>1 DEF TellsOwner
    <3>3. q[i].kind \in {"connect", "disconnect"} /\ q[i].id \in Ids /\ e.id \in Ids
      BY <1>1, <2>1, <3>1 DEF Last, AnnouncesIn, Events
    <3>4. q[i].id.dev = e.id.dev
      BY <3>1 DEF Last, AnnouncesIn
    <3>5. q[i].id.prio = e.id.prio => q[i].id = e.id
      BY <3>3, <3>4 DEF Ids
    <3>6. q[i].id.prio # NoPrio /\ e.id.prio # NoPrio
      BY <3>3, ConstantsAssumption DEF Ids
    <3> QED
      BY <1>1, <2>1, <2>3, <3>2, <3>3, <3>5, <3>6
  <2> QED
    BY <1>1, <2>2, <2>3
<1>5. ASSUME NEW i \in 1..Len(r), Last(r, d, i) PROVE i = Len(q) + 1
  BY <1>1, <1>3, <1>5 DEF Last
<1> QED
  BY <1>1, <1>4, <1>5 DEF r, TellsOwner

\* Taking an event shifts the others.
LEMMA FirstTaken ==
    ASSUME NEW q \in Seq(Events), q # <<>>, NEW d \in Devices, NEW p,
           InTurn(q, d), TellsOwner(q, d, p)
    PROVE  InTurn(Tail(q), d) /\ TellsOwner(Tail(q), d, p)
<1> DEFINE r == Tail(q)
<1>1. /\ Len(q) \in Nat \ {0}
      /\ Len(r) = Len(q) - 1
      /\ \A i \in 1..Len(r) : r[i] = q[i + 1]
  BY PopProperties
<1> HIDE DEF r
<1>2. \A i \in 1..Len(r) : i + 1 \in 1..Len(q) /\ (AnnouncesIn(r, i, d) <=> AnnouncesIn(q, i + 1, d))
  BY <1>1 DEF AnnouncesIn
<1>3. InTurn(r, d)
  <2> SUFFICES ASSUME NEW i \in 1..Len(r), NEW j \in (i + 1)..Len(r), Successive(r, d, i, j)
               PROVE  /\ r[i].kind # r[j].kind
                      /\ r[i].kind = "connect" => r[i].id = r[j].id
    BY DEF InTurn
  <2>1. i + 1 \in 1..Len(q) /\ j + 1 \in (i + 1 + 1)..Len(q) /\ j \in 1..Len(r)
    BY <1>1
  <2>2. ASSUME NEW k \in (i + 1 + 1)..(j + 1 - 1) PROVE ~AnnouncesIn(q, k, d)
    <3>1. k - 1 \in (i + 1)..(j - 1) /\ k - 1 \in 1..Len(r) /\ (k - 1) + 1 = k
      BY <1>1
    <3> QED
      BY <1>2, <3>1 DEF Successive
  <2>3. Successive(q, d, i + 1, j + 1)
    BY <1>2, <2>1, <2>2 DEF Successive
  <2> QED
    BY <1>1, <2>1, <2>3 DEF InTurn
<1>4. TellsOwner(r, d, p)
  <2> SUFFICES ASSUME NEW i \in 1..Len(r), Last(r, d, i)
               PROVE  p = IF r[i].kind = "connect" THEN r[i].id.prio ELSE NoPrio
    BY DEF TellsOwner
  <2>1. ASSUME NEW k \in (i + 1 + 1)..Len(q) PROVE ~AnnouncesIn(q, k, d)
    <3>1. k - 1 \in (i + 1)..Len(r) /\ k - 1 \in 1..Len(r) /\ (k - 1) + 1 = k
      BY <1>1
    <3> QED
      BY <1>2, <3>1 DEF Last
  <2>2. Last(q, d, i + 1)
    BY <1>2, <2>1 DEF Last
  <2> QED
    BY <1>1, <1>2, <2>2 DEF TellsOwner
<1> QED
  BY <1>3, <1>4 DEF r

\* One announcement, for all devices.
LEMMA Announced ==
    ASSUME NEW q \in Seq(Events), NEW o \in [Devices -> Prios \union {NoPrio}],
           NEW e \in Events, Alternates(q, o),
           \/ e.kind = "connect" /\ o[e.id.dev] = NoPrio
           \/ e.kind = "disconnect" /\ o[e.id.dev] = e.id.prio
    PROVE  /\ Append(q, e) \in Seq(Events)
           /\ Alternates(Append(q, e),
                         [o EXCEPT ![e.id.dev] = IF e.kind = "connect" THEN e.id.prio ELSE NoPrio])
<1> DEFINE n == [o EXCEPT ![e.id.dev] = IF e.kind = "connect" THEN e.id.prio ELSE NoPrio]
<1>1. e.id.dev \in Devices /\ o[e.id.dev] \in Prios \union {NoPrio}
  BY DEF Events, Ids
<1>2. Append(q, e) \in Seq(Events)
  BY PushProperties
<1>3. ASSUME NEW d \in Devices PROVE InTurn(Append(q, e), d) /\ TellsOwner(Append(q, e), d, n[d])
  <2>0. InTurn(q, d) /\ TellsOwner(q, d, o[d])
    BY DEF Alternates
  <2>1. CASE d = e.id.dev
    <3>1. n[d] = IF e.kind = "connect" THEN e.id.prio ELSE NoPrio
      BY <1>1, <2>1
    <3> QED
      BY <1>1, <2>0, <2>1, <3>1, OwnEvent
  <2>2. CASE d # e.id.dev
    <3>1. n[d] = o[d]
      BY <2>2
    <3> QED
      BY <2>0, <2>2, <3>1, OtherEvent
  <2> QED
    BY <2>1, <2>2
<1> QED
  BY <1>2, <1>3 DEF Alternates

\* Every step of the registry keeps the announcements in turn.
LEMMA StepAlternates ==
    ASSUME PendingEvents \in Seq(Events), Owners \in [Devices -> Prios \union {NoPrio}],
           Alternates(PendingEvents, Owners), RegistryStep
    PROVE  Alternates(PendingEvents', Owners')
<1>1. ASSUME NEW d \in Devices, NEW p \in Prios, Registry!Register(d, p)
      PROVE  Alternates(PendingEvents', Owners')
  <2> DEFINE e == [kind |-> "connect", id |-> [dev |-> d, prio |-> p]]
  <2>1. e \in Events /\ e.kind = "connect" /\ e.id.dev = d /\ e.id.prio = p
    BY DEF Events, Ids
  <2>2. Owners[d] = NoPrio /\ Owners' = [Owners EXCEPT ![d] = p]
        /\ PendingEvents' = Append(PendingEvents, e)
    BY <1>1 DEF Registry!Register, Registry!Event
  <2> HIDE DEF e
  <2> QED
    BY <2>1, <2>2, Announced
<1>2. ASSUME NEW d \in Devices, Registry!Unregister(d)
      PROVE  Alternates(PendingEvents', Owners')
  <2> DEFINE e == [kind |-> "disconnect", id |-> [dev |-> d, prio |-> Owners[d]]]
  <2>1. /\ Owners[d] \in Prios
        /\ Owners' = [Owners EXCEPT ![d] = NoPrio]
        /\ PendingEvents' = Append(PendingEvents, e)
    BY <1>2 DEF Registry!Unregister, Registry!Event
  <2>2. e \in Events /\ e.kind = "disconnect" /\ e.id.dev = d /\ e.id.prio = Owners[d]
    BY <2>1 DEF Events, Ids
  <2> HIDE DEF e
  <2> QED
    BY <2>1, <2>2, Announced
<1>3. ASSUME NEW d \in Devices, NEW p \in Prios, Registry!Takeover(d, p)
      PROVE  Alternates(PendingEvents', Owners')
  <2> DEFINE e == [kind |-> "disconnect", id |-> [dev |-> d, prio |-> Owners[d]]]
             f == [kind |-> "connect", id |-> [dev |-> d, prio |-> p]]
             q == Append(PendingEvents, e)
             o == [Owners EXCEPT ![d] = NoPrio]
  <2>1. /\ Owners[d] \in Prios
        /\ Owners' = [Owners EXCEPT ![d] = p]
        /\ PendingEvents' = Append(q, f)
    BY <1>3 DEF Registry!Takeover, Registry!Event
  <2>2. /\ e \in Events /\ e.kind = "disconnect" /\ e.id.dev = d /\ e.id.prio = Owners[d]
        /\ f \in Events /\ f.kind = "connect" /\ f.id.dev = d /\ f.id.prio = p
    BY <2>1 DEF Events, Ids
  <2>3. o \in [Devices -> Prios \union {NoPrio}] /\ o[d] = NoPrio
    OBVIOUS
  <2>4. Owners' = [o EXCEPT ![d] = p]
    BY <2>1
  <2> HIDE DEF e, f
  <2>5. q \in Seq(Events) /\ Alternates(q, o)
    BY <2>1, <2>2, Announced
  <2> HIDE DEF q, o
  <2>6. Alternates(Append(q, f), [o EXCEPT ![d] = p])
    BY <2>2, <2>3, <2>5, Announced
  <2> QED
    BY <2>1, <2>4, <2>6, Zenon
<1>4. ASSUME NEW d \in Devices, NEW p \in Prios, Registry!Report(d, p)
      PROVE  Alternates(PendingEvents', Owners')
  <2> DEFINE e == [kind |-> "status", id |-> [dev |-> d, prio |-> p]]
  <2>1. e \in Events /\ e.kind = "status"
    BY DEF Events, Ids
  <2>2. Owners' = Owners /\ PendingEvents' = Append(PendingEvents, e)
    BY <1>4 DEF Registry!Report, Registry!Event
  <2> HIDE DEF e
  <2> QED
    BY <2>1, <2>2, OtherEvent DEF Alternates
<1>5. CASE Registry!Observe
  BY <1>5, FirstTaken DEF Registry!Observe, Alternates
<1>6. CASE UNCHANGED <<Owners, PendingEvents>>
  BY <1>6
<1> QED
  BY <1>1, <1>2, <1>3, <1>4, <1>5, <1>6 DEF RegistryStep, Registry!RegistryNext

\* What the module handler has still to read of a device is a proper history ending with the
\* present owner, for every interleaving (removeConnFromMap, connectNewDevice).
THEOREM HistoryIsProper == Spec => []AnnouncementsAlternate
<1>1. Init => Registry!EventsAlternate
  BY DEF Init, Registry!EventsAlternate, PendingEvents, Untagged
<1>2. IndInv /\ IndInv' /\ OwnerFacts /\ OwnerFacts' /\ Registry!EventsAlternate /\ [Next]_vars
         => Registry!EventsAlternate'
  <2> SUFFICES ASSUME IndInv, IndInv', OwnerFacts, OwnerFacts', Registry!EventsAlternate,
                      [Next]_vars
               PROVE  Registry!EventsAlternate'
    OBVIOUS
  <2>1. PendingEvents \in Seq(Events)
    BY UntaggedQueue DEF PendingEvents, IndInv, TypeOK
  <2>2. Owners \in [Devices -> Prios \union {NoPrio}]
    BY DEF Owners, OwnerFacts
  <2>3. Alternates(PendingEvents, Owners)
    BY AlternatesMeaning
  <2>4. Alternates(PendingEvents', Owners')
    BY <2>1, <2>2, <2>3, NextRegistry, StepAlternates
  <2> QED
    BY <2>4 DEF Registry!EventsAlternate, Registry!Announces, Alternates, InTurn, TellsOwner,
                Successive, Last, AnnouncesIn
<1> QED
  BY <1>1, <1>2, OwnerResult, IndInvAlways, PTL DEF Spec, AnnouncementsAlternate
=============================================================================
