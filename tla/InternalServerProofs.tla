------------------------ MODULE InternalServerProofs ------------------------
(***************************************************************************)
(* Proofs about InternalServer, for any number of connections, devices,    *)
(* priorities and io threads, and any bounds.                              *)
(***************************************************************************)
EXTENDS InternalServer, SequenceTheorems, TLAPS

-----------------------------------------------------------------------------
(* The inductive invariant *)

\* A connection is ready only with an identification, and keeps none once released.
ReadyHasId ==
    \A c \in Conns :
        /\ ready[c] => deviceId[c] # NoId
        /\ phase[c] = "gone" => deviceId[c] = NoId

\* The server closes no socket behind the back of a connection without a device.
NewIsOpen ==
    \A c \in Conns : phase[c] # "gone" /\ deviceId[c] = NoId => open[c]

\* A handler that still has to handle a message has one.
InboxFilled ==
    \A c \in Conns :
        phase[c] \in {"completed", "handling", "waiting"} => inbox[c] # <<>>

\* UniqueDevice is not inductive by itself: that a connecting connection is not in the
\* vector already rests on ReadsOnlyWhenReady, that a released one is not on EntryServed,
\* and that a take-over erases the right entry on both.
IndInv ==
    /\ TypeOK
    /\ ReadyHasId
    /\ NewIsOpen
    /\ InboxFilled
    /\ ReadsOnlyWhenReady
    /\ EntryServed
    /\ UniqueDevice

-----------------------------------------------------------------------------
(* The helpers *)

\* findConnection returns an entry of the device, or none when there is none.
LEMMA FindConnectionResult ==
    ASSUME TypeOK, NEW d
    PROVE  \/ /\ FindConnection(d) = NoConn
              /\ \A e \in connectedDevices : deviceId[e].dev # d
           \/ /\ FindConnection(d) \in connectedDevices
              /\ FindConnection(d) # NoConn
              /\ deviceId[FindConnection(d)].dev = d
BY ConstantsAssumption DEF FindConnection, TypeOK

\* removeConnFromMap of an owner erases its own entry.
LEMMA OwnEntryErased ==
    ASSUME TypeOK, EntryServed, UniqueDevice, NEW c \in connectedDevices
    PROVE  ErasedEntry(c) = c
<1>1. deviceId[c] # NoId
  BY DEF EntryServed
<1>2. FindConnection(deviceId[c].dev) = c
  BY FindConnectionResult DEF UniqueDevice
<1>3. c # NoConn
  BY ConstantsAssumption DEF TypeOK
<1> QED
  BY <1>1, <1>2, <1>3 DEF ErasedEntry

\* What removeConnFromMap pushes is a well-formed entry, or nothing.
LEMMA DisconnectEntriesType ==
    ASSUME TypeOK, NEW c \in Conns
    PROVE  DisconnectEntries(c) \in Seq(ClientEntries)
<1>1. CASE ErasedEntry(c) = NoConn
  BY <1>1 DEF DisconnectEntries
<1>2. CASE ErasedEntry(c) # NoConn
  <2>1. deviceId[c] \in Ids
    BY <1>2 DEF ErasedEntry, TypeOK
  <2>2. [kind |-> "disconnect", id |-> deviceId[c], conn |-> c] \in ClientEntries
    BY <2>1 DEF ClientEntries
  <2> QED
    BY <1>2, <2>2 DEF DisconnectEntries
<1> QED
  BY <1>1, <1>2

\* A queue stays well-formed when well-formed entries are appended or one is taken.
LEMMA QueueType ==
    ASSUME NEW S, NEW q \in Seq(S), NEW e \in S, NEW r \in Seq(S)
    PROVE  /\ Append(q, e) \in Seq(S)
           /\ q \o r \in Seq(S)
           /\ <<e>> \in Seq(S)
           /\ q # <<>> => Tail(q) \in Seq(S) /\ Head(q) \in S
OBVIOUS

-----------------------------------------------------------------------------
(* Type correctness *)

\* The empty server satisfies the inductive invariant.
LEMMA InitIndInv == Init => IndInv
<1> SUFFICES ASSUME Init PROVE IndInv
  OBVIOUS
<1>1. TypeOK
  <2>1. phase \in [Conns -> Phases] /\ open \in [Conns -> BOOLEAN]
        /\ ready \in [Conns -> BOOLEAN] /\ deviceId \in [Conns -> Ids \cup {NoId}]
    BY DEF Init, Phases
  <2>2. inbox \in [Conns -> Seq(ClientMessages)]
    BY DEF Init
  <2>3. fromInternal \in Seq(ClientEntries) /\ toInternal \in Seq(HandlerEntries)
    BY DEF Init
  <2>4. connectedDevices \in SUBSET Conns /\ known \in SUBSET Devices /\ stopped \in BOOLEAN
    BY DEF Init
  <2> QED
    BY <2>1, <2>2, <2>3, <2>4 DEF TypeOK
<1>2. ReadyHasId /\ NewIsOpen /\ InboxFilled /\ ReadsOnlyWhenReady
  BY DEF Init, ReadyHasId, NewIsOpen, InboxFilled, ReadsOnlyWhenReady
<1>3. EntryServed /\ UniqueDevice
  BY DEF Init, EntryServed, UniqueDevice
<1> QED
  BY <1>1, <1>2, <1>3 DEF IndInv

\* A connection whose handler runs has a message to handle, and that message is well-formed.
LEMMA HeadOfInbox ==
    ASSUME IndInv, NEW c \in Conns, Runs(c)
    PROVE  /\ inbox[c] # <<>>
           /\ Head(inbox[c]) \in ClientMessages
           /\ Head(inbox[c]).kind = "connect" => Head(inbox[c]).id \in Ids
<1>1. inbox[c] \in Seq(ClientMessages) /\ inbox[c] # <<>>
  BY DEF IndInv, InboxFilled, Runs, TypeOK
<1>2. Head(inbox[c]) \in ClientMessages
  BY <1>1
<1> QED
  BY <1>1, <1>2 DEF ClientMessages
-----------------------------------------------------------------------------
(* Each action preserves the invariant *)

\* A fresh connection owns nothing (addAsyncAccept).
LEMMA AcceptPreserves ==
    ASSUME IndInv, NEW c \in Conns, Accept(c)
    PROVE  IndInv'
<1>1. TypeOK'
  BY DEF IndInv, TypeOK, Phases, Accept
<1>2. ReadyHasId' /\ NewIsOpen' /\ InboxFilled'
  BY DEF IndInv, TypeOK, ReadyHasId, NewIsOpen, InboxFilled, Accept
<1>3. ReadsOnlyWhenReady'
  BY DEF IndInv, TypeOK, ReadyHasId, ReadsOnlyWhenReady, Accept
<1>4. EntryServed' /\ UniqueDevice'
  BY DEF IndInv, TypeOK, ReadyHasId, EntryServed, UniqueDevice, Accept
<1> QED
  BY <1>1, <1>2, <1>3, <1>4 DEF IndInv

\* A completed receive only fills the inbox (addAsyncReceive).
LEMMA DataReceivedPreserves ==
    ASSUME IndInv, NEW c \in Conns, DataReceived(c)
    PROVE  IndInv'
<1>1. TypeOK'
  BY DEF IndInv, TypeOK, Phases, DataReceived
<1>2. ReadyHasId' /\ NewIsOpen' /\ InboxFilled'
  BY DEF IndInv, TypeOK, ReadyHasId, NewIsOpen, InboxFilled, DataReceived
<1>3. ReadsOnlyWhenReady'
  BY DEF IndInv, TypeOK, ReadyHasId, ReadsOnlyWhenReady, DataReceived
<1>4. EntryServed' /\ UniqueDevice'
  BY DEF IndInv, TypeOK, ReadyHasId, EntryServed, UniqueDevice, DataReceived
<1> QED
  BY <1>1, <1>2, <1>3, <1>4 DEF IndInv

\* removeConnFromMap followed by the release of the connection.
LEMMA RemovalPreserves ==
    ASSUME IndInv, NEW c \in Conns, RemoveConnFromMap(c), Release(c),
           UNCHANGED <<inbox, toInternal, known, stopped>>
    PROVE  IndInv'
<1>1. TypeOK'
  <2>1. fromInternal' \in Seq(ClientEntries)
    BY DisconnectEntriesType, QueueType DEF IndInv, TypeOK, RemoveConnFromMap
  <2> QED
    BY <2>1 DEF IndInv, TypeOK, Phases, RemoveConnFromMap, Release
<1>2. ReadyHasId' /\ NewIsOpen' /\ InboxFilled'
  BY DEF IndInv, TypeOK, ReadyHasId, NewIsOpen, InboxFilled, RemoveConnFromMap, Release
<1>3. ReadsOnlyWhenReady'
  BY DEF IndInv, TypeOK, ReadyHasId, ReadsOnlyWhenReady, Release
<1>4. connectedDevices' \subseteq connectedDevices \ {c}
  BY OwnEntryErased DEF IndInv, RemoveConnFromMap
<1>5. EntryServed' /\ UniqueDevice'
  BY <1>4 DEF IndInv, TypeOK, EntryServed, UniqueDevice, RemoveConnFromMap, Release
<1> QED
  BY <1>1, <1>2, <1>3, <1>5 DEF IndInv

\* asyncReceiveHandler with an error is a removal.
LEMMA ReceiveErrorPreserves ==
    ASSUME IndInv, NEW c \in Conns, ReceiveError(c)
    PROVE  IndInv'
BY RemovalPreserves DEF ReceiveError

\* A rejected message leaves the owners alone.
LEMMA HandleBadPreserves ==
    ASSUME IndInv, NEW c \in Conns, HandleBad(c)
    PROVE  IndInv'
<1>1. TypeOK'
  BY DEF IndInv, TypeOK, Phases, HandleBad, Handles, Runs, Fail
<1>2. ReadyHasId' /\ NewIsOpen' /\ InboxFilled'
  BY DEF IndInv, TypeOK, ReadyHasId, NewIsOpen, InboxFilled, HandleBad, Handles, Runs, Fail
<1>3. ReadsOnlyWhenReady'
  BY DEF IndInv, TypeOK, ReadyHasId, ReadsOnlyWhenReady, HandleBad, Handles, Runs, Fail
<1>4. EntryServed' /\ UniqueDevice'
  BY DEF IndInv, TypeOK, ReadyHasId, EntryServed, UniqueDevice, HandleBad, Handles, Runs, Fail
<1> QED
  BY <1>1, <1>2, <1>3, <1>4 DEF IndInv

\* A status before connect leaves the owners alone.
LEMMA RejectStatusPreserves ==
    ASSUME IndInv, NEW c \in Conns, RejectStatus(c)
    PROVE  IndInv'
<1>1. TypeOK'
  BY DEF IndInv, TypeOK, Phases, RejectStatus, Handles, Runs, Fail
<1>2. ReadyHasId' /\ NewIsOpen' /\ InboxFilled'
  BY DEF IndInv, TypeOK, ReadyHasId, NewIsOpen, InboxFilled, RejectStatus, Handles, Runs, Fail
<1>3. ReadsOnlyWhenReady'
  BY DEF IndInv, TypeOK, ReadyHasId, ReadsOnlyWhenReady, RejectStatus, Handles, Runs, Fail
<1>4. EntryServed' /\ UniqueDevice'
  BY DEF IndInv, TypeOK, ReadyHasId, EntryServed, UniqueDevice, RejectStatus, Handles, Runs, Fail
<1> QED
  BY <1>1, <1>2, <1>3, <1>4 DEF IndInv

\* handleStatus pushes the identification its connection owns.
LEMMA HandleStatusPreserves ==
    ASSUME IndInv, NEW c \in Conns, HandleStatus(c)
    PROVE  IndInv'
<1>1. TypeOK'
  <2>1. [kind |-> "status", id |-> deviceId[c], conn |-> c] \in ClientEntries
    BY DEF IndInv, TypeOK, ReadyHasId, HandleStatus, ClientEntries
  <2>2. fromInternal' \in Seq(ClientEntries)
    BY <2>1, QueueType DEF IndInv, TypeOK, HandleStatus
  <2> QED
    BY <2>2 DEF IndInv, TypeOK, Phases, HandleStatus
<1>2. ReadyHasId' /\ NewIsOpen' /\ InboxFilled'
  BY DEF IndInv, TypeOK, ReadyHasId, NewIsOpen, InboxFilled, HandleStatus, Handles, Runs
<1>3. ReadsOnlyWhenReady'
  BY DEF IndInv, TypeOK, ReadsOnlyWhenReady, HandleStatus
<1>4. EntryServed' /\ UniqueDevice'
  BY DEF IndInv, TypeOK, EntryServed, UniqueDevice, HandleStatus
<1> QED
  BY <1>1, <1>2, <1>3, <1>4 DEF IndInv

\* A refused connect leaves the owners alone.
LEMMA RejectConnectionPreserves ==
    ASSUME IndInv, NEW c \in Conns, RejectConnection(c)
    PROVE  IndInv'
<1>1. TypeOK'
  BY DEF IndInv, TypeOK, Phases, RejectConnection, Handles, Runs, Fail
<1>2. ReadyHasId' /\ NewIsOpen' /\ InboxFilled'
  BY DEF IndInv, TypeOK, ReadyHasId, NewIsOpen, InboxFilled, RejectConnection, Handles, Runs, Fail
<1>3. ReadsOnlyWhenReady'
  BY DEF IndInv, TypeOK, ReadyHasId, ReadsOnlyWhenReady, RejectConnection, Handles, Runs, Fail
<1>4. EntryServed' /\ UniqueDevice'
  BY DEF IndInv, TypeOK, ReadyHasId, EntryServed, UniqueDevice, RejectConnection, Handles, Runs, Fail
<1> QED
  BY <1>1, <1>2, <1>3, <1>4 DEF IndInv

\* handleConnection adds an entry for a device that had none.
LEMMA HandleConnectionPreserves ==
    ASSUME IndInv, NEW c \in Conns, HandleConnection(c)
    PROVE  IndInv'
<1> DEFINE id == Head(inbox[c]).id
<1>0. id \in Ids /\ id # NoId /\ inbox[c] # <<>>
  BY HeadOfInbox, NoIdAssumption DEF HandleConnection, Handles
<1>1. TypeOK'
  <2>1. [kind |-> "connect", id |-> id, conn |-> c] \in ClientEntries
    BY <1>0 DEF ClientEntries
  <2>2. fromInternal' \in Seq(ClientEntries)
    BY <2>1, QueueType DEF IndInv, TypeOK, HandleConnection
  <2> QED
    BY <1>0, <2>2 DEF IndInv, TypeOK, Phases, HandleConnection, ConnectNewDevice
<1>2. ReadyHasId' /\ NewIsOpen' /\ InboxFilled'
  BY <1>0 DEF IndInv, TypeOK, ReadyHasId, NewIsOpen, InboxFilled, HandleConnection, ConnectNewDevice
<1>3. ReadsOnlyWhenReady'
  BY DEF IndInv, TypeOK, ReadsOnlyWhenReady, HandleConnection, ConnectNewDevice
<1>4. EntryServed'
  <2>1. open[c]
    BY DEF IndInv, TypeOK, NewIsOpen, ReadsOnlyWhenReady, HandleConnection, Handles, Runs
  <2> QED
    BY <1>0, <2>1 DEF IndInv, TypeOK, EntryServed, HandleConnection, ConnectNewDevice
<1>5. UniqueDevice'
  <2>1. \A e \in connectedDevices : deviceId[e].dev # id.dev
    BY FindConnectionResult DEF IndInv, HandleConnection
  <2>2. c \notin connectedDevices
    BY DEF IndInv, EntryServed, ReadsOnlyWhenReady, HandleConnection, Handles, Runs
  <2> QED
    BY <1>0, <2>1, <2>2 DEF IndInv, TypeOK, UniqueDevice, HandleConnection, ConnectNewDevice
<1> QED
  BY <1>1, <1>2, <1>3, <1>4, <1>5 DEF IndInv

\* changeConnection replaces the one entry of the device.
LEMMA ChangeConnectionPreserves ==
    ASSUME IndInv, NEW c \in Conns, ChangeConnection(c)
    PROVE  IndInv'
<1> DEFINE id == Head(inbox[c]).id
<1> DEFINE e == FindConnection(id.dev)
<1>0. id \in Ids /\ id # NoId /\ inbox[c] # <<>>
  BY HeadOfInbox, NoIdAssumption DEF ChangeConnection, Handles
<1>1. /\ e \in connectedDevices /\ e \in Conns /\ deviceId[e].dev = id.dev
      /\ c \notin connectedDevices
      /\ open[c]
  <2>1. e # NoConn
    BY DEF ChangeConnection
  <2>2. e \in connectedDevices /\ deviceId[e].dev = id.dev
    BY <2>1, FindConnectionResult DEF IndInv
  <2>3. c \notin connectedDevices /\ open[c]
    BY DEF IndInv, TypeOK, NewIsOpen, EntryServed, ReadsOnlyWhenReady,
           ChangeConnection, Handles, Runs
  <2> QED
    BY <2>2, <2>3 DEF IndInv, TypeOK
<1>2. connectedDevices' = (connectedDevices \ {e}) \cup {c}
  BY <1>1, OwnEntryErased DEF IndInv, ChangeConnection
<1> HIDE DEF e
<1>3. /\ deviceId' = [deviceId EXCEPT ![c] = id]
      /\ phase' = [phase EXCEPT ![c] = "waiting"]
      /\ open' = [open EXCEPT ![e] = FALSE]
      /\ UNCHANGED <<inbox, ready, toInternal, known, stopped>>
  BY DEF ChangeConnection, ConnectNewDevice, e
<1>4. TypeOK'
  <2>1. <<[kind |-> "connect", id |-> id, conn |-> c]>> \in Seq(ClientEntries)
    BY <1>0 DEF ClientEntries
  <2>2. DisconnectEntries(e) \in Seq(ClientEntries)
    BY <1>1, DisconnectEntriesType DEF IndInv
  <2>3. fromInternal' \in Seq(ClientEntries)
    BY <2>1, <2>2, SMTT(30) DEF IndInv, TypeOK, ChangeConnection, e
  <2> QED
    BY <1>0, <1>1, <1>2, <1>3, <2>3 DEF IndInv, TypeOK, Phases
<1>5. ReadyHasId' /\ NewIsOpen' /\ InboxFilled'
  <2>1. deviceId[e] # NoId
    BY <1>1 DEF IndInv, EntryServed
  <2> QED
    BY <1>0, <1>1, <1>3, <2>1 DEF IndInv, TypeOK, ReadyHasId, NewIsOpen, InboxFilled
<1>6. ReadsOnlyWhenReady'
  BY <1>3 DEF IndInv, TypeOK, ReadsOnlyWhenReady
<1>7. EntryServed'
  BY <1>0, <1>1, <1>2, <1>3 DEF IndInv, TypeOK, EntryServed
<1>8. UniqueDevice'
  BY <1>0, <1>1, <1>2, <1>3 DEF IndInv, TypeOK, UniqueDevice
<1> QED
  BY <1>4, <1>5, <1>6, <1>7, <1>8 DEF IndInv

\* The server reads on only with ready raised.
LEMMA ResponseReadyPreserves ==
    ASSUME IndInv, NEW c \in Conns, ResponseReady(c)
    PROVE  IndInv'
<1>0. inbox[c] \in Seq(ClientMessages) /\ inbox[c] # <<>>
  BY DEF IndInv, TypeOK, InboxFilled, ResponseReady
<1>1. TypeOK'
  <2>1. Tail(inbox[c]) \in Seq(ClientMessages)
    BY <1>0
  <2> QED
    BY <2>1 DEF IndInv, TypeOK, Phases, ResponseReady
<1>2. ReadyHasId' /\ NewIsOpen'
  BY DEF IndInv, TypeOK, ReadyHasId, NewIsOpen, ResponseReady
<1>3. InboxFilled'
  <2>1. Len(inbox[c]) # 1 => Tail(inbox[c]) # <<>>
    <3>1. /\ Len(inbox[c]) \in Nat
          /\ Len(inbox[c]) # 0
          /\ Len(Tail(inbox[c])) = Len(inbox[c]) - 1
      BY <1>0
    <3>2. Len(inbox[c]) # 1 => Len(Tail(inbox[c])) # 0
      BY <3>1
    <3>3. Tail(inbox[c]) = <<>> => Len(Tail(inbox[c])) = 0
      BY EmptySeq
    <3> QED
      BY <3>2, <3>3
  <2> QED
    BY <2>1 DEF IndInv, TypeOK, InboxFilled, ResponseReady
<1>4. ReadsOnlyWhenReady'
  BY DEF IndInv, TypeOK, ReadsOnlyWhenReady, ResponseReady
<1>5. EntryServed' /\ UniqueDevice'
  BY DEF IndInv, TypeOK, EntryServed, UniqueDevice, ResponseReady
<1> QED
  BY <1>1, <1>2, <1>3, <1>4, <1>5 DEF IndInv

\* A time-out leaves the owners to the removal that follows.
LEMMA ResponseTimeoutPreserves ==
    ASSUME IndInv, NEW c \in Conns, ResponseTimeout(c)
    PROVE  IndInv'
<1>1. TypeOK'
  BY DEF IndInv, TypeOK, Phases, ResponseTimeout, Fail
<1>2. ReadyHasId' /\ NewIsOpen' /\ InboxFilled'
  BY DEF IndInv, TypeOK, ReadyHasId, NewIsOpen, InboxFilled, ResponseTimeout, Fail
<1>3. ReadsOnlyWhenReady'
  BY DEF IndInv, TypeOK, ReadyHasId, ReadsOnlyWhenReady, ResponseTimeout, Fail
<1>4. EntryServed' /\ UniqueDevice'
  BY DEF IndInv, TypeOK, ReadyHasId, EntryServed, UniqueDevice, ResponseTimeout, Fail
<1> QED
  BY <1>1, <1>2, <1>3, <1>4 DEF IndInv

\* asyncReceiveHandler after a failure is a removal.
LEMMA RemoveFailedPreserves ==
    ASSUME IndInv, NEW c \in Conns, RemoveFailed(c)
    PROVE  IndInv'
BY RemovalPreserves DEF RemoveFailed

\* handleDisconnect closes the owner and erases its entry in one step.
LEMMA ListenToDisconnectPreserves ==
    ASSUME IndInv, ListenToDisconnect
    PROVE  IndInv'
<1> DEFINE d == Head(toInternal).id.dev
<1> DEFINE e == FindConnection(d)
<1>1. toInternal' \in Seq(HandlerEntries)
  BY DEF IndInv, TypeOK, ListenToDisconnect
<1>2. CASE e = NoConn
  <2>1. UNCHANGED <<phase, inbox, open, deviceId, ready, connectedDevices, fromInternal,
                    known, stopped>>
    BY <1>2 DEF ListenToDisconnect, HandleDisconnect
  <2> QED
    BY <1>1, <2>1 DEF IndInv, TypeOK, ReadyHasId, NewIsOpen, InboxFilled,
         ReadsOnlyWhenReady, EntryServed, UniqueDevice
<1>3. CASE e # NoConn
  <2>1. e \in connectedDevices /\ e \in Conns
    BY <1>3, FindConnectionResult DEF IndInv, TypeOK
  <2> HIDE DEF e
  <2>2. RemoveConnFromMap(e)
    BY <1>3 DEF ListenToDisconnect, HandleDisconnect, e
  <2>3. connectedDevices' = connectedDevices \ {e}
    BY <2>1, <2>2, OwnEntryErased DEF IndInv, RemoveConnFromMap
  <2>4. open' = [open EXCEPT ![e] = FALSE]
        /\ UNCHANGED <<phase, inbox, deviceId, ready, known, stopped>>
    BY <2>2 DEF ListenToDisconnect, RemoveConnFromMap
  <2>5. fromInternal' \in Seq(ClientEntries)
    BY <2>1, <2>2, DisconnectEntriesType, QueueType DEF IndInv, TypeOK, RemoveConnFromMap
  <2>6. TypeOK'
    BY <1>1, <2>3, <2>4, <2>5 DEF IndInv, TypeOK
  <2>7. ReadyHasId' /\ InboxFilled' /\ ReadsOnlyWhenReady'
    BY <2>4 DEF IndInv, ReadyHasId, InboxFilled, ReadsOnlyWhenReady
  <2>8. NewIsOpen'
    <3>1. deviceId[e] # NoId
      BY <2>1 DEF IndInv, EntryServed
    <3> QED
      BY <2>1, <2>4, <3>1 DEF IndInv, TypeOK, NewIsOpen
  <2>9. EntryServed' /\ UniqueDevice'
    BY <2>1, <2>3, <2>4 DEF IndInv, TypeOK, EntryServed, UniqueDevice
  <2> QED
    BY <2>6, <2>7, <2>8, <2>9 DEF IndInv
<1> QED
  BY <1>2, <1>3

\* validateResponse raises ready of a connection that has an identification.
LEMMA ListenToResponsePreserves ==
    ASSUME IndInv, ListenToResponse
    PROVE  IndInv'
<1> DEFINE id == Head(toInternal).id
<1> DEFINE e == FindConnection(id.dev)
<1>1. toInternal' \in Seq(HandlerEntries)
  BY DEF IndInv, TypeOK, ListenToResponse
<1>2. UNCHANGED <<phase, inbox, open, deviceId, connectedDevices, fromInternal, known, stopped>>
  BY DEF ListenToResponse
<1>3. \/ ready' = ready
      \/ e \in connectedDevices /\ e \in Conns /\ ready' = [ready EXCEPT ![e] = TRUE]
  <2>1. e # NoConn => e \in connectedDevices /\ e \in Conns
    BY FindConnectionResult DEF IndInv, TypeOK
  <2> QED
    BY <2>1 DEF ListenToResponse, ValidateResponse
<1> HIDE DEF e
<1>4. TypeOK'
  BY <1>1, <1>2, <1>3 DEF IndInv, TypeOK
<1>5. ReadyHasId'
  BY <1>2, <1>3 DEF IndInv, TypeOK, ReadyHasId, EntryServed
<1>6. NewIsOpen' /\ InboxFilled' /\ EntryServed' /\ UniqueDevice'
  BY <1>2 DEF IndInv, NewIsOpen, InboxFilled, EntryServed, UniqueDevice
<1>7. ReadsOnlyWhenReady'
  BY <1>2, <1>3 DEF IndInv, TypeOK, ReadsOnlyWhenReady
<1> QED
  BY <1>4, <1>5, <1>6, <1>7 DEF IndInv

\* The module handler touches the queues and its own state only.
LEMMA HandlerPreserves ==
    ASSUME IndInv, HandlerNext
    PROVE  IndInv'
<1>1. UNCHANGED <<phase, inbox, open, deviceId, ready, connectedDevices, stopped>>
  BY DEF HandlerNext, HandlerConnect, HandlerStatus, HandlerStatusDropped, HandlerDisconnect,
         HandlerTakes, HandlerForward, HandlerTimeout
<1>2. /\ fromInternal' \in Seq(ClientEntries)
      /\ toInternal' \in Seq(HandlerEntries)
      /\ known' \in SUBSET Devices
  <2>1. CASE HandlerConnect \/ HandlerStatus \/ HandlerStatusDropped \/ HandlerDisconnect
    <3>1. /\ fromInternal # <<>>
          /\ fromInternal' = Tail(fromInternal)
      BY <2>1 DEF HandlerConnect, HandlerStatus, HandlerStatusDropped, HandlerDisconnect,
                  HandlerTakes
    <3>2. Head(fromInternal) \in ClientEntries /\ fromInternal' \in Seq(ClientEntries)
      BY <3>1 DEF IndInv, TypeOK
    <3>3. Head(fromInternal).id \in Ids /\ Head(fromInternal).id.dev \in Devices
      BY <3>2 DEF ClientEntries, Ids
    <3>4. ToServer("response", Head(fromInternal).id) \in Seq(HandlerEntries)
      <4>1. [kind |-> "response", id |-> Head(fromInternal).id] \in HandlerEntries
        BY <3>3 DEF HandlerEntries
      <4> QED
        BY <4>1 DEF IndInv, TypeOK, ToServer
    <3> QED
      BY <2>1, <3>2, <3>3, <3>4 DEF IndInv, TypeOK, HandlerConnect, HandlerStatus,
         HandlerStatusDropped, HandlerDisconnect
  <2>2. CASE \E id \in Ids : HandlerForward(id) \/ HandlerTimeout(id)
    <3>0. PICK id \in Ids : HandlerForward(id) \/ HandlerTimeout(id)
      BY <2>2
    <3>1. /\ [kind |-> "response", id |-> id] \in HandlerEntries
          /\ [kind |-> "disconnect", id |-> id] \in HandlerEntries
      BY DEF HandlerEntries
    <3> QED
      <4>1. toInternal' \in Seq(HandlerEntries)
        BY <3>0, <3>1, QueueType DEF IndInv, TypeOK, HandlerForward, HandlerTimeout, ToServer
      <4>2. UNCHANGED <<fromInternal, known>>
        BY <3>0 DEF HandlerForward, HandlerTimeout
      <4> QED
        BY <4>1, <4>2 DEF IndInv, TypeOK
  <2> QED
    BY <2>1, <2>2 DEF HandlerNext
<1>3. TypeOK'
  BY <1>1, <1>2 DEF IndInv, TypeOK
<1> QED
  BY <1>1, <1>3 DEF IndInv, ReadyHasId, NewIsOpen, InboxFilled, ReadsOnlyWhenReady,
                    EntryServed, UniqueDevice

\* Every step of the server, its clients and the module handler preserves IndInv.
LEMMA NextIndInv == IndInv /\ [Next]_vars => IndInv'
<1> SUFFICES ASSUME IndInv, [Next]_vars PROVE IndInv'
  OBVIOUS
<1>1. CASE \E c \in Conns : ConnNext(c)
  BY <1>1, AcceptPreserves, DataReceivedPreserves, ReceiveErrorPreserves, HandleBadPreserves,
     RejectStatusPreserves, HandleStatusPreserves, RejectConnectionPreserves,
     HandleConnectionPreserves, ChangeConnectionPreserves, ResponseReadyPreserves,
     ResponseTimeoutPreserves, RemoveFailedPreserves DEF ConnNext
<1>2. CASE ListenToDisconnect
  BY <1>2, ListenToDisconnectPreserves
<1>3. CASE ListenToResponse
  BY <1>3, ListenToResponsePreserves
<1>4. CASE HandlerNext
  BY <1>4, HandlerPreserves
<1>5. CASE Stop
  BY <1>5 DEF Stop, IndInv, TypeOK, ReadyHasId, NewIsOpen, InboxFilled, ReadsOnlyWhenReady,
              EntryServed, UniqueDevice
<1>6. CASE UNCHANGED vars
  BY <1>6 DEF vars, IndInv, TypeOK, ReadyHasId, NewIsOpen, InboxFilled, ReadsOnlyWhenReady,
              EntryServed, UniqueDevice
<1> QED
  BY <1>1, <1>2, <1>3, <1>4, <1>5, <1>6 DEF Next

\* The inductive invariant holds in every reachable state of the internal server.
LEMMA IndInvAlways == Spec => []IndInv
BY InitIndInv, NextIndInv, PTL DEF Spec

-----------------------------------------------------------------------------
(* The theorems *)

\* Every variable of the internal server stays in its domain; in particular no entry
\* without an identification is ever pushed to the module handler.
THEOREM TypeCorrect == Spec => []TypeOK
<1>1. IndInv => TypeOK
  BY DEF IndInv
<1> QED
  BY <1>1, IndInvAlways, PTL

\* connectedDevices_ never holds two connections of one device.
THEOREM OneConnectionPerDevice == Spec => []UniqueDevice
<1>1. IndInv => UniqueDevice
  BY DEF IndInv
<1> QED
  BY <1>1, IndInvAlways, PTL

\* Every entry of connectedDevices_ is an open connection that is still being served.
THEOREM EntriesAreServed == Spec => []EntryServed
<1>1. IndInv => EntryServed
  BY DEF IndInv
<1> QED
  BY <1>1, IndInvAlways, PTL

\* The server reads on from a connection with a device only after a response.
THEOREM BackPressure == Spec => []ReadsOnlyWhenReady
<1>1. IndInv => ReadsOnlyWhenReady
  BY DEF IndInv
<1> QED
  BY <1>1, IndInvAlways, PTL

\* A device changes hands in one step only towards a strictly higher priority.
THEOREM TakeoverIsStrict == Spec => TakeoverRaisesPriority
<1> DEFINE Strict ==
       \A c \in connectedDevices \ connectedDevices' :
          \A e \in connectedDevices' \ connectedDevices :
             deviceId[c].dev = deviceId'[e].dev => deviceId'[e].prio < deviceId[c].prio
<1>1. IndInv /\ [Next]_vars => Strict
  <2> SUFFICES ASSUME IndInv, [Next]_vars,
                      NEW c \in connectedDevices \ connectedDevices',
                      NEW e \in connectedDevices' \ connectedDevices,
                      deviceId[c].dev = deviceId'[e].dev
               PROVE  deviceId'[e].prio < deviceId[c].prio
    OBVIOUS
  <2>1. PICK a \in Conns : HandleConnection(a) \/ ChangeConnection(a)
    BY DEF Next, vars, ConnNext, Accept, DataReceived, ReceiveError, RemoveFailed,
           RemoveConnFromMap, HandleBad, RejectStatus, RejectConnection, Fail, HandleStatus,
           ResponseReady, ResponseTimeout, ListenToDisconnect, HandleDisconnect,
           ListenToResponse, HandlerNext, HandlerConnect, HandlerStatus,
           HandlerStatusDropped, HandlerDisconnect, HandlerTakes, HandlerForward,
           HandlerTimeout, Stop
  <2>2. ChangeConnection(a)
    BY <2>1 DEF HandleConnection
  <2> DEFINE id == Head(inbox[a]).id
  <2>3. e = a /\ deviceId'[e] = id
    BY <2>2 DEF IndInv, TypeOK, ChangeConnection, ConnectNewDevice
  <2>4. c = FindConnection(id.dev)
    BY <2>3, FindConnectionResult DEF IndInv, UniqueDevice, ChangeConnection
  <2> QED
    BY <2>2, <2>3, <2>4 DEF ChangeConnection
<1>2. Spec => [][Strict]_vars
  BY <1>1, IndInvAlways, PTL DEF Spec
<1> QED
  BY <1>2 DEF TakeoverRaisesPriority
=============================================================================
