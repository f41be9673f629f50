-------------------------- MODULE StatusAggregator --------------------------
(***************************************************************************)
(* The status aggregator of one module                                     *)
(* (source/bringauto/modules/StatusAggregator.cpp) and the state it keeps  *)
(* per device (structures/StatusAggregatorDeviceState.cpp, ThreadTimer.cpp)*)
(* Every operation runs under devicesMutex_, so each is one step; module   *)
(* ModuleHandler gives the threads that call them.                         *)
(*                                                                         *)
(* A Buffer is a number: statuses are numbered per device in the order the *)
(* device sent them, external commands in the order they arrived; Empty is *)
(* the unallocated Buffer, and as a command the one the module generates   *)
(* by itself.  The calls of the module's library are module                *)
(* ModuleLibraryHandler.                                                   *)
(***************************************************************************)
EXTENDS Naturals, Sequences, FiniteSets

CONSTANTS
    Devices,              \* device identifications (module, type, role)
    MaxExternalCommands,  \* settings::max_external_commands
    MaxTimeoutCount,      \* settings::status_aggregation_timeout_max_count
    LibraryHandlers       \* kinds of library handler a start may choose

ASSUME AggregatorAssumption ==
    /\ MaxExternalCommands \in Nat \ {0}
    /\ MaxTimeoutCount \in Nat \ {0}
    /\ LibraryHandlers \subseteq {"local", "async"}

Empty == 0

VARIABLES
    libraryHandler, responding,  \* module_, see module ModuleLibraryHandler
    held,            \* keys of devices
    status,          \* status_ of each held device
    messages,        \* aggregatedMessages_
    commands,        \* externalCommandQueue_
    defaultCommand,  \* defaultCommand_
    timeouts,        \* deviceTimeouts_; entries outlive their device
    timeoutedReady,  \* timeoutedMessageReady_
    ticking,         \* devices whose timer callback waits for devicesMutex_
    erasures         \* erasures[d]: posted erase(d) the io_context has not run

Library == INSTANCE ModuleLibraryHandler

aggVars == <<held, status, messages, commands, defaultCommand, timeouts,
             timeoutedReady, ticking, erasures>>

AggInit ==
    /\ libraryHandler \in LibraryHandlers
    /\ responding = TRUE
    /\ held = {}
    /\ status = [d \in Devices |-> Empty]
    /\ messages = [d \in Devices |-> <<>>]
    /\ commands = [d \in Devices |-> <<>>]
    /\ defaultCommand = [d \in Devices |-> Empty]
    /\ timeouts = [d \in Devices |-> 0]
    /\ timeoutedReady = FALSE
    /\ ticking = {}
    /\ erasures = [d \in Devices |-> 0]

AggTypeOK ==
    /\ libraryHandler \in LibraryHandlers
    /\ responding \in BOOLEAN
    /\ held \in SUBSET Devices
    /\ status \in [Devices -> Nat]
    /\ messages \in [Devices -> Seq(Nat)]
    /\ commands \in [Devices -> Seq(Nat)]
    /\ defaultCommand \in [Devices -> Nat]
    /\ timeouts \in [Devices -> Nat]
    /\ timeoutedReady \in BOOLEAN
    /\ ticking \in SUBSET Devices
    /\ erasures \in [Devices -> Nat]

-----------------------------------------------------------------------------
(* Statuses *)

\* isDeviceValidUnlocked.
IsDeviceValid(d) == Library!IsDeviceTypeSupported /\ d \in held

\* add_status_to_aggregator for a device that is not held: the first status is also
\* the first aggregated message.
AddFirstStatus(d, n) ==
    /\ Library!IsDeviceTypeSupported
    /\ d \notin held
    /\ \E first \in Library!GenerateFirstCommand :
          /\ first.ok
          /\ defaultCommand' = [defaultCommand EXCEPT ![d] = first.buffer]
    /\ held' = held \cup {d}
    /\ status' = [status EXCEPT ![d] = n]
    /\ messages' = [messages EXCEPT ![d] = <<n>>]
    /\ commands' = [commands EXCEPT ![d] = <<>>]
    /\ timeouts' = [timeouts EXCEPT ![d] = 0]
    /\ UNCHANGED <<timeoutedReady, ticking, erasures>>

\* add_status_to_aggregator for a held device; if the module wants the status sent the
\* result is queued as well.
AddNextStatus(d, n, send) ==
    /\ IsDeviceValid(d)
    /\ \E aggregated \in Library!AggregateStatus(status[d], n) :
          /\ status' = [status EXCEPT ![d] = aggregated.buffer]
          /\ messages' = IF send THEN [messages EXCEPT ![d] = Append(@, aggregated.buffer)]
                         ELSE messages
    /\ timeouts' = [timeouts EXCEPT ![d] = 0]
    /\ UNCHANGED <<held, commands, defaultCommand, timeoutedReady, ticking, erasures>>

\* add_status_to_aggregator when generateFirstCommand fails (COMMAND_INVALID).
AddStatusRefused(d) ==
    /\ Library!IsDeviceTypeSupported
    /\ d \notin held
    /\ \E first \in Library!GenerateFirstCommand : ~first.ok
    /\ timeouts' = [timeouts EXCEPT ![d] = 0]
    /\ UNCHANGED <<held, status, messages, commands, defaultCommand,
                   timeoutedReady, ticking, erasures>>

\* What get_aggregated_status writes to its Buffer: the oldest message, or nothing if
\* the device is not valid or has no message.
OldestMessage(d) ==
    IF IsDeviceValid(d) /\ messages[d] # <<>> THEN Head(messages[d]) ELSE Empty

\* get_aggregated_status takes that message.
TakeMessage(d) ==
    /\ messages' = IF IsDeviceValid(d) /\ messages[d] # <<>>
                   THEN [messages EXCEPT ![d] = Tail(@)] ELSE messages
    /\ UNCHANGED <<held, status, commands, defaultCommand, timeouts,
                   timeoutedReady, ticking, erasures>>

\* Mutant of Forced: the forced message jumps the queue.
ForcedFirst(d) ==
    IF IsDeviceValid(d) THEN [messages EXCEPT ![d] = <<status[d]>> \o @] ELSE messages

\* forceAggregationOnDeviceUnlocked: the current status becomes a message.
Forced(d) ==
    IF IsDeviceValid(d) THEN [messages EXCEPT ![d] = Append(@, status[d])] ELSE messages

\* force_aggregation_on_device.
ForceAggregation(d) ==
    /\ messages' = Forced(d)
    /\ UNCHANGED <<held, status, commands, defaultCommand, timeouts,
                   timeoutedReady, ticking, erasures>>

-----------------------------------------------------------------------------
(* Removal *)

\* remove_device: drop the messages now, the device when the io_context gets to it.
RemoveDevice(d) ==
    /\ messages' = IF IsDeviceValid(d) THEN [messages EXCEPT ![d] = <<>>] ELSE messages
    /\ erasures' = [erasures EXCEPT ![d] = IF IsDeviceValid(d) THEN @ + 1 ELSE @]
    /\ UNCHANGED <<held, status, commands, defaultCommand, timeouts, timeoutedReady, ticking>>

\* The posted erase.
EraseDevice(d) ==
    /\ erasures[d] > 0
    /\ erasures' = [erasures EXCEPT ![d] = @ - 1]
    /\ held' = held \ {d}
    /\ status' = [status EXCEPT ![d] = Empty]
    /\ messages' = [messages EXCEPT ![d] = <<>>]
    /\ commands' = [commands EXCEPT ![d] = <<>>]
    /\ defaultCommand' = [defaultCommand EXCEPT ![d] = Empty]
    /\ UNCHANGED <<timeouts, timeoutedReady, ticking>>

-----------------------------------------------------------------------------
(* The no-aggregation timer: its callback raises the flag before it locks *)

\* tick, up to the lock.
TimerExpires(d) ==
    /\ d \in held \ ticking
    /\ timeoutedReady' = TRUE
    /\ ticking' = ticking \cup {d}
    /\ UNCHANGED <<held, status, messages, commands, defaultCommand, timeouts, erasures>>

\* Mutant of TimerForces: the expiry is counted, nothing is forced.
TimerForcesNothing(d) ==
    /\ d \in ticking
    /\ ticking' = ticking \ {d}
    /\ timeouts' = [timeouts EXCEPT ![d] = IF @ = MaxTimeoutCount THEN @ ELSE @ + 1]
    /\ UNCHANGED <<held, status, messages, commands, defaultCommand, timeoutedReady, erasures>>

\* Mutant of TimerForces: the expiry is not counted.
TimerForcesUncounted(d) ==
    /\ d \in ticking
    /\ ticking' = ticking \ {d}
    /\ messages' = Forced(d)
    /\ UNCHANGED <<held, status, commands, defaultCommand, timeouts, timeoutedReady, erasures>>

\* The rest of the callback, under the lock: count the expiry (bound: up to
\* MaxTimeoutCount, the only value the count is compared with) and force aggregation.
TimerForces(d) ==
    /\ d \in ticking
    /\ ticking' = ticking \ {d}
    /\ timeouts' = [timeouts EXCEPT ![d] = IF @ = MaxTimeoutCount THEN @ ELSE @ + 1]
    /\ messages' = Forced(d)
    /\ UNCHANGED <<held, status, commands, defaultCommand, timeoutedReady, erasures>>

\* unsetTimeoutedMessageReady.
UnsetTimeoutedReady ==
    /\ timeoutedReady' = FALSE
    /\ UNCHANGED <<held, status, messages, commands, defaultCommand, timeouts, ticking, erasures>>

-----------------------------------------------------------------------------
(* Commands *)

\* Mutant of Enqueued: a full queue drops the command that arrives.
EnqueuedOrDropped(q, c) ==
    IF Len(q) < MaxExternalCommands THEN Append(q, c) ELSE q

\* Mutant of Enqueued: a stack in place of the queue.
EnqueuedFirst(q, c) ==
    IF Len(q) < MaxExternalCommands THEN <<c>> \o q ELSE <<c>> \o SubSeq(q, 1, Len(q) - 1)

\* addExternalCommand: the oldest command leaves a full queue.
Enqueued(q, c) ==
    IF Len(q) < MaxExternalCommands THEN Append(q, c) ELSE Append(Tail(q), c)

\* update_command for a valid device and valid data.
UpdateCommand(d, c) ==
    /\ IsDeviceValid(d)
    /\ commands' = [commands EXCEPT ![d] = Enqueued(@, c)]
    /\ UNCHANGED <<held, status, messages, defaultCommand, timeouts,
                   timeoutedReady, ticking, erasures>>

\* Mutant of ConsumeCommand: the command stays in the queue.
ConsumeCommandPeek(d) ==
    /\ defaultCommand' = [defaultCommand EXCEPT ![d] =
                             IF commands[d] # <<>> THEN Head(commands[d]) ELSE @]
    /\ UNCHANGED <<held, status, messages, commands, timeouts, timeoutedReady, ticking, erasures>>

\* consumeCommand: the next external command becomes the default command.
ConsumeCommand(d) ==
    /\ defaultCommand' = [defaultCommand EXCEPT ![d] =
                             IF commands[d] # <<>> THEN Head(commands[d]) ELSE @]
    /\ commands' = [commands EXCEPT ![d] = IF @ # <<>> THEN Tail(@) ELSE @]
    /\ UNCHANGED <<held, status, messages, timeouts, timeoutedReady, ticking, erasures>>

\* What consumeCommand returns: nothing (std::nullopt) for a push-only device without
\* a pending command, else the next external or the default command.
HasCommand(d, push) == commands[d] # <<>> \/ ~push
NextCommand(d) == IF commands[d] # <<>> THEN Head(commands[d]) ELSE defaultCommand[d]
=============================================================================
