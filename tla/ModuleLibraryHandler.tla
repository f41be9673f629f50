------------------------ MODULE ModuleLibraryHandler ------------------------
(***************************************************************************)
(* What the calls of a module's library return to the status aggregator    *)
(* and the module handler, through either handler: in process              *)
(* (ModuleManagerLibraryHandlerLocal.cpp) the library's own answer, through *)
(* the module binary (ModuleManagerLibraryHandlerAsync.cpp) NOT_OK while   *)
(* the binary gives no answer in time.  Which library is loaded, and so    *)
(* what it answers, is open; device types of the model are supported.      *)
(*                                                                         *)
(* A call's result is its return code and the Buffer it has written.  A    *)
(* library that answers OK without a buffer breaks its contract            *)
(* (constructBufferByTakeOwnership throws) and is left out.                *)
(***************************************************************************)
CONSTANT
    Empty   \* the unallocated Buffer

VARIABLES
    libraryHandler,   \* local or async: is module-binary-path configured?
    responding        \* the module binary answers; always so for a local library

Ok(buffer) == [ok |-> TRUE, buffer |-> buffer]
NotOk(buffer) == [ok |-> FALSE, buffer |-> buffer]

\* A call the library may answer with OK and yes or with NOT_OK and no; without an answer
\* it is the latter (value_or(NOT_OK)).
Call(yes, no) == IF responding THEN {yes, no} ELSE {no}

IsDeviceTypeSupported == responding

\* The library decides.
StatusDataValid == Call(TRUE, FALSE)
SendStatusCondition == Call(TRUE, FALSE)

\* aggregateStatus: the current status stays when the call fails.
AggregateStatus(current, new) == Call(Ok(new), NotOk(current))

\* generateCommand: from an external or the default command; nothing when it fails.
GenerateCommand(command) == Call(Ok(command), NotOk(Empty))

\* generateFirstCommand: the command a module generates by itself is Empty.
GenerateFirstCommand == Call(Ok(Empty), NotOk(Empty))

\* forwardCommandOnReceive: the sets of devices for which it may answer OK; optional in a
\* library and never asked of the module binary.
ForwardCommandOnReceive(devices) == IF libraryHandler = "async" THEN {{}} ELSE SUBSET devices
=============================================================================
