------------------------------ MODULE Startup ------------------------------
(***************************************************************************)
(* main (main.cpp) with the settings (SettingsParser.cpp), the module      *)
(* libraries and their handlers (ModuleLibrary.cpp,                        *)
(* ModuleManagerLibraryHandlerLocal.cpp, ...Async.cpp) from start to exit. *)
(*                                                                         *)
(* main's position:                                                        *)
(*   parse     parseSettings;                                              *)
(*   load      loadLibraries;                                              *)
(*   init      initStatusAggregators;                                      *)
(*   running   the threads run;                                            *)
(*   stopping  the io_context is stopped, main joins the threads;          *)
(*   joined    destroy of the three components;                            *)
(*   cleanup   the objects on main's stack are destroyed;                  *)
(*   exited    main has returned.                                          *)
(*                                                                         *)
(* With a module binary every library lives in a child process that is     *)
(* called through shared memory (Aeron, external): a call may get no       *)
(* answer, and the process may end at any time.                            *)
(***************************************************************************)
EXTENDS Naturals, Sequences

CONSTANTS
    Modules,    \* module numbers
    Configs,    \* command lines and configuration files, see below
    NoModule    \* no module is being loaded

\* What of a start's input decides its course: the arguments (help asked for, correct),
\* the file (read and of the right types), the log path and the names acceptable, the
\* module binary, the modules with a library path, the endpoints in their order.
ASSUME ConfigsAssumption ==
    /\ NoModule \notin Modules
    /\ Configs \subseteq
          [help : BOOLEAN, arguments : BOOLEAN, file : BOOLEAN, logPath : BOOLEAN,
           names : BOOLEAN, binary : {"none", "missing", "exists"},
           modulePaths : SUBSET Modules,
           endpoints : Seq([protocol : {"MQTT", "QUIC", "DUMMY", "INVALID"},
                            modules : SUBSET Modules])]

VARIABLES
    config,       \* the input, chosen at the start
    main,         \* main's position
    connections,  \* settings->externalConnectionSettingsList
    loading,      \* the module whose binary is awaited
    handlers,     \* keys of moduleLibraryHandlers
    uninitialized,\* handlers initStatusAggregators has still to visit
    aggregators,  \* keys of statusAggregators
    child         \* child[m]: m's process: none, running, or dead and not waited for

startupVars == <<config, main, connections, loading, handlers, uninitialized, aggregators, child>>

StartupInit ==
    /\ config \in Configs
    /\ main = "parse"
    /\ connections = <<>>
    /\ loading = NoModule
    /\ handlers = {}
    /\ uninitialized = {}
    /\ aggregators = {}
    /\ child = [m \in Modules |-> "none"]

-----------------------------------------------------------------------------
(* Settings *)

\* fillExternalConnectionSettings: an endpoint of unknown protocol is skipped.
FillExternalConnectionSettings(endpoints) ==
    SelectSeq(endpoints, LAMBDA e : e.protocol # "INVALID")

ExternalConnectionSettings == FillExternalConnectionSettings(config.endpoints)

EndpointModules(list) == UNION {list[i].modules : i \in 1..Len(list)}

\* Mutant of AreSettingsCorrect: the endpoints' modules are not looked up.
AreSettingsCorrectUnchecked ==
    /\ config.logPath /\ config.names
    /\ config.modulePaths # {}
    /\ config.binary # "missing"

\* areSettingsCorrect, all of its tests.
AreSettingsCorrect ==
    /\ config.logPath /\ config.names
    /\ config.modulePaths # {}
    /\ config.binary # "missing"
    /\ EndpointModules(ExternalConnectionSettings) \subseteq config.modulePaths

\* parseSettings returns true, and main goes on.
ParseSettings ==
    /\ main = "parse"
    /\ ~config.help /\ config.arguments /\ config.file
    /\ AreSettingsCorrect
    /\ connections' = ExternalConnectionSettings
    /\ main' = "load"
    /\ UNCHANGED <<config, loading, handlers, uninitialized, aggregators, child>>

\* parseSettings returns false (help) or throws: main returns 0 or 1.
SettingsRejected ==
    /\ main = "parse"
    /\ config.help \/ ~config.arguments \/ ~config.file \/ ~AreSettingsCorrect
    /\ main' = "exited"
    /\ UNCHANGED <<config, connections, loading, handlers, uninitialized, aggregators, child>>

-----------------------------------------------------------------------------
(* loadLibraries *)

Unloaded == config.modulePaths \ handlers

\* An exception leaves loadLibraries: main returns 1.
LoadThrows ==
    /\ main' = "cleanup"
    /\ loading' = NoModule
    /\ UNCHANGED <<config, connections, handlers, uninitialized, aggregators, child>>

\* Local: the library opens, has all its functions and the configured number.
LoadLocal(m) ==
    /\ main = "load" /\ loading = NoModule
    /\ config.binary = "none"
    /\ m \in Unloaded
    /\ handlers' = handlers \cup {m}
    /\ UNCHANGED <<config, main, connections, loading, uninitialized, aggregators, child>>

\* Local: the library or a function is missing, or the number is another.  Async: the
\* process cannot be started.
LoadFails ==
    /\ main = "load" /\ loading = NoModule
    /\ Unloaded # {}
    /\ LoadThrows

\* Async: the process is started and polled.
SpawnModuleBinary(m) ==
    /\ main = "load" /\ loading = NoModule
    /\ config.binary = "exists"
    /\ m \in Unloaded
    /\ loading' = m
    /\ child' = [child EXCEPT ![m] = "running"]
    /\ UNCHANGED <<config, main, connections, handlers, uninitialized, aggregators>>

\* A poll is answered, and so is the question for the number.
ModuleAnswers ==
    /\ loading # NoModule
    /\ child[loading] = "running"
    /\ handlers' = handlers \cup {loading}
    /\ loading' = NoModule
    /\ UNCHANGED <<config, main, connections, uninitialized, aggregators, child>>

\* A poll is answered and the number is another, or its call gets no answer (NOT_OK).
NumberMismatch ==
    /\ loading # NoModule
    /\ child[loading] = "running"
    /\ LoadThrows

\* running() finds the process ended, and has thereby waited for it.
ModuleBinaryTerminated ==
    /\ loading # NoModule
    /\ child[loading] = "dead"
    /\ main' = "cleanup"
    /\ loading' = NoModule
    /\ child' = [child EXCEPT ![loading] = "none"]
    /\ UNCHANGED <<config, connections, handlers, uninitialized, aggregators>>

\* Mutant of Deadline: polling goes on as long as the process lives.
DeadlineNever == FALSE

\* aeron_client_startup_timeout passes sooner or later.
Deadline == TRUE

StartupTimeout ==
    /\ loading # NoModule
    /\ Deadline
    /\ LoadThrows

\* External: a module's process ends.
ModuleBinaryDies(m) ==
    /\ main # "exited"
    /\ child[m] = "running"
    /\ child' = [child EXCEPT ![m] = "dead"]
    /\ UNCHANGED <<config, main, connections, loading, handlers, uninitialized, aggregators>>

LibrariesLoaded ==
    /\ main = "load" /\ loading = NoModule
    /\ Unloaded = {}
    /\ main' = "init"
    /\ uninitialized' = handlers
    /\ UNCHANGED <<config, connections, loading, handlers, aggregators, child>>

-----------------------------------------------------------------------------
(* initStatusAggregators *)

Visited(m) ==
    /\ main = "init"
    /\ m \in uninitialized
    /\ uninitialized' = uninitialized \ {m}
    /\ UNCHANGED <<config, main, connections, loading, handlers, child>>

\* A module with an endpoint gets its status aggregator.
InitStatusAggregator(m) ==
    /\ Visited(m)
    /\ m \in EndpointModules(connections)
    /\ aggregators' = aggregators \cup {m}

\* A module without one is skipped; so is one whose process does not answer in time,
\* for NOT_OK is taken for its number.
SkipModule(m) ==
    /\ Visited(m)
    /\ m \notin EndpointModules(connections) \/ config.binary = "exists"
    /\ UNCHANGED aggregators

-----------------------------------------------------------------------------
(* Running and stopping *)

\* Queues, components and threads are created; InternalServer::run may throw, which
\* stops the io_context at once.
Start ==
    /\ main = "init"
    /\ uninitialized = {}
    /\ main' \in {"running", "stopping"}
    /\ UNCHANGED <<config, connections, loading, handlers, uninitialized, aggregators, child>>

\* SIGINT or SIGTERM.
Signal ==
    /\ main = "running"
    /\ main' = "stopping"
    /\ UNCHANGED <<config, connections, loading, handlers, uninitialized, aggregators, child>>

\* Both io threads, the external client's and the module handler's thread are joined.
JoinThreads ==
    /\ main = "stopping"
    /\ main' = "joined"
    /\ UNCHANGED <<config, connections, loading, handlers, uninitialized, aggregators, child>>

\* internalServer.destroy, moduleHandler.destroy, externalClient.destroy.
DestroyComponents ==
    /\ main = "joined"
    /\ main' = "cleanup"
    /\ UNCHANGED <<config, connections, loading, handlers, uninitialized, aggregators, child>>

\* Mutant of Owned: only the handlers that were registered own a process.
OwnedRegistered == {m \in handlers : child[m] # "none"}

\* Processes some handler object owns, that of a failed load included.
Owned == {m \in Modules : child[m] # "none"}

\* A handler is destroyed: SIGTERM, and wait returns once the process has ended.
DestroyHandler(m) ==
    /\ main = "cleanup"
    /\ m \in Owned
    /\ child' = [child EXCEPT ![m] = "none"]
    /\ UNCHANGED <<config, main, connections, loading, handlers, uninitialized, aggregators>>

Return ==
    /\ main = "cleanup"
    /\ Owned = {}
    /\ main' = "exited"
    /\ UNCHANGED <<config, connections, loading, handlers, uninitialized, aggregators, child>>

\* Steps of loadLibraries that wait for no process.
LoadStep ==
    \/ \E m \in Modules : LoadLocal(m) \/ SpawnModuleBinary(m)
    \/ LoadFails \/ LibrariesLoaded

\* Steps that a module's process takes, or takes part in.
ModuleStep ==
    \/ ModuleAnswers \/ NumberMismatch
    \/ \E m \in Modules : ModuleBinaryDies(m)

\* What ends the polling without the process.
PollEnds == ModuleBinaryTerminated \/ StartupTimeout

InitStep ==
    \/ \E m \in Modules : InitStatusAggregator(m) \/ SkipModule(m)
    \/ Start

-----------------------------------------------------------------------------
(* Properties *)

\* Once threads run, each module of an endpoint has its library handler:
\* ExternalConnection::init takes moduleLibraryHandlers[moduleNum], which would make up
\* a null handler.
EndpointsHaveLibraries ==
    main \in {"running", "stopping", "joined"} =>
        \A i \in 1..Len(connections) : connections[i].modules \subseteq handlers

\* No module process is left running or unwaited for when main has returned, on any
\* path: a load that failed half-way, a process that died, an ordinary stop.
ChildrenReaped ==
    main = "exited" => \A m \in Modules : child[m] = "none"

\* Loading comes to an end although a module's process may never answer
\* (aeron_client_startup_timeout): the gateway runs or exits.
StartupEnds == main = "load" ~> main \in {"running", "stopping", "cleanup"}

=============================================================================
