--------------------------- MODULE DeviceRegistry ---------------------------
(***************************************************************************)
(* What the internal server promises the module handler, without           *)
(* connections, threads or responses: each device has at most one owner,   *)
(* known by its priority; ownership only passes directly to a strictly     *)
(* higher priority; and every change of owner is announced, in order, by   *)
(* connect and disconnect events, with the statuses between them.  Module  *)
(* InternalServer implements it.                                           *)
(***************************************************************************)
EXTENDS Naturals, Sequences

CONSTANTS
    Devices,
    Prios,          \* the smaller number is the higher priority
    NoPrio          \* the device has no owner

VARIABLES
    owner,      \* owner[d]: priority of the connection that owns d, or NoPrio
    events      \* announcements and statuses the module handler has not taken yet

registryVars == <<owner, events>>

Event(kind, d, p) == [kind |-> kind, id |-> [dev |-> d, prio |-> p]]

RegistryInit ==
    /\ owner = [d \in Devices |-> NoPrio]
    /\ events = <<>>

\* A device nobody owns is taken (handleConnection, connectNewDevice).
Register(d, p) ==
    /\ owner[d] = NoPrio
    /\ owner' = [owner EXCEPT ![d] = p]
    /\ events' = Append(events, Event("connect", d, p))

\* A higher priority takes the device over (changeConnection).
Takeover(d, p) ==
    /\ owner[d] # NoPrio
    /\ p < owner[d]
    /\ owner' = [owner EXCEPT ![d] = p]
    /\ events' = Append(Append(events, Event("disconnect", d, owner[d])),
                        Event("connect", d, p))

\* The owner is gone (removeConnFromMap).
Unregister(d) ==
    /\ owner[d] # NoPrio
    /\ owner' = [owner EXCEPT ![d] = NoPrio]
    /\ events' = Append(events, Event("disconnect", d, owner[d]))

\* A status is passed on; its sender may have lost the device by now (handleStatus).
Report(d, p) ==
    /\ events' = Append(events, Event("status", d, p))
    /\ UNCHANGED owner

\* The module handler takes the next event.
Observe ==
    /\ events # <<>>
    /\ events' = Tail(events)
    /\ UNCHANGED owner

RegistryNext ==
    \/ \E d \in Devices, p \in Prios : Register(d, p) \/ Takeover(d, p) \/ Report(d, p)
    \/ \E d \in Devices : Unregister(d)
    \/ Observe

RegistrySpec == RegistryInit /\ [][RegistryNext]_registryVars

-----------------------------------------------------------------------------
\* The i-th event announces a change of d's owner.
Announces(i, d) == events[i].kind # "status" /\ events[i].id.dev = d

\* The module handler is told of owners in turn: for each device the pending
\* connects and disconnects alternate, a disconnect names the identification of the
\* connect before it, and the last of them tells the present owner.
EventsAlternate ==
    \A d \in Devices, i \in 1..Len(events) :
        Announces(i, d) =>
            /\ \A j \in (i + 1)..Len(events) :
                  Announces(j, d) /\ (\A k \in (i + 1)..(j - 1) : ~Announces(k, d)) =>
                      /\ events[i].kind # events[j].kind
                      /\ events[i].kind = "connect" => events[i].id = events[j].id
            /\ (\A j \in (i + 1)..Len(events) : ~Announces(j, d)) =>
                  owner[d] = IF events[i].kind = "connect" THEN events[i].id.prio ELSE NoPrio
=============================================================================
