--------------------------- MODULE StatusDelivery ---------------------------
(***************************************************************************)
(* What the external client promises about the statuses of the devices,    *)
(* without connections, sessions, counters, threads or time-outs: a status *)
(* leaves the queue once and is then awaited (sent, without response) or   *)
(* kept (in the error aggregator), until the server acknowledges it or a   *)
(* connect sequence, which reports what is kept, has succeeded.  Module    *)
(* ExternalConnection implements it.                                       *)
(*                                                                         *)
(* A status is a pair of its device and its number, counted per device.    *)
(***************************************************************************)
EXTENDS Naturals

CONSTANT Devices

VARIABLES
    issued,     \* issued[d]: statuses the device has sent
    queued,     \* statuses the client thread has not dealt with yet
    awaited,    \* statuses sent that wait for their response
    kept,       \* statuses the error aggregator has
    settled     \* statuses acknowledged, or kept when a connect sequence succeeded

deliveryVars == <<issued, queued, awaited, kept, settled>>

DeliveryInit ==
    /\ issued = [d \in Devices |-> 0]
    /\ queued = {} /\ awaited = {} /\ kept = {} /\ settled = {}

\* The module handler queues the next status of d (sendAggregatedMessage).
Issue(d) ==
    /\ issued' = [issued EXCEPT ![d] = @ + 1]
    /\ queued' = queued \cup {<<d, issued[d] + 1>>}
    /\ UNCHANGED <<awaited, kept, settled>>

\* The status s is sent; the first of an unregistered device is kept as well (sendStatus).
Send(s) ==
    /\ queued' = queued \ {s}
    /\ awaited' = awaited \cup {s}
    /\ kept' \in {kept, kept \cup {s}}
    /\ UNCHANGED <<issued, settled>>

\* What is awaited is given up and kept, with statuses from the queue that are not sent at
\* all (fillErrorAggregator, fillErrorAggregatorWithNotAckedStatuses).
Keep(S) ==
    /\ queued' = queued \ S
    /\ kept' = kept \cup awaited \cup S
    /\ awaited' = {}
    /\ UNCHANGED <<issued, settled>>

\* A connect sequence sends a status that is kept (statusMessageHandle).
Announce(s) ==
    /\ awaited' = awaited \cup {s}
    /\ UNCHANGED <<issued, queued, kept, settled>>

\* The server's response to s (acknowledgeStatus).
Acknowledge(s) ==
    /\ awaited' = awaited \ {s}
    /\ settled' = settled \cup {s}
    /\ UNCHANGED <<issued, queued, kept>>

\* A connect sequence has succeeded (clear_error_aggregator).
Report ==
    /\ settled' = settled \cup kept
    /\ kept' = {}
    /\ UNCHANGED <<issued, queued, awaited>>

DeliveryNext ==
    \/ \E d \in Devices : Issue(d)
    \/ \E s \in queued : Send(s)
    \/ \E S \in SUBSET queued : Keep(S)
    \/ \E s \in kept \ awaited : Announce(s)
    \/ \E s \in awaited : Acknowledge(s)
    \/ Report

DeliverySpec == DeliveryInit /\ [][DeliveryNext]_deliveryVars

-----------------------------------------------------------------------------
\* A status that was sent, kept or settled never waits in the queue again, and none is
\* known that its device has not sent.
TakenOnce ==
    /\ queued \cap (awaited \cup kept \cup settled) = {}
    /\ \A s \in queued \cup awaited \cup kept \cup settled :
          s[1] \in Devices /\ s[2] \in 1..issued[s[1]]
=============================================================================
