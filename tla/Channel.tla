------------------------------ MODULE Channel ------------------------------
(***************************************************************************)
(* What the interface ICommunicationChannel promises the external          *)
(* connection, whatever the protocol: a message that arrives was sent      *)
(* before, in either direction, and nothing else.  Messages may be lost    *)
(* and may overtake one another.  Over QUIC each arrives at most once; over *)
(* MQTT with qos 1 it may arrive again.                                    *)
(*                                                                         *)
(* Messages of each direction are numbered in the order they are handed    *)
(* over.                                                                   *)
(***************************************************************************)
EXTENDS Naturals

CONSTANTS
    MaxSend,    \* bound: messages given to sendMessage
    MaxAnswer   \* bound: messages of the external server

VARIABLES
    repeats,    \* the protocol may deliver a message again; never changes
    accepted,   \* messages sendMessage has returned true for
    delivered,  \* delivered[m]: how often m reached the external server
    answered,   \* messages the external server has sent
    received    \* received[a]: how often receiveMessage has returned a

ChannelInit ==
    /\ repeats \in BOOLEAN
    /\ accepted = 0
    /\ delivered = [m \in 1..MaxSend |-> 0]
    /\ answered = 0
    /\ received = [a \in 1..MaxAnswer |-> 0]

\* sendMessage returns true.
Accept ==
    /\ accepted' = accepted + 1
    /\ UNCHANGED <<delivered, answered, received>>

\* One more copy of m may arrive, a first one always.
MayArrive(copies, m) == repeats \/ copies[m] = 0

\* The network hands m over to the external server.
Deliver(m) ==
    /\ m <= accepted
    /\ MayArrive(delivered, m)
    /\ delivered' = [delivered EXCEPT ![m] = @ + 1]
    /\ UNCHANGED <<accepted, answered, received>>

\* The external server sends.
Answer ==
    /\ answered' = answered + 1
    /\ UNCHANGED <<accepted, delivered, received>>

\* receiveMessage returns a.
Receive(a) ==
    /\ a <= answered
    /\ MayArrive(received, a)
    /\ received' = [received EXCEPT ![a] = @ + 1]
    /\ UNCHANGED <<accepted, delivered, answered>>

ChannelNext ==
    /\ \/ Accept
       \/ \E m \in 1..MaxSend : Deliver(m)
       \/ Answer
       \/ \E a \in 1..MaxAnswer : Receive(a)
    /\ UNCHANGED repeats

ChannelSpec == ChannelInit /\ [][ChannelNext]_<<repeats, accepted, delivered, answered, received>>

=============================================================================
