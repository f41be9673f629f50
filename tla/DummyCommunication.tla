------------------------- MODULE DummyCommunication ------------------------
(***************************************************************************)
(* The dummy channel (connection/communication/DummyCommunication.cpp): it  *)
(* accepts every message while connected, delivers none and receives none. *)
(***************************************************************************)
EXTENDS Naturals

CONSTANT MaxSend    \* bound: messages given to sendMessage

VARIABLES
    isConnected,    \* isConnected_
    sent, delivered, answered, received   \* see module Channel

DummyInit == isConnected = FALSE

InitializeConnection ==
    /\ isConnected' = TRUE
    /\ UNCHANGED <<sent, delivered, answered, received>>

SendMessage ==
    /\ isConnected
    /\ sent < MaxSend
    /\ sent' = sent + 1
    /\ UNCHANGED <<isConnected, delivered, answered, received>>

\* Also the destructor.
CloseConnection ==
    /\ isConnected' = FALSE
    /\ UNCHANGED <<sent, delivered, answered, received>>

DummyNext == InitializeConnection \/ SendMessage \/ CloseConnection

=============================================================================
