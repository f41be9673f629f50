----------------------- MODULE MCInternalServerReads -----------------------
(***************************************************************************)
(* The server under fairness, and the framing of one connection's bytes.   *)
(* A message in an inbox of InternalServer is one that MessageFraming      *)
(* hands over, and nothing else passes between the two, so a behaviour     *)
(* runs one of them and leaves the other in its initial state.             *)
(***************************************************************************)
EXTENDS MCInternalServer, MessageFraming

ReadsInit == Init /\ FramingInit

ReadsNext ==
    \/ Next /\ FramingInit /\ UNCHANGED framingVars
    \/ FramingNext /\ Init /\ UNCHANGED vars

ReadsSpec == ReadsInit /\ [][ReadsNext]_<<vars, framingVars>> /\ Fairness
=============================================================================
