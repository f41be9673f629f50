-------------------------- MODULE MCInternalServer --------------------------
(* Small instances of InternalServer for TLC. *)
EXTENDS InternalServer, TLC

\* Two priorities are enough for a take-over, and for its reverse after it.
MCPrios == 1..2

\* Connection names are interchangeable.
ConnSymmetry == Permutations(Conns)
=============================================================================
