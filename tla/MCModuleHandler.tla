--------------------------- MODULE MCModuleHandler ---------------------------
(* Small instances of ModuleHandler for TLC; the constants are in the cfg files. *)
EXTENDS ModuleHandler
=============================================================================
