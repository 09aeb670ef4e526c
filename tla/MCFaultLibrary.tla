--------------------------- MODULE MCFaultLibrary ---------------------------
(* Small instances of FaultLibrary: one to three targets, every fault type *)
(* of the library, or the one type the generated problems use.             *)
EXTENDS FaultLibrary

MCLibrary == DOMAIN Library
MCGenerated == {"app_misconfig"}

=============================================================================
