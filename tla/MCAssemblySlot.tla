--------------------------- MODULE MCAssemblySlot ---------------------------
(* TLC instances of AssemblySlot.                                          *)
EXTENDS AssemblySlot

CONSTANTS a1, a2, a3, a4
=============================================================================
