--------------------------- MODULE MCPublication ---------------------------
(* TLC instances of Publication: one call of each function, all with the   *)
(* same output path; extract() reads one input, the others two.            *)
EXTENDS Publication, TLC

CONSTANTS merge, assemble, extract, output

KindOf   == (merge :> "merge") @@ (assemble :> "assemble") @@ (extract :> "extract")
TargetOf == [o \in Ops |-> output]
InputsOf == (merge :> 2) @@ (assemble :> 2) @@ (extract :> 1)
=============================================================================
