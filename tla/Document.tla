------------------------------ MODULE Document ------------------------------
(***************************************************************************)
(* What one Assembly promises its JavaScript caller: the appends it has    *)
(* acknowledged, in that order, are what it publishes, once; nothing is    *)
(* acknowledged after that.                                                *)
(***************************************************************************)
EXTENDS Sequences

CONSTANTS
    Shards,
    Unpublished   \* `published` until something is; no sequence of shards

VARIABLES
    acknowledged,   \* shards the caller was told are in, oldest first
    published       \* the document on disk

documentVars == <<acknowledged, published>>

Init == acknowledged = <<>> /\ published = Unpublished

Acknowledge(s) ==
    /\ published = Unpublished
    /\ acknowledged' = Append(acknowledged, s)
    /\ UNCHANGED published

Publish ==
    /\ published = Unpublished
    /\ published' = acknowledged
    /\ UNCHANGED acknowledged

Next == Publish \/ \E s \in Shards : Acknowledge(s)

Spec == Init /\ [][Next]_documentVars
=============================================================================
