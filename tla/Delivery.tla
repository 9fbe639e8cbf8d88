------------------------------ MODULE Delivery ------------------------------
(***************************************************************************)
(* What a transfer of bytes promises, whatever buffers, partial reads and  *)
(* partial writes it goes through: what is delivered is at all times a     *)
(* prefix of what the source has offered and only ever grows; a transfer   *)
(* may fail at any point, but one that reports success has delivered all.  *)
(***************************************************************************)
EXTENDS SequencesExt

VARIABLES
    source,     \* the bytes offered so far
    delivered,  \* the bytes that have come out
    outcome     \* "running", "complete" or "failed"

vars == <<source, delivered, outcome>>

Init == source = <<>> /\ delivered = <<>> /\ outcome = "running"

Offer ==
    /\ IsPrefix(source, source')
    /\ UNCHANGED <<delivered, outcome>>

Deliver ==
    /\ outcome = "running"
    /\ IsPrefix(delivered, delivered') /\ IsPrefix(delivered', source)
    /\ UNCHANGED <<source, outcome>>

End ==
    /\ outcome = "running"
    /\ outcome' \in {"complete", "failed"}
    /\ outcome' = "complete" => delivered = source
    /\ UNCHANGED <<source, delivered>>

\* The next transfer.
Again ==
    /\ outcome # "running"
    /\ source' = <<>> /\ delivered' = <<>> /\ outcome' = "running"

Next == Offer \/ Deliver \/ End \/ Again

Spec == Init /\ [][Next]_vars
=============================================================================
