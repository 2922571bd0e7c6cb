----------------------------- MODULE MCReversal -----------------------------
(* Instances of Reversal for TLC: an initiation of 2 and reversals of 1 and 2. *)
EXTENDS Reversal, TLC

CONSTANTS r1, r2

MCReversals == {r1, r2}
MCAmountOf == r1 :> 1 @@ r2 :> 2
MCFinal == {"REFUNDED", "REFUNDED_FAILURE"}
MCStatuses == {"REFUNDED", "REFUNDED_FAILURE", "PENDING", "SUCCEEDED"}
=============================================================================
