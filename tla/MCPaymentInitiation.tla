------------------------ MODULE MCPaymentInitiation ------------------------
(* Instances of PaymentInitiation for TLC. *)
EXTENDS PaymentInitiation, TLC

CONSTANTS r1, r2, r3

MCRequests2 == {r1, r2}
MCRequests3 == {r1, r2, r3}
MCOutcomes == {"PENDING", "SUCCEEDED", "FAILED"}
MCMoves == {<<"PENDING", "SUCCEEDED">>, <<"PENDING", "FAILED">>}
MCFetched == {"PENDING", "SUCCEEDED"}
MCFetchedAll == MCOutcomes

RequestSymmetry == Permutations(Requests)
=============================================================================
