------------------------ MODULE MCConnectorLifecycle ------------------------
(* Instances of ConnectorLifecycle for TLC. *)
EXTENDS ConnectorLifecycle, TLC

CONSTANTS p1, p2

OneProcess == {p1}
TwoProcesses == {p1, p2}
ProcessSymmetry == Permutations(TwoProcesses)
=============================================================================
