--------------------------- MODULE MCOpenBanking ---------------------------
(* Instance of OpenBanking for TLC; its constants are numbers and strings. *)
EXTENDS OpenBanking
=============================================================================
