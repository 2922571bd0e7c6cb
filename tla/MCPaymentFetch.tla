--------------------------- MODULE MCPaymentFetch ---------------------------
(* Instances of PaymentFetch for TLC. *)
EXTENDS PaymentFetch

BothPlugins == {"generic", "stripe"}
Children == {"REFUNDED"}
=============================================================================
