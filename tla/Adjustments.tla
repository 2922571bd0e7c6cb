---------------------------- MODULE Adjustments ----------------------------
(***************************************************************************)
(* The adjustments of a payment initiation: the append-only list of status *)
(* rows that is the state of the initiation, which row of it counts, and   *)
(* how the status of a payment becomes the status of an adjustment.        *)
(***************************************************************************)
EXTENDS Integers, Sequences

PaymentStatuses ==
    {"UNKNOWN", "PENDING", "SUCCEEDED", "CANCELLED", "FAILED", "EXPIRED",
     "REFUNDED", "REFUNDED_FAILURE", "REFUND_REVERSED", "DISPUTE",
     "DISPUTE_WON", "DISPUTE_LOST", "AMOUNT_ADJUSTMENT", "AUTHORISATION",
     "CAPTURE", "CAPTURE_FAILED", "OTHER"}

AdjustmentStatuses ==
    {"WAITING_FOR_VALIDATION", "SCHEDULED_FOR_PROCESSING", "PROCESSING",
     "PROCESSED", "FAILED", "REJECTED", "REVERSE_PROCESSING", "REVERSED",
     "REVERSE_FAILED", "UNKNOWN"}

\* The newest adjustment: ORDER BY created_at DESC, sort_id DESC LIMIT 1.
Latest(s) ==
    s[CHOOSE i \in DOMAIN s :
        \A j \in DOMAIN s : \/ s[j].at < s[i].at
                            \/ s[j].at = s[i].at /\ j <= i]

\* Insert keyed by (created_at, status), ON CONFLICT DO NOTHING.
Upsert(s, a) ==
    IF \E i \in DOMAIN s : s[i].status = a.status /\ s[i].at = a.at
      THEN s ELSE Append(s, a)

FailedPayment == {"CANCELLED", "CAPTURE_FAILED", "EXPIRED", "FAILED"}
PendingPayment == {"PENDING", "AUTHORISATION"}
PaidPayment == {"SUCCEEDED", "CAPTURE", "REFUND_REVERSED"}

\* Faults in getPIStatusFromPayment: the payment's status kept as it is, and a
\* pending payment taken for a failed one.
BadStatusKept(s) == IF s \in PaidPayment THEN "PROCESSED" ELSE s

BadPendingIsFailed(s) ==
    CASE s \in PaidPayment                    -> "PROCESSED"
      [] s \in FailedPayment \cup PendingPayment -> "FAILED"
      [] OTHER                                -> "UNKNOWN"

\* getPIStatusFromPayment, used by the workflows.
StatusFromPayment(s) ==
    CASE s \in PaidPayment    -> "PROCESSED"
      [] s \in FailedPayment  -> "FAILED"
      [] s \in PendingPayment -> "PROCESSING"
      [] s = "REFUNDED"         -> "REVERSED"
      [] s = "REFUNDED_FAILURE" -> "REVERSE_FAILED"
      [] OTHER                  -> "UNKNOWN"

\* FromPaymentDataToPaymentInitiationAdjustment, used by the payment fetch:
\* "NONE" when the payment status adds no adjustment.
StatusFromFetch(s) ==
    CASE s \in PendingPayment                   -> "PROCESSING"
      [] s \in PaidPayment \cup {"DISPUTE_WON"}   -> "PROCESSED"
      [] s \in FailedPayment \cup {"DISPUTE_LOST"} -> "FAILED"
      [] s = "DISPUTE"          -> "UNKNOWN"
      [] s = "REFUNDED"         -> "REVERSED"
      [] s = "REFUNDED_FAILURE" -> "REVERSE_FAILED"
      [] OTHER                  -> "NONE"
=============================================================================
