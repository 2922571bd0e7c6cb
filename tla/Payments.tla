------------------------------ MODULE Payments ------------------------------
(***************************************************************************)
(* The payments and payment_adjustments tables and PaymentsUpsert, the one *)
(* transaction through which every payment is stored: by the fetch, by     *)
(* webhooks, by payouts and reversals.  The events that the same           *)
(* transaction adds to the outbox are the subject of Outbox.               *)
(*                                                                         *)
(* A report is what a plugin returns for a PSP transaction: [ref, root,    *)
(* created, status, amount], where root is the reference of the payment it *)
(* belongs to, its own or its parent's.  The type of a payment, part of    *)
(* its identifier, is the same for all reports of one root.                *)
(***************************************************************************)
EXTENDS Integers, FiniteSets, SequencesExt

\* The entries of s at the positions in N, in the order of s.
Entries(s, N) ==
    LET upTo[n \in 0..Len(s)] ==
          IF n = 0 THEN <<>>
          ELSE IF n \in N THEN Append(upTo[n - 1], s[n]) ELSE upTo[n - 1]
    IN  upTo[Len(s)]

\* The statuses PaymentsUpsert tells apart, and two it treats alike.
ReportStatuses == {"PENDING", "SUCCEEDED", "AUTHORISATION", "CAPTURE",
                   "REFUNDED", "REFUND_REVERSED", "AMOUNT_ADJUSTMENT"}

\* FromPSPPaymentToPayment: an authorisation is captured later.
PaymentRow(r) ==
    [initial |-> r.amount,
     amount  |-> IF r.status = "AUTHORISATION" THEN 0 ELSE r.amount]

\* The primary key of an adjustment: payment, reference, date and status.
AdjustmentID(r) == <<r.root, r.ref, r.created, r.status>>

\* ON CONFLICT (id) DO NOTHING, then RETURNING: the reports of the batch whose
\* adjustment is new, once each, in the order of the batch.
Inserted(adjs, batch) ==
    LET Stored == {AdjustmentID(adjs[i]) : i \in DOMAIN adjs}
        New(i) == /\ AdjustmentID(batch[i]) \notin Stored
                  /\ \A j \in 1..(i - 1) : AdjustmentID(batch[j]) # AdjustmentID(batch[i])
    IN  Entries(batch, {i \in DOMAIN batch : New(i)})

\* Total of the reports of payment p in s whose status is in S.
Total(s, p, S) ==
    LET sum[n \in 0..Len(s)] ==
          IF n = 0 THEN 0
          ELSE sum[n - 1] + IF s[n].root = p /\ s[n].status \in S THEN s[n].amount ELSE 0
    IN  sum[Len(s)]

Captured(s, p) == Total(s, p, {"CAPTURE", "REFUND_REVERSED"})
Refunded(s, p) == Total(s, p, {"REFUNDED"})

\* The last amount adjustment of the batch wins, stored before or not.
InitialAmount(batch, p, old) ==
    FoldLeft(LAMBDA n, r : IF r.root = p /\ r.status = "AMOUNT_ADJUSTMENT"
                           THEN r.amount ELSE n, old, batch)

\* Where the first report of payment p is in s.
FirstOf(s, p) ==
    CHOOSE i \in DOMAIN s : s[i].root = p /\ \A j \in 1..(i - 1) : s[j].root # p

\* The row of payment p before the deltas: the stored one, or the first of the
\* batch.
RowOf(rows, batch, p) ==
    IF p \in DOMAIN rows THEN rows[p]
    ELSE PaymentRow(batch[FirstOf(batch, p)])

\* Fault: the deltas of all adjustments of the batch are applied, also of those
\* that were stored before.
BadPaymentsUpsert(t, batch) ==
    LET P == DOMAIN t.rows \cup {batch[i].root : i \in DOMAIN batch}
    IN  [rows |-> [p \in P |->
                    LET row == RowOf(t.rows, batch, p)
                    IN  [initial |-> InitialAmount(batch, p, row.initial),
                         amount  |-> row.amount + Captured(batch, p) - Refunded(batch, p)]],
         adjs |-> t.adjs \o Inserted(t.adjs, batch)]

\* PaymentsUpsert on the tables t = [rows, adjs] (adjs in insertion order).
PaymentsUpsert(t, batch) ==
    LET new == Inserted(t.adjs, batch)
        P   == DOMAIN t.rows \cup {batch[i].root : i \in DOMAIN batch}
    IN  [rows |-> [p \in P |->
                    LET row == RowOf(t.rows, batch, p)
                    IN  [initial |-> InitialAmount(batch, p, row.initial),
                         amount  |-> row.amount + Captured(new, p) - Refunded(new, p)]],
         adjs |-> t.adjs \o new]

NoPayments == [rows |-> <<>>, adjs |-> <<>>]

\* Fault: of two adjustments with one date, the one stored first wins.
BadLatestAdjustment(t, p) ==
    LET Mine == {i \in DOMAIN t.adjs : t.adjs[i].root = p}
    IN  t.adjs[CHOOSE i \in Mine : \A j \in Mine :
                 \/ t.adjs[j].created < t.adjs[i].created
                 \/ t.adjs[j].created = t.adjs[i].created /\ i <= j]

\* PaymentsGet: the adjustments in the order created_at DESC, sort_id DESC; the
\* first one gives the status.
LatestAdjustment(t, p) ==
    LET Mine == {i \in DOMAIN t.adjs : t.adjs[i].root = p}
    IN  t.adjs[CHOOSE i \in Mine : \A j \in Mine :
                 \/ t.adjs[j].created < t.adjs[i].created
                 \/ t.adjs[j].created = t.adjs[i].created /\ j <= i]

PaymentStatus(t, p) == LatestAdjustment(t, p).status

-----------------------------------------------------------------------------
\* The amount of every payment is that of the report that created its row (0 for
\* an authorisation), plus all captures, minus all refunds stored for it, each
\* exactly once, whatever batches, repetitions and overlaps they came in.
AmountsNetOf(t) ==
    \A p \in DOMAIN t.rows :
        /\ \E i \in DOMAIN t.adjs : t.adjs[i].root = p
        /\ t.rows[p].amount = PaymentRow(t.adjs[FirstOf(t.adjs, p)]).amount
                                + Captured(t.adjs, p) - Refunded(t.adjs, p)
=============================================================================
