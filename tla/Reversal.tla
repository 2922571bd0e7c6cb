------------------------------ MODULE Reversal ------------------------------
(***************************************************************************)
(* Reversals of ONE payment initiation: the API request that stores a      *)
(* reversal, and the workflows ReversePayout and ReverseTransfer (the same *)
(* program) that check it against the adjustments of the initiation, claim *)
(* the initiation with a REVERSE_PROCESSING adjustment, and ask the PSP    *)
(* for the refund.                                                         *)
(*                                                                         *)
(* Granularity: one step per activity, and two for the claim, whose        *)
(* transaction reads the newest adjustment and then inserts one.  Under    *)
(* READ COMMITTED the row lock that the read takes makes a second reader   *)
(* wait, but does not make it look for a newer row: it goes on with the    *)
(* row it had chosen when its statement began.  The lock therefore orders  *)
(* the claims and hides none of their interleavings.                       *)
(***************************************************************************)
EXTENDS Integers, Sequences, FiniteSets, FiniteSetsExt, Adjustments

CONSTANTS Reversals,      \* identifiers of reversals
          AmountOf,       \* the amount of each reversal
          Amount,         \* the amount of the payment initiation
          RefundStatuses, \* statuses a PSP gives to the payment of a refund
          FetchRefunds,   \* "yes" if the payment fetch reports refunds
          MaxRunning,     \* workflows the clients keep running together
          MaxLost         \* bound on the claims whose result is lost

ASSUME ReversalAssumption ==
    /\ AmountOf \in [Reversals -> Nat]
    /\ Amount \in Nat
    /\ RefundStatuses \subseteq PaymentStatuses
    /\ FetchRefunds \in {"yes", "no"}
    /\ MaxRunning \in Nat \ {0}
    /\ MaxLost \in Nat

\* The amount column is nullable.
NoAmount == -1

Labels == {"none", "processed", "amount", "claim", "insert", "accounts",
           "plugin", "store", "relate", "status", "reversalOk", "reversalErr",
           "piErr", "taskOk", "taskErr", "closed"}

VARIABLES
    adjs,      \* rows of payment_initiation_adjustments, in sort_id order
    now,       \* the clock that stamps created_at
    request,   \* the API request of each reversal
    revAdjs,   \* statuses in payment_initiation_reversal_adjustments
    task,      \* status of the task of each reversal
    pc,        \* next step of each workflow
    claimAt,   \* created_at of the claim, fixed before the activity runs
    lost,      \* claims whose result was lost so far
    psp,       \* what the PSP answered for each reversal
    payAt,     \* created_at of the refund's payment
    payments,  \* refunds in the payments table
    related,   \* refunds in payment_initiation_related_payments
    overlapped \* history: two workflows have been running together

apiVars == <<request, task>>
payVars == <<psp, payAt, payments, related>>
vars == <<adjs, now, apiVars, revAdjs, pc, claimAt, lost, payVars, overlapped>>

Adjustment == [status : AdjustmentStatuses, at : Nat, amount : Nat \cup {NoAmount}]

PSPAnswers == PaymentStatuses \cup {"NONE", "REFUSED"}

\* Every variable holds a value of its type.
TypeOK ==
    /\ adjs \in Seq(Adjustment)
    /\ now \in Nat
    /\ request \in [Reversals -> {"none", "stored", "tasked", "done"}]
    /\ revAdjs \in [Reversals -> Seq({"PROCESSED", "FAILED"})]
    /\ task \in [Reversals -> {"NONE", "PROCESSING", "SUCCEEDED", "FAILED"}]
    /\ pc \in [Reversals -> Labels]
    /\ claimAt \in [Reversals -> Nat]
    /\ lost \in 0 .. MaxLost
    /\ psp \in [Reversals -> PSPAnswers]
    /\ payAt \in [Reversals -> Nat]
    /\ payments \in SUBSET Reversals
    /\ related \in SUBSET Reversals
    /\ overlapped \in BOOLEAN

\* The initiation as its payout workflow has left it so far.
Init ==
    /\ adjs = <<[status |-> "PROCESSING", at |-> 0, amount |-> Amount]>>
    /\ now = 1
    /\ request = [r \in Reversals |-> "none"]
    /\ revAdjs = [r \in Reversals |-> <<>>]
    /\ task = [r \in Reversals |-> "NONE"]
    /\ pc = [r \in Reversals |-> "none"]
    /\ claimAt = [r \in Reversals |-> 0]
    /\ lost = 0
    /\ psp = [r \in Reversals |-> "NONE"]
    /\ payAt = [r \in Reversals |-> 0]
    /\ payments = {} /\ related = {} /\ overlapped = FALSE

AddAdjustment(status, amount) ==
    /\ adjs' = Upsert(adjs, [status |-> status, at |-> now, amount |-> amount])
    /\ now' = now + 1

Has(status) == \E i \in DOMAIN adjs : adjs[i].status = status

\* The payout itself is processed (PaymentInitiation!AddStatus).
PayoutProcessed ==
    /\ ~Has("PROCESSED")
    /\ AddAdjustment("PROCESSED", Amount)
    /\ UNCHANGED <<apiVars, revAdjs, pc, claimAt, lost, payVars, overlapped>>

-----------------------------------------------------------------------------
(* The API request.                                                        *)

\* PaymentInitiationReversalsUpsert.  The first adjustment of the reversal has
\* PROCESSING in its identifier and PROCESSED in its status column.  A client
\* may submit the same reversal again: both inserts then do nothing.
PaymentInitiationReversalsCreate(r) ==
    /\ request[r] \in {"none", "done"}
    /\ request' = [request EXCEPT ![r] = "stored"]
    /\ revAdjs' = IF revAdjs[r] = <<>> THEN [revAdjs EXCEPT ![r] = <<"PROCESSED">>]
                                       ELSE revAdjs
    /\ UNCHANGED <<adjs, now, task, pc, claimAt, lost, payVars, overlapped>>

\* engine.ReversePayout / ReverseTransfer: the task, whatever its status was ...
TasksUpsert(r) ==
    /\ request[r] = "stored"
    /\ request' = [request EXCEPT ![r] = "tasked"]
    /\ task' = [task EXCEPT ![r] = "PROCESSING"]
    /\ UNCHANGED <<adjs, now, revAdjs, pc, claimAt, lost, payVars, overlapped>>

Running == {r \in Reversals : pc[r] \notin {"none", "closed"}}

\* ... then the workflow, unless its identifier was used before.
ExecuteWorkflow(r) ==
    /\ request[r] = "tasked"
    /\ pc[r] = "none" => Cardinality(Running) < MaxRunning
    /\ request' = [request EXCEPT ![r] = "done"]
    /\ pc' = IF pc[r] = "none" THEN [pc EXCEPT ![r] = "processed"] ELSE pc
    /\ overlapped' = (overlapped \/ (pc[r] = "none" /\ Running # {}))
    /\ UNCHANGED <<adjs, now, task, revAdjs, claimAt, lost, payVars>>

-----------------------------------------------------------------------------
(* The workflow.                                                           *)

Goto(r, label) == pc' = [pc EXCEPT ![r] = label]

\* validatePaymentInitiationProcessed: some adjustment says PROCESSED.
ValidateProcessed(r) ==
    /\ pc[r] = "processed"
    /\ Goto(r, IF Has("PROCESSED") THEN "amount" ELSE "taskErr")
    /\ UNCHANGED <<adjs, now, apiVars, revAdjs, claimAt, lost, payVars, overlapped>>

ReversedRows == {i \in DOMAIN adjs : adjs[i].status = "REVERSED"}

AmountReversed == MapThenSumSet(LAMBDA i : adjs[i].amount, ReversedRows)

\* A REVERSED adjustment without an amount: adding it panics, and Temporal
\* blocks a workflow that panics.
Amountless == \E i \in ReversedRows : adjs[i].amount = NoAmount

\* Fault: the amount asked for is left out of the comparison.
BadValidateAmount(r) ==
    /\ pc[r] = "amount"
    /\ ~Amountless
    /\ Goto(r, IF Amount - AmountReversed < 0 THEN "taskErr" ELSE "claim")
    /\ claimAt' = [claimAt EXCEPT ![r] = now]
    /\ now' = now + 1
    /\ UNCHANGED <<adjs, apiVars, revAdjs, lost, payVars, overlapped>>

\* validateReverseAmount; then validateOnlyReverse fixes the time of the claim.
ValidateAmount(r) ==
    /\ pc[r] = "amount"
    /\ ~Amountless
    /\ IF Amount - AmountReversed - AmountOf[r] < 0
         THEN Goto(r, "taskErr") /\ UNCHANGED <<now, claimAt>>
         ELSE /\ Goto(r, "claim")
              /\ claimAt' = [claimAt EXCEPT ![r] = now]
              /\ now' = now + 1
    /\ UNCHANGED <<adjs, apiVars, revAdjs, lost, payVars, overlapped>>

\* Faults: the answer of the activity is not looked at, and the claim waits
\* for the other reverse instead of failing.
BadClaimIgnored(r) ==
    /\ pc[r] = "claim"
    /\ Goto(r, IF Latest(adjs).status = "REVERSE_PROCESSING" THEN "accounts" ELSE "insert")
    /\ UNCHANGED <<adjs, now, apiVars, revAdjs, claimAt, lost, payVars, overlapped>>

BadClaimWaits(r) ==
    /\ pc[r] = "claim"
    /\ Latest(adjs).status # "REVERSE_PROCESSING"
    /\ Goto(r, "insert")
    /\ UNCHANGED <<adjs, now, apiVars, revAdjs, claimAt, lost, payVars, overlapped>>

\* PaymentInitiationAdjustmentsUpsertIfPredicate, the read: the newest
\* adjustment must not be REVERSE_PROCESSING.
ClaimRead(r) ==
    /\ pc[r] = "claim"
    /\ Goto(r, IF Latest(adjs).status = "REVERSE_PROCESSING" THEN "taskErr" ELSE "insert")
    /\ UNCHANGED <<adjs, now, apiVars, revAdjs, claimAt, lost, payVars, overlapped>>

\* The insert and the commit.  A conflict counts as not inserted.  When the
\* result is lost the activity runs again.
ClaimInsert(r, isLost) ==
    LET a == [status |-> "REVERSE_PROCESSING", at |-> claimAt[r],
              amount |-> AmountOf[r]] IN
    /\ pc[r] = "insert"
    /\ isLost => lost < MaxLost
    /\ lost' = IF isLost THEN lost + 1 ELSE lost
    /\ adjs' = Upsert(adjs, a)
    /\ Goto(r, CASE isLost                            -> "claim"
                 [] ~isLost /\ Upsert(adjs, a) = adjs -> "taskErr"
                 [] OTHER                             -> "accounts")
    /\ UNCHANGED <<now, apiVars, revAdjs, claimAt, payVars, overlapped>>

\* getPSPPI: the accounts are found, or one is missing for good.
GetAccounts(r, found) ==
    /\ pc[r] = "accounts"
    /\ Goto(r, IF found THEN "plugin" ELSE "taskErr")
    /\ UNCHANGED <<adjs, now, apiVars, revAdjs, claimAt, lost, payVars, overlapped>>

\* PluginReversePayout / PluginReverseTransfer: the payment of the refund ...
PluginRefund(r, s) ==
    /\ pc[r] = "plugin"
    /\ psp' = [psp EXCEPT ![r] = s]
    /\ payAt' = [payAt EXCEPT ![r] = now]
    /\ now' = now + 1
    /\ Goto(r, "store")
    /\ UNCHANGED <<adjs, apiVars, revAdjs, claimAt, lost, payments, related, overlapped>>

\* ... one that FromPSPPaymentToPayment refuses ...
PluginInvalid(r, s) ==
    /\ pc[r] = "plugin"
    /\ psp' = [psp EXCEPT ![r] = s]
    /\ payAt' = [payAt EXCEPT ![r] = now]
    /\ now' = now + 1
    /\ Goto(r, "taskErr")
    /\ UNCHANGED <<adjs, apiVars, revAdjs, claimAt, lost, payments, related, overlapped>>

\* ... or an error that is not retried.
PluginError(r) ==
    /\ pc[r] = "plugin"
    /\ psp' = [psp EXCEPT ![r] = "REFUSED"]
    /\ Goto(r, "reversalErr")
    /\ UNCHANGED <<adjs, now, apiVars, revAdjs, claimAt, lost, payAt, payments, related, overlapped>>

\* storePIPaymentWithStatus, in three activities.
StorePayment(r) ==
    /\ pc[r] = "store"
    /\ payments' = payments \cup {r}
    /\ Goto(r, "relate")
    /\ UNCHANGED <<adjs, now, apiVars, revAdjs, claimAt, lost, psp, payAt, related, overlapped>>

RelatePayment(r) ==
    /\ pc[r] = "relate"
    /\ related' = related \cup {r}
    /\ Goto(r, "status")
    /\ UNCHANGED <<adjs, now, apiVars, revAdjs, claimAt, lost, psp, payAt, payments, overlapped>>

AddStatus(r) ==
    /\ pc[r] = "status"
    /\ AddAdjustment(StatusFromPayment(psp[r]), AmountOf[r])
    /\ Goto(r, "reversalOk")
    /\ UNCHANGED <<apiVars, revAdjs, claimAt, lost, payVars, overlapped>>

\* addPIReversalAdjustment.
AddReversalAdjustment(r, label, status, next) ==
    /\ pc[r] = label
    /\ revAdjs' = [revAdjs EXCEPT ![r] = Append(@, status)]
    /\ Goto(r, next)
    /\ UNCHANGED <<adjs, now, apiVars, claimAt, lost, payVars, overlapped>>

\* Fault: the wrong status after the PSP's error.
BadAddReverseFailed(r) ==
    /\ pc[r] = "piErr"
    /\ AddAdjustment("REVERSED", Amount)
    /\ Goto(r, "taskErr")
    /\ UNCHANGED <<apiVars, revAdjs, claimAt, lost, payVars, overlapped>>

\* The PSP's error on the initiation, with the amount of the initiation.
AddReverseFailed(r) ==
    /\ pc[r] = "piErr"
    /\ AddAdjustment("REVERSE_FAILED", Amount)
    /\ Goto(r, "taskErr")
    /\ UNCHANGED <<apiVars, revAdjs, claimAt, lost, payVars, overlapped>>

\* updateTaskSuccess / updateTasksError.
TaskEnd(r, label, status) ==
    /\ pc[r] = label
    /\ task' = [task EXCEPT ![r] = status]
    /\ Goto(r, "closed")
    /\ UNCHANGED <<adjs, now, request, revAdjs, claimAt, lost, payVars, overlapped>>

\* The payment fetch reports the refund's payment, which is related to the
\* initiation: a REVERSED adjustment without an amount, dated like the payment.
UpdateFromRefund(r) ==
    /\ FetchRefunds = "yes"
    /\ psp[r] = "REFUNDED" /\ r \in related
    /\ adjs' = Upsert(adjs, [status |-> StatusFromFetch(psp[r]), at |-> payAt[r],
                             amount |-> NoAmount])
    /\ UNCHANGED <<now, apiVars, revAdjs, pc, claimAt, lost, payVars, overlapped>>

-----------------------------------------------------------------------------
WorkflowStep(r) ==
    \/ ValidateProcessed(r) \/ ValidateAmount(r) \/ ClaimRead(r)
    \/ \E isLost \in BOOLEAN : ClaimInsert(r, isLost)
    \/ \E found \in BOOLEAN : GetAccounts(r, found)
    \/ \E s \in RefundStatuses : PluginRefund(r, s) \/ PluginInvalid(r, s)
    \/ PluginError(r)
    \/ StorePayment(r) \/ RelatePayment(r) \/ AddStatus(r)
    \/ AddReversalAdjustment(r, "reversalOk", "PROCESSED", "taskOk")
    \/ AddReversalAdjustment(r, "reversalErr", "FAILED", "piErr")
    \/ AddReverseFailed(r)
    \/ TaskEnd(r, "taskOk", "SUCCEEDED") \/ TaskEnd(r, "taskErr", "FAILED")

Next ==
    \/ PayoutProcessed
    \/ \E r \in Reversals :
         \/ PaymentInitiationReversalsCreate(r) \/ TasksUpsert(r) \/ ExecuteWorkflow(r)
         \/ WorkflowStep(r)
         \/ UpdateFromRefund(r)

Spec == Init /\ [][Next]_vars

\* Temporal runs every step of a started workflow; clients promise nothing.
FairSpec == Spec /\ \A r \in Reversals : WF_vars(WorkflowStep(r))

-----------------------------------------------------------------------------
(* Properties.                                                             *)

NotRefunded == FailedPayment \cup {"NONE", "REFUSED", "REFUNDED_FAILURE"}

Refunded == {r \in Reversals : psp[r] \notin NotRefunded}

AmountRefunded == MapThenSumSet(LAMBDA r : AmountOf[r], Refunded)

\* "cannot reverse more than the amount": what the PSP has refunded, or still
\* may, does not exceed the amount of the initiation.
NotOverReversed == AmountRefunded <= Amount

\* It holds for reversals that run one after the other, also when the result of
\* a claim is lost or a refund is not recorded, as long as the PSP's answers are
\* final (only a refund that is REFUNDED is counted later on).
NotOverReversedInTurn ==
    (~overlapped /\ \A r \in Refunded : psp[r] = "REFUNDED") => NotOverReversed

\* What is recorded as reversed was refunded: the REVERSED adjustments that
\* later reversals are validated against never sum up to more than the refunds.
RecordedWasRefunded == ~Amountless => AmountReversed <= AmountRefunded

\* The PSP is asked for no refund without a claim of its own on the initiation.
RefundsClaimed ==
    Cardinality({r \in Reversals : psp[r] # "NONE"}) <=
    Cardinality({i \in DOMAIN adjs : adjs[i].status = "REVERSE_PROCESSING"})

\* A workflow that was started ends, unless an adjustment without an amount
\* blocks it.
ReversalEnds == \A r \in Reversals : pc[r] # "none" ~> pc[r] = "closed" \/ Amountless
=============================================================================
