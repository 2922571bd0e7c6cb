--------------------------- MODULE ReversalProofs ---------------------------
(***************************************************************************)
(* Proofs about Reversal, for any set of reversals, any amounts, any       *)
(* number of workflows at once and of lost claims, and any answers of the  *)
(* PSP: the types; that every refund rests on a claim of its own; that     *)
(* what is recorded as reversed was refunded; and that reversals in turn   *)
(* never refund more than the initiation, as long as the answers of the    *)
(* PSP are final.  The sums over sets of rows and of reversals that the    *)
(* last two are about are reasoned about by induction on finite sets.      *)
(***************************************************************************)
EXTENDS Reversal, FiniteSetTheorems, FunctionTheorems, SequenceTheorems,
        WellFoundedInduction, TLAPS

-----------------------------------------------------------------------------
(* Rows of the adjustments table.                                          *)

\* An insert keeps the type of the table and every row of it, and afterwards
\* there is a row with the key of the new one.
LEMMA UpsertKeeps ==
    ASSUME NEW s \in Seq(Adjustment), NEW a \in Adjustment
    PROVE  /\ Upsert(s, a) \in Seq(Adjustment)
           /\ \A i \in DOMAIN s : i \in DOMAIN Upsert(s, a) /\ Upsert(s, a)[i] = s[i]
           /\ \E i \in DOMAIN Upsert(s, a) :
                Upsert(s, a)[i].status = a.status /\ Upsert(s, a)[i].at = a.at
<1>1. CASE \E i \in DOMAIN s : s[i].status = a.status /\ s[i].at = a.at
  BY <1>1 DEF Upsert
<1>2. CASE ~ \E i \in DOMAIN s : s[i].status = a.status /\ s[i].at = a.at
  <2> DEFINE t == Append(s, a)
  <2>1. Upsert(s, a) = t
    BY <1>2 DEF Upsert
  <2>2. /\ t \in Seq(Adjustment)
        /\ Len(t) = Len(s) + 1
        /\ \A i \in 1 .. Len(s) : t[i] = s[i]
        /\ t[Len(s) + 1] = a
    BY AppendProperties
  <2>3. /\ DOMAIN s = 1 .. Len(s) /\ Len(s) \in Nat
        /\ DOMAIN t = 1 .. Len(t)
    BY <2>2, LenProperties
  <2> HIDE DEF t
  <2>4. \A i \in DOMAIN s : i \in DOMAIN t /\ t[i] = s[i]
    BY <2>2, <2>3
  <2>5. Len(s) + 1 \in DOMAIN t
    BY <2>2, <2>3
  <2> QED
    BY <2>1, <2>2, <2>4, <2>5
<1> QED
  BY <1>1, <1>2

\* The translation of a payment status is an adjustment status.
LEMMA StatusType == \A s : StatusFromPayment(s) \in AdjustmentStatuses
<1> SUFFICES ASSUME NEW s PROVE StatusFromPayment(s) \in AdjustmentStatuses
  OBVIOUS
<1> QED
  BY DEF StatusFromPayment, AdjustmentStatuses

-----------------------------------------------------------------------------
(* Types.                                                                  *)

\* What going on to a label does.
LEMMA GotoEffect ==
    ASSUME TypeOK, NEW r \in Reversals, NEW label, Goto(r, label)
    PROVE  /\ \A q \in Reversals : pc'[q] = IF q = r THEN label ELSE pc[q]
           /\ label \in Labels => pc' \in [Reversals -> Labels]
BY DEF TypeOK, Goto

\* Writing an adjustment with the current time keeps both types and every row.
LEMMA AddAdjustmentEffect ==
    ASSUME TypeOK, NEW status \in AdjustmentStatuses, NEW amount \in Nat,
           AddAdjustment(status, amount)
    PROVE  /\ adjs' \in Seq(Adjustment)
           /\ now' = now + 1
           /\ \A i \in DOMAIN adjs : i \in DOMAIN adjs' /\ adjs'[i] = adjs[i]
<1>1. [status |-> status, at |-> now, amount |-> amount] \in Adjustment
  BY DEF TypeOK, Adjustment
<1> QED
  BY <1>1, UpsertKeeps DEF TypeOK, AddAdjustment

\* The row a claim inserts.
ClaimRow(r) ==
    [status |-> "REVERSE_PROCESSING", at |-> claimAt[r], amount |-> AmountOf[r]]

\* A claim leaves its row in the table, whether or not its result is lost.
LEMMA ClaimInsertEffect ==
    ASSUME TypeOK, NEW r \in Reversals, NEW isLost \in BOOLEAN, ClaimInsert(r, isLost)
    PROVE  /\ adjs' = Upsert(adjs, ClaimRow(r))
           /\ adjs' \in Seq(Adjustment)
           /\ \A i \in DOMAIN adjs : i \in DOMAIN adjs' /\ adjs'[i] = adjs[i]
           /\ \E i \in DOMAIN adjs' : /\ adjs'[i].status = "REVERSE_PROCESSING"
                                      /\ adjs'[i].at = claimAt[r]
           /\ \E label \in {"claim", "taskErr", "accounts"} : Goto(r, label)
           /\ lost' \in 0 .. MaxLost
<1>1. ClaimRow(r) \in Adjustment
  BY ReversalAssumption DEF TypeOK, Adjustment, ClaimRow, AdjustmentStatuses
<1>2. adjs' = Upsert(adjs, ClaimRow(r))
  BY DEF ClaimInsert, ClaimRow
<1>3. adjs \in Seq(Adjustment)
  BY DEF TypeOK
<1>4. /\ adjs' \in Seq(Adjustment)
      /\ \A i \in DOMAIN adjs : i \in DOMAIN adjs' /\ adjs'[i] = adjs[i]
      /\ \E i \in DOMAIN adjs' :
           adjs'[i].status = ClaimRow(r).status /\ adjs'[i].at = ClaimRow(r).at
  BY <1>1, <1>2, <1>3, UpsertKeeps
<1>5. ClaimRow(r).status = "REVERSE_PROCESSING" /\ ClaimRow(r).at = claimAt[r]
  BY DEF ClaimRow
<1>6. \E label \in {"claim", "taskErr", "accounts"} : Goto(r, label)
  <2>1. CASE isLost
    BY <2>1 DEF ClaimInsert
  <2>2. CASE ~isLost /\ Upsert(adjs, ClaimRow(r)) = adjs
    BY <2>2 DEF ClaimInsert, ClaimRow
  <2>3. CASE ~isLost /\ Upsert(adjs, ClaimRow(r)) # adjs
    BY <2>3 DEF ClaimInsert, ClaimRow
  <2> QED
    BY <2>1, <2>2, <2>3
<1>7. lost' \in 0 .. MaxLost
  BY ReversalAssumption DEF ClaimInsert, TypeOK
<1> QED
  BY <1>2, <1>4, <1>5, <1>6, <1>7

\* The API requests keep the types.
LEMMA RequestType ==
    ASSUME TypeOK, NEW r \in Reversals,
           \/ PaymentInitiationReversalsCreate(r) \/ TasksUpsert(r) \/ ExecuteWorkflow(r)
    PROVE  TypeOK'
<1> USE DEF apiVars, payVars
<1>1. CASE PaymentInitiationReversalsCreate(r)
  <2>1. <<"PROCESSED">> \in Seq({"PROCESSED", "FAILED"})
    OBVIOUS
  <2>2. revAdjs' \in [Reversals -> Seq({"PROCESSED", "FAILED"})]
    <3>1. CASE revAdjs[r] = << >>
      BY <1>1, <2>1, <3>1 DEF PaymentInitiationReversalsCreate, TypeOK
    <3>2. CASE revAdjs[r] # << >>
      BY <1>1, <3>2 DEF PaymentInitiationReversalsCreate, TypeOK
    <3> QED
      BY <3>1, <3>2
  <2> QED
    BY <1>1, <2>2 DEF PaymentInitiationReversalsCreate, TypeOK
<1>2. CASE TasksUpsert(r)
  BY <1>2 DEF TasksUpsert, TypeOK
<1>3. CASE ExecuteWorkflow(r)
  <2>1. overlapped' \in BOOLEAN
    BY <1>3 DEF ExecuteWorkflow, TypeOK
  <2>2. pc' \in [Reversals -> Labels]
    BY <1>3 DEF ExecuteWorkflow, TypeOK, Labels
  <2>3. request' \in [Reversals -> {"none", "stored", "tasked", "done"}]
    BY <1>3 DEF ExecuteWorkflow, TypeOK
  <2> QED
    BY <1>3, <2>1, <2>2, <2>3 DEF ExecuteWorkflow, TypeOK
<1> QED
  BY <1>1, <1>2, <1>3

\* The workflow keeps the types.
LEMMA WorkflowType ==
    ASSUME TypeOK, NEW r \in Reversals, WorkflowStep(r)
    PROVE  TypeOK'
<1> USE DEF apiVars, payVars
<1>a. AmountOf[r] \in Nat /\ Amount \in Nat
  BY ReversalAssumption
<1>l. ASSUME NEW label \in Labels, Goto(r, label) PROVE pc' \in [Reversals -> Labels]
  BY <1>l, GotoEffect
<1>1. CASE ValidateProcessed(r) \/ ClaimRead(r) \/ \E found \in BOOLEAN : GetAccounts(r, found)
  <2>1. pc' \in [Reversals -> Labels]
    BY <1>1, <1>l DEF ValidateProcessed, ClaimRead, GetAccounts, Labels
  <2> QED
    BY <1>1, <2>1 DEF ValidateProcessed, ClaimRead, GetAccounts, TypeOK
<1>2. CASE ValidateAmount(r)
  <2>1. pc' \in [Reversals -> Labels]
    BY <1>2, <1>l DEF ValidateAmount, Labels
  <2>2. now' \in Nat /\ claimAt' \in [Reversals -> Nat]
    BY <1>2 DEF ValidateAmount, TypeOK
  <2> QED
    BY <1>2, <2>1, <2>2 DEF ValidateAmount, TypeOK
<1>3. ASSUME NEW isLost \in BOOLEAN, ClaimInsert(r, isLost) PROVE TypeOK'
  <2>1. pc' \in [Reversals -> Labels]
    BY <1>3, <1>l, ClaimInsertEffect DEF Labels
  <2>2. adjs' \in Seq(Adjustment) /\ lost' \in 0 .. MaxLost
    BY <1>3, ClaimInsertEffect
  <2> QED
    BY <1>3, <2>1, <2>2 DEF ClaimInsert, TypeOK
<1>4. ASSUME NEW s \in RefundStatuses, PluginRefund(r, s) \/ PluginInvalid(r, s)
      PROVE  TypeOK'
  <2>1. pc' \in [Reversals -> Labels]
    BY <1>4, <1>l DEF PluginRefund, PluginInvalid, Labels
  <2>2. psp' \in [Reversals -> PSPAnswers]
    <3>1. s \in PSPAnswers
      BY ReversalAssumption DEF PSPAnswers
    <3> QED
      BY <1>4, <3>1 DEF PluginRefund, PluginInvalid, TypeOK
  <2>3. now' = now + 1 /\ payAt' = [payAt EXCEPT ![r] = now]
    BY <1>4 DEF PluginRefund, PluginInvalid
  <2>4. now' \in Nat /\ payAt' \in [Reversals -> Nat]
    BY <2>3 DEF TypeOK
  <2> QED
    BY <1>4, <2>1, <2>2, <2>4 DEF PluginRefund, PluginInvalid, TypeOK
<1>5. CASE PluginError(r)
  <2>1. pc' \in [Reversals -> Labels]
    BY <1>5, <1>l DEF PluginError, Labels
  <2> QED
    BY <1>5, <2>1 DEF PluginError, TypeOK, PSPAnswers
<1>6. CASE StorePayment(r) \/ RelatePayment(r)
  <2>1. pc' \in [Reversals -> Labels]
    BY <1>6, <1>l DEF StorePayment, RelatePayment, Labels
  <2> QED
    BY <1>6, <2>1 DEF StorePayment, RelatePayment, TypeOK
<1>7. CASE AddStatus(r)
  <2>1. pc' \in [Reversals -> Labels]
    BY <1>7, <1>l DEF AddStatus, Labels
  <2>2. adjs' \in Seq(Adjustment) /\ now' \in Nat
    BY <1>7, <1>a, StatusType, AddAdjustmentEffect DEF AddStatus, TypeOK
  <2> QED
    BY <1>7, <2>1, <2>2 DEF AddStatus, TypeOK
<1>8. ASSUME NEW label, NEW status \in {"PROCESSED", "FAILED"}, NEW next \in Labels,
             AddReversalAdjustment(r, label, status, next)
      PROVE  TypeOK'
  <2>1. pc' \in [Reversals -> Labels]
    BY <1>8, <1>l DEF AddReversalAdjustment
  <2>2. Append(revAdjs[r], status) \in Seq({"PROCESSED", "FAILED"})
    BY AppendProperties DEF TypeOK
  <2>3. revAdjs' \in [Reversals -> Seq({"PROCESSED", "FAILED"})]
    BY <1>8, <2>2 DEF AddReversalAdjustment, TypeOK
  <2> QED
    BY <1>8, <2>1, <2>3 DEF AddReversalAdjustment, TypeOK
<1>9. CASE AddReverseFailed(r)
  <2>1. pc' \in [Reversals -> Labels]
    BY <1>9, <1>l DEF AddReverseFailed, Labels
  <2>2. adjs' \in Seq(Adjustment) /\ now' \in Nat
    BY <1>9, <1>a, AddAdjustmentEffect DEF AddReverseFailed, AdjustmentStatuses, TypeOK
  <2> QED
    BY <1>9, <2>1, <2>2 DEF AddReverseFailed, TypeOK
<1>10. ASSUME NEW label, NEW status \in {"SUCCEEDED", "FAILED"}, TaskEnd(r, label, status)
       PROVE  TypeOK'
  <2>1. pc' \in [Reversals -> Labels]
    BY <1>10, <1>l DEF TaskEnd, Labels
  <2> QED
    BY <1>10, <2>1 DEF TaskEnd, TypeOK
<1>11. "taskOk" \in Labels /\ "piErr" \in Labels
  BY DEF Labels
<1> QED
  BY <1>1, <1>2, <1>3, <1>4, <1>5, <1>6, <1>7, <1>8, <1>9, <1>10, <1>11 DEF WorkflowStep

\* The payout's own update and the payment fetch keep the types and every row.
LEMMA OutsideEffect ==
    ASSUME TypeOK, PayoutProcessed \/ \E r \in Reversals : UpdateFromRefund(r)
    PROVE  /\ adjs' \in Seq(Adjustment)
           /\ now' \in Nat /\ now <= now'
           /\ \A i \in DOMAIN adjs : i \in DOMAIN adjs' /\ adjs'[i] = adjs[i]
           /\ UNCHANGED <<apiVars, revAdjs, pc, claimAt, lost, payVars, overlapped>>
<1>1. CASE PayoutProcessed
  BY <1>1, ReversalAssumption, AddAdjustmentEffect
     DEF PayoutProcessed, AdjustmentStatuses, TypeOK
<1>2. ASSUME NEW r \in Reversals, UpdateFromRefund(r)
      PROVE  /\ adjs' \in Seq(Adjustment)
             /\ now' = now
             /\ \A i \in DOMAIN adjs : i \in DOMAIN adjs' /\ adjs'[i] = adjs[i]
             /\ UNCHANGED <<apiVars, revAdjs, pc, claimAt, lost, payVars, overlapped>>
  <2>1. StatusFromFetch("REFUNDED") = "REVERSED"
    BY DEF StatusFromFetch, PendingPayment, PaidPayment, FailedPayment
  <2> DEFINE a == [status |-> StatusFromFetch(psp[r]), at |-> payAt[r], amount |-> NoAmount]
  <2>2. a \in Adjustment
    BY <1>2, <2>1 DEF UpdateFromRefund, Adjustment, AdjustmentStatuses, TypeOK
  <2>3. adjs' = Upsert(adjs, a)
    BY <1>2 DEF UpdateFromRefund
  <2> HIDE DEF a
  <2>4. /\ adjs' \in Seq(Adjustment)
        /\ \A i \in DOMAIN adjs : i \in DOMAIN adjs' /\ adjs'[i] = adjs[i]
    BY <2>2, <2>3, UpsertKeeps DEF TypeOK
  <2> QED
    BY <1>2, <2>4 DEF UpdateFromRefund
<1> QED
  BY <1>1, <1>2 DEF TypeOK

\* The initial types.
LEMMA InitType == Init => TypeOK
<1> SUFFICES ASSUME Init PROVE TypeOK
  OBVIOUS
<1>1. [status |-> "PROCESSING", at |-> 0, amount |-> Amount] \in Adjustment
  BY ReversalAssumption DEF Adjustment, AdjustmentStatuses
<1>2. adjs \in Seq(Adjustment)
  BY <1>1 DEF Init
<1>3. revAdjs \in [Reversals -> Seq({"PROCESSED", "FAILED"})]
  BY EmptySeq DEF Init
<1>4. lost \in 0 .. MaxLost
  BY ReversalAssumption DEF Init
<1> QED
  BY <1>2, <1>3, <1>4 DEF Init, TypeOK, Labels, PSPAnswers

\* The rows of the initiation and of its reversals, the tasks and the workflows
\* keep their types in every behaviour.
THEOREM ReversalTypeCorrect == Spec => []TypeOK
<1>1. Init => TypeOK
  BY InitType
<1>2. TypeOK /\ [Next]_vars => TypeOK'
  <2> SUFFICES ASSUME TypeOK, [Next]_vars PROVE TypeOK'
    OBVIOUS
  <2>1. ASSUME PayoutProcessed \/ \E r \in Reversals : UpdateFromRefund(r) PROVE TypeOK'
    BY <2>1, OutsideEffect DEF TypeOK, apiVars, payVars
  <2>2. CASE UNCHANGED vars
    BY <2>2 DEF vars, apiVars, payVars, TypeOK
  <2> QED
    BY <2>1, <2>2, RequestType, WorkflowType DEF Next
<1> QED
  BY <1>1, <1>2, PTL DEF Spec

-----------------------------------------------------------------------------
(* A claim for every refund.                                               *)

\* The claim of the reversal is in the table, under the date fixed for it.
HasClaim(r) ==
    \E i \in DOMAIN adjs :
        adjs[i].status = "REVERSE_PROCESSING" /\ adjs[i].at = claimAt[r]

\* The dates fixed for claims are in the past, and no two reversals share one.
DatesDiffer ==
    /\ now > 0
    /\ \A r \in Reversals : claimAt[r] < now
    /\ \A r, q \in Reversals : claimAt[r] = claimAt[q] /\ claimAt[r] > 0 => r = q

\* Where the workflow of a reversal is, against its claim and the PSP.
ClaimedFirst(r) ==
    /\ pc[r] \in {"claim", "insert"} => claimAt[r] > 0
    /\ pc[r] \in {"none", "processed", "amount", "claim", "insert"} => psp[r] = "NONE"
    /\ pc[r] \in {"accounts", "plugin"} \/ psp[r] # "NONE"
         => claimAt[r] > 0 /\ HasClaim(r)

\* The inductive invariant behind RefundsClaimed: the row of a claim carries a
\* date no other reversal has, so it counts for one refund only.
ClaimInv == DatesDiffer /\ \A r \in Reversals : ClaimedFirst(r)

\* A claim stays in the table, which only grows.
LEMMA ClaimKept ==
    ASSUME NEW r \in Reversals, HasClaim(r), claimAt'[r] = claimAt[r],
           \A i \in DOMAIN adjs : i \in DOMAIN adjs' /\ adjs'[i] = adjs[i]
    PROVE  HasClaim(r)'
BY DEF HasClaim

\* The invariant is kept by a step that fixes no date, removes no row, moves at
\* most the workflow of r, and not to a label that needs a claim it has not.
LEMMA StepKeepsClaims ==
    ASSUME TypeOK, ClaimInv, NEW r \in Reversals, NEW label,
           \A q \in Reversals : pc'[q] = IF q = r THEN label ELSE pc[q],
           \A q \in Reversals : q # r => psp'[q] = psp[q],
           now' \in Nat, now <= now', claimAt' = claimAt,
           \A i \in DOMAIN adjs : i \in DOMAIN adjs' /\ adjs'[i] = adjs[i],
           label \notin {"claim", "insert"} \/ claimAt[r] > 0,
           label \notin {"none", "processed", "amount", "claim", "insert"} \/ psp'[r] = "NONE",
           (label \notin {"accounts", "plugin"} /\ psp'[r] = "NONE")
              \/ (claimAt[r] > 0 /\ HasClaim(r)')
    PROVE  ClaimInv'
<1>1. DatesDiffer'
  BY DEF ClaimInv, DatesDiffer, TypeOK
<1>2. ASSUME NEW q \in Reversals PROVE ClaimedFirst(q)'
  <2>1. CASE q = r
    BY <2>1 DEF ClaimedFirst
  <2>2. CASE q # r
    <3>1. HasClaim(q) => HasClaim(q)'
      BY ClaimKept
    <3> QED
      BY <2>2, <3>1 DEF ClaimInv, ClaimedFirst
  <2> QED
    BY <2>1, <2>2
<1> QED
  BY <1>1, <1>2 DEF ClaimInv

\* The workflow keeps the invariant.
LEMMA WorkflowClaims ==
    ASSUME TypeOK, ClaimInv, NEW r \in Reversals, WorkflowStep(r)
    PROVE  ClaimInv'
<1> USE DEF apiVars, payVars
<1>a. AmountOf[r] \in Nat /\ Amount \in Nat
  BY ReversalAssumption
<1>c. ClaimedFirst(r) /\ now \in Nat /\ now <= now /\ now <= now + 1 /\ now + 1 \in Nat
  BY DEF ClaimInv, TypeOK
<1>k. ASSUME UNCHANGED <<adjs, claimAt>>, HasClaim(r) PROVE HasClaim(r)'
  BY <1>k DEF HasClaim
<1>1. CASE ValidateProcessed(r)
  <2>1. PICK label \in {"amount", "taskErr"} : Goto(r, label)
    BY <1>1 DEF ValidateProcessed
  <2>2. psp[r] = "NONE"
    BY <1>1, <1>c DEF ValidateProcessed, ClaimedFirst
  <2> QED
    BY <1>1, <1>c, <2>1, <2>2, GotoEffect, StepKeepsClaims DEF ValidateProcessed
<1>2. CASE ValidateAmount(r)
  <2>1. psp[r] = "NONE"
    BY <1>2, <1>c DEF ValidateAmount, ClaimedFirst
  <2>2. CASE Goto(r, "taskErr") /\ UNCHANGED <<now, claimAt>>
    BY <1>2, <1>c, <2>1, <2>2, GotoEffect, StepKeepsClaims DEF ValidateAmount
  <2>3. CASE /\ Goto(r, "claim")
             /\ claimAt' = [claimAt EXCEPT ![r] = now]
             /\ now' = now + 1
    <3>1. /\ \A q \in Reversals : claimAt'[q] = IF q = r THEN now ELSE claimAt[q]
          /\ \A q \in Reversals : claimAt[q] \in Nat
      BY <2>3 DEF TypeOK
    <3>2. DatesDiffer'
      BY <1>c, <2>3, <3>1 DEF ClaimInv, DatesDiffer
    <3>3. \A q \in Reversals : pc'[q] = IF q = r THEN "claim" ELSE pc[q]
      BY <2>3, GotoEffect
    <3>4. ClaimedFirst(r)'
      BY <1>2, <1>c, <2>1, <3>1, <3>3 DEF ValidateAmount, ClaimedFirst, ClaimInv, DatesDiffer
    <3>5. ASSUME NEW q \in Reversals, q # r PROVE ClaimedFirst(q)'
      <4>1. HasClaim(q) => HasClaim(q)'
        BY <1>2, <3>1, <3>5, ClaimKept DEF ValidateAmount
      <4> QED
        BY <1>2, <3>1, <3>3, <3>5, <4>1 DEF ValidateAmount, ClaimInv, ClaimedFirst
    <3> QED
      BY <3>2, <3>4, <3>5 DEF ClaimInv
  <2> QED
    BY <1>2, <2>2, <2>3 DEF ValidateAmount
<1>3. CASE ClaimRead(r)
  <2>1. PICK label \in {"insert", "taskErr"} : Goto(r, label)
    BY <1>3 DEF ClaimRead
  <2>2. psp[r] = "NONE" /\ claimAt[r] > 0
    BY <1>3, <1>c DEF ClaimRead, ClaimedFirst
  <2> QED
    BY <1>3, <1>c, <2>1, <2>2, GotoEffect, StepKeepsClaims DEF ClaimRead
<1>4. ASSUME NEW isLost \in BOOLEAN, ClaimInsert(r, isLost) PROVE ClaimInv'
  <2>1. PICK label \in {"claim", "taskErr", "accounts"} : Goto(r, label)
    BY <1>4, ClaimInsertEffect
  <2>2. psp[r] = "NONE" /\ claimAt[r] > 0
    BY <1>4, <1>c DEF ClaimInsert, ClaimedFirst
  <2>3. /\ HasClaim(r)'
        /\ \A i \in DOMAIN adjs : i \in DOMAIN adjs' /\ adjs'[i] = adjs[i]
        /\ UNCHANGED <<claimAt, now, psp>>
    BY <1>4, ClaimInsertEffect DEF ClaimInsert, HasClaim
  <2> QED
    BY <1>c, <2>1, <2>2, <2>3, GotoEffect, StepKeepsClaims
<1>5. CASE \E found \in BOOLEAN : GetAccounts(r, found)
  <2>1. PICK label \in {"plugin", "taskErr"} : Goto(r, label)
    BY <1>5 DEF GetAccounts
  <2>2. /\ claimAt[r] > 0 /\ HasClaim(r)
        /\ UNCHANGED <<adjs, now, claimAt, psp>>
    BY <1>5, <1>c DEF GetAccounts, ClaimedFirst
  <2> QED
    BY <1>c, <1>k, <2>1, <2>2, GotoEffect, StepKeepsClaims
<1>6. CASE PluginError(r) \/ \E s \in RefundStatuses : PluginRefund(r, s) \/ PluginInvalid(r, s)
  <2>1. PICK label \in {"store", "taskErr", "reversalErr"} : Goto(r, label)
    BY <1>6 DEF PluginRefund, PluginInvalid, PluginError
  <2>2. /\ claimAt[r] > 0 /\ HasClaim(r)
        /\ UNCHANGED <<adjs, claimAt>> /\ now' \in {now, now + 1}
    BY <1>6, <1>c DEF PluginRefund, PluginInvalid, PluginError, ClaimedFirst
  <2>3. \A q \in Reversals : q # r => psp'[q] = psp[q]
    BY <1>6 DEF PluginRefund, PluginInvalid, PluginError, TypeOK
  <2>4. HasClaim(r)' /\ now' \in Nat /\ now <= now'
    BY <1>c, <1>k, <2>2
  <2>5. \A i \in DOMAIN adjs : i \in DOMAIN adjs' /\ adjs'[i] = adjs[i]
    BY <2>2
  <2>6. \A q \in Reversals : pc'[q] = IF q = r THEN label ELSE pc[q]
    BY <2>1, GotoEffect
  <2> QED
    BY <2>1, <2>2, <2>3, <2>4, <2>5, <2>6, StepKeepsClaims
<1>7. ASSUME NEW label, Goto(r, label),
             label \in {"relate", "status", "reversalOk", "piErr", "taskOk", "taskErr", "closed"},
             \A i \in DOMAIN adjs : i \in DOMAIN adjs' /\ adjs'[i] = adjs[i],
             UNCHANGED <<claimAt, psp>>, now' \in {now, now + 1}
      PROVE  ClaimInv'
  <2>1. psp[r] # "NONE" => claimAt[r] > 0 /\ HasClaim(r)'
    BY <1>7, <1>c, ClaimKept DEF ClaimedFirst
  <2> QED
    BY <1>7, <1>c, <2>1, GotoEffect, StepKeepsClaims
<1>8. CASE \/ StorePayment(r) \/ RelatePayment(r)
           \/ AddReversalAdjustment(r, "reversalOk", "PROCESSED", "taskOk")
           \/ AddReversalAdjustment(r, "reversalErr", "FAILED", "piErr")
           \/ TaskEnd(r, "taskOk", "SUCCEEDED") \/ TaskEnd(r, "taskErr", "FAILED")
  BY <1>7, <1>8 DEF StorePayment, RelatePayment, AddReversalAdjustment, TaskEnd
<1>9. CASE AddStatus(r)
  <2>1. /\ now' = now + 1
        /\ \A i \in DOMAIN adjs : i \in DOMAIN adjs' /\ adjs'[i] = adjs[i]
    BY <1>9, <1>a, StatusType, AddAdjustmentEffect DEF AddStatus
  <2> QED
    BY <1>7, <1>9, <2>1 DEF AddStatus
<1>10. CASE AddReverseFailed(r)
  <2>1. /\ now' = now + 1
        /\ \A i \in DOMAIN adjs : i \in DOMAIN adjs' /\ adjs'[i] = adjs[i]
    BY <1>10, <1>a, AddAdjustmentEffect DEF AddReverseFailed, AdjustmentStatuses
  <2> QED
    BY <1>7, <1>10, <2>1 DEF AddReverseFailed
<1> QED
  BY <1>1, <1>2, <1>3, <1>4, <1>5, <1>6, <1>8, <1>9, <1>10 DEF WorkflowStep

\* A reversal that is started has asked the PSP for nothing.
LEMMA RequestClaims ==
    ASSUME TypeOK, ClaimInv, NEW r \in Reversals,
           \/ PaymentInitiationReversalsCreate(r) \/ TasksUpsert(r) \/ ExecuteWorkflow(r)
    PROVE  ClaimInv'
<1> USE DEF apiVars, payVars
<1>1. UNCHANGED <<adjs, now, claimAt, psp>>
  BY DEF PaymentInitiationReversalsCreate, TasksUpsert, ExecuteWorkflow
<1>2. \A q \in Reversals : pc'[q] = pc[q] \/ (pc[q] = "none" /\ pc'[q] = "processed")
  BY DEF PaymentInitiationReversalsCreate, TasksUpsert, ExecuteWorkflow, TypeOK
<1>3. \A q \in Reversals : HasClaim(q)' <=> HasClaim(q)
  BY <1>1 DEF HasClaim
<1>4. \A q \in Reversals : ClaimedFirst(q)'
  BY <1>1, <1>2, <1>3 DEF ClaimInv, ClaimedFirst
<1> QED
  BY <1>1, <1>4 DEF ClaimInv, DatesDiffer

\* The invariant gives every refund a row of its own, so there are no more
\* refunds than REVERSE_PROCESSING rows.
LEMMA ClaimsCount ==
    ASSUME TypeOK, ClaimInv
    PROVE  RefundsClaimed
<1> DEFINE S == {r \in Reversals : psp[r] # "NONE"}
           T == {i \in DOMAIN adjs : adjs[i].status = "REVERSE_PROCESSING"}
           f == [r \in S |-> CHOOSE i \in T : adjs[i].at = claimAt[r]]
<1>1. \A r \in S : f[r] \in T /\ adjs[f[r]].at = claimAt[r]
  BY DEF ClaimInv, ClaimedFirst, HasClaim
<1>2. \A r \in S : claimAt[r] > 0
  BY DEF ClaimInv, ClaimedFirst
<1>3. \A r, q \in S : f[r] = f[q] => r = q
  <2> HIDE DEF f
  <2> QED
    BY <1>1, <1>2 DEF ClaimInv, DatesDiffer
<1>4. f \in [S -> T]
  BY <1>1
<1>5. IsFiniteSet(T)
  <2>1. DOMAIN adjs = 1 .. Len(adjs) /\ Len(adjs) \in Nat
    BY LenProperties DEF TypeOK
  <2>2. IsFiniteSet(1 .. Len(adjs))
    BY <2>1, FS_Interval
  <2>3. T \subseteq 1 .. Len(adjs)
    BY <2>1
  <2> QED
    BY <2>2, <2>3, FS_Subset
<1>6. f \in Injection(S, T)
  <2> HIDE DEF f, S, T
  <2> QED
    BY <1>3, <1>4, Fun_IsInj
<1>7. Cardinality(S) <= Cardinality(T)
  <2> HIDE DEF f, S, T
  <2> QED
    BY <1>5, <1>6, FS_Injection
<1> QED
  BY <1>7 DEF RefundsClaimed

\* Every step keeps the claims in order.
LEMMA ClaimInvariant == Spec => []ClaimInv
<1>1. Init => ClaimInv
  BY DEF Init, ClaimInv, DatesDiffer, ClaimedFirst
<1>2. TypeOK /\ ClaimInv /\ [Next]_vars => ClaimInv'
  <2> SUFFICES ASSUME TypeOK, ClaimInv, [Next]_vars PROVE ClaimInv'
    OBVIOUS
  <2>1. ASSUME PayoutProcessed \/ \E r \in Reversals : UpdateFromRefund(r)
        PROVE  ClaimInv'
    <3>1. /\ UNCHANGED <<pc, claimAt, psp>>
          /\ now' \in Nat /\ now <= now'
      BY <2>1, OutsideEffect DEF payVars
    <3>2. \A q \in Reversals : HasClaim(q) => HasClaim(q)'
      BY <2>1, <3>1, OutsideEffect, ClaimKept
    <3>3. \A q \in Reversals : ClaimedFirst(q)'
      BY <3>1, <3>2 DEF ClaimInv, ClaimedFirst
    <3>4. DatesDiffer'
      BY <3>1 DEF ClaimInv, DatesDiffer, TypeOK
    <3> QED
      BY <3>3, <3>4 DEF ClaimInv
  <2>2. CASE UNCHANGED vars
    BY <2>2 DEF vars, apiVars, payVars, ClaimInv, DatesDiffer, ClaimedFirst, HasClaim
  <2> QED
    BY <2>1, <2>2, RequestClaims, WorkflowClaims DEF Next
<1> QED
  BY <1>1, <1>2, ReversalTypeCorrect, PTL DEF Spec

\* The PSP is asked for no refund without a claim of its own on the initiation,
\* however the reads and inserts of the claims interleave, and also when the
\* result of a claim is lost and the activity runs again.
THEOREM RefundsAreClaimed == Spec => []RefundsClaimed
<1>1. TypeOK /\ ClaimInv => RefundsClaimed
  BY ClaimsCount
<1> QED
  BY <1>1, ReversalTypeCorrect, ClaimInvariant, PTL

-----------------------------------------------------------------------------
(* Sums over a finite set.                                                 *)

\* A property of all subsets of a finite set, given as the set Q of those that have
\* it, holds when it passes from a set without one element to the set.
LEMMA SubsetInduction ==
    ASSUME NEW S, IsFiniteSet(S), NEW Q,
           \A T \in SUBSET S : (\A x \in T : T \ {x} \in Q) => T \in Q
    PROVE  \A T \in SUBSET S : T \in Q
<1> DEFINE R == StrictSubsetOrdering(S)
           Bad == {T \in SUBSET S : T \notin Q}
<1> SUFFICES ASSUME Bad # {} PROVE FALSE
  OBVIOUS
<1>1. IsWellFoundedOn(R, SUBSET S)
  <2>1. IsWellFoundedOn(R, FiniteSubsetsOf(S))
    BY FS_StrictSubsetOrderingWellFounded
  <2>2. FiniteSubsetsOf(S) = SUBSET S
    BY FS_FiniteSubsetsOfFinite
  <2> HIDE DEF R
  <2> QED
    BY <2>1, <2>2
<1>2. PICK T \in Bad : \A U \in Bad : <<U, T>> \notin R
  <2>1. Bad \subseteq SUBSET S
    OBVIOUS
  <2> HIDE DEF Bad, R
  <2> QED
    BY <1>1, <2>1, WFMin
<1>3. ASSUME NEW x \in T PROVE T \ {x} \in Q
  <2>1. T \ {x} \in SUBSET S /\ T \ {x} \subseteq T /\ T \ {x} # T
    OBVIOUS
  <2>2. <<T \ {x}, T>> \in R
    BY <2>1 DEF StrictSubsetOrdering
  <2> QED
    BY <1>2, <2>1, <2>2
<1> QED
  BY <1>2, <1>3

\* F gives the sum of f over every subset of S, whichever element is added last.
IsSum(F, S, f) ==
    /\ F \in [SUBSET S -> Int]
    /\ F[{}] = 0
    /\ \A T \in SUBSET S : \A x \in T : F[T] = f[x] + F[T \ {x}]

\* The sums over the subsets of T follow from those over the subsets of T without x.
LEMMA SumExtends ==
    ASSUME NEW T, NEW x \in T, NEW f, \A y \in T : f[y] \in Int,
           NEW G, IsSum(G, T \ {x}, f)
    PROVE  \E F : IsSum(F, T, f)
<1> DEFINE F == [U \in SUBSET T |-> IF x \in U THEN f[x] + G[U \ {x}] ELSE G[U]]
<1>1. /\ G \in [SUBSET (T \ {x}) -> Int] /\ G[{}] = 0
      /\ \A U \in SUBSET (T \ {x}) : \A y \in U : G[U] = f[y] + G[U \ {y}]
  BY DEF IsSum
<1>2. /\ \A U \in SUBSET T : U \ {x} \in SUBSET (T \ {x})
      /\ \A U \in SUBSET T : x \notin U => U \in SUBSET (T \ {x})
  OBVIOUS
<1>3. /\ \A U \in SUBSET T : x \in U => F[U] = f[x] + G[U \ {x}]
      /\ \A U \in SUBSET T : x \notin U => F[U] = G[U]
  OBVIOUS
<1>4. F \in [SUBSET T -> Int]
  <2>1. ASSUME NEW U \in SUBSET T
        PROVE  (IF x \in U THEN f[x] + G[U \ {x}] ELSE G[U]) \in Int
    <3>1. CASE x \in U
      <4>1. f[x] \in Int /\ G[U \ {x}] \in Int
        BY <1>1, <1>2
      <4> QED
        BY <3>1, <4>1
    <3>2. CASE x \notin U
      BY <1>1, <1>2, <3>2
    <3> QED
      BY <3>1, <3>2
  <2> QED
    BY <2>1
<1> HIDE DEF F
<1>5. F[{}] = 0
  BY <1>1, <1>3
<1>6. ASSUME NEW U \in SUBSET T, NEW y \in U
      PROVE  F[U] = f[y] + F[U \ {y}]
  <2>1. U \ {y} \in SUBSET T /\ y \in T
    OBVIOUS
  <2>2. CASE y = x
    BY <1>3, <2>1, <2>2
  <2>3. CASE y # x /\ x \notin U
    BY <1>1, <1>2, <1>3, <2>1, <2>3
  <2>4. CASE y # x /\ x \in U
    <3>1. F[U] = f[x] + G[U \ {x}] /\ F[U \ {y}] = f[x] + G[(U \ {y}) \ {x}]
      BY <1>3, <2>1, <2>4
    <3>2. U \ {x} \in SUBSET (T \ {x}) /\ y \in U \ {x}
      BY <1>2, <2>4
    <3>3. G[U \ {x}] = f[y] + G[(U \ {x}) \ {y}]
      BY <1>1, <3>2
    <3>4. (U \ {x}) \ {y} = (U \ {y}) \ {x} /\ (U \ {x}) \ {y} \in SUBSET (T \ {x})
      BY <3>2
    <3>5. G[(U \ {y}) \ {x}] \in Int /\ f[x] \in Int /\ f[y] \in Int
      BY <1>1, <2>1, <3>4
    <3>6. \A a, b, c \in Int : a + (b + c) = b + (a + c)
      OBVIOUS
    <3>7. F[U] = f[x] + (f[y] + G[(U \ {y}) \ {x}])
      BY <3>1, <3>3, <3>4
    <3>8. F[U \ {y}] = f[x] + G[(U \ {y}) \ {x}]
      BY <3>1
    <3> QED
      BY <3>5, <3>6, <3>7, <3>8
  <2> QED
    BY <2>2, <2>3, <2>4
<1>7. IsSum(F, T, f)
  BY <1>4, <1>5, <1>6 DEF IsSum
<1> QED
  BY <1>7

\* Over a finite set there is a sum.
LEMMA SumExists ==
    ASSUME NEW S, IsFiniteSet(S), NEW f, \A y \in S : f[y] \in Int
    PROVE  \E F : IsSum(F, S, f)
<1> DEFINE Q == {T \in SUBSET S : \E F : IsSum(F, T, f)}
<1>1. ASSUME NEW T \in SUBSET S, \A x \in T : T \ {x} \in Q
      PROVE  T \in Q
  <2>1. CASE T = {}
    <3> DEFINE F == [U \in SUBSET {} |-> 0]
    <3>1. F \in [SUBSET {} -> Int] /\ F[{}] = 0
      OBVIOUS
    <3>2. \A U \in SUBSET {} : \A x \in U : F[U] = f[x] + F[U \ {x}]
      OBVIOUS
    <3> HIDE DEF F
    <3>3. IsSum(F, {}, f)
      BY <3>1, <3>2 DEF IsSum
    <3> QED
      BY <2>1, <3>3
  <2>2. CASE T # {}
    <3>1. PICK x \in T : TRUE
      BY <2>2
    <3>2. PICK G : IsSum(G, T \ {x}, f)
      BY <1>1, <3>1
    <3>3. \A y \in T : f[y] \in Int
      OBVIOUS
    <3>4. \E F : IsSum(F, T, f)
      BY <3>2, <3>3, SumExtends
    <3> QED
      BY <3>4
  <2> QED
    BY <2>1, <2>2
<1>2. \A T \in SUBSET S : T \in Q
  <2> HIDE DEF Q
  <2> QED
    BY <1>1, SubsetInduction
<1> QED
  BY <1>2

\* G adds some element last for every subset of S.
Adds(G, S, f) ==
    /\ G[{}] = 0
    /\ \A T \in SUBSET S : T # {} => \E x \in T : G[T] = f[x] + G[T \ {x}]

\* A function that adds some element last for every subset is the sum.
LEMMA SumUnique ==
    ASSUME NEW S, IsFiniteSet(S), NEW f, NEW F, IsSum(F, S, f),
           NEW G, Adds(G, S, f)
    PROVE  \A T \in SUBSET S : G[T] = F[T]
<1> DEFINE Q == {T \in SUBSET S : G[T] = F[T]}
<1>1. ASSUME NEW T \in SUBSET S, \A x \in T : T \ {x} \in Q
      PROVE  T \in Q
  <2>1. CASE T = {}
    BY <2>1 DEF IsSum, Adds
  <2>2. CASE T # {}
    <3>1. PICK x \in T : G[T] = f[x] + G[T \ {x}]
      BY <2>2 DEF Adds
    <3>2. F[T] = f[x] + F[T \ {x}]
      BY DEF IsSum
    <3> QED
      BY <1>1, <3>1, <3>2
  <2> QED
    BY <2>1, <2>2
<1>2. \A T \in SUBSET S : T \in Q
  <2> HIDE DEF Q
  <2> QED
    BY <1>1, SubsetInduction
<1> QED
  BY <1>2

\* The sum of f over S.
TotalOf(f, S) == (CHOOSE F : IsSum(F, S, f))[S]

\* The total is that of any sum over a larger set.
LEMMA TotalIs ==
    ASSUME NEW S, IsFiniteSet(S), NEW f, NEW F, IsSum(F, S, f), NEW T \in SUBSET S
    PROVE  TotalOf(f, T) = F[T]
<1> DEFINE H == CHOOSE H : IsSum(H, T, f)
           G == [U \in SUBSET T |-> F[U]]
<1>1. IsSum(G, T, f)
  <2>1. /\ F \in [SUBSET S -> Int] /\ F[{}] = 0
        /\ \A U \in SUBSET S : \A x \in U : F[U] = f[x] + F[U \ {x}]
    BY DEF IsSum
  <2>2. SUBSET T \subseteq SUBSET S
    OBVIOUS
  <2>3. G \in [SUBSET T -> Int] /\ \A U \in SUBSET T : G[U] = F[U]
    BY <2>1, <2>2
  <2> HIDE DEF G
  <2>4. ASSUME NEW U \in SUBSET T, NEW x \in U PROVE G[U] = f[x] + G[U \ {x}]
    <3>1. U \ {x} \in SUBSET T
      OBVIOUS
    <3> QED
      BY <2>1, <2>2, <2>3, <3>1
  <2> QED
    BY <2>1, <2>3, <2>4 DEF IsSum
<1>2. IsSum(H, T, f)
  BY <1>1
<1>3. TotalOf(f, T) = H[T]
  BY DEF TotalOf
<1>4. G[T] = F[T]
  OBVIOUS
<1> HIDE DEF G, H
<1>5. IsFiniteSet(T)
  BY FS_Subset
<1>6. Adds(G, T, f)
  BY <1>1 DEF IsSum, Adds
<1>7. \A U \in SUBSET T : G[U] = H[U]
  BY <1>2, <1>5, <1>6, SumUnique
<1> QED
  BY <1>3, <1>4, <1>7

\* A total is a number, and any element can be taken out of it.
LEMMA TotalStep ==
    ASSUME NEW S, IsFiniteSet(S), NEW f, \A y \in S : f[y] \in Int
    PROVE  /\ TotalOf(f, S) \in Int
           /\ TotalOf(f, {}) = 0
           /\ \A x \in S : TotalOf(f, S) = f[x] + TotalOf(f, S \ {x})
<1>1. PICK F : IsSum(F, S, f)
  BY SumExists
<1>2. \A T \in SUBSET S : TotalOf(f, T) = F[T]
  BY <1>1, TotalIs
<1> QED
  BY <1>1, <1>2 DEF IsSum

\* Functions that agree on a set have the same total over it.
LEMMA TotalSame ==
    ASSUME NEW S, IsFiniteSet(S), NEW f, NEW g, \A y \in S : f[y] \in Int /\ g[y] = f[y]
    PROVE  TotalOf(g, S) = TotalOf(f, S)
<1>1. PICK F : IsSum(F, S, f)
  BY SumExists
<1>2. PICK G : IsSum(G, S, g)
  BY SumExists
<1>3. TotalOf(f, S) = F[S] /\ TotalOf(g, S) = G[S]
  BY <1>1, <1>2, TotalIs
<1>4. Adds(G, S, f)
  BY <1>2 DEF IsSum, Adds
<1>5. \A T \in SUBSET S : G[T] = F[T]
  BY <1>1, <1>4, SumUnique
<1> QED
  BY <1>3, <1>5

\* A total of natural numbers is one, and that of a subset is not larger.
LEMMA TotalSubset ==
    ASSUME NEW S, IsFiniteSet(S), NEW f, \A y \in S : f[y] \in Nat, NEW T \in SUBSET S
    PROVE  TotalOf(f, S) \in Nat /\ TotalOf(f, T) \in Nat /\ TotalOf(f, T) <= TotalOf(f, S)
<1>1. PICK F : IsSum(F, S, f)
  BY SumExists
<1>2. \A U \in SUBSET S : TotalOf(f, U) = F[U]
  BY <1>1, TotalIs
<1>3. /\ F \in [SUBSET S -> Int] /\ F[{}] = 0
      /\ \A U \in SUBSET S : \A x \in U : F[U] = f[x] + F[U \ {x}]
  BY <1>1 DEF IsSum
<1> DEFINE Q == {U \in SUBSET S : F[U] >= 0 /\ (T \subseteq U => F[T] <= F[U])}
<1>4. ASSUME NEW U \in SUBSET S, \A x \in U : U \ {x} \in Q
      PROVE  U \in Q
  <2>1. F[U] >= 0
    <3>1. CASE U = {}
      BY <1>3, <3>1
    <3>2. CASE U # {}
      <4>1. PICK x \in U : TRUE
        BY <3>2
      <4>2. F[U] = f[x] + F[U \ {x}] /\ F[U \ {x}] >= 0 /\ F[U \ {x}] \in Int /\ f[x] \in Nat
        BY <1>3, <1>4, <4>1
      <4> QED
        BY <4>2
    <3> QED
      BY <3>1, <3>2
  <2>2. ASSUME T \subseteq U PROVE F[T] <= F[U]
    <3>1. CASE T = U
      <4>1. F[U] \in Int
        BY <1>3
      <4> QED
        BY <3>1, <4>1
    <3>2. CASE T # U
      <4>1. PICK x \in U : x \notin T
        BY <2>2, <3>2
      <4>2. T \subseteq U \ {x}
        BY <2>2, <4>1
      <4>3. F[U] = f[x] + F[U \ {x}] /\ F[T] <= F[U \ {x}]
            /\ F[U \ {x}] \in Int /\ f[x] \in Nat /\ F[T] \in Int
        BY <1>3, <1>4, <4>2
      <4> QED
        BY <4>3
    <3> QED
      BY <3>1, <3>2
  <2> QED
    BY <2>1, <2>2
<1>5. \A U \in SUBSET S : U \in Q
  <2> HIDE DEF Q
  <2> QED
    BY <1>4, SubsetInduction
<1>6. F[S] \in Int /\ F[T] \in Int /\ F[S] >= 0 /\ F[T] >= 0 /\ F[T] <= F[S]
  BY <1>3, <1>5
<1> QED
  BY <1>2, <1>6

-----------------------------------------------------------------------------
(* What is recorded as reversed was refunded.                              *)

\* The amount of every row.
RowAmounts == [i \in DOMAIN adjs |-> adjs[i].amount]

\* The recursion of MapThenSumSet, which takes out the chosen element first.
ChosenFirst(F, S, f) ==
    F = [T \in SUBSET S |->
          IF T = {} THEN 0
          ELSE f[CHOOSE x \in T : TRUE] + F[T \ {CHOOSE x \in T : TRUE}]]

\* It gives the total.
LEMMA ChosenFirstTotal ==
    ASSUME NEW S, IsFiniteSet(S), NEW f, \A y \in S : f[y] \in Int,
           NEW F, ChosenFirst(F, S, f)
    PROVE  F[S] = TotalOf(f, S)
<1>1. PICK G : IsSum(G, S, f)
  BY SumExists
<1>2. Adds(F, S, f)
  <2>1. F[{}] = 0
    BY DEF ChosenFirst
  <2>2. ASSUME NEW T \in SUBSET S, T # {}
        PROVE  \E x \in T : F[T] = f[x] + F[T \ {x}]
    <3>1. PICK x : x = CHOOSE y \in T : TRUE
      OBVIOUS
    <3>2. x \in T
      BY <2>2, <3>1
    <3>3. F[T] = f[x] + F[T \ {x}]
      BY <2>2, <3>1 DEF ChosenFirst
    <3> QED
      BY <3>2, <3>3
  <2> QED
    BY <2>1, <2>2 DEF Adds
<1>3. \A T \in SUBSET S : F[T] = G[T]
  BY <1>1, <1>2, SumUnique
<1>4. TotalOf(f, S) = G[S]
  BY <1>1, TotalIs
<1> QED
  BY <1>3, <1>4

\* It is defined.
LEMMA ChosenFirstExists ==
    ASSUME NEW S, IsFiniteSet(S), NEW f, \A y \in S : f[y] \in Int
    PROVE  \E F : ChosenFirst(F, S, f)
<1>1. PICK F : IsSum(F, S, f)
  BY SumExists
<1>2. /\ F \in [SUBSET S -> Int] /\ F[{}] = 0
      /\ \A T \in SUBSET S : \A x \in T : F[T] = f[x] + F[T \ {x}]
  BY <1>1 DEF IsSum
<1> DEFINE Body(T) == IF T = {} THEN 0
                      ELSE f[CHOOSE x \in T : TRUE] + F[T \ {CHOOSE x \in T : TRUE}]
<1>3. ASSUME NEW T \in SUBSET S PROVE F[T] = Body(T)
  <2>1. CASE T = {}
    BY <1>2, <2>1
  <2>2. CASE T # {}
    <3>1. PICK x : x = CHOOSE y \in T : TRUE
      OBVIOUS
    <3>2. x \in T
      BY <2>2, <3>1
    <3>3. F[T] = f[x] + F[T \ {x}]
      BY <1>2, <3>2
    <3> QED
      BY <2>2, <3>1, <3>3
  <2> QED
    BY <2>1, <2>2
<1> HIDE DEF Body
<1>4. F = [T \in SUBSET S |-> Body(T)]
  BY <1>2, <1>3
<1> QED
  BY <1>4 DEF Body, ChosenFirst

\* AmountRefunded is the total of the amounts of the refunded reversals.
LEMMA AmountRefundedIs ==
    ASSUME IsFiniteSet(Refunded)
    PROVE  AmountRefunded = TotalOf(AmountOf, Refunded)
<1> DEFINE S == Refunded
           F == CHOOSE F : ChosenFirst(F, S, AmountOf)
<1>1. AmountRefunded = F[S]
  BY DEF AmountRefunded, MapThenSumSet, MapThenFoldSet, ChosenFirst
<1>2. IsFiniteSet(S) /\ \A y \in S : AmountOf[y] \in Int
  BY ReversalAssumption DEF Refunded
<1> HIDE DEF S
<1>3. ChosenFirst(F, S, AmountOf)
  BY <1>2, ChosenFirstExists
<1> HIDE DEF F
<1>4. F[S] = TotalOf(AmountOf, S)
  BY <1>2, <1>3, ChosenFirstTotal
<1> QED
  BY <1>1, <1>4 DEF S

\* There are finitely many REVERSED rows.
LEMMA ReversedRowsFinite ==
    ASSUME TypeOK
    PROVE  /\ IsFiniteSet(ReversedRows)
           /\ \A i \in ReversedRows : adjs[i].amount \in Int /\ RowAmounts[i] = adjs[i].amount
           /\ ~Amountless => \A i \in ReversedRows : adjs[i].amount \in Nat
<1>1. DOMAIN adjs = 1 .. Len(adjs) /\ Len(adjs) \in Nat
  BY LenProperties DEF TypeOK
<1>2. ReversedRows \in SUBSET (1 .. Len(adjs))
  BY <1>1 DEF ReversedRows
<1>3. IsFiniteSet(ReversedRows)
  <2>1. IsFiniteSet(1 .. Len(adjs))
    BY <1>1, FS_Interval
  <2> QED
    BY <1>2, <2>1, FS_Subset
<1>4. \A i \in DOMAIN adjs : adjs[i] \in Adjustment
  BY <1>1, ElementOfSeq DEF TypeOK
<1>5. \A i \in ReversedRows : adjs[i].amount \in Nat \cup {NoAmount} /\ i \in DOMAIN adjs
  BY <1>4 DEF ReversedRows, Adjustment
<1> QED
  BY <1>3, <1>5 DEF Amountless, NoAmount, RowAmounts

\* AmountReversed is the total of the amounts of the REVERSED rows.
LEMMA AmountReversedIs ==
    ASSUME TypeOK
    PROVE  AmountReversed = TotalOf(RowAmounts, ReversedRows)
<1> DEFINE S == ReversedRows
           Body(F) == [T \in SUBSET S |->
                         IF T = {} THEN 0
                         ELSE adjs[CHOOSE x \in T : TRUE].amount + F[T \ {CHOOSE x \in T : TRUE}]]
           F == CHOOSE F : F = Body(F)
<1>1. AmountReversed = F[S]
  BY DEF AmountReversed, MapThenSumSet, MapThenFoldSet
<1>2. IsFiniteSet(S) /\ \A y \in S : RowAmounts[y] \in Int /\ RowAmounts[y] = adjs[y].amount
  BY ReversedRowsFinite
<1> HIDE DEF S
<1>3. ASSUME NEW G PROVE ChosenFirst(G, S, RowAmounts) <=> G = Body(G)
  <2> DEFINE A(T) == IF T = {} THEN 0
                     ELSE adjs[CHOOSE x \in T : TRUE].amount + G[T \ {CHOOSE x \in T : TRUE}]
             B(T) == IF T = {} THEN 0
                     ELSE RowAmounts[CHOOSE x \in T : TRUE] + G[T \ {CHOOSE x \in T : TRUE}]
  <2>1. ASSUME NEW T \in SUBSET S PROVE A(T) = B(T)
    <3>1. CASE T = {}
      BY <3>1
    <3>2. CASE T # {}
      <4>1. PICK x : x = CHOOSE y \in T : TRUE
        OBVIOUS
      <4>2. x \in S
        BY <3>2, <4>1
      <4>3. RowAmounts[x] = adjs[x].amount
        BY <1>2, <4>2
      <4> QED
        BY <3>2, <4>1, <4>3
    <3> QED
      BY <3>1, <3>2
  <2>2. [T \in SUBSET S |-> A(T)] = [T \in SUBSET S |-> B(T)]
    <3> HIDE DEF A, B
    <3> QED
      BY <2>1
  <2> QED
    BY <2>2 DEF ChosenFirst
<1>4. \E G : G = Body(G)
  <2>1. PICK G : ChosenFirst(G, S, RowAmounts)
    BY <1>2, ChosenFirstExists
  <2>2. G = Body(G)
    BY <1>3, <2>1
  <2> HIDE DEF Body
  <2> QED
    BY <2>2
<1>5. F = Body(F)
  <2> HIDE DEF Body
  <2> QED
    BY <1>4
<1>6. ChosenFirst(F, S, RowAmounts)
  <2> HIDE DEF F, Body
  <2> QED
    BY <1>3, <1>5
<1> HIDE DEF F
<1>7. F[S] = TotalOf(RowAmounts, S)
  BY <1>2, <1>6, ChosenFirstTotal
<1> QED
  BY <1>1, <1>7 DEF S

\* The same, for the next state.
LEMMA ReversedNext ==
    TypeOK => /\ AmountReversed = TotalOf(RowAmounts, ReversedRows)
              /\ IsFiniteSet(ReversedRows)
              /\ AmountReversed \in Int
              /\ ~Amountless => AmountReversed \in Nat
<1> SUFFICES ASSUME TypeOK
             PROVE  /\ AmountReversed = TotalOf(RowAmounts, ReversedRows)
                    /\ IsFiniteSet(ReversedRows)
                    /\ AmountReversed \in Int
                    /\ ~Amountless => AmountReversed \in Nat
  OBVIOUS
<1>1. AmountReversed = TotalOf(RowAmounts, ReversedRows)
  BY AmountReversedIs
<1>2. /\ IsFiniteSet(ReversedRows)
      /\ \A i \in ReversedRows : RowAmounts[i] \in Int
      /\ ~Amountless => \A i \in ReversedRows : RowAmounts[i] \in Nat
  BY ReversedRowsFinite
<1>3. AmountReversed \in Int
  BY <1>1, <1>2, TotalStep
<1>4. ~Amountless => AmountReversed \in Nat
  <2> SUFFICES ASSUME ~Amountless PROVE AmountReversed \in Nat
    OBVIOUS
  <2>1. \A i \in ReversedRows : RowAmounts[i] \in Nat
    BY <1>2
  <2>2. TotalOf(RowAmounts, ReversedRows) \in Nat
    <3>1. ReversedRows \in SUBSET ReversedRows
      OBVIOUS
    <3> QED
      BY <1>2, <2>1, <3>1, TotalSubset
  <2> QED
    BY <1>1, <2>2
<1> QED
  BY <1>1, <1>2, <1>3, <1>4

\* What a new row adds to the amount reversed.
RowCounts(a) ==
    /\ Amountless' <=> Amountless \/ (a.status = "REVERSED" /\ a.amount = NoAmount)
    /\ a.status = "REVERSED" => AmountReversed' = AmountReversed + a.amount
    /\ a.status # "REVERSED" => AmountReversed' = AmountReversed

\* An appended row counts so.
LEMMA NewRow ==
    ASSUME TypeOK, TypeOK', NEW a \in Adjustment, adjs' = Append(adjs, a)
    PROVE  RowCounts(a)
<1>1. PICK n : n = Len(adjs) + 1
  OBVIOUS
<1>2. /\ Len(adjs) \in Nat /\ DOMAIN adjs = 1 .. Len(adjs) /\ n \notin DOMAIN adjs
      /\ DOMAIN adjs' = DOMAIN adjs \cup {n}
      /\ \A i \in DOMAIN adjs : adjs'[i] = adjs[i]
      /\ adjs'[n] = a
  <2>1. Len(adjs) \in Nat /\ DOMAIN adjs = 1 .. Len(adjs)
    BY LenProperties DEF TypeOK
  <2>2. /\ Len(adjs') = Len(adjs) + 1 /\ adjs' \in Seq(Adjustment)
        /\ \A i \in 1 .. Len(adjs) : adjs'[i] = adjs[i]
        /\ adjs'[Len(adjs) + 1] = a
    BY AppendProperties DEF TypeOK
  <2>3. DOMAIN adjs' = 1 .. Len(adjs')
    BY <2>2, LenProperties
  <2> QED
    BY <1>1, <2>1, <2>2, <2>3
<1>3. PICK R, R1, f, f1 : /\ R = ReversedRows /\ R1 = ReversedRows'
                          /\ f = RowAmounts /\ f1 = RowAmounts'
  OBVIOUS
<1>4. /\ AmountReversed = TotalOf(f, R) /\ IsFiniteSet(R)
      /\ AmountReversed' = TotalOf(f1, R1) /\ IsFiniteSet(R1)
  <2>1. AmountReversed = TotalOf(RowAmounts, ReversedRows) /\ IsFiniteSet(ReversedRows)
    BY ReversedNext
  <2>2. (/\ AmountReversed = TotalOf(RowAmounts, ReversedRows)
         /\ IsFiniteSet(ReversedRows))'
    BY ReversedNext, PTL
  <2>3. AmountReversed' = TotalOf(RowAmounts', ReversedRows') /\ IsFiniteSet(ReversedRows')
    BY <2>2 DEF TotalOf, IsSum
  <2> QED
    BY <1>3, <2>1, <2>3
<1>5. /\ \A i \in R : i \in DOMAIN adjs /\ f[i] = adjs[i].amount /\ f[i] \in Int
      /\ \A i \in R : f1[i] = f[i]
      /\ f1[n] = a.amount
  <2>1. \A i \in R : i \in DOMAIN adjs /\ f[i] = adjs[i].amount /\ f[i] \in Int
    BY <1>3, ReversedRowsFinite DEF ReversedRows
  <2>2. \A i \in DOMAIN adjs' : f1[i] = adjs'[i].amount
    BY <1>3 DEF RowAmounts
  <2> QED
    BY <1>2, <2>1, <2>2
<1>6. TotalOf(f1, R) = TotalOf(f, R)
  BY <1>4, <1>5, TotalSame
<1>7. CASE a.status = "REVERSED"
  <2>1. R1 = R \cup {n} /\ n \notin R
    BY <1>2, <1>3, <1>7 DEF ReversedRows
  <2>2. Amountless' <=> Amountless \/ a.amount = NoAmount
    <3>1. Amountless <=> \E i \in R : adjs[i].amount = NoAmount
      BY <1>3 DEF Amountless
    <3>2. Amountless' <=> \E i \in R1 : adjs'[i].amount = NoAmount
      BY <1>3 DEF Amountless
    <3> QED
      BY <1>2, <1>5, <2>1, <3>1, <3>2
  <2>3. \A i \in R1 : f1[i] \in Int
    BY <1>5, <2>1 DEF Adjustment, NoAmount
  <2>4. n \in R1 /\ R1 \ {n} = R
    BY <2>1
  <2>5. TotalOf(f1, R1) = f1[n] + TotalOf(f1, R)
    BY <1>4, <2>3, <2>4, TotalStep
  <2>6. TotalOf(f, R) \in Int /\ a.amount \in Int
    <3>1. \A i \in R : f[i] \in Int
      BY <1>5
    <3> QED
      BY <1>4, <3>1, TotalStep DEF Adjustment, NoAmount
  <2>7. AmountReversed' = AmountReversed + a.amount
    BY <1>4, <1>5, <1>6, <2>5, <2>6
  <2> QED
    BY <1>7, <2>2, <2>7 DEF RowCounts
<1>8. CASE a.status # "REVERSED"
  <2>1. R1 = R
    BY <1>2, <1>3, <1>8 DEF ReversedRows
  <2>2. Amountless' <=> Amountless
    <3>1. Amountless <=> \E i \in R : adjs[i].amount = NoAmount
      BY <1>3 DEF Amountless
    <3>2. Amountless' <=> \E i \in R1 : adjs'[i].amount = NoAmount
      BY <1>3 DEF Amountless
    <3> QED
      BY <1>2, <1>5, <2>1, <3>1, <3>2
  <2>3. AmountReversed' = AmountReversed
    BY <1>4, <1>6, <2>1
  <2> QED
    BY <1>8, <2>2, <2>3 DEF RowCounts
<1> QED
  BY <1>7, <1>8

\* An insert keeps the rows, or adds the new one.
LEMMA UpsertAdds ==
    ASSUME NEW s, NEW a
    PROVE  /\ Upsert(s, a) = s \/ Upsert(s, a) = Append(s, a)
           /\ (\A i \in DOMAIN s : s[i].at # a.at) => Upsert(s, a) = Append(s, a)
BY DEF Upsert

\* A step that leaves the rows alone leaves what they amount to.
LEMMA SameRows ==
    ASSUME adjs' = adjs
    PROVE  (Amountless' <=> Amountless) /\ AmountReversed' = AmountReversed
BY DEF Amountless, AmountReversed, ReversedRows, MapThenSumSet, MapThenFoldSet

\* An insert of a row that is not REVERSED counts for nothing.
LEMMA OtherRow ==
    ASSUME TypeOK, TypeOK', NEW a \in Adjustment, a.status # "REVERSED", adjs' = Upsert(adjs, a)
    PROVE  (Amountless' <=> Amountless) /\ AmountReversed' = AmountReversed
<1>1. CASE adjs' = adjs
  BY <1>1, SameRows
<1>2. CASE adjs' = Append(adjs, a)
  <2>1. RowCounts(a)
    BY <1>2, NewRow
  <2> QED
    BY <2>1 DEF RowCounts
<1> QED
  BY <1>1, <1>2, UpsertAdds

\* The workflow is about to record a refund.
Recording == {"store", "relate", "status"}

\* The inductive invariant behind RecordedWasRefunded: unless a row without an amount
\* is in the table, the REVERSED rows amount to the refunds of a set of reversals
\* that are past their recording.
RecordInv ==
    /\ IsFiniteSet(Refunded)
    /\ \A r \in Reversals : pc[r] \in {"accounts", "plugin"} => psp[r] = "NONE"
    /\ ~Amountless =>
         \E S \in SUBSET Refunded :
            /\ TotalOf(AmountOf, S) = AmountReversed
            /\ \A r \in S : pc[r] \notin Recording

\* A step that does not touch the refunds or what the rows amount to, and sends no
\* workflow to the recording or to the PSP.
LEMMA KeepsRecord ==
    ASSUME RecordInv, psp' = psp,
           Amountless => Amountless', ~Amountless' => AmountReversed' = AmountReversed,
           \A r \in Reversals : pc'[r] \in Recording => pc[r] \in Recording,
           \A r \in Reversals : pc'[r] \in {"accounts", "plugin"} =>
                                   pc[r] \in {"accounts", "plugin"} \/ psp[r] = "NONE"
    PROVE  RecordInv'
<1>1. Refunded' = Refunded
  BY DEF Refunded
<1>2. IsFiniteSet(Refunded)' /\ Refunded \subseteq Reversals
  BY <1>1 DEF RecordInv, Refunded
<1>3. \A r \in Reversals : pc'[r] \in {"accounts", "plugin"} => psp'[r] = "NONE"
  BY DEF RecordInv
<1>4. ASSUME ~Amountless'
      PROVE  \E S \in SUBSET Refunded' :
                /\ TotalOf(AmountOf, S) = AmountReversed'
                /\ \A r \in S : pc'[r] \notin Recording
  BY <1>1, <1>2, <1>4 DEF RecordInv
<1> QED
  BY <1>2, <1>3, <1>4 DEF RecordInv

\* The PSP answers.
LEMMA AnswerRecord ==
    ASSUME TypeOK, RecordInv, NEW r \in Reversals, pc[r] = "plugin", adjs' = adjs,
           NEW s, psp' = [psp EXCEPT ![r] = s],
           NEW label \in {"store", "taskErr", "reversalErr"}, Goto(r, label)
    PROVE  RecordInv'
<1>1. /\ psp[r] = "NONE" /\ r \notin Refunded
      /\ \A q \in Reversals : psp'[q] = IF q = r THEN s ELSE psp[q]
      /\ \A q \in Reversals : pc'[q] = IF q = r THEN label ELSE pc[q]
  BY GotoEffect DEF RecordInv, Refunded, NotRefunded, TypeOK
<1>2. Refunded' \in SUBSET (Refunded \cup {r}) /\ Refunded \subseteq Refunded'
  BY <1>1 DEF Refunded
<1>3. IsFiniteSet(Refunded')
  <2>1. IsFiniteSet(Refunded \cup {r})
    BY FS_AddElement DEF RecordInv
  <2> QED
    BY <1>2, <2>1, FS_Subset
<1>4. \A q \in Reversals : pc'[q] \in {"accounts", "plugin"} => psp'[q] = "NONE"
  BY <1>1 DEF RecordInv
<1>5. ASSUME ~Amountless'
      PROVE  \E S \in SUBSET Refunded' :
                /\ TotalOf(AmountOf, S) = AmountReversed'
                /\ \A q \in S : pc'[q] \notin Recording
  <2>1. ~Amountless /\ AmountReversed' = AmountReversed
    BY <1>5, SameRows
  <2>2. PICK S \in SUBSET Refunded : /\ TotalOf(AmountOf, S) = AmountReversed
                                     /\ \A q \in S : pc[q] \notin Recording
    BY <2>1 DEF RecordInv
  <2>3. \A q \in S : q \in Reversals /\ q # r
    BY <1>1 DEF Refunded
  <2> QED
    BY <1>1, <1>2, <2>1, <2>2, <2>3
<1> QED
  BY <1>3, <1>4, <1>5 DEF RecordInv

\* The row an AddStatus inserts.
StatusRow(r) == [status |-> StatusFromPayment(psp[r]), at |-> now, amount |-> AmountOf[r]]

\* It has an amount, and says REVERSED if the payment is REFUNDED.
LEMMA StatusRowIs ==
    ASSUME TypeOK, NEW r \in Reversals
    PROVE  /\ StatusRow(r) \in Adjustment
           /\ StatusRow(r).status = "REVERSED" <=> psp[r] = "REFUNDED"
           /\ StatusRow(r).amount = AmountOf[r] /\ StatusRow(r).at = now
           /\ AmountOf[r] \in Nat /\ AmountOf[r] # NoAmount
<1>1. StatusFromPayment(psp[r]) \in AdjustmentStatuses
  BY StatusType
<1>2. StatusFromPayment(psp[r]) = "REVERSED" <=> psp[r] = "REFUNDED"
  BY DEF StatusFromPayment, PaidPayment, FailedPayment, PendingPayment
<1>3. AmountOf[r] \in Nat /\ now \in Nat
  BY ReversalAssumption DEF TypeOK
<1> QED
  BY <1>1, <1>2, <1>3 DEF StatusRow, Adjustment, NoAmount

\* The refund is recorded.
LEMMA StatusRecord ==
    ASSUME TypeOK, TypeOK', RecordInv, NEW r \in Reversals, AddStatus(r)
    PROVE  RecordInv'
<1>1. /\ pc[r] = "status" /\ adjs' = Upsert(adjs, StatusRow(r)) /\ psp' = psp
      /\ \A q \in Reversals : pc'[q] = IF q = r THEN "reversalOk" ELSE pc[q]
  BY GotoEffect DEF AddStatus, AddAdjustment, StatusRow, payVars
<1>2. /\ \A q \in Reversals : pc'[q] \in Recording => pc[q] \in Recording
      /\ \A q \in Reversals : pc'[q] \in {"accounts", "plugin"} => pc[q] \in {"accounts", "plugin"}
  BY <1>1 DEF Recording
<1>3. CASE adjs' = adjs
  BY <1>1, <1>2, <1>3, SameRows, KeepsRecord
<1>4. CASE adjs' = Append(adjs, StatusRow(r))
  <2>1. RowCounts(StatusRow(r))
    BY <1>4, StatusRowIs, NewRow
  <2>2. CASE psp[r] # "REFUNDED"
    <3>1. StatusRow(r).status # "REVERSED"
      BY <2>2, StatusRowIs
    <3> QED
      BY <1>1, <1>2, <2>1, <3>1, KeepsRecord DEF RowCounts
  <2>3. CASE psp[r] = "REFUNDED"
    <3>1. r \in Refunded /\ Refunded' = Refunded /\ Refunded \subseteq Reversals
      BY <1>1, <2>3 DEF Refunded, NotRefunded, FailedPayment
    <3>2. /\ Amountless' <=> Amountless
          /\ AmountReversed' = AmountReversed + AmountOf[r]
      BY <2>1, <2>3, StatusRowIs DEF RowCounts
    <3>3. ASSUME ~Amountless'
          PROVE  \E S \in SUBSET Refunded' :
                    /\ TotalOf(AmountOf, S) = AmountReversed'
                    /\ \A q \in S : pc'[q] \notin Recording
      <4>1. PICK S \in SUBSET Refunded : /\ TotalOf(AmountOf, S) = AmountReversed
                                         /\ \A q \in S : pc[q] \notin Recording
        BY <3>2, <3>3 DEF RecordInv
      <4>2. PICK U : U = S \cup {r}
        OBVIOUS
      <4>3. r \in U /\ U \ {r} = S /\ U \in SUBSET Refunded
        BY <1>1, <3>1, <4>1, <4>2 DEF Recording
      <4>4. IsFiniteSet(U) /\ \A q \in U : AmountOf[q] \in Int
        <5>1. IsFiniteSet(U)
          BY <4>3, FS_Subset DEF RecordInv
        <5> QED
          BY <3>1, <4>3, <5>1, ReversalAssumption
      <4>5. TotalOf(AmountOf, U) = AmountOf[r] + TotalOf(AmountOf, S)
        BY <4>3, <4>4, TotalStep
      <4>6. AmountReversed \in Int /\ AmountOf[r] \in Int
        BY StatusRowIs, ReversedNext
      <4>7. TotalOf(AmountOf, U) = AmountReversed'
        BY <3>2, <4>1, <4>5, <4>6
      <4>8. \A q \in U : pc'[q] \notin Recording
        BY <1>1, <3>1, <4>1, <4>2 DEF Recording
      <4> QED
        BY <3>1, <4>3, <4>7, <4>8
    <3>4. IsFiniteSet(Refunded') /\ \A q \in Reversals : pc'[q] \in {"accounts", "plugin"} => psp'[q] = "NONE"
      BY <1>1, <1>2, <3>1 DEF RecordInv
    <3> QED
      BY <3>3, <3>4 DEF RecordInv
  <2> QED
    BY <2>2, <2>3
<1> QED
  BY <1>1, <1>3, <1>4, UpsertAdds

\* The workflow keeps the invariant.
LEMMA WorkflowRecord ==
    ASSUME TypeOK, TypeOK', ClaimInv, RecordInv, NEW r \in Reversals, WorkflowStep(r)
    PROVE  RecordInv'
<1> USE DEF apiVars, payVars
<1>g. ASSUME NEW label, Goto(r, label),
             label \notin Recording \/ pc[r] \in Recording,
             label \notin {"accounts", "plugin"} \/ psp[r] = "NONE",
             psp' = psp, Amountless' <=> Amountless, AmountReversed' = AmountReversed
      PROVE  RecordInv'
  <2>1. \A q \in Reversals : pc'[q] = IF q = r THEN label ELSE pc[q]
    BY <1>g, GotoEffect
  <2> QED
    BY <1>g, <2>1, KeepsRecord
<1>1. CASE ValidateProcessed(r) \/ ClaimRead(r) \/ ValidateAmount(r)
  <2>1. PICK label \in {"amount", "taskErr", "insert", "claim"} : Goto(r, label)
    BY <1>1 DEF ValidateProcessed, ClaimRead, ValidateAmount
  <2>2. psp' = psp /\ adjs' = adjs
    BY <1>1 DEF ValidateProcessed, ClaimRead, ValidateAmount
  <2> QED
    BY <1>g, <2>1, <2>2, SameRows DEF Recording
<1>2. ASSUME NEW isLost \in BOOLEAN, ClaimInsert(r, isLost) PROVE RecordInv'
  <2>1. PICK label \in {"claim", "taskErr", "accounts"} : Goto(r, label)
    BY <1>2, ClaimInsertEffect
  <2>2. psp' = psp /\ psp[r] = "NONE"
    BY <1>2 DEF ClaimInsert, ClaimInv, ClaimedFirst
  <2>3. ClaimRow(r) \in Adjustment /\ ClaimRow(r).status # "REVERSED"
    BY ReversalAssumption DEF TypeOK, Adjustment, ClaimRow, AdjustmentStatuses
  <2>4. adjs' = Upsert(adjs, ClaimRow(r))
    BY <1>2, ClaimInsertEffect
  <2>5. (Amountless' <=> Amountless) /\ AmountReversed' = AmountReversed
    BY <2>3, <2>4, OtherRow
  <2> QED
    BY <1>g, <2>1, <2>2, <2>5 DEF Recording
<1>3. CASE \E found \in BOOLEAN : GetAccounts(r, found)
  <2>1. PICK label \in {"plugin", "taskErr"} : Goto(r, label)
    BY <1>3 DEF GetAccounts
  <2>2. psp' = psp /\ adjs' = adjs /\ psp[r] = "NONE"
    BY <1>3 DEF GetAccounts, RecordInv
  <2> QED
    BY <1>g, <2>1, <2>2, SameRows DEF Recording
<1>4. CASE PluginError(r) \/ \E s \in RefundStatuses : PluginRefund(r, s) \/ PluginInvalid(r, s)
  <2>1. PICK label \in {"store", "taskErr", "reversalErr"} : Goto(r, label)
    BY <1>4 DEF PluginRefund, PluginInvalid, PluginError
  <2>2. PICK s : psp' = [psp EXCEPT ![r] = s]
    BY <1>4 DEF PluginRefund, PluginInvalid, PluginError
  <2>3. pc[r] = "plugin" /\ adjs' = adjs
    BY <1>4 DEF PluginRefund, PluginInvalid, PluginError
  <2> QED
    BY <2>1, <2>2, <2>3, AnswerRecord
<1>5. CASE StorePayment(r) \/ RelatePayment(r)
  <2>1. PICK label \in {"relate", "status"} : Goto(r, label)
    BY <1>5 DEF StorePayment, RelatePayment
  <2>2. psp' = psp /\ adjs' = adjs /\ pc[r] \in Recording
    BY <1>5 DEF StorePayment, RelatePayment, Recording
  <2> QED
    BY <1>g, <2>1, <2>2, SameRows
<1>6. CASE \/ AddReversalAdjustment(r, "reversalOk", "PROCESSED", "taskOk")
           \/ AddReversalAdjustment(r, "reversalErr", "FAILED", "piErr")
           \/ TaskEnd(r, "taskOk", "SUCCEEDED") \/ TaskEnd(r, "taskErr", "FAILED")
  <2>1. PICK label \in {"taskOk", "piErr", "closed"} : Goto(r, label)
    BY <1>6 DEF AddReversalAdjustment, TaskEnd
  <2>2. psp' = psp /\ adjs' = adjs
    BY <1>6 DEF AddReversalAdjustment, TaskEnd
  <2> QED
    BY <1>g, <2>1, <2>2, SameRows DEF Recording
<1>7. CASE AddReverseFailed(r)
  <2> DEFINE a == [status |-> "REVERSE_FAILED", at |-> now, amount |-> Amount]
  <2>1. a \in Adjustment /\ a.status # "REVERSED"
    BY ReversalAssumption DEF TypeOK, Adjustment, AdjustmentStatuses
  <2>2. Goto(r, "taskErr") /\ psp' = psp /\ adjs' = Upsert(adjs, a)
    BY <1>7 DEF AddReverseFailed, AddAdjustment
  <2> HIDE DEF a
  <2>3. (Amountless' <=> Amountless) /\ AmountReversed' = AmountReversed
    BY <2>1, <2>2, OtherRow
  <2> QED
    BY <1>g, <2>2, <2>3 DEF Recording
<1> QED
  BY <1>1, <1>2, <1>3, <1>4, <1>5, <1>6, <1>7, StatusRecord DEF WorkflowStep

\* The rows that the payout and the payment fetch add: PROCESSED, or a REVERSED one
\* without an amount that is dated like a refund.
LEMMA OutsideRows ==
    ASSUME TypeOK, TypeOK', PayoutProcessed \/ \E r \in Reversals : UpdateFromRefund(r)
    PROVE  /\ Amountless => Amountless'
           /\ ~Amountless' => AmountReversed' = AmountReversed
<1>1. CASE PayoutProcessed
  <2> DEFINE a == [status |-> "PROCESSED", at |-> now, amount |-> Amount]
  <2>1. a \in Adjustment /\ a.status # "REVERSED"
    BY ReversalAssumption DEF TypeOK, Adjustment, AdjustmentStatuses
  <2>2. adjs' = Upsert(adjs, a)
    BY <1>1 DEF PayoutProcessed, AddAdjustment
  <2> HIDE DEF a
  <2> QED
    BY <2>1, <2>2, OtherRow
<1>2. ASSUME NEW r \in Reversals, UpdateFromRefund(r)
      PROVE  /\ Amountless => Amountless'
             /\ ~Amountless' => AmountReversed' = AmountReversed
  <2> DEFINE a == [status |-> StatusFromFetch(psp[r]), at |-> payAt[r], amount |-> NoAmount]
  <2>1. a.status = "REVERSED" /\ a.amount = NoAmount
    BY <1>2 DEF UpdateFromRefund, StatusFromFetch, PendingPayment, PaidPayment, FailedPayment
  <2>2. a \in Adjustment
    BY <2>1 DEF TypeOK, Adjustment, AdjustmentStatuses
  <2>3. adjs' = Upsert(adjs, a)
    BY <1>2 DEF UpdateFromRefund
  <2> HIDE DEF a
  <2>4. CASE adjs' = adjs
    BY <2>4, SameRows
  <2>5. CASE adjs' = Append(adjs, a)
    <3>1. RowCounts(a)
      BY <2>2, <2>5, NewRow
    <3> QED
      BY <2>1, <3>1 DEF RowCounts
  <2> QED
    BY <2>3, <2>4, <2>5, UpsertAdds
<1> QED
  BY <1>1, <1>2

\* The invariant holds at the start, and every step keeps it.
LEMMA RecordInvariant == Spec => []RecordInv
<1>1. Init => RecordInv
  <2> SUFFICES ASSUME Init PROVE RecordInv
    OBVIOUS
  <2>1. Refunded = {} /\ ReversedRows = {}
    BY DEF Init, Refunded, NotRefunded, ReversedRows
  <2>2. IsFiniteSet(Refunded)
    BY <2>1, FS_EmptySet
  <2>3. TypeOK
    BY InitType
  <2>4. AmountReversed = TotalOf(RowAmounts, {})
    BY <2>1, <2>3, AmountReversedIs
  <2>5. TotalOf(RowAmounts, {}) = 0 /\ TotalOf(AmountOf, {}) = 0
    <3>1. IsFiniteSet({})
      BY FS_EmptySet
    <3> QED
      BY <3>1, TotalStep
  <2>6. \A r \in Reversals : pc[r] = "none"
    BY DEF Init
  <2> QED
    BY <2>1, <2>2, <2>4, <2>5, <2>6 DEF RecordInv
<1>2. TypeOK /\ TypeOK' /\ ClaimInv /\ RecordInv /\ [Next]_vars => RecordInv'
  <2> SUFFICES ASSUME TypeOK, TypeOK', ClaimInv, RecordInv, [Next]_vars PROVE RecordInv'
    OBVIOUS
  <2>1. ASSUME PayoutProcessed \/ \E r \in Reversals : UpdateFromRefund(r) PROVE RecordInv'
    <3>1. UNCHANGED <<pc, psp>>
      BY <2>1, OutsideEffect DEF payVars
    <3> QED
      BY <2>1, <3>1, OutsideRows, KeepsRecord
  <2>2. ASSUME NEW r \in Reversals,
               \/ PaymentInitiationReversalsCreate(r) \/ TasksUpsert(r) \/ ExecuteWorkflow(r)
        PROVE  RecordInv'
    <3>1. UNCHANGED <<adjs, psp>>
      BY <2>2 DEF PaymentInitiationReversalsCreate, TasksUpsert, ExecuteWorkflow, payVars
    <3>2. \A q \in Reversals : pc'[q] = pc[q] \/ pc'[q] = "processed"
      BY <2>2 DEF PaymentInitiationReversalsCreate, TasksUpsert, ExecuteWorkflow, TypeOK, apiVars
    <3> QED
      BY <3>1, <3>2, SameRows, KeepsRecord DEF Recording
  <2>3. CASE UNCHANGED vars
    <3>1. UNCHANGED <<adjs, psp, pc>>
      BY <2>3 DEF vars, payVars
    <3> QED
      BY <3>1, SameRows, KeepsRecord
  <2> QED
    BY <2>1, <2>2, <2>3, WorkflowRecord DEF Next
<1> QED
  BY <1>1, <1>2, ReversalTypeCorrect, ClaimInvariant, PTL DEF Spec

\* What is recorded as reversed was refunded: the REVERSED rows that a reversal is
\* validated against never amount to more than the PSP has refunded, or still may.
THEOREM RecordedIsRefunded == Spec => []RecordedWasRefunded
<1>1. TypeOK /\ RecordInv => RecordedWasRefunded
  <2> SUFFICES ASSUME TypeOK, RecordInv, ~Amountless
               PROVE  AmountReversed <= AmountRefunded
    BY DEF RecordedWasRefunded
  <2>1. PICK S \in SUBSET Refunded : TotalOf(AmountOf, S) = AmountReversed
    BY DEF RecordInv
  <2>2. IsFiniteSet(Refunded) /\ \A y \in Refunded : AmountOf[y] \in Nat
    BY ReversalAssumption DEF RecordInv, Refunded
  <2>3. TotalOf(AmountOf, S) <= TotalOf(AmountOf, Refunded)
    BY <2>2, TotalSubset
  <2>4. AmountRefunded = TotalOf(AmountOf, Refunded)
    BY <2>2, AmountRefundedIs
  <2> QED
    BY <2>1, <2>3, <2>4
<1> QED
  BY <1>1, ReversalTypeCorrect, RecordInvariant, PTL

-----------------------------------------------------------------------------
(* Reversals in turn.                                                      *)

\* The amount was validated, and the refund is not recorded yet.
Validated == {"claim", "insert", "accounts", "plugin"} \cup Recording

\* What orders the steps, whether or not reversals overlap: rows and refunds are dated
\* in the past, a refund is related by the end of its recording, no reversal is
\* validated before the payout is processed.
OrderInv ==
    /\ \A i \in DOMAIN adjs : adjs[i].at < now
    /\ \A r \in Reversals : payAt[r] < now
    /\ \A r \in related : pc[r] \in {"status", "reversalOk", "taskOk", "closed"}
    /\ Has("REVERSE_PROCESSING") => Has("PROCESSED")
    /\ \A r \in Reversals : pc[r] \in {"amount"} \cup Validated => Has("PROCESSED")
    /\ ~overlapped => \A r, q \in Running : r = q

\* The table grows at most by the row a.
Grows(a) ==
    /\ \A i \in DOMAIN adjs : i \in DOMAIN adjs' /\ adjs'[i] = adjs[i]
    /\ \A i \in DOMAIN adjs' : i \in DOMAIN adjs \/ adjs'[i] = a

\* An insert makes the table grow so.
LEMMA UpsertGrows ==
    ASSUME TypeOK, NEW a \in Adjustment, adjs' = Upsert(adjs, a)
    PROVE  Grows(a)
<1>1. \A i \in DOMAIN adjs : i \in DOMAIN adjs' /\ adjs'[i] = adjs[i]
  BY UpsertKeeps DEF TypeOK
<1>2. CASE adjs' = adjs
  BY <1>1, <1>2 DEF Grows
<1>3. CASE adjs' = Append(adjs, a)
  <2>1. /\ Len(adjs') = Len(adjs) + 1 /\ adjs' \in Seq(Adjustment)
        /\ adjs'[Len(adjs) + 1] = a
    BY <1>3, AppendProperties DEF TypeOK
  <2>2. DOMAIN adjs' = 1 .. Len(adjs') /\ DOMAIN adjs = 1 .. Len(adjs) /\ Len(adjs) \in Nat
    BY <2>1, LenProperties DEF TypeOK
  <2>3. \A i \in DOMAIN adjs' : i \in DOMAIN adjs \/ adjs'[i] = a
    BY <2>1, <2>2
  <2> QED
    BY <1>1, <2>3 DEF Grows
<1> QED
  BY <1>2, <1>3, UpsertAdds

\* The order is kept by a step that inserts at most a row dated before now', that is
\* no claim unless the payout is processed, and moves at most the workflow of r.
LEMMA KeepsOrder ==
    ASSUME TypeOK, TypeOK', OrderInv, NEW r \in Reversals, NEW label, NEW a,
           Grows(a), a.at < now' \/ adjs' = adjs,
           a.status # "REVERSE_PROCESSING" \/ Has("PROCESSED") \/ adjs' = adjs,
           now <= now',
           \A q \in Reversals : payAt'[q] = payAt[q] \/ payAt'[q] < now',
           \A q \in Reversals : pc'[q] = IF q = r THEN label ELSE pc[q],
           \A q \in related' : q \in related \/ (q = r /\ label = "status"),
           r \in related => label \in {"status", "reversalOk", "taskOk", "closed"},
           label \notin {"amount"} \cup Validated \/ Has("PROCESSED"),
           label \in {"none", "closed"} \/ pc[r] \notin {"none", "closed"},
           overlapped' = overlapped
    PROVE  OrderInv'
<1>1. now \in Nat /\ now' \in Nat /\ (\A q \in Reversals : payAt[q] \in Nat)
      /\ related \subseteq Reversals /\ related' \subseteq Reversals
  BY DEF TypeOK
<1>2. \A i \in DOMAIN adjs : adjs[i].at \in Nat
  <2>1. \A i \in DOMAIN adjs : adjs[i] \in Adjustment
    BY ElementOfSeq, LenProperties DEF TypeOK
  <2> QED
    BY <2>1 DEF Adjustment
<1>3. \A i \in DOMAIN adjs' : adjs'[i].at < now'
  <2>1. \A i \in DOMAIN adjs : adjs[i].at < now'
    BY <1>1, <1>2 DEF OrderInv
  <2>2. CASE adjs' = adjs
    BY <2>1, <2>2
  <2>3. CASE a.at < now'
    BY <2>1, <2>3 DEF Grows
  <2> QED
    BY <2>2, <2>3
<1>4. \A q \in Reversals : payAt'[q] < now'
  BY <1>1 DEF OrderInv
<1>5. \A q \in related' : pc'[q] \in {"status", "reversalOk", "taskOk", "closed"}
  BY <1>1 DEF OrderInv
<1>6. Has("PROCESSED") => Has("PROCESSED")'
  BY DEF Has, Grows
<1>7. Has("REVERSE_PROCESSING")' => Has("PROCESSED")'
  <2>1. CASE adjs' = adjs
    BY <2>1 DEF OrderInv, Has
  <2>2. CASE Has("PROCESSED")
    BY <1>6, <2>2
  <2>3. CASE a.status # "REVERSE_PROCESSING"
    <3>1. Has("REVERSE_PROCESSING")' => Has("REVERSE_PROCESSING")
      BY <2>3 DEF Has, Grows
    <3> QED
      BY <1>6, <3>1 DEF OrderInv
  <2> QED
    BY <2>1, <2>2, <2>3
<1>8. \A q \in Reversals : pc'[q] \in {"amount"} \cup Validated => Has("PROCESSED")'
  BY <1>6 DEF OrderInv
<1>9. ~overlapped' => \A p, q \in Running' : p = q
  <2>1. Running' \subseteq Running
    BY DEF Running
  <2> QED
    BY <2>1 DEF OrderInv
<1> QED
  BY <1>3, <1>4, <1>5, <1>7, <1>8, <1>9 DEF OrderInv

\* The workflow keeps the order.
LEMMA WorkflowOrder ==
    ASSUME TypeOK, TypeOK', ClaimInv, OrderInv, NEW r \in Reversals, WorkflowStep(r)
    PROVE  OrderInv'
<1> USE DEF apiVars, payVars
<1>a. now \in Nat /\ now <= now /\ now < now + 1 /\ now <= now + 1
  BY DEF TypeOK
<1>b. pc[r] \in {"amount"} \cup Validated => Has("PROCESSED")
  BY DEF OrderInv
<1>c. r \in related => pc[r] \in {"status", "reversalOk", "taskOk", "closed"}
  BY DEF OrderInv
<1>d. ASSUME adjs' = adjs, NEW a PROVE Grows(a)
  BY <1>d DEF Grows
<1>e. ASSUME NEW label, Goto(r, label) PROVE \A q \in Reversals : pc'[q] = IF q = r THEN label ELSE pc[q]
  BY <1>e, GotoEffect
\* A step that inserts no row.
<1>f. ASSUME NEW label, Goto(r, label), adjs' = adjs, now' \in {now, now + 1},
             \A q \in Reversals : payAt'[q] = payAt[q] \/ (payAt'[q] = now /\ now' = now + 1),
             pc[r] \notin {"none", "closed"},
             \A q \in related' : q \in related \/ (q = r /\ label = "status"),
             r \in related => label \in {"status", "reversalOk", "taskOk", "closed"},
             label \notin {"amount"} \cup Validated \/ Has("PROCESSED"),
             overlapped' = overlapped
      PROVE  OrderInv'
  <2>1. \A q \in Reversals : payAt'[q] = payAt[q] \/ payAt'[q] < now'
    BY <1>a, <1>f
  <2>2. now <= now'
    BY <1>a, <1>f
  <2>3. \A q \in Reversals : pc'[q] = IF q = r THEN label ELSE pc[q]
    BY <1>e, <1>f
  <2> QED
    BY <1>d, <1>f, <2>1, <2>2, <2>3, KeepsOrder
\* A step that inserts the row a.
<1>g. ASSUME NEW label, Goto(r, label), NEW a \in Adjustment, adjs' = Upsert(adjs, a),
             a.at < now', now <= now', UNCHANGED <<payAt, related, overlapped>>,
             a.status # "REVERSE_PROCESSING" \/ Has("PROCESSED"),
             pc[r] \notin {"none", "closed"},
             r \in related => label \in {"status", "reversalOk", "taskOk", "closed"},
             label \notin {"amount"} \cup Validated \/ Has("PROCESSED")
      PROVE  OrderInv'
  <2>1. Grows(a)
    BY <1>g, UpsertGrows
  <2>2. \A q \in Reversals : pc'[q] = IF q = r THEN label ELSE pc[q]
    BY <1>e, <1>g
  <2> QED
    BY <1>g, <2>1, <2>2, KeepsOrder
<1>1. CASE ValidateProcessed(r)
  <2>1. PICK label \in {"amount", "taskErr"} :
          Goto(r, label) /\ (label = "amount" => Has("PROCESSED"))
    BY <1>1 DEF ValidateProcessed
  <2> QED
    BY <1>1, <1>c, <1>f, <2>1 DEF ValidateProcessed, Validated, Recording
<1>2. CASE ValidateAmount(r)
  <2>1. PICK label \in {"claim", "taskErr"} : Goto(r, label)
    BY <1>2 DEF ValidateAmount
  <2>2. now' \in {now, now + 1} /\ UNCHANGED <<adjs, payAt, related, overlapped>> /\ pc[r] = "amount"
    BY <1>2 DEF ValidateAmount
  <2>3. Has("PROCESSED") /\ r \notin related
    BY <1>b, <1>c, <2>2
  <2> QED
    BY <1>f, <2>1, <2>2, <2>3
<1>3. CASE ClaimRead(r) \/ \E found \in BOOLEAN : GetAccounts(r, found)
  <2>1. PICK label \in {"insert", "plugin", "taskErr"} : Goto(r, label)
    BY <1>3 DEF ClaimRead, GetAccounts
  <2>2. UNCHANGED <<adjs, now, payAt, related, overlapped>> /\ pc[r] \in {"claim", "accounts"}
    BY <1>3 DEF ClaimRead, GetAccounts
  <2>3. Has("PROCESSED") /\ r \notin related
    BY <1>b, <1>c, <2>2 DEF Validated
  <2> QED
    BY <1>f, <2>1, <2>2, <2>3
<1>4. ASSUME NEW isLost \in BOOLEAN, ClaimInsert(r, isLost) PROVE OrderInv'
  <2>1. PICK label \in {"claim", "taskErr", "accounts"} : Goto(r, label)
    BY <1>4, ClaimInsertEffect
  <2>2. UNCHANGED <<now, payAt, related, overlapped>> /\ pc[r] = "insert"
    BY <1>4 DEF ClaimInsert
  <2>3. Has("PROCESSED") /\ r \notin related
    BY <1>b, <1>c, <2>2 DEF Validated
  <2>4. ClaimRow(r) \in Adjustment /\ ClaimRow(r).at < now
    BY <1>4, ReversalAssumption DEF TypeOK, Adjustment, ClaimRow, AdjustmentStatuses, ClaimInv, DatesDiffer
  <2>5. adjs' = Upsert(adjs, ClaimRow(r))
    BY <1>4, ClaimInsertEffect
  <2> QED
    BY <1>a, <1>g, <2>1, <2>2, <2>3, <2>4, <2>5
<1>5. CASE PluginError(r) \/ \E s \in RefundStatuses : PluginRefund(r, s) \/ PluginInvalid(r, s)
  <2>1. PICK label \in {"store", "taskErr", "reversalErr"} : Goto(r, label)
    BY <1>5 DEF PluginRefund, PluginInvalid, PluginError
  <2>2. UNCHANGED <<adjs, related, overlapped>> /\ pc[r] = "plugin" /\ now' \in {now, now + 1}
    BY <1>5 DEF PluginRefund, PluginInvalid, PluginError
  <2>3. Has("PROCESSED") /\ r \notin related
    BY <1>b, <1>c, <2>2 DEF Validated
  <2>4. \A q \in Reversals : payAt'[q] = payAt[q] \/ (payAt'[q] = now /\ now' = now + 1)
    BY <1>5 DEF PluginRefund, PluginInvalid, PluginError, TypeOK
  <2> QED
    BY <1>f, <2>1, <2>2, <2>3, <2>4
<1>6. CASE StorePayment(r) \/ RelatePayment(r)
  <2>1. CASE StorePayment(r)
    <3>1. Goto(r, "relate") /\ UNCHANGED <<adjs, now, payAt, related, overlapped>> /\ pc[r] = "store"
      BY <2>1 DEF StorePayment
    <3>2. Has("PROCESSED") /\ r \notin related
      BY <1>b, <1>c, <3>1 DEF Validated, Recording
    <3> QED
      BY <1>f, <3>1, <3>2
  <2>2. CASE RelatePayment(r)
    <3>1. /\ Goto(r, "status") /\ UNCHANGED <<adjs, now, payAt, overlapped>> /\ pc[r] = "relate"
          /\ related' = related \cup {r}
      BY <2>2 DEF RelatePayment
    <3>2. Has("PROCESSED")
      BY <1>b, <3>1 DEF Validated, Recording
    <3> QED
      BY <1>f, <3>1, <3>2
  <2> QED
    BY <1>6, <2>1, <2>2
<1>7. CASE \/ AddReversalAdjustment(r, "reversalOk", "PROCESSED", "taskOk")
           \/ AddReversalAdjustment(r, "reversalErr", "FAILED", "piErr")
           \/ TaskEnd(r, "taskOk", "SUCCEEDED") \/ TaskEnd(r, "taskErr", "FAILED")
  <2>1. PICK label \in {"taskOk", "piErr", "closed"} :
          Goto(r, label) /\ (label = "piErr" => pc[r] = "reversalErr")
    BY <1>7 DEF AddReversalAdjustment, TaskEnd
  <2>2. UNCHANGED <<adjs, now, payAt, related, overlapped>> /\ pc[r] \notin {"none", "closed"}
    BY <1>7 DEF AddReversalAdjustment, TaskEnd
  <2> QED
    BY <1>c, <1>f, <2>1, <2>2 DEF Validated, Recording
<1>8. CASE AddStatus(r)
  <2>1. /\ Goto(r, "reversalOk") /\ adjs' = Upsert(adjs, StatusRow(r)) /\ pc[r] = "status"
        /\ now' = now + 1 /\ UNCHANGED <<payAt, related, overlapped>>
    BY <1>8 DEF AddStatus, AddAdjustment, StatusRow
  <2>2. StatusRow(r) \in Adjustment /\ StatusRow(r).at = now
    BY StatusRowIs
  <2>3. Has("PROCESSED")
    BY <1>b, <2>1 DEF Validated, Recording
  <2> QED
    BY <1>a, <1>g, <2>1, <2>2, <2>3
<1>9. CASE AddReverseFailed(r)
  <2> DEFINE a == [status |-> "REVERSE_FAILED", at |-> now, amount |-> Amount]
  <2>1. a \in Adjustment /\ a.status # "REVERSE_PROCESSING" /\ a.at = now
    BY ReversalAssumption DEF TypeOK, Adjustment, AdjustmentStatuses
  <2>2. /\ Goto(r, "taskErr") /\ adjs' = Upsert(adjs, a) /\ pc[r] = "piErr"
        /\ now' = now + 1 /\ UNCHANGED <<payAt, related, overlapped>>
    BY <1>9 DEF AddReverseFailed, AddAdjustment
  <2> HIDE DEF a
  <2> QED
    BY <1>a, <1>c, <1>g, <2>1, <2>2 DEF Validated, Recording
<1> QED
  BY <1>1, <1>2, <1>3, <1>4, <1>5, <1>6, <1>7, <1>8, <1>9 DEF WorkflowStep

\* The payout's own update and the payment fetch keep the order.
LEMMA OutsideOrder ==
    ASSUME TypeOK, TypeOK', OrderInv, PayoutProcessed \/ \E r \in Reversals : UpdateFromRefund(r)
    PROVE  OrderInv'
<1> USE DEF payVars
<1>1. UNCHANGED <<pc, payAt, related, overlapped>> /\ now \in Nat /\ now' \in Nat /\ now <= now'
  BY OutsideEffect DEF TypeOK
<1>2. PICK a : /\ Grows(a) /\ a.at < now'
               /\ a.status \in {"PROCESSED", "REVERSED"}
  <2>1. CASE PayoutProcessed
    <3> DEFINE a == [status |-> "PROCESSED", at |-> now, amount |-> Amount]
    <3>1. a \in Adjustment /\ a.status = "PROCESSED" /\ a.at = now
      BY ReversalAssumption DEF TypeOK, Adjustment, AdjustmentStatuses
    <3>2. adjs' = Upsert(adjs, a) /\ now' = now + 1
      BY <2>1 DEF PayoutProcessed, AddAdjustment
    <3> HIDE DEF a
    <3>3. Grows(a)
      BY <3>1, <3>2, UpsertGrows
    <3> QED
      BY <1>1, <3>1, <3>2, <3>3
  <2>2. ASSUME NEW r \in Reversals, UpdateFromRefund(r)
        PROVE  \E a : Grows(a) /\ a.at < now' /\ a.status \in {"PROCESSED", "REVERSED"}
    <3> DEFINE a == [status |-> StatusFromFetch(psp[r]), at |-> payAt[r], amount |-> NoAmount]
    <3>1. a.status = "REVERSED" /\ a.amount = NoAmount
      BY <2>2 DEF UpdateFromRefund, StatusFromFetch, PendingPayment, PaidPayment, FailedPayment
    <3>2. a \in Adjustment
      BY <3>1 DEF TypeOK, Adjustment, AdjustmentStatuses
    <3>3. adjs' = Upsert(adjs, a) /\ a.at = payAt[r] /\ now' = now
      BY <2>2 DEF UpdateFromRefund
    <3> HIDE DEF a
    <3>4. Grows(a)
      BY <3>2, <3>3, UpsertGrows
    <3> QED
      BY <3>1, <3>3, <3>4 DEF OrderInv
  <2> QED
    BY <2>1, <2>2
<1>3. \A i \in DOMAIN adjs : adjs[i].at < now'
  <2>1. \A i \in DOMAIN adjs : adjs[i] \in Adjustment
    BY ElementOfSeq, LenProperties DEF TypeOK
  <2>2. \A i \in DOMAIN adjs : adjs[i].at \in Nat
    BY <2>1 DEF Adjustment
  <2> QED
    BY <1>1, <2>2 DEF OrderInv
<1>4. \A i \in DOMAIN adjs' : adjs'[i].at < now'
  BY <1>2, <1>3 DEF Grows
<1>5. \A q \in Reversals : payAt'[q] < now'
  <2>1. \A q \in Reversals : payAt[q] \in Nat
    BY DEF TypeOK
  <2> QED
    BY <1>1, <2>1 DEF OrderInv
<1>6. Has("PROCESSED") => Has("PROCESSED")'
  BY <1>2 DEF Has, Grows
<1>7. Has("REVERSE_PROCESSING")' => Has("REVERSE_PROCESSING")
  BY <1>2 DEF Has, Grows
<1>8. Running' = Running
  BY <1>1 DEF Running
<1> QED
  BY <1>1, <1>4, <1>5, <1>6, <1>7, <1>8 DEF OrderInv

\* So do the requests: a workflow that starts next to another one overlaps with it.
LEMMA RequestOrder ==
    ASSUME TypeOK, OrderInv, NEW r \in Reversals,
           \/ PaymentInitiationReversalsCreate(r) \/ TasksUpsert(r) \/ ExecuteWorkflow(r)
    PROVE  OrderInv'
<1> USE DEF payVars, apiVars
<1>1. UNCHANGED <<adjs, now, payAt, related>>
  BY DEF PaymentInitiationReversalsCreate, TasksUpsert, ExecuteWorkflow
<1>2. \A q \in Reversals : pc'[q] = pc[q] \/ (pc[q] = "none" /\ pc'[q] = "processed")
  BY DEF PaymentInitiationReversalsCreate, TasksUpsert, ExecuteWorkflow, TypeOK
<1>3. ~overlapped' => \A p, q \in Running' : p = q
  <2>1. CASE pc' = pc /\ (overlapped => overlapped')
    BY <2>1 DEF OrderInv, Running
  <2>2. CASE pc[r] = "none" /\ ExecuteWorkflow(r)
    <3>1. overlapped' = (overlapped \/ Running # {})
      BY <2>2 DEF ExecuteWorkflow
    <3>2. \A q \in Reversals : q # r => pc'[q] = pc[q]
      BY <2>2 DEF ExecuteWorkflow, TypeOK
    <3>3. Running = {} => Running' \subseteq {r}
      BY <3>2 DEF Running
    <3> QED
      BY <3>1, <3>3
  <2>3. CASE PaymentInitiationReversalsCreate(r) \/ TasksUpsert(r)
    BY <2>1, <2>3 DEF PaymentInitiationReversalsCreate, TasksUpsert
  <2>4. CASE pc[r] # "none" /\ ExecuteWorkflow(r)
    <3>1. pc' = pc
      BY <2>4 DEF ExecuteWorkflow
    <3>2. overlapped' = (overlapped \/ (pc[r] = "none" /\ Running # {}))
      BY <2>4 DEF ExecuteWorkflow
    <3>3. overlapped => overlapped'
      BY <3>2, Zenon
    <3> QED
      BY <2>1, <3>1, <3>3
  <2> QED
    BY <2>2, <2>3, <2>4
<1>4. related \subseteq Reversals
  BY DEF TypeOK
<1>5. \A q \in related : pc'[q] \in {"status", "reversalOk", "taskOk", "closed"}
  BY <1>2, <1>4 DEF OrderInv
<1>6. \A q \in Reversals : pc'[q] \in {"amount"} \cup Validated => pc[q] \in {"amount"} \cup Validated
  BY <1>2 DEF Validated, Recording
<1>7. \A status : Has(status)' <=> Has(status)
  BY <1>1 DEF Has
<1> QED
  BY <1>1, <1>3, <1>5, <1>6, <1>7 DEF OrderInv

\* The order holds at the start, and every step keeps it.
LEMMA OrderInvariant == Spec => []OrderInv
<1>1. Init => OrderInv
  <2> SUFFICES ASSUME Init PROVE OrderInv
    OBVIOUS
  <2>1. adjs = <<[status |-> "PROCESSING", at |-> 0, amount |-> Amount]>>
    BY DEF Init
  <2>2. DOMAIN adjs = {1} /\ adjs[1].at = 0 /\ adjs[1].status = "PROCESSING" /\ now = 1
    BY <2>1 DEF Init
  <2>3. ~Has("REVERSE_PROCESSING")
    BY <2>2 DEF Has
  <2>4. \A q \in Reversals : pc[q] = "none" /\ payAt[q] = 0
    BY DEF Init
  <2>5. related = {}
    BY DEF Init
  <2> QED
    BY <2>2, <2>3, <2>4, <2>5 DEF OrderInv, Validated, Recording, Running
<1>2. TypeOK /\ TypeOK' /\ ClaimInv /\ OrderInv /\ [Next]_vars => OrderInv'
  <2> SUFFICES ASSUME TypeOK, TypeOK', ClaimInv, OrderInv, [Next]_vars PROVE OrderInv'
    OBVIOUS
  <2>1. CASE UNCHANGED vars
    <3>1. UNCHANGED <<adjs, now, pc, payAt, related, overlapped>>
      BY <2>1 DEF vars, payVars, apiVars
    <3>2. Running' = Running /\ \A status : Has(status)' <=> Has(status)
      BY <3>1 DEF Running, Has
    <3> QED
      BY <3>1, <3>2 DEF OrderInv
  <2> QED
    BY <2>1, OutsideOrder, RequestOrder, WorkflowOrder DEF Next
<1> QED
  BY <1>1, <1>2, ReversalTypeCorrect, ClaimInvariant, PTL DEF Spec

\* The answers of the PSP are final.
Final == \A r \in Refunded : psp[r] = "REFUNDED"

\* A claim is the newest adjustment, and stays it when the payment fetch reports the
\* refunds related so far: no further claim succeeds.
Stuck ==
    \E i \in DOMAIN adjs :
        /\ adjs[i].status = "REVERSE_PROCESSING"
        /\ \A j \in DOMAIN adjs : j # i => adjs[j].at < adjs[i].at
        /\ \A p \in related : payAt[p] < adjs[i].at

\* Every refund, or every other one, counts in the next validation.
Counted == Amountless \/ AmountRefunded <= AmountReversed

CountedBut(r) == Amountless \/ TotalOf(AmountOf, Refunded \ {r}) <= AmountReversed

\* The refund still fits in the amount of the initiation.
Room(r) == Counted /\ AmountRefunded + AmountOf[r] <= Amount

\* The date fixed for the claim is newer than every row, present or reported later.
Before(r) ==
    /\ \A j \in DOMAIN adjs : adjs[j].at < claimAt[r]
    /\ \A p \in related : payAt[p] < claimAt[r]

\* What is known when the workflow of r has to go on to a label.
At(label, r) ==
    /\ label = "claim" => Stuck \/ (Room(r) /\ Before(r))
    /\ label = "insert" => Room(r) /\ Before(r)
    /\ label \in {"accounts", "plugin"} => Room(r) /\ Stuck
    /\ label \in Recording => CountedBut(r)
    /\ label \in {"reversalErr", "piErr"} => Counted

\* The inductive invariant behind NotOverReversedInTurn: between two reversals that run
\* in turn, every refund is counted or its claim keeps the next reversal from the PSP.
InTurn ==
    ~overlapped /\ Final =>
        /\ NotOverReversed
        /\ (\A r \in Reversals : pc[r] \notin Validated) => Stuck \/ Counted
        /\ \A r \in Reversals : At(pc[r], r)

\* Where a claim is stuck, the read of the next claim finds it.
LEMMA StuckLatest ==
    ASSUME TypeOK, Stuck
    PROVE  Latest(adjs).status = "REVERSE_PROCESSING"
<1> DEFINE Newest(i) == \A j \in DOMAIN adjs : \/ adjs[j].at < adjs[i].at
                                               \/ adjs[j].at = adjs[i].at /\ j <= i
<1>1. PICK i \in DOMAIN adjs :
        /\ adjs[i].status = "REVERSE_PROCESSING"
        /\ \A j \in DOMAIN adjs : j # i => adjs[j].at < adjs[i].at
  BY DEF Stuck
<1>2. DOMAIN adjs = 1 .. Len(adjs) /\ Len(adjs) \in Nat
  BY LenProperties DEF TypeOK
<1>3. \A j \in DOMAIN adjs : adjs[j].at \in Nat
  <2>1. \A j \in DOMAIN adjs : adjs[j] \in Adjustment
    BY ElementOfSeq, LenProperties DEF TypeOK
  <2> QED
    BY <2>1 DEF Adjustment
<1>4. Newest(i)
  BY <1>1, <1>2, <1>3
<1>5. PICK k : k = CHOOSE m \in DOMAIN adjs : Newest(m)
  OBVIOUS
<1>6. k \in DOMAIN adjs /\ Newest(k)
  <2> HIDE DEF Newest
  <2> QED
    BY <1>4, <1>5
<1>7. k = i
  BY <1>1, <1>3, <1>6
<1>8. Latest(adjs) = adjs[k]
  BY <1>5 DEF Latest
<1> QED
  BY <1>1, <1>7, <1>8

\* The amount refunded, and what one refund contributes to it.
LEMMA RefundedTotal ==
    TypeOK /\ RecordInv =>
        /\ AmountRefunded = TotalOf(AmountOf, Refunded)
        /\ AmountRefunded \in Nat
        /\ IsFiniteSet(Refunded)
        /\ \A r \in Refunded : AmountRefunded = AmountOf[r] + TotalOf(AmountOf, Refunded \ {r})
        /\ \A r \in Reversals : TotalOf(AmountOf, Refunded \ {r}) \in Nat
<1> SUFFICES ASSUME TypeOK, RecordInv
             PROVE  /\ AmountRefunded = TotalOf(AmountOf, Refunded)
                    /\ AmountRefunded \in Nat
                    /\ IsFiniteSet(Refunded)
                    /\ \A r \in Refunded :
                         AmountRefunded = AmountOf[r] + TotalOf(AmountOf, Refunded \ {r})
                    /\ \A r \in Reversals : TotalOf(AmountOf, Refunded \ {r}) \in Nat
  OBVIOUS
<1>1. IsFiniteSet(Refunded) /\ \A y \in Refunded : AmountOf[y] \in Nat
  BY ReversalAssumption DEF RecordInv, Refunded
<1>2. AmountRefunded = TotalOf(AmountOf, Refunded)
  BY <1>1, AmountRefundedIs
<1>3. \A T \in SUBSET Refunded : TotalOf(AmountOf, T) \in Nat
  BY <1>1, TotalSubset
<1>4. \A y \in Refunded : AmountOf[y] \in Int
  BY <1>1
<1>5. \A r \in Refunded : TotalOf(AmountOf, Refunded) = AmountOf[r] + TotalOf(AmountOf, Refunded \ {r})
  BY <1>1, <1>4, TotalStep
<1>6. \A r \in Reversals : Refunded \ {r} \in SUBSET Refunded
  OBVIOUS
<1> QED
  BY <1>1, <1>2, <1>3, <1>5, <1>6

\* A step that touches neither the refunds nor what the rows amount to.
LEMMA SameMoney ==
    ASSUME psp' = psp, Amountless' <=> Amountless, AmountReversed' = AmountReversed
    PROVE  /\ Counted' <=> Counted
           /\ AmountRefunded' = AmountRefunded
           /\ NotOverReversed' <=> NotOverReversed
           /\ Final' <=> Final
           /\ \A r \in Reversals : (CountedBut(r)' <=> CountedBut(r)) /\ (Room(r)' <=> Room(r))
<1>1. Refunded' = Refunded
  BY DEF Refunded
<1>2. AmountRefunded' = AmountRefunded
  BY <1>1 DEF AmountRefunded, MapThenSumSet, MapThenFoldSet
<1>3. Counted' <=> Counted
  BY <1>2 DEF Counted
<1>4. \A r \in Reversals : TotalOf(AmountOf, Refunded \ {r})' = TotalOf(AmountOf, Refunded \ {r})
  BY <1>1 DEF TotalOf, IsSum
<1>5. \A r \in Reversals : CountedBut(r)' <=> CountedBut(r)
  BY <1>4 DEF CountedBut
<1>6. \A r \in Reversals : Room(r)' <=> Room(r)
  BY <1>2, <1>3 DEF Room
<1>7. NotOverReversed' <=> NotOverReversed
  BY <1>2 DEF NotOverReversed
<1>8. Final' <=> Final
  BY <1>1 DEF Final
<1> QED
  BY <1>2, <1>3, <1>5, <1>6, <1>7, <1>8

\* A step that touches neither the rows nor the refunds related to the initiation.
LEMMA SamePlace ==
    ASSUME adjs' = adjs, related' = related, \A p \in related : payAt'[p] = payAt[p]
    PROVE  /\ Stuck' <=> Stuck
           /\ \A r : claimAt'[r] = claimAt[r] => (Before(r)' <=> Before(r))
BY DEF Stuck, Before

\* Only the workflow that runs has to be looked at.
LEMMA TurnStep ==
    ASSUME TypeOK, OrderInv, InTurn, NEW r \in Reversals, NEW label, Goto(r, label),
           pc[r] \notin {"none", "closed"}, overlapped' = overlapped, Final' => Final,
           Final' /\ NotOverReversed /\ At(pc[r], r) /\ (pc[r] \notin Validated => Stuck \/ Counted)
             => /\ NotOverReversed' /\ At(label, r)'
                /\ label \notin Validated => (Stuck \/ Counted)'
    PROVE  InTurn'
<1> SUFFICES ASSUME ~overlapped', Final'
             PROVE  /\ NotOverReversed'
                    /\ (\A q \in Reversals : pc[q] \notin Validated)' => (Stuck \/ Counted)'
                    /\ \A q \in Reversals : At(pc[q], q)'
  BY DEF InTurn
<1>1. \A q \in Reversals : q # r => pc[q] \in {"none", "closed"}
  BY DEF OrderInv, Running
<1>2. \A q \in Reversals : pc'[q] = IF q = r THEN label ELSE pc[q]
  BY GotoEffect
<1>3. NotOverReversed /\ At(pc[r], r) /\ (pc[r] \notin Validated => Stuck \/ Counted)
  <2>1. pc[r] \notin Validated => \A q \in Reversals : pc[q] \notin Validated
    BY <1>1 DEF Validated, Recording
  <2> QED
    BY <2>1 DEF InTurn
<1>4. /\ NotOverReversed' /\ At(label, r)'
      /\ label \notin Validated => (Stuck \/ Counted)'
  BY <1>3
<1>5. \A q \in Reversals : At(pc[q], q)'
  <2> SUFFICES ASSUME NEW q \in Reversals PROVE At(pc[q], q)'
    OBVIOUS
  <2>1. CASE q = r
    BY <1>2, <1>4, <2>1 DEF At
  <2>2. CASE q # r
    <3>1. pc'[q] \in {"none", "closed"}
      BY <1>1, <1>2, <2>2
    <3> QED
      BY <3>1 DEF At, Recording
  <2> QED
    BY <2>1, <2>2
<1> QED
  BY <1>2, <1>4, <1>5

\* The validation of the amount: the refunds that count leave room for one more.
LEMMA ValidateAmountTurn ==
    ASSUME TypeOK, RecordInv, OrderInv, InTurn, NEW r \in Reversals, ValidateAmount(r)
    PROVE  InTurn'
<1>1. /\ pc[r] = "amount" /\ ~Amountless
      /\ UNCHANGED <<adjs, psp, payAt, related, overlapped>>
  BY DEF ValidateAmount, payVars
<1>2. (Amountless' <=> Amountless) /\ AmountReversed' = AmountReversed
  BY <1>1, SameRows
<1>3. (Stuck' <=> Stuck) /\ (Counted' <=> Counted) /\ (Room(r)' <=> Room(r))
      /\ (NotOverReversed' <=> NotOverReversed) /\ (Final' <=> Final)
  BY <1>1, <1>2, SamePlace, SameMoney
<1>4. PICK label \in {"claim", "taskErr"} :
        /\ Goto(r, label)
        /\ label = "claim" => /\ ~(Amount - AmountReversed - AmountOf[r] < 0)
                              /\ claimAt' = [claimAt EXCEPT ![r] = now]
  BY DEF ValidateAmount
<1>5. ASSUME label = "claim", Counted PROVE Room(r)
  <2>1. AmountRefunded <= AmountReversed
    BY <1>1, <1>5 DEF Counted
  <2>2. AmountRefunded \in Nat /\ AmountReversed \in Int /\ Amount \in Nat /\ AmountOf[r] \in Nat
    BY RefundedTotal, ReversedNext, ReversalAssumption
  <2> QED
    BY <1>4, <1>5, <2>1, <2>2 DEF Room
<1>6. label = "claim" => Before(r)'
  <2>1. label = "claim" => claimAt'[r] = now
    BY <1>4 DEF TypeOK
  <2>2. related \subseteq Reversals
    BY DEF TypeOK
  <2> QED
    BY <1>1, <2>1, <2>2 DEF Before, OrderInv
<1>7. Stuck \/ Counted => At(label, r)'
  BY <1>3, <1>4, <1>5, <1>6 DEF At, Recording
<1>8. pc[r] \notin Validated
  BY <1>1 DEF Validated, Recording
<1> QED
  BY <1>1, <1>3, <1>4, <1>7, <1>8, TurnStep DEF Validated

\* The read of the claim: it finds the claim where one is stuck.
LEMMA ClaimReadTurn ==
    ASSUME TypeOK, OrderInv, InTurn, NEW r \in Reversals, ClaimRead(r)
    PROVE  InTurn'
<1>1. pc[r] = "claim" /\ UNCHANGED <<adjs, psp, payAt, related, overlapped, claimAt>>
  BY DEF ClaimRead, payVars
<1>2. (Amountless' <=> Amountless) /\ AmountReversed' = AmountReversed
  BY <1>1, SameRows
<1>3. (Stuck' <=> Stuck) /\ (Counted' <=> Counted) /\ (Room(r)' <=> Room(r))
      /\ (NotOverReversed' <=> NotOverReversed) /\ (Final' <=> Final) /\ (Before(r)' <=> Before(r))
  BY <1>1, <1>2, SamePlace, SameMoney
<1>4. PICK label \in {"insert", "taskErr"} : Goto(r, label) /\ (label = "insert" => ~Stuck)
  BY StuckLatest DEF ClaimRead
<1>5. At(pc[r], r) => Stuck \/ (Room(r) /\ Before(r))
  BY <1>1 DEF At
<1>6. At(pc[r], r) => At(label, r)' /\ (label \notin Validated => (Stuck \/ Counted)')
  BY <1>3, <1>4, <1>5 DEF At, Recording, Room, Validated
<1> QED
  BY <1>1, <1>3, <1>4, <1>6, TurnStep

\* The insert of the claim: it is the newest row from then on.
LEMMA ClaimInsertTurn ==
    ASSUME TypeOK, TypeOK', OrderInv, InTurn, NEW r \in Reversals,
           NEW isLost \in BOOLEAN, ClaimInsert(r, isLost)
    PROVE  InTurn'
<1>1. pc[r] = "insert" /\ UNCHANGED <<psp, payAt, related, overlapped, claimAt>>
  BY DEF ClaimInsert, payVars
<1>2. adjs' = Upsert(adjs, ClaimRow(r))
  BY ClaimInsertEffect
<1>3. /\ ClaimRow(r) \in Adjustment /\ ClaimRow(r).status = "REVERSE_PROCESSING"
      /\ ClaimRow(r).at = claimAt[r]
  BY ReversalAssumption DEF TypeOK, Adjustment, ClaimRow, AdjustmentStatuses
<1>4. (Amountless' <=> Amountless) /\ AmountReversed' = AmountReversed
  BY <1>2, <1>3, OtherRow
<1>5. (Counted' <=> Counted) /\ (Room(r)' <=> Room(r))
      /\ (NotOverReversed' <=> NotOverReversed) /\ (Final' <=> Final)
  BY <1>1, <1>4, SameMoney
<1>6. ASSUME Before(r) PROVE Stuck'
  <2>1. adjs' = Append(adjs, ClaimRow(r))
    <3>1. \A i \in DOMAIN adjs : adjs[i] \in Adjustment /\ claimAt[r] \in Nat
      BY ElementOfSeq, LenProperties DEF TypeOK
    <3>2. \A i \in DOMAIN adjs : adjs[i].at # ClaimRow(r).at
      BY <1>3, <1>6, <3>1 DEF Before, Adjustment
    <3> QED
      BY <1>2, <3>2, UpsertAdds
  <2>2. PICK n : n = Len(adjs) + 1
    OBVIOUS
  <2>3. /\ Len(adjs') = Len(adjs) + 1 /\ adjs' \in Seq(Adjustment)
        /\ \A i \in 1 .. Len(adjs) : adjs'[i] = adjs[i]
        /\ adjs'[n] = ClaimRow(r)
    BY <1>3, <2>1, <2>2, AppendProperties DEF TypeOK
  <2>4. DOMAIN adjs' = 1 .. Len(adjs') /\ DOMAIN adjs = 1 .. Len(adjs) /\ Len(adjs) \in Nat
    BY <2>3, LenProperties DEF TypeOK
  <2>5. n \in DOMAIN adjs' /\ \A j \in DOMAIN adjs' : j # n => j \in DOMAIN adjs /\ adjs'[j] = adjs[j]
    BY <2>2, <2>3, <2>4
  <2>6. \A j \in DOMAIN adjs' : j # n => adjs'[j].at < adjs'[n].at
    BY <1>3, <1>6, <2>3, <2>5 DEF Before
  <2>7. \A p \in related' : payAt'[p] < adjs'[n].at
    BY <1>1, <1>3, <1>6, <2>3 DEF Before
  <2> QED
    BY <1>3, <2>3, <2>5, <2>6, <2>7 DEF Stuck
<1>7. PICK label \in {"claim", "taskErr", "accounts"} : Goto(r, label)
  BY ClaimInsertEffect
<1>8. At(pc[r], r) => Room(r) /\ Before(r)
  BY <1>1 DEF At
<1>9. At(pc[r], r) => At(label, r)' /\ (label \notin Validated => (Stuck \/ Counted)')
  BY <1>5, <1>6, <1>7, <1>8 DEF At, Recording, Validated
<1> QED
  BY <1>1, <1>5, <1>7, <1>9, TurnStep

\* The PSP's answer: the refund had room.
LEMMA PluginTurn ==
    ASSUME TypeOK, TypeOK', RecordInv, RecordInv', OrderInv, InTurn, NEW r \in Reversals,
           PluginError(r) \/ \E s \in RefundStatuses : PluginRefund(r, s) \/ PluginInvalid(r, s)
    PROVE  InTurn'
<1>1. pc[r] = "plugin" /\ UNCHANGED <<adjs, related, overlapped, claimAt>>
  BY DEF PluginError, PluginRefund, PluginInvalid
<1>2. psp[r] = "NONE" /\ r \notin Refunded /\ r \notin related
  BY <1>1 DEF RecordInv, OrderInv, Refunded, NotRefunded
<1>3. PICK s : psp' = [psp EXCEPT ![r] = s]
  BY DEF PluginError, PluginRefund, PluginInvalid
<1>4. PICK label \in {"store", "taskErr", "reversalErr"} :
        Goto(r, label) /\ (label = "reversalErr" => psp' = [psp EXCEPT ![r] = "REFUSED"])
  BY DEF PluginError, PluginRefund, PluginInvalid
<1>5. \A q \in Reversals : q # r => psp'[q] = psp[q] /\ payAt'[q] = payAt[q]
  BY DEF PluginError, PluginRefund, PluginInvalid, TypeOK
<1>6. (Amountless' <=> Amountless) /\ AmountReversed' = AmountReversed
  BY <1>1, SameRows
<1>7. Stuck' <=> Stuck
  BY <1>1, <1>2, <1>5, SamePlace DEF TypeOK
<1>8. Refunded \subseteq Refunded' /\ Refunded' \ {r} = Refunded
  BY <1>2, <1>5 DEF Refunded
<1>9. Final' => Final
  BY <1>2, <1>5, <1>8 DEF Final, Refunded
<1>10. /\ AmountRefunded = TotalOf(AmountOf, Refunded) /\ AmountRefunded \in Nat
       /\ AmountRefunded' = TotalOf(AmountOf, Refunded')
       /\ r \in Refunded' =>
            TotalOf(AmountOf, Refunded') = AmountOf[r] + TotalOf(AmountOf, Refunded' \ {r})
  <2>1. AmountRefunded = TotalOf(AmountOf, Refunded) /\ AmountRefunded \in Nat
    BY RefundedTotal
  <2>2. IsFiniteSet(Refunded') /\ \A y \in Refunded' : AmountOf[y] \in Int
    BY ReversalAssumption DEF RecordInv, Refunded
  <2>3. r \in Refunded' =>
          TotalOf(AmountOf, Refunded') = AmountOf[r] + TotalOf(AmountOf, Refunded' \ {r})
    BY <2>2, TotalStep
  <2>4. (AmountRefunded = TotalOf(AmountOf, Refunded))'
    BY RefundedTotal, PTL
  <2>5. AmountRefunded' = TotalOf(AmountOf, Refunded')
    BY <2>4 DEF TotalOf, IsSum
  <2> QED
    BY <2>1, <2>3, <2>5
<1>11. AmountOf[r] \in Nat /\ Amount \in Nat
  BY ReversalAssumption
<1>12. Room(r) => AmountRefunded' <= Amount
  <2>1. CASE r \in Refunded'
    <3>1. TotalOf(AmountOf, Refunded' \ {r}) = TotalOf(AmountOf, Refunded)
      BY <1>8
    <3>2. AmountRefunded' = AmountOf[r] + AmountRefunded
      BY <1>10, <2>1, <3>1
    <3> QED
      BY <1>10, <1>11, <3>2 DEF Room
  <2>2. CASE r \notin Refunded'
    <3>1. Refunded' = Refunded
      BY <1>8, <2>2
    <3> QED
      BY <1>10, <1>11, <3>1 DEF Room
  <2> QED
    BY <2>1, <2>2
<1>13. Counted => CountedBut(r)'
  <2>1. TotalOf(AmountOf, Refunded \ {r})' = TotalOf(AmountOf, Refunded' \ {r})
    BY DEF TotalOf, IsSum
  <2> QED
    BY <1>6, <1>8, <1>10, <2>1 DEF Counted, CountedBut
<1>14. ASSUME label = "reversalErr", Counted PROVE Counted'
  <2>1. psp'[r] = "REFUSED"
    BY <1>4, <1>14 DEF TypeOK
  <2>2. r \notin Refunded'
    BY <2>1 DEF Refunded, NotRefunded
  <2>3. Refunded' = Refunded
    BY <1>8, <2>2
  <2> QED
    BY <1>6, <1>10, <1>14, <2>3 DEF Counted
<1>15. At(pc[r], r) => Room(r) /\ Stuck /\ Counted
  BY <1>1 DEF At, Room
<1>16. At(pc[r], r) => /\ NotOverReversed' /\ At(label, r)'
                       /\ label \notin Validated => (Stuck \/ Counted)'
  BY <1>4, <1>7, <1>12, <1>13, <1>14, <1>15 DEF At, Recording, Validated, NotOverReversed
<1> QED
  BY <1>1, <1>4, <1>9, <1>16, TurnStep

\* The steps that move the workflow and write nothing that the validations read.
LEMMA PassTurn ==
    ASSUME TypeOK, OrderInv, InTurn, NEW r \in Reversals,
           \/ ValidateProcessed(r) \/ \E found \in BOOLEAN : GetAccounts(r, found)
           \/ StorePayment(r)
           \/ AddReversalAdjustment(r, "reversalOk", "PROCESSED", "taskOk")
           \/ AddReversalAdjustment(r, "reversalErr", "FAILED", "piErr")
           \/ TaskEnd(r, "taskOk", "SUCCEEDED") \/ TaskEnd(r, "taskErr", "FAILED")
    PROVE  InTurn'
<1> USE DEF payVars
<1>1. /\ UNCHANGED <<adjs, psp, payAt, related, overlapped, claimAt>>
      /\ pc[r] \notin {"none", "closed"}
  BY DEF ValidateProcessed, GetAccounts, StorePayment, AddReversalAdjustment, TaskEnd
<1>2. (Amountless' <=> Amountless) /\ AmountReversed' = AmountReversed
  BY <1>1, SameRows
<1>3. (Stuck' <=> Stuck) /\ (Counted' <=> Counted) /\ (Room(r)' <=> Room(r))
      /\ (NotOverReversed' <=> NotOverReversed) /\ (Final' <=> Final)
      /\ (CountedBut(r)' <=> CountedBut(r))
  BY <1>1, <1>2, SamePlace, SameMoney
<1>4. PICK label \in Labels :
        /\ Goto(r, label)
        /\ \/ pc[r] \in {"processed", "reversalOk", "taskOk", "taskErr"}
              /\ label \in {"amount", "taskErr", "taskOk", "closed"}
           \/ pc[r] = "accounts" /\ label \in {"plugin", "taskErr"}
           \/ pc[r] = "store" /\ label = "relate"
           \/ pc[r] = "reversalErr" /\ label = "piErr"
  BY DEF ValidateProcessed, GetAccounts, StorePayment, AddReversalAdjustment, TaskEnd, Labels
<1>5. At(pc[r], r) /\ (pc[r] \notin Validated => Stuck \/ Counted)
        => At(label, r)' /\ (label \notin Validated => (Stuck \/ Counted)')
  <2>1. CASE /\ pc[r] \in {"processed", "reversalOk", "taskOk", "taskErr"}
             /\ label \in {"amount", "taskErr", "taskOk", "closed"}
    BY <1>3, <2>1 DEF At, Recording, Validated
  <2>2. CASE pc[r] = "accounts" /\ label \in {"plugin", "taskErr"}
    BY <1>3, <2>2 DEF At, Recording, Validated
  <2>3. CASE pc[r] = "store" /\ label = "relate"
    BY <1>3, <2>3 DEF At, Recording, Validated
  <2>4. CASE pc[r] = "reversalErr" /\ label = "piErr"
    BY <1>3, <2>4 DEF At, Recording, Validated
  <2> QED
    BY <1>4, <2>1, <2>2, <2>3, <2>4
<1> QED
  BY <1>1, <1>3, <1>4, <1>5, TurnStep

\* The refund is related to the initiation.
LEMMA RelateTurn ==
    ASSUME TypeOK, OrderInv, InTurn, NEW r \in Reversals, RelatePayment(r)
    PROVE  InTurn'
<1>1. /\ UNCHANGED <<adjs, psp, overlapped>> /\ pc[r] = "relate" /\ Goto(r, "status")
  BY DEF RelatePayment
<1>2. (Amountless' <=> Amountless) /\ AmountReversed' = AmountReversed
  BY <1>1, SameRows
<1>3. (NotOverReversed' <=> NotOverReversed) /\ (Final' <=> Final)
      /\ (CountedBut(r)' <=> CountedBut(r))
  BY <1>1, <1>2, SameMoney
<1>4. At(pc[r], r) => At("status", r)'
  BY <1>1, <1>3 DEF At, Recording
<1>5. "status" \in Validated
  BY DEF Validated, Recording
<1> QED
  BY <1>1, <1>3, <1>4, <1>5, TurnStep

\* The refund is recorded, and counts from then on.
LEMMA AddStatusTurn ==
    ASSUME TypeOK, TypeOK', RecordInv, OrderInv, InTurn, NEW r \in Reversals, AddStatus(r)
    PROVE  InTurn'
<1>1. /\ pc[r] = "status" /\ Goto(r, "reversalOk") /\ UNCHANGED <<psp, overlapped>>
      /\ adjs' = Upsert(adjs, StatusRow(r))
  BY DEF AddStatus, AddAdjustment, StatusRow, payVars
<1>2. adjs' = Append(adjs, StatusRow(r))
  <2>1. \A i \in DOMAIN adjs : adjs[i] \in Adjustment /\ now \in Nat
    BY ElementOfSeq, LenProperties DEF TypeOK
  <2>2. \A i \in DOMAIN adjs : adjs[i].at # StatusRow(r).at
    BY <2>1, StatusRowIs DEF OrderInv, Adjustment
  <2> QED
    BY <1>1, <2>2, UpsertAdds
<1>3. RowCounts(StatusRow(r)) /\ StatusRow(r).amount = AmountOf[r] /\ AmountOf[r] # NoAmount
      /\ (StatusRow(r).status = "REVERSED" <=> psp[r] = "REFUNDED")
  BY <1>2, StatusRowIs, NewRow
<1>4. Amountless' <=> Amountless
  BY <1>3 DEF RowCounts
<1>5. Refunded' = Refunded /\ AmountRefunded' = AmountRefunded
  <2>1. Refunded' = Refunded
    BY <1>1 DEF Refunded
  <2> QED
    BY <2>1 DEF AmountRefunded, MapThenSumSet, MapThenFoldSet
<1>6. (Final' <=> Final) /\ (NotOverReversed' <=> NotOverReversed)
  BY <1>1, <1>5 DEF Final, NotOverReversed
<1>7. ASSUME Final, CountedBut(r) PROVE Counted'
  <2>1. CASE Amountless
    BY <1>4, <2>1 DEF Counted
  <2>2. CASE ~Amountless
    <3>1. TotalOf(AmountOf, Refunded \ {r}) <= AmountReversed
      BY <1>7, <2>2 DEF CountedBut
    <3>2. AmountReversed \in Int /\ AmountOf[r] \in Nat /\ AmountRefunded \in Nat
          /\ TotalOf(AmountOf, Refunded \ {r}) \in Nat
      BY RefundedTotal, ReversedNext, StatusRowIs
    <3>3. CASE psp[r] = "REFUNDED"
      <4>1. r \in Refunded
        BY <3>3 DEF Refunded, NotRefunded, FailedPayment
      <4>2. AmountReversed' = AmountReversed + AmountOf[r]
        BY <1>3, <3>3 DEF RowCounts
      <4>3. AmountRefunded = AmountOf[r] + TotalOf(AmountOf, Refunded \ {r})
        BY <4>1, RefundedTotal
      <4>4. AmountRefunded' <= AmountReversed'
        BY <1>5, <3>1, <3>2, <4>2, <4>3
      <4> QED
        BY <4>4 DEF Counted
    <3>4. CASE psp[r] # "REFUNDED"
      <4>1. Refunded \ {r} = Refunded
        BY <1>7, <3>4 DEF Final
      <4>2. AmountReversed' = AmountReversed
        BY <1>3, <3>4 DEF RowCounts
      <4>3. AmountRefunded = TotalOf(AmountOf, Refunded)
        BY RefundedTotal
      <4>4. AmountRefunded' <= AmountReversed'
        BY <1>5, <3>1, <4>1, <4>2, <4>3
      <4> QED
        BY <4>4 DEF Counted
    <3> QED
      BY <3>3, <3>4
  <2> QED
    BY <2>1, <2>2
<1>8. At(pc[r], r) => CountedBut(r)
  BY <1>1 DEF At, Recording
<1>9. Final' /\ At(pc[r], r) => At("reversalOk", r)' /\ Counted'
  BY <1>6, <1>7, <1>8 DEF At, Recording
<1> QED
  BY <1>1, <1>6, <1>9, TurnStep

\* The PSP's error is written to the initiation, which ends the claim.
LEMMA ReverseFailedTurn ==
    ASSUME TypeOK, TypeOK', OrderInv, InTurn, NEW r \in Reversals, AddReverseFailed(r)
    PROVE  InTurn'
<1> DEFINE a == [status |-> "REVERSE_FAILED", at |-> now, amount |-> Amount]
<1>1. a \in Adjustment /\ a.status # "REVERSED"
  BY ReversalAssumption DEF TypeOK, Adjustment, AdjustmentStatuses
<1>2. /\ pc[r] = "piErr" /\ Goto(r, "taskErr") /\ UNCHANGED <<psp, overlapped>>
      /\ adjs' = Upsert(adjs, a)
  BY DEF AddReverseFailed, AddAdjustment, payVars
<1> HIDE DEF a
<1>3. (Amountless' <=> Amountless) /\ AmountReversed' = AmountReversed
  BY <1>1, <1>2, OtherRow
<1>4. (NotOverReversed' <=> NotOverReversed) /\ (Final' <=> Final) /\ (Counted' <=> Counted)
  BY <1>2, <1>3, SameMoney
<1>5. At(pc[r], r) => At("taskErr", r)' /\ Counted'
  BY <1>2, <1>4 DEF At, Recording
<1> QED
  BY <1>2, <1>4, <1>5, TurnStep

\* A start or a retry of the request writes nothing that the validations read.
LEMMA RequestTurn ==
    ASSUME TypeOK, OrderInv, InTurn, NEW r \in Reversals,
           \/ PaymentInitiationReversalsCreate(r) \/ TasksUpsert(r) \/ ExecuteWorkflow(r)
    PROVE  InTurn'
<1> USE DEF payVars, apiVars
<1>1. UNCHANGED <<adjs, psp, payAt, related, claimAt>>
  BY DEF PaymentInitiationReversalsCreate, TasksUpsert, ExecuteWorkflow
<1>2. \A q \in Reversals : pc'[q] = pc[q] \/ (pc[q] = "none" /\ pc'[q] = "processed")
  BY DEF PaymentInitiationReversalsCreate, TasksUpsert, ExecuteWorkflow, TypeOK
<1>3. overlapped => overlapped'
  <2>1. CASE PaymentInitiationReversalsCreate(r) \/ TasksUpsert(r)
    BY <2>1 DEF PaymentInitiationReversalsCreate, TasksUpsert
  <2>2. CASE ExecuteWorkflow(r)
    <3>1. overlapped' = (overlapped \/ (pc[r] = "none" /\ Running # {}))
      BY <2>2 DEF ExecuteWorkflow
    <3> QED
      BY <3>1, Zenon
  <2> QED
    BY <2>1, <2>2
<1>4. (Amountless' <=> Amountless) /\ AmountReversed' = AmountReversed
  BY <1>1, SameRows
<1>5. (Stuck' <=> Stuck) /\ (Counted' <=> Counted)
      /\ (NotOverReversed' <=> NotOverReversed) /\ (Final' <=> Final)
  BY <1>1, <1>4, SamePlace, SameMoney
<1>6. \A q \in Reversals : /\ (Room(q)' <=> Room(q)) /\ (CountedBut(q)' <=> CountedBut(q))
                           /\ (Before(q)' <=> Before(q))
  BY <1>1, <1>4, SamePlace, SameMoney
<1> SUFFICES ASSUME ~overlapped', Final'
             PROVE  /\ NotOverReversed'
                    /\ (\A q \in Reversals : pc[q] \notin Validated)' => (Stuck \/ Counted)'
                    /\ \A q \in Reversals : At(pc[q], q)'
  BY DEF InTurn
<1>7. /\ NotOverReversed
      /\ (\A q \in Reversals : pc[q] \notin Validated) => Stuck \/ Counted
      /\ \A q \in Reversals : At(pc[q], q)
  BY <1>3, <1>5 DEF InTurn
<1>8. (\A q \in Reversals : pc'[q] \notin Validated) => \A q \in Reversals : pc[q] \notin Validated
  BY <1>2 DEF Validated, Recording
<1>9. \A q \in Reversals : At(pc[q], q)'
  <2> SUFFICES ASSUME NEW q \in Reversals PROVE At(pc[q], q)'
    OBVIOUS
  <2>1. CASE pc'[q] = "processed"
    BY <2>1 DEF At, Recording
  <2>2. CASE pc'[q] = pc[q]
    BY <1>5, <1>6, <1>7, <2>2 DEF At
  <2> QED
    BY <1>2, <2>1, <2>2
<1> QED
  BY <1>5, <1>7, <1>8, <1>9

\* The payout is processed: no reversal was validated before.
LEMMA PayoutTurn ==
    ASSUME TypeOK, TypeOK', OrderInv, InTurn, PayoutProcessed
    PROVE  InTurn'
<1> DEFINE a == [status |-> "PROCESSED", at |-> now, amount |-> Amount]
<1>1. a \in Adjustment /\ a.status # "REVERSED"
  BY ReversalAssumption DEF TypeOK, Adjustment, AdjustmentStatuses
<1>2. UNCHANGED <<psp, pc, overlapped>> /\ adjs' = Upsert(adjs, a)
  BY DEF PayoutProcessed, AddAdjustment, payVars
<1> HIDE DEF a
<1>3. (Amountless' <=> Amountless) /\ AmountReversed' = AmountReversed
  BY <1>1, <1>2, OtherRow
<1>4. (NotOverReversed' <=> NotOverReversed) /\ (Final' <=> Final) /\ (Counted' <=> Counted)
  BY <1>2, <1>3, SameMoney
<1>5. (\A q \in Reversals : pc[q] \notin Validated) /\ ~Stuck
  <2>1. ~Has("PROCESSED")
    BY DEF PayoutProcessed
  <2> QED
    BY <2>1 DEF OrderInv, Has, Stuck
<1> SUFFICES ASSUME ~overlapped', Final'
             PROVE  NotOverReversed' /\ Counted' /\ \A q \in Reversals : At(pc[q], q)'
  BY DEF InTurn
<1>6. NotOverReversed /\ Counted
  BY <1>2, <1>4, <1>5 DEF InTurn
<1>7. \A q \in Reversals : At(pc[q], q)'
  BY <1>2, <1>4, <1>5, <1>6 DEF At, Validated
<1> QED
  BY <1>4, <1>6, <1>7

\* The payment fetch reports a refund: its row is older than every claim that is still
\* to be checked, and has no amount.
LEMMA RefundTurn ==
    ASSUME TypeOK, TypeOK', OrderInv, InTurn, NEW r \in Reversals, UpdateFromRefund(r)
    PROVE  InTurn'
<1> DEFINE a == [status |-> StatusFromFetch(psp[r]), at |-> payAt[r], amount |-> NoAmount]
<1>1. a.status = "REVERSED" /\ a.amount = NoAmount /\ a.at = payAt[r]
  BY DEF UpdateFromRefund, StatusFromFetch, PendingPayment, PaidPayment, FailedPayment
<1>2. a \in Adjustment
  BY <1>1 DEF TypeOK, Adjustment, AdjustmentStatuses
<1>3. UNCHANGED <<psp, pc, payAt, related, claimAt, overlapped>> /\ adjs' = Upsert(adjs, a)
      /\ r \in related
  BY DEF UpdateFromRefund, payVars
<1> HIDE DEF a
<1>4. CASE adjs' = adjs
  <2>1. (Amountless' <=> Amountless) /\ AmountReversed' = AmountReversed
    BY <1>4, SameRows
  <2>2. (Stuck' <=> Stuck) /\ (Counted' <=> Counted)
        /\ (NotOverReversed' <=> NotOverReversed) /\ (Final' <=> Final)
    BY <1>3, <1>4, <2>1, SamePlace, SameMoney
  <2>3. \A q \in Reversals : /\ (Room(q)' <=> Room(q)) /\ (CountedBut(q)' <=> CountedBut(q))
                             /\ (Before(q)' <=> Before(q))
    BY <1>3, <1>4, <2>1, SamePlace, SameMoney
  <2>4. \A q \in Reversals : At(pc[q], q) => At(pc[q], q)'
    BY <1>3, <2>2, <2>3 DEF At
  <2> QED
    BY <1>3, <2>2, <2>4 DEF InTurn
<1>5. CASE adjs' = Append(adjs, a)
  <2>1. RowCounts(a)
    BY <1>2, <1>5, NewRow
  <2>2. Amountless'
    BY <1>1, <2>1 DEF RowCounts
  <2>3. Refunded' = Refunded /\ AmountRefunded' = AmountRefunded
    <3>1. Refunded' = Refunded
      BY <1>3 DEF Refunded
    <3> QED
      BY <3>1 DEF AmountRefunded, MapThenSumSet, MapThenFoldSet
  <2>4. /\ Final' <=> Final
        /\ NotOverReversed' <=> NotOverReversed
        /\ Counted' /\ \A q \in Reversals : CountedBut(q)'
        /\ \A q \in Reversals : Room(q) => Room(q)'
    BY <1>3, <2>2, <2>3 DEF Final, NotOverReversed, Counted, CountedBut, Room
  <2>5. Grows(a)
    BY <1>2, <1>3, UpsertGrows
  <2>6. \A q \in Reversals : Before(q) => Before(q)'
    BY <1>1, <1>3, <2>5 DEF Grows, Before
  <2>7. Stuck => Stuck'
    <3> SUFFICES ASSUME Stuck PROVE Stuck'
      OBVIOUS
    <3>1. PICK i \in DOMAIN adjs :
            /\ adjs[i].status = "REVERSE_PROCESSING"
            /\ \A j \in DOMAIN adjs : j # i => adjs[j].at < adjs[i].at
            /\ \A p \in related : payAt[p] < adjs[i].at
      BY DEF Stuck
    <3>2. i \in DOMAIN adjs' /\ adjs'[i] = adjs[i]
      BY <2>5 DEF Grows
    <3>3. \A j \in DOMAIN adjs' : j # i => adjs'[j].at < adjs'[i].at
      BY <1>1, <1>3, <2>5, <3>1, <3>2 DEF Grows
    <3>4. \A p \in related' : payAt'[p] < adjs'[i].at
      BY <1>3, <3>1, <3>2
    <3> QED
      BY <3>1, <3>2, <3>3, <3>4 DEF Stuck
  <2>8. \A q \in Reversals : At(pc[q], q) => At(pc[q], q)'
    BY <1>3, <2>4, <2>6, <2>7 DEF At
  <2> QED
    BY <1>3, <2>4, <2>8 DEF InTurn
<1> QED
  BY <1>3, <1>4, <1>5, UpsertAdds

\* The invariant holds at the start, and every step keeps it.
LEMMA InTurnInvariant == Spec => []InTurn
<1>1. Init => InTurn
  <2> SUFFICES ASSUME Init PROVE InTurn
    OBVIOUS
  <2>1. TypeOK
    BY InitType
  <2>2. Refunded = {} /\ ReversedRows = {}
    BY DEF Init, Refunded, NotRefunded, ReversedRows
  <2>3. IsFiniteSet({})
    BY FS_EmptySet
  <2>4. TotalOf(AmountOf, {}) = 0 /\ TotalOf(RowAmounts, {}) = 0
    BY <2>3, TotalStep
  <2>5. AmountRefunded = 0
    <3>1. IsFiniteSet(Refunded)
      BY <2>2, <2>3
    <3>2. AmountRefunded = TotalOf(AmountOf, Refunded)
      BY <3>1, AmountRefundedIs
    <3> QED
      BY <2>2, <2>4, <3>2
  <2>6. AmountReversed = 0
    BY <2>1, <2>2, <2>4, AmountReversedIs
  <2>7. Counted /\ NotOverReversed
    BY <2>5, <2>6, ReversalAssumption DEF Counted, NotOverReversed
  <2>8. \A q \in Reversals : pc[q] = "none"
    BY DEF Init
  <2> QED
    BY <2>7, <2>8 DEF InTurn, At, Recording
<1>2. TypeOK /\ TypeOK' /\ RecordInv /\ RecordInv' /\ OrderInv /\ InTurn /\ [Next]_vars => InTurn'
  <2> SUFFICES ASSUME TypeOK, TypeOK', RecordInv, RecordInv', OrderInv, InTurn, [Next]_vars
               PROVE  InTurn'
    OBVIOUS
  <2>1. ASSUME NEW r \in Reversals, WorkflowStep(r) PROVE InTurn'
    BY <2>1, PassTurn, ValidateAmountTurn, ClaimReadTurn, ClaimInsertTurn, PluginTurn,
       RelateTurn, AddStatusTurn, ReverseFailedTurn DEF WorkflowStep
  <2>2. CASE UNCHANGED vars
    <3>1. UNCHANGED <<adjs, psp, pc, payAt, related, claimAt, overlapped>>
      BY <2>2 DEF vars, payVars
    <3>2. (Amountless' <=> Amountless) /\ AmountReversed' = AmountReversed
      BY <3>1, SameRows
    <3>3. (Stuck' <=> Stuck) /\ (Counted' <=> Counted)
          /\ (NotOverReversed' <=> NotOverReversed) /\ (Final' <=> Final)
      BY <3>1, <3>2, SamePlace, SameMoney
    <3>4. \A q \in Reversals : /\ (Room(q)' <=> Room(q)) /\ (CountedBut(q)' <=> CountedBut(q))
                               /\ (Before(q)' <=> Before(q))
      BY <3>1, <3>2, SamePlace, SameMoney
    <3>5. \A q \in Reversals : At(pc[q], q) => At(pc[q], q)'
      BY <3>1, <3>3, <3>4 DEF At
    <3> QED
      BY <3>1, <3>3, <3>5 DEF InTurn
  <2> QED
    BY <2>1, <2>2, PayoutTurn, RefundTurn, RequestTurn DEF Next
<1> QED
  BY <1>1, <1>2, ReversalTypeCorrect, RecordInvariant, OrderInvariant, PTL DEF Spec

\* Reversals that run one after the other never refund more than the amount of the
\* initiation, as long as the answers of the PSP are final: also when the result of a
\* claim is lost, a refund is not recorded, or the payment fetch reports one late.
THEOREM InTurnNotOverReversed == Spec => []NotOverReversedInTurn
<1>1. InTurn => NotOverReversedInTurn
  BY DEF InTurn, NotOverReversedInTurn, Final
<1> QED
  BY <1>1, InTurnInvariant, PTL

=============================================================================
