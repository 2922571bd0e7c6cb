---------------------- MODULE PaymentInitiationProofs ----------------------
(***************************************************************************)
(* Proofs about PaymentInitiation, for any number of requests, attempts    *)
(* and poll errors and any behaviour of the PSP.                           *)
(***************************************************************************)
EXTENDS PaymentInitiation, FiniteSetTheorems, SequenceTheorems, TLAPS

-----------------------------------------------------------------------------
(* Adjustments: what an insert does to the number of FAILED rows.          *)

\* The rows that say FAILED are finitely many, so counting them gives a number.
LEMMA NumFailedType ==
    ASSUME NEW s \in Seq(Adjustment)
    PROVE  /\ IsFiniteSet({i \in DOMAIN s : s[i].status = "FAILED"})
           /\ NumFailed(s) \in Nat
<1> DEFINE F == {i \in DOMAIN s : s[i].status = "FAILED"}
<1>1. DOMAIN s = 1 .. Len(s) /\ Len(s) \in Nat
  BY LenProperties
<1>2. IsFiniteSet(1 .. Len(s))
  BY <1>1, FS_Interval
<1>3. F \subseteq 1 .. Len(s)
  BY <1>1
<1>4. IsFiniteSet(F)
  BY <1>2, <1>3, FS_Subset
<1> QED
  BY <1>4, FS_CardinalityType DEF NumFailed

\* No row, no failure.
LEMMA NumFailedEmpty == NumFailed(<< >>) = 0
<1>1. {i \in DOMAIN << >> : << >>[i].status = "FAILED"} = {}
  OBVIOUS
<1> QED
  BY <1>1, FS_EmptySet DEF NumFailed

\* An insert keeps the type of the table, adds at most one FAILED row, and none
\* when the new row says something else.
LEMMA UpsertProperties ==
    ASSUME NEW s \in Seq(Adjustment), NEW a \in Adjustment
    PROVE  /\ Upsert(s, a) \in Seq(Adjustment)
           /\ NumFailed(Upsert(s, a)) <= NumFailed(s) + 1
           /\ a.status # "FAILED" => NumFailed(Upsert(s, a)) = NumFailed(s)
<1> DEFINE F == {i \in DOMAIN s : s[i].status = "FAILED"}
           t == Append(s, a)
           G == {i \in DOMAIN t : t[i].status = "FAILED"}
<1>1. NumFailed(s) \in Nat /\ IsFiniteSet(F)
  BY NumFailedType
<1>2. CASE \E i \in DOMAIN s : s[i].status = a.status /\ s[i].at = a.at
  BY <1>1, <1>2 DEF Upsert
<1>3. CASE ~ \E i \in DOMAIN s : s[i].status = a.status /\ s[i].at = a.at
  <2>1. Upsert(s, a) = t
    BY <1>3 DEF Upsert
  <2>2. /\ t \in Seq(Adjustment)
        /\ Len(t) = Len(s) + 1
        /\ \A i \in 1 .. Len(s) : t[i] = s[i]
        /\ t[Len(s) + 1] = a
    BY AppendProperties
  <2>3. /\ DOMAIN s = 1 .. Len(s) /\ Len(s) \in Nat
        /\ DOMAIN t = 1 .. Len(t)
    BY <2>2, LenProperties
  <2>4. CASE a.status = "FAILED"
    <3>1. G = F \cup {Len(s) + 1}
      BY <2>2, <2>3, <2>4
    <3>2. Cardinality(F) \in Nat
      BY <1>1 DEF NumFailed
    <3>3. Cardinality(F \cup {Len(s) + 1})
            = IF Len(s) + 1 \in F THEN Cardinality(F) ELSE Cardinality(F) + 1
      <4> HIDE DEF F
      <4> QED BY <1>1, FS_AddElement
    <3>4. Cardinality(G) <= Cardinality(F) + 1
      <4> HIDE DEF F, G
      <4> QED BY <3>1, <3>2, <3>3
    <3> QED
      BY <2>1, <2>2, <2>4, <3>4 DEF NumFailed
  <2>5. CASE a.status # "FAILED"
    <3>1. G = F
      BY <2>2, <2>3, <2>5
    <3>2. NumFailed(t) = NumFailed(s)
      BY <3>1 DEF NumFailed
    <3> QED
      BY <2>1, <2>2, <2>5, <3>2, <1>1
  <2> QED
    BY <2>4, <2>5
<1> QED
  BY <1>2, <1>3

-----------------------------------------------------------------------------
(* Types.                                                                  *)

\* The translations of a payment status are adjustment statuses.
LEMMA StatusTypes ==
    /\ \A s : StatusFromPayment(s) \in AdjustmentStatuses
    /\ \A s : StatusFromFetch(s) \in AdjustmentStatuses \cup {"NONE"}
<1>1. ASSUME NEW s PROVE StatusFromPayment(s) \in AdjustmentStatuses
  BY DEF StatusFromPayment, AdjustmentStatuses
<1>2. ASSUME NEW s PROVE StatusFromFetch(s) \in AdjustmentStatuses \cup {"NONE"}
  BY DEF StatusFromFetch, AdjustmentStatuses
<1> QED
  BY <1>1, <1>2

\* Writing an adjustment with the current time keeps both types.
LEMMA AddAdjustmentType ==
    ASSUME TypeOK, NEW status \in AdjustmentStatuses, AddAdjustment(status)
    PROVE  adjs' \in Seq(Adjustment) /\ now' \in Nat
<1>1. [status |-> status, at |-> now] \in Adjustment
  BY DEF TypeOK, Adjustment
<1> QED
  BY <1>1, UpsertProperties DEF TypeOK, AddAdjustment

\* A workflow that goes on to a label keeps the type of the labels.
LEMMA GotoType ==
    ASSUME TypeOK, NEW k \in Kinds, NEW n \in Attempts, NEW label \in Labels,
           Goto(k, n, label)
    PROVE  pc' \in [Kinds -> [Attempts -> Labels]]
BY DEF TypeOK, Goto

\* A workflow step that writes a status keeps the types of what it touches.
LEMMA WriteStatusType ==
    ASSUME TypeOK, NEW k \in Kinds, NEW n \in Attempts,
           NEW status \in AdjustmentStatuses, NEW label \in Labels,
           WriteStatus(k, n, status, label)
    PROVE  /\ adjs' \in Seq(Adjustment)
           /\ now' \in Nat
           /\ pc' \in [Kinds -> [Attempts -> Labels]]
<1>1. CASE Exists
  BY <1>1, AddAdjustmentType, GotoType DEF WriteStatus
<1>2. CASE ~Exists
  <2>1. "taskErr" \in Labels
    BY DEF Labels
  <2>2. UNCHANGED <<adjs, now>> /\ Goto(k, n, "taskErr")
    BY <1>2 DEF WriteStatus
  <2> QED
    BY <2>1, <2>2, GotoType DEF TypeOK
<1> QED
  BY <1>1, <1>2

\* So does a change of a request.
LEMMA SetReqType ==
    ASSUME TypeOK, NEW r \in Requests, NEW p \in RequestPCs, NEW op \in Ops,
           NEW n \in 0 .. MaxAttempts, SetReq(r, p, op, n)
    PROVE  req' \in [Requests -> [pc : RequestPCs, op : Ops, attempt : 0 .. MaxAttempts]]
BY DEF SetReq, TypeOK

\* API requests keep the types.
LEMMA RequestType ==
    ASSUME TypeOK, NEW r \in Requests, RequestStep(r)
    PROVE  TypeOK'
<1> DEFINE ReqOK == req' \in [Requests -> [pc : RequestPCs, op : Ops, attempt : 0 .. MaxAttempts]]
<1> USE DEF dbVars, payVars, schedVars, pspVars, fetchVars, wfVars
<1>a. 0 \in 0 .. MaxAttempts /\ 1 \in 0 .. MaxAttempts
  BY BoundsAssumption
<1>b. req[r].op \in Ops /\ req[r].attempt \in 0 .. MaxAttempts
  BY DEF TypeOK
<1>1. ASSUME NEW b \in BOOLEAN, Create(r, b) PROVE TypeOK'
  <2>1. adjs' \in Seq(Adjustment) /\ now' \in Nat
    BY <1>1, AddAdjustmentType DEF Create, InsertInitiation, AdjustmentStatuses
  <2>2. ReqOK
    BY <1>a, <1>1, SetReqType DEF Create, InsertInitiation, Ops, RequestPCs
  <2> QED
    BY <1>1, <2>1, <2>2 DEF Create, InsertInitiation, TypeOK
<1>2. ASSUME NEW op \in Ops, CheckWaiting(r, op) PROVE TypeOK'
  <2>1. ReqOK
    BY <1>a, <1>2, SetReqType DEF CheckWaiting, Ops, RequestPCs
  <2> QED
    BY <1>2, <2>1 DEF CheckWaiting, TypeOK
<1>3. CASE CheckRetry(r)
  <2>1. NumFailed(adjs) \in Nat
    BY NumFailedType DEF TypeOK
  <2>2. NumFailed(adjs) + 1 \in 0 .. MaxAttempts
    BY <1>3, <2>1, BoundsAssumption DEF CheckRetry
  <2>3. ReqOK
    BY <2>2, <1>3, SetReqType DEF CheckRetry, Ops, RequestPCs
  <2> QED
    BY <1>3, <2>3 DEF CheckRetry, TypeOK
<1>4. CASE Reject(r)
  <2>1. adjs' \in Seq(Adjustment) /\ now' \in Nat
    BY <1>4, AddAdjustmentType DEF Reject, AdjustmentStatuses, TypeOK
  <2>2. ReqOK
    BY <1>a, <1>4, SetReqType DEF Reject, Ops, RequestPCs
  <2> QED
    BY <1>4, <2>1, <2>2 DEF Reject, TypeOK
<1>5. CASE Delete(r)
  <2>1. adjs' \in Seq(Adjustment)
    BY <1>5, EmptySeq DEF Delete, DeleteInitiation
  <2>2. ReqOK
    BY <1>a, <1>5, SetReqType DEF Delete, DeleteInitiation, Ops, RequestPCs
  <2> QED
    BY <1>5, <2>1, <2>2 DEF Delete, DeleteInitiation, TypeOK
<1>6. CASE UpsertTask(r)
  <2>1. ReqOK
    BY <1>b, <1>6, SetReqType DEF UpsertTask, RequestPCs
  <2>2. task' \in [Attempts -> TaskStatuses]
    BY <1>6 DEF UpsertTask, TypeOK, TaskStatuses
  <2> QED
    BY <1>6, <2>1, <2>2 DEF UpsertTask, TypeOK
<1>7. CASE ExecuteWorkflow(r)
  <2>1. ReqOK
    BY <1>b, <1>7, SetReqType DEF ExecuteWorkflow, RequestPCs
  <2> QED
    BY <1>7, <2>1 DEF ExecuteWorkflow, TypeOK, Labels
<1> QED
  BY <1>1, <1>2, <1>3, <1>4, <1>5, <1>6, <1>7 DEF RequestStep

\* The workflow of an attempt keeps the types.
LEMMA CreateType ==
    ASSUME TypeOK, NEW n \in Attempts, CreateStep(n)
    PROVE  TypeOK'
<1> USE DEF Goto, Labels, Kinds, PSPStates,
        dbVars, payVars, schedVars, pspVars, fetchVars, wfVars
<1>1. CASE GetPI(n)
  BY <1>1 DEF GetPI, TypeOK
<1>2. CASE AddScheduled(n)
  <2>1. adjs' \in Seq(Adjustment) /\ now' \in Nat /\ pc' \in [Kinds -> [Attempts -> Labels]]
    BY <1>2, WriteStatusType DEF AddScheduled, AdjustmentStatuses
  <2> QED
    BY <1>2, <2>1 DEF AddScheduled, TypeOK
<1>3. CASE Wake(n)
  BY <1>3 DEF Wake, TypeOK
<1>4. ASSUME NEW b \in BOOLEAN, GetAccounts(n, b) PROVE TypeOK'
  BY <1>4 DEF GetAccounts, TypeOK
<1>5. CASE AddProcessing(n)
  <2>1. adjs' \in Seq(Adjustment) /\ now' \in Nat /\ pc' \in [Kinds -> [Attempts -> Labels]]
    BY <1>5, WriteStatusType DEF AddProcessing, AdjustmentStatuses
  <2> QED
    BY <1>5, <2>1 DEF AddProcessing, TypeOK
<1>6. ASSUME NEW s \in Outcomes, PluginPayment(n, s) PROVE TypeOK'
  BY <1>6, PSPAssumption DEF PluginPayment, TypeOK
<1>7. ASSUME NEW b \in BOOLEAN, PluginPolling(n, b) PROVE TypeOK'
  BY <1>7 DEF PluginPolling, TypeOK
<1>8. CASE PluginNothing(n)
  BY <1>8 DEF PluginNothing, TypeOK
<1>9. CASE PluginError(n)
  BY <1>9 DEF PluginError, TypeOK
<1>10. CASE AddFailed(n)
  <2>1. adjs' \in Seq(Adjustment) /\ now' \in Nat /\ pc' \in [Kinds -> [Attempts -> Labels]]
    BY <1>10, WriteStatusType DEF AddFailed, AdjustmentStatuses
  <2> QED
    BY <1>10, <2>1 DEF AddFailed, TypeOK
<1>11. CASE StoreSchedule(n)
  BY <1>11 DEF StoreSchedule, TypeOK
<1>12. CASE CreateSchedule(n)
  BY <1>12 DEF CreateSchedule, TypeOK
<1>13. ASSUME NEW s \in Outcomes, PluginInvalid(n, s) PROVE TypeOK'
  BY <1>13, PSPAssumption DEF PluginInvalid, TypeOK
<1> QED
  BY <1>1, <1>2, <1>3, <1>4, <1>5, <1>6, <1>7, <1>8, <1>9, <1>10, <1>11, <1>12, <1>13
     DEF CreateStep

\* The steps both workflows share keep the types.
LEMMA SharedType ==
    ASSUME TypeOK, NEW k \in Kinds, NEW n \in Attempts, SharedStep(k, n)
    PROVE  TypeOK'
<1> USE DEF Labels, dbVars, payVars, schedVars, pspVars, fetchVars, wfVars
<1>1. CASE StorePayment(k, n)
  BY <1>1 DEF StorePayment, Goto, TypeOK
<1>2. CASE RelatePayment(k, n)
  <2>1. pc' \in [Kinds -> [Attempts -> Labels]]
    BY <1>2, GotoType DEF RelatePayment
  <2> QED
    BY <1>2, <2>1 DEF RelatePayment, TypeOK
<1>3. CASE AddStatus(k, n)
  <2>1. adjs' \in Seq(Adjustment) /\ now' \in Nat /\ pc' \in [Kinds -> [Attempts -> Labels]]
    BY <1>3, StatusTypes, WriteStatusType DEF AddStatus
  <2> QED
    BY <1>3, <2>1 DEF AddStatus, TypeOK
<1>4. CASE UpdateTaskSuccess(k, n)
  BY <1>4 DEF UpdateTaskSuccess, TaskEnd, Goto, TypeOK, TaskStatuses
<1>5. CASE UpdateTasksError(k, n)
  BY <1>5 DEF UpdateTasksError, TaskEnd, Goto, TypeOK, TaskStatuses
<1> QED
  BY <1>1, <1>2, <1>3, <1>4, <1>5 DEF SharedStep

\* The polling workflow keeps the types.
LEMMA PollType ==
    ASSUME TypeOK, NEW n \in Attempts, PollStep(n)
    PROVE  TypeOK'
<1> USE DEF Goto, Labels, Kinds, dbVars, payVars, schedVars, pspVars, fetchVars, wfVars
<1>1. CASE TriggerPoll(n)
  BY <1>1 DEF TriggerPoll, TypeOK
<1>2. CASE PollAnswer(n)
  BY <1>2 DEF PollAnswer, TypeOK
<1>3. CASE PollFails(n)
  BY <1>3 DEF PollFails, TypeOK
<1>4. CASE DeleteTemporalSchedule(n)
  BY <1>4 DEF DeleteTemporalSchedule, TypeOK
<1>5. CASE DeleteScheduleRow(n)
  BY <1>5 DEF DeleteScheduleRow, TypeOK
<1> QED
  BY <1>1, <1>2, <1>3, <1>4, <1>5 DEF PollStep

\* Time, the PSP and the payment fetch keep the types.
LEMMA EnvironmentType ==
    ASSUME TypeOK,
           TimePasses \/ \E n \in Attempts : PSPStep(n) \/ FetchStep(n)
    PROVE  TypeOK'
<1> USE DEF PSPStates, dbVars, payVars, schedVars, pspVars, fetchVars, wfVars
<1>1. CASE TimePasses
  BY <1>1 DEF TimePasses, TypeOK
<1>2. ASSUME NEW n \in Attempts, NEW s \in Outcomes \cup {"REFUSED"}, PSPDecides(n, s)
      PROVE  TypeOK'
  BY <1>2, PSPAssumption DEF PSPDecides, TypeOK
<1>3. ASSUME NEW n \in Attempts, NEW s \in PaymentStatuses, PSPMoves(n, s)
      PROVE  TypeOK'
  BY <1>3 DEF PSPMoves, TypeOK
<1>4. ASSUME NEW n \in Attempts, FetchPayment(n) PROVE TypeOK'
  BY <1>4 DEF FetchPayment, TypeOK
<1>5. ASSUME NEW n \in Attempts, UpdateFromPayment(n) PROVE TypeOK'
  <2>1. adjs' \in Seq(Adjustment)
    <3>1. CASE StatusFromFetch(fetched[n]) = "NONE" \/ n \notin related
      BY <1>5, <3>1 DEF UpdateFromPayment, TypeOK
    <3>2. CASE StatusFromFetch(fetched[n]) # "NONE" /\ n \in related
      <4>1. [status |-> StatusFromFetch(fetched[n]), at |-> payAt[n]] \in Adjustment
        BY <1>5, <3>2, StatusTypes DEF TypeOK, Adjustment
      <4> QED
        BY <1>5, <3>2, <4>1, UpsertProperties DEF UpdateFromPayment, TypeOK
    <3> QED
      BY <3>1, <3>2
  <2> QED
    BY <1>5, <2>1 DEF UpdateFromPayment, TypeOK
<1> QED
  BY <1>1, <1>2, <1>3, <1>4, <1>5 DEF PSPStep, FetchStep

\* Every variable of the initiation's database rows, workflows, schedules and
\* requests keeps its type in every behaviour.
THEOREM TypeCorrect == Spec => []TypeOK
<1>1. Init => TypeOK
  <2> SUFFICES ASSUME Init PROVE TypeOK
    OBVIOUS
  <2>1. adjs \in Seq(Adjustment)
    BY EmptySeq DEF Init
  <2>2. req \in [Requests -> [pc : RequestPCs, op : Ops, attempt : 0 .. MaxAttempts]]
    BY BoundsAssumption DEF Init, Ops, RequestPCs
  <2> QED
    BY <2>1, <2>2 DEF Init, TypeOK, TaskStatuses, Labels, PSPStates
<1>2. TypeOK /\ [Next]_vars => TypeOK'
  <2> SUFFICES ASSUME TypeOK, [Next]_vars PROVE TypeOK'
    OBVIOUS
  <2>1. CASE Next
    BY <2>1, RequestType, CreateType, SharedType, PollType, EnvironmentType DEF Next
  <2>2. CASE UNCHANGED vars
    BY <2>2 DEF vars, TypeOK, dbVars, payVars, schedVars, pspVars, fetchVars, wfVars
  <2> QED
    BY <2>1, <2>2
<1> QED
  BY <1>1, <1>2, PTL DEF Spec

-----------------------------------------------------------------------------
(* At most one attempt at a time.                                          *)

\* What going on to a label changes.
LEMMA GotoEffect ==
    ASSUME TypeOK, NEW k \in Kinds, NEW n \in Attempts, NEW label,
           Goto(k, n, label)
    PROVE  \A k2 \in Kinds, m \in Attempts :
              pc'[k2][m] = IF k2 = k /\ m = n THEN label ELSE pc[k2][m]
BY DEF TypeOK, Goto

\* The counting part of the invariant is kept by a step that starts nothing,
\* adds no FAILED row, leaves the requests alone and keeps lost attempts lost.
LEMMA CountKept ==
    ASSUME TypeOK, StartedInOrder, FailuresCounted, RequestsBounded,
           \A n \in Attempts : Lost(n) => Lost(n)',
           \A n \in Attempts : Started(n)' => Started(n),
           NumFailed(adjs') = NumFailed(adjs),
           req' = req
    PROVE  StartedInOrder' /\ FailuresCounted' /\ RequestsBounded'
<1>1. StartedInOrder'
  BY DEF StartedInOrder
<1>2. FailuresCounted'
  BY DEF FailuresCounted
<1>3. RequestsBounded'
  BY DEF RequestsBounded
<1> QED
  BY <1>1, <1>2, <1>3

\* The same for a step in which an open attempt n adds one FAILED row and is
\* lost by it: every earlier attempt is lost already, so the first attempt that
\* is not lost is now after n.
LEMMA CountFailed ==
    ASSUME TypeOK, StartedInOrder, FailuresCounted, RequestsBounded,
           NEW n \in Attempts, Started(n), ~Lost(n), Lost(n)',
           \A m \in Attempts : Lost(m) => Lost(m)',
           \A m \in Attempts : Started(m)' => Started(m),
           NumFailed(adjs') \in Nat,
           NumFailed(adjs') <= NumFailed(adjs) + 1,
           req' = req
    PROVE  StartedInOrder' /\ FailuresCounted' /\ RequestsBounded'
<1>1. StartedInOrder'
  BY DEF StartedInOrder
<1>2. FailuresCounted'
  <2> SUFFICES ASSUME NEW m \in Attempts, ~Lost(m)'
               PROVE  NumFailed(adjs') < m
    BY DEF FailuresCounted
  <2>1. ~Lost(m) /\ m # n
    OBVIOUS
  <2>2. n < m
    BY <2>1 DEF StartedInOrder, Attempts
  <2>3. NumFailed(adjs) < n /\ NumFailed(adjs) \in Nat
    BY NumFailedType DEF FailuresCounted, TypeOK
  <2> QED
    BY <2>2, <2>3 DEF Attempts
<1>3. RequestsBounded'
  BY DEF RequestsBounded
<1> QED
  BY <1>1, <1>2, <1>3

\* The invariant implies both properties.
LEMMA InvImplies ==
    ASSUME TypeOK, AttemptInv
    PROVE  AttemptsExclusive /\ AtMostOnePayment
<1>1. \A n \in Attempts : Undecided(n) => Started(n) /\ ~Lost(n)
  BY DEF AttemptInv, Control, Undecided, Started, Lost, Deciding
<1>2. \A n \in Attempts : LivePayment(n) => Started(n) /\ ~Lost(n)
  BY DEF AttemptInv, Control, LivePayment, Started, Lost
<1>3. \A n, m \in Attempts : Started(n) /\ ~Lost(n) /\ Started(m) /\ ~Lost(m) => n = m
  <2> SUFFICES ASSUME NEW n \in Attempts, NEW m \in Attempts,
                      Started(n), ~Lost(n), Started(m), ~Lost(m), n # m
               PROVE  FALSE
    OBVIOUS
  <2>1. n < m \/ m < n
    BY DEF Attempts
  <2> QED
    BY <2>1 DEF AttemptInv, StartedInOrder
<1> QED
  BY <1>1, <1>2, <1>3 DEF AttemptsExclusive, AtMostOnePayment

\* Nothing is started at first.
LEMMA InvInit == Init => AttemptInv
<1> SUFFICES ASSUME Init PROVE AttemptInv
  OBVIOUS
<1>1. \A n \in Attempts : Control(n)
  BY DEF Init, Control, Kinds
<1>2. StartedInOrder
  BY DEF Init, StartedInOrder, Started, Kinds
<1>3. FailuresCounted
  BY NumFailedEmpty DEF Init, FailuresCounted, Attempts
<1>4. RequestsBounded
  BY DEF Init, RequestsBounded
<1> QED
  BY <1>1, <1>2, <1>3, <1>4 DEF AttemptInv

\* What writing a status does to the count of FAILED rows.
LEMMA WriteStatusCount ==
    ASSUME TypeOK, NEW k \in Kinds, NEW n \in Attempts,
           NEW status \in AdjustmentStatuses, NEW label,
           WriteStatus(k, n, status, label)
    PROVE  /\ NumFailed(adjs') \in Nat
           /\ NumFailed(adjs') <= NumFailed(adjs) + 1
           /\ status # "FAILED" \/ ~Exists => NumFailed(adjs') = NumFailed(adjs)
           /\ \A k2 \in Kinds, m \in Attempts :
                pc'[k2][m] = IF k2 = k /\ m = n
                               THEN IF Exists THEN label ELSE "taskErr"
                               ELSE pc[k2][m]
<1>1. NumFailed(adjs) \in Nat
  BY NumFailedType DEF TypeOK
<1>2. CASE Exists
  <2>1. [status |-> status, at |-> now] \in Adjustment
    BY DEF TypeOK, Adjustment
  <2>2. adjs' = Upsert(adjs, [status |-> status, at |-> now])
    BY <1>2 DEF WriteStatus, AddAdjustment
  <2>3. /\ adjs' \in Seq(Adjustment)
        /\ NumFailed(adjs') <= NumFailed(adjs) + 1
        /\ status # "FAILED" => NumFailed(adjs') = NumFailed(adjs)
    BY <2>1, <2>2, UpsertProperties DEF TypeOK
  <2>4. NumFailed(adjs') \in Nat
    BY <2>3, NumFailedType
  <2> QED
    BY <1>2, <2>3, <2>4, GotoEffect DEF WriteStatus
<1>3. CASE ~Exists
  <2>1. adjs' = adjs /\ Goto(k, n, "taskErr")
    BY <1>3 DEF WriteStatus
  <2> QED
    BY <1>1, <1>3, <2>1, GotoEffect
<1> QED
  BY <1>2, <1>3

\* The workflows translate only failed payments to FAILED.
LEMMA FailedOnlyFromFailed ==
    ASSUME NEW s, StatusFromPayment(s) = "FAILED"
    PROVE  s \in FailedPayment
BY DEF StatusFromPayment

\* The workflow of an attempt keeps the invariant.
LEMMA CreateInv ==
    ASSUME TypeOK, AttemptInv, NEW n \in Attempts, CreateStep(n)
    PROVE  AttemptInv'
<1> USE DEF Kinds, dbVars, payVars, schedVars, pspVars, fetchVars, wfVars
<1>c. \A m \in Attempts : Control(m)
  BY DEF AttemptInv
<1>r. StartedInOrder /\ FailuresCounted /\ RequestsBounded
  BY DEF AttemptInv
<1>1. CASE GetPI(n)
  <2>1. NumFailed(adjs') = NumFailed(adjs)
    BY <1>1 DEF GetPI
  <2>2. \A m \in Attempts : Control(m)'
    BY <1>1, <2>1, GotoEffect, <1>c DEF GetPI, Control
  <2>3. \A m \in Attempts : (Lost(m) => Lost(m)') /\ (Started(m)' => Started(m))
    BY <1>1, <2>1, GotoEffect, <1>c DEF GetPI, Control, Lost, Started, Undecided, LivePayment, Deciding
  <2> QED
    BY <1>1, <2>1, <2>2, <2>3, CountKept DEF GetPI, AttemptInv
<1>2. CASE AddScheduled(n)
  <2>1. /\ NumFailed(adjs') = NumFailed(adjs)
        /\ \A k2 \in Kinds, m \in Attempts :
             pc'[k2][m] = IF k2 = "create" /\ m = n
                            THEN IF Exists THEN "sleep" ELSE "taskErr"
                            ELSE pc[k2][m]
    BY <1>2, WriteStatusCount DEF AddScheduled, AdjustmentStatuses, Kinds
  <2>2. \A m \in Attempts : Control(m)'
    BY <1>2, <2>1, <1>c DEF AddScheduled, Control
  <2>3. \A m \in Attempts : (Lost(m) => Lost(m)') /\ (Started(m)' => Started(m))
    BY <1>2, <2>1, <1>c DEF AddScheduled, Control, Lost, Started, Undecided, LivePayment, Deciding
  <2> QED
    BY <1>2, <2>1, <2>2, <2>3, CountKept DEF AddScheduled, AttemptInv
<1>3. CASE Wake(n)
  <2>1. NumFailed(adjs') = NumFailed(adjs)
    BY <1>3 DEF Wake
  <2>2. \A m \in Attempts : Control(m)'
    BY <1>3, <2>1, GotoEffect, <1>c DEF Wake, Control
  <2>3. \A m \in Attempts : (Lost(m) => Lost(m)') /\ (Started(m)' => Started(m))
    BY <1>3, <2>1, GotoEffect, <1>c DEF Wake, Control, Lost, Started, Undecided, LivePayment, Deciding
  <2> QED
    BY <1>3, <2>1, <2>2, <2>3, CountKept DEF Wake, AttemptInv
<1>4. ASSUME NEW b \in BOOLEAN, GetAccounts(n, b) PROVE AttemptInv'
  <2>1. NumFailed(adjs') = NumFailed(adjs)
    BY <1>4 DEF GetAccounts
  <2>2. \A m \in Attempts : Control(m)'
    BY <1>4, <2>1, GotoEffect, <1>c DEF GetAccounts, Control
  <2>3. \A m \in Attempts : (Lost(m) => Lost(m)') /\ (Started(m)' => Started(m))
    BY <1>4, <2>1, GotoEffect, <1>c DEF GetAccounts, Control, Lost, Started, Undecided, LivePayment, Deciding
  <2> QED
    BY <1>4, <2>1, <2>2, <2>3, CountKept DEF GetAccounts, AttemptInv
<1>5. CASE AddProcessing(n)
  <2>1. /\ NumFailed(adjs') = NumFailed(adjs)
        /\ \A k2 \in Kinds, m \in Attempts :
             pc'[k2][m] = IF k2 = "create" /\ m = n
                            THEN IF Exists THEN "plugin" ELSE "taskErr"
                            ELSE pc[k2][m]
    BY <1>5, WriteStatusCount DEF AddProcessing, AdjustmentStatuses, Kinds
  <2>2. \A m \in Attempts : Control(m)'
    BY <1>5, <2>1, <1>c DEF AddProcessing, Control
  <2>3. \A m \in Attempts : (Lost(m) => Lost(m)') /\ (Started(m)' => Started(m))
    BY <1>5, <2>1, <1>c DEF AddProcessing, Control, Lost, Started, Undecided, LivePayment, Deciding
  <2> QED
    BY <1>5, <2>1, <2>2, <2>3, CountKept DEF AddProcessing, AttemptInv
<1>6. ASSUME NEW s \in Outcomes, PluginPayment(n, s) PROVE AttemptInv'
  <2>1. NumFailed(adjs') = NumFailed(adjs)
    BY <1>6 DEF PluginPayment
  <2>2. \A m \in Attempts : Control(m)'
    BY <1>6, <2>1, GotoEffect, <1>c, TypeOK, PSPAssumption DEF PluginPayment, Control, TypeOK, PSPStates
  <2>3. \A m \in Attempts : (Lost(m) => Lost(m)') /\ (Started(m)' => Started(m))
    BY <1>6, <2>1, GotoEffect, <1>c, TypeOK, PSPAssumption DEF PluginPayment, Control, TypeOK, PSPStates, Lost, Started, Undecided, LivePayment, Deciding
  <2> QED
    BY <1>6, <2>1, <2>2, <2>3, CountKept DEF PluginPayment, AttemptInv
<1>7. ASSUME NEW b \in BOOLEAN, PluginPolling(n, b) PROVE AttemptInv'
  <2>1. NumFailed(adjs') = NumFailed(adjs)
    BY <1>7 DEF PluginPolling
  <2>2. \A m \in Attempts : Control(m)'
    BY <1>7, <2>1, GotoEffect, <1>c, TypeOK DEF PluginPolling, Control, TypeOK
  <2>3. \A m \in Attempts : (Lost(m) => Lost(m)') /\ (Started(m)' => Started(m))
    BY <1>7, <2>1, GotoEffect, <1>c, TypeOK DEF PluginPolling, Control, TypeOK, Lost, Started, Undecided, LivePayment, Deciding
  <2> QED
    BY <1>7, <2>1, <2>2, <2>3, CountKept DEF PluginPolling, AttemptInv
<1>8. CASE PluginNothing(n)
  <2>1. NumFailed(adjs') = NumFailed(adjs)
    BY <1>8 DEF PluginNothing
  <2>2. \A m \in Attempts : Control(m)'
    BY <1>8, <2>1, GotoEffect, <1>c, TypeOK DEF PluginNothing, Control, TypeOK
  <2>3. \A m \in Attempts : (Lost(m) => Lost(m)') /\ (Started(m)' => Started(m))
    BY <1>8, <2>1, GotoEffect, <1>c, TypeOK DEF PluginNothing, Control, TypeOK, Lost, Started, Undecided, LivePayment, Deciding
  <2> QED
    BY <1>8, <2>1, <2>2, <2>3, CountKept DEF PluginNothing, AttemptInv
<1>9. CASE PluginError(n)
  <2>1. NumFailed(adjs') = NumFailed(adjs)
    BY <1>9 DEF PluginError
  <2>2. \A m \in Attempts : Control(m)'
    BY <1>9, <2>1, GotoEffect, <1>c, TypeOK DEF PluginError, Control, TypeOK
  <2>3. \A m \in Attempts : (Lost(m) => Lost(m)') /\ (Started(m)' => Started(m))
    BY <1>9, <2>1, GotoEffect, <1>c, TypeOK DEF PluginError, Control, TypeOK, Lost, Started, Undecided, LivePayment, Deciding
  <2> QED
    BY <1>9, <2>1, <2>2, <2>3, CountKept DEF PluginError, AttemptInv
<1>10. CASE AddFailed(n)
  <2>1. /\ NumFailed(adjs') \in Nat
        /\ NumFailed(adjs') <= NumFailed(adjs) + 1
        /\ \A k2 \in Kinds, m \in Attempts :
             pc'[k2][m] = IF k2 = "create" /\ m = n THEN "taskErr" ELSE pc[k2][m]
    BY <1>10, WriteStatusCount DEF AddFailed, AdjustmentStatuses
  <2>2. \A m \in Attempts : Control(m)'
    BY <1>10, <1>c, <2>1 DEF AddFailed, Control
  <2>3. \A m \in Attempts : (Lost(m) => Lost(m)') /\ (Started(m)' => Started(m))
    BY <1>10, <1>c, <2>1 DEF AddFailed, Control, Lost, Started, Undecided, LivePayment, Deciding
  <2>4. Started(n) /\ ~Lost(n) /\ Lost(n)'
    BY <1>10, <1>c, <2>1 DEF AddFailed, Control, Lost, Started, Undecided, LivePayment, Deciding
  <2>5. StartedInOrder' /\ FailuresCounted' /\ RequestsBounded'
    BY <1>10, <1>r, <2>1, <2>3, <2>4, CountFailed DEF AddFailed
  <2> QED
    BY <2>2, <2>5 DEF AttemptInv
<1>11. CASE StoreSchedule(n)
  <2>1. NumFailed(adjs') = NumFailed(adjs)
    BY <1>11 DEF StoreSchedule
  <2>2. \A m \in Attempts : Control(m)'
    BY <1>11, <2>1, GotoEffect, <1>c DEF StoreSchedule, Control
  <2>3. \A m \in Attempts : (Lost(m) => Lost(m)') /\ (Started(m)' => Started(m))
    BY <1>11, <2>1, GotoEffect, <1>c DEF StoreSchedule, Control, Lost, Started, Undecided, LivePayment, Deciding
  <2> QED
    BY <1>11, <2>1, <2>2, <2>3, CountKept DEF StoreSchedule, AttemptInv
<1>12. CASE CreateSchedule(n)
  <2>1. NumFailed(adjs') = NumFailed(adjs)
    BY <1>12 DEF CreateSchedule
  <2>2. \A m \in Attempts : Control(m)'
    BY <1>12, <2>1, GotoEffect, <1>c DEF CreateSchedule, Control
  <2>3. \A m \in Attempts : (Lost(m) => Lost(m)') /\ (Started(m)' => Started(m))
    BY <1>12, <2>1, GotoEffect, <1>c DEF CreateSchedule, Control, Lost, Started, Undecided, LivePayment, Deciding
  <2> QED
    BY <1>12, <2>1, <2>2, <2>3, CountKept DEF CreateSchedule, AttemptInv
<1>13. ASSUME NEW s \in Outcomes, PluginInvalid(n, s) PROVE AttemptInv'
  <2>1. NumFailed(adjs') = NumFailed(adjs)
    BY <1>13 DEF PluginInvalid
  <2>2. \A m \in Attempts : Control(m)'
    BY <1>13, <2>1, GotoEffect, <1>c, TypeOK, PSPAssumption DEF PluginInvalid, Control, TypeOK, PSPStates
  <2>3. \A m \in Attempts : (Lost(m) => Lost(m)') /\ (Started(m)' => Started(m))
    BY <1>13, <2>1, GotoEffect, <1>c, TypeOK, PSPAssumption DEF PluginInvalid, Control, TypeOK, PSPStates, Lost, Started, Undecided, LivePayment, Deciding
  <2> QED
    BY <1>13, <2>1, <2>2, <2>3, CountKept DEF PluginInvalid, AttemptInv
<1> QED
  BY <1>1, <1>2, <1>3, <1>4, <1>5, <1>6, <1>7, <1>8, <1>9, <1>10, <1>11, <1>12, <1>13
     DEF CreateStep

\* The polling workflow keeps the invariant.
LEMMA PollInv ==
    ASSUME TypeOK, AttemptInv, NEW n \in Attempts, PollStep(n)
    PROVE  AttemptInv'
<1> USE DEF Kinds, dbVars, payVars, schedVars, pspVars, fetchVars, wfVars
<1>c. \A m \in Attempts : Control(m)
  BY DEF AttemptInv
<1>1. CASE TriggerPoll(n)
  <2>1. NumFailed(adjs') = NumFailed(adjs)
    BY <1>1 DEF TriggerPoll
  <2>2. \A m \in Attempts : Control(m)'
    BY <1>1, <2>1, GotoEffect, <1>c DEF TriggerPoll, Control
  <2>3. \A m \in Attempts : (Lost(m) => Lost(m)') /\ (Started(m)' => Started(m))
    BY <1>1, <2>1, GotoEffect, <1>c DEF TriggerPoll, Control, Lost, Started, Undecided, LivePayment, Deciding
  <2> QED
    BY <1>1, <2>1, <2>2, <2>3, CountKept DEF TriggerPoll, AttemptInv
<1>2. CASE PollAnswer(n)
  <2>1. NumFailed(adjs') = NumFailed(adjs)
    BY <1>2 DEF PollAnswer
  <2>2. \A m \in Attempts : Control(m)'
    BY <1>2, <2>1, GotoEffect, <1>c DEF PollAnswer, Control, TypeOK, FailedPayment
  <2>3. \A m \in Attempts : (Lost(m) => Lost(m)') /\ (Started(m)' => Started(m))
    BY <1>2, <2>1, GotoEffect, <1>c DEF PollAnswer, Control, TypeOK, FailedPayment, Lost, Started, Undecided, LivePayment, Deciding
  <2> QED
    BY <1>2, <2>1, <2>2, <2>3, CountKept DEF PollAnswer, AttemptInv
<1>3. CASE PollFails(n)
  <2>1. NumFailed(adjs') = NumFailed(adjs)
    BY <1>3 DEF PollFails
  <2>2. \A m \in Attempts : Control(m)'
    BY <1>3, <2>1, GotoEffect, <1>c DEF PollFails, Control
  <2>3. \A m \in Attempts : (Lost(m) => Lost(m)') /\ (Started(m)' => Started(m))
    BY <1>3, <2>1, GotoEffect, <1>c DEF PollFails, Control, Lost, Started, Undecided, LivePayment, Deciding
  <2> QED
    BY <1>3, <2>1, <2>2, <2>3, CountKept DEF PollFails, AttemptInv
<1>4. CASE DeleteTemporalSchedule(n)
  <2>1. NumFailed(adjs') = NumFailed(adjs)
    BY <1>4 DEF DeleteTemporalSchedule
  <2>2. \A m \in Attempts : Control(m)'
    BY <1>4, <2>1, GotoEffect, <1>c DEF DeleteTemporalSchedule, Control
  <2>3. \A m \in Attempts : (Lost(m) => Lost(m)') /\ (Started(m)' => Started(m))
    BY <1>4, <2>1, GotoEffect, <1>c DEF DeleteTemporalSchedule, Control, Lost, Started, Undecided, LivePayment, Deciding
  <2> QED
    BY <1>4, <2>1, <2>2, <2>3, CountKept DEF DeleteTemporalSchedule, AttemptInv
<1>5. CASE DeleteScheduleRow(n)
  <2>1. NumFailed(adjs') = NumFailed(adjs)
    BY <1>5 DEF DeleteScheduleRow
  <2>2. \A m \in Attempts : Control(m)'
    BY <1>5, <2>1, GotoEffect, <1>c DEF DeleteScheduleRow, Control
  <2>3. \A m \in Attempts : (Lost(m) => Lost(m)') /\ (Started(m)' => Started(m))
    BY <1>5, <2>1, GotoEffect, <1>c DEF DeleteScheduleRow, Control, Lost, Started, Undecided, LivePayment, Deciding
  <2> QED
    BY <1>5, <2>1, <2>2, <2>3, CountKept DEF DeleteScheduleRow, AttemptInv
<1> QED
  BY <1>1, <1>2, <1>3, <1>4, <1>5 DEF PollStep

\* The steps both workflows share keep the invariant.
LEMMA SharedInv ==
    ASSUME TypeOK, AttemptInv, NEW k \in Kinds, NEW n \in Attempts, SharedStep(k, n)
    PROVE  AttemptInv'
<1> USE DEF dbVars, payVars, schedVars, pspVars, fetchVars, wfVars
<1>c. \A m \in Attempts : Control(m)
  BY DEF AttemptInv
<1>r. StartedInOrder /\ FailuresCounted /\ RequestsBounded
  BY DEF AttemptInv
<1>k. k = "create" \/ k = "poll"
  BY DEF Kinds
<1>1. CASE StorePayment(k, n)
  <2>1. NumFailed(adjs') = NumFailed(adjs)
    BY <1>1 DEF StorePayment
  <2>2. \A m \in Attempts : Control(m)'
    BY <1>1, <2>1, GotoEffect, <1>c, <1>k DEF StorePayment, Control, Kinds
  <2>3. \A m \in Attempts : (Lost(m) => Lost(m)') /\ (Started(m)' => Started(m))
    BY <1>1, <2>1, GotoEffect, <1>c, <1>k DEF StorePayment, Control, Kinds, Lost, Started, Undecided, LivePayment, Deciding
  <2> QED
    BY <1>1, <2>1, <2>2, <2>3, CountKept DEF StorePayment, AttemptInv
<1>2. CASE RelatePayment(k, n)
  <2>1. /\ NumFailed(adjs') = NumFailed(adjs)
        /\ \A k2 \in Kinds, m \in Attempts :
             pc'[k2][m] = IF k2 = k /\ m = n
                            THEN IF Exists THEN "status" ELSE "taskErr"
                            ELSE pc[k2][m]
    BY <1>2, GotoEffect DEF RelatePayment
  <2>2. \A m \in Attempts : Control(m)'
    BY <1>2, <1>c, <1>k, <2>1 DEF RelatePayment, Control, Kinds
  <2>3. \A m \in Attempts : (Lost(m) => Lost(m)') /\ (Started(m)' => Started(m))
    BY <1>2, <1>c, <1>k, <2>1
       DEF RelatePayment, Control, Kinds, Lost, Started, Undecided, LivePayment, Deciding
  <2> QED
    BY <1>2, <2>1, <2>2, <2>3, CountKept DEF RelatePayment, AttemptInv
<1>3. CASE AddStatus(k, n)
  <2> DEFINE status == StatusFromPayment(got[k][n])
             label == IF k = "create" THEN "taskOk" ELSE "unschedule"
  <2>1. /\ NumFailed(adjs') \in Nat
        /\ NumFailed(adjs') <= NumFailed(adjs) + 1
        /\ status # "FAILED" \/ ~Exists => NumFailed(adjs') = NumFailed(adjs)
        /\ \A k2 \in Kinds, m \in Attempts :
             pc'[k2][m] = IF k2 = k /\ m = n
                            THEN IF Exists THEN label ELSE "taskErr"
                            ELSE pc[k2][m]
    BY <1>3, StatusTypes, WriteStatusCount DEF AddStatus
  <2>2. \A m \in Attempts : Control(m)'
    BY <1>3, <1>c, <1>k, <2>1 DEF AddStatus, Control, Kinds
  <2>3. \A m \in Attempts : (Lost(m) => Lost(m)') /\ (Started(m)' => Started(m))
    BY <1>3, <1>c, <1>k, <2>1
       DEF AddStatus, Control, Kinds, Lost, Started, Undecided, LivePayment, Deciding
  <2>4. CASE status # "FAILED" \/ ~Exists
    BY <1>3, <2>1, <2>2, <2>3, <2>4, CountKept DEF AddStatus, AttemptInv
  <2>5. CASE status = "FAILED" /\ Exists
    <3>1. psp[n] \in FailedPayment /\ psp' = psp
      BY <1>3, <1>c, <2>5, FailedOnlyFromFailed DEF AddStatus, Control
    <3>2. Started(n) /\ ~Lost(n)
      BY <1>3, <1>c, <1>k DEF AddStatus, Control, Lost, Started, Undecided, Deciding
    <3>3. Lost(n)'
      BY <1>3, <1>c, <1>k, <2>1, <2>5, <3>1
         DEF AddStatus, Control, Kinds, Lost, Started, Undecided, LivePayment, Deciding
    <3>4. StartedInOrder' /\ FailuresCounted' /\ RequestsBounded'
      BY <1>3, <1>r, <2>1, <2>3, <3>2, <3>3, CountFailed DEF AddStatus
    <3> QED
      BY <2>2, <3>4 DEF AttemptInv
  <2> QED
    BY <2>4, <2>5
<1>4. CASE UpdateTaskSuccess(k, n)
  <2>1. NumFailed(adjs') = NumFailed(adjs)
    BY <1>4 DEF UpdateTaskSuccess, TaskEnd
  <2>2. \A m \in Attempts : Control(m)'
    BY <1>4, <2>1, GotoEffect, <1>c, <1>k DEF UpdateTaskSuccess, TaskEnd, Control, Kinds
  <2>3. \A m \in Attempts : (Lost(m) => Lost(m)') /\ (Started(m)' => Started(m))
    BY <1>4, <2>1, GotoEffect, <1>c, <1>k DEF UpdateTaskSuccess, TaskEnd, Control, Kinds, Lost, Started, Undecided, LivePayment, Deciding
  <2> QED
    BY <1>4, <2>1, <2>2, <2>3, CountKept DEF UpdateTaskSuccess, TaskEnd, AttemptInv
<1>5. CASE UpdateTasksError(k, n)
  <2>1. NumFailed(adjs') = NumFailed(adjs)
    BY <1>5 DEF UpdateTasksError, TaskEnd
  <2>2. \A m \in Attempts : Control(m)'
    BY <1>5, <2>1, GotoEffect, <1>c, <1>k DEF UpdateTasksError, TaskEnd, Control, Kinds
  <2>3. \A m \in Attempts : (Lost(m) => Lost(m)') /\ (Started(m)' => Started(m))
    BY <1>5, <2>1, GotoEffect, <1>c, <1>k DEF UpdateTasksError, TaskEnd, Control, Kinds, Lost, Started, Undecided, LivePayment, Deciding
  <2> QED
    BY <1>5, <2>1, <2>2, <2>3, CountKept DEF UpdateTasksError, TaskEnd, AttemptInv
<1> QED
  BY <1>1, <1>2, <1>3, <1>4, <1>5 DEF SharedStep

\* API requests keep the invariant: a check reads a number that is in bounds,
\* and a request that waits keeps it in bounds because lost attempts stay lost.
LEMMA RequestInv ==
    ASSUME TypeOK, AttemptInv, NEW r \in Requests, RequestStep(r)
    PROVE  AttemptInv'
<1> USE DEF dbVars, payVars, schedVars, pspVars, fetchVars, wfVars
<1>c. \A m \in Attempts : Control(m)
  BY DEF AttemptInv
<1>r. StartedInOrder /\ FailuresCounted /\ RequestsBounded
  BY DEF AttemptInv
<1>n. NumFailed(adjs) \in Nat
  BY NumFailedType DEF TypeOK
<1>w. ASSUME NEW p \in RequestPCs, NEW op, NEW a,
             SetReq(r, p, op, a),
             p \in {"checked", "start"} =>
                a \in Attempts /\ \A m \in Attempts : ~Lost(m) => a <= m,
             UNCHANGED <<pc, psp, schedLive, got, fetched>>,
             NumFailed(adjs') \in Nat, NumFailed(adjs') <= NumFailed(adjs)
      PROVE  AttemptInv'
  <2>1. \A m \in Attempts : /\ Control(m)'
                            /\ Lost(m)' <=> Lost(m)
                            /\ Started(m)' <=> Started(m)
    BY <1>c, <1>w DEF Control, Lost, Started, Undecided, LivePayment
  <2>2. StartedInOrder'
    BY <1>r, <2>1 DEF StartedInOrder
  <2>3. FailuresCounted'
    BY <1>r, <1>n, <1>w, <2>1 DEF FailuresCounted, Attempts
  <2>4. RequestsBounded'
    BY <1>r, <1>w, <2>1 DEF RequestsBounded, SetReq, TypeOK
  <2> QED
    BY <2>1, <2>2, <2>3, <2>4 DEF AttemptInv
<1>o. 1 \in Attempts /\ \A m \in Attempts : 1 <= m
  BY BoundsAssumption DEF Attempts
<1>a. ASSUME NEW status \in AdjustmentStatuses, status # "FAILED", AddAdjustment(status)
      PROVE  NumFailed(adjs') = NumFailed(adjs)
  <2>1. [status |-> status, at |-> now] \in Adjustment
    BY DEF TypeOK, Adjustment
  <2> QED
    BY <1>a, <2>1, UpsertProperties DEF AddAdjustment, TypeOK
<1>1. ASSUME NEW b \in BOOLEAN, Create(r, b) PROVE AttemptInv'
  <2>1. NumFailed(adjs') = NumFailed(adjs)
    BY <1>1, <1>a DEF Create, InsertInitiation, AdjustmentStatuses
  <2> QED
    BY <1>1, <1>n, <1>o, <1>w, <2>1 DEF Create, InsertInitiation, RequestPCs
<1>2. ASSUME NEW op \in Ops, CheckWaiting(r, op) PROVE AttemptInv'
  BY <1>2, <1>n, <1>o, <1>w DEF CheckWaiting, RequestPCs
<1>3. CASE CheckRetry(r)
  <2>1. /\ NumFailed(adjs) + 1 \in Attempts
        /\ \A m \in Attempts : ~Lost(m) => NumFailed(adjs) + 1 <= m
    BY <1>3, <1>n, <1>r, BoundsAssumption DEF CheckRetry, FailuresCounted, Attempts
  <2> QED
    BY <1>3, <1>n, <1>w, <2>1 DEF CheckRetry, RequestPCs
<1>4. CASE Reject(r)
  <2>1. NumFailed(adjs') = NumFailed(adjs)
    BY <1>4, <1>a DEF Reject, AdjustmentStatuses
  <2> QED
    BY <1>4, <1>n, <1>w, <2>1 DEF Reject, RequestPCs
<1>5. CASE Delete(r)
  <2>1. NumFailed(adjs') = 0
    BY <1>5, NumFailedEmpty DEF Delete, DeleteInitiation
  <2> QED
    BY <1>5, <1>n, <1>w, <2>1 DEF Delete, DeleteInitiation, RequestPCs
<1>6. CASE UpsertTask(r)
  <2>1. /\ req[r].attempt \in Attempts
        /\ \A m \in Attempts : ~Lost(m) => req[r].attempt <= m
    BY <1>6, <1>r DEF UpsertTask, RequestsBounded
  <2> QED
    BY <1>6, <1>n, <1>w, <2>1 DEF UpsertTask, RequestPCs
<1>7. CASE ExecuteWorkflow(r)
  <2> DEFINE n == req[r].attempt
  <2>1. n \in Attempts /\ \A m \in Attempts : ~Lost(m) => n <= m
    BY <1>7, <1>r DEF ExecuteWorkflow, RequestsBounded
  <2>2. CASE pc["create"][n] # "none"
    <3>1. pc' = pc
      BY <1>7, <2>2 DEF ExecuteWorkflow
    <3> QED
      BY <1>7, <1>n, <1>w, <2>1, <3>1 DEF ExecuteWorkflow, RequestPCs
  <2>3. CASE pc["create"][n] = "none"
    <3>1. \A k \in Kinds, m \in Attempts :
             pc'[k][m] = IF k = "create" /\ m = n THEN "get" ELSE pc[k][m]
      BY <1>7, <2>1, <2>3 DEF ExecuteWorkflow, TypeOK, Kinds
    <3>2. \A m \in Attempts : Control(m)'
      BY <1>7, <1>c, <2>1, <2>3, <3>1 DEF ExecuteWorkflow, Control, Kinds
    <3>3. \A m \in Attempts : Lost(m) => Lost(m)'
      BY <1>7, <1>c, <2>1, <2>3, <3>1
         DEF ExecuteWorkflow, Kinds, Lost, Started, Undecided, LivePayment
    <3>4. \A m \in Attempts : Started(m)' => Started(m) \/ m = n
      BY <3>1 DEF Started, Kinds
    <3>5. StartedInOrder'
      <4> SUFFICES ASSUME NEW m \in Attempts, NEW j \in Attempts, Started(m)', j < m
                   PROVE  Lost(j)'
        BY DEF StartedInOrder
      <4>1. CASE Started(m)
        BY <1>r, <3>3, <4>1 DEF StartedInOrder
      <4>2. CASE m = n
        BY <2>1, <3>3, <4>2 DEF Attempts
      <4> QED
        BY <3>4, <4>1, <4>2
    <3>6. FailuresCounted'
      BY <1>7, <1>r, <3>3 DEF ExecuteWorkflow, FailuresCounted
    <3>7. RequestsBounded'
      BY <1>7, <1>r, <3>3 DEF ExecuteWorkflow, SetReq, RequestsBounded, TypeOK
    <3> QED
      BY <3>2, <3>5, <3>6, <3>7 DEF AttemptInv
  <2> QED
    BY <2>2, <2>3
<1> QED
  BY <1>1, <1>2, <1>3, <1>4, <1>5, <1>6, <1>7 DEF RequestStep

\* Time, the PSP and the payment fetch keep the invariant, under the two
\* conditions on the PSP and the connector.
LEMMA EnvironmentInv ==
    ASSUME TypeOK, AttemptInv, FetchHidesFailures, FailureFinal,
           TimePasses \/ \E n \in Attempts : PSPStep(n) \/ FetchStep(n)
    PROVE  AttemptInv'
<1> USE DEF dbVars, payVars, schedVars, pspVars, fetchVars, wfVars
<1>c. \A m \in Attempts : Control(m)
  BY DEF AttemptInv
<1>1. CASE TimePasses
  <2>1. \A m \in Attempts : Control(m)' /\ (Lost(m)' <=> Lost(m)) /\ (Started(m)' <=> Started(m))
    BY <1>1, <1>c DEF TimePasses, Control, Lost, Started, Undecided, LivePayment
  <2> QED
    BY <1>1, <2>1, CountKept DEF TimePasses, AttemptInv
<1>2. ASSUME NEW n \in Attempts, NEW s \in Outcomes \cup {"REFUSED"}, PSPDecides(n, s)
      PROVE  AttemptInv'
  <2>1. \A m \in Attempts : psp'[m] = IF m = n THEN s ELSE psp[m]
    BY <1>2 DEF PSPDecides, TypeOK
  <2>2. \A m \in Attempts : Control(m)'
    BY <1>2, <1>c, <2>1 DEF PSPDecides, Control, FailedPayment
  <2>3. \A m \in Attempts : (Lost(m) => Lost(m)') /\ (Started(m)' <=> Started(m))
    BY <1>2, <1>c, <2>1
       DEF PSPDecides, Lost, Started, Undecided, LivePayment, FailedPayment
  <2> QED
    BY <1>2, <2>2, <2>3, CountKept DEF PSPDecides, AttemptInv
<1>3. ASSUME NEW n \in Attempts, NEW s \in PaymentStatuses, PSPMoves(n, s)
      PROVE  AttemptInv'
  <2>1. \A m \in Attempts : psp'[m] = IF m = n THEN s ELSE psp[m]
    BY <1>3 DEF PSPMoves, TypeOK
  <2>2. psp[n] \in PaymentStatuses /\ (psp[n] \in FailedPayment => s \in FailedPayment)
    BY <1>3, PSPAssumption DEF PSPMoves, FailureFinal
  <2>3. psp[n] # "NONE" /\ psp[n] # "REFUSED"
    BY <2>2 DEF PaymentStatuses
  <2>4. \A m \in Attempts : Control(m)'
    BY <1>3, <1>c, <2>1, <2>2, <2>3 DEF PSPMoves, Control
  <2>5. \A m \in Attempts : (Lost(m) => Lost(m)') /\ (Started(m)' <=> Started(m))
    BY <1>3, <1>c, <2>1, <2>2, <2>3
       DEF PSPMoves, Lost, Started, Undecided, LivePayment
  <2> QED
    BY <1>3, <2>4, <2>5, CountKept DEF PSPMoves, AttemptInv
<1>4. ASSUME NEW n \in Attempts, FetchPayment(n) PROVE AttemptInv'
  <2>1. \A m \in Attempts : fetched'[m] = IF m = n THEN psp[n] ELSE fetched[m]
    BY <1>4 DEF FetchPayment, TypeOK
  <2>2. \A m \in Attempts : Control(m)' /\ (Lost(m)' <=> Lost(m)) /\ (Started(m)' <=> Started(m))
    BY <1>4, <1>c, <2>1 DEF FetchPayment, Control, Lost, Started, Undecided, LivePayment
  <2> QED
    BY <1>4, <2>2, CountKept DEF FetchPayment, AttemptInv
<1>5. ASSUME NEW n \in Attempts, UpdateFromPayment(n) PROVE AttemptInv'
  <2>1. StatusFromFetch(fetched[n]) # "FAILED"
    <3>1. StatusFromFetch("NONE") = "NONE"
      BY DEF StatusFromFetch, PendingPayment, PaidPayment, FailedPayment
    <3> QED
      BY <1>c, <3>1 DEF Control, FetchHidesFailures
  <2>2. NumFailed(adjs') = NumFailed(adjs)
    <3>1. CASE adjs' = adjs
      BY <3>1
    <3>2. CASE StatusFromFetch(fetched[n]) # "NONE" /\ n \in related
      <4>1. [status |-> StatusFromFetch(fetched[n]), at |-> payAt[n]] \in Adjustment
        BY <1>5, <3>2, StatusTypes DEF TypeOK, Adjustment
      <4> QED
        BY <1>5, <2>1, <3>2, <4>1, UpsertProperties DEF UpdateFromPayment, TypeOK
    <3> QED
      BY <1>5, <3>1, <3>2 DEF UpdateFromPayment
  <2>3. \A m \in Attempts : Control(m)' /\ (Lost(m)' <=> Lost(m)) /\ (Started(m)' <=> Started(m))
    BY <1>5, <1>c DEF UpdateFromPayment, Control, Lost, Started, Undecided, LivePayment
  <2> QED
    BY <1>5, <2>2, <2>3, CountKept DEF UpdateFromPayment, AttemptInv
<1> QED
  BY <1>1, <1>2, <1>3, <1>4, <1>5 DEF PSPStep, FetchStep

\* The invariant holds in every behaviour, for any number of requests and
\* attempts, when the payment fetch adds no FAILED adjustment and failed
\* payments stay failed.
LEMMA AttemptAlways ==
    ASSUME FetchHidesFailures, FailureFinal
    PROVE  Spec => [](TypeOK /\ AttemptInv)
<1>1. TypeOK /\ AttemptInv /\ [Next]_vars => AttemptInv'
  <2> SUFFICES ASSUME TypeOK, AttemptInv, [Next]_vars PROVE AttemptInv'
    OBVIOUS
  <2>1. CASE Next
    BY <2>1, RequestInv, CreateInv, PollInv, SharedInv, EnvironmentInv DEF Next
  <2>2. CASE UNCHANGED vars
    BY <2>2 DEF AttemptInv, Control, StartedInOrder, FailuresCounted, RequestsBounded,
                Lost, Started, Undecided, LivePayment, vars, dbVars, payVars, schedVars,
                pspVars, fetchVars, wfVars
  <2> QED
    BY <2>1, <2>2
<1> QED
  BY <1>1, InvInit, TypeCorrect, PTL DEF Spec

\* Under these two conditions two attempts of one initiation are never in
\* progress together, however stale what approve and retry requests have read.
THEOREM OneAttemptAtATime ==
    ASSUME FetchHidesFailures, FailureFinal
    PROVE  Spec => []AttemptsExclusive
BY AttemptAlways, InvImplies, PTL

\* Under the same conditions at most one attempt has, or may still get, money
\* moved by the PSP.
THEOREM MoneyMovesOnce ==
    ASSUME FetchHidesFailures, FailureFinal
    PROVE  Spec => []AtMostOnePayment
BY AttemptAlways, InvImplies, PTL

-----------------------------------------------------------------------------
(* Schedules, tasks and the payments they stand for.  Nothing is assumed   *)
(* of the PSP or of the payment fetch here.                                *)

\* The payment of the attempt is stored, and related to the initiation unless
\* that was deleted.
Settled(n) == n \in payments /\ (n \in related \/ DeleteDone)

\* The two workflows of an attempt take turns: a poll runs only after the
\* attempt's own workflow is closed, its schedule is recorded before it exists
\* and forgotten only once it is gone, and a task succeeds only when neither
\* workflow nor schedule is left.
TakeTurns(n) ==
    /\ pc["create"][n] = "createSchedule" => n \in schedRow
    /\ pc["poll"][n] # "none" => pc["create"][n] = "closed"
    /\ n \in schedLive => pc["create"][n] = "closed" /\ n \in schedRow
    /\ pc["poll"][n] \in {"deleteRow", "taskOk"} => n \notin schedLive
    /\ task[n] = "SUCCEEDED" => /\ pc["create"][n] = "closed"
                                /\ pc["poll"][n] = "none"
                                /\ n \notin schedLive

\* A workflow on its way to report success has settled the payment.
Earned(n) ==
    /\ \A k \in Kinds : pc[k][n] = "relate" => n \in payments
    /\ \A k \in Kinds : pc[k][n] \in {"status", "taskOk"} => Settled(n)
    /\ pc["poll"][n] \in {"unschedule", "deleteRow"} /\ got["poll"][n] # "REFUSED"
         => Settled(n)
    /\ task[n] = "SUCCEEDED" => Settled(n)

ProgressInv == \A n \in Attempts : TakeTurns(n) /\ Earned(n)

\* A request that is done stays as it is, so a deletion is never forgotten.
LEMMA SetReqEffect ==
    ASSUME TypeOK, NEW r \in Requests, NEW p, NEW op, NEW a,
           SetReq(r, p, op, a), req[r].pc # "done"
    PROVE  DeleteDone => DeleteDone'
BY DEF SetReq, DeleteDone, TypeOK

\* No step but a deletion takes a related payment away, and that one is done
\* in the same step: what is settled stays settled.
LEMMA SettledKept ==
    ASSUME TypeOK, Next
    PROVE  /\ payments \subseteq payments'
           /\ \A n \in Attempts : Settled(n) => Settled(n)'
<1> USE DEF dbVars, payVars, schedVars, pspVars, fetchVars, wfVars
<1>1. ASSUME req' = req, payments \subseteq payments', related \subseteq related'
      PROVE  \A n \in Attempts : Settled(n) => Settled(n)'
  BY <1>1 DEF Settled, DeleteDone
<1>2. ASSUME NEW r \in Requests, RequestStep(r)
      PROVE  /\ payments \subseteq payments'
             /\ \A n \in Attempts : Settled(n) => Settled(n)'
  <2>1. payments' = payments
    BY <1>2 DEF RequestStep, Create, CheckWaiting, CheckRetry, Reject, Delete,
                UpsertTask, ExecuteWorkflow
  <2>2. CASE Delete(r)
    <3>1. req'[r].op = "delete" /\ req'[r].pc = "done"
      BY <2>2 DEF Delete, SetReq, TypeOK
    <3> QED
      BY <2>1, <3>1 DEF Settled, DeleteDone
  <2>3. CASE ~Delete(r)
    <3>1. related' = related
      BY <1>2, <2>3 DEF RequestStep, Create, CheckWaiting, CheckRetry, Reject,
                        UpsertTask, ExecuteWorkflow
    <3>2. DeleteDone => DeleteDone'
      BY <1>2, <2>3, SetReqEffect
         DEF RequestStep, Create, InsertInitiation, CheckWaiting, CheckRetry, Reject,
             UpsertTask, ExecuteWorkflow
    <3> QED
      BY <2>1, <3>1, <3>2 DEF Settled
  <2> QED
    BY <2>2, <2>3
<1>3. ASSUME NEW n \in Attempts, CreateStep(n)
      PROVE  UNCHANGED <<req, payments, related>>
  BY <1>3 DEF CreateStep, GetPI, AddScheduled, Wake, GetAccounts, AddProcessing,
              PluginPayment, PluginInvalid, PluginPolling, PluginNothing, PluginError,
              AddFailed, StoreSchedule, CreateSchedule
<1>4. ASSUME NEW n \in Attempts, PollStep(n)
      PROVE  UNCHANGED <<req, payments, related>>
  BY <1>4 DEF PollStep, TriggerPoll, PollAnswer, PollFails, DeleteTemporalSchedule,
              DeleteScheduleRow
<1>5. ASSUME NEW n \in Attempts, NEW k \in Kinds, SharedStep(k, n)
      PROVE  req' = req /\ payments \subseteq payments' /\ related \subseteq related'
  BY <1>5 DEF SharedStep, StorePayment, RelatePayment, AddStatus, UpdateTaskSuccess,
              UpdateTasksError, TaskEnd
<1>6. ASSUME TimePasses \/ \E n \in Attempts : PSPStep(n) \/ FetchStep(n)
      PROVE  req' = req /\ payments \subseteq payments' /\ related \subseteq related'
  BY <1>6 DEF TimePasses, PSPStep, PSPDecides, PSPMoves, FetchStep, FetchPayment,
              UpdateFromPayment
<1> QED
  BY <1>1, <1>2, <1>3, <1>4, <1>5, <1>6 DEF Next

\* Steps that move no workflow, task or schedule keep the invariant.
LEMMA QuietProgress ==
    ASSUME TypeOK, ProgressInv, Next,
           UNCHANGED <<pc, got, task, schedRow, schedLive>>
    PROVE  ProgressInv'
<1>1. \A n \in Attempts : TakeTurns(n)'
  BY DEF ProgressInv, TakeTurns
<1>2. \A n \in Attempts : Earned(n)'
  BY SettledKept DEF ProgressInv, Earned
<1> QED
  BY <1>1, <1>2 DEF ProgressInv

\* The labels at which nothing is promised yet.
Plain == {"get", "schedule", "sleep", "accounts", "processing", "plugin", "store",
          "failed", "storeSchedule", "taskErr", "closed"}

\* A step of an attempt's own workflow that only moves on to such a label.
LEMMA CreateMoves ==
    ASSUME TypeOK, ProgressInv, Next, NEW n \in Attempts, NEW label \in Plain,
           Goto("create", n, label), pc["create"][n] # "closed",
           UNCHANGED <<task, schedRow, schedLive>>, got'["poll"] = got["poll"]
    PROVE  ProgressInv'
<1>1. "create" \in Kinds /\ "poll" \in Kinds
  BY DEF Kinds
<1>2. \A k \in Kinds, m \in Attempts :
         pc'[k][m] = IF k = "create" /\ m = n THEN label ELSE pc[k][m]
  BY <1>1, GotoEffect
<1>3. \A m \in Attempts : TakeTurns(m)'
  BY <1>1, <1>2 DEF ProgressInv, TakeTurns, Plain
<1>4. \A m \in Attempts : Earned(m)'
  BY <1>1, <1>2, SettledKept DEF ProgressInv, Earned, Plain
<1> QED
  BY <1>3, <1>4 DEF ProgressInv

\* The workflow of an attempt keeps the invariant.
LEMMA CreateProgress ==
    ASSUME TypeOK, ProgressInv, Next, NEW n \in Attempts, CreateStep(n)
    PROVE  ProgressInv'
<1> USE DEF dbVars, payVars, schedVars, pspVars, fetchVars, wfVars
<1>k. "create" \in Kinds /\ "poll" \in Kinds
  BY DEF Kinds
<1>1. CASE GetPI(n) \/ Wake(n) \/ \E found \in BOOLEAN : GetAccounts(n, found)
  BY <1>1, CreateMoves DEF GetPI, Wake, GetAccounts, Plain
<1>2. CASE AddScheduled(n) \/ AddProcessing(n) \/ AddFailed(n)
  BY <1>2, CreateMoves DEF AddScheduled, AddProcessing, AddFailed, WriteStatus, Plain
<1>3. CASE \E s \in Outcomes : PluginPayment(n, s) \/ PluginInvalid(n, s)
  <2>1. got'["poll"] = got["poll"]
    BY <1>3 DEF PluginPayment, PluginInvalid, TypeOK, Kinds
  <2> QED
    BY <1>3, <2>1, CreateMoves DEF PluginPayment, PluginInvalid, Plain
<1>4. CASE PluginNothing(n) \/ PluginError(n) \/ \E period \in BOOLEAN : PluginPolling(n, period)
  BY <1>4, CreateMoves DEF PluginPolling, PluginNothing, PluginError, Plain
<1>5. CASE StoreSchedule(n)
  <2>1. \A k \in Kinds, m \in Attempts :
           pc'[k][m] = IF k = "create" /\ m = n THEN "createSchedule" ELSE pc[k][m]
    BY <1>5, <1>k, GotoEffect DEF StoreSchedule
  <2>2. \A m \in Attempts : TakeTurns(m)'
    BY <1>5, <1>k, <2>1 DEF StoreSchedule, ProgressInv, TakeTurns
  <2>3. \A m \in Attempts : Earned(m)'
    BY <1>5, <1>k, <2>1, SettledKept DEF StoreSchedule, ProgressInv, Earned
  <2> QED
    BY <2>2, <2>3 DEF ProgressInv
<1>6. CASE CreateSchedule(n)
  <2>1. \A k \in Kinds, m \in Attempts :
           pc'[k][m] = IF k = "create" /\ m = n THEN "closed" ELSE pc[k][m]
    BY <1>6, <1>k, GotoEffect DEF CreateSchedule
  <2>2. \A m \in Attempts : TakeTurns(m)'
    BY <1>6, <1>k, <2>1 DEF CreateSchedule, ProgressInv, TakeTurns
  <2>3. \A m \in Attempts : Earned(m)'
    BY <1>6, <1>k, <2>1, SettledKept DEF CreateSchedule, ProgressInv, Earned
  <2> QED
    BY <2>2, <2>3 DEF ProgressInv
<1> QED
  BY <1>1, <1>2, <1>3, <1>4, <1>5, <1>6 DEF CreateStep

\* The steps both workflows share keep the invariant: success is reported only
\* after the payment was stored and related, and by the last workflow left.
LEMMA SharedProgress ==
    ASSUME TypeOK, ProgressInv, Next, NEW k \in Kinds, NEW n \in Attempts,
           SharedStep(k, n)
    PROVE  ProgressInv'
<1> USE DEF dbVars, payVars, schedVars, pspVars, fetchVars, wfVars
<1>k. "create" \in Kinds /\ "poll" \in Kinds /\ (k = "create" \/ k = "poll")
  BY DEF Kinds
<1>1. CASE StorePayment(k, n)
  <2>1. \A k2 \in Kinds, m \in Attempts :
           pc'[k2][m] = IF k2 = k /\ m = n THEN "relate" ELSE pc[k2][m]
    BY <1>1, GotoEffect DEF StorePayment
  <2>2. \A m \in Attempts : TakeTurns(m)'
    BY <1>1, <1>k, <2>1 DEF StorePayment, ProgressInv, TakeTurns
  <2>3. \A m \in Attempts : Earned(m)'
    BY <1>1, <1>k, <2>1, SettledKept DEF StorePayment, ProgressInv, Earned
  <2> QED
    BY <2>2, <2>3 DEF ProgressInv
<1>2. CASE RelatePayment(k, n)
  <2>1. \A k2 \in Kinds, m \in Attempts :
           pc'[k2][m] = IF k2 = k /\ m = n
                          THEN IF Exists THEN "status" ELSE "taskErr"
                          ELSE pc[k2][m]
    BY <1>2, GotoEffect DEF RelatePayment
  <2>2. \A m \in Attempts : TakeTurns(m)'
    BY <1>2, <1>k, <2>1 DEF RelatePayment, ProgressInv, TakeTurns
  <2>3. Exists => Settled(n)'
    BY <1>2, SettledKept DEF RelatePayment, ProgressInv, Earned, Settled
  <2>4. \A m \in Attempts : Earned(m)'
    BY <1>2, <1>k, <2>1, <2>3, SettledKept DEF RelatePayment, ProgressInv, Earned
  <2> QED
    BY <2>2, <2>4 DEF ProgressInv
<1>3. CASE AddStatus(k, n)
  <2> DEFINE label == IF k = "create" THEN "taskOk" ELSE "unschedule"
  <2>1. \A k2 \in Kinds, m \in Attempts :
           pc'[k2][m] = IF k2 = k /\ m = n
                          THEN IF Exists THEN label ELSE "taskErr"
                          ELSE pc[k2][m]
    BY <1>3, GotoEffect DEF AddStatus, WriteStatus
  <2>2. \A m \in Attempts : TakeTurns(m)'
    BY <1>3, <1>k, <2>1 DEF AddStatus, ProgressInv, TakeTurns
  <2>3. \A m \in Attempts : Earned(m)'
    BY <1>3, <1>k, <2>1, SettledKept DEF AddStatus, ProgressInv, Earned
  <2> QED
    BY <2>2, <2>3 DEF ProgressInv
<1>4. ASSUME NEW label, NEW status, TaskEnd(k, n, label, status),
             label # "closed", label # "none",
             status = "SUCCEEDED" => label = "taskOk"
      PROVE  ProgressInv'
  <2>1. \A k2 \in Kinds, m \in Attempts :
           pc'[k2][m] = IF k2 = k /\ m = n
                          THEN IF k = "create" THEN "closed" ELSE "none"
                          ELSE pc[k2][m]
    BY <1>4, GotoEffect DEF TaskEnd
  <2>2. \A m \in Attempts : task'[m] = IF m = n THEN status ELSE task[m]
    BY <1>4 DEF TaskEnd, TypeOK
  <2>3. \A m \in Attempts : TakeTurns(m)'
    BY <1>4, <1>k, <2>1, <2>2 DEF TaskEnd, ProgressInv, TakeTurns
  <2>4. \A m \in Attempts : Earned(m)'
    BY <1>4, <1>k, <2>1, <2>2, SettledKept DEF TaskEnd, ProgressInv, Earned
  <2> QED
    BY <2>3, <2>4 DEF ProgressInv
<1> QED
  BY <1>1, <1>2, <1>3, <1>4 DEF SharedStep, UpdateTaskSuccess, UpdateTasksError

\* The polling workflow keeps the invariant.
LEMMA PollProgress ==
    ASSUME TypeOK, ProgressInv, Next, NEW n \in Attempts, PollStep(n)
    PROVE  ProgressInv'
<1> USE DEF dbVars, payVars, schedVars, pspVars, fetchVars, wfVars
<1>k. "create" \in Kinds /\ "poll" \in Kinds
  BY DEF Kinds
<1>1. ASSUME NEW label, label \in {"plugin", "taskErr"}, Goto("poll", n, label),
             pc["create"][n] = "closed", task[n] # "SUCCEEDED",
             UNCHANGED <<task, got, schedRow, schedLive>>
      PROVE  ProgressInv'
  <2>1. \A k \in Kinds, m \in Attempts :
           pc'[k][m] = IF k = "poll" /\ m = n THEN label ELSE pc[k][m]
    BY <1>1, <1>k, GotoEffect
  <2>2. \A m \in Attempts : TakeTurns(m)'
    BY <1>1, <1>k, <2>1 DEF ProgressInv, TakeTurns
  <2>3. \A m \in Attempts : Earned(m)'
    BY <1>1, <1>k, <2>1, SettledKept DEF ProgressInv, Earned
  <2> QED
    BY <2>2, <2>3 DEF ProgressInv
<1>2. CASE TriggerPoll(n)
  BY <1>1, <1>2 DEF TriggerPoll, ProgressInv, TakeTurns
<1>3. CASE PollFails(n)
  BY <1>1, <1>3 DEF PollFails, ProgressInv, TakeTurns
<1>4. CASE PollAnswer(n)
  <2>1. PICK label : /\ label \in {"none", "unschedule", "store"}
                     /\ label = "unschedule" => psp[n] = "REFUSED"
                     /\ Goto("poll", n, label)
    BY <1>4 DEF PollAnswer
  <2>2. \A k \in Kinds, m \in Attempts :
           pc'[k][m] = IF k = "poll" /\ m = n THEN label ELSE pc[k][m]
    BY <1>k, <2>1, GotoEffect
  <2>3. \A m \in Attempts : got'["poll"][m] = IF m = n THEN psp[n] ELSE got["poll"][m]
    BY <1>4, <1>k DEF PollAnswer, TypeOK
  <2>4. \A m \in Attempts : TakeTurns(m)'
    BY <1>4, <1>k, <2>1, <2>2 DEF PollAnswer, ProgressInv, TakeTurns
  <2>5. \A m \in Attempts : Earned(m)'
    BY <1>4, <1>k, <2>1, <2>2, <2>3, SettledKept DEF PollAnswer, ProgressInv, Earned
  <2> QED
    BY <2>4, <2>5 DEF ProgressInv
<1>5. CASE DeleteTemporalSchedule(n)
  <2>1. \A k \in Kinds, m \in Attempts :
           pc'[k][m] = IF k = "poll" /\ m = n THEN "deleteRow" ELSE pc[k][m]
    BY <1>5, <1>k, GotoEffect DEF DeleteTemporalSchedule
  <2>2. \A m \in Attempts : TakeTurns(m)'
    BY <1>5, <1>k, <2>1 DEF DeleteTemporalSchedule, ProgressInv, TakeTurns
  <2>3. \A m \in Attempts : Earned(m)'
    BY <1>5, <1>k, <2>1, SettledKept DEF DeleteTemporalSchedule, ProgressInv, Earned
  <2> QED
    BY <2>2, <2>3 DEF ProgressInv
<1>6. CASE DeleteScheduleRow(n)
  <2>1. \A k \in Kinds, m \in Attempts :
           pc'[k][m] = IF k = "poll" /\ m = n
                         THEN IF got["poll"][n] = "REFUSED" THEN "taskErr" ELSE "taskOk"
                         ELSE pc[k][m]
    BY <1>6, <1>k, GotoEffect DEF DeleteScheduleRow
  <2>2. \A m \in Attempts : TakeTurns(m)'
    BY <1>6, <1>k, <2>1 DEF DeleteScheduleRow, ProgressInv, TakeTurns
  <2>3. \A m \in Attempts : Earned(m)'
    BY <1>6, <1>k, <2>1, SettledKept DEF DeleteScheduleRow, ProgressInv, Earned
  <2> QED
    BY <2>2, <2>3 DEF ProgressInv
<1> QED
  BY <1>2, <1>3, <1>4, <1>5, <1>6 DEF PollStep

\* API requests keep the invariant: a task only goes back to PROCESSING, and a
\* workflow is only started where there was none.
LEMMA RequestProgress ==
    ASSUME TypeOK, ProgressInv, Next, NEW r \in Requests, RequestStep(r)
    PROVE  ProgressInv'
<1> USE DEF dbVars, payVars, schedVars, pspVars, fetchVars, wfVars
<1>k. "create" \in Kinds /\ "poll" \in Kinds
  BY DEF Kinds
<1>1. CASE ~UpsertTask(r) /\ ~ExecuteWorkflow(r)
  BY <1>1, QuietProgress
     DEF RequestStep, Create, CheckWaiting, CheckRetry, Reject, Delete
<1>2. CASE UpsertTask(r)
  <2>1. \A m \in Attempts : task'[m] = task[m] \/ task'[m] = "PROCESSING"
    BY <1>2 DEF UpsertTask, TypeOK
  <2>2. \A m \in Attempts : TakeTurns(m)'
    BY <1>2, <2>1 DEF UpsertTask, ProgressInv, TakeTurns
  <2>3. \A m \in Attempts : Earned(m)'
    BY <1>2, <2>1, SettledKept DEF UpsertTask, ProgressInv, Earned
  <2> QED
    BY <2>2, <2>3 DEF ProgressInv
<1>3. CASE ExecuteWorkflow(r)
  <2>1. CASE pc' = pc
    BY <1>3, <2>1, QuietProgress DEF ExecuteWorkflow
  <2>2. CASE pc' # pc
    <3>1. \A k \in Kinds, m \in Attempts :
             \/ pc'[k][m] = pc[k][m]
             \/ k = "create" /\ pc[k][m] = "none" /\ pc'[k][m] = "get"
      BY <1>3, <2>2, <1>k DEF ExecuteWorkflow, TypeOK
    <3>2. \A m \in Attempts : TakeTurns(m)'
      BY <1>3, <1>k, <3>1 DEF ExecuteWorkflow, ProgressInv, TakeTurns
    <3>3. \A m \in Attempts : Earned(m)'
      BY <1>3, <1>k, <3>1, SettledKept DEF ExecuteWorkflow, ProgressInv, Earned
    <3> QED
      BY <3>2, <3>3 DEF ProgressInv
  <2> QED
    BY <2>1, <2>2
<1> QED
  BY <1>1, <1>2, <1>3

\* In every behaviour the workflows take turns and success is earned.
LEMMA ProgressAlways == Spec => []ProgressInv
<1>1. Init => ProgressInv
  BY DEF Init, ProgressInv, TakeTurns, Earned, Kinds
<1>2. TypeOK /\ ProgressInv /\ [Next]_vars => ProgressInv'
  <2> SUFFICES ASSUME TypeOK, ProgressInv, [Next]_vars PROVE ProgressInv'
    OBVIOUS
  <2>1. ASSUME Next, TimePasses \/ \E n \in Attempts : PSPStep(n) \/ FetchStep(n)
        PROVE  ProgressInv'
    <3>1. UNCHANGED <<pc, got, task, schedRow, schedLive>>
      BY <2>1 DEF TimePasses, PSPStep, PSPDecides, PSPMoves, FetchStep, FetchPayment,
                  UpdateFromPayment, schedVars, wfVars
    <3> QED
      BY <2>1, <3>1, QuietProgress
  <2>2. CASE Next
    BY <2>1, <2>2, RequestProgress, CreateProgress, PollProgress, SharedProgress DEF Next
  <2>3. CASE UNCHANGED vars
    BY <2>3 DEF ProgressInv, TakeTurns, Earned, Settled, DeleteDone, vars, dbVars,
                payVars, schedVars, pspVars, fetchVars, wfVars
  <2> QED
    BY <2>2, <2>3
<1> QED
  BY <1>1, <1>2, TypeCorrect, PTL DEF Spec

\* A polling schedule that exists in Temporal is in the schedules table at every
\* moment of its life, so that uninstalling the connector finds it.
THEOREM LiveSchedulesAreRecorded == Spec => []LiveScheduleRecorded
<1>1. TypeOK /\ ProgressInv => LiveScheduleRecorded
  BY DEF TypeOK, ProgressInv, TakeTurns, LiveScheduleRecorded
<1> QED
  BY <1>1, ProgressAlways, TypeCorrect, PTL

\* A task that reports success stands for a stored payment that is related to
\* the initiation unless that was deleted, whichever workflow reported it.
THEOREM SuccessIsEarned == Spec => []SuccessIsRelated
<1>1. ProgressInv => SuccessIsRelated
  BY DEF ProgressInv, Earned, Settled, SuccessIsRelated
<1> QED
  BY <1>1, ProgressAlways, PTL

\* No step turns a succeeded task into a failed one: when it succeeds, no
\* workflow and no schedule of the attempt is left to report an error.
THEOREM SuccessIsFinal == Spec => SuccessNeverFails
<1> DEFINE Kept == \A n \in Attempts : task[n] = "SUCCEEDED" => task'[n] # "FAILED"
<1> USE DEF dbVars, payVars, schedVars, pspVars, fetchVars, wfVars
<1>1. TypeOK /\ ProgressInv /\ [Next]_vars => [Kept]_vars
  <2> SUFFICES ASSUME TypeOK, ProgressInv, Next,
                      NEW n \in Attempts, task[n] = "SUCCEEDED"
               PROVE  task'[n] # "FAILED"
    OBVIOUS
  <2>1. ASSUME NEW k \in Kinds, NEW m \in Attempts, SharedStep(k, m)
        PROVE  task'[n] # "FAILED"
    <3>1. CASE UpdateTasksError(k, m)
      <4>1. m # n
        BY <3>1 DEF UpdateTasksError, TaskEnd, ProgressInv, TakeTurns, Kinds
      <4> QED
        BY <3>1, <4>1 DEF UpdateTasksError, TaskEnd, TypeOK
    <3>2. CASE ~UpdateTasksError(k, m)
      BY <2>1, <3>2 DEF SharedStep, StorePayment, RelatePayment, AddStatus,
                        UpdateTaskSuccess, TaskEnd, TypeOK
    <3> QED
      BY <3>1, <3>2
  <2>2. ASSUME NEW r \in Requests, RequestStep(r) PROVE task'[n] # "FAILED"
    BY <2>2 DEF RequestStep, Create, CheckWaiting, CheckRetry, Reject, Delete,
                UpsertTask, ExecuteWorkflow, TypeOK
  <2>3. ASSUME NEW m \in Attempts, CreateStep(m) PROVE task' = task
    BY <2>3 DEF CreateStep, GetPI, AddScheduled, Wake, GetAccounts, AddProcessing,
                PluginPayment, PluginInvalid, PluginPolling, PluginNothing,
                PluginError, AddFailed, StoreSchedule, CreateSchedule
  <2>4. ASSUME NEW m \in Attempts, PollStep(m) PROVE task' = task
    BY <2>4 DEF PollStep, TriggerPoll, PollAnswer, PollFails, DeleteTemporalSchedule,
                DeleteScheduleRow
  <2>5. ASSUME TimePasses \/ \E m \in Attempts : PSPStep(m) \/ FetchStep(m)
        PROVE  task' = task
    BY <2>5 DEF TimePasses, PSPStep, PSPDecides, PSPMoves, FetchStep, FetchPayment,
                UpdateFromPayment
  <2> QED
    BY <2>1, <2>2, <2>3, <2>4, <2>5 DEF Next
<1> QED
  BY <1>1, ProgressAlways, TypeCorrect, PTL DEF Spec, SuccessNeverFails

=============================================================================
