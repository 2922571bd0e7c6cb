------------------------- MODULE PaymentInitiation -------------------------
(***************************************************************************)
(* The life of ONE payment initiation (payout or transfer): the API        *)
(* operations create / approve / reject / delete / retry, the Temporal     *)
(* workflow that sends one attempt to the PSP (CreatePayout and            *)
(* CreateTransfer, which are the same program), the scheduled workflow     *)
(* that polls an asynchronous attempt (PollPayout, PollTransfer), and the  *)
(* updates that the periodic payment fetch applies to the initiation.      *)
(*                                                                         *)
(* Initiations do not share state: every row, task, workflow and schedule  *)
(* identifier contains the identifier of the initiation, so one is enough. *)
(*                                                                         *)
(* Granularity: one step per database transaction, per Temporal call and   *)
(* per activity.  What an API request read in one step it uses in a later  *)
(* one.  Activities are retried until they succeed or fail for good, and   *)
(* those used here write under a key fixed by the workflow, so a repeated  *)
(* execution changes nothing; the PSP is assumed to recognise a repeated   *)
(* call of the same attempt (external).                                    *)
(***************************************************************************)
EXTENDS Integers, Sequences, FiniteSets, Adjustments

CONSTANTS Requests,         \* API requests that may be issued
          MaxAttempts,      \* bound on the attempts of the initiation
          MaxPollErrors,    \* bound on the failing status polls per attempt
          Outcomes,         \* statuses a PSP gives to a payment it creates
          Moves,            \* <<from, to>>: later status changes at the PSP
          FetchedStatuses   \* statuses the connector's payment fetch reports

ASSUME BoundsAssumption ==
    /\ MaxAttempts \in Nat \ {0}
    /\ MaxPollErrors \in Nat

ASSUME PSPAssumption ==
    /\ Outcomes \subseteq PaymentStatuses
    /\ Moves \subseteq PaymentStatuses \X PaymentStatuses
    /\ FetchedStatuses \subseteq PaymentStatuses

Attempts == 1 .. MaxAttempts

TaskStatuses == {"NONE", "PROCESSING", "SUCCEEDED", "FAILED"}

\* What the PSP holds for an attempt: nothing, an accepted request that has no
\* payment yet, a refused one, or a payment with a status.
PSPStates == PaymentStatuses \cup {"NONE", "ACCEPTED", "REFUSED"}

Ops == {"create", "approve", "reject", "delete", "retry"}

\* The two kinds of workflow that act on an attempt.
Kinds == {"create", "poll"}

VARIABLES
    row,        \* the row of payment_initiations: "present" or "absent"
    due,        \* its ScheduledAt: "later" than the clock, or "now"
    adjs,       \* rows of payment_initiation_adjustments, in sort_id order
    now,        \* the clock that stamps created_at
    req,        \* the API requests in progress
    task,       \* status of the task of each attempt
    pc,         \* next step of each workflow: pc[kind][attempt]
    got,        \* payment status a workflow received from the PSP
    psp,        \* what the PSP holds for each attempt
    payAt,      \* created_at of the payment, as the PSP reports it
    payments,   \* attempts whose payment is in the payments table
    related,    \* attempts with a row in payment_initiation_related_payments
    schedRow,   \* attempts whose polling schedule is in the schedules table
    schedLive,  \* attempts whose polling schedule exists in Temporal
    pollErrors, \* failing status polls so far
    fetched,    \* last payment status the fetch workflow received
    applying    \* attempts whose fetched status is not yet applied

Exists == row = "present"

dbVars   == <<row, due, adjs, now>>
payVars  == <<payments, related>>
schedVars == <<schedRow, schedLive>>
pspVars  == <<psp, payAt, pollErrors>>
fetchVars == <<fetched, applying>>
wfVars   == <<pc, got>>
vars == <<dbVars, req, task, wfVars, pspVars, payVars, schedVars, fetchVars>>

Labels == {"none", "get", "schedule", "sleep", "accounts", "processing",
           "plugin", "store", "relate", "status", "failed", "storeSchedule",
           "createSchedule", "unschedule", "deleteRow", "taskOk", "taskErr",
           "closed"}

RequestPCs == {"idle", "checked", "start", "done"}

Adjustment == [status : AdjustmentStatuses, at : Nat]

\* Every variable holds a value of its type.
TypeOK ==
    /\ row \in {"absent", "present"}
    /\ due \in {"later", "now"}
    /\ adjs \in Seq(Adjustment)
    /\ now \in Nat
    /\ req \in [Requests -> [pc : RequestPCs, op : Ops, attempt : 0 .. MaxAttempts]]
    /\ task \in [Attempts -> TaskStatuses]
    /\ pc \in [Kinds -> [Attempts -> Labels]]
    /\ got \in [Kinds -> [Attempts -> PSPStates]]
    /\ psp \in [Attempts -> PSPStates]
    /\ payAt \in [Attempts -> Nat]
    /\ payments \in SUBSET Attempts
    /\ related \in SUBSET Attempts
    /\ schedRow \in SUBSET Attempts
    /\ schedLive \in SUBSET Attempts
    /\ pollErrors \in [Attempts -> Nat]
    /\ fetched \in [Attempts -> PSPStates]
    /\ applying \in SUBSET Attempts

-----------------------------------------------------------------------------
(* Adjustments.                                                            *)

LatestIs(status) == adjs # <<>> /\ Latest(adjs).status = status

\* getAttemps: how many adjustments say FAILED.
NumFailed(s) == Cardinality({i \in DOMAIN s : s[i].status = "FAILED"})

\* A writer that stamps its adjustment with the current time.
AddAdjustment(status) ==
    /\ adjs' = Upsert(adjs, [status |-> status, at |-> now])
    /\ now' = now + 1

-----------------------------------------------------------------------------
Init ==
    /\ row = "absent"
    /\ due \in {"later", "now"}
    /\ adjs = <<>>
    /\ now = 0
    /\ req = [r \in Requests |-> [pc |-> "idle", op |-> "create", attempt |-> 0]]
    /\ task = [n \in Attempts |-> "NONE"]
    /\ pc = [k \in Kinds |-> [n \in Attempts |-> "none"]]
    /\ got = [k \in Kinds |-> [n \in Attempts |-> "NONE"]]
    /\ psp = [n \in Attempts |-> "NONE"]
    /\ payAt = [n \in Attempts |-> 0]
    /\ payments = {} /\ related = {}
    /\ schedRow = {} /\ schedLive = {}
    /\ pollErrors = [n \in Attempts |-> 0]
    /\ fetched = [n \in Attempts |-> "NONE"]
    /\ applying = {}

-----------------------------------------------------------------------------
(* API requests.                                                           *)

SetReq(r, p, op, n) ==
    req' = [req EXCEPT ![r] = [pc |-> p, op |-> op, attempt |-> n]]

\* The row and its first adjustment in one transaction.  A row that exists
\* already is refused by its primary key.
InsertInitiation ==
    /\ ~Exists
    /\ row' = "present"
    /\ AddAdjustment("WAITING_FOR_VALIDATION")

\* PaymentInitiationsCreate: the insert; with sendToPSP the request goes on to
\* start attempt 1.
Create(r, sendToPSP) ==
    /\ req[r].pc = "idle"
    /\ InsertInitiation
    /\ IF sendToPSP THEN SetReq(r, "checked", "create", 1)
                    ELSE SetReq(r, "done", "create", 0)
    /\ UNCHANGED <<due, task, wfVars, pspVars, payVars, schedVars, fetchVars>>

\* The check of approve, reject and delete: the newest adjustment must be
\* WAITING_FOR_VALIDATION.
CheckWaiting(r, op) ==
    /\ op \in {"approve", "reject", "delete"}
    /\ req[r].pc = "idle"
    /\ LatestIs("WAITING_FOR_VALIDATION")
    /\ SetReq(r, "checked", op, 1)
    /\ UNCHANGED <<dbVars, task, wfVars, pspVars, payVars, schedVars, fetchVars>>

\* The check of retry: the newest adjustment must be FAILED; the number of the
\* next attempt is one more than the FAILED adjustments read.
CheckRetry(r) ==
    /\ req[r].pc = "idle"
    /\ LatestIs("FAILED")
    /\ NumFailed(adjs) < MaxAttempts
    /\ SetReq(r, "checked", "retry", NumFailed(adjs) + 1)
    /\ UNCHANGED <<dbVars, task, wfVars, pspVars, payVars, schedVars, fetchVars>>

\* PaymentInitiationsReject, second step: the REJECTED adjustment (the insert
\* fails on its foreign key when the row is gone).
Reject(r) ==
    /\ req[r].pc = "checked" /\ req[r].op = "reject"
    /\ IF Exists THEN AddAdjustment("REJECTED") ELSE UNCHANGED <<adjs, now>>
    /\ SetReq(r, "done", "reject", 1)
    /\ UNCHANGED <<row, due, task, wfVars, pspVars, payVars, schedVars, fetchVars>>

\* The row goes, and by the cascade its adjustments and related payments.
DeleteInitiation ==
    /\ row' = "absent"
    /\ adjs' = <<>>
    /\ related' = {}

\* PaymentInitiationsDelete, second step.
Delete(r) ==
    /\ req[r].pc = "checked" /\ req[r].op = "delete"
    /\ DeleteInitiation
    /\ SetReq(r, "done", "delete", 1)
    /\ UNCHANGED <<due, now, task, wfVars, pspVars, payments, schedVars, fetchVars>>

\* approve and retry read the row first and stop when it is gone; then, as
\* after create, engine.CreatePayout stores the task as PROCESSING.
UpsertTask(r) ==
    /\ req[r].pc = "checked" /\ req[r].op \in {"create", "approve", "retry"}
    /\ IF Exists \/ req[r].op = "create"
         THEN /\ task' = [task EXCEPT ![req[r].attempt] = "PROCESSING"]
              /\ SetReq(r, "start", req[r].op, req[r].attempt)
         ELSE /\ SetReq(r, "done", req[r].op, req[r].attempt)
              /\ UNCHANGED task
    /\ UNCHANGED <<dbVars, wfVars, pspVars, payVars, schedVars, fetchVars>>

\* ExecuteWorkflow with REJECT_DUPLICATE: a workflow identifier that was ever
\* used starts nothing.
ExecuteWorkflow(r) ==
    LET n == req[r].attempt IN
    /\ req[r].pc = "start"
    /\ pc' = IF pc["create"][n] = "none"
               THEN [pc EXCEPT !["create"][n] = "get"] ELSE pc
    /\ SetReq(r, "done", req[r].op, n)
    /\ UNCHANGED <<dbVars, task, got, pspVars, payVars, schedVars, fetchVars>>

-----------------------------------------------------------------------------
(* The workflow of one attempt: createPayout / createTransfer.             *)

Goto(k, n, label) == pc' = [pc EXCEPT ![k][n] = label]

\* A workflow step that writes an adjustment and goes on, or fails for good
\* when the row is gone (foreign key).
WriteStatus(k, n, status, label) ==
    IF Exists THEN AddAdjustment(status) /\ Goto(k, n, label)
              ELSE UNCHANGED <<adjs, now>> /\ Goto(k, n, "taskErr")

GetPI(n) ==
    /\ pc["create"][n] = "get"
    /\ Goto("create", n, CASE ~Exists                  -> "taskErr"
                           [] Exists /\ due = "later" -> "schedule"
                           [] OTHER                    -> "accounts")
    /\ UNCHANGED <<dbVars, req, task, got, pspVars, payVars, schedVars, fetchVars>>

AddScheduled(n) ==
    /\ pc["create"][n] = "schedule"
    /\ WriteStatus("create", n, "SCHEDULED_FOR_PROCESSING", "sleep")
    /\ UNCHANGED <<row, due, req, task, got, pspVars, payVars, schedVars, fetchVars>>

\* workflow.Sleep returns once ScheduledAt has passed.
Wake(n) ==
    /\ pc["create"][n] = "sleep"
    /\ due = "now"
    /\ Goto("create", n, "accounts")
    /\ UNCHANGED <<dbVars, req, task, got, pspVars, payVars, schedVars, fetchVars>>

\* getPSPPI: both accounts are found, or one is missing for good.
GetAccounts(n, found) ==
    /\ pc["create"][n] = "accounts"
    /\ Goto("create", n, IF found THEN "processing" ELSE "taskErr")
    /\ UNCHANGED <<dbVars, req, task, got, pspVars, payVars, schedVars, fetchVars>>

AddProcessing(n) ==
    /\ pc["create"][n] = "processing"
    /\ WriteStatus("create", n, "PROCESSING", "plugin")
    /\ UNCHANGED <<row, due, req, task, got, pspVars, payVars, schedVars, fetchVars>>

\* PluginCreatePayout answers with a payment ...
PluginPayment(n, s) ==
    /\ pc["create"][n] = "plugin"
    /\ psp' = [psp EXCEPT ![n] = s]
    /\ payAt' = [payAt EXCEPT ![n] = now]
    /\ now' = now + 1
    /\ got' = [got EXCEPT !["create"][n] = s]
    /\ Goto("create", n, "store")
    /\ UNCHANGED <<row, due, adjs, req, task, pollErrors, payVars, schedVars, fetchVars>>

\* ... with one that FromPSPPaymentToPayment refuses: the task fails, the
\* initiation stays PROCESSING ...
PluginInvalid(n, s) ==
    /\ pc["create"][n] = "plugin"
    /\ psp' = [psp EXCEPT ![n] = s]
    /\ payAt' = [payAt EXCEPT ![n] = now]
    /\ now' = now + 1
    /\ Goto("create", n, "taskErr")
    /\ UNCHANGED <<row, due, adjs, req, task, got, pollErrors, payVars, schedVars, fetchVars>>

\* ... with an identifier to poll, at the connector's polling period: without
\* one (no row, or a config that cannot be read) the task fails ...
PluginPolling(n, period) ==
    /\ pc["create"][n] = "plugin"
    /\ psp' = [psp EXCEPT ![n] = "ACCEPTED"]
    /\ Goto("create", n, IF period THEN "storeSchedule" ELSE "taskErr")
    /\ UNCHANGED <<dbVars, req, task, got, payAt, pollErrors, payVars, schedVars, fetchVars>>

\* ... with neither, which ends the workflow without touching the task ...
PluginNothing(n) ==
    /\ pc["create"][n] = "plugin"
    /\ psp' = [psp EXCEPT ![n] = "ACCEPTED"]
    /\ Goto("create", n, "closed")
    /\ UNCHANGED <<dbVars, req, task, got, payAt, pollErrors, payVars, schedVars, fetchVars>>

\* ... or with an error that is not retried.
PluginError(n) ==
    /\ pc["create"][n] = "plugin"
    /\ psp' = [psp EXCEPT ![n] = "REFUSED"]
    /\ Goto("create", n, "failed")
    /\ UNCHANGED <<dbVars, req, task, got, payAt, pollErrors, payVars, schedVars, fetchVars>>

\* The FAILED adjustment after a plugin error; the workflow then reports the
\* error whether or not the row was still there.
AddFailed(n) ==
    /\ pc["create"][n] = "failed"
    /\ WriteStatus("create", n, "FAILED", "taskErr")
    /\ UNCHANGED <<row, due, req, task, got, pspVars, payVars, schedVars, fetchVars>>

StoreSchedule(n) ==
    /\ pc["create"][n] = "storeSchedule"
    /\ schedRow' = schedRow \cup {n}
    /\ Goto("create", n, "createSchedule")
    /\ UNCHANGED <<dbVars, req, task, got, pspVars, payVars, schedLive, fetchVars>>

\* The task stays PROCESSING: the polling workflow will settle it.
CreateSchedule(n) ==
    /\ pc["create"][n] = "createSchedule"
    /\ schedLive' = schedLive \cup {n}
    /\ Goto("create", n, "closed")
    /\ UNCHANGED <<dbVars, req, task, got, pspVars, payVars, schedRow, fetchVars>>

-----------------------------------------------------------------------------
(* storePIPaymentWithStatus, shared by both workflows, and the task.       *)

StorePayment(k, n) ==
    /\ pc[k][n] = "store"
    /\ payments' = payments \cup {n}
    /\ Goto(k, n, "relate")
    /\ UNCHANGED <<dbVars, req, task, got, pspVars, related, schedVars, fetchVars>>

\* Fault: a payment found by polling is not related to the initiation.
BadRelatePayment(k, n) ==
    /\ pc[k][n] = "relate"
    /\ related' = IF Exists /\ k = "create" THEN related \cup {n} ELSE related
    /\ Goto(k, n, IF Exists THEN "status" ELSE "taskErr")
    /\ UNCHANGED <<dbVars, req, task, got, pspVars, payments, schedVars, fetchVars>>

RelatePayment(k, n) ==
    /\ pc[k][n] = "relate"
    /\ IF Exists THEN related' = related \cup {n} /\ Goto(k, n, "status")
                 ELSE UNCHANGED related /\ Goto(k, n, "taskErr")
    /\ UNCHANGED <<dbVars, req, task, got, pspVars, payments, schedVars, fetchVars>>

AddStatus(k, n) ==
    /\ pc[k][n] = "status"
    /\ WriteStatus(k, n, StatusFromPayment(got[k][n]),
                   IF k = "create" THEN "taskOk" ELSE "unschedule")
    /\ UNCHANGED <<row, due, req, task, got, pspVars, payVars, schedVars, fetchVars>>

\* updateTaskSuccess / updateTasksError.  The polling workflow is started
\* again by its schedule as long as that exists.
TaskEnd(k, n, label, status) ==
    /\ pc[k][n] = label
    /\ task' = [task EXCEPT ![n] = status]
    /\ Goto(k, n, IF k = "create" THEN "closed" ELSE "none")
    /\ UNCHANGED <<dbVars, req, got, pspVars, payVars, schedVars, fetchVars>>

UpdateTaskSuccess(k, n) == TaskEnd(k, n, "taskOk", "SUCCEEDED")

UpdateTasksError(k, n) == TaskEnd(k, n, "taskErr", "FAILED")

-----------------------------------------------------------------------------
(* The polling workflow: pollPayout / pollTransfer.                        *)

\* The schedule starts a run unless one is running (overlap policy SKIP).
TriggerPoll(n) ==
    /\ n \in schedLive
    /\ pc["poll"][n] = "none"
    /\ Goto("poll", n, "plugin")
    /\ UNCHANGED <<dbVars, req, task, got, pspVars, payVars, schedVars, fetchVars>>

\* Fault: the PSP's error is taken for "not yet known".
BadPollAnswer(n) ==
    /\ pc["poll"][n] = "plugin"
    /\ got' = [got EXCEPT !["poll"][n] = psp[n]]
    /\ Goto("poll", n, IF psp[n] \in {"ACCEPTED", "REFUSED"} THEN "none" ELSE "store")
    /\ UNCHANGED <<dbVars, req, task, pspVars, payVars, schedVars, fetchVars>>

\* PluginPollPayoutStatus: not yet known, a payment, or the PSP's error.
PollAnswer(n) ==
    /\ pc["poll"][n] = "plugin"
    /\ got' = [got EXCEPT !["poll"][n] = psp[n]]
    /\ Goto("poll", n, CASE psp[n] = "ACCEPTED" -> "none"
                         [] psp[n] = "REFUSED"  -> "unschedule"
                         [] OTHER               -> "store")
    /\ UNCHANGED <<dbVars, req, task, pspVars, payVars, schedVars, fetchVars>>

\* Fault: a failing poll also marks the initiation as FAILED, and the schedule
\* stays.
BadPollFails(n) ==
    /\ pc["poll"][n] = "plugin"
    /\ pollErrors[n] < MaxPollErrors
    /\ pollErrors' = [pollErrors EXCEPT ![n] = @ + 1]
    /\ WriteStatus("poll", n, "FAILED", "taskErr")
    /\ UNCHANGED <<row, due, req, task, got, psp, payAt, payVars, schedVars, fetchVars>>

\* The plugin call itself fails for good, or its payment is refused by
\* FromPSPPaymentToPayment: the task is told, the schedule stays.
PollFails(n) ==
    /\ pc["poll"][n] = "plugin"
    /\ pollErrors[n] < MaxPollErrors
    /\ pollErrors' = [pollErrors EXCEPT ![n] = @ + 1]
    /\ Goto("poll", n, "taskErr")
    /\ UNCHANGED <<dbVars, req, task, got, psp, payAt, payVars, schedVars, fetchVars>>

\* Faults: the stored schedule goes first, and the Temporal schedule is left.
BadDeleteOrder(n) ==
    /\ pc["poll"][n] = "unschedule"
    /\ schedRow' = schedRow \ {n}
    /\ Goto("poll", n, "deleteRow")
    /\ UNCHANGED <<dbVars, req, task, got, pspVars, payVars, schedLive, fetchVars>>

BadDeleteNothing(n) ==
    /\ pc["poll"][n] = "unschedule"
    /\ Goto("poll", n, "deleteRow")
    /\ UNCHANGED <<dbVars, req, task, got, pspVars, payVars, schedVars, fetchVars>>

DeleteTemporalSchedule(n) ==
    /\ pc["poll"][n] = "unschedule"
    /\ schedLive' = schedLive \ {n}
    /\ Goto("poll", n, "deleteRow")
    /\ UNCHANGED <<dbVars, req, task, got, pspVars, payVars, schedRow, fetchVars>>

\* The stored schedule goes; the run then settles the task by its answer.
DeleteScheduleRow(n) ==
    /\ pc["poll"][n] = "deleteRow"
    /\ schedRow' = schedRow \ {n}
    /\ Goto("poll", n, IF got["poll"][n] = "REFUSED" THEN "taskErr" ELSE "taskOk")
    /\ UNCHANGED <<dbVars, req, task, got, pspVars, payVars, schedLive, fetchVars>>

-----------------------------------------------------------------------------
(* Environment: time, the PSP, and the periodic payment fetch.             *)

TimePasses ==
    /\ due = "later"
    /\ due' = "now"
    /\ UNCHANGED <<row, adjs, now, req, task, wfVars, pspVars, payVars, schedVars, fetchVars>>

\* An accepted attempt becomes a payment or is refused.
PSPDecides(n, s) ==
    /\ psp[n] = "ACCEPTED"
    /\ s \in Outcomes \cup {"REFUSED"}
    /\ psp' = [psp EXCEPT ![n] = s]
    /\ payAt' = [payAt EXCEPT ![n] = now]
    /\ now' = now + 1
    /\ UNCHANGED <<row, due, adjs, req, task, wfVars, pollErrors, payVars, schedVars, fetchVars>>

\* A payment changes its status at the PSP.
PSPMoves(n, s) ==
    /\ <<psp[n], s>> \in Moves
    /\ psp' = [psp EXCEPT ![n] = s]
    /\ UNCHANGED <<dbVars, req, task, wfVars, payAt, pollErrors, payVars, schedVars, fetchVars>>

\* One page of fetchNextPayments holds the payment with a status not seen yet;
\* it is stored, and its update of the initiation is now due.
FetchPayment(n) ==
    /\ psp[n] \in FetchedStatuses
    /\ fetched[n] # psp[n]
    /\ n \notin applying
    /\ fetched' = [fetched EXCEPT ![n] = psp[n]]
    /\ payments' = payments \cup {n}
    /\ applying' = applying \cup {n}
    /\ UNCHANGED <<dbVars, req, task, wfVars, pspVars, related, schedVars>>

\* StoragePaymentInitiationUpdateFromPayment: the adjustment carries the
\* created_at of the PAYMENT, and is only added to an initiation that is
\* already related to it.
UpdateFromPayment(n) ==
    /\ n \in applying
    /\ applying' = applying \ {n}
    /\ adjs' = IF n \in related /\ StatusFromFetch(fetched[n]) # "NONE"
                 THEN Upsert(adjs, [status |-> StatusFromFetch(fetched[n]),
                                    at |-> payAt[n]])
                 ELSE adjs
    /\ UNCHANGED <<row, due, now, req, task, wfVars, pspVars, payVars, schedVars, fetched>>

-----------------------------------------------------------------------------
RequestStep(r) ==
    \/ \E sendToPSP \in BOOLEAN : Create(r, sendToPSP)
    \/ \E op \in Ops : CheckWaiting(r, op)
    \/ CheckRetry(r)
    \/ Reject(r) \/ Delete(r)
    \/ UpsertTask(r) \/ ExecuteWorkflow(r)

CreateStep(n) ==
    \/ GetPI(n) \/ AddScheduled(n) \/ Wake(n)
    \/ \E found \in BOOLEAN : GetAccounts(n, found)
    \/ AddProcessing(n)
    \/ \E s \in Outcomes : PluginPayment(n, s) \/ PluginInvalid(n, s)
    \/ \E period \in BOOLEAN : PluginPolling(n, period)
    \/ PluginNothing(n) \/ PluginError(n)
    \/ AddFailed(n) \/ StoreSchedule(n) \/ CreateSchedule(n)

SharedStep(k, n) ==
    \/ StorePayment(k, n) \/ RelatePayment(k, n) \/ AddStatus(k, n)
    \/ UpdateTaskSuccess(k, n) \/ UpdateTasksError(k, n)

PollStep(n) ==
    \/ TriggerPoll(n) \/ PollAnswer(n) \/ PollFails(n)
    \/ DeleteTemporalSchedule(n) \/ DeleteScheduleRow(n)

PSPStep(n) ==
    \/ \E s \in Outcomes \cup {"REFUSED"} : PSPDecides(n, s)
    \/ \E s \in PaymentStatuses : PSPMoves(n, s)

FetchStep(n) == FetchPayment(n) \/ UpdateFromPayment(n)

Next ==
    \/ \E r \in Requests : RequestStep(r)
    \/ \E n \in Attempts : \/ CreateStep(n) \/ PollStep(n)
                           \/ PSPStep(n) \/ FetchStep(n)
                           \/ \E k \in Kinds : SharedStep(k, n)
    \/ TimePasses

Spec == Init /\ [][Next]_vars

\* Temporal runs every workflow step eventually, fires live schedules, the
\* scheduled time comes, and the PSP decides what it accepted.  API requests
\* may be abandoned at any point (a client that disconnects, a pod that stops).
Fairness ==
    /\ WF_vars(TimePasses)
    /\ \A n \in Attempts :
        /\ WF_vars(CreateStep(n))
        /\ WF_vars(PollStep(n))
        /\ WF_vars(\E s \in Outcomes \cup {"REFUSED"} : PSPDecides(n, s))
        /\ \A k \in Kinds : WF_vars(SharedStep(k, n))

FairSpec == Spec /\ Fairness

-----------------------------------------------------------------------------
(* Properties.                                                             *)

Deciding == {"get", "schedule", "sleep", "accounts", "processing", "plugin",
             "store", "relate", "status", "failed", "storeSchedule",
             "createSchedule"}

\* The attempt was started and its outcome is not yet written.
Undecided(n) ==
    \/ pc["create"][n] \in Deciding
    \/ n \in schedLive /\ pc["poll"][n] # "unschedule"

\* The PSP has moved money for the attempt, or still may.
LivePayment(n) == psp[n] \notin FailedPayment \cup {"NONE", "REFUSED"}

\* Two attempts of one initiation are never in progress together.  Nothing
\* locks the initiation: this rests on the attempt number (the FAILED
\* adjustments counted by getAttemps, plus one) being part of the workflow
\* identifier, for every interleaving of approve and retry requests, the
\* workflows and the polls.
AttemptsExclusive ==
    \A n, m \in Attempts : Undecided(n) /\ Undecided(m) => n = m

\* At most one attempt has, or may still get, money moved by the PSP: a retry
\* only ever replaces an attempt that is over and lost.
AtMostOnePayment ==
    \A n, m \in Attempts : LivePayment(n) /\ LivePayment(m) => n = m

\* The two conditions under which the two properties above hold.  The payment
\* fetch adds no FAILED adjustment of its own ...
FetchHidesFailures == \A s \in FetchedStatuses : StatusFromFetch(s) # "FAILED"

\* ... and a payment that failed stays failed.
FailureFinal == \A m \in Moves : m[1] \in FailedPayment => m[2] \in FailedPayment

Started(n) == pc["create"][n] # "none"

\* The attempt is over and no money moved.
Lost(n) == Started(n) /\ ~Undecided(n) /\ ~LivePayment(n)

\* Where the workflows of an attempt are, against the schedule and the PSP.
Control(n) ==
    /\ n \in schedLive => pc["create"][n] = "closed"
    /\ pc["poll"][n] \in {"plugin", "store", "relate", "status", "unschedule"}
         => n \in schedLive
    /\ pc["create"][n] = "none" => psp[n] = "NONE"
    /\ pc["create"][n] = "failed" => psp[n] = "REFUSED"
    /\ \A k \in Kinds :
         pc[k][n] \in {"store", "relate", "status"} /\ got[k][n] \in FailedPayment
            => psp[n] \in FailedPayment
    /\ fetched[n] \in FetchedStatuses \cup {"NONE"}

\* Attempts are started in order, each after all earlier ones are lost.
StartedInOrder ==
    \A n, j \in Attempts : Started(n) /\ j < n => Lost(j)

\* There are fewer FAILED adjustments than the number of the first attempt
\* that is not lost.
FailuresCounted == \A n \in Attempts : ~Lost(n) => NumFailed(adjs) < n

\* What a request in progress will start is not beyond that attempt either.
RequestsBounded ==
    \A r \in Requests : req[r].pc \in {"checked", "start"} =>
        /\ req[r].attempt \in Attempts
        /\ \A n \in Attempts : ~Lost(n) => req[r].attempt <= n

\* The inductive invariant behind AttemptsExclusive and AtMostOnePayment: the
\* attempt number carried by a request, however stale, never passes the first
\* attempt that is still open.
AttemptInv ==
    /\ \A n \in Attempts : Control(n)
    /\ StartedInOrder
    /\ FailuresCounted
    /\ RequestsBounded

\* A polling schedule that exists in Temporal is in the schedules table, which
\* is what uninstalling the connector enumerates to stop them.
LiveScheduleRecorded == schedLive \subseteq schedRow

DeleteDone == \E r \in Requests : req[r].op = "delete" /\ req[r].pc = "done"

\* A task that reports success stands for a payment that is stored and related
\* to the initiation, unless the initiation was deleted meanwhile.
SuccessIsRelated ==
    \A n \in Attempts :
        task[n] = "SUCCEEDED" => n \in payments /\ (n \in related \/ DeleteDone)

\* No step turns a succeeded task into a failed one: once a poll has succeeded
\* its schedule can start no further poll that might fail.
SuccessNeverFails ==
    [][\A n \in Attempts : task[n] = "SUCCEEDED" => task'[n] # "FAILED"]_vars

\* An attempt in progress comes to a decision, unless the initiation it would
\* be written to is deleted.
AttemptDecided ==
    \A n \in Attempts : Undecided(n) ~> (~Undecided(n) \/ ~Exists)
=============================================================================
