---------------------------- MODULE PaymentFetch ----------------------------
(***************************************************************************)
(* The periodic fetch of payments: the workflow (fetchNextPayments), the   *)
(* saved fetch state, and two plugins with different ways of paging.       *)
(*                                                                         *)
(*   "generic"  asks for records updated since a date, sorted by that      *)
(*              date, page by page, and remembers the date of the last     *)
(*              record it returned;                                        *)
(*   "stripe"   lists newest first: it looks for the oldest transaction    *)
(*              once, then asks for what is newer than the last one.       *)
(*                                                                         *)
(* One fetch workflow runs at a time (SCHEDULE_OVERLAP_POLICY_BUFFER_ONE). *)
(* The PSP goes on changing between any two requests.  A plugin call can   *)
(* fail and start again; a storing activity can time out, be repeated, and *)
(* take effect late.                                                       *)
(***************************************************************************)
EXTENDS Payments

CONSTANTS Plugins,          \* the plugins considered
          PageSize,
          Second,           \* clock ticks per second
          ChildStatuses,    \* reports a PSP makes about an earlier payment
          History,          \* payments of the PSP before the connector
          MaxTransactions,  \* bound on the records of the PSP
          MaxErrors         \* bound on errors and timeouts

ASSUME FetchAssumption ==
    /\ Plugins \subseteq {"generic", "stripe"}
    /\ PageSize \in Nat /\ PageSize >= 2
    /\ Second \in Nat \ {0}
    /\ ChildStatuses \subseteq ReportStatuses \ {"PENDING"}
    /\ History \in Nat /\ MaxTransactions \in Nat /\ MaxErrors \in Nat
    /\ History <= MaxTransactions

VARIABLES
    plugin,     \* the plugin of the connector
    psp,        \* its records, in the order of their creation
    clock,
    state,      \* the saved fetch state
    tables,     \* payments and payment_adjustments
    wf,         \* the fetch workflow
    late,       \* batches of storing activities that timed out
    errors,     \* errors and timeouts so far
    disturbed   \* history: a tie, or a change between two pages of one call

vars == <<plugin, psp, clock, state, tables, wf, late, errors, disturbed>>

\* generic: the date of the last record returned; stripe: LatestID and
\* BacklogCursor, 0 for the empty string.
StartState == [from |-> 0, latest |-> 0, backlog |-> 0]

\* old: state given to the plugin; work: the state the plugin is building;
\* acc: records collected; page: next page; batch, more: the answer.
Idle == [pc |-> "idle", old |-> StartState, work |-> StartState, acc |-> <<>>,
         page |-> 1, batch |-> <<>>, more |-> FALSE]

Report(i) ==
    [ref |-> i, root |-> psp[i].root, created |-> psp[i].created,
     status |-> psp[i].status, amount |-> psp[i].amount]

\* What the plugin translates a list of records to.
Reports(refs) == [k \in DOMAIN refs |-> Report(refs[k])]

\* Every variable holds a value of its type.
TypeOK ==
    /\ plugin \in Plugins
    /\ \A i \in DOMAIN psp : psp[i].root \in 1..i /\ psp[i].status \in ReportStatuses
    /\ Len(psp) <= MaxTransactions
    /\ clock \in Nat
    /\ state \in [from : 0..clock, latest : 0..Len(psp), backlog : 0..Len(psp)]
    /\ wf.pc \in {"idle", "start", "fetch", "list", "store", "save"}
    /\ Len(wf.batch) <= PageSize
    /\ errors \in 0..MaxErrors
    /\ disturbed \in BOOLEAN

Init ==
    /\ plugin \in Plugins
    /\ psp = [i \in 1..History |-> [root |-> i, status |-> "SUCCEEDED", amount |-> 2,
                                    created |-> i, updated |-> i]]
    /\ clock = History
    /\ state = StartState
    /\ tables = NoPayments
    /\ wf = Idle /\ late = {} /\ errors = 0
    /\ disturbed = FALSE

-----------------------------------------------------------------------------
(* The PSP.  A report about an earlier payment needs that payment settled. *)
(* Only requests of a plugin call read the PSP's records, so its changes   *)
(* are placed before such a request; at any other time they would commute  *)
(* with the workflow's steps.                                              *)

Observed == wf.pc \in {"fetch", "list"}

\* Time passes, or two records change at one instant.
Tick(n) ==
    /\ n \in IF clock > 0 THEN {0, 1} ELSE {1}
    /\ clock' = clock + n

\* A new record at the current time.
NewTransaction(root, status, amount) ==
    /\ Observed /\ Len(psp) < MaxTransactions
    /\ \E n \in {0, 1} :
         /\ Tick(n)
         /\ psp' = Append(psp, [root |-> root, status |-> status, amount |-> amount,
                                created |-> clock + n, updated |-> clock + n])
         /\ disturbed' = (disturbed \/ n = 0)
    /\ UNCHANGED <<plugin, state, tables, wf, late, errors>>

\* Only the generic plugin reports a payment before it is settled.
NewPayment ==
    \E s \in {"SUCCEEDED", "AUTHORISATION"}
               \cup IF plugin = "generic" THEN {"PENDING"} ELSE {} :
        NewTransaction(Len(psp) + 1, s, 2)

NewRelatedReport ==
    \E p \in DOMAIN psp :
        /\ psp[p].root = p
        /\ \/ /\ psp[p].status = "SUCCEEDED"
              /\ \E s \in ChildStatuses : NewTransaction(p, s, 1)
           \/ /\ psp[p].status = "AUTHORISATION"
              /\ NewTransaction(p, "CAPTURE", 1)

\* A pending record is settled; it moves to the end of a list by update date.
SettleTransaction(i) ==
    /\ Observed /\ psp[i].status = "PENDING"
    /\ \E n \in {0, 1} :
         /\ Tick(n)
         /\ psp' = [psp EXCEPT ![i].status = "SUCCEEDED", ![i].updated = clock + n]
         /\ disturbed' = (disturbed \/ n = 0 \/ wf.page > 1)
    /\ UNCHANGED <<plugin, state, tables, wf, late, errors>>

-----------------------------------------------------------------------------
(* The workflow.                                                           *)

\* The schedule starts the workflow.
TriggerFetch ==
    /\ wf.pc = "idle"
    /\ wf' = [Idle EXCEPT !.pc = "start"]
    /\ UNCHANGED <<plugin, psp, clock, state, tables, late, errors, disturbed>>

\* A call of PluginFetchNextPayments with state s.
PluginCall(s) == [Idle EXCEPT !.pc = "fetch", !.old = s, !.work = s]

\* StorageStatesGet.
StatesGet ==
    /\ wf.pc = "start"
    /\ wf' = PluginCall(state)
    /\ UNCHANGED <<plugin, psp, clock, state, tables, late, errors, disturbed>>

\* The plugin returns: the workflow goes on to store the payments.
Answer(reports, newState, hasMore) ==
    wf' = [wf EXCEPT !.pc = "store", !.batch = reports, !.work = newState,
                     !.more = hasMore, !.acc = <<>>, !.page = 1]

\* A plugin call fails: Temporal repeats it, or the workflow ends with the error.
PluginError ==
    /\ wf.pc \in {"fetch", "list"}
    /\ errors < MaxErrors
    /\ errors' = errors + 1
    /\ wf' \in {PluginCall(wf.old), Idle}
    /\ UNCHANGED <<plugin, psp, clock, state, tables, late, disturbed>>

-----------------------------------------------------------------------------
(* The generic plugin.                                                     *)

\* The request gives the date in whole seconds.
FormatDate(t) == t - (t % Second)

\* Whether the PSP lists record i before record j, or i is j.
NotAfter(i, j) == \/ psp[i].updated < psp[j].updated
                  \/ psp[i].updated = psp[j].updated /\ i <= j

\* External: the records updated since a date, sort=updatedAt:asc.  The place of
\* a record in the list is the number of records up to it.
UpdatedSince(date) == {i \in DOMAIN psp : psp[i].updated >= date}
Place(date, i) == Cardinality({j \in UpdatedSince(date) : NotAfter(j, i)})
TransactionsSince(date) ==
    [k \in 1..Cardinality(UpdatedSince(date)) |->
        CHOOSE i \in UpdatedSince(date) : Place(date, i) = k]

ListTransactions(page, date) ==
    LET all == TransactionsSince(date)
        to  == page * PageSize
    IN  SubSeq(all, (page - 1) * PageSize + 1, IF to <= Len(all) THEN to ELSE Len(all))

\* pagination.ShouldFetchMore
NeedMore(total) == Len(total) < PageSize
HasMore(total, current) == Len(total) > PageSize \/ Len(current) >= PageSize

\* fillPayments: what is not newer than the saved date is skipped.
FillPayments(current) ==
    LET newer == Entries(current, {k \in DOMAIN current : psp[current[k]].updated > wf.old.from})
    IN  wf.acc \o [k \in DOMAIN newer |-> [report |-> Report(newer[k]),
                                           at |-> psp[newer[k]].updated]]

\* Fault: the new state is the date of the last record listed, not of the last
\* one returned.
BadGenericAnswer(total, hasMore) ==
    LET n == IF NeedMore(total) THEN Len(total) ELSE PageSize
    IN  Answer([k \in 1..n |-> total[k].report],
               [wf.old EXCEPT !.from = IF n > 0 THEN total[Len(total)].at ELSE @],
               hasMore)

\* The end of fetchNextPayments of the generic plugin: what exceeds the page is
\* dropped and asked for again from the date of the last one kept.
GenericAnswer(total, hasMore) ==
    LET n == IF NeedMore(total) THEN Len(total) ELSE PageSize
    IN  Answer([k \in 1..n |-> total[k].report],
               [wf.old EXCEPT !.from = IF n > 0 THEN total[n].at ELSE @],
               hasMore)

\* One page of fetchNextPayments of the generic plugin.
GenericPage ==
    /\ plugin = "generic" /\ wf.pc = "fetch"
    /\ \E current \in {ListTransactions(wf.page, FormatDate(wf.old.from))} :
       \E total \in {FillPayments(current)} :
           IF NeedMore(total) /\ HasMore(total, current)
           THEN wf' = [wf EXCEPT !.acc = total, !.page = @ + 1]
           ELSE GenericAnswer(total, HasMore(total, current))
    /\ UNCHANGED <<plugin, psp, clock, state, tables, late, errors, disturbed>>

-----------------------------------------------------------------------------
(* The Stripe plugin.                                                      *)

\* External: up to n records, newest first, starting after (older than) the
\* given one; 0 starts at the newest.
StartingAfter(cursor, n) ==
    LET top == IF cursor = 0 THEN Len(psp) ELSE cursor - 1
    IN  [k \in 1..(IF n <= top THEN n ELSE top) |-> top - k + 1]

\* External: the n records that are next newer than the given one, newest first.
EndingBefore(cursor, n) ==
    LET m == Len(psp) - cursor
        k == IF n <= m THEN n ELSE m
    IN  [j \in 1..k |-> cursor + k - j + 1]

\* scanForOldest: the last of a page is the oldest record, or the cursor of the
\* next page.
ScanForOldest ==
    /\ plugin = "stripe" /\ wf.pc = "fetch" /\ wf.work.latest = 0
    /\ LET listed == StartingAfter(wf.work.backlog, PageSize)
           oldest == listed[Len(listed)]
       IN  \/ /\ listed = <<>>
              /\ Answer(<<>>, wf.work, FALSE)
           \/ /\ listed # <<>> /\ oldest > 1
              /\ wf' = [wf EXCEPT !.work.backlog = oldest]
           \/ /\ listed # <<>> /\ oldest = 1
              /\ wf' = [wf EXCEPT !.work.latest = oldest, !.pc = "list",
                                  !.acc = <<[report |-> Report(oldest), at |-> 0]>>]
    /\ UNCHANGED <<plugin, psp, clock, state, tables, late, errors, disturbed>>

\* The timer of GetPayments: the cursor, or the oldest record, is saved before the
\* activity times out.
ScanTimer ==
    /\ plugin = "stripe" /\ wf.pc \in {"fetch", "list"}
    /\ wf.work # wf.old
    /\ Answer([k \in DOMAIN wf.acc |-> wf.acc[k].report], wf.work, TRUE)
    /\ UNCHANGED <<plugin, psp, clock, state, tables, late, errors, disturbed>>

\* Fault: the page is not turned around before its last record is remembered.
BadTimelineAnswer(acc, newer, hasMore) ==
    LET all == acc \o Reports(newer)
    IN  Answer(all, [wf.work EXCEPT !.latest = IF all = <<>> THEN @
                                               ELSE all[Len(all)].ref], hasMore)

\* The end of GetPayments: oldest first, and the newest is remembered.
TimelineAnswer(acc, newer, hasMore) ==
    LET all == acc \o Reports(Reverse(newer))
    IN  Answer(all, [wf.work EXCEPT !.latest = IF all = <<>> THEN @
                                               ELSE all[Len(all)].ref], hasMore)

\* Fault: the oldest record is not counted into the page.
BadListRecent ==
    /\ plugin = "stripe" /\ wf.pc \in {"fetch", "list"} /\ wf.work.latest # 0
    /\ LET newer == EndingBefore(wf.work.latest, PageSize)
       IN  TimelineAnswer([k \in DOMAIN wf.acc |-> wf.acc[k].report], newer,
                          wf.work.latest + Len(newer) < Len(psp))
    /\ UNCHANGED <<plugin, psp, clock, state, tables, late, errors, disturbed>>

\* GetPayments once the timeline has caught up.
ListRecent ==
    /\ plugin = "stripe" /\ wf.pc \in {"fetch", "list"} /\ wf.work.latest # 0
    /\ LET n     == PageSize - Len(wf.acc)
           newer == EndingBefore(wf.work.latest, n)
       IN  TimelineAnswer([k \in DOMAIN wf.acc |-> wf.acc[k].report], newer,
                          wf.work.latest + Len(newer) < Len(psp))
    /\ UNCHANGED <<plugin, psp, clock, state, tables, late, errors, disturbed>>

-----------------------------------------------------------------------------
(* Storing the page, then the state.                                       *)

\* StoragePaymentsStore; nothing to store for an empty page.
StorePayments ==
    /\ wf.pc = "store"
    /\ tables' = IF wf.batch = <<>> THEN tables ELSE PaymentsUpsert(tables, wf.batch)
    /\ wf' = [wf EXCEPT !.pc = "save"]
    /\ UNCHANGED <<plugin, psp, clock, state, late, errors, disturbed>>

\* The storing activity times out: it is repeated, and the first execution may
\* still reach the database.
StoreTimeout ==
    /\ wf.pc = "store" /\ wf.batch # <<>>
    /\ errors < MaxErrors
    /\ errors' = errors + 1
    /\ late' = late \cup {wf.batch}
    /\ UNCHANGED <<plugin, psp, clock, state, tables, wf, disturbed>>

LateStore(b) ==
    /\ tables' = PaymentsUpsert(tables, b)
    /\ late' = late \ {b}
    /\ UNCHANGED <<plugin, psp, clock, state, wf, errors, disturbed>>

\* Updating the initiations or starting the next tasks fails after the payments
\* were stored: the workflow ends without saving the state.
NextTasksFail ==
    /\ wf.pc = "save" /\ wf.batch # <<>>
    /\ errors < MaxErrors
    /\ errors' = errors + 1
    /\ wf' = Idle
    /\ UNCHANGED <<plugin, psp, clock, state, tables, late, disturbed>>

\* Fault: the state that was read is saved, not the one the plugin returned.
BadStatesStore ==
    /\ wf.pc = "save"
    /\ state' = wf.old
    /\ \/ wf' = IF wf.more THEN PluginCall(wf.work) ELSE Idle
       \/ wf' = [Idle EXCEPT !.pc = "start"]
    /\ UNCHANGED <<plugin, psp, clock, tables, late, errors, disturbed>>

\* StorageStatesStore; then the next page, the end, or a new run of the workflow
\* that begins by reading the state (NewContinueAsNewError).
StatesStore ==
    /\ wf.pc = "save"
    /\ state' = wf.work
    /\ \/ wf' = IF wf.more THEN PluginCall(wf.work) ELSE Idle
       \/ wf' = [Idle EXCEPT !.pc = "start"]
    /\ UNCHANGED <<plugin, psp, clock, tables, late, errors, disturbed>>

Next ==
    \/ NewPayment
    \/ NewRelatedReport
    \/ \E i \in DOMAIN psp : SettleTransaction(i)
    \/ TriggerFetch
    \/ StatesGet
    \/ PluginError
    \/ GenericPage
    \/ ScanForOldest
    \/ ScanTimer
    \/ ListRecent
    \/ StorePayments
    \/ StoreTimeout
    \/ \E b \in late : LateStore(b)
    \/ NextTasksFail
    \/ StatesStore

Spec == Init /\ [][Next]_vars

\* The schedule fires again and Temporal drives the workflow.
Fairness ==
    WF_vars(TriggerFetch \/ StatesGet \/ GenericPage \/ ScanForOldest \/ ListRecent
              \/ StorePayments \/ StatesStore)

FairSpec == Spec /\ Fairness

-----------------------------------------------------------------------------
(* Properties.                                                             *)

\* The current report of record i is stored.
Ingested(i) ==
    \E k \in DOMAIN tables.adjs : AdjustmentID(tables.adjs[k]) = AdjustmentID(Report(i))

\* The saved state is past record i.
Behind(i) == IF plugin = "generic" THEN psp[i].updated <= state.from
                                   ELSE i <= state.latest

\* Repeated pages, repeated and late storing activities move no amount twice:
\* every payment's amount is what the reports stored for it amount to
\* (PaymentsUpsert applies deltas of inserted adjustments only).
AmountsNet == AmountsNetOf(tables)

\* The saved state never runs ahead of what is stored: whatever fails between
\* two steps, a record the next fetch will not ask for is stored, unless the
\* PSP changed records at one instant or while a call was between two pages.
NothingSkippedUnlessDisturbed ==
    ~disturbed => \A i \in DOMAIN psp : Behind(i) => Ingested(i)

\* Records arrive in chronological order: the payment a refund or capture
\* belongs to is stored before it, so that its row starts with the payment's own
\* amount (timeline.go: "we can only import them in chronological order").
PaymentBeforeItsReports ==
    ~disturbed =>
        \A k \in DOMAIN tables.adjs :
            \E j \in 1..k : tables.adjs[j].ref = tables.adjs[k].root

\* Once all records of a payment are stored, the status that PaymentsGet derives
\* from the adjustments is that of the PSP's newest record, although all reports
\* of one record carry its creation date and a late store brings old reports
\* (payment_adjustments is ordered by created_at, then by insertion).
StatusIsCurrent ==
    ~disturbed =>
        \A p \in DOMAIN tables.rows :
            LET Mine == {i \in DOMAIN psp : psp[i].root = p}
                last == CHOOSE i \in Mine : \A j \in Mine : j <= i
            IN  (\A i \in Mine : Ingested(i)) =>
                    PaymentStatus(tables, p) = psp[last].status

\* The bound on records makes the PSP quiet from some point on; then every record
\* is stored in the end, whatever failed, or was lost to the cursor as in
\* NothingSkippedUnlessDisturbed.
EventuallyIngested ==
    <>[](\A i \in DOMAIN psp : Ingested(i) \/ (Behind(i) /\ disturbed))
=============================================================================
