------------------------------- MODULE Outbox -------------------------------
(***************************************************************************)
(* The transactional outbox.  An entity's transaction inserts its event in *)
(* outbox_events; a scheduled activity (OutboxPublishPendingEvents) reads  *)
(* a batch of pending rows, publishes them one by one, and at the end      *)
(* marks the published ones in one transaction that also records them in   *)
(* events_sent; another scheduled activity deletes old processed rows.     *)
(*                                                                         *)
(* The publisher takes no lock on the rows it read.  Its schedule skips a  *)
(* run while one is running, and the activity has no retry, but once the   *)
(* activity timed out the next run starts while the call the old one had   *)
(* in flight may still take effect.                                        *)
(*                                                                         *)
(* One connector may be uninstalled: its rows go by the cascade of the     *)
(* foreign keys.  Its identifier is never used again.                      *)
(***************************************************************************)
EXTENDS Integers, FiniteSets

CONSTANTS Events,           \* identifiers (idempotency keys) of events
          ConnectorEvents,  \* those that belong to the connector
          Publishers,       \* executions of the publishing activity
          BatchSize,        \* PUBLISH_EVENT_BATCH_SIZE
          MaxRetries,       \* MaxOutboxRetries
          MaxFailures,      \* bound on the failing publications per event
          MaxAborts         \* bound on timeouts and crashes of publishers

ASSUME OutboxAssumption ==
    /\ ConnectorEvents \subseteq Events
    /\ BatchSize \in Nat \ {0}
    /\ MaxRetries \in Nat \ {0}
    /\ MaxFailures \in Nat
    /\ MaxAborts \in Nat

VARIABLES
    row,        \* status of the event's row in outbox_events
    retries,    \* its retry_count
    createdAt,  \* its created_at; 0 when the event was never inserted
    clock,
    sent,       \* events_sent
    connector,  \* "installed" or "removed"
    pub,        \* the executions of OutboxPublishPendingEvents
    delivered,  \* events the broker received at least once
    failures,   \* failing publications per event (history)
    hard,       \* events whose publication failed for good once (history)
    aborts      \* timeouts and crashes so far

tableVars == <<row, retries, createdAt, clock, sent, connector>>
brokerVars == <<delivered, failures, hard>>
vars == <<tableVars, pub, brokerVars, aborts>>

Errors == {"none", "retryable", "nonRetryable"}

\* todo: events of the batch not handled yet, with the retry count read;
\* ok: published ones; cur, err: the event that failed and how;
\* mode: "late" once the activity timed out: only the call in flight remains.
Execution ==
    [pc : {"idle", "loop", "markFailed"}, todo : SUBSET Events,
     seen : [Events -> Nat], ok : SUBSET Events,
     cur : SUBSET Events, err : Errors, mode : {"current", "late"}]

Idle == [pc |-> "idle", todo |-> {}, seen |-> [e \in Events |-> 0],
         ok |-> {}, cur |-> {}, err |-> "none", mode |-> "current"]

\* Every variable holds a value of its type.
TypeOK ==
    /\ row \in [Events -> {"absent", "pending", "failed", "processed"}]
    /\ retries \in [Events -> Nat]
    /\ createdAt \in [Events -> Nat]
    /\ clock \in Nat
    /\ sent \in SUBSET Events
    /\ connector \in {"installed", "removed"}
    /\ pub \in [Publishers -> Execution]
    /\ delivered \in SUBSET Events
    /\ failures \in [Events -> Nat]
    /\ hard \in SUBSET Events
    /\ aborts \in Nat

Init ==
    /\ row = [e \in Events |-> "absent"]
    /\ retries = [e \in Events |-> 0]
    /\ createdAt = [e \in Events |-> 0]
    /\ clock = 0
    /\ sent = {} /\ delivered = {} /\ hard = {}
    /\ connector = "installed"
    /\ pub = [p \in Publishers |-> Idle]
    /\ failures = [e \in Events |-> 0]
    /\ aborts = 0

-----------------------------------------------------------------------------
\* OutboxEventsInsert, in the transaction of the entity: nothing for an event
\* in events_sent, ON CONFLICT DO NOTHING for a row that exists; the foreign
\* key refuses the events of a connector that is gone.
OutboxEventsInsert(e) ==
    /\ e \notin sent
    /\ row[e] = "absent"
    /\ e \in ConnectorEvents => connector = "installed"
    /\ row' = [row EXCEPT ![e] = "pending"]
    /\ retries' = [retries EXCEPT ![e] = 0]
    /\ clock' = clock + 1
    /\ createdAt' = [createdAt EXCEPT ![e] = clock + 1]
    /\ UNCHANGED <<sent, connector, pub, brokerVars, aborts>>

\* Deleting the connector's row cascades to outbox_events and events_sent.
ConnectorUninstall ==
    /\ connector = "installed"
    /\ connector' = "removed"
    /\ row' = [e \in Events |-> IF e \in ConnectorEvents THEN "absent" ELSE row[e]]
    /\ sent' = sent \ ConnectorEvents
    /\ UNCHANGED <<retries, createdAt, clock, pub, brokerVars, aborts>>

\* Fault: the clean-up does not look at the status.
BadDeleteOld(e) ==
    /\ row[e] # "absent"
    /\ row' = [row EXCEPT ![e] = "absent"]
    /\ UNCHANGED <<retries, createdAt, clock, sent, connector, pub, brokerVars, aborts>>

\* OutboxEventsDeleteOldProcessed.  How old is left open.
OutboxEventsDeleteOldProcessed(e) ==
    /\ row[e] = "processed"
    /\ row' = [row EXCEPT ![e] = "absent"]
    /\ UNCHANGED <<retries, createdAt, clock, sent, connector, pub, brokerVars, aborts>>

-----------------------------------------------------------------------------
(* The publishing activity.                                                *)

Pending == {e \in Events : row[e] = "pending"}

\* The oldest pending events, at most BatchSize of them.
Batch(B) ==
    /\ B \subseteq Pending
    /\ Cardinality(B) <= BatchSize
    /\ B # Pending => Cardinality(B) = BatchSize
    /\ \A e \in B, f \in Pending \ B : createdAt[e] <= createdAt[f]

\* A late execution stops after its call in flight.
Continue(p, x) == pub' = [pub EXCEPT ![p] = IF pub[p].mode = "late" THEN Idle ELSE x]

\* The schedule starts a run unless one is running; the activity polls.
OutboxEventsPollPending(p) ==
    /\ pub[p].pc = "idle"
    /\ \A q \in Publishers : pub[q].pc = "idle" \/ pub[q].mode = "late"
    /\ \E B \in SUBSET Events :
         /\ B # {}
         /\ Batch(B)
         /\ pub' = [pub EXCEPT ![p] = [Idle EXCEPT !.pc = "loop", !.todo = B,
                                                   !.seen = retries]]
    /\ UNCHANGED <<tableVars, brokerVars, aborts>>

\* The loop takes the events in created_at order.
IsNext(p, e) ==
    /\ pub[p].pc = "loop"
    /\ e \in pub[p].todo
    /\ \A f \in pub[p].todo : createdAt[e] <= createdAt[f]

\* processOutboxEvent succeeds.
PublishOk(p, e) ==
    /\ IsNext(p, e)
    /\ delivered' = delivered \cup {e}
    /\ Continue(p, [pub[p] EXCEPT !.todo = @ \ {e}, !.ok = @ \cup {e}])
    /\ UNCHANGED <<tableVars, failures, hard, aborts>>

\* Fault: the loop goes on as after a success (no "continue").
BadPublishError(p, e, err, reached) ==
    /\ IsNext(p, e)
    /\ failures[e] < MaxFailures
    /\ failures' = [failures EXCEPT ![e] = @ + 1]
    /\ Continue(p, [pub[p] EXCEPT !.todo = @ \ {e}, !.ok = @ \cup {e}])
    /\ UNCHANGED <<tableVars, delivered, hard, aborts>>

\* processOutboxEvent fails; the broker may have received the event.
PublishError(p, e, err, reached) ==
    /\ IsNext(p, e)
    /\ failures[e] < MaxFailures
    /\ failures' = [failures EXCEPT ![e] = @ + 1]
    /\ hard' = IF err = "nonRetryable" THEN hard \cup {e} ELSE hard
    /\ delivered' = IF reached THEN delivered \cup {e} ELSE delivered
    /\ Continue(p, [pub[p] EXCEPT !.pc = "markFailed", !.todo = @ \ {e},
                                  !.cur = {e}, !.err = err])
    /\ UNCHANGED <<tableVars, aborts>>

\* Faults: one retry too few, and a status the table does not know.
BadRetryCount(retryCount, err) ==
    IF retryCount + 1 >= MaxRetries \/ err = "nonRetryable" THEN "failed" ELSE "pending"

BadFailedStatus(retryCount, err) ==
    IF retryCount >= MaxRetries THEN "exhausted" ELSE "pending"

\* The new status: FAILED when the retries are used up or will not help.
FailedStatus(retryCount, err) ==
    IF retryCount >= MaxRetries \/ err = "nonRetryable" THEN "failed" ELSE "pending"

\* OutboxEventsMarkFailed: an unconditional update of the row, if it exists,
\* with the retry count that was READ plus one.
OutboxEventsMarkFailed(p, e) ==
    /\ pub[p].pc = "markFailed"
    /\ e \in pub[p].cur
    /\ LET n == pub[p].seen[e] + 1 IN
       IF row[e] = "absent" THEN UNCHANGED <<row, retries>>
       ELSE /\ row' = [row EXCEPT ![e] = FailedStatus(n, pub[p].err)]
            /\ retries' = [retries EXCEPT ![e] = n]
    /\ Continue(p, [pub[p] EXCEPT !.pc = "loop", !.cur = {}, !.err = "none"])
    /\ UNCHANGED <<createdAt, clock, sent, connector, brokerVars, aborts>>

\* Faults: the update has no "id IN", and there is no update at all.
BadMarkAll(p) ==
    /\ pub[p].pc = "loop" /\ pub[p].todo = {}
    /\ row' = [e \in Events |-> IF row[e] # "absent" THEN "processed" ELSE "absent"]
    /\ sent' = sent \cup pub[p].ok
    /\ pub' = [pub EXCEPT ![p] = Idle]
    /\ UNCHANGED <<retries, createdAt, clock, connector, brokerVars, aborts>>

BadMarkNone(p) ==
    /\ pub[p].pc = "loop" /\ pub[p].todo = {}
    /\ sent' = sent \cup pub[p].ok
    /\ pub' = [pub EXCEPT ![p] = Idle]
    /\ UNCHANGED <<row, retries, createdAt, clock, connector, brokerVars, aborts>>

\* OutboxEventsMarkProcessedAndRecordSent: one transaction over the whole
\* batch.  One event of a connector that is gone makes the insert in
\* events_sent, and with it everything, fail.
OutboxEventsMarkProcessedAndRecordSent(p) ==
    LET ok == pub[p].ok IN
    /\ pub[p].pc = "loop" /\ pub[p].todo = {}
    /\ IF ok \cap ConnectorEvents # {} /\ connector = "removed"
         THEN UNCHANGED <<row, sent>>
         ELSE /\ row' = [e \in Events |-> IF e \in ok /\ row[e] # "absent"
                                            THEN "processed" ELSE row[e]]
              /\ sent' = sent \cup ok
    /\ pub' = [pub EXCEPT ![p] = Idle]
    /\ UNCHANGED <<retries, createdAt, clock, connector, brokerVars, aborts>>

\* The one minute timeout: Temporal gives the activity up, the goroutine still
\* has one call in flight.
Timeout(p) ==
    /\ pub[p].pc # "idle" /\ pub[p].mode = "current"
    /\ aborts < MaxAborts
    /\ aborts' = aborts + 1
    /\ pub' = [pub EXCEPT ![p].mode = "late"]
    /\ UNCHANGED <<tableVars, brokerVars>>

\* The worker stops, or a database call fails: what the execution knew is lost.
Abort(p) ==
    /\ pub[p].pc # "idle"
    /\ pub[p].mode = "late" \/ aborts < MaxAborts
    /\ aborts' = IF pub[p].mode = "late" THEN aborts ELSE aborts + 1
    /\ pub' = [pub EXCEPT ![p] = Idle]
    /\ UNCHANGED <<tableVars, brokerVars>>

-----------------------------------------------------------------------------
PublisherStep(p) ==
    \/ OutboxEventsPollPending(p)
    \/ \E e \in Events :
         \/ PublishOk(p, e)
         \/ \E err \in Errors \ {"none"}, reached \in BOOLEAN :
              PublishError(p, e, err, reached)
         \/ OutboxEventsMarkFailed(p, e)
    \/ OutboxEventsMarkProcessedAndRecordSent(p)

Next ==
    \/ \E e \in Events : OutboxEventsInsert(e) \/ OutboxEventsDeleteOldProcessed(e)
    \/ ConnectorUninstall
    \/ \E p \in Publishers : PublisherStep(p) \/ Timeout(p) \/ Abort(p)

Spec == Init /\ [][Next]_vars

\* Temporal keeps starting the scheduled activity, and an activity that is
\* neither timed out nor stopped goes on; the bounds say that failures,
\* timeouts and crashes come to an end.
Fairness == WF_vars(\E p \in Publishers : PublisherStep(p))

FairSpec == Spec /\ Fairness

-----------------------------------------------------------------------------
(* Properties.                                                             *)

\* An event that is recorded as sent, and a row that is marked processed, was
\* received by the broker, whatever timeouts, crashes and late calls do.
SentWasDelivered ==
    /\ sent \subseteq delivered
    /\ \A e \in Events : row[e] = "processed" => e \in sent

\* An event that was accepted is not forgotten: when it has no row any more,
\* it was delivered, or its connector was uninstalled.
NothingLost ==
    \A e \in Events : createdAt[e] > 0 /\ row[e] = "absent" =>
        e \in delivered \/ (e \in ConnectorEvents /\ connector = "removed")

\* An event is given up only after MaxRetries failing publications, or one
\* that cannot be repeated: a stale retry count never counts one twice.
FailedAfterRetries ==
    \A e \in Events :
        row[e] = "failed" => e \in hard \/ failures[e] >= MaxRetries

\* What the executions hold agrees with the tables: they published what they
\* believe to be published, and know of no failure that did not happen.
ExecutionsSound ==
    \A p \in Publishers :
        /\ pub[p].ok \subseteq delivered
        /\ \A e \in pub[p].todo \cup pub[p].cur \cup pub[p].ok : createdAt[e] > 0
        /\ \A e \in Events : pub[p].seen[e] <= failures[e]
        /\ \A e \in pub[p].cur : pub[p].seen[e] < failures[e]
        /\ pub[p].err = "nonRetryable" => pub[p].cur \subseteq hard

\* The inductive invariant behind the properties above.
OutboxInv ==
    /\ SentWasDelivered
    /\ FailedAfterRetries
    /\ ExecutionsSound
    /\ \A e \in Events :
        /\ row[e] # "absent" => createdAt[e] > 0
        /\ retries[e] <= failures[e]
        /\ createdAt[e] > 0 /\ row[e] = "absent" =>
             e \in sent \/ (e \in ConnectorEvents /\ connector = "removed")

\* A pending event is settled in the end, also behind older ones that fail.
EventuallySettled == \A e \in Events : row[e] = "pending" ~> row[e] # "pending"

\* The outbox implements EventDelivery.
Promise == INSTANCE EventDelivery WITH
    accepted <- {e \in Events : createdAt[e] > 0},
    owed     <- Pending,
    givenUp  <- {e \in Events : row[e] = "failed"},
    removed  <- IF connector = "removed" THEN "yes" ELSE "no"

\* Every step of the outbox is a step that EventDelivery allows: no pending
\* event disappears without a delivery, a failure or the uninstallation.
ImplementsEventDelivery == Promise!Spec
=============================================================================
