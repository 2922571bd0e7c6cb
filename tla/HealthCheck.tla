---------------------------- MODULE HealthCheck ----------------------------
(***************************************************************************)
(* The health check of one connector: a periodic workflow that pauses the  *)
(* schedules whose last runs all failed, and the workflow of a config      *)
(* update that resumes them.  Both change Temporal and the schedules table *)
(* one after the other.                                                    *)
(*                                                                         *)
(* A time is the number of config updates so far: the code compares the    *)
(* times of runs with that of the last update and with nothing else.  The  *)
(* polling periods that the same update sets are in ConnectorLifecycle.    *)
(***************************************************************************)
EXTENDS Integers, Sequences, FiniteSetsExt, SequencesExt

CONSTANTS Schedules,    \* identifiers of the connector's fetching schedules
          Threshold,    \* healthCheckErrorThreshold
          PageSize,     \* page size of the list of failing schedules
          MaxUpdates,   \* bound on config updates
          MaxRetries    \* bound on repeated activities

ASSUME HealthCheckAssumption ==
    /\ Schedules \subseteq Nat
    /\ {Threshold, PageSize} \subseteq Nat \ {0}
    /\ {MaxUpdates, MaxRetries} \subseteq Nat

VARIABLES
    runs,       \* per schedule: the rows of its last instances, newest last
    updatedAt,  \* the connector's updated_at
    paused,     \* schedules that are paused in Temporal
    noted,      \* schedules with a paused_at in the table
    check,      \* [pc, since, offset, more, page, todo]: ConnectorHealthCheck
    update,     \* [pc, page, todo]: UpdateSchedulePollingPeriod
    retries,
    disturbed   \* history: a config update whose workflow was not started or
                \* that ran together with a health check

vars == <<runs, updatedAt, paused, noted, check, update, retries, disturbed>>

\* "continued": the run goes on, but its row has the error of ContinueAsNew.
RunStates == {"running", "ok", "failed", "continued"}

NoCheck == [pc |-> "idle", since |-> 0, offset |-> 0, more |-> FALSE, page |-> {}, todo |-> {}]
NoUpdate == [pc |-> "idle", page |-> {}, todo |-> {}]

\* Every variable holds a value of its type, and an activity that pauses or
\* resumes schedules has one to work on.
TypeOK ==
    /\ \A s \in Schedules : /\ runs[s] \in Seq([state : RunStates, at : 0 .. MaxUpdates])
                            /\ Len(runs[s]) <= Threshold
    /\ updatedAt \in 0 .. MaxUpdates
    /\ paused \subseteq Schedules /\ noted \subseteq Schedules
    /\ check.pc \in {"idle", "list", "pause", "note"} /\ check.since <= updatedAt
    /\ check.todo \subseteq check.page /\ check.page \subseteq Schedules
    /\ check.pc \in {"pause", "note"} <=> check.todo # {}
    /\ update.pc \in {"idle", "list", "unpause", "clear"}
    /\ update.todo \subseteq update.page /\ update.page \subseteq Schedules
    /\ update.pc \in {"unpause", "clear"} <=> update.todo # {}

Init ==
    /\ runs = [s \in Schedules |-> <<>>]
    /\ updatedAt = 0
    /\ paused = {} /\ noted = {}
    /\ check = NoCheck /\ update = NoUpdate
    /\ retries = 0 /\ disturbed = FALSE

-----------------------------------------------------------------------------
(* Runs of the schedules; those of one schedule do not overlap.            *)

InProgress(s) == runs[s] # <<>> /\ Last(runs[s]).state \in {"running", "continued"}

\* A run starts: createInstance.  Only the last Threshold rows are looked at.
RunStart(s) ==
    /\ s \notin paused /\ ~InProgress(s)
    /\ LET all == Append(runs[s], [state |-> "running", at |-> updatedAt])
       IN  runs' = [runs EXCEPT ![s] = IF Len(all) > Threshold THEN Tail(all) ELSE all]
    /\ UNCHANGED <<updatedAt, paused, noted, check, update, retries, disturbed>>

SetRun(s, state) ==
    /\ runs' = [runs EXCEPT ![s][Len(runs[s])].state = state]
    /\ UNCHANGED <<updatedAt, paused, noted, check, update, retries, disturbed>>

\* terminateInstance with the result of the run ...
RunEnd(s, state) == InProgress(s) /\ state \in {"ok", "failed"} /\ SetRun(s, state)

\* ... or with the ContinueAsNew error; the next execution has the same row.
RunContinue(s) == InProgress(s) /\ SetRun(s, "continued")

-----------------------------------------------------------------------------
(* The health check.                                                       *)

HasError(run) == run.state \in {"failed", "continued"}

\* InstancesListSchedulesAboveErrorThreshold.
AboveThreshold ==
    {s \in Schedules : Len(runs[s]) = Threshold /\ \A i \in 1 .. Threshold : HasError(runs[s][i])}

\* The page of that list, ordered by schedule, at an offset.
PageAt(offset) ==
    {s \in AboveThreshold :
        Cardinality({t \in AboveThreshold : t < s}) \in offset .. (offset + PageSize - 1)}

\* The schedule fires; ConnectorsGet.
CheckStart ==
    /\ check.pc = "idle"
    /\ check' = [NoCheck EXCEPT !.pc = "list", !.since = updatedAt]
    /\ disturbed' = (disturbed \/ update.pc # "idle")
    /\ UNCHANGED <<runs, updatedAt, paused, noted, update, retries>>

\* The health check goes on to the schedules left on its page, to the next page, or
\* ends.
GoOn(left, c) ==
    CASE left # {} -> [c EXCEPT !.pc = "pause", !.todo = left]
      [] left = {} /\ c.more -> [c EXCEPT !.pc = "list", !.page = {}, !.todo = {}]
      [] OTHER -> NoCheck

More == Cardinality(AboveThreshold) > check.offset + PageSize

\* Faults: runs from before the last update count; the first page is the last.
BadCheckList ==
    /\ check.pc = "list"
    /\ LET page == PageAt(check.offset)
       IN  check' = GoOn(page, [check EXCEPT !.offset = @ + PageSize, !.more = More, !.page = page])
    /\ UNCHANGED <<runs, updatedAt, paused, noted, update, retries, disturbed>>

BadOnePage ==
    /\ check.pc = "list"
    /\ LET page == {s \in PageAt(check.offset) : Last(runs[s]).at >= check.since}
       IN  check' = GoOn(page, [check EXCEPT !.offset = @ + PageSize, !.page = page])
    /\ UNCHANGED <<runs, updatedAt, paused, noted, update, retries, disturbed>>

\* A page of failing schedules, without those whose last run predates the last
\* config update the health check knows of.
CheckList ==
    /\ check.pc = "list"
    /\ LET page == {s \in PageAt(check.offset) : Last(runs[s]).at >= check.since}
       IN  check' = GoOn(page, [check EXCEPT !.offset = @ + PageSize, !.more = More, !.page = page])
    /\ UNCHANGED <<runs, updatedAt, paused, noted, update, retries, disturbed>>

\* TemporalSchedulesPause, schedule by schedule: Temporal ...
PauseTemporal ==
    /\ check.pc = "pause"
    /\ paused' = paused \cup {Min(check.todo)}
    /\ check' = [check EXCEPT !.pc = "note"]
    /\ UNCHANGED <<runs, updatedAt, noted, update, retries, disturbed>>

\* Faults: the table is not changed; the loop does not end.
BadPauseRow ==
    /\ check.pc = "note"
    /\ check' = GoOn(check.todo \ {Min(check.todo)}, check)
    /\ UNCHANGED <<runs, updatedAt, paused, noted, update, retries, disturbed>>

BadPauseLoop ==
    /\ check.pc = "note"
    /\ noted' = noted \cup {Min(check.todo)}
    /\ check' = [check EXCEPT !.pc = "pause", !.todo = @ \ {Min(@)}]
    /\ UNCHANGED <<runs, updatedAt, paused, update, retries, disturbed>>

\* ... then SchedulesPause.
PauseRow ==
    /\ check.pc = "note"
    /\ noted' = noted \cup {Min(check.todo)}
    /\ check' = GoOn(check.todo \ {Min(check.todo)}, check)
    /\ UNCHANGED <<runs, updatedAt, paused, update, retries, disturbed>>

\* The activity fails or its worker stops: it is repeated from the beginning.
PauseRetry ==
    /\ check.pc \in {"pause", "note"} /\ retries < MaxRetries
    /\ retries' = retries + 1
    /\ check' = [check EXCEPT !.pc = "pause", !.todo = check.page]
    /\ UNCHANGED <<runs, updatedAt, paused, noted, update, disturbed>>

-----------------------------------------------------------------------------
(* A config update.                                                        *)

\* engine.UpdateConnector: the row, then the workflow, unless it is running, or
\* the process stops before.
UpdateConnector(started) ==
    /\ updatedAt < MaxUpdates
    /\ updatedAt' = updatedAt + 1
    /\ started => update.pc = "idle"
    /\ update' = IF started THEN [NoUpdate EXCEPT !.pc = "list"] ELSE update
    /\ disturbed' = (disturbed \/ ~started \/ check.pc # "idle")
    /\ UNCHANGED <<runs, paused, noted, check, retries>>

\* runUpdateSchedulePollingPeriod: the schedules that the table says are paused.
UpdateList ==
    /\ update.pc = "list"
    /\ update' = [pc |-> IF noted # {} THEN "unpause" ELSE "idle", page |-> noted, todo |-> noted]
    /\ UNCHANGED <<runs, updatedAt, paused, noted, check, retries, disturbed>>

\* TemporalSchedulesUnpause: Temporal ...
UnpauseTemporal ==
    /\ update.pc = "unpause"
    /\ paused' = paused \ {Min(update.todo)}
    /\ update' = [update EXCEPT !.pc = "clear"]
    /\ UNCHANGED <<runs, updatedAt, noted, check, retries, disturbed>>

\* ... then SchedulesUnpause.
UnpauseRow ==
    /\ update.pc = "clear"
    /\ noted' = noted \ {Min(update.todo)}
    /\ update' = IF update.todo = {Min(update.todo)} THEN NoUpdate
                 ELSE [update EXCEPT !.pc = "unpause", !.todo = @ \ {Min(@)}]
    /\ UNCHANGED <<runs, updatedAt, paused, check, retries, disturbed>>

UnpauseRetry ==
    /\ update.pc \in {"unpause", "clear"} /\ retries < MaxRetries
    /\ retries' = retries + 1
    /\ update' = [update EXCEPT !.pc = "unpause", !.todo = update.page]
    /\ UNCHANGED <<runs, updatedAt, paused, noted, check, disturbed>>

-----------------------------------------------------------------------------
CheckStep == CheckStart \/ CheckList \/ PauseTemporal \/ PauseRow

UpdateStep == UpdateList \/ UnpauseTemporal \/ UnpauseRow

RunStep(s) == RunStart(s) \/ \E state \in {"ok", "failed"} : RunEnd(s, state)

Next ==
    \/ \E s \in Schedules : RunStep(s) \/ RunContinue(s)
    \/ CheckStep \/ PauseRetry
    \/ UpdateStep \/ UnpauseRetry
    \/ \E started \in BOOLEAN : UpdateConnector(started)

Spec == Init /\ [][Next]_vars

\* Temporal fires its schedules and drives their runs and workflows.
FairSpec ==
    /\ Spec
    /\ \A s \in Schedules : WF_vars(RunStep(s))
    /\ WF_vars(CheckStep) /\ WF_vars(UpdateStep)

-----------------------------------------------------------------------------
(* Properties.                                                             *)

Quiet == check.pc = "idle" /\ update.pc = "idle" /\ ~disturbed

\* When no health check and no update is at work, the table says which schedules
\* Temporal has paused, after repeated activities too: only those can be resumed.
PausedIsRecorded == Quiet => paused = noted

\* A paused schedule has run with the config that the connector has now: an
\* update resumes all that were paused before, and a health check after it pauses
\* none that has not run since.
PausedForThisConfig == Quiet => \A s \in paused : Last(runs[s]).at = updatedAt

\* A schedule that is failing throughout every health check from some time on is
\* paused in the end, although runs of other schedules move it between the pages of
\* the list.  (One that is running whenever the list is read is never found.)
EventuallyPaused ==
    \A s \in Schedules :
        <>[](check.pc # "idle" => s \in AboveThreshold) => <>[](s \in paused)
=============================================================================
