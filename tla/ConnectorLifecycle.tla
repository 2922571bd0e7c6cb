------------------------- MODULE ConnectorLifecycle -------------------------
(***************************************************************************)
(* The life of one connector: installation, the schedules that poll its    *)
(* data, configuration updates, uninstallation, with processes that stop,  *)
(* start and learn of changes through notifications (Connectors).          *)
(*                                                                         *)
(* The task tree has one periodic task, accounts, with one periodic task   *)
(* under it, balances, for the accounts it finds.  Workflow code and       *)
(* activities run on any process that is up.                               *)
(***************************************************************************)
EXTENDS Connectors

CONSTANTS MaxUpdates,    \* bound on configuration updates
          MaxUninstalls, \* bound on the uninstallations that are started
          MaxFaults      \* bound on crashes, errors and lost connections of the
                         \* processes, and on requests cut short

ASSUME LifecycleAssumption ==
    MaxUpdates \in Nat /\ MaxUninstalls \in Nat /\ MaxFaults \in Nat

VARIABLES
    install,    \* [pc, at]: the install request, then the install workflow
    update,     \* [pc, at, read]: the update request
    updateWf,   \* [pc, todo, period]: UpdateSchedulePollingPeriod
    uninstall,  \* [pc, todo, runs]: the uninstall workflow, the runs of it
    terminate,  \* [lists, todo]: TerminateWorkflows that have not listed yet, and
                \* the workflows left to terminate
    makers,     \* [pc, got]: workflows that create schedules
    late,       \* creations whose workflow was terminated under them
    rows,       \* the schedules table
    temporal,   \* the polling period of every Temporal schedule, 0: no such
    updates, faults,
    unapplied   \* history: the last update of the row was not handed to the
                \* workflow that changes the schedules

wfVars == <<install, update, updateWf, uninstall, terminate, makers, late, rows,
            temporal, updates, faults, unapplied>>
vars == <<tableVars, wfVars>>

\* "tasks" is RunNextTasksV3_1, started by the installation; "run" a run of the
\* accounts schedule.
Makers == {"tasks", "run"}
Makes(m) == IF m = "tasks" THEN "accounts" ELSE "balances"
Schedules == {"accounts", "balances"}

Up(p) == stage[p] = "up"
Ready == [pc |-> "idle", got |-> 0]

\* Every variable holds a value of its type, and a schedule is recorded only for a
\* connector that exists, whatever was stored while the connector was removed.
TypeOK ==
    /\ row \in Connector \cup {None}
    /\ \A p \in Processes :
         /\ plugin[p] \in Connector \cup {None}
         /\ handling[p].kind \in {"none", "insert", "update"}
         /\ stage[p] \in {"down", "loading", "up"}
    /\ install.pc \in {"new", "loaded", "plugin", "get", "cleanup", "ended", "failed"}
    /\ update.pc \in {"idle", "read", "loaded", "checked", "committed"}
    /\ updateWf.pc \in {"idle", "list", "apply"} /\ updateWf.todo \subseteq Schedules
    /\ uninstall.pc \in {"none", "list", "schedules", "delete", "connector", "done", "failed",
                         "killed"}
    /\ uninstall.todo \subseteq Schedules
    /\ \A m \in Makers : makers[m].pc \in {"idle", "start", "check", "row", "period", "create"}
    /\ rows \subseteq Schedules
    /\ row = None => rows = {}

LifecycleInit ==
    /\ Init
    /\ \E p \in Processes : /\ install = [pc |-> "new", at |-> p]
                             /\ update = [pc |-> "idle", at |-> p, read |-> None]
    /\ updateWf = [pc |-> "idle", todo |-> {}, period |-> 0]
    /\ uninstall = [pc |-> "none", todo |-> {}, runs |-> 0]
    /\ terminate = [lists |-> 0, todo |-> {}]
    /\ makers = [m \in Makers |-> Ready]
    /\ late = {} /\ rows = {} /\ temporal = [s \in Schedules |-> 0]
    /\ updates = 0 /\ faults = 0 /\ unapplied = FALSE

\* A committed change of the row by a process that leaves S adrift.
Commit(r, kinds, S) == ChangeRow(r, kinds) /\ Adrift(Missing(r) \cup S)

\* A request starts its workflow, or is cut short after its transaction.
CutShort(started) ==
    /\ started \/ faults < MaxFaults
    /\ faults' = IF started THEN faults ELSE faults + 1

SetPlugin(p, r) == plugin' = [plugin EXCEPT ![p] = r]

-----------------------------------------------------------------------------
(* Installation.                                                           *)

\* engine.InstallConnector: the plugin is loaded before there is a row.
InstallLoad(p) ==
    /\ install.pc = "new" /\ Up(p)
    /\ install' = [pc |-> "loaded", at |-> p]
    /\ SetPlugin(p, Load(plugin[p], [deleting |-> FALSE, period |-> 1], FALSE))
    /\ UNCHANGED <<row, queue, handling, listening, stage, listed, adrift, update, updateWf,
                   uninstall, terminate, makers, late, rows, temporal, updates, faults, unapplied>>

\* ConnectorsInstall inserts the row and sets its config in one transaction; the
\* install workflow is started, or the request is cut short.
InstallInsert(started) ==
    /\ install.pc = "loaded" /\ CutShort(started)
    /\ install' = [install EXCEPT !.pc = IF started THEN "plugin" ELSE "failed"]
    /\ Commit([deleting |-> FALSE, period |-> 1], <<"insert", "update">>, {})
    /\ UNCHANGED <<plugin, handling, listening, stage, listed, update, updateWf, uninstall,
                   terminate, makers, late, rows, temporal, updates, unapplied>>

\* ConnectorsInstall fails, as when the name is taken: the plugin stays loaded.
InstallRefused ==
    /\ install.pc = "loaded"
    /\ install' = [install EXCEPT !.pc = "failed"]
    /\ Adrift({install.at})
    /\ UNCHANGED <<row, plugin, queue, handling, listening, stage, listed, update, updateWf,
                   uninstall, terminate, makers, late, rows, temporal, updates, faults, unapplied>>

\* PluginInstallConnector is repeated until it runs where the plugin is loaded; the
\* provider may refuse.  Then the task tree is stored, which needs the connector.
InstallPlugin(q, accepted) ==
    /\ install.pc = "plugin" /\ Up(q) /\ plugin[q] # None
    /\ install' = [install EXCEPT !.pc = IF ~accepted \/ row = None THEN "cleanup" ELSE "get"]
    /\ UNCHANGED <<tableVars, update, updateWf, uninstall, terminate, makers, late, rows,
                   temporal, updates, faults, unapplied>>

\* The workflow asks the manager of its own process for the plugin: if it is not
\* loaded there, the installation fails.
InstallGet(q) ==
    /\ install.pc = "get" /\ Up(q)
    /\ IF plugin[q] # None /\ ~plugin[q].deleting
       THEN makers' = [makers EXCEPT !["tasks"] = [Ready EXCEPT !.pc = "row"]]
       ELSE UNCHANGED makers
    /\ install' = [install EXCEPT !.pc = IF plugin[q] = None THEN "cleanup" ELSE "ended"]
    /\ UNCHANGED <<tableVars, update, updateWf, uninstall, terminate, late, rows, temporal,
                   updates, faults, unapplied>>

\* A failed installation deletes the connector and unloads the plugin.
InstallCleanup(q) ==
    /\ install.pc = "cleanup" /\ Up(q)
    /\ install' = [install EXCEPT !.pc = "failed"]
    /\ Commit(None, IF row = None THEN <<>> ELSE <<"delete">>, {})
    /\ rows' = {}
    /\ SetPlugin(q, None)
    /\ UNCHANGED <<handling, listening, stage, listed, update, updateWf, uninstall, terminate,
                   makers, late, temporal, updates, faults, unapplied>>

-----------------------------------------------------------------------------
(* Workflows that create schedules.                                        *)

\* The accounts schedule fires; runs of one schedule do not overlap.
Fire ==
    /\ temporal["accounts"] # 0 /\ makers["run"] = Ready
    /\ makers' = [makers EXCEPT !["run"].pc = "start"]
    /\ UNCHANGED <<tableVars, install, update, updateWf, uninstall, terminate, late, rows,
                   temporal, updates, faults, unapplied>>

\* createInstance, fetching and storing the accounts: they need the row of the
\* schedule, the plugin on the process, and the connector.
FetchAccounts(q) ==
    /\ makers["run"].pc = "start" /\ Up(q)
    /\ makers' = [makers EXCEPT !["run"].pc =
                    IF "accounts" \in rows /\ plugin[q] # None /\ row # None
                    THEN "check" ELSE "idle"]
    /\ UNCHANGED <<tableVars, install, update, updateWf, uninstall, terminate, late, rows,
                   temporal, updates, faults, unapplied>>

\* The next tasks are started unless the process's plugin is scheduled for
\* deletion.
CheckDeletion(q) ==
    /\ makers["run"].pc = "check" /\ Up(q)
    /\ makers' = [makers EXCEPT !["run"].pc =
                    IF plugin[q] # None /\ ~plugin[q].deleting THEN "row" ELSE "idle"]
    /\ UNCHANGED <<tableVars, install, update, updateWf, uninstall, terminate, late, rows,
                   temporal, updates, faults, unapplied>>

\* Fault: a schedule is recorded only after it was created.
BadStoreSchedule(m) ==
    /\ makers[m].pc = "row"
    /\ makers' = [makers EXCEPT ![m].pc = "period"]
    /\ rows' = IF temporal[Makes(m)] # 0 /\ row # None THEN rows \cup {Makes(m)} ELSE rows
    /\ UNCHANGED <<tableVars, install, update, updateWf, uninstall, terminate, late,
                   temporal, updates, faults, unapplied>>

\* scheduleNextWorkflow: StorageSchedulesStore (the row refers to the connector).
StoreSchedule(m) ==
    /\ makers[m].pc = "row"
    /\ IF row = None
       THEN makers' = [makers EXCEPT ![m] = Ready] /\ UNCHANGED rows
       ELSE makers' = [makers EXCEPT ![m].pc = "period"] /\ rows' = rows \cup {Makes(m)}
    /\ UNCHANGED <<tableVars, install, update, updateWf, uninstall, terminate, late,
                   temporal, updates, faults, unapplied>>

\* scheduleNextWorkflow: connectorPollingPeriod.
ReadPeriod(m) ==
    /\ makers[m].pc = "period"
    /\ makers' = [makers EXCEPT ![m] = IF row = None THEN Ready
                                       ELSE [pc |-> "create", got |-> row.period]]
    /\ UNCHANGED <<tableVars, install, update, updateWf, uninstall, terminate, late, rows,
                   temporal, updates, faults, unapplied>>

\* TemporalScheduleCreate: a schedule that exists is left as it is.
Created(s, period) == [temporal EXCEPT ![s] = IF @ = 0 THEN period ELSE @]

\* scheduleNextWorkflow: TemporalScheduleCreate, and the end of the workflow.
CreateSchedule(m) ==
    /\ makers[m].pc = "create"
    /\ temporal' = Created(Makes(m), makers[m].got)
    /\ makers' = [makers EXCEPT ![m] = Ready]
    /\ UNCHANGED <<tableVars, install, update, updateWf, uninstall, terminate, late, rows,
                   updates, faults, unapplied>>

\* The activity goes on although its workflow was terminated.
CreateLate(c) ==
    /\ temporal' = Created(c.schedule, c.period)
    /\ late' = late \ {c}
    /\ UNCHANGED <<tableVars, install, update, updateWf, uninstall, terminate, makers, rows,
                   updates, faults, unapplied>>

-----------------------------------------------------------------------------
(* Configuration updates: one request at a time.                           *)

\* engine.UpdateConnector: ConnectorsGet.
UpdateRead(p) ==
    /\ update.pc = "idle" /\ updates < MaxUpdates /\ Up(p) /\ row # None
    /\ update' = [pc |-> "read", at |-> p, read |-> row]
    /\ updates' = updates + 1
    /\ UNCHANGED <<tableVars, install, updateWf, uninstall, terminate, makers, late, rows,
                   temporal, faults, unapplied>>

\* Load with the new config, before it is stored.
UpdateLoad ==
    /\ update.pc = "read"
    /\ update' = [update EXCEPT !.pc = "loaded"]
    /\ SetPlugin(update.at, Load(plugin[update.at],
                                 [update.read EXCEPT !.period = updates + 1], TRUE))
    /\ UNCHANGED <<row, queue, handling, listening, stage, listed, adrift, install, updateWf,
                   uninstall, terminate, makers, late, rows, temporal, updates, faults, unapplied>>

\* ConnectorsConfigUpdate looks for the connector first, outside its transaction.
UpdateCheck ==
    /\ update.pc = "loaded" /\ row # None
    /\ update' = [update EXCEPT !.pc = "checked"]
    /\ UNCHANGED <<tableVars, install, updateWf, uninstall, terminate, makers, late, rows,
                   temporal, updates, faults, unapplied>>

\* ConnectorsConfigUpdate changes the name and the config only.  An update that
\* finds no row any more is committed, too.
UpdateCommit ==
    /\ update.pc = "checked"
    /\ update' = [update EXCEPT !.pc = "committed"]
    /\ IF row # None
       THEN Commit([row EXCEPT !.period = updates + 1], <<"update">>, {})
       ELSE Commit(None, <<>>, {update.at})
    /\ UNCHANGED <<plugin, handling, listening, stage, listed, install, updateWf, uninstall,
                   terminate, makers, late, rows, temporal, updates, faults, unapplied>>

\* It fails, as when the connector is gone: the process keeps what it loaded.
UpdateFails ==
    /\ update.pc \in {"loaded", "checked"}
    /\ update' = [update EXCEPT !.pc = "idle"]
    /\ Adrift({update.at})
    /\ UNCHANGED <<row, plugin, queue, handling, listening, stage, listed, install, updateWf,
                   uninstall, terminate, makers, late, rows, temporal, updates, faults, unapplied>>

\* GetConfig, then the workflow that changes the schedules.  The config is the one
\* loaded now: a handler may have put back the one it read before the update.
\* An error if none is loaded, or if that workflow is already running.
UpdateStart ==
    /\ update.pc = "committed"
    /\ update' = [update EXCEPT !.pc = "idle"]
    /\ IF plugin[update.at] # None /\ updateWf.pc = "idle"
       THEN updateWf' = [pc |-> "list", todo |-> {}, period |-> plugin[update.at].period]
       ELSE UNCHANGED updateWf
    /\ unapplied' = (updateWf' = updateWf \/ updateWf'.period # row.period)
    /\ UNCHANGED <<tableVars, install, uninstall, terminate, makers, late, rows, temporal,
                   updates, faults>>

\* runUpdateSchedulePollingPeriod: StorageSchedulesList.
UpdateList ==
    /\ updateWf.pc = "list"
    /\ updateWf' = [updateWf EXCEPT !.pc = IF rows = {} THEN "idle" ELSE "apply", !.todo = rows]
    /\ UNCHANGED <<tableVars, install, update, uninstall, terminate, makers, late, rows,
                   temporal, updates, faults, unapplied>>

\* Fault: a schedule that Temporal does not know is skipped.
BadUpdateSchedule(s) ==
    /\ updateWf.pc = "apply" /\ s \in updateWf.todo
    /\ temporal' = [temporal EXCEPT ![s] = IF @ = 0 THEN 0 ELSE updateWf.period]
    /\ updateWf' = [updateWf EXCEPT !.todo = @ \ {s},
                                    !.pc = IF updateWf.todo = {s} THEN "idle" ELSE @]
    /\ UNCHANGED <<tableVars, install, update, uninstall, terminate, makers, late, rows,
                   updates, faults, unapplied>>

\* TemporalScheduleUpdatePollingPeriod, repeated until the schedule exists.
UpdateSchedule(s) ==
    /\ updateWf.pc = "apply" /\ s \in updateWf.todo
    /\ temporal[s] # 0
    /\ temporal' = [temporal EXCEPT ![s] = updateWf.period]
    /\ updateWf' = [updateWf EXCEPT !.todo = @ \ {s},
                                    !.pc = IF updateWf.todo = {s} THEN "idle" ELSE @]
    /\ UNCHANGED <<tableVars, install, update, uninstall, terminate, makers, late, rows,
                   updates, faults, unapplied>>

-----------------------------------------------------------------------------
(* Uninstallation.                                                         *)

\* engine.UninstallConnector: the flag, then the workflow.  A request that is cut
\* short can be repeated, and so can an uninstallation that has failed.
UninstallRequest(started) ==
    /\ uninstall.pc \in {"none", "failed"} /\ row # None /\ uninstall.runs < MaxUninstalls
    /\ CutShort(started)
    /\ Commit([row EXCEPT !.deleting = TRUE], <<"update">>, {})
    /\ uninstall' = IF started THEN [uninstall EXCEPT !.pc = "list", !.runs = @ + 1] ELSE uninstall
    /\ UNCHANGED <<plugin, handling, listening, stage, listed, install, update, updateWf,
                   terminate, makers, late, rows, temporal, updates, unapplied>>

\* runTerminateSchedules: StorageSchedulesList.
UninstallList ==
    /\ uninstall.pc = "list"
    /\ uninstall' = [uninstall EXCEPT !.pc = "schedules", !.todo = rows]
    /\ UNCHANGED <<tableVars, install, update, updateWf, terminate, makers, late, rows,
                   temporal, updates, faults, unapplied>>

\* TemporalScheduleDelete: one that does not exist is as good as deleted.
UninstallSchedule(s) ==
    /\ uninstall.pc = "schedules" /\ s \in uninstall.todo
    /\ temporal' = [temporal EXCEPT ![s] = 0]
    /\ uninstall' = [uninstall EXCEPT !.todo = @ \ {s}]
    /\ UNCHANGED <<tableVars, install, update, updateWf, terminate, makers, late, rows,
                   updates, faults, unapplied>>

\* TerminateWorkflows is started and not waited for.
UninstallTerminate ==
    /\ uninstall.pc = "schedules" /\ uninstall.todo = {}
    /\ uninstall' = [uninstall EXCEPT !.pc = "delete"]
    /\ terminate' = [terminate EXCEPT !.lists = @ + 1]
    /\ UNCHANGED <<tableVars, install, update, updateWf, makers, late, rows, temporal,
                   updates, faults, unapplied>>

\* PluginUninstallConnector, which succeeds without a plugin and which the provider
\* may refuse, and the deletion of the rows of the connector, here those of its
\* schedules.  All of it is waited for before an error ends the workflow.
UninstallRows(accepted) ==
    /\ uninstall.pc = "delete"
    /\ accepted \/ \E q \in Processes : Up(q) /\ plugin[q] # None
    /\ uninstall' = [uninstall EXCEPT !.pc = IF accepted THEN "connector" ELSE "failed"]
    /\ rows' = {}
    /\ UNCHANGED <<tableVars, install, update, updateWf, terminate, makers, late, temporal,
                   updates, faults, unapplied>>

\* Fault: the schedules stored since UninstallRows are not deleted.
BadUninstallConnector(q) ==
    /\ uninstall.pc = "connector" /\ Up(q)
    /\ uninstall' = [uninstall EXCEPT !.pc = "done"]
    /\ Commit(None, IF row = None THEN <<>> ELSE <<"delete">>, {})
    /\ SetPlugin(q, None)
    /\ UNCHANGED <<handling, listening, stage, listed, install, update, updateWf, terminate,
                   makers, late, rows, temporal, updates, faults, unapplied>>

\* StorageConnectorsDelete, which cascades to schedules stored meanwhile; then
\* the process unloads the plugin.
UninstallConnector(q) ==
    /\ uninstall.pc = "connector" /\ Up(q)
    /\ uninstall' = [uninstall EXCEPT !.pc = "done"]
    /\ Commit(None, IF row = None THEN <<>> ELSE <<"delete">>, {})
    /\ rows' = {}
    /\ SetPlugin(q, None)
    /\ UNCHANGED <<handling, listening, stage, listed, install, update, updateWf, terminate,
                   makers, late, temporal, updates, faults, unapplied>>

\* The workflows of the connector that are running.
Running ==
    {m \in Makers : makers[m] # Ready}
      \cup (IF install.pc \in {"plugin", "get", "cleanup"} THEN {"install"} ELSE {})
      \cup (IF updateWf.pc # "idle" THEN {"update"} ELSE {})
      \cup (IF uninstall.pc \notin {"none", "done", "failed", "killed"} THEN {"uninstall"} ELSE {})

\* Fault: the uninstallation is terminated, too.
BadTerminateList ==
    /\ terminate.lists > 0
    /\ terminate' = [lists |-> terminate.lists - 1, todo |-> terminate.todo \cup Running]
    /\ UNCHANGED <<tableVars, install, update, updateWf, uninstall, makers, late, rows,
                   temporal, updates, faults, unapplied>>

\* runTerminateWorkflows: the list, without the uninstallation.
TerminateList ==
    /\ terminate.lists > 0
    /\ terminate' = [lists |-> terminate.lists - 1,
                     todo |-> terminate.todo \cup (Running \ {"uninstall"})]
    /\ UNCHANGED <<tableVars, install, update, updateWf, uninstall, makers, late, rows,
                   temporal, updates, faults, unapplied>>

\* TemporalWorkflowTerminate: an activity of the workflow may still take effect.
TerminateWorkflow(w) ==
    /\ w \in terminate.todo
    /\ terminate' = [terminate EXCEPT !.todo = @ \ {w}]
    /\ install' = IF w = "install" /\ w \in Running THEN [install EXCEPT !.pc = "ended"] ELSE install
    /\ updateWf' = IF w = "update" THEN [updateWf EXCEPT !.pc = "idle", !.todo = {}] ELSE updateWf
    /\ uninstall' = IF w = "uninstall" THEN [uninstall EXCEPT !.pc = "killed"] ELSE uninstall
    /\ makers' = IF w \in Makers THEN [makers EXCEPT ![w] = Ready] ELSE makers
    /\ \/ UNCHANGED late
       \/ /\ w \in Makers /\ makers[w].pc = "create"
          /\ late' = late \cup {[schedule |-> Makes(w), period |-> makers[w].got]}
    /\ UNCHANGED <<tableVars, update, rows, temporal, updates, faults, unapplied>>

-----------------------------------------------------------------------------

\* A process stops.  Its API requests end where they are; workflows go on
\* elsewhere.
ProcessCrash(p) ==
    /\ faults < MaxFaults
    /\ faults' = faults + 1
    /\ Crash(p)
    /\ install' = IF install.at = p /\ install.pc = "loaded"
                  THEN [install EXCEPT !.pc = "failed"] ELSE install
    /\ update' = IF update.at = p THEN [update EXCEPT !.pc = "idle"] ELSE update
    /\ unapplied' = (unapplied \/ (update.at = p /\ update.pc = "committed"))
    /\ UNCHANGED <<updateWf, uninstall, terminate, makers, late, rows, temporal, updates>>

\* Notifications and the start of a process.
ProcessStep(p) ==
    /\ \/ ReceiveNotification(p) \/ HandleNotification(p)
       \/ Listen(p) \/ StartList(p) \/ \E loads \in BOOLEAN : StartLoad(p, loads)
    /\ UNCHANGED wfVars

\* A notification is lost to an error, or the connection that brings them.
ProcessFault(p) ==
    /\ faults < MaxFaults
    /\ faults' = faults + 1
    /\ ReceiveFails(p) \/ HandleFails(p) \/ Disconnect(p)
    /\ UNCHANGED <<install, update, updateWf, uninstall, terminate, makers, late, rows,
                   temporal, updates, unapplied>>

InstallStep ==
    \/ InstallInsert(TRUE)
    \/ \E q \in Processes :
         \/ \E accepted \in BOOLEAN : InstallPlugin(q, accepted)
         \/ InstallGet(q) \/ InstallCleanup(q)

MakerStep(m) == StoreSchedule(m) \/ ReadPeriod(m) \/ CreateSchedule(m)

RunStep == \E q \in Processes : FetchAccounts(q) \/ CheckDeletion(q)

UpdateStep == UpdateList \/ \E s \in Schedules : UpdateSchedule(s)

UninstallStep ==
    \/ UninstallList \/ UninstallTerminate
    \/ \E accepted \in BOOLEAN : UninstallRows(accepted)
    \/ \E s \in Schedules : UninstallSchedule(s)
    \/ \E q \in Processes : UninstallConnector(q)

TerminateStep == TerminateList \/ \E w \in terminate.todo : TerminateWorkflow(w)

Next ==
    \/ \E p \in Processes :
         \/ ProcessStep(p) \/ ProcessFault(p) \/ ProcessCrash(p)
         \/ InstallLoad(p) \/ UpdateRead(p)
    \/ InstallStep \/ InstallInsert(FALSE) \/ InstallRefused
    \/ UpdateLoad \/ UpdateCheck \/ UpdateCommit \/ UpdateFails \/ UpdateStart
    \/ UpdateStep
    \/ Fire \/ RunStep
    \/ \E m \in Makers : MakerStep(m)
    \/ \E c \in late : CreateLate(c)
    \/ \E started \in BOOLEAN : UninstallRequest(started)
    \/ UninstallStep
    \/ TerminateStep

Spec == LifecycleInit /\ [][Next]_vars

\* Processes restart and handle what is queued; Temporal drives its workflows.
Fairness ==
    /\ \A p \in Processes : WF_vars(ProcessStep(p))
    /\ WF_vars(InstallStep)
    /\ WF_vars(UninstallStep)
    /\ WF_vars(TerminateStep)

FairSpec == Spec /\ Fairness

-----------------------------------------------------------------------------
(* Properties.                                                             *)

\* A process that has handled its notifications has loaded what the table says,
\* with its deletion flag and config, whatever handlers, requests and workflows
\* loaded or unloaded in between.  adrift names what puts a process out of step
\* (an error of a handler or of the load at its start, a request that fails after
\* it loaded, a change while the process reads the table but does not listen); the
\* next update or deletion that reaches the process makes good for it.
ManagersConverge ==
    \A p \in Processes :
        (/\ Settled(p) /\ ~adrift[p]
         /\ ~(install.pc = "loaded" /\ install.at = p)
         /\ ~(update.pc # "idle" /\ update.at = p)) => plugin[p] = row

\* Until the uninstallation lists the schedules of the connector, every Temporal
\* schedule is on that list (StorageSchedulesStore before TemporalScheduleCreate).
\* An uninstallation that is repeated after a failure has deleted rows before.
SchedulesRecorded ==
    (uninstall.pc \in {"none", "list"} /\ uninstall.runs <= 1) =>
        \A s \in Schedules : temporal[s] # 0 => s \in rows

\* When updates are over, all schedules poll with the period of the config, also
\* those that were being created during an update, unless the update failed to
\* hand its config over.
PeriodsAgree ==
    (update.pc = "idle" /\ updateWf.pc = "idle" /\ uninstall.pc = "none" /\ ~unapplied) =>
        \A s \in Schedules : temporal[s] \in {0, row.period}

\* "First, terminate all schedules in order to prevent any workflows to be launched
\* again" (uninstall_connector.go): when the uninstallation is over and everything
\* that was running has ended, no Temporal schedule of the connector is left.
NothingLaunchedAgain ==
    (/\ uninstall.pc = "done" /\ terminate.lists = 0 /\ terminate.todo = {}
     /\ late = {} /\ \A m \in Makers : makers[m] = Ready) =>
        \A s \in Schedules : temporal[s] = 0

\* An uninstallation that was started ends, through crashes and concurrent
\* workflows: it leaves no connector behind, or it has failed because the provider
\* refused (uninstall_connector_test.go:102), and the request can be repeated.
UninstallEnds ==
    uninstall.pc = "list" ~> \/ uninstall.pc = "done" /\ row = None
                             \/ uninstall.pc = "failed"
=============================================================================
