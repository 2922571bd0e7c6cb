---------------------- MODULE ConnectorLifecycleProofs ----------------------
(***************************************************************************)
(* For every set of processes and any number of updates and faults:        *)
(* ConnectorLifecycle is type correct, every Temporal schedule is recorded *)
(* until the uninstallation has listed them, schedules poll with the       *)
(* period of the config once updates are over, and the managers of the     *)
(* processes converge to the table.                                        *)
(***************************************************************************)
EXTENDS ConnectorLifecycle, SequenceTheorems, TLAPS

Row == Connector \cup {None}
Kinds == {"insert", "update", "delete"}
Handler == [kind : {"none", "insert", "update"}, read : Row]
Workflows == Makers \cup {"install", "update", "uninstall"}

\* The types of the variables of Connectors.
TableTypes ==
    /\ row \in Row
    /\ plugin \in [Processes -> Row]
    /\ queue \in [Processes -> Seq(Kinds)]
    /\ handling \in [Processes -> Handler]
    /\ listening \in [Processes -> BOOLEAN]
    /\ stage \in [Processes -> {"down", "loading", "up"}]
    /\ listed \in [Processes -> Row]
    /\ adrift \in [Processes -> BOOLEAN]

InstallType ==
    [pc : {"new", "loaded", "plugin", "get", "cleanup", "ended", "failed"}, at : Processes]
UpdateType == [pc : {"idle", "read", "loaded", "checked", "committed"}, at : Processes, read : Row]
UpdateWfType == [pc : {"idle", "list", "apply"}, todo : SUBSET Schedules, period : Nat]
UninstallType ==
    [pc : {"none", "list", "schedules", "delete", "connector", "done", "failed", "killed"},
     todo : SUBSET Schedules, runs : Nat]
TerminateType == [lists : Nat, todo : SUBSET Workflows]
MakerType == [pc : {"idle", "start", "check", "row", "period", "create"}, got : Nat]
LateType == [schedule : Schedules, period : Nat]

\* The types of the requests, the workflows and Temporal's schedules.
WorkflowTypes ==
    /\ install \in InstallType
    /\ update \in UpdateType
    /\ updateWf \in UpdateWfType
    /\ uninstall \in UninstallType
    /\ terminate \in TerminateType
    /\ makers \in [Makers -> MakerType]
    /\ late \subseteq LateType
    /\ rows \subseteq Schedules
    /\ temporal \in [Schedules -> Nat]
    /\ updates \in Nat /\ faults \in Nat /\ unapplied \in BOOLEAN

\* A row of a schedule refers to the connector.
RowsNeedConnector == row = None => rows = {}

Types == TableTypes /\ WorkflowTypes /\ RowsNeedConnector

-----------------------------------------------------------------------------

\* Until the installation has ended nothing that creates schedules was started.
Early == install.pc \in {"new", "loaded", "plugin", "get", "cleanup"}
NothingEarly ==
    Early => /\ late = {}
             /\ \A m \in Makers : makers[m] = Ready
             /\ \A s \in Schedules : temporal[s] = 0

\* Until the first uninstallation lists the schedules no workflow is terminated, and
\* whoever is about to create a schedule has recorded it.
RecordedFirst ==
    /\ uninstall.pc = "none" <=> uninstall.runs = 0
    /\ (uninstall.pc \in {"none", "list"} /\ uninstall.runs <= 1) =>
         /\ terminate.lists = 0 /\ terminate.todo = {} /\ late = {}
         /\ \A m \in Makers : makers[m].pc \in {"period", "create"} => Makes(m) \in rows
         /\ \A s \in Schedules : temporal[s] # 0 => s \in rows

ScheduleInv == NothingEarly /\ RecordedFirst

-----------------------------------------------------------------------------

\* Schedule s has the period of the config, or will be created with it.
InStep(s) ==
    /\ temporal[s] \in {0, row.period}
    /\ temporal[s] = 0 =>
         \A m \in Makers : (Makes(m) = s /\ makers[m].pc = "create") => makers[m].got = row.period

\* There is no connector, and no update of it, before its installation.
NotInstalled ==
    install.pc \in {"new", "loaded"} => row = None /\ update.pc = "idle" /\ updateWf.pc = "idle"

\* An update that was handed over carries the period of the row, and what it
\* does not have to change any more is in step.
PeriodInv ==
    /\ NotInstalled
    /\ updateWf.pc # "apply" => updateWf.todo = {}
    /\ (uninstall.pc = "none" /\ update.pc # "committed" /\ ~unapplied /\ row # None) =>
         /\ updateWf.pc # "idle" => updateWf.period = row.period
         /\ updateWf.pc # "list" => \A s \in Schedules \ updateWf.todo : InStep(s)

-----------------------------------------------------------------------------

\* A request has put a plugin into process p that the table does not hold yet.
Ahead(p) ==
    \/ install.pc = "loaded" /\ install.at = p
    \/ update.pc \in {"loaded", "checked"} /\ update.at = p

RequestsAreUp ==
    /\ install.pc = "loaded" => stage[install.at] = "up"
    /\ update.pc # "idle" => stage[update.at] = "up"

\* A process that does not listen has nothing queued; the last notification in
\* a queue is never an insert, and a delete only if the connector is gone.
QueueInv(p) ==
    /\ ~listening[p] => queue[p] = <<>>
    /\ queue[p] # <<>> => LET last == queue[p][Len(queue[p])]
                          IN  last = "update" \/ (last = "delete" /\ row = None)
    /\ handling[p] # Nothing => handling[p].read # None
    /\ (stage[p] = "loading" /\ ~adrift[p] /\ row = None) => listed[p] = None

\* The copy is, or its start makes it, the row.
Fresh(p) ==
    \/ stage[p] = "up" /\ plugin[p] = row
    \/ stage[p] = "loading" /\ plugin[p] = row /\ row # None
    \/ stage[p] = "loading" /\ plugin[p] = None /\ listed[p] = row
    \/ stage[p] = "down" /\ plugin[p] \in {None, row}

\* What process p has still to handle leads to the row.
Converging(p) ==
    \/ queue[p] # <<>>
    \/ handling[p] # Nothing /\ handling[p].kind = "update" /\ handling[p].read = row
    \/ handling[p] = Nothing /\ Fresh(p)

CopyInv(p) == QueueInv(p) /\ (~adrift[p] /\ ~Ahead(p) => Converging(p))

ManagerInv == RequestsAreUp /\ \A p \in Processes : CopyInv(p)

-----------------------------------------------------------------------------
(* Types.                                                                  *)

LEMMA NoneType == None \in Row /\ None \notin Connector /\ Nothing \in Handler
  BY DEF None, Row, Connector, Periods, Nothing, Handler

LEMMA ReadyType == Ready \in MakerType
  BY DEF Ready, MakerType

\* What the requests write is a connector.
LEMMA ConnectorTypes ==
    /\ [deleting |-> FALSE, period |-> 1] \in Connector
    /\ \A r \in Row, n \in Nat : [r EXCEPT !.period = n + 1] \in Connector
    /\ \A r \in Connector : [r EXCEPT !.deleting = TRUE] \in Connector
    /\ \A r \in Row : r # None => r \in Connector
    /\ \A r \in Row : r.period \in Nat
  <1>1. [deleting |-> FALSE, period |-> 1] \in Connector
    BY DEF Connector, Periods
  <1>2. ASSUME NEW r \in Row, NEW n \in Nat
        PROVE  [r EXCEPT !.period = n + 1] \in Connector
    <2>1. r \in [deleting : BOOLEAN, period : Nat]
      <3>1. CASE r \in Connector
        BY <3>1 DEF Connector, Periods
      <3>2. CASE r = None
        BY <3>2 DEF None
      <3> QED
        BY <3>1, <3>2 DEF Row
    <2> QED
      BY <2>1 DEF Connector, Periods
  <1>3. ASSUME NEW r \in Connector PROVE [r EXCEPT !.deleting = TRUE] \in Connector
    BY DEF Connector, Periods
  <1>4. \A r \in Row : r # None => r \in Connector
    BY DEF Row
  <1>5. \A r \in Row : r.period \in Nat
    BY DEF Row, Connector, Periods, None
  <1> QED
    BY <1>1, <1>2, <1>3, <1>4, <1>5

LEMMA LoadType ==
    ASSUME NEW old \in Row, NEW r \in Row, NEW b \in BOOLEAN PROVE Load(old, r, b) \in Row
  BY DEF Load

LEMMA ChangeRowType ==
    ASSUME TableTypes, NEW r \in Row, NEW kinds \in Seq(Kinds), ChangeRow(r, kinds)
    PROVE  row' \in Row /\ queue' \in [Processes -> Seq(Kinds)]
  BY DEF TableTypes, ChangeRow

LEMMA AdriftType ==
    ASSUME TableTypes, NEW S, Adrift(S) PROVE adrift' \in [Processes -> BOOLEAN]
  BY DEF TableTypes, Adrift

LEMMA KindsType ==
    /\ <<"insert", "update">> \in Seq(Kinds) /\ <<"update">> \in Seq(Kinds)
    /\ <<"delete">> \in Seq(Kinds) /\ <<>> \in Seq(Kinds)
  BY DEF Kinds

LEMMA InitTypes == LifecycleInit => Types
  <1> SUFFICES ASSUME LifecycleInit PROVE Types
    OBVIOUS
  <1>1. TableTypes
    BY NoneType, KindsType DEF LifecycleInit, Init, TableTypes
  <1>2. WorkflowTypes
    <2>1. install \in InstallType /\ update \in UpdateType
      BY NoneType DEF LifecycleInit, InstallType, UpdateType
    <2>2. updateWf \in UpdateWfType /\ uninstall \in UninstallType /\ terminate \in TerminateType
      BY DEF LifecycleInit, UpdateWfType, UninstallType, TerminateType
    <2>3. makers \in [Makers -> MakerType] /\ temporal \in [Schedules -> Nat]
      BY ReadyType DEF LifecycleInit
    <2> QED
      BY <2>1, <2>2, <2>3 DEF WorkflowTypes, LifecycleInit
  <1> QED
    BY <1>1, <1>2 DEF Types, RowsNeedConnector, LifecycleInit

\* Actions on the copies of one process.
LEMMA ProcessTypes ==
    ASSUME TableTypes, NEW p \in Processes, ProcessStep(p) PROVE TableTypes'
  <1> USE NoneType
  <1>1. CASE ReceiveNotification(p)
    <2>1. queue[p] \in Seq(Kinds) /\ queue[p] # <<>>
      BY <1>1 DEF ReceiveNotification, TableTypes
    <2>2. Tail(queue[p]) \in Seq(Kinds) /\ Head(queue[p]) \in Kinds
      BY <2>1
    <2>3. Head(queue[p]) # "delete" => [kind |-> Head(queue[p]), read |-> row] \in Handler
      BY <2>2 DEF Kinds, Handler, TableTypes
    <2>4. queue' \in [Processes -> Seq(Kinds)]
      BY <1>1, <2>2 DEF ReceiveNotification, TableTypes
    <2>5. plugin' \in [Processes -> Row] /\ handling' \in [Processes -> Handler]
      BY <1>1, <2>3 DEF ReceiveNotification, TableTypes
    <2> QED
      BY <1>1, <2>4, <2>5 DEF ReceiveNotification, TableTypes
  <1>2. CASE HandleNotification(p)
    <2>1. handling[p].read \in Row /\ plugin[p] \in Row
      BY DEF TableTypes, Handler
    <2>2. Load(plugin[p], handling[p].read, handling[p].kind = "update") \in Row
      BY <2>1, LoadType
    <2> QED
      BY <1>2, <2>2 DEF HandleNotification, TableTypes
  <1>3. CASE Listen(p)
    BY <1>3 DEF Listen, TableTypes
  <1>4. CASE StartList(p)
    BY <1>4 DEF StartList, TableTypes
  <1>5. ASSUME NEW loads \in BOOLEAN, StartLoad(p, loads) PROVE TableTypes'
    <2>1. Load(plugin[p], listed[p], FALSE) \in Row
      BY LoadType DEF TableTypes
    <2> QED
      BY <1>5, <2>1 DEF StartLoad, TableTypes
  <1> QED
    BY <1>1, <1>2, <1>3, <1>4, <1>5 DEF ProcessStep

LEMMA FaultTypes ==
    ASSUME TableTypes, NEW p \in Processes, ProcessFault(p) PROVE TableTypes'
  <1> USE NoneType, KindsType
  <1>1. CASE ReceiveFails(p)
    <2>1. queue[p] \in Seq(Kinds) /\ queue[p] # <<>>
      BY <1>1 DEF ReceiveFails, TableTypes
    <2>2. Tail(queue[p]) \in Seq(Kinds)
      BY <2>1
    <2> QED
      BY <1>1, <2>2 DEF ReceiveFails, TableTypes
  <1>2. CASE HandleFails(p)
    BY <1>2 DEF HandleFails, TableTypes
  <1>3. CASE Disconnect(p)
    BY <1>3 DEF Disconnect, TableTypes
  <1> QED
    BY <1>1, <1>2, <1>3 DEF ProcessFault

\* Every action keeps the types of the table and its copies.
LEMMA NextTableTypes == Types /\ [Next]_vars => TableTypes'
  <1> SUFFICES ASSUME Types, [Next]_vars PROVE TableTypes'
    OBVIOUS
  <1> USE NoneType, KindsType, ConnectorTypes DEF Types
  <1>0. CASE UNCHANGED tableVars
    BY <1>0 DEF TableTypes, tableVars
  <1>0a. Connector \subseteq Row
    BY DEF Row
  <1>1. ASSUME NEW p \in Processes, ProcessStep(p) PROVE TableTypes'
    BY <1>1, ProcessTypes
  <1>1a. ASSUME NEW p \in Processes, ProcessFault(p) PROVE TableTypes'
    BY <1>1a, FaultTypes
  <1>2. ASSUME NEW p \in Processes, ProcessCrash(p) PROVE TableTypes'
    BY <1>2 DEF ProcessCrash, Crash, TableTypes
  <1>3. ASSUME NEW p \in Processes, InstallLoad(p) PROVE TableTypes'
    <2>1. Load(plugin[p], [deleting |-> FALSE, period |-> 1], FALSE) \in Row
      BY <1>0a, LoadType DEF TableTypes
    <2> QED
      BY <1>3, <2>1 DEF InstallLoad, SetPlugin, TableTypes
  <1>4. ASSUME NEW started \in BOOLEAN, InstallInsert(started) PROVE TableTypes'
    <2>1. row' \in Row /\ queue' \in [Processes -> Seq(Kinds)] /\ adrift' \in [Processes -> BOOLEAN]
      BY <1>0a, <1>4, ChangeRowType, AdriftType DEF InstallInsert, Commit
    <2> QED
      BY <1>4, <2>1 DEF InstallInsert, TableTypes
  <1>5. CASE InstallRefused
    BY <1>5, AdriftType DEF InstallRefused, TableTypes
  <1>6. ASSUME NEW q \in Processes, InstallCleanup(q) PROVE TableTypes'
    <2>1. row' \in Row /\ queue' \in [Processes -> Seq(Kinds)] /\ adrift' \in [Processes -> BOOLEAN]
      BY <1>6, ChangeRowType, AdriftType DEF InstallCleanup, Commit
    <2> QED
      BY <1>6, <2>1 DEF InstallCleanup, SetPlugin, TableTypes
  <1>7. ASSUME NEW q \in Processes, UninstallConnector(q) PROVE TableTypes'
    <2>1. row' \in Row /\ queue' \in [Processes -> Seq(Kinds)] /\ adrift' \in [Processes -> BOOLEAN]
      BY <1>7, ChangeRowType, AdriftType DEF UninstallConnector, Commit
    <2> QED
      BY <1>7, <2>1 DEF UninstallConnector, SetPlugin, TableTypes
  <1>8. CASE UpdateLoad
    <2>1. update.at \in Processes /\ update.read \in Row /\ updates \in Nat
      BY DEF WorkflowTypes, UpdateType
    <2>2. [update.read EXCEPT !.period = updates + 1] \in Row
      BY <1>0a, <2>1
    <2>3. Load(plugin[update.at], [update.read EXCEPT !.period = updates + 1], TRUE) \in Row
      BY <2>1, <2>2, LoadType DEF TableTypes
    <2> QED
      BY <1>8, <2>1, <2>3 DEF UpdateLoad, SetPlugin, TableTypes
  <1>9. CASE UpdateCommit
    <2>1. [row EXCEPT !.period = updates + 1] \in Row
      BY <1>0a DEF WorkflowTypes, TableTypes
    <2>2. row' \in Row /\ queue' \in [Processes -> Seq(Kinds)] /\ adrift' \in [Processes -> BOOLEAN]
      <3>1. CASE row # None
        BY <1>9, <2>1, <3>1, ChangeRowType, AdriftType DEF UpdateCommit, Commit
      <3>2. CASE row = None
        BY <1>9, <3>2, ChangeRowType, AdriftType DEF UpdateCommit, Commit
      <3> QED
        BY <3>1, <3>2
    <2> QED
      BY <1>9, <2>2 DEF UpdateCommit, TableTypes
  <1>10. CASE UpdateFails
    BY <1>10, AdriftType DEF UpdateFails, TableTypes
  <1>11. ASSUME NEW started \in BOOLEAN, UninstallRequest(started) PROVE TableTypes'
    <2>1. [row EXCEPT !.deleting = TRUE] \in Row
      BY <1>0a, <1>11 DEF TableTypes, UninstallRequest
    <2>2. row' \in Row /\ queue' \in [Processes -> Seq(Kinds)] /\ adrift' \in [Processes -> BOOLEAN]
      BY <1>11, <2>1, ChangeRowType, AdriftType DEF UninstallRequest, Commit
    <2> QED
      BY <1>11, <2>2 DEF UninstallRequest, TableTypes
  <1>12. ASSUME \/ \E q \in Processes : \/ \E accepted \in BOOLEAN : InstallPlugin(q, accepted)
                                       \/ InstallGet(q) \/ UpdateRead(q)
                                       \/ FetchAccounts(q) \/ CheckDeletion(q)
                \/ UpdateCheck \/ UpdateStart \/ UpdateStep \/ Fire
                \/ \E m \in Makers : MakerStep(m)
                \/ \E c \in late : CreateLate(c)
                \/ UninstallList \/ UninstallTerminate \/ \E accepted \in BOOLEAN : UninstallRows(accepted)
                \/ \E s \in Schedules : UninstallSchedule(s)
                \/ TerminateStep
         PROVE  UNCHANGED tableVars
    BY <1>12 DEF InstallPlugin, InstallGet, UpdateRead, FetchAccounts, CheckDeletion,
       UpdateCheck, UpdateStart, UpdateStep, UpdateList, UpdateSchedule, Fire, MakerStep, StoreSchedule,
       ReadPeriod, CreateSchedule, CreateLate, UninstallList, UninstallTerminate, UninstallRows,
       UninstallSchedule, TerminateStep, TerminateList, TerminateWorkflow
  <1>13. UNCHANGED vars => UNCHANGED tableVars
    BY DEF vars
  <1> QED
    BY <1>0, <1>1, <1>1a, <1>2, <1>3, <1>4, <1>5, <1>6, <1>7, <1>8, <1>9, <1>10, <1>11, <1>12, <1>13
       DEF Next, InstallStep, RunStep, UninstallStep

LEMMA RunningType == Running \subseteq Workflows
  BY DEF Running, Workflows

\* A workflow that creates schedules stays in its type.
LEMMA MakerTypes ==
    ASSUME WorkflowTypes, NEW m \in Makers,
           NEW pc \in {"idle", "start", "check", "row", "period", "create"}
    PROVE  /\ [makers EXCEPT ![m].pc = pc] \in [Makers -> MakerType]
           /\ [makers EXCEPT ![m] = Ready] \in [Makers -> MakerType]
           /\ [makers EXCEPT ![m] = [Ready EXCEPT !.pc = pc]] \in [Makers -> MakerType]
  <1>1. makers[m] \in MakerType
    BY DEF WorkflowTypes
  <1>2. [makers[m] EXCEPT !.pc = pc] \in MakerType /\ [Ready EXCEPT !.pc = pc] \in MakerType
    BY <1>1, ReadyType DEF MakerType
  <1> QED
    BY <1>2, ReadyType DEF WorkflowTypes

LEMMA CreatedType ==
    ASSUME WorkflowTypes, NEW s \in Schedules, NEW n \in Nat
    PROVE  Created(s, n) \in [Schedules -> Nat]
  BY DEF WorkflowTypes, Created

\* Every action keeps the types of the requests, workflows and schedules.
LEMMA NextWorkflowTypes == Types /\ [Next]_vars => WorkflowTypes'
  <1> SUFFICES ASSUME Types, [Next]_vars PROVE WorkflowTypes'
    OBVIOUS
  <1> USE LifecycleAssumption DEF Types
  <1>a. \A m \in Makers : Makes(m) \in Schedules
    BY DEF Makers, Makes, Schedules
  <1>b. faults + 1 \in Nat /\ updates + 1 \in Nat /\ uninstall.runs + 1 \in Nat
    BY DEF WorkflowTypes, UninstallType
  <1>c. "run" \in Makers /\ "tasks" \in Makers
    BY DEF Makers
  <1>1. ASSUME NEW p \in Processes, ProcessStep(p) PROVE WorkflowTypes'
    BY <1>1 DEF ProcessStep, wfVars, WorkflowTypes
  <1>1a. ASSUME NEW p \in Processes, ProcessFault(p) PROVE WorkflowTypes'
    BY <1>1a, <1>b DEF ProcessFault, WorkflowTypes
  <1>2. ASSUME NEW p \in Processes, ProcessCrash(p) PROVE WorkflowTypes'
    <2>1. install' \in InstallType /\ update' \in UpdateType
      BY <1>2 DEF ProcessCrash, WorkflowTypes, InstallType, UpdateType
    <2>2. unapplied' \in BOOLEAN
      BY <1>2 DEF ProcessCrash, WorkflowTypes
    <2> QED
      BY <1>2, <1>b, <2>1, <2>2 DEF ProcessCrash, WorkflowTypes
  <1>3. ASSUME NEW p \in Processes, InstallLoad(p) PROVE WorkflowTypes'
    <2>1. install' \in InstallType
      BY <1>3 DEF InstallLoad, InstallType
    <2> QED
      BY <1>3, <2>1 DEF InstallLoad, WorkflowTypes
  <1>4. ASSUME NEW started \in BOOLEAN, InstallInsert(started) PROVE WorkflowTypes'
    <2>1. install' \in InstallType
      BY <1>4 DEF InstallInsert, InstallType, WorkflowTypes
    <2> QED
      BY <1>4, <1>b, <2>1 DEF InstallInsert, CutShort, WorkflowTypes
  <1>5. CASE InstallRefused
    <2>1. install' \in InstallType
      BY <1>5 DEF InstallRefused, InstallType, WorkflowTypes
    <2> QED
      BY <1>5, <2>1 DEF InstallRefused, WorkflowTypes
  <1>6. ASSUME NEW q \in Processes, NEW accepted \in BOOLEAN, InstallPlugin(q, accepted)
        PROVE  WorkflowTypes'
    <2>1. install' \in InstallType
      BY <1>6 DEF InstallPlugin, InstallType, WorkflowTypes
    <2> QED
      BY <1>6, <2>1 DEF InstallPlugin, WorkflowTypes
  <1>7. ASSUME NEW q \in Processes, InstallGet(q) PROVE WorkflowTypes'
    <2>1. install' \in InstallType
      BY <1>7 DEF InstallGet, InstallType, WorkflowTypes
    <2>2. makers' \in [Makers -> MakerType]
      <3>1. [makers EXCEPT !["tasks"] = [Ready EXCEPT !.pc = "row"]] \in [Makers -> MakerType]
        BY <1>c, MakerTypes
      <3> QED
        BY <1>7, <3>1 DEF InstallGet, WorkflowTypes
    <2> QED
      BY <1>7, <2>1, <2>2 DEF InstallGet, WorkflowTypes
  <1>8. ASSUME NEW q \in Processes, InstallCleanup(q) PROVE WorkflowTypes'
    <2>1. install' \in InstallType
      BY <1>8 DEF InstallCleanup, InstallType, WorkflowTypes
    <2> QED
      BY <1>8, <2>1 DEF InstallCleanup, WorkflowTypes
  <1>9. CASE Fire
    BY <1>9, <1>c, MakerTypes DEF Fire, WorkflowTypes
  <1>10. ASSUME NEW q \in Processes, FetchAccounts(q) PROVE WorkflowTypes'
    <2>1. makers' \in [Makers -> MakerType]
      BY <1>10, <1>c, MakerTypes DEF FetchAccounts
    <2> QED
      BY <1>10, <2>1 DEF FetchAccounts, WorkflowTypes
  <1>11. ASSUME NEW q \in Processes, CheckDeletion(q) PROVE WorkflowTypes'
    <2>1. makers' \in [Makers -> MakerType]
      BY <1>11, <1>c, MakerTypes DEF CheckDeletion
    <2> QED
      BY <1>11, <2>1 DEF CheckDeletion, WorkflowTypes
  <1>12. ASSUME NEW m \in Makers, StoreSchedule(m) PROVE WorkflowTypes'
    <2>1. makers' \in [Makers -> MakerType] /\ rows' \subseteq Schedules
      <3>1. /\ [makers EXCEPT ![m].pc = "period"] \in [Makers -> MakerType]
            /\ [makers EXCEPT ![m] = Ready] \in [Makers -> MakerType]
        BY MakerTypes
      <3> QED
        BY <1>12, <1>a, <3>1 DEF StoreSchedule, WorkflowTypes
    <2> QED
      BY <1>12, <2>1 DEF StoreSchedule, WorkflowTypes
  <1>13. ASSUME NEW m \in Makers, ReadPeriod(m) PROVE WorkflowTypes'
    <2>1. [pc |-> "create", got |-> row.period] \in MakerType
      BY ConnectorTypes DEF MakerType, TableTypes
    <2>2. makers' \in [Makers -> MakerType]
      BY <1>13, <2>1, ReadyType DEF ReadPeriod, WorkflowTypes
    <2> QED
      BY <1>13, <2>2 DEF ReadPeriod, WorkflowTypes
  <1>14. ASSUME NEW m \in Makers, CreateSchedule(m) PROVE WorkflowTypes'
    <2>1. makers[m].got \in Nat
      BY DEF WorkflowTypes, MakerType
    <2>2. temporal' \in [Schedules -> Nat] /\ makers' \in [Makers -> MakerType]
      BY <1>14, <1>a, <2>1, CreatedType, ReadyType DEF CreateSchedule, WorkflowTypes
    <2> QED
      BY <1>14, <2>2 DEF CreateSchedule, WorkflowTypes
  <1>15. ASSUME NEW c \in late, CreateLate(c) PROVE WorkflowTypes'
    <2>1. c.schedule \in Schedules /\ c.period \in Nat
      BY DEF WorkflowTypes, LateType
    <2>2. temporal' \in [Schedules -> Nat]
      BY <1>15, <2>1, CreatedType DEF CreateLate
    <2> QED
      BY <1>15, <2>2 DEF CreateLate, WorkflowTypes
  <1>16. ASSUME NEW p \in Processes, UpdateRead(p) PROVE WorkflowTypes'
    <2>1. update' \in UpdateType
      BY <1>16 DEF UpdateRead, UpdateType, TableTypes
    <2> QED
      BY <1>16, <1>b, <2>1 DEF UpdateRead, WorkflowTypes
  <1>17. CASE UpdateLoad \/ UpdateCheck \/ UpdateCommit \/ UpdateFails
    <2>1. update' \in UpdateType
      BY <1>17 DEF UpdateLoad, UpdateCheck, UpdateCommit, UpdateFails, UpdateType, WorkflowTypes
    <2> QED
      BY <1>17, <2>1 DEF UpdateLoad, UpdateCheck, UpdateCommit, UpdateFails, WorkflowTypes
  <1>18. CASE UpdateStart
    <2>1. update' \in UpdateType /\ plugin[update.at].period \in Nat
      BY <1>18, ConnectorTypes DEF UpdateStart, UpdateType, WorkflowTypes, TableTypes
    <2>2. updateWf' \in UpdateWfType
      BY <1>18, <2>1 DEF UpdateStart, UpdateWfType, WorkflowTypes
    <2>3. unapplied' \in BOOLEAN
      BY <1>18 DEF UpdateStart
    <2> QED
      BY <1>18, <2>1, <2>2, <2>3 DEF UpdateStart, WorkflowTypes
  <1>19. CASE UpdateList
    <2>1. updateWf' \in UpdateWfType
      BY <1>19 DEF UpdateList, UpdateWfType, WorkflowTypes
    <2> QED
      BY <1>19, <2>1 DEF UpdateList, WorkflowTypes
  <1>20. ASSUME NEW s \in Schedules, UpdateSchedule(s) PROVE WorkflowTypes'
    <2>1. updateWf' \in UpdateWfType /\ updateWf.period \in Nat
      BY <1>20 DEF UpdateSchedule, UpdateWfType, WorkflowTypes
    <2>2. temporal' \in [Schedules -> Nat]
      BY <1>20, <2>1 DEF UpdateSchedule, WorkflowTypes
    <2> QED
      BY <1>20, <2>1, <2>2 DEF UpdateSchedule, WorkflowTypes
  <1>21. ASSUME NEW started \in BOOLEAN, UninstallRequest(started) PROVE WorkflowTypes'
    <2>1. uninstall' \in UninstallType
      BY <1>21, <1>b DEF UninstallRequest, UninstallType, WorkflowTypes
    <2> QED
      BY <1>21, <1>b, <2>1 DEF UninstallRequest, CutShort, WorkflowTypes
  <1>22. CASE UninstallList \/ \E accepted \in BOOLEAN : UninstallRows(accepted)
    <2>1. uninstall' \in UninstallType
      BY <1>22 DEF UninstallList, UninstallRows, UninstallType, WorkflowTypes
    <2> QED
      BY <1>22, <2>1 DEF UninstallList, UninstallRows, WorkflowTypes
  <1>23. ASSUME NEW s \in Schedules, UninstallSchedule(s) PROVE WorkflowTypes'
    <2>1. uninstall' \in UninstallType
      BY <1>23 DEF UninstallSchedule, UninstallType, WorkflowTypes
    <2>2. temporal' \in [Schedules -> Nat]
      BY <1>23 DEF UninstallSchedule, WorkflowTypes
    <2> QED
      BY <1>23, <2>1, <2>2 DEF UninstallSchedule, WorkflowTypes
  <1>24. CASE UninstallTerminate
    <2>1. uninstall' \in UninstallType /\ terminate' \in TerminateType
      BY <1>24 DEF UninstallTerminate, UninstallType, TerminateType, WorkflowTypes
    <2> QED
      BY <1>24, <2>1 DEF UninstallTerminate, WorkflowTypes
  <1>25. ASSUME NEW q \in Processes, UninstallConnector(q) PROVE WorkflowTypes'
    <2>1. uninstall' \in UninstallType
      BY <1>25 DEF UninstallConnector, UninstallType, WorkflowTypes
    <2> QED
      BY <1>25, <2>1 DEF UninstallConnector, WorkflowTypes
  <1>26. CASE TerminateList
    <2>1. terminate.lists - 1 \in Nat /\ terminate.todo \subseteq Workflows
      BY <1>26 DEF TerminateList, TerminateType, WorkflowTypes
    <2>2. terminate' \in TerminateType
      BY <1>26, <2>1, RunningType DEF TerminateList, TerminateType
    <2> QED
      BY <1>26, <2>2 DEF TerminateList, WorkflowTypes
  <1>27. ASSUME NEW w \in terminate.todo, TerminateWorkflow(w) PROVE WorkflowTypes'
    <2>1. terminate' \in TerminateType /\ install' \in InstallType
      BY <1>27 DEF TerminateWorkflow, TerminateType, InstallType, WorkflowTypes
    <2>2. updateWf' \in UpdateWfType /\ uninstall' \in UninstallType
      BY <1>27 DEF TerminateWorkflow, UpdateWfType, UninstallType, WorkflowTypes
    <2>3. makers' \in [Makers -> MakerType]
      BY <1>27, ReadyType DEF TerminateWorkflow, WorkflowTypes
    <2>4. w \in Makers => [schedule |-> Makes(w), period |-> makers[w].got] \in LateType
      BY <1>a DEF WorkflowTypes, LateType, MakerType
    <2>5. late' \subseteq LateType
      BY <1>27, <2>4 DEF TerminateWorkflow, WorkflowTypes
    <2> QED
      BY <1>27, <2>1, <2>2, <2>3, <2>5 DEF TerminateWorkflow, WorkflowTypes
  <1>28. CASE UNCHANGED vars
    BY <1>28 DEF vars, wfVars, WorkflowTypes
  <1> QED
    BY <1>1, <1>1a, <1>2, <1>3, <1>4, <1>5, <1>6, <1>7, <1>8, <1>9, <1>10, <1>11, <1>12, <1>13,
       <1>14, <1>15, <1>16, <1>17, <1>18, <1>19, <1>20, <1>21, <1>22, <1>23, <1>24, <1>25, <1>26,
       <1>27, <1>28
       DEF Next, InstallStep, RunStep, MakerStep, UpdateStep, UninstallStep, TerminateStep

\* The connector is only removed together with the rows of its schedules.
LEMMA NextRowsNeedConnector == Types /\ [Next]_vars => RowsNeedConnector'
  <1> SUFFICES ASSUME Types, [Next]_vars PROVE RowsNeedConnector'
    OBVIOUS
  <1> USE DEF Types, RowsNeedConnector
  <1>1. CASE UNCHANGED <<row, rows>>
    BY <1>1
  <1>2. ASSUME NEW started \in BOOLEAN, InstallInsert(started) PROVE row' # None
    BY <1>2, ConnectorTypes, NoneType DEF InstallInsert, Commit, ChangeRow
  <1>3. ASSUME NEW q \in Processes, InstallCleanup(q) \/ UninstallConnector(q) PROVE rows' = {}
    BY <1>3 DEF InstallCleanup, UninstallConnector
  <1>4. ASSUME NEW m \in Makers, StoreSchedule(m) PROVE RowsNeedConnector'
    BY <1>4 DEF StoreSchedule, tableVars
  <1>5. CASE UpdateCommit
    <2>1. CASE row = None
      BY <1>5, <2>1 DEF UpdateCommit
    <2>2. CASE row # None
      <3>1. row' = [row EXCEPT !.period = updates + 1]
        BY <1>5, <2>2 DEF UpdateCommit, Commit, ChangeRow
      <3>2. row' # None
        BY <3>1, ConnectorTypes, NoneType DEF TableTypes, WorkflowTypes
      <3> QED
        BY <3>2
    <2> QED
      BY <2>1, <2>2
  <1>6. ASSUME NEW started \in BOOLEAN, UninstallRequest(started) PROVE row' # None
    <2>1. row' = [row EXCEPT !.deleting = TRUE] /\ row # None
      BY <1>6 DEF UninstallRequest, Commit, ChangeRow
    <2> QED
      BY <2>1, ConnectorTypes, NoneType DEF TableTypes
  <1>7. ASSUME NEW accepted \in BOOLEAN, UninstallRows(accepted) PROVE rows' = {}
    BY <1>7 DEF UninstallRows
  <1>8. ASSUME \/ \E q \in Processes : \/ ProcessStep(q) \/ ProcessFault(q) \/ ProcessCrash(q)
                                      \/ InstallLoad(q) \/ InstallGet(q) \/ UpdateRead(q)
                                      \/ \E accepted \in BOOLEAN : InstallPlugin(q, accepted)
                                      \/ FetchAccounts(q) \/ CheckDeletion(q)
               \/ InstallRefused \/ UpdateLoad \/ UpdateCheck \/ UpdateFails \/ UpdateStart \/ UpdateStep \/ Fire
               \/ \E m \in Makers : ReadPeriod(m) \/ CreateSchedule(m)
               \/ \E c \in late : CreateLate(c)
               \/ UninstallList \/ UninstallTerminate
               \/ \E s \in Schedules : UninstallSchedule(s)
               \/ TerminateStep
               \/ UNCHANGED vars
        PROVE  UNCHANGED <<row, rows>>
    BY <1>8 DEF ProcessStep, ReceiveNotification, HandleNotification, Listen, StartList, StartLoad,
       ProcessFault, ReceiveFails, HandleFails, Disconnect, UpdateCheck, ProcessCrash, Crash, InstallLoad, InstallPlugin, InstallGet, UpdateRead, FetchAccounts,
       CheckDeletion, InstallRefused, UpdateLoad, UpdateFails,
       UpdateStart, UpdateStep, UpdateList, UpdateSchedule, Fire, ReadPeriod, CreateSchedule,
       CreateLate, UninstallList, UninstallTerminate,
       UninstallSchedule, TerminateStep, TerminateList, TerminateWorkflow, vars, tableVars, wfVars
  <1> QED
    BY <1>1, <1>2, <1>3, <1>4, <1>5, <1>6, <1>7, <1>8
       DEF Next, InstallStep, RunStep, MakerStep, UninstallStep

LEMMA NextTypes == Types /\ [Next]_vars => Types'
  BY NextTableTypes, NextWorkflowTypes, NextRowsNeedConnector DEF Types

LEMMA TypesImplyTypeOK == Types => TypeOK
  <1> SUFFICES ASSUME Types PROVE TypeOK
    OBVIOUS
  <1>1. \A p \in Processes : /\ plugin[p] \in Connector \cup {None}
                            /\ handling[p].kind \in {"none", "insert", "update"}
                            /\ stage[p] \in {"down", "loading", "up"}
    BY DEF Types, TableTypes, Handler, Row
  <1>2. \A m \in Makers : makers[m].pc \in {"idle", "start", "check", "row", "period", "create"}
    BY DEF Types, WorkflowTypes, MakerType
  <1> QED
    BY <1>1, <1>2 DEF Types, TableTypes, Row, WorkflowTypes, RowsNeedConnector, InstallType,
       UpdateType, UpdateWfType, UninstallType, TypeOK

\* The life cycle of a connector is type correct, and no row of a schedule outlives
\* its connector.
THEOREM LifecycleTypeCorrect == Spec => []TypeOK
  BY InitTypes, NextTypes, TypesImplyTypeOK, PTL DEF Spec

-----------------------------------------------------------------------------
(* Schedules are recorded before they are created.                         *)

LEMMA InitScheduleInv == LifecycleInit => ScheduleInv
  BY DEF LifecycleInit, ScheduleInv, NothingEarly, RecordedFirst, Ready

LEMMA NextScheduleInv == Types /\ ScheduleInv /\ [Next]_vars => ScheduleInv'
  <1> SUFFICES ASSUME Types, ScheduleInv, [Next]_vars PROVE ScheduleInv'
    OBVIOUS
  <1> USE DEF ScheduleInv, NothingEarly, RecordedFirst, Early
  <1>a. Types => WorkflowTypes
    BY DEF Types
  <1>b. "run" \in Makers /\ "tasks" \in Makers /\ \A m \in Makers : Makes(m) \in Schedules
    BY DEF Makers, Makes, Schedules
  <1>1. CASE UNCHANGED <<install, uninstall, terminate, makers, late, rows, temporal>>
    BY <1>1
  <1>2. ASSUME NEW p \in Processes, \/ ProcessCrash(p) \/ InstallLoad(p)
                                    \/ \E accepted \in BOOLEAN : InstallPlugin(p, accepted)
        PROVE  ScheduleInv'
    BY <1>2, <1>a DEF ProcessCrash, InstallLoad, InstallPlugin, WorkflowTypes, InstallType
  <1>3. ASSUME NEW started \in BOOLEAN, InstallInsert(started) PROVE ScheduleInv'
    BY <1>3, <1>a DEF InstallInsert, WorkflowTypes, InstallType
  <1>4. CASE InstallRefused
    BY <1>4, <1>a DEF InstallRefused, WorkflowTypes, InstallType
  <1>5. ASSUME NEW q \in Processes, InstallGet(q) PROVE ScheduleInv'
    BY <1>5, <1>a, <1>b DEF InstallGet, WorkflowTypes, InstallType, Ready
  <1>6. ASSUME NEW q \in Processes, InstallCleanup(q) PROVE ScheduleInv'
    BY <1>6, <1>a DEF InstallCleanup, WorkflowTypes, InstallType, Ready
  <1>7. CASE Fire
    BY <1>7, <1>a, <1>b DEF Fire, WorkflowTypes, MakerType, Schedules
  <1>8. ASSUME NEW q \in Processes, FetchAccounts(q) \/ CheckDeletion(q) PROVE ScheduleInv'
    BY <1>8, <1>a, <1>b DEF FetchAccounts, CheckDeletion, WorkflowTypes, MakerType, Ready
  <1>9. ASSUME NEW m \in Makers, StoreSchedule(m) PROVE ScheduleInv'
    BY <1>9, <1>a, <1>b DEF StoreSchedule, WorkflowTypes, MakerType, Ready
  <1>10. ASSUME NEW m \in Makers, ReadPeriod(m) PROVE ScheduleInv'
    BY <1>10, <1>a, <1>b DEF ReadPeriod, WorkflowTypes, MakerType, Ready
  <1>11. ASSUME NEW m \in Makers, CreateSchedule(m) PROVE ScheduleInv'
    BY <1>11, <1>a, <1>b DEF CreateSchedule, Created, WorkflowTypes, MakerType, Ready
  <1>12. ASSUME NEW c \in late, CreateLate(c) PROVE ScheduleInv'
    BY <1>12, <1>a DEF CreateLate, WorkflowTypes
  <1>13. CASE UpdateStep
    BY <1>13, <1>a DEF UpdateStep, UpdateList, UpdateSchedule, WorkflowTypes
  <1>14. ASSUME NEW started \in BOOLEAN, UninstallRequest(started) PROVE ScheduleInv'
    BY <1>14, <1>a DEF UninstallRequest, WorkflowTypes, UninstallType
  <1>15. CASE UninstallList \/ UninstallTerminate \/ \E accepted \in BOOLEAN : UninstallRows(accepted)
    BY <1>15, <1>a DEF UninstallList, UninstallTerminate, UninstallRows, WorkflowTypes, UninstallType
  <1>16. ASSUME NEW s \in Schedules, UninstallSchedule(s) PROVE ScheduleInv'
    BY <1>16, <1>a DEF UninstallSchedule, WorkflowTypes, UninstallType
  <1>17. ASSUME NEW q \in Processes, UninstallConnector(q) PROVE ScheduleInv'
    BY <1>17, <1>a DEF UninstallConnector, WorkflowTypes, UninstallType
  <1>18. CASE TerminateList
    BY <1>18, <1>a DEF TerminateList, WorkflowTypes
  <1>19. ASSUME NEW w \in terminate.todo, TerminateWorkflow(w) PROVE ScheduleInv'
    <2>1. uninstall.pc # "none" /\ ~(uninstall.pc = "list" /\ uninstall.runs <= 1)
      BY <1>19, <1>a DEF TerminateWorkflow, WorkflowTypes, UninstallType
    <2>2. /\ uninstall'.pc # "none" /\ ~(uninstall'.pc = "list" /\ uninstall'.runs <= 1)
          /\ uninstall'.runs = uninstall.runs
      BY <1>19, <1>a, <2>1 DEF TerminateWorkflow, WorkflowTypes, UninstallType
    <2>3. NothingEarly'
      BY <1>19, <1>a DEF TerminateWorkflow, WorkflowTypes, InstallType, MakerType, Ready
    <2> QED
      BY <2>2, <2>3
  <1>20. ASSUME \/ \E q \in Processes : ProcessStep(q) \/ ProcessFault(q) \/ UpdateRead(q)
                \/ UpdateLoad \/ UpdateCheck \/ UpdateCommit \/ UpdateFails \/ UpdateStart \/ UNCHANGED vars
         PROVE  UNCHANGED <<install, uninstall, terminate, makers, late, rows, temporal>>
    BY <1>20 DEF ProcessStep, ProcessFault, UpdateRead, UpdateLoad, UpdateCheck, UpdateCommit, UpdateFails, UpdateStart,
       vars, wfVars
  <1> QED
    BY <1>1, <1>2, <1>3, <1>4, <1>5, <1>6, <1>7, <1>8, <1>9, <1>10, <1>11, <1>12, <1>13, <1>14,
       <1>15, <1>16, <1>17, <1>18, <1>19, <1>20
       DEF Next, InstallStep, RunStep, MakerStep, UninstallStep, TerminateStep

\* Until the uninstallation lists the schedules of the connector, every Temporal
\* schedule is on that list, whatever processes, requests and workflows interleave.
THEOREM SchedulesAreRecorded == Spec => []SchedulesRecorded
  <1>1. ScheduleInv => SchedulesRecorded
    BY DEF ScheduleInv, RecordedFirst, SchedulesRecorded
  <1> QED
    BY <1>1, InitTypes, NextTypes, InitScheduleInv, NextScheduleInv, PTL DEF Spec

-----------------------------------------------------------------------------
(* Schedules poll with the period of the config.                           *)

LEMMA InitPeriodInv == LifecycleInit => PeriodInv
  <1> SUFFICES ASSUME LifecycleInit PROVE PeriodInv
    OBVIOUS
  <1>1. row = None
    BY DEF LifecycleInit, Init
  <1>2. NotInstalled
    BY <1>1 DEF LifecycleInit, NotInstalled
  <1> QED
    BY <1>1, <1>2 DEF LifecycleInit, PeriodInv

\* A schedule that is not recorded does not exist, and nobody is about to create it.
LEMMA UnrecordedInStep ==
    ASSUME Types, ScheduleInv, uninstall.pc = "none", NEW s \in Schedules, s \notin rows
    PROVE  InStep(s)
  BY DEF ScheduleInv, RecordedFirst, InStep

LEMMA NextPeriodInv == Types /\ ScheduleInv /\ PeriodInv /\ [Next]_vars => PeriodInv'
  <1> SUFFICES ASSUME Types, ScheduleInv, PeriodInv, [Next]_vars PROVE PeriodInv'
    OBVIOUS
  <1> USE DEF PeriodInv, NotInstalled
  <1>a. TableTypes /\ WorkflowTypes
    BY DEF Types
  <1>b. "run" \in Makers /\ "tasks" \in Makers /\ \A m \in Makers : Makes(m) \in Schedules
    BY DEF Makers, Makes, Schedules
  <1>1. CASE UNCHANGED <<row, install, update, updateWf, uninstall, makers, temporal, unapplied>>
    BY <1>1 DEF InStep
  <1>2. ASSUME NEW p \in Processes, ProcessCrash(p) PROVE PeriodInv'
    BY <1>2, <1>a DEF ProcessCrash, Crash, InStep, WorkflowTypes, InstallType, UpdateType
  <1>3. ASSUME NEW p \in Processes, InstallLoad(p) PROVE PeriodInv'
    BY <1>3, <1>a DEF InstallLoad, InStep, WorkflowTypes, InstallType
  <1>4. ASSUME NEW started \in BOOLEAN, InstallInsert(started) PROVE PeriodInv'
    <2>1. install'.pc \notin {"new", "loaded"}
      BY <1>4, <1>a DEF InstallInsert, WorkflowTypes, InstallType
    <2>2. \A s \in Schedules : InStep(s)'
      BY <1>4 DEF InstallInsert, ScheduleInv, NothingEarly, Early, InStep, Ready
    <2> QED
      BY <1>4, <2>1, <2>2 DEF InstallInsert
  <1>5. CASE InstallRefused
    BY <1>5, <1>a DEF InstallRefused, InStep, WorkflowTypes, InstallType
  <1>6. ASSUME NEW q \in Processes, NEW accepted \in BOOLEAN, InstallPlugin(q, accepted)
        PROVE  PeriodInv'
    BY <1>6, <1>a DEF InstallPlugin, InStep, WorkflowTypes, InstallType, tableVars
  <1>7. ASSUME NEW q \in Processes, InstallGet(q) PROVE PeriodInv'
    <2>1. \A s \in Schedules : InStep(s)'
      BY <1>7, <1>a, <1>b
         DEF InstallGet, ScheduleInv, NothingEarly, Early, InStep, Ready, WorkflowTypes, tableVars
    <2> QED
      BY <1>7, <1>a, <2>1 DEF InstallGet, WorkflowTypes, InstallType, tableVars
  <1>8. ASSUME NEW q \in Processes, InstallCleanup(q) \/ UninstallConnector(q) PROVE PeriodInv'
    <2>1. row' = None /\ UNCHANGED <<update, updateWf>>
      BY <1>8 DEF InstallCleanup, UninstallConnector, Commit, ChangeRow
    <2>2. install'.pc \in {"new", "loaded"} => install' = install
      BY <1>8, <1>a DEF InstallCleanup, UninstallConnector, WorkflowTypes, InstallType
    <2> QED
      BY <2>1, <2>2
  <1>9. CASE Fire
    BY <1>9, <1>a, <1>b DEF Fire, InStep, WorkflowTypes, MakerType, tableVars
  <1>10. ASSUME NEW q \in Processes, FetchAccounts(q) \/ CheckDeletion(q) PROVE PeriodInv'
    BY <1>10, <1>a, <1>b DEF FetchAccounts, CheckDeletion, InStep, WorkflowTypes, MakerType, tableVars
  <1>11. ASSUME NEW m \in Makers, StoreSchedule(m) PROVE PeriodInv'
    BY <1>11, <1>a DEF StoreSchedule, InStep, WorkflowTypes, MakerType, Ready, tableVars
  <1>12. ASSUME NEW m \in Makers, ReadPeriod(m) PROVE PeriodInv'
    BY <1>12, <1>a DEF ReadPeriod, InStep, WorkflowTypes, MakerType, Ready, tableVars
  <1>13. ASSUME NEW m \in Makers, CreateSchedule(m) PROVE PeriodInv'
    <2>1. \A s \in Schedules : InStep(s) => InStep(s)'
      BY <1>13, <1>a DEF CreateSchedule, Created, InStep, WorkflowTypes, MakerType, Ready, tableVars
    <2> QED
      BY <1>13, <2>1 DEF CreateSchedule, tableVars
  <1>14. ASSUME NEW c \in late, CreateLate(c) PROVE PeriodInv'
    BY <1>14 DEF CreateLate, ScheduleInv, RecordedFirst, tableVars
  <1>15. ASSUME NEW p \in Processes, UpdateRead(p) PROVE PeriodInv'
    BY <1>15 DEF UpdateRead, InStep, tableVars
  <1>16. CASE UpdateLoad \/ UpdateCheck \/ UpdateFails
    BY <1>16, <1>a DEF UpdateLoad, UpdateCheck, UpdateFails, InStep, WorkflowTypes, UpdateType, tableVars
  <1>17. CASE UpdateCommit
    BY <1>17, <1>a DEF UpdateCommit, WorkflowTypes, UpdateType
  <1>18. CASE UpdateStart
    <2>1. UNCHANGED <<row, install>> /\ install.pc \notin {"new", "loaded"}
      BY <1>18 DEF UpdateStart, tableVars
    <2>2. CASE updateWf' = updateWf
      BY <1>18, <2>1, <2>2 DEF UpdateStart
    <2>3. CASE updateWf' # updateWf
      <3>1. updateWf'.pc = "list" /\ updateWf'.todo = {}
        BY <1>18, <2>3 DEF UpdateStart
      <3>2. ~unapplied' => updateWf'.period = row.period
        BY <1>18, <2>3 DEF UpdateStart
      <3> QED
        BY <2>1, <3>1, <3>2
    <2> QED
      BY <2>2, <2>3
  <1>19. CASE UpdateList
    <2>1. uninstall.pc = "none" => \A s \in Schedules \ rows : InStep(s)
      BY UnrecordedInStep
    <2>2. \A s \in Schedules : InStep(s) => InStep(s)'
      BY <1>19 DEF UpdateList, InStep, tableVars
    <2>3. /\ updateWf'.todo = rows /\ updateWf'.period = updateWf.period
          /\ updateWf'.pc = IF rows = {} THEN "idle" ELSE "apply"
      BY <1>19, <1>a DEF UpdateList, WorkflowTypes, UpdateWfType
    <2> QED
      BY <1>19, <2>1, <2>2, <2>3 DEF UpdateList, tableVars
  <1>20. ASSUME NEW s \in Schedules, UpdateSchedule(s) PROVE PeriodInv'
    <2>1. \A t \in Schedules : t # s => (InStep(t) => InStep(t)')
      BY <1>20, <1>a DEF UpdateSchedule, InStep, WorkflowTypes, tableVars
    <2>2. row # None /\ updateWf.period = row.period => InStep(s)'
      <3>1. row # None => row.period # 0
        BY <1>a, ConnectorTypes DEF TableTypes, Connector, Periods
      <3> QED
        BY <1>20, <1>a, <3>1 DEF UpdateSchedule, InStep, WorkflowTypes, tableVars
    <2>3. /\ updateWf'.todo = updateWf.todo \ {s} /\ updateWf'.period = updateWf.period
          /\ updateWf'.pc = IF updateWf.todo = {s} THEN "idle" ELSE "apply"
      BY <1>20, <1>a DEF UpdateSchedule, WorkflowTypes, UpdateWfType
    <2> QED
      BY <1>20, <2>1, <2>2, <2>3 DEF UpdateSchedule, tableVars
  <1>21. ASSUME NEW started \in BOOLEAN, UninstallRequest(started) PROVE PeriodInv'
    <2>1. row # None /\ row'.period = row.period
      BY <1>21, <1>a, ConnectorTypes DEF UninstallRequest, Commit, ChangeRow, TableTypes, Connector
    <2>2. \A s \in Schedules : InStep(s) => InStep(s)'
      BY <1>21, <2>1 DEF UninstallRequest, InStep
    <2>3. uninstall'.pc = "none" => uninstall.pc = "none"
      BY <1>21 DEF UninstallRequest
    <2> QED
      BY <1>21, <2>1, <2>2, <2>3 DEF UninstallRequest
  <1>22. CASE UninstallList \/ UninstallTerminate \/ \E accepted \in BOOLEAN : UninstallRows(accepted)
    BY <1>22, <1>a DEF UninstallList, UninstallTerminate, UninstallRows, WorkflowTypes, UninstallType,
       tableVars
  <1>23. ASSUME NEW s \in Schedules, UninstallSchedule(s) PROVE PeriodInv'
    BY <1>23, <1>a DEF UninstallSchedule, WorkflowTypes, UninstallType, tableVars
  <1>24. CASE TerminateList
    BY <1>24 DEF TerminateList, InStep, tableVars
  <1>25. ASSUME NEW w \in terminate.todo, TerminateWorkflow(w) PROVE PeriodInv'
    <2>1. uninstall.pc # "none"
      BY <1>25 DEF TerminateWorkflow, ScheduleInv, RecordedFirst
    <2>2. uninstall'.pc # "none" /\ (install'.pc \in {"new", "loaded"} => install' = install)
      BY <1>25, <1>a, <2>1 DEF TerminateWorkflow, WorkflowTypes, UninstallType, InstallType
    <2>3. updateWf' = updateWf \/ (updateWf'.pc = "idle" /\ updateWf'.todo = {})
      BY <1>25, <1>a DEF TerminateWorkflow, WorkflowTypes, UpdateWfType
    <2> QED
      BY <1>25, <2>2, <2>3 DEF TerminateWorkflow, tableVars
  <1>26. ASSUME \/ \E q \in Processes : ProcessStep(q) \/ ProcessFault(q)
                \/ UNCHANGED vars
         PROVE  UNCHANGED <<row, install, update, updateWf, uninstall, makers, temporal, unapplied>>
    BY <1>26 DEF ProcessStep, ReceiveNotification, HandleNotification, Listen, StartList, StartLoad,
       ProcessFault, ReceiveFails, HandleFails, Disconnect,
       vars, tableVars, wfVars
  <1> QED
    BY <1>1, <1>2, <1>3, <1>4, <1>5, <1>6, <1>7, <1>8, <1>9, <1>10, <1>11, <1>12, <1>13, <1>14,
       <1>15, <1>16, <1>17, <1>18, <1>19, <1>20, <1>21, <1>22, <1>23, <1>24, <1>25, <1>26
       DEF Next, InstallStep, RunStep, MakerStep, UpdateStep, UninstallStep, TerminateStep

\* When updates are over, all schedules poll with the period of the config, also
\* those that were being created during an update.
THEOREM PeriodsDoAgree == Spec => []PeriodsAgree
  <1>1. Types /\ ScheduleInv /\ PeriodInv => PeriodsAgree
    <2> SUFFICES ASSUME Types, ScheduleInv, PeriodInv, update.pc = "idle", updateWf.pc = "idle",
                        uninstall.pc = "none", ~unapplied, NEW s \in Schedules
                 PROVE  temporal[s] \in {0, row.period}
      BY DEF PeriodsAgree
    <2>1. CASE row = None
      BY <2>1 DEF Types, RowsNeedConnector, ScheduleInv, RecordedFirst
    <2>2. CASE row # None
      BY <2>2 DEF PeriodInv, InStep
    <2> QED
      BY <2>1, <2>2
  <1> QED
    BY <1>1, InitTypes, NextTypes, InitScheduleInv, NextScheduleInv, InitPeriodInv, NextPeriodInv,
       PTL DEF Spec

-----------------------------------------------------------------------------
(* The managers converge to the table.                                     *)

LEMMA InitManagerInv == LifecycleInit => ManagerInv
  <1> SUFFICES ASSUME LifecycleInit PROVE ManagerInv
    OBVIOUS
  <1>1. RequestsAreUp
    BY DEF LifecycleInit, RequestsAreUp
  <1>2. ASSUME NEW p \in Processes PROVE CopyInv(p)
    BY <1>2 DEF LifecycleInit, Init, CopyInv, QueueInv, Converging, Fresh
  <1> QED
    BY <1>1, <1>2 DEF ManagerInv

\* A step of which process p sees nothing keeps its invariant.
LEMMA CopyFrame ==
    ASSUME NEW p \in Processes, CopyInv(p), row' = row,
           plugin'[p] = plugin[p], queue'[p] = queue[p], handling'[p] = handling[p],
           listening'[p] = listening[p], stage'[p] = stage[p], listed'[p] = listed[p],
           adrift[p] => adrift'[p], Ahead(p) => Ahead(p)' \/ adrift'[p]
    PROVE  CopyInv(p)'
  BY DEF CopyInv, QueueInv, Converging, Fresh

\* A change of the row reaches process p, or leaves it adrift.
LEMMA CopyChanged ==
    ASSUME TableTypes, NEW p \in Processes, CopyInv(p), NEW r \in Connector,
           NEW kinds \in {<<"update">>, <<"insert", "update">>}, Commit(r, kinds, {}),
           UNCHANGED <<plugin, handling, listening, stage, listed>>
    PROVE  CopyInv(p)'
  <1>1. row' = r /\ r # None
    BY NoneType DEF Commit, ChangeRow
  <1>2. adrift'[p] = (adrift[p] \/ (Informed(p) /\ ~listening[p]))
    BY <1>1 DEF Commit, Adrift, Missing
  <1>3. CASE listening[p]
    <2>1. queue[p] \in Seq(Kinds) /\ kinds \in Seq(Kinds) /\ queue'[p] = queue[p] \o kinds
      BY <1>3, KindsType DEF TableTypes, Commit, ChangeRow
    <2>2. queue'[p] # <<>> /\ queue'[p][Len(queue'[p])] = "update"
      <3>1. CASE kinds = <<"update">>
        BY <2>1, <3>1
      <3>2. CASE kinds = <<"insert", "update">>
        BY <2>1, <3>2
      <3> QED
        BY <3>1, <3>2
    <2> QED
      BY <1>1, <1>3, <2>2 DEF CopyInv, QueueInv, Converging
  <1>4. CASE ~listening[p]
    <2>1. queue'[p] = <<>> /\ queue[p] = <<>>
      BY <1>4 DEF Commit, ChangeRow, CopyInv, QueueInv
    <2>2. QueueInv(p)'
      BY <1>1, <1>4, <2>1 DEF CopyInv, QueueInv
    <2>3. CASE ~Informed(p)
      BY <1>4, <2>1, <2>2, <2>3 DEF Informed, CopyInv, QueueInv, Converging, Fresh
    <2>4. CASE Informed(p)
      BY <1>2, <1>4, <2>2, <2>4 DEF CopyInv
    <2> QED
      BY <2>3, <2>4
  <1> QED
    BY <1>3, <1>4

\* The deletion of the connector reaches process p, or leaves it adrift; process q,
\* which deletes it, unloads the plugin.
LEMMA CopyDeleted ==
    ASSUME TableTypes, NEW p \in Processes, CopyInv(p), NEW q \in Processes, Up(q),
           Commit(None, IF row = None THEN <<>> ELSE <<"delete">>, {}), SetPlugin(q, None),
           UNCHANGED <<handling, listening, stage, listed>>, Ahead(p)' = Ahead(p)
    PROVE  CopyInv(p)'
  <1>1. row' = None
    BY DEF Commit, ChangeRow
  <1>2. adrift'[p] = (adrift[p] \/ (Informed(p) /\ ~listening[p]) \/ stage[p] = "loading")
    BY DEF Commit, Adrift, Missing
  <1>3. plugin'[p] \in {None, plugin[p]} /\ (p = q => plugin'[p] = None)
    BY DEF SetPlugin, TableTypes
  <1>4. stage[p] \in {"down", "loading", "up"} /\ queue[p] \in Seq(Kinds)
    BY DEF TableTypes
  <1>5. CASE listening[p] /\ row # None
    <2>1. queue'[p] = queue[p] \o <<"delete">>
      BY <1>5 DEF Commit, ChangeRow
    <2>2. queue'[p] # <<>> /\ queue'[p][Len(queue'[p])] = "delete"
      BY <1>4, <2>1
    <2> QED
      BY <1>1, <1>2, <1>5, <2>2 DEF CopyInv, QueueInv, Converging
  <1>6. CASE listening[p] /\ row = None
    <2>1. queue'[p] = queue[p]
      BY <1>4, <1>6 DEF Commit, ChangeRow
    <2>2. QueueInv(p)'
      BY <1>1, <1>2, <1>6, <2>1 DEF CopyInv, QueueInv
    <2>3. ASSUME ~adrift'[p], ~Ahead(p)' PROVE Converging(p)'
      <3>1. Converging(p) /\ stage[p] # "loading"
        BY <1>2, <1>4, <2>3 DEF CopyInv
      <3>2. handling[p] # Nothing => handling[p].read # row
        BY <1>6 DEF CopyInv, QueueInv
      <3> QED
        BY <1>1, <1>3, <1>4, <1>6, <2>1, <3>1, <3>2 DEF Converging, Fresh
    <2> QED
      BY <2>2, <2>3 DEF CopyInv
  <1>7. CASE ~listening[p]
    <2>1. queue'[p] = <<>>
      BY <1>7 DEF Commit, ChangeRow, CopyInv, QueueInv
    <2>2. QueueInv(p)'
      BY <1>1, <1>2, <1>3, <1>7, <2>1 DEF CopyInv, QueueInv
    <2>3. CASE ~Informed(p)
      BY <1>1, <1>3, <1>7, <2>1, <2>2, <2>3 DEF Informed, CopyInv, QueueInv, Converging, Fresh
    <2>4. CASE Informed(p)
      BY <1>2, <1>7, <2>2, <2>4 DEF CopyInv
    <2> QED
      BY <2>3, <2>4
  <1> QED
    BY <1>5, <1>6, <1>7

LEMMA OneElement ==
    ASSUME NEW S, NEW s \in Seq(S), s # <<>>, Tail(s) = <<>> PROVE Head(s) = s[Len(s)]
  <1>1. Len(s) \in Nat /\ Len(Tail(s)) = Len(s) - 1 /\ Tail(s) \in Seq(S)
    OBVIOUS
  <1>2. Len(Tail(s)) = 0
    BY <1>1, EmptySeq
  <1>3. Len(s) = 1
    BY <1>1, <1>2
  <1>4. Head(s) = s[1]
    OBVIOUS
  <1> QED
    BY <1>3, <1>4

\* A step of process p itself.
LEMMA CopyStep ==
    ASSUME Types, NEW p \in Processes, CopyInv(p), RequestsAreUp, ProcessStep(p)
    PROVE  CopyInv(p)'
  <1>a. TableTypes
    BY DEF Types
  <1>b. row' = row /\ Ahead(p)' = Ahead(p)
    BY DEF ProcessStep, ReceiveNotification, HandleNotification, Listen, StartList, StartLoad,
       wfVars, Ahead
  <1>c. Ahead(p) => stage[p] = "up"
    BY DEF Ahead, RequestsAreUp
  <1>d. /\ stage[p] \in {"down", "loading", "up"} /\ plugin[p] \in Row /\ listed[p] \in Row
        /\ handling[p] \in Handler /\ queue[p] \in Seq(Kinds)
    BY <1>a DEF TableTypes
  <1>1. CASE ReceiveNotification(p)
    <2>1. /\ queue[p] # <<>> /\ handling[p] = Nothing /\ listening'[p] = listening[p]
          /\ stage'[p] = stage[p] /\ listed'[p] = listed[p] /\ queue'[p] = Tail(queue[p])
      BY <1>1, <1>a DEF ReceiveNotification, TableTypes
    <2>2. listening[p] /\ adrift'[p] =
             (adrift[p] /\ (Head(queue[p]) = "insert" \/ (row = None /\ stage[p] = "loading")))
      BY <1>1, <1>a, <2>1 DEF ReceiveNotification, TableTypes, CopyInv, QueueInv
    <2>3. queue'[p] # <<>> => queue'[p][Len(queue'[p])] = queue[p][Len(queue[p])]
      BY <1>d, <2>1
    <2>4. queue'[p] = <<>> => Head(queue[p]) = queue[p][Len(queue[p])]
      BY <1>d, <2>1, OneElement
    <2>5. \/ /\ Head(queue[p]) # "delete" /\ row # None /\ plugin'[p] = plugin[p]
             /\ handling'[p] = [kind |-> Head(queue[p]), read |-> row]
          \/ /\ Head(queue[p]) = "insert" /\ row = None /\ plugin'[p] = plugin[p]
             /\ handling'[p] = Nothing
          \/ /\ Head(queue[p]) # "insert" /\ (Head(queue[p]) = "delete" \/ row = None)
             /\ plugin'[p] = None /\ handling'[p] = Nothing
      <3>1. CASE Head(queue[p]) = "delete" \/ row = None
        BY <1>1, <1>a, <2>1, <3>1 DEF ReceiveNotification, TableTypes
      <3>2. CASE ~(Head(queue[p]) = "delete" \/ row = None)
        BY <1>1, <1>a, <2>1, <3>2 DEF ReceiveNotification, TableTypes
      <3> QED
        BY <3>1, <3>2
    <2>6. QueueInv(p)'
      <3>1. (~adrift'[p] /\ row = None /\ stage[p] = "loading") => ~adrift[p]
        BY <2>2
      <3>2. handling'[p] # Nothing => handling'[p].read # None
        BY <2>5
      <3> QED
        BY <1>b, <2>1, <2>2, <2>3, <3>1, <3>2 DEF CopyInv, QueueInv
    <2>7. ASSUME ~adrift'[p], queue'[p] = <<>> PROVE Converging(p)'
      <3>1. \/ Head(queue[p]) = "update"
            \/ Head(queue[p]) = "delete" /\ row = None
        BY <2>1, <2>4, <2>7 DEF CopyInv, QueueInv
      <3>2. CASE row # None
        BY <1>b, <2>5, <3>1, <3>2 DEF Converging, Nothing
      <3>3. CASE row = None
        <4>1. plugin'[p] = None /\ handling'[p] = Nothing
          BY <2>5, <3>1, <3>3
        <4>2. stage[p] = "loading" => listed[p] = None
          BY <2>2, <2>7, <3>3 DEF CopyInv, QueueInv
        <4> QED
          BY <1>b, <1>d, <2>1, <3>3, <4>1, <4>2 DEF Converging, Fresh
      <3> QED
        BY <3>2, <3>3
    <2> QED
      BY <1>b, <2>6, <2>7 DEF CopyInv, Converging
  <1>2. CASE HandleNotification(p)
    <2>1. /\ handling[p] # Nothing /\ handling'[p] = Nothing /\ queue'[p] = queue[p]
          /\ listening'[p] = listening[p] /\ stage'[p] = stage[p] /\ listed'[p] = listed[p]
          /\ adrift'[p] = adrift[p]
          /\ plugin'[p] = Load(plugin[p], handling[p].read, handling[p].kind = "update")
      BY <1>2, <1>a DEF HandleNotification, TableTypes
    <2>2. handling[p].read # None
      BY <2>1 DEF CopyInv, QueueInv
    <2>3. QueueInv(p)'
      BY <1>b, <2>1, <2>2 DEF CopyInv, QueueInv
    <2>4. ASSUME ~adrift[p], ~Ahead(p) PROVE Converging(p)'
      BY <1>b, <1>d, <2>1, <2>2, <2>4 DEF CopyInv, Converging, Fresh, Load
    <2> QED
      BY <1>b, <2>1, <2>3, <2>4 DEF CopyInv
  <1>3. CASE Listen(p)
    BY <1>3, <1>a, <1>b DEF Listen, TableTypes, CopyInv, QueueInv, Converging, Fresh
  <1>4. CASE StartList(p)
    <2>1. stage[p] = "down" /\ stage'[p] = "loading" /\ listed'[p] = row
      BY <1>4, <1>a DEF StartList, TableTypes
    <2>2. UNCHANGED <<plugin, queue, handling, listening, adrift>>
      BY <1>4 DEF StartList
    <2> QED
      BY <1>b, <1>c, <2>1, <2>2 DEF CopyInv, QueueInv, Converging, Fresh
  <1>5. ASSUME NEW loads \in BOOLEAN, StartLoad(p, loads) PROVE CopyInv(p)'
    <2>1. /\ stage[p] = "loading" /\ stage'[p] = "up" /\ listed'[p] = None
          /\ plugin'[p] = IF loads THEN Load(plugin[p], listed[p], FALSE) ELSE plugin[p]
          /\ adrift'[p] = (adrift[p] \/ ~loads)
      BY <1>5, <1>a DEF StartLoad, TableTypes
    <2>2. UNCHANGED <<queue, handling, listening>>
      BY <1>5 DEF StartLoad
    <2> QED
      BY <1>b, <1>c, <2>1, <2>2 DEF CopyInv, QueueInv, Converging, Fresh, Load
  <1> QED
    BY <1>1, <1>2, <1>3, <1>4, <1>5 DEF ProcessStep

\* An error of process p, or the loss of its connection.
LEMMA CopyFault ==
    ASSUME Types, NEW p \in Processes, CopyInv(p), ProcessFault(p)
    PROVE  CopyInv(p)'
  <1>a. TableTypes /\ queue[p] \in Seq(Kinds) /\ stage[p] \in {"down", "loading", "up"}
    BY DEF Types, TableTypes
  <1>b. row' = row /\ Ahead(p)' = Ahead(p)
    BY DEF ProcessFault, ReceiveFails, HandleFails, Disconnect, Ahead
  <1>1. CASE ReceiveFails(p)
    <2>1. /\ queue[p] # <<>> /\ handling'[p] = handling[p] /\ listening'[p] = listening[p]
          /\ stage'[p] = stage[p] /\ queue'[p] = Tail(queue[p]) /\ adrift'[p]
      BY <1>1, <1>a DEF ReceiveFails, TableTypes
    <2>2. queue'[p] # <<>> => queue'[p][Len(queue'[p])] = queue[p][Len(queue[p])]
      BY <1>a, <2>1
    <2>3. listening[p]
      BY <2>1 DEF CopyInv, QueueInv
    <2> QED
      BY <1>b, <2>1, <2>2, <2>3 DEF CopyInv, QueueInv
  <1>2. CASE HandleFails(p)
    <2>1. /\ handling'[p] = Nothing /\ queue'[p] = queue[p] /\ listening'[p] = listening[p]
          /\ stage'[p] = stage[p] /\ adrift'[p]
      BY <1>2, <1>a DEF HandleFails, TableTypes
    <2> QED
      BY <1>b, <2>1 DEF CopyInv, QueueInv
  <1>3. CASE Disconnect(p)
    <2>1. /\ queue'[p] = <<>> /\ ~listening'[p]
          /\ adrift'[p] = (adrift[p] \/ (queue[p] # <<>> /\ Informed(p)))
          /\ UNCHANGED <<plugin, handling, stage, listed>>
      BY <1>3, <1>a DEF Disconnect, TableTypes
    <2>2. QueueInv(p)'
      BY <1>b, <2>1 DEF CopyInv, QueueInv
    <2>3. ASSUME ~adrift'[p], ~Ahead(p) PROVE Converging(p)'
      <3>1. CASE queue[p] = <<>>
        BY <1>b, <2>1, <2>3, <3>1 DEF CopyInv, Converging, Fresh
      <3>2. CASE ~Informed(p)
        BY <1>b, <2>1, <3>2 DEF Informed, Converging, Fresh
      <3> QED
        BY <2>1, <2>3, <3>1, <3>2
    <2> QED
      BY <1>b, <2>2, <2>3 DEF CopyInv
  <1> QED
    BY <1>1, <1>2, <1>3 DEF ProcessFault

LEMMA NextManagerInv == Types /\ NotInstalled /\ ManagerInv /\ [Next]_vars => ManagerInv'
  <1> SUFFICES ASSUME Types, NotInstalled, ManagerInv, [Next]_vars PROVE ManagerInv'
    OBVIOUS
  <1>a. TableTypes /\ WorkflowTypes /\ install \in InstallType /\ update \in UpdateType
    BY DEF Types, WorkflowTypes
  <1>b. /\ [deleting |-> FALSE, period |-> 1] \in Connector
        /\ [row EXCEPT !.period = updates + 1] \in Connector
        /\ row # None => [row EXCEPT !.deleting = TRUE] \in Connector
    BY <1>a, ConnectorTypes DEF TableTypes, WorkflowTypes
  <1>c. RequestsAreUp /\ \A p \in Processes : CopyInv(p)
    BY DEF ManagerInv
  <1>1. ASSUME UNCHANGED tableVars, \A p \in Processes : Ahead(p) = Ahead(p)', RequestsAreUp'
        PROVE  ManagerInv'
    <2> SUFFICES ASSUME NEW p \in Processes PROVE CopyInv(p)'
      BY <1>1 DEF ManagerInv
    <2> QED
      BY <1>1, <1>c, CopyFrame DEF tableVars
  <1>2. ASSUME NEW q \in Processes, ProcessStep(q) \/ ProcessFault(q) PROVE ManagerInv'
    <2>1. UNCHANGED <<row, install, update>>
      BY <1>2 DEF ProcessStep, ReceiveNotification, HandleNotification, Listen, StartList,
         StartLoad, ProcessFault, ReceiveFails, HandleFails, Disconnect, wfVars
    <2>2. ASSUME NEW p \in Processes
          PROVE  /\ p # q => /\ plugin'[p] = plugin[p] /\ queue'[p] = queue[p]
                             /\ handling'[p] = handling[p] /\ listening'[p] = listening[p]
                             /\ stage'[p] = stage[p] /\ listed'[p] = listed[p]
                             /\ adrift'[p] = adrift[p]
                 /\ stage[p] = "up" => stage'[p] = "up"
      <3>1. CASE ProcessStep(q)
        BY <3>1, <1>a DEF ProcessStep, ReceiveNotification, HandleNotification, Listen, StartList,
           StartLoad, TableTypes
      <3>2. CASE ProcessFault(q)
        BY <3>2, <1>a DEF ProcessFault, ReceiveFails, HandleFails, Disconnect, TableTypes
      <3> QED
        BY <1>2, <3>1, <3>2
    <2>3. RequestsAreUp'
      BY <1>a, <1>c, <2>1, <2>2 DEF RequestsAreUp, InstallType, UpdateType
    <2>4. ASSUME NEW p \in Processes, p # q PROVE CopyInv(p)'
      <3>1. Ahead(p)' = Ahead(p)
        BY <2>1 DEF Ahead
      <3> QED
        BY <1>c, <2>1, <2>2, <2>4, <3>1, CopyFrame
    <2> QED
      BY <1>2, <1>c, <2>3, <2>4, CopyStep, CopyFault DEF ManagerInv
  <1>3. ASSUME NEW q \in Processes, ProcessCrash(q) PROVE ManagerInv'
    <2>1. RequestsAreUp'
      BY <1>3, <1>a, <1>c DEF RequestsAreUp, ProcessCrash, Crash, TableTypes, InstallType, UpdateType
    <2>2. ASSUME NEW p \in Processes, p # q PROVE CopyInv(p)'
      <3>1. /\ row' = row /\ plugin'[p] = plugin[p] /\ queue'[p] = queue[p]
            /\ handling'[p] = handling[p] /\ listening'[p] = listening[p]
            /\ stage'[p] = stage[p] /\ listed'[p] = listed[p] /\ adrift'[p] = adrift[p]
        BY <1>3, <1>a, <2>2 DEF ProcessCrash, Crash, TableTypes
      <3>2. Ahead(p)' = Ahead(p)
        BY <1>3, <1>a, <2>2 DEF ProcessCrash, Ahead, InstallType, UpdateType
      <3> QED
        BY <1>c, <3>1, <3>2, CopyFrame
    <2>3. CopyInv(q)'
      BY <1>3, <1>a DEF ProcessCrash, Crash, TableTypes, CopyInv, QueueInv, Converging, Fresh
    <2> QED
      BY <2>1, <2>2, <2>3 DEF ManagerInv
  <1>4. ASSUME NEW q \in Processes, InstallLoad(q) PROVE ManagerInv'
    <2>1. RequestsAreUp'
      BY <1>4, <1>c DEF RequestsAreUp, InstallLoad, Up
    <2>2. ASSUME NEW p \in Processes PROVE CopyInv(p)'
      <3>1. CASE p = q
        BY <1>4, <1>a, <1>c, <3>1 DEF InstallLoad, SetPlugin, Up, TableTypes, CopyInv, QueueInv, Ahead
      <3>2. CASE p # q
        <4>1. plugin'[p] = plugin[p] /\ (Ahead(p) => Ahead(p)')
          BY <1>4, <1>a, <3>2 DEF InstallLoad, SetPlugin, TableTypes, Ahead
        <4> QED
          BY <1>4, <1>c, <4>1, CopyFrame DEF InstallLoad
      <3> QED
        BY <3>1, <3>2
    <2> QED
      BY <2>1, <2>2 DEF ManagerInv
  <1>5. ASSUME NEW started \in BOOLEAN, InstallInsert(started) PROVE ManagerInv'
    <2>1. RequestsAreUp'
      BY <1>5, <1>a, <1>c DEF RequestsAreUp, InstallInsert, InstallType
    <2> QED
      BY <1>5, <1>a, <1>b, <1>c, <2>1, CopyChanged DEF InstallInsert, ManagerInv
  <1>6. CASE InstallRefused
    <2>1. RequestsAreUp'
      BY <1>6, <1>a, <1>c DEF RequestsAreUp, InstallRefused, InstallType
    <2>2. ASSUME NEW p \in Processes PROVE CopyInv(p)'
      <3>1. (adrift[p] => adrift'[p]) /\ (Ahead(p) => Ahead(p)' \/ adrift'[p])
        BY <1>6, <1>a DEF InstallRefused, Adrift, Ahead, TableTypes, InstallType
      <3> QED
        BY <1>6, <1>c, <3>1, CopyFrame DEF InstallRefused
    <2> QED
      BY <2>1, <2>2 DEF ManagerInv
  <1>7. ASSUME NEW q \in Processes, InstallCleanup(q) \/ UninstallConnector(q) PROVE ManagerInv'
    <2>1. RequestsAreUp'
      BY <1>7, <1>a, <1>c DEF RequestsAreUp, InstallCleanup, UninstallConnector, InstallType
    <2>2. \A p \in Processes : Ahead(p)' = Ahead(p)
      BY <1>7, <1>a DEF Ahead, InstallCleanup, UninstallConnector, InstallType
    <2> QED
      BY <1>7, <1>a, <1>c, <2>1, <2>2, CopyDeleted DEF InstallCleanup, UninstallConnector, ManagerInv
  <1>8. CASE UpdateLoad
    <2>1. RequestsAreUp'
      BY <1>8, <1>a, <1>c DEF RequestsAreUp, UpdateLoad, UpdateType
    <2>2. ASSUME NEW p \in Processes PROVE CopyInv(p)'
      <3>1. CASE p = update.at
        <4>1. Ahead(p)' /\ stage[p] = "up"
          BY <1>8, <1>a, <1>c, <3>1 DEF UpdateLoad, Ahead, RequestsAreUp, UpdateType
        <4> QED
          BY <1>8, <1>c, <4>1 DEF UpdateLoad, CopyInv, QueueInv
      <3>2. CASE p # update.at
        <4>1. plugin'[p] = plugin[p] /\ (Ahead(p) => Ahead(p)')
          BY <1>8, <1>a, <3>2 DEF UpdateLoad, SetPlugin, TableTypes, Ahead, UpdateType
        <4> QED
          BY <1>8, <1>c, <4>1, CopyFrame DEF UpdateLoad
      <3> QED
        BY <3>1, <3>2
    <2> QED
      BY <2>1, <2>2 DEF ManagerInv
  <1>9. CASE UpdateCommit
    <2>1. RequestsAreUp'
      BY <1>9, <1>a, <1>c DEF RequestsAreUp, UpdateCommit, UpdateType
    <2>2. CASE row # None
      BY <1>9, <1>a, <1>b, <1>c, <2>1, <2>2, CopyChanged DEF UpdateCommit, ManagerInv
    <2>3. CASE row = None
      <3>1. ASSUME NEW p \in Processes PROVE CopyInv(p)'
        <4>1. /\ row' = row /\ queue'[p] = queue[p] /\ (adrift[p] => adrift'[p])
              /\ p = update.at => adrift'[p]
          <5>1. queue[p] \in Seq(Kinds) /\ queue[p] \o <<>> = queue[p]
            BY <1>a DEF TableTypes
          <5>2. row' = row /\ queue'[p] = queue[p]
            BY <1>9, <2>3, <5>1 DEF UpdateCommit, Commit, ChangeRow
          <5>3. adrift'[p] = (adrift[p] \/ p \in Missing(None) \cup {update.at})
            BY <1>9, <2>3 DEF UpdateCommit, Commit, Adrift
          <5> QED
            BY <5>2, <5>3
        <4>2. Ahead(p) => Ahead(p)' \/ adrift'[p]
          BY <1>9, <4>1 DEF UpdateCommit, Ahead
        <4> QED
          BY <1>9, <1>c, <4>1, <4>2, CopyFrame DEF UpdateCommit
      <3> QED
        BY <2>1, <3>1 DEF ManagerInv
    <2> QED
      BY <2>2, <2>3
  <1>9a. CASE UpdateCheck
    BY <1>1, <1>9a, <1>a, <1>c DEF UpdateCheck, Ahead, RequestsAreUp, UpdateType, tableVars
  <1>10. CASE UpdateFails
    <2>1. RequestsAreUp'
      BY <1>10, <1>a, <1>c DEF RequestsAreUp, UpdateFails, UpdateType
    <2>2. ASSUME NEW p \in Processes PROVE CopyInv(p)'
      <3>1. (adrift[p] => adrift'[p]) /\ (Ahead(p) => Ahead(p)' \/ adrift'[p])
        BY <1>10, <1>a DEF UpdateFails, Adrift, Ahead, TableTypes, UpdateType
      <3> QED
        BY <1>10, <1>c, <3>1, CopyFrame DEF UpdateFails
    <2> QED
      BY <2>1, <2>2 DEF ManagerInv
  <1>11. ASSUME NEW started \in BOOLEAN, UninstallRequest(started) PROVE ManagerInv'
    <2>1. RequestsAreUp'
      BY <1>11, <1>c DEF RequestsAreUp, UninstallRequest
    <2> QED
      BY <1>11, <1>a, <1>b, <1>c, <2>1, CopyChanged DEF UninstallRequest, ManagerInv
  <1>12. ASSUME NEW p \in Processes, UpdateRead(p) PROVE ManagerInv'
    BY <1>1, <1>12, <1>c DEF UpdateRead, Ahead, RequestsAreUp, Up, tableVars
  <1>13. CASE UpdateStart
    BY <1>1, <1>13, <1>a, <1>c DEF UpdateStart, Ahead, RequestsAreUp, UpdateType, tableVars
  <1>14. ASSUME NEW q \in Processes,
                InstallGet(q) \/ \E accepted \in BOOLEAN : InstallPlugin(q, accepted)
         PROVE  ManagerInv'
    BY <1>1, <1>14, <1>a, <1>c DEF InstallPlugin, InstallGet, Ahead, RequestsAreUp, InstallType, tableVars
  <1>15. ASSUME NEW w \in terminate.todo, TerminateWorkflow(w) PROVE ManagerInv'
    <2>1. install' = install \/ (install'.pc # "loaded" /\ install.pc # "loaded")
      BY <1>15, <1>a DEF TerminateWorkflow, Running, Makers, InstallType
    <2> QED
      BY <1>1, <1>15, <1>c, <2>1 DEF TerminateWorkflow, Ahead, RequestsAreUp, tableVars
  <1>16. ASSUME \/ \E q \in Processes : FetchAccounts(q) \/ CheckDeletion(q)
                \/ UpdateStep \/ Fire
                \/ \E m \in Makers : MakerStep(m)
                \/ \E c \in late : CreateLate(c)
                \/ UninstallList \/ UninstallTerminate \/ \E accepted \in BOOLEAN : UninstallRows(accepted)
                \/ \E s \in Schedules : UninstallSchedule(s)
                \/ TerminateList
                \/ UNCHANGED vars
         PROVE  UNCHANGED <<tableVars, install, update>>
    BY <1>16 DEF FetchAccounts, CheckDeletion, UpdateStep, UpdateList, UpdateSchedule, Fire,
       MakerStep, StoreSchedule, ReadPeriod, CreateSchedule, CreateLate, UninstallList,
       UninstallTerminate, UninstallRows, UninstallSchedule, TerminateList, vars, wfVars
  <1>17. UNCHANGED <<tableVars, install, update>> => ManagerInv'
    BY <1>1, <1>c DEF Ahead, RequestsAreUp, tableVars
  <1> QED
    BY <1>2, <1>3, <1>4, <1>5, <1>6, <1>7, <1>8, <1>9, <1>9a, <1>10, <1>11, <1>12, <1>13, <1>14,
       <1>15, <1>16, <1>17
       DEF Next, InstallStep, RunStep, UninstallStep, TerminateStep

\* A process that has handled its notifications has loaded what the table says,
\* unless a change was lost on it and nothing has made good for it since.
THEOREM ManagersDoConverge == Spec => []ManagersConverge
  <1>1. ManagerInv => ManagersConverge
    BY DEF ManagerInv, ManagersConverge, CopyInv, Converging, Fresh, Settled, Ahead
  <1>2. PeriodInv => NotInstalled
    BY DEF PeriodInv
  <1> QED
    BY <1>1, <1>2, InitTypes, NextTypes, InitScheduleInv, NextScheduleInv, InitPeriodInv,
       NextPeriodInv, InitManagerInv, NextManagerInv, PTL DEF Spec

=============================================================================
