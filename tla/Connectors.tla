----------------------------- MODULE Connectors -----------------------------
(***************************************************************************)
(* The connectors table and the copies of it that every process keeps: the *)
(* manager's map of loaded plugins, filled when the process starts and     *)
(* kept up to date by LISTEN/NOTIFY on the table.                          *)
(*                                                                         *)
(* One connector.  Of its configuration only the polling period matters.   *)
(* A process is a server (engine) or a worker pool: both start, listen and *)
(* handle notifications in the same way.                                   *)
(***************************************************************************)
EXTENDS Integers, Sequences

CONSTANTS Processes

VARIABLES
    row,        \* the connector in the database, or None
    plugin,     \* per process: the loaded plugin, or None
    queue,      \* per process: notifications of the table not handled yet
    handling,   \* per process: the handler that has read the row, or Nothing
    listening,  \* per process: LISTEN is in effect
    stage,      \* per process: "down", "loading" (has listed the table), "up"
    listed,     \* per process: the row as listed by OnStart
    adrift      \* history, per process: a change of the table was lost on it,
                \* and no later notification has made good for it

tableVars == <<row, plugin, queue, handling, listening, stage, listed, adrift>>

None == [deleting |-> FALSE, period |-> 0]
Periods == Nat \ {0}
Connector == [deleting : BOOLEAN, period : Periods]

Nothing == [kind |-> "none", read |-> None]

Init ==
    /\ row = None
    /\ plugin = [p \in Processes |-> None]
    /\ queue = [p \in Processes |-> <<>>]
    /\ handling = [p \in Processes |-> Nothing]
    /\ listening = [p \in Processes |-> TRUE]
    /\ stage = [p \in Processes |-> "up"]
    /\ listed = [p \in Processes |-> None]
    /\ adrift = [p \in Processes |-> FALSE]

-----------------------------------------------------------------------------
(* The manager.                                                            *)

\* Load: a plugin that is there is replaced only with updateExisting.
Load(old, r, updateExisting) ==
    IF old # None /\ ~updateExisting THEN old ELSE r

-----------------------------------------------------------------------------
(* The table.  Every committed change notifies the processes that listen.  *)

\* The row becomes r; the triggers send kinds, in order.
ChangeRow(r, kinds) ==
    /\ row' = r
    /\ queue' = [p \in Processes |-> IF listening[p] THEN queue[p] \o kinds ELSE queue[p]]

\* Process p has read the table since it started.
Informed(p) == stage[p] # "down" \/ plugin[p] # None \/ handling[p] # Nothing

\* Processes that a change to r escapes: they have read the table and are not
\* listening, or they will load what they listed after its deletion.
Missing(r) ==
    {p \in Processes : \/ Informed(p) /\ ~listening[p]
                       \/ stage[p] = "loading" /\ r = None}

Adrift(S) == adrift' = [p \in Processes |-> adrift[p] \/ p \in S]

-----------------------------------------------------------------------------
(* The handlers of the notifications; a process handles one at a time.     *)

\* onInsertPlugin, onUpdatePlugin: ConnectorsGet; onDeletePlugin: Unload.  An
\* insert of a row that is gone is an error, an update of it a delete.  What an
\* update reads, or a delete unloads, is current whatever was lost before.
ReceiveNotification(p) ==
    /\ queue[p] # <<>> /\ handling[p] = Nothing
    /\ queue' = [queue EXCEPT ![p] = Tail(@)]
    /\ LET kind == Head(queue[p])
       IN  /\ IF kind = "delete" \/ row = None
              THEN /\ plugin' = IF kind = "insert" THEN plugin
                                ELSE [plugin EXCEPT ![p] = None]
                   /\ UNCHANGED handling
              ELSE /\ handling' = [handling EXCEPT ![p] = [kind |-> kind, read |-> row]]
                   /\ UNCHANGED plugin
           /\ adrift' = [adrift EXCEPT ![p] =
                            @ /\ (kind = "insert" \/ (row = None /\ stage[p] = "loading"))]
    /\ UNCHANGED <<row, listening, stage, listed>>

\* ConnectorsGet fails otherwise: the listener logs the error and goes on.
ReceiveFails(p) ==
    /\ queue[p] # <<>> /\ handling[p] = Nothing /\ Head(queue[p]) # "delete"
    /\ queue' = [queue EXCEPT ![p] = Tail(@)]
    /\ adrift' = [adrift EXCEPT ![p] = TRUE]
    /\ UNCHANGED <<row, plugin, handling, listening, stage, listed>>

\* Fault: an update does not replace the plugin that is loaded.
BadHandleNotification(p) ==
    /\ handling[p] # Nothing
    /\ plugin' = [plugin EXCEPT ![p] = Load(@, handling[p].read, FALSE)]
    /\ handling' = [handling EXCEPT ![p] = Nothing]
    /\ UNCHANGED <<row, queue, listening, stage, listed, adrift>>

\* The rest of onInsertPlugin, onUpdatePlugin: Load what was read.
HandleNotification(p) ==
    /\ handling[p] # Nothing
    /\ plugin' = [plugin EXCEPT ![p] = Load(@, handling[p].read, handling[p].kind = "update")]
    /\ handling' = [handling EXCEPT ![p] = Nothing]
    /\ UNCHANGED <<row, queue, listening, stage, listed, adrift>>

\* Load fails, as when the plugin cannot be made: what was loaded stays.
HandleFails(p) ==
    /\ handling[p] # Nothing
    /\ handling' = [handling EXCEPT ![p] = Nothing]
    /\ adrift' = [adrift EXCEPT ![p] = TRUE]
    /\ UNCHANGED <<row, plugin, queue, listening, stage, listed>>

-----------------------------------------------------------------------------
(* Stop and start.  OnStart begins to listen in the background and lists   *)
(* the table without waiting for it.                                       *)

Crash(p) ==
    /\ stage[p] = "up"
    /\ stage' = [stage EXCEPT ![p] = "down"]
    /\ plugin' = [plugin EXCEPT ![p] = None]
    /\ queue' = [queue EXCEPT ![p] = <<>>]
    /\ handling' = [handling EXCEPT ![p] = Nothing]
    /\ listening' = [listening EXCEPT ![p] = FALSE]
    /\ adrift' = [adrift EXCEPT ![p] = FALSE]
    /\ UNCHANGED <<row, listed>>

\* ListenConnectorsChanges: the goroutine has reached the database, at the start or
\* after the connection was lost.  There is no backlog.
Listen(p) ==
    /\ ~listening[p] /\ handling[p] = Nothing
    /\ listening' = [listening EXCEPT ![p] = TRUE]
    /\ UNCHANGED <<row, plugin, queue, handling, stage, listed, adrift>>

\* The connection is lost, with the notifications it has not delivered yet.
Disconnect(p) ==
    /\ listening[p]
    /\ listening' = [listening EXCEPT ![p] = FALSE]
    /\ queue' = [queue EXCEPT ![p] = <<>>]
    /\ adrift' = [adrift EXCEPT ![p] = @ \/ (queue[p] # <<>> /\ Informed(p))]
    /\ UNCHANGED <<row, plugin, handling, stage, listed>>

\* OnStart: ConnectorsList.
StartList(p) ==
    /\ stage[p] = "down"
    /\ stage' = [stage EXCEPT ![p] = "loading"]
    /\ listed' = [listed EXCEPT ![p] = row]
    /\ UNCHANGED <<row, plugin, queue, handling, listening, adrift>>

\* OnStart: onStartPlugin.  If Load fails, the process runs without the plugin.
StartLoad(p, loads) ==
    /\ stage[p] = "loading"
    /\ loads \/ (plugin[p] = None /\ listed[p] # None)
    /\ stage' = [stage EXCEPT ![p] = "up"]
    /\ plugin' = IF loads THEN [plugin EXCEPT ![p] = Load(@, listed[p], FALSE)] ELSE plugin
    /\ listed' = [listed EXCEPT ![p] = None]
    /\ adrift' = [adrift EXCEPT ![p] = @ \/ ~loads]
    /\ UNCHANGED <<row, queue, handling, listening>>

-----------------------------------------------------------------------------
\* The copy of process p is expected to be current.
Settled(p) ==
    /\ stage[p] = "up" /\ listening[p]
    /\ queue[p] = <<>> /\ handling[p] = Nothing
=============================================================================
