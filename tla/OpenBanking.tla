---------------------------- MODULE OpenBanking ----------------------------
(***************************************************************************)
(* One payment service user on one open banking connector: forwarding the  *)
(* user, linking bank connections, the provider's webhooks and the fetches *)
(* they start, and the three workflows that delete the user, the user on   *)
(* the connector, or one connection.                                       *)
(*                                                                         *)
(* Two plugins announce a connection in different ways:                    *)
(*   "plaid"   the webhook of a finished session starts the completion of  *)
(*             the link, which stores the connection; later webhooks name  *)
(*             the connection only, and say that data can be fetched;      *)
(*   "powens"  the browser's redirect completes the attempt; the webhook   *)
(*             of a synchronised connection names the provider's user and  *)
(*             creates the connection and brings its data.                 *)
(*                                                                         *)
(* Foreign keys: rows of the user need the user, data needs the connection *)
(* and both are deleted with what they need (migrations 18, 22 and 23).    *)
(***************************************************************************)
EXTENDS Integers, Sequences, FiniteSets

CONSTANTS Plugins,
          MaxConnections, \* bound on the provider's connections
          MaxAttempts,    \* bound on link attempts
          MaxForwards,    \* bound on calls of ForwardPaymentServiceUser
          MaxEvents       \* bound on what comes from outside: requests,
                          \* webhooks, repetitions, crashes, lost results

ASSUME OpenBankingAssumption ==
    /\ Plugins \subseteq {"plaid", "powens"}
    /\ {MaxConnections, MaxAttempts, MaxForwards, MaxEvents} \subseteq Nat

VARIABLES
    plugin,
    psu,        \* the user's row exists
    fwd,        \* forwarded user's row: the provider's user, 0 if no row
    attempts,   \* status of an attempt's row, or "none"
    conns,      \* status of a connection's row, or "none"
    data,       \* kinds of rows that belong to a connection
    users,      \* the provider's users; call n of the API creates user n
    items,      \* the provider's connections: [state, owner]
    forward,    \* calls of ForwardPaymentServiceUser
    link,       \* per attempt: the call that creates its link, and the session
    complete,   \* per attempt: the workflow completeUserLink
    notices,    \* webhooks in the order of sending, with their workflows
    del,        \* deletions: the workflow, and the calls that asked for it
    task,       \* and their tasks
    events,     \* events from outside so far
    history     \* [raced, unserved, overlapped, revived, late, unrecorded]

rows == <<psu, fwd, attempts, conns, data>>
provider == <<users, items>>
bounds == <<plugin, events>>
vars == <<rows, provider, bounds, forward, link, complete, notices, del, task, history>>

Kinds == {"accounts", "payments"}
Deletions == {"user", "connector", "connection"}

\* Identifiers are taken in order; 0 is none of them.
Connections == 1 .. MaxConnections
ConnectionOrNone == 0 .. MaxConnections
Attempts == 1 .. MaxAttempts
Calls == 1 .. MaxForwards

\* One more event from outside.
Event == events < MaxEvents /\ events' = events + 1 /\ UNCHANGED plugin

Idle == {"none", "failed", "done"}
Forwarding == \E n \in Calls : forward[n] \in {"checked", "created"}
Removing == \E k \in {"user", "connector"} : del[k].pc \notin Idle

\* Every variable holds a value of its type; a deletion task exists once its
\* deletion was asked for.
TypeOK ==
    /\ plugin \in Plugins /\ psu \in BOOLEAN
    /\ fwd \in 0 .. MaxForwards /\ users \subseteq Calls
    /\ attempts \in [Attempts -> {"none", "pending", "completed", "exited"}]
    /\ conns \in [Connections -> {"none", "ACTIVE", "ERROR"}]
    /\ data \in [Connections -> SUBSET Kinds]
    /\ items \in [Connections -> [state : {"new", "up", "down", "gone"}, owner : 0 .. MaxForwards]]
    /\ forward \in [Calls -> {"new", "checked", "created", "done"}]
    /\ \A a \in Attempts : link[a].pc \in {"new", "plugin", "given", "linked", "exited", "error"}
    /\ complete \in [Attempts -> {"new", "start", "store", "connection", "done"}]
    /\ \A n \in DOMAIN notices : notices[n].got \cap notices[n].left = {}
    /\ task \in [Deletions -> {"none", "PROCESSING", "SUCCEEDED", "FAILED"}]
    /\ \A k \in Deletions, c \in ConnectionOrNone :
         del[k].pc # "none" \/ del[k].asked[c] > 0 => task[k] # "none"

Init ==
    /\ plugin \in Plugins
    /\ psu = TRUE /\ fwd = 0
    /\ attempts = [a \in Attempts |-> "none"]
    /\ conns = [c \in Connections |-> "none"]
    /\ data = [c \in Connections |-> {}]
    /\ users = {} /\ items = [c \in Connections |-> [state |-> "new", owner |-> 0]]
    /\ forward = [n \in Calls |-> "new"]
    /\ link = [a \in Attempts |-> [pc |-> "new", conn |-> 0, user |-> 0]]
    /\ complete = [a \in Attempts |-> "new"]
    /\ notices = <<>>
    /\ del = [k \in Deletions |-> [pc |-> "none", conn |-> 0, user |-> 0,
                                   asked |-> [c \in ConnectionOrNone |-> 0]]]
    /\ task = [k \in Deletions |-> "none"]
    /\ events = 0
    /\ history = [raced |-> FALSE, unserved |-> {}, overlapped |-> {}, revived |-> {}, late |-> FALSE,
                  unrecorded |-> {}]

-----------------------------------------------------------------------------
(* ForwardPaymentServiceUser: an API call, not a workflow.                 *)

\* The user must not be forwarded yet, and must exist.
Forward(n) ==
    /\ forward[n] = "new" /\ fwd = 0 /\ psu
    /\ \A m \in Calls : m < n => forward[m] # "new"
    /\ forward' = [forward EXCEPT ![n] = "checked"]
    /\ history' = [history EXCEPT !.raced = @ \/ Forwarding \/ Removing]
    /\ Event
    /\ UNCHANGED <<rows, provider, link, complete, notices, del, task>>

\* plugin.CreateUser, which may fail.
CreateUser(n) ==
    /\ forward[n] = "checked"
    /\ \/ /\ users' = users \cup {n}
          /\ forward' = [forward EXCEPT ![n] = "created"]
       \/ /\ forward' = [forward EXCEPT ![n] = "done"]
          /\ UNCHANGED users
    /\ UNCHANGED <<rows, items, bounds, link, complete, notices, del, task, history>>

\* The row is written, over another one, unless the user was deleted.
OpenBankingForwardedUserUpsert(n) ==
    /\ forward[n] = "created"
    /\ fwd' = IF psu THEN n ELSE fwd
    /\ forward' = [forward EXCEPT ![n] = "done"]
    /\ UNCHANGED <<psu, attempts, conns, data, provider, bounds, link, complete, notices, del, task, history>>

\* The process stops before the row is written.
ForwardLost(n) ==
    /\ forward[n] = "created" /\ Event
    /\ forward' = [forward EXCEPT ![n] = "done"]
    /\ history' = [history EXCEPT !.raced = TRUE]
    /\ UNCHANGED <<rows, provider, link, complete, notices, del, task>>

-----------------------------------------------------------------------------
(* Links.                                                                  *)

StartLink(a, c) ==
    /\ link[a].pc = "new" /\ psu /\ fwd # 0 /\ Event
    /\ \A b \in Attempts : b < a => link[b].pc # "new"
    /\ attempts' = [attempts EXCEPT ![a] = "pending"]
    /\ link' = [link EXCEPT ![a] = [pc |-> "plugin", conn |-> c, user |-> fwd]]
    /\ UNCHANGED <<psu, fwd, conns, data, provider, forward, complete, notices, del, task, history>>

CreatePaymentServiceUserLink(a) ==
    LET used == {link[b].conn : b \in Attempts}
    IN  \E c \in Connections \ used : 1 .. c - 1 \subseteq used /\ StartLink(a, c)

\* A new session for a connection that is there.
UpdatePaymentServiceUserLink(a) ==
    \E c \in Connections : conns[c] # "none" /\ StartLink(a, c)

\* The plugin creates the link; the attempt is stored again with its token.
LinkCreated(a) ==
    /\ link[a].pc = "plugin"
    /\ \/ /\ link[a].user \in users /\ psu
          /\ attempts' = [attempts EXCEPT ![a] = "pending"]
          /\ link' = [link EXCEPT ![a].pc = "given"]
       \/ /\ link' = [link EXCEPT ![a].pc = "error"]
          /\ UNCHANGED attempts
    /\ UNCHANGED <<psu, fwd, conns, data, provider, bounds, forward, complete, notices, del, task, history>>

Notice(kind, c, a) ==
    [pc |-> "sent", kind |-> kind, conn |-> c, attempt |-> a,
     user |-> IF plugin = "powens" THEN items[c].owner ELSE 0, left |-> {}, got |-> {}]

InFlight(c) ==
    {n \in DOMAIN notices : notices[n].conn = c /\ notices[n].pc \notin {"done", "failed"}}

\* The provider sends a webhook; overlapped: before an earlier one about the
\* same connection was handled.
Send(notice) ==
    /\ Event
    /\ notices' = Append(notices, notice)
    /\ history' = IF InFlight(notice.conn) = {} THEN history
                  ELSE [history EXCEPT !.overlapped = @ \cup {notice.conn}]

\* A CONNECTION_SYNCED of powens is cut into one webhook per account: without
\* accounts nothing is left of it, whatever the state that it announces.
Announce(notice) ==
    \/ Send(notice)
    \/ plugin = "powens" /\ Event /\ UNCHANGED <<notices, history>>

\* The user finishes the session with a connection that works.
SessionLinked(a) ==
    LET c == link[a].conn
        item == [state |-> "up", owner |-> link[a].user]
    IN  /\ link[a].pc = "given" /\ link[a].user \in users
        /\ items[c].state # "gone"
        /\ items' = [items EXCEPT ![c] = item]
        /\ link' = [link EXCEPT ![a].pc = "linked"]
        /\ Announce([Notice(IF plugin = "plaid" THEN "session" ELSE "sync", c, a)
                    EXCEPT !.user = IF plugin = "powens" THEN item.owner ELSE 0])
        /\ UNCHANGED <<rows, users, forward, complete, del, task>>

\* Or leaves it.
SessionExited(a) ==
    /\ link[a].pc = "given"
    /\ link' = [link EXCEPT ![a].pc = "exited"]
    /\ IF plugin = "plaid" THEN Send(Notice("session", link[a].conn, a))
                           ELSE UNCHANGED <<notices, history, bounds>>
    /\ UNCHANGED <<rows, provider, forward, complete, del, task>>

\* The completion can be started if the attempt exists, once per attempt
\* (REJECT_DUPLICATE).
Completed(a) ==
    IF complete[a] = "new" THEN [complete EXCEPT ![a] = "start"] ELSE complete

\* powens: the browser comes back from the session, or never does.
PaymentServiceUsersCompleteLinkFlow(a) ==
    /\ plugin = "powens" /\ link[a].pc \in {"linked", "exited"}
    /\ attempts[a] # "none" /\ complete[a] = "new"
    /\ complete' = Completed(a)
    /\ UNCHANGED <<rows, provider, bounds, forward, link, notices, del, task, history>>

-----------------------------------------------------------------------------
(* The workflow completeUserLink.                                          *)

\* The attempt is read and the plugin called, which may refuse.
CompleteCall(a) ==
    /\ complete[a] = "start"
    /\ \/ /\ attempts[a] # "none"
          /\ complete' = [complete EXCEPT ![a] = "store"]
       \/ complete' = [complete EXCEPT ![a] = "done"]
    /\ UNCHANGED <<rows, provider, bounds, forward, link, notices, del, task, history>>

CompleteStore(a) ==
    /\ complete[a] = "store"
    /\ attempts' = IF ~psu THEN attempts
                   ELSE [attempts EXCEPT ![a] = IF link[a].pc = "linked" THEN "completed" ELSE "exited"]
    /\ complete' = [complete EXCEPT ![a] = IF psu /\ link[a].pc = "linked" /\ plugin = "plaid"
                                           THEN "connection" ELSE "done"]
    /\ UNCHANGED <<psu, fwd, conns, data, provider, bounds, forward, link, notices, del, task, history>>

\* Fault: no foreign key to the user.
BadConnectionsUpsert(c, status) ==
    conns' = [conns EXCEPT ![c] = status]

\* OpenBankingConnectionsUpsert: fails without the user.
OpenBankingConnectionsUpsert(c, status) ==
    conns' = IF psu THEN [conns EXCEPT ![c] = status] ELSE conns

\* revived: the row comes back after the provider's connection is gone.
NoteRevived(c) ==
    history' = IF psu /\ items[c].state = "gone"
               THEN [history EXCEPT !.revived = @ \cup {c}] ELSE history

CompleteConnection(a) ==
    /\ complete[a] = "connection"
    /\ OpenBankingConnectionsUpsert(link[a].conn, "ACTIVE")
    /\ NoteRevived(link[a].conn)
    /\ complete' = [complete EXCEPT ![a] = "done"]
    /\ UNCHANGED <<psu, fwd, attempts, data, provider, bounds, forward, link, notices, del, task>>

-----------------------------------------------------------------------------
(* Webhooks: one workflow each (runHandleWebhooks), all of them concurrent.*)

NoticeAt(n, pc) == n \in DOMAIN notices /\ notices[n].pc = pc
Step(n, pc) == notices' = [notices EXCEPT ![n].pc = pc]

ItemDown(c) ==
    /\ items[c].state = "up"
    /\ items' = [items EXCEPT ![c].state = "down"]
    /\ Announce(Notice("down", c, 0))
    /\ UNCHANGED <<rows, users, forward, link, complete, del, task>>

\* powens synchronises again; plaid has no such webhook.
ItemSynced(c) ==
    /\ plugin = "powens" /\ items[c].state \in {"up", "down"}
    /\ items' = [items EXCEPT ![c].state = "up"]
    /\ Announce(Notice("sync", c, 0))
    /\ UNCHANGED <<rows, users, forward, link, complete, del, task>>

\* plaid has data to fetch.
ItemUpdated(c) ==
    /\ plugin = "plaid" /\ items[c].state = "up"
    /\ Send(Notice("data", c, 0))
    /\ UNCHANGED <<rows, provider, forward, link, complete, del, task>>

\* A webhook has no idempotency key: a second delivery is handled again.
NoticeAgain(n) ==
    /\ NoticeAt(n, "done") /\ Event
    /\ Step(n, "sent")
    /\ history' = IF \E m \in DOMAIN notices : m > n /\ notices[m].conn = notices[n].conn
                  THEN [history EXCEPT !.overlapped = @ \cup {notices[n].conn}] ELSE history
    /\ UNCHANGED <<rows, provider, forward, link, complete, del, task>>

\* plaid, session: the translation calls back, then the status is written.
SessionTranslate(n) ==
    /\ NoticeAt(n, "sent") /\ notices[n].kind = "session"
    /\ LET a == notices[n].attempt
           calls == link[a].pc = "linked"
       IN  /\ Step(n, IF calls /\ attempts[a] = "none" THEN "failed" ELSE "status")
           /\ complete' = IF calls /\ attempts[a] # "none" THEN Completed(a) ELSE complete
    /\ UNCHANGED <<rows, provider, bounds, forward, link, del, task, history>>

OpenBankingConnectionAttemptsUpdateStatus(n) ==
    /\ NoticeAt(n, "status")
    /\ LET a == notices[n].attempt
       IN  IF attempts[a] = "none" THEN Step(n, "failed") /\ UNCHANGED attempts
           ELSE /\ Step(n, "done")
                /\ attempts' = [attempts EXCEPT ![a] = IF link[a].pc = "linked" THEN "completed" ELSE "exited"]
    /\ UNCHANGED <<psu, fwd, conns, data, provider, bounds, forward, link, complete, del, task, history>>

\* The connection is looked up, then the forwarded user if the webhook names
\* the provider's user.
Known(n) == conns[notices[n].conn] # "none" \/ (fwd # 0 /\ notices[n].user = fwd)

\* late: the webhook is handled while the user is removed from the connector.
NoteLate == history' = [history EXCEPT !.late = @ \/ del["connector"].pc \notin Idle]

\* The user of the connection is found, or the webhook fails.
NoticeRead(n) ==
    /\ NoticeAt(n, "sent") /\ notices[n].kind \in {"down", "sync"}
    /\ Step(n, IF Known(n) THEN "store" ELSE "failed")
    /\ NoteLate
    /\ UNCHANGED <<rows, provider, bounds, forward, link, complete, del, task>>

\* Fault: a disconnected connection is stored as active.
BadNoticeStore(n) ==
    LET notice == notices[n]
    IN  /\ NoticeAt(n, "store")
        /\ OpenBankingConnectionsUpsert(notice.conn, "ACTIVE")
        /\ NoteRevived(notice.conn)
        /\ Step(n, IF psu THEN IF notice.kind = "sync" THEN "accounts" ELSE "done" ELSE "failed")
        /\ UNCHANGED <<psu, fwd, attempts, data, provider, bounds, forward, link, complete, del, task>>

\* The status is written, and created with it if need be.
NoticeStore(n) ==
    LET notice == notices[n]
    IN  /\ NoticeAt(n, "store")
        /\ OpenBankingConnectionsUpsert(notice.conn, IF notice.kind = "sync" THEN "ACTIVE" ELSE "ERROR")
        /\ NoteRevived(notice.conn)
        /\ Step(n, IF psu THEN IF notice.kind = "sync" THEN "accounts" ELSE "done" ELSE "failed")
        /\ UNCHANGED <<psu, fwd, attempts, data, provider, bounds, forward, link, complete, del, task>>

\* powens: the account, then its payments; the forwarded user is looked up
\* for each, and got is what is about to be stored.
SyncRead(n, k) ==
    /\ NoticeAt(n, k) /\ notices[n].got = {}
    /\ notices' = [notices EXCEPT ![n] = IF fwd # 0 /\ @.user = fwd THEN [@ EXCEPT !.got = {k}]
                                         ELSE [@ EXCEPT !.pc = "failed"]]
    /\ UNCHANGED <<rows, provider, bounds, forward, link, complete, del, task, history>>

\* Accounts and payments reference their connection.
Upsert(c, k) == data' = IF conns[c] = "none" THEN data ELSE [data EXCEPT ![c] = @ \cup {k}]

SyncStore(n, k) ==
    /\ NoticeAt(n, k) /\ notices[n].got = {k}
    /\ Upsert(notices[n].conn, k)
    /\ notices' = [notices EXCEPT ![n].got = {}, ![n].pc =
                       IF conns[notices[n].conn] = "none" THEN "failed"
                       ELSE IF k = "accounts" THEN "payments" ELSE "done"]
    /\ UNCHANGED <<psu, fwd, attempts, conns, provider, bounds, forward, link, complete, del, task, history>>

\* plaid: FetchOpenBankingData, accounts and payments side by side.
StartFetch(n) ==
    /\ NoticeAt(n, "sent") /\ notices[n].kind = "data"
    /\ notices' = [notices EXCEPT ![n] = IF conns[@.conn] = "none" THEN [@ EXCEPT !.pc = "failed"]
                                         ELSE [@ EXCEPT !.pc = "fetch", !.left = Kinds]]
    /\ NoteLate
    /\ UNCHANGED <<rows, provider, bounds, forward, link, complete, del, task>>

\* Fault: a kind of data that was fetched is fetched again.
BadFetchNext(n, k) ==
    /\ NoticeAt(n, "fetch") /\ k \in notices[n].left
    /\ LET c == notices[n].conn
       IN  notices' = [notices EXCEPT ![n].got = IF items[c].state = "up" THEN @ \cup {k} ELSE @]
    /\ UNCHANGED <<rows, provider, bounds, forward, link, complete, del, task, history>>

\* The plugin is asked; a connection that does not work is an error.
FetchNext(n, k) ==
    /\ NoticeAt(n, "fetch") /\ k \in notices[n].left
    /\ LET c == notices[n].conn
       IN  notices' = [notices EXCEPT ![n].left = @ \ {k},
                           ![n].got = IF items[c].state = "up" THEN @ \cup {k} ELSE @]
    /\ UNCHANGED <<rows, provider, bounds, forward, link, complete, del, task, history>>

FetchStore(n, k) ==
    /\ NoticeAt(n, "fetch") /\ k \in notices[n].got
    /\ Upsert(notices[n].conn, k)
    /\ notices' = [notices EXCEPT ![n].got = @ \ {k}]
    /\ UNCHANGED <<psu, fwd, attempts, conns, provider, bounds, forward, link, complete, del, task, history>>

\* data_updated_at, in a row that may be gone, unless a fetch failed.
FetchDone(n) ==
    /\ NoticeAt(n, "fetch") /\ notices[n].left = {} /\ notices[n].got = {}
    /\ Step(n, "done")
    /\ UNCHANGED <<rows, provider, bounds, forward, link, complete, del, task, history>>

-----------------------------------------------------------------------------
(* Deletions.  A deletion's workflow identifier holds the user and, but    *)
(* for "user", the connector, not the connection.                          *)

\* The task is set to PROCESSING; asked counts the calls that come so far.
Request(k, c) ==
    /\ k = "user" => psu
    /\ Event
    /\ task' = [task EXCEPT ![k] = "PROCESSING"]
    /\ del' = [del EXCEPT ![k].asked[c] = @ + 1]
    /\ UNCHANGED <<rows, provider, forward, link, complete, notices, history>>

DeletePaymentServiceUser == Request("user", 0)
DeletePaymentServiceUserConnector == Request("connector", 0)
DeletePaymentServiceUserConnection == \E c \in Connections : Request("connection", c)

\* Then the workflow starts, unless one with its identifier runs or succeeded
\* (ALLOW_DUPLICATE_FAILED_ONLY), silently.
ExecuteDeletion(k, c) ==
    /\ del[k].asked[c] > 0
    /\ LET asked == [del EXCEPT ![k].asked[c] = @ - 1]
       IN  IF del[k].pc \in {"none", "failed"}
           THEN /\ del' = [asked EXCEPT ![k].pc = "read", ![k].conn = c, ![k].user = 0]
                /\ history' = [history EXCEPT
                       !.raced = @ \/ (k # "connection" /\ Forwarding),
                       !.late = @ \/ (k = "connector" /\ \E b \in Connections : InFlight(b) # {}),
                       !.unserved = @ \ {k}]
           ELSE /\ del' = asked
                /\ history' = [history EXCEPT !.unserved = @ \cup {k}]
    /\ UNCHANGED <<rows, provider, bounds, forward, link, complete, notices, task>>

\* Or the process stops, or Temporal returns an error: the task stays.
DeletionNotStarted(k, c) ==
    /\ del[k].asked[c] > 0 /\ Event
    /\ del' = [del EXCEPT ![k].asked[c] = @ - 1]
    /\ history' = [history EXCEPT !.unserved = @ \cup {k}]
    /\ UNCHANGED <<rows, provider, forward, link, complete, notices, task>>

Move(k, pc) == del' = [del EXCEPT ![k].pc = pc]

\* The rows that the plugin needs are read.
DeleteRead(k) ==
    /\ del[k].pc = "read"
    /\ IF psu /\ (k = "user" \/ fwd # 0) /\ (k = "connection" => conns[del[k].conn] # "none")
       THEN del' = [del EXCEPT ![k].pc = "plugin", ![k].user = fwd]
       ELSE Move(k, "failing")
    /\ UNCHANGED <<rows, provider, bounds, forward, link, complete, notices, task, history>>

Gone(c) == [items EXCEPT ![c].state = "gone"]

\* PluginDeleteUser for the forwarded user, if any, or
\* PluginDeleteUserConnection.
DeletedAtProvider(k) ==
    IF k = "connection" THEN items' = Gone(del[k].conn) /\ UNCHANGED users
    ELSE /\ users' = users \ {del[k].user}
         /\ items' = [c \in Connections |->
                        IF items[c].owner = del[k].user /\ del[k].user # 0
                        THEN [items[c] EXCEPT !.state = "gone"] ELSE items[c]]

\* The provider deletes and says so; it deletes, the answer is lost and the
\* repetition is refused; or it refuses at once.  A refusal is not repeated.
DeleteCall(k) ==
    /\ del[k].pc = "plugin"
    /\ \/ /\ DeletedAtProvider(k) /\ Move(k, "payments")
          /\ UNCHANGED <<bounds, history>>
       \/ /\ k = "user" => del[k].user # 0
          /\ DeletedAtProvider(k) /\ Move(k, "failing") /\ Event
          /\ history' = [history EXCEPT !.unrecorded =
                             IF k = "connection" THEN @ ELSE @ \cup {del[k].user}]
       \/ /\ k = "user" => del[k].user # 0
          /\ Move(k, "failing")
          /\ UNCHANGED <<provider, bounds, history>>
    /\ UNCHANGED <<rows, forward, link, complete, notices, task>>

\* Fault: data is deleted by connection only.
BadDeleteData(k, kind) ==
    data' = [c \in Connections |-> IF del[k].conn = c THEN data[c] \ {kind} ELSE data[c]]

\* Of the user, of the user on the connector, or of the connection.
DeleteData(k, kind) ==
    data' = [c \in Connections |->
                IF del[k].conn \in {0, c} THEN data[c] \ {kind} ELSE data[c]]

DeleteOpenBankingConnectionData(k) ==
    /\ \/ /\ del[k].pc = "payments" /\ DeleteData(k, "payments") /\ Move(k, "accounts")
       \/ /\ del[k].pc = "accounts" /\ DeleteData(k, "accounts") /\ Move(k, "row")
    /\ UNCHANGED <<psu, fwd, attempts, conns, provider, bounds, forward, link, complete, notices, task, history>>

\* The user and all that references it.
PaymentServiceUsersDelete ==
    /\ psu' = FALSE /\ fwd' = 0
    /\ attempts' = [a \in Attempts |-> "none"]
    /\ conns' = [c \in Connections |-> "none"]
    /\ data' = [c \in Connections |-> {}]

\* Fault: the data does not go with its connection.
BadConnectionsDelete(c) ==
    /\ conns' = [conns EXCEPT ![c] = "none"]
    /\ UNCHANGED <<psu, fwd, attempts, data>>

OpenBankingConnectionsDelete(c) ==
    /\ conns' = [conns EXCEPT ![c] = "none"]
    /\ data' = [data EXCEPT ![c] = {}]
    /\ UNCHANGED <<psu, fwd, attempts>>

\* Fault: the row of the forwarded user stays.
BadForwardedUserDelete ==
    UNCHANGED rows

OpenBankingForwardedUserDelete ==
    /\ fwd' = 0
    /\ UNCHANGED <<psu, attempts, conns, data>>

\* The row; a user that is not there is an error, so a repetition after a
\* lost result fails.
DeleteRow(k) ==
    /\ del[k].pc = "row"
    /\ CASE k = "user" /\ ~psu -> UNCHANGED rows
         [] k = "user" /\ psu  -> PaymentServiceUsersDelete
         [] k = "connector"    -> OpenBankingForwardedUserDelete
         [] k = "connection"   -> OpenBankingConnectionsDelete(del[k].conn)
    /\ \/ /\ Move(k, IF k = "user" /\ ~psu THEN "failing" ELSE "succeeding")
          /\ UNCHANGED bounds
       \/ /\ Event
          /\ UNCHANGED del
    /\ UNCHANGED <<provider, forward, link, complete, notices, task, history>>

\* Fault: the error is not written to the task.
BadDeleteEnd(k) ==
    /\ del[k].pc \in {"failing", "succeeding"}
    /\ Move(k, IF del[k].pc = "failing" THEN "failed" ELSE "done")
    /\ task' = [task EXCEPT ![k] = IF del[k].pc = "failing" THEN @ ELSE "SUCCEEDED"]
    /\ UNCHANGED <<rows, provider, bounds, forward, link, complete, notices, history>>

\* updateTasksError, updateTaskSuccess; a failed workflow fails.
DeleteEnd(k) ==
    /\ del[k].pc \in {"failing", "succeeding"}
    /\ Move(k, IF del[k].pc = "failing" THEN "failed" ELSE "done")
    /\ task' = [task EXCEPT ![k] = IF del[k].pc = "failing" THEN "FAILED" ELSE "SUCCEEDED"]
    /\ UNCHANGED <<rows, provider, bounds, forward, link, complete, notices, history>>

-----------------------------------------------------------------------------

ForwardStep(n) == CreateUser(n) \/ OpenBankingForwardedUserUpsert(n)
CompleteStep(a) == CompleteCall(a) \/ CompleteStore(a) \/ CompleteConnection(a)
NoticeStep(n) ==
    \/ SessionTranslate(n) \/ OpenBankingConnectionAttemptsUpdateStatus(n)
    \/ NoticeRead(n) \/ NoticeStore(n) \/ StartFetch(n) \/ FetchDone(n)
    \/ \E k \in Kinds : SyncRead(n, k) \/ SyncStore(n, k) \/ FetchNext(n, k) \/ FetchStore(n, k)
DeleteStep(k) ==
    \/ DeleteRead(k) \/ DeleteCall(k) \/ DeleteOpenBankingConnectionData(k)
    \/ DeleteRow(k) \/ DeleteEnd(k)

Next ==
    \/ \E n \in Calls : Forward(n) \/ ForwardStep(n) \/ ForwardLost(n)
    \/ \E a \in Attempts :
         \/ CreatePaymentServiceUserLink(a) \/ UpdatePaymentServiceUserLink(a) \/ LinkCreated(a)
         \/ SessionLinked(a) \/ SessionExited(a)
         \/ PaymentServiceUsersCompleteLinkFlow(a) \/ CompleteStep(a)
    \/ \E c \in Connections : ItemDown(c) \/ ItemSynced(c) \/ ItemUpdated(c)
    \/ \E n \in 1 .. MaxEvents : NoticeStep(n) \/ NoticeAgain(n)
    \/ DeletePaymentServiceUser \/ DeletePaymentServiceUserConnector
    \/ DeletePaymentServiceUserConnection
    \/ \E k \in Deletions :
         \/ DeleteStep(k)
         \/ \E c \in ConnectionOrNone : ExecuteDeletion(k, c) \/ DeletionNotStarted(k, c)

Spec == Init /\ [][Next]_vars

WorkflowStep ==
    \/ \E n \in 1 .. MaxEvents : NoticeStep(n)
    \/ \E a \in Attempts : CompleteStep(a)
    \/ \E k \in Deletions : DeleteStep(k) \/ \E c \in ConnectionOrNone : ExecuteDeletion(k, c)

\* Temporal goes on with some workflow, and a call that asks for a deletion goes
\* on unless its process stops; each of them has finitely many steps.
FairSpec == Spec /\ WF_vars(WorkflowStep)

-----------------------------------------------------------------------------
(* Properties.                                                             *)

\* A deletion of the user that succeeded leaves no row of the user, whatever
\* calls, webhooks and fetches were under way, and no user at the provider,
\* unless the user was being forwarded at the same time.
UserErased ==
    task["user"] = "SUCCEEDED" =>
        /\ ~psu /\ fwd = 0
        /\ \A a \in Attempts : attempts[a] = "none"
        /\ \A c \in Connections : conns[c] = "none" /\ data[c] = {}
        /\ history.raced \/ users = {}

\* A deletion of a connection that succeeded leaves neither the connection nor
\* its data, though fetches are under way, unless a webhook or a completion
\* that comes late stores the connection again.
ConnectionErased ==
    LET c == del["connection"].conn
    IN  task["connection"] = "SUCCEEDED" /\ c \notin history.revived
            => conns[c] = "none" /\ data[c] = {} /\ items[c].state = "gone"

\* Once the user is removed from the connector no data is left, and none comes
\* after, unless a webhook was being handled, or the user was being forwarded
\* again, during the removal.
ConnectorDataErased ==
    task["connector"] = "SUCCEEDED" /\ fwd = 0
    /\ ~history.late /\ ~history.raced
        => \A c \in Connections : data[c] = {}

\* The provider has no user that the forwarded user's row does not name, and
\* the row names no user that the provider deleted, but for a removal that
\* failed after the provider had deleted the user, unless two calls forwarded
\* the user together, a removal was under way or the process stopped.
ForwardedUserAgrees ==
    history.raced \/ Removing \/ Forwarding
        \/ users = {fwd} \ (history.unrecorded \cup {0})

\* A connection's status is the one of the last webhook about it that trimming
\* let through, when webhooks about it do not overlap.
ConnectionStatusIsCurrent ==
    plugin = "powens" =>
        \A n \in DOMAIN notices :
            LET c == notices[n].conn
            IN  /\ \A m \in DOMAIN notices : m > n => notices[m].conn # c
                /\ conns[c] # "none" /\ InFlight(c) = {} /\ c \notin history.overlapped
                => (conns[c] = "ACTIVE") = (notices[n].kind = "sync")

\* A deletion that is PROCESSING is decided, unless the last call that asked for
\* it started no workflow: it stopped before, or the identifier was used.
Undecided(k) == task[k] = "PROCESSING" /\ k \notin history.unserved

DeletionDecided ==
    (\E k \in Deletions : Undecided(k)) ~> (\A k \in Deletions : ~Undecided(k))

=============================================================================
