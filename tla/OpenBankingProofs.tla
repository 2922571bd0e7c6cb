-------------------------- MODULE OpenBankingProofs --------------------------
(***************************************************************************)
(* For every number of connections, attempts, forwards and events:         *)
(* OpenBanking is type correct, deletions that succeeded leave nothing     *)
(* behind, the forwarded user's row and the provider agree but for users   *)
(* that a failed removal deleted, and the status of a connection is the    *)
(* one of the last webhook about it.                                       *)
(***************************************************************************)
EXTENDS OpenBanking, SequenceTheorems, TLAPS

AttemptOrNone == 0 .. MaxAttempts
UserOrNone == 0 .. MaxForwards

ItemType == [state : {"new", "up", "down", "gone"}, owner : UserOrNone]
LinkType ==
    [pc : {"new", "plugin", "given", "linked", "exited", "error"}, conn : ConnectionOrNone,
     user : UserOrNone]
NoticeType ==
    [pc : {"sent", "status", "store", "accounts", "payments", "fetch", "done", "failed"},
     kind : {"session", "sync", "down", "data"}, conn : Connections, attempt : AttemptOrNone,
     user : UserOrNone, left : SUBSET Kinds, got : SUBSET Kinds]
DeletionType ==
    [pc : {"none", "read", "plugin", "payments", "accounts", "row", "failing", "succeeding",
           "failed", "done"}, conn : ConnectionOrNone, user : UserOrNone,
     asked : [ConnectionOrNone -> Nat]]
HistoryType ==
    [raced : BOOLEAN, unserved : SUBSET Deletions, overlapped : SUBSET Connections,
     revived : SUBSET Connections, late : BOOLEAN, unrecorded : SUBSET UserOrNone]

RowTypes ==
    /\ psu \in BOOLEAN /\ fwd \in UserOrNone
    /\ attempts \in [Attempts -> {"none", "pending", "completed", "exited"}]
    /\ conns \in [Connections -> {"none", "ACTIVE", "ERROR"}]
    /\ data \in [Connections -> SUBSET Kinds]

ProviderTypes ==
    /\ plugin \in Plugins /\ events \in Nat
    /\ users \subseteq Calls
    /\ items \in [Connections -> ItemType]

CallTypes ==
    /\ forward \in [Calls -> {"new", "checked", "created", "done"}]
    /\ link \in [Attempts -> LinkType]
    /\ complete \in [Attempts -> {"new", "start", "store", "connection", "done"}]

WorkflowTypes ==
    /\ notices \in Seq(NoticeType)
    /\ del \in [Deletions -> DeletionType]
    /\ task \in [Deletions -> {"none", "PROCESSING", "SUCCEEDED", "FAILED"}]
    /\ history \in HistoryType

Types == RowTypes /\ ProviderTypes /\ CallTypes /\ WorkflowTypes

\* A webhook has the steps of its kind and of its plugin.
NoticeShape(notice) ==
    /\ notice.kind = "session" => notice.attempt \in Attempts
    /\ notice.pc = "status" => notice.kind = "session"
    /\ notice.pc \in {"store", "accounts", "payments"} => notice.kind \in {"sync", "down"}
    /\ notice.pc = "fetch" => notice.kind = "data"
    /\ notice.pc \notin {"fetch", "accounts", "payments"} => notice.got = {}
    /\ notice.pc # "fetch" => notice.left = {}
    /\ notice.got \cap notice.left = {}
    /\ plugin = "powens" => notice.kind \in {"sync", "down"}

\* A link has a connection; a deletion of a connection has one, and no other, and
\* so do the calls that ask for it; a connection is completed by plaid only.
Shapes ==
    /\ \A a \in Attempts : link[a].pc # "new" => link[a].conn # 0
    /\ \A a \in Attempts : complete[a] # "new" => link[a].pc # "new"
    /\ \A a \in Attempts : complete[a] = "connection" => plugin # "powens"
    /\ \A n \in DOMAIN notices : NoticeShape(notices[n])
    /\ \A k \in Deletions : del[k].pc # "none" => (task[k] # "none" /\ (k = "connection" <=> del[k].conn # 0))
    /\ \A k \in Deletions, c \in ConnectionOrNone :
         del[k].asked[c] > 0 => (task[k] # "none" /\ (k = "connection" <=> c # 0))
    /\ \A n \in DOMAIN notices : notices[n].kind = "session" => link[notices[n].attempt].pc # "new"

TypeInv == Types /\ Shapes

-----------------------------------------------------------------------------

\* What references the user goes with the user.
UserGone ==
    ~psu => /\ fwd = 0
            /\ \A a \in Attempts : attempts[a] = "none"
            /\ \A c \in Connections : conns[c] = "none" /\ data[c] = {}

\* A deletion that has succeeded, or is about to.
Succeeded(k) == task[k] = "SUCCEEDED" \/ del[k].pc = "succeeding"

UserInv == UserGone /\ (Succeeded("user") => ~psu)

-----------------------------------------------------------------------------

Forwards(n) == forward[n] \in {"checked", "created"}
Removals == {"user", "connector"}

\* Users are named by rows, links and deletions only after they were forwarded.
ForwardedDone ==
    /\ fwd # 0 => forward[fwd] = "done"
    /\ \A a \in Attempts : link[a].user # 0 => forward[link[a].user] = "done"
    /\ \A c \in Connections : items[c].owner # 0 => forward[items[c].owner] = "done"

DeletedDone ==
    /\ \A k \in Deletions : del[k].user # 0 => forward[del[k].user] = "done"
    /\ \A u \in history.unrecorded : u # 0 => forward[u] = "done"

\* A connection that works belongs to a user of the provider.
OwnersExist == \A c \in Connections : items[c].state \in {"up", "down"} => items[c].owner \in users

\* Unless forwards and removals raced, they exclude each other, ...
TakeTurns ==
    /\ \A m, n \in Calls : Forwards(m) /\ Forwards(n) => m = n
    /\ Forwarding => ~Removing /\ psu /\ fwd = 0
    /\ \A n \in Calls : forward[n] = "checked" => users = {}
    /\ \A n \in Calls : forward[n] = "created" => users = {n}

\* ... the provider has at most the user of the row, and a removal that has
\* called the provider deletes the row, or fails and leaves it unrecorded.
AtMostForwarded ==
    /\ ~Forwarding => users \subseteq {fwd}
    /\ \A k \in Removals : del[k].pc = "plugin" => users \subseteq {del[k].user}
    /\ \A k \in Removals : del[k].pc \in {"payments", "accounts", "row", "succeeding"} => users = {}
    /\ (~Forwarding /\ fwd # 0 /\ users = {}) =>
         \/ fwd \in history.unrecorded
         \/ \E k \in Removals : del[k].pc \in {"payments", "accounts", "row"}

\* A user that a failed removal deleted is not there again.
StaysDeleted == history.unrecorded \cap users = {}

ForwardInv ==
    /\ ForwardedDone /\ DeletedDone /\ OwnersExist /\ StaysDeleted
    /\ ~history.raced => TakeTurns /\ AtMostForwarded

-----------------------------------------------------------------------------

\* The deletion of a connection, step by step.
ConnectionInv ==
    LET d == del["connection"]
    IN  /\ Succeeded("connection") => d.pc \in {"succeeding", "done"}
        /\ d.pc \in {"payments", "accounts", "row", "succeeding", "done"} =>
             items[d.conn].state = "gone"
        /\ (d.pc \in {"succeeding", "done"} /\ d.conn \notin history.revived) =>
             conns[d.conn] = "none" /\ data[d.conn] = {}

\* The removal of the user from the connector: no webhook is at work during it,
\* and none finds data after it.
Working(notice) == notice.pc \in {"store", "accounts", "payments", "fetch"}

ConnectorInv ==
    LET pc == del["connector"].pc
    IN  /\ Succeeded("connector") => pc \in {"succeeding", "done"}
        /\ (~history.late /\ ~history.raced) =>
             /\ pc \notin Idle => \A n \in DOMAIN notices : ~Working(notices[n])
             /\ pc \in {"accounts", "row", "succeeding"} =>
                  \A c \in Connections : "payments" \notin data[c]
             /\ pc \in {"row", "succeeding"} => \A c \in Connections : data[c] = {}
             /\ (pc = "done" /\ fwd = 0 /\ psu) =>
                  /\ \A c \in Connections : data[c] = {}
                  /\ \A n \in DOMAIN notices : notices[n].got = {}

-----------------------------------------------------------------------------

Status(notice) == IF notice.kind = "sync" THEN "ACTIVE" ELSE "ERROR"

\* Webhook n about connection c is the last one, those before it were handled,
\* and so was it unless it has not come to the status yet.
Announces(n, c) ==
    /\ notices[n].conn = c
    /\ \A m \in DOMAIN notices :
         notices[m].conn = c /\ m # n => m < n /\ notices[m].pc \in {"done", "failed"}
    /\ notices[n].pc \notin {"sent", "store"} => conns[c] \in {"none", Status(notices[n])}

StatusInv ==
    plugin = "powens" =>
        \A c \in Connections :
            c \notin history.overlapped /\ (\E n \in DOMAIN notices : notices[n].conn = c) =>
                \E n \in DOMAIN notices : Announces(n, c)

-----------------------------------------------------------------------------
(* What a step does to the webhooks.                                       *)

\* Webhook n goes on, to step pc, with the kinds left to fetch and got.
ChangesTo(n, pc, left, got) ==
    /\ notices' \in Seq(NoticeType) /\ DOMAIN notices' = DOMAIN notices
    /\ \A m \in DOMAIN notices \ {n} : notices'[m] = notices[m]
    /\ notices'[n].pc = pc /\ notices'[n].left = left /\ notices'[n].got = got
    /\ notices'[n].kind = notices[n].kind /\ notices'[n].conn = notices[n].conn
    /\ notices'[n].attempt = notices[n].attempt /\ notices'[n].user = notices[n].user

NoticePcs == {"sent", "status", "store", "accounts", "payments", "fetch", "done", "failed"}

LEMMA NoticeTyped ==
    ASSUME WorkflowTypes, NEW n \in DOMAIN notices
    PROVE  /\ notices[n] \in NoticeType
           /\ notices[n].left \in SUBSET Kinds /\ notices[n].got \in SUBSET Kinds
           /\ notices[n].conn \in Connections /\ notices[n].user \in UserOrNone
  <1>1. notices \in Seq(NoticeType) /\ n \in 1 .. Len(notices)
    BY DEF WorkflowTypes
  <1>2. notices[n] \in NoticeType
    BY <1>1, ElementOfSeq
  <1> QED
    BY <1>2 DEF NoticeType

LEMMA Changed ==
    ASSUME WorkflowTypes, NEW n \in DOMAIN notices, NEW pc \in NoticePcs,
           NEW left \in SUBSET Kinds, NEW got \in SUBSET Kinds,
           notices' = [notices EXCEPT ![n] = [notices[n] EXCEPT !.pc = pc, !.left = left, !.got = got]]
    PROVE  ChangesTo(n, pc, left, got)
  <1> DEFINE x == [notices[n] EXCEPT !.pc = pc, !.left = left, !.got = got]
  <1>1. notices \in Seq(NoticeType) /\ n \in 1 .. Len(notices)
    BY DEF WorkflowTypes
  <1>2. /\ x \in NoticeType /\ x.pc = pc /\ x.left = left /\ x.got = got
        /\ x.kind = notices[n].kind /\ x.conn = notices[n].conn
        /\ x.attempt = notices[n].attempt /\ x.user = notices[n].user
    BY NoticeTyped DEF NoticeType, NoticePcs
  <1>3. notices' = [notices EXCEPT ![n] = x]
    OBVIOUS
  <1> HIDE DEF x
  <1>4. notices' \in Seq(NoticeType) /\ Len(notices') = Len(notices)
    BY <1>1, <1>2, <1>3, ExceptSeq
  <1>5. DOMAIN notices' = DOMAIN notices /\ notices'[n] = x
    BY <1>1, <1>3
  <1>6. \A m \in DOMAIN notices \ {n} : notices'[m] = notices[m]
    BY <1>1, <1>3
  <1> QED
    BY <1>2, <1>4, <1>5, <1>6 DEF ChangesTo

\* A step that changes no more than pc.
LEMMA Stepped ==
    ASSUME WorkflowTypes, NEW n \in DOMAIN notices, NEW pc \in NoticePcs, Step(n, pc)
    PROVE  ChangesTo(n, pc, notices[n].left, notices[n].got)
  <1>1. [notices[n] EXCEPT !.pc = pc]
            = [notices[n] EXCEPT !.pc = pc, !.left = notices[n].left, !.got = notices[n].got]
    BY NoticeTyped DEF NoticeType
  <1>2. notices' = [notices EXCEPT ![n] = [notices[n] EXCEPT !.pc = pc]]
    BY DEF Step
  <1> QED
    BY <1>1, <1>2, NoticeTyped, Changed

LEMMA SessionTranslateTo ==
    ASSUME WorkflowTypes, NEW n, SessionTranslate(n)
    PROVE  /\ n \in DOMAIN notices /\ notices[n].pc = "sent" /\ notices[n].kind = "session"
           /\ \E pc \in {"failed", "status"} : ChangesTo(n, pc, notices[n].left, notices[n].got)
  BY Stepped DEF SessionTranslate, NoticeAt, NoticePcs

LEMMA UpdateStatusTo ==
    ASSUME WorkflowTypes, NEW n, OpenBankingConnectionAttemptsUpdateStatus(n)
    PROVE  /\ n \in DOMAIN notices /\ notices[n].pc = "status"
           /\ \E pc \in {"failed", "done"} : ChangesTo(n, pc, notices[n].left, notices[n].got)
  BY Stepped DEF OpenBankingConnectionAttemptsUpdateStatus, NoticeAt, NoticePcs

LEMMA NoticeReadTo ==
    ASSUME WorkflowTypes, NEW n, NoticeRead(n)
    PROVE  /\ n \in DOMAIN notices /\ notices[n].pc = "sent" /\ notices[n].kind \in {"down", "sync"}
           /\ ChangesTo(n, IF Known(n) THEN "store" ELSE "failed", notices[n].left, notices[n].got)
  BY Stepped DEF NoticeRead, NoticeAt, NoticePcs

LEMMA NoticeStoreTo ==
    ASSUME WorkflowTypes, NEW n, NoticeStore(n)
    PROVE  /\ n \in DOMAIN notices /\ notices[n].pc = "store"
           /\ \E pc \in {"failed", "accounts", "done"} :
                /\ ChangesTo(n, pc, notices[n].left, notices[n].got)
                /\ pc = "accounts" => notices[n].kind = "sync"
                /\ pc = "failed" <=> ~psu
  <1>1. n \in DOMAIN notices /\ notices[n].pc = "store"
    BY DEF NoticeStore, NoticeAt
  <1>2. Step(n, IF psu THEN IF notices[n].kind = "sync" THEN "accounts" ELSE "done" ELSE "failed")
    BY DEF NoticeStore
  <1> QED
    BY <1>1, <1>2, Stepped DEF NoticePcs

LEMMA FetchDoneTo ==
    ASSUME WorkflowTypes, NEW n, FetchDone(n)
    PROVE  /\ n \in DOMAIN notices /\ notices[n].pc = "fetch"
           /\ notices[n].left = {} /\ notices[n].got = {}
           /\ ChangesTo(n, "done", {}, {})
  <1>1. /\ n \in DOMAIN notices /\ notices[n].pc = "fetch" /\ Step(n, "done")
        /\ notices[n].left = {} /\ notices[n].got = {}
    BY DEF FetchDone, NoticeAt
  <1>2. ChangesTo(n, "done", notices[n].left, notices[n].got)
    BY <1>1, Stepped DEF NoticePcs
  <1> QED
    BY <1>1, <1>2

LEMMA NoticeAgainTo ==
    ASSUME WorkflowTypes, NEW n, NoticeAgain(n)
    PROVE  /\ n \in DOMAIN notices /\ notices[n].pc = "done"
           /\ ChangesTo(n, "sent", notices[n].left, notices[n].got)
  BY Stepped DEF NoticeAgain, NoticeAt, NoticePcs

LEMMA SyncReadTo ==
    ASSUME WorkflowTypes, NEW n, NEW k \in Kinds, SyncRead(n, k)
    PROVE  /\ n \in DOMAIN notices /\ notices[n].pc = k /\ notices[n].got = {}
           /\ \/ fwd # 0 /\ notices[n].user = fwd /\ ChangesTo(n, k, notices[n].left, {k})
              \/ ChangesTo(n, "failed", notices[n].left, {})
  <1>1. n \in DOMAIN notices /\ notices[n].pc = k /\ notices[n].got = {}
    BY DEF SyncRead, NoticeAt
  <1>2. notices[n] \in NoticeType /\ notices[n].left \in SUBSET Kinds /\ k \in NoticePcs
    BY <1>1, NoticeTyped DEF Kinds, NoticePcs
  <1>3. CASE fwd # 0 /\ notices[n].user = fwd
    <2>1. notices' = [notices EXCEPT ![n] = [notices[n] EXCEPT !.got = {k}]]
      BY <1>1, <1>3 DEF SyncRead
    <2>2. [notices[n] EXCEPT !.got = {k}]
            = [notices[n] EXCEPT !.pc = k, !.left = notices[n].left, !.got = {k}]
      BY <1>1, <1>2 DEF NoticeType
    <2>3. ChangesTo(n, k, notices[n].left, {k})
      BY <1>1, <1>2, <2>1, <2>2, Changed
    <2> QED
      BY <1>1, <1>3, <2>3
  <1>4. CASE ~(fwd # 0 /\ notices[n].user = fwd)
    <2>1. Step(n, "failed")
      BY <1>1, <1>4 DEF SyncRead, Step
    <2>2. ChangesTo(n, "failed", notices[n].left, notices[n].got)
      BY <1>1, <2>1, Stepped DEF NoticePcs
    <2> QED
      BY <1>1, <2>2
  <1> QED
    BY <1>3, <1>4

LEMMA SyncStoreTo ==
    ASSUME WorkflowTypes, NEW n, NEW k \in Kinds, SyncStore(n, k)
    PROVE  /\ n \in DOMAIN notices /\ notices[n].pc = k /\ notices[n].got = {k}
           /\ \E pc \in {"failed", "payments", "done"} : ChangesTo(n, pc, notices[n].left, {})
  <1> DEFINE pc == IF conns[notices[n].conn] = "none" THEN "failed"
                   ELSE IF k = "accounts" THEN "payments" ELSE "done"
  <1>1. n \in DOMAIN notices /\ notices[n].pc = k /\ notices[n].got = {k}
    BY DEF SyncStore, NoticeAt
  <1>2. notices[n] \in NoticeType /\ notices[n].left \in SUBSET Kinds /\ pc \in NoticePcs
    BY <1>1, NoticeTyped DEF NoticePcs
  <1>3. pc \in {"failed", "payments", "done"}
    OBVIOUS
  <1>4. notices' = [notices EXCEPT ![n].got = {}, ![n].pc = pc]
    BY DEF SyncStore
  <1> HIDE DEF pc
  <1>5. [notices EXCEPT ![n].got = {}, ![n].pc = pc]
          = [notices EXCEPT ![n] = [notices[n] EXCEPT !.got = {}, !.pc = pc]]
    BY <1>1
  <1>6. [notices[n] EXCEPT !.got = {}, !.pc = pc]
          = [notices[n] EXCEPT !.pc = pc, !.left = notices[n].left, !.got = {}]
    BY <1>2 DEF NoticeType
  <1>7. ChangesTo(n, pc, notices[n].left, {})
    BY <1>1, <1>2, <1>4, <1>5, <1>6, Changed
  <1> QED
    BY <1>1, <1>3, <1>7

LEMMA StartFetchTo ==
    ASSUME WorkflowTypes, NEW n, StartFetch(n)
    PROVE  /\ n \in DOMAIN notices /\ notices[n].pc = "sent" /\ notices[n].kind = "data"
           /\ \/ ChangesTo(n, "failed", notices[n].left, notices[n].got)
              \/ ChangesTo(n, "fetch", Kinds, notices[n].got)
  <1>1. n \in DOMAIN notices /\ notices[n].pc = "sent" /\ notices[n].kind = "data"
    BY DEF StartFetch, NoticeAt
  <1>2. notices[n] \in NoticeType /\ notices[n].got \in SUBSET Kinds
    BY <1>1, NoticeTyped
  <1>3. CASE conns[notices[n].conn] = "none"
    <2>1. Step(n, "failed")
      BY <1>1, <1>3 DEF StartFetch, Step
    <2> QED
      BY <1>1, <2>1, Stepped DEF NoticePcs
  <1>4. CASE conns[notices[n].conn] # "none"
    <2>1. notices' = [notices EXCEPT ![n] = [notices[n] EXCEPT !.pc = "fetch", !.left = Kinds]]
      BY <1>1, <1>4 DEF StartFetch
    <2>2. [notices[n] EXCEPT !.pc = "fetch", !.left = Kinds]
            = [notices[n] EXCEPT !.pc = "fetch", !.left = Kinds, !.got = notices[n].got]
      BY <1>2 DEF NoticeType
    <2>3. ChangesTo(n, "fetch", Kinds, notices[n].got)
      BY <1>1, <1>2, <2>1, <2>2, Changed DEF NoticePcs
    <2> QED
      BY <1>1, <2>3
  <1> QED
    BY <1>3, <1>4

LEMMA FetchNextTo ==
    ASSUME WorkflowTypes, NEW n, NEW k \in Kinds, FetchNext(n, k)
    PROVE  /\ n \in DOMAIN notices /\ notices[n].pc = "fetch" /\ k \in notices[n].left
           /\ \/ ChangesTo(n, "fetch", notices[n].left \ {k}, notices[n].got)
              \/ /\ items[notices[n].conn].state = "up"
                 /\ ChangesTo(n, "fetch", notices[n].left \ {k}, notices[n].got \cup {k})
  <1> DEFINE left == notices[n].left \ {k}
             got == IF items[notices[n].conn].state = "up" THEN notices[n].got \cup {k}
                                                           ELSE notices[n].got
  <1>1. n \in DOMAIN notices /\ notices[n].pc = "fetch" /\ k \in notices[n].left
    BY DEF FetchNext, NoticeAt
  <1>2. notices[n] \in NoticeType /\ left \in SUBSET Kinds /\ got \in SUBSET Kinds
    BY <1>1, NoticeTyped
  <1>3. notices' = [notices EXCEPT ![n] = [notices[n] EXCEPT !.left = left, !.got = got]]
    BY <1>1 DEF FetchNext
  <1>4. [notices[n] EXCEPT !.left = left, !.got = got]
          = [notices[n] EXCEPT !.pc = "fetch", !.left = left, !.got = got]
    BY <1>1, <1>2 DEF NoticeType
  <1>5. ChangesTo(n, "fetch", left, got)
    BY <1>1, <1>2, <1>3, <1>4, Changed DEF NoticePcs
  <1> QED
    BY <1>1, <1>5

LEMMA FetchStoreTo ==
    ASSUME WorkflowTypes, NEW n, NEW k \in Kinds, FetchStore(n, k)
    PROVE  /\ n \in DOMAIN notices /\ notices[n].pc = "fetch" /\ k \in notices[n].got
           /\ ChangesTo(n, "fetch", notices[n].left, notices[n].got \ {k})
  <1>1. n \in DOMAIN notices /\ notices[n].pc = "fetch" /\ k \in notices[n].got
    BY DEF FetchStore, NoticeAt
  <1>2. /\ notices[n] \in NoticeType /\ notices[n].left \in SUBSET Kinds
        /\ notices[n].got \ {k} \in SUBSET Kinds
    BY <1>1, NoticeTyped
  <1>3. notices' = [notices EXCEPT ![n] = [notices[n] EXCEPT !.got = notices[n].got \ {k}]]
    BY <1>1 DEF FetchStore
  <1>4. [notices[n] EXCEPT !.got = notices[n].got \ {k}]
          = [notices[n] EXCEPT !.pc = "fetch", !.left = notices[n].left, !.got = notices[n].got \ {k}]
    BY <1>1, <1>2 DEF NoticeType
  <1>5. ChangesTo(n, "fetch", notices[n].left, notices[n].got \ {k})
    BY <1>1, <1>2, <1>3, <1>4, Changed DEF NoticePcs
  <1> QED
    BY <1>1, <1>5

\* A webhook is sent: the others stay, and history notes whether it overlaps.
LEMMA Sent ==
    ASSUME WorkflowTypes, NEW notice \in NoticeType, Send(notice)
    PROVE  /\ notices' \in Seq(NoticeType) /\ DOMAIN notices' = 1 .. (Len(notices) + 1)
           /\ DOMAIN notices = 1 .. Len(notices) /\ Len(notices) \in Nat
           /\ notices'[Len(notices) + 1] = notice
           /\ \A m \in DOMAIN notices : notices'[m] = notices[m]
           /\ history' \in HistoryType
           /\ history'.raced = history.raced /\ history'.late = history.late
           /\ history'.revived = history.revived /\ history'.unrecorded = history.unrecorded
           /\ history'.overlapped = IF InFlight(notice.conn) = {} THEN history.overlapped
                                    ELSE history.overlapped \cup {notice.conn}
           /\ plugin' = plugin /\ events' \in {events + 1}
  <1>1. notices \in Seq(NoticeType) /\ history \in HistoryType /\ notice.conn \in Connections
    BY DEF WorkflowTypes, NoticeType
  <1>2. notices' = Append(notices, notice)
    BY DEF Send
  <1>3. /\ notices' \in Seq(NoticeType) /\ Len(notices') = Len(notices) + 1
        /\ notices'[Len(notices) + 1] = notice
        /\ \A m \in 1 .. Len(notices) : notices'[m] = notices[m]
    BY <1>1, <1>2, AppendProperties
  <1>4. DOMAIN notices' = 1 .. Len(notices') /\ DOMAIN notices = 1 .. Len(notices)
    BY <1>1, <1>3
  <1>5. /\ history' \in HistoryType
        /\ history'.raced = history.raced /\ history'.late = history.late
        /\ history'.revived = history.revived /\ history'.unrecorded = history.unrecorded
        /\ history'.overlapped = IF InFlight(notice.conn) = {} THEN history.overlapped
                                 ELSE history.overlapped \cup {notice.conn}
    <2>1. CASE InFlight(notice.conn) = {}
      BY <1>1, <2>1 DEF Send
    <2>2. CASE InFlight(notice.conn) # {}
      <3>1. history' = [history EXCEPT !.overlapped = history.overlapped \cup {notice.conn}]
        BY <2>2 DEF Send
      <3> QED
        BY <1>1, <2>2, <3>1 DEF HistoryType
    <2> QED
      BY <2>1, <2>2
  <1> QED
    BY <1>1, <1>3, <1>4, <1>5 DEF Send, Event

LEMMA NewNotice ==
    ASSUME Types, NEW kind \in {"session", "sync", "down", "data"}, NEW c \in Connections,
           NEW a \in AttemptOrNone
    PROVE  /\ Notice(kind, c, a) \in NoticeType
           /\ Notice(kind, c, a).pc = "sent" /\ Notice(kind, c, a).kind = kind
           /\ Notice(kind, c, a).conn = c /\ Notice(kind, c, a).attempt = a
           /\ Notice(kind, c, a).left = {} /\ Notice(kind, c, a).got = {}
  <1>1. items[c].owner \in UserOrNone /\ 0 \in UserOrNone
    BY OpenBankingAssumption DEF Types, ProviderTypes, ItemType, UserOrNone
  <1>2. (IF plugin = "powens" THEN items[c].owner ELSE 0) \in UserOrNone
    BY <1>1
  <1> QED
    BY <1>2 DEF Notice, NoticeType

\* Nothing is left of an announcement.
Trimmed == plugin = "powens" /\ Event /\ UNCHANGED <<notices, history>>

\* The webhook of a finished session, with the owner that the session gives.
LEMMA LinkedNotice ==
    ASSUME Types, Shapes, NEW a \in Attempts, SessionLinked(a), ~Trimmed
    PROVE  \E notice \in NoticeType :
             /\ Send(notice) /\ notice.conn = link[a].conn /\ notice.attempt = a
             /\ notice.kind = (IF plugin = "plaid" THEN "session" ELSE "sync")
             /\ notice.pc = "sent" /\ notice.left = {} /\ notice.got = {}
  <1> DEFINE kind == IF plugin = "plaid" THEN "session" ELSE "sync"
             notice == Notice(kind, link[a].conn, a)
             user == IF plugin = "powens" THEN link[a].user ELSE 0
  <1>1. /\ link[a].conn \in Connections /\ a \in AttemptOrNone
        /\ user \in UserOrNone /\ kind \in {"session", "sync", "down", "data"}
    BY OpenBankingAssumption DEF Types, CallTypes, LinkType, Shapes, SessionLinked, UserOrNone,
       ConnectionOrNone, Connections, Attempts, AttemptOrNone
  <1>2. Send([notice EXCEPT !.user = user])
    BY DEF SessionLinked, Announce, Trimmed
  <1>3. /\ notice \in NoticeType /\ notice.pc = "sent" /\ notice.kind = kind
        /\ notice.conn = link[a].conn /\ notice.attempt = a
        /\ notice.left = {} /\ notice.got = {}
    BY <1>1, NewNotice
  <1> HIDE DEF notice, user
  <1>4. /\ [notice EXCEPT !.user = user] \in NoticeType
        /\ [notice EXCEPT !.user = user].conn = notice.conn
        /\ [notice EXCEPT !.user = user].attempt = notice.attempt
        /\ [notice EXCEPT !.user = user].kind = notice.kind
        /\ [notice EXCEPT !.user = user].pc = notice.pc
        /\ [notice EXCEPT !.user = user].left = notice.left
        /\ [notice EXCEPT !.user = user].got = notice.got
    BY <1>1, <1>3 DEF NoticeType
  <1> QED
    BY <1>2, <1>3, <1>4

-----------------------------------------------------------------------------
(* Type correctness.                                                       *)

LEMMA InitTypes == Init => TypeInv
  <1> SUFFICES ASSUME Init PROVE TypeInv
    OBVIOUS
  <1> USE OpenBankingAssumption DEF Init
  <1>1. RowTypes
    BY DEF RowTypes, UserOrNone
  <1>2. ProviderTypes
    BY DEF ProviderTypes, ItemType, UserOrNone
  <1>3. CallTypes
    BY DEF CallTypes, LinkType, UserOrNone, ConnectionOrNone
  <1>4. WorkflowTypes
    <2>1. notices \in Seq(NoticeType)
      BY EmptySeq
    <2>2. del \in [Deletions -> DeletionType]
      <3>1. [pc |-> "none", conn |-> 0, user |-> 0, asked |-> [c \in ConnectionOrNone |-> 0]] \in DeletionType
        BY DEF DeletionType, UserOrNone, ConnectionOrNone
      <3> QED
        BY <3>1
    <2>3. history \in HistoryType
      BY Zenon DEF HistoryType
    <2> QED
      BY <2>1, <2>2, <2>3 DEF WorkflowTypes
  <1>5. Shapes
    BY DEF Shapes, NoticeShape
  <1> QED
    BY <1>1, <1>2, <1>3, <1>4, <1>5 DEF TypeInv, Types

\* What an action does to the history keeps its type.
LEMMA HistoryTyped ==
    ASSUME Types
    PROVE  /\ \A x \in BOOLEAN : [history EXCEPT !.raced = x] \in HistoryType
           /\ \A x \in BOOLEAN : [history EXCEPT !.late = x] \in HistoryType
           /\ \A c \in Connections :
                /\ [history EXCEPT !.revived = @ \cup {c}] \in HistoryType
                /\ [history EXCEPT !.overlapped = @ \cup {c}] \in HistoryType
           /\ \A k \in Deletions :
                /\ [history EXCEPT !.unserved = @ \cup {k}] \in HistoryType
                /\ \A x, y \in BOOLEAN :
                     [history EXCEPT !.raced = x, !.late = y, !.unserved = @ \ {k}] \in HistoryType
           /\ \A u \in UserOrNone : [history EXCEPT !.unrecorded = @ \cup {u}] \in HistoryType
  <1>1. history \in HistoryType
    BY DEF Types, WorkflowTypes
  <1> QED
    BY <1>1 DEF HistoryType

LEMMA ForwardTypes ==
    ASSUME Types, NEW n \in Calls, Forward(n) \/ ForwardStep(n) \/ ForwardLost(n)
    PROVE  Types'
  <1> USE OpenBankingAssumption
  <1>1. history' \in HistoryType
    BY HistoryTyped DEF Forward, ForwardStep, ForwardLost, CreateUser, OpenBankingForwardedUserUpsert,
       Types, WorkflowTypes, Forwarding, Removing, HistoryType
  <1>2. RowTypes'
    BY DEF Forward, ForwardStep, ForwardLost, CreateUser, OpenBankingForwardedUserUpsert,
       Types, RowTypes, rows, UserOrNone, Calls
  <1>3. ProviderTypes'
    BY DEF Forward, ForwardStep, ForwardLost, CreateUser, OpenBankingForwardedUserUpsert,
       Types, ProviderTypes, provider, bounds, Event
  <1>4. CallTypes'
    BY DEF Forward, ForwardStep, ForwardLost, CreateUser, OpenBankingForwardedUserUpsert,
       Types, CallTypes
  <1>5. UNCHANGED <<notices, del, task>>
    BY DEF Forward, ForwardStep, ForwardLost, CreateUser, OpenBankingForwardedUserUpsert
  <1> QED
    BY <1>1, <1>2, <1>3, <1>4, <1>5 DEF Types, WorkflowTypes

LinkStep(a) ==
    \/ CreatePaymentServiceUserLink(a) \/ UpdatePaymentServiceUserLink(a) \/ LinkCreated(a)
    \/ PaymentServiceUsersCompleteLinkFlow(a) \/ CompleteStep(a)

LEMMA StartedLink ==
    ASSUME NEW a, CreatePaymentServiceUserLink(a) \/ UpdatePaymentServiceUserLink(a)
    PROVE  \E c \in Connections : StartLink(a, c)
  BY DEF CreatePaymentServiceUserLink, UpdatePaymentServiceUserLink

LEMMA LinkTypes ==
    ASSUME Types, Shapes, NEW a \in Attempts, LinkStep(a)
    PROVE  Types'
  <1> USE OpenBankingAssumption
  <1>1. CASE CreatePaymentServiceUserLink(a) \/ UpdatePaymentServiceUserLink(a)
    <2>1. PICK c \in Connections : StartLink(a, c)
      BY <1>1, StartedLink
    <2>2. [pc |-> "plugin", conn |-> c, user |-> fwd] \in LinkType
      BY DEF Types, RowTypes, LinkType, Connections, ConnectionOrNone
    <2> QED
      BY <2>1, <2>2 DEF StartLink, Types, RowTypes, ProviderTypes, CallTypes, WorkflowTypes,
         provider, Event
  <1>2. CASE LinkCreated(a)
    <2>1. CallTypes'
      BY <1>2 DEF LinkCreated, Types, CallTypes, LinkType
    <2> QED
      BY <1>2, <2>1 DEF LinkCreated, Types, RowTypes, ProviderTypes, CallTypes, WorkflowTypes,
         provider, bounds
  <1>3. CASE PaymentServiceUsersCompleteLinkFlow(a)
    BY <1>3 DEF PaymentServiceUsersCompleteLinkFlow, Completed, Types, RowTypes, ProviderTypes,
       CallTypes, WorkflowTypes, rows, provider, bounds
  <1>4. CASE CompleteCall(a)
    BY <1>4 DEF CompleteCall, Types, RowTypes, ProviderTypes, CallTypes, WorkflowTypes,
       rows, provider, bounds
  <1>5. CASE CompleteStore(a)
    BY <1>5 DEF CompleteStore, Types, RowTypes, ProviderTypes, CallTypes, WorkflowTypes,
       provider, bounds
  <1>6. CASE CompleteConnection(a)
    <2>1. link[a].conn \in Connections
      BY <1>6 DEF CompleteConnection, Shapes, Types, CallTypes, LinkType, Connections, ConnectionOrNone
    <2>2. history' \in HistoryType
      BY <1>6, <2>1, HistoryTyped DEF CompleteConnection, NoteRevived, Types, WorkflowTypes
    <2> QED
      BY <1>6, <2>2 DEF CompleteConnection, OpenBankingConnectionsUpsert, Types, RowTypes,
         ProviderTypes, CallTypes, WorkflowTypes, provider, bounds
  <1> QED
    BY <1>1, <1>2, <1>3, <1>4, <1>5, <1>6 DEF LinkStep, CompleteStep

\* The provider's steps that send a webhook, unless it is trimmed.
SendStep ==
    \/ \E a \in Attempts : SessionLinked(a) \/ (SessionExited(a) /\ plugin = "plaid")
    \/ \E c \in Connections : ItemDown(c) \/ ItemSynced(c) \/ ItemUpdated(c)

\* What such a webhook says, and when the provider sends it.
Announced(notice) ==
    /\ notice \in NoticeType /\ Send(notice) /\ notice.pc = "sent"
    /\ notice.left = {} /\ notice.got = {}
    /\ \/ /\ notice.kind = "session" /\ plugin = "plaid" /\ notice.attempt \in Attempts
          /\ link[notice.attempt].pc # "new"
       \/ notice.kind = "sync" /\ plugin # "plaid"
       \/ notice.kind = "down"
       \/ notice.kind = "data" /\ plugin = "plaid"

LEMMA SendAnnounces ==
    ASSUME Types, Shapes, SendStep, ~Trimmed
    PROVE  \E notice : Announced(notice)
  <1> USE OpenBankingAssumption
  <1>1. ASSUME NEW a \in Attempts, SessionLinked(a) PROVE \E notice : Announced(notice)
    <2>1. PICK notice \in NoticeType :
             /\ Send(notice) /\ notice.conn = link[a].conn /\ notice.attempt = a
             /\ notice.kind = (IF plugin = "plaid" THEN "session" ELSE "sync")
             /\ notice.pc = "sent" /\ notice.left = {} /\ notice.got = {}
      BY <1>1, LinkedNotice
    <2>2. link[a].pc = "given" /\ link[a].conn \in Connections
      BY <1>1 DEF SessionLinked, Shapes, Types, CallTypes, LinkType, Connections, ConnectionOrNone
    <2> QED
      BY <2>1, <2>2 DEF Announced, Types, ProviderTypes
  <1>2. ASSUME NEW a \in Attempts, SessionExited(a), plugin = "plaid"
        PROVE  \E notice : Announced(notice)
    <2>1. link[a].conn \in Connections /\ a \in AttemptOrNone /\ link[a].pc = "given"
      BY <1>2 DEF SessionExited, Shapes, Types, CallTypes, LinkType, Connections, ConnectionOrNone,
         Attempts, AttemptOrNone
    <2>2. Send(Notice("session", link[a].conn, a)) /\ UNCHANGED items
      BY <1>2 DEF SessionExited, provider
    <2> QED
      BY <1>2, <2>1, <2>2, NewNotice DEF Announced
  <1>3. ASSUME NEW c \in Connections, ItemDown(c) PROVE \E notice : Announced(notice)
    <2>1. Send(Notice("down", c, 0))
      BY <1>3 DEF ItemDown, Announce, Trimmed
    <2> QED
      BY <2>1, NewNotice DEF Announced, AttemptOrNone
  <1>4. ASSUME NEW c \in Connections, ItemSynced(c) PROVE \E notice : Announced(notice)
    <2>1. Send(Notice("sync", c, 0)) /\ plugin = "powens"
      BY <1>4 DEF ItemSynced, Announce, Trimmed
    <2> QED
      BY <2>1, NewNotice DEF Announced, AttemptOrNone
  <1>5. ASSUME NEW c \in Connections, ItemUpdated(c) PROVE \E notice : Announced(notice)
    BY <1>5, NewNotice DEF ItemUpdated, Announced, AttemptOrNone, provider
  <1> QED
    BY <1>1, <1>2, <1>3, <1>4, <1>5 DEF SendStep

LEMMA SendTypes ==
    ASSUME Types, Shapes, SendStep
    PROVE  Types'
  <1> USE OpenBankingAssumption
  <1>2. notices' \in Seq(NoticeType) /\ history' \in HistoryType /\ plugin' = plugin /\ events' = events + 1
    <2>1. CASE Trimmed
      BY <2>1 DEF Trimmed, Event, Types, WorkflowTypes
    <2>2. CASE ~Trimmed
      <3>1. PICK notice : Announced(notice)
        BY <2>2, SendAnnounces
      <3>2. WorkflowTypes /\ notice \in NoticeType /\ Send(notice)
        BY <3>1 DEF Announced, Types
      <3> QED
        BY <3>2, Sent
    <2> QED
      BY <2>1, <2>2
  <1>3. items' \in [Connections -> ItemType]
    <2>1. ASSUME NEW a \in Attempts, SessionLinked(a) PROVE items' \in [Connections -> ItemType]
      <3>1. [state |-> "up", owner |-> link[a].user] \in ItemType
        BY DEF Types, CallTypes, LinkType, ItemType
      <3> QED
        BY <2>1, <3>1 DEF SessionLinked, Types, ProviderTypes
    <2>2. ASSUME NEW c \in Connections, ItemDown(c) \/ ItemSynced(c)
          PROVE  items' \in [Connections -> ItemType]
      BY <2>2 DEF ItemDown, ItemSynced, Types, ProviderTypes, ItemType
    <2>3. ASSUME (\E a \in Attempts : SessionExited(a)) \/ (\E c \in Connections : ItemUpdated(c))
          PROVE  items' \in [Connections -> ItemType]
      BY <2>3 DEF SessionExited, ItemUpdated, Types, ProviderTypes, provider
    <2> QED
      BY <2>1, <2>2, <2>3 DEF SendStep
  <1>4. link' \in [Attempts -> LinkType]
    <2>1. ASSUME NEW a \in Attempts, SessionLinked(a) PROVE link' \in [Attempts -> LinkType]
      BY <2>1 DEF SessionLinked, Types, CallTypes, LinkType
    <2>2. ASSUME NEW a \in Attempts, SessionExited(a) PROVE link' \in [Attempts -> LinkType]
      BY <2>2 DEF SessionExited, Types, CallTypes, LinkType
    <2>3. ASSUME NEW c \in Connections, ItemDown(c) \/ ItemSynced(c) \/ ItemUpdated(c)
          PROVE  link' \in [Attempts -> LinkType]
      BY <2>3 DEF ItemDown, ItemSynced, ItemUpdated, Types, CallTypes
    <2> QED
      BY <2>1, <2>2, <2>3 DEF SendStep
  <1>5. UNCHANGED <<rows, users, forward, complete, del, task>>
    BY DEF SendStep, SessionLinked, SessionExited, ItemDown, ItemSynced, ItemUpdated, provider
  <1> QED
    BY <1>2, <1>3, <1>4, <1>5 DEF Types, RowTypes, ProviderTypes, CallTypes, WorkflowTypes, rows

LEMMA ExitTypes ==
    ASSUME Types, NEW a \in Attempts, SessionExited(a), plugin # "plaid"
    PROVE  Types'
  <1>1. link' \in [Attempts -> LinkType]
    BY DEF SessionExited, Types, CallTypes, LinkType
  <1> QED
    BY <1>1 DEF SessionExited, Types, RowTypes, ProviderTypes, CallTypes, WorkflowTypes, rows,
       provider, bounds

\* A webhook's step changes that webhook.
LEMMA NoticeChanges ==
    ASSUME WorkflowTypes, NEW n, NoticeStep(n) \/ NoticeAgain(n)
    PROVE  /\ n \in DOMAIN notices
           /\ \E pc \in NoticePcs, left, got \in SUBSET Kinds : ChangesTo(n, pc, left, got)
  <1>1. Kinds \in SUBSET Kinds /\ {} \in SUBSET Kinds /\ \A k \in Kinds : {k} \in SUBSET Kinds
    OBVIOUS
  <1>2. /\ \A m \in DOMAIN notices : notices[m].left \in SUBSET Kinds /\ notices[m].got \in SUBSET Kinds
        /\ Kinds \subseteq NoticePcs
    BY NoticeTyped DEF NoticePcs, Kinds
  <1>3. ASSUME SessionTranslate(n)
        PROVE  /\ n \in DOMAIN notices
               /\ \E pc \in NoticePcs, left, got \in SUBSET Kinds : ChangesTo(n, pc, left, got)
    BY <1>2, <1>3, SessionTranslateTo DEF NoticePcs
  <1>4. ASSUME OpenBankingConnectionAttemptsUpdateStatus(n)
        PROVE  /\ n \in DOMAIN notices
               /\ \E pc \in NoticePcs, left, got \in SUBSET Kinds : ChangesTo(n, pc, left, got)
    BY <1>2, <1>4, UpdateStatusTo DEF NoticePcs
  <1>5. ASSUME NoticeRead(n) \/ NoticeStore(n)
        PROVE  /\ n \in DOMAIN notices
               /\ \E pc \in NoticePcs, left, got \in SUBSET Kinds : ChangesTo(n, pc, left, got)
    <2>1. CASE NoticeRead(n)
      BY <1>2, <2>1, NoticeReadTo DEF NoticePcs
    <2>2. CASE NoticeStore(n)
      BY <1>2, <2>2, NoticeStoreTo DEF NoticePcs
    <2> QED
      BY <1>5, <2>1, <2>2
  <1>6. ASSUME StartFetch(n)
        PROVE  /\ n \in DOMAIN notices
               /\ \E pc \in NoticePcs, left, got \in SUBSET Kinds : ChangesTo(n, pc, left, got)
    BY <1>1, <1>2, <1>6, StartFetchTo DEF NoticePcs
  <1>7. ASSUME FetchDone(n) \/ NoticeAgain(n)
        PROVE  /\ n \in DOMAIN notices
               /\ \E pc \in NoticePcs, left, got \in SUBSET Kinds : ChangesTo(n, pc, left, got)
    BY <1>1, <1>2, <1>7, FetchDoneTo, NoticeAgainTo DEF NoticePcs
  <1>8. ASSUME NEW k \in Kinds, SyncRead(n, k) \/ SyncStore(n, k)
        PROVE  /\ n \in DOMAIN notices
               /\ \E pc \in NoticePcs, left, got \in SUBSET Kinds : ChangesTo(n, pc, left, got)
    <2>1. CASE SyncRead(n, k)
      <3>1. /\ n \in DOMAIN notices
            /\ ChangesTo(n, k, notices[n].left, {k}) \/ ChangesTo(n, "failed", notices[n].left, {})
        BY <2>1, SyncReadTo
      <3>2. /\ notices[n].left \in SUBSET Kinds /\ {k} \in SUBSET Kinds /\ {} \in SUBSET Kinds
            /\ k \in NoticePcs /\ "failed" \in NoticePcs
        BY <1>2, <3>1 DEF NoticePcs
      <3> QED
        BY <3>1, <3>2, Zenon
    <2>2. CASE SyncStore(n, k)
      BY <1>1, <1>2, <2>2, SyncStoreTo DEF NoticePcs
    <2> QED
      BY <1>8, <2>1, <2>2
  <1>9. ASSUME NEW k \in Kinds, FetchNext(n, k)
        PROVE  /\ n \in DOMAIN notices
               /\ \E pc \in NoticePcs, left, got \in SUBSET Kinds : ChangesTo(n, pc, left, got)
    <2>1. n \in DOMAIN notices
      BY <1>9, FetchNextTo
    <2>2. /\ notices[n].left \ {k} \in SUBSET Kinds /\ notices[n].got \in SUBSET Kinds
          /\ notices[n].got \cup {k} \in SUBSET Kinds
      BY <1>2, <2>1
    <2> QED
      BY <1>9, <2>1, <2>2, FetchNextTo DEF NoticePcs
  <1>10. ASSUME NEW k \in Kinds, FetchStore(n, k)
         PROVE  /\ n \in DOMAIN notices
                /\ \E pc \in NoticePcs, left, got \in SUBSET Kinds : ChangesTo(n, pc, left, got)
    <2>1. n \in DOMAIN notices
      BY <1>10, FetchStoreTo
    <2>2. /\ notices[n].got \ {k} \in SUBSET Kinds /\ notices[n].left \in SUBSET Kinds
      BY <1>2, <2>1
    <2> QED
      BY <1>10, <2>1, <2>2, FetchStoreTo DEF NoticePcs
  <1> QED
    BY <1>3, <1>4, <1>5, <1>6, <1>7, <1>8, <1>9, <1>10 DEF NoticeStep

\* What the steps of webhooks leave alone.
LEMMA NoticeFrame ==
    ASSUME NEW n, NoticeStep(n) \/ NoticeAgain(n)
    PROVE  UNCHANGED <<psu, fwd, provider, plugin, forward, link, del, task>>
  BY DEF NoticeStep, NoticeAgain, SessionTranslate, OpenBankingConnectionAttemptsUpdateStatus,
     NoticeRead, NoticeStore, StartFetch, FetchDone, SyncRead, SyncStore, FetchNext, FetchStore,
     rows, bounds, Event

LEMMA NoticeTypes ==
    ASSUME Types, Shapes, NEW n, NoticeStep(n) \/ NoticeAgain(n)
    PROVE  Types'
  <1> USE OpenBankingAssumption
  <1>1. n \in DOMAIN notices /\ notices' \in Seq(NoticeType)
    BY NoticeChanges DEF ChangesTo, Types
  <1>2. notices[n].conn \in Connections
    BY <1>1, NoticeTyped DEF Types
  <1>3. notices[n].kind = "session" => notices[n].attempt \in Attempts
    BY <1>1 DEF Shapes, NoticeShape
  <1>4. history' \in HistoryType
    <2>1. CASE NoticeRead(n) \/ StartFetch(n)
      BY <2>1, HistoryTyped DEF NoticeRead, StartFetch, NoteLate, Types, WorkflowTypes, HistoryType
    <2>2. CASE NoticeStore(n)
      BY <2>2, <1>2, HistoryTyped DEF NoticeStore, NoteRevived, Types, WorkflowTypes
    <2>3. CASE NoticeAgain(n)
      BY <2>3, <1>2, HistoryTyped DEF NoticeAgain, Types, WorkflowTypes
    <2>4. CASE \/ SessionTranslate(n) \/ OpenBankingConnectionAttemptsUpdateStatus(n) \/ FetchDone(n)
               \/ \E k \in Kinds : SyncRead(n, k) \/ SyncStore(n, k) \/ FetchNext(n, k) \/ FetchStore(n, k)
      BY <2>4 DEF SessionTranslate, OpenBankingConnectionAttemptsUpdateStatus, FetchDone, SyncRead,
         SyncStore, FetchNext, FetchStore, Types, WorkflowTypes
    <2> QED
      BY <2>1, <2>2, <2>3, <2>4 DEF NoticeStep
  <1>5. attempts' \in [Attempts -> {"none", "pending", "completed", "exited"}]
    BY DEF NoticeStep, NoticeAgain, SessionTranslate, OpenBankingConnectionAttemptsUpdateStatus,
       NoticeRead, NoticeStore, StartFetch, FetchDone, SyncRead, SyncStore, FetchNext, FetchStore,
       rows, Types, RowTypes
  <1>6. conns' \in [Connections -> {"none", "ACTIVE", "ERROR"}]
    BY DEF NoticeStep, NoticeAgain, SessionTranslate, OpenBankingConnectionAttemptsUpdateStatus,
       NoticeRead, NoticeStore, StartFetch, FetchDone, SyncRead, SyncStore, FetchNext, FetchStore,
       rows, Types, RowTypes, OpenBankingConnectionsUpsert
  <1>7. data' \in [Connections -> SUBSET Kinds]
    <2>1. ASSUME NEW k \in Kinds, SyncStore(n, k) \/ FetchStore(n, k)
          PROVE  data' \in [Connections -> SUBSET Kinds]
      <3>1. Upsert(notices[n].conn, k)
        BY <2>1 DEF SyncStore, FetchStore
      <3> QED
        BY <1>2, <3>1 DEF Upsert, Types, RowTypes
    <2>2. CASE ~ \E k \in Kinds : SyncStore(n, k) \/ FetchStore(n, k)
      BY <2>2 DEF NoticeStep, NoticeAgain, SessionTranslate, OpenBankingConnectionAttemptsUpdateStatus,
         NoticeRead, NoticeStore, StartFetch, FetchDone, SyncRead, FetchNext, rows, Types, RowTypes
    <2> QED
      BY <2>1, <2>2
  <1>8. complete' \in [Attempts -> {"new", "start", "store", "connection", "done"}]
    <2>1. CASE SessionTranslate(n)
      BY <1>3, <2>1 DEF SessionTranslate, Completed, Types, CallTypes
    <2>2. CASE ~SessionTranslate(n)
      BY <2>2 DEF NoticeStep, NoticeAgain, OpenBankingConnectionAttemptsUpdateStatus, NoticeRead,
         NoticeStore, StartFetch, FetchDone, SyncRead, SyncStore, FetchNext, FetchStore, Types, CallTypes
    <2> QED
      BY <2>1, <2>2
  <1>9. events' \in Nat
    <2>1. CASE NoticeAgain(n)
      BY <2>1 DEF NoticeAgain, Event, Types, ProviderTypes
    <2>2. CASE NoticeStep(n)
      BY <2>2 DEF NoticeStep, SessionTranslate, OpenBankingConnectionAttemptsUpdateStatus,
         NoticeRead, NoticeStore, StartFetch, FetchDone, SyncRead, SyncStore, FetchNext, FetchStore,
         bounds, Types, ProviderTypes
    <2> QED
      BY <2>1, <2>2
  <1> QED
    BY <1>1, <1>4, <1>5, <1>6, <1>7, <1>8, <1>9, NoticeFrame
       DEF Types, RowTypes, ProviderTypes, CallTypes, WorkflowTypes, provider

\* The requests for deletions: the task is stored, then the workflow starts or not.
RequestStep(k, c) ==
    /\ k \in Deletions /\ c \in ConnectionOrNone
    /\ \/ Request(k, c) /\ (k = "connection" <=> c # 0)
       \/ ExecuteDeletion(k, c)
       \/ DeletionNotStarted(k, c)

LEMMA Requested ==
    ASSUME DeletePaymentServiceUser \/ DeletePaymentServiceUserConnector \/ DeletePaymentServiceUserConnection
    PROVE  \E k, c : RequestStep(k, c)
  <1>1. 0 \in ConnectionOrNone /\ \A c \in Connections : c \in ConnectionOrNone /\ c # 0
    BY OpenBankingAssumption DEF ConnectionOrNone, Connections
  <1>2. CASE DeletePaymentServiceUser
    BY <1>1, <1>2 DEF DeletePaymentServiceUser, RequestStep, Deletions
  <1>3. CASE DeletePaymentServiceUserConnector
    BY <1>1, <1>3 DEF DeletePaymentServiceUserConnector, RequestStep, Deletions
  <1>4. CASE DeletePaymentServiceUserConnection
    BY <1>1, <1>4 DEF DeletePaymentServiceUserConnection, RequestStep, Deletions
  <1> QED
    BY <1>2, <1>3, <1>4

\* The workflow of deletion k starts with connection c, ...
Starts(k, c) ==
    /\ del[k].pc \in {"none", "failed"} /\ task' = task
    /\ del'[k].pc = "read" /\ del'[k].conn = c /\ del'[k].user = 0

\* ... or is left as it is.
LeftAlone(k) ==
    del'[k].pc = del[k].pc /\ del'[k].conn = del[k].conn /\ del'[k].user = del[k].user

\* Deletion k with v calls that ask for it.
WithAsked(k, c, v) == [del EXCEPT ![k].asked[c] = v]

LEMMA AskedChanged ==
    ASSUME del \in [Deletions -> DeletionType], NEW k \in Deletions, NEW c \in ConnectionOrNone,
           NEW v \in Nat
    PROVE  /\ WithAsked(k, c, v) \in [Deletions -> DeletionType]
           /\ \A j \in Deletions : j # k => WithAsked(k, c, v)[j] = del[j]
           /\ WithAsked(k, c, v)[k].pc = del[k].pc /\ WithAsked(k, c, v)[k].conn = del[k].conn
           /\ WithAsked(k, c, v)[k].user = del[k].user
           /\ \A b \in ConnectionOrNone : b # c => WithAsked(k, c, v)[k].asked[b] = del[k].asked[b]
  <1> DEFINE asked == [del[k].asked EXCEPT ![c] = v]
             x == [del[k] EXCEPT !.asked = asked]
  <1>1. del[k] \in DeletionType /\ del[k].asked \in [ConnectionOrNone -> Nat]
    BY DEF DeletionType
  <1>2. /\ asked \in [ConnectionOrNone -> Nat]
        /\ \A b \in ConnectionOrNone : b # c => asked[b] = del[k].asked[b]
    BY <1>1
  <1>3. WithAsked(k, c, v) = [del EXCEPT ![k] = x]
    BY DEF WithAsked
  <1> HIDE DEF asked
  <1>4. /\ x \in DeletionType /\ x.asked = asked
        /\ x.pc = del[k].pc /\ x.conn = del[k].conn /\ x.user = del[k].user
    BY <1>1, <1>2 DEF DeletionType
  <1> HIDE DEF x
  <1>5. /\ WithAsked(k, c, v)[k] = x /\ WithAsked(k, c, v) \in [Deletions -> DeletionType]
        /\ \A j \in Deletions : j # k => WithAsked(k, c, v)[j] = del[j]
    BY <1>3, <1>4
  <1> QED
    BY <1>2, <1>4, <1>5

LEMMA CallsOnly ==
    ASSUME Types, NEW k \in Deletions, NEW c \in ConnectionOrNone,
           Request(k, c) \/ DeletionNotStarted(k, c)
    PROVE  /\ LeftAlone(k) /\ del' \in [Deletions -> DeletionType]
           /\ \A j \in Deletions : j # k => del'[j] = del[j]
           /\ \A d \in ConnectionOrNone : d # c => del'[k].asked[d] = del[k].asked[d]
  <1>1. del \in [Deletions -> DeletionType] /\ del[k].asked[c] \in Nat
    BY DEF Types, WorkflowTypes, DeletionType
  <1>2. PICK v \in Nat : del' = WithAsked(k, c, v)
    <2>1. CASE Request(k, c)
      <3>1. del' = WithAsked(k, c, del[k].asked[c] + 1)
        BY <2>1 DEF Request, WithAsked
      <3> QED
        BY <1>1, <3>1
    <2>2. CASE DeletionNotStarted(k, c)
      <3>1. del' = WithAsked(k, c, del[k].asked[c] - 1) /\ del[k].asked[c] > 0
        BY <2>2 DEF DeletionNotStarted, WithAsked
      <3> QED
        BY <1>1, <3>1
    <2> QED
      BY <2>1, <2>2
  <1> QED
    BY <1>1, <1>2, AskedChanged DEF LeftAlone

LEMMA RequestTo ==
    ASSUME Types, NEW k, NEW c, RequestStep(k, c)
    PROVE  /\ k \in Deletions /\ c \in ConnectionOrNone
           /\ Shapes => (k = "connection" <=> c # 0) /\ task'[k] # "none"
           /\ del' \in [Deletions -> DeletionType]
           /\ task' \in [Deletions -> {"none", "PROCESSING", "SUCCEEDED", "FAILED"}]
           /\ task'[k] \in {task[k], "PROCESSING"}
           /\ \A j \in Deletions : j # k => task'[j] = task[j] /\ del'[j] = del[j]
           /\ Starts(k, c) \/ LeftAlone(k)
           /\ \A d \in ConnectionOrNone : del'[k].asked[d] > 0 => d = c \/ del[k].asked[d] > 0
           /\ events' \in Nat
           /\ UNCHANGED <<rows, provider, plugin, forward, link, complete, notices>>
  <1>1. k \in Deletions /\ c \in ConnectionOrNone
    BY DEF RequestStep
  <1>2. /\ del \in [Deletions -> DeletionType] /\ events \in Nat
        /\ task \in [Deletions -> {"none", "PROCESSING", "SUCCEEDED", "FAILED"}]
        /\ del[k] \in DeletionType /\ del[k].asked \in [ConnectionOrNone -> Nat]
    BY <1>1 DEF Types, WorkflowTypes, ProviderTypes, DeletionType
  <1>3. CASE Request(k, c) /\ (k = "connection" <=> c # 0)
    <2>1. /\ del' = [del EXCEPT ![k].asked[c] = @ + 1] /\ task' = [task EXCEPT ![k] = "PROCESSING"]
          /\ UNCHANGED <<rows, provider, plugin, forward, link, complete, notices>> /\ events' = events + 1
      BY <1>3 DEF Request, Event
    <2>3. /\ del' \in [Deletions -> DeletionType] /\ \A j \in Deletions : j # k => del'[j] = del[j]
          /\ LeftAlone(k) /\ \A d \in ConnectionOrNone : d # c => del'[k].asked[d] = del[k].asked[d]
      BY <1>1, <1>3, CallsOnly
    <2> QED
      BY <1>1, <1>2, <1>3, <2>1, <2>3
  <1>4. CASE del[k].asked[c] > 0 /\ (ExecuteDeletion(k, c) \/ DeletionNotStarted(k, c))
    <2> DEFINE asked == WithAsked(k, c, del[k].asked[c] - 1)
    <2>1. /\ asked \in [Deletions -> DeletionType] /\ \A j \in Deletions : j # k => asked[j] = del[j]
          /\ asked[k].pc = del[k].pc /\ asked[k].conn = del[k].conn /\ asked[k].user = del[k].user
          /\ \A d \in ConnectionOrNone : d # c => asked[k].asked[d] = del[k].asked[d]
      <3>1. del[k].asked[c] - 1 \in Nat
        BY <1>1, <1>2, <1>4
      <3> QED
        BY <1>1, <1>2, <3>1, AskedChanged
    <2>2. /\ UNCHANGED <<rows, provider, plugin, forward, link, complete, notices, task>>
          /\ events' \in Nat
      BY <1>2, <1>4 DEF ExecuteDeletion, DeletionNotStarted, Event, bounds
    <2>3. Shapes => (k = "connection" <=> c # 0) /\ task[k] # "none"
      BY <1>1, <1>4 DEF Shapes
    <2>4. \/ del' = asked
          \/ /\ del[k].pc \in {"none", "failed"}
             /\ del' = [asked EXCEPT ![k].pc = "read", ![k].conn = c, ![k].user = 0]
      BY <1>4 DEF ExecuteDeletion, DeletionNotStarted, WithAsked
    <2> HIDE DEF asked
    <2>5. CASE del' = asked
      BY <1>1, <1>2, <2>1, <2>2, <2>3, <2>5 DEF LeftAlone
    <2>6. CASE /\ del[k].pc \in {"none", "failed"}
               /\ del' = [asked EXCEPT ![k].pc = "read", ![k].conn = c, ![k].user = 0]
      <3>1. /\ del' \in [Deletions -> DeletionType] /\ \A j \in Deletions : j # k => del'[j] = del[j]
            /\ del'[k].pc = "read" /\ del'[k].conn = c /\ del'[k].user = 0
            /\ \A d \in ConnectionOrNone : del'[k].asked[d] = asked[k].asked[d]
        <4> DEFINE x == [asked[k] EXCEPT !.pc = "read", !.conn = c, !.user = 0]
        <4>1. del' = [asked EXCEPT ![k] = x]
          BY <2>6
        <4>2. 0 \in UserOrNone /\ asked[k] \in DeletionType
          BY <1>1, <2>1, OpenBankingAssumption DEF UserOrNone
        <4>3. /\ x \in DeletionType /\ x.asked = asked[k].asked
              /\ x.pc = "read" /\ x.conn = c /\ x.user = 0
          BY <1>1, <4>2 DEF DeletionType
        <4> HIDE DEF x
        <4> QED
          BY <1>1, <2>1, <4>1, <4>3
      <3> QED
        BY <1>1, <1>2, <2>1, <2>2, <2>3, <2>6, <3>1 DEF Starts
    <2> QED
      BY <2>4, <2>5, <2>6
  <1> QED
    BY <1>3, <1>4 DEF RequestStep, ExecuteDeletion, DeletionNotStarted

LEMMA RequestTypes ==
    ASSUME Types, NEW k, NEW c, RequestStep(k, c)
    PROVE  Types'
  <1>1. history' \in HistoryType
    <2>1. CASE Request(k, c) \/ DeletionNotStarted(k, c)
      BY <2>1, HistoryTyped DEF RequestStep, Request, DeletionNotStarted, Types, WorkflowTypes
    <2>2. CASE ExecuteDeletion(k, c) /\ del[k].pc \in {"none", "failed"}
      <3>1. (history.raced \/ (k # "connection" /\ Forwarding)) \in BOOLEAN
        BY Zenon DEF Forwarding
      <3>2. (history.late \/ (k = "connector" /\ \E b \in Connections : InFlight(b) # {})) \in BOOLEAN
        BY Zenon
      <3>3. k \in Deletions
        BY DEF RequestStep
      <3> QED
        BY <2>2, <3>1, <3>2, <3>3, HistoryTyped DEF ExecuteDeletion
    <2>3. CASE ExecuteDeletion(k, c) /\ del[k].pc \notin {"none", "failed"}
      BY <2>3, HistoryTyped DEF RequestStep, ExecuteDeletion
    <2> QED
      BY <2>1, <2>2, <2>3 DEF RequestStep
  <1> QED
    BY <1>1, RequestTo DEF Types, RowTypes, ProviderTypes, CallTypes, WorkflowTypes, rows, provider

\* A deletion moves on.
LEMMA Moved ==
    ASSUME Types, NEW k \in Deletions,
           NEW pc \in {"plugin", "payments", "accounts", "row", "failing", "succeeding", "failed", "done"},
           Move(k, pc)
    PROVE  /\ del' \in [Deletions -> DeletionType]
           /\ del'[k].pc = pc /\ del'[k].conn = del[k].conn /\ del'[k].user = del[k].user
           /\ del'[k].asked = del[k].asked
           /\ \A j \in Deletions : j # k => del'[j] = del[j]
  BY DEF Move, Types, WorkflowTypes, DeletionType

LEMMA DeleteReadTo ==
    ASSUME Types, NEW k \in Deletions, DeleteRead(k)
    PROVE  /\ del[k].pc = "read" /\ del' \in [Deletions -> DeletionType]
           /\ del'[k].conn = del[k].conn /\ del'[k].asked = del[k].asked
           /\ \A j \in Deletions : j # k => del'[j] = del[j]
           /\ del'[k].user \in {del[k].user, fwd}
           /\ \/ /\ del'[k].pc = "plugin" /\ del'[k].user = fwd /\ psu
                 /\ k = "connection" => conns[del[k].conn] # "none"
              \/ del'[k].pc = "failing"
  <1>1. CASE psu /\ (k = "user" \/ fwd # 0) /\ (k = "connection" => conns[del[k].conn] # "none")
    <2>1. del' = [del EXCEPT ![k].pc = "plugin", ![k].user = fwd]
      BY <1>1 DEF DeleteRead
    <2> QED
      BY <1>1, <2>1 DEF DeleteRead, Types, WorkflowTypes, RowTypes, DeletionType
  <1>2. CASE ~(psu /\ (k = "user" \/ fwd # 0) /\ (k = "connection" => conns[del[k].conn] # "none"))
    BY <1>2, Moved DEF DeleteRead
  <1> QED
    BY <1>1, <1>2

\* The call of the provider: it deletes, and the deletion goes on or fails, or it
\* refuses.
LEMMA DeleteCallTo ==
    ASSUME Types, NEW k \in Deletions, DeleteCall(k)
    PROVE  /\ del[k].pc = "plugin" /\ events' \in Nat /\ history' \in HistoryType
           /\ UNCHANGED <<rows, plugin, forward, link, complete, notices, task>>
           /\ history'.raced = history.raced /\ history'.late = history.late
           /\ history'.overlapped = history.overlapped /\ history'.revived = history.revived
           /\ \/ DeletedAtProvider(k) /\ Move(k, "payments") /\ history'.unrecorded = history.unrecorded
              \/ /\ DeletedAtProvider(k) /\ Move(k, "failing")
                 /\ history'.unrecorded = IF k = "connection" THEN history.unrecorded
                                          ELSE history.unrecorded \cup {del[k].user}
              \/ UNCHANGED provider /\ Move(k, "failing") /\ history'.unrecorded = history.unrecorded
  <1>1. history \in HistoryType /\ events \in Nat /\ del[k].user \in UserOrNone
    BY DEF Types, WorkflowTypes, ProviderTypes, DeletionType
  <1>2. CASE DeletedAtProvider(k) /\ Move(k, "payments") /\ UNCHANGED <<bounds, history>>
    BY <1>1, <1>2 DEF DeleteCall, bounds
  <1>3. CASE /\ DeletedAtProvider(k) /\ Move(k, "failing") /\ Event
             /\ history' = [history EXCEPT !.unrecorded =
                               IF k = "connection" THEN @ ELSE @ \cup {del[k].user}]
    <2>1. /\ history' \in HistoryType
          /\ history'.raced = history.raced /\ history'.late = history.late
          /\ history'.overlapped = history.overlapped /\ history'.revived = history.revived
          /\ history'.unrecorded = IF k = "connection" THEN history.unrecorded
                                   ELSE history.unrecorded \cup {del[k].user}
      BY <1>1, <1>3 DEF HistoryType
    <2> QED
      BY <1>1, <1>3, <2>1 DEF DeleteCall, Event
  <1>4. CASE Move(k, "failing") /\ UNCHANGED <<provider, bounds, history>>
    BY <1>1, <1>4 DEF DeleteCall, bounds
  <1> QED
    BY <1>2, <1>3, <1>4 DEF DeleteCall

\* What is deleted with the last step of a deletion.
LEMMA DeleteRowTo ==
    ASSUME NEW k \in Deletions, DeleteRow(k)
    PROVE  /\ del[k].pc = "row"
           /\ k = "user" /\ ~psu => UNCHANGED rows
           /\ k = "user" /\ psu => PaymentServiceUsersDelete
           /\ k = "connector" => OpenBankingForwardedUserDelete
           /\ k = "connection" => OpenBankingConnectionsDelete(del[k].conn)
           /\ UNCHANGED <<provider, plugin, forward, link, complete, notices, task, history>>
           /\ \/ UNCHANGED del
              \/ ~(k = "user" /\ ~psu) /\ Move(k, "succeeding")
              \/ k = "user" /\ ~psu /\ Move(k, "failing")
  <1>1. CASE k = "user" /\ ~psu
    BY <1>1 DEF DeleteRow, bounds, Event
  <1>2. CASE k = "user" /\ psu
    BY <1>2 DEF DeleteRow, bounds, Event
  <1>3. CASE k = "connector"
    BY <1>3 DEF DeleteRow, bounds, Event
  <1>4. CASE k = "connection"
    BY <1>4 DEF DeleteRow, bounds, Event
  <1> QED
    BY <1>1, <1>2, <1>3, <1>4 DEF Deletions

LEMMA DeleteTypes ==
    ASSUME Types, Shapes, NEW k \in Deletions, DeleteStep(k)
    PROVE  Types'
  <1> USE OpenBankingAssumption
  <1>1. CASE DeleteRead(k)
    BY <1>1, DeleteReadTo DEF DeleteRead, Types, RowTypes, ProviderTypes, CallTypes, WorkflowTypes,
       rows, provider, bounds
  <1>2. CASE DeleteCall(k)
    <2>1. del' \in [Deletions -> DeletionType]
      BY <1>2, DeleteCallTo, Moved
    <2>2. items' \in [Connections -> ItemType] /\ users' \subseteq Calls
      <3>1. CASE DeletedAtProvider(k)
        BY <3>1 DEF DeletedAtProvider, Gone, Types, ProviderTypes, ItemType
      <3>2. CASE UNCHANGED provider
        BY <3>2 DEF Types, ProviderTypes, provider
      <3> QED
        BY <1>2, <3>1, <3>2, DeleteCallTo
    <2> QED
      BY <1>2, <2>1, <2>2, DeleteCallTo DEF Types, RowTypes, ProviderTypes, CallTypes, WorkflowTypes, rows
  <1>3. CASE DeleteOpenBankingConnectionData(k)
    <2>1. del' \in [Deletions -> DeletionType]
      BY <1>3, Moved DEF DeleteOpenBankingConnectionData
    <2> QED
      BY <1>3, <2>1 DEF DeleteOpenBankingConnectionData, DeleteData, Types, RowTypes, ProviderTypes,
         CallTypes, WorkflowTypes, provider, bounds
  <1>4. CASE DeleteRow(k)
    <2>1. del' \in [Deletions -> DeletionType]
      BY <1>4, Moved DEF DeleteRow, Types, WorkflowTypes
    <2>2. RowTypes'
      <3>1. CASE k = "user" /\ ~psu
        BY <1>4, <3>1 DEF DeleteRow, Types, RowTypes, rows
      <3>2. CASE k = "user" /\ psu
        <4>1. PaymentServiceUsersDelete
          BY <1>4, <3>2, DeleteRowTo
        <4>2. psu' \in BOOLEAN
          BY <4>1, Zenon DEF PaymentServiceUsersDelete
        <4>3. fwd' \in UserOrNone
          BY <4>1 DEF PaymentServiceUsersDelete, UserOrNone
        <4> QED
          BY <4>1, <4>2, <4>3 DEF PaymentServiceUsersDelete, RowTypes
      <3>3. CASE k = "connector"
        BY <1>4, <3>3 DEF DeleteRow, OpenBankingForwardedUserDelete, Types, RowTypes, UserOrNone
      <3>4. CASE k = "connection"
        BY <1>4, <3>4 DEF DeleteRow, OpenBankingConnectionsDelete, Types, RowTypes
      <3> QED
        BY <3>1, <3>2, <3>3, <3>4 DEF Deletions
    <2>3. plugin' \in Plugins /\ events' \in Nat
      BY <1>4 DEF DeleteRow, Event, bounds, Types, ProviderTypes
    <2> QED
      BY <1>4, <2>1, <2>2, <2>3 DEF DeleteRow, Types, ProviderTypes, CallTypes, WorkflowTypes, provider
  <1>5. CASE DeleteEnd(k)
    <2>1. del' \in [Deletions -> DeletionType]
      BY <1>5, Moved DEF DeleteEnd
    <2> QED
      BY <1>5, <2>1 DEF DeleteEnd, Types, RowTypes, ProviderTypes, CallTypes, WorkflowTypes,
         rows, provider, bounds
  <1> QED
    BY <1>1, <1>2, <1>3, <1>4, <1>5 DEF DeleteStep

\* The steps of the specification, by what they change.
LEMMA Steps ==
    ASSUME Next
    PROVE  \/ \E n \in Calls : Forward(n) \/ ForwardStep(n) \/ ForwardLost(n)
           \/ \E a \in Attempts : LinkStep(a)
           \/ \E a \in Attempts : SessionExited(a) /\ plugin # "plaid"
           \/ SendStep
           \/ \E n \in 1 .. MaxEvents : NoticeStep(n) \/ NoticeAgain(n)
           \/ \E k, c : RequestStep(k, c)
           \/ \E k \in Deletions : DeleteStep(k)
  <1>1. ASSUME NEW k \in Deletions, NEW c \in ConnectionOrNone, ExecuteDeletion(k, c) \/ DeletionNotStarted(k, c)
        PROVE  RequestStep(k, c)
    BY <1>1 DEF RequestStep
  <1> QED
    BY <1>1, Requested DEF Next, LinkStep, SendStep

LEMMA NextTypes == Types /\ Shapes /\ [Next]_vars => Types'
  <1> SUFFICES ASSUME Types, Shapes, [Next]_vars PROVE Types'
    OBVIOUS
  <1>1. CASE Next
    BY <1>1, Steps, ForwardTypes, LinkTypes, ExitTypes, SendTypes, NoticeTypes, RequestTypes, DeleteTypes
  <1>2. CASE UNCHANGED vars
    BY <1>2 DEF vars, rows, provider, bounds, Types, RowTypes, ProviderTypes, CallTypes, WorkflowTypes
  <1> QED
    BY <1>1, <1>2

LinkShapes ==
    /\ \A a \in Attempts : link[a].pc # "new" => link[a].conn # 0
    /\ \A a \in Attempts : complete[a] # "new" => link[a].pc # "new"
    /\ \A a \in Attempts : complete[a] = "connection" => plugin # "powens"

NoticeShapes ==
    \A n \in DOMAIN notices :
        NoticeShape(notices[n]) /\ (notices[n].kind = "session" => link[notices[n].attempt].pc # "new")

DeletionShapes ==
    \A k \in Deletions :
        /\ del[k].pc # "none" => (task[k] # "none" /\ (k = "connection" <=> del[k].conn # 0))
        /\ \A c \in ConnectionOrNone :
             del[k].asked[c] > 0 => (task[k] # "none" /\ (k = "connection" <=> c # 0))

LEMMA ShapesByPart == Shapes <=> LinkShapes /\ NoticeShapes /\ DeletionShapes
  BY DEF Shapes, LinkShapes, NoticeShapes, DeletionShapes

\* A session that was started stays so.
LEMMA LinkShapesKept ==
    ASSUME Types, Shapes, [Next]_vars
    PROVE  /\ LinkShapes'
           /\ \A a \in Attempts : link[a].pc # "new" => link'[a].pc # "new"
  <1> DEFINE Q == /\ LinkShapes'
                  /\ \A a \in Attempts : link[a].pc # "new" => link'[a].pc # "new"
  <1> USE OpenBankingAssumption
  <1>0. LinkShapes
    BY ShapesByPart
  <1>1. ASSUME UNCHANGED <<link, complete, plugin>> PROVE Q
    BY <1>0, <1>1 DEF LinkShapes
  <1>2. ASSUME NEW n \in Calls, Forward(n) \/ ForwardStep(n) \/ ForwardLost(n) PROVE Q
    BY <1>1, <1>2 DEF Forward, ForwardStep, ForwardLost, CreateUser, OpenBankingForwardedUserUpsert,
       Event, bounds
  <1>3. ASSUME NEW a \in Attempts, LinkStep(a) PROVE Q
    <2>1. CASE CreatePaymentServiceUserLink(a) \/ UpdatePaymentServiceUserLink(a)
      <3>1. PICK c \in Connections : StartLink(a, c)
        BY <2>1, StartedLink
      <3>2. c # 0
        BY DEF Connections
      <3> QED
        BY <1>0, <3>1, <3>2 DEF StartLink, LinkShapes, Event, Types, CallTypes
    <2>2. CASE LinkCreated(a)
      <3>1. link' = [link EXCEPT ![a].pc = "given"] \/ link' = [link EXCEPT ![a].pc = "error"]
        BY <2>2 DEF LinkCreated
      <3>2. /\ link'[a].pc # "new" /\ link'[a].conn = link[a].conn
            /\ \A b \in Attempts : b # a => link'[b] = link[b]
        BY <3>1 DEF Types, CallTypes, LinkType
      <3>3. UNCHANGED <<complete, plugin>> /\ link[a].pc = "plugin"
        BY <2>2 DEF LinkCreated, bounds
      <3> QED
        BY <1>0, <3>2, <3>3 DEF LinkShapes
    <2>3. CASE PaymentServiceUsersCompleteLinkFlow(a)
      BY <1>0, <2>3 DEF PaymentServiceUsersCompleteLinkFlow, Completed, LinkShapes, Types, CallTypes, bounds
    <2>4. CASE CompleteCall(a)
      BY <1>0, <2>4 DEF CompleteCall, LinkShapes, Types, CallTypes, bounds
    <2>5. CASE CompleteStore(a)
      BY <1>0, <2>5 DEF CompleteStore, LinkShapes, Types, CallTypes, bounds
    <2>6. CASE CompleteConnection(a)
      BY <1>0, <2>6 DEF CompleteConnection, LinkShapes, Types, CallTypes, bounds
    <2> QED
      BY <1>3, <2>1, <2>2, <2>3, <2>4, <2>5, <2>6 DEF LinkStep, CompleteStep
  <1>4. ASSUME NEW a \in Attempts, SessionExited(a) \/ SessionLinked(a) PROVE Q
    <2>1. link' = [link EXCEPT ![a].pc = "exited"] \/ link' = [link EXCEPT ![a].pc = "linked"]
      BY <1>4 DEF SessionExited, SessionLinked
    <2>2. /\ link'[a].pc # "new" /\ link'[a].conn = link[a].conn
          /\ \A b \in Attempts : b # a => link'[b] = link[b]
      BY <2>1 DEF Types, CallTypes, LinkType
    <2>3. UNCHANGED <<complete, plugin>> /\ link[a].pc = "given"
      BY <1>4 DEF SessionExited, SessionLinked, Announce, Send, Event, bounds
    <2> QED
      BY <1>0, <2>2, <2>3 DEF LinkShapes
  <1>5. ASSUME NEW c \in Connections, ItemDown(c) \/ ItemSynced(c) \/ ItemUpdated(c) PROVE Q
    BY <1>1, <1>5 DEF ItemDown, ItemSynced, ItemUpdated, Announce, Send, Event
  <1>6. ASSUME NEW n, NoticeStep(n) \/ NoticeAgain(n) PROVE Q
    <2>1. UNCHANGED <<link, plugin>>
      BY <1>6, NoticeFrame
    <2>2. CASE SessionTranslate(n)
      <3>1. n \in DOMAIN notices /\ notices[n].kind = "session"
        BY <2>2 DEF SessionTranslate, NoticeAt
      <3>2. link[notices[n].attempt].pc # "new" /\ notices[n].attempt \in Attempts
        BY <3>1 DEF Shapes, NoticeShape
      <3>3. complete' = complete \/ complete' = [complete EXCEPT ![notices[n].attempt] = "start"]
        BY <2>2 DEF SessionTranslate, Completed
      <3> QED
        BY <1>0, <2>1, <3>2, <3>3 DEF LinkShapes, Types, CallTypes
    <2>3. CASE ~SessionTranslate(n)
      BY <1>1, <1>6, <2>1, <2>3 DEF NoticeStep, NoticeAgain, OpenBankingConnectionAttemptsUpdateStatus,
         NoticeRead, NoticeStore, StartFetch, FetchDone, SyncRead, SyncStore, FetchNext, FetchStore
    <2> QED
      BY <2>2, <2>3
  <1>7. ASSUME NEW k, NEW c, RequestStep(k, c) PROVE Q
    BY <1>1, <1>7, RequestTo
  <1>8. ASSUME NEW k \in Deletions, DeleteStep(k) PROVE Q
    BY <1>1, <1>8 DEF DeleteStep, DeleteRead, DeleteCall, DeleteOpenBankingConnectionData, DeleteRow,
       DeleteEnd, Event, bounds
  <1>9. CASE Next
    BY <1>2, <1>3, <1>4, <1>5, <1>6, <1>7, <1>8, <1>9, Steps DEF SendStep
  <1>10. CASE UNCHANGED vars
    BY <1>1, <1>10 DEF vars, bounds
  <1> QED
    BY <1>9, <1>10

\* The shape of a webhook that changed.
LEMMA ShapeOf ==
    ASSUME Types, Shapes, NEW n, NoticeStep(n) \/ NoticeAgain(n)
    PROVE  NoticeShape(notices'[n])
  <1> USE DEF ChangesTo, NoticeShape, Kinds
  <1>0. WorkflowTypes
    BY DEF Types
  <1>1. n \in DOMAIN notices
    BY <1>0, NoticeChanges
  <1>2. NoticeShape(notices[n]) /\ notices[n].left \subseteq Kinds /\ notices[n].got \subseteq Kinds
    BY <1>0, <1>1, NoticeTyped DEF Shapes
  <1>3. CASE SessionTranslate(n)
    BY <1>0, <1>2, <1>3, SessionTranslateTo
  <1>4. CASE OpenBankingConnectionAttemptsUpdateStatus(n)
    BY <1>0, <1>2, <1>4, UpdateStatusTo
  <1>5. CASE NoticeRead(n)
    BY <1>0, <1>2, <1>5, NoticeReadTo
  <1>6. CASE NoticeStore(n)
    BY <1>0, <1>2, <1>6, NoticeStoreTo
  <1>7. CASE StartFetch(n)
    BY <1>0, <1>2, <1>7, StartFetchTo
  <1>8. CASE FetchDone(n)
    BY <1>0, <1>2, <1>8, FetchDoneTo
  <1>9. CASE NoticeAgain(n)
    BY <1>0, <1>2, <1>9, NoticeAgainTo
  <1>10. ASSUME NEW k \in Kinds, SyncRead(n, k) PROVE NoticeShape(notices'[n])
    BY <1>0, <1>2, <1>10, SyncReadTo
  <1>11. ASSUME NEW k \in Kinds, SyncStore(n, k) PROVE NoticeShape(notices'[n])
    BY <1>0, <1>2, <1>11, SyncStoreTo
  <1>12. ASSUME NEW k \in Kinds, FetchNext(n, k) PROVE NoticeShape(notices'[n])
    BY <1>0, <1>2, <1>12, FetchNextTo
  <1>13. ASSUME NEW k \in Kinds, FetchStore(n, k) PROVE NoticeShape(notices'[n])
    BY <1>0, <1>2, <1>13, FetchStoreTo
  <1> QED
    BY <1>3, <1>4, <1>5, <1>6, <1>7, <1>8, <1>9, <1>10, <1>11, <1>12, <1>13 DEF NoticeStep

LEMMA NoticeShapesKept ==
    ASSUME Types, Shapes, [Next]_vars
    PROVE  NoticeShapes'
  <1> USE OpenBankingAssumption
  <1>0. NoticeShapes
    BY ShapesByPart
  <1>1. \A a \in Attempts : link[a].pc # "new" => link'[a].pc # "new"
    BY LinkShapesKept
  <1>2. ASSUME UNCHANGED <<notices, plugin>> PROVE NoticeShapes'
    BY <1>0, <1>1, <1>2 DEF NoticeShapes, NoticeShape
  <1>11. ASSUME Trimmed PROVE NoticeShapes'
    BY <1>2, <1>11 DEF Trimmed, Event
  <1>3. ASSUME SendStep, ~Trimmed PROVE NoticeShapes'
    <2>1. PICK notice : Announced(notice)
      BY <1>3, SendAnnounces
    <2>2. /\ DOMAIN notices' = 1 .. (Len(notices) + 1) /\ DOMAIN notices = 1 .. Len(notices)
          /\ Len(notices) \in Nat
          /\ notices'[Len(notices) + 1] = notice /\ \A m \in DOMAIN notices : notices'[m] = notices[m]
          /\ plugin' = plugin
      BY <2>1, Sent DEF Announced, Types
    <2>3. \A m \in DOMAIN notices' : m \in DOMAIN notices \/ m = Len(notices) + 1
      BY <2>2
    <2>4. NoticeShape(notice)' /\ (notice.kind = "session" => link[notice.attempt].pc # "new")'
      BY <1>1, <2>1, <2>2 DEF Announced, NoticeShape
    <2> QED
      BY <1>0, <1>1, <2>2, <2>3, <2>4 DEF NoticeShapes, NoticeShape
  <1>4. ASSUME NEW n, NoticeStep(n) \/ NoticeAgain(n) PROVE NoticeShapes'
    <2>1. NoticeShape(notices'[n])
      BY <1>4, ShapeOf
    <2>2. /\ DOMAIN notices' = DOMAIN notices /\ \A m \in DOMAIN notices \ {n} : notices'[m] = notices[m]
          /\ notices'[n].kind = notices[n].kind /\ notices'[n].attempt = notices[n].attempt
      BY <1>4, NoticeChanges DEF ChangesTo, Types
    <2>3. UNCHANGED <<plugin, link>>
      BY <1>4, NoticeFrame
    <2> QED
      BY <1>0, <2>1, <2>2, <2>3 DEF NoticeShapes, NoticeShape
  <1>5. CASE Next
    <2>1. ASSUME NEW n \in Calls, Forward(n) \/ ForwardStep(n) \/ ForwardLost(n)
          PROVE  UNCHANGED <<notices, plugin>>
      BY <2>1 DEF Forward, ForwardStep, ForwardLost, CreateUser, OpenBankingForwardedUserUpsert, Event, bounds
    <2>2. ASSUME NEW a \in Attempts, LinkStep(a) PROVE UNCHANGED <<notices, plugin>>
      <3>1. CASE CreatePaymentServiceUserLink(a) \/ UpdatePaymentServiceUserLink(a)
        BY <3>1, StartedLink DEF StartLink, Event
      <3>2. CASE ~(CreatePaymentServiceUserLink(a) \/ UpdatePaymentServiceUserLink(a))
        BY <2>2, <3>2 DEF LinkStep, CompleteStep, LinkCreated, PaymentServiceUsersCompleteLinkFlow,
           CompleteCall, CompleteStore, CompleteConnection, bounds
      <3> QED
        BY <3>1, <3>2
    <2>3. ASSUME NEW a \in Attempts, SessionExited(a), plugin # "plaid" PROVE UNCHANGED <<notices, plugin>>
      BY <2>3 DEF SessionExited, bounds
    <2>4. ASSUME NEW k, NEW c, RequestStep(k, c) PROVE UNCHANGED <<notices, plugin>>
      BY <2>4, RequestTo
    <2>5. ASSUME NEW k \in Deletions, DeleteStep(k) PROVE UNCHANGED <<notices, plugin>>
      BY <2>5 DEF DeleteStep, DeleteRead, DeleteCall, DeleteOpenBankingConnectionData, DeleteRow,
         DeleteEnd, Event, bounds
    <2> QED
      BY <1>2, <1>3, <1>4, <1>5, <1>11, <2>1, <2>2, <2>3, <2>4, <2>5, Steps
  <1>6. CASE UNCHANGED vars
    BY <1>2, <1>6 DEF vars, bounds
  <1> QED
    BY <1>5, <1>6

\* What changes a deletion: a request, or a step of it.
LEMMA DeletionFrame ==
    ASSUME [Next]_vars, ~ \E k, c : RequestStep(k, c), ~ \E k \in Deletions : DeleteStep(k)
    PROVE  UNCHANGED <<del, task>>
  <1>1. ASSUME NEW n \in Calls, Forward(n) \/ ForwardStep(n) \/ ForwardLost(n)
        PROVE  UNCHANGED <<del, task>>
    BY <1>1 DEF Forward, ForwardStep, ForwardLost, CreateUser, OpenBankingForwardedUserUpsert
  <1>2. ASSUME NEW a \in Attempts, LinkStep(a) PROVE UNCHANGED <<del, task>>
    <2>1. CASE CreatePaymentServiceUserLink(a) \/ UpdatePaymentServiceUserLink(a)
      BY <2>1, StartedLink DEF StartLink
    <2>2. CASE ~(CreatePaymentServiceUserLink(a) \/ UpdatePaymentServiceUserLink(a))
      BY <1>2, <2>2 DEF LinkStep, CompleteStep, LinkCreated, PaymentServiceUsersCompleteLinkFlow,
         CompleteCall, CompleteStore, CompleteConnection
    <2> QED
      BY <2>1, <2>2
  <1>3. ASSUME NEW a \in Attempts, SessionExited(a) \/ SessionLinked(a) PROVE UNCHANGED <<del, task>>
    BY <1>3 DEF SessionExited, SessionLinked
  <1>4. ASSUME NEW c \in Connections, ItemDown(c) \/ ItemSynced(c) \/ ItemUpdated(c)
        PROVE  UNCHANGED <<del, task>>
    BY <1>4 DEF ItemDown, ItemSynced, ItemUpdated
  <1>5. CASE Next
    BY <1>1, <1>2, <1>3, <1>4, <1>5, NoticeFrame, Steps DEF SendStep
  <1>6. CASE UNCHANGED vars
    BY <1>6 DEF vars
  <1> QED
    BY <1>5, <1>6

\* A step of a deletion that was started.
LEMMA DeleteTo ==
    ASSUME Types, NEW k \in Deletions, DeleteStep(k)
    PROVE  /\ del[k].pc \notin Idle
           /\ del'[k].pc # "none" /\ del'[k].conn = del[k].conn
           /\ \A j \in Deletions : j # k => task'[j] = task[j] /\ del'[j] = del[j]
           /\ del'[k].asked = del[k].asked /\ del'[k].user \in {del[k].user, fwd}
           /\ task'[k] = task[k] \/ task'[k] \in {"FAILED", "SUCCEEDED"}
           /\ UNCHANGED <<plugin, forward, link, complete, notices>>
           /\ history'.raced = history.raced /\ history'.late = history.late
           /\ history'.overlapped = history.overlapped /\ history'.revived = history.revived
           /\ ~DeleteCall(k) => history' = history
  <1> USE DEF Idle
  <1>1. CASE DeleteRead(k)
    BY <1>1, DeleteReadTo DEF DeleteRead, bounds
  <1>2. CASE DeleteCall(k)
    BY <1>2, DeleteCallTo, Moved
  <1>3. CASE DeleteOpenBankingConnectionData(k)
    BY <1>3, Moved DEF DeleteOpenBankingConnectionData, bounds
  <1>4. CASE DeleteRow(k)
    BY <1>4, Moved, DeleteRowTo
  <1>5. CASE DeleteEnd(k)
    BY <1>5, Moved DEF DeleteEnd, bounds, Types, WorkflowTypes
  <1> QED
    BY <1>1, <1>2, <1>3, <1>4, <1>5 DEF DeleteStep

LEMMA DeletionShapesKept ==
    ASSUME Types, Shapes, [Next]_vars
    PROVE  DeletionShapes'
  <1>0. DeletionShapes
    BY ShapesByPart
  <1>1. ASSUME NEW k, NEW c, RequestStep(k, c) PROVE DeletionShapes'
    <2>1. \A j \in Deletions : j # k => task'[j] = task[j] /\ del'[j] = del[j]
      BY <1>1, RequestTo
    <2>2. /\ k \in Deletions /\ (k = "connection" <=> c # 0) /\ task'[k] # "none"
          /\ Starts(k, c) \/ LeftAlone(k)
          /\ \A d \in ConnectionOrNone : del'[k].asked[d] > 0 => d = c \/ del[k].asked[d] > 0
      BY <1>1, RequestTo
    <2> QED
      BY <1>0, <2>1, <2>2 DEF DeletionShapes, Starts, LeftAlone
  <1>2. ASSUME NEW k \in Deletions, DeleteStep(k) PROVE DeletionShapes'
    BY <1>0, <1>2, DeleteTo DEF DeletionShapes, Idle, Types, WorkflowTypes
  <1>3. ASSUME UNCHANGED <<del, task>> PROVE DeletionShapes'
    BY <1>0, <1>3 DEF DeletionShapes
  <1> QED
    BY <1>1, <1>2, <1>3, DeletionFrame

LEMMA NextTypeInv == TypeInv /\ [Next]_vars => TypeInv'
  <1> SUFFICES ASSUME Types, Shapes, [Next]_vars PROVE Types' /\ Shapes'
    BY DEF TypeInv
  <1>1. Types'
    BY NextTypes
  <1>2. LinkShapes' /\ NoticeShapes' /\ DeletionShapes'
    BY LinkShapesKept, NoticeShapesKept, DeletionShapesKept
  <1>3. Shapes'
    BY <1>2 DEF Shapes, LinkShapes, NoticeShapes, DeletionShapes
  <1> QED
    BY <1>1, <1>3

LEMMA AlwaysTyped == Spec => []TypeInv
  BY InitTypes, NextTypeInv, PTL DEF Spec

\* Every variable keeps its type: rows, calls, webhooks and deletions are in
\* one of their steps, and a kind of data is either still to be fetched or
\* about to be stored.
THEOREM OpenBankingTypeCorrect == Spec => []TypeOK
  <1>1. TypeInv => TypeOK
    BY DEF TypeInv, TypeOK, Types, RowTypes, ProviderTypes, CallTypes, WorkflowTypes, Shapes,
       NoticeShape, ItemType, LinkType, UserOrNone
  <1> QED
    BY <1>1, AlwaysTyped, PTL

-----------------------------------------------------------------------------
(* The user's rows.                                                        *)

\* Steps other than the last of a deletion leave the user's row alone.
LEMMA UserKept ==
    ASSUME Types, [Next]_vars, ~DeleteRow("user")
    PROVE  psu' = psu
  <1>1. ASSUME NEW n \in Calls, Forward(n) \/ ForwardStep(n) \/ ForwardLost(n) PROVE psu' = psu
    BY <1>1 DEF Forward, ForwardStep, ForwardLost, CreateUser, OpenBankingForwardedUserUpsert, rows
  <1>2. ASSUME NEW a \in Attempts, LinkStep(a) PROVE psu' = psu
    <2>1. CASE CreatePaymentServiceUserLink(a) \/ UpdatePaymentServiceUserLink(a)
      BY <2>1, StartedLink DEF StartLink
    <2>2. CASE ~(CreatePaymentServiceUserLink(a) \/ UpdatePaymentServiceUserLink(a))
      BY <1>2, <2>2 DEF LinkStep, CompleteStep, LinkCreated, PaymentServiceUsersCompleteLinkFlow,
         CompleteCall, CompleteStore, CompleteConnection, rows
    <2> QED
      BY <2>1, <2>2
  <1>3. ASSUME NEW a \in Attempts, SessionExited(a) \/ SessionLinked(a) PROVE psu' = psu
    BY <1>3 DEF SessionExited, SessionLinked, rows
  <1>4. ASSUME NEW c \in Connections, ItemDown(c) \/ ItemSynced(c) \/ ItemUpdated(c) PROVE psu' = psu
    BY <1>4 DEF ItemDown, ItemSynced, ItemUpdated, rows
  <1>5. ASSUME NEW k, NEW c, RequestStep(k, c) PROVE psu' = psu
    BY <1>5, RequestTo DEF rows
  <1>6. ASSUME NEW k \in Deletions, DeleteStep(k) PROVE psu' = psu
    <2>1. CASE DeleteRow(k)
      <3>1. k \in {"connector", "connection"}
        BY <2>1 DEF Deletions
      <3> QED
        BY <2>1, <3>1, DeleteRowTo DEF OpenBankingForwardedUserDelete, OpenBankingConnectionsDelete
    <2>2. CASE ~DeleteRow(k)
      BY <1>6, <2>2 DEF DeleteStep, DeleteRead, DeleteCall, DeleteOpenBankingConnectionData, DeleteEnd, rows
    <2> QED
      BY <2>1, <2>2
  <1>7. CASE Next
    BY <1>1, <1>2, <1>3, <1>4, <1>5, <1>6, <1>7, NoticeFrame, Steps DEF SendStep
  <1>8. CASE UNCHANGED vars
    BY <1>8 DEF vars, rows
  <1> QED
    BY <1>7, <1>8

\* Nothing that references the user comes after the user is gone.
LEMMA GoneStays ==
    ASSUME Types, Shapes, UserGone, ~psu, [Next]_vars
    PROVE  ~psu' /\ UserGone'
  <1> USE OpenBankingAssumption
  <1>0. /\ fwd = 0
        /\ \A a \in Attempts : attempts[a] = "none"
        /\ \A c \in Connections : conns[c] = "none" /\ data[c] = {}
    BY DEF UserGone
  <1>1. ASSUME UNCHANGED rows PROVE ~psu' /\ UserGone'
    BY <1>1 DEF rows, UserGone
  <1>2. ASSUME NEW n \in Calls, Forward(n) \/ ForwardStep(n) \/ ForwardLost(n) PROVE UNCHANGED rows
    BY <1>2 DEF Forward, ForwardStep, ForwardLost, CreateUser, OpenBankingForwardedUserUpsert, rows
  <1>3. ASSUME NEW a \in Attempts, LinkStep(a) PROVE UNCHANGED rows
    <2>1. CASE CreatePaymentServiceUserLink(a) \/ UpdatePaymentServiceUserLink(a)
      BY <2>1, StartedLink DEF StartLink
    <2>2. CASE ~(CreatePaymentServiceUserLink(a) \/ UpdatePaymentServiceUserLink(a))
      BY <1>3, <2>2 DEF LinkStep, CompleteStep, LinkCreated, PaymentServiceUsersCompleteLinkFlow,
         CompleteCall, CompleteStore, CompleteConnection, OpenBankingConnectionsUpsert, rows
    <2> QED
      BY <2>1, <2>2
  <1>4. ASSUME NEW a \in Attempts, SessionExited(a) \/ SessionLinked(a) PROVE UNCHANGED rows
    BY <1>4 DEF SessionExited, SessionLinked
  <1>5. ASSUME NEW c \in Connections, ItemDown(c) \/ ItemSynced(c) \/ ItemUpdated(c) PROVE UNCHANGED rows
    BY <1>5 DEF ItemDown, ItemSynced, ItemUpdated
  <1>6. ASSUME NEW n, NoticeStep(n) \/ NoticeAgain(n) PROVE UNCHANGED rows
    <2>1. n \in DOMAIN notices
      BY <1>6, NoticeChanges DEF Types
    <2>2. notices[n].conn \in Connections
      BY <2>1, NoticeTyped DEF Types
    <2>3. CASE OpenBankingConnectionAttemptsUpdateStatus(n)
      <3>1. notices[n].attempt \in Attempts
        BY <2>1, <2>3 DEF OpenBankingConnectionAttemptsUpdateStatus, NoticeAt, Shapes, NoticeShape
      <3> QED
        BY <1>0, <2>3, <3>1 DEF OpenBankingConnectionAttemptsUpdateStatus, rows
    <2>4. CASE NoticeStore(n)
      BY <2>4 DEF NoticeStore, OpenBankingConnectionsUpsert, rows
    <2>5. ASSUME NEW k \in Kinds, SyncStore(n, k) \/ FetchStore(n, k) PROVE UNCHANGED rows
      BY <1>0, <2>2, <2>5 DEF SyncStore, FetchStore, Upsert, rows
    <2>6. CASE \/ SessionTranslate(n) \/ NoticeRead(n) \/ StartFetch(n) \/ FetchDone(n) \/ NoticeAgain(n)
               \/ \E k \in Kinds : SyncRead(n, k) \/ FetchNext(n, k)
      BY <2>6 DEF SessionTranslate, NoticeRead, StartFetch, FetchDone, NoticeAgain, SyncRead, FetchNext
    <2> QED
      BY <1>6, <2>3, <2>4, <2>5, <2>6 DEF NoticeStep
  <1>7. ASSUME NEW k, NEW c, RequestStep(k, c) PROVE UNCHANGED rows
    BY <1>7, RequestTo
  <1>8. ASSUME NEW k \in Deletions, DeleteStep(k) PROVE ~psu' /\ UserGone'
    <2>1. CASE DeleteRow(k)
      <3>1. CASE k = "user"
        BY <1>1, <2>1, <3>1, DeleteRowTo
      <3>2. CASE k = "connector"
        BY <1>0, <2>1, <3>2, DeleteRowTo DEF OpenBankingForwardedUserDelete, UserGone
      <3>3. CASE k = "connection"
        BY <1>0, <2>1, <3>3, DeleteRowTo DEF OpenBankingConnectionsDelete, UserGone, Types, RowTypes
      <3> QED
        BY <3>1, <3>2, <3>3 DEF Deletions
    <2>2. CASE DeleteOpenBankingConnectionData(k)
      BY <1>0, <2>2 DEF DeleteOpenBankingConnectionData, DeleteData, UserGone
    <2>3. CASE DeleteRead(k) \/ DeleteCall(k) \/ DeleteEnd(k)
      BY <1>1, <2>3 DEF DeleteRead, DeleteCall, DeleteEnd
    <2> QED
      BY <1>8, <2>1, <2>2, <2>3 DEF DeleteStep
  <1>9. CASE Next
    BY <1>1, <1>2, <1>3, <1>4, <1>5, <1>6, <1>7, <1>8, <1>9, Steps DEF SendStep
  <1>10. CASE UNCHANGED vars
    BY <1>1, <1>10 DEF vars
  <1> QED
    BY <1>9, <1>10

\* A deletion succeeds by the step that deletes its row.
LEMMA SucceedsByRow ==
    ASSUME Types, [Next]_vars, NEW k \in Deletions, ~Succeeded(k), Succeeded(k)'
    PROVE  DeleteRow(k) /\ Move(k, "succeeding") /\ ~(k = "user" /\ ~psu) /\ task'[k] = task[k]
  <1> USE DEF Succeeded
  <1>1. ASSUME NEW j, NEW c, RequestStep(j, c) PROVE FALSE
    BY <1>1, RequestTo DEF Starts, LeftAlone
  <1>2. PICK j \in Deletions : DeleteStep(j)
    BY <1>1, DeletionFrame
  <1>3. j = k
    BY <1>2, DeleteTo
  <1>4. ~DeleteRead(k) /\ ~DeleteCall(k)
    BY DeleteReadTo, DeleteCallTo, Moved DEF DeleteRead
  <1>5. ~DeleteOpenBankingConnectionData(k)
    BY Moved DEF DeleteOpenBankingConnectionData
  <1>6. ~DeleteEnd(k)
    BY Moved DEF DeleteEnd, Types, WorkflowTypes
  <1>7. DeleteRow(k)
    BY <1>2, <1>3, <1>4, <1>5, <1>6 DEF DeleteStep
  <1> QED
    BY <1>7, DeleteRowTo, Moved

LEMMA UserInvariant == Spec => []UserInv
  <1>1. Init => UserInv
    BY DEF Init, UserInv, UserGone, Succeeded, Deletions
  <1>2. TypeInv /\ UserInv /\ [Next]_vars => UserInv'
    <2> SUFFICES ASSUME Types, Shapes, UserInv, [Next]_vars PROVE UserInv'
      BY DEF TypeInv
    <2>1. UserGone'
      <3>1. CASE ~psu
        BY <3>1, GoneStays DEF UserInv
      <3>2. CASE psu /\ ~DeleteRow("user")
        BY <3>2, UserKept DEF UserGone
      <3>3. CASE psu /\ DeleteRow("user")
        BY <3>3, DeleteRowTo DEF PaymentServiceUsersDelete, UserGone, Deletions
      <3> QED
        BY <3>1, <3>2, <3>3
    <2>2. Succeeded("user")' => ~psu'
      <3>1. CASE Succeeded("user")
        BY <3>1, GoneStays DEF UserInv
      <3>2. CASE ~Succeeded("user")
        BY <3>2, SucceedsByRow, DeleteRowTo DEF PaymentServiceUsersDelete, Deletions
      <3> QED
        BY <3>1, <3>2
    <2> QED
      BY <2>1, <2>2 DEF UserInv
  <1> QED
    BY <1>1, <1>2, AlwaysTyped, PTL DEF Spec

-----------------------------------------------------------------------------
(* Forwards and removals.                                                  *)

\* What the history notes.
LEMMA ForwardNotes ==
    ASSUME Types, NEW n, Forward(n)
    PROVE  /\ history'.raced <=> (history.raced \/ Forwarding \/ Removing)
           /\ history'.unrecorded = history.unrecorded
  <1>1. history \in HistoryType
    BY DEF Types, WorkflowTypes
  <1>2. history' = [history EXCEPT !.raced = @ \/ Forwarding \/ Removing]
    BY DEF Forward
  <1> QED
    BY <1>1, <1>2 DEF HistoryType

LEMMA LostNotes ==
    ASSUME Types, NEW n, ForwardLost(n)
    PROVE  history'.raced /\ history'.unrecorded = history.unrecorded
  <1>1. history \in HistoryType
    BY DEF Types, WorkflowTypes
  <1>2. history' = [history EXCEPT !.raced = TRUE]
    BY DEF ForwardLost
  <1> QED
    BY <1>1, <1>2 DEF HistoryType

LEMMA RequestNotes ==
    ASSUME Types, NEW k, NEW c, RequestStep(k, c)
    PROVE  /\ history.raced => history'.raced
           /\ history.late => history'.late
           /\ history'.overlapped = history.overlapped /\ history'.revived = history.revived
           /\ history'.unrecorded = history.unrecorded
           /\ (Starts(k, c) /\ k # "connection" /\ Forwarding) => history'.raced
           /\ (Starts(k, c) /\ k = "connector" /\ \E b \in Connections : InFlight(b) # {}) => history'.late
  <1>1. history \in HistoryType /\ k \in Deletions /\ c \in ConnectionOrNone
    BY DEF Types, WorkflowTypes, RequestStep
  <1>2. CASE ExecuteDeletion(k, c) /\ del[k].pc \in {"none", "failed"}
    <2>1. history' = [history EXCEPT
                   !.raced = @ \/ (k # "connection" /\ Forwarding),
                   !.late = @ \/ (k = "connector" /\ \E b \in Connections : InFlight(b) # {}),
                   !.unserved = @ \ {k}]
      BY <1>2 DEF ExecuteDeletion
    <2> QED
      BY <1>1, <2>1 DEF HistoryType
  <1>3. CASE ExecuteDeletion(k, c) /\ del[k].pc \notin {"none", "failed"}
    <2>1. history' = [history EXCEPT !.unserved = @ \cup {k}]
      BY <1>3 DEF ExecuteDeletion
    <2> QED
      BY <1>1, <1>3, <2>1 DEF HistoryType, Starts
  <1>4. CASE Request(k, c) \/ DeletionNotStarted(k, c)
    <2>1. ~Starts(k, c)
      BY <1>1, <1>4, CallsOnly DEF Starts, LeftAlone
    <2>2. history' = history \/ history' = [history EXCEPT !.unserved = @ \cup {k}]
      BY <1>4 DEF Request, DeletionNotStarted
    <2> QED
      BY <1>1, <2>1, <2>2 DEF HistoryType
  <1> QED
    BY <1>2, <1>3, <1>4 DEF RequestStep

LEMMA LateNotes ==
    ASSUME Types, NoteLate
    PROVE  /\ history'.late <=> (history.late \/ del["connector"].pc \notin Idle)
           /\ history'.raced = history.raced /\ history'.unrecorded = history.unrecorded
           /\ history'.overlapped = history.overlapped /\ history'.revived = history.revived
  <1>1. history \in HistoryType
    BY DEF Types, WorkflowTypes
  <1> QED
    BY <1>1 DEF HistoryType, NoteLate

LEMMA RevivedNotes ==
    ASSUME Types, NEW c, NoteRevived(c)
    PROVE  /\ history'.raced = history.raced /\ history'.late = history.late
           /\ history'.overlapped = history.overlapped /\ history'.unrecorded = history.unrecorded
           /\ history'.revived = IF psu /\ items[c].state = "gone" THEN history.revived \cup {c}
                                                                   ELSE history.revived
  <1>1. history \in HistoryType
    BY DEF Types, WorkflowTypes
  <1>2. CASE psu /\ items[c].state = "gone"
    <2>1. history' = [history EXCEPT !.revived = @ \cup {c}]
      BY <1>2 DEF NoteRevived
    <2> QED
      BY <1>1, <1>2, <2>1 DEF HistoryType
  <1>3. CASE ~(psu /\ items[c].state = "gone")
    BY <1>3 DEF NoteRevived
  <1> QED
    BY <1>2, <1>3

LEMMA AgainNotes ==
    ASSUME Types, NEW n, NoticeAgain(n)
    PROVE  /\ history'.raced = history.raced /\ history'.late = history.late
           /\ history'.revived = history.revived /\ history'.unrecorded = history.unrecorded
           /\ history.overlapped \subseteq history'.overlapped
           /\ (\E m \in DOMAIN notices : m > n /\ notices[m].conn = notices[n].conn)
                => notices[n].conn \in history'.overlapped
  <1>1. history \in HistoryType
    BY DEF Types, WorkflowTypes
  <1>2. CASE \E m \in DOMAIN notices : m > n /\ notices[m].conn = notices[n].conn
    <2>1. history' = [history EXCEPT !.overlapped = @ \cup {notices[n].conn}]
      BY <1>2 DEF NoticeAgain
    <2> QED
      BY <1>1, <1>2, <2>1 DEF HistoryType
  <1>3. CASE ~ \E m \in DOMAIN notices : m > n /\ notices[m].conn = notices[n].conn
    BY <1>3 DEF NoticeAgain
  <1> QED
    BY <1>2, <1>3

\* The history of a step of a webhook, or of a link.
LEMMA NoticeNotes ==
    ASSUME Types, NEW n, NoticeStep(n) \/ NoticeAgain(n)
    PROVE  /\ history'.raced = history.raced /\ history'.unrecorded = history.unrecorded
           /\ history.late => history'.late
           /\ history.overlapped \subseteq history'.overlapped
           /\ history.revived \subseteq history'.revived
  <1>1. CASE NoticeRead(n) \/ StartFetch(n)
    <2>1. NoteLate
      BY <1>1 DEF NoticeRead, StartFetch
    <2> QED
      BY <2>1, LateNotes
  <1>2. CASE NoticeStore(n)
    <2>1. NoteRevived(notices[n].conn)
      BY <1>2 DEF NoticeStore
    <2> QED
      BY <2>1, RevivedNotes
  <1>3. CASE NoticeAgain(n)
    BY <1>3, AgainNotes
  <1>4. CASE \/ SessionTranslate(n) \/ OpenBankingConnectionAttemptsUpdateStatus(n) \/ FetchDone(n)
             \/ \E k \in Kinds : SyncRead(n, k) \/ SyncStore(n, k) \/ FetchNext(n, k) \/ FetchStore(n, k)
    BY <1>4 DEF SessionTranslate, OpenBankingConnectionAttemptsUpdateStatus, FetchDone, SyncRead,
       SyncStore, FetchNext, FetchStore
  <1> QED
    BY <1>1, <1>2, <1>3, <1>4 DEF NoticeStep

LEMMA LinkNotes ==
    ASSUME Types, NEW a \in Attempts, LinkStep(a)
    PROVE  /\ history'.raced = history.raced /\ history'.late = history.late
           /\ history'.overlapped = history.overlapped /\ history.revived \subseteq history'.revived
           /\ history'.unrecorded = history.unrecorded
  <1>1. CASE CreatePaymentServiceUserLink(a) \/ UpdatePaymentServiceUserLink(a)
    BY <1>1, StartedLink DEF StartLink
  <1>2. CASE CompleteConnection(a)
    BY <1>2, RevivedNotes DEF CompleteConnection
  <1>3. CASE LinkCreated(a) \/ PaymentServiceUsersCompleteLinkFlow(a) \/ CompleteCall(a) \/ CompleteStore(a)
    BY <1>3 DEF LinkCreated, PaymentServiceUsersCompleteLinkFlow, CompleteCall, CompleteStore
  <1> QED
    BY <1>1, <1>2, <1>3 DEF LinkStep, CompleteStep

LEMMA SendNotes ==
    ASSUME Types, Shapes, SendStep
    PROVE  /\ history'.raced = history.raced /\ history'.late = history.late
           /\ history'.revived = history.revived /\ history.overlapped \subseteq history'.overlapped
           /\ history'.unrecorded = history.unrecorded
  <1>1. CASE Trimmed
    BY <1>1 DEF Trimmed
  <1>2. CASE ~Trimmed
    <2>1. PICK notice : Announced(notice)
      BY <1>2, SendAnnounces
    <2> QED
      BY <2>1, Sent DEF Announced, Types
  <1> QED
    BY <1>1, <1>2

SameForwards == history'.raced = history.raced /\ history'.unrecorded = history.unrecorded

\* Links, webhooks and the provider's sessions leave forwards alone.
LEMMA ForwardFrame ==
    ASSUME Types, Shapes,
           \/ \E a \in Attempts : LinkStep(a) \/ (SessionExited(a) /\ plugin # "plaid")
           \/ SendStep
           \/ \E n : NoticeStep(n) \/ NoticeAgain(n)
    PROVE  UNCHANGED <<psu, fwd, users, forward, del, task>> /\ SameForwards
  <1>1. ASSUME NEW a \in Attempts, LinkStep(a)
        PROVE  UNCHANGED <<psu, fwd, users, forward, del, task>> /\ SameForwards
    <2>1. CASE CreatePaymentServiceUserLink(a) \/ UpdatePaymentServiceUserLink(a)
      BY <2>1, StartedLink DEF StartLink, provider, SameForwards
    <2>2. CASE ~(CreatePaymentServiceUserLink(a) \/ UpdatePaymentServiceUserLink(a))
      BY <1>1, <2>2, LinkNotes DEF LinkStep, CompleteStep, LinkCreated, PaymentServiceUsersCompleteLinkFlow,
         CompleteCall, CompleteStore, CompleteConnection, rows, provider, SameForwards
    <2> QED
      BY <2>1, <2>2
  <1>2. ASSUME NEW a \in Attempts, SessionExited(a), plugin # "plaid"
        PROVE  UNCHANGED <<psu, fwd, users, forward, del, task>> /\ SameForwards
    BY <1>2 DEF SessionExited, rows, provider, SameForwards
  <1>3. ASSUME SendStep
        PROVE  UNCHANGED <<psu, fwd, users, forward, del, task>> /\ SameForwards
    <2>1. UNCHANGED <<psu, fwd, users, forward, del, task>>
      BY <1>3 DEF SendStep, SessionLinked, SessionExited, ItemDown, ItemSynced, ItemUpdated, rows, provider
    <2> QED
      BY <1>3, <2>1, SendNotes DEF SameForwards
  <1>4. ASSUME NEW n, NoticeStep(n) \/ NoticeAgain(n)
        PROVE  UNCHANGED <<psu, fwd, users, forward, del, task>> /\ SameForwards
    BY <1>4, NoticeFrame, NoticeNotes DEF provider, SameForwards
  <1> QED
    BY <1>1, <1>2, <1>3, <1>4

\* A forward that is done stays so; the provider's users are deleted by name.
LEMMA DoneStays ==
    ASSUME Types, [Next]_vars
    PROVE  \A n \in Calls : forward[n] = "done" => forward'[n] = "done"
  <1>1. ASSUME NEW n \in Calls, Forward(n) \/ ForwardStep(n) \/ ForwardLost(n)
        PROVE  \A m \in Calls : forward[m] = "done" => forward'[m] = "done"
    BY <1>1 DEF Forward, ForwardStep, ForwardLost, CreateUser, OpenBankingForwardedUserUpsert, Types, CallTypes
  <1>2. ASSUME NEW a \in Attempts, LinkStep(a) PROVE UNCHANGED forward
    <2>1. CASE CreatePaymentServiceUserLink(a) \/ UpdatePaymentServiceUserLink(a)
      BY <2>1, StartedLink DEF StartLink
    <2>2. CASE ~(CreatePaymentServiceUserLink(a) \/ UpdatePaymentServiceUserLink(a))
      BY <1>2, <2>2 DEF LinkStep, CompleteStep, LinkCreated, PaymentServiceUsersCompleteLinkFlow,
         CompleteCall, CompleteStore, CompleteConnection
    <2> QED
      BY <2>1, <2>2
  <1>3. ASSUME NEW a \in Attempts, SessionExited(a) \/ SessionLinked(a) PROVE UNCHANGED forward
    BY <1>3 DEF SessionExited, SessionLinked
  <1>4. ASSUME NEW c \in Connections, ItemDown(c) \/ ItemSynced(c) \/ ItemUpdated(c) PROVE UNCHANGED forward
    BY <1>4 DEF ItemDown, ItemSynced, ItemUpdated
  <1>5. CASE Next
    BY <1>1, <1>2, <1>3, <1>4, <1>5, NoticeFrame, RequestTo, DeleteTo, Steps DEF SendStep
  <1>6. CASE UNCHANGED vars
    BY <1>6 DEF vars
  <1> QED
    BY <1>5, <1>6

LEMMA NamedAreDone ==
    ASSUME Types, Shapes, ForwardedDone, [Next]_vars
    PROVE  ForwardedDone'
  <1> USE OpenBankingAssumption
  <1>1. /\ fwd \in 0 .. MaxForwards /\ \A a \in Attempts : link[a].user \in 0 .. MaxForwards
        /\ \A c \in Connections : items[c].owner \in 0 .. MaxForwards
    BY DEF Types, RowTypes, CallTypes, ProviderTypes, LinkType, ItemType, UserOrNone
  <1>2. ASSUME NEW u \in 0 .. MaxForwards, u # 0 => forward[u] = "done" PROVE u # 0 => forward'[u] = "done"
    BY <1>2, DoneStays DEF Calls
  <1>3. (fwd # 0 => forward'[fwd] = "done")
    BY <1>1, <1>2 DEF ForwardedDone
  <1>4. \A a \in Attempts : link[a].user # 0 => forward'[link[a].user] = "done"
    BY <1>1, <1>2 DEF ForwardedDone
  <1>5. \A c \in Connections : items[c].owner # 0 => forward'[items[c].owner] = "done"
    BY <1>1, <1>2 DEF ForwardedDone
  <1>6. ASSUME UNCHANGED <<fwd, link, items>> PROVE ForwardedDone'
    BY <1>3, <1>4, <1>5, <1>6 DEF ForwardedDone
  <1>7. ASSUME NEW n \in Calls, Forward(n) \/ ForwardStep(n) \/ ForwardLost(n) PROVE ForwardedDone'
    <2>1. CASE OpenBankingForwardedUserUpsert(n)
      <3>1. forward'[n] = "done" /\ fwd' \in {n, fwd} /\ UNCHANGED <<link, items>>
        BY <2>1 DEF OpenBankingForwardedUserUpsert, provider, Types, CallTypes
      <3> QED
        BY <1>3, <1>4, <1>5, <3>1 DEF ForwardedDone
    <2>2. CASE ~OpenBankingForwardedUserUpsert(n)
      BY <1>6, <1>7, <2>2 DEF Forward, ForwardStep, ForwardLost, CreateUser, rows, provider
    <2> QED
      BY <2>1, <2>2
  <1>8. ASSUME NEW a \in Attempts, LinkStep(a) PROVE ForwardedDone'
    <2>1. CASE CreatePaymentServiceUserLink(a) \/ UpdatePaymentServiceUserLink(a)
      <3>1. PICK c \in Connections : StartLink(a, c)
        BY <2>1, StartedLink
      <3>2. link'[a].user = fwd /\ \A b \in Attempts : b # a => link'[b] = link[b]
        BY <3>1 DEF StartLink, Types, CallTypes
      <3>3. UNCHANGED <<fwd, items>>
        BY <3>1 DEF StartLink, provider
      <3> QED
        BY <1>3, <1>4, <1>5, <3>2, <3>3 DEF ForwardedDone
    <2>2. CASE LinkCreated(a)
      <3>1. link' = [link EXCEPT ![a].pc = "given"] \/ link' = [link EXCEPT ![a].pc = "error"]
        BY <2>2 DEF LinkCreated
      <3>2. \A b \in Attempts : link'[b].user = link[b].user
        BY <3>1 DEF Types, CallTypes, LinkType
      <3>3. UNCHANGED <<fwd, items>>
        BY <2>2 DEF LinkCreated, provider
      <3> QED
        BY <1>3, <1>4, <1>5, <3>2, <3>3 DEF ForwardedDone
    <2>3. CASE PaymentServiceUsersCompleteLinkFlow(a) \/ CompleteStep(a)
      BY <1>6, <2>3 DEF CompleteStep, PaymentServiceUsersCompleteLinkFlow, CompleteCall, CompleteStore,
         CompleteConnection, rows, provider
    <2> QED
      BY <1>8, <2>1, <2>2, <2>3 DEF LinkStep
  <1>9. ASSUME NEW a \in Attempts, SessionExited(a) PROVE ForwardedDone'
    <2>1. \A b \in Attempts : link'[b].user = link[b].user
      BY <1>9 DEF SessionExited, Types, CallTypes, LinkType
    <2>2. UNCHANGED <<fwd, items>>
      BY <1>9 DEF SessionExited, rows, provider
    <2> QED
      BY <1>3, <1>4, <1>5, <2>1, <2>2 DEF ForwardedDone
  <1>10. ASSUME NEW a \in Attempts, SessionLinked(a) PROVE ForwardedDone'
    <2>1. \A b \in Attempts : link'[b].user = link[b].user
      BY <1>10 DEF SessionLinked, Types, CallTypes, LinkType
    <2>2. items' = [items EXCEPT ![link[a].conn] = [state |-> "up", owner |-> link[a].user]]
      BY <1>10 DEF SessionLinked
    <2>3. \A c \in Connections : items'[c].owner \in {items[c].owner, link[a].user}
      BY <2>2 DEF Types, ProviderTypes
    <2>4. UNCHANGED fwd
      BY <1>10 DEF SessionLinked, rows
    <2> QED
      BY <1>3, <1>4, <1>5, <2>1, <2>3, <2>4 DEF ForwardedDone
  <1>11. ASSUME NEW c \in Connections, ItemDown(c) \/ ItemSynced(c) \/ ItemUpdated(c) PROVE ForwardedDone'
    <2>1. UNCHANGED <<fwd, link>>
      BY <1>11 DEF ItemDown, ItemSynced, ItemUpdated, rows
    <2>2. \A d \in Connections : items'[d].owner = items[d].owner
      BY <1>11 DEF ItemDown, ItemSynced, ItemUpdated, provider, Types, ProviderTypes, ItemType
    <2> QED
      BY <1>3, <1>4, <1>5, <2>1, <2>2 DEF ForwardedDone
  <1>12. ASSUME NEW k \in Deletions, DeleteStep(k) PROVE ForwardedDone'
    <2>1. fwd' \in {0, fwd} /\ link' = link
      <3>1. CASE DeleteRow(k)
        BY <3>1, DeleteRowTo DEF Deletions, rows, PaymentServiceUsersDelete,
           OpenBankingForwardedUserDelete, OpenBankingConnectionsDelete
      <3>2. CASE ~DeleteRow(k)
        BY <1>12, <3>2 DEF DeleteStep, DeleteRead, DeleteCall, DeleteOpenBankingConnectionData, DeleteEnd, rows
      <3> QED
        BY <3>1, <3>2
    <2>2. \A c \in Connections : items'[c].owner = items[c].owner
      <3>1. CASE DeleteCall(k)
        <4>1. items' = items \/ DeletedAtProvider(k)
          BY <3>1 DEF DeleteCall, provider
        <4>2. CASE DeletedAtProvider(k)
          BY <4>2 DEF DeletedAtProvider, Gone, Types, ProviderTypes, ItemType
        <4> QED
          BY <4>1, <4>2
      <3>2. CASE ~DeleteCall(k)
        BY <1>12, <3>2 DEF DeleteStep, DeleteRead, DeleteRow, DeleteOpenBankingConnectionData, DeleteEnd, provider
      <3> QED
        BY <3>1, <3>2
    <2> QED
      BY <1>3, <1>4, <1>5, <2>1, <2>2 DEF ForwardedDone
  <1>13. CASE Next
    BY <1>6, <1>7, <1>8, <1>9, <1>10, <1>11, <1>12, <1>13, NoticeFrame, RequestTo, Steps
       DEF SendStep, rows, provider
  <1>14. CASE UNCHANGED vars
    BY <1>6, <1>14 DEF vars, rows, provider
  <1> QED
    BY <1>13, <1>14

LEMMA OwnersStay ==
    ASSUME Types, Shapes, OwnersExist, [Next]_vars
    PROVE  OwnersExist'
  <1> USE OpenBankingAssumption
  <1>1. ASSUME users \subseteq users', UNCHANGED items PROVE OwnersExist'
    BY <1>1 DEF OwnersExist
  <1>2. ASSUME NEW n \in Calls, Forward(n) \/ ForwardStep(n) \/ ForwardLost(n) PROVE OwnersExist'
    BY <1>1, <1>2 DEF Forward, ForwardStep, ForwardLost, CreateUser, OpenBankingForwardedUserUpsert, provider
  <1>3. ASSUME NEW a \in Attempts, LinkStep(a) PROVE OwnersExist'
    <2>1. CASE CreatePaymentServiceUserLink(a) \/ UpdatePaymentServiceUserLink(a)
      BY <1>1, <2>1, StartedLink DEF StartLink, provider
    <2>2. CASE ~(CreatePaymentServiceUserLink(a) \/ UpdatePaymentServiceUserLink(a))
      BY <1>1, <1>3, <2>2 DEF LinkStep, CompleteStep, LinkCreated, PaymentServiceUsersCompleteLinkFlow,
         CompleteCall, CompleteStore, CompleteConnection, provider
    <2> QED
      BY <2>1, <2>2
  <1>4. ASSUME NEW a \in Attempts, SessionExited(a) PROVE OwnersExist'
    BY <1>1, <1>4 DEF SessionExited, provider
  <1>5. ASSUME NEW a \in Attempts, SessionLinked(a) PROVE OwnersExist'
    <2>1. items' = [items EXCEPT ![link[a].conn] = [state |-> "up", owner |-> link[a].user]]
      BY <1>5 DEF SessionLinked
    <2>2. link[a].user \in users /\ users' = users
      BY <1>5 DEF SessionLinked
    <2>3. \A c \in Connections : items'[c] = items[c] \/ items'[c].owner = link[a].user
      BY <2>1 DEF Types, ProviderTypes
    <2> QED
      BY <2>2, <2>3 DEF OwnersExist
  <1>6. ASSUME NEW c \in Connections, ItemDown(c) \/ ItemSynced(c) \/ ItemUpdated(c) PROVE OwnersExist'
    <2>1. /\ \A d \in Connections : items'[d].owner = items[d].owner
          /\ \A d \in Connections : items'[d] = items[d] \/ items[d].state \in {"up", "down"}
      BY <1>6 DEF ItemDown, ItemSynced, ItemUpdated, provider, Types, ProviderTypes, ItemType
    <2>2. users' = users
      BY <1>6 DEF ItemDown, ItemSynced, ItemUpdated, provider
    <2> QED
      BY <2>1, <2>2 DEF OwnersExist
  <1>7. ASSUME NEW k \in Deletions, DeleteCall(k) PROVE OwnersExist'
    <2>1. CASE k = "connection"
      <3>1. items' = items \/ items' = Gone(del[k].conn)
        BY <1>7, <2>1, DeleteCallTo DEF DeletedAtProvider, provider
      <3>2. \A c \in Connections : items'[c] = items[c] \/ items'[c].state = "gone"
        BY <3>1 DEF Gone, Types, ProviderTypes, ItemType
      <3>3. users' = users
        BY <1>7, <2>1, DeleteCallTo DEF DeletedAtProvider, provider
      <3> QED
        BY <3>2, <3>3 DEF OwnersExist
    <2>2. CASE k # "connection" /\ ~UNCHANGED provider
      <3>1. /\ users' = users \ {del[k].user}
            /\ items' = [c \in Connections |->
                           IF items[c].owner = del[k].user /\ del[k].user # 0
                           THEN [items[c] EXCEPT !.state = "gone"] ELSE items[c]]
        BY <1>7, <2>2, DeleteCallTo DEF DeletedAtProvider
      <3>2. 0 \notin users
        BY DEF Types, ProviderTypes, Calls
      <3>3. ASSUME NEW c \in Connections, items'[c].state \in {"up", "down"} PROVE items'[c].owner \in users'
        <4>1. CASE items[c].owner = del[k].user /\ del[k].user # 0
          BY <3>1, <3>3, <4>1 DEF Types, ProviderTypes, ItemType
        <4>2. CASE ~(items[c].owner = del[k].user /\ del[k].user # 0)
          BY <3>1, <3>2, <3>3, <4>2 DEF OwnersExist
        <4> QED
          BY <4>1, <4>2
      <3> QED
        BY <3>3 DEF OwnersExist
    <2>3. CASE UNCHANGED provider
      BY <1>1, <2>3 DEF provider
    <2> QED
      BY <2>1, <2>2, <2>3
  <1>8. ASSUME NEW k \in Deletions, DeleteStep(k), ~DeleteCall(k) PROVE OwnersExist'
    BY <1>1, <1>8 DEF DeleteStep, DeleteRead, DeleteRow, DeleteOpenBankingConnectionData, DeleteEnd, provider
  <1>9. CASE Next
    BY <1>1, <1>2, <1>3, <1>4, <1>5, <1>6, <1>7, <1>8, <1>9, NoticeFrame, RequestTo, Steps
       DEF SendStep, provider
  <1>10. CASE UNCHANGED vars
    BY <1>1, <1>10 DEF vars, provider
  <1> QED
    BY <1>9, <1>10

\* Users that a failed removal deleted are noted by the step that deletes them.
LEMMA UnrecordedKept ==
    ASSUME Types, Shapes, [Next]_vars
    PROVE  \/ history'.unrecorded = history.unrecorded
           \/ \E k \in Removals :
                /\ users' = users \ {del[k].user}
                /\ history'.unrecorded = history.unrecorded \cup {del[k].user}
  <1> DEFINE Q == \/ history'.unrecorded = history.unrecorded
                  \/ \E k \in Removals :
                       /\ users' = users \ {del[k].user}
                       /\ history'.unrecorded = history.unrecorded \cup {del[k].user}
  <1>1. ASSUME NEW n \in Calls, Forward(n) \/ ForwardStep(n) \/ ForwardLost(n) PROVE Q
    <2>1. CASE ForwardStep(n)
      BY <2>1 DEF ForwardStep, CreateUser, OpenBankingForwardedUserUpsert
    <2> QED
      BY <1>1, <2>1, ForwardNotes, LostNotes
  <1>2. ASSUME NEW a \in Attempts, SessionExited(a), plugin # "plaid" PROVE Q
    BY <1>2 DEF SessionExited
  <1>3. ASSUME NEW k \in Deletions, DeleteStep(k) PROVE Q
    <2>1. CASE DeleteCall(k) /\ k # "connection"
      BY <2>1, DeleteCallTo DEF DeletedAtProvider, Removals, Deletions
    <2>2. CASE DeleteCall(k) /\ k = "connection"
      BY <2>2, DeleteCallTo
    <2> QED
      BY <1>3, <2>1, <2>2, DeleteTo
  <1>4. CASE Next
    BY <1>1, <1>2, <1>3, <1>4, LinkNotes, SendNotes, NoticeNotes, RequestNotes, Steps
  <1>5. CASE UNCHANGED vars
    BY <1>5 DEF vars
  <1> QED
    BY <1>4, <1>5

LEMMA DeletedAreDone ==
    ASSUME Types, Shapes, ForwardedDone, DeletedDone, [Next]_vars
    PROVE  DeletedDone'
  <1> USE OpenBankingAssumption
  <1>1. /\ fwd \in 0 .. MaxForwards /\ \A k \in Deletions : del[k].user \in 0 .. MaxForwards
        /\ \A u \in history.unrecorded : u \in 0 .. MaxForwards
    BY DEF Types, RowTypes, WorkflowTypes, DeletionType, HistoryType, UserOrNone
  <1>2. ASSUME NEW u \in 0 .. MaxForwards, u # 0 => forward[u] = "done" PROVE u # 0 => forward'[u] = "done"
    BY <1>2, DoneStays DEF Calls
  <1>3. /\ fwd # 0 => forward'[fwd] = "done"
        /\ \A k \in Deletions : del[k].user # 0 => forward'[del[k].user] = "done"
        /\ \A u \in history.unrecorded : u # 0 => forward'[u] = "done"
    BY <1>1, <1>2 DEF ForwardedDone, DeletedDone
  <1>4. \A j \in Deletions : del'[j].user \in {0, fwd, del[j].user}
    <2>1. ASSUME NEW k, NEW c, RequestStep(k, c) PROVE \A j \in Deletions : del'[j].user \in {0, del[j].user}
      BY <2>1, RequestTo DEF Starts, LeftAlone
    <2>2. ASSUME NEW k \in Deletions, DeleteStep(k)
          PROVE  \A j \in Deletions : del'[j].user \in {fwd, del[j].user}
      BY <2>2, DeleteTo
    <2> QED
      BY <2>1, <2>2, DeletionFrame
  <1>5. \A u \in history'.unrecorded : u \in history.unrecorded \/ \E k \in Deletions : u = del[k].user
    BY UnrecordedKept DEF Removals, Deletions
  <1> QED
    BY <1>3, <1>4, <1>5 DEF DeletedDone

\* Only a call that is not done creates a user.
LEMMA DeletedStay ==
    ASSUME Types, Shapes, DeletedDone, StaysDeleted, [Next]_vars
    PROVE  StaysDeleted'
  <1> DEFINE Q == users' \subseteq users
  <1>0. users \subseteq Calls /\ 0 \notin Calls
    BY DEF Types, ProviderTypes, Calls
  <1>1. ASSUME NEW n \in Calls, CreateUser(n) PROVE StaysDeleted'
    <2>1. n \notin history.unrecorded /\ users' \subseteq users \cup {n} /\ history' = history
      BY <1>0, <1>1 DEF CreateUser, DeletedDone
    <2> QED
      BY <2>1 DEF StaysDeleted
  <1>2. ASSUME NEW n \in Calls, Forward(n) \/ OpenBankingForwardedUserUpsert(n) \/ ForwardLost(n) PROVE Q
    BY <1>2 DEF Forward, OpenBankingForwardedUserUpsert, ForwardLost, provider
  <1>3. ASSUME NEW k \in Deletions, DeleteStep(k) PROVE Q
    <2>1. CASE DeleteCall(k)
      BY <2>1, DeleteCallTo DEF DeletedAtProvider, provider
    <2>2. CASE ~DeleteCall(k)
      BY <1>3, <2>2 DEF DeleteStep, DeleteRead, DeleteRow, DeleteOpenBankingConnectionData, DeleteEnd, provider
    <2> QED
      BY <2>1, <2>2
  <1>4. ASSUME Q PROVE StaysDeleted'
    BY <1>4, UnrecordedKept DEF StaysDeleted
  <1>5. CASE Next
    BY <1>1, <1>2, <1>3, <1>4, <1>5, ForwardFrame, RequestTo, Steps DEF ForwardStep, provider
  <1>6. CASE UNCHANGED vars
    BY <1>4, <1>6 DEF vars, provider
  <1> QED
    BY <1>5, <1>6

Turns == ~history.raced => TakeTurns /\ AtMostForwarded

LEMMA TurnsOfForward ==
    ASSUME Types, Turns, NEW n \in Calls, Forward(n) \/ ForwardStep(n) \/ ForwardLost(n)
    PROVE  Turns'
  <1> USE OpenBankingAssumption
  <1>0. users \subseteq Calls /\ 0 \notin Calls /\ DOMAIN forward = Calls
    BY DEF Types, ProviderTypes, CallTypes, Calls
  <1>1. ASSUME Forward(n), ~history'.raced PROVE TakeTurns' /\ AtMostForwarded'
    <2>1. ~history.raced /\ ~Forwarding /\ ~Removing
      BY <1>1, ForwardNotes
    <2>2. TakeTurns /\ AtMostForwarded /\ fwd = 0 /\ psu
      BY <1>1, <2>1 DEF Turns, Forward
    <2>3. users = {}
      BY <1>0, <2>1, <2>2 DEF AtMostForwarded
    <2>4. forward' = [forward EXCEPT ![n] = "checked"] /\ UNCHANGED <<psu, fwd, users, del>>
      BY <1>1 DEF Forward, rows, provider
    <2>5. \A m \in Calls : Forwards(m)' <=> m = n
      BY <1>0, <2>1, <2>4 DEF Forwards, Forwarding
    <2>6. Forwarding' /\ ~Removing'
      BY <2>1, <2>4, <2>5 DEF Forwards, Forwarding, Removing
    <2>7. \A m \in Calls : forward'[m] # "created"
      BY <1>0, <2>1, <2>4 DEF Forwarding
    <2>8. TakeTurns'
      BY <2>2, <2>3, <2>4, <2>5, <2>6, <2>7 DEF TakeTurns
    <2>9. AtMostForwarded'
      BY <2>2, <2>3, <2>4, <2>6 DEF AtMostForwarded
    <2> QED
      BY <2>8, <2>9
  <1>2. ASSUME CreateUser(n), ~history'.raced PROVE TakeTurns' /\ AtMostForwarded'
    <2>1. TakeTurns /\ AtMostForwarded /\ forward[n] = "checked" /\ UNCHANGED <<psu, fwd, del>>
      BY <1>2 DEF CreateUser, rows, Turns
    <2>2. Forwarding /\ users = {} /\ \A m \in Calls : Forwards(m) => m = n
      BY <2>1 DEF TakeTurns, Forwards, Forwarding
    <2>3. ~Removing /\ psu /\ fwd = 0
      BY <2>1, <2>2 DEF TakeTurns
    <2>4. ~Removing' /\ psu' /\ fwd' = 0
      BY <2>1, <2>3 DEF Removing
    <2>5. \A k \in Removals : del'[k].pc \in Idle
      BY <2>4 DEF Removing, Removals
    <2>6. CASE users' = users \cup {n} /\ forward' = [forward EXCEPT ![n] = "created"]
      <3>1. /\ users' = {n} /\ forward'[n] = "created"
            /\ \A m \in Calls : m # n => forward'[m] \notin {"checked", "created"}
        BY <1>0, <2>2, <2>6 DEF Forwards
      <3>2. Forwarding'
        BY <3>1 DEF Forwarding
      <3>3. TakeTurns'
        BY <2>4, <3>1 DEF TakeTurns, Forwards
      <3>4. AtMostForwarded'
        BY <2>5, <3>2 DEF AtMostForwarded, Idle
      <3> QED
        BY <3>3, <3>4
    <2>7. CASE forward' = [forward EXCEPT ![n] = "done"] /\ UNCHANGED users
      <3>1. \A m \in Calls : forward'[m] \notin {"checked", "created"}
        BY <1>0, <2>2, <2>7 DEF Forwards
      <3>2. TakeTurns'
        BY <3>1 DEF TakeTurns, Forwards, Forwarding
      <3>3. AtMostForwarded'
        BY <2>2, <2>4, <2>5, <2>7 DEF AtMostForwarded, Idle
      <3> QED
        BY <3>2, <3>3
    <2> QED
      BY <1>2, <2>6, <2>7 DEF CreateUser
  <1>3. ASSUME OpenBankingForwardedUserUpsert(n), ~history'.raced PROVE TakeTurns' /\ AtMostForwarded'
    <2>1. /\ TakeTurns /\ AtMostForwarded /\ forward[n] = "created"
          /\ UNCHANGED <<psu, users, del>>
      BY <1>3 DEF OpenBankingForwardedUserUpsert, provider, Turns
    <2>2. Forwarding /\ users = {n} /\ \A m \in Calls : Forwards(m) => m = n
      BY <2>1 DEF TakeTurns, Forwards, Forwarding
    <2>3. psu /\ \A k \in Removals : del[k].pc \in Idle
      BY <2>1, <2>2 DEF TakeTurns, Removing, Removals
    <2>4. fwd' = n /\ forward' = [forward EXCEPT ![n] = "done"]
      BY <1>3, <2>3 DEF OpenBankingForwardedUserUpsert
    <2>5. \A m \in Calls : forward'[m] \notin {"checked", "created"}
      BY <1>0, <2>2, <2>4 DEF Forwards
    <2>6. TakeTurns'
      BY <2>5 DEF TakeTurns, Forwards, Forwarding
    <2>7. AtMostForwarded'
      BY <2>1, <2>2, <2>3, <2>4 DEF AtMostForwarded, Idle
    <2> QED
      BY <2>6, <2>7
  <1>4. ASSUME ForwardLost(n) PROVE history'.raced
    BY <1>4, LostNotes
  <1> QED
    BY <1>1, <1>2, <1>3, <1>4 DEF ForwardStep, Turns

LEMMA TurnsOfRequest ==
    ASSUME Types, Turns, NEW k, NEW c, RequestStep(k, c)
    PROVE  Turns'
  <1> SUFFICES ASSUME ~history'.raced PROVE TakeTurns' /\ AtMostForwarded'
    BY DEF Turns
  <1>1. ~history.raced /\ TakeTurns /\ AtMostForwarded
    BY RequestNotes DEF Turns
  <1>2. UNCHANGED <<psu, fwd, users, forward>>
    BY RequestTo DEF rows, provider
  <1>3. \A j \in Removals :
          \/ del'[j].pc = del[j].pc /\ del'[j].user = del[j].user
          \/ del[j].pc \in {"none", "failed"} /\ del'[j].pc = "read" /\ ~Forwarding
    <2> SUFFICES ASSUME NEW j \in Removals, j = k
                 PROVE  \/ del'[j].pc = del[j].pc /\ del'[j].user = del[j].user
                        \/ del[j].pc \in {"none", "failed"} /\ del'[j].pc = "read" /\ ~Forwarding
      BY RequestTo DEF Removals, Deletions
    <2>1. CASE Starts(k, c)
      BY <2>1, RequestNotes DEF Removals, Starts
    <2>2. CASE LeftAlone(k)
      BY <2>2 DEF LeftAlone
    <2> QED
      BY <2>1, <2>2, RequestTo
  <1>8. history'.unrecorded = history.unrecorded
    BY RequestNotes
  <1>4. Forwarding' <=> Forwarding
    BY <1>2 DEF Forwarding
  <1>5. Forwarding' => ~Removing'
    BY <1>1, <1>3, <1>4 DEF TakeTurns, Removing, Removals
  <1>6. TakeTurns'
    BY <1>1, <1>2, <1>4, <1>5 DEF TakeTurns, Forwards
  <1>7. AtMostForwarded'
    BY <1>1, <1>2, <1>3, <1>4, <1>8 DEF AtMostForwarded
  <1> QED
    BY <1>6, <1>7

LEMMA TurnsOfDelete ==
    ASSUME Types, UserGone, Turns, NEW k \in Deletions, DeleteStep(k)
    PROVE  Turns'
  <1> SUFFICES ASSUME ~history'.raced PROVE TakeTurns' /\ AtMostForwarded'
    BY DEF Turns
  <1>0. /\ del[k].pc \notin Idle /\ \A j \in Deletions : j # k => del'[j] = del[j]
        /\ UNCHANGED forward /\ history'.raced = history.raced
        /\ ~DeleteCall(k) => history' = history
    BY DeleteTo
  <1>1. TakeTurns /\ AtMostForwarded /\ (Forwarding' <=> Forwarding)
    BY <1>0 DEF Turns, Forwarding
  <1>2. CASE k = "connection"
    <2>1. UNCHANGED <<psu, fwd, users>>
      <3>1. CASE DeleteRow(k)
        BY <1>2, <3>1, DeleteRowTo DEF OpenBankingConnectionsDelete, provider
      <3>2. CASE DeleteCall(k)
        BY <1>2, <3>2 DEF DeleteCall, DeletedAtProvider, rows, provider
      <3>3. CASE DeleteRead(k) \/ DeleteOpenBankingConnectionData(k) \/ DeleteEnd(k)
        BY <3>3 DEF DeleteRead, DeleteOpenBankingConnectionData, DeleteEnd, rows, provider
      <3> QED
        BY <3>1, <3>2, <3>3 DEF DeleteStep
    <2>2. \A j \in Removals : del'[j] = del[j]
      BY <1>0, <1>2 DEF Removals, Deletions
    <2>3. Removing' <=> Removing
      BY <2>2 DEF Removing, Removals
    <2>4. history'.unrecorded = history.unrecorded
      BY <1>0, <1>2, DeleteCallTo
    <2> QED
      BY <1>0, <1>1, <2>1, <2>2, <2>3, <2>4 DEF TakeTurns, AtMostForwarded, Forwards
  <1>3. CASE k # "connection"
    <2>1. k \in Removals /\ Removing /\ ~Forwarding
      BY <1>0, <1>1, <1>3 DEF Removals, Deletions, Removing, TakeTurns
    <2>2. TakeTurns'
      BY <1>0, <1>1, <2>1 DEF TakeTurns, Forwards, Forwarding
    <2>3. users \subseteq {fwd}
      BY <1>1, <2>1 DEF AtMostForwarded
    <2>4. \A j \in Removals : j # k => del'[j] = del[j]
      BY <1>0 DEF Removals, Deletions
    <2>5. CASE DeleteRead(k)
      <3>1. /\ del[k].pc = "read" /\ UNCHANGED <<fwd, users>>
            /\ (del'[k].pc = "plugin" /\ del'[k].user = fwd) \/ del'[k].pc = "failing"
            /\ history' = history
        BY <2>5, DeleteReadTo DEF DeleteRead, rows, provider
      <3>2. AtMostForwarded'
        BY <1>1, <2>1, <2>3, <2>4, <3>1 DEF AtMostForwarded
      <3> QED
        BY <2>2, <3>2
    <2>6. CASE DeleteCall(k)
      <3>1. del[k].pc = "plugin" /\ fwd' = fwd
        BY <2>6 DEF DeleteCall, rows
      <3>2. users \subseteq {del[k].user}
        BY <1>1, <2>1, <3>1 DEF AtMostForwarded
      <3>3. DeletedAtProvider(k) => users' = {}
        BY <1>3, <3>2 DEF DeletedAtProvider
      <3>4. CASE DeletedAtProvider(k) /\ Move(k, "payments") /\ history'.unrecorded = history.unrecorded
        <4>1. del'[k].pc = "payments"
          BY <3>4, Moved
        <4>2. AtMostForwarded'
          BY <1>1, <2>1, <2>3, <2>4, <3>1, <3>3, <3>4, <4>1 DEF AtMostForwarded
        <4> QED
          BY <2>2, <4>2
      <3>5. CASE /\ DeletedAtProvider(k) /\ Move(k, "failing")
                 /\ history'.unrecorded = history.unrecorded \cup {del[k].user}
        <4>1. del'[k].pc = "failing"
          BY <3>5, Moved
        <4>2. fwd # 0 /\ users # {} => fwd \in history'.unrecorded
          BY <2>3, <3>2, <3>5
        <4>3. AtMostForwarded'
          BY <1>1, <2>1, <2>3, <2>4, <3>1, <3>3, <3>5, <4>1, <4>2 DEF AtMostForwarded
        <4> QED
          BY <2>2, <4>3
      <3>6. CASE UNCHANGED provider /\ Move(k, "failing") /\ history'.unrecorded = history.unrecorded
        <4>1. del'[k].pc = "failing" /\ users' = users
          BY <3>6, Moved DEF provider
        <4>2. AtMostForwarded'
          BY <1>1, <2>1, <2>3, <2>4, <3>1, <3>6, <4>1 DEF AtMostForwarded
        <4> QED
          BY <2>2, <4>2
      <3> QED
        BY <1>3, <2>6, <3>4, <3>5, <3>6, DeleteCallTo
    <2>7. CASE DeleteOpenBankingConnectionData(k)
      <3>1. /\ UNCHANGED <<fwd, users>>
            /\ \/ del[k].pc = "payments" /\ del'[k].pc = "accounts"
               \/ del[k].pc = "accounts" /\ del'[k].pc = "row"
            /\ history' = history
        BY <2>7, Moved DEF DeleteOpenBankingConnectionData, provider
      <3>2. AtMostForwarded'
        BY <1>1, <2>1, <2>3, <2>4, <3>1 DEF AtMostForwarded
      <3> QED
        BY <2>2, <3>2
    <2>8. CASE DeleteRow(k)
      <3>1. /\ del[k].pc = "row" /\ users' = users /\ del'[k].pc \in {"row", "failing", "succeeding"}
            /\ history' = history
        BY <2>8, DeleteRowTo, Moved DEF provider
      <3>2. users = {}
        BY <1>1, <2>1, <3>1 DEF AtMostForwarded
      <3>3. fwd' = 0
        BY <2>1, <2>8, DeleteRowTo
           DEF Removals, UserGone, rows, PaymentServiceUsersDelete, OpenBankingForwardedUserDelete
      <3>4. AtMostForwarded'
        BY <1>1, <2>4, <3>1, <3>2, <3>3 DEF AtMostForwarded
      <3> QED
        BY <2>2, <3>4
    <2>9. CASE DeleteEnd(k)
      <3>1. /\ UNCHANGED <<fwd, users>> /\ del[k].pc \in {"failing", "succeeding"}
            /\ del'[k].pc \in {"failed", "done"} /\ history' = history
        BY <2>9, Moved DEF DeleteEnd, rows, provider
      <3>2. AtMostForwarded'
        BY <1>1, <2>1, <2>3, <2>4, <3>1 DEF AtMostForwarded
      <3> QED
        BY <2>2, <3>2
    <2> QED
      BY <2>5, <2>6, <2>7, <2>8, <2>9 DEF DeleteStep
  <1> QED
    BY <1>2, <1>3

LEMMA ForwardInvariant == Spec => []ForwardInv
  <1>1. Init => ForwardInv
    <2> SUFFICES ASSUME Init PROVE ForwardInv
      OBVIOUS
    <2>1. ForwardedDone /\ DeletedDone /\ OwnersExist /\ StaysDeleted
      BY DEF Init, ForwardedDone, DeletedDone, OwnersExist, StaysDeleted
    <2>2. TakeTurns /\ AtMostForwarded
      BY DEF Init, TakeTurns, AtMostForwarded, Forwards, Forwarding, Removing, Removals, Deletions
    <2> QED
      BY <2>1, <2>2 DEF ForwardInv
  <1>2. TypeInv /\ UserInv /\ ForwardInv /\ [Next]_vars => ForwardInv'
    <2> SUFFICES ASSUME Types, Shapes, UserGone, ForwardInv, [Next]_vars PROVE ForwardInv'
      BY DEF TypeInv, UserInv
    <2>1. ForwardedDone' /\ DeletedDone' /\ OwnersExist' /\ StaysDeleted'
      BY NamedAreDone, DeletedAreDone, OwnersStay, DeletedStay DEF ForwardInv
    <2>2. Turns
      BY DEF Turns, ForwardInv
    <2>3. ASSUME UNCHANGED <<psu, fwd, users, forward, del>>, history'.raced = history.raced,
                 history'.unrecorded = history.unrecorded
          PROVE  Turns'
      BY <2>2, <2>3 DEF Turns, TakeTurns, AtMostForwarded, Forwards, Forwarding, Removing
    <2>4. Turns'
      <3>1. CASE Next
        BY <2>2, <2>3, <3>1, Steps, ForwardFrame, TurnsOfForward, TurnsOfRequest, TurnsOfDelete
           DEF SameForwards
      <3>2. CASE UNCHANGED vars
        BY <2>3, <3>2 DEF vars, rows, provider
      <3> QED
        BY <3>1, <3>2
    <2> QED
      BY <2>1, <2>4 DEF ForwardInv, Turns
  <1> QED
    BY <1>1, <1>2, AlwaysTyped, UserInvariant, PTL DEF Spec

\* Forwarding a user and removing it: unless calls raced, the provider has the
\* user that the forwarded user's row names, and no other; or none, when a removal
\* failed after the provider had deleted that user.
THEOREM ForwardedUserDoesAgree == Spec => []ForwardedUserAgrees
  <1>1. TypeInv /\ ForwardInv => ForwardedUserAgrees
    <2> SUFFICES ASSUME TypeInv, ForwardInv, ~history.raced, ~Removing, ~Forwarding
                 PROVE  users = {fwd} \ (history.unrecorded \cup {0})
      BY DEF ForwardedUserAgrees
    <2>1. 0 \notin users
      BY DEF TypeInv, Types, ProviderTypes, Calls
    <2>2. users \subseteq {fwd} /\ history.unrecorded \cap users = {}
      BY DEF ForwardInv, AtMostForwarded, StaysDeleted
    <2>3. fwd # 0 /\ fwd \notin history.unrecorded => users # {}
      BY DEF ForwardInv, AtMostForwarded, Removing, Removals, Idle
    <2> QED
      BY <2>1, <2>2, <2>3
  <1> QED
    BY <1>1, AlwaysTyped, ForwardInvariant, PTL

\* The deletion of the user: when it has succeeded nothing of the user is left,
\* in the tables or, unless a forward raced with it, at the provider.
THEOREM DeletedUserIsErased == Spec => []UserErased
  <1>1. TypeInv /\ UserInv /\ ForwardInv => UserErased
    <2> SUFFICES ASSUME TypeInv, UserInv, ForwardInv, task["user"] = "SUCCEEDED"
                 PROVE  /\ ~psu /\ fwd = 0
                        /\ \A a \in Attempts : attempts[a] = "none"
                        /\ \A c \in Connections : conns[c] = "none" /\ data[c] = {}
                        /\ history.raced \/ users = {}
      BY DEF UserErased
    <2>1. ~psu /\ fwd = 0
      BY DEF UserInv, UserGone, Succeeded
    <2>2. users \subseteq Calls /\ 0 \notin Calls
      BY DEF TypeInv, Types, ProviderTypes, Calls
    <2>3. history.raced \/ users = {}
      BY <2>1, <2>2 DEF ForwardInv, TakeTurns, AtMostForwarded
    <2> QED
      BY <2>1, <2>3 DEF UserInv, UserGone
  <1> QED
    BY <1>1, AlwaysTyped, UserInvariant, ForwardInvariant, PTL

-----------------------------------------------------------------------------
(* The deletion of a connection.                                           *)

\* The provider does not revive a connection.
LEMMA GoneForGood ==
    ASSUME Types, Shapes, [Next]_vars, NEW c \in Connections, items[c].state = "gone"
    PROVE  items'[c].state = "gone"
  <1>1. ASSUME NEW n \in Calls, Forward(n) \/ ForwardStep(n) \/ ForwardLost(n) PROVE items'[c] = items[c]
    BY <1>1 DEF Forward, ForwardStep, ForwardLost, CreateUser, OpenBankingForwardedUserUpsert, provider
  <1>2. ASSUME NEW a \in Attempts, LinkStep(a) PROVE items'[c] = items[c]
    <2>1. CASE CreatePaymentServiceUserLink(a) \/ UpdatePaymentServiceUserLink(a)
      BY <2>1, StartedLink DEF StartLink, provider
    <2>2. CASE ~(CreatePaymentServiceUserLink(a) \/ UpdatePaymentServiceUserLink(a))
      BY <1>2, <2>2 DEF LinkStep, CompleteStep, LinkCreated, PaymentServiceUsersCompleteLinkFlow,
         CompleteCall, CompleteStore, CompleteConnection, provider
    <2> QED
      BY <2>1, <2>2
  <1>3. ASSUME NEW a \in Attempts, SessionExited(a) PROVE items'[c] = items[c]
    BY <1>3 DEF SessionExited, provider
  <1>4. ASSUME NEW a \in Attempts, SessionLinked(a) PROVE items'[c] = items[c]
    <2>1. items' = [items EXCEPT ![link[a].conn] = [state |-> "up", owner |-> link[a].user]]
          /\ items[link[a].conn].state # "gone"
      BY <1>4 DEF SessionLinked
    <2> QED
      BY <2>1 DEF Types, ProviderTypes
  <1>5. ASSUME NEW d \in Connections, ItemDown(d) \/ ItemSynced(d) \/ ItemUpdated(d) PROVE items'[c] = items[c]
    BY <1>5 DEF ItemDown, ItemSynced, ItemUpdated, provider, Types, ProviderTypes
  <1>6. ASSUME NEW k \in Deletions, DeleteStep(k) PROVE items'[c].state = "gone"
    <2>1. CASE DeleteCall(k)
      <3>1. items' = items \/ DeletedAtProvider(k)
        BY <2>1 DEF DeleteCall, provider
      <3>2. CASE DeletedAtProvider(k)
        BY <3>2 DEF DeletedAtProvider, Gone, Types, ProviderTypes, ItemType
      <3> QED
        BY <3>1, <3>2
    <2>2. CASE ~DeleteCall(k)
      BY <1>6, <2>2 DEF DeleteStep, DeleteRead, DeleteRow, DeleteOpenBankingConnectionData, DeleteEnd, provider
    <2> QED
      BY <2>1, <2>2
  <1>7. CASE Next
    BY <1>1, <1>2, <1>3, <1>4, <1>5, <1>6, <1>7, NoticeFrame, RequestTo, Steps DEF SendStep, provider
  <1>8. CASE UNCHANGED vars
    BY <1>8 DEF vars, provider
  <1> QED
    BY <1>7, <1>8

\* The history remembers.
LEMMA HistoryGrows ==
    ASSUME Types, Shapes, [Next]_vars
    PROVE  /\ history.raced => history'.raced
           /\ history.late => history'.late
           /\ history.overlapped \subseteq history'.overlapped
           /\ history.revived \subseteq history'.revived
  <1> DEFINE Q == /\ history.raced => history'.raced
                  /\ history.late => history'.late
                  /\ history.overlapped \subseteq history'.overlapped
                  /\ history.revived \subseteq history'.revived
  <1>1. ASSUME NEW n \in Calls, Forward(n) \/ ForwardStep(n) \/ ForwardLost(n) PROVE Q
    <2>1. history \in HistoryType
      BY DEF Types, WorkflowTypes
    <2>2. CASE Forward(n)
      <3>1. history' = [history EXCEPT !.raced = @ \/ Forwarding \/ Removing]
        BY <2>2 DEF Forward
      <3> QED
        BY <2>1, <3>1 DEF HistoryType
    <2>3. CASE ForwardLost(n)
      <3>1. history' = [history EXCEPT !.raced = TRUE]
        BY <2>3 DEF ForwardLost
      <3> QED
        BY <2>1, <3>1 DEF HistoryType
    <2>4. CASE ForwardStep(n)
      BY <2>4 DEF ForwardStep, CreateUser, OpenBankingForwardedUserUpsert
    <2> QED
      BY <1>1, <2>2, <2>3, <2>4
  <1>2. ASSUME NEW a \in Attempts, SessionExited(a), plugin # "plaid" PROVE Q
    BY <1>2 DEF SessionExited
  <1>3. CASE Next
    BY <1>1, <1>2, <1>3, LinkNotes, SendNotes, NoticeNotes, RequestNotes, DeleteTo, Steps
  <1>4. CASE UNCHANGED vars
    BY <1>4 DEF vars
  <1> QED
    BY <1>3, <1>4

\* A connection's row comes back with a mark, and no data comes without it.
LEMMA NothingRevived ==
    ASSUME Types, Shapes, [Next]_vars, NEW c \in Connections, items[c].state = "gone",
           c \notin history'.revived, conns[c] = "none", data[c] = {}
    PROVE  conns'[c] = "none" /\ data'[c] = {}
  <1> DEFINE Q == conns'[c] = "none" /\ data'[c] = {}
  <1>0. c \notin history.revived
    BY HistoryGrows
  <1>1. ASSUME UNCHANGED <<conns, data>> PROVE Q
    BY <1>1
  <1>2. ASSUME NEW d, OpenBankingConnectionsUpsert(d, "ACTIVE") \/ OpenBankingConnectionsUpsert(d, "ERROR"),
               NoteRevived(d), data' = data
        PROVE  Q
    <2>1. conns' = conns \/ \E s : conns' = [conns EXCEPT ![d] = s]
      BY <1>2 DEF OpenBankingConnectionsUpsert
    <2>2. psu => d # c
      BY <1>2, RevivedNotes
    <2>3. ~psu => conns' = conns
      BY <1>2 DEF OpenBankingConnectionsUpsert
    <2> QED
      BY <1>2, <2>1, <2>2, <2>3 DEF Types, RowTypes
  <1>3. ASSUME NEW n \in Calls, Forward(n) \/ ForwardStep(n) \/ ForwardLost(n) PROVE Q
    BY <1>1, <1>3 DEF Forward, ForwardStep, ForwardLost, CreateUser, OpenBankingForwardedUserUpsert, rows
  <1>4. ASSUME NEW a \in Attempts, LinkStep(a) PROVE Q
    <2>1. CASE CreatePaymentServiceUserLink(a) \/ UpdatePaymentServiceUserLink(a)
      BY <1>1, <2>1, StartedLink DEF StartLink
    <2>2. CASE CompleteConnection(a)
      BY <1>2, <2>2 DEF CompleteConnection
    <2>3. CASE LinkCreated(a) \/ PaymentServiceUsersCompleteLinkFlow(a) \/ CompleteCall(a) \/ CompleteStore(a)
      BY <1>1, <2>3 DEF LinkCreated, PaymentServiceUsersCompleteLinkFlow, CompleteCall, CompleteStore, rows
    <2> QED
      BY <1>4, <2>1, <2>2, <2>3 DEF LinkStep, CompleteStep
  <1>5. ASSUME NEW a \in Attempts, SessionExited(a) \/ SessionLinked(a) PROVE Q
    BY <1>1, <1>5 DEF SessionExited, SessionLinked, rows
  <1>6. ASSUME NEW d \in Connections, ItemDown(d) \/ ItemSynced(d) \/ ItemUpdated(d) PROVE Q
    BY <1>1, <1>6 DEF ItemDown, ItemSynced, ItemUpdated, rows
  <1>7. ASSUME NEW n, NoticeStep(n) \/ NoticeAgain(n) PROVE Q
    <2>1. CASE NoticeStore(n)
      <3>1. \/ OpenBankingConnectionsUpsert(notices[n].conn, "ACTIVE")
            \/ OpenBankingConnectionsUpsert(notices[n].conn, "ERROR")
        BY <2>1 DEF NoticeStore
      <3> QED
        BY <1>2, <2>1, <3>1 DEF NoticeStore
    <2>2. ASSUME NEW k \in Kinds, SyncStore(n, k) \/ FetchStore(n, k) PROVE Q
      <3>1. Upsert(notices[n].conn, k) /\ conns' = conns
        BY <2>2 DEF SyncStore, FetchStore
      <3> QED
        BY <3>1 DEF Upsert, Types, RowTypes
    <2>3. CASE \/ SessionTranslate(n) \/ OpenBankingConnectionAttemptsUpdateStatus(n) \/ NoticeRead(n)
               \/ StartFetch(n) \/ FetchDone(n) \/ NoticeAgain(n)
               \/ \E k \in Kinds : SyncRead(n, k) \/ FetchNext(n, k)
      BY <1>1, <2>3 DEF SessionTranslate, OpenBankingConnectionAttemptsUpdateStatus, NoticeRead,
         StartFetch, FetchDone, NoticeAgain, SyncRead, FetchNext, rows
    <2> QED
      BY <1>7, <2>1, <2>2, <2>3 DEF NoticeStep
  <1>8. ASSUME NEW k, NEW d, RequestStep(k, d) PROVE Q
    BY <1>1, <1>8, RequestTo DEF rows
  <1>9. ASSUME NEW k \in Deletions, DeleteStep(k) PROVE Q
    <2>1. CASE DeleteRow(k)
      <3>1. CASE k = "user"
        BY <2>1, <3>1, DeleteRowTo DEF PaymentServiceUsersDelete, rows
      <3>2. CASE k = "connector"
        BY <2>1, <3>2, DeleteRowTo DEF OpenBankingForwardedUserDelete
      <3>3. CASE k = "connection"
        BY <2>1, <3>3, DeleteRowTo DEF OpenBankingConnectionsDelete, Types, RowTypes
      <3> QED
        BY <3>1, <3>2, <3>3 DEF Deletions
    <2>2. CASE DeleteOpenBankingConnectionData(k)
      BY <2>2 DEF DeleteOpenBankingConnectionData, DeleteData
    <2>3. CASE DeleteRead(k) \/ DeleteCall(k) \/ DeleteEnd(k)
      BY <1>1, <2>3 DEF DeleteRead, DeleteCall, DeleteEnd, rows
    <2> QED
      BY <1>9, <2>1, <2>2, <2>3 DEF DeleteStep
  <1>10. CASE Next
    BY <1>3, <1>4, <1>5, <1>6, <1>7, <1>8, <1>9, <1>10, Steps DEF SendStep
  <1>11. CASE UNCHANGED vars
    BY <1>1, <1>11 DEF vars, rows
  <1> QED
    BY <1>10, <1>11

\* A step of the deletion of a connection.
LEMMA ConnectionStep ==
    ASSUME Types, Shapes, ConnectionInv, DeleteStep("connection")
    PROVE  ConnectionInv'
  <1> DEFINE k == "connection"
             c == del[k].conn
  <1>0. k \in Deletions
    BY DEF Deletions
  <1>1. del[k].pc \notin Idle /\ del'[k].conn = c /\ history'.revived = history.revived
    BY <1>0, DeleteTo
  <1>2. c \in Connections
    BY <1>0, <1>1 DEF Shapes, Idle, Types, WorkflowTypes, DeletionType, ConnectionOrNone, Connections
  <1>3. task[k] = "SUCCEEDED" => del[k].pc = "succeeding"
    BY <1>1 DEF ConnectionInv, Succeeded, Idle
  <1>4. CASE DeleteRead(k)
    BY <1>0, <1>3, <1>4, DeleteReadTo DEF DeleteRead, ConnectionInv, Succeeded
  <1>5. CASE DeleteCall(k)
    <2>1. del[k].pc = "plugin" /\ task' = task
      BY <1>5 DEF DeleteCall
    <2>2. del'[k].pc = "failing" \/ (del'[k].pc = "payments" /\ items' = Gone(c))
      BY <1>0, <1>5, DeleteCallTo, Moved DEF DeletedAtProvider
    <2>3. items' = Gone(c) => items'[c].state = "gone"
      BY <1>2 DEF Gone, Types, ProviderTypes, ItemType
    <2> QED
      BY <1>1, <1>3, <2>1, <2>2, <2>3 DEF ConnectionInv, Succeeded
  <1>6. CASE DeleteOpenBankingConnectionData(k)
    <2>1. UNCHANGED <<task, items>>
      BY <1>6 DEF DeleteOpenBankingConnectionData, provider
    <2>2. \/ del[k].pc = "payments" /\ del'[k].pc = "accounts"
          \/ del[k].pc = "accounts" /\ del'[k].pc = "row"
      BY <1>0, <1>6, Moved DEF DeleteOpenBankingConnectionData
    <2> QED
      BY <1>1, <1>3, <2>1, <2>2 DEF ConnectionInv, Succeeded
  <1>7. CASE DeleteRow(k)
    <2>1. /\ del[k].pc = "row" /\ UNCHANGED <<task, items>> /\ del'[k].pc \in {"row", "succeeding"}
          /\ OpenBankingConnectionsDelete(c)
      BY <1>0, <1>7, DeleteRowTo, Moved DEF provider
    <2>2. conns'[c] = "none" /\ data'[c] = {}
      BY <1>2, <2>1 DEF OpenBankingConnectionsDelete, Types, RowTypes
    <2> QED
      BY <1>1, <1>3, <2>1, <2>2 DEF ConnectionInv, Succeeded
  <1>8. CASE DeleteEnd(k)
    <2>1. /\ UNCHANGED <<conns, data, items>>
          /\ \/ del[k].pc = "failing" /\ del'[k].pc = "failed" /\ task'[k] = "FAILED"
             \/ del[k].pc = "succeeding" /\ del'[k].pc = "done"
      BY <1>0, <1>8, Moved DEF DeleteEnd, rows, provider, Types, WorkflowTypes
    <2> QED
      BY <1>1, <2>1 DEF ConnectionInv, Succeeded
  <1> QED
    BY <1>4, <1>5, <1>6, <1>7, <1>8 DEF DeleteStep

LEMMA ConnectionInvariant == Spec => []ConnectionInv
  <1>1. Init => ConnectionInv
    BY DEF Init, ConnectionInv, Succeeded, Deletions
  <1>2. TypeInv /\ ConnectionInv /\ [Next]_vars => ConnectionInv'
    <2> SUFFICES ASSUME Types, Shapes, ConnectionInv, [Next]_vars PROVE ConnectionInv'
      BY DEF TypeInv
    <2>0. "connection" \in Deletions
      BY DEF Deletions
    <2>1. ASSUME del'["connection"].pc = del["connection"].pc,
                 del'["connection"].conn = del["connection"].conn,
                 task'["connection"] \in {task["connection"], "PROCESSING"}
          PROVE  ConnectionInv'
      <3> DEFINE d == del["connection"]
      <3>1. (Succeeded("connection") => d.pc \in {"succeeding", "done"})'
        BY <2>1 DEF ConnectionInv, Succeeded
      <3>2. d.pc # "none" => d.conn \in Connections
        BY <2>0 DEF Shapes, Types, WorkflowTypes, DeletionType, ConnectionOrNone, Connections
      <3>3. (d.pc \in {"payments", "accounts", "row", "succeeding", "done"} => items[d.conn].state = "gone")'
        BY <2>1, <3>2, GoneForGood DEF ConnectionInv
      <3>4. ((d.pc \in {"succeeding", "done"} /\ d.conn \notin history.revived) =>
               conns[d.conn] = "none" /\ data[d.conn] = {})'
        <4> SUFFICES ASSUME d.pc \in {"succeeding", "done"}, d.conn \notin history'.revived
                     PROVE  conns'[d.conn] = "none" /\ data'[d.conn] = {}
          BY <2>1
        <4>1. d.conn \in Connections /\ items[d.conn].state = "gone" /\ d.conn \notin history.revived
          BY <3>2, HistoryGrows DEF ConnectionInv
        <4>2. conns[d.conn] = "none" /\ data[d.conn] = {}
          BY <4>1 DEF ConnectionInv
        <4> QED
          BY <4>1, <4>2, NothingRevived
      <3> QED
        BY <3>1, <3>3, <3>4 DEF ConnectionInv
    <2>2. ASSUME NEW k, NEW c, RequestStep(k, c) PROVE ConnectionInv'
      <3>1. CASE k # "connection" \/ LeftAlone(k)
        BY <2>0, <2>1, <2>2, <3>1, RequestTo DEF LeftAlone
      <3>2. CASE k = "connection" /\ Starts(k, c)
        BY <3>2 DEF Starts, ConnectionInv, Succeeded
      <3> QED
        BY <2>2, <3>1, <3>2, RequestTo
    <2>3. ASSUME NEW k \in Deletions, DeleteStep(k) PROVE ConnectionInv'
      <3>1. CASE k = "connection"
        BY <2>3, <3>1, ConnectionStep
      <3>2. CASE k # "connection"
        BY <2>0, <2>1, <2>3, <3>2, DeleteTo
      <3> QED
        BY <3>1, <3>2
    <2> QED
      BY <2>1, <2>2, <2>3, DeletionFrame
  <1> QED
    BY <1>1, <1>2, AlwaysTyped, PTL DEF Spec

\* The deletion of a connection: when it has succeeded the provider's
\* connection is gone, and the row and its data stay away unless a late
\* webhook or completion stores the row again.
THEOREM DeletedConnectionIsErased == Spec => []ConnectionErased
  <1>1. ConnectionInv => ConnectionErased
    BY DEF ConnectionInv, ConnectionErased, Succeeded
  <1> QED
    BY <1>1, ConnectionInvariant, PTL

-----------------------------------------------------------------------------
(* The removal of the user from the connector.                             *)

Calm == ~history.late /\ ~history.raced
Removed == del["connector"].pc = "done" /\ fwd = 0 /\ psu
Quiet == \A n \in DOMAIN notices : ~Working(notices[n])
Emptied == \A c \in Connections : data[c] = {}
NothingGot == \A n \in DOMAIN notices : notices[n].got = {}

\* What the invariant needs of a step that is not one of the removal.
ConnectorKept ==
    /\ del'["connector"].pc = del["connector"].pc
    /\ task'["connector"] \in {task["connector"], "PROCESSING"}
    /\ Calm' /\ del["connector"].pc \notin Idle =>
         Quiet' /\ \A c \in Connections : data'[c] \subseteq data[c]
    /\ Calm' /\ Removed' => Emptied' /\ NothingGot'

LEMMA CalmBefore ==
    ASSUME Types, Shapes, [Next]_vars, Calm'
    PROVE  Calm
  BY HistoryGrows DEF Calm

LEMMA KeptIsEnough ==
    ASSUME Types, Shapes, ConnectorInv, [Next]_vars, ConnectorKept
    PROVE  ConnectorInv'
  <1> DEFINE pc == del["connector"].pc
  <1>1. (Succeeded("connector") => pc \in {"succeeding", "done"})'
    BY DEF ConnectorInv, ConnectorKept, Succeeded
  <1> SUFFICES ASSUME Calm'
               PROVE  (/\ pc \notin Idle => Quiet
                       /\ pc \in {"accounts", "row", "succeeding"} =>
                            \A c \in Connections : "payments" \notin data[c]
                       /\ pc \in {"row", "succeeding"} => Emptied
                       /\ Removed => Emptied /\ NothingGot)'
    BY <1>1 DEF ConnectorInv, Calm, Quiet, Emptied, Removed, NothingGot
  <1>2. Calm
    BY CalmBefore
  <1>3. /\ pc \in {"accounts", "row", "succeeding"} => \A c \in Connections : "payments" \notin data[c]
        /\ pc \in {"row", "succeeding"} => Emptied
    BY <1>2 DEF ConnectorInv, Calm, Emptied
  <1> QED
    BY <1>3 DEF ConnectorKept, Emptied, Idle

\* Before the step, under the conditions of the property.
LEMMA ConnectorBefore ==
    ASSUME Types, Shapes, ConnectorInv, [Next]_vars, Calm'
    PROVE  /\ Calm
           /\ del["connector"].pc \notin Idle => Quiet
           /\ Removed => Emptied /\ NothingGot
  <1>1. Calm
    BY CalmBefore
  <1> QED
    BY <1>1 DEF ConnectorInv, Calm, Quiet, Removed, Emptied, NothingGot

\* A removed user is nobody at the provider that owns a connection that works.
LEMMA NoneWorks ==
    ASSUME Types, ForwardInv, ~history.raced, fwd = 0, NEW c \in Connections
    PROVE  items[c].state \notin {"up", "down"}
  <1> SUFFICES ASSUME items[c].state \in {"up", "down"} PROVE FALSE
    OBVIOUS
  <1>1. items[c].owner \in users /\ users \subseteq Calls /\ 0 \notin Calls
    BY DEF ForwardInv, OwnersExist, Types, ProviderTypes, Calls
  <1>2. forward[items[c].owner] = "done" /\ items[c].owner # 0
    BY <1>1 DEF ForwardInv, ForwardedDone
  <1>3. TakeTurns /\ AtMostForwarded
    BY DEF ForwardInv
  <1>4. Forwarding
    BY <1>1, <1>2, <1>3 DEF AtMostForwarded
  <1>5. PICK n \in Calls : forward[n] \in {"checked", "created"}
    BY <1>4 DEF Forwarding
  <1>6. users \subseteq {n}
    BY <1>3, <1>5 DEF TakeTurns
  <1> QED
    BY <1>1, <1>2, <1>5, <1>6

LEMMA NoticeKeepsConnector ==
    ASSUME Types, Shapes, ForwardInv, ConnectorInv, [Next]_vars, NEW n, NoticeStep(n) \/ NoticeAgain(n)
    PROVE  ConnectorKept
  <1> USE DEF Working
  <1>0. WorkflowTypes /\ n \in DOMAIN notices /\ n \in DOMAIN notices' /\ DOMAIN notices' = DOMAIN notices
    BY NoticeChanges DEF Types, ChangesTo
  <1>1. /\ UNCHANGED <<psu, fwd, items, del, task>>
        /\ \A m \in DOMAIN notices \ {n} : notices'[m] = notices[m]
    BY <1>0, NoticeFrame, NoticeChanges DEF provider, ChangesTo
  <1>2. ASSUME Calm' PROVE /\ Calm /\ (del["connector"].pc \notin Idle => Quiet)
                           /\ Removed' => (Emptied /\ NothingGot /\ fwd = 0)
    BY <1>1, <1>2, ConnectorBefore DEF Removed
  <1>3. ASSUME data' = data, Calm' =>
                 /\ del["connector"].pc \notin Idle => ~Working(notices'[n])
                 /\ Removed' => notices'[n].got = {}
        PROVE  ConnectorKept
    BY <1>0, <1>1, <1>2, <1>3 DEF ConnectorKept, Quiet, Emptied, NothingGot
  <1>4. CASE SessionTranslate(n)
    <2>1. data' = data
      BY <1>4 DEF SessionTranslate, rows
    <2> QED
      BY <1>0, <1>2, <1>3, <1>4, <2>1, SessionTranslateTo DEF ChangesTo, NothingGot
  <1>5. CASE OpenBankingConnectionAttemptsUpdateStatus(n)
    <2>1. data' = data
      BY <1>5 DEF OpenBankingConnectionAttemptsUpdateStatus
    <2> QED
      BY <1>0, <1>2, <1>3, <1>5, <2>1, UpdateStatusTo DEF ChangesTo, NothingGot
  <1>6. CASE NoticeRead(n)
    <2>1. data' = data /\ NoteLate
      BY <1>6 DEF NoticeRead, rows
    <2>2. Calm' => del["connector"].pc \in Idle
      BY <2>1, LateNotes DEF Calm
    <2> QED
      BY <1>0, <1>2, <1>3, <1>6, <2>1, <2>2, NoticeReadTo DEF ChangesTo, NothingGot
  <1>7. CASE StartFetch(n)
    <2>1. data' = data /\ NoteLate
      BY <1>7 DEF StartFetch, rows
    <2>2. Calm' => del["connector"].pc \in Idle
      BY <2>1, LateNotes DEF Calm
    <2> QED
      BY <1>0, <1>2, <1>3, <1>7, <2>1, <2>2, StartFetchTo DEF ChangesTo, NothingGot
  <1>8. CASE NoticeStore(n)
    <2>1. data' = data
      BY <1>8 DEF NoticeStore
    <2> QED
      BY <1>0, <1>2, <1>3, <1>8, <2>1, NoticeStoreTo DEF ChangesTo, NothingGot, Quiet
  <1>9. CASE FetchDone(n) \/ NoticeAgain(n)
    <2>1. data' = data
      BY <1>9 DEF FetchDone, NoticeAgain, rows
    <2> QED
      BY <1>0, <1>2, <1>3, <1>9, <2>1, FetchDoneTo, NoticeAgainTo DEF ChangesTo, NothingGot
  <1>10. ASSUME NEW k \in Kinds, SyncRead(n, k) PROVE ConnectorKept
    <2>1. data' = data
      BY <1>10 DEF SyncRead, rows
    <2>2. Working(notices[n]) /\ (fwd = 0 => notices'[n].got = {})
      BY <1>0, <1>10, SyncReadTo DEF ChangesTo, Kinds
    <2> QED
      BY <1>0, <1>2, <1>3, <2>1, <2>2 DEF Quiet
  <1>11. ASSUME NEW k \in Kinds, FetchNext(n, k) PROVE ConnectorKept
    <2>1. data' = data /\ Working(notices[n])
      BY <1>0, <1>11, FetchNextTo DEF FetchNext, rows
    <2>2. notices[n].conn \in Connections
      BY <1>0, NoticeTyped
    <2>3. ASSUME Calm', Removed' PROVE notices'[n].got = {}
      <3>1. items[notices[n].conn].state # "up" /\ notices[n].got = {}
        BY <1>0, <1>2, <2>2, <2>3, NoneWorks DEF Calm, NothingGot
      <3> QED
        BY <1>0, <1>11, <3>1, FetchNextTo DEF ChangesTo
    <2> QED
      BY <1>0, <1>2, <1>3, <2>1, <2>3 DEF Quiet
  <1>12. ASSUME NEW k \in Kinds, SyncStore(n, k) \/ FetchStore(n, k) PROVE ConnectorKept
    <2>1. Working(notices[n]) /\ notices[n].got # {}
      BY <1>0, <1>12, SyncStoreTo, FetchStoreTo DEF Kinds
    <2>2. Calm' => del["connector"].pc \in Idle /\ ~Removed'
      BY <1>0, <1>2, <2>1 DEF Quiet, NothingGot
    <2> QED
      BY <1>1, <2>2 DEF ConnectorKept
  <1> QED
    BY <1>4, <1>5, <1>6, <1>7, <1>8, <1>9, <1>10, <1>11, <1>12 DEF NoticeStep

\* The steps that are neither of a webhook nor of the removal.
LEMMA OtherKeepsConnector ==
    ASSUME Types, Shapes, ConnectorInv, [Next]_vars,
           \/ \E n \in Calls : Forward(n) \/ ForwardStep(n) \/ ForwardLost(n)
           \/ \E a \in Attempts : LinkStep(a) \/ (SessionExited(a) /\ plugin # "plaid")
           \/ UNCHANGED vars
    PROVE  ConnectorKept
  <1> USE OpenBankingAssumption
  <1>1. ASSUME UNCHANGED <<psu, data, del, task, notices>>, fwd' = 0 => fwd = 0 PROVE ConnectorKept
    <2>1. Removed' => Removed
      BY <1>1 DEF Removed
    <2> QED
      BY <1>1, <2>1, ConnectorBefore DEF ConnectorKept, Quiet, Emptied, NothingGot
  <1>2. ASSUME NEW n \in Calls, Forward(n) \/ ForwardStep(n) \/ ForwardLost(n) PROVE ConnectorKept
    <2>1. n # 0
      BY DEF Calls
    <2>2. fwd' = 0 => fwd = 0
      BY <1>2, <2>1 DEF Forward, ForwardStep, ForwardLost, CreateUser, OpenBankingForwardedUserUpsert, rows
    <2> QED
      BY <1>1, <1>2, <2>2 DEF Forward, ForwardStep, ForwardLost, CreateUser, OpenBankingForwardedUserUpsert, rows
  <1>3. ASSUME NEW a \in Attempts, LinkStep(a) PROVE ConnectorKept
    <2>1. CASE CreatePaymentServiceUserLink(a) \/ UpdatePaymentServiceUserLink(a)
      BY <1>1, <2>1, StartedLink DEF StartLink
    <2>2. CASE ~(CreatePaymentServiceUserLink(a) \/ UpdatePaymentServiceUserLink(a))
      BY <1>1, <1>3, <2>2 DEF LinkStep, CompleteStep, LinkCreated, PaymentServiceUsersCompleteLinkFlow,
         CompleteCall, CompleteStore, CompleteConnection, rows
    <2> QED
      BY <2>1, <2>2
  <1>4. ASSUME NEW a \in Attempts, SessionExited(a), plugin # "plaid" PROVE ConnectorKept
    BY <1>1, <1>4 DEF SessionExited, rows
  <1>5. ASSUME UNCHANGED vars PROVE ConnectorKept
    BY <1>1, <1>5 DEF vars, rows
  <1> QED
    BY <1>2, <1>3, <1>4, <1>5

LEMMA SendKeepsConnector ==
    ASSUME Types, Shapes, ConnectorInv, [Next]_vars, SendStep
    PROVE  ConnectorKept
  <1>1. UNCHANGED <<psu, fwd, data, del, task>>
    BY DEF SendStep, SessionLinked, SessionExited, ItemDown, ItemSynced, ItemUpdated, rows
  <1>2. Removed' => Removed
    BY <1>1 DEF Removed
  <1>3. (Quiet => Quiet') /\ (NothingGot => NothingGot')
    <2>1. CASE Trimmed
      BY <2>1 DEF Trimmed, Quiet, NothingGot
    <2>2. CASE ~Trimmed
      <3>1. PICK notice : Announced(notice)
        BY <2>2, SendAnnounces
      <3>2. /\ DOMAIN notices' = 1 .. (Len(notices) + 1) /\ DOMAIN notices = 1 .. Len(notices)
            /\ Len(notices) \in Nat
            /\ notices'[Len(notices) + 1] = notice /\ \A m \in DOMAIN notices : notices'[m] = notices[m]
        BY <3>1, Sent DEF Announced, Types
      <3>3. \A m \in DOMAIN notices' : notices'[m] = notice \/ (m \in DOMAIN notices /\ notices'[m] = notices[m])
        BY <3>2
      <3>4. ~Working(notice) /\ notice.got = {}
        BY <3>1 DEF Announced, Working
      <3> QED
        BY <3>3, <3>4 DEF Quiet, NothingGot
    <2> QED
      BY <2>1, <2>2
  <1> QED
    BY <1>1, <1>2, <1>3, ConnectorBefore DEF ConnectorKept, Emptied

\* The removal starts when no webhook is at work, or that is noted.
LEMMA RequestKeepsConnector ==
    ASSUME Types, Shapes, ConnectorInv, [Next]_vars, NEW k, NEW c, RequestStep(k, c)
    PROVE  ConnectorInv'
  <1>0. "connector" \in Deletions
    BY DEF Deletions
  <1>1. UNCHANGED <<psu, fwd, data, notices>>
    BY RequestTo DEF rows
  <1>2. CASE k # "connector" \/ LeftAlone(k)
    <2>1. del'["connector"].pc = del["connector"].pc
      BY <1>0, <1>2, RequestTo DEF LeftAlone
    <2>2. task'["connector"] \in {task["connector"], "PROCESSING"}
      BY <1>0, RequestTo
    <2>3. Removed' => Removed
      BY <1>1, <2>1 DEF Removed
    <2>4. ConnectorKept
      BY <1>1, <2>1, <2>2, <2>3, ConnectorBefore DEF ConnectorKept, Quiet, Emptied, NothingGot
    <2> QED
      BY <2>4, KeptIsEnough
  <1>3. CASE k = "connector" /\ Starts(k, c)
    <2>1. /\ del["connector"].pc \in {"none", "failed"} /\ del'["connector"].pc = "read"
          /\ task'["connector"] = task["connector"]
      BY <1>3 DEF Starts
    <2>2. ASSUME Calm' PROVE Quiet'
      <3>1. \A b \in Connections : InFlight(b) = {}
        BY <1>3, <2>2, RequestNotes DEF Calm
      <3>2. ASSUME NEW n \in DOMAIN notices PROVE notices[n].pc \in {"done", "failed"}
        <4>1. notices[n].conn \in Connections
          BY <3>2, NoticeTyped DEF Types
        <4> QED
          BY <3>1, <3>2, <4>1 DEF InFlight
      <3> QED
        BY <1>1, <3>2 DEF Quiet, Working
    <2> QED
      BY <2>1, <2>2 DEF ConnectorInv, Calm, Quiet, Succeeded
  <1> QED
    BY <1>2, <1>3, RequestTo

\* A deletion of the user or of a connection takes data only.
LEMMA DeletionKeepsConnector ==
    ASSUME Types, Shapes, UserGone, ConnectorInv, [Next]_vars, NEW k \in Deletions, k # "connector", DeleteStep(k)
    PROVE  ConnectorKept
  <1>0. "connector" \in Deletions
    BY DEF Deletions
  <1>1. /\ del'["connector"] = del["connector"] /\ task'["connector"] = task["connector"]
        /\ UNCHANGED notices
    BY <1>0, DeleteTo
  <1>2. /\ \A c \in Connections : data'[c] \subseteq data[c]
        /\ fwd' = 0 /\ psu' => fwd = 0 /\ psu
    <2>1. CASE DeleteRow(k)
      <3>1. CASE k = "user"
        BY <2>1, <3>1, DeleteRowTo DEF PaymentServiceUsersDelete, rows
      <3>2. CASE k = "connection"
        BY <2>1, <3>2, DeleteRowTo DEF OpenBankingConnectionsDelete, Types, RowTypes
      <3> QED
        BY <3>1, <3>2 DEF Deletions
    <2>2. CASE DeleteOpenBankingConnectionData(k)
      BY <2>2 DEF DeleteOpenBankingConnectionData, DeleteData
    <2>3. CASE DeleteRead(k) \/ DeleteCall(k) \/ DeleteEnd(k)
      BY <2>3 DEF DeleteRead, DeleteCall, DeleteEnd, rows
    <2> QED
      BY <2>1, <2>2, <2>3 DEF DeleteStep
  <1>3. Removed' => Removed
    BY <1>1, <1>2 DEF Removed
  <1>4. Emptied => Emptied'
    BY <1>2 DEF Emptied
  <1> QED
    BY <1>1, <1>2, <1>3, <1>4, ConnectorBefore DEF ConnectorKept, Quiet, NothingGot

LEMMA ConnectorStep ==
    ASSUME Types, Shapes, ConnectorInv, [Next]_vars, DeleteStep("connector")
    PROVE  ConnectorInv'
  <1> DEFINE k == "connector"
             pc == del["connector"].pc
  <1>0. k \in Deletions
    BY DEF Deletions
  <1>1. /\ pc \notin Idle /\ UNCHANGED notices
        /\ history'.late = history.late /\ history'.raced = history.raced
    BY <1>0, DeleteTo
  <1>2. task[k] = "SUCCEEDED" => pc = "succeeding"
    BY <1>1 DEF ConnectorInv, Succeeded, Idle
  <1>3. Calm' => Calm /\ Quiet /\ Quiet'
    BY <1>1, ConnectorBefore DEF Quiet
  <1>4. Calm => /\ pc \in {"accounts", "row", "succeeding"} => \A c \in Connections : "payments" \notin data[c]
                /\ pc \in {"row", "succeeding"} => Emptied
    BY DEF ConnectorInv, Calm, Emptied
  <1>5. CASE DeleteRead(k)
    <2>1. pc = "read" /\ task' = task /\ del'[k].pc \in {"plugin", "failing"}
      BY <1>0, <1>5, DeleteReadTo DEF DeleteRead
    <2> QED
      BY <1>2, <1>3, <2>1 DEF ConnectorInv, Succeeded, Calm, Quiet
  <1>6. CASE DeleteCall(k)
    <2>1. pc = "plugin" /\ task' = task /\ del'[k].pc \in {"payments", "failing"}
      BY <1>0, <1>6, DeleteCallTo, Moved
    <2> QED
      BY <1>2, <1>3, <2>1 DEF ConnectorInv, Succeeded, Calm, Quiet
  <1>7. CASE DeleteOpenBankingConnectionData(k)
    <2>1. del[k].conn = 0 /\ task' = task
      BY <1>0, <1>1, <1>7 DEF DeleteOpenBankingConnectionData, Shapes, Idle
    <2>2. CASE pc = "payments"
      <3>1. del'[k].pc = "accounts" /\ DeleteData(k, "payments")
        BY <1>0, <1>7, <2>2, Moved DEF DeleteOpenBankingConnectionData
      <3>2. \A c \in Connections : "payments" \notin data'[c]
        BY <2>1, <3>1 DEF DeleteData
      <3> QED
        BY <1>2, <1>3, <2>1, <2>2, <3>1, <3>2 DEF ConnectorInv, Succeeded, Calm, Quiet
    <2>3. CASE pc = "accounts"
      <3>1. del'[k].pc = "row" /\ DeleteData(k, "accounts")
        BY <1>0, <1>7, <2>3, Moved DEF DeleteOpenBankingConnectionData
      <3>2. Calm => \A c \in Connections : data'[c] = {}
        BY <1>4, <2>1, <2>3, <3>1 DEF DeleteData, Types, RowTypes, Kinds
      <3> QED
        BY <1>2, <1>3, <2>1, <2>3, <3>1, <3>2 DEF ConnectorInv, Succeeded, Calm, Quiet
    <2> QED
      BY <1>7, <2>2, <2>3 DEF DeleteOpenBankingConnectionData
  <1>8. CASE DeleteRow(k)
    <2>1. pc = "row" /\ UNCHANGED <<task, data>> /\ del'[k].pc \in {"row", "succeeding"}
      BY <1>0, <1>8, DeleteRowTo, Moved DEF OpenBankingForwardedUserDelete
    <2> QED
      BY <1>2, <1>3, <1>4, <2>1 DEF ConnectorInv, Succeeded, Calm, Quiet, Emptied
  <1>9. CASE DeleteEnd(k)
    <2>1. /\ UNCHANGED data
          /\ \/ pc = "failing" /\ del'[k].pc = "failed" /\ task'[k] = "FAILED"
             \/ pc = "succeeding" /\ del'[k].pc = "done"
      BY <1>0, <1>9, Moved DEF DeleteEnd, rows, Types, WorkflowTypes
    <2>2. Quiet => NothingGot'
      BY <1>1 DEF Quiet, NothingGot, Working, Shapes, NoticeShape
    <2> QED
      BY <1>3, <1>4, <2>1, <2>2 DEF ConnectorInv, Succeeded, Calm, Emptied, NothingGot, Idle
  <1> QED
    BY <1>5, <1>6, <1>7, <1>8, <1>9 DEF DeleteStep

LEMMA ConnectorInvariant == Spec => []ConnectorInv
  <1>1. Init => ConnectorInv
    BY DEF Init, ConnectorInv, Succeeded, Deletions, Idle
  <1>2. TypeInv /\ UserInv /\ ForwardInv /\ ConnectorInv /\ [Next]_vars => ConnectorInv'
    <2> SUFFICES ASSUME Types, Shapes, UserGone, ForwardInv, ConnectorInv, [Next]_vars PROVE ConnectorInv'
      BY DEF TypeInv, UserInv
    <2>1. ASSUME NEW n, NoticeStep(n) \/ NoticeAgain(n) PROVE ConnectorInv'
      BY <2>1, NoticeKeepsConnector, KeptIsEnough
    <2>2. ASSUME NEW k \in Deletions, DeleteStep(k) PROVE ConnectorInv'
      BY <2>2, DeletionKeepsConnector, ConnectorStep, KeptIsEnough
    <2>3. ASSUME SendStep PROVE ConnectorInv'
      BY <2>3, SendKeepsConnector, KeptIsEnough
    <2>4. CASE Next
      BY <2>1, <2>2, <2>3, <2>4, OtherKeepsConnector, RequestKeepsConnector, KeptIsEnough, Steps
    <2>5. CASE UNCHANGED vars
      BY <2>5, OtherKeepsConnector, KeptIsEnough
    <2> QED
      BY <2>4, <2>5
  <1> QED
    BY <1>1, <1>2, AlwaysTyped, UserInvariant, ForwardInvariant, PTL DEF Spec

\* The removal of the user from the connector: unless a webhook was at work or
\* the user was forwarded meanwhile, no data is left and none comes later.
THEOREM RemovedUserHasNoData == Spec => []ConnectorDataErased
  <1>1. UserInv /\ ConnectorInv => ConnectorDataErased
    BY DEF UserInv, UserGone, ConnectorInv, ConnectorDataErased, Succeeded
  <1> QED
    BY <1>1, UserInvariant, ConnectorInvariant, PTL

-----------------------------------------------------------------------------
(* The status of a connection.                                             *)

\* Webhooks that announce connection c.
About(c) == {n \in DOMAIN notices : notices[n].conn = c}

\* Steps other than those of webhooks: rows may go.
LEMMA StatusKept ==
    ASSUME StatusInv, UNCHANGED <<notices, plugin>>, history.overlapped \subseteq history'.overlapped,
           \A c \in Connections : conns'[c] \in {conns[c], "none"}
    PROVE  StatusInv'
  <1> SUFFICES ASSUME plugin = "powens", NEW c \in Connections, About(c) # {},
                      c \notin history'.overlapped
               PROVE  \E n \in DOMAIN notices : Announces(n, c)'
    BY DEF StatusInv, About
  <1>1. c \notin history.overlapped /\ \E n \in DOMAIN notices : notices[n].conn = c
    BY DEF About
  <1>2. PICK n \in DOMAIN notices : Announces(n, c)
    BY <1>1 DEF StatusInv
  <1>3. Announces(n, c)'
    BY <1>1, <1>2 DEF Announces, Status
  <1> QED
    BY <1>3

LEMMA StatusOfSend ==
    ASSUME Types, Shapes, StatusInv, SendStep, ~Trimmed
    PROVE  StatusInv'
  <1>1. PICK notice : Announced(notice)
    BY SendAnnounces
  <1>2. /\ DOMAIN notices' = 1 .. (Len(notices) + 1) /\ DOMAIN notices = 1 .. Len(notices)
        /\ Len(notices) \in Nat
        /\ notices'[Len(notices) + 1] = notice /\ \A m \in DOMAIN notices : notices'[m] = notices[m]
        /\ history'.overlapped = (IF InFlight(notice.conn) = {} THEN history.overlapped
                                  ELSE history.overlapped \cup {notice.conn})
        /\ plugin' = plugin
    BY <1>1, Sent DEF Announced, Types
  <1>3. PICK last : last = Len(notices) + 1
    OBVIOUS
  <1>4. /\ last \in DOMAIN notices' /\ last \notin DOMAIN notices
        /\ \A m \in DOMAIN notices' : m = last \/ (m \in DOMAIN notices /\ m < last /\ notices'[m] = notices[m])
    BY <1>2, <1>3
  <1>5. conns' = conns
    BY DEF SendStep, SessionLinked, SessionExited, ItemDown, ItemSynced, ItemUpdated, rows
  <1> SUFFICES ASSUME plugin = "powens", NEW c \in Connections, About(c)' # {},
                      c \notin history'.overlapped
               PROVE  \E n \in DOMAIN notices' : Announces(n, c)'
    BY <1>2 DEF StatusInv, About
  <1>6. CASE notice.conn = c
    <2>1. InFlight(c) = {}
      BY <1>2, <1>6
    <2>2. \A m \in DOMAIN notices : notices[m].conn = c => notices[m].pc \in {"done", "failed"}
      BY <2>1 DEF InFlight
    <2>3. notice.pc = "sent"
      BY <1>1 DEF Announced
    <2>4. notices'[last] = notice
      BY <1>2, <1>3
    <2>5. Announces(last, c)'
      BY <1>4, <1>6, <2>2, <2>3, <2>4 DEF Announces
    <2> QED
      BY <1>4, <2>5
  <1>7. CASE notice.conn # c
    <2>1. c \notin history.overlapped
      BY <1>2, <1>7
    <2>2. PICK n \in DOMAIN notices : Announces(n, c)
      <3>1. \E n \in DOMAIN notices : notices[n].conn = c
        BY <1>2, <1>3, <1>4, <1>7 DEF About
      <3> QED
        BY <2>1, <3>1 DEF StatusInv
    <2>3. notices'[last] = notice /\ notices'[n] = notices[n]
      BY <1>2, <1>3, <2>2
    <2>4. Announces(n, c)'
      BY <1>4, <1>5, <1>7, <2>1, <2>2, <2>3 DEF Announces, Status
    <2>5. n \in DOMAIN notices'
      BY <1>2, <2>2
    <2> QED
      BY <2>4, <2>5
  <1> QED
    BY <1>6, <1>7

\* A webhook at work is not one that was handled.
LEMMA AtWork ==
    ASSUME WorkflowTypes, NEW n, NoticeStep(n)
    PROVE  notices[n].pc \notin {"done", "failed"}
  BY DEF NoticeStep, SessionTranslate, OpenBankingConnectionAttemptsUpdateStatus, NoticeRead,
     NoticeStore, StartFetch, FetchDone, SyncRead, SyncStore, FetchNext, FetchStore, NoticeAt, Kinds

\* What a step of webhook n does to the status of a connection.
LEMMA StatusWritten ==
    ASSUME Types, Shapes, UserGone, plugin = "powens", NEW n, NoticeStep(n) \/ NoticeAgain(n),
           NEW c \in Connections
    PROVE  /\ notices[n].conn # c => conns'[c] = conns[c]
           /\ notices[n].conn = c /\ notices'[n].pc \notin {"sent", "store"} =>
                \/ conns'[c] \in {"none", Status(notices[n])}
                \/ notices[n].pc \notin {"sent", "store"} /\ conns'[c] = conns[c]
  <1>0. WorkflowTypes /\ n \in DOMAIN notices
    BY NoticeChanges DEF Types
  <1>1. NoticeShape(notices[n])
    BY <1>0 DEF Shapes
  <1>2. CASE NoticeRead(n)
    <2>1. conns' = conns
      BY <1>2 DEF NoticeRead, rows
    <2>2. notices'[n].pc # "store" => ~Known(n)
      BY <1>0, <1>2, NoticeReadTo DEF ChangesTo
    <2> QED
      BY <2>1, <2>2 DEF Known
  <1>3. CASE NoticeStore(n)
    <2>1. conns' = IF psu THEN [conns EXCEPT ![notices[n].conn] = Status(notices[n])] ELSE conns
      BY <1>3 DEF NoticeStore, OpenBankingConnectionsUpsert, Status
    <2> QED
      BY <2>1 DEF UserGone, Types, RowTypes
  <1>4. CASE NoticeAgain(n)
    BY <1>0, <1>4, NoticeAgainTo DEF NoticeAgain, rows, ChangesTo
  <1>5. CASE SessionTranslate(n) \/ OpenBankingConnectionAttemptsUpdateStatus(n) \/ StartFetch(n)
    BY <1>1, <1>5 DEF SessionTranslate, OpenBankingConnectionAttemptsUpdateStatus, StartFetch, NoticeAt,
       NoticeShape
  <1>6. CASE \/ FetchDone(n)
             \/ \E k \in Kinds : SyncRead(n, k) \/ SyncStore(n, k) \/ FetchNext(n, k) \/ FetchStore(n, k)
    BY <1>6 DEF FetchDone, SyncRead, SyncStore, FetchNext, FetchStore, NoticeAt, Kinds, rows
  <1> QED
    BY <1>2, <1>3, <1>4, <1>5, <1>6 DEF NoticeStep

LEMMA StatusOfNotice ==
    ASSUME Types, Shapes, UserGone, StatusInv, NEW n, NoticeStep(n) \/ NoticeAgain(n)
    PROVE  StatusInv'
  <1>0. UNCHANGED plugin
    BY NoticeFrame
  <1> SUFFICES ASSUME plugin = "powens", NEW c \in Connections, About(c)' # {},
                      c \notin history'.overlapped
               PROVE  \E m \in DOMAIN notices' : Announces(m, c)'
    BY <1>0 DEF StatusInv, About
  <1>1. /\ WorkflowTypes /\ n \in DOMAIN notices /\ DOMAIN notices' = DOMAIN notices
        /\ \A m \in DOMAIN notices \ {n} : notices'[m] = notices[m]
        /\ notices'[n].kind = notices[n].kind /\ notices'[n].conn = notices[n].conn
    BY NoticeChanges DEF Types, ChangesTo
  <1>2. c \notin history.overlapped /\ \E m \in DOMAIN notices : notices[m].conn = c
    BY <1>1, NoticeNotes DEF About
  <1>3. PICK m \in DOMAIN notices : Announces(m, c)
    BY <1>2 DEF StatusInv
  <1>4. CASE notices[n].conn # c
    <2>1. m # n /\ conns'[c] = conns[c]
      BY <1>3, <1>4, StatusWritten DEF Announces
    <2>2. Announces(m, c)'
      BY <1>0, <1>1, <1>3, <1>4, <2>1 DEF Announces, Status
    <2> QED
      BY <1>1, <2>2
  <1>5. CASE notices[n].conn = c
    <2>1. m = n
      <3>1. CASE NoticeStep(n)
        BY <1>1, <1>3, <1>5, <3>1, AtWork DEF Announces
      <3>2. CASE NoticeAgain(n)
        <4>1. m # n => n < m
          BY <1>1, <1>3, <1>5 DEF Announces
        <4>2. m \in Int /\ n \in Int
          BY <1>1, <1>3 DEF WorkflowTypes
        <4>3. notices[m].conn = c
          BY <1>3 DEF Announces
        <4> QED
          BY <1>3, <1>5, <3>2, <4>1, <4>2, <4>3, AgainNotes
      <3> QED
        BY <3>1, <3>2
    <2>2. Status(notices'[n]) = Status(notices[n])
      BY <1>1 DEF Status
    <2>3. notices'[n].pc \notin {"sent", "store"} => conns'[c] \in {"none", Status(notices'[n])}
      BY <1>3, <1>5, <2>1, <2>2, StatusWritten DEF Announces
    <2>4. Announces(m, c)'
      BY <1>0, <1>1, <1>3, <1>5, <2>1, <2>3 DEF Announces
    <2> QED
      BY <1>1, <2>4
  <1> QED
    BY <1>4, <1>5

LEMMA StatusInvariant == Spec => []StatusInv
  <1>1. Init => StatusInv
    BY DEF Init, StatusInv
  <1>2. TypeInv /\ UserInv /\ StatusInv /\ [Next]_vars => StatusInv'
    <2> SUFFICES ASSUME Types, Shapes, UserGone, StatusInv, [Next]_vars PROVE StatusInv'
      BY DEF TypeInv, UserInv
    <2>0. history.overlapped \subseteq history'.overlapped
      BY HistoryGrows
    <2>1. ASSUME UNCHANGED <<notices, plugin, conns>> PROVE StatusInv'
      BY <2>0, <2>1, StatusKept
    <2>2. ASSUME NEW n \in Calls, Forward(n) \/ ForwardStep(n) \/ ForwardLost(n) PROVE StatusInv'
      BY <2>1, <2>2 DEF Forward, ForwardStep, ForwardLost, CreateUser, OpenBankingForwardedUserUpsert,
         rows, provider, bounds, Event
    <2>3. ASSUME NEW a \in Attempts, LinkStep(a) PROVE StatusInv'
      <3>1. CASE CreatePaymentServiceUserLink(a) \/ UpdatePaymentServiceUserLink(a)
        BY <2>1, <3>1, StartedLink DEF StartLink, provider, Event
      <3>2. CASE CompleteConnection(a)
        <4>1. plugin # "powens" /\ plugin' = plugin
          BY <3>2 DEF CompleteConnection, Shapes, bounds
        <4> QED
          BY <4>1 DEF StatusInv
      <3>3. CASE LinkCreated(a) \/ PaymentServiceUsersCompleteLinkFlow(a) \/ CompleteCall(a) \/ CompleteStore(a)
        BY <2>1, <3>3 DEF LinkCreated, PaymentServiceUsersCompleteLinkFlow, CompleteCall, CompleteStore,
           rows, provider, bounds
      <3> QED
        BY <2>3, <3>1, <3>2, <3>3 DEF LinkStep, CompleteStep
    <2>4. ASSUME NEW a \in Attempts, SessionExited(a), plugin # "plaid" PROVE StatusInv'
      BY <2>1, <2>4 DEF SessionExited, rows, provider, bounds
    <2>5. ASSUME NEW k, NEW c, RequestStep(k, c) PROVE StatusInv'
      BY <2>1, <2>5, RequestTo DEF rows, provider
    <2>6. ASSUME NEW k \in Deletions, DeleteStep(k) PROVE StatusInv'
      <3>1. UNCHANGED <<notices, plugin>>
        BY <2>6, DeleteTo
      <3>3. \A c \in Connections : conns'[c] \in {conns[c], "none"}
        <4>1. CASE DeleteRow(k)
          BY <4>1, DeleteRowTo DEF Deletions, PaymentServiceUsersDelete, OpenBankingForwardedUserDelete,
             OpenBankingConnectionsDelete, rows, Types, RowTypes
        <4>2. CASE ~DeleteRow(k)
          BY <2>6, <4>2 DEF DeleteStep, DeleteRead, DeleteCall, DeleteOpenBankingConnectionData, DeleteEnd, rows
        <4> QED
          BY <4>1, <4>2
      <3> QED
        BY <2>0, <3>1, <3>3, StatusKept
    <2>9. ASSUME SendStep PROVE StatusInv'
      <3>1. CASE Trimmed
        <4>1. conns' = conns
          BY <2>9 DEF SendStep, SessionLinked, SessionExited, ItemDown, ItemSynced, ItemUpdated, rows
        <4> QED
          BY <2>1, <3>1, <4>1 DEF Trimmed, Event
      <3> QED
        BY <2>9, <3>1, StatusOfSend
    <2>7. CASE Next
      BY <2>2, <2>3, <2>4, <2>5, <2>6, <2>7, <2>9, StatusOfNotice, Steps
    <2>8. CASE UNCHANGED vars
      BY <2>1, <2>8 DEF vars, rows, provider, bounds
    <2> QED
      BY <2>7, <2>8
  <1> QED
    BY <1>1, <1>2, AlwaysTyped, UserInvariant, PTL DEF Spec

\* The webhooks of a connection: when they do not overlap, the stored status is
\* the one of the last webhook that trimming let through.
THEOREM StatusDoesFollowProvider == Spec => []ConnectionStatusIsCurrent
  <1>1. TypeInv /\ StatusInv => ConnectionStatusIsCurrent
    <2> SUFFICES ASSUME TypeInv, StatusInv, plugin = "powens", NEW n \in DOMAIN notices,
                        NEW c, c = notices[n].conn,
                        \A m \in DOMAIN notices : m > n => notices[m].conn # c,
                        conns[c] # "none", InFlight(c) = {}, c \notin history.overlapped
                 PROVE  (conns[c] = "ACTIVE") = (notices[n].kind = "sync")
      BY DEF ConnectionStatusIsCurrent
    <2>1. c \in Connections /\ notices \in Seq(NoticeType)
      BY NoticeTyped DEF TypeInv, Types, WorkflowTypes
    <2>2. PICK last \in DOMAIN notices : Announces(last, c)
      BY <2>1 DEF StatusInv
    <2>3. last = n
      <3>1. last # n => n < last
        BY <2>2 DEF Announces
      <3>2. last \in Int /\ n \in Int
        BY <2>1
      <3>3. notices[last].conn = c
        BY <2>2 DEF Announces
      <3> QED
        BY <3>1, <3>2, <3>3
    <2>4. notices[n].pc \in {"done", "failed"}
      BY DEF InFlight
    <2>5. conns[c] = Status(notices[n])
      BY <2>2, <2>3, <2>4 DEF Announces
    <2> QED
      BY <2>5 DEF Status
  <1> QED
    BY <1>1, AlwaysTyped, StatusInvariant, PTL

=============================================================================
