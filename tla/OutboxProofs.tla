---------------------------- MODULE OutboxProofs ----------------------------
(***************************************************************************)
(* For every set of events and publishers, every batch size and retry      *)
(* limit: Outbox is type correct, records as sent only what was delivered, *)
(* gives up only what failed often enough, forgets nothing, and implements *)
(* EventDelivery.                                                          *)
(***************************************************************************)
EXTENDS Outbox, TLAPS

\* The executions stay in their type whatever an action does to one of them.
LEMMA ContinueType ==
    ASSUME TypeOK, NEW p \in Publishers, NEW x \in Execution, Continue(p, x)
    PROVE  pub' \in [Publishers -> Execution]
  <1>1. Idle \in Execution
    BY DEF Idle, Execution, Errors
  <1> QED
    BY <1>1 DEF Continue, TypeOK

LEMMA InitTypeOK == Init => TypeOK
  <1>1. Idle \in Execution
    BY DEF Idle, Execution, Errors
  <1> QED
    BY <1>1 DEF Init, TypeOK

\* Every action keeps the types.
LEMMA NextTypeOK == TypeOK /\ [Next]_vars => TypeOK'
  <1> SUFFICES ASSUME TypeOK, [Next]_vars PROVE TypeOK'
    OBVIOUS
  <1> USE OutboxAssumption
  <1>0. Idle \in Execution
    BY DEF Idle, Execution, Errors
  <1>1. ASSUME NEW e \in Events, OutboxEventsInsert(e) PROVE TypeOK'
    BY <1>1 DEF TypeOK, OutboxEventsInsert, brokerVars
  <1>2. ASSUME NEW e \in Events, OutboxEventsDeleteOldProcessed(e) PROVE TypeOK'
    BY <1>2 DEF TypeOK, OutboxEventsDeleteOldProcessed, brokerVars
  <1>3. CASE ConnectorUninstall
    BY <1>3 DEF TypeOK, ConnectorUninstall, brokerVars
  <1>4. ASSUME NEW p \in Publishers, OutboxEventsPollPending(p) PROVE TypeOK'
    <2>1. PICK B \in SUBSET Events :
            pub' = [pub EXCEPT ![p] = [Idle EXCEPT !.pc = "loop", !.todo = B,
                                                   !.seen = retries]]
      BY <1>4 DEF OutboxEventsPollPending
    <2>2. [Idle EXCEPT !.pc = "loop", !.todo = B, !.seen = retries] \in Execution
      BY DEF Idle, Execution, Errors, TypeOK
    <2> QED
      BY <1>4, <2>1, <2>2 DEF TypeOK, OutboxEventsPollPending, tableVars, brokerVars
  <1>5. ASSUME NEW p \in Publishers, NEW e \in Events, PublishOk(p, e) PROVE TypeOK'
    <2>1. [pub[p] EXCEPT !.todo = @ \ {e}, !.ok = @ \cup {e}] \in Execution
      BY DEF TypeOK, Execution
    <2>2. pub' \in [Publishers -> Execution]
      BY <1>5, <2>1, ContinueType DEF PublishOk
    <2> QED
      BY <1>5, <2>2 DEF TypeOK, PublishOk, tableVars
  <1>6. ASSUME NEW p \in Publishers, NEW e \in Events,
               NEW err \in Errors \ {"none"}, NEW reached \in BOOLEAN,
               PublishError(p, e, err, reached)
        PROVE  TypeOK'
    <2>1. [pub[p] EXCEPT !.pc = "markFailed", !.todo = @ \ {e}, !.cur = {e},
                         !.err = err] \in Execution
      BY DEF TypeOK, Execution
    <2>2. pub' \in [Publishers -> Execution]
      BY <1>6, <2>1, ContinueType DEF PublishError
    <2>3. failures' \in [Events -> Nat]
      BY <1>6 DEF PublishError, TypeOK
    <2>4. hard' \in SUBSET Events /\ delivered' \in SUBSET Events
      BY <1>6 DEF PublishError, TypeOK
    <2> QED
      BY <1>6, <2>2, <2>3, <2>4 DEF TypeOK, PublishError, tableVars
  <1>7. ASSUME NEW p \in Publishers, NEW e \in Events, OutboxEventsMarkFailed(p, e)
        PROVE  TypeOK'
    <2>1. [pub[p] EXCEPT !.pc = "loop", !.cur = {}, !.err = "none"] \in Execution
      BY DEF TypeOK, Execution, Errors
    <2>2. pub' \in [Publishers -> Execution]
      BY <1>7, <2>1, ContinueType DEF OutboxEventsMarkFailed
    <2>3. pub[p].seen[e] + 1 \in Nat
      BY DEF TypeOK, Execution
    <2>4. \A n \in Nat, err \in Errors : FailedStatus(n, err) \in {"failed", "pending"}
      BY DEF FailedStatus
    <2>5. pub[p].err \in Errors
      BY DEF TypeOK, Execution
    <2>6. row' \in [Events -> {"absent", "pending", "failed", "processed"}]
      BY <1>7, <2>3, <2>4, <2>5 DEF OutboxEventsMarkFailed, TypeOK
    <2>7. retries' \in [Events -> Nat]
      BY <1>7, <2>3 DEF OutboxEventsMarkFailed, TypeOK
    <2> QED
      BY <1>7, <2>2, <2>6, <2>7 DEF TypeOK, OutboxEventsMarkFailed, brokerVars
  <1>8. ASSUME NEW p \in Publishers, OutboxEventsMarkProcessedAndRecordSent(p)
        PROVE  TypeOK'
    <2>1. pub[p].ok \in SUBSET Events
      BY DEF TypeOK, Execution
    <2> QED
      BY <1>0, <1>8, <2>1 DEF TypeOK, OutboxEventsMarkProcessedAndRecordSent, brokerVars
  <1>9. ASSUME NEW p \in Publishers, Timeout(p) PROVE TypeOK'
    <2>1. [pub[p] EXCEPT !.mode = "late"] \in Execution
      BY DEF TypeOK, Execution
    <2>2. pub' = [pub EXCEPT ![p] = [pub[p] EXCEPT !.mode = "late"]]
      BY <1>9 DEF Timeout, TypeOK
    <2> QED
      BY <1>9, <2>1, <2>2 DEF TypeOK, Timeout, tableVars, brokerVars
  <1>10. ASSUME NEW p \in Publishers, Abort(p) PROVE TypeOK'
    BY <1>0, <1>10 DEF TypeOK, Abort, tableVars, brokerVars
  <1>11. CASE UNCHANGED vars
    BY <1>11 DEF TypeOK, vars, tableVars, brokerVars
  <1> QED
    BY <1>1, <1>2, <1>3, <1>4, <1>5, <1>6, <1>7, <1>8, <1>9, <1>10, <1>11
       DEF Next, PublisherStep

\* The outbox is type correct, whatever the sets of events and publishers.
THEOREM OutboxTypeCorrect == Spec => []TypeOK
  BY InitTypeOK, NextTypeOK, PTL DEF Spec

-----------------------------------------------------------------------------
(* The inductive invariant.                                                *)

\* ExecutionsSound for one execution, over explicit tables.
SoundWith(x, d, f, h, c) ==
    /\ x.ok \subseteq d
    /\ \A e \in x.todo \cup x.cur \cup x.ok : c[e] > 0
    /\ \A e \in Events : x.seen[e] <= f[e]
    /\ \A e \in x.cur : x.seen[e] < f[e]
    /\ x.err = "nonRetryable" => x.cur \subseteq h

\* Nothing the broker or the insertion of events does makes an execution unsound.
LEMMA SoundGrows ==
    ASSUME NEW x \in Execution,
           NEW d, NEW d2, d \subseteq d2,
           NEW h, NEW h2, h \subseteq h2,
           NEW f \in [Events -> Nat], NEW f2 \in [Events -> Nat],
           \A e \in Events : f[e] <= f2[e],
           NEW c \in [Events -> Nat], NEW c2 \in [Events -> Nat],
           \A e \in Events : c[e] > 0 => c2[e] > 0,
           SoundWith(x, d, f, h, c)
    PROVE  SoundWith(x, d2, f2, h2, c2)
  <1>1. /\ x.todo \subseteq Events /\ x.cur \subseteq Events /\ x.ok \subseteq Events
        /\ x.seen \in [Events -> Nat]
    BY DEF Execution
  <1>2. \A e \in Events : x.seen[e] <= f2[e]
    BY <1>1 DEF SoundWith
  <1>3. \A e \in x.cur : x.seen[e] < f2[e]
    BY <1>1 DEF SoundWith
  <1>4. \A e \in x.todo \cup x.cur \cup x.ok : c2[e] > 0
    BY <1>1 DEF SoundWith
  <1> QED
    BY <1>2, <1>3, <1>4 DEF SoundWith

\* History only grows.
Grows ==
    /\ delivered \subseteq delivered'
    /\ hard \subseteq hard'
    /\ \A e \in Events : failures[e] <= failures'[e]
    /\ \A e \in Events : createdAt[e] > 0 => createdAt'[e] > 0

\* An action that changes one execution keeps them all sound when the new state
\* of that one is.
LEMMA OneExecution ==
    ASSUME TypeOK, TypeOK', ExecutionsSound, Grows,
           NEW p \in Publishers, NEW x \in Execution,
           pub' = [pub EXCEPT ![p] = x],
           SoundWith(x, delivered', failures', hard', createdAt')
    PROVE  ExecutionsSound'
  <1>1. ASSUME NEW q \in Publishers
        PROVE  SoundWith(pub'[q], delivered', failures', hard', createdAt')
    <2>1. CASE q = p
      <3>1. pub'[q] = x
        BY <2>1 DEF TypeOK
      <3> QED
        BY <3>1
    <2>2. CASE q # p
      <3>1. pub'[q] = pub[q] /\ pub[q] \in Execution
        BY <2>2 DEF TypeOK
      <3>2. SoundWith(pub[q], delivered, failures, hard, createdAt)
        BY DEF ExecutionsSound, SoundWith
      <3>3. SoundWith(pub[q], delivered', failures', hard', createdAt')
        BY <3>1, <3>2, SoundGrows DEF Grows, TypeOK
      <3> QED
        BY <3>1, <3>3
    <2> QED
      BY <2>1, <2>2
  <1> QED
    BY <1>1 DEF ExecutionsSound, SoundWith

LEMMA IdleSound ==
    ASSUME NEW d, NEW h, NEW f \in [Events -> Nat], NEW c
    PROVE  Idle \in Execution /\ SoundWith(Idle, d, f, h, c)
  BY DEF Idle, Execution, Errors, SoundWith

\* The same for an action that ends with Continue.
LEMMA ContinueSound ==
    ASSUME TypeOK, TypeOK', ExecutionsSound, Grows,
           NEW p \in Publishers, NEW x \in Execution, Continue(p, x),
           SoundWith(x, delivered', failures', hard', createdAt')
    PROVE  ExecutionsSound'
  <1>1. Idle \in Execution /\ SoundWith(Idle, delivered', failures', hard', createdAt')
    BY IdleSound DEF TypeOK
  <1>2. CASE pub[p].mode = "late"
    <2>1. pub' = [pub EXCEPT ![p] = Idle]
      BY <1>2 DEF Continue
    <2> QED
      BY <1>1, <2>1, OneExecution
  <1>3. CASE pub[p].mode # "late"
    <2>1. pub' = [pub EXCEPT ![p] = x]
      BY <1>3 DEF Continue
    <2> QED
      BY <2>1, OneExecution
  <1> QED
    BY <1>2, <1>3

\* The part of OutboxInv that is about the rows.
RowsSound ==
    /\ SentWasDelivered
    /\ FailedAfterRetries
    /\ \A e \in Events :
        /\ row[e] # "absent" => createdAt[e] > 0
        /\ retries[e] <= failures[e]
        /\ createdAt[e] > 0 /\ row[e] = "absent" =>
             e \in sent \/ (e \in ConnectorEvents /\ connector = "removed")

\* Steps that leave the tables and the history alone keep the rows sound.
LEMMA RowsUnchanged ==
    ASSUME RowsSound, UNCHANGED <<tableVars, failures>>, Grows
    PROVE  RowsSound'
  <1>1. /\ row' = row /\ retries' = retries /\ createdAt' = createdAt
        /\ sent' = sent /\ connector' = connector /\ failures' = failures
    BY DEF tableVars
  <1>2. sent' \subseteq delivered'
    BY <1>1 DEF RowsSound, SentWasDelivered, Grows
  <1> QED
    BY <1>1, <1>2 DEF RowsSound, SentWasDelivered, FailedAfterRetries, Grows

LEMMA InitInv == Init => OutboxInv
  <1> SUFFICES ASSUME Init PROVE OutboxInv
    OBVIOUS
  <1>1. RowsSound
    BY DEF Init, RowsSound, SentWasDelivered, FailedAfterRetries
  <1>2. ExecutionsSound
    BY DEF Init, ExecutionsSound, Idle
  <1> QED
    BY <1>1, <1>2 DEF RowsSound, OutboxInv

\* OutboxInv is inductive.
LEMMA NextInv == TypeOK /\ OutboxInv /\ [Next]_vars => OutboxInv'
  <1> SUFFICES ASSUME TypeOK, RowsSound, ExecutionsSound, [Next]_vars
               PROVE  RowsSound' /\ ExecutionsSound'
    BY DEF OutboxInv, RowsSound
  <1> USE OutboxAssumption
  <1>t. TypeOK'
    BY NextTypeOK
  <1>i. Idle \in Execution /\ SoundWith(Idle, delivered', failures', hard', createdAt')
    BY <1>t, IdleSound DEF TypeOK
  <1>p. ASSUME NEW p \in Publishers
        PROVE  /\ pub[p] \in Execution
               /\ SoundWith(pub[p], delivered, failures, hard, createdAt)
    BY DEF TypeOK, ExecutionsSound, SoundWith
  <1>1. ASSUME NEW e \in Events, OutboxEventsInsert(e)
        PROVE  RowsSound' /\ ExecutionsSound'
    <2>1. /\ row' = [row EXCEPT ![e] = "pending"]
          /\ createdAt' = [createdAt EXCEPT ![e] = clock + 1]
          /\ retries' = [retries EXCEPT ![e] = 0]
          /\ UNCHANGED <<sent, connector, pub, delivered, failures, hard>>
      BY <1>1 DEF OutboxEventsInsert, brokerVars
    <2>2. Grows
      BY <2>1 DEF Grows, TypeOK
    <2>3. RowsSound'
      BY <2>1 DEF RowsSound, SentWasDelivered, FailedAfterRetries, TypeOK
    <2>4. ASSUME NEW q \in Publishers
          PROVE  SoundWith(pub[q], delivered', failures', hard', createdAt')
      BY <1>p, <1>t, <2>2, SoundGrows DEF Grows, TypeOK
    <2>5. ExecutionsSound'
      BY <2>1, <2>4 DEF ExecutionsSound, SoundWith
    <2> QED
      BY <2>3, <2>5
  <1>2. ASSUME NEW e \in Events, OutboxEventsDeleteOldProcessed(e)
        PROVE  RowsSound' /\ ExecutionsSound'
    <2>1. /\ row[e] = "processed"
          /\ row' = [row EXCEPT ![e] = "absent"]
          /\ UNCHANGED <<retries, createdAt, sent, connector, pub, delivered,
                         failures, hard>>
      BY <1>2 DEF OutboxEventsDeleteOldProcessed, brokerVars
    <2>2. RowsSound'
      BY <2>1 DEF RowsSound, SentWasDelivered, FailedAfterRetries, TypeOK
    <2>3. ExecutionsSound'
      BY <2>1 DEF ExecutionsSound
    <2> QED
      BY <2>2, <2>3
  <1>3. CASE ConnectorUninstall
    <2>1. /\ row' = [e \in Events |-> IF e \in ConnectorEvents THEN "absent" ELSE row[e]]
          /\ sent' = sent \ ConnectorEvents
          /\ connector' = "removed"
          /\ UNCHANGED <<retries, createdAt, pub, delivered, failures, hard>>
      BY <1>3 DEF ConnectorUninstall, brokerVars
    <2>2. RowsSound'
      BY <2>1 DEF RowsSound, SentWasDelivered, FailedAfterRetries, TypeOK
    <2>3. ExecutionsSound'
      BY <2>1 DEF ExecutionsSound
    <2> QED
      BY <2>2, <2>3
  <1>4. ASSUME NEW p \in Publishers, OutboxEventsPollPending(p)
        PROVE  RowsSound' /\ ExecutionsSound'
    <2>1. Grows /\ UNCHANGED <<tableVars, brokerVars>>
      BY <1>4 DEF OutboxEventsPollPending, Grows, tableVars, brokerVars, TypeOK
    <2>2. PICK B \in SUBSET Events :
            /\ Batch(B)
            /\ pub' = [pub EXCEPT ![p] = [Idle EXCEPT !.pc = "loop", !.todo = B,
                                                      !.seen = retries]]
      BY <1>4 DEF OutboxEventsPollPending
    <2> DEFINE x == [Idle EXCEPT !.pc = "loop", !.todo = B, !.seen = retries]
    <2>3. x \in Execution
      BY DEF Idle, Execution, Errors, TypeOK
    <2>4. \A e \in B : createdAt[e] > 0
      BY <2>2 DEF Batch, Pending, RowsSound
    <2>5. SoundWith(x, delivered', failures', hard', createdAt')
      <3>1. /\ x.ok = {} /\ x.cur = {} /\ x.todo = B /\ x.seen = retries
            /\ x.err = "none"
        BY DEF Idle
      <3>2. \A e \in Events : retries[e] <= failures[e]
        BY DEF RowsSound
      <3> HIDE DEF x
      <3> QED
        BY <2>1, <2>4, <3>1, <3>2 DEF SoundWith, tableVars, brokerVars
    <2>6. pub' = [pub EXCEPT ![p] = x]
      BY <2>2
    <2> HIDE DEF x
    <2>7. ExecutionsSound'
      BY <1>t, <2>1, <2>3, <2>5, <2>6, OneExecution
    <2>8. RowsSound'
      BY <2>1, RowsUnchanged DEF brokerVars
    <2> QED
      BY <2>7, <2>8
  <1>5. ASSUME NEW p \in Publishers, NEW e \in Events, PublishOk(p, e)
        PROVE  RowsSound' /\ ExecutionsSound'
    <2> DEFINE x == [pub[p] EXCEPT !.todo = @ \ {e}, !.ok = @ \cup {e}]
    <2>1. /\ e \in pub[p].todo /\ Continue(p, x)
          /\ delivered' = delivered \cup {e}
          /\ UNCHANGED <<tableVars, failures, hard>>
      BY <1>5 DEF PublishOk, IsNext
    <2>2. Grows
      BY <2>1 DEF Grows, tableVars, TypeOK
    <2>3. x \in Execution
      BY <1>p DEF Execution
    <2>4. SoundWith(x, delivered', failures', hard', createdAt')
      <3>1. /\ x.ok = pub[p].ok \cup {e} /\ x.cur = pub[p].cur
            /\ x.todo = pub[p].todo \ {e} /\ x.seen = pub[p].seen
            /\ x.err = pub[p].err
        BY <1>p DEF Execution
      <3> HIDE DEF x
      <3> QED
        BY <1>p, <2>1, <3>1 DEF SoundWith, tableVars
    <2> HIDE DEF x
    <2>5. ExecutionsSound'
      BY <1>t, <2>1, <2>2, <2>3, <2>4, ContinueSound
    <2>6. RowsSound'
      BY <2>1, <2>2, RowsUnchanged
    <2> QED
      BY <2>5, <2>6
  <1>6. ASSUME NEW p \in Publishers, NEW e \in Events,
               NEW err \in Errors \ {"none"}, NEW reached \in BOOLEAN,
               PublishError(p, e, err, reached)
        PROVE  RowsSound' /\ ExecutionsSound'
    <2> DEFINE x == [pub[p] EXCEPT !.pc = "markFailed", !.todo = @ \ {e},
                                   !.cur = {e}, !.err = err]
    <2>1. /\ e \in pub[p].todo /\ Continue(p, x)
          /\ failures' = [failures EXCEPT ![e] = @ + 1]
          /\ delivered \subseteq delivered'
          /\ hard \subseteq hard' /\ (err = "nonRetryable" => e \in hard')
          /\ UNCHANGED tableVars
      BY <1>6 DEF PublishError, IsNext
    <2>2. Grows
      BY <2>1 DEF Grows, tableVars, TypeOK
    <2>3. x \in Execution
      BY <1>p DEF Execution
    <2>4. SoundWith(x, delivered', failures', hard', createdAt')
      <3>1. /\ x.ok = pub[p].ok /\ x.cur = {e}
            /\ x.todo = pub[p].todo \ {e} /\ x.seen = pub[p].seen
            /\ x.err = err
        BY <1>p DEF Execution
      <3>2. pub[p].seen \in [Events -> Nat]
        BY <1>p DEF Execution
      <3> HIDE DEF x
      <3>3. \A f \in Events : x.seen[f] <= failures'[f]
        BY <1>p, <2>1, <3>1, <3>2 DEF SoundWith, TypeOK
      <3>4. x.seen[e] < failures'[e]
        BY <1>p, <2>1, <3>1, <3>2 DEF SoundWith, TypeOK
      <3> QED
        BY <1>p, <2>1, <3>1, <3>3, <3>4 DEF SoundWith, tableVars
    <2> HIDE DEF x
    <2>5. ExecutionsSound'
      BY <1>t, <2>1, <2>2, <2>3, <2>4, ContinueSound
    <2>6. RowsSound'
      <3>1. /\ row' = row /\ retries' = retries /\ createdAt' = createdAt
            /\ sent' = sent /\ connector' = connector
        BY <2>1 DEF tableVars
      <3>2. SentWasDelivered'
        BY <2>1, <3>1 DEF RowsSound, SentWasDelivered
      <3>3. FailedAfterRetries'
        BY <1>t, <2>1, <2>2, <3>1 DEF RowsSound, FailedAfterRetries, Grows, TypeOK
      <3>4. \A f \in Events : retries'[f] <= failures'[f]
        BY <1>t, <2>2, <3>1 DEF RowsSound, Grows, TypeOK
      <3> QED
        BY <3>1, <3>2, <3>3, <3>4 DEF RowsSound
    <2> QED
      BY <2>5, <2>6
  <1>7. ASSUME NEW p \in Publishers, NEW e \in Events, OutboxEventsMarkFailed(p, e)
        PROVE  RowsSound' /\ ExecutionsSound'
    <2> DEFINE x == [pub[p] EXCEPT !.pc = "loop", !.cur = {}, !.err = "none"]
    <2> DEFINE n == pub[p].seen[e] + 1
    <2>1. /\ e \in pub[p].cur /\ Continue(p, x)
          /\ UNCHANGED <<createdAt, sent, connector, delivered, failures, hard>>
      BY <1>7 DEF OutboxEventsMarkFailed, brokerVars
    <2>2. Grows
      BY <2>1 DEF Grows, TypeOK
    <2>3. x \in Execution
      BY <1>p DEF Execution, Errors
    <2>4. SoundWith(x, delivered', failures', hard', createdAt')
      <3>1. /\ x.ok = pub[p].ok /\ x.cur = {}
            /\ x.todo = pub[p].todo /\ x.seen = pub[p].seen
            /\ x.err = "none"
        BY <1>p DEF Execution
      <3> HIDE DEF x
      <3> QED
        BY <1>p, <2>1, <3>1 DEF SoundWith
    <2> HIDE DEF x
    <2>5. ExecutionsSound'
      BY <1>t, <2>1, <2>2, <2>3, <2>4, ContinueSound
    <2>6. RowsSound'
      <3>1. CASE row[e] = "absent"
        <4>1. UNCHANGED <<row, retries>>
          BY <1>7, <3>1 DEF OutboxEventsMarkFailed
        <4> QED
          BY <2>1, <4>1 DEF RowsSound, SentWasDelivered, FailedAfterRetries
      <3>2. CASE row[e] # "absent"
        <4>1. /\ row' = [row EXCEPT ![e] = FailedStatus(n, pub[p].err)]
              /\ retries' = [retries EXCEPT ![e] = n]
          BY <1>7, <3>2 DEF OutboxEventsMarkFailed
        <4>2. n \in Nat /\ n <= failures[e]
          BY <1>p, <2>1 DEF SoundWith, Execution, TypeOK
        <4>3. FailedStatus(n, pub[p].err) \in {"failed", "pending"}
          BY DEF FailedStatus
        <4>4. FailedStatus(n, pub[p].err) = "failed"
                => e \in hard \/ failures[e] >= MaxRetries
          <5>1. CASE pub[p].err = "nonRetryable"
            BY <1>p, <2>1, <5>1 DEF SoundWith
          <5>2. CASE n >= MaxRetries
            BY <4>2, <5>2 DEF TypeOK
          <5> QED
            BY <5>1, <5>2 DEF FailedStatus
        <4> HIDE DEF n
        <4>5. SentWasDelivered'
          BY <2>1, <4>1, <4>3 DEF RowsSound, SentWasDelivered, TypeOK
        <4>6. FailedAfterRetries'
          BY <2>1, <4>1, <4>3, <4>4 DEF RowsSound, FailedAfterRetries, TypeOK
        <4>7. \A f \in Events : retries'[f] <= failures'[f]
          BY <2>1, <4>1, <4>2 DEF RowsSound, TypeOK
        <4>8. \A f \in Events :
                /\ row'[f] # "absent" => createdAt'[f] > 0
                /\ createdAt'[f] > 0 /\ row'[f] = "absent" =>
                     f \in sent' \/ (f \in ConnectorEvents /\ connector' = "removed")
          BY <2>1, <3>2, <4>1, <4>3 DEF RowsSound, TypeOK
        <4> QED
          BY <4>5, <4>6, <4>7, <4>8 DEF RowsSound
      <3> QED
        BY <3>1, <3>2
    <2> QED
      BY <2>5, <2>6
  <1>8. ASSUME NEW p \in Publishers, OutboxEventsMarkProcessedAndRecordSent(p)
        PROVE  RowsSound' /\ ExecutionsSound'
    <2>1. /\ pub' = [pub EXCEPT ![p] = Idle]
          /\ UNCHANGED <<retries, createdAt, connector, delivered, failures, hard>>
      BY <1>8 DEF OutboxEventsMarkProcessedAndRecordSent, brokerVars
    <2>2. Grows
      BY <2>1 DEF Grows, TypeOK
    <2>3. ExecutionsSound'
      BY <1>i, <1>t, <2>1, <2>2, OneExecution
    <2>4. RowsSound'
      <3>1. CASE UNCHANGED <<row, sent>>
        BY <2>1, <3>1 DEF RowsSound, SentWasDelivered, FailedAfterRetries
      <3>2. CASE /\ row' = [e \in Events |-> IF e \in pub[p].ok /\ row[e] # "absent"
                                               THEN "processed" ELSE row[e]]
                 /\ sent' = sent \cup pub[p].ok
        <4>1. pub[p].ok \subseteq delivered
          BY <1>p DEF SoundWith
        <4> QED
          BY <2>1, <3>2, <4>1
             DEF RowsSound, SentWasDelivered, FailedAfterRetries, TypeOK
      <3> QED
        BY <1>8, <3>1, <3>2 DEF OutboxEventsMarkProcessedAndRecordSent
    <2> QED
      BY <2>3, <2>4
  <1>9. ASSUME NEW p \in Publishers, Timeout(p)
        PROVE  RowsSound' /\ ExecutionsSound'
    <2> DEFINE x == [pub[p] EXCEPT !.mode = "late"]
    <2>1. /\ pub' = [pub EXCEPT ![p] = x]
          /\ UNCHANGED <<tableVars, brokerVars>>
      BY <1>9 DEF Timeout, TypeOK
    <2>2. Grows
      BY <2>1 DEF Grows, tableVars, brokerVars, TypeOK
    <2>3. x \in Execution
      BY <1>p DEF Execution
    <2>4. SoundWith(x, delivered', failures', hard', createdAt')
      <3>1. /\ x.ok = pub[p].ok /\ x.cur = pub[p].cur
            /\ x.todo = pub[p].todo /\ x.seen = pub[p].seen
            /\ x.err = pub[p].err
        BY <1>p DEF Execution
      <3> HIDE DEF x
      <3> QED
        BY <1>p, <2>1, <3>1 DEF SoundWith, tableVars, brokerVars
    <2> HIDE DEF x
    <2>5. ExecutionsSound'
      BY <1>t, <2>1, <2>2, <2>3, <2>4, OneExecution
    <2>6. RowsSound'
      BY <2>1, <2>2, RowsUnchanged DEF brokerVars
    <2> QED
      BY <2>5, <2>6
  <1>10. ASSUME NEW p \in Publishers, Abort(p)
         PROVE  RowsSound' /\ ExecutionsSound'
    <2>1. pub' = [pub EXCEPT ![p] = Idle] /\ UNCHANGED <<tableVars, brokerVars>>
      BY <1>10 DEF Abort
    <2>2. Grows
      BY <2>1 DEF Grows, tableVars, brokerVars, TypeOK
    <2>3. ExecutionsSound'
      BY <1>i, <1>t, <2>1, <2>2, OneExecution
    <2>4. RowsSound'
      BY <2>1, <2>2, RowsUnchanged DEF brokerVars
    <2> QED
      BY <2>3, <2>4
  <1>11. CASE UNCHANGED vars
    <2>1. Grows
      BY <1>11 DEF vars, tableVars, brokerVars, Grows, TypeOK
    <2>2. RowsSound'
      BY <1>11, <2>1, RowsUnchanged DEF vars, brokerVars
    <2>3. ExecutionsSound'
      BY <1>11 DEF vars, tableVars, brokerVars, ExecutionsSound
    <2> QED
      BY <2>2, <2>3
  <1> QED
    BY <1>1, <1>2, <1>3, <1>4, <1>5, <1>6, <1>7, <1>8, <1>9, <1>10, <1>11
       DEF Next, PublisherStep

LEMMA InvImplies == OutboxInv => SentWasDelivered /\ FailedAfterRetries /\ NothingLost
  BY DEF OutboxInv, SentWasDelivered, FailedAfterRetries, NothingLost

\* The invariant holds in every behaviour, for every number of events, publishers
\* and retries, whatever timeouts, crashes, late calls and uninstallations do.
LEMMA OutboxAlways == Spec => [](TypeOK /\ OutboxInv)
  <1>1. Init => TypeOK /\ OutboxInv
    BY InitTypeOK, InitInv
  <1>2. TypeOK /\ OutboxInv /\ [Next]_vars => (TypeOK /\ OutboxInv)'
    BY NextTypeOK, NextInv
  <1> QED
    BY <1>1, <1>2, PTL DEF Spec

\* An event recorded as sent, and a row marked processed, was received by the
\* broker.
THEOREM SentEventsWereDelivered == Spec => []SentWasDelivered
  BY OutboxAlways, InvImplies, PTL

\* An event that was accepted and has no row any more was delivered, or went
\* with its connector.
THEOREM NoEventIsLost == Spec => []NothingLost
  BY OutboxAlways, InvImplies, PTL

\* An event is given up only after MaxRetries failing publications or one that
\* cannot be repeated, also when two executions count with stale numbers.
THEOREM GivenUpAfterRetries == Spec => []FailedAfterRetries
  BY OutboxAlways, InvImplies, PTL

-----------------------------------------------------------------------------
(* The refinement.                                                         *)

Accepted == {e \in Events : createdAt[e] > 0}
GivenUp == {e \in Events : row[e] = "failed"}


LEMMA RefineInit == Init => Promise!Init
  BY DEF Init, Promise!Init, Pending

\* Every step of the outbox is a step of EventDelivery or changes nothing of it.
LEMMA RefineNext ==
    TypeOK /\ OutboxInv /\ [Next]_vars => [Promise!Next]_(Promise!vars)
  <1> SUFFICES ASSUME TypeOK, OutboxInv, [Next]_vars
               PROVE  [Promise!Next]_(Promise!vars)
    OBVIOUS
  <1> USE OutboxAssumption
  <1>s. ASSUME UNCHANGED <<createdAt, row, connector, delivered>>
        PROVE  UNCHANGED Promise!vars
    BY <1>s DEF Promise!vars, Pending
  <1>1. ASSUME NEW e \in Events, OutboxEventsInsert(e) PROVE Promise!Accept(e)
    <2>1. /\ row[e] = "absent" /\ e \notin sent
          /\ e \in ConnectorEvents => connector = "installed"
          /\ row' = [row EXCEPT ![e] = "pending"]
          /\ createdAt' = [createdAt EXCEPT ![e] = clock + 1]
          /\ UNCHANGED <<connector, delivered>>
      BY <1>1 DEF OutboxEventsInsert, brokerVars
    <2>2. ~(createdAt[e] > 0)
      BY <2>1 DEF OutboxInv, TypeOK
    <2>3. Accepted' = Accepted \cup {e}
      BY <2>1 DEF Accepted, TypeOK
    <2>4. Pending' = Pending \cup {e}
      BY <2>1 DEF Pending, TypeOK
    <2>5. GivenUp' = GivenUp
      BY <2>1 DEF GivenUp, TypeOK
    <2> QED
      BY <2>1, <2>2, <2>3, <2>4, <2>5 DEF Promise!Accept, Accepted, GivenUp
  <1>2. ASSUME NEW e \in Events, OutboxEventsDeleteOldProcessed(e)
        PROVE  UNCHANGED Promise!vars
    <2>1. /\ row[e] = "processed" /\ row' = [row EXCEPT ![e] = "absent"]
          /\ UNCHANGED <<createdAt, connector, delivered>>
      BY <1>2 DEF OutboxEventsDeleteOldProcessed, brokerVars
    <2>2. Pending' = Pending /\ GivenUp' = GivenUp
      BY <2>1 DEF Pending, GivenUp, TypeOK
    <2> QED
      BY <2>1, <2>2 DEF Promise!vars, GivenUp
  <1>3. CASE ConnectorUninstall
    <2>1. /\ row' = [e \in Events |-> IF e \in ConnectorEvents THEN "absent" ELSE row[e]]
          /\ connector' = "removed"
          /\ UNCHANGED <<createdAt, delivered>>
      BY <1>3 DEF ConnectorUninstall, brokerVars
    <2>2. Pending' = Pending \ ConnectorEvents /\ GivenUp' = GivenUp \ ConnectorEvents
      BY <2>1 DEF Pending, GivenUp, TypeOK
    <2>3. Promise!Remove
      BY <2>1, <2>2 DEF Promise!Remove, GivenUp
    <2> QED
      BY <2>3 DEF Promise!Next
  <1>4. ASSUME NEW p \in Publishers, OutboxEventsPollPending(p)
        PROVE  UNCHANGED Promise!vars
    BY <1>4, <1>s DEF OutboxEventsPollPending, tableVars, brokerVars
  <1>d. ASSUME NEW e \in Events, createdAt[e] > 0, UNCHANGED tableVars,
               delivered' = delivered \cup {e}
        PROVE  Promise!Deliver(e)
    BY <1>d DEF Promise!Deliver, tableVars, Pending
  <1>e. ASSUME NEW p \in Publishers, NEW e \in pub[p].todo \cup pub[p].cur
        PROVE  createdAt[e] > 0
    BY DEF OutboxInv, ExecutionsSound
  <1>5. ASSUME NEW p \in Publishers, NEW e \in Events, PublishOk(p, e)
        PROVE  Promise!Deliver(e)
    BY <1>5, <1>d, <1>e DEF PublishOk, IsNext
  <1>6. ASSUME NEW p \in Publishers, NEW e \in Events,
               NEW err \in Errors \ {"none"}, NEW reached \in BOOLEAN,
               PublishError(p, e, err, reached)
        PROVE  Promise!Deliver(e) \/ UNCHANGED Promise!vars
    <2>1. UNCHANGED tableVars /\ createdAt[e] > 0
      BY <1>6, <1>e DEF PublishError, IsNext
    <2>2. delivered' = delivered \cup {e} \/ delivered' = delivered
      BY <1>6 DEF PublishError
    <2> QED
      BY <1>d, <1>s, <2>1, <2>2 DEF tableVars
  <1>7. ASSUME NEW p \in Publishers, NEW e \in Events, OutboxEventsMarkFailed(p, e)
        PROVE  Promise!GiveUp(e) \/ Promise!Reopen(e) \/ UNCHANGED Promise!vars
    <2>1. UNCHANGED <<createdAt, connector, delivered>>
      BY <1>7 DEF OutboxEventsMarkFailed, brokerVars
    <2>2. createdAt[e] > 0
      BY <1>7, <1>e DEF OutboxEventsMarkFailed
    <2>3. CASE row' = row
      BY <1>s, <2>1, <2>3
    <2>4. CASE row' = [row EXCEPT ![e] = "failed"]
      <3>1. Pending' = Pending \ {e} /\ GivenUp' = GivenUp \cup {e}
        BY <2>4 DEF Pending, GivenUp, TypeOK
      <3> QED
        BY <2>1, <2>2, <3>1 DEF Promise!GiveUp, GivenUp
    <2>5. CASE row' = [row EXCEPT ![e] = "pending"]
      <3>1. Pending' = Pending \cup {e} /\ GivenUp' = GivenUp \ {e}
        BY <2>5 DEF Pending, GivenUp, TypeOK
      <3> QED
        BY <2>1, <2>2, <3>1 DEF Promise!Reopen, GivenUp
    <2> QED
      BY <1>7, <2>3, <2>4, <2>5 DEF OutboxEventsMarkFailed, FailedStatus
  <1>8. ASSUME NEW p \in Publishers, OutboxEventsMarkProcessedAndRecordSent(p)
        PROVE  Promise!Settle(pub[p].ok) \/ UNCHANGED Promise!vars
    <2>1. UNCHANGED <<createdAt, connector, delivered>>
      BY <1>8 DEF OutboxEventsMarkProcessedAndRecordSent, brokerVars
    <2>2. CASE row' = row
      BY <1>s, <2>1, <2>2
    <2>3. CASE row' = [e \in Events |-> IF e \in pub[p].ok /\ row[e] # "absent"
                                          THEN "processed" ELSE row[e]]
      <3>1. Pending' = Pending \ pub[p].ok /\ GivenUp' = GivenUp \ pub[p].ok
        BY <2>3 DEF Pending, GivenUp, TypeOK
      <3>2. pub[p].ok \subseteq delivered
        BY DEF OutboxInv, ExecutionsSound
      <3> QED
        BY <2>1, <3>1, <3>2 DEF Promise!Settle, GivenUp
    <2> QED
      BY <1>8, <2>2, <2>3 DEF OutboxEventsMarkProcessedAndRecordSent
  <1>9. ASSUME NEW p \in Publishers, Timeout(p) \/ Abort(p)
        PROVE  UNCHANGED Promise!vars
    BY <1>9, <1>s DEF Timeout, Abort, tableVars, brokerVars
  <1>10. CASE UNCHANGED vars
    BY <1>10, <1>s DEF vars, tableVars, brokerVars
  <1>11. ASSUME NEW p \in Publishers PROVE pub[p].ok \in SUBSET Events
    BY DEF TypeOK, Execution
  <1>12. ASSUME NEW e \in Events,
                Promise!Accept(e) \/ Promise!Deliver(e) \/ Promise!GiveUp(e)
                  \/ Promise!Reopen(e)
         PROVE  Promise!Next
    BY <1>12 DEF Promise!Next
  <1>13. ASSUME NEW p \in Publishers, OutboxEventsMarkProcessedAndRecordSent(p)
         PROVE  [Promise!Next]_(Promise!vars)
    <2>1. CASE UNCHANGED Promise!vars
      BY <2>1
    <2>2. CASE Promise!Settle(pub[p].ok)
      BY <1>11, <2>2 DEF Promise!Next, Promise!Settle
    <2> QED
      BY <1>8, <1>13, <2>1, <2>2
  <1>14. ASSUME NEW p \in Publishers, PublisherStep(p)
         PROVE  [Promise!Next]_(Promise!vars)
    <2>1. CASE OutboxEventsPollPending(p)
      BY <1>4, <2>1
    <2>2. ASSUME NEW e \in Events, PublishOk(p, e)
          PROVE  [Promise!Next]_(Promise!vars)
      BY <1>5, <1>12, <2>2
    <2>3. ASSUME NEW e \in Events, NEW err \in Errors \ {"none"},
                 NEW reached \in BOOLEAN, PublishError(p, e, err, reached)
          PROVE  [Promise!Next]_(Promise!vars)
      BY <1>6, <1>12, <2>3
    <2>4. ASSUME NEW e \in Events, OutboxEventsMarkFailed(p, e)
          PROVE  [Promise!Next]_(Promise!vars)
      BY <1>7, <1>12, <2>4
    <2> QED
      BY <1>13, <1>14, <2>1, <2>2, <2>3, <2>4 DEF PublisherStep
  <1>15. ASSUME NEW e \in Events,
                OutboxEventsInsert(e) \/ OutboxEventsDeleteOldProcessed(e)
         PROVE  [Promise!Next]_(Promise!vars)
    BY <1>1, <1>2, <1>12, <1>15
  <1> QED
    BY <1>3, <1>9, <1>10, <1>14, <1>15 DEF Next

\* The outbox implements EventDelivery, for every value of the constants: no
\* step of a publisher, late or not, lets a pending event disappear.
THEOREM OutboxImplementsEventDelivery == Spec => ImplementsEventDelivery
  BY OutboxAlways, RefineInit, RefineNext, PTL
     DEF Spec, ImplementsEventDelivery, Promise!Spec
=============================================================================
