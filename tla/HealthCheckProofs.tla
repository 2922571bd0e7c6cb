-------------------------- MODULE HealthCheckProofs --------------------------
(***************************************************************************)
(* For every set of schedules, error threshold and page size, any number   *)
(* of config updates and repeated activities: the health check is type     *)
(* correct, the table says which schedules Temporal has paused, and none   *)
(* is paused for a config that was replaced.                               *)
(***************************************************************************)
EXTENDS HealthCheck, SequenceTheorems, WellFoundedInduction, TLAPS

Run == [state : RunStates, at : 0 .. MaxUpdates]
CheckType ==
    [pc : {"idle", "list", "pause", "note"}, since : Nat, offset : Nat, more : BOOLEAN,
     page : SUBSET Schedules, todo : SUBSET Schedules]
UpdateType ==
    [pc : {"idle", "list", "unpause", "clear"}, page : SUBSET Schedules, todo : SUBSET Schedules]

Types ==
    /\ runs \in [Schedules -> Seq(Run)]
    /\ updatedAt \in 0 .. MaxUpdates
    /\ paused \subseteq Schedules /\ noted \subseteq Schedules
    /\ check \in CheckType /\ update \in UpdateType
    /\ retries \in Nat /\ disturbed \in BOOLEAN

\* Only the last rows are kept.
RunsBounded == \A s \in Schedules : Len(runs[s]) <= Threshold

\* The state of an activity says whether it has schedules to work on.
CheckShape ==
    /\ check.since <= updatedAt
    /\ check.todo \subseteq check.page
    /\ check.pc \in {"pause", "note"} <=> check.todo # {}
UpdateShape ==
    /\ update.todo \subseteq update.page
    /\ update.pc \in {"unpause", "clear"} <=> update.todo # {}

TypeInv == Types /\ RunsBounded /\ CheckShape /\ UpdateShape

-----------------------------------------------------------------------------

\* The last run of s is newer than the last update.
Current(s) == runs[s] # <<>> /\ Last(runs[s]).at = updatedAt

\* No run is newer than that.
NotAhead == \A s \in Schedules : runs[s] # <<>> => Last(runs[s]).at <= updatedAt

\* What a health check has paused and not noted is what it works on, as is what
\* an update has resumed and not cleared.
InStep ==
    /\ update.pc \in {"idle", "list"} /\ check.pc \in {"idle", "list"} => paused = noted
    /\ check.pc \in {"pause", "note"} => noted \subseteq paused /\ paused \ noted \subseteq check.todo
    /\ check.pc = "note" => Min(check.todo) \in paused
    /\ update.pc \in {"unpause", "clear"} => paused \subseteq noted /\ noted \subseteq update.todo
    /\ update.pc = "clear" => Min(update.todo) \notin paused

\* The health check and the update take turns; a health check knows of the last
\* update, and lets be the schedules that have not run since.
TakeTurns ==
    /\ check.pc = "idle" \/ update.pc = "idle"
    /\ check.pc # "idle" => check.since = updatedAt /\ \A s \in check.page : Current(s)
    /\ update.pc = "idle" => \A s \in paused : Current(s)

PauseInv == NotAhead /\ (~disturbed => InStep /\ TakeTurns)

-----------------------------------------------------------------------------

\* The least member of a non-empty set of schedules.
LEMMA MinMember ==
    ASSUME NEW S \in SUBSET Schedules, S # {}
    PROVE  Min(S) \in S
  <1>1. S \in SUBSET Nat
    BY HealthCheckAssumption
  <1>2. \E x \in S : \A y \in S : x =< y
    <2>1. IsWellFoundedOn(OpToRel(<, Nat), Nat)
      BY NatLessThanWellFounded
    <2>2. PICK x \in S : \A y \in S : ~(<<y, x>> \in OpToRel(<, Nat))
      BY <1>1, <2>1, WFMin
    <2>3. ASSUME NEW y \in S PROVE x =< y
      <3>1. ~(y < x)
        BY <1>1, <2>2 DEF OpToRel
      <3> QED
        BY <1>1, <3>1
    <2> QED
      BY <2>3
  <1> QED
    BY <1>2 DEF Min

-----------------------------------------------------------------------------
(* What the steps do to the rows of the runs.                              *)

\* A run that starts becomes the last row, with the time of the last update.
LEMMA StartedRun ==
    ASSUME TypeInv, NEW s \in Schedules, RunStart(s)
    PROVE  /\ runs' \in [Schedules -> Seq(Run)]
           /\ Len(runs'[s]) <= Threshold /\ runs'[s] # <<>>
           /\ Last(runs'[s]).at = updatedAt
           /\ \A t \in Schedules : t # s => runs'[t] = runs[t]
  <1> DEFINE new == [state |-> "running", at |-> updatedAt]
             all == Append(runs[s], new)
             kept == IF Len(all) > Threshold THEN Tail(all) ELSE all
  <1>1. new \in Run /\ runs[s] \in Seq(Run) /\ Len(runs[s]) <= Threshold
    BY DEF TypeInv, Types, RunsBounded, Run, RunStates
  <1>2. /\ all \in Seq(Run) /\ all # <<>> /\ Len(all) = Len(runs[s]) + 1
        /\ all[Len(all)] = new
    BY <1>1, AppendProperties
  <1>3. Threshold \in Nat \ {0} /\ Len(runs[s]) \in Nat
    BY <1>1, HealthCheckAssumption
  <1> HIDE DEF all, new
  <1>4. /\ Tail(all) \in Seq(Run) /\ Len(Tail(all)) = Len(all) - 1
        /\ \A i \in 1 .. Len(Tail(all)) : Tail(all)[i] = all[i + 1]
    BY <1>2, HeadTailProperties
  <1>5. kept \in Seq(Run) /\ Len(kept) <= Threshold /\ Len(kept) # 0 /\ kept[Len(kept)] = new
    <2>1. CASE Len(all) > Threshold
      <3>1. kept = Tail(all)
        BY <2>1
      <3>2. Len(kept) \in 1 .. Len(Tail(all)) /\ Len(kept) + 1 = Len(all) /\ Len(kept) <= Threshold
        BY <1>1, <1>2, <1>3, <1>4, <2>1, <3>1
      <3> QED
        BY <1>2, <1>4, <3>1, <3>2
    <2>2. CASE ~(Len(all) > Threshold)
      BY <1>1, <1>2, <1>3, <2>2
    <2> QED
      BY <2>1, <2>2
  <1>6. runs' = [runs EXCEPT ![s] = kept]
    BY DEF RunStart, all, new
  <1> HIDE DEF kept
  <1>7. runs'[s] = kept /\ \A t \in Schedules : t # s => runs'[t] = runs[t]
    BY <1>6 DEF TypeInv, Types
  <1>8. kept # <<>>
    BY <1>5, EmptySeq
  <1>9. Last(kept).at = updatedAt
    BY <1>5 DEF Last, new
  <1> QED
    BY <1>5, <1>6, <1>7, <1>8, <1>9 DEF TypeInv, Types

\* A run that ends or continues keeps its row and its time.
LEMMA EndedRun ==
    ASSUME TypeInv, NEW s \in Schedules, NEW state \in RunStates, InProgress(s), SetRun(s, state)
    PROVE  /\ runs' \in [Schedules -> Seq(Run)]
           /\ \A t \in Schedules : /\ Len(runs'[t]) = Len(runs[t])
                                   /\ runs'[t] # <<>> <=> runs[t] # <<>>
                                   /\ runs[t] # <<>> => Last(runs'[t]).at = Last(runs[t]).at
  <1> DEFINE n == Len(runs[s])
             ended == [runs[s] EXCEPT ![n] = [runs[s][n] EXCEPT !.state = state]]
  <1>1. runs[s] \in Seq(Run) /\ runs[s] # <<>>
    BY DEF TypeInv, Types, InProgress
  <1>2. n \in Nat \ {0} /\ n \in 1 .. Len(runs[s])
    BY <1>1, EmptySeq
  <1>3. runs[s][n] \in Run
    BY <1>1, <1>2, ElementOfSeq
  <1>4. [runs[s][n] EXCEPT !.state = state] \in Run
    BY <1>3 DEF Run
  <1>5. ended \in Seq(Run) /\ Len(ended) = n /\ ended[n] = [runs[s][n] EXCEPT !.state = state]
    BY <1>1, <1>2, <1>4, ExceptSeq
  <1>6. ended[n].at = runs[s][n].at
    BY <1>3, <1>5 DEF Run
  <1>7. runs' = [runs EXCEPT ![s] = ended]
    BY DEF SetRun
  <1> HIDE DEF ended
  <1>8. runs'[s] = ended /\ \A t \in Schedules : t # s => runs'[t] = runs[t]
    BY <1>7 DEF TypeInv, Types
  <1>9. ended # <<>>
    BY <1>2, <1>5, EmptySeq
  <1>10. Last(ended).at = Last(runs[s]).at
    BY <1>5, <1>6 DEF Last
  <1> QED
    BY <1>1, <1>5, <1>7, <1>8, <1>9, <1>10 DEF TypeInv, Types

LEMMA NoTypes == NoCheck \in CheckType /\ NoUpdate \in UpdateType
  <1>1. 0 \in Nat
    OBVIOUS
  <1>2. NoCheck \in CheckType
    BY <1>1, Zenon DEF NoCheck, CheckType
  <1>3. NoUpdate \in UpdateType
    BY DEF NoUpdate, UpdateType
  <1> QED
    BY <1>2, <1>3

\* What a health check does next, as far as the properties tell it apart.
LEMMA GoOnShape ==
    ASSUME NEW c \in CheckType, NEW left \in SUBSET c.page, NEW d, d = GoOn(left, c)
    PROVE  /\ d \in CheckType
           /\ d.todo = left /\ d.todo \subseteq d.page
           /\ d.pc \in {"pause", "note"} <=> left # {}
           /\ d.pc # "note"
           /\ d.pc # "idle" => d.since = c.since
           /\ d.since \in {0, c.since}
           /\ d.page \in {{}, c.page}
           /\ d.pc = "pause" => d.page = c.page
  <1>1. c.more \in BOOLEAN /\ left \in SUBSET Schedules
    BY DEF CheckType
  <1>2. CASE left # {}
    <2>1. d = [c EXCEPT !.pc = "pause", !.todo = left]
      BY <1>2 DEF GoOn
    <2> QED
      BY <1>1, <1>2, <2>1 DEF CheckType
  <1>3. CASE left = {} /\ c.more
    <2>1. d = [c EXCEPT !.pc = "list", !.page = {}, !.todo = {}]
      BY <1>3 DEF GoOn
    <2>2. left = {}
      BY <1>3
    <2> QED
      BY <2>1, <2>2 DEF CheckType
  <1>4. CASE left = {} /\ ~c.more
    <2>1. d = NoCheck
      BY <1>4 DEF GoOn
    <2>2. d.pc = "idle" /\ d.since = 0 /\ d.page = {} /\ d.todo = {}
      BY <2>1 DEF NoCheck
    <2>3. d \in CheckType
      BY <2>1, NoTypes
    <2> QED
      BY <1>4, <2>2, <2>3
  <1> QED
    BY <1>1, <1>2, <1>3, <1>4

-----------------------------------------------------------------------------
(* Types.                                                                  *)

LEMMA InitTypeInv == Init => TypeInv
  <1> SUFFICES ASSUME Init PROVE TypeInv
    OBVIOUS
  <1>1. runs \in [Schedules -> Seq(Run)] /\ updatedAt \in 0 .. MaxUpdates /\ retries \in Nat
    BY EmptySeq, HealthCheckAssumption DEF Init
  <1>2. Types
    BY <1>1, NoTypes DEF Init, Types
  <1>3. RunsBounded
    BY EmptySeq, HealthCheckAssumption DEF Init, RunsBounded
  <1> QED
    BY <1>2, <1>3 DEF Init, TypeInv, CheckShape, UpdateShape, NoCheck, NoUpdate

\* Rows of runs do not matter to the activities.
LEMMA RunsTypeInv ==
    ASSUME TypeInv, runs' \in [Schedules -> Seq(Run)], RunsBounded',
           UNCHANGED <<updatedAt, paused, noted, check, update, retries, disturbed>>
    PROVE  TypeInv'
  BY DEF TypeInv, Types, CheckShape, UpdateShape

LEMMA NextTypeInv == TypeInv /\ [Next]_vars => TypeInv'
  <1> SUFFICES ASSUME TypeInv, [Next]_vars PROVE TypeInv'
    OBVIOUS
  <1> USE HealthCheckAssumption
  <1>a. Types /\ check \in CheckType /\ update \in UpdateType
    BY DEF TypeInv, Types
  <1>b. CheckShape /\ UpdateShape /\ RunsBounded
    BY DEF TypeInv
  <1>c. updatedAt \in Nat /\ MaxUpdates \in Nat /\ updatedAt <= MaxUpdates
    BY <1>a DEF Types
  <1>1. ASSUME NEW s \in Schedules, RunStart(s) PROVE TypeInv'
    <2>1. RunsBounded'
      BY <1>1, <1>b, StartedRun DEF RunsBounded
    <2> QED
      BY <1>1, <2>1, StartedRun, RunsTypeInv DEF RunStart
  <1>2. ASSUME NEW s \in Schedules, NEW state \in RunStates, InProgress(s), SetRun(s, state)
        PROVE  TypeInv'
    <2>1. RunsBounded'
      BY <1>2, <1>b, EndedRun DEF RunsBounded
    <2> QED
      BY <1>2, <2>1, EndedRun, RunsTypeInv DEF SetRun
  <1>3. CASE CheckStart
    <2>1. check' \in CheckType
      BY <1>3, <1>c DEF CheckStart, NoCheck, CheckType
    <2>2. CheckShape'
      BY <1>3, <1>c DEF CheckStart, CheckShape, NoCheck
    <2>3. disturbed' \in BOOLEAN
      BY <1>3, <1>a DEF CheckStart, Types
    <2>4. Types'
      BY <1>3, <1>a, <2>1, <2>3 DEF CheckStart, Types
    <2> QED
      BY <1>3, <1>b, <2>2, <2>4 DEF CheckStart, TypeInv, UpdateShape, RunsBounded
  <1>4. CASE CheckList
    <2> DEFINE page == {s \in PageAt(check.offset) : Last(runs[s]).at >= check.since}
               c == [check EXCEPT !.offset = @ + PageSize, !.more = More, !.page = page]
    <2>1. page \subseteq Schedules /\ More \in BOOLEAN
      BY DEF PageAt, AboveThreshold, More
    <2>2. c \in CheckType /\ c.page = page /\ c.since = check.since
      <3>1. check.offset + PageSize \in Nat
        BY <1>a DEF CheckType
      <3> HIDE DEF page
      <3> QED
        BY <1>a, <2>1, <3>1 DEF CheckType
    <2>3. check' = GoOn(page, c)
      BY <1>4 DEF CheckList
    <2> HIDE DEF page, c
    <2>4. page \in SUBSET c.page
      BY <2>2
    <2>5. check' \in CheckType /\ CheckShape'
      <3>1. check'.since \in {0, check.since} /\ updatedAt' = updatedAt
        BY <1>4, <2>2, <2>3, <2>4, GoOnShape DEF CheckList
      <3>2. check'.since <= updatedAt
        BY <1>b, <1>c, <3>1 DEF CheckShape
      <3> QED
        BY <2>2, <2>3, <2>4, <3>1, <3>2, GoOnShape DEF CheckShape
    <2>6. Types'
      BY <1>4, <1>a, <2>5 DEF CheckList, Types
    <2> QED
      BY <1>4, <1>b, <2>5, <2>6 DEF CheckList, TypeInv, UpdateShape, RunsBounded
  <1>5. CASE PauseTemporal
    <2>1. check.todo # {} /\ Min(check.todo) \in Schedules
      BY <1>5, <1>a, <1>b, MinMember DEF PauseTemporal, CheckShape, CheckType
    <2>2. check' \in CheckType /\ CheckShape'
      BY <1>5, <1>a, <1>b, <2>1 DEF PauseTemporal, CheckShape, CheckType
    <2>3. Types'
      BY <1>5, <1>a, <2>1, <2>2 DEF PauseTemporal, Types
    <2> QED
      BY <1>5, <1>b, <2>2, <2>3 DEF PauseTemporal, TypeInv, UpdateShape, RunsBounded
  <1>6. CASE PauseRow
    <2> DEFINE left == check.todo \ {Min(check.todo)}
    <2>1. check.todo # {} /\ Min(check.todo) \in Schedules
      BY <1>6, <1>a, <1>b, MinMember DEF PauseRow, CheckShape, CheckType
    <2>2. left \in SUBSET check.page
      BY <1>b DEF CheckShape
    <2>3. check' = GoOn(left, check)
      BY <1>6 DEF PauseRow
    <2> HIDE DEF left
    <2>4. check' \in CheckType /\ CheckShape'
      <3>1. check'.since \in {0, check.since} /\ updatedAt' = updatedAt
        BY <1>6, <1>a, <2>2, <2>3, GoOnShape DEF PauseRow
      <3>2. check'.since <= updatedAt
        BY <1>b, <1>c, <3>1 DEF CheckShape
      <3> QED
        BY <1>a, <2>2, <2>3, <3>1, <3>2, GoOnShape DEF CheckShape
    <2>5. Types'
      BY <1>6, <1>a, <2>1, <2>4 DEF PauseRow, Types
    <2> QED
      BY <1>6, <1>b, <2>4, <2>5 DEF PauseRow, TypeInv, UpdateShape, RunsBounded
  <1>7. CASE PauseRetry
    <2>1. check' \in CheckType /\ CheckShape'
      BY <1>7, <1>a, <1>b DEF PauseRetry, CheckShape, CheckType
    <2>2. Types'
      BY <1>7, <1>a, <2>1 DEF PauseRetry, Types
    <2> QED
      BY <1>7, <1>b, <2>1, <2>2 DEF PauseRetry, TypeInv, UpdateShape, RunsBounded
  <1>8. ASSUME NEW started \in BOOLEAN, UpdateConnector(started) PROVE TypeInv'
    <2>1. update' \in UpdateType /\ UpdateShape'
      BY <1>8, <1>a, <1>b DEF UpdateConnector, UpdateShape, UpdateType, NoUpdate
    <2>2. updatedAt' \in 0 .. MaxUpdates /\ updatedAt <= updatedAt'
      BY <1>8, <1>c DEF UpdateConnector
    <2>3. disturbed' \in BOOLEAN
      BY <1>8, <1>a DEF UpdateConnector, Types
    <2>4. CheckShape'
      <3>1. check.since \in Nat
        BY <1>a DEF CheckType
      <3> QED
        BY <1>8, <1>b, <1>c, <2>2, <3>1 DEF UpdateConnector, CheckShape
    <2>5. Types'
      BY <1>8, <1>a, <2>1, <2>2, <2>3 DEF UpdateConnector, Types
    <2> QED
      BY <1>8, <1>b, <2>1, <2>4, <2>5 DEF UpdateConnector, TypeInv, RunsBounded
  <1>9. CASE UpdateList
    <2>1. update' \in UpdateType /\ UpdateShape'
      BY <1>9, <1>a DEF UpdateList, UpdateShape, UpdateType, Types
    <2>2. Types'
      BY <1>9, <1>a, <2>1 DEF UpdateList, Types
    <2> QED
      BY <1>9, <1>b, <2>1, <2>2 DEF UpdateList, TypeInv, CheckShape, RunsBounded
  <1>10. CASE UnpauseTemporal
    <2>1. update' \in UpdateType /\ UpdateShape'
      BY <1>10, <1>a, <1>b DEF UnpauseTemporal, UpdateShape, UpdateType
    <2>2. Types'
      BY <1>10, <1>a, <2>1 DEF UnpauseTemporal, Types
    <2> QED
      BY <1>10, <1>b, <2>1, <2>2 DEF UnpauseTemporal, TypeInv, CheckShape, RunsBounded
  <1>11. CASE UnpauseRow
    <2>1. update.todo # {} /\ Min(update.todo) \in update.todo
      BY <1>11, <1>a, <1>b, MinMember DEF UnpauseRow, UpdateShape, UpdateType
    <2>2. update' \in UpdateType /\ UpdateShape'
      <3>1. CASE update.todo = {Min(update.todo)}
        BY <1>11, <3>1 DEF UnpauseRow, UpdateShape, UpdateType, NoUpdate
      <3>2. CASE update.todo # {Min(update.todo)}
        <4>1. update.todo \ {Min(update.todo)} # {}
          BY <2>1, <3>2
        <4> QED
          BY <1>11, <1>a, <1>b, <3>2, <4>1 DEF UnpauseRow, UpdateShape, UpdateType
      <3> QED
        BY <3>1, <3>2
    <2>3. Types'
      BY <1>11, <1>a, <2>2 DEF UnpauseRow, Types
    <2> QED
      BY <1>11, <1>b, <2>2, <2>3 DEF UnpauseRow, TypeInv, CheckShape, RunsBounded
  <1>12. CASE UnpauseRetry
    <2>1. update' \in UpdateType /\ UpdateShape'
      BY <1>12, <1>a, <1>b DEF UnpauseRetry, UpdateShape, UpdateType
    <2>2. Types'
      BY <1>12, <1>a, <2>1 DEF UnpauseRetry, Types
    <2> QED
      BY <1>12, <1>b, <2>1, <2>2 DEF UnpauseRetry, TypeInv, CheckShape, RunsBounded
  <1>13. CASE UNCHANGED vars
    BY <1>13 DEF vars, TypeInv, Types, CheckShape, UpdateShape, RunsBounded
  <1> QED
    BY <1>1, <1>2, <1>3, <1>4, <1>5, <1>6, <1>7, <1>8, <1>9, <1>10, <1>11, <1>12, <1>13
       DEF Next, RunStep, RunEnd, RunContinue, CheckStep, UpdateStep, RunStates

LEMMA TypeInvImpliesTypeOK == TypeInv => TypeOK
  BY DEF TypeInv, Types, RunsBounded, CheckShape, UpdateShape, CheckType, UpdateType, TypeOK, Run

\* The health check is type correct, and an activity that pauses or resumes
\* schedules always has one to work on.
THEOREM HealthCheckTypeCorrect == Spec => []TypeOK
  BY InitTypeInv, NextTypeInv, TypeInvImpliesTypeOK, PTL DEF Spec

-----------------------------------------------------------------------------
(* The table and Temporal agree.                                           *)

LEMMA InitPauseInv == Init => PauseInv
  <1> SUFFICES ASSUME Init PROVE PauseInv
    OBVIOUS
  <1>1. check.pc = "idle" /\ update.pc = "idle" /\ paused = {} /\ noted = {}
    BY DEF Init, NoCheck, NoUpdate
  <1>2. InStep /\ TakeTurns
    BY <1>1 DEF InStep, TakeTurns
  <1> QED
    BY <1>2 DEF Init, PauseInv, NotAhead

\* A run that starts is current, one that ends stays as current as it was; the
\* activities do not look at runs.
LEMMA RunPauseInv ==
    ASSUME PauseInv, UNCHANGED <<updatedAt, paused, noted, check, update, disturbed>>,
           \A s \in Schedules : Current(s) => Current(s)', NotAhead',
           check.page \subseteq Schedules, paused \subseteq Schedules
    PROVE  PauseInv'
  BY DEF PauseInv, InStep, TakeTurns

LEMMA NextPauseInv == TypeInv /\ PauseInv /\ [Next]_vars => PauseInv'
  <1> SUFFICES ASSUME TypeInv, PauseInv, [Next]_vars PROVE PauseInv'
    OBVIOUS
  <1>a. Types /\ CheckShape /\ UpdateShape /\ NotAhead
    BY DEF TypeInv, PauseInv
  <1>b. check \in CheckType /\ update \in UpdateType /\ disturbed \in BOOLEAN
    BY <1>a DEF Types
  <1>c. /\ check.todo \in SUBSET Schedules /\ check.page \in SUBSET Schedules
        /\ update.todo \in SUBSET Schedules /\ paused \subseteq Schedules
        /\ updatedAt \in Nat /\ MaxUpdates \in Nat
    BY <1>a, <1>b, HealthCheckAssumption DEF CheckType, UpdateType, Types
  <1>d. ASSUME NEW s \in Schedules, runs[s] # <<>> PROVE Last(runs[s]).at \in Nat
    <2>1. Last(runs[s]) \in Run
      BY <1>a, <1>d, EmptySeq, ElementOfSeq DEF Types, Last
    <2> QED
      BY <1>c, <2>1 DEF Run
  <1>e. ASSUME ~disturbed PROVE InStep /\ TakeTurns
    BY <1>e DEF PauseInv
  <1>1. ASSUME NEW s \in Schedules, RunStart(s) PROVE PauseInv'
    <2>1. NotAhead' /\ \A t \in Schedules : Current(t) => Current(t)'
      <3>1. updatedAt' = updatedAt
        BY <1>1 DEF RunStart
      <3>2. /\ runs'[s] # <<>> /\ Last(runs'[s]).at = updatedAt
            /\ \A t \in Schedules : t # s => runs'[t] = runs[t]
        BY <1>1, StartedRun
      <3> QED
        BY <1>a, <1>c, <3>1, <3>2 DEF NotAhead, Current
    <2> QED
      BY <1>1, <1>c, <2>1, RunPauseInv DEF RunStart
  <1>2. ASSUME NEW s \in Schedules, NEW state \in RunStates, InProgress(s), SetRun(s, state)
        PROVE  PauseInv'
    <2>1. NotAhead' /\ \A t \in Schedules : Current(t) => Current(t)'
      BY <1>2, <1>a, EndedRun DEF SetRun, NotAhead, Current
    <2> QED
      BY <1>2, <1>c, <2>1, RunPauseInv DEF SetRun
  <1>3. CASE CheckStart
    <2>1. check' = [NoCheck EXCEPT !.pc = "list", !.since = updatedAt] /\ check.pc = "idle"
      BY <1>3 DEF CheckStart
    <2>2. check'.pc = "list" /\ check'.since = updatedAt /\ check'.page = {}
      BY <2>1 DEF NoCheck
    <2>3. NotAhead'
      BY <1>3, <1>a DEF CheckStart, NotAhead
    <2>4. ASSUME ~disturbed' PROVE ~disturbed /\ update.pc = "idle"
      BY <1>3, <1>b, <2>4 DEF CheckStart
    <2>5. ASSUME ~disturbed' PROVE InStep' /\ TakeTurns'
      BY <1>3, <1>e, <2>1, <2>2, <2>4, <2>5 DEF CheckStart, InStep, TakeTurns, Current
    <2> QED
      BY <2>3, <2>5 DEF PauseInv
  <1>4. CASE CheckList
    <2> DEFINE page == {s \in PageAt(check.offset) : Last(runs[s]).at >= check.since}
               c == [check EXCEPT !.offset = @ + PageSize, !.more = More, !.page = page]
    <2>1. page \subseteq Schedules /\ More \in BOOLEAN
      BY DEF PageAt, AboveThreshold, More
    <2>2. c \in CheckType /\ c.page = page /\ c.since = check.since
      <3>1. check.offset + PageSize \in Nat
        BY <1>b, HealthCheckAssumption DEF CheckType
      <3> HIDE DEF page
      <3> QED
        BY <1>b, <2>1, <3>1 DEF CheckType
    <2>3. check' = GoOn(page, c)
      BY <1>4 DEF CheckList
    <2>4. ASSUME ~disturbed, NEW s \in page PROVE Current(s)
      <3>1. s \in Schedules /\ Len(runs[s]) = Threshold /\ Last(runs[s]).at >= check.since
        BY DEF PageAt, AboveThreshold
      <3>2. runs[s] # <<>>
        BY <3>1, EmptySeq, HealthCheckAssumption
      <3>3. check.since = updatedAt
        BY <1>4, <1>e, <2>4 DEF CheckList, TakeTurns
      <3> QED
        BY <1>a, <1>c, <1>d, <3>1, <3>2, <3>3 DEF NotAhead, Current
    <2> HIDE DEF page, c
    <2>5. /\ check'.todo = page /\ check'.page \in {{}, page}
          /\ check'.pc # "note" /\ (check'.pc = "pause" <=> page # {})
          /\ check'.pc # "idle" => check'.since = check.since
          /\ check'.pc \in {"idle", "list", "pause", "note"}
      BY <2>2, <2>3, GoOnShape DEF CheckType
    <2>6. ASSUME ~disturbed PROVE InStep' /\ TakeTurns'
      <3>1. /\ update.pc = "idle" /\ check.pc = "list" /\ paused = noted
            /\ check.since = updatedAt /\ \A s \in paused : Current(s)
        BY <1>4, <1>e, <2>6 DEF CheckList, InStep, TakeTurns
      <3>2. UNCHANGED <<runs, updatedAt, paused, noted, update>>
        BY <1>4 DEF CheckList
      <3>3. InStep'
        BY <2>5, <3>1, <3>2 DEF InStep
      <3>4. \A s \in check'.page : Current(s)'
        BY <2>4, <2>5, <2>6, <3>2 DEF Current
      <3> QED
        BY <2>5, <3>1, <3>2, <3>3, <3>4 DEF TakeTurns, Current
    <2> QED
      BY <1>4, <1>a, <2>6 DEF CheckList, PauseInv, NotAhead
  <1>5. CASE PauseTemporal
    <2>1. Min(check.todo) \in check.todo /\ check.todo \subseteq check.page
      BY <1>5, <1>a, <1>c, MinMember DEF PauseTemporal, CheckShape
    <2>2. /\ check'.pc = "note" /\ check'.todo = check.todo /\ check'.page = check.page
          /\ check'.since = check.since
      BY <1>5, <1>b DEF PauseTemporal, CheckType
    <2>3. ASSUME ~disturbed PROVE InStep' /\ TakeTurns'
      BY <1>5, <1>e, <2>1, <2>2, <2>3 DEF PauseTemporal, InStep, TakeTurns, Current
    <2> QED
      BY <1>5, <1>a, <2>3 DEF PauseTemporal, PauseInv, NotAhead
  <1>6. CASE PauseRow
    <2> DEFINE left == check.todo \ {Min(check.todo)}
    <2>1. Min(check.todo) \in check.todo /\ check.todo \subseteq check.page
      BY <1>6, <1>a, <1>c, MinMember DEF PauseRow, CheckShape
    <2>2. left \in SUBSET check.page /\ check' = GoOn(left, check)
      BY <1>6, <2>1 DEF PauseRow
    <2> HIDE DEF left
    <2>3. /\ check'.todo = left /\ check'.page \in {{}, check.page}
          /\ check'.pc # "note" /\ (check'.pc = "pause" <=> left # {})
          /\ check'.pc # "idle" => check'.since = check.since
          /\ check'.pc \in {"idle", "list", "pause", "note"}
      BY <1>b, <2>2, GoOnShape DEF CheckType
    <2>4. ASSUME ~disturbed PROVE InStep' /\ TakeTurns'
      <3>1. /\ update.pc = "idle" /\ check.pc = "note" /\ check.since = updatedAt
            /\ noted \subseteq paused /\ paused \ noted \subseteq check.todo
            /\ Min(check.todo) \in paused
        BY <1>6, <1>e, <2>4 DEF PauseRow, InStep, TakeTurns
      <3>2. /\ UNCHANGED <<runs, updatedAt, paused, update>>
            /\ noted' = noted \cup {Min(check.todo)}
        BY <1>6 DEF PauseRow
      <3>3. noted' \subseteq paused /\ paused \ noted' \subseteq left
        BY <3>1, <3>2 DEF left
      <3>4. InStep'
        BY <2>3, <3>1, <3>2, <3>3 DEF InStep
      <3>5. (\A s \in check.page : Current(s)) /\ \A s \in paused : Current(s)
        BY <1>e, <2>4, <3>1 DEF TakeTurns
      <3> QED
        BY <2>3, <3>1, <3>2, <3>4, <3>5 DEF TakeTurns, Current
    <2> QED
      BY <1>6, <1>a, <2>4 DEF PauseRow, PauseInv, NotAhead
  <1>7. CASE PauseRetry
    <2>1. /\ check'.pc = "pause" /\ check'.todo = check.page /\ check'.page = check.page
          /\ check'.since = check.since
      BY <1>7, <1>b DEF PauseRetry, CheckType
    <2>2. ASSUME ~disturbed PROVE InStep' /\ TakeTurns'
      BY <1>7, <1>a, <1>e, <2>1, <2>2 DEF PauseRetry, InStep, TakeTurns, Current, CheckShape
    <2> QED
      BY <1>7, <1>a, <2>2 DEF PauseRetry, PauseInv, NotAhead
  <1>8. ASSUME NEW started \in BOOLEAN, UpdateConnector(started) PROVE PauseInv'
    <2>1. updatedAt' = updatedAt + 1 /\ UNCHANGED runs
      BY <1>8 DEF UpdateConnector
    <2>2. NotAhead'
      BY <1>a, <1>c, <1>d, <2>1 DEF NotAhead
    <2>3. ASSUME ~disturbed'
          PROVE  ~disturbed /\ started /\ check.pc = "idle" /\ update.pc = "idle"
      BY <1>8, <1>b, <2>3 DEF UpdateConnector
    <2>4. ASSUME ~disturbed' PROVE InStep' /\ TakeTurns'
      <3>1. update'.pc = "list" /\ UNCHANGED <<paused, noted, check>>
        BY <1>8, <2>3, <2>4 DEF UpdateConnector, NoUpdate
      <3> QED
        BY <1>e, <2>3, <2>4, <3>1 DEF InStep, TakeTurns
    <2> QED
      BY <2>2, <2>4 DEF PauseInv
  <1>9. CASE UpdateList
    <2>1. update'.pc = (IF noted # {} THEN "unpause" ELSE "idle") /\ update'.todo = noted
      BY <1>9 DEF UpdateList
    <2>2. ASSUME ~disturbed PROVE InStep' /\ TakeTurns'
      BY <1>9, <1>e, <2>1, <2>2 DEF UpdateList, InStep, TakeTurns, Current
    <2> QED
      BY <1>9, <1>a, <2>2 DEF UpdateList, PauseInv, NotAhead
  <1>10. CASE UnpauseTemporal
    <2>1. update'.pc = "clear" /\ update'.todo = update.todo
      BY <1>10, <1>b DEF UnpauseTemporal, UpdateType
    <2>2. ASSUME ~disturbed PROVE InStep' /\ TakeTurns'
      BY <1>10, <1>e, <2>1, <2>2 DEF UnpauseTemporal, InStep, TakeTurns, Current
    <2> QED
      BY <1>10, <1>a, <2>2 DEF UnpauseTemporal, PauseInv, NotAhead
  <1>11. CASE UnpauseRow
    <2>1. ASSUME ~disturbed PROVE InStep' /\ TakeTurns'
      <3>1. /\ check.pc = "idle" /\ update.pc = "clear" /\ paused \subseteq noted
            /\ noted \subseteq update.todo /\ Min(update.todo) \notin paused
        BY <1>11, <1>e, <2>1 DEF UnpauseRow, InStep, TakeTurns
      <3>2. /\ UNCHANGED <<runs, updatedAt, paused, check>>
            /\ noted' = noted \ {Min(update.todo)}
        BY <1>11 DEF UnpauseRow
      <3>3. CASE update.todo = {Min(update.todo)}
        <4>1. update'.pc = "idle" /\ noted' = {} /\ paused = {}
          BY <1>11, <3>1, <3>2, <3>3 DEF UnpauseRow, NoUpdate
        <4> QED
          BY <3>1, <3>2, <4>1 DEF InStep, TakeTurns
      <3>4. CASE update.todo # {Min(update.todo)}
        <4>1. update'.pc = "unpause" /\ update'.todo = update.todo \ {Min(update.todo)}
          BY <1>11, <1>b, <3>4 DEF UnpauseRow, UpdateType
        <4> QED
          BY <3>1, <3>2, <4>1 DEF InStep, TakeTurns
      <3> QED
        BY <3>3, <3>4
    <2> QED
      BY <1>11, <1>a, <2>1 DEF UnpauseRow, PauseInv, NotAhead
  <1>12. CASE UnpauseRetry
    <2>1. update'.pc = "unpause" /\ update'.todo = update.page
      BY <1>12, <1>b DEF UnpauseRetry, UpdateType
    <2>2. ASSUME ~disturbed PROVE InStep' /\ TakeTurns'
      BY <1>12, <1>a, <1>e, <2>1, <2>2 DEF UnpauseRetry, InStep, TakeTurns, Current, UpdateShape
    <2> QED
      BY <1>12, <1>a, <2>2 DEF UnpauseRetry, PauseInv, NotAhead
  <1>13. CASE UNCHANGED vars
    BY <1>13, <1>c, RunPauseInv DEF vars, PauseInv, NotAhead, Current
  <1> QED
    BY <1>1, <1>2, <1>3, <1>4, <1>5, <1>6, <1>7, <1>8, <1>9, <1>10, <1>11, <1>12, <1>13
       DEF Next, RunStep, RunEnd, RunContinue, CheckStep, UpdateStep, RunStates

\* When neither a health check nor an update is at work, the table says which
\* schedules Temporal has paused, however often their activities were repeated.
THEOREM PausedSchedulesAreRecorded == Spec => []PausedIsRecorded
  <1>1. PauseInv => PausedIsRecorded
    BY DEF PauseInv, InStep, PausedIsRecorded, Quiet
  <1> QED
    BY <1>1, InitTypeInv, NextTypeInv, InitPauseInv, NextPauseInv, PTL DEF Spec

\* A schedule stays paused only for the config that the connector has now.
THEOREM PausedSchedulesRanWithThisConfig == Spec => []PausedForThisConfig
  <1>1. PauseInv => PausedForThisConfig
    BY DEF PauseInv, TakeTurns, Current, PausedForThisConfig, Quiet
  <1> QED
    BY <1>1, InitTypeInv, NextTypeInv, InitPauseInv, NextPauseInv, PTL DEF Spec

=============================================================================
