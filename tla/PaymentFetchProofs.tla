------------------------- MODULE PaymentFetchProofs -------------------------
(***************************************************************************)
(* Proofs about PaymentFetch, for every page size, history and number of   *)
(* records, errors and timeouts: the types, that the saved state never     *)
(* runs ahead of what is stored, that records arrive after the payment     *)
(* they belong to, that the derived status is the current one, and that    *)
(* every amount is the net of the stored reports.                          *)
(***************************************************************************)
EXTENDS PaymentFetch, PaymentsProofs, FiniteSetTheorems, FunctionTheorems

RecordType == [root : Nat, status : ReportStatuses, amount : Int, created : Nat, updated : Nat]
StateType == [from : Nat, latest : Nat, backlog : Nat]
EntryType == [report : ReportType, at : Nat]
WorkflowType ==
    [pc : {"idle", "start", "fetch", "list", "store", "save"},
     old : StateType, work : StateType, acc : Seq(EntryType),
     page : Nat \ {0}, batch : Seq(ReportType), more : BOOLEAN]

\* No date and no cursor of s is ahead of the PSP.
WithinPsp(s) == s.from <= clock /\ s.latest <= Len(psp) /\ s.backlog <= Len(psp)

-----------------------------------------------------------------------------
(* The inductive invariant.                                                *)

Types ==
    /\ plugin \in Plugins
    /\ psp \in Seq(RecordType) /\ Len(psp) <= MaxTransactions
    /\ clock \in Nat
    /\ state \in StateType /\ WithinPsp(state)
    /\ TablesOK(tables)
    /\ wf \in WorkflowType /\ WithinPsp(wf.old) /\ WithinPsp(wf.work)
    /\ Len(wf.batch) <= PageSize
    /\ \A k \in DOMAIN wf.acc : wf.acc[k].at <= clock
    /\ plugin = "stripe" => Len(wf.acc) <= 1
    /\ late \in SUBSET Seq(ReportType)
    /\ errors \in 0..MaxErrors
    /\ disturbed \in BOOLEAN

\* The records of the PSP: a record belongs to a settled payment, and while nothing
\* disturbed them their dates are all different.
Records ==
    /\ \A i \in DOMAIN psp :
         /\ psp[i].root \in 1..i
         /\ psp[psp[i].root].root = psp[i].root
         /\ psp[i].root # i => psp[psp[i].root].status # "PENDING"
         /\ psp[i].updated \in 1..clock /\ psp[i].created <= clock
         /\ plugin = "stripe" => psp[i].status # "PENDING"
    /\ ~disturbed =>
         /\ \A i, j \in DOMAIN psp : i < j => psp[i].created < psp[j].created
         /\ \A i, j \in DOMAIN psp : i # j => psp[i].updated # psp[j].updated
         /\ \A i \in DOMAIN psp : psp[i].root # i => psp[psp[i].root].updated < psp[i].updated

\* A fetch from state s does not ask for record i.
PassedBy(s, i) == IF plugin = "generic" THEN psp[i].updated <= s.from ELSE i <= s.latest

\* The tables hold what the PSP has reported, in an order that respects what
\* belongs to what, and at least what the saved state is past.
Tables ==
    /\ AmountsNetOf(tables)
    /\ UniqueIds(tables.adjs)
    /\ ~disturbed =>
         /\ \A k \in DOMAIN tables.adjs :
              LET a == tables.adjs[k]
              IN  /\ a.ref \in DOMAIN psp
                  /\ a.root = psp[a.ref].root /\ a.created = psp[a.ref].created
                  /\ a.status \in {psp[a.ref].status, "PENDING"}
         /\ \A k, l \in DOMAIN tables.adjs :
              k < l /\ tables.adjs[k].ref = tables.adjs[l].ref
                 => tables.adjs[k].status = "PENDING"
         /\ Rooted(tables.adjs)
         /\ \A i \in DOMAIN psp : PassedBy(state, i) => Ingested(i)

\* A plugin call starts from a state that is not ahead of the tables.
Calls ==
    wf.pc \in {"fetch", "list"} /\ ~disturbed =>
        \A i \in DOMAIN psp : PassedBy(wf.old, i) => Ingested(i)

\* What the generic plugin has collected when it has read the first n records of
\* the list: exactly the new ones among them, in their order.
Gathered(acc, n) ==
    LET from == wf.old.from
        date == FormatDate(from)
    IN  /\ n <= Cardinality(UpdatedSince(date))
        /\ \A k \in DOMAIN acc :
             LET i == acc[k].report.ref
             IN  /\ i \in DOMAIN psp
                 /\ acc[k].report = Report(i) /\ acc[k].at = psp[i].updated
                 /\ psp[i].updated > from /\ Place(date, i) <= n
        /\ \A k, l \in DOMAIN acc : k < l => acc[k].at < acc[l].at
        /\ \A i \in DOMAIN psp :
             psp[i].updated > from =>
                 \/ \E k \in DOMAIN acc : acc[k].report.ref = i
                 \/ Place(date, i) > n

GenericCalls ==
    plugin = "generic" /\ wf.pc = "fetch" /\ ~disturbed =>
        /\ wf.page = 1 => wf.acc = <<>>
        /\ Gathered(wf.acc, (wf.page - 1) * PageSize)

\* The Stripe plugin has collected nothing, or the oldest record.
StripeCalls ==
    plugin = "stripe" =>
        /\ wf.pc = "fetch" => wf.acc = <<>> /\ wf.work.latest = wf.old.latest
        /\ wf.pc = "list" => /\ wf.work.latest = 1 /\ Len(wf.acc) = 1 /\ Len(psp) >= 1
                             /\ wf.acc[1].report = Report(1)

\* The answer of a plugin: current reports, after the payment they belong to, and
\* all that the new state is past and that is not stored.
Answers ==
    wf.pc \in {"store", "save"} /\ ~disturbed =>
        /\ \A k \in DOMAIN wf.batch :
             wf.batch[k].ref \in DOMAIN psp /\ wf.batch[k] = Report(wf.batch[k].ref)
        /\ wf.pc = "store" => RootedIn(wf.batch, tables.adjs)
        /\ \A i \in DOMAIN psp : PassedBy(wf.work, i) =>
             \/ Ingested(i)
             \/ wf.pc = "store" /\ \E k \in DOMAIN wf.batch : wf.batch[k] = Report(i)

\* A batch that arrives late is the one being stored, or is stored already.
LateBatches ==
    \A b \in late : (wf.pc = "store" /\ b = wf.batch) \/ Ids(b) \subseteq Ids(tables.adjs)

FetchInv ==
    /\ Types /\ Records /\ Tables /\ Calls
    /\ GenericCalls /\ StripeCalls /\ Answers /\ LateBatches

-----------------------------------------------------------------------------
(* The list of a generic PSP.                                              *)

\* place numbers the elements of S from 1 on.
Numbers(place, S) ==
    /\ IsFiniteSet(S) /\ Cardinality(S) \in Nat
    /\ place \in [S -> 1..Cardinality(S)]
    /\ \A i, j \in S : place[i] = place[j] => i = j
    /\ \A k \in 1..Cardinality(S) : \E i \in S : place[i] = k

\* Counting the elements up to each one numbers a finite set, when any two
\* elements have different sets of elements up to them and one contains the other.
LEMMA CountingNumbers ==
    ASSUME NEW S, IsFiniteSet(S), NEW upTo \in [S -> SUBSET S],
           \A i \in S : i \in upTo[i],
           \A i, j \in S : i # j => upTo[i] # upTo[j],
           \A i, j \in S : upTo[i] \subseteq upTo[j] \/ upTo[j] \subseteq upTo[i]
    PROVE  Numbers([i \in S |-> Cardinality(upTo[i])], S)
<1> DEFINE place == [i \in S |-> Cardinality(upTo[i])]
           n == Cardinality(S)
<1>1. n \in Nat
  BY FS_CardinalityType
<1>2. \A i \in S : /\ IsFiniteSet(upTo[i])
                   /\ Cardinality(upTo[i]) \in Nat /\ Cardinality(upTo[i]) <= n
                   /\ Cardinality(upTo[i]) # 0
  <2> TAKE i \in S
  <2>1. upTo[i] \in SUBSET S /\ upTo[i] # {}
    OBVIOUS
  <2>2. IsFiniteSet(upTo[i]) /\ Cardinality(upTo[i]) <= n
    BY <2>1, FS_Subset
  <2>3. Cardinality(upTo[i]) \in Nat
    BY <2>2, FS_CardinalityType
  <2>4. Cardinality(upTo[i]) # 0
    BY <2>1, <2>2, FS_EmptySet
  <2> QED BY <2>2, <2>3, <2>4
<1>3. place \in [S -> 1..n]
  <2>1. \A i \in S : Cardinality(upTo[i]) \in 1..n
    BY <1>1, <1>2
  <2> QED BY <2>1
<1>4. ASSUME NEW i \in S, NEW j \in S, Cardinality(upTo[i]) = Cardinality(upTo[j])
      PROVE  i = j
  <2>1. CASE upTo[i] \subseteq upTo[j]
    <3>1. upTo[i] \in SUBSET upTo[j]
      BY <2>1
    <3>2. upTo[j] = upTo[i]
      BY <1>2, <1>4, <3>1, FS_Subset
    <3> QED BY <3>2
  <2>2. CASE upTo[j] \subseteq upTo[i]
    <3>1. upTo[j] \in SUBSET upTo[i]
      BY <2>2
    <3>2. upTo[j] = upTo[i]
      BY <1>2, <1>4, <3>1, FS_Subset
    <3> QED BY <3>2
  <2> QED BY <2>1, <2>2
<1>5. \A i, j \in S : place[i] = place[j] => i = j
  BY <1>4
<1>6. \A k \in 1..n : \E i \in S : place[i] = k
  <2> HIDE DEF place
  <2>1. place \in Injection(S, 1..n)
    BY <1>3, <1>5, Fun_IsInj
  <2>2. IsFiniteSet(1..n) /\ Cardinality(1..n) = n
    BY <1>1, FS_Interval
  <2>3. place \in Surjection(S, 1..n)
    BY <2>1, <2>2, FS_Injection
  <2> QED BY <2>3 DEF Surjection
<1> HIDE DEF n, place
<1>7. Numbers(place, S)
  BY <1>1, <1>3, <1>5, <1>6 DEF Numbers, n
<1> QED BY <1>7 DEF place

\* The list by update date has every record since the date once, each at its place.
LEMMA ListPlaces ==
    ASSUME psp \in Seq(RecordType), NEW date \in Int
    PROVE  /\ Cardinality(UpdatedSince(date)) \in Nat
           /\ \A i \in UpdatedSince(date) :
                Place(date, i) \in 1..Cardinality(UpdatedSince(date))
           /\ TransactionsSince(date) \in Seq(UpdatedSince(date))
           /\ Len(TransactionsSince(date)) = Cardinality(UpdatedSince(date))
           /\ \A k \in 1..Cardinality(UpdatedSince(date)) :
                Place(date, TransactionsSince(date)[k]) = k
           /\ \A i \in UpdatedSince(date) : TransactionsSince(date)[Place(date, i)] = i
<1> DEFINE S == UpdatedSince(date)
           upTo == [i \in S |-> {j \in S : NotAfter(j, i)}]
           place == [i \in S |-> Cardinality(upTo[i])]
           n == Cardinality(S)
           T == TransactionsSince(date)
<1>1. DOMAIN psp = 1..Len(psp) /\ Len(psp) \in Nat
      /\ \A i \in DOMAIN psp : psp[i].updated \in Nat
  <2>1. \A i \in DOMAIN psp : psp[i] \in RecordType
    BY LenProperties
  <2> QED BY <2>1, LenProperties DEF RecordType
<1>2. S \subseteq DOMAIN psp
  BY DEF UpdatedSince
<1>3. IsFiniteSet(S)
  <2>1. IsFiniteSet(1..Len(psp))
    BY <1>1, FS_Interval
  <2> HIDE DEF S
  <2> QED BY <1>1, <1>2, <2>1, FS_Subset
<1> HIDE DEF S
<1>4. /\ \A i \in S : NotAfter(i, i)
      /\ \A i, j \in S : NotAfter(i, j) /\ NotAfter(j, i) => i = j
      /\ \A i, j \in S : NotAfter(i, j) \/ NotAfter(j, i)
      /\ \A h, i, j \in S : NotAfter(h, i) /\ NotAfter(i, j) => NotAfter(h, j)
  BY <1>1, <1>2 DEF NotAfter
<1>5. /\ upTo \in [S -> SUBSET S]
      /\ \A i \in S : i \in upTo[i]
  BY <1>4
<1>6. \A i, j \in S : i # j => upTo[i] # upTo[j]
  BY <1>4
<1>7. \A i, j \in S : upTo[i] \subseteq upTo[j] \/ upTo[j] \subseteq upTo[i]
  BY <1>4
<1>8. \A i \in S : Place(date, i) = Cardinality(upTo[i])
  BY DEF Place, S
<1> HIDE DEF upTo
<1>9. Numbers(place, S)
  BY <1>3, <1>5, <1>6, <1>7, CountingNumbers
<1>10. \A i \in S : Place(date, i) = place[i]
  BY <1>8
<1>11. T = [k \in 1..n |-> CHOOSE i \in S : Place(date, i) = k]
  BY DEF TransactionsSince, S
<1> HIDE DEF place, T
<1>12. \A k \in 1..n : T[k] \in S /\ Place(date, T[k]) = k
  <2> TAKE k \in 1..n
  <2>1. \E i \in S : Place(date, i) = k
    BY <1>9, <1>10 DEF Numbers
  <2>2. T[k] = CHOOSE i \in S : Place(date, i) = k
    BY <1>11
  <2> QED BY <2>1, <2>2
<1>13. n \in Nat /\ \A i \in S : Place(date, i) \in 1..n
  BY <1>9, <1>10 DEF Numbers
<1>14. T \in Seq(S) /\ Len(T) = n
  <2> HIDE DEF n
  <2>1. T \in [1..n -> S]
    BY <1>11, <1>12
  <2> QED BY <1>13, <2>1
<1>15. \A i \in S : T[Place(date, i)] = i
  BY <1>9, <1>10, <1>12, <1>13 DEF Numbers
<1> QED BY <1>12, <1>13, <1>14, <1>15 DEF S, T

\* A record that comes before another in the list was not updated after it.
LEMMA PlaceOrder ==
    ASSUME psp \in Seq(RecordType), NEW date \in Int,
           NEW i \in UpdatedSince(date), NEW j \in UpdatedSince(date),
           Place(date, i) < Place(date, j)
    PROVE  psp[i].updated <= psp[j].updated
<1> DEFINE S == UpdatedSince(date)
           U(h) == {g \in S : NotAfter(g, h)}
<1>1. DOMAIN psp = 1..Len(psp) /\ Len(psp) \in Nat
      /\ \A h \in DOMAIN psp : psp[h].updated \in Nat
  <2>1. \A h \in DOMAIN psp : psp[h] \in RecordType
    BY LenProperties
  <2> QED BY <2>1, LenProperties DEF RecordType
<1>2. S \subseteq DOMAIN psp
  BY DEF UpdatedSince
<1>3. IsFiniteSet(S)
  <2>1. IsFiniteSet(1..Len(psp))
    BY <1>1, FS_Interval
  <2> HIDE DEF S
  <2> QED BY <1>1, <1>2, <2>1, FS_Subset
<1>4. ASSUME NotAfter(j, i) PROVE FALSE
  <2>1. U(j) \in SUBSET U(i)
    BY <1>1, <1>2, <1>4 DEF NotAfter
  <2>2. IsFiniteSet(U(i))
    <3> U(i) \in SUBSET S
      OBVIOUS
    <3> HIDE DEF S, U
    <3> QED BY <1>3, FS_Subset
  <2>3. Place(date, i) = Cardinality(U(i)) /\ Place(date, j) = Cardinality(U(j))
    BY DEF Place
  <2>4. Place(date, i) \in Nat /\ Place(date, j) \in Nat
    <3>1. /\ Cardinality(UpdatedSince(date)) \in Nat
          /\ \A h \in UpdatedSince(date) : Place(date, h) \in 1..Cardinality(UpdatedSince(date))
      BY ListPlaces
    <3> HIDE DEF S
    <3> QED BY <3>1
  <2> HIDE DEF U
  <2>5. Cardinality(U(j)) <= Cardinality(U(i))
    BY <2>1, <2>2, FS_Subset
  <2> QED BY <2>3, <2>4, <2>5
<1> QED BY <1>1, <1>2, <1>4 DEF NotAfter

\* The records of the list at the places after the first lo, at most one page.
IsPage(current, date, lo) ==
    /\ current \in Seq(UpdatedSince(date))
    /\ Len(current) <= PageSize
    /\ \A k \in DOMAIN current : Place(date, current[k]) = lo + k
    /\ lo <= Cardinality(UpdatedSince(date)) =>
         /\ lo + Len(current) <= Cardinality(UpdatedSince(date))
         /\ \A i \in UpdatedSince(date) :
              lo < Place(date, i) /\ Place(date, i) <= lo + Len(current)
                => \E k \in DOMAIN current : current[k] = i
         /\ Len(current) < PageSize => lo + Len(current) = Cardinality(UpdatedSince(date))

\* One page of the list: the records at the places after those of the pages before.
LEMMA PageProperties ==
    ASSUME psp \in Seq(RecordType), NEW date \in Int, NEW page \in Nat \ {0}
    PROVE  IsPage(ListTransactions(page, date), date, (page - 1) * PageSize)
<1> DEFINE current == ListTransactions(page, date)
           lo == (page - 1) * PageSize
<1> DEFINE S == UpdatedSince(date)
           all == TransactionsSince(date)
           n == Cardinality(S)
           to == page * PageSize
           hi == IF to <= n THEN to ELSE n
<1>1. /\ n \in Nat
      /\ \A i \in S : Place(date, i) \in 1..n
      /\ all \in Seq(S) /\ Len(all) = n
      /\ \A k \in 1..n : Place(date, all[k]) = k
      /\ \A i \in S : all[Place(date, i)] = i
  BY ListPlaces
<1>2. PageSize \in Nat /\ lo \in Nat /\ to = lo + PageSize /\ to \in Nat
  <2>1. PageSize \in Nat
    BY FetchAssumption
  <2>2. page * PageSize = (page - 1) * PageSize + PageSize
    BY <2>1
  <2>3. \A a, b \in Nat : a * b \in Nat
    OBVIOUS
  <2>4. page - 1 \in Nat
    OBVIOUS
  <2> QED BY <2>1, <2>2, <2>3, <2>4
<1>3. current = SubSeq(all, lo + 1, hi)
  <2>1. current = SubSeq(all, (page - 1) * PageSize + 1, IF to <= Len(all) THEN to ELSE Len(all))
    BY DEF ListTransactions
  <2> HIDE DEF S, all, n, to
  <2> QED BY <1>1, <2>1
<1> HIDE DEF S, all, n, to, lo, current
<1>4. lo \in Nat /\ hi \in Nat /\ hi <= n /\ hi <= to /\ (hi < to => hi = n)
  BY <1>1, <1>2
<1> HIDE DEF hi
<1>5. current \in Seq(S)
  BY <1>1, <1>3, <1>4
<1>6. Len(current) = IF lo + 1 <= hi THEN hi - lo ELSE 0
  BY <1>1, <1>3, <1>4
<1>7. \A k \in 1..(hi - lo) : current[k] = all[lo + k]
  <2>1. \A k \in 1..(hi - (lo + 1) + 1) : SubSeq(all, lo + 1, hi)[k] = all[(lo + 1) + k - 1]
    <3>1. \A i \in (lo + 1)..hi : all[i] \in S
      BY <1>1, <1>4, LenProperties
    <3> QED BY <1>4, <3>1, SubSeqProperties
  <2>2. \A k \in 1..(hi - lo) : k \in 1..(hi - (lo + 1) + 1) /\ (lo + 1) + k - 1 = lo + k
    BY <1>4
  <2> QED BY <1>3, <2>1, <2>2
<1>8. DOMAIN current = 1..Len(current) /\ Len(current) \in Nat
  BY <1>5, LenProperties
<1>9. Len(current) <= PageSize
  BY <1>2, <1>4, <1>6
<1>10. \A k \in DOMAIN current : Place(date, current[k]) = lo + k
  <2> TAKE k \in DOMAIN current
  <2>1. k \in 1..(hi - lo) /\ lo + k \in 1..n
    BY <1>1, <1>4, <1>6, <1>8
  <2> QED BY <1>1, <1>7, <2>1
<1>11. ASSUME lo <= n
       PROVE  /\ lo + Len(current) <= n
              /\ Len(current) < PageSize => lo + Len(current) = n
  BY <1>1, <1>2, <1>4, <1>6, <1>11
<1>12. ASSUME NEW i \in S, lo < Place(date, i), Place(date, i) <= lo + Len(current)
       PROVE  \E k \in DOMAIN current : current[k] = i
  <2> DEFINE k == Place(date, i) - lo
  <2>1. Place(date, i) \in 1..n
    BY <1>1
  <2>2. k \in DOMAIN current /\ k \in 1..(hi - lo) /\ lo + k = Place(date, i)
    BY <1>4, <1>6, <1>8, <1>12, <2>1
  <2>3. current[k] = all[Place(date, i)]
    <3> HIDE DEF k
    <3> QED BY <1>7, <2>2
  <2> QED BY <1>1, <2>2, <2>3
<1> QED BY <1>5, <1>9, <1>10, <1>11, <1>12 DEF IsPage, S, n, lo, current

-----------------------------------------------------------------------------
(* One page of the generic plugin.                                         *)

\* The records of the PSP and their reports.
LEMMA RecordTypes ==
    ASSUME psp \in Seq(RecordType)
    PROVE  /\ Len(psp) \in Nat /\ DOMAIN psp = 1..Len(psp)
           /\ \A i \in DOMAIN psp :
                /\ psp[i] \in RecordType
                /\ psp[i].root \in Nat /\ psp[i].created \in Nat /\ psp[i].updated \in Nat
                /\ psp[i].status \in ReportStatuses
                /\ Report(i) \in ReportType
                /\ Report(i).ref = i /\ Report(i).root = psp[i].root
                /\ Report(i).created = psp[i].created /\ Report(i).status = psp[i].status
<1>1. Len(psp) \in Nat /\ DOMAIN psp = 1..Len(psp) /\ \A i \in DOMAIN psp : psp[i] \in RecordType
  BY LenProperties
<1>2. \A i \in DOMAIN psp : i \in Nat
  BY <1>1
<1> QED BY <1>1, <1>2 DEF RecordType, ReportType, Report

\* The date of a request is not after the saved one.
LEMMA FormatDateProperties ==
    ASSUME NEW t \in Nat
    PROVE  FormatDate(t) \in Nat /\ FormatDate(t) <= t
<1>1. Second \in Nat /\ Second > 0
  BY FetchAssumption
<1>2. t % Second \in 0..t
  BY <1>1
<1> QED BY <1>2 DEF FormatDate

\* The record of an entry of the plugin's list.
EntryOf(i) == [report |-> Report(i), at |-> psp[i].updated]

\* What FillPayments adds: entries of the new records of the page, in its order.
Fills(at, total, current) ==
    LET m == Len(wf.acc)
        n == Len(total) - m
    IN  /\ n \in Nat
        /\ total \in Seq(EntryType)
        /\ \A k \in 1..m : total[k] = wf.acc[k]
        /\ at \in [1..n -> DOMAIN current]
        /\ \A k \in 1..n : /\ total[m + k] = EntryOf(current[at[k]])
                           /\ psp[current[at[k]]].updated > wf.old.from
        /\ \A k, l \in 1..n : k < l => at[k] < at[l]
        /\ \A i \in DOMAIN current :
             psp[current[i]].updated > wf.old.from => \E k \in 1..n : at[k] = i

LEMMA FillPaymentsFills ==
    ASSUME Types, NEW current \in Seq(DOMAIN psp)
    PROVE  \E at : Fills(at, FillPayments(current), current)
<1> DEFINE N == {k \in DOMAIN current : psp[current[k]].updated > wf.old.from}
           newer == Entries(current, N)
           added == [k \in DOMAIN newer |-> EntryOf(newer[k])]
           total == wf.acc \o added
           m == Len(wf.acc)
<1>1. FillPayments(current) = total
  BY DEF FillPayments, EntryOf
<1>2. N \in SUBSET DOMAIN current
  OBVIOUS
<1>3. /\ newer \in Seq(DOMAIN psp)
      /\ \E at \in [DOMAIN newer -> N] :
           /\ \A k \in DOMAIN newer : newer[k] = current[at[k]]
           /\ \A k, l \in DOMAIN newer : k < l => at[k] < at[l]
           /\ \A i \in N : \E k \in DOMAIN newer : at[k] = i
  <2> HIDE DEF N
  <2> QED BY <1>2, EntriesProperties
<1>4. PICK at \in [DOMAIN newer -> N] :
           /\ \A k \in DOMAIN newer : newer[k] = current[at[k]]
           /\ \A k, l \in DOMAIN newer : k < l => at[k] < at[l]
           /\ \A i \in N : \E k \in DOMAIN newer : at[k] = i
  BY <1>3
<1>5. /\ \A k \in DOMAIN newer : at[k] \in DOMAIN current /\ psp[current[at[k]]].updated > wf.old.from
      /\ \A i \in DOMAIN current : psp[current[i]].updated > wf.old.from => i \in N
  BY <1>4
<1> HIDE DEF N, newer
<1>6. Len(newer) \in Nat /\ DOMAIN newer = 1..Len(newer) /\ \A k \in DOMAIN newer : newer[k] \in DOMAIN psp
  BY <1>3, LenProperties
<1>7. \A i \in DOMAIN psp : EntryOf(i) \in EntryType
  BY RecordTypes DEF Types, EntryOf, EntryType
<1>8. added \in Seq(EntryType) /\ Len(added) = Len(newer)
  <2>1. added \in [1..Len(newer) -> EntryType]
    <3>1. \A k \in 1..Len(newer) : EntryOf(newer[k]) \in EntryType
      BY <1>6, <1>7
    <3> QED BY <1>6, <3>1
  <2> HIDE DEF added
  <2> QED BY <1>6, <2>1
<1>9. wf.acc \in Seq(EntryType) /\ m \in Nat
  BY LenProperties DEF Types, WorkflowType
<1>10. /\ total \in Seq(EntryType) /\ Len(total) = m + Len(newer)
       /\ \A i \in 1..(m + Len(newer)) : total[i] = IF i <= m THEN wf.acc[i] ELSE added[i - m]
  <2> DEFINE acc == wf.acc
  <2>1. total = acc \o added /\ m = Len(acc) /\ acc \in Seq(EntryType)
    BY <1>9
  <2> HIDE DEF added, total, m, acc
  <2>2. added \in Seq(EntryType)
    BY <1>8
  <2>3. /\ total \in Seq(EntryType) /\ Len(total) = Len(acc) + Len(added)
        /\ \A i \in 1..(Len(acc) + Len(added)) :
             total[i] = IF i <= Len(acc) THEN acc[i] ELSE added[i - Len(acc)]
    BY <2>1, <2>2, ConcatProperties
  <2> QED BY <1>8, <2>1, <2>3 DEF acc
<1>11. \A k \in DOMAIN newer : added[k] = EntryOf(newer[k])
  OBVIOUS
<1> HIDE DEF added, total, m
<1>12. \A k \in 1..m : total[k] = wf.acc[k]
  <2> TAKE k \in 1..m
  <2>1. k \in 1..(m + Len(newer)) /\ k <= m
    BY <1>6, <1>9
  <2> QED BY <1>10, <2>1
<1>13. \A k \in 1..Len(newer) : total[m + k] = EntryOf(current[at[k]])
  <2> TAKE k \in 1..Len(newer)
  <2>1. m + k \in 1..(m + Len(newer)) /\ ~(m + k <= m) /\ (m + k) - m = k
    BY <1>6, <1>9
  <2>2. total[m + k] = added[k]
    BY <1>10, <2>1
  <2> QED BY <1>4, <1>6, <1>11, <2>2
<1>14. Len(total) - m = Len(newer)
  BY <1>6, <1>9, <1>10
<1>15. at \in [1..Len(newer) -> DOMAIN current]
  BY <1>4, <1>5, <1>6
<1>16. Fills(at, total, current)
  BY <1>4, <1>5, <1>6, <1>10, <1>12, <1>13, <1>14, <1>15 DEF Fills, m
<1> QED BY <1>1, <1>16

\* What one more page adds to what the plugin has collected.
PageGathers(lo, current, total) ==
    /\ current \in Seq(DOMAIN psp) /\ total \in Seq(EntryType)
    /\ Gathered(total, lo + Len(current))
    /\ Len(current) <= PageSize

\* A new record is in the list of the request.
LEMMA NewListed ==
    ASSUME Types, NEW i \in DOMAIN psp, psp[i].updated > wf.old.from
    PROVE  i \in UpdatedSince(FormatDate(wf.old.from))
<1>1. wf.old.from \in Nat
  BY DEF Types, WorkflowType, StateType
<1>2. FormatDate(wf.old.from) \in Nat /\ FormatDate(wf.old.from) <= wf.old.from
  BY <1>1, FormatDateProperties
<1>3. psp[i].updated \in Nat
  BY RecordTypes DEF Types
<1> QED BY <1>1, <1>2, <1>3 DEF UpdatedSince

\* Reading the next page, undisturbed, the plugin has collected exactly the new
\* records of the pages so far, in the order of their dates.
LEMMA FillGathers ==
    ASSUME Types, Records, ~disturbed,
           NEW lo \in Nat, lo = (wf.page - 1) * PageSize, Gathered(wf.acc, lo),
           NEW current, current = ListTransactions(wf.page, FormatDate(wf.old.from))
    PROVE  PageGathers(lo, current, FillPayments(current))
<1> DEFINE total == FillPayments(current)
           acc == wf.acc
           from == wf.old.from
           date == FormatDate(from)
           S == UpdatedSince(date)
           m == Len(acc)
           n == Len(total) - m
           hi == lo + Len(current)
<1>1. from \in Nat /\ date \in Nat /\ wf.page \in Nat \ {0} /\ acc \in Seq(EntryType) /\ psp \in Seq(RecordType)
  <2>1. from \in Nat
    BY DEF Types, WorkflowType, StateType
  <2>2. date \in Nat
    BY <2>1, FormatDateProperties
  <2> QED BY <2>1, <2>2 DEF Types, WorkflowType
<1>2. /\ current \in Seq(S)
      /\ Len(current) <= PageSize
      /\ \A k \in DOMAIN current : Place(date, current[k]) = lo + k
      /\ lo <= Cardinality(S) =>
           /\ lo + Len(current) <= Cardinality(S)
           /\ \A i \in S : lo < Place(date, i) /\ Place(date, i) <= lo + Len(current)
                => \E k \in DOMAIN current : current[k] = i
  <2> DEFINE page == wf.page
  <2>1. page \in Nat \ {0} /\ date \in Int
    BY <1>1
  <2>2. lo = (page - 1) * PageSize /\ current = ListTransactions(page, date)
    OBVIOUS
  <2> HIDE DEF date, page
  <2>3. IsPage(current, date, lo)
    BY <1>1, <2>1, <2>2, PageProperties
  <2> QED BY <2>3 DEF IsPage
<1>3. S \subseteq DOMAIN psp /\ \A i \in DOMAIN psp : psp[i].updated > from => i \in S
  <2>1. \A i \in DOMAIN psp : psp[i].updated > from => i \in S
    BY NewListed
  <2> QED BY <2>1 DEF UpdatedSince
<1>4. current \in Seq(DOMAIN psp) /\ Len(current) \in Nat /\ DOMAIN current = 1..Len(current)
      /\ \A k \in DOMAIN current : current[k] \in S
  <2>1. Len(current) \in Nat /\ DOMAIN current = 1..Len(current) /\ \A k \in DOMAIN current : current[k] \in S
    <3> HIDE DEF S
    <3> QED BY <1>2, LenProperties
  <2>2. current \in [1..Len(current) -> DOMAIN psp]
    <3>1. current = [k \in 1..Len(current) |-> current[k]]
      <4> HIDE DEF S
      <4> QED BY <1>2, <2>1
    <3> HIDE DEF S
    <3> QED BY <1>3, <2>1, <3>1
  <2> QED BY <2>1, <2>2
<1>5. PICK at : Fills(at, total, current)
  BY <1>4, FillPaymentsFills
<1> HIDE DEF total
<1>6. /\ n \in Nat
      /\ total \in Seq(EntryType)
      /\ \A k \in 1..m : total[k] = acc[k]
      /\ at \in [1..n -> DOMAIN current]
      /\ \A k \in 1..n : /\ total[m + k] = EntryOf(current[at[k]])
                         /\ psp[current[at[k]]].updated > from
      /\ \A k, l \in 1..n : k < l => at[k] < at[l]
      /\ \A i \in DOMAIN current : psp[current[i]].updated > from => \E k \in 1..n : at[k] = i
  BY <1>5 DEF Fills
<1>7. /\ lo <= Cardinality(S)
      /\ \A k \in DOMAIN acc :
           /\ acc[k].report.ref \in DOMAIN psp
           /\ acc[k].report = Report(acc[k].report.ref) /\ acc[k].at = psp[acc[k].report.ref].updated
           /\ psp[acc[k].report.ref].updated > from /\ Place(date, acc[k].report.ref) <= lo
      /\ \A k, l \in DOMAIN acc : k < l => acc[k].at < acc[l].at
      /\ \A i \in DOMAIN psp :
           psp[i].updated > from =>
               \/ \E k \in DOMAIN acc : acc[k].report.ref = i
               \/ Place(date, i) > lo
  BY DEF Gathered
<1>8. \A i, j \in DOMAIN psp : i # j => psp[i].updated # psp[j].updated
  BY DEF Records
<1>9. \A i, j \in S : Place(date, i) < Place(date, j) => psp[i].updated < psp[j].updated
  <2> TAKE i, j \in S
  <2> HAVE Place(date, i) < Place(date, j)
  <2>1. psp[i].updated <= psp[j].updated
    <3>1. date \in Int
      BY <1>1
    <3> HIDE DEF date
    <3> QED BY <1>1, <3>1, PlaceOrder
  <2>2. i # j
    <3>1. Place(date, i) \in Nat
      <4>1. date \in Int /\ i \in UpdatedSince(date)
        BY <1>1
      <4> HIDE DEF date, S
      <4>2. /\ Cardinality(UpdatedSince(date)) \in Nat
            /\ \A h \in UpdatedSince(date) : Place(date, h) \in 1..Cardinality(UpdatedSince(date))
        BY <1>1, <4>1, ListPlaces
      <4> QED BY <4>1, <4>2
    <3> HIDE DEF date, S
    <3> QED BY <3>1
  <2>3. psp[i].updated # psp[j].updated /\ psp[i].updated \in Nat /\ psp[j].updated \in Nat
    BY <1>1, <1>3, <1>8, <2>2, RecordTypes
  <2> QED BY <2>1, <2>3
<1>10. \A i \in S : Place(date, i) \in Nat
  <2>1. date \in Int
    BY <1>1
  <2> HIDE DEF date
  <2>2. /\ Cardinality(UpdatedSince(date)) \in Nat
        /\ \A h \in UpdatedSince(date) : Place(date, h) \in 1..Cardinality(UpdatedSince(date))
    BY <1>1, <2>1, ListPlaces
  <2> HIDE DEF S
  <2> QED BY <2>2 DEF S
<1>11. m \in Nat /\ DOMAIN acc = 1..m /\ Len(total) = m + n /\ DOMAIN total = 1..(m + n)
  <2>1. m \in Nat /\ DOMAIN acc = 1..m
    <3> HIDE DEF acc
    <3> QED BY <1>1, LenProperties
  <2>2. Len(total) \in Nat /\ DOMAIN total = 1..Len(total)
    BY <1>6, LenProperties
  <2> HIDE DEF m
  <2>3. Len(total) = m + (Len(total) - m)
    BY <2>1, <2>2
  <2> QED BY <2>1, <2>2, <2>3
<1>12. \A i : EntryOf(i).report = Report(i) /\ EntryOf(i).report.ref = i /\ EntryOf(i).at = psp[i].updated
  BY DEF EntryOf, Report
<1> HIDE DEF acc, from, date, S, m, n
<1>13. \A k \in DOMAIN total : k \in 1..m \/ k - m \in 1..n
  BY <1>6, <1>11
\* An entry of the page: its place in the list is after those of the pages before.
<1>14. \A k \in 1..n :
         LET i == current[at[k]]
         IN  /\ total[m + k] = EntryOf(i) /\ i \in DOMAIN psp /\ i \in S
             /\ psp[i].updated > from /\ Place(date, i) = lo + at[k]
             /\ at[k] \in Nat /\ at[k] >= 1 /\ at[k] <= Len(current)
  <2> TAKE k \in 1..n
  <2>1. at[k] \in DOMAIN current
    BY <1>6
  <2>2. at[k] \in Nat /\ at[k] >= 1 /\ at[k] <= Len(current)
    BY <1>4, <2>1
  <2>3. current[at[k]] \in S /\ Place(date, current[at[k]]) = lo + at[k]
    BY <1>2, <1>4, <2>1
  <2>4. total[m + k] = EntryOf(current[at[k]]) /\ psp[current[at[k]]].updated > from
    BY <1>6
  <2> QED BY <1>3, <2>2, <2>3, <2>4
<1>15. ASSUME NEW k \in DOMAIN total
       PROVE  LET i == total[k].report.ref
              IN  /\ i \in DOMAIN psp
                  /\ total[k].report = Report(i) /\ total[k].at = psp[i].updated
                  /\ psp[i].updated > from /\ Place(date, i) <= hi
  <2>1. CASE k \in 1..m
    <3>1. total[k] = acc[k] /\ k \in DOMAIN acc
      BY <1>6, <1>11, <2>1
    <3>2. acc[k].report.ref \in S
      BY <1>3, <1>7, <3>1
    <3>3. Place(date, acc[k].report.ref) <= hi
      BY <1>4, <1>7, <1>10, <3>1, <3>2
    <3> QED BY <1>7, <3>1, <3>3
  <2>2. CASE k - m \in 1..n
    <3> DEFINE h == k - m
    <3>1. h \in 1..n /\ k = m + h
      BY <1>6, <1>11, <2>2
    <3> HIDE DEF h
    <3> DEFINE i == current[at[h]]
    <3>2. /\ total[k] = EntryOf(i) /\ i \in DOMAIN psp /\ psp[i].updated > from
          /\ Place(date, i) = lo + at[h] /\ at[h] \in Nat /\ at[h] <= Len(current)
      BY <1>14, <3>1
    <3> HIDE DEF i
    <3>3. Place(date, i) <= hi
      BY <1>4, <3>2
    <3> HIDE DEF hi
    <3>4. total[k].report.ref = i /\ total[k].report = Report(i) /\ total[k].at = psp[i].updated
      BY <1>12, <3>2
    <3> QED BY <3>2, <3>3, <3>4
  <2> QED BY <1>13, <2>1, <2>2
<1>16. ASSUME NEW k \in DOMAIN total, NEW l \in DOMAIN total, k < l
       PROVE  total[k].at < total[l].at
  <2>1. CASE l \in 1..m
    <3>1. k \in 1..m
      BY <1>11, <1>16, <2>1
    <3> QED BY <1>6, <1>7, <1>11, <1>16, <2>1, <3>1
  <2>2. CASE l - m \in 1..n
    <3> DEFINE h == l - m
               j == current[at[h]]
    <3>1. h \in 1..n /\ l = m + h
      BY <1>6, <1>11, <2>2
    <3>2. total[l].at = psp[j].updated /\ j \in S /\ Place(date, j) = lo + at[h] /\ at[h] \in Nat /\ at[h] >= 1
      <4> HIDE DEF h
      <4> QED BY <1>12, <1>14, <3>1
    <3>3. CASE k \in 1..m
      <4> DEFINE i == acc[k].report.ref
      <4>1. total[k] = acc[k] /\ k \in DOMAIN acc
        BY <1>6, <1>11, <3>3
      <4>2. total[k].at = psp[i].updated /\ i \in S /\ Place(date, i) <= lo
        BY <1>3, <1>7, <4>1
      <4> HIDE DEF i, j, h
      <4>3. Place(date, i) < Place(date, j)
        BY <1>10, <3>2, <4>2
      <4> QED BY <1>9, <3>2, <4>2, <4>3
    <3>4. CASE k - m \in 1..n
      <4> DEFINE g == k - m
                 i == current[at[g]]
      <4>1. g \in 1..n /\ k = m + g /\ g < h
        BY <1>6, <1>11, <1>16, <3>4
      <4>2. total[k].at = psp[i].updated /\ i \in S /\ Place(date, i) = lo + at[g] /\ at[g] \in Nat
        <5> HIDE DEF g
        <5> QED BY <1>12, <1>14, <4>1
      <4>3. at[g] < at[h]
        <5> HIDE DEF g, h
        <5> QED BY <1>6, <3>1, <4>1
      <4> HIDE DEF i, j, g, h
      <4>4. Place(date, i) < Place(date, j)
        BY <3>2, <4>2, <4>3
      <4> QED BY <1>9, <3>2, <4>2, <4>4
    <3> QED BY <1>13, <3>3, <3>4
  <2> QED BY <1>13, <2>1, <2>2
<1>17. ASSUME NEW i \in DOMAIN psp, psp[i].updated > from
       PROVE  (\E k \in DOMAIN total : total[k].report.ref = i) \/ Place(date, i) > hi
  <2>1. i \in S
    BY <1>3, <1>17
  <2>2. CASE \E k \in DOMAIN acc : acc[k].report.ref = i
    <3>1. \A k \in DOMAIN acc : k \in DOMAIN total /\ total[k] = acc[k]
      BY <1>6, <1>11
    <3> QED BY <2>2, <3>1
  <2>3. CASE Place(date, i) > lo /\ Place(date, i) <= hi
    <3>1. PICK k \in DOMAIN current : current[k] = i
      BY <1>2, <1>7, <2>1, <2>3
    <3>2. PICK h \in 1..n : at[h] = k
      BY <1>6, <1>17, <3>1
    <3>3. m + h \in DOMAIN total /\ total[m + h] = EntryOf(i)
      BY <1>6, <1>11, <3>1, <3>2
    <3>4. total[m + h].report.ref = i
      BY <1>12, <3>3
    <3> QED BY <3>3, <3>4
  <2>4. Place(date, i) \in Nat /\ hi \in Nat
    BY <1>4, <1>10, <2>1
  <2> QED BY <1>7, <1>17, <2>2, <2>3, <2>4
<1>18. hi <= Cardinality(S)
  BY <1>2, <1>7
<1>19. Gathered(total, hi)
  <2> HIDE DEF hi
  <2> QED BY <1>15, <1>16, <1>17, <1>18 DEF Gathered, S, date, from
<1> QED BY <1>2, <1>4, <1>6, <1>19 DEF PageGathers, total

-----------------------------------------------------------------------------
(* Steps of the workflow that change nothing but the workflow.             *)

\* Records and tables stay as they are when only the workflow takes a step.
LEMMA WorkflowOnly ==
    ASSUME FetchInv, UNCHANGED <<plugin, psp, clock, state, tables, disturbed>>
    PROVE  Records' /\ Tables'
<1>1. Records'
  BY DEF FetchInv, Records
<1>2. Tables'
  BY DEF FetchInv, Tables, Ingested, Report, PassedBy, AdjustmentID
<1> QED BY <1>1, <1>2

\* The answer reports and the new state s a plugin may give in this state.
GoodAnswer(reports, s) ==
    /\ \A k \in DOMAIN reports :
         reports[k].ref \in DOMAIN psp /\ reports[k] = Report(reports[k].ref)
    /\ RootedIn(reports, tables.adjs)
    /\ \A i \in DOMAIN psp : PassedBy(s, i) =>
         Ingested(i) \/ \E k \in DOMAIN reports : reports[k] = Report(i)

\* A plugin call that gives a good answer keeps the invariant.
LEMMA AnswerStep ==
    ASSUME FetchInv, wf.pc \in {"fetch", "list"},
           NEW reports \in Seq(ReportType), Len(reports) <= PageSize,
           NEW s \in StateType, WithinPsp(s), NEW hasMore \in BOOLEAN,
           ~disturbed => GoodAnswer(reports, s),
           Answer(reports, s, hasMore),
           UNCHANGED <<plugin, psp, clock, state, tables, late, errors, disturbed>>
    PROVE  FetchInv'
<1>1. Records' /\ Tables'
  BY WorkflowOnly
<1>2. wf \in WorkflowType
  BY DEF FetchInv, Types
<1>3. /\ wf'.pc = "store" /\ wf'.batch = reports /\ wf'.work = s /\ wf'.old = wf.old
      /\ wf'.acc = <<>> /\ wf'.page = 1
      /\ wf' \in WorkflowType
  <2>1. <<>> \in Seq(EntryType) /\ 1 \in Nat \ {0}
    OBVIOUS
  <2> QED BY <1>2, <2>1 DEF Answer, WorkflowType
<1>4. Types'
  <2>1. \A k \in DOMAIN wf'.acc : wf'.acc[k].at <= clock'
    BY <1>3
  <2>2. Len(wf'.acc) <= 1
    BY <1>3
  <2> QED BY <1>3, <2>1, <2>2 DEF FetchInv, Types, WithinPsp, TablesOK
<1>5. Calls' /\ GenericCalls' /\ StripeCalls'
  BY <1>3 DEF Calls, GenericCalls, StripeCalls
<1>6. Answers'
  BY <1>3 DEF Answers, GoodAnswer, RootedIn, PassedBy, Ingested, Report, AdjustmentID
<1>7. LateBatches'
  <2>1. \A b \in late : Ids(b) \subseteq Ids(tables.adjs)
    BY DEF FetchInv, LateBatches
  <2> QED BY <2>1 DEF LateBatches
<1> QED BY <1>1, <1>4, <1>5, <1>6, <1>7 DEF FetchInv

\* A workflow in which nothing is collected or answered, with state s.
Fresh(w, pc, s) ==
    /\ w \in WorkflowType
    /\ w.pc = pc /\ w.old = s /\ w.work = s
    /\ w.acc = <<>> /\ w.page = 1 /\ w.batch = <<>>

\* The state before anything was fetched.
LEMMA StartStateOK == ASSUME Types PROVE StartState \in StateType /\ WithinPsp(StartState)
<1>1. Len(psp) \in Nat /\ clock \in Nat
  BY LenProperties DEF Types
<1> QED BY <1>1 DEF StartState, StateType, WithinPsp

\* Where the workflow starts.
LEMMA IdleFresh ==
    /\ Fresh(Idle, "idle", StartState)
    /\ Fresh([Idle EXCEPT !.pc = "start"], "start", StartState)
    /\ \A s \in StateType : Fresh(PluginCall(s), "fetch", s)
<1>1. <<>> \in Seq(EntryType) /\ <<>> \in Seq(ReportType) /\ 1 \in Nat \ {0} /\ FALSE \in BOOLEAN
  OBVIOUS
<1>2. StartState \in StateType
  BY DEF StartState, StateType
<1>3. Fresh(Idle, "idle", StartState)
  BY <1>1, <1>2 DEF Idle, WorkflowType, Fresh
<1>4. Fresh([Idle EXCEPT !.pc = "start"], "start", StartState)
  BY <1>1, <1>2 DEF Idle, WorkflowType, Fresh
<1>5. \A s \in StateType : Fresh(PluginCall(s), "fetch", s)
  BY <1>1 DEF Idle, PluginCall, WorkflowType, Fresh
<1> QED BY <1>3, <1>4, <1>5

\* At the start of a call nothing is collected, and no record has been read.
LEMMA NothingGathered == Types => Gathered(<<>>, 0)
<1> HAVE Types
<1> DEFINE date == FormatDate(wf.old.from)
<1>1. wf.old.from \in Nat /\ psp \in Seq(RecordType)
  BY DEF Types, WorkflowType, StateType
<1>2. date \in Int
  BY <1>1, FormatDateProperties
<1>3. /\ Cardinality(UpdatedSince(date)) \in Nat
      /\ \A i \in UpdatedSince(date) : Place(date, i) \in 1..Cardinality(UpdatedSince(date))
  <2> HIDE DEF date
  <2> QED BY <1>1, <1>2, ListPlaces
<1>4. \A i \in DOMAIN psp : psp[i].updated > wf.old.from => i \in UpdatedSince(date)
  BY NewListed
<1>5. \A i \in DOMAIN psp : psp[i].updated > wf.old.from => Place(date, i) > 0
  <2> HIDE DEF date
  <2> QED BY <1>3, <1>4
<1>6. 0 <= Cardinality(UpdatedSince(date))
  BY <1>3
<1> QED BY <1>5, <1>6 DEF Gathered

\* The workflow starts, ends, or calls the plugin with a state that is not ahead of
\* the tables.
LEMMA FreshStep ==
    ASSUME FetchInv, wf.pc # "store",
           NEW pc \in {"idle", "start", "fetch"}, NEW s \in StateType, WithinPsp(s),
           pc = "fetch" /\ ~disturbed => \A i \in DOMAIN psp : PassedBy(s, i) => Ingested(i),
           Fresh(wf', pc, s),
           Types', Records', Tables', LateBatches',
           UNCHANGED <<plugin, psp, tables, disturbed>>
    PROVE  FetchInv'
<1>1. /\ wf'.pc = pc /\ wf'.old = s /\ wf'.work = s /\ wf'.acc = <<>> /\ wf'.page = 1
  BY DEF Fresh
<1>2. Calls'
  <2> SUFFICES ASSUME pc = "fetch", ~disturbed', NEW i \in DOMAIN psp', PassedBy(s, i)'
               PROVE  Ingested(i)'
    BY <1>1 DEF Calls, PassedBy
  <2>1. PassedBy(s, i)
    BY DEF PassedBy
  <2>2. Ingested(i)
    BY <2>1
  <2> QED BY <2>2 DEF Ingested, Report, AdjustmentID
<1>3. GenericCalls'
  <2>1. (Types => Gathered(<<>>, 0))'
    BY NothingGathered, PTL
  <2>2. (1 - 1) * PageSize = 0
    BY FetchAssumption
  <2>3. (wf'.page - 1) * PageSize = 0
    BY <1>1, <2>2
  <2> QED BY <1>1, <2>1, <2>3 DEF GenericCalls
<1>4. StripeCalls' /\ Answers'
  BY <1>1 DEF StripeCalls, Answers
<1> QED BY <1>2, <1>3, <1>4 DEF FetchInv

\* The types after such a step.
LEMMA FreshTypes ==
    ASSUME Types, NEW pc \in {"idle", "start", "fetch"}, NEW s \in StateType, WithinPsp(s),
           Fresh(wf', pc, s),
           state' = state \/ state' = wf.work, errors' \in 0..MaxErrors,
           UNCHANGED <<plugin, psp, clock, tables, late, disturbed>>
    PROVE  Types'
<1>1. /\ wf'.old = s /\ wf'.work = s /\ wf'.acc = <<>> /\ wf'.batch = <<>>
      /\ wf' \in WorkflowType
  BY DEF Fresh
<1>2. Len(wf'.batch) <= PageSize /\ Len(wf'.acc) <= 1
  <2>1. 0 <= PageSize
    BY FetchAssumption
  <2> QED BY <1>1, <2>1
<1>3. \A k \in DOMAIN wf'.acc : wf'.acc[k].at <= clock'
  BY <1>1
<1>4. state' \in StateType /\ WithinPsp(state)'
  <2>1. CASE state' = state
    BY <2>1 DEF Types, WithinPsp
  <2>2. CASE state' = wf.work
    BY <2>2 DEF Types, WithinPsp, WorkflowType
  <2> QED BY <2>1, <2>2
<1>5. WithinPsp(wf.old)' /\ WithinPsp(wf.work)'
  BY <1>1 DEF WithinPsp
<1> QED BY <1>1, <1>2, <1>3, <1>4, <1>5 DEF Types, TablesOK

\* The workflow is idle or starts with the first state.
LEMMA IdleStep ==
    ASSUME FetchInv, wf.pc # "store", wf' \in {Idle, [Idle EXCEPT !.pc = "start"]},
           state' = state \/ state' = wf.work, errors' \in 0..MaxErrors, Tables',
           UNCHANGED <<plugin, psp, clock, tables, late, disturbed>>
    PROVE  FetchInv'
<1>1. PICK pc \in {"idle", "start"} : Fresh(wf', pc, StartState)
  <2>1. StartState \in StateType
    BY StartStateOK DEF FetchInv
  <2>2. CASE wf' = Idle
    BY <2>1, <2>2, IdleFresh
  <2>3. CASE wf' = [Idle EXCEPT !.pc = "start"]
    BY <2>1, <2>3, IdleFresh
  <2> QED BY <2>2, <2>3
<1>2. pc \in {"idle", "start", "fetch"} /\ pc # "fetch"
  OBVIOUS
<1>3. StartState \in StateType /\ WithinPsp(StartState) /\ Types
  BY StartStateOK DEF FetchInv
<1> DEFINE s == StartState
<1>4. s \in StateType /\ WithinPsp(s) /\ Fresh(wf', pc, s)
  BY <1>1, <1>3
<1> HIDE DEF s
<1>5. Types'
  BY <1>2, <1>3, <1>4, FreshTypes
<1>6. Records'
  BY DEF FetchInv, Records
<1>7. LateBatches'
  <2>1. \A b \in late : Ids(b) \subseteq Ids(tables.adjs)
    BY DEF FetchInv, LateBatches
  <2> QED BY <2>1 DEF LateBatches
<1> QED BY <1>2, <1>4, <1>5, <1>6, <1>7, FreshStep

\* The plugin is called with a state that is not ahead of the tables.
LEMMA CallStep ==
    ASSUME FetchInv, wf.pc # "store", NEW s \in StateType, WithinPsp(s),
           ~disturbed => \A i \in DOMAIN psp : PassedBy(s, i) => Ingested(i),
           wf' = PluginCall(s),
           state' = state \/ state' = wf.work, errors' \in 0..MaxErrors, Tables',
           UNCHANGED <<plugin, psp, clock, tables, late, disturbed>>
    PROVE  FetchInv'
<1> DEFINE pc == "fetch"
<1>1. Fresh(wf', pc, s) /\ pc \in {"idle", "start", "fetch"}
  BY IdleFresh
<1>2. Types
  BY DEF FetchInv
<1> HIDE DEF pc
<1>3. Types'
  BY <1>1, <1>2, FreshTypes
<1>4. Records'
  BY DEF FetchInv, Records
<1>5. LateBatches'
  <2>1. \A b \in late : Ids(b) \subseteq Ids(tables.adjs)
    BY DEF FetchInv, LateBatches
  <2> QED BY <2>1 DEF LateBatches
<1> QED BY <1>1, <1>3, <1>4, <1>5, FreshStep

\* The schedule's trigger and reading the state.
LEMMA StartSteps ==
    ASSUME FetchInv, TriggerFetch \/ StatesGet
    PROVE  FetchInv'
<1>1. errors \in 0..MaxErrors /\ state \in StateType /\ WithinPsp(state)
  BY DEF FetchInv, Types
<1>2. UNCHANGED <<plugin, psp, clock, state, tables, late, errors, disturbed>>
  BY DEF TriggerFetch, StatesGet
<1>3. Tables'
  BY <1>2, WorkflowOnly
<1>4. CASE TriggerFetch
  BY <1>1, <1>2, <1>3, <1>4, IdleStep DEF TriggerFetch
<1>5. CASE StatesGet
  <2>1. ~disturbed => \A i \in DOMAIN psp : PassedBy(state, i) => Ingested(i)
    BY DEF FetchInv, Tables
  <2>2. wf.pc # "store" /\ wf' = PluginCall(state)
    BY <1>5 DEF StatesGet
  <2> QED BY <1>1, <1>2, <1>3, <2>1, <2>2, CallStep
<1> QED BY <1>4, <1>5

\* A plugin call that fails and is repeated or ends the workflow.
LEMMA PluginErrorStep ==
    ASSUME FetchInv, PluginError
    PROVE  FetchInv'
<1>1. UNCHANGED <<plugin, psp, clock, state, tables, late, disturbed>>
  BY DEF PluginError
<1>2. errors' \in 0..MaxErrors
  BY FetchAssumption DEF PluginError, FetchInv, Types
<1>3. Tables'
  BY <1>1, WorkflowOnly
<1>4. wf.pc \in {"fetch", "list"} /\ wf' \in {PluginCall(wf.old), Idle}
  BY DEF PluginError
<1>5. CASE wf' = Idle
  BY <1>1, <1>2, <1>3, <1>4, <1>5, IdleStep
<1>6. CASE wf' = PluginCall(wf.old)
  <2> DEFINE s == wf.old
  <2>1. s \in StateType /\ WithinPsp(s)
    BY DEF FetchInv, Types, WorkflowType
  <2>2. ~disturbed => \A i \in DOMAIN psp : PassedBy(s, i) => Ingested(i)
    BY <1>4 DEF FetchInv, Calls
  <2>3. wf' = PluginCall(s)
    BY <1>6
  <2> HIDE DEF s
  <2> QED BY <1>1, <1>2, <1>3, <1>4, <2>1, <2>2, <2>3, CallStep
<1> QED BY <1>4, <1>5, <1>6

\* The workflow ends after it stored the payments, or saves the state.
LEMMA SaveSteps ==
    ASSUME FetchInv, NextTasksFail \/ StatesStore
    PROVE  FetchInv'
<1>1. UNCHANGED <<plugin, psp, clock, tables, late, disturbed>> /\ wf.pc = "save"
  BY DEF NextTasksFail, StatesStore
<1>2. errors' \in 0..MaxErrors
  BY FetchAssumption DEF NextTasksFail, StatesStore, FetchInv, Types
<1>3. CASE NextTasksFail
  <2>1. state' = state /\ wf' = Idle
    BY <1>3 DEF NextTasksFail
  <2>2. Tables'
    BY <1>1, <2>1, WorkflowOnly
  <2> QED BY <1>1, <1>2, <2>1, <2>2, IdleStep
<1>4. CASE StatesStore
  <2>1. state' = wf.work
    BY <1>4 DEF StatesStore
  <2>2. ~disturbed => \A i \in DOMAIN psp : PassedBy(wf.work, i) => Ingested(i)
    BY <1>1 DEF FetchInv, Answers
  <2>3. ~disturbed => \A i \in DOMAIN psp : PassedBy(state, i)' => Ingested(i)'
    BY <1>1, <2>1, <2>2 DEF PassedBy, Ingested, Report, AdjustmentID
  <2>4. Tables'
    <3>1. AmountsNetOf(tables)' /\ UniqueIds(tables.adjs)'
      BY <1>1 DEF FetchInv, Tables, AmountsNetOf, UniqueIds
    <3> HIDE DEF FetchInv
    <3> QED BY <1>1, <2>3, <3>1 DEF FetchInv, Tables
  <2>5. CASE wf' \in {Idle, [Idle EXCEPT !.pc = "start"]}
    BY <1>1, <1>2, <2>1, <2>4, <2>5, IdleStep
  <2>6. CASE wf' = PluginCall(wf.work)
    <3> DEFINE s == wf.work
    <3>1. s \in StateType /\ WithinPsp(s)
      BY DEF FetchInv, Types, WorkflowType
    <3>2. wf' = PluginCall(s) /\ state' = wf.work
      BY <2>1, <2>6
    <3>3. ~disturbed => \A i \in DOMAIN psp : PassedBy(s, i) => Ingested(i)
      BY <2>2
    <3> HIDE DEF s
    <3> QED BY <1>1, <1>2, <2>4, <3>1, <3>2, <3>3, CallStep
  <2> QED BY <1>4, <2>5, <2>6 DEF StatesStore
<1> QED BY <1>3, <1>4

-----------------------------------------------------------------------------
(* The answer of the generic plugin.                                       *)

\* What the plugin has collected has the types of the answer, disturbed or not.
FillTyped(total, current) ==
    /\ current \in Seq(DOMAIN psp) /\ Len(current) <= PageSize
    /\ total \in Seq(EntryType)
    /\ \A k \in DOMAIN total : total[k].at <= clock

LEMMA FillTypes ==
    ASSUME Types, Records,
           NEW current, current = ListTransactions(wf.page, FormatDate(wf.old.from))
    PROVE  FillTyped(FillPayments(current), current)
<1> DEFINE total == FillPayments(current)
           page == wf.page
           date == FormatDate(wf.old.from)
           S == UpdatedSince(date)
           m == Len(wf.acc)
           n == Len(total) - m
<1>1. wf.old.from \in Nat /\ psp \in Seq(RecordType) /\ page \in Nat \ {0} /\ wf.acc \in Seq(EntryType)
  BY DEF Types, WorkflowType, StateType
<1>2. date \in Int /\ current = ListTransactions(page, date)
  BY <1>1, FormatDateProperties
<1>3. current \in Seq(S) /\ Len(current) <= PageSize
  <2> HIDE DEF date, page
  <2>1. IsPage(current, date, (page - 1) * PageSize)
    BY <1>1, <1>2, PageProperties
  <2> QED BY <2>1 DEF IsPage
<1>4. S \subseteq DOMAIN psp
  BY DEF UpdatedSince
<1> HIDE DEF S
<1>5. Len(current) \in Nat /\ DOMAIN current = 1..Len(current) /\ \A k \in DOMAIN current : current[k] \in S
  BY <1>3, LenProperties
<1>6. current \in Seq(DOMAIN psp)
  <2>1. current = [k \in 1..Len(current) |-> current[k]]
    BY <1>3, <1>5
  <2>2. current \in [1..Len(current) -> DOMAIN psp]
    BY <1>4, <1>5, <2>1
  <2> QED BY <1>5, <2>2
<1>7. PICK at : Fills(at, total, current)
  BY <1>6, FillPaymentsFills
<1> HIDE DEF total
<1>8. /\ n \in Nat
      /\ total \in Seq(EntryType)
      /\ \A k \in 1..m : total[k] = wf.acc[k]
      /\ \A k \in 1..n : at[k] \in DOMAIN current /\ total[m + k] = EntryOf(current[at[k]])
  BY <1>7 DEF Fills
<1>9. m \in Nat /\ DOMAIN wf.acc = 1..m
  BY <1>1, LenProperties
<1>10. DOMAIN total = 1..Len(total) /\ Len(total) \in Nat
  BY <1>8, LenProperties
<1> HIDE DEF m
<1>11. ASSUME NEW k \in DOMAIN total PROVE total[k].at <= clock
  <2>1. CASE k \in 1..m
    BY <1>8, <1>9, <2>1 DEF Types
  <2>2. CASE k \notin 1..m
    <3> DEFINE h == k - m
    <3>1. h \in 1..n /\ k = m + h
      BY <1>9, <1>10, <2>2
    <3> HIDE DEF h, n
    <3>2. current[at[h]] \in DOMAIN psp /\ total[k] = EntryOf(current[at[h]])
      BY <1>4, <1>5, <1>8, <3>1
    <3>3. psp[current[at[h]]].updated <= clock
      BY <3>2 DEF Records, Types
    <3> QED BY <3>2, <3>3 DEF EntryOf
  <2> QED BY <2>1, <2>2
<1> QED BY <1>3, <1>6, <1>8, <1>11 DEF FillTyped, total

\* The first n of what the plugin has collected after N records of the list, and the
\* date of the last of them, are a good answer.
LEMMA GatheredAnswer ==
    ASSUME Types, Records, ~disturbed, plugin = "generic",
           \A i \in DOMAIN psp : PassedBy(wf.old, i) => Ingested(i),
           NEW total \in Seq(EntryType), NEW N \in Nat, Gathered(total, N),
           NEW n \in Nat, n <= Len(total), NEW s,
           s.from = IF n > 0 THEN total[n].at ELSE wf.old.from
    PROVE  GoodAnswer([k \in 1..n |-> total[k].report], s)
<1> DEFINE batch == [k \in 1..n |-> total[k].report]
           from == wf.old.from
           date == FormatDate(from)
           S == UpdatedSince(date)
<1>1. from \in Nat /\ psp \in Seq(RecordType)
  BY DEF Types, WorkflowType, StateType
<1>2. date \in Int
  <2> HIDE DEF from
  <2> QED BY <1>1, FormatDateProperties
<1>3. \A i \in DOMAIN psp : psp[i].updated > from => i \in S
  BY NewListed
<1>4. /\ \A k \in DOMAIN total :
           /\ total[k].report.ref \in DOMAIN psp
           /\ total[k].report = Report(total[k].report.ref)
           /\ total[k].at = psp[total[k].report.ref].updated
           /\ psp[total[k].report.ref].updated > from /\ Place(date, total[k].report.ref) <= N
      /\ \A k, l \in DOMAIN total : k < l => total[k].at < total[l].at
      /\ \A i \in DOMAIN psp :
           psp[i].updated > from =>
               \/ \E k \in DOMAIN total : total[k].report.ref = i
               \/ Place(date, i) > N
  BY DEF Gathered
<1> HIDE DEF date
<1>5. \A i, j \in S : Place(date, i) < Place(date, j) => psp[i].updated <= psp[j].updated
  BY <1>1, <1>2, PlaceOrder
<1>6. \A i \in S : Place(date, i) \in Nat
  <2>1. /\ Cardinality(UpdatedSince(date)) \in Nat
        /\ \A h \in UpdatedSince(date) : Place(date, h) \in 1..Cardinality(UpdatedSince(date))
    BY <1>1, <1>2, ListPlaces
  <2> QED BY <2>1
<1> HIDE DEF S
<1>7. DOMAIN total = 1..Len(total) /\ Len(total) \in Nat
  BY LenProperties
<1>8. \A i \in DOMAIN psp : psp[i].updated \in Nat /\ Report(i).ref = i /\ Report(i).root = psp[i].root
  BY <1>1, RecordTypes
<1>9. DOMAIN batch = 1..n /\ \A k \in 1..n : k \in DOMAIN total /\ batch[k] = total[k].report
  BY <1>7
<1> HIDE DEF batch
<1>10. \A i \in DOMAIN psp : psp[i].updated <= from => Ingested(i)
  BY DEF PassedBy
<1> HIDE DEF from
<1>11. ASSUME NEW k \in DOMAIN batch
       PROVE  batch[k].ref \in DOMAIN psp /\ batch[k] = Report(batch[k].ref)
  BY <1>4, <1>9
\* A new record that was updated before a collected one is collected before it.
<1>12. ASSUME NEW k \in DOMAIN total, NEW i \in DOMAIN psp,
              psp[i].updated > from, psp[i].updated < total[k].at
       PROVE  \E l \in 1..k : l \in DOMAIN total /\ total[l].report.ref = i
  <2> DEFINE j == total[k].report.ref
  <2>1. j \in S /\ i \in S /\ Place(date, j) <= N /\ total[k].at = psp[j].updated /\ j \in DOMAIN psp
    BY <1>3, <1>4, <1>12
  <2> HIDE DEF j
  <2>2. ~(Place(date, i) > N)
    <3> SUFFICES ASSUME Place(date, i) > N PROVE FALSE
      OBVIOUS
    <3>1. Place(date, j) < Place(date, i)
      BY <1>6, <2>1
    <3>2. psp[j].updated <= psp[i].updated
      BY <1>5, <2>1, <3>1
    <3> QED BY <1>8, <1>12, <2>1, <3>2
  <2>3. PICK l \in DOMAIN total : total[l].report.ref = i
    BY <1>4, <1>12, <2>2
  <2>4. total[l].at = psp[i].updated
    BY <1>4, <2>3
  <2>5. ~(k < l)
    <3> SUFFICES ASSUME k < l PROVE FALSE
      OBVIOUS
    <3>1. total[k].at < total[l].at
      BY <1>4
    <3> QED BY <1>8, <1>12, <2>1, <2>4, <3>1
  <2>6. l \in 1..k
    BY <1>7, <2>5
  <2> QED BY <2>3, <2>6
<1>13. RootedIn(batch, tables.adjs)
  <2> SUFFICES ASSUME NEW k \in DOMAIN batch
               PROVE  \/ \E j \in 1..k : batch[j].ref = batch[k].root
                      \/ \E i \in DOMAIN tables.adjs : tables.adjs[i].ref = batch[k].root
    BY DEF RootedIn
  <2> DEFINE i == batch[k].ref
             r == psp[i].root
  <2>1. i \in DOMAIN psp /\ batch[k].root = r /\ k \in DOMAIN total /\ total[k].at = psp[i].updated
        /\ k \in 1..n
    BY <1>4, <1>8, <1>9, <1>11
  <2> HIDE DEF i
  <2>2. r \in DOMAIN psp /\ (r # i => psp[r].updated < psp[i].updated)
    <3>1. r \in 1..i /\ i \in 1..Len(psp) /\ Len(psp) \in Nat /\ DOMAIN psp = 1..Len(psp)
      BY <1>1, <2>1, LenProperties DEF Records
    <3>2. r # i => psp[r].updated < psp[i].updated
      BY <2>1 DEF Records
    <3> HIDE DEF r
    <3> QED BY <3>1, <3>2
  <2>3. CASE r = i
    <3>1. k \in 1..k
      BY <2>1
    <3> QED BY <2>1, <2>3, <3>1 DEF i
  <2>4. CASE r # i /\ psp[r].updated <= from
    <3>1. Ingested(r)
      BY <1>10, <2>2, <2>4
    <3>2. PICK h \in DOMAIN tables.adjs : AdjustmentID(tables.adjs[h]) = AdjustmentID(Report(r))
      BY <3>1 DEF Ingested
    <3>3. tables.adjs[h].ref = Report(r).ref
      BY <3>2 DEF AdjustmentID
    <3> QED BY <1>8, <2>1, <2>2, <3>3
  <2>5. CASE r # i /\ psp[r].updated > from
    <3>1. PICK l \in 1..k : l \in DOMAIN total /\ total[l].report.ref = r
      BY <1>12, <2>1, <2>2, <2>5
    <3>2. l \in 1..n
      BY <2>1
    <3>3. batch[l].ref = r
      BY <1>9, <3>1, <3>2
    <3> QED BY <2>1, <3>3
  <2>6. psp[r].updated \in Nat
    BY <1>8, <2>2
  <2> QED BY <1>1, <2>3, <2>4, <2>5, <2>6 DEF from
<1>14. ASSUME NEW i \in DOMAIN psp, PassedBy(s, i)
       PROVE  Ingested(i) \/ \E k \in DOMAIN batch : batch[k] = Report(i)
  <2>1. psp[i].updated <= s.from
    BY <1>14 DEF PassedBy
  <2>2. CASE psp[i].updated <= from
    BY <1>10, <2>2
  <2>3. CASE n > 0 /\ psp[i].updated > from
    <3>1. n \in DOMAIN total /\ n \in 1..n /\ s.from = total[n].at
      BY <1>7, <2>3
    <3>2. total[n].at = psp[total[n].report.ref].updated /\ total[n].report.ref \in DOMAIN psp
      BY <1>4, <3>1
    <3>3. CASE i = total[n].report.ref
      <4>1. batch[n] = Report(i)
        BY <1>4, <1>9, <3>1, <3>3
      <4> QED BY <1>9, <3>1, <4>1
    <3>4. CASE i # total[n].report.ref
      <4>1. psp[i].updated < total[n].at
        <5>1. psp[i].updated # total[n].at
          BY <3>2, <3>4 DEF Records
        <5> QED BY <1>8, <2>1, <3>1, <3>2, <5>1
      <4>2. PICK l \in 1..n : l \in DOMAIN total /\ total[l].report.ref = i
        BY <1>12, <2>3, <3>1, <4>1
      <4>3. batch[l] = Report(i)
        BY <1>4, <1>9, <4>2
      <4> QED BY <1>9, <4>2, <4>3
    <3> QED BY <3>3, <3>4
  <2>4. psp[i].updated \in Nat /\ (~(n > 0) => s.from = from)
    BY <1>8 DEF from
  <2> QED BY <1>1, <2>1, <2>2, <2>3, <2>4 DEF from
<1> QED BY <1>11, <1>13, <1>14 DEF GoodAnswer, batch

\* One page of the generic plugin.
LEMMA GenericPageStep ==
    ASSUME FetchInv, GenericPage
    PROVE  FetchInv'
<1> DEFINE current == ListTransactions(wf.page, FormatDate(wf.old.from))
           total == FillPayments(current)
           lo == (wf.page - 1) * PageSize
<1>1. /\ plugin = "generic" /\ wf.pc = "fetch"
      /\ UNCHANGED <<plugin, psp, clock, state, tables, late, errors, disturbed>>
      /\ \/ /\ NeedMore(total) /\ HasMore(total, current)
            /\ wf' = [wf EXCEPT !.acc = total, !.page = @ + 1]
         \/ GenericAnswer(total, HasMore(total, current))
  BY DEF GenericPage
<1>2. Types /\ Records /\ wf \in WorkflowType /\ PageSize \in Nat /\ PageSize >= 2
      /\ wf.page \in Nat /\ wf.page # 0
  BY FetchAssumption DEF FetchInv, Types, WorkflowType
<1>3. FillTyped(total, current)
  BY <1>2, FillTypes
<1>4. lo \in Nat
  <2>1. \A a, b \in Nat : a * b \in Nat
    OBVIOUS
  <2>2. wf.page - 1 \in Nat
    BY <1>2
  <2> QED BY <1>2, <2>1, <2>2
<1>5. ~disturbed => PageGathers(lo, current, total)
  <2>1. ~disturbed => Gathered(wf.acc, lo)
    BY <1>1 DEF FetchInv, GenericCalls
  <2>2. current = ListTransactions(wf.page, FormatDate(wf.old.from)) /\ lo = (wf.page - 1) * PageSize
    OBVIOUS
  <2> HIDE DEF current, lo
  <2> QED BY <1>2, <1>4, <2>1, <2>2, FillGathers
<1>6. ~disturbed => \A i \in DOMAIN psp : PassedBy(wf.old, i) => Ingested(i)
  BY <1>1 DEF FetchInv, Calls
<1>7. wf.page * PageSize = lo + PageSize
  BY <1>2
<1> HIDE DEF current, total, lo
<1>8. total \in Seq(EntryType) /\ Len(current) <= PageSize /\ \A k \in DOMAIN total : total[k].at <= clock
  BY <1>3 DEF FillTyped
<1>9. Len(total) \in Nat /\ DOMAIN total = 1..Len(total) /\ \A k \in DOMAIN total : total[k] \in EntryType
  BY <1>8, LenProperties
<1>10. Len(current) \in Nat
  BY <1>3, LenProperties DEF FillTyped
<1>11. CASE /\ NeedMore(total) /\ HasMore(total, current)
            /\ wf' = [wf EXCEPT !.acc = total, !.page = @ + 1]
  <2>1. Records' /\ Tables'
    BY <1>1, WorkflowOnly
  <2>2. /\ wf' \in WorkflowType /\ wf'.acc = total /\ wf'.page = wf.page + 1
        /\ wf'.pc = "fetch" /\ wf'.old = wf.old /\ wf'.work = wf.work /\ wf'.batch = wf.batch
    <3>1. wf.page + 1 \in Nat \ {0}
      BY <1>2
    <3> QED BY <1>1, <1>2, <1>8, <1>11, <3>1 DEF WorkflowType
  <2>3. Types'
    BY <1>1, <1>2, <1>8, <2>2 DEF Types, WithinPsp, TablesOK
  <2>4. Calls' /\ StripeCalls' /\ Answers'
    <3>1. Calls'
      BY <1>1, <1>6, <2>2 DEF Calls, PassedBy, Ingested, Report, AdjustmentID
    <3> QED BY <1>1, <2>2, <3>1 DEF StripeCalls, Answers
  <2>5. GenericCalls'
    <3>1. Len(current) = PageSize
      BY <1>2, <1>8, <1>9, <1>10, <1>11 DEF NeedMore, HasMore
    <3>2. (wf'.page - 1) * PageSize = lo + Len(current)
      <4>1. wf'.page - 1 = wf.page
        BY <1>2, <2>2
      <4> QED BY <1>7, <3>1, <4>1
    <3>3. ~disturbed => Gathered(total, lo + Len(current))
      BY <1>5 DEF PageGathers
    <3>4. wf'.page # 1
      BY <1>2, <2>2
    <3>5. ASSUME ~disturbed PROVE Gathered(wf.acc, (wf.page - 1) * PageSize)'
      <4> DEFINE N == lo + Len(current)
      <4>1. Gathered(total, N)
        BY <3>3, <3>5
      <4>2. (wf'.page - 1) * PageSize = N
        BY <3>2
      <4> HIDE DEF N
      <4> QED BY <1>1, <2>2, <4>1, <4>2 DEF Gathered, Place, UpdatedSince, NotAfter, FormatDate, Report
    <3> QED BY <1>1, <2>2, <3>4, <3>5 DEF GenericCalls
  <2>6. LateBatches'
    <3>1. \A b \in late : Ids(b) \subseteq Ids(tables.adjs)
      BY <1>1 DEF FetchInv, LateBatches
    <3> QED BY <1>1, <3>1 DEF LateBatches
  <2> QED BY <2>1, <2>3, <2>4, <2>5, <2>6 DEF FetchInv
<1>12. CASE GenericAnswer(total, HasMore(total, current))
  <2> DEFINE n == IF NeedMore(total) THEN Len(total) ELSE PageSize
             batch == [k \in 1..n |-> total[k].report]
             s == [wf.old EXCEPT !.from = IF n > 0 THEN total[n].at ELSE @]
             more == HasMore(total, current)
  <2>1. Answer(batch, s, more)
    BY <1>12 DEF GenericAnswer
  <2>2. n \in Nat /\ n <= Len(total) /\ n <= PageSize
    BY <1>2, <1>9 DEF NeedMore
  <2> HIDE DEF n
  <2>3. batch \in Seq(ReportType) /\ Len(batch) = n
    <3>1. batch \in [1..n -> ReportType]
      <4>1. \A k \in 1..n : total[k].report \in ReportType
        BY <1>9, <2>2 DEF EntryType
      <4> QED BY <4>1
    <3> HIDE DEF batch
    <3> QED BY <2>2, <3>1
  <2>4. more \in BOOLEAN
    BY DEF HasMore
  <2>5. wf.old \in StateType /\ WithinPsp(wf.old)
    BY <1>2 DEF Types, WorkflowType
  <2>6. s.from = IF n > 0 THEN total[n].at ELSE wf.old.from
    BY <2>5 DEF StateType
  <2>7. s \in StateType /\ WithinPsp(s)
    <3>1. CASE n > 0
      <4>1. n \in DOMAIN total
        BY <1>9, <2>2, <3>1
      <4>2. total[n].at \in Nat /\ total[n].at <= clock
        BY <1>8, <1>9, <4>1 DEF EntryType
      <4> QED BY <2>5, <3>1, <4>2 DEF StateType, WithinPsp
    <3>2. CASE ~(n > 0)
      BY <2>5, <3>2 DEF StateType, WithinPsp
    <3> QED BY <3>1, <3>2
  <2>8. ~disturbed => GoodAnswer(batch, s)
    <3> SUFFICES ASSUME ~disturbed PROVE GoodAnswer(batch, s)
      OBVIOUS
    <3> DEFINE N == lo + Len(current)
    <3>1. Gathered(total, N) /\ N \in Nat
      BY <1>4, <1>5, <1>10 DEF PageGathers
    <3>2. batch = [k \in 1..n |-> total[k].report]
      OBVIOUS
    <3> HIDE DEF N, s, batch
    <3> QED BY <1>1, <1>2, <1>6, <1>8, <2>2, <2>6, <3>1, <3>2, GatheredAnswer
  <2> HIDE DEF s, batch, more
  <2>9. Len(batch) <= PageSize
    BY <2>2, <2>3
  <2> QED BY <1>1, <2>1, <2>3, <2>4, <2>7, <2>8, <2>9, AnswerStep
<1> QED BY <1>1, <1>11, <1>12

-----------------------------------------------------------------------------
(* The Stripe plugin.                                                      *)

\* The reports of what was collected.
Collected == [k \in DOMAIN wf.acc |-> wf.acc[k].report]

LEMMA CollectedTypes ==
    ASSUME Types
    PROVE  /\ Collected \in Seq(ReportType) /\ Len(Collected) = Len(wf.acc)
           /\ Len(wf.acc) \in Nat /\ DOMAIN Collected = 1..Len(wf.acc)
           /\ \A k \in 1..Len(wf.acc) : Collected[k] = wf.acc[k].report
<1>1. wf.acc \in Seq(EntryType)
  BY DEF Types, WorkflowType
<1>2. Len(wf.acc) \in Nat /\ DOMAIN wf.acc = 1..Len(wf.acc) /\ \A k \in DOMAIN wf.acc : wf.acc[k] \in EntryType
  BY <1>1, LenProperties
<1> DEFINE n == Len(wf.acc)
<1>3. Collected \in [1..n -> ReportType]
  <2>1. \A k \in 1..n : wf.acc[k].report \in ReportType
    BY <1>2 DEF EntryType
  <2> QED BY <1>2, <2>1 DEF Collected
<1>4. \A k \in 1..n : Collected[k] = wf.acc[k].report
  BY <1>2 DEF Collected
<1>5. n \in Nat
  BY <1>2
<1> HIDE DEF n
<1>6. Collected \in Seq(ReportType) /\ Len(Collected) = n /\ DOMAIN Collected = 1..n
  BY <1>3, <1>5
<1> QED BY <1>4, <1>5, <1>6 DEF n

\* What was collected, and then the k records after the one at latest, oldest first.
Timeline(all, latest, k) ==
    LET a == Len(wf.acc)
    IN  /\ all \in Seq(ReportType) /\ Len(all) = a + k
        /\ \A h \in 1..a : all[h] = wf.acc[h].report
        /\ \A j \in 1..k : all[a + j] = Report(latest + j)

\* The list newest first, turned around, goes on from where the timeline ended.
LEMMA TimelineGoesOn ==
    ASSUME Types, NEW latest \in 0..Len(psp), NEW n \in Nat
    PROVE  \E k \in 0..n :
              /\ latest + k <= Len(psp)
              /\ Timeline(Collected \o Reports(Reverse(EndingBefore(latest, n))), latest, k)
<1> DEFINE m == Len(psp) - latest
           k == IF n <= m THEN n ELSE m
           newer == EndingBefore(latest, n)
           older == Reverse(newer)
           reps == Reports(older)
           all == Collected \o reps
           a == Len(wf.acc)
<1>1. psp \in Seq(RecordType) /\ Len(psp) \in Nat /\ DOMAIN psp = 1..Len(psp)
  BY RecordTypes DEF Types
<1>2. m \in Nat /\ k \in 0..n /\ k <= m /\ k \in Nat /\ latest + k <= Len(psp)
  BY <1>1
<1>3. newer = [j \in 1..k |-> latest + k - j + 1]
  BY DEF EndingBefore
<1> HIDE DEF m, k, newer
<1>4. newer \in Seq(Nat) /\ Len(newer) = k
  <2>1. newer \in [1..k -> Nat]
    BY <1>2, <1>3
  <2> QED BY <1>2, <2>1
<1>5. older = [j \in 1..k |-> newer[(k - j) + 1]]
  BY <1>4 DEF Reverse
<1>6. older = [j \in 1..k |-> latest + j]
  <2>1. \A j \in 1..k : newer[(k - j) + 1] = latest + j
    <3> TAKE j \in 1..k
    <3>1. (k - j) + 1 \in 1..k
      BY <1>2
    <3>2. newer[(k - j) + 1] = latest + k - ((k - j) + 1) + 1
      BY <1>3, <3>1
    <3> QED BY <1>2, <3>2
  <2> QED BY <1>5, <2>1
<1> HIDE DEF older
<1>7. DOMAIN reps = 1..k /\ \A j \in 1..k : reps[j] = Report(latest + j)
  BY <1>6 DEF Reports
<1>8. reps \in Seq(ReportType) /\ Len(reps) = k
  <2>1. \A j \in 1..k : Report(latest + j) \in ReportType
    <3> TAKE j \in 1..k
    <3>1. latest + j \in DOMAIN psp
      BY <1>1, <1>2
    <3> QED BY <1>1, <3>1, RecordTypes
  <2>2. reps = [j \in 1..k |-> Report(latest + j)]
    BY <1>6 DEF Reports
  <2>3. reps \in [1..k -> ReportType]
    BY <2>1, <2>2
  <2> HIDE DEF reps
  <2> QED BY <1>2, <2>3
<1>9. /\ Collected \in Seq(ReportType) /\ Len(Collected) = a /\ a \in Nat
      /\ \A h \in 1..a : Collected[h] = wf.acc[h].report
  BY CollectedTypes
<1> HIDE DEF reps, a
<1>10. /\ all \in Seq(ReportType) /\ Len(all) = Len(Collected) + Len(reps)
       /\ \A i \in 1..(Len(Collected) + Len(reps)) :
            all[i] = IF i <= Len(Collected) THEN Collected[i] ELSE reps[i - Len(Collected)]
  BY <1>8, <1>9, ConcatProperties
<1> HIDE DEF all
<1>11. \A i \in 1..(a + k) : all[i] = IF i <= a THEN Collected[i] ELSE reps[i - a]
  BY <1>8, <1>9, <1>10
<1>12. \A h \in 1..a : all[h] = wf.acc[h].report
  <2> TAKE h \in 1..a
  <2>1. h \in 1..(a + k) /\ h <= a
    BY <1>2, <1>9
  <2> QED BY <1>9, <1>11, <2>1
<1>13. \A j \in 1..k : all[a + j] = Report(latest + j)
  <2> TAKE j \in 1..k
  <2>1. a + j \in 1..(a + k) /\ ~(a + j <= a) /\ (a + j) - a = j
    BY <1>2, <1>9
  <2>2. all[a + j] = reps[j]
    BY <1>11, <2>1
  <2> QED BY <1>7, <2>2
<1>14. Len(all) = a + k
  BY <1>8, <1>9, <1>10
<1>15. Timeline(all, latest, k)
  BY <1>10, <1>12, <1>13, <1>14 DEF Timeline, a
<1> QED BY <1>2, <1>15 DEF all, reps, older, newer

\* The timeline up to record latest + k is a good answer.
LEMMA TimelineAnswers ==
    ASSUME FetchInv, ~disturbed, plugin = "stripe", wf.pc \in {"fetch", "list"},
           NEW k \in Nat, wf.work.latest + k <= Len(psp),
           NEW all, Timeline(all, wf.work.latest, k),
           NEW s, s.latest = wf.work.latest + k
    PROVE  GoodAnswer(all, s)
<1> DEFINE latest == wf.work.latest
           a == Len(wf.acc)
<1>1. psp \in Seq(RecordType) /\ Len(psp) \in Nat /\ DOMAIN psp = 1..Len(psp)
  BY RecordTypes DEF FetchInv, Types
<1>2. latest \in Nat /\ a \in Nat
  <2>1. Types
    BY DEF FetchInv
  <2> QED BY <2>1, CollectedTypes DEF Types, WorkflowType, StateType
<1>3. /\ all \in Seq(ReportType) /\ Len(all) = a + k /\ DOMAIN all = 1..(a + k)
      /\ \A h \in 1..a : all[h] = wf.acc[h].report
      /\ \A j \in 1..k : all[a + j] = Report(latest + j)
  <2>1. /\ all \in Seq(ReportType) /\ Len(all) = a + k
        /\ \A h \in 1..a : all[h] = wf.acc[h].report
        /\ \A j \in 1..k : all[a + j] = Report(latest + j)
    BY DEF Timeline
  <2>2. DOMAIN all = 1..Len(all)
    BY <2>1, LenProperties
  <2> QED BY <2>1, <2>2
\* What is not after latest is stored, or it is the oldest record and collected.
<1>4. /\ a = 0 \/ (a = 1 /\ latest = 1 /\ all[1] = Report(1) /\ 1 \in DOMAIN psp)
      /\ \A i \in DOMAIN psp : i <= latest => Ingested(i) \/ (a = 1 /\ i = 1)
  <2>1. CASE wf.pc = "fetch"
    <3>1. a = 0
      BY <2>1 DEF FetchInv, StripeCalls
    <3>2. latest = wf.old.latest
      BY <2>1 DEF FetchInv, StripeCalls
    <3>3. \A i \in DOMAIN psp : i <= latest => Ingested(i)
      BY <2>1, <3>2 DEF FetchInv, Calls, PassedBy
    <3> QED BY <3>1, <3>3
  <2>2. CASE wf.pc = "list"
    <3>1. a = 1 /\ latest = 1 /\ Len(psp) >= 1 /\ wf.acc[1].report = Report(1)
      BY <2>2 DEF FetchInv, StripeCalls
    <3>2. 1 \in 1..a /\ 1 \in DOMAIN psp
      BY <1>1, <3>1
    <3>3. all[1] = Report(1)
      BY <1>3, <3>1, <3>2
    <3>4. \A i \in DOMAIN psp : i <= latest => i = 1
      BY <1>1, <3>1
    <3> QED BY <3>1, <3>2, <3>3, <3>4
  <2> QED BY <2>1, <2>2
<1>5. \A i \in DOMAIN psp : Report(i).ref = i /\ Report(i).root = psp[i].root
  BY <1>1, RecordTypes
<1>6. latest + k <= Len(psp) /\ s.latest = latest + k
  OBVIOUS
<1> HIDE DEF latest, a
\* Where record i is in the answer.
<1>7. ASSUME NEW i \in DOMAIN psp, i <= latest + k, i > latest \/ (a = 1 /\ i = 1)
      PROVE  \E h \in DOMAIN all : all[h] = Report(i) /\ h <= IF i > latest THEN a + (i - latest) ELSE 1
  <2>1. CASE i > latest
    <3> DEFINE j == i - latest
    <3>1. j \in 1..k /\ a + j \in DOMAIN all /\ i = latest + j
      BY <1>1, <1>2, <1>3, <1>7, <2>1
    <3> HIDE DEF j
    <3>2. all[a + j] = Report(i)
      BY <1>3, <3>1
    <3>3. a + (i - latest) = a + j
      BY <1>2, <3>1
    <3>4. a + j <= a + j
      BY <1>2, <3>1
    <3> QED BY <2>1, <3>1, <3>2, <3>3, <3>4
  <2>2. CASE ~(i > latest)
    <3>1. 1 \in DOMAIN all /\ all[1] = Report(i)
      BY <1>2, <1>3, <1>4, <1>7, <2>2
    <3> QED BY <2>2, <3>1
  <2> QED BY <2>1, <2>2
\* Which record an entry of the answer is of.
<1>8. ASSUME NEW h \in DOMAIN all
      PROVE  \E i \in DOMAIN psp :
                /\ all[h] = Report(i)
                /\ \/ i > latest /\ i <= latest + k /\ h = a + (i - latest)
                   \/ i = 1 /\ a = 1 /\ h = 1
  <2>1. CASE h <= a
    <3>1. a = 1 /\ h = 1
      BY <1>2, <1>3, <1>4, <2>1
    <3> QED BY <1>4, <3>1
  <2>2. CASE ~(h <= a)
    <3> DEFINE j == h - a
               i == latest + j
    <3>1. j \in 1..k /\ h = a + j
      BY <1>2, <1>3, <2>2
    <3>2. i \in DOMAIN psp /\ i > latest /\ i <= latest + k /\ i - latest = j
      BY <1>1, <1>2, <1>6, <3>1
    <3> HIDE DEF j
    <3>3. all[h] = Report(i)
      BY <1>3, <3>1
    <3> HIDE DEF i
    <3> QED BY <3>1, <3>2, <3>3
  <2> QED BY <2>1, <2>2
<1>9. ASSUME NEW h \in DOMAIN all
      PROVE  all[h].ref \in DOMAIN psp /\ all[h] = Report(all[h].ref)
  <2>1. PICK i \in DOMAIN psp : all[h] = Report(i)
    BY <1>8
  <2> QED BY <1>5, <2>1
<1>10. RootedIn(all, tables.adjs)
  <2> SUFFICES ASSUME NEW h \in DOMAIN all
               PROVE  \/ \E j \in 1..h : all[j].ref = all[h].root
                      \/ \E j \in DOMAIN tables.adjs : tables.adjs[j].ref = all[h].root
    BY DEF RootedIn
  <2>1. PICK i \in DOMAIN psp :
                /\ all[h] = Report(i)
                /\ \/ i > latest /\ i <= latest + k /\ h = a + (i - latest)
                   \/ i = 1 /\ a = 1 /\ h = 1
    BY <1>8
  <2> DEFINE r == psp[i].root
  <2>2. r \in 1..i
    BY DEF FetchInv, Records
  <2>3. all[h].root = r
    BY <1>5, <2>1
  <2> HIDE DEF r
  <2>4. r \in DOMAIN psp /\ r \in Nat /\ r <= i /\ r >= 1 /\ i \in Nat /\ h \in Nat /\ h >= 1
    BY <1>1, <1>2, <1>3, <2>2
  <2>5. CASE r > latest \/ (a = 1 /\ r = 1)
    <3>1. r <= latest + k
      BY <1>2, <1>4, <2>1, <2>4, <2>5
    <3>2. PICK j \in DOMAIN all : all[j] = Report(r) /\ j <= IF r > latest THEN a + (r - latest) ELSE 1
      BY <1>7, <2>4, <2>5, <3>1
    <3>3. j \in 1..h
      <4>1. j \in Nat /\ j >= 1
        BY <1>2, <1>3
      <4>2. CASE r > latest
        <5>1. j <= a + (r - latest)
          BY <3>2, <4>2
        <5> QED BY <1>2, <1>4, <2>1, <2>4, <4>1, <4>2, <5>1
      <4>3. CASE ~(r > latest)
        BY <2>4, <3>2, <4>1, <4>3
      <4> QED BY <4>2, <4>3
    <3> QED BY <1>5, <2>3, <2>4, <3>2, <3>3
  <2>6. CASE ~(r > latest \/ (a = 1 /\ r = 1))
    <3>1. Ingested(r)
      BY <1>2, <1>4, <2>4, <2>6
    <3>2. PICK j \in DOMAIN tables.adjs : AdjustmentID(tables.adjs[j]) = AdjustmentID(Report(r))
      BY <3>1 DEF Ingested
    <3>3. tables.adjs[j].ref = Report(r).ref
      BY <3>2 DEF AdjustmentID
    <3> QED BY <1>5, <2>3, <2>4, <3>3
  <2> QED BY <2>5, <2>6
<1>11. ASSUME NEW i \in DOMAIN psp, PassedBy(s, i)
       PROVE  Ingested(i) \/ \E h \in DOMAIN all : all[h] = Report(i)
  <2>1. i <= latest + k
    BY <1>6, <1>11 DEF PassedBy
  <2>2. CASE i > latest \/ (a = 1 /\ i = 1)
    BY <1>7, <2>1, <2>2
  <2>3. CASE ~(i > latest \/ (a = 1 /\ i = 1))
    BY <1>1, <1>2, <1>4, <2>3
  <2> QED BY <2>2, <2>3
<1> QED BY <1>9, <1>10, <1>11 DEF GoodAnswer

\* The last report of the timeline gives the new state.
LEMMA TimelineAnswerStep ==
    ASSUME FetchInv, plugin = "stripe", wf.pc \in {"fetch", "list"},
           wf.work.latest # 0, NEW n \in Nat, n + Len(wf.acc) <= PageSize, NEW hasMore \in BOOLEAN,
           TimelineAnswer(Collected, EndingBefore(wf.work.latest, n), hasMore),
           UNCHANGED <<plugin, psp, clock, state, tables, late, errors, disturbed>>
    PROVE  FetchInv'
<1> DEFINE latest == wf.work.latest
           a == Len(wf.acc)
           all == Collected \o Reports(Reverse(EndingBefore(latest, n)))
           s == [wf.work EXCEPT !.latest = IF all = <<>> THEN @ ELSE all[Len(all)].ref]
<1>1. Types /\ wf.work \in StateType /\ WithinPsp(wf.work)
  BY DEF FetchInv, Types, WorkflowType
<1>2. Len(psp) \in Nat /\ DOMAIN psp = 1..Len(psp) /\ \A i \in DOMAIN psp : Report(i).ref = i
  BY <1>1, RecordTypes DEF Types
<1>3. latest \in 0..Len(psp) /\ a \in Nat /\ PageSize \in Nat
  <2>1. latest \in Nat /\ latest <= Len(psp)
    BY <1>1 DEF StateType, WithinPsp
  <2>2. a \in Nat
    BY <1>1, CollectedTypes
  <2> HIDE DEF latest, a
  <2> QED BY <1>2, <2>1, <2>2, FetchAssumption
<1>4. Answer(all, s, hasMore)
  BY DEF TimelineAnswer
<1>5. PICK k \in 0..n : latest + k <= Len(psp) /\ Timeline(all, latest, k)
  <2> HIDE DEF latest
  <2> QED BY <1>1, <1>3, TimelineGoesOn
<1>6. /\ all \in Seq(ReportType) /\ Len(all) = a + k
      /\ \A h \in 1..a : all[h] = wf.acc[h].report
      /\ \A j \in 1..k : all[a + j] = Report(latest + j)
  BY <1>5 DEF Timeline
<1>7. s.latest = IF all = <<>> THEN latest ELSE all[Len(all)].ref
  BY <1>1 DEF StateType
<1> HIDE DEF all, s
<1>8. s.latest = latest + k
  <2>1. CASE k > 0
    <3>0. k \in Nat /\ k >= 1 /\ latest + k <= Len(psp) /\ Len(all) = a + k
      BY <1>5, <1>6, <2>1
    <3>1. k \in 1..k /\ latest + k \in DOMAIN psp /\ Len(all) # 0
      <4> HIDE DEF latest, a
      <4> QED BY <1>2, <1>3, <3>0
    <3>2. all[a + k] = Report(latest + k)
      BY <1>6, <3>1
    <3>3. all # <<>>
      BY <3>1
    <3>4. all[Len(all)].ref = Report(latest + k).ref
      BY <1>6, <3>2
    <3>5. Report(latest + k).ref = latest + k
      BY <1>2, <3>1
    <3> QED BY <1>7, <3>3, <3>4, <3>5
  <2>2. CASE ~(k > 0) /\ a = 0
    <3>1. k = 0 /\ Len(all) = 0
      BY <1>3, <1>6, <2>2
    <3>2. all = <<>>
      BY <1>6, <3>1
    <3> QED BY <1>3, <1>7, <3>1, <3>2
  <2>3. CASE ~(k > 0) /\ a # 0
    <3>1. latest = 1 /\ a = 1 /\ wf.acc[1].report = Report(1) /\ Len(psp) >= 1
      BY <2>3 DEF FetchInv, StripeCalls
    <3>2. k = 0 /\ Len(all) = 1 /\ 1 \in 1..a /\ 1 \in DOMAIN psp
      BY <1>2, <1>6, <2>3, <3>1
    <3>3. all[1] = Report(1) /\ all # <<>>
      BY <1>6, <3>1, <3>2
    <3> QED BY <1>2, <1>7, <3>1, <3>2, <3>3
  <2> QED BY <2>1, <2>2, <2>3
<1>9. s \in StateType /\ WithinPsp(s)
  <2>1. s = [wf.work EXCEPT !.latest = s.latest]
    BY <1>7 DEF s
  <2>2. s.latest \in Nat /\ s.latest <= Len(psp)
    BY <1>3, <1>5, <1>8
  <2> QED BY <1>1, <2>1, <2>2 DEF StateType, WithinPsp
<1>10. ~disturbed => GoodAnswer(all, s)
  <2>1. k \in Nat /\ wf.work.latest + k <= Len(psp) /\ Timeline(all, wf.work.latest, k)
        /\ s.latest = wf.work.latest + k
    BY <1>5, <1>8
  <2> QED BY <2>1, TimelineAnswers
<1>11. Len(all) <= PageSize
  BY <1>3, <1>6
<1> QED BY <1>4, <1>6, <1>9, <1>10, <1>11, AnswerStep

\* Listing what is new.
LEMMA ListRecentStep ==
    ASSUME FetchInv, ListRecent
    PROVE  FetchInv'
<1> DEFINE n == PageSize - Len(wf.acc)
           newer == EndingBefore(wf.work.latest, n)
           more == wf.work.latest + Len(newer) < Len(psp)
<1>1. /\ plugin = "stripe" /\ wf.pc \in {"fetch", "list"} /\ wf.work.latest # 0
      /\ TimelineAnswer(Collected, EndingBefore(wf.work.latest, n), more)
      /\ UNCHANGED <<plugin, psp, clock, state, tables, late, errors, disturbed>>
  BY DEF ListRecent, Collected
<1>2. Len(wf.acc) \in Nat /\ Len(wf.acc) <= 1
  <2>1. Types
    BY DEF FetchInv
  <2> QED BY <1>1, <2>1, CollectedTypes DEF Types
<1>3. n \in Nat /\ n + Len(wf.acc) <= PageSize
  BY <1>2, FetchAssumption
<1>4. more \in BOOLEAN
  OBVIOUS
<1> HIDE DEF n, more
<1> QED BY <1>1, <1>3, <1>4, TimelineAnswerStep

\* The timer ends the search for the oldest record.
LEMMA ScanTimerStep ==
    ASSUME FetchInv, ScanTimer
    PROVE  FetchInv'
<1>1. /\ plugin = "stripe" /\ wf.pc \in {"fetch", "list"}
      /\ Answer(Collected, wf.work, TRUE)
      /\ UNCHANGED <<plugin, psp, clock, state, tables, late, errors, disturbed>>
  BY DEF ScanTimer, Collected
<1>2. Types /\ wf.work \in StateType /\ WithinPsp(wf.work)
  BY DEF FetchInv, Types, WorkflowType
<1>3. /\ Collected \in Seq(ReportType) /\ Len(Collected) = Len(wf.acc)
      /\ Len(wf.acc) \in Nat /\ Len(wf.acc) <= 1
      /\ \A k \in 1..Len(wf.acc) : Collected[k] = wf.acc[k].report
  BY <1>1, <1>2, CollectedTypes DEF Types
<1>4. Len(Collected) <= PageSize
  BY <1>3, FetchAssumption
<1> DEFINE s == wf.work
           more == TRUE
<1>5. s.latest \in Nat /\ s.latest <= Len(psp)
  BY <1>2 DEF StateType, WithinPsp
<1>6. Timeline(Collected, wf.work.latest, 0)
  BY <1>3 DEF Timeline
<1>7. ~disturbed => GoodAnswer(Collected, s)
  <2>1. 0 \in Nat /\ wf.work.latest + 0 <= Len(psp) /\ s.latest = wf.work.latest + 0
    BY <1>5
  <2> HIDE DEF s
  <2> QED BY <1>1, <1>6, <2>1, TimelineAnswers
<1>8. s \in StateType /\ WithinPsp(s) /\ Answer(Collected, s, more) /\ more \in BOOLEAN
  BY <1>1, <1>2
<1> HIDE DEF s, more
<1> QED BY <1>1, <1>3, <1>4, <1>7, <1>8, AnswerStep

\* Searching for the oldest record.
LEMMA ScanForOldestStep ==
    ASSUME FetchInv, ScanForOldest
    PROVE  FetchInv'
<1> DEFINE backlog == wf.work.backlog
           top == IF backlog = 0 THEN Len(psp) ELSE backlog - 1
           n == IF PageSize <= top THEN PageSize ELSE top
           listed == StartingAfter(backlog, PageSize)
           oldest == listed[Len(listed)]
<1>1. /\ plugin = "stripe" /\ wf.pc = "fetch" /\ wf.work.latest = 0
      /\ UNCHANGED <<plugin, psp, clock, state, tables, late, errors, disturbed>>
      /\ \/ /\ listed = <<>>
            /\ Answer(<<>>, wf.work, FALSE)
         \/ /\ listed # <<>> /\ oldest > 1
            /\ wf' = [wf EXCEPT !.work.backlog = oldest]
         \/ /\ listed # <<>> /\ oldest = 1
            /\ wf' = [wf EXCEPT !.work.latest = oldest, !.pc = "list",
                                !.acc = <<[report |-> Report(oldest), at |-> 0]>>]
  BY DEF ScanForOldest
<1>2. Types /\ wf \in WorkflowType /\ wf.work \in StateType /\ WithinPsp(wf.work)
  BY DEF FetchInv, Types, WorkflowType
<1>3. psp \in Seq(RecordType) /\ Len(psp) \in Nat /\ DOMAIN psp = 1..Len(psp)
  BY <1>2, RecordTypes DEF Types
<1>4. backlog \in Nat /\ backlog <= Len(psp)
  BY <1>2 DEF StateType, WithinPsp
<1>5. top \in Nat /\ top <= Len(psp) /\ PageSize \in Nat
  <2> HIDE DEF backlog
  <2> QED BY <1>3, <1>4, FetchAssumption
<1>6. listed = [k \in 1..n |-> top - k + 1]
  BY DEF StartingAfter
<1> HIDE DEF backlog, top, listed
<1>7. n \in Nat /\ n <= top
  BY <1>5
<1> HIDE DEF n
<1>8. listed # <<>> => oldest \in 1..Len(psp)
  <2>1. listed \in [1..n -> Int]
    BY <1>5, <1>6, <1>7
  <2>2. listed \in Seq(Int) /\ Len(listed) = n
    BY <1>7, <2>1
  <2>3. listed # <<>> => n # 0
    BY <2>2
  <2>4. n # 0 => n \in 1..n
    BY <1>7
  <2>5. n # 0 => oldest = top - n + 1
    BY <1>6, <2>2, <2>4
  <2> HIDE DEF oldest
  <2> QED BY <1>3, <1>5, <1>7, <2>3, <2>5
<1> HIDE DEF oldest
<1>9. wf.acc = <<>> /\ wf.work.latest = wf.old.latest
  BY <1>1 DEF FetchInv, StripeCalls
<1>10. CASE Answer(<<>>, wf.work, FALSE)
  <2> DEFINE s == wf.work
             more == FALSE
             none == <<>>
  <2>1. none \in Seq(ReportType) /\ Len(none) <= PageSize /\ more \in BOOLEAN
    BY <1>5
  <2>2. ASSUME ~disturbed PROVE GoodAnswer(none, s)
    <3>1. \A i \in DOMAIN psp : ~PassedBy(s, i)
      BY <1>1, <1>3 DEF PassedBy
    <3>2. RootedIn(none, tables.adjs)
      BY DEF RootedIn
    <3> QED BY <3>1, <3>2 DEF GoodAnswer
  <2>3. s \in StateType /\ WithinPsp(s) /\ Answer(none, s, more)
    BY <1>2, <1>10
  <2> HIDE DEF s, more, none
  <2> QED BY <1>1, <2>1, <2>2, <2>3, AnswerStep
<1>11. ASSUME NEW s \in StateType, WithinPsp(s), NEW acc \in Seq(EntryType), NEW pc \in {"fetch", "list"},
              wf' = [wf EXCEPT !.work = s, !.acc = acc, !.pc = pc],
              \/ pc = "fetch" /\ acc = <<>> /\ s.latest = wf.work.latest
              \/ /\ pc = "list" /\ s.latest = 1 /\ Len(acc) = 1 /\ Len(psp) >= 1
                 /\ acc[1].report = Report(1) /\ acc[1].at = 0
       PROVE  FetchInv'
  <2>1. Records' /\ Tables'
    BY <1>1, WorkflowOnly
  <2>2. /\ wf' \in WorkflowType /\ wf'.pc = pc /\ wf'.old = wf.old /\ wf'.work = s
        /\ wf'.acc = acc /\ wf'.batch = wf.batch
    BY <1>2, <1>11 DEF WorkflowType
  <2>3. Len(acc) <= 1 /\ \A k \in DOMAIN acc : acc[k].at <= clock
    <3>1. CASE acc = <<>>
      BY <3>1
    <3>2. CASE Len(acc) = 1 /\ acc[1].at = 0
      <4>1. DOMAIN acc = 1..1
        BY <3>2, LenProperties
      <4>2. 0 <= clock
        BY <1>2 DEF Types
      <4> QED BY <3>2, <4>1, <4>2
    <3> QED BY <1>11, <3>1, <3>2
  <2>4. Types'
    BY <1>1, <1>2, <1>11, <2>2, <2>3 DEF Types, WithinPsp, TablesOK
  <2>5. Calls'
    <3>1. ~disturbed => \A i \in DOMAIN psp : PassedBy(wf.old, i) => Ingested(i)
      BY <1>1 DEF FetchInv, Calls
    <3> QED BY <1>1, <2>2, <3>1 DEF Calls, PassedBy, Ingested, Report, AdjustmentID
  <2>6. GenericCalls' /\ Answers'
    BY <1>1, <1>11, <2>2 DEF GenericCalls, Answers
  <2>7. StripeCalls'
    BY <1>1, <1>9, <1>11, <2>2 DEF StripeCalls, Report
  <2>8. LateBatches'
    <3>1. \A b \in late : Ids(b) \subseteq Ids(tables.adjs)
      BY <1>1 DEF FetchInv, LateBatches
    <3> QED BY <1>1, <3>1 DEF LateBatches
  <2> QED BY <2>1, <2>4, <2>5, <2>6, <2>7, <2>8 DEF FetchInv
<1>12. CASE listed # <<>> /\ wf' = [wf EXCEPT !.work.backlog = oldest]
  <2> DEFINE s == [wf.work EXCEPT !.backlog = oldest]
             acc == <<>>
             pc == "fetch"
  <2>1. s \in StateType /\ WithinPsp(s) /\ s.latest = wf.work.latest
    BY <1>2, <1>3, <1>8, <1>12 DEF StateType, WithinPsp
  <2>2. wf' = [wf EXCEPT !.work = s, !.acc = acc, !.pc = pc]
    BY <1>1, <1>2, <1>9, <1>12 DEF WorkflowType
  <2>3. acc \in Seq(EntryType) /\ pc = "fetch" /\ acc = <<>>
    OBVIOUS
  <2> HIDE DEF s, acc, pc
  <2> QED BY <1>11, <2>1, <2>2, <2>3
<1>13. CASE /\ listed # <<>> /\ oldest = 1
            /\ wf' = [wf EXCEPT !.work.latest = oldest, !.pc = "list",
                                !.acc = <<[report |-> Report(oldest), at |-> 0]>>]
  <2> DEFINE s == [wf.work EXCEPT !.latest = oldest]
             acc == <<[report |-> Report(oldest), at |-> 0]>>
             pc == "list"
  <2>1. Len(psp) >= 1 /\ 1 \in DOMAIN psp
    BY <1>3, <1>8, <1>13
  <2>2. s \in StateType /\ WithinPsp(s) /\ s.latest = 1
    BY <1>2, <1>3, <1>13, <2>1 DEF StateType, WithinPsp
  <2>3. wf' = [wf EXCEPT !.work = s, !.acc = acc, !.pc = pc]
    BY <1>2, <1>13 DEF WorkflowType
  <2>4. Report(1) \in ReportType
    BY <1>3, <2>1, RecordTypes
  <2>5. acc \in Seq(EntryType) /\ Len(acc) = 1 /\ acc[1].report = Report(1) /\ acc[1].at = 0
    BY <1>13, <2>4 DEF EntryType
  <2>6. pc = "list"
    OBVIOUS
  <2> HIDE DEF s, acc, pc
  <2> QED BY <1>11, <2>1, <2>2, <2>3, <2>5, <2>6
<1> QED BY <1>1, <1>10, <1>12, <1>13

-----------------------------------------------------------------------------
(* Storing.                                                                *)

\* The batch b may be stored in this state: it brings nothing new, or current
\* reports after the payment they belong to.
Storable(b) ==
    \/ Ids(b) \subseteq Ids(tables.adjs)
    \/ /\ \A k \in DOMAIN b : b[k].ref \in DOMAIN psp /\ b[k] = Report(b[k].ref)
       /\ RootedIn(b, tables.adjs)

\* What the tables hold before, they hold after, and the batch too.
Grown(b) ==
    /\ Ids(tables.adjs) \subseteq Ids(tables'.adjs)
    /\ Ids(b) \subseteq Ids(tables'.adjs)
    /\ \A r : (\E i \in DOMAIN tables.adjs : tables.adjs[i].ref = r)
                => \E i \in DOMAIN tables'.adjs : tables'.adjs[i].ref = r

\* A record is stored when its key is among those of the adjustments.
LEMMA IngestedIds == \A i : Ingested(i) <=> AdjustmentID(Report(i)) \in Ids(tables.adjs)
<1> TAKE i
<1> DEFINE id == AdjustmentID(Report(i))
           s == tables.adjs
<1>1. Ingested(i) <=> \E k \in DOMAIN s : AdjustmentID(s[k]) = id
  BY DEF Ingested
<1>2. Ids(s) = {AdjustmentID(s[k]) : k \in DOMAIN s}
  BY DEF Ids
<1> HIDE DEF id, s
<1>3. id \in Ids(s) <=> \E k \in DOMAIN s : AdjustmentID(s[k]) = id
  BY <1>2
<1> QED BY <1>1, <1>3 DEF id, s

\* A record whose key is among those stored by a step is stored after it.
LEMMA IngestedAfter ==
    ASSUME UNCHANGED psp
    PROVE  \A i : AdjustmentID(Report(i)) \in Ids(tables'.adjs) => Ingested(i)'
<1> TAKE i
<1> HAVE AdjustmentID(Report(i)) \in Ids(tables'.adjs)
<1> DEFINE t == tables'.adjs
           id == AdjustmentID(Report(i))
<1>1. id \in Ids(t)
  OBVIOUS
<1> HIDE DEF t, id
<1>2. PICK k \in DOMAIN t : AdjustmentID(t[k]) = id
  BY <1>1 DEF Ids
<1>3. Report(i)' = Report(i)
  BY DEF Report
<1> QED BY <1>2, <1>3 DEF Ingested, AdjustmentID, t, id

\* Storing a batch keeps what the tables promise.
LEMMA UpsertStep ==
    ASSUME FetchInv, NEW b \in Seq(ReportType), ~disturbed => Storable(b),
           tables' = PaymentsUpsert(tables, b),
           UNCHANGED <<plugin, psp, clock, state, disturbed>>
    PROVE  TablesOK(tables') /\ Tables' /\ Grown(b)
<1> DEFINE s == tables.adjs
           t == tables'.adjs
<1>1. s \in Seq(ReportType) /\ TablesOK(tables) /\ AmountsNetOf(tables) /\ UniqueIds(s)
  BY DEF FetchInv, Types, Tables, TablesOK
<1>2. TablesOK(tables') /\ AmountsNetOf(tables')
  <2> DEFINE old == tables
             new == tables'
  <2>1. TablesOK(old) /\ AmountsNetOf(old) /\ new = PaymentsUpsert(old, b)
    BY <1>1
  <2> HIDE DEF old, new
  <2>2. TablesOK(new) /\ AmountsNetOf(new)
    BY <2>1, UpsertKeepsAmounts
  <2> QED BY <2>2 DEF new
<1>3. t = s \o Inserted(s, b)
  BY DEF PaymentsUpsert
<1> HIDE DEF t
<1>4. StoredTable(t, s, b)
  <2> HIDE DEF s
  <2> QED BY <1>1, <1>3, StoredAdjustments
<1>5. /\ t \in Seq(ReportType) /\ Len(s) <= Len(t) /\ DOMAIN s \subseteq DOMAIN t
      /\ \A i \in DOMAIN s : t[i] = s[i]
      /\ \A k \in DOMAIN t \ DOMAIN s :
           \E i \in DOMAIN b : t[k] = b[i] /\ AdjustmentID(b[i]) \notin Ids(s)
      /\ \A i \in DOMAIN b : \E k \in DOMAIN t : AdjustmentID(t[k]) = AdjustmentID(b[i])
      /\ UniqueIds(t)
      /\ Ids(b) \subseteq Ids(s) => t = s
  BY <1>1, <1>4 DEF StoredTable
<1>6. Grown(b)
  <2>1. Ids(s) \subseteq Ids(t)
    BY <1>5 DEF Ids
  <2>2. Ids(b) \subseteq Ids(t)
    BY <1>5 DEF Ids
  <2>3. ASSUME NEW r, NEW i \in DOMAIN s, s[i].ref = r
        PROVE  \E j \in DOMAIN t : t[j].ref = r
    BY <1>5, <2>3
  <2> QED BY <2>1, <2>2, <2>3 DEF Grown, t
<1>7. /\ Len(s) \in Nat /\ DOMAIN s = 1..Len(s) /\ Len(t) \in Nat /\ DOMAIN t = 1..Len(t)
  BY <1>1, <1>5, LenProperties
<1>8. ASSUME ~disturbed
      PROVE  /\ \A k \in DOMAIN t :
                  /\ t[k].ref \in DOMAIN psp
                  /\ t[k].root = psp[t[k].ref].root /\ t[k].created = psp[t[k].ref].created
                  /\ t[k].status \in {psp[t[k].ref].status, "PENDING"}
             /\ \A k, l \in DOMAIN t : k < l /\ t[k].ref = t[l].ref => t[k].status = "PENDING"
             /\ Rooted(t)
             /\ \A i \in DOMAIN psp : PassedBy(state, i) => AdjustmentID(Report(i)) \in Ids(t)
  <2>1. /\ \A k \in DOMAIN s :
             /\ s[k].ref \in DOMAIN psp
             /\ s[k].root = psp[s[k].ref].root /\ s[k].created = psp[s[k].ref].created
             /\ s[k].status \in {psp[s[k].ref].status, "PENDING"}
        /\ \A k, l \in DOMAIN s : k < l /\ s[k].ref = s[l].ref => s[k].status = "PENDING"
        /\ Rooted(s)
        /\ \A i \in DOMAIN psp : PassedBy(state, i) => Ingested(i)
    BY <1>8 DEF FetchInv, Tables
  <2> HIDE DEF s
  \* An adjustment that is added is the current report of its record.
  <2>2. \A k \in DOMAIN t \ DOMAIN s : t[k].ref \in DOMAIN psp /\ t[k] = Report(t[k].ref)
    <3> TAKE k \in DOMAIN t \ DOMAIN s
    <3>1. PICK i \in DOMAIN b : t[k] = b[i] /\ AdjustmentID(b[i]) \notin Ids(s)
      BY <1>5
    <3>2. ~(Ids(b) \subseteq Ids(s))
      BY <3>1 DEF Ids
    <3> QED BY <1>8, <3>1, <3>2 DEF Storable, s
  <2>3. \A i \in DOMAIN psp : /\ Report(i).root = psp[i].root /\ Report(i).created = psp[i].created
                              /\ Report(i).status = psp[i].status
    BY RecordTypes DEF FetchInv, Types
  <2>4. \A k \in DOMAIN t :
             /\ t[k].ref \in DOMAIN psp
             /\ t[k].root = psp[t[k].ref].root /\ t[k].created = psp[t[k].ref].created
             /\ t[k].status \in {psp[t[k].ref].status, "PENDING"}
    <3> TAKE k \in DOMAIN t
    <3>1. CASE k \in DOMAIN s
      BY <1>5, <2>1, <3>1
    <3>2. CASE k \notin DOMAIN s
      BY <2>2, <2>3, <3>2
    <3> QED BY <3>1, <3>2
  <2>5. ASSUME NEW k \in DOMAIN t, NEW l \in DOMAIN t, k < l, t[k].ref = t[l].ref
        PROVE  t[k].status = "PENDING"
    <3>1. CASE l \in DOMAIN s
      <4>1. k \in DOMAIN s
        BY <1>7, <2>5, <3>1
      <4> QED BY <1>5, <2>1, <2>5, <3>1, <4>1
    <3>2. CASE l \notin DOMAIN s
      <4> SUFFICES ASSUME t[k].status # "PENDING" PROVE FALSE
        OBVIOUS
      <4>1. t[l].root = psp[t[l].ref].root /\ t[l].created = psp[t[l].ref].created
            /\ t[l].status = psp[t[l].ref].status
        BY <2>2, <2>3, <3>2
      <4>2. t[k].root = psp[t[l].ref].root /\ t[k].created = psp[t[l].ref].created
            /\ t[k].status = psp[t[l].ref].status
        BY <2>4, <2>5
      <4>3. AdjustmentID(t[k]) = AdjustmentID(t[l])
        BY <2>5, <4>1, <4>2 DEF AdjustmentID
      <4>4. k = l
        BY <1>5, <4>3 DEF UniqueIds
      <4> QED BY <1>7, <2>5, <4>4
    <3> QED BY <3>1, <3>2
  <2>6. Rooted(t)
    <3>1. CASE Ids(b) \subseteq Ids(s)
      BY <1>5, <2>1, <3>1
    <3>2. CASE RootedIn(b, s)
      BY <1>1, <1>3, <2>1, <3>2, StoredRooted DEF s
    <3> QED BY <1>8, <3>1, <3>2 DEF Storable, s
  <2>7. ASSUME NEW i \in DOMAIN psp, PassedBy(state, i)
        PROVE  AdjustmentID(Report(i)) \in Ids(t)
    <3>1. AdjustmentID(Report(i)) \in Ids(s)
      BY <2>1, <2>7, IngestedIds DEF s
    <3> QED BY <1>6, <3>1 DEF Grown, t, s
  <2> QED BY <2>4, <2>5, <2>6, <2>7
<1>9. Tables'
  <2>1. \A i : AdjustmentID(Report(i)) \in Ids(t) => Ingested(i)'
    BY IngestedAfter DEF t
  <2>2. \A i \in DOMAIN psp : PassedBy(state, i)' => PassedBy(state, i)
    BY DEF PassedBy
  <2>3. ~disturbed => \A i \in DOMAIN psp : PassedBy(state, i)' => Ingested(i)'
    BY <1>8, <2>1, <2>2
  <2>4. AmountsNetOf(tables)' /\ UniqueIds(tables.adjs)'
    BY <1>2, <1>5 DEF t, UniqueIds, AmountsNetOf
  <2>5. ASSUME ~disturbed
        PROVE  /\ \A k \in DOMAIN tables'.adjs :
                    LET a == tables'.adjs[k]
                    IN  /\ a.ref \in DOMAIN psp
                        /\ a.root = psp[a.ref].root /\ a.created = psp[a.ref].created
                        /\ a.status \in {psp[a.ref].status, "PENDING"}
               /\ \A k, l \in DOMAIN tables'.adjs :
                    k < l /\ tables'.adjs[k].ref = tables'.adjs[l].ref
                       => tables'.adjs[k].status = "PENDING"
               /\ Rooted(tables'.adjs)
    BY <1>8, <2>5 DEF t
  <2> QED BY <2>3, <2>4, <2>5 DEF Tables
<1> QED BY <1>2, <1>6, <1>9

\* Storing the page.
LEMMA StorePaymentsStep ==
    ASSUME FetchInv, StorePayments
    PROVE  FetchInv'
<1> DEFINE b == wf.batch
<1>1. /\ wf.pc = "store" /\ wf' = [wf EXCEPT !.pc = "save"]
      /\ UNCHANGED <<plugin, psp, clock, state, late, errors, disturbed>>
      /\ \/ b = <<>> /\ tables' = tables
         \/ b # <<>> /\ tables' = PaymentsUpsert(tables, b)
  BY DEF StorePayments
<1>2. Types /\ wf \in WorkflowType /\ b \in Seq(ReportType)
  BY DEF FetchInv, Types, WorkflowType
<1>3. TablesOK(tables') /\ Tables' /\ Grown(b)
  <2>1. CASE b = <<>> /\ tables' = tables
    <3>1. Tables'
      BY <1>1, <2>1, WorkflowOnly
    <3>2. Grown(b)
      BY <2>1 DEF Grown, Ids
    <3> QED BY <1>2, <2>1, <3>1, <3>2 DEF Types
  <2>2. CASE tables' = PaymentsUpsert(tables, b)
    <3>1. ~disturbed => Storable(b)
      BY <1>1 DEF FetchInv, Answers, Storable
    <3> HIDE DEF b
    <3> QED BY <1>1, <1>2, <2>2, <3>1, UpsertStep
  <2> QED BY <1>1, <2>1, <2>2
<1>4. /\ wf' \in WorkflowType /\ wf'.pc = "save" /\ wf'.old = wf.old /\ wf'.work = wf.work
      /\ wf'.acc = wf.acc /\ wf'.batch = wf.batch
  BY <1>1, <1>2 DEF WorkflowType
<1>5. Types'
  BY <1>1, <1>2, <1>3, <1>4 DEF Types, WithinPsp
<1>6. Records'
  BY <1>1 DEF FetchInv, Records
<1>7. Calls' /\ GenericCalls' /\ StripeCalls'
  BY <1>4 DEF Calls, GenericCalls, StripeCalls
<1>8. Ids(tables.adjs) \subseteq Ids(tables'.adjs) /\ Ids(b) \subseteq Ids(tables'.adjs)
  BY <1>3 DEF Grown
<1>9. Answers'
  <2> SUFFICES ASSUME ~disturbed
               PROVE  /\ \A k \in DOMAIN b : b[k].ref \in DOMAIN psp /\ b[k] = Report(b[k].ref)
                      /\ \A i \in DOMAIN psp : PassedBy(wf.work, i) => Ingested(i)'
    BY <1>1, <1>4 DEF Answers, PassedBy, Report
  <2>1. \A k \in DOMAIN b : b[k].ref \in DOMAIN psp /\ b[k] = Report(b[k].ref)
    BY <1>1 DEF FetchInv, Answers
  <2>2. ASSUME NEW i \in DOMAIN psp, PassedBy(wf.work, i)
        PROVE  Ingested(i)'
    <3>1. Ingested(i) \/ \E k \in DOMAIN b : b[k] = Report(i)
      BY <1>1, <2>2 DEF FetchInv, Answers
    <3>2. \A r : AdjustmentID(Report(r)) \in Ids(tables'.adjs) => Ingested(r)'
      BY <1>1, IngestedAfter
    <3>3. CASE Ingested(i)
      BY <1>8, <3>2, <3>3, IngestedIds
    <3>4. CASE \E k \in DOMAIN b : b[k] = Report(i)
      <4>1. AdjustmentID(Report(i)) \in Ids(b)
        BY <3>4 DEF Ids
      <4> QED BY <1>8, <3>2, <4>1
    <3> QED BY <3>1, <3>3, <3>4
  <2> QED BY <2>1, <2>2
<1>10. LateBatches'
  <2> SUFFICES ASSUME NEW c \in late PROVE Ids(c) \subseteq Ids(tables'.adjs)
    BY <1>1 DEF LateBatches
  <2>1. c = b \/ Ids(c) \subseteq Ids(tables.adjs)
    BY DEF FetchInv, LateBatches
  <2> QED BY <1>8, <2>1
<1> QED BY <1>3, <1>5, <1>6, <1>7, <1>9, <1>10 DEF FetchInv

\* A batch that arrives late.
LEMMA LateStoreStep ==
    ASSUME FetchInv, NEW b \in late, LateStore(b)
    PROVE  FetchInv'
<1>1. /\ tables' = PaymentsUpsert(tables, b) /\ late' = late \ {b}
      /\ UNCHANGED <<plugin, psp, clock, state, wf, errors, disturbed>>
  BY DEF LateStore
<1>2. Types /\ b \in Seq(ReportType)
  BY DEF FetchInv, Types
<1>3. ~disturbed => Storable(b)
  <2>1. (wf.pc = "store" /\ b = wf.batch) \/ Ids(b) \subseteq Ids(tables.adjs)
    BY DEF FetchInv, LateBatches
  <2> QED BY <2>1 DEF FetchInv, Answers, Storable
<1>4. TablesOK(tables') /\ Tables' /\ Grown(b)
  BY <1>1, <1>2, <1>3, UpsertStep
<1>5. Types'
  BY <1>1, <1>2, <1>4 DEF Types, WithinPsp
<1>6. Records'
  BY <1>1 DEF FetchInv, Records
<1>7. Ids(tables.adjs) \subseteq Ids(tables'.adjs)
  BY <1>4 DEF Grown
<1>8. \A i : Ingested(i) => Ingested(i)'
  BY <1>1, <1>7, IngestedAfter, IngestedIds
<1>9. Calls'
  <2>1. wf.pc \in {"fetch", "list"} /\ ~disturbed =>
          \A i \in DOMAIN psp : PassedBy(wf.old, i) => Ingested(i)
    BY DEF FetchInv, Calls
  <2>2. \A i : PassedBy(wf.old, i)' <=> PassedBy(wf.old, i)
    BY <1>1 DEF PassedBy
  <2> QED BY <1>1, <1>8, <2>1, <2>2 DEF Calls
<1>10. GenericCalls' /\ StripeCalls'
  <2>1. GenericCalls'
    BY <1>1 DEF FetchInv, GenericCalls, Gathered, Place, UpdatedSince, NotAfter, FormatDate, Report
  <2>2. StripeCalls'
    BY <1>1 DEF FetchInv, StripeCalls, Report
  <2> QED BY <2>1, <2>2
<1>11. Answers'
  <2> SUFFICES ASSUME wf.pc \in {"store", "save"}, ~disturbed
               PROVE  /\ \A k \in DOMAIN wf.batch :
                           wf.batch[k].ref \in DOMAIN psp /\ wf.batch[k] = Report(wf.batch[k].ref)
                      /\ wf.pc = "store" => RootedIn(wf.batch, tables'.adjs)
                      /\ \A i \in DOMAIN psp : PassedBy(wf.work, i) =>
                           \/ Ingested(i)'
                           \/ wf.pc = "store" /\ \E k \in DOMAIN wf.batch : wf.batch[k] = Report(i)
    <3>1. \A i : Report(i)' = Report(i) /\ (PassedBy(wf.work, i)' <=> PassedBy(wf.work, i))
      BY <1>1 DEF Report, PassedBy
    <3> QED BY <1>1, <3>1 DEF Answers, RootedIn
  <2>1. /\ \A k \in DOMAIN wf.batch :
             wf.batch[k].ref \in DOMAIN psp /\ wf.batch[k] = Report(wf.batch[k].ref)
        /\ wf.pc = "store" => RootedIn(wf.batch, tables.adjs)
        /\ \A i \in DOMAIN psp : PassedBy(wf.work, i) =>
             \/ Ingested(i)
             \/ wf.pc = "store" /\ \E k \in DOMAIN wf.batch : wf.batch[k] = Report(i)
    BY DEF FetchInv, Answers
  <2>2. wf.pc = "store" => RootedIn(wf.batch, tables'.adjs)
    BY <1>4, <2>1 DEF RootedIn, Grown
  <2> QED BY <1>8, <2>1, <2>2
<1>12. LateBatches'
  <2> SUFFICES ASSUME NEW c \in late
               PROVE  (wf.pc = "store" /\ c = wf.batch) \/ Ids(c) \subseteq Ids(tables'.adjs)
    BY <1>1 DEF LateBatches
  <2>1. (wf.pc = "store" /\ c = wf.batch) \/ Ids(c) \subseteq Ids(tables.adjs)
    BY DEF FetchInv, LateBatches
  <2> QED BY <1>7, <2>1
<1> QED BY <1>4, <1>5, <1>6, <1>9, <1>10, <1>11, <1>12 DEF FetchInv

\* A storing activity that times out.
LEMMA StoreTimeoutStep ==
    ASSUME FetchInv, StoreTimeout
    PROVE  FetchInv'
<1>1. /\ wf.pc = "store" /\ late' = late \cup {wf.batch} /\ errors < MaxErrors /\ errors' = errors + 1
      /\ UNCHANGED <<plugin, psp, clock, state, tables, wf, disturbed>>
  BY DEF StoreTimeout
<1>2. Records' /\ Tables'
  BY <1>1, WorkflowOnly
<1>3. Types /\ wf.batch \in Seq(ReportType)
  BY DEF FetchInv, Types, WorkflowType
<1>4. errors' \in 0..MaxErrors
  BY <1>1, <1>3, FetchAssumption DEF Types
<1>5. Types'
  BY <1>1, <1>3, <1>4 DEF Types, WithinPsp, TablesOK
<1>6. Calls' /\ GenericCalls' /\ StripeCalls'
  BY <1>1 DEF Calls, GenericCalls, StripeCalls
<1>7. Answers'
  BY <1>1 DEF FetchInv, Answers, RootedIn, PassedBy, Ingested, Report, AdjustmentID
<1>8. LateBatches'
  BY <1>1 DEF FetchInv, LateBatches, Ids, AdjustmentID
<1> QED BY <1>2, <1>5, <1>6, <1>7, <1>8 DEF FetchInv

-----------------------------------------------------------------------------
(* The PSP.                                                                *)

\* How the records may change while a plugin call is under way: records are added
\* at the end, and undisturbed only a pending one changes; what is new or changed
\* is dated after everything that was there.
PspMoves ==
    /\ psp' \in Seq(RecordType) /\ Len(psp) <= Len(psp') /\ Len(psp') <= MaxTransactions
    /\ clock' \in Nat /\ clock <= clock'
    /\ disturbed' \in BOOLEAN /\ (~disturbed' => ~disturbed)
    /\ plugin = "stripe" => \A i \in DOMAIN psp : psp'[i] = psp[i]
    /\ ~disturbed' =>
         /\ \A i \in DOMAIN psp :
              \/ psp'[i] = psp[i]
              \/ /\ psp'[i].root = psp[i].root /\ psp'[i].created = psp[i].created
                 /\ psp[i].status = "PENDING" /\ psp'[i].updated > clock
         /\ \A i \in DOMAIN psp' \ DOMAIN psp : psp'[i].updated > clock

LEMMA PspStep ==
    ASSUME FetchInv, Observed, PspMoves, Records', Types' => GenericCalls',
           UNCHANGED <<plugin, state, tables, wf, late, errors>>
    PROVE  FetchInv'
<1>1. wf.pc \in {"fetch", "list"}
  BY DEF Observed
<1>2. Types /\ psp \in Seq(RecordType) /\ psp' \in Seq(RecordType) /\ clock \in Nat /\ clock' \in Nat
  BY DEF FetchInv, Types, PspMoves
<1>3. /\ Len(psp) \in Nat /\ DOMAIN psp = 1..Len(psp)
      /\ Len(psp') \in Nat /\ DOMAIN psp' = 1..Len(psp')
      /\ \A i \in DOMAIN psp' : psp'[i].updated \in Nat
  <2>1. \A i \in DOMAIN psp' : psp'[i] \in RecordType
    BY <1>2, LenProperties
  <2> QED BY <1>2, <2>1, LenProperties DEF RecordType
<1>4. DOMAIN psp \subseteq DOMAIN psp'
  BY <1>3 DEF PspMoves
<1>5. Types'
  <2>1. \A s \in StateType : WithinPsp(s) => s.from <= clock' /\ s.latest <= Len(psp') /\ s.backlog <= Len(psp')
    BY <1>2, <1>3 DEF PspMoves, WithinPsp, StateType
  <2>2. state \in StateType /\ wf.old \in StateType /\ wf.work \in StateType
        /\ WithinPsp(state) /\ WithinPsp(wf.old) /\ WithinPsp(wf.work)
    BY <1>2 DEF Types, WorkflowType
  <2>3. WithinPsp(state)' /\ WithinPsp(wf.old)' /\ WithinPsp(wf.work)'
    BY <2>1, <2>2 DEF WithinPsp
  <2>4. \A k \in DOMAIN wf.acc : wf.acc[k].at <= clock'
    <3> TAKE k \in DOMAIN wf.acc
    <3>1. wf.acc \in Seq(EntryType)
      BY <1>2 DEF Types, WorkflowType
    <3>2. wf.acc[k] \in EntryType
      BY <3>1, LenProperties
    <3>3. wf.acc[k].at \in Nat /\ wf.acc[k].at <= clock
      BY <1>2, <3>2 DEF Types, EntryType
    <3> QED BY <1>2, <3>3 DEF PspMoves
  <2> QED BY <1>2, <2>2, <2>3, <2>4 DEF Types, PspMoves, TablesOK
\* A record that a state is past is one that did not change.
<1>6. ASSUME ~disturbed', NEW s \in StateType, WithinPsp(s), NEW i \in DOMAIN psp',
             IF plugin = "generic" THEN psp'[i].updated <= s.from ELSE i <= s.latest
      PROVE  i \in DOMAIN psp /\ psp'[i] = psp[i] /\ PassedBy(s, i)
  <2>1. s.from \in Nat /\ s.from <= clock /\ s.latest \in Nat /\ s.latest <= Len(psp)
    BY <1>6 DEF StateType, WithinPsp
  <2>2. plugin = "generic" \/ plugin = "stripe"
    BY <1>2, FetchAssumption DEF Types
  <2>3. i \in DOMAIN psp /\ psp'[i] = psp[i]
    <3>1. CASE plugin = "generic"
      <4>1. ~(psp'[i].updated > clock)
        BY <1>2, <1>3, <1>6, <2>1, <3>1
      <4> QED BY <1>6, <4>1 DEF PspMoves
    <3>2. CASE plugin = "stripe"
      <4>1. i \in DOMAIN psp
        BY <1>3, <1>6, <2>1, <3>2
      <4> QED BY <3>2, <4>1 DEF PspMoves
    <3> QED BY <2>2, <3>1, <3>2
  <2> QED BY <1>6, <2>3 DEF PassedBy
<1>7. \A i \in DOMAIN psp : psp'[i] = psp[i] /\ Ingested(i) => Ingested(i)'
  BY DEF Ingested, Report, AdjustmentID
<1>8. ~disturbed' => ~disturbed
  BY DEF PspMoves
<1>9. Tables'
  <2>1. AmountsNetOf(tables)' /\ UniqueIds(tables.adjs)'
    BY DEF FetchInv, Tables, AmountsNetOf, UniqueIds, AdjustmentID
  <2> DEFINE s == tables.adjs
  <2> SUFFICES ASSUME ~disturbed'
               PROVE  /\ \A k \in DOMAIN s :
                           /\ s[k].ref \in DOMAIN psp'
                           /\ s[k].root = psp'[s[k].ref].root /\ s[k].created = psp'[s[k].ref].created
                           /\ s[k].status \in {psp'[s[k].ref].status, "PENDING"}
                      /\ \A k, l \in DOMAIN s : k < l /\ s[k].ref = s[l].ref => s[k].status = "PENDING"
                      /\ Rooted(s)
                      /\ \A i \in DOMAIN psp' : PassedBy(state, i)' => Ingested(i)'
    BY <2>1 DEF Tables, Rooted
  <2>2. /\ \A k \in DOMAIN s :
             /\ s[k].ref \in DOMAIN psp
             /\ s[k].root = psp[s[k].ref].root /\ s[k].created = psp[s[k].ref].created
             /\ s[k].status \in {psp[s[k].ref].status, "PENDING"}
        /\ \A k, l \in DOMAIN s : k < l /\ s[k].ref = s[l].ref => s[k].status = "PENDING"
        /\ Rooted(s)
        /\ \A i \in DOMAIN psp : PassedBy(state, i) => Ingested(i)
    BY <1>8 DEF FetchInv, Tables
  <2> HIDE DEF s
  <2>3. \A k \in DOMAIN s :
             /\ s[k].ref \in DOMAIN psp'
             /\ s[k].root = psp'[s[k].ref].root /\ s[k].created = psp'[s[k].ref].created
             /\ s[k].status \in {psp'[s[k].ref].status, "PENDING"}
    BY <1>4, <2>2 DEF PspMoves
  <2>4. ASSUME NEW i \in DOMAIN psp', PassedBy(state, i)'
        PROVE  Ingested(i)'
    <3>1. state \in StateType /\ WithinPsp(state)
      BY <1>2 DEF Types
    <3>2. IF plugin = "generic" THEN psp'[i].updated <= state.from ELSE i <= state.latest
      BY <2>4 DEF PassedBy
    <3>3. i \in DOMAIN psp /\ psp'[i] = psp[i] /\ PassedBy(state, i)
      BY <1>6, <3>1, <3>2
    <3> QED BY <1>7, <2>2, <3>3
  <2> QED BY <2>2, <2>3, <2>4
<1>10. Calls'
  <2> SUFFICES ASSUME ~disturbed', NEW i \in DOMAIN psp', PassedBy(wf.old, i)'
               PROVE  Ingested(i)'
    BY DEF Calls
  <2>1. wf.old \in StateType /\ WithinPsp(wf.old)
    BY <1>2 DEF Types, WorkflowType
  <2>2. IF plugin = "generic" THEN psp'[i].updated <= wf.old.from ELSE i <= wf.old.latest
    BY DEF PassedBy
  <2>3. i \in DOMAIN psp /\ psp'[i] = psp[i] /\ PassedBy(wf.old, i)
    BY <1>6, <2>1, <2>2
  <2>4. Ingested(i)
    BY <1>1, <1>8, <2>3 DEF FetchInv, Calls
  <2> QED BY <1>7, <2>3, <2>4
<1>11. StripeCalls'
  <2> SUFFICES ASSUME plugin = "stripe"
               PROVE  /\ wf.pc = "fetch" => wf.acc = <<>> /\ wf.work.latest = wf.old.latest
                      /\ wf.pc = "list" => /\ wf.work.latest = 1 /\ Len(wf.acc) = 1 /\ Len(psp') >= 1
                                           /\ wf.acc[1].report = Report(1)'
    BY DEF StripeCalls, Report
  <2>1. /\ wf.pc = "fetch" => wf.acc = <<>> /\ wf.work.latest = wf.old.latest
        /\ wf.pc = "list" => /\ wf.work.latest = 1 /\ Len(wf.acc) = 1 /\ Len(psp) >= 1
                             /\ wf.acc[1].report = Report(1)
    BY DEF FetchInv, StripeCalls
  <2>2. Len(psp) >= 1 => Len(psp') >= 1 /\ Report(1)' = Report(1)
    <3> SUFFICES ASSUME Len(psp) >= 1 PROVE Len(psp') >= 1 /\ Report(1)' = Report(1)
      OBVIOUS
    <3>1. 1 \in DOMAIN psp /\ Len(psp') >= 1
      BY <1>3 DEF PspMoves
    <3>2. psp'[1] = psp[1]
      BY <3>1 DEF PspMoves
    <3> QED BY <3>1, <3>2 DEF Report
  <2> QED BY <2>1, <2>2
<1>12. Answers' /\ LateBatches'
  <2>1. \A b \in late : Ids(b) \subseteq Ids(tables.adjs)
    BY <1>1 DEF FetchInv, LateBatches
  <2> QED BY <1>1, <2>1 DEF Answers, LateBatches
<1> QED BY <1>5, <1>9, <1>10, <1>11, <1>12 DEF FetchInv

\* A record added after all others comes last in the list, and moves no other.
LEMMA AddedLast ==
    ASSUME Types, NEW rec \in RecordType, psp' = Append(psp, rec), rec.updated > clock,
           \A i \in DOMAIN psp : psp[i].updated <= clock,
           NEW date \in Nat, date <= clock, NEW last, last = Len(psp) + 1
    PROVE  /\ Cardinality(UpdatedSince(date)') = Cardinality(UpdatedSince(date)) + 1
           /\ Cardinality(UpdatedSince(date)) \in Nat
           /\ \A i \in UpdatedSince(date) : Place(date, i)' = Place(date, i)
           /\ Place(date, last)' = Cardinality(UpdatedSince(date)) + 1
<1> DEFINE n == Len(psp)
           S == UpdatedSince(date)
           T == UpdatedSince(date)'
<1>1. psp \in Seq(RecordType) /\ clock \in Nat /\ rec.updated \in Nat
  BY DEF Types, RecordType
<1>2. n \in Nat /\ DOMAIN psp = 1..n /\ \A i \in DOMAIN psp : psp[i].updated \in Nat
  BY <1>1, RecordTypes
<1>3. /\ psp' \in Seq(RecordType) /\ Len(psp') = n + 1
      /\ \A i \in 1..n : psp'[i] = psp[i]
      /\ psp'[n + 1] = rec
  BY <1>1, AppendProperties
<1>4. DOMAIN psp' = 1..(n + 1)
  BY <1>3, LenProperties
<1>a. n + 1 = last
  OBVIOUS
<1> HIDE DEF n
<1>5. T = S \cup {last} /\ last \notin S /\ S \subseteq 1..n
  <2>1. S \subseteq 1..n /\ last \notin S
    BY <1>2, <1>a DEF UpdatedSince
  <2>2. \A i \in 1..n : i \in T <=> i \in S
    <3>1. \A i \in 1..n : i \in T <=> psp'[i].updated >= date
      BY <1>2, <1>4 DEF UpdatedSince
    <3>2. \A i \in 1..n : i \in S <=> psp[i].updated >= date
      BY <1>2 DEF UpdatedSince
    <3> HIDE DEF S, T
    <3> QED BY <1>3, <3>1, <3>2
  <2>3. last \in T
    BY <1>1, <1>2, <1>3, <1>4, <1>a DEF UpdatedSince
  <2>4. T \subseteq 1..(n + 1)
    BY <1>4 DEF UpdatedSince
  <2> HIDE DEF S, T
  <2>5. \A i \in 1..(n + 1) : i \in 1..n \/ i = last
    BY <1>2, <1>a
  <2>6. \A i : i \in T <=> i \in S \cup {last}
    BY <2>1, <2>2, <2>3, <2>4, <2>5
  <2> QED BY <2>1, <2>6
<1>6. IsFiniteSet(S)
  <2>1. IsFiniteSet(1..n)
    BY <1>2, FS_Interval
  <2> HIDE DEF S
  <2> QED BY <1>5, <2>1, FS_Subset
<1>7. Cardinality(S) \in Nat /\ Cardinality(T) = Cardinality(S) + 1
  <2> HIDE DEF S, T
  <2>1. Cardinality(S) \in Nat
    BY <1>6, FS_CardinalityType
  <2>2. Cardinality(S \cup {last}) = Cardinality(S) + 1
    BY <1>5, <1>6, FS_AddElement
  <2> QED BY <1>5, <2>1, <2>2
<1>8. /\ \A i, j \in 1..n : NotAfter(i, j)' <=> NotAfter(i, j)
      /\ \A j \in 1..n : ~NotAfter(last, j)' /\ NotAfter(j, last)'
      /\ NotAfter(last, last)'
  <2>1. \A i, j \in 1..n : NotAfter(i, j)' <=> NotAfter(i, j)
    BY <1>3 DEF NotAfter
  <2>2. ASSUME NEW j \in 1..n PROVE ~NotAfter(last, j)' /\ NotAfter(j, last)'
    <3>1. psp'[j].updated < psp'[last].updated
      BY <1>1, <1>2, <1>3, <1>a
    <3>2. psp'[j].updated \in Nat /\ psp'[last].updated \in Nat
      BY <1>1, <1>2, <1>3, <1>a
    <3>3. NotAfter(j, last)'
      BY <3>1 DEF NotAfter
    <3>4. ~(psp'[last].updated < psp'[j].updated) /\ psp'[last].updated # psp'[j].updated
      <4>1. \A x, y \in Nat : x < y => ~(y < x) /\ y # x
        OBVIOUS
      <4> QED BY <3>1, <3>2, <4>1
    <3>5. ~NotAfter(last, j)'
      BY <3>4 DEF NotAfter
    <3> QED BY <3>3, <3>5
  <2>3. NotAfter(last, last)'
    BY <1>2, <1>a DEF NotAfter
  <2> QED BY <2>1, <2>2, <2>3
<1>9. \A i : /\ Place(date, i) = Cardinality({j \in S : NotAfter(j, i)})
             /\ Place(date, i)' = Cardinality({j \in T : NotAfter(j, i)'})
  BY DEF Place
<1> HIDE DEF S, T
<1>10. ASSUME NEW i \in S PROVE Place(date, i)' = Place(date, i)
  <2>1. {j \in T : NotAfter(j, i)'} = {j \in S : NotAfter(j, i)}
    BY <1>5, <1>8
  <2> QED BY <1>9, <2>1
<1>11. Place(date, last)' = Cardinality(S) + 1
  <2>1. {j \in T : NotAfter(j, last)'} = T
    BY <1>5, <1>8
  <2> QED BY <1>7, <1>9, <2>1
<1> QED BY <1>7, <1>10, <1>11 DEF S, T, n

\* A record added after all others leaves what the plugin has collected complete.
LEMMA AddedGathers ==
    ASSUME Types, NEW rec \in RecordType, psp' = Append(psp, rec), rec.updated > clock,
           \A i \in DOMAIN psp : psp[i].updated <= clock,
           NEW N \in Nat, NEW acc, Gathered(acc, N),
           UNCHANGED wf
    PROVE  Gathered(acc, N)'
<1>1. PICK last, from, date : last = Len(psp) + 1 /\ from = wf.old.from /\ date = FormatDate(wf.old.from)
  OBVIOUS
<1> DEFINE S == UpdatedSince(date)
<1>2. psp \in Seq(RecordType) /\ clock \in Nat /\ from \in Nat /\ from <= clock
  BY <1>1 DEF Types, WorkflowType, StateType, WithinPsp
<1>3. date \in Nat /\ date <= clock
  <2>1. date \in Nat /\ date <= from
    BY <1>1, <1>2, FormatDateProperties
  <2> QED BY <1>2, <2>1
<1>4. Len(psp) \in Nat /\ DOMAIN psp = 1..Len(psp)
  BY <1>2, LenProperties
<1>5. /\ psp' \in Seq(RecordType) /\ Len(psp') = Len(psp) + 1
      /\ \A i \in 1..Len(psp) : psp'[i] = psp[i]
  BY <1>2, AppendProperties
<1>6. /\ DOMAIN psp' = 1..(Len(psp) + 1)
      /\ \A i \in DOMAIN psp' : i \in DOMAIN psp \/ i = last
      /\ \A i \in DOMAIN psp : i \in DOMAIN psp' /\ psp'[i] = psp[i]
  <2>1. DOMAIN psp' = 1..(Len(psp) + 1)
    BY <1>5, LenProperties
  <2> QED BY <1>1, <1>4, <1>5, <2>1
<1>7. wf'.old.from = from /\ FormatDate(wf.old.from)' = date
  BY <1>1 DEF FormatDate
<1>8. \A i \in DOMAIN psp : psp[i].updated > from => i \in S
  BY <1>1, NewListed
<1>9. /\ N <= Cardinality(S)
      /\ \A k \in DOMAIN acc :
           /\ acc[k].report.ref \in DOMAIN psp
           /\ acc[k].report = Report(acc[k].report.ref)
           /\ acc[k].at = psp[acc[k].report.ref].updated
           /\ psp[acc[k].report.ref].updated > from /\ Place(date, acc[k].report.ref) <= N
      /\ \A k, l \in DOMAIN acc : k < l => acc[k].at < acc[l].at
      /\ \A i \in DOMAIN psp :
           psp[i].updated > from =>
               \/ \E k \in DOMAIN acc : acc[k].report.ref = i
               \/ Place(date, i) > N
  BY <1>1 DEF Gathered
<1>10. /\ Cardinality(UpdatedSince(date)') = Cardinality(S) + 1
       /\ Cardinality(S) \in Nat
       /\ \A i \in S : Place(date, i)' = Place(date, i)
       /\ Place(date, last)' = Cardinality(S) + 1
  BY <1>1, <1>3, AddedLast
<1> HIDE DEF S
<1>11. N <= Cardinality(UpdatedSince(date)')
  BY <1>9, <1>10
<1>12. ASSUME NEW k \in DOMAIN acc
       PROVE  /\ acc[k].report.ref \in DOMAIN psp'
              /\ acc[k].report = Report(acc[k].report.ref)'
              /\ acc[k].at = psp'[acc[k].report.ref].updated
              /\ psp'[acc[k].report.ref].updated > from /\ Place(date, acc[k].report.ref)' <= N
  <2>1. PICK i \in DOMAIN psp : i = acc[k].report.ref
    BY <1>9
  <2>2. psp'[i] = psp[i] /\ i \in DOMAIN psp' /\ Report(i)' = Report(i)
    BY <1>6 DEF Report
  <2>3. Place(date, i)' = Place(date, i)
    BY <1>8, <1>9, <1>10, <2>1
  <2> QED BY <1>9, <2>1, <2>2, <2>3
<1>13. ASSUME NEW i \in DOMAIN psp', psp'[i].updated > from
       PROVE  (\E k \in DOMAIN acc : acc[k].report.ref = i) \/ Place(date, i)' > N
  <2>1. CASE i = last
    BY <1>9, <1>10, <2>1
  <2>2. CASE i \in DOMAIN psp
    <3>1. psp[i].updated > from
      BY <1>6, <1>13, <2>2
    <3>2. Place(date, i)' = Place(date, i)
      BY <1>8, <1>10, <2>2, <3>1
    <3> QED BY <1>9, <2>2, <3>1, <3>2
  <2> QED BY <1>6, <2>1, <2>2
<1> QED BY <1>7, <1>9, <1>11, <1>12, <1>13 DEF Gathered

\* A record the PSP may add: of a payment of its own, or of a settled one.
MayAdd(root, status, amount) ==
    /\ status \in ReportStatuses /\ amount \in Int
    /\ \/ root = Len(psp) + 1 /\ (plugin = "stripe" => status # "PENDING")
       \/ /\ root \in DOMAIN psp /\ psp[root].root = root /\ psp[root].status # "PENDING"
          /\ status # "PENDING"

\* A new record.
LEMMA NewTransactionStep ==
    ASSUME FetchInv, NEW root, NEW status, NEW amount,
           MayAdd(root, status, amount), NewTransaction(root, status, amount)
    PROVE  FetchInv'
<1>1. PICK n \in {0, 1} :
        /\ Tick(n)
        /\ psp' = Append(psp, [root |-> root, status |-> status, amount |-> amount,
                               created |-> clock + n, updated |-> clock + n])
        /\ disturbed' = (disturbed \/ n = 0)
  BY DEF NewTransaction
<1>2. /\ Observed /\ Len(psp) < MaxTransactions
      /\ UNCHANGED <<plugin, state, tables, wf, late, errors>>
  BY DEF NewTransaction
<1>3. PICK rec : rec = [root |-> root, status |-> status, amount |-> amount,
                        created |-> clock + n, updated |-> clock + n]
  OBVIOUS
<1>4. PICK m : m = Len(psp)
  OBVIOUS
<1>5. Types /\ Records /\ psp \in Seq(RecordType) /\ clock \in Nat /\ disturbed \in BOOLEAN
  BY DEF FetchInv, Types
<1>6. m \in Nat /\ DOMAIN psp = 1..m
  BY <1>4, <1>5, LenProperties
<1>7. clock' = clock + n /\ clock + n \in Nat /\ clock + n >= 1 /\ (clock > 0 \/ n = 1)
  BY <1>1, <1>5 DEF Tick
<1>8. /\ rec.root = root /\ rec.status = status /\ rec.created = clock + n /\ rec.updated = clock + n
      /\ root \in Nat /\ root >= 1 /\ root <= m + 1
      /\ rec \in RecordType
  <2>1. root \in Nat /\ root >= 1 /\ root <= m + 1
    BY <1>4, <1>6 DEF MayAdd
  <2>2. status \in ReportStatuses /\ amount \in Int
    BY DEF MayAdd
  <2> QED BY <1>3, <1>7, <2>1, <2>2 DEF RecordType
<1>9. psp' = Append(psp, rec)
  BY <1>1, <1>3
<1>10. /\ psp' \in Seq(RecordType) /\ Len(psp') = m + 1
       /\ \A i \in 1..m : psp'[i] = psp[i]
       /\ psp'[m + 1] = rec
  BY <1>4, <1>5, <1>8, <1>9, AppendProperties
<1>11. DOMAIN psp' = 1..(m + 1) /\ \A i \in 1..(m + 1) : i \in 1..m \/ i = m + 1
  <2>1. DOMAIN psp' = 1..Len(psp')
    BY <1>10, LenProperties
  <2> QED BY <1>6, <1>10, <2>1
<1>12. ~disturbed' => ~disturbed /\ n = 1 /\ clock + n > clock
  <2>1. ~disturbed' => ~disturbed /\ n # 0
    BY <1>1, Zenon
  <2>2. n # 0 => n = 1 /\ clock + n > clock
    BY <1>1, <1>5
  <2> QED BY <2>1, <2>2, Zenon
<1>13. \A i \in 1..m :
         /\ psp[i].root \in 1..i /\ psp[psp[i].root].root = psp[i].root
         /\ psp[i].root # i => psp[psp[i].root].status # "PENDING"
         /\ psp[i].updated \in 1..clock /\ psp[i].created <= clock
         /\ plugin = "stripe" => psp[i].status # "PENDING"
         /\ psp[i].root \in 1..m /\ psp[i].updated \in Nat /\ psp[i].created \in Nat
  <2>1. \A i \in 1..m :
         /\ psp[i].root \in 1..i /\ psp[psp[i].root].root = psp[i].root
         /\ psp[i].root # i => psp[psp[i].root].status # "PENDING"
         /\ psp[i].updated \in 1..clock /\ psp[i].created <= clock
         /\ plugin = "stripe" => psp[i].status # "PENDING"
    BY <1>5, <1>6 DEF Records
  <2>2. \A i \in 1..m : psp[i].updated \in Nat /\ psp[i].created \in Nat
    BY <1>5, <1>6, RecordTypes
  <2>3. \A i \in 1..m : 1..i \subseteq 1..m
    BY <1>6
  <2> QED BY <2>1, <2>2, <2>3
<1>14. Records'
  <2>1. ASSUME NEW i \in 1..(m + 1)
        PROVE  /\ psp'[i].root \in 1..i
               /\ psp'[psp'[i].root].root = psp'[i].root
               /\ psp'[i].root # i => psp'[psp'[i].root].status # "PENDING"
               /\ psp'[i].updated \in 1..clock' /\ psp'[i].created <= clock'
               /\ plugin = "stripe" => psp'[i].status # "PENDING"
    <3>1. CASE i \in 1..m
      <4>1. psp'[i] = psp[i] /\ psp'[psp[i].root] = psp[psp[i].root]
        BY <1>10, <1>13, <3>1
      <4>2. psp[i].updated \in 1..clock' /\ psp[i].created <= clock'
        BY <1>5, <1>7, <1>13, <3>1
      <4> QED BY <1>13, <3>1, <4>1, <4>2
    <3>2. CASE i = m + 1
      <4>1. psp'[i].root = root /\ psp'[i].status = status
            /\ psp'[i].updated = clock + n /\ psp'[i].created = clock + n
        BY <1>8, <1>10, <3>2
      <4>2. root \in 1..i
        BY <1>6, <1>8, <3>2
      <4>3. clock + n \in 1..clock' /\ clock + n <= clock'
        BY <1>7
      <4>4. CASE root = m + 1 /\ (plugin = "stripe" => status # "PENDING")
        BY <3>2, <4>1, <4>2, <4>3, <4>4
      <4>5. CASE /\ root \in 1..m /\ psp[root].root = root /\ psp[root].status # "PENDING"
                 /\ status # "PENDING"
        <5>1. psp'[root] = psp[root]
          BY <1>10, <4>5
        <5> QED BY <4>1, <4>2, <4>3, <4>5, <5>1
      <4> QED BY <1>4, <1>6, <4>4, <4>5 DEF MayAdd
    <3> QED BY <1>11, <3>1, <3>2
  <2>2. ASSUME ~disturbed'
        PROVE  /\ \A i, j \in 1..(m + 1) : i < j => psp'[i].created < psp'[j].created
               /\ \A i, j \in 1..(m + 1) : i # j => psp'[i].updated # psp'[j].updated
               /\ \A i \in 1..(m + 1) : psp'[i].root # i => psp'[psp'[i].root].updated < psp'[i].updated
    <3>1. /\ \A i, j \in 1..m : i < j => psp[i].created < psp[j].created
          /\ \A i, j \in 1..m : i # j => psp[i].updated # psp[j].updated
          /\ \A i \in 1..m : psp[i].root # i => psp[psp[i].root].updated < psp[i].updated
      BY <1>5, <1>6, <1>12, <2>2 DEF Records
    <3>2. clock + n > clock
      BY <1>12, <2>2
    <3>3. \A i \in 1..m : psp[i].updated < clock + n /\ psp[i].created < clock + n
      BY <1>5, <1>7, <1>13, <3>2
    <3>4. psp'[m + 1].updated = clock + n /\ psp'[m + 1].created = clock + n /\ psp'[m + 1].root = root
      BY <1>8, <1>10
    <3>5. ASSUME NEW i \in 1..(m + 1), NEW j \in 1..(m + 1), i < j
          PROVE  psp'[i].created < psp'[j].created
      <4>1. i \in 1..m
        BY <1>6, <3>5
      <4>2. CASE j \in 1..m
        BY <1>10, <3>1, <3>5, <4>1, <4>2
      <4>3. CASE j = m + 1
        BY <1>10, <3>3, <3>4, <4>1, <4>3
      <4> QED BY <1>11, <4>2, <4>3
    <3>6. ASSUME NEW i \in 1..(m + 1), NEW j \in 1..(m + 1), i # j
          PROVE  psp'[i].updated # psp'[j].updated
      <4>1. CASE i \in 1..m /\ j \in 1..m
        BY <1>10, <3>1, <3>6, <4>1
      <4>2. \A h \in 1..m : psp[h].updated # clock + n
        BY <1>7, <1>13, <3>3
      <4>3. CASE i \in 1..m /\ j = m + 1
        BY <1>10, <3>4, <4>2, <4>3
      <4>4. CASE i = m + 1 /\ j \in 1..m
        BY <1>10, <3>4, <4>2, <4>4
      <4> QED BY <1>11, <3>6, <4>1, <4>3, <4>4
    <3>7. ASSUME NEW i \in 1..(m + 1), psp'[i].root # i
          PROVE  psp'[psp'[i].root].updated < psp'[i].updated
      <4>1. CASE i \in 1..m
        BY <1>10, <1>13, <3>1, <3>7, <4>1
      <4>2. CASE i = m + 1
        <5>1. root \in 1..m
          BY <1>6, <1>8, <3>4, <3>7, <4>2
        <5> QED BY <1>10, <3>3, <3>4, <4>2, <5>1
      <4> QED BY <1>11, <4>1, <4>2
    <3> QED BY <3>5, <3>6, <3>7
  <2> QED BY <1>2, <1>11, <2>1, <2>2 DEF Records
<1>15. PspMoves
  <2>1. m + 1 <= MaxTransactions /\ m <= m + 1
    BY <1>2, <1>4, <1>6, FetchAssumption
  <2>2. disturbed' \in BOOLEAN
    BY <1>1, <1>5
  <2>3. clock' \in Nat /\ clock <= clock'
    BY <1>5, <1>7
  <2>4. \A i \in DOMAIN psp' \ DOMAIN psp : psp'[i].updated = clock + n
    BY <1>6, <1>8, <1>10, <1>11
  <2>5. \A i \in DOMAIN psp : psp'[i] = psp[i]
    BY <1>6, <1>10
  <2> QED BY <1>4, <1>10, <1>12, <2>1, <2>2, <2>3, <2>4, <2>5 DEF PspMoves
<1>16. GenericCalls'
  <2> SUFFICES ASSUME plugin = "generic", wf.pc = "fetch", ~disturbed'
               PROVE  /\ wf.page = 1 => wf.acc = <<>>
                      /\ Gathered(wf.acc, (wf.page - 1) * PageSize)'
    BY <1>2 DEF GenericCalls
  <2>1. /\ wf.page = 1 => wf.acc = <<>>
        /\ Gathered(wf.acc, (wf.page - 1) * PageSize)
    BY <1>12 DEF FetchInv, GenericCalls
  <2>2. PICK acc, N : acc = wf.acc /\ N = (wf.page - 1) * PageSize
    OBVIOUS
  <2>3. N \in Nat
    <3>1. wf.page - 1 \in Nat /\ PageSize \in Nat
      BY <1>5, FetchAssumption DEF Types, WorkflowType
    <3>2. \A a, b \in Nat : a * b \in Nat
      OBVIOUS
    <3> QED BY <2>2, <3>1, <3>2
  <2>4. rec.updated > clock
    BY <1>8, <1>12
  <2>5. \A i \in DOMAIN psp : psp[i].updated <= clock
    BY <1>5, <1>6, <1>13
  <2>6. Gathered(acc, N)
    BY <2>1, <2>2
  <2>7. Gathered(acc, N)'
    BY <1>2, <1>5, <1>8, <1>9, <2>3, <2>4, <2>5, <2>6, AddedGathers
  <2>8. wf'.acc = acc /\ (wf'.page - 1) * PageSize = N
    BY <1>2, <2>2
  <2>9. Gathered(wf.acc, (wf.page - 1) * PageSize)'
    BY <2>7, <2>8 DEF Gathered
  <2> QED BY <2>1, <2>9
<1> QED BY <1>2, <1>14, <1>15, <1>16, PspStep

\* New payments and reports about earlier ones.
LEMMA NewRecordSteps ==
    ASSUME FetchInv, NewPayment \/ NewRelatedReport
    PROVE  FetchInv'
<1>1. CASE NewPayment
  <2>1. PICK s \in {"SUCCEEDED", "AUTHORISATION"} \cup IF plugin = "generic" THEN {"PENDING"} ELSE {} :
          NewTransaction(Len(psp) + 1, s, 2)
    BY <1>1 DEF NewPayment
  <2>2. PICK root, amount : root = Len(psp) + 1 /\ amount = 2
    OBVIOUS
  <2>3. MayAdd(root, s, amount)
    BY <2>2 DEF MayAdd, ReportStatuses
  <2> QED BY <2>1, <2>2, <2>3, NewTransactionStep
<1>2. CASE NewRelatedReport
  <2>1. PICK p \in DOMAIN psp :
          /\ psp[p].root = p
          /\ \/ /\ psp[p].status = "SUCCEEDED"
                /\ \E s \in ChildStatuses : NewTransaction(p, s, 1)
             \/ /\ psp[p].status = "AUTHORISATION"
                /\ NewTransaction(p, "CAPTURE", 1)
    BY <1>2 DEF NewRelatedReport
  <2>2. PICK s, amount :
          /\ s \in ReportStatuses \ {"PENDING"} /\ amount = 1
          /\ NewTransaction(p, s, amount)
          /\ psp[p].status # "PENDING"
    BY <2>1, FetchAssumption DEF ReportStatuses
  <2>3. MayAdd(p, s, amount)
    BY <2>1, <2>2 DEF MayAdd
  <2> QED BY <2>2, <2>3, NewTransactionStep
<1> QED BY <1>1, <1>2

\* A pending record is settled.
LEMMA SettleStep ==
    ASSUME FetchInv, NEW i \in DOMAIN psp, SettleTransaction(i)
    PROVE  FetchInv'
<1>1. PICK n \in {0, 1} :
        /\ Tick(n)
        /\ psp' = [psp EXCEPT ![i].status = "SUCCEEDED", ![i].updated = clock + n]
        /\ disturbed' = (disturbed \/ n = 0 \/ wf.page > 1)
  BY DEF SettleTransaction
<1>2. /\ Observed /\ psp[i].status = "PENDING"
      /\ UNCHANGED <<plugin, state, tables, wf, late, errors>>
  BY DEF SettleTransaction
<1>3. PICK m : m = Len(psp)
  OBVIOUS
<1>4. Types /\ Records /\ psp \in Seq(RecordType) /\ clock \in Nat /\ disturbed \in BOOLEAN
      /\ wf.page \in Nat \ {0}
  BY DEF FetchInv, Types, WorkflowType
<1>5. m \in Nat /\ DOMAIN psp = 1..m /\ \A j \in 1..m : psp[j] \in RecordType
  BY <1>3, <1>4, LenProperties
<1>6. clock' = clock + n /\ clock + n \in Nat /\ clock + n >= 1
  BY <1>1, <1>4 DEF Tick
<1>7. /\ \A j \in 1..m : j # i => psp'[j] = psp[j]
      /\ psp'[i].root = psp[i].root /\ psp'[i].created = psp[i].created
      /\ psp'[i].status = "SUCCEEDED" /\ psp'[i].updated = clock + n
      /\ psp' \in Seq(RecordType) /\ DOMAIN psp' = 1..m /\ Len(psp') = m
  <2>1. i \in 1..m
    BY <1>5
  <2>2. PICK rec : rec = [psp[i] EXCEPT !.status = "SUCCEEDED", !.updated = clock + n]
    OBVIOUS
  <2>3. psp' = [psp EXCEPT ![i] = rec]
    BY <1>1, <2>2
  <2>4. /\ rec \in RecordType /\ rec.root = psp[i].root /\ rec.created = psp[i].created
        /\ rec.status = "SUCCEEDED" /\ rec.updated = clock + n
    BY <1>5, <1>6, <2>1, <2>2 DEF RecordType, ReportStatuses
  <2>5. DOMAIN psp' = 1..m /\ psp'[i] = rec /\ \A j \in 1..m : j # i => psp'[j] = psp[j]
    BY <1>5, <2>1, <2>3
  <2>6. psp' \in [1..m -> RecordType]
    <3>1. psp' = [j \in 1..m |-> psp'[j]]
      BY <1>5, <2>3
    <3>2. \A j \in 1..m : psp'[j] \in RecordType
      BY <1>5, <2>4, <2>5
    <3> QED BY <3>1, <3>2
  <2>7. psp' \in Seq(RecordType) /\ Len(psp') = m
    BY <1>5, <2>6
  <2> QED BY <2>4, <2>5, <2>7
<1>8. ~disturbed' => ~disturbed /\ n = 1 /\ clock + n > clock /\ wf.page = 1
  <2>1. ~disturbed' => ~disturbed /\ n # 0 /\ ~(wf.page > 1)
    BY <1>1, Zenon
  <2>2. n # 0 => n = 1 /\ clock + n > clock
    BY <1>1, <1>4
  <2>3. ~(wf.page > 1) => wf.page = 1
    BY <1>4
  <2> QED BY <2>1, <2>2, <2>3, Zenon
<1>9. \A j \in 1..m :
         /\ psp[j].root \in 1..j /\ psp[psp[j].root].root = psp[j].root
         /\ psp[j].root # j => psp[psp[j].root].status # "PENDING"
         /\ psp[j].updated \in 1..clock /\ psp[j].created <= clock
         /\ plugin = "stripe" => psp[j].status # "PENDING"
         /\ psp[j].root \in 1..m /\ psp[j].updated \in Nat /\ psp[j].created \in Nat
  <2>1. \A j \in 1..m :
         /\ psp[j].root \in 1..j /\ psp[psp[j].root].root = psp[j].root
         /\ psp[j].root # j => psp[psp[j].root].status # "PENDING"
         /\ psp[j].updated \in 1..clock /\ psp[j].created <= clock
         /\ plugin = "stripe" => psp[j].status # "PENDING"
    BY <1>4, <1>5 DEF Records
  <2>2. \A j \in 1..m : psp[j].updated \in Nat /\ psp[j].created \in Nat
    BY <1>4, <1>5, RecordTypes
  <2>3. \A j \in 1..m : 1..j \subseteq 1..m
    BY <1>5
  <2> QED BY <2>1, <2>2, <2>3
<1>10. i \in 1..m /\ plugin # "stripe"
  BY <1>2, <1>5, <1>9
<1>11. \A j \in 1..m : psp'[j].root = psp[j].root /\ psp'[j].created = psp[j].created
  BY <1>7
<1>12. Records'
  <2>1. ASSUME NEW j \in 1..m
        PROVE  /\ psp'[j].root \in 1..j
               /\ psp'[psp'[j].root].root = psp'[j].root
               /\ psp'[j].root # j => psp'[psp'[j].root].status # "PENDING"
               /\ psp'[j].updated \in 1..clock' /\ psp'[j].created <= clock'
    <3>1. psp'[j].root \in 1..j /\ psp'[psp'[j].root].root = psp'[j].root
      BY <1>9, <1>11
    <3>2. psp'[j].root # j => psp'[psp'[j].root].status # "PENDING"
      BY <1>7, <1>9, <1>11
    <3>3. psp'[j].created <= clock'
      BY <1>4, <1>6, <1>9, <1>11
    <3>4. psp'[j].updated \in 1..clock'
      <4>1. CASE j = i
        BY <1>6, <1>7, <4>1
      <4>2. CASE j # i
        BY <1>4, <1>6, <1>7, <1>9, <4>2
      <4> QED BY <4>1, <4>2
    <3> QED BY <3>1, <3>2, <3>3, <3>4
  <2>2. ASSUME ~disturbed'
        PROVE  /\ \A j, h \in 1..m : j < h => psp'[j].created < psp'[h].created
               /\ \A j, h \in 1..m : j # h => psp'[j].updated # psp'[h].updated
               /\ \A j \in 1..m : psp'[j].root # j => psp'[psp'[j].root].updated < psp'[j].updated
    <3>1. /\ \A j, h \in 1..m : j < h => psp[j].created < psp[h].created
          /\ \A j, h \in 1..m : j # h => psp[j].updated # psp[h].updated
          /\ \A j \in 1..m : psp[j].root # j => psp[psp[j].root].updated < psp[j].updated
      BY <1>4, <1>5, <1>8, <2>2 DEF Records
    <3>2. \A j \in 1..m : psp[j].updated < clock + n /\ psp[j].updated # clock + n
      <4>1. clock + n > clock
        BY <1>8, <2>2
      <4> QED BY <1>4, <1>6, <1>9, <4>1
    <3>3. \A j, h \in 1..m : j < h => psp'[j].created < psp'[h].created
      BY <1>11, <3>1
    <3>4. ASSUME NEW j \in 1..m, NEW h \in 1..m, j # h
          PROVE  psp'[j].updated # psp'[h].updated
      <4>1. CASE j = i
        BY <1>7, <3>2, <3>4, <4>1
      <4>2. CASE h = i
        BY <1>7, <3>2, <3>4, <4>2
      <4>3. CASE j # i /\ h # i
        BY <1>7, <3>1, <3>4, <4>3
      <4> QED BY <4>1, <4>2, <4>3
    <3>5. ASSUME NEW j \in 1..m, psp'[j].root # j
          PROVE  psp'[psp'[j].root].updated < psp'[j].updated
      <4>1. PICK r \in 1..m : r = psp[j].root /\ psp'[j].root = r /\ r # j
        BY <1>9, <1>11, <3>5
      <4>2. r # i
        BY <1>2, <1>9, <4>1
      <4>3. psp'[r].updated = psp[r].updated
        BY <1>7, <4>2
      <4>4. CASE j = i
        BY <1>7, <3>2, <4>1, <4>3, <4>4
      <4>5. CASE j # i
        BY <1>7, <3>1, <4>1, <4>3, <4>5
      <4> QED BY <4>4, <4>5
    <3> QED BY <3>3, <3>4, <3>5
  <2> QED BY <1>2, <1>7, <1>10, <2>1, <2>2 DEF Records
<1>13. PspMoves
  <2>1. disturbed' \in BOOLEAN
    BY <1>1, <1>4
  <2>2. clock' \in Nat /\ clock <= clock'
    BY <1>4, <1>6
  <2>3. m <= MaxTransactions /\ Len(psp) <= Len(psp')
    BY <1>3, <1>4, <1>5, <1>7 DEF Types
  <2>4. ~disturbed' =>
          \A j \in DOMAIN psp :
              \/ psp'[j] = psp[j]
              \/ /\ psp'[j].root = psp[j].root /\ psp'[j].created = psp[j].created
                 /\ psp[j].status = "PENDING" /\ psp'[j].updated > clock
    BY <1>2, <1>5, <1>7, <1>8
  <2> QED BY <1>5, <1>7, <1>8, <1>10, <2>1, <2>2, <2>3, <2>4 DEF PspMoves
<1>14. Types' => GenericCalls'
  <2> SUFFICES ASSUME Types', plugin = "generic", wf.pc = "fetch", ~disturbed'
               PROVE  /\ wf.page = 1 => wf.acc = <<>>
                      /\ Gathered(wf.acc, (wf.page - 1) * PageSize)'
    BY <1>2 DEF GenericCalls
  <2>1. wf.page = 1 /\ wf.acc = <<>>
    BY <1>8 DEF FetchInv, GenericCalls
  <2>2. (Types => Gathered(<<>>, 0))'
    BY NothingGathered, PTL
  <2>3. (1 - 1) * PageSize = 0
    BY FetchAssumption
  <2>4. wf'.acc = <<>> /\ (wf'.page - 1) * PageSize = 0
    BY <1>2, <2>1, <2>3
  <2> QED BY <2>1, <2>2, <2>4 DEF Gathered
<1> QED BY <1>2, <1>12, <1>13, <1>14, PspStep

-----------------------------------------------------------------------------
(* The invariant holds.                                                    *)

\* The PSP has settled payments only, and nothing was fetched.
LEMMA InitInv == Init => FetchInv
<1> SUFFICES ASSUME Init PROVE FetchInv
  OBVIOUS
<1>1. /\ plugin \in Plugins
      /\ psp = [i \in 1..History |-> [root |-> i, status |-> "SUCCEEDED", amount |-> 2,
                                      created |-> i, updated |-> i]]
      /\ clock = History /\ state = StartState /\ tables = NoPayments
      /\ wf = Idle /\ late = {} /\ errors = 0 /\ disturbed = FALSE
  BY DEF Init
<1>2. History \in Nat /\ History <= MaxTransactions /\ MaxErrors \in Nat /\ PageSize \in Nat
      /\ MaxTransactions \in Nat
  BY FetchAssumption
<1>3. /\ DOMAIN psp = 1..History
      /\ \A i \in 1..History :
           /\ psp[i].root = i /\ psp[i].status = "SUCCEEDED"
           /\ psp[i].created = i /\ psp[i].updated = i
           /\ psp[i] \in RecordType
  BY <1>1, <1>2 DEF RecordType, ReportStatuses
<1>4. psp \in Seq(RecordType) /\ Len(psp) = History
  <2>1. psp \in [1..History -> RecordType]
    BY <1>1, <1>3
  <2> QED BY <1>2, <2>1
<1>5. /\ wf \in WorkflowType /\ wf.pc = "idle" /\ wf.old = StartState /\ wf.work = StartState
      /\ wf.acc = <<>> /\ wf.page = 1 /\ wf.batch = <<>>
  BY <1>1, IdleFresh DEF Fresh
<1>6. StartState \in StateType /\ WithinPsp(StartState)
      /\ StartState.from = 0 /\ StartState.latest = 0
  BY <1>1, <1>2, <1>4 DEF StartState, StateType, WithinPsp
<1>7. tables.rows = <<>> /\ tables.adjs = <<>>
  BY <1>1 DEF NoPayments
<1>8. /\ TablesOK(tables) /\ AmountsNetOf(tables) /\ UniqueIds(tables.adjs) /\ Rooted(tables.adjs)
  <2>1. tables.adjs \in Seq(ReportType) /\ DOMAIN tables.adjs = {} /\ DOMAIN tables.rows = {}
    BY <1>7
  <2> QED BY <2>1 DEF TablesOK, AmountsNetOf, UniqueIds, Rooted
<1>9. Types
  <2>1. Len(wf.batch) <= PageSize /\ Len(wf.acc) <= 1 /\ DOMAIN wf.acc = {}
    BY <1>2, <1>5
  <2>2. errors \in 0..MaxErrors /\ clock \in Nat /\ disturbed \in BOOLEAN
    <3>1. disturbed \in BOOLEAN
      BY <1>1, Zenon
    <3>2. errors = 0 /\ clock = History
      BY <1>1
    <3> QED BY <1>2, <3>1, <3>2
  <2>3. late \in SUBSET Seq(ReportType)
    BY <1>1
  <2> QED BY <1>1, <1>2, <1>4, <1>5, <1>6, <1>8, <2>1, <2>2, <2>3 DEF Types
<1>10. Records
  <2>1. \A i \in 1..History : i \in 1..i /\ i \in 1..clock /\ i <= clock
    BY <1>1, <1>2
  <2> QED BY <1>3, <2>1 DEF Records
<1>11. Tables
  <2>1. ASSUME NEW i \in DOMAIN psp PROVE ~PassedBy(state, i)
    <3>1. i \in 1..History /\ psp[i].updated = i /\ state.from = 0 /\ state.latest = 0
      <4>1. state = StartState
        BY <1>1
      <4> QED BY <1>3, <1>6, <4>1
    <3>2. ~(i <= 0)
      BY <1>2, <3>1
    <3>3. ~(psp[i].updated <= state.from) /\ ~(i <= state.latest)
      BY <3>1, <3>2
    <3> QED BY <3>3 DEF PassedBy
  <2>2. DOMAIN tables.adjs = {}
    BY <1>7
  <2> QED BY <1>8, <2>1, <2>2 DEF Tables
<1>12. Calls /\ GenericCalls /\ StripeCalls /\ Answers
  BY <1>5 DEF Calls, GenericCalls, StripeCalls, Answers
<1>13. LateBatches
  BY <1>1 DEF LateBatches
<1> QED BY <1>9, <1>10, <1>11, <1>12, <1>13 DEF FetchInv

\* Every step keeps the invariant.
LEMMA NextInv == FetchInv /\ [Next]_vars => FetchInv'
<1> SUFFICES ASSUME FetchInv, [Next]_vars PROVE FetchInv'
  OBVIOUS
<1>1. CASE NewPayment \/ NewRelatedReport
  BY <1>1, NewRecordSteps
<1>2. CASE \E i \in DOMAIN psp : SettleTransaction(i)
  BY <1>2, SettleStep
<1>3. CASE TriggerFetch \/ StatesGet
  BY <1>3, StartSteps
<1>4. CASE PluginError
  BY <1>4, PluginErrorStep
<1>5. CASE GenericPage
  BY <1>5, GenericPageStep
<1>6. CASE ScanForOldest
  BY <1>6, ScanForOldestStep
<1>7. CASE ScanTimer
  BY <1>7, ScanTimerStep
<1>8. CASE ListRecent
  BY <1>8, ListRecentStep
<1>9. CASE StorePayments
  BY <1>9, StorePaymentsStep
<1>10. CASE StoreTimeout
  BY <1>10, StoreTimeoutStep
<1>11. CASE \E b \in late : LateStore(b)
  BY <1>11, LateStoreStep
<1>12. CASE NextTasksFail \/ StatesStore
  BY <1>12, SaveSteps
<1>13. CASE UNCHANGED vars
  <2>1. UNCHANGED <<plugin, psp, clock, state, tables, wf, late, errors, disturbed>>
    BY <1>13 DEF vars
  <2>2. Records' /\ Tables'
    BY <2>1, WorkflowOnly
  <2>3. Types'
    BY <2>1 DEF FetchInv, Types, WithinPsp, TablesOK
  <2>4. Calls' /\ StripeCalls' /\ Answers' /\ LateBatches'
    BY <2>1 DEF FetchInv, Calls, StripeCalls, Answers, LateBatches, PassedBy, Ingested,
                Report, AdjustmentID, RootedIn
  <2>5. GenericCalls'
    BY <2>1 DEF FetchInv, GenericCalls, Gathered, Report, Place, UpdatedSince, NotAfter
  <2> QED BY <2>2, <2>3, <2>4, <2>5 DEF FetchInv
<1> QED BY <1>1, <1>2, <1>3, <1>4, <1>5, <1>6, <1>7, <1>8, <1>9, <1>10, <1>11, <1>12, <1>13 DEF Next

\* FetchInv is an invariant of the fetch, for every history of the PSP and every
\* page size.
LEMMA FetchInvariant == Spec => []FetchInv
BY InitInv, NextInv, PTL DEF Spec

-----------------------------------------------------------------------------
(* The properties.                                                         *)

\* The variables keep their types; no saved date or cursor is ahead of the PSP.
THEOREM Typing == Spec => []TypeOK
<1>1. FetchInv => TypeOK
  <2> SUFFICES ASSUME FetchInv PROVE TypeOK
    OBVIOUS
  <2>1. Types /\ Records /\ psp \in Seq(RecordType) /\ clock \in Nat
    BY DEF FetchInv, Types
  <2>2. \A i \in DOMAIN psp : psp[i].root \in 1..i /\ psp[i].status \in ReportStatuses
    BY <2>1, RecordTypes DEF Records
  <2>3. state \in [from : 0..clock, latest : 0..Len(psp), backlog : 0..Len(psp)]
    <3>1. Len(psp) \in Nat
      BY <2>1, LenProperties
    <3>2. state \in StateType /\ WithinPsp(state)
      BY <2>1 DEF Types
    <3> QED BY <2>1, <3>1, <3>2 DEF StateType, WithinPsp
  <2>4. wf.pc \in {"idle", "start", "fetch", "list", "store", "save"}
    BY <2>1 DEF Types, WorkflowType
  <2> QED BY <2>1, <2>2, <2>3, <2>4 DEF TypeOK, Types
<1> QED BY <1>1, FetchInvariant, PTL

\* Whatever is fetched, repeated or stored late, every payment's amount is the net
\* of the reports stored for it.
THEOREM AmountsStayNet == Spec => []AmountsNet
<1>1. FetchInv => AmountsNet
  BY DEF FetchInv, Tables, AmountsNet
<1> QED BY <1>1, FetchInvariant, PTL

\* The saved state never runs ahead of what is stored: no order of changes at the
\* PSP, failures, repetitions and late stores makes the fetch skip a record, unless
\* the PSP changed records at one instant or between two pages of a call.
THEOREM NothingSkipped == Spec => []NothingSkippedUnlessDisturbed
<1>1. FetchInv => NothingSkippedUnlessDisturbed
  BY DEF FetchInv, Tables, NothingSkippedUnlessDisturbed, Behind, PassedBy
<1> QED BY <1>1, FetchInvariant, PTL

\* The payment a report belongs to is stored before the report.
THEOREM PaymentsComeFirst == Spec => []PaymentBeforeItsReports
<1>1. FetchInv => PaymentBeforeItsReports
  BY DEF FetchInv, Tables, PaymentBeforeItsReports, Rooted
<1> QED BY <1>1, FetchInvariant, PTL

\* Of the adjustments of a payment, the current report of its newest record is the
\* one PaymentsGet takes the status from: older records were created earlier, and
\* older reports of the record itself were stored before.
LEMMA NewestIsLatest ==
    ASSUME FetchInv, ~disturbed, NEW p, NEW last \in DOMAIN psp,
           psp[last].root = p,
           \A j \in DOMAIN psp : psp[j].root = p => j <= last,
           Ingested(last)
    PROVE  PaymentStatus(tables, p) = psp[last].status
<1> DEFINE adjs == tables.adjs
           Mine == {i \in DOMAIN adjs : adjs[i].root = p}
           First(i) == \A j \in Mine : \/ adjs[j].created < adjs[i].created
                                       \/ adjs[j].created = adjs[i].created /\ j <= i
<1>1. psp \in Seq(RecordType) /\ adjs \in Seq(ReportType)
  BY DEF FetchInv, Types, TablesOK
<1>2. /\ DOMAIN psp = 1..Len(psp) /\ Len(psp) \in Nat
      /\ \A i \in DOMAIN psp : psp[i].created \in Nat
      /\ Report(last).root = p /\ Report(last).ref = last
      /\ Report(last).created = psp[last].created /\ Report(last).status = psp[last].status
  BY <1>1, RecordTypes
<1>3. DOMAIN adjs = 1..Len(adjs) /\ Len(adjs) \in Nat /\ DOMAIN adjs \subseteq Nat
  BY <1>1, LenProperties
<1>4. /\ UniqueIds(adjs)
      /\ \A k \in DOMAIN adjs :
           /\ adjs[k].ref \in DOMAIN psp
           /\ adjs[k].root = psp[adjs[k].ref].root
           /\ adjs[k].created = psp[adjs[k].ref].created
           /\ adjs[k].status \in {psp[adjs[k].ref].status, "PENDING"}
      /\ \A k, l \in DOMAIN adjs :
           k < l /\ adjs[k].ref = adjs[l].ref => adjs[k].status = "PENDING"
  BY DEF FetchInv, Tables
<1>5. \A i, j \in DOMAIN psp : i < j => psp[i].created < psp[j].created
  BY DEF FetchInv, Records
<1>6. PICK k \in DOMAIN adjs : AdjustmentID(adjs[k]) = AdjustmentID(Report(last))
  BY DEF Ingested
<1>7. /\ adjs[k].root = p /\ adjs[k].ref = last
      /\ adjs[k].created = psp[last].created /\ adjs[k].status = psp[last].status
  BY <1>2, <1>6 DEF AdjustmentID
<1> HIDE DEF adjs
<1>8. k \in Mine
  BY <1>7
<1>9. First(k)
  <2> SUFFICES ASSUME NEW j \in DOMAIN adjs, adjs[j].root = p
               PROVE  \/ adjs[j].created < adjs[k].created
                      \/ adjs[j].created = adjs[k].created /\ j <= k
    OBVIOUS
  <2>1. PICK r \in DOMAIN psp : /\ r = adjs[j].ref /\ psp[r].root = p
                                /\ adjs[j].created = psp[r].created
                                /\ adjs[j].status \in {psp[r].status, "PENDING"}
    BY <1>4
  <2>2. r <= last
    BY <2>1
  <2>3. CASE r < last
    BY <1>5, <1>7, <2>1, <2>3
  <2>4. CASE r = last
    <3>1. adjs[j].created = adjs[k].created
      BY <1>7, <2>1, <2>4
    <3>2. ASSUME k < j PROVE FALSE
      <4>1. adjs[k].status = "PENDING"
        BY <1>4, <1>7, <2>1, <2>4, <3>2
      <4>2. adjs[j].status = adjs[k].status
        BY <1>7, <2>1, <2>4, <4>1
      <4>3. AdjustmentID(adjs[j]) = AdjustmentID(adjs[k])
        BY <1>7, <2>1, <2>4, <3>1, <4>2 DEF AdjustmentID
      <4> QED BY <1>3, <1>4, <3>2, <4>3 DEF UniqueIds
    <3> QED BY <1>3, <3>1, <3>2
  <2> QED BY <1>2, <2>2, <2>3, <2>4
<1>10. ASSUME NEW x \in Mine, First(x) PROVE x = k
  <2>0. \A i \in Mine : First(i) => \A j \in Mine :
           adjs[j].created < adjs[i].created \/ (adjs[j].created = adjs[i].created /\ j <= i)
    OBVIOUS
  <2>1. /\ adjs[k].created < adjs[x].created \/ (adjs[k].created = adjs[x].created /\ k <= x)
        /\ adjs[x].created < adjs[k].created \/ (adjs[x].created = adjs[k].created /\ x <= k)
    <3> HIDE DEF Mine, First
    <3> QED BY <1>8, <1>9, <1>10, <2>0
  <2>2. x \in DOMAIN adjs /\ k \in DOMAIN adjs
    BY <1>6
  <2>3. x \in Nat /\ k \in Nat
    BY <1>3, <2>2
  <2>4. adjs[x].created \in Nat /\ adjs[k].created \in Nat
    BY <1>2, <1>4, <2>2
  <2> QED BY <2>1, <2>3, <2>4
<1>11. LatestAdjustment(tables, p) = adjs[CHOOSE x \in Mine : First(x)]
  BY DEF LatestAdjustment, adjs
<1> HIDE DEF Mine, First
<1>12. (CHOOSE x \in Mine : First(x)) = k
  BY <1>8, <1>9, <1>10
<1> QED BY <1>7, <1>11, <1>12 DEF PaymentStatus

\* Once all records of a payment are stored, the status derived from the adjustments
\* is that of the PSP's newest record of the payment.
THEOREM StatusStaysCurrent == Spec => []StatusIsCurrent
<1>1. FetchInv => StatusIsCurrent
  <2> SUFFICES ASSUME FetchInv PROVE StatusIsCurrent
    OBVIOUS
  <2> SUFFICES ASSUME ~disturbed, NEW p \in DOMAIN tables.rows
               PROVE  LET Mine == {i \in DOMAIN psp : psp[i].root = p}
                          last == CHOOSE i \in Mine : \A j \in Mine : j <= i
                      IN  (\A i \in Mine : Ingested(i)) =>
                              PaymentStatus(tables, p) = psp[last].status
    BY DEF StatusIsCurrent
  <2> DEFINE Mine == {i \in DOMAIN psp : psp[i].root = p}
             last == CHOOSE i \in Mine : \A j \in Mine : j <= i
  <2>1. SUFFICES ASSUME \A i \in Mine : Ingested(i)
                 PROVE  PaymentStatus(tables, p) = psp[last].status
    OBVIOUS
  <2>2. DOMAIN psp = 1..Len(psp) /\ Len(psp) \in Nat
    BY LenProperties DEF FetchInv, Types
  <2>3. PICK k \in DOMAIN tables.adjs : tables.adjs[k].root = p
    BY DEF FetchInv, Tables, AmountsNetOf
  <2>4. tables.adjs[k].ref \in Mine
    BY <2>3 DEF FetchInv, Tables
  <2>5. Mine \in SUBSET Nat /\ \A x \in Mine : x <= Len(psp)
    BY <2>2
  <2>6. Mine # {}
    BY <2>4
  <2>7. \E i \in Mine : \A j \in Mine : j <= i
    <3> HIDE DEF Mine
    <3> QED BY <2>2, <2>5, <2>6, GreatestElement
  <2>8. last \in Mine /\ \A j \in Mine : j <= last
    <3> HIDE DEF Mine
    <3> QED BY <2>7
  <2> HIDE DEF last
  <2>9. /\ last \in DOMAIN psp /\ psp[last].root = p
        /\ \A j \in DOMAIN psp : psp[j].root = p => j <= last
        /\ Ingested(last)
    BY <2>1, <2>8
  <2> QED BY <2>9, NewestIsLatest
<1> QED BY <1>1, FetchInvariant, PTL

=============================================================================
