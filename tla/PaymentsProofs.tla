--------------------------- MODULE PaymentsProofs ---------------------------
(***************************************************************************)
(* What PaymentsUpsert does to the tables, for every batch and every       *)
(* content of the tables: which adjustments it adds, and that the amount   *)
(* of every payment stays the net of its adjustments.                      *)
(*                                                                         *)
(* Entries and Total are recursive functions.  What they compute is proved *)
(* by induction over a set of numbers (the least element that is not in    *)
(* it), which needs no operator as a parameter.                            *)
(***************************************************************************)
EXTENDS Payments, SequenceTheorems, WellFoundedInduction, TLAPS

\* What a report of a plugin is.
ReportType == [ref : Nat, root : Nat, created : Nat, status : ReportStatuses, amount : Int]

-----------------------------------------------------------------------------
(* Induction and recursion over 0..n.                                      *)

\* A set of natural numbers that is not empty has a least element.
LEMMA LeastElement ==
    ASSUME NEW T \in SUBSET Nat, T # {}
    PROVE  \E x \in T : \A y \in T : x <= y
<1> DEFINE R == OpToRel(<, Nat)
<1>1. PICK x \in T : \A y \in T : <<y, x>> \notin R
  <2>1. IsWellFoundedOn(R, Nat)
    BY NatLessThanWellFounded
  <2> HIDE DEF R
  <2> QED BY <2>1, WFMin
<1>2. \A y \in T : y < x => <<y, x>> \in R
  BY DEF OpToRel
<1> HIDE DEF R
<1>3. \A y \in T : ~(y < x)
  BY <1>1, <1>2
<1> QED BY <1>3

\* A set of natural numbers bounded from above has a greatest element.
LEMMA GreatestElement ==
    ASSUME NEW T \in SUBSET Nat, T # {}, NEW n \in Nat, \A x \in T : x <= n
    PROVE  \E x \in T : \A y \in T : y <= x
<1> DEFINE U == {n - x : x \in T}
<1>1. U \in SUBSET Nat /\ U # {}
  <2>1. \A x \in T : n - x \in Nat
    OBVIOUS
  <2> QED BY <2>1
<1>2. PICK u \in U : \A v \in U : u <= v
  <2> HIDE DEF U
  <2> QED BY <1>1, LeastElement
<1>3. PICK x \in T : u = n - x
  BY <1>2
<1>4. \A y \in T : n - x <= n - y
  BY <1>2, <1>3
<1> QED BY <1>4

\* Induction, with the property as the set of the numbers that have it.
LEMMA UpToInduction ==
    ASSUME NEW n \in Nat, NEW Q, 0 \in Q, \A i \in 1..n : i - 1 \in Q => i \in Q
    PROVE  \A i \in 0..n : i \in Q
<1> DEFINE T == {i \in 0..n : i \notin Q}
<1> SUFFICES ASSUME T # {} PROVE FALSE
  OBVIOUS
<1>1. T \in SUBSET Nat
  OBVIOUS
<1>2. PICK m \in T : \A y \in T : m <= y
  <2> HIDE DEF T
  <2> QED BY <1>1, LeastElement
<1>3. m \in 1..n
  BY <1>2
<1>4. m - 1 \in 0..n /\ m - 1 \notin T
  BY <1>2, <1>3
<1> QED BY <1>2, <1>3, <1>4

\* f is computed from a in n steps: step[i] makes the i-th value of the one before.
Steps(n, A, a, step) == n \in Nat /\ a \in A /\ step \in [1..n -> [A -> A]]
Computes(f, n, A, a, step) ==
    f \in [0..n -> A] /\ f[0] = a /\ \A i \in 1..n : f[i] = step[i][f[i - 1]]

\* What is computed in steps exists.
LEMMA StepsExist ==
    \A n, A, a, step : Steps(n, A, a, step) => \E f : Computes(f, n, A, a, step)
<1> TAKE n, A, a, step
<1> HAVE Steps(n, A, a, step)
<1> USE DEF Steps
<1> DEFINE Good(m, g) == g[0] = a /\ \A i \in 1..m : g[i] = step[i][g[i - 1]]
           Q == {m \in 0..n : \E g \in [0..m -> A] : Good(m, g)}
<1>1. 0 \in Q
  <2> DEFINE g == [i \in 0..0 |-> a]
  <2>1. g \in [0..0 -> A]
    OBVIOUS
  <2>2. g[0] = a /\ \A i \in 1..0 : g[i] = step[i][g[i - 1]]
    OBVIOUS
  <2> HIDE DEF g
  <2>3. \E f \in [0..0 -> A] : Good(0, f)
    BY <2>1, <2>2
  <2> HIDE DEF Good
  <2> QED BY <2>3
<1>2. ASSUME NEW m \in 1..n, m - 1 \in Q
      PROVE  m \in Q
  <2>1. PICK g \in [0..(m - 1) -> A] : Good(m - 1, g)
    BY <1>2
  <2> DEFINE h == [i \in 0..m |-> IF i = m THEN step[m][g[m - 1]] ELSE g[i]]
  <2>2. h \in [0..m -> A]
    BY <2>1
  <2>3. h[0] = a
    BY <2>1
  <2>4. ASSUME NEW i \in 1..m
        PROVE  h[i] = step[i][h[i - 1]]
    <3>1. i - 1 \in 0..m /\ i - 1 # m
      OBVIOUS
    <3>2. h[i - 1] = g[i - 1]
      BY <3>1
    <3>3. h[i] = IF i = m THEN step[m][g[m - 1]] ELSE g[i]
      OBVIOUS
    <3> HIDE DEF h
    <3> QED BY <2>1, <3>2, <3>3
  <2> HIDE DEF h
  <2>5. Good(m, h)
    BY <2>3, <2>4
  <2>6. m \in 0..n
    OBVIOUS
  <2> HIDE DEF Good
  <2> QED BY <2>2, <2>5, <2>6
<1>3. \A i \in 0..n : i \in Q
  <2> HIDE DEF Q
  <2> QED BY <1>1, <1>2, UpToInduction
<1> QED BY <1>3 DEF Computes

-----------------------------------------------------------------------------
(* Entries.                                                                *)

\* The recursive function of Entries exists and takes its steps.
LEMMA EntriesSteps ==
    ASSUME NEW S, NEW s \in Seq(S), NEW N
    PROVE  \E f \in [0..Len(s) -> Seq(S)] :
              /\ f[0] = <<>>
              /\ \A n \in 1..Len(s) :
                   f[n] = IF n \in N THEN Append(f[n - 1], s[n]) ELSE f[n - 1]
              /\ Entries(s, N) = f[Len(s)]
<1> DEFINE n == Len(s)
           step == [i \in 1..n |-> [x \in Seq(S) |-> IF i \in N THEN Append(x, s[i]) ELSE x]]
           F == CHOOSE upTo : upTo = [i \in 0..n |->
                  IF i = 0 THEN <<>>
                  ELSE IF i \in N THEN Append(upTo[i - 1], s[i]) ELSE upTo[i - 1]]
<1>1. n \in Nat /\ DOMAIN s = 1..n /\ \A i \in 1..n : s[i] \in S
  BY LenProperties
<1>2. Entries(s, N) = F[n]
  BY DEF Entries
<1> HIDE DEF n
<1>3. step \in [1..n -> [Seq(S) -> Seq(S)]]
  <2>1. ASSUME NEW i \in 1..n, NEW x \in Seq(S)
        PROVE  (IF i \in N THEN Append(x, s[i]) ELSE x) \in Seq(S)
    BY <1>1, AppendProperties
  <2> QED BY <2>1
<1>4. PICK f \in [0..n -> Seq(S)] : f[0] = <<>> /\ \A i \in 1..n : f[i] = step[i][f[i - 1]]
  <2>1. Steps(n, Seq(S), <<>>, step)
    BY <1>1, <1>3 DEF Steps
  <2> HIDE DEF step
  <2>2. \E f : Computes(f, n, Seq(S), <<>>, step)
    BY <2>1, StepsExist
  <2> QED BY <2>2 DEF Computes
<1>5. \A i \in 1..n : f[i] = IF i \in N THEN Append(f[i - 1], s[i]) ELSE f[i - 1]
  <2> TAKE i \in 1..n
  <2>1. i - 1 \in 0..n
    BY <1>1
  <2>2. f[i - 1] \in Seq(S)
    BY <2>1
  <2> QED BY <1>4, <2>2
<1> DEFINE Body(g, i) == IF i \in N THEN Append(g[i - 1], s[i]) ELSE g[i - 1]
           Next0(g, i) == IF i = 0 THEN <<>> ELSE Body(g, i)
<1>6. f = [i \in 0..n |-> Next0(f, i)]
  <2>1. \A i \in 0..n : f[i] = Next0(f, i)
    <3> TAKE i \in 0..n
    <3>1. CASE i = 0
      BY <1>4, <3>1
    <3>2. CASE i \in 1..n
      <4>1. f[i] = Body(f, i) /\ i # 0
        <5>1. f[i] = Body(f, i)
          BY <1>5, <3>2
        <5>2. i # 0
          BY <1>1, <3>2
        <5> QED BY <5>1, <5>2
      <4> HIDE DEF Body
      <4> QED BY <4>1
    <3> QED BY <1>1, <3>1, <3>2
  <2> HIDE DEF Next0
  <2> QED BY <2>1
<1>7. F = [i \in 0..n |-> Next0(F, i)]
  BY <1>6
<1> HIDE DEF F
<1>8. F[0] = <<>> /\ \A i \in 1..n : F[i] = Body(F, i)
  <2>1. \A i \in 0..n : F[i] = Next0(F, i)
    <3> HIDE DEF Next0
    <3> QED BY <1>7
  <2>2. F[0] = Next0(F, 0)
    BY <1>1, <2>1
  <2>3. \A i \in 1..n : F[i] = Next0(F, i) /\ i # 0
    <3> HIDE DEF Next0
    <3> QED BY <1>1, <2>1
  <2> HIDE DEF Body
  <2> QED BY <2>2, <2>3
<1>9. \A i \in 0..n : i \in {j \in 0..n : F[j] = f[j]}
  <2> DEFINE Q == {j \in 0..n : F[j] = f[j]}
  <2>1. 0 \in Q
    BY <1>1, <1>4, <1>8
  <2>2. \A i \in 1..n : i - 1 \in Q => i \in Q
    BY <1>1, <1>5, <1>8
  <2> HIDE DEF Q
  <2> QED BY <1>1, <2>1, <2>2, UpToInduction DEF Q
<1>10. F[n] = f[n]
  BY <1>1, <1>9
<1> QED BY <1>2, <1>4, <1>5, <1>10 DEF n

\* Entries(s, N) has the entries of s at the positions in N and no others, each
\* once, in the order of s.
LEMMA EntriesProperties ==
    ASSUME NEW S, NEW s \in Seq(S), NEW N \in SUBSET DOMAIN s
    PROVE  /\ Entries(s, N) \in Seq(S)
           /\ Len(Entries(s, N)) <= Len(s)
           /\ \E at \in [DOMAIN Entries(s, N) -> N] :
                /\ \A k \in DOMAIN Entries(s, N) : Entries(s, N)[k] = s[at[k]]
                /\ \A k, l \in DOMAIN Entries(s, N) : k < l => at[k] < at[l]
                /\ \A i \in N : \E k \in DOMAIN Entries(s, N) : at[k] = i
<1>1. Len(s) \in Nat /\ DOMAIN s = 1..Len(s) /\ \A i \in 1..Len(s) : s[i] \in S
  BY LenProperties
<1>2. PICK f \in [0..Len(s) -> Seq(S)] :
              /\ f[0] = <<>>
              /\ \A n \in 1..Len(s) :
                   f[n] = IF n \in N THEN Append(f[n - 1], s[n]) ELSE f[n - 1]
              /\ Entries(s, N) = f[Len(s)]
  BY EntriesSteps
<1> DEFINE Selects(n, at) ==
             /\ at \in [1..Len(f[n]) -> N]
             /\ \A k \in 1..Len(f[n]) : f[n][k] = s[at[k]] /\ at[k] <= n
             /\ \A k, l \in 1..Len(f[n]) : k < l => at[k] < at[l]
             /\ \A i \in N : i <= n => \E k \in 1..Len(f[n]) : at[k] = i
           Q == {n \in 0..Len(s) : Len(f[n]) <= n /\ \E at : Selects(n, at)}
<1>3. 0 \in Q
  <2>1. Len(f[0]) = 0
    BY <1>2
  <2>2. Selects(0, [k \in 1..0 |-> 0])
    BY <1>1, <2>1
  <2>3. 0 \in 0..Len(s) /\ Len(f[0]) <= 0
    BY <1>1, <2>1
  <2> HIDE DEF Selects
  <2> QED BY <2>2, <2>3
<1>4. ASSUME NEW n \in 1..Len(s), n - 1 \in Q
      PROVE  n \in Q
  <2>1. PICK at : Selects(n - 1, at)
    BY <1>4
  <2>2. Len(f[n - 1]) <= n - 1 /\ n - 1 \in 0..Len(s) /\ f[n - 1] \in Seq(S)
    BY <1>1, <1>2, <1>4
  <2>3. Len(f[n - 1]) \in Nat
    BY <2>2, LenProperties
  <2>4. CASE n \notin N
    <3>1. f[n] = f[n - 1]
      BY <1>2, <2>4
    <3>2. \A i \in N : i <= n => i <= n - 1
      BY <1>1, <2>4
    <3>3. Selects(n, at)
      BY <1>1, <2>1, <3>1, <3>2
    <3> HIDE DEF Selects
    <3> QED BY <1>1, <2>2, <2>3, <3>1, <3>3
  <2>5. CASE n \in N
    <3> DEFINE m == Len(f[n - 1])
               at2 == [k \in 1..(m + 1) |-> IF k = m + 1 THEN n ELSE at[k]]
    <3>1. f[n] = Append(f[n - 1], s[n])
      BY <1>2, <2>5
    <3>2. /\ Len(f[n]) = m + 1
          /\ \A k \in 1..m : f[n][k] = f[n - 1][k]
          /\ f[n][m + 1] = s[n]
      BY <1>1, <2>2, <3>1, AppendProperties
    <3> HIDE DEF m
    <3>3. m \in Nat /\ m <= n - 1
      BY <2>2, <2>3 DEF m
    <3>4. at \in [1..m -> N] /\ \A k \in 1..m : at[k] <= n - 1
      BY <2>1 DEF m
    <3>5. at2 \in [1..(m + 1) -> N]
      BY <2>5, <3>3, <3>4
    <3>6. \A k \in 1..(m + 1) : f[n][k] = s[at2[k]] /\ at2[k] <= n
      <4> TAKE k \in 1..(m + 1)
      <4>1. CASE k = m + 1
        BY <3>2, <3>3, <4>1
      <4>2. CASE k \in 1..m
        <5>1. at2[k] = at[k] /\ at[k] \in N
          BY <3>3, <3>4, <4>2
        <5>2. f[n - 1][k] = s[at[k]]
          BY <2>1, <4>2 DEF m
        <5> QED BY <1>1, <3>2, <3>4, <4>2, <5>1, <5>2
      <4> QED BY <3>3, <4>1, <4>2
    <3>7. \A k, l \in 1..(m + 1) : k < l => at2[k] < at2[l]
      <4> TAKE k, l \in 1..(m + 1)
      <4> HAVE k < l
      <4>1. k \in 1..m /\ at2[k] = at[k]
        BY <3>3
      <4>2. at[k] \in N /\ N \subseteq Nat
        BY <1>1, <3>4, <4>1
      <4>3. CASE l = m + 1
        BY <3>4, <4>1, <4>2, <4>3
      <4>4. CASE l \in 1..m
        <5>1. at[k] < at[l]
          BY <2>1, <4>1, <4>4 DEF m
        <5>2. at2[l] = at[l]
          BY <3>3, <4>4
        <5> QED BY <4>1, <5>1, <5>2
      <4> QED BY <3>3, <4>3, <4>4
    <3>8. \A i \in N : i <= n => \E k \in 1..(m + 1) : at2[k] = i
      <4> TAKE i \in N
      <4> HAVE i <= n
      <4>1. CASE i = n
        <5>1. at2[m + 1] = n /\ m + 1 \in 1..(m + 1)
          BY <3>3
        <5> QED BY <4>1, <5>1
      <4>2. CASE i # n
        <5>1. i <= n - 1
          BY <1>1, <4>2
        <5>2. PICK k \in 1..m : at[k] = i
          BY <2>1, <5>1 DEF m
        <5>3. at2[k] = at[k] /\ k \in 1..(m + 1)
          BY <3>3, <5>2
        <5> QED BY <5>2, <5>3
      <4> QED BY <4>1, <4>2
    <3> HIDE DEF at2
    <3>9. Selects(n, at2)
      BY <3>2, <3>5, <3>6, <3>7, <3>8
    <3> HIDE DEF Selects
    <3> QED BY <1>1, <3>2, <3>3, <3>9
  <2> QED BY <2>4, <2>5
<1>5. Len(s) \in Q
  <2> HIDE DEF Q
  <2>1. \A n \in 1..Len(s) : n - 1 \in Q => n \in Q
    BY <1>4
  <2>2. \A i \in 0..Len(s) : i \in Q
    BY <1>1, <1>3, <2>1, UpToInduction
  <2> QED BY <1>1, <2>2
<1>6. PICK at : Selects(Len(s), at)
  BY <1>5
<1>7. f[Len(s)] \in Seq(S) /\ Len(f[Len(s)]) <= Len(s)
  BY <1>1, <1>2, <1>5
<1>8. DOMAIN f[Len(s)] = 1..Len(f[Len(s)])
  BY <1>7, LenProperties
<1>9. \A i \in N : i <= Len(s)
  BY <1>1
<1>10. /\ at \in [DOMAIN f[Len(s)] -> N]
       /\ \A k \in DOMAIN f[Len(s)] : f[Len(s)][k] = s[at[k]]
       /\ \A k, l \in DOMAIN f[Len(s)] : k < l => at[k] < at[l]
       /\ \A i \in N : \E k \in DOMAIN f[Len(s)] : at[k] = i
  BY <1>6, <1>8, <1>9
<1>11. Entries(s, N) = f[Len(s)]
  BY <1>2
<1> DEFINE Selection(e) ==
             /\ e \in Seq(S)
             /\ Len(e) <= Len(s)
             /\ \E g \in [DOMAIN e -> N] :
                  /\ \A k \in DOMAIN e : e[k] = s[g[k]]
                  /\ \A k, l \in DOMAIN e : k < l => g[k] < g[l]
                  /\ \A i \in N : \E k \in DOMAIN e : g[k] = i
<1>12. Selection(f[Len(s)])
  BY <1>7, <1>10, Zenon
<1> HIDE DEF Selection
<1>13. Selection(Entries(s, N))
  BY <1>11, <1>12
<1> QED BY <1>13 DEF Selection

-----------------------------------------------------------------------------
(* Totals.                                                                 *)

\* What the n-th report of s adds to the total.
Share(s, p, St, n) == IF s[n].root = p /\ s[n].status \in St THEN s[n].amount ELSE 0

\* f[n] is the total of the first n reports.
Sums(f, s, p, St) ==
    /\ f \in [0..Len(s) -> Int]
    /\ f[0] = 0
    /\ \A n \in 1..Len(s) : f[n] = f[n - 1] + Share(s, p, St, n)
    /\ Total(s, p, St) = f[Len(s)]

\* The recursive function of Total exists and takes its steps.
LEMMA TotalSteps ==
    ASSUME NEW s \in Seq(ReportType), NEW p, NEW St
    PROVE  \E f : Sums(f, s, p, St)
<1> DEFINE n == Len(s)
           w == [i \in 1..n |-> Share(s, p, St, i)]
           step == [i \in 1..n |-> [x \in Int |-> x + w[i]]]
           F == CHOOSE sum : sum = [i \in 0..n |-> IF i = 0 THEN 0
                                    ELSE sum[i - 1] + Share(s, p, St, i)]
<1>1. n \in Nat /\ DOMAIN s = 1..n /\ \A i \in 1..n : s[i] \in ReportType
  BY LenProperties
<1>2. Total(s, p, St) = F[n]
  BY DEF Total, Share
<1>3. w \in [1..n -> Int]
  BY <1>1 DEF ReportType, Share
<1>4. \A i \in 1..n : Share(s, p, St, i) = w[i]
  OBVIOUS
<1> HIDE DEF n, w
<1>5. PICK f \in [0..n -> Int] : f[0] = 0 /\ \A i \in 1..n : f[i] = f[i - 1] + w[i]
  <2>1. Steps(n, Int, 0, step)
    BY <1>1, <1>3 DEF Steps
  <2>2. PICK f : Computes(f, n, Int, 0, step)
    <3> HIDE DEF step
    <3> QED BY <2>1, StepsExist
  <2>3. f \in [0..n -> Int] /\ f[0] = 0
    BY <2>2 DEF Computes
  <2>4. \A i \in 1..n : f[i] = f[i - 1] + w[i]
    <3> TAKE i \in 1..n
    <3>1. f[i] = step[i][f[i - 1]]
      BY <2>2 DEF Computes
    <3>2. i - 1 \in 0..n
      BY <1>1
    <3>3. f[i - 1] \in Int
      BY <2>3, <3>2
    <3> QED BY <3>1, <3>3
  <2> QED BY <2>3, <2>4
<1> DEFINE Next0(g, i) == IF i = 0 THEN 0 ELSE g[i - 1] + Share(s, p, St, i)
<1>6. f = [i \in 0..n |-> Next0(f, i)]
  <2>1. \A i \in 0..n : f[i] = Next0(f, i)
    <3> TAKE i \in 0..n
    <3>1. CASE i = 0
      BY <1>5, <3>1
    <3>2. CASE i \in 1..n
      BY <1>4, <1>5, <3>2
    <3> QED BY <1>1, <3>1, <3>2
  <2> HIDE DEF Next0
  <2> QED BY <2>1
<1>7. F = [i \in 0..n |-> Next0(F, i)]
  BY <1>6
<1> HIDE DEF F
<1>8. F[0] = 0 /\ \A i \in 1..n : F[i] = F[i - 1] + w[i]
  <2>1. \A i \in 0..n : F[i] = Next0(F, i)
    <3> HIDE DEF Next0
    <3> QED BY <1>7
  <2>2. F[0] = Next0(F, 0)
    BY <1>1, <2>1
  <2>3. \A i \in 1..n : F[i] = Next0(F, i) /\ i # 0
    <3> HIDE DEF Next0
    <3> QED BY <1>1, <2>1
  <2> QED BY <1>4, <2>2, <2>3
<1>9. \A i \in 0..n : i \in {j \in 0..n : F[j] = f[j]}
  <2> DEFINE Q == {j \in 0..n : F[j] = f[j]}
  <2>1. 0 \in Q
    BY <1>1, <1>5, <1>8
  <2>2. \A i \in 1..n : i - 1 \in Q => i \in Q
    BY <1>1, <1>5, <1>8
  <2> HIDE DEF Q
  <2> QED BY <1>1, <2>1, <2>2, UpToInduction DEF Q
<1>10. F[n] = f[n]
  BY <1>1, <1>9
<1> QED BY <1>2, <1>4, <1>5, <1>10 DEF n, Sums

\* The total is an integer, 0 when no report of the payment is in s.
LEMMA TotalType ==
    ASSUME NEW s \in Seq(ReportType), NEW p, NEW St
    PROVE  /\ Total(s, p, St) \in Int
           /\ (\A i \in DOMAIN s : s[i].root # p) => Total(s, p, St) = 0
<1>0. PICK f : Sums(f, s, p, St)
  BY TotalSteps
<1>1. /\ f \in [0..Len(s) -> Int] /\ f[0] = 0
      /\ \A n \in 1..Len(s) : f[n] = f[n - 1] + Share(s, p, St, n)
      /\ Total(s, p, St) = f[Len(s)]
  BY <1>0 DEF Sums
<1>2. Len(s) \in Nat /\ DOMAIN s = 1..Len(s)
  BY LenProperties
<1>3. ASSUME \A i \in DOMAIN s : s[i].root # p
      PROVE  f[Len(s)] = 0
  <2> DEFINE Q == {n \in 0..Len(s) : f[n] = 0}
  <2>1. 0 \in Q
    BY <1>1, <1>2
  <2>2. ASSUME NEW i \in 1..Len(s), i - 1 \in Q PROVE i \in Q
    <3>1. Share(s, p, St, i) = 0
      BY <1>2, <1>3 DEF Share
    <3> QED BY <1>1, <1>2, <2>2, <3>1
  <2>3. Len(s) \in 0..Len(s)
    BY <1>2
  <2>4. Len(s) \in Q
    <3> HIDE DEF Q
    <3> QED BY <1>2, <2>1, <2>2, <2>3, UpToInduction
  <2> QED BY <2>4
<1> QED BY <1>1, <1>2, <1>3

\* Totals of two sequences add up.
LEMMA TotalConcat ==
    ASSUME NEW s \in Seq(ReportType), NEW t \in Seq(ReportType), NEW p, NEW St
    PROVE  Total(s \o t, p, St) = Total(s, p, St) + Total(t, p, St)
<1> DEFINE u == s \o t
           m == Len(s)
           n == Len(t)
<1>1. /\ u \in Seq(ReportType) /\ Len(u) = m + n
      /\ \A i \in 1..m : u[i] = s[i]
      /\ \A i \in 1..n : u[m + i] = t[i]
  <2>1. u \in Seq(ReportType) /\ Len(u) = m + n /\ m \in Nat /\ n \in Nat
    BY ConcatProperties, LenProperties
  <2>2. \A i \in 1..(m + n) : u[i] = IF i <= m THEN s[i] ELSE t[i - m]
    BY ConcatProperties
  <2> HIDE DEF u, m, n
  <2>3. ASSUME NEW i \in 1..n PROVE u[m + i] = t[i]
    <3>1. m + i \in 1..(m + n) /\ ~(m + i <= m) /\ (m + i) - m = i
      BY <2>1
    <3> QED BY <2>2, <3>1
  <2>4. ASSUME NEW i \in 1..m PROVE u[i] = s[i]
    <3>1. i \in 1..(m + n) /\ i <= m
      BY <2>1
    <3> QED BY <2>2, <3>1
  <2> QED BY <2>1, <2>3, <2>4
<1>2. m \in Nat /\ n \in Nat
  BY LenProperties
<1>a. PICK f : Sums(f, s, p, St)
  BY TotalSteps
<1>b. PICK g : Sums(g, t, p, St)
  BY TotalSteps
<1> HIDE DEF u
<1>c. PICK h : Sums(h, u, p, St)
  BY <1>1, TotalSteps
<1>3. /\ f \in [0..m -> Int] /\ f[0] = 0
      /\ \A i \in 1..m : f[i] = f[i - 1] + Share(s, p, St, i)
      /\ Total(s, p, St) = f[m]
  BY <1>a DEF Sums
<1>4. /\ g \in [0..n -> Int] /\ g[0] = 0
      /\ \A i \in 1..n : g[i] = g[i - 1] + Share(t, p, St, i)
      /\ Total(t, p, St) = g[n]
  BY <1>b DEF Sums
<1>5. /\ h \in [0..Len(u) -> Int] /\ h[0] = 0
      /\ \A i \in 1..Len(u) : h[i] = h[i - 1] + Share(u, p, St, i)
      /\ Total(u, p, St) = h[Len(u)]
  BY <1>c DEF Sums
<1> HIDE DEF m, n
<1>6. h[m] = f[m]
  <2> DEFINE Q == {i \in 0..m : h[i] = f[i]}
  <2>1. 0 \in Q
    BY <1>2, <1>3, <1>5
  <2>2. ASSUME NEW i \in 1..m, i - 1 \in Q PROVE i \in Q
    <3>1. Share(u, p, St, i) = Share(s, p, St, i)
      BY <1>1 DEF Share
    <3>2. i \in 1..Len(u)
      BY <1>1, <1>2
    <3> QED BY <1>2, <1>3, <1>5, <2>2, <3>1, <3>2
  <2>3. m \in 0..m
    BY <1>2
  <2>4. m \in Q
    <3> HIDE DEF Q
    <3> QED BY <1>2, <2>1, <2>2, <2>3, UpToInduction
  <2> QED BY <2>4
<1>7. h[m + n] = f[m] + g[n]
  <2> DEFINE Q == {i \in 0..n : h[m + i] = f[m] + g[i]}
  <2>a. f[m] \in Int
    BY <1>2, <1>3
  <2>1. 0 \in Q
    BY <1>2, <1>4, <1>6, <2>a
  <2>2. ASSUME NEW i \in 1..n, i - 1 \in Q PROVE i \in Q
    <3>1. Share(u, p, St, m + i) = Share(t, p, St, i)
      BY <1>1 DEF Share
    <3>2. m + i \in 1..Len(u) /\ (m + i) - 1 = m + (i - 1) /\ i - 1 \in 0..n
      BY <1>1, <1>2
    <3>3. h[m + i] = h[m + (i - 1)] + Share(t, p, St, i)
      BY <1>5, <3>1, <3>2
    <3>4. h[m + (i - 1)] = f[m] + g[i - 1]
      BY <2>2
    <3>5. g[i] = g[i - 1] + Share(t, p, St, i)
      BY <1>4
    <3>6. g[i] \in Int /\ g[i - 1] \in Int
      BY <1>2, <1>4, <3>2
    <3>7. Share(t, p, St, i) \in Int
      <4>1. t[i] \in ReportType
        BY LenProperties DEF n
      <4> QED BY <4>1 DEF Share, ReportType
    <3>8. h[m + i] = f[m] + g[i]
      BY <2>a, <3>3, <3>4, <3>5, <3>6, <3>7
    <3> QED BY <1>2, <3>8
  <2>3. n \in 0..n
    BY <1>2
  <2>4. n \in Q
    <3> HIDE DEF Q
    <3> QED BY <1>2, <2>1, <2>2, <2>3, UpToInduction
  <2> QED BY <2>4
<1> QED BY <1>1, <1>3, <1>4, <1>5, <1>7 DEF u

-----------------------------------------------------------------------------
(* What is inserted.                                                       *)

\* The keys of the adjustments of s.
Ids(s) == {AdjustmentID(s[i]) : i \in DOMAIN s}

\* No two adjustments of s have the same key.
UniqueIds(s) ==
    \A i, j \in DOMAIN s : AdjustmentID(s[i]) = AdjustmentID(s[j]) => i = j

\* Report i of batch b is new for the table s.
IsNew(s, b, i) ==
    /\ AdjustmentID(b[i]) \notin Ids(s)
    /\ \A j \in 1..(i - 1) : AdjustmentID(b[j]) # AdjustmentID(b[i])

\* at gives the places in b of what Inserted returns.
Picks(at, s, b) ==
    /\ at \in [DOMAIN Inserted(s, b) -> DOMAIN b]
    /\ \A k \in DOMAIN Inserted(s, b) : Inserted(s, b)[k] = b[at[k]] /\ IsNew(s, b, at[k])
    /\ \A k, l \in DOMAIN Inserted(s, b) : k < l => at[k] < at[l]
    /\ \A i \in DOMAIN b : IsNew(s, b, i) => \E k \in DOMAIN Inserted(s, b) : at[k] = i

\* Inserted returns the new reports of the batch, in the order of the batch.
LEMMA InsertedPicks ==
    ASSUME NEW s, NEW b \in Seq(ReportType)
    PROVE  Inserted(s, b) \in Seq(ReportType) /\ \E at : Picks(at, s, b)
<1> DEFINE N == {i \in DOMAIN b : IsNew(s, b, i)}
<1>1. Inserted(s, b) = Entries(b, N)
  BY DEF Inserted, IsNew, Ids
<1>2. N \in SUBSET DOMAIN b
  OBVIOUS
<1>3. /\ Entries(b, N) \in Seq(ReportType)
      /\ \E at \in [DOMAIN Entries(b, N) -> N] :
           /\ \A k \in DOMAIN Entries(b, N) : Entries(b, N)[k] = b[at[k]]
           /\ \A k, l \in DOMAIN Entries(b, N) : k < l => at[k] < at[l]
           /\ \A i \in N : \E k \in DOMAIN Entries(b, N) : at[k] = i
  <2> HIDE DEF N
  <2> QED BY <1>2, EntriesProperties
<1>4. PICK at \in [DOMAIN Entries(b, N) -> N] :
           /\ \A k \in DOMAIN Entries(b, N) : Entries(b, N)[k] = b[at[k]]
           /\ \A k, l \in DOMAIN Entries(b, N) : k < l => at[k] < at[l]
           /\ \A i \in N : \E k \in DOMAIN Entries(b, N) : at[k] = i
  BY <1>3
<1>5. \A k \in DOMAIN Entries(b, N) : at[k] \in DOMAIN b /\ IsNew(s, b, at[k])
  OBVIOUS
<1>6. \A i \in DOMAIN b : IsNew(s, b, i) => i \in N
  OBVIOUS
<1> HIDE DEF N
<1>7. Picks(at, s, b)
  BY <1>1, <1>2, <1>4, <1>5, <1>6 DEF Picks
<1> QED BY <1>1, <1>3, <1>7

\* Every report of the batch is stored, or is inserted at its place or before.
LEMMA NewOrStored ==
    ASSUME NEW s, NEW b \in Seq(ReportType), NEW i \in DOMAIN b
    PROVE  \/ AdjustmentID(b[i]) \in Ids(s)
           \/ \E j \in 1..i : IsNew(s, b, j) /\ AdjustmentID(b[j]) = AdjustmentID(b[i])
<1> SUFFICES ASSUME AdjustmentID(b[i]) \notin Ids(s)
             PROVE  \E j \in 1..i : IsNew(s, b, j) /\ AdjustmentID(b[j]) = AdjustmentID(b[i])
  OBVIOUS
<1> DEFINE T == {j \in 1..i : AdjustmentID(b[j]) = AdjustmentID(b[i])}
<1>1. i \in Nat /\ i \in 1..i
  BY LenProperties
<1>2. T \in SUBSET Nat /\ T # {}
  BY <1>1
<1>3. PICK j \in T : \A l \in T : j <= l
  <2> HIDE DEF T
  <2> QED BY <1>2, LeastElement
<1>4. \A l \in 1..(j - 1) : AdjustmentID(b[l]) # AdjustmentID(b[j])
  BY <1>1, <1>3
<1> QED BY <1>3, <1>4 DEF IsNew

\* The table t is the table s after an insert of b: the rows before are kept, a
\* row that is added is a report of the batch whose key was not there, and every
\* report of the batch is there; two rows never have the same key.
StoredTable(t, s, b) ==
    /\ t \in Seq(ReportType) /\ Len(s) <= Len(t) /\ DOMAIN s \subseteq DOMAIN t
    /\ \A i \in DOMAIN s : t[i] = s[i]
    /\ \A k \in DOMAIN t \ DOMAIN s :
         \E i \in DOMAIN b : t[k] = b[i] /\ AdjustmentID(b[i]) \notin Ids(s)
    /\ \A i \in DOMAIN b : \E k \in DOMAIN t : AdjustmentID(t[k]) = AdjustmentID(b[i])
    /\ UniqueIds(s) => UniqueIds(t)
    /\ Ids(b) \subseteq Ids(s) => t = s

LEMMA StoredAdjustments ==
    ASSUME NEW s \in Seq(ReportType), NEW b \in Seq(ReportType)
    PROVE  StoredTable(s \o Inserted(s, b), s, b)
<1> DEFINE t == s \o Inserted(s, b)
<1> DEFINE ins == Inserted(s, b)
<1>1. ins \in Seq(ReportType)
  BY InsertedPicks
<1>2. PICK at : Picks(at, s, b)
  BY InsertedPicks
<1>3. /\ t \in Seq(ReportType) /\ Len(t) = Len(s) + Len(ins)
      /\ \A i \in 1..(Len(s) + Len(ins)) : t[i] = IF i <= Len(s) THEN s[i] ELSE ins[i - Len(s)]
  <2> HIDE DEF ins
  <2>1. t = s \o ins
    BY DEF ins
  <2> HIDE DEF t
  <2> QED BY <1>1, <2>1, ConcatProperties
<1> HIDE DEF t
<1>4. /\ Len(s) \in Nat /\ DOMAIN s = 1..Len(s)
      /\ Len(ins) \in Nat /\ DOMAIN ins = 1..Len(ins)
      /\ DOMAIN t = 1..(Len(s) + Len(ins))
      /\ Len(b) \in Nat /\ DOMAIN b = 1..Len(b)
  BY <1>1, <1>3, LenProperties
<1>5. /\ at \in [DOMAIN ins -> DOMAIN b]
      /\ \A k \in DOMAIN ins : ins[k] = b[at[k]] /\ IsNew(s, b, at[k])
      /\ \A k, l \in DOMAIN ins : k < l => at[k] < at[l]
      /\ \A i \in DOMAIN b : IsNew(s, b, i) => \E k \in DOMAIN ins : at[k] = i
  BY <1>2 DEF Picks
<1>a. \A i \in DOMAIN b : \/ AdjustmentID(b[i]) \in Ids(s)
                          \/ \E j \in DOMAIN b : IsNew(s, b, j) /\ AdjustmentID(b[j]) = AdjustmentID(b[i])
  <2> TAKE i \in DOMAIN b
  <2>1. \/ AdjustmentID(b[i]) \in Ids(s)
        \/ \E j \in 1..i : IsNew(s, b, j) /\ AdjustmentID(b[j]) = AdjustmentID(b[i])
    BY NewOrStored
  <2>2. 1..i \subseteq DOMAIN b
    BY <1>4
  <2> QED BY <2>1, <2>2
<1> HIDE DEF ins
<1>6. DOMAIN s \subseteq DOMAIN t /\ \A i \in DOMAIN s : t[i] = s[i]
  BY <1>3, <1>4
<1>7. \A k \in DOMAIN ins : Len(s) + k \in DOMAIN t /\ t[Len(s) + k] = ins[k]
  <2> TAKE k \in DOMAIN ins
  <2>1. Len(s) + k \in 1..(Len(s) + Len(ins)) /\ ~(Len(s) + k <= Len(s)) /\ (Len(s) + k) - Len(s) = k
    BY <1>4
  <2> QED BY <1>3, <1>4, <2>1
<1>8. \A k \in DOMAIN t \ DOMAIN s : k - Len(s) \in DOMAIN ins /\ t[k] = ins[k - Len(s)] /\ k > Len(s)
  BY <1>3, <1>4
<1>9. \A k \in DOMAIN t \ DOMAIN s :
        \E i \in DOMAIN b : t[k] = b[i] /\ AdjustmentID(b[i]) \notin Ids(s)
  BY <1>5, <1>8 DEF IsNew
<1>10. \A i \in DOMAIN b : \E k \in DOMAIN t : AdjustmentID(t[k]) = AdjustmentID(b[i])
  <2> TAKE i \in DOMAIN b
  <2>1. CASE AdjustmentID(b[i]) \in Ids(s)
    <3>1. PICK k \in DOMAIN s : AdjustmentID(s[k]) = AdjustmentID(b[i])
      BY <2>1 DEF Ids
    <3> QED BY <1>6, <3>1
  <2>2. CASE \E j \in DOMAIN b : IsNew(s, b, j) /\ AdjustmentID(b[j]) = AdjustmentID(b[i])
    <3>1. PICK j \in DOMAIN b : IsNew(s, b, j) /\ AdjustmentID(b[j]) = AdjustmentID(b[i])
      BY <2>2
    <3>2. PICK k \in DOMAIN ins : at[k] = j
      BY <1>5, <3>1
    <3>3. t[Len(s) + k] = b[j]
      BY <1>5, <1>7, <3>2
    <3> QED BY <1>7, <3>1, <3>2, <3>3
  <2> QED BY <1>a, <2>1, <2>2
<1>11. ASSUME UniqueIds(s), NEW i \in DOMAIN t, NEW j \in DOMAIN t, i < j
       PROVE  AdjustmentID(t[i]) # AdjustmentID(t[j])
  <2>1. CASE j \in DOMAIN s
    <3>1. i \in DOMAIN s
      BY <1>4, <1>11, <2>1
    <3>2. i # j
      BY <1>4, <1>11
    <3> QED BY <1>6, <1>11, <2>1, <3>1, <3>2 DEF UniqueIds
  <2>2. CASE j \notin DOMAIN s /\ i \in DOMAIN s
    <3>1. AdjustmentID(t[j]) \notin Ids(s)
      BY <1>9, <2>2
    <3> QED BY <1>6, <2>2, <3>1 DEF Ids
  <2>3. CASE j \notin DOMAIN s /\ i \notin DOMAIN s
    <3> DEFINE k == i - Len(s)
               l == j - Len(s)
    <3>1. k \in DOMAIN ins /\ l \in DOMAIN ins /\ k < l /\ t[i] = ins[k] /\ t[j] = ins[l]
      BY <1>4, <1>8, <1>11, <2>3
    <3> HIDE DEF k, l
    <3>2. at[k] < at[l] /\ at[k] \in DOMAIN b /\ at[l] \in DOMAIN b
      BY <1>5, <3>1
    <3>3. at[k] \in 1..(at[l] - 1)
      BY <1>4, <3>2
    <3>4. t[i] = b[at[k]] /\ t[j] = b[at[l]] /\ IsNew(s, b, at[l])
      BY <1>5, <3>1
    <3> QED BY <3>3, <3>4 DEF IsNew
  <2> QED BY <2>1, <2>2, <2>3
<1>12. ASSUME Ids(b) \subseteq Ids(s) PROVE t = s
  <2>1. \A i \in DOMAIN b : ~IsNew(s, b, i)
    BY <1>12 DEF IsNew, Ids
  <2>2. DOMAIN ins = {}
    BY <1>5, <2>1
  <2>3. Len(ins) = 0
    <3>1. 1 \notin 1..Len(ins)
      BY <1>4, <2>2
    <3> QED BY <1>4, <3>1
  <2>4. Len(t) = Len(s) /\ \A i \in 1..Len(s) : t[i] = s[i]
    BY <1>3, <1>4, <1>6, <2>3
  <2> QED BY <1>3, <2>4, SeqEqual
<1>13. Len(s) <= Len(t)
  BY <1>3, <1>4
<1>14. UniqueIds(s) => UniqueIds(t)
  <2> SUFFICES ASSUME UniqueIds(s), NEW i \in DOMAIN t, NEW j \in DOMAIN t, i # j
               PROVE  AdjustmentID(t[i]) # AdjustmentID(t[j])
    BY DEF UniqueIds
  <2>1. i < j \/ j < i
    BY <1>4
  <2> QED BY <1>11, <2>1
<1> QED BY <1>3, <1>6, <1>9, <1>10, <1>12, <1>13, <1>14 DEF StoredTable, t

\* The payment of every adjustment of s is there at its place or before.
Rooted(s) == \A k \in DOMAIN s : \E j \in 1..k : s[j].ref = s[k].root

\* The payment of every report of b comes before it in b, or is in s.
RootedIn(b, s) ==
    \A k \in DOMAIN b : \/ \E j \in 1..k : b[j].ref = b[k].root
                        \/ \E i \in DOMAIN s : s[i].ref = b[k].root

\* Leaving out the reports that are stored keeps every report after its payment.
LEMMA StoredRooted ==
    ASSUME NEW s \in Seq(ReportType), NEW b \in Seq(ReportType),
           Rooted(s), RootedIn(b, s)
    PROVE  Rooted(s \o Inserted(s, b))
<1> DEFINE t == s \o Inserted(s, b)
<1> DEFINE ins == Inserted(s, b)
<1>1. ins \in Seq(ReportType)
  BY InsertedPicks
<1>2. PICK at : Picks(at, s, b)
  BY InsertedPicks
<1>3. /\ t \in Seq(ReportType) /\ Len(t) = Len(s) + Len(ins)
      /\ \A i \in 1..(Len(s) + Len(ins)) : t[i] = IF i <= Len(s) THEN s[i] ELSE ins[i - Len(s)]
  <2> HIDE DEF ins
  <2>1. t = s \o ins
    BY DEF ins
  <2> HIDE DEF t
  <2> QED BY <1>1, <2>1, ConcatProperties
<1> HIDE DEF t
<1>4. /\ Len(s) \in Nat /\ DOMAIN s = 1..Len(s)
      /\ Len(ins) \in Nat /\ DOMAIN ins = 1..Len(ins)
      /\ DOMAIN t = 1..(Len(s) + Len(ins))
      /\ Len(b) \in Nat /\ DOMAIN b = 1..Len(b)
  BY <1>1, <1>3, LenProperties
<1>5. /\ at \in [DOMAIN ins -> DOMAIN b]
      /\ \A k \in DOMAIN ins : ins[k] = b[at[k]]
      /\ \A k, l \in DOMAIN ins : k < l => at[k] < at[l]
      /\ \A i \in DOMAIN b : IsNew(s, b, i) => \E k \in DOMAIN ins : at[k] = i
  BY <1>2 DEF Picks
<1> HIDE DEF ins
<1>6. \A i \in DOMAIN s : i \in DOMAIN t /\ t[i] = s[i]
  BY <1>3, <1>4
<1>7. \A k \in DOMAIN ins : t[Len(s) + k] = ins[k]
  <2> TAKE k \in DOMAIN ins
  <2>1. Len(s) + k \in 1..(Len(s) + Len(ins)) /\ ~(Len(s) + k <= Len(s)) /\ (Len(s) + k) - Len(s) = k
    BY <1>4
  <2> QED BY <1>3, <1>4, <2>1
<1> SUFFICES ASSUME NEW k \in DOMAIN t
             PROVE  \E j \in 1..k : t[j].ref = t[k].root
  BY DEF Rooted, t
<1>8. CASE k \in DOMAIN s
  <2>1. PICK j \in 1..k : s[j].ref = s[k].root
    BY <1>8 DEF Rooted
  <2>2. j \in DOMAIN s
    BY <1>4, <1>8
  <2> QED BY <1>6, <1>8, <2>1, <2>2
<1>9. CASE k \notin DOMAIN s
  <2> DEFINE m == k - Len(s)
  <2>1. m \in DOMAIN ins /\ k = Len(s) + m /\ k > Len(s)
    BY <1>4, <1>9
  <2> HIDE DEF m
  <2>2. t[k] = b[at[m]] /\ at[m] \in DOMAIN b
    BY <1>5, <1>7, <2>1
  <2>3. ASSUME NEW i \in DOMAIN s, s[i].ref = t[k].root
        PROVE  \E j \in 1..k : t[j].ref = t[k].root
    <3>1. i \in 1..k
      BY <1>4, <2>1
    <3> QED BY <1>6, <2>3, <3>1
  <2>4. CASE \E i \in DOMAIN s : s[i].ref = b[at[m]].root
    BY <2>2, <2>3, <2>4
  <2>5. CASE \E j \in 1..at[m] : b[j].ref = b[at[m]].root
    <3>1. PICK j \in 1..at[m] : b[j].ref = b[at[m]].root
      BY <2>5
    <3>2. j \in DOMAIN b
      BY <1>4, <2>2
    <3>3. CASE AdjustmentID(b[j]) \in Ids(s)
      <4>1. PICK i \in DOMAIN s : AdjustmentID(b[j]) = AdjustmentID(s[i])
        BY <3>3 DEF Ids
      <4>2. s[i].ref = b[j].ref
        BY <4>1 DEF AdjustmentID
      <4> QED BY <2>2, <2>3, <3>1, <4>2
    <3>4. CASE \E l \in 1..j : IsNew(s, b, l) /\ AdjustmentID(b[l]) = AdjustmentID(b[j])
      <4>1. PICK l \in 1..j : IsNew(s, b, l) /\ AdjustmentID(b[l]) = AdjustmentID(b[j])
        BY <3>4
      <4>2. b[l].ref = b[j].ref
        BY <4>1 DEF AdjustmentID
      <4>3. l \in DOMAIN b /\ l <= at[m]
        BY <1>4, <2>2, <3>2
      <4>4. PICK h \in DOMAIN ins : at[h] = l
        BY <1>5, <4>1, <4>3
      <4>5. ~(m < h)
        <5> SUFFICES ASSUME m < h PROVE FALSE
          OBVIOUS
        <5>1. at[m] < l
          BY <1>5, <2>1, <4>4
        <5> QED BY <1>4, <2>2, <4>3, <5>1
      <4>6. Len(s) + h \in 1..k
        BY <1>4, <2>1, <4>5
      <4>7. t[Len(s) + h] = b[l]
        BY <1>5, <1>7, <4>4
      <4> QED BY <2>2, <3>1, <4>2, <4>6, <4>7
    <3> QED BY <3>2, <3>3, <3>4, NewOrStored
  <2> QED BY <2>2, <2>4, <2>5 DEF RootedIn
<1> QED BY <1>8, <1>9

-----------------------------------------------------------------------------
(* Amounts.                                                                *)

\* FirstOf is the first report of the payment, wherever there is one.
LEMMA FirstOfProperties ==
    ASSUME NEW s \in Seq(ReportType), NEW p, \E i \in DOMAIN s : s[i].root = p
    PROVE  /\ FirstOf(s, p) \in DOMAIN s
           /\ s[FirstOf(s, p)].root = p
           /\ \A j \in 1..(FirstOf(s, p) - 1) : s[j].root # p
<1> DEFINE T == {i \in DOMAIN s : s[i].root = p}
<1>1. Len(s) \in Nat /\ DOMAIN s = 1..Len(s)
  BY LenProperties
<1>2. T \in SUBSET Nat /\ T # {}
  BY <1>1
<1>3. PICK i \in T : \A j \in T : i <= j
  <2> HIDE DEF T
  <2> QED BY <1>2, LeastElement
<1>4. i \in DOMAIN s /\ s[i].root = p /\ \A j \in 1..(i - 1) : s[j].root # p
  BY <1>1, <1>3
<1> QED BY <1>4 DEF FirstOf

\* There is only one first report of a payment.
LEMMA FirstOfIs ==
    ASSUME NEW s \in Seq(ReportType), NEW p, NEW i \in DOMAIN s,
           s[i].root = p, \A j \in 1..(i - 1) : s[j].root # p
    PROVE  FirstOf(s, p) = i
<1> DEFINE f == FirstOf(s, p)
<1>1. f \in DOMAIN s /\ s[f].root = p /\ \A j \in 1..(f - 1) : s[j].root # p
  BY FirstOfProperties
<1>2. Len(s) \in Nat /\ DOMAIN s = 1..Len(s)
  BY LenProperties
<1> HIDE DEF f
<1>3. ~(i < f) /\ ~(f < i)
  BY <1>1, <1>2
<1> QED BY <1>1, <1>2, <1>3 DEF f

\* The same for the two totals of PaymentsUpsert.
LEMMA NetType ==
    ASSUME NEW s \in Seq(ReportType), NEW p
    PROVE  /\ Captured(s, p) \in Int /\ Refunded(s, p) \in Int
           /\ (\A i \in DOMAIN s : s[i].root # p) => Captured(s, p) = 0 /\ Refunded(s, p) = 0
BY TotalType DEF Captured, Refunded

LEMMA NetConcat ==
    ASSUME NEW s \in Seq(ReportType), NEW t \in Seq(ReportType), NEW p
    PROVE  /\ Captured(s \o t, p) = Captured(s, p) + Captured(t, p)
           /\ Refunded(s \o t, p) = Refunded(s, p) + Refunded(t, p)
BY TotalConcat DEF Captured, Refunded

\* The tables fit together: every adjustment has the row of its payment.
TablesOK(t) ==
    /\ t.adjs \in Seq(ReportType)
    /\ \A p \in DOMAIN t.rows : t.rows[p].amount \in Int
    /\ \A i \in DOMAIN t.adjs : t.adjs[i].root \in DOMAIN t.rows

\* The first report of a payment in the table t after an insert of b into s: that
\* of the table before, or the first of the batch.
FirstKept(t, s, b, p) ==
    /\ (\E i \in DOMAIN s : s[i].root = p) => t[FirstOf(t, p)] = s[FirstOf(s, p)]
    /\ (\A i \in DOMAIN s : s[i].root # p) /\ (\E i \in DOMAIN b : b[i].root = p)
         => t[FirstOf(t, p)] = b[FirstOf(b, p)]

LEMMA FirstStored ==
    ASSUME NEW s \in Seq(ReportType), NEW b \in Seq(ReportType), NEW p
    PROVE  FirstKept(s \o Inserted(s, b), s, b, p)
<1> DEFINE t == s \o Inserted(s, b)
<1> DEFINE ins == Inserted(s, b)
<1>1. ins \in Seq(ReportType)
  BY InsertedPicks
<1>2. PICK at : Picks(at, s, b)
  BY InsertedPicks
<1>3. /\ t \in Seq(ReportType) /\ Len(t) = Len(s) + Len(ins)
      /\ \A i \in 1..(Len(s) + Len(ins)) : t[i] = IF i <= Len(s) THEN s[i] ELSE ins[i - Len(s)]
  <2> HIDE DEF ins
  <2>1. t = s \o ins
    BY DEF ins
  <2> HIDE DEF t
  <2> QED BY <1>1, <2>1, ConcatProperties
<1> HIDE DEF t
<1>4. /\ Len(s) \in Nat /\ DOMAIN s = 1..Len(s)
      /\ Len(ins) \in Nat /\ DOMAIN ins = 1..Len(ins)
      /\ DOMAIN t = 1..(Len(s) + Len(ins))
      /\ Len(b) \in Nat /\ DOMAIN b = 1..Len(b)
  BY <1>1, <1>3, LenProperties
<1>5. /\ at \in [DOMAIN ins -> DOMAIN b]
      /\ \A k \in DOMAIN ins : ins[k] = b[at[k]]
      /\ \A k, l \in DOMAIN ins : k < l => at[k] < at[l]
      /\ \A i \in DOMAIN b : IsNew(s, b, i) => \E k \in DOMAIN ins : at[k] = i
  BY <1>2 DEF Picks
<1> HIDE DEF ins
<1>6. \A i \in DOMAIN s : i \in DOMAIN t /\ t[i] = s[i]
  BY <1>3, <1>4
<1>7. \A k \in DOMAIN ins : Len(s) + k \in DOMAIN t /\ t[Len(s) + k] = ins[k]
  <2> TAKE k \in DOMAIN ins
  <2>1. Len(s) + k \in 1..(Len(s) + Len(ins)) /\ ~(Len(s) + k <= Len(s)) /\ (Len(s) + k) - Len(s) = k
    BY <1>4
  <2> QED BY <1>3, <1>4, <2>1
<1>8. ASSUME \E i \in DOMAIN s : s[i].root = p
      PROVE  t[FirstOf(t, p)] = s[FirstOf(s, p)]
  <2> DEFINE f == FirstOf(s, p)
  <2>1. f \in DOMAIN s /\ s[f].root = p /\ \A j \in 1..(f - 1) : s[j].root # p
    BY <1>8, FirstOfProperties
  <2> HIDE DEF f
  <2>2. \A j \in 1..(f - 1) : j \in DOMAIN s
    BY <1>4, <2>1
  <2>3. \A j \in 1..(f - 1) : t[j].root # p
    BY <1>6, <2>1, <2>2
  <2>4. f \in DOMAIN t /\ t[f].root = p
    BY <1>6, <2>1
  <2>5. FirstOf(t, p) = f
    BY <1>3, <2>3, <2>4, FirstOfIs
  <2> QED BY <1>6, <2>1, <2>5 DEF f
<1>9. ASSUME \A i \in DOMAIN s : s[i].root # p, \E i \in DOMAIN b : b[i].root = p
      PROVE  t[FirstOf(t, p)] = b[FirstOf(b, p)]
  <2> DEFINE f == FirstOf(b, p)
  <2>1. f \in DOMAIN b /\ b[f].root = p /\ \A j \in 1..(f - 1) : b[j].root # p
    BY <1>9, FirstOfProperties
  <2> HIDE DEF f
  <2>2. IsNew(s, b, f)
    <3>1. \A i \in DOMAIN s : AdjustmentID(s[i]) # AdjustmentID(b[f])
      BY <1>9, <2>1 DEF AdjustmentID
    <3>2. \A j \in 1..(f - 1) : AdjustmentID(b[j]) # AdjustmentID(b[f])
      BY <2>1 DEF AdjustmentID
    <3> QED BY <3>1, <3>2 DEF IsNew, Ids
  <2>3. PICK k \in DOMAIN ins : at[k] = f
    BY <1>5, <2>1, <2>2
  <2>4. Len(s) + k \in DOMAIN t /\ t[Len(s) + k] = b[f]
    BY <1>5, <1>7, <2>3
  <2>5. ASSUME NEW j \in 1..((Len(s) + k) - 1)
        PROVE  t[j].root # p
    <3>1. CASE j \in DOMAIN s
      BY <1>6, <1>9, <3>1
    <3>2. CASE j \notin DOMAIN s
      <4> DEFINE m == j - Len(s)
      <4>1. m \in DOMAIN ins /\ m < k /\ j = Len(s) + m
        BY <1>4, <2>3, <3>2
      <4> HIDE DEF m
      <4>2. at[m] < f /\ at[m] \in DOMAIN b
        BY <1>5, <2>3, <4>1
      <4>3. at[m] \in 1..(f - 1)
        BY <1>4, <2>1, <4>2
      <4>4. t[j] = b[at[m]]
        BY <1>5, <1>7, <4>1
      <4> QED BY <2>1, <4>3, <4>4
    <3> QED BY <3>1, <3>2
  <2>6. FirstOf(t, p) = Len(s) + k
    <3> DEFINE i == Len(s) + k
    <3>1. i \in DOMAIN t /\ t[i].root = p /\ \A j \in 1..(i - 1) : t[j].root # p
      BY <2>1, <2>4, <2>5
    <3> HIDE DEF i
    <3>2. FirstOf(t, p) = i
      BY <1>3, <3>1, FirstOfIs
    <3> QED BY <3>2 DEF i
  <2> QED BY <2>4, <2>6 DEF f
<1> QED BY <1>8, <1>9 DEF FirstKept, t

\* PaymentsUpsert moves no amount twice: whatever is in the tables and in the
\* batch, reports that are stored, repeated in the batch, or of payments that have
\* no row yet, every amount stays the net of the adjustments stored for it.
THEOREM UpsertKeepsAmounts ==
    ASSUME NEW t, TablesOK(t), AmountsNetOf(t), NEW b \in Seq(ReportType)
    PROVE  TablesOK(PaymentsUpsert(t, b)) /\ AmountsNetOf(PaymentsUpsert(t, b))
<1> DEFINE s == t.adjs
           new == Inserted(s, b)
           P == DOMAIN t.rows \cup {b[i].root : i \in DOMAIN b}
           u == PaymentsUpsert(t, b)
           w == s \o new
<1>1. /\ u.adjs = w
      /\ DOMAIN u.rows = P
      /\ \A p \in P : u.rows[p].amount = RowOf(t.rows, b, p).amount
                                           + Captured(new, p) - Refunded(new, p)
  BY DEF PaymentsUpsert
<1>2. s \in Seq(ReportType) /\ new \in Seq(ReportType)
  BY InsertedPicks DEF TablesOK
<1>3. /\ w \in Seq(ReportType) /\ DOMAIN s \subseteq DOMAIN w
      /\ \A i \in DOMAIN s : w[i] = s[i]
      /\ \A k \in DOMAIN w \ DOMAIN s : \E i \in DOMAIN b : w[k] = b[i]
      /\ \A i \in DOMAIN b : \E k \in DOMAIN w : AdjustmentID(w[k]) = AdjustmentID(b[i])
  <2>1. w = s \o Inserted(s, b)
    OBVIOUS
  <2> HIDE DEF s, new, w
  <2>2. StoredTable(w, s, b)
    BY <1>2, <2>1, StoredAdjustments
  <2> QED BY <2>2 DEF StoredTable
<1>4. \A i \in DOMAIN s : s[i].root \in DOMAIN t.rows
  BY DEF TablesOK
<1>5. \A p \in DOMAIN t.rows :
         /\ t.rows[p].amount \in Int
         /\ \E i \in DOMAIN s : s[i].root = p
         /\ t.rows[p].amount = PaymentRow(s[FirstOf(s, p)]).amount
                                 + Captured(s, p) - Refunded(s, p)
  BY DEF TablesOK, AmountsNetOf
<1>6. \A p : /\ Captured(s, p) \in Int /\ Refunded(s, p) \in Int
             /\ Captured(new, p) \in Int /\ Refunded(new, p) \in Int
             /\ Captured(w, p) = Captured(s, p) + Captured(new, p)
             /\ Refunded(w, p) = Refunded(s, p) + Refunded(new, p)
             /\ (\A i \in DOMAIN s : s[i].root # p) => Captured(s, p) = 0 /\ Refunded(s, p) = 0
  <2>1. w = s \o new
    OBVIOUS
  <2> HIDE DEF s, new, w
  <2> QED BY <1>2, <2>1, NetType, NetConcat
<1>7. \A p : /\ (\E i \in DOMAIN s : s[i].root = p) => w[FirstOf(w, p)] = s[FirstOf(s, p)]
             /\ (\A i \in DOMAIN s : s[i].root # p) /\ (\E i \in DOMAIN b : b[i].root = p)
                  => w[FirstOf(w, p)] = b[FirstOf(b, p)]
  <2>1. w = s \o Inserted(s, b)
    OBVIOUS
  <2> HIDE DEF s, new, w
  <2>2. \A p : FirstKept(w, s, b, p)
    BY <1>2, <2>1, FirstStored
  <2> QED BY <2>2 DEF FirstKept
<1> HIDE DEF s, new, w, u
<1>8. ASSUME NEW p \in P
      PROVE  /\ \E i \in DOMAIN w : w[i].root = p
             /\ u.rows[p].amount = PaymentRow(w[FirstOf(w, p)]).amount
                                     + Captured(w, p) - Refunded(w, p)
             /\ u.rows[p].amount \in Int
  <2>1. CASE p \in DOMAIN t.rows
    <3>1. \E i \in DOMAIN w : w[i].root = p
      BY <1>3, <1>5, <2>1
    <3>2. RowOf(t.rows, b, p).amount = t.rows[p].amount
      BY <2>1 DEF RowOf
    <3>3. w[FirstOf(w, p)] = s[FirstOf(s, p)]
      BY <1>5, <1>7, <2>1
    <3>4. PaymentRow(s[FirstOf(s, p)]).amount \in Int
      <4>1. FirstOf(s, p) \in DOMAIN s
        BY <1>2, <1>5, <2>1, FirstOfProperties
      <4>2. s[FirstOf(s, p)] \in ReportType
        BY <1>2, <4>1, LenProperties
      <4> QED BY <4>2 DEF PaymentRow, ReportType
    <3> HIDE DEF P
    <3>5. u.rows[p].amount = t.rows[p].amount + Captured(new, p) - Refunded(new, p)
      BY <1>1, <3>2
    <3>6. t.rows[p].amount = PaymentRow(w[FirstOf(w, p)]).amount
                               + Captured(s, p) - Refunded(s, p)
      BY <1>5, <2>1, <3>3
    <3>7. t.rows[p].amount \in Int
      BY <1>5, <2>1
    <3> QED BY <1>6, <3>1, <3>3, <3>4, <3>5, <3>6, <3>7
  <2>2. CASE p \notin DOMAIN t.rows
    <3>1. PICK i \in DOMAIN b : b[i].root = p
      BY <2>2
    <3>2. PICK k \in DOMAIN w : AdjustmentID(w[k]) = AdjustmentID(b[i])
      BY <1>3
    <3>3. w[k].root = p
      BY <3>1, <3>2 DEF AdjustmentID
    <3>4. \A j \in DOMAIN s : s[j].root # p
      BY <1>4, <2>2
    <3>5. w[FirstOf(w, p)] = b[FirstOf(b, p)]
      BY <1>7, <3>1, <3>4
    <3>6. RowOf(t.rows, b, p) = PaymentRow(w[FirstOf(w, p)])
      BY <2>2, <3>5 DEF RowOf
    <3>7. PaymentRow(w[FirstOf(w, p)]).amount \in Int
      <4>1. FirstOf(w, p) \in DOMAIN w
        BY <1>3, <3>2, <3>3, FirstOfProperties
      <4>2. w[FirstOf(w, p)] \in ReportType
        BY <1>3, <4>1, LenProperties
      <4> QED BY <4>2 DEF PaymentRow, ReportType
    <3> HIDE DEF P
    <3>8. u.rows[p].amount = PaymentRow(w[FirstOf(w, p)]).amount
                               + Captured(new, p) - Refunded(new, p)
      BY <1>1, <3>6
    <3>9. /\ Captured(w, p) = Captured(new, p) /\ Refunded(w, p) = Refunded(new, p)
          /\ Captured(new, p) \in Int /\ Refunded(new, p) \in Int
      BY <1>6, <3>4
    <3>10. u.rows[p].amount \in Int
      BY <3>7, <3>8, <3>9
    <3> QED BY <3>2, <3>3, <3>8, <3>9, <3>10
  <2> QED BY <2>1, <2>2
<1>9. ASSUME NEW k \in DOMAIN w PROVE w[k].root \in P
  <2>1. CASE k \in DOMAIN s
    BY <1>3, <1>4, <2>1
  <2>2. CASE k \notin DOMAIN s
    BY <1>3, <2>2
  <2> QED BY <2>1, <2>2
<1> HIDE DEF P
<1>10. TablesOK(u)
  BY <1>1, <1>3, <1>8, <1>9 DEF TablesOK
<1>11. AmountsNetOf(u)
  BY <1>1, <1>8 DEF AmountsNetOf
<1> QED BY <1>10, <1>11 DEF u

=============================================================================
