------------------------ MODULE ScreensPricesProofs ------------------------
(***************************************************************************)
(* Theorems about Statements, Reports, Parties and CapitalShares, for any  *)
(* parties, papers, lists, treasuries, dates, vehicles and periods.        *)
(*                                                                         *)
(* Of Statements, that rows of the log keep their columns and the legs of  *)
(* a document their place, and that what the screens say of one account    *)
(* agrees: statements of any dates add up and end with the balance of the  *)
(* list, the client's with the office's, the lines of a treasury with its  *)
(* balance; and dollars are priced first in, first out, so that the        *)
(* statement in pounds ends with the value of what is left.                *)
(*                                                                         *)
(* Of Reports, types, that nothing is counted twice and that the reports   *)
(* agree.  They are sums over one state; what they need of it is that each *)
(* row was stamped when it was written and refers to what is there.        *)
(*                                                                         *)
(* Of Parties, that links are pairs and no paper names a party that is     *)
(* gone; of CapitalShares, that no two lists of a supplier cover one day,  *)
(* and that the holder does not price the past.                            *)
(***************************************************************************)
EXTENDS Statements, Reports, Parties, CapitalShares, SequenceTheorems, SumProofs, TLAPS

-----------------------------------------------------------------------------
(* Statements.  First: a finite set in the order of a function of it.      *)

Rank(at, S, x) == Cardinality({y \in S : at[y] < at[x]})

\* o has S, once each, as at grows
Sorted(o, S, n, at) ==
    /\ n \in Nat /\ o = [k \in 1 .. n |-> o[k]] /\ \A k \in 1 .. n : o[k] \in S
    /\ \A x \in S : \E k \in 1 .. n : o[k] = x
    /\ \A j, k \in 1 .. n : j < k => at[o[j]] < at[o[k]]

\* How many numbers an interval has.
LEMMA IntervalSize ==
  \A a, b \in Int : IsFiniteSet(a .. b) /\ Cardinality(a .. b) = IF a > b THEN 0 ELSE b - a + 1
  BY FS_Interval

\* Of two, the one that is later has more before it.
LEMMA RankGrows ==
  ASSUME NEW at, NEW S, IsFiniteSet(S), \A x \in S : at[x] \in Nat
  PROVE  \A x, y \in S : /\ Rank(at, S, x) \in 0 .. Cardinality(S) - 1
                         /\ at[x] < at[y] => Rank(at, S, x) < Rank(at, S, y)
<1> SUFFICES ASSUME NEW x \in S, NEW y \in S
             PROVE  /\ Rank(at, S, x) \in 0 .. Cardinality(S) - 1
                    /\ at[x] < at[y] => Rank(at, S, x) < Rank(at, S, y)
  OBVIOUS
<1>1. PICK A : A = {z \in S : at[z] < at[x]}
  OBVIOUS
<1>2. PICK B : B = {z \in S : at[z] < at[y]}
  OBVIOUS
<1>3. A \subseteq S /\ B \subseteq S /\ x \notin A /\ IsFiniteSet(A) /\ IsFiniteSet(B)
  <2>1. A \subseteq S /\ B \subseteq S
    BY <1>1, <1>2
  <2>2. x \notin A
    BY <1>1
  <2> QED BY <2>1, <2>2, FS_Subset
<1>4. Rank(at, S, x) = Cardinality(A) /\ Rank(at, S, y) = Cardinality(B)
  BY <1>1, <1>2 DEF Rank
<1>5. ASSUME NEW T, T \subseteq S, A \subseteq T, x \in T, IsFiniteSet(T) PROVE Cardinality(A) < Cardinality(T)
  <2>1. A \subseteq T /\ A # T
    BY <1>3, <1>5
  <2>2. Cardinality(A) <= Cardinality(T) /\ (Cardinality(A) = Cardinality(T) => A = T)
    BY <1>5, <2>1, FS_Subset
  <2>3. Cardinality(A) \in Nat /\ Cardinality(T) \in Nat
    BY <1>3, <1>5, FS_CardinalityType
  <2> QED BY <2>1, <2>2, <2>3
<1>6. Cardinality(A) \in Nat /\ Cardinality(S) \in Nat /\ Cardinality(A) < Cardinality(S)
  BY <1>3, <1>5, FS_CardinalityType
<1>7. ASSUME at[x] < at[y] PROVE Cardinality(A) < Cardinality(B)
  <2>1. x \in B
    BY <1>2, <1>7
  <2>2. A \subseteq B
    <3>1. ASSUME NEW z \in A PROVE z \in B
      <4>1. z \in S /\ at[z] \in Nat /\ at[x] \in Nat /\ at[y] \in Nat /\ at[z] < at[x]
        BY <1>1
      <4>2. at[z] < at[y]
        BY <1>7, <4>1
      <4> QED BY <1>2, <4>1, <4>2
    <3> QED BY <3>1
  <2> QED BY <1>3, <1>5, <2>1, <2>2
<1> QED BY <1>4, <1>6, <1>7

\* InOrder sorts, whatever it sorts by, when no two are equal.
LEMMA OrderIs ==
  ASSUME NEW at, NEW S, DOMAIN at = S, IsFiniteSet(S), \A x \in S : at[x] \in Nat,
         \A x, y \in S : at[x] = at[y] => x = y
  PROVE  Sorted(InOrder(at), S, Cardinality(S), at)
<1>1. PICK n : n = Cardinality(S)
  OBVIOUS
<1>2. n \in Nat
  BY <1>1, FS_CardinalityType
<1>3. PICK T : T = 0 .. n - 1
  OBVIOUS
<1>4. IsFiniteSet(T) /\ Cardinality(T) = n
  <2>1. IsFiniteSet(0 .. n - 1) /\ Cardinality(0 .. n - 1) = IF 0 > n - 1 THEN 0 ELSE (n - 1) - 0 + 1
    BY <1>2, IntervalSize
  <2> QED BY <1>2, <1>3, <2>1
<1>5. PICK f : f = [x \in S |-> Rank(at, S, x)]
  OBVIOUS
<1>6. \A x, y \in S : f[x] \in T /\ (at[x] < at[y] => f[x] < f[y])
  BY <1>1, <1>3, <1>5, RankGrows
<1>7. f \in Injection(S, T)
  <2>1. f \in [S -> T]
    BY <1>5, <1>6
  <2>2. ASSUME NEW x \in S, NEW y \in S, f[x] = f[y] PROVE x = y
    <3>1. at[x] \in Nat /\ at[y] \in Nat /\ f[x] \in Nat /\ f[y] \in Nat
      BY <1>2, <1>3, <1>6
    <3>2. ~(at[x] < at[y]) /\ ~(at[y] < at[x])
      BY <1>6, <2>2, <3>1
    <3>3. at[x] = at[y]
      BY <3>1, <3>2
    <3> QED BY <3>3
  <2> QED BY <2>1, <2>2 DEF Injection, IsInjective
<1>8. f \in Surjection(S, T)
  BY <1>1, <1>4, <1>7, FS_Injection
<1>9. \A t \in T : \E x \in S : f[x] = t
  BY <1>8 DEF Surjection
<1>10. PICK o : o = InOrder(at)
  OBVIOUS
<1>11. o = [k \in 1 .. n |-> CHOOSE x \in S : Rank(at, S, x) = k - 1]
  BY <1>1, <1>10 DEF InOrder, Rank
<1>12. \A k \in 1 .. n : o[k] \in S /\ f[o[k]] = k - 1
  <2> SUFFICES ASSUME NEW k \in 1 .. n PROVE o[k] \in S /\ f[o[k]] = k - 1
    OBVIOUS
  <2>1. k - 1 \in T
    BY <1>2, <1>3
  <2>2. \E x \in S : Rank(at, S, x) = k - 1
    BY <1>5, <1>9, <2>1
  <2>3. o[k] = CHOOSE x \in S : Rank(at, S, x) = k - 1
    BY <1>11
  <2>4. o[k] \in S /\ Rank(at, S, o[k]) = k - 1
    BY <2>2, <2>3
  <2> QED BY <1>5, <2>4
<1>13. \A x, y \in S : f[x] = f[y] => x = y
  BY <1>7 DEF Injection, IsInjective
<1>14. \A x \in S : \E k \in 1 .. n : o[k] = x
  <2> SUFFICES ASSUME NEW x \in S PROVE \E k \in 1 .. n : o[k] = x
    OBVIOUS
  <2>1. f[x] \in 0 .. n - 1
    BY <1>3, <1>6
  <2>2. f[x] + 1 \in 1 .. n /\ (f[x] + 1) - 1 = f[x]
    BY <1>2, <2>1
  <2>3. o[f[x] + 1] \in S /\ f[o[f[x] + 1]] = f[x]
    BY <1>12, <2>2
  <2> QED BY <1>13, <2>2, <2>3
<1>15. ASSUME NEW j \in 1 .. n, NEW k \in 1 .. n, j < k PROVE at[o[j]] < at[o[k]]
  <2>1. o[j] \in S /\ o[k] \in S /\ f[o[j]] = j - 1 /\ f[o[k]] = k - 1
    BY <1>12
  <2>2. at[o[j]] \in Nat /\ at[o[k]] \in Nat
    BY <2>1
  <2>3. at[o[k]] < at[o[j]] => FALSE
    <3>1. at[o[k]] < at[o[j]] => f[o[k]] < f[o[j]]
      BY <1>6, <2>1
    <3> QED BY <1>2, <1>15, <2>1, <3>1
  <2>4. at[o[k]] = at[o[j]] => FALSE
    <3>1. at[o[k]] = at[o[j]] => o[k] = o[j]
      BY <2>1
    <3> QED BY <1>2, <1>15, <2>1, <3>1
  <2> QED BY <2>2, <2>3, <2>4
<1>16. o = [k \in 1 .. n |-> o[k]]
  BY <1>11
<1> QED BY <1>1, <1>2, <1>10, <1>12, <1>14, <1>15, <1>16 DEF Sorted

-----------------------------------------------------------------------------
(* Rows of a sequence, balances and sums.                                  *)

ToItself(S) == [n \in S |-> n]

\* What a sequence has at numbers: as many rows, in their order.
LEMMA NumbersInOrder ==
  ASSUME NEW S, S \subseteq Nat, IsFiniteSet(S)
  PROVE  /\ Cardinality(S) \in Nat /\ InOrder(ToItself(S)) = [k \in 1 .. Cardinality(S) |-> InOrder(ToItself(S))[k]]
         /\ \A k \in 1 .. Cardinality(S) : InOrder(ToItself(S))[k] \in S
         /\ \A x \in S : \E k \in 1 .. Cardinality(S) : InOrder(ToItself(S))[k] = x
         /\ \A j, k \in 1 .. Cardinality(S) : j < k => InOrder(ToItself(S))[j] < InOrder(ToItself(S))[k]
<1>1. PICK at : at = ToItself(S)
  OBVIOUS
<1>2. DOMAIN at = S /\ \A x \in S : at[x] = x
  BY <1>1 DEF ToItself
<1>3. Sorted(InOrder(at), S, Cardinality(S), at)
  BY <1>2, OrderIs
<1>4. \A k \in 1 .. Cardinality(S) : InOrder(at)[k] \in S /\ at[InOrder(at)[k]] = InOrder(at)[k]
  BY <1>2, <1>3 DEF Sorted
<1>5. \A j, k \in 1 .. Cardinality(S) : j < k => InOrder(at)[j] < InOrder(at)[k]
  BY <1>3, <1>4 DEF Sorted
<1> QED BY <1>1, <1>3, <1>4, <1>5 DEF Sorted

\* RowsAt gives a sequence, of as many rows.
LEMMA RowsAtIs ==
  ASSUME NEW T, NEW s \in Seq(T), NEW S \in SUBSET (DOMAIN s)
  PROVE  RowsAt(s, S) \in Seq(T) /\ Len(RowsAt(s, S)) = Cardinality(S) /\ Cardinality(S) <= Len(s)
<1>1. DOMAIN s = 1 .. Len(s) /\ Len(s) \in Nat
  OBVIOUS
<1>2. IsFiniteSet(1 .. Len(s)) /\ Cardinality(1 .. Len(s)) = Len(s)
  <2>1. IsFiniteSet(1 .. Len(s)) /\ Cardinality(1 .. Len(s)) = IF 1 > Len(s) THEN 0 ELSE Len(s) - 1 + 1
    BY <1>1, IntervalSize
  <2> QED BY <1>1, <2>1
<1>3. IsFiniteSet(S) /\ Cardinality(S) <= Len(s) /\ Cardinality(S) \in Nat /\ S \subseteq Nat
  <2>1. S \subseteq 1 .. Len(s)
    BY <1>1
  <2>2. IsFiniteSet(S) /\ Cardinality(S) <= Len(s) /\ Cardinality(S) \in Nat
    BY <1>2, <2>1, FS_Subset, FS_CardinalityType
  <2> QED BY <1>1, <2>1, <2>2
<1>4. PICK n, o : n = Cardinality(S) /\ o = InOrder(ToItself(S))
  OBVIOUS
<1>5. n \in Nat /\ DOMAIN o = 1 .. n /\ \A k \in 1 .. n : s[o[k]] \in T
  <2>1. n \in Nat /\ o = [k \in 1 .. n |-> o[k]] /\ \A k \in 1 .. n : o[k] \in S
    BY <1>3, <1>4, NumbersInOrder
  <2> QED BY <2>1
<1>6. RowsAt(s, S) = [k \in 1 .. n |-> s[o[k]]]
  BY <1>4, <1>5 DEF RowsAt, ToItself
<1>7. RowsAt(s, S) \in Seq(T) /\ Len(RowsAt(s, S)) = n
  BY <1>5, <1>6
<1> QED BY <1>3, <1>4, <1>7

\* Of numbers without a gap the k-th is the k-th from the first.
LEMMA IntervalInOrder ==
  ASSUME NEW a \in Nat, NEW b \in Int, a <= b + 1
  PROVE  InOrder(ToItself(a .. b)) = [k \in 1 .. b - a + 1 |-> a + k - 1]
<1>1. PICK S : S = a .. b
  OBVIOUS
<1>2. Cardinality(S) = b - a + 1
  BY <1>1, IntervalSize
<1>3. PICK at : at = ToItself(S)
  OBVIOUS
<1>4. DOMAIN at = S /\ \A x \in S : at[x] = x
  BY <1>3 DEF ToItself
<1>5. ASSUME NEW x \in S PROVE Rank(at, S, x) = x - a
  <2>1. x \in Int /\ a <= x /\ x <= b
    BY <1>1
  <2>2. PICK L : L = {y \in S : at[y] < at[x]}
    OBVIOUS
  <2>3. L = {y \in S : y < x}
    BY <1>4, <2>2
  <2>4. L = a .. x - 1
    BY <1>1, <2>1, <2>3
  <2>5. Cardinality(a .. x - 1) = IF a > x - 1 THEN 0 ELSE (x - 1) - a + 1
    BY <2>1, IntervalSize
  <2>6. Cardinality(L) = x - a
    BY <2>1, <2>4, <2>5
  <2> QED BY <2>2, <2>6 DEF Rank
<1>6. PICK n, o : n = b - a + 1 /\ o = InOrder(at)
  OBVIOUS
<1>7. o = [k \in 1 .. n |-> CHOOSE x \in S : Rank(at, S, x) = k - 1]
  BY <1>2, <1>4, <1>6 DEF InOrder, Rank
<1>8. ASSUME NEW k \in 1 .. n PROVE o[k] = a + k - 1
  <2>1. a + k - 1 \in S
    BY <1>1, <1>6
  <2>2. Rank(at, S, a + k - 1) = k - 1
    BY <1>5, <1>6, <2>1
  <2>3. o[k] = CHOOSE x \in S : Rank(at, S, x) = k - 1
    BY <1>7
  <2>4. o[k] \in S /\ Rank(at, S, o[k]) = k - 1
    BY <2>1, <2>2, <2>3
  <2>5. o[k] \in Int /\ o[k] - a = k - 1
    BY <1>1, <1>5, <2>4
  <2> QED BY <1>6, <2>5
<1> QED BY <1>1, <1>3, <1>6, <1>7, <1>8

\* Rows from a to b, one by one.
LEMMA RowsAtInterval ==
  \A rows, a, b : a \in Nat /\ b \in Int /\ a <= b + 1
    => RowsAt(rows, a .. b) = [k \in 1 .. b - a + 1 |-> rows[a + k - 1]]
<1> SUFFICES ASSUME NEW rows, NEW a \in Nat, NEW b \in Int, a <= b + 1
             PROVE  RowsAt(rows, a .. b) = [k \in 1 .. b - a + 1 |-> rows[a + k - 1]]
  OBVIOUS
<1>1. PICK o : o = InOrder(ToItself(a .. b))
  OBVIOUS
<1>2. o = [k \in 1 .. b - a + 1 |-> a + k - 1]
  BY <1>1, IntervalInOrder
<1>3. RowsAt(rows, a .. b) = [k \in DOMAIN o |-> rows[o[k]]]
  BY <1>1 DEF RowsAt, ToItself
<1> QED BY <1>2, <1>3

-----------------------------------------------------------------------------
(* Running sums.                                                           *)

Runs(run, base, amounts, n) == run = [k \in 0 .. n |-> IF k = 0 THEN base ELSE run[k - 1] + amounts[k]]

\* The balances are the sums of the first amounts.
LEMMA RunsExist ==
  ASSUME NEW base \in Int, NEW amounts, NEW n \in Nat, \A k \in 1 .. n : amounts[k] \in Int
  PROVE  LET r == [k \in 0 .. n |-> base + TotalOf(amounts, 1 .. k)]
         IN  /\ Runs(r, base, amounts, n)
             /\ \A k \in 0 .. n : TotalOf(amounts, 1 .. k) \in Int
<1> DEFINE r == [k \in 0 .. n |-> base + TotalOf(amounts, 1 .. k)]
<1>1. \A k \in 0 .. n : TotalOf(amounts, 1 .. k) \in Int /\ IsFiniteSet(1 .. k)
  <2> SUFFICES ASSUME NEW k \in 0 .. n PROVE TotalOf(amounts, 1 .. k) \in Int /\ IsFiniteSet(1 .. k)
    OBVIOUS
  <2>1. IsFiniteSet(1 .. k) /\ \A j \in 1 .. k : amounts[j] \in Int
    BY IntervalSize
  <2> QED BY <2>1, SumInt
<1>2. base + TotalOf(amounts, 1 .. 0) = base
  <2>1. 1 .. 0 = {} /\ TotalOf(amounts, {}) = 0
    BY SumEmpty
  <2> QED BY <2>1
<1>3. ASSUME NEW k \in 1 .. n
      PROVE  base + TotalOf(amounts, 1 .. k) = (base + TotalOf(amounts, 1 .. k - 1)) + amounts[k]
  <2>1. 1 .. k = (1 .. k - 1) \cup {k} /\ k \notin 1 .. k - 1 /\ k - 1 \in 0 .. n /\ k \in 0 .. n
    OBVIOUS
  <2>2. IsFiniteSet(1 .. k) /\ \A z \in 1 .. k : amounts[z] \in Int
    BY <1>1, <2>1
  <2>3. TotalOf(amounts, 1 .. k) = amounts[k] + TotalOf(amounts, 1 .. k - 1)
    BY <2>1, <2>2, SumOneMore
  <2>4. TotalOf(amounts, 1 .. k - 1) \in Int /\ amounts[k] \in Int
    BY <1>1, <2>1
  <2> QED BY <2>3, <2>4
<1>4. r = [k \in 0 .. n |-> IF k = 0 THEN base ELSE r[k - 1] + amounts[k]]
  <2>1. \A k \in 0 .. n : r[k] = IF k = 0 THEN base ELSE r[k - 1] + amounts[k]
    <3> SUFFICES ASSUME NEW k \in 0 .. n PROVE r[k] = IF k = 0 THEN base ELSE r[k - 1] + amounts[k]
      OBVIOUS
    <3>1. CASE k = 0
      BY <1>2, <3>1
    <3>2. CASE k # 0
      <4>1. k \in 1 .. n /\ k - 1 \in 0 .. n
        BY <3>2
      <4> QED BY <1>3, <3>2, <4>1
    <3> QED BY <3>1, <3>2
  <2> QED BY <2>1
<1> QED BY <1>1, <1>4 DEF Runs

\* Balances are determined by their first and by the amounts.
LEMMA RunsOnce ==
  ASSUME NEW base, NEW amounts, NEW n \in Nat, NEW r, NEW q, Runs(r, base, amounts, n), Runs(q, base, amounts, n)
  PROVE  \A k \in 0 .. n : r[k] = q[k]
<1> DEFINE Bad == {k \in 0 .. n : r[k] # q[k]}
<1>1. SUFFICES ASSUME Bad # {} PROVE FALSE
  OBVIOUS
<1>2. PICK k \in Bad : \A j \in Bad : k <= j
  <2>1. Bad \subseteq Nat
    OBVIOUS
  <2> QED BY <1>1, <2>1, LeastOf
<1>3. r[k] = (IF k = 0 THEN base ELSE r[k - 1] + amounts[k]) /\ q[k] = (IF k = 0 THEN base ELSE q[k - 1] + amounts[k])
  BY DEF Runs
<1>4. k # 0 => k - 1 \in 0 .. n /\ k - 1 \notin Bad
  BY <1>2
<1> QED BY <1>3, <1>4

RunsTo(run, base, amounts, n) ==
    /\ \A k \in 0 .. n : run[k] = base + TotalOf(amounts, 1 .. k) /\ run[k] \in Int
    /\ run[0] = base /\ \A k \in 1 .. n : run[k] = run[k - 1] + amounts[k]

\* The recursion of Running, without the recursion.
LEMMA RunningIs ==
  \A base, amounts, n : base \in Int /\ n \in Nat /\ Len(amounts) = n /\ (\A k \in 1 .. n : amounts[k] \in Int)
    => RunsTo(Running(base, amounts), base, amounts, n)
<1> SUFFICES ASSUME NEW base \in Int, NEW amounts, NEW n \in Nat, Len(amounts) = n, \A k \in 1 .. n : amounts[k] \in Int
             PROVE  RunsTo(Running(base, amounts), base, amounts, n)
  OBVIOUS
<1>1. PICK r : /\ r = [k \in 0 .. n |-> base + TotalOf(amounts, 1 .. k)]
               /\ Runs(r, base, amounts, n) /\ \A k \in 0 .. n : TotalOf(amounts, 1 .. k) \in Int
  BY RunsExist
<1>2. PICK q : q = Running(base, amounts)
  OBVIOUS
<1>3. q = CHOOSE f : f = [k \in 0 .. n |-> IF k = 0 THEN base ELSE f[k - 1] + amounts[k]]
  BY <1>2 DEF Running
<1>4. Runs(q, base, amounts, n)
  <2>1. r = [k \in 0 .. n |-> IF k = 0 THEN base ELSE r[k - 1] + amounts[k]]
    BY <1>1 DEF Runs
  <2>2. q = [k \in 0 .. n |-> IF k = 0 THEN base ELSE q[k - 1] + amounts[k]]
    BY <1>3, <2>1
  <2> QED BY <2>2 DEF Runs
<1>5. \A k \in 0 .. n : q[k] = r[k]
  BY <1>1, <1>4, RunsOnce
<1>6. \A k \in 0 .. n : q[k] = base + TotalOf(amounts, 1 .. k) /\ q[k] \in Int
  BY <1>1, <1>5
<1>7. q[0] = base /\ \A k \in 1 .. n : q[k] = q[k - 1] + amounts[k]
  BY <1>4 DEF Runs
<1> QED BY <1>2, <1>6, <1>7 DEF RunsTo

-----------------------------------------------------------------------------
(* Sums in another order.                                                  *)

\* A sum over one.
LEMMA SumOne ==
  ASSUME NEW f, NEW x, f[x] \in Int
  PROVE  TotalOf(f, {x}) = f[x]
<1>1. PICK S : S = {x}
  OBVIOUS
<1>2. IsFiniteSet(S) /\ S = {} \cup {x} /\ x \notin {} /\ \A z \in S : f[z] \in Int
  BY <1>1, FS_Singleton
<1>3. TotalOf(f, S) = f[x] + TotalOf(f, {})
  BY <1>2, SumOneMore
<1>4. TotalOf(f, S) = f[x]
  BY <1>3, SumEmpty
<1> QED BY <1>1, <1>4

Group(W, g, p) == {w \in W : g[w] = p}

\* A sum is the sum of the sums of its groups.
LEMMA SumByGroups ==
  \A f, W, g, P, h : /\ IsFiniteSet(W) /\ (\A w \in W : f[w] \in Int)
                     /\ IsFiniteSet(P) /\ (\A w \in W : g[w] \in P)
                     /\ (\A p \in P : h[p] = TotalOf(f, Group(W, g, p)))
    => TotalOf(f, W) = TotalOf(h, P)
<1> SUFFICES ASSUME NEW f, NEW W, NEW g, NEW P, NEW h,
                    IsFiniteSet(W), \A w \in W : f[w] \in Int, IsFiniteSet(P), \A w \in W : g[w] \in P,
                    \A p \in P : h[p] = TotalOf(f, Group(W, g, p))
             PROVE  TotalOf(f, W) = TotalOf(h, P)
  OBVIOUS
<1>1. \A p \in P : h[p] = TotalOf(f, {w \in W : g[w] = p})
  BY DEF Group
<1> QED BY <1>1, SumGroups

\* Each of S is some o[k], once.
OneToOne(o, K, S) ==
    /\ \A j, k \in K : o[j] = o[k] => j = k
    /\ \A k \in K : o[k] \in S
    /\ \A x \in S : \E k \in K : o[k] = x

Reindexed(K, o, S, e, c) ==
    IsFiniteSet(K) /\ OneToOne(o, K, S) /\ \A k \in K : c[k] = e[o[k]] /\ e[o[k]] \in Int

\* A sum does not depend on how its members are numbered.
LEMMA SumReindex ==
  \A K, o, S, e, c : Reindexed(K, o, S, e, c)
    => TotalOf(c, K) = TotalOf(e, S) /\ IsFiniteSet(S)
<1> SUFFICES ASSUME NEW K0, NEW o, NEW S, NEW e, NEW c, IsFiniteSet(K0), OneToOne(o, K0, S),
                    \A k \in K0 : c[k] = e[o[k]] /\ e[o[k]] \in Int
             PROVE  TotalOf(c, K0) = TotalOf(e, S) /\ IsFiniteSet(S)
  BY DEF Reindexed
<1> USE DEF OneToOne
<1>0. PICK K : K = K0
  OBVIOUS
<1>1. IsFiniteSet(S)
  <2>1. IsFiniteSet(K) /\ (\A k \in K : o[k] \in S) /\ (\A x \in S : \E k \in K : o[k] = x)
    BY <1>0
  <2>2. PICK z : z = [k \in K |-> o[k]]
    OBVIOUS
  <2>3. z \in Surjection(K, S)
    BY <2>1, <2>2 DEF Surjection
  <2> QED BY <2>1, <2>3, FS_Surjection
<1>2. \A p \in S : e[p] = TotalOf(c, {k \in K0 : o[k] = p})
  <2> SUFFICES ASSUME NEW p \in S PROVE e[p] = TotalOf(c, {k \in K0 : o[k] = p})
    OBVIOUS
  <2>1. PICK k \in K0 : o[k] = p
    OBVIOUS
  <2>2. {j \in K0 : o[j] = p} = {k}
    BY <2>1
  <2>3. c[k] = e[p] /\ c[k] \in Int
    BY <2>1
  <2>4. TotalOf(c, {k}) = c[k]
    BY <2>3, SumOne
  <2> QED BY <2>2, <2>3, <2>4
<1>3. PICK A, B, U, V, G : A = K0 /\ B = S /\ U = c /\ V = e /\ G = o
  OBVIOUS
<1>4. /\ IsFiniteSet(A) /\ IsFiniteSet(B) /\ (\A n \in A : U[n] \in Int) /\ (\A n \in A : G[n] \in B)
      /\ \A n \in B : V[n] = TotalOf(U, Group(A, G, n))
  BY <1>1, <1>2, <1>3 DEF Group
<1>5. TotalOf(U, A) = TotalOf(V, B)
  BY <1>4, SumByGroups
<1> QED BY <1>1, <1>3, <1>5

-----------------------------------------------------------------------------
(* The log: what every behaviour keeps of it, and its rows by date.        *)

BookedRow == [party : Holders \cup {None}, date : StatementDates, debit : Nat, credit : Nat, agent : Nat, stamp : Nat,
            cashIn : Nat, cashOut : Nat, cashIn2 : Nat, box : Boxes \cup {None},
            box2 : Boxes \cup {None}, doc : Nat \cup {None}]

\* The legs of a document are together, of one date, and a row is of one side.
OfOne(i, k) ==
    book[i].doc = book[k].doc /\ book[i].doc # None /\ book[i].credit = 0 /\ book[k].credit = 0
DocsWhole == \A i, j, k \in DOMAIN book : i < j /\ j < k /\ OfOne(i, k) => book[j].doc = book[i].doc
DocsDated == \A i, k \in DOMAIN book : OfOne(i, k) => book[i].date = book[k].date
OneSided == \A i \in DOMAIN book : book[i].debit = 0 \/ book[i].credit = 0

StatementIInv ==
    /\ book \in Seq(BookedRow) /\ Len(book) <= MaxRows
    /\ opened \in Openings
    /\ DocsWhole /\ DocsDated /\ OneSided

\* The log is a finite sequence of rows.
LEMMA BookIs ==
  ASSUME StatementIInv
  PROVE  /\ DOMAIN book = 1 .. Len(book) /\ Len(book) \in Nat /\ IsFiniteSet(DOMAIN book) /\ DOMAIN book \subseteq Nat
         /\ \A n \in DOMAIN book : book[n] \in BookedRow
<1>1. book \in Seq(BookedRow)
  BY DEF StatementIInv
<1>2. DOMAIN book = 1 .. Len(book) /\ Len(book) \in Nat /\ \A n \in DOMAIN book : book[n] \in BookedRow
  BY <1>1
<1>3. IsFiniteSet(1 .. Len(book))
  BY <1>2, IntervalSize
<1> QED BY <1>2, <1>3

\* The columns of a row.
LEMMA RowIs ==
  ASSUME StatementIInv, NEW n \in DOMAIN book
  PROVE  /\ book[n].date \in StatementDates /\ book[n].date \in Nat
         /\ book[n].debit \in Nat /\ book[n].credit \in Nat /\ book[n].agent \in Nat /\ book[n].stamp \in Nat
         /\ book[n].cashIn \in Nat /\ book[n].cashOut \in Nat /\ book[n].cashIn2 \in Nat
         /\ book[n].box \in Boxes \cup {None} /\ book[n].box2 \in Boxes \cup {None}
         /\ book[n].party \in Holders \cup {None} /\ book[n].doc \in Nat \cup {None}
         /\ n \in Nat /\ n >= 1 /\ n <= Len(book)
<1>1. book[n] \in BookedRow /\ n \in 1 .. Len(book) /\ Len(book) \in Nat
  BY BookIs
<1>2. LastDate \in Nat
  BY StatementAssumption
<1>3. \A d \in StatementDates : d \in Nat
  BY <1>2 DEF StatementDates
<1> QED BY <1>1, <1>3 DEF BookedRow

\* The key of the order: a later date is later, whatever the rows.
LEMMA Later ==
  ASSUME NEW L \in Nat, NEW d \in Nat, NEW e \in Nat, d < e, NEW n \in 1 .. L, NEW m \in 1 .. L
  PROVE  d * (L + 1) + n < e * (L + 1) + m
<1>1. PICK x \in Nat : e = d + (1 + x)
  <2>1. e - d - 1 \in Nat /\ e = d + (1 + (e - d - 1))
    OBVIOUS
  <2> QED BY <2>1
<1>2. (L + 1) * (d + (1 + x)) = (L + 1) * d + (L + 1) * (1 + x)
  BY Distributes
<1>3. (L + 1) * (1 + x) = (L + 1) * 1 + (L + 1) * x
  BY Distributes
<1>4. (L + 1) * x \in Nat /\ (L + 1) * 1 = L + 1 /\ (L + 1) * d \in Nat
  OBVIOUS
<1>5. e * (L + 1) = (L + 1) * d + ((L + 1) + (L + 1) * x)
  BY <1>1, <1>2, <1>3, <1>4
<1>6. d * (L + 1) = (L + 1) * d
  OBVIOUS
<1>7. PICK A, B, C, D : A = (L + 1) * d /\ B = (L + 1) * x /\ C = e * (L + 1) /\ D = d * (L + 1)
  OBVIOUS
<1>8. A \in Nat /\ B \in Nat /\ C = A + ((L + 1) + B) /\ D = A
  BY <1>4, <1>5, <1>6, <1>7
<1>9. D + n < C + m
  BY <1>8
<1> QED BY <1>7, <1>9

\* o has S, once each, by date and in the order of creation within a date
InDates(o, S, n) ==
    /\ n \in Nat /\ o = [k \in 1 .. n |-> o[k]] /\ \A k \in 1 .. n : o[k] \in S
    /\ \A x \in S : \E k \in 1 .. n : o[k] = x
    /\ \A j, k \in 1 .. n :
        j < k => /\ o[j] # o[k]
                 /\ \/ book[o[j]].date < book[o[k]].date
                    \/ book[o[j]].date = book[o[k]].date /\ o[j] < o[k]

\* ByDate has every row once, by date and in the order of creation.
LEMMA ByDateIs ==
  ASSUME StatementIInv, NEW S \in SUBSET (DOMAIN book)
  PROVE  InDates(ByDate(S), S, Cardinality(S)) /\ IsFiniteSet(S)
<1>1. PICK L : L = Len(book)
  OBVIOUS
<1>2. PICK at : at = [n \in S |-> book[n].date * (L + 1) + n]
  OBVIOUS
<1>3. ByDate(S) = InOrder(at) /\ DOMAIN at = S /\ IsFiniteSet(S) /\ L \in Nat
  BY <1>1, <1>2, BookIs, FS_Subset DEF ByDate
<1>4. \A x \in S : x \in 1 .. L /\ book[x].date \in Nat
  BY <1>1, BookIs, RowIs
<1>5. \A x \in S : at[x] \in Nat
  <2> SUFFICES ASSUME NEW x \in S PROVE at[x] \in Nat
    OBVIOUS
  <2>1. PICK d \in Nat : d = book[x].date
    BY <1>4
  <2>2. d * (L + 1) \in Nat /\ x \in Nat
    BY <1>3, <1>4
  <2> QED BY <1>2, <2>1, <2>2
<1>6. ASSUME NEW x \in S, NEW y \in S, book[x].date < book[y].date PROVE at[x] < at[y]
  <2>1. book[x].date * (L + 1) + x < book[y].date * (L + 1) + y
    BY <1>3, <1>4, <1>6, Later
  <2> QED BY <1>2, <2>1
<1>7. ASSUME NEW x \in S, NEW y \in S, book[x].date = book[y].date PROVE at[x] < at[y] <=> x < y
  <2>1. PICK a : a = book[x].date * (L + 1)
    OBVIOUS
  <2>2. a \in Nat /\ at[x] = a + x /\ at[y] = a + y /\ x \in Nat /\ y \in Nat
    BY <1>2, <1>3, <1>4, <1>7, <2>1
  <2> QED BY <2>2
<1>8. ASSUME NEW x \in S, NEW y \in S, at[x] < at[y]
      PROVE  book[x].date < book[y].date \/ (book[x].date = book[y].date /\ x < y)
  <2>1. ~(book[y].date < book[x].date)
    BY <1>5, <1>6, <1>8
  <2>2. book[x].date \in Nat /\ book[y].date \in Nat
    BY <1>4
  <2>3. book[x].date < book[y].date \/ book[x].date = book[y].date
    BY <2>1, <2>2
  <2> QED BY <1>7, <1>8, <2>3
<1>9. \A x, y \in S : at[x] = at[y] => x = y
  <2> SUFFICES ASSUME NEW x \in S, NEW y \in S, at[x] = at[y] PROVE x = y
    OBVIOUS
  <2>1. at[x] \in Nat /\ book[x].date \in Nat /\ book[y].date \in Nat /\ x \in Nat /\ y \in Nat
    BY <1>4, <1>5
  <2>2. ~(at[x] < at[y]) /\ ~(at[y] < at[x])
    BY <2>1
  <2>3. ~(book[x].date < book[y].date) /\ ~(book[y].date < book[x].date)
    BY <1>6, <2>2
  <2>4. book[x].date = book[y].date
    BY <2>1, <2>3
  <2>5. ~(x < y) /\ ~(y < x)
    BY <1>7, <2>2, <2>4
  <2> QED BY <2>1, <2>5
<1>10. PICK o, n : o = InOrder(at) /\ n = Cardinality(S)
  OBVIOUS
<1>11. Sorted(o, S, n, at)
  BY <1>3, <1>5, <1>9, <1>10, OrderIs
<1>12. ASSUME NEW j \in 1 .. n, NEW k \in 1 .. n, j < k
       PROVE  /\ o[j] # o[k]
              /\ \/ book[o[j]].date < book[o[k]].date
                 \/ book[o[j]].date = book[o[k]].date /\ o[j] < o[k]
  <2>1. o[j] \in S /\ o[k] \in S /\ at[o[j]] < at[o[k]]
    BY <1>11, <1>12 DEF Sorted
  <2>2. o[j] # o[k]
    BY <1>5, <2>1
  <2> QED BY <1>8, <2>1, <2>2
<1>13. InDates(o, S, n)
  BY <1>11, <1>12 DEF Sorted, InDates
<1> QED BY <1>3, <1>10, <1>13

\* No row comes twice.
LEMMA DatesApart ==
  ASSUME NEW o, NEW S, NEW n, InDates(o, S, n)
  PROVE  \A j, k \in 1 .. n : o[j] = o[k] => j = k
<1> SUFFICES ASSUME NEW j \in 1 .. n, NEW k \in 1 .. n, o[j] = o[k], j # k PROVE FALSE
  OBVIOUS
<1>1. j < k \/ k < j
  BY DEF InDates
<1> QED BY <1>1 DEF InDates

\* What is before a date comes first.
LEMMA CutAt ==
  ASSUME StatementIInv, NEW S \in SUBSET (DOMAIN book), NEW o, NEW n, InDates(o, S, n), NEW d \in Nat
  PROVE  \E m \in 0 .. n : \A k \in 1 .. n : book[o[k]].date < d <=> k <= m
<1>1. n \in Nat /\ \A k \in 1 .. n : o[k] \in DOMAIN book /\ book[o[k]].date \in Nat
  BY RowIs DEF InDates
<1> DEFINE T == {k \in 1 .. n : ~(book[o[k]].date < d)} \cup {n + 1}
<1>2. PICK x \in T : \A y \in T : x <= y
  <2>1. T \subseteq Nat /\ T # {}
    BY <1>1
  <2> QED BY <2>1, LeastOf
<1>3. x \in 1 .. n + 1
  BY <1>1
<1>4. x - 1 \in 0 .. n
  BY <1>1, <1>3
<1>5. ASSUME NEW k \in 1 .. n PROVE book[o[k]].date < d <=> k <= x - 1
  <2>1. ASSUME k <= x - 1 PROVE book[o[k]].date < d
    <3>1. ~(x <= k)
      BY <1>3, <2>1
    <3>2. k \notin T
      BY <1>2, <3>1
    <3> QED BY <3>2
  <2>2. ASSUME ~(k <= x - 1) PROVE ~(book[o[k]].date < d)
    <3>1. x <= k /\ x \in 1 .. n /\ x # n + 1
      BY <1>1, <1>3, <2>2
    <3>2. ~(book[o[x]].date < d)
      BY <1>2, <3>1
    <3>3. x = k \/ x < k
      BY <1>1, <3>1
    <3>4. x < k => book[o[x]].date <= book[o[k]].date
      <4>1. x < k => book[o[x]].date < book[o[k]].date \/ book[o[x]].date = book[o[k]].date
        BY <3>1 DEF InDates
      <4> QED BY <1>1, <3>1, <4>1
    <3>5. book[o[x]].date \in Nat /\ book[o[k]].date \in Nat
      BY <1>1, <3>1
    <3> QED BY <3>2, <3>3, <3>4, <3>5
  <2> QED BY <2>1, <2>2
<1> QED BY <1>4, <1>5

-----------------------------------------------------------------------------
(* Balances of an account, and its statement between two dates.            *)

-----------------------------------------------------------------------------
(* The statement.                                                          *)

NetOfRow == [n \in DOMAIN book |-> Net(n)]

\* What a row adds is a number.
LEMMA NetIs ==
  ASSUME StatementIInv
  PROVE  \A n \in DOMAIN book : NetOfRow[n] = Net(n) /\ Net(n) \in Int /\ Net(n) = book[n].debit - book[n].credit
<1> SUFFICES ASSUME NEW n \in DOMAIN book
             PROVE  NetOfRow[n] = Net(n) /\ Net(n) \in Int /\ Net(n) = book[n].debit - book[n].credit
  OBVIOUS
<1>1. book[n].debit \in Nat /\ book[n].credit \in Nat
  BY RowIs
<1> QED BY <1>1 DEF NetOfRow, Net

\* What rows add is the sum of what each of them adds.
LEMMA NetOfIs ==
  ASSUME StatementIInv, NEW S \in SUBSET (DOMAIN book)
  PROVE  NetOf(S) = TotalOf(NetOfRow, S) /\ NetOf(S) \in Int /\ IsFiniteSet(S)
<1>1. IsFiniteSet(S)
  BY BookIs, FS_Subset
<1>2. PICK e, c : e = NetOfRow /\ c = [n \in S |-> Net(n)]
  OBVIOUS
<1>3. c = [n \in S |-> e[n]] /\ \A n \in S : e[n] \in Int
  BY <1>2, NetIs
<1>4. SumFunction(c) = TotalOf(e, S)
  BY <1>1, <1>3, SumOfFunction
<1>5. TotalOf(e, S) \in Int
  BY <1>1, <1>3, SumInt
<1> QED BY <1>1, <1>2, <1>4, <1>5 DEF NetOf

\* What parties were opened with is a number.
LEMMA OpenedByIs ==
  ASSUME StatementIInv, NEW ps \in SUBSET Holders
  PROVE  OpenedBy(ps) \in Int
<1>1. opened \in [Holders -> Int] /\ IsFiniteSet(ps)
  BY StatementAssumption, FS_Subset DEF StatementIInv
<1>2. PICK e, c : e = opened /\ c = [p \in ps |-> opened[p]]
  OBVIOUS
<1>3. c = [p \in ps |-> e[p]] /\ \A p \in ps : e[p] \in Int
  BY <1>1, <1>2
<1>4. SumFunction(c) = TotalOf(e, ps)
  BY <1>1, <1>3, SumOfFunction
<1>5. TotalOf(e, ps) \in Int
  BY <1>1, <1>3, SumInt
<1> QED BY <1>2, <1>4, <1>5 DEF OpenedBy

\* The balance after k rows is what the account was opened with and what those rows add.
FirstOf(o, k) == {o[j] : j \in 1 .. k}
RunOver(o, base) == Running(base, [k \in DOMAIN o |-> Net(o[k])])
Balances(run, o, n, base) ==
    /\ \A k \in 0 .. n : run[k] \in Int /\ run[k] = base + NetOf(FirstOf(o, k))
    /\ \A k \in 1 .. n : run[k] = run[k - 1] + Net(o[k])

\* The balance after k rows: what was opened and the sum of the first k.
LEMMA RunIs ==
  ASSUME StatementIInv, NEW S \in SUBSET (DOMAIN book), NEW o, NEW n, InDates(o, S, n), NEW base \in Int
  PROVE  Balances(RunOver(o, base), o, n, base)
<1>1. n \in Nat /\ DOMAIN o = 1 .. n /\ \A k \in 1 .. n : o[k] \in DOMAIN book
  BY DEF InDates
<1>2. PICK am : am = [k \in 1 .. n |-> Net(o[k])]
  OBVIOUS
<1>3. Len(am) = n /\ \A k \in 1 .. n : am[k] \in Int /\ am[k] = Net(o[k])
  BY <1>1, <1>2, NetIs
<1>4. PICK run : run = Running(base, am)
  OBVIOUS
<1>5. /\ \A k \in 0 .. n : run[k] = base + TotalOf(am, 1 .. k) /\ run[k] \in Int
      /\ \A k \in 1 .. n : run[k] = run[k - 1] + am[k]
  <2>1. base \in Int /\ n \in Nat /\ Len(am) = n /\ \A k \in 1 .. n : am[k] \in Int
    BY <1>1, <1>3
  <2>2. RunsTo(Running(base, am), base, am, n)
    BY <2>1, RunningIs
  <2> QED BY <1>4, <2>2 DEF RunsTo
<1>6. ASSUME NEW k \in 0 .. n PROVE TotalOf(am, 1 .. k) = NetOf({o[j] : j \in 1 .. k})
  <2>1. PICK K, T, e : K = 1 .. k /\ T = {o[j] : j \in 1 .. k} /\ e = NetOfRow
    OBVIOUS
  <2>2. IsFiniteSet(K) /\ \A j \in K : j \in 1 .. n
    BY <1>1, <2>1, IntervalSize
  <2>3. \A j, i \in K : o[j] = o[i] => j = i
    BY <2>2, DatesApart
  <2>4. \A j \in K : am[j] = e[o[j]] /\ e[o[j]] \in Int
    BY <1>1, <1>3, <2>1, <2>2, NetIs
  <2>5. T = {o[j] : j \in K}
    BY <2>1
  <2>6. TotalOf(am, K) = TotalOf(e, T)
    <3>1. OneToOne(o, K, T)
      BY <2>3, <2>5 DEF OneToOne
    <3> QED BY <2>2, <2>4, <3>1, SumReindex DEF Reindexed
  <2>7. T \in SUBSET (DOMAIN book)
    BY <1>1, <2>2, <2>5
  <2>8. NetOf(T) = TotalOf(e, T)
    BY <2>1, <2>7, NetOfIs
  <2> QED BY <2>1, <2>6, <2>8
<1>7. RunOver(o, base) = run
  BY <1>1, <1>2, <1>4 DEF RunOver
<1> QED BY <1>3, <1>5, <1>6, <1>7 DEF Balances, FirstOf

\* Between two dates there are the rows from m + 1 to q.
Cut(o, n, from, to, m, q) ==
    /\ m \in 0 .. n /\ q \in 0 .. n /\ m <= q
    /\ \A k \in 1 .. n : book[o[k]].date < from <=> k <= m
    /\ \A k \in 1 .. n : (from <= book[o[k]].date /\ book[o[k]].date <= to) <=> (m + 1 <= k /\ k <= q)
    /\ from <= to => \A k \in 1 .. n : book[o[k]].date <= to <=> k <= q

\* Two dates cut the rows in three.
LEMMA CutBetween ==
  ASSUME StatementIInv, NEW S \in SUBSET (DOMAIN book), NEW o, NEW n, InDates(o, S, n), NEW from \in Nat, NEW to \in Nat
  PROVE  \E m, q : Cut(o, n, from, to, m, q)
<1> USE DEF Cut
<1>1. n \in Nat /\ \A k \in 1 .. n : book[o[k]].date \in Nat
  BY RowIs DEF InDates
<1>2. PICK m \in 0 .. n : \A k \in 1 .. n : book[o[k]].date < from <=> k <= m
  BY CutAt
<1>3. PICK x \in 0 .. n : \A k \in 1 .. n : book[o[k]].date < to + 1 <=> k <= x
  <2>1. to + 1 \in Nat
    OBVIOUS
  <2> QED BY <2>1, CutAt
<1>4. \A k \in 1 .. n : book[o[k]].date <= to <=> k <= x
  BY <1>1, <1>3
<1>5. \A k \in 1 .. n : from <= book[o[k]].date <=> m + 1 <= k
  BY <1>1, <1>2
<1>6. CASE x < m
  <2>1. ASSUME from <= to PROVE FALSE
    <3>1. m \in 1 .. n /\ ~(m <= x) /\ m <= m
      BY <1>1, <1>6
    <3>2. book[o[m]].date < from /\ ~(book[o[m]].date <= to) /\ book[o[m]].date \in Nat
      BY <1>1, <1>2, <1>4, <3>1
    <3> QED BY <2>1, <3>2
  <2>2. \A k \in 1 .. n : (from <= book[o[k]].date /\ book[o[k]].date <= to) <=> (m + 1 <= k /\ k <= m)
    BY <1>1, <1>4, <1>5, <1>6
  <2>3. Cut(o, n, from, to, m, m)
    BY <1>1, <1>2, <2>1, <2>2
  <2> QED BY <2>3
<1>7. CASE m <= x
  <2>1. Cut(o, n, from, to, m, x)
    BY <1>1, <1>2, <1>4, <1>5, <1>7
  <2> QED BY <2>1
<1>8. x < m \/ m <= x
  BY <1>1
<1> QED BY <1>6, <1>7, <1>8

\* The greatest of a set is its greatest.
LEMMA MaxIs ==
  ASSUME NEW m \in Nat, NEW T, m \in T, \A t \in T : t \in Nat /\ t <= m
  PROVE  Max(T) = m
<1>1. \E x \in T : \A y \in T : x >= y
  BY DEF Max
<1>2. PICK x : x = Max(T)
  OBVIOUS
<1>3. x \in T /\ \A y \in T : x >= y
  BY <1>1, <1>2 DEF Max
<1>4. x \in Nat /\ x <= m /\ x >= m
  BY <1>3
<1> QED BY <1>2, <1>4

LineOf(row, balance) ==
    [doc |-> book[row].doc, debit |-> book[row].debit, credit |-> book[row].credit, balance |-> balance]

StatementHas(s, o, run, m, q) ==
    /\ s.opening = run[m]
    /\ s.lines = [i \in 1 .. q - m |-> LineOf(o[m + i], run[m + i])]
    /\ s.closing = run[q]

\* A statement is a cut of the rows, with the balances before it, in it and after it.
LEMMA StatementIs ==
  ASSUME StatementIInv, NEW ps \in SUBSET Holders, NEW from \in Nat, NEW to \in Nat,
         NEW m, NEW q, Cut(ByDate(RowsOf(ps)), Cardinality(RowsOf(ps)), from, to, m, q)
  PROVE  StatementHas(Statement(ps, from, to), ByDate(RowsOf(ps)), RunOver(ByDate(RowsOf(ps)), OpenedBy(ps)), m, q)
<1>0. PICK o, n, run : o = ByDate(RowsOf(ps)) /\ n = Cardinality(RowsOf(ps)) /\ run = RunOver(o, OpenedBy(ps))
  OBVIOUS
<1>01. /\ m \in 0 .. n /\ q \in 0 .. n /\ m <= q
       /\ \A k \in 1 .. n : book[o[k]].date < from <=> k <= m
       /\ \A k \in 1 .. n : (from <= book[o[k]].date /\ book[o[k]].date <= to) <=> (m + 1 <= k /\ k <= q)
  BY <1>0 DEF Cut
<1>1. RowsOf(ps) \in SUBSET (DOMAIN book)
  BY DEF RowsOf
<1>2. InDates(o, RowsOf(ps), n) /\ n \in Nat /\ DOMAIN o = 1 .. n
  BY <1>0, <1>1, ByDateIs DEF InDates
<1>3. PICK all : all = [k \in DOMAIN o |-> LineOf(o[k], run[k])]
  OBVIOUS
<1>4. {k \in DOMAIN o : from <= book[o[k]].date /\ book[o[k]].date <= to} = m + 1 .. q
  BY <1>01, <1>2
<1>5. PICK lines : lines = RowsAt(all, m + 1 .. q)
  OBVIOUS
<1>6. lines = [i \in 1 .. q - m |-> LineOf(o[m + i], run[m + i])]
  <2>1. m + 1 \in Nat /\ q \in Int /\ m + 1 <= q + 1
    BY <1>01, <1>2
  <2>2. lines = [i \in 1 .. q - (m + 1) + 1 |-> all[(m + 1) + i - 1]]
    <3>1. PICK a : a = m + 1
      OBVIOUS
    <3>2. RowsAt(all, a .. q) = [k \in 1 .. q - a + 1 |-> all[a + k - 1]]
      BY <2>1, <3>1, RowsAtInterval
    <3> QED BY <1>5, <3>1, <3>2
  <2>3. q - (m + 1) + 1 = q - m
    BY <1>01, <1>2
  <2>4. ASSUME NEW i \in 1 .. q - m PROVE all[(m + 1) + i - 1] = LineOf(o[m + i], run[m + i])
    <3>1. (m + 1) + i - 1 = m + i /\ m + i \in 1 .. n
      BY <1>01, <1>2
    <3> QED BY <1>2, <1>3, <3>1
  <2> QED BY <2>2, <2>3, <2>4
<1>7. Max({0} \cup {k \in DOMAIN o : book[o[k]].date < from}) = m
  <2>1. PICK T : T = {0} \cup {k \in DOMAIN o : book[o[k]].date < from}
    OBVIOUS
  <2>2. m \in T /\ m \in Nat /\ \A t \in T : t \in Nat /\ t <= m
    BY <1>01, <1>2, <2>1
  <2>3. Max(T) = m
    BY <2>2, MaxIs
  <2> QED BY <2>1, <2>3
<1>8. Statement(ps, from, to) =
        [opening |-> run[m], lines |-> lines, closing |-> IF lines = <<>> THEN run[m] ELSE lines[Len(lines)].balance]
  BY <1>0, <1>3, <1>4, <1>5, <1>7 DEF Statement, LineOf, RunOver
<1>9. (IF lines = <<>> THEN run[m] ELSE lines[Len(lines)].balance) = run[q]
  <2>1. Len(lines) = q - m /\ q - m \in Nat
    BY <1>01, <1>2, <1>6
  <2>2. CASE q = m
    BY <1>01, <1>6, <2>1, <2>2
  <2>3. CASE q # m
    <3>1. q - m \in 1 .. q - m /\ m + (q - m) = q
      BY <1>01, <1>2, <2>1, <2>3
    <3>2. lines[q - m].balance = run[q]
      BY <1>6, <3>1 DEF LineOf
    <3>3. lines # <<>>
      BY <2>1, <2>3, <1>01, <1>2
    <3> QED BY <2>1, <3>2, <3>3
  <2> QED BY <2>2, <2>3
<1>10. PICK s, c : s = Statement(ps, from, to) /\ c = IF lines = <<>> THEN run[m] ELSE lines[Len(lines)].balance
  OBVIOUS
<1>11. s = [opening |-> run[m], lines |-> lines, closing |-> c]
  BY <1>8, <1>10
<1>12. s.opening = run[m] /\ s.lines = lines /\ s.closing = c
  BY <1>11
<1> QED BY <1>0, <1>6, <1>9, <1>10, <1>12 DEF StatementHas

AreFirst(U, S, o, n, q) == q \in 0 .. n /\ U \subseteq S /\ \A k \in 1 .. n : o[k] \in U <=> k <= q

\* The first rows are those before a date.
LEMMA RowsBefore ==
  ASSUME NEW S, NEW o, NEW n, InDates(o, S, n), NEW q, NEW U, AreFirst(U, S, o, n, q)
  PROVE  FirstOf(o, q) = U
<1> USE DEF AreFirst, FirstOf
<1>1. n \in Nat /\ \A k \in 1 .. q : k \in 1 .. n
  BY DEF InDates
<1>2. ASSUME NEW x \in U PROVE x \in {o[j] : j \in 1 .. q}
  <2>1. PICK k \in 1 .. n : o[k] = x
    BY <1>2 DEF InDates
  <2>2. k \in 1 .. q
    BY <1>1, <2>1
  <2> QED BY <2>1, <2>2
<1>3. ASSUME NEW j \in 1 .. q PROVE o[j] \in U
  BY <1>1
<1> QED BY <1>2, <1>3

-----------------------------------------------------------------------------
(* The client's statement: the legs of a document in one line.             *)

-----------------------------------------------------------------------------
(* The statement of the client.                                            *)

\* What is added up to x is what is added up to p and then up to x.
AddsUp(b, db, cr, N) ==
    /\ N \in Nat /\ \A k \in 0 .. N : b[k] \in Int
    /\ \A k \in 1 .. N : db[k] \in Int /\ cr[k] \in Int /\ b[k] = b[k - 1] + db[k] - cr[k]

\* Balances that add up line by line add up over any lines.
LEMMA AddedFrom ==
  \A b, db, cr, N : AddsUp(b, db, cr, N) => \A p \in 0 .. N : \A x \in p .. N :
     b[x] = b[p] + TotalOf(db, p + 1 .. x) - TotalOf(cr, p + 1 .. x)
<1> SUFFICES ASSUME NEW b, NEW db, NEW cr, NEW N, AddsUp(b, db, cr, N), NEW p \in 0 .. N, NEW x0 \in p .. N
             PROVE  b[x0] = b[p] + TotalOf(db, p + 1 .. x0) - TotalOf(cr, p + 1 .. x0)
  OBVIOUS
<1> USE DEF AddsUp
<1> DEFINE Adds(x) == b[x] = b[p] + TotalOf(db, p + 1 .. x) - TotalOf(cr, p + 1 .. x)
           Bad == {x \in p .. N : ~Adds(x)}
<1>1. SUFFICES ASSUME Bad # {} PROVE FALSE
  OBVIOUS
<1>2. PICK x \in Bad : \A y \in Bad : x <= y
  <2>1. Bad \subseteq Nat
    OBVIOUS
  <2> QED BY <1>1, <2>1, LeastOf
<1>3. x \in p .. N /\ ~Adds(x)
  BY <1>2
<1>4. x # p
  <2>1. ASSUME x = p PROVE Adds(x)
    <3>1. p + 1 .. x = {} /\ TotalOf(db, {}) = 0 /\ TotalOf(cr, {}) = 0 /\ b[x] \in Int
      BY <2>1, SumEmpty
    <3> QED BY <2>1, <3>1
  <2> QED BY <1>3, <2>1
<1>5. x - 1 \in p .. N /\ Adds(x - 1)
  <2>1. x - 1 \in p .. N /\ ~(x <= x - 1)
    BY <1>3, <1>4
  <2> QED BY <1>2, <2>1
<1>6. PICK T, U : T = p + 1 .. x /\ U = p + 1 .. x - 1
  OBVIOUS
<1>7. T = U \cup {x} /\ x \notin U /\ IsFiniteSet(T) /\ \A k \in T : k \in 1 .. N
  <2>1. x \in Int /\ p + 1 \in Int
    BY <1>3
  <2>2. IsFiniteSet(p + 1 .. x)
    BY <2>1, IntervalSize
  <2> QED BY <1>3, <1>4, <1>6, <2>2
<1>8. TotalOf(db, T) = db[x] + TotalOf(db, U) /\ TotalOf(cr, T) = cr[x] + TotalOf(cr, U)
      /\ TotalOf(db, U) \in Int /\ TotalOf(cr, U) \in Int
  <2>1. (\A k \in T : db[k] \in Int) /\ (\A k \in T : cr[k] \in Int)
    BY <1>7
  <2> QED BY <1>7, <2>1, SumOneMore
<1>9. b[x] = b[x - 1] + db[x] - cr[x] /\ db[x] \in Int /\ cr[x] \in Int /\ b[x - 1] \in Int /\ b[p] \in Int
  <2>1. x \in 1 .. N /\ x - 1 \in 0 .. N /\ p \in 0 .. N
    BY <1>3, <1>4
  <2> QED BY <2>1
<1>10. b[x - 1] = b[p] + TotalOf(db, U) - TotalOf(cr, U)
  BY <1>5, <1>6
<1>11. b[x] = b[p] + TotalOf(db, T) - TotalOf(cr, T)
  BY <1>8, <1>9, <1>10
<1> QED BY <1>3, <1>6, <1>11

LegsWith(lines, i) ==
    {j \in DOMAIN lines : j = i \/ (KeyOf(lines[i]) # None /\ KeyOf(lines[j]) = KeyOf(lines[i]))}
EndsOf(lines) == {i \in DOMAIN lines : \A j \in LegsWith(lines, i) : j <= i}
Together(lines) ==
    \A i, j, k \in DOMAIN lines :
        i < j /\ j < k /\ KeyOf(lines[i]) # None /\ KeyOf(lines[k]) = KeyOf(lines[i]) => KeyOf(lines[j]) = KeyOf(lines[i])

\* Every line has a last leg, and it is not before the line.
LEMMA LastLeg ==
  ASSUME NEW N \in Nat, NEW lines, DOMAIN lines = 1 .. N, NEW y \in 1 .. N
  PROVE  \E z \in EndsOf(lines) : z \in LegsWith(lines, y) /\ y <= z
<1> DEFINE T == {N - j : j \in LegsWith(lines, y)}
<1>1. PICK t \in T : \A u \in T : t <= u
  <2>1. T \subseteq Nat
    BY DEF LegsWith
  <2>2. y \in LegsWith(lines, y)
    BY DEF LegsWith
  <2> QED BY <2>1, <2>2, LeastOf
<1>2. PICK z \in LegsWith(lines, y) : t = N - z
  BY <1>1
<1>3. ASSUME NEW j \in LegsWith(lines, y) PROVE j <= z
  <2>1. N - j \in T /\ j \in 1 .. N /\ z \in 1 .. N
    BY <1>2 DEF LegsWith
  <2>2. N - z <= N - j
    BY <1>1, <1>2, <2>1
  <2> QED BY <2>1, <2>2
<1>4. LegsWith(lines, z) = LegsWith(lines, y) /\ z \in 1 .. N /\ y \in LegsWith(lines, y)
  BY <1>2 DEF LegsWith
<1>5. z \in EndsOf(lines)
  BY <1>3, <1>4 DEF EndsOf
<1> QED BY <1>2, <1>3, <1>4, <1>5

\* Between two ends there are the legs of one document.
LEMMA LegsAre ==
  ASSUME NEW N \in Nat, NEW lines, DOMAIN lines = 1 .. N, Together(lines),
         NEW x \in EndsOf(lines), NEW p \in 0 .. N, p < x, p = 0 \/ p \in EndsOf(lines),
         \A y \in 1 .. N : p < y /\ y < x => y \notin EndsOf(lines)
  PROVE  LegsWith(lines, x) = p + 1 .. x
<1>1. x \in 1 .. N /\ \A j \in LegsWith(lines, x) : j \in 1 .. N /\ j <= x
  BY DEF EndsOf, LegsWith
<1>2. ASSUME NEW y \in p + 1 .. x PROVE y \in LegsWith(lines, x)
  <2>1. CASE y = x
    BY <1>1, <2>1 DEF LegsWith
  <2>2. CASE y # x
    <3>1. y \in 1 .. N /\ p < y /\ y < x
      BY <1>1, <2>2
    <3>2. PICK z \in EndsOf(lines) : z \in LegsWith(lines, y) /\ y <= z
      BY <3>1, LastLeg
    <3>3. z \in 1 .. N /\ y # z /\ ~(p < z /\ z < x)
      BY <3>1, <3>2 DEF EndsOf
    <3>4. y < z /\ x <= z
      BY <1>1, <3>1, <3>2, <3>3
    <3>5. KeyOf(lines[y]) # None /\ KeyOf(lines[z]) = KeyOf(lines[y])
      BY <3>2, <3>3 DEF LegsWith
    <3>6. CASE z = x
      BY <3>1, <3>5, <3>6 DEF LegsWith
    <3>7. CASE z # x
      <4>1. x < z
        BY <1>1, <3>3, <3>4, <3>7
      <4>2. KeyOf(lines[x]) = KeyOf(lines[y])
        BY <1>1, <3>1, <3>3, <3>5, <4>1 DEF Together
      <4>3. z \in LegsWith(lines, x)
        BY <3>3, <3>5, <4>2 DEF LegsWith
      <4> QED BY <1>1, <3>3, <4>1, <4>3
    <3> QED BY <3>6, <3>7
  <2> QED BY <2>1, <2>2
<1>3. ASSUME NEW j \in LegsWith(lines, x) PROVE j \in p + 1 .. x
  <2>1. ASSUME j <= p PROVE FALSE
    <3>1. j \in 1 .. N /\ j # x /\ p \in 1 .. N /\ p \in EndsOf(lines)
      BY <1>1, <2>1
    <3>2. KeyOf(lines[x]) # None /\ KeyOf(lines[j]) = KeyOf(lines[x])
      BY <3>1 DEF LegsWith
    <3>3. KeyOf(lines[p]) = KeyOf(lines[x])
      <4>1. CASE j = p
        BY <3>2, <4>1
      <4>2. CASE j # p
        <5>1. j < p /\ p < x
          BY <2>1, <3>1, <4>2
        <5> QED BY <1>1, <3>1, <3>2, <5>1 DEF Together
      <4> QED BY <4>1, <4>2
    <3>4. x \in LegsWith(lines, p)
      BY <1>1, <3>2, <3>3 DEF LegsWith
    <3> QED BY <1>1, <3>1, <3>4 DEF EndsOf
  <2> QED BY <1>1, <2>1
<1> QED BY <1>2, <1>3

MergedLines(lines) ==
    [i \in DOMAIN lines |->
        [lines[i] EXCEPT !.debit = SumFunction([j \in LegsWith(lines, i) |-> lines[j].debit]),
                         !.credit = SumFunction([j \in LegsWith(lines, i) |-> lines[j].credit])]]

Line == [doc : Nat \cup {None}, debit : Nat, credit : Nat, balance : Int]

\* e has the ends, in their order
ClientOrder(lines, N, e, M, mg) ==
    /\ M \in Nat /\ ClientLines(lines) = [i \in 1 .. M |-> mg[e[M - i + 1]]]
    /\ \A k \in 1 .. M : e[k] \in EndsOf(lines)
    /\ \A x \in EndsOf(lines) : \E k \in 1 .. M : e[k] = x
    /\ \A j, k \in 1 .. M : j < k => e[j] < e[k]
    /\ \A i \in 1 .. N : /\ mg[i].balance = lines[i].balance
                         /\ mg[i].debit = SumFunction([j \in LegsWith(lines, i) |-> lines[j].debit])
                         /\ mg[i].credit = SumFunction([j \in LegsWith(lines, i) |-> lines[j].credit])

\* The lines of the client are the last legs, the newest first.
LEMMA ClientIs ==
  ASSUME NEW N \in Nat, NEW lines, lines \in [1 .. N -> Line]
  PROVE  \E e, M : ClientOrder(lines, N, e, M, MergedLines(lines))
<1>0. PICK e, M : e = InOrder(ToItself(EndsOf(lines))) /\ M = Cardinality(EndsOf(lines))
  OBVIOUS
<1>1. EndsOf(lines) \subseteq 1 .. N /\ EndsOf(lines) \subseteq Nat /\ DOMAIN lines = 1 .. N
  BY DEF EndsOf
<1>2. IsFiniteSet(EndsOf(lines))
  BY <1>1, IntervalSize, FS_Subset
<1>3. /\ M \in Nat /\ e = [k \in 1 .. M |-> e[k]]
      /\ \A k \in 1 .. M : e[k] \in EndsOf(lines)
      /\ \A x \in EndsOf(lines) : \E k \in 1 .. M : e[k] = x
      /\ \A j, k \in 1 .. M : j < k => e[j] < e[k]
  BY <1>0, <1>1, <1>2, NumbersInOrder
<1>4. PICK mg : mg = MergedLines(lines)
  OBVIOUS
<1>5. PICK rows : rows = [k \in 1 .. M |-> mg[e[k]]]
  OBVIOUS
<1>6. RowsAt(mg, EndsOf(lines)) = rows
  <2>1. DOMAIN e = 1 .. M
    BY <1>3
  <2> QED BY <1>0, <1>5, <2>1 DEF RowsAt, ToItself
<1>7. Reverse(rows) = [i \in 1 .. M |-> mg[e[M - i + 1]]]
  <2>1. Len(rows) = M
    BY <1>3, <1>5
  <2>2. Reverse(rows) = [i \in 1 .. M |-> rows[(M - i) + 1]]
    BY <2>1 DEF Reverse
  <2>3. \A i \in 1 .. M : rows[(M - i) + 1] = mg[e[M - i + 1]]
    <3> SUFFICES ASSUME NEW i \in 1 .. M PROVE rows[(M - i) + 1] = mg[e[M - i + 1]]
      OBVIOUS
    <3>1. (M - i) + 1 \in 1 .. M /\ (M - i) + 1 = M - i + 1
      BY <1>3
    <3> QED BY <1>5, <3>1
  <2> QED BY <2>2, <2>3
<1>8. ClientLines(lines) = Reverse(RowsAt(mg, EndsOf(lines)))
  BY <1>4 DEF ClientLines, MergedLines, EndsOf, LegsWith
<1>9. ASSUME NEW i \in 1 .. N
      PROVE  /\ mg[i].balance = lines[i].balance
             /\ mg[i].debit = SumFunction([j \in LegsWith(lines, i) |-> lines[j].debit])
             /\ mg[i].credit = SumFunction([j \in LegsWith(lines, i) |-> lines[j].credit])
  <2>1. lines[i] \in Line
    OBVIOUS
  <2>2. PICK a, b : /\ a = SumFunction([j \in LegsWith(lines, i) |-> lines[j].debit])
                    /\ b = SumFunction([j \in LegsWith(lines, i) |-> lines[j].credit])
    OBVIOUS
  <2>3. mg[i] = [lines[i] EXCEPT !.debit = a, !.credit = b]
    BY <1>1, <1>4, <2>2 DEF MergedLines
  <2>4. mg[i].balance = lines[i].balance /\ mg[i].debit = a /\ mg[i].credit = b
    BY <2>1, <2>3 DEF Line
  <2> QED BY <2>2, <2>4
<1>10. ClientLines(lines) = [i \in 1 .. M |-> mg[e[M - i + 1]]]
  BY <1>6, <1>7, <1>8
<1>11. ClientOrder(lines, N, e, M, mg)
  BY <1>3, <1>9, <1>10 DEF ClientOrder
<1> QED BY <1>4, <1>11

\* The client sees the balance of the office first, and each line follows from the next.
Balanced(lines, N, opening) ==
    \A i \in 1 .. N : lines[i].balance = lines[i].debit - lines[i].credit
                                         + (IF i = 1 THEN opening ELSE lines[i - 1].balance)
ClientOf(c, lines, N, opening) ==
    /\ c # <<>> => N > 0 /\ c[1].balance = lines[N].balance
    /\ Together(lines) =>
         /\ c # <<>> => c[Len(c)].balance = opening + c[Len(c)].debit - c[Len(c)].credit
         /\ \A i \in 1 .. Len(c) - 1 : c[i].balance = c[i + 1].balance + c[i].debit - c[i].credit

\* The lines of the client add up, when the legs of no document are apart.
LEMMA ClientAdds ==
  ASSUME NEW N \in Nat, NEW lines, lines \in [1 .. N -> Line], NEW opening \in Int, Balanced(lines, N, opening)
  PROVE  ClientOf(ClientLines(lines), lines, N, opening)
<1>0. PICK c : c = ClientLines(lines)
  OBVIOUS
<1> SUFFICES ClientOf(c, lines, N, opening)
  BY <1>0
<1> USE DEF Balanced, ClientOf
<1>1. PICK mg, ord, K : ClientOrder(lines, N, ord, K, mg)
  BY ClientIs
<1>2. /\ K \in Nat /\ c = [i \in 1 .. K |-> mg[ord[K - i + 1]]]
      /\ \A k \in 1 .. K : ord[k] \in EndsOf(lines)
      /\ \A z \in EndsOf(lines) : \E k \in 1 .. K : ord[k] = z
      /\ \A j, k \in 1 .. K : j < k => ord[j] < ord[k]
      /\ \A i \in 1 .. N : mg[i].balance = lines[i].balance
      /\ \A i \in 1 .. N : /\ mg[i].debit = SumFunction([j \in LegsWith(lines, i) |-> lines[j].debit])
                           /\ mg[i].credit = SumFunction([j \in LegsWith(lines, i) |-> lines[j].credit])
  BY <1>0, <1>1 DEF ClientOrder
<1>3. EndsOf(lines) \subseteq 1 .. N /\ DOMAIN lines = 1 .. N /\ Len(c) = K
  BY <1>2 DEF EndsOf
<1>4. ASSUME c # <<>> PROVE N > 0 /\ c[1].balance = lines[N].balance /\ K >= 1
  <2>1. K >= 1
    BY <1>2, <1>4
  <2>2. ord[K] \in 1 .. N /\ N \in 1 .. N
    <3>1. ord[K] \in EndsOf(lines)
      BY <1>2, <2>1
    <3> QED BY <1>3, <3>1
  <2>3. N \in EndsOf(lines)
    BY <1>3, <2>2 DEF EndsOf, LegsWith
  <2>4. PICK k \in 1 .. K : ord[k] = N
    BY <1>2, <2>3
  <2>5. k = K
    <3>1. ASSUME k < K PROVE FALSE
      <4>1. ord[k] < ord[K]
        BY <1>2, <2>1, <3>1
      <4> QED BY <2>2, <2>4, <4>1
    <3> QED BY <1>2, <3>1
  <2>6. c[1] = mg[ord[K]]
    <3>1. 1 \in 1 .. K /\ K - 1 + 1 = K
      BY <1>2, <2>1
    <3> QED BY <1>2, <3>1
  <2> QED BY <1>2, <2>1, <2>2, <2>4, <2>5, <2>6
<1>5. PICK bal, owed, paid : /\ bal = [k \in 0 .. N |-> IF k = 0 THEN opening ELSE lines[k].balance]
                       /\ owed = [k \in 1 .. N |-> lines[k].debit] /\ paid = [k \in 1 .. N |-> lines[k].credit]
  OBVIOUS
<1>6. \A k \in 1 .. N : lines[k].debit \in Int /\ lines[k].credit \in Int /\ lines[k].balance \in Int
  <2> SUFFICES ASSUME NEW k \in 1 .. N
               PROVE lines[k].debit \in Int /\ lines[k].credit \in Int /\ lines[k].balance \in Int
    OBVIOUS
  <2>1. lines[k] \in Line
    OBVIOUS
  <2> QED BY <2>1 DEF Line
<1>7. /\ \A k \in 0 .. N : bal[k] \in Int
      /\ \A k \in 1 .. N : owed[k] \in Int /\ paid[k] \in Int /\ bal[k] = bal[k - 1] + owed[k] - paid[k]
  <2>1. \A k \in 0 .. N : bal[k] \in Int
    BY <1>5, <1>6
  <2>2. ASSUME NEW k \in 1 .. N PROVE owed[k] \in Int /\ paid[k] \in Int /\ bal[k] = bal[k - 1] + owed[k] - paid[k]
    <3>1. k \in 0 .. N /\ k - 1 \in 0 .. N /\ k # 0 /\ (k - 1 = 0 <=> k = 1)
      OBVIOUS
    <3>2. bal[k] = lines[k].balance /\ bal[k - 1] = IF k = 1 THEN opening ELSE lines[k - 1].balance
      BY <1>5, <3>1
    <3>3. owed[k] = lines[k].debit /\ paid[k] = lines[k].credit
      BY <1>5
    <3>4. bal[k - 1] \in Int
      BY <2>1, <3>1
    <3> QED BY <1>6, <3>2, <3>3, <3>4
  <2> QED BY <2>1, <2>2
<1>70. AddsUp(bal, owed, paid, N)
  BY <1>7 DEF AddsUp
<1>8. ASSUME Together(lines), NEW last \in EndsOf(lines), NEW prev \in 0 .. N, prev < last, prev = 0 \/ prev \in EndsOf(lines),
             \A y \in 1 .. N : prev < y /\ y < last => y \notin EndsOf(lines)
      PROVE  mg[last].balance = bal[prev] + mg[last].debit - mg[last].credit
  <2>1. PICK T : T = prev + 1 .. last
    OBVIOUS
  <2>2. LegsWith(lines, last) = T
    BY <1>3, <1>8, <2>1, LegsAre
  <2>3. last \in 1 .. N /\ IsFiniteSet(T) /\ \A k \in T : k \in 1 .. N
    <3>1. last \in 1 .. N /\ last \in Int /\ prev + 1 \in Int
      BY <1>3
    <3>2. IsFiniteSet(prev + 1 .. last)
      BY <3>1, IntervalSize
    <3> QED BY <2>1, <3>1, <3>2
  <2>4. mg[last].debit = TotalOf(owed, T)
    <3>1. PICK z : z = [j \in T |-> lines[j].debit]
      OBVIOUS
    <3>2. z = [j \in T |-> owed[j]]
      BY <1>5, <2>3, <3>1
    <3>3. SumFunction(z) = TotalOf(owed, T)
      BY <2>3, <3>2, SumOfFunction
    <3> QED BY <1>2, <2>2, <2>3, <3>1, <3>3
  <2>5. mg[last].credit = TotalOf(paid, T)
    <3>1. PICK z : z = [j \in T |-> lines[j].credit]
      OBVIOUS
    <3>2. z = [j \in T |-> paid[j]]
      BY <1>5, <2>3, <3>1
    <3>3. SumFunction(z) = TotalOf(paid, T)
      BY <2>3, <3>2, SumOfFunction
    <3> QED BY <1>2, <2>2, <2>3, <3>1, <3>3
  <2>6. bal[last] = bal[prev] + TotalOf(owed, T) - TotalOf(paid, T)
    <3>1. last \in prev .. N
      BY <1>8, <2>3
    <3> QED BY <1>70, <2>1, <3>1, AddedFrom
  <2>7. bal[last] = mg[last].balance
    BY <1>2, <1>5, <2>3
  <2> QED BY <2>4, <2>5, <2>6, <2>7
<1>9. ASSUME NEW k \in 1 .. K, NEW y \in EndsOf(lines), y < ord[k]
      PROVE  \E j \in 1 .. K : ord[j] = y /\ j < k
  <2>1. PICK j \in 1 .. K : ord[j] = y
    BY <1>2
  <2>2. ASSUME k <= j PROVE FALSE
    <3>1. ord[k] <= ord[j]
      <4>1. k < j => ord[k] < ord[j]
        BY <1>2
      <4>2. ord[k] \in Int /\ ord[j] \in Int
        <5>1. ord[k] \in EndsOf(lines) /\ ord[j] \in EndsOf(lines)
          BY <1>2
        <5> QED BY <1>3, <5>1
      <4> QED BY <2>2, <4>1, <4>2
    <3>2. ord[k] \in Int /\ ord[j] \in Int
      <4>1. ord[k] \in EndsOf(lines) /\ ord[j] \in EndsOf(lines)
        BY <1>2
      <4> QED BY <1>3, <4>1
    <3> QED BY <1>9, <2>1, <3>1, <3>2
  <2> QED BY <1>2, <2>1, <2>2
<1>10. ASSUME Together(lines), c # <<>> PROVE c[Len(c)].balance = opening + c[Len(c)].debit - c[Len(c)].credit
  <2>1. c[Len(c)] = mg[ord[1]] /\ 1 \in 1 .. K
    <3>1. K \in 1 .. K /\ K - K + 1 = 1 /\ 1 \in 1 .. K
      BY <1>2, <1>4, <1>10
    <3> QED BY <1>2, <1>3, <3>1
  <2>2. PICK last : last = ord[1]
    OBVIOUS
  <2>3. last \in EndsOf(lines) /\ last \in 1 .. N
    BY <1>2, <1>3, <2>1, <2>2
  <2>4. \A y \in 1 .. N : 0 < y /\ y < last => y \notin EndsOf(lines)
    <3> SUFFICES ASSUME NEW y \in EndsOf(lines), y < last PROVE FALSE
      OBVIOUS
    <3>1. \E j \in 1 .. K : ord[j] = y /\ j < 1
      BY <1>9, <2>1, <2>2
    <3> QED BY <3>1
  <2>5. 0 \in 0 .. N /\ 0 < last /\ bal[0] = opening
    BY <1>5, <2>3
  <2>6. mg[last].balance = bal[0] + mg[last].debit - mg[last].credit
    BY <1>8, <1>10, <2>3, <2>4, <2>5
  <2> QED BY <2>1, <2>2, <2>5, <2>6
<1>11. ASSUME Together(lines), NEW i \in 1 .. Len(c) - 1
       PROVE  c[i].balance = c[i + 1].balance + c[i].debit - c[i].credit
  <2>1. PICK k : k = K - i
    OBVIOUS
  <2>2. k \in 1 .. K /\ k + 1 \in 1 .. K /\ k < k + 1 /\ i \in 1 .. K /\ i + 1 \in 1 .. K
        /\ K - i + 1 = k + 1 /\ K - (i + 1) + 1 = k
    BY <1>2, <1>3, <2>1
  <2>3. c[i] = mg[ord[k + 1]] /\ c[i + 1] = mg[ord[k]]
    BY <1>2, <2>2
  <2>4. PICK last, prev : last = ord[k + 1] /\ prev = ord[k]
    OBVIOUS
  <2>5. last \in EndsOf(lines) /\ prev \in EndsOf(lines) /\ prev < last
    BY <1>2, <2>2, <2>4
  <2>6. last \in 1 .. N /\ prev \in 1 .. N /\ prev \in 0 .. N
    BY <1>3, <2>5
  <2>7. \A y \in 1 .. N : prev < y /\ y < last => y \notin EndsOf(lines)
    <3> SUFFICES ASSUME NEW y \in EndsOf(lines), prev < y, y < last PROVE FALSE
      OBVIOUS
    <3>1. PICK j \in 1 .. K : ord[j] = y /\ j < k + 1
      BY <1>9, <2>2, <2>4
    <3>2. y \in 1 .. N
      BY <1>3
    <3>3. j = k \/ j < k
      BY <1>2, <2>2, <3>1
    <3>4. j < k => y < prev
      BY <1>2, <2>2, <2>4, <3>1
    <3> QED BY <2>4, <2>6, <3>1, <3>2, <3>3, <3>4
  <2>8. mg[last].balance = bal[prev] + mg[last].debit - mg[last].credit
    BY <1>8, <1>11, <2>5, <2>6, <2>7
  <2>9. bal[prev] = mg[prev].balance
    BY <1>2, <1>5, <2>6
  <2> QED BY <2>3, <2>4, <2>8, <2>9
<1> QED BY <1>4, <1>10, <1>11

-----------------------------------------------------------------------------
(* A statement adds up, and ends with the balance of the list.             *)

\* Dates are numbers.
LEMMA DateIs == LastDate \in Nat /\ \A d \in StatementDates \cup {0} : d \in Nat
<1>1. LastDate \in Nat
  BY StatementAssumption
<1> QED BY <1>1 DEF StatementDates

\* Of the legs of a document, what is between them in a statement is its own.
LinesOf(lines, o, run, m, q) == lines = [i \in 1 .. q - m |-> LineOf(o[m + i], run[m + i])]

\* The legs of a document that is not interrupted are together in its statement.
LEMMA StaysTogether ==
  ASSUME StatementIInv, NEW S \in SUBSET (DOMAIN book), NEW o, NEW n, InDates(o, S, n), NEW m, NEW q, 0 <= m /\ m \in Int /\ q \in Int /\ m <= q /\ q <= n,
         NEW run, NEW lines, LinesOf(lines, o, run, m, q), ~Interrupted(lines)
  PROVE  Together(lines)
<1> SUFFICES ASSUME NEW i \in DOMAIN lines, NEW j \in DOMAIN lines, NEW k \in DOMAIN lines, i < j /\ j < k,
                    KeyOf(lines[i]) # None /\ KeyOf(lines[k]) = KeyOf(lines[i])
             PROVE  KeyOf(lines[j]) = KeyOf(lines[i])
  BY DEF Together
<1> USE DEF LinesOf
<1>1. n \in Nat /\ m + i \in 1 .. n /\ m + j \in 1 .. n /\ m + k \in 1 .. n /\ m + i < m + j /\ m + j < m + k
  BY DEF InDates
<1>2. PICK a, b, c : a = o[m + i] /\ b = o[m + j] /\ c = o[m + k]
  OBVIOUS
<1>3. a \in DOMAIN book /\ b \in DOMAIN book /\ c \in DOMAIN book
  BY <1>1, <1>2 DEF InDates
<1>4. /\ book[a].date < book[b].date \/ (book[a].date = book[b].date /\ a < b)
      /\ book[b].date < book[c].date \/ (book[b].date = book[c].date /\ b < c)
  BY <1>1, <1>2 DEF InDates
<1>5. lines[i].doc = book[a].doc /\ lines[j].doc = book[b].doc /\ lines[k].doc = book[c].doc
  BY <1>2 DEF LineOf
<1>11. lines[i].credit = book[a].credit /\ lines[k].credit = book[c].credit
  BY <1>2 DEF LineOf
<1>12. book[a].credit \in Nat /\ book[c].credit \in Nat /\ None \notin Nat
  BY <1>3, RowIs, StatementAssumption
<1>6. /\ book[a].doc # None /\ book[c].doc = book[a].doc
      /\ book[a].credit = 0 /\ book[c].credit = 0
  BY <1>5, <1>11, <1>12 DEF KeyOf
<1>7. book[a].date = book[c].date
  BY <1>3, <1>6 DEF StatementIInv, DocsDated, OfOne
<1>8. book[a].date \in Nat /\ book[b].date \in Nat /\ book[c].date \in Nat
  BY <1>3, RowIs
<1>9. a < b /\ b < c
  BY <1>4, <1>7, <1>8
<1>10. book[b].doc = book[a].doc
  BY <1>3, <1>6, <1>9 DEF StatementIInv, DocsWhole, OfOne
<1> QED BY <1>5, <1>10 DEF Interrupted

\* Every statement adds up, between any two dates.
LEMMA AddsHold ==
  ASSUME StatementIInv, NEW pp \in SUBSET Holders
  PROVE  StatementAdds(pp)
<1> SUFFICES ASSUME NEW fr \in StatementDates \cup {0}, NEW tt \in StatementDates \cup {0}
             PROVE  LET s == Statement(pp, fr, tt)
                        c == ClientLines(s.lines)
                        day(n) == book[n].date
                        follows(newer, older) == newer.balance = older.balance + newer.debit - newer.credit
                    IN
                    /\ s.opening = OpenedBy(pp) + NetOf({n \in RowsOf(pp) : day(n) < fr})
                    /\ fr <= tt => s.closing = OpenedBy(pp) + NetOf({n \in RowsOf(pp) : day(n) <= tt})
                    /\ \A i \in DOMAIN s.lines :
                          s.lines[i].balance = s.lines[i].debit - s.lines[i].credit
                                               + (IF i = 1 THEN s.opening ELSE s.lines[i - 1].balance)
                    /\ c # <<>> => c[1].balance = s.closing
                    /\ ~Interrupted(s.lines) =>
                        /\ c # <<>> => follows(c[Len(c)], [balance |-> s.opening])
                        /\ \A i \in 1 .. Len(c) - 1 : follows(c[i], c[i + 1])
  BY DEF StatementAdds
<1>1. fr \in Nat /\ tt \in Nat
  BY DateIs
<1>2. PICK Z, ord, sz, bs : Z = RowsOf(pp) /\ ord = ByDate(Z) /\ sz = Cardinality(Z) /\ bs = OpenedBy(pp)
  OBVIOUS
<1>3. Z \in SUBSET (DOMAIN book) /\ bs \in Int
  BY <1>2, OpenedByIs DEF RowsOf
<1>4. InDates(ord, Z, sz) /\ sz \in Nat /\ DOMAIN ord = 1 .. sz /\ \A k \in 1 .. sz : ord[k] \in DOMAIN book /\ ord[k] \in Z
  <2>1. InDates(ord, Z, sz)
    BY <1>2, <1>3, ByDateIs
  <2> QED BY <1>3, <2>1 DEF InDates
<1>50. PICK mm, qq : Cut(ord, sz, fr, tt, mm, qq)
  BY <1>1, <1>3, <1>4, CutBetween
<1>5. /\ mm \in 0 .. sz /\ qq \in 0 .. sz
      /\ mm <= qq
      /\ \A k \in 1 .. sz : book[ord[k]].date < fr <=> k <= mm
      /\ \A k \in 1 .. sz : (fr <= book[ord[k]].date /\ book[ord[k]].date <= tt) <=> (mm + 1 <= k /\ k <= qq)
      /\ fr <= tt => \A k \in 1 .. sz : book[ord[k]].date <= tt <=> k <= qq
  BY <1>50 DEF Cut
<1>6. PICK rn : rn = RunOver(ord, bs)
  OBVIOUS
<1>7. /\ \A k \in 0 .. sz : rn[k] \in Int /\ rn[k] = bs + NetOf(FirstOf(ord, k))
      /\ \A k \in 1 .. sz : rn[k] = rn[k - 1] + Net(ord[k])
  <2>1. Balances(RunOver(ord, bs), ord, sz, bs)
    BY <1>3, <1>4, RunIs
  <2> QED BY <1>6, <2>1 DEF Balances
<1>8. PICK st : st = Statement(pp, fr, tt)
  OBVIOUS
<1>9. PICK ls : ls = [i \in 1 .. qq - mm |-> LineOf(ord[mm + i], rn[mm + i])]
  OBVIOUS
<1>10. st.opening = rn[mm] /\ st.lines = ls /\ st.closing = rn[qq]
  <2>1. StatementHas(Statement(pp, fr, tt), ord, rn, mm, qq)
    BY <1>1, <1>2, <1>50, <1>6, StatementIs
  <2> QED BY <1>8, <1>9, <2>1 DEF StatementHas
<1>11. st.opening = bs + NetOf({r \in Z : book[r].date < fr})
  <2>1. PICK U : U = {r \in Z : book[r].date < fr}
    OBVIOUS
  <2>2. AreFirst(U, Z, ord, sz, mm)
    BY <1>4, <1>5, <2>1 DEF AreFirst
  <2>3. FirstOf(ord, mm) = U
    BY <1>4, <2>2, RowsBefore
  <2>4. mm \in 0 .. sz
    BY <1>5
  <2>5. rn[mm] = bs + NetOf(FirstOf(ord, mm))
    BY <1>7, <2>4
  <2> QED BY <1>10, <2>1, <2>3, <2>5
<1>12. ASSUME fr <= tt PROVE st.closing = bs + NetOf({r \in Z : book[r].date <= tt})
  <2>1. PICK U : U = {r \in Z : book[r].date <= tt}
    OBVIOUS
  <2>2. AreFirst(U, Z, ord, sz, qq)
    BY <1>4, <1>5, <1>12, <2>1 DEF AreFirst
  <2>3. FirstOf(ord, qq) = U
    BY <1>4, <2>2, RowsBefore
  <2>4. qq \in 0 .. sz
    BY <1>5
  <2>5. rn[qq] = bs + NetOf(FirstOf(ord, qq))
    BY <1>7, <2>4
  <2> QED BY <1>10, <2>1, <2>3, <2>5
<1>13. PICK NN : NN = qq - mm
  OBVIOUS
<1>14. NN \in Nat /\ DOMAIN ls = 1 .. NN /\ ls \in [1 .. NN -> Line]
  <2>1. NN \in Nat /\ DOMAIN ls = 1 .. NN
    BY <1>4, <1>5, <1>9, <1>13
  <2>2. ASSUME NEW i \in 1 .. NN PROVE ls[i] \in Line
    <3>1. mm + i \in 1 .. sz /\ mm + i \in 0 .. sz
      BY <1>4, <1>5, <1>13
    <3>2. ord[mm + i] \in DOMAIN book /\ rn[mm + i] \in Int
      BY <1>4, <1>7, <3>1
    <3>3. book[ord[mm + i]].doc \in Nat \cup {None} /\ book[ord[mm + i]].debit \in Nat /\ book[ord[mm + i]].credit \in Nat
      BY <3>2, RowIs
    <3>4. ls[i] = LineOf(ord[mm + i], rn[mm + i])
      BY <1>9, <1>13
    <3> QED BY <3>2, <3>3, <3>4 DEF LineOf, Line
  <2> QED BY <1>9, <1>13, <2>1, <2>2
<1>15. ASSUME NEW i \in 1 .. NN
       PROVE  ls[i].balance = ls[i].debit - ls[i].credit
                                 + (IF i = 1 THEN st.opening ELSE ls[i - 1].balance)
  <2>1. mm + i \in 1 .. sz /\ i \in 1 .. qq - mm
    BY <1>4, <1>5, <1>13
  <2>2. ord[mm + i] \in DOMAIN book
    BY <1>4, <2>1
  <2>3. ls[i].balance = rn[mm + i] /\ ls[i].debit = book[ord[mm + i]].debit
        /\ ls[i].credit = book[ord[mm + i]].credit
    BY <1>9, <2>1 DEF LineOf
  <2>4. Net(ord[mm + i]) = book[ord[mm + i]].debit - book[ord[mm + i]].credit
    BY <2>2, NetIs
  <2>5. rn[mm + i] = rn[mm + i - 1] + Net(ord[mm + i])
    <3>1. PICK a \in 1 .. sz : a = mm + i
      BY <2>1
    <3>2. rn[a] = rn[a - 1] + Net(ord[a])
      BY <1>7
    <3>3. a - 1 = mm + i - 1
      <4>1. mm \in Int /\ i \in Int /\ sz \in Int
        BY <1>4, <1>5
      <4> QED BY <3>1, <4>1
    <3> QED BY <3>1, <3>2, <3>3
  <2>6. rn[mm + i - 1] = IF i = 1 THEN st.opening ELSE ls[i - 1].balance
    <3>1. CASE i = 1
      <4>1. mm + i - 1 = mm
        BY <1>5, <1>4, <3>1
      <4> QED BY <1>10, <3>1, <4>1
    <3>2. CASE i # 1
      <4>1. i - 1 \in 1 .. qq - mm /\ mm + (i - 1) = mm + i - 1
        BY <1>4, <1>5, <2>1, <3>2
      <4>2. ls[i - 1].balance = rn[mm + (i - 1)]
        BY <1>9, <4>1 DEF LineOf
      <4> QED BY <3>2, <4>1, <4>2
    <3> QED BY <3>1, <3>2
  <2>7. rn[mm + i - 1] \in Int /\ book[ord[mm + i]].debit \in Int /\ book[ord[mm + i]].credit \in Int
    <3>1. mm + i - 1 \in 0 .. sz
      BY <1>4, <1>5, <2>1
    <3>2. book[ord[mm + i]].debit \in Nat /\ book[ord[mm + i]].credit \in Nat
      BY <2>2, RowIs
    <3> QED BY <1>7, <3>1, <3>2
  <2>8. rn[mm + i] = ls[i].debit - ls[i].credit + rn[mm + i - 1]
    BY <2>3, <2>4, <2>5, <2>7
  <2> QED BY <2>3, <2>6, <2>8
<1>16. PICK cl : cl = ClientLines(ls)
  OBVIOUS
<1>17. st.opening \in Int
  BY <1>4, <1>5, <1>7, <1>10
<1>18. /\ cl # <<>> => NN > 0 /\ cl[1].balance = ls[NN].balance
       /\ Together(ls) =>
            /\ cl # <<>> => cl[Len(cl)].balance = st.opening + cl[Len(cl)].debit - cl[Len(cl)].credit
            /\ \A i \in 1 .. Len(cl) - 1 : cl[i].balance = cl[i + 1].balance + cl[i].debit - cl[i].credit
  <2>1. PICK z : z = st.opening
    OBVIOUS
  <2>2. z \in Int /\ \A i \in 1 .. NN : ls[i].balance = ls[i].debit - ls[i].credit
                                              + (IF i = 1 THEN z ELSE ls[i - 1].balance)
    BY <1>15, <1>17, <2>1
  <2>3. /\ cl # <<>> => NN > 0 /\ cl[1].balance = ls[NN].balance
        /\ Together(ls) =>
            /\ cl # <<>> => cl[Len(cl)].balance = z + cl[Len(cl)].debit - cl[Len(cl)].credit
            /\ \A i \in 1 .. Len(cl) - 1 : cl[i].balance = cl[i + 1].balance + cl[i].debit - cl[i].credit
    <3>1. Balanced(ls, NN, z)
      BY <2>2 DEF Balanced
    <3>2. ClientOf(ClientLines(ls), ls, NN, z)
      BY <1>14, <2>2, <3>1, ClientAdds
    <3> QED BY <1>16, <3>2 DEF ClientOf
  <2> QED BY <2>1, <2>3
<1>19. cl # <<>> => cl[1].balance = st.closing
  <2>1. NN > 0 => ls[NN].balance = rn[qq]
    <3>1. NN > 0 => NN \in 1 .. qq - mm /\ mm + NN = qq
      BY <1>4, <1>5, <1>13
    <3> QED BY <1>9, <3>1 DEF LineOf
  <2> QED BY <1>10, <1>18, <2>1
<1>20. ~Interrupted(ls) => Together(ls)
  <2>1. 0 <= mm /\ mm \in Int /\ qq \in Int /\ mm <= qq /\ qq <= sz
    BY <1>4, <1>5
  <2>2. LinesOf(ls, ord, rn, mm, qq)
    BY <1>9 DEF LinesOf
  <2> QED BY <1>3, <1>4, <2>1, <2>2, StaysTogether
<1>21. RowsOf(pp) = Z /\ OpenedBy(pp) = bs /\ Statement(pp, fr, tt) = st /\ st.lines = ls /\ ClientLines(st.lines) = cl
  BY <1>2, <1>8, <1>10, <1>16
<1> QED BY <1>11, <1>12, <1>14, <1>15, <1>18, <1>19, <1>20, <1>21

\* The statement ends with the balance of the list.
LEMMA ClosesWithBalance ==
  ASSUME StatementIInv, NEW ps \in SUBSET Holders
  PROVE  Statement(ps, 0, LastDate).closing = BalanceOf(ps)
<1>1. CASE LastDate = 0
  <2>1. RowsOf(ps) = {}
    <3> SUFFICES ASSUME NEW r \in DOMAIN book PROVE FALSE
      BY DEF RowsOf
    <3>1. book[r].date \in 1 .. LastDate
      BY RowIs DEF StatementDates
    <3> QED BY <1>1, <3>1
  <2>2. {r \in RowsOf(ps) : book[r].date <= LastDate} = RowsOf(ps)
    BY <2>1
  <2>3. Statement(ps, 0, LastDate).closing
           = OpenedBy(ps) + NetOf({r \in RowsOf(ps) : book[r].date <= LastDate})
    <3>1. 0 \in StatementDates \cup {0} /\ LastDate \in StatementDates \cup {0} /\ 0 <= LastDate
      BY <1>1
    <3> QED BY <3>1, AddsHold DEF StatementAdds
  <2> QED BY <2>2, <2>3 DEF BalanceOf
<1>2. CASE LastDate # 0
  <2>1. 0 \in StatementDates \cup {0} /\ LastDate \in StatementDates \cup {0} /\ 0 <= LastDate
    BY <1>2, DateIs DEF StatementDates
  <2>2. Statement(ps, 0, LastDate).closing
           = OpenedBy(ps) + NetOf({r \in RowsOf(ps) : book[r].date <= LastDate})
    BY <2>1, AddsHold DEF StatementAdds
  <2>3. {r \in RowsOf(ps) : book[r].date <= LastDate} = RowsOf(ps)
    <3>1. \A r \in RowsOf(ps) : book[r].date <= LastDate
      <4> SUFFICES ASSUME NEW r \in DOMAIN book PROVE book[r].date <= LastDate
        BY DEF RowsOf
      <4>1. book[r].date \in 1 .. LastDate
        BY RowIs DEF StatementDates
      <4> QED BY <4>1
    <3> QED BY <3>1
  <2> QED BY <2>2, <2>3 DEF BalanceOf
<1> QED BY <1>1, <1>2

-----------------------------------------------------------------------------
(* Treasuries.                                                             *)

-----------------------------------------------------------------------------
(* Treasuries.                                                             *)

RunOf(o, e) == Running(0, [k \in DOMAIN o |-> e[o[k]]])

\* The last balance of rows in their order is what all of them add.
LEMMA RunsToAll ==
  ASSUME StatementIInv, NEW S \in SUBSET (DOMAIN book), NEW o, NEW n, InDates(o, S, n), NEW e,
         \A r \in S : e[r] \in Int
  PROVE  RunOf(o, e)[n] = TotalOf(e, S)
<1>1. n \in Nat /\ DOMAIN o = 1 .. n /\ (\A k \in 1 .. n : o[k] \in S) /\ (\A x \in S : \E k \in 1 .. n : o[k] = x)
  BY DEF InDates
<1>2. PICK am, K : am = [k \in DOMAIN o |-> e[o[k]]] /\ K = 1 .. n
  OBVIOUS
<1>3. Len(am) = n /\ (\A k \in 1 .. n : am[k] = e[o[k]] /\ am[k] \in Int)
  BY <1>1, <1>2
<1>4. RunsTo(Running(0, am), 0, am, n)
  BY <1>1, <1>3, RunningIs
<1>5. Running(0, am)[n] = TotalOf(am, K) /\ TotalOf(am, K) \in Int
  <2>1. n \in 0 .. n /\ IsFiniteSet(1 .. n)
    BY <1>1, IntervalSize
  <2>2. Running(0, am)[n] = 0 + TotalOf(am, 1 .. n)
    BY <1>4, <2>1 DEF RunsTo
  <2>3. TotalOf(am, 1 .. n) \in Int
    BY <1>3, <2>1, SumInt
  <2> QED BY <1>2, <2>2, <2>3
<1>6. TotalOf(am, K) = TotalOf(e, S)
  <2>1. IsFiniteSet(K) /\ \A j, i \in K : o[j] = o[i] => j = i
    <3>1. IsFiniteSet(1 .. n)
      BY <1>1, IntervalSize
    <3>2. \A j, i \in 1 .. n : o[j] = o[i] => j = i
      BY DatesApart
    <3> QED BY <1>2, <3>1, <3>2
  <2>2. OneToOne(o, K, S)
    BY <1>1, <1>2, <2>1 DEF OneToOne
  <2>3. \A j \in K : am[j] = e[o[j]] /\ e[o[j]] \in Int
    BY <1>1, <1>2, <1>3
  <2> QED BY <2>1, <2>2, <2>3, SumReindex DEF Reindexed
<1> QED BY <1>2, <1>5, <1>6 DEF RunOf

InBox(x) == {m \in DOMAIN book : book[m].box = x}
InBox2(x) == {m \in DOMAIN book : book[m].box2 = x}
Touching(x) == {n \in DOMAIN book : book[n].box = x \/ book[n].box2 = x}
FirstSide(x) == [n \in DOMAIN book |-> IF book[n].box = x THEN book[n].cashIn - book[n].cashOut ELSE 0]
OtherSide(x) == [n \in DOMAIN book |-> IF book[n].box2 = x THEN book[n].cashIn2 ELSE 0]
Cash(x) == [n \in DOMAIN book |-> CashOf(x, n)]

\* What a row moves in a treasury: its two sides.
LEMMA SidesAre ==
  ASSUME StatementIInv, NEW x, NEW n \in DOMAIN book
  PROVE  /\ FirstSide(x)[n] \in Int /\ OtherSide(x)[n] \in Int /\ Cash(x)[n] = FirstSide(x)[n] + OtherSide(x)[n]
         /\ Cash(x)[n] \in Int /\ (n \in InBox(x) => FirstSide(x)[n] = book[n].cashIn - book[n].cashOut)
         /\ (n \in InBox2(x) => OtherSide(x)[n] = book[n].cashIn2)
         /\ (n \notin InBox(x) => FirstSide(x)[n] = 0) /\ (n \notin InBox2(x) => OtherSide(x)[n] = 0)
<1>1. book[n].cashIn \in Nat /\ book[n].cashOut \in Nat /\ book[n].cashIn2 \in Nat
  BY RowIs
<1>2. PICK a, b : /\ a = IF book[n].box = x THEN book[n].cashIn - book[n].cashOut ELSE 0
                  /\ b = IF book[n].box2 = x THEN book[n].cashIn2 ELSE 0
  OBVIOUS
<1>3. a \in Int /\ b \in Int
  BY <1>1, <1>2
<1>4. FirstSide(x)[n] = a /\ OtherSide(x)[n] = b /\ Cash(x)[n] = a + b
  BY <1>2 DEF FirstSide, OtherSide, Cash, CashOf
<1>5. (n \in InBox(x) <=> book[n].box = x) /\ (n \in InBox2(x) <=> book[n].box2 = x)
  BY DEF InBox, InBox2
<1> QED BY <1>2, <1>3, <1>4, <1>5

\* The balance of a treasury, as one sum over the rows that touch it.
LEMMA TreasuryIs ==
  ASSUME StatementIInv, NEW x
  PROVE  Treasury(x) = TotalOf(Cash(x), Touching(x))
<1>1. PICK A, B, C, f, g, h : A = InBox(x) /\ B = InBox2(x) /\ C = Touching(x) /\ f = FirstSide(x) /\ g = OtherSide(x) /\ h = Cash(x)
  OBVIOUS
<1>2. A \in SUBSET C /\ B \in SUBSET C /\ C \in SUBSET (DOMAIN book) /\ IsFiniteSet(C) /\ IsFiniteSet(A) /\ IsFiniteSet(B)
  <2>1. A \in SUBSET C /\ B \in SUBSET C /\ C \in SUBSET (DOMAIN book)
    BY <1>1 DEF InBox, InBox2, Touching
  <2> QED BY <2>1, BookIs, FS_Subset
<1>3. \A n \in C : f[n] \in Int /\ g[n] \in Int /\ h[n] = f[n] + g[n]
  BY <1>1, <1>2, SidesAre
<1>4. TotalOf(h, C) = TotalOf(f, C) + TotalOf(g, C)
  BY <1>2, <1>3, SumPlus
<1>5. TotalOf(f, C) = TotalOf(f, A)
  <2>1. \A n \in C \ A : f[n] = 0
    BY <1>1, <1>2, SidesAre
  <2>2. \A n \in C : f[n] \in Int
    BY <1>3
  <2> QED BY <1>2, <2>1, <2>2, SumPart
<1>6. TotalOf(g, C) = TotalOf(g, B)
  <2>1. \A n \in C \ B : g[n] = 0
    BY <1>1, <1>2, SidesAre
  <2>2. \A n \in C : g[n] \in Int
    BY <1>3
  <2> QED BY <1>2, <2>1, <2>2, SumPart
<1>7. SumFunction([n \in A |-> book[n].cashIn - book[n].cashOut]) = TotalOf(f, A)
  <2>1. PICK c : c = [n \in A |-> book[n].cashIn - book[n].cashOut]
    OBVIOUS
  <2>2. c = [n \in A |-> f[n]]
    BY <1>1, <1>2, <2>1, SidesAre
  <2>3. SumFunction(c) = TotalOf(f, A)
    BY <1>2, <2>2, SumOfFunction
  <2> QED BY <2>1, <2>3
<1>8. SumFunction([n \in B |-> book[n].cashIn2]) = TotalOf(g, B)
  <2>1. PICK c : c = [n \in B |-> book[n].cashIn2]
    OBVIOUS
  <2>2. c = [n \in B |-> g[n]]
    BY <1>1, <1>2, <2>1, SidesAre
  <2>3. SumFunction(c) = TotalOf(g, B)
    BY <1>2, <2>2, SumOfFunction
  <2> QED BY <2>1, <2>3
<1>9. Treasury(x) = SumFunction([n \in A |-> book[n].cashIn - book[n].cashOut])
                    + SumFunction([n \in B |-> book[n].cashIn2])
  BY <1>1 DEF Treasury, InBox, InBox2
<1> QED BY <1>1, <1>4, <1>5, <1>6, <1>7, <1>8, <1>9

\* What a screen shows of a treasury.
MovesOf(x, primary, o, run) ==
    RowsAt([k \in DOMAIN o |-> [row |-> o[k], balance |-> run[k]]], {k \in DOMAIN o : primary => book[o[k]].box = x})

\* The movements of a treasury, with their balances.
LEMMA MovementsAre ==
  ASSUME StatementIInv, NEW x, NEW primary
  PROVE  \E o, n, run : /\ o = ByDate(Touching(x)) /\ n = Cardinality(Touching(x)) /\ InDates(o, Touching(x), n)
                        /\ run = RunOf(o, Cash(x))
                        /\ AccountMovements(x, primary) = MovesOf(x, primary, o, run)
<1>1. PICK o, n, C, h : C = Touching(x) /\ o = ByDate(C) /\ n = Cardinality(C) /\ h = Cash(x)
  OBVIOUS
<1>2. C \in SUBSET (DOMAIN book)
  BY <1>1 DEF Touching
<1>3. InDates(o, C, n)
  BY <1>1, <1>2, ByDateIs
<1>4. PICK run : run = RunOf(o, h)
  OBVIOUS
<1>5. \A k \in DOMAIN o : h[o[k]] = CashOf(x, o[k])
  <2>1. \A k \in DOMAIN o : o[k] \in DOMAIN book
    BY <1>2, <1>3 DEF InDates
  <2> QED BY <1>1, <2>1 DEF Cash
<1>6. [k \in DOMAIN o |-> h[o[k]]] = [k \in DOMAIN o |-> CashOf(x, o[k])]
  BY <1>5
<1>7. AccountMovements(x, primary) = MovesOf(x, primary, o, run)
  BY <1>1, <1>4, <1>6 DEF AccountMovements, MovesOf, Touching, RunOf
<1> QED BY <1>1, <1>3, <1>4, <1>7

LinesEndWith(lines, total) == IF lines = <<>> THEN total = 0 ELSE lines[Len(lines)].balance = total

\* The last line of a treasury has its balance.
LEMMA TreasuryAgrees ==
  ASSUME StatementIInv, NEW x
  PROVE  LinesEndWith(AccountMovements(x, FALSE), Treasury(x))
<1>1. PICK o, n, run : /\ o = ByDate(Touching(x)) /\ n = Cardinality(Touching(x)) /\ InDates(o, Touching(x), n)
                       /\ run = RunOf(o, Cash(x))
                       /\ AccountMovements(x, FALSE) = MovesOf(x, FALSE, o, run)
  BY MovementsAre
<1>2. n \in Nat /\ DOMAIN o = 1 .. n /\ (\A y \in Touching(x) : \E k \in 1 .. n : o[k] = y)
  BY <1>1 DEF InDates
<1>3. PICK all : all = [k \in DOMAIN o |-> [row |-> o[k], balance |-> run[k]]]
  OBVIOUS
<1>4. PICK lines : lines = AccountMovements(x, FALSE)
  OBVIOUS
<1>5. lines = [k \in 1 .. n |-> all[k]]
  <2>1. {k \in DOMAIN o : FALSE => book[o[k]].box = x} = 1 .. n
    BY <1>2
  <2>2. lines = RowsAt(all, 1 .. n)
    BY <1>1, <1>3, <1>4, <2>1 DEF MovesOf
  <2>3. PICK a : a = 1
    OBVIOUS
  <2>4. RowsAt(all, a .. n) = [k \in 1 .. n - a + 1 |-> all[a + k - 1]]
    <3>1. a \in Nat /\ n \in Int /\ a <= n + 1
      BY <1>2, <2>3
    <3> QED BY <3>1, RowsAtInterval
  <2>5. n - a + 1 = n /\ \A k \in 1 .. n : a + k - 1 = k
    BY <1>2, <2>3
  <2> QED BY <2>2, <2>3, <2>4, <2>5
<1>6. run[n] = Treasury(x)
  <2>1. PICK h, C : h = Cash(x) /\ C = Touching(x)
    OBVIOUS
  <2>2. C \in SUBSET (DOMAIN book) /\ \A r \in C : h[r] \in Int
    BY <2>1, SidesAre DEF Touching
  <2>3. RunOf(o, h)[n] = TotalOf(h, C)
    <3>1. InDates(o, C, n)
      BY <1>1, <2>1
    <3> QED BY <2>2, <3>1, RunsToAll
  <2> QED BY <1>1, <2>1, <2>3, TreasuryIs
<1>7. CASE n = 0
  <2>1. lines = <<>>
    BY <1>5, <1>7
  <2>2. Touching(x) = {}
    BY <1>2, <1>7
  <2>3. Treasury(x) = 0
    BY <2>2, TreasuryIs, SumEmpty
  <2> QED BY <1>4, <2>1, <2>3 DEF LinesEndWith
<1>8. CASE n # 0
  <2>1. Len(lines) = n /\ n \in 1 .. n /\ lines # <<>>
    BY <1>2, <1>5, <1>8
  <2>2. lines[n].balance = run[n]
    BY <1>2, <1>3, <1>5, <2>1
  <2> QED BY <1>4, <1>6, <2>1, <2>2 DEF LinesEndWith
<1> QED BY <1>7, <1>8

\* A movement that is in both treasuries is in the feed once, with its first side.
LEMMA FeedLength ==
  ASSUME StatementIInv, NEW x \in Boxes, NEW f, \A i \in Nat : f[i] = 1
  PROVE  Len(AccountMovements(x, TRUE)) = TotalOf(f, InBox(x))
<1>1. PICK o, n, run : /\ o = ByDate(Touching(x)) /\ n = Cardinality(Touching(x)) /\ InDates(o, Touching(x), n)
                       /\ run = RunOf(o, Cash(x))
                       /\ AccountMovements(x, TRUE) = MovesOf(x, TRUE, o, run)
  BY MovementsAre
<1>2. /\ n \in Nat /\ DOMAIN o = 1 .. n /\ (\A y \in Touching(x) : \E k \in 1 .. n : o[k] = y)
      /\ \A k \in 1 .. n : o[k] \in Touching(x)
  BY <1>1 DEF InDates
<1>3. PICK all, T : all = [k \in DOMAIN o |-> [row |-> o[k], balance |-> run[k]]] /\ T = {k \in DOMAIN o : book[o[k]].box = x}
  OBVIOUS
<1>4. AccountMovements(x, TRUE) = RowsAt(all, T)
  BY <1>1, <1>3 DEF MovesOf
<1>5. Len(RowsAt(all, T)) = Cardinality(T)
  <2>1. PICK R : R = {all[k] : k \in 1 .. n}
    OBVIOUS
  <2>2. all \in Seq(R) /\ T \in SUBSET (DOMAIN all)
    BY <1>2, <1>3, <2>1
  <2> QED BY <2>2, RowsAtIs
<1>6. IsFiniteSet(T) /\ \A k \in T : k \in 1 .. n
  <2>1. IsFiniteSet(1 .. n) /\ T \in SUBSET (1 .. n)
    BY <1>2, <1>3, IntervalSize
  <2> QED BY <2>1, FS_Subset
<1>7. Cardinality(T) = TotalOf(f, T)
  <2>1. \A k \in T : f[k] = 1
    BY <1>6
  <2>2. TotalOf(f, T) = 1 * Cardinality(T)
    BY <1>6, <2>1, SumConstant
  <2>3. Cardinality(T) \in Nat
    BY <1>6, FS_CardinalityType
  <2> QED BY <2>2, <2>3
<1>8. TotalOf(f, T) = TotalOf(f, InBox(x))
  <2>1. PICK S : S = InBox(x)
    OBVIOUS
  <2>2. S = {o[k] : k \in T}
    <3>1. S \subseteq Touching(x) /\ \A y \in Touching(x) : y \in S <=> book[y].box = x
      BY <2>1 DEF InBox, Touching
    <3>2. ASSUME NEW y \in S PROVE y \in {o[k] : k \in T}
      <4>1. PICK k \in 1 .. n : o[k] = y
        BY <1>2, <3>1
      <4>2. k \in T
        BY <1>2, <1>3, <3>1, <4>1
      <4> QED BY <4>1, <4>2
    <3>3. ASSUME NEW k \in T PROVE o[k] \in S
      BY <1>2, <1>3, <3>1
    <3> QED BY <3>2, <3>3
  <2>3. \A j, i \in T : o[j] = o[i] => j = i
    <3>1. \A j, i \in 1 .. n : o[j] = o[i] => j = i
      BY <1>1, DatesApart
    <3> QED BY <1>6, <3>1
  <2>4. \A k \in T : f[k] = f[o[k]] /\ f[o[k]] \in Int
    <3> SUFFICES ASSUME NEW k \in T PROVE f[k] = f[o[k]] /\ f[o[k]] \in Int
      OBVIOUS
    <3>1. k \in Nat /\ o[k] \in Nat
      BY <1>2, <1>6, BookIs DEF Touching
    <3> QED BY <3>1
  <2>5. OneToOne(o, T, S)
    BY <2>2, <2>3 DEF OneToOne
  <2> QED BY <1>6, <2>1, <2>4, <2>5, SumReindex DEF Reindexed
<1> QED BY <1>4, <1>5, <1>7, <1>8

\* The feed of all treasuries has every movement once.
LEMMA FeedAgrees ==
  ASSUME StatementIInv
  PROVE  SumFunction([x \in Boxes |-> Len(AccountMovements(x, TRUE))])
            = Cardinality({n \in DOMAIN book : book[n].box # None})
<1>1. PICK f : f = [i \in Nat |-> 1]
  OBVIOUS
<1>2. PICK W, g, h : /\ W = {n \in DOMAIN book : book[n].box # None} /\ g = [n \in W |-> book[n].box]
                     /\ h = [x \in Boxes |-> Len(AccountMovements(x, TRUE))]
  OBVIOUS
<1>3. IsFiniteSet(W) /\ IsFiniteSet(Boxes) /\ None \notin Boxes /\ (\A w \in W : w \in DOMAIN book /\ w \in Nat)
  <2>1. W \in SUBSET (DOMAIN book)
    BY <1>2
  <2>2. IsFiniteSet(W)
    BY <2>1, BookIs, FS_Subset
  <2> QED BY <2>1, <2>2, BookIs, StatementAssumption
<1>4. \A w \in W : g[w] \in Boxes
  BY <1>2, <1>3, RowIs
<1>5. \A x \in Boxes : h[x] = TotalOf(f, Group(W, g, x))
  <2> SUFFICES ASSUME NEW x \in Boxes PROVE h[x] = TotalOf(f, Group(W, g, x))
    OBVIOUS
  <2>1. Group(W, g, x) = InBox(x)
    BY <1>2, <1>3 DEF Group, InBox
  <2>2. \A i \in Nat : f[i] = 1
    BY <1>1
  <2>3. Len(AccountMovements(x, TRUE)) = TotalOf(f, InBox(x))
    BY <2>2, FeedLength
  <2> QED BY <1>2, <2>1, <2>3
<1>6. TotalOf(f, W) = TotalOf(h, Boxes)
  <2>1. \A w \in W : f[w] \in Int
    BY <1>1, <1>3
  <2> QED BY <1>3, <1>4, <1>5, <2>1, SumByGroups
<1>7. TotalOf(f, W) = Cardinality(W)
  <2>1. \A w \in W : f[w] = 1
    BY <1>1, <1>3
  <2>2. TotalOf(f, W) = 1 * Cardinality(W)
    BY <1>3, <2>1, SumConstant
  <2>3. Cardinality(W) \in Nat
    BY <1>3, FS_CardinalityType
  <2> QED BY <2>2, <2>3
<1>8. SumFunction(h) = TotalOf(h, Boxes)
  <2>1. h = [x \in Boxes |-> h[x]]
    BY <1>2
  <2> QED BY <1>3, <2>1, SumOfFunction
<1> QED BY <1>2, <1>6, <1>7, <1>8

-----------------------------------------------------------------------------
(* Dollars, first in, first out.  Of what came in, c[k] is before layer k and*)
(* c[k + 1] after it; of what went out, w[k] and w[k + 1].  Demand j meets *)
(* layer i in the dollars that both spans have, whatever was compared before.*)

-----------------------------------------------------------------------------
(* Dollars in order: what came in, and went out, before each.              *)

Cumulative(c, amounts, n) ==
    /\ c[0] = 0
    /\ \A k \in 0 .. n + 1 : c[k] \in Nat
    /\ \A k \in 0 .. n : amounts[k] \in Nat /\ c[k + 1] = c[k] + amounts[k]

\* What came before each, as the recursion of Running gives it.
LEMMA CumulativeIs ==
  \A amounts, n : n \in Nat /\ (\A k \in 0 .. n : amounts[k] \in Nat)
    => Cumulative(Running(0, [k \in 1 .. n + 1 |-> amounts[k - 1]]), amounts, n)
<1> SUFFICES ASSUME NEW amounts, NEW n \in Nat, \A k \in 0 .. n : amounts[k] \in Nat
             PROVE  Cumulative(Running(0, [k \in 1 .. n + 1 |-> amounts[k - 1]]), amounts, n)
  OBVIOUS
<1>1. PICK am, c : am = [k \in 1 .. n + 1 |-> amounts[k - 1]] /\ c = Running(0, am)
  OBVIOUS
<1>2. Len(am) = n + 1 /\ \A k \in 1 .. n + 1 : am[k] = amounts[k - 1] /\ am[k] \in Nat
  <2>1. \A k \in 1 .. n + 1 : k - 1 \in 0 .. n
    OBVIOUS
  <2> QED BY <1>1, <2>1
<1>3. RunsTo(c, 0, am, n + 1)
  <2>1. n + 1 \in Nat /\ 0 \in Int /\ \A k \in 1 .. n + 1 : am[k] \in Int
    BY <1>2
  <2> QED BY <1>1, <1>2, <2>1, RunningIs
<1>4. ASSUME NEW k \in 0 .. n + 1 PROVE c[k] \in Nat
  <2>1. IsFiniteSet(1 .. k) /\ \A j \in 1 .. k : am[j] \in Nat
    <3>1. k \in Int /\ 1 \in Int
      OBVIOUS
    <3>2. IsFiniteSet(1 .. k)
      BY <3>1, IntervalSize
    <3> QED BY <1>2, <3>2
  <2>2. TotalOf(am, 1 .. k) \in Nat
    BY <2>1, SumType
  <2> QED BY <1>3, <2>2 DEF RunsTo
<1>5. ASSUME NEW k \in 0 .. n PROVE c[k + 1] = c[k] + amounts[k]
  <2>1. k + 1 \in 1 .. n + 1 /\ (k + 1) - 1 = k
    OBVIOUS
  <2>2. c[k + 1] = c[(k + 1) - 1] + am[k + 1]
    BY <1>3, <2>1 DEF RunsTo
  <2> QED BY <1>2, <2>1, <2>2
<1>6. c[0] = 0
  BY <1>3 DEF RunsTo
<1> QED BY <1>1, <1>4, <1>5, <1>6 DEF Cumulative

\* What came in never shrinks.
LEMMA CumulativeGrows ==
  ASSUME NEW n \in Nat, NEW c, NEW amounts, Cumulative(c, amounts, n), NEW j \in 0 .. n + 1, NEW k0 \in j .. n + 1
  PROVE  c[j] <= c[k0]
<1> USE DEF Cumulative
<1> DEFINE Bad == {k \in j .. n + 1 : ~(c[j] <= c[k])}
<1>1. SUFFICES ASSUME Bad # {} PROVE FALSE
  OBVIOUS
<1>2. PICK k \in Bad : \A y \in Bad : k <= y
  <2>1. Bad \subseteq Nat
    OBVIOUS
  <2> QED BY <1>1, <2>1, LeastOf
<1>3. k # j /\ k \in 0 .. n + 1
  <2>1. c[j] <= c[j]
    OBVIOUS
  <2> QED BY <1>2, <2>1
<1>4. k - 1 \in j .. n + 1 /\ k - 1 \in 0 .. n
  BY <1>2, <1>3
<1>5. c[j] <= c[k - 1]
  BY <1>2, <1>4
<1>6. PICK i \in 0 .. n : i = k - 1
  BY <1>4
<1>7. c[i + 1] = c[i] + amounts[i] /\ amounts[i] \in Nat /\ c[i] \in Nat /\ c[j] \in Nat /\ i + 1 = k
  BY <1>3, <1>6
<1>8. c[j] <= c[k]
  BY <1>5, <1>6, <1>7
<1> QED BY <1>2, <1>8

\* Differences that follow each other add up to the difference of the ends.
LEMMA Telescopes ==
  \A r, f, n : n \in Nat /\ (\A k \in 0 .. n + 1 : r[k] \in Int) /\ (\A k \in 0 .. n : f[k] = r[k + 1] - r[k])
    => TotalOf(f, 0 .. n) = r[n + 1] - r[0]
<1> SUFFICES ASSUME NEW r, NEW f, NEW n \in Nat, \A k \in 0 .. n + 1 : r[k] \in Int, \A k \in 0 .. n : f[k] = r[k + 1] - r[k]
             PROVE  TotalOf(f, 0 .. n) = r[n + 1] - r[0]
  OBVIOUS
<1>1. \A k \in 0 .. n : f[k] \in Int
  <2> SUFFICES ASSUME NEW k \in 0 .. n PROVE f[k] \in Int
    OBVIOUS
  <2>1. k \in 0 .. n + 1 /\ k + 1 \in 0 .. n + 1
    OBVIOUS
  <2> QED BY <2>1
<1> DEFINE Adds(x) == TotalOf(f, 0 .. x - 1) = r[x] - r[0]
           Bad == {x \in 0 .. n + 1 : ~Adds(x)}
<1>2. SUFFICES Bad = {}
  <2>1. n + 1 \in 0 .. n + 1 /\ (n + 1) - 1 = n
    OBVIOUS
  <2>2. Adds(n + 1)
    BY <1>2, <2>1
  <2> QED BY <2>1, <2>2
<1>3. SUFFICES ASSUME Bad # {} PROVE FALSE
  OBVIOUS
<1>4. PICK x \in Bad : \A y \in Bad : x <= y
  <2>1. Bad \subseteq Nat
    OBVIOUS
  <2> QED BY <1>3, <2>1, LeastOf
<1>5. x \in 0 .. n + 1 /\ ~Adds(x)
  BY <1>4
<1>6. x # 0
  <2>1. Adds(0)
    <3>1. 0 .. 0 - 1 = {} /\ TotalOf(f, {}) = 0 /\ r[0] \in Int
      BY SumEmpty
    <3> QED BY <3>1
  <2> QED BY <1>5, <2>1
<1>7. PICK i \in 0 .. n : x = i + 1
  <2>1. x - 1 \in 0 .. n /\ x = (x - 1) + 1
    BY <1>5, <1>6
  <2> QED BY <2>1
<1>8. Adds(i)
  <2>1. i \in 0 .. n + 1 /\ ~(x <= i)
    BY <1>7
  <2> QED BY <1>4, <2>1
<1>9. PICK T, U : T = 0 .. i /\ U = 0 .. i - 1
  OBVIOUS
<1>10. T = U \cup {i} /\ i \notin U /\ IsFiniteSet(T) /\ \A k \in T : f[k] \in Int
  <2>1. IsFiniteSet(0 .. i)
    BY IntervalSize
  <2>2. \A k \in 0 .. i : k \in 0 .. n
    OBVIOUS
  <2> QED BY <1>1, <1>9, <2>1, <2>2
<1>11. TotalOf(f, T) = f[i] + TotalOf(f, U) /\ TotalOf(f, U) \in Int
  BY <1>10, SumOneMore
<1>12. f[i] = r[i + 1] - r[i] /\ r[i + 1] \in Int /\ r[i] \in Int /\ r[0] \in Int
  <2>1. i \in 0 .. n + 1 /\ i + 1 \in 0 .. n + 1 /\ 0 \in 0 .. n + 1
    OBVIOUS
  <2> QED BY <2>1
<1>13. TotalOf(f, U) = r[i] - r[0]
  BY <1>8, <1>9
<1>14. TotalOf(f, T) = r[i + 1] - r[0]
  BY <1>11, <1>12, <1>13
<1>15. x - 1 = i
  BY <1>7
<1> QED BY <1>5, <1>7, <1>9, <1>14, <1>15

-----------------------------------------------------------------------------
(* Demands meet layers.                                                    *)

Larger(a, b) == IF a > b THEN a ELSE b
\* how much of what is between a and b is after c
Over(b, a, c) == Positive(b - Larger(a, c))

Poured(a, b, c, d) ==
    /\ Positive(Over(b, a, c) - Over(d, c, a)) = Over(b, a, d)
    /\ Positive(-(Over(b, a, c) - Over(d, c, a))) = Over(d, c, b)
    /\ Over(b, a, c) \in Nat /\ Over(d, c, a) \in Nat
    /\ Over(b, a, c) - Over(b, a, d) = Over(d, c, a) - Over(d, c, b)

\* One demand and one layer: what is missing afterwards, or left.
LEMMA Pour ==
  ASSUME NEW a \in Int, NEW b \in Int, NEW c \in Int, NEW d \in Int, a <= b, c <= d
  PROVE  Poured(a, b, c, d)
BY DEF Poured, Over, Larger, Positive

Step(g, in, out, c) ==
    (IF c[2] = 0 THEN out[c[1]] ELSE Positive(g[<<c[1], c[2] - 1>>]))
    - (IF c[1] = 0 THEN in[c[2]] ELSE Positive(-g[<<c[1] - 1, c[2]>>]))
Pours(g, in, out, n) == g = [c \in (0 .. n) \X (0 .. n) |-> Step(g, in, out, c)]

SamePairs(g, q, n) == \A j, i \in 0 .. n : g[<<j, i>>] = q[<<j, i>>]

\* The gaps are determined by their neighbours.
LEMMA PoursOnce ==
  ASSUME NEW n \in Nat, NEW in, NEW out, NEW g, NEW q, Pours(g, in, out, n), Pours(q, in, out, n)
  PROVE  SamePairs(g, q, n)
<1> USE DEF SamePairs
<1> DEFINE Differ(s) == \E j, i \in 0 .. n : j + i = s /\ g[<<j, i>>] # q[<<j, i>>]
           Bad == {s \in Nat : Differ(s)}
<1>1. SUFFICES ASSUME Bad # {} PROVE FALSE
  <2> SUFFICES ASSUME NEW j \in 0 .. n, NEW i \in 0 .. n, g[<<j, i>>] # q[<<j, i>>] PROVE FALSE
    OBVIOUS
  <2>1. PICK s \in Nat : s = j + i
    OBVIOUS
  <2>2. Differ(s)
    BY <2>1
  <2> QED BY <1>1, <2>1, <2>2
<1>2. PICK s \in Bad : \A y \in Bad : s <= y
  <2>1. Bad \subseteq Nat
    OBVIOUS
  <2> QED BY <1>1, <2>1, LeastOf
<1>3. PICK j \in 0 .. n, i \in 0 .. n : j + i = s /\ g[<<j, i>>] # q[<<j, i>>]
  BY <1>2
<1>4. \A z \in Nat : z < s => ~Differ(z)
  <2> SUFFICES ASSUME NEW z \in Nat, z < s, Differ(z) PROVE FALSE
    OBVIOUS
  <2>1. s <= z /\ s \in Nat
    BY <1>2
  <2> QED BY <2>1
<1>5. i # 0 => g[<<j, i - 1>>] = q[<<j, i - 1>>]
  <2> SUFFICES ASSUME i # 0 PROVE g[<<j, i - 1>>] = q[<<j, i - 1>>]
    OBVIOUS
  <2>1. i - 1 \in 0 .. n /\ j + (i - 1) \in Nat /\ j + (i - 1) < s
    BY <1>3
  <2>2. ~Differ(j + (i - 1))
    BY <1>4, <2>1
  <2> QED BY <2>1, <2>2
<1>6. j # 0 => g[<<j - 1, i>>] = q[<<j - 1, i>>]
  <2> SUFFICES ASSUME j # 0 PROVE g[<<j - 1, i>>] = q[<<j - 1, i>>]
    OBVIOUS
  <2>1. j - 1 \in 0 .. n /\ (j - 1) + i \in Nat /\ (j - 1) + i < s
    BY <1>3
  <2>2. ~Differ((j - 1) + i)
    BY <1>4, <2>1
  <2> QED BY <2>1, <2>2
<1>7. g[<<j, i>>] = Step(g, in, out, <<j, i>>) /\ q[<<j, i>>] = Step(q, in, out, <<j, i>>)
  <2>1. <<j, i>> \in (0 .. n) \X (0 .. n)
    OBVIOUS
  <2> QED BY <2>1 DEF Pours
<1>8. Step(g, in, out, <<j, i>>) = Step(q, in, out, <<j, i>>)
  BY <1>5, <1>6 DEF Step
<1> QED BY <1>3, <1>7, <1>8

\* What is missing of a demand when it comes to a layer, less what is left of the layer.
Missing(w, c, j, i) == Over(w[j + 1], w[j], c[i])
Left(w, c, j, i) == Over(c[i + 1], c[i], w[j])

PouredAt(w, c, in, out, j, i) ==
    /\ Positive(Missing(w, c, j, i) - Left(w, c, j, i)) = Missing(w, c, j, i + 1)
    /\ Positive(-(Missing(w, c, j, i) - Left(w, c, j, i))) = Left(w, c, j + 1, i)
    /\ Missing(w, c, j, i) \in Nat /\ Left(w, c, j, i) \in Nat
    /\ Missing(w, c, j, i) - Missing(w, c, j, i + 1) = Left(w, c, j, i) - Left(w, c, j + 1, i)
    /\ Missing(w, c, j, 0) = out[j] /\ Left(w, c, 0, i) = in[i]

\* The spans give the gap of every demand and layer from those of its neighbours.
LEMMA PourAt ==
  ASSUME NEW n \in Nat, NEW in, NEW out, NEW c, NEW w, Cumulative(c, in, n), Cumulative(w, out, n),
         NEW j \in 0 .. n, NEW i \in 0 .. n
  PROVE  PouredAt(w, c, in, out, j, i)
<1>1. PICK A, B, C, D : A = w[j] /\ B = w[j + 1] /\ C = c[i] /\ D = c[i + 1]
  OBVIOUS
<1>2. /\ A \in Nat /\ B \in Nat /\ C \in Nat /\ D \in Nat /\ B = A + out[j] /\ D = C + in[i]
      /\ out[j] \in Nat /\ in[i] \in Nat /\ c[0] = 0 /\ w[0] = 0
  <2>1. j \in 0 .. n + 1 /\ j + 1 \in 0 .. n + 1 /\ i \in 0 .. n + 1 /\ i + 1 \in 0 .. n + 1
    OBVIOUS
  <2> QED BY <1>1, <2>1 DEF Cumulative
<1>3. A <= B /\ C <= D
  BY <1>2
<1>4. Missing(w, c, j, 0) = out[j] /\ Left(w, c, 0, i) = in[i]
  BY <1>1, <1>2 DEF Missing, Left, Over, Larger, Positive
<1>5. /\ Positive(Over(B, A, C) - Over(D, C, A)) = Over(B, A, D)
      /\ Positive(-(Over(B, A, C) - Over(D, C, A))) = Over(D, C, B)
      /\ Over(B, A, C) \in Nat /\ Over(D, C, A) \in Nat
      /\ Over(B, A, C) - Over(B, A, D) = Over(D, C, A) - Over(D, C, B)
  <2>1. Poured(A, B, C, D)
    BY <1>2, <1>3, Pour
  <2> QED BY <2>1 DEF Poured
<1> QED BY <1>1, <1>4, <1>5 DEF Missing, Left, PouredAt

Compared(gap, w, c, n) == \A j, i \in 0 .. n : gap[<<j, i>>] = Missing(w, c, j, i) - Left(w, c, j, i)

\* The gaps, without the recursion.
LEMMA GapsAre ==
  ASSUME NEW n \in Nat, NEW in, NEW out, NEW c, NEW w, Cumulative(c, in, n), Cumulative(w, out, n),
         DOMAIN in = 0 .. n, DOMAIN out = 0 .. n
  PROVE  Compared(Gaps(in, out), w, c, n)
<1> USE DEF Compared
<1>1. PICK g : g = [x \in (0 .. n) \X (0 .. n) |-> Missing(w, c, x[1], x[2]) - Left(w, c, x[1], x[2])]
  OBVIOUS
<1>2. \A j, i \in 0 .. n : g[<<j, i>>] = Missing(w, c, j, i) - Left(w, c, j, i)
  BY <1>1
<1>3. \A j, i \in 0 .. n : g[<<j, i>>] = Step(g, in, out, <<j, i>>)
  <2> SUFFICES ASSUME NEW j \in 0 .. n, NEW i \in 0 .. n PROVE g[<<j, i>>] = Step(g, in, out, <<j, i>>)
    OBVIOUS
  <2>0. \A y, z \in 0 .. n : PouredAt(w, c, in, out, y, z)
    BY PourAt
  <2>1. (IF i = 0 THEN out[j] ELSE Positive(g[<<j, i - 1>>])) = Missing(w, c, j, i)
    <3>1. CASE i = 0
      BY <2>0, <3>1 DEF PouredAt
    <3>2. CASE i # 0
      <4>1. PICK h \in 0 .. n : h = i - 1
        BY <3>2
      <4>2. h + 1 = i /\ g[<<j, h>>] = Missing(w, c, j, h) - Left(w, c, j, h)
        BY <1>2, <4>1
      <4>3. Positive(Missing(w, c, j, h) - Left(w, c, j, h)) = Missing(w, c, j, h + 1)
        BY <2>0 DEF PouredAt
      <4> QED BY <3>2, <4>1, <4>2, <4>3
    <3> QED BY <3>1, <3>2
  <2>2. (IF j = 0 THEN in[i] ELSE Positive(-g[<<j - 1, i>>])) = Left(w, c, j, i)
    <3>1. CASE j = 0
      BY <2>0, <3>1 DEF PouredAt
    <3>2. CASE j # 0
      <4>1. PICK h \in 0 .. n : h = j - 1
        BY <3>2
      <4>2. h + 1 = j /\ g[<<h, i>>] = Missing(w, c, h, i) - Left(w, c, h, i)
        BY <1>2, <4>1
      <4>3. Positive(-(Missing(w, c, h, i) - Left(w, c, h, i))) = Left(w, c, h + 1, i)
        BY <2>0 DEF PouredAt
      <4> QED BY <3>2, <4>1, <4>2, <4>3
    <3> QED BY <3>1, <3>2
  <2>3. Step(g, in, out, <<j, i>>) = (IF i = 0 THEN out[j] ELSE Positive(g[<<j, i - 1>>]))
                                     - (IF j = 0 THEN in[i] ELSE Positive(-g[<<j - 1, i>>]))
    BY DEF Step
  <2> QED BY <1>2, <2>1, <2>2, <2>3
<1>4. g = [x \in (0 .. n) \X (0 .. n) |-> Step(g, in, out, x)]
  <2>1. ASSUME NEW x \in (0 .. n) \X (0 .. n) PROVE g[x] = Step(g, in, out, x)
    <3>1. PICK j \in 0 .. n, i \in 0 .. n : x = <<j, i>>
      OBVIOUS
    <3> QED BY <1>3, <3>1
  <2>2. g = [x \in (0 .. n) \X (0 .. n) |-> g[x]]
    BY <1>1
  <2> QED BY <2>1, <2>2
<1>5. PICK q : q = Gaps(in, out)
  OBVIOUS
<1>6. q = CHOOSE f : f = [x \in (0 .. n) \X (0 .. n) |-> Step(f, in, out, x)]
  BY <1>5 DEF Gaps, Step
<1>7. q = [x \in (0 .. n) \X (0 .. n) |-> Step(q, in, out, x)]
  BY <1>4, <1>6
<1>8. \A j, i \in 0 .. n : g[<<j, i>>] = q[<<j, i>>]
  <2>1. Pours(g, in, out, n) /\ Pours(q, in, out, n)
    BY <1>4, <1>7 DEF Pours
  <2>2. SamePairs(g, q, n)
    BY <2>1, PoursOnce
  <2> QED BY <2>2 DEF SamePairs
<1> QED BY <1>2, <1>5, <1>8

-----------------------------------------------------------------------------
(* Dollar by dollar: a demand takes from a layer as many as they share.    *)

\* the layers that have the d-th dollar, and its price
SourcesOf(c, n, d) == {i \in 0 .. n : c[i] < d /\ d <= c[i + 1]}
PriceOf(c, n, rate, d) == IF SourcesOf(c, n, d) = {} THEN 0 ELSE rate[CHOOSE i \in SourcesOf(c, n, d) : TRUE]
Met(w, k) == w[k] + 1 .. w[k + 1]

\* A dollar came in with one layer.
LEMMA OneSource ==
  ASSUME NEW n \in Nat, NEW c, NEW in, Cumulative(c, in, n), NEW d \in Nat, NEW i \in SourcesOf(c, n, d), NEW k \in SourcesOf(c, n, d)
  PROVE  i = k
<1>1. ASSUME NEW x \in SourcesOf(c, n, d), NEW y \in SourcesOf(c, n, d), x < y PROVE FALSE
  <2>1. x \in 0 .. n /\ y \in 0 .. n /\ c[y] < d /\ d <= c[x + 1]
    BY DEF SourcesOf
  <2>2. PICK z : z = x + 1
    OBVIOUS
  <2>3. z \in 0 .. n + 1 /\ y \in z .. n + 1 /\ y \in 0 .. n + 1
    BY <1>1, <2>1, <2>2
  <2>4. c[z] <= c[y]
    BY <2>3, CumulativeGrows
  <2>5. c[z] \in Nat /\ c[y] \in Nat
    BY <2>3 DEF Cumulative
  <2> QED BY <2>1, <2>2, <2>4, <2>5
<1>2. i \in 0 .. n /\ k \in 0 .. n /\ ~(i < k) /\ ~(k < i)
  BY <1>1 DEF SourcesOf
<1> QED BY <1>2

\* Every dollar up to the last that came in has a layer, and no other has.
LEMMA SomeSource ==
  ASSUME NEW n \in Nat, NEW c, NEW in, Cumulative(c, in, n), NEW d \in Nat, d >= 1
  PROVE  SourcesOf(c, n, d) = {} <=> c[n + 1] < d
<1>0. c[n + 1] \in Nat /\ c[0] = 0
  BY DEF Cumulative
<1>1. ASSUME NEW i \in SourcesOf(c, n, d) PROVE ~(c[n + 1] < d)
  <2>1. i \in 0 .. n /\ d <= c[i + 1]
    BY DEF SourcesOf
  <2>2. PICK z : z = i + 1
    OBVIOUS
  <2>3. z \in 0 .. n + 1 /\ n + 1 \in z .. n + 1
    BY <2>1, <2>2
  <2>4. c[z] <= c[n + 1]
    BY <2>3, CumulativeGrows
  <2>5. c[z] \in Nat
    BY <2>3 DEF Cumulative
  <2> QED BY <1>0, <2>1, <2>2, <2>4, <2>5
<1>2. ASSUME ~(c[n + 1] < d) PROVE SourcesOf(c, n, d) # {}
  <2> DEFINE T == {z \in 0 .. n + 1 : d <= c[z]}
  <2>1. n + 1 \in T /\ T \subseteq Nat
    BY <1>0, <1>2
  <2>2. PICK z \in T : \A y \in T : z <= y
    BY <2>1, LeastOf
  <2>3. z # 0 /\ z \in 0 .. n + 1 /\ d <= c[z]
    BY <1>0, <2>2
  <2>4. PICK i \in 0 .. n : z = i + 1
    <3>1. z - 1 \in 0 .. n /\ z = (z - 1) + 1
      BY <2>3
    <3> QED BY <3>1
  <2>5. i \in 0 .. n + 1 /\ ~(z <= i)
    BY <2>4
  <2>6. ~(d <= c[i])
    BY <2>2, <2>5
  <2>7. c[i] \in Nat
    BY <2>5 DEF Cumulative
  <2>8. i \in SourcesOf(c, n, d)
    BY <2>3, <2>4, <2>6, <2>7 DEF SourcesOf
  <2> QED BY <2>8
<1> QED BY <1>1, <1>2

\* What a demand takes from a layer: the dollars that are in both.
TakenFrom(w, c, j, i) == Missing(w, c, j, i) - Missing(w, c, j, i + 1)

\* A demand takes from a layer the dollars that it meets of it.
LEMMA DollarsTaken ==
  ASSUME NEW n \in Nat, NEW in, NEW out, NEW c, NEW w, Cumulative(c, in, n), Cumulative(w, out, n),
         NEW j \in 0 .. n, NEW i \in 0 .. n
  PROVE  /\ IsFiniteSet({d \in Met(w, j) : i \in SourcesOf(c, n, d)})
         /\ Cardinality({d \in Met(w, j) : i \in SourcesOf(c, n, d)}) = TakenFrom(w, c, j, i)
<1>1. PICK A, B, C, D : A = w[j] /\ B = w[j + 1] /\ C = c[i] /\ D = c[i + 1]
  OBVIOUS
<1>2. A \in Nat /\ B \in Nat /\ C \in Nat /\ D \in Nat /\ A <= B /\ C <= D
  <2>1. j \in 0 .. n + 1 /\ j + 1 \in 0 .. n + 1 /\ i \in 0 .. n + 1 /\ i + 1 \in 0 .. n + 1
    OBVIOUS
  <2>2. w[j + 1] = w[j] + out[j] /\ c[i + 1] = c[i] + in[i] /\ out[j] \in Nat /\ in[i] \in Nat
    BY DEF Cumulative
  <2> QED BY <1>1, <2>1, <2>2 DEF Cumulative
<1>3. PICK L, H : L = Larger(A, C) + 1 /\ H = IF B > D THEN D ELSE B
  OBVIOUS
<1>4. L \in Int /\ H \in Int
  BY <1>2, <1>3 DEF Larger
<1>5. {d \in Met(w, j) : i \in SourcesOf(c, n, d)} = L .. H
  <2>1. \A d : d \in Met(w, j) <=> (d \in Int /\ A + 1 <= d /\ d <= B)
    BY <1>1, <1>2 DEF Met
  <2>2. \A d : i \in SourcesOf(c, n, d) <=> C < d /\ d <= D
    BY <1>1 DEF SourcesOf
  <2>3. ASSUME NEW d \in Int PROVE (A + 1 <= d /\ d <= B /\ C < d /\ d <= D) <=> (L <= d /\ d <= H)
    BY <1>2, <1>3 DEF Larger
  <2> QED BY <1>4, <2>1, <2>2, <2>3
<1>6. IsFiniteSet(L .. H) /\ Cardinality(L .. H) = IF L > H THEN 0 ELSE H - L + 1
  BY <1>4, IntervalSize
<1>7. TakenFrom(w, c, j, i) = Over(B, A, C) - Over(B, A, D)
  BY <1>1 DEF TakenFrom, Missing
<1>8. Over(B, A, C) - Over(B, A, D) = IF L > H THEN 0 ELSE H - L + 1
  BY <1>2, <1>3 DEF Over, Positive, Larger
<1> QED BY <1>5, <1>6, <1>7, <1>8

\* What a demand took is the price of its dollars, one by one.
DollarPrices(c, w, n, rate, j) == [d \in Met(w, j) |-> PriceOf(c, n, rate, d)]

\* The value that a demand took is that of its dollars, one by one.
LEMMA DemandPriced ==
  ASSUME NEW n \in Nat, NEW in, NEW out, NEW c, NEW w, Cumulative(c, in, n), Cumulative(w, out, n),
         NEW rate, \A i \in 0 .. n : rate[i] \in Int, NEW j \in 0 .. n,
         NEW h, \A i \in 0 .. n : h[i] = TakenFrom(w, c, j, i) * rate[i]
  PROVE  /\ TotalOf(h, 0 .. n) = SumFunction(DollarPrices(c, w, n, rate, j))
         /\ TotalOf(h, 0 .. n) \in Int
<1>1. PICK M, f : M = Met(w, j) /\ f = [d \in M |-> PriceOf(c, n, rate, d)]
  OBVIOUS
<1>2. IsFiniteSet(M) /\ \A d \in M : d \in Nat /\ d >= 1
  <2>1. w[j] \in Nat /\ w[j + 1] \in Nat /\ w[j] + 1 \in Int /\ w[j + 1] \in Int
    <3>1. j \in 0 .. n + 1 /\ j + 1 \in 0 .. n + 1
      OBVIOUS
    <3> QED BY <3>1 DEF Cumulative
  <2>2. IsFiniteSet(w[j] + 1 .. w[j + 1])
    BY <2>1, IntervalSize
  <2> QED BY <1>1, <2>1, <2>2 DEF Met
<1>3. PICK g : g = [d \in M |-> CHOOSE i \in SourcesOf(c, n, d) : TRUE]
  OBVIOUS
<1>4. PICK N : N = {d \in M : SourcesOf(c, n, d) # {}}
  OBVIOUS
<1>5. \A d \in N : g[d] \in SourcesOf(c, n, d) /\ g[d] \in 0 .. n /\ f[d] = rate[g[d]]
  <2> SUFFICES ASSUME NEW d \in N PROVE g[d] \in SourcesOf(c, n, d) /\ g[d] \in 0 .. n /\ f[d] = rate[g[d]]
    OBVIOUS
  <2>1. d \in M /\ SourcesOf(c, n, d) # {}
    BY <1>4
  <2>2. g[d] = CHOOSE i \in SourcesOf(c, n, d) : TRUE
    BY <1>3, <2>1
  <2>3. g[d] \in SourcesOf(c, n, d)
    BY <2>1, <2>2
  <2>4. f[d] = rate[g[d]]
    BY <1>1, <2>1, <2>2 DEF PriceOf
  <2> QED BY <2>3, <2>4 DEF SourcesOf
<1>6. \A d \in M : f[d] \in Int /\ (d \notin N => f[d] = 0)
  <2> SUFFICES ASSUME NEW d \in M PROVE f[d] \in Int /\ (d \notin N => f[d] = 0)
    OBVIOUS
  <2>1. CASE d \in N
    BY <1>5, <2>1
  <2>2. CASE d \notin N
    <3>1. SourcesOf(c, n, d) = {}
      BY <1>4, <2>2
    <3>2. f[d] = 0
      BY <1>1, <3>1 DEF PriceOf
    <3> QED BY <2>2, <3>2
  <2> QED BY <2>1, <2>2
<1>7. N \in SUBSET M /\ IsFiniteSet(N)
  <2>1. N \in SUBSET M
    BY <1>4
  <2> QED BY <1>2, <2>1, FS_Subset
<1>8. TotalOf(f, M) = TotalOf(f, N) /\ TotalOf(f, N) \in Int
  <2>1. (\A d \in M : f[d] \in Int) /\ (\A d \in M \ N : f[d] = 0) /\ \A d \in N : f[d] \in Int
    BY <1>6, <1>7
  <2> QED BY <1>2, <1>7, <2>1, SumPart, SumInt
<1>9. PICK P : P = 0 .. n
  OBVIOUS
<1>10. \A i \in P : h[i] = TotalOf(f, Group(N, g, i))
  <2> SUFFICES ASSUME NEW i \in P PROVE h[i] = TotalOf(f, Group(N, g, i))
    OBVIOUS
  <2>0. i \in 0 .. n
    BY <1>9
  <2>1. PICK G : G = Group(N, g, i)
    OBVIOUS
  <2>2. G = {d \in Met(w, j) : i \in SourcesOf(c, n, d)}
    <3>1. ASSUME NEW d \in M, i \in SourcesOf(c, n, d) PROVE d \in N /\ g[d] = i
      <4>1. d \in N
        BY <1>4, <3>1
      <4>2. g[d] \in SourcesOf(c, n, d) /\ d \in Nat
        BY <1>2, <1>5, <4>1
      <4> QED BY <3>1, <4>1, <4>2, OneSource
    <3>2. ASSUME NEW d \in N, g[d] = i PROVE d \in M /\ i \in SourcesOf(c, n, d)
      BY <1>4, <1>5, <3>2
    <3> QED BY <1>1, <2>1, <3>1, <3>2 DEF Group
  <2>3. IsFiniteSet(G) /\ Cardinality(G) = TakenFrom(w, c, j, i)
    BY <2>0, <2>2, DollarsTaken
  <2>4. \A d \in G : f[d] = rate[i]
    BY <1>5, <2>1 DEF Group
  <2>5. TotalOf(f, G) = rate[i] * Cardinality(G)
    <3>1. rate[i] \in Int
      BY <2>0
    <3> QED BY <2>3, <2>4, <3>1, SumConstant
  <2>6. PICK a, b : a = rate[i] /\ b = Cardinality(G)
    OBVIOUS
  <2>7. a \in Int /\ b \in Int /\ h[i] = b * a /\ TotalOf(f, G) = a * b
    BY <2>0, <2>3, <2>5, <2>6, FS_CardinalityType
  <2>8. a * b = b * a
    BY <2>7
  <2> QED BY <2>1, <2>7, <2>8
<1>11. TotalOf(f, N) = TotalOf(h, P)
  <2>1. IsFiniteSet(P)
    BY <1>9, IntervalSize
  <2>2. (\A d \in N : f[d] \in Int) /\ (\A d \in N : g[d] \in P)
    BY <1>5, <1>6, <1>7, <1>9
  <2> QED BY <1>7, <1>10, <2>1, <2>2, SumByGroups
<1>12. SumFunction(f) = TotalOf(f, M)
  <2>1. PICK z : z = f
    OBVIOUS
  <2>2. z = [d \in M |-> f[d]]
    BY <1>1, <2>1
  <2>3. SumFunction(z) = TotalOf(f, M)
    BY <1>2, <2>2, SumOfFunction
  <2> QED BY <2>1, <2>3
<1> QED BY <1>1, <1>8, <1>9, <1>11, <1>12 DEF DollarPrices

\* What found no layer are the dollars that have none.
Unserved(c, w, n, j) == {d \in Met(w, j) : SourcesOf(c, n, d) = {}}

\* What found no layer are the dollars without one.
LEMMA DemandUnpriced ==
  ASSUME NEW n \in Nat, NEW in, NEW out, NEW c, NEW w, Cumulative(c, in, n), Cumulative(w, out, n), NEW j \in 0 .. n
  PROVE  Missing(w, c, j, n + 1) = Cardinality(Unserved(c, w, n, j))
<1>1. PICK A, B, C : A = w[j] /\ B = w[j + 1] /\ C = c[n + 1]
  OBVIOUS
<1>2. A \in Nat /\ B \in Nat /\ C \in Nat /\ A <= B
  <2>1. j \in 0 .. n + 1 /\ j + 1 \in 0 .. n + 1 /\ n + 1 \in 0 .. n + 1
    OBVIOUS
  <2>2. w[j + 1] = w[j] + out[j] /\ out[j] \in Nat
    BY DEF Cumulative
  <2> QED BY <1>1, <2>1, <2>2 DEF Cumulative
<1>3. PICK L : L = Larger(A, C) + 1
  OBVIOUS
<1>4. L \in Int /\ B \in Int
  BY <1>2, <1>3 DEF Larger
<1>5. {d \in Met(w, j) : SourcesOf(c, n, d) = {}} = L .. B
  <2>1. \A d : d \in Met(w, j) <=> (d \in Int /\ A + 1 <= d /\ d <= B)
    BY <1>1, <1>2 DEF Met
  <2>2. \A d \in Nat : d >= 1 => (SourcesOf(c, n, d) = {} <=> C < d)
    BY <1>1, SomeSource
  <2>3. ASSUME NEW d \in Int PROVE (A + 1 <= d /\ d <= B /\ C < d) <=> (L <= d /\ d <= B)
    BY <1>2, <1>3 DEF Larger
  <2>4. \A d \in Met(w, j) : d \in Nat /\ d >= 1
    BY <1>2, <2>1
  <2> QED BY <1>4, <2>1, <2>2, <2>3, <2>4
<1>6. Cardinality(L .. B) = IF L > B THEN 0 ELSE B - L + 1
  BY <1>4, IntervalSize
<1>7. Missing(w, c, j, n + 1) = Over(B, A, C)
  BY <1>1 DEF Missing
<1>8. Over(B, A, C) = IF L > B THEN 0 ELSE B - L + 1
  BY <1>2, <1>3 DEF Over, Positive, Larger
<1> QED BY <1>5, <1>6, <1>7, <1>8 DEF Unserved

-----------------------------------------------------------------------------
(* What came in is what was taken and what is left, layer by layer and in value.*)

TakenValue(w, c, rate, j, n) == [i \in 0 .. n |-> TakenFrom(w, c, j, i) * rate[i]]

\* what the queue of an account computes
Queue(n, in, out, c, w, rate, last, egp, unpriced, left) ==
    /\ n \in Nat /\ Cumulative(c, in, n) /\ Cumulative(w, out, n)
    /\ (\A i \in 0 .. n : rate[i] \in Int) /\ last \in Int
    /\ \A j \in 0 .. n : egp[j] = TotalOf(TakenValue(w, c, rate, j, n), 0 .. n)
    /\ \A j \in 0 .. n : unpriced[j] = Missing(w, c, j, n + 1)
    /\ \A i \in 0 .. n : left[i] = Left(w, c, n + 1, i)

\* What is left of the layers less what found none is what came in less what went out.
LEMMA LeftOver ==
  ASSUME NEW n, NEW in, NEW out, NEW c, NEW w, NEW rate, NEW last, NEW egp, NEW unpriced, NEW left,
         Queue(n, in, out, c, w, rate, last, egp, unpriced, left)
  PROVE  TotalOf(left, 0 .. n) - TotalOf(unpriced, 0 .. n) = c[n + 1] - w[n + 1]
<1>1. n \in Nat /\ Cumulative(c, in, n) /\ Cumulative(w, out, n)
  BY DEF Queue
<1>2. /\ \A k \in 0 .. n + 1 : c[k] \in Nat /\ w[k] \in Nat
      /\ \A k \in 0 .. n : c[k] <= c[k + 1] /\ w[k] <= w[k + 1]
      /\ c[0] = 0 /\ w[0] = 0
  <2>1. /\ \A k \in 0 .. n + 1 : c[k] \in Nat /\ w[k] \in Nat
        /\ c[0] = 0 /\ w[0] = 0
    BY <1>1 DEF Cumulative
  <2>2. ASSUME NEW k \in 0 .. n PROVE c[k] <= c[k + 1] /\ w[k] <= w[k + 1]
    <3>1. k \in 0 .. n + 1 /\ k + 1 \in 0 .. n + 1 /\ k + 1 \in k .. n + 1
      BY <1>1
    <3>2. c[k] <= c[k + 1]
      BY <1>1, <3>1, CumulativeGrows
    <3>3. w[k] <= w[k + 1]
      BY <1>1, <3>1, CumulativeGrows
    <3> QED BY <3>2, <3>3
  <2> QED BY <2>1, <2>2
<1>3. PICK CC, WW : CC = c[n + 1] /\ WW = w[n + 1]
  OBVIOUS
<1>4. CC \in Nat /\ WW \in Nat
  BY <1>1, <1>2, <1>3
<1>5. PICK r, u : r = [k \in 0 .. n + 1 |-> Larger(c[k], WW)] /\ u = [k \in 0 .. n + 1 |-> Larger(w[k], CC)]
  OBVIOUS
<1>6. TotalOf(left, 0 .. n) = r[n + 1] - r[0]
  <2>1. \A k \in 0 .. n + 1 : r[k] \in Int
    BY <1>2, <1>4, <1>5 DEF Larger
  <2>2. ASSUME NEW k \in 0 .. n PROVE left[k] = r[k + 1] - r[k]
    <3>1. k \in 0 .. n + 1 /\ k + 1 \in 0 .. n + 1
      BY <1>1
    <3>2. PICK x, y : x = c[k] /\ y = c[k + 1]
      OBVIOUS
    <3>3. x \in Nat /\ y \in Nat /\ x <= y
      BY <1>2, <3>1, <3>2
    <3>4. left[k] = Over(y, x, WW)
      BY <1>3, <3>2 DEF Queue, Left
    <3>5. r[k + 1] = Larger(y, WW) /\ r[k] = Larger(x, WW)
      BY <1>5, <3>1, <3>2
    <3>6. Over(y, x, WW) = Larger(y, WW) - Larger(x, WW)
      BY <1>4, <3>3 DEF Over, Larger, Positive
    <3> QED BY <3>4, <3>5, <3>6
  <2> QED BY <1>1, <2>1, <2>2, Telescopes
<1>7. TotalOf(unpriced, 0 .. n) = u[n + 1] - u[0]
  <2>1. \A k \in 0 .. n + 1 : u[k] \in Int
    BY <1>2, <1>4, <1>5 DEF Larger
  <2>2. ASSUME NEW k \in 0 .. n PROVE unpriced[k] = u[k + 1] - u[k]
    <3>1. k \in 0 .. n + 1 /\ k + 1 \in 0 .. n + 1
      BY <1>1
    <3>2. PICK x, y : x = w[k] /\ y = w[k + 1]
      OBVIOUS
    <3>3. x \in Nat /\ y \in Nat /\ x <= y
      BY <1>2, <3>1, <3>2
    <3>4. unpriced[k] = Over(y, x, CC)
      BY <1>3, <3>2 DEF Queue, Missing
    <3>5. u[k + 1] = Larger(y, CC) /\ u[k] = Larger(x, CC)
      BY <1>5, <3>1, <3>2
    <3>6. Over(y, x, CC) = Larger(y, CC) - Larger(x, CC)
      BY <1>4, <3>3 DEF Over, Larger, Positive
    <3> QED BY <3>4, <3>5, <3>6
  <2> QED BY <1>1, <2>1, <2>2, Telescopes
<1>8. r[n + 1] = Larger(CC, WW) /\ r[0] = WW /\ u[n + 1] = Larger(WW, CC) /\ u[0] = CC
  <2>1. n + 1 \in 0 .. n + 1 /\ 0 \in 0 .. n + 1
    BY <1>1
  <2>2. r[0] = Larger(0, WW) /\ u[0] = Larger(0, CC)
    BY <1>2, <1>5, <2>1
  <2> QED BY <1>3, <1>4, <1>5, <2>1, <2>2 DEF Larger
<1> QED BY <1>3, <1>4, <1>6, <1>7, <1>8 DEF Larger

\* What is left is worth what came in less what the demands took.
LEMMA ValueLeft ==
  ASSUME NEW n, NEW in, NEW out, NEW c, NEW w, NEW rate, NEW last, NEW egp, NEW unpriced, NEW left,
         Queue(n, in, out, c, w, rate, last, egp, unpriced, left),
         NEW vin, NEW vleft, \A i \in 0 .. n : vin[i] = in[i] * rate[i] /\ vleft[i] = left[i] * rate[i]
  PROVE  TotalOf(egp, 0 .. n) = TotalOf(vin, 0 .. n) - TotalOf(vleft, 0 .. n)
<1>1. /\ n \in Nat /\ Cumulative(c, in, n) /\ Cumulative(w, out, n) /\ \A i \in 0 .. n : rate[i] \in Int
      /\ \A j \in 0 .. n : egp[j] = TotalOf(TakenValue(w, c, rate, j, n), 0 .. n)
      /\ \A i \in 0 .. n : left[i] = Left(w, c, n + 1, i)
  BY DEF Queue
<1>2. \A j, i \in 0 .. n : PouredAt(w, c, in, out, j, i)
  BY <1>1, PourAt
<1>3. PICK P : P = 0 .. n
  OBVIOUS
<1>4. IsFiniteSet(P)
  BY <1>1, <1>3, IntervalSize
<1>5. PICK v : v = [j \in 0 .. n + 1 |-> [i \in P |-> Left(w, c, j, i) * rate[i]]]
  OBVIOUS
<1>6. \A j \in 0 .. n + 1, i \in P : v[j][i] = Left(w, c, j, i) * rate[i] /\ v[j][i] \in Int /\ Left(w, c, j, i) \in Int
  <2> SUFFICES ASSUME NEW j \in 0 .. n + 1, NEW i \in P
               PROVE v[j][i] = Left(w, c, j, i) * rate[i] /\ v[j][i] \in Int /\ Left(w, c, j, i) \in Int
    OBVIOUS
  <2>1. v[j][i] = Left(w, c, j, i) * rate[i]
    BY <1>5
  <2>2. i \in 0 .. n + 1 /\ i + 1 \in 0 .. n + 1 /\ i \in 0 .. n
    BY <1>1, <1>3
  <2>3. w[j] \in Nat /\ c[i] \in Nat /\ c[i + 1] \in Nat
    BY <1>1, <2>2 DEF Cumulative
  <2>4. PICK a, b : a = Left(w, c, j, i) /\ b = rate[i]
    OBVIOUS
  <2>5. a \in Int
    BY <2>3, <2>4 DEF Left, Over, Larger, Positive
  <2>6. b \in Int
    BY <1>1, <2>2, <2>4
  <2>7. a * b \in Int
    BY <2>5, <2>6
  <2> QED BY <2>1, <2>4, <2>5, <2>7
<1>7. PICK r : r = [j \in 0 .. n + 1 |-> -TotalOf(v[j], P)]
  OBVIOUS
<1>8. \A j \in 0 .. n + 1 : TotalOf(v[j], P) \in Int /\ r[j] = -TotalOf(v[j], P) /\ r[j] \in Int
  <2> SUFFICES ASSUME NEW j \in 0 .. n + 1 PROVE TotalOf(v[j], P) \in Int /\ r[j] = -TotalOf(v[j], P) /\ r[j] \in Int
    OBVIOUS
  <2>1. PICK e : e = v[j]
    OBVIOUS
  <2>2. TotalOf(e, P) \in Int
    BY <1>4, <1>6, <2>1, SumInt
  <2> QED BY <1>7, <2>1, <2>2
<1>9. ASSUME NEW j \in 0 .. n PROVE egp[j] = r[j + 1] - r[j]
  <2>1. j \in 0 .. n + 1 /\ j + 1 \in 0 .. n + 1
    BY <1>1
  <2>2. PICK e, f, t : e = v[j + 1] /\ f = v[j] /\ t = TakenValue(w, c, rate, j, n)
    OBVIOUS
  <2>3. ASSUME NEW i \in P PROVE e[i] \in Int /\ t[i] \in Int /\ f[i] = e[i] + t[i]
    <3>0. i \in 0 .. n
      BY <1>3
    <3>1. PICK a, b, d, q : a = Left(w, c, j, i) /\ b = Left(w, c, j + 1, i) /\ d = TakenFrom(w, c, j, i) /\ q = rate[i]
      OBVIOUS
    <3>2. a \in Int /\ b \in Int /\ q \in Int
      BY <1>1, <1>6, <2>1, <3>0, <3>1
    <3>3. d = a - b
      BY <1>2, <3>0, <3>1 DEF PouredAt, TakenFrom
    <3>4. f[i] = a * q /\ e[i] = b * q /\ t[i] = d * q
      BY <1>6, <2>1, <2>2, <3>0, <3>1 DEF TakenValue
    <3>5. q * (b + d) = q * b + q * d
      BY <3>2, <3>3, Distributes
    <3>6. b + d = a /\ d \in Int
      BY <3>2, <3>3
    <3>7. a * q = q * a /\ b * q = q * b /\ d * q = q * d /\ b * q \in Int /\ d * q \in Int
      BY <3>2, <3>6
    <3> QED BY <3>4, <3>5, <3>6, <3>7
  <2>4. TotalOf(f, P) = TotalOf(e, P) + TotalOf(t, P)
    BY <1>4, <2>3, SumPlus
  <2>5. egp[j] = TotalOf(t, P) /\ TotalOf(t, P) \in Int
    <3>1. TotalOf(t, P) \in Int
      BY <1>4, <2>3, SumInt
    <3> QED BY <1>1, <1>3, <2>2, <3>1
  <2>6. r[j + 1] = -TotalOf(e, P) /\ r[j] = -TotalOf(f, P) /\ TotalOf(e, P) \in Int /\ TotalOf(f, P) \in Int
    BY <1>8, <2>1, <2>2
  <2> QED BY <2>4, <2>5, <2>6
<1>10. TotalOf(egp, 0 .. n) = r[n + 1] - r[0]
  BY <1>1, <1>8, <1>9, Telescopes
<1>11. r[n + 1] = -TotalOf(vleft, P)
  <2>1. n + 1 \in 0 .. n + 1
    BY <1>1
  <2>2. PICK e : e = v[n + 1]
    OBVIOUS
  <2>3. \A i \in P : e[i] = vleft[i]
    BY <1>1, <1>3, <1>6, <2>1, <2>2
  <2>4. TotalOf(e, P) = TotalOf(vleft, P)
    BY <1>4, <2>3, SumSame
  <2> QED BY <1>8, <2>1, <2>2, <2>4
<1>12. r[0] = -TotalOf(vin, P)
  <2>1. 0 \in 0 .. n + 1 /\ 0 \in 0 .. n
    BY <1>1
  <2>2. PICK e : e = v[0]
    OBVIOUS
  <2>3. ASSUME NEW i \in P PROVE e[i] = vin[i]
    <3>1. i \in 0 .. n
      BY <1>3
    <3>2. Left(w, c, 0, i) = in[i]
      BY <1>2, <2>1, <3>1 DEF PouredAt
    <3> QED BY <1>6, <2>1, <2>2, <3>1, <3>2
  <2>4. TotalOf(e, P) = TotalOf(vin, P)
    BY <1>4, <2>3, SumSame
  <2> QED BY <1>8, <2>1, <2>2, <2>4
<1>13. TotalOf(vleft, P) \in Int /\ TotalOf(vin, P) \in Int
  <2>1. ASSUME NEW i \in P PROVE vleft[i] \in Int /\ vin[i] \in Int
    <3>1. i \in 0 .. n
      BY <1>3
    <3>2. PICK a, b, q : a = left[i] /\ b = in[i] /\ q = rate[i]
      OBVIOUS
    <3>3. n + 1 \in 0 .. n + 1
      BY <1>1
    <3>4. a \in Int
      BY <1>1, <1>3, <1>6, <3>1, <3>2, <3>3
    <3>5. b \in Int /\ q \in Int
      BY <1>1, <3>1, <3>2 DEF Cumulative
    <3>6. a * q \in Int /\ b * q \in Int
      BY <3>4, <3>5
    <3> QED BY <3>1, <3>2, <3>6
  <2> QED BY <1>4, <2>1, SumInt
<1> QED BY <1>3, <1>10, <1>11, <1>12, <1>13

\* Who owes nothing takes nothing.
LEMMA NothingDue ==
  ASSUME NEW n, NEW in, NEW out, NEW c, NEW w, NEW rate, NEW last, NEW egp, NEW unpriced, NEW left,
         Queue(n, in, out, c, w, rate, last, egp, unpriced, left), NEW j \in 0 .. n, out[j] = 0
  PROVE  egp[j] = 0 /\ unpriced[j] = 0
<1>1. /\ n \in Nat /\ Cumulative(c, in, n) /\ Cumulative(w, out, n) /\ \A i \in 0 .. n : rate[i] \in Int
      /\ egp[j] = TotalOf(TakenValue(w, c, rate, j, n), 0 .. n)
      /\ unpriced[j] = Missing(w, c, j, n + 1)
  BY DEF Queue
<1>2. \A i \in 0 .. n + 1 : Missing(w, c, j, i) = 0
  <2> SUFFICES ASSUME NEW i \in 0 .. n + 1 PROVE Missing(w, c, j, i) = 0
    OBVIOUS
  <2>1. PICK a, b, x : a = w[j] /\ b = w[j + 1] /\ x = c[i]
    OBVIOUS
  <2>2. a \in Nat /\ x \in Nat /\ b = a
    <3>1. j \in 0 .. n + 1
      BY <1>1
    <3> QED BY <1>1, <2>1, <3>1 DEF Cumulative
  <2> QED BY <2>1, <2>2 DEF Missing, Over, Larger, Positive
<1>3. unpriced[j] = 0
  BY <1>1, <1>2
<1>4. PICK t, P : t = TakenValue(w, c, rate, j, n) /\ P = 0 .. n
  OBVIOUS
<1>5. ASSUME NEW i \in P PROVE t[i] = 0
  <2>1. i \in 0 .. n /\ i \in 0 .. n + 1 /\ i + 1 \in 0 .. n + 1
    BY <1>1, <1>4
  <2>2. TakenFrom(w, c, j, i) = 0
    BY <1>2, <2>1 DEF TakenFrom
  <2>3. t[i] = 0 * rate[i] /\ rate[i] \in Int
    BY <1>1, <1>4, <2>1, <2>2 DEF TakenValue
  <2> QED BY <2>3
<1>6. IsFiniteSet(P)
  BY <1>1, <1>4, IntervalSize
<1>7. TotalOf(t, P) = 0
  BY <1>5, <1>6, SumZero
<1> QED BY <1>1, <1>3, <1>4, <1>7

-----------------------------------------------------------------------------
(* In pounds: the rows of the statement add up to what is left in the layers.*)

\* The statement in pounds ends with the balance in pounds.
LEMMA InPounds ==
  ASSUME NEW n, NEW in, NEW out, NEW c, NEW w, NEW rate, NEW last, NEW egp, NEW unpriced, NEW left,
         Queue(n, in, out, c, w, rate, last, egp, unpriced, left),
         out[0] = 0, \A k \in 1 .. n : out[k] = 0 \/ in[k] = 0,
         NEW s, \A k \in 1 .. n : s[k] = IF out[k] > 0 THEN -(egp[k] + unpriced[k] * last) ELSE in[k] * rate[k],
         NEW vleft, \A i \in 0 .. n : vleft[i] = left[i] * rate[i]
  PROVE  /\ in[0] * rate[0] + TotalOf(s, 1 .. n) = TotalOf(vleft, 0 .. n) - TotalOf(unpriced, 0 .. n) * last
         /\ (\A k \in 1 .. n : s[k] \in Int) /\ in[0] * rate[0] \in Int
<1>1. /\ n \in Nat /\ Cumulative(c, in, n) /\ Cumulative(w, out, n) /\ (\A i \in 0 .. n : rate[i] \in Int)
      /\ last \in Int
  BY DEF Queue
<1>2. PICK P, Q : P = 0 .. n /\ Q = 1 .. n
  OBVIOUS
<1>3. IsFiniteSet(P) /\ P = Q \cup {0} /\ 0 \notin Q /\ (\A k \in P : k \in 0 .. n) /\ \A k \in Q : k \in 1 .. n /\ k \in P
  <2>1. IsFiniteSet(0 .. n)
    BY <1>1, IntervalSize
  <2>2. 0 .. n = (1 .. n) \cup {0}
    BY <1>1
  <2> QED BY <1>1, <1>2, <2>1, <2>2
<1>4. PICK vin : vin = [i \in P |-> in[i] * rate[i]]
  OBVIOUS
<1>5. TotalOf(egp, P) = TotalOf(vin, P) - TotalOf(vleft, P)
  <2>1. \A i \in 0 .. n : vin[i] = in[i] * rate[i] /\ vleft[i] = left[i] * rate[i]
    BY <1>2, <1>4
  <2> QED BY <1>2, <2>1, ValueLeft
<1>6. \A k \in P : in[k] \in Nat /\ out[k] \in Nat /\ rate[k] \in Int /\ vin[k] \in Int
  <2> SUFFICES ASSUME NEW k \in P PROVE in[k] \in Nat /\ out[k] \in Nat /\ rate[k] \in Int /\ vin[k] \in Int
    OBVIOUS
  <2>1. k \in 0 .. n
    BY <1>3
  <2>2. in[k] \in Nat /\ out[k] \in Nat /\ rate[k] \in Int
    BY <1>1, <2>1 DEF Cumulative
  <2>3. PICK a, b : a = in[k] /\ b = rate[k]
    OBVIOUS
  <2>4. a * b \in Int
    BY <2>2, <2>3
  <2> QED BY <1>4, <2>2, <2>3, <2>4
<1>7. \A k \in P : unpriced[k] \in Int
  <2> SUFFICES ASSUME NEW k \in P PROVE unpriced[k] \in Int
    OBVIOUS
  <2>1. k \in 0 .. n /\ k \in 0 .. n + 1 /\ k + 1 \in 0 .. n + 1 /\ n + 1 \in 0 .. n + 1
    BY <1>1, <1>3
  <2>2. w[k] \in Nat /\ w[k + 1] \in Nat /\ c[n + 1] \in Nat
    BY <1>1, <2>1 DEF Cumulative
  <2>3. unpriced[k] = Missing(w, c, k, n + 1)
    BY <2>1 DEF Queue
  <2> QED BY <2>2, <2>3 DEF Missing, Over, Larger, Positive
<1>8. \A k \in P : egp[k] \in Int
  <2> SUFFICES ASSUME NEW k \in P PROVE egp[k] \in Int
    OBVIOUS
  <2>1. k \in 0 .. n
    BY <1>3
  <2>2. PICK h : h = TakenValue(w, c, rate, k, n)
    OBVIOUS
  <2>3. \A i \in 0 .. n : h[i] = TakenFrom(w, c, k, i) * rate[i]
    BY <2>2 DEF TakenValue
  <2>4. TotalOf(h, 0 .. n) \in Int
    BY <1>1, <2>1, <2>3, DemandPriced
  <2>5. egp[k] = TotalOf(h, 0 .. n)
    BY <2>1, <2>2 DEF Queue
  <2> QED BY <2>4, <2>5
<1>9. PICK ul, priced, t : /\ ul = [k \in P |-> last * unpriced[k]] /\ priced = [k \in P |-> egp[k] + ul[k]]
                         /\ t = [k \in P |-> vin[k] - priced[k]]
  OBVIOUS
<1>10. \A k \in P : ul[k] = last * unpriced[k] /\ ul[k] \in Int /\ priced[k] = egp[k] + ul[k] /\ priced[k] \in Int
                    /\ t[k] = vin[k] - priced[k] /\ t[k] \in Int
  <2> SUFFICES ASSUME NEW k \in P
               PROVE ul[k] = last * unpriced[k] /\ ul[k] \in Int /\ priced[k] = egp[k] + ul[k] /\ priced[k] \in Int
                     /\ t[k] = vin[k] - priced[k] /\ t[k] \in Int
    OBVIOUS
  <2>1. ul[k] = last * unpriced[k] /\ priced[k] = egp[k] + ul[k] /\ t[k] = vin[k] - priced[k]
    BY <1>9
  <2>2. PICK a : a = unpriced[k]
    OBVIOUS
  <2>3. last * a \in Int
    BY <1>1, <1>7, <2>2
  <2>4. egp[k] \in Int /\ vin[k] \in Int /\ ul[k] \in Int
    BY <1>6, <1>8, <2>1, <2>2, <2>3
  <2> QED BY <2>1, <2>4
<1>11. TotalOf(ul, P) = last * TotalOf(unpriced, P) /\ TotalOf(unpriced, P) \in Int
  <2>1. \A k \in P : unpriced[k] \in Int /\ ul[k] = last * unpriced[k]
    BY <1>7, <1>10
  <2>2. TotalOf(ul, P) = last * TotalOf(unpriced, P)
    BY <1>1, <1>3, <2>1, SumTimes
  <2>3. TotalOf(unpriced, P) \in Int
    BY <1>3, <1>7, SumInt
  <2> QED BY <2>2, <2>3
<1>12. TotalOf(priced, P) = TotalOf(egp, P) + TotalOf(ul, P)
  <2>1. \A k \in P : egp[k] \in Int /\ ul[k] \in Int /\ priced[k] = egp[k] + ul[k]
    BY <1>8, <1>10
  <2> QED BY <1>3, <2>1, SumPlus
<1>13. TotalOf(vin, P) = TotalOf(t, P) + TotalOf(priced, P)
  <2>1. \A k \in P : t[k] \in Int /\ priced[k] \in Int /\ vin[k] = t[k] + priced[k]
    BY <1>6, <1>10
  <2> QED BY <1>3, <2>1, SumPlus
<1>14. TotalOf(t, P) = t[0] + TotalOf(t, Q) /\ TotalOf(t, Q) \in Int
  <2>1. \A k \in P : t[k] \in Int
    BY <1>10
  <2> QED BY <1>3, <2>1, SumOneMore
<1>15. t[0] = in[0] * rate[0] /\ in[0] * rate[0] \in Int
  <2>1. 0 \in 0 .. n /\ 0 \in P
    BY <1>1, <1>3
  <2>2. egp[0] = 0 /\ unpriced[0] = 0
    BY <2>1, NothingDue
  <2>3. priced[0] = 0 /\ t[0] = vin[0] - priced[0] /\ vin[0] = in[0] * rate[0] /\ vin[0] \in Int
    <3>1. last * 0 = 0
      BY <1>1
    <3>2. ul[0] = 0
      BY <1>10, <2>1, <2>2, <3>1
    <3>3. priced[0] = 0 /\ t[0] = vin[0] - priced[0]
      BY <1>10, <2>1, <2>2, <3>2
    <3>4. vin[0] = in[0] * rate[0] /\ vin[0] \in Int
      BY <1>4, <1>6, <2>1
    <3> QED BY <3>3, <3>4
  <2> QED BY <2>3
<1>16. \A k \in Q : s[k] = t[k] /\ s[k] \in Int
  <2> SUFFICES ASSUME NEW k \in Q PROVE s[k] = t[k] /\ s[k] \in Int
    OBVIOUS
  <2>1. k \in 1 .. n /\ k \in 0 .. n /\ k \in P
    BY <1>2, <1>3
  <2>2. PICK a, x, v, q : a = egp[k] /\ x = last * unpriced[k] /\ v = in[k] * rate[k] /\ q = unpriced[k] * last
    OBVIOUS
  <2>3. t[k] = v - (a + x) /\ t[k] \in Int /\ v \in Int /\ a \in Int /\ x \in Int
    BY <1>4, <1>6, <1>8, <1>10, <2>1, <2>2
  <2>4. q = x
    <3>1. PICK z : z = unpriced[k]
      OBVIOUS
    <3>2. z \in Int /\ last \in Int
      BY <1>1, <1>7, <2>1, <3>1
    <3>3. z * last = last * z
      BY <3>2
    <3> QED BY <2>2, <3>1, <3>3
  <2>5. s[k] = IF out[k] > 0 THEN -(a + q) ELSE v
    BY <2>1, <2>2
  <2>6. CASE out[k] > 0
    <3>1. in[k] = 0
      BY <2>1, <2>6
    <3>2. v = 0
      BY <1>6, <2>1, <2>2, <3>1
    <3> QED BY <2>3, <2>4, <2>5, <2>6, <3>2
  <2>7. CASE ~(out[k] > 0)
    <3>1. out[k] = 0
      BY <1>6, <2>1, <2>7
    <3>2. egp[k] = 0 /\ unpriced[k] = 0
      BY <2>1, <3>1, NothingDue
    <3>3. a = 0 /\ x = 0
      BY <1>1, <2>2, <3>2
    <3> QED BY <2>3, <2>5, <2>7, <3>3
  <2> QED BY <2>6, <2>7
<1>17. TotalOf(s, Q) = TotalOf(t, Q)
  <2>1. IsFiniteSet(Q)
    BY <1>1, <1>2, IntervalSize
  <2> QED BY <1>16, <2>1, SumSame
<1>18. TotalOf(vin, P) \in Int /\ TotalOf(vleft, P) \in Int /\ TotalOf(egp, P) \in Int
  <2>1. TotalOf(vin, P) \in Int /\ TotalOf(egp, P) \in Int
    BY <1>3, <1>6, <1>8, SumInt
  <2>2. \A k \in P : vleft[k] \in Int
    <3> SUFFICES ASSUME NEW k \in P PROVE vleft[k] \in Int
      OBVIOUS
    <3>1. k \in 0 .. n /\ k \in 0 .. n + 1 /\ k + 1 \in 0 .. n + 1 /\ n + 1 \in 0 .. n + 1
      BY <1>1, <1>3
    <3>2. PICK a, b : a = left[k] /\ b = rate[k]
      OBVIOUS
    <3>3. a = Left(w, c, n + 1, k)
      BY <3>1, <3>2 DEF Queue
    <3>4. w[n + 1] \in Nat /\ c[k] \in Nat /\ c[k + 1] \in Nat
      BY <1>1, <3>1 DEF Cumulative
    <3>5. a \in Int
      BY <3>3, <3>4 DEF Left, Over, Larger, Positive
    <3>6. a * b \in Int
      BY <1>6, <3>2, <3>5
    <3> QED BY <3>1, <3>2, <3>6
  <2>3. TotalOf(vleft, P) \in Int
    BY <1>3, <2>2, SumInt
  <2> QED BY <2>1, <2>3
<1>19. PICK A, B, C, D, E, F, U : /\ A = TotalOf(vin, P) /\ B = TotalOf(vleft, P) /\ C = TotalOf(egp, P)
                                  /\ D = TotalOf(priced, P) /\ E = TotalOf(t, P) /\ F = TotalOf(t, Q) /\ U = TotalOf(unpriced, P)
  OBVIOUS
<1>20. PICK x : x = last * U
  OBVIOUS
<1>21. x \in Int /\ U * last = x
  <2>1. U \in Int
    BY <1>11, <1>19
  <2> QED BY <1>1, <1>20, <2>1
<1>22. PICK y : y = in[0] * rate[0]
  OBVIOUS
<1>23. C = A - B /\ D = C + x /\ A = E + D /\ E = y + F
  BY <1>5, <1>11, <1>12, <1>13, <1>14, <1>15, <1>19, <1>20, <1>22
<1>24. A \in Int /\ B \in Int /\ C \in Int /\ F \in Int /\ y \in Int
  BY <1>14, <1>15, <1>18, <1>19, <1>22
<1>25. y + F = B - x
  <2>1. D \in Int
    BY <1>21, <1>23, <1>24
  <2>2. E \in Int
    BY <1>23, <1>24
  <2> QED BY <1>21, <1>23, <1>24, <2>1, <2>2
<1>26. TotalOf(s, 1 .. n) = F /\ TotalOf(vleft, 0 .. n) = B /\ TotalOf(unpriced, 0 .. n) = U
  BY <1>2, <1>17, <1>19
<1> QED BY <1>2, <1>15, <1>16, <1>21, <1>22, <1>25, <1>26

-----------------------------------------------------------------------------
(* The columns of computeUsdFifo.                                          *)

-----------------------------------------------------------------------------
(* The account of a party in dollars.                                      *)

\* The greatest of a set is of the set.
LEMMA MaxIn ==
  ASSUME NEW n \in Nat, NEW S, S \subseteq 1 .. n, S # {}
  PROVE  Max(S) \in S
<1> DEFINE T == {n - s : s \in S}
<1>1. PICK t \in T : \A y \in T : t <= y
  <2>1. T \subseteq Nat /\ T # {}
    <3>1. PICK s : s \in S
      OBVIOUS
    <3>2. n - s \in T
      BY <3>1
    <3>3. \A s1 \in S : n - s1 \in Nat
      OBVIOUS
    <3> QED BY <3>2, <3>3
  <2> QED BY <2>1, LeastOf
<1>2. PICK x \in S : t = n - x
  BY <1>1
<1>3. \A y \in S : x >= y
  <2> SUFFICES ASSUME NEW y \in S PROVE x >= y
    OBVIOUS
  <2>1. n - y \in T
    OBVIOUS
  <2>2. n - x <= n - y
    BY <1>1, <1>2, <2>1
  <2> QED BY <1>2, <2>2
<1>4. \E z \in S : \A y \in S : z >= y
  BY <1>3
<1> QED BY <1>4 DEF Max

\* ByDate gives a sequence of rows.
LEMMA OrderOf ==
  ASSUME StatementIInv, NEW S \in SUBSET (DOMAIN book)
  PROVE  \E n : InDates(ByDate(S), S, n) /\ n \in Nat /\ DOMAIN ByDate(S) = 1 .. n /\ Len(ByDate(S)) = n
                /\ \A k \in 1 .. n : ByDate(S)[k] \in S /\ ByDate(S)[k] \in DOMAIN book
<1>1. PICK o, n : o = ByDate(S) /\ n = Cardinality(S)
  OBVIOUS
<1>2. InDates(o, S, n)
  BY <1>1, ByDateIs
<1>3. n \in Nat /\ DOMAIN o = 1 .. n /\ Len(o) = n /\ \A k \in 1 .. n : o[k] \in S /\ o[k] \in DOMAIN book
  BY <1>2 DEF InDates
<1> QED BY <1>1, <1>2, <1>3

\* Rates of the agent are numbers.
LEMMA AgentRatesAre ==
  ASSUME StatementIInv
  PROVE  EarliestRate \in Int /\ LatestRate \in Int /\ \A d : RateAtDate(d) \in Int
<1>1. PICK S : S = {n \in DOMAIN book : book[n].agent > 0}
  OBVIOUS
<1>2. PICK rows : rows = AgentRows
  OBVIOUS
<1>3. rows = ByDate(S) /\ S \in SUBSET (DOMAIN book)
  BY <1>1, <1>2 DEF AgentRows
<1>4. PICK n : n \in Nat /\ DOMAIN rows = 1 .. n /\ Len(rows) = n /\ \A k \in 1 .. n : rows[k] \in DOMAIN book
  BY <1>3, OrderOf
<1>5. \A k \in 1 .. n : book[rows[k]].agent \in Int
  BY <1>4, RowIs
<1>6. rows # <<>> => n >= 1
  <2>1. ASSUME n = 0 PROVE rows = <<>>
    <3>1. InDates(rows, S, Cardinality(S))
      BY <1>3, ByDateIs
    <3>2. rows = [k \in 1 .. Cardinality(S) |-> rows[k]] /\ Cardinality(S) \in Nat
      BY <3>1 DEF InDates
    <3>3. Cardinality(S) = 0
      BY <1>4, <2>1, <3>2
    <3> QED BY <3>2, <3>3
  <2> QED BY <1>4, <2>1
<1>7. EarliestRate \in Int
  <2>1. EarliestRate = IF rows = <<>> THEN 0 ELSE book[rows[1]].agent
    BY <1>2 DEF EarliestRate
  <2>2. rows # <<>> => 1 \in 1 .. n
    BY <1>4, <1>6
  <2> QED BY <1>5, <2>1, <2>2
<1>8. LatestRate \in Int
  <2>1. LatestRate = IF rows = <<>> THEN 0 ELSE book[rows[n]].agent
    BY <1>2, <1>4 DEF LatestRate
  <2>2. rows # <<>> => n \in 1 .. n
    BY <1>4, <1>6
  <2> QED BY <1>5, <2>1, <2>2
<1>9. ASSUME NEW d PROVE RateAtDate(d) \in Int
  <2>1. PICK B : B = {k \in DOMAIN rows : book[rows[k]].date <= d}
    OBVIOUS
  <2>2. RateAtDate(d) = IF B = {} THEN EarliestRate ELSE book[rows[Max(B)]].agent
    BY <1>2, <2>1 DEF RateAtDate
  <2>3. B # {} => Max(B) \in 1 .. n
    <3>1. B \subseteq 1 .. n
      BY <1>4, <2>1
    <3> QED BY <1>4, <3>1, MaxIn
  <2> QED BY <1>5, <1>7, <2>2, <2>3
<1> QED BY <1>7, <1>8, <1>9

\* The rate of a row is a number.
LEMMA DebitRateIs ==
  ASSUME StatementIInv, NEW r \in DOMAIN book
  PROVE  DebitRate(book[r]) \in Int
<1>1. PICK t : t = book[r]
  OBVIOUS
<1>2. t.agent \in Nat /\ t.stamp \in Nat /\ t.cashOut \in Nat /\ t.debit \in Nat
  BY <1>1, RowIs
<1>3. ASSUME t.debit > 0 PROVE t.cashOut \div t.debit \in Int
  BY <1>2, <1>3
<1> QED BY <1>1, <1>2, <1>3 DEF DebitRate

\* The last rate is a number.
LEMMA LastRateIs ==
  ASSUME StatementIInv, NEW n \in Nat, NEW rows, DOMAIN rows = 1 .. n, \A k \in 1 .. n : rows[k] \in DOMAIN book
  PROVE  LastRateOf(rows) \in Int
<1>1. PICK T : T = {k \in DOMAIN rows : book[rows[k]].debit > 0 /\ DebitRate(book[rows[k]]) > 0}
  OBVIOUS
<1>2. LastRateOf(rows) = IF T = {} THEN LatestRate ELSE DebitRate(book[rows[Max(T)]])
  BY <1>1 DEF LastRateOf
<1>3. T # {} => Max(T) \in 1 .. n
  <2>1. T \subseteq 1 .. n
    BY <1>1
  <2> QED BY <2>1, MaxIn
<1>4. T # {} => DebitRate(book[rows[Max(T)]]) \in Int
  <2> SUFFICES ASSUME T # {} PROVE DebitRate(book[rows[Max(T)]]) \in Int
    OBVIOUS
  <2>1. PICK r : r = rows[Max(T)]
    OBVIOUS
  <2>2. r \in DOMAIN book
    BY <1>3, <2>1
  <2> QED BY <2>1, <2>2, DebitRateIs
<1> QED BY <1>2, <1>4, AgentRatesAre

\* One of two numbers is a number.
LEMMA OrIs ==
  ASSUME NEW a \in Int, NEW b \in Int
  PROVE  Or(a, b) \in Int
BY DEF Or

\* The columns of the queue.
Brought(p, rows, n) == [k \in 0 .. n |-> IF k = 0 THEN Positive(opened[p]) ELSE book[rows[k]].debit]
TakenOut(p, rows, n) == [k \in 0 .. n |-> IF k = 0 THEN Positive(-opened[p]) ELSE book[rows[k]].credit]
RateOf(rows, n) ==
    [k \in 0 .. n |-> Or(IF k = 0 THEN EarliestRate
                         ELSE Or(DebitRate(book[rows[k]]), RateAtDate(book[rows[k]].date)), LastRateOf(rows))]
Before(out, gap, j, i) == IF i = 0 THEN out[j] ELSE Positive(gap[<<j, i - 1>>])

FifoColumns(f, p, rows, n, in, out, rate, last, gap) ==
    /\ f.rows = rows /\ f.last = last /\ f.in = in /\ f.out = out /\ f.rate = rate
    /\ f.left = [i \in 0 .. n |-> Positive(-gap[<<n, i>>])]
    /\ f.egp = [j \in 0 .. n |-> SumFunction([i \in 0 .. n |-> (Before(out, gap, j, i) - Positive(gap[<<j, i>>])) * rate[i]])]
    /\ f.unpriced = [j \in 0 .. n |-> Positive(gap[<<j, n>>])]
    /\ f.usd = opened[p] + NetOf(RowsOf({p}))
    /\ f.balance = SumFunction([i \in 0 .. n |-> f.left[i] * rate[i]]) - SumFunction(f.unpriced) * last

\* UsdFifo, column by column.
LEMMA ColumnsAre ==
  ASSUME NEW p, NEW rows, rows = ByDate(RowsOf({p})), NEW n, n = Len(rows)
  PROVE  FifoColumns(UsdFifo(p), p, rows, n, Brought(p, rows, n), TakenOut(p, rows, n), RateOf(rows, n), LastRateOf(rows),
                     Gaps(Brought(p, rows, n), TakenOut(p, rows, n)))
<1>1. PICK in, out, rate, last : /\ in = Brought(p, rows, n) /\ out = TakenOut(p, rows, n)
                                 /\ rate = RateOf(rows, n) /\ last = LastRateOf(rows)
  OBVIOUS
<1>2. PICK gap : gap = Gaps(in, out)
  OBVIOUS
<1>3. PICK left, egp, unpriced :
         /\ left = [i \in 0 .. n |-> Positive(-gap[<<n, i>>])]
         /\ egp = [j \in 0 .. n |-> SumFunction([i \in 0 .. n |-> (Before(out, gap, j, i) - Positive(gap[<<j, i>>])) * rate[i]])]
         /\ unpriced = [j \in 0 .. n |-> Positive(gap[<<j, n>>])]
  OBVIOUS
<1>4. UsdFifo(p) =
       [rows |-> rows, last |-> last, in |-> in, out |-> out, rate |-> rate, left |-> left,
        egp |-> egp, unpriced |-> unpriced, usd |-> opened[p] + NetOf(RowsOf({p})),
        balance |-> SumFunction([i \in 0 .. n |-> left[i] * rate[i]]) - SumFunction(unpriced) * last]
  BY <1>1, <1>2, <1>3 DEF UsdFifo, Brought, TakenOut, RateOf, Before
<1>5. PICK f : f = UsdFifo(p)
  OBVIOUS
<1>6. /\ f.rows = rows /\ f.last = last /\ f.in = in /\ f.out = out /\ f.rate = rate
      /\ f.left = left /\ f.egp = egp /\ f.unpriced = unpriced /\ f.usd = opened[p] + NetOf(RowsOf({p}))
      /\ f.balance = SumFunction([i \in 0 .. n |-> left[i] * rate[i]]) - SumFunction(unpriced) * last
  BY <1>4, <1>5
<1>7. FifoColumns(f, p, rows, n, in, out, rate, last, gap)
  BY <1>3, <1>6 DEF FifoColumns
<1> QED BY <1>1, <1>2, <1>5, <1>7

\* The queue of an account, with what came in and went out before each row.
LEMMA QueueIs ==
  ASSUME StatementIInv, NEW p \in Holders
  PROVE  LET f == UsdFifo(p)
             n == Len(f.rows)
         IN  Queue(n, f.in, f.out, Running(0, [k \in 1 .. n + 1 |-> f.in[k - 1]]), Running(0, [k \in 1 .. n + 1 |-> f.out[k - 1]]),
                   f.rate, f.last, f.egp, f.unpriced, f.left)
<1>1. PICK S, f, rows : S = RowsOf({p}) /\ f = UsdFifo(p) /\ rows = ByDate(S)
  OBVIOUS
<1>2. S \in SUBSET (DOMAIN book)
  BY <1>1 DEF RowsOf
<1>3. PICK n : n \in Nat /\ DOMAIN rows = 1 .. n /\ Len(rows) = n /\ \A k \in 1 .. n : rows[k] \in DOMAIN book
  BY <1>1, <1>2, OrderOf
<1>4. PICK in, out, rate, last, gap :
         /\ in = Brought(p, rows, n) /\ out = TakenOut(p, rows, n) /\ rate = RateOf(rows, n) /\ last = LastRateOf(rows)
         /\ gap = Gaps(in, out)
  OBVIOUS
<1>5. FifoColumns(f, p, rows, n, in, out, rate, last, gap)
  BY <1>1, <1>3, <1>4, ColumnsAre
<1>6. \A k \in 0 .. n : in[k] \in Nat /\ out[k] \in Nat
  <2> SUFFICES ASSUME NEW k \in 0 .. n PROVE in[k] \in Nat /\ out[k] \in Nat
    OBVIOUS
  <2>1. opened[p] \in Int
    BY StatementAssumption DEF StatementIInv
  <2>2. CASE k = 0
    BY <1>4, <2>1, <2>2 DEF Brought, TakenOut, Positive
  <2>3. CASE k # 0
    <3>1. k \in 1 .. n
      BY <2>3
    <3>2. book[rows[k]].debit \in Nat /\ book[rows[k]].credit \in Nat
      BY <1>3, <3>1, RowIs
    <3> QED BY <1>4, <2>3, <3>2 DEF Brought, TakenOut
  <2> QED BY <2>2, <2>3
<1>7. last \in Int
  BY <1>3, <1>4, LastRateIs
<1>8. \A k \in 0 .. n : rate[k] \in Int
  <2> SUFFICES ASSUME NEW k \in 0 .. n PROVE rate[k] \in Int
    OBVIOUS
  <2>1. PICK x : x = IF k = 0 THEN EarliestRate ELSE Or(DebitRate(book[rows[k]]), RateAtDate(book[rows[k]].date))
    OBVIOUS
  <2>2. x \in Int
    <3>1. CASE k = 0
      BY <2>1, <3>1, AgentRatesAre
    <3>2. CASE k # 0
      <4>1. k \in 1 .. n
        BY <3>2
      <4>2. PICK a, b : a = DebitRate(book[rows[k]]) /\ b = RateAtDate(book[rows[k]].date)
        OBVIOUS
      <4>3. a \in Int /\ b \in Int
        BY <1>3, <4>1, <4>2, DebitRateIs, AgentRatesAre
      <4>4. Or(a, b) \in Int
        BY <4>3, OrIs
      <4> QED BY <2>1, <3>2, <4>2, <4>4
    <3> QED BY <3>1, <3>2
  <2>3. rate[k] = Or(x, last)
    BY <1>4, <2>1 DEF RateOf
  <2> QED BY <1>7, <2>2, <2>3, OrIs
<1>9. PICK c, w : /\ c = Running(0, [k \in 1 .. n + 1 |-> in[k - 1]])
                  /\ w = Running(0, [k \in 1 .. n + 1 |-> out[k - 1]])
  OBVIOUS
<1>10. Cumulative(c, in, n) /\ Cumulative(w, out, n)
  BY <1>3, <1>6, <1>9, CumulativeIs
<1>11. \A j, i \in 0 .. n : gap[<<j, i>>] = Missing(w, c, j, i) - Left(w, c, j, i)
  <2>1. DOMAIN in = 0 .. n /\ DOMAIN out = 0 .. n
    BY <1>4 DEF Brought, TakenOut
  <2>2. Compared(Gaps(in, out), w, c, n)
    BY <1>3, <1>10, <2>1, GapsAre
  <2> QED BY <1>4, <2>2 DEF Compared
<1>12. \A j, i \in 0 .. n : PouredAt(w, c, in, out, j, i)
  BY <1>3, <1>10, PourAt
<1>13. \A j, i \in 0 .. n : Positive(gap[<<j, i>>]) = Missing(w, c, j, i + 1)
                            /\ Positive(-gap[<<j, i>>]) = Left(w, c, j + 1, i)
  BY <1>11, <1>12 DEF PouredAt
<1>14. \A j, i \in 0 .. n : Before(out, gap, j, i) = Missing(w, c, j, i)
  <2> SUFFICES ASSUME NEW j \in 0 .. n, NEW i \in 0 .. n PROVE Before(out, gap, j, i) = Missing(w, c, j, i)
    OBVIOUS
  <2>1. CASE i = 0
    BY <1>12, <2>1 DEF Before, PouredAt
  <2>2. CASE i # 0
    <3>1. PICK h \in 0 .. n : h = i - 1
      BY <1>3, <2>2
    <3>2. h + 1 = i /\ Positive(gap[<<j, h>>]) = Missing(w, c, j, h + 1)
      BY <1>13, <3>1
    <3> QED BY <2>2, <3>1, <3>2 DEF Before
  <2> QED BY <2>1, <2>2
<1>15. n \in 0 .. n
  BY <1>3
<1>16. \A j \in 0 .. n : f.unpriced[j] = Missing(w, c, j, n + 1)
  BY <1>5, <1>13, <1>15 DEF FifoColumns
<1>17. \A i \in 0 .. n : f.left[i] = Left(w, c, n + 1, i)
  BY <1>5, <1>13, <1>15 DEF FifoColumns
<1>18. ASSUME NEW j \in 0 .. n PROVE f.egp[j] = TotalOf(TakenValue(w, c, rate, j, n), 0 .. n)
  <2>1. PICK t, z, P : /\ t = TakenValue(w, c, rate, j, n) /\ P = 0 .. n
                       /\ z = [i \in 0 .. n |-> (Before(out, gap, j, i) - Positive(gap[<<j, i>>])) * rate[i]]
    OBVIOUS
  <2>2. f.egp[j] = SumFunction(z)
    BY <1>5, <2>1 DEF FifoColumns
  <2>3. \A i \in P : z[i] = t[i]
    BY <1>13, <1>14, <2>1 DEF TakenValue, TakenFrom
  <2>4. z = [i \in P |-> t[i]]
    BY <2>1, <2>3
  <2>5. IsFiniteSet(P)
    BY <1>3, <2>1, IntervalSize
  <2>6. SumFunction(z) = TotalOf(t, P)
    BY <2>4, <2>5, SumOfFunction
  <2> QED BY <2>1, <2>2, <2>6
<1>19. Queue(n, in, out, c, w, rate, last, f.egp, f.unpriced, f.left)
  BY <1>3, <1>7, <1>8, <1>10, <1>16, <1>17, <1>18 DEF Queue
<1>20. f.rows = rows /\ f.in = in /\ f.out = out /\ f.rate = rate /\ f.last = last
  BY <1>5 DEF FifoColumns
<1> QED BY <1>1, <1>3, <1>9, <1>19, <1>20

-----------------------------------------------------------------------------
(* The queue of a party is first in, first out.                            *)

\* c and w count the dollars of p's account, in and out
Counted(p, rows, n, c, w) ==
    /\ rows = ByDate(RowsOf({p})) /\ n = Len(rows)
    /\ Cumulative(c, Brought(p, rows, n), n) /\ Cumulative(w, TakenOut(p, rows, n), n)

\* What an account has: what it was opened with and what its rows add.
LEMMA DollarsOf ==
  ASSUME StatementIInv, NEW p \in Holders
  PROVE  \A rows, n, c, w : Counted(p, rows, n, c, w)
           => opened[p] + NetOf(RowsOf({p})) = c[n + 1] - w[n + 1]
<1> SUFFICES ASSUME NEW rows, NEW n, NEW c, NEW w, rows = ByDate(RowsOf({p})), n = Len(rows),
                    Cumulative(c, Brought(p, rows, n), n), Cumulative(w, TakenOut(p, rows, n), n)
             PROVE  opened[p] + NetOf(RowsOf({p})) = c[n + 1] - w[n + 1]
  BY DEF Counted
<1>1. PICK S, in, out : S = RowsOf({p}) /\ in = Brought(p, rows, n) /\ out = TakenOut(p, rows, n)
  OBVIOUS
<1>2. S \in SUBSET (DOMAIN book)
  BY <1>1 DEF RowsOf
<1>3. PICK m : InDates(rows, S, m) /\ m \in Nat /\ Len(rows) = m /\ \A k \in 1 .. m : rows[k] \in S /\ rows[k] \in DOMAIN book
  BY <1>1, <1>2, OrderOf
<1>4. n = m /\ n \in Nat /\ InDates(rows, S, n) /\ \A k \in 1 .. n : rows[k] \in DOMAIN book
  BY <1>3
<1>5. Cumulative(c, in, n) /\ Cumulative(w, out, n)
  BY <1>1
<1>6. PICK P, Q : P = 0 .. n /\ Q = 1 .. n
  OBVIOUS
<1>7. IsFiniteSet(P) /\ IsFiniteSet(Q) /\ P = Q \cup {0} /\ 0 \notin Q
  <2>1. IsFiniteSet(0 .. n) /\ IsFiniteSet(1 .. n)
    BY <1>4, IntervalSize
  <2>2. 0 .. n = (1 .. n) \cup {0}
    BY <1>4
  <2> QED BY <1>6, <2>1, <2>2
<1>8. /\ \A k \in P : in[k] \in Nat /\ out[k] \in Nat
      /\ \A k \in 0 .. n + 1 : c[k] \in Int /\ w[k] \in Int
      /\ \A k \in 0 .. n : in[k] = c[k + 1] - c[k] /\ out[k] = w[k + 1] - w[k]
      /\ c[0] = 0 /\ w[0] = 0
  <2>1. /\ \A k \in P : in[k] \in Nat /\ out[k] \in Nat
        /\ \A k \in 0 .. n + 1 : c[k] \in Int /\ w[k] \in Int
        /\ c[0] = 0 /\ w[0] = 0
    <3>1. \A k \in 0 .. n : in[k] \in Nat /\ out[k] \in Nat
      BY <1>5 DEF Cumulative
    <3>2. \A k \in 0 .. n + 1 : c[k] \in Int /\ w[k] \in Int
      <4> SUFFICES ASSUME NEW k \in 0 .. n + 1 PROVE c[k] \in Int /\ w[k] \in Int
        OBVIOUS
      <4>1. c[k] \in Nat
        BY <1>5 DEF Cumulative
      <4>2. w[k] \in Nat
        BY <1>5 DEF Cumulative
      <4>3. PICK x \in Nat, y \in Nat : x = c[k] /\ y = w[k]
        BY <4>1, <4>2
      <4>4. x \in Int /\ y \in Int
        OBVIOUS
      <4> QED BY <4>3, <4>4
    <3>3. c[0] = 0 /\ w[0] = 0
      BY <1>5 DEF Cumulative
    <3> QED BY <1>6, <3>1, <3>2, <3>3
  <2>2. ASSUME NEW k \in 0 .. n PROVE in[k] = c[k + 1] - c[k] /\ out[k] = w[k + 1] - w[k]
    <3>1. k \in 0 .. n + 1 /\ k + 1 \in 0 .. n + 1
      BY <1>4
    <3>2. c[k + 1] = c[k] + in[k] /\ w[k + 1] = w[k] + out[k] /\ in[k] \in Nat /\ out[k] \in Nat
      BY <1>5 DEF Cumulative
    <3>3. PICK x, y, u, v : x = c[k] /\ y = c[k + 1] /\ u = w[k] /\ v = w[k + 1]
      OBVIOUS
    <3>4. x \in Int /\ u \in Int /\ y = x + in[k] /\ v = u + out[k]
      BY <2>1, <3>1, <3>2, <3>3
    <3>5. in[k] = y - x /\ out[k] = v - u
      BY <3>2, <3>4
    <3> QED BY <3>3, <3>5
  <2> QED BY <2>1, <2>2
<1>9. TotalOf(in, P) = c[n + 1] - c[0]
  <2>1. (\A k \in 0 .. n + 1 : c[k] \in Int) /\ \A k \in 0 .. n : in[k] = c[k + 1] - c[k]
    BY <1>8
  <2>2. TotalOf(in, 0 .. n) = c[n + 1] - c[0]
    BY <1>4, <2>1, Telescopes
  <2> QED BY <1>6, <2>2
<1>10. TotalOf(out, P) = w[n + 1] - w[0]
  <2>1. (\A k \in 0 .. n + 1 : w[k] \in Int) /\ \A k \in 0 .. n : out[k] = w[k + 1] - w[k]
    BY <1>8
  <2>2. TotalOf(out, 0 .. n) = w[n + 1] - w[0]
    BY <1>4, <2>1, Telescopes
  <2> QED BY <1>6, <2>2
<1>11. PICK d : d = [k \in P |-> in[k] - out[k]]
  OBVIOUS
<1>12. \A k \in P : d[k] \in Int /\ out[k] \in Int /\ in[k] = d[k] + out[k]
  BY <1>8, <1>11
<1>13. TotalOf(in, P) = TotalOf(d, P) + TotalOf(out, P)
  BY <1>7, <1>12, SumPlus
<1>14. TotalOf(d, P) = d[0] + TotalOf(d, Q) /\ TotalOf(d, Q) \in Int
  <2>1. \A k \in P : d[k] \in Int
    BY <1>12
  <2> QED BY <1>7, <2>1, SumOneMore
<1>15. d[0] = opened[p] /\ opened[p] \in Int
  <2>1. opened[p] \in Int
    BY StatementAssumption DEF StatementIInv
  <2>2. 0 \in 0 .. n /\ 0 \in P
    BY <1>4, <1>6
  <2>3. in[0] = Positive(opened[p]) /\ out[0] = Positive(-opened[p])
    BY <1>1, <2>2 DEF Brought, TakenOut
  <2> QED BY <1>11, <2>1, <2>2, <2>3 DEF Positive
<1>16. TotalOf(d, Q) = NetOf(S)
  <2>1. PICK e : e = NetOfRow
    OBVIOUS
  <2>2. \A k \in Q : d[k] = e[rows[k]] /\ e[rows[k]] \in Int
    <3> SUFFICES ASSUME NEW k \in Q PROVE d[k] = e[rows[k]] /\ e[rows[k]] \in Int
      OBVIOUS
    <3>1. k \in 1 .. n /\ k \in 0 .. n /\ k \in P /\ k # 0
      BY <1>4, <1>6
    <3>2. in[k] = book[rows[k]].debit /\ out[k] = book[rows[k]].credit
      BY <1>1, <3>1 DEF Brought, TakenOut
    <3>3. rows[k] \in DOMAIN book
      BY <1>4, <3>1
    <3>4. e[rows[k]] = book[rows[k]].debit - book[rows[k]].credit /\ e[rows[k]] \in Int
      BY <2>1, <3>3, NetIs
    <3> QED BY <1>11, <3>1, <3>2, <3>4
  <2>3. OneToOne(rows, Q, S)
    <3>1. \A j, k \in 1 .. n : rows[j] = rows[k] => j = k
      BY <1>4, DatesApart
    <3> QED BY <1>4, <1>6, <3>1 DEF OneToOne, InDates
  <2>4. TotalOf(d, Q) = TotalOf(e, S)
    <3>1. IsFiniteSet(Q)
      BY <1>7
    <3>2. Reindexed(Q, rows, S, e, d)
      BY <2>2, <2>3, <3>1 DEF Reindexed
    <3> QED BY <3>2, SumReindex
  <2>5. NetOf(S) = TotalOf(NetOfRow, S)
    BY <1>2, NetOfIs
  <2> QED BY <2>1, <2>4, <2>5
<1>17. c[n + 1] \in Int /\ w[n + 1] \in Int
  <2>1. n + 1 \in 0 .. n + 1
    BY <1>4
  <2> QED BY <1>8, <2>1
<1>18. PICK A, B, C, D, E : A = TotalOf(in, P) /\ B = TotalOf(out, P) /\ C = TotalOf(d, P) /\ D = TotalOf(d, Q) /\ E = NetOf(S)
  OBVIOUS
<1>19. A = c[n + 1] /\ B = w[n + 1]
  BY <1>8, <1>9, <1>10, <1>17, <1>18
<1>20. A = C + B /\ C = opened[p] + D /\ D = E /\ A \in Int /\ B \in Int /\ D \in Int /\ opened[p] \in Int
  BY <1>13, <1>14, <1>15, <1>16, <1>17, <1>18, <1>19
<1>21. opened[p] + E = A - B
  BY <1>20
<1> QED BY <1>1, <1>18, <1>19, <1>21

\* The sum of a column.
LEMMA SumOfColumn ==
  ASSUME NEW n \in Nat, NEW f, f = [k \in 0 .. n |-> f[k]]
  PROVE  SumFunction(f) = TotalOf(f, 0 .. n)
<1>1. PICK P, z : P = 0 .. n /\ z = f
  OBVIOUS
<1>2. IsFiniteSet(P) /\ z = [k \in P |-> f[k]]
  <2>1. n \in Int /\ 0 \in Int
    OBVIOUS
  <2>2. IsFiniteSet(0 .. n)
    BY <2>1, IntervalSize
  <2> QED BY <1>1, <2>2
<1>3. SumFunction(z) = TotalOf(f, P)
  BY <1>2, SumOfFunction
<1> QED BY <1>1, <1>3

CameIn(f) == Running(0, [k \in 1 .. Len(f.rows) + 1 |-> f.in[k - 1]])
WentOut(f) == Running(0, [k \in 1 .. Len(f.rows) + 1 |-> f.out[k - 1]])

\* The queue of a party is first in, first out, dollar by dollar.
LEMMA InOrderHolds ==
  ASSUME StatementIInv, NEW p \in Holders
  PROVE  FifoInOrder(UsdFifo(p))
<1>1. PICK f, n, rows : f = UsdFifo(p) /\ n = Len(f.rows) /\ rows = ByDate(RowsOf({p}))
  OBVIOUS
<1>2. PICK c, w : /\ c = Running(0, [k \in 1 .. n + 1 |-> f.in[k - 1]])
                  /\ w = Running(0, [k \in 1 .. n + 1 |-> f.out[k - 1]])
  OBVIOUS
<1>3. Queue(n, f.in, f.out, c, w, f.rate, f.last, f.egp, f.unpriced, f.left)
  BY <1>1, <1>2, QueueIs
<1>4. n \in Nat /\ Cumulative(c, f.in, n) /\ Cumulative(w, f.out, n) /\ (\A i \in 0 .. n : f.rate[i] \in Int)
      /\ (\A j \in 0 .. n : f.egp[j] = TotalOf(TakenValue(w, c, f.rate, j, n), 0 .. n))
      /\ \A j \in 0 .. n : f.unpriced[j] = Missing(w, c, j, n + 1)
  BY <1>3 DEF Queue
<1>5. PICK last, gap : FifoColumns(f, p, rows, n, Brought(p, rows, n), TakenOut(p, rows, n), RateOf(rows, n), last, gap) /\ n = Len(rows)
  <2>1. f.rows = rows
    BY <1>1, ColumnsAre DEF FifoColumns
  <2> QED BY <1>1, <2>1, ColumnsAre
<1>6. ASSUME NEW j \in 0 .. n
      PROVE  /\ f.egp[j] = SumFunction(DollarPrices(c, w, n, f.rate, j))
             /\ f.unpriced[j] = Cardinality(Unserved(c, w, n, j))
  <2>1. PICK h, rate : h = TakenValue(w, c, f.rate, j, n) /\ rate = f.rate
    OBVIOUS
  <2>2. \A i \in 0 .. n : h[i] = TakenFrom(w, c, j, i) * rate[i]
    BY <2>1 DEF TakenValue
  <2>3. TotalOf(h, 0 .. n) = SumFunction(DollarPrices(c, w, n, rate, j))
    <3>1. \A i \in 0 .. n : rate[i] \in Int
      BY <1>4, <2>1
    <3> QED BY <1>4, <2>2, <3>1, DemandPriced
  <2>4. f.egp[j] = TotalOf(h, 0 .. n)
    BY <1>4, <2>1
  <2>5. Missing(w, c, j, n + 1) = Cardinality(Unserved(c, w, n, j))
    BY <1>4, DemandUnpriced
  <2> QED BY <1>4, <2>1, <2>3, <2>4, <2>5
<1>7. f.usd = SumFunction(f.left) - SumFunction(f.unpriced)
  <2>1. f.usd = opened[p] + NetOf(RowsOf({p}))
    BY <1>5 DEF FifoColumns
  <2>2. f.in = Brought(p, rows, n) /\ f.out = TakenOut(p, rows, n)
    BY <1>5 DEF FifoColumns
  <2>3. opened[p] + NetOf(RowsOf({p})) = c[n + 1] - w[n + 1]
    <3>1. Cumulative(c, Brought(p, rows, n), n) /\ Cumulative(w, TakenOut(p, rows, n), n)
      BY <1>4, <2>2
    <3>2. rows = ByDate(RowsOf({p})) /\ n = Len(rows)
      BY <1>1, <1>5
    <3>3. Counted(p, rows, n, c, w)
      BY <3>1, <3>2 DEF Counted
    <3> QED BY <3>3, DollarsOf
  <2>4. TotalOf(f.left, 0 .. n) - TotalOf(f.unpriced, 0 .. n) = c[n + 1] - w[n + 1]
    BY <1>3, LeftOver
  <2>5. SumFunction(f.left) = TotalOf(f.left, 0 .. n) /\ SumFunction(f.unpriced) = TotalOf(f.unpriced, 0 .. n)
    <3>1. PICK x, y : x = f.left /\ y = f.unpriced
      OBVIOUS
    <3>2. x = [k \in 0 .. n |-> x[k]] /\ y = [k \in 0 .. n |-> y[k]]
      BY <1>5, <3>1 DEF FifoColumns
    <3>3. SumFunction(x) = TotalOf(x, 0 .. n)
      BY <1>4, <3>2, SumOfColumn
    <3>4. SumFunction(y) = TotalOf(y, 0 .. n)
      BY <1>4, <3>2, SumOfColumn
    <3> QED BY <3>1, <3>3, <3>4
  <2> QED BY <2>1, <2>3, <2>4, <2>5
<1>8. ASSUME NEW j \in 0 .. Len(f.rows)
      PROVE  /\ f.egp[j] = SumFunction(DollarPrices(CameIn(f), WentOut(f), Len(f.rows), f.rate, j))
             /\ f.unpriced[j] = Cardinality(Unserved(CameIn(f), WentOut(f), Len(f.rows), j))
  <2>1. c = CameIn(f) /\ w = WentOut(f) /\ n = Len(f.rows)
    BY <1>1, <1>2 DEF CameIn, WentOut
  <2> QED BY <1>6, <2>1
<1>9. FifoInOrder(f)
  BY <1>7, <1>8 DEF FifoInOrder, DollarPrices, PriceOf, SourcesOf, Met, Unserved, CameIn, WentOut
<1> QED BY <1>1, <1>9

\* The statement in pounds ends with what the layers are worth.
LEMMA PoundsAgree ==
  ASSUME StatementIInv, NEW p \in Holders, opened[p] >= 0
  PROVE  BalanceInPounds(p, UsdFifo(p)) = UsdFifo(p).balance
<1>1. PICK f, n, rows : f = UsdFifo(p) /\ n = Len(f.rows) /\ rows = ByDate(RowsOf({p}))
  OBVIOUS
<1>2. PICK c, w : /\ c = Running(0, [k \in 1 .. n + 1 |-> f.in[k - 1]])
                  /\ w = Running(0, [k \in 1 .. n + 1 |-> f.out[k - 1]])
  OBVIOUS
<1>3. Queue(n, f.in, f.out, c, w, f.rate, f.last, f.egp, f.unpriced, f.left)
  BY <1>1, <1>2, QueueIs
<1>4. f.rows = rows /\ n = Len(rows)
  BY <1>1, ColumnsAre DEF FifoColumns
<1>5. PICK last, gap : FifoColumns(f, p, rows, n, Brought(p, rows, n), TakenOut(p, rows, n), RateOf(rows, n), last, gap)
  BY <1>1, <1>4, ColumnsAre
<1>6. PICK in, out, rate : in = f.in /\ out = f.out /\ rate = f.rate
  OBVIOUS
<1>7. PICK m : m \in Nat /\ DOMAIN rows = 1 .. m /\ Len(rows) = m /\ \A k \in 1 .. m : rows[k] \in DOMAIN book
  <2>1. RowsOf({p}) \in SUBSET (DOMAIN book)
    BY DEF RowsOf
  <2> QED BY <1>1, <2>1, OrderOf
<1>8. n \in Nat /\ DOMAIN f.rows = 1 .. n /\ \A k \in 1 .. n : rows[k] \in DOMAIN book
  BY <1>4, <1>7
<1>9. in = Brought(p, rows, n) /\ out = TakenOut(p, rows, n) /\ f.last = last
  BY <1>5, <1>6 DEF FifoColumns
<1>10. out[0] = 0 /\ in[0] = opened[p]
  <2>1. opened[p] \in Int
    BY StatementAssumption DEF StatementIInv
  <2>2. 0 \in 0 .. n
    BY <1>8
  <2> QED BY <1>9, <2>1, <2>2 DEF Brought, TakenOut, Positive
<1>11. \A k \in 1 .. n : out[k] = 0 \/ in[k] = 0
  <2> SUFFICES ASSUME NEW k \in 1 .. n PROVE out[k] = 0 \/ in[k] = 0
    OBVIOUS
  <2>1. k \in 0 .. n /\ k # 0
    BY <1>8
  <2>2. in[k] = book[rows[k]].debit /\ out[k] = book[rows[k]].credit
    BY <1>9, <2>1 DEF Brought, TakenOut
  <2> QED BY <1>8, <2>2 DEF StatementIInv, OneSided
<1>12. PICK s, vleft : s = [k \in DOMAIN f.rows |-> Signed(f, k)] /\ vleft = [i \in 0 .. n |-> f.left[i] * rate[i]]
  OBVIOUS
<1>13. \A k \in 1 .. n : s[k] = IF out[k] > 0 THEN -(f.egp[k] + f.unpriced[k] * last) ELSE in[k] * rate[k]
  BY <1>6, <1>8, <1>9, <1>12 DEF Signed
<1>14. /\ in[0] * rate[0] + TotalOf(s, 1 .. n) = TotalOf(vleft, 0 .. n) - TotalOf(f.unpriced, 0 .. n) * last
       /\ (\A k \in 1 .. n : s[k] \in Int) /\ in[0] * rate[0] \in Int
  <2>1. PICK egp, unpriced, left : egp = f.egp /\ unpriced = f.unpriced /\ left = f.left
    OBVIOUS
  <2>2. Queue(n, in, out, c, w, rate, last, egp, unpriced, left)
    BY <1>3, <1>6, <1>9, <2>1
  <2>3. \A k \in 1 .. n : s[k] = IF out[k] > 0 THEN -(egp[k] + unpriced[k] * last) ELSE in[k] * rate[k]
    BY <1>13, <2>1
  <2>4. \A i \in 0 .. n : vleft[i] = left[i] * rate[i]
    BY <1>12, <2>1
  <2>5. /\ in[0] * rate[0] + TotalOf(s, 1 .. n) = TotalOf(vleft, 0 .. n) - TotalOf(unpriced, 0 .. n) * last
        /\ (\A k \in 1 .. n : s[k] \in Int) /\ in[0] * rate[0] \in Int
    BY <1>10, <1>11, <2>2, <2>3, <2>4, InPounds
  <2> QED BY <2>1, <2>5
<1>15. BalanceInPounds(p, f) = in[0] * rate[0] + TotalOf(s, 1 .. n)
  <2>1. PICK base : base = in[0] * rate[0]
    OBVIOUS
  <2>2. Len(s) = n
    BY <1>8, <1>12
  <2>3. RunsTo(Running(base, s), base, s, n)
    BY <1>8, <1>14, <2>1, <2>2, RunningIs
  <2>4. n \in 0 .. n
    BY <1>8
  <2>5. Running(base, s)[n] = base + TotalOf(s, 1 .. n)
    BY <2>3, <2>4 DEF RunsTo
  <2>6. BalanceInPounds(p, f) = Running(base, s)[n]
    BY <1>1, <1>6, <1>10, <1>12, <2>1 DEF BalanceInPounds
  <2> QED BY <2>1, <2>5, <2>6
<1>16. f.balance = SumFunction(vleft) - SumFunction(f.unpriced) * last
  <2>1. f.balance = SumFunction([i \in 0 .. n |-> f.left[i] * RateOf(rows, n)[i]]) - SumFunction(f.unpriced) * last
        /\ rate = RateOf(rows, n)
    BY <1>5, <1>6 DEF FifoColumns
  <2> QED BY <1>12, <2>1
<1>17. SumFunction(vleft) = TotalOf(vleft, 0 .. n) /\ SumFunction(f.unpriced) = TotalOf(f.unpriced, 0 .. n)
  <2>1. PICK x, y : x = vleft /\ y = f.unpriced
    OBVIOUS
  <2>2. x = [k \in 0 .. n |-> x[k]]
    BY <1>12, <2>1
  <2>3. y = [k \in 0 .. n |-> y[k]]
    BY <1>5, <2>1 DEF FifoColumns
  <2>4. SumFunction(x) = TotalOf(x, 0 .. n)
    BY <1>8, <2>2, SumOfColumn
  <2>5. SumFunction(y) = TotalOf(y, 0 .. n)
    BY <1>8, <2>3, SumOfColumn
  <2> QED BY <2>1, <2>4, <2>5
<1> QED BY <1>1, <1>14, <1>15, <1>16, <1>17

-----------------------------------------------------------------------------
(* The log in every behaviour.                                             *)

\* c has rows of b, in their order
Drawn(b, c, o) ==
    /\ \A k \in DOMAIN c : o[k] \in DOMAIN b /\ c[k] = b[o[k]]
    /\ \A j, k \in DOMAIN c : j < k => o[j] < o[k]

\* What is kept of a sequence is drawn from it.
LEMMA KeptInOrder ==
  ASSUME NEW T, NEW b \in Seq(T), NEW S \in SUBSET (DOMAIN b)
  PROVE  Drawn(b, RowsAt(b, S), InOrder(ToItself(S)))
<1>1. PICK o, n : o = InOrder(ToItself(S)) /\ n = Cardinality(S)
  OBVIOUS
<1>2. PICK L : L = Len(b) /\ L \in Nat /\ DOMAIN b = 1 .. L
  OBVIOUS
<1>3. IsFiniteSet(S) /\ S \subseteq Nat
  <2>1. IsFiniteSet(1 .. L)
    BY <1>2, IntervalSize
  <2> QED BY <1>2, <2>1, FS_Subset
<1>4. o = [k \in 1 .. n |-> o[k]] /\ (\A k \in 1 .. n : o[k] \in S) /\ \A j, k \in 1 .. n : j < k => o[j] < o[k]
  BY <1>1, <1>3, NumbersInOrder
<1>5. RowsAt(b, S) = [k \in 1 .. n |-> b[o[k]]]
  BY <1>1, <1>4 DEF RowsAt, ToItself
<1> QED BY <1>1, <1>4, <1>5 DEF Drawn

\* What is kept of a book keeps the shape of its documents.
LEMMA DocsKept ==
  ASSUME StatementIInv, NEW S \in SUBSET (DOMAIN book), book' = RowsAt(book, S), book' \in Seq(BookedRow)
  PROVE  DocsWhole' /\ DocsDated' /\ OneSided'
<1>1. PICK b, c, o : b = book /\ c = book' /\ o = InOrder(ToItself(S))
  OBVIOUS
<1>2. Drawn(b, c, o)
  <2>1. b \in Seq(BookedRow) /\ S \in SUBSET (DOMAIN b)
    BY <1>1 DEF StatementIInv
  <2> QED BY <1>1, <2>1, KeptInOrder
<1>3. PICK L : DOMAIN c = 1 .. L /\ L \in Nat
  BY <1>1
<1>4. DocsWhole'
  <2> SUFFICES ASSUME NEW i \in DOMAIN c, NEW j \in DOMAIN c, NEW k \in DOMAIN c, i < j, j < k,
                      c[i].doc = c[k].doc, c[i].doc # None, c[i].credit = 0, c[k].credit = 0
               PROVE  c[j].doc = c[i].doc
    BY <1>1 DEF DocsWhole, OfOne
  <2>1. PICK x, y, z : x = o[i] /\ y = o[j] /\ z = o[k]
    OBVIOUS
  <2>2. x \in DOMAIN b /\ y \in DOMAIN b /\ z \in DOMAIN b /\ x < y /\ y < z /\ c[i] = b[x] /\ c[j] = b[y] /\ c[k] = b[z]
    BY <1>2, <2>1 DEF Drawn
  <2> QED BY <1>1, <2>2 DEF StatementIInv, DocsWhole, OfOne
<1>5. DocsDated'
  <2> SUFFICES ASSUME NEW i \in DOMAIN c, NEW k \in DOMAIN c, c[i].doc = c[k].doc, c[i].doc # None, c[i].credit = 0, c[k].credit = 0
               PROVE  c[i].date = c[k].date
    BY <1>1 DEF DocsDated, OfOne
  <2>1. o[i] \in DOMAIN b /\ o[k] \in DOMAIN b /\ c[i] = b[o[i]] /\ c[k] = b[o[k]]
    BY <1>2 DEF Drawn
  <2> QED BY <1>1, <2>1 DEF StatementIInv, DocsDated, OfOne
<1>6. OneSided'
  <2> SUFFICES ASSUME NEW i \in DOMAIN c PROVE c[i].debit = 0 \/ c[i].credit = 0
    BY <1>1 DEF OneSided
  <2>1. o[i] \in DOMAIN b /\ c[i] = b[o[i]]
    BY <1>2 DEF Drawn
  <2> QED BY <1>1, <2>1 DEF StatementIInv, OneSided
<1> QED BY <1>4, <1>5, <1>6

\* What is posted has its documents whole, and none that the book has.
LEMMA DocsPosted ==
  ASSUME StatementIInv, NEW posting \in Postings, NEW d \in StatementDates, PostRows(posting, d)
  PROVE  DocsWhole' /\ DocsDated' /\ OneSided'
<1>1. PICK b, c, L, M : b = book /\ c = book' /\ L = Len(book) /\ M = Len(posting)
  OBVIOUS
<1>2. L \in Nat /\ M \in Nat /\ DOMAIN b = 1 .. L /\ DOMAIN posting = 1 .. M /\ b \in Seq(BookedRow) /\ posting \in Seq(BookRow)
  BY <1>1, StatementAssumption DEF StatementIInv
<1>3. PICK q : q = Dated(posting, d)
  OBVIOUS
<1>4. q = [x \in 1 .. M |-> [posting[x] EXCEPT !.date = d]] /\ c = b \o q
  BY <1>1, <1>2, <1>3 DEF Dated, PostRows
<1>5. \A x \in 1 .. M : posting[x] \in BookRow
  BY <1>2
<1>6. \A x \in 1 .. M : /\ q[x].doc = posting[x].doc /\ q[x].date = d
                        /\ q[x].debit = posting[x].debit /\ q[x].credit = posting[x].credit
  BY <1>4, <1>5 DEF BookRow
<1>7. DOMAIN c = 1 .. L + M /\ (\A i \in 1 .. L : c[i] = b[i]) /\ \A i \in L + 1 .. L + M : i - L \in 1 .. M /\ c[i] = q[i - L]
  <2>1. q \in Seq(BookedRow) /\ Len(q) = M
    <3>1. \A x \in 1 .. M : [posting[x] EXCEPT !.date = d] \in BookedRow
      BY <1>5 DEF BookRow, BookedRow
    <3>2. \A x \in 1 .. M : q[x] \in BookedRow
      BY <1>4, <3>1
    <3>3. q = [x \in 1 .. M |-> q[x]]
      BY <1>4
    <3> QED BY <1>2, <3>2, <3>3
  <2>2. Len(b) = L /\ b \in Seq(BookedRow)
    BY <1>1, <1>2
  <2>3. c = b \o q
    BY <1>4
  <2>4. DOMAIN c = 1 .. L + M
    BY <2>1, <2>2, <2>3
  <2>5. ASSUME NEW i \in 1 .. L PROVE c[i] = b[i]
    BY <2>1, <2>2, <2>3
  <2>6. ASSUME NEW i \in L + 1 .. L + M PROVE i - L \in 1 .. M /\ c[i] = q[i - L]
    BY <1>2, <2>1, <2>2, <2>3
  <2> QED BY <2>4, <2>5, <2>6
<1>8. \A x \in 1 .. M, i \in 1 .. L : posting[x].doc = None \/ posting[x].credit > 0 \/ posting[x].doc # b[i].doc
  BY <1>1, <1>2 DEF PostRows
<1>9. DocsWhole'
  <2> SUFFICES ASSUME NEW i \in DOMAIN c, NEW j \in DOMAIN c, NEW k \in DOMAIN c, i < j, j < k,
                      c[i].doc = c[k].doc, c[i].doc # None, c[i].credit = 0, c[k].credit = 0
               PROVE  c[j].doc = c[i].doc
    BY <1>1 DEF DocsWhole, OfOne
  <2>1. CASE k \in 1 .. L
    <3>1. i \in 1 .. L /\ j \in 1 .. L
      BY <1>2, <1>7, <2>1
    <3> QED BY <1>1, <1>2, <1>7, <2>1, <3>1 DEF StatementIInv, DocsWhole, OfOne
  <2>2. CASE i \in L + 1 .. L + M
    <3>1. j \in L + 1 .. L + M /\ k \in L + 1 .. L + M
      BY <1>2, <1>7, <2>2
    <3>2. PICK x, y, z : x = i - L /\ y = j - L /\ z = k - L
      OBVIOUS
    <3>3. x \in 1 .. M /\ y \in 1 .. M /\ z \in 1 .. M /\ c[i] = q[x] /\ c[j] = q[y] /\ c[k] = q[z]
      BY <1>7, <2>2, <3>1, <3>2
    <3>4. x < y /\ y < z
      BY <1>2, <2>2, <3>1, <3>2
    <3>5. posting[y].doc = posting[x].doc
      <4>1. posting[x].doc = posting[z].doc /\ posting[x].doc # None
        BY <1>6, <3>3
      <4>2. \A f, g, h \in DOMAIN posting :
              f < g /\ g < h /\ posting[f].doc = posting[h].doc /\ posting[f].doc # None
              => posting[g].doc = posting[f].doc
        BY StatementAssumption
      <4> QED BY <1>2, <3>3, <3>4, <4>1, <4>2
    <3> QED BY <1>6, <3>3, <3>5
  <2>3. CASE i \in 1 .. L /\ k \in L + 1 .. L + M
    <3>1. c[i] = b[i] /\ k - L \in 1 .. M /\ c[k] = q[k - L]
      BY <1>7, <2>3
    <3> QED BY <1>6, <1>8, <2>3, <3>1
  <2> QED BY <1>2, <1>7, <2>1, <2>2, <2>3
<1>10. DocsDated'
  <2> SUFFICES ASSUME NEW i \in DOMAIN c, NEW k \in DOMAIN c, c[i].doc = c[k].doc, c[i].doc # None, c[i].credit = 0, c[k].credit = 0
               PROVE  c[i].date = c[k].date
    BY <1>1 DEF DocsDated, OfOne
  <2>1. CASE i \in 1 .. L /\ k \in 1 .. L
    BY <1>1, <1>2, <1>7, <2>1 DEF StatementIInv, DocsDated, OfOne
  <2>2. CASE i \in L + 1 .. L + M /\ k \in L + 1 .. L + M
    BY <1>6, <1>7, <2>2
  <2>3. CASE i \in 1 .. L /\ k \in L + 1 .. L + M
    <3>1. c[i] = b[i] /\ k - L \in 1 .. M /\ c[k] = q[k - L]
      BY <1>7, <2>3
    <3> QED BY <1>6, <1>8, <2>3, <3>1
  <2>4. CASE k \in 1 .. L /\ i \in L + 1 .. L + M
    <3>1. c[k] = b[k] /\ i - L \in 1 .. M /\ c[i] = q[i - L]
      BY <1>7, <2>4
    <3> QED BY <1>6, <1>8, <2>4, <3>1
  <2> QED BY <1>2, <1>7, <2>1, <2>2, <2>3, <2>4
<1>11. OneSided'
  <2> SUFFICES ASSUME NEW i \in DOMAIN c PROVE c[i].debit = 0 \/ c[i].credit = 0
    BY <1>1 DEF OneSided
  <2>1. CASE i \in 1 .. L
    BY <1>1, <1>2, <1>7, <2>1 DEF StatementIInv, OneSided
  <2>2. CASE i \in L + 1 .. L + M
    <3>1. i - L \in 1 .. M /\ c[i] = q[i - L]
      BY <1>7, <2>2
    <3>2. posting[i - L].debit = 0 \/ posting[i - L].credit = 0
      BY <1>2, <3>1, StatementAssumption
    <3> QED BY <1>6, <3>1, <3>2
  <2> QED BY <1>2, <1>7, <2>1, <2>2
<1> QED BY <1>9, <1>10, <1>11

\* A row of no document may change its date.
LEMMA DocsRedated ==
  ASSUME StatementIInv, NEW i \in DOMAIN book, NEW d \in StatementDates, Redate(i, d)
  PROVE  DocsWhole' /\ DocsDated' /\ OneSided'
<1>1. PICK b, c, r : b = book /\ c = book' /\ r = book[i]
  OBVIOUS
<1>2. r \in BookedRow /\ r.doc = None /\ b = book
  BY <1>1, BookIs DEF Redate
<1>3. PICK x : x = [r EXCEPT !.date = d]
  OBVIOUS
<1>4. x.doc = r.doc /\ x.debit = r.debit /\ x.credit = r.credit
  BY <1>2, <1>3 DEF BookedRow
<1>5. c = [b EXCEPT ![i] = x]
  BY <1>1, <1>3 DEF Redate
<1>6. DOMAIN c = DOMAIN b /\ c[i] = x /\ b[i] = r /\ \A k \in DOMAIN c : k # i => c[k] = b[k]
  BY <1>1, <1>5
<1>7. \A k \in DOMAIN c : /\ c[k].doc = b[k].doc /\ c[k].debit = b[k].debit /\ c[k].credit = b[k].credit
                          /\ c[k].doc # None => c[k] = b[k]
  BY <1>2, <1>4, <1>6
<1>8. DocsWhole'
  <2> SUFFICES ASSUME NEW h \in DOMAIN c, NEW j \in DOMAIN c, NEW k \in DOMAIN c, h < j, j < k,
                      c[h].doc = c[k].doc, c[h].doc # None, c[h].credit = 0, c[k].credit = 0
               PROVE  c[j].doc = c[h].doc
    BY <1>1 DEF DocsWhole, OfOne
  <2> QED BY <1>1, <1>6, <1>7 DEF StatementIInv, DocsWhole, OfOne
<1>9. DocsDated'
  <2> SUFFICES ASSUME NEW h \in DOMAIN c, NEW k \in DOMAIN c, c[h].doc = c[k].doc, c[h].doc # None, c[h].credit = 0, c[k].credit = 0
               PROVE  c[h].date = c[k].date
    BY <1>1 DEF DocsDated, OfOne
  <2> QED BY <1>1, <1>6, <1>7 DEF StatementIInv, DocsDated, OfOne
<1>10. OneSided'
  <2> SUFFICES ASSUME NEW k \in DOMAIN c PROVE c[k].debit = 0 \/ c[k].credit = 0
    BY <1>1 DEF OneSided
  <2> QED BY <1>1, <1>6, <1>7 DEF StatementIInv, OneSided
<1> QED BY <1>8, <1>9, <1>10

\* No step breaks the log.
LEMMA StatementStep == StatementIInv /\ [StatementNext]_bookVars => StatementIInv'
<1> SUFFICES ASSUME StatementIInv, [StatementNext]_bookVars PROVE StatementIInv'
  OBVIOUS
<1> USE DEF StatementIInv
<1>1. MaxRows \in Nat /\ Len(book) \in Nat
  BY StatementAssumption
<1>2. ASSUME NEW posting \in Postings, NEW d \in StatementDates, PostRows(posting, d) PROVE StatementIInv'
  <2>1. posting \in Seq(BookRow)
    BY StatementAssumption
  <2>2. PICK q : q = Dated(posting, d)
    OBVIOUS
  <2>3. q \in Seq(BookedRow) /\ Len(q) = Len(posting)
    <3>1. \A i \in DOMAIN posting : posting[i] \in BookRow
      BY <2>1
    <3>2. \A i \in DOMAIN posting : [posting[i] EXCEPT !.date = d] \in BookedRow
      BY <3>1 DEF BookRow, BookedRow
    <3>3. q = [i \in DOMAIN posting |-> [posting[i] EXCEPT !.date = d]]
      BY <2>2 DEF Dated
    <3>4. DOMAIN posting = 1 .. Len(posting) /\ Len(posting) \in Nat
      BY <2>1
    <3>5. \A i \in 1 .. Len(posting) : q[i] \in BookedRow
      BY <3>2, <3>3, <3>4
    <3>6. q = [i \in 1 .. Len(posting) |-> q[i]]
      BY <3>3, <3>4
    <3> QED BY <3>4, <3>5, <3>6
  <2>4. book' = book \o q /\ Len(book) + Len(q) <= MaxRows /\ opened' = opened
    BY <1>2, <2>2, <2>3 DEF PostRows
  <2>5. book \o q \in Seq(BookedRow) /\ Len(book \o q) = Len(book) + Len(q)
    BY <2>3
  <2>6. DocsWhole' /\ DocsDated' /\ OneSided'
    BY <1>2, DocsPosted
  <2> QED BY <2>4, <2>5, <2>6
<1>3. ASSUME NEW i \in DOMAIN book, NEW d \in StatementDates, Redate(i, d) PROVE StatementIInv'
  <2>1. PICK x : x = [book[i] EXCEPT !.date = d]
    OBVIOUS
  <2>2. x \in BookedRow
    <3>1. PICK r : r = book[i]
      OBVIOUS
    <3>2. r \in BookedRow /\ x = [r EXCEPT !.date = d]
      BY <2>1, <3>1
    <3> QED BY <3>2 DEF BookedRow
  <2>3. book' = [book EXCEPT ![i] = x] /\ opened' = opened
    BY <1>3, <2>1 DEF Redate
  <2>4. DocsWhole' /\ DocsDated' /\ OneSided'
    BY <1>3, DocsRedated
  <2> QED BY <2>2, <2>3, <2>4
<1>4. ASSUME NEW i \in DOMAIN book, Unpost(i) PROVE StatementIInv'
  <2>1. PICK S : S = {j \in DOMAIN book \ {i} : book[j].doc = None \/ book[j].doc # book[i].doc}
    OBVIOUS
  <2>2. PICK b : b = book
    OBVIOUS
  <2>3. b \in Seq(BookedRow) /\ S \in SUBSET (DOMAIN b)
    BY <2>1, <2>2
  <2>4. RowsAt(b, S) \in Seq(BookedRow) /\ Len(RowsAt(b, S)) = Cardinality(S) /\ Cardinality(S) <= Len(b)
    BY <2>3, RowsAtIs
  <2>5. book' = RowsAt(b, S) /\ opened' = opened
    BY <1>4, <2>1, <2>2 DEF Unpost
  <2>6. Len(book') <= MaxRows
    BY <1>1, <2>2, <2>3, <2>4, <2>5
  <2>7. DocsWhole' /\ DocsDated' /\ OneSided'
    BY <2>2, <2>3, <2>4, <2>5, DocsKept
  <2> QED BY <2>4, <2>5, <2>6, <2>7
<1>5. CASE UNCHANGED bookVars
  BY <1>5 DEF bookVars, DocsWhole, DocsDated, OneSided, OfOne
<1> QED BY <1>2, <1>3, <1>4, <1>5 DEF StatementNext

\* The log begins empty.
LEMMA StatementStart == StatementInit => StatementIInv
<1>1. Len(<<>>) = 0 /\ MaxRows \in Nat
  BY StatementAssumption
<1> QED BY <1>1 DEF StatementInit, StatementIInv, DocsWhole, DocsDated, OneSided

\* The log has its types.
LEMMA StatementTyped == StatementIInv => StatementTypeOK
<1> SUFFICES ASSUME StatementIInv, NEW i \in DOMAIN book
             PROVE  /\ book[i].party \in Holders \cup {None} /\ book[i].date \in StatementDates
                    /\ {book[i].debit, book[i].credit, book[i].cashIn, book[i].cashOut, book[i].cashIn2} \subseteq Nat
                    /\ {book[i].box, book[i].box2} \subseteq Boxes \cup {None}
  BY DEF StatementIInv, StatementTypeOK
<1>1. book[i] \in BookedRow
  BY DEF StatementIInv
<1> QED BY <1>1 DEF BookedRow
\* The log in every behaviour: every row has its columns and its date, and there are no more
\* than the bound allows.
THEOREM StatementTypeCorrect == StatementSpec => []StatementTypeOK
  BY StatementStart, StatementStep, StatementTyped, PTL DEF StatementSpec

\* What the screens say agrees in every log that keeps its documents.
LEMMA ScreensHold == StatementIInv => StatementsAgree
<1> SUFFICES ASSUME StatementIInv PROVE StatementsAgree
  OBVIOUS
<1>1. \A p \in Holders : Shared(p) \in SUBSET Holders
  BY DEF Shared
<1>2. \A ps \in {Shared(p) : p \in Holders} : StatementAdds(ps)
  BY <1>1, AddsHold
<1>3. ASSUME NEW p \in Holders PROVE Statement(Shared(p), 0, LastDate).closing = ListedBalance(p)
  BY <1>1, ClosesWithBalance DEF ListedBalance
<1>4. ASSUME NEW p \in DollarHolders
      PROVE  FifoInOrder(UsdFifo(p)) /\ (opened[p] >= 0 => BalanceInPounds(p, UsdFifo(p)) = UsdFifo(p).balance)
  <2>1. p \in Holders
    BY StatementAssumption
  <2> QED BY <2>1, InOrderHolds, PoundsAgree
<1>5. ASSUME NEW x \in Boxes PROVE LinesEndWith(AccountMovements(x, FALSE), Treasury(x))
  BY TreasuryAgrees
<1> QED BY <1>2, <1>3, <1>4, <1>5, FeedAgrees DEF StatementsAgree, LinesEndWith

\* In every log, whatever was posted, redated and taken back: statements of any dates add up,
\* also those of the client, and end with the balance of the list; a treasury ends with its
\* balance; dollars are priced first in, first out; and the feed has every movement once.
THEOREM StatementsAlwaysAgree == StatementSpec => []StatementsAgree
  BY StatementStart, StatementStep, ScreensHold, PTL DEF StatementSpec

-----------------------------------------------------------------------------
(* Parties.                                                                *)

PartyPlaces == {"idle", "direct", "link", "unlink", "archive", "invoices", "deals", "requests", "party"}
PartyLocal == [of : Partners \cup {None}, to : Partners \cup {None}, took : BOOLEAN]

\* Links of two parties never end at one, and a link ends at a party that is there.
LinksPaired ==
    \A p \in Partners : There(p) /\ party[p].link # None =>
        /\ There(party[p].link)
        /\ \A q \in Partners : There(q) /\ party[q].link = party[p].link => q = p
        /\ ~partyOverlap => party[party[p].link].link = None

PapersNamed == \A d \in Paperwork : paperOf[d] # None => \A p \in paperOf[d].parties : There(p)

PartyRows ==
    /\ party \in [Partners -> PartyRow \cup {None}]
    /\ paperOf \in [Paperwork -> PaperRow \cup {None}]
    /\ LinksPaired /\ PapersNamed
    /\ ~partyOverlap => \A p, q \in DirectParties : p = q

\* What a request knows when it is at l with m: the parties it works on, and, of one
\* request at a time, that what it has looked at is still so.
PartyKnows(l, m) ==
    /\ l \notin {"idle", "direct"} => m.of \in Partners
    /\ l = "link" => m.to \in Partners
    /\ ~partyOverlap =>
        /\ l = "direct" => DirectParties = {}
        /\ l = "link" => m.of # m.to /\ Free(m.of) /\ Free(m.to)

PartyLocals ==
    /\ partyPc \in [Requests -> PartyPlaces]
    /\ partyMem \in [Requests -> PartyLocal]
    /\ \A r \in Requests : PartyKnows(partyPc[r], partyMem[r])
    /\ ~partyOverlap => \A r, s \in Requests : r # s => partyPc[r] = "idle" \/ partyPc[s] = "idle"

PartyIInv == PartyRows /\ PartyLocals

LEMMA PartyNone == None \notin Partners /\ None \notin PartyRow /\ None \notin PaperRow
  BY PartyAssumption

\* Whoever moves while requests come one at a time is the only one in progress.
PartyTurn(r) == ~partyOverlap => PartiesIdle \/ partyPc[r] # "idle"

LEMMA PartyMove ==
  ASSUME PartyIInv, NEW r \in Requests, NEW l \in PartyPlaces, NEW m \in PartyLocal,
         PartyGoto(r, l), PartyRemember(r, m), UNCHANGED partyOverlap, PartyTurn(r),
         PartyRows', PartyKnows(l, m)'
  PROVE  PartyIInv'
<1>1. /\ partyPc' \in [Requests -> PartyPlaces] /\ partyMem' \in [Requests -> PartyLocal]
      /\ partyPc'[r] = l /\ partyMem'[r] = m
      /\ \A s \in Requests : s # r => partyPc'[s] = partyPc[s] /\ partyMem'[s] = partyMem[s]
  BY DEF PartyIInv, PartyLocals, PartyGoto, PartyRemember
<1>2. ~partyOverlap => \A s \in Requests : s # r => partyPc[s] = "idle"
  BY DEF PartyIInv, PartyLocals, PartyTurn, PartiesIdle
<1>3. ASSUME NEW s \in Requests PROVE PartyKnows(partyPc[s], partyMem[s])'
  <2>1. CASE s = r
    BY <2>1, <1>1
  <2>2. CASE s # r
    <3>1. PartyKnows(partyPc[s], partyMem[s])
      BY DEF PartyIInv, PartyLocals
    <3> QED BY <2>2, <3>1, <1>1, <1>2 DEF PartyKnows
  <2> QED BY <2>1, <2>2
<1>4. ~partyOverlap' => \A s, u \in Requests : s # u => partyPc'[s] = "idle" \/ partyPc'[u] = "idle"
  BY <1>1, <1>2
<1> QED BY <1>1, <1>3, <1>4 DEF PartyIInv, PartyLocals

\* The handlers of other modules, of one commit.
LEMMA PartyAtOnce ==
  ASSUME PartyIInv, PartyRows', partyOverlap \/ PartiesIdle,
         UNCHANGED <<partyPc, partyMem, partyOverlap>>
  PROVE  PartyIInv'
<1>1. ASSUME NEW s \in Requests PROVE PartyKnows(partyPc[s], partyMem[s])'
  <2>1. PartyKnows(partyPc[s], partyMem[s])
    BY DEF PartyIInv, PartyLocals
  <2> QED BY <2>1 DEF PartyKnows, PartiesIdle
<1> QED BY <1>1 DEF PartyIInv, PartyLocals

LEMMA PartyBlankOK == PartyBlank \in PartyLocal /\ "idle" \in PartyPlaces
  BY DEF PartyBlank, PartyLocal, PartyPlaces

LEMMA PartyIdleKnows == PartyKnows("idle", PartyBlank)'
  BY DEF PartyKnows

LEMMA PartyRowsStay ==
  ASSUME PartyRows, UNCHANGED <<partyRows, partyOverlap>>
  PROVE  PartyRows'
  BY DEF PartyRows, partyRows, LinksPaired, PapersNamed, DirectParties, There

LEMMA PartyEnds ==
  ASSUME PartyIInv, NEW r \in Requests, PartyEnd(r), partyPc[r] # "idle",
         UNCHANGED partyOverlap, PartyRows'
  PROVE  PartyIInv'
  BY PartyMove, PartyBlankOK, PartyIdleKnows DEF PartyEnd, PartyTurn

-----------------------------------------------------------------------------
LEMMA NewPartyRows ==
  ASSUME PartyRows, NEW p \in Partners, NEW direct \in BOOLEAN, NewParty(p, direct),
         UNCHANGED <<paperOf, partyOverlap>>, ~partyOverlap /\ direct => DirectParties = {}
  PROVE  PartyRows'
<1> DEFINE row == [link |-> None, direct |-> direct, hidden |-> FALSE]
<1>1. row \in PartyRow /\ row # None
  <2>1. row \in PartyRow
    BY DEF PartyRow
  <2> QED BY <2>1, PartyNone
<1>2. /\ party' \in [Partners -> PartyRow \cup {None}] /\ party'[p] = row
      /\ \A q \in Partners : q # p => party'[q] = party[q]
  BY <1>1 DEF PartyRows, NewParty
<1>3. LinksPaired'
  <2> SUFFICES ASSUME NEW q \in Partners, party'[q] # None, party'[q].link # None
               PROVE  /\ party'[party'[q].link] # None
                      /\ \A k \in Partners : party'[k] # None /\ party'[k].link = party'[q].link => k = q
                      /\ ~partyOverlap => party'[party'[q].link].link = None
    BY DEF LinksPaired, There
  <2>1. q # p /\ party'[q] = party[q]
    BY <1>2
  <2>2. /\ party[party[q].link] # None /\ party[q].link \in Partners
        /\ \A k \in Partners : party[k] # None /\ party[k].link = party[q].link => k = q
        /\ ~partyOverlap => party[party[q].link].link = None
    BY <2>1 DEF PartyRows, LinksPaired, There, PartyRow
  <2> QED BY <2>1, <2>2, <1>1, <1>2
<1>4. PapersNamed'
  BY <1>1, <1>2, PartyNone DEF PartyRows, PapersNamed, There, PaperRow
<1>5. ~partyOverlap' => \A q, k \in DirectParties' : q = k
  BY <1>1, <1>2 DEF PartyRows, DirectParties, There
<1> QED BY <1>2, <1>3, <1>4, <1>5 DEF PartyRows

\* A party whose link is written, or set to None, and nothing else.
LEMMA LinkWritten ==
  ASSUME PartyRows, NEW p \in Partners, There(p), NEW to \in Partners \cup {None},
         party' = [party EXCEPT ![p].link = to], UNCHANGED <<paperOf, partyOverlap>>,
         to # None => /\ There(to) /\ LinkedFrom(to) \subseteq {p}
                      /\ ~partyOverlap => p # to /\ Free(p) /\ Free(to)
  PROVE  PartyRows'
<1>1. party[p] \in PartyRow
  BY DEF PartyRows, There
<1>2. /\ party' \in [Partners -> PartyRow \cup {None}]
      /\ party'[p] # None /\ party'[p].link = to /\ party'[p].direct = party[p].direct
      /\ \A q \in Partners : q # p => party'[q] = party[q]
  BY <1>1, PartyNone DEF PartyRows, PartyRow
<1>3. \A q \in Partners : party'[q] # None <=> party[q] # None
  BY <1>2 DEF There
<1>4. LinksPaired'
  <2> SUFFICES ASSUME NEW q \in Partners, party'[q] # None, party'[q].link # None
               PROVE  /\ party'[party'[q].link] # None
                      /\ \A k \in Partners : party'[k] # None /\ party'[k].link = party'[q].link => k = q
                      /\ ~partyOverlap => party'[party'[q].link].link = None
    BY DEF LinksPaired, There
  <2>1. CASE q = p
    BY <2>1, <1>2, <1>3, PartyNone DEF There, LinkedFrom, Free
  <2>2. CASE q # p
    <3>1. /\ party'[q] = party[q] /\ party[party[q].link] # None /\ party[q].link \in Partners
          /\ \A k \in Partners : party[k] # None /\ party[k].link = party[q].link => k = q
          /\ ~partyOverlap => party[party[q].link].link = None
      BY <2>2, <1>2 DEF PartyRows, LinksPaired, There, PartyRow
    <3>2. to # None => party[q].link # to
      BY <2>2, <3>1, <1>3 DEF LinkedFrom, There
    <3>3. ~partyOverlap /\ to # None => party[q].link # p
      BY <2>2, <3>1, <1>3 DEF Free, LinkedFrom, There
    <3> QED BY <2>2, <3>1, <3>2, <3>3, <1>2, <1>3
  <2> QED BY <2>1, <2>2
<1>5. PapersNamed'
  BY <1>3 DEF PartyRows, PapersNamed, There, PaperRow
<1>6. ~partyOverlap' => \A q, k \in DirectParties' : q = k
  BY <1>2, <1>3 DEF PartyRows, DirectParties, There
<1> QED BY <1>2, <1>4, <1>5, <1>6 DEF PartyRows

LEMMA PapersGone ==
  ASSUME PartyRows, NEW ds, paperOf' = WithoutPapers(ds), UNCHANGED <<party, partyOverlap>>
  PROVE  PartyRows'
<1>1. paperOf' \in [Paperwork -> PaperRow \cup {None}]
  BY DEF PartyRows, WithoutPapers
<1>2. PapersNamed'
  BY DEF PartyRows, PapersNamed, WithoutPapers, There
<1>3. LinksPaired'
  BY DEF PartyRows, LinksPaired, There
<1> QED BY <1>1, <1>2, <1>3 DEF PartyRows, DirectParties, There

LEMMA DropPartyRows ==
  ASSUME PartyRows, NEW r \in Requests, partyMem[r].of \in Partners, DropParty(r)
  PROVE  PartyRows'
<1> DEFINE p == partyMem[r].of
<1>1. /\ party' = [q \in Partners |->
             IF q = p THEN None ELSE IF q \in LinkedFrom(p) THEN [party[q] EXCEPT !.link = None] ELSE party[q]]
      /\ paperOf' = WithoutPapers(PapersOf(p, {"entry", "request"}))
      /\ Holding(p) = {} /\ UNCHANGED partyOverlap
  BY DEF DropParty
<1>2. \A row \in PartyRow : /\ [row EXCEPT !.link = None] \in PartyRow
                            /\ [row EXCEPT !.link = None].link = None
                            /\ [row EXCEPT !.link = None].direct = row.direct
  BY DEF PartyRow
<1>3. \A q \in Partners : party[q] \in PartyRow \cup {None}
  BY DEF PartyRows
<1>4. \A q \in Partners :
        /\ party'[q] \in PartyRow \cup {None}
        /\ party'[q] # None <=> party[q] # None /\ q # p
        /\ party'[q] # None => /\ party'[q].direct = party[q].direct
                               /\ party'[q].link = IF party[q].link = p THEN None ELSE party[q].link
  BY <1>1, <1>2, <1>3, PartyNone DEF LinkedFrom, There
<1>5. party' \in [Partners -> PartyRow \cup {None}]
  BY <1>1, <1>4
<1>6. /\ paperOf' \in [Paperwork -> PaperRow \cup {None}]
      /\ \A d \in Paperwork : paperOf'[d] # None => paperOf'[d] = paperOf[d] /\ p \notin paperOf[d].parties
  BY <1>1 DEF PartyRows, WithoutPapers, PapersOf, Holding, PaperRow, PaperKinds
<1>7. PapersNamed'
  BY <1>4, <1>6 DEF PartyRows, PapersNamed, There, PaperRow
<1>8. LinksPaired'
  <2> SUFFICES ASSUME NEW q \in Partners, party'[q] # None, party'[q].link # None
               PROVE  /\ party'[party'[q].link] # None
                      /\ \A k \in Partners : party'[k] # None /\ party'[k].link = party'[q].link => k = q
                      /\ ~partyOverlap => party'[party'[q].link].link = None
    BY <1>1 DEF LinksPaired, There
  <2>1. party[q] # None /\ party'[q].link = party[q].link /\ party[q].link # p /\ party[q].link # None
    BY <1>4
  <2>2. /\ party[party[q].link] # None /\ party[q].link \in Partners
        /\ \A k \in Partners : party[k] # None /\ party[k].link = party[q].link => k = q
        /\ ~partyOverlap => party[party[q].link].link = None
    BY <2>1, <1>3 DEF PartyRows, LinksPaired, There, PartyRow
  <2> QED BY <2>1, <2>2, <1>4, PartyNone
<1>9. ~partyOverlap' => \A q, k \in DirectParties' : q = k
  BY <1>1, <1>4 DEF PartyRows, DirectParties, There
<1> QED BY <1>5, <1>6, <1>7, <1>8, <1>9 DEF PartyRows

-----------------------------------------------------------------------------
LEMMA PartyInitInv == PartyInit => PartyIInv
<1> SUFFICES ASSUME PartyInit PROVE PartyIInv
  OBVIOUS
<1>1. PartyRows
  BY DEF PartyInit, PartyRows, LinksPaired, PapersNamed, DirectParties, There
<1>2. \A r \in Requests : PartyKnows(partyPc[r], partyMem[r])
  BY DEF PartyInit, PartyKnows
<1> QED BY <1>1, <1>2, PartyBlankOK DEF PartyInit, PartyIInv, PartyLocals

LEMMA PartyOthersInv ==
  ASSUME PartyIInv,
         \/ \E p \in Partners : CreateParty(p)
         \/ \E d \in Paperwork, kind \in PaperKinds, ps \in SUBSET Partners : WritePaper(d, kind, ps)
  PROVE  PartyIInv'
<1>1. ASSUME NEW p \in Partners, CreateParty(p) PROVE PartyIInv'
  <2>1. PartyRows'
    BY <1>1, NewPartyRows DEF CreateParty, PartyIInv
  <2> QED BY <1>1, <2>1, PartyAtOnce DEF CreateParty
<1>2. ASSUME NEW d \in Paperwork, NEW kind \in PaperKinds, NEW ps \in SUBSET Partners,
             WritePaper(d, kind, ps)
      PROVE  PartyIInv'
  <2>1. [kind |-> kind, parties |-> ps] \in PaperRow
    BY DEF PaperRow
  <2>2. /\ paperOf' = [paperOf EXCEPT ![d] = [kind |-> kind, parties |-> ps]]
        /\ \A p \in ps : There(p)
        /\ UNCHANGED <<party, partyOverlap>>
    BY <1>2 DEF WritePaper
  <2>3. PapersNamed'
    BY <2>2 DEF PartyIInv, PartyRows, PapersNamed, There
  <2>4. PartyRows'
    BY <2>1, <2>2, <2>3 DEF PartyIInv, PartyRows, LinksPaired, DirectParties, There
  <2> QED BY <1>2, <2>4, PartyAtOnce DEF WritePaper
<1> QED BY <1>1, <1>2

\* A request begins: it looks, and writes nothing yet.
LEMMA PartyBegins ==
  ASSUME PartyIInv, NEW r \in Requests, EnterParty(r), UNCHANGED <<partyRows, partyOverlap>>,
         NEW l \in PartyPlaces, NEW m \in PartyLocal, PartyGoto(r, l), PartyRemember(r, m),
         PartyKnows(l, m)
  PROVE  PartyIInv'
<1>1. PartyRows' /\ PartyTurn(r)
  BY PartyRowsStay DEF PartyIInv, EnterParty, PartyTurn
<1>2. PartyKnows(l, m)'
  BY DEF PartyKnows, DirectParties, Free, LinkedFrom, There, partyRows
<1> QED BY <1>1, <1>2, PartyMove

LEMMA PartyBeginInv ==
  ASSUME PartyIInv, NEW r \in Requests,
         \/ BeginDirectSale(r)
         \/ \E p, q \in Partners : BeginLink(r, p, q)
         \/ \E p \in Partners : BeginUnlink(r, p)
         \/ \E p \in Partners, mode \in {"strict", "cascade", "archive"} : BeginRemoveParty(r, p, mode)
  PROVE  PartyIInv'
<1>1. CASE BeginDirectSale(r)
  <2>1. partyMem[r] \in PartyLocal /\ PartyRemember(r, partyMem[r])
    BY <1>1 DEF BeginDirectSale, PartyRemember, PartyIInv, PartyLocals
  <2>2. PartyKnows("direct", partyMem[r])
    BY <1>1 DEF BeginDirectSale, PartyKnows
  <2> QED BY <1>1, <2>1, <2>2, PartyBegins DEF BeginDirectSale, PartyPlaces
<1>2. ASSUME NEW p \in Partners, NEW q \in Partners, BeginLink(r, p, q) PROVE PartyIInv'
  <2> DEFINE m == [PartyBlank EXCEPT !.of = p, !.to = q]
  <2>1. m \in PartyLocal /\ m.of = p /\ m.to = q
    BY DEF PartyBlank, PartyLocal
  <2>2. PartyKnows("link", m)
    BY <1>2, <2>1 DEF BeginLink, PartyKnows
  <2> QED BY <1>2, <2>1, <2>2, PartyBegins DEF BeginLink, PartyPlaces
<1>3. ASSUME NEW p \in Partners, BeginUnlink(r, p) PROVE PartyIInv'
  <2>1. PICK q \in IF LinkedFrom(p) # {} THEN LinkedFrom(p) ELSE {p} :
           PartyRemember(r, [PartyBlank EXCEPT !.of = q])
    BY <1>3 DEF BeginUnlink
  <2>2. q \in Partners
    BY DEF LinkedFrom
  <2> DEFINE m == [PartyBlank EXCEPT !.of = q]
  <2>3. m \in PartyLocal /\ m.of = q
    BY <2>2 DEF PartyBlank, PartyLocal
  <2>4. PartyKnows("unlink", m)
    BY <2>2, <2>3 DEF PartyKnows
  <2> QED BY <1>3, <2>1, <2>3, <2>4, PartyBegins DEF BeginUnlink, PartyPlaces
<1>4. ASSUME NEW p \in Partners, NEW mode \in {"strict", "cascade", "archive"},
             BeginRemoveParty(r, p, mode)
      PROVE  PartyIInv'
  <2> DEFINE m == [PartyBlank EXCEPT !.of = p]
             l == IF Related(p) # {} /\ mode = "archive" THEN "archive" ELSE "invoices"
  <2>1. m \in PartyLocal /\ m.of = p /\ l \in PartyPlaces /\ l \in {"archive", "invoices"}
    BY DEF PartyBlank, PartyLocal, PartyPlaces
  <2>2. PartyKnows(l, m)
    BY <2>1 DEF PartyKnows
  <2>3. /\ EnterParty(r) /\ PartyGoto(r, l) /\ PartyRemember(r, m)
        /\ UNCHANGED <<partyRows, partyOverlap>>
    BY <1>4 DEF BeginRemoveParty
  <2> HIDE DEF m, l
  <2> QED BY <2>1, <2>2, <2>3, PartyBegins
<1> QED BY <1>1, <1>2, <1>3, <1>4

LEMMA DropPapersInv ==
  ASSUME PartyIInv, NEW r \in Requests, NEW at \in {"invoices", "deals", "requests"}, NEW kind,
         NEW next \in {"deals", "requests", "party"}, DropPapers(r, at, kind, next)
  PROVE  PartyIInv'
<1>1. /\ partyPc[r] = at /\ PartyGoto(r, next) /\ UNCHANGED <<party, partyOverlap>>
      /\ paperOf' = WithoutPapers(PapersOf(partyMem[r].of, {kind}))
  BY DEF DropPapers
<1>2. partyMem[r] \in PartyLocal /\ PartyKnows(partyPc[r], partyMem[r])
  BY DEF PartyIInv, PartyLocals
<1>3. PICK m : PartyRemember(r, m) /\ m \in PartyLocal /\ m.of = partyMem[r].of
  <2> DEFINE took == partyMem[r].took \/ PapersOf(partyMem[r].of, {kind}) # {}
  <2>1. PartyRemember(r, [partyMem[r] EXCEPT !.took = took]) /\ took \in BOOLEAN
    BY DEF DropPapers
  <2> HIDE DEF took
  <2>2. /\ [partyMem[r] EXCEPT !.took = took] \in PartyLocal
        /\ [partyMem[r] EXCEPT !.took = took].of = partyMem[r].of
    BY <1>2, <2>1 DEF PartyLocal
  <2> QED BY <2>1, <2>2
<1>4. PartyRows'
  BY <1>1, PapersGone DEF PartyIInv
<1>5. PartyKnows(next, m)' /\ next \in PartyPlaces /\ PartyTurn(r)
  BY <1>1, <1>2, <1>3 DEF PartyKnows, PartyPlaces, PartyTurn
<1> QED BY <1>1, <1>3, <1>4, <1>5, PartyMove

LEMMA PartyStepInv ==
  ASSUME PartyIInv, NEW r \in Requests, StepParty(r)
  PROVE  PartyIInv'
<1>k. PartyKnows(partyPc[r], partyMem[r]) /\ PartyRows
  BY DEF PartyIInv, PartyLocals
<1>1. CASE MakeDirect(r)
  <2>1. PICK p \in Partners : NewParty(p, TRUE)
    BY <1>1 DEF MakeDirect
  <2>2. PartyRows'
    BY <1>1, <1>k, <2>1, NewPartyRows DEF MakeDirect, PartyKnows
  <2> QED BY <1>1, <2>2, PartyEnds DEF MakeDirect
<1>2. CASE WriteLink(r)
  <2> DEFINE m == partyMem[r]
  <2>1. m.of \in Partners /\ m.to \in Partners
    BY <1>2, <1>k DEF WriteLink, PartyKnows
  <2>2. PartyRows'
    BY <1>2, <1>k, <2>1, LinkWritten DEF WriteLink, PartyKnows
  <2> QED BY <1>2, <2>2, PartyEnds DEF WriteLink
<1>3. CASE ClearLink(r)
  <2>1. partyMem[r].of \in Partners
    BY <1>3, <1>k DEF ClearLink, PartyKnows
  <2>2. PartyRows'
    BY <1>3, <1>k, <2>1, LinkWritten DEF ClearLink
  <2> QED BY <1>3, <2>2, PartyEnds DEF ClearLink
<1>4. CASE ArchiveParty(r)
  <2> DEFINE p == partyMem[r].of
  <2>1. p \in Partners /\ There(p) /\ party' = [party EXCEPT ![p].hidden = TRUE]
        /\ UNCHANGED <<paperOf, partyOverlap>>
    BY <1>4, <1>k DEF ArchiveParty, PartyKnows
  <2>2. party[p] \in PartyRow
    BY <1>k, <2>1 DEF PartyRows, There
  <2>3. /\ party' \in [Partners -> PartyRow \cup {None}]
        /\ \A q \in Partners : /\ party'[q] # None <=> party[q] # None
                               /\ party[q] # None => /\ party'[q].link = party[q].link
                                                     /\ party'[q].direct = party[q].direct
    BY <1>k, <2>1, <2>2, PartyNone DEF PartyRows, PartyRow, There
  <2>4. PapersNamed'
    BY <1>k, <2>1, <2>3 DEF PartyRows, PapersNamed, There, PaperRow
  <2>5. LinksPaired'
    BY <1>k, <2>1, <2>3 DEF PartyRows, LinksPaired, There, PartyRow
  <2>6. ~partyOverlap' => \A q, k \in DirectParties' : q = k
    BY <1>k, <2>1, <2>3 DEF PartyRows, DirectParties, There
  <2>7. PartyRows'
    BY <1>k, <2>1, <2>3, <2>4, <2>5, <2>6 DEF PartyRows
  <2> QED BY <1>4, <2>7, PartyEnds DEF ArchiveParty
<1>5. CASE \/ DropPapers(r, "invoices", "invoice", "deals") \/ DropPapers(r, "deals", "deal", "requests")
           \/ DropPapers(r, "requests", "request", "party")
  BY <1>5, DropPapersInv
<1>6. CASE DropParty(r)
  <2>1. PartyRows'
    BY <1>6, <1>k, DropPartyRows DEF DropParty, PartyKnows
  <2> QED BY <1>6, <2>1, PartyEnds DEF DropParty
<1>7. CASE RefuseParty(r)
  <2>1. PartyRows' /\ partyPc[r] # "idle"
    BY <1>7, <1>k, PartyRowsStay DEF RefuseParty, PartyRefused
  <2> QED BY <1>7, <2>1, PartyEnds DEF RefuseParty
<1>8. CASE CutParty(r)
  <2>1. PartyRows'
    BY <1>8, <1>k, PartyRowsStay DEF CutParty
  <2> QED BY <1>8, <2>1, PartyEnds DEF CutParty
<1> QED BY <1>1, <1>2, <1>3, <1>4, <1>5, <1>6, <1>7, <1>8 DEF StepParty

LEMMA PartyNextInv == PartyIInv /\ [PartyNext]_partyVars => PartyIInv'
<1> SUFFICES ASSUME PartyIInv, [PartyNext]_partyVars PROVE PartyIInv'
  OBVIOUS
<1>1. CASE UNCHANGED partyVars
  <2>1. UNCHANGED <<partyRows, partyPc, partyMem, partyOverlap>>
    BY <1>1 DEF partyVars
  <2>2. PartyRows'
    BY <2>1, PartyRowsStay DEF PartyIInv
  <2>3. ASSUME NEW s \in Requests PROVE PartyKnows(partyPc[s], partyMem[s])'
    <3>1. PartyKnows(partyPc[s], partyMem[s])
      BY DEF PartyIInv, PartyLocals
    <3> QED BY <3>1, <2>1 DEF PartyKnows, DirectParties, Free, LinkedFrom, There, partyRows
  <2> QED BY <2>1, <2>2, <2>3 DEF PartyIInv, PartyLocals
<1> QED BY <1>1, PartyOthersInv, PartyBeginInv, PartyStepInv DEF PartyNext

\* However links, sales and removals of parties overlap and wherever they stop, every
\* column of Parties has its type (parties.service.ts, parties.repository.ts).
THEOREM PartyTypeCorrect == PartySpec => []PartyTypeOK
<1>1. PartyIInv => PartyTypeOK
  BY DEF PartyIInv, PartyRows, PartyLocals, PartyTypeOK, PartyPlaces, PartyLocal
<1> QED BY <1>1, PartyInitInv, PartyNextInv, PTL DEF PartySpec

\* Links of parties are pairs, one party takes direct sales and no paper names a party that
\* is gone (parties.service.ts:227-249, parties.repository.ts:98-116): PartiesPaired for any
\* parties, papers and requests.
THEOREM PairedAlways == PartySpec => []PartiesPaired
<1>1. PartyIInv => PartiesPaired
  <2> SUFFICES ASSUME PartyIInv PROVE PartiesPaired
    OBVIOUS
  <2>1. ASSUME NEW p \in Partners, There(p), party[p].link # None
        PROVE  /\ There(party[p].link) /\ LinkedFrom(party[p].link) = {p}
               /\ ~partyOverlap => party[party[p].link].link = None
    BY <2>1 DEF PartyIInv, PartyRows, LinksPaired, LinkedFrom
  <2>2. ASSUME ~partyOverlap PROVE Cardinality(DirectParties) <= 1
    <3>1. CASE DirectParties = {}
      BY <3>1, FS_EmptySet
    <3>2. CASE DirectParties # {}
      <4>1. PICK p : p \in DirectParties
        BY <3>2
      <4>2. DirectParties = {p}
        BY <4>1, <2>2 DEF PartyIInv, PartyRows
      <4> QED BY <4>2, FS_Singleton
    <3> QED BY <3>1, <3>2
  <2> QED BY <2>1, <2>2 DEF PartiesPaired, PartyIInv, PartyRows, PapersNamed
<1> QED BY <1>1, PartyInitInv, PartyNextInv, PTL DEF PartySpec

-----------------------------------------------------------------------------
(* Price lists of capital shares.                                          *)

ListLocal == [owner : BOOLEAN, of : Nat, list : Sent \cup {None}]

ListsApart ==
    /\ \A l \in ListIds : lists[l].from <= lists[l].to
    /\ PriceListsApart

ShareRows ==
    /\ lists \in Seq(ListRow) /\ Len(lists) <= MaxLists
    /\ sale \in [Sales -> SaleForms \cup {None}]
    /\ picked \in [Sales -> [cartons : {None, 1}] \cup {None}]
    /\ forced \in [Sales -> [Goods -> ListIds \cup {None}]]
    /\ ~shareOverlap => ListsApart

\* What a request that is to write the list m.of knows of it, or of a new one, and, of one
\* request at a time, that what it has looked at is still so.
ListKnows(l, m) ==
    l = "write" =>
        /\ m.list \in Sent /\ m.of \in ListIds \cup {0}
        /\ m.of = 0 => m.list \in ListRow /\ m.list.from <= m.list.to
        /\ m.of # 0 => m.list.supplier = lists[m.of].supplier
        /\ ~shareOverlap =>
            LET row == IF m.of = 0 THEN m.list ELSE Merged(m.list, lists[m.of]) IN
            /\ MayWrite(m.owner, m.of, row)
            /\ m.of = 0 \/ m.list.from # None \/ m.list.to # None =>
                  row.from <= row.to /\ ~Overlaps(row.supplier, row.from, row.to, {m.of})

ShareLocals ==
    /\ sharePc \in [Requests -> {"idle", "write"}]
    /\ shareMem \in [Requests -> ListLocal]
    /\ \A r \in Requests : ListKnows(sharePc[r], shareMem[r])
    /\ ~shareOverlap => \A r, s \in Requests : r # s => sharePc[r] = "idle" \/ sharePc[s] = "idle"

ShareIInv == ShareRows /\ ShareLocals

LEMMA ListsFacts ==
  ASSUME ShareRows
  PROVE  /\ Len(lists) \in Nat /\ ListIds \subseteq Nat \ {0} /\ 0 \notin ListIds
         /\ \A l \in ListIds : lists[l] \in ListRow
         /\ DOMAIN lists = ListIds
  BY DEF ShareRows, ListIds

\* Lists are written one after the other: a request that is not the one that moves
\* knows what it knew.
LEMMA ShareMove ==
  ASSUME ShareIInv, NEW r \in Requests, NEW l \in {"idle", "write"}, NEW m \in ListLocal,
         ShareGoto(r, l), ShareRemember(r, m), UNCHANGED shareOverlap,
         ~shareOverlap => SharesIdle \/ sharePc[r] # "idle",
         ShareRows', ListKnows(l, m)',
         \A n \in ListIds : n \in ListIds' /\ lists'[n].supplier = lists[n].supplier
  PROVE  ShareIInv'
<1>1. /\ sharePc' \in [Requests -> {"idle", "write"}] /\ shareMem' \in [Requests -> ListLocal]
      /\ sharePc'[r] = l /\ shareMem'[r] = m
      /\ \A s \in Requests : s # r => sharePc'[s] = sharePc[s] /\ shareMem'[s] = shareMem[s]
  BY DEF ShareIInv, ShareLocals, ShareGoto, ShareRemember
<1>2. ~shareOverlap => \A s \in Requests : s # r => sharePc[s] = "idle"
  BY DEF ShareIInv, ShareLocals, SharesIdle
<1>3. ASSUME NEW s \in Requests PROVE ListKnows(sharePc[s], shareMem[s])'
  <2>1. CASE s = r
    BY <2>1, <1>1
  <2>2. CASE s # r
    <3>1. ListKnows(sharePc[s], shareMem[s])
      BY DEF ShareIInv, ShareLocals
    <3> QED BY <2>2, <3>1, <1>1, <1>2 DEF ListKnows
  <2> QED BY <2>1, <2>2
<1>4. ~shareOverlap' => \A s, u \in Requests : s # u => sharePc'[s] = "idle" \/ sharePc'[u] = "idle"
  BY <1>1, <1>2
<1> QED BY <1>1, <1>3, <1>4 DEF ShareIInv, ShareLocals

\* No list is written: requests know what they knew.
LEMMA KnowsStay ==
  ASSUME UNCHANGED <<lists, shareOverlap>>, NEW l, NEW m, ListKnows(l, m)
  PROVE  ListKnows(l, m)'
<1>1. ListIds' = ListIds /\ \A s : ListsOf(s)' = ListsOf(s)
  BY DEF ListIds, ListsOf
<1>2. \A s : Latest(s)' = Latest(s)
  BY <1>1 DEF Latest
<1>3. \A owner, of, row : MayWrite(owner, of, row)' = MayWrite(owner, of, row)
  BY <1>1, <1>2 DEF MayWrite
<1>4. \A s, from, to, except : Overlaps(s, from, to, except)' = Overlaps(s, from, to, except)
  BY <1>1 DEF Overlaps
<1>5. lists' = lists /\ shareOverlap' = shareOverlap
  OBVIOUS
<1> QED BY <1>1, <1>3, <1>4, <1>5 DEF ListKnows

LEMMA ListsStay ==
  ASSUME ShareIInv, UNCHANGED <<lists, sharePc, shareMem, shareOverlap>>, ShareRows'
  PROVE  ShareIInv'
<1>1. ASSUME NEW s \in Requests PROVE ListKnows(sharePc[s], shareMem[s])'
  <2>1. ListKnows(sharePc[s], shareMem[s])
    BY DEF ShareIInv, ShareLocals
  <2> QED BY <2>1, KnowsStay
<1> QED BY <1>1 DEF ShareIInv, ShareLocals

LEMMA ShareRowsStay ==
  ASSUME ShareRows, UNCHANGED <<shareRows, shareOverlap>>
  PROVE  ShareRows'
  BY DEF ShareRows, shareRows, ListsApart, PriceListsApart, ListIds

LEMMA SharesAtOnceInv ==
  ASSUME ShareIInv, UNCHANGED <<lists, sharePc, shareMem, shareOverlap>>,
         sale' \in [Sales -> SaleForms \cup {None}],
         picked' \in [Sales -> [cartons : {None, 1}] \cup {None}],
         forced' \in [Sales -> [Goods -> ListIds \cup {None}]]
  PROVE  ShareIInv'
<1>1. ShareRows'
  BY DEF ShareIInv, ShareRows, ListsApart, PriceListsApart, ListIds
<1> QED BY <1>1, ListsStay

-----------------------------------------------------------------------------
LEMMA ShareBlankOK == ListBlank \in ListLocal
  BY DEF ListBlank, ListLocal

LEMMA ShareInitInv == ShareInit => ShareIInv
<1> SUFFICES ASSUME ShareInit PROVE ShareIInv
  OBVIOUS
<1>1. lists \in Seq(ListRow) /\ Len(lists) = 0 /\ ListIds = {}
  BY DEF ShareInit, ListIds
<1>2. ShareRows
  BY <1>1, ShareAssumption DEF ShareInit, ShareRows, ListsApart, PriceListsApart
<1>3. \A r \in Requests : ListKnows(sharePc[r], shareMem[r])
  BY DEF ShareInit, ListKnows
<1> QED BY <1>2, <1>3, ShareBlankOK DEF ShareInit, ShareIInv, ShareLocals

\* Selecting, forcing and moving capital.
LEMMA ShareHandlersInv ==
  ASSUME ShareIInv,
         \/ \E i \in Sales, f \in SaleForms : WriteSale(i, f)
         \/ \E S \in SUBSET Sales : SelectInvoices(S)
         \/ SelectAll
         \/ \E i \in Sales : UnselectInvoice(i)
         \/ \E i \in Sales, n \in {None, 1} : UpdateVehicle(i, n)
         \/ \E i \in Sales, g \in Goods, l \in ListIds \cup {None} : SetItemWeek(i, g, l)
         \/ \E m \in DOMAIN moves : MoveCapital(m)
  PROVE  ShareIInv'
<1>1. /\ sale \in [Sales -> SaleForms \cup {None}]
      /\ picked \in [Sales -> [cartons : {None, 1}] \cup {None}]
      /\ forced \in [Sales -> [Goods -> ListIds \cup {None}]]
  BY DEF ShareIInv, ShareRows
<1>2. \A n \in {None, 1} : [cartons |-> n] \in [cartons : {None, 1}]
  OBVIOUS
<1>3. ASSUME NEW i \in Sales, NEW f \in SaleForms, WriteSale(i, f) PROVE ShareIInv'
  BY <1>1, <1>3, SharesAtOnceInv DEF WriteSale, AtOnce
<1>4. ASSUME NEW S \in SUBSET Sales, SelectInvoices(S) PROVE ShareIInv'
  <2>1. picked' \in [Sales -> [cartons : {None, 1}] \cup {None}]
    BY <1>1, <1>2, <1>4 DEF SelectInvoices
  <2> QED BY <1>1, <1>4, <2>1, SharesAtOnceInv DEF SelectInvoices, AtOnce
<1>5. CASE SelectAll
  BY <1>4, <1>5 DEF SelectAll
<1>6. ASSUME NEW i \in Sales, UnselectInvoice(i) PROVE ShareIInv'
  BY <1>1, <1>6, SharesAtOnceInv DEF UnselectInvoice, AtOnce
<1>7. ASSUME NEW i \in Sales, NEW n \in {None, 1}, UpdateVehicle(i, n) PROVE ShareIInv'
  <2>1. picked' \in [Sales -> [cartons : {None, 1}] \cup {None}]
    BY <1>1, <1>7 DEF UpdateVehicle
  <2> QED BY <1>1, <1>7, <2>1, SharesAtOnceInv DEF UpdateVehicle, AtOnce
<1>8. ASSUME NEW i \in Sales, NEW g \in Goods, NEW l \in ListIds \cup {None}, SetItemWeek(i, g, l)
      PROVE  ShareIInv'
  <2>1. forced' \in [Sales -> [Goods -> ListIds \cup {None}]]
    BY <1>1, <1>8 DEF SetItemWeek
  <2> QED BY <1>1, <1>8, <2>1, SharesAtOnceInv DEF SetItemWeek, AtOnce
<1>9. ASSUME NEW m \in DOMAIN moves, MoveCapital(m) PROVE ShareIInv'
  BY <1>1, <1>9, SharesAtOnceInv DEF MoveCapital, AtOnce
<1> QED BY <1>3, <1>4, <1>5, <1>6, <1>7, <1>8, <1>9

\* A list that is sent replaces what it holds of the old one.
LEMMA MergedRow ==
  ASSUME NEW sent \in Sent, NEW old \in ListRow
  PROVE  /\ Merged(sent, old) \in ListRow /\ Merged(sent, old).supplier = old.supplier
         /\ Merged(sent, old).from = OrOld(sent.from, old.from)
         /\ Merged(sent, old).to = OrOld(sent.to, old.to)
<1>1. OrOld(sent.from, old.from) \in ShareDays /\ OrOld(sent.to, old.to) \in ShareDays
  BY DEF Sent, ListRow, OrOld
<1>2. [g \in Goods |-> OrOld(sent.prices[g], old.prices[g])] \in [Goods -> ListPrices]
  BY DEF Sent, ListRow, OrOld
<1>3. old.supplier \in Suppliers
  BY DEF ListRow
<1> QED BY <1>1, <1>2, <1>3 DEF Merged, ListRow

LEMMA ListBeginsInv ==
  ASSUME ShareIInv, NEW r \in Requests, NEW owner \in BOOLEAN, NEW l \in Sent,
         \/ BeginCreateList(r, owner, l)
         \/ \E of \in ListIds : BeginUpdateList(r, owner, of, l)
  PROVE  ShareIInv'
<1>l. /\ Len(lists) \in Nat /\ ListIds \subseteq Nat \ {0} /\ 0 \notin ListIds
      /\ \A n \in ListIds : lists[n] \in ListRow
  BY ListsFacts DEF ShareIInv
<1>1. ASSUME NEW m \in ListLocal, ListKnows("write", m), ShareGoto(r, "write"), ShareRemember(r, m),
             EnterShare(r), UNCHANGED <<shareRows, shareOverlap>>
      PROVE  ShareIInv'
  <2>1. ShareRows' /\ UNCHANGED lists /\ ListIds' = ListIds
    BY <1>1, ShareRowsStay DEF ShareIInv, shareRows, ListIds
  <2>2. ListKnows("write", m)'
    BY <1>1, <2>1, KnowsStay
  <2> QED BY <1>1, <2>1, <2>2, ShareMove DEF EnterShare
<1>2. CASE BeginCreateList(r, owner, l)
  <2> DEFINE m == [owner |-> owner, of |-> 0, list |-> l]
  <2>1. m \in ListLocal /\ m.owner = owner /\ m.of = 0 /\ m.list = l
    BY DEF ListLocal
  <2>2. l \in ListRow
    BY <1>2 DEF BeginCreateList, Sent, ListRow
  <2>3. /\ l.from <= l.to /\ MayWrite(owner, 0, l) /\ ~Overlaps(l.supplier, l.from, l.to, {})
    BY <1>2 DEF BeginCreateList
  <2>4. ~Overlaps(l.supplier, l.from, l.to, {0})
    BY <2>3 DEF Overlaps
  <2>5. ListKnows("write", m)
    BY <2>1, <2>2, <2>3, <2>4 DEF ListKnows
  <2> QED BY <1>1, <1>2, <2>1, <2>5 DEF BeginCreateList
<1>3. ASSUME NEW of \in ListIds, BeginUpdateList(r, owner, of, l) PROVE ShareIInv'
  <2> DEFINE m == [owner |-> owner, of |-> of, list |-> l]
  <2>1. m \in ListLocal /\ m.owner = owner /\ m.of = of /\ m.list = l /\ of # 0
    BY <1>l DEF ListLocal
  <2>2. ListKnows("write", m)
    BY <1>3, <2>1 DEF BeginUpdateList, ListKnows
  <2> QED BY <1>1, <1>3, <2>1, <2>2 DEF BeginUpdateList
<1> QED BY <1>2, <1>3

\* The list n is new or written, and stays apart from the others of its supplier.
LEMMA ListWritten ==
  ASSUME ShareRows, UNCHANGED <<sale, picked, forced, shareOverlap>>,
         lists' \in Seq(ListRow), Len(lists') <= MaxLists, NEW n \in ListIds',
         \A k \in ListIds : k \in ListIds',
         \A k \in ListIds' \ {n} : k \in ListIds /\ lists'[k] = lists[k],
         ~shareOverlap =>
            /\ lists'[n].from <= lists'[n].to
            /\ \A k \in ListIds \ {n} : lists[k].supplier = lists'[n].supplier =>
                  lists[k].to < lists'[n].from \/ lists'[n].to < lists[k].from
  PROVE  ShareRows'
<1>1. forced' \in [Sales -> [Goods -> ListIds' \cup {None}]]
  <2>1. \A i \in Sales : forced[i] \in [Goods -> ListIds' \cup {None}]
    BY DEF ShareRows
  <2> QED BY <2>1 DEF ShareRows
<1>2. ASSUME ~shareOverlap PROVE ListsApart'
  <2>1. ListsApart
    BY <1>2 DEF ShareRows
  <2>2. \A l \in ListIds' : lists'[l].from <= lists'[l].to
    BY <1>2, <2>1 DEF ListsApart
  <2>3. ASSUME NEW l \in ListIds', NEW k \in ListIds', l # k, lists'[l].supplier = lists'[k].supplier
        PROVE  lists'[l].to < lists'[k].from \/ lists'[k].to < lists'[l].from
    <3>1. CASE l = n
      BY <1>2, <2>3, <3>1
    <3>2. CASE k = n
      BY <1>2, <2>3, <3>2
    <3>3. CASE l # n /\ k # n
      BY <1>2, <2>1, <2>3, <3>3 DEF ListsApart, PriceListsApart
    <3> QED BY <3>1, <3>2, <3>3
  <2> QED BY <2>2, <2>3 DEF ListsApart, PriceListsApart
<1> QED BY <1>1, <1>2 DEF ShareRows

LEMMA WriteListInv ==
  ASSUME ShareIInv, NEW r \in Requests, WriteList(r)
  PROVE  ShareIInv'
<1> DEFINE m == shareMem[r]
<1>l. /\ Len(lists) \in Nat /\ ListIds \subseteq Nat \ {0} /\ 0 \notin ListIds
      /\ \A n \in ListIds : lists[n] \in ListRow
  BY ListsFacts DEF ShareIInv
<1>k. ListKnows("write", m) /\ ShareRows /\ sharePc[r] = "write"
  BY DEF ShareIInv, ShareLocals, WriteList
<1>q. ASSUME ShareRows', \A n \in ListIds : n \in ListIds' /\ lists'[n].supplier = lists[n].supplier
      PROVE  ShareIInv'
  <2>1. ListKnows("idle", ListBlank)'
    BY DEF ListKnows
  <2>2. ShareGoto(r, "idle") /\ ShareRemember(r, ListBlank) /\ UNCHANGED shareOverlap
    BY DEF WriteList, ShareEnd
  <2> QED BY <1>q, <1>k, <2>1, <2>2, ShareBlankOK, ShareMove
<1>1. CASE m.of = 0
  <2>1. m.list \in ListRow /\ m.list.from <= m.list.to
    BY <1>1, <1>k DEF ListKnows
  <2>2. lists' = Append(lists, m.list) /\ Len(lists) < MaxLists /\ UNCHANGED <<sale, picked, forced, shareOverlap>>
    BY <1>1 DEF WriteList
  <2>3. /\ lists' \in Seq(ListRow) /\ Len(lists') = Len(lists) + 1
        /\ \A n \in ListIds : lists'[n] = lists[n]
        /\ lists'[Len(lists) + 1] = m.list
    BY <1>k, <2>1, <2>2, SeqAppended DEF ShareRows, ListIds
  <2>4. ListIds' = ListIds \cup {Len(lists) + 1} /\ Len(lists) + 1 \notin ListIds /\ Len(lists') <= MaxLists
    BY <2>2, <2>3, <1>l, ShareAssumption DEF ListIds
  <2>5. ~shareOverlap => \A k \in ListIds : lists[k].supplier = m.list.supplier =>
            lists[k].to < m.list.from \/ m.list.to < lists[k].from
    <3> SUFFICES ASSUME ~shareOverlap, NEW k \in ListIds, lists[k].supplier = m.list.supplier
                 PROVE  lists[k].to < m.list.from \/ m.list.to < lists[k].from
      OBVIOUS
    <3>1. ~Overlaps(m.list.supplier, m.list.from, m.list.to, {0})
      BY <1>1, <1>k DEF ListKnows
    <3>2. ~(lists[k].from <= m.list.to /\ m.list.from <= lists[k].to)
      BY <3>1, <1>l DEF Overlaps, ListsOf
    <3> QED BY <3>2, <1>l, <2>1, ShareAssumption DEF ListRow, ShareDays
  <2>6. ShareRows'
    BY <1>k, <2>1, <2>2, <2>3, <2>4, <2>5, ListWritten
  <2> QED BY <1>q, <2>3, <2>4, <2>6
<1>2. CASE m.of # 0
  <2> DEFINE row == Merged(m.list, lists[m.of])
  <2>1. m.of \in ListIds /\ m.list \in Sent
    BY <1>2, <1>k DEF ListKnows
  <2>2. lists' = [lists EXCEPT ![m.of] = row] /\ UNCHANGED <<sale, picked, forced, shareOverlap>>
    BY <1>2 DEF WriteList
  <2>3. row \in ListRow /\ row.supplier = lists[m.of].supplier
    BY <1>l, <2>1, MergedRow
  <2>4. /\ lists' \in Seq(ListRow) /\ Len(lists') = Len(lists) /\ lists'[m.of] = row
        /\ \A n \in ListIds \ {m.of} : lists'[n] = lists[n]
    BY <1>k, <2>1, <2>2, <2>3 DEF ShareRows, ListIds
  <2>5. ListIds' = ListIds
    BY <2>4 DEF ListIds
  <2>6. ASSUME ~shareOverlap
        PROVE  /\ row.from <= row.to
               /\ \A k \in ListIds \ {m.of} : lists[k].supplier = row.supplier =>
                     lists[k].to < row.from \/ row.to < lists[k].from
    <3>1. CASE m.list.from # None \/ m.list.to # None
      <4>1. row.from <= row.to /\ ~Overlaps(row.supplier, row.from, row.to, {m.of})
        BY <1>2, <1>k, <2>6, <3>1 DEF ListKnows
      <4>2. ASSUME NEW k \in ListIds \ {m.of}, lists[k].supplier = row.supplier
            PROVE  lists[k].to < row.from \/ row.to < lists[k].from
        <5>1. ~(lists[k].from <= row.to /\ row.from <= lists[k].to)
          BY <4>1, <4>2 DEF Overlaps, ListsOf
        <5>2. lists[k].from \in Nat /\ lists[k].to \in Nat /\ row.from \in Nat /\ row.to \in Nat
          BY <1>l, <2>3, ShareAssumption DEF ListRow, ShareDays
        <5> QED BY <5>1, <5>2
      <4> QED BY <4>1, <4>2
    <3>2. CASE m.list.from = None /\ m.list.to = None
      <4>1. row.from = lists[m.of].from /\ row.to = lists[m.of].to
        BY <1>l, <2>1, <3>2, MergedRow DEF OrOld
      <4>2. ListsApart
        BY <1>k, <2>6 DEF ShareRows
      <4> QED BY <2>1, <2>3, <2>6, <4>1, <4>2 DEF ListsApart, PriceListsApart
    <3> QED BY <3>1, <3>2
  <2>7. Len(lists') <= MaxLists
    BY <1>k, <2>4 DEF ShareRows
  <2> HIDE DEF row
  <2>8. ShareRows'
    BY <1>k, <2>1, <2>2, <2>4, <2>5, <2>6, <2>7, ListWritten
  <2> QED BY <1>q, <2>1, <2>3, <2>4, <2>5, <2>8
<1> QED BY <1>1, <1>2

LEMMA ShareNextInv == ShareIInv /\ [ShareNext]_shareVars => ShareIInv'
<1> SUFFICES ASSUME ShareIInv, [ShareNext]_shareVars PROVE ShareIInv'
  OBVIOUS
<1>1. CASE UNCHANGED shareVars
  <2>1. UNCHANGED <<shareRows, lists, sharePc, shareMem, shareOverlap>>
    BY <1>1 DEF shareVars, shareRows
  <2> QED BY <2>1, ShareRowsStay, ListsStay DEF ShareIInv
<1>2. ASSUME NEW r \in Requests, RefuseList(r) PROVE ShareIInv'
  <2>1. ShareRows' /\ UNCHANGED lists
    BY <1>2, ShareRowsStay DEF RefuseList, ShareIInv, shareRows
  <2>2. ListKnows("idle", ListBlank)' /\ \A n \in ListIds : n \in ListIds' /\ lists'[n] = lists[n]
    BY <2>1 DEF ListKnows, ListIds
  <2>3. /\ ShareGoto(r, "idle") /\ ShareRemember(r, ListBlank) /\ UNCHANGED shareOverlap
        /\ sharePc[r] = "write"
    BY <1>2 DEF RefuseList, ShareEnd
  <2> QED BY <2>1, <2>2, <2>3, ShareBlankOK, ShareMove
<1> QED BY <1>1, <1>2, ShareHandlersInv, ListBeginsInv, WriteListInv DEF ShareNext

\* However price lists are written and invoices selected, every column of CapitalShares has
\* its type (settlement.service.ts:246-346, 476-551).
THEOREM ShareTypeCorrect == ShareSpec => []ShareTypeOK
<1>1. ShareIInv => ShareTypeOK
  BY DEF ShareIInv, ShareRows, ShareLocals, ShareTypeOK, ListKnows, Sent
<1> QED BY <1>1, ShareInitInv, ShareNextInv, PTL DEF ShareSpec

\* No day has two prices of one supplier, as long as no two requests write lists together
\* (settlement.service.ts:246-249): PriceListsApart for any suppliers, days and prices.
THEOREM ListsAlwaysApart == ShareSpec => []PriceListsApart
<1>1. ShareIInv => PriceListsApart
  BY DEF ShareIInv, ShareRows, ListsApart, PriceListsApart
<1> QED BY <1>1, ShareInitInv, ShareNextInv, PTL DEF ShareSpec


-----------------------------------------------------------------------------
(* The holder does not price the past.                                     *)

\* Of things that have a rank up to b, one has the highest.
LEMMA HighestOf ==
  ASSUME NEW T, T # {}, NEW b \in Nat, NEW f, \A x \in T : f[x] \in Nat /\ f[x] <= b
  PROVE  \E x \in T : \A y \in T : f[y] <= f[x]
<1> DEFINE gaps == {b - f[x] : x \in T}
<1>1. gaps \subseteq Nat /\ gaps # {}
  OBVIOUS
<1> HIDE DEF gaps
<1>2. PICK least \in gaps : \A y \in gaps : least <= y
  BY <1>1, LeastOf
<1>3. PICK x \in T : least = b - f[x]
  BY DEF gaps
<1>4. ASSUME NEW y \in T PROVE f[y] <= f[x]
  <2>1. b - f[y] \in gaps
    BY DEF gaps
  <2> QED BY <1>2, <1>3, <2>1
<1> QED BY <1>4

\* The last list of a supplier that has one.
LEMMA LatestIs ==
  ASSUME ShareRows, NEW s, ListsOf(s) # {}
  PROVE  Latest(s) \in ListsOf(s)
<1> DEFINE start == [l \in ListIds |-> lists[l].from]
<1>1. \A l \in ListsOf(s) : l \in ListIds /\ start[l] = lists[l].from /\ start[l] \in Nat /\ start[l] <= LastShareDay
  BY ListsFacts, ShareAssumption DEF ListsOf, ListRow, ShareDays
<1>2. LastShareDay \in Nat
  BY ShareAssumption
<1> HIDE DEF start
<1>3. PICK l \in ListsOf(s) : \A k \in ListsOf(s) : start[k] <= start[l]
  BY <1>1, <1>2, HighestOf
<1>4. \E x \in ListsOf(s) : \A k \in ListsOf(s) : lists[k].from <= lists[x].from
  BY <1>1, <1>3
<1> QED BY <1>4 DEF Latest

\* The list that prices a product on a day is one of those that do.
LEMMA WeekIs ==
  ASSUME NEW d, NEW g, WeekFor(d, g) # None
  PROVE  WeekFor(d, g) \in PricingLists(d, g)
  BY DEF WeekFor, StartLast

\* A share follows from the prices of the goods that are bought.
LEMMA ShareFollows ==
  ASSUME UNCHANGED <<sale, picked, moves>>, NEW i \in Sales,
         \A g \in Scope : PriceFor(i, g)' = PriceFor(i, g)
  PROVE  Share(i)' = Share(i)
<1>1. ScopedLines(i)' = ScopedLines(i) /\ \A n \in ScopedLines(i) : n.good \in Scope
  BY DEF ScopedLines
<1>2. Sellable(i)' = Sellable(i)
  BY <1>1 DEF Sellable
<1>3. NeedsPricing(i)' = NeedsPricing(i) /\ PricedLines(i)' = PricedLines(i)
  BY <1>1 DEF NeedsPricing, PricedLines
<1>4. GoodsCapital(i)' = GoodsCapital(i)
  <2>1. [n \in ScopedLines(i) |-> n.qty * PriceFor(i, n.good)]'
        = [n \in ScopedLines(i) |-> n.qty * PriceFor(i, n.good)]
    BY <1>1
  <2> QED BY <2>1 DEF GoodsCapital
<1>5. Cartons(i)' = Cartons(i)
  BY <1>3 DEF Cartons
<1>6. Profit(i)' = Profit(i)
  <2>1. \A n \in PricedLines(i) : n \in ScopedLines(i)
    BY DEF PricedLines
  <2>2. [n \in PricedLines(i) |-> n.qty * (n.price * sale[i].rate - PriceFor(i, n.good))]'
        = [n \in PricedLines(i) |-> n.qty * (n.price * sale[i].rate - PriceFor(i, n.good))]
    BY <1>1, <1>3, <2>1
  <2> QED BY <1>5, <2>2 DEF Profit
<1>7. CapitalAt(sale[i].date)' = CapitalAt(sale[i].date)
  BY DEF CapitalAt
<1> QED BY <1>2, <1>3, <1>4, <1>6, <1>7 DEF Share

\* The list n, which is new or written, says nothing of a day: who had what price on that
\* day has it still.
LEMMA OtherDaysKept ==
  ASSUME ShareRows, UNCHANGED <<sale, forced>>, NEW i \in Sales, NEW g, NEW n,
         \A k \in ListIds : k \in ListIds', \A k \in ListIds' \ {n} : k \in ListIds /\ lists'[k] = lists[k],
         n \in ListIds => ~Covers(n, sale[i].date), ~Covers(n, sale[i].date)',
         g \in Goods, forced[i][g] = None \/ forced[i][g] # n
  PROVE  PriceFor(i, g)' = PriceFor(i, g)
<1> DEFINE d == sale[i].date
<1>a. d' = d
  OBVIOUS
<1>1. PricingLists(d, g)' = PricingLists(d, g) /\ \A l \in PricingLists(d, g) : l \in ListIds /\ lists'[l] = lists[l]
  <2>1. \A l \in ListIds \ {n} : Covers(l, d)' <=> Covers(l, d)
    BY <1>a DEF Covers
  <2>2. PricingLists(d, g)' \subseteq PricingLists(d, g)
    BY <2>1 DEF PricingLists
  <2>3. PricingLists(d, g) \subseteq PricingLists(d, g)'
    BY <2>1 DEF PricingLists
  <2>4. \A l \in PricingLists(d, g) : l \in ListIds \ {n}
    BY DEF PricingLists
  <2> QED BY <2>2, <2>3, <2>4
<1>2. WeekFor(d, g)' = WeekFor(d, g)
  <2>1. StartLast(PricingLists(d, g))' = StartLast(PricingLists(d, g))
    BY <1>1 DEF StartLast
  <2> QED BY <1>a, <2>1 DEF WeekFor
<1>3. CASE forced[i][g] = None
  <2>1. ListFor(i, g)' = ListFor(i, g) /\ ListFor(i, g) = WeekFor(d, g)
    BY <1>2, <1>3 DEF ListFor
  <2>2. CASE WeekFor(d, g) = None
    BY <2>1, <2>2 DEF PriceFor
  <2>3. CASE WeekFor(d, g) # None
    BY <1>1, <2>1, <2>3, WeekIs DEF PriceFor
  <2> QED BY <2>2, <2>3
<1>4. CASE forced[i][g] # None
  <2>1. ListFor(i, g)' = ListFor(i, g) /\ ListFor(i, g) = forced[i][g]
    BY <1>4 DEF ListFor
  <2>2. forced[i][g] \in ListIds /\ lists'[forced[i][g]] = lists[forced[i][g]]
    BY <1>4 DEF ShareRows
  <2> QED BY <2>1, <2>2 DEF PriceFor
<1> QED BY <1>3, <1>4

\* From a list that is written on: the step is that of the request, and the list begins
\* after every day that is past.
LEMMA HolderStep ==
  ASSUME ShareIInv, ShareNext, NEW r \in Requests, NEW s \in Suppliers, HolderWrites(r, s),
         ~shareOverlap, NEW i \in Sales, Past(i, s)
  PROVE  Share(i)' = Share(i)
<1> DEFINE m == shareMem[r]
           d == sale[i].date
<1>1. WriteList(r)
  <2>1. lists' # lists /\ sharePc[r] = "write"
    BY DEF HolderWrites
  <2>2. \A q \in Requests, owner \in BOOLEAN, l \in Sent : ~BeginCreateList(q, owner, l)
    BY <2>1 DEF BeginCreateList, shareRows
  <2>3. \A q \in Requests, owner \in BOOLEAN, l \in Sent, of \in ListIds : ~BeginUpdateList(q, owner, of, l)
    BY <2>1 DEF BeginUpdateList, shareRows
  <2>4. \A q \in Requests : ~RefuseList(q)
    BY <2>1 DEF RefuseList, shareRows
  <2>5. /\ ~ \E f \in Sales, x \in SaleForms : WriteSale(f, x)
        /\ ~ \E S \in SUBSET Sales : SelectInvoices(S)
        /\ ~ SelectAll /\ ~ \E f \in Sales : UnselectInvoice(f)
    BY <2>1 DEF WriteSale, SelectInvoices, SelectAll, UnselectInvoice
  <2>6. /\ ~ \E f \in Sales, n \in {None, 1} : UpdateVehicle(f, n)
        /\ ~ \E f \in Sales, g \in Goods, l \in ListIds \cup {None} : SetItemWeek(f, g, l)
        /\ ~ \E f \in DOMAIN moves : MoveCapital(f)
    BY <2>1 DEF UpdateVehicle, SetItemWeek, MoveCapital
  <2>7. PICK q \in Requests : WriteList(q)
    BY <2>2, <2>3, <2>4, <2>5, <2>6 DEF ShareNext
  <2>8. sharePc[q] = "write"
    BY <2>7 DEF WriteList
  <2> QED BY <2>1, <2>7, <2>8 DEF ShareIInv, ShareLocals
<1>2. /\ Len(lists) \in Nat /\ ListIds \subseteq Nat \ {0} /\ 0 \notin ListIds
      /\ \A n \in ListIds : lists[n] \in ListRow
  BY ListsFacts DEF ShareIInv
<1>3. /\ ShareRows /\ ListsApart /\ ListKnows("write", m) /\ ~m.owner /\ m.list.supplier = s
  BY <1>1 DEF ShareIInv, ShareLocals, ShareRows, HolderWrites, WriteList
<1>4. /\ ListsOf(s) # {} /\ d < lists[Latest(s)].from /\ d \in Nat
      /\ \A g \in Goods : forced[i][g] = None \/ lists[forced[i][g]].supplier # s
  BY ShareAssumption DEF Past, ShareIInv, ShareRows, SaleForm
<1>5. /\ Latest(s) \in ListIds /\ lists[Latest(s)].supplier = s
      /\ lists[Latest(s)].from \in Nat /\ lists[Latest(s)].to \in Nat
  <2>1. Latest(s) \in ListsOf(s)
    BY <1>3, <1>4, LatestIs
  <2>2. Latest(s) \in ListIds /\ lists[Latest(s)].supplier = s
    BY <2>1 DEF ListsOf
  <2>3. ShareDays \subseteq Nat /\ \A row \in ListRow : row.from \in ShareDays /\ row.to \in ShareDays
    BY ShareAssumption DEF ListRow, ShareDays
  <2> QED BY <1>2, <2>2, <2>3
<1>6. UNCHANGED <<sale, picked, forced, moves>>
  BY <1>1 DEF WriteList
<1>7. ASSUME NEW n, \A k \in ListIds : k \in ListIds', \A k \in ListIds' \ {n} : k \in ListIds /\ lists'[k] = lists[k],
             d < lists'[n].from, lists'[n].from \in Nat, n \in ListIds => lists[n].supplier = s /\ d < lists[n].from
      PROVE  Share(i)' = Share(i)
  <2>1. (n \in ListIds => ~Covers(n, d)) /\ ~Covers(n, d)'
    <3>0. ShareDays \subseteq Nat /\ \A row \in ListRow : row.from \in ShareDays
      BY ShareAssumption DEF ListRow, ShareDays
    <3>1. n \in ListIds => lists[n].from \in Nat
      BY <1>2, <3>0
    <3>2. n \in ListIds => ~(lists[n].from <= d)
      BY <1>4, <1>7, <3>1
    <3>3. ~(lists'[n].from <= d)
      BY <1>4, <1>7
    <3>4. d' = d
      BY <1>6
    <3> QED BY <3>2, <3>3, <3>4 DEF Covers
  <2>2. \A g \in Goods : forced[i][g] = None \/ forced[i][g] # n
    <3> SUFFICES ASSUME NEW g \in Goods, forced[i][g] # None, forced[i][g] = n PROVE FALSE
      OBVIOUS
    <3>1. n \in ListIds
      BY <1>3 DEF ShareRows
    <3> QED BY <1>4, <1>7, <3>1
  <2>3. \A g \in Scope : g \in Goods
    BY ShareAssumption DEF Scope
  <2>4. \A g \in Scope : PriceFor(i, g)' = PriceFor(i, g)
    BY <1>3, <1>6, <1>7, <2>1, <2>2, <2>3, OtherDaysKept
  <2> QED BY <1>6, <2>4, ShareFollows
<1>8. CASE m.of = 0
  <2>1. m.list \in ListRow /\ lists[Latest(s)].to < m.list.from
    BY <1>3, <1>4, <1>8 DEF ListKnows, MayWrite
  <2>2. lists' = Append(lists, m.list)
    BY <1>1, <1>8 DEF WriteList
  <2>3. /\ Len(lists') = Len(lists) + 1
        /\ \A n \in ListIds : lists'[n] = lists[n]
        /\ lists'[Len(lists) + 1] = m.list
    BY <1>3, <2>1, <2>2, SeqAppended DEF ShareRows, ListIds
  <2>4. ListIds' = ListIds \cup {Len(lists) + 1} /\ Len(lists) + 1 \notin ListIds
    BY <1>2, <2>3 DEF ListIds
  <2>5. lists[Latest(s)].from <= lists[Latest(s)].to /\ m.list.from \in Nat
    BY <1>3, <1>5, <2>1, ShareAssumption DEF ListsApart, ListRow, ShareDays
  <2>6. d < m.list.from
    BY <1>4, <1>5, <2>1, <2>5
  <2>7. PICK n : n = Len(lists) + 1
    OBVIOUS
  <2> QED BY <1>7, <2>3, <2>4, <2>5, <2>6, <2>7
<1>9. CASE m.of # 0
  <2> DEFINE row == Merged(m.list, lists[m.of])
  <2>1. m.of \in ListIds /\ m.list \in Sent /\ lists[m.of].supplier = s
    BY <1>3, <1>9 DEF ListKnows
  <2>2. row \in ListRow /\ row.supplier = s
    BY <1>2, <2>1, MergedRow
  <2>3. MayWrite(m.owner, m.of, row)
    BY <1>3, <1>9 DEF ListKnows
  <2> HIDE DEF row
  <2>4. Latest(s) = m.of /\ row.from = lists[m.of].from
    BY <1>3, <1>9, <2>2, <2>3 DEF MayWrite
  <2>5. lists' = [lists EXCEPT ![m.of] = row]
    BY <1>1, <1>9 DEF WriteList, row
  <2>6. /\ Len(lists') = Len(lists) /\ lists'[m.of] = row
        /\ \A n \in ListIds \ {m.of} : lists'[n] = lists[n]
    BY <1>3, <2>1, <2>2, <2>5 DEF ShareRows, ListIds
  <2>7. ListIds' = ListIds
    BY <2>6 DEF ListIds
  <2>8. PICK n : n = m.of
    OBVIOUS
  <2>9. row.from \in Nat
    BY <2>2, ShareAssumption DEF ListRow, ShareDays
  <2> QED BY <1>4, <1>7, <2>1, <2>4, <2>6, <2>7, <2>8, <2>9
<1> QED BY <1>8, <1>9

\* Who is paid from these numbers does not price the past again
\* (settlement.service.ts:303-304): HolderKeepsPast for any suppliers, lists and invoices.
THEOREM PastAlwaysKept == ShareSpec => HolderKeepsPast
<1>1. ShareIInv /\ [ShareNext]_shareVars => [PastKept]_shareVars
  <2> SUFFICES ASSUME ShareIInv, ShareNext PROVE PastKept
    OBVIOUS
  <2> QED BY HolderStep DEF PastKept
<1> QED BY <1>1, ShareInitInv, ShareNextInv, PTL DEF ShareSpec, HolderKeepsPast

-----------------------------------------------------------------------------
(* Reports.                                                                *)

SpreadOn(c, p) == {n \in DOMAIN c : c[n] # None /\ c[n].type = "spread" /\ c[n].on = p}
SumOut(c, S) == Sum([n \in S |-> c[n].out])

ReportTables ==
    /\ bill \in [Bills -> BillRow \cup {None}]
    /\ billsMade \subseteq Bills
    /\ wagon \in [Wagons -> Bills \cup {None, "no"}]
    /\ budget \in [Budgets -> BudgetForm]
    /\ percent \in 0 .. 100
    /\ cost \in Seq(CostEntry \cup {None})
    /\ charge \in Seq(ChargeEntry \cup {None})

BillsKnown ==
    \A p \in Bills : IsBill(p) =>
        /\ p \in billsMade
        /\ bill[p].kind = "DEAL" => ~bill[p].fake

\* What the reports rely on of an expense: what was put on goods, on a trip or on customs was
\* paid, and on a vehicle nothing is of trade alone.
CostsKnown ==
    \A n \in CostRows :
        /\ cost[n].type \in {"rent", "customs"} => cost[n].out > 0
        /\ cost[n].on # None => cost[n].type \in ExpenseTypes \cup {"spread"}
        /\ cost[n].type \in ExpenseTypes =>
            /\ cost[n].on # None => cost[n].out > 0
            /\ cost[n].wagon # None => cost[n].activity # "TRADE"

\* What was spread over the lines of a purchase is what its rows say.
SpreadCounted ==
    \A p \in Bills \ unspread : IsBill(p) => bill[p].spread = SumOut(cost, SpreadOn(cost, p))

ReportIInv == ReportTables /\ ReportTypeOK /\ BillsKnown /\ CostsKnown /\ SpreadCounted

LEMMA RowsMapped ==
  ASSUME NEW T, NEW s \in Seq(T), NEW g, g = [n \in DOMAIN s |-> g[n]], \A n \in DOMAIN s : g[n] \in T
  PROVE  g \in Seq(T) /\ DOMAIN g = DOMAIN s
<1>1. DOMAIN s = 1 .. Len(s) /\ Len(s) \in Nat
  OBVIOUS
<1>2. g \in [1 .. Len(s) -> T]
  BY <1>1
<1> QED BY <1>1, <1>2

LEMMA RowsAppended ==
  ASSUME NEW T, NEW s \in Seq(T), NEW x \in T
  PROVE  /\ Append(s, x) \in Seq(T)
         /\ DOMAIN Append(s, x) = DOMAIN s \cup {Len(s) + 1} /\ Len(s) + 1 \notin DOMAIN s
         /\ \A n \in DOMAIN s : Append(s, x)[n] = s[n]
         /\ Append(s, x)[Len(s) + 1] = x
  OBVIOUS

LEMMA RowsFinite ==
  ASSUME NEW T, NEW s \in Seq(T), NEW S \in SUBSET (DOMAIN s)
  PROVE  IsFiniteSet(S)
<1>1. DOMAIN s = 1 .. Len(s) /\ Len(s) \in Nat
  OBVIOUS
<1>2. IsFiniteSet(1 .. Len(s))
  BY <1>1, FS_Interval
<1> QED BY <1>1, <1>2, FS_Subset

LEMMA SumOutIs ==
  ASSUME NEW c \in Seq(CostEntry \cup {None}), NEW S \in SUBSET {n \in DOMAIN c : c[n] # None}
  PROVE  \A f : (\A n \in S : f[n] = c[n].out) => SumOut(c, S) = TotalOf(f, S)
<1> SUFFICES ASSUME NEW f, \A n \in S : f[n] = c[n].out PROVE SumOut(c, S) = TotalOf(f, S)
  OBVIOUS
<1>1. IsFiniteSet(S)
  BY RowsFinite
<1>2. PICK g : g = [n \in S |-> c[n].out]
  OBVIOUS
<1>3. g = [n \in S |-> f[n]]
  BY <1>2
<1>4. SumFunction(g) = TotalOf(f, S)
  BY <1>1, <1>3, SumOfFunction
<1> QED BY <1>2, <1>4 DEF SumOut, Sum

LEMMA SpreadSame ==
  ASSUME NEW c \in Seq(CostEntry \cup {None}), NEW d \in Seq(CostEntry \cup {None}), NEW p,
         SpreadOn(d, p) = SpreadOn(c, p), \A n \in SpreadOn(c, p) : d[n].out = c[n].out
  PROVE  SumOut(d, SpreadOn(d, p)) = SumOut(c, SpreadOn(c, p))
<1>1. PICK S : S = SpreadOn(c, p)
  OBVIOUS
<1>2. [n \in S |-> c[n].out] = [n \in S |-> d[n].out]
  BY <1>1
<1> QED BY <1>1, <1>2 DEF SumOut

LEMMA SpreadMore ==
  ASSUME NEW c \in Seq(CostEntry \cup {None}), NEW x \in CostEntry, NEW p, x.type = "spread", x.on = p
  PROVE  SumOut(Append(c, x), SpreadOn(Append(c, x), p)) = SumOut(c, SpreadOn(c, p)) + x.out
<1>1. PICK d, S, T, k : d = Append(c, x) /\ S = SpreadOn(c, p) /\ T = SpreadOn(d, p) /\ k = Len(c) + 1
  OBVIOUS
<1>2. /\ d \in Seq(CostEntry \cup {None}) /\ DOMAIN d = DOMAIN c \cup {k} /\ k \notin DOMAIN c
      /\ (\A n \in DOMAIN c : d[n] = c[n]) /\ d[k] = x /\ x # None
  BY <1>1, RowsAppended, ReportAssumption
<1>3. T = S \cup {k} /\ k \notin S /\ S = T \ {k} /\ k \in T
  BY <1>1, <1>2 DEF SpreadOn
<1>4. PICK f : f = [n \in T |-> d[n].out]
  OBVIOUS
<1>5. \A n \in T : d[n] \in CostEntry /\ d[n] # None
  BY <1>1, <1>2 DEF SpreadOn
<1>6. \A n \in T : f[n] \in Int
  BY <1>4, <1>5 DEF CostEntry
<1>7. SumOut(d, T) = TotalOf(f, T)
  <2>1. T \in SUBSET {n \in DOMAIN d : d[n] # None}
    BY <1>1 DEF SpreadOn
  <2> QED BY <1>2, <1>4, <2>1, SumOutIs
<1>8. SumOut(c, S) = TotalOf(f, S)
  <2>1. S \in SUBSET {n \in DOMAIN c : c[n] # None}
    BY <1>1 DEF SpreadOn
  <2>2. \A n \in S : f[n] = c[n].out
    BY <1>2, <1>3, <1>4, <2>1
  <2> QED BY <2>1, <2>2, SumOutIs
<1>9. TotalOf(f, T) = f[k] + TotalOf(f, S) /\ TotalOf(f, S) \in Int
  <2>1. IsFiniteSet(T)
    <3>1. T \in SUBSET (DOMAIN d)
      BY <1>1 DEF SpreadOn
    <3> QED BY <1>2, <3>1, RowsFinite
  <2> QED BY <1>3, <1>6, <2>1, SumOneMore, Zenon
<1>10. f[k] = x.out /\ x.out \in Int
  BY <1>2, <1>3, <1>4, <1>6
<1> QED BY <1>1, <1>7, <1>8, <1>9, <1>10

LEMMA ReportStart == ReportInit => ReportIInv
<1> SUFFICES ASSUME ReportInit PROVE ReportIInv
  OBVIOUS
<1> USE DEF ReportInit
<1>1. CostRows = {} /\ ChargeRows = {} /\ \A p \in Bills : ~IsBill(p)
  BY DEF CostRows, ChargeRows, IsBill
<1>2. ReportTables
  BY ReportAssumption DEF ReportTables
<1>3. ReportTypeOK
  BY <1>1 DEF ReportTypeOK
<1> QED BY <1>1, <1>2, <1>3 DEF ReportIInv, BillsKnown, CostsKnown, SpreadCounted

\* The rows of the tables, one by one.
LEMMA RowsTyped ==
  ASSUME ReportTables
  PROVE  /\ \A p : IsBill(p) => p \in Bills /\ bill[p] \in BillRow
         /\ \A n \in CostRows : cost[n] \in CostEntry
         /\ \A n \in ChargeRows : charge[n] \in ChargeEntry
<1>1. \A p : IsBill(p) => p \in Bills /\ bill[p] \in BillRow
  BY DEF ReportTables, IsBill
<1>2. \A n \in CostRows : cost[n] \in CostEntry
  BY DEF ReportTables, CostRows
<1>3. \A n \in ChargeRows : charge[n] \in ChargeEntry
  BY DEF ReportTables, ChargeRows
<1> QED BY <1>1, <1>2, <1>3

LEMMA WriteBillStep ==
  ASSUME ReportIInv, NEW q \in Bills, NEW form \in BillForms, WriteBill(q, form)
  PROVE  ReportIInv'
<1> USE DEF ReportIInv
<1>1. PICK row : row = [kind |-> form.kind, fake |-> form.fake, goods |-> form.goods,
             discount |-> form.discount, freight |-> form.freight, day |-> form.day,
             spread |-> IF IsBill(q) THEN bill[q].spread ELSE 0]
  OBVIOUS
<1>2. /\ bill' = [bill EXCEPT ![q] = row]
      /\ billsMade' = billsMade \cup {q}
      /\ UNCHANGED <<wagon, budget, percent, cost, charge, unspread>>
  BY <1>1 DEF WriteBill
<1>3. row \in BillRow /\ row # None /\ (row.kind = "DEAL" => ~row.fake)
  <2>1. form \in BillForm /\ (form.kind = "DEAL" => ~form.fake)
    BY ReportAssumption
  <2>2. IsBill(q) => bill[q].spread \in Int
    BY RowsTyped DEF BillRow
  <2>3. row \in BillRow
    BY <1>1, <2>1, <2>2 DEF BillForm, BillRow
  <2>4. row.kind = form.kind /\ row.fake = form.fake
    BY <1>1
  <2> QED BY <2>1, <2>3, <2>4, ReportAssumption
<1>4. /\ bill'[q] = row /\ IsBill(q)'
      /\ \A p \in Bills : p # q => bill'[p] = bill[p] /\ (IsBill(p)' <=> IsBill(p))
  BY <1>2, <1>3 DEF ReportTables, IsBill
<1>5. CostRows' = CostRows /\ ChargeRows' = ChargeRows /\ \A p : IsBill(p) => IsBill(p)'
  BY <1>2, <1>4 DEF CostRows, ChargeRows, IsBill
<1>6. ReportTables'
  BY <1>2, <1>3 DEF ReportTables
<1>7. ReportTypeOK'
  BY <1>2, <1>5 DEF ReportTypeOK, IsWagon
<1>8. BillsKnown'
  BY <1>2, <1>3, <1>4 DEF BillsKnown
<1>9. CostsKnown'
  BY <1>2, <1>5 DEF CostsKnown
<1>10. SpreadCounted'
  <2> SUFFICES ASSUME NEW p \in Bills \ unspread, IsBill(p)'
               PROVE  bill'[p].spread = SumOut(cost, SpreadOn(cost, p))
    BY <1>2 DEF SpreadCounted, SpreadOn, SumOut
  <2>1. CASE IsBill(p)
    BY <1>1, <1>4, <2>1 DEF SpreadCounted
  <2>2. CASE ~IsBill(p)
    <3>1. p = q /\ bill'[p].spread = 0
      BY <1>1, <1>4, <2>2
    <3>2. SpreadOn(cost, p) = {}
      BY <2>2, ReportAssumption DEF ReportTypeOK, CostRows, SpreadOn
    <3>3. SumOut(cost, {}) = 0
      <4>1. \A f : SumOut(cost, {}) = TotalOf(f, {})
        BY SumOutIs DEF ReportTables
      <4> QED BY <4>1, SumEmpty
    <3> QED BY <3>1, <3>2, <3>3
  <2> QED BY <2>1, <2>2
<1> QED BY <1>6, <1>7, <1>8, <1>9, <1>10

\* Steps that leave expenses and bills as they are.
LEMMA LinkWagonStep ==
  ASSUME ReportIInv, NEW w \in Wagons, NEW q \in Bills \cup {None}, LinkWagon(w, q)
  PROVE  ReportIInv'
<1> USE DEF ReportIInv
<1>1. /\ wagon' = [wagon EXCEPT ![w] = q] /\ (q # None => IsBill(q))
      /\ UNCHANGED <<bill, billsMade, budget, percent, cost, charge, unspread>>
  BY DEF LinkWagon
<1>2. /\ CostRows' = CostRows /\ ChargeRows' = ChargeRows /\ (\A p : IsBill(p)' <=> IsBill(p))
      /\ \A v \in Wagons : IsWagon(v) => IsWagon(v)'
  BY <1>1, ReportAssumption DEF CostRows, ChargeRows, IsBill, IsWagon, ReportTables
<1>3. ReportTables'
  BY <1>1 DEF ReportTables
<1>4. ReportTypeOK'
  <2>1. \A v \in Wagons : (wagon[v] \in {"no", None} \/ IsBill(wagon[v]))'
    <3> SUFFICES ASSUME NEW v \in Wagons PROVE (wagon[v] \in {"no", None} \/ IsBill(wagon[v]))'
      OBVIOUS
    <3>1. wagon'[v] = wagon[v] \/ wagon'[v] = q
      BY <1>1 DEF ReportTables
    <3>2. wagon[v] \in {"no", None} \/ IsBill(wagon[v])
      BY DEF ReportTypeOK
    <3>3. CASE wagon'[v] = wagon[v]
      BY <1>1, <3>2, <3>3 DEF IsBill
    <3>4. CASE wagon'[v] = q
      BY <1>1, <3>4 DEF IsBill
    <3> QED BY <3>1, <3>3, <3>4
  <2>2. \A n \in ChargeRows : charge[n].wagon = None \/ IsWagon(charge[n].wagon)'
    <3> SUFFICES ASSUME NEW n \in ChargeRows, charge[n].wagon # None PROVE IsWagon(charge[n].wagon)'
      OBVIOUS
    <3>1. charge[n].wagon \in Wagons
      BY RowsTyped DEF ChargeEntry
    <3>2. IsWagon(charge[n].wagon)
      BY DEF ReportTypeOK
    <3>3. PICK v \in Wagons : v = charge[n].wagon
      BY <3>1
    <3>4. IsWagon(v)'
      BY <1>2, <3>2, <3>3
    <3> QED BY <1>1, <3>3, <3>4 DEF IsWagon
  <2>3. \A n \in CostRows : cost[n].wagon = None \/ IsWagon(cost[n].wagon)'
    <3> SUFFICES ASSUME NEW n \in CostRows, cost[n].wagon # None PROVE IsWagon(cost[n].wagon)'
      OBVIOUS
    <3>1. cost[n].wagon \in Wagons
      BY RowsTyped DEF CostEntry
    <3>2. IsWagon(cost[n].wagon)
      BY DEF ReportTypeOK
    <3>3. PICK v \in Wagons : v = cost[n].wagon
      BY <3>1
    <3>4. IsWagon(v)'
      BY <1>2, <3>2, <3>3
    <3> QED BY <1>1, <3>3, <3>4 DEF IsWagon
  <2> QED BY <1>1, <1>2, <2>1, <2>2, <2>3 DEF ReportTypeOK
<1>5. BillsKnown' /\ CostsKnown' /\ SpreadCounted'
  BY <1>1, <1>2 DEF BillsKnown, CostsKnown, SpreadCounted, SpreadOn, SumOut
<1> QED BY <1>3, <1>4, <1>5

LEMMA ChangeStep ==
  ASSUME ReportIInv,
         \/ \E b \in Budgets, form \in BudgetForms : ChangeBudget(b, form)
         \/ \E v \in Percents : ChangePercent(v)
  PROVE  ReportIInv'
<1> USE DEF ReportIInv
<1>1. /\ budget' \in [Budgets -> BudgetForm] /\ percent' \in 0 .. 100
      /\ UNCHANGED <<bill, billsMade, wagon, cost, charge, unspread>>
  BY ReportAssumption DEF ChangeBudget, ChangePercent, ReportTables
<1>2. CostRows' = CostRows /\ ChargeRows' = ChargeRows /\ (\A p : IsBill(p)' <=> IsBill(p))
      /\ \A v : IsWagon(v)' <=> IsWagon(v)
  BY <1>1 DEF CostRows, ChargeRows, IsBill, IsWagon
<1>3. ReportTables'
  BY <1>1 DEF ReportTables
<1>4. ReportTypeOK'
  BY <1>1, <1>2 DEF ReportTypeOK
<1>5. BillsKnown' /\ CostsKnown' /\ SpreadCounted'
  BY <1>1, <1>2 DEF BillsKnown, CostsKnown, SpreadCounted, SpreadOn, SumOut
<1> QED BY <1>3, <1>4, <1>5

LEMMA ChargeStep ==
  ASSUME ReportIInv,
         \/ \E p \in Bills, total \in Totals : AddCharge(p, total)
         \/ \E w \in Wagons, n \in DOMAIN charge, assign \in BOOLEAN : AssignCharge(n, w, assign)
  PROVE  ReportIInv'
<1> USE DEF ReportIInv
<1>1. UNCHANGED <<bill, billsMade, wagon, budget, percent, cost, unspread>>
  BY DEF AddCharge, AssignCharge
<1>2. CostRows' = CostRows /\ (\A p : IsBill(p)' <=> IsBill(p)) /\ \A v : IsWagon(v)' <=> IsWagon(v)
  BY <1>1 DEF CostRows, IsBill, IsWagon
<1> DEFINE Fits(c) == c \in ChargeEntry /\ IsBill(c.bill) /\ (c.wagon = None \/ IsWagon(c.wagon))
<1>3. charge \in Seq(ChargeEntry \cup {None}) /\ \A n \in DOMAIN charge : charge[n] = None \/ Fits(charge[n])
  BY RowsTyped DEF ReportTables, ReportTypeOK, ChargeRows
<1>4. charge' \in Seq(ChargeEntry \cup {None}) /\ \A n \in DOMAIN charge' : charge'[n] = None \/ Fits(charge'[n])
  <2>1. ASSUME NEW p \in Bills, NEW total \in Totals, AddCharge(p, total)
        PROVE  charge' \in Seq(ChargeEntry \cup {None}) /\ \A n \in DOMAIN charge' : charge'[n] = None \/ Fits(charge'[n])
    <3>1. PICK c : c = [bill |-> p, wagon |-> None, total |-> total]
      OBVIOUS
    <3>2. Fits(c)
      BY <2>1, <3>1, ReportAssumption DEF AddCharge, ChargeEntry
    <3>3. charge' = Append(charge, c)
      BY <2>1, <3>1 DEF AddCharge
    <3> HIDE DEF Fits
    <3>4. c \in ChargeEntry \cup {None}
      BY <3>2 DEF Fits
    <3>5. PICK d : d = Append(charge, c)
      OBVIOUS
    <3>6. /\ d \in Seq(ChargeEntry \cup {None}) /\ DOMAIN d = DOMAIN charge \cup {Len(charge) + 1}
          /\ (\A n \in DOMAIN charge : d[n] = charge[n]) /\ d[Len(charge) + 1] = c
      BY <1>3, <3>4, <3>5, RowsAppended
    <3>7. \A n \in DOMAIN d : d[n] = None \/ Fits(d[n])
      BY <1>3, <3>2, <3>6
    <3> QED BY <3>3, <3>5, <3>6, <3>7
  <2>2. ASSUME NEW w \in Wagons, NEW n \in DOMAIN charge, NEW assign \in BOOLEAN, AssignCharge(n, w, assign)
        PROVE  charge' \in Seq(ChargeEntry \cup {None}) /\ \A m \in DOMAIN charge' : charge'[m] = None \/ Fits(charge'[m])
    <3>1. PICK v : v = IF assign THEN w ELSE None
      OBVIOUS
    <3>2. PICK c : c = [charge[n] EXCEPT !.wagon = v]
      OBVIOUS
    <3>3. charge' = [charge EXCEPT ![n] = c] /\ IsWagon(w) /\ n \in ChargeRows
      BY <2>2, <3>1, <3>2 DEF AssignCharge
    <3>4. Fits(c)
      <4>1. Fits(charge[n])
        BY <1>3, <3>3 DEF ChargeRows
      <4>2. c \in ChargeEntry /\ c.bill = charge[n].bill /\ c.wagon = v
        BY <3>1, <3>2, <4>1 DEF ChargeEntry
      <4> QED BY <3>1, <3>3, <4>1, <4>2
    <3> HIDE DEF Fits
    <3>5. DOMAIN charge' = DOMAIN charge /\ \A m \in DOMAIN charge : charge'[m] = c \/ charge'[m] = charge[m]
      BY <3>3
    <3>6. charge' = [m \in DOMAIN charge |-> charge'[m]]
      BY <3>3
    <3>7. \A m \in DOMAIN charge : charge'[m] \in ChargeEntry \cup {None}
      BY <1>3, <3>4, <3>5 DEF Fits
    <3>8. charge' \in Seq(ChargeEntry \cup {None})
      BY <1>3, <3>6, <3>7, RowsMapped
    <3> QED BY <1>3, <3>4, <3>5, <3>8
  <2> QED BY <2>1, <2>2
<1>5. ReportTables'
  BY <1>1, <1>4 DEF ReportTables
<1>6. ReportTypeOK'
  <2>1. \A n \in ChargeRows' : Fits(charge'[n])
    BY <1>4 DEF ChargeRows
  <2> QED BY <1>1, <1>2, <2>1 DEF ReportTypeOK
<1>7. BillsKnown' /\ CostsKnown' /\ SpreadCounted'
  BY <1>1, <1>2 DEF BillsKnown, CostsKnown, SpreadCounted, SpreadOn, SumOut
<1> QED BY <1>5, <1>6, <1>7

\* What the invariant says of one row of expenses.
CostFits(c) ==
    /\ c \in CostEntry
    /\ c.wagon = None \/ IsWagon(c.wagon)
    /\ c.on = None \/ IsBill(c.on)
    /\ (c.activity = "SHARED") = (c.pct \in 0 .. 100)
    /\ c.type \in {"rent", "customs"} => c.out > 0
    /\ c.on # None => c.type \in ExpenseTypes \cup {"spread"}
    /\ c.type \in ExpenseTypes =>
        /\ c.on # None => c.out > 0
        /\ c.wagon # None => c.activity # "TRADE"

CostsFit == cost \in Seq(CostEntry \cup {None}) /\ \A n \in DOMAIN cost : cost[n] = None \/ CostFits(cost[n])

\* and of the other tables
LinksFit ==
    /\ \A w \in Wagons : wagon[w] \in {"no", None} \/ IsBill(wagon[w])
    /\ \A n \in ChargeRows :
        /\ IsBill(charge[n].bill)
        /\ charge[n].wagon = None \/ IsWagon(charge[n].wagon)

LEMMA CostsFitNow == ReportIInv => CostsFit /\ LinksFit
<1> SUFFICES ASSUME ReportIInv PROVE CostsFit /\ LinksFit
  OBVIOUS
<1>1. ReportTables /\ ReportTypeOK /\ CostsKnown
  BY DEF ReportIInv
<1>2. \A n \in CostRows : CostFits(cost[n])
  BY <1>1, RowsTyped DEF ReportTypeOK, CostsKnown, CostFits
<1> QED BY <1>1, <1>2 DEF CostsFit, LinksFit, CostRows, ReportTables, ReportTypeOK

LEMMA CostsFitNext == CostsFit' /\ LinksFit' => ReportTypeOK' /\ CostsKnown'
<1> SUFFICES ASSUME CostsFit', LinksFit' PROVE ReportTypeOK' /\ CostsKnown'
  OBVIOUS
<1>1. (\A n \in CostRows : CostFits(cost[n]))'
  BY DEF CostsFit, CostRows
<1>2. ReportTypeOK'
  <2>1. (\A n \in CostRows :
            /\ cost[n].wagon = None \/ IsWagon(cost[n].wagon)
            /\ cost[n].on = None \/ IsBill(cost[n].on)
            /\ cost[n].activity \in {"TRADE", "SHIPPING", "SHARED"}
            /\ (cost[n].activity = "SHARED") = (cost[n].pct \in 0 .. 100))'
    BY <1>1 DEF CostFits, CostEntry, Activities
  <2> QED BY <2>1 DEF ReportTypeOK, LinksFit
<1>3. CostsKnown'
  BY <1>1 DEF CostsKnown, CostFits
<1> QED BY <1>2, <1>3

RowArgs(type, b, w, p, out, exp, day) ==
    /\ type \in {"expense", "warehouse", "customs", "rent", "extra", "spread"}
    /\ b \in Budgets \cup {None} /\ w \in Wagons \cup {None} /\ p \in Bills \cup {None}
    /\ out \in Int /\ exp \in Int /\ day \in Dates
    /\ w # None => IsWagon(w)
    /\ p # None => IsBill(p) /\ type \in ExpenseTypes \cup {"spread"}
    /\ type \in {"rent", "customs"} => out > 0
    /\ p # None /\ type \in ExpenseTypes => out > 0

LEMMA CostRowFits ==
  \A type, b, w, p, out, exp, day :
    ReportIInv /\ RowArgs(type, b, w, p, out, exp, day) =>
      LET x == CostRow(type, b, w, p, out, exp, day)
      IN CostFits(x) /\ x # None /\ x.type = type /\ x.on = p /\ x.out = out
<1> SUFFICES ASSUME NEW type, NEW b, NEW w, NEW p, NEW out, NEW exp, NEW day,
                    ReportIInv, RowArgs(type, b, w, p, out, exp, day),
                    NEW x, x = CostRow(type, b, w, p, out, exp, day)
             PROVE  CostFits(x) /\ x # None /\ x.type = type /\ x.on = p /\ x.out = out
  OBVIOUS
<1> USE DEF RowArgs
<1>1. PICK a : a = IF type \in {"customs", "rent", "extra"} THEN "SHIPPING" ELSE Stamped(type, b, w # None)
  OBVIOUS
<1>2. x = [type |-> type, budget |-> b, wagon |-> w, on |-> p, product |-> p # None, out |-> out,
           exp |-> exp, day |-> day, activity |-> a, pct |-> Pct(a)]
  BY <1>1 DEF CostRow
<1>3. a \in Activities /\ (w # None => a # "TRADE")
  <2>1. b # None => budget[b] \in BudgetForm
    BY DEF ReportIInv, ReportTables
  <2>2. b # None => budget[b].activity \in Activities
    BY <2>1 DEF BudgetForm
  <2> QED BY <1>1, <2>2 DEF Stamped, Activities
<1>4. Pct(a) \in (0 .. 100) \cup {None} /\ ((a = "SHARED") = (Pct(a) \in 0 .. 100))
  <2>1. percent \in 0 .. 100 /\ None \notin 0 .. 100
    <3>1. None \notin Int
      BY ReportAssumption
    <3>2. percent \in 0 .. 100
      BY DEF ReportIInv, ReportTables
    <3> QED BY <3>1, <3>2
  <2>2. CASE a = "SHARED"
    BY <2>1, <2>2 DEF Pct
  <2>3. CASE a # "SHARED"
    BY <2>1, <2>3 DEF Pct
  <2> QED BY <2>2, <2>3
<1>5. x \in CostEntry
  <2>1. (p # None) \in BOOLEAN
    OBVIOUS
  <2> QED BY <1>2, <1>3, <1>4, <2>1 DEF CostEntry
<1>6. /\ x.type = type /\ x.wagon = w /\ x.on = p /\ x.out = out /\ x.activity = a /\ x.pct = Pct(a)
  BY <1>2
<1>7. CostFits(x)
  BY <1>3, <1>4, <1>5, <1>6 DEF CostFits
<1> QED BY <1>5, <1>6, <1>7, ReportAssumption

\* A row more.
LEMMA CostAppended ==
  ASSUME ReportIInv, NEW x, CostFits(x), cost' = Append(cost, x),
         UNCHANGED <<wagon, charge>>, \A p : IsBill(p) => IsBill(p)'
  PROVE  CostsFit' /\ LinksFit'
<1>1. CostsFit /\ LinksFit
  BY CostsFitNow
<1>2. (\A w : IsWagon(w)' <=> IsWagon(w)) /\ ChargeRows' = ChargeRows
  BY DEF IsWagon, ChargeRows
<1>3. ASSUME NEW c, CostFits(c) PROVE (CostFits(c))'
  BY <1>2, <1>3 DEF CostFits
<1>4. CostsFit'
  <2>1. cost \in Seq(CostEntry \cup {None}) /\ x \in CostEntry \cup {None}
    BY <1>1 DEF CostsFit, CostFits
  <2>2. /\ cost' \in Seq(CostEntry \cup {None}) /\ DOMAIN cost' = DOMAIN cost \cup {Len(cost) + 1}
        /\ (\A n \in DOMAIN cost : cost'[n] = cost[n]) /\ cost'[Len(cost) + 1] = x
    BY <2>1, RowsAppended
  <2>3. ASSUME NEW n \in DOMAIN cost' PROVE \E c : cost'[n] = c /\ (c = None \/ CostFits(c))
    BY <1>1, <2>2 DEF CostsFit
  <2>4. ASSUME NEW n \in DOMAIN cost' PROVE (cost[n] = None \/ CostFits(cost[n]))'
    <3>1. PICK c : cost'[n] = c /\ (c = None \/ CostFits(c))
      BY <2>3
    <3>2. c = None \/ (CostFits(c))'
      BY <1>3, <3>1
    <3> QED BY <3>1, <3>2 DEF CostFits
  <2> QED BY <2>2, <2>4 DEF CostsFit
<1>5. LinksFit'
  BY <1>1, <1>2 DEF LinksFit
<1> QED BY <1>4, <1>5

LEMMA AppendStep ==
  ASSUME ReportIInv, NEW x, CostFits(x), x.type # "spread", x # None, cost' = Append(cost, x),
         UNCHANGED <<bill, billsMade, wagon, budget, percent, charge, unspread>>
  PROVE  ReportIInv'
<1>1. ReportTables /\ BillsKnown /\ SpreadCounted
  BY DEF ReportIInv
<1>2. \A p : IsBill(p)' <=> IsBill(p)
  BY DEF IsBill
<1>3. CostsFit' /\ LinksFit'
  BY <1>2, CostAppended
<1>4. ReportTypeOK' /\ CostsKnown'
  BY <1>3, CostsFitNext
<1>5. ReportTables'
  BY <1>1, <1>3 DEF ReportTables, CostsFit
<1>6. BillsKnown'
  BY <1>1, <1>2 DEF BillsKnown
<1>7. SpreadCounted'
  <2> SUFFICES ASSUME NEW p \in Bills \ unspread, IsBill(p)
               PROVE  bill[p].spread = (SumOut(cost, SpreadOn(cost, p)))'
    BY <1>2 DEF SpreadCounted
  <2>1. PICK c, d : c = cost /\ d = cost'
    OBVIOUS
  <2>2. c \in Seq(CostEntry \cup {None}) /\ d \in Seq(CostEntry \cup {None}) /\ x \in CostEntry \cup {None}
    BY <1>1, <1>5, <2>1 DEF ReportTables, CostFits
  <2>3. /\ DOMAIN d = DOMAIN c \cup {Len(c) + 1} /\ Len(c) + 1 \notin DOMAIN c
        /\ (\A n \in DOMAIN c : d[n] = c[n]) /\ d[Len(c) + 1] = x
    BY <2>1, <2>2, RowsAppended
  <2>4. SpreadOn(d, p) = SpreadOn(c, p) /\ \A n \in SpreadOn(c, p) : d[n].out = c[n].out
    BY <2>3 DEF SpreadOn
  <2>5. SumOut(d, SpreadOn(d, p)) = SumOut(c, SpreadOn(c, p))
    BY <2>2, <2>4, SpreadSame
  <2>6. bill[p].spread = SumOut(c, SpreadOn(c, p))
    BY <1>1, <2>1 DEF SpreadCounted
  <2> QED BY <2>1, <2>5, <2>6 DEF SumOut, SpreadOn
<1> QED BY <1>4, <1>5, <1>6, <1>7 DEF ReportIInv

LEMMA PostStep ==
  ASSUME ReportIInv,
         \/ \E out \in Costs, day \in Dates, w \in Wagons \cup {None} :
              \/ \E type \in ExpenseTypes, b \in Budgets \cup {None}, p \in Bills \cup {None} :
                    PostExpense(type, b, w, p, out, day)
              \/ \E type \in {"customs", "rent", "extra"} : PostShipping(type, w, out, day)
         \/ \E b \in Budgets, day \in Dates, exp \in Costs : exp > 0 /\ PostCustody(b, exp, day)
  PROVE  ReportIInv'
<1>1. \A out \in Costs : out \in Int
  BY ReportAssumption
<1>2. ASSUME NEW out \in Costs, NEW day \in Dates, NEW w \in Wagons \cup {None}, NEW type \in ExpenseTypes,
             NEW b \in Budgets \cup {None}, NEW p \in Bills \cup {None}, PostExpense(type, b, w, p, out, day)
      PROVE  ReportIInv'
  <2>1. PICK x : x = CostRow(type, b, w, p, out, 0, day)
    OBVIOUS
  <2>2. /\ w # None => IsWagon(w)
        /\ p # None => IsBill(p) /\ out > 0
        /\ cost' = Append(cost, x)
        /\ UNCHANGED <<bill, billsMade, wagon, budget, percent, charge, unspread>>
    BY <1>2, <2>1 DEF PostExpense, RealPurchase
  <2>3. type \in {"expense", "warehouse"}
    BY DEF ExpenseTypes
  <2>4. RowArgs(type, b, w, p, out, 0, day)
    BY <1>1, <2>2, <2>3 DEF RowArgs
  <2>5. CostFits(x) /\ x # None /\ x.type = type
    BY <2>1, <2>4, CostRowFits
  <2> QED BY <2>2, <2>3, <2>5, AppendStep
<1>3. ASSUME NEW out \in Costs, NEW day \in Dates, NEW w \in Wagons \cup {None},
             NEW type \in {"customs", "rent", "extra"}, PostShipping(type, w, out, day)
      PROVE  ReportIInv'
  <2>1. PICK x : x = CostRow(type, None, w, None, out, 0, day)
    OBVIOUS
  <2>2. /\ w # None => IsWagon(w)
        /\ out > 0 /\ cost' = Append(cost, x)
        /\ UNCHANGED <<bill, billsMade, wagon, budget, percent, charge, unspread>>
    BY <1>3, <2>1 DEF PostShipping
  <2>3. type \notin ExpenseTypes
    BY DEF ExpenseTypes
  <2>4. RowArgs(type, None, w, None, out, 0, day)
    BY <1>1, <2>2, <2>3 DEF RowArgs
  <2>5. CostFits(x) /\ x # None /\ x.type = type
    BY <2>1, <2>4, CostRowFits
  <2> QED BY <2>2, <2>5, AppendStep
<1>4. ASSUME NEW b \in Budgets, NEW day \in Dates, NEW exp \in Costs, PostCustody(b, exp, day)
      PROVE  ReportIInv'
  <2>1. PICK x : x = CostRow("expense", b, None, None, 0, exp, day)
    OBVIOUS
  <2>2. /\ cost' = Append(cost, x)
        /\ UNCHANGED <<bill, billsMade, wagon, budget, percent, charge, unspread>>
    BY <1>4, <2>1 DEF PostCustody
  <2>3. RowArgs("expense", b, None, None, 0, exp, day)
    BY <1>1 DEF RowArgs
  <2>4. CostFits(x) /\ x # None /\ x.type = "expense"
    BY <2>1, <2>3, CostRowFits
  <2> QED BY <2>2, <2>4, AppendStep
<1> QED BY <1>2, <1>3, <1>4

LEMMA SpreadStep ==
  ASSUME ReportIInv, NEW q \in Bills, NEW out \in Costs, NEW day \in Dates, SpreadGoodsCost(q, out, day)
  PROVE  ReportIInv'
<1>1. ReportTables /\ BillsKnown /\ SpreadCounted
  BY DEF ReportIInv
<1>2. PICK x : x = CostRow("spread", None, None, q, out, 0, day)
  OBVIOUS
<1>3. PICK row : row = [bill[q] EXCEPT !.spread = @ + out]
  OBVIOUS
<1>4. /\ IsBill(q) /\ cost' = Append(cost, x)
      /\ bill' = [bill EXCEPT ![q] = row]
      /\ UNCHANGED <<billsMade, wagon, budget, percent, charge, unspread>>
  BY <1>2, <1>3 DEF SpreadGoodsCost, RealPurchase
<1>5. CostFits(x) /\ x # None /\ x.type = "spread" /\ x.on = q /\ x.out = out /\ out \in Int
  <2>1. out \in Int /\ "spread" \notin ExpenseTypes /\ q # None
    BY ReportAssumption DEF ExpenseTypes
  <2>2. RowArgs("spread", None, None, q, out, 0, day)
    BY <1>4, <2>1 DEF RowArgs
  <2> QED BY <1>2, <2>1, <2>2, CostRowFits
<1>6. /\ bill[q] \in BillRow /\ row \in BillRow /\ row # None
      /\ row.kind = bill[q].kind /\ row.fake = bill[q].fake
      /\ row.spread = bill[q].spread + out
  <2>1. bill[q] \in BillRow
    BY <1>1, <1>4, RowsTyped
  <2>2. row \in BillRow
    BY <1>3, <1>5, <2>1 DEF BillRow
  <2>3. row.kind = bill[q].kind /\ row.fake = bill[q].fake /\ row.spread = bill[q].spread + out
    BY <1>3, <2>1 DEF BillRow
  <2> QED BY <2>1, <2>2, <2>3, ReportAssumption
<1>7. /\ bill'[q] = row /\ bill' \in [Bills -> BillRow \cup {None}]
      /\ \A p \in Bills : p # q => bill'[p] = bill[p]
  BY <1>1, <1>4, <1>6 DEF ReportTables
<1>8. \A p : IsBill(p)' <=> IsBill(p)
  BY <1>4, <1>6, <1>7 DEF IsBill
<1>9. CostsFit' /\ LinksFit'
  <2>1. UNCHANGED <<wagon, charge>> /\ cost' = Append(cost, x)
    BY <1>4
  <2> QED BY <1>5, <1>8, <2>1, CostAppended
<1>10. ReportTypeOK' /\ CostsKnown'
  BY <1>9, CostsFitNext
<1>11. ReportTables'
  BY <1>1, <1>4, <1>7, <1>9 DEF ReportTables, CostsFit
<1>12. BillsKnown'
  <2> SUFFICES ASSUME NEW p \in Bills, IsBill(p) PROVE p \in billsMade /\ (bill'[p].kind = "DEAL" => ~bill'[p].fake)
    BY <1>4, <1>8 DEF BillsKnown
  <2>1. p \in billsMade /\ (bill[p].kind = "DEAL" => ~bill[p].fake)
    BY <1>1 DEF BillsKnown
  <2>2. CASE p = q
    BY <1>6, <1>7, <2>1, <2>2
  <2>3. CASE p # q
    BY <1>7, <2>1, <2>3
  <2> QED BY <2>2, <2>3
<1>13. SpreadCounted'
  <2> SUFFICES ASSUME NEW p \in Bills \ unspread, IsBill(p)
               PROVE  (bill[p].spread = SumOut(cost, SpreadOn(cost, p)))'
    BY <1>4, <1>8 DEF SpreadCounted
  <2>1. PICK c, d : c = cost /\ d = cost'
    OBVIOUS
  <2>2. c \in Seq(CostEntry \cup {None}) /\ d \in Seq(CostEntry \cup {None}) /\ x \in CostEntry
    BY <1>1, <1>5, <1>11, <2>1 DEF ReportTables, CostFits
  <2>3. bill[p].spread = SumOut(c, SpreadOn(c, p))
    BY <1>1, <2>1 DEF SpreadCounted
  <2>4. d = Append(c, x)
    BY <1>4, <2>1
  <2>5. bill'[p].spread = SumOut(d, SpreadOn(d, p))
    <3>1. CASE p = q
      <4>1. SumOut(d, SpreadOn(d, p)) = SumOut(c, SpreadOn(c, p)) + out
        BY <1>5, <2>2, <2>4, <3>1, SpreadMore
      <4> QED BY <1>6, <1>7, <2>3, <3>1, <4>1
    <3>2. CASE p # q
      <4>1. /\ DOMAIN d = DOMAIN c \cup {Len(c) + 1}
            /\ (\A n \in DOMAIN c : d[n] = c[n]) /\ d[Len(c) + 1] = x /\ x.on # p
        BY <1>5, <2>2, <2>4, <3>2, RowsAppended
      <4>2. SpreadOn(d, p) = SpreadOn(c, p) /\ \A n \in SpreadOn(c, p) : d[n].out = c[n].out
        BY <4>1 DEF SpreadOn
      <4>3. SumOut(d, SpreadOn(d, p)) = SumOut(c, SpreadOn(c, p))
        BY <2>2, <4>2, SpreadSame
      <4> QED BY <1>7, <2>3, <3>2, <4>3
    <3> QED BY <3>1, <3>2
  <2> QED BY <2>1, <2>5 DEF SumOut, SpreadOn
<1> QED BY <1>10, <1>11, <1>12, <1>13 DEF ReportIInv

\* Rows that are changed where they are.
LEMMA CostChanged ==
  ASSUME CostsFit, cost' = [n \in DOMAIN cost |-> cost'[n]],
         \A n \in DOMAIN cost : (cost[n] = None \/ CostFits(cost[n]))'
  PROVE  CostsFit' /\ DOMAIN cost' = DOMAIN cost
<1>1. PICK c, d : c = cost /\ d = cost'
  OBVIOUS
<1>2. c \in Seq(CostEntry \cup {None}) /\ d = [n \in DOMAIN c |-> d[n]]
  BY <1>1 DEF CostsFit
<1>3. \A n \in DOMAIN c : d[n] \in CostEntry \cup {None}
  BY <1>1 DEF CostFits
<1>4. d \in Seq(CostEntry \cup {None}) /\ DOMAIN d = DOMAIN c
  BY <1>2, <1>3, RowsMapped
<1> QED BY <1>1, <1>4 DEF CostsFit

\* No row that was spread over p comes or goes.
LEMMA SpreadKept ==
  ASSUME ReportTables, ReportTables', NEW p, bill'[p].spread = bill[p].spread,
         DOMAIN cost' = DOMAIN cost,
         SpreadOn(cost, p)' = SpreadOn(cost, p),
         \A n \in SpreadOn(cost, p) : cost'[n].out = cost[n].out,
         bill[p].spread = SumOut(cost, SpreadOn(cost, p))
  PROVE  (bill[p].spread = SumOut(cost, SpreadOn(cost, p)))'
<1>1. PICK c, d : c = cost /\ d = cost'
  OBVIOUS
<1>2. c \in Seq(CostEntry \cup {None}) /\ d \in Seq(CostEntry \cup {None})
  BY <1>1 DEF ReportTables
<1>3. SpreadOn(d, p) = SpreadOn(c, p)
  BY <1>1 DEF SpreadOn
<1>4. SumOut(d, SpreadOn(d, p)) = SumOut(c, SpreadOn(c, p))
  BY <1>1, <1>2, <1>3, SpreadSame
<1> QED BY <1>1, <1>4 DEF SumOut, SpreadOn

LEMMA DropCostStep ==
  ASSUME ReportIInv, NEW m \in DOMAIN cost, DropCost(m)
  PROVE  ReportIInv'
<1>1. ReportTables /\ BillsKnown /\ SpreadCounted /\ CostsFit /\ LinksFit
  BY CostsFitNow DEF ReportIInv
<1>2. /\ cost' = [cost EXCEPT ![m] = None] /\ m \in CostRows
      /\ unspread' = IF cost[m].type = "spread" THEN unspread \cup {cost[m].on} ELSE unspread
      /\ UNCHANGED <<bill, billsMade, wagon, budget, percent, charge>>
  BY DEF DropCost
<1>3. /\ cost' = [n \in DOMAIN cost |-> cost'[n]]
      /\ \A n \in DOMAIN cost : cost'[n] = IF n = m THEN None ELSE cost[n]
  BY <1>2
<1>4. (\A p : IsBill(p)' <=> IsBill(p)) /\ (\A w : IsWagon(w)' <=> IsWagon(w)) /\ ChargeRows' = ChargeRows
  BY <1>2 DEF IsBill, IsWagon, ChargeRows
<1>5. CostsFit' /\ DOMAIN cost' = DOMAIN cost
  <2>1. ASSUME NEW n \in DOMAIN cost PROVE (cost[n] = None \/ CostFits(cost[n]))'
    <3>1. PICK c : c = cost[n]
      OBVIOUS
    <3>2. CASE n = m
      BY <1>3, <3>2
    <3>3. CASE n # m
      <4>1. (c = None \/ CostFits(c)) /\ cost'[n] = c
        BY <1>1, <1>3, <3>1, <3>3 DEF CostsFit
      <4>2. CostFits(c) => (CostFits(c))'
        BY <1>4 DEF CostFits
      <4> QED BY <4>1, <4>2
    <3> QED BY <3>2, <3>3
  <2> QED BY <1>1, <1>3, <2>1, CostChanged
<1>6. LinksFit'
  BY <1>1, <1>2, <1>4 DEF LinksFit
<1>7. ReportTypeOK' /\ CostsKnown'
  BY <1>5, <1>6, CostsFitNext
<1>8. ReportTables'
  BY <1>1, <1>2, <1>5 DEF ReportTables, CostsFit
<1>9. BillsKnown'
  BY <1>1, <1>2, <1>4 DEF BillsKnown
<1>10. SpreadCounted'
  <2> SUFFICES ASSUME NEW p \in Bills, p \notin unspread', IsBill(p)
               PROVE  (bill[p].spread = SumOut(cost, SpreadOn(cost, p)))'
    BY <1>4 DEF SpreadCounted
  <2>1. p \notin unspread /\ ~(cost[m].type = "spread" /\ cost[m].on = p)
    BY <1>2
  <2>2. bill[p].spread = SumOut(cost, SpreadOn(cost, p)) /\ bill'[p].spread = bill[p].spread
    BY <1>1, <1>2, <2>1 DEF SpreadCounted
  <2>3. SpreadOn(cost, p)' = SpreadOn(cost, p) /\ \A n \in SpreadOn(cost, p) : cost'[n].out = cost[n].out
    BY <1>3, <1>5, <2>1 DEF SpreadOn
  <2> QED BY <1>1, <1>5, <1>8, <2>2, <2>3, SpreadKept
<1> QED BY <1>7, <1>8, <1>9, <1>10 DEF ReportIInv

LEMMA LoseProductStep ==
  ASSUME ReportIInv, NEW q \in Bills, LoseProduct(q)
  PROVE  ReportIInv'
<1>1. ReportTables /\ BillsKnown /\ SpreadCounted /\ CostsFit /\ LinksFit
  BY CostsFitNow DEF ReportIInv
<1>2. /\ cost' = [n \in DOMAIN cost |->
            IF cost[n] # None /\ cost[n].on = q /\ cost[n].type # "spread"
            THEN [cost[n] EXCEPT !.product = FALSE] ELSE cost[n]]
      /\ UNCHANGED <<bill, billsMade, wagon, budget, percent, charge, unspread>>
  BY DEF LoseProduct
<1>3. cost' = [n \in DOMAIN cost |-> cost'[n]]
  BY <1>2
<1>4. (\A p : IsBill(p)' <=> IsBill(p)) /\ (\A w : IsWagon(w)' <=> IsWagon(w)) /\ ChargeRows' = ChargeRows
  BY <1>2 DEF IsBill, IsWagon, ChargeRows
<1>5. ASSUME NEW n \in DOMAIN cost
      PROVE  \/ cost'[n] = cost[n]
             \/ cost[n] # None /\ cost[n].type # "spread" /\ cost'[n] = [cost[n] EXCEPT !.product = FALSE]
  BY <1>2
<1>6. ASSUME NEW n \in DOMAIN cost PROVE (cost[n] = None \/ CostFits(cost[n]))'
  <2>1. CASE cost'[n] = cost[n]
    BY <1>1, <1>4, <2>1 DEF CostsFit, CostFits
  <2>2. CASE cost[n] # None /\ cost'[n] = [cost[n] EXCEPT !.product = FALSE]
    <3>1. PICK c, d : c = cost[n] /\ d = [c EXCEPT !.product = FALSE]
      OBVIOUS
    <3>2. CostFits(c)
      BY <1>1, <2>2, <3>1 DEF CostsFit
    <3>3. /\ d \in CostEntry /\ d.wagon = c.wagon /\ d.on = c.on /\ d.activity = c.activity
          /\ d.pct = c.pct /\ d.type = c.type /\ d.out = c.out
      <4>1. c \in CostEntry
        BY <3>2 DEF CostFits
      <4>2. /\ c = [type |-> c.type, budget |-> c.budget, wagon |-> c.wagon, on |-> c.on,
                    product |-> c.product, out |-> c.out, exp |-> c.exp, day |-> c.day,
                    activity |-> c.activity, pct |-> c.pct]
            /\ c.type \in {"expense", "warehouse", "customs", "rent", "extra", "spread"}
            /\ c.budget \in Budgets \cup {None} /\ c.wagon \in Wagons \cup {None}
            /\ c.on \in Bills \cup {None} /\ c.out \in Int /\ c.exp \in Int /\ c.day \in Dates
            /\ c.activity \in Activities /\ c.pct \in (0 .. 100) \cup {None}
        BY <4>1 DEF CostEntry
      <4>3. d = [type |-> c.type, budget |-> c.budget, wagon |-> c.wagon, on |-> c.on,
                 product |-> FALSE, out |-> c.out, exp |-> c.exp, day |-> c.day,
                 activity |-> c.activity, pct |-> c.pct]
        BY <3>1, <4>2
      <4> QED BY <4>2, <4>3 DEF CostEntry
    <3>4. (CostFits(d))'
      BY <1>4, <3>2, <3>3 DEF CostFits
    <3> QED BY <2>2, <3>1, <3>4 DEF CostFits
  <2> QED BY <1>5, <2>1, <2>2
<1>7. CostsFit' /\ DOMAIN cost' = DOMAIN cost
  BY <1>1, <1>3, <1>6, CostChanged
<1>8. LinksFit'
  BY <1>1, <1>2, <1>4 DEF LinksFit
<1>9. ReportTypeOK' /\ CostsKnown'
  BY <1>7, <1>8, CostsFitNext
<1>10. ReportTables'
  BY <1>1, <1>2, <1>7 DEF ReportTables, CostsFit
<1>11. BillsKnown'
  BY <1>1, <1>2, <1>4 DEF BillsKnown
<1>12. SpreadCounted'
  <2> SUFFICES ASSUME NEW p \in Bills \ unspread, IsBill(p)
               PROVE  (bill[p].spread = SumOut(cost, SpreadOn(cost, p)))'
    BY <1>2, <1>4 DEF SpreadCounted
  <2>1. bill[p].spread = SumOut(cost, SpreadOn(cost, p)) /\ bill'[p].spread = bill[p].spread
    BY <1>1, <1>2 DEF SpreadCounted
  <2>2. ASSUME NEW n \in DOMAIN cost
        PROVE  \/ cost'[n] = cost[n]
               \/ n \notin SpreadOn(cost, p) /\ n \notin SpreadOn(cost, p)'
    <3>1. CASE cost[n] # None /\ cost[n].type # "spread" /\ cost'[n] = [cost[n] EXCEPT !.product = FALSE]
      <4>1. cost[n] \in CostEntry
        BY <1>1, <3>1 DEF CostsFit, CostFits
      <4>2. cost'[n].type = cost[n].type
        BY <3>1, <4>1 DEF CostEntry
      <4> QED BY <3>1, <4>2 DEF SpreadOn
    <3> QED BY <1>5, <3>1
  <2>3. SpreadOn(cost, p)' = SpreadOn(cost, p) /\ \A n \in SpreadOn(cost, p) : cost'[n].out = cost[n].out
    <3>1. ASSUME NEW n \in DOMAIN cost PROVE (n \in SpreadOn(cost, p))' <=> n \in SpreadOn(cost, p)
      BY <1>7, <2>2 DEF SpreadOn
    <3>2. SpreadOn(cost, p) \subseteq DOMAIN cost /\ SpreadOn(cost, p)' \subseteq DOMAIN cost
      BY <1>7 DEF SpreadOn
    <3> QED BY <2>2, <3>1, <3>2
  <2> QED BY <1>1, <1>7, <1>10, <2>1, <2>3, SpreadKept
<1> QED BY <1>9, <1>10, <1>11, <1>12 DEF ReportIInv

LEMMA DropBillStep ==
  ASSUME ReportIInv, NEW q \in Bills, DropBill(q)
  PROVE  ReportIInv'
<1>1. ReportTables /\ BillsKnown /\ SpreadCounted /\ CostsFit /\ LinksFit
  BY CostsFitNow DEF ReportIInv
<1>2. /\ IsBill(q) /\ bill' = [bill EXCEPT ![q] = None]
      /\ wagon' = [w \in Wagons |-> IF wagon[w] = q THEN None ELSE wagon[w]]
      /\ charge' = [n \in DOMAIN charge |->
            IF charge[n] # None /\ charge[n].bill = q THEN None ELSE charge[n]]
      /\ cost' = [n \in DOMAIN cost |->
            IF cost[n] # None /\ cost[n].on = q THEN [cost[n] EXCEPT !.on = None] ELSE cost[n]]
      /\ UNCHANGED <<billsMade, budget, percent, unspread>>
  BY DEF DropBill
<1>3. cost' = [n \in DOMAIN cost |-> cost'[n]] /\ charge' = [n \in DOMAIN charge |-> charge'[n]]
  BY <1>2
<1>4. \A p : IsBill(p)' <=> IsBill(p) /\ p # q
  BY <1>1, <1>2 DEF IsBill, ReportTables
<1>5. \A w \in Wagons : IsWagon(w)' <=> IsWagon(w)
  <2>1. None # "no" /\ q # "no"
    BY ReportAssumption
  <2> QED BY <1>2, <2>1 DEF IsWagon
<1>6. ASSUME NEW n \in DOMAIN cost
      PROVE  \/ cost'[n] = cost[n] /\ (cost[n] # None => cost[n].on # q)
             \/ cost[n] # None /\ cost[n].on = q /\ cost'[n] = [cost[n] EXCEPT !.on = None]
  BY <1>2
<1>7. ASSUME NEW n \in DOMAIN cost PROVE (cost[n] = None \/ CostFits(cost[n]))'
  <2> DEFINE c == cost[n]
  <2>1. CASE cost'[n] = cost[n] /\ (cost[n] # None => cost[n].on # q)
    <3>1. PICK d : d = cost[n]
      OBVIOUS
    <3>2. ASSUME d # None PROVE (CostFits(d))'
      <4>1. CostFits(d) /\ d.on # q /\ d.wagon \in Wagons \cup {None}
        BY <1>1, <2>1, <3>1, <3>2 DEF CostsFit, CostFits, CostEntry
      <4>2. d.on = None \/ IsBill(d.on)'
        BY <1>4, <4>1 DEF CostFits
      <4>3. d.wagon = None \/ IsWagon(d.wagon)'
        <5>1. CASE d.wagon = None
          BY <5>1
        <5>2. CASE d.wagon # None
          <6>1. PICK w \in Wagons : w = d.wagon
            BY <4>1, <5>2
          <6>2. IsWagon(w)'
            BY <1>5, <4>1, <5>2, <6>1 DEF CostFits
          <6> QED BY <6>1, <6>2 DEF IsWagon
        <5> QED BY <5>1, <5>2
      <4> QED BY <4>1, <4>2, <4>3 DEF CostFits
    <3> QED BY <2>1, <3>1, <3>2 DEF CostFits
  <2>2. CASE cost[n] # None /\ cost'[n] = [cost[n] EXCEPT !.on = None]
    <3>1. PICK d, e : d = cost[n] /\ e = [d EXCEPT !.on = None]
      OBVIOUS
    <3>2. CostFits(d) /\ d.wagon \in Wagons \cup {None}
      BY <1>1, <2>2, <3>1 DEF CostsFit, CostFits, CostEntry
    <3>3. /\ e \in CostEntry /\ e.wagon = d.wagon /\ e.on = None /\ e.activity = d.activity
          /\ e.pct = d.pct /\ e.type = d.type /\ e.out = d.out
      BY <3>1, <3>2 DEF CostFits, CostEntry
    <3>4. d.wagon = None \/ IsWagon(d.wagon)'
      <4>1. CASE d.wagon = None
        BY <4>1
      <4>2. CASE d.wagon # None
        <5>1. PICK w \in Wagons : w = d.wagon
          BY <3>2, <4>2
        <5>2. IsWagon(w)'
          BY <1>5, <3>2, <4>2, <5>1 DEF CostFits
        <5> QED BY <5>1, <5>2 DEF IsWagon
      <4> QED BY <4>1, <4>2
    <3>5. e.wagon = None \/ IsWagon(e.wagon)'
      BY <3>3, <3>4 DEF IsWagon
    <3>6. (CostFits(e))'
      BY <3>2, <3>3, <3>5 DEF CostFits
    <3> QED BY <2>2, <3>1, <3>6 DEF CostFits
  <2> QED BY <1>6, <2>1, <2>2
<1>8. CostsFit' /\ DOMAIN cost' = DOMAIN cost
  BY <1>1, <1>3, <1>7, CostChanged
<1>9. /\ charge' \in Seq(ChargeEntry \cup {None}) /\ DOMAIN charge' = DOMAIN charge
      /\ \A n \in DOMAIN charge : charge'[n] # None =>
            charge[n] # None /\ charge'[n] = charge[n] /\ charge[n].bill # q
  <2>1. charge \in Seq(ChargeEntry \cup {None})
    BY <1>1 DEF ReportTables
  <2>2. \A n \in DOMAIN charge : charge'[n] = None \/ (charge'[n] = charge[n] /\ (charge[n] # None => charge[n].bill # q))
    BY <1>2
  <2>3. \A n \in DOMAIN charge : charge'[n] \in ChargeEntry \cup {None}
    BY <2>1, <2>2
  <2>4. charge' \in Seq(ChargeEntry \cup {None}) /\ DOMAIN charge' = DOMAIN charge
    BY <1>3, <2>1, <2>3, RowsMapped
  <2> QED BY <2>2, <2>4
<1>10. LinksFit'
  <2>1. ASSUME NEW w \in Wagons PROVE (wagon[w] \in {"no", None} \/ IsBill(wagon[w]))'
    <3>1. wagon'[w] = None \/ (wagon'[w] = wagon[w] /\ wagon[w] # q)
      BY <1>2
    <3>2. wagon[w] \in {"no", None} \/ IsBill(wagon[w])
      BY <1>1 DEF LinksFit
    <3>3. PICK v : v = wagon[w]
      OBVIOUS
    <3>4. CASE wagon'[w] = None
      BY <3>4
    <3>5. CASE wagon'[w] = v /\ v # q
      <4>1. v \in {"no", None} \/ IsBill(v)'
        BY <1>4, <3>2, <3>3, <3>5
      <4> QED BY <3>5, <4>1 DEF IsBill
    <3> QED BY <3>1, <3>3, <3>4, <3>5
  <2>2. ASSUME NEW n \in ChargeRows'
        PROVE  (IsBill(charge[n].bill) /\ (charge[n].wagon = None \/ IsWagon(charge[n].wagon)))'
    <3>1. n \in ChargeRows /\ charge'[n] = charge[n] /\ charge[n].bill # q
      BY <1>9 DEF ChargeRows
    <3>2. PICK d : d = charge[n]
      OBVIOUS
    <3>3. IsBill(d.bill) /\ (d.wagon = None \/ IsWagon(d.wagon)) /\ d \in ChargeEntry
      BY <1>1, <3>1, <3>2, RowsTyped DEF LinksFit
    <3>4. IsBill(d.bill)'
      BY <1>4, <3>1, <3>2, <3>3
    <3>5. d.wagon = None \/ IsWagon(d.wagon)'
      <4>1. CASE d.wagon = None
        BY <4>1
      <4>2. CASE d.wagon # None
        <5>1. PICK w \in Wagons : w = d.wagon
          BY <3>3, <4>2 DEF ChargeEntry
        <5>2. IsWagon(w)'
          BY <1>5, <3>3, <4>2, <5>1
        <5> QED BY <5>1, <5>2 DEF IsWagon
      <4> QED BY <4>1, <4>2
    <3> QED BY <3>1, <3>2, <3>4, <3>5 DEF IsBill, IsWagon
  <2> QED BY <2>1, <2>2 DEF LinksFit
<1>11. ReportTypeOK' /\ CostsKnown'
  BY <1>8, <1>10, CostsFitNext
<1>12. ReportTables'
  <2>1. bill' \in [Bills -> BillRow \cup {None}]
    BY <1>1, <1>2 DEF ReportTables
  <2>2. wagon' \in [Wagons -> Bills \cup {None, "no"}]
    BY <1>1, <1>2 DEF ReportTables
  <2> QED BY <1>1, <1>2, <1>8, <1>9, <2>1, <2>2 DEF ReportTables, CostsFit
<1>13. \A p \in Bills : p # q => bill'[p] = bill[p]
  BY <1>1, <1>2 DEF ReportTables
<1>14. BillsKnown'
  BY <1>1, <1>2, <1>4, <1>13 DEF BillsKnown
<1>15. SpreadCounted'
  <2> SUFFICES ASSUME NEW p \in Bills \ unspread, IsBill(p), p # q
               PROVE  (bill[p].spread = SumOut(cost, SpreadOn(cost, p)))'
    BY <1>2, <1>4 DEF SpreadCounted
  <2>1. bill[p].spread = SumOut(cost, SpreadOn(cost, p)) /\ bill'[p].spread = bill[p].spread
    BY <1>1, <1>13 DEF SpreadCounted
  <2>2. ASSUME NEW n \in DOMAIN cost
        PROVE  \/ cost'[n] = cost[n]
               \/ n \notin SpreadOn(cost, p) /\ n \notin SpreadOn(cost, p)'
    <3>1. CASE cost[n] # None /\ cost[n].on = q /\ cost'[n] = [cost[n] EXCEPT !.on = None]
      <4>1. cost[n] \in CostEntry
        BY <1>1, <3>1 DEF CostsFit, CostFits
      <4>2. cost'[n].on = None /\ p # None
        BY <3>1, <4>1, ReportAssumption DEF CostEntry
      <4> QED BY <3>1, <4>2 DEF SpreadOn
    <3> QED BY <1>6, <3>1
  <2>3. SpreadOn(cost, p)' = SpreadOn(cost, p) /\ \A n \in SpreadOn(cost, p) : cost'[n].out = cost[n].out
    <3>1. ASSUME NEW n \in DOMAIN cost PROVE (n \in SpreadOn(cost, p))' <=> n \in SpreadOn(cost, p)
      BY <1>8, <2>2 DEF SpreadOn
    <3>2. SpreadOn(cost, p) \subseteq DOMAIN cost /\ SpreadOn(cost, p)' \subseteq DOMAIN cost
      BY <1>8 DEF SpreadOn
    <3> QED BY <2>2, <3>1, <3>2
  <2> QED BY <1>1, <1>8, <1>12, <2>1, <2>3, SpreadKept
<1> QED BY <1>11, <1>12, <1>14, <1>15 DEF ReportIInv

LEMMA DropWagonStep ==
  ASSUME ReportIInv, NEW q \in Wagons, DropWagon(q)
  PROVE  ReportIInv'
<1>1. ReportTables /\ BillsKnown /\ SpreadCounted /\ CostsFit /\ LinksFit
  BY CostsFitNow DEF ReportIInv
<1>2. /\ IsWagon(q) /\ wagon' = [wagon EXCEPT ![q] = "no"]
      /\ charge' = [n \in DOMAIN charge |->
            IF charge[n] # None /\ charge[n].wagon = q THEN [charge[n] EXCEPT !.wagon = None] ELSE charge[n]]
      /\ cost' = [n \in DOMAIN cost |->
            IF cost[n] # None /\ cost[n].wagon = q THEN [cost[n] EXCEPT !.wagon = None] ELSE cost[n]]
      /\ UNCHANGED <<bill, billsMade, budget, percent, unspread>>
  BY DEF DropWagon
<1>3. cost' = [n \in DOMAIN cost |-> cost'[n]] /\ charge' = [n \in DOMAIN charge |-> charge'[n]]
  BY <1>2
<1>4. \A p : IsBill(p)' <=> IsBill(p)
  BY <1>2 DEF IsBill
<1>5. \A w \in Wagons : w # q => (IsWagon(w)' <=> IsWagon(w))
  BY <1>1, <1>2 DEF IsWagon, ReportTables
<1>6. ASSUME NEW n \in DOMAIN cost
      PROVE  \/ cost'[n] = cost[n] /\ (cost[n] # None => cost[n].wagon # q)
             \/ cost[n] # None /\ cost'[n] = [cost[n] EXCEPT !.wagon = None]
  BY <1>2
<1>7. ASSUME NEW d, d.wagon \in Wagons \cup {None}, d.wagon # q, d.wagon = None \/ IsWagon(d.wagon)
      PROVE  d.wagon = None \/ IsWagon(d.wagon)'
  <2>1. CASE d.wagon = None
    BY <2>1
  <2>2. CASE d.wagon # None
    <3>1. PICK w \in Wagons : w = d.wagon
      BY <1>7, <2>2
    <3>2. IsWagon(w)'
      BY <1>5, <1>7, <2>2, <3>1
    <3> QED BY <3>1, <3>2 DEF IsWagon
  <2> QED BY <2>1, <2>2
<1>8. ASSUME NEW n \in DOMAIN cost PROVE (cost[n] = None \/ CostFits(cost[n]))'
  <2>1. CASE cost'[n] = cost[n] /\ (cost[n] # None => cost[n].wagon # q)
    <3>1. PICK d : d = cost[n]
      OBVIOUS
    <3>2. ASSUME d # None PROVE (CostFits(d))'
      <4>1. CostFits(d) /\ d.wagon # q
        BY <1>1, <2>1, <3>1, <3>2 DEF CostsFit
      <4>2. d.wagon \in Wagons \cup {None} /\ (d.wagon = None \/ IsWagon(d.wagon))
        BY <4>1 DEF CostFits, CostEntry
      <4>3. d.wagon = None \/ IsWagon(d.wagon)'
        BY <1>7, <4>1, <4>2
      <4> QED BY <1>4, <4>1, <4>3 DEF CostFits
    <3> QED BY <2>1, <3>1, <3>2 DEF CostFits
  <2>2. CASE cost[n] # None /\ cost'[n] = [cost[n] EXCEPT !.wagon = None]
    <3>1. PICK d, e : d = cost[n] /\ e = [d EXCEPT !.wagon = None]
      OBVIOUS
    <3>2. CostFits(d)
      BY <1>1, <2>2, <3>1 DEF CostsFit
    <3>3. /\ e \in CostEntry /\ e.wagon = None /\ e.on = d.on /\ e.activity = d.activity
          /\ e.pct = d.pct /\ e.type = d.type /\ e.out = d.out
      BY <3>1, <3>2 DEF CostFits, CostEntry
    <3>4. (CostFits(e))'
      BY <1>4, <3>2, <3>3 DEF CostFits
    <3> QED BY <2>2, <3>1, <3>4 DEF CostFits
  <2> QED BY <1>6, <2>1, <2>2
<1>9. CostsFit' /\ DOMAIN cost' = DOMAIN cost
  BY <1>1, <1>3, <1>8, CostChanged
<1>10. \A n \in DOMAIN charge :
          \/ charge'[n] = charge[n] /\ (charge[n] # None => charge[n].wagon # q)
          \/ /\ charge[n] \in ChargeEntry /\ charge'[n] \in ChargeEntry
             /\ charge'[n].wagon = None /\ charge'[n].bill = charge[n].bill
  <2> SUFFICES ASSUME NEW n \in DOMAIN charge, ~(charge'[n] = charge[n] /\ (charge[n] # None => charge[n].wagon # q))
               PROVE  /\ charge[n] \in ChargeEntry /\ charge'[n] \in ChargeEntry
                      /\ charge'[n].wagon = None /\ charge'[n].bill = charge[n].bill
    OBVIOUS
  <2>1. charge[n] # None /\ charge'[n] = [charge[n] EXCEPT !.wagon = None]
    BY <1>2
  <2>2. charge[n] \in ChargeEntry
    BY <1>1, <2>1 DEF ReportTables
  <2> QED BY <2>1, <2>2 DEF ChargeEntry
<1>11. charge' \in Seq(ChargeEntry \cup {None}) /\ DOMAIN charge' = DOMAIN charge
  <2>1. charge \in Seq(ChargeEntry \cup {None})
    BY <1>1 DEF ReportTables
  <2>2. \A n \in DOMAIN charge : charge'[n] \in ChargeEntry \cup {None}
    BY <1>10, <2>1
  <2> QED BY <1>3, <2>1, <2>2, RowsMapped
<1>12. LinksFit'
  <2>1. ASSUME NEW w \in Wagons PROVE (wagon[w] \in {"no", None} \/ IsBill(wagon[w]))'
    <3>1. wagon'[w] = "no" \/ wagon'[w] = wagon[w]
      BY <1>1, <1>2 DEF ReportTables
    <3>2. wagon[w] \in {"no", None} \/ IsBill(wagon[w])
      BY <1>1 DEF LinksFit
    <3>3. PICK v : v = wagon[w]
      OBVIOUS
    <3>4. CASE wagon'[w] = "no"
      BY <3>4
    <3>5. CASE wagon'[w] = v
      <4>1. v \in {"no", None} \/ IsBill(v)'
        BY <1>4, <3>2, <3>3
      <4> QED BY <3>5, <4>1 DEF IsBill
    <3> QED BY <3>1, <3>3, <3>4, <3>5
  <2>2. ASSUME NEW n \in ChargeRows'
        PROVE  (IsBill(charge[n].bill) /\ (charge[n].wagon = None \/ IsWagon(charge[n].wagon)))'
    <3>1. n \in DOMAIN charge /\ charge'[n] # None /\ n \in DOMAIN charge'
      BY <1>11 DEF ChargeRows
    <3>2. PICK c, d : c = charge[n] /\ d = charge'[n]
      OBVIOUS
    <3>3. c # None
      BY <1>10, <3>1, <3>2, ReportAssumption
    <3>4. IsBill(c.bill) /\ (c.wagon = None \/ IsWagon(c.wagon)) /\ c \in ChargeEntry
      BY <1>1, <3>1, <3>2, <3>3, RowsTyped DEF LinksFit, ChargeRows
    <3>5. d.bill = c.bill /\ (d.wagon = None \/ (d.wagon = c.wagon /\ c.wagon # q))
      BY <1>10, <3>1, <3>2, <3>3
    <3>6. IsBill(d.bill)'
      BY <1>4, <3>4, <3>5
    <3>7. d.wagon = None \/ IsWagon(d.wagon)'
      <4>1. c.wagon \in Wagons \cup {None}
        BY <3>4 DEF ChargeEntry
      <4>2. c.wagon # q => c.wagon = None \/ IsWagon(c.wagon)'
        BY <1>7, <3>4, <4>1
      <4> QED BY <3>5, <4>2 DEF IsWagon
    <3> QED BY <3>2, <3>6, <3>7 DEF IsBill, IsWagon
  <2> QED BY <2>1, <2>2 DEF LinksFit
<1>13. ReportTypeOK' /\ CostsKnown'
  BY <1>9, <1>12, CostsFitNext
<1>14. ReportTables'
  <2>1. wagon' \in [Wagons -> Bills \cup {None, "no"}]
    BY <1>1, <1>2 DEF ReportTables
  <2> QED BY <1>1, <1>2, <1>9, <1>11, <2>1 DEF ReportTables, CostsFit
<1>15. BillsKnown'
  BY <1>1, <1>2, <1>4 DEF BillsKnown
<1>16. SpreadCounted'
  <2> SUFFICES ASSUME NEW p \in Bills \ unspread, IsBill(p)
               PROVE  (bill[p].spread = SumOut(cost, SpreadOn(cost, p)))'
    BY <1>2, <1>4 DEF SpreadCounted
  <2>1. bill[p].spread = SumOut(cost, SpreadOn(cost, p)) /\ bill'[p].spread = bill[p].spread
    BY <1>1, <1>2 DEF SpreadCounted
  <2>2. ASSUME NEW n \in DOMAIN cost
        PROVE  \/ cost'[n] = cost[n]
               \/ /\ cost[n] # None /\ cost'[n] # None
                  /\ cost'[n].type = cost[n].type /\ cost'[n].on = cost[n].on /\ cost'[n].out = cost[n].out
    <3>1. CASE cost[n] # None /\ cost'[n] = [cost[n] EXCEPT !.wagon = None]
      <4>1. cost[n] \in CostEntry
        BY <1>1, <3>1 DEF CostsFit, CostFits
      <4>2. cost'[n] \in CostEntry
        BY <3>1, <4>1 DEF CostEntry
      <4> QED BY <3>1, <4>1, <4>2, ReportAssumption DEF CostEntry
    <3> QED BY <1>6, <3>1
  <2>3. SpreadOn(cost, p)' = SpreadOn(cost, p) /\ \A n \in SpreadOn(cost, p) : cost'[n].out = cost[n].out
    <3>1. ASSUME NEW n \in DOMAIN cost PROVE (n \in SpreadOn(cost, p))' <=> n \in SpreadOn(cost, p)
      BY <1>9, <2>2 DEF SpreadOn
    <3>2. SpreadOn(cost, p) \subseteq DOMAIN cost /\ SpreadOn(cost, p)' \subseteq DOMAIN cost
      BY <1>9 DEF SpreadOn
    <3> QED BY <2>2, <3>1, <3>2
  <2> QED BY <1>1, <1>9, <1>14, <2>1, <2>3, SpreadKept
<1> QED BY <1>13, <1>14, <1>15, <1>16 DEF ReportIInv

LEMMA ReportStep == ReportIInv /\ [ReportNext]_reportVars => ReportIInv'
<1> SUFFICES ASSUME ReportIInv, [ReportNext]_reportVars PROVE ReportIInv'
  OBVIOUS
<1>1. CASE ReportNext
  <2>1. CASE \E p \in Bills :
        \/ \E form \in BillForms : WriteBill(p, form)
        \/ DropBill(p) \/ LoseProduct(p)
        \/ \E total \in Totals : AddCharge(p, total)
        \/ \E out \in Costs, day \in Dates : SpreadGoodsCost(p, out, day)
    BY <2>1, WriteBillStep, DropBillStep, LoseProductStep, ChargeStep, SpreadStep
  <2>2. CASE \E w \in Wagons :
        \/ \E p \in Bills \cup {None} : LinkWagon(w, p)
        \/ DropWagon(w)
        \/ \E n \in DOMAIN charge, assign \in BOOLEAN : AssignCharge(n, w, assign)
    BY <2>2, LinkWagonStep, DropWagonStep, ChargeStep
  <2>3. CASE
        \/ \E out \in Costs, day \in Dates, w \in Wagons \cup {None} :
            \/ \E type \in ExpenseTypes, b \in Budgets \cup {None}, p \in Bills \cup {None} :
                    PostExpense(type, b, w, p, out, day)
            \/ \E type \in {"customs", "rent", "extra"} : PostShipping(type, w, out, day)
        \/ \E b \in Budgets, day \in Dates, exp \in Costs : exp > 0 /\ PostCustody(b, exp, day)
    BY <2>3, PostStep
  <2>4. CASE \E n \in DOMAIN cost : DropCost(n)
    BY <2>4, DropCostStep
  <2>5. CASE \/ \E b \in Budgets, form \in BudgetForms : ChangeBudget(b, form)
             \/ \E v \in Percents : ChangePercent(v)
    BY <2>5, ChangeStep
  <2> QED BY <1>1, <2>1, <2>2, <2>3, <2>4, <2>5 DEF ReportNext
<1>2. CASE UNCHANGED reportVars
  <2> USE <1>2 DEF reportVars
  <2>1. ReportTables' /\ BillsKnown'
    BY DEF ReportIInv, ReportTables, BillsKnown, IsBill
  <2>2. ReportTypeOK'
    BY DEF ReportIInv, ReportTypeOK, IsBill, IsWagon, CostRows, ChargeRows
  <2>3. CostsKnown' /\ SpreadCounted'
    BY DEF ReportIInv, CostsKnown, CostRows, SpreadCounted, IsBill, SumOut, SpreadOn
  <2> QED BY <2>1, <2>2, <2>3 DEF ReportIInv
<1> QED BY <1>1, <1>2

\* Sums over rows of expenses.
LEMMA CostSets ==
  ASSUME ReportTables, NEW S \in SUBSET CostRows
  PROVE  IsFiniteSet(S)
<1>1. PICK c : c = cost
  OBVIOUS
<1>2. c \in Seq(CostEntry \cup {None}) /\ S \in SUBSET (DOMAIN c)
  BY <1>1 DEF ReportTables, CostRows
<1> QED BY <1>2, RowsFinite

LEMMA ChargeSets ==
  ASSUME ReportTables, NEW S \in SUBSET ChargeRows
  PROVE  IsFiniteSet(S)
<1>1. PICK c : c = charge
  OBVIOUS
<1>2. c \in Seq(ChargeEntry \cup {None}) /\ S \in SUBSET (DOMAIN c)
  BY <1>1 DEF ReportTables, ChargeRows
<1> QED BY <1>2, RowsFinite

LEMMA AmountInt ==
  ASSUME ReportTables, NEW n \in CostRows
  PROVE  cost[n].out \in Int /\ cost[n].exp \in Int /\ ExpenseAmount(cost[n]) \in Int
<1>1. cost[n] \in CostEntry
  BY RowsTyped
<1>2. cost[n].out \in Int /\ cost[n].exp \in Int
  BY <1>1 DEF CostEntry
<1> QED BY <1>2 DEF ExpenseAmount

LEMMA OutIs ==
  ASSUME ReportTables
  PROVE  \E F : /\ \A n \in CostRows : F[n] = cost[n].out /\ F[n] \in Int
                /\ \A S \in SUBSET CostRows : OutOf(S) = TotalOf(F, S)
<1>1. PICK C : C = CostRows
  OBVIOUS
<1>2. PICK F : F = [n \in C |-> cost[n].out]
  OBVIOUS
<1>3. \A n \in C : F[n] = cost[n].out /\ F[n] \in Int
  BY <1>1, <1>2, AmountInt
<1>4. ASSUME NEW S \in SUBSET C PROVE OutOf(S) = TotalOf(F, S)
  <2>1. PICK g : g = [n \in S |-> cost[n].out]
    OBVIOUS
  <2>2. g = [n \in S |-> F[n]] /\ IsFiniteSet(S)
    BY <1>1, <1>3, <2>1, CostSets
  <2>3. SumFunction(g) = TotalOf(F, S)
    BY <2>2, SumOfFunction
  <2> QED BY <2>1, <2>3 DEF OutOf, Sum
<1> QED BY <1>1, <1>3, <1>4

LEMMA AmountsIs ==
  ASSUME ReportTables
  PROVE  \E F : /\ \A n \in CostRows : F[n] = ExpenseAmount(cost[n]) /\ F[n] \in Int
                /\ \A S \in SUBSET CostRows : Amounts(S) = TotalOf(F, S)
<1>1. PICK C : C = CostRows
  OBVIOUS
<1>2. PICK F : F = [n \in C |-> ExpenseAmount(cost[n])]
  OBVIOUS
<1>3. \A n \in C : F[n] = ExpenseAmount(cost[n]) /\ F[n] \in Int
  BY <1>1, <1>2, AmountInt
<1>4. ASSUME NEW S \in SUBSET C PROVE Amounts(S) = TotalOf(F, S)
  <2>1. PICK g : g = [n \in S |-> ExpenseAmount(cost[n])]
    OBVIOUS
  <2>2. g = [n \in S |-> F[n]] /\ IsFiniteSet(S)
    BY <1>1, <1>3, <2>1, CostSets
  <2>3. SumFunction(g) = TotalOf(F, S)
    BY <2>2, SumOfFunction
  <2> QED BY <2>1, <2>3 DEF Amounts, Sum
<1> QED BY <1>1, <1>3, <1>4

\* A shared expense falls in two parts that make the whole.
LEMMA PortionParts ==
  ASSUME ReportTables, ReportTypeOK, NEW n \in CostRows, NEW amount \in Int
  PROVE  /\ Portion(amount, cost[n], "TRADE") \in Int /\ Portion(amount, cost[n], "SHIPPING") \in Int
         /\ Portion(amount, cost[n], "TRADE") + Portion(amount, cost[n], "SHIPPING") = Unit * amount
<1>1. PICK c : c = cost[n]
  OBVIOUS
<1>2. c.activity \in {"TRADE", "SHIPPING", "SHARED"} /\ (c.activity = "SHARED" => c.pct \in 0 .. 100)
  BY <1>1 DEF ReportTypeOK
<1>3. PICK u : u = Unit \div 100
  OBVIOUS
<1>4. Unit \in Nat /\ u \in Int
  <2>1. Unit \in Nat
    BY ReportAssumption
  <2> QED BY <1>3, <2>1
<1>5. Unit * amount \in Int /\ Unit * amount + 0 = Unit * amount /\ 0 + Unit * amount = Unit * amount
  <2>1. Unit * amount \in Int
    BY <1>4
  <2> QED BY <2>1
<1>6. CASE c.activity = "SHARED"
  <2>1. PICK m : m = c.pct * amount * u
    OBVIOUS
  <2>2. m \in Int
    <3>1. c.pct \in Int
      BY <1>2, <1>6
    <3> QED BY <1>4, <2>1, <3>1
  <2>3. Portion(amount, c, "SHIPPING") = m
    BY <1>3, <1>6, <2>1 DEF Portion
  <2>4. Portion(amount, c, "TRADE") = Unit * amount - m
    BY <1>3, <1>6, <2>1 DEF Portion
  <2>5. PICK k : k = Unit * amount
    OBVIOUS
  <2>6. k \in Int
    BY <1>5, <2>5
  <2>7. k - m \in Int /\ (k - m) + m = k
    BY <2>2, <2>6
  <2> QED BY <1>1, <2>2, <2>3, <2>4, <2>5, <2>7
<1>7. CASE c.activity = "TRADE"
  <2>1. Portion(amount, c, "TRADE") = Unit * amount
    BY <1>7 DEF Portion
  <2>2. Portion(amount, c, "SHIPPING") = 0
    BY <1>7 DEF Portion
  <2> QED BY <1>1, <1>5, <2>1, <2>2
<1>8. CASE c.activity = "SHIPPING"
  <2>1. Portion(amount, c, "SHIPPING") = Unit * amount
    BY <1>8 DEF Portion
  <2>2. Portion(amount, c, "TRADE") = 0
    BY <1>8 DEF Portion
  <2> QED BY <1>1, <1>5, <2>1, <2>2
<1> QED BY <1>2, <1>6, <1>7, <1>8

LEMMA PortionsIs ==
  ASSUME ReportTables, ReportTypeOK, NEW want \in {"TRADE", "SHIPPING"}
  PROVE  \E F : /\ \A n \in CostRows :
                     F[n] = Portion(ExpenseAmount(cost[n]), cost[n], want) /\ F[n] \in Int
                /\ \A S \in SUBSET CostRows : Portions(S, want) = TotalOf(F, S)
<1>1. PICK C : C = CostRows
  OBVIOUS
<1>2. PICK F : F = [n \in C |-> Portion(ExpenseAmount(cost[n]), cost[n], want)]
  OBVIOUS
<1>3. ASSUME NEW n \in C
      PROVE  F[n] = Portion(ExpenseAmount(cost[n]), cost[n], want) /\ F[n] \in Int
  <2>1. PICK a : a = ExpenseAmount(cost[n])
    OBVIOUS
  <2>2. a \in Int /\ n \in CostRows
    BY <1>1, <2>1, AmountInt
  <2>3. Portion(a, cost[n], "TRADE") \in Int /\ Portion(a, cost[n], "SHIPPING") \in Int
    BY <2>2, PortionParts
  <2> QED BY <1>2, <2>1, <2>3
<1>4. ASSUME NEW S \in SUBSET C PROVE Portions(S, want) = TotalOf(F, S)
  <2>1. PICK g : g = [n \in S |-> Portion(ExpenseAmount(cost[n]), cost[n], want)]
    OBVIOUS
  <2>2. g = [n \in S |-> F[n]] /\ IsFiniteSet(S)
    BY <1>1, <1>3, <2>1, CostSets
  <2>3. SumFunction(g) = TotalOf(F, S)
    BY <2>2, SumOfFunction
  <2> QED BY <2>1, <2>3 DEF Portions, Sum
<1> QED BY <1>1, <1>3, <1>4

LEMMA OutSplit ==
  ASSUME ReportTables, NEW S \in SUBSET CostRows, NEW T \in SUBSET CostRows, S \cap T = {}
  PROVE  /\ OutOf(S) \in Int /\ OutOf(T) \in Int
         /\ OutOf(S \cup T) = OutOf(S) + OutOf(T)
<1>1. PICK F : /\ \A n \in CostRows : F[n] = cost[n].out /\ F[n] \in Int
               /\ \A U \in SUBSET CostRows : OutOf(U) = TotalOf(F, U)
  BY OutIs
<1>2. IsFiniteSet(S) /\ IsFiniteSet(T)
  BY CostSets
<1>3. (\A n \in S : F[n] \in Int) /\ (\A n \in T : F[n] \in Int) /\ (\A n \in S \cup T : F[n] \in Int)
  BY <1>1
<1>4. TotalOf(F, S \cup T) = TotalOf(F, S) + TotalOf(F, T)
  BY <1>2, <1>3, SumUnion
<1>5. TotalOf(F, S) \in Int /\ TotalOf(F, T) \in Int
  BY <1>2, <1>3, SumInt
<1> QED BY <1>1, <1>4, <1>5

LEMMA AmountsSplit ==
  ASSUME ReportTables, NEW S \in SUBSET CostRows, NEW T \in SUBSET CostRows, S \cap T = {}
  PROVE  /\ Amounts(S) \in Int /\ Amounts(T) \in Int
         /\ Amounts(S \cup T) = Amounts(S) + Amounts(T)
<1>1. PICK F : /\ \A n \in CostRows : F[n] = ExpenseAmount(cost[n]) /\ F[n] \in Int
               /\ \A U \in SUBSET CostRows : Amounts(U) = TotalOf(F, U)
  BY AmountsIs
<1>2. IsFiniteSet(S) /\ IsFiniteSet(T)
  BY CostSets
<1>3. (\A n \in S : F[n] \in Int) /\ (\A n \in T : F[n] \in Int) /\ (\A n \in S \cup T : F[n] \in Int)
  BY <1>1
<1>4. TotalOf(F, S \cup T) = TotalOf(F, S) + TotalOf(F, T)
  BY <1>2, <1>3, SumUnion
<1>5. TotalOf(F, S) \in Int /\ TotalOf(F, T) \in Int
  BY <1>2, <1>3, SumInt
<1> QED BY <1>1, <1>4, <1>5

\* What was paid is what an expense amounts to.
LEMMA PaidAmounts ==
  ASSUME ReportTables, NEW S \in SUBSET CostRows, \A n \in S : cost[n].out > 0
  PROVE  OutOf(S) = Amounts(S)
<1>1. PICK F : /\ \A n \in CostRows : F[n] = cost[n].out /\ F[n] \in Int
               /\ \A U \in SUBSET CostRows : OutOf(U) = TotalOf(F, U)
  BY OutIs
<1>2. PICK A : /\ \A n \in CostRows : A[n] = ExpenseAmount(cost[n]) /\ A[n] \in Int
               /\ \A U \in SUBSET CostRows : Amounts(U) = TotalOf(A, U)
  BY AmountsIs
<1>3. \A n \in S : F[n] = A[n]
  <2> SUFFICES ASSUME NEW n \in S PROVE F[n] = A[n]
    OBVIOUS
  <2>1. cost[n].out \in Int /\ cost[n].out > 0
    BY AmountInt
  <2> QED BY <1>1, <1>2, <2>1 DEF ExpenseAmount
<1>4. TotalOf(F, S) = TotalOf(A, S)
  BY <1>3, CostSets, SumSame
<1> QED BY <1>1, <1>2, <1>4

LEMMA PortionsAdd ==
  ASSUME ReportTables, ReportTypeOK, NEW S \in SUBSET CostRows, NEW T \in SUBSET S
  PROVE  /\ Portions(T, "SHIPPING") \in Int /\ Portions(S \ T, "SHIPPING") \in Int
         /\ Portions(S, "TRADE") \in Int
         /\ Portions(S, "TRADE") + Portions(T, "SHIPPING") + Portions(S \ T, "SHIPPING") = Unit * Amounts(S)
<1>1. PICK F : /\ \A n \in CostRows : F[n] = Portion(ExpenseAmount(cost[n]), cost[n], "TRADE") /\ F[n] \in Int
               /\ \A U \in SUBSET CostRows : Portions(U, "TRADE") = TotalOf(F, U)
  BY PortionsIs
<1>2. PICK G : /\ \A n \in CostRows : G[n] = Portion(ExpenseAmount(cost[n]), cost[n], "SHIPPING") /\ G[n] \in Int
               /\ \A U \in SUBSET CostRows : Portions(U, "SHIPPING") = TotalOf(G, U)
  BY PortionsIs
<1>3. PICK A : /\ \A n \in CostRows : A[n] = ExpenseAmount(cost[n]) /\ A[n] \in Int
               /\ \A U \in SUBSET CostRows : Amounts(U) = TotalOf(A, U)
  BY AmountsIs
<1>4. PICK H : H = [n \in S |-> F[n] + G[n]]
  OBVIOUS
<1>5. ASSUME NEW n \in S
      PROVE  F[n] \in Int /\ G[n] \in Int /\ A[n] \in Int /\ H[n] = F[n] + G[n] /\ H[n] \in Int /\ H[n] = Unit * A[n]
  <2>1. PICK a : a = ExpenseAmount(cost[n])
    OBVIOUS
  <2>2. a \in Int /\ A[n] = a
    BY <1>3, <2>1
  <2>3. Portion(a, cost[n], "TRADE") + Portion(a, cost[n], "SHIPPING") = Unit * a
    BY <2>2, PortionParts
  <2>4. F[n] \in Int /\ G[n] \in Int /\ F[n] + G[n] = Unit * a
    BY <1>1, <1>2, <2>1, <2>3
  <2> QED BY <1>4, <2>2, <2>4
<1>6. IsFiniteSet(S) /\ IsFiniteSet(T) /\ IsFiniteSet(S \ T) /\ S \ T \in SUBSET CostRows /\ T \in SUBSET CostRows
  BY CostSets
<1>7. TotalOf(H, S) = TotalOf(F, S) + TotalOf(G, S)
  BY <1>5, <1>6, SumPlus
<1>8. TotalOf(H, S) = Unit * TotalOf(A, S)
  <2>1. Unit \in Int
    BY ReportAssumption
  <2>2. \A n \in S : A[n] \in Int /\ H[n] = Unit * A[n]
    BY <1>5
  <2> QED BY <1>6, <2>1, <2>2, SumTimes
<1>9. TotalOf(G, S) = TotalOf(G, T) + TotalOf(G, S \ T)
  <2>1. \A n \in S : G[n] \in Int
    BY <1>5
  <2> QED BY <1>6, <2>1, SumSplit
<1>10. TotalOf(F, S) \in Int /\ TotalOf(G, T) \in Int /\ TotalOf(G, S \ T) \in Int
  <2>1. (\A n \in S : F[n] \in Int) /\ (\A n \in T : G[n] \in Int) /\ (\A n \in S \ T : G[n] \in Int)
    BY <1>5
  <2> QED BY <1>6, <2>1, SumInt
<1>11. PICK f, g, h, a : f = TotalOf(F, S) /\ g = TotalOf(G, T) /\ h = TotalOf(G, S \ T) /\ a = Unit * TotalOf(A, S)
  OBVIOUS
<1>12. f \in Int /\ g \in Int /\ h \in Int /\ f + (g + h) = a
  BY <1>7, <1>8, <1>9, <1>10, <1>11
<1>13. f + g + h = a
  BY <1>12
<1>14. Portions(S, "TRADE") = f /\ Portions(T, "SHIPPING") = g /\ Portions(S \ T, "SHIPPING") = h
  BY <1>1, <1>2, <1>6, <1>11
<1>15. Unit * Amounts(S) = a
  BY <1>3, <1>11
<1> QED BY <1>12, <1>13, <1>14, <1>15

LEMMA SumThree == \A k, a, b, c, d, e \in Int : k * (a + b) + k * (c + d + e) = k * (a + c + (b + d) + e)
  OBVIOUS

\* Every expense once over the reports of the two activities and the goods.
LEMMA ExpensesByActivity ==
  ASSUME ReportIInv, NEW to \in Dates,
         NEW rows, rows = {n \in CostRows : cost[n].type \in ExpenseTypes /\ Within(cost[n].day, 1, to)},
         NEW onGoods, onGoods = {n \in rows : cost[n].on # None /\ ~Stranded(n)}
  PROVE  TradeReport(1, to).expenses + ShippingSummary(1, to).loading + ShippingSummary(1, to).warehouse
           + Unit * OutOf(onGoods)
         = Unit * Amounts({n \in rows : ~Stranded(n)})
<1>1. ReportTables /\ ReportTypeOK /\ CostsKnown
  BY DEF ReportIInv
<1>2. PICK E : E = ExpenseRows(1, to)
  OBVIOUS
<1>3. PICK V : V = {n \in E : cost[n].budget # None /\ budget[cost[n].budget].vehicle}
  OBVIOUS
<1>4. /\ TradeReport(1, to).expenses = Portions(E, "TRADE")
      /\ ShippingSummary(1, to).loading = Portions(V, "SHIPPING")
      /\ ShippingSummary(1, to).warehouse = Portions(E \ V, "SHIPPING")
  <2>1. TradeReport(1, to).expenses = Portions(E, "TRADE")
    BY <1>2 DEF TradeReport
  <2>2. ShippingSummary(1, to).loading = Portions(V, "SHIPPING")
    BY <1>2, <1>3 DEF ShippingSummary
  <2>3. ShippingSummary(1, to).warehouse = Portions(E \ V, "SHIPPING")
    BY <1>2, <1>3 DEF ShippingSummary
  <2> QED BY <2>1, <2>2, <2>3
<1>5. /\ E \in SUBSET CostRows /\ V \in SUBSET E /\ onGoods \in SUBSET CostRows
      /\ E \cap onGoods = {} /\ {n \in rows : ~Stranded(n)} = E \cup onGoods
  BY <1>2, <1>3 DEF ExpenseRows, Stranded
<1>6. OutOf(onGoods) = Amounts(onGoods)
  <2>1. \A n \in onGoods : cost[n].out > 0
    BY <1>1 DEF CostsKnown
  <2> QED BY <1>1, <1>5, <2>1, PaidAmounts
<1>7. PICK t, l, w, x, y : /\ t = Portions(E, "TRADE") /\ l = Portions(V, "SHIPPING") /\ w = Portions(E \ V, "SHIPPING")
                           /\ x = Amounts(E) /\ y = Amounts(onGoods)
  OBVIOUS
<1>8. t \in Int /\ l \in Int /\ w \in Int /\ t + l + w = Unit * x
  BY <1>1, <1>5, <1>7, PortionsAdd
<1>9. x \in Int /\ y \in Int /\ Amounts(E \cup onGoods) = x + y
  BY <1>1, <1>5, <1>7, AmountsSplit
<1>10. Unit * (x + y) = Unit * x + Unit * y
  <2>1. Unit \in Int
    BY ReportAssumption
  <2> QED BY <1>9, <2>1, Distributes
<1> QED BY <1>4, <1>5, <1>6, <1>7, <1>8, <1>9, <1>10

\* and once in profit and loss
LEMMA ExpensesByGoods ==
  ASSUME ReportTables, NEW to \in Dates,
         NEW rows, rows = {n \in CostRows : cost[n].type \in ExpenseTypes /\ Within(cost[n].day, 1, to)},
         NEW spread, spread = {n \in CostRows : cost[n].type = "spread" /\ Within(cost[n].day, 1, to)}
  PROVE  ProfitLoss(1, to).operating + ProfitLoss(1, to).goods = Unit * OutOf(rows \cup spread)
<1>1. PICK E : E = {n \in CostRows : cost[n].type = "expense" /\ Within(cost[n].day, 1, to)}
  OBVIOUS
<1>2. PICK W : W = {n \in CostRows : cost[n].type = "warehouse" /\ Within(cost[n].day, 1, to)}
  OBVIOUS
<1>3. PICK G : G = {n \in CostRows : cost[n].on # None}
  OBVIOUS
<1>4. PICK H : H = G \cup {n \in CostRows : cost[n].budget # None /\ budget[cost[n].budget].goods}
  OBVIOUS
<1>5. /\ ProfitLoss(1, to).operating = Unit * (OutOf(E \ H) + OutOf(W \ G))
      /\ ProfitLoss(1, to).goods = Unit * (OutOf(E \cap H) + OutOf(W \cap G) + OutOf(spread))
  <2>1. ProfitLoss(1, to).operating = Unit * (OutOf(E \ H) + OutOf(W \ G))
    BY <1>1, <1>2, <1>3, <1>4 DEF ProfitLoss
  <2>2. ProfitLoss(1, to).goods = Unit * (OutOf(E \cap H) + OutOf(W \cap G) + OutOf(spread))
    BY <1>1, <1>2, <1>3, <1>4 DEF ProfitLoss
  <2> QED BY <2>1, <2>2
<1>6. /\ E \in SUBSET CostRows /\ W \in SUBSET CostRows /\ spread \in SUBSET CostRows
      /\ E \cap W = {} /\ (E \cup W) \cap spread = {} /\ rows = E \cup W
  BY <1>1, <1>2 DEF ExpenseTypes
<1>7. PICK a, b, c, d, e : /\ a = OutOf(E \ H) /\ b = OutOf(W \ G) /\ c = OutOf(E \cap H)
                           /\ d = OutOf(W \cap G) /\ e = OutOf(spread)
  OBVIOUS
<1>8. a \in Int /\ c \in Int /\ OutOf(E) = a + c
  <2>1. PICK S, T : S = E \ H /\ T = E \cap H
    OBVIOUS
  <2>2. S \in SUBSET CostRows /\ T \in SUBSET CostRows /\ S \cap T = {} /\ S \cup T = E
    BY <1>6, <2>1
  <2>3. OutOf(S) \in Int /\ OutOf(T) \in Int /\ OutOf(S \cup T) = OutOf(S) + OutOf(T)
    BY <2>2, OutSplit
  <2> QED BY <1>7, <2>1, <2>2, <2>3
<1>9. b \in Int /\ d \in Int /\ OutOf(W) = b + d
  <2>1. PICK S, T : S = W \ G /\ T = W \cap G
    OBVIOUS
  <2>2. S \in SUBSET CostRows /\ T \in SUBSET CostRows /\ S \cap T = {} /\ S \cup T = W
    BY <1>6, <2>1
  <2>3. OutOf(S) \in Int /\ OutOf(T) \in Int /\ OutOf(S \cup T) = OutOf(S) + OutOf(T)
    BY <2>2, OutSplit
  <2> QED BY <1>7, <2>1, <2>2, <2>3
<1>10. OutOf(rows) = OutOf(E) + OutOf(W)
  BY <1>6, OutSplit
<1>11. e \in Int /\ OutOf(rows \cup spread) = OutOf(rows) + e
  <2>1. rows \in SUBSET CostRows /\ rows \cap spread = {}
    BY <1>6
  <2> QED BY <1>6, <1>7, <2>1, OutSplit
<1>12. OutOf(rows \cup spread) = a + c + (b + d) + e
  BY <1>8, <1>9, <1>10, <1>11
<1>13. Unit * (a + b) + Unit * (c + d + e) = Unit * (a + c + (b + d) + e)
  <2>1. Unit \in Int
    BY ReportAssumption
  <2> QED BY <1>8, <1>9, <1>11, <2>1, SumThree
<1> QED BY <1>5, <1>7, <1>12, <1>13

LEMMA ExpensesOnceAlways == ReportIInv => \A to \in Dates : ExpensesOnce(1, to)
<1> SUFFICES ASSUME ReportIInv, NEW to \in Dates PROVE ExpensesOnce(1, to)
  OBVIOUS
<1>1. PICK rows : rows = {n \in CostRows : cost[n].type \in ExpenseTypes /\ Within(cost[n].day, 1, to)}
  OBVIOUS
<1>2. PICK onGoods : onGoods = {n \in rows : cost[n].on # None /\ ~Stranded(n)}
  OBVIOUS
<1>3. PICK spread : spread = {n \in CostRows : cost[n].type = "spread" /\ Within(cost[n].day, 1, to)}
  OBVIOUS
<1>4. TradeReport(1, to).expenses + ShippingSummary(1, to).loading + ShippingSummary(1, to).warehouse
        + Unit * OutOf(onGoods)
      = Unit * Amounts({n \in rows : ~Stranded(n)})
  BY <1>1, <1>2, ExpensesByActivity
<1>5. ProfitLoss(1, to).operating + ProfitLoss(1, to).goods = Unit * OutOf(rows \cup spread)
  BY <1>1, <1>3, ExpensesByGoods DEF ReportIInv
<1> QED BY <1>1, <1>2, <1>3, <1>4, <1>5 DEF ExpensesOnce

\* What the goods of a purchase cost is what its lines say and what the log says was put on them.
LEMMA GoodsCostAlways == ReportIInv => GoodsCostOnce
<1> SUFFICES ASSUME ReportIInv, NEW p \in Bills \ unspread, RealPurchase(p)
             PROVE  LandedCost(p) = Unit * (bill[p].goods + bill[p].freight + OutOf(
                        {n \in CostRows : cost[n].on = p /\ (cost[n].type = "spread" \/ ~Stranded(n))}))
  BY DEF GoodsCostOnce
<1>1. ReportTables /\ CostsKnown /\ SpreadCounted
  BY DEF ReportIInv
<1>2. PICK S : S = SpreadOn(cost, p)
  OBVIOUS
<1>3. PICK T : T = {n \in CostRows : cost[n].type \in ExpenseTypes /\ cost[n].on = p /\ cost[n].product}
  OBVIOUS
<1>4. S = {n \in CostRows : cost[n].type = "spread" /\ cost[n].on = p}
  BY <1>2 DEF SpreadOn, CostRows
<1>5. p # None /\ IsBill(p)
  BY ReportAssumption DEF RealPurchase
<1>6. S \in SUBSET CostRows /\ T \in SUBSET CostRows /\ S \cap T = {}
  BY <1>3, <1>4 DEF ExpenseTypes
<1>7. {n \in CostRows : cost[n].on = p /\ (cost[n].type = "spread" \/ ~Stranded(n))} = S \cup T
  BY <1>1, <1>3, <1>4, <1>5 DEF Stranded, CostsKnown
<1>8. OutOf(S) \in Int /\ OutOf(T) \in Int /\ OutOf(S \cup T) = OutOf(S) + OutOf(T)
  BY <1>1, <1>6, OutSplit
<1>9. bill[p].spread = OutOf(S)
  BY <1>1, <1>2, <1>5 DEF SpreadCounted, SumOut, OutOf
<1>10. LandedCost(p) = Unit * (bill[p].goods + bill[p].freight + bill[p].spread + OutOf(T))
  BY <1>3 DEF LandedCost, LinkedFreight
<1>11. bill[p].goods \in Int /\ bill[p].freight \in Int
  <2>1. bill[p] \in BillRow
    BY <1>1, <1>5, RowsTyped
  <2> QED BY <2>1 DEF BillRow
<1>12. bill[p].goods + bill[p].freight + bill[p].spread + OutOf(T) = bill[p].goods + bill[p].freight + OutOf(S \cup T)
  BY <1>8, <1>9, <1>11
<1> QED BY <1>7, <1>10, <1>12

\* Sums over invoices and deals.
LEMMA BillSets ==
  ASSUME NEW S \in SUBSET Bills
  PROVE  IsFiniteSet(S)
  BY ReportAssumption, FS_Subset

LEMMA GoodsIs ==
  ASSUME ReportTables
  PROVE  \E F : /\ \A p : IsBill(p) => F[p] = bill[p].goods /\ F[p] \in Nat
                /\ \A S \in SUBSET {p \in Bills : IsBill(p)} : GoodsOf(S) = TotalOf(F, S)
<1>1. PICK B : B = {p \in Bills : IsBill(p)}
  OBVIOUS
<1>2. PICK F : F = [p \in B |-> bill[p].goods]
  OBVIOUS
<1>3. \A p \in B : F[p] = bill[p].goods /\ F[p] \in Nat
  BY <1>1, <1>2, RowsTyped DEF BillRow
<1>4. ASSUME NEW S \in SUBSET B PROVE GoodsOf(S) = TotalOf(F, S)
  <2>1. PICK g : g = [p \in S |-> bill[p].goods]
    OBVIOUS
  <2>2. g = [p \in S |-> F[p]] /\ IsFiniteSet(S)
    BY <1>1, <1>3, <2>1, BillSets
  <2>3. SumFunction(g) = TotalOf(F, S)
    BY <2>2, SumOfFunction
  <2> QED BY <2>1, <2>3 DEF GoodsOf, Sum
<1>5. \A p : IsBill(p) => p \in B
  BY <1>1 DEF IsBill
<1> QED BY <1>1, <1>3, <1>4, <1>5

LEMMA GoodsSplit ==
  ASSUME ReportTables, NEW S \in SUBSET {p \in Bills : IsBill(p)}, NEW T \in SUBSET {p \in Bills : IsBill(p)},
         S \cap T = {}
  PROVE  GoodsOf(S) \in Int /\ GoodsOf(T) \in Int /\ GoodsOf(S \cup T) = GoodsOf(S) + GoodsOf(T)
<1>1. PICK F : /\ \A p : IsBill(p) => F[p] = bill[p].goods /\ F[p] \in Nat
               /\ \A U \in SUBSET {p \in Bills : IsBill(p)} : GoodsOf(U) = TotalOf(F, U)
  BY GoodsIs
<1>2. IsFiniteSet(S) /\ IsFiniteSet(T)
  BY BillSets
<1>3. (\A n \in S : F[n] \in Int) /\ (\A n \in T : F[n] \in Int) /\ (\A n \in S \cup T : F[n] \in Int)
  BY <1>1
<1>4. TotalOf(F, S \cup T) = TotalOf(F, S) + TotalOf(F, T)
  BY <1>2, <1>3, SumUnion
<1>5. TotalOf(F, S) \in Int /\ TotalOf(F, T) \in Int
  BY <1>2, <1>3, SumInt
<1> QED BY <1>1, <1>4, <1>5

LEMMA ChargesSplit ==
  ASSUME ReportTables, NEW S, NEW T, S \cap T = {}
  PROVE  ChargesOf(S) \in Int /\ ChargesOf(T) \in Int /\ ChargesOf(S \cup T) = ChargesOf(S) + ChargesOf(T)
<1>1. PICK C : C = ChargeRows
  OBVIOUS
<1>2. PICK F : F = [n \in C |-> charge[n].total]
  OBVIOUS
<1>3. \A n \in C : F[n] = charge[n].total /\ F[n] \in Int
  BY <1>1, <1>2, RowsTyped DEF ChargeEntry
<1>4. ASSUME NEW U
      PROVE  \E R \in SUBSET C : R = {m \in ChargeRows : charge[m].bill \in U} /\ ChargesOf(U) = TotalOf(F, R)
  <2>1. PICK R : R = {m \in ChargeRows : charge[m].bill \in U}
    OBVIOUS
  <2>2. R \in SUBSET C
    BY <1>1, <2>1
  <2>3. PICK g : g = [n \in R |-> charge[n].total]
    OBVIOUS
  <2>4. g = [n \in R |-> F[n]] /\ IsFiniteSet(R)
    BY <1>1, <1>3, <2>2, <2>3, ChargeSets
  <2>5. SumFunction(g) = TotalOf(F, R)
    BY <2>4, SumOfFunction
  <2> QED BY <2>1, <2>2, <2>3, <2>5 DEF ChargesOf, Sum
<1>5. PICK P \in SUBSET C : P = {m \in ChargeRows : charge[m].bill \in S} /\ ChargesOf(S) = TotalOf(F, P)
  BY <1>4
<1>6. PICK Q \in SUBSET C : Q = {m \in ChargeRows : charge[m].bill \in T} /\ ChargesOf(T) = TotalOf(F, Q)
  BY <1>4
<1>7. PICK R \in SUBSET C : R = {m \in ChargeRows : charge[m].bill \in S \cup T} /\ ChargesOf(S \cup T) = TotalOf(F, R)
  BY <1>4
<1>8. R = P \cup Q /\ P \cap Q = {}
  BY <1>5, <1>6, <1>7
<1>9. IsFiniteSet(P) /\ IsFiniteSet(Q)
  BY <1>1, ChargeSets
<1>10. (\A n \in P : F[n] \in Int) /\ (\A n \in Q : F[n] \in Int) /\ (\A n \in P \cup Q : F[n] \in Int)
  BY <1>3
<1>11. TotalOf(F, P \cup Q) = TotalOf(F, P) + TotalOf(F, Q)
  BY <1>8, <1>9, <1>10, SumUnion
<1>12. TotalOf(F, P) \in Int /\ TotalOf(F, Q) \in Int
  BY <1>9, <1>10, SumInt
<1> QED BY <1>5, <1>6, <1>7, <1>8, <1>11, <1>12

\* Of any figure of invoices and deals.
LEMMA FigureIs ==
  ASSUME NEW S \in SUBSET Bills, NEW f, NEW g, g = [p \in S |-> f[p]]
  PROVE  Sum(g) = TotalOf(f, S)
  BY BillSets, SumOfFunction DEF Sum

\* The freight of a deal, or of a sale on a vehicle, once over trade and shipping.
LEMMA DealFreightAlwaysOnce == ReportIInv => \A to \in Dates : DealFreightOnce(1, to)
<1> SUFFICES ASSUME ReportIInv, NEW to \in Dates PROVE DealFreightOnce(1, to)
  OBVIOUS
<1>1. ReportTables /\ BillsKnown
  BY DEF ReportIInv
<1>2. PICK B : B = BillsIn(1, to)
  OBVIOUS
<1>3. PICK D : D = {p \in B : IsDeal(p)}
  OBVIOUS
<1>4. PICK W : W = {p \in B : bill[p].kind # "PURCHASE" /\ WagonsOf(p) # {}}
  OBVIOUS
<1>5. PICK R : R = {p \in B : IsDeal(p) /\ (bill[p].goods > 0 \/ WagonsOf(p) # {})}
                   \cup {p \in B : RealSale(p) /\ WagonsOf(p) # {}}
  OBVIOUS
<1>6. \A p \in B : p \in Bills /\ IsBill(p)
  BY <1>2 DEF BillsIn
<1>7. PICK F : F = [p \in B |-> IF p \in R THEN bill[p].freight ELSE 0]
  OBVIOUS
<1>8. PICK G : G = [p \in B |-> IF p \in D THEN DealFreight(p) ELSE 0]
  OBVIOUS
<1>9. PICK H : H = [p \in B |-> IF p \in W THEN FreightPaid(p) ELSE 0]
  OBVIOUS
<1>10. \A p \in B : bill[p].freight \in Nat /\ bill[p].goods \in Nat /\ bill[p].kind \in {"SALE", "PURCHASE", "DEAL"}
                    /\ bill[p].fake \in BOOLEAN
  <2>1. \A p \in B : bill[p] \in BillRow
    BY <1>1, <1>6, RowsTyped
  <2> QED BY <2>1 DEF BillRow
<1>11. ASSUME NEW p \in B PROVE F[p] \in Int /\ G[p] \in Int /\ H[p] \in Int /\ F[p] = G[p] + H[p]
  <2> DEFINE on == WagonsOf(p) # {}
  <2>1. /\ p \in D <=> bill[p].kind = "DEAL"
        /\ p \in W <=> bill[p].kind # "PURCHASE" /\ on
        /\ p \in R <=> \/ bill[p].kind = "DEAL" /\ (bill[p].goods > 0 \/ on)
                       \/ bill[p].kind = "SALE" /\ ~bill[p].fake /\ on
    BY <1>3, <1>4, <1>5, <1>6 DEF IsDeal, RealSale
  <2>2. DealFreight(p) = IF ~on /\ bill[p].goods > 0 THEN bill[p].freight ELSE 0
    BY DEF DealFreight
  <2>3. FreightPaid(p) = IF bill[p].fake THEN 0 ELSE bill[p].freight
    BY DEF FreightPaid
  <2>4. bill[p].kind = "DEAL" => ~bill[p].fake
    BY <1>1, <1>6 DEF BillsKnown
  <2> HIDE DEF on
  <2>5. F[p] = (IF p \in R THEN bill[p].freight ELSE 0) /\ G[p] = (IF p \in D THEN DealFreight(p) ELSE 0)
        /\ H[p] = (IF p \in W THEN FreightPaid(p) ELSE 0)
    BY <1>7, <1>8, <1>9
  <2>6. PICK x : x = bill[p].freight
    OBVIOUS
  <2>7. x \in Int /\ x = x + 0 /\ x = 0 + x /\ 0 = 0 + 0
    BY <1>10, <2>6
  <2>8. CASE bill[p].kind = "DEAL"
    <3>1. CASE on
      <4>1. F[p] = x /\ G[p] = 0 /\ H[p] = x
        BY <2>1, <2>2, <2>3, <2>4, <2>5, <2>6, <2>8, <3>1
      <4> QED BY <2>7, <4>1
    <3>2. CASE ~on
      <4>1. (F[p] = x /\ G[p] = x /\ H[p] = 0) \/ (F[p] = 0 /\ G[p] = 0 /\ H[p] = 0)
        BY <2>1, <2>2, <2>3, <2>4, <2>5, <2>6, <2>8, <3>2
      <4> QED BY <2>7, <4>1
    <3> QED BY <3>1, <3>2
  <2>9. CASE bill[p].kind # "DEAL"
    <3>1. G[p] = 0
      BY <2>1, <2>5, <2>9
    <3>2. (F[p] = x /\ H[p] = x) \/ (F[p] = 0 /\ H[p] = 0)
      BY <1>10, <2>1, <2>3, <2>5, <2>6, <2>9
    <3> QED BY <2>7, <3>1, <3>2
  <2> QED BY <2>8, <2>9
<1>12. B \in SUBSET Bills /\ D \in SUBSET B /\ W \in SUBSET B /\ R \in SUBSET B
  BY <1>2, <1>3, <1>4, <1>5 DEF BillsIn
<1>13. IsFiniteSet(B)
  BY <1>12, BillSets
<1>14. TotalOf(F, B) = TotalOf(G, B) + TotalOf(H, B)
  <2>1. \A p \in B : G[p] \in Int /\ H[p] \in Int /\ F[p] = G[p] + H[p]
    BY <1>11
  <2> QED BY <1>13, <2>1, SumPlus
<1>15. TotalOf(F, B) = TotalOf(F, R)
  <2>1. \A p \in B : F[p] \in Int
    BY <1>11
  <2>2. \A p \in B \ R : F[p] = 0
    BY <1>7
  <2> QED BY <1>12, <1>13, <2>1, <2>2, SumPart
<1>16. TotalOf(G, B) = TotalOf(G, D)
  <2>1. \A p \in B : G[p] \in Int
    BY <1>11
  <2>2. \A p \in B \ D : G[p] = 0
    BY <1>8
  <2> QED BY <1>12, <1>13, <2>1, <2>2, SumPart
<1>17. TotalOf(H, B) = TotalOf(H, W)
  <2>1. \A p \in B : H[p] \in Int
    BY <1>11
  <2>2. \A p \in B \ W : H[p] = 0
    BY <1>9
  <2> QED BY <1>12, <1>13, <2>1, <2>2, SumPart
<1>18. Sum([p \in R |-> bill[p].freight]) = TotalOf(F, R)
  <2>1. [p \in R |-> bill[p].freight] = [p \in R |-> F[p]]
    BY <1>7, <1>12
  <2>2. R \in SUBSET Bills
    BY <1>12
  <2> QED BY <2>1, <2>2, FigureIs
<1>19. Sum([p \in D |-> DealFreight(p)]) = TotalOf(G, D)
  <2>1. [p \in D |-> DealFreight(p)] = [p \in D |-> G[p]]
    BY <1>8, <1>12
  <2>2. D \in SUBSET Bills
    BY <1>12
  <2> QED BY <2>1, <2>2, FigureIs
<1>20. Sum([p \in W |-> FreightPaid(p)]) = TotalOf(H, W)
  <2>1. [p \in W |-> FreightPaid(p)] = [p \in W |-> H[p]]
    BY <1>9, <1>12
  <2>2. W \in SUBSET Bills
    BY <1>12
  <2> QED BY <2>1, <2>2, FigureIs
<1>21. PICK g, h : g = TotalOf(G, D) /\ h = TotalOf(H, W)
  OBVIOUS
<1>22. g \in Int /\ h \in Int
  <2>1. (\A p \in B : G[p] \in Int) /\ (\A p \in B : H[p] \in Int)
    BY <1>11
  <2>2. TotalOf(G, B) \in Int /\ TotalOf(H, B) \in Int
    BY <1>13, <2>1, SumInt
  <2> QED BY <1>16, <1>17, <1>21, <2>2
<1>23. Unit * (g + h) = Unit * g + Unit * h
  <2>1. Unit \in Int
    BY ReportAssumption
  <2> QED BY <1>22, <2>1, Distributes
<1>24. TradeReport(1, to).dealFreight = Unit * g
  BY <1>2, <1>3, <1>19, <1>21 DEF TradeReport
<1>25. ShippingSummary(1, to).invoiceFreight = Unit * h
  BY <1>2, <1>4, <1>20, <1>21 DEF ShippingSummary
<1>26. Unit * Sum([p \in R |-> bill[p].freight]) = Unit * (g + h)
  BY <1>14, <1>15, <1>16, <1>17, <1>18, <1>21
<1> QED BY <1>2, <1>5, <1>23, <1>24, <1>25, <1>26 DEF DealFreightOnce

LEMMA NothingTwiceAlways == ReportIInv => NothingTwice
  BY ExpensesOnceAlways, GoodsCostAlways, DealFreightAlwaysOnce DEF NothingTwice

\* The summary and the reports of the two activities.
LEMMA SummaryAlways == ReportIInv => \A to \in Dates : SummaryAgrees(1, to)
<1> SUFFICES ASSUME ReportIInv, NEW to \in Dates PROVE SummaryAgrees(1, to)
  OBVIOUS
<1>1. ReportTables /\ Unit \in Int
  BY ReportAssumption DEF ReportIInv
<1>2. PICK B : B = BillsIn(1, to)
  OBVIOUS
<1>3. PICK D, S, P : D = {p \in B : IsDeal(p)} /\ S = {p \in B : RealSale(p)} /\ P = {p \in B : RealPurchase(p)}
  OBVIOUS
<1>4. /\ S \in SUBSET {p \in Bills : IsBill(p)} /\ D \in SUBSET {p \in Bills : IsBill(p)} /\ S \cap D = {}
      /\ {p \in B : RealSale(p) \/ IsDeal(p)} = S \cup D
  BY <1>2, <1>3 DEF BillsIn, IsDeal, RealSale
<1>5. TradeReport(1, to).sales = Summary(1, to).sales + Unit * GoodsOf(D)
  <2>1. GoodsOf(S) \in Int /\ GoodsOf(D) \in Int /\ GoodsOf(S \cup D) = GoodsOf(S) + GoodsOf(D)
    BY <1>1, <1>4, GoodsSplit
  <2>2. Unit * (GoodsOf(S) + GoodsOf(D)) = Unit * GoodsOf(S) + Unit * GoodsOf(D)
    BY <1>1, <2>1, Distributes
  <2>3. TradeReport(1, to).sales = Unit * GoodsOf(S \cup D)
    BY <1>2, <1>3 DEF TradeReport
  <2>4. Summary(1, to).sales = Unit * GoodsOf(S)
    BY <1>2, <1>3 DEF Summary
  <2> QED BY <2>1, <2>2, <2>3, <2>4
<1>6. ShippingSummary(1, to).income = Summary(1, to).collected + Unit * ChargesOf(D)
  <2>1. ChargesOf(S) \in Int /\ ChargesOf(D) \in Int /\ ChargesOf(S \cup D) = ChargesOf(S) + ChargesOf(D)
    BY <1>1, <1>4, ChargesSplit
  <2>2. Unit * (ChargesOf(S) + ChargesOf(D)) = Unit * ChargesOf(S) + Unit * ChargesOf(D)
    BY <1>1, <2>1, Distributes
  <2>3. ShippingSummary(1, to).income = Unit * ChargesOf(S \cup D)
    BY <1>2, <1>4 DEF ShippingSummary
  <2>4. Summary(1, to).collected = Unit * ChargesOf(S)
    BY <1>2, <1>3 DEF Summary
  <2> QED BY <2>1, <2>2, <2>3, <2>4
<1>7. ShippingSummary(1, to).purchaseCharges = Summary(1, to).paid
  <2>1. ShippingSummary(1, to).purchaseCharges = Unit * ChargesOf(P)
    BY <1>2, <1>3 DEF ShippingSummary
  <2>2. Summary(1, to).paid = Unit * ChargesOf(P)
    BY <1>2, <1>3 DEF Summary
  <2> QED BY <2>1, <2>2
<1>8. TradeReport(1, to).salesDiscount <= Summary(1, to).sales
  <2>1. PICK F : /\ \A p : IsBill(p) => F[p] = bill[p].goods /\ F[p] \in Nat
                 /\ \A U \in SUBSET {p \in Bills : IsBill(p)} : GoodsOf(U) = TotalOf(F, U)
    BY <1>1, GoodsIs
  <2>2. PICK G : G = [p \in S |-> TradeDiscount(p)]
    OBVIOUS
  <2>3. ASSUME NEW p \in S PROVE F[p] \in Int /\ G[p] \in Int /\ G[p] <= F[p]
    <3>1. IsBill(p)
      BY <1>4
    <3>2. bill[p].goods \in Nat /\ bill[p].discount \in Nat
      BY <1>1, <3>1, RowsTyped DEF BillRow
    <3>3. G[p] = IF bill[p].discount < bill[p].goods THEN bill[p].discount ELSE bill[p].goods
      BY <2>2 DEF TradeDiscount
    <3>4. F[p] = bill[p].goods
      BY <2>1, <3>1
    <3> QED BY <3>2, <3>3, <3>4
  <2>4. S \in SUBSET Bills /\ IsFiniteSet(S)
    BY <1>4, BillSets
  <2>5. TotalOf(G, S) <= TotalOf(F, S)
    BY <2>3, <2>4, SumAtMost
  <2>6. Sum([p \in S |-> TradeDiscount(p)]) = TotalOf(G, S)
    BY <2>2, <2>4, FigureIs
  <2>7. TradeReport(1, to).salesDiscount = Unit * TotalOf(G, S)
    BY <1>2, <1>3, <2>6 DEF TradeReport
  <2>8. Summary(1, to).sales = Unit * TotalOf(F, S)
    BY <1>2, <1>3, <1>4, <2>1 DEF Summary
  <2>9. TotalOf(G, S) \in Int /\ TotalOf(F, S) \in Int
    <3>1. (\A p \in S : F[p] \in Int) /\ (\A p \in S : G[p] \in Int)
      BY <2>3
    <3> QED BY <2>4, <3>1, SumInt
  <2>10. \A k \in Nat, a, b \in Int : a <= b => k * a <= k * b
    OBVIOUS
  <2>11. Unit \in Nat
    BY ReportAssumption
  <2> QED BY <2>5, <2>7, <2>8, <2>9, <2>10, <2>11
<1>9. PICK dd : dd = {p \in BillsIn(1, to) : IsDeal(p)}
  OBVIOUS
<1>10. dd = D
  BY <1>2, <1>3, <1>9
<1> QED BY <1>5, <1>6, <1>7, <1>8, <1>9, <1>10 DEF SummaryAgrees

\* A finite set of numbers has a largest.
LEMMA LargestOf ==
  ASSUME NEW D, D \subseteq Nat, IsFiniteSet(D), D # {}
  PROVE  Max(D) \in D /\ \A x \in D : x <= Max(D)
<1> DEFINE Above(x) == {y \in D : y > x}
           C == {Above(x) : x \in D}
<1>1. C # {} /\ \A U \in C : IsFiniteSet(U)
  <2>1. \A x \in D : IsFiniteSet(Above(x))
    BY FS_Subset
  <2> QED BY <2>1
<1>2. PICK U \in C : \A V \in C : Cardinality(U) <= Cardinality(V)
  BY <1>1, SmallestOf
<1>3. PICK m \in D : U = Above(m)
  BY <1>2
<1>4. U = {}
  <2> SUFFICES ASSUME NEW y \in U PROVE FALSE
    OBVIOUS
  <2>1. y \in D /\ y > m
    BY <1>3
  <2>2. PICK V : V = Above(y)
    OBVIOUS
  <2>3. V \in C /\ V \subseteq U \ {y}
    <3>1. V \in C
      BY <2>1, <2>2
    <3>2. ASSUME NEW z \in V PROVE z \in U \ {y}
      <4>1. z \in D /\ z > y /\ z \in Int /\ y \in Int /\ m \in Int
        BY <2>1, <2>2
      <4>2. z > m /\ z # y
        BY <2>1, <4>1
      <4> QED BY <1>3, <4>1, <4>2
    <3> QED BY <3>1, <3>2
  <2>4. IsFiniteSet(U) /\ IsFiniteSet(U \ {y})
    BY <1>1, <1>2, FS_Subset
  <2>5. Cardinality(V) <= Cardinality(U \ {y}) /\ Cardinality(V) \in Nat
    BY <2>3, <2>4, FS_Subset, FS_CardinalityType
  <2>6. /\ Cardinality(U) \in Nat /\ Cardinality(U \ {y}) \in Nat
        /\ Cardinality(U \ {y}) < Cardinality(U)
    BY <2>4, OneLess
  <2>7. Cardinality(U) <= Cardinality(V)
    BY <1>2, <2>3
  <2> QED BY <2>5, <2>6, <2>7
<1>5. \A x \in D : m >= x
  <2>1. ASSUME NEW x \in D, ~(m >= x) PROVE FALSE
    <3>1. x > m
      BY <2>1
    <3>2. x \in Above(m)
      BY <3>1
    <3> QED BY <1>3, <1>4, <3>2
  <2> QED BY <2>1
<1>6. Max(D) \in D /\ \A x \in D : Max(D) >= x
  <2> HIDE DEF C, Above
  <2> QED BY <1>5 DEF Max
<1> QED BY <1>6

\* Every charge that is assigned, or has only one vehicle to go to, is of one vehicle.
LEMMA ChargeOnce ==
  ASSUME ReportIInv, NEW n \in ChargeRows,
         NEW V, V = {w \in {v \in Wagons : IsWagon(v)} : n \in ChargesOn(w)}
  PROVE  Cardinality(V) =
            IF charge[n].wagon # None \/ Cardinality(WagonsOf(charge[n].bill)) = 1 THEN 1 ELSE 0
<1>1. ReportTables /\ ReportTypeOK
  BY DEF ReportIInv
<1>2. charge[n].bill \in Bills /\ charge[n].wagon \in Wagons \cup {None} /\ IsBill(charge[n].bill)
      /\ (charge[n].wagon = None \/ IsWagon(charge[n].wagon))
  BY <1>1, RowsTyped DEF ReportTypeOK, ChargeEntry
<1>3. PICK b, u : b = charge[n].bill /\ u = charge[n].wagon
  OBVIOUS
<1>4. /\ b \in Bills /\ b # None /\ b # "no" /\ None \notin Wagons
      /\ \A w \in Wagons : n \in ChargesOn(w) <=> \/ u = w
                                                  \/ wagon[w] # None /\ WagonsOf(wagon[w]) = {w} /\ u = None /\ b = wagon[w]
  BY <1>2, <1>3, ReportAssumption DEF ChargesOn, SoleWagon
<1>5. CASE u # None
  <2>1. V = {u}
    BY <1>2, <1>3, <1>4, <1>5
  <2>2. Cardinality({u}) = 1
    BY FS_Singleton
  <2> QED BY <1>3, <1>5, <2>1, <2>2
<1>6. CASE u = None
  <2>1. \A w \in Wagons : n \in ChargesOn(w) <=> WagonsOf(b) = {w}
    <3> SUFFICES ASSUME NEW w \in Wagons PROVE n \in ChargesOn(w) <=> WagonsOf(b) = {w}
      OBVIOUS
    <3>1. n \in ChargesOn(w) <=> wagon[w] # None /\ WagonsOf(wagon[w]) = {w} /\ b = wagon[w]
      BY <1>4, <1>6
    <3>2. WagonsOf(b) = {w} => wagon[w] = b
      BY DEF WagonsOf
    <3> QED BY <1>4, <3>1, <3>2
  <2>2. ASSUME Cardinality(WagonsOf(b)) = 1 PROVE Cardinality(V) = 1
    <3>1. IsFiniteSet(WagonsOf(b))
      BY ReportAssumption, FS_Subset DEF WagonsOf
    <3>2. PICK w : WagonsOf(b) = {w}
      BY <2>2, <3>1, FS_Singleton
    <3>3. w \in Wagons /\ wagon[w] = b /\ IsWagon(w)
      BY <1>4, <3>2 DEF WagonsOf, IsWagon
    <3>4. V = {w}
      BY <2>1, <3>2, <3>3
    <3> QED BY <3>4, FS_Singleton
  <2>3. ASSUME Cardinality(WagonsOf(b)) # 1 PROVE Cardinality(V) = 0
    <3>1. \A w : WagonsOf(b) # {w}
      BY <2>3, FS_Singleton
    <3>2. V = {}
      BY <2>1, <3>1
    <3> QED BY <3>2, FS_EmptySet
  <2> QED BY <1>3, <1>6, <2>2, <2>3
<1> QED BY <1>5, <1>6

LEMMA Exact ==
  ASSUME NEW a \in Nat, NEW b \in Nat, b > 0, a % b = 0
  PROVE  a \div b \in Int /\ a = b * (a \div b)
  OBVIOUS

\* The shares of the vehicles of an invoice make its freight.
LEMMA SharesWhole ==
  ASSUME ReportTables, NEW p, WagonsOf(p) # {}, NEW x \in Int
  PROVE  /\ Cardinality(WagonsOf(p)) \in Nat /\ Unit \div Cardinality(WagonsOf(p)) \in Int
         /\ (x * (Unit \div Cardinality(WagonsOf(p)))) * Cardinality(WagonsOf(p)) = Unit * x
<1>1. PICK S, k : S = WagonsOf(p) /\ k = Cardinality(S)
  OBVIOUS
<1>2. S \in SUBSET Wagons /\ IsFiniteSet(Wagons)
  BY <1>1, ReportAssumption DEF WagonsOf
<1>3. IsFiniteSet(S) /\ Cardinality(S) <= Cardinality(Wagons)
  BY <1>2, FS_Subset
<1>4. Cardinality(Wagons) \in Nat /\ k \in Nat
  BY <1>1, <1>2, <1>3, FS_CardinalityType
<1>5. k # 0
  BY <1>1, <1>3, FS_EmptySet
<1>6. k \in 1 .. Cardinality(Wagons)
  BY <1>1, <1>3, <1>4, <1>5
<1>7. Unit \in Nat /\ Unit % k = 0
  BY <1>6, ReportAssumption
<1>8. PICK q : q = Unit \div k
  OBVIOUS
<1>9. q \in Int /\ Unit = k * q
  <2>1. k \in Nat /\ k > 0
    BY <1>4, <1>5
  <2> QED BY <1>7, <1>8, <2>1, Exact
<1>10. (x * q) * k = Unit * x
  <2>1. \A i, j, l \in Int : (i * j) * l = (l * j) * i
    OBVIOUS
  <2> QED BY <1>4, <1>9, <2>1
<1> QED BY <1>1, <1>4, <1>8, <1>9, <1>10

\* The period up to the last day leaves nothing out.
LEMMA Always ==
  ASSUME ReportTables
  PROVE  /\ \A p : IsBill(p) => Within(bill[p].day, 1, Max(Dates))
         /\ \A n \in CostRows : Within(cost[n].day, 1, Max(Dates))
<1>1. Dates \subseteq Nat \ {0} /\ Dates # {} /\ IsFiniteSet(Dates)
  BY ReportAssumption
<1>2. \A day \in Dates : 1 <= day /\ day <= Max(Dates)
  <2>1. Dates \subseteq Nat
    BY <1>1
  <2>2. \A day \in Dates : day <= Max(Dates)
    BY <1>1, <2>1, LargestOf
  <2>3. \A day \in Dates : 1 <= day
    BY <1>1
  <2> QED BY <2>2, <2>3
<1>3. \A p : IsBill(p) => bill[p].day \in Dates
  BY RowsTyped DEF BillRow
<1>4. \A n \in CostRows : cost[n].day \in Dates
  BY RowsTyped DEF CostEntry
<1> QED BY <1>2, <1>3, <1>4 DEF Within

\* What vehicles show as freight is the freight of the report.
LEMMA FreightsOfVehicles ==
  ASSUME ReportIInv, NEW V, V = {w \in Wagons : IsWagon(w)}
  PROVE  Sum([w \in V |-> VehicleProfit(w).freight]) = ShippingSummary(1, Max(Dates)).invoiceFreight
<1>1. ReportTables /\ ReportTypeOK /\ Unit \in Int
  BY ReportAssumption DEF ReportIInv
<1>2. PICK P : P = {p \in Bills : IsBill(p) /\ bill[p].kind # "PURCHASE" /\ WagonsOf(p) # {}}
  OBVIOUS
<1>3. PICK W : W = {w \in V : wagon[w] # None /\ bill[wagon[w]].kind # "PURCHASE"}
  OBVIOUS
<1>4. V \in SUBSET Wagons /\ W \in SUBSET V /\ P \in SUBSET Bills
  BY <1>2, <1>3
<1>5. IsFiniteSet(V) /\ IsFiniteSet(W) /\ IsFiniteSet(P)
  BY <1>4, BillSets, FS_Subset, ReportAssumption
<1>6. PICK G : G = [w \in W |-> wagon[w]]
  OBVIOUS
<1>7. \A w \in W : G[w] = wagon[w] /\ G[w] \in P /\ IsBill(G[w])
  <2> SUFFICES ASSUME NEW w \in W PROVE wagon[w] \in P /\ IsBill(wagon[w])
    BY <1>6
  <2>1. w \in Wagons /\ wagon[w] # "no" /\ wagon[w] # None /\ bill[wagon[w]].kind # "PURCHASE"
    BY <1>3 DEF IsWagon
  <2>2. IsBill(wagon[w])
    BY <1>1, <2>1 DEF ReportTypeOK
  <2>3. w \in WagonsOf(wagon[w])
    BY <2>1 DEF WagonsOf
  <2> QED BY <1>2, <2>1, <2>2, <2>3 DEF IsBill
<1>8. PICK X : X = [p \in P |-> FreightPaid(p)]
  OBVIOUS
<1>9. \A p \in P : X[p] = FreightPaid(p) /\ X[p] \in Int
  <2> SUFFICES ASSUME NEW p \in P PROVE FreightPaid(p) \in Int
    BY <1>8
  <2>1. bill[p].freight \in Int
    BY <1>1, <1>2, RowsTyped DEF BillRow
  <2> QED BY <2>1 DEF FreightPaid
<1>10. PICK F : F = [w \in V |-> VehicleProfit(w).freight]
  OBVIOUS
<1>11. \A w \in V : F[w] = FreightShare(w)
  BY <1>10 DEF VehicleProfit
<1>12. \A w \in V \ W : F[w] = 0
  BY <1>3, <1>11 DEF FreightShare
<1>13. \A w \in W : F[w] = X[G[w]] * (Unit \div Cardinality(WagonsOf(G[w])))
  <2> SUFFICES ASSUME NEW w \in W PROVE F[w] = X[G[w]] * (Unit \div Cardinality(WagonsOf(G[w])))
    OBVIOUS
  <2>1. F[w] = FreightShare(w) /\ wagon[w] # None /\ bill[wagon[w]].kind # "PURCHASE"
    BY <1>3, <1>4, <1>11
  <2>2. F[w] = FreightPaid(wagon[w]) * (Unit \div Cardinality(WagonsOf(wagon[w])))
    BY <2>1 DEF FreightShare
  <2> QED BY <1>7, <1>9, <2>2
<1>14. ASSUME NEW p \in P
       PROVE  /\ Cardinality(WagonsOf(p)) \in Nat /\ Unit \div Cardinality(WagonsOf(p)) \in Int
              /\ (X[p] * (Unit \div Cardinality(WagonsOf(p)))) * Cardinality(WagonsOf(p)) = Unit * X[p]
  <2>1. WagonsOf(p) # {} /\ X[p] \in Int
    BY <1>2, <1>9
  <2> QED BY <1>1, <2>1, SharesWhole
<1>15. \A w \in W : F[w] \in Int
  <2> SUFFICES ASSUME NEW w \in W PROVE F[w] \in Int
    OBVIOUS
  <2>1. G[w] \in P
    BY <1>7
  <2>2. X[G[w]] \in Int /\ Unit \div Cardinality(WagonsOf(G[w])) \in Int
    BY <1>9, <1>14, <2>1
  <2> QED BY <1>13, <2>2
<1>16. \A w \in V : F[w] \in Int
  BY <1>12, <1>15
<1>17. TotalOf(F, V) = TotalOf(F, W)
  BY <1>4, <1>5, <1>12, <1>16, SumPart
<1>18. PICK H : H = [p \in P |-> TotalOf(F, {w \in W : G[w] = p})]
  OBVIOUS
<1>19. TotalOf(F, W) = TotalOf(H, P)
  <2>1. \A w \in W : G[w] \in P
    BY <1>7
  <2>2. \A p \in P : H[p] = TotalOf(F, {w \in W : G[w] = p})
    BY <1>18
  <2>3. PICK A, B : A = W /\ B = P
    OBVIOUS
  <2>4. /\ IsFiniteSet(A) /\ IsFiniteSet(B)
        /\ (\A n \in A : F[n] \in Int) /\ (\A n \in A : G[n] \in B)
        /\ \A n \in B : H[n] = TotalOf(F, {m \in A : G[m] = n})
    BY <1>5, <1>15, <2>1, <2>2, <2>3
  <2>5. TotalOf(F, A) = TotalOf(H, B)
    BY <2>4, SumGroups
  <2> QED BY <2>3, <2>5
<1>20. ASSUME NEW p \in P PROVE H[p] = Unit * X[p]
  <2>1. PICK S, c : S = {w \in W : G[w] = p} /\ c = X[p] * (Unit \div Cardinality(WagonsOf(p)))
    OBVIOUS
  <2>2. S = WagonsOf(p)
    <3>1. S \subseteq WagonsOf(p)
      BY <1>3, <1>4, <1>7, <2>1 DEF WagonsOf
    <3>2. ASSUME NEW w \in WagonsOf(p) PROVE w \in S
      <4>1. w \in Wagons /\ wagon[w] = p
        BY DEF WagonsOf
      <4>2. p # None /\ p # "no" /\ bill[p].kind # "PURCHASE"
        BY <1>2, ReportAssumption
      <4>3. w \in W
        BY <1>3, <4>1, <4>2 DEF IsWagon
      <4> QED BY <1>7, <2>1, <4>1, <4>3
    <3> QED BY <3>1, <3>2
  <2>3. c \in Int /\ c * Cardinality(S) = Unit * X[p]
    <3>1. X[p] \in Int
      BY <1>9
    <3>2. PICK q, k, x : q = Unit \div Cardinality(WagonsOf(p)) /\ k = Cardinality(WagonsOf(p)) /\ x = X[p]
      OBVIOUS
    <3>3. q \in Int /\ k \in Nat /\ (x * q) * k = Unit * x /\ x \in Int
      BY <1>14, <3>1, <3>2
    <3>4. c = x * q /\ k = Cardinality(S)
      BY <2>1, <2>2, <3>2
    <3> QED BY <3>2, <3>3, <3>4
  <2>4. IsFiniteSet(S) /\ \A w \in S : F[w] = c
    <3>1. IsFiniteSet(S)
      BY <1>5, <2>1, FS_Subset
    <3> QED BY <1>13, <2>1, <3>1
  <2>5. TotalOf(F, S) = c * Cardinality(S)
    BY <2>3, <2>4, SumConstant
  <2> QED BY <1>18, <2>1, <2>3, <2>5
<1>21. TotalOf(H, P) = Unit * TotalOf(X, P)
  <2>1. \A p \in P : X[p] \in Int /\ H[p] = Unit * X[p]
    BY <1>9, <1>20
  <2> QED BY <1>1, <1>5, <2>1, SumTimes
<1>22. Sum([w \in V |-> VehicleProfit(w).freight]) = TotalOf(F, V)
  <2>1. F = [w \in V |-> F[w]]
    BY <1>10
  <2>2. SumFunction(F) = TotalOf(F, V)
    BY <1>5, <2>1, SumOfFunction
  <2> QED BY <1>10, <2>2 DEF Sum
<1>23. ShippingSummary(1, Max(Dates)).invoiceFreight = Unit * TotalOf(X, P)
  <2>1. P = {p \in BillsIn(1, Max(Dates)) : bill[p].kind # "PURCHASE" /\ WagonsOf(p) # {}}
    BY <1>1, <1>2, Always DEF BillsIn
  <2>2. ShippingSummary(1, Max(Dates)).invoiceFreight = Unit * Sum([p \in P |-> FreightPaid(p)])
    BY <2>1 DEF ShippingSummary
  <2>3. [p \in P |-> FreightPaid(p)] = [p \in P |-> X[p]]
    BY <1>8
  <2>4. Sum([p \in P |-> FreightPaid(p)]) = TotalOf(X, P)
    BY <1>4, <2>3, FigureIs
  <2> QED BY <2>2, <2>4
<1> QED BY <1>17, <1>19, <1>21, <1>22, <1>23

\* What vehicles show of a kind of cost is at most what was paid for it.
LEMMA CostsOfVehicles ==
  ASSUME ReportIInv, NEW V, V = {w \in Wagons : IsWagon(w)},
         NEW R \in SUBSET CostRows, \A n \in R : cost[n].out > 0,
         NEW f, f = [w \in V |-> Unit * Amounts({n \in R : cost[n].wagon = w})]
  PROVE  Sum(f) <= Unit * OutOf(R)
<1>1. ReportTables /\ ReportTypeOK /\ Unit \in Nat
  BY ReportAssumption DEF ReportIInv
<1>2. PICK A : /\ \A n \in CostRows : A[n] = ExpenseAmount(cost[n]) /\ A[n] \in Int
               /\ \A U \in SUBSET CostRows : Amounts(U) = TotalOf(A, U)
  BY <1>1, AmountsIs
<1>3. PICK T : T = {n \in R : cost[n].wagon # None}
  OBVIOUS
<1>4. PICK g : g = [n \in T |-> cost[n].wagon]
  OBVIOUS
<1>5. T \in SUBSET R /\ T \in SUBSET CostRows /\ IsFiniteSet(T) /\ IsFiniteSet(R) /\ IsFiniteSet(V)
  <2>1. T \in SUBSET R /\ T \in SUBSET CostRows
    BY <1>3
  <2>2. IsFiniteSet(V)
    BY ReportAssumption, FS_Subset
  <2> QED BY <1>1, <2>1, <2>2, CostSets
<1>6. \A n \in T : g[n] = cost[n].wagon /\ g[n] \in V
  <2> SUFFICES ASSUME NEW n \in T PROVE cost[n].wagon \in V
    BY <1>4
  <2>1. n \in CostRows /\ cost[n].wagon # None
    BY <1>3, <1>5
  <2>2. cost[n].wagon \in Wagons
    BY <1>1, <2>1, RowsTyped DEF CostEntry
  <2> QED BY <1>1, <2>1, <2>2 DEF ReportTypeOK
<1>7. PICK h : h = [w \in V |-> TotalOf(A, {n \in T : g[n] = w})]
  OBVIOUS
<1>8. TotalOf(A, T) = TotalOf(h, V)
  <2>1. \A n \in T : A[n] \in Int
    BY <1>2, <1>5
  <2>2. \A n \in T : g[n] \in V
    BY <1>6
  <2>3. \A w \in V : h[w] = TotalOf(A, {n \in T : g[n] = w})
    BY <1>7
  <2> QED BY <1>5, <2>1, <2>2, <2>3, SumGroups
<1>9. ASSUME NEW w \in V PROVE h[w] \in Int /\ f[w] = Unit * h[w]
  <2>1. PICK S : S = {n \in T : g[n] = w}
    OBVIOUS
  <2>2. S = {n \in R : cost[n].wagon = w} /\ S \in SUBSET CostRows
    <3>1. w # None
      BY ReportAssumption
    <3> QED BY <1>3, <1>6, <2>1, <3>1
  <2>3. IsFiniteSet(S) /\ \A n \in S : A[n] \in Int
    BY <1>1, <1>2, <2>2, CostSets
  <2>4. h[w] = TotalOf(A, S)
    BY <1>7, <2>1
  <2>5. TotalOf(A, S) \in Int
    BY <2>3, SumInt
  <2>6. f[w] = Unit * Amounts(S)
    BY <2>2
  <2> QED BY <1>2, <2>2, <2>4, <2>5, <2>6
<1>10. TotalOf(f, V) = Unit * TotalOf(h, V)
  <2>1. Unit \in Int
    BY <1>1
  <2>2. PICK e : e = f
    OBVIOUS
  <2>3. \A w \in V : h[w] \in Int /\ e[w] = Unit * h[w]
    BY <1>9, <2>2
  <2>4. TotalOf(e, V) = Unit * TotalOf(h, V)
    BY <1>5, <2>1, <2>3, SumTimes
  <2> QED BY <2>2, <2>4
<1>11. Sum(f) = TotalOf(f, V)
  <2>1. f = [w \in V |-> f[w]]
    OBVIOUS
  <2> QED BY <1>5, <2>1, SumOfFunction DEF Sum
<1>12. \A n \in R : A[n] \in Int /\ A[n] >= 0
  <2> SUFFICES ASSUME NEW n \in R PROVE A[n] \in Int /\ A[n] >= 0
    OBVIOUS
  <2>1. cost[n].out \in Int /\ cost[n].out > 0
    BY <1>1, AmountInt
  <2> QED BY <1>2, <2>1 DEF ExpenseAmount
<1>13. TotalOf(A, R) = TotalOf(A, T) + TotalOf(A, R \ T)
  <2>1. \A n \in R : A[n] \in Int
    BY <1>12
  <2> QED BY <1>5, <2>1, SumSplit
<1>14. 0 <= TotalOf(A, R \ T)
  <2>1. PICK z : z = [n \in R |-> 0]
    OBVIOUS
  <2>2. IsFiniteSet(R \ T)
    BY <1>5, FS_Subset
  <2>3. \A n \in R \ T : z[n] \in Int /\ A[n] \in Int /\ z[n] <= A[n] /\ z[n] = 0
    BY <1>12, <2>1
  <2>4. TotalOf(z, R \ T) = 0
    BY <2>2, <2>3, SumZero
  <2>5. TotalOf(z, R \ T) <= TotalOf(A, R \ T)
    BY <2>2, <2>3, SumAtMost
  <2> QED BY <2>4, <2>5
<1>15. TotalOf(A, T) \in Int /\ TotalOf(A, R \ T) \in Int
  <2>1. IsFiniteSet(R \ T) /\ (\A n \in T : A[n] \in Int) /\ \A n \in R \ T : A[n] \in Int
    BY <1>5, <1>12, FS_Subset
  <2> QED BY <1>5, <2>1, SumInt
<1>16. PICK a, b, c : a = TotalOf(A, T) /\ b = TotalOf(A, R \ T) /\ c = TotalOf(A, R)
  OBVIOUS
<1>17. a \in Int /\ c \in Int /\ a <= c
  BY <1>13, <1>14, <1>15, <1>16
<1>18. \A k \in Nat, i, j \in Int : i <= j => k * i <= k * j
  OBVIOUS
<1>19. Unit * a <= Unit * c
  BY <1>1, <1>17, <1>18
<1>20. OutOf(R) = c
  BY <1>1, <1>2, <1>16, PaidAmounts
<1> QED BY <1>8, <1>10, <1>11, <1>16, <1>19, <1>20

LEMMA ReportsAgreeAlways == ReportIInv => ReportsAgree
<1> SUFFICES ASSUME ReportIInv PROVE ReportsAgree
  OBVIOUS
<1>1. ReportTables /\ ReportTypeOK /\ CostsKnown
  BY DEF ReportIInv
<1>2. PICK V : V = {w \in Wagons : IsWagon(w)}
  OBVIOUS
<1>3. \A to \in Dates : SummaryAgrees(1, to)
  BY SummaryAlways
<1>4. \A n \in ChargeRows : Cardinality({w \in V : n \in ChargesOn(w)}) =
            IF charge[n].wagon # None \/ Cardinality(WagonsOf(charge[n].bill)) = 1 THEN 1 ELSE 0
  BY <1>2, ChargeOnce
<1>5. Sum([w \in V |-> VehicleProfit(w).freight]) = ShippingSummary(1, Max(Dates)).invoiceFreight
  BY <1>2, FreightsOfVehicles
<1>6. Sum([w \in V |-> VehicleProfit(w).rent]) <= ShippingSummary(1, Max(Dates)).rent
  <2>1. PICK R : R = {n \in CostRows : cost[n].type = "rent"}
    OBVIOUS
  <2>2. R \in SUBSET CostRows /\ \A n \in R : cost[n].out > 0
    BY <1>1, <2>1 DEF CostsKnown
  <2>3. PICK f : f = [w \in V |-> Unit * Amounts({n \in R : cost[n].wagon = w})]
    OBVIOUS
  <2>4. [w \in V |-> VehicleProfit(w).rent] = f
    BY <2>1, <2>3 DEF VehicleProfit
  <2>5. {n \in CostRows : cost[n].type = "rent" /\ Within(cost[n].day, 1, Max(Dates))} = R
    BY <1>1, <2>1, Always
  <2>6. ShippingSummary(1, Max(Dates)).rent = Unit * OutOf(R)
    BY <2>5 DEF ShippingSummary
  <2>7. Sum(f) <= Unit * OutOf(R)
    BY <1>2, <2>2, <2>3, CostsOfVehicles
  <2> QED BY <2>4, <2>6, <2>7
<1>7. Sum([w \in V |-> VehicleProfit(w).customs]) <= ShippingSummary(1, Max(Dates)).customs
  <2>1. PICK R : R = {n \in CostRows : cost[n].type = "customs"}
    OBVIOUS
  <2>2. R \in SUBSET CostRows /\ \A n \in R : cost[n].out > 0
    BY <1>1, <2>1 DEF CostsKnown
  <2>3. PICK f : f = [w \in V |-> Unit * Amounts({n \in R : cost[n].wagon = w})]
    OBVIOUS
  <2>4. [w \in V |-> VehicleProfit(w).customs] = f
    BY <2>1, <2>3 DEF VehicleProfit
  <2>5. {n \in CostRows : cost[n].type = "customs" /\ Within(cost[n].day, 1, Max(Dates))} = R
    BY <1>1, <2>1, Always
  <2>6. ShippingSummary(1, Max(Dates)).customs = Unit * OutOf(R)
    BY <2>5 DEF ShippingSummary
  <2>7. Sum(f) <= Unit * OutOf(R)
    BY <1>2, <2>2, <2>3, CostsOfVehicles
  <2> QED BY <2>4, <2>6, <2>7
<1>8. ASSUME \A n \in CostRows : cost[n].activity # "SHARED" /\ cost[n].on = None,
             NEW n \in CostRows, cost[n].wagon # None, cost[n].type \in ExpenseTypes
      PROVE  Portion(ExpenseAmount(cost[n]), cost[n], "SHIPPING") = Unit * ExpenseAmount(cost[n])
  <2>1. cost[n].activity = "SHIPPING"
    BY <1>1, <1>8 DEF CostsKnown, ReportTypeOK
  <2> QED BY <2>1 DEF Portion
<1>9. PICK always : always = ShippingSummary(1, Max(Dates))
  OBVIOUS
<1> QED BY <1>2, <1>3, <1>4, <1>5, <1>6, <1>7, <1>8 DEF ReportsAgree

\* However invoices, deals, vehicles, categories and expenses were recorded, linked, changed
\* and deleted, rows refer to rows that are there and an activity is shared with a percentage
\* or not at all (reports.service.ts, expense-activity.ts).
THEOREM ReportTypeCorrect == ReportSpec => []ReportTypeOK
<1>1. ReportIInv => ReportTypeOK
  BY DEF ReportIInv
<1> QED BY <1>1, ReportStart, ReportStep, PTL DEF ReportSpec

\* Every amount comes up once over the reports of trade and shipping and the cost of goods,
\* and once in profit and loss ("so that it is not counted twice", reports.service.ts:39).
THEOREM ReportsCountOnce == ReportSpec => []NothingTwice
  BY ReportStart, ReportStep, NothingTwiceAlways, PTL DEF ReportSpec

\* Reports that read the same rows say the same: the summary and the two activities, the
\* shipping report and the profit of each vehicle.
THEOREM ReportsAlwaysAgree == ReportSpec => []ReportsAgree
  BY ReportStart, ReportStep, ReportsAgreeAlways, PTL DEF ReportSpec

=============================================================================
