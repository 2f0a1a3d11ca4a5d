------------------------------- MODULE SumProofs -------------------------------
(***************************************************************************)
(* Lemmas that the proofs of the modules share: a set of naturals that is  *)
(* not empty has a least element, which gives induction without an         *)
(* operator as parameter; what a sum over a finite set is; what Append     *)
(* does.                                                                   *)
(***************************************************************************)
EXTENDS Integers, Sequences, FiniteSetsExt, FiniteSetTheorems, WellFoundedInduction, TLAPS

\* A set of naturals that is not empty has a least element.
LEMMA LeastOf ==
  ASSUME NEW T, T \subseteq Nat, T # {}
  PROVE  \E x \in T : \A y \in T : x <= y
<1> DEFINE R == OpToRel(<, Nat)
<1>1. IsWellFoundedOn(R, Nat)
  BY NatLessThanWellFounded
<1>2. \A x, y \in Nat : <<x, y>> \in R <=> x < y
  BY DEF OpToRel
<1> HIDE DEF R
<1>3. PICK x \in T : \A y \in T : ~ (<<y, x>> \in R)
  BY <1>1, WFMin
<1>4. \A y \in T : ~(y < x)
  <2> SUFFICES ASSUME NEW y \in T PROVE ~(y < x)
    OBVIOUS
  <2>1. y \in Nat /\ x \in Nat /\ ~ (<<y, x>> \in R)
    BY <1>3
  <2> QED BY <1>2, <2>1
<1> QED BY <1>4

Pick(s) == CHOOSE x \in s : TRUE

LEMMA PickIn == \A s : s # {} => Pick(s) \in s
  BY DEF Pick

\* Of finite sets, one is the smallest.
LEMMA SmallestOf ==
  ASSUME NEW C, C # {}, \A U \in C : IsFiniteSet(U)
  PROVE  \E U \in C : \A V \in C : Cardinality(U) <= Cardinality(V)
<1> DEFINE T == {Cardinality(U) : U \in C}
<1>1. T \subseteq Nat /\ T # {}
  BY FS_CardinalityType
<1>2. PICK n \in T : \A m \in T : n <= m
  BY <1>1, LeastOf
<1> QED BY <1>2

LEMMA OneLess ==
  ASSUME NEW S, IsFiniteSet(S), NEW x \in S
  PROVE  /\ IsFiniteSet(S \ {x}) /\ Cardinality(S) \in Nat /\ Cardinality(S \ {x}) \in Nat
         /\ Cardinality(S \ {x}) < Cardinality(S)
<1>1. IsFiniteSet(S \ {x}) /\ Cardinality(S \ {x}) = Cardinality(S) - 1
  BY FS_RemoveElement
<1>2. Cardinality(S) \in Nat /\ Cardinality(S \ {x}) \in Nat
  BY <1>1, FS_CardinalityType
<1> QED BY <1>1, <1>2

\* A sum, by the sums of fewer.
Sums(g, f, D) == g = [s \in D |-> IF s = {} THEN 0 ELSE f[Pick(s)] + g[s \ {Pick(s)}]]
UpTo(S, n) == {s \in SUBSET S : Cardinality(s) <= n}

LEMMA SumsExist ==
  ASSUME NEW f, NEW S, IsFiniteSet(S)
  PROVE  \A n \in Nat : \E g : Sums(g, f, UpTo(S, n))
<1>1. SUFFICES ASSUME NEW n0 \in Nat, ~\E g : Sums(g, f, UpTo(S, n0)) PROVE FALSE
  OBVIOUS
<1> DEFINE Bad == {k \in Nat : ~\E g : Sums(g, f, UpTo(S, k))}
<1>2. PICK n \in Bad : \A j \in Bad : n <= j
  <2>1. Bad \subseteq Nat /\ Bad # {}
    BY <1>1
  <2> QED BY <2>1, LeastOf
<1>3. \A s \in SUBSET S : IsFiniteSet(s) /\ Cardinality(s) \in Nat
  BY FS_Subset, FS_CardinalityType
<1>4. \A s \in UpTo(S, n) : s # {} => n # 0 /\ s \ {Pick(s)} \in UpTo(S, n - 1)
  <2> SUFFICES ASSUME NEW s \in UpTo(S, n), s # {} PROVE n # 0 /\ s \ {Pick(s)} \in UpTo(S, n - 1)
    OBVIOUS
  <2>1. s \in SUBSET S /\ Cardinality(s) <= n /\ IsFiniteSet(s) /\ Pick(s) \in s
    BY <1>3, PickIn DEF UpTo
  <2>2. /\ Cardinality(s \ {Pick(s)}) \in Nat /\ Cardinality(s) \in Nat
        /\ Cardinality(s \ {Pick(s)}) < Cardinality(s)
    BY <2>1, OneLess
  <2>3. n # 0 /\ Cardinality(s \ {Pick(s)}) <= n - 1
    BY <2>1, <2>2
  <2> QED BY <2>1, <2>3 DEF UpTo
<1>5. n # 0
  <2>1. ASSUME n = 0 PROVE FALSE
    <3> DEFINE g == [s \in UpTo(S, n) |-> 0]
    <3>1. g = [s \in UpTo(S, n) |-> IF s = {} THEN 0 ELSE f[Pick(s)] + g[s \ {Pick(s)}]]
      BY <1>4, <2>1
    <3>2. Sums(g, f, UpTo(S, n))
      BY <3>1 DEF Sums
    <3> QED BY <3>2, <1>2
  <2> QED BY <2>1
<1>6. PICK h : Sums(h, f, UpTo(S, n - 1))
  <2>1. n - 1 \in Nat /\ ~(n <= n - 1)
    BY <1>5
  <2> QED BY <1>2, <2>1
<1> DEFINE g == [s \in UpTo(S, n) |-> IF s = {} THEN 0 ELSE f[Pick(s)] + h[s \ {Pick(s)}]]
<1>7. UpTo(S, n - 1) \subseteq UpTo(S, n)
  <2> SUFFICES ASSUME NEW s \in UpTo(S, n - 1) PROVE s \in UpTo(S, n)
    OBVIOUS
  <2>1. s \in SUBSET S /\ Cardinality(s) \in Nat /\ Cardinality(s) <= n - 1
    BY <1>3 DEF UpTo
  <2>2. Cardinality(s) <= n
    BY <2>1
  <2> QED BY <2>1, <2>2 DEF UpTo
<1>8. \A s \in UpTo(S, n - 1) : h[s] = g[s]
  BY <1>6, <1>7 DEF Sums
<1>9. g = [s \in UpTo(S, n) |-> IF s = {} THEN 0 ELSE f[Pick(s)] + g[s \ {Pick(s)}]]
  BY <1>4, <1>8
<1>10. Sums(g, f, UpTo(S, n))
  BY <1>9 DEF Sums
<1> QED BY <1>2, <1>10

TotalOf(f, S) == MapThenSumSet(LAMBDA x : f[x], S)

LEMMA SumIs ==
  ASSUME NEW f, NEW S, IsFiniteSet(S)
  PROVE  \E g : Sums(g, f, SUBSET S) /\ TotalOf(f, S) = g[S]
<1>1. UpTo(S, Cardinality(S)) = SUBSET S /\ Cardinality(S) \in Nat
  BY FS_Subset, FS_CardinalityType DEF UpTo
<1>2. PICK h : h = [s \in SUBSET S |-> IF s = {} THEN 0 ELSE f[Pick(s)] + h[s \ {Pick(s)}]]
  <2>1. PICK n \in Nat : n = Cardinality(S)
    BY <1>1
  <2>2. \E h : Sums(h, f, UpTo(S, n))
    BY SumsExist
  <2> QED BY <1>1, <2>1, <2>2 DEF Sums
<1> DEFINE g == CHOOSE k : k = [s \in SUBSET S |-> IF s = {} THEN 0 ELSE f[Pick(s)] + k[s \ {Pick(s)}]]
<1>3. g = [s \in SUBSET S |-> IF s = {} THEN 0 ELSE f[Pick(s)] + g[s \ {Pick(s)}]]
  BY <1>2
<1>4. TotalOf(f, S) = g[S]
  BY DEF TotalOf, MapThenSumSet, MapThenFoldSet, Pick
<1> HIDE DEF g
<1> QED BY <1>3, <1>4 DEF Sums

LEMMA SumsStep ==
  ASSUME NEW f, NEW S, NEW g, Sums(g, f, SUBSET S), NEW s \in SUBSET S
  PROVE  g[s] = IF s = {} THEN 0 ELSE f[Pick(s)] + g[s \ {Pick(s)}]
  BY DEF Sums

\* Two sums of the same numbers are one.
LEMMA SumsSame ==
  ASSUME NEW f, NEW e, NEW S, NEW T, NEW g, NEW h, Sums(g, f, SUBSET S), Sums(h, e, SUBSET T),
         NEW U0 \in SUBSET (S \cap T), IsFiniteSet(U0), \A x \in U0 : f[x] = e[x]
  PROVE  g[U0] = h[U0]
<1>1. SUFFICES ASSUME g[U0] # h[U0] PROVE FALSE
  OBVIOUS
<1> DEFINE Bad == {U \in SUBSET U0 : g[U] # h[U]}
<1>2. PICK U \in Bad : \A V \in Bad : Cardinality(U) <= Cardinality(V)
  <2>1. Bad # {} /\ \A V \in Bad : IsFiniteSet(V)
    BY <1>1, FS_Subset
  <2> QED BY <2>1, SmallestOf
<1>3. U \in SUBSET S /\ U \in SUBSET T /\ U \in SUBSET U0 /\ IsFiniteSet(U) /\ g[U] # h[U]
  BY <1>2, FS_Subset
<1>4. U # {}
  BY <1>3, SumsStep
<1>5. Pick(U) \in U
  BY <1>4, PickIn
<1>6. /\ Cardinality(U) \in Nat /\ Cardinality(U \ {Pick(U)}) \in Nat
      /\ Cardinality(U \ {Pick(U)}) < Cardinality(U)
  BY <1>3, <1>5, OneLess
<1>7. U \ {Pick(U)} \notin Bad
  BY <1>2, <1>6
<1>8. g[U \ {Pick(U)}] = h[U \ {Pick(U)}] /\ f[Pick(U)] = e[Pick(U)]
  BY <1>3, <1>5, <1>7
<1>9. g[U] = f[Pick(U)] + g[U \ {Pick(U)}] /\ h[U] = e[Pick(U)] + h[U \ {Pick(U)}]
  BY <1>3, <1>4, SumsStep
<1> QED BY <1>3, <1>8, <1>9

LEMMA SumsAdd ==
  ASSUME NEW f, NEW S, NEW g, Sums(g, f, SUBSET S), IsFiniteSet(S), \A x \in S : f[x] \in Int
  PROVE  \A s \in SUBSET S : g[s] \in Int /\ \A x \in s : g[s] = f[x] + g[s \ {x}]
<1> DEFINE Good(s) == g[s] \in Int /\ \A x \in s : g[s] = f[x] + g[s \ {x}]
           Bad == {s \in SUBSET S : ~Good(s)}
<1>1. SUFFICES ASSUME Bad # {} PROVE FALSE
  OBVIOUS
<1>2. PICK s \in Bad : \A t \in Bad : Cardinality(s) <= Cardinality(t)
  <2>1. \A t \in Bad : IsFiniteSet(t)
    BY FS_Subset
  <2> QED BY <1>1, <2>1, SmallestOf
<1>3. s \in SUBSET S /\ IsFiniteSet(s) /\ ~Good(s) /\ Cardinality(s) \in Nat
  BY <1>2, FS_Subset, FS_CardinalityType
<1> HIDE DEF Good
<1>4. ASSUME NEW t \in SUBSET s, Cardinality(t) \in Nat, Cardinality(t) < Cardinality(s)
      PROVE  Good(t)
  <2>1. t \in SUBSET S /\ t \notin Bad
    BY <1>2, <1>3, <1>4
  <2> QED BY <2>1
<1>5. s # {}
  <2>1. ASSUME s = {} PROVE Good(s)
    <3>1. g[s] = 0
      BY <1>3, <2>1, SumsStep
    <3> QED BY <2>1, <3>1 DEF Good
  <2> QED BY <1>3, <2>1
<1>6. PICK y \in s : g[s] = f[y] + g[s \ {y}]
  <2>1. g[s] = IF s = {} THEN 0 ELSE f[Pick(s)] + g[s \ {Pick(s)}]
    BY <1>3, SumsStep
  <2> QED BY <1>5, <2>1, PickIn
<1>7. \A x \in s : f[x] \in Int
  BY <1>3
<1>8. ASSUME NEW x \in s PROVE Good(s \ {x})
  BY <1>3, <1>4, OneLess
<1>9. g[s] \in Int
  <2>1. f[y] \in Int /\ g[s \ {y}] \in Int
    BY <1>7, <1>8 DEF Good
  <2> QED BY <1>6, <2>1
<1>10. ASSUME NEW x \in s, x # y PROVE g[s] = f[x] + g[s \ {x}]
  <2>1. x \in s \ {y} /\ y \in s \ {x} /\ (s \ {x}) \ {y} = (s \ {y}) \ {x}
    BY <1>10
  <2>2. g[s \ {y}] = f[x] + g[(s \ {y}) \ {x}]
    BY <1>8, <2>1 DEF Good
  <2>3. g[s \ {x}] = f[y] + g[(s \ {y}) \ {x}]
    BY <1>8, <2>1 DEF Good
  <2>4. g[(s \ {y}) \ {x}] \in Int
    <3>1. /\ IsFiniteSet(s \ {y}) /\ Cardinality(s \ {y}) \in Nat
          /\ Cardinality(s \ {y}) < Cardinality(s)
      BY <1>3, OneLess
    <3>2. /\ Cardinality((s \ {y}) \ {x}) \in Nat
          /\ Cardinality((s \ {y}) \ {x}) < Cardinality(s \ {y})
      BY <2>1, <3>1, OneLess
    <3>3. Cardinality((s \ {y}) \ {x}) < Cardinality(s)
      BY <1>3, <3>1, <3>2
    <3> QED BY <1>4, <3>2, <3>3 DEF Good
  <2> QED BY <1>6, <1>7, <2>2, <2>3, <2>4
<1> QED BY <1>3, <1>6, <1>9, <1>10 DEF Good

LEMMA SumEmpty == \A f : TotalOf(f, {}) = 0
<1> SUFFICES ASSUME NEW f PROVE TotalOf(f, {}) = 0
  OBVIOUS
<1>1. PICK g : Sums(g, f, SUBSET {}) /\ TotalOf(f, {}) = g[{}]
  BY SumIs, FS_EmptySet
<1> QED BY <1>1, SumsStep

LEMMA SumSame ==
  ASSUME NEW f, NEW e, NEW S, IsFiniteSet(S), \A x \in S : f[x] = e[x]
  PROVE  TotalOf(f, S) = TotalOf(e, S)
<1>1. PICK g : Sums(g, f, SUBSET S) /\ TotalOf(f, S) = g[S]
  BY SumIs
<1>2. PICK h : Sums(h, e, SUBSET S) /\ TotalOf(e, S) = h[S]
  BY SumIs
<1>3. S \in SUBSET (S \cap S)
  OBVIOUS
<1> QED BY <1>1, <1>2, <1>3, SumsSame

\* What one more adds to a sum.
LEMMA SumAdds ==
  ASSUME NEW f, NEW S, IsFiniteSet(S), \A z \in S : f[z] \in Int, NEW x \in S
  PROVE  TotalOf(f, S) \in Int /\ TotalOf(f, S \ {x}) \in Int /\ TotalOf(f, S) = f[x] + TotalOf(f, S \ {x})
<1>1. IsFiniteSet(S \ {x})
  BY OneLess
<1>2. PICK g : Sums(g, f, SUBSET S) /\ TotalOf(f, S) = g[S]
  BY SumIs
<1>3. PICK h : Sums(h, f, SUBSET (S \ {x})) /\ TotalOf(f, S \ {x}) = h[S \ {x}]
  BY <1>1, SumIs
<1>4. S \ {x} \in SUBSET (S \cap (S \ {x})) /\ S \ {x} \in SUBSET S /\ S \in SUBSET S
  OBVIOUS
<1>5. g[S \ {x}] = h[S \ {x}]
  <2>1. PICK U : U = S \ {x}
    OBVIOUS
  <2>2. U \in SUBSET (S \cap U) /\ IsFiniteSet(U) /\ Sums(h, f, SUBSET U)
    BY <1>1, <1>3, <2>1
  <2>3. g[U] = h[U]
    BY <1>2, <2>2, SumsSame
  <2> QED BY <2>1, <2>3
<1>6. \A s \in SUBSET S : g[s] \in Int /\ \A z \in s : g[s] = f[z] + g[s \ {z}]
  <2>1. Sums(g, f, SUBSET S) /\ \A z \in S : f[z] \in Int
    BY <1>2
  <2> QED BY <2>1, SumsAdd
<1>7. g[S] \in Int /\ g[S \ {x}] \in Int /\ g[S] = f[x] + g[S \ {x}]
  BY <1>4, <1>6
<1> QED BY <1>2, <1>3, <1>5, <1>7

LEMMA SumType ==
  ASSUME NEW f, NEW S0, IsFiniteSet(S0), \A x \in S0 : f[x] \in Nat
  PROVE  TotalOf(f, S0) \in Nat
<1>1. SUFFICES ASSUME TotalOf(f, S0) \notin Nat PROVE FALSE
  OBVIOUS
<1> DEFINE Bad == {S \in SUBSET S0 : TotalOf(f, S) \notin Nat}
<1>2. PICK S \in Bad : \A T \in Bad : Cardinality(S) <= Cardinality(T)
  <2>1. Bad # {} /\ \A T \in Bad : IsFiniteSet(T)
    BY <1>1, FS_Subset
  <2> QED BY <2>1, SmallestOf
<1>3. S \in SUBSET S0 /\ IsFiniteSet(S) /\ TotalOf(f, S) \notin Nat
  BY <1>2, FS_Subset
<1>4. PICK x : x \in S
  <2>1. S # {}
    BY <1>3, SumEmpty
  <2> QED BY <2>1
<1>5. Cardinality(S) \in Nat /\ Cardinality(S \ {x}) \in Nat /\ Cardinality(S \ {x}) < Cardinality(S)
  BY <1>3, <1>4, OneLess
<1>6. S \ {x} \notin Bad /\ S \ {x} \in SUBSET S0
  BY <1>2, <1>3, <1>5
<1>7. TotalOf(f, S \ {x}) \in Nat /\ f[x] \in Nat
  BY <1>3, <1>4, <1>6
<1>8. \A z \in S : f[z] \in Int
  BY <1>3
<1>9. TotalOf(f, S) = f[x] + TotalOf(f, S \ {x})
  BY <1>3, <1>4, <1>8, SumAdds
<1> QED BY <1>3, <1>7, <1>9

-----------------------------------------------------------------------------
(* Sums over parts of a set, of multiples, and over groups.               *)

LEMMA SumInt ==
  ASSUME NEW f, NEW S, IsFiniteSet(S), \A x \in S : f[x] \in Int
  PROVE  TotalOf(f, S) \in Int
<1>1. CASE S = {}
  BY <1>1, SumEmpty
<1>2. CASE S # {}
  <2>1. PICK x : x \in S
    BY <1>2
  <2> QED BY <2>1, SumAdds
<1> QED BY <1>1, <1>2

\* One more in a set.
LEMMA SumOneMore ==
  \A f, S, T, k : /\ IsFiniteSet(T) /\ (\A z \in T : f[z] \in Int)
                  /\ T = S \cup {k} /\ k \notin S
    => TotalOf(f, S) \in Int /\ TotalOf(f, T) = f[k] + TotalOf(f, S)
<1> SUFFICES ASSUME NEW f, NEW S, NEW T, NEW k, IsFiniteSet(T), \A z \in T : f[z] \in Int,
                    T = S \cup {k}, k \notin S
             PROVE  TotalOf(f, S) \in Int /\ TotalOf(f, T) = f[k] + TotalOf(f, S)
  OBVIOUS
<1>1. k \in T /\ T \ {k} = S
  OBVIOUS
<1>2. /\ TotalOf(f, T) \in Int /\ TotalOf(f, T \ {k}) \in Int
      /\ TotalOf(f, T) = f[k] + TotalOf(f, T \ {k})
  BY <1>1, SumAdds
<1> QED BY <1>1, <1>2

\* The sum of a function is the sum over its domain, of it or of one that goes further.
LEMMA SumOfFunction ==
  ASSUME NEW f, NEW g, NEW S, IsFiniteSet(S), g = [x \in S |-> f[x]]
  PROVE  SumFunction(g) = TotalOf(f, S)
<1>1. SumFunction(g) = TotalOf(g, S)
  <2>1. DOMAIN g = S
    OBVIOUS
  <2>2. SumFunction(g) = TotalOf(g, DOMAIN g)
    BY DEF SumFunction, SumFunctionOnSet, FoldFunctionOnSet, TotalOf, MapThenSumSet
  <2> QED BY <2>1, <2>2
<1>2. TotalOf(g, S) = TotalOf(f, S)
  <2>1. \A x \in S : g[x] = f[x]
    OBVIOUS
  <2> QED BY <2>1, SumSame
<1> QED BY <1>1, <1>2

\* A set in two parts.
LEMMA SumSplit ==
  ASSUME NEW f, NEW S, IsFiniteSet(S), \A x \in S : f[x] \in Int, NEW T0 \in SUBSET S
  PROVE  TotalOf(f, S) = TotalOf(f, T0) + TotalOf(f, S \ T0)
<1> DEFINE Good(T) == TotalOf(f, S) = TotalOf(f, T) + TotalOf(f, S \ T)
           Bad == {T \in SUBSET S : ~Good(T)}
<1>1. SUFFICES ASSUME Bad # {} PROVE FALSE
  OBVIOUS
<1>2. PICK T \in Bad : \A U \in Bad : Cardinality(T) <= Cardinality(U)
  <2>1. \A U \in Bad : IsFiniteSet(U)
    BY FS_Subset
  <2> QED BY <1>1, <2>1, SmallestOf
<1>3. T \in SUBSET S /\ ~Good(T) /\ IsFiniteSet(T)
  BY <1>2, FS_Subset
<1>4. ASSUME NEW U \in SUBSET S PROVE TotalOf(f, U) \in Int /\ IsFiniteSet(U)
  <2>1. IsFiniteSet(U) /\ \A x \in U : f[x] \in Int
    BY FS_Subset
  <2> QED BY <2>1, SumInt
<1>5. T # {}
  <2>1. ASSUME T = {} PROVE Good(T)
    <3>1. S \ T = S /\ TotalOf(f, T) = 0 /\ TotalOf(f, S) \in Int
      BY <1>4, <2>1, SumEmpty
    <3> QED BY <3>1
  <2> QED BY <1>3, <2>1
<1>6. PICK x : x \in T
  BY <1>5
<1>7. PICK U : U = T \ {x}
  OBVIOUS
<1>8. Good(U)
  <2>1. Cardinality(T) \in Nat /\ Cardinality(U) \in Nat /\ Cardinality(U) < Cardinality(T)
    BY <1>3, <1>6, <1>7, OneLess
  <2>2. U \notin Bad /\ U \in SUBSET S
    BY <1>2, <1>3, <1>7, <2>1
  <2> QED BY <2>2
<1>9. TotalOf(f, T) = f[x] + TotalOf(f, U)
  <2>1. \A z \in T : f[z] \in Int
    BY <1>3
  <2> QED BY <1>3, <1>6, <1>7, <2>1, SumAdds
<1>10. TotalOf(f, S \ U) = f[x] + TotalOf(f, S \ T)
  <2>1. PICK R : R = S \ U
    OBVIOUS
  <2>2. R \ {x} = S \ T /\ x \in R /\ R \in SUBSET S
    BY <1>3, <1>6, <1>7, <2>1
  <2>3. IsFiniteSet(R) /\ \A z \in R : f[z] \in Int
    BY <1>4, <2>2
  <2>4. TotalOf(f, R) = f[x] + TotalOf(f, R \ {x})
    BY <2>2, <2>3, SumAdds
  <2> QED BY <2>1, <2>2, <2>4
<1>11. /\ TotalOf(f, T) \in Int /\ TotalOf(f, U) \in Int /\ TotalOf(f, S \ T) \in Int
       /\ TotalOf(f, S \ U) \in Int /\ TotalOf(f, S) \in Int /\ f[x] \in Int
  BY <1>3, <1>4, <1>6, <1>7
<1>12. Good(T)
  BY <1>8, <1>9, <1>10, <1>11
<1> QED BY <1>3, <1>12

\* A set in two parts that are given.
LEMMA SumUnion ==
  ASSUME NEW f, NEW S, NEW T, IsFiniteSet(S), IsFiniteSet(T), S \cap T = {},
         \A x \in S \cup T : f[x] \in Int
  PROVE  TotalOf(f, S \cup T) = TotalOf(f, S) + TotalOf(f, T)
<1>1. PICK U : U = S \cup T
  OBVIOUS
<1>2. IsFiniteSet(U) /\ S \in SUBSET U /\ U \ S = T
  BY <1>1, FS_Union
<1>3. \A x \in U : f[x] \in Int
  BY <1>1
<1>4. TotalOf(f, U) = TotalOf(f, S) + TotalOf(f, U \ S)
  BY <1>2, <1>3, SumSplit
<1> QED BY <1>1, <1>2, <1>4

\* The sum of a sum of two functions.
LEMMA SumPlus ==
  ASSUME NEW f, NEW g, NEW h, NEW S0, IsFiniteSet(S0),
         \A x \in S0 : f[x] \in Int /\ g[x] \in Int /\ h[x] = f[x] + g[x]
  PROVE  TotalOf(h, S0) = TotalOf(f, S0) + TotalOf(g, S0)
<1> DEFINE Good(S) == TotalOf(h, S) = TotalOf(f, S) + TotalOf(g, S)
           Bad == {S \in SUBSET S0 : ~Good(S)}
<1>1. SUFFICES ASSUME Bad # {} PROVE FALSE
  OBVIOUS
<1>2. PICK S \in Bad : \A U \in Bad : Cardinality(S) <= Cardinality(U)
  <2>1. \A U \in Bad : IsFiniteSet(U)
    BY FS_Subset
  <2> QED BY <1>1, <2>1, SmallestOf
<1>3. S \in SUBSET S0 /\ ~Good(S) /\ IsFiniteSet(S)
  BY <1>2, FS_Subset
<1>4. S # {}
  <2>1. TotalOf(f, {}) = 0 /\ TotalOf(g, {}) = 0 /\ TotalOf(h, {}) = 0
    BY SumEmpty
  <2> QED BY <1>3, <2>1
<1>5. PICK x : x \in S
  BY <1>4
<1>6. PICK U : U = S \ {x}
  OBVIOUS
<1>7. Good(U)
  <2>1. Cardinality(S) \in Nat /\ Cardinality(U) \in Nat /\ Cardinality(U) < Cardinality(S)
    BY <1>3, <1>5, <1>6, OneLess
  <2>2. U \notin Bad /\ U \in SUBSET S0
    BY <1>2, <1>3, <1>6, <2>1
  <2> QED BY <2>2
<1>8. /\ TotalOf(f, S) = f[x] + TotalOf(f, U) /\ TotalOf(f, U) \in Int
      /\ TotalOf(g, S) = g[x] + TotalOf(g, U) /\ TotalOf(g, U) \in Int
      /\ TotalOf(h, S) = h[x] + TotalOf(h, U)
  <2>1. \A z \in S : f[z] \in Int /\ g[z] \in Int /\ h[z] \in Int
    BY <1>3
  <2> QED BY <1>3, <1>5, <1>6, <2>1, SumAdds
<1>9. f[x] \in Int /\ g[x] \in Int /\ h[x] = f[x] + g[x]
  BY <1>3, <1>5
<1>10. Good(S)
  BY <1>7, <1>8, <1>9
<1> QED BY <1>3, <1>10

LEMMA Distributes == \A k, a, b \in Int : k * (a + b) = k * a + k * b
  OBVIOUS

LEMMA SumTimes ==
  ASSUME NEW k \in Int, NEW f, NEW h, NEW S0, IsFiniteSet(S0),
         \A x \in S0 : f[x] \in Int /\ h[x] = k * f[x]
  PROVE  TotalOf(h, S0) = k * TotalOf(f, S0)
<1> DEFINE Good(S) == TotalOf(h, S) = k * TotalOf(f, S)
           Bad == {S \in SUBSET S0 : ~Good(S)}
<1>1. SUFFICES ASSUME Bad # {} PROVE FALSE
  OBVIOUS
<1>2. PICK S \in Bad : \A U \in Bad : Cardinality(S) <= Cardinality(U)
  <2>1. \A U \in Bad : IsFiniteSet(U)
    BY FS_Subset
  <2> QED BY <1>1, <2>1, SmallestOf
<1>3. S \in SUBSET S0 /\ ~Good(S) /\ IsFiniteSet(S)
  BY <1>2, FS_Subset
<1>4. S # {}
  <2>1. TotalOf(f, {}) = 0 /\ TotalOf(h, {}) = 0 /\ k * 0 = 0
    BY SumEmpty
  <2> QED BY <1>3, <2>1
<1>5. PICK x : x \in S
  BY <1>4
<1>6. PICK U : U = S \ {x}
  OBVIOUS
<1>7. Good(U)
  <2>1. Cardinality(S) \in Nat /\ Cardinality(U) \in Nat /\ Cardinality(U) < Cardinality(S)
    BY <1>3, <1>5, <1>6, OneLess
  <2>2. U \notin Bad /\ U \in SUBSET S0
    BY <1>2, <1>3, <1>6, <2>1
  <2> QED BY <2>2
<1>8. /\ TotalOf(f, S) = f[x] + TotalOf(f, U) /\ TotalOf(f, U) \in Int
      /\ TotalOf(h, S) = h[x] + TotalOf(h, U)
  <2>1. \A z \in S : f[z] \in Int /\ h[z] \in Int
    BY <1>3
  <2> QED BY <1>3, <1>5, <1>6, <2>1, SumAdds
<1>9. f[x] \in Int /\ h[x] = k * f[x]
  BY <1>3, <1>5
<1>10. k * (f[x] + TotalOf(f, U)) = k * f[x] + k * TotalOf(f, U)
  BY <1>8, <1>9, Distributes
<1>11. Good(S)
  BY <1>7, <1>8, <1>9, <1>10
<1> QED BY <1>3, <1>11

LEMMA SumZero ==
  ASSUME NEW f, NEW S, IsFiniteSet(S), \A x \in S : f[x] = 0
  PROVE  TotalOf(f, S) = 0
<1>1. \A x \in S : f[x] \in Int /\ f[x] = 0 * f[x]
  OBVIOUS
<1>2. TotalOf(f, S) = 0 * TotalOf(f, S) /\ TotalOf(f, S) \in Int
  BY <1>1, SumTimes, SumInt
<1> QED BY <1>2

\* What is at most another, term by term.
LEMMA SumAtMost ==
  ASSUME NEW f, NEW g, NEW S, IsFiniteSet(S),
         \A x \in S : f[x] \in Int /\ g[x] \in Int /\ f[x] <= g[x]
  PROVE  TotalOf(f, S) <= TotalOf(g, S)
<1>1. PICK d : d = [x \in S |-> g[x] - f[x]]
  OBVIOUS
<1>2. \A x \in S : d[x] \in Nat /\ f[x] \in Int /\ d[x] \in Int /\ g[x] = f[x] + d[x]
  BY <1>1
<1>3. TotalOf(g, S) = TotalOf(f, S) + TotalOf(d, S)
  BY <1>2, SumPlus
<1>4. TotalOf(d, S) \in Nat /\ TotalOf(f, S) \in Int
  BY <1>2, SumType, SumInt
<1> QED BY <1>3, <1>4

\* As often the same number as there are elements.
LEMMA SumConstant ==
  ASSUME NEW f, NEW S0, IsFiniteSet(S0), NEW c \in Int, \A x \in S0 : f[x] = c
  PROVE  TotalOf(f, S0) = c * Cardinality(S0)
<1> DEFINE Good(S) == TotalOf(f, S) = c * Cardinality(S)
           Bad == {S \in SUBSET S0 : ~Good(S)}
<1>1. SUFFICES ASSUME Bad # {} PROVE FALSE
  OBVIOUS
<1>2. PICK S \in Bad : \A U \in Bad : Cardinality(S) <= Cardinality(U)
  <2>1. \A U \in Bad : IsFiniteSet(U)
    BY FS_Subset
  <2> QED BY <1>1, <2>1, SmallestOf
<1>3. S \in SUBSET S0 /\ ~Good(S) /\ IsFiniteSet(S)
  BY <1>2, FS_Subset
<1>4. S # {}
  <2>1. TotalOf(f, {}) = 0 /\ Cardinality({}) = 0 /\ c * 0 = 0
    BY SumEmpty, FS_EmptySet
  <2> QED BY <1>3, <2>1
<1>5. PICK x : x \in S
  BY <1>4
<1>6. PICK U : U = S \ {x}
  OBVIOUS
<1>7. Good(U)
  <2>1. Cardinality(S) \in Nat /\ Cardinality(U) \in Nat /\ Cardinality(U) < Cardinality(S)
    BY <1>3, <1>5, <1>6, OneLess
  <2>2. U \notin Bad /\ U \in SUBSET S0
    BY <1>2, <1>3, <1>6, <2>1
  <2> QED BY <2>2
<1>8. TotalOf(f, S) = c + TotalOf(f, U) /\ TotalOf(f, U) \in Int
  <2>1. f[x] = c /\ \A z \in S : f[z] \in Int
    BY <1>3, <1>5
  <2> QED BY <1>3, <1>5, <1>6, <2>1, SumAdds
<1>9. Cardinality(U) \in Int /\ Cardinality(S) = Cardinality(U) + 1
  <2>1. Cardinality(U) = Cardinality(S) - 1 /\ IsFiniteSet(U)
    BY <1>3, <1>5, <1>6, FS_RemoveElement
  <2>2. Cardinality(U) \in Nat /\ Cardinality(S) \in Nat
    BY <1>3, <2>1, FS_CardinalityType
  <2> QED BY <2>1, <2>2
<1>10. c * (Cardinality(U) + 1) = c * Cardinality(U) + c * 1 /\ c * 1 = c
  BY <1>9, Distributes
<1>11. Good(S)
  BY <1>7, <1>8, <1>9, <1>10
<1> QED BY <1>3, <1>11

\* The sum over groups of what each group comes to.
LEMMA SumGroups ==
  ASSUME NEW f, NEW W, IsFiniteSet(W), \A w \in W : f[w] \in Int,
         NEW g, NEW P, IsFiniteSet(P), \A w \in W : g[w] \in P,
         NEW h, \A p \in P : h[p] = TotalOf(f, {w \in W : g[w] = p})
  PROVE  TotalOf(f, W) = TotalOf(h, P)
<1> DEFINE In(Q) == {w \in W : g[w] \in Q}
           Good(Q) == TotalOf(f, In(Q)) = TotalOf(h, Q)
           Bad == {Q \in SUBSET P : ~Good(Q)}
<1>1. SUFFICES ASSUME Bad # {} PROVE FALSE
  <2>1. In(P) = W /\ P \in SUBSET P
    OBVIOUS
  <2> QED BY <2>1
<1>2. PICK Q \in Bad : \A U \in Bad : Cardinality(Q) <= Cardinality(U)
  <2>1. \A U \in Bad : IsFiniteSet(U)
    BY FS_Subset
  <2> QED BY <1>1, <2>1, SmallestOf
<1>3. Q \in SUBSET P /\ ~Good(Q) /\ IsFiniteSet(Q)
  BY <1>2, FS_Subset
<1>4. Q # {}
  <2>1. ASSUME Q = {} PROVE Good(Q)
    <3>1. In(Q) = {}
      BY <2>1
    <3> QED BY <2>1, <3>1, SumEmpty
  <2> QED BY <1>3, <2>1
<1>5. PICK x : x \in Q
  BY <1>4
<1>6. PICK U : U = Q \ {x}
  OBVIOUS
<1>7. Good(U)
  <2>1. Cardinality(Q) \in Nat /\ Cardinality(U) \in Nat /\ Cardinality(U) < Cardinality(Q)
    BY <1>3, <1>5, <1>6, OneLess
  <2>2. U \notin Bad /\ U \in SUBSET P
    BY <1>2, <1>3, <1>6, <2>1
  <2> QED BY <2>2
<1>8. PICK A, B, C : A = In(Q) /\ B = In(U) /\ C = {w \in W : g[w] = x}
  OBVIOUS
<1>9. A \subseteq W /\ A = B \cup C /\ B \cap C = {}
  BY <1>5, <1>6, <1>8
<1>10. IsFiniteSet(A) /\ IsFiniteSet(B) /\ IsFiniteSet(C)
  BY <1>8, <1>9, FS_Subset
<1>11. TotalOf(f, A) = TotalOf(f, B) + TotalOf(f, C) /\ TotalOf(f, B) \in Int /\ TotalOf(f, C) \in Int
  <2>1. \A w \in B \cup C : f[w] \in Int
    BY <1>9
  <2> QED BY <1>9, <1>10, <2>1, SumUnion, SumInt
<1>12. TotalOf(h, Q) = h[x] + TotalOf(h, U)
  <2>1. ASSUME NEW p \in Q PROVE h[p] \in Int
    <3>1. PICK D : D = {w \in W : g[w] = p}
      OBVIOUS
    <3>2. h[p] = TotalOf(f, D) /\ IsFiniteSet(D) /\ \A w \in D : f[w] \in Int
      BY <1>3, <2>1, <3>1, FS_Subset
    <3> QED BY <3>2, SumInt
  <2> QED BY <1>3, <1>5, <1>6, <2>1, SumAdds
<1>13. h[x] = TotalOf(f, C)
  BY <1>3, <1>5, <1>8
<1>14. Good(Q)
  BY <1>7, <1>8, <1>11, <1>12, <1>13
<1> QED BY <1>3, <1>14

\* What is nothing outside a part adds up over the part.
LEMMA SumPart ==
  ASSUME NEW f, NEW S, IsFiniteSet(S), \A x \in S : f[x] \in Int, NEW T \in SUBSET S, \A x \in S \ T : f[x] = 0
  PROVE  TotalOf(f, S) = TotalOf(f, T)
<1>1. TotalOf(f, S) = TotalOf(f, T) + TotalOf(f, S \ T)
  BY SumSplit
<1>2. IsFiniteSet(T) /\ IsFiniteSet(S \ T)
  BY FS_Subset
<1>3. TotalOf(f, S \ T) = 0
  BY <1>2, SumZero
<1>4. TotalOf(f, T) \in Int
  <2>1. \A x \in T : f[x] \in Int
    OBVIOUS
  <2> QED BY <1>2, <2>1, SumInt
<1> QED BY <1>1, <1>3, <1>4

\* A sequence that grows keeps what it had.
LEMMA SeqAppended ==
  ASSUME NEW S, NEW s \in Seq(S), NEW x \in S
  PROVE  /\ Append(s, x) \in Seq(S) /\ Len(Append(s, x)) = Len(s) + 1
         /\ \A n \in 1 .. Len(s) : Append(s, x)[n] = s[n]
         /\ Append(s, x)[Len(s) + 1] = x
         /\ Len(s) \in Nat
  OBVIOUS

=============================================================================
