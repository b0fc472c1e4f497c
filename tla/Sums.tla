-------------------------------- MODULE Sums --------------------------------
(***************************************************************************)
(* Lemmas about sums over finite sets.  What is outstanding on a tool,     *)
(* ordered on an order line or held in a bin is a SUM(...) of the          *)
(* database: SumFunctionOnSet(f, S) adds f[x] over the x in S.  The sum    *)
(* is defined by a recursive function, so its facts need induction; the    *)
(* induction here takes a least counterexample among the subsets of a      *)
(* finite set, which the proper subset relation has, being well-founded.   *)
(* The other proofs cite SumEmpty, SumType, SumSame, SumInsert, SumChange, *)
(* SumNotNegative, SumAtMost, SumZero, SumRestrict and SumSubset of it,    *)
(* CountUp, for what is built line by line, and LargestExists and          *)
(* CountByValue, for what is counted; the rest leads up to them.           *)
(***************************************************************************)
EXTENDS Integers, FiniteSets, Functions, FiniteSetTheorems, WellFoundedInduction, TLAPS

-----------------------------------------------------------------------------
(* Induction.                                                              *)

\* Among any subsets of a finite set there is one that has no other of them in it.
LEMMA LeastSubset ==
  ASSUME NEW S, IsFiniteSet(S), NEW Bad, Bad \subseteq SUBSET S, Bad # {}
  PROVE  \E s \in Bad : \A t \in Bad : t \subseteq s => t = s
<1>1. IsWellFoundedOn(StrictSubsetOrdering(S), FiniteSubsetsOf(S))
  BY FS_StrictSubsetOrderingWellFounded
<1>2. FiniteSubsetsOf(S) = SUBSET S
  BY FS_FiniteSubsetsOfFinite
<1>3. PICK s \in Bad : \A t \in Bad : ~ (<<t, s>> \in StrictSubsetOrdering(S))
  BY <1>1, <1>2, WFMin
<1>4. ASSUME NEW t \in Bad, t \subseteq s PROVE t = s
  BY <1>3, <1>4 DEF StrictSubsetOrdering
<1> QED BY <1>4

\* Numbers that hold 0 and, with each n, n + 1 are all the natural numbers.
LEMMA CountUp ==
  ASSUME NEW N, N \subseteq Nat, 0 \in N, \A n \in N : n + 1 \in N
  PROVE  N = Nat
<1>1. OpToRel(<, Nat) = {ss \in Nat \X Nat : ss[1] < ss[2]}
  BY DEF OpToRel
<1>2. IsWellFoundedOn({ss \in Nat \X Nat : ss[1] < ss[2]}, Nat)
  BY <1>1, NatLessThanWellFounded
<1>3. SUFFICES ASSUME Nat \ N # {} PROVE FALSE
  OBVIOUS
<1>4. PICK m \in Nat \ N : \A n \in Nat \ N : ~ (<<n, m>> \in {ss \in Nat \X Nat : ss[1] < ss[2]})
  BY <1>2, <1>3, WFMin
<1>5. m - 1 \in Nat \ N
  BY <1>4
<1>6. <<m - 1, m>> \in {ss \in Nat \X Nat : ss[1] < ss[2]}
  BY <1>5
<1> QED BY <1>4, <1>5, <1>6

-----------------------------------------------------------------------------
(* The recursion behind a sum.                                             *)

\* The element a sum takes from s first.
Pick(s) == CHOOSE x \in s : TRUE

\* g gives the sum of f over every subset of S.
Adds(f, S, g) ==
    g = [s \in SUBSET S |-> IF s = {} THEN 0 ELSE f[Pick(s)] + g[s \ {Pick(s)}]]

\* The recursion that defines a sum has a solution: solutions for the subsets
\* of at most n elements extend to those of n + 1.
LEMMA AdditionExists ==
  ASSUME NEW f, NEW S, IsFiniteSet(S)
  PROVE  \E g : Adds(f, S, g)
<1> DEFINE Upto(n) == {s \in SUBSET S : Cardinality(s) <= n}
           Step(g, s) == IF s = {} THEN 0 ELSE f[Pick(s)] + g[s \ {Pick(s)}]
           N == {n \in Nat : \E g : g = [s \in Upto(n) |-> Step(g, s)]}
<1>0. \A s \in SUBSET S : /\ Cardinality(s) \in Nat
                          /\ s # {} => /\ Pick(s) \in s /\ s \ {Pick(s)} \in SUBSET S
                                       /\ Cardinality(s \ {Pick(s)}) = Cardinality(s) - 1
                          /\ Cardinality(s) = 0 <=> s = {}
  <2> TAKE s \in SUBSET S
  <2>1. IsFiniteSet(s) BY FS_Subset
  <2>2. Cardinality(s) \in Nat BY <2>1, FS_CardinalityType
  <2>3. ASSUME s # {} PROVE Pick(s) \in s BY <2>3 DEF Pick
  <2>4. ASSUME s # {} PROVE Cardinality(s \ {Pick(s)}) = Cardinality(s) - 1
    BY <2>1, <2>3, <2>4, FS_RemoveElement
  <2>5. Cardinality(s) = 0 <=> s = {} BY <2>1, FS_EmptySet
  <2> QED BY <2>2, <2>3, <2>4, <2>5
<1>1. 0 \in N
  <2> DEFINE g == [s \in Upto(0) |-> 0]
  <2>1. ASSUME NEW s \in Upto(0) PROVE s = {}
    <3>1. s \in SUBSET S /\ Cardinality(s) <= 0 OBVIOUS
    <3>2. Cardinality(s) \in Nat /\ (Cardinality(s) = 0 <=> s = {}) BY <1>0, <3>1
    <3> QED BY <3>1, <3>2
  <2>2. g = [s \in Upto(0) |-> Step(g, s)] BY <2>1
  <2> QED BY <2>2
<1>2. ASSUME NEW n \in N PROVE n + 1 \in N
  <2>1. PICK g : g = [s \in Upto(n) |-> Step(g, s)] BY <1>2
  <2> DEFINE h == [s \in Upto(n + 1) |-> Step(g, s)]
  <2>2. \A s \in Upto(n + 1) : s # {} => s \ {Pick(s)} \in Upto(n) BY <1>0
  <2>3. \A s \in Upto(n) : s \in Upto(n + 1) /\ h[s] = g[s] 
    <3> TAKE s \in Upto(n)
    <3>0. n \in Nat /\ Cardinality(s) \in Nat BY <1>0
    <3>1. s \in Upto(n + 1) BY <3>0
    <3>2. h[s] = Step(g, s) BY <3>1
    <3>3. g[s] = Step(g, s) BY <2>1
    <3> QED BY <3>1, <3>2, <3>3
  <2>4. \A s \in Upto(n + 1) : Step(g, s) = Step(h, s) 
    <3> TAKE s \in Upto(n + 1)
    <3> HIDE DEF h, Upto
    <3>1. s # {} => h[s \ {Pick(s)}] = g[s \ {Pick(s)}] BY <2>2, <2>3
    <3> QED BY <3>1
  <2>5. h = [s \in Upto(n + 1) |-> Step(h, s)] BY <2>4
  <2>6. n + 1 \in Nat OBVIOUS
  <2> HIDE DEF h, Upto, Step
  <2>7. \E e : e = [s \in Upto(n + 1) |-> Step(e, s)] BY <2>5
  <2> QED BY <2>6, <2>7
<1>3. N = Nat
  <2> HIDE DEF N
  <2>1. N \subseteq Nat BY DEF N
  <2> QED BY <1>1, <1>2, <2>1, CountUp
<1>4. Cardinality(S) \in N BY <1>3, FS_CardinalityType
<1>5. Upto(Cardinality(S)) = SUBSET S BY FS_Subset
<1>6. PICK g : g = [s \in Upto(Cardinality(S)) |-> Step(g, s)] BY <1>4
<1>7. g = [s \in SUBSET S |-> Step(g, s)] BY <1>5, <1>6
<1> QED BY <1>7 DEF Adds

\* A sum is the value of such a solution.
LEMMA SumAdds ==
  ASSUME NEW f, NEW S, IsFiniteSet(S)
  PROVE  \E g : Adds(f, S, g) /\ SumFunctionOnSet(f, S) = g[S]
<1> DEFINE it == CHOOSE g : g = [s \in SUBSET S |-> IF s = {} THEN 0 ELSE f[Pick(s)] + g[s \ {Pick(s)}]]
<1>0. PICK h : Adds(f, S, h) BY AdditionExists
<1>1. it = [s \in SUBSET S |-> IF s = {} THEN 0 ELSE f[Pick(s)] + it[s \ {Pick(s)}]]
  BY <1>0 DEF Adds
<1>2. SumFunctionOnSet(f, S) = it[S]
  BY DEF SumFunctionOnSet, FoldFunctionOnSet, MapThenFoldSet, Pick
<1> QED BY <1>1, <1>2 DEF Adds

\* Two solutions for functions that agree on T agree on the subsets of T,
\* whatever larger set one of them was made for.
LEMMA OneAddition ==
  ASSUME NEW S, IsFiniteSet(S), NEW T \in SUBSET S, NEW f, NEW g, NEW a, NEW b,
         Adds(f, S, a), Adds(g, T, b), \A x \in T : f[x] = g[x]
  PROVE  \A s \in SUBSET T : a[s] = b[s]
<1> DEFINE Bad == {s \in SUBSET T : a[s] # b[s]}
<1>1. SUFFICES ASSUME Bad # {} PROVE FALSE OBVIOUS
<1>2. IsFiniteSet(T) BY FS_Subset
<1>3. PICK s \in Bad : \A t \in Bad : t \subseteq s => t = s
  <2> HIDE DEF Bad
  <2>1. Bad \subseteq SUBSET T BY DEF Bad
  <2> QED BY <1>1, <1>2, <2>1, LeastSubset
<1>4. /\ a[s] = IF s = {} THEN 0 ELSE f[Pick(s)] + a[s \ {Pick(s)}]
      /\ b[s] = IF s = {} THEN 0 ELSE g[Pick(s)] + b[s \ {Pick(s)}]
  BY DEF Adds
<1>5. s # {} BY <1>4
<1>6. Pick(s) \in s BY <1>5 DEF Pick
<1>7. s \ {Pick(s)} \notin Bad BY <1>3, <1>6
<1>8. a[s \ {Pick(s)}] = b[s \ {Pick(s)}] BY <1>7
<1> QED BY <1>4, <1>5, <1>6, <1>8

-----------------------------------------------------------------------------
(* What sums do.                                                           *)

\* A sum of integers is an integer.
LEMMA SumType ==
  ASSUME NEW S, IsFiniteSet(S), NEW f, \A x \in S : f[x] \in Int
  PROVE  SumFunctionOnSet(f, S) \in Int
<1>1. PICK g : Adds(f, S, g) /\ SumFunctionOnSet(f, S) = g[S] BY SumAdds
<1> DEFINE Bad == {s \in SUBSET S : g[s] \notin Int}
<1>2. SUFFICES ASSUME Bad # {} PROVE FALSE BY <1>1
<1>3. PICK s \in Bad : \A t \in Bad : t \subseteq s => t = s
  <2> HIDE DEF Bad
  <2>1. Bad \subseteq SUBSET S BY DEF Bad
  <2> QED BY <1>2, <2>1, LeastSubset
<1>4. g[s] = IF s = {} THEN 0 ELSE f[Pick(s)] + g[s \ {Pick(s)}]
  BY <1>1 DEF Adds
<1>5. s # {} BY <1>4
<1>6. Pick(s) \in s BY <1>5 DEF Pick
<1>7. s \ {Pick(s)} \notin Bad BY <1>3, <1>6
<1>8. g[s \ {Pick(s)}] \in Int BY <1>7
<1> QED BY <1>4, <1>5, <1>6, <1>8

\* The sum of a function over S depends on its values on S only.
LEMMA SumSame ==
  ASSUME NEW S, IsFiniteSet(S), NEW f, NEW g, \A x \in S : f[x] = g[x]
  PROVE  SumFunctionOnSet(f, S) = SumFunctionOnSet(g, S)
<1>1. PICK a : Adds(f, S, a) /\ SumFunctionOnSet(f, S) = a[S] BY SumAdds
<1>2. PICK b : Adds(g, S, b) /\ SumFunctionOnSet(g, S) = b[S] BY SumAdds
<1>3. S \in SUBSET S OBVIOUS
<1>4. \A s \in SUBSET S : a[s] = b[s] BY <1>1, <1>2, OneAddition
<1> QED BY <1>1, <1>2, <1>3, <1>4

\* A sum over no elements is 0.
LEMMA SumEmpty == \A f : SumFunctionOnSet(f, {}) = 0
<1> TAKE f
<1>1. IsFiniteSet({}) BY FS_EmptySet
<1>2. PICK g : Adds(f, {}, g) /\ SumFunctionOnSet(f, {}) = g[{}] BY <1>1, SumAdds
<1> QED BY <1>2 DEF Adds

\* A sum is its first element and the sum of the rest.
LEMMA SumPick ==
  ASSUME NEW S, IsFiniteSet(S), NEW f, S # {}
  PROVE  /\ Pick(S) \in S
         /\ SumFunctionOnSet(f, S) = f[Pick(S)] + SumFunctionOnSet(f, S \ {Pick(S)})
<1>1. PICK a : Adds(f, S, a) /\ SumFunctionOnSet(f, S) = a[S] BY SumAdds
<1>2. IsFiniteSet(S \ {Pick(S)}) BY FS_RemoveElement
<1>3. PICK b : Adds(f, S \ {Pick(S)}, b) /\ SumFunctionOnSet(f, S \ {Pick(S)}) = b[S \ {Pick(S)}]
  BY <1>2, SumAdds
<1>4. a[S \ {Pick(S)}] = b[S \ {Pick(S)}]
  BY <1>1, <1>3, OneAddition
<1> QED BY <1>1, <1>3, <1>4 DEF Adds, Pick

\* A sum can start with any of its elements: addition commutes.
LEMMA SumRemove ==
  ASSUME NEW S, IsFiniteSet(S), NEW f, \A x \in S : f[x] \in Int
  PROVE  \A x \in S : SumFunctionOnSet(f, S) = f[x] + SumFunctionOnSet(f, S \ {x})
<1> DEFINE Sm(s) == SumFunctionOnSet(f, s)
           Bad == {s \in SUBSET S : \E x \in s : Sm(s) # f[x] + Sm(s \ {x})}
<1>1. SUFFICES ASSUME Bad # {} PROVE FALSE OBVIOUS
<1>2. PICK s \in Bad : \A t \in Bad : t \subseteq s => t = s
  <2> HIDE DEF Bad
  <2>1. Bad \subseteq SUBSET S BY DEF Bad
  <2> QED BY <1>1, <2>1, LeastSubset
<1>3. PICK x \in s : Sm(s) # f[x] + Sm(s \ {x}) OBVIOUS
<1> DEFINE p == Pick(s)
<1>4. IsFiniteSet(s) BY FS_Subset
<1> HIDE DEF Sm
<1>5. p \in s /\ Sm(s) = f[p] + Sm(s \ {p}) BY <1>3, <1>4, SumPick DEF Sm
<1>6. p # x BY <1>3, <1>5
<1>7. s \ {p} \notin Bad /\ s \ {x} \notin Bad BY <1>2, <1>3, <1>5
<1>8. Sm(s \ {p}) = f[x] + Sm((s \ {p}) \ {x}) BY <1>3, <1>6, <1>7
<1>9. Sm(s \ {x}) = f[p] + Sm((s \ {x}) \ {p}) BY <1>5, <1>6, <1>7
<1>10. (s \ {p}) \ {x} = (s \ {x}) \ {p} OBVIOUS
<1>11. Sm((s \ {p}) \ {x}) \in Int
  <2>1. IsFiniteSet((s \ {p}) \ {x}) BY <1>4, FS_RemoveElement
  <2> QED BY <2>1, SumType DEF Sm
<1>12. f[p] \in Int /\ f[x] \in Int BY <1>3, <1>5
<1> DEFINE r == Sm((s \ {p}) \ {x})
<1>13. r \in Int /\ Sm(s \ {p}) = f[x] + r /\ Sm(s \ {x}) = f[p] + r
  BY <1>8, <1>9, <1>10, <1>11
<1>14. Sm(s) = f[p] + (f[x] + r) /\ Sm(s) # f[x] + (f[p] + r) BY <1>3, <1>5, <1>13
<1> HIDE DEF p, Bad, r
<1> QED BY <1>12, <1>13, <1>14

\* One more element adds its value.
LEMMA SumInsert ==
  ASSUME NEW S, IsFiniteSet(S), NEW x, x \notin S, NEW f, \A y \in S \cup {x} : f[y] \in Int
  PROVE  SumFunctionOnSet(f, S \cup {x}) = f[x] + SumFunctionOnSet(f, S)
<1>1. IsFiniteSet(S \cup {x}) BY FS_AddElement
<1>2. (S \cup {x}) \ {x} = S OBVIOUS
<1>3. SumFunctionOnSet(f, S \cup {x}) = f[x] + SumFunctionOnSet(f, (S \cup {x}) \ {x})
  BY <1>1, SumRemove
<1> QED BY <1>2, <1>3

\* When one element changes, the sum changes by as much.  This is the step of
\* every proof that a total is kept: an action writes one row.
LEMMA SumChange ==
  ASSUME NEW S, IsFiniteSet(S), NEW x \in S, NEW f, NEW g,
         \A y \in S : f[y] \in Int /\ g[y] \in Int,
         \A y \in S \ {x} : g[y] = f[y]
  PROVE  SumFunctionOnSet(g, S) = SumFunctionOnSet(f, S) + g[x] - f[x]
<1>1. IsFiniteSet(S \ {x}) BY FS_RemoveElement
<1>2. SumFunctionOnSet(f, S) = f[x] + SumFunctionOnSet(f, S \ {x}) BY SumRemove
<1>3. SumFunctionOnSet(g, S) = g[x] + SumFunctionOnSet(g, S \ {x}) BY SumRemove
<1>4. SumFunctionOnSet(g, S \ {x}) = SumFunctionOnSet(f, S \ {x}) BY <1>1, SumSame
<1>5. SumFunctionOnSet(f, S \ {x}) \in Int BY <1>1, SumType
<1> QED BY <1>2, <1>3, <1>4, <1>5

\* Sets that hold the empty set and, with each set, the set with one more
\* element of S hold S.
LEMMA SubsetInduction ==
  ASSUME NEW S, IsFiniteSet(S), NEW Good, Good \subseteq SUBSET S, {} \in Good,
         \A T \in Good, x \in S : T \cup {x} \in Good
  PROVE  S \in Good
<1> DEFINE Bad == {T \in SUBSET S : S \ T \in Good}
<1>1. Bad # {}
  <2>1. S \ S = {} OBVIOUS
  <2> QED BY <2>1
<1>2. PICK T \in Bad : \A U \in Bad : U \subseteq T => U = T
  <2> HIDE DEF Bad
  <2>1. Bad \subseteq SUBSET S BY DEF Bad
  <2> QED BY <1>1, <2>1, LeastSubset
<1>3. ASSUME NEW x \in T PROVE FALSE
  <2>1. (S \ T) \cup {x} \in Good OBVIOUS
  <2>2. (S \ T) \cup {x} = S \ (T \ {x}) OBVIOUS
  <2>3. T \ {x} \in Bad BY <2>1, <2>2
  <2> QED BY <1>2, <2>3
<1>4. S \ T = S BY <1>3
<1> QED BY <1>4

\* A sum of values that are not greater is not greater.
LEMMA SumAtMost ==
  ASSUME NEW S, IsFiniteSet(S), NEW f, NEW g,
         \A x \in S : f[x] \in Int /\ g[x] \in Int /\ f[x] <= g[x]
  PROVE  SumFunctionOnSet(f, S) <= SumFunctionOnSet(g, S)
<1> DEFINE Good == {T \in SUBSET S : SumFunctionOnSet(f, T) <= SumFunctionOnSet(g, T)}
<1>1. {} \in Good BY SumEmpty
<1>2. ASSUME NEW T \in Good, NEW x \in S PROVE T \cup {x} \in Good
  <2>1. CASE x \in T
    <3>1. T \cup {x} = T BY <2>1
    <3> QED BY <3>1
  <2>2. CASE x \notin T
    <3>1. IsFiniteSet(T) BY FS_Subset
    <3>2. SumFunctionOnSet(f, T) \in Int /\ SumFunctionOnSet(g, T) \in Int BY <3>1, SumType
    <3>3. SumFunctionOnSet(f, T \cup {x}) = f[x] + SumFunctionOnSet(f, T) BY <2>2, <3>1, SumInsert
    <3>4. SumFunctionOnSet(g, T \cup {x}) = g[x] + SumFunctionOnSet(g, T) BY <2>2, <3>1, SumInsert
    <3>5. SumFunctionOnSet(f, T) <= SumFunctionOnSet(g, T) OBVIOUS
    <3>6. SumFunctionOnSet(f, T \cup {x}) <= SumFunctionOnSet(g, T \cup {x})
      BY <3>2, <3>3, <3>4, <3>5
    <3> QED BY <3>6
  <2> QED BY <2>1, <2>2
<1>3. S \in Good
  <2> HIDE DEF Good
  <2>1. Good \subseteq SUBSET S BY DEF Good
  <2> QED BY <1>1, <1>2, <2>1, SubsetInduction
<1> QED BY <1>3

\* A sum of zeros is 0.
LEMMA SumZero ==
  ASSUME NEW S, IsFiniteSet(S), NEW f, \A x \in S : f[x] = 0
  PROVE  SumFunctionOnSet(f, S) = 0
<1> DEFINE Good == {T \in SUBSET S : SumFunctionOnSet(f, T) = 0}
<1>1. {} \in Good BY SumEmpty
<1>2. ASSUME NEW T \in Good, NEW x \in S PROVE T \cup {x} \in Good
  <2>1. CASE x \in T
    <3>1. T \cup {x} = T BY <2>1
    <3> QED BY <3>1
  <2>2. CASE x \notin T
    <3>1. IsFiniteSet(T) BY FS_Subset
    <3>2. \A y \in T \cup {x} : f[y] \in Int OBVIOUS
    <3>3. SumFunctionOnSet(f, T \cup {x}) = f[x] + SumFunctionOnSet(f, T) BY <2>2, <3>1, <3>2, SumInsert
    <3> QED BY <3>3
  <2> QED BY <2>1, <2>2
<1>3. S \in Good
  <2> HIDE DEF Good
  <2>1. Good \subseteq SUBSET S BY DEF Good
  <2> QED BY <1>1, <1>2, <2>1, SubsetInduction
<1> QED BY <1>3

\* A sum of natural numbers is a natural number.
LEMMA SumNotNegative ==
  ASSUME NEW S, IsFiniteSet(S), NEW f, \A x \in S : f[x] \in Nat
  PROVE  SumFunctionOnSet(f, S) \in Nat
<1> DEFINE z == [x \in S |-> 0]
<1>1. SumFunctionOnSet(z, S) = 0 BY SumZero
<1>2. SumFunctionOnSet(z, S) <= SumFunctionOnSet(f, S) BY SumAtMost
<1>3. SumFunctionOnSet(f, S) \in Int BY SumType
<1> QED BY <1>1, <1>2, <1>3

\* The sum over two sets that share nothing is the two sums together.
LEMMA SumParts ==
  ASSUME NEW S, IsFiniteSet(S), NEW T, IsFiniteSet(T), S \cap T = {},
         NEW f, \A x \in S \cup T : f[x] \in Int
  PROVE  SumFunctionOnSet(f, S \cup T) = SumFunctionOnSet(f, S) + SumFunctionOnSet(f, T)
<1> DEFINE Sm(s) == SumFunctionOnSet(f, s)
           Good == {U \in SUBSET T : Sm(S \cup U) = Sm(S) + Sm(U)}
<1>0. Sm(S) \in Int BY SumType
<1>1. {} \in Good
  <2>1. S \cup {} = S OBVIOUS
  <2> QED BY <2>1, <1>0, SumEmpty
<1>2. ASSUME NEW U \in Good, NEW x \in T PROVE U \cup {x} \in Good
  <2>1. CASE x \in U
    <3>1. U \cup {x} = U BY <2>1
    <3> QED BY <3>1
  <2>2. CASE x \notin U
    <3>1. IsFiniteSet(U) /\ IsFiniteSet(S \cup U) /\ x \notin S \cup U BY <2>2, FS_Subset, FS_Union
    <3> HIDE DEF Sm
    <3>2. Sm(U) \in Int BY <3>1, SumType DEF Sm
    <3>3. Sm(U \cup {x}) = f[x] + Sm(U) BY <2>2, <3>1, SumInsert DEF Sm
    <3>4. Sm((S \cup U) \cup {x}) = f[x] + Sm(S \cup U) BY <3>1, SumInsert DEF Sm
    <3>5. (S \cup U) \cup {x} = S \cup (U \cup {x}) OBVIOUS
    <3>6. Sm(S \cup U) = Sm(S) + Sm(U) /\ f[x] \in Int OBVIOUS
    <3>7. Sm(S) \in Int BY <1>0 DEF Sm
    <3>8. Sm(S \cup (U \cup {x})) = f[x] + (Sm(S) + Sm(U)) BY <3>4, <3>5, <3>6
    <3> DEFINE a == Sm(S) b == Sm(U) c == f[x]
    <3>9. c + (a + b) = a + (c + b)
      <4>1. a \in Int /\ b \in Int /\ c \in Int BY <3>2, <3>6, <3>7
      <4> HIDE DEF a, b, c
      <4> QED BY <4>1
    <3>10. Sm(S \cup (U \cup {x})) = Sm(S) + Sm(U \cup {x}) BY <3>3, <3>8, <3>9
    <3> QED BY <3>10 DEF Sm
  <2> QED BY <2>1, <2>2
<1>3. T \in Good
  <2> HIDE DEF Good
  <2>1. Good \subseteq SUBSET T BY DEF Good
  <2> QED BY <1>1, <1>2, <2>1, SubsetInduction
<1> QED BY <1>3

\* The rows that do not count may as well be added as zeros: a sum over the
\* rows that meet a condition is one over all of them.
LEMMA SumRestrict ==
  ASSUME NEW S, IsFiniteSet(S), NEW T \in SUBSET S, NEW f, NEW w,
         \A x \in T : f[x] \in Int /\ w[x] = f[x],
         \A x \in S \ T : w[x] = 0
  PROVE  SumFunctionOnSet(f, T) = SumFunctionOnSet(w, S)
<1>1. IsFiniteSet(T) /\ IsFiniteSet(S \ T) BY FS_Subset
<1>2. T \cup (S \ T) = S /\ T \cap (S \ T) = {} OBVIOUS
<1>3. \A x \in T \cup (S \ T) : w[x] \in Int BY <1>2
<1>4. SumFunctionOnSet(w, T \cup (S \ T)) = SumFunctionOnSet(w, T) + SumFunctionOnSet(w, S \ T)
  BY <1>1, <1>2, <1>3, SumParts
<1>5. SumFunctionOnSet(w, S \ T) = 0 BY <1>1, SumZero
<1>6. SumFunctionOnSet(w, T) \in Int BY <1>1, <1>3, SumType
<1>7. SumFunctionOnSet(f, T) = SumFunctionOnSet(w, T) BY <1>1, SumSame
<1>8. SumFunctionOnSet(w, S) = SumFunctionOnSet(w, T \cup (S \ T)) BY <1>2
<1> QED BY <1>4, <1>5, <1>6, <1>7, <1>8
\* A sum of natural numbers over fewer rows is not greater.
LEMMA SumSubset ==
  ASSUME NEW S, IsFiniteSet(S), NEW T \in SUBSET S, NEW f, \A x \in S : f[x] \in Nat
  PROVE  SumFunctionOnSet(f, T) <= SumFunctionOnSet(f, S)
<1>1. IsFiniteSet(T) /\ IsFiniteSet(S \ T) BY FS_Subset
<1>2. T \cup (S \ T) = S /\ T \cap (S \ T) = {} OBVIOUS
<1>3. \A x \in T \cup (S \ T) : f[x] \in Int BY <1>2
<1>4. SumFunctionOnSet(f, T \cup (S \ T)) = SumFunctionOnSet(f, T) + SumFunctionOnSet(f, S \ T)
  BY <1>1, <1>2, <1>3, SumParts
<1>5. SumFunctionOnSet(f, S \ T) \in Nat BY <1>1, SumNotNegative
<1>6. SumFunctionOnSet(f, T) \in Int BY <1>1, <1>3, SumType
<1>7. SumFunctionOnSet(f, S) = SumFunctionOnSet(f, T \cup (S \ T)) BY <1>2
<1> QED BY <1>4, <1>5, <1>6, <1>7

\* A finite set of numbers that is not empty has a largest one.
LEMMA LargestExists ==
  ASSUME NEW S, IsFiniteSet(S), S \subseteq Int, S # {}
  PROVE  \E x \in S : \A y \in S : y <= x
<1> DEFINE Good == {T \in SUBSET S : T # {} => \E x \in T : \A y \in T : y <= x}
<1>1. {} \in Good OBVIOUS
<1>2. ASSUME NEW T \in Good, NEW x \in S PROVE T \cup {x} \in Good
  <2>1. CASE T = {} BY <2>1
  <2>2. CASE T # {}
    <3>1. PICK m \in T : \A y \in T : y <= m BY <2>2
    <3>2. m \in Int /\ x \in Int /\ \A y \in T : y \in Int OBVIOUS
    <3>3. CASE x <= m BY <3>1, <3>2, <3>3
    <3>4. CASE ~ (x <= m)
      <4>1. \A y \in T \cup {x} : y <= x BY <3>1, <3>2, <3>4
      <4> QED BY <4>1
    <3> QED BY <3>3, <3>4
  <2> QED BY <2>1, <2>2
<1>3. S \in Good
  <2> HIDE DEF Good
  <2>1. Good \subseteq SUBSET S BY DEF Good
  <2> QED BY <1>1, <1>2, <2>1, SubsetInduction
<1> QED BY <1>3

\* How many have one of some values: as many as have each of them.
LEMMA CountByValue ==
  ASSUME NEW I, IsFiniteSet(I), NEW v, NEW T, IsFiniteSet(T)
  PROVE  Cardinality({i \in I : v[i] \in T})
           = SumFunctionOnSet([x \in T |-> Cardinality({i \in I : v[i] = x})], T)
<1> DEFINE f == [x \in T |-> Cardinality({i \in I : v[i] = x})]
           Having(U) == {i \in I : v[i] \in U}
           Good == {U \in SUBSET T : Cardinality(Having(U)) = SumFunctionOnSet(f, U)}
<1>0. \A U \in SUBSET T : IsFiniteSet(Having(U)) /\ Cardinality(Having(U)) \in Nat
  <2> TAKE U \in SUBSET T
  <2>1. Having(U) \in SUBSET I OBVIOUS
  <2>2. IsFiniteSet(Having(U)) BY <2>1, FS_Subset
  <2> QED BY <2>2, FS_CardinalityType
<1>f. \A x \in T : f[x] = Cardinality(Having({x})) /\ f[x] \in Int
  <2> TAKE x \in T
  <2>1. {i \in I : v[i] = x} = Having({x}) OBVIOUS
  <2>2. Cardinality(Having({x})) \in Nat BY <1>0
  <2> QED BY <2>1, <2>2
<1>1. {} \in Good
  <2>1. Having({}) = {} OBVIOUS
  <2>2. Cardinality(Having({})) = 0 BY <2>1, FS_EmptySet
  <2>3. SumFunctionOnSet(f, {}) = 0 BY SumEmpty
  <2> QED BY <2>2, <2>3
<1>2. ASSUME NEW U \in Good, NEW x \in T PROVE U \cup {x} \in Good
  <2> HIDE DEF f
  <2>1. CASE x \in U
    <3>1. U \cup {x} = U BY <2>1
    <3> QED BY <3>1
  <2>2. CASE x \notin U
    <3>1. Having(U \cup {x}) = Having(U) \cup Having({x}) /\ Having(U) \cap Having({x}) = {} BY <2>2
    <3>2. U \in SUBSET T /\ {x} \in SUBSET T /\ U \cup {x} \in SUBSET T OBVIOUS
    <3>3. /\ IsFiniteSet(Having(U)) /\ Cardinality(Having(U)) \in Nat
          /\ IsFiniteSet(Having({x})) /\ Cardinality(Having({x})) \in Nat
      BY <1>0, <3>2
    <3> HIDE DEF Having
    <3>4. Cardinality(Having(U) \cup Having({x})) = Cardinality(Having(U)) + Cardinality(Having({x}))
      <4>1. Cardinality(Having(U) \cap Having({x})) = 0 BY <3>1, FS_EmptySet
      <4>2. Cardinality(Having(U) \cup Having({x}))
              = Cardinality(Having(U)) + Cardinality(Having({x})) - Cardinality(Having(U) \cap Having({x}))
        BY <3>3, FS_Union
      <4> QED BY <3>3, <4>1, <4>2
    <3>5. SumFunctionOnSet(f, U \cup {x}) = f[x] + SumFunctionOnSet(f, U)
      <4>1. IsFiniteSet(U) BY <3>2, FS_Subset
      <4>2. \A y \in U \cup {x} : f[y] \in Int BY <1>f, <3>2
      <4> QED BY <2>2, <4>1, <4>2, SumInsert
    <3>6. Cardinality(Having(U)) = SumFunctionOnSet(f, U) OBVIOUS
    <3>7. f[x] = Cardinality(Having({x})) BY <1>f
    <3>8. Cardinality(Having(U \cup {x})) = SumFunctionOnSet(f, U \cup {x})
      <4>1. Cardinality(Having(U \cup {x})) = Cardinality(Having(U)) + Cardinality(Having({x})) BY <3>1, <3>4
      <4>2. SumFunctionOnSet(f, U \cup {x}) = Cardinality(Having({x})) + Cardinality(Having(U)) BY <3>5, <3>6, <3>7
      <4>3. Cardinality(Having(U)) \in Nat /\ Cardinality(Having({x})) \in Nat BY <3>3
      <4> QED BY <4>1, <4>2, <4>3
    <3> QED BY <3>2, <3>8
  <2> QED BY <2>1, <2>2
<1>3. T \in Good
  <2> HIDE DEF Good
  <2>1. Good \subseteq SUBSET T BY DEF Good
  <2> QED BY <1>1, <1>2, <2>1, SubsetInduction
<1> QED BY <1>3
=============================================================================
