------------------------------- MODULE Inductions -------------------------------
(***************************************************************************)
(* Induction over numbers, finite sets and lists, with what it gives of    *)
(* sums over sets and of sets as sorted lists. The induction theorems of   *)
(* the library take an operator; here the property to prove is the set of  *)
(* those that have it, and a proof looks at the least that has not.        *)
(***************************************************************************)
EXTENDS SortedLists, Integers, Functions, SequenceTheorems, FiniteSetTheorems, WellFoundedInduction, TLAPS

---------------------------------------------------------------------------
(* Induction.                                                              *)

Smaller == {ss \in Nat \X Nat : ss[1] < ss[2]}

LEMMA SmallerWellFounded == IsWellFoundedOn(Smaller, Nat)
  BY ONLY NatLessThanWellFounded, Zenon DEF OpToRel, Smaller

\* A set of numbers that is not empty has a least.
LEMMA Least ==
  ASSUME NEW T, T \subseteq Nat, T # {}
  PROVE  \E n \in T : \A m \in T : n <= m
  <1>1. PICK n \in T : \A m \in T : <<m, n>> \notin Smaller
    BY ONLY SmallerWellFounded, WFMin, T \subseteq Nat, T # {}, Zenon
  <1>2. \A m \in T : ~ m < n
    BY <1>1 DEF Smaller
  <1> QED
    BY <1>2

\* A set that has 0, and with a number the next, has them all.
LEMMA CountingUp ==
  ASSUME NEW N, 0 \in N, \A n \in Nat : n \in N => n + 1 \in N
  PROVE  Nat \subseteq N
  <1> SUFFICES ASSUME Nat \ N # {} PROVE FALSE
    OBVIOUS
  <1>1. PICK n \in Nat \ N : \A m \in Nat \ N : n <= m
    BY Least
  <1>2. n # 0 /\ n - 1 \in Nat /\ n - 1 \in N
    BY <1>1
  <1> QED
    BY <1>2

LEMMA SubsetsCounted ==
  ASSUME NEW S, IsFiniteSet(S)
  PROVE  \A T \in SUBSET S : /\ IsFiniteSet(T) /\ Cardinality(T) \in Nat
                             /\ Cardinality(T) <= Cardinality(S)
  BY FS_Subset, FS_CardinalityType

\* Of some subsets of a finite set, one is no longer among them whatever is taken
\* out of it.
LEMMA SmallestSet ==
  ASSUME NEW S, IsFiniteSet(S), NEW F, F # {}, F \subseteq SUBSET S
  PROVE  \E T \in F : \A x \in T : T \ {x} \notin F
  <1> DEFINE Counts == {Cardinality(T) : T \in F}
  <1>1. Counts \subseteq Nat /\ Counts # {}
    BY SubsetsCounted
  <1>2. PICK n \in Counts : \A m \in Counts : n <= m
    BY ONLY <1>1, Least
  <1>3. PICK T \in F : \A U \in F : Cardinality(T) <= Cardinality(U)
    BY <1>2
  <1>4. ASSUME NEW x \in T PROVE T \ {x} \notin F
    <2>1. Cardinality(T) \in Nat /\ Cardinality(T \ {x}) = Cardinality(T) - 1
      BY SubsetsCounted, FS_RemoveElement
    <2> QED
      BY <1>3, <2>1
  <1> QED
    BY <1>4

\* Induction over the subsets of a finite set: F is the set of those for which
\* the property holds.
LEMMA SetInduction ==
  ASSUME NEW S, IsFiniteSet(S), NEW F, {} \in F,
         \A T \in SUBSET S : \A x \in S \ T : T \in F => T \cup {x} \in F
  PROVE  S \in F
  <1> DEFINE Bad == {T \in SUBSET S : T \notin F}
  <1> SUFFICES ASSUME Bad # {} PROVE FALSE
    OBVIOUS
  <1>1. PICK T \in Bad : \A x \in T : T \ {x} \notin Bad
    BY SmallestSet
  <1>2. PICK x \in T : T \ {x} \in F
    BY <1>1
  <1>3. T \ {x} \in SUBSET S /\ x \in S \ (T \ {x}) /\ (T \ {x}) \cup {x} = T
    BY <1>2
  <1> QED
    BY <1>1, <1>2, <1>3

\* A finite set of numbers that is not empty has a greatest.
LEMMA Greatest ==
  ASSUME NEW S, S \subseteq Nat, IsFiniteSet(S), S # {}
  PROVE  \E y \in S : \A x \in S : x <= y
  <1> DEFINE F == {T \in SUBSET S : T = {} \/ \E y \in T : \A x \in T : x <= y}
  <1>1. {} \in F
    OBVIOUS
  <1>2. ASSUME NEW T \in SUBSET S, NEW z \in S \ T, T \in F PROVE T \cup {z} \in F
    <2>1. CASE T = {}
      BY <2>1
    <2>2. CASE T # {}
      <3>1. PICK y \in T : \A x \in T : x <= y
        BY <1>2, <2>2
      <3>2. CASE z <= y
        BY <3>1, <3>2
      <3>3. CASE ~(z <= y)
        <4>1. \A x \in T \cup {z} : x <= z
          BY <3>1, <3>3
        <4> QED
          BY <4>1
      <3> QED
        BY <3>2, <3>3
    <2> QED
      BY <2>1, <2>2
  <1> HIDE DEF F
  <1>3. S \in F
    BY <1>1, <1>2, SetInduction
  <1> QED
    BY <1>3 DEF F

---------------------------------------------------------------------------
(* What SumFunctionOnSet computes: the fold takes out of a set the element *)
(* CHOOSE names, and what is left of it next.                              *)

Pick(s) == CHOOSE x \in s : TRUE

LEMMA PickIn == ASSUME NEW s, s # {} PROVE Pick(s) \in s
  BY DEF Pick

Iterates(iter, f, S) ==
  iter = [s \in SUBSET S |-> IF s = {} THEN 0 ELSE f[Pick(s)] + iter[s \ {Pick(s)}]]

LEMMA SumIsIterated ==
  ASSUME NEW f, NEW S
  PROVE  SumFunctionOnSet(f, S) = (CHOOSE iter : Iterates(iter, f, S))[S]
  BY DEF SumFunctionOnSet, FoldFunctionOnSet, MapThenFoldSet, Pick, Iterates

\* The recursion has a solution: for sets of one element more each time.
LEMMA IterationExists ==
  ASSUME NEW f, NEW S, IsFiniteSet(S)
  PROVE  \E iter : Iterates(iter, f, S)
  <1> DEFINE Small(n) == {s \in SUBSET S : Cardinality(s) <= n}
             Solves(g, n) == g = [s \in Small(n) |->
                                    IF s = {} THEN 0 ELSE f[Pick(s)] + g[s \ {Pick(s)}]]
             N == {n \in Nat : \E g : Solves(g, n)}
  <1>1. \A T \in SUBSET S : IsFiniteSet(T) /\ Cardinality(T) \in Nat /\ Cardinality(T) <= Cardinality(S)
    BY SubsetsCounted
  <1>2. 0 \in N
    <2> DEFINE g == [s \in Small(0) |-> 0]
    <2>1. \A s \in Small(0) : s = {}
      BY <1>1, FS_EmptySet
    <2>2. Solves(g, 0)
      BY <2>1
    <2> HIDE DEF Solves
    <2> QED
      BY <2>2
  <1>3. ASSUME NEW n \in Nat, n \in N PROVE n + 1 \in N
    <2>1. PICK g : Solves(g, n)
      BY <1>3
    <2> DEFINE h == [s \in Small(n + 1) |-> IF s = {} THEN 0 ELSE f[Pick(s)] + g[s \ {Pick(s)}]]
    <2>2. ASSUME NEW s \in Small(n + 1), s # {}
          PROVE  s \ {Pick(s)} \in Small(n) /\ s \ {Pick(s)} \in Small(n + 1)
      <3>1. Pick(s) \in s
        BY <2>2, PickIn
      <3>2. Cardinality(s \ {Pick(s)}) = Cardinality(s) - 1
        BY <1>1, <3>1, FS_RemoveElement
      <3> QED
        BY <1>1, <3>2
    <2>3. \A t \in Small(n) : t \in Small(n + 1)
      BY <1>1
    <2>4. \A t \in Small(n) : h[t] = g[t]
      BY <2>1, <2>3
    <2>5. \A s \in Small(n + 1) : h[s] = IF s = {} THEN 0 ELSE f[Pick(s)] + h[s \ {Pick(s)}]
      BY <2>2, <2>4
    <2>6. Solves(h, n + 1)
      BY <2>5
    <2> HIDE DEF Solves, h
    <2> QED
      BY <2>6
  <1>4. Cardinality(S) \in N
    <2> HIDE DEF N
    <2>1. Nat \subseteq N
      BY <1>2, <1>3, CountingUp
    <2> QED
      BY <1>1, <2>1
  <1>5. Small(Cardinality(S)) = SUBSET S
    BY <1>1
  <1> QED
    BY <1>4, <1>5 DEF Iterates

\* Two solutions agree where both are one.
LEMMA IterationsAgree ==
  ASSUME NEW f, NEW S, IsFiniteSet(S), NEW T \in SUBSET S,
         NEW g, Iterates(g, f, S), NEW h, Iterates(h, f, T)
  PROVE  g[T] = h[T]
  <1> DEFINE Bad == {s \in SUBSET T : g[s] # h[s]}
  <1> SUFFICES ASSUME Bad # {} PROVE FALSE
    OBVIOUS
  <1>1. PICK s \in Bad : \A x \in s : s \ {x} \notin Bad
    BY SmallestSet
  <1>2. s \in SUBSET S /\ s # {} /\ Pick(s) \in s
    BY PickIn DEF Iterates
  <1>3. g[s \ {Pick(s)}] = h[s \ {Pick(s)}]
    BY <1>1, <1>2
  <1> QED
    BY <1>2, <1>3 DEF Iterates

LEMMA SumOfNothing == ASSUME NEW f PROVE SumFunctionOnSet(f, {}) = 0
  <1> DEFINE g == CHOOSE iter : Iterates(iter, f, {})
  <1>1. Iterates(g, f, {})
    BY IterationExists, FS_EmptySet
  <1> HIDE DEF g
  <1>2. g[{}] = 0
    BY <1>1 DEF Iterates
  <1> QED
    BY <1>2, SumIsIterated DEF g

LEMMA SumUnfolds ==
  ASSUME NEW f, NEW S, IsFiniteSet(S), S # {}
  PROVE  Pick(S) \in S /\ SumFunctionOnSet(f, S) = f[Pick(S)] + SumFunctionOnSet(f, S \ {Pick(S)})
  <1> DEFINE T == S \ {Pick(S)}
             g == CHOOSE iter : Iterates(iter, f, S)
             h == CHOOSE iter : Iterates(iter, f, T)
  <1>1. Pick(S) \in S /\ T \in SUBSET S /\ IsFiniteSet(T)
    BY PickIn, FS_Subset
  <1>2. Iterates(g, f, S)
    BY IterationExists
  <1>3. Iterates(h, f, T)
    BY <1>1, IterationExists
  <1>4. SumFunctionOnSet(f, S) = g[S] /\ SumFunctionOnSet(f, T) = h[T]
    BY SumIsIterated
  <1> HIDE DEF g, h
  <1>5. g[T] = h[T]
    BY <1>1, <1>2, <1>3, IterationsAgree
  <1>6. g[S] = f[Pick(S)] + g[T]
    BY <1>2 DEF Iterates
  <1> QED
    BY <1>1, <1>4, <1>5, <1>6

---------------------------------------------------------------------------
(* Sums of natural numbers.                                                *)

LEMMA SumType ==
  ASSUME NEW f, NEW S, IsFiniteSet(S), \A x \in S : f[x] \in Nat
  PROVE  SumFunctionOnSet(f, S) \in Nat
  <1> DEFINE Bad == {s \in SUBSET S : SumFunctionOnSet(f, s) \notin Nat}
  <1> SUFFICES ASSUME Bad # {} PROVE FALSE
    OBVIOUS
  <1>1. PICK s \in Bad : \A x \in s : s \ {x} \notin Bad
    BY SmallestSet
  <1>2. s # {} /\ IsFiniteSet(s)
    <2>1. SumFunctionOnSet(f, {}) \in Nat
      BY SumOfNothing
    <2> QED
      BY <1>1, <2>1, FS_Subset
  <1>3. Pick(s) \in s /\ SumFunctionOnSet(f, s) = f[Pick(s)] + SumFunctionOnSet(f, s \ {Pick(s)})
    BY <1>2, SumUnfolds
  <1>4. SumFunctionOnSet(f, s \ {Pick(s)}) \in Nat
    BY <1>1, <1>3
  <1> QED
    BY <1>1, <1>3, <1>4

\* Whichever element is taken out first.
LEMMA SumWithout ==
  ASSUME NEW f, NEW S, IsFiniteSet(S), \A x \in S : f[x] \in Nat, NEW x \in S
  PROVE  SumFunctionOnSet(f, S) = f[x] + SumFunctionOnSet(f, S \ {x})
  <1> DEFINE Wrong(s) == \E y \in s : SumFunctionOnSet(f, s) # f[y] + SumFunctionOnSet(f, s \ {y})
             Bad == {s \in SUBSET S : Wrong(s)}
  <1> SUFFICES ASSUME Bad # {} PROVE FALSE
    OBVIOUS
  <1>1. PICK s \in Bad : \A y \in s : s \ {y} \notin Bad
    BY SmallestSet
  <1>2. PICK y \in s : SumFunctionOnSet(f, s) # f[y] + SumFunctionOnSet(f, s \ {y})
    BY <1>1
  <1> DEFINE p == Pick(s)
  <1>3. IsFiniteSet(s) /\ \A z \in s : IsFiniteSet(s \ {z})
    BY FS_Subset
  <1>4. p \in s /\ SumFunctionOnSet(f, s) = f[p] + SumFunctionOnSet(f, s \ {p})
    BY <1>2, <1>3, SumUnfolds
  <1> HIDE DEF p
  <1>5. p # y
    BY <1>2, <1>4
  <1>6. \A z \in s : ~ Wrong(s \ {z})
    BY <1>1
  <1>7. SumFunctionOnSet(f, s) = f[p] + (f[y] + SumFunctionOnSet(f, (s \ {p}) \ {y}))
    BY <1>4, <1>5, <1>6
  <1>8. SumFunctionOnSet(f, s \ {y}) = f[p] + SumFunctionOnSet(f, (s \ {p}) \ {y})
    <2>1. SumFunctionOnSet(f, s \ {y}) = f[p] + SumFunctionOnSet(f, (s \ {y}) \ {p})
      BY <1>4, <1>5, <1>6
    <2>2. (s \ {p}) \ {y} = (s \ {y}) \ {p}
      OBVIOUS
    <2> QED
      BY ONLY <2>1, <2>2
  <1>9. SumFunctionOnSet(f, (s \ {p}) \ {y}) \in Nat
    <2>1. IsFiniteSet((s \ {p}) \ {y})
      BY <1>3, FS_Subset
    <2> QED
      BY <2>1, SumType
  <1>10. f[p] \in Nat /\ f[y] \in Nat
    BY <1>4
  <1>11. \A a, b, c \in Nat : a + (b + c) = b + (a + c)
    OBVIOUS
  <1> QED
    BY ONLY <1>2, <1>7, <1>8, <1>9, <1>10, <1>11

\* A sum looks at the function on the set alone.
LEMMA SumsAgree ==
  ASSUME NEW f, NEW g, NEW S, IsFiniteSet(S), \A x \in S : f[x] = g[x]
  PROVE  SumFunctionOnSet(f, S) = SumFunctionOnSet(g, S)
  <1> DEFINE Bad == {s \in SUBSET S : SumFunctionOnSet(f, s) # SumFunctionOnSet(g, s)}
  <1> SUFFICES ASSUME Bad # {} PROVE FALSE
    OBVIOUS
  <1>1. PICK s \in Bad : \A x \in s : s \ {x} \notin Bad
    BY SmallestSet
  <1>2. s # {} /\ IsFiniteSet(s)
    <2>1. SumFunctionOnSet(f, {}) = SumFunctionOnSet(g, {})
      BY SumOfNothing
    <2> QED
      BY <1>1, <2>1, FS_Subset
  <1>3. /\ Pick(s) \in s
        /\ SumFunctionOnSet(f, s) = f[Pick(s)] + SumFunctionOnSet(f, s \ {Pick(s)})
        /\ SumFunctionOnSet(g, s) = g[Pick(s)] + SumFunctionOnSet(g, s \ {Pick(s)})
    BY <1>2, SumUnfolds
  <1> QED
    BY <1>1, <1>3

LEMMA SumOfZeros ==
  ASSUME NEW f, NEW S, IsFiniteSet(S), \A x \in S : f[x] = 0
  PROVE  SumFunctionOnSet(f, S) = 0
  <1> DEFINE F == {T \in SUBSET S : SumFunctionOnSet(f, T) = 0}
  <1>1. {} \in F
    BY SumOfNothing
  <1>2. ASSUME NEW T \in SUBSET S, NEW x \in S \ T, T \in F PROVE T \cup {x} \in F
    <2>1. IsFiniteSet(T \cup {x}) /\ T \cup {x} \in SUBSET S /\ (T \cup {x}) \ {x} = T
      BY FS_Subset
    <2>2. SumFunctionOnSet(f, T \cup {x}) = f[x] + SumFunctionOnSet(f, (T \cup {x}) \ {x})
      BY <2>1, SumWithout
    <2> QED
      BY <1>2, <2>1, <2>2
  <1> HIDE DEF F
  <1>3. S \in F
    BY <1>1, <1>2, SetInduction
  <1> QED
    BY <1>3 DEF F

LEMMA SumsCompare ==
  ASSUME NEW S, IsFiniteSet(S), NEW f, \A y \in S : f[y] \in Nat, NEW g, \A y \in S : g[y] \in Nat,
         \A y \in S : g[y] <= f[y]
  PROVE  SumFunctionOnSet(g, S) <= SumFunctionOnSet(f, S)
  <1> DEFINE F == {T \in SUBSET S : SumFunctionOnSet(g, T) <= SumFunctionOnSet(f, T)}
  <1>1. {} \in F
    <2>1. SumFunctionOnSet(g, {}) = 0 /\ SumFunctionOnSet(f, {}) = 0
      BY SumOfNothing
    <2> QED
      BY <2>1
  <1>2. ASSUME NEW T \in SUBSET S, NEW x \in S \ T, T \in F PROVE T \cup {x} \in F
    <2>1. IsFiniteSet(T) /\ IsFiniteSet(T \cup {x}) /\ (T \cup {x}) \ {x} = T
      BY FS_Subset
    <2>2. SumFunctionOnSet(f, T \cup {x}) = f[x] + SumFunctionOnSet(f, T)
      BY <2>1, SumWithout
    <2>3. SumFunctionOnSet(g, T \cup {x}) = g[x] + SumFunctionOnSet(g, T)
      BY <2>1, SumWithout
    <2>4. SumFunctionOnSet(f, T) \in Nat /\ SumFunctionOnSet(g, T) \in Nat
      BY <2>1, SumType
    <2>5. f[x] \in Nat /\ g[x] \in Nat /\ g[x] <= f[x]
      OBVIOUS
    <2> QED
      BY <1>2, <2>2, <2>3, <2>4, <2>5
  <1> HIDE DEF F
  <1>3. S \in F
    BY <1>1, <1>2, SetInduction
  <1> QED
    BY <1>3 DEF F

\* When a function changes in one point, its sum changes by as much.
LEMMA SumChanges ==
  ASSUME NEW S, IsFiniteSet(S), NEW f, \A y \in S : f[y] \in Nat, NEW g, \A y \in S : g[y] \in Nat,
         NEW x \in S, \A y \in S \ {x} : g[y] = f[y]
  PROVE  /\ SumFunctionOnSet(f, S) \in Nat /\ SumFunctionOnSet(g, S) \in Nat
         /\ SumFunctionOnSet(g, S) - g[x] = SumFunctionOnSet(f, S) - f[x]
         /\ f[x] <= SumFunctionOnSet(f, S) /\ g[x] <= SumFunctionOnSet(g, S)
  <1>1. IsFiniteSet(S \ {x})
    BY FS_Subset
  <1>2. SumFunctionOnSet(f, S \ {x}) = SumFunctionOnSet(g, S \ {x})
    BY <1>1, SumsAgree
  <1>3. SumFunctionOnSet(f, S \ {x}) \in Nat
    BY <1>1, SumType
  <1>4. SumFunctionOnSet(f, S) = f[x] + SumFunctionOnSet(f, S \ {x})
    BY SumWithout
  <1>5. SumFunctionOnSet(g, S) = g[x] + SumFunctionOnSet(g, S \ {x})
    BY SumWithout
  <1> QED
    BY <1>2, <1>3, <1>4, <1>5

---------------------------------------------------------------------------
(* Lists, by induction over their length.                                  *)

\* A set of lists that has the empty one, and with a list each longer by one, has
\* them all.
LEMMA ListInduction ==
  ASSUME NEW S, NEW F, <<>> \in F, \A s \in Seq(S), e \in S : s \in F => Append(s, e) \in F
  PROVE  Seq(S) \subseteq F
<1> DEFINE N == {n \in Nat : \A s \in Seq(S) : Len(s) = n => s \in F}
<1>1. 0 \in N
  <2>1. \A s \in Seq(S) : Len(s) = 0 => s = <<>>
    BY EmptySeq
  <2> QED BY <2>1
<1>2. ASSUME NEW n \in Nat, n \in N PROVE n + 1 \in N
  <2> SUFFICES ASSUME NEW s \in Seq(S), Len(s) = n + 1 PROVE s \in F
    OBVIOUS
  <2>1. s # <<>>
    OBVIOUS
  <2>2. PICK t \in Seq(S), e \in S : s = Append(t, e)
    BY <2>1, SequenceEmptyOrAppend
  <2>3. Len(t) = n
    BY <2>2, AppendProperties, LenProperties
  <2> QED BY <1>2, <2>2, <2>3
<1> HIDE DEF N
<1>3. Nat \subseteq N
  BY <1>1, <1>2, CountingUp
<1>4. \A s \in Seq(S) : Len(s) \in N
  BY <1>3
<1> QED BY <1>4 DEF N

LEMMA AppendJoins ==
  ASSUME NEW S, NEW s \in Seq(S), NEW t \in Seq(S), NEW e \in S
  PROVE  s \o Append(t, e) = Append(s \o t, e)
<1>1. <<e>> \in Seq(S) /\ s \o t \in Seq(S)
  BY ConcatProperties
<1>2. Append(t, e) = t \o <<e>> /\ Append(s \o t, e) = (s \o t) \o <<e>>
  BY <1>1, AppendIsConcat
<1> QED BY <1>1, <1>2, ConcatAssociative

---------------------------------------------------------------------------
(* Sets of numbers as lists, the smallest first.                           *)

\* s lists the n elements of S, the smallest first.
Sorts(s, n, S) ==
  /\ S \subseteq Nat /\ n \in Nat /\ s \in [1..n -> S]
  /\ \A x \in S : \E i \in 1..n : s[i] = x
  /\ \A i, j \in 1..n : i < j => s[i] < s[j]

LEMMA SortedIsSeq ==
  ASSUME NEW s, NEW n, NEW S, Sorts(s, n, S)
  PROVE  s \in Seq(Nat) /\ Len(s) = n /\ n \in Nat
<1>1. n \in Nat /\ s \in [1..n -> Nat]
  BY DEF Sorts
<1> QED BY <1>1

LEMMA SortedCounts ==
  ASSUME NEW s, NEW n, NEW S, Sorts(s, n, S)
  PROVE  IsFiniteSet(S) /\ Cardinality(S) = n
<1>1. n \in Nat /\ s \in [1..n -> S]
  BY DEF Sorts
<1>2. \A i, j \in 1..n : s[i] = s[j] => i = j
  <2> SUFFICES ASSUME NEW i \in 1..n, NEW j \in 1..n, s[i] = s[j] PROVE i = j
    OBVIOUS
  <2>1. s[i] \in Nat /\ (i < j => s[i] < s[j]) /\ (j < i => s[j] < s[i])
    BY <1>1 DEF Sorts
  <2> QED BY <1>1, <2>1
<1>3. s \in Bijection(1..n, S)
  <2>1. \A x \in S : \E i \in 1..n : s[i] = x
    BY DEF Sorts
  <2> QED BY <1>1, <1>2, <2>1 DEF Bijection, Injection, IsInjective, Surjection
<1>4. ExistsBijection(1..n, S)
  BY <1>3, Zenon DEF ExistsBijection
<1> QED BY <1>1, <1>4, FS_CountingElements, FS_NatBijection

LEMMA SortedIsUnique ==
  ASSUME NEW S, NEW s, NEW n, Sorts(s, n, S), NEW t, Sorts(t, n, S)
  PROVE  s = t
<1> DEFINE D == {i \in 1..n : s[i] # t[i]}
<1>1. n \in Nat /\ s \in [1..n -> S] /\ t \in [1..n -> S] /\ S \subseteq Nat
  BY DEF Sorts
<1>2. ASSUME D # {} PROVE FALSE
  <2>1. D \subseteq Nat
    BY <1>1
  <2>2. PICK i \in D : \A m \in D : i <= m
    BY <1>2, <2>1, Least
  <2>3. i \in 1..n /\ s[i] # t[i] /\ \A m \in 1..n : m < i => s[m] = t[m]
    BY <1>1, <2>2
  <2>4. PICK j \in 1..n : t[j] = s[i]
    BY <1>1, <2>3 DEF Sorts
  <2>5. PICK k \in 1..n : s[k] = t[i]
    BY <1>1, <2>3 DEF Sorts
  <2>6. i < j
    <3>1. ASSUME j < i PROVE FALSE
      <4>1. s[j] = t[j] /\ s[j] < s[i] /\ s[j] \in Nat /\ s[i] \in Nat
        BY <1>1, <2>3, <2>4, <3>1 DEF Sorts
      <4> QED BY <2>4, <4>1
    <3> QED BY <1>1, <2>3, <2>4, <3>1
  <2>7. i < k
    <3>1. ASSUME k < i PROVE FALSE
      <4>1. s[k] = t[k] /\ t[k] < t[i] /\ t[k] \in Nat /\ t[i] \in Nat
        BY <1>1, <2>3, <2>5, <3>1 DEF Sorts
      <4> QED BY <2>5, <4>1
    <3> QED BY <1>1, <2>3, <2>5, <3>1
  <2>8. t[i] < t[j] /\ s[i] < s[k] /\ s[i] \in Nat /\ t[i] \in Nat
    BY <1>1, <2>3, <2>6, <2>7 DEF Sorts
  <2> QED BY <2>4, <2>5, <2>8
<1>3. \A i \in 1..n : s[i] = t[i]
  BY <1>2
<1> QED BY <1>1, <1>3

LEMMA SortedJoins ==
  ASSUME NEW s, NEW n, NEW S, Sorts(s, n, S), NEW t, NEW m, NEW T, Sorts(t, m, T),
         \A x \in S, y \in T : x < y
  PROVE  Sorts(s \o t, n + m, S \cup T)
<1>1. n \in Nat /\ m \in Nat /\ S \cup T \subseteq Nat
  BY DEF Sorts
<1>2. s \in Seq(S \cup T) /\ t \in Seq(S \cup T) /\ Len(s) = n /\ Len(t) = m
  BY DEF Sorts
<1>3. /\ s \o t \in [1..(n + m) -> S \cup T]
      /\ \A i \in 1..(n + m) : (s \o t)[i] = IF i <= n THEN s[i] ELSE t[i - n]
  <2>1. /\ s \o t \in Seq(S \cup T) /\ Len(s \o t) = n + m
        /\ \A i \in 1..(n + m) : (s \o t)[i] = IF i <= n THEN s[i] ELSE t[i - n]
    BY <1>2, ConcatProperties
  <2>2. s \o t \in [1..Len(s \o t) -> S \cup T]
    BY <2>1, LenProperties
  <2> QED BY <2>1, <2>2
<1>4. ASSUME NEW x \in S \cup T PROVE \E i \in 1..(n + m) : (s \o t)[i] = x
  <2>1. CASE x \in S
    <3>1. PICK i \in 1..n : s[i] = x
      BY <2>1 DEF Sorts
    <3>2. i \in 1..(n + m) /\ i <= n
      BY <1>1
    <3> QED BY <1>3, <3>1, <3>2
  <2>2. CASE x \in T
    <3>1. PICK i \in 1..m : t[i] = x
      BY <2>2 DEF Sorts
    <3>2. n + i \in 1..(n + m) /\ ~(n + i <= n) /\ (n + i) - n = i
      BY <1>1
    <3> QED BY <1>3, <3>1, <3>2
  <2> QED BY <2>1, <2>2
<1>5. ASSUME NEW i \in 1..(n + m), NEW j \in 1..(n + m), i < j PROVE (s \o t)[i] < (s \o t)[j]
  <2>1. CASE j <= n
    <3>1. i \in 1..n /\ j \in 1..n /\ i <= n
      BY <1>1, <1>5, <2>1
    <3> QED BY <1>3, <1>5, <2>1, <3>1 DEF Sorts
  <2>2. CASE i <= n /\ ~(j <= n)
    <3>1. i \in 1..n /\ j - n \in 1..m
      BY <1>1, <1>5, <2>2
    <3>2. s[i] \in S /\ t[j - n] \in T
      BY <3>1 DEF Sorts
    <3> QED BY <1>3, <2>2, <3>2
  <2>3. CASE ~(i <= n)
    <3>1. i - n \in 1..m /\ j - n \in 1..m /\ i - n < j - n /\ ~(j <= n)
      BY <1>1, <1>5, <2>3
    <3> QED BY <1>3, <2>3, <3>1 DEF Sorts
  <2>4. i \in Nat /\ j \in Nat
    BY <1>1
  <2> QED BY <1>1, <1>5, <2>1, <2>2, <2>3, <2>4
<1>6. n + m \in Nat
  BY <1>1
<1> QED BY ONLY <1>1, <1>3, <1>4, <1>5, <1>6 DEF Sorts

LEMMA SortedOfNone == Sorts(<<>>, 0, {})
  BY DEF Sorts

LEMMA SortedOfOne == ASSUME NEW x \in Nat PROVE Sorts(<<x>>, 1, {x})
  BY DEF Sorts

LEMMA SortedExists ==
  ASSUME NEW S, S \subseteq Nat, IsFiniteSet(S)
  PROVE  \E s, n : Sorts(s, n, S)
<1> DEFINE Bad == {T \in SUBSET S : ~\E s, n : Sorts(s, n, T)}
<1> SUFFICES ASSUME Bad # {} PROVE FALSE
  OBVIOUS
<1>1. PICK T \in Bad : \A x \in T : T \ {x} \notin Bad
  BY SmallestSet
<1>2. T # {}
  BY SortedOfNone
<1>3. PICK y \in T : \A x \in T : x <= y
  BY <1>2, FS_Subset, Greatest
<1>4. PICK s, n : Sorts(s, n, T \ {y})
  BY <1>1, <1>3
<1>5. Sorts(<<y>>, 1, {y})
  BY SortedOfOne
<1>6. \A x \in T \ {y}, z \in {y} : x < z
  BY <1>3
<1>7. Sorts(s \o <<y>>, n + 1, (T \ {y}) \cup {y})
  BY <1>4, <1>5, <1>6, SortedJoins
<1>8. (T \ {y}) \cup {y} = T
  BY <1>3
<1> QED BY <1>7, <1>8

LEMMA SortedBefore ==
  ASSUME NEW s, NEW n, NEW S, Sorts(s, n, S), NEW k \in 1..n
  PROVE  Cardinality(Before(S, s[k])) = k - 1
<1> DEFINE t == [i \in 1..(k - 1) |-> s[i]]
<1>1. n \in Nat /\ s \in [1..n -> S] /\ S \subseteq Nat /\ k - 1 \in Nat
  BY DEF Sorts
<1>2. ASSUME NEW i \in 1..(k - 1) PROVE i \in 1..n /\ s[i] \in Before(S, s[k])
  BY <1>1 DEF Sorts, Before
<1>3. ASSUME NEW x \in Before(S, s[k]) PROVE \E i \in 1..(k - 1) : s[i] = x
  <2>1. PICK i \in 1..n : s[i] = x
    BY DEF Sorts, Before
  <2>2. s[i] < s[k] /\ s[i] \in Nat /\ s[k] \in Nat
    BY <1>1, <2>1 DEF Before
  <2>3. ~ k < i /\ i # k
    BY <2>2 DEF Sorts
  <2> QED BY <1>1, <2>1, <2>3
<1>4. Sorts(t, k - 1, Before(S, s[k]))
  <2>1. t \in [1..(k - 1) -> Before(S, s[k])] /\ Before(S, s[k]) \subseteq Nat
    BY <1>1, <1>2 DEF Before
  <2>2. \A i, j \in 1..(k - 1) : i < j => t[i] < t[j]
    BY <1>2 DEF Sorts
  <2> QED BY <1>1, <1>3, <2>1, <2>2 DEF Sorts
<1> QED BY <1>4, SortedCounts

LEMMA InOrderIs ==
  ASSUME NEW s, NEW n, NEW S, Sorts(s, n, S)
  PROVE  InOrder(S) = s
<1>1. n = Cardinality(S) /\ n \in Nat /\ s \in [1..n -> S]
  BY SortedCounts DEF Sorts
<1>2. ASSUME NEW k \in 1..n
      PROVE  (CHOOSE x \in S : Cardinality(Before(S, x)) = k - 1) = s[k]
  <2>1. s[k] \in S /\ Cardinality(Before(S, s[k])) = k - 1
    BY <1>1, SortedBefore
  <2>2. ASSUME NEW x \in S, Cardinality(Before(S, x)) = k - 1 PROVE x = s[k]
    <3>1. PICK j \in 1..n : s[j] = x
      BY DEF Sorts
    <3>2. Cardinality(Before(S, x)) = j - 1
      BY <3>1, SortedBefore
    <3> QED BY <1>1, <2>2, <3>1, <3>2
  <2> QED BY <2>1, <2>2
<1> QED BY <1>1, <1>2 DEF InOrder

==================================================================================
