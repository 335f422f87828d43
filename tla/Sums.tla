-------------------------------- MODULE Sums --------------------------------
(***************************************************************************)
(* Facts about sums over finite sets, MapThenSumSet of FiniteSetsExt.      *)
(* The folds are recursive functions over the subsets of a set; that the   *)
(* function exists, and what it returns, is shown here by the least number *)
(* principle, applied to sets of cardinalities.                            *)
(***************************************************************************)
EXTENDS Integers, FiniteSets, FiniteSetsExt, FiniteSetTheorems, WellFoundedInduction, TLAPS

\* A set of natural numbers that is not empty has a least one.
LEMMA LeastNumber ==
  ASSUME NEW T \in SUBSET Nat, T # {}
  PROVE  \E n \in T : \A m \in T : n <= m
<1> DEFINE R == {ss \in Nat \X Nat : ss[1] < ss[2]}
<1>1. R = OpToRel(<, Nat)
  BY Zenon DEF OpToRel
<1>2. IsWellFoundedOn(R, Nat)
  BY <1>1, NatLessThanWellFounded, Zenon
<1>3. \A m, n \in Nat : m < n => <<m, n>> \in R
  OBVIOUS
<1> HIDE DEF R
<1>4. PICK n \in T : \A m \in T : ~ (<<m, n>> \in R)
  BY <1>2, WFMin
<1>5. ASSUME NEW m \in T PROVE n <= m
  <2>1. m \in Nat /\ n \in Nat /\ ~ (<<m, n>> \in R)
    BY <1>4
  <2>2. ~ (m < n)
    BY <1>3, <2>1, Zenon
  <2> QED
    BY <2>1, <2>2
<1> QED
  BY <1>5

\* The element the folds take out of s first.
Some(s) == CHOOSE x \in s : TRUE

\* How g's sum over s is made from its sum over s without that element.
Adds(f, g, s) == g[s] = IF s = {} THEN 0 ELSE f[Some(s)] + g[s \ {Some(s)}]

GetsSmaller(S, s) ==
  /\ Cardinality(s) \in Nat
  /\ Cardinality(s) = 0 <=> s = {}
  /\ s # {} => /\ Some(s) \in s /\ s \ {Some(s)} \in SUBSET S
               /\ Cardinality(s \ {Some(s)}) = Cardinality(s) - 1

\* Taking an element out of a finite set makes it smaller.
LEMMA Smaller ==
  ASSUME NEW S, IsFiniteSet(S), NEW s \in SUBSET S
  PROVE  GetsSmaller(S, s)
<1>1. IsFiniteSet(s) /\ Cardinality(s) \in Nat /\ (Cardinality(s) = 0 <=> s = {})
  BY FS_Subset, FS_CardinalityType, FS_EmptySet
<1>2. s # {} => Some(s) \in s
  BY DEF Some
<1> QED
  BY <1>1, <1>2, FS_RemoveElement DEF GetsSmaller

\* The sums over the subsets of at most n elements exist.
LEMMA SumsUpTo ==
  ASSUME NEW S, IsFiniteSet(S), NEW f \in [S -> Nat], NEW n \in Nat
  PROVE  \E g \in [SUBSET S -> Nat] :
           \A s \in SUBSET S : Cardinality(s) <= n => Adds(f, g, s)
<1>0. \A s \in SUBSET S : GetsSmaller(S, s)
  BY Smaller
<1>5. ASSUME NEW s \in SUBSET S, Cardinality(s) <= 0 PROVE s = {}
  <2>1. Cardinality(s) \in Nat /\ (Cardinality(s) = 0 => s = {})
    BY <1>0, Zenon DEF GetsSmaller
  <2>2. Cardinality(s) = 0
    BY <1>5, <2>1
  <2> QED
    BY <2>1, <2>2
<1> DEFINE Good(k) == \E g \in [SUBSET S -> Nat] :
                        \A s \in SUBSET S : Cardinality(s) <= k => Adds(f, g, s)
           Bad == {k \in Nat : ~Good(k)}
<1>1. Good(0)
  <2> DEFINE g == [s \in SUBSET S |-> 0]
  <2>1. ASSUME NEW s \in SUBSET S, Cardinality(s) <= 0 PROVE Adds(f, g, s)
    <3>1. g[s] = 0
      OBVIOUS
    <3> HIDE DEF g
    <3> QED
      BY <2>1, <3>1, <1>5 DEF Adds
  <2> QED
    BY <2>1
<1>2. ASSUME NEW k \in Nat, Good(k) PROVE Good(k + 1)
  <2>1. PICK g \in [SUBSET S -> Nat] : \A s \in SUBSET S : Cardinality(s) <= k => Adds(f, g, s)
    BY <1>2
  <2> DEFINE h == [s \in SUBSET S |-> IF s = {} THEN 0 ELSE f[Some(s)] + g[s \ {Some(s)}]]
  <2>2. ASSUME NEW s \in SUBSET S, s # {} PROVE f[Some(s)] + g[s \ {Some(s)}] \in Nat
    <3>1. f[Some(s)] \in Nat /\ g[s \ {Some(s)}] \in Nat
      BY <2>2, <1>0 DEF GetsSmaller
    <3> QED
      BY <3>1
  <2>3. h \in [SUBSET S -> Nat]
    BY <2>2
  <2>4. \A s \in SUBSET S : Cardinality(s) <= k => h[s] = g[s]
    BY <2>1 DEF Adds
  <2>5. ASSUME NEW s \in SUBSET S, Cardinality(s) <= k + 1 PROVE Adds(f, h, s)
    <3>1. CASE s = {}
      BY <3>1 DEF Adds
    <3>2. CASE s # {}
      <4>1. s \ {Some(s)} \in SUBSET S /\ Cardinality(s \ {Some(s)}) <= k
        BY <2>5, <3>2, <1>0 DEF GetsSmaller
      <4>2. h[s \ {Some(s)}] = g[s \ {Some(s)}]
        BY <2>4, <4>1
      <4>3. h[s] = f[Some(s)] + g[s \ {Some(s)}]
        BY <3>2
      <4> QED
        BY <3>2, <4>2, <4>3 DEF Adds
    <3> QED
      BY <3>1, <3>2
  <2> HIDE DEF h
  <2> QED
    BY <2>3, <2>5
<1> HIDE DEF Good
<1>3. Bad = {}
  <2> SUFFICES ASSUME Bad # {} PROVE FALSE
    OBVIOUS
  <2>1. PICK k \in Bad : \A m \in Bad : k <= m
    BY LeastNumber
  <2>2. k # 0
    BY <1>1
  <2>3. k - 1 \in Nat /\ k - 1 \notin Bad
    BY <2>1, <2>2
  <2>4. Good((k - 1) + 1)
    BY <1>2, <2>3
  <2> QED
    BY <2>4
<1>4. Good(n)
  BY <1>3
<1> QED
  BY <1>4 DEF Good

\* A function that adds up f over every subset of S exists.
LEMMA SumsExist ==
  ASSUME NEW S, IsFiniteSet(S), NEW f \in [S -> Nat]
  PROVE  \E g \in [SUBSET S -> Nat] : \A s \in SUBSET S : Adds(f, g, s)
<1>1. Cardinality(S) \in Nat /\ \A s \in SUBSET S : Cardinality(s) <= Cardinality(S)
  BY FS_Subset, FS_CardinalityType
<1> QED
  BY <1>1, SumsUpTo

\* Every such function returns natural numbers, positive ones where f is.
LEMMA SumsAreNatural ==
  ASSUME NEW S, IsFiniteSet(S), NEW f \in [S -> Nat],
         NEW g, \A s \in SUBSET S : Adds(f, g, s)
  PROVE  \A s \in SUBSET S :
           g[s] \in Nat /\ (s # {} /\ (\A x \in S : f[x] > 0) => g[s] > 0)
<1> DEFINE Good(s) == g[s] \in Nat /\ (s # {} /\ (\A x \in S : f[x] > 0) => g[s] > 0)
           Bad == {k \in Nat : \E s \in SUBSET S : Cardinality(s) = k /\ ~Good(s)}
<1>0. \A s \in SUBSET S : GetsSmaller(S, s)
  BY Smaller
<1>1. ASSUME NEW s \in SUBSET S, s = {} \/ Good(s \ {Some(s)}) PROVE Good(s)
  <2>1. CASE s = {}
    <3>1. Adds(f, g, s)
      OBVIOUS
    <3>2. g[s] = 0
      BY <2>1, <3>1 DEF Adds
    <3> QED
      BY <2>1, <3>2
  <2>2. CASE s # {}
    <3>1. Some(s) \in S /\ g[s \ {Some(s)}] \in Nat
      BY <1>1, <2>2, <1>0 DEF GetsSmaller
    <3>2. g[s] = f[Some(s)] + g[s \ {Some(s)}]
      BY <2>2 DEF Adds
    <3>3. f[Some(s)] \in Nat
      BY <3>1
    <3> QED
      BY <3>1, <3>2, <3>3
  <2> QED
    BY <2>1, <2>2
<1> HIDE DEF Good
<1>2. Bad = {}
  <2> SUFFICES ASSUME Bad # {} PROVE FALSE
    OBVIOUS
  <2>1. PICK k \in Bad : \A m \in Bad : k <= m
    BY LeastNumber
  <2>2. PICK s \in SUBSET S : Cardinality(s) = k /\ ~Good(s)
    BY <2>1
  <2>3. s # {} /\ ~Good(s \ {Some(s)})
    BY <1>1, <2>2
  <2>4. s \ {Some(s)} \in SUBSET S /\ Cardinality(s \ {Some(s)}) = k - 1 /\ k \in Nat /\ k # 0
    BY <2>2, <2>3, <1>0 DEF GetsSmaller
  <2>5. k - 1 \in Bad
    BY <2>3, <2>4
  <2> QED
    BY <2>1, <2>4, <2>5
<1>3. \A s \in SUBSET S : Good(s)
  BY <1>2, <1>0 DEF GetsSmaller
<1> QED
  BY <1>3 DEF Good
-----------------------------------------------------------------------------
(***************************************************************************)
(* Sums of a function's values over a finite set, SumFunctionOnSet         *)
(***************************************************************************)

\* Induction over the subsets of a finite set, for a property given as the set
\* C of those that have it.
LEMMA SubsetInduction ==
  ASSUME NEW S, IsFiniteSet(S), NEW C, {} \in C,
         \A s \in SUBSET S : s # {} /\ (\A x \in s : s \ {x} \in C) => s \in C
  PROVE  \A s \in SUBSET S : s \in C
<1> DEFINE Bad == {k \in Nat : \E s \in SUBSET S : Cardinality(s) = k /\ s \notin C}
<1>0. \A s \in SUBSET S : GetsSmaller(S, s)
  BY Smaller
<1>1. Bad = {}
  <2> SUFFICES ASSUME Bad # {} PROVE FALSE
    OBVIOUS
  <2>1. PICK k \in Bad : \A m \in Bad : k <= m
    BY LeastNumber
  <2>2. PICK s \in SUBSET S : Cardinality(s) = k /\ s \notin C
    BY <2>1
  <2>3. PICK x \in s : s \ {x} \notin C
    BY <2>2
  <2>4. s \ {x} \in SUBSET S /\ Cardinality(s \ {x}) = k - 1 /\ k \in Nat /\ k # 0
    <3>1. IsFiniteSet(s) /\ s # {}
      BY FS_Subset
    <3>2. Cardinality(s) = k /\ k \in Nat
      BY <2>2
    <3> QED
      BY <1>0, <3>1, <3>2, FS_RemoveElement DEF GetsSmaller
  <2>5. k - 1 \in Bad
    BY <2>3, <2>4
  <2> QED
    BY <2>1, <2>4, <2>5
<1> QED
  BY <1>0, <1>1 DEF GetsSmaller


\* The sums of f over the subsets of S, a function as Adds describes it.
LEMMA SumIs ==
  ASSUME NEW S, IsFiniteSet(S), NEW f, \A x \in S : f[x] \in Nat
  PROVE  \E g \in [SUBSET S -> Nat] :
           /\ \A s \in SUBSET S : Adds(f, g, s)
           /\ SumFunctionOnSet(f, S) = g[S]
<1> DEFINE Sums(g) == g = [s \in SUBSET S |-> IF s = {} THEN 0 ELSE f[Some(s)] + g[s \ {Some(s)}]]
           h == CHOOSE g : Sums(g)
           e == [x \in S |-> f[x]]
<1>0. \A s \in SUBSET S : GetsSmaller(S, s)
  BY Smaller
<1>1. e \in [S -> Nat] /\ \A x \in S : e[x] = f[x]
  OBVIOUS
<1> HIDE DEF e
<1>2. PICK g \in [SUBSET S -> Nat] : \A s \in SUBSET S : Adds(e, g, s)
  BY <1>1, SumsExist
<1>3. \A s \in SUBSET S : Adds(f, g, s)
  BY <1>0, <1>1, <1>2 DEF Adds, GetsSmaller
<1>4. Sums(g)
  BY <1>3 DEF Adds
<1>5. Sums(h)
  BY <1>4
<1>6. SumFunctionOnSet(f, S) = h[S]
  BY DEF SumFunctionOnSet, FoldFunctionOnSet, MapThenFoldSet, Some
<1> HIDE DEF h
<1>7. \A s \in SUBSET S : Adds(f, h, s)
  BY <1>5 DEF Adds
<1>8. \A s \in SUBSET S : Adds(e, h, s)
  BY <1>0, <1>1, <1>7 DEF Adds, GetsSmaller
<1>9. \A s \in SUBSET S : h[s] \in Nat
  BY <1>1, <1>8, SumsAreNatural
<1>10. h \in [SUBSET S -> Nat]
  BY <1>5, <1>9
<1> QED
  BY <1>6, <1>7, <1>10

SumsUp(f, g, S) == \A s \in SUBSET S : Adds(f, g, s) /\ SumFunctionOnSet(f, s) = g[s]

\* One function over the subsets of S gives the sum of f over each of them.
LEMMA SumsTogether ==
  ASSUME NEW S, IsFiniteSet(S), NEW f, \A x \in S : f[x] \in Nat
  PROVE  \E g \in [SUBSET S -> Nat] : SumsUp(f, g, S)
<1>1. PICK g \in [SUBSET S -> Nat] : \A s \in SUBSET S : Adds(f, g, s)
  BY SumIs
<1>2. ASSUME NEW T \in SUBSET S PROVE SumFunctionOnSet(f, T) = g[T]
  <2>1. IsFiniteSet(T) /\ \A x \in T : f[x] \in Nat
    BY FS_Subset
  <2>2. PICK h \in [SUBSET T -> Nat] :
          (\A s \in SUBSET T : Adds(f, h, s)) /\ SumFunctionOnSet(f, T) = h[T]
    BY <2>1, SumIs
  <2> DEFINE C == {s \in SUBSET T : g[s] = h[s]}
  <2>3. {} \in C
    <3>1. Adds(f, g, {}) /\ Adds(f, h, {})
      BY <1>1, <2>2
    <3> QED
      BY <3>1 DEF Adds
  <2>4. ASSUME NEW s \in SUBSET T, s # {}, \A x \in s : s \ {x} \in C PROVE s \in C
    <3>1. Adds(f, g, s) /\ Adds(f, h, s)
      BY <1>1, <2>2
    <3>2. s \ {Some(s)} \in C
      BY <2>4 DEF Some
    <3> QED
      BY <2>4, <3>1, <3>2 DEF Adds
  <2> HIDE DEF C
  <2>5. \A s \in SUBSET T : s \in C
    BY <2>1, <2>3, <2>4, SubsetInduction
  <2> QED
    BY <2>2, <2>5 DEF C
<1>3. SumsUp(f, g, S)
  BY <1>1, <1>2 DEF SumsUp
<1> QED
  BY <1>3

LEMMA SumType ==
  ASSUME NEW S, IsFiniteSet(S), NEW f, \A x \in S : f[x] \in Nat
  PROVE  SumFunctionOnSet(f, S) \in Nat
<1>1. PICK g \in [SUBSET S -> Nat] : SumFunctionOnSet(f, S) = g[S]
  BY SumIs
<1>2. g[S] \in Nat
  OBVIOUS
<1> QED
  BY <1>1, <1>2

LEMMA SumOfNothing == ASSUME NEW f PROVE SumFunctionOnSet(f, {}) = 0
<1>1. PICK g : Adds(f, g, {}) /\ SumFunctionOnSet(f, {}) = g[{}]
  BY SumIs, FS_EmptySet
<1> QED
  BY <1>1 DEF Adds

\* An element adds its value, whichever the folds take out first.
LEMMA SumOfOneMore ==
  ASSUME NEW S, IsFiniteSet(S), NEW f, \A x \in S : f[x] \in Nat, NEW a \in S
  PROVE  SumFunctionOnSet(f, S) = SumFunctionOnSet(f, S \ {a}) + f[a]
<1>0. PICK g \in [SUBSET S -> Nat] : SumsUp(f, g, S)
  BY SumsTogether
<1>1. \A s \in SUBSET S : Adds(f, g, s) /\ SumFunctionOnSet(f, s) = g[s]
  BY <1>0 DEF SumsUp
<1> DEFINE C == {s \in SUBSET S : \A x \in s : g[s] = g[s \ {x}] + f[x]}
<1>2. {} \in C
  OBVIOUS
<1>3. ASSUME NEW s \in SUBSET S, s # {}, \A x \in s : s \ {x} \in C PROVE s \in C
  <2> SUFFICES ASSUME NEW x \in s PROVE g[s] = g[s \ {x}] + f[x]
    OBVIOUS
  <2> DEFINE y == Some(s)
             u == s \ {x}
             v == s \ {y}
  <2>1. y \in s /\ g[s] = f[y] + g[v]
    BY <1>1, <1>3 DEF Adds, Some
  <2>2. CASE x = y
    BY <2>1, <2>2
  <2>3. CASE x # y
    <3>1. x \in v /\ g[v] = g[v \ {x}] + f[x]
      BY <1>3, <2>1, <2>3
    <3>2. u \ {y} = v \ {x} /\ y \in u /\ g[u] = g[u \ {y}] + f[y]
      BY <1>3, <2>1, <2>3
    <3>3. f[x] \in Nat /\ f[y] \in Nat /\ g[v \ {x}] \in Nat
      BY <2>1
    <3>4. g[v \ {x}] = g[u \ {y}]
      BY <3>2
    <3> HIDE DEF u, v, y
    <3>5. g[s] = g[u] + f[x]
      BY <2>1, <3>1, <3>2, <3>3, <3>4
    <3> QED
      BY <3>5 DEF u
  <2> QED
    BY <2>2, <2>3
<1> HIDE DEF C
<1>4. S \in C
  BY <1>2, <1>3, SubsetInduction
<1> QED
  BY <1>1, <1>4 DEF C

\* Smaller values have a smaller sum, equal values the same.
LEMMA SumsCompare ==
  ASSUME NEW S, IsFiniteSet(S), NEW f, NEW g,
         \A x \in S : f[x] \in Nat /\ g[x] \in Nat /\ f[x] <= g[x]
  PROVE  SumFunctionOnSet(f, S) <= SumFunctionOnSet(g, S)
<1> DEFINE C == {s \in SUBSET S : SumFunctionOnSet(f, s) <= SumFunctionOnSet(g, s)}
<1>1. {} \in C
  BY SumOfNothing
<1>2. ASSUME NEW s \in SUBSET S, s # {}, \A x \in s : s \ {x} \in C PROVE s \in C
  <2>0. PICK a : a \in s
    BY <1>2
  <2>1. IsFiniteSet(s) /\ IsFiniteSet(s \ {a})
    BY FS_Subset
  <2>2. SumFunctionOnSet(f, s) = SumFunctionOnSet(f, s \ {a}) + f[a]
    BY <2>0, <2>1, SumOfOneMore
  <2>3. SumFunctionOnSet(g, s) = SumFunctionOnSet(g, s \ {a}) + g[a]
    BY <2>0, <2>1, SumOfOneMore
  <2>4. SumFunctionOnSet(f, s \ {a}) \in Nat /\ SumFunctionOnSet(g, s \ {a}) \in Nat
    BY <2>1, SumType
  <2>5. SumFunctionOnSet(f, s \ {a}) <= SumFunctionOnSet(g, s \ {a})
    BY <1>2, <2>0
  <2>6. f[a] \in Nat /\ g[a] \in Nat /\ f[a] <= g[a]
    BY <2>0
  <2> QED
    BY <2>2, <2>3, <2>4, <2>5, <2>6
<1> HIDE DEF C
<1>3. \A s \in SUBSET S : s # {} /\ (\A x \in s : s \ {x} \in C) => s \in C
  BY <1>2
<1>4. \A s \in SUBSET S : s \in C
  BY <1>1, <1>3, SubsetInduction
<1> QED
  BY <1>4 DEF C

LEMMA SameSum ==
  ASSUME NEW S, IsFiniteSet(S), NEW f, NEW g, \A x \in S : f[x] \in Nat /\ g[x] = f[x]
  PROVE  SumFunctionOnSet(g, S) = SumFunctionOnSet(f, S)
<1>1. SumFunctionOnSet(f, S) <= SumFunctionOnSet(g, S)
  BY SumsCompare
<1>2. SumFunctionOnSet(g, S) <= SumFunctionOnSet(f, S)
  BY SumsCompare
<1>3. SumFunctionOnSet(f, S) \in Nat /\ SumFunctionOnSet(g, S) \in Nat
  BY SumType
<1> QED
  BY <1>1, <1>2, <1>3

\* One value grows by n, no other grows: neither does the sum by more than n.
LEMMA SumGrowsByOne ==
  ASSUME NEW S, IsFiniteSet(S), NEW f, NEW g, NEW a \in S, NEW n \in Nat,
         \A x \in S : f[x] \in Nat /\ g[x] \in Nat,
         \A x \in S \ {a} : g[x] <= f[x], g[a] <= f[a] + n
  PROVE  SumFunctionOnSet(g, S) <= SumFunctionOnSet(f, S) + n
<1>1. IsFiniteSet(S \ {a})
  BY FS_Subset
<1>2. SumFunctionOnSet(f, S) = SumFunctionOnSet(f, S \ {a}) + f[a]
  BY SumOfOneMore
<1>3. SumFunctionOnSet(g, S) = SumFunctionOnSet(g, S \ {a}) + g[a]
  BY SumOfOneMore
<1>4. SumFunctionOnSet(g, S \ {a}) <= SumFunctionOnSet(f, S \ {a})
  BY <1>1, SumsCompare
<1>5. SumFunctionOnSet(f, S \ {a}) \in Nat /\ SumFunctionOnSet(g, S \ {a}) \in Nat
  BY <1>1, SumType
<1> QED
  BY <1>2, <1>3, <1>4, <1>5

\* One value falls by n, no other grows: so does the sum.
LEMMA SumFallsByOne ==
  ASSUME NEW S, IsFiniteSet(S), NEW f, NEW g, NEW a \in S, NEW n \in Nat,
         \A x \in S : f[x] \in Nat /\ g[x] \in Nat,
         \A x \in S \ {a} : g[x] <= f[x], g[a] + n <= f[a]
  PROVE  SumFunctionOnSet(g, S) + n <= SumFunctionOnSet(f, S)
<1>1. IsFiniteSet(S \ {a})
  BY FS_Subset
<1>2. SumFunctionOnSet(f, S) = SumFunctionOnSet(f, S \ {a}) + f[a]
  BY SumOfOneMore
<1>3. SumFunctionOnSet(g, S) = SumFunctionOnSet(g, S \ {a}) + g[a]
  BY SumOfOneMore
<1>4. SumFunctionOnSet(g, S \ {a}) <= SumFunctionOnSet(f, S \ {a})
  BY <1>1, SumsCompare
<1>5. SumFunctionOnSet(f, S \ {a}) \in Nat /\ SumFunctionOnSet(g, S \ {a}) \in Nat
  BY <1>1, SumType
<1> QED
  BY <1>2, <1>3, <1>4, <1>5

\* A sum over a subset is one over the whole set with zeros elsewhere.
LEMMA SumOverSubset ==
  ASSUME NEW S, IsFiniteSet(S), NEW f, \A x \in S : f[x] \in Nat, NEW A \in SUBSET S,
         NEW z, \A x \in S : z[x] = IF x \in A THEN f[x] ELSE 0
  PROVE  SumFunctionOnSet(f, A) = SumFunctionOnSet(z, S)
<1> DEFINE C == {s \in SUBSET S : SumFunctionOnSet(f, s \cap A) = SumFunctionOnSet(z, s)}
<1>1. {} \in C
  <2>1. {} \cap A = {}
    OBVIOUS
  <2> QED
    BY <2>1, SumOfNothing
<1>2. ASSUME NEW s \in SUBSET S, s # {}, \A x \in s : s \ {x} \in C PROVE s \in C
  <2>0. PICK a : a \in s
    BY <1>2
  <2>1. IsFiniteSet(s) /\ IsFiniteSet(s \cap A) /\ IsFiniteSet((s \ {a}) \cap A)
    BY FS_Subset
  <2>2. SumFunctionOnSet(z, s) = SumFunctionOnSet(z, s \ {a}) + z[a]
    BY <2>0, <2>1, SumOfOneMore
  <2>3. SumFunctionOnSet(f, (s \ {a}) \cap A) = SumFunctionOnSet(z, s \ {a})
    BY <1>2, <2>0
  <2>4. SumFunctionOnSet(f, (s \ {a}) \cap A) \in Nat
    BY <2>1, SumType
  <2>5. CASE a \in A
    <3>1. (s \cap A) \ {a} = (s \ {a}) \cap A /\ a \in s \cap A
      BY <2>0, <2>5
    <3>2. SumFunctionOnSet(f, s \cap A) = SumFunctionOnSet(f, (s \cap A) \ {a}) + f[a]
      BY <2>1, <3>1, SumOfOneMore
    <3>3. z[a] = f[a]
      BY <2>0, <2>5
    <3>4. SumFunctionOnSet(f, s \cap A) = SumFunctionOnSet(f, (s \ {a}) \cap A) + f[a]
      BY <3>1, <3>2
    <3> QED
      BY <2>2, <2>3, <3>3, <3>4
  <2>6. CASE a \notin A
    <3>1. s \cap A = (s \ {a}) \cap A /\ z[a] = 0
      BY <2>0, <2>6
    <3>2. SumFunctionOnSet(z, s) = SumFunctionOnSet(z, s \ {a})
      BY <2>2, <2>3, <2>4, <3>1
    <3> QED
      BY <2>3, <3>1, <3>2
  <2> QED
    BY <2>5, <2>6
<1> HIDE DEF C
<1>3. S \in C
  BY <1>1, <1>2, SubsetInduction
<1>4. S \cap A = A
  OBVIOUS
<1> QED
  BY <1>3, <1>4 DEF C
=============================================================================
