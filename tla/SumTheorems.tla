---------------------------- MODULE SumTheorems ----------------------------
(***************************************************************************)
(* Facts about SumFunctionOnSet, the sum of a function over a finite set,  *)
(* which adds the members up in the order CHOOSE takes them: that the      *)
(* recursion it is defined by has a solution, that the sum of integers is  *)
(* an integer (of naturals, a natural), and that the order does not matter. *)
(*                                                                         *)
(* Induction is by a least counterexample: the set of the cardinalities of *)
(* counterexamples has a least member unless it is empty.                  *)
(***************************************************************************)
EXTENDS Integers, Functions, FiniteSetTheorems, WellFoundedInduction, TLAPS

\* A set of natural numbers has a least member.
LEMMA LeastNumber ==
    ASSUME NEW S \in SUBSET Nat, S # {}
    PROVE  \E n \in S : \A m \in S : n <= m
<1>1. PICK n \in S : \A m \in S : ~ (<<m, n>> \in OpToRel(<, Nat))
  BY NatLessThanWellFounded, WFMin
<1>2. \A m \in S : ~ (m < n)
  BY <1>1 DEF OpToRel
<1> QED BY <1>2

\* Some set with property P, if there is one at all, has the fewest members
\* of those with it.  P is given by the set of the sets that have it.
LEMMA SmallestSet ==
    ASSUME NEW P, P # {}, \A s \in P : IsFiniteSet(s)
    PROVE  \E s \in P : \A t \in P : Cardinality(s) <= Cardinality(t)
<1> DEFINE Sizes == {Cardinality(s) : s \in P}
<1>1. Sizes \in SUBSET Nat /\ Sizes # {}
  BY FS_CardinalityType
<1>2. PICK n \in Sizes : \A m \in Sizes : n <= m
  BY <1>1, LeastNumber
<1> QED BY <1>2

\* Without one of its members, a finite set is finite and has one less.
LEMMA OneLess ==
    ASSUME NEW s, IsFiniteSet(s), NEW x \in s
    PROVE  /\ IsFiniteSet(s \ {x}) /\ Cardinality(s \ {x}) \in Nat
           /\ Cardinality(s) \in Nat /\ Cardinality(s \ {x}) < Cardinality(s)
<1>1. IsFiniteSet(s \ {x}) /\ Cardinality(s \ {x}) = Cardinality(s) - 1
  BY FS_RemoveElement
<1>2. Cardinality(s) \in Nat /\ Cardinality(s \ {x}) \in Nat
  BY <1>1, FS_CardinalityType
<1> QED BY <1>1, <1>2

-----------------------------------------------------------------------------
\* The member the sum takes next, and the recursion on the subsets of S.
First(s) == CHOOSE x \in s : TRUE
Adds(g, f, s) == g[s] = IF s = {} THEN 0 ELSE f[First(s)] + g[s \ {First(s)}]
AddsUp(g, f, S) == \A s \in SUBSET S : Adds(g, f, s)
SumsUp(g, f, S) == g = [s \in SUBSET S |-> IF s = {} THEN 0
                                           ELSE f[First(s)] + g[s \ {First(s)}]]

LEMMA SumIsChosen ==
    ASSUME NEW f, NEW S
    PROVE  SumFunctionOnSet(f, S) = (CHOOSE g : SumsUp(g, f, S))[S]
BY DEF SumFunctionOnSet, FoldFunctionOnSet, MapThenFoldSet, SumsUp, First

LEMMA FirstIsIn == ASSUME NEW s, s # {} PROVE First(s) \in s
BY DEF First

\* The subsets of S of at most n members.
SubsetsUpTo(S, n) == {s \in SUBSET S : Cardinality(s) <= n}

\* A function that adds up the sets of at most n members extends to those of
\* n + 1.
LEMMA SumExtends ==
    ASSUME NEW f, NEW S, IsFiniteSet(S), NEW n \in Nat, NEW g,
           \A s \in SubsetsUpTo(S, n) : Adds(g, f, s)
    PROVE  \E h : \A s \in SubsetsUpTo(S, n + 1) : Adds(h, f, s)
<1> DEFINE h == [s \in SUBSET S |-> IF s \in SubsetsUpTo(S, n) THEN g[s]
                                    ELSE f[First(s)] + g[s \ {First(s)}]]
<1>1. ASSUME NEW s \in SubsetsUpTo(S, n + 1), s # {}
      PROVE  First(s) \in s /\ s \ {First(s)} \in SubsetsUpTo(S, n)
  <2>1. First(s) \in s /\ IsFiniteSet(s)
    BY <1>1, FirstIsIn, FS_Subset DEF SubsetsUpTo
  <2>2. Cardinality(s \ {First(s)}) <= n
    BY <2>1, OneLess DEF SubsetsUpTo
  <2> QED BY <2>1, <2>2 DEF SubsetsUpTo
<1>2. {} \in SubsetsUpTo(S, n)
  BY FS_EmptySet DEF SubsetsUpTo
<1>3. ASSUME NEW s \in SubsetsUpTo(S, n + 1) PROVE Adds(h, f, s)
  <2>1. CASE s = {}
    BY <1>2, <2>1 DEF Adds, SubsetsUpTo
  <2>2. CASE s # {} /\ s \in SubsetsUpTo(S, n)
    BY <1>1, <2>2 DEF Adds, SubsetsUpTo
  <2>3. CASE s # {} /\ s \notin SubsetsUpTo(S, n)
    BY <1>1, <2>3 DEF Adds, SubsetsUpTo
  <2> QED BY <2>1, <2>2, <2>3
<1> QED BY <1>3

\* The recursion has a solution.
LEMMA SumExists ==
    ASSUME NEW f, NEW S, IsFiniteSet(S)
    PROVE  \E g : SumsUp(g, f, S)
<1> DEFINE Bad == {n \in Nat : ~ \E g : \A s \in SubsetsUpTo(S, n) : Adds(g, f, s)}
<1>1. 0 \notin Bad
  <2> DEFINE g == [s \in {{}} |-> 0]
  <2>1. \A s \in SubsetsUpTo(S, 0) : s = {}
    <3> SUFFICES ASSUME NEW s \in SubsetsUpTo(S, 0) PROVE s = {}
      OBVIOUS
    <3>1. IsFiniteSet(s) /\ Cardinality(s) <= 0
      BY FS_Subset DEF SubsetsUpTo
    <3> QED BY <3>1, FS_EmptySet, FS_CardinalityType
  <2>2. \A s \in SubsetsUpTo(S, 0) : Adds(g, f, s)
    BY <2>1 DEF Adds
  <2> HIDE DEF g
  <2> QED BY <2>2
<1>2. Bad = {}
  <2> SUFFICES ASSUME Bad # {} PROVE FALSE
    OBVIOUS
  <2>1. PICK n \in Bad : \A m \in Bad : n <= m
    BY LeastNumber
  <2>2. n - 1 \in Nat /\ n - 1 \notin Bad /\ n = (n - 1) + 1
    BY <1>1, <2>1
  <2>3. PICK g : \A s \in SubsetsUpTo(S, n - 1) : Adds(g, f, s)
    BY <2>2
  <2> DEFINE k == n - 1
  <2>4. \E h : \A s \in SubsetsUpTo(S, k + 1) : Adds(h, f, s)
    BY <2>2, <2>3, SumExtends
  <2> QED BY <2>1, <2>2, <2>4
<1>3. PICK g : \A s \in SubsetsUpTo(S, Cardinality(S)) : Adds(g, f, s)
  BY <1>2, FS_CardinalityType
<1>4. SubsetsUpTo(S, Cardinality(S)) = SUBSET S
  BY FS_Subset DEF SubsetsUpTo
<1> DEFINE h == [s \in SUBSET S |-> g[s]]
<1>5. SumsUp(h, f, S)
  <2>1. ASSUME NEW s \in SUBSET S, s # {} PROVE s \ {First(s)} \in SUBSET S
    OBVIOUS
  <2>2. \A s \in SUBSET S : h[s] = IF s = {} THEN 0 ELSE f[First(s)] + h[s \ {First(s)}]
    BY <1>3, <1>4, <2>1 DEF Adds
  <2> QED BY <2>2 DEF SumsUp
<1> QED BY <1>5

\* So the sum is the value of a function that adds up every subset.
LEMMA Summed ==
    ASSUME NEW f, NEW S, IsFiniteSet(S)
    PROVE  \E g : SumFunctionOnSet(f, S) = g[S] /\ AddsUp(g, f, S)
<1> DEFINE g == CHOOSE h : SumsUp(h, f, S)
<1>1. SumsUp(g, f, S)
  BY SumExists
<1>2. SumFunctionOnSet(f, S) = g[S]
  BY SumIsChosen
<1> HIDE DEF g
<1>3. AddsUp(g, f, S)
  BY <1>1 DEF SumsUp, AddsUp, Adds
<1> QED BY <1>2, <1>3

\* Two such functions agree where both add up the same values.
LEMMA SumsAgree ==
    ASSUME NEW f, NEW g, NEW S, IsFiniteSet(S), AddsUp(g, f, S),
           NEW e, NEW h, NEW T, AddsUp(h, e, T), S \subseteq T, \A x \in S : f[x] = e[x]
    PROVE  g[S] = h[S]
<1> DEFINE Bad == {s \in SUBSET S : g[s] # h[s]}
<1> SUFFICES ASSUME Bad # {} PROVE FALSE
  OBVIOUS
<1>1. PICK s \in Bad : \A t \in Bad : Cardinality(s) <= Cardinality(t)
  <2>1. \A t \in Bad : IsFiniteSet(t)
    BY FS_Subset
  <2> HIDE DEF Bad
  <2> QED BY <2>1, SmallestSet
<1>2. s \in SUBSET S /\ s \in SUBSET T /\ IsFiniteSet(s) /\ g[s] # h[s]
  BY FS_Subset
<1>3. Adds(g, f, s) /\ Adds(h, e, s)
  BY <1>2 DEF AddsUp
<1>4. s # {}
  BY <1>2, <1>3 DEF Adds
<1>5. First(s) \in s /\ f[First(s)] = e[First(s)]
  BY <1>2, <1>4, FirstIsIn
<1>6. s \ {First(s)} \in Bad
  BY <1>2, <1>3, <1>4, <1>5 DEF Adds
<1>7. ~(Cardinality(s) <= Cardinality(s \ {First(s)}))
  BY <1>2, <1>5, OneLess, SMTT(30)
<1> QED BY <1>1, <1>6, <1>7

-----------------------------------------------------------------------------
\* The sum over no member is 0, and that over some is the first one's value
\* and the sum over the others.
LEMMA SumOverNone == ASSUME NEW f PROVE SumFunctionOnSet(f, {}) = 0
BY Summed, FS_EmptySet DEF AddsUp, Adds

LEMMA SumFromFirst ==
    ASSUME NEW f, NEW S, IsFiniteSet(S), S # {}
    PROVE  SumFunctionOnSet(f, S) = f[First(S)] + SumFunctionOnSet(f, S \ {First(S)})
<1> DEFINE R == S \ {First(S)}
<1>1. IsFiniteSet(R)
  BY FS_RemoveElement
<1>2. PICK g : SumFunctionOnSet(f, S) = g[S] /\ AddsUp(g, f, S)
  BY Summed
<1>3. PICK h : SumFunctionOnSet(f, R) = h[R] /\ AddsUp(h, f, R)
  BY <1>1, Summed
<1>4. h[R] = g[R]
  <2>1. R \subseteq S
    OBVIOUS
  <2> HIDE DEF R
  <2> QED BY <1>1, <1>2, <1>3, <2>1, SumsAgree
<1>5. g[S] = f[First(S)] + g[R]
  BY <1>2 DEF AddsUp, Adds
<1> QED BY <1>2, <1>3, <1>4, <1>5

\* The sum depends on the values over the set only.
LEMMA SumOfSame ==
    ASSUME NEW f, NEW e, NEW S, IsFiniteSet(S), \A x \in S : f[x] = e[x]
    PROVE  SumFunctionOnSet(f, S) = SumFunctionOnSet(e, S)
<1>1. PICK g : SumFunctionOnSet(f, S) = g[S] /\ AddsUp(g, f, S)
  BY Summed
<1>2. PICK h : SumFunctionOnSet(e, S) = h[S] /\ AddsUp(h, e, S)
  BY Summed
<1> QED BY <1>1, <1>2, SumsAgree

\* Integers add up to an integer.
LEMMA SumIsInteger ==
    ASSUME NEW f, NEW S, IsFiniteSet(S), \A x \in S : f[x] \in Int
    PROVE  SumFunctionOnSet(f, S) \in Int
<1> DEFINE Bad == {s \in SUBSET S : SumFunctionOnSet(f, s) \notin Int}
<1> SUFFICES ASSUME Bad # {} PROVE FALSE
  OBVIOUS
<1>1. PICK s \in Bad : \A t \in Bad : Cardinality(s) <= Cardinality(t)
  <2>1. \A t \in Bad : IsFiniteSet(t)
    BY FS_Subset
  <2> HIDE DEF Bad
  <2> QED BY <2>1, SmallestSet
<1>2. s \in SUBSET S /\ IsFiniteSet(s) /\ s # {}
  <2>1. s \in SUBSET S /\ SumFunctionOnSet(f, s) \notin Int
    OBVIOUS
  <2>2. SumFunctionOnSet(f, {}) \in Int
    BY SumOverNone
  <2>3. s # {}
    BY <2>1, <2>2
  <2> HIDE DEF Bad
  <2> QED BY <2>1, <2>3, FS_Subset
<1>3. First(s) \in s /\ f[First(s)] \in Int
  BY <1>2, FirstIsIn
<1>4. SumFunctionOnSet(f, s) = f[First(s)] + SumFunctionOnSet(f, s \ {First(s)})
  BY <1>2, SumFromFirst
<1>5. s \ {First(s)} \in Bad
  BY <1>1, <1>2, <1>3, <1>4
<1>6. ~(Cardinality(s) <= Cardinality(s \ {First(s)}))
  BY <1>2, <1>3, OneLess
<1> QED BY <1>1, <1>5, <1>6

\* The sum of natural numbers is one.
LEMMA SumIsNatural ==
    ASSUME NEW f, NEW S, IsFiniteSet(S), \A x \in S : f[x] \in Nat
    PROVE  SumFunctionOnSet(f, S) \in Nat
<1> DEFINE Bad == {s \in SUBSET S : SumFunctionOnSet(f, s) \notin Nat}
<1> SUFFICES ASSUME Bad # {} PROVE FALSE
  OBVIOUS
<1>1. PICK s \in Bad : \A t \in Bad : Cardinality(s) <= Cardinality(t)
  <2>1. \A t \in Bad : IsFiniteSet(t)
    BY FS_Subset
  <2> HIDE DEF Bad
  <2> QED BY <2>1, SmallestSet
<1>2. s \in SUBSET S /\ IsFiniteSet(s) /\ s # {}
  <2>1. s \in SUBSET S /\ SumFunctionOnSet(f, s) \notin Nat
    OBVIOUS
  <2>2. SumFunctionOnSet(f, {}) \in Nat
    BY SumOverNone
  <2>3. s # {}
    BY <2>1, <2>2
  <2> HIDE DEF Bad
  <2> QED BY <2>1, <2>3, FS_Subset
<1>3. First(s) \in s /\ f[First(s)] \in Nat
  BY <1>2, FirstIsIn
<1>4. SumFunctionOnSet(f, s) = f[First(s)] + SumFunctionOnSet(f, s \ {First(s)})
  BY <1>2, SumFromFirst
<1>5. s \ {First(s)} \in Bad
  BY <1>1, <1>2, <1>3, <1>4
<1>6. ~(Cardinality(s) <= Cardinality(s \ {First(s)}))
  <2> HIDE DEF Bad
  <2>1. /\ Cardinality(s \ {First(s)}) \in Nat /\ Cardinality(s) \in Nat
        /\ Cardinality(s \ {First(s)}) < Cardinality(s)
    BY <1>2, <1>3, OneLess
  <2> QED BY <2>1
<1> QED BY <1>1, <1>5, <1>6

\* Any member may be taken first.
LEMMA SumFromAny ==
    ASSUME NEW f, NEW S, IsFiniteSet(S), \A x \in S : f[x] \in Int
    PROVE  \A x \in S : SumFunctionOnSet(f, S) = f[x] + SumFunctionOnSet(f, S \ {x})
<1> DEFINE Sum(s) == SumFunctionOnSet(f, s)
           Bad == {s \in SUBSET S : \E x \in s : Sum(s) # f[x] + Sum(s \ {x})}
<1> SUFFICES ASSUME Bad # {} PROVE FALSE
  OBVIOUS
<1>1. PICK s \in Bad : \A t \in Bad : Cardinality(s) <= Cardinality(t)
  <2>1. \A t \in Bad : IsFiniteSet(t)
    BY FS_Subset
  <2> HIDE DEF Bad
  <2> QED BY <2>1, SmallestSet
<1>2. PICK x \in s : Sum(s) # f[x] + Sum(s \ {x})
  OBVIOUS
<1> DEFINE y == First(s)
           rest == (s \ {x}) \ {y}
<1>3. s \in SUBSET S /\ IsFiniteSet(s) /\ y \in s /\ f[x] \in Int /\ f[y] \in Int
  BY FS_Subset, FirstIsIn
<1>4. Sum(s) = f[y] + Sum(s \ {y})
  BY <1>3, SumFromFirst
<1> HIDE DEF y
<1>5. x # y
  BY <1>2, <1>4
<1>6. ASSUME NEW z \in s
      PROVE  IsFiniteSet(s \ {z}) /\ \A v \in s \ {z} : Sum(s \ {z}) = f[v] + Sum((s \ {z}) \ {v})
  <2>1. IsFiniteSet(s \ {z}) /\ ~(Cardinality(s) <= Cardinality(s \ {z}))
    BY <1>3, OneLess
  <2>2. s \ {z} \notin Bad
    BY <1>1, <2>1
  <2> QED BY <1>3, <2>1, <2>2
<1>7. Sum(s \ {x}) = f[y] + Sum(rest)
  BY <1>3, <1>5, <1>6
<1>8. Sum(s \ {y}) = f[x] + Sum(rest)
  <2>1. (s \ {y}) \ {x} = rest
    OBVIOUS
  <2>2. Sum(s \ {y}) = f[x] + Sum((s \ {y}) \ {x})
    BY <1>3, <1>5, <1>6
  <2> QED BY <2>1, <2>2
<1>9. Sum(rest) \in Int
  <2>1. IsFiniteSet(rest) /\ \A v \in rest : f[v] \in Int
    BY <1>3, FS_Subset
  <2> HIDE DEF rest
  <2> QED BY <2>1, SumIsInteger
<1> HIDE DEF rest, Sum
<1> QED BY <1>2, <1>3, <1>4, <1>7, <1>8, <1>9

LEMMA SumWithOneMore ==
    ASSUME NEW f, NEW S, IsFiniteSet(S), NEW x, x \notin S, \A z \in S \cup {x} : f[z] \in Int
    PROVE  SumFunctionOnSet(f, S \cup {x}) = f[x] + SumFunctionOnSet(f, S)
<1>1. IsFiniteSet(S \cup {x}) /\ (S \cup {x}) \ {x} = S
  BY FS_AddElement
<1> QED BY <1>1, SumFromAny

\* Members whose value is 0 may be left out.
LEMMA SumOverSupport ==
    ASSUME NEW f, NEW S, IsFiniteSet(S), \A x \in S : f[x] \in Int,
           NEW R \in SUBSET S, \A x \in S \ R : f[x] = 0
    PROVE  SumFunctionOnSet(f, S) = SumFunctionOnSet(f, R)
<1> DEFINE Sum(s) == SumFunctionOnSet(f, s)
           Bad == {s \in SUBSET S : R \subseteq s /\ Sum(s) # Sum(R)}
<1> SUFFICES ASSUME Bad # {} PROVE FALSE
  OBVIOUS
<1>1. PICK s \in Bad : \A t \in Bad : Cardinality(s) <= Cardinality(t)
  <2>1. \A t \in Bad : IsFiniteSet(t)
    BY FS_Subset
  <2> HIDE DEF Bad
  <2> QED BY <2>1, SmallestSet
<1>2. PICK x \in s : x \notin R
  OBVIOUS
<1>3. /\ s \in SUBSET S /\ IsFiniteSet(s) /\ IsFiniteSet(s \ {x}) /\ f[x] = 0
      /\ \A z \in s : f[z] \in Int
      /\ ~(Cardinality(s) <= Cardinality(s \ {x}))
  <2>1. s \in SUBSET S /\ IsFiniteSet(s)
    BY FS_Subset
  <2> QED BY <1>2, <2>1, OneLess
<1>4. Sum(s) = f[x] + Sum(s \ {x})
  BY <1>3, SumFromAny
<1>5. Sum(s \ {x}) \in Int
  BY <1>3, SumIsInteger
<1>6. s \ {x} \in Bad
  BY <1>2, <1>3, <1>4, <1>5
<1> QED BY <1>1, <1>3, <1>6

\* The sum of sums.
LEMMA SumOfSums ==
    ASSUME NEW f, NEW e, NEW d, NEW S, IsFiniteSet(S),
           \A x \in S : f[x] \in Int /\ e[x] \in Int /\ d[x] = f[x] + e[x]
    PROVE  SumFunctionOnSet(d, S) = SumFunctionOnSet(f, S) + SumFunctionOnSet(e, S)
<1> DEFINE Differ(s) == SumFunctionOnSet(d, s) # SumFunctionOnSet(f, s) + SumFunctionOnSet(e, s)
           Bad == {s \in SUBSET S : Differ(s)}
<1> SUFFICES ASSUME Bad # {} PROVE FALSE
  OBVIOUS
<1>1. PICK s \in Bad : \A t \in Bad : Cardinality(s) <= Cardinality(t)
  <2>1. \A t \in Bad : IsFiniteSet(t)
    BY FS_Subset
  <2> HIDE DEF Bad
  <2> QED BY <2>1, SmallestSet
<1>2. s \in SUBSET S /\ IsFiniteSet(s)
  BY FS_Subset
<1>3. s # {}
  <2>1. ~Differ({})
    BY SumOverNone
  <2> HIDE DEF Differ
  <2> QED BY <2>1
<1> DEFINE x == First(s)
           R == s \ {x}
<1>4. x \in s /\ f[x] \in Int /\ e[x] \in Int /\ d[x] = f[x] + e[x]
  BY <1>2, <1>3, FirstIsIn
<1>5. /\ SumFunctionOnSet(f, s) = f[x] + SumFunctionOnSet(f, R)
      /\ SumFunctionOnSet(e, s) = e[x] + SumFunctionOnSet(e, R)
      /\ SumFunctionOnSet(d, s) = d[x] + SumFunctionOnSet(d, R)
  BY <1>2, <1>3, SumFromFirst
<1> HIDE DEF x
<1>6. IsFiniteSet(R) /\ ~(Cardinality(s) <= Cardinality(R))
  <2>1. /\ IsFiniteSet(R) /\ Cardinality(R) \in Nat
        /\ Cardinality(s) \in Nat /\ Cardinality(R) < Cardinality(s)
    BY <1>2, <1>4, OneLess
  <2> QED BY <2>1
<1>7. SumFunctionOnSet(f, R) \in Int /\ SumFunctionOnSet(e, R) \in Int
  BY <1>2, <1>6, SumIsInteger
<1>8. ~Differ(R)
  BY <1>1, <1>2, <1>6
<1>9. Differ(s)
  OBVIOUS
<1> HIDE DEF R
<1> QED BY <1>4, <1>5, <1>7, <1>8, <1>9
=============================================================================
