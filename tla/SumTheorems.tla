------------------------------ MODULE SumTheorems ------------------------------
(***************************************************************************)
(* Sums over finite sets, as the modules of the ledgers write them:        *)
(* MapThenSumSet(LAMBDA x : f[x], S) for a function f of integers.  The    *)
(* community module defines it by recursion over an element CHOOSEn; here  *)
(* are the laws that do not depend on which one that is.  The inductions   *)
(* are over a smallest counterexample, so that no theorem takes an         *)
(* operator.                                                               *)
(***************************************************************************)
EXTENDS Integers, FiniteSets, FiniteSetsExt, FiniteSetTheorems,
        WellFoundedInduction, TLAPS

Sum(f, S) == MapThenSumSet(LAMBDA x : f[x], S)

Least(S) == CHOOSE x \in S : TRUE

\* it is the recursion of the sum, on the sets in D.
Sums(f, D, it) ==
    it = [s \in D |-> IF s = {} THEN 0 ELSE f[Least(s)] + it[s \ {Least(s)}]]

-----------------------------------------------------------------------------
\* A set of naturals has a least element.
LEMMA LeastNatural ==
    ASSUME NEW T \in SUBSET Nat, T # {}
    PROVE  \E n \in T : \A m \in T : n <= m
<1> DEFINE R == OpToRel(<, Nat)
<1>1. R = {ss \in Nat \X Nat : ss[1] < ss[2]}
  BY Zenon DEF OpToRel
<1>2. IsWellFoundedOn(R, Nat)
  BY NatLessThanWellFounded, Zenon
<1> HIDE DEF R
<1>3. PICK n \in T : \A m \in T : <<m, n>> \notin R
  BY <1>2, WFMin
<1>4. ASSUME NEW m \in T PROVE n <= m
  <2>1. <<m, n>> \in Nat \X Nat /\ m \in Nat /\ n \in Nat
    OBVIOUS
  <2>2. ~ (m < n)
    BY <2>1, <1>1, <1>3
  <2>3. QED
    BY <2>1, <2>2
<1>5. QED
  BY <1>4

\* Of some finite sets, one has the fewest elements.
LEMMA SmallestSet ==
    ASSUME NEW F, F # {}, \A s \in F : IsFiniteSet(s)
    PROVE  \E s \in F : \A t \in F : Cardinality(s) <= Cardinality(t)
<1> DEFINE N == {Cardinality(s) : s \in F}
<1>1. N \in SUBSET Nat /\ N # {}
  BY FS_CardinalityType
<1>2. PICK n \in N : \A m \in N : n <= m
  <2> HIDE DEF N
  <2>1. QED
    BY <1>1, LeastNatural
<1>3. QED
  BY <1>2

\* What an induction over finite sets needs of one step.
LEMMA Smaller ==
    ASSUME NEW s, IsFiniteSet(s), NEW x \in s
    PROVE  /\ IsFiniteSet(s \ {x})
           /\ Cardinality(s \ {x}) \in Nat
           /\ Cardinality(s) \in Nat
           /\ Cardinality(s \ {x}) < Cardinality(s)
<1>1. IsFiniteSet(s \ {x}) /\ Cardinality(s \ {x}) = Cardinality(s) - 1
  BY FS_RemoveElement
<1>2. Cardinality(s) \in Nat /\ Cardinality(s \ {x}) \in Nat
  BY <1>1, FS_CardinalityType
<1>3. QED
  BY <1>1, <1>2

-----------------------------------------------------------------------------
\* The recursion has a solution on the subsets of a finite set.
LEMMA RecursionExists ==
    ASSUME NEW f, NEW S, IsFiniteSet(S)
    PROVE  \E it : Sums(f, SUBSET S, it)
<1> DEFINE Small(n) == {s \in SUBSET S : Cardinality(s) <= n}
           Bad == {n \in Nat : ~ \E it : Sums(f, Small(n), it)}
<1>0. \A s \in SUBSET S : IsFiniteSet(s) /\ Cardinality(s) \in Nat
  BY FS_Subset, FS_CardinalityType
<1>1. Bad = {}
  <2> SUFFICES ASSUME Bad # {} PROVE FALSE
    OBVIOUS
  <2>1. PICK n \in Bad : \A m \in Bad : n <= m
    <3>1. Bad \in SUBSET Nat
      OBVIOUS
    <3> HIDE DEF Bad
    <3>2. QED
      BY <3>1, LeastNatural
  <2>2. n \in Nat /\ ~ \E it : Sums(f, Small(n), it)
    BY <2>1
  <2>3. CASE n = 0
    <3>1. \A s \in Small(0) : s = {}
      BY <1>0, FS_EmptySet
    <3>2. Sums(f, Small(0), [s \in Small(0) |-> 0])
      BY <3>1 DEF Sums
    <3>3. QED
      BY <2>2, <2>3, <3>2
  <2>4. CASE n # 0
    <3>1. n - 1 \in Nat /\ n - 1 \notin Bad
      <4>1. n - 1 \in Nat /\ ~ (n <= n - 1)
        BY <2>2, <2>4
      <4> HIDE DEF Bad
      <4>2. QED
        BY <2>1, <4>1
    <3>2. PICK it : Sums(f, Small(n - 1), it)
      BY <3>1
    <3> DEFINE more == [s \in Small(n) |->
                   IF s = {} THEN 0 ELSE f[Least(s)] + it[s \ {Least(s)}]]
    <3>3. \A s \in Small(n) \ {{}} : s \ {Least(s)} \in Small(n - 1) /\ s \ {Least(s)} \in Small(n)
      <4> SUFFICES ASSUME NEW s \in Small(n), s # {}
                   PROVE  s \ {Least(s)} \in Small(n - 1) /\ s \ {Least(s)} \in Small(n)
        OBVIOUS
      <4>1. Least(s) \in s
        BY DEF Least
      <4>2. IsFiniteSet(s) /\ Cardinality(s) <= n
        BY <1>0
      <4>3. /\ Cardinality(s \ {Least(s)}) \in Nat
            /\ Cardinality(s) \in Nat
            /\ Cardinality(s \ {Least(s)}) < Cardinality(s)
        BY <4>1, <4>2, Smaller
      <4>4. QED
        BY <2>2, <4>2, <4>3
    <3>4. \A s \in Small(n - 1) : more[s] = it[s]
      <4>1. Small(n - 1) \subseteq Small(n)
        BY <1>0, <2>2
      <4>2. \A s \in Small(n - 1) :
               it[s] = IF s = {} THEN 0 ELSE f[Least(s)] + it[s \ {Least(s)}]
        BY <3>2 DEF Sums
      <4>3. QED
        BY <4>1, <4>2
    <3>5. more = [s \in Small(n) |->
                   IF s = {} THEN 0 ELSE f[Least(s)] + more[s \ {Least(s)}]]
      <4>1. \A s \in Small(n) : s # {} => it[s \ {Least(s)}] = more[s \ {Least(s)}]
        BY <3>3, <3>4
      <4> QED
        BY <4>1
    <3>6. Sums(f, Small(n), more)
      BY <3>5 DEF Sums
    <3>7. QED
      BY <2>2, <3>6
  <2>5. QED
    BY <2>3, <2>4
<1>2. Small(Cardinality(S)) = SUBSET S
  BY FS_Subset
<1>3. Cardinality(S) \in Nat
  BY FS_CardinalityType
<1>4. QED
  BY <1>1, <1>2, <1>3

\* So the sum is that solution.
LEMMA SumIsSolution ==
    ASSUME NEW f, NEW S, IsFiniteSet(S)
    PROVE  \E it : Sums(f, SUBSET S, it) /\ Sum(f, S) = it[S]
<1> DEFINE fold == CHOOSE it : it = [s \in SUBSET S |->
               IF s = {} THEN 0
               ELSE LET x == CHOOSE x \in s : TRUE IN f[x] + it[s \ {x}]]
<1>1. Sum(f, S) = fold[S]
  BY DEF Sum, MapThenSumSet, MapThenFoldSet
<1>2. fold = CHOOSE it : Sums(f, SUBSET S, it)
  BY DEF Sums, Least
<1>3. Sums(f, SUBSET S, fold)
  <2> HIDE DEF fold
  <2>1. QED
    BY <1>2, RecursionExists
<1>4. QED
  BY <1>1, <1>3

\* Two solutions agree where both are defined.
LEMMA SolutionsAgree ==
    ASSUME NEW f, NEW S, IsFiniteSet(S), NEW T, T \subseteq S,
           NEW it, NEW jt, Sums(f, SUBSET S, it), Sums(f, SUBSET T, jt)
    PROVE  it[T] = jt[T]
<1> DEFINE Bad == {s \in SUBSET T : it[s] # jt[s]}
<1>1. Bad = {}
  <2> SUFFICES ASSUME Bad # {} PROVE FALSE
    OBVIOUS
  <2>1. \A s \in Bad : IsFiniteSet(s)
    BY FS_Subset
  <2>2. PICK s \in Bad : \A t \in Bad : Cardinality(s) <= Cardinality(t)
    <3> HIDE DEF Bad
    <3>1. QED
      BY <2>1, SmallestSet
  <2>3. s \in SUBSET T /\ s \in SUBSET S /\ it[s] # jt[s] /\ IsFiniteSet(s)
    BY <2>1, <2>2
  <2>4. /\ it[s] = IF s = {} THEN 0 ELSE f[Least(s)] + it[s \ {Least(s)}]
        /\ jt[s] = IF s = {} THEN 0 ELSE f[Least(s)] + jt[s \ {Least(s)}]
    BY <2>3 DEF Sums
  <2>5. s # {} /\ Least(s) \in s
    BY <2>3, <2>4 DEF Least
  <2>6. s \ {Least(s)} \notin Bad
    <3>1. /\ Cardinality(s \ {Least(s)}) \in Nat /\ Cardinality(s) \in Nat
          /\ Cardinality(s \ {Least(s)}) < Cardinality(s)
      BY <2>3, <2>5, Smaller
    <3>2. ~ (Cardinality(s) <= Cardinality(s \ {Least(s)}))
      BY <3>1
    <3> HIDE DEF Bad
    <3>3. QED
      BY <2>2, <3>2
  <2>7. it[s \ {Least(s)}] = jt[s \ {Least(s)}]
    BY <2>3, <2>6
  <2>8. QED
    BY <2>3, <2>4, <2>5, <2>7
<1>2. QED
  BY <1>1

LEMMA SumEmpty == \A f : Sum(f, {}) = 0
<1> SUFFICES ASSUME NEW f PROVE Sum(f, {}) = 0
  OBVIOUS
<1>1. PICK it : Sums(f, SUBSET {}, it) /\ Sum(f, {}) = it[{}]
  BY FS_EmptySet, SumIsSolution
<1>2. it[{}] = 0
  BY <1>1 DEF Sums
<1>3. QED
  BY <1>1, <1>2

LEMMA SumRecursion ==
    ASSUME NEW f, NEW S, IsFiniteSet(S), S # {}
    PROVE  Sum(f, S) = f[Least(S)] + Sum(f, S \ {Least(S)})
<1>1. PICK T : T = S \ {Least(S)}
  OBVIOUS
<1>2. IsFiniteSet(T) /\ T \subseteq S
  BY <1>1, FS_Subset
<1>3. PICK it : Sums(f, SUBSET S, it) /\ Sum(f, S) = it[S]
  BY SumIsSolution
<1>4. PICK jt : Sums(f, SUBSET T, jt) /\ Sum(f, T) = jt[T]
  BY <1>2, SumIsSolution
<1>5. it[T] = jt[T]
  BY <1>2, <1>3, <1>4, SolutionsAgree
<1>6. it[S] = f[Least(S)] + it[T]
  BY <1>1, <1>3 DEF Sums
<1>7. QED
  BY <1>1, <1>3, <1>4, <1>5, <1>6

-----------------------------------------------------------------------------
\* A sum of integers is an integer, and one of naturals a natural.
LEMMA SumType ==
    ASSUME NEW Q, NEW R, R \in {Int, Nat}, NEW f \in [Q -> R],
           NEW S \in SUBSET Q, IsFiniteSet(S)
    PROVE  Sum(f, S) \in R
<1> DEFINE Bad == {s \in SUBSET S : Sum(f, s) \notin R}
<1>1. Bad = {}
  <2> SUFFICES ASSUME Bad # {} PROVE FALSE
    OBVIOUS
  <2>1. \A s \in Bad : IsFiniteSet(s)
    BY FS_Subset
  <2>2. PICK s \in Bad : \A t \in Bad : Cardinality(s) <= Cardinality(t)
    <3> HIDE DEF Bad
    <3>1. QED
      BY <2>1, SmallestSet
  <2>3. s \in SUBSET S /\ Sum(f, s) \notin R /\ IsFiniteSet(s)
    BY <2>1, <2>2
  <2>4. s # {} /\ Least(s) \in s
    BY <2>3, SumEmpty DEF Least
  <2>5. s \ {Least(s)} \notin Bad
    <3>1. /\ Cardinality(s \ {Least(s)}) \in Nat /\ Cardinality(s) \in Nat
          /\ Cardinality(s \ {Least(s)}) < Cardinality(s)
      BY <2>3, <2>4, Smaller
    <3>2. ~ (Cardinality(s) <= Cardinality(s \ {Least(s)}))
      BY <3>1
    <3> HIDE DEF Bad
    <3>3. QED
      BY <2>2, <3>2
  <2>6. Sum(f, s \ {Least(s)}) \in R /\ f[Least(s)] \in R
    BY <2>3, <2>4, <2>5
  <2>7. Sum(f, s) = f[Least(s)] + Sum(f, s \ {Least(s)})
    BY <2>3, <2>4, SumRecursion
  <2>8. QED
    BY <2>3, <2>6, <2>7
<1>2. QED
  BY <1>1

\* Where every value is zero the sum is zero.
THEOREM SumZero ==
    ASSUME NEW Q, NEW f \in [Q -> Int], NEW S \in SUBSET Q, IsFiniteSet(S),
           \A x \in S : f[x] = 0
    PROVE  Sum(f, S) = 0
<1> DEFINE Bad == {s \in SUBSET S : Sum(f, s) # 0}
<1>1. Bad = {}
  <2> SUFFICES ASSUME Bad # {} PROVE FALSE
    OBVIOUS
  <2>1. \A s \in Bad : IsFiniteSet(s)
    BY FS_Subset
  <2>2. PICK s \in Bad : \A t \in Bad : Cardinality(s) <= Cardinality(t)
    <3> HIDE DEF Bad
    <3>1. QED
      BY <2>1, SmallestSet
  <2>3. s \in SUBSET S /\ Sum(f, s) # 0 /\ IsFiniteSet(s)
    BY <2>1, <2>2
  <2>4. s # {} /\ Least(s) \in s
    BY <2>3, SumEmpty DEF Least
  <2>5. s \ {Least(s)} \notin Bad
    <3>1. /\ Cardinality(s \ {Least(s)}) \in Nat /\ Cardinality(s) \in Nat
          /\ Cardinality(s \ {Least(s)}) < Cardinality(s)
      BY <2>3, <2>4, Smaller
    <3>2. ~ (Cardinality(s) <= Cardinality(s \ {Least(s)}))
      BY <3>1
    <3> HIDE DEF Bad
    <3>3. QED
      BY <2>2, <3>2
  <2>6. Sum(f, s) = f[Least(s)] + Sum(f, s \ {Least(s)})
    BY <2>3, <2>4, SumRecursion
  <2>7. QED
    BY <2>3, <2>4, <2>5, <2>6
<1>2. QED
  BY <1>1

\* Any element may be the one that is taken out first.
THEOREM SumRemove ==
    ASSUME NEW Q, NEW f \in [Q -> Int], NEW S \in SUBSET Q, IsFiniteSet(S),
           NEW x \in S
    PROVE  Sum(f, S) = f[x] + Sum(f, S \ {x})
<1> DEFINE Holds(s) == \A y \in s : Sum(f, s) = f[y] + Sum(f, s \ {y})
           Bad == {s \in SUBSET S : ~Holds(s)}
<1>1. Bad = {}
  <2> SUFFICES ASSUME Bad # {} PROVE FALSE
    OBVIOUS
  <2>1. \A s \in Bad : IsFiniteSet(s)
    BY FS_Subset
  <2>2. PICK s \in Bad : \A t \in Bad : Cardinality(s) <= Cardinality(t)
    <3> HIDE DEF Bad
    <3>1. QED
      BY <2>1, SmallestSet
  <2>3. s \in SUBSET S /\ ~Holds(s) /\ IsFiniteSet(s)
    BY <2>1, <2>2
  <2>4. PICK y \in s : Sum(f, s) # f[y] + Sum(f, s \ {y})
    BY <2>3
  <2> DEFINE z == Least(s)
             u == (s \ {y}) \ {z}
  <2>5. z \in s
    BY <2>4 DEF Least
  <2>6. Sum(f, s) = f[z] + Sum(f, s \ {z})
    BY <2>3, <2>4, SumRecursion
  <2>7. y # z
    BY <2>4, <2>6
  <2>8. \A v \in s : Holds(s \ {v})
    <3> SUFFICES ASSUME NEW v \in s PROVE Holds(s \ {v})
      OBVIOUS
    <3>1. /\ Cardinality(s \ {v}) \in Nat /\ Cardinality(s) \in Nat
          /\ Cardinality(s \ {v}) < Cardinality(s)
      BY <2>3, Smaller
    <3>2. ~ (Cardinality(s) <= Cardinality(s \ {v}))
      BY <3>1
    <3>3. s \ {v} \notin Bad
      <4> HIDE DEF Bad
      <4>1. QED
        BY <2>2, <3>2
    <3>4. s \ {v} \in SUBSET S
      BY <2>3
    <3>5. QED
      BY <3>3, <3>4
  <2>9. u = (s \ {z}) \ {y}
    OBVIOUS
  <2>10. Sum(f, s \ {z}) = f[y] + Sum(f, u)
    <3> HIDE DEF u, z
    <3>1. QED
      BY <2>5, <2>7, <2>8, <2>9
  <2>11. Sum(f, s \ {y}) = f[z] + Sum(f, u)
    <3> HIDE DEF z
    <3>1. QED
      BY <2>5, <2>7, <2>8
  <2>12. f[y] \in Int /\ f[z] \in Int /\ Sum(f, u) \in Int
    <3>1. IsFiniteSet(u) /\ u \in SUBSET Q
      BY <2>3, FS_Subset
    <3>2. Sum(f, u) \in Int
      <4> HIDE DEF u
      <4>1. QED
        BY <3>1, SumType
    <3>3. QED
      BY <2>3, <2>4, <2>5, <3>2
  <2> HIDE DEF u, z
  <2>13. QED
    BY <2>4, <2>6, <2>10, <2>11, <2>12
<1>2. QED
  BY <1>1

\* A new element adds its value.
THEOREM SumAdd ==
    ASSUME NEW Q, NEW f \in [Q -> Int], NEW S \in SUBSET Q, IsFiniteSet(S),
           NEW x \in Q, x \notin S
    PROVE  Sum(f, S \cup {x}) = Sum(f, S) + f[x]
<1> DEFINE T == S \cup {x}
<1>1. T \in SUBSET Q /\ IsFiniteSet(T) /\ x \in T /\ T \ {x} = S
  BY FS_AddElement
<1>2. Sum(f, T) = f[x] + Sum(f, S)
  <2> HIDE DEF T
  <2>1. Sum(f, T) = f[x] + Sum(f, T \ {x})
    BY <1>1, SumRemove
  <2>2. QED
    BY <1>1, <2>1
<1>3. Sum(f, S) \in Int /\ f[x] \in Int
  BY SumType
<1>4. QED
  BY <1>2, <1>3

\* The sum over one part and the sum over the rest.
THEOREM SumSplit ==
    ASSUME NEW Q, NEW f \in [Q -> Int], NEW S \in SUBSET Q, IsFiniteSet(S),
           NEW C \in SUBSET S
    PROVE  Sum(f, S) = Sum(f, S \ C) + Sum(f, C)
<1> DEFINE Bad == {c \in SUBSET S : Sum(f, S) # Sum(f, S \ c) + Sum(f, c)}
<1>1. Bad = {}
  <2> SUFFICES ASSUME Bad # {} PROVE FALSE
    OBVIOUS
  <2>1. \A c \in Bad : IsFiniteSet(c)
    BY FS_Subset
  <2>2. PICK c \in Bad : \A t \in Bad : Cardinality(c) <= Cardinality(t)
    <3> HIDE DEF Bad
    <3>1. QED
      BY <2>1, SmallestSet
  <2>3. c \in SUBSET S /\ Sum(f, S) # Sum(f, S \ c) + Sum(f, c) /\ IsFiniteSet(c)
    BY <2>1, <2>2
  <2>4. Sum(f, S) \in Int
    BY SumType
  <2>5. CASE c = {}
    BY <2>3, <2>4, <2>5, SumEmpty
  <2>6. CASE c # {}
    <3>1. PICK x \in c : TRUE
      BY <2>6
    <3> DEFINE d == c \ {x}
    <3>2. d \in SUBSET S /\ IsFiniteSet(d) /\ IsFiniteSet(S \ c) /\ IsFiniteSet(S \ d)
      BY <2>3, FS_Subset
    <3>3. d \notin Bad
      <4>1. /\ Cardinality(d) \in Nat /\ Cardinality(c) \in Nat
            /\ Cardinality(d) < Cardinality(c)
        BY <2>3, <3>1, Smaller
      <4>2. ~ (Cardinality(c) <= Cardinality(d))
        BY <4>1
      <4> HIDE DEF Bad, d
      <4>3. QED
        BY <2>2, <4>2
    <3>4. Sum(f, S) = Sum(f, S \ d) + Sum(f, d)
      BY <3>2, <3>3
    <3>5. Sum(f, c) = f[x] + Sum(f, d)
      <4>1. c \in SUBSET Q
        BY <2>3
      <4>2. QED
        BY <2>3, <3>1, <4>1, SumRemove
    <3>6. Sum(f, S \ d) = f[x] + Sum(f, S \ c)
      <4>1. /\ S \ d \in SUBSET Q /\ x \in S \ d
            /\ (S \ d) \ {x} = S \ c
        BY <2>3, <3>1
      <4>2. Sum(f, S \ d) = f[x] + Sum(f, (S \ d) \ {x})
        <5> HIDE DEF d
        <5>1. QED
          BY <3>2, <4>1, SumRemove
      <4>3. QED
        BY <4>1, <4>2
    <3>7. Sum(f, S \ c) \in Int /\ Sum(f, d) \in Int /\ f[x] \in Int
      <4>1. S \ c \in SUBSET Q /\ d \in SUBSET Q /\ x \in Q
        BY <2>3, <3>1
      <4> HIDE DEF d
      <4>2. QED
        BY <3>2, <4>1, SumType
    <3> HIDE DEF d
    <3>8. QED
      BY <2>3, <3>4, <3>5, <3>6, <3>7
  <2>7. QED
    BY <2>5, <2>6
<1>2. QED
  BY <1>1

\* The sum depends on the values at the elements of the set only.
THEOREM SumSame ==
    ASSUME NEW Q, NEW f \in [Q -> Int], NEW g \in [Q -> Int],
           NEW S \in SUBSET Q, IsFiniteSet(S), \A x \in S : f[x] = g[x]
    PROVE  Sum(f, S) = Sum(g, S)
<1> DEFINE Bad == {s \in SUBSET S : Sum(f, s) # Sum(g, s)}
<1>1. Bad = {}
  <2> SUFFICES ASSUME Bad # {} PROVE FALSE
    OBVIOUS
  <2>1. \A s \in Bad : IsFiniteSet(s)
    BY FS_Subset
  <2>2. PICK s \in Bad : \A t \in Bad : Cardinality(s) <= Cardinality(t)
    <3> HIDE DEF Bad
    <3>1. QED
      BY <2>1, SmallestSet
  <2>3. s \in SUBSET S /\ Sum(f, s) # Sum(g, s) /\ IsFiniteSet(s)
    BY <2>1, <2>2
  <2>4. s # {}
    BY <2>3, SumEmpty
  <2>5. PICK x \in s : x \in S
    BY <2>3, <2>4
  <2>6. s \ {x} \notin Bad
    <3>1. /\ Cardinality(s \ {x}) \in Nat /\ Cardinality(s) \in Nat
          /\ Cardinality(s \ {x}) < Cardinality(s)
      BY <2>3, <2>5, Smaller
    <3>2. ~ (Cardinality(s) <= Cardinality(s \ {x}))
      BY <3>1
    <3> HIDE DEF Bad
    <3>3. QED
      BY <2>2, <3>2
  <2>7. Sum(f, s \ {x}) = Sum(g, s \ {x})
    BY <2>3, <2>6
  <2>8. Sum(f, s) = f[x] + Sum(f, s \ {x}) /\ Sum(g, s) = g[x] + Sum(g, s \ {x})
    <3>1. s \in SUBSET Q
      BY <2>3
    <3>2. QED
      BY <2>3, <2>5, <3>1, SumRemove
  <2>9. QED
    BY <2>3, <2>5, <2>7, <2>8
<1>2. QED
  BY <1>1

\* One value changes, and the sum changes by as much.
THEOREM SumUpdate ==
    ASSUME NEW Q, NEW f \in [Q -> Int], NEW g \in [Q -> Int],
           NEW S \in SUBSET Q, IsFiniteSet(S), NEW x \in S,
           \A y \in S \ {x} : f[y] = g[y]
    PROVE  Sum(g, S) = Sum(f, S) + (g[x] - f[x])
<1>1. S \ {x} \in SUBSET Q /\ IsFiniteSet(S \ {x}) /\ x \in Q
  BY FS_Subset
<1>2. PICK T \in SUBSET Q : T = S \ {x}
  BY <1>1
<1>3. Sum(f, T) = Sum(g, T)
  BY <1>1, <1>2, SumSame
<1>4. Sum(f, S) = f[x] + Sum(f, T) /\ Sum(g, S) = g[x] + Sum(g, T)
  BY <1>2, SumRemove
<1>5. Sum(f, T) \in Int /\ f[x] \in Int /\ g[x] \in Int
  BY <1>1, <1>2, SumType
<1>6. QED
  BY <1>3, <1>4, <1>5

\* Sums of naturals grow with the set.
THEOREM SumMonotone ==
    ASSUME NEW Q, NEW f \in [Q -> Nat], NEW S \in SUBSET Q, IsFiniteSet(S),
           NEW C \in SUBSET S
    PROVE  Sum(f, C) <= Sum(f, S)
<1>1. f \in [Q -> Int] /\ IsFiniteSet(C) /\ IsFiniteSet(S \ C) /\ C \in SUBSET Q /\ S \ C \in SUBSET Q
  BY FS_Subset
<1>2. Sum(f, S) = Sum(f, S \ C) + Sum(f, C)
  BY <1>1, SumSplit
<1>3. Sum(f, S \ C) \in Nat /\ Sum(f, C) \in Nat
  BY <1>1, SumType
<1>4. QED
  BY <1>2, <1>3

\* Nothing is counted less than once in the sums over two sets.
THEOREM SumUnion ==
    ASSUME NEW Q, NEW f \in [Q -> Nat], NEW S \in SUBSET Q, IsFiniteSet(S),
           NEW T \in SUBSET Q, IsFiniteSet(T)
    PROVE  Sum(f, S \cup T) <= Sum(f, S) + Sum(f, T)
<1> DEFINE U == S \cup T
<1>1. /\ f \in [Q -> Int] /\ U \in SUBSET Q /\ IsFiniteSet(U) /\ S \in SUBSET U
      /\ U \ S \in SUBSET T /\ IsFiniteSet(U \ S) /\ U \ S \in SUBSET Q
  <2>1. IsFiniteSet(U)
    BY FS_Union
  <2>2. U \ S \in SUBSET T
    OBVIOUS
  <2>3. IsFiniteSet(U \ S)
    BY <2>2, FS_Subset
  <2>4. QED
    BY <2>1, <2>2, <2>3
<1> HIDE DEF U
<1>2. Sum(f, U) = Sum(f, U \ S) + Sum(f, S)
  BY <1>1, SumSplit
<1>3. Sum(f, U \ S) <= Sum(f, T)
  BY <1>1, SumMonotone
<1>4. /\ Sum(f, U \ S) \in Nat /\ Sum(f, S) \in Nat /\ Sum(f, T) \in Nat
  BY <1>1, SumType
<1>5. QED
  BY <1>2, <1>3, <1>4 DEF U
================================================================================
