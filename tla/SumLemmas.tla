------------------------------ MODULE SumLemmas ------------------------------
(* SumFunction, the sum of the values of a function, over a finite set.     *)
(*                                                                          *)
(* The sum is a fold, defined by recursion over the subsets of the domain.  *)
(* Each proof by induction on a subset is made from its smallest            *)
(* counterexample: a set of naturals that is not empty has a least element. *)
EXTENDS Integers, Functions, FiniteSetTheorems, WellFoundedInduction, TLAPS

\* The fold takes the elements of a set in an order of its own.
Chosen(s) == CHOOSE x \in s : TRUE

\* The sum over s from the table g of the sums over smaller sets.
SumStep(f, s, g) == IF s = {} THEN 0 ELSE f[Chosen(s)] + g[s \ {Chosen(s)}]

\* g tables the sums of f over the subsets of S.
Tables(g, f, S) == g = [s \in SUBSET S |-> SumStep(f, s, g)]

\* A nonempty set of naturals has a least element.
LEMMA LeastNatural ==
    ASSUME NEW S \in SUBSET Nat, S # {}
    PROVE  \E m \in S : \A n \in S : m <= n
  <1> DEFINE R == OpToRel(<, Nat)
  <1>1. IsWellFoundedOn(R, Nat)
    BY NatLessThanWellFounded
  <1>2. PICK m \in S : \A n \in S : <<n, m>> \notin R
    BY <1>1, WFMin
  <1>3. \A n, k \in Nat : <<n, k>> \in R <=> n < k
    BY DEF OpToRel
  <1> HIDE DEF R
  <1>4. \A n \in S : ~(n < m)
    BY <1>2, <1>3
  <1>5. \A n \in S : m <= n
    BY <1>4
  <1>6. QED
    BY <1>5

\* A set that is not empty loses its chosen element, and gets smaller.
LEMMA Smaller ==
    ASSUME NEW s, IsFiniteSet(s), NEW x \in s
    PROVE  /\ IsFiniteSet(s \ {x})
           /\ Cardinality(s) \in Nat
           /\ Cardinality(s \ {x}) \in Nat
           /\ Cardinality(s \ {x}) = Cardinality(s) - 1
  BY FS_RemoveElement, FS_CardinalityType

LEMMA ChosenInSet == ASSUME NEW s, s # {} PROVE Chosen(s) \in s
  BY DEF Chosen

\* The recursive definition has a solution.
LEMMA TableExists ==
    ASSUME NEW f, NEW S, IsFiniteSet(S)
    PROVE  \E g : Tables(g, f, S)
  <1> DEFINE Upto(n) == {s \in SUBSET S : Cardinality(s) <= n}
             Good(n) == \E g : g = [s \in Upto(n) |-> SumStep(f, s, g)]
             Bad == {n \in Nat : ~Good(n)}
  <1>1. \A s \in SUBSET S : IsFiniteSet(s) /\ Cardinality(s) \in Nat /\ Cardinality(s) <= Cardinality(S)
    BY FS_Subset, FS_CardinalityType
  <1>2. Good(0)
    <2> DEFINE g == [s \in Upto(0) |-> 0]
    <2>1. \A s \in Upto(0) : s = {}
      BY <1>1, FS_EmptySet
    <2>2. g = [s \in Upto(0) |-> SumStep(f, s, g)]
      BY <2>1 DEF SumStep
    <2>3. QED
      BY <2>2
  <1>3. ASSUME NEW n \in Nat, Good(n)
        PROVE  Good(n + 1)
    <2>1. PICK g : g = [s \in Upto(n) |-> SumStep(f, s, g)]
      BY <1>3
    <2> DEFINE h == [s \in Upto(n + 1) |-> SumStep(f, s, g)]
    <2>2. \A s \in Upto(n) : s \in Upto(n + 1) /\ h[s] = g[s]
      BY <2>1, <1>1
    <2>3. ASSUME NEW s \in Upto(n + 1)
          PROVE  SumStep(f, s, g) = SumStep(f, s, h)
      <3>1. CASE s = {}
        BY <3>1 DEF SumStep
      <3>2. CASE s # {}
        <4>1. Chosen(s) \in s
          BY <3>2, ChosenInSet
        <4>2. Cardinality(s \ {Chosen(s)}) <= n
          BY <1>1, <4>1, Smaller
        <4>3. s \ {Chosen(s)} \in Upto(n)
          BY <4>2
        <4> HIDE DEF h, Upto
        <4>4. QED
          BY <2>2, <4>3 DEF SumStep
      <3>3. QED
        BY <3>1, <3>2
    <2>4. h = [s \in Upto(n + 1) |-> SumStep(f, s, h)]
      BY <2>3
    <2> HIDE DEF h
    <2>5. QED
      BY <2>4
  <1> HIDE DEF Good
  <1>4. Bad = {}
    <2>1. SUFFICES ASSUME Bad # {} PROVE FALSE
      OBVIOUS
    <2>2. PICK m \in Bad : \A n \in Bad : m <= n
      BY <2>1, LeastNatural
    <2>3. m # 0 /\ m - 1 \in Nat
      BY <1>2, <2>2
    <2>4. Good(m - 1)
      BY <2>2, <2>3
    <2>5. Good((m - 1) + 1)
      BY <1>3, <2>3, <2>4
    <2>6. QED
      BY <2>2, <2>5
  <1>5. Good(Cardinality(S))
    BY <1>1, <1>4
  <1>6. PICK g : g = [s \in Upto(Cardinality(S)) |-> SumStep(f, s, g)]
    BY <1>5 DEF Good
  <1>7. Upto(Cardinality(S)) = SUBSET S
    BY <1>1
  <1>8. g = [s \in SUBSET S |-> SumStep(f, s, g)]
    BY <1>6, <1>7
  <1>9. QED
    BY <1>8 DEF Tables

\* The sum is what such a table says of the whole set.
LEMMA SumIsTabled ==
    ASSUME NEW f, NEW S, IsFiniteSet(S)
    PROVE  \E g : Tables(g, f, S) /\ SumFunctionOnSet(f, S) = g[S]
  <1> DEFINE g == CHOOSE h : h = [s \in SUBSET S |-> SumStep(f, s, h)]
  <1>1. SumFunctionOnSet(f, S) = g[S]
    BY DEF SumFunctionOnSet, FoldFunctionOnSet, MapThenFoldSet, Chosen, SumStep
  <1>2. Tables(g, f, S)
    BY TableExists DEF Tables
  <1> HIDE DEF g
  <1>3. QED
    BY <1>1, <1>2

\* A subset, taken apart by its chosen element.
LEMMA TableStep ==
    ASSUME NEW f, NEW S, NEW g, Tables(g, f, S)
    PROVE  /\ g[{}] = 0
           /\ \A s \in SUBSET S : s # {} =>
                 /\ Chosen(s) \in s
                 /\ g[s] = f[Chosen(s)] + g[s \ {Chosen(s)}]
  BY ChosenInSet DEF Tables, SumStep

\* A nonempty family of subsets of a finite set has one that is smallest.
LEMMA SmallestSubset ==
    ASSUME NEW S, IsFiniteSet(S), NEW F \in SUBSET SUBSET S, F # {}
    PROVE  \E s \in F : \A t \in F : Cardinality(s) <= Cardinality(t)
  <1> DEFINE N == {Cardinality(s) : s \in F}
  <1>1. N \in SUBSET Nat /\ N # {}
    BY FS_Subset, FS_CardinalityType
  <1>2. PICK m \in N : \A n \in N : m <= n
    BY <1>1, LeastNatural
  <1>3. QED
    BY <1>2

\* Induction over the subsets of S for the family of those that are good.
LEMMA SubsetInduction ==
    ASSUME NEW S, IsFiniteSet(S), NEW G,
           \A s \in SUBSET S : (\A x \in s : s \ {x} \in G) => s \in G
    PROVE  \A s \in SUBSET S : s \in G
  <1> DEFINE F == {s \in SUBSET S : s \notin G}
  <1>1. SUFFICES ASSUME F # {} PROVE FALSE
    OBVIOUS
  <1>2. PICK s \in F : \A t \in F : Cardinality(s) <= Cardinality(t)
    BY <1>1, SmallestSubset
  <1>3. PICK x \in s : s \ {x} \notin G
    BY <1>2
  <1>4. s \ {x} \in F
    BY <1>3
  <1>5. Cardinality(s \ {x}) = Cardinality(s) - 1 /\ Cardinality(s) \in Nat
    BY <1>2, <1>3, FS_Subset, Smaller
  <1>6. QED
    BY <1>2, <1>4, <1>5

LEMMA TableAgree ==
    ASSUME NEW f, NEW S, NEW g, Tables(g, f, S),
           NEW d, NEW T, NEW h, Tables(h, d, T),
           NEW U, IsFiniteSet(U), U \subseteq S, U \subseteq T,
           \A x \in U : f[x] = d[x]
    PROVE  g[U] = h[U]
  <1> DEFINE G == {s \in SUBSET U : g[s] = h[s]}
  <1>1. ASSUME NEW s \in SUBSET U, \A x \in s : s \ {x} \in G
        PROVE  s \in G
    <2>1. CASE s = {}
      BY <2>1, TableStep
    <2>2. CASE s # {}
      <3>1. /\ Chosen(s) \in s
            /\ g[s] = f[Chosen(s)] + g[s \ {Chosen(s)}]
            /\ h[s] = d[Chosen(s)] + h[s \ {Chosen(s)}]
        BY <2>2, TableStep
      <3>2. g[s \ {Chosen(s)}] = h[s \ {Chosen(s)}] /\ f[Chosen(s)] = d[Chosen(s)]
        BY <1>1, <3>1
      <3>3. QED
        BY <3>1, <3>2
    <2>3. QED
      BY <2>1, <2>2
  <1> HIDE DEF G
  <1>2. \A s \in SUBSET U : s \in G
    BY <1>1, SubsetInduction
  <1>3. QED
    BY <1>2 DEF G

LEMMA TableType ==
    ASSUME NEW S, IsFiniteSet(S), NEW f, \A x \in S : f[x] \in Int,
           NEW g, Tables(g, f, S)
    PROVE  \A s \in SUBSET S : g[s] \in Int
  <1> DEFINE G == {s \in SUBSET S : g[s] \in Int}
  <1>1. ASSUME NEW s \in SUBSET S, \A x \in s : s \ {x} \in G
        PROVE  s \in G
    <2>1. CASE s = {}
      BY <2>1, TableStep
    <2>2. CASE s # {}
      <3>1. Chosen(s) \in s /\ g[s] = f[Chosen(s)] + g[s \ {Chosen(s)}]
        BY <2>2, TableStep
      <3>2. g[s \ {Chosen(s)}] \in Int /\ f[Chosen(s)] \in Int
        BY <1>1, <3>1
      <3>3. QED
        BY <3>1, <3>2
    <2>3. QED
      BY <2>1, <2>2
  <1> HIDE DEF G
  <1>2. \A s \in SUBSET S : s \in G
    BY <1>1, SubsetInduction
  <1>3. QED
    BY <1>2 DEF G

\* Any element may be taken out, not only the chosen one.
LEMMA TableTakeOut ==
    ASSUME NEW S, IsFiniteSet(S), NEW f, \A x \in S : f[x] \in Int,
           NEW g, Tables(g, f, S)
    PROVE  \A s \in SUBSET S : \A x \in s : g[s] = f[x] + g[s \ {x}]
  <1> DEFINE G == {s \in SUBSET S : \A x \in s : g[s] = f[x] + g[s \ {x}]}
  <1>1. ASSUME NEW s \in SUBSET S, \A x \in s : s \ {x} \in G
        PROVE  s \in G
    <2>1. SUFFICES ASSUME NEW x \in s PROVE g[s] = f[x] + g[s \ {x}]
      OBVIOUS
    <2>2. PICK a \in s : g[s] = f[a] + g[s \ {a}]
      <3>1. Chosen(s) \in s /\ g[s] = f[Chosen(s)] + g[s \ {Chosen(s)}]
        BY TableStep
      <3>2. QED
        BY <3>1
    <2>3. CASE a = x
      BY <2>2, <2>3
    <2>4. CASE a # x
      <3>1. /\ g[s \ {a}] = f[x] + g[(s \ {a}) \ {x}]
            /\ g[s \ {x}] = f[a] + g[(s \ {x}) \ {a}]
        BY <1>1, <2>2, <2>4
      <3>2. (s \ {a}) \ {x} = (s \ {x}) \ {a}
        OBVIOUS
      <3>3. g[(s \ {x}) \ {a}] \in Int /\ f[a] \in Int /\ f[x] \in Int
        BY TableType
      <3>4. g[s] = f[a] + (f[x] + g[(s \ {x}) \ {a}])
        BY <2>2, <3>1, <3>2
      <3>5. QED
        BY <3>1, <3>3, <3>4
    <2>5. QED
      BY <2>3, <2>4
  <1> HIDE DEF G
  <1>2. \A s \in SUBSET S : s \in G
    BY <1>1, SubsetInduction
  <1>3. QED
    BY <1>2 DEF G

-----------------------------------------------------------------------------
(* The sum of a function over a set *)

LEMMA SumTakeOut ==
    ASSUME NEW S, IsFiniteSet(S), NEW f, \A x \in S : f[x] \in Int, NEW x \in S
    PROVE  /\ SumFunctionOnSet(f, S) = f[x] + SumFunctionOnSet(f, S \ {x})
           /\ SumFunctionOnSet(f, S \ {x}) \in Int
           /\ f[x] \in Int
  <1>1. PICK g : Tables(g, f, S) /\ SumFunctionOnSet(f, S) = g[S]
    BY SumIsTabled
  <1>2. IsFiniteSet(S \ {x}) /\ S \ {x} \subseteq S
    BY FS_RemoveElement
  <1>3. PICK h : Tables(h, f, S \ {x}) /\ SumFunctionOnSet(f, S \ {x}) = h[S \ {x}]
    BY <1>2, SumIsTabled
  <1>4. g[S \ {x}] = h[S \ {x}]
    BY <1>1, <1>2, <1>3, TableAgree
  <1>5. \A s \in SUBSET S : g[s] \in Int /\ \A y \in s : g[s] = f[y] + g[s \ {y}]
    BY <1>1, TableTakeOut, TableType
  <1>6. g[S] = f[x] + g[S \ {x}] /\ g[S \ {x}] \in Int
    BY <1>2, <1>5
  <1>7. QED
    BY <1>1, <1>3, <1>4, <1>6

LEMMA SumOfNothing == ASSUME NEW f PROVE SumFunctionOnSet(f, {}) = 0
  <1>1. IsFiniteSet({})
    BY FS_EmptySet
  <1>2. PICK g : Tables(g, f, {}) /\ SumFunctionOnSet(f, {}) = g[{}]
    BY <1>1, SumIsTabled
  <1>3. QED
    BY <1>2, TableStep

LEMMA SumAgree ==
    ASSUME NEW S, IsFiniteSet(S), NEW f, NEW d, \A x \in S : f[x] = d[x]
    PROVE  SumFunctionOnSet(f, S) = SumFunctionOnSet(d, S)
  <1>1. PICK g : Tables(g, f, S) /\ SumFunctionOnSet(f, S) = g[S]
    BY SumIsTabled
  <1>2. PICK h : Tables(h, d, S) /\ SumFunctionOnSet(d, S) = h[S]
    BY SumIsTabled
  <1>3. g[S] = h[S]
    BY <1>1, <1>2, TableAgree
  <1>4. QED
    BY <1>1, <1>2, <1>3

LEMMA SumType ==
    ASSUME NEW S, IsFiniteSet(S), NEW f, \A x \in S : f[x] \in Int
    PROVE  SumFunctionOnSet(f, S) \in Int
  <1>1. PICK g : Tables(g, f, S) /\ SumFunctionOnSet(f, S) = g[S]
    BY SumIsTabled
  <1>2. QED
    BY <1>1, TableType

\* Two functions that differ at x only have sums that differ as they do at x.
LEMMA SumChange ==
    ASSUME NEW S, IsFiniteSet(S), NEW x \in S,
           NEW f, \A y \in S : f[y] \in Int,
           NEW d, \A y \in S : d[y] \in Int,
           \A y \in S \ {x} : f[y] = d[y]
    PROVE  SumFunctionOnSet(d, S) - SumFunctionOnSet(f, S) = d[x] - f[x]
  <1>1. SumFunctionOnSet(f, S) = f[x] + SumFunctionOnSet(f, S \ {x})
    BY SumTakeOut
  <1>2. SumFunctionOnSet(d, S) = d[x] + SumFunctionOnSet(d, S \ {x})
    BY SumTakeOut
  <1>3. SumFunctionOnSet(f, S \ {x}) = SumFunctionOnSet(d, S \ {x})
    <2>1. IsFiniteSet(S \ {x})
      BY FS_RemoveElement
    <2>2. QED
      BY <2>1, SumAgree
  <1>4. SumFunctionOnSet(f, S \ {x}) \in Int /\ f[x] \in Int /\ d[x] \in Int
    BY SumTakeOut
  <1>5. QED
    BY <1>1, <1>2, <1>3, <1>4

-----------------------------------------------------------------------------
(* The sum of a function, as the modules of the model write it *)

LEMMA SumFunctionType ==
    ASSUME NEW S, IsFiniteSet(S), NEW f \in [S -> Int]
    PROVE  SumFunction(f) \in Int
  BY SumType DEF SumFunction

\* A function that is changed in one place.
LEMMA SumFunctionChange ==
    ASSUME NEW S, IsFiniteSet(S), NEW x \in S, NEW f \in [S -> Int], NEW d \in [S -> Int],
           \A y \in S \ {x} : d[y] = f[y]
    PROVE  SumFunction(d) = SumFunction(f) + d[x] - f[x]
  <1>1. SumFunctionOnSet(d, S) - SumFunctionOnSet(f, S) = d[x] - f[x]
    BY SumChange
  <1>2. SumFunctionOnSet(d, S) \in Int /\ SumFunctionOnSet(f, S) \in Int
    BY SumType
  <1>3. SumFunction(d) = SumFunctionOnSet(d, S) /\ SumFunction(f) = SumFunctionOnSet(f, S)
    BY DEF SumFunction
  <1>4. QED
    BY <1>1, <1>2, <1>3

\* A function that is zero everywhere.
LEMMA SumOfZeros ==
    ASSUME NEW S, IsFiniteSet(S), NEW f, DOMAIN f = S, \A x \in S : f[x] = 0
    PROVE  SumFunction(f) = 0
  <1>1. PICK g : Tables(g, f, S) /\ SumFunctionOnSet(f, S) = g[S]
    BY SumIsTabled
  <1> DEFINE G == {s \in SUBSET S : g[s] = 0}
  <1>2. ASSUME NEW s \in SUBSET S, \A x \in s : s \ {x} \in G
        PROVE  s \in G
    <2>1. CASE s = {}
      BY <1>1, <2>1, TableStep
    <2>2. CASE s # {}
      <3>1. Chosen(s) \in s /\ g[s] = f[Chosen(s)] + g[s \ {Chosen(s)}]
        BY <1>1, <2>2, TableStep
      <3>2. g[s \ {Chosen(s)}] = 0 /\ f[Chosen(s)] = 0
        BY <1>2, <3>1
      <3>3. QED
        BY <3>1, <3>2
    <2>3. QED
      BY <2>1, <2>2
  <1> HIDE DEF G
  <1>3. \A s \in SUBSET S : s \in G
    BY <1>2, SubsetInduction
  <1>4. SumFunction(f) = SumFunctionOnSet(f, S)
    BY DEF SumFunction
  <1>5. QED
    BY <1>1, <1>3, <1>4 DEF G

\* A function that is zero everywhere but at x.
LEMMA SumOfOne ==
    ASSUME NEW S, IsFiniteSet(S), NEW x \in S, NEW f \in [S -> Int], \A y \in S \ {x} : f[y] = 0
    PROVE  SumFunction(f) = f[x]
  <1>1. PICK z \in [S -> Int] : \A y \in S : z[y] = 0
    <2>1. [y \in S |-> 0] \in [S -> Int]
      OBVIOUS
    <2>2. QED
      BY <2>1
  <1>2. SumFunction(z) = 0
    BY <1>1, SumOfZeros
  <1>3. SumFunction(f) = SumFunction(z) + f[x] - z[x]
    BY <1>1, SumFunctionChange
  <1>4. QED
    BY <1>1, <1>2, <1>3

\* One argument taken out of the domain.
LEMMA SumFunctionTakeOut ==
    ASSUME NEW S, IsFiniteSet(S), NEW x \in S, NEW f \in [S -> Int], NEW g \in [S \ {x} -> Int],
           \A y \in S \ {x} : g[y] = f[y]
    PROVE  SumFunction(f) = f[x] + SumFunction(g)
  <1>1. SumFunctionOnSet(f, S) = f[x] + SumFunctionOnSet(f, S \ {x})
    BY SumTakeOut
  <1>2. IsFiniteSet(S \ {x})
    BY FS_RemoveElement
  <1>3. SumFunctionOnSet(f, S \ {x}) = SumFunctionOnSet(g, S \ {x})
    BY <1>2, SumAgree
  <1>4. SumFunction(f) = SumFunctionOnSet(f, S) /\ SumFunction(g) = SumFunctionOnSet(g, S \ {x})
    BY DEF SumFunction
  <1>5. QED
    BY <1>1, <1>3, <1>4

\* A sum of sums.
LEMMA SumOfSums ==
    ASSUME NEW S, IsFiniteSet(S), NEW f \in [S -> Int], NEW g \in [S -> Int], NEW h \in [S -> Int],
           \A x \in S : h[x] = f[x] + g[x]
    PROVE  SumFunction(h) = SumFunction(f) + SumFunction(g)
  <1> DEFINE G == {s \in SUBSET S :
                     SumFunctionOnSet(h, s) = SumFunctionOnSet(f, s) + SumFunctionOnSet(g, s)}
  <1>1. ASSUME NEW s \in SUBSET S, \A x \in s : s \ {x} \in G
        PROVE  s \in G
    <2>1. CASE s = {}
      BY <2>1, SumOfNothing
    <2>2. CASE s # {}
      <3>1. PICK x \in s : TRUE
        BY <2>2
      <3>2. IsFiniteSet(s)
        BY FS_Subset
      <3>3. /\ SumFunctionOnSet(h, s) = h[x] + SumFunctionOnSet(h, s \ {x})
            /\ SumFunctionOnSet(f, s) = f[x] + SumFunctionOnSet(f, s \ {x})
            /\ SumFunctionOnSet(g, s) = g[x] + SumFunctionOnSet(g, s \ {x})
            /\ SumFunctionOnSet(f, s \ {x}) \in Int /\ SumFunctionOnSet(g, s \ {x}) \in Int
        BY <3>2, SumTakeOut
      <3>4. SumFunctionOnSet(h, s \ {x}) = SumFunctionOnSet(f, s \ {x}) + SumFunctionOnSet(g, s \ {x})
        BY <1>1
      <3>5. h[x] = f[x] + g[x] /\ f[x] \in Int /\ g[x] \in Int
        OBVIOUS
      <3>6. SumFunctionOnSet(h, s) = SumFunctionOnSet(f, s) + SumFunctionOnSet(g, s)
        BY <3>3, <3>4, <3>5
      <3>7. QED
        BY <3>6
    <2>3. QED
      BY <2>1, <2>2
  <1> HIDE DEF G
  <1>2. \A s \in SUBSET S : s \in G
    BY <1>1, SubsetInduction
  <1>3. /\ SumFunction(h) = SumFunctionOnSet(h, S)
        /\ SumFunction(f) = SumFunctionOnSet(f, S)
        /\ SumFunction(g) = SumFunctionOnSet(g, S)
    BY DEF SumFunction
  <1>4. QED
    BY <1>2, <1>3 DEF G

\* A sum of naturals.
LEMMA SumOfNaturals ==
    ASSUME NEW S, IsFiniteSet(S), NEW f \in [S -> Nat]
    PROVE  SumFunction(f) \in Nat
  <1> DEFINE G == {s \in SUBSET S : SumFunctionOnSet(f, s) \in Nat}
  <1>1. ASSUME NEW s \in SUBSET S, \A x \in s : s \ {x} \in G
        PROVE  s \in G
    <2>1. CASE s = {}
      BY <2>1, SumOfNothing
    <2>2. CASE s # {}
      <3>1. PICK x \in s : TRUE
        BY <2>2
      <3>2. IsFiniteSet(s)
        BY FS_Subset
      <3>3. SumFunctionOnSet(f, s) = f[x] + SumFunctionOnSet(f, s \ {x})
        BY <3>2, SumTakeOut
      <3>4. SumFunctionOnSet(f, s \ {x}) \in Nat /\ f[x] \in Nat
        BY <1>1
      <3>5. QED
        BY <3>3, <3>4
    <2>3. QED
      BY <2>1, <2>2
  <1> HIDE DEF G
  <1>2. \A s \in SUBSET S : s \in G
    BY <1>1, SubsetInduction
  <1>3. QED
    BY <1>2 DEF G, SumFunction

\* The values q of D, by their keys: what is summed for each key of L and then
\* over the keys is what is summed of the values whose key is in L.
Keyed(D, q, key, l) == [i \in D |-> IF key[i] = l THEN q[i] ELSE 0]
KeyedIn(D, q, key, L) == [i \in D |-> IF key[i] \in L THEN q[i] ELSE 0]

LEMMA KeyedType ==
    ASSUME NEW D, IsFiniteSet(D), NEW q \in [D -> Int], NEW key, NEW l, NEW L
    PROVE  /\ Keyed(D, q, key, l) \in [D -> Int]
           /\ KeyedIn(D, q, key, L) \in [D -> Int]
           /\ SumFunction(Keyed(D, q, key, l)) \in Int
           /\ SumFunction(KeyedIn(D, q, key, L)) \in Int
  <1>1. Keyed(D, q, key, l) \in [D -> Int]
    BY DEF Keyed
  <1>2. KeyedIn(D, q, key, L) \in [D -> Int]
    BY DEF KeyedIn
  <1>3. QED
    BY <1>1, <1>2, SumFunctionType

LEMMA SumByKey ==
    ASSUME NEW D, IsFiniteSet(D), NEW q \in [D -> Int], NEW key, NEW L, IsFiniteSet(L)
    PROVE  SumFunction(KeyedIn(D, q, key, L)) = SumFunction([l \in L |-> SumFunction(Keyed(D, q, key, l))])
  <1> DEFINE Of(l) == SumFunction(Keyed(D, q, key, l))
             Within(s) == SumFunction(KeyedIn(D, q, key, s))
             Over(s) == [l \in s |-> Of(l)]
             G == {s \in SUBSET L : Within(s) = SumFunction(Over(s))}
  <1>1. ASSUME NEW s \in SUBSET L, \A x \in s : s \ {x} \in G
        PROVE  s \in G
    <2>1. IsFiniteSet(s)
      BY FS_Subset
    <2>2. CASE s = {}
      <3>1. Within(s) = 0
        <4>1. /\ DOMAIN KeyedIn(D, q, key, s) = D
              /\ \A i \in D : KeyedIn(D, q, key, s)[i] = 0
          BY <2>2 DEF KeyedIn
        <4>2. QED
          BY <4>1, SumOfZeros
      <3>2. SumFunction(Over(s)) = 0
        <4>1. DOMAIN Over(s) = s /\ \A l \in s : Over(s)[l] = 0
          BY <2>2
        <4> HIDE DEF Over
        <4>2. QED
          BY <2>1, <4>1, SumOfZeros
      <3>3. QED
        BY <3>1, <3>2
    <2>3. CASE s # {}
      <3>1. PICK x \in s : TRUE
        BY <2>3
      <3> DEFINE f == KeyedIn(D, q, key, s \ {x})
                 g == Keyed(D, q, key, x)
                 h == KeyedIn(D, q, key, s)
      <3>2. f \in [D -> Int] /\ g \in [D -> Int] /\ h \in [D -> Int] /\ \A l : Of(l) \in Int
        BY KeyedType
      <3>3. ASSUME NEW i \in D PROVE h[i] = f[i] + g[i]
        <4>1. /\ h[i] = IF key[i] \in s THEN q[i] ELSE 0
              /\ f[i] = IF key[i] \in s \ {x} THEN q[i] ELSE 0
              /\ g[i] = IF key[i] = x THEN q[i] ELSE 0
              /\ q[i] \in Int
          BY DEF Keyed, KeyedIn
        <4> HIDE DEF f, g, h
        <4>2. QED
          BY <4>1
      <3>4. Within(s) = SumFunction(h) /\ Within(s \ {x}) = SumFunction(f) /\ Of(x) = SumFunction(g)
        OBVIOUS
      <3>5. SumFunction(h) = SumFunction(f) + SumFunction(g)
        <4> HIDE DEF f, g, h
        <4>1. QED
          BY <3>2, <3>3, SumOfSums
      <3>6. SumFunction(Over(s)) = Of(x) + SumFunction(Over(s \ {x}))
        <4>1. /\ Over(s) \in [s -> Int] /\ Over(s \ {x}) \in [s \ {x} -> Int]
              /\ \A l \in s \ {x} : Over(s \ {x})[l] = Over(s)[l]
              /\ Over(s)[x] = Of(x)
          <5> HIDE DEF Of
          <5>1. QED
            BY <3>2
        <4> HIDE DEF Over, Of
        <4>2. PICK u \in [s -> Int], v \in [s \ {x} -> Int] : u = Over(s) /\ v = Over(s \ {x})
          BY <4>1
        <4>3. \A y \in s \ {x} : v[y] = u[y]
          BY <4>1, <4>2
        <4>4. SumFunction(u) = u[x] + SumFunction(v)
          BY <2>1, <4>3, SumFunctionTakeOut
        <4>5. QED
          BY <4>1, <4>2, <4>4
      <3>7. Within(s \ {x}) = SumFunction(Over(s \ {x}))
        BY <1>1
      <3>8. SumFunction(f) \in Int /\ SumFunction(g) \in Int
        <4> HIDE DEF f, g, h
        <4>1. QED
          BY <3>2, SumFunctionType
      <3> HIDE DEF f, g, h, Within, Over, Of
      <3>9. Within(s) = SumFunction(Over(s))
        BY <3>4, <3>5, <3>6, <3>7, <3>8
      <3>10. QED
        BY <3>9
    <2>4. QED
      BY <2>2, <2>3
  <1> HIDE DEF G
  <1>2. \A s \in SUBSET L : s \in G
    BY <1>1, SubsetInduction
  <1>3. QED
    BY <1>2 DEF G

-----------------------------------------------------------------------------
(* Sums over some of the arguments of a function of naturals *)

LEMMA PartType ==
    ASSUME NEW S, IsFiniteSet(S), NEW f, \A x \in S : f[x] \in Nat
    PROVE  SumFunctionOnSet(f, S) \in Nat
  <1> DEFINE g == [x \in S |-> f[x]]
  <1>1. g \in [S -> Nat] /\ DOMAIN g = S /\ \A x \in S : f[x] = g[x]
    OBVIOUS
  <1> HIDE DEF g
  <1>2. SumFunction(g) \in Nat
    BY <1>1, SumOfNaturals
  <1>3. SumFunctionOnSet(f, S) = SumFunctionOnSet(g, S)
    BY <1>1, SumAgree
  <1>4. QED
    BY <1>1, <1>2, <1>3 DEF SumFunction

LEMMA PartNone ==
    ASSUME NEW S, IsFiniteSet(S), NEW f, \A x \in S : f[x] = 0
    PROVE  SumFunctionOnSet(f, S) = 0
  <1> DEFINE g == [x \in S |-> f[x]]
  <1>1. DOMAIN g = S /\ \A x \in S : f[x] = g[x] /\ g[x] = 0
    OBVIOUS
  <1> HIDE DEF g
  <1>2. SumFunction(g) = 0
    BY <1>1, SumOfZeros
  <1>3. SumFunctionOnSet(f, S) = SumFunctionOnSet(g, S)
    BY <1>1, SumAgree
  <1>4. QED
    BY <1>1, <1>2, <1>3 DEF SumFunction

LEMMA PartOne ==
    ASSUME NEW S, IsFiniteSet(S), NEW f, \A y \in S : f[y] \in Nat, NEW x \in S
    PROVE  f[x] <= SumFunctionOnSet(f, S)
  <1>1. IsFiniteSet(S \ {x})
    BY FS_RemoveElement
  <1>2. SumFunctionOnSet(f, S \ {x}) \in Nat
    BY <1>1, PartType
  <1>3. SumFunctionOnSet(f, S) = f[x] + SumFunctionOnSet(f, S \ {x})
    BY SumTakeOut
  <1>4. QED
    BY <1>2, <1>3

\* The values of f and g differ at x only.
LEMMA PartChange ==
    ASSUME NEW S, IsFiniteSet(S), NEW x,
           NEW f, \A y \in S : f[y] \in Nat,
           NEW g, \A y \in S : g[y] \in Nat,
           \A y \in S \ {x} : g[y] = f[y]
    PROVE  SumFunctionOnSet(g, S) = SumFunctionOnSet(f, S) + IF x \in S THEN g[x] - f[x] ELSE 0
  <1>1. SumFunctionOnSet(f, S) \in Nat /\ SumFunctionOnSet(g, S) \in Nat
    BY PartType
  <1>2. CASE x \in S
    <2>1. SumFunctionOnSet(g, S) - SumFunctionOnSet(f, S) = g[x] - f[x]
      BY <1>2, SumChange
    <2>2. f[x] \in Nat /\ g[x] \in Nat
      BY <1>2
    <2>3. QED
      BY <1>1, <1>2, <2>1, <2>2
  <1>3. CASE x \notin S
    <2>1. SumFunctionOnSet(g, S) = SumFunctionOnSet(f, S)
      BY <1>3, SumAgree
    <2>2. QED
      BY <1>1, <1>3, <2>1
  <1>4. QED
    BY <1>2, <1>3

\* g has one argument more.
LEMMA PartMore ==
    ASSUME NEW S, IsFiniteSet(S), NEW n, n \notin S,
           NEW f, \A y \in S : f[y] \in Nat,
           NEW g, \A y \in S : g[y] = f[y],
           g[n] \in Nat,
           NEW T, T = S \cup {n}
    PROVE  /\ SumFunctionOnSet(g, S) = SumFunctionOnSet(f, S)
           /\ SumFunctionOnSet(g, T) = SumFunctionOnSet(f, S) + g[n]
  <1>1. IsFiniteSet(T) /\ n \in T /\ T \ {n} = S /\ \A y \in T : g[y] \in Int
    BY FS_AddElement
  <1>2. SumFunctionOnSet(g, S) = SumFunctionOnSet(f, S)
    BY SumAgree
  <1>3. SumFunctionOnSet(f, S) \in Nat
    BY PartType
  <1>4. SumFunctionOnSet(g, T) = g[n] + SumFunctionOnSet(g, T \ {n})
    BY <1>1, SumTakeOut
  <1>5. SumFunctionOnSet(g, T \ {n}) = SumFunctionOnSet(g, S)
    BY <1>1
  <1>6. QED
    BY <1>2, <1>3, <1>4, <1>5
==============================================================================
