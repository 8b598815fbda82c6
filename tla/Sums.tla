-------------------------------- MODULE Sums --------------------------------
(***************************************************************************)
(* What is needed of the community modules' SumFunctionOnSet, the sum of   *)
(* f[x] for the elements x of a finite set: bytes in flight and flow       *)
(* control windows are compared with such sums.                            *)
(*                                                                         *)
(* Induction is over a set of good subsets, which a comprehension can      *)
(* provide.                                                                *)
(***************************************************************************)
EXTENDS Integers, FiniteSets, Functions, FiniteSetTheorems, TLAPS

\* A non-empty set of naturals has a smallest element.
LEMMA SmallestOf ==
    ASSUME NEW S, S \subseteq Nat, S # {}
    PROVE  \E n \in S : \A m \in S : n <= m
<1> DEFINE R == {ss \in Nat \X Nat : ss[1] < ss[2]}
<1>1. IsWellFoundedOn(R, Nat)
    BY NatLessThanWellFounded DEF OpToRel
<1>2. PICK n \in S : \A m \in S : ~ (<<m, n>> \in R)
    <2> HIDE DEF R
    <2>1. QED
        BY <1>1, WFMin, Zenon
<1>3. ASSUME NEW m \in S, ~ (n <= m)
      PROVE  FALSE
    <2>1. m \in Nat /\ n \in Nat /\ m < n
        BY <1>3
    <2>2. <<m, n>> \in R
        BY <2>1
    <2>3. QED
        BY <1>2, <2>2
<1>4. QED
    BY <1>3

\* A number is good if 0 is and each good number's successor is.
LEMMA NatInduced ==
    ASSUME NEW good, 0 \in good, \A n \in Nat : n \in good => n + 1 \in good, NEW m \in Nat
    PROVE  m \in good
<1> DEFINE bad == Nat \ good
<1>1. SUFFICES ASSUME m \notin good
               PROVE  FALSE
    OBVIOUS
<1>2. bad \subseteq Nat /\ bad # {}
    BY <1>1
<1>3. PICK n \in bad : \A k \in bad : n <= k
    <2> HIDE DEF bad
    <2>1. QED
        BY <1>2, SmallestOf, Zenon
<1>4. n # 0 /\ n - 1 \in Nat /\ (n - 1) + 1 = n /\ ~ (n <= n - 1)
    OBVIOUS
<1>5. QED
    BY <1>3, <1>4

\* All subsets of a finite set are good if one is whose proper subsets are.
LEMMA SubsetInduction ==
    ASSUME NEW S, IsFiniteSet(S), NEW good,
           \A T \in SUBSET S : (\A U \in SUBSET T : U # T => U \in good) => T \in good
    PROVE  S \in good
<1> DEFINE bad == {n \in Nat : \E T \in SUBSET S : T \notin good /\ Cardinality(T) = n}
<1>1. SUFFICES ASSUME S \notin good
               PROVE  FALSE
    OBVIOUS
<1>2. Cardinality(S) \in bad
    BY <1>1, FS_CardinalityType
<1>3. PICK n \in bad : \A m \in bad : n <= m
    <2>1. bad \subseteq Nat /\ bad # {}
        BY <1>2
    <2> HIDE DEF bad
    <2>2. QED
        BY <2>1, SmallestOf, Zenon
<1>4. PICK T \in SUBSET S : T \notin good /\ Cardinality(T) = n
    OBVIOUS
<1>5. ASSUME NEW U \in SUBSET T, U # T
      PROVE  U \in good
    <2>1. IsFiniteSet(T)
        BY FS_Subset
    <2>2. Cardinality(U) \in Nat /\ Cardinality(U) < n
        BY <1>4, <1>5, <2>1, FS_Subset, FS_CardinalityType
    <2>3. Cardinality(U) \notin bad
        BY <1>3, <2>2
    <2>4. QED
        BY <2>2, <2>3
<1>6. QED
    BY <1>4, <1>5

-----------------------------------------------------------------------------
\* The element that a fold takes first, and the equation that defines the sum.
Chosen(s) == CHOOSE x \in s : TRUE

SumValue(f, g, s) == IF s = {} THEN 0 ELSE f[Chosen(s)] + g[s \ {Chosen(s)}]

Solves(f, g, S) == g = [s \in SUBSET S |-> SumValue(f, g, s)]

LEMMA ChosenIn ==
    ASSUME NEW s, s # {}
    PROVE  Chosen(s) \in s
BY DEF Chosen

LEMMA SumUnfolded ==
    ASSUME NEW f, NEW S
    PROVE  SumFunctionOnSet(f, S) = (CHOOSE g : Solves(f, g, S))[S]
BY DEF SumFunctionOnSet, FoldFunctionOnSet, MapThenFoldSet, Solves, SumValue, Chosen

\* The equation has a solution: one for the subsets of up to n elements can be
\* extended to those of n + 1.
LEMMA SolvesExist ==
    ASSUME NEW f, NEW S, IsFiniteSet(S)
    PROVE  \E g : Solves(f, g, S)
<1> DEFINE upTo(n, g) == \A s \in SUBSET S : Cardinality(s) <= n => g[s] = SumValue(f, g, s)
           good == {n \in Nat : \E g : upTo(n, g)}
<1>1. 0 \in good
    <2> DEFINE g == [s \in SUBSET S |-> 0]
    <2>1. ASSUME NEW s \in SUBSET S, Cardinality(s) <= 0
          PROVE  g[s] = SumValue(f, g, s)
        <3>1. s = {}
            BY <2>1, FS_Subset, FS_CardinalityType, FS_EmptySet
        <3>2. QED
            BY <3>1 DEF SumValue
    <2>2. QED
        BY <2>1
<1>2. ASSUME NEW n \in Nat, n \in good
      PROVE  n + 1 \in good
    <2>1. PICK g : upTo(n, g)
        BY <1>2
    <2> DEFINE h == [s \in SUBSET S |-> IF Cardinality(s) <= n THEN g[s] ELSE SumValue(f, g, s)]
    <2>2. ASSUME NEW s \in SUBSET S, Cardinality(s) <= n + 1
          PROVE  h[s] = SumValue(f, h, s)
        <3>1. h[s] = SumValue(f, g, s)
            BY <2>1
        <3>2. CASE s = {}
            BY <3>1, <3>2 DEF SumValue
        <3>3. CASE s # {}
            <4> DEFINE r == s \ {Chosen(s)}
            <4>1. Cardinality(r) <= n /\ r \in SUBSET S
                BY <2>2, <3>3, ChosenIn, FS_Subset, FS_CardinalityType, FS_RemoveElement
            <4>2. h[r] = g[r]
                BY <4>1
            <4>3. SumValue(f, h, s) = SumValue(f, g, s)
                BY <3>3, <4>2 DEF SumValue
            <4>4. QED
                BY <3>1, <4>3
        <3>4. QED
            BY <3>2, <3>3
    <2>3. upTo(n + 1, h)
        BY <2>2, Zenon
    <2> HIDE DEF h
    <2>4. QED
        BY <2>3
<1>3. Cardinality(S) \in good
    <2> HIDE DEF good
    <2>1. QED
        BY <1>1, <1>2, FS_CardinalityType, NatInduced
<1>4. PICK g : upTo(Cardinality(S), g)
    BY <1>3
<1> DEFINE h == [s \in SUBSET S |-> g[s]]
<1>5. ASSUME NEW s \in SUBSET S
      PROVE  g[s] = SumValue(f, h, s)
    <2>1. g[s] = SumValue(f, g, s)
        BY <1>4, FS_Subset, FS_CardinalityType
    <2>2. SumValue(f, h, s) = SumValue(f, g, s)
        BY ChosenIn DEF SumValue
    <2>3. QED
        BY <2>1, <2>2
<1>6. Solves(f, h, S)
    BY <1>5, Zenon DEF Solves
<1>7. QED
    BY <1>6
\* Solutions agree on the sets that both are defined for.
LEMMA SolvesAgree ==
    ASSUME NEW f, NEW S, IsFiniteSet(S), NEW g, Solves(f, g, S), NEW T \in SUBSET S, NEW h, Solves(f, h, T)
    PROVE  g[T] = h[T]
<1> DEFINE good == {U \in SUBSET T : g[U] = h[U]}
<1>1. ASSUME NEW U \in SUBSET T, \A V \in SUBSET U : V # U => V \in good
      PROVE  U \in good
    <2>1. g[U] = SumValue(f, g, U) /\ h[U] = SumValue(f, h, U)
        BY DEF Solves
    <2>2. SumValue(f, g, U) = SumValue(f, h, U)
        BY <1>1, ChosenIn DEF SumValue
    <2>3. QED
        BY <2>1, <2>2
<1>2. IsFiniteSet(T)
    BY FS_Subset
<1> HIDE DEF good
<1>3. T \in good
    BY <1>1, <1>2, SubsetInduction
<1>4. QED
    BY <1>3 DEF good

\* The sum over the empty set is 0, and over another one it is that of the
\* first element and the sum over the others.
LEMMA SumStep ==
    ASSUME NEW f, NEW S, IsFiniteSet(S)
    PROVE  SumFunctionOnSet(f, S) =
             IF S = {} THEN 0 ELSE f[Chosen(S)] + SumFunctionOnSet(f, S \ {Chosen(S)})
<1>1. PICK g : g = (CHOOSE k : Solves(f, k, S)) /\ Solves(f, g, S)
    BY SolvesExist
<1>2. SumFunctionOnSet(f, S) = SumValue(f, g, S)
    BY <1>1, SumUnfolded, Zenon DEF Solves
<1>3. CASE S = {}
    BY <1>2, <1>3 DEF SumValue
<1>4. CASE S # {}
    <2> DEFINE r == S \ {Chosen(S)}
    <2>1. r \in SUBSET S /\ IsFiniteSet(r)
        BY FS_Subset
    <2>2. PICK h : h = (CHOOSE k : Solves(f, k, r)) /\ Solves(f, h, r)
        BY <2>1, SolvesExist
    <2>3. g[r] = h[r]
        BY <1>1, <2>1, <2>2, SolvesAgree
    <2>4. SumFunctionOnSet(f, r) = h[r]
        BY <2>1, <2>2, SumUnfolded
    <2>5. QED
        BY <1>2, <1>4, <2>3, <2>4 DEF SumValue
<1>5. QED
    BY <1>3, <1>4
-----------------------------------------------------------------------------
\* The sum over the empty set.
LEMMA SumEmpty ==
    ASSUME NEW f
    PROVE  SumFunctionOnSet(f, {}) = 0
BY SumStep, FS_EmptySet

\* A sum of integers is an integer.
LEMMA SumInt ==
    ASSUME NEW S, IsFiniteSet(S), NEW f, \A x \in S : f[x] \in Int
    PROVE  SumFunctionOnSet(f, S) \in Int
<1> DEFINE good == {T \in SUBSET S : SumFunctionOnSet(f, T) \in Int}
<1>1. ASSUME NEW T \in SUBSET S, \A U \in SUBSET T : U # T => U \in good
      PROVE  T \in good
    <2>1. IsFiniteSet(T)
        BY FS_Subset
    <2>2. CASE T = {}
        BY <2>2, SumEmpty
    <2>3. CASE T # {}
        <3> DEFINE x == Chosen(T)
                   U == T \ {x}
        <3>1. x \in T /\ U \in good
            BY <1>1, <2>3, ChosenIn
        <3>2. SumFunctionOnSet(f, T) = f[x] + SumFunctionOnSet(f, U)
            BY <2>1, <2>3, SumStep
        <3> HIDE DEF x, U
        <3>3. QED
            BY <3>1, <3>2
    <2>4. QED
        BY <2>2, <2>3
<1> HIDE DEF good
<1>2. S \in good
    BY <1>1, SubsetInduction
<1>3. QED
    BY <1>2 DEF good

\* Any element can be taken out of a sum.
LEMMA SumRemove ==
    ASSUME NEW S, IsFiniteSet(S), NEW f, \A x \in S : f[x] \in Int, NEW y \in S
    PROVE  /\ SumFunctionOnSet(f, S) = f[y] + SumFunctionOnSet(f, S \ {y})
           /\ SumFunctionOnSet(f, S) \in Int
           /\ SumFunctionOnSet(f, S \ {y}) \in Int
<1> DEFINE sum(T) == SumFunctionOnSet(f, T)
           good == {T \in SUBSET S : \A z \in T : sum(T) = f[z] + sum(T \ {z})}
<1>1. ASSUME NEW T \in SUBSET S
      PROVE  sum(T) \in Int /\ IsFiniteSet(T)
    BY FS_Subset, SumInt, Zenon
<1>2. ASSUME NEW T \in SUBSET S, \A U \in SUBSET T : U # T => U \in good, NEW z \in T
      PROVE  sum(T) = f[z] + sum(T \ {z})
    <2> DEFINE x == Chosen(T)
               a == T \ {x}
               b == T \ {z}
               c == a \ {z}
    <2>1. x \in T
        BY ChosenIn
    <2>2. sum(T) = f[x] + sum(a)
        BY <1>1, SumStep
    <2>3. CASE x = z
        BY <2>2, <2>3
    <2>4. CASE x # z
        <3>1. a \in good /\ z \in a /\ b \in good /\ x \in b /\ b \ {x} = c
            <4> HIDE DEF x
            <4>1. QED
                BY <1>2, <2>1, <2>4
        <3>2. sum(a) = f[z] + sum(c) /\ sum(b) = f[x] + sum(c)
            <4> HIDE DEF x, sum
            <4>1. QED
                BY <3>1, Zenon
        <3>3. f[x] \in Int /\ f[z] \in Int /\ sum(c) \in Int
            BY <1>1, <2>1
        <3> HIDE DEF x, sum, a, b, c
        <3>4. sum(T) = f[z] + sum(b)
            BY <2>2, <3>2, <3>3
        <3>5. QED
            BY <3>4 DEF b
    <2>5. QED
        BY <2>3, <2>4
<1>3. \A T \in SUBSET S : (\A U \in SUBSET T : U # T => U \in good) => T \in good
    BY <1>2
<1>4. S \in good
    <2> HIDE DEF good
    <2>1. QED
        BY <1>3, SubsetInduction
<1>5. QED
    BY <1>1, <1>4

\* Functions with the same values have the same sum.
LEMMA SumSame ==
    ASSUME NEW S, IsFiniteSet(S), NEW f, NEW h, \A x \in S : f[x] = h[x]
    PROVE  SumFunctionOnSet(f, S) = SumFunctionOnSet(h, S)
<1> DEFINE good == {T \in SUBSET S : SumFunctionOnSet(f, T) = SumFunctionOnSet(h, T)}
<1>1. ASSUME NEW T \in SUBSET S, \A U \in SUBSET T : U # T => U \in good
      PROVE  T \in good
    <2>1. IsFiniteSet(T)
        BY FS_Subset
    <2>2. CASE T = {}
        BY <2>2, SumEmpty
    <2>3. CASE T # {}
        <3> DEFINE x == Chosen(T)
                   U == T \ {x}
        <3>1. x \in T /\ U \in good
            BY <1>1, <2>3, ChosenIn
        <3>2. /\ SumFunctionOnSet(f, T) = f[x] + SumFunctionOnSet(f, U)
              /\ SumFunctionOnSet(h, T) = h[x] + SumFunctionOnSet(h, U)
            BY <2>1, <2>3, SumStep
        <3> HIDE DEF x, U
        <3>3. QED
            BY <3>1, <3>2
    <2>4. QED
        BY <2>2, <2>3
<1> HIDE DEF good
<1>2. S \in good
    BY <1>1, SubsetInduction
<1>3. QED
    BY <1>2 DEF good

\* A function with smaller values has a smaller sum.
LEMMA SumAtMost ==
    ASSUME NEW S, IsFiniteSet(S), NEW f, NEW h,
           \A x \in S : f[x] \in Int /\ h[x] \in Int /\ f[x] <= h[x]
    PROVE  SumFunctionOnSet(f, S) <= SumFunctionOnSet(h, S)
<1> DEFINE good == {T \in SUBSET S : SumFunctionOnSet(f, T) <= SumFunctionOnSet(h, T)}
<1>1. ASSUME NEW T \in SUBSET S, \A U \in SUBSET T : U # T => U \in good
      PROVE  T \in good
    <2>1. IsFiniteSet(T)
        BY FS_Subset
    <2>2. CASE T = {}
        BY <2>2, SumEmpty
    <2>3. CASE T # {}
        <3> DEFINE x == Chosen(T)
                   U == T \ {x}
        <3>1. x \in T /\ IsFiniteSet(U) /\ U \in good
            BY <1>1, <2>1, <2>3, ChosenIn, FS_Subset
        <3>2. /\ SumFunctionOnSet(f, T) = f[x] + SumFunctionOnSet(f, U)
              /\ SumFunctionOnSet(h, T) = h[x] + SumFunctionOnSet(h, U)
            BY <2>1, <2>3, SumStep
        <3>3. SumFunctionOnSet(f, U) \in Int /\ SumFunctionOnSet(h, U) \in Int
            BY <3>1, SumInt
        <3> HIDE DEF x, U
        <3>4. QED
            BY <3>1, <3>2, <3>3
    <2>4. QED
        BY <2>2, <2>3
<1> HIDE DEF good
<1>2. S \in good
    BY <1>1, SubsetInduction
<1>3. QED
    BY <1>2 DEF good

\* The sum of zeros.
LEMMA SumZero ==
    ASSUME NEW S, IsFiniteSet(S), NEW f, \A x \in S : f[x] = 0
    PROVE  SumFunctionOnSet(f, S) = 0
<1> DEFINE good == {T \in SUBSET S : SumFunctionOnSet(f, T) = 0}
<1>1. ASSUME NEW T \in SUBSET S, \A U \in SUBSET T : U # T => U \in good
      PROVE  T \in good
    <2>1. IsFiniteSet(T)
        BY FS_Subset
    <2>2. CASE T = {}
        BY <2>2, SumEmpty
    <2>3. CASE T # {}
        <3> DEFINE x == Chosen(T)
                   U == T \ {x}
        <3>1. x \in T /\ U \in good
            BY <1>1, <2>3, ChosenIn
        <3>2. SumFunctionOnSet(f, T) = f[x] + SumFunctionOnSet(f, U)
            BY <2>1, <2>3, SumStep
        <3> HIDE DEF x, U
        <3>3. QED
            BY <3>1, <3>2
    <2>4. QED
        BY <2>2, <2>3
<1> HIDE DEF good
<1>2. S \in good
    BY <1>1, SubsetInduction
<1>3. QED
    BY <1>2 DEF good

\* A sum of naturals is a natural.
LEMMA SumNat ==
    ASSUME NEW S, IsFiniteSet(S), NEW f, \A x \in S : f[x] \in Nat
    PROVE  SumFunctionOnSet(f, S) \in Nat
<1> DEFINE z == [x \in S |-> 0]
<1>1. SumFunctionOnSet(f, S) \in Int
    BY SumInt
<1>2. SumFunctionOnSet(z, S) = 0
    BY SumZero
<1>3. \A x \in S : z[x] \in Int /\ f[x] \in Int /\ z[x] <= f[x]
    OBVIOUS
<1> HIDE DEF z
<1>4. SumFunctionOnSet(z, S) <= SumFunctionOnSet(f, S)
    BY <1>3, SumAtMost
<1>5. QED
    BY <1>1, <1>2, <1>4

\* Functions to the integers that differ at y alone.
DifferAt(f, h, S, y) == \A x \in S : f[x] \in Int /\ h[x] \in Int /\ (x # y => f[x] = h[x])

\* One value changes: the sum changes by as much.
LEMMA SumChange ==
    ASSUME NEW S, IsFiniteSet(S), NEW f, NEW h, NEW y \in S, DifferAt(f, h, S, y)
    PROVE  /\ SumFunctionOnSet(h, S) = SumFunctionOnSet(f, S) + (h[y] - f[y])
           /\ SumFunctionOnSet(f, S) \in Int
           /\ SumFunctionOnSet(h, S) \in Int
<1> DEFINE T == S \ {y}
<1>1. IsFiniteSet(T)
    BY FS_Subset
<1>2. SumFunctionOnSet(f, T) = SumFunctionOnSet(h, T)
    <2>1. \A x \in T : f[x] = h[x]
        BY DEF DifferAt
    <2>2. QED
        BY <1>1, <2>1, SumSame
<1>3. /\ SumFunctionOnSet(f, S) = f[y] + SumFunctionOnSet(f, T)
      /\ SumFunctionOnSet(h, S) = h[y] + SumFunctionOnSet(h, T)
      /\ SumFunctionOnSet(f, S) \in Int
      /\ SumFunctionOnSet(h, S) \in Int
      /\ SumFunctionOnSet(f, T) \in Int
      /\ f[y] \in Int /\ h[y] \in Int
    <2>1. \A x \in S : f[x] \in Int
        BY DEF DifferAt
    <2>2. \A x \in S : h[x] \in Int
        BY DEF DifferAt
    <2>3. QED
        BY <2>1, <2>2, SumRemove
<1> HIDE DEF T
<1>4. QED
    BY <1>2, <1>3

\* A subset can be taken out of a sum.
LEMMA SumSplit ==
    ASSUME NEW S, IsFiniteSet(S), NEW f, \A x \in S : f[x] \in Int, NEW T \in SUBSET S
    PROVE  /\ SumFunctionOnSet(f, S) = SumFunctionOnSet(f, T) + SumFunctionOnSet(f, S \ T)
           /\ SumFunctionOnSet(f, S) \in Int
           /\ SumFunctionOnSet(f, T) \in Int
           /\ SumFunctionOnSet(f, S \ T) \in Int
<1> DEFINE sum(U) == SumFunctionOnSet(f, U)
           good == {U \in SUBSET T : sum(S) = sum(U) + sum(S \ U)}
<1>1. ASSUME NEW U \in SUBSET S
      PROVE  sum(U) \in Int /\ IsFiniteSet(U)
    BY FS_Subset, SumInt
<1>2. ASSUME NEW U \in SUBSET T, \A V \in SUBSET U : V # U => V \in good
      PROVE  U \in good
    <2>1. CASE U = {}
        <3>1. sum({}) = 0 /\ S \ {} = S /\ sum(S) \in Int
            BY <1>1, SumEmpty
        <3> HIDE DEF sum
        <3>2. QED
            BY <2>1, <3>1
    <2>2. CASE U # {}
        <3>1. PICK x \in U : TRUE
            BY <2>2
        <3> DEFINE V == U \ {x}
                   W == S \ V
        <3>2. V \in good /\ W \ {x} = S \ U
            BY <1>2, <3>1
        <3>3. sum(U) = f[x] + sum(V)
            BY <1>1, SumRemove
        <3>4. sum(W) = f[x] + sum(W \ {x})
            BY <1>1, SumRemove
        <3>5. f[x] \in Int /\ sum(V) \in Int /\ sum(W \ {x}) \in Int
            BY <1>1
        <3>6. sum(S) = sum(V) + sum(W)
            BY <3>2
        <3> HIDE DEF V, W, sum
        <3>7. sum(W) = f[x] + sum(S \ U) /\ sum(S \ U) \in Int
            BY <3>2, <3>4, <3>5, Zenon
        <3>8. sum(S) = sum(U) + sum(S \ U)
            BY <3>3, <3>5, <3>6, <3>7
        <3>9. QED
            BY <3>8
    <2>3. QED
        BY <2>1, <2>2
<1>3. T \in good
    <2> HIDE DEF good
    <2>1. QED
        BY <1>1, <1>2, SubsetInduction
<1>4. QED
    BY <1>1, <1>3
====
