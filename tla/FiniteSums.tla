----------------------------- MODULE FiniteSums -----------------------------
(***************************************************************************)
(* Least elements and sums, for the proofs: MapThenSumSet sums over a      *)
(* finite set whatever the order in which it chooses the elements.         *)
(***************************************************************************)
EXTENDS Integers, FiniteSets, FiniteSetsExt, FiniteSetTheorems,
        WellFoundedInduction, TLAPS

------------------------------------------------------------------------------
(* Least elements.                                                         *)

\* A non-empty set of natural numbers has a least element.
LEMMA LeastExists ==
  ASSUME NEW S, S \subseteq Nat, S # {}
  PROVE  \E x \in S : \A y \in S : x =< y
<1> DEFINE R == {ss \in Nat \X Nat : ss[1] < ss[2]}
<1>1. IsWellFoundedOn(R, Nat)
  BY NatLessThanWellFounded, Zenon DEF OpToRel
<1>2. \E x \in S : \A y \in S : ~(<<y, x>> \in R)
  <2> HIDE DEF R
  <2> QED BY <1>1, WFMin, Zenon
<1>3. PICK x \in S : \A y \in S : ~(<<y, x>> \in R)
  BY <1>2
<1>4. ASSUME NEW y \in S PROVE x =< y
  <2>1. x \in Nat /\ y \in Nat
    OBVIOUS
  <2>2. <<y, x>> \in Nat \X Nat /\ <<y, x>>[1] = y /\ <<y, x>>[2] = x
    BY <2>1
  <2>3. ~(y < x)
    BY <1>3, <2>2
  <2> QED BY <2>1, <2>3
<1> QED BY <1>4

\* Min returns it.
LEMMA MinOfNats ==
  ASSUME NEW S, S \subseteq Nat, S # {}
  PROVE  Min(S) \in S /\ \A y \in S : Min(S) =< y
BY LeastExists DEF Min

\* Min of two numbers.
LEMMA MinOfTwo ==
  ASSUME NEW a \in Nat, NEW b \in Nat
  PROVE  Min({a, b}) \in Nat /\ Min({a, b}) =< a /\ Min({a, b}) =< b
BY MinOfNats, {a, b} \subseteq Nat, {a, b} # {}

------------------------------------------------------------------------------
(* Sums.                                                                   *)

\* The sum of f over S.
Total(f, S) == MapThenSumSet(LAMBDA x : f[x], S)

\* A family of subsets of a finite set that holds every set whose proper
\* subsets it holds, holds the set itself.
LEMMA SubsetInduction ==
  ASSUME NEW S, IsFiniteSet(S), NEW Good,
         \A s \in SUBSET S :
           (\A t \in SUBSET s : t # s => t \in Good) => s \in Good
  PROVE  S \in Good
<1> SUFFICES ASSUME S \notin Good PROVE FALSE
  OBVIOUS
<1> DEFINE Bad == {s \in SUBSET S : s \notin Good}
           N == {Cardinality(s) : s \in Bad}
<1>1. \A s \in SUBSET S : IsFiniteSet(s) /\ Cardinality(s) \in Nat
  BY FS_Subset, FS_CardinalityType
<1>2. N \subseteq Nat /\ N # {}
  BY <1>1
<1>3. PICK n \in N : \A m \in N : n =< m
  <2> HIDE DEF N
  <2> QED BY <1>2, LeastExists
<1>4. PICK s \in Bad : Cardinality(s) = n
  OBVIOUS
<1>5. ASSUME NEW t \in SUBSET s, t # s
      PROVE  t \in Good
  <2>1. Cardinality(t) < Cardinality(s)
    BY <1>1, <1>5, FS_Subset, FS_CardinalityType
  <2>2. SUFFICES ASSUME t \in Bad PROVE FALSE
    BY DEF Bad
  <2>3. n =< Cardinality(t)
    BY <1>3, <2>2
  <2> QED BY <1>1, <1>2, <1>3, <1>4, <2>1, <2>3
<1> QED BY <1>4, <1>5

\* h is the sum that MapThenSumSet computes for the subsets of S.
Sums(h, f, S) ==
  h = [s \in SUBSET S |->
         IF s = {} THEN 0
         ELSE LET x == CHOOSE x \in s : TRUE IN f[x] + h[s \ {x}]]

LEMMA TotalDef ==
  ASSUME NEW f, NEW S
  PROVE  Total(f, S) = (CHOOSE h : Sums(h, f, S))[S]
BY DEF Total, MapThenSumSet, MapThenFoldSet, Sums

\* What it computes for a set does not depend on the set it started from.
LEMMA SumsAgree ==
  ASSUME NEW f, NEW S, IsFiniteSet(S), NEW T, S \subseteq T,
         NEW g, Sums(g, f, S), NEW h, Sums(h, f, T)
  PROVE  g[S] = h[S]
<1> DEFINE Good == {s \in SUBSET S : g[s] = h[s]}
<1>1. ASSUME NEW s \in SUBSET S, \A t \in SUBSET s : t # s => t \in Good
      PROVE  s \in Good
  <2> DEFINE x == CHOOSE x \in s : TRUE
  <2>1. CASE s = {}
    BY <2>1 DEF Sums
  <2>2. CASE s # {}
    <3>1. x \in s
      BY <2>2
    <3>2. g[s] = f[x] + g[s \ {x}]
      BY <2>2 DEF Sums
    <3>3. h[s] = f[x] + h[s \ {x}]
      BY <2>2 DEF Sums
    <3>4. s \ {x} \in Good
      BY <1>1, <3>1
    <3> QED BY <3>2, <3>3, <3>4
  <2> QED BY <2>1, <2>2
<1>2. S \in Good
  <2> HIDE DEF Good
  <2> QED BY <1>1, SubsetInduction
<1> QED BY <1>2

\* It computes one for every finite set.
LEMMA SumsExist ==
  ASSUME NEW f, NEW S, IsFiniteSet(S)
  PROVE  \E h : Sums(h, f, S)
<1> DEFINE Good == {s \in SUBSET S : \E h : Sums(h, f, s)}
<1>1. ASSUME NEW s \in SUBSET S, \A t \in SUBSET s : t # s => t \in Good
      PROVE  s \in Good
  <2> DEFINE val(t) == (CHOOSE h : Sums(h, f, t))[t]
             pick(t) == CHOOSE x \in t : TRUE
             h == [t \in SUBSET s |->
                     IF t = {} THEN 0
                     ELSE f[pick(t)] + val(t \ {pick(t)})]
  <2>1. ASSUME NEW t \in SUBSET s, t # s
        PROVE  val(t) = h[t]
    <3> DEFINE g == CHOOSE g : Sums(g, f, t)
    <3>1. Sums(g, f, t)
      BY <1>1, <2>1
    <3>2. CASE t = {}
      BY <3>1, <3>2 DEF Sums
    <3>3. CASE t # {}
      <4> DEFINE u == t \ {pick(t)}
                 k == CHOOSE k : Sums(k, f, u)
      <4>1. pick(t) \in t /\ u \in SUBSET s /\ u # s
        BY <2>1, <3>3
      <4>2. Sums(k, f, u)
        BY <1>1, <4>1
      <4>3. IsFiniteSet(u)
        BY <4>1, FS_Subset
      <4>4. k[u] = g[u]
        <5> HIDE DEF k, g, u
        <5> QED BY <3>1, <4>2, <4>3, SumsAgree, u \subseteq t DEF u
      <4>5. g[t] = f[pick(t)] + g[u]
        BY <3>1, <3>3 DEF Sums
      <4>6. val(u) = k[u] /\ val(t) = g[t]
        OBVIOUS
      <4>7. h[t] = f[pick(t)] + val(u)
        BY <3>3
      <4> QED BY <4>4, <4>5, <4>6, <4>7
    <3> QED BY <3>2, <3>3
  <2>2. ASSUME NEW t \in SUBSET s, t # {}
        PROVE  h[t] = f[pick(t)] + h[t \ {pick(t)}]
    <3>1. pick(t) \in t
      BY <2>2
    <3>2. t \ {pick(t)} \in SUBSET s /\ t \ {pick(t)} # s
      BY <3>1
    <3>3. val(t \ {pick(t)}) = h[t \ {pick(t)}]
      <4> HIDE DEF val, h, pick
      <4> QED BY <2>1, <3>2
    <3>4. h[t] = f[pick(t)] + val(t \ {pick(t)})
      BY <2>2
    <3> QED BY <3>3, <3>4
  <2>3. h[{}] = 0
    OBVIOUS
  <2>4. Sums(h, f, s)
    <3>1. h = [t \in SUBSET s |-> h[t]]
      OBVIOUS
    <3>2. \A t \in SUBSET s :
            h[t] = IF t = {} THEN 0 ELSE f[pick(t)] + h[t \ {pick(t)}]
      <4> HIDE DEF h, pick
      <4> QED BY <2>2, <2>3
    <3> HIDE DEF h
    <3> QED BY <3>1, <3>2 DEF Sums
  <2> QED BY <2>4
<1>2. S \in Good
  <2> HIDE DEF Good
  <2> QED BY <1>1, SubsetInduction
<1> QED BY <1>2

\* The sum of a set that has an element is that of the element chosen and of
\* the others.
LEMMA TotalChosen ==
  ASSUME NEW f, NEW S, IsFiniteSet(S)
  PROVE  /\ Total(f, {}) = 0
         /\ S # {} => LET x == CHOOSE x \in S : TRUE
                      IN  Total(f, S) = f[x] + Total(f, S \ {x})
<1>1. ASSUME NEW T, IsFiniteSet(T)
      PROVE  \E h : Sums(h, f, T) /\ Total(f, T) = h[T]
  BY <1>1, SumsExist, TotalDef
<1>2. Total(f, {}) = 0
  <2>1. PICK h : Sums(h, f, {}) /\ Total(f, {}) = h[{}]
    BY <1>1, FS_EmptySet
  <2> QED BY <2>1 DEF Sums
<1>3. ASSUME S # {}
      PROVE  LET x == CHOOSE x \in S : TRUE
             IN  Total(f, S) = f[x] + Total(f, S \ {x})
  <2> DEFINE x == CHOOSE x \in S : TRUE
             R == S \ {x}
  <2>1. x \in S
    BY <1>3
  <2>2. PICK h : Sums(h, f, S) /\ Total(f, S) = h[S]
    BY <1>1
  <2>3. h[S] = f[x] + h[R]
    BY <1>3, <2>2 DEF Sums
  <2>4. IsFiniteSet(R) /\ R \subseteq S
    BY FS_Subset
  <2>5. PICK g : Sums(g, f, R) /\ Total(f, R) = g[R]
    <3> HIDE DEF R
    <3> QED BY <1>1, <2>4
  <2>6. g[R] = h[R]
    <3> HIDE DEF R
    <3> QED BY <2>2, <2>4, <2>5, SumsAgree
  <2> QED BY <2>2, <2>3, <2>5, <2>6
<1> QED BY <1>2, <1>3

\* A sum of amounts is an amount.
LEMMA TotalType ==
  ASSUME NEW f, NEW S, IsFiniteSet(S), \A i \in S : f[i] \in Nat
  PROVE  Total(f, S) \in Nat
<1> DEFINE Good == {s \in SUBSET S : Total(f, s) \in Nat}
<1>1. ASSUME NEW s \in SUBSET S, \A t \in SUBSET s : t # s => t \in Good
      PROVE  s \in Good
  <2> DEFINE x == CHOOSE x \in s : TRUE
  <2>1. IsFiniteSet(s)
    BY FS_Subset
  <2>2. CASE s = {}
    <3>1. Total(f, s) = 0
      BY <2>1, <2>2, TotalChosen
    <3> QED BY <3>1
  <2>3. CASE s # {}
    <3>1. x \in s /\ f[x] \in Nat
      BY <2>3
    <3>2. Total(f, s) = f[x] + Total(f, s \ {x})
      BY <2>1, <2>3, TotalChosen
    <3>3. Total(f, s \ {x}) \in Nat
      BY <1>1, <3>1
    <3> QED BY <3>1, <3>2, <3>3
  <2> QED BY <2>2, <2>3
<1>2. S \in Good
  <2> HIDE DEF Good
  <2> QED BY <1>1, SubsetInduction
<1> QED BY <1>2

\* Sums of numbers, which may be negative.
LEMMA TotalInt ==
  ASSUME NEW f, NEW S, IsFiniteSet(S), \A i \in S : f[i] \in Int
  PROVE  Total(f, S) \in Int
<1> DEFINE Good == {s \in SUBSET S : Total(f, s) \in Int}
<1>1. ASSUME NEW s \in SUBSET S, \A t \in SUBSET s : t # s => t \in Good
      PROVE  s \in Good
  <2> DEFINE x == CHOOSE x \in s : TRUE
  <2>1. IsFiniteSet(s)
    BY FS_Subset
  <2>2. CASE s = {}
    <3>1. Total(f, s) = 0
      BY <2>1, <2>2, TotalChosen
    <3> QED BY <3>1
  <2>3. CASE s # {}
    <3>1. x \in s /\ f[x] \in Int
      BY <2>3
    <3>2. Total(f, s) = f[x] + Total(f, s \ {x})
      BY <2>1, <2>3, TotalChosen
    <3>3. Total(f, s \ {x}) \in Int
      BY <1>1, <3>1
    <3> QED BY <3>1, <3>2, <3>3
  <2> QED BY <2>2, <2>3
<1>2. S \in Good
  <2> HIDE DEF Good
  <2> QED BY <1>1, SubsetInduction
<1> QED BY <1>2

\* Any element can be taken out of a sum.
LEMMA TotalRemoveInt ==
  ASSUME NEW f, NEW S, IsFiniteSet(S), \A i \in S : f[i] \in Int,
         NEW y \in S
  PROVE  Total(f, S) = f[y] + Total(f, S \ {y})
<1> DEFINE Good == {s \in SUBSET S : \A z \in s : Total(f, s) = f[z] + Total(f, s \ {z})}
<1>0. \A s \in SUBSET S : IsFiniteSet(s) /\ Total(f, s) \in Int
  BY FS_Subset, TotalInt
<1>1. ASSUME NEW s \in SUBSET S, \A t \in SUBSET s : t # s => t \in Good,
             NEW z \in s
      PROVE  Total(f, s) = f[z] + Total(f, s \ {z})
  <2> DEFINE x == CHOOSE x \in s : TRUE
             r == (s \ {x}) \ {z}
  <2>1. x \in s /\ IsFiniteSet(s) /\ s # {}
    BY <1>0
  <2>2. Total(f, s) = f[x] + Total(f, s \ {x})
    BY <2>1, TotalChosen
  <2>3. CASE x = z
    BY <2>2, <2>3
  <2>4. CASE x # z
    <3> HIDE DEF x
    <3>1. s \ {x} \in Good /\ z \in s \ {x}
      BY <1>1, <2>1, <2>4
    <3>2. Total(f, s \ {x}) = f[z] + Total(f, r)
      BY <3>1
    <3>3. s \ {z} \in Good /\ x \in s \ {z}
      BY <1>1, <2>1, <2>4
    <3>4. Total(f, s \ {z}) = f[x] + Total(f, (s \ {z}) \ {x})
      BY <3>3
    <3>5. (s \ {z}) \ {x} = r
      OBVIOUS
    <3>6. f[x] \in Int /\ f[z] \in Int /\ Total(f, r) \in Int
      BY <1>0, <2>1
    <3>7. Total(f, s) = f[x] + (f[z] + Total(f, r))
      BY <2>2, <3>2
    <3>8. Total(f, s \ {z}) = f[x] + Total(f, r)
      BY <3>4, <3>5
    <3> HIDE DEF r
    <3> QED BY <3>6, <3>7, <3>8
  <2> QED BY <2>3, <2>4
<1>2. S \in Good
  <2>1. \A s \in SUBSET S : (\A t \in SUBSET s : t # s => t \in Good) => s \in Good
    BY <1>1
  <2> HIDE DEF Good
  <2> QED BY <2>1, SubsetInduction
<1> QED BY <1>2

LEMMA TotalRemove ==
  ASSUME NEW f, NEW S, IsFiniteSet(S), \A i \in S : f[i] \in Nat,
         NEW y \in S
  PROVE  Total(f, S) = f[y] + Total(f, S \ {y})
<1>1. \A i \in S : f[i] \in Int
  OBVIOUS
<1> QED BY <1>1, TotalRemoveInt

\* An element more.
LEMMA TotalAdd ==
  ASSUME NEW f, NEW S, IsFiniteSet(S), NEW y, y \notin S,
         \A i \in S \cup {y} : f[i] \in Nat
  PROVE  Total(f, S \cup {y}) = f[y] + Total(f, S)
<1>1. IsFiniteSet(S \cup {y}) /\ (S \cup {y}) \ {y} = S
  BY FS_AddElement
<1> QED BY <1>1, TotalRemove

\* A sum depends on the amounts only.
LEMMA TotalSame ==
  ASSUME NEW f, NEW g, NEW S, IsFiniteSet(S), \A i \in S : f[i] = g[i]
  PROVE  Total(f, S) = Total(g, S)
<1> DEFINE Good == {s \in SUBSET S : Total(f, s) = Total(g, s)}
<1>1. ASSUME NEW s \in SUBSET S, \A t \in SUBSET s : t # s => t \in Good
      PROVE  s \in Good
  <2> DEFINE x == CHOOSE x \in s : TRUE
  <2>1. IsFiniteSet(s)
    BY FS_Subset
  <2>2. CASE s = {}
    BY <2>1, <2>2, TotalChosen
  <2>3. CASE s # {}
    <3>1. x \in s
      BY <2>3
    <3>2. /\ Total(f, s) = f[x] + Total(f, s \ {x})
          /\ Total(g, s) = g[x] + Total(g, s \ {x})
      BY <2>1, <2>3, TotalChosen
    <3>3. Total(f, s \ {x}) = Total(g, s \ {x})
      BY <1>1, <3>1
    <3>4. f[x] = g[x]
      BY <3>1
    <3> QED BY <3>2, <3>3, <3>4
  <2> QED BY <2>2, <2>3
<1>2. S \in Good
  <2> HIDE DEF Good
  <2> QED BY <1>1, SubsetInduction
<1> QED BY <1>2

\* A part is at most the whole.
LEMMA TotalBound ==
  ASSUME NEW f, NEW S, IsFiniteSet(S), \A i \in S : f[i] \in Nat, NEW y \in S
  PROVE  f[y] =< Total(f, S)
<1>1. Total(f, S) = f[y] + Total(f, S \ {y})
  BY TotalRemove
<1>2. Total(f, S \ {y}) \in Nat
  BY FS_RemoveElement, TotalType
<1> QED BY <1>1, <1>2

\* A sum of zeros.
LEMMA TotalZero ==
  ASSUME NEW f, NEW S, IsFiniteSet(S), \A i \in S : f[i] = 0
  PROVE  Total(f, S) = 0
<1> DEFINE Good == {s \in SUBSET S : Total(f, s) = 0}
<1>1. ASSUME NEW s \in SUBSET S, \A t \in SUBSET s : t # s => t \in Good
      PROVE  s \in Good
  <2> DEFINE x == CHOOSE x \in s : TRUE
  <2>1. IsFiniteSet(s)
    BY FS_Subset
  <2>2. CASE s = {}
    BY <2>1, <2>2, TotalChosen
  <2>3. CASE s # {}
    <3>1. x \in s /\ f[x] = 0
      BY <2>3
    <3>2. Total(f, s) = f[x] + Total(f, s \ {x})
      BY <2>1, <2>3, TotalChosen
    <3>3. Total(f, s \ {x}) = 0
      BY <1>1, <3>1
    <3> QED BY <3>1, <3>2, <3>3
  <2> QED BY <2>2, <2>3
<1>2. S \in Good
  <2> HIDE DEF Good
  <2> QED BY <1>1, SubsetInduction
<1> QED BY <1>2

\* One amount changes.
LEMMA TotalChange ==
  ASSUME NEW f, NEW g, NEW S, IsFiniteSet(S), NEW y \in S,
         \A i \in S : f[i] \in Int /\ g[i] \in Int,
         \A i \in S : i # y => g[i] = f[i]
  PROVE  /\ Total(f, S) \in Int
         /\ Total(g, S) = Total(f, S) - f[y] + g[y]
<1> DEFINE R == S \ {y}
<1>1. IsFiniteSet(R) /\ \A i \in R : f[i] = g[i] /\ f[i] \in Int
  BY FS_Subset
<1>2. Total(f, R) = Total(g, R) /\ Total(f, R) \in Int
  <2> HIDE DEF R
  <2> QED BY <1>1, TotalSame, TotalInt
<1>3. Total(f, S) = f[y] + Total(f, R)
  BY TotalRemoveInt
<1>4. Total(g, S) = g[y] + Total(g, R)
  BY TotalRemoveInt
<1>5. f[y] \in Int /\ g[y] \in Int
  OBVIOUS
<1> HIDE DEF R
<1> QED BY <1>2, <1>3, <1>4, <1>5

\* The sum over two sets that have nothing in common.
LEMMA TotalUnion ==
  ASSUME NEW f, NEW S, IsFiniteSet(S), NEW T, IsFiniteSet(T), S \cap T = {},
         \A i \in S \cup T : f[i] \in Int
  PROVE  Total(f, S \cup T) = Total(f, S) + Total(f, T)
<1> DEFINE Good == {t \in SUBSET T : Total(f, S \cup t) = Total(f, S) + Total(f, t)}
<1>0. \A t \in SUBSET T : /\ IsFiniteSet(t) /\ Total(f, t) \in Int
                          /\ IsFiniteSet(S \cup t)
  BY FS_Subset, FS_Union, TotalInt
<1>1. Total(f, S) \in Int
  BY TotalInt
<1>2. ASSUME NEW t \in SUBSET T, \A u \in SUBSET t : u # t => u \in Good
      PROVE  t \in Good
  <2>1. CASE t = {}
    <3>1. Total(f, t) = 0
      BY <2>1, TotalChosen, FS_EmptySet
    <3>2. S \cup t = S
      BY <2>1
    <3>3. Total(f, S \cup t) = Total(f, S)
      BY <3>2, Zenon
    <3>4. Total(f, S) = Total(f, S) + Total(f, t)
      BY <1>1, <3>1
    <3> QED BY <3>3, <3>4, Zenon
  <2>2. CASE t # {}
    <3>1. PICK x \in t : TRUE
      BY <2>2
    <3> DEFINE r == t \ {x}
    <3>2. r \in Good
      BY <1>2, <3>1
    <3>3. (S \cup t) \ {x} = S \cup r
      BY <3>1
    <3>4. Total(f, S \cup t) = f[x] + Total(f, S \cup r)
      <4>1. \A i \in S \cup t : f[i] \in Int
        OBVIOUS
      <4> HIDE DEF r
      <4> QED BY <1>0, <3>1, <3>3, <4>1, TotalRemoveInt
    <3>5. Total(f, t) = f[x] + Total(f, r)
      <4>1. \A i \in t : f[i] \in Int
        OBVIOUS
      <4>2. IsFiniteSet(t)
        BY <1>0
      <4> QED BY <4>1, <4>2, TotalRemoveInt
    <3>6. f[x] \in Int /\ Total(f, r) \in Int
      BY <1>0, <3>1
    <3>7. Total(f, S \cup r) = Total(f, S) + Total(f, r)
      BY <3>2
    <3>8. Total(f, S \cup t) = Total(f, S) + Total(f, t)
      <4> HIDE DEF r
      <4> QED BY <1>1, <3>4, <3>5, <3>6, <3>7
    <3> QED BY <3>8
  <2> QED BY <2>1, <2>2
<1>3. T \in Good
  <2> HIDE DEF Good
  <2> QED BY <1>2, SubsetInduction
<1> QED BY <1>3

\* Multiplication distributes.
LEMMA Distribute ==
  ASSUME NEW a \in Int, NEW b \in Int, NEW c \in Int
  PROVE  /\ a * (b + c) = a * b + a * c
         /\ a * (b - c) = a * b - a * c
         /\ a * b \in Int /\ a * b = b * a
OBVIOUS

\* Amounts within a limit add up to at most as many times the limit.
LEMMA TotalAtMost ==
  ASSUME NEW f, NEW S, IsFiniteSet(S), NEW v \in Int,
         \A i \in S : f[i] \in Int /\ f[i] =< v
  PROVE  Total(f, S) =< v * Cardinality(S)
<1> DEFINE Good == {s \in SUBSET S : Total(f, s) =< v * Cardinality(s)}
<1>0. \A s \in SUBSET S : /\ IsFiniteSet(s) /\ Total(f, s) \in Int
                          /\ Cardinality(s) \in Nat
  BY FS_Subset, FS_CardinalityType, TotalInt
<1>1. ASSUME NEW s \in SUBSET S, \A t \in SUBSET s : t # s => t \in Good
      PROVE  s \in Good
  <2>1. CASE s = {}
    <3>1. Total(f, s) = 0 /\ Cardinality(s) = 0
      BY <2>1, TotalChosen, FS_EmptySet
    <3> QED BY <3>1
  <2>2. CASE s # {}
    <3>1. PICK x \in s : TRUE
      BY <2>2
    <3> DEFINE r == s \ {x}
    <3>2. r \in Good
      BY <1>1, <3>1
    <3>3. Total(f, s) = f[x] + Total(f, r)
      BY <1>0, <3>1, TotalRemoveInt
    <3>4. Cardinality(s) = Cardinality(r) + 1
      BY <1>0, <3>1, FS_RemoveElement
    <3>5. /\ f[x] \in Int /\ f[x] =< v
          /\ Total(f, r) \in Int /\ Cardinality(r) \in Nat
      BY <1>0, <3>1
    <3>6. Total(f, r) =< v * Cardinality(r)
      BY <3>2
    <3> HIDE DEF r
    <3>7. /\ v * (Cardinality(r) + 1) = v * Cardinality(r) + v * 1
          /\ v * 1 = v /\ v * Cardinality(r) \in Int
      BY <3>5, Distribute
    <3>8. v * Cardinality(s) = v * Cardinality(r) + v
      BY <3>4, <3>7, Zenon
    <3>9. f[x] + Total(f, r) =< v * Cardinality(r) + v
      BY <3>5, <3>6, <3>7
    <3>10. Total(f, s) =< v * Cardinality(s)
      BY <3>3, <3>8, <3>9, Zenon
    <3> QED BY <3>10, Zenon
  <2> QED BY <2>1, <2>2
<1>2. S \in Good
  <2> HIDE DEF Good
  <2> QED BY <1>1, SubsetInduction
<1> QED BY <1>2

\* An amount as many times as the set has elements.
LEMMA TotalConstant ==
  ASSUME NEW f, NEW S, IsFiniteSet(S), NEW v \in Int,
         \A i \in S : f[i] \in Int /\ f[i] = v
  PROVE  Total(f, S) = v * Cardinality(S)
<1> DEFINE Good == {s \in SUBSET S : Total(f, s) = v * Cardinality(s)}
<1>0. \A s \in SUBSET S : /\ IsFiniteSet(s) /\ Total(f, s) \in Int
                          /\ Cardinality(s) \in Nat
  BY FS_Subset, FS_CardinalityType, TotalInt
<1>1. ASSUME NEW s \in SUBSET S, \A t \in SUBSET s : t # s => t \in Good
      PROVE  s \in Good
  <2>1. CASE s = {}
    <3>1. Total(f, s) = 0 /\ Cardinality(s) = 0
      BY <2>1, TotalChosen, FS_EmptySet
    <3> QED BY <3>1
  <2>2. CASE s # {}
    <3>1. PICK x \in s : TRUE
      BY <2>2
    <3> DEFINE r == s \ {x}
    <3>2. r \in Good
      BY <1>1, <3>1
    <3>3. Total(f, s) = f[x] + Total(f, r)
      BY <1>0, <3>1, TotalRemoveInt
    <3>4. Cardinality(s) = Cardinality(r) + 1
      BY <1>0, <3>1, FS_RemoveElement
    <3>5. /\ f[x] \in Int /\ f[x] = v
          /\ Total(f, r) \in Int /\ Cardinality(r) \in Nat
      BY <1>0, <3>1
    <3>6. Total(f, r) = v * Cardinality(r)
      BY <3>2
    <3> HIDE DEF r
    <3>7. /\ v * (Cardinality(r) + 1) = v * Cardinality(r) + v * 1
          /\ v * 1 = v /\ v * Cardinality(r) \in Int
      BY <3>5, Distribute
    <3>8. v * Cardinality(s) = v * Cardinality(r) + v
      BY <3>4, <3>7, Zenon
    <3>9. f[x] + Total(f, r) = v * Cardinality(r) + v
      BY <3>5, <3>6, <3>7
    <3>10. Total(f, s) = v * Cardinality(s)
      BY <3>3, <3>8, <3>9, Zenon
    <3> QED BY <3>10, Zenon
  <2> QED BY <2>1, <2>2
<1>2. S \in Good
  <2> HIDE DEF Good
  <2> QED BY <1>1, SubsetInduction
<1> QED BY <1>2

\* A sum of combinations is the combination of the sums.
LEMMA TotalCombined ==
  ASSUME NEW S, IsFiniteSet(S), NEW f, NEW u, NEW v, NEW h, NEW c \in Nat, NEW d \in Nat,
         \A i \in S : f[i] \in Nat /\ u[i] \in Nat /\ v[i] \in Nat,
         \A i \in S : h[i] = f[i] + c * u[i] + d * v[i]
  PROVE  Total(h, S) = Total(f, S) + c * Total(u, S) + d * Total(v, S)
<1> DEFINE Good == {s \in SUBSET S :
                      Total(h, s) = Total(f, s) + c * Total(u, s) + d * Total(v, s)}
<1>0. \A s \in SUBSET S : /\ IsFiniteSet(s) /\ Total(f, s) \in Nat
                          /\ Total(u, s) \in Nat /\ Total(v, s) \in Nat
  BY FS_Subset, TotalType
<1>1. ASSUME NEW s \in SUBSET S, \A t \in SUBSET s : t # s => t \in Good
      PROVE  s \in Good
  <2> DEFINE x == CHOOSE x \in s : TRUE
             r == s \ {x}
  <2>1. IsFiniteSet(s)
    BY <1>0
  <2>2. CASE s = {}
    <3>1. Total(h, s) = 0 /\ Total(f, s) = 0 /\ Total(u, s) = 0 /\ Total(v, s) = 0
      BY <2>1, <2>2, TotalChosen
    <3> QED BY <3>1
  <2>3. CASE s # {}
    <3>1. x \in s /\ x \in S
      BY <2>3
    <3>2. /\ Total(h, s) = h[x] + Total(h, r) /\ Total(f, s) = f[x] + Total(f, r)
          /\ Total(u, s) = u[x] + Total(u, r) /\ Total(v, s) = v[x] + Total(v, r)
      BY <2>1, <2>3, TotalChosen
    <3>3. Total(h, r) = Total(f, r) + c * Total(u, r) + d * Total(v, r)
      BY <1>1, <3>1
    <3>4. /\ f[x] \in Nat /\ u[x] \in Nat /\ v[x] \in Nat
          /\ h[x] = f[x] + c * u[x] + d * v[x]
          /\ Total(f, r) \in Nat /\ Total(u, r) \in Nat /\ Total(v, r) \in Nat
      BY <1>0, <3>1
    <3> HIDE DEF x, r
    <3>5. /\ c * (u[x] + Total(u, r)) = c * u[x] + c * Total(u, r)
          /\ d * (v[x] + Total(v, r)) = d * v[x] + d * Total(v, r)
      BY <3>4
    <3>6. /\ c * u[x] \in Int /\ c * Total(u, r) \in Int
          /\ d * v[x] \in Int /\ d * Total(v, r) \in Int
      BY <3>4
    <3>7. Total(h, s) = Total(f, s) + c * Total(u, s) + d * Total(v, s)
      BY <3>2, <3>3, <3>4, <3>5, <3>6
    <3> QED BY <3>7
  <2> QED BY <2>2, <2>3
<1>2. S \in Good
  <2> HIDE DEF Good
  <2> QED BY <1>1, SubsetInduction
<1> QED BY <1>2

\* Multiples that are less, one by one, are less in sum.
LEMMA TotalLess ==
  ASSUME NEW S, IsFiniteSet(S), NEW f, NEW g, NEW c \in Nat,
         \A i \in S : f[i] \in Nat /\ g[i] \in Nat /\ f[i] * c =< g[i]
  PROVE  Total(f, S) * c =< Total(g, S)
<1> DEFINE Good == {s \in SUBSET S : Total(f, s) * c =< Total(g, s)}
<1>0. \A s \in SUBSET S : IsFiniteSet(s) /\ Total(f, s) \in Nat /\ Total(g, s) \in Nat
  BY FS_Subset, TotalType
<1>1. ASSUME NEW s \in SUBSET S, \A t \in SUBSET s : t # s => t \in Good
      PROVE  s \in Good
  <2> DEFINE x == CHOOSE x \in s : TRUE
             r == s \ {x}
  <2>1. IsFiniteSet(s)
    BY <1>0
  <2>2. CASE s = {}
    <3>1. Total(f, s) = 0 /\ Total(g, s) = 0
      BY <2>1, <2>2, TotalChosen
    <3> QED BY <3>1
  <2>3. CASE s # {}
    <3>1. x \in s /\ x \in S
      BY <2>3
    <3>2. Total(f, s) = f[x] + Total(f, r) /\ Total(g, s) = g[x] + Total(g, r)
      BY <2>1, <2>3, TotalChosen
    <3>3. Total(f, r) * c =< Total(g, r)
      BY <1>1, <3>1
    <3>4. /\ f[x] \in Nat /\ g[x] \in Nat /\ f[x] * c =< g[x]
          /\ Total(f, r) \in Nat /\ Total(g, r) \in Nat
      BY <1>0, <3>1
    <3> HIDE DEF x, r
    <3>5. (f[x] + Total(f, r)) * c = f[x] * c + Total(f, r) * c
      BY <3>4
    <3>6. f[x] * c \in Int /\ Total(f, r) * c \in Int
      BY <3>4
    <3>7. Total(f, s) * c =< Total(g, s)
      BY <3>2, <3>3, <3>4, <3>5, <3>6
    <3> QED BY <3>7
  <2> QED BY <2>2, <2>3
<1>2. S \in Good
  <2> HIDE DEF Good
  <2> QED BY <1>1, SubsetInduction
<1> QED BY <1>2

=============================================================================
