----------------------------- MODULE SumProofs -----------------------------
(***************************************************************************)
(* Lemmas about SumFunctionOnSet, the sum the modules of this project take *)
(* over sets of orders, charges or lines.  The library states induction    *)
(* with an operator as parameter, which the provers cannot instantiate;    *)
(* here it is stated of a set: a family of subsets (of naturals) that      *)
(* holds the empty set (zero) and is closed under the step is everything,  *)
(* because a smallest exception would be none.                             *)
(***************************************************************************)
EXTENDS Integers, FiniteSets, Functions, FiniteSetTheorems,
        WellFoundedInduction, TLAPS

\* Induction over the naturals, for a set of them.
LEMMA NatSetInduction ==
    ASSUME NEW G \in SUBSET Nat, 0 \in G, \A n \in G : n + 1 \in G
    PROVE  G = Nat
<1> SUFFICES ASSUME Nat \ G # {}
             PROVE  FALSE
  OBVIOUS
<1>1. PICK R : R = OpToRel(<, Nat)
  OBVIOUS
<1>2. ASSUME NEW m \in Nat, NEW n \in Nat, m < n
      PROVE  <<m, n>> \in R
  BY <1>1, <1>2 DEF OpToRel
<1>3. PICK n \in Nat \ G : \A m \in Nat \ G : ~(<<m, n>> \in R)
  <2>1. IsWellFoundedOn(R, Nat)
    BY <1>1, NatLessThanWellFounded, Zenon
  <2>2. Nat \ G \subseteq Nat
    OBVIOUS
  <2> QED BY <2>1, <2>2, WFMin, Zenon
<1>4. n # 0
  OBVIOUS
<1>5. n - 1 \in Nat /\ n - 1 < n
  BY <1>4
<1>6. n - 1 \in Nat \ G
  BY <1>5
<1>7. <<n - 1, n>> \in R
  BY <1>2, <1>5
<1> QED BY <1>3, <1>6, <1>7

\* Induction over the subsets of a finite set, for a family of them.
LEMMA SubsetInduction ==
    ASSUME NEW D, IsFiniteSet(D), NEW G \in SUBSET (SUBSET D),
           {} \in G,
           \A S \in SUBSET D : S # {} /\ (\A x \in S : S \ {x} \in G) => S \in G
    PROVE  G = SUBSET D
<1> SUFFICES ASSUME (SUBSET D) \ G # {}
             PROVE  FALSE
  OBVIOUS
<1>1. PICK R : R = StrictSubsetOrdering(D)
  OBVIOUS
<1>2. IsWellFoundedOn(R, SUBSET D)
  <2>1. FiniteSubsetsOf(D) = SUBSET D
    BY FS_FiniteSubsetsOfFinite, Zenon
  <2>2. IsWellFoundedOn(StrictSubsetOrdering(D), FiniteSubsetsOf(D))
    BY FS_StrictSubsetOrderingWellFounded, Zenon
  <2> QED BY <1>1, <2>1, <2>2, Zenon
<1>3. PICK S \in (SUBSET D) \ G :
          \A T \in (SUBSET D) \ G : ~(<<T, S>> \in R)
  <2>1. PICK W, C : W = SUBSET D /\ C = W \ G
    OBVIOUS
  <2>2. C \subseteq W /\ C # {} /\ IsWellFoundedOn(R, W)
    BY <1>2, <2>1
  <2>3. \E S \in C : \A T \in C : ~(<<T, S>> \in R)
    BY <2>2, WFMin, Zenon
  <2> QED BY <2>1, <2>3
<1>4. S # {}
  OBVIOUS
<1>5. PICK x \in S : S \ {x} \notin G
  BY <1>4
<1>6. S \ {x} \in (SUBSET D) \ G
  BY <1>5
<1>7. <<S \ {x}, S>> \in R
  BY <1>1 DEF StrictSubsetOrdering
<1> QED BY <1>3, <1>6, <1>7

-----------------------------------------------------------------------------
(* The recursive function behind the sum *)

Pick(S) == CHOOSE x \in S : TRUE

\* g is the table of the sums of f over the subsets S of D that Dom holds.
Tabulates(g, f, Dom) ==
    g = [S \in Dom |-> IF S = {} THEN 0 ELSE f[Pick(S)] + g[S \ {Pick(S)}]]

Table(f, D) == CHOOSE g : Tabulates(g, f, SUBSET D)

\* The sum of the library is the last entry of its table.
LEMMA SumIsTable ==
    ASSUME NEW f, NEW D
    PROVE  SumFunctionOnSet(f, D) = Table(f, D)[D]
BY DEF SumFunctionOnSet, FoldFunctionOnSet, MapThenFoldSet, Table, Tabulates, Pick

\* The element the sum starts with is an element.
LEMMA PickIn ==
    ASSUME NEW S, S # {}
    PROVE  Pick(S) \in S
BY DEF Pick

\* The table exists: it is built by the size of the subsets.
LEMMA TableExists ==
    ASSUME NEW D, IsFiniteSet(D), NEW f
    PROVE  Tabulates(Table(f, D), f, SUBSET D)
<1> DEFINE Upto(n) == {S \in SUBSET D : Cardinality(S) <= n}
           G == {n \in Nat : \E g : Tabulates(g, f, Upto(n))}
<1>0. \A S \in SUBSET D : IsFiniteSet(S) /\ Cardinality(S) \in Nat
  BY FS_Subset, FS_CardinalityType
<1>1. 0 \in G
  <2> DEFINE g == [S \in Upto(0) |-> 0]
  <2>1. \A S \in Upto(0) : S = {}
    BY <1>0, FS_EmptySet
  <2>2. g = [S \in Upto(0) |-> IF S = {} THEN 0 ELSE f[Pick(S)] + g[S \ {Pick(S)}]]
    BY <2>1
  <2>3. Tabulates(g, f, Upto(0))
    BY <2>2 DEF Tabulates
  <2> QED BY <2>3
<1>2. ASSUME NEW n \in G
      PROVE  n + 1 \in G
  <2>0. PICK g : Tabulates(g, f, Upto(n))
    OBVIOUS
  <2> DEFINE h == [S \in Upto(n + 1) |->
                     IF S = {} THEN 0 ELSE f[Pick(S)] + g[S \ {Pick(S)}]]
  <2>1. ASSUME NEW S \in Upto(n + 1), S # {}
        PROVE  S \ {Pick(S)} \in Upto(n) /\ S \ {Pick(S)} \in Upto(n + 1)
    <3>1. Pick(S) \in S
      BY <2>1, PickIn
    <3>2. Cardinality(S \ {Pick(S)}) = Cardinality(S) - 1
      BY <1>0, <3>1, FS_RemoveElement
    <3>3. S \ {Pick(S)} \in SUBSET D
      OBVIOUS
    <3> QED BY <1>0, <3>2, <3>3
  <2>2. ASSUME NEW T \in Upto(n)
        PROVE  h[T] = g[T]
    <3>1. T \in Upto(n + 1)
      BY <1>0
    <3>2. g[T] = IF T = {} THEN 0 ELSE f[Pick(T)] + g[T \ {Pick(T)}]
      BY <2>0 DEF Tabulates
    <3> QED BY <3>1, <3>2
  <2>3. h = [S \in Upto(n + 1) |->
               IF S = {} THEN 0 ELSE f[Pick(S)] + h[S \ {Pick(S)}]]
    <3> HIDE DEF Upto
    <3>1. \A S \in Upto(n + 1) :
            (IF S = {} THEN 0 ELSE f[Pick(S)] + g[S \ {Pick(S)}])
              = (IF S = {} THEN 0 ELSE f[Pick(S)] + h[S \ {Pick(S)}])
      <4> HIDE DEF h
      <4> QED BY <2>1, <2>2
    <3> QED BY <3>1
  <2> HIDE DEF h, Upto
  <2>4. Tabulates(h, f, Upto(n + 1))
    BY <2>3 DEF Tabulates
  <2> QED BY <2>4
<1>3. G = Nat
  <2> HIDE DEF G
  <2>1. G \in SUBSET Nat
    BY DEF G
  <2> QED BY <1>1, <1>2, <2>1, NatSetInduction
<1>4. Cardinality(D) \in Nat
  BY FS_CardinalityType
<1>5. PICK g : Tabulates(g, f, Upto(Cardinality(D)))
  BY <1>3, <1>4
<1>6. Upto(Cardinality(D)) = SUBSET D
  BY FS_Subset
<1> HIDE DEF Upto
<1>7. Tabulates(g, f, SUBSET D)
  BY <1>5, <1>6
<1> QED BY <1>7 DEF Table

\* The table of a set holds the table of each of its subsets.
LEMMA TablesAgree ==
    ASSUME NEW D, IsFiniteSet(D), NEW f, NEW S \in SUBSET D
    PROVE  Table(f, D)[S] = SumFunctionOnSet(f, S)
<1> DEFINE t == Table(f, D)
           u == Table(f, S)
           G == {T \in SUBSET S : t[T] = u[T]}
<1>1. IsFiniteSet(S)
  BY FS_Subset
<1>2. Tabulates(t, f, SUBSET D) /\ Tabulates(u, f, SUBSET S)
  BY <1>1, TableExists
<1> HIDE DEF t, u
<1>3. /\ \A T \in SUBSET D : t[T] = IF T = {} THEN 0
                                    ELSE f[Pick(T)] + t[T \ {Pick(T)}]
      /\ \A T \in SUBSET S : u[T] = IF T = {} THEN 0
                                    ELSE f[Pick(T)] + u[T \ {Pick(T)}]
  BY <1>2 DEF Tabulates
<1>4. {} \in G
  BY <1>3
<1>5. ASSUME NEW T \in SUBSET S, T # {}, \A x \in T : T \ {x} \in G
      PROVE  T \in G
  <2>1. t[T \ {Pick(T)}] = u[T \ {Pick(T)}]
    BY <1>5, PickIn
  <2> QED BY <1>3, <1>5, <2>1
<1>6. G = SUBSET S
  <2>1. G \in SUBSET (SUBSET S)
    OBVIOUS
  <2> HIDE DEF G
  <2> QED BY <1>1, <1>4, <1>5, <2>1, SubsetInduction
<1> QED BY <1>6, SumIsTable DEF t, u

-----------------------------------------------------------------------------
(* What a sum is *)

\* Nothing sums up to zero.
LEMMA SumEmpty ==
    ASSUME NEW f
    PROVE  SumFunctionOnSet(f, {}) = 0
<1>1. Tabulates(Table(f, {}), f, SUBSET {})
  BY TableExists, FS_EmptySet
<1>2. Table(f, {})[{}] = 0
  BY <1>1 DEF Tabulates
<1> QED BY <1>2, SumIsTable

\* A sum starts with the element that is picked.
LEMMA SumPick ==
    ASSUME NEW S, IsFiniteSet(S), S # {}, NEW f
    PROVE  SumFunctionOnSet(f, S) = f[Pick(S)] + SumFunctionOnSet(f, S \ {Pick(S)})
<1>1. Tabulates(Table(f, S), f, SUBSET S)
  BY TableExists
<1>2. Table(f, S)[S] = f[Pick(S)] + Table(f, S)[S \ {Pick(S)}]
  BY <1>1 DEF Tabulates
<1>3. Table(f, S)[S \ {Pick(S)}] = SumFunctionOnSet(f, S \ {Pick(S)})
  BY TablesAgree
<1> QED BY <1>2, <1>3, SumIsTable

\* A sum of integers is an integer.
LEMMA SumType ==
    ASSUME NEW S, IsFiniteSet(S), NEW f, \A x \in S : f[x] \in Int
    PROVE  SumFunctionOnSet(f, S) \in Int
<1> DEFINE G == {T \in SUBSET S : SumFunctionOnSet(f, T) \in Int}
<1>1. {} \in G
  BY SumEmpty
<1>2. ASSUME NEW T \in SUBSET S, T # {}, \A x \in T : T \ {x} \in G
      PROVE  T \in G
  <2>1. IsFiniteSet(T) /\ Pick(T) \in T
    BY <1>2, FS_Subset, PickIn
  <2>2. SumFunctionOnSet(f, T) = f[Pick(T)] + SumFunctionOnSet(f, T \ {Pick(T)})
    BY <1>2, <2>1, SumPick
  <2> QED BY <1>2, <2>1, <2>2
<1>3. G = SUBSET S
  <2>1. G \in SUBSET (SUBSET S)
    OBVIOUS
  <2> HIDE DEF G
  <2> QED BY <1>1, <1>2, <2>1, SubsetInduction
<1> QED BY <1>3

\* The order of a sum does not matter: it may start with any element.
LEMMA SumRemove ==
    ASSUME NEW S, IsFiniteSet(S), NEW f, \A y \in S : f[y] \in Int, NEW x \in S
    PROVE  /\ SumFunctionOnSet(f, S) = f[x] + SumFunctionOnSet(f, S \ {x})
           /\ SumFunctionOnSet(f, S) \in Int
           /\ SumFunctionOnSet(f, S \ {x}) \in Int
<1> DEFINE Sum(T) == SumFunctionOnSet(f, T)
           G == {T \in SUBSET S : \A y \in T : Sum(T) = f[y] + Sum(T \ {y})}
<1>0. \A T \in SUBSET S : IsFiniteSet(T) /\ Sum(T) \in Int
  BY FS_Subset, SumType
<1>1. {} \in G
  OBVIOUS
<1>2. ASSUME NEW T \in SUBSET S, T # {}, \A z \in T : T \ {z} \in G
      PROVE  T \in G
  <2> SUFFICES ASSUME NEW y \in T
               PROVE  Sum(T) = f[y] + Sum(T \ {y})
    OBVIOUS
  <2>0. PICK c \in T : c = Pick(T)
    BY <1>2, PickIn
  <2>1. Sum(T) = f[c] + Sum(T \ {c})
    BY <1>0, <1>2, <2>0, SumPick
  <2>2. CASE y = c
    BY <2>1, <2>2
  <2>3. CASE y # c
    <3>1. Sum(T \ {c}) = f[y] + Sum((T \ {c}) \ {y})
      BY <1>2, <2>3
    <3>2. Sum(T \ {y}) = f[c] + Sum((T \ {y}) \ {c})
      BY <1>2, <2>3
    <3>3. (T \ {c}) \ {y} = (T \ {y}) \ {c}
      OBVIOUS
    <3>4. PICK r \in Int : r = Sum((T \ {c}) \ {y})
      BY <1>0
    <3>5. PICK m \in Int, n \in Int : m = f[c] /\ n = f[y]
      OBVIOUS
    <3>6. Sum(T) = m + (n + r)
      BY <2>1, <3>1, <3>4, <3>5
    <3>7. Sum(T \ {y}) = m + r
      BY <3>2, <3>3, <3>4, <3>5
    <3> HIDE DEF Sum
    <3>8. m + (n + r) = n + (m + r)
      OBVIOUS
    <3> QED BY <3>5, <3>6, <3>7, <3>8
  <2> QED BY <2>2, <2>3
<1>3. G = SUBSET S
  <2>1. G \in SUBSET (SUBSET S)
    OBVIOUS
  <2> HIDE DEF G
  <2> QED BY <1>1, <1>2, <2>1, SubsetInduction
<1>4. S \in G
  BY <1>3
<1> QED BY <1>0, <1>4

\* Functions that agree on a set have the same sum over it.
LEMMA SumSame ==
    ASSUME NEW S, IsFiniteSet(S), NEW f, NEW g, \A x \in S : f[x] = g[x]
    PROVE  SumFunctionOnSet(f, S) = SumFunctionOnSet(g, S)
<1> DEFINE G == {T \in SUBSET S : SumFunctionOnSet(f, T) = SumFunctionOnSet(g, T)}
<1>1. {} \in G
  BY SumEmpty
<1>2. ASSUME NEW T \in SUBSET S, T # {}, \A x \in T : T \ {x} \in G
      PROVE  T \in G
  <2>1. IsFiniteSet(T) /\ Pick(T) \in T
    BY <1>2, FS_Subset, PickIn
  <2>2. /\ SumFunctionOnSet(f, T) = f[Pick(T)] + SumFunctionOnSet(f, T \ {Pick(T)})
        /\ SumFunctionOnSet(g, T) = g[Pick(T)] + SumFunctionOnSet(g, T \ {Pick(T)})
    BY <1>2, <2>1, SumPick
  <2> QED BY <1>2, <2>1, <2>2
<1>3. G = SUBSET S
  <2>1. G \in SUBSET (SUBSET S)
    OBVIOUS
  <2> HIDE DEF G
  <2> QED BY <1>1, <1>2, <2>1, SubsetInduction
<1> QED BY <1>3

\* Changing one term changes the sum by as much.
LEMMA SumChange ==
    ASSUME NEW S, IsFiniteSet(S), NEW f, NEW g, NEW x \in S,
           \A y \in S : f[y] \in Int /\ g[y] \in Int,
           \A y \in S : y # x => g[y] = f[y]
    PROVE  /\ SumFunctionOnSet(g, S) = SumFunctionOnSet(f, S) + (g[x] - f[x])
           /\ SumFunctionOnSet(f, S) \in Int
<1>1. IsFiniteSet(S \ {x})
  BY FS_RemoveElement
<1>2. SumFunctionOnSet(f, S \ {x}) = SumFunctionOnSet(g, S \ {x})
  BY <1>1, SumSame
<1>3. /\ SumFunctionOnSet(f, S) = f[x] + SumFunctionOnSet(f, S \ {x})
      /\ SumFunctionOnSet(g, S) = g[x] + SumFunctionOnSet(g, S \ {x})
      /\ SumFunctionOnSet(f, S) \in Int /\ SumFunctionOnSet(f, S \ {x}) \in Int
  BY SumRemove
<1> QED BY <1>2, <1>3

\* One more term adds itself.
LEMMA SumAdd ==
    ASSUME NEW S, IsFiniteSet(S), NEW f, NEW x, x \notin S,
           \A y \in S \cup {x} : f[y] \in Int
    PROVE  /\ SumFunctionOnSet(f, S \cup {x}) = SumFunctionOnSet(f, S) + f[x]
           /\ SumFunctionOnSet(f, S) \in Int
<1>1. PICK T : T = S \cup {x}
  OBVIOUS
<1>2. IsFiniteSet(T) /\ T \ {x} = S /\ x \in T /\ \A y \in T : f[y] \in Int
  BY <1>1, FS_AddElement
<1>3. /\ SumFunctionOnSet(f, T) = f[x] + SumFunctionOnSet(f, T \ {x})
      /\ SumFunctionOnSet(f, T \ {x}) \in Int
  BY <1>2, SumRemove
<1>4. PICK m \in Int, n \in Int : m = f[x] /\ n = SumFunctionOnSet(f, T \ {x})
  BY <1>2, <1>3
<1>5. SumFunctionOnSet(f, T) = n + m
  BY <1>3, <1>4
<1>6. n = SumFunctionOnSet(f, S)
  BY <1>2, <1>4, Zenon
<1> QED BY <1>1, <1>4, <1>5, <1>6

\* A smaller sum for smaller terms.
LEMMA SumLeq ==
    ASSUME NEW S, IsFiniteSet(S), NEW f, NEW g,
           \A x \in S : f[x] \in Int /\ g[x] \in Int /\ f[x] <= g[x]
    PROVE  SumFunctionOnSet(f, S) <= SumFunctionOnSet(g, S)
<1> DEFINE G == {T \in SUBSET S : SumFunctionOnSet(f, T) <= SumFunctionOnSet(g, T)}
<1>0. \A T \in SUBSET S : /\ IsFiniteSet(T)
                          /\ SumFunctionOnSet(f, T) \in Int
                          /\ SumFunctionOnSet(g, T) \in Int
  BY FS_Subset, SumType
<1>1. {} \in G
  BY SumEmpty
<1>2. ASSUME NEW T \in SUBSET S, T # {}, \A x \in T : T \ {x} \in G
      PROVE  T \in G
  <2>1. PICK x \in T : x = Pick(T)
    BY <1>2, PickIn
  <2>2. /\ SumFunctionOnSet(f, T) = f[x] + SumFunctionOnSet(f, T \ {x})
        /\ SumFunctionOnSet(g, T) = g[x] + SumFunctionOnSet(g, T \ {x})
    BY <1>0, <1>2, <2>1, SumPick
  <2>3. /\ SumFunctionOnSet(f, T \ {x}) <= SumFunctionOnSet(g, T \ {x})
        /\ SumFunctionOnSet(f, T \ {x}) \in Int /\ SumFunctionOnSet(g, T \ {x}) \in Int
        /\ f[x] \in Int /\ g[x] \in Int /\ f[x] <= g[x]
    BY <1>0, <1>2
  <2> QED BY <2>2, <2>3
<1>3. G = SUBSET S
  <2>1. G \in SUBSET (SUBSET S)
    OBVIOUS
  <2> HIDE DEF G
  <2> QED BY <1>1, <1>2, <2>1, SubsetInduction
<1> QED BY <1>3

\* Terms that are not negative: their sum is not either, is no less than any of
\* them, and is zero only when all of them are.
LEMMA SumNat ==
    ASSUME NEW S, IsFiniteSet(S), NEW f, \A x \in S : f[x] \in Nat
    PROVE  /\ SumFunctionOnSet(f, S) \in Nat
           /\ \A x \in S : f[x] <= SumFunctionOnSet(f, S)
           /\ SumFunctionOnSet(f, S) = 0 <=> \A x \in S : f[x] = 0
<1> DEFINE z == [x \in S |-> 0]
           G == {T \in SUBSET S : SumFunctionOnSet(z, T) = 0}
<1>1. {} \in G
  BY SumEmpty
<1>2. ASSUME NEW T \in SUBSET S, T # {}, \A x \in T : T \ {x} \in G
      PROVE  T \in G
  <2>1. PICK x \in T : x = Pick(T)
    BY <1>2, PickIn
  <2>2. SumFunctionOnSet(z, T) = z[x] + SumFunctionOnSet(z, T \ {x})
    BY <1>2, <2>1, SumPick, FS_Subset
  <2> QED BY <1>2, <2>1, <2>2
<1>3. G = SUBSET S
  <2>1. G \in SUBSET (SUBSET S)
    OBVIOUS
  <2> HIDE DEF G
  <2> QED BY <1>1, <1>2, <2>1, SubsetInduction
<1>4. \A T \in SUBSET S : SumFunctionOnSet(z, T) = 0
  BY <1>3
<1>5. ASSUME NEW T \in SUBSET S
      PROVE  SumFunctionOnSet(f, T) \in Nat
  <2>1. IsFiniteSet(T) /\ \A x \in T : z[x] \in Int /\ f[x] \in Int /\ z[x] <= f[x]
    BY FS_Subset
  <2> HIDE DEF z
  <2>2. SumFunctionOnSet(z, T) <= SumFunctionOnSet(f, T)
    BY <2>1, SumLeq
  <2>3. SumFunctionOnSet(f, T) \in Int
    BY <2>1, SumType
  <2> QED BY <1>4, <2>2, <2>3
<1>6. ASSUME NEW x \in S
      PROVE  f[x] <= SumFunctionOnSet(f, S)
  <2>1. SumFunctionOnSet(f, S) = f[x] + SumFunctionOnSet(f, S \ {x})
    BY SumRemove
  <2>2. SumFunctionOnSet(f, S \ {x}) \in Nat
    BY <1>5
  <2> QED BY <2>1, <2>2
<1>7. ASSUME \A x \in S : f[x] = 0
      PROVE  SumFunctionOnSet(f, S) = 0
  <2>1. SumFunctionOnSet(f, S) = SumFunctionOnSet(z, S)
    BY <1>7, SumSame
  <2> QED BY <1>4, <2>1
<1>8. SumFunctionOnSet(f, S) \in Nat
  BY <1>5
<1>9. ASSUME SumFunctionOnSet(f, S) = 0, NEW x \in S
      PROVE  f[x] = 0
  BY <1>6, <1>9
<1> QED BY <1>6, <1>7, <1>8, <1>9

-----------------------------------------------------------------------------
(* Ranks and parts *)

\* A set that is not empty has an element of the lowest rank.
LEMMA LowestExists ==
    ASSUME NEW D, NEW rank \in [D -> Nat], D # {}
    PROVE  \E x \in D : \A y \in D : rank[x] <= rank[y]
<1> PICK W, I : W = Nat /\ I = {rank[x] : x \in D}
  OBVIOUS
<1>1. PICK R : R = OpToRel(<, Nat)
  OBVIOUS
<1>2. I \subseteq W /\ I # {} /\ IsWellFoundedOn(R, W)
  <2>1. IsWellFoundedOn(R, W)
    BY <1>1, NatLessThanWellFounded, Zenon
  <2> QED BY <2>1
<1>3. PICK n \in I : \A m \in I : ~(<<m, n>> \in R)
  BY <1>2, WFMin, Zenon
<1>4. ASSUME NEW m \in Nat, m < n
      PROVE  <<m, n>> \in R
  BY <1>1, <1>2, <1>4 DEF OpToRel
<1>5. PICK x \in D : rank[x] = n
  OBVIOUS
<1>6. ASSUME NEW y \in D
      PROVE  rank[x] <= rank[y]
  <2> PICK m \in I : m = rank[y]
    OBVIOUS
  <2>1. m \in Nat /\ n \in Nat
    OBVIOUS
  <2>2. ~(m < n)
    BY <1>3, <1>4, <2>1
  <2> QED BY <1>5, <2>1, <2>2
<1> QED BY <1>6

\* A sum over a set is that over a part and that over the rest.
LEMMA SumSplit ==
    ASSUME NEW S, IsFiniteSet(S), NEW f, \A x \in S : f[x] \in Int, NEW A \in SUBSET S
    PROVE  /\ SumFunctionOnSet(f, S) = SumFunctionOnSet(f, A) + SumFunctionOnSet(f, S \ A)
           /\ SumFunctionOnSet(f, A) \in Int /\ SumFunctionOnSet(f, S \ A) \in Int
<1> DEFINE Sum(T) == SumFunctionOnSet(f, T)
           G == {T \in SUBSET S : Sum(S) = Sum(T) + Sum(S \ T)}
<1>0. \A T \in SUBSET S : IsFiniteSet(T) /\ Sum(T) \in Int
  BY FS_Subset, SumType
<1>1. {} \in G
  <2>1. S \ {} = S
    OBVIOUS
  <2>2. Sum(S \ {}) = Sum(S)
    BY <2>1, Zenon
  <2>3. Sum({}) = 0 /\ Sum(S) \in Int
    BY <1>0, SumEmpty
  <2> QED BY <2>2, <2>3
<1>2. ASSUME NEW T \in SUBSET S, T # {}, \A x \in T : T \ {x} \in G
      PROVE  T \in G
  <2>1. PICK x \in T : TRUE
    BY <1>2
  <2>2. PICK U \in SUBSET S, V \in SUBSET S : U = T \ {x} /\ V = S \ U
    OBVIOUS
  <2>3. x \in V /\ V \ {x} = S \ T
    BY <2>2
  <2>4. Sum(S) = Sum(U) + Sum(V)
    BY <1>2, <2>2
  <2>5. Sum(V) = f[x] + Sum(V \ {x})
    BY <1>0, <2>3, SumRemove
  <2>6. Sum(V \ {x}) = Sum(S \ T)
    BY <2>3, Zenon
  <2>7. Sum(T) = f[x] + Sum(T \ {x})
    BY <1>0, SumRemove
  <2>8. Sum(T \ {x}) = Sum(U)
    BY <2>2, Zenon
  <2>9. PICK n \in Int : n = f[x]
    OBVIOUS
  <2>10. PICK a \in Int, b \in Int : a = Sum(U) /\ b = Sum(S \ T)
    BY <1>0
  <2>11. Sum(S) = a + (n + b) /\ Sum(T) = n + a
    BY <2>4, <2>5, <2>6, <2>7, <2>8, <2>9, <2>10
  <2> HIDE DEF Sum
  <2> QED BY <2>10, <2>11
<1>3. G = SUBSET S
  <2>1. G \in SUBSET (SUBSET S)
    OBVIOUS
  <2> HIDE DEF G
  <2> QED BY <1>1, <1>2, <2>1, SubsetInduction
<1>4. A \in G
  BY <1>3
<1> QED BY <1>0, <1>4

=============================================================================
