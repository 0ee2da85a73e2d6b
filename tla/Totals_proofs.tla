---------------------------- MODULE Totals_proofs ----------------------------
(***************************************************************************)
(* What a total is worth.  The models add up pallets and points with       *)
(* SumFunctionOnSet of the community modules, a fold over a finite set     *)
(* that takes its elements in an order of its own.  The lemmas here say    *)
(* that such a total is well defined, that the order does not matter, and  *)
(* how it changes with the set and with the amounts.                       *)
(*                                                                         *)
(* The induction they rest on is stated over a family of sets (the sets    *)
(* for which the claim holds) and drawn from the well-foundedness of the   *)
(* proper subsets of a finite set.                                         *)
(***************************************************************************)
EXTENDS FiniteSetsExt, FiniteSetTheorems, TLAPS

-----------------------------------------------------------------------------
(* Induction over a finite set.                                             *)

\* Every non-empty family of subsets of a finite set has a member none of whose
\* proper subsets is in the family.
LEMMA SmallestSubset ==
    ASSUME NEW S, IsFiniteSet(S), NEW B, B \subseteq SUBSET S, B # {}
    PROVE  \E m \in B : \A y \in B : y \subseteq m => y = m
<1>1. IsWellFoundedOn(StrictSubsetOrdering(S), FiniteSubsetsOf(S))
  BY FS_StrictSubsetOrderingWellFounded
<1>2. FiniteSubsetsOf(S) = SUBSET S
  BY FS_FiniteSubsetsOfFinite
<1>3. \E m \in B : \A y \in B : ~ (<<y, m>> \in StrictSubsetOrdering(S))
  <2> DEFINE R == StrictSubsetOrdering(S)
             D == FiniteSubsetsOf(S)
  <2>1. IsWellFoundedOn(R, D) /\ B \subseteq D /\ B # {}
    BY <1>1, <1>2
  <2> HIDE DEF R, D
  <2>2. \E m \in B : \A y \in B : ~ (<<y, m>> \in R)
    BY <2>1, WFMin
  <2> QED BY <2>2 DEF R
<1> QED BY <1>3 DEF StrictSubsetOrdering

\* Induction over a finite set: a family that has the empty set, and that has a
\* set whenever it has all it leaves when one element is taken away, has them all.
LEMMA SetInduction ==
    ASSUME NEW S, IsFiniteSet(S), NEW G, {} \in G,
           \A U \in SUBSET S : U # {} /\ (\A x \in U : U \ {x} \in G) => U \in G
    PROVE  S \in G
<1> DEFINE B == {U \in SUBSET S : U \notin G}
<1>1. SUFFICES ASSUME B # {} PROVE FALSE
  OBVIOUS
<1>2. PICK m \in B : \A y \in B : y \subseteq m => y = m
  <2>1. B \subseteq SUBSET S
    OBVIOUS
  <2> HIDE DEF B
  <2> QED BY <1>1, <2>1, SmallestSubset
<1>3. \A x \in m : m \ {x} \subseteq m /\ m \ {x} # m
  OBVIOUS
<1>4. \A x \in m : m \ {x} \in G
  BY <1>2, <1>3
<1> QED BY <1>2, <1>4

\* What a finite set is mapped to is finite.
LEMMA FiniteImage ==
    ASSUME NEW S, IsFiniteSet(S), NEW f
    PROVE  IsFiniteSet({f[x] : x \in S})
<1> DEFINE T == {f[x] : x \in S}
           g == [x \in S |-> f[x]]
<1>1. g \in Surjection(S, T)
  BY DEF Surjection
<1> HIDE DEF g, T
<1>2. IsFiniteSet(T)
  BY <1>1, FS_Surjection
<1> QED BY <1>2 DEF T

\* A non-empty set of natural numbers has a least element.
LEMMA LeastOf ==
    ASSUME NEW S \in SUBSET Nat, S # {}
    PROVE  Min(S) \in S /\ \A y \in S : Min(S) <= y
<1>1. PICK x \in S : \A y \in S : ~ (<<y, x>> \in OpToRel(<, Nat))
  <2> DEFINE R == OpToRel(<, Nat)
  <2>1. IsWellFoundedOn(R, Nat)
    BY NatLessThanWellFounded
  <2> HIDE DEF R
  <2>2. \E x \in S : \A y \in S : ~ (<<y, x>> \in R)
    BY <2>1, WFMin
  <2> QED BY <2>2 DEF R
<1>2. \A y \in S : ~ (y < x)
  BY <1>1 DEF OpToRel
<1>3. \A y \in S : x <= y
  BY <1>2
<1> QED BY <1>3 DEF Min

-----------------------------------------------------------------------------
(* The fold behind a total.                                                 *)

\* The element the fold takes first.
Pick(s) == CHOOSE x \in s : TRUE

\* A non-empty set has the element the fold takes from it.
LEMMA PickIn == \A s : s # {} => Pick(s) \in s
BY DEF Pick

\* g holds, for every subset of S, the total of f by the fold's own recursion.
Unfolds(f, S, g) ==
    g = [s \in SUBSET S |-> IF s = {} THEN 0 ELSE f[Pick(s)] + g[s \ {Pick(s)}]]

\* A total is the value, at its set, of a function that unfolds.
LEMMA TotalIsFold ==
    ASSUME NEW f, NEW S
    PROVE  SumFunctionOnSet(f, S) = (CHOOSE g : Unfolds(f, S, g))[S]
BY DEF SumFunctionOnSet, FoldFunctionOnSet, MapThenFoldSet, Unfolds, Pick

\* Two functions that unfold agree wherever both are defined.
LEMMA UnfoldsUnique ==
    ASSUME NEW f, NEW S, IsFiniteSet(S), NEW T \in SUBSET S,
           NEW g, Unfolds(f, S, g), NEW h, Unfolds(f, T, h)
    PROVE  g[T] = h[T]
<1> DEFINE G == {U \in SUBSET T : g[U] = h[U]}
<1>1. \A U \in SUBSET T :
         /\ g[U] = IF U = {} THEN 0 ELSE f[Pick(U)] + g[U \ {Pick(U)}]
         /\ h[U] = IF U = {} THEN 0 ELSE f[Pick(U)] + h[U \ {Pick(U)}]
  BY DEF Unfolds
<1>2. {} \in G
  BY <1>1
<1>3. \A U \in SUBSET T : U # {} /\ (\A x \in U : U \ {x} \in G) => U \in G
  BY <1>1, PickIn
<1>4. IsFiniteSet(T)
  BY FS_Subset
<1> HIDE DEF G
<1>5. T \in G
  BY <1>2, <1>3, <1>4, SetInduction
<1> QED BY <1>5 DEF G

\* On a finite set a function that unfolds exists, so the total is its value and not
\* an arbitrary one.
LEMMA UnfoldsExists ==
    ASSUME NEW f, NEW S, IsFiniteSet(S)
    PROVE  \E g : Unfolds(f, S, g)
<1> DEFINE B == {T \in SUBSET S : ~ \E g : Unfolds(f, T, g)}
<1>1. SUFFICES ASSUME B # {} PROVE FALSE
  OBVIOUS
<1>2. PICK m \in B : \A y \in B : y \subseteq m => y = m
  <2> HIDE DEF B
  <2>1. B \subseteq SUBSET S BY DEF B
  <2> QED BY <1>1, <2>1, SmallestSubset
<1> DEFINE H(u) == CHOOSE h : Unfolds(f, u, h)
           g == [s \in SUBSET m |->
                   IF s = {} THEN 0 ELSE f[Pick(s)] + H(s \ {Pick(s)})[s \ {Pick(s)}]]
<1>3. \A u \in SUBSET m : u # m => Unfolds(f, u, H(u))
  <2>1. TAKE u \in SUBSET m
  <2>2. HAVE u # m
  <2>3. u \notin B
    BY <1>2, <2>2
  <2>4. \E h : Unfolds(f, u, h)
    BY <2>3
  <2> QED BY <2>4
<1>4. \A u \in SUBSET m : u # m => g[u] = H(u)[u]
  <2>1. TAKE u \in SUBSET m
  <2>2. HAVE u # m
  <2>3. Unfolds(f, u, H(u))
    BY <1>3, <2>2
  <2>4. H(u)[u] = IF u = {} THEN 0 ELSE f[Pick(u)] + H(u)[u \ {Pick(u)}]
    <3> DEFINE hu == H(u)
    <3>1. Unfolds(f, u, hu) BY <2>3
    <3> HIDE DEF hu
    <3>2. hu[u] = IF u = {} THEN 0 ELSE f[Pick(u)] + hu[u \ {Pick(u)}]
      BY <3>1 DEF Unfolds
    <3> QED BY <3>2 DEF hu
  <2>5. CASE u = {}
    BY <2>4, <2>5
  <2>6. CASE u # {}
    <3> DEFINE v == u \ {Pick(u)}
    <3>1. v \in SUBSET u /\ v \in SUBSET m /\ v # m
      BY <2>2
    <3>2. Unfolds(f, v, H(v))
      BY <1>3, <3>1
    <3>3. IsFiniteSet(u)
      BY FS_Subset
    <3>4. H(u)[v] = H(v)[v]
      <4> DEFINE hu == H(u)
                 hv == H(v)
      <4>1. Unfolds(f, u, hu) /\ Unfolds(f, v, hv) BY <2>3, <3>2
      <4> HIDE DEF hu, hv, v
      <4>2. hu[v] = hv[v]
        BY <4>1, <3>1, <3>3, UnfoldsUnique
      <4> QED BY <4>2 DEF hu, hv
    <3>5. g[u] = f[Pick(u)] + H(v)[v]
      BY <2>6
    <3> QED BY <2>4, <2>6, <3>4, <3>5
  <2> QED BY <2>5, <2>6
<1>5. Unfolds(f, m, g)
  <2>1. \A s \in SUBSET m : s # {} => g[s \ {Pick(s)}] = H(s \ {Pick(s)})[s \ {Pick(s)}]
    <3>1. TAKE s \in SUBSET m
    <3>2. HAVE s # {}
    <3>3. s \ {Pick(s)} \in SUBSET m /\ s \ {Pick(s)} # m
      BY <3>2, PickIn
    <3> HIDE DEF g, H
    <3> QED BY <3>3, <1>4
  <2> DEFINE K == [s \in SUBSET m |-> IF s = {} THEN 0 ELSE f[Pick(s)] + g[s \ {Pick(s)}]]
  <2>2. \A s \in SUBSET m : g[s] = K[s]
    <3>1. TAKE s \in SUBSET m
    <3>2. g[s] = IF s = {} THEN 0 ELSE f[Pick(s)] + H(s \ {Pick(s)})[s \ {Pick(s)}]
      <4> HIDE DEF H
      <4> QED OBVIOUS
    <3>3. K[s] = IF s = {} THEN 0 ELSE f[Pick(s)] + g[s \ {Pick(s)}]
      <4> HIDE DEF H, g
      <4> QED OBVIOUS
    <3> HIDE DEF g, H, K
    <3> QED BY <2>1, <3>2, <3>3
  <2>3. g = K
    <3>1. DOMAIN g = SUBSET m /\ DOMAIN K = SUBSET m
      OBVIOUS
    <3>2. g = [s \in DOMAIN g |-> g[s]] /\ K = [s \in DOMAIN K |-> K[s]]
      OBVIOUS
    <3> HIDE DEF g, K
    <3> QED BY <2>2, <3>1, <3>2
  <2> HIDE DEF g
  <2> QED BY <2>3 DEF Unfolds
<1> HIDE DEF g
<1> QED BY <1>2, <1>5

\* The total of a finite set is the amount of one element and the total of the rest.
LEMMA TotalUnfold ==
    ASSUME NEW f, NEW S, IsFiniteSet(S)
    PROVE  SumFunctionOnSet(f, S) =
           IF S = {} THEN 0
           ELSE f[Pick(S)] + SumFunctionOnSet(f, S \ {Pick(S)})
<1> DEFINE g == CHOOSE h : Unfolds(f, S, h)
           T == S \ {Pick(S)}
           k == CHOOSE h : Unfolds(f, T, h)
<1>0. T \in SUBSET S /\ IsFiniteSet(T)
  BY FS_Subset
<1>1. Unfolds(f, S, g)
  BY UnfoldsExists
<1>2. Unfolds(f, T, k)
  <2> HIDE DEF T
  <2> QED BY <1>0, UnfoldsExists
<1>3. SumFunctionOnSet(f, S) = g[S]
  BY TotalIsFold
<1>4. SumFunctionOnSet(f, T) = k[T]
  BY TotalIsFold
<1> HIDE DEF g, k
<1>5. g[S] = IF S = {} THEN 0 ELSE f[Pick(S)] + g[T]
  BY <1>1 DEF Unfolds
<1>6. g[T] = k[T]
  <2> HIDE DEF T
  <2> QED BY <1>0, <1>1, <1>2, UnfoldsUnique
<1> QED BY <1>3, <1>4, <1>5, <1>6

-----------------------------------------------------------------------------
(* Totals.                                                                  *)

\* Nothing adds up to nothing.
LEMMA TotalEmpty == \A f : SumFunctionOnSet(f, {}) = 0
<1>1. TAKE f
<1>2. IsFiniteSet({}) BY FS_EmptySet
<1> QED BY <1>2, TotalUnfold

\* A total of integers is an integer.
LEMMA TotalInt ==
    ASSUME NEW S, IsFiniteSet(S), NEW f, \A i \in S : f[i] \in Int
    PROVE  SumFunctionOnSet(f, S) \in Int
<1> DEFINE G == {U \in SUBSET S : SumFunctionOnSet(f, U) \in Int}
<1>1. {} \in G
  BY TotalEmpty
<1>2. \A U \in SUBSET S : U # {} /\ (\A x \in U : U \ {x} \in G) => U \in G
  <2>1. TAKE U \in SUBSET S
  <2>2. HAVE U # {} /\ \A x \in U : U \ {x} \in G
  <2>3. IsFiniteSet(U) /\ Pick(U) \in U
    BY <2>2, FS_Subset, PickIn
  <2>4. SumFunctionOnSet(f, U) = f[Pick(U)] + SumFunctionOnSet(f, U \ {Pick(U)})
    BY <2>2, <2>3, TotalUnfold
  <2> QED BY <2>2, <2>3, <2>4
<1> HIDE DEF G
<1>3. S \in G
  BY <1>1, <1>2, SetInduction
<1> QED BY <1>3 DEF G

\* The order does not matter: any element can be taken out of the total first.
LEMMA TotalRemove ==
    ASSUME NEW S, IsFiniteSet(S), NEW f, \A i \in S : f[i] \in Int, NEW x \in S
    PROVE  SumFunctionOnSet(f, S) = f[x] + SumFunctionOnSet(f, S \ {x})
<1> DEFINE Good(U) == \A y \in U :
                         SumFunctionOnSet(f, U) = f[y] + SumFunctionOnSet(f, U \ {y})
           G == {U \in SUBSET S : Good(U)}
<1>1. {} \in G
  OBVIOUS
<1>2. ASSUME NEW U \in SUBSET S, \A z \in U : Good(U \ {z}), NEW y \in U
      PROVE  SumFunctionOnSet(f, U) = f[y] + SumFunctionOnSet(f, U \ {y})
  <2> DEFINE p == Pick(U)
             V == (U \ {y}) \ {p}
  <2>1. p \in U /\ IsFiniteSet(U) /\ IsFiniteSet(V)
    BY PickIn, FS_Subset
  <2>2. SumFunctionOnSet(f, U) = f[p] + SumFunctionOnSet(f, U \ {p})
    BY <2>1, TotalUnfold
  <2>3. SumFunctionOnSet(f, V) \in Int
    <3>1. \A i \in V : f[i] \in Int
      OBVIOUS
    <3> HIDE DEF V
    <3> QED BY <2>1, <3>1, TotalInt
  <2>4. (U \ {p}) \ {y} = V
    OBVIOUS
  <2> HIDE DEF p
  <2>5. CASE p = y
    BY <2>2, <2>5
  <2>6. CASE p # y
    <3>1. /\ SumFunctionOnSet(f, U \ {p}) = f[y] + SumFunctionOnSet(f, (U \ {p}) \ {y})
          /\ SumFunctionOnSet(f, U \ {y}) = f[p] + SumFunctionOnSet(f, V)
      BY <1>2, <2>1, <2>6
    <3> DEFINE a == SumFunctionOnSet(f, U)
               b == SumFunctionOnSet(f, U \ {p})
               c == SumFunctionOnSet(f, U \ {y})
               d == SumFunctionOnSet(f, V)
               v == f[p]
               w == f[y]
    <3>2. /\ a = v + b /\ b = w + d /\ c = v + d
          /\ d \in Int /\ v \in Int /\ w \in Int
      BY <2>1, <2>2, <2>3, <2>4, <3>1
    <3>3. a = w + c
      <4> HIDE DEF a, b, c, d, v, w
      <4> QED BY <3>2
    <3> QED BY <3>3
  <2> QED BY <2>5, <2>6
<1>3. \A U \in SUBSET S : U # {} /\ (\A z \in U : U \ {z} \in G) => U \in G
  BY <1>2
<1> HIDE DEF G
<1>4. S \in G
  BY <1>1, <1>3, SetInduction
<1> QED BY <1>4 DEF G

\* A total of natural numbers is a natural number.
LEMMA TotalNat ==
    ASSUME NEW S, IsFiniteSet(S), NEW f, \A i \in S : f[i] \in Nat
    PROVE  SumFunctionOnSet(f, S) \in Nat
<1> DEFINE G == {U \in SUBSET S : SumFunctionOnSet(f, U) \in Nat}
<1>1. {} \in G
  BY TotalEmpty
<1>2. \A U \in SUBSET S : U # {} /\ (\A x \in U : U \ {x} \in G) => U \in G
  <2>1. TAKE U \in SUBSET S
  <2>2. HAVE U # {} /\ \A x \in U : U \ {x} \in G
  <2>3. PICK x \in U : U \ {x} \in G
    BY <2>2
  <2>4. IsFiniteSet(U) /\ \A i \in U : f[i] \in Int
    BY FS_Subset
  <2>5. SumFunctionOnSet(f, U) = f[x] + SumFunctionOnSet(f, U \ {x})
    BY <2>4, TotalRemove
  <2> QED BY <2>3, <2>5
<1> HIDE DEF G
<1>3. S \in G
  BY <1>1, <1>2, SetInduction
<1> QED BY <1>3 DEF G

\* A new element adds its amount.
LEMMA TotalAdd ==
    ASSUME NEW S, IsFiniteSet(S), NEW x, x \notin S,
           NEW f, \A i \in S \cup {x} : f[i] \in Int
    PROVE  SumFunctionOnSet(f, S \cup {x}) = f[x] + SumFunctionOnSet(f, S)
<1>1. IsFiniteSet(S \cup {x}) /\ x \in S \cup {x} /\ (S \cup {x}) \ {x} = S
  BY FS_AddElement
<1> DEFINE T == S \cup {x}
<1>2. IsFiniteSet(T) /\ x \in T /\ \A i \in T : f[i] \in Int
  BY <1>1
<1> HIDE DEF T
<1>3. SumFunctionOnSet(f, T) = f[x] + SumFunctionOnSet(f, T \ {x})
  BY <1>2, TotalRemove
<1> QED BY <1>1, <1>3 DEF T

\* Equal amounts have equal totals.
LEMMA TotalSame ==
    ASSUME NEW S, IsFiniteSet(S), NEW f, NEW g, \A i \in S : f[i] \in Int /\ f[i] = g[i]
    PROVE  SumFunctionOnSet(f, S) = SumFunctionOnSet(g, S)
<1> DEFINE G == {U \in SUBSET S : SumFunctionOnSet(f, U) = SumFunctionOnSet(g, U)}
<1>1. {} \in G
  BY TotalEmpty
<1>2. \A U \in SUBSET S : U # {} /\ (\A x \in U : U \ {x} \in G) => U \in G
  <2>1. TAKE U \in SUBSET S
  <2>2. HAVE U # {} /\ \A x \in U : U \ {x} \in G
  <2>3. PICK x \in U : U \ {x} \in G
    BY <2>2
  <2>4. IsFiniteSet(U) /\ (\A i \in U : f[i] \in Int) /\ (\A i \in U : g[i] \in Int)
    BY FS_Subset
  <2>5. SumFunctionOnSet(f, U) = f[x] + SumFunctionOnSet(f, U \ {x})
    BY <2>4, TotalRemove
  <2>6. SumFunctionOnSet(g, U) = g[x] + SumFunctionOnSet(g, U \ {x})
    BY <2>4, TotalRemove
  <2> QED BY <2>3, <2>5, <2>6
<1> HIDE DEF G
<1>3. S \in G
  BY <1>1, <1>2, SetInduction
<1> QED BY <1>3 DEF G

\* Larger amounts have a larger total.
LEMMA TotalMonotone ==
    ASSUME NEW S, IsFiniteSet(S), NEW f, NEW g,
           \A i \in S : f[i] \in Int /\ g[i] \in Int /\ f[i] <= g[i]
    PROVE  SumFunctionOnSet(f, S) <= SumFunctionOnSet(g, S)
<1> DEFINE G == {U \in SUBSET S : /\ SumFunctionOnSet(f, U) \in Int
                                  /\ SumFunctionOnSet(g, U) \in Int
                                  /\ SumFunctionOnSet(f, U) <= SumFunctionOnSet(g, U)}
<1>1. {} \in G
  BY TotalEmpty
<1>2. \A U \in SUBSET S : U # {} /\ (\A x \in U : U \ {x} \in G) => U \in G
  <2>1. TAKE U \in SUBSET S
  <2>2. HAVE U # {} /\ \A x \in U : U \ {x} \in G
  <2>3. PICK x \in U : U \ {x} \in G
    BY <2>2
  <2>4. IsFiniteSet(U) /\ (\A i \in U : f[i] \in Int) /\ (\A i \in U : g[i] \in Int)
    BY FS_Subset
  <2>5. SumFunctionOnSet(f, U) = f[x] + SumFunctionOnSet(f, U \ {x})
    BY <2>4, TotalRemove
  <2>6. SumFunctionOnSet(g, U) = g[x] + SumFunctionOnSet(g, U \ {x})
    BY <2>4, TotalRemove
  <2>7. f[x] \in Int /\ g[x] \in Int /\ f[x] <= g[x] /\ U \in SUBSET S
    OBVIOUS
  <2>8. SumFunctionOnSet(f, U \ {x}) \in Int /\ SumFunctionOnSet(g, U \ {x}) \in Int
        /\ SumFunctionOnSet(f, U \ {x}) <= SumFunctionOnSet(g, U \ {x})
    BY <2>3
  <2>9. /\ SumFunctionOnSet(f, U) \in Int
        /\ SumFunctionOnSet(g, U) \in Int
        /\ SumFunctionOnSet(f, U) <= SumFunctionOnSet(g, U)
    <3> HIDE DEF G
    <3> QED BY <2>5, <2>6, <2>7, <2>8
  <2> QED BY <2>9
<1> HIDE DEF G
<1>3. S \in G
  BY <1>1, <1>2, SetInduction
<1> QED BY <1>3 DEF G

\* A part of the set has at most the total of the whole.
LEMMA TotalPart ==
    ASSUME NEW S, IsFiniteSet(S), NEW f, \A i \in S : f[i] \in Nat, NEW T \in SUBSET S
    PROVE  SumFunctionOnSet(f, T) <= SumFunctionOnSet(f, S)
<1> DEFINE G == {U \in SUBSET S : SumFunctionOnSet(f, U \cap T) <= SumFunctionOnSet(f, U)}
<1>1. {} \in G
  <2>1. {} \cap T = {} OBVIOUS
  <2> QED BY <2>1, TotalEmpty
<1>2. \A U \in SUBSET S : U # {} /\ (\A x \in U : U \ {x} \in G) => U \in G
  <2>1. TAKE U \in SUBSET S
  <2>2. HAVE U # {} /\ \A x \in U : U \ {x} \in G
  <2>3. PICK x \in U : U \ {x} \in G
    BY <2>2
  <2> DEFINE V == U \cap T
             W == U \ {x}
  <2>4. /\ IsFiniteSet(U) /\ (\A i \in U : f[i] \in Int)
        /\ IsFiniteSet(V) /\ (\A i \in V : f[i] \in Int)
        /\ IsFiniteSet(W) /\ (\A i \in W : f[i] \in Nat)
        /\ IsFiniteSet(V \ {x}) /\ (\A i \in V \ {x}: f[i] \in Nat)
    BY FS_Subset
  <2>5. SumFunctionOnSet(f, U) = f[x] + SumFunctionOnSet(f, W)
    BY <2>4, TotalRemove
  <2>6. /\ SumFunctionOnSet(f, W) \in Nat
        /\ SumFunctionOnSet(f, V \ {x}) \in Nat
        /\ f[x] \in Nat
    <3> HIDE DEF V, W
    <3> QED BY <2>4, TotalNat
  <2>7. x \in V => SumFunctionOnSet(f, V) = f[x] + SumFunctionOnSet(f, V \ {x})
    <3> HIDE DEF V, W
    <3> QED BY <2>4, TotalRemove
  <2>8. x \notin V => V = V \ {x}
    OBVIOUS
  <2>9. SumFunctionOnSet(f, V \ {x}) <= SumFunctionOnSet(f, W)
    <3>1. V \ {x} = W \cap T OBVIOUS
    <3> QED BY <2>3, <3>1
  <2>10. SumFunctionOnSet(f, V) <= SumFunctionOnSet(f, U)
    <3> DEFINE a == SumFunctionOnSet(f, U)
               b == SumFunctionOnSet(f, V)
               c == SumFunctionOnSet(f, W)
               d == SumFunctionOnSet(f, V \ {x})
               v == f[x]
    <3> HIDE DEF V, W
    <3>1. /\ a = v + c /\ v \in Nat /\ c \in Nat /\ d \in Nat /\ d <= c
          /\ b = v + d \/ b = d
      BY <2>5, <2>6, <2>7, <2>8, <2>9
    <3> HIDE DEF a, b, c, d, v
    <3>2. b <= a
      BY <3>1
    <3> QED BY <3>2 DEF a, b
  <2> QED BY <2>10
<1> HIDE DEF G
<1>3. S \in G
  BY <1>1, <1>2, SetInduction
<1>4. S \cap T = T OBVIOUS
<1> QED BY <1>3, <1>4 DEF G

\* Two parts without a common element.
LEMMA TotalUnion ==
    ASSUME NEW S, IsFiniteSet(S), NEW T, IsFiniteSet(T), S \cap T = {},
           NEW f, \A i \in S \cup T : f[i] \in Int
    PROVE  SumFunctionOnSet(f, S \cup T) = SumFunctionOnSet(f, S) + SumFunctionOnSet(f, T)
<1> DEFINE Sum(U) == SumFunctionOnSet(f, U)
           G == {U \in SUBSET S : Sum(U \cup T) = Sum(U) + Sum(T)}
<1>0. Sum(T) \in Int
  BY TotalInt
<1>1. {} \in G
  <2>1. {} \cup T = T /\ Sum({}) = 0
    BY TotalEmpty
  <2> HIDE DEF Sum
  <2> QED BY <1>0, <2>1
<1>2. \A U \in SUBSET S : U # {} /\ (\A x \in U : U \ {x} \in G) => U \in G
  <2>1. TAKE U \in SUBSET S
  <2>2. HAVE U # {} /\ \A x \in U : U \ {x} \in G
  <2>3. PICK x \in U : U \ {x} \in G
    BY <2>2
  <2> DEFINE V == U \cup T
             W == U \ {x}
  <2>4. /\ IsFiniteSet(U) /\ (\A i \in U : f[i] \in Int) /\ x \in U
        /\ IsFiniteSet(V) /\ (\A i \in V : f[i] \in Int) /\ x \in V
        /\ V \ {x} = W \cup T
        /\ IsFiniteSet(W) /\ \A i \in W : f[i] \in Int
    BY FS_Subset, FS_Union
  <2>5. Sum(U) = f[x] + Sum(U \ {x}) /\ Sum(W) \in Int
    <3> HIDE DEF W
    <3> QED BY <2>4, TotalRemove, TotalInt
  <2>6. Sum(V) = f[x] + Sum(V \ {x})
    <3> HIDE DEF V, W
    <3> QED BY <2>4, TotalRemove
  <2>7. Sum(W \cup T) = Sum(W) + Sum(T)
    BY <2>3
  <2>8. Sum(V) = Sum(U) + Sum(T)
    <3> DEFINE u == Sum(U)
               v == Sum(V)
               w == Sum(W)
               r == Sum(T)
               a == f[x]
    <3>1. a \in Int /\ w \in Int /\ r \in Int /\ u = a + w /\ v = a + (w + r)
      BY <1>0, <2>4, <2>5, <2>6, <2>7
    <3>2. v = u + r
      <4> HIDE DEF u, v, w, r, a
      <4> QED BY <3>1
    <3> QED BY <3>2
  <2> QED BY <2>8
<1> HIDE DEF G
<1>3. S \in G
  BY <1>1, <1>2, SetInduction
<1> QED BY <1>3 DEF G

\* Amounts that add up have totals that add up.
LEMMA TotalSum ==
    ASSUME NEW S, IsFiniteSet(S), NEW f, NEW g, NEW h,
           \A i \in S : f[i] \in Int /\ g[i] \in Int /\ h[i] = f[i] + g[i]
    PROVE  SumFunctionOnSet(h, S) = SumFunctionOnSet(f, S) + SumFunctionOnSet(g, S)
<1> DEFINE Claim(a, b, c) == a \in Int /\ b \in Int /\ c = a + b
           G == {U \in SUBSET S : Claim(SumFunctionOnSet(f, U), SumFunctionOnSet(g, U),
                                        SumFunctionOnSet(h, U))}
<1>1. {} \in G
  BY TotalEmpty
<1>2. \A U \in SUBSET S : U # {} /\ (\A x \in U : U \ {x} \in G) => U \in G
  <2>1. TAKE U \in SUBSET S
  <2>2. HAVE U # {} /\ \A x \in U : U \ {x} \in G
  <2>3. PICK x \in U : U \ {x} \in G
    BY <2>2
  <2>4. /\ IsFiniteSet(U)
        /\ (\A i \in U : f[i] \in Int) /\ (\A i \in U : g[i] \in Int) /\ \A i \in U : h[i] \in Int
    BY FS_Subset
  <2>5. SumFunctionOnSet(f, U) = f[x] + SumFunctionOnSet(f, U \ {x})
    BY <2>4, TotalRemove
  <2>6. SumFunctionOnSet(g, U) = g[x] + SumFunctionOnSet(g, U \ {x})
    BY <2>4, TotalRemove
  <2>7. SumFunctionOnSet(h, U) = h[x] + SumFunctionOnSet(h, U \ {x})
    BY <2>4, TotalRemove
  <2>8. f[x] \in Int /\ g[x] \in Int /\ h[x] = f[x] + g[x]
    OBVIOUS
  <2>9. Claim(SumFunctionOnSet(f, U \ {x}), SumFunctionOnSet(g, U \ {x}), SumFunctionOnSet(h, U \ {x}))
    BY <2>3
  <2>10. Claim(SumFunctionOnSet(f, U), SumFunctionOnSet(g, U), SumFunctionOnSet(h, U))
    <3> HIDE DEF G
    <3> QED BY <2>5, <2>6, <2>7, <2>8, <2>9
  <2> QED BY <2>10
<1> HIDE DEF G
<1>3. S \in G
  BY <1>1, <1>2, SetInduction
<1> QED BY <1>3 DEF G

\* Multiples have a multiple as their total.
LEMMA TotalTimes ==
    ASSUME NEW S, IsFiniteSet(S), NEW f, NEW g, NEW c \in Int,
           \A i \in S : f[i] \in Int /\ g[i] = f[i] * c
    PROVE  SumFunctionOnSet(g, S) = SumFunctionOnSet(f, S) * c
<1> DEFINE Claim(a, b) == a \in Int /\ b = a * c
           G == {U \in SUBSET S : Claim(SumFunctionOnSet(f, U), SumFunctionOnSet(g, U))}
<1>1. {} \in G
  BY TotalEmpty
<1>2. \A U \in SUBSET S : U # {} /\ (\A x \in U : U \ {x} \in G) => U \in G
  <2>1. TAKE U \in SUBSET S
  <2>2. HAVE U # {} /\ \A x \in U : U \ {x} \in G
  <2>3. PICK x \in U : U \ {x} \in G
    BY <2>2
  <2>4. IsFiniteSet(U) /\ (\A i \in U : f[i] \in Int) /\ (\A i \in U : g[i] \in Int)
    BY FS_Subset
  <2>5. SumFunctionOnSet(f, U) = f[x] + SumFunctionOnSet(f, U \ {x})
    BY <2>4, TotalRemove
  <2>6. SumFunctionOnSet(g, U) = g[x] + SumFunctionOnSet(g, U \ {x})
    BY <2>4, TotalRemove
  <2>7. f[x] \in Int /\ g[x] = f[x] * c
    OBVIOUS
  <2>8. Claim(SumFunctionOnSet(f, U \ {x}), SumFunctionOnSet(g, U \ {x}))
    BY <2>3
  <2>9. Claim(SumFunctionOnSet(f, U), SumFunctionOnSet(g, U))
    <3> DEFINE a == SumFunctionOnSet(f, U)
               b == SumFunctionOnSet(g, U)
               p == SumFunctionOnSet(f, U \ {x})
               q == SumFunctionOnSet(g, U \ {x})
               v == f[x]
               w == g[x]
    <3>1. a = v + p /\ b = w + q /\ v \in Int /\ w = v * c /\ p \in Int /\ q = p * c
      BY <2>5, <2>6, <2>7, <2>8
    <3>2. a \in Int /\ b = a * c
      <4> HIDE DEF a, b, p, q, v, w
      <4> QED BY <3>1
    <3> QED BY <3>2
  <2> QED BY <2>9
<1> HIDE DEF G
<1>3. S \in G
  BY <1>1, <1>2, SetInduction
<1> QED BY <1>3 DEF G

\* One amount more.
LEMMA TotalBump ==
    ASSUME NEW S, IsFiniteSet(S), NEW f, NEW g, NEW x \in S, NEW v \in Int,
           \A i \in S : f[i] \in Int,
           \A i \in S \ {x} : g[i] = f[i], g[x] = f[x] + v
    PROVE  SumFunctionOnSet(g, S) = SumFunctionOnSet(f, S) + v
<1> DEFINE W == S \ {x}
<1>1. /\ IsFiniteSet(W) /\ (\A i \in W : f[i] \in Int /\ f[i] = g[i])
      /\ (\A i \in W : f[i] \in Int) /\ \A i \in S : g[i] \in Int
  BY FS_Subset
<1>2. /\ SumFunctionOnSet(f, S) = f[x] + SumFunctionOnSet(f, W)
      /\ SumFunctionOnSet(g, S) = g[x] + SumFunctionOnSet(g, W)
  <2>1. SumFunctionOnSet(f, S) = f[x] + SumFunctionOnSet(f, S \ {x})
    BY TotalRemove
  <2>2. SumFunctionOnSet(g, S) = g[x] + SumFunctionOnSet(g, S \ {x})
    BY <1>1, TotalRemove
  <2> QED BY <2>1, <2>2
<1>3. SumFunctionOnSet(f, W) = SumFunctionOnSet(g, W) /\ SumFunctionOnSet(f, W) \in Int
  <2> HIDE DEF W
  <2> QED BY <1>1, TotalSame, TotalInt
<1>4. f[x] \in Int
  OBVIOUS
<1> HIDE DEF W
<1> QED BY <1>2, <1>3, <1>4

\* Those of S that p sends to c.
Fibre(S, p, c) == {x \in S : p[x] = c}

\* A total may be taken group by group: p says which of C an element counts
\* towards.
LEMMA TotalByGroup ==
    ASSUME NEW S, IsFiniteSet(S), NEW C, IsFiniteSet(C), NEW p, \A x \in S : p[x] \in C,
           NEW f, \A x \in S : f[x] \in Int,
           NEW F, \A c \in C : F[c] = SumFunctionOnSet(f, Fibre(S, p, c))
    PROVE  SumFunctionOnSet(f, S) = SumFunctionOnSet(F, C)
<1> DEFINE H(U) == [c \in C |-> SumFunctionOnSet(f, Fibre(U, p, c))]
           Good(U) == SumFunctionOnSet(f, U) = SumFunctionOnSet(H(U), C)
           G == {U \in SUBSET S : Good(U)}
<1>1. {} \in G
  <2> DEFINE Z == H({})
             N == [c \in C |-> 0]
  <2>1. \A c \in C : Fibre({}, p, c) = {}
    BY DEF Fibre
  <2>2. \A c \in C : Z[c] \in Int /\ N[c] = Z[c] * 0
    BY <2>1, TotalEmpty
  <2>3. \A c \in C : Z[c] \in Int /\ Z[c] = N[c]
    BY <2>1, TotalEmpty
  <2>4. SumFunctionOnSet(Z, C) \in Int
    <3> HIDE DEF Z, N
    <3> QED BY <2>2, TotalInt
  <2>5. SumFunctionOnSet(N, C) = SumFunctionOnSet(Z, C) * 0
    <3> HIDE DEF Z, N
    <3> QED BY <2>2, TotalTimes
  <2>6. SumFunctionOnSet(Z, C) = SumFunctionOnSet(N, C)
    <3> HIDE DEF Z, N
    <3> QED BY <2>3, TotalSame
  <2>7. SumFunctionOnSet(Z, C) = 0
    <3> HIDE DEF Z, N
    <3> QED BY <2>4, <2>5, <2>6
  <2> QED BY <2>7, TotalEmpty
<1>2. \A U \in SUBSET S : U # {} /\ (\A x \in U : U \ {x} \in G) => U \in G
  <2>1. TAKE U \in SUBSET S
  <2>2. HAVE U # {} /\ \A x \in U : U \ {x} \in G
  <2>3. PICK x \in U : U \ {x} \in G
    BY <2>2
  <2> DEFINE W == U \ {x}
             a == H(W)
             b == H(U)
  <2>4. IsFiniteSet(U) /\ (\A i \in U : f[i] \in Int) /\ x \in S /\ p[x] \in C /\ f[x] \in Int
    BY FS_Subset
  <2>5. SumFunctionOnSet(f, U) = f[x] + SumFunctionOnSet(f, U \ {x})
    BY <2>4, TotalRemove
  <2>6. \A c \in C : IsFiniteSet(Fibre(W, p, c)) /\ IsFiniteSet(Fibre(U, p, c))
    BY <2>4, FS_Subset DEF Fibre
  <2>7. \A c \in C : SumFunctionOnSet(f, Fibre(W, p, c)) \in Int
    <3>1. TAKE c \in C
    <3> DEFINE T == Fibre(W, p, c)
    <3>2. IsFiniteSet(T) /\ \A i \in T : f[i] \in Int
      BY <2>6 DEF Fibre
    <3>3. SumFunctionOnSet(f, T) \in Int
      <4> HIDE DEF T
      <4> QED BY <3>2, TotalInt
    <3> QED BY <3>3
  <2>8. \A c \in C \ {p[x]} : Fibre(U, p, c) = Fibre(W, p, c)
    BY DEF Fibre
  <2>9. SumFunctionOnSet(f, Fibre(U, p, p[x])) = SumFunctionOnSet(f, Fibre(W, p, p[x])) + f[x]
    <3> DEFINE T == Fibre(U, p, p[x])
    <3>1. /\ IsFiniteSet(T) /\ (\A i \in T : f[i] \in Int) /\ x \in T
          /\ T \ {x} = Fibre(W, p, p[x])
      BY <2>4, <2>6 DEF Fibre
    <3>2. SumFunctionOnSet(f, T) = f[x] + SumFunctionOnSet(f, T \ {x})
      <4> HIDE DEF T
      <4> QED BY <3>1, TotalRemove
    <3>3. SumFunctionOnSet(f, T \ {x}) \in Int
      BY <2>4, <2>7, <3>1
    <3> DEFINE u == SumFunctionOnSet(f, T)
               w == SumFunctionOnSet(f, T \ {x})
               v == f[x]
    <3>4. u = v + w /\ w \in Int /\ v \in Int
      BY <2>4, <3>2, <3>3
    <3>5. u = w + v
      <4> HIDE DEF u, w, v
      <4> QED BY <3>4
    <3> QED BY <3>1, <3>5
  <2>10. /\ \A c \in C : a[c] \in Int
         /\ \A c \in C \ {p[x]} : b[c] = a[c]
         /\ b[p[x]] = a[p[x]] + f[x]
    BY <2>4, <2>7, <2>8, <2>9
  <2>11. SumFunctionOnSet(b, C) = SumFunctionOnSet(a, C) + f[x]
    <3> DEFINE y == p[x]
               v == f[x]
    <3>1. /\ y \in C /\ v \in Int /\ \A c \in C : a[c] \in Int
          /\ \A c \in C \ {y} : b[c] = a[c]
          /\ b[y] = a[y] + v
      BY <2>4, <2>10
    <3> HIDE DEF a, b, y, v
    <3>2. SumFunctionOnSet(b, C) = SumFunctionOnSet(a, C) + v
      BY <3>1, TotalBump
    <3> QED BY <3>2 DEF v
  <2>12. SumFunctionOnSet(f, W) = SumFunctionOnSet(a, C)
    BY <2>3
  <2>13. SumFunctionOnSet(a, C) \in Int
    <3> HIDE DEF a
    <3> QED BY <2>10, TotalInt
  <2>14. SumFunctionOnSet(f, U) = SumFunctionOnSet(b, C)
    <3> HIDE DEF a, b
    <3> QED BY <2>4, <2>5, <2>11, <2>12, <2>13
  <2>15. Good(U)
    BY <2>14
  <2> QED BY <2>15
<1>3. S \in G
  <2> HIDE DEF G
  <2> QED BY <1>1, <1>2, SetInduction
<1> DEFINE h == H(S)
<1>4. SumFunctionOnSet(f, S) = SumFunctionOnSet(h, C)
  BY <1>3
<1>5. \A c \in C : h[c] \in Int /\ h[c] = F[c]
  <2>1. TAKE c \in C
  <2> DEFINE T == Fibre(S, p, c)
  <2>2. IsFiniteSet(T) /\ \A i \in T : f[i] \in Int
    BY FS_Subset DEF Fibre
  <2>3. SumFunctionOnSet(f, T) \in Int
    <3> HIDE DEF T
    <3> QED BY <2>2, TotalInt
  <2> QED BY <2>3
<1>6. SumFunctionOnSet(h, C) = SumFunctionOnSet(F, C)
  <2> HIDE DEF h
  <2> QED BY <1>5, TotalSame
<1> QED BY <1>4, <1>6

\* A total may be taken over names for its elements: p names each of S once.
LEMMA TotalRenamed ==
    ASSUME NEW S, IsFiniteSet(S), NEW C, IsFiniteSet(C), NEW p, \A x \in S : p[x] \in C,
           \A x \in S, y \in S : p[x] = p[y] => x = y,
           \A c \in C : \E x \in S : p[x] = c,
           NEW f, \A x \in S : f[x] \in Int,
           NEW F, \A x \in S : F[p[x]] = f[x]
    PROVE  SumFunctionOnSet(f, S) = SumFunctionOnSet(F, C)
<1>1. ASSUME NEW c \in C
      PROVE  F[c] = SumFunctionOnSet(f, Fibre(S, p, c))
  <2>1. PICK x \in S : p[x] = c
    OBVIOUS
  <2> DEFINE T == Fibre(S, p, c)
  <2>2. T = {x}
    BY <2>1 DEF Fibre
  <2>3. IsFiniteSet(T) /\ (\A i \in T : f[i] \in Int) /\ x \in T /\ T \ {x} = {}
    BY <2>1, <2>2, FS_Subset DEF Fibre
  <2> HIDE DEF T
  <2>4. SumFunctionOnSet(f, T) = f[x] + SumFunctionOnSet(f, T \ {x})
    BY <2>3, TotalRemove
  <2>5. f[x] \in Int /\ F[c] = f[x] /\ SumFunctionOnSet(f, T \ {x}) = 0
    BY <2>1, <2>3, TotalEmpty
  <2> QED BY <2>4, <2>5 DEF T
<1> QED BY <1>1, TotalByGroup

\* A non-empty finite set of natural numbers has a greatest element.
LEMMA GreatestOf ==
    ASSUME NEW S \in SUBSET Nat, IsFiniteSet(S), S # {}
    PROVE  Max(S) \in S /\ \A y \in S : y <= Max(S)
<1> DEFINE G == {U \in SUBSET S : U = {} \/ \E x \in U : \A y \in U : y <= x}
<1>1. \A U \in SUBSET S : U # {} /\ (\A x \in U : U \ {x} \in G) => U \in G
  <2> SUFFICES ASSUME NEW U \in SUBSET S, U # {}, \A x \in U : U \ {x} \in G
               PROVE  \E x \in U : \A y \in U : y <= x
    OBVIOUS
  <2>1. PICK a \in U : TRUE
    OBVIOUS
  <2>2. CASE U \ {a} = {}
    <3>1. \A y \in U : y <= a
      BY <2>2
    <3> QED BY <3>1
  <2>3. CASE U \ {a} # {}
    <3>1. PICK b \in U \ {a} : \A y \in U \ {a} : y <= b
      BY <2>3
    <3>2. CASE a <= b
      BY <3>1, <3>2
    <3>3. CASE ~(a <= b)
      <4>1. \A y \in U : y <= a
        BY <3>1, <3>3
      <4> QED BY <4>1
    <3> QED BY <3>2, <3>3
  <2> QED BY <2>2, <2>3
<1>2. {} \in G
  OBVIOUS
<1>3. S \in G
  <2> HIDE DEF G
  <2> QED BY <1>1, <1>2, SetInduction
<1>4. \E x \in S : \A y \in S : y <= x
  BY <1>3
<1> QED BY <1>4 DEF Max

\* A total of nothing is nothing.
LEMMA TotalZero ==
    ASSUME NEW S, IsFiniteSet(S), NEW f, \A i \in S : f[i] = 0
    PROVE  SumFunctionOnSet(f, S) = 0
<1>1. \A i \in S : f[i] \in Int /\ f[i] = f[i] * 0
  OBVIOUS
<1>2. SumFunctionOnSet(f, S) = SumFunctionOnSet(f, S) * 0
  BY <1>1, TotalTimes
<1>3. SumFunctionOnSet(f, S) \in Int
  BY <1>1, TotalInt
<1> QED BY <1>2, <1>3

\* What is nothing may be left out of a total.
LEMMA TotalOfRest ==
    ASSUME NEW S, IsFiniteSet(S), NEW T \in SUBSET S, NEW f,
           \A i \in T : f[i] \in Int, \A i \in S \ T : f[i] = 0
    PROVE  SumFunctionOnSet(f, S) = SumFunctionOnSet(f, T)
<1> DEFINE R == S \ T
<1>1. S = T \cup R /\ T \cap R = {} /\ IsFiniteSet(T) /\ IsFiniteSet(R)
  BY FS_Subset
<1>2. (\A i \in T \cup R : f[i] \in Int) /\ (\A i \in R : f[i] = 0)
  OBVIOUS
<1> HIDE DEF R
<1>3. SumFunctionOnSet(f, T \cup R) = SumFunctionOnSet(f, T) + SumFunctionOnSet(f, R)
  BY <1>1, <1>2, TotalUnion
<1>4. SumFunctionOnSet(f, R) = 0
  BY <1>1, <1>2, TotalZero
<1>5. SumFunctionOnSet(f, T) \in Int
  BY <1>1, TotalInt
<1> QED BY <1>1, <1>3, <1>4, <1>5

\* A column of a table of rows f[x].
Column(f, S, y) == [x \in S |-> f[x][y]]

\* The totals of the rows and columns of a table.
TableTotals(S, T, f, row, col) ==
    /\ \A x \in S, y \in T : f[x][y] \in Int
    /\ \A x \in S : row[x] = SumFunctionOnSet(f[x], T)
    /\ \A y \in T : col[y] = SumFunctionOnSet(Column(f, S, y), S)

\* The total of all rows is the total of all columns.
LEMMA TotalSwap ==
    ASSUME NEW S, IsFiniteSet(S), NEW T, IsFiniteSet(T), NEW f, NEW row, NEW col,
           TableTotals(S, T, f, row, col)
    PROVE  SumFunctionOnSet(row, S) = SumFunctionOnSet(col, T)
<1> DEFINE c(y) == [x \in S |-> f[x][y]]
           k(U) == [y \in T |-> SumFunctionOnSet(c(y), U)]
           Good(U) == SumFunctionOnSet(row, U) = SumFunctionOnSet(k(U), T)
           G == {U \in SUBSET S : Good(U)}
<1>0. /\ \A x \in S, y \in T : f[x][y] \in Int
      /\ \A x \in S : row[x] = SumFunctionOnSet(f[x], T)
      /\ \A y \in T : col[y] = SumFunctionOnSet(Column(f, S, y), S)
  BY DEF TableTotals
<1>1. \A x \in S : row[x] \in Int
  BY <1>0, TotalInt
<1>2. {} \in G
  <2>1. \A y \in T : k({})[y] = 0
    BY TotalEmpty
  <2> DEFINE z == k({})
  <2>2. SumFunctionOnSet(z, T) = 0
    <3> HIDE DEF z
    <3>1. \A y \in T : z[y] = 0
      BY <2>1 DEF z
    <3> QED BY <3>1, TotalZero
  <2> QED BY <2>2, TotalEmpty
<1>3. \A U \in SUBSET S : U # {} /\ (\A x \in U : U \ {x} \in G) => U \in G
  <2> SUFFICES ASSUME NEW U \in SUBSET S, U # {}, \A x \in U : U \ {x} \in G
               PROVE  Good(U)
    OBVIOUS
  <2>1. PICK a \in U : TRUE
    OBVIOUS
  <2> DEFINE V == U \ {a}
  <2>2. Good(V) /\ a \in S /\ V \in SUBSET S /\ IsFiniteSet(U) /\ IsFiniteSet(V)
    BY FS_Subset
  <2>3. SumFunctionOnSet(row, U) = row[a] + SumFunctionOnSet(row, V)
    <3>1. \A x \in U : row[x] \in Int
      BY <1>1
    <3> HIDE DEF V, G
    <3> QED BY <2>2, <3>1, TotalRemove DEF V
  <2>4. ASSUME NEW y \in T
        PROVE  /\ k(U)[y] \in Int /\ k(V)[y] \in Int /\ f[a][y] \in Int
               /\ k(U)[y] = f[a][y] + k(V)[y]
    <3> DEFINE d == c(y)
    <3>1. (\A x \in S : d[x] \in Int) /\ d[a] = f[a][y]
      BY <1>0, <2>2
    <3>2. k(U)[y] = SumFunctionOnSet(d, U) /\ k(V)[y] = SumFunctionOnSet(d, V)
      OBVIOUS
    <3> HIDE DEF d, V, G, k
    <3>3. \A x \in U : d[x] \in Int
      BY <3>1
    <3>4. \A x \in V : d[x] \in Int
      BY <2>2, <3>1
    <3>5. SumFunctionOnSet(d, U) = d[a] + SumFunctionOnSet(d, V)
      BY <2>2, <3>3, TotalRemove DEF V
    <3>6. SumFunctionOnSet(d, U) \in Int /\ SumFunctionOnSet(d, V) \in Int
      BY <2>2, <3>3, <3>4, TotalInt
    <3> QED BY <2>2, <3>1, <3>2, <3>5, <3>6
  <2> DEFINE r == f[a]
             ku == k(U)
             kv == k(V)
  <2>5. \A y \in T : r[y] \in Int /\ kv[y] \in Int /\ ku[y] = r[y] + kv[y]
    BY <2>4
  <2>6. SumFunctionOnSet(ku, T) = SumFunctionOnSet(r, T) + SumFunctionOnSet(kv, T)
    <3> HIDE DEF r, ku, kv
    <3> QED BY <2>5, TotalSum
  <2>7. row[a] = SumFunctionOnSet(r, T)
    BY <1>0, <2>2
  <2> QED BY <2>2, <2>3, <2>6, <2>7
<1>4. S \in G
  <2> HIDE DEF G
  <2> QED BY <1>2, <1>3, SetInduction
<1>5. \A y \in T : k(S)[y] = col[y]
  BY <1>0 DEF Column
<1> DEFINE ks == k(S)
<1>6. \A y \in T : ks[y] \in Int
  <2>1. TAKE y \in T
  <2> DEFINE d == c(y)
  <2>2. \A x \in S : d[x] \in Int
    BY <1>0
  <2>3. SumFunctionOnSet(d, S) \in Int
    <3> HIDE DEF d
    <3> QED BY <2>2, TotalInt
  <2> QED BY <2>3
<1>7. SumFunctionOnSet(ks, T) = SumFunctionOnSet(col, T)
  <2>1. \A y \in T : ks[y] \in Int /\ ks[y] = col[y]
    BY <1>5, <1>6
  <2> HIDE DEF ks
  <2> QED BY <2>1, TotalSame
<1> QED BY <1>4, <1>7

\* A total of ones but for one amount does not depend on where that one stands.
LEMMA TotalOneOff ==
    ASSUME NEW S, IsFiniteSet(S), NEW c \in Int,
           NEW f, NEW x \in S, f[x] = c, \A i \in S \ {x} : f[i] = 1,
           NEW g, NEW y \in S, g[y] = c, \A i \in S \ {y} : g[i] = 1
    PROVE  SumFunctionOnSet(f, S) = SumFunctionOnSet(g, S)
<1> DEFINE one == [i \in S |-> 1]
           v == c - 1
<1>1. (\A i \in S : one[i] \in Int) /\ v \in Int
  OBVIOUS
<1>2. (\A i \in S \ {x} : f[i] = one[i]) /\ f[x] = one[x] + v
  OBVIOUS
<1>3. (\A i \in S \ {y} : g[i] = one[i]) /\ g[y] = one[y] + v
  OBVIOUS
<1> HIDE DEF one, v
<1>4. \A h : \A z \in S : (\A i \in S \ {z} : h[i] = one[i]) /\ h[z] = one[z] + v
          => SumFunctionOnSet(h, S) = SumFunctionOnSet(one, S) + v
  BY <1>1, TotalBump
<1> QED BY <1>2, <1>3, <1>4

\* Those ranked before one of S.
RankedBefore(S, r, t) == {u \in S : r[u] < r[t]}

\* Shares taken one after the other add up: each is what F gains by its own weight on
\* top of the weights ranked before it.
LEMMA TotalTelescopes ==
    ASSUME NEW S, IsFiniteSet(S), NEW w, \A t \in S : w[t] \in Nat,
           NEW r, \A t \in S : r[t] \in Nat, \A t \in S, u \in S : r[t] = r[u] => t = u,
           NEW F, \A n \in Nat : F[n] \in Int,
           NEW b, \A t \in S : b[t] = SumFunctionOnSet(w, RankedBefore(S, r, t)),
           NEW m, \A t \in S : m[t] = F[b[t] + w[t]] - F[b[t]]
    PROVE  SumFunctionOnSet(m, S) = F[SumFunctionOnSet(w, S)] - F[0]
<1> DEFINE Down(U) == \A u \in U, v \in S : r[v] < r[u] => v \in U
           Good(U) == Down(U) => SumFunctionOnSet(m, U) = F[SumFunctionOnSet(w, U)] - F[0]
           G == {U \in SUBSET S : Good(U)}
<1>1. \A t \in S : b[t] \in Nat /\ m[t] \in Int
  <2>1. TAKE t \in S
  <2> DEFINE U == RankedBefore(S, r, t)
  <2>2. IsFiniteSet(U) /\ \A u \in U : w[u] \in Nat
    BY FS_Subset DEF RankedBefore
  <2>3. b[t] = SumFunctionOnSet(w, U)
    OBVIOUS
  <2> HIDE DEF U
  <2>4. b[t] \in Nat
    BY <2>2, <2>3, TotalNat
  <2>5. w[t] \in Nat /\ m[t] = F[b[t] + w[t]] - F[b[t]]
    OBVIOUS
  <2>6. b[t] + w[t] \in Nat
    BY <2>4, <2>5
  <2> DEFINE x == b[t] + w[t]
             y == b[t]
  <2>7. m[t] = F[x] - F[y] /\ x \in Nat /\ y \in Nat
    BY <2>4, <2>5, <2>6
  <2> HIDE DEF x, y
  <2>8. F[x] \in Int /\ F[y] \in Int
    BY <2>7
  <2> QED BY <2>4, <2>7, <2>8
<1>2. {} \in G
  <2>1. SumFunctionOnSet(m, {}) = 0 /\ SumFunctionOnSet(w, {}) = 0
    BY TotalEmpty
  <2>2. F[0] - F[0] = 0
    <3>1. F[0] \in Int
      OBVIOUS
    <3> QED BY <3>1
  <2> QED BY <2>1, <2>2
<1>3. \A U \in SUBSET S : U # {} /\ (\A x \in U : U \ {x} \in G) => U \in G
  <2> SUFFICES ASSUME NEW U \in SUBSET S, U # {}, \A x \in U : U \ {x} \in G, Down(U)
               PROVE  SumFunctionOnSet(m, U) = F[SumFunctionOnSet(w, U)] - F[0]
    OBVIOUS
  <2>1. PICK a \in U : \A u \in U : r[u] <= r[a]
    <3> DEFINE R == {r[u] : u \in U}
    <3>1. R \in SUBSET Nat /\ R # {} /\ IsFiniteSet(U)
      BY FS_Subset
    <3>2. IsFiniteSet(R)
      BY <3>1, FiniteImage
    <3>3. Max(R) \in R /\ \A y \in R : y <= Max(R)
      <4> HIDE DEF R
      <4> QED BY <3>1, <3>2, GreatestOf
    <3>4. PICK a \in U : r[a] = Max(R)
      BY <3>3
    <3>5. \A u \in U : r[u] \in R
      OBVIOUS
    <3> HIDE DEF R
    <3>6. \A u \in U : r[u] <= r[a]
      BY <3>3, <3>4, <3>5
    <3> QED BY <3>6
  <2> DEFINE V == U \ {a}
  <2>2. a \in S /\ V \in SUBSET S /\ IsFiniteSet(U) /\ IsFiniteSet(V) /\ V \in G
    BY FS_Subset
  <2>3. V = RankedBefore(S, r, a)
    <3>1. \A u \in V : r[u] < r[a]
      <4>1. TAKE u \in V
      <4>2. r[u] <= r[a] /\ r[u] # r[a] /\ r[u] \in Nat /\ r[a] \in Nat
        BY <2>1, <2>2
      <4> QED BY <4>2
    <3>2. \A u \in S : r[u] < r[a] => u \in V
      <4>1. TAKE u \in S
      <4>2. r[u] \in Nat /\ r[a] \in Nat
        BY <2>2
      <4> QED BY <4>2
    <3> QED BY <3>1, <3>2 DEF RankedBefore
  <2>4. Down(V)
    <3> SUFFICES ASSUME NEW u \in V, NEW v \in S, r[v] < r[u]
                 PROVE  v \in V
      OBVIOUS
    <3>1. r[u] <= r[a] /\ r[u] \in Nat /\ r[a] \in Nat /\ r[v] \in Nat /\ v \in U
      BY <2>1, <2>2
    <3> QED BY <3>1
  <2>5. SumFunctionOnSet(m, V) = F[SumFunctionOnSet(w, V)] - F[0]
    BY <2>2, <2>4
  <2>6. b[a] = SumFunctionOnSet(w, V) /\ m[a] = F[b[a] + w[a]] - F[b[a]]
        /\ b[a] \in Nat /\ w[a] \in Nat /\ m[a] \in Int
    BY <1>1, <2>2, <2>3
  <2>7. (\A i \in U : m[i] \in Int) /\ (\A i \in U : w[i] \in Int) /\ (\A i \in V : m[i] \in Int)
    BY <1>1
  <2> HIDE DEF V, G, Down
  <2>8. SumFunctionOnSet(m, U) = m[a] + SumFunctionOnSet(m, V)
    BY <2>2, <2>7, TotalRemove DEF V
  <2>9. SumFunctionOnSet(w, U) = w[a] + SumFunctionOnSet(w, V)
    BY <2>2, <2>7, TotalRemove DEF V
  <2> DEFINE x == b[a] + w[a]
             y == b[a]
             z == 0
  <2>10. x \in Nat /\ y \in Nat /\ z \in Nat /\ SumFunctionOnSet(w, U) = x
         /\ SumFunctionOnSet(w, V) = y
    BY <2>6, <2>9
  <2>11. m[a] = F[x] - F[y] /\ SumFunctionOnSet(m, V) = F[y] - F[z]
    BY <2>5, <2>6, <2>10
  <2> HIDE DEF x, y, z
  <2>12. F[x] \in Int /\ F[y] \in Int /\ F[z] \in Int
    BY <2>10
  <2>13. SumFunctionOnSet(m, U) = F[SumFunctionOnSet(w, U)] - F[z]
    BY <2>8, <2>10, <2>11, <2>12
  <2> QED BY <2>13 DEF z
<1>4. S \in G
  <2> HIDE DEF G
  <2> QED BY <1>2, <1>3, SetInduction
<1> QED BY <1>4

=============================================================================
