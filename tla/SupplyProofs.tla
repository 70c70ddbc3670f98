---------------------------- MODULE SupplyProofs ----------------------------
(***************************************************************************)
(* Proof that the node neither creates nor loses coins, for every set of   *)
(* transactions, addresses and blocks, and that no addition of coins in    *)
(* deliver_tx, deposit and unbond can overflow.                            *)
(*                                                                         *)
(* With SpendInvariant the bit vectors can be forgotten: the unspent       *)
(* outputs are a function of the set of transactions in the chain.  The    *)
(* argument is then one law per valid transaction (VerifiedBalance) and    *)
(* one per sum: what a transaction removes from and adds to the unspent    *)
(* outputs (UnspentStep, VerifiedUtxo) and to the stake (StakeStep).       *)
(*                                                                         *)
(* First the sums of Functions: SumFunctionOnSet(f, S) adds up f over a    *)
(* finite set S in the order CHOOSE picks its elements.  That the order    *)
(* does not matter is an induction over the finite subsets of S, which the *)
(* library offers as a well-founded ordering: SetInduction takes the       *)
(* property as a set F, and a least counterexample to S \in F is a         *)
(* contradiction.                                                          *)
(***************************************************************************)
EXTENDS ChainNodeProofs, Functions, FiniteSetTheorems

-----------------------------------------------------------------------------
(* Sums over finite sets *)

\* The element the fold takes next, and what its iteration satisfies.
Pick(s) == CHOOSE x \in s : TRUE
IsSum(f, S, g) == g = [s \in SUBSET S |-> IF s = {} THEN 0 ELSE f[Pick(s)] + g[s \ {Pick(s)}]]

\* The fold as a recursive function on the subsets of S.
LEMMA SumUnfold ==
  ASSUME NEW f, NEW S
  PROVE  SumFunctionOnSet(f, S) = (CHOOSE g : IsSum(f, S, g))[S]
BY DEF SumFunctionOnSet, FoldFunctionOnSet, MapThenFoldSet, IsSum, Pick

\* A nonempty set has the element that is picked.
LEMMA PickIn ==
  ASSUME NEW S, S # {}
  PROVE  Pick(S) \in S
BY DEF Pick

\* F has a finite set if it has every subset all of whose proper subsets it has.
LEMMA SetInduction ==
  ASSUME NEW S, IsFiniteSet(S), NEW F,
         \A T \in SUBSET S : (\A U \in SUBSET T : U # T => U \in F) => T \in F
  PROVE  S \in F
<1> DEFINE G == {T \in SUBSET S : T \notin F}
<1>1. SUFFICES ASSUME G # {} PROVE FALSE
  OBVIOUS
<1>2. G \subseteq FiniteSubsetsOf(S)
  BY FS_Subset DEF FiniteSubsetsOf
<1>3. IsWellFoundedOn(StrictSubsetOrdering(S), FiniteSubsetsOf(S))
  BY FS_StrictSubsetOrderingWellFounded
<1> HIDE DEF G
<1>4. PICK T \in G : \A U \in G : ~ (<<U, T>> \in StrictSubsetOrdering(S))
  BY <1>1, <1>2, <1>3, WFMin
<1> USE DEF G
<1>5. ASSUME NEW U \in SUBSET T, U # T
      PROVE  U \in F
  <2>1. <<U, T>> \in StrictSubsetOrdering(S) \/ U \notin SUBSET S
    BY <1>4, <1>5 DEF StrictSubsetOrdering
  <2> QED
    BY <1>4, <2>1
<1> QED
  BY <1>4, <1>5

\* Two such functions agree where the values do.
LEMMA SumAgree ==
  ASSUME NEW f, NEW S, NEW g, IsSum(f, S, g),
         NEW f2, NEW S2, NEW g2, IsSum(f2, S2, g2),
         NEW T \in SUBSET (S \cap S2), IsFiniteSet(T), \A x \in T : f[x] = f2[x]
  PROVE  g[T] = g2[T]
<1> DEFINE F == {U \in SUBSET T : g[U] = g2[U]}
<1>1. ASSUME NEW U \in SUBSET T, \A V \in SUBSET U : V # U => V \in F
      PROVE  U \in F
  <2>0. U \in SUBSET S /\ U \in SUBSET S2
    OBVIOUS
  <2>1. CASE U = {}
    <3>1. g[U] = 0 /\ g2[U] = 0
      BY <2>0, <2>1 DEF IsSum
    <3> QED
      BY <3>1
  <2>2. CASE U # {}
    <3>1. Pick(U) \in U
      BY <2>2, PickIn
    <3>2. g[U] = f[Pick(U)] + g[U \ {Pick(U)}]
      BY <2>0, <2>2, Zenon DEF IsSum
    <3>3. g2[U] = f2[Pick(U)] + g2[U \ {Pick(U)}]
      BY <2>0, <2>2, Zenon DEF IsSum
    <3>4. g[U \ {Pick(U)}] = g2[U \ {Pick(U)}]
      BY <1>1, <3>1
    <3> QED
      BY <3>1, <3>2, <3>3, <3>4
  <2> QED
    BY <2>1, <2>2
<1> HIDE DEF F
<1>2. T \in F
  BY <1>1, SetInduction
<1> QED
  BY <1>2 DEF F

\* A sum over a part, read off the function for the whole.
LEMMA SumValue ==
  ASSUME NEW f, NEW S, IsFiniteSet(S), NEW g, IsSum(f, S, g), NEW T \in SUBSET S,
         \E h : IsSum(f, T, h)
  PROVE  SumFunctionOnSet(f, T) = g[T]
<1>1. PICK h : IsSum(f, T, h) /\ SumFunctionOnSet(f, T) = h[T]
  BY SumUnfold
<1>2. IsFiniteSet(T)
  BY FS_Subset
<1> QED
  BY <1>1, <1>2, SumAgree

\* The recursive definition has a solution.
LEMMA SumExists ==
  ASSUME NEW f, NEW S, IsFiniteSet(S)
  PROVE  \E g : IsSum(f, S, g)
<1> DEFINE F == {T \in SUBSET S : \E g : IsSum(f, T, g)}
<1>1. ASSUME NEW T \in SUBSET S, \A U \in SUBSET T : U # T => U \in F
      PROVE  T \in F
  <2> DEFINE g == [s \in SUBSET T |-> IF s = {} THEN 0
                     ELSE f[Pick(s)] + SumFunctionOnSet(f, s \ {Pick(s)})]
  <2>1. ASSUME NEW s \in SUBSET T, s # {}
        PROVE  g[s \ {Pick(s)}] = SumFunctionOnSet(f, s \ {Pick(s)})
    <3> DEFINE U == s \ {Pick(s)}
    <3>1. Pick(s) \in s
      BY <2>1, PickIn
    <3>2. U \in SUBSET T /\ U # T /\ U \in SUBSET S
      BY <3>1
    <3>3. PICK h : IsSum(f, U, h)
      BY <1>1, <3>2
    <3>4. IsFiniteSet(U)
      BY <3>2, FS_Subset
    <3> HIDE DEF U
    <3>5. SumFunctionOnSet(f, U) = h[U]
      BY <3>3, <3>4, SumValue
    <3>6. CASE U = {}
      <4>1. h[U] = 0
        BY <3>3, <3>6 DEF IsSum
      <4>2. g[U] = 0
        BY <3>2, <3>6
      <4> QED
        BY <3>5, <4>1, <4>2 DEF U
    <3>7. CASE U # {}
      <4>1. Pick(U) \in U
        BY <3>7, PickIn
      <4>2. h[U] = f[Pick(U)] + h[U \ {Pick(U)}]
        BY <3>3, <3>7, Zenon DEF IsSum
      <4>3. U \ {Pick(U)} \in F
        BY <1>1, <3>2, <4>1
      <4>4. SumFunctionOnSet(f, U \ {Pick(U)}) = h[U \ {Pick(U)}]
        <5>1. U \ {Pick(U)} \in SUBSET U
          OBVIOUS
        <5>2. \E k : IsSum(f, U \ {Pick(U)}, k)
          BY <4>3
        <5> QED
          BY <3>3, <3>4, <5>1, <5>2, SumValue
      <4>5. g[U] = f[Pick(U)] + SumFunctionOnSet(f, U \ {Pick(U)})
        BY <3>2, <3>7
      <4> QED
        BY <3>5, <4>2, <4>4, <4>5 DEF U
    <3> QED
      BY <3>6, <3>7 DEF U
  <2>2. IsSum(f, T, g)
    BY <2>1, Zenon DEF IsSum
  <2> HIDE DEF g
  <2> QED
    BY <2>2
<1> HIDE DEF F
<1>2. S \in F
  BY <1>1, SetInduction
<1> QED
  BY <1>2 DEF F

\* Nothing adds up to zero.
LEMMA SumEmpty ==
  ASSUME NEW f
  PROVE  SumFunctionOnSet(f, {}) = 0
<1>1. IsFiniteSet({})
  BY FS_EmptySet
<1>2. PICK g : IsSum(f, {}, g)
  BY <1>1, SumExists
<1>3. SumFunctionOnSet(f, {}) = g[{}]
  BY <1>1, <1>2, SumValue
<1>4. g[{}] = 0
  BY <1>2 DEF IsSum
<1> QED
  BY <1>3, <1>4

\* One step of the fold.
LEMMA SumPick ==
  ASSUME NEW f, NEW S, IsFiniteSet(S), S # {}
  PROVE  /\ Pick(S) \in S
         /\ SumFunctionOnSet(f, S) = f[Pick(S)] + SumFunctionOnSet(f, S \ {Pick(S)})
<1>1. PICK g : IsSum(f, S, g)
  BY SumExists
<1>2. SumFunctionOnSet(f, S) = g[S]
  BY <1>1, SumValue
<1>3. IsFiniteSet(S \ {Pick(S)}) /\ S \ {Pick(S)} \in SUBSET S
  BY FS_Subset
<1>4. \E h : IsSum(f, S \ {Pick(S)}, h)
  BY <1>3, SumExists
<1>5. SumFunctionOnSet(f, S \ {Pick(S)}) = g[S \ {Pick(S)}]
  BY <1>1, <1>3, <1>4, SumValue
<1>6. g[S] = f[Pick(S)] + g[S \ {Pick(S)}]
  BY <1>1, Zenon DEF IsSum
<1> QED
  BY <1>2, <1>5, <1>6, PickIn

\* A sum depends on the values at the elements only.
LEMMA SumSame ==
  ASSUME NEW S, IsFiniteSet(S), NEW f, NEW f2, \A x \in S : f[x] = f2[x]
  PROVE  SumFunctionOnSet(f, S) = SumFunctionOnSet(f2, S)
<1>1. PICK g : IsSum(f, S, g)
  BY SumExists
<1>2. PICK g2 : IsSum(f2, S, g2)
  BY SumExists
<1>3. SumFunctionOnSet(f, S) = g[S]
  BY <1>1, SumValue
<1>4. SumFunctionOnSet(f2, S) = g2[S]
  BY <1>2, SumValue
<1>5. g[S] = g2[S]
  BY <1>1, <1>2, SumAgree
<1> QED
  BY <1>3, <1>4, <1>5

\* Integers add up to an integer,
LEMMA SumInt ==
  ASSUME NEW S, IsFiniteSet(S), NEW f, \A x \in S : f[x] \in Int
  PROVE  SumFunctionOnSet(f, S) \in Int
<1> DEFINE F == {T \in SUBSET S : SumFunctionOnSet(f, T) \in Int}
<1>1. ASSUME NEW T \in SUBSET S, \A U \in SUBSET T : U # T => U \in F
      PROVE  T \in F
  <2>1. CASE T = {}
    BY <2>1, SumEmpty
  <2>2. CASE T # {}
    <3>1. IsFiniteSet(T)
      BY FS_Subset
    <3>2. Pick(T) \in T /\ SumFunctionOnSet(f, T) = f[Pick(T)] + SumFunctionOnSet(f, T \ {Pick(T)})
      BY <2>2, <3>1, SumPick
    <3>3. SumFunctionOnSet(f, T \ {Pick(T)}) \in Int
      BY <1>1, <3>2
    <3> QED
      BY <3>2, <3>3
  <2> QED
    BY <2>1, <2>2
<1> HIDE DEF F
<1>2. S \in F
  BY <1>1, SetInduction
<1> QED
  BY <1>2 DEF F

\* and natural numbers to a natural number.
LEMMA SumNat ==
  ASSUME NEW S, IsFiniteSet(S), NEW f, \A x \in S : f[x] \in Nat
  PROVE  SumFunctionOnSet(f, S) \in Nat
<1> DEFINE F == {T \in SUBSET S : SumFunctionOnSet(f, T) \in Nat}
<1>1. ASSUME NEW T \in SUBSET S, \A U \in SUBSET T : U # T => U \in F
      PROVE  T \in F
  <2>1. CASE T = {}
    BY <2>1, SumEmpty
  <2>2. CASE T # {}
    <3>1. IsFiniteSet(T)
      BY FS_Subset
    <3>2. Pick(T) \in T /\ SumFunctionOnSet(f, T) = f[Pick(T)] + SumFunctionOnSet(f, T \ {Pick(T)})
      BY <2>2, <3>1, SumPick
    <3>3. SumFunctionOnSet(f, T \ {Pick(T)}) \in Nat
      BY <1>1, <3>2
    <3> QED
      BY <3>2, <3>3
  <2> QED
    BY <2>1, <2>2
<1> HIDE DEF F
<1>2. S \in F
  BY <1>1, SetInduction
<1> QED
  BY <1>2 DEF F

\* Any element may be taken out first: the order does not matter.
LEMMA SumRemove ==
  ASSUME NEW S, IsFiniteSet(S), NEW f, \A x \in S : f[x] \in Int, NEW y \in S
  PROVE  SumFunctionOnSet(f, S) = f[y] + SumFunctionOnSet(f, S \ {y})
<1> DEFINE F == {T \in SUBSET S : \A z \in T :
                   SumFunctionOnSet(f, T) = f[z] + SumFunctionOnSet(f, T \ {z})}
<1>0. \A T \in SUBSET S : IsFiniteSet(T) /\ SumFunctionOnSet(f, T) \in Int
  <2> TAKE T \in SUBSET S
  <2>1. IsFiniteSet(T)
    BY FS_Subset
  <2> QED
    BY <2>1, SumInt
<1>1. ASSUME NEW T \in SUBSET S, \A U \in SUBSET T : U # T => U \in F
      PROVE  T \in F
  <2>1. SUFFICES ASSUME NEW z \in T
                 PROVE  SumFunctionOnSet(f, T) = f[z] + SumFunctionOnSet(f, T \ {z})
    OBVIOUS
  <2> DEFINE p == Pick(T)
  <2>2. p \in T /\ SumFunctionOnSet(f, T) = f[p] + SumFunctionOnSet(f, T \ {p})
    BY <1>0, SumPick
  <2> HIDE DEF p
  <2>3. CASE z # p
    <3>1. T \ {p} \in F /\ T \ {z} \in F
      BY <1>1, <2>2
    <3>2. SumFunctionOnSet(f, T \ {p}) = f[z] + SumFunctionOnSet(f, (T \ {p}) \ {z})
      BY <2>3, <3>1
    <3>3. SumFunctionOnSet(f, T \ {z}) = f[p] + SumFunctionOnSet(f, (T \ {z}) \ {p})
      BY <2>2, <2>3, <3>1
    <3>4. (T \ {p}) \ {z} = (T \ {z}) \ {p}
      OBVIOUS
    <3> DEFINE a == SumFunctionOnSet(f, T)
               b == SumFunctionOnSet(f, T \ {p})
               c == SumFunctionOnSet(f, T \ {z})
               d == SumFunctionOnSet(f, (T \ {z}) \ {p})
    <3>5. a \in Int /\ b \in Int /\ c \in Int /\ d \in Int /\ f[z] \in Int /\ f[p] \in Int
      BY <1>0, <2>2
    <3>6. a = f[p] + b /\ b = f[z] + d /\ c = f[p] + d
      BY <2>2, <3>2, <3>3, <3>4, Zenon
    <3> HIDE DEF a, b, c, d
    <3>7. a = f[z] + c
      BY <3>5, <3>6
    <3> QED
      BY <3>7 DEF a, c
  <2> QED
    BY <2>2, <2>3
<1> HIDE DEF F
<1>2. S \in F
  BY <1>1, SetInduction
<1> QED
  BY <1>2 DEF F

\* Disjoint sets: the sums add up.
LEMMA SumUnion ==
  ASSUME NEW S, IsFiniteSet(S), NEW R, IsFiniteSet(R), S \cap R = {},
         NEW f, \A x \in S \cup R : f[x] \in Int
  PROVE  SumFunctionOnSet(f, S \cup R) = SumFunctionOnSet(f, S) + SumFunctionOnSet(f, R)
<1> DEFINE F == {T \in SUBSET S : SumFunctionOnSet(f, T \cup R)
                                 = SumFunctionOnSet(f, T) + SumFunctionOnSet(f, R)}
<1>0. ASSUME NEW T \in SUBSET (S \cup R)
      PROVE  IsFiniteSet(T) /\ SumFunctionOnSet(f, T) \in Int
  <2>1. IsFiniteSet(S \cup R)
    BY FS_Union, Zenon
  <2>2. IsFiniteSet(T)
    BY <2>1, FS_Subset
  <2> QED
    BY <2>2, SumInt
<1>1. ASSUME NEW T \in SUBSET S, \A U \in SUBSET T : U # T => U \in F
      PROVE  T \in F
  <2>1. CASE T = {}
    <3> DEFINE b == SumFunctionOnSet(f, R)
    <3>1. SumFunctionOnSet(f, T) = 0
      BY <2>1, SumEmpty
    <3>2. T \cup R = R
      BY <2>1
    <3>3. SumFunctionOnSet(f, T \cup R) = b
      BY <3>2
    <3>4. b \in Int
      BY <1>0
    <3> HIDE DEF b
    <3>5. SumFunctionOnSet(f, T \cup R) = SumFunctionOnSet(f, T) + b
      BY <3>1, <3>3, <3>4
    <3> QED
      BY <3>5 DEF b
  <2>2. CASE T # {}
    <3>1. PICK y \in T : TRUE
      BY <2>2
    <3> DEFINE a == SumFunctionOnSet(f, T \ {y})
               b == SumFunctionOnSet(f, R)
               c == SumFunctionOnSet(f, (T \cup R) \ {y})
               d == SumFunctionOnSet(f, T)
               e == SumFunctionOnSet(f, T \cup R)
    <3>2. a \in Int /\ b \in Int /\ c \in Int /\ d \in Int /\ e \in Int /\ f[y] \in Int
      BY <1>0
    <3>3. d = f[y] + a
      BY <1>0, SumRemove
    <3>4. e = f[y] + c
      BY <1>0, SumRemove, Zenon
    <3>5. (T \ {y}) \cup R = (T \cup R) \ {y}
      BY <3>1
    <3>6. c = a + b
      BY <1>1, <3>5
    <3> HIDE DEF a, b, c, d, e
    <3>7. e = d + b
      BY <3>2, <3>3, <3>4, <3>6
    <3> QED
      BY <3>7 DEF b, d, e
  <2> QED
    BY <2>1, <2>2
<1> HIDE DEF F
<1>2. S \in F
  BY <1>1, SetInduction
<1> QED
  BY <1>2 DEF F

\* With no negative values, a part is at most the whole.
LEMMA SumSubset ==
  ASSUME NEW S, IsFiniteSet(S), NEW T \in SUBSET S, NEW f, \A x \in S : f[x] \in Nat
  PROVE  /\ SumFunctionOnSet(f, S) = SumFunctionOnSet(f, T) + SumFunctionOnSet(f, S \ T)
         /\ SumFunctionOnSet(f, T) \in Nat
         /\ SumFunctionOnSet(f, S) \in Nat
         /\ SumFunctionOnSet(f, T) <= SumFunctionOnSet(f, S)
<1>1. IsFiniteSet(T) /\ IsFiniteSet(S \ T)
  BY FS_Subset
<1>2. T \cup (S \ T) = S /\ T \cap (S \ T) = {}
  OBVIOUS
<1>3. SumFunctionOnSet(f, S) = SumFunctionOnSet(f, T) + SumFunctionOnSet(f, S \ T)
  BY <1>1, <1>2, SumUnion
<1>4. /\ SumFunctionOnSet(f, S) \in Nat
      /\ SumFunctionOnSet(f, T) \in Nat
      /\ SumFunctionOnSet(f, S \ T) \in Nat
  BY <1>1, SumNat
<1> QED
  BY <1>3, <1>4

\* A sum may be taken over any set of indices in one-to-one correspondence.
LEMMA SumReindex ==
  ASSUME NEW S, IsFiniteSet(S), NEW R, NEW h \in [S -> R],
         \A x, y \in S : h[x] = h[y] => x = y,
         \A r \in R : \E x \in S : h[x] = r,
         NEW f, NEW g, \A x \in S : f[x] = g[h[x]] /\ f[x] \in Int
  PROVE  IsFiniteSet(R) /\ SumFunctionOnSet(f, S) = SumFunctionOnSet(g, R)
<1>f. IsFiniteSet(R)
  <2>1. h \in Surjection(S, R)
    BY DEF Surjection
  <2> QED
    BY <2>1, FS_Surjection
<1> DEFINE Im(T) == {r \in R : \E x \in T : h[x] = r}
           F == {T \in SUBSET S : SumFunctionOnSet(f, T) = SumFunctionOnSet(g, Im(T))}
<1>0. \A r \in R : g[r] \in Int
  OBVIOUS
<1>1. ASSUME NEW T \in SUBSET S, \A U \in SUBSET T : U # T => U \in F
      PROVE  T \in F
  <2>1. CASE T = {}
    <3>1. Im(T) = {}
      BY <2>1
    <3> QED
      BY <2>1, <3>1, SumEmpty
  <2>2. CASE T # {}
    <3>1. PICK y \in T : TRUE
      BY <2>2
    <3>2. IsFiniteSet(T) /\ IsFiniteSet(Im(T))
      BY <1>f, FS_Subset
    <3>3. SumFunctionOnSet(f, T) = f[y] + SumFunctionOnSet(f, T \ {y})
      BY <3>2, SumRemove
    <3>4. h[y] \in Im(T)
      OBVIOUS
    <3>5. SumFunctionOnSet(g, Im(T)) = g[h[y]] + SumFunctionOnSet(g, Im(T) \ {h[y]})
      <4> HIDE DEF Im
      <4>1. \A r \in Im(T) : g[r] \in Int
        BY <1>0 DEF Im
      <4> QED
        BY <3>2, <3>4, <4>1, SumRemove
    <3>6. Im(T \ {y}) = Im(T) \ {h[y]}
      OBVIOUS
    <3>7. SumFunctionOnSet(f, T \ {y}) = SumFunctionOnSet(g, Im(T \ {y}))
      BY <1>1, <3>1
    <3> QED
      BY <3>3, <3>5, <3>6, <3>7
  <2> QED
    BY <2>1, <2>2
<1>2. Im(S) = R
  OBVIOUS
<1> HIDE DEF F
<1>3. S \in F
  BY <1>1, SetInduction
<1> QED
  BY <1>f, <1>2, <1>3 DEF F

\* One value changes: the sum changes by the difference.
LEMMA SumChangeOne ==
  ASSUME NEW S, IsFiniteSet(S), NEW y \in S, NEW f, NEW g,
         \A x \in S : f[x] \in Int /\ g[x] \in Int,
         \A x \in S \ {y} : f[x] = g[x]
  PROVE  SumFunctionOnSet(g, S) = SumFunctionOnSet(f, S) - f[y] + g[y]
<1>1. SumFunctionOnSet(f, S) = f[y] + SumFunctionOnSet(f, S \ {y})
  BY SumRemove
<1>2. SumFunctionOnSet(g, S) = g[y] + SumFunctionOnSet(g, S \ {y})
  BY SumRemove
<1>3. IsFiniteSet(S \ {y})
  BY FS_Subset
<1>4. SumFunctionOnSet(f, S \ {y}) = SumFunctionOnSet(g, S \ {y})
  BY <1>3, SumSame
<1>5. SumFunctionOnSet(f, S \ {y}) \in Int
  BY <1>3, SumInt
<1> QED
  BY <1>1, <1>2, <1>4, <1>5

\* Values of at most b add up to at most b for each element.
LEMMA SumBound ==
  ASSUME NEW S, IsFiniteSet(S), NEW b \in Nat, NEW f,
         \A x \in S : f[x] \in Nat /\ f[x] <= b
  PROVE  SumFunctionOnSet(f, S) <= b * Cardinality(S)
<1> DEFINE F == {T \in SUBSET S : SumFunctionOnSet(f, T) <= b * Cardinality(T)}
<1>1. ASSUME NEW T \in SUBSET S, \A U \in SUBSET T : U # T => U \in F
      PROVE  T \in F
  <2>1. CASE T = {}
    <3>1. SumFunctionOnSet(f, T) = 0 /\ Cardinality(T) = 0
      BY <2>1, SumEmpty, FS_EmptySet
    <3> QED
      BY <3>1
  <2>2. CASE T # {}
    <3> DEFINE p == Pick(T)
               a == SumFunctionOnSet(f, T \ {p})
               n == Cardinality(T \ {p})
    <3>1. IsFiniteSet(T) /\ IsFiniteSet(T \ {p})
      BY FS_Subset
    <3>2. p \in T /\ SumFunctionOnSet(f, T) = f[p] + a
      BY <2>2, <3>1, SumPick
    <3>3. n \in Nat /\ a \in Nat /\ f[p] \in Nat /\ f[p] <= b
      BY <3>1, <3>2, FS_CardinalityType, SumNat
    <3>4. Cardinality(T) = n + 1
      <4>1. n = Cardinality(T) - 1 /\ Cardinality(T) \in Nat
        BY <3>1, <3>2, FS_RemoveElement, FS_CardinalityType
      <4> QED
        BY <4>1
    <3>5. a <= b * n
      BY <1>1, <3>2
    <3> HIDE DEF a, n, p
    <3>6. b * (n + 1) = b * n + b /\ b * n \in Nat
      BY <3>3
    <3>7. f[p] + a <= b * (n + 1)
      BY <3>3, <3>5, <3>6
    <3> QED
      BY <3>2, <3>4, <3>7
  <2> QED
    BY <2>1, <2>2
<1> HIDE DEF F
<1>2. S \in F
  BY <1>1, SetInduction
<1> QED
  BY <1>2 DEF F

-----------------------------------------------------------------------------
(* The supply *)

\* The outputs of a set of transactions none of them spends.
Unspent(txs) == {o \in OutputsOf(txs) : o.index \notin SpentBy(txs, o.id)}

Supply(txs, root, remaining) == UtxoValue(Unspent(txs)) + StakeValue(root) + remaining

\* The value of an output.
OutputValue(o) == Tx[o.id].outputs[o.index + 1].value

\* An address without an account holds no coins.
NoGhosts(root) ==
  \A a \in Address : ~ root[a].exists => root[a].bonded = 0 /\ root[a].unbonded = 0

\* SupplyConserved, with what its steps need: finitely many outputs, and a
\* committed root that is the current one until the block has a transaction.
SupplyInvariant ==
  /\ IsFiniteSet(OutputsOf(Chain))
  /\ \A state \in stored_state :
       /\ NoGhosts(state.last_account_root_hash)
       /\ Supply(bodies, state.last_account_root_hash, state.rewards_pool.remaining) = MAX_COIN
  /\ Running =>
       /\ NoGhosts(uncommitted_account_root_hash)
       /\ Supply(Chain, uncommitted_account_root_hash, last_state.rewards_pool.remaining)
            = MAX_COIN
       /\ delivered_txs = <<>> =>
            last_state.last_account_root_hash = uncommitted_account_root_hash

-----------------------------------------------------------------------------
(* Outputs and their value *)

LEMMA OutputValueType ==
  ASSUME NEW txs \in SUBSET TxId, NEW o \in OutputsOf(txs)
  PROVE  OutputValue(o) \in Nat
<1>1. /\ o.id \in TxId
      /\ o.index \in Nat
      /\ o.index < Len(Tx[o.id].outputs)
  BY OutputsMember DEF TxoPointer
<1>2. Tx[o.id].outputs \in Seq(TxOut)
  BY <1>1, TxAssumption DEF TxAux
<1>3. Tx[o.id].outputs[o.index + 1] \in TxOut
  BY <1>1, <1>2
<1> QED
  BY <1>3, CoinAssumption DEF OutputValue, TxOut, Coin

\* The sums of parts of a set of outputs are sums of one function.
LEMMA UtxoSum ==
  ASSUME NEW txs \in SUBSET TxId, NEW S \in SUBSET OutputsOf(txs), IsFiniteSet(S),
         NEW R \in SUBSET S
  PROVE  UtxoValue(R) = SumFunctionOnSet([o \in S |-> OutputValue(o)], R)
<1> DEFINE f == [o \in S |-> OutputValue(o)]
           g == [o \in R |-> OutputValue(o)]
<1>1. UtxoValue(R) = SumFunctionOnSet(g, R)
  BY DEF UtxoValue, SumFunction, OutputValue
<1>2. \A o \in R : g[o] = f[o]
  OBVIOUS
<1>3. IsFiniteSet(R)
  BY FS_Subset
<1> HIDE DEF f, g
<1>4. SumFunctionOnSet(g, R) = SumFunctionOnSet(f, R)
  BY <1>2, <1>3, SumSame
<1> QED
  BY <1>1, <1>4 DEF f

LEMMA UtxoSubset ==
  ASSUME NEW txs \in SUBSET TxId, NEW S \in SUBSET OutputsOf(txs), IsFiniteSet(S),
         NEW R \in SUBSET S
  PROVE  /\ UtxoValue(S) = UtxoValue(R) + UtxoValue(S \ R)
         /\ UtxoValue(S) \in Nat
         /\ UtxoValue(R) \in Nat
         /\ UtxoValue(S \ R) \in Nat
<1> DEFINE f == [o \in S |-> OutputValue(o)]
<1>1. \A o \in S : f[o] \in Nat
  BY OutputValueType
<1>2. /\ UtxoValue(S) = SumFunctionOnSet(f, S)
      /\ UtxoValue(R) = SumFunctionOnSet(f, R)
      /\ UtxoValue(S \ R) = SumFunctionOnSet(f, S \ R)
  <2>1. S \in SUBSET S /\ S \ R \in SUBSET S
    OBVIOUS
  <2> HIDE DEF f
  <2> QED
    BY <2>1, UtxoSum DEF f
<1> HIDE DEF f
<1>3. /\ SumFunctionOnSet(f, S) = SumFunctionOnSet(f, R) + SumFunctionOnSet(f, S \ R)
      /\ SumFunctionOnSet(f, S) \in Nat /\ SumFunctionOnSet(f, R) \in Nat
  BY <1>1, SumSubset
<1>4. SumFunctionOnSet(f, S \ R) \in Nat
  BY <1>1, SumSubset, Zenon
<1> QED
  BY <1>2, <1>3, <1>4

\* The inputs of a transaction are distinct, so the coins check_inputs adds up
\* are those of the set of outputs it spends.
LEMMA InCoinsValue ==
  ASSUME NEW id \in TxId, NEW txs \in SUBSET TxId,
         Tx[id].kind \in {"TransferTx", "DepositStakeTx"},
         IsInjective(Tx[id].inputs), Spends(Tx[id]) \subseteq OutputsOf(txs)
  PROVE  /\ IsFiniteSet(Spends(Tx[id]))
         /\ InCoins(Tx[id]) = UtxoValue(Spends(Tx[id]))
<1> DEFINE ins == Tx[id].inputs
           S == DOMAIN ins
           R == Spends(Tx[id])
           g == [o \in R |-> OutputValue(o)]
           f == Values(InputTxOuts(Tx[id]))
<1>1. ins \in Seq(TxoPointer)
  BY TxAssumption DEF TxAux
<1>2. S = 1 .. Len(ins) /\ Len(ins) \in Nat
  BY <1>1
<1>3. IsFiniteSet(S)
  BY <1>2, FS_Interval
<1>4. R = {ins[k] : k \in S}
  BY DEF Spends
<1>5. ins \in [S -> R]
  BY <1>1, <1>4
<1>6. DOMAIN f = S /\ \A k \in S : f[k] = OutputValue(ins[k])
  BY Zenon DEF Values, InputTxOuts, OutputValue
<1>7. \A k \in S : ins[k] \in R /\ f[k] = g[ins[k]] /\ f[k] \in Nat
  BY <1>4, <1>6, OutputValueType
<1>8. InCoins(Tx[id]) = SumFunctionOnSet(f, S)
  BY <1>6 DEF InCoins, SumFunction
<1>9. UtxoValue(R) = SumFunctionOnSet(g, R)
  BY DEF UtxoValue, SumFunction, OutputValue
<1>10. \A x, y \in S : ins[x] = ins[y] => x = y
  BY DEF IsInjective
<1>11. \A r \in R : \E x \in S : ins[x] = r
  BY <1>4
<1> HIDE DEF f, g, R, S, ins
<1>12. IsFiniteSet(R) /\ SumFunctionOnSet(f, S) = SumFunctionOnSet(g, R)
  BY <1>3, <1>5, <1>7, <1>10, <1>11, SumReindex
<1> QED
  BY <1>8, <1>9, <1>12 DEF R

LEMMA OutputTotalValue ==
  ASSUME NEW id \in TxId, HasOutputs(id)
  PROVE  /\ IsFiniteSet(OutputsOf({id}))
         /\ get_output_total(Tx[id]) = UtxoValue(OutputsOf({id}))
<1> DEFINE outs == Tx[id].outputs
           S == DOMAIN outs
           R == OutputsOf({id})
           h == [k \in S |-> [id |-> id, index |-> k - 1]]
           g == [o \in R |-> OutputValue(o)]
           f == Values(outs)
<1>1. outs \in Seq(TxOut)
  BY TxAssumption DEF TxAux
<1>2. S = 1 .. Len(outs) /\ Len(outs) \in Nat
  BY <1>1
<1>3. IsFiniteSet(S)
  BY <1>2, FS_Interval
<1>4. \A k \in S : h[k] \in R
  <2> TAKE k \in S
  <2>1. h[k] \in TxoPointer /\ h[k].id = id /\ h[k].index < Len(outs)
    BY <1>2 DEF TxoPointer
  <2> QED
    BY <2>1, OutputsMember
<1>5. h \in [S -> R]
  BY <1>4, Zenon
<1>6. \A k \in S : f[k] = g[h[k]] /\ f[k] \in Nat
  <2> TAKE k \in S
  <2>1. g[h[k]] = OutputValue(h[k]) /\ OutputValue(h[k]) \in Nat
    BY <1>4, OutputValueType, Zenon
  <2>2. OutputValue(h[k]) = outs[k].value
    <3>1. h[k].id = id /\ h[k].index + 1 = k
      BY <1>2
    <3> QED
      BY <3>1, Zenon DEF OutputValue
  <2> QED
    BY <2>1, <2>2 DEF Values
<1>7. get_output_total(Tx[id]) = SumFunctionOnSet(f, S)
  BY DEF get_output_total, SumFunction, Values
<1>8. UtxoValue(R) = SumFunctionOnSet(g, R)
  BY DEF UtxoValue, SumFunction, OutputValue
<1>9. \A x, y \in S : h[x] = h[y] => x = y
  BY <1>2
<1>10. \A r \in R : \E x \in S : h[x] = r
  <2> TAKE r \in R
  <2>1. r \in TxoPointer /\ r.id = id /\ r.index < Len(outs)
    BY OutputsMember
  <2>2. r.index + 1 \in S
    BY <1>2, <2>1 DEF TxoPointer
  <2>3. h[r.index + 1] = r
    BY <2>1, <2>2 DEF TxoPointer
  <2> QED
    BY <2>2, <2>3
<1> HIDE DEF f, g, h, R, S, outs
<1>11. IsFiniteSet(R) /\ SumFunctionOnSet(f, S) = SumFunctionOnSet(g, R)
  BY <1>3, <1>5, <1>6, <1>9, <1>10, SumReindex
<1> QED
  BY <1>7, <1>8, <1>11 DEF R

LEMMA NoOutputs ==
  ASSUME NEW id \in TxId, ~ HasOutputs(id)
  PROVE  OutputsOf({id}) = {}
BY DEF OutputsOf

\* What a delivered transaction does to the unspent outputs.
LEMMA UnspentStep ==
  ASSUME NEW txs \in SUBSET TxId, NEW id \in TxId, id \notin txs,
         \A t \in txs : \A txin \in Spends(Tx[t]) : txin.id \in txs,
         \A txin \in Spends(Tx[id]) :
           /\ txin.id \in txs
           /\ HasOutputs(txin.id)
           /\ txin.index < Len(Tx[txin.id].outputs)
           /\ \A t \in txs : txin \notin Spends(Tx[t])
  PROVE  /\ Spends(Tx[id]) \subseteq Unspent(txs)
         /\ Unspent(txs \cup {id}) = (Unspent(txs) \ Spends(Tx[id])) \cup OutputsOf({id})
         /\ Unspent(txs) \cap OutputsOf({id}) = {}
<1>1. \A o : o \in OutputsOf(txs \cup {id}) <=> o \in OutputsOf(txs) \/ o \in OutputsOf({id})
  BY OutputsUnion
<1>2. \A o \in OutputsOf(txs) : o \in TxoPointer /\ o.id \in txs
  BY OutputsMember
<1>3. \A o \in OutputsOf({id}) : o \in TxoPointer /\ o.id = id
  BY OutputsMember
<1>4. \A o \in TxoPointer : \A u \in SUBSET TxId :
        o.index \in SpentBy(u, o.id) <=> \E t \in u : o \in Spends(Tx[t])
  BY SpentPointer
<1>5. \A txin \in Spends(Tx[id]) : txin \in TxoPointer
  BY SpendsType
<1>a. \A o \in TxoPointer : o.index \in SpentBy(txs \cup {id}, o.id)
        <=> \E t \in txs \cup {id} : o \in Spends(Tx[t])
  <2> DEFINE u == txs \cup {id}
  <2>1. u \in SUBSET TxId
    OBVIOUS
  <2> HIDE DEF u
  <2>2. \A o \in TxoPointer : o.index \in SpentBy(u, o.id) <=> \E t \in u : o \in Spends(Tx[t])
    BY <1>4, <2>1
  <2> QED
    BY <2>2, Zenon DEF u
<1>6. Spends(Tx[id]) \subseteq Unspent(txs)
  <2> SUFFICES ASSUME NEW txin \in Spends(Tx[id])
               PROVE  txin \in Unspent(txs)
    OBVIOUS
  <2>1. txin \in OutputsOf(txs)
    BY <1>5, OutputsMember
  <2>2. txin.index \notin SpentBy(txs, txin.id)
    BY <1>4, <1>5
  <2> QED
    BY <2>1, <2>2 DEF Unspent
<1>7. Unspent(txs) \cap OutputsOf({id}) = {}
  BY <1>2, <1>3, Zenon DEF Unspent
<1>8. ASSUME NEW o
      PROVE  o \in Unspent(txs \cup {id}) <=>
               o \in (Unspent(txs) \ Spends(Tx[id])) \cup OutputsOf({id})
  <2>1. CASE o \in OutputsOf(txs)
    <3>1. o \in TxoPointer /\ o.id \in txs /\ o \notin OutputsOf({id})
      BY <1>2, <1>3, <2>1, Zenon
    <3>2. o.index \in SpentBy(txs \cup {id}, o.id)
            <=> o.index \in SpentBy(txs, o.id) \/ o \in Spends(Tx[id])
      BY <1>4, <1>a, <3>1, Zenon
    <3> QED
      BY <1>1, <2>1, <3>1, <3>2, Zenon DEF Unspent
  <2>2. CASE o \in OutputsOf({id})
    <3>1. o \in TxoPointer /\ o.id = id
      BY <1>3, <2>2
    <3>2. \A t \in txs \cup {id} : o \notin Spends(Tx[t])
      BY <3>1
    <3>3. o.index \notin SpentBy(txs \cup {id}, o.id)
      BY <1>a, <3>1, <3>2, Zenon
    <3> QED
      BY <1>1, <2>2, <3>3, Zenon DEF Unspent
  <2>3. CASE o \notin OutputsOf(txs) /\ o \notin OutputsOf({id})
    BY <1>1, <2>3, Zenon DEF Unspent
  <2> QED
    BY <2>1, <2>2, <2>3
<1>9. Unspent(txs \cup {id}) = (Unspent(txs) \ Spends(Tx[id])) \cup OutputsOf({id})
  BY <1>8, Zenon
<1> QED
  BY <1>6, <1>7, <1>9, Zenon

\* Its effect on their value.
LEMMA UtxoStep ==
  ASSUME NEW txs \in SUBSET TxId, NEW id \in TxId, id \notin txs,
         \A t \in txs : \A txin \in Spends(Tx[t]) : txin.id \in txs,
         \A txin \in Spends(Tx[id]) :
           /\ txin.id \in txs
           /\ HasOutputs(txin.id)
           /\ txin.index < Len(Tx[txin.id].outputs)
           /\ \A t \in txs : txin \notin Spends(Tx[t]),
         IsFiniteSet(OutputsOf(txs)), IsFiniteSet(OutputsOf({id}))
  PROVE  /\ UtxoValue(Unspent(txs \cup {id}))
              = UtxoValue(Unspent(txs)) - UtxoValue(Spends(Tx[id])) + UtxoValue(OutputsOf({id}))
         /\ UtxoValue(Unspent(txs)) \in Nat
         /\ UtxoValue(Spends(Tx[id])) \in Nat
         /\ UtxoValue(OutputsOf({id})) \in Nat
         /\ UtxoValue(Spends(Tx[id])) <= UtxoValue(Unspent(txs))
         /\ IsFiniteSet(OutputsOf(txs \cup {id}))
<1> DEFINE old == Unspent(txs)
           new == Unspent(txs \cup {id})
           spends == Spends(Tx[id])
           outs == OutputsOf({id})
<1>1. OutputsOf(txs \cup {id}) = OutputsOf(txs) \cup outs
  BY OutputsUnion
<1>2. IsFiniteSet(OutputsOf(txs \cup {id}))
  <2>1. IsFiniteSet(OutputsOf(txs) \cup outs)
    BY FS_Union, Zenon
  <2> QED
    BY <1>1, <2>1, Zenon
<1>3. new \in SUBSET OutputsOf(txs \cup {id}) /\ old \in SUBSET OutputsOf(txs)
  BY DEF Unspent
<1>4. IsFiniteSet(new) /\ IsFiniteSet(old)
  BY <1>2, <1>3, FS_Subset, Zenon
<1>a. /\ spends \subseteq old
      /\ new = (old \ spends) \cup outs
      /\ old \cap outs = {}
  BY UnspentStep, Zenon
<1> HIDE DEF old, new, spends, outs
<1>5. outs \in SUBSET new /\ new \ outs = old \ spends /\ spends \in SUBSET old
  BY <1>a
<1>6. /\ UtxoValue(new) = UtxoValue(outs) + UtxoValue(new \ outs)
      /\ UtxoValue(new) \in Nat /\ UtxoValue(outs) \in Nat /\ UtxoValue(new \ outs) \in Nat
  <2>1. txs \cup {id} \in SUBSET TxId
    OBVIOUS
  <2> QED
    BY <1>3, <1>4, <1>5, <2>1, UtxoSubset
<1>7. /\ UtxoValue(old) = UtxoValue(spends) + UtxoValue(old \ spends)
      /\ UtxoValue(old) \in Nat /\ UtxoValue(spends) \in Nat /\ UtxoValue(old \ spends) \in Nat
  BY <1>3, <1>4, <1>5, UtxoSubset, Zenon
<1>8. UtxoValue(new \ outs) = UtxoValue(old \ spends)
  BY <1>5, Zenon
<1>9. /\ UtxoValue(new) = UtxoValue(old) - UtxoValue(spends) + UtxoValue(outs)
      /\ UtxoValue(spends) <= UtxoValue(old)
  BY <1>6, <1>7, <1>8
<1> QED
  BY <1>2, <1>6, <1>7, <1>9 DEF old, new, spends, outs

\* One account changes, the others keep their stake.
LEMMA StakeStep ==
  ASSUME NEW root \in Root, NEW a \in Address, NEW account \in StakedState
  PROVE  /\ StakeValue([root EXCEPT ![a] = account]) =
              StakeValue(root) - (root[a].bonded + root[a].unbonded)
                + (account.bonded + account.unbonded)
         /\ StakeValue(root) \in Nat
         /\ root[a].bonded + root[a].unbonded <= StakeValue(root)
<1> DEFINE new == [root EXCEPT ![a] = account]
           f == [b \in Address |-> root[b].bonded + root[b].unbonded]
           g == [b \in Address |-> new[b].bonded + new[b].unbonded]
<1>1. StakeValue(root) = SumFunctionOnSet(f, Address)
  BY DEF StakeValue, SumFunction
<1>2. StakeValue(new) = SumFunctionOnSet(g, Address)
  BY DEF StakeValue, SumFunction
<1>3. new \in Root
  BY DEF Root
<1>4. \A b \in Address : f[b] \in Nat /\ g[b] \in Nat
  BY <1>3, CoinAssumption DEF Root, StakedState, Coin
<1>5. \A b \in Address \ {a} : f[b] = g[b]
  BY DEF Root
<1>6. g[a] = account.bonded + account.unbonded /\ f[a] = root[a].bonded + root[a].unbonded
  BY DEF Root
<1> HIDE DEF f, g, new
<1>7. SumFunctionOnSet(g, Address) = SumFunctionOnSet(f, Address) - f[a] + g[a]
  BY <1>4, <1>5, AddressAssumption, SumChangeOne
<1>8. SumFunctionOnSet(f, Address) \in Nat
  BY <1>4, AddressAssumption, SumNat
<1>9. /\ SumFunctionOnSet(f, Address) = f[a] + SumFunctionOnSet(f, Address \ {a})
      /\ SumFunctionOnSet(f, Address \ {a}) \in Nat
  <2>1. IsFiniteSet(Address \ {a})
    BY AddressAssumption, FS_Subset
  <2> QED
    BY <1>4, <2>1, AddressAssumption, SumRemove, SumNat
<1>10. f[a] <= SumFunctionOnSet(f, Address)
  BY <1>4, <1>8, <1>9
<1> QED
  BY <1>1, <1>2, <1>6, <1>7, <1>8, <1>10 DEF new

-----------------------------------------------------------------------------
(* A valid transaction *)

\* What a valid transaction takes from the unspent outputs and what it adds.
SpentCoins(tx) == IF tx.kind \in {"TransferTx", "DepositStakeTx"} THEN InCoins(tx) ELSE 0
MadeCoins(id) == IF HasOutputs(id) THEN get_output_total(Tx[id]) ELSE 0

LEMMA TxFields ==
  ASSUME NEW id \in TxId
  PROVE  /\ Tx[id].kind \in Kind
         /\ Tx[id].address \in Address
         /\ Tx[id].value \in Nat
         /\ Tx[id].min_fee \in Nat
<1>1. Tx[id] \in TxAux
  BY TxAssumption
<1>2. Coin \subseteq Nat
  BY CoinAssumption DEF Coin
<1> QED
  BY <1>1, <1>2, Zenon DEF TxAux

LEMMA StateFields ==
  ASSUME TypeOK
  PROVE  /\ uncommitted_account_root_hash \in Root
         /\ last_state.rewards_pool.remaining \in Nat
         /\ last_state.block_time \in Nat
<1>1. last_state \in ChainNodeState /\ uncommitted_account_root_hash \in Root
  BY DEF TypeOK
<1>2. last_state.rewards_pool \in RewardsPool /\ last_state.block_time \in Nat
  BY <1>1 DEF ChainNodeState
<1>3. last_state.rewards_pool.remaining \in Coin
  BY <1>2 DEF RewardsPool
<1> QED
  BY <1>1, <1>2, <1>3, CoinAssumption DEF Coin

LEMMA ChainTxs ==
  ASSUME TypeOK
  PROVE  Chain \in SUBSET TxId /\ bodies \in SUBSET TxId
BY DEF TypeOK, Chain, Delivered

LEMMA VerifiedUtxo ==
  ASSUME TypeOK, SpendInvariant, IsFiniteSet(OutputsOf(Chain)), Running,
         NEW id \in TxId, verify(id)
  PROVE  /\ UtxoValue(Unspent(Chain \cup {id}))
              = UtxoValue(Unspent(Chain)) - SpentCoins(Tx[id]) + MadeCoins(id)
         /\ UtxoValue(Unspent(Chain)) \in Nat
         /\ SpentCoins(Tx[id]) \in Nat
         /\ MadeCoins(id) \in Nat
         /\ SpentCoins(Tx[id]) <= UtxoValue(Unspent(Chain))
         /\ IsFiniteSet(OutputsOf(Chain \cup {id}))
<1> DEFINE txs == Chain
           spends == Spends(Tx[id])
           outs == OutputsOf({id})
<1>1. txs \in SUBSET TxId
  BY ChainTxs
<1>2. /\ id \notin txs
      /\ \A txin \in spends :
           /\ txin.id \in txs
           /\ HasOutputs(txin.id)
           /\ txin.index < Len(Tx[txin.id].outputs)
           /\ \A t \in txs : txin \notin Spends(Tx[t])
  BY VerifiedFresh DEF Chain
<1>3. \A t \in txs : \A txin \in Spends(Tx[t]) : txin.id \in txs
  BY DEF SpendInvariant, InputsAreCommittedOutputs, Chain
<1>4. IsFiniteSet(outs) /\ UtxoValue(outs) = MadeCoins(id)
  <2>1. CASE HasOutputs(id)
    BY <2>1, OutputTotalValue DEF MadeCoins
  <2>2. CASE ~ HasOutputs(id)
    <3>1. outs = {}
      BY <2>2, NoOutputs
    <3>2. UtxoValue({}) = 0
      BY SumEmpty DEF UtxoValue, SumFunction
    <3> QED
      BY <2>2, <3>1, <3>2, FS_EmptySet DEF MadeCoins
  <2> QED
    BY <2>1, <2>2
<1> HIDE DEF txs
<1>5. spends \subseteq Unspent(txs)
  BY <1>1, <1>2, <1>3, UnspentStep, Zenon
<1>6. UtxoValue(spends) = SpentCoins(Tx[id])
  <2>1. CASE Tx[id].kind \in {"TransferTx", "DepositStakeTx"}
    <3>1. IsInjective(Tx[id].inputs)
      BY <2>1, Zenon DEF verify, VerifyTx, verify_transfer, verify_bonded_deposit_core, check_inputs_basic
    <3>2. spends \subseteq OutputsOf(txs)
      BY <1>5 DEF Unspent
    <3> QED
      BY <1>1, <2>1, <3>1, <3>2, InCoinsValue DEF SpentCoins
  <2>2. CASE Tx[id].kind \notin {"TransferTx", "DepositStakeTx"}
    <3>1. spends = {}
      BY <2>2 DEF Spends
    <3>2. UtxoValue({}) = 0
      BY SumEmpty DEF UtxoValue, SumFunction
    <3> QED
      BY <2>2, <3>1, <3>2 DEF SpentCoins
  <2> QED
    BY <2>1, <2>2
<1>7. IsFiniteSet(OutputsOf(txs))
  BY DEF txs
<1>8. /\ UtxoValue(Unspent(txs \cup {id}))
           = UtxoValue(Unspent(txs)) - UtxoValue(spends) + UtxoValue(outs)
      /\ UtxoValue(Unspent(txs)) \in Nat
      /\ UtxoValue(spends) \in Nat
      /\ UtxoValue(outs) \in Nat
      /\ UtxoValue(spends) <= UtxoValue(Unspent(txs))
      /\ IsFiniteSet(OutputsOf(txs \cup {id}))
  BY <1>1, <1>2, <1>3, <1>4, <1>7, UtxoStep, Zenon
<1> QED
  BY <1>4, <1>6, <1>8 DEF txs

\* No valid transaction creates or destroys coins: what its account and its
\* inputs held is what its account and its outputs hold, and its fee.
LEMMA VerifiedBalance ==
  ASSUME TypeOK, NoGhosts(uncommitted_account_root_hash), NEW id \in TxId, verify(id),
         SpentCoins(Tx[id]) \in Nat, MadeCoins(id) \in Nat
  PROVE  LET fee == PaidFee(Tx[id], Info(Tx[id]), AccountOf(Tx[id]))
             old == AccountOf(Tx[id])
             new == NewAccount(Tx[id])
         IN  /\ fee \in Nat /\ new.bonded \in Nat /\ new.unbonded \in Nat
             /\ old.bonded \in Nat /\ old.unbonded \in Nat
             /\ new.bonded + new.unbonded + fee + MadeCoins(id)
                  = old.bonded + old.unbonded + SpentCoins(Tx[id])
             /\ Tx[id].kind = "TransferTx" => new = old
             /\ ~ new.exists => Tx[id].kind = "TransferTx"
<1> DEFINE tx == Tx[id]
           old == AccountOf(tx)
           new == NewAccount(tx)
           info == Info(tx)
           fee == PaidFee(tx, info, old)
<1>1. tx.address \in Address /\ tx.value \in Nat /\ tx.min_fee \in Nat /\ tx.kind \in Kind
  BY TxFields
<1>2. old \in StakedState
  BY <1>1 DEF TypeOK, Root, AccountOf, get_account
<1>3. /\ info.min_fee_computed = tx.min_fee
      /\ info.previous_block_time \in Nat
      /\ info.previous_block_time + info.unbonding_period \in Nat
  <2>1. info = [min_fee_computed |-> tx.min_fee, chain_hex_id |-> chain_hex_id,
                previous_block_time |-> last_state.block_time,
                unbonding_period |-> unbonding_period]
    BY DEF Info
  <2>2. last_state.block_time \in Nat /\ unbonding_period \in Nat
    BY StateFields, GenesisAssumption
  <2> HIDE DEF info
  <2> QED
    BY <2>1, <2>2
<1>4. old.bonded \in Nat /\ old.unbonded \in Nat
  BY <1>2, CoinAssumption DEF StakedState, Coin
<1>5. ~ old.exists => old.bonded = 0 /\ old.unbonded = 0
  BY <1>1 DEF NoGhosts, AccountOf, get_account
<1>6. new = UpdatedAccount(tx, info, old)
  BY DEF NewAccount
<1>7. CASE tx.kind = "TransferTx"
  <2>1. new = old
    BY <1>6, <1>7 DEF UpdatedAccount
  <2>2. fee = InCoins(tx) - get_output_total(tx)
    BY <1>7 DEF PaidFee
  <2>3. SpentCoins(tx) = InCoins(tx) /\ MadeCoins(id) = get_output_total(tx)
    BY <1>7 DEF SpentCoins, MadeCoins, HasOutputs
  <2>4. InCoins(tx) >= get_output_total(tx) + tx.min_fee
    BY <1>3, <1>7 DEF verify, VerifyTx, verify_transfer, check_input_output_sums
  <2> HIDE DEF tx, old, new, info, fee
  <2>5. fee \in Nat
    <3>1. SpentCoins(tx) \in Nat /\ MadeCoins(id) \in Nat
      BY DEF tx
    <3> QED
      BY <1>1, <2>2, <2>3, <2>4, <3>1
  <2>6. new.bonded + new.unbonded + fee + MadeCoins(id) = old.bonded + old.unbonded + SpentCoins(tx)
    BY <1>4, <2>1, <2>2, <2>3 DEF tx
  <2> QED
    BY <1>4, <1>7, <2>1, <2>5, <2>6 DEF tx, old, new, info, fee
<1>8. CASE tx.kind = "DepositStakeTx"
  <2>1. fee = tx.min_fee
    BY <1>3, <1>8 DEF PaidFee
  <2>2. SpentCoins(tx) = InCoins(tx) /\ MadeCoins(id) = 0
    BY <1>8 DEF SpentCoins, MadeCoins, HasOutputs
  <2>3. InCoins(tx) > tx.min_fee
    BY <1>3, <1>8 DEF verify, VerifyTx, verify_bonded_deposit_core
  <2> DEFINE amount == InCoins(tx) - tx.min_fee
  <2>4. new = IF old.exists THEN deposit(old, amount)
              ELSE new_init(amount, info.previous_block_time, TRUE)
    BY <1>3, <1>6, <1>8 DEF UpdatedAccount, bonded_deposit_account
  <2> HIDE DEF tx, old, new, info, fee
  <2>5. amount \in Nat /\ tx.min_fee + amount = SpentCoins(tx)
    BY <1>1, <2>2, <2>3 DEF tx
  <2>6. new.exists
    BY <1>2, <2>4 DEF deposit, new_init, StakedState
  <2> HIDE DEF amount
  <2>7. new.bonded = old.bonded + amount /\ new.unbonded = old.unbonded
    <3>1. CASE old.exists
      <4>1. new = deposit(old, amount)
        BY <2>4, <3>1
      <4> QED
        BY <1>2, <4>1 DEF deposit, StakedState
    <3>2. CASE ~ old.exists
      <4>1. new = new_init(amount, info.previous_block_time, TRUE)
        BY <2>4, <3>2
      <4>2. new.bonded = amount /\ new.unbonded = 0
        BY <4>1 DEF new_init
      <4> QED
        BY <1>5, <2>5, <3>2, <4>2
    <3> QED
      BY <3>1, <3>2
  <2>8. new.bonded + new.unbonded + fee + MadeCoins(id) = old.bonded + old.unbonded + SpentCoins(tx)
    BY <1>1, <1>4, <2>1, <2>2, <2>5, <2>7
  <2>9. new.bonded \in Nat /\ new.unbonded \in Nat /\ fee \in Nat
    BY <1>1, <1>4, <2>1, <2>5, <2>7
  <2> QED
    BY <1>4, <1>8, <2>6, <2>8, <2>9, Zenon DEF tx, old, new, info, fee
<1>9. CASE tx.kind = "UnbondStakeTx"
  <2>1. fee = tx.min_fee
    BY <1>3, <1>9 DEF PaidFee
  <2>2. SpentCoins(tx) = 0 /\ MadeCoins(id) = 0
    BY <1>9 DEF SpentCoins, MadeCoins, HasOutputs
  <2>3. old.exists /\ old.bonded >= tx.value + tx.min_fee
    BY <1>3, <1>9 DEF verify, verify_unbonding, check_input_output_sums
  <2>4. new = unbond(old, tx.value, tx.min_fee, info.previous_block_time + info.unbonding_period)
    BY <1>3, <1>6, <1>9 DEF UpdatedAccount, unbonding_account
  <2> HIDE DEF tx, old, new, info, fee
  <2>5. new.exists
    BY <1>2, <2>3, <2>4 DEF unbond, StakedState
  <2>6. new.bonded = old.bonded - tx.value - tx.min_fee /\ new.unbonded = old.unbonded + tx.value
    BY <1>2, <2>4 DEF unbond, StakedState
  <2>7. /\ new.bonded \in Nat /\ new.unbonded \in Nat /\ fee \in Nat
        /\ new.bonded + new.unbonded + fee + MadeCoins(id)
             = old.bonded + old.unbonded + SpentCoins(tx)
    BY <1>1, <1>4, <2>1, <2>2, <2>3, <2>6
  <2> QED
    BY <1>4, <1>9, <2>5, <2>7, Zenon DEF tx, old, new, info, fee
<1>10. CASE tx.kind = "WithdrawUnbondedStakeTx"
  <2>1. fee = old.unbonded - get_output_total(tx)
    BY <1>10 DEF PaidFee
  <2>2. SpentCoins(tx) = 0 /\ MadeCoins(id) = get_output_total(tx)
    BY <1>10 DEF SpentCoins, MadeCoins, HasOutputs
  <2>3. old.exists /\ old.unbonded >= get_output_total(tx) + tx.min_fee
    BY <1>3, <1>10 DEF verify, VerifyTx, verify_unbonded_withdraw_core, check_input_output_sums
  <2>4. new = withdraw(old)
    BY <1>6, <1>10 DEF UpdatedAccount
  <2> HIDE DEF tx, old, new, info, fee
  <2>5. new.exists
    BY <1>2, <2>3, <2>4 DEF withdraw, StakedState
  <2>6. new.bonded = old.bonded /\ new.unbonded = 0
    BY <1>2, <2>4 DEF withdraw, StakedState
  <2>7. /\ new.bonded \in Nat /\ new.unbonded \in Nat /\ fee \in Nat
        /\ new.bonded + new.unbonded + fee + MadeCoins(id)
             = old.bonded + old.unbonded + SpentCoins(tx)
    BY <1>1, <1>4, <2>1, <2>2, <2>3, <2>6
  <2> QED
    BY <1>4, <1>10, <2>5, <2>7 DEF tx, old, new, info, fee
<1> QED
  BY <1>1, <1>7, <1>8, <1>9, <1>10, Zenon DEF Kind

\* Its coins fit: they were part of the supply before.
LEMMA VerifiedFits ==
  ASSUME TypeOK, SpendInvariant, SupplyInvariant, Running, NEW id \in TxId, verify(id)
  PROVE  CoinsFit(Tx[id])
<1> DEFINE root == uncommitted_account_root_hash
           a == Tx[id].address
           utxo == UtxoValue(Unspent(Chain))
           stake == StakeValue(root)
           remaining == last_state.rewards_pool.remaining
           fee == PaidFee(Tx[id], Info(Tx[id]), AccountOf(Tx[id]))
           new == NewAccount(Tx[id])
           old == AccountOf(Tx[id])
           spent == SpentCoins(Tx[id])
           made == MadeCoins(id)
<1>1. utxo + stake + remaining = MAX_COIN /\ NoGhosts(root) /\ IsFiniteSet(OutputsOf(Chain))
  BY DEF SupplyInvariant, Supply
<1>2. utxo \in Nat /\ spent \in Nat /\ made \in Nat /\ spent <= utxo
  BY <1>1, VerifiedUtxo, Zenon
<1>3. /\ fee \in Nat /\ new.bonded \in Nat /\ new.unbonded \in Nat
      /\ old.bonded \in Nat /\ old.unbonded \in Nat
      /\ new.bonded + new.unbonded + fee + made = old.bonded + old.unbonded + spent
  BY <1>1, <1>2, VerifiedBalance, Zenon
<1>4. root \in Root /\ a \in Address /\ remaining \in Nat
  BY TxFields, StateFields
<1>5. root[a] \in StakedState /\ old = root[a]
  BY <1>4 DEF Root, AccountOf, get_account
<1>6. stake \in Nat /\ old.bonded + old.unbonded <= stake
  BY <1>4, <1>5, StakeStep, Zenon
<1>7. NewRemaining(Tx[id]) = remaining + fee
  BY DEF NewRemaining
<1> HIDE DEF utxo, stake, remaining, fee, new, old, spent, made
<1>8. new.bonded <= MAX_COIN /\ new.unbonded <= MAX_COIN /\ remaining + fee <= MAX_COIN
  BY <1>1, <1>2, <1>3, <1>4, <1>6, CoinAssumption
<1>9. new.bonded \in Coin /\ new.unbonded \in Coin /\ remaining + fee \in Coin
  BY <1>3, <1>4, <1>8, CoinAssumption DEF Coin
<1> QED
  BY <1>7, <1>9 DEF CoinsFit, new

-----------------------------------------------------------------------------
(* The steps *)

LEMMA DeliverSupply ==
  ASSUME TypeOK, SpendInvariant, SupplyInvariant, NEW id \in TxId, DeliverTx(id), DeliverValid(id)
  PROVE  SupplyInvariant'
<1> DEFINE root == uncommitted_account_root_hash
           a == Tx[id].address
           utxo == UtxoValue(Unspent(Chain))
           stake == StakeValue(root)
           remaining == last_state.rewards_pool.remaining
           fee == PaidFee(Tx[id], Info(Tx[id]), AccountOf(Tx[id]))
           new == NewAccount(Tx[id])
           old == AccountOf(Tx[id])
           spent == SpentCoins(Tx[id])
           made == MadeCoins(id)
<1>0. Running /\ Running' /\ verify(id) /\ CoinsFit(Tx[id])
  BY DEF DeliverTx, DeliverValid, Running
<1>1. utxo + stake + remaining = MAX_COIN /\ NoGhosts(root) /\ IsFiniteSet(OutputsOf(Chain))
  BY <1>0, Zenon DEF SupplyInvariant, Supply
<1>2. /\ utxo \in Nat /\ spent \in Nat /\ made \in Nat
      /\ UtxoValue(Unspent(Chain \cup {id})) = utxo - spent + made
      /\ IsFiniteSet(OutputsOf(Chain \cup {id}))
  BY <1>0, <1>1, VerifiedUtxo, Zenon
<1>3. /\ fee \in Nat /\ new.bonded \in Nat /\ new.unbonded \in Nat
      /\ old.bonded \in Nat /\ old.unbonded \in Nat
      /\ new.bonded + new.unbonded + fee + made = old.bonded + old.unbonded + spent
      /\ Tx[id].kind = "TransferTx" => new = old
      /\ ~ new.exists => Tx[id].kind = "TransferTx"
  BY <1>0, <1>1, <1>2, VerifiedBalance, Zenon
<1>4. root \in Root /\ a \in Address /\ remaining \in Nat
  BY TxFields, StateFields
<1>5. root[a] \in StakedState /\ old = root[a]
  BY <1>4 DEF Root, AccountOf, get_account
<1>6. new \in StakedState
  BY <1>0, NewAccountType
<1>7. /\ stake \in Nat
      /\ StakeValue([root EXCEPT ![a] = new])
           = stake - (old.bonded + old.unbonded) + (new.bonded + new.unbonded)
  BY <1>4, <1>5, <1>6, StakeStep
<1>8. root' = [root EXCEPT ![a] = new]
  <2>1. CASE Tx[id].kind = "TransferTx"
    <3>1. root' = root
      BY <2>1 DEF DeliverValid
    <3>2. [root EXCEPT ![a] = root[a]] = root
      BY <1>4 DEF Root
    <3> QED
      BY <1>3, <1>5, <2>1, <3>1, <3>2
  <2>2. CASE Tx[id].kind # "TransferTx"
    BY <2>2 DEF DeliverValid, update_account
  <2> QED
    BY <2>1, <2>2
<1>9. remaining' = remaining + fee
  BY DEF DeliverValid, NewRemaining, TypeOK, ChainNodeState, RewardsPool
<1>10. Chain' = Chain \cup {id} /\ bodies' = bodies /\ stored_state' = stored_state
       /\ delivered_txs' # <<>>
  <2>1. Chain' = Chain \cup {id} /\ bodies' = bodies /\ delivered_txs' = Append(delivered_txs, id)
    BY DeliverChain
  <2>2. delivered_txs \in Seq(TxId)
    BY DEF TypeOK
  <2> QED
    BY <2>1, <2>2 DEF DeliverTx, dbVars
<1>11. NoGhosts(root')
  <2> SUFFICES ASSUME NEW b \in Address, ~ root'[b].exists
               PROVE  root'[b].bonded = 0 /\ root'[b].unbonded = 0
    BY DEF NoGhosts
  <2>1. CASE b = a
    <3>1. root'[b] = new
      BY <1>4, <1>8, <2>1 DEF Root
    <3>2. root'[b] = root[b]
      BY <1>3, <1>5, <2>1, <3>1, Zenon
    <3> QED
      BY <1>1, <3>2 DEF NoGhosts
  <2>2. CASE b # a
    <3>1. root'[b] = root[b]
      BY <1>4, <1>8, <2>2 DEF Root
    <3> QED
      BY <1>1, <3>1 DEF NoGhosts
  <2> QED
    BY <2>1, <2>2
<1>12. Supply(Chain', root', remaining') = MAX_COIN
  <2>1. Supply(Chain', root', remaining')
          = UtxoValue(Unspent(Chain \cup {id})) + StakeValue([root EXCEPT ![a] = new])
              + (remaining + fee)
    BY <1>8, <1>9, <1>10, Zenon DEF Supply
  <2> HIDE DEF utxo, stake, remaining, fee, new, old, spent, made
  <2>2. (utxo - spent + made)
          + (stake - (old.bonded + old.unbonded) + (new.bonded + new.unbonded))
          + (remaining + fee) = MAX_COIN
    <3> DEFINE o == old.bonded + old.unbonded
               n == new.bonded + new.unbonded
    <3>1. o \in Nat /\ n \in Nat
      BY <1>3
    <3>2. n + fee + made = o + spent
      BY <1>3
    <3> HIDE DEF o, n
    <3>3. /\ utxo + stake + remaining = MAX_COIN
          /\ utxo \in Nat /\ stake \in Nat /\ remaining \in Nat
          /\ spent \in Nat /\ made \in Nat /\ fee \in Nat
      BY <1>1, <1>2, <1>3, <1>4, <1>7
    <3>4. (utxo - spent + made) + (stake - o + n) + (remaining + fee) = MAX_COIN
      BY <3>1, <3>2, <3>3
    <3> QED
      BY <3>4 DEF o, n
  <2> QED
    BY <1>2, <1>7, <2>1, <2>2
<1>13. IsFiniteSet(OutputsOf(Chain'))
  BY <1>2, <1>10
<1> HIDE DEF root, a, utxo, stake, remaining, fee, new, old, spent, made
<1>14. \A state \in stored_state' :
         /\ NoGhosts(state.last_account_root_hash)
         /\ Supply(bodies', state.last_account_root_hash, state.rewards_pool.remaining) = MAX_COIN
  BY <1>10 DEF SupplyInvariant
<1> QED
  BY <1>10, <1>11, <1>12, <1>13, <1>14 DEF SupplyInvariant, root, remaining

LEMMA InitSupply == Init => SupplyInvariant
<1> SUFFICES ASSUME Init PROVE SupplyInvariant
  OBVIOUS
<1>1. Chain = {} /\ stored_state = {} /\ ~ Running
  BY DEF Init, Chain, Delivered, Running
<1>2. OutputsOf({}) = {}
  BY DEF OutputsOf
<1> QED
  BY <1>1, <1>2, FS_EmptySet DEF SupplyInvariant

\* The steps that leave the coins where they are.
LEMMA SameSupply ==
  ASSUME SupplyInvariant,
         UNCHANGED <<bodies, delivered_txs, stored_state, uncommitted_account_root_hash>>,
         last_state'.last_account_root_hash = last_state.last_account_root_hash,
         last_state'.rewards_pool = last_state.rewards_pool,
         Running' => Running
  PROVE  SupplyInvariant'
<1>1. Chain' = Chain
  BY DEF Chain, Delivered
<1> QED
  BY <1>1 DEF SupplyInvariant

LEMMA NewWithStorageSupply ==
  ASSUME SpendInvariant, SupplyInvariant, NewWithStorage
  PROVE  SupplyInvariant'
<1>1. /\ bodies' = bodies /\ stored_state' = stored_state /\ delivered_txs' = delivered_txs
      /\ delivered_txs = <<>>
  BY DEF NewWithStorage, dbVars, memVars, SpendInvariant, Running
<1>2. Chain' = Chain /\ Chain = bodies
  BY <1>1 DEF Chain, Delivered
<1>3. Running' => \E state \in stored_state :
                    /\ last_state' = state
                    /\ uncommitted_account_root_hash' = state.last_account_root_hash
  BY DEF NewWithStorage, Running
<1> QED
  BY <1>1, <1>2, <1>3 DEF SupplyInvariant

LEMMA GenesisSupply ==
  /\ NoGhosts(genesis_accounts)
  /\ Supply({}, genesis_accounts, genesis_rewards) = MAX_COIN
<1>1. NoGhosts(genesis_accounts)
  BY SupplyAssumption DEF NoGhosts, NoAccount
<1>2. UtxoValue(Unspent({})) = 0
  <2>1. Unspent({}) = {}
    BY DEF Unspent, OutputsOf
  <2>2. UtxoValue({}) = 0
    BY SumEmpty DEF UtxoValue, SumFunction
  <2> QED
    BY <2>1, <2>2
<1>3. StakeValue(genesis_accounts) \in Nat
  <2> DEFINE f == [a \in Address |-> genesis_accounts[a].bonded + genesis_accounts[a].unbonded]
  <2>1. \A a \in Address : f[a] \in Nat
    BY GenesisAssumption, CoinAssumption DEF Root, StakedState, Coin
  <2>2. StakeValue(genesis_accounts) = SumFunctionOnSet(f, Address)
    BY DEF StakeValue, SumFunction
  <2> HIDE DEF f
  <2> QED
    BY <2>1, <2>2, AddressAssumption, SumNat
<1>4. genesis_rewards \in Nat
  BY GenesisAssumption, CoinAssumption DEF Coin
<1>5. UtxoValue(Unspent({})) + StakeValue(genesis_accounts) + genesis_rewards = MAX_COIN
  <2> DEFINE s == StakeValue(genesis_accounts)
             u == UtxoValue(Unspent({}))
  <2>1. s + genesis_rewards = MAX_COIN
    BY SupplyAssumption
  <2> HIDE DEF s, u
  <2>2. u + s + genesis_rewards = MAX_COIN
    BY <1>2, <1>3, <1>4, <2>1 DEF u, s
  <2> QED
    BY <2>2 DEF u, s
<1> QED
  BY <1>1, <1>5 DEF Supply

LEMMA InitChainSupply ==
  ASSUME SpendInvariant, SupplyInvariant, InitChain
  PROVE  SupplyInvariant'
<1>1. /\ bodies = {} /\ bodies' = {} /\ delivered_txs = <<>> /\ delivered_txs' = <<>>
      /\ stored_state' = {genesis_state}
      /\ uncommitted_account_root_hash' = genesis_accounts
      /\ last_state' = genesis_state
  BY DEF InitChain, SpendInvariant, Running
<1>2. Chain' = {}
  BY <1>1 DEF Chain, Delivered
<1>3. OutputsOf({}) = {}
  BY DEF OutputsOf
<1>4. /\ genesis_state.last_account_root_hash = genesis_accounts
      /\ genesis_state.rewards_pool.remaining = genesis_rewards
  BY DEF genesis_state, genesis_pool
<1> QED
  BY <1>1, <1>2, <1>3, <1>4, GenesisSupply, FS_EmptySet, Zenon DEF SupplyInvariant

LEMMA CommitSupply ==
  ASSUME TypeOK, SupplyInvariant, Commit
  PROVE  SupplyInvariant'
<1>1. bodies' = Chain /\ Chain' = Chain
  BY CommitChain
<1>2. /\ stored_state' = {CommittedState} /\ last_state' = CommittedState
      /\ uncommitted_account_root_hash' = uncommitted_account_root_hash
      /\ Running
  BY DEF Commit, Running
<1>3. CommittedState.last_account_root_hash = uncommitted_account_root_hash
  BY <1>2, CommittedFields DEF SupplyInvariant
<1>4. CommittedState.rewards_pool.remaining = last_state.rewards_pool.remaining
  BY CommittedFields
<1> QED
  BY <1>1, <1>2, <1>3, <1>4, Zenon DEF SupplyInvariant

LEMMA MemoryLostSupply ==
  ASSUME TypeOK, SupplyInvariant, MemoryLost, UNCHANGED dbVars
  PROVE  SupplyInvariant'
<1>1. bodies' = bodies /\ stored_state' = stored_state /\ ~ Running'
  BY DEF dbVars, MemoryLost, Running
<1>2. Chain' = bodies
  BY DEF MemoryLost, dbVars, Chain, Delivered
<1>3. IsFiniteSet(OutputsOf(bodies))
  <2>1. OutputsOf(bodies) \in SUBSET OutputsOf(Chain)
    BY ChainTxs, OutputsMember DEF Chain
  <2> QED
    BY <2>1, FS_Subset DEF SupplyInvariant
<1> QED
  BY <1>1, <1>2, <1>3 DEF SupplyInvariant

LEMMA NextSupply ==
  TypeOK /\ SpendInvariant /\ SupplyInvariant /\ [Next]_vars => SupplyInvariant'
<1> SUFFICES ASSUME TypeOK, SpendInvariant, SupplyInvariant, [Next]_vars
             PROVE  SupplyInvariant'
  OBVIOUS
<1>1. CASE NewWithStorage
  BY <1>1, NewWithStorageSupply
<1>2. CASE NewWithStoragePanics
  BY <1>2, SameSupply DEF NewWithStoragePanics, vars, memVars, dbVars, Running
<1>3. CASE InitChain
  BY <1>3, InitChainSupply
<1>4. CASE BeginBlock
  BY <1>4, BeginState, SameSupply DEF BeginBlock, dbVars, Running
<1>5. ASSUME NEW id \in TxId, CheckTx(id)
      PROVE  SupplyInvariant'
  BY <1>5, SameSupply DEF CheckTx, memVars, dbVars, Running
<1>6. ASSUME NEW id \in TxId, DeliverTx(id)
      PROVE  SupplyInvariant'
  <2>1. CASE DeliverValid(id)
    BY <1>6, <2>1, DeliverSupply
  <2>2. CASE DeliverInvalid(id)
    BY <1>6, <2>2, SameSupply DEF DeliverTx, DeliverInvalid, dbVars, Running
  <2> QED
    BY <1>6, <2>1, <2>2 DEF DeliverTx
<1>7. CASE EndBlock
  BY <1>7, EndState, SameSupply DEF EndBlock, dbVars, Running
<1>8. CASE Commit
  BY <1>8, CommitSupply
<1>9. CASE Crash
  BY <1>9, MemoryLostSupply DEF Crash
<1>10. CASE CrashInCommit
  BY <1>10, MemoryLostSupply DEF CrashInCommit
<1>11. CASE RestartServer
  BY <1>11, SameSupply DEF RestartServer, memVars, dbVars, Running
<1>12. CASE UNCHANGED vars
  BY <1>12, SameSupply DEF vars, memVars, dbVars, Running
<1> QED
  BY <1>1, <1>2, <1>3, <1>4, <1>5, <1>6, <1>7, <1>8, <1>9, <1>10, <1>11, <1>12 DEF Next

LEMMA SupplyFromInvariant ==
  TypeOK /\ SpendInvariant /\ SupplyInvariant => SupplyConserved /\ NoCoinPanic
<1> SUFFICES ASSUME TypeOK, SpendInvariant, SupplyInvariant
             PROVE  SupplyConserved /\ NoCoinPanic
  OBVIOUS
<1>1. {o \in OutputsOf(bodies) : o.index \notin tx_meta[o.id].spent} = Unspent(bodies)
  <2>1. \A o \in OutputsOf(bodies) : o.id \in TxId
    BY ChainTxs, OutputsMember
  <2>2. \A id \in TxId : tx_meta[id].spent = SpentBy(bodies, id)
    BY MetaOfFields DEF SpendInvariant, SpentBitsExact
  <2> QED
    BY <2>1, <2>2 DEF Unspent
<1>2. {o \in OutputsOf(Chain) : o.index \notin GetMeta(o.id).spent} = Unspent(Chain)
  <2>1. \A o \in OutputsOf(Chain) : o.id \in TxId
    BY ChainTxs, OutputsMember
  <2>2. \A id \in TxId : GetMeta(id).spent = SpentBy(Chain, id)
    BY MetaOfFields DEF SpendInvariant, SpentBitsExact
  <2> QED
    BY <2>1, <2>2 DEF Unspent
<1>3. SupplyConserved
  BY <1>1, <1>2, Zenon DEF SupplyConserved, SupplyInvariant, Supply
<1>4. NoCoinPanic
  BY VerifiedFits DEF NoCoinPanic, Running
<1> QED
  BY <1>3, <1>4

\* Unspent outputs, stake and the rewards pool add up to the supply of the
\* genesis distribution: in the database at every moment, crashes included, and
\* in memory after every DeliverTx.
THEOREM SupplyIsConserved == Spec => []SupplyConserved
<1>1. Init /\ [][Next]_vars => [](TypeOK /\ SpendInvariant /\ SupplyInvariant)
  BY InitType, NextType, InitSpends, NextSpends, InitSupply, NextSupply, PTL
<1> QED
  BY <1>1, SupplyFromInvariant, PTL DEF Spec

\* The expect() calls on Coin additions in deliver_tx, deposit and unbond never
\* fire on a transaction verify accepted.
THEOREM CoinsNeverPanic == Spec => []NoCoinPanic
<1>1. Init /\ [][Next]_vars => [](TypeOK /\ SpendInvariant /\ SupplyInvariant)
  BY InitType, NextType, InitSpends, NextSpends, InitSupply, NextSupply, PTL
<1> QED
  BY <1>1, SupplyFromInvariant, PTL DEF Spec
=============================================================================
