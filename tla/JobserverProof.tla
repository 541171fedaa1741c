----------------------------- MODULE JobserverProof -----------------------------
(***************************************************************************)
(* Proofs about Jobserver: for every tree of makes, every amount of work,  *)
(* every number of tokens and both ways to build make, no death is missed, *)
(* the tokens and the commands are accounted for, and the makes together   *)
(* are the pool of tokens that TokenPool describes.                        *)
(***************************************************************************)
EXTENDS JobserverInv, FiniteSetsExt, FiniteSetTheorems, WellFoundedInduction, TLAPS

--------------------------------------------------------------------------------
(* Sums over finite sets, as the fold of the community modules computes them *)

Sum(f, D) == MapThenSumSet(LAMBDA x : f[x], D)

Pick(S) == CHOOSE x \in S : TRUE

\* g sums f over every subset of D, one picked element after the other
Sums(g, f, D) ==
    g = [S \in SUBSET D |-> IF S = {} THEN 0 ELSE f[Pick(S)] + g[S \ {Pick(S)}]]

Partial(f, D) == CHOOSE g : Sums(g, f, D)

--------------------------------------------------------------------------------
(* Smallest counterexamples *)

\* Among subsets of a finite set there is one that has none of the others below it.
LEMMA SmallestSubset ==
    ASSUME NEW D, IsFiniteSet(D), NEW B, B \subseteq SUBSET D, B # {}
    PROVE  \E T \in B : \A U \in SUBSET T : U # T => U \notin B
<1> DEFINE R == StrictSubsetOrdering(D)
<1>1. IsWellFoundedOn(R, SUBSET D)
  BY FS_StrictSubsetOrderingWellFounded, FS_FiniteSubsetsOfFinite
<1>2. \E T \in B : \A U \in B : ~(<<U, T>> \in R)
  <2> HIDE DEF R
  <2> QED BY <1>1, WFMin
<1>3. PICK T \in B : \A U \in B : ~(<<U, T>> \in R)
  BY <1>2
<1>4. ASSUME NEW U \in SUBSET T, U # T, U \in B
      PROVE  FALSE
  <2>1. U \in SUBSET D /\ T \in SUBSET D
    BY <1>4
  <2>2. <<U, T>> \in R
    BY <2>1, <1>4 DEF StrictSubsetOrdering
  <2> QED BY <1>3, <1>4, <2>2
<1> QED BY <1>3, <1>4

LEMMA PickIn == ASSUME NEW S, S # {} PROVE Pick(S) \in S
BY DEF Pick

--------------------------------------------------------------------------------
(* The fold has a value *)

\* Two functions that sum f agree where both are defined.
LEMMA SumsAgree ==
    ASSUME NEW D, IsFiniteSet(D), NEW A \in SUBSET D, NEW B \in SUBSET A, NEW f, NEW g, NEW h,
           Sums(g, f, A), Sums(h, f, B)
    PROVE  g[B] = h[B]
<1> DEFINE Bad == {S \in SUBSET B : g[S] # h[S]}
<1>1. SUFFICES ASSUME Bad # {} PROVE FALSE
  OBVIOUS
<1>2. PICK T \in Bad : \A U \in SUBSET T : U # T => U \notin Bad
  <2>1. Bad \subseteq SUBSET D
    OBVIOUS
  <2> HIDE DEF Bad
  <2> QED BY <1>1, <2>1, SmallestSubset
<1>3. T \in SUBSET A /\ T \in SUBSET B
  OBVIOUS
<1>4. CASE T = {}
  BY <1>3, <1>4 DEF Sums
<1>5. CASE T # {}
  <2> DEFINE U == T \ {Pick(T)}
  <2>1. U \in SUBSET T /\ U # T
    BY <1>5, PickIn
  <2>2. g[U] = h[U]
    BY <2>1, <1>2
  <2>3. g[T] = f[Pick(T)] + g[U] /\ h[T] = f[Pick(T)] + h[U]
    BY <1>3, <1>5 DEF Sums
  <2> QED BY <2>2, <2>3
<1> QED BY <1>4, <1>5

\* There is a function that sums f.
LEMMA SumsExist ==
    ASSUME NEW D, IsFiniteSet(D), NEW f
    PROVE  \E g : Sums(g, f, D)
<1> DEFINE Bad == {T \in SUBSET D : ~ \E g : Sums(g, f, T)}
<1>1. SUFFICES ASSUME Bad # {} PROVE FALSE
  OBVIOUS
<1>2. PICK T \in Bad : \A U \in SUBSET T : U # T => U \notin Bad
  <2>1. Bad \subseteq SUBSET D
    OBVIOUS
  <2> HIDE DEF Bad
  <2> QED BY <1>1, <2>1, SmallestSubset
<1> DEFINE V(U) == Partial(f, U)[U]
           h == [S \in SUBSET T |-> IF S = {} THEN 0 ELSE f[Pick(S)] + V(S \ {Pick(S)})]
<1>3. ASSUME NEW U \in SUBSET T, U # T
      PROVE  Sums(Partial(f, U), f, U)
  <2>1. \E g : Sums(g, f, U)
    BY <1>2, <1>3
  <2> QED BY <2>1 DEF Partial
<1>4. ASSUME NEW U \in SUBSET T, U # T
      PROVE  h[U] = V(U)
  <2>1. CASE U = {}
    BY <2>1, <1>3, <1>4 DEF Sums
  <2>2. CASE U # {}
    <3> DEFINE W == U \ {Pick(U)}
    <3>1. W \in SUBSET U /\ W \in SUBSET T /\ W # T
      BY <1>4, <2>2, PickIn
    <3>2. Partial(f, U)[W] = Partial(f, W)[W]
      <4>1. U \in SUBSET D
        OBVIOUS
      <4>2. Sums(Partial(f, U), f, U) /\ Sums(Partial(f, W), f, W)
        BY <1>3, <1>4, <3>1
      <4> HIDE DEF W
      <4> QED BY <4>1, <4>2, <3>1, SumsAgree
    <3>3. Partial(f, U)[U] = f[Pick(U)] + Partial(f, U)[W]
      BY <1>3, <1>4, <2>2 DEF Sums
    <3>4. h[U] = f[Pick(U)] + V(W)
      BY <2>2
    <3> QED BY <3>2, <3>3, <3>4
  <2> QED BY <2>1, <2>2
<1>5. ASSUME NEW S \in SUBSET T
      PROVE  h[S] = IF S = {} THEN 0 ELSE f[Pick(S)] + h[S \ {Pick(S)}]
  <2>1. CASE S = {}
    BY <2>1
  <2>2. CASE S # {}
    <3>1. S \ {Pick(S)} \in SUBSET T /\ S \ {Pick(S)} # T
      BY <2>2, PickIn
    <3>2. h[S \ {Pick(S)}] = V(S \ {Pick(S)})
      BY <3>1, <1>4
    <3> QED BY <2>2, <3>2
  <2> QED BY <2>1, <2>2
<1>6. Sums(h, f, T)
  <2>1. h = [S \in SUBSET T |-> h[S]]
    OBVIOUS
  <2> HIDE DEF h
  <2> QED BY <2>1, <1>5 DEF Sums
<1> HIDE DEF h
<1> QED BY <1>2, <1>6

\* So the fold is what its recursion says.
LEMMA PartialSums ==
    ASSUME NEW D, IsFiniteSet(D), NEW f
    PROVE  /\ Sums(Partial(f, D), f, D)
           /\ Sum(f, D) = Partial(f, D)[D]
<1>1. Sums(Partial(f, D), f, D)
  BY SumsExist DEF Partial
<1>2. Sum(f, D) = Partial(f, D)[D]
  BY Zenon DEF Sum, MapThenSumSet, MapThenFoldSet, Partial, Sums, Pick
<1> QED BY <1>1, <1>2

LEMMA PartialStep ==
    ASSUME NEW D, IsFiniteSet(D), NEW f, NEW S \in SUBSET D
    PROVE  Partial(f, D)[S] =
               IF S = {} THEN 0 ELSE f[Pick(S)] + Partial(f, D)[S \ {Pick(S)}]
<1>1. Sums(Partial(f, D), f, D)
  BY PartialSums
<1> QED BY <1>1 DEF Sums

--------------------------------------------------------------------------------
(* The sum of natural numbers *)

\* The sum of natural numbers is one.
THEOREM SumNat ==
    ASSUME NEW D, IsFiniteSet(D), NEW f \in [D -> Nat]
    PROVE  /\ Sum(f, D) \in Nat
           /\ \A S \in SUBSET D : Partial(f, D)[S] \in Nat
<1> DEFINE s(S) == Partial(f, D)[S]
           Bad == {S \in SUBSET D : s(S) \notin Nat}
<1>1. \A S \in SUBSET D : s(S) = IF S = {} THEN 0 ELSE f[Pick(S)] + s(S \ {Pick(S)})
  BY PartialStep
<1> HIDE DEF s
<1>2. Bad = {}
  <2>1. SUFFICES ASSUME Bad # {} PROVE FALSE
    OBVIOUS
  <2>2. PICK T \in Bad : \A U \in SUBSET T : U # T => U \notin Bad
    <3>1. Bad \subseteq SUBSET D
      OBVIOUS
    <3> HIDE DEF Bad
    <3> QED BY <2>1, <3>1, SmallestSubset
  <2>3. T # {}
    <3> SUFFICES ASSUME T = {} PROVE FALSE
      OBVIOUS
    <3>1. T \in SUBSET D /\ T \in Bad
      OBVIOUS
    <3>2. s(T) = 0
      BY <1>1, <3>1
    <3> QED BY <3>1, <3>2
  <2>4. Pick(T) \in D /\ T \ {Pick(T)} \in SUBSET T /\ T \ {Pick(T)} # T
    BY <2>3, PickIn
  <2>5. s(T \ {Pick(T)}) \in Nat
    BY <2>2, <2>4
  <2> QED BY <1>1, <2>3, <2>4, <2>5
<1>3. Sum(f, D) = s(D)
  BY PartialSums DEF s
<1>4. \A S \in SUBSET D : s(S) \in Nat
  BY <1>2
<1> QED BY <1>3, <1>4 DEF s

\* A sum of sums.
LEMMA SumPlus ==
    ASSUME NEW D, IsFiniteSet(D), NEW f \in [D -> Nat], NEW g \in [D -> Nat], NEW h \in [D -> Nat],
           \A x \in D : h[x] = f[x] + g[x]
    PROVE  Sum(h, D) = Sum(f, D) + Sum(g, D)
<1> DEFINE sf(S) == Partial(f, D)[S]
           sg(S) == Partial(g, D)[S]
           sh(S) == Partial(h, D)[S]
           Bad == {S \in SUBSET D : sh(S) # sf(S) + sg(S)}
<1>1. /\ \A S \in SUBSET D : sf(S) = IF S = {} THEN 0 ELSE f[Pick(S)] + sf(S \ {Pick(S)})
      /\ \A S \in SUBSET D : sg(S) = IF S = {} THEN 0 ELSE g[Pick(S)] + sg(S \ {Pick(S)})
      /\ \A S \in SUBSET D : sh(S) = IF S = {} THEN 0 ELSE h[Pick(S)] + sh(S \ {Pick(S)})
  BY PartialStep
<1>2. \A S \in SUBSET D : sf(S) \in Nat /\ sg(S) \in Nat /\ sh(S) \in Nat
  BY SumNat
<1>3. Sum(f, D) = sf(D) /\ Sum(g, D) = sg(D) /\ Sum(h, D) = sh(D)
  BY PartialSums
<1> HIDE DEF sf, sg, sh
<1>4. Bad = {}
  <2>1. SUFFICES ASSUME Bad # {} PROVE FALSE
    OBVIOUS
  <2>2. PICK T \in Bad : \A U \in SUBSET T : U # T => U \notin Bad
    <3>1. Bad \subseteq SUBSET D
      OBVIOUS
    <3> HIDE DEF Bad
    <3> QED BY <2>1, <3>1, SmallestSubset
  <2>3. T # {}
    <3> SUFFICES ASSUME T = {} PROVE FALSE
      OBVIOUS
    <3>1. T \in SUBSET D /\ T \in Bad
      OBVIOUS
    <3>2. sf(T) = 0 /\ sg(T) = 0 /\ sh(T) = 0
      BY <1>1, <3>1
    <3> QED BY <3>1, <3>2
  <2> DEFINE U == T \ {Pick(T)}
  <2>4. Pick(T) \in D /\ U \in SUBSET T /\ U # T /\ U \in SUBSET D
    BY <2>3, PickIn
  <2>5. sh(U) = sf(U) + sg(U)
    BY <2>2, <2>4
  <2>6. /\ sf(T) = f[Pick(T)] + sf(U)
        /\ sg(T) = g[Pick(T)] + sg(U)
        /\ sh(T) = h[Pick(T)] + sh(U)
    BY <1>1, <2>3
  <2>7. h[Pick(T)] = f[Pick(T)] + g[Pick(T)] /\ f[Pick(T)] \in Nat /\ g[Pick(T)] \in Nat
    BY <2>4
  <2> QED BY <1>2, <2>4, <2>5, <2>6, <2>7
<1> QED BY <1>3, <1>4

\* A sum of which one term changes.
LEMMA SumAt ==
    ASSUME NEW D, IsFiniteSet(D), NEW f \in [D -> Nat], NEW g \in [D -> Nat], NEW m \in D,
           \A x \in D \ {m} : g[x] = f[x]
    PROVE  Sum(g, D) + f[m] = Sum(f, D) + g[m]
<1> DEFINE sf(S) == Partial(f, D)[S]
           sg(S) == Partial(g, D)[S]
           Bad == {S \in SUBSET D : ~(IF m \in S THEN sg(S) + f[m] = sf(S) + g[m]
                                                 ELSE sg(S) = sf(S))}
<1>1. /\ \A S \in SUBSET D : sf(S) = IF S = {} THEN 0 ELSE f[Pick(S)] + sf(S \ {Pick(S)})
      /\ \A S \in SUBSET D : sg(S) = IF S = {} THEN 0 ELSE g[Pick(S)] + sg(S \ {Pick(S)})
  BY PartialStep
<1>2. \A S \in SUBSET D : sf(S) \in Nat /\ sg(S) \in Nat
  BY SumNat
<1>3. Sum(f, D) = sf(D) /\ Sum(g, D) = sg(D)
  BY PartialSums
<1> HIDE DEF sf, sg
<1>4. Bad = {}
  <2>1. SUFFICES ASSUME Bad # {} PROVE FALSE
    OBVIOUS
  <2>2. PICK T \in Bad : \A U \in SUBSET T : U # T => U \notin Bad
    <3>1. Bad \subseteq SUBSET D
      OBVIOUS
    <3> HIDE DEF Bad
    <3> QED BY <2>1, <3>1, SmallestSubset
  <2>3. T # {}
    <3> SUFFICES ASSUME T = {} PROVE FALSE
      OBVIOUS
    <3>1. T \in SUBSET D /\ T \in Bad
      OBVIOUS
    <3> QED BY <1>1, <3>1
  <2> DEFINE U == T \ {Pick(T)}
  <2>4. Pick(T) \in D /\ Pick(T) \in T /\ U \in SUBSET T /\ U # T /\ U \in SUBSET D
    BY <2>3, PickIn
  <2>5. IF m \in U THEN sg(U) + f[m] = sf(U) + g[m] ELSE sg(U) = sf(U)
    BY <2>2, <2>4
  <2>6. /\ sf(T) = f[Pick(T)] + sf(U)
        /\ sg(T) = g[Pick(T)] + sg(U)
    BY <1>1, <2>3
  <2>7. /\ f[Pick(T)] \in Nat /\ g[Pick(T)] \in Nat /\ f[m] \in Nat /\ g[m] \in Nat
        /\ sf(U) \in Nat /\ sg(U) \in Nat
        /\ Pick(T) # m => g[Pick(T)] = f[Pick(T)]
    BY <1>2, <2>4
  <2>8. CASE Pick(T) = m
    BY <2>4, <2>5, <2>6, <2>7, <2>8
  <2>9. CASE Pick(T) # m
    BY <2>4, <2>5, <2>6, <2>7, <2>9
  <2> QED BY <2>8, <2>9
<1> QED BY <1>3, <1>4

\* A sum of ones counts.
THEOREM SumCount ==
    ASSUME NEW D, IsFiniteSet(D), NEW f \in [D -> Nat], NEW A \in SUBSET D,
           \A x \in D : f[x] = IF x \in A THEN 1 ELSE 0
    PROVE  Sum(f, D) = Cardinality(A)
<1> DEFINE sf(S) == Partial(f, D)[S]
           Bad == {S \in SUBSET D : sf(S) # Cardinality(A \cap S)}
<1>1. \A S \in SUBSET D : sf(S) = IF S = {} THEN 0 ELSE f[Pick(S)] + sf(S \ {Pick(S)})
  BY PartialStep
<1>2. \A S \in SUBSET D : sf(S) \in Nat
  BY SumNat
<1>3. Sum(f, D) = sf(D)
  BY PartialSums
<1> HIDE DEF sf
<1>4. Bad = {}
  <2>1. SUFFICES ASSUME Bad # {} PROVE FALSE
    OBVIOUS
  <2>2. PICK T \in Bad : \A U \in SUBSET T : U # T => U \notin Bad
    <3>1. Bad \subseteq SUBSET D
      OBVIOUS
    <3> HIDE DEF Bad
    <3> QED BY <2>1, <3>1, SmallestSubset
  <2>3. T # {}
    <3>1. A \cap {} = {}
      OBVIOUS
    <3> QED BY <1>1, <3>1, FS_EmptySet
  <2> DEFINE U == T \ {Pick(T)}
  <2>4. Pick(T) \in D /\ Pick(T) \in T /\ U \in SUBSET T /\ U # T /\ U \in SUBSET D
    BY <2>3, PickIn
  <2>5. sf(U) = Cardinality(A \cap U)
    BY <2>2, <2>4
  <2>6. sf(T) = f[Pick(T)] + sf(U)
    BY <1>1, <2>3
  <2>7. IsFiniteSet(A \cap T)
    BY FS_Subset
  <2>8. /\ A \cap U = (A \cap T) \ {Pick(T)}
        /\ Pick(T) \in A <=> Pick(T) \in A \cap T
    BY <2>4
  <2>9. Cardinality(A \cap T) \in Nat
    BY <2>7, FS_CardinalityType
  <2>10. Cardinality(A \cap U) = IF Pick(T) \in A THEN Cardinality(A \cap T) - 1
                                                  ELSE Cardinality(A \cap T)
    <3> DEFINE AT == A \cap T
               p == Pick(T)
    <3>1. Cardinality(AT \ {p}) = IF p \in AT THEN Cardinality(AT) - 1 ELSE Cardinality(AT)
      <4>1. IsFiniteSet(AT)
        BY <2>7
      <4> HIDE DEF AT, p
      <4> QED BY <4>1, FS_RemoveElement
    <3> QED BY <2>8, <3>1
  <2>11. f[Pick(T)] = IF Pick(T) \in A THEN 1 ELSE 0
    BY <2>4
  <2> QED BY <2>5, <2>6, <2>9, <2>10, <2>11
<1>5. A \cap D = A
  OBVIOUS
<1> QED BY <1>3, <1>4, <1>5

\* Nothing adds up to nothing.
THEOREM SumZero ==
    ASSUME NEW D, IsFiniteSet(D), NEW f \in [D -> Nat], \A x \in D : f[x] = 0
    PROVE  Sum(f, D) = 0
<1>1. \A x \in D : f[x] = IF x \in {} THEN 1 ELSE 0
  OBVIOUS
<1>2. Sum(f, D) = Cardinality({})
  BY <1>1, SumCount
<1> QED BY <1>2, FS_EmptySet

\* Term by term no more, no more in all.
THEOREM SumLeq ==
    ASSUME NEW D, IsFiniteSet(D), NEW f \in [D -> Nat], NEW g \in [D -> Nat],
           \A x \in D : f[x] <= g[x]
    PROVE  Sum(f, D) <= Sum(g, D)
<1> DEFINE d == [x \in D |-> g[x] - f[x]]
<1>1. d \in [D -> Nat] /\ \A x \in D : g[x] = f[x] + d[x]
  OBVIOUS
<1> HIDE DEF d
<1>2. Sum(g, D) = Sum(f, D) + Sum(d, D)
  BY <1>1, SumPlus
<1>3. Sum(f, D) \in Nat /\ Sum(g, D) \in Nat /\ Sum(d, D) \in Nat
  BY <1>1, SumNat
<1> QED BY <1>2, <1>3

--------------------------------------------------------------------------------
(* The makes a make has started *)

\* A make that was started has another make for its parent.
LEMMA SubFacts ==
    ASSUME NEW m \in Makes, NEW s \in Subs(m)
    PROVE  s \in Makes /\ s # Master /\ s # m /\ Parent[s] = m
BY ParentAssumption DEF Subs

LEMMA LiveFinite ==
    ASSUME NEW m \in Makes
    PROVE  /\ IsFiniteSet(LiveSubs(m)) /\ Cardinality(LiveSubs(m)) \in Nat
           /\ IsFiniteSet(LiveMakes) /\ Cardinality(LiveMakes) \in Nat
<1>1. LiveSubs(m) \in SUBSET Makes /\ LiveMakes \in SUBSET Makes
  BY DEF LiveSubs, LiveMakes, Subs
<1>2. IsFiniteSet(LiveSubs(m)) /\ IsFiniteSet(LiveMakes)
  BY <1>1, MakesAssumption, FS_Subset
<1> QED BY <1>2, FS_CardinalityType

\* The children a make has not waited for are commands, dead commands and makes.
LEMMA ChildrenAre ==
    ASSUME NEW m \in Makes
    PROVE  Children(m) = commands[m] + zombies[m] + Cardinality(LiveSubs(m))
BY DEF Children, LiveSubs, Alive

LEMMA ChildrenArePrime ==
    ASSUME NEW m \in Makes
    PROVE  Children(m)' = commands'[m] + zombies'[m] + Cardinality(LiveSubs(m)')
BY DEF Children, LiveSubs, Alive, Subs

\* A live make has a parent that may have children.
LEMMA LiveParent ==
    ASSUME TypeOK, ChildrenCounted, IdleOutside, NEW s \in Makes \ {Master}, at[s] \in Alive
    PROVE  /\ at[Parent[s]] \in Parenting
           /\ jobserver_tokens[Parent[s]] > 0
           /\ Parent[s] \in Makes
<1> DEFINE p == Parent[s]
<1>1. p \in Makes /\ s \in LiveSubs(p)
  BY ParentAssumption DEF LiveSubs, Subs
<1>2. IsFiniteSet(LiveSubs(p)) /\ Cardinality(LiveSubs(p)) \in Nat
  BY <1>1, LiveFinite
<1>3. Cardinality(LiveSubs(p)) # 0
  BY <1>1, <1>2, FS_EmptySet
<1>4. jobserver_tokens[p] = commands[p] + zombies[p] + Cardinality(LiveSubs(p))
  BY <1>1, ChildrenAre DEF ChildrenCounted
<1>5. jobserver_tokens[p] > 0
  BY <1>1, <1>2, <1>3, <1>4 DEF TypeOK
<1> QED BY <1>1, <1>5 DEF IdleOutside

\* When the master can have no children, no other make is left.
LEMMA NoneWithoutMaster ==
    ASSUME TypeOK, ChildrenCounted, IdleOutside, NoOrphans, at[Master] \notin Parenting
    PROVE  /\ LiveMakes = {}
           /\ \A m \in Makes \ {Master} : at[m] \notin Alive
           /\ \A m \in Makes : jobserver_tokens[m] = 0
<1>1. \A s \in LiveMakes : Parent[s] \in LiveMakes
  <2> SUFFICES ASSUME NEW s \in LiveMakes PROVE Parent[s] \in LiveMakes
    OBVIOUS
  <2>1. s \in Makes \ {Master} /\ at[s] \in Alive
    BY DEF LiveMakes
  <2>2. at[Parent[s]] \in Parenting /\ Parent[s] \in Makes
    BY <2>1, LiveParent
  <2> QED BY <2>2 DEF LiveMakes, Parenting, Alive
<1>2. LiveMakes \in SUBSET (Makes \ {Master})
  BY DEF LiveMakes
<1>3. \A s \in LiveMakes : at[s] \notin Alive
  BY <1>1, <1>2 DEF NoOrphans
<1>4. LiveMakes = {}
  BY <1>3 DEF LiveMakes
<1>5. \A m \in Makes \ {Master} : at[m] \notin Alive
  BY <1>4 DEF LiveMakes
<1>6. \A m \in Makes : at[m] \notin Parenting
  BY <1>5 DEF Alive, Parenting
<1> QED BY <1>4, <1>5, <1>6 DEF IdleOutside

\* A make comes to life only with a live parent.
LEMMA OrphansFrame ==
    ASSUME NoOrphans,
           \A s \in Makes \ {Master} :
               at'[s] \in Alive => at[s] \in Alive \/ at[Parent[s]] \in Alive
    PROVE  NoOrphans'
<1> SUFFICES ASSUME NEW X \in SUBSET (Makes \ {Master}), \A s \in X : Parent[s] \in X,
                    NEW s \in X, at'[s] \in Alive
             PROVE  FALSE
  BY DEF NoOrphans, Alive, Awake, Places
<1>1. \A x \in X : at[x] \notin Alive
  BY DEF NoOrphans
<1> QED BY <1>1

--------------------------------------------------------------------------------
(* Sums over the makes *)

LEMMA SumIs ==
    ASSUME NEW f
    PROVE  SumOver(f) = Sum(f, Makes)
BY Zenon DEF SumOver, Sum

LEMMA SumOverNat ==
    ASSUME NEW f \in [Makes -> Nat]
    PROVE  SumOver(f) \in Nat
BY SumIs, SumNat, MakesAssumption

\* One make takes or gives.
LEMMA SumOverAt ==
    ASSUME NEW f \in [Makes -> Nat], NEW g \in [Makes -> Nat], NEW m \in Makes,
           \A x \in Makes \ {m} : g[x] = f[x]
    PROVE  /\ SumOver(g) + f[m] = SumOver(f) + g[m]
           /\ SumOver(f) \in Nat /\ SumOver(g) \in Nat
<1>1. SumOver(g) + f[m] = SumOver(f) + g[m]
  <2>1. Sum(g, Makes) + f[m] = Sum(f, Makes) + g[m]
    BY SumAt, MakesAssumption
  <2> QED BY <2>1, SumIs
<1> QED BY <1>1, SumOverNat

LEMMA SumOverIncr ==
    ASSUME NEW f \in [Makes -> Nat], NEW g \in [Makes -> Nat], NEW m \in Makes,
           \A x \in Makes \ {m} : g[x] = f[x], g[m] = f[m] + 1
    PROVE  SumOver(g) = SumOver(f) + 1
<1>1. SumOver(g) + f[m] = SumOver(f) + g[m] /\ SumOver(f) \in Nat /\ SumOver(g) \in Nat
  BY SumOverAt
<1>2. f[m] \in Nat
  OBVIOUS
<1> QED BY <1>1, <1>2

\* What the sums add up are natural numbers.
LEMMA SummedNat ==
    ASSUME TypeOK
    PROVE  /\ DrawnBy \in [Makes -> Nat] /\ ExcessBy \in [Makes -> Nat]
           /\ SumOver(DrawnBy) \in Nat /\ SumOver(ExcessBy) \in Nat
           /\ SumOver(jobserver_tokens) \in Nat
           /\ SumOver(commands) \in Nat /\ SumOver(zombies) \in Nat
<1>1. DrawnBy \in [Makes -> Nat]
  BY DEF DrawnBy, Drawn, TypeOK
<1>2. ExcessBy \in [Makes -> Nat]
  BY DEF ExcessBy, Excess, TypeOK
<1> QED BY <1>1, <1>2, SumOverNat DEF TypeOK

--------------------------------------------------------------------------------
(* What most steps leave alone *)

\* A step after which the same makes are alive keeps what is said of the makes that
\* live and of those a make has started.
LEMMA SameLive ==
    ASSUME \A s \in Makes \ {Master} : at'[s] \in Alive <=> at[s] \in Alive
    PROVE  /\ LiveMakes' = LiveMakes
           /\ \A m \in Makes : LiveSubs(m)' = LiveSubs(m)
<1>1. LiveMakes' = LiveMakes
  BY DEF LiveMakes, Alive, Awake, Places
<1>2. ASSUME NEW m \in Makes PROVE LiveSubs(m)' = LiveSubs(m)
  BY DEF LiveSubs, Subs, Alive, Awake, Places
<1> QED BY <1>1, <1>2

\* The parts of the invariant that a make keeps by moving from one place to another.
Steady ==
    /\ MasterPlace /\ ChildrenCounted /\ IdleOutside /\ NoOrphans
    /\ TokensKept /\ ExcessCovered /\ SlotsKept /\ PeacefulEnd

LEMMA QuietMove ==
    ASSUME IInv, NEW m \in Makes, at' \in [Makes -> Places],
           \A s \in Makes \ {m} : at'[s] = at[s],
           at[m] \in Parenting \ {"start"},
           at'[m] \in Awake \ {"boot", "dying"},
           at'[m] = "start" => jobserver_tokens[m] = 0,
           at'[m] = "collect" => m = Master /\ jobserver_tokens[m] = 0,
           UNCHANGED <<js_type, jobserver_tokens, commands, zombies, pipe, collected, lost, fatals>>
    PROVE  Steady' /\ DrawnBy' = DrawnBy
<1> USE DEF IInv
<1>1. \A s \in Makes : at'[s] \in Alive <=> at[s] \in Alive
  BY DEF Parenting, Alive, Awake
<1>2. MasterPlace'
  BY MakesAssumption DEF MasterPlace, Awake, Parenting
<1>3. ChildrenCounted'
  <2>1. \A s \in Makes : Children(s)' = Children(s)
    BY <1>1, SameLive, ChildrenAre, ChildrenArePrime
  <2> QED BY <2>1 DEF ChildrenCounted
<1>4. IdleOutside'
  BY DEF IdleOutside, Parenting, Awake, Places
<1>5. NoOrphans'
  BY <1>1, OrphansFrame
<1>6. DrawnBy' = DrawnBy
  <2>1. ASSUME NEW s \in Makes PROVE Drawn(s)' = Drawn(s)
    BY DEF Drawn, Parenting
  <2> QED BY <2>1 DEF DrawnBy
<1>7. TokensKept'
  BY <1>6 DEF TokensKept
<1>8. ExcessBy' = ExcessBy
  BY DEF ExcessBy, Excess
<1>9. ExcessCovered'
  BY <1>8 DEF ExcessCovered
<1>10. SlotsKept'
  BY <1>1, SameLive DEF SlotsKept
<1>11. PeacefulEnd'
  BY MakesAssumption DEF PeacefulEnd, Awake
<1> QED BY <1>2, <1>3, <1>4, <1>5, <1>6, <1>7, <1>9, <1>10, <1>11 DEF Steady

LEMMA Parts ==
    /\ IInv <=> TypeOK /\ Steady /\ ChosenIsLeft /\ TokenInHand /\ DeathMarked
    /\ IInv' <=> TypeOK' /\ Steady' /\ ChosenIsLeft' /\ TokenInHand' /\ DeathMarked'
BY DEF IInv, Steady

\* A child that lies dead after a step in which nobody died lay dead before.
LEMMA NoNewDead ==
    ASSUME TypeOK, zombies' = zombies,
           \A s \in Makes : at'[s] = "zombie" => at[s] = "zombie",
           NEW m \in Makes, HasDead(m)'
    PROVE  HasDead(m)
BY DEF HasDead, DeadSubs, Subs

\* What new_job has chosen stays there while its make goes on and starts nothing.
LEMMA ChosenFrame ==
    ASSUME ChosenIsLeft,
           \A k \in Makes :
               at'[k] \in Starting =>
                   /\ at[k] \in Starting
                   /\ cur'[k] = cur[k] /\ todo'[k] = todo[k]
                   /\ \A s \in Subs(k) : at[s] = "unborn" => at'[s] = "unborn"
    PROVE  ChosenIsLeft'
BY DEF ChosenIsLeft, Starting, Subs

\* The mark of a death stays where nobody clears it.
LEMMA MarkFrame ==
    ASSUME DeathMarked, build' = build,
           \A k \in Makes :
               at'[k] \in {"check", "sleep", "read"} /\ HasDead(k)' =>
                   /\ at[k] \in {"check", "sleep", "read"} /\ HasDead(k)
                   /\ sigchld[k] => sigchld'[k]
                   /\ ~job_rfd[k] => ~job_rfd'[k]
    PROVE  DeathMarked'
<1> SUFFICES ASSUME NEW k \in Makes, at'[k] \in {"check", "sleep", "read"}, HasDead(k)'
             PROVE  IF build.pselect THEN sigchld'[k] ELSE ~job_rfd'[k]
  BY DEF DeathMarked
<1> QED BY DEF DeathMarked

--------------------------------------------------------------------------------
(* The token loop of new_job *)

LEMMA NewJobInv ==
    ASSUME IInv, NEW m \in Makes, NewJob(m)
    PROVE  IInv' /\ DrawnBy' = DrawnBy
<1> USE DEF IInv
<1>1. TypeOK'
  <2>1. PICK x \in Startable(m) : cur' = [cur EXCEPT ![m] = x]
    BY DEF NewJob
  <2>2. x \in Makes \cup {Command}
    BY DEF Startable, Subs
  <2> QED BY <2>1, <2>2 DEF NewJob, TypeOK, procVars, Places
<1>2. Steady' /\ DrawnBy' = DrawnBy
  <2>1. jobserver_tokens[m] = Children(m)
    BY DEF ChildrenCounted
  <2>2. at'[m] = "start" => jobserver_tokens[m] = 0
    BY <2>1 DEF NewJob, TypeOK
  <2>3. at'[m] \in {"wait", "start", "pre"} /\ \A s \in Makes \ {m} : at'[s] = at[s]
    BY DEF NewJob, TypeOK
  <2> QED BY <1>1, <2>2, <2>3, QuietMove
          DEF NewJob, procVars, TypeOK, Parenting, Awake, Places
<1>3. ChosenIsLeft'
  <2>1. PICK x \in Startable(m) : cur' = [cur EXCEPT ![m] = x]
    BY DEF NewJob
  <2>2. IF x = Command THEN todo[m] > 0 ELSE x \in Subs(m) /\ at[x] = "unborn"
    BY <2>1, CommandAssumption DEF Startable, Subs
  <2>3. SUFFICES ASSUME NEW k \in Makes, at'[k] \in Starting
                 PROVE  (IF cur[k] = Command THEN todo[k] > 0
                         ELSE cur[k] \in Subs(k) /\ at[cur[k]] = "unborn")'
    BY DEF ChosenIsLeft, Starting, Subs
  <2>4. CASE k = m
    <3>1. cur'[k] = x /\ todo'[k] = todo[k]
      BY <2>1, <2>4 DEF NewJob, procVars, TypeOK
    <3>2. x # Command => at'[x] = at[x]
      BY <2>2, SubFacts DEF NewJob, TypeOK
    <3> QED BY <2>2, <2>4, <3>1, <3>2 DEF Subs
  <2>5. CASE k # m
    <3>1. cur'[k] = cur[k] /\ todo'[k] = todo[k] /\ at'[k] = at[k]
      BY <2>1, <2>5 DEF NewJob, procVars, TypeOK
    <3>2. IF cur[k] = Command THEN todo[k] > 0 ELSE cur[k] \in Subs(k) /\ at[cur[k]] = "unborn"
      BY <2>3, <3>1 DEF ChosenIsLeft
    <3>3. cur[k] # Command => at'[cur[k]] = at[cur[k]]
      BY <3>2 DEF NewJob, TypeOK, Subs
    <3> QED BY <3>1, <3>2, <3>3 DEF Subs
  <2> QED BY <2>4, <2>5
<1>4. TokenInHand'
  <2>1. jobserver_tokens[m] = Children(m)
    BY DEF ChildrenCounted
  <2> QED BY <2>1 DEF TokenInHand, NewJob, TypeOK
<1>5. DeathMarked'
  <2> SUFFICES ASSUME NEW k \in Makes, at'[k] \in {"check", "sleep", "read"}, HasDead(k)'
               PROVE  IF build.pselect THEN sigchld[k] ELSE ~job_rfd[k]
    BY DEF DeathMarked, NewJob
  <2>1. k # m /\ at'[k] = at[k]
    BY DEF NewJob, TypeOK
  <2>2. HasDead(k)
    BY NoNewDead DEF NewJob, procVars, TypeOK
  <2> QED BY <2>1, <2>2 DEF DeathMarked
<1> QED BY <1>1, <1>2, <1>3, <1>4, <1>5, Parts

LEMMA PreAcquireInv ==
    ASSUME IInv, NEW m \in Makes, PreAcquire(m)
    PROVE  IInv' /\ DrawnBy' = DrawnBy
<1> USE DEF IInv
<1>1. TypeOK'
  BY DEF PreAcquire, TypeOK, procVars, Places
<1>2. /\ at[m] = "pre" /\ at'[m] = "reap" /\ \A s \in Makes \ {m} : at'[s] = at[s]
      /\ \A s \in Makes \ {m} : job_rfd'[s] = job_rfd[s]
  BY DEF PreAcquire, TypeOK
<1>3. Steady' /\ DrawnBy' = DrawnBy
  BY <1>1, <1>2, QuietMove DEF PreAcquire, procVars, TypeOK, Parenting, Awake, Places
<1>4. ChosenIsLeft'
  BY <1>2, ChosenFrame DEF PreAcquire, procVars, Starting, Subs
<1>5. TokenInHand'
  BY <1>2 DEF TokenInHand, PreAcquire
<1>6. DeathMarked'
  <2>1. \A k \in Makes : HasDead(k)' => HasDead(k)
    BY <1>2, NoNewDead DEF PreAcquire, procVars
  <2> QED BY <1>2, <2>1, MarkFrame DEF PreAcquire
<1> QED BY <1>1, <1>3, <1>4, <1>5, <1>6, Parts

LEMMA ReapEndsInv ==
    ASSUME IInv, NEW m \in Makes, ReapEnds(m)
    PROVE  IInv' /\ DrawnBy' = DrawnBy
<1> USE DEF IInv
<1>1. TypeOK'
  BY DEF ReapEnds, TypeOK, procVars, Places
<1>2. at[m] = "reap" /\ at'[m] = "check" /\ \A s \in Makes \ {m} : at'[s] = at[s]
  BY DEF ReapEnds, TypeOK
<1>3. Steady' /\ DrawnBy' = DrawnBy
  BY <1>1, <1>2, QuietMove DEF ReapEnds, procVars, TypeOK, Parenting, Awake, Places
<1>4. ChosenIsLeft'
  BY <1>2, ChosenFrame DEF ReapEnds, procVars, Starting, Subs
<1>5. TokenInHand'
  BY <1>2 DEF TokenInHand, ReapEnds
<1>6. DeathMarked'
  <2>1. \A k \in Makes : HasDead(k)' => HasDead(k)
    BY <1>2, NoNewDead DEF ReapEnds, procVars
  <2>2. \A k \in Makes : HasDead(k)' => k # m
    BY <2>1 DEF ReapEnds
  <2> QED BY <1>2, <2>1, <2>2, MarkFrame DEF ReapEnds
<1> QED BY <1>1, <1>3, <1>4, <1>5, <1>6, Parts

LEMMA CheckAgainInv ==
    ASSUME IInv, NEW m \in Makes, CheckAgain(m)
    PROVE  IInv' /\ DrawnBy' = DrawnBy
<1> USE DEF IInv
<1>1. TypeOK'
  BY DEF CheckAgain, TypeOK, procVars, Places
<1>2. /\ at[m] = "check" /\ at'[m] = IF jobserver_tokens[m] = 0 THEN "start" ELSE "sleep"
      /\ \A s \in Makes \ {m} : at'[s] = at[s]
  BY DEF CheckAgain, TypeOK
<1>3. Steady' /\ DrawnBy' = DrawnBy
  BY <1>1, <1>2, QuietMove DEF CheckAgain, procVars, TypeOK, Parenting, Awake, Places
<1>4. ChosenIsLeft'
  BY <1>2, ChosenFrame DEF CheckAgain, procVars, Starting, Subs
<1>5. TokenInHand'
  BY <1>2 DEF TokenInHand, CheckAgain, TypeOK
<1>6. DeathMarked'
  <2>1. \A k \in Makes : HasDead(k)' => HasDead(k)
    BY <1>2, NoNewDead DEF CheckAgain, procVars
  <2> QED BY <1>2, <2>1, MarkFrame DEF CheckAgain
<1> QED BY <1>1, <1>3, <1>4, <1>5, <1>6, Parts

LEMMA SelectInv ==
    ASSUME IInv, NEW m \in Makes, Select(m)
    PROVE  IInv' /\ DrawnBy' = DrawnBy
<1> USE DEF IInv
<1>1. TypeOK'
  BY DEF Select, TypeOK, procVars, Places
<1>2. /\ at[m] = "sleep" /\ at'[m] \in {"pre", "read"}
      /\ \A s \in Makes \ {m} : at'[s] = at[s] /\ sigchld'[s] = sigchld[s]
      /\ at'[m] = "read" => sigchld'[m] = sigchld[m]
  BY DEF Select, TypeOK
<1>3. Steady' /\ DrawnBy' = DrawnBy
  BY <1>1, <1>2, QuietMove DEF Select, procVars, TypeOK, Parenting, Awake, Places
<1>4. ChosenIsLeft'
  BY <1>2, ChosenFrame DEF Select, procVars, Starting, Subs
<1>5. TokenInHand'
  BY <1>2 DEF TokenInHand, Select
<1>6. DeathMarked'
  <2>1. \A k \in Makes : HasDead(k)' => HasDead(k)
    BY <1>2, NoNewDead DEF Select, procVars
  <2> QED BY <1>2, <2>1, MarkFrame DEF Select
<1> QED BY <1>1, <1>3, <1>4, <1>5, <1>6, Parts

LEMMA WaitForChildrenInv ==
    ASSUME IInv, NEW m \in Makes, WaitForChildren(m)
    PROVE  IInv' /\ DrawnBy' = DrawnBy
<1> USE DEF IInv
<1>1. TypeOK'
  BY DEF WaitForChildren, TypeOK, procVars, Places
<1>2. at[m] = "next" /\ at'[m] = "wait" /\ \A s \in Makes \ {m} : at'[s] = at[s]
  BY DEF WaitForChildren, TypeOK
<1>3. Steady' /\ DrawnBy' = DrawnBy
  BY <1>1, <1>2, QuietMove DEF WaitForChildren, procVars, TypeOK, Parenting, Awake, Places
<1>4. ChosenIsLeft'
  BY <1>2, ChosenFrame DEF WaitForChildren, procVars, Starting, Subs
<1>5. TokenInHand'
  BY <1>2 DEF TokenInHand, WaitForChildren
<1>6. DeathMarked'
  <2>1. \A k \in Makes : HasDead(k)' => HasDead(k)
    BY <1>2, NoNewDead DEF WaitForChildren, procVars
  <2> QED BY <1>2, <2>1, MarkFrame DEF WaitForChildren
<1> QED BY <1>1, <1>3, <1>4, <1>5, <1>6, Parts

\* A token read from the pipe is held by the make that read it, and by it alone
\* (posixos.c).
LEMMA TakenInv ==
    ASSUME IInv, NEW m \in Makes, at[m] \in {"sleep", "read"},
           pipe > 0, pipe' = pipe - 1, at' = [at EXCEPT ![m] = "start"],
           UNCHANGED <<build, js_type, jobserver_tokens, procVars, cur, sigchld, job_rfd, wfd,
                       collected, lost, fatals>>
    PROVE  /\ IInv'
           /\ DrawnBy' = [DrawnBy EXCEPT ![m] = @ + 1]
<1> USE DEF IInv, procVars
<1>1. TypeOK'
  BY DEF TypeOK, Places
<1>2. at'[m] = "start" /\ \A s \in Makes \ {m} : at'[s] = at[s]
  BY DEF TypeOK
<1>3. jobserver_tokens[m] > 0 /\ js_type[m] # "none" /\ jobserver_tokens[m] \in Nat
  BY DEF TokenInHand, TypeOK
<1>4. DrawnBy' = [DrawnBy EXCEPT ![m] = @ + 1]
  <2>1. Drawn(m)' = Drawn(m) + 1
    BY <1>2, <1>3 DEF Drawn
  <2>2. \A s \in Makes \ {m} : Drawn(s)' = Drawn(s)
    BY <1>2 DEF Drawn
  <2> QED BY <2>1, <2>2 DEF DrawnBy
<1>5. \A s \in Makes : at'[s] \in Alive <=> at[s] \in Alive
  BY <1>2 DEF Alive, Awake, Places
<1>6. MasterPlace'
  BY <1>2, MakesAssumption DEF MasterPlace
<1>7. ChildrenCounted'
  <2>1. \A s \in Makes : Children(s)' = Children(s)
    BY <1>5, SameLive, ChildrenAre, ChildrenArePrime
  <2> QED BY <2>1 DEF ChildrenCounted
<1>8. IdleOutside'
  BY <1>2 DEF IdleOutside, Parenting, Awake, Places
<1>9. NoOrphans'
  BY <1>5, OrphansFrame
<1>10. TokensKept'
  <2>1. DrawnBy \in [Makes -> Nat] /\ DrawnBy' \in [Makes -> Nat]
    BY <1>1, <1>4, SummedNat
  <2>2. DrawnBy'[m] = DrawnBy[m] + 1 /\ \A x \in Makes \ {m} : DrawnBy'[x] = DrawnBy[x]
    BY <1>4, <2>1
  <2>3. SumOver(DrawnBy') + DrawnBy[m] = SumOver(DrawnBy) + DrawnBy'[m]
    BY <2>1, <2>2, SumOverAt
  <2>4. SumOver(DrawnBy') = SumOver(DrawnBy) + 1
    BY <2>1, <2>2, <2>3, SumOverNat
  <2> QED BY <2>1, <2>4, SumOverNat, TokensAssumption DEF TokensKept, TypeOK
<1>11. ExcessCovered'
  <2>1. ExcessBy' = ExcessBy
    BY DEF ExcessBy, Excess
  <2> QED BY <2>1 DEF ExcessCovered
<1>12. SlotsKept'
  BY <1>5, SameLive DEF SlotsKept
<1>13. PeacefulEnd'
  <2>1. at[Master] = "gone" => \A k \in Makes : jobserver_tokens[k] = 0
    BY NoneWithoutMaster DEF Parenting, Awake
  <2> QED BY <1>2, <1>3, <2>1, MakesAssumption DEF PeacefulEnd
<1>14. Steady'
  BY <1>6, <1>7, <1>8, <1>9, <1>10, <1>11, <1>12, <1>13 DEF Steady
<1>15. ChosenIsLeft'
  BY <1>2, ChosenFrame DEF Starting, Subs
<1>16. TokenInHand'
  BY <1>2, <1>3 DEF TokenInHand
<1>17. DeathMarked'
  <2>1. \A k \in Makes : HasDead(k)' => HasDead(k)
    BY <1>2, NoNewDead
  <2> QED BY <1>2, <2>1, MarkFrame
<1> QED BY <1>1, <1>4, <1>14, <1>15, <1>16, <1>17, Parts

LEMMA ReadTokenInv ==
    ASSUME IInv, NEW m \in Makes, ReadToken(m)
    PROVE  /\ IInv'
           /\ \/ pipe' = pipe /\ DrawnBy' = DrawnBy
              \/ pipe > 0 /\ pipe' = pipe - 1 /\ DrawnBy' = [DrawnBy EXCEPT ![m] = @ + 1]
<1>1. CASE pipe > 0
  BY <1>1, TakenInv DEF ReadToken
<1>2. CASE ~(pipe > 0)
  <2> USE DEF IInv
  <2>1. TypeOK'
    BY <1>2 DEF ReadToken, TypeOK, procVars, Places
  <2>2. at[m] = "read" /\ at'[m] = "sleep" /\ \A s \in Makes \ {m} : at'[s] = at[s]
    BY <1>2 DEF ReadToken, TypeOK
  <2>3. Steady' /\ DrawnBy' = DrawnBy
    BY <1>2, <2>1, <2>2, QuietMove DEF ReadToken, procVars, TypeOK, Parenting, Awake, Places
  <2>4. ChosenIsLeft'
    BY <2>2, ChosenFrame DEF ReadToken, procVars, Starting, Subs
  <2>5. TokenInHand'
    BY <2>2 DEF TokenInHand, ReadToken
  <2>6. DeathMarked'
    <3>1. \A k \in Makes : HasDead(k)' => HasDead(k)
      BY <2>2, NoNewDead DEF ReadToken, procVars
    <3> QED BY <2>2, <3>1, MarkFrame DEF ReadToken
  <2> QED BY <1>2, <2>1, <2>3, <2>4, <2>5, <2>6, Parts DEF ReadToken
<1> QED BY <1>1, <1>2

LEMMA BlockingReadInv ==
    ASSUME IInv, NEW m \in Makes, BlockingRead(m)
    PROVE  /\ IInv'
           /\ \/ pipe' = pipe /\ DrawnBy' = DrawnBy
              \/ pipe > 0 /\ pipe' = pipe - 1 /\ DrawnBy' = [DrawnBy EXCEPT ![m] = @ + 1]
<1>1. CASE pipe > 0 /\ pipe' = pipe - 1 /\ at' = [at EXCEPT ![m] = "start"]
  BY <1>1, TakenInv DEF BlockingRead
<1>2. CASE at' = [at EXCEPT ![m] = "pre"] /\ UNCHANGED pipe
  <2> USE DEF IInv
  <2>1. TypeOK'
    BY <1>2 DEF BlockingRead, TypeOK, procVars, Places
  <2>2. at[m] = "sleep" /\ at'[m] = "pre" /\ \A s \in Makes \ {m} : at'[s] = at[s]
    BY <1>2 DEF BlockingRead, TypeOK
  <2>3. Steady' /\ DrawnBy' = DrawnBy
    BY <1>2, <2>1, <2>2, QuietMove DEF BlockingRead, procVars, TypeOK, Parenting, Awake, Places
  <2>4. ChosenIsLeft'
    BY <2>2, ChosenFrame DEF BlockingRead, procVars, Starting, Subs
  <2>5. TokenInHand'
    BY <2>2 DEF TokenInHand, BlockingRead
  <2>6. DeathMarked'
    <3>1. \A k \in Makes : HasDead(k)' => HasDead(k)
      BY <2>2, NoNewDead DEF BlockingRead, procVars
    <3> QED BY <2>2, <3>1, MarkFrame DEF BlockingRead
  <2> QED BY <1>2, <2>1, <2>3, <2>4, <2>5, <2>6, Parts
<1> QED BY <1>1, <1>2 DEF BlockingRead

--------------------------------------------------------------------------------
(* Starting and reaping a child *)

\* One make more is alive.
LEMMA OneMoreLives ==
    ASSUME NEW m \in Makes, NEW s \in Subs(m), at[s] \notin Alive, at'[s] \in Alive,
           \A k \in Makes \ {s} : at'[k] \in Alive <=> at[k] \in Alive
    PROVE  /\ Cardinality(LiveMakes') = Cardinality(LiveMakes) + 1
           /\ Cardinality(LiveSubs(m)') = Cardinality(LiveSubs(m)) + 1
           /\ \A k \in Makes \ {m} : LiveSubs(k)' = LiveSubs(k)
<1>1. s \in Makes /\ s # Master /\ s # m /\ Parent[s] = m
  BY SubFacts
<1>2. LiveMakes' = LiveMakes \cup {s} /\ s \notin LiveMakes
  BY <1>1 DEF LiveMakes, Alive, Awake, Places
<1>3. LiveSubs(m)' = LiveSubs(m) \cup {s} /\ s \notin LiveSubs(m)
  BY <1>1 DEF LiveSubs, Subs, Alive, Awake, Places
<1>4. \A k \in Makes \ {m} : LiveSubs(k)' = LiveSubs(k)
  BY <1>1 DEF LiveSubs, Subs, Alive, Awake, Places
<1>5. IsFiniteSet(LiveMakes) /\ IsFiniteSet(LiveSubs(m))
  BY LiveFinite
<1>6. Cardinality(LiveMakes \cup {s}) = Cardinality(LiveMakes) + 1
  BY <1>2, <1>5, FS_AddElement
<1>7. Cardinality(LiveSubs(m) \cup {s}) = Cardinality(LiveSubs(m)) + 1
  BY <1>3, <1>5, FS_AddElement
<1> QED BY <1>2, <1>3, <1>4, <1>6, <1>7

\* One make less is alive.
LEMMA OneLessLives ==
    ASSUME NEW m \in Makes, NEW s \in Subs(m), at[s] \in Alive, at'[s] \notin Alive,
           \A k \in Makes \ {s} : at'[k] \in Alive <=> at[k] \in Alive
    PROVE  /\ Cardinality(LiveMakes') = Cardinality(LiveMakes) - 1
           /\ Cardinality(LiveSubs(m)') = Cardinality(LiveSubs(m)) - 1
           /\ Cardinality(LiveSubs(m)) > 0
           /\ \A k \in Makes \ {m} : LiveSubs(k)' = LiveSubs(k)
<1>1. s \in Makes /\ s # Master /\ s # m /\ Parent[s] = m
  BY SubFacts
<1>2. LiveMakes' = LiveMakes \ {s} /\ s \in LiveMakes
  BY <1>1 DEF LiveMakes, Alive, Awake, Places
<1>3. LiveSubs(m)' = LiveSubs(m) \ {s} /\ s \in LiveSubs(m)
  BY <1>1 DEF LiveSubs, Subs, Alive, Awake, Places
<1>4. \A k \in Makes \ {m} : LiveSubs(k)' = LiveSubs(k)
  BY <1>1 DEF LiveSubs, Subs, Alive, Awake, Places
<1>5. IsFiniteSet(LiveMakes) /\ IsFiniteSet(LiveSubs(m)) /\ Cardinality(LiveSubs(m)) \in Nat
  BY LiveFinite
<1>6. Cardinality(LiveMakes \ {s}) = Cardinality(LiveMakes) - 1
  BY <1>2, <1>5, FS_RemoveElement
<1>7. Cardinality(LiveSubs(m) \ {s}) = Cardinality(LiveSubs(m)) - 1
  BY <1>3, <1>5, FS_RemoveElement
<1>8. Cardinality(LiveSubs(m)) # 0
  BY <1>3, <1>5, FS_EmptySet
<1> QED BY <1>2, <1>3, <1>4, <1>5, <1>6, <1>7, <1>8

\* What a make holds of the pipe is the same after it has started a child: the token
\* in hand has become the child's (job.c).
LEMMA StartDraws ==
    ASSUME IInv, NEW m \in Makes, Start(m)
    PROVE  DrawnBy' = DrawnBy /\ ExcessBy' = ExcessBy
<1> USE DEF IInv
<1>1. /\ at[m] = "start" /\ at'[m] = "next" /\ jobserver_tokens[m] \in Nat
      /\ jobserver_tokens'[m] = jobserver_tokens[m] + 1
      /\ \A k \in Makes \ {m} : jobserver_tokens'[k] = jobserver_tokens[k]
  <2>1. cur[m] # Command => cur[m] \in Subs(m)
    BY DEF ChosenIsLeft, Start, Starting
  <2> QED BY <2>1, SubFacts DEF Start, TypeOK
<1>2. js_type'[m] = js_type[m]
  <2>1. cur[m] # Command => cur[m] \in Subs(m)
    BY DEF ChosenIsLeft, Start, Starting
  <2> QED BY <2>1, SubFacts DEF Start, TypeOK
<1>3. js_type[m] = "none" => jobserver_tokens[m] = 0
  BY <1>1 DEF TokenInHand
<1>4. Drawn(m)' = Drawn(m) /\ Excess(m)' = Excess(m)
  BY <1>1, <1>2, <1>3 DEF Drawn, Excess
<1>5. ASSUME NEW k \in Makes \ {m} PROVE Drawn(k)' = Drawn(k) /\ Excess(k)' = Excess(k)
  <2>1. CASE cur[m] = Command \/ k # cur[m]
    <3>1. js_type'[k] = js_type[k] /\ at'[k] = at[k]
      BY <2>1, <1>5 DEF Start, TypeOK
    <3> QED BY <1>1, <3>1 DEF Drawn, Excess
  <2>2. CASE cur[m] # Command /\ k = cur[m]
    <3>1. at[k] = "unborn"
      BY <2>2, <1>1 DEF ChosenIsLeft, Starting
    <3>2. jobserver_tokens[k] = 0
      BY <3>1 DEF IdleOutside, Parenting, Awake
    <3>3. jobserver_tokens'[k] = 0
      BY <1>1, <1>5, <3>2
    <3> QED BY <3>2, <3>3 DEF Drawn, Excess
  <2> QED BY <2>1, <2>2
<1>6. \A k \in Makes : Drawn(k)' = Drawn(k) /\ Excess(k)' = Excess(k)
  BY <1>4, <1>5
<1> QED BY <1>6 DEF DrawnBy, ExcessBy

LEMMA StartInv ==
    ASSUME IInv, NEW m \in Makes, Start(m)
    PROVE  IInv' /\ DrawnBy' = DrawnBy
<1> USE DEF IInv, procVars
<1> DEFINE c == cur[m]
<1>1. /\ at[m] = "start"
      /\ jobserver_tokens' = [jobserver_tokens EXCEPT ![m] = @ + 1]
      /\ jobserver_tokens'[m] = jobserver_tokens[m] + 1 /\ jobserver_tokens[m] \in Nat
      /\ \A k \in Makes \ {m} : jobserver_tokens'[k] = jobserver_tokens[k]
      /\ UNCHANGED <<build, zombies, cur, sigchld, job_rfd, pipe, collected, lost, fatals>>
      /\ IF c = Command THEN todo[m] > 0 ELSE c \in Subs(m) /\ at[c] = "unborn"
  BY DEF Start, TypeOK, ChosenIsLeft, Starting
<1>2. at'[m] = "next"
  BY <1>1, SubFacts DEF Start, TypeOK
<1>3. \A k \in Makes : k # m /\ k # c => at'[k] = at[k] /\ js_type'[k] = js_type[k]
  BY DEF Start, TypeOK
<1>4. c # Command =>
          /\ c \in Makes /\ c # m /\ c # Master /\ at[c] = "unborn" /\ at'[c] = "boot"
          /\ todo' = todo /\ commands' = commands
  BY <1>1, SubFacts DEF Start, TypeOK
<1>5. c = Command =>
          /\ at' = [at EXCEPT ![m] = "next"] /\ js_type' = js_type
          /\ commands' = [commands EXCEPT ![m] = @ + 1]
          /\ \A k \in Makes \ {m} : todo'[k] = todo[k]
  BY DEF Start, TypeOK
<1>6. TypeOK'
  <2>1. CASE c = Command
    BY <1>1, <2>1 DEF Start, TypeOK, Places
  <2>2. CASE c # Command
    BY <1>1, <1>4, <2>2 DEF Start, TypeOK, Places
  <2> QED BY <2>1, <2>2
<1>7. MasterPlace'
  BY <1>2, <1>3, <1>4, <1>5, MakesAssumption, CommandAssumption DEF MasterPlace
<1>8. \A k \in Makes : k # c => (at'[k] \in Alive <=> at[k] \in Alive)
  BY <1>1, <1>2, <1>3 DEF Alive, Awake, Places
<1>9. c # Command => at[c] \notin Alive /\ at'[c] \in Alive
  BY <1>4 DEF Alive, Awake, Places
<1>10. ChildrenCounted' /\ SlotsKept'
  <2>1. SumOver(jobserver_tokens') = SumOver(jobserver_tokens) + 1
    BY <1>1, <1>6, SumOverIncr DEF TypeOK
  <2>2. CASE c = Command
    <3>1. LiveMakes' = LiveMakes /\ \A k \in Makes : LiveSubs(k)' = LiveSubs(k)
      BY <1>8, <2>2, CommandAssumption, SameLive
    <3>2. /\ commands'[m] = commands[m] + 1 /\ commands[m] \in Nat /\ zombies[m] \in Nat
          /\ \A k \in Makes \ {m} : commands'[k] = commands[k]
      BY <1>5, <2>2 DEF TypeOK
    <3>3. SumOver(commands') = SumOver(commands) + 1
      BY <1>6, <3>2, SumOverIncr DEF TypeOK
    <3>4. ASSUME NEW k \in Makes PROVE jobserver_tokens'[k] = Children(k)'
      <4>1. Cardinality(LiveSubs(k)) \in Nat
        BY LiveFinite
      <4>2. jobserver_tokens[k] = Children(k)
        BY DEF ChildrenCounted
      <4> QED BY <1>1, <3>1, <3>2, <4>1, <4>2, ChildrenAre, ChildrenArePrime
    <3>5. Cardinality(LiveMakes) \in Nat
      BY LiveFinite
    <3> QED BY <1>1, <2>1, <3>1, <3>3, <3>4, <3>5, SummedNat DEF ChildrenCounted, SlotsKept
  <2>3. CASE c # Command
    <3>1. /\ Cardinality(LiveMakes') = Cardinality(LiveMakes) + 1
          /\ Cardinality(LiveSubs(m)') = Cardinality(LiveSubs(m)) + 1
          /\ \A k \in Makes \ {m} : LiveSubs(k)' = LiveSubs(k)
      <4> HIDE DEF c
      <4> QED BY <1>1, <1>8, <1>9, <2>3, OneMoreLives
    <3>2. /\ commands' = commands
          /\ \A k \in Makes : commands[k] \in Nat /\ zombies[k] \in Nat
      BY <1>4, <2>3 DEF TypeOK
    <3>3. ASSUME NEW k \in Makes PROVE jobserver_tokens'[k] = Children(k)'
      <4>1. Cardinality(LiveSubs(k)) \in Nat
        BY LiveFinite
      <4>2. jobserver_tokens[k] = Children(k)
        BY DEF ChildrenCounted
      <4> QED BY <1>1, <3>1, <3>2, <4>1, <4>2, ChildrenAre, ChildrenArePrime
    <3>4. Cardinality(LiveMakes) \in Nat
      BY LiveFinite
    <3> QED BY <1>1, <2>1, <3>1, <3>2, <3>3, <3>4, SummedNat DEF ChildrenCounted, SlotsKept
  <2> QED BY <2>2, <2>3
<1>11. IdleOutside'
  <2> SUFFICES ASSUME NEW k \in Makes, at'[k] \notin Parenting
               PROVE  jobserver_tokens'[k] = 0
    BY DEF IdleOutside, Parenting, Awake, Places
  <2>1. k # m
    BY <1>2 DEF Parenting, Awake, Places
  <2>2. at[k] \notin Parenting
    BY <1>3, <1>4, <2>1, CommandAssumption DEF Parenting, Awake, Places
  <2> QED BY <1>1, <2>1, <2>2 DEF IdleOutside
<1>12. NoOrphans'
  <2>1. c # Command => Parent[c] = m /\ at[m] \in Alive
    BY <1>1, SubFacts DEF Alive, Awake, Places
  <2> QED BY <1>8, <2>1, CommandAssumption, OrphansFrame
<1>13. TokensKept' /\ ExcessCovered'
  BY <1>1, StartDraws DEF TokensKept, ExcessCovered
<1>14. PeacefulEnd'
  BY <1>1, <1>2, <1>3, <1>4, CommandAssumption, MakesAssumption DEF PeacefulEnd
<1>15. Steady'
  BY <1>7, <1>10, <1>11, <1>12, <1>13, <1>14 DEF Steady
<1>16. ChosenIsLeft'
  <2> SUFFICES ASSUME NEW k \in Makes, at'[k] \in Starting
               PROVE  /\ at[k] \in Starting /\ cur'[k] = cur[k] /\ todo'[k] = todo[k]
                      /\ \A s \in Subs(k) : at[s] = "unborn" => at'[s] = "unborn"
    BY ChosenFrame
  <2>1. k # m /\ k # c
    BY <1>2, <1>4, CommandAssumption DEF Starting
  <2>2. at'[k] = at[k] /\ cur'[k] = cur[k] /\ todo'[k] = todo[k]
    BY <1>1, <1>3, <1>4, <1>5, <2>1
  <2>3. ASSUME NEW s \in Subs(k), at[s] = "unborn" PROVE at'[s] = "unborn"
    <3>1. s \in Makes /\ Parent[s] = k
      BY SubFacts
    <3>2. s # m
      BY <1>1, <2>3
    <3>3. s # c
      BY <1>1, <2>1, <3>1, SubFacts, CommandAssumption
    <3> QED BY <1>3, <2>3, <3>1, <3>2, <3>3
  <2> QED BY <2>2, <2>3
<1>17. TokenInHand'
  <2> SUFFICES ASSUME NEW k \in Makes
               PROVE  (/\ at[k] \in {"pre", "reap", "check", "sleep", "read"} => js_type[k] # "none"
                       /\ at[k] \in {"sleep", "read"} => jobserver_tokens[k] > 0
                       /\ at[k] = "start" /\ js_type[k] = "none" => jobserver_tokens[k] = 0)'
    BY DEF TokenInHand
  <2>1. CASE k = m
    BY <1>2, <2>1
  <2>2. CASE k = c
    BY <1>4, <2>2, CommandAssumption
  <2>3. CASE k # m /\ k # c
    BY <1>1, <1>3, <2>3 DEF TokenInHand
  <2> QED BY <2>1, <2>2, <2>3
<1>18. DeathMarked'
  <2>1. \A k \in Makes : HasDead(k)' => HasDead(k)
    BY <1>1, <1>2, <1>3, <1>4, NoNewDead, CommandAssumption
  <2>2. \A k \in Makes : at'[k] \in {"check", "sleep", "read"} => k # m /\ k # c
    BY <1>2, <1>4, CommandAssumption
  <2> QED BY <1>1, <1>3, <2>1, <2>2, MarkFrame
<1> QED BY <1>6, <1>15, <1>16, <1>17, <1>18, Parts, StartDraws

\* What a step of reap_children does to the makes: one dead child less.
LEMMA ReapFacts ==
    ASSUME IInv, NEW m \in Makes, ReapOne(m)
    PROVE  /\ at[m] \in {"reap", "wait", "dying"}
           /\ at'[m] = IF at[m] = "wait" THEN "next" ELSE at[m]
           /\ \A k \in Makes \ {m} : at'[k] = at[k] \/ (at[k] = "zombie" /\ at'[k] = "gone")
           /\ jobserver_tokens[m] \in Nat /\ jobserver_tokens[m] > 0
           /\ jobserver_tokens' = [jobserver_tokens EXCEPT ![m] = @ - 1]
           /\ jobserver_tokens'[m] = jobserver_tokens[m] - 1
           /\ \A k \in Makes \ {m} : jobserver_tokens'[k] = jobserver_tokens[k]
           /\ UNCHANGED <<build, js_type, todo, commands, cur, sigchld, job_rfd, wfd,
                          collected, lost, fatals>>
<1> USE DEF IInv
<1>1. /\ at[m] \in {"reap", "wait", "dying"}
      /\ jobserver_tokens' = [jobserver_tokens EXCEPT ![m] = @ - 1]
      /\ UNCHANGED <<build, js_type, todo, commands, cur, sigchld, job_rfd, wfd,
                     collected, lost, fatals>>
  BY DEF ReapOne, FreeChild
<1>2. /\ at'[m] = IF at[m] = "wait" THEN "next" ELSE at[m]
      /\ \A k \in Makes \ {m} : at'[k] = at[k] \/ (at[k] = "zombie" /\ at'[k] = "gone")
  BY SubFacts DEF ReapOne, TypeOK, DeadSubs
<1>3. jobserver_tokens[m] = commands[m] + zombies[m] + Cardinality(LiveSubs(m))
  BY ChildrenAre DEF ChildrenCounted
<1>4. IsFiniteSet(LiveSubs(m)) /\ Cardinality(LiveSubs(m)) \in Nat
  BY LiveFinite
<1>5. zombies[m] > 0 \/ LiveSubs(m) # {}
  BY DEF ReapOne, LiveSubs, DeadSubs, Alive
<1>6. LiveSubs(m) # {} => Cardinality(LiveSubs(m)) # 0
  BY <1>4, FS_EmptySet
<1>7. commands[m] \in Nat /\ zombies[m] \in Nat
  BY DEF TypeOK
<1>8. jobserver_tokens[m] \in Nat /\ jobserver_tokens[m] > 0
  BY <1>3, <1>4, <1>5, <1>6, <1>7
<1> QED BY <1>1, <1>2, <1>8 DEF TypeOK

\* The token of a dead child goes back to the pipe unless it is the free one or the
\* pipe is closed (free_child).
LEMMA ReapDraws ==
    ASSUME IInv, NEW m \in Makes, ReapOne(m)
    PROVE  /\ \/ /\ pipe' = pipe + 1 /\ DrawnBy[m] > 0
                 /\ DrawnBy' = [DrawnBy EXCEPT ![m] = @ - 1]
              \/ pipe' = pipe /\ DrawnBy' = DrawnBy
           /\ \A k \in Makes : ExcessBy'[k] <= ExcessBy[k]
<1> USE DEF IInv
<1>1. ASSUME NEW k \in Makes \ {m} PROVE Drawn(k)' = Drawn(k) /\ Excess(k)' = Excess(k)
  <2>1. jobserver_tokens'[k] = jobserver_tokens[k] /\ js_type'[k] = js_type[k]
    BY <1>1, ReapFacts
  <2>2. CASE at'[k] = at[k]
    BY <2>1, <2>2 DEF Drawn, Excess
  <2>3. CASE at[k] = "zombie"
    <3>1. jobserver_tokens[k] = 0
      BY <1>1, <2>3 DEF IdleOutside, Parenting, Awake
    <3> QED BY <2>1, <3>1 DEF Drawn, Excess
  <2> QED BY <1>1, <2>2, <2>3, ReapFacts
<1>2. /\ at[m] # "start" /\ at'[m] # "start" /\ js_type'[m] = js_type[m]
      /\ jobserver_tokens'[m] = jobserver_tokens[m] - 1
      /\ jobserver_tokens[m] \in Nat /\ jobserver_tokens[m] > 0
  BY ReapFacts
<1>3. pipe' = IF js_type[m] # "none" /\ jobserver_tokens[m] > 1 THEN pipe + 1 ELSE pipe
  BY DEF ReapOne, FreeChild
<1>4. Excess(m)' <= Excess(m)
  BY <1>2 DEF Excess
<1>5. \A k \in Makes : ExcessBy'[k] <= ExcessBy[k]
  <2>1. \A k \in Makes : Excess(k)' <= Excess(k)
    BY <1>1, <1>4 DEF Excess, TypeOK
  <2> QED BY <2>1 DEF ExcessBy
<1>6. CASE js_type[m] # "none" /\ jobserver_tokens[m] > 1
  <2>1. Drawn(m)' = Drawn(m) - 1 /\ Drawn(m) > 0
    BY <1>2, <1>6 DEF Drawn
  <2>2. DrawnBy' = [DrawnBy EXCEPT ![m] = @ - 1] /\ DrawnBy[m] > 0
    BY <1>1, <2>1 DEF DrawnBy
  <2> QED BY <1>3, <1>5, <1>6, <2>2
<1>7. CASE ~(js_type[m] # "none" /\ jobserver_tokens[m] > 1)
  <2>1. Drawn(m)' = Drawn(m)
    BY <1>2, <1>7 DEF Drawn
  <2>2. DrawnBy' = DrawnBy
    BY <1>1, <2>1 DEF DrawnBy
  <2> QED BY <1>3, <1>5, <1>7, <2>2
<1> QED BY <1>6, <1>7

LEMMA ReapOneInv ==
    ASSUME IInv, NEW m \in Makes, ReapOne(m)
    PROVE  IInv'
<1> USE DEF IInv
<1>1. TypeOK'
  <2>1. zombies' \in [Makes -> Nat] /\ pipe' \in Nat
    BY DEF ReapOne, FreeChild, TypeOK
  <2>2. at' \in [Makes -> Places]
    BY DEF ReapOne, TypeOK, Places
  <2>3. jobserver_tokens' \in [Makes -> Nat]
    BY ReapFacts DEF TypeOK
  <2> QED BY <2>1, <2>2, <2>3, ReapFacts DEF TypeOK
<1>2. MasterPlace'
  BY ReapFacts, MakesAssumption DEF MasterPlace
<1>3. \A k \in Makes : at'[k] \in Alive => at[k] \in Alive
  BY ReapFacts DEF Alive, Awake, Places
<1>4. ChildrenCounted' /\ SlotsKept'
  <2>1. SumOver(jobserver_tokens') + 1 = SumOver(jobserver_tokens)
    <3>1. \A x \in Makes \ {m} : jobserver_tokens[x] = jobserver_tokens'[x]
      BY ReapFacts
    <3>2. jobserver_tokens[m] = jobserver_tokens'[m] + 1
      BY ReapFacts
    <3> QED BY <1>1, <3>1, <3>2, SumOverIncr DEF TypeOK
  <2>2. CASE /\ zombies[m] > 0 /\ zombies' = [zombies EXCEPT ![m] = @ - 1]
             /\ at' = [at EXCEPT ![m] = IF @ = "wait" THEN "next" ELSE @]
    <3>1. \A k \in Makes : at'[k] \in Alive <=> at[k] \in Alive
      BY <2>2, ReapFacts DEF Alive, Awake, Places, TypeOK
    <3>2. LiveMakes' = LiveMakes /\ \A k \in Makes : LiveSubs(k)' = LiveSubs(k)
      BY <3>1, SameLive
    <3>3. /\ zombies'[m] = zombies[m] - 1 /\ commands[m] \in Nat /\ zombies[m] \in Nat
          /\ zombies[m] = zombies'[m] + 1
          /\ \A k \in Makes \ {m} : zombies'[k] = zombies[k]
      BY <2>2 DEF TypeOK
    <3>4. SumOver(zombies) = SumOver(zombies') + 1
      BY <1>1, <3>3, SumOverIncr DEF TypeOK
    <3>5. ASSUME NEW k \in Makes PROVE jobserver_tokens'[k] = Children(k)'
      <4>1. Cardinality(LiveSubs(k)) \in Nat
        BY LiveFinite
      <4>2. jobserver_tokens[k] = Children(k)
        BY DEF ChildrenCounted
      <4>3. commands'[k] = commands[k] /\ commands[k] \in Nat /\ zombies[k] \in Nat
        BY ReapFacts DEF TypeOK
      <4>4. Children(k) = commands[k] + zombies[k] + Cardinality(LiveSubs(k))
        BY ChildrenAre
      <4>5. Children(k)' = commands[k] + zombies'[k] + Cardinality(LiveSubs(k))
        BY <3>2, <4>3, ChildrenArePrime
      <4>6. CASE k = m
        BY <3>3, <4>1, <4>2, <4>3, <4>4, <4>5, <4>6, ReapFacts
      <4>7. CASE k # m
        BY <3>3, <4>2, <4>4, <4>5, <4>7, ReapFacts
      <4> QED BY <4>6, <4>7
    <3>6. Cardinality(LiveMakes) \in Nat
      BY LiveFinite
    <3>7. SlotsKept'
      <4>1. commands' = commands
        BY ReapFacts
      <4>2. /\ SumOver(jobserver_tokens) \in Nat /\ SumOver(jobserver_tokens') \in Nat
            /\ SumOver(zombies) \in Nat /\ SumOver(zombies') \in Nat
            /\ SumOver(commands) \in Nat
        BY <1>1, SumOverNat DEF TypeOK
      <4> QED BY <2>1, <3>2, <3>4, <3>6, <4>1, <4>2 DEF SlotsKept
    <3> QED BY <3>5, <3>7 DEF ChildrenCounted
  <2>3. ASSUME NEW s \in DeadSubs(m), zombies' = zombies,
               at' = [at EXCEPT ![m] = IF @ = "wait" THEN "next" ELSE @, ![s] = "gone"]
        PROVE  ChildrenCounted' /\ SlotsKept'
    <3>1. s \in Subs(m) /\ at[s] = "zombie" /\ s \in Makes /\ s # m
      BY SubFacts DEF DeadSubs
    <3>2. at[s] \in Alive /\ at'[s] \notin Alive
      BY <2>3, <3>1 DEF Alive, Awake, TypeOK
    <3>3. \A k \in Makes \ {s} : at'[k] \in Alive <=> at[k] \in Alive
      BY <2>3, <3>1, ReapFacts DEF Alive, Awake, Places, TypeOK
    <3>4. /\ Cardinality(LiveMakes') = Cardinality(LiveMakes) - 1
          /\ Cardinality(LiveSubs(m)') = Cardinality(LiveSubs(m)) - 1
          /\ \A k \in Makes \ {m} : LiveSubs(k)' = LiveSubs(k)
      BY <3>1, <3>2, <3>3, OneLessLives
    <3>5. ASSUME NEW k \in Makes PROVE jobserver_tokens'[k] = Children(k)'
      <4>1. /\ Cardinality(LiveSubs(k)) \in Nat /\ commands[k] \in Nat /\ zombies[k] \in Nat
        BY LiveFinite DEF TypeOK
      <4>2. jobserver_tokens[k] = Children(k)
        BY DEF ChildrenCounted
      <4>3. commands'[k] = commands[k]
        BY ReapFacts
      <4> QED BY <2>3, <3>4, <4>1, <4>2, <4>3, ReapFacts, ChildrenAre, ChildrenArePrime
    <3>6. Cardinality(LiveMakes) \in Nat
      BY LiveFinite
    <3>7. SlotsKept'
      <4>1. commands' = commands
        BY ReapFacts
      <4>2. /\ SumOver(jobserver_tokens) \in Nat /\ SumOver(jobserver_tokens') \in Nat
            /\ SumOver(zombies) \in Nat /\ SumOver(commands) \in Nat
        BY <1>1, SumOverNat DEF TypeOK
      <4> QED BY <2>1, <2>3, <3>4, <3>6, <4>1, <4>2 DEF SlotsKept
    <3> QED BY <3>5, <3>7 DEF ChildrenCounted
  <2> QED BY <2>2, <2>3 DEF ReapOne
<1>5. IdleOutside'
  <2> SUFFICES ASSUME NEW k \in Makes, at'[k] \notin Parenting
               PROVE  jobserver_tokens'[k] = 0
    BY DEF IdleOutside, Parenting, Awake, Places
  <2>1. k # m
    BY ReapFacts DEF Parenting, Awake, Places
  <2>2. at[k] \notin Parenting
    BY <2>1, ReapFacts DEF Parenting, Awake, Places
  <2> QED BY <2>1, <2>2, ReapFacts DEF IdleOutside
<1>6. NoOrphans'
  BY <1>3, OrphansFrame
<1>7. TokensKept'
  <2>1. DrawnBy \in [Makes -> Nat] /\ DrawnBy' \in [Makes -> Nat]
    BY <1>1, SummedNat DEF DrawnBy, Drawn, TypeOK
  <2>2. UNCHANGED <<collected, lost>>
    BY ReapFacts
  <2>3. CASE pipe' = pipe + 1 /\ DrawnBy[m] > 0 /\ DrawnBy' = [DrawnBy EXCEPT ![m] = @ - 1]
    <3>1. DrawnBy[m] = DrawnBy'[m] + 1 /\ \A x \in Makes \ {m} : DrawnBy[x] = DrawnBy'[x]
      BY <2>1, <2>3
    <3>2. SumOver(DrawnBy) = SumOver(DrawnBy') + 1
      BY <2>1, <3>1, SumOverIncr
    <3>3. SumOver(DrawnBy) \in Nat /\ SumOver(DrawnBy') \in Nat
      BY <2>1, SumOverNat
    <3> QED BY <2>2, <2>3, <3>2, <3>3 DEF TokensKept, TypeOK
  <2>4. CASE pipe' = pipe /\ DrawnBy' = DrawnBy
    BY <2>2, <2>4 DEF TokensKept
  <2> QED BY <2>3, <2>4, ReapDraws
<1>8. ExcessCovered'
  <2>1. ExcessBy \in [Makes -> Nat] /\ ExcessBy' \in [Makes -> Nat]
    BY <1>1, SummedNat DEF ExcessBy, Excess, TypeOK
  <2>2. Sum(ExcessBy', Makes) <= Sum(ExcessBy, Makes)
    BY <2>1, ReapDraws, SumLeq, MakesAssumption
  <2>3. SumOver(ExcessBy') <= SumOver(ExcessBy)
    BY <2>2, SumIs
  <2> QED BY <2>1, <2>3, ReapFacts, SumOverNat DEF ExcessCovered, TypeOK
<1>9. PeacefulEnd'
  <2>1. at[Master] # "gone"
    <3>1. CASE m = Master
      BY <3>1, ReapFacts
    <3>2. CASE m # Master
      BY <3>2, ReapFacts, NoneWithoutMaster DEF Parenting, Awake
    <3> QED BY <3>1, <3>2
  <2>2. at'[Master] # "gone"
    BY <2>1, ReapFacts, MakesAssumption DEF MasterPlace
  <2> QED BY <2>2, ReapFacts DEF PeacefulEnd
<1>10. Steady'
  BY <1>2, <1>4, <1>5, <1>6, <1>7, <1>8, <1>9 DEF Steady
<1>11. ChosenIsLeft'
  BY ReapFacts, ChosenFrame, SubFacts DEF Starting
<1>12. TokenInHand'
  BY ReapFacts DEF TokenInHand
<1>13. DeathMarked'
  <2> SUFFICES ASSUME NEW k \in Makes, at'[k] \in {"check", "sleep", "read"}, HasDead(k)'
               PROVE  at[k] \in {"check", "sleep", "read"} /\ HasDead(k)
    BY MarkFrame, ReapFacts
  <2>1. k # m /\ at'[k] = at[k]
    BY ReapFacts
  <2>2. zombies'[k] = zombies[k]
    BY <2>1 DEF ReapOne, TypeOK
  <2>3. DeadSubs(k)' \subseteq DeadSubs(k)
    BY ReapFacts DEF DeadSubs, Subs
  <2> QED BY <2>1, <2>2, <2>3 DEF HasDead
<1> QED BY <1>1, <1>10, <1>11, <1>12, <1>13, Parts

--------------------------------------------------------------------------------
(* Makes that begin and end *)

\* A make without children moves: nothing of what it holds or counts changes.
LEMMA IdleMove ==
    ASSUME IInv, NEW m \in Makes, jobserver_tokens[m] = 0, at' \in [Makes -> Places],
           \A s \in Makes \ {m} : at'[s] = at[s] /\ js_type'[s] = js_type[s],
           m # Master => (at'[m] \in Alive <=> at[m] \in Alive),
           UNCHANGED <<jobserver_tokens, commands, zombies, pipe, collected, lost>>
    PROVE  /\ ChildrenCounted' /\ IdleOutside' /\ NoOrphans'
           /\ TokensKept' /\ ExcessCovered' /\ SlotsKept'
           /\ DrawnBy' = DrawnBy
<1> USE DEF IInv
<1>1. \A s \in Makes \ {Master} : at'[s] \in Alive <=> at[s] \in Alive
  OBVIOUS
<1>2. ChildrenCounted'
  <2>1. \A s \in Makes : Children(s)' = Children(s)
    BY <1>1, SameLive, ChildrenAre, ChildrenArePrime
  <2> QED BY <2>1 DEF ChildrenCounted
<1>3. IdleOutside'
  BY DEF IdleOutside
<1>4. NoOrphans'
  BY <1>1, OrphansFrame
<1>5. \A k \in Makes : Drawn(k)' = Drawn(k) /\ Excess(k)' = Excess(k)
  BY DEF Drawn, Excess
<1>6. DrawnBy' = DrawnBy /\ ExcessBy' = ExcessBy
  BY <1>5 DEF DrawnBy, ExcessBy
<1>7. TokensKept' /\ ExcessCovered'
  BY <1>6 DEF TokensKept, ExcessCovered
<1>8. SlotsKept'
  BY <1>1, SameLive DEF SlotsKept
<1> QED BY <1>2, <1>3, <1>4, <1>6, <1>7, <1>8

\* The handler of SIGCHLD leaves its mark with one make and clears none.
LEMMA SigChldMarks ==
    ASSUME TypeOK, build' = build, NEW p \in Makes, SigChld(p)
    PROVE  /\ sigchld' \in [Makes -> BOOLEAN] /\ job_rfd' \in [Makes -> BOOLEAN]
           /\ IF build.pselect THEN sigchld'[p] ELSE ~job_rfd'[p]
           /\ \A k \in Makes : sigchld[k] => sigchld'[k]
           /\ \A k \in Makes : ~job_rfd[k] => ~job_rfd'[k]
BY DEF SigChld, TypeOK

\* A make dies while its parent is told.
LEMMA DeathOfOne ==
    ASSUME IInv, build' = build, zombies' = zombies, NEW m \in Makes \ {Master},
           \A s \in Makes \ {m} : at'[s] = at[s], at'[m] = "zombie", SigChld(Parent[m])
    PROVE  DeathMarked'
<1> SUFFICES ASSUME NEW k \in Makes, at'[k] \in {"check", "sleep", "read"}, HasDead(k)'
             PROVE  IF build.pselect THEN sigchld'[k] ELSE ~job_rfd'[k]
  BY DEF DeathMarked
<1>1. Parent[m] \in Makes
  BY ParentAssumption
<1>2. CASE k = Parent[m]
  BY <1>1, <1>2, SigChldMarks DEF IInv
<1>3. CASE k # Parent[m]
  <2>1. k # m /\ at'[k] = at[k]
    OBVIOUS
  <2>2. DeadSubs(k)' = DeadSubs(k)
    BY <1>3 DEF DeadSubs, Subs
  <2>3. HasDead(k)
    BY <2>2 DEF HasDead
  <2> QED BY <1>1, <2>1, <2>3, SigChldMarks DEF IInv, DeathMarked
<1> QED BY <1>2, <1>3

LEMMA BootInv ==
    ASSUME IInv, NEW m \in Makes, Boot(m)
    PROVE  IInv' /\ DrawnBy' = DrawnBy
<1> USE DEF IInv
<1>1. /\ at[m] = "boot" /\ at'[m] = "next"
      /\ \A s \in Makes \ {m} : at'[s] = at[s] /\ js_type'[s] = js_type[s]
      /\ \A s \in Makes \ {m} : job_rfd'[s] = job_rfd[s]
      /\ UNCHANGED <<build, jobserver_tokens, todo, commands, zombies, cur, sigchld, pipe,
                     collected, lost, fatals>>
  BY DEF Boot, TypeOK, procVars
<1>2. jobserver_tokens[m] = 0
  BY <1>1 DEF IdleOutside, Parenting, Awake
<1>3. TypeOK'
  <2>1. js_type' \in [Makes -> {"none", "pipe", "fifo"}] /\ at' \in [Makes -> Places]
    BY DEF Boot, TypeOK, Places
  <2>2. job_rfd' \in [Makes -> BOOLEAN] /\ wfd' \subseteq Makes
    BY DEF Boot, TypeOK
  <2> QED BY <1>1, <2>1, <2>2 DEF TypeOK
<1>4. m # Master
  BY <1>1 DEF MasterPlace
<1>5. at'[m] \in Alive /\ at[m] \in Alive
  BY <1>1 DEF Alive, Awake, Places
<1>6. at' \in [Makes -> Places]
  BY <1>3 DEF TypeOK
<1>7. /\ ChildrenCounted' /\ IdleOutside' /\ NoOrphans' /\ TokensKept' /\ ExcessCovered'
      /\ SlotsKept' /\ DrawnBy' = DrawnBy
  BY <1>1, <1>2, <1>5, <1>6, IdleMove
<1>8. MasterPlace' /\ PeacefulEnd'
  BY <1>1, <1>4, MakesAssumption DEF MasterPlace, PeacefulEnd
<1>9. Steady'
  BY <1>7, <1>8 DEF Steady
<1>10. ChosenIsLeft'
  BY <1>1, ChosenFrame, SubFacts DEF Starting
<1>11. TokenInHand'
  BY <1>1 DEF TokenInHand
<1>12. DeathMarked'
  <2>1. \A k \in Makes : HasDead(k)' => HasDead(k)
    BY <1>1, NoNewDead
  <2> QED BY <1>1, <2>1, MarkFrame
<1> QED BY <1>3, <1>7, <1>9, <1>10, <1>11, <1>12, Parts

LEMMA NoFifoInv ==
    ASSUME IInv, NEW m \in Makes, NoFifo(m)
    PROVE  IInv' /\ DrawnBy' = DrawnBy
<1> USE DEF IInv
<1>1. /\ at[m] = "boot" /\ at'[m] = "zombie"
      /\ \A s \in Makes \ {m} : at'[s] = at[s]
      /\ UNCHANGED <<build, js_type, jobserver_tokens, todo, commands, zombies, cur, wfd, pipe,
                     collected, lost, fatals>>
  BY DEF NoFifo, TypeOK, procVars
<1>2. jobserver_tokens[m] = 0 /\ m # Master /\ Parent[m] \in Makes
  BY <1>1, ParentAssumption DEF IdleOutside, Parenting, Awake, MasterPlace
<1>3. TypeOK'
  <2>1. at' \in [Makes -> Places]
    BY DEF NoFifo, TypeOK, Places
  <2>2. sigchld' \in [Makes -> BOOLEAN] /\ job_rfd' \in [Makes -> BOOLEAN]
    BY <1>1, <1>2, SigChldMarks DEF NoFifo
  <2> QED BY <1>1, <2>1, <2>2 DEF TypeOK
<1>4. at'[m] \in Alive /\ at[m] \in Alive /\ at' \in [Makes -> Places]
  BY <1>1, <1>3 DEF Alive, Awake, Places, TypeOK
<1>5. /\ ChildrenCounted' /\ IdleOutside' /\ NoOrphans' /\ TokensKept' /\ ExcessCovered'
      /\ SlotsKept' /\ DrawnBy' = DrawnBy
  BY <1>1, <1>2, <1>4, IdleMove
<1>6. MasterPlace' /\ PeacefulEnd'
  BY <1>1, <1>2, MakesAssumption DEF MasterPlace, PeacefulEnd
<1>7. Steady'
  BY <1>5, <1>6 DEF Steady
<1>8. ChosenIsLeft'
  BY <1>1, ChosenFrame, SubFacts DEF Starting
<1>9. TokenInHand'
  BY <1>1 DEF TokenInHand
<1>10. DeathMarked'
  BY <1>1, <1>2, DeathOfOne DEF NoFifo
<1> QED BY <1>3, <1>5, <1>7, <1>8, <1>9, <1>10, Parts

LEMMA ExitsInv ==
    ASSUME IInv, NEW m \in Makes, Exits(m)
    PROVE  IInv' /\ DrawnBy' = DrawnBy
<1> USE DEF IInv
<1>1. /\ m # Master /\ at[m] \in {"next", "dying"} /\ Children(m) = 0 /\ at'[m] = "zombie"
      /\ \A s \in Makes \ {m} : at'[s] = at[s]
      /\ UNCHANGED <<build, js_type, jobserver_tokens, todo, commands, zombies, cur, pipe,
                     collected, lost, fatals>>
  BY DEF Exits, TypeOK, procVars
<1>2. jobserver_tokens[m] = 0 /\ Parent[m] \in Makes
  BY <1>1, ParentAssumption DEF ChildrenCounted
<1>3. TypeOK'
  <2>1. at' \in [Makes -> Places] /\ wfd' \subseteq Makes
    BY DEF Exits, TypeOK, Places
  <2>2. sigchld' \in [Makes -> BOOLEAN] /\ job_rfd' \in [Makes -> BOOLEAN]
    BY <1>1, <1>2, SigChldMarks DEF Exits
  <2> QED BY <1>1, <2>1, <2>2 DEF TypeOK
<1>4. at'[m] \in Alive /\ at[m] \in Alive /\ at' \in [Makes -> Places]
  BY <1>1, <1>3 DEF Alive, Awake, Places, TypeOK
<1>5. /\ ChildrenCounted' /\ IdleOutside' /\ NoOrphans' /\ TokensKept' /\ ExcessCovered'
      /\ SlotsKept' /\ DrawnBy' = DrawnBy
  BY <1>1, <1>2, <1>4, IdleMove
<1>6. MasterPlace' /\ PeacefulEnd'
  BY <1>1, MakesAssumption DEF MasterPlace, PeacefulEnd
<1>7. Steady'
  BY <1>5, <1>6 DEF Steady
<1>8. ChosenIsLeft'
  BY <1>1, ChosenFrame, SubFacts DEF Starting
<1>9. TokenInHand'
  BY <1>1 DEF TokenInHand
<1>10. DeathMarked'
  BY <1>1, DeathOfOne DEF Exits
<1> QED BY <1>3, <1>5, <1>7, <1>8, <1>9, <1>10, Parts

LEMMA CollectBeginsInv ==
    ASSUME IInv, CollectBegins
    PROVE  IInv' /\ DrawnBy' = DrawnBy
<1> USE DEF IInv
<1>1. /\ at[Master] = "next" /\ at'[Master] = "collect" /\ Children(Master) = 0
      /\ \A s \in Makes \ {Master} : at'[s] = at[s]
      /\ UNCHANGED <<build, js_type, jobserver_tokens, todo, commands, zombies, cur, sigchld,
                     job_rfd, pipe, collected, lost, fatals>>
  BY MakesAssumption DEF CollectBegins, TypeOK, procVars
<1>2. jobserver_tokens[Master] = 0 /\ Master \in Makes
  BY <1>1, MakesAssumption DEF ChildrenCounted
<1>3. TypeOK'
  BY DEF CollectBegins, TypeOK, procVars, Places
<1>4. at' \in [Makes -> Places]
  BY <1>3 DEF TypeOK
<1>5. /\ ChildrenCounted' /\ IdleOutside' /\ NoOrphans' /\ TokensKept' /\ ExcessCovered'
      /\ SlotsKept' /\ DrawnBy' = DrawnBy
  BY <1>1, <1>2, <1>4, IdleMove
<1>6. MasterPlace' /\ PeacefulEnd'
  BY <1>1, <1>2 DEF MasterPlace, PeacefulEnd
<1>7. Steady'
  BY <1>5, <1>6 DEF Steady
<1>8. ChosenIsLeft'
  BY <1>1, ChosenFrame, SubFacts DEF Starting
<1>9. TokenInHand'
  BY <1>1 DEF TokenInHand
<1>10. DeathMarked'
  <2>1. \A k \in Makes : HasDead(k)' => HasDead(k)
    BY <1>1, NoNewDead
  <2> QED BY <1>1, <2>1, MarkFrame
<1> QED BY <1>3, <1>5, <1>7, <1>8, <1>9, <1>10, Parts

\* While the master collects nobody holds a token (main.c).
LEMMA CollectingAlone ==
    ASSUME IInv, at[Master] = "collect"
    PROVE  \A m \in Makes : jobserver_tokens[m] = 0 /\ DrawnBy[m] = 0
<1>1. \A m \in Makes : jobserver_tokens[m] = 0
  BY NoneWithoutMaster DEF IInv, Parenting
<1> QED BY <1>1 DEF DrawnBy, Drawn

LEMMA CollectInv ==
    ASSUME IInv, Collect
    PROVE  IInv' /\ DrawnBy' = DrawnBy
<1> USE DEF IInv
<1>1. /\ at[Master] = "collect" /\ at'[Master] \in {"collect", "gone"} /\ Master \in Makes
      /\ at' = [at EXCEPT ![Master] = at'[Master]]
      /\ \A s \in Makes \ {Master} : at'[s] = at[s]
      /\ UNCHANGED <<build, js_type, jobserver_tokens, todo, commands, zombies, cur, sigchld,
                     job_rfd, wfd, lost, fatals>>
      /\ \/ pipe > 0 /\ pipe' = pipe - 1 /\ collected' = collected + 1 /\ at' = at
         \/ pipe = 0 /\ UNCHANGED <<pipe, collected>>
  BY MakesAssumption DEF Collect, TypeOK, procVars
<1>2. jobserver_tokens[Master] = 0
  BY <1>1, CollectingAlone
<1>3. TypeOK'
  <2>1. at' \in [Makes -> Places]
    BY <1>1 DEF TypeOK, Places
  <2>2. pipe' \in Nat /\ collected' \in Nat
    BY <1>1 DEF TypeOK
  <2> QED BY <1>1, <2>1, <2>2 DEF TypeOK
<1>4. MasterPlace'
  BY <1>1 DEF MasterPlace
<1>5. ChildrenCounted' /\ IdleOutside' /\ NoOrphans' /\ SlotsKept'
  <2>1. \A s \in Makes \ {Master} : at'[s] \in Alive <=> at[s] \in Alive
    BY <1>1
  <2>2. \A s \in Makes : Children(s)' = Children(s)
    BY <1>1, <2>1, SameLive, ChildrenAre, ChildrenArePrime
  <2>3. ChildrenCounted' /\ SlotsKept'
    BY <1>1, <2>1, <2>2, SameLive DEF ChildrenCounted, SlotsKept
  <2>4. NoOrphans'
    BY <2>1, OrphansFrame
  <2> QED BY <1>1, <1>2, <2>3, <2>4 DEF IdleOutside
<1>6. DrawnBy' = DrawnBy /\ ExcessBy' = ExcessBy
  <2>1. \A k \in Makes : Drawn(k)' = Drawn(k) /\ Excess(k)' = Excess(k)
    BY <1>1 DEF Drawn, Excess
  <2> QED BY <2>1 DEF DrawnBy, ExcessBy
<1>7. TokensKept' /\ ExcessCovered'
  BY <1>1, <1>6, SummedNat DEF TokensKept, ExcessCovered, TypeOK
<1>8. PeacefulEnd'
  BY <1>1 DEF PeacefulEnd
<1>9. Steady'
  BY <1>4, <1>5, <1>7, <1>8 DEF Steady
<1>10. ChosenIsLeft'
  BY <1>1, ChosenFrame, SubFacts DEF Starting
<1>11. TokenInHand'
  BY <1>1 DEF TokenInHand
<1>12. DeathMarked'
  <2>1. \A k \in Makes : HasDead(k)' => HasDead(k)
    BY <1>1, NoNewDead
  <2> QED BY <1>1, <2>1, MarkFrame
<1> QED BY <1>3, <1>6, <1>9, <1>10, <1>11, <1>12, Parts

LEMMA MasterDiesInv ==
    ASSUME IInv, MasterDies
    PROVE  IInv' /\ DrawnBy' = DrawnBy
<1> USE DEF IInv
<1>1. /\ at[Master] = "dying" /\ at'[Master] = "gone" /\ Children(Master) = 0
      /\ \A s \in Makes \ {Master} : at'[s] = at[s]
      /\ UNCHANGED <<build, js_type, jobserver_tokens, todo, commands, zombies, cur, sigchld,
                     job_rfd, wfd, pipe, collected, lost, fatals>>
  BY MakesAssumption DEF MasterDies, TypeOK, procVars
<1>2. jobserver_tokens[Master] = 0 /\ Master \in Makes
  BY <1>1, MakesAssumption DEF ChildrenCounted
<1>3. TypeOK'
  BY DEF MasterDies, TypeOK, procVars, Places
<1>4. at' \in [Makes -> Places]
  BY <1>3 DEF TypeOK
<1>5. /\ ChildrenCounted' /\ IdleOutside' /\ NoOrphans' /\ TokensKept' /\ ExcessCovered'
      /\ SlotsKept' /\ DrawnBy' = DrawnBy
  BY <1>1, <1>2, <1>4, IdleMove
<1>6. MasterPlace' /\ PeacefulEnd'
  BY <1>1, <1>2 DEF MasterPlace, PeacefulEnd
<1>7. Steady'
  BY <1>5, <1>6 DEF Steady
<1>8. ChosenIsLeft'
  BY <1>1, ChosenFrame, SubFacts DEF Starting
<1>9. TokenInHand'
  BY <1>1 DEF TokenInHand
<1>10. DeathMarked'
  <2>1. \A k \in Makes : HasDead(k)' => HasDead(k)
    BY <1>1, NoNewDead
  <2> QED BY <1>1, <2>1, MarkFrame
<1> QED BY <1>3, <1>5, <1>7, <1>8, <1>9, <1>10, Parts

\* The makes a make has not started yet are given up with it.
LEMMA GivesUpInv ==
    ASSUME IInv, NEW m \in Makes, GivesUp(m)
    PROVE  IInv' /\ DrawnBy' = DrawnBy
<1> USE DEF IInv
<1>1. /\ at[m] = "next" /\ at'[m] = "next"
      /\ \A k \in Makes : at'[k] = at[k]
                          \/ (k \in Subs(m) /\ at[k] = "unborn" /\ at'[k] = "gone")
      /\ \A k \in Makes \ {m} : todo'[k] = todo[k]
      /\ UNCHANGED <<build, js_type, jobserver_tokens, commands, zombies, cur, sigchld,
                     job_rfd, wfd, pipe, collected, lost, fatals>>
  BY SubFacts DEF GivesUp, TypeOK
<1>2. TypeOK'
  <2>1. at' \in [Makes -> Places] /\ todo' \in [Makes -> Nat]
    BY DEF GivesUp, TypeOK, Places
  <2> QED BY <1>1, <2>1 DEF TypeOK
<1>3. \A k \in Makes : at'[k] \in Alive <=> at[k] \in Alive
  BY <1>1 DEF Alive, Awake, Places
<1>4. MasterPlace'
  BY <1>1, SubFacts, MakesAssumption DEF MasterPlace
<1>5. ChildrenCounted' /\ IdleOutside' /\ NoOrphans' /\ SlotsKept'
  <2>1. \A s \in Makes : Children(s)' = Children(s)
    BY <1>1, <1>3, SameLive, ChildrenAre, ChildrenArePrime
  <2>2. ChildrenCounted' /\ SlotsKept'
    BY <1>1, <1>3, <2>1, SameLive DEF ChildrenCounted, SlotsKept
  <2>3. NoOrphans'
    BY <1>3, OrphansFrame
  <2>4. IdleOutside'
    BY <1>1 DEF IdleOutside, Parenting, Awake, Places
  <2> QED BY <2>2, <2>3, <2>4
<1>6. DrawnBy' = DrawnBy /\ ExcessBy' = ExcessBy
  <2>1. ASSUME NEW k \in Makes PROVE Drawn(k)' = Drawn(k) /\ Excess(k)' = Excess(k)
    BY <1>1 DEF Drawn, Excess
  <2> QED BY <2>1 DEF DrawnBy, ExcessBy
<1>7. TokensKept' /\ ExcessCovered'
  BY <1>1, <1>6 DEF TokensKept, ExcessCovered
<1>8. PeacefulEnd'
  BY <1>1, SubFacts, MakesAssumption DEF PeacefulEnd
<1>9. Steady'
  BY <1>4, <1>5, <1>7, <1>8 DEF Steady
<1>10. ChosenIsLeft'
  <2> SUFFICES ASSUME NEW k \in Makes, at'[k] \in Starting
               PROVE  /\ at[k] \in Starting /\ cur'[k] = cur[k] /\ todo'[k] = todo[k]
                      /\ \A s \in Subs(k) : at[s] = "unborn" => at'[s] = "unborn"
    BY ChosenFrame
  <2>1. k # m /\ at[k] = at'[k]
    BY <1>1 DEF Starting
  <2>2. \A s \in Subs(k) : s \in Makes /\ s \notin Subs(m)
    BY <2>1, SubFacts
  <2> QED BY <1>1, <2>1, <2>2
<1>11. TokenInHand'
  BY <1>1 DEF TokenInHand
<1>12. DeathMarked'
  <2>1. \A k \in Makes : HasDead(k)' => HasDead(k)
    BY <1>1, NoNewDead
  <2> QED BY <1>1, <2>1, MarkFrame
<1> QED BY <1>2, <1>6, <1>9, <1>10, <1>11, <1>12, Parts

--------------------------------------------------------------------------------
(* Signals, and the end of a command *)

\* A fatal signal loses what the make held, and no more.
LEMMA FatalDraws ==
    ASSUME IInv, NEW m \in Makes, Fatal(m)
    PROVE  /\ DrawnBy' = [DrawnBy EXCEPT ![m] = 0] /\ lost' = lost + DrawnBy[m]
           /\ ExcessBy'[m] <= ExcessBy[m] + DrawnBy[m]
           /\ \A k \in Makes \ {m} : ExcessBy'[k] = ExcessBy[k]
<1> USE DEF IInv
<1>1. /\ js_type' = [js_type EXCEPT ![m] = "none"] /\ js_type'[m] = "none"
      /\ jobserver_tokens' = jobserver_tokens
      /\ \A k \in Makes \ {m} : /\ js_type'[k] = js_type[k]
                                /\ at'[k] = at[k] \/ (at[k] = "unborn" /\ at'[k] = "gone")
      /\ lost' = lost + Drawn(m)
  BY DEF Fatal, TypeOK
<1>2. ASSUME NEW k \in Makes \ {m} PROVE Drawn(k)' = Drawn(k) /\ Excess(k)' = Excess(k)
  BY <1>1 DEF Drawn, Excess
<1>3. Drawn(m)' = 0 /\ Excess(m)' <= Excess(m) + Drawn(m)
  BY <1>1 DEF Drawn, Excess, TypeOK
<1> QED BY <1>1, <1>2, <1>3 DEF DrawnBy, ExcessBy

LEMMA FatalInv ==
    ASSUME IInv, NEW m \in Makes, Fatal(m)
    PROVE  IInv'
<1> USE DEF IInv
<1>1. /\ at[m] \in Awake \ {"dying", "collect"} /\ at'[m] = "dying"
      /\ \A k \in Makes \ {m} :
            /\ at'[k] = at[k] \/ (k \in Subs(m) /\ at[k] = "unborn" /\ at'[k] = "gone")
            /\ js_type'[k] = js_type[k] /\ todo'[k] = todo[k] /\ job_rfd'[k] = job_rfd[k]
      /\ fatals' = fatals + 1 /\ fatals \in Nat
      /\ UNCHANGED <<build, jobserver_tokens, commands, zombies, cur, sigchld, pipe, collected>>
  BY MaxFatalAssumption DEF Fatal, TypeOK
<1>2. TypeOK'
  <2>1. at' \in [Makes -> Places]
    BY DEF Fatal, TypeOK, Places
  <2>2. /\ js_type' \in [Makes -> {"none", "pipe", "fifo"}] /\ todo' \in [Makes -> Nat]
        /\ job_rfd' \in [Makes -> BOOLEAN] /\ wfd' \subseteq Makes
    BY DEF Fatal, TypeOK
  <2>3. lost' \in Nat /\ fatals' \in 0 .. MaxFatal
    BY MaxFatalAssumption DEF Fatal, TypeOK, Drawn
  <2> QED BY <1>1, <2>1, <2>2, <2>3 DEF TypeOK
<1>3. \A k \in Makes : at'[k] \in Alive <=> at[k] \in Alive
  BY <1>1 DEF Alive, Awake, Places
<1>4. MasterPlace'
  BY <1>1, SubFacts, MakesAssumption DEF MasterPlace
<1>5. ChildrenCounted' /\ IdleOutside' /\ NoOrphans' /\ SlotsKept'
  <2>1. \A s \in Makes : Children(s)' = Children(s)
    BY <1>1, <1>3, SameLive, ChildrenAre, ChildrenArePrime
  <2>2. ChildrenCounted' /\ SlotsKept'
    BY <1>1, <1>3, <2>1, SameLive DEF ChildrenCounted, SlotsKept
  <2>3. NoOrphans'
    BY <1>3, OrphansFrame
  <2>4. IdleOutside'
    BY <1>1 DEF IdleOutside, Parenting, Awake, Places
  <2> QED BY <2>2, <2>3, <2>4
<1>6. /\ DrawnBy \in [Makes -> Nat] /\ DrawnBy' \in [Makes -> Nat]
      /\ ExcessBy \in [Makes -> Nat] /\ ExcessBy' \in [Makes -> Nat]
  BY <1>2, SummedNat DEF DrawnBy, Drawn, ExcessBy, Excess, TypeOK
<1>7. TokensKept'
  <2>1. DrawnBy'[m] = 0 /\ \A x \in Makes \ {m} : DrawnBy'[x] = DrawnBy[x]
    BY <1>6, FatalDraws
  <2>2. /\ SumOver(DrawnBy') + DrawnBy[m] = SumOver(DrawnBy) + DrawnBy'[m]
        /\ SumOver(DrawnBy) \in Nat /\ SumOver(DrawnBy') \in Nat
    BY <1>6, <2>1, SumOverAt
  <2>3. lost' = lost + DrawnBy[m] /\ DrawnBy[m] \in Nat
    BY <1>6, FatalDraws
  <2> QED BY <1>1, <2>1, <2>2, <2>3 DEF TokensKept, TypeOK
<1>8. ExcessCovered'
  <2>1. /\ ExcessBy'[m] <= ExcessBy[m] + DrawnBy[m]
        /\ \A x \in Makes \ {m} : ExcessBy'[x] = ExcessBy[x]
        /\ lost' = lost + DrawnBy[m]
    BY FatalDraws
  <2>2. /\ SumOver(ExcessBy') + ExcessBy[m] = SumOver(ExcessBy) + ExcessBy'[m]
        /\ SumOver(ExcessBy) \in Nat /\ SumOver(ExcessBy') \in Nat
    BY <1>6, <2>1, SumOverAt
  <2>3. DrawnBy[m] \in Nat /\ ExcessBy[m] \in Nat /\ ExcessBy'[m] \in Nat
    BY <1>6
  <2> QED BY <2>1, <2>2, <2>3 DEF ExcessCovered, TypeOK
<1>9. PeacefulEnd'
  BY <1>1 DEF PeacefulEnd
<1>10. Steady'
  BY <1>4, <1>5, <1>7, <1>8, <1>9 DEF Steady
<1>11. ChosenIsLeft'
  <2> SUFFICES ASSUME NEW k \in Makes, at'[k] \in Starting
               PROVE  /\ at[k] \in Starting /\ cur'[k] = cur[k] /\ todo'[k] = todo[k]
                      /\ \A s \in Subs(k) : at[s] = "unborn" => at'[s] = "unborn"
    BY ChosenFrame
  <2>1. k # m /\ at[k] = at'[k]
    BY <1>1 DEF Starting
  <2>2. ASSUME NEW s \in Subs(k), at[s] = "unborn" PROVE at'[s] = "unborn"
    <3>1. s \in Makes /\ s \notin Subs(m)
      BY <2>1, SubFacts
    <3>2. s # m
      BY <1>1, <2>2 DEF Awake
    <3> QED BY <1>1, <2>2, <3>1, <3>2
  <2> QED BY <1>1, <2>1, <2>2
<1>12. TokenInHand'
  BY <1>1 DEF TokenInHand
<1>13. DeathMarked'
  <2>1. \A k \in Makes : HasDead(k)' => HasDead(k)
    BY <1>1, NoNewDead
  <2> QED BY <1>1, <2>1, MarkFrame
<1> QED BY <1>2, <1>10, <1>11, <1>12, <1>13, Parts

LEMMA CommandEndsInv ==
    ASSUME IInv, NEW m \in Makes, CommandEnds(m)
    PROVE  IInv' /\ DrawnBy' = DrawnBy
<1> USE DEF IInv
<1>1. /\ commands'[m] = commands[m] - 1 /\ zombies'[m] = zombies[m] + 1
      /\ commands[m] \in Nat /\ zombies[m] \in Nat /\ commands[m] > 0
      /\ \A k \in Makes \ {m} : commands'[k] = commands[k] /\ zombies'[k] = zombies[k]
      /\ UNCHANGED <<build, at, js_type, jobserver_tokens, todo, cur, wfd, pipe, collected,
                     lost, fatals>>
  BY DEF CommandEnds, TypeOK
<1>2. TypeOK'
  <2>1. commands' \in [Makes -> Nat] /\ zombies' \in [Makes -> Nat]
    BY DEF CommandEnds, TypeOK
  <2>2. sigchld' \in [Makes -> BOOLEAN] /\ job_rfd' \in [Makes -> BOOLEAN]
    BY <1>1, SigChldMarks DEF CommandEnds
  <2> QED BY <1>1, <2>1, <2>2 DEF TypeOK
<1>3. LiveMakes' = LiveMakes /\ \A k \in Makes : LiveSubs(k)' = LiveSubs(k)
  BY <1>1, SameLive
<1>4. ChildrenCounted'
  <2> SUFFICES ASSUME NEW k \in Makes PROVE jobserver_tokens'[k] = Children(k)'
    BY DEF ChildrenCounted
  <2>1. Cardinality(LiveSubs(k)) \in Nat
    BY LiveFinite
  <2>2. jobserver_tokens[k] = Children(k)
    BY DEF ChildrenCounted
  <2> QED BY <1>1, <1>3, <2>1, <2>2, ChildrenAre, ChildrenArePrime
<1>5. SlotsKept'
  <2>1. SumOver(commands) = SumOver(commands') + 1
    <3>1. commands[m] = commands'[m] + 1 /\ \A k \in Makes \ {m} : commands[k] = commands'[k]
      BY <1>1
    <3> QED BY <1>2, <3>1, SumOverIncr DEF TypeOK
  <2>2. SumOver(zombies') = SumOver(zombies) + 1
    BY <1>1, <1>2, SumOverIncr DEF TypeOK
  <2>3. /\ SumOver(commands) \in Nat /\ SumOver(commands') \in Nat
        /\ SumOver(zombies) \in Nat /\ SumOver(zombies') \in Nat
        /\ Cardinality(LiveMakes) \in Nat
    BY <1>2, SumOverNat, LiveFinite DEF TypeOK
  <2> QED BY <1>1, <1>3, <2>1, <2>2, <2>3 DEF SlotsKept
<1>6. IdleOutside' /\ MasterPlace' /\ PeacefulEnd'
  BY <1>1 DEF IdleOutside, MasterPlace, PeacefulEnd
<1>7. NoOrphans'
  BY <1>1, OrphansFrame
<1>8. DrawnBy' = DrawnBy /\ ExcessBy' = ExcessBy
  BY <1>1 DEF DrawnBy, Drawn, ExcessBy, Excess
<1>9. TokensKept' /\ ExcessCovered'
  BY <1>1, <1>8 DEF TokensKept, ExcessCovered
<1>10. Steady'
  BY <1>4, <1>5, <1>6, <1>7, <1>9 DEF Steady
<1>11. ChosenIsLeft' /\ TokenInHand'
  BY <1>1, ChosenFrame DEF TokenInHand
<1>12. DeathMarked'
  <2> SUFFICES ASSUME NEW k \in Makes, at'[k] \in {"check", "sleep", "read"}, HasDead(k)'
               PROVE  IF build.pselect THEN sigchld'[k] ELSE ~job_rfd'[k]
    BY <1>1 DEF DeathMarked
  <2>1. CASE k = m
    BY <1>1, <2>1, SigChldMarks DEF CommandEnds
  <2>2. CASE k # m
    <3>1. HasDead(k)
      BY <1>1, <2>2 DEF HasDead, DeadSubs, Subs
    <3> QED BY <1>1, <3>1, SigChldMarks DEF CommandEnds, DeathMarked
  <2> QED BY <2>1, <2>2
<1> QED BY <1>2, <1>8, <1>10, <1>11, <1>12, Parts

--------------------------------------------------------------------------------
(* The invariant *)

LEMMA InitInv ==
    ASSUME Init
    PROVE  IInv /\ DrawnBy = [m \in Makes |-> 0]
<1>1. TypeOK
  <2>1. build \in BuildType /\ build \in Builds
    BY BuildsAssumption DEF Init
  <2>2. js_type \in [Makes -> {"none", "pipe", "fifo"}]
    BY <2>1 DEF Init, BuildType
  <2>3. job_rfd \in [Makes -> BOOLEAN]
    BY <2>1, MakesAssumption DEF Init, BuildType
  <2> QED BY <2>1, <2>2, <2>3, MakesAssumption, WorkAssumption, TokensAssumption,
             MaxFatalAssumption DEF Init, TypeOK, Places
<1>2. /\ at[Master] = "next" /\ Master \in Makes
      /\ \A m \in Makes \ {Master} : at[m] = "unborn"
      /\ \A m \in Makes : jobserver_tokens[m] = 0 /\ commands[m] = 0 /\ zombies[m] = 0
  BY MakesAssumption DEF Init
<1>3. LiveMakes = {} /\ \A m \in Makes : LiveSubs(m) = {}
  BY <1>2, SubFacts DEF LiveMakes, LiveSubs, Alive, Awake
<1>4. ChildrenCounted
  BY <1>2, <1>3, ChildrenAre, FS_EmptySet DEF ChildrenCounted
<1>5. MasterPlace /\ ChosenIsLeft /\ IdleOutside /\ TokenInHand /\ DeathMarked
  <2>1. \A m \in Makes : at[m] \in {"next", "unborn"}
    BY <1>2
  <2> QED BY <1>2, <2>1
          DEF MasterPlace, ChosenIsLeft, IdleOutside, TokenInHand, DeathMarked, Starting
<1>6. NoOrphans
  BY <1>2 DEF NoOrphans, Alive, Awake
<1>7. DrawnBy = [m \in Makes |-> 0] /\ ExcessBy = [m \in Makes |-> 0]
  BY <1>2 DEF DrawnBy, Drawn, ExcessBy, Excess
<1>8. ASSUME NEW f \in [Makes -> Nat], \A m \in Makes : f[m] = 0
      PROVE  SumOver(f) = 0
  <2>1. Sum(f, Makes) = 0
    BY <1>8, SumZero, MakesAssumption
  <2> QED BY <2>1, SumIs
<1>9. SumOver(DrawnBy) = 0 /\ SumOver(ExcessBy) = 0
  BY <1>7, <1>8
<1>10. SumOver(jobserver_tokens) = 0 /\ SumOver(commands) = 0 /\ SumOver(zombies) = 0
  BY <1>1, <1>2, <1>8 DEF TypeOK
<1>11. TokensKept /\ ExcessCovered
  BY <1>9, TokensAssumption DEF TokensKept, ExcessCovered, Init
<1>12. SlotsKept
  BY <1>3, <1>10, FS_EmptySet DEF SlotsKept
<1>13. PeacefulEnd
  BY <1>2 DEF PeacefulEnd, Init
<1> QED BY <1>1, <1>4, <1>5, <1>6, <1>7, <1>11, <1>12, <1>13 DEF IInv

LEMMA NextInv ==
    ASSUME IInv, [Next]_vars
    PROVE  IInv'
<1>1. CASE UNCHANGED vars
  <2> USE <1>1 DEF vars, procVars, IInv
  <2>1. TypeOK' /\ MasterPlace' /\ IdleOutside' /\ TokenInHand' /\ PeacefulEnd'
    BY DEF TypeOK, MasterPlace, IdleOutside, TokenInHand, PeacefulEnd
  <2>2. ChosenIsLeft' /\ DeathMarked'
    BY DEF ChosenIsLeft, Subs, DeathMarked, HasDead, DeadSubs
  <2>3. LiveMakes' = LiveMakes /\ \A k \in Makes : LiveSubs(k)' = LiveSubs(k)
    BY SameLive
  <2>4. ChildrenCounted' /\ SlotsKept'
    BY <2>3, ChildrenAre, ChildrenArePrime DEF ChildrenCounted, SlotsKept
  <2>5. NoOrphans'
    BY OrphansFrame
  <2>6. DrawnBy' = DrawnBy /\ ExcessBy' = ExcessBy
    BY DEF DrawnBy, Drawn, ExcessBy, Excess
  <2>7. TokensKept' /\ ExcessCovered'
    BY <2>6 DEF TokensKept, ExcessCovered
  <2> QED BY <2>1, <2>2, <2>4, <2>5, <2>7
<1>2. ASSUME NEW m \in Makes, MakeStep(m)
      PROVE  IInv'
  BY <1>2, NewJobInv, PreAcquireInv, ReapOneInv, ReapEndsInv, CheckAgainInv, SelectInv,
     ReadTokenInv, BlockingReadInv, StartInv, BootInv, NoFifoInv, WaitForChildrenInv,
     ExitsInv, CollectBeginsInv, CollectInv, MasterDiesInv DEF MakeStep
<1> QED BY <1>1, <1>2, CommandEndsInv, GivesUpInv, FatalInv DEF Next

\* What the makes that share a pipe keep true at every step (posixos.c, job.c).
THEOREM JobserverInvariance == Spec => []IInv
<1>1. Init => IInv
  BY InitInv
<1>2. IInv /\ [Next]_vars => IInv'
  BY NextInv
<1> QED BY <1>1, <1>2, PTL DEF Spec

\* A make that sleeps on the pipe while a child of its lies dead is about to wake,
\* with pselect and with the duplicate descriptor (posixos.c:498, 553).
THEOREM DeathsNoticed == Spec => []NoDeathMissed
<1>1. IInv => NoDeathMissed
  BY DEF IInv, DeathMarked, NoDeathMissed
<1> QED BY <1>1, JobserverInvariance, PTL

\* All commands of all makes together are no more than -j allows.
LEMMA CommandsBounded ==
    ASSUME IInv
    PROVE  AllCommandsBounded
<1> USE DEF IInv
<1> DEFINE Busy == {m \in Makes : jobserver_tokens[m] > 0}
           one == [m \in Makes |-> IF m \in Busy THEN 1 ELSE 0]
           both == [m \in Makes |-> DrawnBy[m] + ExcessBy[m]]
           all == [m \in Makes |-> both[m] + one[m]]
<1>1. DrawnBy \in [Makes -> Nat] /\ ExcessBy \in [Makes -> Nat]
  BY SummedNat
<1>2. one \in [Makes -> Nat] /\ both \in [Makes -> Nat] /\ all \in [Makes -> Nat]
  BY <1>1
<1>3. ASSUME NEW m \in Makes PROVE jobserver_tokens[m] <= all[m]
  BY DEF DrawnBy, Drawn, ExcessBy, Excess, TypeOK
<1>4. \A m \in Makes : both[m] = DrawnBy[m] + ExcessBy[m] /\ all[m] = both[m] + one[m]
  OBVIOUS
<1>5. Busy \in SUBSET Makes /\ \A m \in Makes : one[m] = IF m \in Busy THEN 1 ELSE 0
  OBVIOUS
<1>6. Busy \subseteq LiveMakes \cup {Master}
  BY DEF IdleOutside, LiveMakes, Parenting, Alive
<1> HIDE DEF Busy, one, both, all
<1>7. SumOver(jobserver_tokens) <= SumOver(all)
  <2>1. jobserver_tokens \in [Makes -> Nat]
    BY DEF TypeOK
  <2>2. Sum(jobserver_tokens, Makes) <= Sum(all, Makes)
    BY <1>2, <1>3, <2>1, SumLeq, MakesAssumption
  <2> QED BY <2>2, SumIs
<1>8. SumOver(all) = SumOver(DrawnBy) + SumOver(ExcessBy) + SumOver(one)
  <2>1. Sum(all, Makes) = Sum(both, Makes) + Sum(one, Makes)
    BY <1>2, <1>4, SumPlus, MakesAssumption
  <2>2. Sum(both, Makes) = Sum(DrawnBy, Makes) + Sum(ExcessBy, Makes)
    BY <1>1, <1>2, <1>4, SumPlus, MakesAssumption
  <2> QED BY <2>1, <2>2, SumIs
<1>9. SumOver(one) <= Cardinality(LiveMakes) + 1
  <2>1. Sum(one, Makes) = Cardinality(Busy)
    BY <1>2, <1>5, SumCount, MakesAssumption
  <2>2. IsFiniteSet(LiveMakes) /\ Master \notin LiveMakes
    BY LiveFinite, MakesAssumption DEF LiveMakes
  <2>3. /\ IsFiniteSet(LiveMakes \cup {Master})
        /\ Cardinality(LiveMakes \cup {Master}) = Cardinality(LiveMakes) + 1
    BY <2>2, FS_AddElement
  <2>4. Cardinality(Busy) <= Cardinality(LiveMakes \cup {Master})
    BY <1>6, <2>3, FS_Subset
  <2> QED BY <2>1, <2>3, <2>4, SumIs
<1>10. /\ SumOver(jobserver_tokens) \in Nat /\ SumOver(commands) \in Nat
       /\ SumOver(zombies) \in Nat /\ SumOver(all) \in Nat /\ SumOver(one) \in Nat
       /\ SumOver(DrawnBy) \in Nat /\ SumOver(ExcessBy) \in Nat
       /\ Cardinality(LiveMakes) \in Nat
  BY <1>2, SummedNat, SumOverNat, LiveFinite, MakesAssumption
<1>11. /\ pipe \in Nat /\ collected \in Nat /\ lost \in Nat
       /\ pipe + collected + lost + SumOver(DrawnBy) = Tokens
       /\ SumOver(ExcessBy) <= lost
       /\ SumOver(jobserver_tokens)
              = SumOver(commands) + SumOver(zombies) + Cardinality(LiveMakes)
  BY DEF TypeOK, TokensKept, ExcessCovered, SlotsKept
<1>12. SumOver(commands) <= Tokens + 1
  BY <1>7, <1>8, <1>9, <1>10, <1>11, TokensAssumption
<1>13. SumOver(commands) = MapThenSumSet(LAMBDA m : commands[m], Makes)
  BY Zenon DEF SumOver
<1> QED BY <1>12, <1>13 DEF AllCommandsBounded

\* When the master is gone no token is missing and no make is left (main.c).
LEMMA NothingMissing ==
    ASSUME IInv
    PROVE  MasterFindsAll
<1> USE DEF IInv
<1> SUFFICES ASSUME at[Master] = "gone"
             PROVE  /\ collected + pipe + lost = Tokens
                    /\ fatals = 0 => collected = Tokens
                    /\ \A m \in Makes : at[m] \notin Awake
  BY DEF MasterFindsAll
<1>1. /\ \A m \in Makes \ {Master} : at[m] \notin Alive
      /\ \A m \in Makes : jobserver_tokens[m] = 0
  BY NoneWithoutMaster DEF Parenting, Awake
<1>2. \A m \in Makes : at[m] \notin Awake
  BY <1>1 DEF Alive, Awake
<1>3. DrawnBy \in [Makes -> Nat] /\ \A m \in Makes : DrawnBy[m] = 0
  BY <1>1, SummedNat DEF DrawnBy, Drawn
<1>4. SumOver(DrawnBy) = 0
  <2>1. Sum(DrawnBy, Makes) = 0
    BY <1>3, SumZero, MakesAssumption
  <2> QED BY <2>1, SumIs
<1>5. pipe \in Nat /\ collected \in Nat /\ lost \in Nat
  BY DEF TypeOK
<1> QED BY <1>2, <1>4, <1>5, TokensAssumption DEF TokensKept, PeacefulEnd

\* The types are right, the commands of all makes are no more than -j allows, also
\* while a make dies, and the master finds every token at its end (posixos.c:240,
\* job.c:1846, main.c:3722).
THEOREM AllAccounted == Spec => []Accounted
<1>1. IInv => Accounted
  BY CommandsBounded, NothingMissing DEF IInv, Accounted
<1> QED BY <1>1, JobserverInvariance, PTL

--------------------------------------------------------------------------------
(* The makes together are the pool *)

\* A step of the makes is a step of the pool, or the pool does not notice it.
LEMMA StepIsPoolStep ==
    ASSUME IInv, [Next]_vars
    PROVE  [Pool!Next]_(Pool!vars)
<1> DEFINE Unnoticed == pipe' = pipe /\ DrawnBy' = DrawnBy /\ lost' = lost
           Taken(m) == /\ pipe > 0 /\ pipe' = pipe - 1 /\ lost' = lost
                       /\ DrawnBy' = [DrawnBy EXCEPT ![m] = @ + 1]
           Given(m) == /\ DrawnBy[m] > 0 /\ pipe' = pipe + 1 /\ lost' = lost
                       /\ DrawnBy' = [DrawnBy EXCEPT ![m] = @ - 1]
<1>1. Unnoticed => UNCHANGED Pool!vars
  BY DEF Pool!vars, DrawnBy
<1>2. ASSUME NEW m \in Makes, Taken(m) PROVE Pool!Next
  <2>1. Pool!Take(m)
    BY <1>2 DEF Pool!Take, DrawnBy
  <2> QED BY <2>1 DEF Pool!Next
<1>3. ASSUME NEW m \in Makes, Given(m) PROVE Pool!Next
  <2>1. Pool!GiveBack(m)
    BY <1>3 DEF Pool!GiveBack, DrawnBy
  <2> QED BY <2>1 DEF Pool!Next
<1>4. CASE UNCHANGED vars
  <2>1. Unnoticed
    BY <1>4 DEF vars, DrawnBy, Drawn
  <2> QED BY <1>1, <2>1
<1>5. ASSUME NEW m \in Makes,
             NewJob(m) \/ PreAcquire(m) \/ ReapEnds(m) \/ CheckAgain(m) \/ Select(m)
             \/ Start(m) \/ Boot(m) \/ NoFifo(m) \/ WaitForChildren(m) \/ Exits(m)
             \/ CommandEnds(m) \/ GivesUp(m)
      PROVE  Unnoticed
  <2>1. DrawnBy' = DrawnBy
    BY <1>5, NewJobInv, PreAcquireInv, ReapEndsInv, CheckAgainInv, SelectInv, StartInv, BootInv,
       NoFifoInv, WaitForChildrenInv, ExitsInv, CommandEndsInv, GivesUpInv
  <2>2. pipe' = pipe /\ lost' = lost
    BY <1>5 DEF NewJob, PreAcquire, ReapEnds, CheckAgain, Select, Start, Boot, NoFifo,
                WaitForChildren, Exits, CommandEnds, GivesUp
  <2> QED BY <2>1, <2>2
<1>6. ASSUME NEW m \in Makes, ReadToken(m) \/ BlockingRead(m)
      PROVE  Unnoticed \/ Taken(m)
  <2>1. lost' = lost
    BY <1>6 DEF ReadToken, BlockingRead
  <2>2. \/ pipe' = pipe /\ DrawnBy' = DrawnBy
        \/ pipe > 0 /\ pipe' = pipe - 1 /\ DrawnBy' = [DrawnBy EXCEPT ![m] = @ + 1]
    BY <1>6, ReadTokenInv, BlockingReadInv
  <2> QED BY <2>1, <2>2
<1>7. ASSUME NEW m \in Makes, ReapOne(m)
      PROVE  Unnoticed \/ Given(m)
  BY <1>7, ReapDraws, ReapFacts
<1>8. CASE CollectBegins \/ MasterDies
  <2>1. Unnoticed
    BY <1>8, CollectBeginsInv, MasterDiesInv DEF CollectBegins, MasterDies
  <2> QED BY <1>1, <2>1
<1>9. CASE Collect
  <2>1. DrawnBy' = DrawnBy /\ lost' = lost
    BY <1>9, CollectInv DEF Collect
  <2>2. CASE pipe' = pipe
    BY <1>1, <2>1, <2>2
  <2>3. CASE pipe > 0 /\ pipe' = pipe - 1
    <3>1. \A m \in Makes : DrawnBy[m] = 0
      BY <1>9, CollectingAlone DEF Collect
    <3>2. Pool!Collect
      BY <2>1, <2>3, <3>1 DEF Pool!Collect, DrawnBy
    <3> QED BY <3>2 DEF Pool!Next
  <2> QED BY <1>9, <2>2, <2>3 DEF Collect
<1>10. ASSUME NEW m \in Makes, Fatal(m) PROVE Pool!Next
  <2>1. pipe' = pipe
    BY <1>10 DEF Fatal
  <2>2. Pool!Die(m)
    BY <1>10, <2>1, FatalDraws DEF Pool!Die, DrawnBy
  <2> QED BY <2>2 DEF Pool!Next
<1> HIDE DEF Unnoticed, Taken, Given
<1> QED BY <1>1, <1>2, <1>3, <1>4, <1>5, <1>6, <1>7, <1>8, <1>9, <1>10 DEF Next, MakeStep

\* The makes on one jobserver are the pool of tokens TokenPool describes, whichever way
\* make is built: a token is taken or given back one at a time, only a signal loses
\* tokens, and the master collects only when no make holds one (posixos.c, main.c).
THEOREM JobserverIsPool == Spec => ImplementsPool
<1>1. Init => Pool!Init
  BY InitInv DEF Init, Pool!Init, DrawnBy
<1>2. IInv /\ [Next]_vars => [Pool!Next]_(Pool!vars)
  BY StepIsPoolStep
<1> QED BY <1>1, <1>2, JobserverInvariance, PTL DEF Spec, ImplementsPool, Pool!Spec

================================================================================
