------------------------------- MODULE SumLemmas -------------------------------
(***************************************************************************)
(* Sums of natural numbers over a finite set, as the models of the metrics *)
(* and of the network client take them.  MapThenSumSet is a recursive      *)
(* function over the subsets; what it computes is proved by looking at a   *)
(* smallest subset for which the claim fails.                              *)
(***************************************************************************)
EXTENDS Integers, FiniteSetsExt, FiniteSetTheorems, WellFoundedInduction, TLAPS

\* The sum of f over S.
SumOver(f, S) == MapThenSumSet(LAMBDA x : f[x], S)

\* The element the recursion takes out of a set first.
Taken(s) == CHOOSE x \in s : TRUE

\* g is the function over the subsets of S that the recursion defines.
Sums(g, f, S) ==
  g = [s \in SUBSET S |-> IF s = {} THEN 0 ELSE f[Taken(s)] + g[s \ {Taken(s)}]]

\* A set of subsets of a finite set has a smallest element.
LEMMA SmallestSubset ==
  ASSUME NEW S, IsFiniteSet(S), NEW U \in SUBSET SUBSET S, U # {}
  PROVE  \E T \in U : \A V \in U : V \subseteq T => V = T
<1>1. IsWellFoundedOn(StrictSubsetOrdering(S), SUBSET S)
  BY FS_StrictSubsetOrderingWellFounded, FS_FiniteSubsetsOfFinite
<1>2. PICK T \in U : \A V \in U : <<V, T>> \notin StrictSubsetOrdering(S)
  BY <1>1, WFMin
<1>3. ASSUME NEW V \in U, V \subseteq T, V # T PROVE FALSE
  <2>1. <<V, T>> \in (SUBSET S) \X (SUBSET S)
    OBVIOUS
  <2>2. <<V, T>> \in StrictSubsetOrdering(S)
    BY <1>3, <2>1, Zenon DEF StrictSubsetOrdering
  <2>. QED
    BY <1>2, <2>2
<1>. QED
  BY <1>3

\* The sum is the value of that recursive function, when there is one.
LEMMA SumIsRecursive ==
  ASSUME NEW f, NEW S
  PROVE  SumOver(f, S) = (CHOOSE g : Sums(g, f, S))[S]
  BY Zenon DEF SumOver, MapThenSumSet, MapThenFoldSet, Sums, Taken

\* Such functions agree where both are defined.
LEMMA SumsAgree ==
  ASSUME NEW f, NEW S, IsFiniteSet(S), NEW T \in SUBSET S,
         NEW g, Sums(g, f, S), NEW h, Sums(h, f, T)
  PROVE  \A s \in SUBSET T : g[s] = h[s]
<1>. DEFINE U == {s \in SUBSET T : g[s] # h[s]}
<1>. SUFFICES ASSUME U # {} PROVE FALSE
  OBVIOUS
<1>1. IsFiniteSet(T)
  BY FS_Subset
<1>2. PICK s \in U : \A r \in U : r \subseteq s => r = s
  <2>. HIDE DEF U
  <2>1. U \in SUBSET SUBSET T
    BY DEF U
  <2>. QED
    BY <1>1, <2>1, SmallestSubset
<1>3. s \in SUBSET S /\ s \in SUBSET T
  OBVIOUS
<1>4. g[s] = IF s = {} THEN 0 ELSE f[Taken(s)] + g[s \ {Taken(s)}]
  BY <1>3, Zenon DEF Sums
<1>5. h[s] = IF s = {} THEN 0 ELSE f[Taken(s)] + h[s \ {Taken(s)}]
  BY <1>3, Zenon DEF Sums
<1>6. s # {} => Taken(s) \in s
  BY Zenon DEF Taken
<1>7. s # {} => g[s \ {Taken(s)}] = h[s \ {Taken(s)}]
  BY <1>2, <1>6
<1>. QED
  BY <1>4, <1>5, <1>7

\* There is one for every finite set.
LEMMA SumsExist ==
  ASSUME NEW f, NEW S, IsFiniteSet(S)
  PROVE  Sums(CHOOSE g : Sums(g, f, S), f, S)
<1>. DEFINE The(T) == CHOOSE g : Sums(g, f, T)
            U == {T \in SUBSET S : ~Sums(The(T), f, T)}
<1>. SUFFICES ASSUME U # {} PROVE FALSE
  OBVIOUS
<1>1. PICK T \in U : \A V \in U : V \subseteq T => V = T
  <2>. HIDE DEF U
  <2>1. U \in SUBSET SUBSET S
    BY DEF U
  <2>. QED
    BY <2>1, SmallestSubset
<1>. DEFINE h == [s \in SUBSET T |-> IF s = {} THEN 0
                                    ELSE f[Taken(s)] + The(s \ {Taken(s)})[s \ {Taken(s)}]]
<1>2. ASSUME NEW s \in SUBSET T, s # {}
      PROVE  LET r == s \ {Taken(s)}
             IN  r \in SUBSET T /\ r # T /\ Sums(The(r), f, r) /\ IsFiniteSet(r)
  <2>1. Taken(s) \in s
    BY <1>2, Zenon DEF Taken
  <2>2. s \ {Taken(s)} \in SUBSET T /\ s \ {Taken(s)} # T
    BY <2>1
  <2>3. s \ {Taken(s)} \in SUBSET S
    BY <2>2
  <2>4. IsFiniteSet(s \ {Taken(s)})
    BY <2>3, FS_Subset
  <2>5. s \ {Taken(s)} \notin U
    BY <1>1, <2>2
  <2>. QED
    BY <2>2, <2>3, <2>4, <2>5
<1>3. ASSUME NEW s \in SUBSET T, s # {}
      PROVE  h[s \ {Taken(s)}] = The(s \ {Taken(s)})[s \ {Taken(s)}]
  <2>. DEFINE r == s \ {Taken(s)}
              q == r \ {Taken(r)}
  <2>1. r \in SUBSET T /\ Sums(The(r), f, r) /\ IsFiniteSet(r)
    BY <1>2, <1>3
  <2>2. The(r)[r] = IF r = {} THEN 0 ELSE f[Taken(r)] + The(r)[q]
    <3>. HIDE DEF The
    <3>1. r \in SUBSET r
      OBVIOUS
    <3>. QED
      BY <2>1, <3>1, Zenon DEF Sums
  <2>3. h[r] = IF r = {} THEN 0 ELSE f[Taken(r)] + The(q)[q]
    BY <2>1
  <2>4. ASSUME r # {} PROVE The(r)[q] = The(q)[q]
    <3>1. Sums(The(q), f, q) /\ q \in SUBSET r /\ q \in SUBSET q
      BY <1>2, <2>1, <2>4
    <3>. HIDE DEF The, r, q
    <3>. QED
      BY <2>1, <3>1, SumsAgree
  <2>. QED
    BY <2>2, <2>3, <2>4
<1>4. Sums(h, f, T)
  <2>1. ASSUME NEW s \in SUBSET T
        PROVE  h[s] = IF s = {} THEN 0 ELSE f[Taken(s)] + h[s \ {Taken(s)}]
    <3>1. h[s] = IF s = {} THEN 0 ELSE f[Taken(s)] + The(s \ {Taken(s)})[s \ {Taken(s)}]
      BY Zenon
    <3>. HIDE DEF h, The
    <3>. QED
      BY <1>3, <3>1, Zenon
  <2>2. h = [s \in SUBSET T |-> h[s]]
    OBVIOUS
  <2>. HIDE DEF h
  <2>3. h = [s \in SUBSET T |-> IF s = {} THEN 0 ELSE f[Taken(s)] + h[s \ {Taken(s)}]]
    BY <2>1, <2>2
  <2>. QED
    BY <2>3 DEF Sums
<1>5. Sums(The(T), f, T)
  <2>. HIDE DEF h
  <2>. QED
    BY <1>4, Zenon
<1>. QED
  BY <1>5

-----------------------------------------------------------------------------
(* The facts the other proofs cite. *)

\* The sum over no element is zero.
LEMMA SumEmpty ==
  ASSUME NEW f
  PROVE  SumOver(f, {}) = 0
<1>. DEFINE g == CHOOSE g : Sums(g, f, {})
<1>1. Sums(g, f, {})
  BY SumsExist, FS_EmptySet
<1>2. g[{}] = 0
  <2>. HIDE DEF g
  <2>. QED
    BY <1>1 DEF Sums
<1>. QED
  BY <1>2, SumIsRecursive

\* The recursion takes one element out.
LEMMA SumTaken ==
  ASSUME NEW f, NEW S, IsFiniteSet(S), S # {}
  PROVE  /\ Taken(S) \in S
         /\ SumOver(f, S) = f[Taken(S)] + SumOver(f, S \ {Taken(S)})
<1>. DEFINE The(T) == CHOOSE g : Sums(g, f, T)
            r == S \ {Taken(S)}
<1>1. Taken(S) \in S
  BY Zenon DEF Taken
<1>2. IsFiniteSet(r) /\ r \in SUBSET S /\ r \in SUBSET r /\ S \in SUBSET S
  BY FS_Subset
<1>3. Sums(The(S), f, S) /\ Sums(The(r), f, r)
  <2>. HIDE DEF r
  <2>. QED
    BY <1>2, SumsExist
<1>4. SumOver(f, S) = The(S)[S] /\ SumOver(f, r) = The(r)[r]
  <2>. HIDE DEF r
  <2>. QED
    BY SumIsRecursive
<1>. HIDE DEF The
<1>5. The(S)[S] = f[Taken(S)] + The(S)[r]
  BY <1>2, <1>3, Zenon DEF Sums
<1>6. The(S)[r] = The(r)[r]
  <2>. HIDE DEF r
  <2>. QED
    BY <1>2, <1>3, SumsAgree
<1>. QED
  BY <1>1, <1>4, <1>5, <1>6

\* A sum of natural numbers is one.
LEMMA SumIsNat ==
  ASSUME NEW S, IsFiniteSet(S), NEW f, \A x \in S : f[x] \in Nat
  PROVE  SumOver(f, S) \in Nat
<1>. DEFINE U == {T \in SUBSET S : SumOver(f, T) \notin Nat}
<1>. SUFFICES ASSUME U # {} PROVE FALSE
  OBVIOUS
<1>1. PICK T \in U : \A V \in U : V \subseteq T => V = T
  <2>1. U \in SUBSET SUBSET S
    OBVIOUS
  <2>. HIDE DEF U
  <2>. QED
    BY <2>1, SmallestSubset
<1>2. T # {}
  BY SumEmpty
<1>3. IsFiniteSet(T)
  BY FS_Subset
<1>4. Taken(T) \in T /\ SumOver(f, T) = f[Taken(T)] + SumOver(f, T \ {Taken(T)})
  BY <1>2, <1>3, SumTaken
<1>5. SumOver(f, T \ {Taken(T)}) \in Nat
  BY <1>1, <1>4
<1>. QED
  BY <1>4, <1>5

\* Any element may be taken out first.
LEMMA SumRemove ==
  ASSUME NEW S, IsFiniteSet(S), NEW f, \A y \in S : f[y] \in Nat, NEW x \in S
  PROVE  SumOver(f, S) = f[x] + SumOver(f, S \ {x})
<1>. DEFINE U == {T \in SUBSET S : \E z \in T : SumOver(f, T) # f[z] + SumOver(f, T \ {z})}
<1>. SUFFICES ASSUME U # {} PROVE FALSE
  OBVIOUS
<1>1. PICK T \in U : \A V \in U : V \subseteq T => V = T
  <2>1. U \in SUBSET SUBSET S
    OBVIOUS
  <2>. HIDE DEF U
  <2>. QED
    BY <2>1, SmallestSubset
<1>2. PICK z \in T : SumOver(f, T) # f[z] + SumOver(f, T \ {z})
  OBVIOUS
<1>. DEFINE p == Taken(T)
            r == T \ {p, z}
<1>3. IsFiniteSet(T) /\ T \in SUBSET S
  BY FS_Subset
<1>4. p \in T /\ SumOver(f, T) = f[p] + SumOver(f, T \ {p})
  BY <1>3, SumTaken
<1>5. p # z
  BY <1>2, <1>4
<1>6. SumOver(f, T \ {p}) = f[z] + SumOver(f, r)
  <2>1. T \ {p} \in SUBSET S /\ z \in T \ {p} /\ (T \ {p}) \ {z} = r /\ T \ {p} \notin U
    BY <1>1, <1>3, <1>4, <1>5
  <2>. QED
    BY <2>1
<1>7. SumOver(f, T \ {z}) = f[p] + SumOver(f, r)
  <2>1. T \ {z} \in SUBSET S /\ p \in T \ {z} /\ (T \ {z}) \ {p} = r /\ T \ {z} \notin U
    BY <1>1, <1>3, <1>4, <1>5
  <2>. QED
    BY <2>1
<1>8. SumOver(f, r) \in Nat /\ f[z] \in Nat /\ f[p] \in Nat
  <2>1. IsFiniteSet(r) /\ r \in SUBSET S
    BY <1>3, FS_Subset
  <2>2. SumOver(f, r) \in Nat
    <3>. HIDE DEF r
    <3>. QED
      BY <2>1, SumIsNat
  <2>. QED
    BY <1>3, <1>4, <2>2
<1>9. SumOver(f, T) = f[z] + SumOver(f, T \ {z})
  <2>. HIDE DEF p, r
  <2>. QED
    BY <1>4, <1>6, <1>7, <1>8
<1>. QED
  BY <1>2, <1>9

\* A sum depends on the values at its elements only.
LEMMA SumAgrees ==
  ASSUME NEW S, IsFiniteSet(S), NEW f, NEW g, \A x \in S : f[x] = g[x]
  PROVE  SumOver(f, S) = SumOver(g, S)
<1>. DEFINE U == {T \in SUBSET S : SumOver(f, T) # SumOver(g, T)}
<1>. SUFFICES ASSUME U # {} PROVE FALSE
  OBVIOUS
<1>1. PICK T \in U : \A V \in U : V \subseteq T => V = T
  <2>1. U \in SUBSET SUBSET S
    OBVIOUS
  <2>. HIDE DEF U
  <2>. QED
    BY <2>1, SmallestSubset
<1>2. T # {}
  BY SumEmpty
<1>3. IsFiniteSet(T)
  BY FS_Subset
<1>4. /\ Taken(T) \in T
      /\ SumOver(f, T) = f[Taken(T)] + SumOver(f, T \ {Taken(T)})
      /\ SumOver(g, T) = g[Taken(T)] + SumOver(g, T \ {Taken(T)})
  BY <1>2, <1>3, SumTaken
<1>. QED
  BY <1>1, <1>4

\* When one value changes the sum changes with it.
LEMMA SumChange ==
  ASSUME NEW S, IsFiniteSet(S), NEW x \in S,
         NEW f, \A y \in S : f[y] \in Nat,
         NEW g, \A y \in S : g[y] \in Nat,
         \A y \in S \ {x} : g[y] = f[y]
  PROVE  SumOver(g, S) + f[x] = SumOver(f, S) + g[x]
<1>. DEFINE r == S \ {x}
<1>1. IsFiniteSet(r) /\ r \in SUBSET S
  BY FS_Subset
<1>2. SumOver(g, r) = SumOver(f, r) /\ SumOver(f, r) \in Nat
  <2>1. \A y \in r : g[y] = f[y] /\ f[y] \in Nat
    OBVIOUS
  <2>. HIDE DEF r
  <2>. QED
    BY <1>1, <2>1, SumAgrees, SumIsNat
<1>3. SumOver(f, S) = f[x] + SumOver(f, r) /\ SumOver(g, S) = g[x] + SumOver(g, r)
  BY SumRemove
<1>. QED
  BY <1>2, <1>3

\* Elements whose value is zero may be left out.
LEMMA SumSupport ==
  ASSUME NEW S, IsFiniteSet(S), NEW f, \A x \in S : f[x] \in Nat,
         NEW R \in SUBSET S, \A x \in S \ R : f[x] = 0
  PROVE  SumOver(f, S) = SumOver(f, R)
<1>. DEFINE U == {T \in SUBSET S : R \subseteq T /\ SumOver(f, T) # SumOver(f, R)}
<1>. SUFFICES ASSUME U # {} PROVE FALSE
  OBVIOUS
<1>1. PICK T \in U : \A V \in U : V \subseteq T => V = T
  <2>1. U \in SUBSET SUBSET S
    OBVIOUS
  <2>. HIDE DEF U
  <2>. QED
    BY <2>1, SmallestSubset
<1>2. PICK x \in T : x \notin R
  OBVIOUS
<1>3. IsFiniteSet(T) /\ IsFiniteSet(T \ {x})
  BY FS_Subset
<1>4. SumOver(f, T) = f[x] + SumOver(f, T \ {x})
  BY <1>3, SumRemove
<1>5. f[x] = 0 /\ SumOver(f, T \ {x}) \in Nat
  <2>1. \A y \in T \ {x} : f[y] \in Nat
    OBVIOUS
  <2>. QED
    BY <1>2, <1>3, <2>1, SumIsNat
<1>. QED
  BY <1>1, <1>2, <1>4, <1>5

\* A sum of values up to b is at most b for each element.
LEMMA SumBound ==
  ASSUME NEW S, IsFiniteSet(S), NEW b \in Nat,
         NEW f, \A x \in S : f[x] \in 0..b
  PROVE  SumOver(f, S) <= b * Cardinality(S)
<1>. DEFINE U == {T \in SUBSET S : ~(SumOver(f, T) <= b * Cardinality(T))}
<1>. SUFFICES ASSUME U # {} PROVE FALSE
  OBVIOUS
<1>1. PICK T \in U : \A V \in U : V \subseteq T => V = T
  <2>1. U \in SUBSET SUBSET S
    OBVIOUS
  <2>. HIDE DEF U
  <2>. QED
    BY <2>1, SmallestSubset
<1>2. T # {}
  <2>1. b * Cardinality({}) = 0
    BY FS_EmptySet
  <2>2. SumOver(f, {}) <= b * Cardinality({})
    BY <2>1, SumEmpty
  <2>. QED
    BY <2>2
<1>3. IsFiniteSet(T)
  BY FS_Subset
<1>. DEFINE p == Taken(T)
            r == T \ {p}
            n == Cardinality(r)
<1>4. p \in T /\ SumOver(f, T) = f[p] + SumOver(f, r)
  BY <1>2, <1>3, SumTaken
<1>5. IsFiniteSet(r) /\ n \in Nat /\ Cardinality(T) = n + 1
  <2>1. IsFiniteSet(r) /\ n = Cardinality(T) - 1
    <3>. HIDE DEF p
    <3>. QED
      BY <1>3, <1>4, FS_RemoveElement
  <2>2. n \in Nat /\ Cardinality(T) \in Nat
    <3>. HIDE DEF r
    <3>. QED
      BY <1>3, <2>1, FS_CardinalityType
  <2>. HIDE DEF n, r
  <2>. QED
    BY <2>1, <2>2
<1>6. SumOver(f, r) <= b * n
  BY <1>1, <1>4
<1>7. SumOver(f, r) \in Nat
  <2>1. \A x \in r : f[x] \in Nat
    OBVIOUS
  <2>. HIDE DEF r
  <2>. QED
    BY <1>5, <2>1, SumIsNat
<1>8. SumOver(f, T) <= b * (n + 1)
  <2>1. f[p] \in 0..b
    BY <1>4
  <2>2. b * n \in Nat /\ b * (n + 1) = b * n + b
    BY <1>5
  <2>. HIDE DEF n, r, p
  <2>. QED
    BY <1>4, <1>6, <1>7, <2>1, <2>2
<1>. QED
  BY <1>5, <1>8
=============================================================================
