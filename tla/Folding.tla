------------------------------- MODULE Folding -------------------------------
(***************************************************************************)
(* What a fold computes, for the proofs about modules that use FoldLeft or *)
(* a sum.  The operator that is folded is a parameter: a module of proofs  *)
(* takes an INSTANCE of this one for each operator it folds.  Induction is *)
(* over sets of numbers, so that no theorem has an operator as parameter.  *)
(***************************************************************************)
EXTENDS Integers, SequencesExt, FiniteSetTheorems, WellFoundedInduction, TLAPS

CONSTANT Op(_, _)

-----------------------------------------------------------------------------
(***************************************************************************)
(* Induction and recursion over the natural numbers.                       *)
(***************************************************************************)
\* A set that holds 0 and with every number the next one holds all of them.
THEOREM NaturalInduction ==
  ASSUME NEW S, 0 \in S, \A n \in Nat : n \in S => n + 1 \in S
  PROVE  Nat \subseteq S
<1> DEFINE Outside == Nat \ S
           R == OpToRel(<, Nat)
<1>1. SUFFICES ASSUME Outside # {}
               PROVE  FALSE
  OBVIOUS
<1>2. PICK i \in Outside : \A j \in Outside : <<j, i>> \notin R
  <2> HIDE DEF R
  <2>1. IsWellFoundedOn(R, Nat)
    BY NatLessThanWellFounded DEF R
  <2>2. Outside \subseteq Nat
    OBVIOUS
  <2> HIDE DEF Outside
  <2>3. QED
    BY <1>1, <2>1, <2>2, WFMin
<1>3. i # 0 /\ i \in Nat
  BY <1>2
<1>4. i - 1 \in Nat /\ (i - 1) + 1 = i
  BY <1>3
<1>5. <<i - 1, i>> \in R
  BY <1>3, <1>4 DEF OpToRel
<1>6. i - 1 \in S
  BY <1>2, <1>4, <1>5
<1>7. QED
  BY <1>2, <1>4, <1>6

\* One unfolding of a recursion: it turns a function on D into another one.
Unfolds(G, D, V) == G \in [[D -> V] -> [D -> V]]

\* The value that G gives an element rests on those of lower rank alone.
RestsOnLower(G, D, V, rank) ==
  \A g, h \in [D -> V] : \A x \in D :
    (\A y \in D : rank[y] < rank[x] => g[y] = h[y]) => G[g][x] = G[h][x]

\* A recursion whose value at x rests on values at elements of lower rank
\* only is solved by some function.
THEOREM RankRecursion ==
  ASSUME NEW D, NEW V, NEW default \in V, NEW rank \in [D -> Nat],
         NEW G, Unfolds(G, D, V), RestsOnLower(G, D, V, rank)
  PROVE  \E f \in [D -> V] : f = G[f]
<1> USE DEF Unfolds, RestsOnLower
<1> DEFINE Good(g, n) == \A x \in D : rank[x] < n => g[x] = G[g][x]
           Reached == {n \in Nat : \E g \in [D -> V] : Good(g, n)}
<1>1. 0 \in Reached
  <2> DEFINE g == [x \in D |-> default]
  <2>1. g \in [D -> V]
    OBVIOUS
  <2>2. \A x \in D : ~(rank[x] < 0)
    OBVIOUS
  <2>3. Good(g, 0)
    BY <2>2
  <2> HIDE DEF g, Good
  <2>4. QED
    BY <2>1, <2>3
<1>2. ASSUME NEW n \in Nat, n \in Reached
      PROVE  n + 1 \in Reached
  <2>1. PICK g \in [D -> V] : Good(g, n)
    BY <1>2
  <2>2. G[g] \in [D -> V]
    OBVIOUS
  <2>3. ASSUME NEW x \in D, rank[x] < n + 1
        PROVE  G[g][x] = G[G[g]][x]
    <3>1. \A y \in D : rank[y] < rank[x] => g[y] = G[g][y]
      BY <2>1, <2>3
    <3>2. QED
      BY <3>1, <2>2
  <2>4. Good(G[g], n + 1)
    BY <2>3
  <2>5. QED
    BY <2>2, <2>4
<1>3. Nat \subseteq Reached
  <2> HIDE DEF Reached
  <2>1. QED
    BY <1>1, <1>2, NaturalInduction
<1>4. ASSUME NEW g \in [D -> V], NEW h \in [D -> V], NEW m \in Nat, NEW n \in Nat,
             Good(g, m), Good(h, n), m <= n
      PROVE  \A x \in D : rank[x] < m => g[x] = h[x]
  <2> DEFINE Agree == {k \in Nat : k <= m => \A x \in D : rank[x] < k => g[x] = h[x]}
  <2>1. 0 \in Agree
    OBVIOUS
  <2>2. ASSUME NEW k \in Nat, k \in Agree
        PROVE  k + 1 \in Agree
    <3>1. SUFFICES ASSUME k + 1 <= m, NEW x \in D, rank[x] < k + 1
                   PROVE  g[x] = h[x]
      OBVIOUS
    <3>2. \A y \in D : rank[y] < rank[x] => g[y] = h[y]
      BY <2>2, <3>1
    <3>3. G[g][x] = G[h][x]
      BY <3>2
    <3>4. g[x] = G[g][x] /\ h[x] = G[h][x]
      BY <1>4, <3>1
    <3>5. QED
      BY <3>3, <3>4
  <2>3. m \in Agree
    <3> HIDE DEF Agree
    <3>1. QED
      BY <2>1, <2>2, NaturalInduction
  <2>4. QED
    BY <2>3
<1> DEFINE part[n \in Nat] == CHOOSE g \in [D -> V] : Good(g, n)
           f == [x \in D |-> part[rank[x] + 1][x]]
<1>5. \A n \in Nat : part[n] \in [D -> V] /\ Good(part[n], n)
  BY <1>3
<1> HIDE DEF Good, part
<1>6. f \in [D -> V]
  BY <1>5
<1>7. ASSUME NEW x \in D
      PROVE  f[x] = G[f][x]
  <2>1. f[x] = part[rank[x] + 1][x]
    OBVIOUS
  <2>2. part[rank[x] + 1][x] = G[part[rank[x] + 1]][x]
    BY <1>5 DEF Good
  <2>3. ASSUME NEW y \in D, rank[y] < rank[x]
        PROVE  f[y] = part[rank[x] + 1][y]
    <3>1. rank[x] \in Nat /\ rank[y] \in Nat
      OBVIOUS
    <3>2. rank[y] + 1 \in Nat /\ rank[x] + 1 \in Nat /\ rank[y] + 1 <= rank[x] + 1
      BY <2>3, <3>1
    <3>3. \A z \in D : rank[z] < rank[y] + 1 => part[rank[y] + 1][z] = part[rank[x] + 1][z]
      BY <1>4, <1>5, <3>2
    <3>4. rank[y] < rank[y] + 1
      BY <3>1
    <3>5. part[rank[y] + 1][y] = part[rank[x] + 1][y]
      BY <3>3, <3>4
    <3>6. QED
      BY <3>5
  <2>4. part[rank[x] + 1] \in [D -> V]
    BY <1>5
  <2>5. G[f][x] = G[part[rank[x] + 1]][x]
    BY <1>6, <2>3, <2>4
  <2>6. QED
    BY <2>1, <2>2, <2>5
<1>8. f = G[f]
  BY <1>6, <1>7
<1>9. QED
  BY <1>6, <1>8

-----------------------------------------------------------------------------
(***************************************************************************)
(* Sequences made of others and of sets.                                   *)
(***************************************************************************)
\* Sequences of S in a row are a sequence of S.
THEOREM FlattenSeqType ==
  ASSUME NEW S, NEW ss \in Seq(Seq(S))
  PROVE  FlattenSeq(ss) \in Seq(S)
<1> DEFINE n == Len(ss)
           D == 1..n
           V == Seq(S)
           Step(it, i) == IF i = 1 THEN ss[i] ELSE it[i - 1] \o ss[i]
           rank == [i \in D |-> i]
           G == [it \in [D -> V] |-> [i \in D |-> Step(it, i)]]
<1>1. n \in Nat /\ \A i \in D : ss[i] \in V /\ i \in Nat
  OBVIOUS
<1>2. CASE n = 0
  BY <1>2 DEF FlattenSeq
<1>3. CASE n # 0
  <2>1. rank \in [D -> Nat]
    BY <1>1
  <2>2. \A i \in D : i # 1 => i - 1 \in D /\ rank[i - 1] < rank[i]
    BY <1>1
  <2>3. ASSUME NEW it \in [D -> V], NEW i \in D
        PROVE  Step(it, i) \in V
    <3>1. CASE i = 1
      BY <1>1, <3>1
    <3>2. CASE i # 1
      <4>1. it[i - 1] \in V /\ ss[i] \in V
        BY <1>1, <2>2, <3>2
      <4>2. it[i - 1] \o ss[i] \in V
        BY <4>1
      <4>3. QED
        BY <3>2, <4>2
    <3>3. QED
      BY <3>1, <3>2
  <2>4. Unfolds(G, D, V)
    <3> HIDE DEF Step, D, V
    <3>1. QED
      BY <2>3 DEF Unfolds
  <2>5. RestsOnLower(G, D, V, rank)
    <3>1. SUFFICES ASSUME NEW g \in [D -> V], NEW h \in [D -> V], NEW i \in D,
                          \A j \in D : rank[j] < rank[i] => g[j] = h[j]
                   PROVE  Step(g, i) = Step(h, i)
      <4> HIDE DEF Step, D, V, rank
      <4>1. QED
        BY <3>1 DEF RestsOnLower
    <3>2. i # 1 => g[i - 1] = h[i - 1]
      BY <2>2, <3>1
    <3>3. QED
      BY <3>2
  <2>6. \E it \in [D -> V] : it = G[it]
    <3>1. <<>> \in V
      OBVIOUS
    <3> HIDE DEF D, V, rank, G
    <3>2. QED
      BY <2>1, <2>4, <2>5, <3>1, RankRecursion
  <2> DEFINE flatten == CHOOSE it : it = [i \in D |-> Step(it, i)]
  <2>7. flatten = [i \in D |-> Step(flatten, i)]
    <3>1. \E it : it = [i \in D |-> Step(it, i)]
      <4> HIDE DEF D, V, Step
      <4>1. QED
        BY <2>6
    <3> HIDE DEF D, V, Step, G, rank
    <3>2. QED
      BY <3>1
  <2>8. FlattenSeq(ss) = flatten[n]
    BY <1>3 DEF FlattenSeq
  <2> HIDE DEF flatten
  <2> DEFINE Typed == {k \in Nat : k \in D => flatten[k] \in V}
  <2>9. 0 \in Typed
    BY <1>1
  <2>10. ASSUME NEW k \in Nat, k \in Typed
         PROVE  k + 1 \in Typed
    <3>1. SUFFICES ASSUME k + 1 \in D
                   PROVE  flatten[k + 1] \in V
      OBVIOUS
    <3>2. flatten[k + 1] = Step(flatten, k + 1)
      <4> HIDE DEF D, V, Step
      <4>1. QED
        BY <2>7, <3>1
    <3>3. ss[k + 1] \in V
      BY <1>1, <3>1
    <3>4. CASE k + 1 = 1
      BY <3>2, <3>3, <3>4
    <3>5. CASE k + 1 # 1
      <4>1. (k + 1) - 1 = k /\ k \in D
        BY <1>1, <3>1, <3>5
      <4>2. flatten[k] \in V
        BY <2>10, <4>1
      <4>3. flatten[k] \o ss[k + 1] \in V
        BY <3>3, <4>2
      <4>4. QED
        BY <3>2, <3>5, <4>1, <4>3
    <3>6. QED
      BY <3>4, <3>5
  <2>11. n \in Typed
    <3> HIDE DEF Typed
    <3>1. QED
      BY <1>1, <2>9, <2>10, NaturalInduction
  <2>12. n \in D
    BY <1>1, <1>3
  <2>13. QED
    BY <2>8, <2>11, <2>12
<1>4. QED
  BY <1>2, <1>3

\* A finite set in a row is a sequence of its elements.
THEOREM SetToSeqType ==
  ASSUME NEW S, IsFiniteSet(S)
  PROVE  SetToSeq(S) \in Seq(S)
<1>1. Cardinality(S) \in Nat
  BY FS_CardinalityType
<1>2. PICK f : f \in Bijection(1..Cardinality(S), S)
  <2>1. PICK n \in Nat : ExistsBijection(1..n, S)
    BY FS_NatBijection
  <2>2. Cardinality(S) = n
    BY <2>1, FS_CountingElements
  <2>3. QED
    BY <2>1, <2>2 DEF ExistsBijection
<1>3. f \in [1..Cardinality(S) -> S] /\ IsInjective(f)
  BY <1>2 DEF Bijection, Injection, Surjection, IsInjective
<1>4. SetToSeq(S) \in [1..Cardinality(S) -> S]
  BY <1>3 DEF SetToSeq
<1>5. QED
  BY <1>1, <1>4

\* A finite set of numbers that is not empty has a greatest one.
THEOREM GreatestOfFinite ==
  ASSUME NEW S, IsFiniteSet(S), S \subseteq Int, S # {}
  PROVE  Max(S) \in S /\ \A x \in S : x <= Max(S)
<1> DEFINE Topped == {n \in Nat : \A R \in SUBSET S : Cardinality(R) = n /\ R # {} =>
                        \E top \in R : \A x \in R : x <= top}
<1>1. 0 \in Topped
  <2>1. ASSUME NEW R \in SUBSET S, Cardinality(R) = 0
        PROVE  R = {}
    BY <2>1, FS_Subset, FS_EmptySet
  <2>2. QED
    BY <2>1
<1>2. ASSUME NEW n \in Nat, n \in Topped
      PROVE  n + 1 \in Topped
  <2>1. SUFFICES ASSUME NEW R \in SUBSET S, Cardinality(R) = n + 1, R # {}
                 PROVE  \E top \in R : \A x \in R : x <= top
    OBVIOUS
  <2>2. PICK y \in R : TRUE
    BY <2>1
  <2>3. IsFiniteSet(R)
    BY FS_Subset
  <2>4. Cardinality(R \ {y}) = n
    <3>1. Cardinality(R \ {y}) = Cardinality(R) - 1
      BY <2>2, <2>3, FS_RemoveElement
    <3>2. QED
      BY <2>1, <3>1
  <2>5. R \ {y} \in SUBSET S /\ \A x \in R : x \in Int
    OBVIOUS
  <2>6. CASE R \ {y} = {}
    <3>1. \A x \in R : x <= y
      BY <2>5, <2>6
    <3>2. QED
      BY <3>1
  <2>7. CASE R \ {y} # {}
    <3>1. PICK top \in R \ {y} : \A x \in R \ {y} : x <= top
      BY <1>2, <2>4, <2>5, <2>7
    <3>2. CASE y <= top
      BY <3>1, <3>2
    <3>3. CASE ~(y <= top)
      <4>1. \A x \in R : x <= y
        BY <2>5, <3>1, <3>3
      <4>2. QED
        BY <4>1
    <3>4. QED
      BY <3>2, <3>3
  <2>8. QED
    BY <2>6, <2>7
<1>3. Nat \subseteq Topped
  <2> HIDE DEF Topped
  <2>1. QED
    BY <1>1, <1>2, NaturalInduction
<1>4. Cardinality(S) \in Topped /\ S \in SUBSET S
  BY <1>3, FS_CardinalityType
<1>5. \E top \in S : \A x \in S : x <= top
  BY <1>4
<1>6. \A x \in S, y \in S : x <= y <=> y >= x
  OBVIOUS
<1>7. \E top \in S : \A x \in S : top >= x
  BY <1>5, <1>6
<1>8. Max(S) \in S /\ \A x \in S : Max(S) >= x
  BY <1>7 DEF Max
<1>9. QED
  BY <1>6, <1>8

-----------------------------------------------------------------------------
(***************************************************************************)
(* Folding a sequence from the left.                                       *)
(***************************************************************************)
\* A nonempty set of positions has a greatest one.
LEMMA GreatestPosition ==
  ASSUME NEW n \in Nat, NEW S \in SUBSET (1..n), S # {}
  PROVE  Max(S) \in S /\ \A j \in S : j <= Max(S)
<1> DEFINE Below == {k \in Nat : k <= n => (S \cap (1..k) # {} =>
                       \E i \in S \cap (1..k) : \A j \in S \cap (1..k) : j <= i)}
<1>1. 0 \in Below
  OBVIOUS
<1>2. ASSUME NEW k \in Nat, k \in Below
      PROVE  k + 1 \in Below
  <2>1. SUFFICES ASSUME k + 1 <= n, S \cap (1..(k + 1)) # {}
                 PROVE  \E i \in S \cap (1..(k + 1)) : \A j \in S \cap (1..(k + 1)) : j <= i
    OBVIOUS
  <2>2. CASE k + 1 \in S
    <3>1. k + 1 \in S \cap (1..(k + 1))
      BY <2>2
    <3>2. \A j \in S \cap (1..(k + 1)) : j <= k + 1
      OBVIOUS
    <3>3. QED
      BY <3>1, <3>2
  <2>3. CASE k + 1 \notin S
    <3>1. S \cap (1..(k + 1)) = S \cap (1..k)
      BY <2>3
    <3>2. QED
      BY <1>2, <2>1, <3>1
  <2>4. QED
    BY <2>2, <2>3
<1>3. n \in Below
  <2> HIDE DEF Below
  <2>1. QED
    BY <1>1, <1>2, NaturalInduction
<1>4. S \cap (1..n) = S
  OBVIOUS
<1>5. PICK i \in S : \A j \in S : j <= i
  BY <1>3, <1>4
<1>6. \A j \in S : i >= j
  BY <1>5
<1>7. Max(S) \in S /\ \A j \in S : Max(S) >= j
  BY <1>6 DEF Max
<1>8. QED
  BY <1>7

\* The fold and its sum, by names without an operator among their arguments.
Fold(base, s)   == FoldLeft(Op, base, s)
SumOver(w, S)   == FoldFunctionOnSet(Op, 0, w, S)

\* The operator takes elements of E to a value of type T, and leaves one.
Folds(T, E) == \A a \in T, x \in E : Op(a, x) \in T

\* The fold passes through one value per prefix of the sequence.
THEOREM FoldLeftPrefixes ==
  ASSUME NEW T, NEW base \in T, NEW E, NEW s \in Seq(E), Folds(T, E)
  PROVE  \E p \in [0..Len(s) -> T] :
           /\ p[0] = base
           /\ \A k \in 1..Len(s) : p[k] = Op(p[k - 1], s[k])
           /\ Fold(base, s) = p[Len(s)]
<1> USE DEF Folds
<1> DEFINE n == Len(s)
           D == SUBSET (1..n)
           Step(it, d) == IF d = {} THEN base ELSE Op(it[d \ {Max(d)}], s[Max(d)])
           rank == [d \in D |-> Cardinality(d)]
           G == [it \in [D -> T] |-> [d \in D |-> Step(it, d)]]
<1>1. n \in Nat /\ DOMAIN s = 1..n /\ \A i \in 1..n : s[i] \in E
  OBVIOUS
<1>a. \A d \in D : IsFiniteSet(d)
  <2>1. IsFiniteSet(1..n)
    BY <1>1, FS_Interval
  <2>2. QED
    BY <2>1, FS_Subset
<1>2. ASSUME NEW d \in D, d # {}
      PROVE  /\ Max(d) \in d /\ Max(d) \in 1..n /\ d \ {Max(d)} \in D
             /\ rank[d \ {Max(d)}] < rank[d]
  <2>1. Max(d) \in d
    BY <1>1, <1>2, GreatestPosition
  <2>2. IsFiniteSet(d)
    BY <1>a
  <2>3. Cardinality(d) \in Nat /\ Cardinality(d \ {Max(d)}) = Cardinality(d) - 1
    BY <2>1, <2>2, FS_RemoveElement, FS_CardinalityType
  <2>4. d \ {Max(d)} \in D /\ Max(d) \in 1..n
    BY <2>1
  <2>5. rank[d] = Cardinality(d) /\ rank[d \ {Max(d)}] = Cardinality(d \ {Max(d)})
    BY <2>4
  <2> HIDE DEF D, rank
  <2>6. QED
    BY <2>1, <2>3, <2>4, <2>5
<1>3. rank \in [D -> Nat]
  BY <1>a, FS_CardinalityType
<1>4. Unfolds(G, D, T)
  <2>1. ASSUME NEW it \in [D -> T], NEW d \in D
        PROVE  Step(it, d) \in T
    <3> HIDE DEF rank
    <3>1. CASE d = {}
      BY <3>1
    <3>2. CASE d # {}
      <4>1. it[d \ {Max(d)}] \in T /\ s[Max(d)] \in E
        BY <1>1, <1>2, <3>2
      <4>2. QED
        BY <3>2, <4>1
    <3>3. QED
      BY <3>1, <3>2
  <2> HIDE DEF Step, D
  <2>2. QED
    BY <2>1 DEF Unfolds
<1>5. RestsOnLower(G, D, T, rank)
  <2>1. SUFFICES ASSUME NEW g \in [D -> T], NEW h \in [D -> T], NEW d \in D,
                        \A e \in D : rank[e] < rank[d] => g[e] = h[e]
                 PROVE  Step(g, d) = Step(h, d)
    <3> HIDE DEF Step, D, rank
    <3>1. QED
      BY <2>1 DEF RestsOnLower
  <2> HIDE DEF rank
  <2>2. CASE d = {}
    BY <2>2
  <2>3. CASE d # {}
    BY <1>2, <2>1, <2>3
  <2>4. QED
    BY <2>2, <2>3
<1>6. \E it \in [D -> T] : it = G[it]
  <2> HIDE DEF n, D, rank, Step, G
  <2>1. QED
    BY <1>3, <1>4, <1>5, RankRecursion
<1> DEFINE iter == CHOOSE it : it = [d \in D |-> Step(it, d)]
<1>7. iter = [d \in D |-> Step(iter, d)]
  <2>1. \E it : it = [d \in D |-> Step(it, d)]
    <3> HIDE DEF D, rank, Step
    <3>1. QED
      BY <1>6
  <2> HIDE DEF D, rank, Step, G
  <2>2. QED
    BY <2>1
<1>8. Fold(base, s) = iter[1..n]
  BY <1>1 DEF Fold, FoldLeft, MapThenFoldSet
<1> HIDE DEF iter
<1>9. iter[1..0] = base
  <2>1. 1..0 = {} /\ {} \in D
    OBVIOUS
  <2>2. iter[{}] = Step(iter, {})
    <3> HIDE DEF Step, D
    <3>1. QED
      BY <1>7, <2>1
  <2>3. QED
    BY <2>1, <2>2
<1>10. ASSUME NEW k \in 1..n
       PROVE  iter[1..k] = Op(iter[1..(k - 1)], s[k])
  <2>1. 1..k \in D /\ 1..k # {}
    BY <1>1
  <2>2. Max(1..k) = k
    <3>1. k \in Nat /\ k \in 1..k
      BY <1>1
    <3>2. Max(1..k) \in 1..k /\ \A j \in 1..k : j <= Max(1..k)
      BY <3>1, GreatestPosition
    <3>3. QED
      BY <3>1, <3>2
  <2>3. (1..k) \ {k} = 1..(k - 1)
    BY <1>1
  <2>4. iter[1..k] = Step(iter, 1..k)
    <3> HIDE DEF Step, D
    <3>1. QED
      BY <1>7, <2>1
  <2>5. QED
    BY <2>1, <2>2, <2>3, <2>4
<1>11. ASSUME NEW k \in 0..n
       PROVE  iter[1..k] \in T
  <2> DEFINE Typed == {j \in Nat : j <= n => iter[1..j] \in T}
  <2>1. 0 \in Typed
    BY <1>9
  <2>2. ASSUME NEW j \in Nat, j \in Typed
        PROVE  j + 1 \in Typed
    <3>1. SUFFICES ASSUME j + 1 <= n
                   PROVE  iter[1..(j + 1)] \in T
      OBVIOUS
    <3>2. j + 1 \in 1..n /\ (j + 1) - 1 = j
      BY <1>1, <3>1
    <3>3. iter[1..(j + 1)] = Op(iter[1..j], s[j + 1])
      BY <1>10, <3>2
    <3>4. QED
      BY <1>1, <2>2, <3>1, <3>2, <3>3
  <2>3. k \in Typed
    <3> HIDE DEF Typed
    <3>1. QED
      BY <1>1, <2>1, <2>2, NaturalInduction
  <2>4. QED
    BY <1>1, <2>3
<1> DEFINE p == [k \in 0..n |-> iter[1..k]]
<1>12. p \in [0..n -> T]
  BY <1>11
<1>13. p[0] = base /\ p[n] = Fold(base, s)
  BY <1>1, <1>8, <1>9
<1>14. \A k \in 1..n : p[k] = Op(p[k - 1], s[k])
  <2>1. \A k \in 1..n : k \in 0..n /\ k - 1 \in 0..n
    BY <1>1
  <2>2. QED
    BY <1>10, <2>1
<1>15. QED
  <2> HIDE DEF p
  <2>1. QED
    BY <1>12, <1>13, <1>14

\* Folding nothing leaves the base, and the result has the type of the base.
THEOREM FoldLeftType ==
  ASSUME NEW T, NEW base \in T, NEW E, NEW s \in Seq(E), Folds(T, E)
  PROVE  /\ Fold(base, s) \in T
         /\ s = <<>> => Fold(base, s) = base
<1>1. PICK p \in [0..Len(s) -> T] :
        /\ p[0] = base
        /\ Fold(base, s) = p[Len(s)]
  BY FoldLeftPrefixes
<1>2. Len(s) \in 0..Len(s) /\ (s = <<>> => Len(s) = 0)
  OBVIOUS
<1>3. QED
  BY <1>1, <1>2

\* I[k] holds of what the fold has come to after k elements.
Invariant(I, s) ==
  \A k \in 1..Len(s) : \A a \in I[k - 1] : Op(a, s[k]) \in I[k]

\* What holds of the start and is kept by every element holds of the fold.
THEOREM FoldLeftInvariant ==
  ASSUME NEW T, NEW base \in T, NEW E, NEW s \in Seq(E), Folds(T, E),
         NEW I, base \in I[0], Invariant(I, s)
  PROVE  Fold(base, s) \in I[Len(s)]
<1>1. PICK p \in [0..Len(s) -> T] :
        /\ p[0] = base
        /\ \A k \in 1..Len(s) : p[k] = Op(p[k - 1], s[k])
        /\ Fold(base, s) = p[Len(s)]
  BY FoldLeftPrefixes
<1> DEFINE Reached == {k \in Nat : k <= Len(s) => p[k] \in I[k]}
<1>2. 0 \in Reached
  BY <1>1
<1>3. ASSUME NEW n \in Nat, n \in Reached
      PROVE  n + 1 \in Reached
  <2>1. SUFFICES ASSUME n + 1 <= Len(s)
                 PROVE  p[n + 1] \in I[n + 1]
    OBVIOUS
  <2>2. n + 1 \in 1..Len(s) /\ (n + 1) - 1 = n /\ p[n] \in I[n]
    BY <1>3, <2>1
  <2>3. Op(p[n], s[n + 1]) \in I[n + 1] /\ p[n + 1] = Op(p[n], s[n + 1])
    BY <1>1, <2>2 DEF Invariant
  <2>4. QED
    BY <2>3
<1>4. Nat \subseteq Reached
  <2> HIDE DEF Reached
  <2>1. QED
    BY <1>2, <1>3, NaturalInduction
<1>5. Len(s) \in Reached /\ Len(s) \in Nat
  BY <1>4
<1>6. QED
  BY <1>1, <1>5

\* Two sequences take the fold through the same values.
SameSteps(T, s, t) ==
  Len(s) = Len(t) /\ \A k \in 1..Len(s) : \A a \in T : Op(a, s[k]) = Op(a, t[k])

\* They then have the same fold.
THEOREM FoldLeftAgrees ==
  ASSUME NEW T, NEW base \in T, NEW E, NEW s \in Seq(E), NEW t \in Seq(E),
         Folds(T, E), SameSteps(T, s, t)
  PROVE  Fold(base, s) = Fold(base, t)
<1> DEFINE n == Len(s)
<1>1. PICK p \in [0..n -> T] :
        /\ p[0] = base
        /\ \A k \in 1..n : p[k] = Op(p[k - 1], s[k])
        /\ Fold(base, s) = p[n]
  BY FoldLeftPrefixes
<1>2. PICK q \in [0..Len(t) -> T] :
        /\ q[0] = base
        /\ \A k \in 1..Len(t) : q[k] = Op(q[k - 1], t[k])
        /\ Fold(base, t) = q[Len(t)]
  <2> HIDE DEF n
  <2>1. QED
    BY FoldLeftPrefixes
<1>3. n \in Nat /\ Len(t) = n /\ \A k \in 1..n : \A a \in T : Op(a, s[k]) = Op(a, t[k])
  BY DEF SameSteps
<1> HIDE DEF n
<1> DEFINE Same == {k \in Nat : k <= n => p[k] = q[k]}
<1>4. 0 \in Same
  BY <1>1, <1>2
<1>5. ASSUME NEW k \in Nat, k \in Same
      PROVE  k + 1 \in Same
  <2>1. SUFFICES ASSUME k + 1 <= n
                 PROVE  p[k + 1] = q[k + 1]
    OBVIOUS
  <2>2. k + 1 \in 1..n /\ (k + 1) - 1 = k /\ k <= n /\ k \in 0..n
    BY <1>3, <2>1
  <2>3. p[k + 1] = Op(p[k], s[k + 1]) /\ q[k + 1] = Op(q[k], t[k + 1])
    BY <1>1, <1>2, <1>3, <2>2
  <2>4. p[k] = q[k] /\ p[k] \in T
    BY <1>1, <1>5, <2>2
  <2>5. QED
    BY <1>3, <2>2, <2>3, <2>4
<1>6. n \in Same
  <2> HIDE DEF Same
  <2>1. QED
    BY <1>3, <1>4, <1>5, NaturalInduction
<1>7. QED
  BY <1>1, <1>2, <1>3, <1>6

\* One element more is one step more.
THEOREM FoldLeftAppend ==
  ASSUME NEW T, NEW base \in T, NEW E, NEW s \in Seq(E), NEW x \in E,
         Folds(T, E)
  PROVE  Fold(base, Append(s, x)) = Op(Fold(base, s), x)
<1> DEFINE n == Len(s)
           t == Append(s, x)
<1>1. n \in Nat /\ t \in Seq(E) /\ Len(t) = n + 1 /\ t[n + 1] = x
  OBVIOUS
<1>2. \A k \in 1..n : t[k] = s[k]
  OBVIOUS
<1>3. PICK p \in [0..n -> T] :
        /\ p[0] = base
        /\ \A k \in 1..n : p[k] = Op(p[k - 1], s[k])
        /\ Fold(base, s) = p[n]
  BY FoldLeftPrefixes
<1>4. PICK q \in [0..Len(t) -> T] :
        /\ q[0] = base
        /\ \A k \in 1..Len(t) : q[k] = Op(q[k - 1], t[k])
        /\ Fold(base, t) = q[Len(t)]
  <2> HIDE DEF t
  <2>1. QED
    BY <1>1, FoldLeftPrefixes
<1> HIDE DEF n, t
<1> DEFINE Same == {k \in Nat : k <= n => p[k] = q[k]}
<1>5. 0 \in Same
  BY <1>3, <1>4
<1>6. ASSUME NEW k \in Nat, k \in Same
      PROVE  k + 1 \in Same
  <2>1. SUFFICES ASSUME k + 1 <= n
                 PROVE  p[k + 1] = q[k + 1]
    OBVIOUS
  <2>2. k + 1 \in 1..n /\ k + 1 \in 1..Len(t) /\ (k + 1) - 1 = k /\ k <= n
    BY <1>1, <2>1
  <2>3. p[k + 1] = Op(p[k], s[k + 1]) /\ q[k + 1] = Op(q[k], t[k + 1])
    BY <1>3, <1>4, <2>2
  <2>4. t[k + 1] = s[k + 1] /\ p[k] = q[k]
    BY <1>2, <1>6, <2>2
  <2>5. QED
    BY <2>3, <2>4
<1>7. n \in Same
  <2> HIDE DEF Same
  <2>1. QED
    BY <1>1, <1>5, <1>6, NaturalInduction
<1>8. n + 1 \in 1..Len(t) /\ (n + 1) - 1 = n
  BY <1>1
<1>9. Fold(base, t) = Op(q[n], x)
  BY <1>1, <1>4, <1>8
<1>10. QED
  BY <1>1, <1>3, <1>7, <1>9 DEF t

-----------------------------------------------------------------------------
(***************************************************************************)
(* Sums: folding a function to numbers with an operator that adds.         *)
(***************************************************************************)
Adds == \A x, y \in Nat : Op(x, y) = x + y

\* The sums over the parts of a set, each from a part with one element less.
Accumulates(it, w, S) ==
  /\ it \in [SUBSET S -> Nat]
  /\ \A d \in SUBSET S :
       it[d] = IF d = {} THEN 0
               ELSE w[CHOOSE x \in d : TRUE] + it[d \ {CHOOSE x \in d : TRUE}]

\* What one part less one element is.
LEMMA PartWithout ==
  ASSUME NEW S, IsFiniteSet(S), NEW d \in SUBSET S, NEW i \in d
  PROVE  /\ d \ {i} \in SUBSET S /\ IsFiniteSet(d)
         /\ Cardinality(d) \in Nat
         /\ Cardinality(d \ {i}) = Cardinality(d) - 1
         /\ Cardinality(d) > 0
<1>1. IsFiniteSet(d)
  BY FS_Subset
<1>2. Cardinality(d \ {i}) = Cardinality(d) - 1
  BY <1>1, FS_RemoveElement
<1>3. Cardinality(d) \in Nat /\ Cardinality(d \ {i}) \in Nat
  <2>1. IsFiniteSet(d \ {i})
    BY <1>1, FS_Subset
  <2>2. QED
    BY <1>1, <2>1, FS_CardinalityType
<1>4. QED
  BY <1>1, <1>2, <1>3

\* Two such functions agree on the parts both are about.
LEMMA AccumulationsAgree ==
  ASSUME NEW S, IsFiniteSet(S), NEW R \in SUBSET S, NEW w, NEW f, NEW g,
         Accumulates(f, w, S), Accumulates(g, w, R)
  PROVE  \A d \in SUBSET R : f[d] = g[d]
<1> DEFINE Same == {n \in Nat : \A d \in SUBSET R : Cardinality(d) <= n => f[d] = g[d]}
<1>1. IsFiniteSet(R)
  BY FS_Subset
<1>2. ASSUME NEW n \in Nat,
             \A d \in SUBSET R : Cardinality(d) < n => f[d] = g[d]
      PROVE  \A d \in SUBSET R : Cardinality(d) <= n => f[d] = g[d]
  <2>1. SUFFICES ASSUME NEW d \in SUBSET R, Cardinality(d) <= n
                 PROVE  f[d] = g[d]
    OBVIOUS
  <2>2. CASE d = {}
    BY <2>2 DEF Accumulates
  <2>3. CASE d # {}
    <3> DEFINE c == CHOOSE x \in d : TRUE
    <3>1. c \in d
      BY <2>3
    <3>2. f[d] = w[c] + f[d \ {c}] /\ g[d] = w[c] + g[d \ {c}]
      <4>1. d \in SUBSET S
        OBVIOUS
      <4>2. QED
        BY <2>3, <4>1 DEF Accumulates
    <3> HIDE DEF c
    <3>3. d \ {c} \in SUBSET R /\ Cardinality(d \ {c}) < n
      <4>1. /\ d \ {c} \in SUBSET R /\ Cardinality(d) \in Nat
            /\ Cardinality(d \ {c}) = Cardinality(d) - 1
        BY <1>1, <3>1, PartWithout
      <4>2. QED
        BY <2>1, <4>1
    <3>4. QED
      BY <1>2, <3>2, <3>3
  <2>4. QED
    BY <2>2, <2>3
<1>3. 0 \in Same
  <2>1. \A d \in SUBSET R : ~(Cardinality(d) < 0)
    BY <1>1, FS_Subset, FS_CardinalityType
  <2>2. QED
    BY <1>2, <2>1
<1>4. ASSUME NEW n \in Nat, n \in Same
      PROVE  n + 1 \in Same
  <2>1. \A d \in SUBSET R : Cardinality(d) < n + 1 => f[d] = g[d]
    <3>1. \A d \in SUBSET R : Cardinality(d) \in Nat
      BY <1>1, FS_Subset, FS_CardinalityType
    <3>2. QED
      BY <1>4, <3>1
  <2>2. n + 1 \in Nat
    OBVIOUS
  <2>3. QED
    BY <1>2, <2>1, <2>2
<1>5. Nat \subseteq Same
  <2> HIDE DEF Same
  <2>1. QED
    BY <1>3, <1>4, NaturalInduction
<1>6. \A d \in SUBSET R : Cardinality(d) \in Nat
  BY <1>1, FS_Subset, FS_CardinalityType
<1>7. QED
  BY <1>5, <1>6

\* The sum over a set is what such a function says of it.
LEMMA SumAccumulates ==
  ASSUME Adds, NEW S, IsFiniteSet(S), NEW w, \A i \in S : w[i] \in Nat
  PROVE  \E it : Accumulates(it, w, S) /\ SumOver(w, S) = it[S]
<1> DEFINE D == SUBSET S
           c(d) == CHOOSE x \in d : TRUE
           Step(it, d) == IF d = {} THEN 0 ELSE Op(w[c(d)], it[d \ {c(d)}])
           rank == [d \in D |-> Cardinality(d)]
           G == [it \in [D -> Nat] |-> [d \in D |-> Step(it, d)]]
<1>1. ASSUME NEW d \in D, d # {}
      PROVE  /\ c(d) \in d /\ d \ {c(d)} \in D
             /\ rank[d \ {c(d)}] < rank[d]
  <2>1. c(d) \in d
    BY <1>1
  <2> HIDE DEF c
  <2>2. /\ d \ {c(d)} \in SUBSET S
        /\ Cardinality(d) \in Nat
        /\ Cardinality(d \ {c(d)}) = Cardinality(d) - 1
    BY <2>1, PartWithout
  <2>3. rank[d \ {c(d)}] = Cardinality(d \ {c(d)}) /\ rank[d] = Cardinality(d)
    BY <2>2
  <2> HIDE DEF rank
  <2>4. QED
    BY <2>1, <2>2, <2>3
<1>2. rank \in [D -> Nat]
  BY FS_Subset, FS_CardinalityType
<1> HIDE DEF rank, c
<1>3. ASSUME NEW it \in [D -> Nat], NEW d \in D
      PROVE  /\ Step(it, d) \in Nat
             /\ d # {} => Step(it, d) = w[c(d)] + it[d \ {c(d)}]
  <2>1. CASE d = {}
    BY <2>1
  <2>2. CASE d # {}
    <3>1. w[c(d)] \in Nat /\ it[d \ {c(d)}] \in Nat
      BY <1>1, <2>2
    <3>2. QED
      BY <2>2, <3>1 DEF Adds
  <2>3. QED
    BY <2>1, <2>2
<1>4. Unfolds(G, D, Nat)
  <2> HIDE DEF Step, D
  <2>1. QED
    BY <1>3 DEF Unfolds
<1>5. RestsOnLower(G, D, Nat, rank)
  <2>1. SUFFICES ASSUME NEW g \in [D -> Nat], NEW h \in [D -> Nat], NEW d \in D,
                        \A e \in D : rank[e] < rank[d] => g[e] = h[e]
                 PROVE  Step(g, d) = Step(h, d)
    <3> HIDE DEF Step, D
    <3>1. QED
      BY <2>1 DEF RestsOnLower
  <2>2. CASE d = {}
    BY <2>2
  <2>3. CASE d # {}
    BY <1>1, <2>1, <2>3
  <2>4. QED
    BY <2>2, <2>3
<1>6. PICK a \in [D -> Nat] : a = G[a]
  <2> HIDE DEF D, G
  <2>1. QED
    BY <1>2, <1>4, <1>5, RankRecursion
<1> DEFINE iter == CHOOSE it : it = [d \in D |-> Step(it, d)]
<1>7. iter = [d \in D |-> Step(iter, d)]
  <2>1. a = [d \in D |-> Step(a, d)]
    <3> HIDE DEF D, Step
    <3>1. QED
      BY <1>6
  <2> HIDE DEF D, Step
  <2>2. QED
    BY <2>1
<1>8. SumOver(w, S) = iter[S]
  BY DEF SumOver, FoldFunctionOnSet, MapThenFoldSet, c
<1> HIDE DEF iter
<1>9. iter \in [D -> Nat]
  <2> DEFINE Typed == {n \in Nat : \A d \in D : rank[d] <= n => iter[d] \in Nat}
  <2>1. \A d \in D : iter[d] = Step(iter, d)
    <3> HIDE DEF Step, D
    <3>1. QED
      BY <1>7
  <2>2. ASSUME NEW d \in D, \A e \in D : rank[e] < rank[d] => iter[e] \in Nat
        PROVE  iter[d] \in Nat
    <3>0. iter[d] = Step(iter, d)
      BY <2>1
    <3> HIDE DEF D
    <3>1. CASE d = {}
      BY <3>0, <3>1
    <3>2. CASE d # {}
      <4>1. iter[d \ {c(d)}] \in Nat /\ w[c(d)] \in Nat
        BY <1>1, <2>2, <3>2 DEF D
      <4>2. iter[d] = Op(w[c(d)], iter[d \ {c(d)}])
        BY <3>0, <3>2
      <4>3. QED
        BY <4>1, <4>2 DEF Adds
    <3>3. QED
      BY <3>1, <3>2
  <2> HIDE DEF D, Step
  <2>3. 0 \in Typed
    BY <1>2, <2>2
  <2>4. ASSUME NEW n \in Nat, n \in Typed
        PROVE  n + 1 \in Typed
    BY <1>2, <2>2, <2>4
  <2>5. Nat \subseteq Typed
    <3> HIDE DEF Typed
    <3>1. QED
      BY <2>3, <2>4, NaturalInduction
  <2>6. \A d \in D : iter[d] \in Nat
    BY <1>2, <2>5
  <2>7. DOMAIN iter = D
    BY <1>7
  <2>8. iter = [d \in D |-> iter[d]]
    BY <1>7
  <2>9. QED
    BY <2>6, <2>8
<1>10. \A d \in D : iter[d] = IF d = {} THEN 0 ELSE w[c(d)] + iter[d \ {c(d)}]
  <2>1. \A d \in D : iter[d] = Step(iter, d)
    <3> HIDE DEF Step, D
    <3>1. QED
      BY <1>7
  <2>2. QED
    BY <1>3, <1>9, <2>1
<1>11. Accumulates(iter, w, S)
  BY <1>9, <1>10 DEF Accumulates, c
<1>12. QED
  BY <1>8, <1>11

\* The order of the elements does not matter to the functions.
LEMMA AnyElementLast ==
  ASSUME NEW S, IsFiniteSet(S), NEW w, \A i \in S : w[i] \in Nat,
         NEW it, Accumulates(it, w, S)
  PROVE  \A d \in SUBSET S : \A i \in d : it[d] = w[i] + it[d \ {i}]
<1> DEFINE Free == {n \in Nat : \A d \in SUBSET S : \A i \in d :
                      Cardinality(d) <= n => it[d] = w[i] + it[d \ {i}]}
<1>0. \A d \in SUBSET S : \A i \in d : Cardinality(d) \in Nat /\ Cardinality(d) > 0
  BY PartWithout
<1>1. 0 \in Free
  BY <1>0
<1>2. ASSUME NEW n \in Nat, n \in Free
      PROVE  n + 1 \in Free
  <2>1. SUFFICES ASSUME NEW d \in SUBSET S, NEW i \in d, Cardinality(d) <= n + 1
                 PROVE  it[d] = w[i] + it[d \ {i}]
    OBVIOUS
  <2> DEFINE c == CHOOSE x \in d : TRUE
  <2>2. c \in d
    OBVIOUS
  <2>3. it[d] = w[c] + it[d \ {c}]
    BY DEF Accumulates
  <2>4. CASE i = c
    BY <2>3, <2>4
  <2>5. CASE i # c
    <3> HIDE DEF c
    <3>1. /\ d \ {c} \in SUBSET S /\ i \in d \ {c} /\ Cardinality(d \ {c}) <= n
          /\ d \ {i} \in SUBSET S /\ c \in d \ {i} /\ Cardinality(d \ {i}) <= n
      BY <2>1, <2>2, <2>5, PartWithout
    <3>2. /\ it[d \ {c}] = w[i] + it[(d \ {c}) \ {i}]
          /\ it[d \ {i}] = w[c] + it[(d \ {i}) \ {c}]
      BY <1>2, <3>1
    <3>3. (d \ {c}) \ {i} = (d \ {i}) \ {c} /\ (d \ {c}) \ {i} \in SUBSET S
      OBVIOUS
    <3>4. it[(d \ {c}) \ {i}] \in Nat
      BY <3>3 DEF Accumulates
    <3>5. w[i] \in Nat /\ w[c] \in Nat
      BY <2>2
    <3> HIDE DEF Free
    <3>6. it[d] = w[c] + (w[i] + it[(d \ {c}) \ {i}])
      BY <2>3, <3>2
    <3>7. w[i] + it[d \ {i}] = w[i] + (w[c] + it[(d \ {c}) \ {i}])
      BY <3>2, <3>3
    <3>8. QED
      BY <3>4, <3>5, <3>6, <3>7
  <2>6. QED
    BY <2>4, <2>5
<1>3. Nat \subseteq Free
  <2> HIDE DEF Free
  <2>1. QED
    BY <1>1, <1>2, NaturalInduction
<1>4. ASSUME NEW d \in SUBSET S, NEW i \in d
      PROVE  it[d] = w[i] + it[d \ {i}]
  <2>1. Cardinality(d) \in Free
    BY <1>0, <1>3
  <2>2. QED
    BY <2>1, <1>0
<1>5. QED
  BY <1>4

\* A sum is the sum of the others and of any element.
THEOREM SumWithout ==
  ASSUME Adds, NEW S, IsFiniteSet(S), NEW w, \A i \in S : w[i] \in Nat
  PROVE  /\ SumOver(w, {}) = 0
         /\ SumOver(w, S) \in Nat
         /\ \A i \in S : SumOver(w, S) = w[i] + SumOver(w, S \ {i})
<1>1. PICK it : Accumulates(it, w, S) /\ SumOver(w, S) = it[S]
  BY SumAccumulates
<1>2. ASSUME NEW R \in SUBSET S
      PROVE  SumOver(w, R) = it[R]
  <2>1. IsFiniteSet(R) /\ \A i \in R : w[i] \in Nat
    BY FS_Subset
  <2>2. PICK jt : Accumulates(jt, w, R) /\ SumOver(w, R) = jt[R]
    BY <2>1, SumAccumulates
  <2>3. it[R] = jt[R]
    BY <1>1, <2>2, AccumulationsAgree
  <2>4. QED
    BY <2>2, <2>3
<1>3. it[{}] = 0 /\ it[S] \in Nat
  BY <1>1 DEF Accumulates
<1>4. \A i \in S : it[S] = w[i] + it[S \ {i}]
  BY <1>1, AnyElementLast
<1>5. QED
  BY <1>2, <1>3, <1>4

\* A sum is no less than that over a part, nor than any of its elements.
THEOREM SumMonotone ==
  ASSUME Adds, NEW S, IsFiniteSet(S), NEW w, \A i \in S : w[i] \in Nat
  PROVE  /\ \A R \in SUBSET S : SumOver(w, R) <= SumOver(w, S)
         /\ \A i \in S : w[i] <= SumOver(w, S)
<1> DEFINE Grown == {n \in Nat : \A Q \in SUBSET S : \A R \in SUBSET Q :
                       Cardinality(Q \ R) <= n => SumOver(w, R) <= SumOver(w, Q)}
<1>1. ASSUME NEW Q \in SUBSET S
      PROVE  /\ IsFiniteSet(Q) /\ SumOver(w, Q) \in Nat
             /\ \A i \in Q : SumOver(w, Q) = w[i] + SumOver(w, Q \ {i})
  <2>1. IsFiniteSet(Q) /\ \A i \in Q : w[i] \in Nat
    BY FS_Subset
  <2>2. QED
    BY <2>1, SumWithout
<1>2. ASSUME NEW Q \in SUBSET S, NEW R \in SUBSET Q
      PROVE  /\ Cardinality(Q \ R) \in Nat
             /\ \A i \in Q \ R : /\ R \in SUBSET (Q \ {i})
                                 /\ Cardinality((Q \ {i}) \ R) = Cardinality(Q \ R) - 1
             /\ Cardinality(Q \ R) = 0 => Q = R
  <2>1. IsFiniteSet(Q \ R)
    BY <1>1, FS_Subset
  <2>2. \A i \in Q \ R : (Q \ {i}) \ R = (Q \ R) \ {i}
    OBVIOUS
  <2>3. \A i \in Q \ R : Cardinality((Q \ R) \ {i}) = Cardinality(Q \ R) - 1
    BY <2>1, FS_RemoveElement
  <2>4. Cardinality(Q \ R) \in Nat /\ (Cardinality(Q \ R) = 0 => Q \ R = {})
    BY <2>1, FS_CardinalityType, FS_EmptySet
  <2>5. QED
    BY <2>2, <2>3, <2>4
<1>3. 0 \in Grown
  BY <1>1, <1>2
<1>4. ASSUME NEW n \in Nat, n \in Grown
      PROVE  n + 1 \in Grown
  <2>1. SUFFICES ASSUME NEW Q \in SUBSET S, NEW R \in SUBSET Q,
                        Cardinality(Q \ R) <= n + 1
                 PROVE  SumOver(w, R) <= SumOver(w, Q)
    OBVIOUS
  <2>2. CASE Q = R
    BY <1>1, <2>2
  <2>3. CASE Q # R
    <3>1. PICK i \in Q \ R : TRUE
      BY <2>3
    <3>2. R \in SUBSET (Q \ {i}) /\ Cardinality((Q \ {i}) \ R) <= n
      BY <1>2, <2>1, <3>1
    <3>3. SumOver(w, R) <= SumOver(w, Q \ {i})
      BY <1>4, <3>2
    <3>4. SumOver(w, Q) = w[i] + SumOver(w, Q \ {i})
      BY <1>1, <3>1
    <3>5. SumOver(w, R) \in Nat /\ SumOver(w, Q \ {i}) \in Nat /\ w[i] \in Nat
      BY <1>1, <3>1
    <3>6. QED
      BY <3>3, <3>4, <3>5
  <2>4. QED
    BY <2>2, <2>3
<1>5. Nat \subseteq Grown
  <2> HIDE DEF Grown
  <2>1. QED
    BY <1>3, <1>4, NaturalInduction
<1>6. ASSUME NEW R \in SUBSET S
      PROVE  SumOver(w, R) <= SumOver(w, S)
  <2>1. S \in SUBSET S /\ Cardinality(S \ R) \in Nat
    BY <1>2
  <2>2. Cardinality(S \ R) \in Grown
    BY <1>5, <2>1
  <2>3. QED
    BY <2>1, <2>2
<1>7. ASSUME NEW i \in S
      PROVE  w[i] <= SumOver(w, S)
  <2>1. SumOver(w, S) = w[i] + SumOver(w, S \ {i}) /\ SumOver(w, S \ {i}) \in Nat
    BY <1>1
  <2>2. QED
    BY <2>1
<1>8. QED
  BY <1>6, <1>7
=============================================================================
