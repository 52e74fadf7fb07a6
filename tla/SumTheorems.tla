------------------------------- MODULE SumTheorems -------------------------------
(***************************************************************************)
(* What MapThenFoldSet computes when it adds up integers over a finite set: *)
(* the sum does not depend on the order in which elements are chosen.       *)
(* Induction over a finite set is that of a smallest counterexample.        *)
(***************************************************************************)
EXTENDS Integers, Folds, FiniteSetTheorems, TLAPS

Pick(s) == CHOOSE x \in s : TRUE

(* The sum of the w[x], x in S.                                             *)
SumOver(w, S) == MapThenFoldSet(+, 0, LAMBDA x : w[x], LAMBDA s : CHOOSE x \in s : TRUE, S)

(* it is the function by which MapThenFoldSet is defined on the subsets of S. *)
Sums(w, S, it) ==
  \A s \in SUBSET S : it[s] = IF s = {} THEN 0 ELSE w[Pick(s)] + it[s \ {Pick(s)}]

IntSums(w, S, it) == it \in [SUBSET S -> Int] /\ Sums(w, S, it)

(* Among sets of subsets of a finite set, one has no member strictly inside.  *)
LEMMA SmallestSubset ==
  ASSUME NEW S, NEW F \in SUBSET SUBSET S, IsFiniteSet(S), F # {}
  PROVE  \E T \in F : \A U \in F : U \subseteq T => U = T
<1>1. IsWellFoundedOn(StrictSubsetOrdering(S), FiniteSubsetsOf(S))
  BY FS_StrictSubsetOrderingWellFounded
<1>2. F \subseteq FiniteSubsetsOf(S)
  BY FS_Subset DEF FiniteSubsetsOf
<1>3. \E T \in F : \A U \in F : <<U, T>> \notin StrictSubsetOrdering(S)
  BY <1>1, <1>2, WFMin
<1> QED BY <1>3 DEF StrictSubsetOrdering

LEMMA PickInside == ASSUME NEW s, s # {} PROVE Pick(s) \in s
BY DEF Pick

(* Two such functions agree where both are defined.                           *)
LEMMA SumsAgree ==
  ASSUME NEW w, NEW S, NEW it, NEW R, NEW jt, Sums(w, S, it), Sums(w, R, jt),
         IsFiniteSet(S), NEW T \in SUBSET (S \cap R)
  PROVE  it[T] = jt[T]
<1> DEFINE F == {U \in SUBSET (S \cap R) : it[U] # jt[U]}
<1>1. SUFFICES ASSUME F # {} PROVE FALSE
  OBVIOUS
<1>2. F \in SUBSET SUBSET (S \cap R) /\ IsFiniteSet(S \cap R)
  BY FS_Intersection
<1>3. PICK U \in F : \A V \in F : V \subseteq U => V = U
  <2> HIDE DEF F
  <2> QED BY <1>1, <1>2, SmallestSubset
<1>4. U # {}
  BY <1>3 DEF Sums
<1>5. Pick(U) \in U /\ U \ {Pick(U)} # U
  BY <1>4, PickInside
<1>6. U \ {Pick(U)} \notin F
  BY <1>3, <1>5
<1>7. it[U \ {Pick(U)}] = jt[U \ {Pick(U)}]
  BY <1>3, <1>6
<1> QED BY <1>3, <1>4, <1>7 DEF Sums

(* There is one, by induction on the size of the subsets.                     *)
LEMMA SumsExist ==
  ASSUME NEW S, IsFiniteSet(S), NEW w, \A x \in S : w[x] \in Int
  PROVE  \E it : IntSums(w, S, it)
<1> DEFINE UpTo(n, it) ==
             \A s \in SUBSET S : Cardinality(s) <= n =>
               it[s] = IF s = {} THEN 0 ELSE w[Pick(s)] + it[s \ {Pick(s)}]
           Fails == {n \in Nat : ~ \E it \in [SUBSET S -> Int] : UpTo(n, it)}
           R == OpToRel(<, Nat)
<1>0. \A s \in SUBSET S : /\ IsFiniteSet(s) /\ Cardinality(s) \in Nat
                          /\ Cardinality(s) = 0 <=> s = {}
                          /\ Cardinality(s) <= Cardinality(S)
  BY FS_Subset, FS_CardinalityType, FS_EmptySet
<1>1. ASSUME Fails # {} PROVE FALSE
  <2>1. IsWellFoundedOn(R, Nat)
    BY NatLessThanWellFounded
  <2>2. \A x, y \in Nat : x < y => <<x, y>> \in R
    BY DEF OpToRel
  <2>3. PICK n \in Fails : \A m \in Fails : <<m, n>> \notin R
    <3> HIDE DEF R
    <3>1. Fails \subseteq Nat
      OBVIOUS
    <3> HIDE DEF Fails
    <3> QED BY <1>1, <2>1, <3>1, WFMin
  <2> HIDE DEF R
  <2>4. n # 0
    <3> DEFINE zero == [s \in SUBSET S |-> 0]
    <3>1. UpTo(0, zero) /\ zero \in [SUBSET S -> Int]
      BY <1>0
    <3>2. 0 \notin Fails
      <4> HIDE DEF zero, UpTo
      <4> QED BY <3>1
    <3> QED BY <2>3, <3>2
  <2>5. n \in Nat /\ n - 1 \in Nat /\ n - 1 < n
    BY <2>3, <2>4
  <2>6. n - 1 \notin Fails
    BY <2>2, <2>3, <2>5
  <2>7. PICK it \in [SUBSET S -> Int] : UpTo(n - 1, it)
    BY <2>5, <2>6
  <2> DEFINE jt == [s \in SUBSET S |->
                      IF Cardinality(s) <= n - 1 THEN it[s]
                      ELSE w[Pick(s)] + it[s \ {Pick(s)}]]
  <2>8. ASSUME NEW s \in SUBSET S, s # {}
        PROVE  /\ Pick(s) \in s /\ s \ {Pick(s)} \in SUBSET S
               /\ Cardinality(s \ {Pick(s)}) = Cardinality(s) - 1
    BY <1>0, <2>8, PickInside, FS_RemoveElement
  <2>9. jt \in [SUBSET S -> Int]
    <3> SUFFICES ASSUME NEW s \in SUBSET S
                 PROVE  jt[s] \in Int
      OBVIOUS
    <3>1. CASE Cardinality(s) <= n - 1
      BY <3>1
    <3>2. CASE ~(Cardinality(s) <= n - 1)
      <4>1. s # {}
        BY <1>0, <2>5, <3>2
      <4>2. w[Pick(s)] \in Int /\ it[s \ {Pick(s)}] \in Int
        BY <2>8, <4>1
      <4> QED BY <3>2, <4>2
    <3> QED BY <3>1, <3>2
  <2>10. UpTo(n, jt)
    <3> SUFFICES ASSUME NEW s \in SUBSET S, Cardinality(s) <= n
                 PROVE  jt[s] = IF s = {} THEN 0 ELSE w[Pick(s)] + jt[s \ {Pick(s)}]
      OBVIOUS
    <3>1. CASE s = {}
      BY <1>0, <2>5, <2>7, <3>1
    <3>2. CASE s # {}
      <4>1. jt[s \ {Pick(s)}] = it[s \ {Pick(s)}]
        BY <1>0, <2>5, <2>8, <3>2
      <4>2. jt[s] = w[Pick(s)] + it[s \ {Pick(s)}]
        BY <1>0, <2>5, <2>7, <3>2
      <4> QED BY <3>2, <4>1, <4>2
    <3> QED BY <3>1, <3>2
  <2> HIDE DEF jt
  <2> QED BY <2>3, <2>9, <2>10
<1>2. Cardinality(S) \in Nat
  BY FS_CardinalityType
<1>3. PICK it \in [SUBSET S -> Int] : UpTo(Cardinality(S), it)
  BY <1>1, <1>2
<1> QED BY <1>0, <1>3 DEF Sums, IntSums

(* So is the one that MapThenFoldSet takes.                                   *)
LEMMA SumOverIs ==
  ASSUME NEW S, IsFiniteSet(S), NEW w, \A x \in S : w[x] \in Int,
         NEW R, S \subseteq R, IsFiniteSet(R), NEW it, Sums(w, R, it)
  PROVE  SumOver(w, S) = it[S]
<1> DEFINE Eq(f) == f = [s \in SUBSET S |-> IF s = {} THEN 0
                          ELSE w[CHOOSE x \in s : TRUE] + f[s \ {CHOOSE x \in s : TRUE}]]
           ft == CHOOSE f : Eq(f)
<1>1. PICK gt : IntSums(w, S, gt)
  BY SumsExist
<1>2. Eq(gt)
  BY <1>1 DEF Sums, IntSums, Pick
<1>3. Eq(ft)
  <2> HIDE DEF Eq
  <2> QED BY <1>2
<1>4. Sums(w, S, ft)
  <2> HIDE DEF ft
  <2> QED BY <1>3 DEF Sums, Pick
<1>5. SumOver(w, S) = ft[S]
  BY DEF SumOver, MapThenFoldSet
<1>6. ft[S] = it[S]
  <2> HIDE DEF ft
  <2> QED BY <1>4, SumsAgree
<1> QED BY <1>5, <1>6

Additive(w, S, it) == \A T \in SUBSET S : \A x \in S \ T : it[T \cup {x}] = it[T] + w[x]

(* One more element adds its weight, whichever element the sum picks first.    *)
LEMMA SumsAdd ==
  ASSUME NEW S, IsFiniteSet(S), NEW w, \A y \in S : w[y] \in Int,
         NEW it, IntSums(w, S, it)
  PROVE  Additive(w, S, it)
<1>0. it \in [SUBSET S -> Int] /\ Sums(w, S, it)
  BY DEF IntSums
<1> DEFINE F == {U \in SUBSET S : \E y \in S \ U : it[U \cup {y}] # it[U] + w[y]}
<1>1. SUFFICES ASSUME F # {} PROVE FALSE
  BY DEF Additive
<1>2. F \in SUBSET SUBSET S
  OBVIOUS
<1>3. PICK U \in F : \A V \in F : V \subseteq U => V = U
  <2> HIDE DEF F
  <2> QED BY <1>1, <1>2, SmallestSubset
<1>4. PICK y \in S \ U : it[U \cup {y}] # it[U] + w[y]
  BY <1>3
<1> DEFINE z == Pick(U \cup {y})
<1>5. z \in U \cup {y} /\ U \in SUBSET S /\ U \cup {y} \in SUBSET S
  BY <1>3, <1>4, PickInside
<1>6. it[U \cup {y}] = w[z] + it[(U \cup {y}) \ {z}]
  BY <1>0, <1>5 DEF Sums
<1> HIDE DEF z
<1>7. CASE z = y
  <2>1. (U \cup {y}) \ {z} = U
    BY <1>4, <1>7
  <2>2. it[U] \in Int /\ w[y] \in Int
    BY <1>0, <1>4, <1>5
  <2>3. it[U \cup {y}] = w[y] + it[U]
    BY <1>6, <1>7, <2>1
  <2>4. w[y] + it[U] = it[U] + w[y]
    BY <2>2
  <2> QED BY <1>4, <2>3, <2>4
<1>8. CASE z # y
  <2> DEFINE V == U \ {z}
  <2>1. z \in U /\ V \in SUBSET S /\ V # U /\ V \subseteq U
    BY <1>5, <1>8
  <2>2. (U \cup {y}) \ {z} = V \cup {y} /\ V \cup {z} = U /\ y \in S \ V /\ z \in S \ V
    BY <1>4, <1>5, <1>8, <2>1
  <2>3. V \notin F
    BY <1>3, <2>1
  <2> HIDE DEF V
  <2>4. it[V \cup {y}] = it[V] + w[y] /\ it[V \cup {z}] = it[V] + w[z]
    BY <2>1, <2>2, <2>3
  <2>5. it[V] \in Int /\ w[y] \in Int /\ w[z] \in Int
    BY <1>0, <2>1, <2>2
  <2>6. w[z] + (it[V] + w[y]) = (it[V] + w[z]) + w[y]
    BY <2>5
  <2>7. it[U \cup {y}] = w[z] + (it[V] + w[y]) /\ it[U] = it[V] + w[z]
    BY <1>6, <2>2, <2>4
  <2> QED BY <1>4, <2>6, <2>7
<1> QED BY <1>7, <1>8

(* The sum over a finite set is an integer.                                    *)
LEMMA SumOverType ==
  ASSUME NEW S, IsFiniteSet(S), NEW w, \A x \in S : w[x] \in Int
  PROVE  SumOver(w, S) \in Int
<1>1. PICK it : IntSums(w, S, it)
  BY SumsExist
<1> QED BY <1>1, SumOverIs DEF IntSums

LEMMA SumOverEmpty == \A w : SumOver(w, {}) = 0
<1> TAKE w
<1>1. IsFiniteSet({})
  BY FS_EmptySet
<1>2. PICK it : IntSums(w, {}, it)
  BY <1>1, SumsExist
<1>3. it[{}] = 0
  BY <1>2 DEF Sums, IntSums
<1> QED BY <1>1, <1>2, <1>3, SumOverIs DEF IntSums

LEMMA SumOverAdd ==
  ASSUME NEW S, IsFiniteSet(S), NEW w, \A y \in S : w[y] \in Int,
         NEW x, x \notin S, w[x] \in Int
  PROVE  SumOver(w, S \cup {x}) = SumOver(w, S) + w[x]
<1> DEFINE R == S \cup {x}
<1>1. IsFiniteSet(R) /\ S \subseteq R /\ \A y \in R : w[y] \in Int
  BY FS_AddElement
<1>2. PICK it : IntSums(w, R, it)
  BY <1>1, SumsExist
<1>3. SumOver(w, R) = it[R] /\ SumOver(w, S) = it[S]
  BY <1>1, <1>2, SumOverIs DEF IntSums
<1>4. S \in SUBSET R /\ x \in R \ S
  OBVIOUS
<1> HIDE DEF R
<1>5. it[S \cup {x}] = it[S] + w[x]
  <2>1. Additive(w, R, it)
    BY <1>1, <1>2, SumsAdd
  <2> QED BY <1>4, <2>1 DEF Additive
<1> QED BY <1>3, <1>5 DEF R

(* Disjoint sets add up.                                                       *)
LEMMA SumOverUnion ==
  ASSUME NEW S, IsFiniteSet(S), NEW T, IsFiniteSet(T), S \cap T = {},
         NEW w, \A x \in S \cup T : w[x] \in Int
  PROVE  SumOver(w, S \cup T) = SumOver(w, S) + SumOver(w, T)
<1> DEFINE F == {U \in SUBSET T : SumOver(w, S \cup U) # SumOver(w, S) + SumOver(w, U)}
<1>1. SUFFICES ASSUME F # {} PROVE FALSE
  OBVIOUS
<1>2. F \in SUBSET SUBSET T
  OBVIOUS
<1>3. PICK U \in F : \A V \in F : V \subseteq U => V = U
  <2> HIDE DEF F
  <2> QED BY <1>1, <1>2, SmallestSubset
<1>4. SumOver(w, S) \in Int
  BY SumOverType
<1>5. U # {}
  <2>1. S \cup {} = S /\ SumOver(w, S) + 0 = SumOver(w, S) /\ SumOver(w, {}) = 0
    BY <1>4, SumOverEmpty
  <2> QED BY <1>3, <2>1
<1>6. PICK x \in U : TRUE
  BY <1>5
<1> DEFINE V == U \ {x}
<1>7. V \in SUBSET T /\ V # U /\ V \subseteq U /\ V \cup {x} = U /\ x \notin V /\ x \notin S \cup V
  BY <1>3, <1>6
<1>8. V \notin F
  BY <1>3, <1>7
<1> HIDE DEF V
<1>9. IsFiniteSet(V) /\ IsFiniteSet(S \cup V)
  BY <1>7, FS_Subset, FS_Union
<1>10. SumOver(w, V) \in Int /\ w[x] \in Int
  BY <1>3, <1>6, <1>7, <1>9, SumOverType
<1>11. SumOver(w, U) = SumOver(w, V) + w[x]
  BY <1>7, <1>9, <1>10, SumOverAdd
<1>12. SumOver(w, S \cup U) = SumOver(w, S \cup V) + w[x]
  <2>1. S \cup U = (S \cup V) \cup {x} /\ \A y \in S \cup V : w[y] \in Int
    BY <1>7
  <2>2. SumOver(w, (S \cup V) \cup {x}) = SumOver(w, S \cup V) + w[x]
    <3> DEFINE R == S \cup V
    <3>1. IsFiniteSet(R) /\ x \notin R /\ w[x] \in Int /\ \A y \in R : w[y] \in Int
      BY <1>7, <1>9, <1>10, <2>1
    <3> HIDE DEF R
    <3>2. SumOver(w, R \cup {x}) = SumOver(w, R) + w[x]
      BY <3>1, SumOverAdd
    <3> QED BY <3>2 DEF R
  <2> QED BY <2>1, <2>2
<1>13. SumOver(w, S \cup V) = SumOver(w, S) + SumOver(w, V)
  BY <1>7, <1>8
<1>14. SumOver(w, S \cup U) = SumOver(w, S) + SumOver(w, U)
  BY <1>4, <1>10, <1>11, <1>12, <1>13
<1> QED BY <1>3, <1>14

(* Sums compared element by element.                                           *)
LEMMA SumOverPlus ==
  ASSUME NEW S, IsFiniteSet(S), NEW w, NEW u, NEW v,
         \A x \in S : u[x] \in Int /\ v[x] \in Int /\ w[x] = u[x] + v[x]
  PROVE  SumOver(w, S) = SumOver(u, S) + SumOver(v, S)
<1> DEFINE F == {U \in SUBSET S : SumOver(w, U) # SumOver(u, U) + SumOver(v, U)}
<1>1. SUFFICES ASSUME F # {} PROVE FALSE
  OBVIOUS
<1>2. F \in SUBSET SUBSET S
  OBVIOUS
<1>3. PICK U \in F : \A V \in F : V \subseteq U => V = U
  <2> HIDE DEF F
  <2> QED BY <1>1, <1>2, SmallestSubset
<1>4. U # {}
  <2>1. SumOver(w, {}) = 0 /\ SumOver(u, {}) = 0 /\ SumOver(v, {}) = 0
    BY SumOverEmpty
  <2>2. SumOver(w, {}) = SumOver(u, {}) + SumOver(v, {})
    BY <2>1
  <2>3. {} \notin F
    BY <2>2
  <2> HIDE DEF F
  <2> QED BY <1>3, <2>3
<1>5. PICK x \in U : TRUE
  BY <1>4
<1> DEFINE V == U \ {x}
<1>6. V \in SUBSET S /\ V # U /\ V \subseteq U /\ V \cup {x} = U /\ x \notin V /\ x \in S
  BY <1>3, <1>5
<1>7. V \notin F
  BY <1>3, <1>6
<1> HIDE DEF V
<1>8. IsFiniteSet(V) /\ \A y \in V \cup {x} : u[y] \in Int /\ v[y] \in Int /\ w[y] \in Int
  BY <1>6, FS_Subset
<1>9. SumOver(u, V) \in Int /\ SumOver(v, V) \in Int /\ SumOver(w, V) \in Int
  BY <1>8, SumOverType
<1>10. SumOver(w, V \cup {x}) = SumOver(w, V) + w[x]
  BY <1>6, <1>8, SumOverAdd
<1>11. SumOver(u, V \cup {x}) = SumOver(u, V) + u[x]
  BY <1>6, <1>8, SumOverAdd
<1>12. SumOver(v, V \cup {x}) = SumOver(v, V) + v[x]
  BY <1>6, <1>8, SumOverAdd
<1>13. SumOver(w, V) = SumOver(u, V) + SumOver(v, V)
  BY <1>6, <1>7
<1>14. w[x] = u[x] + v[x] /\ u[x] \in Int /\ v[x] \in Int
  BY <1>6
<1>15. SumOver(w, U) = SumOver(u, U) + SumOver(v, U)
  <2> DEFINE a == SumOver(u, V)
             b == SumOver(v, V)
  <2>1. a \in Int /\ b \in Int /\ (a + b) + (u[x] + v[x]) = (a + u[x]) + (b + v[x])
    <3> HIDE DEF a, b
    <3>1. a \in Int /\ b \in Int
      BY <1>9 DEF a, b
    <3> QED BY <1>14, <3>1
  <2>2. SumOver(w, U) = (a + b) + (u[x] + v[x])
    BY <1>6, <1>10, <1>13, <1>14
  <2>3. SumOver(u, U) = a + u[x] /\ SumOver(v, U) = b + v[x]
    BY <1>6, <1>11, <1>12
  <2> HIDE DEF a, b
  <2> QED BY <2>1, <2>2, <2>3
<1> QED BY <1>3, <1>15

LEMMA SumOverBounds ==
  ASSUME NEW S, IsFiniteSet(S), NEW w, NEW m \in Int, \A x \in S : w[x] \in Int /\ 0 <= w[x] /\ w[x] <= m
  PROVE  0 <= SumOver(w, S) /\ SumOver(w, S) <= m * Cardinality(S)
<1> DEFINE In(U) == 0 <= SumOver(w, U) /\ SumOver(w, U) <= m * Cardinality(U)
           F == {U \in SUBSET S : ~In(U)}
<1>1. SUFFICES ASSUME F # {} PROVE FALSE
  OBVIOUS
<1>2. F \in SUBSET SUBSET S
  OBVIOUS
<1>3. PICK U \in F : \A V \in F : V \subseteq U => V = U
  <2> HIDE DEF F
  <2> QED BY <1>1, <1>2, SmallestSubset
<1>4. U # {}
  <2>1. SumOver(w, {}) = 0 /\ Cardinality({}) = 0 /\ m * 0 = 0
    BY SumOverEmpty, FS_EmptySet
  <2>2. In({})
    BY <2>1
  <2> QED BY <1>3, <2>2
<1>5. PICK x \in U : TRUE
  BY <1>4
<1> DEFINE V == U \ {x}
<1>6. V \in SUBSET S /\ V # U /\ V \subseteq U /\ V \cup {x} = U /\ x \notin V /\ x \in S
  BY <1>3, <1>5
<1>7. V \notin F
  BY <1>3, <1>6
<1> HIDE DEF V
<1>8. IsFiniteSet(V) /\ \A y \in V \cup {x} : w[y] \in Int
  BY <1>6, FS_Subset
<1>9. SumOver(w, V) \in Int /\ Cardinality(V) \in Nat /\ Cardinality(V \cup {x}) = Cardinality(V) + 1
  BY <1>6, <1>8, SumOverType, FS_CardinalityType, FS_AddElement
<1>10. SumOver(w, V \cup {x}) = SumOver(w, V) + w[x]
  BY <1>6, <1>8, SumOverAdd
<1>11. 0 <= SumOver(w, V) /\ SumOver(w, V) <= m * Cardinality(V)
  BY <1>6, <1>7
<1>12. w[x] \in Int /\ 0 <= w[x] /\ w[x] <= m
  BY <1>6
<1>13. m * (Cardinality(V) + 1) = m * Cardinality(V) + m /\ m * Cardinality(V) \in Int
  BY <1>9
<1>14. In(U)
  <2>1. SumOver(w, U) = SumOver(w, V) + w[x] /\ Cardinality(U) = Cardinality(V) + 1
    BY <1>6, <1>9, <1>10
  <2>2. 0 <= SumOver(w, U)
    BY <1>9, <1>11, <1>12, <2>1
  <2>3. SumOver(w, U) <= m * Cardinality(V) + m
    BY <1>9, <1>11, <1>12, <1>13, <2>1
  <2> QED BY <1>13, <2>1, <2>2, <2>3
<1> QED BY <1>3, <1>14

LEMMA SumOverNatural ==
  ASSUME NEW S, IsFiniteSet(S), NEW w, \A x \in S : w[x] \in Nat
  PROVE  SumOver(w, S) \in Nat
<1> DEFINE F == {U \in SUBSET S : SumOver(w, U) \notin Nat}
<1>1. SUFFICES ASSUME F # {} PROVE FALSE
  OBVIOUS
<1>2. F \in SUBSET SUBSET S
  OBVIOUS
<1>3. PICK U \in F : \A V \in F : V \subseteq U => V = U
  <2> HIDE DEF F
  <2> QED BY <1>1, <1>2, SmallestSubset
<1>4. U # {}
  <2>1. SumOver(w, {}) = 0
    BY SumOverEmpty
  <2>2. {} \notin F
    BY <2>1
  <2> HIDE DEF F
  <2> QED BY <1>3, <2>2
<1>5. PICK x \in U : TRUE
  BY <1>4
<1> DEFINE V == U \ {x}
<1>6. V \in SUBSET S /\ V # U /\ V \subseteq U /\ V \cup {x} = U /\ x \notin V /\ x \in S
  BY <1>3, <1>5
<1>7. V \notin F
  BY <1>3, <1>6
<1> HIDE DEF V
<1>8. IsFiniteSet(V) /\ \A y \in V \cup {x} : w[y] \in Int
  BY <1>6, FS_Subset
<1>9. SumOver(w, V \cup {x}) = SumOver(w, V) + w[x]
  BY <1>6, <1>8, SumOverAdd
<1>10. SumOver(w, V) \in Nat /\ w[x] \in Nat
  BY <1>6, <1>7
<1> QED BY <1>3, <1>6, <1>9, <1>10

(* Only the weights of the elements of the set count.                            *)
LEMMA SumOverSame ==
  ASSUME NEW S, IsFiniteSet(S), NEW w, NEW u, \A x \in S : u[x] \in Int /\ w[x] = u[x]
  PROVE  SumOver(w, S) = SumOver(u, S)
<1> DEFINE z == [x \in S |-> 0]
<1>1. \A x \in S : u[x] \in Int /\ z[x] \in Int /\ w[x] = u[x] + z[x]
  OBVIOUS
<1>2. 0 <= SumOver(z, S) /\ SumOver(z, S) <= 0 * Cardinality(S)
  <2>1. \A x \in S : z[x] \in Int /\ 0 <= z[x] /\ z[x] <= 0
    OBVIOUS
  <2> HIDE DEF z
  <2> QED BY <2>1, SumOverBounds
<1>3. SumOver(z, S) \in Int /\ SumOver(u, S) \in Int /\ Cardinality(S) \in Nat
  BY SumOverType, FS_CardinalityType
<1> HIDE DEF z
<1>4. SumOver(w, S) = SumOver(u, S) + SumOver(z, S)
  BY <1>1, SumOverPlus
<1> QED BY <1>2, <1>3, <1>4

(* One weight changed.                                                              *)
LEMMA SumChanged ==
  ASSUME NEW S, IsFiniteSet(S), NEW w, NEW u, NEW x \in S, \A y \in S : w[y] \in Int /\ u[y] \in Int,
         \A y \in S : y # x => u[y] = w[y]
  PROVE  SumOver(u, S) - SumOver(w, S) = u[x] - w[x]
<1> DEFINE R == S \ {x}
<1>1. IsFiniteSet(R) /\ x \notin R /\ R \cup {x} = S
  BY FS_Subset
<1>2. \A y \in R : w[y] \in Int /\ u[y] \in Int /\ u[y] = w[y]
  OBVIOUS
<1> HIDE DEF R
<1>3. SumOver(u, R \cup {x}) = SumOver(u, R) + u[x]
  BY <1>1, <1>2, SumOverAdd
<1>4. SumOver(w, R \cup {x}) = SumOver(w, R) + w[x]
  BY <1>1, <1>2, SumOverAdd
<1>5. SumOver(u, R) = SumOver(w, R) /\ SumOver(w, R) \in Int
  BY <1>1, <1>2, SumOverSame, SumOverType
<1>6. w[x] \in Int /\ u[x] \in Int
  OBVIOUS
<1>7. SumOver(u, S) = SumOver(w, R) + u[x] /\ SumOver(w, S) = SumOver(w, R) + w[x]
  BY <1>1, <1>3, <1>4, <1>5
<1> QED BY <1>5, <1>6, <1>7

LEMMA SumOverOne ==
  ASSUME NEW x, NEW w, w[x] \in Int
  PROVE  SumOver(w, {x}) = w[x]
<1>1. IsFiniteSet({}) /\ x \notin {} /\ {} \cup {x} = {x}
  BY FS_EmptySet
<1>2. SumOver(w, {} \cup {x}) = SumOver(w, {}) + w[x]
  BY <1>1, SumOverAdd
<1>3. SumOver(w, {}) = 0
  BY SumOverEmpty
<1> QED BY <1>1, <1>2, <1>3

(* v[t] is the sum over the elements that g maps to t.                                  *)
PartSums(v, T, w, S, g) ==
  /\ \A x \in S : g[x] \in T
  /\ \A t \in T : v[t] = SumOver(w, {x \in S : g[x] = t})

(* A set may be summed part by part.                                                    *)
LEMMA SumOverParts ==
  ASSUME NEW S, IsFiniteSet(S), NEW w, \A x \in S : w[x] \in Int,
         NEW T, IsFiniteSet(T), NEW g, NEW v, PartSums(v, T, w, S, g)
  PROVE  SumOver(v, T) = SumOver(w, S)
<1> DEFINE Over(U) == {x \in S : g[x] \in U}
           F == {U \in SUBSET T : SumOver(v, U) # SumOver(w, Over(U))}
<1>0. (\A x \in S : g[x] \in T) /\ \A t \in T : v[t] = SumOver(w, {x \in S : g[x] = t})
  BY DEF PartSums
<1>1. SUFFICES ASSUME F # {} PROVE FALSE
  <2>1. Over(T) = S
    BY <1>0
  <2>2. T \notin F => SumOver(v, T) = SumOver(w, S)
    BY <2>1
  <2> QED BY <2>2
<1>2. F \in SUBSET SUBSET T
  OBVIOUS
<1>3. PICK U \in F : \A V \in F : V \subseteq U => V = U
  <2> HIDE DEF F
  <2> QED BY <1>1, <1>2, SmallestSubset
<1>4. U # {}
  <2>1. Over({}) = {}
    OBVIOUS
  <2>2. SumOver(v, {}) = 0 /\ SumOver(w, {}) = 0
    BY SumOverEmpty
  <2>3. {} \notin F
    BY <2>1, <2>2
  <2> HIDE DEF F
  <2> QED BY <1>3, <2>3
<1>5. PICK t \in U : TRUE
  BY <1>4
<1> DEFINE V == U \ {t}
           P == {x \in S : g[x] = t}
           Q == Over(V)
<1>6. /\ V \in SUBSET T /\ V # U /\ V \subseteq U /\ V \cup {t} = U /\ t \notin V /\ t \in T
      /\ P \in SUBSET S /\ Q \in SUBSET S /\ P \cap Q = {} /\ Over(U) = Q \cup P
  BY <1>3, <1>5
<1>7. SumOver(v, V) = SumOver(w, Q) /\ v[t] = SumOver(w, P)
  BY <1>0, <1>3, <1>6
<1>8. SumOver(v, U) # SumOver(w, Q \cup P)
  BY <1>3, <1>6
<1>9. \A p \in T : v[p] \in Int
  <2> TAKE p \in T
  <2> DEFINE R == {x \in S : g[x] = p}
  <2>1. IsFiniteSet(R) /\ \A x \in R : w[x] \in Int
    BY FS_Subset
  <2>2. v[p] = SumOver(w, R)
    BY <1>0
  <2> HIDE DEF R
  <2> QED BY <2>1, <2>2, SumOverType
<1> HIDE DEF V, P, Q, F
<1>10. /\ IsFiniteSet(V) /\ IsFiniteSet(P) /\ IsFiniteSet(Q)
       /\ \A x \in Q \cup P : w[x] \in Int
       /\ \A p \in V : v[p] \in Int
       /\ v[t] \in Int
  BY <1>6, <1>9, FS_Subset
<1>11. SumOver(v, V \cup {t}) = SumOver(v, V) + v[t]
  BY <1>6, <1>10, SumOverAdd
<1>12. SumOver(w, Q \cup P) = SumOver(w, Q) + SumOver(w, P)
  <2>1. Q \cap P = {}
    BY <1>6
  <2> QED BY <2>1, <1>10, SumOverUnion
<1> QED BY <1>6, <1>7, <1>8, <1>11, <1>12

OneToOne(f, T, S) ==
  /\ \A t \in T : f[t] \in S
  /\ \A s, t \in T : f[s] = f[t] => s = t
  /\ \A x \in S : \E t \in T : f[t] = x

(* So may it be renamed: what is one to one leaves the sum as it is.                 *)
LEMMA SumOverRenamed ==
  ASSUME NEW S, IsFiniteSet(S), NEW w, \A x \in S : w[x] \in Int,
         NEW T, IsFiniteSet(T), NEW f, OneToOne(f, T, S),
         NEW v, \A t \in T : v[t] = w[f[t]]
  PROVE  SumOver(v, T) = SumOver(w, S)
<1> DEFINE g == [x \in S |-> CHOOSE t \in T : f[t] = x]
<1>0. /\ \A t \in T : f[t] \in S
      /\ \A s, t \in T : f[s] = f[t] => s = t
      /\ \A x \in S : \E t \in T : f[t] = x
  BY DEF OneToOne
<1>1. \A x \in S : g[x] \in T /\ f[g[x]] = x
  BY <1>0
<1> HIDE DEF g
<1>2. ASSUME NEW t \in T PROVE v[t] = SumOver(w, {x \in S : g[x] = t})
  <2>1. {x \in S : g[x] = t} = {f[t]}
    BY <1>0, <1>1
  <2>2. w[f[t]] \in Int
    BY <1>0
  <2>3. SumOver(w, {f[t]}) = w[f[t]]
    <3>1. PICK x : x = f[t] /\ w[x] \in Int
      BY <2>2
    <3> QED BY <3>1, SumOverOne
  <2> QED BY <2>1, <2>3
<1>3. PartSums(v, T, w, S, g)
  BY <1>1, <1>2 DEF PartSums
<1> QED BY <1>3, SumOverParts

(* A finite set that is not empty has an element whose weight is the greatest.       *)
LEMMA GreatestExists ==
  ASSUME NEW S, IsFiniteSet(S), S # {}, NEW w, \A x \in S : w[x] \in Int
  PROVE  \E x \in S : \A y \in S : w[y] <= w[x]
<1> DEFINE F == {U \in SUBSET S : U # {} /\ \A x \in U : \A y \in S \ U : w[y] < w[x]}
<1>1. F \in SUBSET SUBSET S /\ F # {}
  <2>1. S \in F
    OBVIOUS
  <2> QED BY <2>1
<1>2. PICK U \in F : \A V \in F : V \subseteq U => V = U
  <2> HIDE DEF F
  <2> QED BY <1>1, SmallestSubset
<1>3. PICK x \in U : TRUE
  BY <1>2
<1> DEFINE V == {y \in U : w[x] < w[y]}
<1>4. U \in SUBSET S /\ x \in S /\ w[x] \in Int /\ V \subseteq U /\ V # U
  BY <1>2, <1>3
<1>5. V = {}
  <2> SUFFICES ASSUME V # {} PROVE FALSE
    OBVIOUS
  <2>1. ASSUME NEW p \in V, NEW q \in S \ V PROVE w[q] < w[p]
    <3>1. p \in U /\ w[x] < w[p] /\ w[p] \in Int /\ w[q] \in Int
      BY <1>4
    <3>2. CASE q \in U
      BY <1>4, <3>1, <3>2
    <3>3. CASE q \notin U
      BY <1>2, <3>1, <3>3
    <3> QED BY <3>2, <3>3
  <2>2. V \in F
    BY <1>4, <2>1
  <2> QED BY <1>2, <1>4, <2>2
<1>6. \A y \in S : w[y] <= w[x]
  <2> TAKE y \in S
  <2>1. CASE y \in U
    BY <1>4, <1>5, <2>1
  <2>2. CASE y \notin U
    BY <1>2, <1>3, <1>4, <2>2
  <2> QED BY <2>1, <2>2
<1> QED BY <1>4, <1>6

================================================================================
