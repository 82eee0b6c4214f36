---------------------------- MODULE NaturalSets ----------------------------
(***************************************************************************)
(* Facts about sets of natural numbers and about sums over finite sets     *)
(* that several proofs use.                                                *)
(***************************************************************************)
EXTENDS Integers, FiniteSetsExt, FiniteSetTheorems, WellFoundedInduction, TLAPS

(* The library's less-than relation on Nat, written out.                   *)
LEMMA LessThanRelation ==
    \A x, y \in Nat : y < x => <<y, x>> \in OpToRel(<, Nat)
BY DEF OpToRel

(* A non-empty set of naturals has the minimum that Min chooses.           *)
LEMMA MinOfNaturals ==
    ASSUME NEW S \in SUBSET Nat, S # {}
    PROVE  Min(S) \in S /\ \A y \in S : Min(S) <= y
<1>1. PICK x \in S : \A y \in S : ~ (<<y, x>> \in OpToRel(<, Nat))
    BY NatLessThanWellFounded, WFMin
<1>2. \A y \in S : ~ (y < x)
    BY <1>1, LessThanRelation, Zenon
<1>3. \A y \in S : x <= y
    BY <1>2
<1> QED BY <1>3 DEF Min

(* A non-empty bounded set of naturals has the maximum that Max chooses.   *)
LEMMA MaxOfNaturals ==
    ASSUME NEW n \in Nat, NEW S \in SUBSET (0 .. n), S # {}
    PROVE  Max(S) \in S /\ \A y \in S : Max(S) >= y
<1> DEFINE T == {k \in 0 .. n : n - k \in S}
<1>1. T \in SUBSET Nat /\ T # {}
    <2>1. PICK x \in S : TRUE
        OBVIOUS
    <2>2. n - x \in T
        <3>1. x \in 0 .. n
            BY <2>1
        <3>2. n - (n - x) = x /\ n - x \in 0 .. n
            BY <3>1
        <3>3. n - (n - x) \in S
            BY <2>1, <3>2
        <3> QED BY <3>2, <3>3, Zenon
    <2>3. T \in SUBSET Nat
        OBVIOUS
    <2> HIDE DEF T
    <2> QED BY <2>2, <2>3
<1>2. PICK k \in T : \A j \in T : k <= j
    <2> HIDE DEF T
    <2> QED BY <1>1, MinOfNaturals
<1>3. \A y \in S : n - k >= y
    <2> TAKE y \in S
    <2>1. y \in 0 .. n
        OBVIOUS
    <2>2. n - y \in T
        <3>1. n - (n - y) = y /\ n - y \in 0 .. n
            BY <2>1
        <3> QED BY <3>1
    <2>3. k <= n - y
        BY <1>2, <2>2
    <2> QED BY <2>1, <2>3
<1>4. \E x \in S : \A y \in S : x >= y
    BY <1>2, <1>3
<1> QED BY <1>4 DEF Max

(* Induction, for a set of naturals.                                       *)
LEMMA NaturalsAreInductive ==
    ASSUME NEW S, 0 \in S, \A n \in Nat : n \in S => n + 1 \in S
    PROVE  \A n \in Nat : n \in S
<1> DEFINE missing == {n \in Nat : n \notin S}
<1> SUFFICES ASSUME missing # {} PROVE FALSE
    OBVIOUS
<1>1. Min(missing) \in missing /\ \A y \in missing : Min(missing) <= y
    BY MinOfNaturals
<1>2. PICK n \in missing : \A y \in missing : n <= y
    BY <1>1
<1>3. n - 1 \in Nat /\ n - 1 \notin missing
    BY <1>2
<1> QED BY <1>2, <1>3

(* Induction over the subsets of a finite set.                             *)
LEMMA SubsetsAreInductive ==
    ASSUME NEW P, IsFiniteSet(P), NEW C,
           \A Q \in SUBSET P : (\A R \in SUBSET Q : R # Q => R \in C) => Q \in C
    PROVE  \A Q \in SUBSET P : Q \in C
<1> DEFINE Done == {n \in Nat : \A Q \in SUBSET P : Cardinality(Q) < n => Q \in C}
<1>0. \A Q \in SUBSET P : /\ IsFiniteSet(Q) /\ Cardinality(Q) \in Nat
                          /\ \A R \in SUBSET Q : R # Q =>
                                Cardinality(R) \in Nat /\ Cardinality(R) < Cardinality(Q)
  <2> TAKE Q \in SUBSET P
  <2>1. IsFiniteSet(Q) /\ Cardinality(Q) \in Nat
    BY FS_Subset, FS_CardinalityType
  <2>2. ASSUME NEW R \in SUBSET Q, R # Q
        PROVE  Cardinality(R) \in Nat /\ Cardinality(R) < Cardinality(Q)
    <3>1. Cardinality(R) <= Cardinality(Q) /\ Cardinality(R) # Cardinality(Q)
      BY <2>1, <2>2, FS_Subset
    <3>2. Cardinality(R) \in Nat
      BY <2>1, FS_Subset, FS_CardinalityType
    <3> QED  BY <2>1, <3>1, <3>2
  <2> QED  BY <2>1, <2>2
<1>1. 0 \in Done
  BY <1>0
<1>2. ASSUME NEW n \in Nat, n \in Done PROVE n + 1 \in Done
  <2> SUFFICES ASSUME NEW Q \in SUBSET P, Cardinality(Q) < n + 1 PROVE Q \in C
    OBVIOUS
  <2>1. \A R \in SUBSET Q : R # Q => R \in SUBSET P /\ Cardinality(R) < n
    BY <1>0
  <2>2. \A R \in SUBSET Q : R # Q => R \in C
    BY <1>2, <2>1
  <2> QED  BY <2>2
<1> HIDE DEF Done
<1>3. \A n \in Nat : n \in Done
  BY <1>1, <1>2, NaturalsAreInductive
<1>4. ASSUME NEW Q \in SUBSET P PROVE Q \in C
  <2>1. Cardinality(Q) + 1 \in Nat /\ Cardinality(Q) < Cardinality(Q) + 1
    BY <1>0
  <2> QED  BY <1>3, <2>1 DEF Done
<1> QED  BY <1>4

-----------------------------------------------------------------------------
(* The sum over a finite set: the equation of the recursive function that  *)
(* folds it, for the subsets of S with at most n elements.                 *)
SumOf(f, h, T) ==
    IF T = {} THEN 0 ELSE LET x == CHOOSE x \in T : TRUE IN f[x] + h[T \ {x}]

Small(S, n) == {T \in SUBSET S : Cardinality(T) <= n}

IsSum(S, n, f, h) == h = [T \in Small(S, n) |-> SumOf(f, h, T)]

LEMMA RemoveChosen ==
    ASSUME NEW S, IsFiniteSet(S), NEW n \in Nat, NEW T \in Small(S, n + 1), T # {},
           NEW x, x = CHOOSE y \in T : TRUE
    PROVE  x \in T /\ T \ {x} \in Small(S, n)
<1>1. x \in T
  BY Zenon
<1>2. IsFiniteSet(T) /\ Cardinality(T) \in Nat /\ Cardinality(T) <= n + 1
  BY FS_Subset, FS_CardinalityType DEF Small
<1>3. Cardinality(T \ {x}) = Cardinality(T) - 1
  BY <1>1, <1>2, FS_RemoveElement
<1> QED  BY <1>1, <1>2, <1>3 DEF Small

LEMMA SmallGrows ==
    ASSUME NEW S, IsFiniteSet(S), NEW n \in Nat, NEW T \in Small(S, n)
    PROVE  T \in Small(S, n + 1)
<1>1. Cardinality(T) \in Nat
  BY FS_Subset, FS_CardinalityType DEF Small
<1> QED  BY <1>1 DEF Small

LEMMA SmallSets ==
    ASSUME NEW S, IsFiniteSet(S)
    PROVE  Cardinality(S) \in Nat /\ Small(S, Cardinality(S)) = SUBSET S
BY FS_Subset, FS_CardinalityType DEF Small

LEMMA NothingSmall ==
    ASSUME NEW S, IsFiniteSet(S)
    PROVE  Small(S, 0) = {{}}
<1>1. \A T \in SUBSET S : Cardinality(T) <= 0 => T = {}
  BY FS_Subset, FS_CardinalityType, FS_EmptySet
<1>2. Cardinality({}) = 0
  BY FS_EmptySet
<1> QED  BY <1>1, <1>2 DEF Small

LEMMA SumExists ==
    ASSUME NEW S, IsFiniteSet(S), NEW f, NEW n \in Nat
    PROVE  \E h : IsSum(S, n, f, h)
<1> DEFINE R == {k \in Nat : \E h : IsSum(S, k, f, h)}
<1>1. 0 \in R
  <2> DEFINE h == [T \in Small(S, 0) |-> 0]
  <2>1. \A T \in Small(S, 0) : SumOf(f, h, T) = 0
    BY NothingSmall DEF SumOf
  <2>2. IsSum(S, 0, f, h)
    BY <2>1 DEF IsSum
  <2> QED  BY <2>2
<1>2. ASSUME NEW k \in Nat, k \in R  PROVE k + 1 \in R
  <2>1. PICK h : IsSum(S, k, f, h)
    BY <1>2
  <2> DEFINE longer == [T \in Small(S, k + 1) |-> SumOf(f, h, T)]
  <2>2. \A T \in Small(S, k) : longer[T] = h[T]
    BY <2>1, SmallGrows DEF IsSum
  <2>3. ASSUME NEW T \in Small(S, k + 1)
        PROVE  SumOf(f, h, T) = SumOf(f, longer, T)
    <3> HIDE DEF longer
    <3>1. CASE T = {}
      BY <3>1 DEF SumOf
    <3>2. CASE T # {}
      <4> DEFINE x == CHOOSE y \in T : TRUE
      <4>1. T \ {x} \in Small(S, k)
        BY <3>2, RemoveChosen
      <4>2. longer[T \ {x}] = h[T \ {x}]
        BY <2>2, <4>1
      <4> QED  BY <4>2 DEF SumOf
    <3> QED  BY <3>1, <3>2
  <2>4. IsSum(S, k + 1, f, longer)
    BY <2>3 DEF IsSum
  <2> QED  BY <2>4
<1> HIDE DEF R
<1>3. n \in R
  BY <1>1, <1>2, NaturalsAreInductive
<1> QED  BY <1>3 DEF R

(* The sum of g, which differs from f at one element, differs by that.     *)
LEMMA SumOfChanged ==
    ASSUME NEW S, IsFiniteSet(S), NEW n \in Nat, NEW s \in S,
           NEW f \in [S -> Nat], NEW g \in [S -> Nat], \A x \in S : x # s => g[x] = f[x],
           NEW h, IsSum(S, n, f, h), NEW k, IsSum(S, n, g, k)
    PROVE  \A T \in Small(S, n) :
              /\ h[T] \in Nat /\ k[T] \in Nat
              /\ s \in T => h[T] >= f[s] /\ k[T] = h[T] - f[s] + g[s]
              /\ s \notin T => k[T] = h[T]
<1> DEFINE Agree(T) == /\ h[T] \in Nat /\ k[T] \in Nat
                       /\ s \in T => h[T] >= f[s] /\ k[T] = h[T] - f[s] + g[s]
                       /\ s \notin T => k[T] = h[T]
           R == {m \in Nat : \A T \in Small(S, n) : T \in Small(S, m) => Agree(T)}
<1>1. \A T \in Small(S, n) : h[T] = SumOf(f, h, T) /\ k[T] = SumOf(g, k, T)
  <2> DEFINE F(T) == SumOf(f, h, T)
             G(T) == SumOf(g, k, T)
  <2>1. h = [T \in Small(S, n) |-> F(T)] /\ k = [T \in Small(S, n) |-> G(T)]
    BY DEF IsSum
  <2> HIDE DEF F, G
  <2>2. \A T \in Small(S, n) : h[T] = F(T) /\ k[T] = G(T)
    BY <2>1
  <2> QED  BY <2>2 DEF F, G
<1>2. 0 \in R
  <2>1. \A T \in Small(S, n) : T \in Small(S, 0) => T = {}
    BY NothingSmall
  <2> QED  BY <1>1, <2>1 DEF SumOf
<1>3. ASSUME NEW m \in Nat, m \in R  PROVE m + 1 \in R
  <2> SUFFICES ASSUME NEW T \in Small(S, n), T \in Small(S, m + 1)  PROVE Agree(T)
    OBVIOUS
  <2>1. CASE T = {}
    <3>1. SumOf(f, h, T) = 0 /\ SumOf(g, k, T) = 0
      BY <2>1 DEF SumOf
    <3>2. h[T] = 0 /\ k[T] = 0
      BY <1>1, <3>1
    <3> QED  BY <2>1, <3>2
  <2>2. CASE T # {}
    <3> DEFINE x == CHOOSE y \in T : TRUE
               U == T \ {x}
    <3>1. x \in T /\ U \in Small(S, m)
      BY <2>2, RemoveChosen
    <3>2. x \in S /\ U \in Small(S, n)
      <4>1. T \in Small(S, n + 1)
        BY SmallGrows
      <4> QED  BY <2>2, <4>1, RemoveChosen DEF Small
    <3>3. Agree(U)
      BY <1>3, <3>1, <3>2
    <3>4. h[T] = f[x] + h[U] /\ k[T] = g[x] + k[U]
      BY <1>1, <2>2 DEF SumOf
    <3>5. f[x] \in Nat /\ g[x] \in Nat /\ f[s] \in Nat /\ g[s] \in Nat
      BY <3>2
    <3>6. s \in T <=> s = x \/ s \in U
      BY <3>1
    <3>7. x \notin U
      OBVIOUS
    <3> HIDE DEF x, U
    <3> QED  BY <3>2, <3>3, <3>4, <3>5, <3>6, <3>7
  <2> QED  BY <2>1, <2>2
<1> HIDE DEF R
<1>4. n \in R
  BY <1>2, <1>3, NaturalsAreInductive
<1> QED  BY <1>4 DEF R

-----------------------------------------------------------------------------
(* What one element contributes to a sum, and totals of finite sets.       *)
LEMMA SmallerSubset ==
    ASSUME NEW S, IsFiniteSet(S), NEW n \in Nat, NEW T \in Small(S, n), NEW U \in SUBSET T
    PROVE  U \in Small(S, n)
<1>1. IsFiniteSet(T) /\ Cardinality(T) \in Nat /\ Cardinality(T) <= n
  BY FS_Subset, FS_CardinalityType DEF Small
<1>2. Cardinality(U) \in Nat /\ Cardinality(U) <= Cardinality(T)
  BY <1>1, FS_Subset, FS_CardinalityType
<1> QED  BY <1>1, <1>2 DEF Small

LEMMA SmallerByOne ==
    ASSUME NEW S, IsFiniteSet(S), NEW m \in Nat, NEW T \in Small(S, m + 1), NEW x \in T
    PROVE  T \ {x} \in Small(S, m)
<1>1. IsFiniteSet(T) /\ Cardinality(T) \in Nat /\ Cardinality(T) <= m + 1
  BY FS_Subset, FS_CardinalityType DEF Small
<1>2. Cardinality(T \ {x}) = Cardinality(T) - 1
  BY <1>1, FS_RemoveElement
<1> QED  BY <1>1, <1>2 DEF Small

(* The sum does not depend on the order in which the elements are chosen.  *)
TakesApart(f, h, T) ==
    /\ h[T] \in Nat
    /\ T = {} => h[T] = 0
    /\ \A x \in T : h[T] = f[x] + h[T \ {x}]

LEMMA SumTakesApart ==
    ASSUME NEW S, IsFiniteSet(S), NEW n \in Nat, NEW f \in [S -> Nat],
           NEW h, IsSum(S, n, f, h)
    PROVE  \A T \in Small(S, n) : TakesApart(f, h, T)
<1> DEFINE R == {m \in Nat : \A T \in Small(S, n) :
                                T \in Small(S, m) => TakesApart(f, h, T)}
<1>1. \A T \in Small(S, n) : h[T] = SumOf(f, h, T)
  <2> DEFINE F(T) == SumOf(f, h, T)
  <2>1. h = [T \in Small(S, n) |-> F(T)]
    BY DEF IsSum
  <2> HIDE DEF F
  <2>2. \A T \in Small(S, n) : h[T] = F(T)
    BY <2>1
  <2> QED  BY <2>2 DEF F
<1>2. 0 \in R
  <2>1. \A T \in Small(S, n) : T \in Small(S, 0) => T = {}
    BY NothingSmall
  <2> QED  BY <1>1, <2>1 DEF SumOf, TakesApart
<1>3. ASSUME NEW m \in Nat, m \in R  PROVE m + 1 \in R
  <2> SUFFICES ASSUME NEW T \in Small(S, n), T \in Small(S, m + 1)  PROVE TakesApart(f, h, T)
    OBVIOUS
  <2>1. CASE T = {}
    BY <1>1, <2>1 DEF SumOf, TakesApart
  <2>2. CASE T # {}
    <3> DEFINE y == CHOOSE y \in T : TRUE
    <3>1. ASSUME NEW x \in T
          PROVE  T \ {x} \in Small(S, m) /\ T \ {x} \in Small(S, n) /\ x \in S
      BY SmallerByOne, SmallerSubset DEF Small
    <3>2. y \in T
      BY <2>2, Zenon
    <3>3. h[T] = f[y] + h[T \ {y}]
      BY <1>1, <2>2 DEF SumOf
    <3> HIDE DEF y
    <3>4. ASSUME NEW x \in T  PROVE TakesApart(f, h, T \ {x}) /\ f[x] \in Nat
      BY <1>3, <3>1
    <3>5. h[T \ {y}] \in Nat /\ f[y] \in Nat
      BY <3>2, <3>4 DEF TakesApart
    <3>6. ASSUME NEW x \in T, x # y  PROVE h[T] = f[x] + h[T \ {x}]
      <4> DEFINE V == (T \ {y}) \ {x}
      <4>1. x \in T \ {y} /\ y \in T \ {x} /\ V = (T \ {x}) \ {y} /\ V \in SUBSET (T \ {y})
        BY <3>2, <3>6
      <4>2. h[T \ {y}] = f[x] + h[V] /\ h[T \ {x}] = f[y] + h[V]
        BY <3>2, <3>4, <4>1, Zenon DEF TakesApart
      <4>3. V \in Small(S, n) /\ V \in Small(S, m)
        <5> DEFINE W == T \ {y}
        <5>1. W \in Small(S, n) /\ W \in Small(S, m) /\ V \in SUBSET W
          BY <3>1, <3>2, <4>1
        <5> HIDE DEF V, W
        <5> QED  BY <5>1, SmallerSubset
      <4> HIDE DEF V
      <4>4. h[V] \in Nat /\ f[x] \in Nat
        BY <1>3, <3>4, <4>3 DEF TakesApart
      <4> QED  BY ONLY <3>3, <3>5, <4>2, <4>4
    <3>7. h[T] \in Nat
      BY ONLY <3>3, <3>5
    <3>8. \A x \in T : h[T] = f[x] + h[T \ {x}]
      BY <3>3, <3>6
    <3> QED  BY <2>2, <3>7, <3>8 DEF TakesApart
  <2> QED  BY <2>1, <2>2
<1> HIDE DEF R
<1>4. n \in R
  BY <1>2, <1>3, NaturalsAreInductive
<1> QED  BY <1>4 DEF R

(* Sums of functions that agree are the same, over whatever set they are   *)
(* taken.                                                                  *)
LEMMA SumsAgree ==
    ASSUME NEW S, IsFiniteSet(S), NEW U, IsFiniteSet(U), NEW n \in Nat, NEW m \in Nat,
           NEW f \in [S -> Nat], NEW g \in [U -> Nat],
           NEW h, IsSum(S, n, f, h), NEW k, IsSum(U, m, g, k),
           NEW V \in SUBSET (S \cap U), \A x \in V : f[x] = g[x]
    PROVE  V \in Small(S, n) /\ V \in Small(U, m) => h[V] = k[V]
<1> DEFINE Agrees(T) == T \in SUBSET V /\ T \in Small(S, n) /\ T \in Small(U, m) => h[T] = k[T]
           R == {i \in Nat : \A T \in Small(S, i) : Agrees(T)}
<1>1. 0 \in R
  <2>1. ASSUME NEW T \in Small(S, 0)  PROVE Agrees(T)
    <3>1. T = {}
      BY NothingSmall
    <3> QED  BY <3>1, SumTakesApart DEF TakesApart
  <2> QED  BY <2>1
<1>2. ASSUME NEW i \in Nat, i \in R  PROVE i + 1 \in R
  <2> SUFFICES ASSUME NEW T \in Small(S, i + 1), T \in SUBSET V,
                      T \in Small(S, n), T \in Small(U, m)
               PROVE  h[T] = k[T]
    OBVIOUS
  <2>1. CASE T = {}
    BY <2>1, SumTakesApart DEF TakesApart
  <2>2. CASE T # {}
    <3>1. PICK x \in T : TRUE
      BY <2>2
    <3>2. T \ {x} \in Small(S, i) /\ T \ {x} \in Small(S, n) /\ T \ {x} \in Small(U, m)
      BY SmallerByOne, SmallerSubset
    <3>3. h[T \ {x}] = k[T \ {x}]
      BY <1>2, <3>2
    <3>4. TakesApart(f, h, T) /\ TakesApart(g, k, T)
      BY SumTakesApart
    <3>5. h[T] = f[x] + h[T \ {x}] /\ k[T] = g[x] + k[T \ {x}]
      BY <3>4 DEF TakesApart
    <3> QED  BY <3>3, <3>5
  <2> QED  BY <2>1, <2>2
<1> HIDE DEF R
<1>3. \A i \in Nat : i \in R
  BY <1>1, <1>2, NaturalsAreInductive
<1>4. V \in Small(S, n) => V \in Small(S, Cardinality(S)) /\ Cardinality(S) \in Nat
  BY SmallSets DEF Small
<1> QED  BY <1>3, <1>4 DEF R

(* The total of f over the finite set T.                                   *)
IsTotal(f, T, v) == \E h : IsSum(T, Cardinality(T), f, h) /\ v = h[T]
Total(f, T) == CHOOSE v : IsTotal(f, T, v)

LEMMA TotalExists ==
    ASSUME NEW T, IsFiniteSet(T), NEW f \in [T -> Nat]
    PROVE  /\ IsTotal(f, T, Total(f, T)) /\ Total(f, T) \in Nat
           /\ \A v : IsTotal(f, T, v) => v = Total(f, T)
<1>1. Cardinality(T) \in Nat /\ T \in Small(T, Cardinality(T))
  BY SmallSets
<1>2. \E v : IsTotal(f, T, v)
  BY <1>1, SumExists DEF IsTotal
<1>3. IsTotal(f, T, Total(f, T))
  BY <1>2, Zenon DEF Total
<1>4. ASSUME NEW u, IsTotal(f, T, u), NEW v, IsTotal(f, T, v)  PROVE u = v /\ u \in Nat
  <2>1. PICK h : IsSum(T, Cardinality(T), f, h) /\ u = h[T]
    BY <1>4 DEF IsTotal
  <2>2. PICK k : IsSum(T, Cardinality(T), f, k) /\ v = k[T]
    BY <1>4 DEF IsTotal
  <2>3. h[T] = k[T]
    BY <1>1, <2>1, <2>2, SumsAgree
  <2>4. h[T] \in Nat
    BY <1>1, <2>1, SumTakesApart DEF TakesApart
  <2> QED  BY <2>1, <2>2, <2>3, <2>4
<1> QED  BY <1>3, <1>4

LEMMA TotalOfNothing ==
    ASSUME NEW f \in [{} -> Nat]
    PROVE  Total(f, {}) = 0
<1>1. IsFiniteSet({})
  BY FS_EmptySet
<1>2. PICK h : IsSum({}, Cardinality({}), f, h) /\ Total(f, {}) = h[{}]
  BY <1>1, TotalExists DEF IsTotal
<1>3. Cardinality({}) \in Nat /\ {} \in Small({}, Cardinality({}))
  BY <1>1, SmallSets
<1>4. TakesApart(f, h, {})
  BY <1>1, <1>2, <1>3, SumTakesApart
<1> QED  BY <1>2, <1>4 DEF TakesApart

(* One more element.                                                       *)
LEMMA TotalOfOneMore ==
    ASSUME NEW T, IsFiniteSet(T), NEW f \in [T -> Nat], NEW x, x \notin T,
           NEW g \in [T \cup {x} -> Nat], \A y \in T : g[y] = f[y]
    PROVE  Total(g, T \cup {x}) = Total(f, T) + g[x]
<1> DEFINE U == T \cup {x}
           n == Cardinality(T)
           m == Cardinality(U)
<1>1. IsFiniteSet(U)
  BY FS_AddElement
<1>2. n \in Nat /\ m \in Nat /\ T \in Small(T, n) /\ U \in Small(U, m) /\ x \in U
  BY <1>1, SmallSets
<1>3. U \ {x} = T /\ T \in SUBSET U /\ T \in SUBSET (T \cap U)
  OBVIOUS
<1>4. T \in Small(U, m)
  BY <1>1, <1>2, <1>3, SmallerSubset
<1>5. PICK h : IsSum(T, n, f, h) /\ Total(f, T) = h[T]
  BY TotalExists DEF IsTotal
<1>6. PICK k : IsSum(U, m, g, k) /\ Total(g, U) = k[U]
  BY <1>1, TotalExists DEF IsTotal
<1>7. g \in [U -> Nat]
  OBVIOUS
<1> HIDE DEF U, n, m
<1>8. k[U] = g[x] + k[T]
  <2>1. TakesApart(g, k, U)
    BY <1>1, <1>2, <1>6, <1>7, SumTakesApart
  <2> QED  BY <1>2, <1>3, <2>1 DEF TakesApart
<1>9. h[T] = k[T]
  BY <1>1, <1>2, <1>3, <1>4, <1>5, <1>6, <1>7, SumsAgree
<1>10. g[x] \in Nat /\ h[T] \in Nat
  BY <1>2, <1>5, <1>7, SumTakesApart DEF TakesApart
<1> QED  BY <1>5, <1>6, <1>8, <1>9, <1>10 DEF U
=============================================================================
