----------------------------- MODULE FoldTheorems -----------------------------
(* Induction over finite sets and over natural numbers, stated with sets,   *)
(* and what it gives for the folds of the community modules.                *)
EXTENDS SequencesExt, FiniteSetTheorems, TLAPS

(* What holds of a subset of S when it holds of all smaller ones holds of   *)
(* every subset of S.                                                       *)
LEMMA SubsetInduction ==
    ASSUME NEW S, IsFiniteSet(S), NEW Good,
           \A T \in SUBSET S : (\A U \in (SUBSET T) \ {T} : U \in Good) => T \in Good
    PROVE  \A T \in SUBSET S : T \in Good
<1> DEFINE Bad == (SUBSET S) \ Good
<1>1. SUFFICES ASSUME Bad # {} PROVE FALSE
  OBVIOUS
<1>2. Bad \subseteq FiniteSubsetsOf(S)
  BY FS_FiniteSubsetsOfFinite
<1>3. PICK T \in Bad : \A U \in Bad : ~(<<U, T>> \in StrictSubsetOrdering(S))
  <2> HIDE DEF Bad
  <2> QED BY <1>1, <1>2, FS_StrictSubsetOrderingWellFounded, WFMin
<1>4. ASSUME NEW U \in (SUBSET T) \ {T} PROVE U \in Good
  <2>1. U \in SUBSET S /\ <<U, T>> \in StrictSubsetOrdering(S)
    BY DEF StrictSubsetOrdering
  <2> QED BY <1>3, <2>1
<1> QED BY <1>4

LEMMA NatSetInduction ==
    ASSUME NEW Good, 0 \in Good, \A n \in Nat : n \in Good => n + 1 \in Good
    PROVE  \A n \in Nat : n \in Good
<1> TAKE n \in Nat
<1>1. IsFiniteSet(1 .. n) /\ Cardinality(1 .. n) = n
  BY FS_Interval
<1> DEFINE Sets == {T \in SUBSET (1 .. n) : Cardinality(T) \in Good}
<1>2. ASSUME NEW T \in SUBSET (1 .. n),
             \A U \in (SUBSET T) \ {T} : U \in Sets
      PROVE  T \in Sets
  <2>1. CASE T = {}
    BY <2>1, FS_EmptySet
  <2>2. CASE T # {}
    <3>1. PICK x \in T : TRUE
      BY <2>2
    <3>2. T \ {x} \in Sets
      BY <1>2
    <3>3. IsFiniteSet(T)
      BY <1>1, FS_Subset
    <3>4. /\ Cardinality(T \ {x}) = Cardinality(T) - 1
          /\ Cardinality(T) \in Nat /\ Cardinality(T \ {x}) \in Nat
      BY <3>3, FS_RemoveElement, FS_CardinalityType
    <3>5. Cardinality(T) = Cardinality(T \ {x}) + 1
      BY <3>4
    <3> QED BY <3>2, <3>4, <3>5
  <2> QED BY <2>1, <2>2
<1>3. \A T \in SUBSET (1 .. n) : T \in Sets
  <2> DEFINE interval == 1 .. n
  <2>1. IsFiniteSet(interval)
    BY <1>1
  <2>2. \A T \in SUBSET interval :
           (\A U \in (SUBSET T) \ {T} : U \in Sets) => T \in Sets
    BY <1>2
  <2> HIDE DEF Sets, interval
  <2>3. \A T \in SUBSET interval : T \in Sets
    BY <2>1, <2>2, SubsetInduction
  <2> QED BY <2>3 DEF interval
<1> QED BY <1>1, <1>3

-----------------------------------------------------------------------------
(* A fold over a finite set: g[T] folds the subset T of S, the chosen       *)
(* element last.                                                            *)
Chooses(S, choose) ==
    choose \in [(SUBSET S) \ {{}} -> S] /\ \A T \in (SUBSET S) \ {{}} : choose[T] \in T

IsFold(S, choose, base, op, g) ==
    g = [T \in SUBSET S |->
            IF T = {} THEN base ELSE op[g[T \ {choose[T]}], choose[T]]]

(* Folds of the subsets with at most n elements.                            *)
UpTo(S, n) == {T \in SUBSET S : Cardinality(T) <= n}
IsFoldUpTo(S, choose, base, op, n, g) ==
    g = [T \in UpTo(S, n) |->
            IF T = {} THEN base ELSE op[g[T \ {choose[T]}], choose[T]]]

LEMMA FoldsExist ==
    ASSUME NEW S, IsFiniteSet(S), NEW V, NEW choose, Chooses(S, choose),
           NEW base \in V, NEW op \in [V \X S -> V]
    PROVE  \E g \in [SUBSET S -> V] : IsFold(S, choose, base, op, g)
<1> DEFINE Good == {n \in Nat : \E g \in [UpTo(S, n) -> V] :
                                   IsFoldUpTo(S, choose, base, op, n, g)}
<1>1. \A T \in SUBSET S : IsFiniteSet(T) /\ Cardinality(T) \in Nat
  BY FS_Subset, FS_CardinalityType
<1>2. 0 \in Good
  <2>1. UpTo(S, 0) = {{}}
    BY <1>1, FS_EmptySet DEF UpTo
  <2> DEFINE g == [T \in {{}} |-> base]
  <2>2. g \in [UpTo(S, 0) -> V] /\ IsFoldUpTo(S, choose, base, op, 0, g)
    BY <2>1 DEF IsFoldUpTo
  <2> HIDE DEF g
  <2> QED BY <2>2
<1>3. ASSUME NEW n \in Nat, n \in Good PROVE n + 1 \in Good
  <2>1. PICK g \in [UpTo(S, n) -> V] : IsFoldUpTo(S, choose, base, op, n, g)
    BY <1>3
  <2> DEFINE h == [T \in UpTo(S, n + 1) |->
                      IF T = {} THEN base ELSE op[g[T \ {choose[T]}], choose[T]]]
  <2>2. \A T \in UpTo(S, n) : T \in UpTo(S, n + 1)
    BY <1>1 DEF UpTo
  <2>3. \A T \in UpTo(S, n + 1) : T # {} =>
           choose[T] \in T /\ choose[T] \in S /\ T \ {choose[T]} \in UpTo(S, n)
    <3> SUFFICES ASSUME NEW T \in UpTo(S, n + 1), T # {}
                 PROVE  choose[T] \in T /\ choose[T] \in S
                        /\ T \ {choose[T]} \in UpTo(S, n)
      OBVIOUS
    <3>1. T \in SUBSET S /\ Cardinality(T) <= n + 1 /\ choose[T] \in T
      BY DEF UpTo, Chooses
    <3>2. Cardinality(T \ {choose[T]}) = Cardinality(T) - 1
      BY <1>1, <3>1, FS_RemoveElement
    <3> QED BY <1>1, <3>1, <3>2 DEF UpTo
  <2>4. h \in [UpTo(S, n + 1) -> V]
    BY <2>3
  <2>5. \A T \in UpTo(S, n) : h[T] = g[T]
    BY <2>1, <2>2 DEF IsFoldUpTo
  <2>6. IsFoldUpTo(S, choose, base, op, n + 1, h)
    BY <2>3, <2>5 DEF IsFoldUpTo
  <2> HIDE DEF h
  <2> QED BY <2>4, <2>6
<1>4. Cardinality(S) \in Good
  <2> HIDE DEF Good
  <2> QED BY <1>1, <1>2, <1>3, NatSetInduction
<1>5. UpTo(S, Cardinality(S)) = SUBSET S
  BY FS_Subset, FS_CardinalityType DEF UpTo
<1> QED BY <1>4, <1>5 DEF IsFoldUpTo, IsFold

LEMMA FoldsUnique ==
    ASSUME NEW S, IsFiniteSet(S), NEW choose, Chooses(S, choose),
           NEW base, NEW op,
           NEW g, IsFold(S, choose, base, op, g),
           NEW h, IsFold(S, choose, base, op, h)
    PROVE  g = h
<1> DEFINE Good == {T \in SUBSET S : g[T] = h[T]}
<1>1. ASSUME NEW T \in SUBSET S, \A U \in (SUBSET T) \ {T} : U \in Good
      PROVE  T \in Good
  <2>1. CASE T = {}
    BY <2>1 DEF IsFold
  <2>2. CASE T # {}
    <3>1. T \ {choose[T]} \in (SUBSET T) \ {T}
      BY <2>2 DEF Chooses
    <3>2. g[T \ {choose[T]}] = h[T \ {choose[T]}]
      BY <1>1, <3>1
    <3> QED BY <2>2, <3>2 DEF IsFold
  <2> QED BY <2>1, <2>2
<1>2. \A T \in SUBSET S : T \in Good
  <2> HIDE DEF Good
  <2> QED BY <1>1, SubsetInduction
<1> QED BY <1>2 DEF IsFold

-----------------------------------------------------------------------------
(* The sum of the numbers f[x], for the elements x of S.                    *)
SumOver(f, S) == MapThenSumSet(LAMBDA x : f[x], S)

IsSum(f, S, g) ==
    g = [T \in SUBSET S |->
            IF T = {} THEN 0
            ELSE f[CHOOSE x \in T : TRUE] + g[T \ {CHOOSE x \in T : TRUE}]]

LEMMA SumsUnique ==
    ASSUME NEW S, IsFiniteSet(S), NEW f, NEW g, NEW h,
           IsSum(f, S, g), IsSum(f, S, h)
    PROVE  h = g
<1> DEFINE Good == {T \in SUBSET S : g[T] = h[T]}
<1>1. ASSUME NEW T \in SUBSET S, \A U \in (SUBSET T) \ {T} : U \in Good
      PROVE  T \in Good
  <2>1. CASE T = {}
    BY <2>1 DEF IsSum
  <2>2. CASE T # {}
    <3> DEFINE x == CHOOSE x \in T : TRUE
    <3>1. T \ {x} \in (SUBSET T) \ {T}
      BY <2>2
    <3>2. g[T \ {x}] = h[T \ {x}]
      BY <1>1, <3>1
    <3>3. g[T] = f[x] + g[T \ {x}] /\ h[T] = f[x] + h[T \ {x}]
      BY <2>2 DEF IsSum
    <3> QED BY <3>2, <3>3
  <2> QED BY <2>1, <2>2
<1>2. \A T \in SUBSET S : T \in Good
  <2> HIDE DEF Good
  <2> QED BY <1>1, SubsetInduction
<1> QED BY <1>2 DEF IsSum

LEMMA SumsExist ==
    ASSUME NEW S, IsFiniteSet(S), NEW f \in [S -> Int]
    PROVE  \E g \in [SUBSET S -> Int] : IsSum(f, S, g) /\ SumOver(f, S) = g[S]
<1> DEFINE choose == [T \in (SUBSET S) \ {{}} |-> CHOOSE x \in T : TRUE]
           op == [p \in Int \X S |-> f[p[2]] + p[1]]
<1>1. Chooses(S, choose)
  BY DEF Chooses
<1>2. op \in [Int \X S -> Int]
  OBVIOUS
<1>3. \A g \in [SUBSET S -> Int] : IsFold(S, choose, 0, op, g) => IsSum(f, S, g)
  <2> SUFFICES ASSUME NEW g \in [SUBSET S -> Int], IsFold(S, choose, 0, op, g)
               PROVE  IsSum(f, S, g)
    OBVIOUS
  <2>1. \A T \in SUBSET S : T # {} =>
           op[g[T \ {choose[T]}], choose[T]]
           = f[CHOOSE x \in T : TRUE] + g[T \ {CHOOSE x \in T : TRUE}]
    <3> SUFFICES ASSUME NEW T \in SUBSET S, T # {}
                 PROVE  op[g[T \ {choose[T]}], choose[T]]
                        = f[CHOOSE x \in T : TRUE] + g[T \ {CHOOSE x \in T : TRUE}]
      OBVIOUS
    <3>1. choose[T] = (CHOOSE x \in T : TRUE) /\ choose[T] \in S
      OBVIOUS
    <3>2. g[T \ {choose[T]}] \in Int
      OBVIOUS
    <3> QED BY <3>1, <3>2
  <2> HIDE DEF choose, op
  <2> QED BY <2>1 DEF IsFold, IsSum
<1>4. \E g \in [SUBSET S -> Int] : IsFold(S, choose, 0, op, g)
  <2>1. 0 \in Int
    OBVIOUS
  <2> HIDE DEF choose, op
  <2> QED BY <1>1, <1>2, <2>1, FoldsExist
<1>5. PICK g \in [SUBSET S -> Int] : IsSum(f, S, g)
  BY <1>3, <1>4
<1>6. \A h : IsSum(f, S, h) => h = g
  BY <1>5, SumsUnique
<1>7. (CHOOSE h : IsSum(f, S, h)) = g
  BY <1>5, <1>6
<1>8. SumOver(f, S) = (CHOOSE h : IsSum(f, S, h))[S]
  BY DEF SumOver, MapThenSumSet, MapThenFoldSet, IsSum
<1> QED BY <1>5, <1>7, <1>8

LEMMA SumType ==
    ASSUME NEW S, IsFiniteSet(S), NEW f \in [S -> Int]
    PROVE  SumOver(f, S) \in Int
<1>1. PICK g \in [SUBSET S -> Int] : SumOver(f, S) = g[S]
  BY SumsExist
<1> QED BY <1>1

(* Sums are linear: if k + h = f + g everywhere, then so do their sums.     *)
LEMMA SumLinear ==
    ASSUME NEW S, IsFiniteSet(S),
           NEW f \in [S -> Int], NEW g \in [S -> Int],
           NEW h \in [S -> Int], NEW k \in [S -> Int],
           \A x \in S : k[x] + h[x] = f[x] + g[x]
    PROVE  SumOver(k, S) + SumOver(h, S) = SumOver(f, S) + SumOver(g, S)
<1>1. PICK F \in [SUBSET S -> Int] : IsSum(f, S, F) /\ SumOver(f, S) = F[S]
  BY SumsExist
<1>2. PICK G \in [SUBSET S -> Int] : IsSum(g, S, G) /\ SumOver(g, S) = G[S]
  BY SumsExist
<1>3. PICK H \in [SUBSET S -> Int] : IsSum(h, S, H) /\ SumOver(h, S) = H[S]
  BY SumsExist
<1>4. PICK K \in [SUBSET S -> Int] : IsSum(k, S, K) /\ SumOver(k, S) = K[S]
  BY SumsExist
<1> DEFINE Good == {T \in SUBSET S : K[T] + H[T] = F[T] + G[T]}
<1>5. ASSUME NEW T \in SUBSET S, \A U \in (SUBSET T) \ {T} : U \in Good
      PROVE  T \in Good
  <2>1. CASE T = {}
    BY <1>1, <1>2, <1>3, <1>4, <2>1 DEF IsSum
  <2>2. CASE T # {}
    <3> DEFINE x == CHOOSE x \in T : TRUE
               U == T \ {x}
    <3>1. x \in S /\ U \in SUBSET S /\ U \in (SUBSET T) \ {T}
      BY <2>2
    <3>2. /\ F[T] = f[x] + F[U] /\ G[T] = g[x] + G[U]
          /\ H[T] = h[x] + H[U] /\ K[T] = k[x] + K[U]
      BY <1>1, <1>2, <1>3, <1>4, <2>2 DEF IsSum
    <3>3. K[U] + H[U] = F[U] + G[U]
      BY <1>5, <3>1
    <3> HIDE DEF x, U
    <3>4. /\ f[x] \in Int /\ g[x] \in Int /\ h[x] \in Int /\ k[x] \in Int
          /\ F[U] \in Int /\ G[U] \in Int /\ H[U] \in Int /\ K[U] \in Int
      BY <3>1
    <3>5. k[x] + h[x] = f[x] + g[x]
      BY <3>1
    <3> QED BY <3>2, <3>3, <3>4, <3>5
  <2> QED BY <2>1, <2>2
<1>6. \A T \in SUBSET S : T \in Good
  <2> HIDE DEF Good
  <2> QED BY <1>5, SubsetInduction
<1> QED BY <1>1, <1>2, <1>3, <1>4, <1>6

LEMMA SumOfZeros ==
    ASSUME NEW S, IsFiniteSet(S), NEW f \in [S -> Int], \A x \in S : f[x] = 0
    PROVE  SumOver(f, S) = 0
<1>2. PICK F \in [SUBSET S -> Int] : IsSum(f, S, F) /\ SumOver(f, S) = F[S]
  BY SumsExist
<1> DEFINE Good == {T \in SUBSET S : F[T] = 0}
<1>3. ASSUME NEW T \in SUBSET S, \A U \in (SUBSET T) \ {T} : U \in Good
      PROVE  T \in Good
  <2>1. CASE T = {}
    BY <1>2, <2>1 DEF IsSum
  <2>2. CASE T # {}
    <3> DEFINE x == CHOOSE x \in T : TRUE
               U == T \ {x}
    <3>1. x \in S /\ U \in SUBSET S /\ U \in (SUBSET T) \ {T}
      BY <2>2
    <3>2. F[T] = f[x] + F[U]
      BY <1>2, <2>2 DEF IsSum
    <3> QED BY <1>3, <3>1, <3>2
  <2> QED BY <2>1, <2>2
<1>4. \A T \in SUBSET S : T \in Good
  <2> HIDE DEF Good
  <2> QED BY <1>3, SubsetInduction
<1> QED BY <1>2, <1>4

(* No part of a sum of natural numbers exceeds it.                          *)
LEMMA SumOfNats ==
    ASSUME NEW S, IsFiniteSet(S), NEW f \in [S -> Nat]
    PROVE  SumOver(f, S) \in Nat /\ \A c \in S : f[c] <= SumOver(f, S)
<1>1. f \in [S -> Int]
  OBVIOUS
<1>2. PICK F \in [SUBSET S -> Int] : IsSum(f, S, F) /\ SumOver(f, S) = F[S]
  BY <1>1, SumsExist
<1> DEFINE Good == {T \in SUBSET S : F[T] \in Nat /\ \A c \in T : f[c] <= F[T]}
<1>3. ASSUME NEW T \in SUBSET S, \A U \in (SUBSET T) \ {T} : U \in Good
      PROVE  T \in Good
  <2>1. CASE T = {}
    BY <1>2, <2>1 DEF IsSum
  <2>2. CASE T # {}
    <3> DEFINE x == CHOOSE x \in T : TRUE
               U == T \ {x}
    <3>1. x \in T /\ U \in SUBSET S /\ U \in (SUBSET T) \ {T}
      BY <2>2
    <3>2. F[T] = f[x] + F[U]
      BY <1>2, <2>2 DEF IsSum
    <3>3. F[U] \in Nat /\ \A c \in U : f[c] <= F[U]
      BY <1>3, <3>1
    <3>4. \A c \in T : c = x \/ c \in U
      OBVIOUS
    <3> HIDE DEF x, U
    <3>5. f[x] \in Nat /\ \A c \in T : f[c] \in Nat
      BY <3>1
    <3> QED BY <3>2, <3>3, <3>4, <3>5
  <2> QED BY <2>1, <2>2
<1>4. \A T \in SUBSET S : T \in Good
  <2> HIDE DEF Good
  <2> QED BY <1>3, SubsetInduction
<1> QED BY <1>2, <1>4

(* Where only f[c] changes, the sum changes as f[c] does.                   *)
LEMMA SumOfChange ==
    ASSUME NEW S, IsFiniteSet(S), NEW f \in [S -> Int], NEW k \in [S -> Int],
           NEW c \in S, \A x \in S \ {c} : k[x] = f[x]
    PROVE  SumOver(k, S) = SumOver(f, S) + k[c] - f[c]
<1>1. PICK F \in [SUBSET S -> Int] : IsSum(f, S, F) /\ SumOver(f, S) = F[S]
  BY SumsExist
<1>2. PICK K \in [SUBSET S -> Int] : IsSum(k, S, K) /\ SumOver(k, S) = K[S]
  BY SumsExist
<1> DEFINE Good == {T \in SUBSET S :
                       K[T] = F[T] + IF c \in T THEN k[c] - f[c] ELSE 0}
<1>3. ASSUME NEW T \in SUBSET S, \A U \in (SUBSET T) \ {T} : U \in Good
      PROVE  T \in Good
  <2>1. CASE T = {}
    BY <1>1, <1>2, <2>1 DEF IsSum
  <2>2. CASE T # {}
    <3> DEFINE x == CHOOSE x \in T : TRUE
               U == T \ {x}
    <3>1. x \in T /\ U \in SUBSET S /\ U \in (SUBSET T) \ {T}
      BY <2>2
    <3>2. F[T] = f[x] + F[U] /\ K[T] = k[x] + K[U]
      BY <1>1, <1>2, <2>2 DEF IsSum
    <3>3. K[U] = F[U] + IF c \in U THEN k[c] - f[c] ELSE 0
      BY <1>3, <3>1
    <3>4. c \in U <=> c \in T /\ c # x
      OBVIOUS
    <3> HIDE DEF x, U
    <3>5. /\ f[x] \in Int /\ k[x] \in Int /\ F[U] \in Int /\ K[U] \in Int
          /\ f[c] \in Int /\ k[c] \in Int
      BY <3>1
    <3>6. CASE x = c
      BY <3>1, <3>2, <3>3, <3>4, <3>5, <3>6
    <3>7. CASE x # c
      <4>1. k[x] = f[x]
        BY <3>1, <3>7
      <4> QED BY <3>1, <3>2, <3>3, <3>4, <3>5, <3>7, <4>1
    <3> QED BY <3>6, <3>7
  <2> QED BY <2>1, <2>2
<1>4. \A T \in SUBSET S : T \in Good
  <2> HIDE DEF Good
  <2> QED BY <1>3, SubsetInduction
<1>5. f[c] \in Int /\ k[c] \in Int /\ F[S] \in Int
  OBVIOUS
<1> QED BY <1>1, <1>2, <1>4, <1>5

-----------------------------------------------------------------------------
(* FoldLeft takes the elements of a sequence one after another.             *)

LEMMA MaxInSet ==
    ASSUME NEW n \in Nat, NEW T \in SUBSET (1 .. n), T # {}
    PROVE  Max(T) \in T /\ \A y \in T : y <= Max(T)
<1> DEFINE Good == {U \in SUBSET (1 .. n) :
                       U = {} \/ \E x \in U : \A y \in U : y <= x}
<1>1. ASSUME NEW U \in SUBSET (1 .. n), \A W \in (SUBSET U) \ {U} : W \in Good
      PROVE  U \in Good
  <2>1. CASE U = {}
    BY <2>1
  <2>2. CASE U # {}
    <3>1. PICK z \in U : TRUE
      BY <2>2
    <3>2. U \ {z} \in Good
      BY <1>1
    <3>3. CASE U \ {z} = {}
      <4>1. \A y \in U : y <= z
        BY <3>3
      <4> QED BY <4>1
    <3>4. CASE U \ {z} # {}
      <4>1. PICK x \in U \ {z} : \A y \in U \ {z} : y <= x
        BY <3>2, <3>4
      <4>2. \A y \in U : y = z \/ y <= x
        BY <4>1
      <4>3. CASE z <= x
        BY <4>2, <4>3
      <4>4. CASE x <= z
        BY <4>2, <4>4
      <4> QED BY <4>3, <4>4
    <3> QED BY <3>3, <3>4
  <2> QED BY <2>1, <2>2
<1>2. \A U \in SUBSET (1 .. n) : U \in Good
  <2>1. IsFiniteSet(1 .. n)
    BY FS_Interval
  <2> HIDE DEF Good
  <2> QED BY <1>1, <2>1, SubsetInduction
<1>3. \E x \in T : \A y \in T : x >= y
  BY <1>2
<1> QED BY <1>3 DEF Max

(* iter[1 .. i] is what FoldLeft makes of the first i elements of q.        *)
IsLeftFold(q, base, op, iter) ==
    iter = [T \in SUBSET DOMAIN q |->
               IF T = {} THEN base ELSE op[iter[T \ {Max(T)}], q[Max(T)]]]

LEMMA LeftFoldsExist ==
    ASSUME NEW n \in Nat, NEW D, NEW q \in [1 .. n -> D],
           NEW V, NEW base \in V, NEW op \in [V \X D -> V]
    PROVE  \E iter \in [SUBSET (1 .. n) -> V] : IsLeftFold(q, base, op, iter)
<1> DEFINE choose == [T \in (SUBSET (1 .. n)) \ {{}} |-> Max(T)]
           step == [p \in V \X (1 .. n) |-> op[p[1], q[p[2]]]]
<1>1. IsFiniteSet(1 .. n)
  BY FS_Interval
<1>2. Chooses(1 .. n, choose)
  BY MaxInSet DEF Chooses
<1>3. step \in [V \X (1 .. n) -> V]
  OBVIOUS
<1>4. PICK iter \in [SUBSET (1 .. n) -> V] : IsFold(1 .. n, choose, base, step, iter)
  <2> HIDE DEF choose, step
  <2> QED BY <1>1, <1>2, <1>3, FoldsExist
<1>5. ASSUME NEW T \in SUBSET (1 .. n), T # {}
      PROVE  iter[T] = op[iter[T \ {Max(T)}], q[Max(T)]]
  <2>1. Max(T) \in 1 .. n
    BY <1>5, MaxInSet
  <2>2. iter[T] = step[iter[T \ {choose[T]}], choose[T]]
    <3> HIDE DEF choose, step
    <3> QED BY <1>4, <1>5 DEF IsFold
  <2>3. choose[T] = Max(T)
    BY <1>5
  <2>4. step[iter[T \ {Max(T)}], Max(T)] = op[iter[T \ {Max(T)}], q[Max(T)]]
    BY <2>1
  <2> QED BY <2>2, <2>3, <2>4
<1>6. iter[{}] = base
  BY <1>4 DEF IsFold
<1>7. IsLeftFold(q, base, op, iter)
  BY <1>5, <1>6 DEF IsLeftFold
<1> QED BY <1>7

(* The first i elements, then the next one.                                 *)
LeftFoldSteps(n, q, base, op, iter) ==
    /\ iter[{}] = base
    /\ \A i \in 1 .. n : iter[1 .. i] = op[iter[1 .. i - 1], q[i]]

LEMMA LeftFoldsStep ==
    ASSUME NEW n \in Nat, NEW q, DOMAIN q = 1 .. n, NEW base, NEW op, NEW iter,
           IsLeftFold(q, base, op, iter)
    PROVE  LeftFoldSteps(n, q, base, op, iter)
<1>1. iter[{}] = base
  BY DEF IsLeftFold
<1>2. ASSUME NEW i \in 1 .. n PROVE iter[1 .. i] = op[iter[1 .. i - 1], q[i]]
  <2>1. 1 .. i \in SUBSET (1 .. n) /\ i \in 1 .. i
    OBVIOUS
  <2>2. Max(1 .. i) = i
    <3>1. Max(1 .. i) \in 1 .. i /\ i <= Max(1 .. i)
      BY <2>1, MaxInSet
    <3> QED BY <3>1
  <2>3. (1 .. i) \ {i} = 1 .. i - 1
    OBVIOUS
  <2> QED BY <2>1, <2>2, <2>3 DEF IsLeftFold
<1> QED BY <1>1, <1>2 DEF LeftFoldSteps
=============================================================================
