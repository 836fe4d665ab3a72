----------------------- MODULE DetectionPipelineProofs -----------------------
(***************************************************************************)
(* DetectionPipeline, for every script, window size and step: typing, the  *)
(* window manager inside it, and what a window's contents do to the        *)
(* decision.  The scores are sums over a window; what is said of a sum is  *)
(* proved by induction over the subsets of the window.                     *)
(*                                                                         *)
(* Then what needs the clock: how many records a window can hold, which    *)
(* scripts the emission of windows keeps up with, and which floods end     *)
(* reported.                                                               *)
(***************************************************************************)
EXTENDS DetectionPipeline, ParserProofs, FiniteSetTheorems

-----------------------------------------------------------------------------
(***************************************************************************)
(* Induction                                                               *)
(***************************************************************************)

\* Induction over the subsets of a finite set, the induction hypothesis being
\* membership in a set.
LEMMA SubsetInduction ==
  ASSUME NEW S, IsFiniteSet(S), NEW G,
         \A T \in SUBSET S : (\A x \in T : T \ {x} \in G) => T \in G
  PROVE  SUBSET S \subseteq G
<1> DEFINE Bad == {T \in SUBSET S : T \notin G}
<1> SUFFICES ASSUME Bad # {} PROVE FALSE
  OBVIOUS
<1>1. IsWellFoundedOn(StrictSubsetOrdering(S), SUBSET S)
  <2>1. FiniteSubsetsOf(S) = SUBSET S
    BY FS_FiniteSubsetsOfFinite
  <2>2. IsWellFoundedOn(StrictSubsetOrdering(S), FiniteSubsetsOf(S))
    BY FS_StrictSubsetOrderingWellFounded
  <2> QED  BY <2>1, <2>2
<1>2. PICK T \in Bad : \A U \in Bad : ~(<<U, T>> \in StrictSubsetOrdering(S))
  <2>1. Bad \subseteq SUBSET S
    OBVIOUS
  <2> HIDE DEF Bad
  <2> QED  BY <1>1, <2>1, WFMin
<1>3. ASSUME NEW x \in T PROVE T \ {x} \in G
  <2>1. T \ {x} \in SUBSET S /\ T \ {x} # T /\ T \ {x} \subseteq T
    OBVIOUS
  <2>2. <<T \ {x}, T>> \in StrictSubsetOrdering(S)
    BY <2>1 DEF StrictSubsetOrdering
  <2> QED  BY <1>2, <2>1, <2>2
<1> QED  BY <1>3

\* Induction over the naturals, in the same form.
LEMMA NaturalInduction ==
  ASSUME NEW G, 0 \in G, \A n \in Nat : n \in G => n + 1 \in G
  PROVE  Nat \subseteq G
<1> DEFINE Bad == {n \in Nat : n \notin G}
<1> SUFFICES ASSUME Bad # {} PROVE FALSE
  OBVIOUS
<1>1. PICK n \in Bad : \A m \in Bad : ~(<<m, n>> \in OpToRel(<, Nat))
  <2>1. Bad \subseteq Nat
    OBVIOUS
  <2> HIDE DEF Bad
  <2> QED  BY <2>1, WFMin, NatLessThanWellFounded
<1>2. n # 0 /\ n - 1 \in Nat /\ n - 1 < n
  OBVIOUS
<1>3. <<n - 1, n>> \in OpToRel(<, Nat)
  BY <1>2 DEF OpToRel
<1>4. n - 1 \in G
  BY <1>1, <1>2, <1>3
<1>5. n - 1 + 1 = n
  BY <1>2
<1> QED  BY <1>2, <1>4, <1>5

-----------------------------------------------------------------------------
(***************************************************************************)
(* Sums over finite sets                                                   *)
(***************************************************************************)

Pick(s) == CHOOSE x \in s : TRUE

\* g adds f up over every subset of S, in the order in which a fold picks.
Totals(g, S, f) ==
  g = [s \in SUBSET S |->
         IF s = {} THEN 0 ELSE f[Pick(s)] + g[s \ {Pick(s)}]]

LEMMA PickIn ==
  ASSUME NEW s, s # {}
  PROVE  Pick(s) \in s
BY DEF Pick

\* The recursion is well-founded: there is such a function.
LEMMA TotalsExist ==
  ASSUME NEW S, IsFiniteSet(S), NEW f
  PROVE  \E g : Totals(g, S, f)
<1> DEFINE Level(n) == {s \in SUBSET S : Cardinality(s) <= n}
           Sum(g, s) == IF s = {} THEN 0 ELSE f[Pick(s)] + g[s \ {Pick(s)}]
           G == {n \in Nat : \E g : g = [s \in Level(n) |-> Sum(g, s)]}
<1>1. \A s \in SUBSET S : /\ IsFiniteSet(s) /\ Cardinality(s) \in Nat
                          /\ Cardinality(s) <= Cardinality(S)
  BY FS_Subset, FS_CardinalityType
<1>2. \A s \in SUBSET S : s # {} =>
        /\ s \ {Pick(s)} \in SUBSET S
        /\ Cardinality(s \ {Pick(s)}) = Cardinality(s) - 1
  BY <1>1, FS_RemoveElement, PickIn
<1>3. 0 \in G
  <2>1. \A s \in Level(0) : s = {}
    <3> TAKE s \in Level(0)
    <3>1. Cardinality(s) = 0 /\ IsFiniteSet(s)
      BY <1>1
    <3> QED  BY <3>1, FS_EmptySet
  <2> DEFINE g == [s \in Level(0) |-> 0]
  <2>2. g = [s \in Level(0) |-> Sum(g, s)]
    BY <2>1
  <2> QED  BY <2>2
<1>4. ASSUME NEW n \in Nat, n \in G
      PROVE  n + 1 \in G
  <2>1. PICK g : g = [s \in Level(n) |-> Sum(g, s)]
    BY <1>4
  <2> DEFINE h == [s \in Level(n + 1) |-> Sum(g, s)]
  <2>2. \A s \in Level(n) : s \in Level(n + 1)
    BY <1>1
  <2>3. \A s \in Level(n) : h[s] = g[s]
    <3> HIDE DEF Level, Sum
    <3> QED  BY <2>1, <2>2
  <2>4. \A s \in Level(n + 1) : Sum(h, s) = Sum(g, s)
    <3> TAKE s \in Level(n + 1)
    <3>1. CASE s = {}
      BY <3>1
    <3>2. CASE s # {}
      <4>1. s \ {Pick(s)} \in Level(n)
        BY <1>1, <1>2, <3>2
      <4>2. h[s \ {Pick(s)}] = g[s \ {Pick(s)}]
        BY <2>3, <4>1
      <4> HIDE DEF h
      <4> QED  BY <4>2
    <3> QED  BY <3>1, <3>2
  <2>5. h = [s \in Level(n + 1) |-> Sum(h, s)]
    <3> HIDE DEF Sum, Level
    <3> QED  BY <2>4
  <2>6. n + 1 \in Nat
    BY <1>4
  <2> HIDE DEF h, Sum, Level
  <2> QED  BY <2>5, <2>6
<1>5. Cardinality(S) \in G
  <2>1. Cardinality(S) \in Nat
    BY FS_CardinalityType
  <2> HIDE DEF G
  <2> QED  BY <1>3, <1>4, <2>1, NaturalInduction
<1>6. Level(Cardinality(S)) = SUBSET S
  BY <1>1
<1>7. PICK g : g = [s \in Level(Cardinality(S)) |-> Sum(g, s)]
  BY <1>5
<1> QED  BY <1>6, <1>7 DEF Totals

\* What the recursion says of one subset.
LEMMA TotalsUnfold ==
  ASSUME NEW g, NEW S, NEW f, Totals(g, S, f), NEW T \in SUBSET S
  PROVE  /\ T = {} => g[T] = 0
         /\ T # {} => /\ Pick(T) \in T
                      /\ g[T] = f[Pick(T)] + g[T \ {Pick(T)}]
<1>1. g[T] = IF T = {} THEN 0 ELSE f[Pick(T)] + g[T \ {Pick(T)}]
  BY DEF Totals
<1> QED  BY <1>1, PickIn

LEMMA EmptyTotal ==
  ASSUME NEW g, NEW S, NEW f, Totals(g, S, f), S = {}
  PROVE  g[S] = 0
BY DEF Totals

\* Naturals add up to a natural.
LEMMA TotalNatural ==
  ASSUME NEW S, IsFiniteSet(S), NEW d \in [S -> Nat], NEW g, Totals(g, S, d)
  PROVE  g[S] \in Nat
<1> DEFINE G == {T \in SUBSET S : g[T] \in Nat}
<1>1. ASSUME NEW T \in SUBSET S, \A x \in T : T \ {x} \in G
      PROVE  T \in G
  <2>1. CASE T = {}
    BY <2>1, TotalsUnfold
  <2>2. CASE T # {}
    <3>1. Pick(T) \in T /\ g[T] = d[Pick(T)] + g[T \ {Pick(T)}]
      BY <2>2, TotalsUnfold
    <3>2. d[Pick(T)] \in Nat /\ g[T \ {Pick(T)}] \in Nat
      BY <1>1, <3>1
    <3> QED  BY <3>1, <3>2
  <2> QED  BY <2>1, <2>2
<1>2. S \in G
  <2> HIDE DEF G
  <2> QED  BY <1>1, SubsetInduction
<1> QED  BY <1>2

\* The sums of the scores.
GapSum(W, S) == MapThenSumSet(LAMBDA r : Gap(W, r), S)

SquareSum(W, S) == MapThenSumSet(LAMBDA r : Square(Gap(W, r)), S)

LogSum(W, S) ==
  MapThenSumSet(LAMBDA a : VLog[Cardinality({r \in W : r.of.address = a})], S)

LEMMA GapTotals ==
  ASSUME NEW W, NEW S, IsFiniteSet(S)
  PROVE  \E g : /\ Totals(g, S, [r \in S |-> Gap(W, r)])
                /\ g[S] = GapSum(W, S)
<1> DEFINE f == [r \in S |-> Gap(W, r)]
           Sum(g, s) == IF s = {} THEN 0
                        ELSE Gap(W, Pick(s)) + g[s \ {Pick(s)}]
           sum == CHOOSE g : g = [s \in SUBSET S |-> Sum(g, s)]
<1>1. GapSum(W, S) = sum[S]
  BY DEF GapSum, MapThenSumSet, MapThenFoldSet, Pick
<1>2. ASSUME NEW g
      PROVE  g = [s \in SUBSET S |-> Sum(g, s)] <=> Totals(g, S, f)
  <2>1. \A s \in SUBSET S : s # {} => f[Pick(s)] = Gap(W, Pick(s))
    BY PickIn
  <2>2. \A s \in SUBSET S :
          Sum(g, s) = IF s = {} THEN 0 ELSE f[Pick(s)] + g[s \ {Pick(s)}]
    BY <2>1
  <2> HIDE DEF f, Sum
  <2> QED  BY <2>2 DEF Totals
<1>3. \E g : g = [s \in SUBSET S |-> Sum(g, s)]
  BY <1>2, TotalsExist
<1>4. sum = [s \in SUBSET S |-> Sum(sum, s)]
  <2> HIDE DEF Sum
  <2> QED  BY <1>3
<1>5. Totals(sum, S, f)
  <2> HIDE DEF sum, f, Sum
  <2> QED  BY <1>2, <1>4
<1> HIDE DEF sum
<1> QED  BY <1>1, <1>5

\* Likewise for the squares, and for the entropy of the addresses.
LEMMA SquareTotals ==
  ASSUME NEW W, NEW S, IsFiniteSet(S)
  PROVE  \E g : /\ Totals(g, S, [r \in S |-> Square(Gap(W, r))])
                /\ g[S] = SquareSum(W, S)
<1> DEFINE f == [r \in S |-> Square(Gap(W, r))]
           Sum(g, s) == IF s = {} THEN 0
                        ELSE Square(Gap(W, Pick(s))) + g[s \ {Pick(s)}]
           sum == CHOOSE g : g = [s \in SUBSET S |-> Sum(g, s)]
<1>1. SquareSum(W, S) = sum[S]
  BY DEF SquareSum, MapThenSumSet, MapThenFoldSet, Pick
<1>2. ASSUME NEW g
      PROVE  g = [s \in SUBSET S |-> Sum(g, s)] <=> Totals(g, S, f)
  <2>1. \A s \in SUBSET S : s # {} => f[Pick(s)] = Square(Gap(W, Pick(s)))
    BY PickIn
  <2>2. \A s \in SUBSET S :
          Sum(g, s) = IF s = {} THEN 0 ELSE f[Pick(s)] + g[s \ {Pick(s)}]
    BY <2>1
  <2> HIDE DEF f, Sum
  <2> QED  BY <2>2 DEF Totals
<1>3. \E g : g = [s \in SUBSET S |-> Sum(g, s)]
  BY <1>2, TotalsExist
<1>4. sum = [s \in SUBSET S |-> Sum(sum, s)]
  <2> HIDE DEF Sum
  <2> QED  BY <1>3
<1>5. Totals(sum, S, f)
  <2> HIDE DEF sum, f, Sum
  <2> QED  BY <1>2, <1>4
<1> HIDE DEF sum
<1> QED  BY <1>1, <1>5

\* How many records of W carry the address a.
Sharing(W, a) == Cardinality({r \in W : r.of.address = a})

LEMMA AddressTotals ==
  ASSUME NEW W, NEW S, IsFiniteSet(S)
  PROVE  \E g : /\ Totals(g, S, [a \in S |-> VLog[Sharing(W, a)]])
                /\ g[S] = LogSum(W, S)
<1> DEFINE f == [a \in S |-> VLog[Sharing(W, a)]]
           Sum(g, s) == IF s = {} THEN 0
                        ELSE VLog[Sharing(W, Pick(s))] + g[s \ {Pick(s)}]
           sum == CHOOSE g : g = [s \in SUBSET S |-> Sum(g, s)]
<1>1. LogSum(W, S) = sum[S]
  BY DEF LogSum, MapThenSumSet, MapThenFoldSet, Pick, Sharing
<1>2. ASSUME NEW g
      PROVE  g = [s \in SUBSET S |-> Sum(g, s)] <=> Totals(g, S, f)
  <2>1. \A s \in SUBSET S : s # {} => f[Pick(s)] = VLog[Sharing(W, Pick(s))]
    BY PickIn
  <2>2. \A s \in SUBSET S :
          Sum(g, s) = IF s = {} THEN 0 ELSE f[Pick(s)] + g[s \ {Pick(s)}]
    BY <2>1
  <2> HIDE DEF f, Sum
  <2> QED  BY <2>2 DEF Totals
<1>3. \E g : g = [s \in SUBSET S |-> Sum(g, s)]
  BY <1>2, TotalsExist
<1>4. sum = [s \in SUBSET S |-> Sum(sum, s)]
  <2> HIDE DEF Sum
  <2> QED  BY <1>3
<1>5. Totals(sum, S, f)
  <2> HIDE DEF sum, f, Sum
  <2> QED  BY <1>2, <1>4
<1> HIDE DEF sum
<1> QED  BY <1>1, <1>5

-----------------------------------------------------------------------------
(***************************************************************************)
(* Arithmetic                                                              *)
(***************************************************************************)

\* Elementary facts about squares and products.
LEMMA SquareNonneg ==
  ASSUME NEW x \in Int
  PROVE  x * x \in Nat
<1>1. CASE x >= 0
  BY <1>1
<1>2. CASE x < 0
  BY <1>2
<1> QED  BY <1>1, <1>2

LEMMA TwiceProduct ==
  ASSUME NEW x \in Int, NEW y \in Int
  PROVE  2 * y * x <= x * x + y * y
<1>1. (x - y) * (x - y) \in Nat
  BY SquareNonneg
<1>2. (x - y) * (x - y) = x * x - 2 * y * x + y * y
  OBVIOUS
<1>3. x * x \in Int /\ y * y \in Int /\ 2 * y * x \in Int
  OBVIOUS
<1> QED  BY <1>1, <1>2, <1>3

LEMMA ProductMonotone ==
  ASSUME NEW x \in Nat, NEW y \in Int, NEW z \in Int, y <= z
  PROVE  x * y <= x * z
<1>1. x * (z - y) \in Nat
  OBVIOUS
<1>2. x * (z - y) = x * z - x * y
  OBVIOUS
<1>3. x * y \in Int /\ x * z \in Int
  OBVIOUS
<1> QED  BY <1>1, <1>2, <1>3

LEMMA QuotientBound ==
  ASSUME NEW x \in Nat, NEW y \in Nat \ {0}, NEW b \in Nat, x <= b * y
  PROVE  x \div y \in Nat /\ x \div y <= b
OBVIOUS

LEMMA QuotientAtLeast ==
  ASSUME NEW x \in Int, NEW y \in Nat \ {0}, NEW b \in Int, x >= b * y
  PROVE  x \div y \in Int /\ x \div y >= b
OBVIOUS


\* The table of logarithms, by number instead of by domain.
LEMMA TableSuperadditive ==
  /\ Len(VLog) \in Nat
  /\ \A a \in Nat : 1 <= a /\ a <= Len(VLog) => VLog[a] \in Nat
  /\ \A a, b \in Nat : 1 <= a /\ 1 <= b /\ a + b <= Len(VLog)
                       => VLog[a] + VLog[b] <= VLog[a + b]
<1>1. VLog \in Seq(Nat)
  BY VLogAssumption
<1>2. Len(VLog) \in Nat /\ DOMAIN VLog = 1..Len(VLog)
      /\ \A a \in 1..Len(VLog) : VLog[a] \in Nat
  BY <1>1
<1>3. \A a, b \in 1..Len(VLog) :
        a + b <= Len(VLog) => VLog[a] + VLog[b] <= VLog[a + b]
  BY <1>2, VLogAssumption
<1>4. \A a \in Nat : 1 <= a /\ a <= Len(VLog) => a \in 1..Len(VLog)
  BY <1>2
<1>5. \A a, b \in Nat : 1 <= a /\ 1 <= b /\ a + b <= Len(VLog)
                        => a \in 1..Len(VLog) /\ b \in 1..Len(VLog)
  BY <1>2
<1> QED  BY <1>2, <1>3, <1>4, <1>5

-----------------------------------------------------------------------------
(***************************************************************************)
(* The largest of a finite set                                             *)
(***************************************************************************)

LEMMA MaxIsLargest ==
  ASSUME NEW S, IsFiniteSet(S), S # {}, S \subseteq Int
  PROVE  Max(S) \in S /\ \A y \in S : y <= Max(S)
<1> DEFINE G == {T \in SUBSET S : T # {} => \E x \in T : \A y \in T : x >= y}
<1>1. ASSUME NEW T \in SUBSET S, \A x \in T : T \ {x} \in G
      PROVE  T \in G
  <2> SUFFICES ASSUME T # {} PROVE \E x \in T : \A y \in T : x >= y
    OBVIOUS
  <2>1. PICK x \in T : TRUE
    OBVIOUS
  <2>2. CASE T \ {x} = {}
    BY <2>1, <2>2
  <2>3. CASE T \ {x} # {}
    <3>1. PICK z \in T \ {x} : \A y \in T \ {x} : z >= y
      BY <1>1, <2>1, <2>3
    <3>2. CASE x >= z
      BY <2>1, <3>1, <3>2
    <3>3. CASE ~(x >= z)
      BY <2>1, <3>1, <3>3
    <3> QED  BY <3>2, <3>3
  <2> QED  BY <2>2, <2>3
<1>2. S \in G
  <2> HIDE DEF G
  <2> QED  BY <1>1, SubsetInduction
<1>3. \E x \in S : \A y \in S : x >= y
  BY <1>2
<1>4. Max(S) \in S /\ \A y \in S : Max(S) >= y
  BY <1>3 DEF Max
<1> QED  BY <1>4

LEMMA ImageFinite ==
  ASSUME NEW S, IsFiniteSet(S), NEW f
  PROVE  IsFiniteSet({f[r] : r \in S})
<1> DEFINE T == {f[r] : r \in S}
           m == [r \in S |-> f[r]]
<1>1. m \in Surjection(S, T)
  BY DEF Surjection
<1> HIDE DEF m, T
<1>2. IsFiniteSet(T)
  BY <1>1, FS_Surjection
<1> QED  BY <1>2 DEF T

-----------------------------------------------------------------------------
(***************************************************************************)
(* The variance of a window's gaps                                         *)
(***************************************************************************)

\* The sum of numbers from 0 to K, and of their squares: the second is at most K
\* times the first, and the squares of e * d[r] - c add up to no less than 0.
LEMMA SumsBounded ==
  ASSUME NEW S, IsFiniteSet(S), NEW d \in [S -> Nat], NEW K \in Nat,
         \A r \in S : d[r] <= K,
         NEW g, Totals(g, S, d),
         NEW q, Totals(q, S, [r \in S |-> Square(d[r])]),
         NEW c \in Int, NEW e \in Int
  PROVE  /\ g[S] \in Nat /\ q[S] \in Nat
         /\ q[S] <= K * g[S]
         /\ 2 * c * (e * g[S]) <= e * e * q[S] + Cardinality(S) * (c * c)
<1> DEFINE G == {T \in SUBSET S :
                   /\ g[T] \in Nat /\ q[T] \in Nat
                   /\ q[T] <= K * g[T]
                   /\ 2 * c * (e * g[T])
                        <= e * e * q[T] + Cardinality(T) * (c * c)}
<1>1. ASSUME NEW T \in SUBSET S, \A x \in T : T \ {x} \in G
      PROVE  T \in G
  <2>1. CASE T = {}
    <3>1. g[T] = 0 /\ q[T] = 0
      BY <2>1, TotalsUnfold
    <3>2. Cardinality(T) = 0
      BY <2>1, FS_EmptySet
    <3> QED  BY <3>1, <3>2
  <2>2. CASE T # {}
    <3> DEFINE x == Pick(T)
               U == T \ {x}
    <3>1. x \in T /\ x \in S /\ g[T] = d[x] + g[U]
          /\ q[T] = Square(d[x]) + q[U]
      BY <2>2, TotalsUnfold
    <3>2. U \in G
      BY <1>1, <3>1
    <3>3. /\ IsFiniteSet(T) /\ Cardinality(T) \in Nat
          /\ Cardinality(U) = Cardinality(T) - 1 /\ Cardinality(U) \in Nat
      BY <3>1, FS_Subset, FS_RemoveElement, FS_CardinalityType
    <3> HIDE DEF x, U
    <3>4. PICK y \in Nat : y = d[x] /\ y <= K
      BY <3>1
    <3>5. PICK a \in Nat, b \in Nat, m \in Nat :
            /\ a = g[U] /\ b = q[U] /\ m = Cardinality(U)
            /\ b <= K * a
            /\ 2 * c * (e * a) <= e * e * b + m * (c * c)
      BY <3>2, <3>3
    <3>6. g[T] = y + a /\ q[T] = y * y + b /\ Cardinality(T) = m + 1
      BY <3>1, <3>3, <3>4, <3>5 DEF Square
    <3>7. y * y + b <= K * (y + a)
      <4>1. y * y <= y * K
        BY <3>4, ProductMonotone
      <4>2. K * (y + a) = y * K + K * a
        OBVIOUS
      <4>3. y * y \in Int /\ y * K \in Int /\ K * a \in Int
        OBVIOUS
      <4> QED  BY <3>5, <4>1, <4>2, <4>3
    <3>8. 2 * c * (e * (y + a))
            <= e * e * (y * y + b) + (m + 1) * (c * c)
      <4>1. e * y \in Int
        OBVIOUS
      <4>2. 2 * c * (e * y) <= (e * y) * (e * y) + c * c
        BY <4>1, TwiceProduct
      <4>3. /\ 2 * c * (e * (y + a)) = 2 * c * (e * y) + 2 * c * (e * a)
            /\ (e * y) * (e * y) = e * e * (y * y)
            /\ e * e * (y * y + b) = e * e * (y * y) + e * e * b
            /\ (m + 1) * (c * c) = m * (c * c) + c * c
        OBVIOUS
      <4>4. /\ 2 * c * (e * y) \in Int /\ 2 * c * (e * a) \in Int
            /\ e * e * (y * y) \in Int /\ e * e * b \in Int
            /\ m * (c * c) \in Int /\ c * c \in Int
        OBVIOUS
      <4> QED  BY <3>5, <4>2, <4>3, <4>4
    <3>9. y + a \in Nat /\ y * y + b \in Nat
      BY SquareNonneg
    <3> QED  BY <3>6, <3>7, <3>8, <3>9
  <2> QED  BY <2>1, <2>2
<1>2. S \in G
  <2> HIDE DEF G
  <2> QED  BY <1>1, SubsetInduction
<1> QED  BY <1>2

\* The variance of n numbers from 0 to K, times n squared, from their sum a and
\* the sum q of their squares: not negative, and at most (K n / 2) squared.
LEMMA SpreadBounded ==
  ASSUME NEW n \in Nat \ {0}, NEW a \in Nat, NEW q \in Nat, NEW K \in Nat,
         q <= K * a, 2 * a * (n * a) <= n * n * q + n * (a * a)
  PROVE  /\ n * q - a * a \in Nat
         /\ 4 * (n * q - a * a) <= (K * K) * (n * n)
<1>1. n * (n * q - a * a) >= 0
  <2>1. /\ 2 * a * (n * a) = 2 * (n * (a * a))
        /\ n * n * q = n * (n * q)
        /\ n * (n * q - a * a) = n * (n * q) - n * (a * a)
    OBVIOUS
  <2>2. n * (a * a) \in Int /\ n * (n * q) \in Int
    OBVIOUS
  <2> QED  BY <2>1, <2>2
<1>2. n * q - a * a \in Nat
  <2>1. PICK z \in Int : z = n * q - a * a
    OBVIOUS
  <2>2. n * z >= 0
    BY <1>1, <2>1
  <2>3. z >= 0
    BY <2>2
  <2> QED  BY <2>1, <2>3
<1>3. 4 * (n * q - a * a) <= (K * K) * (n * n)
  <2>1. n * q <= n * (K * a)
    BY ProductMonotone
  <2>2. (K * n - 2 * a) * (K * n - 2 * a) \in Nat
    BY SquareNonneg
  <2>3. (K * n - 2 * a) * (K * n - 2 * a)
          = (K * K) * (n * n) - 4 * (n * (K * a)) + 4 * (a * a)
    OBVIOUS
  <2>4. (K * K) * (n * n) \in Int /\ n * (K * a) \in Int /\ a * a \in Int
        /\ n * q \in Int
    OBVIOUS
  <2> QED  BY <2>1, <2>2, <2>3, <2>4
<1> QED  BY <1>2, <1>3

-----------------------------------------------------------------------------
(***************************************************************************)
(* What the scores of a window come to                                     *)
(***************************************************************************)

\* A window of records, in order of arrival and of time.
IsWindow(W) ==
  /\ IsFiniteSet(W)
  /\ \A r \in W : r.n \in Nat /\ r.timestamp \in Nat
  /\ \A q, r \in W : q.n <= r.n => q.timestamp <= r.timestamp

LEMMA GapIsTime ==
  ASSUME NEW W, IsWindow(W), NEW r \in Followers(W)
  PROVE  Gap(W, r) \in Nat
<1> DEFINE P == {p \in W : p.n < r.n}
           T == {q.timestamp : q \in P}
           f == [q \in P |-> q.timestamp]
<1>1. r \in W /\ P # {} /\ P \subseteq W
  BY DEF Followers
<1>2. IsFiniteSet(P)
  BY <1>1, FS_Subset DEF IsWindow
<1>3. IsFiniteSet({f[q] : q \in P})
  BY <1>2, ImageFinite
<1>4. {f[q] : q \in P} = T
  OBVIOUS
<1>5. T # {} /\ T \subseteq Int
  BY <1>1 DEF IsWindow
<1>6. Max(T) \in T
  <2> HIDE DEF T, f
  <2> QED  BY <1>3, <1>4, <1>5, MaxIsLargest
<1>7. PICK q \in P : Max(T) = q.timestamp
  BY <1>6
<1>8. q.timestamp <= r.timestamp /\ q.timestamp \in Nat /\ r.timestamp \in Nat
  BY <1>1 DEF IsWindow
<1> QED  BY <1>7, <1>8 DEF Gap

\* The score of a window none of whose silences exceeds K tenths (burst.cpp:
\* 11-23 over feature_extractor.cpp).
LEMMA BurstBounded ==
  ASSUME NEW W, IsWindow(W), NEW K \in Nat, K >= 2,
         \A r \in Followers(W) : Gap(W, r) <= K,
         NEW b \in Nat, b >= 49, 2500 * (K * K - 1) <= b * 51
  PROVE  BurstScore(W) \in Nat /\ BurstScore(W) <= b
<1> DEFINE F == Followers(W)
           d == [r \in F |-> Gap(W, r)]
           n == Cardinality(F)
<1>1. IsFiniteSet(F) /\ n \in Nat
  <2>1. F \subseteq W
    BY DEF Followers
  <2> QED  BY <2>1, FS_Subset, FS_CardinalityType DEF IsWindow
<1>2. d \in [F -> Nat] /\ \A r \in F : d[r] <= K
  BY GapIsTime
<1>3. PICK g : Totals(g, F, d) /\ g[F] = GapSum(W, F)
  <2> HIDE DEF F
  <2> QED  BY <1>1, GapTotals
<1>4. PICK q : /\ Totals(q, F, [r \in F |-> Square(Gap(W, r))])
               /\ q[F] = SquareSum(W, F)
  <2> HIDE DEF F
  <2> QED  BY <1>1, SquareTotals
<1>5. Totals(q, F, [r \in F |-> Square(d[r])])
  <2>1. [r \in F |-> Square(Gap(W, r))] = [r \in F |-> Square(d[r])]
    OBVIOUS
  <2> HIDE DEF d, F
  <2> QED  BY <1>4, <2>1
<1>6. Variance(W) = n * q[F] - g[F] * g[F]
  <2>1. Variance(W) = n * SquareSum(W, F) - Square(GapSum(W, F))
    BY DEF Variance, GapSum, SquareSum, MapThenSumSet, MapThenFoldSet
  <2> QED  BY <1>3, <1>4, <2>1 DEF Square
<1> HIDE DEF F, d, n
<1>7. CASE n = 0
  <2>1. F = {}
    BY <1>1, <1>7, FS_EmptySet DEF n
  <2>2. g[F] = 0 /\ q[F] = 0
    BY <1>3, <1>5, <2>1, EmptyTotal
  <2>3. Variance(W) = 0
    BY <1>6, <1>7, <2>2
  <2>4. BurstScore(W) = 49
    BY <1>7, <2>3 DEF BurstScore, n, F
  <2> QED  BY <2>4
<1>8. CASE n # 0
  <2>1. /\ g[F] \in Nat /\ q[F] \in Nat /\ q[F] <= K * g[F]
        /\ 2 * g[F] * (n * g[F]) <= n * n * q[F] + n * (g[F] * g[F])
    <3>1. g[F] \in Nat
      BY <1>1, <1>2, <1>3, TotalNatural
    <3>2. g[F] \in Int /\ n \in Int
      BY <1>1, <3>1
    <3>3. /\ q[F] \in Nat /\ q[F] <= K * g[F]
          /\ 2 * g[F] * (n * g[F])
               <= n * n * q[F] + Cardinality(F) * (g[F] * g[F])
      BY <1>1, <1>2, <1>3, <1>5, <3>2, SumsBounded
    <3> QED  BY <3>1, <3>3 DEF n
  <2>2. PICK v \in Nat : v = Variance(W) /\ 4 * v <= (K * K) * (n * n)
    BY <1>1, <1>6, <1>8, <2>1, SpreadBounded
  <2>3. PICK s \in Nat \ {0} : s = n * n
    BY <1>1, <1>8
  <2>4. PICK k \in Nat : k = K * K - 1 /\ K * K = k + 1 /\ k >= 1
    <3>1. K * K >= 2 * K
      BY ProductMonotone
    <3> QED  BY <3>1
  <2>5. PICK x \in Int : x = IF 4 * v - s < 0 THEN -(4 * v - s) ELSE 4 * v - s
    BY <2>2, <2>3
  <2>6. x >= 0 /\ x <= k * s
    <3>1. 4 * v <= (k + 1) * s
      BY <2>2, <2>3, <2>4
    <3>2. (k + 1) * s = k * s + s /\ k * s \in Int /\ k * s >= s
      <4>1. s * 1 <= s * k
        BY <2>4, ProductMonotone
      <4> QED  BY <4>1
    <3> QED  BY <2>5, <3>1, <3>2
  <2>7. BurstScore(W) = (2500 * x) \div (51 * s)
    <3>1. BurstScore(W)
            = (2500 * (IF 4 * Variance(W) - n * n < 0
                       THEN -(4 * Variance(W) - n * n)
                       ELSE 4 * Variance(W) - n * n)) \div (51 * (n * n))
      <4>1. Cardinality(Followers(W)) # 0
        BY <1>8 DEF n, F
      <4> QED  BY <4>1 DEF BurstScore, Square, n, F
    <3> QED  BY <2>2, <2>3, <2>5, <3>1
  <2>8. 2500 * x <= b * (51 * s)
    <3>1. PICK c \in Int : c = 2500 * k /\ c <= b * 51
      BY <2>4
    <3>2. 2500 * x <= c * s
      <4>1. c * s = 2500 * (k * s)
        BY <3>1
      <4> QED  BY <2>6, <4>1
    <3>3. s * c <= s * (b * 51)
      BY <3>1, ProductMonotone
    <3>4. s * c = c * s /\ s * (b * 51) = b * (51 * s) /\ c * s \in Int
          /\ b * (51 * s) \in Int
      OBVIOUS
    <3> QED  BY <2>6, <3>2, <3>3, <3>4
  <2>9. 2500 * x \in Nat /\ 51 * s \in Nat \ {0}
    BY <2>6
  <2> HIDE DEF n
  <2> QED  BY <2>7, <2>8, <2>9, QuotientBound
<1> QED  BY <1>7, <1>8

LEMMA MaxFuncBounded ==
  ASSUME NEW W, IsFiniteSet(W), W # {}
  PROVE  MaxFunc(W) \in Nat /\ MaxFunc(W) <= Cardinality(W)
<1> DEFINE Same(r) == {q \in W : q.of.functionCode = r.of.functionCode}
           f == [r \in W |-> Cardinality(Same(r))]
           T == {Cardinality(Same(r)) : r \in W}
<1>1. \A r \in W : Cardinality(Same(r)) \in Nat
                   /\ Cardinality(Same(r)) <= Cardinality(W)
  <2> TAKE r \in W
  <2>1. Same(r) \subseteq W
    OBVIOUS
  <2> QED  BY <2>1, FS_Subset, FS_CardinalityType
<1>2. {f[r] : r \in W} = T
  OBVIOUS
<1>3. IsFiniteSet({f[r] : r \in W})
  <2> HIDE DEF f
  <2> QED  BY ImageFinite
<1>4. T # {} /\ T \subseteq Int
  <2> HIDE DEF Same
  <2> QED  BY <1>1
<1>5. Max(T) \in T
  <2> HIDE DEF T, f
  <2> QED  BY <1>2, <1>3, <1>4, MaxIsLargest
<1>6. MaxFunc(W) = Max(T)
  BY DEF MaxFunc
<1> QED  BY <1>1, <1>5, <1>6

\* The entropy of the addresses is not negative, as long as the table of
\* logarithms reaches.
LEMMA AddressBitsNatural ==
  ASSUME NEW W, IsFiniteSet(W), W # {}, Cardinality(W) <= Len(VLog)
  PROVE  AddressBits(W) \in Nat
<1> DEFINE A == {r.of.address : r \in W}
           Carrying(a) == {r \in W : r.of.address = a}
           Of(T) == {r \in W : r.of.address \in T}
           f == [r \in W |-> r.of.address]
           N == Len(VLog)
<1>1. IsFiniteSet(A)
  <2>1. {f[r] : r \in W} = A
    OBVIOUS
  <2>2. IsFiniteSet({f[r] : r \in W})
    <3> HIDE DEF f
    <3> QED  BY ImageFinite
  <2> QED  BY <2>1, <2>2
<1>2. PICK g : /\ Totals(g, A, [a \in A |-> VLog[Sharing(W, a)]])
               /\ g[A] = LogSum(W, A)
  <2> HIDE DEF A
  <2> QED  BY <1>1, AddressTotals
<1>3. Cardinality(W) \in Nat /\ 1 <= Cardinality(W) /\ Cardinality(W) <= N
      /\ N \in Nat
  <2>1. Cardinality(W) \in Nat /\ Cardinality(W) # 0
    BY FS_CardinalityType, FS_EmptySet
  <2> QED  BY <2>1, TableSuperadditive
<1> DEFINE G == {T \in SUBSET A :
                   /\ g[T] \in Nat
                   /\ T # {} => /\ 1 <= Cardinality(Of(T))
                                /\ g[T] <= VLog[Cardinality(Of(T))]}
<1>4. ASSUME NEW T \in SUBSET A, \A x \in T : T \ {x} \in G
      PROVE  T \in G
  <2>1. CASE T = {}
    <3>1. g[T] = 0
      <4> HIDE DEF A
      <4> QED  BY <1>2, <2>1, TotalsUnfold
    <3> QED  BY <2>1, <3>1
  <2>2. CASE T # {}
    <3> DEFINE x == Pick(T)
               U == T \ {x}
    <3>1. x \in T /\ x \in A /\ g[T] = VLog[Sharing(W, x)] + g[U]
      <4>1. x \in T /\ x \in A
            /\ g[T] = [a \in A |-> VLog[Sharing(W, a)]][x] + g[U]
        BY <1>2, <2>2, TotalsUnfold
      <4> QED  BY <4>1
    <3>2. U \in G
      BY <1>4, <3>1
    <3>3. /\ IsFiniteSet(Carrying(x))
          /\ IsFiniteSet(Of(U)) /\ IsFiniteSet(Of(T))
          /\ Cardinality(Carrying(x)) \in Nat /\ Cardinality(Of(U)) \in Nat
          /\ Cardinality(Of(T)) \in Nat /\ Cardinality(Of(T)) <= Cardinality(W)
      <4>1. Carrying(x) \subseteq W /\ Of(U) \subseteq W /\ Of(T) \subseteq W
        OBVIOUS
      <4> HIDE DEF Carrying, Of, x, U
      <4> QED  BY <4>1, FS_Subset, FS_CardinalityType
    <3>4. Carrying(x) # {}
      BY <3>1
    <3>5. Of(T) = Carrying(x) \cup Of(U) /\ Carrying(x) \cap Of(U) = {}
      BY <3>1
    <3>6. U = {} => Of(U) = {}
      OBVIOUS
    <3>7. Sharing(W, x) = Cardinality(Carrying(x))
      BY DEF Sharing
    <3> HIDE DEF Carrying, Of, x, U, A
    <3>8. Cardinality(Of(T)) = Cardinality(Carrying(x)) + Cardinality(Of(U))
      <4>1. Cardinality(Of(T)) = Cardinality(Carrying(x)) + Cardinality(Of(U))
                                   - Cardinality({})
        BY <3>3, <3>5, FS_Union
      <4> QED  BY <3>3, <4>1, FS_EmptySet
    <3>9. PICK m \in Nat, k \in Nat :
            m = Cardinality(Carrying(x)) /\ k = Cardinality(Of(U)) /\ 1 <= m
      <4>1. Cardinality(Carrying(x)) # 0
        BY <3>3, <3>4, FS_EmptySet
      <4> QED  BY <3>3, <4>1
    <3>14. m + k = Cardinality(Of(T)) /\ m + k <= N /\ m <= N /\ 1 <= m + k
      BY <1>3, <3>3, <3>8, <3>9
    <3>10. VLog[m] \in Nat
      BY <3>9, <3>14, TableSuperadditive
    <3>11. g[U] \in Nat
      BY <3>2
    <3>12. CASE U = {}
      <4>1. g[U] = 0
        BY <1>2, <3>12, TotalsUnfold DEF A
      <4>2. Cardinality(Of(T)) = m
        <5>1. Cardinality(Of(U)) = 0
          BY <3>6, <3>12, FS_EmptySet
        <5> QED  BY <3>8, <3>9, <5>1
      <4>3. g[T] = VLog[m]
        BY <3>1, <3>7, <3>9, <3>10, <4>1
      <4> QED  BY <3>9, <3>10, <4>2, <4>3
    <3>13. CASE U # {}
      <4>1. 1 <= k /\ g[U] <= VLog[k]
        BY <3>2, <3>9, <3>13
      <4>2. VLog[k] \in Nat /\ VLog[m + k] \in Nat
            /\ VLog[m] + VLog[k] <= VLog[m + k]
        <5>1. k <= N /\ m + k \in Nat
          BY <3>9, <3>14
        <5>2. VLog[k] \in Nat
          BY <4>1, <5>1, TableSuperadditive
        <5>3. VLog[m + k] \in Nat
          BY <3>14, <5>1, TableSuperadditive
        <5>4. VLog[m] + VLog[k] <= VLog[m + k]
          BY <3>9, <3>14, <4>1, TableSuperadditive
        <5> QED  BY <5>2, <5>3, <5>4
      <4>3. g[T] = VLog[m] + g[U]
        BY <3>1, <3>7, <3>9
      <4>4. g[T] \in Nat /\ g[T] <= VLog[m + k]
        BY <3>10, <3>11, <4>1, <4>2, <4>3
      <4> QED  BY <3>14, <4>4
    <3> QED  BY <3>12, <3>13
  <2> QED  BY <2>1, <2>2
<1>5. A \in G
  <2> HIDE DEF G, A
  <2> QED  BY <1>1, <1>4, SubsetInduction
<1>6. Of(A) = W /\ A # {}
  OBVIOUS
<1>7. /\ g[A] \in Nat /\ VLog[Cardinality(W)] \in Nat
      /\ g[A] <= VLog[Cardinality(W)]
  <2> HIDE DEF A, Of
  <2> QED  BY <1>3, <1>5, <1>6, TableSuperadditive
<1>8. AddressBits(W) = VLog[Cardinality(W)] - g[A]
  <2>1. AddressBits(W) = VLog[Cardinality(W)] - LogSum(W, A)
    BY DEF AddressBits, LogSum, MapThenSumSet, MapThenFoldSet
  <2> HIDE DEF A
  <2> QED  BY <1>2, <2>1
<1> HIDE DEF A
<1> QED  BY <1>7, <1>8

\* What the HST score is made of.
LEMMA HstParts ==
  ASSUME NEW W, IsWindow(W), W # {}, Cardinality(W) <= Len(VLog)
  PROVE  /\ Cardinality(W) \in Nat \ {0}
         /\ Writes(W) \in Nat
         /\ MaxFunc(W) \in Nat /\ MaxFunc(W) <= Cardinality(W)
         /\ AddressBits(W) \in Nat
<1>1. IsFiniteSet(W)
  BY DEF IsWindow
<1>2. Cardinality(W) \in Nat \ {0}
  BY <1>1, FS_CardinalityType, FS_EmptySet
<1>3. Writes(W) \in Nat
  <2>1. {r \in W : r.of.isWrite} \subseteq W
    OBVIOUS
  <2>2. IsFiniteSet({r \in W : r.of.isWrite})
    BY <1>1, <2>1, FS_Subset
  <2> QED  BY <2>2, FS_CardinalityType DEF Writes
<1>4. MaxFunc(W) \in Nat /\ MaxFunc(W) <= Cardinality(W)
  BY <1>1, MaxFuncBounded
<1>5. AddressBits(W) \in Nat
  BY <1>1, AddressBitsNatural
<1> QED  BY <1>2, <1>3, <1>4, <1>5

\* hst.cpp:10-20: without a write the HST score is the concentration of the
\* function codes, which says nothing.
LEMMA HstOfReads ==
  ASSUME NEW W, IsWindow(W), W # {}, Cardinality(W) <= Len(VLog),
         \A r \in W : ~r.of.isWrite
  PROVE  Percent(HstScore(W)) = 0
<1>1. PICK n \in Nat \ {0}, m \in Nat, x \in Nat :
        n = Cardinality(W) /\ m = MaxFunc(W) /\ m <= n /\ x = AddressBits(W)
  BY HstParts
<1>2. Writes(W) = 0
  <2>1. {r \in W : r.of.isWrite} = {}
    OBVIOUS
  <2>2. Writes(W) = Cardinality({r \in W : r.of.isWrite})
    BY DEF Writes
  <2> QED  BY <2>1, <2>2, FS_EmptySet
<1>3. HstScore(W) = (50000 * 0 * n + 2500 * m * n + 20 * 0 * x) \div (n * n)
  BY <1>1, <1>2 DEF HstScore, Square
<1>4. 50000 * 0 * n + 2500 * m * n + 20 * 0 * x = 2500 * (n * m)
  OBVIOUS
<1>5. 2500 * (n * m) <= 2500 * (n * n) /\ 2500 * (n * m) \in Nat
      /\ n * n \in Nat \ {0}
  <2>1. n * m <= n * n
    BY <1>1, ProductMonotone
  <2> QED  BY <2>1
<1>6. HstScore(W) \in Nat /\ HstScore(W) <= 2500
  BY <1>3, <1>4, <1>5, QuotientBound
<1> QED  BY <1>6 DEF Percent

\* hst.cpp:14-18: three writes in ten are enough for the HST score alone.
LEMMA HstOfWrites ==
  ASSUME NEW W, IsWindow(W), W # {}, Cardinality(W) <= Len(VLog),
         10 * Writes(W) >= 3 * Cardinality(W)
  PROVE  Percent(HstScore(W)) = 70
<1>1. PICK n \in Nat \ {0}, w \in Nat, m \in Nat, x \in Nat :
        n = Cardinality(W) /\ w = Writes(W) /\ m = MaxFunc(W)
        /\ x = AddressBits(W)
  BY HstParts
<1>2. PICK y \in Int : y = 50000 * w * n + 2500 * m * n + 20 * w * x
  OBVIOUS
<1>3. HstScore(W) = y \div (n * n)
  BY <1>1, <1>2 DEF HstScore, Square
<1>4. y >= 15000 * (n * n)
  <2>1. 3 * n <= 10 * w
    BY <1>1
  <2>2. n * (3 * n) <= n * (10 * w)
    BY <2>1, ProductMonotone
  <2>3. /\ 50000 * w * n = 5000 * (n * (10 * w))
        /\ 15000 * (n * n) = 5000 * (n * (3 * n))
        /\ 2500 * m * n \in Nat /\ 20 * w * x \in Nat
        /\ n * (10 * w) \in Nat /\ n * (3 * n) \in Nat
    OBVIOUS
  <2> QED  BY <1>2, <2>2, <2>3
<1>5. HstScore(W) \in Int /\ HstScore(W) >= 15000
  <2>1. n * n \in Nat \ {0}
    OBVIOUS
  <2> QED  BY <1>3, <1>4, <2>1, QuotientAtLeast
<1> QED  BY <1>5 DEF Percent

\* burst.cpp:11-23: no silence of 1.8 s, no burst score that escalates.
LEMMA BurstWithout18 ==
  ASSUME NEW W, IsWindow(W), \A r \in Followers(W) : ~(Gap(W, r) >= 18)
  PROVE  Percent(BurstScore(W)) \in {0, 50, 60}
<1>1. \A r \in Followers(W) : Gap(W, r) <= 17
  BY GapIsTime
<1>2. BurstScore(W) \in Nat /\ BurstScore(W) <= 14118
  BY <1>1, BurstBounded
<1> QED  BY <1>2 DEF Percent

\* Nor, without one of 1.5 s, a score that keeps an escalation up.
LEMMA BurstWithout15 ==
  ASSUME NEW W, IsWindow(W), \A r \in Followers(W) : ~(Gap(W, r) >= 15)
  PROVE  Percent(BurstScore(W)) \in {0, 50}
<1>1. \A r \in Followers(W) : Gap(W, r) <= 14
  BY GapIsTime
<1>2. BurstScore(W) \in Nat /\ BurstScore(W) <= 9559
  BY <1>1, BurstBounded
<1> QED  BY <1>2 DEF Percent

LEMMA PercentTyped ==
  ASSUME NEW s
  PROVE  Percent(s) \in {0, 50, 60, 70}
BY DEF Percent

-----------------------------------------------------------------------------
(***************************************************************************)
(* The pipeline and its window manager                                     *)
(***************************************************************************)

\* The window manager of the pipeline, with what WindowManagerProofs says of it.
WP == INSTANCE WindowManagerProofs WITH
        Timestamps <- Nat, Arrivals <- Nat \ {0}

\* The window manager's assumptions hold of what the pipeline hands it.
LEMMA WindowAssumptions ==
  WP!SizesAssumption /\ WP!TimestampsAssumption /\ WP!ArrivalsAssumption
BY SizesAssumption
   DEF WP!SizesAssumption, WP!TimestampsAssumption, WP!ArrivalsAssumption

Packets == [srcPort : Int, dstPort : Int, payload : Seq(Bytes)]

\* What the loop knows of its own variables.
Loop ==
  /\ now \in Nat
  /\ phase \in Nat /\ 1 <= phase /\ phase <= Len(Script) + 1
  /\ left \in Nat
  /\ pending \in Seq(Packets) /\ Len(pending) <= 3
  /\ pending # <<>> => ~Done
  /\ seen \in Seq(Records)
  /\ isOn \in BOOLEAN
  /\ decision \in Risk!Decisions
  /\ alarms \subseteq 1..Len(Script)

\* What it has handed to the window manager.
Handed ==
  /\ IsFiniteSet(accepted)
  /\ \A r \in accepted :
       /\ r.n \in Nat /\ 1 <= r.n /\ r.n <= Len(seen)
       /\ r.timestamp \in Nat /\ r.timestamp <= now

\* The five actions that the loop or its traffic sees: the signal that reaches the
\* PLC is not one of them.
watched == <<traffic, pending, seen, risk, window>>

LEMMA StepCases ==
  ASSUME [Next]_vars
  PROVE  \/ Request \/ NextPhase \/ SkipPacket \/ BufferRecord \/ EvaluateWindow
         \/ UNCHANGED watched
BY DEF Next, SignalArrives, vars, watched

\* A phase of the script, by its fields.
LEMMA ScriptTyped ==
  ASSUME NEW p \in Nat, 1 <= p, p <= Len(Script)
  PROVE  /\ Sendable(Script[p].cmd)
         /\ Script[p].count \in Nat \ {0}
         /\ Script[p].delays \subseteq Nat
         /\ Script[p].pauses \subseteq Nat
<1>1. Script \in Seq(Phases) /\ Len(Script) \in Nat
  BY ScriptAssumption
<1>2. PICK s \in Phases : s = Script[p]
  BY <1>1
<1>3. /\ s.cmd \in [protocol : Protocols, fn : Int, addr : Int, val : Int]
      /\ s.count \in Nat \ {0}
      /\ s.delays \in SUBSET Nat /\ s.pauses \in SUBSET Nat
  BY DEF Phases
<1>4. Sendable(s.cmd)
  BY <1>3 DEF Sendable
<1> QED  BY <1>2, <1>3, <1>4

\* What an exchange puts in the ring, packet by packet.
Answer(cmd, refused) ==
  IF refused THEN ModbusException(AsByte(cmd.fn)) ELSE FrameOf(cmd)

LEMMA ExchangeIs ==
  ASSUME NEW cmd, NEW refused
  PROVE  /\ Exchange(cmd, refused)
              = <<Packet(cmd.protocol, TRUE, <<>>),
                  Packet(cmd.protocol, TRUE, FrameOf(cmd)),
                  Packet(cmd.protocol, FALSE, Answer(cmd, refused))>>
         /\ Len(Exchange(cmd, refused)) = 3
BY DEF Exchange, Answer

\* They are three packets of bytes.
LEMMA ExchangeTyped ==
  ASSUME NEW cmd, Sendable(cmd), NEW refused \in BOOLEAN
  PROVE  /\ Exchange(cmd, refused) \in Seq(Packets)
         /\ Len(Exchange(cmd, refused)) = 3
<1>1. FrameOf(cmd) \in Seq(Bytes) /\ <<>> \in Seq(Bytes)
  BY FrameIsBytes
<1>2. Answer(cmd, refused) \in Seq(Bytes)
  <2>1. AsByte(cmd.fn) \in Bytes
    BY FitsFrame
  <2>2. ModbusException(AsByte(cmd.fn)) \in Seq(Bytes)
    BY <2>1, ModbusExceptionBytes
  <2> QED  BY <1>1, <2>2 DEF Answer
<1>3. Port[cmd.protocol] \in Int
  BY DEF Sendable, Protocols, Port
<1>4. \A toServer \in BOOLEAN, b \in Seq(Bytes) :
        Packet(cmd.protocol, toServer, b) \in Packets
  BY <1>3 DEF Packet, Packets, ClientPort
<1> HIDE DEF Packets
<1>5. PICK p1 \in Packets, p2 \in Packets, p3 \in Packets :
        Exchange(cmd, refused) = <<p1, p2, p3>>
  BY <1>1, <1>2, <1>4, ExchangeIs
<1> QED  BY <1>5

\* A request is an exchange with a PLC that refuses it or not.
LEMMA RequestExchange ==
  ASSUME Request
  PROVE  \E refused \in BOOLEAN :
           /\ pending' = Exchange(Script[phase].cmd, refused)
           /\ refused => IsRefusable(Script[phase].cmd)
           /\ refused => writeLocked
<1>1. PICK refused \in BOOLEAN : refused = Refused(Script[phase].cmd)
  BY DEF Refused
<1>2. pending' = Exchange(Script[phase].cmd, refused)
  BY <1>1 DEF Request
<1>3. ASSUME refused
      PROVE  IsRefusable(Script[phase].cmd) /\ writeLocked
  <2>1. Refused(Script[phase].cmd)
    BY <1>1, <1>3
  <2>2. PICK pdu : pdu = ModbusPdu(FrameOf(Script[phase].cmd))
    OBVIOUS
  <2>3. PLC!IsBlocked(pdu) => LockedPLC!IsBlocked(pdu) /\ writeLocked
    BY DEF PLC!IsBlocked, PLC!IsSafetyCoil, PLC!IsWriteFc,
           LockedPLC!IsBlocked, LockedPLC!IsSafetyCoil, LockedPLC!IsWriteFc
  <2> QED  BY <2>1, <2>2, <2>3 DEF Refused, IsRefusable
<1> QED  BY <1>2, <1>3

-----------------------------------------------------------------------------
(***************************************************************************)
(* A record handed to the window manager                                   *)
(***************************************************************************)

\* The loop's side of a call of addRecord (main.cpp:168-173).
LEMMA KeptLoop ==
  ASSUME Loop, Kept
  PROVE  /\ now' = now /\ phase' = phase /\ left' = left
         /\ pending' \in Seq(Packets) /\ Len(pending') <= 3
         /\ ~Done
         /\ seen' \in Seq(Records) /\ Len(seen') = Len(seen) + 1
         /\ Arrival \in WP!Records
<1>1. pending # <<>> /\ pending' = Tail(pending) /\ UNCHANGED traffic
  BY DEF Kept, NextRecord
<1>2. Head(pending) \in Packets
  BY <1>1 DEF Loop
<1>3. PICK r : r = Parse(Head(pending)) /\ ~Skips(r) /\ seen' = Append(seen, r)
  BY DEF Kept
<1>4. r \in Records
  <2>1. Head(pending).payload \in Seq(Bytes)
    BY <1>2 DEF Packets
  <2> QED  BY <1>3, <2>1, ParseTyped
<1>5. seen' \in Seq(Records) /\ Len(seen') = Len(seen) + 1
  BY <1>3, <1>4 DEF Loop
<1>6. pending' \in Seq(Packets) /\ Len(pending') <= 3
  BY <1>1 DEF Loop
<1>7. Arrival \in WP!Records
  <2>1. Len(seen) + 1 \in Nat \ {0} /\ now \in Nat
    BY DEF Loop
  <2> QED  BY <2>1 DEF Arrival, WP!Records
<1> QED  BY <1>1, <1>5, <1>6, <1>7 DEF traffic, Loop

\* The window manager's actions, under either of its two names.
LEMMA BufferRecordIs ==
  ASSUME NEW r, NEW t, Windows!BufferRecord(r, t)
  PROVE  WP!BufferRecord(r, t) /\ accepted' = accepted \cup {r} /\ ~returned'
BY Zenon
   DEF WP!BufferRecord, Windows!BufferRecord, WP!Accept, Windows!Accept,
       WP!IsNext, Windows!IsNext, WP!EmitTime, Windows!EmitTime

LEMMA EmitWindowIs ==
  ASSUME NEW r, NEW t, Windows!EmitWindow(r, t)
  PROVE  WP!EmitWindow(r, t) /\ accepted' = accepted \cup {r}
BY Zenon
   DEF WP!EmitWindow, Windows!EmitWindow, WP!Accept, Windows!Accept,
       WP!IsNext, Windows!IsNext, WP!EmitTime, Windows!EmitTime, WP!Within,
       Windows!Within, WP!Prune, Windows!Prune

\* The two ways in which a step of the pipeline can treat the window manager.
LEMMA WindowStep ==
  ASSUME Loop, [Next]_vars
  PROVE  \/ UNCHANGED window
         \/ /\ Kept /\ Arrival \in WP!Records
            /\ accepted' = accepted \cup {Arrival}
            /\ \/ WP!BufferRecord(Arrival, now)
               \/ WP!EmitWindow(Arrival, now)
<1>1. CASE Request
  BY <1>1 DEF Request
<1>2. CASE NextPhase
  BY <1>2 DEF NextPhase
<1>3. CASE SkipPacket
  BY <1>3 DEF SkipPacket
<1>4. CASE BufferRecord
  BY <1>4, KeptLoop, BufferRecordIs DEF BufferRecord
<1>5. CASE EvaluateWindow
  BY <1>5, KeptLoop, EmitWindowIs DEF EvaluateWindow
<1>6. CASE UNCHANGED watched
  BY <1>6 DEF watched
<1> QED  BY <1>1, <1>2, <1>3, <1>4, <1>5, <1>6, StepCases

\* What the loop does with a window: nothing with an empty one.
LEMMA Evaluation ==
  ASSUME EvaluateWindow
  PROVE  \E W : /\ W = Contents(outWindow'.records, seen')
                /\ \/ W = {} /\ UNCHANGED risk
                   \/ /\ W # {}
                      /\ \E d \in Risk!Decisions :
                           /\ Risk!Evaluate(Percent(HstScore(W)),
                                            Percent(BurstScore(W)), d)
                           /\ decision' = d
                           /\ alarms' = IF d.level = "High"
                                        THEN alarms \cup {phase} ELSE alarms
BY Zenon DEF EvaluateWindow

LEMMA InitLoop == Init => Loop /\ Handed
<1> SUFFICES ASSUME Init PROVE Loop /\ Handed
  OBVIOUS
<1>1. Len(Script) \in Nat /\ 1 <= Len(Script)
  BY ScriptAssumption
<1>2. left \in Nat
  <2>1. 1 \in Nat /\ 1 <= 1
    OBVIOUS
  <2>2. Script[1].count \in Nat
    BY <1>1, <2>1, ScriptTyped
  <2> QED  BY <2>2 DEF Init
<1>3. decision \in Risk!Decisions
  BY DEF Init, Risk!Decisions
<1>4. accepted = {}
  BY DEF Init, Windows!Init
<1>5. pending \in Seq(Packets) /\ seen \in Seq(Records) /\ Len(pending) = 0
  BY DEF Init
<1>6. IsFiniteSet(accepted)
  BY <1>4, FS_EmptySet
<1>7. now \in Nat /\ phase = 1 /\ pending = <<>> /\ isOn = FALSE /\ alarms = {}
  BY DEF Init
<1>8. phase \in Nat /\ 1 <= phase /\ phase <= Len(Script) + 1
  BY <1>1, <1>7
<1>9. Len(pending) <= 3 /\ alarms \subseteq 1..Len(Script) /\ isOn \in BOOLEAN
  <2>1. Len(pending) <= 3
    BY <1>5
  <2>2. alarms \subseteq 1..Len(Script) /\ isOn \in BOOLEAN
    BY <1>7
  <2> QED  BY <2>1, <2>2
<1>10. Loop
  BY <1>2, <1>3, <1>5, <1>7, <1>8, <1>9 DEF Loop
<1>11. Handed
  BY <1>4, <1>6 DEF Handed
<1> QED  BY <1>10, <1>11

LEMMA StepKeepsLoop ==
  ASSUME Loop, [Next]_vars
  PROVE  Loop' /\ now' >= now
<1>1. CASE Request
  <2>1. ~Done /\ phase <= Len(Script) /\ phase \in Nat /\ 1 <= phase
    BY <1>1, ScriptAssumption DEF Request, Done, Loop
  <2>2. pending' \in Seq(Packets) /\ Len(pending') = 3
    BY <1>1, <2>1, ScriptTyped, ExchangeTyped, RequestExchange
  <2>3. left' \in Nat
    BY <1>1 DEF Request, Loop
  <2>4. now' \in Nat /\ now' >= now
    <3>1. PICK delay \in Script[phase].delays : now' = now + delay
      BY <1>1 DEF Request
    <3>2. delay \in Nat
      BY <2>1, ScriptTyped
    <3> QED  BY <3>1, <3>2 DEF Loop
  <2>5. UNCHANGED <<phase, seen, isOn, decision, alarms>>
    BY <1>1 DEF Request, risk
  <2> QED  BY <2>1, <2>2, <2>3, <2>4, <2>5 DEF Loop, Done
<1>2. CASE NextPhase
  <2>1. ~Done /\ phase <= Len(Script) /\ phase \in Nat /\ 1 <= phase
        /\ Len(Script) \in Nat
    BY <1>2, ScriptAssumption DEF NextPhase, Done, Loop
  <2>2. left' \in Nat /\ now' \in Nat /\ now' >= now
    <3>1. CASE phase < Len(Script)
      <4>1. PICK pause \in Script[phase + 1].pauses : now' = now + pause
        BY <1>2, <3>1 DEF NextPhase
      <4>2. phase + 1 \in Nat /\ 1 <= phase + 1 /\ phase + 1 <= Len(Script)
        BY <2>1, <3>1
      <4>3. pause \in Nat /\ Script[phase + 1].count \in Nat
        BY <4>2, ScriptTyped
      <4> QED  BY <1>2, <3>1, <4>1, <4>3 DEF NextPhase, Loop
    <3>2. CASE ~(phase < Len(Script))
      BY <1>2, <3>2 DEF NextPhase, Loop
    <3> QED  BY <3>1, <3>2
  <2>3. /\ pending = <<>> /\ phase' = phase + 1
        /\ UNCHANGED <<pending, seen, isOn, decision, alarms>>
    BY <1>2 DEF NextPhase, risk
  <2> QED  BY <2>1, <2>2, <2>3 DEF Loop
<1>3. CASE SkipPacket
  <2>1. /\ pending # <<>> /\ pending' = Tail(pending)
        /\ UNCHANGED <<now, phase, left, seen, isOn, decision, alarms>>
    BY <1>3 DEF SkipPacket, NextRecord, traffic, risk
  <2>2. pending' \in Seq(Packets) /\ Len(pending') <= 3 /\ ~Done
    BY <2>1 DEF Loop
  <2> QED  BY <2>1, <2>2 DEF Loop, Done
<1>4. CASE BufferRecord
  BY <1>4, KeptLoop DEF BufferRecord, risk, Loop, Done
<1>5. CASE EvaluateWindow
  <2>1. /\ now' = now /\ phase' = phase /\ left' = left
        /\ pending' \in Seq(Packets) /\ Len(pending') <= 3
        /\ ~Done /\ seen' \in Seq(Records)
    BY <1>5, KeptLoop DEF EvaluateWindow
  <2>2. /\ isOn' \in BOOLEAN /\ decision' \in Risk!Decisions
        /\ alarms' \subseteq 1..Len(Script)
    <3>1. phase \in 1..Len(Script)
      BY <2>1, ScriptAssumption DEF Loop, Done
    <3>2. CASE UNCHANGED risk
      BY <3>2 DEF risk, Loop
    <3>4. PICK W : \/ UNCHANGED risk
                   \/ \E d \in Risk!Decisions :
                        /\ Risk!Evaluate(Percent(HstScore(W)),
                                         Percent(BurstScore(W)), d)
                        /\ decision' = d
                        /\ alarms' = IF d.level = "High"
                                     THEN alarms \cup {phase} ELSE alarms
      BY <1>5, Evaluation, Zenon
    <3>5. CASE ~UNCHANGED risk
      <4>1. PICK d \in Risk!Decisions :
              /\ Risk!Evaluate(Percent(HstScore(W)), Percent(BurstScore(W)), d)
              /\ decision' = d
              /\ alarms' = IF d.level = "High" THEN alarms \cup {phase}
                           ELSE alarms
        BY <3>4, <3>5, Zenon
      <4>2. isOn' \in BOOLEAN
        BY <4>1 DEF Risk!Evaluate, Risk!NextOn
      <4>3. alarms' \subseteq 1..Len(Script)
        BY <3>1, <4>1 DEF Loop
      <4> QED  BY <4>1, <4>2, <4>3
    <3> QED  BY <3>2, <3>5
  <2> QED  BY <2>1, <2>2 DEF Loop, Done
<1>6. CASE UNCHANGED watched
  BY <1>6 DEF watched, traffic, risk, Loop, Done
<1> QED  BY <1>1, <1>2, <1>3, <1>4, <1>5, <1>6, StepCases

\* The window manager sees a run of its own (main.cpp:171-173).
THEOREM FeedsWindowManager == Spec => WP!Spec
<1>1. Init => WP!Init
  BY DEF Init, Windows!Init, WP!Init, Windows!NoWindow, WP!NoWindow
<1>2. Loop /\ [Next]_vars => [WP!Next]_(WP!vars)
  <2> SUFFICES ASSUME Loop, [Next]_vars PROVE [WP!Next]_(WP!vars)
    OBVIOUS
  <2>1. CASE UNCHANGED window
    BY <2>1 DEF window, WP!vars
  <2>2. CASE /\ Arrival \in WP!Records
             /\ WP!BufferRecord(Arrival, now) \/ WP!EmitWindow(Arrival, now)
    <3>1. now \in Nat /\ Len(seen) + 1 \in Nat \ {0}
      BY DEF Loop
    <3> QED  BY <2>2, <3>1 DEF Arrival, WP!Next
  <2> QED  BY <2>1, <2>2, WindowStep
<1>3. Loop /\ [Next]_vars => Loop'
  BY StepKeepsLoop
<1>4. Init => Loop
  BY InitLoop
<1> QED  BY <1>1, <1>2, <1>3, <1>4, PTL DEF Spec, WP!Spec

\* What the loop evaluates are windows cut from the whole traffic (module
\* SlidingWindow), although only a buffer of it is kept (main.cpp:171-173).
THEOREM WindowsOfTraffic == Spec => WP!ImplementsSlidingWindow
BY FeedsWindowManager, WindowAssumptions, WP!Implementation, PTL

LEMMA StepKeepsHanded ==
  ASSUME Loop, Handed, [Next]_vars
  PROVE  Handed'
<1>1. CASE UNCHANGED window
  <2>1. accepted' = accepted /\ Len(seen) \in Nat
    BY <1>1 DEF window, Loop
  <2>2. Len(seen') = Len(seen) \/ Len(seen') = Len(seen) + 1
    <3>1. CASE Kept
      BY <3>1, KeptLoop
    <3>2. CASE ~Kept
      BY <3>2, StepCases DEF Request, NextPhase, SkipPacket, BufferRecord,
                             EvaluateWindow, watched
    <3> QED  BY <3>1, <3>2
  <2>3. now' \in Nat /\ now' >= now /\ now \in Nat
    BY StepKeepsLoop DEF Loop
  <2> QED  BY <2>1, <2>2, <2>3 DEF Handed
<1>2. CASE /\ Kept /\ Arrival \in WP!Records
           /\ accepted' = accepted \cup {Arrival}
  <2>1. /\ now' = now /\ now \in Nat /\ Len(seen) \in Nat
        /\ Len(seen') = Len(seen) + 1
    BY <1>2, KeptLoop DEF Loop
  <2>2. Arrival.n = Len(seen) + 1 /\ Arrival.timestamp = now
    BY DEF Arrival
  <2>3. IsFiniteSet(accepted')
    BY <1>2, FS_AddElement DEF Handed
  <2> QED  BY <1>2, <2>1, <2>2, <2>3 DEF Handed
<1> QED  BY <1>1, <1>2, WindowStep

\* The loop, what it handed over, and the window manager's own invariant.
Inv == Loop /\ Handed /\ WP!IInv

\* The inductive invariant of the packet loop (main.cpp:153-184).
THEOREM Invariance == Spec => []Inv
<1>1. Spec => []WP!IInv
  BY FeedsWindowManager, WindowAssumptions, WP!Invariance, PTL
<1>2. Init => Loop /\ Handed
  BY InitLoop
<1>3. Loop /\ Handed /\ [Next]_vars => Loop' /\ Handed'
  BY StepKeepsLoop, StepKeepsHanded
<1> QED  BY <1>1, <1>2, <1>3, PTL DEF Spec, Inv

LockBoolean == writeLocked \in BOOLEAN

LEMMA LockTyped == Spec => []LockBoolean
<1>1. Init => LockBoolean
  BY DEF Init, LockBoolean
<1>2. LockBoolean /\ [Next]_vars => LockBoolean'
  <2> SUFFICES ASSUME writeLocked \in BOOLEAN, [Next]_vars
               PROVE  writeLocked' \in BOOLEAN
    BY DEF LockBoolean
  <2>1. CASE Request
    BY <2>1 DEF Request, PLC!LockAfter
  <2>2. CASE SignalArrives
    BY <2>2 DEF SignalArrives
  <2>3. CASE UNCHANGED writeLocked
    BY <2>3
  <2> QED
    BY <2>1, <2>2, <2>3
       DEF Next, NextPhase, SkipPacket, BufferRecord, EvaluateWindow, Kept,
           NextRecord, vars
<1> QED  BY <1>1, <1>2, PTL DEF Spec

\* Whatever the script, the loop's variables keep their types: what a client
\* narrowed and a parser read back is a record, and the buffer holds only
\* records that were handed to addRecord.
THEOREM TypeCorrect == Spec => []TypeOK
<1>1. Inv /\ LockBoolean => TypeOK
  <2> SUFFICES ASSUME Inv, writeLocked \in BOOLEAN PROVE TypeOK
    BY DEF LockBoolean
  <2>1. \A r \in buffer : r.n \in DOMAIN seen /\ r.timestamp <= now
    <3>1. buffer \subseteq accepted
      BY DEF Inv, WP!IInv, WP!TypeOK
    <3>2. DOMAIN seen = 1..Len(seen) /\ Len(seen) \in Nat
      BY DEF Inv, Loop
    <3> QED  BY <3>1, <3>2 DEF Inv, Handed
  <2>2. phase \in 1..(Len(Script) + 1)
    BY ScriptAssumption DEF Inv, Loop
  <2> QED  BY <2>1, <2>2 DEF Inv, Loop, TypeOK
<1> QED  BY <1>1, Invariance, LockTyped, PTL

\* What the loop gets from its window manager (main.cpp:171-173): the buffer is
\* exact, an emitted window complete, and no record of the traffic is skipped.
THEOREM WindowsExact ==
  Spec => [](/\ Windows!BufferHoldsWhatIsNeeded
             /\ Windows!WindowIsComplete
             /\ Windows!NoRecordSkipped)
<1>1. Inv => /\ Windows!BufferHoldsWhatIsNeeded
             /\ Windows!WindowIsComplete
             /\ Windows!NoRecordSkipped
  BY Zenon
     DEF Inv, WP!IInv, Windows!BufferHoldsWhatIsNeeded,
         WP!BufferHoldsWhatIsNeeded, Windows!WindowIsComplete,
         WP!WindowIsComplete, Windows!NoRecordSkipped, WP!NoRecordSkipped,
         Windows!Within, WP!Within
<1> QED  BY <1>1, Invariance, PTL

\* Records with what the parser returned for them are a window again.
LEMMA ContentsAreWindow ==
  ASSUME NEW a, IsFiniteSet(a), NEW w \in SUBSET a, NEW s,
         \A r \in a : r.n \in Nat /\ r.timestamp \in Nat,
         \A q, r \in a : q.n <= r.n => q.timestamp <= r.timestamp
  PROVE  IsWindow(Contents(w, s))
<1> DEFINE f == [r \in w |-> [n |-> r.n, timestamp |-> r.timestamp,
                              of |-> s[r.n]]]
<1>1. IsFiniteSet(w)
  BY FS_Subset
<1>2. IsFiniteSet({f[r] : r \in w})
  <2> HIDE DEF f
  <2> QED  BY <1>1, ImageFinite
<1>3. {f[r] : r \in w} = Contents(w, s)
  BY DEF Contents
<1>4. IsFiniteSet(Contents(w, s))
  <2> HIDE DEF f
  <2> QED  BY <1>2, <1>3
<1>5. \A c \in Contents(w, s) :
        \E r \in a : c.n = r.n /\ c.timestamp = r.timestamp
  BY DEF Contents
<1> QED  BY <1>4, <1>5 DEF IsWindow

\* A step that evaluates a window: the window, its scores and the decision.
LEMMA EvaluatedWindow ==
  ASSUME Inv, Inv', EvaluateWindow
  PROVE  \E W : /\ W = Evaluated' /\ IsWindow(W)
                /\ \/ W = {} /\ UNCHANGED risk
                   \/ /\ W # {}
                      /\ Risk!Evaluate(Percent(HstScore(W)),
                                       Percent(BurstScore(W)), decision')
<1>1. PICK W : /\ W = Contents(outWindow'.records, seen')
               /\ \/ W = {} /\ UNCHANGED risk
                  \/ /\ W # {}
                     /\ Risk!Evaluate(Percent(HstScore(W)),
                                      Percent(BurstScore(W)), decision')
  BY Evaluation, Zenon
<1>2. returned'
  BY DEF EvaluateWindow, Windows!EmitWindow
<1>3. W = Evaluated'
  BY <1>1, <1>2 DEF Evaluated
<1>4. IsWindow(W)
  <2>1. outWindow'.records \subseteq accepted'
    BY DEF Inv, WP!IInv, WP!WindowIsComplete, WP!Within
  <2>2. IsFiniteSet(accepted')
        /\ \A r \in accepted' : r.n \in Nat /\ r.timestamp \in Nat
    BY DEF Inv, Handed
  <2>3. \A q, r \in accepted' : q.n <= r.n => q.timestamp <= r.timestamp
    BY DEF Inv, WP!IInv, WP!InTimeOrder
  <2> QED  BY <1>1, <2>1, <2>2, <2>3, ContentsAreWindow
<1> QED  BY <1>1, <1>3, <1>4

\* Every other step leaves the risk model alone, and either the window just
\* evaluated or none.
LEMMA NoEvaluation ==
  ASSUME [Next]_vars, ~EvaluateWindow, Loop
  PROVE  /\ UNCHANGED risk
         /\ Evaluated' = Evaluated \/ Evaluated' = {}
<1>1. CASE BufferRecord
  BY <1>1, BufferRecordIs DEF BufferRecord, Evaluated
<1>2. CASE UNCHANGED <<seen, risk, window>>
  BY <1>2 DEF window, Evaluated
<1>3. Request \/ NextPhase \/ SkipPacket \/ UNCHANGED watched
      => UNCHANGED <<seen, risk, window>>
  BY DEF Request, NextPhase, SkipPacket, watched
<1> QED  BY <1>1, <1>2, <1>3, StepCases

\* No window holds more records than the table of logarithms VLog has entries.
WindowsInTable == Cardinality(Evaluated) <= Len(VLog)

\* Three writes in ten are enough for a High decision (hst.cpp:14-18,
\* risk_model.cpp:31), whatever the script, the other records and the state of
\* the hysteresis.
THEOREM WritesEscalate == Spec /\ []WindowsInTable => []WriteHeavyIsHigh
<1>1. Init => WriteHeavyIsHigh
  BY DEF Init, Windows!Init, Evaluated, WriteHeavyIsHigh
<1>2. ASSUME Inv, Inv', [Next]_vars, WindowsInTable', WriteHeavyIsHigh
      PROVE  WriteHeavyIsHigh'
  <2>1. CASE ~EvaluateWindow
    BY <1>2, <2>1, NoEvaluation DEF Inv, WriteHeavyIsHigh, risk
  <2>2. CASE EvaluateWindow
    <3>1. PICK W : /\ W = Evaluated' /\ IsWindow(W)
                   /\ \/ W = {} /\ UNCHANGED risk
                      \/ /\ W # {}
                         /\ Risk!Evaluate(Percent(HstScore(W)),
                                          Percent(BurstScore(W)), decision')
      BY <1>2, <2>2, EvaluatedWindow
    <3>2. SUFFICES ASSUME W # {},
                          10 * Cardinality({r \in W : r.of.isWrite})
                            >= 3 * Cardinality(W)
                   PROVE  decision'.level = "High"
      BY <3>1 DEF WriteHeavyIsHigh
    <3>3. Percent(HstScore(W)) = 70
      <4>1. Cardinality(W) <= Len(VLog)
        BY <1>2, <3>1 DEF WindowsInTable
      <4> QED  BY <3>1, <3>2, <4>1, HstOfWrites DEF Writes
    <3>4. PICK p \in {0, 50, 60, 70} : p = Percent(BurstScore(W))
      BY PercentTyped
    <3>5. Risk!MaxOf(70, p) = 70
      BY DEF Risk!MaxOf
    <3>6. decision' = Risk!Decision(Risk!NextOn(70), 70)
      BY <3>1, <3>2, <3>3, <3>4, <3>5 DEF Risk!Evaluate
    <3>7. Risk!NextOn(70)
      BY <1>2 DEF Risk!NextOn, Risk!tauOn, Risk!tauOff, Inv, Loop
    <3> QED  BY <3>6, <3>7 DEF Risk!Decision
  <2> QED  BY <2>1, <2>2
<1> QED  BY <1>1, <1>2, Invariance, PTL DEF Spec

\* A window of reads scores nothing but its silences.
LEMMA ReadsScore ==
  ASSUME NEW W, IsWindow(W), W # {}, Cardinality(W) <= Len(VLog),
         ~HasWrite(W)
  PROVE  Percent(HstScore(W)) = 0
BY HstOfReads DEF HasWrite

\* A window of reads without a silence of 1.5 s ends an escalation
\* (risk_model.cpp:33, burst.cpp:11-23), whatever the script.
THEOREM ReadsClear == Spec /\ []WindowsInTable => []RegularReadsClear
<1>1. Init => RegularReadsClear
  BY DEF Init, RegularReadsClear
<1>2. ASSUME Inv, Inv', [Next]_vars, WindowsInTable', RegularReadsClear
      PROVE  RegularReadsClear'
  <2>1. CASE ~EvaluateWindow
    BY <1>2, <2>1, NoEvaluation DEF Inv, RegularReadsClear, risk
  <2>2. CASE EvaluateWindow
    <3>1. PICK W : /\ W = Evaluated' /\ IsWindow(W)
                   /\ \/ W = {} /\ UNCHANGED risk
                      \/ /\ W # {}
                         /\ Risk!Evaluate(Percent(HstScore(W)),
                                          Percent(BurstScore(W)), decision')
      BY <1>2, <2>2, EvaluatedWindow
    <3>2. SUFFICES ASSUME W # {}, ~HasWrite(W), ~Silence(W, 15)
                   PROVE  ~isOn'
      BY <3>1 DEF RegularReadsClear
    <3>3. Percent(HstScore(W)) = 0
      <4>1. Cardinality(W) <= Len(VLog)
        BY <1>2, <3>1 DEF WindowsInTable
      <4> QED  BY <3>1, <3>2, <4>1, ReadsScore
    <3>4. PICK p \in {0, 50} : p = Percent(BurstScore(W))
      BY <3>1, <3>2, BurstWithout15 DEF Silence
    <3>5. Risk!MaxOf(0, p) = p
      BY DEF Risk!MaxOf
    <3>6. isOn' = Risk!NextOn(p)
      BY <3>1, <3>2, <3>3, <3>4, <3>5 DEF Risk!Evaluate
    <3>7. ~Risk!NextOn(p)
      BY DEF Risk!NextOn, Risk!tauOn, Risk!tauOff
    <3> QED  BY <3>6, <3>7
  <2> QED  BY <2>1, <2>2
<1> QED  BY <1>1, <1>2, Invariance, PTL DEF Spec

\* Whatever the script, an escalation (risk_model.cpp:31) comes from a window
\* with a write or with a silence of 1.8 s or more.
THEOREM EscalationCaused == Spec /\ []WindowsInTable => EscalationHasCause
<1>1. ASSUME Inv, Inv', [Next]_vars, WindowsInTable'
      PROVE  [~isOn /\ isOn'
                => HasWrite(Evaluated') \/ Silence(Evaluated', 18)]_vars
  <2> SUFFICES ASSUME ~isOn, isOn', ~HasWrite(Evaluated'),
                      ~Silence(Evaluated', 18)
               PROVE  FALSE
    OBVIOUS
  <2>1. EvaluateWindow /\ ~UNCHANGED risk
    BY <1>1, NoEvaluation DEF Inv, risk
  <2>2. PICK W : /\ W = Evaluated' /\ IsWindow(W)
                 /\ \/ W = {} /\ UNCHANGED risk
                    \/ /\ W # {}
                       /\ Risk!Evaluate(Percent(HstScore(W)),
                                        Percent(BurstScore(W)), decision')
    BY <1>1, <2>1, EvaluatedWindow
  <2>3. W # {}
    BY <2>1, <2>2
  <2>4. Percent(HstScore(W)) = 0
    <3>1. Cardinality(W) <= Len(VLog)
      BY <1>1, <2>2 DEF WindowsInTable
    <3> QED  BY <2>2, <2>3, <3>1, ReadsScore
  <2>5. PICK p \in {0, 50, 60} : p = Percent(BurstScore(W))
    BY <2>2, BurstWithout18 DEF Silence
  <2>6. Risk!MaxOf(0, p) = p
    BY DEF Risk!MaxOf
  <2>7. isOn' = Risk!NextOn(p)
    BY <2>2, <2>3, <2>4, <2>5, <2>6 DEF Risk!Evaluate
  <2>8. ~Risk!NextOn(p)
    BY DEF Risk!NextOn, Risk!tauOn, Risk!tauOff
  <2> QED  BY <2>7, <2>8
<1> QED  BY <1>1, Invariance, PTL DEF Spec, EscalationHasCause

-----------------------------------------------------------------------------
(***************************************************************************)
(* Scripts of reads                                                        *)
(***************************************************************************)

\* A script of reads, from one to the next at most 1.7 s.
Polling ==
  \A p \in Nat : 1 <= p /\ p <= Len(Script) =>
    /\ IsRead(Script[p].cmd)
    /\ \A delay \in Script[p].delays :
         /\ delay <= 17
         /\ \A pause \in Script[p].pauses : pause + delay <= 17

\* Every packet of the ring and every record is a read, and the last packet of
\* an exchange leaves a record.
OnlyReads ==
  /\ \A k \in Nat :
       1 <= k /\ k <= Len(pending) /\ ~Skips(Parse(pending[k]))
         => ~Parse(pending[k]).isWrite
  /\ pending # <<>> => ~Skips(Parse(pending[Len(pending)]))
  /\ \A k \in Nat : 1 <= k /\ k <= Len(seen) => ~seen[k].isWrite

\* The silence since the last record, and those between the records before it.
ShortSilences ==
  /\ seen # <<>> =>
       /\ \E q \in accepted : q.n = Len(seen) /\ q.timestamp = lastTime
       /\ pending # <<>> => now - lastTime <= 17
       /\ pending = <<>> =>
            \/ now = lastTime
            \/ left > 0 /\ \E pause \in Script[phase].pauses :
                             now = lastTime + pause
  /\ \A r \in accepted : r.n > 1 =>
       \E q \in accepted : q.n = r.n - 1 /\ r.timestamp - q.timestamp <= 17

\* The PLC refuses no read.
LEMMA ReadAnswered ==
  ASSUME NEW cmd, Sendable(cmd), IsRead(cmd)
  PROVE  ~IsRefusable(cmd)
<1> SUFFICES ASSUME cmd.protocol = "Modbus"
             PROVE  ~LockedPLC!IsBlocked(ModbusPdu(FrameOf(cmd)))
  BY DEF IsRefusable
<1>pdu. PICK pdu : pdu = ModbusPdu(FrameOf(cmd))
  OBVIOUS
<1>1. pdu.function = AsByte(cmd.fn)
  BY <1>pdu, CommandDecoded
<1>2. ~(AsByte(cmd.fn) \in {5, 6, 15, 16})
  BY DEF IsRead, ModbusWrite
<1> QED  BY <1>pdu, <1>1, <1>2 DEF LockedPLC!IsBlocked, LockedPLC!IsWriteFc

\* What an exchange of a read leaves in the ring.
LEMMA ExchangeReads ==
  ASSUME NEW cmd, Sendable(cmd), IsRead(cmd)
  PROVE  LET e == Exchange(cmd, FALSE)
         IN  /\ Len(e) = 3
             /\ \A k \in Nat :
                  1 <= k /\ k <= 3 /\ ~Skips(Parse(e[k]))
                    => ~Parse(e[k]).isWrite
             /\ ~Skips(Parse(e[3]))
<1> DEFINE P(toServer, b) == Packet(cmd.protocol, toServer, b)
<1>1. Exchange(cmd, FALSE) = <<P(TRUE, <<>>), P(TRUE, FrameOf(cmd)),
                               P(FALSE, FrameOf(cmd))>>
  BY ExchangeIs DEF Answer
<1>2. Skips(Parse(P(TRUE, <<>>)))
  BY EmptySkipped
<1>3. \A toServer \in BOOLEAN : /\ ~Skips(Parse(P(toServer, FrameOf(cmd))))
                                /\ ~Parse(P(toServer, FrameOf(cmd))).isWrite
  BY ReadRecorded
<1> HIDE DEF P
<1>4. PICK e, p1, p2, p3 :
        /\ e = Exchange(cmd, FALSE) /\ e = <<p1, p2, p3>>
        /\ p1 = P(TRUE, <<>>) /\ p2 = P(TRUE, FrameOf(cmd))
        /\ p3 = P(FALSE, FrameOf(cmd))
  BY <1>1, Zenon
<1>5. Len(e) = 3 /\ e[1] = p1 /\ e[2] = p2 /\ e[3] = p3
  <2>1. e = <<p1, p2, p3>>
    BY <1>4
  <2> QED  BY <2>1
<1>6. \A k \in Nat : 1 <= k /\ k <= 3 => k = 1 \/ k = 2 \/ k = 3
  OBVIOUS
<1>7. /\ Skips(Parse(e[1])) /\ ~Parse(e[2]).isWrite /\ ~Parse(e[3]).isWrite
      /\ ~Skips(Parse(e[3]))
  BY <1>2, <1>3, <1>4, <1>5, Zenon
<1> QED  BY <1>4, <1>5, <1>6, <1>7

LEMMA StepOnlyReads ==
  ASSUME Polling, Loop, OnlyReads, [Next]_vars
  PROVE  OnlyReads'
<1>p. pending \in Seq(Packets) /\ seen \in Seq(Records)
  BY DEF Loop
<1>t. ASSUME pending # <<>>, pending' = Tail(pending)
      PROVE  /\ \A k \in Nat :
                  1 <= k /\ k <= Len(pending') /\ ~Skips(Parse(pending'[k]))
                    => ~Parse(pending'[k]).isWrite
             /\ pending' # <<>> => ~Skips(Parse(pending'[Len(pending')]))
  <2>1. /\ Len(pending) \in Nat /\ Len(pending) >= 1
        /\ Len(pending') = Len(pending) - 1
        /\ \A k \in Nat : 1 <= k /\ k <= Len(pending')
             => pending'[k] = pending[k + 1]
    BY <1>p, <1>t
  <2>2. pending' # <<>> => 1 <= Len(pending')
    BY <1>p, <1>t
  <2>3. ASSUME NEW k \in Nat, 1 <= k, k <= Len(pending'),
               ~Skips(Parse(pending'[k]))
        PROVE  ~Parse(pending'[k]).isWrite
    <3>1. k + 1 \in Nat /\ 1 <= k + 1 /\ k + 1 <= Len(pending)
      BY <2>1, <2>3
    <3> QED  BY <2>1, <2>3, <3>1 DEF OnlyReads
  <2>4. ASSUME pending' # <<>>
        PROVE  ~Skips(Parse(pending'[Len(pending')]))
    <3>1. Len(pending') \in Nat /\ 1 <= Len(pending')
          /\ Len(pending') + 1 = Len(pending)
      BY <2>1, <2>2, <2>4
    <3>2. pending'[Len(pending')] = pending[Len(pending)]
      BY <2>1, <3>1
    <3> QED  BY <1>t, <3>2 DEF OnlyReads
  <2> QED  BY <2>3, <2>4
<1>1. CASE Request
  <2>1. phase \in Nat /\ 1 <= phase /\ phase <= Len(Script)
    BY <1>1, ScriptAssumption DEF Request, Done, Loop
  <2>2. Sendable(Script[phase].cmd) /\ IsRead(Script[phase].cmd)
    BY <2>1, ScriptTyped DEF Polling
  <2>3. pending' = Exchange(Script[phase].cmd, FALSE) /\ seen' = seen
    BY <1>1, <2>2, ReadAnswered, RequestExchange DEF Request
  <2>4. /\ Len(pending') = 3
        /\ \A k \in Nat :
             1 <= k /\ k <= 3 /\ ~Skips(Parse(pending'[k]))
               => ~Parse(pending'[k]).isWrite
        /\ ~Skips(Parse(pending'[3]))
    BY <2>2, <2>3, ExchangeReads
  <2> QED  BY <2>3, <2>4 DEF OnlyReads
<1>2. CASE NextPhase
  BY <1>2 DEF NextPhase, OnlyReads
<1>3. CASE SkipPacket
  <2>1. pending # <<>> /\ pending' = Tail(pending) /\ seen' = seen
    BY <1>3 DEF SkipPacket, NextRecord
  <2> QED  BY <1>t, <2>1 DEF OnlyReads
<1>4. CASE Kept
  <2>1. pending # <<>> /\ pending' = Tail(pending)
    BY <1>4 DEF Kept, NextRecord
  <2>2. PICK r : /\ r = Parse(Head(pending)) /\ ~Skips(r)
                 /\ seen' = Append(seen, r)
    BY <1>4 DEF Kept
  <2>3. ~r.isWrite
    <3>1. Head(pending) = pending[1] /\ Len(pending) >= 1
      BY <1>p, <2>1
    <3>2. 1 \in Nat /\ 1 <= 1 /\ 1 <= Len(pending)
      BY <3>1
    <3> QED  BY <2>2, <3>1, <3>2 DEF OnlyReads
  <2>4. Len(seen) \in Nat /\ seen' \in Seq(Records)
        /\ Len(seen') = Len(seen) + 1
    BY <1>4, <1>p, KeptLoop
  <2>5. ASSUME NEW k \in Nat, 1 <= k, k <= Len(seen')
        PROVE  ~seen'[k].isWrite
    <3>1. CASE k <= Len(seen)
      <4>1. seen'[k] = seen[k]
        BY <1>p, <2>2, <2>5, <3>1
      <4> QED  BY <2>5, <3>1, <4>1 DEF OnlyReads
    <3>2. CASE ~(k <= Len(seen))
      <4>1. k = Len(seen) + 1
        BY <2>4, <2>5, <3>2
      <4>2. seen'[Len(seen) + 1] = r
        BY <1>p, <2>2
      <4> QED  BY <2>3, <4>1, <4>2
    <3> QED  BY <3>1, <3>2
  <2> QED  BY <1>t, <2>1, <2>5 DEF OnlyReads
<1>5. CASE UNCHANGED watched
  BY <1>5 DEF watched, OnlyReads
<1> QED  BY <1>1, <1>2, <1>3, <1>4, <1>5, StepCases
          DEF BufferRecord, EvaluateWindow

LEMMA StepShortSilences ==
  ASSUME Polling, Inv, OnlyReads, ShortSilences, [Next]_vars
  PROVE  ShortSilences'
<1>p. /\ pending \in Seq(Packets) /\ now \in Nat /\ lastTime \in Nat
      /\ Len(seen) \in Nat /\ seen \in Seq(Records)
  BY DEF Inv, Loop, WP!IInv, WP!TypeOK
<1>1. CASE Request
  <2>1. phase \in Nat /\ 1 <= phase /\ phase <= Len(Script)
    BY <1>1, ScriptAssumption DEF Request, Done, Inv, Loop
  <2>2. PICK delay \in Script[phase].delays : now' = now + delay
    BY <1>1 DEF Request
  <2>3. /\ delay \in Nat /\ Script[phase].pauses \subseteq Nat /\ delay <= 17
        /\ \A pause \in Script[phase].pauses : pause + delay <= 17
    BY <2>1, <2>2, ScriptTyped DEF Polling
  <2>4. /\ UNCHANGED <<seen, accepted, lastTime>>
        /\ pending = <<>> /\ pending' # <<>>
    <3>1. pending = <<>> /\ UNCHANGED <<seen, accepted, lastTime>>
      BY <1>1 DEF Request, window
    <3>2. Len(pending') = 3
      <4>1. PICK refused \in BOOLEAN :
              pending' = Exchange(Script[phase].cmd, refused)
        BY <1>1, RequestExchange
      <4>2. Len(Exchange(Script[phase].cmd, refused)) = 3
        BY ExchangeIs
      <4> QED  BY <4>1, <4>2
    <3>3. pending' # <<>>
      <4>1. PICK t : t = pending'
        OBVIOUS
      <4>2. t = <<>> => Len(t) = 0
        OBVIOUS
      <4>3. Len(t) = 3
        BY <3>2, <4>1, Zenon
      <4> QED  BY <4>1, <4>2, <4>3
    <3> QED  BY <3>1, <3>3
  <2>5. seen # <<>> => now' - lastTime <= 17
    <3> SUFFICES ASSUME seen # <<>> PROVE now' - lastTime <= 17
      OBVIOUS
    <3>1. CASE now = lastTime
      BY <1>p, <2>2, <2>3, <3>1
    <3>2. CASE now # lastTime
      <4>1. PICK pause \in Script[phase].pauses : now = lastTime + pause
        BY <2>4, <3>2 DEF ShortSilences
      <4>2. pause \in Nat /\ pause + delay <= 17
        BY <2>3
      <4> QED  BY <1>p, <2>2, <2>3, <4>1, <4>2
    <3> QED  BY <3>1, <3>2
  <2> QED  BY <2>4, <2>5 DEF ShortSilences
<1>2. CASE NextPhase
  <2>1. /\ left = 0 /\ pending = <<>> /\ pending' = <<>> /\ phase' = phase + 1
        /\ UNCHANGED <<seen, accepted, lastTime>>
    BY <1>2 DEF NextPhase, window
  <2>2. seen # <<>> => now = lastTime
    BY <2>1 DEF ShortSilences
  <2>3. \/ now' = now
        \/ left' > 0 /\ \E pause \in Script[phase'].pauses : now' = now + pause
    <3>1. CASE phase < Len(Script)
      <4>1. phase + 1 \in Nat /\ 1 <= phase + 1 /\ phase + 1 <= Len(Script)
        BY <3>1, ScriptAssumption DEF Inv, Loop
      <4>2. Script[phase + 1].count > 0
        BY <4>1, ScriptTyped
      <4> QED  BY <1>2, <2>1, <3>1, <4>2 DEF NextPhase
    <3>2. CASE ~(phase < Len(Script))
      BY <1>2, <3>2 DEF NextPhase
    <3> QED  BY <3>1, <3>2
  <2> QED  BY <2>1, <2>2, <2>3 DEF ShortSilences
<1>3. CASE SkipPacket
  <2>1. /\ pending # <<>> /\ pending' = Tail(pending)
        /\ Skips(Parse(Head(pending)))
        /\ UNCHANGED <<now, left, phase, seen, accepted, lastTime>>
    BY <1>3 DEF SkipPacket, NextRecord, traffic, window
  <2>2. pending' # <<>>
    <3> SUFFICES ASSUME pending' = <<>> PROVE FALSE
      OBVIOUS
    <3>1. Head(pending) = pending[1]
      BY <2>1
    <3>2. Len(pending) \in Nat /\ Len(Tail(pending)) = Len(pending) - 1
      BY <1>p, <2>1
    <3>3. Len(pending) = 1
      <4>1. PICK t : t = Tail(pending) /\ t = <<>>
        BY <2>1, Zenon
      <4>2. Len(t) = 0
        <5>1. t = <<>>
          BY <4>1
        <5> QED  BY <5>1
      <4> QED  BY <3>2, <4>1, <4>2
    <3> QED  BY <2>1, <3>1, <3>3 DEF OnlyReads
  <2> QED  BY <2>1, <2>2 DEF ShortSilences
<1>4. CASE Kept /\ ~UNCHANGED window
  <2>1. /\ accepted' = accepted \cup {Arrival}
        /\ WP!BufferRecord(Arrival, now) \/ WP!EmitWindow(Arrival, now)
    BY <1>4, WindowStep DEF Inv
  <2>2. lastTime' = now
    BY <2>1 DEF WP!BufferRecord, WP!EmitWindow, WP!Accept
  <2>3. now' = now /\ Len(seen') = Len(seen) + 1
    BY <1>4, KeptLoop DEF Inv
  <2>4. Arrival.n = Len(seen) + 1 /\ Arrival.timestamp = now
    BY DEF Arrival
  <2>5. Arrival.n > 1 => \E q \in accepted :
          q.n = Arrival.n - 1 /\ Arrival.timestamp - q.timestamp <= 17
    <3> SUFFICES ASSUME Arrival.n > 1
                 PROVE  \E q \in accepted :
                          q.n = Arrival.n - 1
                          /\ Arrival.timestamp - q.timestamp <= 17
      OBVIOUS
    <3>1. seen # <<>>
      BY <1>p, <2>4
    <3>2. pending # <<>>
      BY <1>4 DEF Kept
    <3>3. PICK q \in accepted : q.n = Len(seen) /\ q.timestamp = lastTime
      BY <3>1 DEF ShortSilences
    <3>4. now - lastTime <= 17
      BY <3>1, <3>2 DEF ShortSilences
    <3> QED  BY <1>p, <2>4, <3>3, <3>4
  <2>6. \A r \in accepted' : r.n > 1 =>
          \E q \in accepted' : q.n = r.n - 1
                               /\ r.timestamp - q.timestamp <= 17
    BY <2>1, <2>5 DEF ShortSilences
  <2>7. \E q \in accepted' : q.n = Len(seen') /\ q.timestamp = lastTime'
    BY <2>1, <2>2, <2>3, <2>4
  <2>8. now' - lastTime' <= 17 /\ now' = lastTime'
    BY <1>p, <2>2, <2>3
  <2> QED  BY <2>6, <2>7, <2>8 DEF ShortSilences
<1>5. CASE UNCHANGED watched
  BY <1>5 DEF watched, traffic, window, ShortSilences
<1>6. BufferRecord \/ EvaluateWindow => Kept /\ ~UNCHANGED window
  <2> SUFFICES ASSUME BufferRecord \/ EvaluateWindow
               PROVE  Kept /\ accepted' # accepted
    BY DEF window
  <2>1. Kept /\ accepted' = accepted \cup {Arrival}
    BY BufferRecordIs, EmitWindowIs DEF BufferRecord, EvaluateWindow
  <2>2. Arrival \notin accepted
    BY <1>p DEF Inv, Handed, Arrival
  <2> QED  BY <2>1, <2>2
<1> QED  BY <1>1, <1>2, <1>3, <1>4, <1>5, <1>6, StepCases

\* A window cut from a stream without long silences has none.
LEMMA WindowGaps ==
  ASSUME NEW a, IsFiniteSet(a), NEW lo \in Int, NEW hi \in Int, NEW s,
         \A r \in a : r.n \in Nat /\ 1 <= r.n /\ r.timestamp \in Nat,
         \A q, r \in a : q.n <= r.n => q.timestamp <= r.timestamp,
         NEW K \in Nat,
         \A r \in a : r.n > 1 =>
           \E q \in a : q.n = r.n - 1 /\ r.timestamp - q.timestamp <= K,
         NEW w, w = {r \in a : lo <= r.timestamp /\ r.timestamp <= hi},
         NEW c \in Followers(Contents(w, s))
  PROVE  Gap(Contents(w, s), c) <= K
<1> DEFINE W == Contents(w, s)
           P == {p \in W : p.n < c.n}
           T == {q.timestamp : q \in P}
           f == [q \in P |-> q.timestamp]
<1>1. IsWindow(W)
  <2>1. w \in SUBSET a
    OBVIOUS
  <2> QED  BY <2>1, ContentsAreWindow
<1>2. PICK r \in w : c.n = r.n /\ c.timestamp = r.timestamp
  BY DEF Followers, Contents
<1>3. PICK b \in W : b.n < c.n
  BY DEF Followers
<1>4. PICK q \in w : b.n = q.n /\ b.timestamp = q.timestamp
  BY <1>3 DEF Contents
<1>5. /\ q \in a /\ r \in a /\ q.n \in Nat /\ r.n \in Nat /\ 1 <= q.n
      /\ q.n < r.n /\ q.timestamp \in Nat /\ r.timestamp \in Nat
      /\ lo <= q.timestamp /\ r.timestamp <= hi
  BY <1>2, <1>3, <1>4
<1>6. PICK p \in a : p.n = r.n - 1 /\ r.timestamp - p.timestamp <= K
  BY <1>5
<1>7. p.n \in Nat /\ p.timestamp \in Nat /\ q.n <= p.n /\ p.n <= r.n
      /\ p.n < r.n
  BY <1>5, <1>6
<1>8. q.timestamp <= p.timestamp /\ p.timestamp <= r.timestamp
  BY <1>5, <1>7
<1>9. p \in w
  BY <1>5, <1>7, <1>8
<1>10. PICK d \in W : d.n = p.n /\ d.timestamp = p.timestamp
  <2> DEFINE d == [n |-> p.n, timestamp |-> p.timestamp, of |-> s[p.n]]
  <2>1. d \in W
    BY <1>9 DEF Contents
  <2> QED  BY <2>1
<1>11. d \in P /\ p.timestamp \in T
  BY <1>2, <1>7, <1>10
<1>12. IsFiniteSet(P)
  <2>1. P \subseteq W
    OBVIOUS
  <2> HIDE DEF P, W
  <2> QED  BY <1>1, <2>1, FS_Subset DEF IsWindow
<1>13. IsFiniteSet({f[x] : x \in P})
  <2> HIDE DEF f, P
  <2> QED  BY <1>12, ImageFinite
<1>14. {f[x] : x \in P} = T
  OBVIOUS
<1>15. T \subseteq Int
  <2> HIDE DEF W
  <2> QED  BY <1>1 DEF IsWindow
<1>16. Max(T) \in T /\ p.timestamp <= Max(T)
  <2> HIDE DEF T, f
  <2> QED  BY <1>11, <1>13, <1>14, <1>15, MaxIsLargest
<1>17. Gap(W, c) = r.timestamp - Max(T)
  BY <1>2 DEF Gap
<1>18. Max(T) \in Int
  <2> HIDE DEF T
  <2> QED  BY <1>15, <1>16
<1> HIDE DEF T
<1> QED  BY <1>5, <1>6, <1>7, <1>16, <1>17, <1>18

\* The window just emitted holds all there was of its interval.
LEMMA EmittedIsCut ==
  ASSUME Inv, EvaluateWindow
  PROVE  \E lo, hi \in Int :
           outWindow'.records
             = {r \in accepted' : lo <= r.timestamp /\ r.timestamp <= hi}
<1>1. /\ WP!EmitWindow(Arrival, now) /\ accepted' = accepted \cup {Arrival}
      /\ now \in Nat /\ nextEmitTime \in Nat /\ windowSize \in Nat
      /\ stepSize \in 1..windowSize
  BY EmitWindowIs, SizesAssumption
     DEF EvaluateWindow, Inv, Loop, WP!IInv, WP!TypeOK
<1>2. initialized /\ WP!EmitTime(now) = nextEmitTime
  <2>1. now >= WP!EmitTime(now)
    BY <1>1 DEF WP!EmitWindow
  <2> QED  BY <1>1, <2>1 DEF WP!EmitTime
<1> DEFINE lo == nextEmitTime - windowSize
<1>3. outWindow'.records = WP!Within(buffer \cup {Arrival}, lo, nextEmitTime)
  BY <1>1, <1>2 DEF WP!EmitWindow
<1>4. buffer = {r \in accepted : r.timestamp >= lo}
  BY <1>2 DEF Inv, WP!IInv, WP!BufferHoldsWhatIsNeeded
<1>5. \A r \in accepted : r.timestamp \in Nat
  BY DEF Inv, Handed
<1>6. lo \in Int
  BY <1>1
<1>7. outWindow'.records
        = {r \in accepted' : lo <= r.timestamp /\ r.timestamp <= nextEmitTime}
  <2> HIDE DEF lo
  <2> QED  BY <1>1, <1>3, <1>4, <1>5, <1>6 DEF WP!Within
<1> QED  BY <1>1, <1>6, <1>7

\* What polling never leaves.
Below ==
  /\ OnlyReads
  /\ ShortSilences
  /\ ~isOn /\ alarms = {}

\* PRISM/docs/testing.md:11 as far as it goes: a script of reads with at most
\* 1.7 s from one to the next never leads to a High decision (burst.cpp:11-23);
\* the run polling_alarm is a slower one that does.
THEOREM PollingStaysBelow ==
  Polling => (Spec /\ []WindowsInTable => []ReadsStayBelow)
<1> SUFFICES ASSUME Polling PROVE Spec /\ []WindowsInTable => []ReadsStayBelow
  OBVIOUS
<1>1. Init => Below
  <2> SUFFICES ASSUME Init PROVE Below
    OBVIOUS
  <2>1. pending = <<>> /\ seen = <<>> /\ accepted = {} /\ ~isOn /\ alarms = {}
    BY DEF Init, Windows!Init
  <2>2. OnlyReads
    BY <2>1 DEF OnlyReads
  <2>3. ShortSilences
    BY <2>1 DEF ShortSilences
  <2> QED  BY <2>1, <2>2, <2>3 DEF Below
<1>2. ASSUME Inv, Inv', [Next]_vars, WindowsInTable', Below
      PROVE  Below'
  <2>1. OnlyReads' /\ ShortSilences'
    BY <1>2, StepOnlyReads, StepShortSilences DEF Below, Inv
  <2>2. CASE ~EvaluateWindow
    BY <1>2, <2>1, <2>2, NoEvaluation DEF Inv, Below, risk
  <2>3. CASE EvaluateWindow
    <3>1. PICK W : /\ W = Contents(outWindow'.records, seen')
                   /\ \/ W = {} /\ UNCHANGED risk
                      \/ /\ W # {}
                         /\ \E d \in Risk!Decisions :
                              /\ Risk!Evaluate(Percent(HstScore(W)),
                                               Percent(BurstScore(W)), d)
                              /\ decision' = d
                              /\ alarms' = IF d.level = "High"
                                           THEN alarms \cup {phase} ELSE alarms
      BY <2>3, Evaluation, Zenon
    <3>2. CASE UNCHANGED risk
      BY <1>2, <2>1, <3>2 DEF Below, risk
    <3>3. CASE ~UNCHANGED risk
      <4>1. PICK d \in Risk!Decisions :
              /\ Risk!Evaluate(Percent(HstScore(W)), Percent(BurstScore(W)), d)
              /\ alarms' = IF d.level = "High" THEN alarms \cup {phase}
                           ELSE alarms
        BY <3>1, <3>3, Zenon
      <4>2. W # {} /\ W = Evaluated' /\ IsWindow(W)
        BY <1>2, <2>3, <3>1, <3>3, EvaluatedWindow
           DEF Evaluated, EvaluateWindow, Windows!EmitWindow
      <4>3. Cardinality(W) <= Len(VLog)
        BY <1>2, <4>2 DEF WindowsInTable
      <4>4. \A r \in W : ~r.of.isWrite
        <5> SUFFICES ASSUME NEW r \in outWindow'.records
                     PROVE  ~seen'[r.n].isWrite
          BY <3>1 DEF Contents
        <5>1. r \in accepted'
          BY <1>2 DEF Inv, WP!IInv, WP!WindowIsComplete, WP!Within
        <5> QED  BY <1>2, <2>1, <5>1 DEF Inv, Handed, OnlyReads
      <4>5. \A r \in Followers(W) : Gap(W, r) <= 17
        <5>1. PICK lo \in Int, hi \in Int :
                outWindow'.records
                  = {r \in accepted' : lo <= r.timestamp /\ r.timestamp <= hi}
          BY <1>2, <2>3, EmittedIsCut
        <5>2. /\ IsFiniteSet(accepted')
              /\ \A r \in accepted' : r.n \in Nat /\ 1 <= r.n
                                      /\ r.timestamp \in Nat
          BY <1>2 DEF Inv, Handed
        <5>3. \A q, r \in accepted' : q.n <= r.n => q.timestamp <= r.timestamp
          BY <1>2 DEF Inv, WP!IInv, WP!InTimeOrder
        <5>4. \A r \in accepted' : r.n > 1 =>
                \E q \in accepted' :
                  q.n = r.n - 1 /\ r.timestamp - q.timestamp <= 17
          BY <2>1 DEF ShortSilences
        <5>5. 17 \in Nat
          OBVIOUS
        <5> QED  BY <3>1, <5>1, <5>2, <5>3, <5>4, <5>5, WindowGaps
      <4>6. Percent(HstScore(W)) = 0
        BY <4>2, <4>3, <4>4, HstOfReads
      <4>7. PICK p \in {0, 50, 60} : p = Percent(BurstScore(W))
        <5>1. \A r \in Followers(W) : ~(Gap(W, r) >= 18)
          BY <4>2, <4>5, GapIsTime
        <5> QED  BY <4>2, <5>1, BurstWithout18
      <4>8. Risk!MaxOf(0, p) = p
        BY DEF Risk!MaxOf
      <4>9. isOn' = Risk!NextOn(p) /\ d = Risk!Decision(Risk!NextOn(p), p)
        BY <4>1, <4>6, <4>7, <4>8 DEF Risk!Evaluate
      <4>10. ~Risk!NextOn(p)
        BY <1>2 DEF Risk!NextOn, Risk!tauOn, Below
      <4>11. d.level # "High"
        BY <4>9, <4>10 DEF Risk!Decision
      <4> QED  BY <1>2, <2>1, <4>1, <4>9, <4>10, <4>11 DEF Below
    <3> QED  BY <3>2, <3>3
  <2> QED  BY <2>2, <2>3
<1>3. Below => ReadsStayBelow
  BY DEF Below, ReadsStayBelow
<1> QED  BY <1>1, <1>2, <1>3, Invariance, PTL DEF Spec

-----------------------------------------------------------------------------
(***************************************************************************)
(* The ring, and what a step does with it                                  *)
(***************************************************************************)

\* The packets in the ring are the last ones of the current phase's exchange, with
\* a PLC that refused it or not.
RingOf(refused) ==
  \A k \in Nat : 1 <= k /\ k <= Len(pending) =>
    pending[k] = Exchange(Script[phase].cmd, refused)[3 - Len(pending) + k]

Ring ==
  \E refused \in BOOLEAN :
    RingOf(refused) /\ (refused => IsRefusable(Script[phase].cmd))

\* Records are numbered one by one, in the order of addRecord's calls.
Numbered ==
  /\ \A q, r \in accepted : q.n = r.n => q = r
  /\ \A k \in Nat : 1 <= k /\ k <= Len(seen) => \E r \in accepted : r.n = k

\* A packet leaves the ring without a record, or with one.
Passes ==
  /\ Len(pending) \in 1..3 /\ Len(pending') = Len(pending) - 1
  /\ Skips(Parse(Head(pending)))
  /\ UNCHANGED <<now, phase, left, seen, isOn, decision, alarms, window>>

Hands ==
  /\ Len(pending) \in 1..3 /\ Len(pending') = Len(pending) - 1
  /\ ~Skips(Parse(Head(pending)))
  /\ UNCHANGED <<now, phase, left>>
  /\ seen' = Append(seen, Parse(Head(pending))) /\ Len(seen') = Len(seen) + 1
  /\ accepted' = accepted \cup {Arrival}
  /\ Arrival.n = Len(seen) + 1 /\ Arrival.timestamp = now
  /\ initialized' /\ lastTime' = now
  /\ nextEmitTime' = IF ~initialized THEN now + windowSize
                     ELSE IF now < nextEmitTime THEN nextEmitTime
                     ELSE nextEmitTime + stepSize

LEMMA RingLength ==
  ASSUME Loop
  PROVE  /\ Len(pending) \in 0..3 /\ (pending = <<>> <=> Len(pending) = 0)
         /\ Len(seen) \in Nat /\ (seen = <<>> <=> Len(seen) = 0)
<1>1. \A s : s \in Seq(Packets) \/ s \in Seq(Records) =>
             Len(s) \in Nat /\ (s = <<>> <=> Len(s) = 0)
  OBVIOUS
<1>2. Len(pending) <= 3
  BY DEF Loop
<1>3. Len(pending) \in Nat /\ (pending = <<>> <=> Len(pending) = 0)
  BY <1>1 DEF Loop
<1>4. Len(seen) \in Nat /\ (seen = <<>> <=> Len(seen) = 0)
  BY <1>1 DEF Loop
<1>5. Len(pending) \in 0..3
  <2>1. PICK n \in Nat : n = Len(pending) /\ n <= 3
    BY <1>2, <1>3
  <2> QED  BY <2>1
<1> QED  BY <1>3, <1>4, <1>5, Zenon

\* The five kinds of step.
LEMMA Steps ==
  ASSUME Inv, [Next]_vars
  PROVE  \/ Request /\ Len(pending) = 0 /\ Len(pending') = 3
         \/ NextPhase /\ Len(pending) = 0 /\ Len(pending') = 0
         \/ SkipPacket /\ Passes
         \/ BufferRecord /\ Hands
         \/ EvaluateWindow /\ Hands
         \/ UNCHANGED watched
<1>p. /\ pending \in Seq(Packets) /\ Len(pending) <= 3 /\ Len(pending) \in Nat
      /\ now \in Nat /\ nextEmitTime \in Nat
      /\ windowSize \in Nat /\ stepSize \in Nat /\ 1 <= stepSize
      /\ stepSize <= windowSize
  BY SizesAssumption DEF Inv, Loop, WP!IInv, WP!TypeOK
<1>t. ASSUME pending # <<>>, pending' = Tail(pending)
      PROVE  Len(pending) \in 1..3 /\ Len(pending') = Len(pending) - 1
  <2>1. Len(pending) # 0
    BY <1>p, <1>t
  <2>2. Len(Tail(pending)) = Len(pending) - 1
    BY <1>p, <1>t
  <2> QED  BY <1>p, <1>t, <2>1, <2>2
<1>1. CASE Request
  <2>1. PICK refused \in BOOLEAN :
          pending' = Exchange(Script[phase].cmd, refused)
    BY <1>1, RequestExchange
  <2>2. Len(Exchange(Script[phase].cmd, refused)) = 3
    BY ExchangeIs
  <2>3. pending = <<>> /\ Len(<<>>) = 0
    BY <1>1 DEF Request
  <2>4. Len(pending) = 0 /\ Len(pending') = 3
    BY <2>1, <2>2, <2>3, Zenon
  <2> QED  BY <1>1, <2>4
<1>2. CASE NextPhase
  <2>1. pending = <<>> /\ pending' = <<>>
    BY <1>2 DEF NextPhase
  <2> QED  BY <1>2, <2>1
<1>3. CASE SkipPacket
  <2>1. /\ pending # <<>> /\ pending' = Tail(pending)
        /\ Skips(Parse(Head(pending)))
        /\ UNCHANGED <<now, phase, left, seen, isOn, decision, alarms, window>>
    BY <1>3 DEF SkipPacket, NextRecord, traffic, risk
  <2> QED  BY <1>3, <1>t, <2>1 DEF Passes
<1>4. ASSUME BufferRecord \/ EvaluateWindow
      PROVE  Hands
  <2>1. Kept
    BY <1>4 DEF BufferRecord, EvaluateWindow
  <2>2. /\ pending # <<>> /\ pending' = Tail(pending)
        /\ ~Skips(Parse(Head(pending)))
        /\ seen' = Append(seen, Parse(Head(pending)))
        /\ UNCHANGED <<now, phase, left>>
    BY <2>1 DEF Kept, NextRecord, traffic
  <2>3. Len(seen') = Len(seen) + 1
    BY <2>1, KeptLoop DEF Inv
  <2>4. /\ accepted' = accepted \cup {Arrival}
        /\ WP!BufferRecord(Arrival, now) \/ WP!EmitWindow(Arrival, now)
    BY <1>4, BufferRecordIs, EmitWindowIs DEF BufferRecord, EvaluateWindow
  <2>5. initialized' /\ lastTime' = now
    BY <2>4 DEF WP!BufferRecord, WP!EmitWindow, WP!Accept
  <2>6. nextEmitTime' = IF ~initialized THEN now + windowSize
                        ELSE IF now < nextEmitTime THEN nextEmitTime
                        ELSE nextEmitTime + stepSize
    <3>1. CASE WP!BufferRecord(Arrival, now)
      <4>1. nextEmitTime' = WP!EmitTime(now) /\ now < WP!EmitTime(now)
        BY <3>1 DEF WP!BufferRecord
      <4> QED  BY <4>1 DEF WP!EmitTime
    <3>2. CASE WP!EmitWindow(Arrival, now)
      <4>1. /\ nextEmitTime' = WP!EmitTime(now) + stepSize
            /\ now >= WP!EmitTime(now)
        BY <3>2 DEF WP!EmitWindow
      <4> QED  BY <1>p, <4>1 DEF WP!EmitTime
    <3> QED  BY <2>4, <3>1, <3>2
  <2>7. Arrival.n = Len(seen) + 1 /\ Arrival.timestamp = now
    BY DEF Arrival
  <2> QED  BY <1>t, <2>2, <2>3, <2>4, <2>5, <2>6, <2>7 DEF Hands
<1> QED  BY <1>1, <1>2, <1>3, <1>4, StepCases

\* Who is at the head of the ring.
LEMMA HeadOfRing ==
  ASSUME Loop, pending # <<>>
  PROVE  /\ ~Done /\ phase \in Nat /\ 1 <= phase /\ phase <= Len(Script)
         /\ Len(pending) \in 1..3
         /\ \A refused \in BOOLEAN : RingOf(refused) =>
              Head(pending) = Exchange(Script[phase].cmd, refused)[4 - Len(pending)]
<1>1. ~Done /\ phase \in Nat /\ 1 <= phase /\ phase <= Len(Script)
  BY ScriptAssumption DEF Loop, Done
<1>2. Len(pending) \in 1..3
  BY RingLength
<1>3. Head(pending) = pending[1]
  BY DEF Loop
<1>4. 1 \in Nat /\ 1 <= 1 /\ 1 <= Len(pending)
  BY <1>2
<1>5. ASSUME NEW refused \in BOOLEAN, RingOf(refused)
      PROVE  pending[1]
               = Exchange(Script[phase].cmd, refused)[3 - Len(pending) + 1]
  BY <1>4, <1>5 DEF RingOf
<1>6. 3 - Len(pending) + 1 = 4 - Len(pending)
  BY <1>2
<1> QED  BY <1>1, <1>2, <1>3, <1>5, <1>6

\* Packet by packet.
LEMMA HeadIs ==
  ASSUME Loop, pending # <<>>, NEW refused \in BOOLEAN, RingOf(refused)
  PROVE  LET cmd == Script[phase].cmd
         IN  /\ Len(pending) = 3 => Head(pending) = Packet(cmd.protocol, TRUE, <<>>)
             /\ Len(pending) = 2 =>
                  Head(pending) = Packet(cmd.protocol, TRUE, FrameOf(cmd))
             /\ Len(pending) = 1 =>
                  Head(pending)
                    = Packet(cmd.protocol, FALSE, Answer(cmd, refused))
<1> DEFINE cmd == Script[phase].cmd
<1>1. /\ Len(pending) \in 1..3
      /\ Head(pending) = Exchange(cmd, refused)[4 - Len(pending)]
  BY HeadOfRing
<1>2. PICK e, p1, p2, p3 :
        /\ e = Exchange(cmd, refused) /\ e = <<p1, p2, p3>>
        /\ p1 = Packet(cmd.protocol, TRUE, <<>>)
        /\ p2 = Packet(cmd.protocol, TRUE, FrameOf(cmd))
        /\ p3 = Packet(cmd.protocol, FALSE, Answer(cmd, refused))
  <2> HIDE DEF cmd
  <2> QED  BY ExchangeIs, Zenon
<1>3. e[1] = p1 /\ e[2] = p2 /\ e[3] = p3
  <2>1. e = <<p1, p2, p3>>
    BY <1>2
  <2> QED  BY <2>1
<1>4. PICK n \in 1..3 : n = Len(pending)
  BY <1>1
<1>5. Head(pending) = e[4 - n]
  BY <1>1, <1>2, <1>4
<1>6. /\ n = 1 => 4 - n = 3
      /\ n = 2 => 4 - n = 2
      /\ n = 3 => 4 - n = 1
  OBVIOUS
<1> HIDE DEF cmd
<1>7. /\ n = 1 => Head(pending) = p3
      /\ n = 2 => Head(pending) = p2
      /\ n = 3 => Head(pending) = p1
  BY <1>3, <1>5, <1>6, Zenon
<1>8. /\ Len(pending) = 3 => Head(pending) = Packet(cmd.protocol, TRUE, <<>>)
      /\ Len(pending) = 2 =>
           Head(pending) = Packet(cmd.protocol, TRUE, FrameOf(cmd))
      /\ Len(pending) = 1 =>
           Head(pending) = Packet(cmd.protocol, FALSE, Answer(cmd, refused))
  BY <1>2, <1>4, <1>7, Zenon
<1> QED  BY <1>8 DEF cmd

\* The first packet of an exchange leaves no record; of a command that is
\* recorded, the frame does, and its echo, which the PLC sends when it does not
\* refuse.
LEMMA RecordsOfExchange ==
  ASSUME Loop, Ring, pending # <<>>
  PROVE  /\ Len(pending) = 3 => Skips(Parse(Head(pending)))
         /\ IsRecorded(Script[phase].cmd) =>
              /\ Len(pending) = 2 => ~Skips(Parse(Head(pending)))
              /\ Len(pending) = 1
                   /\ (RingOf(FALSE) \/ ~IsRefusable(Script[phase].cmd))
                  => ~Skips(Parse(Head(pending)))
              /\ Len(pending) # 3 /\ ~Skips(Parse(Head(pending))) =>
                   (Parse(Head(pending)).isWrite <=> IsWriting(Script[phase].cmd))
<1> DEFINE cmd == Script[phase].cmd
           P(toServer, b) == Packet(cmd.protocol, toServer, b)
           h == Head(pending)
<1>1. Len(pending) \in 1..3 /\ Sendable(cmd)
  BY HeadOfRing, ScriptTyped
<1>2. ASSUME NEW refused \in BOOLEAN, RingOf(refused)
      PROVE  /\ Len(pending) = 3 => h = P(TRUE, <<>>)
             /\ Len(pending) = 2 => h = P(TRUE, FrameOf(cmd))
             /\ Len(pending) = 1 => h = P(FALSE, Answer(cmd, refused))
  BY <1>2, HeadIs
<1>3. Skips(Parse(P(TRUE, <<>>)))
  BY EmptySkipped
<1>4. IsRecorded(cmd) =>
        \A toServer \in BOOLEAN :
          /\ ~Skips(Parse(P(toServer, FrameOf(cmd))))
          /\ Parse(P(toServer, FrameOf(cmd))).isWrite <=> IsWriting(cmd)
  BY <1>1, CommandRecorded, Zenon DEF IsRecorded, IsWriting
<1>5. PICK refused \in BOOLEAN : RingOf(refused) /\ (refused => IsRefusable(cmd))
  BY DEF Ring
<1>6. IsRefusable(cmd) => Skips(Parse(P(FALSE, ModbusException(AsByte(cmd.fn)))))
  <2>1. IsRefusable(cmd) => cmd.protocol = "Modbus"
    BY DEF IsRefusable
  <2>2. PICK fn \in Bytes : fn = AsByte(cmd.fn)
    BY <1>1, FitsFrame
  <2>3. Parse(Packet("Modbus", FALSE, ModbusException(fn))) = Skipped
    BY ExceptionUnseen
  <2> QED  BY <2>1, <2>2, <2>3, Zenon DEF Skips
<1>7. Answer(cmd, FALSE) = FrameOf(cmd)
      /\ Answer(cmd, TRUE) = ModbusException(AsByte(cmd.fn))
  BY DEF Answer
<1> HIDE DEF P, cmd, h
<1>8. Len(pending) = 3 => Skips(Parse(h))
  BY <1>2, <1>3, <1>5, Zenon
<1>9. ASSUME IsRecorded(cmd)
      PROVE  /\ Len(pending) = 2 => ~Skips(Parse(h))
             /\ Len(pending) = 1 /\ (RingOf(FALSE) \/ ~IsRefusable(cmd))
                => ~Skips(Parse(h))
             /\ Len(pending) # 3 /\ ~Skips(Parse(h)) =>
                  (Parse(h).isWrite <=> IsWriting(cmd))
  <2>1. Len(pending) = 2 => h = P(TRUE, FrameOf(cmd))
    BY <1>2, <1>5, Zenon
  <2>2. Len(pending) = 1 /\ (RingOf(FALSE) \/ ~IsRefusable(cmd))
        => h = P(FALSE, FrameOf(cmd))
    BY <1>2, <1>5, <1>7, Zenon
  <2>3. Len(pending) = 1 /\ ~Skips(Parse(h)) => h = P(FALSE, FrameOf(cmd))
    BY <1>2, <1>5, <1>6, <1>7, Zenon
  <2>4. Len(pending) # 3 => Len(pending) = 1 \/ Len(pending) = 2
    BY <1>1
  <2> QED  BY <1>4, <1>9, <2>1, <2>2, <2>3, <2>4, Zenon
<1> QED  BY <1>8, <1>9 DEF cmd, h

\* At most the last two packets of an exchange leave a record.
LEMMA HandsLate ==
  ASSUME Loop, Ring, Hands
  PROVE  Len(pending) \in 1..2
<1>1. Len(pending) \in 1..3 /\ pending # <<>>
  BY RingLength DEF Hands
<1>2. Len(pending) # 3
  BY <1>1, RecordsOfExchange DEF Hands
<1> QED  BY <1>1, <1>2

LEMMA StepRingOf ==
  ASSUME Loop, NEW refused \in BOOLEAN, RingOf(refused), [Next]_vars, ~Request
  PROVE  RingOf(refused)' /\ (pending' # <<>> => phase' = phase)
<1>p. pending \in Seq(Packets)
  BY DEF Loop
<1>1. CASE NextPhase
  <2>1. pending' = <<>>
    BY <1>1 DEF NextPhase
  <2>2. \A k \in Nat : ~(1 <= k /\ k <= Len(<<>>))
    OBVIOUS
  <2>3. RingOf(refused)'
    BY <2>1, <2>2 DEF RingOf
  <2> QED  BY <2>1, <2>3
<1>2. CASE pending # <<>> /\ pending' = Tail(pending) /\ phase' = phase
  <2> DEFINE e == Exchange(Script[phase].cmd, refused)
  <2>1. /\ Len(pending) \in Nat /\ Len(pending') = Len(pending) - 1
        /\ \A k \in Nat : 1 <= k /\ k <= Len(pending') =>
             pending'[k] = pending[k + 1]
    BY <1>p, <1>2
  <2>2. ASSUME NEW k \in Nat, 1 <= k, k <= Len(pending')
        PROVE  pending'[k] = e[3 - Len(pending') + k]
    <3>1. k + 1 \in Nat /\ 1 <= k + 1 /\ k + 1 <= Len(pending)
      BY <2>1, <2>2
    <3>2. pending[k + 1] = e[3 - Len(pending) + (k + 1)]
      BY <3>1 DEF RingOf
    <3>3. 3 - Len(pending) + (k + 1) = 3 - Len(pending') + k
      BY <2>1
    <3> QED  BY <2>1, <2>2, <3>2, <3>3
  <2> QED  BY <1>2, <2>2 DEF RingOf
<1>3. SkipPacket \/ BufferRecord \/ EvaluateWindow
      => pending # <<>> /\ pending' = Tail(pending) /\ phase' = phase
  BY DEF SkipPacket, BufferRecord, EvaluateWindow, Kept, NextRecord, traffic
<1>4. CASE UNCHANGED watched
  BY <1>4 DEF watched, traffic, RingOf
<1> QED  BY <1>1, <1>2, <1>3, <1>4, StepCases

LEMMA RequestRingOf ==
  ASSUME Request
  PROVE  \E refused \in BOOLEAN :
           /\ RingOf(refused)' /\ phase' = phase
           /\ refused => IsRefusable(Script[phase].cmd)
           /\ refused => writeLocked
<1>1. PICK refused \in BOOLEAN :
        /\ pending' = Exchange(Script[phase].cmd, refused)
        /\ refused => IsRefusable(Script[phase].cmd)
        /\ refused => writeLocked
  BY RequestExchange
<1>2. Len(pending') = 3
  <2>1. Len(Exchange(Script[phase].cmd, refused)) = 3
    BY ExchangeIs
  <2> QED  BY <1>1, <2>1, Zenon
<1>3. phase' = phase
  BY DEF Request
<1>4. \A k \in Nat : 3 - 3 + k = k
  OBVIOUS
<1>5. RingOf(refused)'
  BY <1>1, <1>2, <1>3, <1>4 DEF RingOf
<1> QED  BY <1>1, <1>3, <1>5

LEMMA StepRing ==
  ASSUME Inv, Ring, [Next]_vars
  PROVE  Ring'
<1>1. CASE Request
  <2>1. PICK refused \in BOOLEAN :
          /\ RingOf(refused)' /\ phase' = phase
          /\ refused => IsRefusable(Script[phase].cmd)
    BY <1>1, RequestRingOf
  <2> QED  BY <2>1 DEF Ring
<1>2. CASE ~Request
  <2>1. PICK refused \in BOOLEAN :
          RingOf(refused) /\ (refused => IsRefusable(Script[phase].cmd))
    BY DEF Ring
  <2>2. RingOf(refused)' /\ (pending' # <<>> => phase' = phase)
    BY <1>2, <2>1, StepRingOf DEF Inv
  <2>3. CASE pending' # <<>>
    BY <2>1, <2>2, <2>3 DEF Ring
  <2>4. CASE pending' = <<>>
    <3>1. \A k \in Nat : ~(1 <= k /\ k <= Len(<<>>))
      OBVIOUS
    <3>2. RingOf(FALSE)'
      BY <2>4, <3>1 DEF RingOf
    <3> QED  BY <3>2 DEF Ring
  <2> QED  BY <2>3, <2>4
<1> QED  BY <1>1, <1>2

LEMMA StepNumbered ==
  ASSUME Inv, Numbered, [Next]_vars
  PROVE  Numbered'
<1>1. CASE UNCHANGED <<seen, accepted>>
  BY <1>1 DEF Numbered
<1>2. CASE Hands
  <2>1. /\ Len(seen) \in Nat /\ Len(seen') = Len(seen) + 1
        /\ accepted' = accepted \cup {Arrival} /\ Arrival.n = Len(seen) + 1
        /\ \A r \in accepted : r.n \in Nat /\ r.n <= Len(seen)
    BY <1>2, RingLength DEF Hands, Inv, Handed
  <2>2. \A q, r \in accepted' : q.n = r.n => q = r
    <3>1. \A r \in accepted : r.n # Arrival.n
      BY <2>1
    <3> QED  BY <2>1, <3>1 DEF Numbered
  <2>3. ASSUME NEW k \in Nat, 1 <= k, k <= Len(seen')
        PROVE  \E r \in accepted' : r.n = k
    <3>1. k <= Len(seen) \/ k = Arrival.n
      BY <2>1, <2>3
    <3> QED  BY <2>1, <2>3, <3>1 DEF Numbered
  <2> QED  BY <2>2, <2>3 DEF Numbered
<1>3. UNCHANGED <<seen, accepted>> \/ Hands
  BY Steps DEF Request, NextPhase, Passes, watched, window
<1> QED  BY <1>1, <1>2, <1>3

\* The loop's invariant with the ring and the numbers.
RingInv == Inv /\ Ring /\ Numbered

LEMMA RingInvariance == Spec => []RingInv
<1>1. Init => Ring /\ Numbered
  <2> SUFFICES ASSUME Init PROVE Ring /\ Numbered
    OBVIOUS
  <2>1. pending = <<>> /\ seen = <<>> /\ accepted = {}
    BY DEF Init, Windows!Init
  <2>2. Len(pending) = 0 /\ Len(seen) = 0
    BY <2>1
  <2>3. RingOf(FALSE)
    BY <2>2 DEF RingOf
  <2>4. Ring
    BY <2>3, Zenon DEF Ring
  <2>5. Numbered
    BY <2>1, <2>2 DEF Numbered
  <2> QED  BY <2>4, <2>5
<1>2. Inv /\ Ring /\ Numbered /\ [Next]_vars => Ring' /\ Numbered'
  BY StepRing, StepNumbered
<1> QED  BY <1>1, <1>2, Invariance, PTL DEF Spec, RingInv

-----------------------------------------------------------------------------
(***************************************************************************)
(* How many records fit into a span of time                                *)
(***************************************************************************)

\* No larger than a set into which it can be mapped one to one.
LEMMA NoLarger ==
  ASSUME NEW S, NEW T, IsFiniteSet(T), NEW f \in [S -> T],
         \A x, y \in S : f[x] = f[y] => x = y
  PROVE  /\ IsFiniteSet(S)
         /\ Cardinality(S) \in Nat /\ Cardinality(T) \in Nat
         /\ Cardinality(S) <= Cardinality(T)
<1>1. f \in Injection(S, T)
  BY DEF Injection, IsInjective
<1>2. IsFiniteSet(S) /\ Cardinality(S) <= Cardinality(T)
  BY <1>1, FS_Injection
<1> QED  BY <1>2, FS_CardinalityType

\* Records whose numbers lie within m of each other are at most m.
LEMMA FewNumbers ==
  ASSUME NEW w, NEW m \in Nat, \A r \in w : r.n \in Nat,
         \A q, r \in w : q.n = r.n => q = r,
         \A q, r \in w : r.n < q.n + m
  PROVE  IsFiniteSet(w) /\ Cardinality(w) \in Nat /\ Cardinality(w) <= m
<1>1. CASE w = {}
  BY <1>1, FS_EmptySet
<1>2. CASE w # {}
  <2> DEFINE N == {r.n : r \in w}
  <2>1. N # {} /\ N \subseteq Nat
    BY <1>2
  <2>2. PICK k \in N : \A j \in N : ~(<<j, k>> \in OpToRel(<, Nat))
    <3> HIDE DEF N
    <3> QED  BY <2>1, WFMin, NatLessThanWellFounded
  <2>3. k \in Nat /\ \A r \in w : r.n >= k
    <3>1. \A j \in N : ~(j < k)
      BY <2>1, <2>2 DEF OpToRel
    <3> QED  BY <2>1, <3>1
  <2>4. PICK q \in w : q.n = k
    BY <2>2
  <2> DEFINE T == k..(k + m - 1)
             f == [r \in w |-> r.n]
  <2>5. f \in [w -> T]
    <3> SUFFICES ASSUME NEW r \in w PROVE r.n \in T
      OBVIOUS
    <3>1. r.n \in Nat /\ r.n >= k /\ r.n < k + m
      BY <2>3, <2>4
    <3> QED  BY <2>3, <3>1
  <2>6. \A x, y \in w : f[x] = f[y] => x = y
    OBVIOUS
  <2>7. IsFiniteSet(T) /\ Cardinality(T) = m
    <3>1. PICK b \in Int : b = k + m - 1 /\ k \in Int /\ b >= k
      BY <2>3, <2>4
    <3>2. /\ IsFiniteSet(k..b)
          /\ Cardinality(k..b) = IF k > b THEN 0 ELSE b - k + 1
      BY <3>1, FS_Interval
    <3>3. Cardinality(k..b) = m
      BY <3>1, <3>2
    <3> QED  BY <3>1, <3>2, <3>3
  <2> HIDE DEF T, f
  <2> QED  BY <2>5, <2>6, <2>7, NoLarger
<1> QED  BY <1>1, <1>2

\* A set with records of m numbers in a row has at least m.
LEMMA ManyNumbers ==
  ASSUME NEW w, IsFiniteSet(w), NEW lo \in Int, NEW m \in Nat,
         \A k \in Int : lo < k /\ k <= lo + m => \E r \in w : r.n = k
  PROVE  Cardinality(w) \in Nat /\ m <= Cardinality(w)
<1> DEFINE S == (lo + 1)..(lo + m)
           f == [k \in S |-> CHOOSE r \in w : r.n = k]
<1>1. \A k \in S : f[k] \in w /\ f[k].n = k
  <2> TAKE k \in S
  <2>1. \E r \in w : r.n = k
    OBVIOUS
  <2> QED  BY <2>1
<1>2. IsFiniteSet(S) /\ Cardinality(S) = m
  <2>1. /\ IsFiniteSet(S)
        /\ Cardinality(S) = IF lo + 1 > lo + m THEN 0 ELSE lo + m - (lo + 1) + 1
    BY FS_Interval
  <2> QED  BY <2>1
<1>3. f \in [S -> w]
  BY <1>1
<1>4. \A x, y \in S : f[x] = f[y] => x = y
  <2> HIDE DEF f, S
  <2> QED  BY <1>1
<1> HIDE DEF f, S
<1> QED  BY <1>2, <1>3, <1>4, NoLarger

\* Records with a number in S come at least d after every record but the one
\* before them.
Apart(S, d) ==
  /\ \A q, r \in accepted :
       q.n \in S /\ q.n >= r.n + 2 => q.timestamp >= r.timestamp + d
  /\ Len(pending) >= 2 /\ (Len(seen) + 1 \in S \/ Len(seen) + 2 \in S) =>
       \A r \in accepted : r.timestamp + d <= now
  /\ Len(pending) = 1 /\ Len(seen) + 1 \in S =>
       \A r \in accepted : r.n < Len(seen) => r.timestamp + d <= now

LEMMA StepApart ==
  ASSUME RingInv, [Next]_vars, NEW S, NEW d \in Nat, Apart(S, d),
         Request => \/ \A delay \in Script[phase].delays : delay >= d
                    \/ Len(seen) + 1 \notin S /\ Len(seen) + 2 \notin S
  PROVE  Apart(S, d)'
<1>p. /\ Len(pending) \in 0..3 /\ Len(seen) \in Nat /\ now \in Nat
      /\ \A r \in accepted : /\ r.n \in Nat /\ r.n <= Len(seen)
                             /\ r.timestamp \in Nat /\ r.timestamp <= now
  BY RingLength DEF RingInv, Inv, Loop, Handed
<1>1. CASE Request /\ Len(pending') = 3
  <2>1. UNCHANGED <<accepted, seen>>
    BY <1>1 DEF Request, window
  <2>2. PICK delay \in Script[phase].delays : now' = now + delay
    BY <1>1 DEF Request
  <2>3. delay \in Nat
    <3>1. phase \in Nat /\ 1 <= phase /\ phase <= Len(Script)
      BY <1>1, ScriptAssumption DEF Request, Done, RingInv, Inv, Loop
    <3> QED  BY <3>1, ScriptTyped
  <2>4. Len(seen) + 1 \in S \/ Len(seen) + 2 \in S
          => \A r \in accepted : r.timestamp + d <= now'
    <3> SUFFICES ASSUME Len(seen) + 1 \in S \/ Len(seen) + 2 \in S,
                        NEW r \in accepted
                 PROVE  r.timestamp + d <= now'
      OBVIOUS
    <3>1. delay >= d
      BY <1>1, <2>2
    <3> QED  BY <1>p, <2>2, <2>3, <3>1
  <2> QED  BY <1>1, <2>1, <2>4 DEF Apart
<1>2. CASE NextPhase /\ Len(pending') = 0
  BY <1>2 DEF NextPhase, window, Apart
<1>3. CASE Passes
  <2>1. /\ UNCHANGED <<accepted, seen, now>>
        /\ Len(pending') = Len(pending) - 1
    BY <1>3 DEF Passes, window
  <2> QED  BY <1>p, <2>1 DEF Apart
<1>4. CASE Hands
  <2>1. /\ Len(pending) \in 1..2 /\ Len(pending') = Len(pending) - 1
        /\ Len(seen') = Len(seen) + 1 /\ now' = now
        /\ accepted' = accepted \cup {Arrival}
        /\ Arrival.n = Len(seen) + 1 /\ Arrival.timestamp = now
    BY <1>4, HandsLate DEF Hands, RingInv, Inv
  <2>2. ASSUME NEW q \in accepted', NEW r \in accepted',
               q.n \in S, q.n >= r.n + 2
        PROVE  q.timestamp >= r.timestamp + d
    <3>1. r \in accepted
      <4> SUFFICES ASSUME r = Arrival PROVE FALSE
        BY <2>1
      <4> QED  BY <1>p, <2>1, <2>2
    <3>2. CASE q \in accepted
      BY <2>2, <3>1, <3>2 DEF Apart
    <3>3. CASE q = Arrival
      <4>1. r.n < Len(seen) /\ Len(seen) + 1 \in S
        BY <1>p, <2>1, <2>2, <3>1, <3>3
      <4>2. r.timestamp + d <= now
        BY <2>1, <3>1, <4>1 DEF Apart
      <4> QED  BY <2>1, <3>3, <4>2
    <3> QED  BY <2>1, <3>2, <3>3
  <2>3. ASSUME Len(pending') = 1, Len(seen') + 1 \in S,
               NEW r \in accepted', r.n < Len(seen')
        PROVE  r.timestamp + d <= now'
    <3>1. Len(pending) = 2 /\ Len(seen) + 2 \in S
      <4>1. Len(seen') + 1 = Len(seen) + 2
        BY <1>p, <2>1
      <4>2. Len(pending) = 2
        <5>1. PICK l \in Int : l = Len(pending) /\ Len(pending') = l - 1
          BY <2>1
        <5>2. l - 1 = 1
          BY <2>3, <5>1
        <5>3. l = 2
          BY <5>2
        <5> QED  BY <5>1, <5>3, Zenon
      <4> QED  BY <2>3, <4>1, <4>2, Zenon
    <3>2. r \in accepted
      BY <1>p, <2>1, <2>3
    <3> QED  BY <2>1, <3>1, <3>2 DEF Apart
  <2>4. ~(Len(pending') >= 2)
    BY <2>1
  <2> QED  BY <2>2, <2>3, <2>4 DEF Apart
<1>5. CASE UNCHANGED watched
  BY <1>5 DEF watched, traffic, window, Apart
<1> QED  BY <1>1, <1>2, <1>3, <1>4, <1>5, Steps DEF RingInv

\* Of 2 k records in a row, the last comes k times d after the first.
LEMMA Strides ==
  ASSUME RingInv, NEW S, NEW d \in Nat, Apart(S, d), NEW k \in Nat,
         NEW q \in accepted, NEW r \in accepted, r.n >= q.n + 2 * k,
         \A n \in Nat : q.n < n /\ n <= r.n => n \in S
  PROVE  r.timestamp >= q.timestamp + k * d
<1>p. /\ \A x \in accepted : x.n \in Nat /\ 1 <= x.n /\ x.n <= Len(seen)
                             /\ x.timestamp \in Nat
      /\ \A x, y \in accepted : x.n <= y.n => x.timestamp <= y.timestamp
      /\ \A n \in Nat : 1 <= n /\ n <= Len(seen) => \E x \in accepted : x.n = n
  BY DEF RingInv, Inv, Handed, Numbered, WP!IInv, WP!InTimeOrder
<1> DEFINE Far(j, x) == /\ x.n >= q.n + 2 * j
                        /\ \A n \in Nat : q.n < n /\ n <= x.n => n \in S
           G == {j \in Nat : \A x \in accepted :
                   Far(j, x) => x.timestamp >= q.timestamp + j * d}
<1>1. 0 \in G
  <2> SUFFICES ASSUME NEW x \in accepted, Far(0, x)
               PROVE  x.timestamp >= q.timestamp + 0 * d
    OBVIOUS
  <2>1. q.n <= x.n
    BY <1>p
  <2>2. q.timestamp <= x.timestamp
    BY <1>p, <2>1
  <2> QED  BY <1>p, <2>2
<1>2. ASSUME NEW j \in Nat, j \in G
      PROVE  j + 1 \in G
  <2> SUFFICES ASSUME NEW x \in accepted, Far(j + 1, x)
               PROVE  x.timestamp >= q.timestamp + (j + 1) * d
    OBVIOUS
  <2>1. /\ x.n - 2 \in Nat /\ 1 <= x.n - 2 /\ x.n - 2 <= Len(seen)
        /\ x.n - 2 >= q.n + 2 * j
    <3>1. PICK a \in Nat, b \in Nat, l \in Nat :
            a = x.n /\ b = q.n /\ 1 <= b /\ l = Len(seen) /\ a <= l
      BY <1>p, RingLength DEF RingInv, Inv
    <3>2. a >= b + 2 * (j + 1)
      BY <3>1
    <3>3. a - 2 \in Nat /\ 1 <= a - 2 /\ a - 2 <= l /\ a - 2 >= b + 2 * j
      BY <3>1, <3>2
    <3> QED  BY <3>1, <3>3
  <2>2. PICK y \in accepted : y.n = x.n - 2
    BY <1>p, <2>1
  <2>3. Far(j, y)
    <3>1. \A n \in Nat : q.n < n /\ n <= y.n => n <= x.n
      BY <1>p, <2>2
    <3> QED  BY <2>1, <2>2, <3>1
  <2>4. y.timestamp >= q.timestamp + j * d
    BY <1>2, <2>3
  <2>5. x.n \in S /\ x.n >= y.n + 2
    <3>1. x.n \in Nat /\ q.n < x.n
      BY <1>p, <2>1
    <3> QED  BY <1>p, <2>2, <3>1
  <2>6. x.timestamp >= y.timestamp + d
    BY <2>5 DEF Apart
  <2>7. (j + 1) * d = j * d + d /\ j * d \in Nat
    OBVIOUS
  <2> QED  BY <1>p, <2>4, <2>6, <2>7
<1>3. k \in G
  <2> HIDE DEF G
  <2> QED  BY <1>1, <1>2, NaturalInduction
<1> QED  BY <1>3

\* A span of length windowSize holds no more records than MostRecords says.
LEMMA SpanBounded ==
  ASSUME RingInv, NEW S, NEW d \in Nat \ {0}, Apart(S, d),
         NEW w \in SUBSET accepted, NEW lo \in Int,
         \A r \in w : lo <= r.timestamp /\ r.timestamp <= lo + windowSize,
         \A r \in w : \A n \in Nat : n <= r.n => n \in S
  PROVE  /\ IsFiniteSet(w) /\ Cardinality(w) \in Nat
         /\ MostRecords(d) \in Nat /\ Cardinality(w) <= MostRecords(d)
<1>1. windowSize \in Nat
  BY SizesAssumption
<1>2. PICK k \in Nat : k = windowSize \div d + 1 /\ k * d > windowSize
  <2>1. PICK x \in Int : x = windowSize \div d
    BY <1>1
  <2>2. x \in Nat /\ (x + 1) * d > windowSize
    BY <1>1, <2>1
  <2> QED  BY <2>1, <2>2
<1>3. MostRecords(d) = 2 * k /\ 2 * k \in Nat
  BY <1>2 DEF MostRecords
<1>4. /\ \A r \in w : r.n \in Nat /\ r.timestamp \in Nat
      /\ \A q, r \in w : q.n = r.n => q = r
  BY DEF RingInv, Inv, Handed, Numbered
<1>5. ASSUME NEW q \in w, NEW r \in w
      PROVE  r.n < q.n + 2 * k
  <2> SUFFICES ASSUME r.n >= q.n + 2 * k PROVE FALSE
    BY <1>4
  <2>1. r.timestamp >= q.timestamp + k * d
    <3>1. \A n \in Nat : q.n < n /\ n <= r.n => n \in S
      OBVIOUS
    <3> QED  BY <3>1, Strides
  <2>2. k * d \in Nat
    OBVIOUS
  <2> QED  BY <1>1, <1>2, <1>4, <2>1, <2>2
<1> QED  BY <1>3, <1>4, <1>5, FewNumbers

\* What is in the last window, and over which span.
LEMMA OutWindowSpan ==
  ASSUME Inv
  PROVE  /\ outWindow.records \in SUBSET accepted
         /\ \E lo \in Int : \A r \in outWindow.records :
              lo <= r.timestamp /\ r.timestamp <= lo + windowSize
<1>1. outWindow.records
        \subseteq WP!Within(accepted, outWindow.startTime, outWindow.endTime)
  BY DEF Inv, WP!IInv, WP!WindowIsComplete
<1>2. outWindow.records \in SUBSET accepted
  BY <1>1 DEF WP!Within
<1>3. windowSize \in Nat /\ stepSize \in Nat /\ nextEmitTime \in Nat
  BY SizesAssumption DEF Inv, WP!IInv, WP!TypeOK
<1>4. CASE outWindow = WP!NoWindow
  <2>1. outWindow.records = {} /\ 0 \in Int
    BY <1>4 DEF WP!NoWindow
  <2> QED  BY <1>2, <2>1
<1>5. CASE outWindow # WP!NoWindow
  <2>1. /\ outWindow.endTime = nextEmitTime - stepSize
        /\ outWindow.startTime = outWindow.endTime - windowSize
    BY <1>5 DEF Inv, WP!IInv, WP!WindowBehindNext
  <2>2. PICK lo \in Int : /\ lo = outWindow.startTime
                          /\ outWindow.endTime = lo + windowSize
    BY <1>3, <2>1
  <2> QED  BY <1>1, <1>2, <2>2 DEF WP!Within
<1> QED  BY <1>4, <1>5

\* The records of a window are as many as what the parser returned for them.
LEMMA ContentsSize ==
  ASSUME NEW w, IsFiniteSet(w), NEW s, \A q, r \in w : q.n = r.n => q = r
  PROVE  /\ IsFiniteSet(Contents(w, s)) /\ Cardinality(w) \in Nat
         /\ Cardinality(Contents(w, s)) = Cardinality(w)
<1> DEFINE T == Contents(w, s)
           f == [r \in w |-> [n |-> r.n, timestamp |-> r.timestamp,
                              of |-> s[r.n]]]
<1>1. f \in Surjection(w, T)
  BY DEF Surjection, Contents
<1>2. f \in Injection(w, T)
  <2>1. f \in [w -> T]
    BY DEF Contents
  <2>2. \A x, y \in w : f[x] = f[y] => x = y
    <3> SUFFICES ASSUME NEW x \in w, NEW y \in w, f[x] = f[y] PROVE x = y
      OBVIOUS
    <3>1. f[x].n = x.n /\ f[y].n = y.n
      OBVIOUS
    <3> QED  BY <3>1
  <2> HIDE DEF f, T
  <2> QED  BY <2>1, <2>2 DEF Injection, IsInjective
<1> HIDE DEF f, T
<1>3. IsFiniteSet(T) /\ Cardinality(T) = Cardinality(w)
  BY <1>1, <1>2, FS_Surjection
<1> QED  BY <1>3, FS_CardinalityType DEF T

\* A script of requests d apart keeps its records apart.
LEMMA SpacedApart ==
  ASSUME NEW d \in Nat, Spaced(Len(Script), d)
  PROVE  Spec => []Apart(Int, d)
<1>1. Init => Apart(Int, d)
  <2> SUFFICES ASSUME Init PROVE Apart(Int, d)
    OBVIOUS
  <2>1. accepted = {}
    BY DEF Init, Windows!Init
  <2> QED  BY <2>1 DEF Apart
<1>2. RingInv /\ Apart(Int, d) /\ [Next]_vars => Apart(Int, d)'
  <2> SUFFICES ASSUME RingInv, Apart(Int, d), [Next]_vars
               PROVE  Apart(Int, d)'
    OBVIOUS
  <2>1. Request => \A delay \in Script[phase].delays : delay >= d
    <3> SUFFICES ASSUME Request, NEW delay \in Script[phase].delays
                 PROVE  delay >= d
      OBVIOUS
    <3>1. phase \in 1..Len(Script)
      BY ScriptAssumption DEF Request, Done, RingInv, Inv, Loop
    <3> QED  BY <3>1 DEF Spaced
  <2> QED  BY <2>1, StepApart
<1> QED  BY <1>1, <1>2, RingInvariance, PTL DEF Spec

\* How many records FeatureExtractor::compute is given at a time
\* (main.cpp:173): of requests d apart, no more than MostRecords(d), whatever the
\* script; the table of logarithms then has an entry for every window.
THEOREM WindowsFit ==
  (\E d \in Nat \ {0} : FitsTable(d)) => (Spec => []WindowsInTable)
<1> SUFFICES ASSUME NEW d \in Nat \ {0}, FitsTable(d)
             PROVE  Spec => []WindowsInTable
  OBVIOUS
<1>1. Spec => []Apart(Int, d)
  BY SpacedApart DEF FitsTable
<1>2. RingInv /\ Apart(Int, d) => WindowsInTable
  <2> SUFFICES ASSUME RingInv, Apart(Int, d) PROVE WindowsInTable
    OBVIOUS
  <2>1. Len(VLog) \in Nat
    BY TableSuperadditive
  <2>2. CASE ~returned
    BY <2>1, <2>2, FS_EmptySet DEF WindowsInTable, Evaluated
  <2>3. CASE returned
    <3> DEFINE w == outWindow.records
    <3>1. w \in SUBSET accepted
      BY OutWindowSpan DEF RingInv
    <3>2. PICK lo \in Int : \A r \in w :
            lo <= r.timestamp /\ r.timestamp <= lo + windowSize
      BY OutWindowSpan DEF RingInv
    <3>3. \A r \in w : \A n \in Nat : n <= r.n => n \in Int
      OBVIOUS
    <3>4. \A q, r \in w : q.n = r.n => q = r
      BY <3>1 DEF RingInv, Numbered
    <3> HIDE DEF w
    <3>5. /\ IsFiniteSet(w) /\ Cardinality(w) \in Nat
          /\ MostRecords(d) \in Nat /\ Cardinality(w) <= MostRecords(d)
      BY <3>1, <3>2, <3>3, SpanBounded
    <3>6. Cardinality(Contents(w, seen)) = Cardinality(w)
      BY <3>4, <3>5, ContentsSize
    <3>7. MostRecords(d) <= Len(VLog)
      BY DEF FitsTable
    <3> QED  BY <2>1, <2>3, <3>5, <3>6, <3>7
             DEF WindowsInTable, Evaluated, w
  <2> QED  BY <2>2, <2>3
<1> QED  BY <1>1, <1>2, RingInvariance, PTL

\* The verdicts on single windows, for a script that fits the table: they need
\* no other hypothesis (hst.cpp:10-20, burst.cpp:11-23, risk_model.cpp:31-33).
THEOREM VerdictsOfSpacedScripts ==
  (\E d \in Nat \ {0} : FitsTable(d)) =>
    (Spec => []WriteHeavyIsHigh /\ []RegularReadsClear /\ EscalationHasCause)
BY WindowsFit, WritesEscalate, ReadsClear, EscalationCaused, PTL

\* Likewise for polling (burst.cpp:11-23): reads at least d and at most 1.7 s
\* apart never lead to a High decision.
THEOREM SpacedPollingStaysBelow ==
  Polling /\ (\E d \in Nat \ {0} : FitsTable(d)) => (Spec => []ReadsStayBelow)
BY WindowsFit, PollingStaysBelow, PTL

-----------------------------------------------------------------------------
(***************************************************************************)
(* The windows catch up                                                    *)
(***************************************************************************)

\* The requests of the phase that were sent, and the records still to come of the
\* last one, of y at the least.
Sent == Script[phase].count - left

ToCome(y) == IF Len(pending) >= 2 THEN y ELSE IF Len(pending) = 1 THEN y - 1 ELSE 0

\* How far the next window may be behind: by what the pause and the requests so
\* far took, less one step for every record of them.
Behind(y) ==
  \E pause \in Script[phase].pauses, delay \in Script[phase].delays :
    now - nextEmitTime
      < pause + Sent * delay - (y * Sent - ToCome(y)) * stepSize

\* In the first k phases, a phase that begins without a due window ends without
\* one; the PLC refuses nothing unless it may be locked.
OnTime(k, locked) ==
  phase <= k =>
    /\ left <= Script[phase].count
    /\ Sent = 0 => pending = <<>>
    /\ locked \/ RingOf(FALSE)
    /\ ~initialized => phase = 1 /\ (Len(pending) <= 1 => Sent = 0)
    /\ initialized /\ Sent = 0 =>
         /\ phase > 1 /\ lastTime < nextEmitTime
         /\ \E pause \in Script[phase].pauses : now = lastTime + pause
    /\ initialized /\ Sent # 0 =>
         /\ Len(pending) <= 1 => now = lastTime
         /\ LET y == Yield(Script[phase].cmd, locked)
            IN  \/ now < nextEmitTime + ToCome(y) * stepSize
                \/ phase > 1 /\ Behind(y)

\* The phase of the script, by its fields, and the clocks.
LEMMA PhaseTyped ==
  ASSUME Inv, NEW k \in Nat, k <= Len(Script), NEW locked \in BOOLEAN,
         KeepsUp(k, locked), phase <= k
  PROVE  /\ phase \in Nat /\ 1 <= phase /\ phase <= Len(Script)
         /\ Script[phase].count \in Nat \ {0} /\ left \in Nat
         /\ Script[phase].delays \subseteq Nat /\ Script[phase].pauses \subseteq Nat
         /\ Brisk(phase, locked)
         /\ now \in Nat /\ nextEmitTime \in Nat /\ lastTime \in Nat
         /\ stepSize \in Nat /\ 1 <= stepSize /\ stepSize <= windowSize
         /\ windowSize \in Nat
         /\ Len(pending) \in 0..3 /\ (pending = <<>> <=> Len(pending) = 0)
<1>1. phase \in Nat /\ 1 <= phase /\ phase <= Len(Script) /\ Len(Script) \in Nat
  BY ScriptAssumption DEF Inv, Loop
<1>2. phase \in 1..k
  BY <1>1
<1>3. Brisk(phase, locked)
  BY <1>2 DEF KeepsUp
<1>4. /\ now \in Nat /\ nextEmitTime \in Nat /\ lastTime \in Nat /\ left \in Nat
      /\ stepSize \in Nat /\ 1 <= stepSize /\ stepSize <= windowSize
      /\ windowSize \in Nat
  BY SizesAssumption DEF Inv, Loop, WP!IInv, WP!TypeOK
<1>5. Len(pending) \in 0..3 /\ (pending = <<>> <=> Len(pending) = 0)
  BY RingLength DEF Inv
<1> QED  BY <1>1, <1>3, <1>4, <1>5, ScriptTyped

\* What a brisk phase asks, with its yield by name.
LEMMA BriskIs ==
  ASSUME NEW p, NEW locked, Brisk(p, locked)
  PROVE  \E y \in 1..2 :
           /\ y = Yield(Script[p].cmd, locked)
           /\ y = 2 => ~locked \/ ~IsRefusable(Script[p].cmd)
           /\ IsRecorded(Script[p].cmd)
           /\ \A delay \in Script[p].delays :
                /\ delay <= y * stepSize
                /\ p > 1 =>
                     \A pause \in Script[p].pauses :
                       pause + Script[p].count * delay
                         <= Script[p].count * (y * stepSize)
<1>1. PICK y \in 1..2 : /\ y = Yield(Script[p].cmd, locked)
                        /\ y = 2 => ~locked \/ ~IsRefusable(Script[p].cmd)
  BY DEF Yield
<1> QED  BY <1>1, Zenon DEF Brisk

\* A phase that is through has left no window due.
LEMMA PhaseThrough ==
  ASSUME Inv, NEW k \in Nat, k <= Len(Script), NEW locked \in BOOLEAN,
         KeepsUp(k, locked), OnTime(k, locked),
         phase <= k, pending = <<>>, left = 0
  PROVE  initialized /\ now = lastTime /\ lastTime < nextEmitTime
<1>t. /\ Script[phase].count \in Nat \ {0} /\ left \in Nat
      /\ Script[phase].delays \subseteq Nat /\ Script[phase].pauses \subseteq Nat
      /\ Brisk(phase, locked)
      /\ now \in Nat /\ nextEmitTime \in Nat /\ stepSize \in Nat
      /\ Len(pending) = 0 /\ Len(pending) <= 1
  BY PhaseTyped
<1>y. PICK y \in 1..2 :
        /\ y = Yield(Script[phase].cmd, locked)
        /\ \A delay \in Script[phase].delays :
             phase > 1 =>
               \A pause \in Script[phase].pauses :
                 pause + Script[phase].count * delay
                   <= Script[phase].count * (y * stepSize)
  BY <1>t, BriskIs, Zenon
<1>1. PICK n \in Nat \ {0} : n = Script[phase].count /\ n = Sent
  BY <1>t DEF Sent
<1>2. initialized /\ now = lastTime
  BY <1>t, <1>1 DEF OnTime
<1>3. ToCome(y) = 0
  BY <1>t DEF ToCome
<1>4. CASE now < nextEmitTime + ToCome(y) * stepSize
  BY <1>t, <1>2, <1>3, <1>4
<1>5. CASE phase > 1 /\ Behind(y)
  <2>1. PICK pause \in Script[phase].pauses, delay \in Script[phase].delays :
          now - nextEmitTime < pause + n * delay - (y * n - 0) * stepSize
    BY <1>1, <1>3, <1>5 DEF Behind
  <2>2. pause \in Nat /\ delay \in Nat
    BY <1>t
  <2>3. pause + n * delay <= n * (y * stepSize)
    BY <1>t, <1>y, <1>1, <1>5
  <2>4. PICK a \in Int, b \in Int : a = n * delay /\ b = n * (y * stepSize)
    BY <1>t, <2>2
  <2>5. (y * n - 0) * stepSize = b
    BY <1>t, <2>4
  <2>6. now - nextEmitTime < 0
    BY <1>t, <2>1, <2>2, <2>3, <2>4, <2>5
  <2> QED  BY <1>t, <1>2, <2>6
<1>6. \/ now < nextEmitTime + ToCome(y) * stepSize
      \/ phase > 1 /\ Behind(y)
  BY <1>t, <1>y, <1>1, <1>2 DEF OnTime
<1> QED  BY <1>2, <1>4, <1>5, <1>6

LEMMA StepOnTime ==
  ASSUME RingInv, NEW k \in Nat, k <= Len(Script), NEW locked \in BOOLEAN,
         KeepsUp(k, locked), OnTime(k, locked), locked \/ ~writeLocked,
         [Next]_vars
  PROVE  OnTime(k, locked)'
<1> SUFFICES ASSUME phase' <= k PROVE OnTime(k, locked)'
  BY DEF OnTime
<1>i. Inv /\ Loop /\ Ring
  BY DEF RingInv, Inv
<1>r. phase' = phase => locked \/ RingOf(FALSE)'
  <2> SUFFICES ASSUME phase' = phase, ~locked PROVE RingOf(FALSE)'
    OBVIOUS
  <2>1. CASE Request
    BY <2>1, RequestRingOf
  <2>2. CASE ~Request
    <3>1. RingOf(FALSE)
      BY DEF OnTime
    <3> QED  BY <1>i, <2>2, <3>1, StepRingOf
  <2> QED  BY <2>1, <2>2
<1>1. CASE Request /\ Len(pending) = 0 /\ Len(pending') = 3
  <2>u. /\ UNCHANGED <<phase, nextEmitTime, lastTime, initialized>>
        /\ left' = left - 1 /\ left > 0 /\ pending = <<>>
        /\ Len(pending) <= 1 /\ ~(Len(pending') <= 1)
    BY <1>1 DEF Request, window
  <2>t. /\ phase <= k /\ Script[phase].count \in Nat \ {0} /\ left \in Nat
        /\ Script[phase].delays \subseteq Nat
        /\ Script[phase].pauses \subseteq Nat
        /\ Brisk(phase, locked) /\ phase \in Nat
        /\ now \in Nat /\ nextEmitTime \in Nat /\ lastTime \in Nat
        /\ stepSize \in Nat /\ 1 <= stepSize
    BY <1>i, <2>u, PhaseTyped
  <2>y. PICK y \in 1..2 :
          /\ y = Yield(Script[phase].cmd, locked)
          /\ \A delay \in Script[phase].delays : delay <= y * stepSize
    BY <2>t, BriskIs, Zenon
  <2>1. PICK delay \in Script[phase].delays : now' = now + delay
    BY <1>1 DEF Request
  <2>2. PICK h \in Nat : h = y * stepSize /\ delay \in Nat /\ delay <= h
    BY <2>t, <2>y
  <2>3. left <= Script[phase].count
    BY <2>t DEF OnTime
  <2>4. PICK s \in Nat : s = Sent /\ Sent' = s + 1
    <3>1. PICK c \in Nat : c = Script[phase].count /\ left <= c
      BY <2>t, <2>3
    <3>2. Sent = c - left /\ Sent' = c - left'
      BY <2>u, <3>1 DEF Sent
    <3>3. c - left \in Nat /\ c - left' = (c - left) + 1
      BY <2>t, <2>u, <3>1
    <3> QED  BY <3>2, <3>3, Zenon
  <2>5. ToCome(y) = 0 /\ ToCome(y)' = y
    BY <1>1 DEF ToCome
  <2>6. ~initialized' => phase' = 1
    BY <2>t, <2>u DEF OnTime
  <2>7. ASSUME initialized
        PROVE  \/ now' < nextEmitTime' + ToCome(y)' * stepSize
               \/ phase' > 1 /\ Behind(y)'
    <3>1. CASE s = 0
      <4>1. PICK pause \in Script[phase].pauses : now = lastTime + pause
        BY <2>t, <2>4, <2>7, <3>1 DEF OnTime
      <4>2. lastTime < nextEmitTime /\ phase > 1
        BY <2>t, <2>4, <2>7, <3>1 DEF OnTime
      <4>3. pause \in Nat
        BY <2>t
      <4>4. now' - nextEmitTime < pause + delay
        BY <2>t, <2>1, <2>2, <4>1, <4>2, <4>3
      <4>5. Sent' = 1
        BY <2>4, <3>1
      <4>6. 1 * delay = delay /\ (y * 1 - y) * stepSize = 0
        <5>1. y * 1 - y = 0
          OBVIOUS
        <5> QED  BY <2>2, <2>t, <5>1
      <4>7. now' - nextEmitTime < pause + 1 * delay - (y * 1 - y) * stepSize
        BY <2>2, <4>3, <4>4, <4>6
      <4>8. Behind(y)'
        BY <2>u, <2>5, <4>5, <4>7 DEF Behind
      <4> QED  BY <2>u, <4>2, <4>8
    <3>2. CASE s # 0 /\ now < nextEmitTime + ToCome(y) * stepSize
      BY <2>t, <2>u, <2>1, <2>2, <2>5, <3>2
    <3>3. CASE s # 0 /\ phase > 1 /\ Behind(y)
      <4>1. PICK pause \in Script[phase].pauses,
                 longest \in Script[phase].delays :
              now - nextEmitTime < pause + s * longest - (y * s - 0) * stepSize
        BY <2>4, <2>5, <3>3 DEF Behind
      <4>2. pause \in Nat /\ longest \in Nat
        BY <2>t
      <4>3. PICK m \in Script[phase].delays : m >= delay /\ m >= longest
        <5>1. CASE delay >= longest
          BY <2>2, <4>2, <5>1
        <5>2. CASE ~(delay >= longest)
          BY <2>2, <4>2, <5>2
        <5> QED  BY <5>1, <5>2
      <4>4. m \in Nat
        BY <2>t
      <4>5. s * longest <= s * m
        BY <4>2, <4>3, <4>4, ProductMonotone
      <4>6. PICK a \in Int, b \in Int, c \in Int :
              a = s * longest /\ b = s * m /\ c = (y * s) * stepSize
        BY <2>t, <4>2, <4>4
      <4>7. /\ (s + 1) * m = b + m
            /\ (y * (s + 1) - y) * stepSize = c
            /\ (y * s - 0) * stepSize = c
        <5>1. y * (s + 1) - y = y * s /\ y * s - 0 = y * s
          OBVIOUS
        <5> QED  BY <4>4, <4>6, <5>1
      <4>8. now' - nextEmitTime
              < pause + (s + 1) * m - (y * (s + 1) - y) * stepSize
        BY <2>t, <2>1, <2>2, <4>1, <4>2, <4>3, <4>4, <4>5, <4>6, <4>7
      <4>9. Behind(y)'
        BY <2>u, <2>4, <2>5, <4>8 DEF Behind
      <4> QED  BY <2>u, <3>3, <4>9
    <3> QED  BY <2>t, <2>y, <2>4, <2>7, <3>1, <3>2, <3>3 DEF OnTime
  <2>8. left' <= Script[phase'].count /\ Sent' # 0
    BY <2>t, <2>u, <2>3, <2>4
  <2> QED  BY <1>r, <2>y, <2>u, <2>6, <2>7, <2>8 DEF OnTime
<1>2. CASE NextPhase
  <2>1. /\ left = 0 /\ pending = <<>> /\ pending' = <<>> /\ phase' = phase + 1
        /\ UNCHANGED <<nextEmitTime, lastTime, initialized>>
    BY <1>2 DEF NextPhase, window
  <2>2. phase \in Nat /\ 1 <= phase /\ phase <= k
    <3>1. phase \in Nat /\ 1 <= phase
      BY <1>i DEF Loop
    <3> QED  BY <2>1, <3>1
  <2>3. initialized /\ now = lastTime /\ lastTime < nextEmitTime
    BY <1>i, <2>1, <2>2, PhaseThrough
  <2>4. phase < Len(Script) /\ phase + 1 \in Nat /\ 1 <= phase + 1
        /\ phase + 1 <= Len(Script)
    BY <2>1, <2>2, ScriptAssumption
  <2>5. /\ left' = Script[phase'].count
        /\ \E pause \in Script[phase'].pauses : now' = now + pause
    BY <1>2, <2>1, <2>4 DEF NextPhase
  <2>6. Script[phase'].count \in Nat
    BY <2>1, <2>4, ScriptTyped
  <2>7. Sent' = 0 /\ left' <= Script[phase'].count
    BY <2>5, <2>6 DEF Sent
  <2>8. phase' > 1
    BY <2>1, <2>2
  <2>9. RingOf(FALSE)'
    <3>1. \A i \in Nat : ~(1 <= i /\ i <= Len(<<>>))
      OBVIOUS
    <3> QED  BY <2>1, <3>1 DEF RingOf
  <2> QED  BY <2>1, <2>3, <2>5, <2>7, <2>8, <2>9 DEF OnTime
<1>3. CASE Passes
  <2>u. UNCHANGED <<phase, left, now, nextEmitTime, lastTime, initialized>>
    BY <1>3 DEF Passes, window
  <2>t. /\ phase <= k /\ Brisk(phase, locked) /\ Len(pending) \in 1..3
        /\ pending # <<>>
    BY <1>i, <1>3, <2>u, PhaseTyped DEF Passes
  <2>y. PICK y \in 1..2 :
          /\ y = Yield(Script[phase].cmd, locked)
          /\ y = 2 => ~locked \/ ~IsRefusable(Script[phase].cmd)
          /\ IsRecorded(Script[phase].cmd)
    BY <2>t, BriskIs, Zenon
  <2>1. PICK l \in 1..3 : /\ l = Len(pending) /\ Len(pending') = l - 1
                          /\ l # 2 /\ (l = 1 => y = 1)
    <3>1. PICK l \in 1..3 : l = Len(pending) /\ Len(pending') = l - 1
      BY <1>3 DEF Passes
    <3>2. Skips(Parse(Head(pending)))
      BY <1>3 DEF Passes
    <3>3. l # 2
      BY <1>i, <2>t, <2>y, <3>1, <3>2, RecordsOfExchange
    <3>4. l = 1 => y = 1
      <4>1. y = 2 => RingOf(FALSE) \/ ~IsRefusable(Script[phase].cmd)
        BY <2>y, <2>t DEF OnTime
      <4>2. l = 1 => ~(RingOf(FALSE) \/ ~IsRefusable(Script[phase].cmd))
        BY <1>i, <2>t, <2>y, <3>1, <3>2, RecordsOfExchange
      <4>3. l = 1 => y # 2
        BY <4>1, <4>2
      <4>4. y = 1 \/ y = 2
        OBVIOUS
      <4> QED  BY <4>3, <4>4
    <3> QED  BY <3>1, <3>3, <3>4
  <2>2. /\ Len(pending) <= 1 <=> Len(pending') <= 1
        /\ Len(pending) # 0
    BY <2>1
  <2>3. ToCome(y)' = ToCome(y) /\ Sent' = Sent
    <3>1. ToCome(y)' = ToCome(y)
      BY <2>1 DEF ToCome
    <3> QED  BY <2>u, <3>1 DEF Sent
  <2>4. Sent # 0
    BY <2>t DEF OnTime
  <2>5. Behind(y) => Behind(y)'
    BY <2>u, <2>3 DEF Behind
  <2> QED  BY <1>r, <2>y, <2>u, <2>t, <2>2, <2>3, <2>4, <2>5 DEF OnTime
<1>4. CASE Hands
  <2>u. UNCHANGED <<phase, left, now>> /\ initialized' /\ lastTime' = now
    BY <1>4 DEF Hands
  <2>t. /\ phase <= k /\ Script[phase].count \in Nat \ {0} /\ left \in Nat
        /\ Script[phase].delays \subseteq Nat
        /\ Script[phase].pauses \subseteq Nat /\ Brisk(phase, locked)
        /\ now \in Nat /\ nextEmitTime \in Nat /\ lastTime \in Nat
        /\ stepSize \in Nat /\ 1 <= stepSize /\ stepSize <= windowSize
        /\ windowSize \in Nat /\ (pending = <<>> <=> Len(pending) = 0)
    BY <1>i, <2>u, PhaseTyped
  <2>y. PICK y \in 1..2 : y = Yield(Script[phase].cmd, locked)
    BY <2>t, BriskIs, Zenon
  <2>1. PICK l \in 1..2 : l = Len(pending) /\ Len(pending') = l - 1
    BY <1>4, HandsLate DEF Hands, RingInv, Inv
  <2>2. PICK t \in 0..2, u \in 0..2 :
          t = ToCome(y) /\ u = ToCome(y)' /\ u + 1 >= t
    <3>1. ToCome(y) = IF l = 2 THEN y ELSE y - 1
      BY <2>1 DEF ToCome
    <3>2. ToCome(y)' = IF l = 2 THEN y - 1 ELSE 0
      BY <2>1 DEF ToCome
    <3> QED  BY <3>1, <3>2
  <2>3. left <= Script[phase].count
    BY <2>t DEF OnTime
  <2>4. PICK s \in Nat : s = Sent /\ Sent' = s
    <3>1. PICK c \in Nat : c = Script[phase].count /\ left <= c
      BY <2>t, <2>3
    <3>2. Sent = c - left /\ Sent' = c - left
      BY <2>u, <3>1 DEF Sent
    <3>3. c - left \in Nat
      BY <2>t, <3>1
    <3> QED  BY <3>2, <3>3, Zenon
  <2>5. s # 0
    <3>1. pending # <<>>
      BY <2>t, <2>1
    <3> QED  BY <2>t, <2>4, <3>1 DEF OnTime
  <2>6. \/ now' < nextEmitTime' + ToCome(y)' * stepSize
        \/ phase' > 1 /\ Behind(y)'
    <3>a. PICK e \in Nat, f \in Nat :
            e = u * stepSize /\ f = t * stepSize /\ e + stepSize >= f
      <4>1. u = 0 \/ u = 1 \/ u = 2
        OBVIOUS
      <4>2. t = 0 \/ t = 1 \/ t = 2
        OBVIOUS
      <4> QED  BY <2>t, <2>2, <4>1, <4>2
    <3>1. CASE ~initialized
      <4>1. nextEmitTime' = now + windowSize
        BY <1>4, <3>1 DEF Hands
      <4> QED  BY <2>t, <2>u, <2>2, <3>a, <4>1
    <3>2. CASE initialized /\ now < nextEmitTime
      <4>1. nextEmitTime' = nextEmitTime
        BY <1>4, <3>2 DEF Hands
      <4> QED  BY <2>t, <2>u, <2>2, <3>2, <3>a, <4>1
    <3>3. CASE initialized /\ ~(now < nextEmitTime)
      <4>1. nextEmitTime' = nextEmitTime + stepSize
        BY <1>4, <3>3 DEF Hands
      <4>2. CASE now < nextEmitTime + ToCome(y) * stepSize
        <5>1. now < nextEmitTime + f
          BY <2>2, <3>a, <4>2
        <5>2. now' < nextEmitTime' + e
          BY <2>t, <2>u, <3>a, <4>1, <5>1
        <5> QED  BY <2>2, <3>a, <5>2
      <4>3. CASE phase > 1 /\ Behind(y)
        <5>1. PICK pause \in Script[phase].pauses,
                   delay \in Script[phase].delays :
                now - nextEmitTime
                  < pause + s * delay - (y * s - t) * stepSize
          BY <2>2, <2>4, <4>3 DEF Behind
        <5>2. pause \in Nat /\ delay \in Nat
          BY <2>t
        <5>3. PICK a \in Int, b \in Int :
                a = s * delay /\ b = (y * s) * stepSize
          BY <2>t, <5>2
        <5>4. /\ (y * s - t) * stepSize = b - f
              /\ (y * s - u) * stepSize = b - e
          <6>1. PICK m \in Int : m = y * s
            OBVIOUS
          <6>2. /\ (m - t) * stepSize = m * stepSize - t * stepSize
                /\ (m - u) * stepSize = m * stepSize - u * stepSize
            BY <2>t
          <6> QED  BY <3>a, <5>3, <6>1, <6>2
        <5>5. now' - nextEmitTime'
                < pause + s * delay - (y * s - u) * stepSize
          BY <2>t, <2>u, <3>a, <4>1, <5>1, <5>2, <5>3, <5>4
        <5>6. Behind(y)'
          BY <2>u, <2>2, <2>4, <5>5 DEF Behind
        <5> QED  BY <2>u, <4>3, <5>6
      <4> QED  BY <2>t, <2>y, <2>4, <2>5, <3>3, <4>2, <4>3 DEF OnTime
    <3> QED  BY <3>1, <3>2, <3>3
  <2> QED  BY <1>r, <2>u, <2>y, <2>t, <2>3, <2>4, <2>5, <2>6 DEF OnTime
<1>5. CASE UNCHANGED watched
  BY <1>r, <1>5 DEF watched, traffic, window, OnTime, Behind, Sent, ToCome
<1> QED  BY <1>i, <1>1, <1>2, <1>3, <1>4, <1>5, Steps

LEMMA InitOnTime ==
  ASSUME Init, NEW k \in Nat, NEW locked \in BOOLEAN
  PROVE  OnTime(k, locked)
<1>1. /\ phase = 1 /\ left = Script[1].count /\ pending = <<>>
      /\ ~initialized
  BY DEF Init, Windows!Init
<1>2. Script[1].count \in Nat
  <2>1. 1 \in Nat /\ 1 <= 1 /\ 1 <= Len(Script)
    BY ScriptAssumption
  <2> QED  BY <2>1, ScriptTyped
<1>3. Sent = 0 /\ left <= Script[phase].count
  BY <1>1, <1>2 DEF Sent
<1>4. RingOf(FALSE)
  <2>1. \A i \in Nat : ~(1 <= i /\ i <= Len(<<>>))
    OBVIOUS
  <2> QED  BY <1>1, <2>1 DEF RingOf
<1> QED  BY <1>1, <1>3, <1>4 DEF OnTime

\* When the script is over, no window is due.
CaughtUp == Done => lastTime < nextEmitTime

LEMMA StepCaughtUp ==
  ASSUME RingInv, NEW k \in Nat, k = Len(Script), NEW locked \in BOOLEAN,
         KeepsUp(k, locked), OnTime(k, locked), CaughtUp, [Next]_vars
  PROVE  CaughtUp'
<1>i. phase \in Nat /\ Inv
  BY DEF RingInv, Inv, Loop
<1>1. CASE Request
  <2>1. ~Done /\ phase' = phase
    BY <1>1 DEF Request
  <2> QED  BY <2>1 DEF CaughtUp, Done
<1>2. CASE NextPhase
  <2>1. /\ left = 0 /\ pending = <<>> /\ ~Done
        /\ UNCHANGED <<nextEmitTime, lastTime>>
    BY <1>2 DEF NextPhase, window
  <2>2. phase <= k
    BY <1>i, <2>1 DEF Done
  <2>3. lastTime < nextEmitTime
    BY <1>i, <2>1, <2>2, PhaseThrough
  <2> QED  BY <2>1, <2>3 DEF CaughtUp
<1>3. CASE Passes \/ Hands
  <2>1. pending # <<>> /\ phase' = phase
    BY <1>i, <1>3, RingLength DEF Passes, Hands, Inv
  <2>2. ~Done
    BY <1>i, <2>1, HeadOfRing DEF Inv
  <2> QED  BY <2>1, <2>2 DEF CaughtUp, Done
<1>4. CASE UNCHANGED watched
  BY <1>4 DEF watched, traffic, window, Done, CaughtUp
<1> QED  BY <1>i, <1>1, <1>2, <1>3, <1>4, Steps

LEMMA NoWindowDue ==
  ASSUME RingInv, NEW k \in Nat, k = Len(Script), NEW locked \in BOOLEAN,
         KeepsUp(k, locked), OnTime(k, locked), CaughtUp
  PROVE  WindowsCatchUp
<1> SUFFICES ASSUME pending = <<>>, left = 0 PROVE lastTime < nextEmitTime
  BY DEF WindowsCatchUp
<1>1. CASE Done
  BY <1>1 DEF CaughtUp
<1>2. CASE ~Done
  <2>1. phase <= k /\ Inv /\ k <= Len(Script)
    BY <1>2 DEF Done, RingInv, Inv, Loop
  <2> QED  BY <2>1, PhaseThrough
<1> QED  BY <1>1, <1>2

LEMMA InitCaughtUp ==
  ASSUME Init
  PROVE  CaughtUp
<1>1. ~Done
  BY ScriptAssumption DEF Init, Done
<1> QED  BY <1>1 DEF CaughtUp

\* window_manager.cpp:37 emits at most one window per record, and still, when a
\* command of the script is through, no window is due that the last record could
\* have ended (heuristics.md:8): as long as a phase takes no more than a step for
\* every record it leaves at the least, whatever its length, its delays and the
\* pause before it, and whatever PRISM's signals make the PLC refuse: a write is
\* then one record, not two (server.cpp:66-70, modbus_parser.cpp:19).
THEOREM CatchesUp ==
  KeepsUp(Len(Script), TRUE) => (Spec => []WindowsCatchUp)
<1> SUFFICES ASSUME KeepsUp(Len(Script), TRUE)
             PROVE  Spec => []WindowsCatchUp
  OBVIOUS
<1>l. PICK k \in Nat : k = Len(Script) /\ k <= Len(Script)
  BY ScriptAssumption
<1>k. k = Len(Script) /\ k <= Len(Script) /\ KeepsUp(k, TRUE)
  BY <1>l, Zenon
<1>1. Init => OnTime(k, TRUE) /\ CaughtUp
  BY InitOnTime, InitCaughtUp
<1>2. RingInv /\ OnTime(k, TRUE) /\ CaughtUp /\ [Next]_vars
        => OnTime(k, TRUE)' /\ CaughtUp'
  <2> SUFFICES ASSUME RingInv, OnTime(k, TRUE), CaughtUp, [Next]_vars
               PROVE  OnTime(k, TRUE)' /\ CaughtUp'
    OBVIOUS
  <2>1. TRUE \in BOOLEAN /\ (TRUE \/ ~writeLocked)
    OBVIOUS
  <2>2. OnTime(k, TRUE)'
    BY <1>k, <2>1, StepOnTime
  <2>3. CaughtUp'
    BY <1>k, <2>1, StepCaughtUp
  <2> QED  BY <2>2, <2>3
<1>3. RingInv /\ OnTime(k, TRUE) /\ CaughtUp => WindowsCatchUp
  BY <1>k, NoWindowDue
<1> QED  BY <1>1, <1>2, <1>3, RingInvariance, PTL DEF Spec

NotLocked == ~writeLocked

\* The same as long as the PLC's lock stays open: it refuses nothing, a request leaves
\* two records (server.cpp:72-75), and a phase may take as much as two steps for each.
THEOREM CatchesUpUnlocked ==
  KeepsUp(Len(Script), FALSE) => (Spec /\ []NotLocked => []WindowsCatchUp)
<1> SUFFICES ASSUME KeepsUp(Len(Script), FALSE)
             PROVE  Spec /\ []NotLocked => []WindowsCatchUp
  OBVIOUS
<1>l. PICK k \in Nat : k = Len(Script) /\ k <= Len(Script)
  BY ScriptAssumption
<1>k. k = Len(Script) /\ k <= Len(Script) /\ KeepsUp(k, FALSE)
  BY <1>l, Zenon
<1>1. Init => OnTime(k, FALSE) /\ CaughtUp
  BY InitOnTime, InitCaughtUp
<1>2. RingInv /\ NotLocked /\ OnTime(k, FALSE) /\ CaughtUp /\ [Next]_vars
        => OnTime(k, FALSE)' /\ CaughtUp'
  <2> SUFFICES ASSUME RingInv, NotLocked, OnTime(k, FALSE), CaughtUp, [Next]_vars
               PROVE  OnTime(k, FALSE)' /\ CaughtUp'
    OBVIOUS
  <2>1. FALSE \in BOOLEAN /\ (FALSE \/ ~writeLocked)
    BY DEF NotLocked
  <2>2. OnTime(k, FALSE)'
    BY <1>k, <2>1, StepOnTime
  <2>3. CaughtUp'
    BY <1>k, <2>1, StepCaughtUp
  <2> QED  BY <2>2, <2>3
<1>3. RingInv /\ OnTime(k, FALSE) /\ CaughtUp => WindowsCatchUp
  BY <1>k, NoWindowDue
<1> QED  BY <1>1, <1>2, <1>3, RingInvariance, PTL DEF Spec

-----------------------------------------------------------------------------
(***************************************************************************)
(* A flood is reported                                                     *)
(***************************************************************************)

\* How many records there were before the current phase, when the PLC refuses
\* nothing.
SeenBefore == Len(seen) + ToCome(2) - 2 * Sent

\* Of the records after the k-th, one comes at most D after the two before it.
Close(k, D) ==
  /\ \A q, r \in accepted :
       k < r.n /\ r.n < q.n /\ q.n <= r.n + 2 => q.timestamp <= r.timestamp + D
  /\ \A r \in accepted :
       k < r.n /\ r.n + 1 >= Len(seen) =>
         /\ now <= r.timestamp + D
         /\ pending = <<>> => now <= r.timestamp
  /\ Len(pending) = 1 =>
       \A r \in accepted : r.n = Len(seen) => now <= r.timestamp

\* All records after the k-th are writes.
WritesSince(k) == \A n \in Nat : k < n /\ n <= Len(seen) => seen[n].isWrite

\* A window in which three records of ten come after the k-th is reported.
Judged(k) ==
  LET late == {r \in outWindow.records : r.n > k}
  IN  late # {} /\ 10 * Cardinality(late) >= 3 * Cardinality(outWindow.records)
        => Flood \in alarms

\* A phase adds its own records to those before it, and no step of it changes
\* these.
LEMMA StepSeenBefore ==
  ASSUME RingInv, NEW k \in Nat, k <= Len(Script), KeepsUp(k, FALSE),
         OnTime(k, FALSE), phase <= k, [Next]_vars
  PROVE  /\ SeenBefore \in Int
         /\ ~NextPhase => phase' = phase /\ SeenBefore' = SeenBefore
         /\ Request => Len(seen) + 1 > SeenBefore
         /\ NextPhase => /\ phase' = phase + 1
                         /\ Len(seen) = SeenBefore + 2 * Script[phase].count
                         /\ phase' <= k => SeenBefore' = Len(seen)
<1>t. /\ phase \in Nat /\ 1 <= phase /\ phase <= Len(Script)
      /\ Script[phase].count \in Nat \ {0} /\ left \in Nat
      /\ IsRecorded(Script[phase].cmd)
      /\ Len(pending) \in 0..3 /\ Len(seen) \in Nat
      /\ left <= Script[phase].count /\ RingOf(FALSE)
  <2>1. FALSE \in BOOLEAN
    OBVIOUS
  <2>2. /\ phase \in Nat /\ 1 <= phase /\ phase <= Len(Script)
        /\ Script[phase].count \in Nat \ {0} /\ left \in Nat
        /\ Brisk(phase, FALSE) /\ Len(pending) \in 0..3
    BY <2>1, PhaseTyped DEF RingInv
  <2>3. IsRecorded(Script[phase].cmd)
    BY <2>2, Zenon DEF Brisk
  <2>4. Len(seen) \in Nat
    BY RingLength DEF RingInv, Inv
  <2>5. left <= Script[phase].count /\ RingOf(FALSE)
    BY DEF OnTime
  <2> QED  BY <2>2, <2>3, <2>4, <2>5
<1>0. PICK s \in Nat, c \in 0..2, l \in Nat :
        s = Sent /\ c = ToCome(2) /\ l = Len(seen) /\ SeenBefore = l + c - 2 * s
  <2>1. Sent \in Nat
    BY <1>t DEF Sent
  <2>2. ToCome(2) \in 0..2
    <3>1. PICK m \in 0..3 : m = Len(pending)
      BY <1>t
    <3>2. ToCome(2) = IF m >= 2 THEN 2 ELSE m
      BY <3>1 DEF ToCome
    <3> QED  BY <3>2
  <2> QED  BY <1>t, <2>1, <2>2 DEF SeenBefore
<1>1. CASE Request /\ Len(pending) = 0 /\ Len(pending') = 3
  <2>1. UNCHANGED <<phase, seen>> /\ left' = left - 1 /\ ~NextPhase
    BY <1>1 DEF Request, NextPhase
  <2>2. c = 0 /\ ToCome(2)' = 2
    BY <1>0, <1>1 DEF ToCome
  <2>p. Sent' = s + 1
    <3>1. PICK n \in Nat : n = Script[phase].count
      BY <1>t
    <3>2. Sent' = n - left' /\ s = n - left
      BY <1>0, <2>1, <3>1 DEF Sent
    <3> QED  BY <1>t, <2>1, <3>1, <3>2
  <2>3. SeenBefore' = l + 2 - 2 * (s + 1)
    BY <1>0, <2>1, <2>2, <2>p DEF SeenBefore
  <2> QED  BY <1>0, <2>1, <2>2, <2>3
<1>2. CASE NextPhase
  <2>1. /\ left = 0 /\ pending = <<>> /\ pending' = <<>> /\ phase' = phase + 1
        /\ seen' = seen /\ ~Request
    BY <1>2 DEF NextPhase, Request
  <2>2. c = 0 /\ s = Script[phase].count
    <3>1. Len(pending) = 0
      BY <2>1
    <3> QED  BY <1>t, <1>0, <2>1, <3>1 DEF ToCome, Sent
  <2>3. ASSUME phase' <= k PROVE SeenBefore' = Len(seen)
    <3>1. phase < Len(Script) /\ phase + 1 \in Nat /\ 1 <= phase + 1
          /\ phase + 1 <= Len(Script)
      BY <1>t, <2>1, <2>3, ScriptAssumption
    <3>2. left' = Script[phase'].count
      BY <1>2, <2>1, <3>1 DEF NextPhase
    <3>3. Script[phase'].count \in Nat
      BY <2>1, <3>1, ScriptTyped
    <3>4. Sent' = 0 /\ ToCome(2)' = 0
      <4>1. Len(pending') = 0
        BY <2>1
      <4> QED  BY <3>2, <3>3, <4>1 DEF Sent, ToCome
    <3>5. SeenBefore' = Len(seen) + 0 - 2 * 0
      BY <2>1, <3>4 DEF SeenBefore
    <3> QED  BY <1>t, <3>5
  <2>4. Len(seen) = SeenBefore + 2 * Script[phase].count
    BY <1>t, <1>0, <2>2
  <2> QED  BY <1>0, <1>2, <2>1, <2>3, <2>4
<1>3. CASE Passes
  <2>1. UNCHANGED <<phase, left, seen>> /\ pending # <<>>
    BY <1>3, RingLength DEF Passes, RingInv, Inv
  <2>2. Len(pending) = 3
    <3>1. Loop /\ Ring
      BY DEF RingInv, Inv
    <3>2. Len(pending) \in 1..3 /\ Skips(Parse(Head(pending)))
      BY <1>3 DEF Passes
    <3>3. Len(pending) # 2 /\ Len(pending) # 1
      BY <1>t, <2>1, <3>1, <3>2, RecordsOfExchange
    <3> QED  BY <3>2, <3>3
  <2>3. ToCome(2)' = ToCome(2) /\ Sent' = Sent
    BY <1>3, <2>1, <2>2 DEF Passes, ToCome, Sent
  <2>4. SeenBefore' = SeenBefore
    BY <2>1, <2>3 DEF SeenBefore
  <2>5. ~Request /\ ~NextPhase
    BY <2>1 DEF Request, NextPhase
  <2> QED  BY <1>0, <2>1, <2>4, <2>5
<1>4. CASE Hands
  <2>1. /\ UNCHANGED <<phase, left>> /\ Len(seen') = Len(seen) + 1
        /\ Len(pending) \in 1..2 /\ Len(pending') = Len(pending) - 1
        /\ pending # <<>>
    BY <1>4, HandsLate, RingLength DEF Hands, RingInv, Inv
  <2>2. ToCome(2)' = ToCome(2) - 1 /\ Sent' = Sent
    BY <2>1 DEF ToCome, Sent
  <2>3. SeenBefore' = SeenBefore
    BY <1>0, <2>1, <2>2 DEF SeenBefore
  <2>4. ~Request /\ ~NextPhase
    BY <2>1 DEF Request, NextPhase
  <2> QED  BY <1>0, <2>1, <2>3, <2>4
<1>5. CASE UNCHANGED watched
  <2>1. UNCHANGED <<phase, left, pending, seen>>
    BY <1>5 DEF watched, traffic
  <2>2. SeenBefore' = SeenBefore
    BY <2>1 DEF SeenBefore, ToCome, Sent
  <2>3. ~NextPhase
    BY <1>t, <2>1 DEF NextPhase
  <2>4. ~Request
    BY <1>t, <2>1 DEF Request
  <2> QED  BY <1>0, <2>1, <2>2, <2>3, <2>4
<1> QED  BY <1>1, <1>2, <1>3, <1>4, <1>5, Steps DEF RingInv

LEMMA StepClose ==
  ASSUME RingInv, [Next]_vars, NEW k \in Int, NEW D \in Nat, Close(k, D),
         ~NextPhase, IsRecorded(Script[phase].cmd), RingOf(FALSE),
         \A delay \in Script[phase].delays : delay <= D
  PROVE  Close(k, D)'
<1>p. /\ Len(pending) \in 0..3 /\ Len(seen) \in Nat /\ now \in Nat
      /\ pending = <<>> <=> Len(pending) = 0
      /\ \A r \in accepted : /\ r.n \in Nat /\ r.n <= Len(seen)
                             /\ r.timestamp \in Nat /\ r.timestamp <= now
  BY RingLength DEF RingInv, Inv, Loop, Handed
<1>1. CASE Request /\ Len(pending) = 0 /\ Len(pending') = 3
  <2>1. UNCHANGED <<accepted, seen>> /\ pending = <<>>
    BY <1>1 DEF Request, window
  <2>2. PICK delay \in Script[phase].delays : now' = now + delay
    BY <1>1 DEF Request
  <2>3. delay \in Nat /\ delay <= D
    <3>1. phase \in Nat /\ 1 <= phase /\ phase <= Len(Script)
      BY <1>1, ScriptAssumption DEF Request, Done, RingInv, Inv, Loop
    <3> QED  BY <3>1, ScriptTyped
  <2>4. pending' # <<>>
    <3>1. Len(<<>>) = 0 /\ 0 # 3
      OBVIOUS
    <3>2. Len(pending') = 3
      BY <1>1
    <3> QED  BY <3>1, <3>2, Zenon
  <2>5. \A r \in accepted :
          k < r.n /\ r.n + 1 >= Len(seen) => now' <= r.timestamp + D
    <3> SUFFICES ASSUME NEW r \in accepted, k < r.n, r.n + 1 >= Len(seen)
                 PROVE  now' <= r.timestamp + D
      OBVIOUS
    <3>1. now <= r.timestamp
      BY <2>1 DEF Close
    <3> QED  BY <1>p, <2>2, <2>3, <3>1
  <2> QED  BY <1>1, <2>1, <2>4, <2>5 DEF Close
<1>3. CASE Passes
  <2>1. /\ UNCHANGED <<accepted, seen, now>> /\ pending # <<>>
        /\ Len(pending') = Len(pending) - 1
    BY <1>p, <1>3 DEF Passes, window
  <2>2. Len(pending) = 3
    <3>1. Len(pending) \in 1..3 /\ Skips(Parse(Head(pending)))
      BY <1>3 DEF Passes
    <3>2. Len(pending) # 2 /\ Len(pending) # 1
      BY <2>1, <3>1, RecordsOfExchange DEF RingInv, Inv
    <3> QED  BY <3>1, <3>2
  <2>3. Len(pending') = 2
    BY <2>1, <2>2
  <2>4. pending' # <<>>
    <3>1. Len(<<>>) = 0
      OBVIOUS
    <3> QED  BY <2>3, <3>1
  <2>5. Len(pending') # 1
    BY <2>3
  <2>6. /\ accepted' = accepted /\ seen' = seen /\ now' = now
        /\ Len(seen') = Len(seen)
    BY <2>1
  <2> QED  BY <2>4, <2>5, <2>6, Zenon DEF Close
<1>4. CASE Hands
  <2>1. /\ Len(pending) \in 1..2 /\ Len(pending') = Len(pending) - 1
        /\ Len(seen') = Len(seen) + 1 /\ now' = now
        /\ accepted' = accepted \cup {Arrival}
        /\ Arrival.n = Len(seen) + 1 /\ Arrival.timestamp = now
    BY <1>4, HandsLate DEF Hands, RingInv, Inv
  <2>2. ASSUME NEW q \in accepted', NEW r \in accepted',
               k < r.n, r.n < q.n, q.n <= r.n + 2
        PROVE  q.timestamp <= r.timestamp + D
    <3>1. r \in accepted
      BY <1>p, <2>1, <2>2
    <3>2. CASE q \in accepted
      BY <2>2, <3>1, <3>2 DEF Close
    <3>3. CASE q = Arrival
      <4>1. r.n + 1 >= Len(seen)
        BY <1>p, <2>1, <2>2, <3>1, <3>3
      <4>2. now <= r.timestamp + D
        BY <2>2, <3>1, <4>1 DEF Close
      <4> QED  BY <2>1, <3>3, <4>2
    <3> QED  BY <2>1, <3>2, <3>3
  <2>3. ASSUME NEW r \in accepted', k < r.n, r.n + 1 >= Len(seen')
        PROVE  /\ now <= r.timestamp + D
               /\ Len(pending) = 1 => now <= r.timestamp
    <3>1. CASE r = Arrival
      BY <1>p, <2>1, <3>1
    <3>2. CASE r \in accepted
      <4>1. r.n = Len(seen) /\ r.n + 1 >= Len(seen)
        BY <1>p, <2>1, <2>3, <3>2
      <4> QED  BY <2>3, <3>2, <4>1 DEF Close
    <3> QED  BY <2>1, <3>1, <3>2
  <2>4. pending' = <<>> => Len(pending) = 1
    <3> SUFFICES ASSUME pending' = <<>> PROVE Len(pending) = 1
      OBVIOUS
    <3>1. PICK l \in Int : l = Len(pending) /\ Len(pending') = l - 1
      BY <2>1
    <3>2. Len(pending') = 0
      OBVIOUS
    <3>3. l - 1 = 0
      BY <3>1, <3>2, Zenon
    <3>4. l = 1
      BY <3>3
    <3> QED  BY <3>1, <3>4, Zenon
  <2>5. \A r \in accepted' : r.n = Len(seen') => now' <= r.timestamp
    <3> SUFFICES ASSUME NEW r \in accepted', r.n = Len(seen')
                 PROVE  now' <= r.timestamp
      OBVIOUS
    <3>1. r = Arrival
      BY <1>p, <2>1
    <3> QED  BY <1>p, <2>1, <3>1
  <2> QED  BY <2>1, <2>2, <2>3, <2>4, <2>5 DEF Close
<1>5. CASE UNCHANGED watched
  BY <1>5 DEF watched, traffic, window, Close
<1> QED  BY <1>1, <1>3, <1>4, <1>5, Steps DEF RingInv

LEMMA StepWritesSince ==
  ASSUME RingInv, [Next]_vars, NEW k \in Nat, WritesSince(k),
         IsRecorded(Script[phase].cmd), IsWriting(Script[phase].cmd)
  PROVE  WritesSince(k)'
<1>1. CASE UNCHANGED seen
  BY <1>1 DEF WritesSince
<1>2. CASE Hands
  <2>1. pending # <<>> /\ Len(pending) # 3
    <3>1. Len(pending) \in 1..2 /\ (pending = <<>> <=> Len(pending) = 0)
      BY <1>2, HandsLate, RingLength DEF RingInv, Inv
    <3> QED  BY <3>1
  <2>2. Parse(Head(pending)).isWrite
    BY <1>2, <2>1, RecordsOfExchange DEF RingInv, Inv, Hands
  <2>3. PICK r : /\ r = Parse(Head(pending)) /\ seen' = Append(seen, r)
                 /\ Len(seen') = Len(seen) + 1
    BY <1>2 DEF Hands
  <2>4. seen \in Seq(Records) /\ Len(seen) \in Nat
    BY DEF RingInv, Inv, Loop
  <2>5. /\ seen'[Len(seen) + 1] = r
        /\ \A n \in Nat : 1 <= n /\ n <= Len(seen) => seen'[n] = seen[n]
    <3> HIDE DEF Records
    <3> QED  BY <2>3, <2>4
  <2>6. ASSUME NEW n \in Nat, k < n, n <= Len(seen')
        PROVE  seen'[n].isWrite
    <3>1. CASE n <= Len(seen)
      <4>1. seen'[n] = seen[n]
        BY <2>5, <2>6, <3>1
      <4> QED  BY <2>6, <3>1, <4>1 DEF WritesSince
    <3>2. CASE n = Len(seen) + 1
      BY <2>2, <2>3, <2>5, <3>2
    <3> QED  BY <2>3, <2>4, <2>6, <3>1, <3>2
  <2> QED  BY <2>6 DEF WritesSince
<1> QED  BY <1>1, <1>2, Steps DEF RingInv, Request, NextPhase, Passes, watched

\* A phase once reported stays reported.
LEMMA StepAlarms ==
  ASSUME RingInv, [Next]_vars
  PROVE  alarms \subseteq alarms'
<1>1. CASE UNCHANGED risk
  BY <1>1 DEF risk
<1>2. CASE EvaluateWindow /\ ~UNCHANGED risk
  BY <1>2, Evaluation, Zenon
<1> QED  BY <1>1, <1>2, NoEvaluation DEF RingInv, Inv

LEMMA StepJudged ==
  ASSUME RingInv, RingInv', [Next]_vars, NEW k \in Nat, Judged(k),
         WritesSince(k)', WriteHeavyIsHigh', phase = Flood
  PROVE  Judged(k)'
<1>1. CASE ~EvaluateWindow
  <2>1. UNCHANGED risk
    BY <1>1, NoEvaluation DEF RingInv, Inv
  <2>2. UNCHANGED outWindow
    <3>1. CASE BufferRecord
      BY <3>1, BufferRecordIs DEF BufferRecord, WP!BufferRecord
    <3> QED  BY <1>1, <3>1, StepCases
             DEF Request, NextPhase, SkipPacket, watched, window
  <2> QED  BY <2>1, <2>2 DEF risk, Judged
<1>2. CASE EvaluateWindow
  <2> DEFINE w == outWindow'.records
             late == {r \in w : r.n > k}
  <2>1. SUFFICES ASSUME late # {},
                        10 * Cardinality(late) >= 3 * Cardinality(w)
                 PROVE  Flood \in alarms'
    BY DEF Judged
  <2>2. PICK W : /\ W = Contents(w, seen')
                 /\ \/ W = {} /\ UNCHANGED risk
                    \/ /\ W # {}
                       /\ \E d \in Risk!Decisions :
                            /\ Risk!Evaluate(Percent(HstScore(W)),
                                             Percent(BurstScore(W)), d)
                            /\ decision' = d
                            /\ alarms' = IF d.level = "High"
                                         THEN alarms \cup {phase} ELSE alarms
    BY <1>2, Evaluation, Zenon
  <2>3. W # {} /\ W = Evaluated'
    <3>1. returned'
      BY <1>2 DEF EvaluateWindow, Windows!EmitWindow
    <3>2. W # {}
      BY <2>1, <2>2 DEF Contents
    <3> QED  BY <2>2, <3>1, <3>2 DEF Evaluated
  <2>4. /\ w \subseteq accepted' /\ IsFiniteSet(accepted')
        /\ \A r \in accepted' : r.n \in Nat /\ r.n <= Len(seen')
        /\ \A q, r \in accepted' : q.n = r.n => q = r
    BY DEF RingInv, Numbered, Inv, Handed, WP!IInv, WP!WindowIsComplete,
           WP!Within
  <2>5. IsFiniteSet(w) /\ IsFiniteSet(late)
    BY <2>4, FS_Subset
  <2>6. /\ IsFiniteSet(W) /\ Cardinality(w) \in Nat
        /\ Cardinality(W) = Cardinality(w)
    <3>1. \A q, r \in w : q.n = r.n => q = r
      BY <2>4
    <3> HIDE DEF w
    <3> QED  BY <2>2, <2>5, <3>1, ContentsSize
  <2>7. /\ IsFiniteSet(Contents(late, seen')) /\ Cardinality(late) \in Nat
        /\ Cardinality(Contents(late, seen')) = Cardinality(late)
    <3>1. \A q, r \in late : q.n = r.n => q = r
      BY <2>4
    <3> HIDE DEF w, late
    <3> QED  BY <2>5, <3>1, ContentsSize
  <2>8. Contents(late, seen') \subseteq {c \in W : c.of.isWrite}
    <3>1. \A r \in late : seen'[r.n].isWrite
      BY <2>4 DEF WritesSince
    <3>2. Contents(late, seen') \subseteq W
      BY <2>2 DEF Contents
    <3>3. \A c \in Contents(late, seen') : \E r \in late : c.of = seen'[r.n]
      <4> HIDE DEF late
      <4> QED  BY DEF Contents
    <3> QED  BY <3>1, <3>2, <3>3
  <2>9. /\ Cardinality({c \in W : c.of.isWrite}) \in Nat
        /\ Cardinality(late) <= Cardinality({c \in W : c.of.isWrite})
    <3>1. IsFiniteSet({c \in W : c.of.isWrite})
      BY <2>6, FS_Subset
    <3> QED  BY <2>7, <2>8, <3>1, FS_Subset, FS_CardinalityType
  <2>10. 10 * Cardinality({c \in W : c.of.isWrite}) >= 3 * Cardinality(W)
    BY <2>1, <2>6, <2>7, <2>9
  <2>11. decision'.level = "High"
    BY <2>3, <2>10 DEF WriteHeavyIsHigh
  <2>12. alarms' = alarms \cup {phase}
    BY <2>2, <2>3, <2>11
  <2> QED  BY <2>12
<1> QED  BY <1>1, <1>2

\* Of records that come at most D apart, one with at most 2 m after it is not
\* older than m times D when the ring is empty.
LEMMA CloseChain ==
  ASSUME RingInv, NEW k \in Int, NEW D \in Nat, Close(k, D), pending = <<>>,
         NEW m \in Nat, NEW r \in accepted, k < r.n, Len(seen) <= r.n + 2 * m
  PROVE  now <= r.timestamp + m * D
<1>p. /\ Len(seen) \in Nat /\ now \in Nat
      /\ \A x \in accepted : /\ x.n \in Nat /\ 1 <= x.n /\ x.n <= Len(seen)
                             /\ x.timestamp \in Nat
      /\ \A n \in Nat : 1 <= n /\ n <= Len(seen) => \E x \in accepted : x.n = n
  BY RingLength DEF RingInv, Inv, Loop, Handed, Numbered
<1> DEFINE G == {j \in Nat : \A x \in accepted :
                   k < x.n /\ Len(seen) <= x.n + 2 * j
                     => now <= x.timestamp + j * D}
<1>1. 0 \in G
  <2> SUFFICES ASSUME NEW x \in accepted, k < x.n, Len(seen) <= x.n + 2 * 0
               PROVE  now <= x.timestamp + 0 * D
    OBVIOUS
  <2>1. x.n + 1 >= Len(seen)
    BY <1>p
  <2>2. now <= x.timestamp
    BY <2>1 DEF Close
  <2> QED  BY <1>p, <2>2
<1>2. ASSUME NEW j \in Nat, j \in G
      PROVE  j + 1 \in G
  <2> SUFFICES ASSUME NEW x \in accepted, k < x.n,
                      Len(seen) <= x.n + 2 * (j + 1)
               PROVE  now <= x.timestamp + (j + 1) * D
    OBVIOUS
  <2>1. PICK a \in Nat : a = j * D /\ (j + 1) * D = a + D
    OBVIOUS
  <2>2. CASE x.n + 1 >= Len(seen)
    <3>1. now <= x.timestamp /\ x.timestamp \in Nat
      BY <1>p, <2>2 DEF Close
    <3>2. now <= x.timestamp + (a + D)
      BY <1>p, <3>1
    <3> QED  BY <2>1, <3>2
  <2>3. CASE ~(x.n + 1 >= Len(seen))
    <3>1. x.n + 2 \in Nat /\ 1 <= x.n + 2 /\ x.n + 2 <= Len(seen)
      BY <1>p, <2>3
    <3>2. PICK y \in accepted : y.n = x.n + 2
      BY <1>p, <3>1
    <3>3. k < y.n /\ Len(seen) <= y.n + 2 * j /\ x.n < y.n
      BY <1>p, <3>2
    <3>4. now <= y.timestamp + j * D
      BY <1>2, <3>3
    <3>5. y.timestamp <= x.timestamp + D
      <4>1. y.n <= x.n + 2
        BY <1>p, <3>2
      <4> QED  BY <3>3, <4>1 DEF Close
    <3> QED  BY <1>p, <2>1, <3>4, <3>5
  <2> QED  BY <2>2, <2>3
<1>3. m \in G
  <2> HIDE DEF G
  <2> QED  BY <1>1, <1>2, NaturalInduction
<1> QED  BY <1>3

\* The numbers up to the k-th, and those after it.
UpTo(k) == {n \in Int : n <= k}
After(k) == {n \in Int : n > k}

\* Records d apart up to the 2 b-th and e apart in the 2 c after them: from the
\* first to the last, b - 1 times d and c times e.
LEMMA Stretch ==
  ASSUME RingInv, NEW k \in Nat, NEW b \in Nat \ {0}, NEW c \in Nat,
         NEW d \in Nat, NEW e \in Nat,
         k >= 2 * b, Len(seen) = k + 2 * c,
         Apart(UpTo(k), d), Apart(After(k), e)
  PROVE  \E q, r \in accepted :
           r.timestamp >= q.timestamp + ((b - 1) * d + c * e)
<1>p. /\ \A x \in accepted : x.n \in Nat /\ x.timestamp \in Nat
      /\ \A n \in Nat : 1 <= n /\ n <= Len(seen) => \E x \in accepted : x.n = n
  BY DEF RingInv, Inv, Handed, Numbered
<1>1. PICK q \in accepted, m \in accepted, r \in accepted :
        q.n = 1 /\ m.n = k /\ r.n = k + 2 * c
  <2>1. /\ 1 \in Nat /\ 1 <= 1 /\ 1 <= Len(seen)
        /\ k \in Nat /\ 1 <= k /\ k <= Len(seen)
        /\ k + 2 * c \in Nat /\ 1 <= k + 2 * c /\ k + 2 * c <= Len(seen)
    OBVIOUS
  <2> QED  BY <1>p, <2>1
<1>2. m.timestamp >= q.timestamp + (b - 1) * d
  <2>1. b - 1 \in Nat /\ m.n >= q.n + 2 * (b - 1)
    BY <1>1
  <2>2. \A n \in Nat : q.n < n /\ n <= m.n => n \in UpTo(k)
    BY <1>1 DEF UpTo
  <2> QED  BY <2>1, <2>2, Strides
<1>3. r.timestamp >= m.timestamp + c * e
  <2>1. r.n >= m.n + 2 * c
    BY <1>1
  <2>2. \A n \in Nat : m.n < n /\ n <= r.n => n \in After(k)
    BY <1>1 DEF After
  <2> QED  BY <2>1, <2>2, Strides
<1>4. PICK x \in Nat, y \in Nat : x = (b - 1) * d /\ y = c * e
  <2>1. (b - 1) * d \in Nat /\ c * e \in Nat
    <3>1. PICK z \in Nat : z = b - 1
      OBVIOUS
    <3>2. z * d \in Nat /\ c * e \in Nat
      OBVIOUS
    <3> QED  BY <3>1, <3>2
  <2> QED  BY <2>1
<1>5. r.timestamp >= q.timestamp + (x + y)
  BY <1>p, <1>2, <1>3, <1>4
<1> QED  BY <1>4, <1>5

\* When no window is due and the records span more than a window, one was emitted,
\* and it is the one that ends a step before the next.
LEMMA LastWindow ==
  ASSUME RingInv, lastTime < nextEmitTime,
         \E q, r \in accepted : r.timestamp >= q.timestamp + windowSize
  PROVE  /\ outWindow.endTime = nextEmitTime - stepSize
         /\ outWindow.startTime = nextEmitTime - stepSize - windowSize
         /\ nextEmitTime - stepSize <= lastTime
<1>t. /\ windowSize \in Nat /\ stepSize \in Nat
      /\ nextEmitTime \in Nat /\ lastTime \in Nat
      /\ \A r \in accepted : r.timestamp \in Nat /\ r.timestamp <= lastTime
  BY SizesAssumption
     DEF RingInv, Inv, Handed, WP!IInv, WP!TypeOK, WP!InTimeOrder
<1>1. PICK q \in accepted, r \in accepted :
        r.timestamp >= q.timestamp + windowSize
  OBVIOUS
<1>2. ~(\A x \in accepted : x.timestamp >= nextEmitTime - windowSize)
  <2> SUFFICES ASSUME q.timestamp >= nextEmitTime - windowSize PROVE FALSE
    BY <1>1
  <2> QED  BY <1>t, <1>1
<1>3. /\ outWindow.endTime = nextEmitTime - stepSize
      /\ outWindow.startTime = outWindow.endTime - windowSize
      /\ outWindow.endTime <= lastTime
  BY <1>2 DEF RingInv, Inv, WP!IInv, WP!WindowBehindNext
<1> QED  BY <1>3

\* What it holds of the records after the k-th: all but those of the last late
\* requests, as far back as they reach.
LEMMA LastWindowHolds ==
  ASSUME RingInv, pending = <<>>, now = lastTime, lastTime < nextEmitTime,
         outWindow.endTime = nextEmitTime - stepSize,
         outWindow.startTime = nextEmitTime - stepSize - windowSize,
         nextEmitTime - stepSize <= lastTime,
         NEW k \in Nat, NEW e \in Nat, NEW D \in Nat,
         Apart(After(k), e), Close(k, D),
         NEW late \in Nat, NEW scored \in Nat, late * e >= stepSize,
         (late + scored) * D <= windowSize,
         Len(seen) >= k + 2 * (late + scored),
         NEW r \in accepted,
         Len(seen) - 2 * (late + scored) < r.n, r.n <= Len(seen) - 2 * late
  PROVE  r \in outWindow.records /\ k < r.n
<1>t. /\ windowSize \in Nat /\ stepSize \in Nat
      /\ nextEmitTime \in Nat /\ lastTime \in Nat /\ Len(seen) \in Nat
      /\ r.n \in Nat /\ r.timestamp \in Nat /\ 1 <= r.n
      /\ \A x \in accepted : x.timestamp \in Nat /\ x.timestamp <= lastTime
  BY SizesAssumption, RingLength
     DEF RingInv, Inv, Handed, WP!IInv, WP!TypeOK, WP!InTimeOrder
<1>1. k < r.n
  BY <1>t
<1>2. r.timestamp < nextEmitTime - stepSize
  <2>1. PICK x \in accepted : x.n = Len(seen)
    <3>1. 1 <= Len(seen)
      BY <1>t
    <3>2. Len(seen) <= Len(seen)
      BY <1>t
    <3> QED  BY <1>t, <3>1, <3>2 DEF RingInv, Numbered
  <2>2. x.n >= r.n + 2 * late
    BY <1>t, <2>1
  <2>3. \A n \in Nat : r.n < n /\ n <= x.n => n \in After(k)
    BY <1>t, <1>1 DEF After
  <2>4. x.timestamp >= r.timestamp + late * e
    BY <2>2, <2>3, Strides
  <2>5. PICK y \in Nat : y = late * e
    OBVIOUS
  <2> QED  BY <1>t, <2>4, <2>5
<1>3. nextEmitTime - stepSize - windowSize <= r.timestamp
  <2>1. PICK m \in Nat : m = late + scored
    OBVIOUS
  <2>2. Len(seen) <= r.n + 2 * m
    BY <1>t, <2>1
  <2>3. now <= r.timestamp + m * D
    BY <1>1, <2>2, CloseChain
  <2>4. PICK y \in Nat : y = m * D /\ y <= windowSize
    BY <2>1
  <2> QED  BY <1>t, <2>3, <2>4
<1>4. r \in outWindow.records
  BY <1>2, <1>3 DEF RingInv, Inv, WP!IInv, WP!WindowIsComplete
<1> QED  BY <1>1, <1>4

\* That window outweighs what came before the flood.
LEMMA LastWindowHeavy ==
  ASSUME RingInv, pending = <<>>, now = lastTime, lastTime < nextEmitTime,
         outWindow.endTime = nextEmitTime - stepSize,
         outWindow.startTime = nextEmitTime - stepSize - windowSize,
         nextEmitTime - stepSize <= lastTime,
         NEW k \in Nat, NEW d \in Nat \ {0}, NEW e \in Nat, NEW D \in Nat,
         Apart(UpTo(k), d), Apart(After(k), e), Close(k, D),
         NEW late \in Nat, NEW scored \in Nat, late * e >= stepSize,
         (late + scored) * D <= windowSize,
         Len(seen) >= k + 2 * (late + scored),
         7 * scored >= 3 * (windowSize \div d + 1)
  PROVE  LET fresh == {r \in outWindow.records : r.n > k}
         IN  fresh # {} /\ 10 * Cardinality(fresh)
                             >= 3 * Cardinality(outWindow.records)
<1> DEFINE w == outWindow.records
           fresh == {r \in w : r.n > k}
           old == {r \in w : ~(r.n > k)}
<1>t. /\ windowSize \in Nat /\ Len(seen) \in Nat
      /\ \A r \in accepted : r.n \in Nat
      /\ w \in SUBSET accepted /\ IsFiniteSet(w)
  <2>1. w \in SUBSET accepted
    BY OutWindowSpan DEF RingInv
  <2> QED  BY <2>1, SizesAssumption, RingLength, FS_Subset
           DEF RingInv, Inv, Handed
<1>1. PICK q \in Nat : q = windowSize \div d /\ 7 * scored >= 3 * (q + 1)
  <2>1. windowSize \in Nat
    BY SizesAssumption
  <2>2. PICK x \in Int : x = windowSize \div d
    BY <2>1
  <2>3. x \in Nat /\ (x + 1) * d > windowSize
    BY <2>1, <2>2
  <2>4. 7 * scored >= 3 * (x + 1)
    BY <2>2, Zenon
  <2> QED  BY <2>2, <2>3, <2>4
<1>2. IsFiniteSet(fresh) /\ IsFiniteSet(old)
  BY <1>t, FS_Subset
<1>3. Cardinality(fresh) \in Nat /\ 2 * scored <= Cardinality(fresh)
  <2>1. PICK lo \in Int : lo = Len(seen) - 2 * (late + scored)
    <3>1. Len(seen) - 2 * (late + scored) \in Int
      BY <1>t
    <3> QED  BY <3>1, Zenon
  <2>2. 2 * scored \in Nat /\ lo >= k /\ lo + 2 * scored = Len(seen) - 2 * late
    BY <1>t, <2>1
  <2>3. ASSUME NEW n \in Int, lo < n, n <= lo + 2 * scored
        PROVE  \E r \in fresh : r.n = n
    <3>1. n \in Nat /\ 1 <= n /\ n <= Len(seen)
      BY <1>t, <2>2, <2>3
    <3>2. PICK r \in accepted : r.n = n
      BY <3>1 DEF RingInv, Numbered
    <3>3. /\ Len(seen) - 2 * (late + scored) < r.n
          /\ r.n <= Len(seen) - 2 * late
      BY <2>1, <2>2, <2>3, <3>2
    <3>4. r \in outWindow.records /\ k < r.n
      BY <3>3, LastWindowHolds
    <3> QED  BY <3>2, <3>4
  <2> HIDE DEF fresh
  <2> QED  BY <1>2, <2>2, <2>3, ManyNumbers
<1>4. Cardinality(old) \in Nat /\ Cardinality(old) <= 2 * (q + 1)
  <2>1. PICK lo \in Int : \A r \in w :
          lo <= r.timestamp /\ r.timestamp <= lo + windowSize
    BY OutWindowSpan DEF RingInv
  <2>2. old \in SUBSET accepted
    BY <1>t
  <2>3. \A r \in old : lo <= r.timestamp /\ r.timestamp <= lo + windowSize
    BY <2>1
  <2>4. \A r \in old : \A n \in Nat : n <= r.n => n \in UpTo(k)
    BY <1>t DEF UpTo
  <2> HIDE DEF old
  <2> QED  BY <1>1, <2>2, <2>3, <2>4, SpanBounded DEF MostRecords
<1>5. Cardinality(w) = Cardinality(fresh) + Cardinality(old)
  <2>1. w = fresh \cup old /\ fresh \cap old = {}
    OBVIOUS
  <2> HIDE DEF fresh, old, w
  <2>2. Cardinality(fresh \cup old)
          = Cardinality(fresh) + Cardinality(old) - Cardinality(fresh \cap old)
    BY <1>2, FS_Union
  <2>3. Cardinality(fresh \cap old) = 0
    BY <2>1, FS_EmptySet
  <2> QED  BY <1>3, <1>4, <2>1, <2>2, <2>3
<1>6. 10 * Cardinality(fresh) >= 3 * Cardinality(w) /\ scored >= 1
  <2>1. PICK f \in Nat, o \in Nat :
          f = Cardinality(fresh) /\ o = Cardinality(old)
    BY <1>3, <1>4
  <2>2. 2 * scored <= f /\ o <= 2 * (q + 1) /\ Cardinality(w) = f + o
    BY <1>3, <1>4, <1>5, <2>1, Zenon
  <2>3. 10 * f >= 3 * (f + o) /\ scored >= 1
    <3>1. 7 * scored >= 3 * (q + 1) /\ 2 * scored <= f /\ o <= 2 * (q + 1)
      BY <1>1, <2>2
    <3> HIDE <1>1, <1>2, <1>3, <1>4, <1>5, <2>1, <2>2
    <3> HIDE DEF fresh, old, w
    <3> QED  BY <3>1
  <2> QED  BY <2>1, <2>2, <2>3, Zenon
<1>7. fresh # {}
  <2> HIDE DEF fresh
  <2>1. Cardinality(fresh) # 0
    BY <1>3, <1>6
  <2> QED  BY <2>1, FS_EmptySet, Zenon
<1> QED  BY <1>6, <1>7

\* Up to the flood, the records are d apart and as many as the phases so far
\* bring; during it, those of the flood are writes, between least and most apart,
\* and a window that they outweigh is reported.
FloodInv(before, d, least, most) ==
  /\ phase < Flood => Apart(Int, d)
  /\ phase <= Flood => SeenBefore >= 2 * before[phase]
  /\ phase = Flood =>
       /\ Apart(UpTo(SeenBefore), d)
       /\ Apart(After(SeenBefore), least)
       /\ Close(SeenBefore, most)
       /\ WritesSince(SeenBefore)
       /\ Judged(SeenBefore)

\* The flood does not end unreported.
LEMMA FloodEnds ==
  ASSUME RingInv, [Next]_vars, NextPhase, phase = Flood, Flood <= Len(Script),
         KeepsUp(Flood, FALSE), OnTime(Flood, FALSE), Flood \in Nat,
         NEW d \in Nat \ {0}, NEW least \in Nat, NEW most \in Nat,
         NEW late \in Nat, NEW scored \in Nat, NEW before \in [1..Flood -> Nat],
         DenseFlood(d, least, most, late, scored), WarmsUp(before, d, least),
         FloodInv(before, d, least, most)
  PROVE  Flood \in alarms
<1>1. /\ initialized /\ now = lastTime /\ lastTime < nextEmitTime
      /\ pending = <<>>
  <2>1. FALSE \in BOOLEAN /\ pending = <<>> /\ left = 0 /\ phase <= Flood /\ Inv
    BY DEF RingInv, NextPhase
  <2> QED  BY <2>1, PhaseThrough
<1>2. PICK k \in Int, c \in Nat :
        /\ k = SeenBefore /\ c = Script[Flood].count
        /\ Len(seen) = k + 2 * c
  <2>1. SeenBefore \in Int /\ Len(seen) = SeenBefore + 2 * Script[phase].count
    <3>1. phase <= Flood
      OBVIOUS
    <3> QED  BY <3>1, StepSeenBefore
  <2>2. Script[Flood].count \in Nat
    <3>1. Flood \in Nat /\ 1 <= Flood
      BY DEF RingInv, Inv, Loop
    <3> QED  BY <3>1, ScriptTyped
  <2> QED  BY <2>1, <2>2
<1>3. PICK b \in Nat \ {0} : /\ b = before[Flood] /\ k >= 2 * b
                             /\ (b - 1) * d + c * least >= windowSize
  <2>1. Flood \in 1..Flood
    BY DEF DenseFlood
  <2>2. before[Flood] \in Nat \ {0}
    BY <2>1 DEF WarmsUp
  <2>3. SeenBefore >= 2 * before[Flood]
    BY <2>1 DEF FloodInv
  <2> QED  BY <1>2, <2>2, <2>3 DEF WarmsUp
<1>4. /\ k \in Nat
      /\ Apart(UpTo(k), d) /\ Apart(After(k), least)
      /\ Close(k, most) /\ Judged(k)
  BY <1>2, <1>3 DEF FloodInv
<1>5. \E q, r \in accepted : r.timestamp >= q.timestamp + windowSize
  <2>1. PICK q \in accepted, r \in accepted :
          r.timestamp >= q.timestamp + ((b - 1) * d + c * least)
    BY <1>2, <1>3, <1>4, Stretch
  <2>2. PICK x \in Int : x = (b - 1) * d + c * least /\ x >= windowSize
    <3>1. (b - 1) * d + c * least \in Int
      OBVIOUS
    <3>2. (b - 1) * d + c * least >= windowSize
      BY <1>3
    <3> QED  BY <3>1, <3>2, Zenon
  <2>3. windowSize \in Nat /\ q.timestamp \in Nat /\ r.timestamp \in Nat
    BY SizesAssumption DEF RingInv, Inv, Handed
  <2>4. r.timestamp >= q.timestamp + windowSize
    BY <2>1, <2>2, <2>3
  <2> QED  BY <2>4
<1>6. /\ outWindow.endTime = nextEmitTime - stepSize
      /\ outWindow.startTime = nextEmitTime - stepSize - windowSize
      /\ nextEmitTime - stepSize <= lastTime
  BY <1>1, <1>5, LastWindow
<1>7. /\ late * least >= stepSize /\ (late + scored) * most <= windowSize
      /\ 7 * scored >= 3 * (windowSize \div d + 1) /\ late + scored <= c
  BY <1>2 DEF DenseFlood
<1>8. Len(seen) >= k + 2 * (late + scored)
  <2>1. PICK m \in Nat : m = late + scored /\ m <= c
    BY <1>7
  <2>2. PICK l \in Int : l = Len(seen) /\ l = k + 2 * c
    BY <1>2
  <2>3. l >= k + 2 * m
    BY <2>1, <2>2
  <2> QED  BY <2>1, <2>2, <2>3, Zenon
<1> DEFINE fresh == {r \in outWindow.records : r.n > k}
<1>9. fresh # {} /\ 10 * Cardinality(fresh) >= 3 * Cardinality(outWindow.records)
  BY <1>1, <1>4, <1>6, <1>7, <1>8, LastWindowHeavy
<1> QED  BY <1>4, <1>9 DEF Judged

LEMMA StepFloodInv ==
  ASSUME RingInv, RingInv', [Next]_vars, WriteHeavyIsHigh',
         Flood \in Nat, Flood <= Len(Script), phase <= Flood,
         KeepsUp(Flood, FALSE), OnTime(Flood, FALSE),
         NEW d \in Nat \ {0}, NEW least \in Nat, NEW most \in Nat,
         NEW late \in Nat, NEW scored \in Nat, NEW before \in [1..Flood -> Nat],
         DenseFlood(d, least, most, late, scored), WarmsUp(before, d, least),
         FloodInv(before, d, least, most)
  PROVE  FloodInv(before, d, least, most)'
<1>t. phase \in Nat /\ 1 <= phase
  BY DEF RingInv, Inv, Loop
<1>2. CASE phase < Flood
  <2>1. Apart(Int, d) /\ SeenBefore >= 2 * before[phase]
    BY <1>t, <1>2 DEF FloodInv
  <2>2. /\ SeenBefore \in Int
        /\ ~NextPhase => phase' = phase /\ SeenBefore' = SeenBefore
        /\ NextPhase => /\ phase' = phase + 1
                        /\ Len(seen) = SeenBefore + 2 * Script[phase].count
                        /\ phase' <= Flood => SeenBefore' = Len(seen)
    BY <1>t, <1>2, StepSeenBefore
  <2>3. Apart(Int, d)'
    <3>1. \A delay \in Script[phase].delays : delay >= d
      <4>1. phase \in 1..(Flood - 1)
        BY <1>t, <1>2
      <4> QED  BY <4>1 DEF DenseFlood, Spaced
    <3> QED  BY <2>1, <3>1, StepApart
  <2>4. CASE ~NextPhase
    BY <1>t, <1>2, <2>1, <2>2, <2>3, <2>4 DEF FloodInv
  <2>5. CASE NextPhase
    <3>1. phase' = phase + 1 /\ phase' <= Flood /\ SeenBefore' = Len(seen)
      BY <1>t, <1>2, <2>2, <2>5
    <3>2. SeenBefore' >= 2 * before[phase']
      <4>1. phase \in 1..(Flood - 1) /\ phase \in 1..Flood
            /\ phase + 1 \in 1..Flood
        BY <1>t, <1>2
      <4>2. PICK b \in Nat, m \in Nat, c \in Nat :
              b = before[phase] /\ m = before[phase + 1]
              /\ c = Script[phase].count
        <5>1. phase <= Len(Script)
          BY <1>t, <1>2, ScriptAssumption
        <5>2. Script[phase].count \in Nat
          BY <1>t, <5>1, ScriptTyped
        <5> QED  BY <4>1, <5>2
      <4>3. m <= b + c
        BY <4>1, <4>2 DEF WarmsUp
      <4>4. Len(seen) = SeenBefore + 2 * c
        BY <2>2, <2>5, <4>2
      <4>5. SeenBefore' >= 2 * m
        <5>1. PICK v \in Int : v = SeenBefore
          BY <2>2
        <5>2. v >= 2 * b
          BY <2>1, <4>2, <5>1
        <5>3. SeenBefore' = v + 2 * c
          BY <3>1, <4>4, <5>1
        <5> QED  BY <4>3, <5>2, <5>3
      <4> QED  BY <3>1, <4>2, <4>5
    <3>3. /\ pending = <<>> /\ pending' = <<>> /\ seen' = seen
          /\ UNCHANGED window /\ UNCHANGED risk
      BY <2>5 DEF NextPhase
    <3>4. /\ Len(seen) \in Nat /\ outWindow.records \subseteq accepted
          /\ \A r \in accepted : r.n \in Nat /\ r.n <= Len(seen)
      BY RingLength DEF RingInv, Inv, Handed, WP!IInv, WP!WindowIsComplete,
                        WP!Within
    <3>5. PICK k \in Nat : k = SeenBefore' /\ k = Len(seen)
      BY <3>1, <3>4
    <3>6. /\ accepted' = accepted /\ outWindow' = outWindow
          /\ Len(seen') = k /\ Len(pending') = 0
          /\ \A r \in accepted : r.n \in Nat /\ ~(k < r.n) /\ ~(r.n > k)
      BY <3>3, <3>4, <3>5 DEF window
    <3>7. Apart(UpTo(k), d)'
      <4>1. \A q, r \in accepted' :
              q.n \in UpTo(k) /\ q.n >= r.n + 2
                => q.timestamp >= r.timestamp + d
        BY <2>3 DEF Apart, UpTo
      <4>2. ~(Len(pending') >= 2) /\ Len(pending') # 1
        BY <3>6
      <4> QED  BY <4>1, <4>2 DEF Apart
    <3>8. Apart(After(k), least)'
      <4>1. \A q \in accepted' : q.n \notin After(k)
        BY <3>6 DEF After
      <4>2. ~(Len(pending') >= 2) /\ Len(pending') # 1
        BY <3>6
      <4> QED  BY <4>1, <4>2 DEF Apart
    <3>9. Close(k, most)'
      <4>1. \A r \in accepted' : ~(k < r.n)
        BY <3>6
      <4>2. Len(pending') # 1
        BY <3>6
      <4> QED  BY <4>1, <4>2 DEF Close
    <3>10. WritesSince(k)'
      BY <3>6 DEF WritesSince
    <3>11. Judged(k)'
      <4>1. {r \in outWindow'.records : r.n > k} = {}
        BY <3>4, <3>6
      <4> QED  BY <4>1 DEF Judged
    <3> QED  BY <2>3, <3>1, <3>2, <3>5, <3>7, <3>8, <3>9, <3>10, <3>11
             DEF FloodInv
  <2> QED  BY <2>4, <2>5
<1>3. CASE phase = Flood
  <2>1. /\ SeenBefore \in Int
        /\ ~NextPhase => phase' = phase /\ SeenBefore' = SeenBefore
        /\ Request => Len(seen) + 1 > SeenBefore
        /\ NextPhase => phase' = phase + 1
    BY <1>t, <1>3, StepSeenBefore
  <2>2. CASE NextPhase
    <3>1. ~(phase' <= Flood) /\ ~(phase' < Flood) /\ phase' # Flood
      BY <1>3, <2>1, <2>2
    <3> QED  BY <3>1 DEF FloodInv
  <2>3. CASE ~NextPhase
    <3>1. PICK k \in Nat : k = SeenBefore /\ k >= 2 * before[phase]
      <4>1. SeenBefore >= 2 * before[phase]
        BY <1>3 DEF FloodInv
      <4>2. before[phase] \in Nat
        BY <1>t, <1>3
      <4> QED  BY <2>1, <4>1, <4>2
    <3>2. /\ Apart(UpTo(k), d) /\ Apart(After(k), least)
          /\ Close(k, most) /\ WritesSince(k) /\ Judged(k)
      BY <1>3, <3>1 DEF FloodInv
    <3>3. /\ IsWriting(Script[phase].cmd) /\ IsRecorded(Script[phase].cmd)
          /\ \A delay \in Script[phase].delays : least <= delay /\ delay <= most
      <4>1. phase \in 1..Flood
        BY <1>t, <1>3
      <4>2. Brisk(phase, FALSE)
        BY <4>1 DEF KeepsUp
      <4>3. IsRecorded(Script[phase].cmd)
        BY <4>2, Zenon DEF Brisk
      <4> QED  BY <1>3, <4>3 DEF DenseFlood
    <3>4. Apart(UpTo(k), d)'
      <4>1. Request => Len(seen) + 1 \notin UpTo(k) /\ Len(seen) + 2 \notin UpTo(k)
        BY <2>1, <3>1, RingLength DEF UpTo, RingInv, Inv
      <4> QED  BY <3>2, <4>1, StepApart
    <3>5. Apart(After(k), least)'
      <4>1. \A delay \in Script[phase].delays : delay >= least
        <5>1. Script[phase].delays \subseteq Nat
          BY <1>t, <1>3, ScriptTyped
        <5> QED  BY <3>3, <5>1
      <4> QED  BY <3>2, <4>1, StepApart
    <3>6. Close(k, most)'
      <4>1. RingOf(FALSE)
        BY DEF OnTime
      <4>2. \A delay \in Script[phase].delays : delay <= most
        BY <3>3
      <4>3. k \in Int /\ Close(k, most) /\ IsRecorded(Script[phase].cmd)
        BY <3>2, <3>3
      <4> QED  BY <2>3, <4>1, <4>2, <4>3, StepClose
    <3>7. WritesSince(k)'
      BY <3>2, <3>3, StepWritesSince
    <3>8. Judged(k)'
      BY <1>3, <3>2, <3>7, StepJudged
    <3>9. phase' = Flood /\ SeenBefore' = k
      BY <1>3, <2>1, <2>3, <3>1
    <3> QED  BY <1>3, <3>1, <3>4, <3>5, <3>6, <3>7, <3>8, <3>9 DEF FloodInv
  <2> QED  BY <2>2, <2>3
<1> QED  BY <1>t, <1>2, <1>3

LEMMA InitFloodInv ==
  ASSUME Init, Flood \in Nat, Flood # 0,
         NEW d \in Nat, NEW least \in Nat, NEW most \in Nat,
         NEW before, before[1] = 0
  PROVE  FloodInv(before, d, least, most)
<1>1. /\ phase = 1 /\ left = Script[1].count /\ pending = <<>>
      /\ seen = <<>> /\ accepted = {} /\ outWindow.records = {}
  BY DEF Init, Windows!Init, Windows!NoWindow
<1>2. Len(seen) = 0 /\ Len(pending) = 0
  BY <1>1
<1>3. Script[1].count \in Nat
  <2>1. 1 \in Nat /\ 1 <= 1 /\ 1 <= Len(Script)
    BY ScriptAssumption
  <2> QED  BY <2>1, ScriptTyped
<1>4. SeenBefore = 0
  BY <1>1, <1>2, <1>3 DEF SeenBefore, Sent, ToCome
<1>5. \A S, e : Apart(S, e)
  BY <1>1, <1>2 DEF Apart
<1>6. Close(0, most) /\ WritesSince(0) /\ Judged(0)
  <2>1. WritesSince(0)
    BY <1>2 DEF WritesSince
  <2>2. Close(0, most) /\ Judged(0)
    BY <1>1, <1>2 DEF Close, Judged
  <2> QED  BY <2>1, <2>2
<1>7. SeenBefore >= 2 * before[phase]
  BY <1>1, <1>4
<1> QED  BY <1>1, <1>4, <1>5, <1>6, <1>7 DEF FloodInv

\* Nothing but a signal or a request of the script engages the PLC's lock.
LEMMA StaysUnlocked ==
  ASSUME RingInv, [Next]_vars, ~writeLocked, alarms = {},
         NEW k \in Nat, phase <= k, NeverEngages(k)
  PROVE  ~writeLocked'
<1>1. CASE Request
  <2>1. phase \in 1..k
    BY DEF RingInv, Inv, Loop
  <2>2. PICK pdu : pdu = ModbusPdu(FrameOf(Script[phase].cmd))
    OBVIOUS
  <2>3. CASE Script[phase].cmd.protocol = "Modbus"
    <3>1. ~PLC!IsEngage(pdu)
      BY <2>1, <2>2, <2>3 DEF NeverEngages
    <3>2. writeLocked' = PLC!LockAfter(pdu)
      BY <1>1, <2>2, <2>3 DEF Request
    <3> QED  BY <3>1, <3>2 DEF PLC!LockAfter
  <2>4. CASE Script[phase].cmd.protocol # "Modbus"
    BY <1>1, <2>4 DEF Request
  <2> QED  BY <2>3, <2>4
<1>2. CASE SignalArrives
  BY <1>2 DEF SignalArrives
<1>3. CASE NextPhase \/ SkipPacket \/ BufferRecord \/ EvaluateWindow
  BY <1>3 DEF NextPhase, SkipPacket, BufferRecord, EvaluateWindow, Kept,
              NextRecord
<1>4. CASE UNCHANGED vars
  BY <1>4 DEF vars
<1> QED  BY <1>1, <1>2, <1>3, <1>4 DEF Next

\* A new alarm belongs to the current phase.
LEMMA NewAlarms ==
  ASSUME RingInv, [Next]_vars
  PROVE  /\ \A p \in alarms' : p \in alarms \/ p = phase
         /\ alarms' # alarms => phase' = phase
<1>1. CASE UNCHANGED risk
  BY <1>1 DEF risk
<1>2. CASE EvaluateWindow /\ ~UNCHANGED risk
  <2>1. alarms' = alarms \cup {phase} \/ alarms' = alarms
    BY <1>2, Evaluation, Zenon
  <2>2. phase' = phase
    BY <1>2 DEF EvaluateWindow, Kept, NextRecord, traffic
  <2> QED  BY <2>1, <2>2
<1> QED  BY <1>1, <1>2, NoEvaluation DEF RingInv, Inv

\* What makes a flood detectable: the script keeps up with its windows and does
\* not lock the PLC itself, and the flood is dense enough to outweigh what it meets
\* in one of them.
DetectableFlood ==
  /\ KeepsUp(Flood, FALSE)
  /\ NeverEngages(Flood)
  /\ \E d \in Nat \ {0}, least, most, late, scored \in Nat,
        before \in [1..Flood -> Nat] :
       /\ DenseFlood(d, least, most, late, scored)
       /\ WarmsUp(before, d, least)

\* Until the flood is reported, the PLC is not locked.
Unreported(before, d, least, most) ==
  /\ phase <= Flood /\ alarms = {} /\ ~writeLocked
  /\ OnTime(Flood, FALSE)
  /\ FloodInv(before, d, least, most)

Reported == \E p \in alarms : p >= Flood

LEMMA StepUnreported ==
  ASSUME RingInv, RingInv', [Next]_vars, WriteHeavyIsHigh', CalmBeforeFlood',
         Flood \in Nat, Flood <= Len(Script),
         KeepsUp(Flood, FALSE), NeverEngages(Flood),
         NEW d \in Nat \ {0}, NEW least \in Nat, NEW most \in Nat,
         NEW late \in Nat, NEW scored \in Nat, NEW before \in [1..Flood -> Nat],
         DenseFlood(d, least, most, late, scored), WarmsUp(before, d, least),
         Unreported(before, d, least, most)
  PROVE  Unreported(before, d, least, most)' \/ Reported'
<1>u. /\ phase <= Flood /\ alarms = {} /\ ~writeLocked
      /\ OnTime(Flood, FALSE) /\ FloodInv(before, d, least, most)
      /\ phase \in Nat
  BY DEF Unreported, RingInv, Inv, Loop
<1>1. CASE alarms' # {}
  <2>1. phase \in alarms' /\ phase' = phase
    BY <1>u, <1>1, NewAlarms
  <2>2. ~(phase < Flood)
    BY <1>1, <2>1 DEF CalmBeforeFlood
  <2> QED  BY <1>u, <2>1, <2>2 DEF Reported
<1>2. CASE alarms' = {}
  <2>1. OnTime(Flood, FALSE)'
    <3>1. FALSE \in BOOLEAN /\ (FALSE \/ ~writeLocked)
      BY <1>u
    <3> QED  BY <1>u, <3>1, StepOnTime
  <2>2. FloodInv(before, d, least, most)'
    BY <1>u, StepFloodInv
  <2>3. ~writeLocked'
    BY <1>u, StaysUnlocked
  <2>4. phase' <= Flood
    <3>1. CASE NextPhase /\ phase = Flood
      <4>1. Flood \in alarms
        BY <1>u, <3>1, FloodEnds
      <4> QED  BY <1>u, <4>1
    <3>2. CASE NextPhase /\ phase # Flood
      <4>1. phase' = phase + 1
        BY <3>2 DEF NextPhase
      <4> QED  BY <1>u, <3>2, <4>1
    <3>3. CASE ~NextPhase
      <4>1. phase' = phase
        BY <3>3, StepCases DEF Request, SkipPacket, BufferRecord,
           EvaluateWindow, Kept, NextRecord, watched, traffic
      <4> QED  BY <1>u, <4>1
    <3> QED  BY <3>1, <3>2, <3>3
  <2> QED  BY <1>2, <2>1, <2>2, <2>3, <2>4 DEF Unreported
<1> QED  BY <1>1, <1>2

\* exec_demo.sh:56 and :59 hold of every such script: whatever the jitter of the
\* delays and the pauses at the prompts, PRISM has reported High since the flood
\* began (window_manager.cpp:37, hst.cpp:14-18, risk_model.cpp:31), when it was
\* silent before (exec_demo.sh:40): a signal sent earlier would make the PLC refuse
\* the flood, which then leaves half of its records.
THEOREM FloodIsDetected ==
  DetectableFlood =>
    (Spec /\ []WindowsInTable /\ []CalmBeforeFlood => []FloodDetected)
<1> SUFFICES ASSUME KeepsUp(Flood, FALSE), NeverEngages(Flood),
                    NEW d \in Nat \ {0},
                    NEW least \in Nat, NEW most \in Nat, NEW late \in Nat,
                    NEW scored \in Nat, NEW before \in [1..Flood -> Nat],
                    DenseFlood(d, least, most, late, scored),
                    WarmsUp(before, d, least)
             PROVE  Spec /\ []WindowsInTable /\ []CalmBeforeFlood
                      => []FloodDetected
  BY DEF DetectableFlood
<1>f. Flood \in Nat /\ Flood <= Len(Script) /\ Flood # 0 /\ before[1] = 0
      /\ Len(Script) \in Nat
  BY ScriptAssumption DEF DenseFlood, WarmsUp
<1>1. Init => Unreported(before, d, least, most)
  <2> SUFFICES ASSUME Init PROVE Unreported(before, d, least, most)
    OBVIOUS
  <2>1. OnTime(Flood, FALSE) /\ FloodInv(before, d, least, most)
    BY <1>f, InitOnTime, InitFloodInv
  <2>2. phase <= Flood /\ alarms = {} /\ ~writeLocked
    BY <1>f DEF Init
  <2> QED  BY <2>1, <2>2 DEF Unreported
<1>2. /\ RingInv /\ RingInv' /\ WriteHeavyIsHigh' /\ CalmBeforeFlood'
      /\ [Next]_vars /\ (Unreported(before, d, least, most) \/ Reported)
      => Unreported(before, d, least, most)' \/ Reported'
  <2> SUFFICES ASSUME RingInv, RingInv', WriteHeavyIsHigh', CalmBeforeFlood',
                      [Next]_vars,
                      Unreported(before, d, least, most) \/ Reported
               PROVE  Unreported(before, d, least, most)' \/ Reported'
    OBVIOUS
  <2>1. CASE Unreported(before, d, least, most)
    BY <1>f, <2>1, StepUnreported
  <2>2. CASE Reported
    <3>1. alarms \subseteq alarms'
      BY StepAlarms
    <3> QED  BY <2>2, <3>1 DEF Reported
  <2> QED  BY <2>1, <2>2
<1>3. RingInv /\ (Unreported(before, d, least, most) \/ Reported)
      => FloodDetected
  <2> SUFFICES ASSUME RingInv, Unreported(before, d, least, most) \/ Reported,
                      Done
               PROVE  \E p \in alarms : p >= Flood
    BY DEF FloodDetected
  <2>1. ~(phase <= Flood)
    BY <1>f DEF Done, RingInv, Inv, Loop
  <2> QED  BY <2>1 DEF Unreported, Reported
<1> QED  BY <1>1, <1>2, <1>3, RingInvariance, WritesEscalate, PTL DEF Spec

\* Of a script that fits the table, without a hypothesis on the windows.
THEOREM FloodOfSpacedScripts ==
  DetectableFlood /\ (\E d \in Nat \ {0} : FitsTable(d)) =>
    (Spec /\ []CalmBeforeFlood => []FloodDetected)
BY WindowsFit, FloodIsDetected, PTL
=============================================================================
