---------------------------- MODULE NumberTheorems ----------------------------
(***************************************************************************)
(* What the proofs need of numbers: products and quotients rounded down,   *)
(* and what SumOf computes, for every function with a finite domain.       *)
(* SumOf is defined by recursion, so each fact about it is shown by the    *)
(* least number of elements it would fail at.                              *)
(***************************************************************************)
EXTENDS Sums, FiniteSets, TLAPS, FiniteSetTheorems,
        WellFoundedInduction

-------------------------------------------------------------------------------
(* Products and quotients *)

\* A product grows with its factors.
LEMMA Product ==
    ASSUME NEW k \in Nat, NEW a \in Int, NEW b \in Int, a =< b
    PROVE  k * a \in Int /\ k * b \in Int /\ k * a =< k * b
<1>1. PICK c \in Nat : b = a + c
  <2>1. b - a \in Nat /\ b = a + (b - a)
    OBVIOUS
  <2> QED
    BY <2>1
<1>2. k * c \in Nat /\ k * a \in Int /\ k * (a + c) = k * a + k * c
  OBVIOUS
<1> QED
  BY <1>1, <1>2

\* Rounding down.
LEMMA Rounded ==
    ASSUME NEW a \in Int, NEW d \in Nat \ {0}
    PROVE  /\ a \div d \in Int /\ d * (a \div d) \in Int
           /\ d * (a \div d) =< a /\ a < d * (a \div d) + d
  OBVIOUS

\* The quotient is between two numbers if the dividend is between their multiples.
LEMMA QuotientAtLeast ==
    ASSUME NEW a \in Int, NEW d \in Nat \ {0}, NEW q \in Int, d * q =< a
    PROVE  q =< a \div d
<1> DEFINE x == a \div d
<1>1. x \in Int /\ d * x \in Int /\ a < d * x + d
  BY Rounded
<1> HIDE DEF x
<1>2. d * (x + 1) = d * x + d
  BY <1>1
<1>3. CASE x + 1 =< q
  <2>1. d * (x + 1) =< d * q /\ d * q \in Int
    BY <1>1, <1>3, Product
  <2> QED
    BY <1>1, <1>2, <2>1
<1> QED
  BY <1>1, <1>3 DEF x

LEMMA QuotientAtMost ==
    ASSUME NEW a \in Int, NEW d \in Nat \ {0}, NEW q \in Int, a =< d * q
    PROVE  a \div d =< q
<1> DEFINE x == a \div d
<1>1. x \in Int /\ d * x \in Int /\ d * x =< a
  BY Rounded
<1> HIDE DEF x
<1>2. CASE q + 1 =< x
  <2>1. d * (q + 1) =< d * x /\ d * q \in Int /\ d * (q + 1) = d * q + d
    BY <1>1, <1>2, Product
  <2> QED
    BY <1>1, <2>1
<1> QED
  BY <1>1, <1>2 DEF x

\* A factor common to both sides of an inequality cancels.
LEMMA Cancelled ==
    ASSUME NEW k \in Nat \ {0}, NEW a \in Int, NEW b \in Int, k * a =< k * b
    PROVE  a =< b
<1>1. CASE b + 1 =< a
  <2>1. k * (b + 1) =< k * a /\ k * (b + 1) \in Int
    BY <1>1, Product
  <2>2. k * (b + 1) = k * b + k /\ k * b \in Int /\ k * a \in Int
    OBVIOUS
  <2> QED
    BY <2>1, <2>2
<1> QED
  BY <1>1

\* The larger the dividend, the larger the quotient.
LEMMA Divided ==
    ASSUME NEW a \in Int, NEW b \in Int, NEW d \in Nat \ {0}, a =< b
    PROVE  a \div d \in Int /\ b \div d \in Int /\ a \div d =< b \div d
<1>1. PICK q \in Int : q = a \div d /\ d * q =< a
  BY Rounded
<1>2. d * q \in Int /\ d * q =< b
  BY <1>1
<1>3. q =< b \div d
  BY <1>1, <1>2, QuotientAtLeast
<1> QED
  BY <1>1, <1>3, Rounded

\* What two quotients lose together.
LEMMA QuotientOfSum ==
    ASSUME NEW a \in Int, NEW b \in Int, NEW d \in Nat \ {0}
    PROVE  /\ a \div d \in Int /\ b \div d \in Int /\ (a + b) \div d \in Int
           /\ a \div d + b \div d =< (a + b) \div d
           /\ (a + b) \div d =< a \div d + b \div d + 1
<1>1. PICK x \in Int : x = a \div d /\ d * x =< a /\ a < d * x + d
  BY Rounded
<1>2. PICK y \in Int : y = b \div d /\ d * y =< b /\ b < d * y + d
  BY Rounded
<1>3. a + b \in Int
  OBVIOUS
<1>4. PICK z \in Int : z = (a + b) \div d /\ d * z =< a + b
  BY <1>3, Rounded
<1>5. /\ d * (x + y) = d * x + d * y /\ d * (x + y + 2) = d * x + d * y + d + d
      /\ d * x \in Int /\ d * y \in Int /\ d * z \in Int
  OBVIOUS
<1>6. x + y =< z
  BY <1>1, <1>2, <1>3, <1>4, <1>5, QuotientAtLeast
<1>7. CASE x + y + 2 =< z
  <2>1. d * (x + y + 2) =< d * z
    BY <1>7, Product
  <2> QED
    BY <1>1, <1>2, <1>4, <1>5, <2>1
<1> QED
  BY <1>1, <1>2, <1>4, <1>6, <1>7

\* A multiple of the divisor comes through.
LEMMA QuotientOfMultiple ==
    ASSUME NEW a \in Int, NEW n \in Int, NEW d \in Nat \ {0}
    PROVE  a \div d \in Int /\ (a + d * n) \div d = a \div d + n
<1>1. PICK x \in Int : x = a \div d /\ d * x =< a /\ a < d * x + d
  BY Rounded
<1>2. /\ d * n \in Int /\ d * (x + n) = d * x + d * n /\ d * x \in Int
      /\ d * (x + n + 1) = d * x + d * n + d
  OBVIOUS
<1>3. PICK b \in Int : b = a + d * n
  BY <1>2
<1>4. PICK y \in Int : y = b \div d /\ d * y =< b
  BY Rounded
<1>5. x + n =< y
  BY <1>1, <1>2, <1>3, <1>4, QuotientAtLeast
<1>6. CASE x + n + 1 =< y
  <2>1. d * (x + n + 1) =< d * y /\ d * y \in Int
    BY <1>6, Product
  <2> QED
    BY <1>1, <1>2, <1>3, <1>4, <2>1
<1> QED
  BY <1>1, <1>3, <1>4, <1>5, <1>6

-------------------------------------------------------------------------------
(* Least counterexamples *)

LEMMA LeastNatural ==
    ASSUME NEW T, T \subseteq Nat, T # {}
    PROVE  \E n \in T : \A m \in T : n <= m
  <1>1. IsWellFoundedOn(OpToRel(<, Nat), Nat)
    BY NatLessThanWellFounded
  <1>2. PICK n \in T : \A m \in T : ~(<<m, n>> \in OpToRel(<, Nat))
    BY <1>1, WFMin
  <1>3. \A m, k \in Nat : m < k => <<m, k>> \in OpToRel(<, Nat)
    BY DEF OpToRel
  <1>4. \A m \in T : ~(m < n)
    BY <1>2, <1>3, Zenon
  <1>q. QED
    BY <1>4

\* A set of subsets of a finite set is empty when it holds a smaller one for each.
LEMMA NoSmallest ==
    ASSUME NEW S, IsFiniteSet(S), NEW Bad, Bad \subseteq SUBSET S,
           \A T \in Bad : \E R \in Bad : R \subseteq T /\ R # T
    PROVE  Bad = {}
  <1>1. SUFFICES ASSUME Bad # {} PROVE FALSE
    OBVIOUS
  <1>2. \A T \in Bad : IsFiniteSet(T) /\ Cardinality(T) \in Nat
    BY FS_Subset, FS_CardinalityType
  <1> DEFINE Sizes == {Cardinality(T) : T \in Bad}
  <1>3. Sizes \subseteq Nat /\ Sizes # {}
    BY <1>1, <1>2
  <1>4. PICK n \in Sizes : \A m \in Sizes : n <= m
    BY <1>3, LeastNatural
  <1>5. PICK T \in Bad : Cardinality(T) = n
    BY <1>4
  <1>6. PICK R \in Bad : R \subseteq T /\ R # T
    BY <1>5
  <1>7. Cardinality(R) < Cardinality(T)
    <2>1. R \in SUBSET T /\ IsFiniteSet(T)
      BY <1>2, <1>6
    <2>2. Cardinality(R) <= Cardinality(T) /\ (Cardinality(T) = Cardinality(R) => T = R)
      BY <2>1, FS_Subset
    <2>q. QED
      BY <1>2, <1>6, <2>2
  <1>8. Cardinality(R) \in Sizes
    OBVIOUS
  <1> HIDE DEF Sizes
  <1>q. QED
    BY <1>2, <1>4, <1>5, <1>7, <1>8

Picked(s) == CHOOSE x \in s : TRUE

\* it adds up f over the subsets of S.
Adds(it, f, S) ==
    it = [s \in SUBSET S |-> IF s = {} THEN 0 ELSE f[Picked(s)] + it[s \ {Picked(s)}]]

LEMMA AddsStep ==
    ASSUME NEW S, NEW f, NEW it, Adds(it, f, S), NEW s \in SUBSET S
    PROVE  /\ it[s] = IF s = {} THEN 0 ELSE f[Picked(s)] + it[s \ {Picked(s)}]
           /\ s # {} => Picked(s) \in s
  <1>1. it[s] = IF s = {} THEN 0 ELSE f[Picked(s)] + it[s \ {Picked(s)}]
    BY Zenon DEF Adds
  <1>2. s # {} => Picked(s) \in s
    BY DEF Picked
  <1>q. QED
    BY <1>1, <1>2

\* The same up to a size: what there is for size n - 1 extends to size n.
AddsUpTo(n, it, f, S) ==
    it = [s \in {t \in SUBSET S : Cardinality(t) <= n} |->
             IF s = {} THEN 0 ELSE f[Picked(s)] + it[s \ {Picked(s)}]]

LEMMA AddsExtends ==
    ASSUME NEW S, IsFiniteSet(S), NEW f, NEW n \in Nat, n # 0,
           NEW it, AddsUpTo(n - 1, it, f, S)
    PROVE  \E jt : AddsUpTo(n, jt, f, S)
  <1> DEFINE Small == {t \in SUBSET S : Cardinality(t) <= n - 1}
             Upto == {t \in SUBSET S : Cardinality(t) <= n}
             jt == [s \in Upto |-> IF s \in Small THEN it[s]
                                   ELSE f[Picked(s)] + it[s \ {Picked(s)}]]
  <1>1. ASSUME NEW s \in Upto, s # {}
        PROVE  s \ {Picked(s)} \in Small
    <2>1. Picked(s) \in s
      BY <1>1 DEF Picked
    <2>2. IsFiniteSet(s) /\ Cardinality(s) \in Nat
      BY FS_Subset, FS_CardinalityType
    <2>3. Cardinality(s \ {Picked(s)}) = Cardinality(s) - 1
      BY <2>1, <2>2, FS_RemoveElement
    <2>q. QED
      BY <2>2, <2>3
  <1>2. {} \in Small /\ \A s \in Small : s \in Upto
    <2>1. \A s \in SUBSET S : Cardinality(s) \in Nat
      BY FS_Subset, FS_CardinalityType
    <2>2. Cardinality({}) = 0
      BY FS_EmptySet
    <2>q. QED
      BY <2>1, <2>2
  <1>3. /\ jt = [s \in Upto |-> jt[s]]
        /\ \A s \in Small : jt[s] = it[s]
        /\ \A s \in Upto : s \notin Small => jt[s] = f[Picked(s)] + it[s \ {Picked(s)}]
    BY <1>2
  <1> HIDE DEF jt
  <1>4. ASSUME NEW s \in Small
        PROVE  it[s] = IF s = {} THEN 0 ELSE f[Picked(s)] + it[s \ {Picked(s)}]
    BY Zenon DEF AddsUpTo
  <1>5. ASSUME NEW s \in Upto
        PROVE  jt[s] = IF s = {} THEN 0 ELSE f[Picked(s)] + jt[s \ {Picked(s)}]
    <2>1. s # {} => jt[s \ {Picked(s)}] = it[s \ {Picked(s)}]
      BY <1>1, <1>3
    <2>2. CASE s \in Small
      BY <1>3, <1>4, <2>1, <2>2
    <2>3. CASE s \notin Small
      BY <1>2, <1>3, <2>1, <2>3
    <2>q. QED
      BY <2>2, <2>3
  <1>6. jt = [s \in Upto |-> IF s = {} THEN 0 ELSE f[Picked(s)] + jt[s \ {Picked(s)}]]
    BY <1>3, <1>5
  <1>q. QED
    BY <1>6 DEF AddsUpTo

LEMMA AddsExists ==
    ASSUME NEW S, IsFiniteSet(S), NEW f
    PROVE  \E it : Adds(it, f, S)
  <1> DEFINE Missing == {n \in Nat : ~\E it : AddsUpTo(n, it, f, S)}
  <1>1. 0 \notin Missing
    <2>1. \A t \in SUBSET S : Cardinality(t) <= 0 <=> t = {}
      BY FS_Subset, FS_CardinalityType, FS_EmptySet
    <2>2. {t \in SUBSET S : Cardinality(t) <= 0} = {{}}
      BY <2>1
    <2>3. AddsUpTo(0, [s \in {{}} |-> 0], f, S)
      BY <2>2 DEF AddsUpTo
    <2>q. QED
      BY <2>3
  <1>2. Missing = {}
    <2>1. SUFFICES ASSUME Missing # {} PROVE FALSE
      OBVIOUS
    <2>2. Missing \subseteq Nat
      OBVIOUS
    <2>3. PICK n \in Missing : \A m \in Missing : n <= m
      BY <2>1, <2>2, LeastNatural
    <2>4. n \in Nat /\ n # 0 /\ n - 1 \in Nat /\ n - 1 \notin Missing
      BY <1>1, <2>3
    <2>5. PICK it : AddsUpTo(n - 1, it, f, S)
      BY <2>4
    <2>q. QED
      BY <2>3, <2>4, <2>5, AddsExtends
  <1>3. Cardinality(S) \in Nat /\ \A t \in SUBSET S : Cardinality(t) <= Cardinality(S)
    BY FS_CardinalityType, FS_Subset
  <1>4. PICK it : AddsUpTo(Cardinality(S), it, f, S)
    BY <1>2, <1>3
  <1>5. {t \in SUBSET S : Cardinality(t) <= Cardinality(S)} = SUBSET S
    BY <1>3
  <1>q. QED
    BY <1>4, <1>5 DEF AddsUpTo, Adds

LEMMA SumAdds ==
    ASSUME NEW S, IsFiniteSet(S), NEW f, DOMAIN f = S
    PROVE  \E it : Adds(it, f, S) /\ SumOf(f) = it[S]
  <1> DEFINE it == CHOOSE it : Adds(it, f, DOMAIN f)
  <1>1. Adds(it, f, DOMAIN f)
    BY AddsExists, Zenon
  <1>2. SumOf(f) = it[DOMAIN f]
    BY Zenon DEF SumOf, MapThenFoldSet, Adds, Picked
  <1>q. QED
    BY <1>1, <1>2

LEMMA AddsInt ==
    ASSUME NEW S, IsFiniteSet(S), NEW f \in [S -> Int], NEW it, Adds(it, f, S),
           NEW T \in SUBSET S
    PROVE  it[T] \in Int
  <1>0. \A R \in SUBSET S :
           /\ it[R] = IF R = {} THEN 0 ELSE f[Picked(R)] + it[R \ {Picked(R)}]
           /\ R # {} => Picked(R) \in R
    BY AddsStep
  <1> DEFINE Bad == {R \in SUBSET S : it[R] \notin Int}
  <1>1. ASSUME NEW R \in Bad PROVE \E Q \in Bad : Q \subseteq R /\ Q # R
    <2>1. R # {}
      <3>1. it[{}] = 0
        BY <1>0
      <3>q. QED
        BY <3>1
    <2>2. Picked(R) \in R /\ it[R] = f[Picked(R)] + it[R \ {Picked(R)}]
      BY <1>0, <2>1
    <2>3. R \ {Picked(R)} \in Bad
      BY <2>2
    <2>q. QED
      BY <2>2, <2>3
  <1>2. Bad \subseteq SUBSET S
    OBVIOUS
  <1>3. Bad = {}
    <2> HIDE DEF Bad
    <2>q. QED
      BY <1>1, <1>2, NoSmallest
  <1>q. QED
    BY <1>3

\* Any element may be taken out, not only the one picked.
LEMMA AddsPoint ==
    ASSUME NEW S, IsFiniteSet(S), NEW f \in [S -> Int], NEW it, Adds(it, f, S),
           NEW T \in SUBSET S, NEW x \in T
    PROVE  it[T] = f[x] + it[T \ {x}]
  <1>0. \A R \in SUBSET S :
           /\ it[R] = IF R = {} THEN 0 ELSE f[Picked(R)] + it[R \ {Picked(R)}]
           /\ R # {} => Picked(R) \in R
    BY AddsStep
  <1> DEFINE Bad == {R \in SUBSET S : \E y \in R : it[R] # f[y] + it[R \ {y}]}
  <1>1. ASSUME NEW R \in Bad PROVE \E Q \in Bad : Q \subseteq R /\ Q # R
    <2>0. SUFFICES ASSUME \A Q \in SUBSET R : Q # R => Q \notin Bad PROVE FALSE
      OBVIOUS
    <2>1. PICK y \in R : it[R] # f[y] + it[R \ {y}]
      BY <1>1
    <2>2. PICK c : c = Picked(R)
      OBVIOUS
    <2>3. c \in R /\ it[R] = f[c] + it[R \ {c}]
      BY <1>0, <2>1, <2>2
    <2>4. c # y
      BY <2>1, <2>3
    <2>5. it[R \ {c}] = f[y] + it[(R \ {c}) \ {y}]
      BY <2>0, <2>3, <2>4, R \ {c} \notin Bad
    <2>6. it[R \ {y}] = f[c] + it[(R \ {y}) \ {c}]
      BY <2>0, <2>3, <2>4, R \ {y} \notin Bad
    <2>7. (R \ {y}) \ {c} = (R \ {c}) \ {y}
      OBVIOUS
    <2>8. it[(R \ {c}) \ {y}] \in Int /\ f[c] \in Int /\ f[y] \in Int
      BY <2>3, AddsInt
    <2>9. it[(R \ {y}) \ {c}] = it[(R \ {c}) \ {y}]
      BY <2>7
    <2>q. QED
      BY <2>1, <2>3, <2>5, <2>6, <2>8, <2>9
  <1>2. Bad \subseteq SUBSET S
    OBVIOUS
  <1>3. Bad = {}
    <2> HIDE DEF Bad
    <2>q. QED
      BY <1>1, <1>2, NoSmallest
  <1>q. QED
    BY <1>3

LEMMA AddsWhole ==
    ASSUME NEW S, IsFiniteSet(S), NEW f \in [S -> Int], NEW it, Adds(it, f, S), NEW x \in S
    PROVE  it[S] = f[x] + it[S \ {x}]
  BY AddsPoint, S \in SUBSET S

\* What is added up depends only on the values.
LEMMA AddsAgree ==
    ASSUME NEW S, IsFiniteSet(S), NEW f, NEW it, Adds(it, f, S),
           NEW R, NEW g, NEW jt, Adds(jt, g, R),
           NEW T \in SUBSET S, T \subseteq R, \A x \in T : f[x] = g[x]
    PROVE  it[T] = jt[T]
  <1>0. \A P \in SUBSET S :
           /\ it[P] = IF P = {} THEN 0 ELSE f[Picked(P)] + it[P \ {Picked(P)}]
           /\ P # {} => Picked(P) \in P
    BY AddsStep
  <1>4. \A P \in SUBSET R :
           /\ jt[P] = IF P = {} THEN 0 ELSE g[Picked(P)] + jt[P \ {Picked(P)}]
           /\ P # {} => Picked(P) \in P
    BY AddsStep
  <1> DEFINE Bad == {Q \in SUBSET T : it[Q] # jt[Q]}
  <1>1. ASSUME NEW Q \in Bad PROVE \E P \in Bad : P \subseteq Q /\ P # Q
    <2>1. Q \in SUBSET S /\ Q \in SUBSET R
      OBVIOUS
    <2>2. Q # {}
      BY <1>0, <1>4, <2>1
    <2>3. /\ Picked(Q) \in Q /\ it[Q] = f[Picked(Q)] + it[Q \ {Picked(Q)}]
          /\ jt[Q] = g[Picked(Q)] + jt[Q \ {Picked(Q)}]
      BY <1>0, <1>4, <2>1, <2>2
    <2>4. Q \ {Picked(Q)} \in Bad
      BY <2>3
    <2>q. QED
      BY <2>3, <2>4
  <1>2. IsFiniteSet(T) /\ Bad \subseteq SUBSET T
    <2>1. IsFiniteSet(T)
      BY FS_Subset
    <2>2. Bad \subseteq SUBSET T
      OBVIOUS
    <2>q. QED
      BY <2>1, <2>2
  <1>3. Bad = {}
    <2> HIDE DEF Bad
    <2>q. QED
      BY <1>1, <1>2, NoSmallest
  <1>q. QED
    BY <1>3

-------------------------------------------------------------------------------

\* The sum of integers is an integer, and without values it is zero.
THEOREM SumInt ==
    ASSUME NEW S, IsFiniteSet(S), NEW f \in [S -> Int]
    PROVE  SumOf(f) \in Int /\ (S = {} => SumOf(f) = 0)
  <1>1. PICK it : Adds(it, f, S) /\ SumOf(f) = it[S]
    BY SumAdds
  <1>q. QED
    BY <1>1, AddsInt, AddsStep

\* When one value changes, the sum changes by as much.
LEMMA SumChange ==
    ASSUME NEW S, IsFiniteSet(S), NEW f \in [S -> Int], NEW g \in [S -> Int], NEW x \in S,
           \A y \in S : y # x => g[y] = f[y]
    PROVE  SumOf(g) = SumOf(f) - f[x] + g[x]
  <1>1. PICK it : Adds(it, f, S) /\ SumOf(f) = it[S]
    BY SumAdds
  <1>2. PICK jt : Adds(jt, g, S) /\ SumOf(g) = jt[S]
    BY SumAdds
  <1>6. it[S] = f[x] + it[S \ {x}]
    BY <1>1, AddsWhole
  <1>3. it[S] = f[x] + it[S \ {x}] /\ jt[S] = g[x] + jt[S \ {x}]
    <2>1. jt[S] = g[x] + jt[S \ {x}]
      BY <1>2, AddsPoint
    <2>q. QED
      BY <1>6, <2>1
  <1>4. it[S \ {x}] = jt[S \ {x}]
    BY <1>1, <1>2, AddsAgree
  <1>5. it[S \ {x}] \in Int
    BY <1>1, AddsInt
  <1>q. QED
    BY <1>1, <1>2, <1>3, <1>4, <1>5

\* A value more.
THEOREM SumExtend ==
    ASSUME NEW S, IsFiniteSet(S), NEW x, x \notin S, NEW f \in [S -> Int],
           NEW g \in [S \cup {x} -> Int], \A y \in S : g[y] = f[y]
    PROVE  SumOf(g) = SumOf(f) + g[x]
  <1>1. PICK it : Adds(it, f, S) /\ SumOf(f) = it[S]
    BY SumAdds
  <1>0. IsFiniteSet(S \cup {x})
    BY FS_AddElement
  <1>2. PICK jt : Adds(jt, g, S \cup {x}) /\ SumOf(g) = jt[S \cup {x}]
    BY <1>0, SumAdds
  <1>3. jt[S \cup {x}] = g[x] + jt[(S \cup {x}) \ {x}]
    BY <1>0, <1>2, AddsPoint
  <1>4. (S \cup {x}) \ {x} = S
    OBVIOUS
  <1>5. it[S] = jt[S]
    BY <1>1, <1>2, AddsAgree
  <1>6. it[S] \in Int
    BY <1>1, AddsInt
  <1>7. g[x] \in Int /\ SumOf(f) = it[S] /\ SumOf(g) = g[x] + it[S]
    BY <1>1, <1>2, <1>3, <1>4, <1>5
  <1>q. QED
    BY <1>6, <1>7

\* The sum of naturals is one.
THEOREM SumNat ==
    ASSUME NEW S, IsFiniteSet(S), NEW f \in [S -> Nat]
    PROVE  SumOf(f) \in Nat
  <1>1. PICK it : Adds(it, f, S) /\ SumOf(f) = it[S]
    BY SumAdds
  <1>4. \A R \in SUBSET S :
           /\ it[R] = IF R = {} THEN 0 ELSE f[Picked(R)] + it[R \ {Picked(R)}]
           /\ R # {} => Picked(R) \in R
    BY <1>1, AddsStep
  <1> DEFINE Bad == {R \in SUBSET S : it[R] \notin Nat}
  <1>2. ASSUME NEW R \in Bad PROVE \E Q \in Bad : Q \subseteq R /\ Q # R
    <2>1. R # {}
      <3>1. it[{}] = 0
        BY <1>4
      <3>q. QED
        BY <3>1
    <2>2. Picked(R) \in R /\ it[R] = f[Picked(R)] + it[R \ {Picked(R)}]
      BY <1>4, <2>1
    <2>3. R \ {Picked(R)} \in Bad
      BY <2>2
    <2>q. QED
      BY <2>2, <2>3
  <1>5. Bad \subseteq SUBSET S
    OBVIOUS
  <1>3. Bad = {}
    <2> HIDE DEF Bad
    <2>q. QED
      BY <1>2, <1>5, NoSmallest
  <1>q. QED
    BY <1>1, <1>3

\* None of the naturals summed is more than their sum.
THEOREM SumAtLeast ==
    ASSUME NEW S, IsFiniteSet(S), NEW f \in [S -> Nat], NEW x \in S
    PROVE  f[x] <= SumOf(f)
<1> DEFINE g == [f EXCEPT ![x] = 0]
<1>1. /\ g \in [S -> Nat] /\ g[x] = 0 /\ \A y \in S : y # x => g[y] = f[y]
      /\ f \in [S -> Int] /\ g \in [S -> Int]
  OBVIOUS
<1> HIDE DEF g
<1>2. SumOf(g) = SumOf(f) - f[x] + g[x]
  BY <1>1, SumChange
<1>3. SumOf(f) \in Nat /\ SumOf(g) \in Nat /\ f[x] \in Nat
  BY <1>1, SumNat
<1> QED
  BY <1>1, <1>2, <1>3

\* The sum of zeros is zero.
THEOREM SumZero ==
    ASSUME NEW S, IsFiniteSet(S), NEW f \in [S -> Int], \A x \in S : f[x] = 0
    PROVE  SumOf(f) = 0
  <1>1. PICK it : Adds(it, f, S) /\ SumOf(f) = it[S]
    BY SumAdds
  <1>2. \A R \in SUBSET S :
           /\ it[R] = IF R = {} THEN 0 ELSE f[Picked(R)] + it[R \ {Picked(R)}]
           /\ R # {} => Picked(R) \in R
    BY <1>1, AddsStep
  <1> DEFINE Bad == {R \in SUBSET S : it[R] # 0}
  <1>3. ASSUME NEW R \in Bad PROVE \E Q \in Bad : Q \subseteq R /\ Q # R
    <2>1. R # {}
      <3>1. it[{}] = 0
        BY <1>2
      <3>q. QED
        BY <3>1
    <2>2. Picked(R) \in R /\ it[R] = f[Picked(R)] + it[R \ {Picked(R)}]
      BY <1>2, <2>1
    <2>3. R \ {Picked(R)} \in Bad
      BY <2>2
    <2>q. QED
      BY <2>2, <2>3
  <1>4. Bad \subseteq SUBSET S
    OBVIOUS
  <1>5. Bad = {}
    <2> HIDE DEF Bad
    <2>q. QED
      BY <1>3, <1>4, NoSmallest
  <1>q. QED
    BY <1>1, <1>5

\* What one value gives up and another gains leaves the sum alone.
THEOREM SumMove ==
    ASSUME NEW S, IsFiniteSet(S), NEW f \in [S -> Int], NEW g \in [S -> Int],
           NEW x \in S, NEW y \in S, x # y, NEW n \in Int,
           g[x] = f[x] - n, g[y] = f[y] + n,
           \A z \in S : z # x /\ z # y => g[z] = f[z]
    PROVE  SumOf(g) = SumOf(f)
<1> DEFINE h == [f EXCEPT ![x] = g[x]]
<1>1. h \in [S -> Int] /\ h[x] = g[x] /\ \A z \in S : z # x => h[z] = f[z]
  OBVIOUS
<1>2. \A z \in S : z # y => g[z] = h[z]
  BY <1>1
<1> HIDE DEF h
<1>3. SumOf(h) = SumOf(f) - f[x] + h[x]
  BY <1>1, SumChange
<1>4. SumOf(g) = SumOf(h) - h[y] + g[y]
  BY <1>1, <1>2, SumChange
<1>5. SumOf(f) \in Int /\ f[x] \in Int /\ f[y] \in Int
  BY SumInt
<1> QED
  BY <1>1, <1>3, <1>4, <1>5
===============================================================================
