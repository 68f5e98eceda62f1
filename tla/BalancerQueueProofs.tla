------------------------- MODULE BalancerQueueProofs -------------------------
(***************************************************************************)
(* Proofs about BalancerQueue, for every set of stabilizers, length of the *)
(* queue and amounts: no amount outlives its order, however stabilizers    *)
(* are queued again, removed and reset; nobody gets two orders from an     *)
(* execution; and what it calls of a stabilizer is paid or still called    *)
(* when it is over.  execute folds ExecuteOne over the queue; the fold is  *)
(* defined by recursion, so each fact about it is shown by the smallest    *)
(* set of turns it would fail for.                                         *)
(***************************************************************************)
EXTENDS BalancerQueue, StabilizerProofs

\* For every set of turns of the queue q, the states these leave: it[T].
Turns(it, base, q, intention, slippage) ==
    it = [T \in SUBSET DOMAIN q |->
             IF T = {} THEN base
             ELSE ExecuteOne(it[T \ {Max(T)}], q[Max(T)], intention, slippage)]

\* The same up to a number of turns.
TurnsUpTo(n, it, base, q, intention, slippage) ==
    it = [T \in {U \in SUBSET DOMAIN q : Cardinality(U) <= n} |->
             IF T = {} THEN base
             ELSE ExecuteOne(it[T \ {Max(T)}], q[Max(T)], intention, slippage)]

\* The last turn of a set of turns is one of them.
LEMMA LastTurn ==
    ASSUME NEW q, DOMAIN q \subseteq Nat, IsFiniteSet(DOMAIN q),
           NEW T \in SUBSET DOMAIN q, T # {}
    PROVE  Max(T) \in T
<1>1. PICK n \in T : \A m \in T : n >= m
  <2> SUFFICES ASSUME \A n \in T : \E m \in T : ~(n >= m) PROVE FALSE
    OBVIOUS
  <2> DEFINE Tops == {{m \in T : m > n} : n \in T}
  <2>1. Tops \subseteq SUBSET T
    OBVIOUS
  <2>2. \A U \in Tops : \E V \in Tops : V \subseteq U /\ V # U
    <3> SUFFICES ASSUME NEW n \in T
                 PROVE  \E V \in Tops : V \subseteq {m \in T : m > n} /\ V # {m \in T : m > n}
      OBVIOUS
    <3>1. PICK k \in T : ~(n >= k)
      OBVIOUS
    <3>2. k > n /\ n \in Nat /\ k \in Nat
      BY <3>1
    <3>3. {m \in T : m > k} \subseteq {m \in T : m > n} /\ k \in {m \in T : m > n}
          /\ k \notin {m \in T : m > k}
      BY <3>2
    <3> QED
      BY <3>3
  <2>3. IsFiniteSet(T)
    BY FS_Subset
  <2>4. Tops = {}
    <3> HIDE DEF Tops
    <3> QED
      BY <2>1, <2>2, <2>3, NoSmallest
  <2> QED
    BY <2>4
<1> QED
  BY <1>1 DEF Max

LEMMA TurnsExtend ==
    ASSUME NEW q, DOMAIN q \subseteq Nat, IsFiniteSet(DOMAIN q),
           NEW base, NEW intention, NEW slippage, NEW n \in Nat, n # 0,
           NEW it, TurnsUpTo(n - 1, it, base, q, intention, slippage)
    PROVE  \E jt : TurnsUpTo(n, jt, base, q, intention, slippage)
<1> DEFINE Small == {U \in SUBSET DOMAIN q : Cardinality(U) <= n - 1}
           Upto == {U \in SUBSET DOMAIN q : Cardinality(U) <= n}
           Step(f, T) == ExecuteOne(f[T \ {Max(T)}], q[Max(T)], intention, slippage)
           jt == [T \in Upto |-> IF T \in Small THEN it[T] ELSE Step(it, T)]
<1>1. ASSUME NEW T \in Upto, T # {}
      PROVE  T \ {Max(T)} \in Small
  <2>1. Max(T) \in T
    BY <1>1, LastTurn
  <2>2. IsFiniteSet(T) /\ Cardinality(T) \in Nat
    BY FS_Subset, FS_CardinalityType
  <2>3. Cardinality(T \ {Max(T)}) = Cardinality(T) - 1
    BY <2>1, <2>2, FS_RemoveElement
  <2> QED
    BY <2>2, <2>3
<1>2. {} \in Small /\ \A T \in Small : T \in Upto
  <2>1. \A T \in SUBSET DOMAIN q : Cardinality(T) \in Nat
    BY FS_Subset, FS_CardinalityType
  <2>2. Cardinality({}) = 0
    BY FS_EmptySet
  <2> QED
    BY <2>1, <2>2
<1> HIDE DEF Step
<1>3. /\ jt = [T \in Upto |-> jt[T]]
      /\ \A T \in Small : jt[T] = it[T]
      /\ \A T \in Upto : T \notin Small => jt[T] = Step(it, T)
  BY <1>2
<1> HIDE DEF jt
<1>4. ASSUME NEW T \in Small
      PROVE  it[T] = IF T = {} THEN base ELSE Step(it, T)
  BY Zenon DEF TurnsUpTo, Step
<1>5. ASSUME NEW T \in Upto
      PROVE  jt[T] = IF T = {} THEN base ELSE Step(jt, T)
  <2>1. T # {} => jt[T \ {Max(T)}] = it[T \ {Max(T)}]
    BY <1>1, <1>3
  <2>2. T # {} => Step(jt, T) = Step(it, T)
    BY <2>1 DEF Step
  <2>3. CASE T \in Small
    BY <1>3, <1>4, <2>2, <2>3
  <2>4. CASE T \notin Small
    BY <1>2, <1>3, <2>2, <2>4
  <2> QED
    BY <2>3, <2>4
<1>6. jt = [T \in Upto |-> IF T = {} THEN base ELSE Step(jt, T)]
  BY <1>3, <1>5
<1> QED
  BY <1>6 DEF TurnsUpTo, Step

LEMMA TurnsExist ==
    ASSUME NEW q, DOMAIN q \subseteq Nat, IsFiniteSet(DOMAIN q),
           NEW base, NEW intention, NEW slippage
    PROVE  \E it : Turns(it, base, q, intention, slippage)
<1> DEFINE Missing == {n \in Nat : ~\E it : TurnsUpTo(n, it, base, q, intention, slippage)}
<1>1. 0 \notin Missing
  <2>1. \A T \in SUBSET DOMAIN q : Cardinality(T) <= 0 <=> T = {}
    BY FS_Subset, FS_CardinalityType, FS_EmptySet
  <2>2. {T \in SUBSET DOMAIN q : Cardinality(T) <= 0} = {{}}
    BY <2>1
  <2>3. TurnsUpTo(0, [T \in {{}} |-> base], base, q, intention, slippage)
    BY <2>2 DEF TurnsUpTo
  <2> QED
    BY <2>3
<1>2. Missing = {}
  <2> SUFFICES ASSUME Missing # {} PROVE FALSE
    OBVIOUS
  <2>1. Missing \subseteq Nat
    OBVIOUS
  <2>2. PICK n \in Missing : \A m \in Missing : n <= m
    BY <2>1, LeastNatural
  <2>3. n \in Nat /\ n # 0 /\ n - 1 \in Nat /\ n - 1 \notin Missing
    BY <1>1, <2>2
  <2>4. PICK it : TurnsUpTo(n - 1, it, base, q, intention, slippage)
    BY <2>3
  <2> QED
    BY <2>2, <2>3, <2>4, TurnsExtend
<1>3. /\ Cardinality(DOMAIN q) \in Nat
      /\ \A T \in SUBSET DOMAIN q : Cardinality(T) <= Cardinality(DOMAIN q)
  BY FS_CardinalityType, FS_Subset
<1>4. PICK it : TurnsUpTo(Cardinality(DOMAIN q), it, base, q, intention, slippage)
  BY <1>2, <1>3
<1>5. {T \in SUBSET DOMAIN q : Cardinality(T) <= Cardinality(DOMAIN q)} = SUBSET DOMAIN q
  BY <1>3
<1> QED
  BY <1>4, <1>5 DEF TurnsUpTo, Turns

Executed(base, q, intention, slippage) ==
    FoldLeft(LAMBDA states, s : ExecuteOne(states, s, intention, slippage), base, q)

\* What execute computes is what all the turns of the queue leave.
LEMMA ExecutedTurns ==
    ASSUME NEW q, DOMAIN q \subseteq Nat, IsFiniteSet(DOMAIN q),
           NEW base, NEW intention, NEW slippage
    PROVE  \E it : /\ Turns(it, base, q, intention, slippage)
                   /\ Executed(base, q, intention, slippage) = it[DOMAIN q]
<1> DEFINE it == CHOOSE it : Turns(it, base, q, intention, slippage)
<1>1. Turns(it, base, q, intention, slippage)
  BY TurnsExist, Zenon
<1>2. Executed(base, q, intention, slippage) = it[DOMAIN q]
  BY Zenon DEF Executed, FoldLeft, MapThenFoldSet, Turns
<1> QED
  BY <1>1, <1>2

-----------------------------------------------------------------------------
(* One order *)

\* What an order for s leaves: its answer to a call, a good world in any case.
LEMMA OrderKept ==
    ASSUME NEW w, GoodWorld(w), NEW s \in Stabilizers, NEW intention, NEW a \in Nat,
           NEW slippage \in 0 .. Precision, NEW x \in Order(w, s, intention, a, slippage)
    PROVE  GoodWorld(x) /\ (intention # "INVEST" => Answers(w, x, s, a))
<1>1. CASE intention = "INVEST"
  <2>1. x \in AutoInvest(w, s, a, slippage)
    BY <1>1 DEF Order
  <2>2. PICK useAMM \in BOOLEAN : useAMM = TRUE
    OBVIOUS
  <2>3. x \in BorrowAndInvest(w, s, a, slippage, useAMM)
    BY <2>1, <2>2 DEF AutoInvest
  <2> QED
    BY <1>1, <2>3, BorrowAndInvestKept DEF Kept
<1>2. CASE intention # "INVEST"
  <2>1. x \in AutoCall(w, s, a, slippage)
    BY <1>2 DEF Order
  <2> QED
    BY <2>1, AutoCallKept DEF Kept
<1> QED
  BY <1>1, <1>2

\* What the turns T of an execution that began in world w with the amounts a leave: an
\* amount is there or ordered, ordered amounts are gone, and no order touches what
\* another one is about.
After(e, T, q, w, a, intention) ==
    /\ GoodWorld(e.world)
    /\ e.amounts \in [Stabilizers -> Nat] /\ e.issued \in [Stabilizers -> Nat]
    /\ intention # "INVEST" => e.world.now = w.now
    /\ \A s \in Stabilizers :
          /\ \/ e.issued[s] = 0 /\ e.amounts[s] = a[s]
                /\ (intention # "INVEST" => e.world.stab[s] = w.stab[s])
             \/ e.issued[s] = 1 /\ e.amounts[s] = 0
                /\ (intention # "INVEST" /\ w.stab[s].config.callDelay > 0 =>
                       getDebt(w, s) - getDebt(e.world, s) + e.world.stab[s].callAmount =
                           Least(a[s], getDebt(w, s)))
          /\ (\E i \in T : q[i] = s) => e.amounts[s] = 0

LEMMA SameDebt ==
    ASSUME NEW w, NEW x, NEW s, x.now = w.now, x.stab[s] = w.stab[s]
    PROVE  getDebt(x, s) = getDebt(w, s)
  BY DebtSame

LEMMA TurnAfter ==
    ASSUME NEW q, NEW T, NEW w, NEW a \in [Stabilizers -> Nat], NEW intention,
           NEW slippage \in 0 .. Precision, NEW i \in T, q[i] \in Stabilizers,
           NEW states, \A e \in states : After(e, T \ {i}, q, w, a, intention),
           NEW f \in ExecuteOne(states, q[i], intention, slippage)
    PROVE  After(f, T, q, w, a, intention)
<1>1. PICK s \in Stabilizers : s = q[i]
  OBVIOUS
<1>2. PICK e \in states :
        f \in IF e.amounts[s] > 0
              THEN {[world |-> x, amounts |-> [e.amounts EXCEPT ![s] = 0],
                     issued |-> [e.issued EXCEPT ![s] = @ + 1]] :
                       x \in Order(e.world, s, intention, e.amounts[s], slippage)}
              ELSE {e}
  <2>1. f \in ExecuteOne(states, s, intention, slippage)
    BY <1>1
  <2> QED
    BY <2>1, Zenon DEF ExecuteOne
<1>3. After(e, T \ {i}, q, w, a, intention)
  OBVIOUS
<1>4. CASE ~(e.amounts[s] > 0)
  <2>1. f = e
    BY <1>2, <1>4
  <2>2. e.amounts[s] = 0
    BY <1>3, <1>4 DEF After
  <2> QED
    BY <1>1, <1>3, <2>1, <2>2 DEF After
<1>5. CASE e.amounts[s] > 0
  <2>1. PICK x \in Order(e.world, s, intention, e.amounts[s], slippage) :
           f = [world |-> x, amounts |-> [e.amounts EXCEPT ![s] = 0],
                issued |-> [e.issued EXCEPT ![s] = @ + 1]]
    BY <1>2, <1>5
  <2>2. /\ GoodWorld(e.world)
        /\ e.amounts \in [Stabilizers -> Nat] /\ e.issued \in [Stabilizers -> Nat]
        /\ e.issued[s] = 0 /\ e.amounts[s] = a[s]
        /\ intention # "INVEST" => e.world.now = w.now /\ e.world.stab[s] = w.stab[s]
    BY <1>3, <1>5 DEF After
  <2>3. GoodWorld(x) /\ (intention # "INVEST" => Answers(e.world, x, s, a[s]))
    BY <2>1, <2>2, OrderKept
  <2>4. /\ f.world = x /\ f.amounts \in [Stabilizers -> Nat]
        /\ f.issued \in [Stabilizers -> Nat]
        /\ f.amounts[s] = 0 /\ f.issued[s] = 1
        /\ \A r \in Stabilizers : r # s => f.amounts[r] = e.amounts[r] /\ f.issued[r] = e.issued[r]
    BY <2>1, <2>2
  <2>5. ASSUME intention # "INVEST"
        PROVE  /\ x.now = w.now
               /\ \A r \in Stabilizers : r # s => x.stab[r] = e.world.stab[r]
               /\ w.stab[s].config.callDelay > 0 =>
                     getDebt(w, s) - getDebt(x, s) + x.stab[s].callAmount =
                         Least(a[s], getDebt(w, s))
    <3>1. e.world.now = w.now /\ e.world.stab[s] = w.stab[s] /\ Answers(e.world, x, s, a[s])
      BY <2>2, <2>3, <2>5
    <3>2. getDebt(e.world, s) = getDebt(w, s)
      BY <3>1, SameDebt
    <3> QED
      BY <3>1, <3>2 DEF Answers
  <2>6. ASSUME NEW r \in Stabilizers, r # s
        PROVE  /\ \/ f.issued[r] = 0 /\ f.amounts[r] = a[r]
                     /\ (intention # "INVEST" => f.world.stab[r] = w.stab[r])
                  \/ f.issued[r] = 1 /\ f.amounts[r] = 0
                     /\ (intention # "INVEST" /\ w.stab[r].config.callDelay > 0 =>
                            getDebt(w, r) - getDebt(f.world, r) + f.world.stab[r].callAmount =
                                Least(a[r], getDebt(w, r)))
               /\ (\E j \in T : q[j] = r) => f.amounts[r] = 0
    <3>1. /\ \/ e.issued[r] = 0 /\ e.amounts[r] = a[r]
                /\ (intention # "INVEST" => e.world.stab[r] = w.stab[r])
             \/ e.issued[r] = 1 /\ e.amounts[r] = 0
                /\ (intention # "INVEST" /\ w.stab[r].config.callDelay > 0 =>
                       getDebt(w, r) - getDebt(e.world, r) + e.world.stab[r].callAmount =
                           Least(a[r], getDebt(w, r)))
          /\ (\E j \in T \ {i} : q[j] = r) => e.amounts[r] = 0
          /\ intention # "INVEST" => e.world.now = w.now
      BY <1>3 DEF After
    <3>2. intention # "INVEST" =>
             f.world.stab[r] = e.world.stab[r] /\ getDebt(f.world, r) = getDebt(e.world, r)
      BY <2>4, <2>5, <2>6, <3>1, SameDebt
    <3> QED
      BY <1>1, <2>4, <2>6, <3>1, <3>2
  <2> QED
    BY <2>3, <2>4, <2>5, <2>6 DEF After
<1> QED
  BY <1>4, <1>5

\* What all the turns leave.
LEMMA TurnsAfter ==
    ASSUME NEW q, DOMAIN q \subseteq Nat, IsFiniteSet(DOMAIN q),
           \A i \in DOMAIN q : q[i] \in Stabilizers,
           NEW w, GoodWorld(w), NEW a \in [Stabilizers -> Nat], NEW intention,
           NEW slippage \in 0 .. Precision, NEW it,
           Turns(it, {[world |-> w, amounts |-> a, issued |-> Nothing]}, q, intention, slippage)
    PROVE  \A e \in it[DOMAIN q] : After(e, DOMAIN q, q, w, a, intention)
<1> DEFINE base == {[world |-> w, amounts |-> a, issued |-> Nothing]}
           Bad == {T \in SUBSET DOMAIN q :
                      \E e \in it[T] : ~After(e, T, q, w, a, intention)}
<1>1. ASSUME NEW T \in SUBSET DOMAIN q
      PROVE  it[T] = IF T = {} THEN base
                     ELSE ExecuteOne(it[T \ {Max(T)}], q[Max(T)], intention, slippage)
  BY Zenon DEF Turns
<1>2. ASSUME NEW e \in it[{}] PROVE After(e, {}, q, w, a, intention)
  <2>1. e = [world |-> w, amounts |-> a, issued |-> Nothing]
    BY <1>1, <1>2, {} \in SUBSET DOMAIN q
  <2> QED
    BY <2>1 DEF After, Nothing
<1>3. ASSUME NEW T \in Bad PROVE \E R \in Bad : R \subseteq T /\ R # T
  <2>1. PICK e \in it[T] : ~After(e, T, q, w, a, intention)
    OBVIOUS
  <2>2. T # {}
    BY <1>2, <2>1
  <2>3. PICK i \in T : i = Max(T)
    BY <2>2, LastTurn
  <2>4. e \in ExecuteOne(it[T \ {i}], q[i], intention, slippage)
    BY <1>1, <2>1, <2>2, <2>3
  <2>5. ~\A f \in it[T \ {i}] : After(f, T \ {i}, q, w, a, intention)
    BY <2>1, <2>4, TurnAfter
  <2>6. T \ {i} \in Bad
    BY <2>5
  <2> QED
    BY <2>6
<1>4. Bad = {}
  <2>1. Bad \subseteq SUBSET DOMAIN q
    OBVIOUS
  <2> HIDE DEF Bad
  <2> QED
    BY <1>3, <2>1, NoSmallest
<1>5. DOMAIN q \in SUBSET DOMAIN q
  OBVIOUS
<1> QED
  BY <1>4, <1>5

-----------------------------------------------------------------------------
(* The steps *)

\* Execution in the world of the variables, with what it leaves.
LEMMA ExecuteAfter ==
    ASSUME GoodWorld(World), queue \in Seq(Stabilizers), amounts \in [Stabilizers -> Nat],
           NEW intention, NEW slippage \in Slippages, execute(intention, slippage)
    PROVE  \E e : /\ World' = e.world /\ amounts' = e.amounts /\ issued' = e.issued
                  /\ After(e, DOMAIN queue, queue, World, amounts, intention)
<1>1. PICK w, a, q : w = World /\ a = amounts /\ q = queue
  OBVIOUS
<1> DEFINE base == {[world |-> w, amounts |-> a, issued |-> Nothing]}
<1>2. PICK e \in Executed(base, q, intention, slippage) :
        Do({e.world}) /\ amounts' = e.amounts /\ issued' = e.issued
  BY <1>1, Zenon DEF execute, Executed
<1>3. q \in Seq(Stabilizers) /\ DOMAIN q = 1 .. Len(q) /\ Len(q) \in Nat
  BY <1>1
<1>4. DOMAIN q \subseteq Nat /\ \A i \in DOMAIN q : q[i] \in Stabilizers
  BY <1>3
<1>5. IsFiniteSet(DOMAIN q)
  BY <1>3, FS_Interval
<1>6. PICK it : /\ Turns(it, base, q, intention, slippage)
                /\ Executed(base, q, intention, slippage) = it[DOMAIN q]
  BY <1>4, <1>5, ExecutedTurns
<1>7. slippage \in 0 .. Precision
  BY Inputs DEF Slippages
<1>8. After(e, DOMAIN q, q, w, a, intention)
  BY <1>1, <1>2, <1>4, <1>5, <1>6, <1>7, TurnsAfter
<1>9. e.world \in Worlds /\ Becomes(e.world)
  BY <1>2, <1>8 DEF After, GoodWorld, Do, Becomes
<1>10. World' = e.world
  BY <1>9, BecomesWorld
<1> QED
  BY <1>1, <1>2, <1>8, <1>10

\* Resetting the calls of any set of stabilizers.
LEMMA ResetCallsKept ==
    ASSUME NEW w, GoodWorld(w), NEW called
    PROVE  GoodWorld([w EXCEPT !.stab = [s \in Stabilizers |->
                          IF s \in called THEN CancelCall(w, s).stab[s] ELSE w.stab[s]]])
<1> DEFINE stabs == [s \in Stabilizers |->
                        IF s \in called THEN CancelCall(w, s).stab[s] ELSE w.stab[s]]
           x == [w EXCEPT !.stab = stabs]
<1>1. ASSUME NEW s \in Stabilizers
      PROVE  stabs[s] \in StabilizerStorage /\ Timed(stabs[s], w.now)
  <2>1. PICK y : y = CancelCall(w, s)
    OBVIOUS
  <2>2. GoodWorld(y) /\ y.now = w.now
    <3>1. GoodWorld(y)
      BY <2>1, CancelCallKept DEF Kept
    <3>2. y.now = w.now
      BY <2>1 DEF CancelCall, GoodWorld, Worlds
    <3> QED
      BY <3>1, <3>2
  <2>3. y.stab[s] \in StabilizerStorage /\ Timed(y.stab[s], w.now)
    BY <2>2, WorldFields DEF GoodWorld
  <2>4. w.stab[s] \in StabilizerStorage /\ Timed(w.stab[s], w.now)
    BY WorldFields DEF GoodWorld
  <2> QED
    BY <2>1, <2>3, <2>4
<1>2. stabs \in [Stabilizers -> StabilizerStorage]
  BY <1>1
<1> HIDE DEF stabs
<1>3. x \in Worlds /\ x.stab = stabs /\ x.now = w.now /\ x.sweep = w.sweep
  BY <1>2 DEF GoodWorld, Worlds
<1>4. GoodWorld(x)
  BY <1>1, <1>3 DEF GoodWorld
<1> QED
  BY <1>4 DEF stabs

QueueInv ==
    /\ GoodWorld(World)
    /\ queue \in Seq(Stabilizers)
    /\ amounts \in [Stabilizers -> Nat]
    /\ issued \in [Stabilizers -> Nat]
    /\ AmountsQueued
    /\ OrderedOnce

LEMMA NoneIssued == Nothing \in [Stabilizers -> Nat] /\ \A s \in Stabilizers : Nothing[s] =< 1
  BY DEF Nothing

LEMMA QueueInvInit ==
    ASSUME QueueInit
    PROVE  QueueInv
  BY InitGood, NoneIssued DEF QueueInit, QueueInv, AmountsQueued, OrderedOnce, Nothing

\* A step that touches neither the queue nor the amounts.
LEMMA QueueIdle ==
    ASSUME QueueInv, GoodWorld(World)', queue' = queue, amounts' = amounts,
           issued' = Nothing
    PROVE  QueueInv'
  BY NoneIssued DEF QueueInv, AmountsQueued, OrderedOnce

LEMMA QueueInvNext ==
    ASSUME QueueInv, [QueueNext]_queueVars
    PROVE  QueueInv'
<1> USE DEF QueueInv
<1>1. ASSUME UNCHANGED vars
      PROVE  GoodWorld(World)'
  BY <1>1, Stutters
<1>2. ASSUME NEW s \in Stabilizers, removeAction(s)
      PROVE  QueueInv'
  <2>1. GoodWorld(World)' /\ queue' = queue /\ issued' = Nothing
        /\ amounts' = [amounts EXCEPT ![s] = 0]
    BY <1>1, <1>2 DEF removeAction
  <2>2. /\ amounts' \in [Stabilizers -> Nat]
        /\ \A r \in Stabilizers : amounts'[r] > 0 => amounts[r] > 0
    BY <2>1
  <2>3. AmountsQueued'
    BY <2>1, <2>2 DEF AmountsQueued
  <2> QED
    BY <2>1, <2>2, <2>3, NoneIssued DEF OrderedOnce
<1>3. ASSUME NEW s \in Stabilizers, NEW amount \in AmountsOf[s], addAction(s, amount)
      PROVE  QueueInv'
  <2>1. /\ GoodWorld(World)' /\ queue' = Append(queue, s) /\ issued' = Nothing
        /\ amounts' = [amounts EXCEPT ![s] = amount] /\ amount \in Nat
    BY <1>1, <1>3, Inputs DEF addAction
  <2>2. /\ queue' \in Seq(Stabilizers) /\ Len(queue') = Len(queue) + 1 /\ Len(queue) \in Nat
        /\ queue'[Len(queue) + 1] = s
        /\ \A i \in 1 .. Len(queue) : queue'[i] = queue[i]
    BY <2>1
  <2>3. AmountsQueued'
    <3> SUFFICES ASSUME NEW r \in Stabilizers, amounts'[r] > 0
                 PROVE  \E i \in 1 .. Len(queue') : queue'[i] = r
      BY DEF AmountsQueued
    <3>1. CASE r = s
      BY <2>2, <3>1
    <3>2. CASE r # s
      BY <2>1, <2>2, <3>2 DEF AmountsQueued
    <3> QED
      BY <3>1, <3>2
  <2> QED
    BY <2>1, <2>2, <2>3, NoneIssued DEF OrderedOnce
<1>4. ASSUME NEW intention, NEW sl \in Slippages, execute(intention, sl)
      PROVE  QueueInv'
  <2>1. PICK e : /\ World' = e.world /\ amounts' = e.amounts /\ issued' = e.issued
                 /\ After(e, DOMAIN queue, queue, World, amounts, intention)
    BY <1>4, ExecuteAfter
  <2>2. queue' = <<>>
    BY <1>4 DEF execute
  <2>3. /\ GoodWorld(e.world)
        /\ e.amounts \in [Stabilizers -> Nat] /\ e.issued \in [Stabilizers -> Nat]
        /\ \A s \in Stabilizers :
              /\ \/ e.issued[s] = 0 /\ e.amounts[s] = amounts[s]
                 \/ e.issued[s] = 1 /\ e.amounts[s] = 0
              /\ (\E i \in DOMAIN queue : queue[i] = s) => e.amounts[s] = 0
    BY <2>1 DEF After
  <2>4. \A s \in Stabilizers : amounts'[s] = 0
    <3> SUFFICES ASSUME NEW s \in Stabilizers PROVE e.amounts[s] = 0
      BY <2>1
    <3>1. /\ DOMAIN queue = 1 .. Len(queue) /\ amounts[s] \in Nat
          /\ amounts[s] > 0 => \E i \in 1 .. Len(queue) : queue[i] = s
      BY DEF AmountsQueued
    <3>2. CASE \E i \in DOMAIN queue : queue[i] = s
      BY <2>3, <3>2
    <3>3. CASE ~\E i \in DOMAIN queue : queue[i] = s
      <4>1. ~\E i \in 1 .. Len(queue) : queue[i] = s
        BY <3>1, <3>3, Zenon
      <4>2. amounts[s] = 0
        BY <3>1, <4>1
      <4> QED
        BY <2>3, <4>2
    <3> QED
      BY <3>2, <3>3
  <2>5. GoodWorld(World)' /\ queue' \in Seq(Stabilizers)
    BY <2>1, <2>2, <2>3
  <2>6. /\ amounts' \in [Stabilizers -> Nat] /\ issued' \in [Stabilizers -> Nat]
        /\ \A s \in Stabilizers : issued'[s] =< 1
    <3>1. ASSUME NEW s \in Stabilizers PROVE e.issued[s] =< 1
      <4>1. e.issued[s] = 0 \/ e.issued[s] = 1
        BY <2>3
      <4> QED
        BY <4>1
    <3> QED
      BY <2>1, <2>3, <3>1
  <2>7. AmountsQueued'
    BY <2>4 DEF AmountsQueued
  <2>8. OrderedOnce'
    BY <2>6 DEF OrderedOnce
  <2> QED
    BY <2>5, <2>6, <2>7, <2>8
<1>5. CASE reset
  <2>1. /\ GoodWorld(World)' /\ queue' = <<>> /\ issued' = Nothing
        /\ amounts' = [s \in Stabilizers |->
                          IF \E i \in 1 .. Len(queue) : queue[i] = s THEN 0 ELSE amounts[s]]
    BY <1>1, <1>5 DEF reset
  <2>2. \A s \in Stabilizers : amounts'[s] = 0
    <3> SUFFICES ASSUME NEW s \in Stabilizers PROVE amounts'[s] = 0
      OBVIOUS
    <3>1. amounts[s] \in Nat /\ (amounts[s] > 0 => \E i \in 1 .. Len(queue) : queue[i] = s)
      BY DEF AmountsQueued
    <3> QED
      BY <2>1, <3>1
  <2>3. amounts' \in [Stabilizers -> Nat]
    BY <2>1
  <2> QED
    BY <2>1, <2>2, <2>3, NoneIssued DEF AmountsQueued, OrderedOnce
<1>6. CASE resetCalls
  <2>1. PICK called : called = {s \in Entries(sweep.minterAddresses) : stab[s].callAmount > 0}
    OBVIOUS
  <2>2. PICK x : x = [World EXCEPT !.stab = [s \in Stabilizers |->
                         IF s \in called THEN CancelCall(World, s).stab[s] ELSE World.stab[s]]]
    OBVIOUS
  <2>3. World.stab = stab
    BY DEF World
  <2>4. Becomes(x) /\ issued' = Nothing /\ queue' = queue /\ amounts' = amounts
    BY <1>6, <2>1, <2>2, <2>3 DEF resetCalls, Do, Becomes
  <2>5. GoodWorld(x)
    BY <2>2, ResetCallsKept
  <2>6. World' = x
    BY <2>4, <2>5, BecomesWorld DEF GoodWorld
  <2>7. GoodWorld(World)'
    BY <2>5, <2>6
  <2> QED
    BY <2>4, <2>7, QueueIdle
<1>7. CASE others
  <2>1. GoodWorld(World)' /\ queue' = queue /\ amounts' = amounts /\ issued' = Nothing
    BY <1>7, StepFollows DEF others, Follows
  <2> QED
    BY <2>1, QueueIdle
<1>8. CASE UNCHANGED queueVars
  BY <1>1, <1>8 DEF queueVars, AmountsQueued, OrderedOnce
<1> QED
  BY <1>2, <1>3, <1>4, <1>5, <1>6, <1>7, <1>8 DEF QueueNext

LEMMA QueueInvAlways == QueueSpec => []QueueInv
<1>1. QueueInit => QueueInv
  BY QueueInvInit
<1>2. QueueInv /\ [QueueNext]_queueVars => QueueInv'
  BY QueueInvNext
<1> QED
  BY <1>1, <1>2, PTL DEF QueueSpec

-----------------------------------------------------------------------------

\* Whole executions, of any number of orders, leave the storage of every contract as
\* single transactions do: nothing below zero, a deadline for every call.
THEOREM QueueTypeCorrect == QueueSpec => []QueueTypeOK
<1>1. QueueInv => QueueTypeOK
  BY DEF QueueInv, QueueTypeOK, GoodWorld, World, Worlds, TypeOK
<1> QED
  BY <1>1, QueueInvAlways, PTL

\* No amount outlives its order: added, replaced, removed, executed or reset, an amount
\* belongs to a stabilizer that is in the queue.
THEOREM AmountsCorrect == QueueSpec => []AmountsQueued
<1>1. QueueInv => AmountsQueued
  BY DEF QueueInv
<1> QED
  BY <1>1, QueueInvAlways, PTL

\* However often a stabilizer is in the queue, an execution gives it one order.
THEOREM OrdersCorrect == QueueSpec => []OrderedOnce
<1>1. QueueInv => OrderedOnce
  BY DEF QueueInv
<1> QED
  BY <1>1, QueueInvAlways, PTL

\* What an execution calls of a stabilizer is repaid or still called when it is over,
\* whatever the other orders of that execution do.
THEOREM CallsCorrect == QueueSpec => CallAccountedFor
<1>1. ASSUME QueueInv, NEW s \in Stabilizers, NEW sl \in Slippages,
             issued'[s] = 1, stab[s].config.callDelay > 0, execute("CALL", sl)
      PROVE  getDebt(World, s) - getDebt(World, s)' + stab'[s].callAmount =
                Least(amounts[s], getDebt(World, s))
  <2>1. PICK e : /\ World' = e.world /\ amounts' = e.amounts /\ issued' = e.issued
                 /\ After(e, DOMAIN queue, queue, World, amounts, "CALL")
    BY <1>1, ExecuteAfter DEF QueueInv
  <2>2. World.stab = stab /\ World'.stab = stab'
    BY DEF World
  <2>3. getDebt(World, s) - getDebt(e.world, s) + e.world.stab[s].callAmount =
           Least(amounts[s], getDebt(World, s))
    BY <1>1, <2>1, <2>2 DEF After
  <2>4. getDebt(World, s)' = getDebt(e.world, s)
    BY <2>1 DEF getDebt, accruedFee
  <2> QED
    BY <2>1, <2>2, <2>3, <2>4
<1>2. QueueInv =>
        [\A s \in Stabilizers, sl \in Slippages :
          /\ issued'[s] = 1 /\ stab[s].config.callDelay > 0
          /\ execute("CALL", sl)
          => getDebt(World, s) - getDebt(World, s)' + stab'[s].callAmount =
                Least(amounts[s], getDebt(World, s))]_queueVars
  BY <1>1
<1> QED
  BY <1>2, QueueInvAlways, PTL DEF CallAccountedFor
=============================================================================
