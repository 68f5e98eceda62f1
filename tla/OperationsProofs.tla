--------------------------- MODULE OperationsProofs ----------------------------
\* The operator's scripts. The search for the amount to swap, for every bound, band
\* and number of rounds: it never discards a solution, never reports a wrong one,
\* and gives up only when there is none to find. The rollout of a network, for
\* every price at which somebody else may open a pool: the pools it prints
\* without a warning have the price of one dollar, and SWEEP is what is rated.
EXTENDS Deployment, BinarySearch, NumberTheorems

\* The halved amount lies between the two ends.
LEMMA Halving ==
    ASSUME NEW a \in Nat, NEW b \in Nat, a <= b
    PROVE  /\ (a + b) \div 2 \in a..b
           /\ (b + a) \div 2 \in a..b
  OBVIOUS

\* The price is above the band, within it or below it.
LEMMA AmmPriceType ==
    ASSUME NEW x
    PROVE  ammPrice(x) \in {-1, 0, 1}
  BY DEF ammPrice

\* What is known when the price is out of the band: which way the amount erred.
LEMMA AmmPriceErrs ==
    ASSUME SearchTypeOK, NEW x \in Nat, NEW y \in first..last
    PROVE  /\ ammPrice(x) = 1  => IF swap = "sell" THEN x < y ELSE x > y
           /\ ammPrice(x) = -1 => IF swap = "sell" THEN x > y ELSE x < y
  BY DEF ammPrice, SearchTypeOK

-------------------------------------------------------------------------------
SearchInv == SearchTypeOK /\ BracketKept /\ FoundIsRight

LEMMA SearchInitInv == SearchInit => SearchInv
  <1>1. SUFFICES ASSUME SearchInit PROVE SearchInv
    OBVIOUS
  <1>2. bound \in Nat /\ bound <= MaxBound /\ MaxBound \in Nat /\ MAX_ROUNDS \in Nat
    BY <1>1, SearchAssumption DEF SearchInit
  <1>3. X \in 0..bound
    BY <1>1, <1>2, Halving DEF SearchInit
  <1>4. SearchTypeOK
    BY <1>1, <1>2, <1>3 DEF SearchInit, SearchTypeOK
  <1>5. BracketKept
    BY <1>1, <1>2, <1>3 DEF SearchInit, BracketKept, lower, upper
  <1>6. FoundIsRight
    BY <1>1 DEF SearchInit, FoundIsRight
  <1>q. QED
    BY <1>4, <1>5, <1>6 DEF SearchInv

\* A round in which the price is still to one side of the band.
LEMMA MissedRound ==
    ASSUME SearchInv, Attempt, ammPrice(X) # 0
    PROVE  SearchInv'
  <1>0. /\ MaxBound \in Nat /\ MAX_ROUNDS \in Nat /\ SearchTypeOK /\ BracketKept
        /\ X \in Nat /\ min \in Nat /\ max \in Nat
    BY SearchAssumption DEF SearchInv, SearchTypeOK
  <1>1. result = "searching" /\ round < MAX_ROUNDS /\ UNCHANGED curve
    BY DEF Attempt
  <1>2. ASSUME swap = "none" PROVE SearchTypeOK'
    <2>1. CASE ammPrice(X) = 1
      <3>1. max' = X /\ X' = (X + min) \div 2 /\ round' = round + 1 /\ UNCHANGED <<min, result>>
        BY <2>1 DEF Attempt
      <3>2. X' \in 0..MaxBound
        BY <3>1, <1>0 DEF SearchTypeOK
      <3>q. QED
        BY <3>1, <3>2, <1>0, <1>1 DEF SearchTypeOK, curve
    <2>2. CASE ammPrice(X) = -1
      <3>1. min' = X /\ X' = (X + max) \div 2 /\ round' = round + 1 /\ UNCHANGED <<max, result>>
        BY <2>2 DEF Attempt
      <3>2. X' \in 0..MaxBound
        BY <3>1, <1>0 DEF SearchTypeOK
      <3>q. QED
        BY <3>1, <3>2, <1>0, <1>1 DEF SearchTypeOK, curve
    <2>q. QED
      BY <2>1, <2>2, AmmPriceType
  <1>3. ASSUME swap # "none" PROVE SearchTypeOK' /\ BracketKept'
    <2>0. lower <= X /\ X <= upper
      BY <1>0, <1>3 DEF BracketKept
    <2>1. CASE ammPrice(X) = 1
      <3>1. max' = X /\ X' = (X + min) \div 2 /\ round' = round + 1 /\ UNCHANGED <<min, result>>
        BY <2>1 DEF Attempt
      <3>2. IF swap = "sell" THEN X' \in X..min ELSE X' \in min..X
        BY <3>1, <2>0, <1>0, Halving DEF lower, upper
      <3>3. SearchTypeOK'
        BY <3>1, <3>2, <1>0, <1>1 DEF SearchTypeOK, curve
      <3>4. ASSUME NEW x \in 1..bound - 1, x \in first..last
            PROVE  lower' < x /\ x < upper'
        <4>1. lower < x /\ x < upper
          BY <1>0, <1>3, <3>4 DEF BracketKept
        <4>2. IF swap = "sell" THEN X < x ELSE X > x
          BY <2>1, <3>4, <1>0, AmmPriceErrs
        <4>q. QED
          BY <4>1, <4>2, <3>1, <1>1 DEF lower, upper, curve
      <3>5. lower' <= X' /\ X' <= upper'
        BY <3>1, <3>2, <1>0, <1>1 DEF lower, upper, curve
      <3>q. QED
        BY <3>3, <3>4, <3>5, <1>1 DEF BracketKept, curve
    <2>2. CASE ammPrice(X) = -1
      <3>1. min' = X /\ X' = (X + max) \div 2 /\ round' = round + 1 /\ UNCHANGED <<max, result>>
        BY <2>2 DEF Attempt
      <3>2. IF swap = "sell" THEN X' \in max..X ELSE X' \in X..max
        BY <3>1, <2>0, <1>0, Halving DEF lower, upper
      <3>3. SearchTypeOK'
        BY <3>1, <3>2, <1>0, <1>1 DEF SearchTypeOK, curve
      <3>4. ASSUME NEW x \in 1..bound - 1, x \in first..last
            PROVE  lower' < x /\ x < upper'
        <4>1. lower < x /\ x < upper
          BY <1>0, <1>3, <3>4 DEF BracketKept
        <4>2. IF swap = "sell" THEN X > x ELSE X < x
          BY <2>2, <3>4, <1>0, AmmPriceErrs
        <4>q. QED
          BY <4>1, <4>2, <3>1, <1>1 DEF lower, upper, curve
      <3>5. lower' <= X' /\ X' <= upper'
        BY <3>1, <3>2, <1>0, <1>1 DEF lower, upper, curve
      <3>q. QED
        BY <3>3, <3>4, <3>5, <1>1 DEF BracketKept, curve
    <2>q. QED
      BY <2>1, <2>2, AmmPriceType
  <1>4. FoundIsRight'
    <2>1. result' = "searching"
      BY <1>1, AmmPriceType DEF Attempt
    <2>q. QED
      BY <2>1 DEF FoundIsRight
  <1>5. SearchTypeOK'
    BY <1>2, <1>3
  <1>6. BracketKept'
    BY <1>3, <1>1 DEF BracketKept, curve
  <1>q. QED
    BY <1>4, <1>5, <1>6 DEF SearchInv

\* The other steps leave the interval alone.
LEMMA SearchNextInv == SearchInv /\ [SearchNext]_searchVars => SearchInv'
  <1>1. SUFFICES ASSUME SearchInv, [SearchNext]_searchVars PROVE SearchInv'
    OBVIOUS
  <1>2. CASE Attempt /\ ammPrice(X) # 0
    BY <1>1, <1>2, MissedRound
  <1>3. CASE Attempt /\ ammPrice(X) = 0
    <2>1. UNCHANGED <<curve, X, min, max, round>> /\ result' = "found"
      BY <1>3 DEF Attempt
    <2>2. (ammPrice(X))' = ammPrice(X)
      BY <2>1 DEF ammPrice, curve
    <2>q. QED
      BY <1>1, <1>3, <2>1, <2>2
         DEF SearchInv, SearchTypeOK, BracketKept, FoundIsRight, lower, upper, curve
  <1>4. CASE SwapReverts \/ OutOfRounds
    BY <1>1, <1>4 DEF SwapReverts, OutOfRounds, SearchInv, SearchTypeOK, BracketKept,
                      FoundIsRight, lower, upper, curve
  <1>5. CASE UNCHANGED searchVars
    BY <1>1, <1>5 DEF searchVars, SearchInv, SearchTypeOK, BracketKept, FoundIsRight,
                      lower, upper, ammPrice
  <1>q. QED
    BY <1>1, <1>2, <1>3, <1>4, <1>5 DEF SearchNext

\* The search never throws a solution away, whatever the pool's curve.
THEOREM SearchKeepsBracket == SearchSpec => []BracketKept
  <1>1. SearchInv => BracketKept
    BY DEF SearchInv
  <1>q. QED
    BY SearchInitInv, SearchNextInv, <1>1, PTL DEF SearchSpec

\* The amount it reports brings the price into the band.
THEOREM SearchFindsRight == SearchSpec => []FoundIsRight
  <1>1. SearchInv => FoundIsRight
    BY DEF SearchInv
  <1>q. QED
    BY SearchInitInv, SearchNextInv, <1>1, PTL DEF SearchSpec
-------------------------------------------------------------------------------
(* How fast the interval shrinks *)

\* The recursion of PowerOfTwo up to n.
Doubles(f, n) == f = [i \in 0..n |-> IF i = 0 THEN 1 ELSE 2 * f[i - 1]]

LEMMA DoublesExtends ==
    ASSUME NEW n \in Nat \ {0}, NEW f, Doubles(f, n - 1)
    PROVE  \E g : Doubles(g, n)
  <1> DEFINE g == [i \in 0..n |-> IF i = n THEN 2 * f[n - 1] ELSE f[i]]
  <1>1. ASSUME NEW i \in 0..n
        PROVE  g[i] = IF i = 0 THEN 1 ELSE 2 * g[i - 1]
    <2>1. CASE i = n
      <3>1. i - 1 \in 0..n /\ i - 1 # n
        BY <2>1
      <3>q. QED
        BY <2>1, <3>1
    <2>2. CASE i # n
      <3>1. i \in 0..n - 1 /\ (i # 0 => i - 1 \in 0..n - 1 /\ i - 1 \in 0..n /\ i - 1 # n)
        BY <2>2
      <3>2. f[i] = IF i = 0 THEN 1 ELSE 2 * f[i - 1]
        BY <3>1 DEF Doubles
      <3>q. QED
        BY <2>2, <3>1, <3>2
    <2>q. QED
      BY <2>1, <2>2
  <1>2. Doubles(g, n)
    BY <1>1 DEF Doubles
  <1>q. QED
    BY <1>2

LEMMA DoublesExists ==
    ASSUME NEW n \in Nat
    PROVE  \E f : Doubles(f, n)
  <1> DEFINE Missing == {m \in Nat : ~\E f : Doubles(f, m)}
  <1>1. CASE Missing = {}
    BY <1>1
  <1>2. CASE Missing # {}
    <2>1. PICK m \in Missing : \A k \in Missing : m <= k
      BY <1>2, LeastNatural
    <2>2. Doubles([i \in 0..0 |-> 1], 0)
      BY DEF Doubles
    <2>3. m # 0
      BY <2>1, <2>2
    <2>4. m - 1 \in Nat /\ m - 1 \notin Missing
      BY <2>1, <2>3
    <2>5. \E f : Doubles(f, m)
      BY <2>1, <2>3, <2>4, DoublesExtends
    <2>q. QED
      BY <2>1, <2>5
  <1>q. QED
    BY <1>1, <1>2

LEMMA Powers ==
    /\ PowerOfTwo[0] = 1
    /\ \A n \in 1..MAX_ROUNDS : PowerOfTwo[n] = 2 * PowerOfTwo[n - 1]
  <1>1. MAX_ROUNDS \in Nat
    BY SearchAssumption
  <1>2. Doubles(PowerOfTwo, MAX_ROUNDS)
    BY <1>1, DoublesExists, Zenon DEF PowerOfTwo, Doubles
  <1>q. QED
    BY <1>1, <1>2 DEF Doubles

LEMMA PowerNat ==
    ASSUME NEW n \in 0..MAX_ROUNDS
    PROVE  PowerOfTwo[n] \in Nat
  <1> DEFINE Others == {m \in 0..MAX_ROUNDS : PowerOfTwo[m] \notin Nat}
  <1>1. CASE Others = {}
    BY <1>1
  <1>2. CASE Others # {}
    <2>0. Others \subseteq Nat
      OBVIOUS
    <2>1. PICK m \in Others : \A k \in Others : m <= k
      BY <1>2, <2>0, LeastNatural
    <2>2. m # 0
      BY <2>1, Powers
    <2>3. m \in 1..MAX_ROUNDS /\ m - 1 \in 0..MAX_ROUNDS /\ m - 1 \notin Others
      BY <2>1, <2>2, SearchAssumption
    <2>4. PowerOfTwo[m] = 2 * PowerOfTwo[m - 1] /\ PowerOfTwo[m - 1] \in Nat
      BY <2>3, Powers
    <2>q. QED
      BY <2>1, <2>4
  <1>q. QED
    BY <1>1, <1>2

\* Halving an interval halves what the doubled power bounds, however it rounds.
LEMMA HalfWidth ==
    ASSUME NEW a \in Nat, NEW b \in Nat, NEW p \in Nat, a <= b, b - a <= 2 * p
    PROVE  LET m == (a + b) \div 2
           IN  m \in Nat /\ m - a <= p /\ b - m <= p
  OBVIOUS

\* X is the middle of the interval, which the rounds played have narrowed. Only a search
\* over all rounds is undefined.
Narrowed ==
    /\ swap = "none" => result = "idle"
    /\ result = "undefined" => round >= MAX_ROUNDS
    /\ X = (min + max) \div 2
    /\ swap # "none" /\ bound <= PowerOfTwo[MAX_ROUNDS] =>
          upper - lower <= PowerOfTwo[MAX_ROUNDS - round]

NarrowInv == SearchInv /\ Narrowed

LEMMA NarrowInit == SearchInit => NarrowInv
  <1>1. SUFFICES ASSUME SearchInit PROVE NarrowInv
    OBVIOUS
  <1>2. SearchInv
    BY <1>1, SearchInitInv
  <1>3. bound \in Nat /\ MAX_ROUNDS \in Nat /\ MAX_ROUNDS - round = MAX_ROUNDS
    BY <1>1, SearchAssumption DEF SearchInit
  <1>4. upper - lower <= PowerOfTwo[MAX_ROUNDS] \/ ~(bound <= PowerOfTwo[MAX_ROUNDS])
    BY <1>1, <1>3 DEF SearchInit, upper, lower
  <1>5. Narrowed
    BY <1>1, <1>3, <1>4 DEF SearchInit, Narrowed
  <1>q. QED
    BY <1>2, <1>5 DEF NarrowInv

\* A round that misses leaves half of the interval.
LEMMA MissedNarrows ==
    ASSUME NarrowInv, Attempt, ammPrice(X) # 0
    PROVE  Narrowed'
  <1>1. /\ MAX_ROUNDS \in Nat /\ SearchTypeOK /\ BracketKept /\ Narrowed
        /\ X \in Nat /\ min \in Nat /\ max \in Nat /\ round \in 0..MAX_ROUNDS
    BY SearchAssumption DEF NarrowInv, SearchInv, SearchTypeOK
  <1>2. /\ result = "searching" /\ result' = "searching" /\ round < MAX_ROUNDS
        /\ round' = round + 1 /\ UNCHANGED <<swap, bound>> /\ swap # "none"
    <2>1. result' = "searching" /\ round' = round + 1
      BY AmmPriceType DEF Attempt
    <2>q. QED
      BY <1>1, <2>1 DEF Attempt, curve, Narrowed
  <1>3. \/ max' = X /\ min' = min /\ X' = (X + min) \div 2
        \/ min' = X /\ max' = max /\ X' = (X + max) \div 2
    BY AmmPriceType DEF Attempt
  <1>4. X' = (min' + max') \div 2
    BY <1>1, <1>3
  <1>5. ASSUME bound <= PowerOfTwo[MAX_ROUNDS]
        PROVE  upper' - lower' <= PowerOfTwo[MAX_ROUNDS - round']
    <2>1. PICK left \in Nat : left = MAX_ROUNDS - round'
      BY <1>1, <1>2
    <2>2. left \in 0..MAX_ROUNDS /\ left + 1 \in 1..MAX_ROUNDS
          /\ MAX_ROUNDS - round = left + 1 /\ (left + 1) - 1 = left
      BY <1>1, <1>2, <2>1
    <2>3. PICK p \in Nat : p = PowerOfTwo[left]
      BY <2>2, PowerNat
    <2>4. PowerOfTwo[MAX_ROUNDS - round] = 2 * p
      BY <2>2, <2>3, Powers
    <2>5. PICK a \in Nat, b \in Nat : a = lower /\ b = upper
      BY <1>1 DEF lower, upper
    <2>6. a <= b /\ b - a <= 2 * p /\ X = (a + b) \div 2
      BY <1>1, <1>2, <1>5, <2>4, <2>5 DEF Narrowed, BracketKept, lower, upper
    <2>7. X - a <= p /\ b - X <= p
      BY <2>6, HalfWidth
    <2>8. upper' - lower' \in {X - a, b - X}
      BY <1>1, <1>2, <1>3, <2>5 DEF lower, upper, BracketKept
    <2>q. QED
      BY <2>1, <2>3, <2>7, <2>8
  <1>q. QED
    BY <1>2, <1>4, <1>5 DEF Narrowed

LEMMA NarrowNext == NarrowInv /\ [SearchNext]_searchVars => NarrowInv'
  <1>1. SUFFICES ASSUME NarrowInv, [SearchNext]_searchVars PROVE NarrowInv'
    OBVIOUS
  <1>2. SearchInv'
    BY <1>1, SearchNextInv DEF NarrowInv
  <1>3. CASE Attempt /\ ammPrice(X) # 0
    BY <1>1, <1>2, <1>3, MissedNarrows DEF NarrowInv
  <1>4. ASSUME UNCHANGED <<swap, bound, X, min, max, round>>,
               result' = result \/ (result = "searching" /\ result' # "undefined")
                 \/ round >= MAX_ROUNDS,
               swap # "none" \/ result' = result
        PROVE  Narrowed'
    BY <1>1, <1>4 DEF NarrowInv, Narrowed, lower, upper
  <1>5. result = "searching" => swap # "none"
    BY <1>1 DEF NarrowInv, Narrowed
  <1>6. CASE Attempt /\ ammPrice(X) = 0
    <2>1. UNCHANGED <<swap, bound, X, min, max, round>> /\ result = "searching"
          /\ result' = "found"
      BY <1>6 DEF Attempt, curve
    <2>q. QED
      BY <1>2, <1>4, <1>5, <2>1 DEF NarrowInv
  <1>7. CASE SwapReverts
    BY <1>2, <1>4, <1>5, <1>7 DEF SwapReverts, NarrowInv, curve
  <1>8. CASE OutOfRounds
    BY <1>2, <1>4, <1>5, <1>8 DEF OutOfRounds, NarrowInv, curve
  <1>9. CASE UNCHANGED searchVars
    BY <1>2, <1>4, <1>9 DEF searchVars, NarrowInv
  <1>q. QED
    BY <1>1, <1>3, <1>6, <1>7, <1>8, <1>9 DEF SearchNext

\* When the loop gives up there was nothing to find, if the bound is no more than its
\* rounds halve away.
THEOREM SearchGivesUpRightly == SearchSpec => []GivesUpRightly
  <1>1. ASSUME NarrowInv, result = "undefined", bound <= PowerOfTwo[MAX_ROUNDS]
        PROVE  \A x \in 1..bound - 1 : x \notin first..last
    <2>1. round = MAX_ROUNDS /\ MAX_ROUNDS \in Nat /\ swap # "none"
      BY <1>1, SearchAssumption DEF NarrowInv, Narrowed, SearchInv, SearchTypeOK
    <2>2. upper - lower <= 1
      BY <1>1, <2>1, Powers DEF NarrowInv, Narrowed
    <2>3. /\ lower \in Nat /\ upper \in Nat
          /\ \A x \in 1..bound - 1 : x \in first..last => lower < x /\ x < upper
      BY <1>1, <2>1 DEF NarrowInv, SearchInv, SearchTypeOK, BracketKept, lower, upper
    <2>q. QED
      BY <2>2, <2>3
  <1>2. NarrowInv => GivesUpRightly
    BY <1>1 DEF GivesUpRightly
  <1>q. QED
    BY NarrowInit, NarrowNext, <1>2, PTL DEF SearchSpec

-------------------------------------------------------------------------------
(* The rollout: the invariant, with what is on the operator's terminal. *)

\* What a name of the address book stands for on network n, once it has a value.
StandsFor(n, v, name) ==
    IF name = "tokens.sweep" THEN v.is = "SweepCoin"
    ELSE name \notin Keys => v = Value(name, <<>>) /\ HasValue(n, name)
Reading(n, v, name) == v = Nothing \/ StandsFor(n, v, name)

ArgsRead(n, s, args) ==
    /\ DOMAIN args = DOMAIN scripts[s].args
    /\ \A i \in DOMAIN scripts[s].args : Reading(n, args[i], scripts[s].args[i])

\* What is left of the outcome of a script when the pool's earlier price is forgotten.
Opened(out, pool, data) ==
    /\ out.args = <<data.token0, data.token1>>
    /\ ~ out.warned => out.sqrtPrice = data.sqrtPrice
PrintedRight(s, a, out) ==
    /\ out.is = scripts[s].contract
    /\ s = "create_uniswap_pool" => Opened(out, "UniswapPool", getPriceAndData(a[1], a[2]))
    /\ s = "create_pancake_pool" =>
          Opened(out, "PancakePool", [getPriceAndData(a[1], a[2]) EXCEPT !.sqrtPrice = 0])
    /\ s = "create_balancer_pool" => out = balancerPool(a)
    /\ s = "create_curve_pool" => out = curvePool(a)

\* The invariant: the shape of the state; every argument read is the value of its
\* name or undefined; nothing is printed with an undefined argument, and what is
\* printed was made from the arguments.
Records ==
    /\ terminal = [script |-> terminal.script, stage |-> terminal.stage,
                   args |-> terminal.args, out |-> terminal.out]
    /\ market = [p \in OpenPools |-> market[p]]
Started ==
    terminal.stage # "idle" =>
        /\ terminal.script \in DOMAIN scripts
        /\ ArgsRead(net, terminal.script, terminal.args)
Printed ==
    terminal.stage = "prints" =>
        /\ ~ Throws(terminal.script, terminal.args)
        /\ PrintedRight(terminal.script, terminal.args, terminal.out)
\* What the file holds was put there under the name of what it is.
BookRight == \A k \in Keys : Reading(net, book[k], k)
RolloutInv == Records /\ TypeOK /\ BookRight /\ Started /\ Printed

LEMMA PoolScripts ==
    /\ scripts["create_uniswap_pool"] = create_uniswap_pool
    /\ scripts["create_pancake_pool"] = create_pancake_pool
    /\ scripts["create_balancer_pool"] = create_balancer_pool
    /\ scripts["create_curve_pool"] = create_curve_pool
    /\ scripts["sweep"] = sweep
    /\ {"create_uniswap_pool", "create_pancake_pool", "create_balancer_pool",
        "create_curve_pool", "sweep"} \subseteq DOMAIN scripts
  BY DEF scripts

LEMMA SweepIsRecordedOnce ==
    \A s \in DOMAIN RecordedAs : RecordedAs[s] = "tokens.sweep" => s = "sweep"
  BY DEF RecordedAs

LEMMA FilledNames ==
    /\ "tokens.sweep" \in Keys /\ "tokens.usdc" \notin Keys /\ "tokens.usdt" \notin Keys
    /\ "uniswap.factory" \notin Keys
    /\ "tokens.sweep" \notin MadeByHand /\ MadeByHand \subseteq Keys
    /\ \A s \in DOMAIN RecordedAs : RecordedAs[s] \in Keys
  BY DEF Keys, Made, MadeByHand, RecordedAs

LEMMA NoUniswapOnBsc == ~HasValue("bsc", "uniswap.factory")
  <1>1. "uniswap.factory" \notin constants["bsc"]
    BY DEF constants, bsc
  <1>2. \A part \in addresses : "uniswap.factory" \notin DOMAIN part
    BY DEF addresses, wallets, tokens, libraries, protocol
  <1>q. QED BY <1>1, <1>2 DEF HasValue, Literals

\* A script reads the value itself, or JavaScript's undefined.
LEMMA ResolvedIsRead ==
    ASSUME BookRight, NEW name
    PROVE  Reading(net, Resolve(name), name)
  <1>1. CASE name \in Keys
    BY <1>1 DEF BookRight, Resolve
  <1>2. CASE name \notin Keys
    BY <1>2, FilledNames DEF Resolve, Reading, StandsFor
  <1>q. QED BY <1>1, <1>2


LEMMA ScriptFields ==
    ASSUME NEW contract, NEW takes, NEW args
    PROVE  /\ Script(contract, takes, args).contract = contract
           /\ Script(contract, takes, args).takes = takes
           /\ Script(contract, takes, args).args = args
  BY DEF Script

\* Only two scripts make a pool whose price somebody else may have set.
LEMMA OnlyPoolScripts ==
    \A s \in DOMAIN scripts :
        scripts[s].contract \in OpenPools => s \in {"create_uniswap_pool", "create_pancake_pool"}
  <1>1. OpenPools = {"UniswapPool", "PancakePool"}
    BY DEF OpenPools, FactoryOf
  <1>2. /\ \A x \in {sweep, balancer, treasury, omnichain_governance_executor,
                deploy_19_omnichain_proposal_sender, deploy_21_token_distributor,
                deploy_26_vesting_approver} :
               x.contract \notin {"UniswapPool", "PancakePool"}
        /\ sweeper.contract \notin {"UniswapPool", "PancakePool"}
        /\ upgrade.contract \notin {"UniswapPool", "PancakePool"}
    <2>1. \A x \in {sweep, balancer, treasury, omnichain_governance_executor,
                deploy_19_omnichain_proposal_sender, deploy_21_token_distributor,
                deploy_26_vesting_approver} :
               x.contract \notin {"UniswapPool", "PancakePool"}
      BY ScriptFields DEF sweep, balancer, treasury, omnichain_governance_executor,
        deploy_19_omnichain_proposal_sender, deploy_21_token_distributor,
        deploy_26_vesting_approver
    <2>2. sweeper.contract = "SweeprCoin" /\ upgrade.contract = "SweepCoin implementation"
      BY DEF sweeper, upgrade, Script
    <2>q. QED
      BY <2>1, <2>2
  <1>3. \A x \in {rates_oracle, trader_joe_quoter, balancer_weighted_pool_lib,
                uniswap_liquidity_helper, baseswap_liquidity_helper,
                pancake_liquidity_helper, balancer_amm, curve_amm, uniswap_amm} :
            x.contract \notin {"UniswapPool", "PancakePool"}
    BY ScriptFields DEF rates_oracle, trader_joe_quoter, balancer_weighted_pool_lib,
        uniswap_liquidity_helper, baseswap_liquidity_helper, pancake_liquidity_helper,
        balancer_amm, curve_amm, uniswap_amm
  <1>4. \A x \in {baseswap_amm, pancake_amm, trader_joe_amm} :
            x.contract \notin {"UniswapPool", "PancakePool"}
    BY ScriptFields DEF baseswap_amm, pancake_amm, trader_joe_amm
  <1>5. \A x \in {balancer_market_maker, baseswap_market_maker, curve_market_maker,
                pancake_market_maker, trader_joe_market_maker, uniswap_market_maker} :
            x.contract \notin {"UniswapPool", "PancakePool"}
    BY ScriptFields DEF balancer_market_maker, baseswap_market_maker, curve_market_maker,
        pancake_market_maker, trader_joe_market_maker, uniswap_market_maker
  <1>6. \A x \in {aave, agave, apollo, aura, balancer_4pool, dai_dsr, ethena, frax, maple} :
            x.contract \notin {"UniswapPool", "PancakePool"}
    BY ScriptFields DEF aave, agave, apollo, aura, balancer_4pool, dai_dsr, ethena, frax, maple
  <1>7. \A x \in {silo, uniswap, usd_plus, yearn_v2, yearn_v3, yield_yak} :
            x.contract \notin {"UniswapPool", "PancakePool"}
    BY ScriptFields DEF silo, uniswap, usd_plus, yearn_v2, yearn_v3, yield_yak
  <1>8. \A x \in {deploy_12_compV3Asset, deploy_13_off_chain_asset, deploy_14_weth_asset,
                deploy_18_glp_asset, deploy_22_backed_asset, deploy_23_gDai_asset,
                deploy_25_ets_asset, deploy_29_backed_IB01_asset} :
            x.contract \notin {"UniswapPool", "PancakePool"}
    BY ScriptFields DEF deploy_12_compV3Asset, deploy_13_off_chain_asset, deploy_14_weth_asset,
        deploy_18_glp_asset, deploy_22_backed_asset, deploy_23_gDai_asset,
        deploy_25_ets_asset, deploy_29_backed_IB01_asset
  <1>9. \A x \in {create_balancer_pool, create_curve_pool} :
            x.contract \notin {"UniswapPool", "PancakePool"}
    BY ScriptFields DEF create_balancer_pool, create_curve_pool
  <1>10. ASSUME NEW s \in DOMAIN scripts, s \notin {"create_uniswap_pool", "create_pancake_pool"}
        PROVE  scripts[s] \in {sweep, balancer, treasury, sweeper, omnichain_governance_executor,
                deploy_19_omnichain_proposal_sender, deploy_21_token_distributor,
                deploy_26_vesting_approver, upgrade, rates_oracle, trader_joe_quoter,
                balancer_weighted_pool_lib, uniswap_liquidity_helper,
                baseswap_liquidity_helper, pancake_liquidity_helper, balancer_amm,
                curve_amm, uniswap_amm, baseswap_amm, pancake_amm, trader_joe_amm,
                balancer_market_maker, baseswap_market_maker, curve_market_maker,
                pancake_market_maker, trader_joe_market_maker, uniswap_market_maker, aave,
                agave, apollo, aura, balancer_4pool, dai_dsr, ethena, frax, maple, silo,
                uniswap, usd_plus, yearn_v2, yearn_v3, yield_yak, deploy_12_compV3Asset,
                deploy_13_off_chain_asset, deploy_14_weth_asset, deploy_18_glp_asset,
                deploy_22_backed_asset, deploy_23_gDai_asset, deploy_25_ets_asset,
                deploy_29_backed_IB01_asset, create_balancer_pool, create_curve_pool}
    BY <1>10 DEF scripts
  <1>q. QED
    BY <1>1, <1>2, <1>3, <1>4, <1>5, <1>6, <1>7, <1>8, <1>9, <1>10

LEMMA OutcomeRight ==
    ASSUME NEW s \in DOMAIN scripts, NEW a
    PROVE  PrintedRight(s, a, Outcome(s, a))
  <1>1. CASE s = "create_uniswap_pool"
    <2>1. Outcome(s, a) = uniswapPool(a)
      BY <1>1 DEF Outcome
    <2>2. scripts[s].contract = "UniswapPool"
      BY <1>1, PoolScripts, ScriptFields DEF create_uniswap_pool
    <2>3. uniswapPool(a).is = "UniswapPool"
      BY DEF uniswapPool, OpenPool
    <2>4. Opened(uniswapPool(a), "UniswapPool", getPriceAndData(a[1], a[2]))
      BY DEF uniswapPool, OpenPool, Opened
    <2>q. QED
      BY <1>1, <2>1, <2>2, <2>3, <2>4 DEF PrintedRight
  <1>2. CASE s = "create_pancake_pool"
    <2>1. Outcome(s, a) = pancakePool(a)
      BY <1>2 DEF Outcome
    <2>2. scripts[s].contract = "PancakePool"
      BY <1>2, PoolScripts, ScriptFields DEF create_pancake_pool
    <2>3. pancakePool(a).is = "PancakePool"
      BY DEF pancakePool, OpenPool
    <2>4. Opened(pancakePool(a), "PancakePool", [getPriceAndData(a[1], a[2]) EXCEPT !.sqrtPrice = 0])
      BY DEF pancakePool, OpenPool, Opened
    <2>q. QED
      BY <1>2, <2>1, <2>2, <2>3, <2>4 DEF PrintedRight
  <1>3. CASE s = "create_balancer_pool"
    BY <1>3, PoolScripts DEF PrintedRight, Outcome, balancerPool, create_balancer_pool, Script
  <1>4. CASE s = "create_curve_pool"
    BY <1>4, PoolScripts DEF PrintedRight, Outcome, curvePool, create_curve_pool, Script
  <1>5. CASE s \notin {"create_uniswap_pool", "create_pancake_pool", "create_balancer_pool", "create_curve_pool"}
    BY <1>5 DEF PrintedRight, Outcome, Value
  <1>q. QED BY <1>1, <1>2, <1>3, <1>4, <1>5

\* An open pool has the price its script asked for, or the one it had.
LEMMA PoolPrice ==
    ASSUME sweepFirst \in BOOLEAN, NEW s \in {"create_uniswap_pool", "create_pancake_pool"}, NEW a,
           NEW p \in OpenPools, Outcome(s, a).is = p
    PROVE  Outcome(s, a).sqrtPrice \in {-6, 0, 6} \cup market[p]
  <1>1. CASE s = "create_uniswap_pool"
    <2>1. Outcome(s, a) = uniswapPool(a) BY <1>1 DEF Outcome
    <2>2. p = "UniswapPool" BY <2>1 DEF uniswapPool, OpenPool
    <2>3. getPriceAndData(a[1], a[2]).sqrtPrice \in {-6, 6} BY DEF getPriceAndData
    <2>4. CASE market[p] = {}
      BY <2>1, <2>2, <2>3, <2>4 DEF uniswapPool, OpenPool
    <2>5. CASE market[p] # {}
      BY <2>1, <2>2, <2>5 DEF uniswapPool, OpenPool
    <2>q. QED BY <2>4, <2>5
  <1>2. CASE s = "create_pancake_pool"
    <2>1. Outcome(s, a) = pancakePool(a) BY <1>2 DEF Outcome
    <2>2. p = "PancakePool" BY <2>1 DEF pancakePool, OpenPool
    <2>3. [getPriceAndData(a[1], a[2]) EXCEPT !.sqrtPrice = 0].sqrtPrice = 0 BY DEF getPriceAndData
    <2>4. CASE market[p] = {}
      BY <2>1, <2>2, <2>3, <2>4 DEF pancakePool, OpenPool
    <2>5. CASE market[p] # {}
      BY <2>1, <2>2, <2>5 DEF pancakePool, OpenPool
    <2>q. QED BY <2>4, <2>5
  <1>q. QED BY <1>1, <1>2

-------------------------------------------------------------------------------
LEMMA RolloutInit == Init => RolloutInv
  <1>1. SUFFICES ASSUME Init PROVE RolloutInv
    OBVIOUS
  <1>2. Records
    BY <1>1 DEF Init, Idle, Records
  <1>3. TypeOK
    BY <1>1 DEF Init, Idle, TypeOK
  <1>4. BookRight
    BY <1>1 DEF Init, BookRight, Reading
  <1>5. Started /\ Printed
    BY <1>1 DEF Init, Idle, Started, Printed
  <1>q. QED
    BY <1>2, <1>3, <1>4, <1>5 DEF RolloutInv

\* The terminal has been given up, and nothing but the file changed.
LEMMA AtRest ==
    ASSUME RolloutInv, terminal' = Idle, UNCHANGED <<net, sweepFirst, market>>,
           DOMAIN book' = Keys, BookRight'
    PROVE  RolloutInv'
  <1>1. Records'
    BY DEF Records, RolloutInv, Idle
  <1>2. TypeOK'
    BY DEF TypeOK, RolloutInv, Idle
  <1>3. Started' /\ Printed'
    BY DEF Started, Printed, Idle
  <1>q. QED
    BY <1>1, <1>2, <1>3 DEF RolloutInv

LEMMA SameBook ==
    ASSUME RolloutInv, UNCHANGED <<net, book>>
    PROVE  DOMAIN book' = Keys /\ BookRight'
  BY DEF RolloutInv, TypeOK, BookRight

LEMMA StartKeeps ==
    ASSUME RolloutInv, NEW s \in DOMAIN scripts, Start(s)
    PROVE  RolloutInv'
  <1>1. UNCHANGED <<net, sweepFirst, book, market>> /\ BookRight
    BY DEF Start, RolloutInv
  <1>2. terminal' = [script |-> s, stage |-> "asks", out |-> Nothing,
                     args |-> [i \in DOMAIN scripts[s].args |-> Resolve(scripts[s].args[i])]]
    BY DEF Start
  <1>3. ArgsRead(net', terminal'.script, terminal'.args)
    <2>1. \A i \in DOMAIN scripts[s].args :
              Reading(net, Resolve(scripts[s].args[i]), scripts[s].args[i])
      BY <1>1, ResolvedIsRead
    <2>q. QED
      BY <1>1, <1>2, <2>1 DEF ArgsRead
  <1>4. Records'
    BY <1>1, <1>2 DEF Records, RolloutInv
  <1>5. TypeOK'
    BY <1>1, <1>2 DEF TypeOK, RolloutInv
  <1>6. Started' /\ Printed'
    BY <1>2, <1>3 DEF Started, Printed
  <1>q. QED
    BY <1>1, <1>4, <1>5, <1>6, SameBook DEF RolloutInv

LEMMA ConfirmKeeps ==
    ASSUME RolloutInv, NEW s \in DOMAIN scripts, Confirm(s), ~ Throws(s, terminal.args)
    PROVE  RolloutInv'
  <1> DEFINE out == Outcome(s, terminal.args)
  <1>0. /\ Records /\ TypeOK /\ Started
        /\ terminal.script = s /\ terminal.stage = "asks"
        /\ UNCHANGED <<net, sweepFirst, book>>
        /\ ArgsRead(net, s, terminal.args)
    BY DEF Confirm, RolloutInv, Started
  <1>1. terminal' = [terminal EXCEPT !.stage = "prints", !.out = out]
    BY DEF Confirm
  <1>2. market' = IF out.is \in OpenPools
                  THEN [market EXCEPT ![out.is] = {out.sqrtPrice}] ELSE market
    BY DEF Confirm
  <1>3. /\ terminal'.script = s /\ terminal'.args = terminal.args
        /\ terminal'.stage = "prints" /\ terminal'.out = out
        /\ terminal' = [script |-> terminal'.script, stage |-> terminal'.stage,
                        args |-> terminal'.args, out |-> terminal'.out]
    <2> HIDE DEF out
    <2>q. QED
      BY <1>0, <1>1 DEF Records
  <1>4. PrintedRight(s, terminal.args, out)
    BY OutcomeRight
  <1>5. ASSUME NEW p \in OpenPools
        PROVE  market'[p] \subseteq {-6, 0, 6} \cup MarketPrices
    <2>1. market[p] \subseteq {-6, 0, 6} \cup MarketPrices /\ sweepFirst \in BOOLEAN
      BY <1>0 DEF TypeOK
    <2>2. CASE out.is # p
      <3> HIDE DEF out
      <3>q. QED
        BY <1>0, <1>2, <2>1, <2>2 DEF Records
    <2>3. CASE out.is = p
      <3>1. s \in {"create_uniswap_pool", "create_pancake_pool"}
        BY <1>4, <2>3, OnlyPoolScripts DEF PrintedRight
      <3>2. out.sqrtPrice \in {-6, 0, 6} \cup market[p]
        BY <2>1, <2>3, <3>1, PoolPrice
      <3> HIDE DEF out
      <3>3. market'[p] = {out.sqrtPrice}
        BY <1>0, <1>2, <2>3 DEF Records
      <3>q. QED
        BY <2>1, <3>2, <3>3
    <2>q. QED
      BY <2>2, <2>3
  <1> HIDE DEF out
  <1>6. market' = [p \in OpenPools |-> market'[p]]
    BY <1>0, <1>2 DEF Records
  <1>7. Records'
    BY <1>3, <1>6 DEF Records
  <1>8. TypeOK'
    BY <1>0, <1>3, <1>5 DEF TypeOK
  <1>9. Started' /\ Printed'
    <2>1. Started'
      BY <1>0, <1>3 DEF Started
    <2>2. PICK a, o : a = terminal.args /\ o = out
      OBVIOUS
    <2>3. PrintedRight(s, a, o)'
      <3>1. PrintedRight(s, a, o) /\ sweepFirst' = sweepFirst
        BY <1>0, <1>4, <2>2
      <3>q. QED
        BY <3>1 DEF PrintedRight, Opened, getPriceAndData, balancerPool, curvePool
    <2>4. ~ Throws(s, a)
      BY <2>2
    <2>5. terminal'.script = s /\ terminal'.args = a /\ terminal'.out = o
      BY <1>3, <2>2
    <2>q. QED
      BY <2>1, <2>3, <2>4, <2>5 DEF Printed
  <1>q. QED
    BY <1>0, <1>7, <1>8, <1>9, SameBook DEF RolloutInv

LEMMA RecordKeeps ==
    ASSUME RolloutInv, NEW s \in DOMAIN scripts, Record(s)
    PROVE  RolloutInv'
  <1>1. /\ s \in DOMAIN RecordedAs /\ terminal' = Idle
        /\ UNCHANGED <<net, sweepFirst, market>>
        /\ book' = [book EXCEPT ![RecordedAs[s]] = terminal.out]
    BY DEF Record
  <1>2. DOMAIN book = Keys /\ BookRight
    BY DEF RolloutInv, TypeOK
  <1>3. terminal.out.is = scripts[s].contract
    BY DEF RolloutInv, Printed, PrintedRight, Record
  <1>4. ASSUME NEW k \in Keys PROVE Reading(net', book'[k], k)
    <2>1. CASE k # RecordedAs[s]
      BY <1>1, <1>2, <2>1 DEF BookRight
    <2>2. CASE k = RecordedAs[s] /\ k = "tokens.sweep"
      <3>0. s = "sweep" /\ sweep.contract = "SweepCoin"
        BY <1>1, <2>2, SweepIsRecordedOnce DEF sweep, Script
      <3>1. terminal.out.is = "SweepCoin"
        BY <1>3, <3>0, PoolScripts
      <3>2. book'[k] = terminal.out
        BY <1>1, <1>2, <2>2
      <3>q. QED
        BY <2>2, <3>1, <3>2 DEF Reading, StandsFor
    <2>3. CASE k # "tokens.sweep"
      BY <2>3 DEF Reading, StandsFor
    <2>q. QED
      BY <2>1, <2>2, <2>3
  <1>5. DOMAIN book' = Keys /\ BookRight'
    BY <1>1, <1>2, <1>4 DEF BookRight
  <1>q. QED
    BY <1>1, <1>5, AtRest

\* Two steps of somebody else: the terminal stays as it is.
LEMMA OthersKeep ==
    ASSUME RolloutInv, UNCHANGED <<net, sweepFirst, terminal>>,
           DOMAIN book' = Keys, BookRight',
           market' = [p \in OpenPools |-> market'[p]],
           \A p \in OpenPools : market'[p] \subseteq {-6, 0, 6} \cup MarketPrices
    PROVE  RolloutInv'
  <1>1. Records'
    BY DEF Records, RolloutInv
  <1>2. TypeOK'
    BY DEF TypeOK, RolloutInv
  <1>3. PICK s, a, o : s = terminal.script /\ a = terminal.args /\ o = terminal.out
    OBVIOUS
  <1>4. Started'
    BY DEF Started, RolloutInv
  <1>5. terminal.stage = "prints" => ~ Throws(s, a) /\ PrintedRight(s, a, o)
    BY <1>3 DEF Printed, RolloutInv
  <1>6. PrintedRight(s, a, o) => PrintedRight(s, a, o)'
    BY DEF PrintedRight, Opened, getPriceAndData, balancerPool, curvePool
  <1>7. Printed'
    BY <1>3, <1>5, <1>6 DEF Printed
  <1>q. QED
    BY <1>1, <1>2, <1>4, <1>7 DEF RolloutInv

LEMMA RecordByHandKeeps ==
    ASSUME RolloutInv, NEW k \in MadeByHand, RecordByHand(k)
    PROVE  RolloutInv'
  <1>1. /\ UNCHANGED <<net, sweepFirst, terminal, market>>
        /\ book' = [book EXCEPT ![k] = Value(k, <<>>)]
        /\ BookRight /\ Records /\ TypeOK
    BY DEF RecordByHand, RolloutInv
  <1>a. DOMAIN book = Keys
    BY <1>1 DEF TypeOK
  <1>2. ASSUME NEW j \in Keys PROVE Reading(net', book'[j], j)
    <2>1. CASE j # k
      BY <1>1, <1>a, <2>1 DEF BookRight
    <2>2. CASE j = k
      BY <2>2, FilledNames DEF Reading, StandsFor
    <2>q. QED
      BY <2>1, <2>2
  <1>3. DOMAIN book' = Keys /\ BookRight'
    BY <1>1, <1>a, <1>2 DEF BookRight
  <1>4. /\ market' = [p \in OpenPools |-> market'[p]]
        /\ \A p \in OpenPools : market'[p] \subseteq {-6, 0, 6} \cup MarketPrices
    BY <1>1 DEF Records, TypeOK
  <1>q. QED
    BY <1>1, <1>3, <1>4, OthersKeep

LEMMA OpenByOtherKeeps ==
    ASSUME RolloutInv, NEW p \in OpenPools, OpenByOther(p)
    PROVE  RolloutInv'
  <1>1. UNCHANGED <<net, sweepFirst, book, terminal>> /\ Records /\ TypeOK
    BY DEF OpenByOther, RolloutInv
  <1>2. PICK n \in MarketPrices : market' = [market EXCEPT ![p] = {n}]
    BY DEF OpenByOther
  <1>3. /\ market' = [q \in OpenPools |-> market'[q]]
        /\ \A q \in OpenPools : market'[q] \subseteq {-6, 0, 6} \cup MarketPrices
    BY <1>1, <1>2 DEF Records, TypeOK
  <1>q. QED
    BY <1>1, <1>3, SameBook, OthersKeep

LEMMA RolloutNext == RolloutInv /\ [Next]_vars => RolloutInv'
  <1>1. SUFFICES ASSUME RolloutInv, [Next]_vars PROVE RolloutInv'
    OBVIOUS
  <1>2. ASSUME NEW s \in DOMAIN scripts, Start(s) PROVE RolloutInv'
    BY <1>1, <1>2, StartKeeps
  <1>3. ASSUME NEW s \in DOMAIN scripts, Decline(s) \/ Close(s) PROVE RolloutInv'
    BY <1>1, <1>3, SameBook, AtRest DEF Decline, Close
  <1>4. ASSUME NEW s \in DOMAIN scripts, Confirm(s) PROVE RolloutInv'
    <2>1. CASE Throws(s, terminal.args)
      BY <1>1, <1>4, <2>1, SameBook, AtRest DEF Confirm
    <2>2. CASE ~ Throws(s, terminal.args)
      BY <1>1, <1>4, <2>2, ConfirmKeeps
    <2>q. QED
      BY <2>1, <2>2
  <1>5. ASSUME NEW s \in DOMAIN scripts, Record(s) PROVE RolloutInv'
    BY <1>1, <1>5, RecordKeeps
  <1>6. ASSUME NEW k \in MadeByHand, RecordByHand(k) PROVE RolloutInv'
    BY <1>1, <1>6, RecordByHandKeeps
  <1>7. ASSUME NEW p \in OpenPools, OpenByOther(p) PROVE RolloutInv'
    BY <1>1, <1>7, OpenByOtherKeeps
  <1>8. CASE UNCHANGED vars
    <2>1. UNCHANGED <<net, sweepFirst, book, terminal, market>>
      BY <1>8 DEF vars
    <2>2. Records /\ TypeOK
      BY <1>1 DEF RolloutInv
    <2>q. QED
      BY <1>1, <2>1, <2>2, SameBook, OthersKeep DEF Records, TypeOK
  <1>q. QED
    BY <1>1, <1>2, <1>3, <1>4, <1>5, <1>6, <1>7, <1>8 DEF Next

LEMMA RolloutAlways == Spec => []RolloutInv
  <1>q. QED
    BY RolloutInit, RolloutNext, PTL DEF Spec

\* The names a rollout fills, the stages of the terminal and the prices pools can have.
THEOREM RolloutTypeCorrect == Spec => []TypeOK
  <1>1. RolloutInv => TypeOK
    BY DEF RolloutInv
  <1>q. QED
    BY <1>1, RolloutAlways, PTL

\* What a printed pool script was given: none of its arguments is undefined.
LEMMA PoolArguments ==
    ASSUME RolloutInv, NEW s \in DOMAIN scripts, Deployed(s),
           NEW i \in DOMAIN scripts[s].args
    PROVE  terminal.args[i] # Nothing /\ StandsFor(net, terminal.args[i], scripts[s].args[i])
  <1>1. /\ ~ Throws(s, terminal.args)
        /\ ArgsRead(net, s, terminal.args)
    BY DEF Deployed, RolloutInv, Started, Printed
  <1>q. QED
    BY <1>1 DEF Throws, ArgsRead, Reading

LEMMA SweepAndDollar ==
    ASSUME RolloutInv, NEW s \in DOMAIN scripts, Deployed(s),
           scripts[s].args[1] = "tokens.sweep",
           scripts[s].args[2] \in {"tokens.usdc", "tokens.usdt"},
           {1, 2, 3} \subseteq DOMAIN scripts[s].args
    PROVE  /\ terminal.args[1].is = "SweepCoin" /\ terminal.args[2].is # "SweepCoin"
           /\ terminal.args[3] # Nothing
  <1>1. \A i \in {1, 2, 3} : /\ terminal.args[i] # Nothing
                             /\ StandsFor(net, terminal.args[i], scripts[s].args[i])
    BY PoolArguments
  <1>2. terminal.args[1].is = "SweepCoin"
    BY <1>1 DEF StandsFor
  <1>3. terminal.args[2] = Value(scripts[s].args[2], <<>>)
    BY <1>1, FilledNames DEF StandsFor
  <1>4. terminal.args[2].is # "SweepCoin"
    BY <1>3 DEF Value
  <1>q. QED
    BY <1>1, <1>2, <1>4

\* A pool printed without a warning has the price of one dollar, for every order of
\* the two tokens and every price at which somebody else may have opened it.
THEOREM PoolPricesCorrect == Spec => []PoolsPricedAtOne
  <1>1. ASSUME RolloutInv PROVE PoolsPricedAtOne
    <2>1. ASSUME Deployed("create_uniswap_pool"), ~ terminal.out.warned
          PROVE  terminal.out.sqrtPrice = sqrtPriceX96(terminal.out.args[1], terminal.out.args[2])
      <3> DEFINE s == "create_uniswap_pool"
      <3>1. /\ s \in DOMAIN scripts
            /\ scripts[s].args = <<"tokens.sweep", "tokens.usdc", "uniswap.factory",
                                   "uniswap.positions_manager">>
        BY PoolScripts, ScriptFields DEF create_uniswap_pool
      <3>2. /\ terminal.args[1].is = "SweepCoin" /\ terminal.args[2].is # "SweepCoin"
            /\ terminal.args[3] # Nothing
        BY <1>1, <2>1, <3>1, SweepAndDollar
      <3>3. HasValue(net, "uniswap.factory")
        BY <1>1, <2>1, <3>1, PoolArguments, FilledNames DEF StandsFor
      <3>4. net # "bsc"
        BY <3>3, NoUniswapOnBsc
      <3>5. Opened(terminal.out, "UniswapPool", getPriceAndData(terminal.args[1], terminal.args[2]))
        BY <1>1, <2>1 DEF Deployed, RolloutInv, Printed, PrintedRight
      <3>q. QED
        BY <2>1, <3>2, <3>4, <3>5 DEF Opened, getPriceAndData, sqrtPriceX96, Decimals
    <2>2. ASSUME Deployed("create_pancake_pool"), ~ terminal.out.warned, net = "bsc"
          PROVE  terminal.out.sqrtPrice = sqrtPriceX96(terminal.out.args[1], terminal.out.args[2])
      <3>1. Opened(terminal.out, "PancakePool",
                   [getPriceAndData(terminal.args[1], terminal.args[2]) EXCEPT !.sqrtPrice = 0])
        BY <1>1, <2>2 DEF Deployed, RolloutInv, Printed, PrintedRight
      <3>2. terminal.out.sqrtPrice = 0
        BY <2>2, <3>1 DEF Opened, getPriceAndData
      <3>q. QED
        BY <2>2, <3>2 DEF sqrtPriceX96, Decimals
    <2>q. QED
      BY <2>1, <2>2 DEF PoolsPricedAtOne
  <1>q. QED
    BY <1>1, RolloutAlways, PTL

\* In a pool with rate providers the provider stands at SWEEP, also when the order
\* of the tokens' addresses moves SWEEP to the second place.
THEOREM RatesCorrect == Spec => []RateOnSweep
  <1>1. ASSUME RolloutInv PROVE RateOnSweep
    <2>1. ASSUME NEW s \in {"create_balancer_pool", "create_curve_pool"}, Deployed(s)
          PROVE  /\ terminal.args[1].is = "SweepCoin" /\ terminal.args[2].is # "SweepCoin"
                 /\ terminal.args[3] # Nothing
      <3>1. /\ s \in DOMAIN scripts
            /\ scripts[s].args[1] = "tokens.sweep" /\ scripts[s].args[2] = "tokens.usdc"
            /\ {1, 2, 3} \subseteq DOMAIN scripts[s].args
        BY PoolScripts, ScriptFields DEF create_balancer_pool, create_curve_pool
      <3>q. QED
        BY <1>1, <2>1, <3>1, SweepAndDollar
    <2>2. ASSUME Deployed("create_balancer_pool"), NEW i \in 1..2
          PROVE  terminal.out.args[i].is = "SweepCoin" <=> terminal.out.providers[i] # Nothing
      <3>1. terminal.out = balancerPool(terminal.args)
        BY <1>1, <2>2 DEF Deployed, RolloutInv, Printed, PrintedRight
      <3>2. i = 1 \/ i = 2
        OBVIOUS
      <3>q. QED
        BY <2>1, <2>2, <3>1, <3>2 DEF balancerPool
    <2>3. ASSUME Deployed("create_curve_pool"), NEW i \in 1..2
          PROVE  terminal.out.args[i].is = "SweepCoin" <=> terminal.out.providers[i] # Nothing
      <3>1. terminal.out = curvePool(terminal.args)
        BY <1>1, <2>3 DEF Deployed, RolloutInv, Printed, PrintedRight
      <3>2. i = 1 \/ i = 2
        OBVIOUS
      <3>q. QED
        BY <2>1, <2>3, <3>1, <3>2 DEF curvePool
    <2>q. QED
      BY <2>2, <2>3 DEF RateOnSweep
  <1>q. QED
    BY <1>1, RolloutAlways, PTL
===============================================================================
