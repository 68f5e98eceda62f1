--------------------------- MODULE RateSyncProofs ---------------------------
(***************************************************************************)
(* Proofs about the interest rate, for every length of a day, precision,   *)
(* step, band, limit and set of prices and of chains, and whichever of the *)
(* multisig's settings are used.  Of the governance chain (BalancerRate):  *)
(* the types of the schedule, the order of its periods, the one step a     *)
(* period may bring, that a missed period stays missed, and that the price *)
(* moves as the rate says, by a day's worth at most.  The composed         *)
(* system implements it, so all that holds there too.  Of every other      *)
(* chain, whatever arrives or is retried in whatever order: its schedule   *)
(* keeps its types and order; the chains agree as long as messages arrive  *)
(* in the period they were sent in; and only a plan that the chain had     *)
(* refused can come back after a newer one.                                *)
(***************************************************************************)
EXTENDS RateSync, NumberTheorems

USE DayAssumption, PrecisionAssumption, RateRangeAssumption, LimitAssumption,
    BalancerAssumption, MaxNonceAssumption

-----------------------------------------------------------------------------
(* Arithmetic *)

\* A product of naturals divided by a positive number is a natural.
LEMMA ShareNat ==
    ASSUME NEW a \in Nat, NEW b \in Nat, NEW d \in Nat \ {0}
    PROVE  (a * b) \div d \in Nat
<1>1. a * b \in Nat
  OBVIOUS
<1> QED
  BY <1>1

\* The accrued rate of any period is an integer, negative once it has eaten the price.
LEMMA AccruedInt ==
    ASSUME NEW rate \in Int, NEW time \in Int
    PROVE  AccruedOver(rate, time) \in Int
<1>1. rate * time \in Int /\ (-rate) * time \in Int
  OBVIOUS
<1>2. (rate * time) \div Day \in Int /\ ((-rate) * time) \div Day \in Int
  BY <1>1
<1> QED
  BY <1>2 DEF AccruedOver

-----------------------------------------------------------------------------
(* The functions of the schedule *)

\* Rolling over keeps the type and the plan, and puts the rate in force first.
LEMMA RollFacts ==
    ASSUME NEW r \in Schedule, NEW t \in Nat
    PROVE  /\ Roll(r, t) \in Schedule
           /\ Roll(r, t).currentInterestRate = interestRate(r, t)
           /\ Roll(r, t).currentPeriodStart = periodStart(r, t)
           /\ Roll(r, t).currentTargetPrice = periodPrice(r, t)
<1>1. /\ r.currentInterestRate \in Int /\ r.nextInterestRate \in Int
      /\ r.currentPeriodStart \in Nat /\ r.nextPeriodStart \in Nat
      /\ r.nextTargetPrice \in Nat
  BY DEF Schedule
<1>2. CASE t >= r.nextPeriodStart
  <2> DEFINE u == [r EXCEPT !.currentInterestRate = r.nextInterestRate]
             v == [u EXCEPT !.currentTargetPrice = r.nextTargetPrice]
             w == [v EXCEPT !.currentPeriodStart = r.nextPeriodStart]
  <2>1. u \in Schedule /\ u.currentInterestRate = r.nextInterestRate
    BY <1>1 DEF Schedule
  <2> HIDE DEF u
  <2>2. v \in Schedule /\ v.currentInterestRate = r.nextInterestRate
    BY <1>1, <2>1 DEF Schedule
  <2>6. v.currentTargetPrice = r.nextTargetPrice
    BY <1>1, <2>1 DEF Schedule
  <2> HIDE DEF v
  <2>3. /\ w \in Schedule /\ w.currentInterestRate = r.nextInterestRate
        /\ w.currentPeriodStart = r.nextPeriodStart
        /\ w.currentTargetPrice = r.nextTargetPrice
    BY <1>1, <2>2, <2>6 DEF Schedule
  <2>4. Roll(r, t) = w
    BY <1>2 DEF Roll, u, v
  <2>5. /\ interestRate(r, t) = r.nextInterestRate /\ periodStart(r, t) = r.nextPeriodStart
        /\ periodPrice(r, t) = r.nextTargetPrice
    BY <1>1, <1>2 DEF interestRate, periodStart, periodPrice
  <2> HIDE DEF w
  <2> QED
    BY <2>3, <2>4, <2>5
<1>3. CASE ~ (t >= r.nextPeriodStart)
  <2>1. Roll(r, t) = r /\ t < r.nextPeriodStart
    BY <1>1, <1>3 DEF Roll
  <2> QED
    BY <2>1 DEF interestRate, periodStart, periodPrice
<1> QED
  BY <1>2, <1>3

\* What a refresh that does not revert leaves behind.
LEMMA RefreshFacts ==
    ASSUME NEW r \in Schedule, NEW t \in Nat, NEW rate \in Int, NEW start \in Nat,
           NEW s \in RefreshInterestRate(r, t, rate, start)
    PROVE  /\ s \in Schedule
           /\ s.currentPeriodStart =< s.nextPeriodStart
           /\ s.nextInterestRate = rate /\ s.nextPeriodStart = start
           /\ s.currentInterestRate = interestRate(r, t)
           /\ start >= t
<1> DEFINE q == Roll(r, t)
           a == AccruedOver(q.currentInterestRate, start - q.currentPeriodStart)
           p == (q.currentTargetPrice * a) \div InterestPrecision
<1>1. q \in Schedule /\ q.currentInterestRate = interestRate(r, t)
  BY RollFacts
<1>2. /\ q.currentInterestRate \in Int /\ q.currentTargetPrice \in Nat
      /\ q.currentPeriodStart \in Nat
  BY <1>1 DEF Schedule
<1>3. a \in Int
  <2>1. start - q.currentPeriodStart \in Int
    BY <1>2
  <2> QED
    BY <1>2, <2>1, AccruedInt
<1>4. /\ start >= t /\ start >= q.currentPeriodStart /\ a >= 0
      /\ s = [q EXCEPT !.nextInterestRate = rate, !.nextPeriodStart = start,
                       !.nextTargetPrice = p]
  BY DEF RefreshInterestRate, Answer
<1>5. p \in Nat
  <2>1. a \in Nat
    BY <1>3, <1>4
  <2> QED
    BY <2>1, <1>2, ShareNat
<1> HIDE DEF q, a, p
<1> QED
  BY <1>1, <1>2, <1>4, <1>5 DEF Schedule

-----------------------------------------------------------------------------
(* Types and the order of the periods *)

\* The inductive invariant: types, the order of the two starts, and, until the multisig
\* or a write-off has set one, one step between the two rates.
IInv == TypeOK /\ PeriodOrder /\ OneStepPerPeriod

LEMMA InitIInv == Init => IInv
<1> SUFFICES ASSUME Init PROVE IInv
  OBVIOUS
<1>1. overridden \in BOOLEAN
  BY DEF Init
<1>2. schedule \in Schedule /\ period \in Nat \ {0} /\ now \in Nat
  BY DEF Init, InitSchedule, Schedule
<1>3. /\ schedule.currentPeriodStart =< schedule.nextPeriodStart
      /\ schedule.nextInterestRate - schedule.currentInterestRate = 0
      /\ schedule.currentInterestRate - schedule.nextInterestRate = 0
  BY DEF Init, InitSchedule
<1> QED
  BY <1>1, <1>2, <1>3 DEF IInv, TypeOK, PeriodOrder, OneStepPerPeriod

\* The step getMode asks for is one of three, whatever the market says.
LEMMA RateStepValues ==
    ASSUME NEW p \in TwaPrices
    PROVE  RateStep(p) \in {StepValue, 0 - StepValue, 0}
<1>1. RateStep(p) \in {StepValue, - StepValue, 0}
  BY DEF RateStep
<1> QED
  BY <1>1

\* The public refresh keeps the invariant.
LEMMA RefreshKeeps ==
    ASSUME IInv, NEW p \in TwaPrices, refreshInterestRate(p)
    PROVE  IInv'
<1> DEFINE rate == interestRate(schedule, now) + RateStep(p)
           start == periodStart(schedule, now) + period
<1>1. /\ schedule \in Schedule /\ now \in Nat /\ period \in Nat \ {0}
      /\ overridden \in BOOLEAN
  BY DEF IInv, TypeOK
<1>2. interestRate(schedule, now) \in Int /\ periodStart(schedule, now) \in Nat
  BY <1>1 DEF interestRate, periodStart, Schedule
<1>3. RateStep(p) \in {StepValue, 0 - StepValue, 0}
  BY RateStepValues
<1>4. rate \in Int /\ start \in Nat
  BY <1>1, <1>2, <1>3
<1>5. /\ schedule' \in RefreshInterestRate(schedule, now, rate, start)
      /\ period' = period /\ now' = now /\ overridden' = overridden
  BY DEF refreshInterestRate
<1>6. /\ schedule' \in Schedule
      /\ schedule'.currentPeriodStart =< schedule'.nextPeriodStart
      /\ schedule'.nextInterestRate = rate
      /\ schedule'.currentInterestRate = interestRate(schedule, now)
  <2> HIDE DEF rate, start
  <2> QED
    BY <1>1, <1>4, <1>5, RefreshFacts
<1>7. OneStepPerPeriod'
  BY <1>2, <1>3, <1>5, <1>6 DEF OneStepPerPeriod
<1> QED
  BY <1>1, <1>5, <1>6, <1>7 DEF IInv, TypeOK, PeriodOrder

\* What the multisig sets keeps types and order; it is recorded in overridden.
LEMMA UpdateKeeps ==
    ASSUME IInv, NEW rate \in OverrideRates, NEW start \in 0 .. MaxTime,
           updateInterestRate(rate, start)
    PROVE  IInv'
<1>1. schedule \in Schedule /\ now \in Nat /\ rate \in Int /\ start \in Nat
  BY DEF IInv, TypeOK
<1>2. schedule' \in RefreshInterestRate(schedule, now, rate, start)
  BY DEF updateInterestRate
<1>3. schedule' \in Schedule /\ schedule'.currentPeriodStart =< schedule'.nextPeriodStart
  BY <1>1, <1>2, RefreshFacts
<1> QED
  BY <1>3 DEF updateInterestRate, IInv, TypeOK, PeriodOrder, OneStepPerPeriod

LEMMA SetRateKeeps ==
    ASSUME IInv, NEW c \in OverrideRates, NEW n \in OverrideRates, setInterestRate(c, n)
    PROVE  IInv'
<1>1. c \in Int /\ n \in Int
  OBVIOUS
<1> QED
  BY <1>1 DEF setInterestRate, SetInterestRate, IInv, TypeOK, PeriodOrder,
              OneStepPerPeriod, Schedule

LEMMA SetPriceKeeps ==
    ASSUME IInv, NEW c \in OverridePrices, NEW n \in OverridePrices, setTargetPrice(c, n)
    PROVE  IInv'
<1>1. c \in Nat /\ n \in Nat
  OBVIOUS
<1>2. /\ schedule' = [schedule EXCEPT !.currentTargetPrice = c, !.nextTargetPrice = n]
      /\ period' = period /\ now' = now /\ overridden' = TRUE
  BY DEF setTargetPrice, SetTargetPrice, Answer
<1> QED
  BY <1>1, <1>2 DEF IInv, TypeOK, PeriodOrder, OneStepPerPeriod, Schedule

LEMMA SetStartKeeps ==
    ASSUME IInv, NEW c \in 0 .. MaxTime, NEW n \in 0 .. MaxTime, setPeriodStart(c, n)
    PROVE  IInv'
<1>1. c \in Nat /\ n \in Nat
  OBVIOUS
<1>2. /\ schedule' = [schedule EXCEPT !.currentPeriodStart = c, !.nextPeriodStart = n]
      /\ c =< n /\ period' = period /\ now' = now /\ overridden' = TRUE
  BY DEF setPeriodStart, SetPeriodStart, Answer
<1> QED
  BY <1>1, <1>2 DEF IInv, TypeOK, PeriodOrder, OneStepPerPeriod, Schedule

LEMMA WriteOffKeeps ==
    ASSUME IInv, NEW p \in OverridePrices, writeOff(p)
    PROVE  IInv'
<1>1. p \in Nat
  OBVIOUS
<1>2. /\ schedule' = [schedule EXCEPT !.currentTargetPrice = p, !.nextTargetPrice = p]
      /\ period' = period /\ now' = now /\ overridden' = TRUE
  BY DEF writeOff, WriteOffPrice, Answer
<1> QED
  BY <1>1, <1>2 DEF IInv, TypeOK, PeriodOrder, OneStepPerPeriod, Schedule

LEMMA NextIInv == IInv /\ [Next]_vars => IInv'
<1> SUFFICES ASSUME IInv, [Next]_vars PROVE IInv'
  OBVIOUS
<1>1. CASE UNCHANGED vars
  BY <1>1 DEF vars, IInv, TypeOK, PeriodOrder, OneStepPerPeriod
<1>2. CASE Tick
  BY <1>2 DEF Tick, IInv, TypeOK, PeriodOrder, OneStepPerPeriod
<1>3. CASE \E p \in TwaPrices : refreshInterestRate(p)
  BY <1>3, RefreshKeeps
<1>4. CASE \E rate \in OverrideRates, start \in 0 .. MaxTime : updateInterestRate(rate, start)
  BY <1>4, UpdateKeeps
<1>5. CASE \E c, n \in OverrideRates : setInterestRate(c, n)
  BY <1>5, SetRateKeeps
<1>6. CASE \E c, n \in OverridePrices : setTargetPrice(c, n)
  BY <1>6, SetPriceKeeps
<1>7. CASE \E c, n \in 0 .. MaxTime : setPeriodStart(c, n)
  BY <1>7, SetStartKeeps
<1>8. CASE \E p \in Periods : setPeriod(p)
  BY <1>8 DEF setPeriod, IInv, TypeOK, PeriodOrder, OneStepPerPeriod
<1>9. CASE \E p \in OverridePrices : writeOff(p)
  BY <1>9, WriteOffKeeps
<1> QED
  BY <1>1, <1>2, <1>3, <1>4, <1>5, <1>6, <1>7, <1>8, <1>9 DEF Next

\* The invariant holds of every behaviour of the balancer and its schedule.
THEOREM SpecIInv == Spec => []IInv
  BY InitIInv, NextIInv, PTL DEF Spec

\* No rate, price or start ever leaves its type: the unsigned prices and starts of
\* Sweep.sol never wrap below zero, however far a negative rate is carried.
THEOREM TypeCorrect == Spec => []TypeOK
<1>1. IInv => TypeOK
  BY DEF IInv
<1> QED
  BY <1>1, SpecIInv, PTL

\* Whatever the multisig sets and whenever refreshes fall, the current period never
\* starts after the next one (refreshInterestRate, setPeriodStart).
THEOREM PeriodsOrdered == Spec => []PeriodOrder
<1>1. IInv => PeriodOrder
  BY DEF IInv
<1> QED
  BY <1>1, SpecIInv, PTL

\* Left to the public refreshInterestRate, the planned rate never leads the current one
\* by more than a step, however often and by whomever it is called.
THEOREM OneStep == Spec => []OneStepPerPeriod
<1>1. IInv => OneStepPerPeriod
  BY DEF IInv
<1> QED
  BY <1>1, SpecIInv, PTL

-----------------------------------------------------------------------------
(* A missed period *)

\* Once the next period has lasted its whole length, the start a refresh plans is in
\* the past and the refresh reverts.
LEMMA NoRefreshWhenMissed ==
    ASSUME TypeOK, Missed, NEW p \in TwaPrices, refreshInterestRate(p)
    PROVE  FALSE
<1> DEFINE rate == interestRate(schedule, now) + RateStep(p)
           start == periodStart(schedule, now) + period
<1>1. /\ schedule \in Schedule /\ now \in Nat /\ period \in Nat
      /\ schedule.nextPeriodStart \in Nat
  BY DEF TypeOK, Schedule
<1>2. schedule.nextPeriodStart + period < now
  BY DEF Missed
<1>3. start = schedule.nextPeriodStart + period
  BY <1>1, <1>2 DEF periodStart
<1>4. schedule' \in RefreshInterestRate(schedule, now, rate, start)
  BY DEF refreshInterestRate
<1>5. start >= now
  <2> HIDE DEF rate, start
  <2> QED
    BY <1>4 DEF RefreshInterestRate, Answer
<1> QED
  BY <1>1, <1>2, <1>3, <1>5

\* Time alone, the public refresh and the settings of rates and prices leave a missed
\* period missed: only a new period or a start set by the multisig ends it.
THEOREM MissedStays == Spec => MissedUntilMultisig
<1> DEFINE Step ==
             Missed =>
                 \/ Missed'
                 \/ \E rate \in OverrideRates, s \in 0 .. MaxTime : updateInterestRate(rate, s)
                 \/ \E c, n \in 0 .. MaxTime : setPeriodStart(c, n)
                 \/ \E p \in Periods : setPeriod(p)
<1>1. TypeOK /\ [Next]_vars => [Step]_vars
  <2> SUFFICES ASSUME TypeOK, Next, Missed PROVE Step
    OBVIOUS
  <2>0. /\ schedule \in Schedule /\ now \in Nat /\ period \in Nat
        /\ schedule.nextPeriodStart \in Nat
    BY DEF TypeOK, Schedule
  <2>1. CASE Tick
    BY <2>0, <2>1 DEF Tick, Missed
  <2>2. CASE \E p \in TwaPrices : refreshInterestRate(p)
    BY <2>2, NoRefreshWhenMissed
  <2>3. CASE \E c, n \in OverrideRates : setInterestRate(c, n)
    BY <2>0, <2>3 DEF setInterestRate, SetInterestRate, Missed, Schedule
  <2>4. CASE \E c, n \in OverridePrices : setTargetPrice(c, n)
    BY <2>0, <2>4 DEF setTargetPrice, SetTargetPrice, Answer, Missed, Schedule
  <2>5. CASE \E p \in OverridePrices : writeOff(p)
    BY <2>0, <2>5 DEF writeOff, WriteOffPrice, Answer, Missed, Schedule
  <2> QED
    BY <2>1, <2>2, <2>3, <2>4, <2>5 DEF Next
<1>2. Spec => []TypeOK /\ [][Next]_vars
  BY TypeCorrect, PTL DEF Spec
<1> QED
  BY <1>1, <1>2, PTL DEF MissedUntilMultisig

-----------------------------------------------------------------------------
(* The price follows the rate *)

\* What a rate of growth makes of a price.
Part(price, rate) == (price * rate) \div InterestPrecision

LEMMA PartGrows ==
    ASSUME NEW p \in Nat, NEW a \in Int, NEW b \in Int, a =< b
    PROVE  Part(p, a) \in Int /\ Part(p, b) \in Int /\ Part(p, a) =< Part(p, b)
<1> DEFINE x == p * a
           y == p * b
<1>1. x \in Int /\ y \in Int /\ x =< y
  BY Product
<1> HIDE DEF x, y
<1> DEFINE u == x \div InterestPrecision
<1>2. u \in Int /\ InterestPrecision * u \in Int /\ InterestPrecision * u =< x
      /\ y \div InterestPrecision \in Int
  BY <1>1, Rounded
<1> HIDE DEF u
<1>3. u =< y \div InterestPrecision
  BY <1>1, <1>2, QuotientAtLeast
<1> QED
  BY <1>2, <1>3 DEF x, y, u, Part

\* A rate that grows by k brings at most its part of the price, and one more by rounding.
LEMMA PartBy ==
    ASSUME NEW p \in Nat, NEW a \in Int, NEW b \in Int, NEW k \in Nat, b =< a + k
    PROVE  Part(p, b) =< Part(p, a) + (p * k) \div InterestPrecision + 1
<1> DEFINE x == p * a
           y == p * k
           u == x \div InterestPrecision
           v == y \div InterestPrecision
           d == InterestPrecision
<1>1. x \in Int /\ y \in Int /\ p * b \in Int /\ p * b =< p * (a + k) /\ p * (a + k) = x + y
  BY Product
<1>2. p * b =< x + y
  BY <1>1
<1> HIDE DEF x, y
<1>3. /\ u \in Int /\ d * u \in Int /\ x < d * u + d
      /\ v \in Int /\ d * v \in Int /\ y < d * v + d
  BY <1>1, Rounded
<1> HIDE DEF u, v
<1>4. d * (u + v + 2) = d * u + d * v + d + d
  BY <1>3
<1>5. p * b < d * (u + v + 2)
  BY <1>1, <1>2, <1>3, <1>4
<1> DEFINE z == (p * b) \div d
<1>6. z \in Int /\ d * z \in Int /\ d * z =< p * b
  BY <1>1, Rounded
<1> HIDE DEF z
<1>7. ~ (u + v + 2 =< z)
  <2> SUFFICES ASSUME u + v + 2 =< z PROVE FALSE
    OBVIOUS
  <2>1. d * (u + v + 2) \in Int /\ d * (u + v + 2) =< d * z
    BY <1>3, <1>6, Product
  <2> QED
    BY <1>1, <1>5, <1>6, <2>1
<1>8. z =< u + v + 1
  BY <1>3, <1>6, <1>7
<1> QED
  BY <1>8 DEF z, u, v, x, y, Part

\* What accrues over between q and q + 1 days.
LEMMA AccruedDays ==
    ASSUME NEW rate \in Int, NEW time \in Int, NEW q \in Int,
           Day * q =< time, time =< Day * (q + 1)
    PROVE  /\ AccruedOver(rate, time) \in Int /\ rate * q \in Int
           /\ rate >= 0 => /\ InterestPrecision + rate * q =< AccruedOver(rate, time)
                           /\ AccruedOver(rate, time) =< InterestPrecision + rate * q + rate
           /\ rate =< 0 => /\ AccruedOver(rate, time) =< InterestPrecision + rate * q
                           /\ InterestPrecision + rate * q + rate =< AccruedOver(rate, time)
<1>1. \A k \in Nat : /\ k * time \in Int /\ k * q \in Int
                     /\ k * q =< (k * time) \div Day
                     /\ (k * time) \div Day =< k * q + k
  <2> TAKE k \in Nat
  <2>1. Day * q \in Int /\ Day * (q + 1) \in Int
    OBVIOUS
  <2>2. k * (Day * q) =< k * time /\ k * time =< k * (Day * (q + 1)) /\ k * time \in Int
    BY <2>1, Product
  <2>3. k * q \in Int /\ k * (q + 1) \in Int /\ k * (q + 1) = k * q + k
    OBVIOUS
  <2>4. k * (Day * q) = Day * (k * q) /\ k * (Day * (q + 1)) = Day * (k * (q + 1))
    OBVIOUS
  <2>5. Day * (k * q) =< k * time /\ k * time =< Day * (k * (q + 1))
    BY <2>2, <2>4
  <2> QED
    BY <2>2, <2>3, <2>5, QuotientAtLeast, QuotientAtMost
<1>2. rate * q \in Int /\ (- rate) * q = 0 - rate * q
  OBVIOUS
<1>3. CASE rate >= 0
  <2>1. /\ rate * q =< (rate * time) \div Day /\ (rate * time) \div Day =< rate * q + rate
        /\ (rate * time) \div Day \in Int
    BY <1>1, <1>3, Rounded
  <2>2. AccruedOver(rate, time) = InterestPrecision + (rate * time) \div Day
    BY <1>3 DEF AccruedOver
  <2>3. rate =< 0 => rate * q = 0 /\ rate = 0
    BY <1>3
  <2> QED
    BY <1>2, <1>3, <2>1, <2>2, <2>3
<1>4. CASE rate < 0
  <2>1. /\ (- rate) * q =< ((- rate) * time) \div Day
        /\ ((- rate) * time) \div Day =< (- rate) * q + (- rate)
        /\ ((- rate) * time) \div Day \in Int
    BY <1>1, <1>4, Rounded
  <2>2. AccruedOver(rate, time) = InterestPrecision - ((- rate) * time) \div Day
    BY <1>4 DEF AccruedOver
  <2> QED
    BY <1>2, <1>4, <2>1, <2>2
<1> QED
  BY <1>3, <1>4

\* A price moves as its rate of growth does.
Moves(rate, price, before, after) ==
    /\ rate >= 0 => after >= before
    /\ rate =< 0 => after =< before
    /\ AbsOf(after - before) =< DaysWorth(price, rate)

LEMMA PriceMoves ==
    ASSUME NEW p \in Nat, NEW rate \in Int, NEW a \in Int, NEW b \in Int,
           rate >= 0 => a =< b /\ b =< a + rate,
           rate =< 0 => b =< a /\ a + rate =< b
    PROVE  Moves(rate, p, Part(p, a), Part(p, b))
<1> DEFINE x == Part(p, a)
           y == Part(p, b)
           k == AbsOf(rate)
           z == (p * k) \div InterestPrecision
<1>1. k \in Nat /\ x \in Int /\ y \in Int /\ z \in Int
  <2>1. k \in Nat
    BY DEF AbsOf
  <2>2. x \in Int /\ y \in Int
    BY PartGrows
  <2>3. p * k \in Int
    BY <2>1, Product
  <2> QED
    BY <2>1, <2>2, <2>3, Rounded
<1>2. CASE rate >= 0
  <2>1. a =< b /\ b =< a + k
    BY <1>2 DEF AbsOf
  <2>2. x =< y /\ y =< x + z + 1
    BY <1>1, <2>1, PartGrows, PartBy
  <2>3. rate =< 0 => y =< x
    BY PartGrows
  <2> HIDE DEF x, y, k
  <2>4. AbsOf(y - x) =< z + 1
    BY <1>1, <2>2 DEF AbsOf
  <2> QED
    BY <1>1, <2>2, <2>3, <2>4 DEF Moves, DaysWorth, x, y, k
<1>3. CASE rate < 0
  <2>1. b =< a /\ a =< b + k
    BY <1>3 DEF AbsOf
  <2>2. y =< x /\ x =< y + z + 1
    BY <1>1, <2>1, PartGrows, PartBy
  <2> HIDE DEF x, y, k
  <2>4. AbsOf(y - x) =< z + 1
    BY <1>1, <2>2 DEF AbsOf
  <2> QED
    BY <1>1, <1>3, <2>2, <2>4 DEF Moves, DaysWorth, x, y, k
<1> QED
  BY <1>2, <1>3

\* Until the multisig sets a price, the price of the next period is what the rate makes
\* of the current one until then.
PlannedPrice ==
    ~ overridden =>
        schedule.nextTargetPrice =
            Part(schedule.currentTargetPrice,
                 AccruedOver(schedule.currentInterestRate,
                             schedule.nextPeriodStart - schedule.currentPeriodStart))

LEMMA WholePart ==
    ASSUME NEW p \in Nat
    PROVE  Part(p, InterestPrecision) = p
<1>1. p * InterestPrecision = InterestPrecision * p /\ p * InterestPrecision \in Int
  OBVIOUS
<1>2. InterestPrecision * p =< p * InterestPrecision /\ p * InterestPrecision =< InterestPrecision * p
  BY <1>1
<1>3. (p * InterestPrecision) \div InterestPrecision \in Int
  BY <1>1, Rounded
<1> QED
  BY <1>1, <1>2, <1>3, QuotientAtLeast, QuotientAtMost DEF Part

\* Whole days of a period, and what the period's price is after them.
LEMMA WholeDays ==
    ASSUME NEW time \in Int
    PROVE  /\ time \div Day \in Int
           /\ Day * (time \div Day) =< time /\ time + 1 =< Day * (time \div Day + 1)
<1>1. /\ time \div Day \in Int /\ Day * (time \div Day) \in Int
      /\ Day * (time \div Day) =< time /\ time < Day * (time \div Day) + Day
  BY Rounded
<1>2. Day * (time \div Day + 1) = Day * (time \div Day) + Day
  BY <1>1
<1> QED
  BY <1>1, <1>2

\* A second later at most one more day is over.
LEMMA DayByDay ==
    ASSUME NEW p \in Nat, NEW rate \in Int, NEW time \in Int
    PROVE  Moves(rate, p, Part(p, InterestPrecision + rate * (time \div Day)),
                          Part(p, InterestPrecision + rate * ((time + 1) \div Day)))
<1> DEFINE q == time \div Day
           u == (time + 1) \div Day
<1>1. q \in Int /\ Day * q =< time /\ time + 1 =< Day * (q + 1)
  BY WholeDays
<1> HIDE DEF q
<1>2. Day * q =< time + 1
  BY <1>1
<1>3. u \in Int /\ q =< u /\ u =< q + 1
  BY <1>1, <1>2, Rounded, QuotientAtLeast, QuotientAtMost
<1> HIDE DEF u
<1>4. /\ rate * q \in Int /\ rate * u \in Int
      /\ rate * u = rate * q \/ rate * u = rate * q + rate
  <2>1. u = q \/ u = q + 1
    BY <1>1, <1>3
  <2>2. rate * (q + 1) = rate * q + rate /\ rate * q \in Int
    BY <1>1
  <2> QED
    BY <2>1, <2>2
<1> DEFINE a == InterestPrecision + rate * q
           b == InterestPrecision + rate * u
<1>5. /\ a \in Int /\ b \in Int
      /\ rate >= 0 => a =< b /\ b =< a + rate
      /\ rate =< 0 => b =< a /\ a + rate =< b
  BY <1>4
<1> HIDE DEF a, b
<1>6. Moves(rate, p, Part(p, a), Part(p, b))
  BY <1>5, PriceMoves
<1> QED
  BY <1>6 DEF a, b, q, u

\* What a period has made of the price, in seconds, against what it is in whole days.
LEMMA AtTheEnd ==
    ASSUME NEW p \in Nat, NEW rate \in Int, NEW time \in Int, NEW length \in Int,
           time =< length, length =< time + 1
    PROVE  Moves(rate, p, Part(p, InterestPrecision + rate * (time \div Day)),
                          Part(p, AccruedOver(rate, length)))
<1> DEFINE q == time \div Day
<1>1. q \in Int /\ Day * q =< time /\ time + 1 =< Day * (q + 1)
  BY WholeDays
<1> HIDE DEF q
<1>2. Day * q =< length /\ length =< Day * (q + 1)
  BY <1>1
<1> DEFINE a == InterestPrecision + rate * q
           b == AccruedOver(rate, length)
<1>3. /\ b \in Int /\ rate * q \in Int
      /\ rate >= 0 => InterestPrecision + rate * q =< b /\ b =< InterestPrecision + rate * q + rate
      /\ rate =< 0 => b =< InterestPrecision + rate * q /\ InterestPrecision + rate * q + rate =< b
  BY <1>1, <1>2, AccruedDays
<1> HIDE DEF b
<1>4. /\ a \in Int
      /\ rate >= 0 => a =< b /\ b =< a + rate
      /\ rate =< 0 => b =< a /\ a + rate =< b
  BY <1>3
<1> HIDE DEF a
<1>5. Moves(rate, p, Part(p, a), Part(p, b))
  BY <1>3, <1>4, PriceMoves
<1> QED
  BY <1>5 DEF a, b, q

\* The price read at a time.
LEMMA PriceRead ==
    ASSUME NEW r \in Schedule, NEW t \in Nat
    PROVE  /\ targetPrice(r, t) =
                  Part(periodPrice(r, t),
                       InterestPrecision
                         + interestRate(r, t) * ((t - periodStart(r, t)) \div Day))
           /\ interestRate(r, t) \in Int /\ periodPrice(r, t) \in Nat
           /\ periodStart(r, t) \in Nat
<1>1. targetPrice(r, t) =
          Part(periodPrice(r, t),
               InterestPrecision
                 + interestRate(r, t) * ((t - periodStart(r, t)) \div Day))
  BY DEF targetPrice, accumulatedRate, daysInterest, Part
<1>2. /\ interestRate(r, t) \in Int /\ periodPrice(r, t) \in Nat
      /\ periodStart(r, t) \in Nat
  BY DEF interestRate, periodPrice, periodStart, Schedule
<1> QED
  BY <1>1, <1>2

\* The price of a period at its start.
LEMMA PriceAtStart ==
    ASSUME NEW r \in Schedule, NEW t \in Nat, t = r.nextPeriodStart
    PROVE  targetPrice(r, t) = r.nextTargetPrice
<1>1. /\ periodPrice(r, t) = r.nextTargetPrice /\ periodStart(r, t) = t
      /\ r.nextTargetPrice \in Nat
  BY DEF periodPrice, periodStart, Schedule
<1>2. 0 \div Day = 0
  OBVIOUS
<1>3. (t - periodStart(r, t)) \div Day = 0
  <2>1. t - periodStart(r, t) = 0
    BY <1>1
  <2> QED
    BY <2>1, <1>2
<1>4. interestRate(r, t) \in Int /\ interestRate(r, t) * 0 = 0
  BY PriceRead
<1>5. targetPrice(r, t) = Part(r.nextTargetPrice, InterestPrecision)
  BY <1>1, <1>3, <1>4, PriceRead
<1> QED
  BY <1>1, <1>5, WholePart

\* Where nothing changes nothing moves.
LEMMA SameMoves ==
    ASSUME NEW r \in Schedule, NEW t \in Nat
    PROVE  Moves(interestRate(r, t), periodPrice(r, t), targetPrice(r, t), targetPrice(r, t))
<1> DEFINE rate == interestRate(r, t)
           price == periodPrice(r, t)
           q == (t - periodStart(r, t)) \div Day
           a == InterestPrecision + rate * q
<1>1. rate \in Int /\ price \in Nat /\ t - periodStart(r, t) \in Int
  BY PriceRead
<1>2. q \in Int
  BY <1>1, WholeDays
<1>3. a \in Int
  <2> HIDE DEF rate, q
  <2>1. rate * q \in Int
    BY <1>1, <1>2
  <2> QED
    BY <2>1
<1>4. targetPrice(r, t) = Part(price, a)
  BY PriceRead
<1> HIDE DEF rate, price, q, a
<1>5. Moves(rate, price, Part(price, a), Part(price, a))
  <2>1. /\ rate >= 0 => a =< a /\ a =< a + rate
        /\ rate =< 0 => a =< a /\ a + rate =< a
    BY <1>1, <1>3
  <2> QED
    BY <1>1, <1>3, <2>1, PriceMoves
<1> QED
  BY <1>4, <1>5 DEF rate, price

\* Time passes.
LEMMA TickMoves ==
    ASSUME NEW r \in Schedule, NEW t \in Nat,
           r.nextTargetPrice =
               Part(r.currentTargetPrice,
                    AccruedOver(r.currentInterestRate,
                                r.nextPeriodStart - r.currentPeriodStart))
    PROVE  Moves(interestRate(r, t), periodPrice(r, t),
                 targetPrice(r, t), targetPrice(r, t + 1))
<1> DEFINE rate == interestRate(r, t)
           price == periodPrice(r, t)
           start == periodStart(r, t)
<1>1. /\ targetPrice(r, t) = Part(price, InterestPrecision + rate * ((t - start) \div Day))
      /\ rate \in Int /\ price \in Nat /\ start \in Nat /\ t + 1 \in Nat
      /\ r.nextPeriodStart \in Nat
  BY PriceRead DEF Schedule
<1>2. CASE t + 1 = r.nextPeriodStart
  <2>1. /\ rate = r.currentInterestRate /\ price = r.currentTargetPrice
        /\ start = r.currentPeriodStart
    BY <1>2 DEF interestRate, periodPrice, periodStart
  <2>2. targetPrice(r, t + 1) = Part(price, AccruedOver(rate, (t + 1) - start))
    BY <1>1, <1>2, <2>1, PriceAtStart
  <2> HIDE DEF rate, price, start
  <2>3. Moves(rate, price, Part(price, InterestPrecision + rate * ((t - start) \div Day)),
                           Part(price, AccruedOver(rate, (t + 1) - start)))
    <3>1. t - start \in Int /\ (t + 1) - start \in Int
          /\ t - start =< (t + 1) - start /\ (t + 1) - start =< (t - start) + 1
      BY <1>1
    <3> QED
      BY <1>1, <3>1, AtTheEnd
  <2> QED
    BY <1>1, <2>2, <2>3 DEF rate, price
<1>3. CASE t + 1 # r.nextPeriodStart
  <2>1. \/ t < r.nextPeriodStart /\ t + 1 < r.nextPeriodStart
        \/ ~ (t < r.nextPeriodStart) /\ ~ (t + 1 < r.nextPeriodStart)
    <3> DEFINE n == r.nextPeriodStart
    <3>1. n \in Nat /\ t + 1 # n
      BY <1>1, <1>3
    <3> HIDE DEF n
    <3>2. \/ t < n /\ t + 1 < n
          \/ ~ (t < n) /\ ~ (t + 1 < n)
      BY <3>1
    <3> QED
      BY <3>2 DEF n
  <2>2. /\ interestRate(r, t + 1) = rate /\ periodPrice(r, t + 1) = price
        /\ periodStart(r, t + 1) = start
    BY <2>1 DEF interestRate, periodPrice, periodStart
  <2>3. targetPrice(r, t + 1) =
            Part(price, InterestPrecision + rate * (((t + 1) - start) \div Day))
    BY <1>1, <2>2, PriceRead
  <2> HIDE DEF rate, price, start
  <2>4. t - start \in Int /\ (t + 1) - start = (t - start) + 1
    BY <1>1
  <2>5. Moves(rate, price, Part(price, InterestPrecision + rate * ((t - start) \div Day)),
              Part(price, InterestPrecision + rate * (((t - start) + 1) \div Day)))
    BY <1>1, <2>4, DayByDay
  <2> QED
    BY <1>1, <2>3, <2>4, <2>5 DEF rate, price
<1> QED
  BY <1>2, <1>3

\* A refresh plans the price the rate in force makes until the start it plans; if that
\* is now, the price in force was already read that way.
LEMMA RefreshMoves ==
    ASSUME NEW r \in Schedule, NEW t \in Nat, NEW next \in Int, NEW start \in Nat,
           NEW s \in RefreshInterestRate(r, t, next, start)
    PROVE  /\ s.nextTargetPrice =
                  Part(s.currentTargetPrice,
                       AccruedOver(s.currentInterestRate,
                                   s.nextPeriodStart - s.currentPeriodStart))
           /\ Moves(interestRate(r, t), periodPrice(r, t),
                    targetPrice(r, t), targetPrice(s, t))
<1> DEFINE rate == interestRate(r, t)
           price == periodPrice(r, t)
           begun == periodStart(r, t)
           grown == AccruedOver(rate, start - begun)
<1>1. /\ targetPrice(r, t) = Part(price, InterestPrecision + rate * ((t - begun) \div Day))
      /\ rate \in Int /\ price \in Nat /\ begun \in Nat
  BY PriceRead
<1>2. /\ s \in Schedule /\ s.nextPeriodStart = start /\ start >= t
      /\ s.currentInterestRate = rate
  BY RefreshFacts
<1>3. /\ s.currentTargetPrice = price /\ s.currentPeriodStart = begun
      /\ s.nextTargetPrice = Part(price, grown)
  <2> DEFINE q == Roll(r, t)
             p == (q.currentTargetPrice
                     * AccruedOver(q.currentInterestRate, start - q.currentPeriodStart))
                   \div InterestPrecision
  <2>1. /\ q \in Schedule /\ q.currentInterestRate = rate /\ q.currentPeriodStart = begun
        /\ q.currentTargetPrice = price
    BY RollFacts
  <2>2. s = [q EXCEPT !.nextInterestRate = next, !.nextPeriodStart = start,
                      !.nextTargetPrice = p]
    BY DEF RefreshInterestRate, Answer
  <2>3. p = Part(price, grown)
    BY <2>1 DEF Part
  <2> HIDE DEF q, p, rate, price, begun, grown
  <2> QED
    BY <2>1, <2>2, <2>3 DEF Schedule
<1>4. s.nextTargetPrice =
          Part(s.currentTargetPrice,
               AccruedOver(s.currentInterestRate, s.nextPeriodStart - s.currentPeriodStart))
  BY <1>2, <1>3
<1>5. CASE start = t
  <2>1. targetPrice(s, t) = Part(price, grown)
    BY <1>2, <1>3, <1>5, PriceAtStart
  <2> HIDE DEF rate, price, begun
  <2>2. t - begun \in Int /\ t - begun =< t - begun /\ t - begun =< (t - begun) + 1
    BY <1>1
  <2>3. Moves(rate, price, Part(price, InterestPrecision + rate * ((t - begun) \div Day)),
                           Part(price, AccruedOver(rate, t - begun)))
    BY <1>1, <2>2, AtTheEnd
  <2> QED
    BY <1>1, <1>4, <1>5, <2>1, <2>3 DEF rate, price
<1>6. CASE start # t
  <2>1. t < s.nextPeriodStart
    BY <1>2, <1>6
  <2>2. interestRate(s, t) = rate /\ periodPrice(s, t) = price /\ periodStart(s, t) = begun
    BY <1>2, <1>3, <2>1 DEF interestRate, periodPrice, periodStart
  <2>3. targetPrice(s, t) = targetPrice(r, t)
    BY <1>1, <1>2, <2>2, PriceRead
  <2> QED
    BY <1>4, <2>3, SameMoves
<1> QED
  BY <1>5, <1>6

LEMMA InitPlanned == Init => PlannedPrice
<1> SUFFICES ASSUME Init PROVE PlannedPrice
  OBVIOUS
<1>1. /\ schedule.nextTargetPrice = One /\ schedule.currentTargetPrice = One
      /\ schedule.currentInterestRate = 0 /\ One \in Nat
      /\ schedule.nextPeriodStart - schedule.currentPeriodStart = Day
  BY DEF Init, InitSchedule
<1>2. 0 * Day = 0 /\ 0 \div Day = 0
  OBVIOUS
<1>3. AccruedOver(0, Day) = InterestPrecision
  BY <1>2 DEF AccruedOver
<1> QED
  BY <1>1, <1>3, WholePart DEF PlannedPrice

\* A step keeps the plan, and moves the price as the rate says.
LEMMA StepMoves ==
    ASSUME IInv, PlannedPrice, [Next]_vars, ~ overridden'
    PROVE  /\ PlannedPrice'
           /\ Moves(interestRate(schedule, now), periodPrice(schedule, now),
                    targetPrice(schedule, now), targetPrice(schedule', now'))
<1>1. schedule \in Schedule /\ now \in Nat /\ period \in Nat \ {0}
  BY DEF IInv, TypeOK
<1>2. CASE UNCHANGED <<schedule, now, overridden>>
  BY <1>1, <1>2, SameMoves DEF PlannedPrice
<1>3. CASE Tick
  <2>1. now' = now + 1 /\ schedule' = schedule /\ ~ overridden
    BY <1>3 DEF Tick
  <2>2. PlannedPrice'
    BY <2>1 DEF PlannedPrice
  <2> QED
    BY <1>1, <2>1, <2>2, TickMoves DEF PlannedPrice
<1>4. CASE \E p \in TwaPrices : refreshInterestRate(p)
  <2>1. PICK p \in TwaPrices : refreshInterestRate(p)
    BY <1>4
  <2> DEFINE rate == interestRate(schedule, now) + RateStep(p)
             start == periodStart(schedule, now) + period
  <2>2. rate \in Int /\ start \in Nat
    BY <1>1, PriceRead, RateStepValues
  <2>3. schedule' \in RefreshInterestRate(schedule, now, rate, start) /\ now' = now
    BY <2>1 DEF refreshInterestRate
  <2> HIDE DEF rate, start
  <2> QED
    BY <1>1, <2>2, <2>3, RefreshMoves DEF PlannedPrice
<1> QED
  BY <1>2, <1>3, <1>4 DEF Next, vars, updateInterestRate, setInterestRate, setTargetPrice,
                          setPeriodStart, setPeriod, writeOff

\* However often and late refreshes fall, and across every boundary of periods, the
\* target price moves in the direction of the rate in force and by a day's worth of it
\* at most, until the multisig or a write-off sets something.
THEOREM PriceMovesByDays == Spec => PriceFollowsRate
<1> DEFINE Step ==
             ~ overridden' =>
                 LET before == targetPrice(schedule, now)
                     after == targetPrice(schedule, now)'
                     rate == interestRate(schedule, now)
                 IN  /\ rate >= 0 => after >= before
                     /\ rate =< 0 => after =< before
                     /\ AbsOf(after - before) =< DaysWorth(periodPrice(schedule, now), rate)
<1>1. IInv /\ PlannedPrice /\ [Next]_vars => [Step]_vars
  BY StepMoves DEF Moves
<1>2. IInv /\ PlannedPrice /\ [Next]_vars => PlannedPrice'
  <2>1. [Next]_vars /\ overridden' => PlannedPrice'
    BY DEF PlannedPrice
  <2> QED
    BY <2>1, StepMoves
<1>3. Spec => []IInv
  BY SpecIInv
<1> QED
  BY <1>1, <1>2, <1>3, InitPlanned, PTL DEF Spec, PriceFollowsRate

-----------------------------------------------------------------------------
(* The composed system *)

\* A step of the composed system is a step of the governance chain, or none of it.
LEMMA SyncStep == [SyncNext]_syncVars => [Next]_vars
<1> SUFFICES ASSUME [SyncNext]_syncVars PROVE [Next]_vars
  OBVIOUS
<1>1. CASE UNCHANGED syncVars
  BY <1>1 DEF syncVars
<1>2. CASE local
  BY <1>2 DEF local, Next
<1>3. CASE setAlone
  BY <1>3 DEF setAlone, Next
<1>4. CASE \E p \in TwaPrices : refreshAndSend(p)
  BY <1>4 DEF refreshAndSend, Next
<1>5. CASE \E rate \in OverrideRates, start \in 0 .. MaxTime : updateAndSend(rate, start)
  BY <1>5 DEF updateAndSend, Next
<1>6. CASE \E r \in Remotes : lzReceive(r) \/ \E m \in failed[r] : retryMessage(r, m)
  BY <1>6 DEF lzReceive, retryMessage
<1>7. CASE \E r \in Remotes, this \in BOOLEAN : setBalancer(r, this)
  BY <1>7 DEF setBalancer
<1>8. CASE \E r \in Remotes : setOnRemote(r)
  BY <1>8 DEF setOnRemote
<1>9. CASE \E r \in Remotes, c, n \in 0 .. MaxTime : setStartsOnRemote(r, c, n)
  BY <1>9 DEF setStartsOnRemote
<1> QED
  BY <1>1, <1>2, <1>3, <1>4, <1>5, <1>6, <1>7, <1>8, <1>9 DEF SyncNext

\* Sending, delivering and retrying do not disturb the governance chain: projected on
\* its schedule, its period and the time, every behaviour is one of BalancerRate.
THEOREM SyncImplementsBalancer == SyncSpec => Spec
<1>1. SyncInit => Init
  BY DEF SyncInit
<1> QED
  BY <1>1, SyncStep, PTL DEF SyncSpec, Spec

-----------------------------------------------------------------------------
(* The other chains *)

\* On every chain the current period starts no later than the next.
RemoteOrdered ==
    \A r \in Remotes : remote[r].currentPeriodStart =< remote[r].nextPeriodStart

SyncInv == IInv /\ SyncTypeOK /\ RemoteOrdered

LEMMA InitSyncInv == SyncInit => SyncInv
<1> SUFFICES ASSUME SyncInit PROVE SyncInv
  OBVIOUS
<1>1. IInv
  BY InitIInv DEF SyncInit
<1>2. /\ InitSchedule(now, One) \in Schedule
      /\ InitSchedule(now, One).currentPeriodStart =< InitSchedule(now, One).nextPeriodStart
  <2>1. schedule = InitSchedule(now, One)
    BY DEF SyncInit, Init
  <2> QED
    BY <1>1, <2>1 DEF IInv, TypeOK, PeriodOrder
<1>3. SyncTypeOK
  BY <1>1, <1>2 DEF IInv, SyncInit, SyncTypeOK
<1>4. RemoteOrdered
  BY <1>2 DEF SyncInit, RemoteOrdered
<1> QED
  BY <1>1, <1>3, <1>4 DEF SyncInv

\* A schedule in order in the place of another keeps the types and the order.
LEMMA OrderedKeeps ==
    ASSUME SyncTypeOK, RemoteOrdered, NEW r \in Remotes, NEW t \in Schedule,
           t.currentPeriodStart =< t.nextPeriodStart, remote' = [remote EXCEPT ![r] = t]
    PROVE  remote' \in [Remotes -> Schedule] /\ RemoteOrdered'
<1>1. remote \in [Remotes -> Schedule]
  BY DEF SyncTypeOK
<1>2. remote' \in [Remotes -> Schedule]
  BY <1>1
<1>3. ASSUME NEW q \in Remotes
      PROVE  remote'[q].currentPeriodStart =< remote'[q].nextPeriodStart
  <2>1. CASE q = r
    BY <1>1, <2>1
  <2>2. CASE q # r
    BY <1>1, <2>2 DEF RemoteOrdered
  <2> QED
    BY <2>1, <2>2
<1> QED
  BY <1>2, <1>3 DEF RemoteOrdered

\* A chain that applies a message: by RefreshFacts its schedule stays in order.
LEMMA AppliedKeeps ==
    ASSUME SyncTypeOK, RemoteOrdered, NEW r \in Remotes, NEW m \in Message,
           NEW t \in Refreshed(r, m), remote' = [remote EXCEPT ![r] = t]
    PROVE  remote' \in [Remotes -> Schedule] /\ RemoteOrdered'
<1>1. /\ remote[r] \in Schedule /\ now \in Nat
      /\ m.dailyRate \in Int /\ m.periodStart \in Nat
  BY DEF SyncTypeOK, TypeOK, Message
<1>2. t \in RefreshInterestRate(remote[r], now, m.dailyRate, m.periodStart)
  BY DEF Refreshed
<1>3. t \in Schedule /\ t.currentPeriodStart =< t.nextPeriodStart
  BY <1>1, <1>2, RefreshFacts
<1> QED
  BY <1>3, OrderedKeeps

\* After a refresh the current period has begun, if it had before.
LEMMA RefreshBegun ==
    ASSUME NEW s \in Schedule, NEW t \in Nat, NEW rate \in Int, NEW start \in Nat,
           s.currentPeriodStart =< t, NEW u \in RefreshInterestRate(s, t, rate, start)
    PROVE  u.currentPeriodStart =< t
<1> DEFINE q == Roll(s, t)
           p == (q.currentTargetPrice
                   * AccruedOver(q.currentInterestRate, start - q.currentPeriodStart))
                \div InterestPrecision
<1>1. q.currentPeriodStart = periodStart(s, t) /\ q \in Schedule
  BY RollFacts
<1>2. periodStart(s, t) =< t
  BY DEF periodStart, Schedule
<1>3. u = [q EXCEPT !.nextInterestRate = rate, !.nextPeriodStart = start,
                    !.nextTargetPrice = p]
  BY DEF RefreshInterestRate, Answer
<1> HIDE DEF q, p
<1>4. u.currentPeriodStart = q.currentPeriodStart
  BY <1>1, <1>3 DEF Schedule
<1> QED
  BY <1>1, <1>2, <1>4

\* A chain's own rates and prices leave its starts alone; another balancer's refresh
\* rolls them over as this one's does.
LEMMA OwnSetting ==
    ASSUME SyncTypeOK, RemoteOrdered, NEW r \in Remotes, setOnRemote(r)
    PROVE  \E t \in Schedule :
              /\ remote' = [remote EXCEPT ![r] = t]
              /\ t.currentPeriodStart =< t.nextPeriodStart
              /\ remote[r].currentPeriodStart =< now => t.currentPeriodStart =< now
<1> DEFINE s == remote[r]
<1>1. s \in Schedule /\ now \in Nat /\ s.currentPeriodStart =< s.nextPeriodStart
  BY DEF SyncTypeOK, TypeOK, RemoteOrdered
<1>2. /\ OverrideRates \subseteq Int /\ OverridePrices \subseteq Nat
      /\ 0 .. MaxTime \subseteq Nat
  BY BalancerAssumption
<1> HIDE DEF s
<1>3. ASSUME NEW t \in Schedule, t.currentPeriodStart = s.currentPeriodStart,
             t.nextPeriodStart = s.nextPeriodStart, remote' = [remote EXCEPT ![r] = t]
      PROVE  \E u \in Schedule :
                /\ remote' = [remote EXCEPT ![r] = u]
                /\ u.currentPeriodStart =< u.nextPeriodStart
                /\ s.currentPeriodStart =< now => u.currentPeriodStart =< now
  BY <1>1, <1>3
<1>4. ASSUME NEW c \in OverrideRates, NEW n \in OverrideRates,
             NEW t \in SetInterestRate(s, c, n), remote' = [remote EXCEPT ![r] = t]
      PROVE  \E u \in Schedule :
                /\ remote' = [remote EXCEPT ![r] = u]
                /\ u.currentPeriodStart =< u.nextPeriodStart
                /\ s.currentPeriodStart =< now => u.currentPeriodStart =< now
  <2>1. t = [s EXCEPT !.currentInterestRate = c, !.nextInterestRate = n]
    BY DEF SetInterestRate
  <2>2. /\ t \in Schedule /\ t.currentPeriodStart = s.currentPeriodStart
        /\ t.nextPeriodStart = s.nextPeriodStart
    BY <1>1, <1>2, <2>1 DEF Schedule
  <2> QED
    BY <1>3, <1>4, <2>2
<1>5. ASSUME NEW c \in OverridePrices, NEW n \in OverridePrices,
             NEW t, t = [s EXCEPT !.currentTargetPrice = c, !.nextTargetPrice = n],
             remote' = [remote EXCEPT ![r] = t]
      PROVE  \E u \in Schedule :
                /\ remote' = [remote EXCEPT ![r] = u]
                /\ u.currentPeriodStart =< u.nextPeriodStart
                /\ s.currentPeriodStart =< now => u.currentPeriodStart =< now
  <2>1. /\ t \in Schedule /\ t.currentPeriodStart = s.currentPeriodStart
        /\ t.nextPeriodStart = s.nextPeriodStart
    BY <1>1, <1>2, <1>5 DEF Schedule
  <2> QED
    BY <1>3, <1>5, <2>1
<1>6. ASSUME NEW rate \in OverrideRates, NEW start \in 0 .. MaxTime,
             NEW t \in RefreshInterestRate(s, now, rate, start),
             remote' = [remote EXCEPT ![r] = t]
      PROVE  \E u \in Schedule :
                /\ remote' = [remote EXCEPT ![r] = u]
                /\ u.currentPeriodStart =< u.nextPeriodStart
                /\ s.currentPeriodStart =< now => u.currentPeriodStart =< now
  <2>1. rate \in Int /\ start \in Nat
    BY <1>2
  <2>2. t \in Schedule /\ t.currentPeriodStart =< t.nextPeriodStart
    BY <1>1, <2>1, RefreshFacts
  <2>3. s.currentPeriodStart =< now => t.currentPeriodStart =< now
    BY <1>1, <2>1, RefreshBegun
  <2> QED
    BY <1>6, <2>2, <2>3
<1>7. CASE \E c, n \in OverrideRates : Leaves(r, SetInterestRate(remote[r], c, n))
  BY <1>4, <1>7 DEF Leaves, s
<1>8. CASE \E c, n \in OverridePrices : Leaves(r, SetTargetPrice(remote[r], c, n))
  <2>1. PICK c \in OverridePrices, n \in OverridePrices :
           Leaves(r, SetTargetPrice(s, c, n))
    BY <1>8 DEF s
  <2>2. remote' = [remote EXCEPT ![r] =
                      [s EXCEPT !.currentTargetPrice = c, !.nextTargetPrice = n]]
    BY <2>1 DEF Leaves, SetTargetPrice, Answer
  <2> QED
    BY <1>5, <2>2 DEF s
<1>9. CASE \E p \in OverridePrices : Leaves(r, WriteOffPrice(remote[r], now, p))
  <2>1. PICK p \in OverridePrices : Leaves(r, WriteOffPrice(s, now, p))
    BY <1>9 DEF s
  <2>2. remote' = [remote EXCEPT ![r] =
                      [s EXCEPT !.currentTargetPrice = p, !.nextTargetPrice = p]]
    BY <2>1 DEF Leaves, WriteOffPrice, Answer
  <2> QED
    BY <1>5, <2>2 DEF s
<1>10. CASE \E rate \in OverrideRates, start \in 0 .. MaxTime :
              ~ serves[r] /\ Leaves(r, RefreshInterestRate(remote[r], now, rate, start))
  BY <1>6, <1>10 DEF Leaves, s
<1> QED
  BY <1>7, <1>8, <1>9, <1>10 DEF setOnRemote

\* Starts that a chain sets itself are in order.
LEMMA OwnStarts ==
    ASSUME SyncTypeOK, NEW r \in Remotes, NEW c \in 0 .. MaxTime, NEW n \in 0 .. MaxTime,
           setStartsOnRemote(r, c, n)
    PROVE  \E t \in Schedule :
              /\ remote' = [remote EXCEPT ![r] = t]
              /\ t.currentPeriodStart =< t.nextPeriodStart
<1> DEFINE s == remote[r]
<1>1. s \in Schedule /\ c \in Nat /\ n \in Nat
  BY BalancerAssumption DEF SyncTypeOK
<1>2. PICK t \in SetPeriodStart(s, c, n) : remote' = [remote EXCEPT ![r] = t]
  BY DEF setStartsOnRemote, Leaves
<1>3. t = [s EXCEPT !.currentPeriodStart = c, !.nextPeriodStart = n] /\ c =< n
  BY DEF SetPeriodStart, Answer
<1> HIDE DEF s
<1>4. t \in Schedule /\ t.currentPeriodStart =< t.nextPeriodStart
  BY <1>1, <1>3 DEF Schedule
<1> QED
  BY <1>2, <1>4

LEMMA NextSyncInv == SyncInv /\ [SyncNext]_syncVars => SyncInv'
<1> SUFFICES ASSUME SyncInv, [SyncNext]_syncVars PROVE SyncInv'
  OBVIOUS
<1>1. IInv'
  BY SyncStep, NextIInv DEF SyncInv
<1>2. TypeOK /\ TypeOK' /\ SyncTypeOK /\ RemoteOrdered
  BY <1>1 DEF SyncInv, IInv
<1>3. CASE UNCHANGED <<remote, network, serves, history>>
  BY <1>1, <1>2, <1>3 DEF SyncInv, SyncTypeOK, RemoteOrdered, network, history
<1>4. CASE setAlone
  BY <1>1, <1>2, <1>4 DEF setAlone, SyncInv, SyncTypeOK, RemoteOrdered, network
<1>5. ASSUME NEW rate, NEW start,
             rate = schedule'.nextInterestRate, start = schedule'.nextPeriodStart,
             sendInterestRate(rate, start)
      PROVE  SyncInv'
  <2> DEFINE m == [nonce |-> sent + 1, dailyRate |-> rate, periodStart |-> start,
                   sentAt |-> now, replaced |-> schedule.nextPeriodStart]
  <2>1. m \in Message
    BY <1>2, <1>5 DEF TypeOK, Schedule, SyncTypeOK, Message
  <2>2. /\ inbox' = [r \in Remotes |-> Append(inbox[r], m)] /\ sent' = sent + 1
        /\ UNCHANGED <<remote, failed, serves, history>>
    BY <1>5 DEF sendInterestRate
  <2> HIDE DEF m
  <2>3. inbox' \in [Remotes -> Seq(Message)]
    BY <1>2, <2>1, <2>2 DEF SyncTypeOK
  <2> QED
    BY <1>1, <1>2, <2>2, <2>3 DEF SyncInv, SyncTypeOK, RemoteOrdered, history
<1>6. ASSUME NEW r \in Remotes, lzReceive(r)
      PROVE  SyncInv'
  <2> DEFINE m == Head(inbox[r])
  <2>1. inbox[r] \in Seq(Message) /\ inbox[r] # <<>>
    BY <1>2, <1>6 DEF SyncTypeOK, lzReceive
  <2>2. m \in Message /\ Tail(inbox[r]) \in Seq(Message)
    BY <2>1
  <2>3. inbox' \in [Remotes -> Seq(Message)]
    BY <1>2, <1>6, <2>2 DEF SyncTypeOK, lzReceive
  <2>4. UNCHANGED <<vars, sent, serves, ownStarts>>
    BY <1>6 DEF lzReceive
  <2>5. m.nonce \in Nat
    BY <2>2 DEF Message
  <2> HIDE DEF m
  <2>6. CASE /\ \E t \in Refreshed(r, m) : remote' = [remote EXCEPT ![r] = t]
             /\ applied' = [applied EXCEPT ![r] = m.nonce]
             /\ inStep' = [inStep EXCEPT ![r] = @ /\ SamePeriod(m)]
             /\ UNCHANGED <<failed, refused>>
    <3>1. remote' \in [Remotes -> Schedule] /\ RemoteOrdered'
      BY <1>2, <2>2, <2>6, AppliedKeeps
    <3>2. (inStep[r] /\ SamePeriod(m)) \in BOOLEAN
      OBVIOUS
    <3>3. inStep' \in [Remotes -> BOOLEAN]
      <4>1. inStep \in [Remotes -> BOOLEAN]
        BY <1>2 DEF SyncTypeOK
      <4> HIDE DEF SamePeriod
      <4> QED
        BY <4>1, <3>2, <2>6, Zenon
    <3>4. applied' \in [Remotes -> Nat]
      BY <1>2, <2>5, <2>6 DEF SyncTypeOK
    <3> QED
      BY <1>1, <1>2, <2>3, <2>4, <2>6, <3>1, <3>3, <3>4 DEF SyncInv, SyncTypeOK
  <2>7. CASE /\ failed' = [failed EXCEPT ![r] = @ \cup {m}]
             /\ inStep' = [inStep EXCEPT ![r] = FALSE]
             /\ refused' = [refused EXCEPT ![r] = IF RefusedInTime(r, m)
                                                       THEN @ \cup {m.nonce} ELSE @]
             /\ UNCHANGED <<remote, applied>>
    <3>1. failed' \in [Remotes -> SUBSET Message]
      BY <1>2, <2>2, <2>7 DEF SyncTypeOK
    <3>2. refused' \in [Remotes -> SUBSET Nat]
      BY <1>2, <2>5, <2>7 DEF SyncTypeOK
    <3>3. inStep' \in [Remotes -> BOOLEAN]
      BY <1>2, <2>7 DEF SyncTypeOK
    <3> QED
      BY <1>1, <1>2, <2>3, <2>4, <2>7, <3>1, <3>2, <3>3
         DEF SyncInv, SyncTypeOK, RemoteOrdered
  <2> QED
    BY <1>6, <2>6, <2>7 DEF lzReceive, m
<1>7. ASSUME NEW r \in Remotes, NEW m \in failed[r], retryMessage(r, m)
      PROVE  SyncInv'
  <2>1. m \in Message /\ m.nonce \in Nat
    BY <1>2 DEF SyncTypeOK, Message
  <2>2. remote' \in [Remotes -> Schedule] /\ RemoteOrdered'
    BY <1>2, <1>7, <2>1, AppliedKeeps DEF retryMessage
  <2>3. failed' \in [Remotes -> SUBSET Message] /\ applied' \in [Remotes -> Nat]
    BY <1>2, <1>7, <2>1 DEF SyncTypeOK, retryMessage
  <2> QED
    BY <1>1, <1>2, <1>7, <2>2, <2>3 DEF retryMessage, SyncInv, SyncTypeOK
<1>8. ASSUME NEW r \in Remotes, NEW this \in BOOLEAN, setBalancer(r, this)
      PROVE  SyncInv'
  BY <1>1, <1>2, <1>8 DEF setBalancer, SyncInv, SyncTypeOK, RemoteOrdered, network, history
<1>9. ASSUME NEW r \in Remotes, setOnRemote(r)
      PROVE  SyncInv'
  <2>1. remote' \in [Remotes -> Schedule] /\ RemoteOrdered'
    BY <1>2, <1>9, OwnSetting, OrderedKeeps
  <2>2. inStep' \in [Remotes -> BOOLEAN]
    BY <1>2, <1>9 DEF setOnRemote, SyncTypeOK
  <2>3. UNCHANGED <<vars, network, serves, applied, ownStarts, refused>>
    BY <1>9 DEF setOnRemote
  <2> QED
    BY <1>1, <1>2, <2>1, <2>2, <2>3 DEF SyncInv, SyncTypeOK, network
<1>10. ASSUME NEW r \in Remotes, NEW c \in 0 .. MaxTime, NEW n \in 0 .. MaxTime,
              setStartsOnRemote(r, c, n)
       PROVE  SyncInv'
  <2>1. remote' \in [Remotes -> Schedule] /\ RemoteOrdered'
    BY <1>2, <1>10, OwnStarts, OrderedKeeps
  <2>2. inStep' \in [Remotes -> BOOLEAN] /\ ownStarts' \in [Remotes -> BOOLEAN]
    BY <1>2, <1>10 DEF setStartsOnRemote, SyncTypeOK
  <2>3. UNCHANGED <<vars, network, serves, applied, refused>>
    BY <1>10 DEF setStartsOnRemote
  <2> QED
    BY <1>1, <1>2, <2>1, <2>2, <2>3 DEF SyncInv, SyncTypeOK, network
<1> QED
  BY <1>3, <1>4, <1>5, <1>6, <1>7, <1>8, <1>9, <1>10
     DEF SyncNext, syncVars, local, refreshAndSend, updateAndSend

\* The schedule of every chain keeps its types and order, through late, stored and
\* retried messages and balancers that are replaced.
THEOREM SyncTypeCorrect == SyncSpec => [](SyncTypeOK /\ RemoteOrdered)
<1>1. SyncInv => SyncTypeOK /\ RemoteOrdered
  BY DEF SyncInv
<1> QED
  BY <1>1, InitSyncInv, NextSyncInv, PTL DEF SyncSpec

-----------------------------------------------------------------------------
(* What a retry may bring back *)

\* The messages of a path are numbered in the order they were sent: those under way
\* are the last ones, and what was applied or stored was sent before them.
Numbered ==
    \A r \in Remotes :
        /\ Len(inbox[r]) =< sent
        /\ \A i \in 1 .. Len(inbox[r]) : inbox[r][i].nonce = sent - Len(inbox[r]) + i
        /\ applied[r] =< sent - Len(inbox[r])
        /\ \A m \in failed[r] : m.nonce =< sent - Len(inbox[r])

\* The start of the message is past, or its rate out of range: no balancer, schedule or
\* later time makes its refresh succeed.
Stale(m) == m.periodStart < now \/ ~ (MinRate =< m.dailyRate /\ m.dailyRate < MaxRate)

\* A stored message was refused by the chain as it was then, or is stale for ever.
StoredForReason ==
    \A r \in Remotes : \A m \in failed[r] : m.nonce \in refused[r] \/ Stale(m)

\* The current period of a chain has begun, unless its own multisig moved its starts:
\* only a roll-over moves them else, to one whose time has come.
RemoteBegun ==
    \A r \in Remotes : ~ ownStarts[r] => remote[r].currentPeriodStart =< now

RetryInv == SyncInv /\ Numbered /\ StoredForReason /\ RemoteBegun

\* Time does not run backwards.
LEMMA TimeGrows == SyncInv /\ [SyncNext]_syncVars => now' \in Nat /\ now' >= now
<1> SUFFICES ASSUME SyncInv, [Next]_vars PROVE now' \in Nat /\ now' >= now
  BY SyncStep
<1>1. now \in Nat
  BY DEF SyncInv, IInv, TypeOK
<1>2. now' = now \/ now' = now + 1
  BY DEF Next, Tick, refreshInterestRate, updateInterestRate, setInterestRate,
         setTargetPrice, setPeriodStart, setPeriod, writeOff, vars
<1> QED
  BY <1>1, <1>2

\* A refresh fails for one of the reasons of RefusedInTime, or because the message is
\* stale.
LEMMA RefusedOrStale ==
    ASSUME SyncInv, RemoteBegun, NEW r \in Remotes, NEW m \in Message,
           Refreshed(r, m) = {}, ~ RefusedInTime(r, m), ~ Stale(m)
    PROVE  FALSE
<1>0. /\ m.periodStart >= now /\ MinRate =< m.dailyRate /\ m.dailyRate < MaxRate
      /\ serves[r] /\ ~ Eaten(r, m) /\ ~ (ownStarts[r] /\ Overtaken(r, m))
  <2>1. m.periodStart \in Nat /\ now \in Nat
    BY DEF SyncInv, SyncTypeOK, TypeOK, Message
  <2>2. m.periodStart >= now /\ MinRate =< m.dailyRate /\ m.dailyRate < MaxRate
    BY <2>1 DEF Stale
  <2> HIDE DEF Eaten, Overtaken
  <2> QED
    BY <2>2 DEF RefusedInTime
<1>1. remote[r] \in Schedule /\ now \in Nat /\ m.dailyRate \in Int /\ m.periodStart \in Nat
  BY DEF SyncInv, SyncTypeOK, TypeOK, Message
<1> DEFINE q == Roll(remote[r], now)
           a == AccruedOver(q.currentInterestRate, m.periodStart - q.currentPeriodStart)
<1>2. q \in Schedule /\ q.currentPeriodStart = periodStart(remote[r], now)
  BY <1>1, RollFacts
<1>3. m.periodStart >= q.currentPeriodStart
  <2>1. CASE ownStarts[r]
    <3>1. ~ (m.periodStart < q.currentPeriodStart)
      BY <1>0, <2>1 DEF Overtaken
    <3>2. q.currentPeriodStart \in Nat
      BY <1>2 DEF Schedule
    <3> HIDE DEF q
    <3> QED
      BY <1>1, <3>1, <3>2
  <2>2. CASE ~ ownStarts[r]
    <3>1. remote[r].currentPeriodStart =< now
      BY <2>2 DEF RemoteBegun
    <3> HIDE DEF q
    <3> QED
      BY <1>0, <1>1, <1>2, <3>1 DEF periodStart, Schedule
  <2> QED
    BY <2>1, <2>2
<1>4. q.currentPeriodStart \in Nat /\ q.currentInterestRate \in Int
  BY <1>2 DEF Schedule
<1>5. a \in Int
  <2>1. m.periodStart - q.currentPeriodStart \in Int
    BY <1>1, <1>4
  <2> QED
    BY <1>4, <2>1, AccruedInt
<1>6. a >= 0
  <2>1. ~ (a < 0)
    BY <1>0 DEF Eaten
  <2> HIDE DEF a
  <2> QED
    BY <1>5, <2>1
<1>7. RefreshInterestRate(remote[r], now, m.dailyRate, m.periodStart) = {}
  BY <1>0 DEF Refreshed
<1>8. ~ (/\ m.periodStart >= now
         /\ MinRate =< m.dailyRate /\ m.dailyRate < MaxRate
         /\ m.periodStart >= q.currentPeriodStart
         /\ a >= 0)
  BY <1>7 DEF RefreshInterestRate, Answer
<1> HIDE DEF q, a
<1> QED
  BY <1>0, <1>3, <1>6, <1>8

\* A message whose refresh succeeds is not stale.
LEMMA AppliedNotStale ==
    ASSUME SyncInv, NEW r \in Remotes, NEW m \in Message, Refreshed(r, m) # {}
    PROVE  ~ Stale(m)
<1>1. now \in Nat /\ m.dailyRate \in Int /\ m.periodStart \in Nat
  BY DEF SyncInv, SyncTypeOK, TypeOK, Message
<1>2. /\ m.periodStart >= now
      /\ MinRate =< m.dailyRate /\ m.dailyRate < MaxRate
  BY DEF Refreshed, RefreshInterestRate, Answer
<1> QED
  BY <1>1, <1>2 DEF Stale

LEMMA InitRetryInv == SyncInit => RetryInv
<1> SUFFICES ASSUME SyncInit PROVE RetryInv
  OBVIOUS
<1>1. SyncInv
  BY InitSyncInv
<1>2. Numbered /\ StoredForReason
  BY DEF SyncInit, Numbered, StoredForReason
<1>3. RemoteBegun
  BY DEF SyncInit, Init, InitSchedule, RemoteBegun
<1> QED
  BY <1>1, <1>2, <1>3 DEF RetryInv
\* The actions of the composed system, by what they do to the messages and the chains.
LEMMA SyncCases ==
    ASSUME [SyncNext]_syncVars
    PROVE  \/ UNCHANGED <<remote, network, applied, ownStarts, refused>>
           \/ \E rate, start :
                 /\ rate = schedule'.nextInterestRate /\ start = schedule'.nextPeriodStart
                 /\ sendInterestRate(rate, start)
           \/ \E r \in Remotes : lzReceive(r)
           \/ \E r \in Remotes : \E m \in failed[r] : retryMessage(r, m)
           \/ \E r \in Remotes : setOnRemote(r)
           \/ \E r \in Remotes, c, n \in 0 .. MaxTime : setStartsOnRemote(r, c, n)
<1> QED
  BY DEF SyncNext, syncVars, local, setAlone, setBalancer, refreshAndSend, updateAndSend,
         network, history

\* Sending, delivering and retrying keep the numbering of the messages.
LEMMA NextNumbered ==
    ASSUME SyncInv, Numbered, [SyncNext]_syncVars
    PROVE  Numbered'
<1>1. /\ inbox \in [Remotes -> Seq(Message)] /\ sent \in Nat
      /\ failed \in [Remotes -> SUBSET Message] /\ applied \in [Remotes -> Nat]
  BY DEF SyncInv, SyncTypeOK
<1>2. CASE UNCHANGED <<network, applied>>
  BY <1>2 DEF Numbered, network
<1>3. ASSUME NEW rate, NEW start, sendInterestRate(rate, start)
      PROVE  Numbered'
  <2> SUFFICES ASSUME NEW r \in Remotes
               PROVE  /\ Len(inbox'[r]) =< sent'
                      /\ \A i \in 1 .. Len(inbox'[r]) :
                            inbox'[r][i].nonce = sent' - Len(inbox'[r]) + i
                      /\ applied'[r] =< sent' - Len(inbox'[r])
                      /\ \A m \in failed'[r] : m.nonce =< sent' - Len(inbox'[r])
    BY DEF Numbered
  <2> DEFINE s == inbox[r]
             m == [nonce |-> sent + 1, dailyRate |-> rate, periodStart |-> start,
                   sentAt |-> now, replaced |-> schedule.nextPeriodStart]
  <2>1. /\ s \in Seq(Message) /\ Len(s) \in Nat /\ Len(s) =< sent
        /\ \A i \in 1 .. Len(s) : s[i].nonce = sent - Len(s) + i
        /\ applied[r] =< sent - Len(s)
        /\ \A f \in failed[r] : f.nonce =< sent - Len(s)
    BY <1>1 DEF Numbered
  <2>2. /\ inbox'[r] = Append(s, m) /\ sent' = sent + 1
        /\ failed' = failed /\ applied' = applied
    BY <1>3 DEF sendInterestRate, history
  <2>3. m.nonce = sent + 1
    OBVIOUS
  <2> HIDE DEF s, m
  <2>4. /\ Len(inbox'[r]) = Len(s) + 1
        /\ \A i \in 1 .. Len(s) : inbox'[r][i] = s[i]
        /\ inbox'[r][Len(s) + 1] = m
    BY <2>1, <2>2
  <2>5. sent' - Len(inbox'[r]) = sent - Len(s)
    BY <1>1, <2>1, <2>2, <2>4
  <2>6. ASSUME NEW i \in 1 .. Len(inbox'[r])
        PROVE  inbox'[r][i].nonce = sent' - Len(inbox'[r]) + i
    <3>1. CASE i = Len(s) + 1
      BY <1>1, <2>1, <2>3, <2>4, <2>5, <3>1
    <3>2. CASE i # Len(s) + 1
      <4>1. i \in 1 .. Len(s)
        BY <2>1, <2>4, <3>2
      <4> QED
        BY <2>1, <2>4, <2>5, <4>1
    <3> QED
      BY <3>1, <3>2
  <2> QED
    BY <1>1, <2>1, <2>2, <2>4, <2>5, <2>6
<1>4. ASSUME NEW q \in Remotes, lzReceive(q)
      PROVE  Numbered'
  <2> SUFFICES ASSUME NEW r \in Remotes
               PROVE  /\ Len(inbox'[r]) =< sent'
                      /\ \A i \in 1 .. Len(inbox'[r]) :
                            inbox'[r][i].nonce = sent' - Len(inbox'[r]) + i
                      /\ applied'[r] =< sent' - Len(inbox'[r])
                      /\ \A m \in failed'[r] : m.nonce =< sent' - Len(inbox'[r])
    BY DEF Numbered
  <2> DEFINE s == inbox[r]
             h == Head(inbox[q])
  <2>1. /\ s \in Seq(Message) /\ Len(s) \in Nat /\ Len(s) =< sent
        /\ \A i \in 1 .. Len(s) : s[i].nonce = sent - Len(s) + i
        /\ applied[r] =< sent - Len(s) /\ applied[r] \in Nat
        /\ \A m \in failed[r] : m.nonce =< sent - Len(s)
    BY <1>1 DEF Numbered
  <2>2. sent' = sent
    BY <1>4 DEF lzReceive
  <2>3. CASE r # q
    <3>1. inbox'[r] = s /\ applied'[r] = applied[r] /\ failed'[r] = failed[r]
      BY <1>1, <1>4, <2>3 DEF lzReceive
    <3> HIDE DEF s
    <3> QED
      BY <2>1, <2>2, <3>1
  <2>4. CASE r = q
    <3>1. /\ inbox'[r] = Tail(s) /\ s # <<>>
          /\ applied'[r] \in {applied[r], h.nonce}
          /\ failed'[r] \subseteq failed[r] \cup {h}
      BY <1>1, <1>4, <2>4 DEF lzReceive
    <3>2. h = s[1]
      BY <2>1, <2>4, <3>1
    <3> HIDE DEF s, h
    <3>3. /\ Len(inbox'[r]) = Len(s) - 1 /\ Len(s) > 0
          /\ \A i \in 1 .. Len(s) - 1 : inbox'[r][i] = s[i + 1]
      BY <2>1, <3>1
    <3>4. h.nonce = sent - Len(s) + 1
      BY <2>1, <3>2, <3>3
    <3>5. sent' - Len(inbox'[r]) = sent - Len(s) + 1
      BY <1>1, <2>1, <2>2, <3>3
    <3>6. ASSUME NEW i \in 1 .. Len(inbox'[r])
          PROVE  inbox'[r][i].nonce = sent' - Len(inbox'[r]) + i
      <4>1. i \in 1 .. Len(s) - 1 /\ i + 1 \in 1 .. Len(s)
        BY <2>1, <3>3
      <4>2. inbox'[r][i] = s[i + 1] /\ s[i + 1].nonce = sent - Len(s) + (i + 1)
        BY <2>1, <3>3, <4>1
      <4>3. sent - Len(s) + (i + 1) = (sent - Len(s) + 1) + i
        BY <1>1, <2>1, <4>1
      <4> QED
        BY <3>5, <4>2, <4>3
    <3>7. applied'[r] =< sent - Len(s) + 1
      BY <1>1, <2>1, <3>1, <3>4
    <3>8. ASSUME NEW m \in failed'[r]
          PROVE  m.nonce =< sent - Len(s) + 1
      <4>1. CASE m = h
        BY <1>1, <2>1, <3>4, <4>1
      <4>2. CASE m # h
        <5>1. m \in failed[r] /\ m.nonce \in Nat
          BY <1>1, <3>1, <4>2 DEF Message
        <5> QED
          BY <1>1, <2>1, <5>1
      <4> QED
        BY <4>1, <4>2
    <3> QED
      BY <1>1, <2>1, <2>2, <3>3, <3>5, <3>6, <3>7, <3>8
  <2> QED
    BY <2>3, <2>4
<1>5. ASSUME NEW q \in Remotes, NEW m \in failed[q], retryMessage(q, m)
      PROVE  Numbered'
  BY <1>1, <1>5 DEF retryMessage, Numbered
<1> QED
  BY <1>2, <1>3, <1>4, <1>5, SyncCases DEF setOnRemote, setStartsOnRemote

\* A message is stored for a reason that lasts, and stays stored for it.
LEMMA NextStored ==
    ASSUME SyncInv, RemoteBegun, StoredForReason, [SyncNext]_syncVars
    PROVE  StoredForReason'
<1>1. /\ inbox \in [Remotes -> Seq(Message)] /\ now \in Nat
      /\ failed \in [Remotes -> SUBSET Message] /\ refused \in [Remotes -> SUBSET Nat]
  BY DEF SyncInv, SyncTypeOK, TypeOK
<1>2. now' \in Nat /\ now' >= now
  BY TimeGrows
<1>3. ASSUME NEW m \in Message, Stale(m)
      PROVE  Stale(m)'
  BY <1>1, <1>2, <1>3 DEF Stale, Message
<1>4. ASSUME NEW r \in Remotes, NEW m \in failed[r], refused[r] \subseteq refused'[r]
      PROVE  m.nonce \in refused'[r] \/ Stale(m)'
  <2>1. m \in Message
    BY <1>1
  <2> QED
    BY <1>3, <1>4, <2>1 DEF StoredForReason
<1>5. CASE UNCHANGED <<failed, refused>>
  <2> SUFFICES ASSUME NEW r \in Remotes, NEW m \in failed'[r]
               PROVE  m.nonce \in refused'[r] \/ Stale(m)'
    BY DEF StoredForReason
  <2> QED
    BY <1>4, <1>5
<1>6. ASSUME NEW q \in Remotes, lzReceive(q), ~ UNCHANGED <<failed, refused>>
      PROVE  StoredForReason'
  <2> SUFFICES ASSUME NEW r \in Remotes, NEW m \in failed'[r]
               PROVE  m.nonce \in refused'[r] \/ Stale(m)'
    BY DEF StoredForReason
  <2> DEFINE h == Head(inbox[q])
  <2>1. h \in Message
    <3>1. inbox[q] \in Seq(Message) /\ inbox[q] # <<>>
      BY <1>1, <1>6 DEF lzReceive
    <3> QED
      BY <3>1
  <2>2. /\ Refreshed(q, h) = {}
        /\ failed' = [failed EXCEPT ![q] = @ \cup {h}]
        /\ refused' = [refused EXCEPT ![q] = IF RefusedInTime(q, h)
                                            THEN @ \cup {h.nonce} ELSE @]
    BY <1>6 DEF lzReceive
  <2> HIDE DEF h
  <2>3. refused[r] \subseteq refused'[r]
    BY <1>1, <2>2
  <2>4. CASE m \in failed[r]
    BY <1>4, <2>3, <2>4
  <2>5. CASE m \notin failed[r]
    <3>1. r = q /\ m = h
      BY <1>1, <2>2, <2>5
    <3>2. CASE ~ RefusedInTime(q, h)
      <4>1. Stale(h)
        BY <2>1, <2>2, <3>2, RefusedOrStale
      <4> QED
        BY <1>3, <2>1, <3>1, <4>1
    <3>3. CASE RefusedInTime(q, h)
      <4>1. refused'[q] = refused[q] \cup {h.nonce}
        BY <1>1, <2>2, <3>3
      <4> QED
        BY <3>1, <4>1
    <3> QED
      BY <3>2, <3>3
  <2> QED
    BY <2>4, <2>5
<1>7. ASSUME NEW q \in Remotes, NEW m \in failed[q], retryMessage(q, m)
      PROVE  StoredForReason'
  <2> SUFFICES ASSUME NEW r \in Remotes, NEW f \in failed'[r]
               PROVE  f.nonce \in refused'[r] \/ Stale(f)'
    BY DEF StoredForReason
  <2>1. f \in failed[r] /\ refused' = refused
    BY <1>1, <1>7 DEF retryMessage
  <2> QED
    BY <1>4, <2>1
<1>8. ASSUME NEW rate, NEW start, sendInterestRate(rate, start)
      PROVE  StoredForReason'
  BY <1>5, <1>8 DEF sendInterestRate, history
<1> QED
  BY <1>5, <1>6, <1>7, <1>8, SyncCases DEF network, setOnRemote, setStartsOnRemote

\* The current periods have begun, also after a message was applied.
LEMMA NextBegun ==
    ASSUME SyncInv, RemoteBegun, [SyncNext]_syncVars
    PROVE  RemoteBegun'
<1>1. /\ remote \in [Remotes -> Schedule] /\ now \in Nat
      /\ inbox \in [Remotes -> Seq(Message)] /\ failed \in [Remotes -> SUBSET Message]
      /\ ownStarts \in [Remotes -> BOOLEAN] /\ SyncTypeOK /\ RemoteOrdered
  BY DEF SyncInv, SyncTypeOK, TypeOK
<1>2. now' \in Nat /\ now' >= now
  BY TimeGrows
<1>3. CASE UNCHANGED <<remote, ownStarts>>
  BY <1>1, <1>2, <1>3 DEF RemoteBegun, Schedule
<1>9. ASSUME NEW q \in Remotes, NEW t \in Schedule, remote' = [remote EXCEPT ![q] = t],
             ~ ownStarts'[q] => t.currentPeriodStart =< now,
             \A r \in Remotes \ {q} : ownStarts'[r] = ownStarts[r]
      PROVE  RemoteBegun'
  <2> SUFFICES ASSUME NEW r \in Remotes, ~ ownStarts'[r]
               PROVE  remote'[r].currentPeriodStart =< now'
    BY DEF RemoteBegun
  <2>1. CASE r = q
    BY <1>1, <1>2, <1>9, <2>1 DEF Schedule
  <2>2. CASE r # q
    <3>1. ~ ownStarts[r] /\ remote'[r] = remote[r] /\ remote[r] \in Schedule
      BY <1>1, <1>9, <2>2
    <3>2. remote[r].currentPeriodStart =< now
      BY <3>1 DEF RemoteBegun
    <3> QED
      BY <1>1, <1>2, <3>1, <3>2 DEF Schedule
  <2> QED
    BY <2>1, <2>2
<1>4. ASSUME NEW q \in Remotes, NEW m \in Message, NEW t \in Refreshed(q, m),
             remote' = [remote EXCEPT ![q] = t], ownStarts' = ownStarts
      PROVE  RemoteBegun'
  <2>1. /\ remote[q] \in Schedule /\ m.dailyRate \in Int /\ m.periodStart \in Nat
        /\ ~ ownStarts[q] => remote[q].currentPeriodStart =< now
    BY <1>1 DEF Message, RemoteBegun
  <2>2. t \in RefreshInterestRate(remote[q], now, m.dailyRate, m.periodStart)
    BY DEF Refreshed
  <2>3. t \in Schedule
    BY <1>1, <2>1, <2>2, RefreshFacts
  <2>4. ~ ownStarts[q] => t.currentPeriodStart =< now
    BY <1>1, <2>1, <2>2, RefreshBegun
  <2> QED
    BY <1>4, <1>9, <2>3, <2>4
<1>5. ASSUME NEW q \in Remotes, lzReceive(q), remote' # remote
      PROVE  RemoteBegun'
  <2>1. Head(inbox[q]) \in Message
    <3>1. inbox[q] \in Seq(Message) /\ inbox[q] # <<>>
      BY <1>1, <1>5 DEF lzReceive
    <3> QED
      BY <3>1
  <2>2. /\ \E t \in Refreshed(q, Head(inbox[q])) : remote' = [remote EXCEPT ![q] = t]
        /\ ownStarts' = ownStarts
    BY <1>5 DEF lzReceive
  <2> QED
    BY <1>4, <2>1, <2>2
<1>6. ASSUME NEW q \in Remotes, NEW m \in failed[q], retryMessage(q, m)
      PROVE  RemoteBegun'
  BY <1>1, <1>4, <1>6 DEF retryMessage
<1>7. ASSUME NEW rate, NEW start, sendInterestRate(rate, start)
      PROVE  RemoteBegun'
  BY <1>3, <1>7 DEF sendInterestRate, history
<1>8. ASSUME NEW q \in Remotes, lzReceive(q), remote' = remote
      PROVE  RemoteBegun'
  BY <1>3, <1>8 DEF lzReceive
<1>10. ASSUME NEW q \in Remotes, setOnRemote(q)
       PROVE  RemoteBegun'
  <2>1. PICK t \in Schedule :
           /\ remote' = [remote EXCEPT ![q] = t]
           /\ remote[q].currentPeriodStart =< now => t.currentPeriodStart =< now
    BY <1>1, <1>10, OwnSetting
  <2>2. ownStarts' = ownStarts
    BY <1>10 DEF setOnRemote
  <2>3. ~ ownStarts[q] => remote[q].currentPeriodStart =< now
    BY DEF RemoteBegun
  <2> QED
    BY <1>9, <2>1, <2>2, <2>3
<1>11. ASSUME NEW q \in Remotes, NEW c \in 0 .. MaxTime, NEW n \in 0 .. MaxTime,
              setStartsOnRemote(q, c, n)
       PROVE  RemoteBegun'
  <2>1. PICK t \in Schedule : remote' = [remote EXCEPT ![q] = t]
    BY <1>1, <1>11, OwnStarts
  <2>2. ownStarts' = [ownStarts EXCEPT ![q] = TRUE]
    BY <1>11 DEF setStartsOnRemote
  <2>3. ownStarts'[q] /\ \A r \in Remotes \ {q} : ownStarts'[r] = ownStarts[r]
    BY <1>1, <2>2
  <2> QED
    BY <1>9, <2>1, <2>3
<1> QED
  BY <1>3, <1>5, <1>6, <1>7, <1>8, <1>10, <1>11, SyncCases

LEMMA NextRetryInv == RetryInv /\ [SyncNext]_syncVars => RetryInv'
BY NextSyncInv, NextNumbered, NextStored, NextBegun DEF RetryInv

\* Only a retry can bring back an older plan, and only one the chain had refused.
LEMMA OlderPlanWasRefused ==
    ASSUME RetryInv, [SyncNext]_syncVars, NEW r \in Remotes, applied'[r] < applied[r]
    PROVE  applied'[r] \in refused[r]
<1>1. /\ inbox \in [Remotes -> Seq(Message)] /\ sent \in Nat
      /\ failed \in [Remotes -> SUBSET Message] /\ applied \in [Remotes -> Nat]
  BY DEF RetryInv, SyncInv, SyncTypeOK
<1>2. applied[r] \in Nat
  BY <1>1
<1>3. CASE UNCHANGED applied
  BY <1>2, <1>3
<1>4. ASSUME NEW q \in Remotes, lzReceive(q), applied' # applied
      PROVE  FALSE
  <2> DEFINE h == Head(inbox[q])
  <2>1. inbox[q] \in Seq(Message) /\ inbox[q] # <<>>
    BY <1>1, <1>4 DEF lzReceive
  <2>2. h = inbox[q][1] /\ 1 \in 1 .. Len(inbox[q]) /\ Len(inbox[q]) \in Nat
    BY <2>1
  <2>3. h.nonce = sent - Len(inbox[q]) + 1 /\ applied[q] =< sent - Len(inbox[q])
    BY <2>2 DEF RetryInv, Numbered
  <2>4. applied' = [applied EXCEPT ![q] = h.nonce]
    BY <1>4 DEF lzReceive
  <2> HIDE DEF h
  <2>5. q = r
    BY <1>1, <1>2, <2>4
  <2>6. applied'[r] = h.nonce
    BY <1>1, <2>4, <2>5
  <2> QED
    BY <1>1, <1>2, <2>2, <2>3, <2>5, <2>6
<1>5. ASSUME NEW q \in Remotes, NEW m \in failed[q], retryMessage(q, m)
      PROVE  applied'[r] \in refused[r]
  <2>1. q = r /\ applied'[r] = m.nonce
    BY <1>1, <1>2, <1>5 DEF retryMessage
  <2>2. m \in Message /\ Refreshed(q, m) # {}
    BY <1>1, <1>5 DEF retryMessage
  <2>3. ~ Stale(m)
    BY <2>2, AppliedNotStale DEF RetryInv
  <2> QED
    BY <2>1, <2>3 DEF RetryInv, StoredForReason
<1>6. ASSUME NEW rate, NEW start, sendInterestRate(rate, start)
      PROVE  UNCHANGED applied
  BY <1>6 DEF sendInterestRate, history
<1> QED
  BY <1>3, <1>4, <1>5, <1>6, SyncCases DEF setOnRemote, setStartsOnRemote

\* Whatever is delivered, stored and retried, and whichever balancers come and go and
\* whatever a chain sets itself, an older plan returns only where the chain had refused it
\* in time.
THEOREM RetriesCorrect == SyncSpec => OnlyRefusedPlansReturn
<1>1. RetryInv /\ [SyncNext]_syncVars
        => [\A r \in Remotes : applied'[r] < applied[r] => applied'[r] \in refused[r]]_syncVars
  BY OlderPlanWasRefused
<1> QED
  BY <1>1, InitRetryInv, NextRetryInv, PTL DEF SyncSpec, OnlyRefusedPlansReturn

-----------------------------------------------------------------------------
(* The agreement of the chains *)

\* A message was sent by a refresh that replaced one schedule by another.
Follows(m, before, after) ==
    /\ m.replaced = before.nextPeriodStart
    /\ after \in RefreshInterestRate(before, m.sentAt, m.dailyRate, m.periodStart)

\* The schedules the governance chain went through from the one the other chain has
\* now, one refresh for each message under way.
Past(r, g) ==
    /\ g[0] = remote[r] /\ g[Len(inbox[r])] = schedule
    /\ \A i \in 1 .. Len(inbox[r]) : Follows(inbox[r][i], g[i - 1], g[i])

\* A chain in step is a past of the governance chain, and has stored no message.
InStep ==
    \A r \in Remotes :
        inStep[r] => /\ failed[r] = {}
                     /\ \E g \in [0 .. Len(inbox[r]) -> Schedule] : Past(r, g)

AgreeInv == SyncInv /\ InStep

\* A refresh at another time of the same period leaves the same schedule, if it
\* leaves any: the time only says whether the period is over and the start is past.
LEMMA SameRefresh ==
    ASSUME NEW s \in Schedule, NEW t \in Nat, NEW u \in Nat,
           t < s.nextPeriodStart <=> u < s.nextPeriodStart,
           NEW rate, NEW start,
           NEW a \in RefreshInterestRate(s, t, rate, start),
           NEW b \in RefreshInterestRate(s, u, rate, start)
    PROVE  a = b
<1>1. Roll(s, t) = Roll(s, u)
  BY DEF Roll, Schedule
<1> DEFINE q == Roll(s, t)
           after(x) == [x EXCEPT !.nextInterestRate = rate, !.nextPeriodStart = start,
                           !.nextTargetPrice =
                               (x.currentTargetPrice
                                  * AccruedOver(x.currentInterestRate,
                                                start - x.currentPeriodStart))
                               \div InterestPrecision]
<1>2. a = after(Roll(s, t)) /\ b = after(Roll(s, u))
  BY DEF RefreshInterestRate, Answer
<1> HIDE DEF after
<1> QED
  BY <1>1, <1>2

LEMMA InitAgreeInv == SyncInit => AgreeInv
<1> SUFFICES ASSUME SyncInit PROVE InStep
  BY InitSyncInv DEF AgreeInv
<1> SUFFICES ASSUME NEW r \in Remotes
             PROVE  /\ failed[r] = {}
                    /\ \E g \in [0 .. Len(inbox[r]) -> Schedule] : Past(r, g)
  BY DEF InStep
<1>1. failed[r] = {} /\ inbox[r] = <<>> /\ remote[r] = schedule
  BY DEF SyncInit, Init
<1>2. schedule \in Schedule
  BY InitSyncInv DEF SyncInv, SyncTypeOK, TypeOK
<1> DEFINE g == [i \in 0 .. Len(inbox[r]) |-> schedule]
<1>3. Len(inbox[r]) = 0
  BY <1>1
<1>4. g \in [0 .. Len(inbox[r]) -> Schedule] /\ g[0] = schedule
  BY <1>2, <1>3
<1>5. Past(r, g)
  BY <1>1, <1>3, <1>4 DEF Past
<1> QED
  BY <1>1, <1>4, <1>5

\* A schedule that is sent is one more of the past.
LEMMA SendKeepsStep ==
    ASSUME SyncInv, InStep, NEW r \in Remotes, NEW m \in Message,
           schedule' \in Schedule, Follows(m, schedule, schedule'),
           inbox'[r] = Append(inbox[r], m), remote'[r] = remote[r],
           inStep[r]
    PROVE  \E g \in [0 .. Len(inbox'[r]) -> Schedule] : Past(r, g)'
<1> DEFINE s == inbox[r]
           n == Len(s)
<1>1. s \in Seq(Message) /\ n \in Nat
  BY DEF SyncInv, SyncTypeOK
<1>2. PICK g \in [0 .. n -> Schedule] : Past(r, g)
  BY DEF InStep
<1>3. /\ g[0] = remote[r] /\ g[n] = schedule
      /\ \A i \in 1 .. n : Follows(s[i], g[i - 1], g[i])
  BY <1>2 DEF Past
<1> HIDE DEF s
<1>4. /\ Len(inbox'[r]) = n + 1 /\ inbox'[r][n + 1] = m
      /\ \A i \in 1 .. n : inbox'[r][i] = s[i]
  BY <1>1 DEF s
<1> HIDE DEF n
<1> PICK h : h = [i \in 0 .. n + 1 |-> IF i = n + 1 THEN schedule' ELSE g[i]]
  OBVIOUS
<1>5. /\ h \in [0 .. Len(inbox'[r]) -> Schedule] /\ h[n + 1] = schedule'
      /\ \A i \in 0 .. n : h[i] = g[i]
  BY <1>1, <1>4
<1>6. ASSUME NEW i \in 1 .. n + 1
      PROVE  Follows(inbox'[r][i], h[i - 1], h[i])
  <2>1. CASE i = n + 1
    <3>1. i - 1 = n /\ n \in 0 .. n
      BY <1>1, <2>1
    <3>2. h[i - 1] = schedule /\ h[i] = schedule' /\ inbox'[r][i] = m
      BY <1>3, <1>4, <1>5, <2>1, <3>1
    <3> QED
      BY <3>2
  <2>2. CASE i # n + 1
    <3>1. i \in 1 .. n /\ i - 1 \in 0 .. n /\ i \in 0 .. n
      BY <1>1, <2>2
    <3>2. h[i - 1] = g[i - 1] /\ h[i] = g[i] /\ inbox'[r][i] = s[i]
      BY <1>4, <1>5, <3>1
    <3> QED
      BY <1>3, <3>1, <3>2
  <2> QED
    BY <2>1, <2>2
<1>7. h[0] = remote'[r] /\ 0 \in 0 .. n
  BY <1>1, <1>3, <1>5
<1>8. h[0] = remote'[r] /\ h[Len(inbox'[r])] = schedule'
  BY <1>4, <1>5, <1>7
<1>9. \A i \in 1 .. Len(inbox'[r]) : Follows(inbox'[r][i], h[i - 1], h[i])
  BY <1>4, <1>6
<1>10. Past(r, h)'
  BY <1>8, <1>9 DEF Past
<1> QED
  BY <1>5, <1>10

\* A chain that applies its oldest message in the period it was sent in takes the next
\* step of that past.
LEMMA ReceiveKeepsStep ==
    ASSUME SyncInv, InStep, NEW r \in Remotes, inbox[r] # <<>>,
           SamePeriod(Head(inbox[r])), NEW t \in Refreshed(r, Head(inbox[r])),
           remote'[r] = t, schedule' = schedule, inbox'[r] = Tail(inbox[r]), inStep[r]
    PROVE  \E g \in [0 .. Len(inbox'[r]) -> Schedule] : Past(r, g)'
<1> DEFINE s == inbox[r]
           n == Len(s)
           m == Head(s)
<1>1. s \in Seq(Message) /\ n \in Nat /\ n > 0 /\ m = s[1] /\ m \in Message
  BY DEF SyncInv, SyncTypeOK
<1>2. PICK g \in [0 .. n -> Schedule] : Past(r, g)
  BY DEF InStep
<1>3. /\ g[0] = remote[r] /\ g[n] = schedule
      /\ \A i \in 1 .. n : Follows(s[i], g[i - 1], g[i])
  BY <1>2 DEF Past
<1>4. t = g[1]
  <2>1. Follows(m, g[0], g[1])
    <3>1. 1 \in 1 .. n /\ 1 - 1 = 0
      BY <1>1
    <3> QED
      BY <1>1, <1>3, <3>1
  <2>2. g[0] \in Schedule /\ now \in Nat /\ m.sentAt \in Nat
    <3>1. 0 \in 0 .. n
      BY <1>1
    <3>2. now \in Nat /\ m.sentAt \in Nat
      BY <1>1 DEF SyncInv, SyncTypeOK, TypeOK, Message
    <3> HIDE DEF n
    <3> QED
      BY <1>2, <3>1, <3>2
  <2>3. /\ g[1] \in RefreshInterestRate(g[0], m.sentAt, m.dailyRate, m.periodStart)
        /\ t \in RefreshInterestRate(g[0], now, m.dailyRate, m.periodStart)
        /\ m.sentAt < g[0].nextPeriodStart <=> now < g[0].nextPeriodStart
    BY <1>3, <2>1 DEF Follows, Refreshed, SamePeriod
  <2> HIDE DEF m
  <2> QED
    BY <2>2, <2>3, SameRefresh
<1>5. /\ Len(inbox'[r]) = n - 1
      /\ \A i \in 1 .. n - 1 : inbox'[r][i] = s[i + 1]
  BY <1>1
<1> HIDE DEF s, n, m
<1> PICK h : h = [i \in 0 .. n - 1 |-> g[i + 1]]
  OBVIOUS
<1>6. /\ h \in [0 .. Len(inbox'[r]) -> Schedule]
      /\ \A i \in 0 .. n - 1 : h[i] = g[i + 1]
  BY <1>1, <1>2, <1>5
<1>7. ASSUME NEW i \in 1 .. n - 1
      PROVE  Follows(inbox'[r][i], h[i - 1], h[i])
  <2>1. /\ i \in 0 .. n - 1 /\ i - 1 \in 0 .. n - 1 /\ i + 1 \in 1 .. n
        /\ (i - 1) + 1 = i /\ (i + 1) - 1 = i
    BY <1>1
  <2>2. h[i] = g[i + 1] /\ h[i - 1] = g[i] /\ inbox'[r][i] = s[i + 1]
    BY <1>5, <1>6, <2>1
  <2>3. Follows(s[i + 1], g[i], g[i + 1])
    BY <1>3, <2>1
  <2> QED
    BY <2>2, <2>3
<1>8. h[0] = remote'[r] /\ h[Len(inbox'[r])] = schedule'
  <2>1. 0 \in 0 .. n - 1 /\ n - 1 \in 0 .. n - 1 /\ 0 + 1 = 1 /\ (n - 1) + 1 = n
    BY <1>1
  <2> QED
    BY <1>3, <1>4, <1>5, <1>6, <2>1
<1>9. \A i \in 1 .. Len(inbox'[r]) : Follows(inbox'[r][i], h[i - 1], h[i])
  BY <1>5, <1>7
<1>10. Past(r, h)'
  BY <1>8, <1>9 DEF Past
<1> QED
  BY <1>6, <1>10
\* What touches neither the chain nor the governance chain leaves it in step.
LEMMA StillInStep ==
    ASSUME InStep, NEW r \in Remotes, inStep[r], schedule' = schedule,
           remote'[r] = remote[r], inbox'[r] = inbox[r], failed'[r] = failed[r]
    PROVE  /\ failed'[r] = {}
           /\ \E g \in [0 .. Len(inbox'[r]) -> Schedule] : Past(r, g)'
<1>1. PICK g \in [0 .. Len(inbox[r]) -> Schedule] : Past(r, g)
  BY DEF InStep
<1>2. Past(r, g)'
  BY <1>1 DEF Past
<1> QED
  BY <1>1, <1>2 DEF InStep

\* Every refresh of the governance chain sends the schedule it planned.
LEMMA SendingKeepsStep ==
    ASSUME SyncInv, InStep, schedule' \in Schedule,
           NEW rate \in Int, NEW start \in Nat,
           schedule' \in RefreshInterestRate(schedule, now, rate, start),
           sendInterestRate(schedule'.nextInterestRate, schedule'.nextPeriodStart)
    PROVE  InStep'
<1> DEFINE m == [nonce |-> sent + 1, dailyRate |-> schedule'.nextInterestRate,
                 periodStart |-> schedule'.nextPeriodStart, sentAt |-> now,
                 replaced |-> schedule.nextPeriodStart]
<1>1. /\ schedule \in Schedule /\ now \in Nat /\ sent \in Nat
      /\ inbox \in [Remotes -> Seq(Message)]
  BY DEF SyncInv, SyncTypeOK, TypeOK
<1>2. schedule'.nextInterestRate = rate /\ schedule'.nextPeriodStart = start
  BY <1>1, RefreshFacts
<1>3. m \in Message
  BY <1>1, <1>2 DEF Message, Schedule
<1>4. Follows(m, schedule, schedule')
  BY <1>2 DEF Follows
<1>5. /\ inbox' = [r \in Remotes |-> Append(inbox[r], m)]
      /\ UNCHANGED <<remote, failed, inStep>>
  BY DEF sendInterestRate, history
<1> HIDE DEF m
<1>6. ASSUME NEW r \in Remotes, inStep'[r]
      PROVE  /\ failed'[r] = {}
             /\ \E g \in [0 .. Len(inbox'[r]) -> Schedule] : Past(r, g)'
  <2>1. inStep[r] /\ failed'[r] = {} /\ remote'[r] = remote[r]
        /\ inbox'[r] = Append(inbox[r], m)
    BY <1>5, <1>6 DEF InStep
  <2> QED
    BY <1>3, <1>4, <2>1, SendKeepsStep
<1> QED
  BY <1>6 DEF InStep

LEMMA NextInStep ==
    ASSUME SyncInv, SyncInv', InStep, [SyncNext]_syncVars
    PROVE  InStep'
<1>1. /\ inbox \in [Remotes -> Seq(Message)] /\ inStep \in [Remotes -> BOOLEAN]
      /\ failed \in [Remotes -> SUBSET Message] /\ remote \in [Remotes -> Schedule]
      /\ schedule \in Schedule /\ now \in Nat /\ period \in Nat /\ schedule' \in Schedule
  BY DEF SyncInv, SyncTypeOK, TypeOK
<1>2. CASE UNCHANGED <<schedule, remote, network, inStep>>
  BY <1>2, StillInStep DEF InStep, network
<1>3. CASE setAlone
  BY <1>3 DEF setAlone, InStep
<1>4. ASSUME NEW p \in TwaPrices, refreshAndSend(p)
      PROVE  InStep'
  <2> DEFINE rate == interestRate(schedule, now) + RateStep(p)
             start == periodStart(schedule, now) + period
  <2>1. schedule' \in RefreshInterestRate(schedule, now, rate, start)
    BY <1>4 DEF refreshAndSend, refreshInterestRate
  <2>2. rate \in Int
    <3>1. interestRate(schedule, now) \in Int
      BY <1>1 DEF interestRate, Schedule
    <3> QED
      BY <3>1, RateStepValues
  <2>3. start \in Nat
    <3>1. periodStart(schedule, now) \in Nat
      BY <1>1 DEF periodStart, Schedule
    <3> QED
      BY <1>1, <3>1
  <2>4. sendInterestRate(schedule'.nextInterestRate, schedule'.nextPeriodStart)
    BY <1>4 DEF refreshAndSend
  <2> HIDE DEF rate, start
  <2> QED
    BY <1>1, <2>1, <2>2, <2>3, <2>4, SendingKeepsStep
<1>5. ASSUME NEW rate \in OverrideRates, NEW start \in 0 .. MaxTime,
             updateAndSend(rate, start)
      PROVE  InStep'
  <2>1. schedule' \in RefreshInterestRate(schedule, now, rate, start)
    BY <1>5 DEF updateAndSend, updateInterestRate
  <2>2. sendInterestRate(schedule'.nextInterestRate, schedule'.nextPeriodStart)
    BY <1>5 DEF updateAndSend
  <2>3. rate \in Int /\ start \in Nat
    OBVIOUS
  <2> QED
    BY <1>1, <2>1, <2>2, <2>3, SendingKeepsStep
<1>6. ASSUME NEW q \in Remotes, lzReceive(q)
      PROVE  InStep'
  <2> DEFINE h == Head(inbox[q])
  <2>1. inbox[q] # <<>> /\ inbox' = [inbox EXCEPT ![q] = Tail(@)] /\ schedule' = schedule
    BY <1>6 DEF lzReceive, vars
  <2> SUFFICES ASSUME NEW r \in Remotes, inStep'[r]
               PROVE  /\ failed'[r] = {}
                      /\ \E g \in [0 .. Len(inbox'[r]) -> Schedule] : Past(r, g)'
    BY DEF InStep
  <2>2. CASE r # q
    <3>1. /\ remote'[r] = remote[r] /\ inbox'[r] = inbox[r]
          /\ failed'[r] = failed[r] /\ inStep'[r] = inStep[r]
      BY <1>1, <1>6, <2>2 DEF lzReceive
    <3> QED
      BY <2>1, <3>1, StillInStep
  <2>3. CASE r = q
    <3> HIDE DEF h
    <3>1. /\ \E t \in Refreshed(q, h) : remote' = [remote EXCEPT ![q] = t]
          /\ inStep' = [inStep EXCEPT ![q] = @ /\ SamePeriod(h)]
          /\ failed' = failed
      <4>1. inStep'[q]
        BY <2>3
      <4>2. ~ (inStep' = [inStep EXCEPT ![q] = FALSE])
        BY <1>1, <4>1
      <4> QED
        BY <1>6, <4>2 DEF lzReceive, h
    <3>2. inStep'[q] = (inStep[q] /\ SamePeriod(h))
      <4> HIDE DEF SamePeriod
      <4> QED
        BY <1>1, <3>1
    <3>3. inStep[q] /\ SamePeriod(h)
      BY <2>3, <3>2
    <3>4. inbox'[q] = Tail(inbox[q])
      BY <1>1, <2>1
    <3>5. PICK t \in Refreshed(q, h) : remote' = [remote EXCEPT ![q] = t]
      BY <3>1
    <3>6. remote'[q] = t
      BY <1>1, <3>5
    <3>7. \E g \in [0 .. Len(inbox'[q]) -> Schedule] : Past(q, g)'
      BY <2>1, <3>3, <3>4, <3>5, <3>6, ReceiveKeepsStep DEF h
    <3>8. failed'[q] = {}
      BY <3>1, <3>3 DEF InStep
    <3> QED
      BY <2>3, <3>7, <3>8
  <2> QED
    BY <2>2, <2>3
<1>7. ASSUME NEW q \in Remotes, NEW m \in failed[q], retryMessage(q, m)
      PROVE  InStep'
  <2> SUFFICES ASSUME NEW r \in Remotes, inStep'[r]
               PROVE  /\ failed'[r] = {}
                      /\ \E g \in [0 .. Len(inbox'[r]) -> Schedule] : Past(r, g)'
    BY DEF InStep
  <2>1. inStep' = inStep /\ schedule' = schedule /\ inbox' = inbox
    BY <1>7 DEF retryMessage, vars
  <2>2. r # q
    BY <2>1 DEF InStep
  <2>3. remote'[r] = remote[r] /\ failed'[r] = failed[r]
    BY <1>1, <1>7, <2>2 DEF retryMessage
  <2> QED
    BY <2>1, <2>3, StillInStep
<1>8. CASE local
  BY <1>2, <1>8 DEF local, Tick, setPeriod, history
<1>9. ASSUME NEW r \in Remotes, NEW this \in BOOLEAN, setBalancer(r, this)
      PROVE  InStep'
  BY <1>2, <1>9 DEF setBalancer, vars, history
<1>10. CASE UNCHANGED syncVars
  BY <1>2, <1>10 DEF syncVars, vars, history
<1>11. ASSUME NEW q \in Remotes, inStep' = [inStep EXCEPT ![q] = FALSE],
              UNCHANGED <<vars, network>>,
              \E t \in Schedule : remote' = [remote EXCEPT ![q] = t]
       PROVE  InStep'
  <2> SUFFICES ASSUME NEW r \in Remotes, inStep'[r]
               PROVE  /\ failed'[r] = {}
                      /\ \E g \in [0 .. Len(inbox'[r]) -> Schedule] : Past(r, g)'
    BY DEF InStep
  <2>1. r # q /\ inStep[r] /\ remote'[r] = remote[r]
    BY <1>1, <1>11
  <2>2. schedule' = schedule /\ inbox' = inbox /\ failed' = failed
    BY <1>11 DEF vars, network
  <2> QED
    BY <2>1, <2>2, StillInStep
<1>12. ASSUME NEW q \in Remotes, setOnRemote(q)
       PROVE  InStep'
  <2>1. \E t \in Schedule : remote' = [remote EXCEPT ![q] = t]
    BY <1>12, OwnSetting DEF SyncInv
  <2> QED
    BY <1>11, <1>12, <2>1 DEF setOnRemote
<1>13. ASSUME NEW q \in Remotes, NEW c \in 0 .. MaxTime, NEW n \in 0 .. MaxTime,
              setStartsOnRemote(q, c, n)
       PROVE  InStep'
  <2>1. \E t \in Schedule : remote' = [remote EXCEPT ![q] = t]
    BY <1>13, OwnStarts DEF SyncInv
  <2> QED
    BY <1>11, <1>13, <2>1 DEF setStartsOnRemote
<1> QED
  BY <1>3, <1>4, <1>5, <1>6, <1>7, <1>8, <1>9, <1>10, <1>12, <1>13 DEF SyncNext

\* A chain in step with nothing under way has the very schedule of the governance chain.
LEMMA InStepAgrees == AgreeInv => ChainsAgree
<1> SUFFICES ASSUME InStep, NEW r \in Remotes, inStep[r], inbox[r] = <<>>
             PROVE  remote[r] = schedule
  BY DEF AgreeInv, ChainsAgree
<1>1. PICK g \in [0 .. Len(inbox[r]) -> Schedule] : Past(r, g)
  BY DEF InStep
<1>2. Len(inbox[r]) = 0
  OBVIOUS
<1> QED
  BY <1>1, <1>2 DEF Past

\* Chains that got every message in the period it was sent in agree with the governance
\* chain whenever nothing is under way, however many refreshes were under way at once.
THEOREM AgreeCorrect == SyncSpec => []ChainsAgree
<1>1. AgreeInv /\ [SyncNext]_syncVars => AgreeInv'
  BY NextSyncInv, NextInStep DEF AgreeInv
<1> QED
  BY <1>1, InitAgreeInv, InStepAgrees, PTL DEF SyncSpec
=============================================================================
