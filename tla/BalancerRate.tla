---------------------------- MODULE BalancerRate ----------------------------
(***************************************************************************)
(* The Balancer steering the interest rate of the SWEEP of its own chain,  *)
(* the governance chain (contracts/Balancer/Balancer.sol).  Anybody may    *)
(* call refreshInterestRate; the other actions are the multisig's.  The    *)
(* market is external: the time-weighted price a call reads may be any.    *)
(***************************************************************************)
EXTENDS SweepRate

CONSTANTS StepValue,       \* what one refresh adds to or takes from the rate
          ArbSpread,       \* half-width of the band in which the rate rests, a ratio
          One,             \* the price of one dollar
          TwaPrices,       \* prices the AMM may report
          Periods,         \* lengths the multisig gives a period
          Overrides,       \* which of the multisig's own settings this instance uses
          OverrideRates, OverridePrices,
          MaxTime          \* bound: last block time

OverrideNames == {"updateInterestRate", "setInterestRate", "setTargetPrice",
                  "setPeriodStart", "setPeriod", "writeOff"}

ASSUME BalancerAssumption ==
    /\ StepValue \in Nat /\ ArbSpread \in 0 .. SpreadPrecision /\ One \in Nat \ {0}
    /\ TwaPrices \subseteq Nat /\ Periods \subseteq Nat \ {0}
    /\ OverrideRates \subseteq Int /\ OverridePrices \subseteq Nat
    /\ MaxTime \in Nat
    /\ Overrides \subseteq OverrideNames

VARIABLES schedule,        \* the rate storage of SweepCoin
          period,          \* Balancer.period
          now,             \* block time
          overridden       \* history: the multisig or a write-off set a rate, price or start

vars == <<schedule, period, now, overridden>>

TypeOK ==
    /\ schedule \in Schedule /\ period \in Nat \ {0} /\ now \in Nat
    /\ overridden \in BOOLEAN

Init ==
    /\ now = 0
    /\ schedule = InitSchedule(now, One)
    /\ period = Day
    /\ overridden = FALSE

-----------------------------------------------------------------------------

\* The sign of the change getMode asks for: CALL raises the rate, INVEST lowers it.
\* Both bounds are compared strictly; reading the target price may revert.
RateStep(twaPrice) ==
    LET price == targetPrice(schedule, now)
        spread == (ArbSpread * price) \div SpreadPrecision
    IN  IF twaPrice < price - spread THEN StepValue
        ELSE IF twaPrice > price + spread THEN - StepValue
        ELSE 0

\* Mutant: the step is taken from the rate planned for the next period.
refreshInterestRateAccumulating(twaPrice) ==
    /\ Readable(schedule, now)
    /\ \E r \in RefreshInterestRate(schedule, now,
                    schedule.nextInterestRate + RateStep(twaPrice),
                    periodStart(schedule, now) + period) : schedule' = r
    /\ UNCHANGED <<period, now, overridden>>

refreshInterestRate(twaPrice) ==
    /\ Readable(schedule, now)
    /\ \E r \in RefreshInterestRate(schedule, now,
                    interestRate(schedule, now) + RateStep(twaPrice),
                    periodStart(schedule, now) + period) : schedule' = r
    /\ UNCHANGED <<period, now, overridden>>

updateInterestRate(rate, start) ==
    /\ "updateInterestRate" \in Overrides
    /\ \E r \in RefreshInterestRate(schedule, now, rate, start) : schedule' = r
    /\ overridden' = TRUE
    /\ UNCHANGED <<period, now>>

setInterestRate(newCurrent, newNext) ==
    /\ "setInterestRate" \in Overrides
    /\ \E r \in SetInterestRate(schedule, newCurrent, newNext) : schedule' = r
    /\ overridden' = TRUE
    /\ UNCHANGED <<period, now>>

setTargetPrice(newCurrent, newNext) ==
    /\ "setTargetPrice" \in Overrides
    /\ \E r \in SetTargetPrice(schedule, newCurrent, newNext) : schedule' = r
    /\ overridden' = TRUE
    /\ UNCHANGED <<period, now>>

setPeriodStart(newCurrent, newNext) ==
    /\ "setPeriodStart" \in Overrides
    /\ \E r \in SetPeriodStart(schedule, newCurrent, newNext) : schedule' = r
    /\ overridden' = TRUE
    /\ UNCHANGED <<period, now>>

setPeriod(newPeriod) ==
    /\ "setPeriod" \in Overrides
    /\ newPeriod > 0
    /\ period' = newPeriod
    /\ UNCHANGED <<schedule, now, overridden>>

\* SweepCoin.writeOff, called by governance: the part that moves the target price.
writeOff(newPrice) ==
    /\ "writeOff" \in Overrides
    /\ \E r \in WriteOffPrice(schedule, now, newPrice) : schedule' = r
    /\ overridden' = TRUE
    /\ UNCHANGED <<period, now>>

Tick == now < MaxTime /\ now' = now + 1 /\ UNCHANGED <<schedule, period, overridden>>

Next ==
    \/ Tick
    \/ \E p \in TwaPrices : refreshInterestRate(p)
    \/ \E rate \in OverrideRates, start \in 0 .. MaxTime : updateInterestRate(rate, start)
    \/ \E c, n \in OverrideRates : setInterestRate(c, n)
    \/ \E c, n \in OverridePrices : setTargetPrice(c, n)
    \/ \E c, n \in 0 .. MaxTime : setPeriodStart(c, n)
    \/ \E p \in Periods : setPeriod(p)
    \/ \E p \in OverridePrices : writeOff(p)

Spec == Init /\ [][Next]_vars

-----------------------------------------------------------------------------
(* Properties *)

\* However the multisig moves the two starts, and whenever refreshes fall, the current
\* period never starts after the next one: daysInterest and the interest up to the
\* next period are never taken over a negative time because of it.
PeriodOrder == schedule.currentPeriodStart =< schedule.nextPeriodStart

\* refreshInterestRate is public.  Left to it alone, the next rate is never more than
\* one step from the current one, however often it is called within a period.
OneStepPerPeriod ==
    ~ overridden =>
        /\ schedule.nextInterestRate - schedule.currentInterestRate =< StepValue
        /\ schedule.currentInterestRate - schedule.nextInterestRate =< StepValue

AbsOf(n) == IF n < 0 THEN - n ELSE n

DaysWorth(price, rate) == (price * AbsOf(rate)) \div InterestPrecision + 1

\* Left to the public refresh, no step of time and no call makes the target price
\* jump: it moves in the direction of the rate in force, by at most a day's interest,
\* also across the boundary of a period.
PriceFollowsRate ==
    [][~ overridden' =>
         LET before == targetPrice(schedule, now)
             after == targetPrice(schedule, now)'
             rate == interestRate(schedule, now)
         IN  /\ rate >= 0 => after >= before
             /\ rate =< 0 => after =< before
             /\ AbsOf(after - before) =< DaysWorth(periodPrice(schedule, now), rate)]_vars

\* The next period began, lasted its whole length and nobody refreshed: every period
\* a refresh can still plan starts in the past.
Missed == schedule.nextPeriodStart + period < now

\* Nobody but the multisig can end that: the public refresh cannot run, and time
\* alone never brings a plan back into the future.
MissedUntilMultisig ==
    [][Missed => \/ Missed'
                 \/ \E rate \in OverrideRates, s \in 0 .. MaxTime : updateInterestRate(rate, s)
                 \/ \E c, n \in 0 .. MaxTime : setPeriodStart(c, n)
                 \/ \E p \in Periods : setPeriod(p)]_vars
=============================================================================
