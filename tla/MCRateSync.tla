----------------------------- MODULE MCRateSync -----------------------------
(***************************************************************************)
(* The instance of RateSync, and so of BalancerRate, that TLC checks: a    *)
(* day of two ticks, a price of 100, steps of 60% a day (two of them take  *)
(* more than a price), periods of a day or of a day and a half.  MCSpec    *)
(* holds three scenarios: Sweepr lists no other chain and the multisig     *)
(* uses every setting it has; it lists one and uses some of them; or the   *)
(* other chain sets its own schedule while plans are sent to it.           *)
(***************************************************************************)
EXTENDS RateSync

CONSTANT B

VARIABLE scenario

MCMinRate == -120
MCOverrideRates == {-60}
MCRemotes == {B}

MCInit == SyncInit /\ scenario \in {"alone", "two chains", "own settings"}

\* What it plans reaches nobody; rates only fall.
Alone ==
    /\ scenario = "alone"
    /\ Next
    /\ schedule'.nextInterestRate =< 0
    /\ inStep' = [r \in Remotes |-> FALSE]
    /\ UNCHANGED <<remote, network, serves, applied, ownStarts, refused>>

TwoChains ==
    /\ scenario = "two chains"
    /\ \/ local /\ period' # 2
       \/ /\ setAlone
          /\ schedule'.currentInterestRate = schedule.currentInterestRate
          /\ schedule'.nextInterestRate = schedule.nextInterestRate
          /\ schedule'.currentPeriodStart = schedule.currentPeriodStart
          /\ schedule'.nextPeriodStart = schedule.nextPeriodStart
       \/ \E p \in TwaPrices : refreshAndSend(p)
       \/ \E rate \in OverrideRates, start \in 0 .. MaxTime : updateAndSend(rate, start)
       \/ \E m \in failed[B] : retryMessage(B, m)
       \/ lzReceive(B)
       \/ \E this \in BOOLEAN : setBalancer(B, this)

\* The other chain may set a rate or a price first, and its starts at any time.
OwnSettings ==
    /\ scenario = "own settings"
    /\ \/ Tick /\ local
       \/ \E rate \in OverrideRates, start \in 0 .. MaxTime : updateAndSend(rate, start)
       \/ lzReceive(B)
       \/ \E m \in failed[B] : retryMessage(B, m)
       \/ setBalancer(B, FALSE) \/ setBalancer(B, TRUE)
       \/ inStep[B] /\ setOnRemote(B)
       \/ \E c \in {0, 3}, n \in {2, 3} : setStartsOnRemote(B, c, n)

MCSpec ==
    MCInit /\ [][(Alone \/ TwoChains \/ OwnSettings) /\ UNCHANGED scenario]_<<syncVars, scenario>>
=============================================================================
