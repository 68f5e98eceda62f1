------------------------------ MODULE RateSync ------------------------------
(***************************************************************************)
(* The interest rate on several chains (contracts/Balancer/Balancer.sol).  *)
(* The balancer of the governance chain, BalancerRate, refreshes its own   *)
(* SWEEP and sends the rate and the start it planned to the balancer of    *)
(* every other chain, in the same transaction; those apply it with the     *)
(* same refreshInterestRate, whenever the message arrives.  Their own      *)
(* multisig and governance may set the schedule too.  The message layer is *)
(* external, as in SweepOFT: in order, at any time; a message that reverts *)
(* is stored, and anybody may retry it.                                    *)
(***************************************************************************)
EXTENDS BalancerRate, Sequences

CONSTANTS Remotes,         \* the chains Sweepr lists, all of them trusted remotes
          MaxNonce         \* bound: messages sent on one path

ASSUME MaxNonceAssumption == MaxNonce \in Nat

VARIABLES remote,          \* per chain, the schedule of its SWEEP
          inbox,           \* per chain, the messages sent and not delivered
          sent,            \* messages ever sent on each path
          failed,          \* per chain, the messages whose refresh reverted
          serves,          \* whether the SWEEP of a chain has this balancer set
          applied,         \* history: nonce of the message applied last
          inStep,          \* history: every message was applied in the period it was
                           \* sent in, and the governance chain set nothing alone
          ownStarts,       \* history: a chain's own multisig moved its two starts
          refused          \* history: nonces refused in time, for one of the reasons of
                           \* RefusedInTime

network == <<inbox, sent, failed>>
history == <<applied, inStep, ownStarts, refused>>
syncVars == <<vars, remote, network, serves, history>>

\* sentAt and replaced (the start of the plan it replaces) are history: the payload
\* is dailyRate and periodStart.
Message == [nonce : Nat, dailyRate : Int, periodStart : Nat, sentAt : Nat, replaced : Nat]

SyncTypeOK ==
    /\ TypeOK
    /\ remote \in [Remotes -> Schedule]
    /\ inbox \in [Remotes -> Seq(Message)]
    /\ sent \in Nat
    /\ failed \in [Remotes -> SUBSET Message]
    /\ applied \in [Remotes -> Nat]
    /\ serves \in [Remotes -> BOOLEAN]
    /\ inStep \in [Remotes -> BOOLEAN]
    /\ ownStarts \in [Remotes -> BOOLEAN]
    /\ refused \in [Remotes -> SUBSET Nat]

SyncInit ==
    /\ Init
    /\ remote = [r \in Remotes |-> InitSchedule(now, One)]
    /\ inbox = [r \in Remotes |-> <<>>]
    /\ sent = 0
    /\ failed = [r \in Remotes |-> {}]
    /\ applied = [r \in Remotes |-> 0]
    /\ serves = [r \in Remotes |-> TRUE]
    /\ inStep = [r \in Remotes |-> TRUE]
    /\ ownStarts = [r \in Remotes |-> FALSE]
    /\ refused = [r \in Remotes |-> {}]

-----------------------------------------------------------------------------
(* The governance chain *)

\* The loop over the chains; an untrusted or unpaid one would revert the transaction.
sendInterestRate(dailyRate, start) ==
    /\ sent < MaxNonce
    /\ sent' = sent + 1
    /\ inbox' = [r \in Remotes |->
                    Append(inbox[r], [nonce |-> sent + 1, dailyRate |-> dailyRate,
                                      periodStart |-> start, sentAt |-> now,
                                      replaced |-> schedule.nextPeriodStart])]
    /\ UNCHANGED <<remote, failed, serves, history>>

\* sendNewInterestRate: refreshes here, then sends what it planned.
refreshAndSend(twaPrice) ==
    /\ refreshInterestRate(twaPrice)
    /\ sendInterestRate(schedule'.nextInterestRate, schedule'.nextPeriodStart)

updateAndSend(rate, start) ==
    /\ updateInterestRate(rate, start)
    /\ sendInterestRate(schedule'.nextInterestRate, schedule'.nextPeriodStart)

\* Time, and the length of the periods to come, send nothing.
local ==
    /\ Tick \/ \E p \in Periods : setPeriod(p)
    /\ UNCHANGED <<remote, network, serves, history>>

\* Nor do the multisig's settings and writeOff, which change one chain's schedule.
setAlone ==
    /\ \/ \E c, n \in OverrideRates : setInterestRate(c, n)
       \/ \E c, n \in OverridePrices : setTargetPrice(c, n)
       \/ \E c, n \in 0 .. MaxTime : setPeriodStart(c, n)
       \/ \E p \in OverridePrices : writeOff(p)
    /\ inStep' = [r \in Remotes |-> FALSE]
    /\ UNCHANGED <<remote, network, serves, applied, ownStarts, refused>>

-----------------------------------------------------------------------------
(* The other chains *)

\* onlyBalancer, and the refresh itself.
Refreshed(r, m) ==
    IF serves[r] THEN RefreshInterestRate(remote[r], now, m.dailyRate, m.periodStart) ELSE {}

\* By the start of m the rate in force on the chain has eaten its whole price.
Eaten(r, m) ==
    LET s == Roll(remote[r], now)
    IN  AccruedOver(s.currentInterestRate, m.periodStart - s.currentPeriodStart) < 0

\* The period in force on the chain begins after the start of m, so that the time up to
\* it, unsigned, would be negative.
Overtaken(r, m) == m.periodStart < Roll(remote[r], now).currentPeriodStart

\* m is stored although it came before its start: the chain has another balancer, its
\* rate has eaten its price, or its own multisig moved its starts beyond the plan.
RefusedInTime(r, m) ==
    /\ m.periodStart >= now
    /\ ~ serves[r] \/ Eaten(r, m) \/ (ownStarts[r] /\ Overtaken(r, m))

\* The period in force has not changed between the sending and now.
SamePeriod(m) == m.sentAt < m.replaced <=> now < m.replaced

\* Mutant: too little gas for the refresh, so that any message may be stored.
lzReceiveOutOfGas(r) ==
    LET m == Head(inbox[r])
    IN  /\ inbox[r] # <<>>
        /\ inbox' = [inbox EXCEPT ![r] = Tail(@)]
        /\ \/ /\ \E t \in Refreshed(r, m) : remote' = [remote EXCEPT ![r] = t]
              /\ applied' = [applied EXCEPT ![r] = m.nonce]
              /\ UNCHANGED <<failed, inStep>>
           \/ /\ failed' = [failed EXCEPT ![r] = @ \cup {m}]
              /\ inStep' = [inStep EXCEPT ![r] = FALSE]
              /\ UNCHANGED <<remote, applied>>
        /\ UNCHANGED <<vars, sent, serves, ownStarts, refused>>

\* A message is applied if the refresh succeeds, and stored if it reverts.
lzReceive(r) ==
    LET m == Head(inbox[r])
    IN  /\ inbox[r] # <<>>
        /\ inbox' = [inbox EXCEPT ![r] = Tail(@)]
        /\ \/ /\ \E t \in Refreshed(r, m) : remote' = [remote EXCEPT ![r] = t]
              /\ applied' = [applied EXCEPT ![r] = m.nonce]
              /\ inStep' = [inStep EXCEPT ![r] = @ /\ SamePeriod(m)]
              /\ UNCHANGED <<failed, refused>>
           \/ /\ Refreshed(r, m) = {}
              /\ failed' = [failed EXCEPT ![r] = @ \cup {m}]
              /\ inStep' = [inStep EXCEPT ![r] = FALSE]
              /\ refused' = [refused EXCEPT ![r] = IF RefusedInTime(r, m)
                                                        THEN @ \cup {m.nonce} ELSE @]
              /\ UNCHANGED <<remote, applied>>
        /\ UNCHANGED <<vars, sent, serves, ownStarts>>

retryMessage(r, m) ==
    /\ m \in failed[r]
    /\ \E t \in Refreshed(r, m) : remote' = [remote EXCEPT ![r] = t]
    /\ failed' = [failed EXCEPT ![r] = @ \ {m}]
    /\ applied' = [applied EXCEPT ![r] = m.nonce]
    /\ UNCHANGED <<vars, inbox, sent, serves, inStep, ownStarts, refused>>

Leaves(r, schedules) == \E t \in schedules : remote' = [remote EXCEPT ![r] = t]

\* The multisig and governance of that chain set its rates and prices, or another
\* balancer in place of this one refreshes them.  This balancer's own refresh does
\* nothing outside the governance chain.
setOnRemote(r) ==
    /\ \/ \E c, n \in OverrideRates : Leaves(r, SetInterestRate(remote[r], c, n))
       \/ \E c, n \in OverridePrices : Leaves(r, SetTargetPrice(remote[r], c, n))
       \/ \E p \in OverridePrices : Leaves(r, WriteOffPrice(remote[r], now, p))
       \/ \E rate \in OverrideRates, start \in 0 .. MaxTime :
             ~ serves[r] /\ Leaves(r, RefreshInterestRate(remote[r], now, rate, start))
    /\ inStep' = [inStep EXCEPT ![r] = FALSE]
    /\ UNCHANGED <<vars, network, serves, applied, ownStarts, refused>>

\* They move its two starts.
setStartsOnRemote(r, current, next) ==
    /\ Leaves(r, SetPeriodStart(remote[r], current, next))
    /\ inStep' = [inStep EXCEPT ![r] = FALSE]
    /\ ownStarts' = [ownStarts EXCEPT ![r] = TRUE]
    /\ UNCHANGED <<vars, network, serves, applied, refused>>

\* Governance of that chain puts another balancer in its place, or this one back.
setBalancer(r, this) ==
    /\ serves' = [serves EXCEPT ![r] = this]
    /\ UNCHANGED <<vars, remote, network, history>>

SyncNext ==
    \/ local \/ setAlone
    \/ \E p \in TwaPrices : refreshAndSend(p)
    \/ \E rate \in OverrideRates, start \in 0 .. MaxTime : updateAndSend(rate, start)
    \/ \E r \in Remotes : lzReceive(r) \/ \E m \in failed[r] : retryMessage(r, m)
    \/ \E r \in Remotes, this \in BOOLEAN : setBalancer(r, this)
    \/ \E r \in Remotes : setOnRemote(r)
    \/ \E r \in Remotes, c, n \in 0 .. MaxTime : setStartsOnRemote(r, c, n)

SyncSpec == SyncInit /\ [][SyncNext]_syncVars

-----------------------------------------------------------------------------
(* Properties *)

\* As long as every message reached a chain in the period it was sent in, and nothing was
\* set on one chain alone, the chains agree, whenever nothing is under way, on the rate in
\* force and on the target price, although each computed its price by itself and rolled
\* its periods over at other times.
ChainsAgree ==
    \A r \in Remotes :
        inStep[r] /\ inbox[r] = <<>> =>
            /\ interestRate(remote[r], now) = interestRate(schedule, now)
            /\ periodPrice(remote[r], now) = periodPrice(schedule, now)
            /\ periodStart(remote[r], now) = periodStart(schedule, now)

\* Anybody may retry a stored message at any time, also after a newer one was applied.
\* Only a message that came in time and was refused because the chain had another
\* balancer, because its rate had eaten its price, or because its own multisig had moved
\* its starts beyond the plan, can so bring back an older plan: one that came too late
\* stays too late.
OnlyRefusedPlansReturn ==
    [][\A r \in Remotes :
          applied'[r] < applied[r] => applied'[r] \in refused[r]]_syncVars
=============================================================================
