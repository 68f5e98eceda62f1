--------------------------- MODULE BalancerQueue ---------------------------
(***************************************************************************)
(* The orders of the balancer (contracts/Balancer/Balancer.sol): the       *)
(* multisig queues amounts for stabilizers and executes the queue in one   *)
(* transaction, as calls or as investments; anybody may reset the calls    *)
(* while SWEEP trades above its target price.  The stabilizers are those   *)
(* of StabilizerSystem.  The market is external: getMode may answer        *)
(* anything, so an execute that is not forced may find the mode it intends.*)
(***************************************************************************)
EXTENDS StabilizerSystem, SequencesExt

CONSTANT MaxQueue          \* bound: orders queued at a time

ASSUME MaxQueueAssumption == MaxQueue \in Nat

VARIABLES queue,           \* stabilizers[0 .. index - 1]
          amounts,         \* per stabilizer, the amount queued for it
          issued           \* history: orders the last transaction gave each of them

queueVars == <<vars, queue, amounts, issued>>

QueueTypeOK ==
    /\ TypeOK
    /\ queue \in Seq(Stabilizers)
    /\ amounts \in [Stabilizers -> Nat]
    /\ issued \in [Stabilizers -> Nat]

Nothing == [s \in Stabilizers |-> 0]

QueueInit == Init /\ queue = <<>> /\ amounts = Nothing /\ issued = Nothing

-----------------------------------------------------------------------------

\* The amount replaces one that is queued already; the stabilizer is queued again.
addAction(s, amount) ==
    /\ Len(queue) < MaxQueue
    /\ queue' = Append(queue, s)
    /\ amounts' = [amounts EXCEPT ![s] = amount]
    /\ issued' = Nothing
    /\ UNCHANGED vars

\* The stabilizer stays in the queue, with nothing to do.
removeAction(s) ==
    /\ amounts' = [amounts EXCEPT ![s] = 0]
    /\ issued' = Nothing
    /\ UNCHANGED <<vars, queue>>

Order(w, s, intention, amount, slippage) ==
    IF intention = "INVEST" THEN AutoInvest(w, s, amount, slippage)
                            ELSE AutoCall(w, s, amount, slippage)

\* Mutant: the amounts are deleted only after the loop.
ExecuteOneKept(states, s, intention, slippage) ==
    UNION {IF e.amounts[s] > 0
           THEN {[e EXCEPT !.world = w, !.issued[s] = @ + 1] :
                    w \in Order(e.world, s, intention, e.amounts[s], slippage)}
           ELSE {e} : e \in states}

\* One turn of the loop of execute; one order that reverts leaves no state.
ExecuteOne(states, s, intention, slippage) ==
    UNION {IF e.amounts[s] > 0
           THEN {[world |-> w, amounts |-> [e.amounts EXCEPT ![s] = 0],
                  issued |-> [e.issued EXCEPT ![s] = @ + 1]] :
                    w \in Order(e.world, s, intention, e.amounts[s], slippage)}
           ELSE {e} : e \in states}

execute(intention, slippage) ==
    /\ \E e \in FoldLeft(LAMBDA states, s : ExecuteOne(states, s, intention, slippage),
                         {[world |-> World, amounts |-> amounts, issued |-> Nothing]},
                         queue) :
          Do({e.world}) /\ amounts' = e.amounts /\ issued' = e.issued
    /\ queue' = <<>>

\* Mutant: index goes back to zero, the amounts stay.
resetKeepsAmounts ==
    /\ queue' = <<>>
    /\ issued' = Nothing
    /\ UNCHANGED <<vars, amounts>>

reset ==
    /\ amounts' = [s \in Stabilizers |->
                      IF \E i \in 1 .. Len(queue) : queue[i] = s THEN 0 ELSE amounts[s]]
    /\ queue' = <<>>
    /\ issued' = Nothing
    /\ UNCHANGED vars

\* Every minter is asked, in this system a stabilizer; cancelling one's call touches no
\* other, so that their order makes no difference.
resetCalls ==
    /\ LET called == {s \in Entries(sweep.minterAddresses) : stab[s].callAmount > 0}
       IN  Do({[World EXCEPT !.stab = [s \in Stabilizers |->
                   IF s \in called THEN CancelCall(World, s).stab[s] ELSE stab[s]]]})
    /\ issued' = Nothing
    /\ UNCHANGED <<queue, amounts>>

\* What borrowers, anybody, governance and the environment do meanwhile.
others ==
    /\ Next
    /\ issued' = Nothing
    /\ UNCHANGED <<queue, amounts>>

QueueNext ==
    \/ \E s \in Stabilizers :
          removeAction(s) \/ \E amount \in AmountsOf[s] : addAction(s, amount)
    \/ \E intention \in {"INVEST", "CALL"}, sl \in Slippages : execute(intention, sl)
    \/ reset \/ resetCalls
    \/ others

QueueSpec == QueueInit /\ [][QueueNext]_queueVars

-----------------------------------------------------------------------------
(* Properties *)

\* An amount never outlives its order: a later order for the same stabilizer, or a later
\* execution, cannot meet an amount of an earlier one.
AmountsQueued ==
    \A s \in Stabilizers : amounts[s] > 0 => \E i \in 1 .. Len(queue) : queue[i] = s

\* Queued twice, a stabilizer still gets one order from an execution.
OrderedOnce == \A s \in Stabilizers : issued[s] =< 1

\* What a call asks for is accounted for when it is over: it is repaid, or it is the
\* amount still called, no matter what was called before.
CallAccountedFor ==
    [][\A s \in Stabilizers, sl \in Slippages :
          /\ issued'[s] = 1 /\ stab[s].config.callDelay > 0
          /\ execute("CALL", sl)
          => getDebt(World, s) - getDebt(World, s)' + stab'[s].callAmount =
                Least(amounts[s], getDebt(World, s))]_queueVars
=============================================================================
