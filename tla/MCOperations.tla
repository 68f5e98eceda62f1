------------------------------ MODULE MCOperations -----------------------------
\* The operator's scripts: a behaviour is either the rollout of one network
\* (Deployment) or one search for the amount to swap (BinarySearch). The two share
\* no state, so either rests while the other runs.
EXTENDS Deployment, BinarySearch

VARIABLE tool

MCNets == Networks
MCMarketPrices == {2}

RestingSearch ==
    /\ swap = "none" /\ bound = 0 /\ first = 1 /\ last = 0 /\ funds = 0

RestingRollout == net = "goerli" /\ sweepFirst

OperationsInit ==
    /\ Init /\ SearchInit
    /\ \/ tool = "rollout" /\ RestingSearch
       \/ tool = "search" /\ RestingRollout

Rollout == tool = "rollout" /\ Next /\ UNCHANGED <<searchVars, tool>>
Search == tool = "search" /\ SearchNext /\ UNCHANGED <<vars, tool>>

OperationsSpec ==
    OperationsInit /\ [][Rollout \/ Search]_<<vars, searchVars, tool>>
===============================================================================
