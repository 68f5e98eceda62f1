------------------------------ MODULE GovernedSweep ----------------------------
(***************************************************************************)
(* What governance promises of SWEEP on its own chain and on another: a    *)
(* mandate, once decided, is carried out at most once, whole and by        *)
(* SWEEP's governor there, in no promised order and perhaps never; what is *)
(* not a mandate is a call of somebody else, with the rights it has.       *)
(***************************************************************************)
EXTENDS SweepCalls

CONSTANT Mandated      \* the mandates: [id, from, n, mandate]

VARIABLES sweep,       \* its storage on each chain
          pending,     \* the mandates decided and not carried out nor withdrawn
          carried      \* those carried out

governor == [home |-> "timelock", remote |-> "executor"]

Init ==
    /\ sweep = [c \in DOMAIN governor |->
                  [owner |-> "owner", minters |-> {}, paused |-> FALSE, approved |-> {}]]
    /\ pending = {} /\ carried = {}

\* A mandate that has not been carried out is pending from now on.
Decide ==
    /\ UNCHANGED <<sweep, carried>>
    /\ \E m \in pending' \ (pending \cup carried) :
          m \in Mandated /\ pending' = pending \cup {m}

Withdraw ==
    /\ UNCHANGED <<sweep, carried>>
    /\ \E m \in pending : pending' = pending \ {m}

CarryOut ==
    \E m \in pending :
        /\ pending' = pending \ {m} /\ carried' = carried \cup {m}
        /\ LET c == m.mandate.to IN
           \E s \in CallAll(sweep[c], governor[c], m.mandate.calls) :
              sweep' = [sweep EXCEPT ![c] = s]

CallOfOther ==
    /\ UNCHANGED <<pending, carried>>
    /\ \E c \in DOMAIN governor : \E by \in Accounts \ {governor[c]}, call \in Calls :
          \E s \in Call(sweep[c], by, call) : sweep' = [sweep EXCEPT ![c] = s]

Next == Decide \/ Withdraw \/ CarryOut \/ CallOfOther

Spec == Init /\ [][Next]_<<sweep, pending, carried>>
===============================================================================
