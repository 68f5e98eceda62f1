------------------------------ MODULE SweepCalls -------------------------------
\* The calls governance makes on a SWEEP contract, on the part of its storage
\* they change: its owner, who its minters are, whether it is paused and what the
\* caller has approved. A call yields the set of storages it may leave, empty when
\* it reverts.
EXTENDS Integers, Sequences

CONSTANTS Minters, Accounts      \* addresses: of stabilizers, of owners

SweepStorage == [owner : Accounts, minters : SUBSET Minters, paused : BOOLEAN,
                 approved : SUBSET Accounts]

fastMultisig == "multisig"

Require(condition, s) == IF condition THEN {s} ELSE {}

addMinter(s, by, minter) ==
    Require(by = s.owner /\ minter \notin s.minters,
            [s EXCEPT !.minters = @ \cup {minter}])

pause(s, by) ==
    Require(by \in {s.owner, fastMultisig} /\ ~s.paused, [s EXCEPT !.paused = TRUE])

unpause(s, by) ==
    Require(by \in {s.owner, fastMultisig} /\ s.paused, [s EXCEPT !.paused = FALSE])

transferOwnership(s, by, newOwner) ==
    Require(by = s.owner, [s EXCEPT !.owner = newOwner])

\* Only governance's own allowances are kept: by is then the executor or timelock.
approve(s, by, spender) == {[s EXCEPT !.approved = @ \cup {spender}]}

Calls ==
    [fn : {"addMinter"}, arg : Minters] \cup [fn : {"pause", "unpause"}, arg : {"none"}]
        \cup [fn : {"transferOwnership", "approve"}, arg : Accounts]

Call(s, by, c) ==
    CASE c.fn = "addMinter"         -> addMinter(s, by, c.arg)
      [] c.fn = "pause"             -> pause(s, by)
      [] c.fn = "unpause"           -> unpause(s, by)
      [] c.fn = "transferOwnership" -> transferOwnership(s, by, c.arg)
      [] c.fn = "approve"           -> approve(s, by, c.arg)

\* The calls of one proposal or message, in order, all of them or none.
CallAll(s, by, calls) ==
    LET after[i \in 0..Len(calls)] ==
            IF i = 0 THEN {s} ELSE UNION {Call(t, by, calls[i]) : t \in after[i - 1]}
    IN  after[Len(calls)]
===============================================================================
