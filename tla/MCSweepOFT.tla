----------------------------- MODULE MCSweepOFT -----------------------------
(***************************************************************************)
(* The instance of SweepOFT that TLC checks: two chains, minters on one,   *)
(* a transfer approver on the other.  Two messages may go from the first   *)
(* chain to the second, so that one can wait behind another that the       *)
(* second chain, paused or refusing, cannot credit; one goes back.         *)
(***************************************************************************)
EXTENDS SweepOFT, TLC

CONSTANTS A, B, m1, m2

MCChains == {A, B}
MCMintChains == {A}
MCAccounts == {m1, m2}
MCMaxNonce == A :> (A :> 0 @@ B :> 2) @@ B :> (A :> 1 @@ B :> 0)

MCSpec == Init /\ [][Next /\ ~sweep'[A].transferApprover]_vars /\ Fairness
=============================================================================
