----------------------------- MODULE MapleAsset -----------------------------
(***************************************************************************)
(* contracts/Assets/MapleAsset.sol, on ERC4626Asset.sol: usdx lent to a    *)
(* Maple pool, which pays back in windows what was asked for before.       *)
(* claim.amount is the shares locked in the pool's withdrawal manager,     *)
(* claim.end when its next window opens; that a window closes again is     *)
(* that the pool may refuse, which is no step.                             *)
(***************************************************************************)
EXTENDS ERC4626Asset

\* The locked shares are worth usdx, which is added to USD as it is.
MapleValue(w, s) ==
    VaultValue(w, s) + convertToAssets(w, w.claim[s].amount)

\* The pool locks the shares until its next window.
PoolRequest(w, s, shares) ==
    Call(0 < shares /\ shares =< w.token[s] /\ w.claim[s].amount + shares =< MaxClaim,
         [w EXCEPT !.token = Moved(@, s, Outside, shares),
                   !.claim[s].amount = @ + shares,
                   !.claim[s].end = w.now + w.claim[s].duration])

\* _getSharesAmount: what is asked for or the balance, whichever is more.
getSharesAmount(w, s, usdxAmount) ==
    LET asked == convertToShares(w, usdxAmount)
    IN  IF w.token[s] > asked THEN w.token[s] ELSE asked

MapleRequest(w, s, usdxAmount) == PoolRequest(w, s, getSharesAmount(w, s, usdxAmount))

\* Mutant: a share pays one usdx, whatever it is worth.
MapleDivestAtPar(w, s) ==
    IF w.claim[s].end =< w.now
    THEN {[w EXCEPT !.usdx = Moved(@, Outside, s, paid), !.claim[s].amount = @ - paid] :
             paid \in {p \in 1 .. w.claim[s].amount : p =< w.usdx[Outside]}}
    ELSE {}

\* All that is locked is asked back; the pool pays what its liquidity allows, and keeps
\* the rest for the window after.
MapleDivest(w, s) ==
    IF w.claim[s].end =< w.now
    THEN {[w EXCEPT !.usdx = Moved(@, Outside, s, convertToAssets(w, paid)),
                    !.claim[s].amount = @ - paid,
                    !.claim[s].end = w.now + w.claim[s].duration] :
             paid \in {p \in 1 .. w.claim[s].amount :
                          convertToAssets(w, p) =< w.usdx[Outside]}}
    ELSE {}
=============================================================================
