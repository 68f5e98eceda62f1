----------------------------- MODULE ERC4626Asset -----------------------------
(***************************************************************************)
(* contracts/Assets/ERC4626Asset.sol: usdx deposited in a vault, behind    *)
(* the virtual functions of Stabilizer.sol.  token is the ledger of the    *)
(* vault's shares, tokenPrice the usdx one of them is worth, in Unit.  A   *)
(* vault rounds against its caller: it takes usdx and burns shares rounded *)
(* up, and gives what it gives rounded down.                               *)
(***************************************************************************)
EXTENDS StabilizerWorld

VaultValue(w, s) == oracleUsdxToUsd(w, convertToAssets(w, w.token[s]))

InvestDeposit(w, s, usdxAmount) ==
    LET paid == Least(usdxAmount, w.usdx[s])
        shares == convertToShares(w, paid)
    IN  Call(w.usdx[s] > 0 /\ shares =< w.token[Outside],
             [w EXCEPT !.usdx = Moved(@, s, Outside, paid),
                       !.token = Moved(@, Outside, s, shares)])

\* The vault may take what is approved for it: what the shares are worth, rounded down
\* and cut to what there is.  It reverts when the shares cost more.
InvestMint(w, s, shares) ==
    LET approved == Least(convertToAssets(w, shares), w.usdx[s])
    IN  Call(/\ w.usdx[s] > 0 /\ shares =< w.token[Outside]
             /\ shares * w.tokenPrice =< approved * Unit,
             [w EXCEPT !.usdx = Moved(@, s, Outside, approved),
                       !.token = Moved(@, Outside, s, shares)])

\* What leaves the vault and the shares burnt for it; it pays only what it has, and only
\* for shares its caller has.
Leave(w, s, out, shares) ==
    Call(shares =< w.token[s] /\ out =< w.usdx[Outside],
         [w EXCEPT !.usdx = Moved(@, Outside, s, out),
                   !.token = Moved(@, s, Outside, shares)])

vaultWithdraw(w, s, out) == Leave(w, s, out, (out * Unit + w.tokenPrice - 1) \div w.tokenPrice)
vaultRedeem(w, s, shares) == Leave(w, s, convertToAssets(w, shares), shares)

\* Mutant: the shares are taken for the usdx to withdraw.
DivestWithdrawShares(w, s, usdxAmount) ==
    IF w.token[s] = 0 THEN {}
    ELSE vaultWithdraw(w, s, Least(convertToShares(w, usdxAmount), w.token[s]))

DivestWithdraw(w, s, usdxAmount) ==
    IF w.token[s] = 0 THEN {}
    ELSE vaultWithdraw(w, s,
             convertToAssets(w, Least(convertToShares(w, usdxAmount), w.token[s])))

\* What the shares are worth is redeemed as if it were shares.
DivestRedeem(w, s, sharesAmount) ==
    IF w.token[s] = 0 THEN {}
    ELSE vaultRedeem(w, s, convertToAssets(w, Least(sharesAmount, w.token[s])))
=============================================================================
