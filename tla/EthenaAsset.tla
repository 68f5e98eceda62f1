----------------------------- MODULE EthenaAsset -----------------------------
(***************************************************************************)
(* contracts/Assets/EthenaAsset.sol: USDe staked in a vault that gives it  *)
(* back only after a cooldown, behind the virtual functions of             *)
(* Stabilizer.sol.  token is the ledger of the vault's shares, tokenPrice  *)
(* the USDe one of them is worth, in Unit; claim is what the vault keeps   *)
(* of a request.  USDe has Scale parts to the smallest part of usdx.       *)
(***************************************************************************)
EXTENDS StabilizerWorld

\* USDe that is cooling down belongs to no share, and is not counted.
EthenaValue(w, s) == oracleUsdxToUsd(w, convertToAssets(w, w.token[s]) \div Scale)

\* The usdx is compared, as the least that may come out, with an amount of USDe.
EthenaInvest(w, s, usdxAmount, slippage) ==
    LET paid == Least(usdxAmount, w.usdx[s])
        bought == subBasisPoints(paid, slippage) .. paid * Scale + Bonus
    IN  IF w.usdx[s] = 0 THEN {}
        ELSE {[w EXCEPT !.usdx = Moved(@, s, Outside, paid),
                        !.token = Moved(@, Outside, s, convertToShares(w, usde))] :
                usde \in {u \in bought : convertToShares(w, u) =< w.token[Outside]}}

getShares(w, s, usdxAmount) == Least(convertToShares(w, usdxAmount * Scale), w.token[s])

\* Cooling starts anew for all that is claimed; the vault refuses to cool nothing.
EthenaRequest(w, s, usdxAmount) ==
    LET shares == getShares(w, s, usdxAmount)
        claimed == w.claim[s].amount + convertToAssets(w, shares)
    IN  Call(w.claim[s].duration > 0 /\ shares > 0 /\ claimed =< MaxClaim,
             [w EXCEPT !.token = Moved(@, s, Outside, shares),
                       !.claim[s].amount = claimed,
                       !.claim[s].end = w.now + w.claim[s].duration])

\* Mutant: what has cooled down is paid, and stays claimed.
EthenaDivestAgain(w, s, usdxAmount, slippage) ==
    LET usde == w.claim[s].amount
        sold == (subBasisPoints(usde, slippage) \div Scale)
                   .. Least((usde \div Scale) + Bonus, w.usdx[Outside])
    IN  IF w.claim[s].end # 0 /\ w.claim[s].end < w.now
        THEN {[w EXCEPT !.usdx = Moved(@, Outside, s, out)] : out \in sold}
        ELSE {}

\* With a cooldown, all that has cooled down and nothing else, whatever is asked for;
\* without one, also that, and the shares asked for.
EthenaDivest(w, s, usdxAmount, slippage) ==
    LET cooled == w.claim[s].end # 0 /\ w.claim[s].end < w.now
        shares == IF w.claim[s].duration > 0 THEN 0 ELSE getShares(w, s, usdxAmount)
        usde == w.claim[s].amount + convertToAssets(w, shares)
        sold == (subBasisPoints(usde, slippage) \div Scale)
                   .. Least((usde \div Scale) + Bonus, w.usdx[Outside])
    IN  IF IF w.claim[s].duration > 0 THEN cooled ELSE w.token[s] > 0
        THEN {[w EXCEPT !.token = Moved(@, s, Outside, shares),
                        !.usdx = Moved(@, Outside, s, out),
                        !.claim[s].amount = 0, !.claim[s].end = 0] : out \in sold}
        ELSE {}
=============================================================================
