----------------------------- MODULE ERC20Asset -----------------------------
(***************************************************************************)
(* contracts/Assets/ERC20Asset.sol: a token with a Chainlink price, bought *)
(* and sold on an AMM, behind the virtual functions of Stabilizer.sol.     *)
(***************************************************************************)
EXTENDS StabilizerWorld

TokenValue(w, s) == (w.token[s] * w.tokenPrice) \div Unit

oracleUsdxToToken(w, usdxAmount) == (usdxAmount * w.usdxPrice) \div w.tokenPrice
oracleTokenToUsdx(w, tokenAmount) == (tokenAmount * w.tokenPrice) \div w.usdxPrice

\* The outcomes of a swap against a pool that holds reserve of what it pays.
Outcomes(fair, slippage, reserve) ==
    ((fair * (Precision - slippage)) \div Precision) .. Least(fair + Bonus, reserve)

TokenInvest(w, s, usdxAmount, slippage) ==
    LET paid == Least(usdxAmount, w.usdx[s])
    IN  IF w.usdx[s] = 0 THEN {}
        ELSE {[w EXCEPT !.usdx = Moved(@, s, Outside, paid),
                        !.token = Moved(@, Outside, s, out)] :
                out \in Outcomes(oracleUsdxToToken(w, paid), slippage, w.token[Outside])}

TokenDivest(w, s, usdxAmount, slippage) ==
    LET paid == Least(oracleUsdxToToken(w, usdxAmount), w.token[s])
    IN  IF w.token[s] = 0 THEN {}
        ELSE {[w EXCEPT !.token = Moved(@, s, Outside, paid),
                        !.usdx = Moved(@, Outside, s, out)] :
                out \in Outcomes(oracleTokenToUsdx(w, paid), slippage, w.usdx[Outside])}
=============================================================================
