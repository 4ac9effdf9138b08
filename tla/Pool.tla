-------------------------------- MODULE Pool --------------------------------
(***************************************************************************)
(* PtpPool.sol over PtpToken.sol: the one market of wBTC against PTP.      *)
(*                                                                         *)
(* wBTC is somebody else's contract.  The pool assumes that it moves what  *)
(* it is told to move, and so does this module; every account has approved *)
(* the pool for it.  With calls atomic and no hooks in either token, the   *)
(* lock of the pool is never found closed and is left out.                 *)
(***************************************************************************)
EXTENDS Token

CONSTANTS
  Pool,               \* the address of the contract
  Locked,             \* the zero address, which holds the locked shares
  MINIMUM_LIQUIDITY,
  feeBps, Bps,        \* the fee, out of Bps
  BtcMinted,          \* bound: the wBTC each account starts with
  Minima,             \* bound: the least a caller says it will accept
  MaxCalls            \* bound: calls

Users == Holders \ {Pool}

(* The other coin before the first call: as much as its own words hold.    *)
BtcGenesis == [a \in Holders |-> IF a = Pool THEN 0 ELSE BtcMinted]

ASSUME PoolAssumption ==
  /\ Pool \in Holders /\ Locked \notin Holders
  /\ MINIMUM_LIQUIDITY \in Nat /\ Bps \in Nat \ {0} /\ feeBps \in 0 .. Bps
  /\ Minima \subseteq Nat /\ MaxCalls \in Nat
  /\ BtcMinted \in Nat /\ SumFunction(BtcGenesis) <= Greatest

VARIABLES
  wbtcOf,                   \* balances in the other token
  reserveWbtc, reservePtp,  \* what the pool has booked
  sharesOf, totalShares,
  calls                     \* counted against the bound

poolVars   == <<reserveWbtc, reservePtp, sharesOf, totalShares>>
marketVars == <<tokenVars, wbtcOf, poolVars, calls>>

PoolInit ==
  /\ TokenInit
  /\ wbtcOf = BtcGenesis
  /\ reserveWbtc = 0 /\ reservePtp = 0
  /\ sharesOf = [a \in Holders \cup {Locked} |-> 0] /\ totalShares = 0
  /\ calls = 0
-----------------------------------------------------------------------------
CeilDiv(a, b) == (a + b - 1) \div b

(* _sqrt, rounding down.                                                   *)
Sqrt(y) == CHOOSE z \in 0 .. y : z * z <= y /\ (z + 1) * (z + 1) > y

(* amountOut: the fee stays in, the division comes last.                   *)
AmountOut_Up(amountIn, reserveIn, reserveOut) ==
  LET inWithFee == amountIn * (Bps - feeBps)
  IN  CeilDiv(reserveOut * inWithFee, reserveIn * Bps + inWithFee)

AmountOut(amountIn, reserveIn, reserveOut) ==
  LET inWithFee == amountIn * (Bps - feeBps)
  IN  (reserveOut * inWithFee) \div (reserveIn * Bps + inWithFee)

(* Coins the pool takes from a caller, and the wBTC and PTP it pays out.   *)
(* The pool spends the allowance the caller gave it.                       *)
CanPull(sender, wbtc, ptp) ==
  wbtcOf[sender] >= wbtc /\ balanceOf[sender] >= ptp /\ Allows(sender, Pool, ptp)

CanPush(wbtc, ptp) == wbtcOf[Pool] >= wbtc /\ balanceOf[Pool] >= ptp

Pay(sender, wbtcIn, ptpIn, to, wbtcOut, ptpOut) ==
  /\ wbtcOf' = Moved(Moved(wbtcOf, sender, Pool, wbtcIn), Pool, to, wbtcOut)
  /\ balanceOf' = Moved(Moved(balanceOf, sender, Pool, ptpIn), Pool, to, ptpOut)
  /\ allowance' = Spent(sender, Pool, ptpIn)
  /\ UNCHANGED <<totalSupply, totalEmitted, totalBurned>>

(* addLiquidity, first deposit: the geometric mean, less what is locked.   *)
Open(sender, wbtcIn, ptpIn, minShares, to) ==
  LET s0 == Sqrt(wbtcIn * ptpIn)
  IN  /\ totalShares = 0
      /\ s0 > MINIMUM_LIQUIDITY /\ s0 - MINIMUM_LIQUIDITY >= minShares
      /\ CanPull(sender, wbtcIn, ptpIn)
      /\ sharesOf' = [sharesOf EXCEPT ![Locked] = MINIMUM_LIQUIDITY,
                                      ![to] = @ + s0 - MINIMUM_LIQUIDITY]
      /\ totalShares' = s0
      /\ reserveWbtc' = reserveWbtc + wbtcIn /\ reservePtp' = reservePtp + ptpIn
      /\ Pay(sender, wbtcIn, ptpIn, to, 0, 0)

(* What a deposit of so many shares takes from one side, rounded up.       *)
Used_Down(minted, reserve) == (minted * reserve) \div totalShares

Used(minted, reserve) == CeilDiv(minted * reserve, totalShares)

(* What it books: what it takes.                                           *)
Booked_Offered(offered, used) == offered

Booked(offered, used) == used

(* addLiquidity, later: the largest deposit that fits under both ceilings. *)
AddLiquidity(sender, wbtcIn, ptpIn, minShares, to) ==
  LET byWbtc   == (wbtcIn * totalShares) \div reserveWbtc
      byPtp    == (ptpIn * totalShares) \div reservePtp
      minted   == IF byWbtc < byPtp THEN byWbtc ELSE byPtp
      usedWbtc == Used(minted, reserveWbtc)
      usedPtp  == Used(minted, reservePtp)
  IN  /\ totalShares > 0
      /\ minted > 0 /\ minted >= minShares
      /\ CanPull(sender, usedWbtc, usedPtp)
      /\ sharesOf' = [sharesOf EXCEPT ![to] = @ + minted]
      /\ totalShares' = totalShares + minted
      /\ reserveWbtc' = reserveWbtc + Booked(wbtcIn, usedWbtc)
      /\ reservePtp' = reservePtp + Booked(ptpIn, usedPtp)
      /\ Pay(sender, usedWbtc, usedPtp, to, 0, 0)

RemoveLiquidity(sender, shares, minWbtc, minPtp, to) ==
  LET wbtcOut == (shares * reserveWbtc) \div totalShares
      ptpOut  == (shares * reservePtp) \div totalShares
  IN  /\ shares > 0 /\ sharesOf[sender] >= shares
      /\ wbtcOut >= minWbtc /\ ptpOut >= minPtp
      /\ CanPush(wbtcOut, ptpOut)
      /\ sharesOf' = [sharesOf EXCEPT ![sender] = @ - shares]
      /\ totalShares' = totalShares - shares
      /\ reserveWbtc' = reserveWbtc - wbtcOut /\ reservePtp' = reservePtp - ptpOut
      /\ Pay(sender, 0, 0, to, wbtcOut, ptpOut)

SellPtp(sender, amountIn, minOut, to) ==
  LET out == AmountOut(amountIn, reservePtp, reserveWbtc)
  IN  /\ amountIn > 0 /\ reservePtp > 0 /\ reserveWbtc > 0
      /\ out > 0 /\ out >= minOut
      /\ CanPull(sender, 0, amountIn) /\ CanPush(out, 0)
      /\ reservePtp' = reservePtp + amountIn /\ reserveWbtc' = reserveWbtc - out
      /\ Pay(sender, 0, amountIn, to, out, 0)
      /\ UNCHANGED <<sharesOf, totalShares>>

BuyPtp(sender, amountIn, minOut, to) ==
  LET out == AmountOut(amountIn, reserveWbtc, reservePtp)
  IN  /\ amountIn > 0 /\ reservePtp > 0 /\ reserveWbtc > 0
      /\ out > 0 /\ out >= minOut
      /\ CanPull(sender, amountIn, 0) /\ CanPush(0, out)
      /\ reserveWbtc' = reserveWbtc + amountIn /\ reservePtp' = reservePtp - out
      /\ Pay(sender, amountIn, 0, to, 0, out)
      /\ UNCHANGED <<sharesOf, totalShares>>

(* wBTC sent past the pool's functions.                                    *)
Send(sender, to, value) ==
  /\ wbtcOf[sender] >= value
  /\ wbtcOf' = Moved(wbtcOf, sender, to, value)
  /\ UNCHANGED <<tokenVars, poolVars>>
-----------------------------------------------------------------------------
PoolNext(sender) ==
  \E to \in Holders :
    \/ \E wbtc, ptp \in Amounts \ {0}, min \in Minima :
         Open(sender, wbtc, ptp, min, to) \/ AddLiquidity(sender, wbtc, ptp, min, to)
    \/ \E shares \in Amounts, minWbtc, minPtp \in Minima :
         RemoveLiquidity(sender, shares, minWbtc, minPtp, to)
    \/ \E amount \in Amounts, min \in Minima :
         SellPtp(sender, amount, min, to) \/ BuyPtp(sender, amount, min, to)

Call ==
  \/ \E sender \in Users : PoolNext(sender) \/ \E to \in Holders, v \in Amounts : Send(sender, to, v)
  \/ \E sender \in Users : TokenNext(sender) /\ UNCHANGED <<wbtcOf, poolVars>>

MarketNext == calls < MaxCalls /\ calls' = calls + 1 /\ Call

MarketSpec == PoolInit /\ [][MarketNext]_marketVars
-----------------------------------------------------------------------------
(* "Reserves are what people put in": the pool holds at least what it has  *)
(* booked of either coin, whatever was donated to it or routed back to it, *)
(* its shares are the holders', and once open it never closes: the locked  *)
(* shares stay and neither side is ever empty, so nothing divides by zero. *)
PoolSolvent ==
  /\ wbtcOf[Pool] >= reserveWbtc /\ balanceOf[Pool] >= reservePtp
  /\ SumFunction(sharesOf) = totalShares
  /\ totalShares > 0 =>
       sharesOf[Locked] = MINIMUM_LIQUIDITY /\ reserveWbtc > 0 /\ reservePtp > 0

(* Whose everything is: the accounts' coins add up to the supply, which    *)
(* stays under its cap however much was burned, and the pool covers what   *)
(* it booked and what it owes its shareholders.                            *)
HoldingsAccounted == SupplyAccounted /\ PoolSolvent

(* "Rounding, everywhere it appears, favours the pool": what one share     *)
(* stands for, as the product of the reserves over the square of the       *)
(* shares, never falls, in a trade, a deposit or a withdrawal.             *)
ShareValueNeverFalls ==
  [][totalShares > 0 =>
       reserveWbtc' * reservePtp' * totalShares * totalShares
         >= reserveWbtc * reservePtp * totalShares' * totalShares']_marketVars
=============================================================================
