------------------------------- MODULE Token -------------------------------
(***************************************************************************)
(* PtpToken.sol: the network's money as an ERC-20 with two more doors, a   *)
(* mint for the distributor and a burn for everybody's own coins.          *)
(*                                                                         *)
(* A call is atomic and a failing require undoes it whole, so a call that  *)
(* reverts is an action that is not enabled.  Words are as wide as         *)
(* Greatest says; what the contract adds in an unchecked block wraps here, *)
(* and what it adds checked is guarded.  Events are left out.              *)
(***************************************************************************)
EXTENDS Integers, FiniteSets, Functions

CONSTANTS
  Holders,      \* addresses that hold coins; some of them send transactions
  Distributor,  \* the one address mint answers to
  Greatest,     \* type(uint256).max
  MAX_SUPPLY,   \* the cap on everything ever emitted
  Amounts,      \* bound: the amounts a caller names
  Grants        \* bound: the allowances an owner sets

ASSUME TokenAssumption ==
  /\ IsFiniteSet(Holders) /\ Distributor \in Holders
  /\ Greatest \in Nat /\ MAX_SUPPLY \in 1 .. Greatest
  /\ Amounts \subseteq 0 .. Greatest /\ Grants \subseteq 0 .. Greatest

VARIABLES
  balanceOf, allowance,
  totalSupply, totalEmitted, totalBurned

tokenVars == <<balanceOf, allowance, totalSupply, totalEmitted, totalBurned>>

Word(n) == n % (Greatest + 1)

TokenInit ==
  /\ balanceOf = [a \in Holders |-> 0]
  /\ allowance = [owner \in Holders |-> [spender \in Holders |-> 0]]
  /\ totalSupply = 0 /\ totalEmitted = 0 /\ totalBurned = 0
-----------------------------------------------------------------------------
(* _transfer on one ledger: the sender's slot is written before the        *)
(* recipient's is read, which matters when they are the same.              *)
Moved_ReadTogether(ledger, from, to, value) ==
  [[ledger EXCEPT ![from] = @ - value] EXCEPT ![to] = Word(ledger[to] + value)]

Moved(ledger, from, to, value) ==
  [[ledger EXCEPT ![from] = @ - value] EXCEPT ![to] = Word(@ + value)]

(* _spendAllowance: what is left, unless the grant is without end.         *)
Spent(owner, spender, value) ==
  IF allowance[owner][spender] = Greatest THEN allowance
  ELSE [allowance EXCEPT ![owner][spender] = @ - value]

Allows(owner, spender, value) == allowance[owner][spender] >= value

Transfer(sender, to, value) ==
  /\ balanceOf[sender] >= value
  /\ balanceOf' = Moved(balanceOf, sender, to, value)
  /\ UNCHANGED <<allowance, totalSupply, totalEmitted, totalBurned>>

Approve(sender, spender, value) ==
  /\ allowance' = [allowance EXCEPT ![sender][spender] = value]
  /\ UNCHANGED <<balanceOf, totalSupply, totalEmitted, totalBurned>>

TransferFrom(sender, from, to, value) ==
  /\ Allows(from, sender, value)
  /\ balanceOf[from] >= value
  /\ allowance' = Spent(from, sender, value)
  /\ balanceOf' = Moved(balanceOf, from, to, value)
  /\ UNCHANGED <<totalSupply, totalEmitted, totalBurned>>

(* The cap is on what was emitted, not on what survives.                   *)
Room_OfSupply == MAX_SUPPLY - totalSupply

Room == MAX_SUPPLY - totalEmitted

Mint(sender, to, amount) ==
  /\ sender = Distributor
  /\ amount <= Room
  /\ totalEmitted' = totalEmitted + amount
  /\ totalSupply' = totalSupply + amount
  /\ balanceOf' = [balanceOf EXCEPT ![to] = Word(@ + amount)]
  /\ UNCHANGED <<allowance, totalBurned>>

(* _burn, for burn and burnFrom.                                           *)
Burned(from, value) ==
  /\ balanceOf[from] >= value
  /\ balanceOf' = [balanceOf EXCEPT ![from] = @ - value]
  /\ totalSupply' = Word(totalSupply - value)
  /\ totalBurned' = Word(totalBurned + value)
  /\ UNCHANGED totalEmitted

Burn(sender, amount) == Burned(sender, amount) /\ UNCHANGED allowance

BurnFrom(sender, account, amount) ==
  /\ Allows(account, sender, amount)
  /\ allowance' = Spent(account, sender, amount)
  /\ Burned(account, amount)

TokenNext(sender) ==
  \/ \E to \in Holders, value \in Amounts :
       Transfer(sender, to, value) \/ Mint(sender, to, value)
  \/ \E spender \in Holders, value \in Grants : Approve(sender, spender, value)
  \/ \E from, to \in Holders, value \in Amounts : TransferFrom(sender, from, to, value)
  \/ \E value \in Amounts : Burn(sender, value)
  \/ \E from \in Holders, value \in Amounts : BurnFrom(sender, from, value)
-----------------------------------------------------------------------------
(* "totalEmitted - totalBurned == totalSupply at every instant; that       *)
(* identity is the whole accounting": the live supply is also exactly what *)
(* the accounts hold, so none of the unchecked sums ever wraps, and no     *)
(* amount of burning lets the distributor emit more than the cap.          *)
SupplyAccounted ==
  /\ totalSupply = totalEmitted - totalBurned
  /\ SumFunction(balanceOf) = totalSupply
  /\ totalEmitted <= MAX_SUPPLY
=============================================================================
