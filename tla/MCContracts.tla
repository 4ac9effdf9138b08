----------------------------- MODULE MCContracts -----------------------------
(***************************************************************************)
(* An instance of the four contracts.  Anchor and rules on one side, token *)
(* and pool on the other share no state, and on each side two parts share  *)
(* only the clock or the ledger, so a behaviour is about one scene:        *)
(*                                                                         *)
(*   "posts"   the record of posts                                         *)
(*   "epochs"  sealed epochs and the schedule of their rules               *)
(*   "coins"   any calls of the token                                      *)
(*   "pool"    deposits, withdrawals, trades and donations                 *)
(*                                                                         *)
(* Two accounts that each may hold any office.  bob, who is the            *)
(* distributor, first mints to both, and both approve the pool: ann        *)
(* without end, bob for six coins.                                         *)
(***************************************************************************)
EXTENDS Rules, Pool

CONSTANTS ann, bob, c1, w1, r1

VARIABLE scene

mcVars == <<vars, marketVars, scene>>

MCShapes == {<<1, 1, 1>>, <<1, 0, 1>>}

AboutPosts  == \E id \in Ids : posts[id] # NoPost
AboutEpochs == anySealed \/ Deployed

Fund ==
  /\ calls' = calls + 1
  /\ CASE calls = 0 -> Mint(bob, ann, 14)
       [] calls = 1 -> Mint(bob, bob, 9)
       [] calls = 2 -> Approve(ann, Pool, Greatest)
       [] calls = 3 -> Approve(bob, Pool, 6)
  /\ UNCHANGED <<wbtcOf, poolVars>>

Funded == calls >= (IF scene = "coins" THEN 2 ELSE 4)

Coins ==
  \E sender \in Users : TokenNext(sender) /\ UNCHANGED <<wbtcOf, poolVars>>

Trade ==
  \/ \E a \in Users : PoolNext(a)
  \/ \E a \in Users, v \in Amounts : Send(a, Pool, v)
  \/ \E a \in Users, v \in Amounts :
       (Transfer(a, Pool, v) \/ Burn(a, v)) /\ UNCHANGED <<wbtcOf, poolVars>>

Market ==
  \/ ~Funded /\ Fund
  \/ /\ Funded /\ calls < MaxCalls /\ calls' = calls + 1
     /\ \/ scene = "coins" /\ calls < 6 /\ Coins
        \/ scene = "pool" /\ Trade

MCNext ==
  /\ \/ /\ scene \in {"posts", "epochs"}
        /\ Next /\ UNCHANGED marketVars
        /\ scene = "posts"  => ~AboutEpochs'
        /\ scene = "epochs" => ~AboutPosts'
     \/ scene \in {"coins", "pool"} /\ Market /\ UNCHANGED vars
  /\ UNCHANGED scene

MCInit == Init /\ PoolInit /\ scene \in {"posts", "epochs", "coins", "pool"}

MCSpec == MCInit /\ [][MCNext]_mcVars
=============================================================================
