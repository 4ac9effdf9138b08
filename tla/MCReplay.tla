------------------------------ MODULE MCReplay ------------------------------
(***************************************************************************)
(* Instances of Replay.  Each specification below starts in the empty      *)
(* world, funds its participants by ordinary acts (register, claim a burn, *)
(* trade it, buy CAP) in one fixed order, and then lets them interleave    *)
(* the acts one question is about.                                         *)
(***************************************************************************)
EXTENDS Rulebook, TLC

CONSTANTS ann, bob, cyn, o1, o2, o3, n1, n2, n3, c1, c2

(* Ten basis points make a whole, so that every split and cap leaves dust. *)
(* At the genesis rate one nanoeuro costs (ptp / (2 * sat)) wei.           *)
MCParams ==
  [bps |-> 10, fee |-> [creator |-> 4, burn |-> 3, capacity |-> 1, treasury |-> 2],
   publish |-> [creator |-> 0, burn |-> 6, capacity |-> 1, treasury |-> 3],
   publishBase |-> 1, rentPerMbDay |-> 1, replication |-> 2, capCoin |-> 2,
   bytesPerMb |-> 2, shardBytes |-> 1, maxBytes |-> 2,
   likeBps |-> 5, commentBps |-> 15, minSettlement |-> 1,
   priceMin |-> 1, priceMax |-> 2, lifetime |-> 2, grace |-> 1, epochLength |-> 2,
   cooldown |-> 1, pairCap |-> 1, swapFeeBps |-> 1, satPerBtc |-> 1,
   maxMoveBps |-> 5, quorum |-> 2, bondPerGb |-> 1, accountBond |-> 1, mbPerGb |-> 1,
   kappa |-> 7, spikeBps |-> 20, medianEpochs |-> 2,
   epochEmission |-> 9, decayNum |-> 9, decayDen |-> 10, decayEpochs |-> 2,
   maxSupply |-> 210, genesisSat |-> 20, genesisPtp |-> 200, minLiquidity |-> 1,
   genesisRate |-> 2, slotMb |-> 1, maxSlots |-> 2]

MCInputs ==
  [amounts |-> {1, 10}, minOuts |-> {0}, shares |-> {1}, bytes |-> {2}, days |-> {1},
   prices |-> {2}, seqs |-> {0, 1}, mbs |-> {1}, shards |-> {0, 1}, froms |-> {1, 2},
   oracles |-> {[listed |-> FALSE, eur |-> 0, sources |-> <<>>]}]

MCTxoSat == [o \in Txos |-> IF o = o2 THEN 20 ELSE 10]

(* Rendezvous scores of the virtual slots: each node leads one shard, and  *)
(* a second slot lifts the weakest.                                        *)
MCScore == [a \in Addr, k \in 0 .. 1, c \in Cids, s \in 0 .. 1 |->
              IF k = 1 THEN (IF a = bob THEN 9 ELSE 0)
              ELSE CASE a = ann -> 3 - s [] a = bob -> 2 + s [] OTHER -> 1]
-----------------------------------------------------------------------------
(* The funding path: everybody registers, claims a burn and trades it, and *)
(* then whoever is to publish buys CAP.  What it does never becomes undone *)
(* (joined, burns and supply.burned only grow), so it ends once.           *)
NameOf  == [a \in {ann, bob, cyn} |-> CASE a = ann -> n1 [] a = bob -> n2 [] OTHER -> n3]
OwnerOf == [o \in {o1, o2, o3} |-> CASE o = o1 -> ann [] o = o2 -> bob [] OTHER -> cyn]

Idle == {a \in Addr : accounts[a].sat > 0}

Fund(spend) ==
  LET a == CHOOSE x \in Addr \ joined : TRUE
      o == CHOOSE x \in Txos \ burns : TRUE
      i == CHOOSE x \in Idle : \A y \in Idle : x = ann \/ y # ann
  IN  IF joined # Addr THEN Register(a, 1, NameOf[a])
      ELSE IF burns # Txos THEN BurnClaim(OwnerOf[o], 1, o)
      ELSE IF Idle # {} THEN SwapBtc(i, 1, accounts[i].sat, 0)
      ELSE CapBuy(ann, 1, spend)

Funded == joined = Addr /\ burns = Txos /\ Idle = {} /\ supply.burned > 0
-----------------------------------------------------------------------------
(* One run asks two questions, each of a history of its own; left bounds   *)
(* the acts of a history that nothing else would end.                      *)
VARIABLES question, left

Asks(q, step) == question = q /\ step /\ UNCHANGED <<question, left>>
scene == <<vars, question, left>>

-----------------------------------------------------------------------------
(* The wall: one author and two viewers, two posts of one picture.         *)
WallStep ==
  \/ ~Funded /\ Fund(30)
  \/ Funded /\ \E a \in Addr, t \in Stamps : WallNext(a, t)
  \/ Funded /\ \E a \in Addr, t \in Stamps : EngagementNext(a, t)

(* Capacity: two nodes draw one post in every order, or one resizes its    *)
(* pledge over two epochs.  The rent period spans two epochs, so proofs    *)
(* and claims fall in both, and the publish fee leaves one wei in the      *)
(* serving escrow.  One holder per shard: ann leads shard 0, bob shard 1,  *)
(* and bob's second slot both.                                             *)
PostsParams == [MCParams EXCEPT !.lifetime = 3, !.replication = 1, !.publishBase = 3,
                                !.bytesPerMb = 1]
PostsInputs == [MCInputs EXCEPT !.mbs = {1, 2}]

(* Pledges that repeat the size are left out.  Either both nodes pledge    *)
(* and the epoch stays open, or bob alone pledges and epochs close.        *)
MayPledge(a, mb) ==
  mb # providers[a].mb /\ (a = ann => mb = 1 /\ epoch.n = 0)

CapacityStep ==
  \/ ~Funded /\ Fund(20)
  \/ Funded /\ \E a \in {ann, bob}, t \in {1, 3, 5} :
       \/ a = ann /\ WallNext(a, t) /\ seq' <= 1
       \/ \E mb \in Inputs.mbs : MayPledge(a, mb) /\ CapPledge(a, t, mb)
       \/ \E p \in Pids, s \in Inputs.shards : CapProof(a, t, p, s)
       \/ CapClaim(a, t)
       \/ a = bob /\ \E p \in Pids : View(a, t, p, 0)
       \/ a = ann /\ providers[a].mb = 0 /\ \E oracle \in Inputs.oracles : CloseEpoch(a, t, oracle)

PostsInit == Init /\ question \in {"wall", "capacity"} /\ left = 0

PostsSpec ==
  /\ PostsInit
  /\ [][Asks("wall", WallStep) \/ Asks("capacity", CapacityStep)]_scene
-----------------------------------------------------------------------------
(* Epochs: two authors who view each other, in one epoch and in the next,  *)
(* and rails so small that the schedule, the burn coupling and the supply  *)
(* ceiling each bind in some epoch.  One wei buys one unit of CAP, the     *)
(* price of one post, so nearly all of the burn is the epochs' own.        *)
EpochParams ==
  [MCParams EXCEPT !.maxSupply = 205, !.epochEmission = 7, !.decayEpochs = 1, !.priceMax = 4,
                   !.lifetime = 3, !.capCoin = 5, !.bytesPerMb = 20]
EpochInputs ==
  [MCInputs EXCEPT !.froms = {2}, !.amounts = {1, 3, 10}, !.minOuts = {0, 3}, !.shares = {1, 3},
     !.oracles =
     {[listed |-> TRUE, eur |-> 0, sources |-> <<4, 3, 0>>],
      [listed |-> TRUE, eur |-> 0, sources |-> <<3>>]}]

EpochStep ==
  \/ ~Funded /\ Fund(1)
  \/ Funded /\ \E a \in Addr, t \in Stamps :
       \/ \E d \in Inputs.days : Post(a, t, IF a = ann THEN c1 ELSE c2, 2, 4, d)
       \/ a = ann /\ \E p \in Pids : Settle(a, t, p)
       \/ a = bob /\ accounts[a].cap = 0 /\ CapBuy(a, t, 1)
       \/ \E p \in Pids, s \in Inputs.seqs : View(a, t, p, s)
       \/ \E from \in Inputs.froms : RulesSet(a, t, from)
       \/ a = ann /\ \E oracle \in Inputs.oracles : CloseEpoch(a, t, oracle)

(* The pool: two accounts claim their burns, trade, deposit and withdraw,  *)
(* PoolActs acts at most.                                                  *)
PoolActs == 9
PoolStep ==
  /\ question = "pool" /\ left > 0 /\ left' = left - 1 /\ UNCHANGED question
  /\ \E a \in Addr : IdentityNext(a, 1) \/ PoolNext(a, 1)

MarketInit ==
  /\ Init
  /\ \/ question = "epoch" /\ left = 0
     \/ question = "pool" /\ left = PoolActs

MarketSpec ==
  /\ MarketInit
  /\ [][Asks("epoch", EpochStep) \/ PoolStep]_scene
=============================================================================
