--------------------------- MODULE BoundaryProofs ---------------------------
(***************************************************************************)
(* Theorems about the edge of the network, each for every value of its     *)
(* constants: first what the host takes on somebody's word (a device's on  *)
(* a shard, an explorer's on a burn, a source's and a closer's on the      *)
(* rate), then the four contracts on a chain of their own (the anchor and  *)
(* the schedule of rules, the token and the pool), and last what is kept   *)
(* as bytes: the trees an epoch's roots commit to, and the pictures' files.*)
(***************************************************************************)
EXTENDS Capacity, Watch, Oracle, Merkle, Media, Rules, Pool, AccountingTheorems
-----------------------------------------------------------------------------
(***************************************************************************)
(* That a pledge moves nobody's share but the pledger's own, for every set *)
(* of nodes, every replication and every outcome of the hash.  A node is   *)
(* placed when fewer than `Replication' are ahead of it.  What one pledge  *)
(* changes is the slots of one node; so when that node grows, the set of   *)
(* those ahead of any other can only gain, and when it shrinks only lose.  *)
(***************************************************************************)

(* Everything placement reads of the pledges has its type.                 *)
PledgesTyped == pledge \in [Nodes -> 0 .. MaxSlots]

AheadOf(p, m) == {k \in LiveNodes : Ahead(p, k, m)}

LEMMA TypedInv == CapSpec => []PledgesTyped
<1>1. CapInit => PledgesTyped
  BY CapacityAssumption DEF CapInit, PledgesTyped
<1>2. PledgesTyped /\ [CapNext]_capVars => PledgesTyped'
  <2> SUFFICES ASSUME PledgesTyped, [CapNext]_capVars PROVE PledgesTyped'
    OBVIOUS
  <2>1. ASSUME NEW n \in Nodes, NEW slots \in 1 .. MaxSlots, Pledge(n, slots)
        PROVE  PledgesTyped'
    BY <2>1 DEF Pledge, PledgesTyped
  <2>2. UNCHANGED pledge => PledgesTyped'
    BY DEF PledgesTyped
  <2> QED
    BY <2>1, <2>2 DEF CapNext, capVars, NewShard, Expire, CloseDay, Forgets, Accept, Evict,
       Prove, Challenge, Delay, CapProof
<1> QED
  BY <1>1, <1>2, PTL DEF CapSpec

(* What is ahead of a node is finite, and a part of it is no larger.       *)
LEMMA FewerAhead ==
  ASSUME NEW S \in SUBSET Nodes, NEW T, T \subseteq S, Cardinality(S) < Replication
  PROVE  Cardinality(T) < Replication
<1>1. IsFiniteSet(S)
  BY CapacityAssumption, FS_Subset
<1>2. IsFiniteSet(T) /\ Cardinality(T) <= Cardinality(S)
  BY <1>1, FS_Subset
<1>3. Cardinality(S) \in Nat /\ Cardinality(T) \in Nat
  BY <1>1, <1>2, FS_CardinalityType
<1> QED
  BY <1>2, <1>3, CapacityAssumption

(* One pledge changes the slots of one node, and nothing of the hash.      *)
LEMMA PledgeChangesOne ==
  ASSUME PledgesTyped, NEW n \in Nodes, NEW slots \in 1 .. MaxSlots, Pledge(n, slots)
  PROVE  /\ \A m \in Nodes \ {n} : pledge'[m] = pledge[m]
         /\ pledge'[n] = slots
         /\ score' = score
BY DEF Pledge, PledgesTyped

(* When n grows, whoever was ahead of another still is.                    *)
LEMMA GrowingStaysAhead ==
  ASSUME PledgesTyped, NEW n \in Nodes, NEW slots \in 1 .. MaxSlots, Pledge(n, slots),
         slots > pledge[n], NEW p \in Posts, NEW m \in Nodes \ {n}
  PROVE  AheadOf(p, m) \subseteq AheadOf(p, m)'
<1>1. SlotsOf(m)' = SlotsOf(m)
  BY PledgeChangesOne DEF SlotsOf
<1>2. \A k \in Nodes : SlotsOf(k) \subseteq SlotsOf(k)'
  BY PledgeChangesOne, CapacityAssumption DEF SlotsOf, Slots, PledgesTyped
<1>3. LiveNodes \subseteq LiveNodes'
  BY PledgeChangesOne DEF LiveNodes
<1>4. \A k \in Nodes : Ahead(p, k, m) => Ahead(p, k, m)'
  BY <1>1, <1>2, PledgeChangesOne DEF Ahead
<1> QED
  BY <1>3, <1>4 DEF AheadOf, LiveNodes

(* When n shrinks, whoever is ahead of another was so before.              *)
LEMMA ShrinkingWasAhead ==
  ASSUME PledgesTyped, NEW n \in Nodes, NEW slots \in 1 .. MaxSlots, Pledge(n, slots),
         slots < pledge[n], NEW p \in Posts, NEW m \in Nodes \ {n}
  PROVE  AheadOf(p, m)' \subseteq AheadOf(p, m)
<1>1. SlotsOf(m)' = SlotsOf(m)
  BY PledgeChangesOne DEF SlotsOf
<1>2. \A k \in Nodes : SlotsOf(k)' \subseteq SlotsOf(k)
  BY PledgeChangesOne, CapacityAssumption DEF SlotsOf, Slots, PledgesTyped
<1>3. LiveNodes' \subseteq LiveNodes
  BY PledgeChangesOne DEF LiveNodes, PledgesTyped
<1>4. \A k \in Nodes : Ahead(p, k, m)' => Ahead(p, k, m)
  BY <1>1, <1>2, PledgeChangesOne DEF Ahead
<1> QED
  BY <1>3, <1>4 DEF AheadOf, LiveNodes

(* A pledge places nobody but the pledger when it grows, and takes from    *)
(* nobody but the pledger when it shrinks.                                 *)
LEMMA PledgeMovesOwn ==
  ASSUME PledgesTyped, NEW n \in Nodes, NEW slots \in 1 .. MaxSlots, Pledge(n, slots),
         NEW p \in Posts
  PROVE  /\ slots > pledge[n] => PlacementFor(p)' \subseteq PlacementFor(p) \cup {n}
         /\ slots < pledge[n] => PlacementFor(p) \subseteq PlacementFor(p)' \cup {n}
<1>1. \A m \in Nodes \ {n} : m \in LiveNodes <=> m \in LiveNodes'
  BY PledgeChangesOne DEF LiveNodes
<1>2. \A m \in Nodes : m \in PlacementFor(p) <=>
         m \in LiveNodes /\ Cardinality(AheadOf(p, m)) < Replication
  BY DEF PlacementFor, AheadOf, LiveNodes
<1>3. \A m \in Nodes : m \in PlacementFor(p)' <=>
         m \in LiveNodes' /\ Cardinality(AheadOf(p, m)') < Replication
  BY DEF PlacementFor, AheadOf, LiveNodes
<1>4. PlacementFor(p) \subseteq Nodes /\ PlacementFor(p)' \subseteq Nodes
  BY DEF PlacementFor, LiveNodes
<1>5. \A m \in Nodes : AheadOf(p, m) \in SUBSET Nodes /\ AheadOf(p, m)' \in SUBSET Nodes
  BY DEF AheadOf, LiveNodes
<1>6. ASSUME slots > pledge[n], NEW m \in Nodes \ {n}, m \in PlacementFor(p)'
      PROVE  m \in PlacementFor(p)
  BY <1>1, <1>2, <1>3, <1>5, <1>6, GrowingStaysAhead, FewerAhead
<1>7. ASSUME slots < pledge[n], NEW m \in Nodes \ {n}, m \in PlacementFor(p)
      PROVE  m \in PlacementFor(p)'
  BY <1>1, <1>2, <1>3, <1>5, <1>7, ShrinkingWasAhead, FewerAhead
<1> QED
  BY <1>4, <1>6, <1>7

(* placementFor: a pledge that grows makes no other node newly placed, and *)
(* one that shrinks makes no other node lose its place, whatever the nodes *)
(* have pledged and whatever the hash drew.                                *)
THEOREM ShareMovesAlone == CapSpec => OnlyOwnShareMoves
<1> DEFINE Moves ==
      \A n \in Nodes, p \in Posts :
        /\ pledge'[n] > pledge[n] => PlacementFor(p)' \subseteq PlacementFor(p) \cup {n}
        /\ pledge'[n] < pledge[n] => PlacementFor(p) \subseteq PlacementFor(p)' \cup {n}
<1>1. PledgesTyped /\ [CapNext]_capVars => [Moves]_capVars
  <2> SUFFICES ASSUME PledgesTyped, CapNext PROVE Moves
    BY DEF capVars
  <2>1. ASSUME NEW k \in Nodes, NEW slots \in 1 .. MaxSlots, Pledge(k, slots)
        PROVE  Moves
    <3> SUFFICES ASSUME NEW n \in Nodes, NEW p \in Posts
                 PROVE  /\ pledge'[n] > pledge[n] => PlacementFor(p)' \subseteq PlacementFor(p) \cup {n}
                        /\ pledge'[n] < pledge[n] => PlacementFor(p) \subseteq PlacementFor(p)' \cup {n}
      OBVIOUS
    <3>1. CASE n = k
      BY <2>1, <3>1, PledgeMovesOwn, PledgeChangesOne
    <3>2. CASE n # k
      BY <2>1, <3>2, PledgeChangesOne DEF PledgesTyped
    <3> QED
      BY <3>1, <3>2
  <2>2. ASSUME UNCHANGED pledge PROVE Moves
    BY <2>2 DEF PledgesTyped
  <2> QED
    BY <2>1, <2>2 DEF CapNext, NewShard, Expire, CloseDay, Forgets, Accept, Evict,
       Prove, Challenge, Delay, CapProof
<1> QED
  BY <1>1, TypedInv, PTL DEF CapSpec, OnlyOwnShareMoves
-----------------------------------------------------------------------------
(* That a credit is worth a day of storage.  By itself this is not kept by *)
(* a step: it has to be known that whoever holds a shard now is counted in *)
(* this epoch, which a close must renew, and that every answer made so far *)
(* was made by somebody who held the bytes in the epoch it is of.          *)
Counted ==
  /\ answers \subseteq kept
  /\ \A n \in Nodes, p \in Posts : p \in has[n] => <<p, epoch>> \in kept

CreditInv == CapTypeOK /\ Counted /\ CreditMeansKept

(* The state keeps its type.                                               *)
LEMMA CapTyped == CapTypeOK /\ [CapNext]_capVars => CapTypeOK'
<1> SUFFICES ASSUME CapTypeOK, [CapNext]_capVars PROVE CapTypeOK'
  OBVIOUS
<1> USE DEF CapTypeOK
<1>1. ASSUME NEW n \in Nodes, NEW slots \in 1 .. MaxSlots, Pledge(n, slots) PROVE CapTypeOK'
  BY <1>1 DEF Pledge
<1>2. ASSUME NEW p \in Posts, NewShard(p) \/ Expire(p) PROVE CapTypeOK'
  BY <1>2 DEF NewShard, Expire
<1>3. ASSUME CloseDay PROVE CapTypeOK'
  <2>1. {<<p, epoch'>> : p \in Holding(has)} \subseteq Posts \X Nat
    BY <1>3 DEF CloseDay, Holding
  <2> QED
    BY <1>3, <2>1 DEF CloseDay
<1>4. ASSUME Forgets PROVE CapTypeOK'
  BY <1>4 DEF Forgets
<1>5. ASSUME NEW n \in Nodes, NEW p \in Posts, Accept(n, p) \/ Evict(n, p) \/ Prove(n, p)
      PROVE  CapTypeOK'
  BY <1>5 DEF Accept, Evict, Prove
<1>6. ASSUME NEW n \in Nodes, Challenge(n) PROVE CapTypeOK'
  <2>1. {<<n, p, epoch>> : p \in AsksOf(n)} \subseteq Nodes \X Posts \X Nat
    BY DEF AsksOf
  <2> QED
    BY <1>6, <2>1 DEF Challenge
<1>7. ASSUME NEW i \in issued, Delay(i) PROVE CapTypeOK'
  BY <1>7 DEF Delay
<1>8. ASSUME NEW n \in Nodes, NEW p \in Posts, NEW e \in 0 .. LastEpoch, CapProof(n, p, e)
      PROVE  CapTypeOK'
  BY <1>8 DEF CapProof
<1>9. ASSUME UNCHANGED capVars PROVE CapTypeOK'
  BY <1>9 DEF capVars
<1> QED
  BY <1>1, <1>2, <1>3, <1>4, <1>5, <1>6, <1>7, <1>8, <1>9 DEF CapNext

(* What is counted stays counted: a close renews it, an answer needs it,   *)
(* and a credit is given for an answer to the seed of the same epoch.      *)
LEMMA CreditStep == CreditInv /\ [CapNext]_capVars => CreditInv'
<1> SUFFICES ASSUME CreditInv, [CapNext]_capVars PROVE CreditInv'
  OBVIOUS
<1>0. CapTypeOK'
  BY CapTyped DEF CreditInv
<1> USE DEF CreditInv
<1>1. ASSUME UNCHANGED <<epoch, proven, has, answers, kept>>
      PROVE  Counted' /\ CreditMeansKept'
  BY <1>1 DEF Counted, CreditMeansKept
<1>2. ASSUME CloseDay PROVE Counted' /\ CreditMeansKept'
  <2>1. \A n \in Nodes, p \in Posts : p \in has[n] => <<p, epoch'>> \in kept'
    BY <1>2 DEF CloseDay, Holding
  <2> QED
    BY <1>2, <2>1 DEF CloseDay, Counted, CreditMeansKept
<1>3. ASSUME NEW n \in Nodes, NEW p \in Posts, Accept(n, p)
      PROVE  Counted' /\ CreditMeansKept'
  BY <1>3 DEF Accept, Counted, CreditMeansKept, CapTypeOK
<1>4. ASSUME NEW n \in Nodes, NEW p \in Posts, Evict(n, p)
      PROVE  Counted' /\ CreditMeansKept'
  BY <1>4 DEF Evict, Counted, CreditMeansKept, CapTypeOK
<1>5. ASSUME NEW n \in Nodes, NEW p \in Posts, Prove(n, p)
      PROVE  Counted' /\ CreditMeansKept'
  BY <1>5 DEF Prove, Counted, CreditMeansKept
<1>6. ASSUME NEW n \in Nodes, NEW p \in Posts, NEW e \in 0 .. LastEpoch, CapProof(n, p, e)
      PROVE  Counted' /\ CreditMeansKept'
  <2>1. <<p, epoch>> \in kept
    BY <1>6 DEF CapProof, RightAnswer, Counted
  <2> QED
    BY <1>6, <2>1 DEF CapProof, Counted, CreditMeansKept
<1> QED
  BY <1>0, <1>1, <1>2, <1>3, <1>4, <1>5, <1>6 DEF CapNext, capVars, Pledge, NewShard, Expire,
     Forgets, Challenge, Delay

(* verifyProof: whoever is credited for an epoch, somebody kept the bytes  *)
(* in that epoch, for any number of nodes, posts and epochs and whatever   *)
(* is evicted, remembered, sent on, asked again or forgotten.              *)
THEOREM CreditIsStorage == CapSpec => []CreditMeansKept
<1>1. CapInit => CreditInv
  BY CapacityAssumption DEF CapInit, CreditInv, CapTypeOK, Counted, CreditMeansKept
<1>2. CreditInv => CreditMeansKept
  BY DEF CreditInv
<1> QED
  BY <1>1, <1>2, CreditStep, PTL DEF CapSpec
-----------------------------------------------------------------------------
(***************************************************************************)
(* What is credited was destroyed, for any number of explorers of which    *)
(* one may lie, and any depth asked for that exceeds by two what the chain *)
(* may replace at once.  CreditedIsDestroyed is not inductive: between the *)
(* two requests of a round the best chain may change, so the invariant has *)
(* to say what the half of an answer that was read before is worth after.  *)
(***************************************************************************)

(* The transaction is too deep to be replaced.                             *)
Buried == at # 0 /\ tip - at + 1 > MaxReorg

(* What a right explorer has said: either the transaction is still there,  *)
(* or it was so near the tip that the depth will not do.                   *)
HalfRead(e) ==
  /\ ans[e].tip <= tip
  /\ ans[e].tx = "read" =>
       /\ ans[e].sat = out.sat /\ ans[e].keyless = out.keyless
       /\ \/ ans[e].height \in {0, at}
          \/ moved /\ tip - ans[e].height + 1 <= MaxReorg + 1

RoundInv == claim.st = "asked" => \A e \in Right : HalfRead(e)

Proven ==
  /\ claim.st = "proven" => Buried /\ out.keyless /\ claim.sat = out.sat
  /\ credited # 0 => Buried /\ out.keyless /\ credited = out.sat

WatchInv == WatchTypeOK /\ RoundInv /\ Proven
-----------------------------------------------------------------------------
(* Two answers, of which one may be a lie: one of them is right.           *)
LEMMA OneAnswerIsRight ==
  ASSUME NEW A \in SUBSET Explorers, Cardinality(A) >= 2
  PROVE  \E e \in A : e \in Right
<1> SUFFICES ASSUME \A e \in A : e \notin Right PROVE FALSE
  OBVIOUS
<1>1. A \subseteq Explorers \ Right
  OBVIOUS
<1>2. IsFiniteSet(Explorers \ Right)
  BY FS_Difference, WatchAssumption
<1>3. Cardinality(A) <= Cardinality(Explorers \ Right) /\ IsFiniteSet(A)
  BY <1>1, <1>2, FS_Subset
<1>4. Cardinality(A) \in Nat /\ Cardinality(Explorers \ Right) \in Nat
  BY <1>2, <1>3, FS_CardinalityType
<1> QED BY <1>3, <1>4, OneMayLie

(* A verdict is worth what it says at the instant it is given.             *)
LEMMA VerifiedIsBuried ==
  ASSUME WatchInv, claim.st = "asked", Verified,
         \A e \in Explorers : Settled(e)
  PROVE  Buried /\ out.keyless /\ claim.sat = out.sat
<1>1. PICK r \in Answers : r \in Right
  BY OneAnswerIsRight DEF Answers, Verified
<1>2. /\ ans[r].tx = "read" /\ ans[r].tip # -1 /\ HalfRead(r)
      /\ Depth(ans[r]) >= MinConf
      /\ r \in Explorers
  BY <1>1 DEF Answers, Settled, Verified, Deep, WatchInv, RoundInv
<1>3. /\ ans[r].height \in Nat /\ ans[r].tip \in Nat \cup {-1} /\ tip \in Nat
      /\ at \in Nat
  BY <1>2 DEF WatchInv, WatchTypeOK, Said
<1>4. MinConf \in Nat /\ MaxReorg \in Nat /\ MaxReorg + 1 < MinConf
  BY WatchAssumption, DepthSuffices
<1>5. ans[r].height # 0 /\ ans[r].tip - ans[r].height + 1 >= MinConf
  <2>1. CASE ans[r].height = 0
    BY <2>1, <1>2, <1>4 DEF Depth
  <2>2. CASE ans[r].height # 0
    BY <2>2, <1>2 DEF Depth
  <2> QED BY <2>1, <2>2
<1>6. ans[r].tip <= tip
  BY <1>2 DEF HalfRead
<1>7. ~(tip - ans[r].height + 1 <= MaxReorg + 1)
  BY <1>3, <1>4, <1>5, <1>6
<1>8. ans[r].height = at
  BY <1>2, <1>5, <1>7 DEF HalfRead
<1>9. Buried
  BY <1>3, <1>4, <1>5, <1>7, <1>8 DEF Buried
<1>10. out.keyless /\ claim.sat = out.sat
  <2>1. PICK p \in Answers : Pays(ans[p], claim.sat)
    BY DEF Verified
  <2>2. ans[p].sat = ans[r].sat /\ ans[p].keyless = ans[r].keyless
    BY <1>1, <2>1 DEF Verified, Agree
  <2> QED BY <1>2, <2>1, <2>2 DEF Pays, HalfRead
<1> QED BY <1>9, <1>10

(* What is buried stays: one change replaces at most MaxReorg blocks.      *)
LEMMA BuriedStays ==
  ASSUME WatchInv, Buried, NEW d \in 0 .. MaxReorg, Grow(d)
  PROVE  Buried' /\ at' = at /\ out' = out
<1>1. tip \in Nat /\ at \in Nat /\ MaxReorg \in Nat /\ d \in Nat /\ d <= MaxReorg
  BY WatchAssumption DEF WatchInv, WatchTypeOK
<1>2. at # 0 /\ at <= tip - d
  BY <1>1 DEF Buried
<1>3. at' = at /\ tip' = tip + 1 /\ out' = out
  BY <1>2 DEF Grow
<1> QED BY <1>1, <1>3 DEF Buried
-----------------------------------------------------------------------------
LEMMA BlankIsTyped == Unread \in Said /\ NoClaim \in Claims
<1>1. Unread \in Said
  BY DEF Unread, Said
<1>2. NoClaim \in Claims
  BY DEF NoClaim, Claims
<1> QED BY <1>1, <1>2

LEMMA WatchInvInit == WatchInit => WatchInv
<1> SUFFICES ASSUME WatchInit PROVE WatchInv
  OBVIOUS
<1>1. WatchTypeOK
  <2>1. tip \in Nat \ {0} /\ at \in 0 .. tip /\ credited \in Nat
    BY DEF WatchInit
  <2>2. moved \in BOOLEAN
    BY DEF WatchInit
  <2>3. ans \in [Explorers -> Said] /\ claim \in Claims /\ out \in Outputs
    BY BlankIsTyped DEF WatchInit
  <2> QED BY <2>1, <2>2, <2>3 DEF WatchTypeOK
<1>2. claim.st = "none" /\ credited = 0
  BY DEF WatchInit, NoClaim
<1> QED BY <1>1, <1>2 DEF WatchInv, RoundInv, Proven

LEMMA GrowKeepsInv ==
  ASSUME WatchInv, NEW d \in 0 .. MaxReorg, Grow(d)
  PROVE  WatchInv'
<1>0. /\ tip \in Nat \ {0} /\ at \in 0 .. tip /\ d \in Nat /\ d < tip /\ d <= MaxReorg
      /\ MaxReorg \in Nat /\ tip' = tip + 1
      /\ UNCHANGED <<out, claim, ans, credited>>
  BY WatchAssumption DEF WatchInv, WatchTypeOK, Grow
<1>1. at' \in 0 .. tip'
  <2>1. CASE at # 0 /\ at <= tip - d
    BY <2>1, <1>0 DEF Grow
  <2>2. CASE ~(at # 0 /\ at <= tip - d)
    BY <2>2, <1>0 DEF Grow
  <2> QED BY <2>1, <2>2
<1>2. WatchTypeOK'
  BY <1>0, <1>1 DEF WatchInv, WatchTypeOK, Grow
<1>3. RoundInv'
  <2> SUFFICES ASSUME claim.st = "asked", NEW e \in Right PROVE HalfRead(e)'
    BY <1>0 DEF RoundInv
  <2>1. HalfRead(e) /\ ~moved /\ moved'
    BY DEF WatchInv, RoundInv, Grow
  <2>2. ans[e].tip \in Nat \cup {-1} /\ ans[e].height \in Nat
    BY WatchAssumption DEF WatchInv, WatchTypeOK, Said
  <2>3. ans[e].tip <= tip'
    BY <1>0, <2>1, <2>2 DEF HalfRead
  <2>4. ASSUME ans[e].tx = "read"
        PROVE  ans[e].height \in {0, at'} \/ tip' - ans[e].height + 1 <= MaxReorg + 1
    <3>1. ans[e].height \in {0, at}
      BY <2>1, <2>4 DEF HalfRead
    <3>2. CASE at # 0 /\ at <= tip - d
      BY <3>1, <3>2, <1>0 DEF Grow
    <3>3. CASE at # 0 /\ ~(at <= tip - d)
      BY <3>1, <3>3, <1>0
    <3>4. CASE at = 0
      BY <3>1, <3>4
    <3> QED BY <3>2, <3>3, <3>4
  <2> QED BY <1>0, <2>1, <2>3, <2>4 DEF HalfRead
<1>4. Proven'
  <2>1. Proven
    BY DEF WatchInv
  <2>2. Buried => Buried'
    BY BuriedStays
  <2> QED BY <1>0, <2>1, <2>2 DEF Proven
<1> QED BY <1>2, <1>3, <1>4 DEF WatchInv

(* A step of one explorer leaves the chain, the claim and the record.      *)
LEMMA AnswerKeepsInv ==
  ASSUME WatchInv, NEW e \in Explorers,
         NEW a \in Said,
         ans' = [ans EXCEPT ![e] = a],
         UNCHANGED <<chainVars, moved, claim, credited>>,
         claim.st = "asked" /\ e \in Right => HalfRead(e)'
  PROVE  WatchInv'
<1>1. WatchTypeOK'
  BY DEF WatchInv, WatchTypeOK, chainVars
<1>2. RoundInv'
  <2> SUFFICES ASSUME claim.st = "asked", NEW f \in Right PROVE HalfRead(f)'
    BY DEF RoundInv
  <2>1. CASE f = e
    BY <2>1
  <2>2. CASE f # e
    <3>1. HalfRead(f)
      BY DEF WatchInv, RoundInv
    <3>2. ans'[f] = ans[f]
      BY <2>2, WatchAssumption DEF WatchInv, WatchTypeOK
    <3> QED BY <3>1, <3>2 DEF HalfRead, chainVars
  <2> QED BY <2>1, <2>2
<1>3. Proven'
  BY DEF WatchInv, Proven, Buried, chainVars
<1> QED BY <1>1, <1>2, <1>3 DEF WatchInv

LEMMA WatchInvNext == WatchInv /\ [WatchNext]_watchVars => WatchInv'
<1> SUFFICES ASSUME WatchInv, [WatchNext]_watchVars PROVE WatchInv'
  OBVIOUS
<1> USE DEF WatchInv
<1>0. /\ tip \in Nat /\ at \in Nat /\ out \in Outputs /\ Sats \subseteq Nat
      /\ claim.sat \in Nat /\ Unread \in Said /\ NoClaim \in Claims
  <2>1. claim.sat \in Sats \cup {0}
    BY DEF WatchTypeOK, Claims
  <2>2. Sats \subseteq Nat /\ tip \in Nat /\ at \in Nat /\ out \in Outputs
    BY WatchAssumption DEF WatchTypeOK
  <2>3. claim.sat \in Nat
    <3>1. Sats \cup {0} \subseteq Nat
      BY <2>2
    <3> HIDE <2>2
    <3> QED BY <2>1, <3>1
  <2>4. Unread \in Said /\ NoClaim \in Claims
    BY BlankIsTyped
  <2> QED BY <2>2, <2>3, <2>4
<1>1. ASSUME NEW d \in 0 .. MaxReorg, Grow(d) PROVE WatchInv'
  BY <1>1, GrowKeepsInv
<1>2. ASSUME NEW s \in Sats, Ask(s) PROVE WatchInv'
  <2>1. WatchTypeOK'
    BY <1>0, <1>2 DEF Ask, WatchTypeOK, Claims, chainVars
  <2>2. RoundInv'
    <3> SUFFICES ASSUME NEW e \in Right PROVE HalfRead(e)'
      BY DEF RoundInv
    <3>1. ans'[e] = Unread /\ tip' = tip
      BY <1>2, WatchAssumption DEF Ask, chainVars
    <3> QED BY <3>1, <1>0 DEF HalfRead, Unread
  <2>3. Proven'
    BY <1>2 DEF Ask, Proven, chainVars
  <2> QED BY <2>1, <2>2, <2>3
<1>3. ASSUME NEW e \in Explorers, ReadTx(e) PROVE WatchInv'
  <2> DEFINE a == [tx |-> "read", height |-> at, tip |-> ans[e].tip,
                   sat |-> out.sat, keyless |-> out.keyless]
  <2>1. ans' = [ans EXCEPT ![e] = a]
    BY <1>3 DEF ReadTx
  <2>2. a \in Said
    BY <1>0, <1>3 DEF WatchTypeOK, Outputs, Said
  <2>3. HalfRead(e)'
    <3>1. HalfRead(e)
      BY <1>3 DEF ReadTx, RoundInv
    <3>2. ans'[e] = a
      BY <2>1, <1>3 DEF WatchTypeOK
    <3>3. tip' = tip /\ at' = at /\ out' = out
      BY <1>3 DEF ReadTx, chainVars
    <3> QED BY <3>1, <3>2, <3>3 DEF HalfRead
  <2>4. UNCHANGED <<chainVars, moved, claim, credited>>
    BY <1>3 DEF ReadTx
  <2> HIDE DEF a
  <2> QED BY <2>1, <2>2, <2>3, <2>4, <1>3, AnswerKeepsInv
<1>4. ASSUME NEW e \in Explorers, ReadTip(e) PROVE WatchInv'
  <2> DEFINE a == [ans[e] EXCEPT !.tip = tip]
  <2>1. ans' = [ans EXCEPT ![e] = a]
    BY <1>4 DEF ReadTip
  <2>2. a \in Said
    BY <1>0, <1>4 DEF WatchTypeOK, Said
  <2>3. HalfRead(e)'
    <3>1. HalfRead(e) /\ ans[e] \in Said
      BY <1>4 DEF ReadTip, RoundInv, WatchTypeOK
    <3>2. ans'[e] = a
      BY <2>1, <1>4 DEF WatchTypeOK
    <3>3. tip' = tip /\ at' = at /\ out' = out /\ moved' = moved
      BY <1>4 DEF ReadTip, chainVars
    <3> QED BY <3>1, <3>2, <3>3, <1>0 DEF HalfRead, Said
  <2>4. UNCHANGED <<chainVars, moved, claim, credited>>
    BY <1>4 DEF ReadTip
  <2> HIDE DEF a
  <2> QED BY <2>1, <2>2, <2>3, <2>4, <1>4, AnswerKeepsInv
<1>5. ASSUME NEW e \in Explorers, Fail(e) PROVE WatchInv'
  <2> DEFINE a == [ans[e] EXCEPT !.tx = "failed"]
  <2>1. ans' = [ans EXCEPT ![e] = a]
    BY <1>5 DEF Fail
  <2>2. a \in Said
    BY <1>0, <1>5 DEF WatchTypeOK, Said
  <2>3. claim.st = "asked" /\ e \in Right => HalfRead(e)'
    <3> SUFFICES ASSUME e \in Right PROVE HalfRead(e)'
      OBVIOUS
    <3>1. HalfRead(e) /\ ans[e] \in Said
      BY <1>5 DEF Fail, RoundInv, WatchTypeOK
    <3>2. ans'[e] = a
      BY <2>1, <1>5 DEF WatchTypeOK
    <3>3. tip' = tip
      BY <1>5 DEF Fail, chainVars
    <3> QED BY <3>1, <3>2, <3>3 DEF HalfRead, Said
  <2>4. UNCHANGED <<chainVars, moved, claim, credited>>
    BY <1>5 DEF Fail
  <2> HIDE DEF a
  <2> QED BY <2>1, <2>2, <2>3, <2>4, <1>5, AnswerKeepsInv
<1>6. ASSUME NEW e \in Explorers, NEW n \in 0 .. MaxHeight, NEW o \in Outputs,
             Invent(e, n, o)
      PROVE  WatchInv'
  <2> DEFINE a == [tx |-> "read", height |-> IF n = 0 THEN 0 ELSE 1,
                   tip |-> n, sat |-> o.sat, keyless |-> o.keyless]
  <2>1. ans' = [ans EXCEPT ![e] = a] /\ e \notin Right
    BY <1>6 DEF Invent
  <2>2. a \in Said
    BY <1>6, WatchAssumption DEF Outputs, Said
  <2>4. UNCHANGED <<chainVars, moved, claim, credited>>
    BY <1>6 DEF Invent
  <2> HIDE DEF a
  <2> QED BY <2>1, <2>2, <2>4, <1>6, AnswerKeepsInv
<1>7. CASE Judge
  <2>1. WatchTypeOK'
    BY <1>0, <1>7 DEF Judge, WatchTypeOK, Claims, chainVars
  <2>2. RoundInv'
    BY <1>7 DEF Judge, RoundInv, NoClaim, WatchTypeOK, Claims
  <2>3. Proven'
    <3>1. CASE Verified
      <4>1. Buried /\ out.keyless /\ claim.sat = out.sat
        BY <1>7, <3>1, VerifiedIsBuried DEF Judge
      <4>2. claim'.sat = claim.sat
        BY <1>7, <3>1 DEF Judge, WatchTypeOK, Claims
      <4> QED BY <1>7, <4>1, <4>2 DEF Judge, Proven, Buried, chainVars
    <3>2. CASE ~Verified
      BY <1>7, <3>2 DEF Judge, Proven, Buried, NoClaim, chainVars
    <3> QED BY <3>1, <3>2
  <2> QED BY <2>1, <2>2, <2>3
<1>8. CASE Write
  <2>1. WatchTypeOK'
    BY <1>0, <1>8 DEF Write, WatchTypeOK, chainVars
  <2>2. RoundInv' /\ Proven'
    BY <1>8 DEF Write, RoundInv, Proven, Buried, NoClaim, chainVars
  <2> QED BY <2>1, <2>2
<1>9. CASE UNCHANGED watchVars
  BY <1>9 DEF watchVars, chainVars, WatchTypeOK, RoundInv, Proven, Buried,
              HalfRead
<1> QED
  BY <1>1, <1>2, <1>3, <1>4, <1>5, <1>6, <1>7, <1>8, <1>9 DEF WatchNext
-----------------------------------------------------------------------------
(* A burn the host credits was destroyed and stays so, whichever explorer  *)
(* is wrong and whatever happens to the chain between the two requests of  *)
(* a round (checkBurn and the proof submit carries into the queue).        *)
THEOREM BurnIsReal == WatchSpec => []CreditedIsDestroyed
<1>1. WatchInv => CreditedIsDestroyed
  BY DEF WatchInv, Proven, Buried, CreditedIsDestroyed
<1> QED BY <1>1, WatchInvInit, WatchInvNext, PTL DEF WatchSpec
-----------------------------------------------------------------------------
(***************************************************************************)
(* That a minority of liars moves no published rate out of what the honest *)
(* sources saw, for any number of sources and any quorum of more than      *)
(* twice the liars; and that no closer moves the rate fast.                *)
(***************************************************************************)

AtMost(v, x) == {i \in DOMAIN v : v[i] <= x}
Below(v, x)  == {i \in DOMAIN v : v[i] < x}

LEMMA SizesKnown ==
  ASSUME NEW v \in Seq(Nat), NEW x \in Int
  PROVE  /\ IsFiniteSet(DOMAIN v) /\ Cardinality(DOMAIN v) = Len(v)
         /\ IsFiniteSet(AtMost(v, x)) /\ Cardinality(AtMost(v, x)) \in Nat
         /\ IsFiniteSet(Below(v, x)) /\ Cardinality(Below(v, x)) \in Nat
         /\ Cardinality(AtMost(v, x)) <= Len(v)
<1>1. DOMAIN v = 1 .. Len(v) /\ Len(v) \in Nat
  OBVIOUS
<1>2. IsFiniteSet(1 .. Len(v)) /\ Cardinality(1 .. Len(v)) = IF 1 > Len(v) THEN 0 ELSE Len(v) - 1 + 1
  BY <1>1, FS_Interval, SMTT(60)
<1>3. IsFiniteSet(DOMAIN v) /\ Cardinality(DOMAIN v) = Len(v)
  BY <1>1, <1>2
<1>4. AtMost(v, x) \subseteq DOMAIN v /\ Below(v, x) \subseteq DOMAIN v
  BY DEF AtMost, Below
<1> QED BY <1>3, <1>4, FS_Subset, FS_CardinalityType

LEMMA SomethingIsLargest ==
  ASSUME NEW v \in Seq(Nat), Len(v) > 0
  PROVE  \E m \in Nat : AtMost(v, m) = DOMAIN v
<1> DEFINE A == {n \in Nat : n <= Len(v) => \E m \in Nat : \A i \in 1 .. n : v[i] <= m}
<1>1. 0 \in A
  OBVIOUS
<1>2. ASSUME NEW n \in Nat, n \in A PROVE n + 1 \in A
  <2> SUFFICES ASSUME n + 1 <= Len(v) PROVE \E m \in Nat : \A i \in 1 .. n + 1 : v[i] <= m
    OBVIOUS
  <2> HIDE DEF A
  <2>1. n <= Len(v)
    OBVIOUS
  <2>2. n <= Len(v) => \E top \in Nat : \A i \in 1 .. n : v[i] <= top
    BY <1>2 DEF A
  <2>3. PICK top \in Nat : \A i \in 1 .. n : v[i] <= top
    BY <2>1, <2>2
  <2>4. n + 1 \in 1 .. Len(v) /\ v[n + 1] \in Nat
    OBVIOUS
  <2>5. v[n + 1] <= top \/ v[n + 1] > top
    BY <2>4
  <2>6. CASE v[n + 1] <= top
    <3>1. \A i \in 1 .. n + 1 : i \in 1 .. n \/ i = n + 1
      OBVIOUS
    <3> QED BY <2>3, <2>6, <3>1
  <2>7. CASE v[n + 1] > top
    <3>1. \A i \in 1 .. n + 1 : (i \in 1 .. n /\ v[i] \in Nat) \/ i = n + 1
      OBVIOUS
    <3>2. \A i \in 1 .. n + 1 : v[i] <= v[n + 1]
      BY <2>3, <2>4, <2>7, <3>1
    <3> QED BY <2>4, <3>2
  <2> QED BY <2>5, <2>6, <2>7
<1> HIDE DEF A
<1>3. Len(v) \in A
  BY <1>1, <1>2, CountUp, SMTT(60)
<1>4. PICK m \in Nat : \A i \in 1 .. Len(v) : v[i] <= m
  BY <1>3 DEF A
<1> QED BY <1>4, SMTT(60) DEF AtMost

LEMMA LeastNumber ==
  ASSUME NEW S \in SUBSET Nat, S # {}
  PROVE  \E x \in S : \A y \in S : x <= y
<1> SUFFICES ASSUME \A x \in S : \E y \in S : y < x PROVE FALSE
  OBVIOUS
<1> DEFINE A == {n \in Nat : \A y \in S : y >= n}
<1>1. 0 \in A
  OBVIOUS
<1>2. ASSUME NEW n \in Nat, n \in A PROVE n + 1 \in A
  <2>1. n \notin S
    BY <1>2
  <2> QED BY <1>2, <2>1
<1> HIDE DEF A
<1>3. \A n \in Nat : n \in A
  BY <1>1, <1>2, CountUp
<1>4. PICK x \in S : TRUE
  OBVIOUS
<1>5. x + 1 \in A
  BY <1>3
<1> QED BY <1>4, <1>5 DEF A

(* The k-th smallest is there: the least number that k values do not       *)
(* exceed.                                                                 *)
LEMMA KthIs ==
  ASSUME NEW v \in Seq(Nat), NEW k \in 1 .. Len(v)
  PROVE  /\ Kth(v, k) \in Nat /\ \E i \in DOMAIN v : v[i] = Kth(v, k)
         /\ Cardinality(Below(v, Kth(v, k))) < k
         /\ Cardinality(AtMost(v, Kth(v, k))) >= k
<1> DEFINE S == {x \in Nat : Cardinality(AtMost(v, x)) >= k}
<1>1. S # {}
  <2>1. PICK m \in Nat : AtMost(v, m) = DOMAIN v
    BY SomethingIsLargest
  <2>2. Cardinality(AtMost(v, m)) = Len(v)
    BY <2>1, SizesKnown
  <2> QED BY <2>2
<1>2. PICK x \in S : \A y \in S : x <= y
  BY <1>1, LeastNumber
<1>3. x \in Nat /\ Cardinality(AtMost(v, x)) >= k
  BY <1>2
<1>4. \A i \in DOMAIN v : v[i] \in Nat
  OBVIOUS
<1>5. Cardinality(Below(v, x)) < k
  <2>1. CASE x = 0
    <3>1. Below(v, x) = {}
      BY <1>4, <2>1 DEF Below
    <3> QED BY <3>1, FS_EmptySet
  <2>2. CASE x # 0
    <3>1. x - 1 \in Nat /\ x - 1 \notin S
      BY <1>2, <1>3, <2>2
    <3>2. Below(v, x) = AtMost(v, x - 1)
      BY <1>3, <1>4, <3>1 DEF Below, AtMost
    <3>3. Cardinality(AtMost(v, x - 1)) \in Nat /\ ~(Cardinality(AtMost(v, x - 1)) >= k)
      BY <3>1, SizesKnown
    <3> QED BY <3>2, <3>3
  <2> QED BY <2>1, <2>2
<1>6. \E i \in DOMAIN v : v[i] = x
  <2> SUFFICES ASSUME \A i \in DOMAIN v : v[i] # x PROVE FALSE
    OBVIOUS
  <2>1. Below(v, x) = AtMost(v, x)
    BY <1>3, <1>4 DEF Below, AtMost
  <2>2. Cardinality(Below(v, x)) \in Nat
    BY <1>3, SizesKnown
  <2> QED BY <1>3, <1>5, <2>1, <2>2
<1> HIDE DEF S
<1> DEFINE OK(y) == /\ Cardinality({i \in DOMAIN v : v[i] < y}) < k
                    /\ Cardinality({i \in DOMAIN v : v[i] <= y}) >= k
<1>7. x \in {v[i] : i \in DOMAIN v} /\ OK(x)
  BY <1>3, <1>5, <1>6 DEF Below, AtMost
<1>8. Kth(v, k) = CHOOSE y \in {v[i] : i \in DOMAIN v} : OK(y)
  BY DEF Kth
<1> HIDE DEF OK
<1>9. Kth(v, k) \in {v[i] : i \in DOMAIN v} /\ OK(Kth(v, k))
  BY <1>7, <1>8
<1>10. \E i \in DOMAIN v : v[i] = Kth(v, k)
  BY <1>9
<1> QED BY <1>4, <1>9, <1>10 DEF OK, Below, AtMost

LEMMA KthsAscend ==
  ASSUME NEW v \in Seq(Nat), NEW k \in 1 .. Len(v), k + 1 \in 1 .. Len(v)
  PROVE  Kth(v, k) <= Kth(v, k + 1)
<1> DEFINE a == Kth(v, k)
           b == Kth(v, k + 1)
<1>1. a \in Nat /\ b \in Nat /\ Cardinality(Below(v, a)) < k /\ Cardinality(AtMost(v, b)) >= k + 1
  BY KthIs
<1> HIDE DEF a, b
<1> SUFFICES ASSUME b < a PROVE FALSE
  BY <1>1 DEF a, b
<1>2. AtMost(v, b) \subseteq Below(v, a)
  BY <1>1 DEF AtMost, Below
<1>3. Cardinality(AtMost(v, b)) <= Cardinality(Below(v, a))
  BY <1>1, <1>2, SizesKnown, FS_Subset
<1>4. Cardinality(AtMost(v, b)) \in Nat /\ Cardinality(Below(v, a)) \in Nat
  BY <1>1, SizesKnown
<1> QED BY <1>1, <1>3, <1>4

(* Of more values than there are liars, one is honest.                     *)
LEMMA OneIsHonest ==
  ASSUME NEW v \in Seq(Nat), NEW saw, NEW few \in Nat,
         Cardinality({i \in DOMAIN v : v[i] \notin saw}) <= few,
         NEW I \in SUBSET DOMAIN v, Cardinality(I) > few
  PROVE  \E i \in I : v[i] \in saw
<1> SUFFICES ASSUME \A i \in I : v[i] \notin saw PROVE FALSE
  OBVIOUS
<1> DEFINE lies == {i \in DOMAIN v : v[i] \notin saw}
<1>1. IsFiniteSet(DOMAIN v) /\ lies \subseteq DOMAIN v
  <2>1. 0 \in Int
    OBVIOUS
  <2>2. IsFiniteSet(DOMAIN v)
    BY <2>1, SizesKnown
  <2> QED BY <2>2
<1>2. IsFiniteSet(lies) /\ Cardinality(lies) \in Nat
  BY <1>1, FS_Subset, FS_CardinalityType
<1>3. I \subseteq lies
  OBVIOUS
<1> HIDE DEF lies
<1>4. Cardinality(I) <= Cardinality(lies) /\ IsFiniteSet(I)
  BY <1>2, <1>3, FS_Subset
<1>5. Cardinality(I) \in Nat
  BY <1>4, FS_CardinalityType
<1>6. Cardinality(lies) <= few
  BY DEF lies
<1> QED BY <1>2, <1>4, <1>5, <1>6

(* What the k-th smallest lies between.                                    *)
LEMMA KthIsBetween ==
  ASSUME NEW v \in Seq(Nat), NEW saw, NEW few \in Nat,
         Cardinality({i \in DOMAIN v : v[i] \notin saw}) <= few, NEW k \in 1 .. Len(v)
  PROVE  /\ k > few => \E i \in DOMAIN v : v[i] \in saw /\ v[i] <= Kth(v, k)
         /\ Len(v) - k >= few => \E i \in DOMAIN v : v[i] \in saw /\ Kth(v, k) <= v[i]
<1> DEFINE x == Kth(v, k)
<1>1. x \in Nat /\ Cardinality(Below(v, x)) < k /\ Cardinality(AtMost(v, x)) >= k
  BY KthIs
<1> HIDE DEF x
<1>2. \A i \in DOMAIN v : v[i] \in Nat
  OBVIOUS
<1>3. ASSUME k > few PROVE \E i \in DOMAIN v : v[i] \in saw /\ v[i] <= x
  <2>1. AtMost(v, x) \in SUBSET DOMAIN v
    BY DEF AtMost
  <2>2. Cardinality(AtMost(v, x)) > few
    BY <1>1, <1>3, SizesKnown, SMTT(60)
  <2>3. \E i \in AtMost(v, x) : v[i] \in saw
    BY <2>1, <2>2, OneIsHonest
  <2> QED BY <2>3 DEF AtMost
<1>4. ASSUME Len(v) - k >= few PROVE \E i \in DOMAIN v : v[i] \in saw /\ x <= v[i]
  <2> DEFINE over == DOMAIN v \ Below(v, x)
  <2>1. over \in SUBSET DOMAIN v
    OBVIOUS
  <2>2. DOMAIN v \cap Below(v, x) = Below(v, x)
    BY DEF Below
  <2>3. Cardinality(over) = Cardinality(DOMAIN v) - Cardinality(Below(v, x))
    <3>1. IsFiniteSet(DOMAIN v)
      BY SizesKnown
    <3>2. Cardinality(DOMAIN v \ Below(v, x))
            = Cardinality(DOMAIN v) - Cardinality(DOMAIN v \cap Below(v, x))
      BY <3>1, FS_Difference
    <3> QED BY <2>2, <3>2
  <2>4. Cardinality(over) > few
    <3>1. Cardinality(Below(v, x)) \in Nat /\ Cardinality(DOMAIN v) = Len(v) /\ Len(v) \in Nat
      BY <1>1, SizesKnown
    <3> QED BY <1>1, <1>4, <2>3, <3>1
  <2>5. \E i \in over : v[i] \in saw
    BY <2>1, <2>4, OneIsHonest
  <2> QED BY <1>1, <1>2, <2>5 DEF Below
<1> QED BY <1>3, <1>4 DEF x

LEMMA MedianStands ==
  ASSUME NEW v \in Seq(Nat), NEW saw \in SUBSET Nat, NEW few \in Nat,
         Cardinality({i \in DOMAIN v : v[i] \notin saw}) <= few, Len(v) > 2 * few
  PROVE  /\ MedianNano(v) \in Nat
         /\ \E lo, hi \in saw : lo <= MedianNano(v) /\ MedianNano(v) <= hi
<1> DEFINE n   == Len(v)
           mid == n \div 2
           a   == Kth(v, mid)
           b   == Kth(v, mid + 1)
<1>1. n \in Nat /\ n > 2 * few
  OBVIOUS
<1>2. CASE n % 2 = 1
  <2>1. mid + 1 \in 1 .. n /\ mid + 1 > few /\ n - (mid + 1) >= few
    BY <1>1, <1>2
  <2>2. MedianNano(v) = b
    BY <1>2 DEF MedianNano
  <2>3. b \in Nat
    BY <2>1, KthIs
  <2> HIDE DEF n, mid
  <2>4. /\ \E i \in DOMAIN v : v[i] \in saw /\ v[i] <= b
        /\ \E i \in DOMAIN v : v[i] \in saw /\ b <= v[i]
    BY <2>1, KthIsBetween DEF n
  <2> QED BY <2>2, <2>3, <2>4
<1>3. CASE n % 2 # 1
  <2>1. /\ mid \in 1 .. n /\ mid + 1 \in 1 .. n /\ mid > few
        /\ n - (mid + 1) >= few
    BY <1>1, <1>3
  <2>2. MedianNano(v) = (a + b) \div 2
    BY <1>3 DEF MedianNano
  <2>3. a \in Nat /\ b \in Nat /\ a <= b
    BY <2>1, KthIs, KthsAscend
  <2> HIDE DEF n, mid
  <2>4. /\ \E i \in DOMAIN v : v[i] \in saw /\ v[i] <= a
        /\ \E i \in DOMAIN v : v[i] \in saw /\ b <= v[i]
    BY <2>1, KthIsBetween DEF n
  <2> HIDE DEF a, b
  <2>5. (a + b) \div 2 \in Nat /\ a <= (a + b) \div 2 /\ (a + b) \div 2 <= b
    BY <2>3
  <2>6. PICK i \in DOMAIN v : v[i] \in saw /\ v[i] <= a
    BY <2>4
  <2>7. PICK j \in DOMAIN v : v[j] \in saw /\ b <= v[j]
    BY <2>4
  <2>8. v[i] \in Nat /\ v[j] \in Nat
    OBVIOUS
  <2>9. v[i] <= (a + b) \div 2 /\ (a + b) \div 2 <= v[j]
    BY <2>3, <2>5, <2>6, <2>7, <2>8
  <2> QED BY <2>2, <2>5, <2>6, <2>7, <2>9
<1> QED BY <1>2, <1>3
-----------------------------------------------------------------------------
(* The clamp.                                                              *)
Rate == Nat \ {0}

(* From one seal to the next: a tenth at most, and one for the rounding.   *)
Nudged(prev, rate) == 10 * rate <= 11 * prev /\ 9 * prev <= 10 * rate + 9

InClamp(prev, rate) ==
  rate * Scale <= prev * (Scale + MaxMove) /\ (rate + 1) * Scale > prev * (Scale - MaxMove)

LEMMA ClampHolds ==
  ASSUME NEW rate \in Rate, NEW prev \in Rate
  PROVE  Clamped(rate, prev) \in Rate /\ InClamp(prev, Clamped(rate, prev))
<1> DEFINE up   == Scale + MaxMove
           down == Scale - MaxMove
           hi   == (prev * up) \div Scale
           lo   == (prev * down) \div Scale
           c    == Clamped(rate, prev)
<1>1. Scale \in Nat \ {0} /\ MaxMove \in Nat /\ MaxMove <= Scale
  BY OracleAssumption
<1>2. up \in Nat /\ down \in Nat /\ down <= Scale /\ Scale <= up
  BY <1>1
<1>3. c = IF rate > hi THEN hi ELSE IF rate < lo THEN lo ELSE rate
  BY DEF Clamped
<1>4. prev \in Nat /\ rate \in Nat /\ prev > 0 /\ rate > 0
  BY DEF Rate
<1> HIDE DEF up, down, c
<1>5. prev * up \in Nat /\ prev * down \in Nat /\ prev * down <= prev * Scale /\ prev * Scale <= prev * up
  BY <1>1, <1>2, <1>4
<1>6. /\ hi \in Nat /\ Scale * hi <= prev * up /\ prev * up < Scale * hi + Scale
      /\ lo \in Nat /\ Scale * lo <= prev * down /\ prev * down < Scale * lo + Scale
  BY <1>1, <1>5, QuotientDown
<1> HIDE DEF hi, lo
<1>7. prev <= hi
  <2>1. prev * Scale < (hi + 1) * Scale
    BY <1>1, <1>4, <1>5, <1>6
  <2>2. prev < hi + 1
    BY <1>1, <1>4, <1>6, <2>1, CancelFactorStrict
  <2> QED BY <1>4, <1>6, <2>2
<1>8. lo <= prev
  <2>1. lo * Scale <= prev * Scale
    BY <1>1, <1>4, <1>5, <1>6
  <2> QED BY <1>1, <1>4, <1>6, <2>1, CancelFactor
<1>9. c \in Nat /\ c > 0 /\ lo <= c /\ c <= hi
  BY <1>3, <1>4, <1>6, <1>7, <1>8
<1>10. c * Scale <= prev * up
  <2>1. c * Scale <= hi * Scale
    BY <1>1, <1>6, <1>9, ProductMonotonic
  <2> QED BY <1>1, <1>5, <1>6, <1>9, <2>1
<1>11. (c + 1) * Scale > prev * down
  <2>1. (lo + 1) * Scale <= (c + 1) * Scale
    BY <1>1, <1>6, <1>9, ProductMonotonic
  <2>2. (lo + 1) * Scale = Scale * lo + Scale /\ (c + 1) * Scale \in Nat
    BY <1>1, <1>6, <1>9
  <2> QED BY <1>1, <1>5, <1>6, <2>1, <2>2
<1> QED BY <1>9, <1>10, <1>11 DEF Rate, InClamp, c, up, down

LEMMA ClampMoves ==
  ASSUME NEW rate \in Rate, NEW prev \in Rate, InClamp(prev, rate)
  PROVE  Nudged(prev, rate)
<1>1. /\ Scale \in Nat \ {0} /\ MaxMove \in Nat /\ 10 * MaxMove <= Scale
      /\ prev \in Nat /\ rate \in Nat
  BY OracleAssumption DEF Rate
<1>2. /\ rate * Scale <= prev * Scale + prev * MaxMove
      /\ rate * Scale + Scale > prev * Scale - prev * MaxMove
  BY <1>1 DEF InClamp
<1>3. 10 * (prev * MaxMove) <= prev * Scale
  BY <1>1
<1>4. /\ prev * Scale \in Nat /\ prev * MaxMove \in Nat /\ rate * Scale \in Nat
  BY <1>1
<1>5. (10 * rate) * Scale <= (11 * prev) * Scale
  <2>1. 10 * (rate * Scale) <= 11 * (prev * Scale)
    BY <1>2, <1>3, <1>4
  <2> QED BY <1>1, <2>1
<1>6. (9 * prev) * Scale < (10 * rate + 10) * Scale
  <2>1. 9 * (prev * Scale) < 10 * (rate * Scale) + 10 * Scale
    BY <1>1, <1>2, <1>3, <1>4
  <2> QED BY <1>1, <2>1
<1>7. 10 * rate <= 11 * prev
  <2>1. 10 * rate \in Nat /\ 11 * prev \in Nat
    BY <1>1
  <2> QED BY <1>1, <1>5, <2>1, CancelFactor
<1>8. 9 * prev < 10 * rate + 10
  <2>1. 9 * prev \in Nat /\ 10 * rate + 10 \in Nat /\ Scale \in Nat
    BY <1>1
  <2> QED BY <1>6, <2>1, CancelFactorStrict
<1> QED BY <1>1, <1>7, <1>8 DEF Nudged
-----------------------------------------------------------------------------
(* A row of seals, each within a tenth of the one before.                  *)
Steady(s) ==
  /\ s \in Seq(Rate) /\ Len(s) > 0
  /\ \A k \in 1 .. Len(s) - 1 : Nudged(s[k], s[k + 1])

(* How far k seals can go, with the powers of 11 and 9 written out.        *)
Reach(s, k, ten, up, down) ==
  \A i \in Nat \ {0} : i + k <= Len(s) =>
    /\ ten * s[i + k] <= up * s[i]
    /\ down * (s[i] + 9) <= ten * (s[i + k] + 9)

LEMMA OneFurther ==
  ASSUME NEW s, Steady(s), NEW k \in Nat, NEW ten \in Nat, NEW up \in Nat, NEW down \in Nat,
         Reach(s, k, ten, up, down)
  PROVE  Reach(s, k + 1, 10 * ten, 11 * up, 9 * down)
<1> SUFFICES ASSUME NEW i \in Nat \ {0}, i + (k + 1) <= Len(s)
             PROVE  /\ (10 * ten) * s[i + (k + 1)] <= (11 * up) * s[i]
                    /\ (9 * down) * (s[i] + 9) <= (10 * ten) * (s[i + (k + 1)] + 9)
  BY DEF Reach
<1> DEFINE x == s[i]
           y == s[i + k]
           z == s[i + (k + 1)]
<1>1. s \in Seq(Nat) /\ Len(s) \in Nat
  BY DEF Steady, Rate
<1>2. x \in Nat /\ y \in Nat /\ z \in Nat
  BY <1>1, SMTT(60)
<1>3. ten * y <= up * x /\ down * (x + 9) <= ten * (y + 9)
  BY <1>1 DEF Reach
<1>4. Nudged(y, z)
  <2>1. i + k \in 1 .. Len(s) - 1 /\ (i + k) + 1 = i + (k + 1)
    BY <1>1
  <2> QED BY <2>1 DEF Steady
<1> HIDE DEF x, y, z
<1>5. 10 * z <= 11 * y /\ 9 * (y + 9) <= 10 * (z + 9)
  BY <1>2, <1>4 DEF Nudged
<1>6. ten * (10 * z) <= ten * (11 * y)
  BY <1>2, <1>5
<1>7. (10 * ten) * z <= (11 * up) * x
  <2>1. (10 * ten) * z = ten * (10 * z) /\ ten * (11 * y) = 11 * (ten * y) /\ (11 * up) * x = 11 * (up * x)
    BY <1>2
  <2>2. ten * y \in Nat /\ up * x \in Nat /\ ten * (10 * z) \in Nat
    BY <1>2
  <2> QED BY <1>3, <1>6, <2>1, <2>2, SMTT(60)
<1>8. ten * (9 * (y + 9)) <= ten * (10 * (z + 9))
  BY <1>2, <1>5
<1>9. (9 * down) * (x + 9) <= (10 * ten) * (z + 9)
  <2>1. /\ (9 * down) * (x + 9) = 9 * (down * (x + 9)) /\ ten * (9 * (y + 9)) = 9 * (ten * (y + 9))
        /\ (10 * ten) * (z + 9) = ten * (10 * (z + 9))
    BY <1>2
  <2>2. down * (x + 9) \in Nat /\ ten * (y + 9) \in Nat /\ ten * (10 * (z + 9)) \in Nat
    BY <1>2
  <2> QED BY <1>3, <1>8, <2>1, <2>2
<1> QED BY <1>7, <1>9 DEF x, z

LEMMA SteadyIsSlow ==
  ASSUME NEW s, Steady(s), NEW i \in DOMAIN s, NEW j \in DOMAIN s, i < j, s[i] >= Dust
  PROVE  /\ j - i <= 6 => 2 * s[j] > s[i]
         /\ j - i <= 7 => s[j] < 2 * s[i]
<1>1. s \in Seq(Nat) /\ Len(s) \in Nat /\ s[i] \in Nat /\ s[j] \in Nat /\ s[i] >= 135
      /\ i \in Nat \ {0} /\ j \in Nat /\ j <= Len(s)
  BY DEF Steady, Rate, Dust
<1>2. Reach(s, 0, 1, 1, 1)
  BY <1>1, SMTT(60) DEF Reach, Steady, Rate
<1>3. Reach(s, 1, 10, 11, 9)
  BY <1>2, OneFurther
<1>4. Reach(s, 2, 100, 121, 81)
  BY <1>3, OneFurther
<1>5. Reach(s, 3, 1000, 1331, 729)
  BY <1>4, OneFurther
<1>6. Reach(s, 4, 10000, 14641, 6561)
  BY <1>5, OneFurther
<1>7. Reach(s, 5, 100000, 161051, 59049)
  BY <1>6, OneFurther
<1>8. Reach(s, 6, 1000000, 1771561, 531441)
  BY <1>7, OneFurther
<1>9. Reach(s, 7, 10000000, 19487171, 4782969)
  BY <1>8, OneFurther
<1> DEFINE x == s[i]
           y == s[j]
<1>10. ASSUME NEW k \in Nat, NEW ten \in Nat, NEW up \in Nat, NEW down \in Nat,
              Reach(s, k, ten, up, down), j = i + k
       PROVE  ten * y <= up * x /\ down * (x + 9) <= ten * (y + 9)
  BY <1>1, <1>10 DEF Reach
<1>11. x \in Nat /\ y \in Nat /\ x >= 135
  BY <1>1
<1> HIDE DEF x, y
<1>12. CASE j = i + 1
  <2>1. 10 * y <= 11 * x /\ 9 * (x + 9) <= 10 * (y + 9)
    BY <1>3, <1>10, <1>12
  <2>2. y < 2 * x /\ (1 <= 6 => 2 * y > x)
    BY <1>11, <2>1
  <2> QED BY <1>1, <1>12, <2>2 DEF x, y
<1>13. CASE j = i + 2
  <2>1. 100 * y <= 121 * x /\ 81 * (x + 9) <= 100 * (y + 9)
    BY <1>4, <1>10, <1>13
  <2>2. y < 2 * x /\ (2 <= 6 => 2 * y > x)
    BY <1>11, <2>1
  <2> QED BY <1>1, <1>13, <2>2 DEF x, y
<1>14. CASE j = i + 3
  <2>1. 1000 * y <= 1331 * x /\ 729 * (x + 9) <= 1000 * (y + 9)
    BY <1>5, <1>10, <1>14
  <2>2. y < 2 * x /\ (3 <= 6 => 2 * y > x)
    BY <1>11, <2>1
  <2> QED BY <1>1, <1>14, <2>2 DEF x, y
<1>15. CASE j = i + 4
  <2>1. 10000 * y <= 14641 * x /\ 6561 * (x + 9) <= 10000 * (y + 9)
    BY <1>6, <1>10, <1>15
  <2>2. y < 2 * x /\ (4 <= 6 => 2 * y > x)
    BY <1>11, <2>1
  <2> QED BY <1>1, <1>15, <2>2 DEF x, y
<1>16. CASE j = i + 5
  <2>1. 100000 * y <= 161051 * x /\ 59049 * (x + 9) <= 100000 * (y + 9)
    BY <1>7, <1>10, <1>16
  <2>2. y < 2 * x /\ (5 <= 6 => 2 * y > x)
    BY <1>11, <2>1
  <2> QED BY <1>1, <1>16, <2>2 DEF x, y
<1>17. CASE j = i + 6
  <2>1. 1000000 * y <= 1771561 * x /\ 531441 * (x + 9) <= 1000000 * (y + 9)
    BY <1>8, <1>10, <1>17
  <2>2. y < 2 * x /\ (6 <= 6 => 2 * y > x)
    BY <1>11, <2>1
  <2> QED BY <1>1, <1>17, <2>2 DEF x, y
<1>18. CASE j = i + 7
  <2>1. 10000000 * y <= 19487171 * x /\ 4782969 * (x + 9) <= 10000000 * (y + 9)
    BY <1>9, <1>10, <1>18
  <2>2. y < 2 * x /\ (7 <= 6 => 2 * y > x)
    BY <1>11, <2>1
  <2> QED BY <1>1, <1>18, <2>2 DEF x, y
<1>19. CASE j - i > 7
  BY <1>1, <1>19, SMTT(60)
<1>20. i \in Nat /\ j \in Nat /\ i < j
  BY <1>1
<1>21. j - i \in 1 .. 7 \/ j - i > 7
  BY <1>20
<1>22. j = i + (j - i)
  BY <1>20
<1>23. \/ j = i + 1 \/ j = i + 2 \/ j = i + 3 \/ j = i + 4 \/ j = i + 5 \/ j = i + 6 \/ j = i + 7
       \/ j - i > 7
  BY <1>21, <1>22
<1> QED BY <1>12, <1>13, <1>14, <1>15, <1>16, <1>17, <1>18, <1>19, <1>23
-----------------------------------------------------------------------------
(* What stands of the rate at every moment.  A round carries the seal and  *)
(* the number of one epoch, and keeps them while closes pass it by.        *)
Rounds   == [st : {"out"}, prev : Rate, epoch : Nat, saw : SUBSET Quotes]
Readings == [rate : Rate, median : Nat, epoch : Nat, at : Nat, saw : SUBSET Quotes]

RateRoundInv ==
  round # NoRound =>
    round \in Rounds /\ round.epoch + 1 \in DOMAIN seals /\ round.prev = seals[round.epoch + 1]

ReadingInv ==
  reading # NoReading =>
    /\ reading \in Readings /\ reading.epoch + 1 \in DOMAIN seals
    /\ InClamp(seals[reading.epoch + 1], reading.rate)
    /\ \E lo, hi \in reading.saw : lo <= reading.median /\ reading.median <= hi

RateInv ==
  /\ market \in Quotes /\ clock \in Nat /\ Steady(seals)
  /\ RateRoundInv /\ ReadingInv /\ FreshOrSaysSo

LEMMA WiderSeq ==
  ASSUME NEW S, NEW T, S \subseteq T, NEW s \in Seq(S)
  PROVE  s \in Seq(T) /\ Len(s) \in Nat
<1>1. Len(s) \in Nat /\ s \in [1 .. Len(s) -> S]
  OBVIOUS
<1>2. s \in [1 .. Len(s) -> T]
  BY <1>1
<1> QED BY <1>1, <1>2

LEMMA SomeoneSaw ==
  ASSUME NEW v \in Seq(Rate), Len(v) > 0
  PROVE  MedianNano(v) \in Rate
<1>1. v \in Seq(Nat) /\ Rate \in SUBSET Nat /\ 0 \in Nat /\ Len(v) > 2 * 0
  BY DEF Rate
<1> DEFINE lies == {i \in DOMAIN v : v[i] \notin Rate}
<1>2. lies = {}
  OBVIOUS
<1> HIDE DEF lies
<1>3. Cardinality(lies) = 0 /\ 0 <= 0
  BY <1>2, FS_EmptySet
<1>4. MedianNano(v) \in Nat /\ \E lo, hi \in Rate : lo <= MedianNano(v) /\ MedianNano(v) <= hi
  BY <1>1, <1>3, MedianStands DEF lies
<1> QED BY <1>4 DEF Rate

(* A close adds one seal, within the clamp of the one before.              *)
LEMMA CloseIsSteady ==
  ASSUME Steady(seals), NEW report \in Reports, Close(report)
  PROVE  /\ Steady(seals') /\ Len(seals') = Len(seals) + 1
         /\ \A k \in DOMAIN seals : k \in DOMAIN seals' /\ seals'[k] = seals[k]
<1> DEFINE said == CASE report.kind = "sources" -> MedianNano(report.values)
                     [] report.kind = "bare"    -> report.values[1]
                     [] OTHER                   -> Standing
           new  == Clamped(said, Standing)
<1>1. seals' = Append(seals, new) /\ (report.kind = "sources" => Len(report.values) >= Quorum)
  BY DEF Close
<1>2. seals \in Seq(Rate) /\ Len(seals) \in Nat /\ Len(seals) > 0 /\ Standing = seals[Len(seals)]
  BY DEF Steady, Standing, Last
<1>3. Standing \in Rate
  BY <1>2
<1>4. report.values \in Seq(Rate) /\ (report.kind = "bare" => Len(report.values) = 1)
  BY OracleAssumption DEF Rate
<1>5. Quorum > 0 /\ Quorum \in Nat
  BY OracleAssumption
<1>6. said \in Rate
  <2>1. CASE report.kind = "sources"
    <3>1. Len(report.values) > 0
      BY <1>1, <1>4, <1>5, <2>1
    <3> QED BY <1>4, <2>1, <3>1, SomeoneSaw
  <2>2. CASE report.kind = "bare"
    <3>1. report.values[1] \in Rate
      BY <1>4, <2>2
    <3> QED BY <2>2, <3>1
  <2>3. CASE report.kind # "sources" /\ report.kind # "bare"
    BY <1>3, <2>3
  <2> QED BY <2>1, <2>2, <2>3
<1> HIDE DEF said
<1>7. new \in Rate /\ Nudged(Standing, new)
  BY <1>3, <1>6, ClampHolds, ClampMoves
<1> HIDE DEF new
<1>8. /\ seals' \in Seq(Rate) /\ Len(seals') = Len(seals) + 1
      /\ seals'[Len(seals) + 1] = new
      /\ \A k \in 1 .. Len(seals) : seals'[k] = seals[k]
  BY <1>1, <1>2, <1>7
<1>9. ASSUME NEW k \in 1 .. Len(seals') - 1 PROVE Nudged(seals'[k], seals'[k + 1])
  <2>1. CASE k = Len(seals)
    BY <1>2, <1>7, <1>8, <2>1
  <2>2. CASE k # Len(seals)
    <3>1. k \in 1 .. Len(seals) - 1 /\ k \in 1 .. Len(seals) /\ k + 1 \in 1 .. Len(seals)
      BY <1>2, <1>8, <2>2
    <3> QED BY <1>8, <3>1 DEF Steady
  <2> QED BY <2>1, <2>2
<1>10. \A k \in DOMAIN seals : k \in DOMAIN seals' /\ seals'[k] = seals[k]
  BY <1>2, <1>8
<1> QED BY <1>2, <1>8, <1>9, <1>10 DEF Steady

(* A round that begins takes rate and number of the epoch together.        *)
LEMMA BegunIs ==
  ASSUME RateInv
  PROVE  Begun \in Rounds /\ Begun.epoch + 1 \in DOMAIN seals /\ Begun.prev = seals[Begun.epoch + 1]
<1>1. seals \in Seq(Rate) /\ Len(seals) \in Nat /\ Len(seals) > 0 /\ market \in Quotes
  BY DEF RateInv, Steady
<1>2. Standing = seals[Len(seals)] /\ Standing \in Rate /\ Epoch = Len(seals) - 1 /\ Epoch \in Nat
  BY <1>1 DEF Standing, Epoch, Last
<1>3. Epoch + 1 \in DOMAIN seals /\ Epoch + 1 = Len(seals)
  BY <1>1, <1>2
<1> HIDE DEF Rate
<1>4. Begun \in Rounds /\ Begun.epoch = Epoch /\ Begun.prev = Standing
  BY <1>1, <1>2 DEF Begun, Rounds
<1> QED BY <1>2, <1>3, <1>4

LEMMA SealsStayRead ==
  ASSUME RateInv, UNCHANGED reading,
         \A k \in DOMAIN seals : k \in DOMAIN seals' /\ seals'[k] = seals[k]
  PROVE  ReadingInv'
BY DEF RateInv, ReadingInv

LEMMA RefreshKeeps ==
  ASSUME RateInv, round' = IF round = NoRound THEN Begun ELSE round,
         \A k \in DOMAIN seals : k \in DOMAIN seals' /\ seals'[k] = seals[k]
  PROVE  RateRoundInv'
<1>1. CASE round = NoRound
  <2>1. round' = Begun
    BY <1>1
  <2> QED BY <2>1, BegunIs DEF RateRoundInv
<1>2. CASE round # NoRound
  BY <1>2 DEF RateInv, RateRoundInv
<1> QED BY <1>1, <1>2

LEMMA CloseKeeps ==
  ASSUME RateInv, NEW report \in Reports, CloseEpoch(report)
  PROVE  RateInv'
<1>1. /\ Close(report) /\ UNCHANGED <<market, clock, reading, got>>
      /\ round' = IF round = NoRound THEN Begun ELSE round
  BY DEF CloseEpoch, Close, Refresh
<1>2. /\ Steady(seals') /\ \A k \in DOMAIN seals : k \in DOMAIN seals' /\ seals'[k] = seals[k]
  BY <1>1, CloseIsSteady DEF RateInv
<1>3. RateRoundInv' /\ ReadingInv'
  BY <1>1, <1>2, RefreshKeeps, SealsStayRead
<1> QED BY <1>1, <1>2, <1>3 DEF RateInv, FreshOrSaysSo

LEMMA MoveKeeps ==
  ASSUME RateInv, NEW m \in Quotes, Move(m)
  PROVE  RateInv'
<1>1. /\ market' = m /\ UNCHANGED <<clock, seals, reading, got>>
      /\ round' = IF round = NoRound THEN round ELSE [round EXCEPT !.saw = @ \cup {m}]
  BY DEF Move
<1>2. RateRoundInv'
  <2>1. CASE round = NoRound
    BY <1>1, <2>1 DEF RateRoundInv
  <2>2. CASE round # NoRound
    <3>1. round \in Rounds /\ round.epoch + 1 \in DOMAIN seals /\ round.prev = seals[round.epoch + 1]
      BY <2>2 DEF RateInv, RateRoundInv
    <3>2. round' = [round EXCEPT !.saw = @ \cup {m}]
      BY <1>1, <2>2
    <3>3. round' \in Rounds /\ round'.epoch = round.epoch /\ round'.prev = round.prev
      BY <3>1, <3>2 DEF Rounds
    <3> QED BY <1>1, <3>1, <3>3 DEF RateRoundInv
  <2> QED BY <2>1, <2>2
<1> QED BY <1>1, <1>2 DEF RateInv, ReadingInv, FreshOrSaysSo

(* What the sources brought, enough of them, is a reading that stands.     *)
LEMMA ReadStands ==
  ASSUME RateInv, round # NoRound, NEW v \in Brought, Enough(Len(v)),
         NEW r, r = Read(MedianNano(v))
  PROVE  /\ r \in Readings /\ r.at = clock /\ r.epoch + 1 \in DOMAIN seals
         /\ InClamp(seals[r.epoch + 1], r.rate)
         /\ \E lo, hi \in r.saw : lo <= r.median /\ r.median <= hi
<1>1. /\ round \in Rounds /\ round.epoch + 1 \in DOMAIN seals
      /\ round.prev = seals[round.epoch + 1] /\ clock \in Nat
  BY DEF RateInv, RateRoundInv
<1>2. Wrong \in Nat /\ 2 * Wrong < Quorum /\ Quorum \in Nat /\ Quotes \subseteq Rate
  BY OracleAssumption DEF Rate
<1>3. v \in Seq(Quotes)
  <2>1. v \in BoundedSeq(Quotes, Sources)
    BY DEF Brought, Ascending
  <2>2. PICK n \in 0 .. Sources : v \in [1 .. n -> Quotes]
    BY <2>1 DEF BoundedSeq, SeqOf
  <2>3. n \in Nat
    BY <2>2, OracleAssumption
  <2> QED BY <2>2, <2>3
<1>4. v \in Seq(Nat) /\ v \in Seq(Rate) /\ Len(v) \in Nat
  <2>1. Quotes \subseteq Nat
    BY OracleAssumption
  <2> QED BY <1>2, <1>3, <2>1, WiderSeq
<1>5. Cardinality({i \in DOMAIN v : v[i] \notin round.saw}) <= Wrong
  BY DEF Brought
<1>6. Len(v) > 2 * Wrong /\ Len(v) > 0
  BY <1>2, <1>4 DEF Enough
<1>7. round.saw \in SUBSET Nat
  BY <1>1, <1>2 DEF Rounds, Rate
<1> DEFINE m == MedianNano(v)
           c == Clamped(m, round.prev)
<1>8. /\ m \in Rate /\ m \in Nat
      /\ \E lo, hi \in round.saw : lo <= m /\ m <= hi
  BY <1>2, <1>4, <1>5, <1>6, <1>7, MedianStands, SomeoneSaw
<1> HIDE DEF m
<1>9. round.prev \in Rate /\ round.epoch \in Nat /\ round.saw \in SUBSET Quotes
  BY <1>1 DEF Rounds
<1>10. c \in Rate /\ InClamp(round.prev, c)
  BY <1>8, <1>9, ClampHolds
<1> HIDE DEF c
<1>11. r = [rate |-> c, median |-> m, epoch |-> round.epoch, at |-> clock, saw |-> round.saw]
  BY DEF Read, c, m
<1>12. /\ r \in Readings /\ r.at = clock /\ r.epoch = round.epoch /\ r.rate = c /\ r.median = m
       /\ r.saw = round.saw
  BY <1>1, <1>8, <1>9, <1>10, <1>11 DEF Readings
<1> QED BY <1>1, <1>8, <1>10, <1>12

LEMMA RoundOverKeeps ==
  ASSUME RateInv, round # NoRound, NEW v \in Brought, RoundOver(v)
  PROVE  RateInv'
<1>1. /\ round' = NoRound /\ UNCHANGED <<market, clock, seals>>
      /\ reading' = IF Enough(Len(v)) THEN Read(MedianNano(v)) ELSE reading
      /\ got' = [g \in Getters |->
           IF got[g].st # "wait" THEN got[g]
           ELSE IF Enough(Len(v)) THEN Live(reading') ELSE [st |-> "failed"]]
  BY DEF RoundOver
<1>2. RateRoundInv'
  BY <1>1 DEF RateRoundInv
<1>3. CASE Enough(Len(v))
  <2>1. reading' = Read(MedianNano(v))
    BY <1>1, <1>3
  <2>2. /\ reading' \in Readings /\ reading'.at = clock /\ reading'.epoch + 1 \in DOMAIN seals
        /\ InClamp(seals[reading'.epoch + 1], reading'.rate)
        /\ \E lo, hi \in reading'.saw : lo <= reading'.median /\ reading'.median <= hi
    BY <1>3, <2>1, ReadStands
  <2>3. ReadingInv'
    BY <1>1, <2>2 DEF ReadingInv
  <2>4. FreshOrSaysSo'
    <3> SUFFICES ASSUME NEW g \in Getters, got'[g].st = "live"
                 PROVE  got'[g].answered - got'[g].at <= MaxAge
      BY DEF FreshOrSaysSo
    <3>1. CASE got[g].st # "wait"
      BY <1>1, <3>1 DEF RateInv, FreshOrSaysSo
    <3>2. CASE got[g].st = "wait"
      <4>1. got'[g] = Live(reading')
        BY <1>1, <1>3, <3>2
      <4>2. got'[g].at = clock /\ got'[g].answered = clock
        BY <2>2, <4>1 DEF Live
      <4>3. clock \in Nat /\ MaxAge \in Nat
        BY OracleAssumption DEF RateInv
      <4> QED BY <4>2, <4>3
    <3> QED BY <3>1, <3>2
  <2> QED BY <1>1, <1>2, <2>3, <2>4 DEF RateInv
<1>4. CASE ~Enough(Len(v))
  <2>1. FreshOrSaysSo'
    <3> SUFFICES ASSUME NEW g \in Getters, got'[g].st = "live"
                 PROVE  got'[g].answered - got'[g].at <= MaxAge
      BY DEF FreshOrSaysSo
    <3>1. got'[g] = IF got[g].st # "wait" THEN got[g] ELSE [st |-> "failed"]
      BY <1>1, <1>4
    <3>2. got'[g] = got[g]
      BY <3>1
    <3> QED BY <3>2 DEF RateInv, FreshOrSaysSo
  <2>2. ReadingInv'
    BY <1>1, <1>4 DEF RateInv, ReadingInv
  <2> QED BY <1>1, <1>2, <2>1, <2>2 DEF RateInv
<1> QED BY <1>3, <1>4

LEMMA GetKeeps ==
  ASSUME RateInv, NEW g \in Getters, Get(g)
  PROVE  RateInv'
<1>1. UNCHANGED <<market, clock, seals, reading>>
  BY DEF Get
<1>2. ReadingInv'
  BY <1>1 DEF RateInv, ReadingInv
<1>3. CASE Stale
  <2>1. /\ round' = IF round = NoRound THEN Begun ELSE round
        /\ got' = [got EXCEPT ![g] = [st |-> "wait"]]
    BY <1>3 DEF Get, Refresh
  <2>2. RateRoundInv'
    BY <1>1, <2>1, RefreshKeeps
  <2>3. FreshOrSaysSo'
    BY <2>1 DEF RateInv, FreshOrSaysSo
  <2> QED BY <1>1, <1>2, <2>2, <2>3 DEF RateInv
<1>4. CASE ~Stale
  <2>1. got' = [got EXCEPT ![g] = Live(reading)] /\ UNCHANGED round
    BY <1>4 DEF Get
  <2>2. RateRoundInv'
    BY <1>1, <2>1 DEF RateInv, RateRoundInv
  <2>3. Live(reading).answered - Live(reading).at <= MaxAge
    <3>1. reading \in Readings /\ ~(clock - reading.at > MaxAge)
      BY <1>4 DEF Stale, RateInv, ReadingInv
    <3>2. reading.at \in Nat /\ clock \in Nat /\ MaxAge \in Nat
      BY <3>1, OracleAssumption DEF Readings, RateInv
    <3> QED BY <3>1, <3>2 DEF Live
  <2>4. FreshOrSaysSo'
    BY <2>1, <2>3 DEF RateInv, FreshOrSaysSo
  <2> QED BY <1>1, <1>2, <2>2, <2>4 DEF RateInv
<1> QED BY <1>3, <1>4

LEMMA RateInvInit == OracleInit => RateInv
<1> SUFFICES ASSUME OracleInit PROVE RateInv
  OBVIOUS
<1>1. FirstRate \in Rate
  BY OracleAssumption DEF Rate
<1>2. Steady(seals)
  BY <1>1 DEF OracleInit, Steady
<1>3. FreshOrSaysSo
  BY DEF OracleInit, FreshOrSaysSo, NoGet
<1> QED BY <1>2, <1>3 DEF OracleInit, RateInv, RateRoundInv, ReadingInv

LEMMA RateInvNext == RateInv /\ [OracleNext]_oracleVars => RateInv'
<1> SUFFICES ASSUME RateInv, [OracleNext]_oracleVars PROVE RateInv'
  OBVIOUS
<1>1. CASE \E report \in Reports : CloseEpoch(report)
  BY <1>1, CloseKeeps
<1>2. CASE \E m \in Quotes : Move(m)
  BY <1>2, MoveKeeps
<1>3. CASE round # NoRound /\ \E values \in Brought : RoundOver(values)
  BY <1>3, RoundOverKeeps
<1>4. CASE Restart
  <2>1. FreshOrSaysSo'
    BY <1>4 DEF Restart, FreshOrSaysSo, NoGet
  <2> QED BY <1>4, <2>1 DEF Restart, RateInv, RateRoundInv, ReadingInv
<1>5. CASE Pass
  BY <1>5 DEF Pass, RateInv, RateRoundInv, ReadingInv, FreshOrSaysSo
<1>6. CASE \E g \in Getters : Get(g)
  BY <1>6, GetKeeps
<1>7. CASE UNCHANGED oracleVars
  BY <1>7 DEF oracleVars, RateInv, RateRoundInv, ReadingInv, FreshOrSaysSo
<1> QED BY <1>1, <1>2, <1>3, <1>4, <1>5, <1>6, <1>7 DEF OracleNext

LEMMA RateInvAlways == OracleSpec => []RateInv
BY RateInvInit, RateInvNext, PTL DEF OracleSpec

(* What is published is what an honest market was at some instant of its   *)
(* round, as far as the clamp of the epoch it is signed for allows, and a  *)
(* request hears a reading of the last minute or that there is none        *)
(* (server/oracle.mjs, readOracle; server/index.mjs, refreshOracle).       *)
THEOREM PublishedRateIsHonest == OracleSpec => []PublishedRateStands
<1>1. RateInv => PublishedRateStands
  <2> SUFFICES ASSUME RateInv PROVE PublishedRateStands
    OBVIOUS
  <2>1. ReadingStands
    BY DEF RateInv, ReadingInv, ReadingStands, InClamp
  <2> QED BY <2>1 DEF RateInv, PublishedRateStands
<1> QED BY <1>1, RateInvAlways, PTL

(* Whatever the closers report, and in whatever order, the sealed rate is  *)
(* not halved in six closes nor doubled in seven (core/pricing.mjs,        *)
(* sealRate).                                                              *)
THEOREM RateDriftsSlowly == OracleSpec => []DriftIsSlow
<1>1. RateInv => DriftIsSlow
  BY SteadyIsSlow DEF RateInv, DriftIsSlow
<1> QED BY <1>1, RateInvAlways, PTL
-----------------------------------------------------------------------------
(***************************************************************************)
(* The anchor and the schedule of rules: two contracts, one clock.         *)
(***************************************************************************)

(* What the anchor keeps on its own, whoever sends what.                   *)
AnchorInv ==
  /\ AnchorTypeOK
  /\ SealedBelowHorizon
  /\ NobodyElsesId
  /\ RecordSurvivesClearing

(* An id is the tuple it is made of.                                       *)
LEMMA IdParts ==
  ASSUME NEW id \in Ids
  PROVE  id[1] \in Addr /\ id[2] \in Cids /\ id[3] \in Nonces
           /\ id = PostIdFor(id[1], id[2], id[3])
BY DEF Ids, PostIdFor

LEMMA IdsAreTuples ==
  ASSUME NEW a \in Addr, NEW c \in Cids, NEW n \in Nonces
  PROVE  PostIdFor(a, c, n) \in Ids
BY DEF Ids

(* The horizon stays below the ceiling of the number type.                 *)
LEMMA HorizonBelowCeiling ==
  ASSUME AnchorTypeOK
  PROVE  CurrentEpoch \in 0 .. MaxEpoch + 1 /\ CurrentEpoch < Ceiling
BY AnchorAssumption DEF AnchorTypeOK, CurrentEpoch
-----------------------------------------------------------------------------
(* A new post: under an id made from its author, and that no post has.     *)
LEMMA PublishKeepsAnchorInv ==
  ASSUME AnchorInv, NEW a \in Addr, NEW cid \in Cids \cup {Zero}, NEW shape \in Shapes,
         NEW t \in 1 .. MaxTime, NEW n \in Nonces, Publish(a, cid, shape, t, n)
  PROVE  AnchorInv'
<1> DEFINE id == PostIdFor(a, cid, n)
           p == [author |-> a, cid |-> cid, shape |-> shape, publishedAt |-> now,
                 expires |-> t, state |-> "live", tombstone |-> Zero]
<1> USE DEF AnchorInv
<1>1. /\ cid \in Cids /\ id \in Ids /\ shape # NoShape /\ shape \in Nat \X Nat \X Nat
      /\ posts[id].state = "none"
  BY IdsAreTuples, AnchorAssumption DEF Publish, NoShape
<1>2. /\ posts' = [posts EXCEPT ![id] = p] /\ posts \in [Ids -> Post]
      /\ UNCHANGED <<now, producer, roots, highestEpoch, anySealed, settledLog>>
  BY DEF Publish, AnchorTypeOK
<1>3. p \in Post
  BY <1>1, AnchorAssumption, SMTT(60) DEF Post, AnchorTypeOK
<1>4. id[1] = a /\ id[2] = cid
  BY DEF PostIdFor
<1>5. posts' \in [Ids -> Post] /\ posts'[id] = p /\ \A x \in Ids \ {id} : posts'[x] = posts[x]
  BY <1>1, <1>2, <1>3
<1> HIDE DEF id, p
<1>6. p.author = a /\ p.cid = cid /\ p.shape = shape /\ p.state = "live" /\ p.tombstone = Zero
  BY DEF p
<1>7. AnchorTypeOK'
  BY <1>1, <1>2, <1>4, <1>5, <1>6 DEF AnchorTypeOK
<1>8. SealedBelowHorizon'
  BY <1>2 DEF SealedBelowHorizon, Sealed, CurrentEpoch
<1>9. NobodyElsesId'
  <2> SUFFICES ASSUME NEW b \in Addr, NEW c \in Cids, NEW m \in Nonces,
                      posts'[PostIdFor(b, c, m)].state # "none"
               PROVE  posts'[PostIdFor(b, c, m)].author = b
    BY DEF NobodyElsesId
  <2>1. CASE PostIdFor(b, c, m) = id
    <3>1. b = id[1]
      BY <2>1 DEF PostIdFor
    <3> QED BY <2>1, <3>1, <1>4, <1>5, <1>6
  <2>2. CASE PostIdFor(b, c, m) # id
    BY <2>2, <1>5, IdsAreTuples DEF NobodyElsesId
  <2> QED BY <2>1, <2>2
<1>10. RecordSurvivesClearing'
  <2> SUFFICES ASSUME NEW x \in Ids
               PROVE  /\ posts'[x].state # "settled" => EventsOf(x)' = {}
                      /\ posts'[x].state = "settled" =>
                           \E r \in EventsOf(x)' : EventsOf(x)' = {r} /\ Carries(r, x)'
    BY DEF RecordSurvivesClearing
  <2>1. EventsOf(x)' = EventsOf(x)
    BY <1>2 DEF EventsOf
  <2>2. CASE x = id
    BY <2>1, <2>2, <1>1, <1>5, <1>6 DEF RecordSurvivesClearing
  <2>3. CASE x # id
    BY <2>1, <2>3, <1>5 DEF RecordSurvivesClearing, Carries
  <2> QED BY <2>2, <2>3
<1> QED BY <1>7, <1>8, <1>9, <1>10

(* An extension changes one expiry of one live post.                       *)
LEMMA ExtendKeepsAnchorInv ==
  ASSUME AnchorInv, NEW a \in Addr, NEW id \in Ids, NEW t \in 1 .. MaxTime, Extend(a, id, t)
  PROVE  AnchorInv'
<1> USE DEF AnchorInv
<1>1. /\ posts \in [Ids -> Post] /\ posts[id].state = "live"
      /\ posts' = [posts EXCEPT ![id].expires = t]
      /\ UNCHANGED <<now, producer, roots, highestEpoch, anySealed, settledLog>>
  BY DEF Extend, AnchorTypeOK
<1>2. /\ posts' \in [Ids -> Post]
      /\ \A x \in Ids \ {id} : posts'[x] = posts[x]
      /\ posts'[id] = [posts[id] EXCEPT !.expires = t]
  BY <1>1 DEF Post
<1>3. /\ posts'[id].state = "live" /\ posts'[id].author = posts[id].author
      /\ posts'[id].cid = posts[id].cid /\ posts'[id].shape = posts[id].shape
      /\ posts'[id].tombstone = posts[id].tombstone
  BY <1>1, <1>2 DEF Post
<1>4. AnchorTypeOK'
  BY <1>1, <1>2, <1>3 DEF AnchorTypeOK
<1>5. SealedBelowHorizon'
  BY <1>1 DEF SealedBelowHorizon, Sealed, CurrentEpoch
<1>6. NobodyElsesId'
  BY <1>1, <1>2, <1>3, IdsAreTuples DEF NobodyElsesId
<1>7. \A x \in Ids : EventsOf(x)' = EventsOf(x)
  BY <1>1 DEF EventsOf
<1>8. RecordSurvivesClearing'
  BY <1>1, <1>2, <1>3, <1>7 DEF RecordSurvivesClearing, Carries
<1> QED BY <1>4, <1>5, <1>6, <1>8

(* Settlement moves the payload from storage into the one event.           *)
LEMMA SettleKeepsAnchorInv ==
  ASSUME AnchorInv, NEW a \in Addr, NEW id \in Ids, NEW w \in Words \cup {Zero},
         Settle(a, id, w)
  PROVE  AnchorInv'
<1> USE DEF AnchorInv
<1>0. PICK r0 : r0 = Residue(id, w)
  OBVIOUS
<1>1. /\ posts \in [Ids -> Post] /\ posts[id].state = "live" /\ w \in Words
      /\ posts' = [posts EXCEPT ![id] =
                     [@ EXCEPT !.state = "settled", !.tombstone = w,
                               !.cid = Zero, !.shape = NoShape]]
      /\ settledLog' = settledLog \cup {r0}
      /\ UNCHANGED <<now, producer, roots, highestEpoch, anySealed>>
  BY <1>0 DEF Settle, AnchorTypeOK
<1>2. /\ posts' \in [Ids -> Post]
      /\ \A x \in Ids \ {id} : posts'[x] = posts[x]
  <2> DEFINE q == [posts[id] EXCEPT !.state = "settled", !.tombstone = w,
                                    !.cid = Zero, !.shape = NoShape]
  <2>1. posts[id] \in Post /\ posts' = [posts EXCEPT ![id] = q]
    BY <1>1
  <2>2. NoShape \in Nat \X Nat \X Nat
    BY DEF NoShape
  <2>3. q \in Post
    BY <1>1, <2>1, <2>2 DEF Post
  <2> HIDE DEF q
  <2> QED BY <1>1, <2>1, <2>3
<1>3. /\ posts'[id].state = "settled" /\ posts'[id].author = posts[id].author
      /\ posts'[id].publishedAt = posts[id].publishedAt
      /\ posts'[id].expires = posts[id].expires /\ posts'[id].tombstone = w
  BY <1>1 DEF Post
<1>4. /\ r0.id = id /\ r0.author = posts[id].author /\ r0.cid = posts[id].cid
      /\ r0.shape = posts[id].shape /\ r0.publishedAt = posts[id].publishedAt
      /\ r0.expires = posts[id].expires /\ r0.tombstone = w
  BY <1>0 DEF Residue
<1>5. AnchorTypeOK'
  BY <1>1, <1>2, <1>3, <1>4 DEF AnchorTypeOK
<1>6. SealedBelowHorizon'
  BY <1>1 DEF SealedBelowHorizon, Sealed, CurrentEpoch
<1>7. NobodyElsesId'
  BY <1>1, <1>2, <1>3, IdsAreTuples DEF NobodyElsesId
<1>8. \A x \in Ids : EventsOf(x)' = IF x = id THEN {r0} ELSE EventsOf(x)
  BY <1>1, <1>4 DEF EventsOf, RecordSurvivesClearing
<1>9. Carries(r0, id)'
  <2>1. posts[id].author = id[1] /\ posts[id].cid = id[2] /\ posts[id].shape # NoShape
    BY <1>1, IdParts DEF NobodyElsesId, AnchorTypeOK
  <2> QED
    BY <2>1, <1>3, <1>4, IdParts DEF Carries, PostIdFor
<1>10. RecordSurvivesClearing'
  <2> SUFFICES ASSUME NEW x \in Ids
               PROVE  /\ posts'[x].state # "settled" => EventsOf(x)' = {}
                      /\ posts'[x].state = "settled" =>
                           \E r \in EventsOf(x)' : EventsOf(x)' = {r} /\ Carries(r, x)'
    BY DEF RecordSurvivesClearing
  <2>1. CASE x = id
    BY <2>1, <1>3, <1>8, <1>9
  <2>2. CASE x # id
    BY <2>2, <1>2, <1>8 DEF RecordSurvivesClearing, Carries
  <2> QED BY <2>1, <2>2
<1> QED BY <1>5, <1>6, <1>7, <1>10

(* A seal: the epoch it roots is the horizon, and the horizon moves by one.*)
LEMMA EpochRootKeepsAnchorInv ==
  ASSUME AnchorInv, NEW a \in Addr, NEW due \in 0 .. MaxEpoch, NEW w \in Words \cup {Zero},
         EpochRoot(a, due, w)
  PROVE  AnchorInv'
<1> USE DEF AnchorInv
<1>1. /\ w \in Words /\ due = CurrentEpoch /\ due \in 0 .. Ceiling
      /\ roots' = [roots EXCEPT ![due] = [root |-> w, at |-> now]]
      /\ highestEpoch' = due /\ anySealed' = TRUE
      /\ UNCHANGED <<now, producer, posts, settledLog>>
  BY AnchorAssumption DEF EpochRoot, SealsNext
<1>2. AnchorTypeOK'
  BY <1>1, AnchorAssumption DEF AnchorTypeOK
<1>3. CurrentEpoch' = CurrentEpoch + 1
  BY <1>1 DEF CurrentEpoch
<1>4. SealedBelowHorizon'
  BY <1>1, <1>3, HorizonBelowCeiling DEF SealedBelowHorizon, Sealed, AnchorTypeOK
<1>5. NobodyElsesId'
  BY <1>1 DEF NobodyElsesId
<1>6. RecordSurvivesClearing'
  BY <1>1 DEF RecordSurvivesClearing, EventsOf, Carries
<1> QED BY <1>2, <1>4, <1>5, <1>6

(* The other steps touch the clock, an office or the rules alone.          *)
LEMMA AnchorInvDependsOn ==
  ASSUME AnchorInv, now' \in 1 .. MaxTime, producer' \in Addr,
         UNCHANGED <<posts, roots, highestEpoch, anySealed, settledLog>>
  PROVE  AnchorInv'
BY DEF AnchorInv, AnchorTypeOK, SealedBelowHorizon, Sealed, CurrentEpoch, NobodyElsesId,
       RecordSurvivesClearing, EventsOf, Carries
-----------------------------------------------------------------------------
Sorted ==
  \A i, j \in 1 .. Len(schedule) : i < j => schedule[i].fromEpoch < schedule[j].fromEpoch

(* Wherever some entry is at or below an epoch, there is a last such entry:*)
(* the scan that reads the schedule from its end finds one.                *)
ScanEnds ==
  \A e \in 0 .. Ceiling :
    Governing(e) # {} => \E k \in Governing(e) : \A j \in Governing(e) : j <= k

IInv == AnchorInv /\ RulesTypeOK /\ Sorted /\ ScanEnds

LEMMA EntriesInRange ==
  ASSUME RulesTypeOK
  PROVE  /\ schedule \in Seq(Entry) /\ Len(schedule) \in Nat
         /\ \A i \in 1 .. Len(schedule) : schedule[i].fromEpoch \in 0 .. Ceiling
         /\ schedule # <<>> => Len(schedule) \in 1 .. Len(schedule)
<1>1. schedule \in Seq(Entry)
  BY DEF RulesTypeOK
<1>2. Len(schedule) \in Nat /\ \A i \in 1 .. Len(schedule) : schedule[i] \in Entry
  BY <1>1
<1>3. \A r \in Entry : r.fromEpoch \in 0 .. Ceiling
  BY DEF Entry
<1> QED BY <1>1, <1>2, <1>3

(* What an entry pushed at the end, above every other, leaves of the rest. *)
LEMMA PushKeepsSchedule ==
  ASSUME RulesTypeOK, Sorted, ScanEnds, NEW r \in Entry,
         schedule # <<>> => r.fromEpoch > schedule[Len(schedule)].fromEpoch,
         schedule' = Append(schedule, r)
  PROVE  schedule' \in Seq(Entry) /\ schedule' # <<>> /\ Sorted' /\ ScanEnds'
<1> DEFINE n == Len(schedule)
<1>1. schedule \in Seq(Entry) /\ n \in Nat
  BY EntriesInRange
<1>2. /\ schedule' \in Seq(Entry) /\ Len(schedule') = n + 1
      /\ \A i \in 1 .. n : schedule'[i] = schedule[i]
      /\ schedule'[n + 1] = r
  BY <1>1
<1>3. \A i \in 1 .. n : schedule[i].fromEpoch \in 0 .. Ceiling
  BY EntriesInRange
<1>4. r.fromEpoch \in 0 .. Ceiling
  BY DEF Entry
<1>5. \A i \in 1 .. n : schedule[i].fromEpoch < r.fromEpoch
  <2> SUFFICES ASSUME NEW i \in 1 .. n
               PROVE  schedule[i].fromEpoch < r.fromEpoch
    OBVIOUS
  <2>1. schedule # <<>> /\ n \in 1 .. n
    BY <1>1
  <2>2. i < n => schedule[i].fromEpoch < schedule[n].fromEpoch
    BY <2>1 DEF Sorted
  <2> QED BY <2>1, <2>2, <1>3, <1>4, AnchorAssumption
<1>6. Sorted'
  <2> SUFFICES ASSUME NEW i \in 1 .. n + 1, NEW j \in 1 .. n + 1, i < j
               PROVE  schedule'[i].fromEpoch < schedule'[j].fromEpoch
    BY <1>2 DEF Sorted
  <2>1. i \in 1 .. n
    BY <1>1
  <2>2. CASE j = n + 1
    BY <2>1, <2>2, <1>2, <1>5
  <2>3. CASE j \in 1 .. n
    BY <2>1, <2>3, <1>2 DEF Sorted
  <2> QED BY <2>2, <2>3, <1>1
<1>7. ScanEnds'
  <2> SUFFICES ASSUME NEW e \in 0 .. Ceiling, Governing(e)' # {}
               PROVE  \E k \in Governing(e)' : \A j \in Governing(e)' : j <= k
    BY DEF ScanEnds
  <2>1. Governing(e)' = {i \in 1 .. n + 1 : schedule'[i].fromEpoch <= e}
    BY <1>2 DEF Governing
  <2>2. CASE r.fromEpoch <= e
    <3>1. n + 1 \in Governing(e)' /\ \A j \in Governing(e)' : j <= n + 1
      BY <2>1, <2>2, <1>1, <1>2
    <3> QED BY <3>1
  <2>3. CASE ~(r.fromEpoch <= e)
    <3>1. Governing(e)' = Governing(e)
      BY <2>1, <2>3, <1>1, <1>2 DEF Governing
    <3> QED BY <3>1 DEF ScanEnds
  <2> QED BY <2>2, <2>3
<1>8. schedule' # <<>>
  BY <1>1, <1>2
<1> QED BY <1>2, <1>6, <1>7, <1>8

LEMMA InitIInv == ASSUME Init PROVE IInv
<1> USE DEF Init, AnchorInit
<1>1. AnchorTypeOK
  <2>1. NoPost \in Post /\ NoPost.state = "none" /\ NoPost.tombstone = Zero
    BY AnchorAssumption DEF NoPost, Post, NoShape
  <2>2. NoRoot \in [root : Words \cup {Zero}, at : 0 .. MaxTime] /\ NoRoot.root = Zero
    BY AnchorAssumption DEF NoRoot
  <2>3. now \in 1 .. MaxTime /\ highestEpoch \in 0 .. MaxEpoch /\ producer \in Addr
    BY AnchorAssumption
  <2>4. posts \in [Ids -> Post] /\ \A id \in Ids : posts[id] = NoPost
    BY <2>1
  <2>5. /\ roots \in [0 .. Ceiling -> [root : Words \cup {Zero}, at : 0 .. MaxTime]]
        /\ \A e \in 0 .. Ceiling : roots[e] = NoRoot
    BY <2>2
  <2> QED BY <2>1, <2>2, <2>3, <2>4, <2>5 DEF AnchorTypeOK
<1>2. SealedBelowHorizon
  BY DEF SealedBelowHorizon, Sealed, CurrentEpoch, NoRoot
<1>3. NobodyElsesId
  BY IdsAreTuples DEF NobodyElsesId, NoPost
<1>4. RecordSurvivesClearing
  BY DEF RecordSurvivesClearing, EventsOf, NoPost
<1>5. RulesTypeOK /\ Sorted
  BY DEF RulesTypeOK, Sorted
<1>6. ScanEnds
  BY DEF ScanEnds, Governing
<1> QED BY <1>1, <1>2, <1>3, <1>4, <1>5, <1>6 DEF IInv, AnchorInv

LEMMA RulesPartDependsOn ==
  ASSUME RulesTypeOK, Sorted, ScanEnds, ruleKey' \in Addr \cup {Zero},
         (ruleKey' = Zero) <=> (schedule = <<>>), UNCHANGED schedule
  PROVE  RulesTypeOK' /\ Sorted' /\ ScanEnds'
BY DEF RulesTypeOK, Sorted, ScanEnds, Governing

LEMMA NextKeepsIInv == ASSUME IInv, [Next]_vars PROVE IInv'
<1> USE DEF IInv
<1>1. ASSUME NEW a \in Addr, NEW cid \in Cids \cup {Zero}, NEW shape \in Shapes,
             NEW t \in 1 .. MaxTime, NEW n \in Nonces, Publish(a, cid, shape, t, n)
      PROVE  AnchorInv'
  BY <1>1, PublishKeepsAnchorInv
<1>2. ASSUME NEW a \in Addr, NEW id \in Ids, NEW t \in 1 .. MaxTime, Extend(a, id, t)
      PROVE  AnchorInv'
  BY <1>2, ExtendKeepsAnchorInv
<1>3. ASSUME NEW a \in Addr, NEW id \in Ids, NEW w \in Words \cup {Zero}, Settle(a, id, w)
      PROVE  AnchorInv'
  BY <1>3, SettleKeepsAnchorInv
<1>4. ASSUME NEW a \in Addr, NEW e \in 0 .. MaxEpoch, NEW w \in Words \cup {Zero},
             EpochRoot(a, e, w)
      PROVE  AnchorInv'
  BY <1>4, EpochRootKeepsAnchorInv
<1>5. ASSUME NEW a \in Addr, NEW to \in Addr \cup {Zero}, RotateProducer(a, to)
      PROVE  AnchorInv'
  BY <1>5, AnchorInvDependsOn DEF RotateProducer, AnchorInv, AnchorTypeOK
<1>6. ASSUME NextBlock
      PROVE  AnchorInv'
  BY <1>6, AnchorInvDependsOn, AnchorAssumption DEF NextBlock, AnchorInv, AnchorTypeOK
<1>7. CASE AnchorNext /\ UNCHANGED rulesVars
  <2>1. AnchorInv'
    BY <1>1, <1>2, <1>3, <1>4, <1>5, <1>6, <1>7 DEF AnchorNext
  <2> QED BY <2>1, <1>7, RulesPartDependsOn DEF rulesVars, RulesTypeOK
<1>8. ASSUME UNCHANGED anchorVars PROVE AnchorInv'
  BY <1>8, AnchorInvDependsOn DEF anchorVars, AnchorInv, AnchorTypeOK
<1>9. now \in 1 .. MaxTime /\ CurrentEpoch \in 0 .. Ceiling
  <2>1. AnchorTypeOK /\ SealedBelowHorizon
    BY DEF AnchorInv
  <2>2. now \in 1 .. MaxTime
    BY <2>1 DEF AnchorTypeOK
  <2>3. CurrentEpoch \in 0 .. MaxEpoch + 1
    BY <2>1, HorizonBelowCeiling
  <2>4. CurrentEpoch \in 0 .. Ceiling
    BY ONLY <2>3, AnchorAssumption
  <2> QED BY <2>2, <2>4
<1>10. ASSUME NEW a \in Addr, NEW key \in Addr \cup {Zero}, NEW ed \in Editions \cup {Zero},
              Deploy(a, key, ed)
       PROVE  IInv'
  <2>1. Rule(a, ed, CurrentEpoch) \in Entry
    BY <1>9, <1>10 DEF Deploy, Rule, Entry
  <2>2. schedule = <<>> /\ schedule' = Append(schedule, Rule(a, ed, CurrentEpoch))
    BY <1>10 DEF Deploy, Deployed, GenesisFrom
  <2>3. schedule' \in Seq(Entry) /\ schedule' # <<>> /\ Sorted' /\ ScanEnds'
    BY <2>1, <2>2, PushKeepsSchedule
  <2>4. RulesTypeOK'
    BY <2>3, <1>10 DEF Deploy, RulesTypeOK
  <2> QED BY <2>3, <2>4, <1>8, <1>10 DEF Deploy
<1>11. ASSUME NEW a \in Addr, NEW ed \in Editions \cup {Zero}, NEW e \in 0 .. Ceiling,
              SetRules(a, ed, e)
       PROVE  IInv'
  <2>1. Rule(a, ed, e) \in Entry
    BY <1>9, <1>11 DEF SetRules, Rule, Entry
  <2>2. /\ schedule' = Append(schedule, Rule(a, ed, e))
        /\ Rule(a, ed, e).fromEpoch > schedule[Len(schedule)].fromEpoch
    BY <1>11 DEF SetRules, Rule, ClearsFloors
  <2>3. schedule' \in Seq(Entry) /\ schedule' # <<>> /\ Sorted' /\ ScanEnds'
    BY <2>1, <2>2, PushKeepsSchedule
  <2>4. RulesTypeOK'
    BY <2>3, <1>11 DEF SetRules, RulesTypeOK, Deployed
  <2> QED BY <2>3, <2>4, <1>8, <1>11 DEF SetRules
<1>12. ASSUME NEW a \in Addr, NEW to \in Addr \cup {Zero}, RotateRuleKey(a, to)
       PROVE  IInv'
  BY <1>12, <1>8, RulesPartDependsOn DEF RotateRuleKey, Deployed
<1>13. CASE UNCHANGED vars
  BY <1>13, <1>8, RulesPartDependsOn DEF vars, rulesVars, RulesTypeOK
<1> QED BY <1>7, <1>10, <1>11, <1>12, <1>13 DEF Next, RulesNext

LEMMA Invariance == Spec => []IInv
BY InitIInv, NextKeepsIInv, PTL DEF Spec
-----------------------------------------------------------------------------
(* Every value both contracts hold has its type, whoever sends what in     *)
(* whatever order.                                                         *)
THEOREM TypeCorrect == Spec => []TypeOK
<1>1. IInv => TypeOK
  BY DEF IInv, AnchorInv, TypeOK
<1> QED BY <1>1, Invariance, PTL

(* epochRoot takes only the next epoch, so the rooted epochs are exactly   *)
(* those below the one currentEpoch reports.                               *)
THEOREM NoEpochSkipped == Spec => []SealedBelowHorizon
<1>1. IInv => SealedBelowHorizon
  BY DEF IInv, AnchorInv
<1> QED BY <1>1, Invariance, PTL

(* publish derives the id from its sender, so nobody can stand under an    *)
(* id another author would derive.                                         *)
THEOREM IdsBelongToTheirAuthors == Spec => []NobodyElsesId
<1>1. IInv => NobodyElsesId
  BY DEF IInv, AnchorInv
<1> QED BY <1>1, Invariance, PTL

(* settle emits before it clears, once per post: the event carries the     *)
(* payload storage gave up.                                                *)
THEOREM SettledRecordIsWhole == Spec => []RecordSurvivesClearing
<1>1. IInv => RecordSurvivesClearing
  BY DEF IInv, AnchorInv
<1> QED BY <1>1, Invariance, PTL

(* All three together: the chain's own record has no gap, and is of those  *)
(* it names.                                                               *)
THEOREM RecordIsSound == Spec => []RecordSound
<1>1. SealedBelowHorizon /\ RecordSurvivesClearing /\ NobodyElsesId => RecordSound
  BY DEF RecordSound
<1> QED BY <1>1, NoEpochSkipped, SettledRecordIsWhole, IdsBelongToTheirAuthors, PTL
-----------------------------------------------------------------------------
(* What rulesFor answers: the last entry at or below the epoch.            *)
LEMMA AnswerIsLast ==
  ASSUME ScanEnds, NEW e \in 0 .. Ceiling, Governing(e) # {}
  PROVE  \E k \in Governing(e) : RulesFor(e) = schedule[k] /\ \A j \in Governing(e) : j <= k
<1> DEFINE k == CHOOSE i \in Governing(e) : \A j \in Governing(e) : j <= i
<1>1. k \in Governing(e) /\ \A j \in Governing(e) : j <= k
  BY DEF ScanEnds
<1>2. RulesFor(e) = schedule[k]
  BY DEF RulesFor
<1> QED BY <1>1, <1>2

(* Two schedules that agree on the entries at or below an epoch agree on   *)
(* the answer for it.                                                      *)
LEMMA SameAnswer ==
  ASSUME ScanEnds, NEW e \in 0 .. Ceiling, Governing(e)' = Governing(e),
         \A i \in Governing(e) : schedule'[i] = schedule[i]
  PROVE  RulesFor(e)' = RulesFor(e)
<1>1. CASE Governing(e) = {}
  BY <1>1 DEF RulesFor, NoAnswer
<1>2. CASE Governing(e) # {}
  <2> DEFINE k == CHOOSE i \in Governing(e) : \A j \in Governing(e) : j <= i
  <2>1. k \in Governing(e)
    BY <1>2 DEF ScanEnds
  <2>2. RulesFor(e) = schedule[k]
    BY <1>2 DEF RulesFor
  <2>3. RulesFor(e)' = schedule'[k]
    BY <1>2 DEF RulesFor
  <2> QED BY <2>1, <2>2, <2>3
<1> QED BY <1>1, <1>2

(* The schedule stays a partition: no entry is shadowed by a later one.    *)
THEOREM ScheduleIsPartition == Spec => []NothingShadowed
<1>1. ASSUME IInv PROVE NothingShadowed
  <2> DEFINE n == Len(schedule)
  <2>1. n \in Nat /\ \A i \in 1 .. n : schedule[i].fromEpoch \in 0 .. Ceiling
    BY <1>1, EntriesInRange DEF IInv
  <2>2. ASSUME NEW i \in 1 .. n PROVE RulesFor(schedule[i].fromEpoch) = schedule[i]
    <3> DEFINE e == schedule[i].fromEpoch
    <3>1. e \in 0 .. Ceiling /\ i \in Governing(e)
      BY <2>1 DEF Governing
    <3>2. PICK k \in Governing(e) : RulesFor(e) = schedule[k] /\ \A j \in Governing(e) : j <= k
      BY <1>1, <3>1, AnswerIsLast DEF IInv
    <3>3. k \in 1 .. n /\ schedule[k].fromEpoch <= e /\ i <= k
      BY <3>1, <3>2 DEF Governing
    <3>4. ~(i < k)
      BY <1>1, <2>1, <3>3 DEF IInv, Sorted
    <3> QED BY <2>1, <3>2, <3>3, <3>4
  <2>3. ASSUME NEW e \in 0 .. Ceiling, NEW i \in Governing(e)
        PROVE  schedule[i].fromEpoch <= RulesFor(e).fromEpoch
    <3>1. PICK k \in Governing(e) : RulesFor(e) = schedule[k] /\ \A j \in Governing(e) : j <= k
      BY <1>1, <2>3, AnswerIsLast DEF IInv
    <3>2. k \in 1 .. n /\ i \in 1 .. n /\ i <= k
      BY <3>1 DEF Governing
    <3>3. i < k => schedule[i].fromEpoch < schedule[k].fromEpoch
      BY <1>1, <3>2 DEF IInv, Sorted
    <3> QED BY <2>1, <3>1, <3>2, <3>3, AnchorAssumption
  <2> QED BY <2>2, <2>3 DEF NothingShadowed
<1> QED BY <1>1, Invariance, PTL

(* For every clock a floor can be cleared unless the last entry is at the  *)
(* ceiling.                                                                *)
THEOREM KeyIsNeverLockedOut == Spec => []NeverLockedOut
<1>1. ASSUME IInv, Deployed, schedule[Len(schedule)].fromEpoch < Ceiling,
             NEW reads \in 0 .. Ceiling
      PROVE  \E e \in 0 .. Ceiling :
               ClearsFloors(e, schedule[Len(schedule)].fromEpoch, reads)
  <2> DEFINE last == schedule[Len(schedule)].fromEpoch
  <2>1. last \in 0 .. Ceiling
    BY <1>1, EntriesInRange DEF IInv, Deployed
  <2> HIDE DEF last
  <2>2. CASE reads = Ceiling \/ reads <= last
    <3>1. last + 1 \in 0 .. Ceiling /\ ClearsFloors(last + 1, last, reads)
      BY <1>1, <2>1, <2>2, AnchorAssumption DEF ClearsFloors, last
    <3> QED BY <3>1 DEF last
  <2>3. CASE reads # Ceiling /\ last < reads
    <3>1. reads + 1 \in 0 .. Ceiling /\ ClearsFloors(reads + 1, last, reads)
      BY <1>1, <2>1, <2>3, AnchorAssumption DEF ClearsFloors
    <3> QED BY <3>1 DEF last
  <2> QED BY <2>1, <2>2, <2>3, AnchorAssumption
<1>2. IInv => NeverLockedOut
  BY <1>1 DEF NeverLockedOut
<1> QED BY <1>2, Invariance, PTL

(* Both together: the schedule can always be read and continued.           *)
THEOREM ScheduleIsSound == Spec => []ScheduleSound
<1>1. NothingShadowed /\ NeverLockedOut => ScheduleSound
  BY DEF ScheduleSound
<1> QED BY <1>1, ScheduleIsPartition, KeyIsNeverLockedOut, PTL
-----------------------------------------------------------------------------
(* Every entry starts above the horizon at its time and the horizon only   *)
(* advances, so no answer for a sealed epoch ever changes.                 *)
THEOREM NarrowGuarantee == Spec => AnswersFrozen
<1>1. ASSUME IInv, [Next]_vars, NEW e \in 0 .. Ceiling,
             Sealed(e) \/ (Deployed /\ e = CurrentEpoch)
      PROVE  RulesFor(e)' = RulesFor(e)
  <2> USE DEF IInv
  <2>1. e <= CurrentEpoch /\ CurrentEpoch \in 0 .. Ceiling /\ CurrentEpoch # Ceiling
    BY <1>1, HorizonBelowCeiling, AnchorAssumption DEF AnchorInv, SealedBelowHorizon
  <2>2. ~Deployed => e < CurrentEpoch
    BY <1>1 DEF AnchorInv, SealedBelowHorizon
  <2>3. CASE UNCHANGED schedule
    BY <1>1, <2>3, SameAnswer DEF Governing
  <2>4. ASSUME NEW a \in Addr, NEW key \in Addr \cup {Zero}, NEW ed \in Editions \cup {Zero},
               Deploy(a, key, ed)
        PROVE  RulesFor(e)' = RulesFor(e)
    <3>1. schedule = <<>> /\ schedule' = <<Rule(a, ed, CurrentEpoch)>> /\ e < CurrentEpoch
      BY <2>2, <2>4 DEF Deploy, Deployed, GenesisFrom
    <3>2. Governing(e) = {} /\ Governing(e)' = {}
      BY <3>1, <2>1 DEF Governing, Rule
    <3> QED BY <1>1, <3>2, SameAnswer
  <2>5. ASSUME NEW a \in Addr, NEW ed \in Editions \cup {Zero}, NEW f \in 0 .. Ceiling,
               SetRules(a, ed, f)
        PROVE  RulesFor(e)' = RulesFor(e)
    <3> DEFINE n == Len(schedule)
               r == Rule(a, ed, f)
    <3>1. f > e /\ schedule' = Append(schedule, r) /\ r.fromEpoch = f
      BY <2>1, <2>5 DEF SetRules, ClearsFloors, Rule
    <3>2. schedule \in Seq(Entry) /\ n \in Nat
      BY <1>1 DEF RulesTypeOK
    <3> HIDE DEF r
    <3>3. /\ Len(schedule') = n + 1 /\ schedule'[n + 1] = r
          /\ \A i \in 1 .. n : schedule'[i] = schedule[i]
      BY <3>1, <3>2
    <3>4. Governing(e)' = Governing(e)
      BY <3>1, <3>2, <3>3 DEF Governing
    <3>5. \A i \in Governing(e) : schedule'[i] = schedule[i]
      BY <3>3 DEF Governing
    <3> QED BY <1>1, <3>4, <3>5, SameAnswer
  <2>6. ASSUME NEW a \in Addr, NEW to \in Addr \cup {Zero}, RotateRuleKey(a, to)
        PROVE  RulesFor(e)' = RulesFor(e)
    BY <2>3, <2>6 DEF RotateRuleKey
  <2> QED BY <1>1, <2>3, <2>4, <2>5, <2>6 DEF Next, RulesNext, rulesVars, vars
<1>2. IInv /\ [Next]_vars =>
        [\A e \in 0 .. Ceiling :
           Sealed(e) \/ (Deployed /\ e = CurrentEpoch) => RulesFor(e)' = RulesFor(e)]_vars
  BY <1>1
<1> QED BY <1>2, Invariance, PTL DEF Spec, AnswersFrozen
-----------------------------------------------------------------------------
(* A step that leaves the three records alone revises nothing.             *)
LEMMA StutterRevisesNothing ==
  ASSUME AnchorTypeOK, UNCHANGED <<posts, roots, settledLog>>
  PROVE  NoRevision
<1>1. \A id \in Ids : posts[id].expires \in Nat
  BY AnchorAssumption DEF AnchorTypeOK, Post
<1> QED BY <1>1 DEF NoRevision, NotRevised

(* "One write, no revisions": a root, a settled post and an event never    *)
(* change again, a live post only moves its expiry forward and settles     *)
(* only once lapsed.                                                       *)
THEOREM NothingIsRevised == Spec => RecordIsFinal
<1>1. ASSUME IInv, [Next]_vars PROVE NoRevision
  <2> USE DEF IInv, AnchorInv
  <2>1. posts \in [Ids -> Post] /\ \A x \in Ids : posts[x].expires \in Nat
    BY <1>1, AnchorAssumption DEF AnchorTypeOK, Post
  <2>2. ASSUME NEW a \in Addr, NEW cid \in Cids \cup {Zero}, NEW shape \in Shapes,
               NEW t \in 1 .. MaxTime, NEW n \in Nonces, Publish(a, cid, shape, t, n)
        PROVE  NoRevision
    <3> DEFINE id == PostIdFor(a, cid, n)
    <3>1. /\ posts[id].state = "none" /\ UNCHANGED <<roots, settledLog>>
          /\ \A x \in Ids \ {id} : posts'[x] = posts[x]
      BY <2>1, <2>2 DEF Publish
    <3> QED BY <2>1, <3>1 DEF NoRevision, NotRevised
  <2>3. ASSUME NEW a \in Addr, NEW id \in Ids, NEW t \in 1 .. MaxTime, Extend(a, id, t)
        PROVE  NoRevision
    <3>1. /\ posts[id].state = "live" /\ t > posts[id].expires
          /\ UNCHANGED <<roots, settledLog>>
          /\ \A x \in Ids \ {id} : posts'[x] = posts[x]
          /\ posts'[id] = [posts[id] EXCEPT !.expires = t]
      BY <2>1, <2>3 DEF Extend
    <3>2. /\ posts'[id].author = posts[id].author /\ posts'[id].cid = posts[id].cid
          /\ posts'[id].publishedAt = posts[id].publishedAt
          /\ posts'[id].state = "live" /\ posts'[id].expires = t
      BY <2>1, <3>1 DEF Post
    <3>3. NotRevised(id)
      BY <2>1, <3>1, <3>2 DEF NotRevised
    <3>4. ASSUME NEW x \in Ids \ {id} PROVE NotRevised(x)
      BY <2>1, <3>1 DEF NotRevised
    <3> QED BY <3>1, <3>3, <3>4 DEF NoRevision
  <2>4. ASSUME NEW a \in Addr, NEW id \in Ids, NEW w \in Words \cup {Zero}, Settle(a, id, w)
        PROVE  NoRevision
    <3>1. /\ posts[id].state = "live" /\ now >= posts[id].expires
          /\ UNCHANGED roots /\ settledLog \subseteq settledLog'
          /\ \A x \in Ids \ {id} : posts'[x] = posts[x]
          /\ posts'[id] = [posts[id] EXCEPT !.state = "settled", !.tombstone = w,
                                            !.cid = Zero, !.shape = NoShape]
      BY <2>1, <2>4 DEF Settle, Lapsed
    <3>2. /\ posts'[id].author = posts[id].author
          /\ posts'[id].publishedAt = posts[id].publishedAt
          /\ posts'[id].state = "settled" /\ posts'[id].expires = posts[id].expires
      BY <2>1, <3>1 DEF Post
    <3>3. NotRevised(id)
      BY <2>1, <3>1, <3>2 DEF NotRevised
    <3>4. ASSUME NEW x \in Ids \ {id} PROVE NotRevised(x)
      BY <2>1, <3>1 DEF NotRevised
    <3> QED BY <3>1, <3>3, <3>4 DEF NoRevision
  <2>5. ASSUME NEW a \in Addr, NEW e \in 0 .. MaxEpoch, NEW w \in Words \cup {Zero},
               EpochRoot(a, e, w)
        PROVE  NoRevision
    <3>1. /\ UNCHANGED <<posts, settledLog>> /\ roots[e].at = 0
          /\ \A x \in (0 .. Ceiling) \ {e} : roots'[x] = roots[x]
      BY <1>1, <2>5 DEF EpochRoot, SealsNext, AnchorTypeOK
    <3> QED BY <2>1, <3>1 DEF NoRevision, NotRevised, Sealed
  <2>6. CASE UNCHANGED <<posts, roots, settledLog>>
    BY <1>1, <2>6, StutterRevisesNothing
  <2> QED
    BY <1>1, <2>2, <2>3, <2>4, <2>5, <2>6
    DEF Next, AnchorNext, RotateProducer, NextBlock, RulesNext, Deploy, SetRules,
        RotateRuleKey, anchorVars, vars
<1>2. IInv /\ [Next]_vars => [NoRevision]_vars
  BY <1>1
<1> QED BY <1>2, Invariance, PTL DEF Spec, RecordIsFinal
-----------------------------------------------------------------------------
(***************************************************************************)
(* Proofs about the token and the pool: whose every coin is, and that no   *)
(* call takes value from a share.                                          *)
(***************************************************************************)

USE TokenAssumption, PoolAssumption
-----------------------------------------------------------------------------
MarketTypeOK ==
  /\ balanceOf \in [Holders -> Nat] /\ allowance \in [Holders -> [Holders -> Nat]]
  /\ totalSupply \in Nat /\ totalEmitted \in Nat /\ totalBurned \in Nat
  /\ wbtcOf \in [Holders -> Nat]
  /\ reserveWbtc \in Nat /\ reservePtp \in Nat
  /\ sharesOf \in [Holders \cup {Locked} -> Nat] /\ totalShares \in Nat

(* The pool never signs, so nobody may spend for it.                       *)
PoolGrantsNothing == \A a \in Holders : allowance[Pool][a] = 0

(* The inductive invariant.  No balance of either coin wraps, because the  *)
(* balances add up to something that fits a word; nothing leaves the pool  *)
(* but by its own functions.                                               *)
PoolInv ==
  /\ MarketTypeOK
  /\ SumFunction(wbtcOf) <= Greatest
  /\ PoolGrantsNothing
  /\ HoldingsAccounted
-----------------------------------------------------------------------------
LEMMA WordFits == ASSUME NEW n \in Nat, n <= Greatest PROVE Word(n) = n
BY DEF Word

(* A transfer on one ledger that holds no more than a word: what each      *)
(* account has, and the same total.                                        *)
LEMMA MovedKeepsTotal ==
  ASSUME NEW ledger \in [Holders -> Nat], SumFunction(ledger) <= Greatest,
         NEW from \in Holders, NEW to \in Holders, NEW value \in Nat, value <= ledger[from]
  PROVE  /\ Moved(ledger, from, to, value) \in [Holders -> Nat]
         /\ SumFunction(Moved(ledger, from, to, value)) = SumFunction(ledger)
         /\ \A a \in Holders :
              Moved(ledger, from, to, value)[a] =
                ledger[a] - (IF a = from THEN value ELSE 0) + (IF a = to THEN value ELSE 0)
<1> DEFINE mid   == [ledger EXCEPT ![from] = @ - value]
           after == [mid EXCEPT ![to] = Word(@ + value)]
<1>1. Moved(ledger, from, to, value) = after
  BY DEF Moved
<1>2. /\ mid \in [Holders -> Nat] /\ mid[from] = ledger[from] - value
      /\ \A a \in Holders : a # from => mid[a] = ledger[a]
  OBVIOUS
<1>3. after = [a \in Holders |-> IF a = to THEN Word(mid[to] + value) ELSE mid[a]]
  BY <1>2
<1> HIDE DEF mid, after
<1>4. mid \in [Holders -> Int] /\ ledger \in [Holders -> Int] /\ ledger[from] \in Nat
  BY <1>2
<1>5. SumFunction(mid) = SumFunction(ledger) - ledger[from] + mid[from]
  BY <1>2, <1>4, SumUpdate
<1>6. SumFunction(ledger) \in Int
  BY <1>4, SumType
<1>7. SumFunction(mid) = SumFunction(ledger) - value
  BY <1>2, <1>4, <1>5, <1>6
<1>8. mid[to] \in Nat /\ mid[to] <= SumFunction(mid) /\ SumFunction(mid) \in Nat
  BY <1>2, SumNat
<1>9. Word(mid[to] + value) = mid[to] + value
  <2>1. mid[to] + value \in Nat /\ mid[to] + value <= Greatest
    BY <1>6, <1>7, <1>8
  <2>. QED
    BY <2>1, WordFits
<1>10. /\ after \in [Holders -> Nat] /\ after[to] = mid[to] + value
       /\ \A a \in Holders : a # to => after[a] = mid[a]
  BY <1>2, <1>3, <1>8, <1>9
<1>11. SumFunction(after) = SumFunction(mid) - mid[to] + after[to]
  <2>1. after \in [Holders -> Int]
    BY <1>10
  <2>. QED
    BY <1>4, <1>10, <2>1, SumUpdate
<1>12. SumFunction(after) = SumFunction(ledger)
  BY <1>6, <1>7, <1>8, <1>10, <1>11
<1>13. ASSUME NEW a \in Holders
       PROVE  after[a] = ledger[a] - (IF a = from THEN value ELSE 0) + (IF a = to THEN value ELSE 0)
  BY <1>2, <1>4, <1>10
<1>. QED
  BY <1>1, <1>10, <1>12, <1>13

(* Spending a grant: never below zero, and the pool's row stays empty.     *)
LEMMA SpentKeepsGrants ==
  ASSUME MarketTypeOK, PoolGrantsNothing,
         NEW owner \in Holders, NEW spender \in Holders, NEW value \in Nat,
         Allows(owner, spender, value)
  PROVE  /\ Spent(owner, spender, value) \in [Holders -> [Holders -> Nat]]
         /\ \A a \in Holders : Spent(owner, spender, value)[Pool][a] = 0
         /\ owner = Pool => value = 0
<1>1. /\ allowance \in [Holders -> [Holders -> Nat]] /\ allowance[owner] \in [Holders -> Nat]
      /\ allowance[owner][spender] \in Nat /\ allowance[owner][spender] >= value
  BY DEF MarketTypeOK, Allows
<1>2. owner = Pool => value = 0
  BY <1>1 DEF PoolGrantsNothing
<1> DEFINE row  == [allowance[owner] EXCEPT ![spender] = @ - value]
           less == [allowance EXCEPT ![owner] = row]
<1>3. [allowance EXCEPT ![owner][spender] = @ - value] = less
  BY <1>1
<1>4. /\ row \in [Holders -> Nat]
      /\ owner = Pool => \A a \in Holders : row[a] = 0
  BY <1>1, <1>2 DEF PoolGrantsNothing
<1> HIDE DEF row
<1>5. /\ less \in [Holders -> [Holders -> Nat]]
      /\ \A a \in Holders : less[Pool][a] = 0
  BY <1>1, <1>4 DEF PoolGrantsNothing
<1> HIDE DEF less
<1>. QED
  BY <1>1, <1>2, <1>3, <1>5 DEF Spent, PoolGrantsNothing
-----------------------------------------------------------------------------
(* The token's half of the invariant.                                      *)
TokenInv ==
  /\ balanceOf \in [Holders -> Nat] /\ allowance \in [Holders -> [Holders -> Nat]]
  /\ totalSupply \in Nat /\ totalEmitted \in Nat /\ totalBurned \in Nat
  /\ PoolGrantsNothing
  /\ SupplyAccounted

LEMMA SupplyFits == ASSUME TokenInv PROVE SumFunction(balanceOf) = totalSupply /\ totalSupply <= Greatest
BY DEF TokenInv, SupplyAccounted

(* What mint and burn do to the sum of the balances.                       *)
LEMMA BalanceSet ==
  ASSUME TokenInv, NEW a \in Holders, NEW n \in Nat
  PROVE  /\ [balanceOf EXCEPT ![a] = n] \in [Holders -> Nat]
         /\ SumFunction([balanceOf EXCEPT ![a] = n]) = totalSupply - balanceOf[a] + n
         /\ balanceOf[a] <= totalSupply
<1> DEFINE after == [balanceOf EXCEPT ![a] = n]
<1>1. balanceOf \in [Holders -> Int] /\ balanceOf \in [Holders -> Nat]
  BY DEF TokenInv
<1>2. /\ after \in [Holders -> Nat] /\ after \in [Holders -> Int] /\ after[a] = n
      /\ \A b \in Holders : b # a => after[b] = balanceOf[b]
  BY <1>1
<1> HIDE DEF after
<1>3. SumFunction(after) = SumFunction(balanceOf) - balanceOf[a] + after[a]
  BY <1>1, <1>2, SumUpdate
<1>4. balanceOf[a] <= SumFunction(balanceOf)
  BY <1>1, SumNat
<1>. QED
  BY <1>2, <1>3, <1>4, SupplyFits DEF after

LEMMA BurnedKeepsSupply ==
  ASSUME TokenInv, NEW from \in Holders, NEW value \in Nat, Burned(from, value),
         from = Pool => value = 0
  PROVE  /\ balanceOf' \in [Holders -> Nat] /\ balanceOf'[Pool] >= balanceOf[Pool]
         /\ totalSupply' \in Nat /\ totalEmitted' \in Nat /\ totalBurned' \in Nat
         /\ SupplyAccounted'
<1>1. /\ balanceOf \in [Holders -> Nat] /\ balanceOf[from] \in Nat /\ value <= balanceOf[from]
      /\ balanceOf[Pool] \in Nat
  BY DEF TokenInv, Burned
<1> DEFINE n == balanceOf[from] - value
<1>2. n \in Nat /\ balanceOf' = [balanceOf EXCEPT ![from] = n]
  BY <1>1 DEF Burned
<1> HIDE DEF n
<1>3. /\ balanceOf' \in [Holders -> Nat] /\ balanceOf[from] <= totalSupply
      /\ SumFunction(balanceOf') = totalSupply - balanceOf[from] + n
  BY <1>2, BalanceSet
<1>4. /\ totalSupply \in Nat /\ totalEmitted \in Nat /\ totalBurned \in Nat
      /\ totalSupply = totalEmitted - totalBurned /\ totalEmitted <= MAX_SUPPLY
  BY DEF TokenInv, SupplyAccounted
<1>5. totalSupply' = totalSupply - value
  <2>1. totalSupply - value \in Nat /\ totalSupply - value <= Greatest
    BY <1>1, <1>3, <1>4
  <2>. QED
    BY <2>1, WordFits DEF Burned
<1>6. totalBurned' = totalBurned + value /\ totalEmitted' = totalEmitted
  <2>1. totalBurned + value \in Nat /\ totalBurned + value <= Greatest
    BY <1>1, <1>3, <1>4
  <2>. QED
    BY <2>1, WordFits DEF Burned
<1>7. balanceOf'[Pool] >= balanceOf[Pool]
  BY <1>1, <1>2 DEF n
<1>8. SupplyAccounted'
  BY <1>1, <1>3, <1>4, <1>5, <1>6 DEF SupplyAccounted, n
<1>. QED
  BY <1>1, <1>3, <1>4, <1>5, <1>6, <1>7, <1>8

(* A transfer in the token's own ledger, by an account or under a grant.   *)
LEMMA TransferKeepsSupply ==
  ASSUME TokenInv, NEW from \in Holders, NEW to \in Holders, NEW value \in Nat,
         balanceOf[from] >= value, from = Pool => value = 0,
         balanceOf' = Moved(balanceOf, from, to, value),
         UNCHANGED <<totalSupply, totalEmitted, totalBurned>>
  PROVE  /\ balanceOf' \in [Holders -> Nat] /\ balanceOf'[Pool] >= balanceOf[Pool]
         /\ totalSupply' \in Nat /\ totalEmitted' \in Nat /\ totalBurned' \in Nat
         /\ SupplyAccounted'
<1>1. /\ balanceOf \in [Holders -> Nat] /\ SumFunction(balanceOf) <= Greatest
      /\ value <= balanceOf[from] /\ balanceOf[Pool] \in Nat
  BY SupplyFits DEF TokenInv
<1>2. /\ balanceOf' \in [Holders -> Nat] /\ SumFunction(balanceOf') = SumFunction(balanceOf)
      /\ balanceOf'[Pool] =
           balanceOf[Pool] - (IF Pool = from THEN value ELSE 0) + (IF Pool = to THEN value ELSE 0)
  BY <1>1, MovedKeepsTotal
<1>3. balanceOf'[Pool] >= balanceOf[Pool]
  BY <1>1, <1>2
<1>. QED
  BY <1>2, <1>3 DEF TokenInv, SupplyAccounted

(* No call of the token by anyone but the pool takes a coin from the pool. *)
LEMMA TokenKeepsInv ==
  ASSUME MarketTypeOK, TokenInv, NEW sender \in Users, TokenNext(sender)
  PROVE  TokenInv' /\ balanceOf'[Pool] >= balanceOf[Pool]
<1>1. sender \in Holders /\ sender # Pool /\ Pool \in Holders
  BY DEF Users
<1>2. \A n \in Amounts \cup Grants : n \in Nat
  OBVIOUS
<1>3. TokenInv /\ PoolGrantsNothing /\ allowance \in [Holders -> [Holders -> Nat]]
  BY DEF TokenInv
<1>4. ASSUME NEW to \in Holders, NEW value \in Amounts, Transfer(sender, to, value)
      PROVE  TokenInv' /\ balanceOf'[Pool] >= balanceOf[Pool]
  BY <1>1, <1>2, <1>3, <1>4, TransferKeepsSupply DEF Transfer, TokenInv, PoolGrantsNothing
<1>5. ASSUME NEW to \in Holders, NEW value \in Amounts, Mint(sender, to, value)
      PROVE  TokenInv' /\ balanceOf'[Pool] >= balanceOf[Pool]
  <2>1. /\ balanceOf \in [Holders -> Nat] /\ balanceOf[to] \in Nat /\ balanceOf[Pool] \in Nat
        /\ totalSupply \in Nat /\ totalEmitted \in Nat /\ totalBurned \in Nat
        /\ totalSupply = totalEmitted - totalBurned
        /\ value \in Nat /\ value <= MAX_SUPPLY - totalEmitted
    BY <1>2, <1>5 DEF TokenInv, SupplyAccounted, Mint, Room
  <2> DEFINE n == balanceOf[to] + value
  <2>2. balanceOf[to] <= totalSupply
    BY <2>1, BalanceSet
  <2>3. n \in Nat /\ n <= Greatest
    BY <2>1, <2>2
  <2>4. balanceOf' = [balanceOf EXCEPT ![to] = n]
    BY <1>5, <2>1, <2>3, WordFits DEF Mint
  <2> HIDE DEF n
  <2>5. balanceOf' \in [Holders -> Nat] /\ SumFunction(balanceOf') = totalSupply - balanceOf[to] + n
    BY <2>3, <2>4, BalanceSet
  <2>6. SumFunction(balanceOf') = totalSupply + value /\ balanceOf'[Pool] >= balanceOf[Pool]
    BY <2>1, <2>4, <2>5 DEF n
  <2>7. SupplyAccounted' /\ totalSupply' \in Nat /\ totalEmitted' \in Nat /\ totalBurned' \in Nat
    BY <1>5, <2>1, <2>6 DEF Mint, SupplyAccounted
  <2>. QED
    BY <1>3, <1>5, <2>5, <2>6, <2>7 DEF TokenInv, PoolGrantsNothing, Mint
<1>6. ASSUME NEW spender \in Holders, NEW value \in Grants, Approve(sender, spender, value)
      PROVE  TokenInv' /\ balanceOf'[Pool] >= balanceOf[Pool]
  <2>1. allowance' \in [Holders -> [Holders -> Nat]] /\ allowance'[Pool] = allowance[Pool]
    BY <1>1, <1>2, <1>3, <1>6 DEF Approve
  <2>. QED
    BY <1>3, <1>6, <2>1 DEF TokenInv, SupplyAccounted, PoolGrantsNothing, Approve
<1>7. ASSUME NEW from \in Holders, NEW to \in Holders, NEW value \in Amounts,
             TransferFrom(sender, from, to, value)
      PROVE  TokenInv' /\ balanceOf'[Pool] >= balanceOf[Pool]
  <2>0. Allows(from, sender, value) /\ allowance' = Spent(from, sender, value) /\ value \in Nat
    BY <1>2, <1>7 DEF TransferFrom
  <2>1. /\ allowance' \in [Holders -> [Holders -> Nat]] /\ (from = Pool => value = 0)
        /\ \A a \in Holders : allowance'[Pool][a] = 0
    BY <1>1, <1>3, <2>0, SpentKeepsGrants
  <2>. QED
    BY <1>2, <1>3, <1>7, <2>1, TransferKeepsSupply DEF TransferFrom, TokenInv, PoolGrantsNothing
<1>8. ASSUME NEW value \in Amounts, Burn(sender, value)
      PROVE  TokenInv' /\ balanceOf'[Pool] >= balanceOf[Pool]
  BY <1>1, <1>2, <1>3, <1>8, BurnedKeepsSupply DEF Burn, TokenInv, PoolGrantsNothing
<1>9. ASSUME NEW from \in Holders, NEW value \in Amounts, BurnFrom(sender, from, value)
      PROVE  TokenInv' /\ balanceOf'[Pool] >= balanceOf[Pool]
  <2>0. Allows(from, sender, value) /\ allowance' = Spent(from, sender, value) /\ value \in Nat
    BY <1>2, <1>9 DEF BurnFrom
  <2>1. /\ allowance' \in [Holders -> [Holders -> Nat]] /\ (from = Pool => value = 0)
        /\ \A a \in Holders : allowance'[Pool][a] = 0
    BY <1>1, <1>3, <2>0, SpentKeepsGrants
  <2>. QED
    BY <1>2, <1>3, <1>9, <2>1, BurnedKeepsSupply DEF BurnFrom, TokenInv, PoolGrantsNothing
<1>. QED
  BY <1>4, <1>5, <1>6, <1>7, <1>8, <1>9 DEF TokenNext
-----------------------------------------------------------------------------
LEMMA MarketParts ==
  PoolInv <=> /\ MarketTypeOK /\ TokenInv /\ SumFunction(wbtcOf) <= Greatest /\ PoolSolvent
BY DEF PoolInv, MarketTypeOK, TokenInv, HoldingsAccounted

(* In from a caller, out to a recipient, both through the pool's account.  *)
LEMMA ThroughThePool ==
  ASSUME NEW ledger \in [Holders -> Nat], SumFunction(ledger) <= Greatest,
         NEW sender \in Users, NEW to \in Holders, NEW in \in Nat, NEW given \in Nat,
         in <= ledger[sender], given <= ledger[Pool]
  PROVE  LET after == Moved(Moved(ledger, sender, Pool, in), Pool, to, given)
         IN  /\ after \in [Holders -> Nat] /\ SumFunction(after) = SumFunction(ledger)
             /\ after[Pool] >= ledger[Pool] + in - given
<1> DEFINE mid   == Moved(ledger, sender, Pool, in)
           after == Moved(mid, Pool, to, given)
<1>1. sender \in Holders /\ sender # Pool /\ Pool \in Holders
  BY DEF Users
<1>2. /\ mid \in [Holders -> Nat] /\ SumFunction(mid) = SumFunction(ledger)
      /\ mid[Pool] = ledger[Pool] + in
  <2>1. mid[Pool] = ledger[Pool] - (IF Pool = sender THEN in ELSE 0) + (IF Pool = Pool THEN in ELSE 0)
    BY <1>1, MovedKeepsTotal
  <2>2. mid \in [Holders -> Nat] /\ SumFunction(mid) = SumFunction(ledger)
    BY <1>1, MovedKeepsTotal
  <2>3. ledger[Pool] \in Nat
    BY <1>1
  <2>. QED
    BY <1>1, <2>1, <2>2, <2>3
<1> HIDE DEF mid
<1>3. SumFunction(mid) <= Greatest /\ given <= mid[Pool] /\ ledger[Pool] \in Nat
  BY <1>1, <1>2
<1>4. /\ after \in [Holders -> Nat] /\ SumFunction(after) = SumFunction(mid)
      /\ after[Pool] = mid[Pool] - (IF Pool = Pool THEN given ELSE 0) + (IF Pool = to THEN given ELSE 0)
  BY <1>1, <1>2, <1>3, MovedKeepsTotal
<1> HIDE DEF after
<1>5. after[Pool] >= ledger[Pool] + in - given
  BY <1>2, <1>3, <1>4
<1>. QED
  BY <1>2, <1>4, <1>5 DEF mid, after

(* A call of the pool that books no more than it took and no less than it  *)
(* paid, and whose shares still add up, keeps the invariant.               *)
LEMMA PayKeepsInv ==
  ASSUME PoolInv, NEW sender \in Users, NEW to \in Holders,
         NEW wbtcIn \in Nat, NEW ptpIn \in Nat, NEW wbtcOut \in Nat, NEW ptpOut \in Nat,
         CanPull(sender, wbtcIn, ptpIn), CanPush(wbtcOut, ptpOut),
         Pay(sender, wbtcIn, ptpIn, to, wbtcOut, ptpOut),
         reserveWbtc' \in Nat, reserveWbtc' <= reserveWbtc + wbtcIn - wbtcOut,
         reservePtp' \in Nat, reservePtp' <= reservePtp + ptpIn - ptpOut,
         sharesOf' \in [Holders \cup {Locked} -> Nat], totalShares' \in Nat,
         SumFunction(sharesOf') = totalShares',
         totalShares' > 0 =>
           sharesOf'[Locked] = MINIMUM_LIQUIDITY /\ reserveWbtc' > 0 /\ reservePtp' > 0
  PROVE  PoolInv'
<1>1. /\ TokenInv /\ MarketTypeOK /\ PoolSolvent /\ sender \in Holders /\ sender # Pool
      /\ Pool \in Holders
  BY MarketParts DEF Users
<1>2. /\ wbtcOf' \in [Holders -> Nat] /\ SumFunction(wbtcOf') <= Greatest
      /\ wbtcOf'[Pool] >= wbtcOf[Pool] + wbtcIn - wbtcOut
  <2>1. /\ wbtcOf \in [Holders -> Nat] /\ SumFunction(wbtcOf) <= Greatest
        /\ wbtcIn <= wbtcOf[sender] /\ wbtcOut <= wbtcOf[Pool]
    BY <1>1 DEF PoolInv, MarketTypeOK, CanPull, CanPush
  <2>. QED
    BY <2>1, ThroughThePool DEF Pay
<1>3. /\ balanceOf' \in [Holders -> Nat] /\ SumFunction(balanceOf') = SumFunction(balanceOf)
      /\ balanceOf'[Pool] >= balanceOf[Pool] + ptpIn - ptpOut
  <2>1. /\ balanceOf \in [Holders -> Nat] /\ SumFunction(balanceOf) <= Greatest
        /\ ptpIn <= balanceOf[sender] /\ ptpOut <= balanceOf[Pool]
    BY <1>1, SupplyFits DEF MarketTypeOK, CanPull, CanPush
  <2>. QED
    BY <2>1, ThroughThePool DEF Pay
<1>4. /\ allowance' \in [Holders -> [Holders -> Nat]]
      /\ \A a \in Holders : allowance'[Pool][a] = 0
  <2>1. Allows(sender, Pool, ptpIn) /\ PoolGrantsNothing
    BY DEF CanPull, PoolInv
  <2>. QED
    BY <1>1, <2>1, SpentKeepsGrants DEF Pay
<1>5. UNCHANGED <<totalSupply, totalEmitted, totalBurned>>
  BY DEF Pay
<1>6. MarketTypeOK'
  BY <1>1, <1>2, <1>3, <1>4, <1>5 DEF MarketTypeOK
<1>7. SupplyAccounted'
  BY <1>1, <1>3, <1>5 DEF TokenInv, SupplyAccounted
<1>8. wbtcOf'[Pool] >= reserveWbtc' /\ balanceOf'[Pool] >= reservePtp'
  <2>1. /\ wbtcOf[Pool] >= reserveWbtc /\ balanceOf[Pool] >= reservePtp
        /\ wbtcOf[Pool] \in Nat /\ balanceOf[Pool] \in Nat
        /\ wbtcOf'[Pool] \in Nat /\ balanceOf'[Pool] \in Nat
        /\ reserveWbtc \in Nat /\ reservePtp \in Nat
    BY <1>1, <1>2, <1>3 DEF PoolSolvent, MarketTypeOK
  <2>. QED
    BY <1>2, <1>3, <2>1
<1>. QED
  BY <1>2, <1>4, <1>6, <1>7, <1>8 DEF PoolInv, HoldingsAccounted, PoolSolvent, PoolGrantsNothing

(* Shares issued to an account, or taken from it.                          *)
LEMMA SharesSet ==
  ASSUME PoolInv, NEW a \in Holders, NEW n \in Nat
  PROVE  LET after == [sharesOf EXCEPT ![a] = n]
         IN  /\ after \in [Holders \cup {Locked} -> Nat] /\ after[Locked] = sharesOf[Locked]
             /\ SumFunction(after) = totalShares - sharesOf[a] + n
             /\ sharesOf[a] + sharesOf[Locked] <= totalShares
<1> DEFINE S     == Holders \cup {Locked}
           after == [sharesOf EXCEPT ![a] = n]
           gone  == [sharesOf EXCEPT ![a] = 0]
<1>1. /\ sharesOf \in [S -> Nat] /\ sharesOf \in [S -> Int] /\ a \in S /\ Locked \in S /\ a # Locked
      /\ totalShares \in Nat /\ SumFunction(sharesOf) = totalShares
      /\ sharesOf[a] \in Nat /\ sharesOf[Locked] \in Nat
  BY DEF PoolInv, MarketTypeOK, HoldingsAccounted, PoolSolvent
<1>2. IsFiniteSet(S)
  BY FS_AddElement
<1>3. /\ after \in [S -> Nat] /\ after \in [S -> Int] /\ after[a] = n
      /\ \A b \in S : b # a => after[b] = sharesOf[b]
  BY <1>1
<1>4. /\ gone \in [S -> Nat] /\ gone \in [S -> Int] /\ gone[a] = 0
      /\ \A b \in S : b # a => gone[b] = sharesOf[b]
  BY <1>1
<1> HIDE DEF after, gone, S
<1>5. SumFunction(after) = SumFunction(sharesOf) - sharesOf[a] + after[a]
  BY <1>1, <1>2, <1>3, SumUpdate
<1>6. SumFunction(gone) = SumFunction(sharesOf) - sharesOf[a] + gone[a]
  BY <1>1, <1>2, <1>4, SumUpdate
<1>7. gone[Locked] <= SumFunction(gone)
  BY <1>1, <1>2, <1>4, SumNat
<1>8. sharesOf[a] + sharesOf[Locked] <= totalShares
  BY <1>1, <1>4, <1>6, <1>7
<1>. QED
  BY <1>1, <1>3, <1>5, <1>8 DEF after, S
-----------------------------------------------------------------------------
(* The value a share stands for, over one step.                            *)
ValueKept ==
  totalShares > 0 =>
    reserveWbtc' * reservePtp' * totalShares * totalShares
      >= reserveWbtc * reservePtp * totalShares' * totalShares'

(* _sqrt has an answer for every number.                                   *)
LEMMA SqrtNat == ASSUME NEW y \in Nat PROVE Sqrt(y) \in Nat
<1>1. \E z \in 0 .. y : z * z <= y /\ (z + 1) * (z + 1) > y
  BY SquareRoot
<1>2. Sqrt(y) \in 0 .. y
  BY <1>1 DEF Sqrt
<1>. QED
  BY <1>2

LEMMA OpenKeepsInv ==
  ASSUME PoolInv, NEW sender \in Users, NEW to \in Holders, NEW wbtcIn \in Nat \ {0},
         NEW ptpIn \in Nat \ {0}, NEW minShares \in Nat, Open(sender, wbtcIn, ptpIn, minShares, to)
  PROVE  PoolInv' /\ ValueKept
<1> DEFINE S  == Holders \cup {Locked}
           s0 == Sqrt(wbtcIn * ptpIn)
           M  == MINIMUM_LIQUIDITY
           locked == [sharesOf EXCEPT ![Locked] = M]
           after == [locked EXCEPT ![to] = s0 - M]
<1>1. s0 \in Nat
  BY SqrtNat, ProductNat
<1>2. /\ totalShares = 0 /\ s0 > M /\ M \in Nat /\ totalShares' = s0
      /\ CanPull(sender, wbtcIn, ptpIn) /\ Pay(sender, wbtcIn, ptpIn, to, 0, 0)
      /\ reserveWbtc' = reserveWbtc + wbtcIn /\ reservePtp' = reservePtp + ptpIn
      /\ sharesOf' = [sharesOf EXCEPT ![Locked] = M, ![to] = @ + s0 - M]
  BY DEF Open
<1>3. /\ sharesOf \in [S -> Nat] /\ sharesOf \in [S -> Int] /\ SumFunction(sharesOf) = 0
      /\ reserveWbtc \in Nat /\ reservePtp \in Nat
      /\ to \in S /\ Locked \in S /\ to # Locked
  BY <1>2 DEF PoolInv, MarketTypeOK, HoldingsAccounted, PoolSolvent
<1>4. IsFiniteSet(S)
  BY FS_AddElement
<1> HIDE DEF S, s0
<1>5. sharesOf[to] = 0 /\ sharesOf[Locked] = 0
  <2>1. /\ sharesOf[to] <= 0 /\ sharesOf[Locked] <= 0
        /\ sharesOf[to] \in Nat /\ sharesOf[Locked] \in Nat
    BY <1>3, <1>4, SumNat
  <2>. QED
    BY <2>1
<1>6. /\ locked \in [S -> Nat] /\ locked \in [S -> Int] /\ locked[Locked] = M /\ locked[to] = 0
      /\ \A b \in S : b # Locked => locked[b] = sharesOf[b]
  BY <1>2, <1>3, <1>5
<1>7. sharesOf' = after
  BY <1>1, <1>2, <1>3, <1>5
<1> HIDE DEF locked
<1>8. /\ after \in [S -> Nat] /\ after \in [S -> Int] /\ after[to] = s0 - M
      /\ after[Locked] = M /\ \A b \in S : b # to => after[b] = locked[b]
  BY <1>1, <1>2, <1>3, <1>6
<1> HIDE DEF after
<1>9. SumFunction(locked) = SumFunction(sharesOf) - sharesOf[Locked] + locked[Locked]
  BY <1>3, <1>4, <1>6, SumUpdate
<1>10. SumFunction(after) = SumFunction(locked) - locked[to] + after[to]
  <2>1. to \in S /\ locked \in [S -> Int] /\ after \in [S -> Int]
    BY <1>3, <1>6, <1>8
  <2>2. \A b \in S : b # to => after[b] = locked[b]
    BY <1>8
  <2>. QED
    BY <1>4, <2>1, <2>2, SumUpdate
<1>11. SumFunction(after) = s0
  BY <1>1, <1>2, <1>3, <1>5, <1>6, <1>8, <1>9, <1>10
<1>12. CanPush(0, 0)
  BY DEF PoolInv, MarketTypeOK, CanPush
<1>13. /\ reserveWbtc' \in Nat /\ reserveWbtc' <= reserveWbtc + wbtcIn - 0 /\ reserveWbtc' > 0
       /\ reservePtp' \in Nat /\ reservePtp' <= reservePtp + ptpIn - 0 /\ reservePtp' > 0
  BY <1>2, <1>3
<1>14. PoolInv'
  BY <1>1, <1>2, <1>7, <1>8, <1>11, <1>12, <1>13, PayKeepsInv DEF S
<1>. QED
  BY <1>2, <1>14 DEF ValueKept

LEMMA AddKeepsInv ==
  ASSUME PoolInv, NEW sender \in Users, NEW to \in Holders, NEW wbtcIn \in Nat \ {0},
         NEW ptpIn \in Nat \ {0}, NEW minShares \in Nat, AddLiquidity(sender, wbtcIn, ptpIn, minShares, to)
  PROVE  PoolInv' /\ ValueKept
<1> DEFINE T  == totalShares
           byWbtc == (wbtcIn * T) \div reserveWbtc
           byPtp  == (ptpIn * T) \div reservePtp
           m  == IF byWbtc < byPtp THEN byWbtc ELSE byPtp
           uw == Used(m, reserveWbtc)
           up == Used(m, reservePtp)
<1>1. /\ T > 0 /\ T \in Nat \ {0} /\ T \in Nat /\ reserveWbtc \in Nat \ {0} /\ reservePtp \in Nat \ {0}
      /\ sharesOf \in [Holders \cup {Locked} -> Nat] /\ sharesOf[to] \in Nat
      /\ sharesOf[Locked] = MINIMUM_LIQUIDITY
  BY DEF PoolInv, MarketTypeOK, HoldingsAccounted, PoolSolvent, AddLiquidity
<1>2. /\ m > 0 /\ CanPull(sender, uw, up) /\ Pay(sender, uw, up, to, 0, 0)
      /\ sharesOf' = [sharesOf EXCEPT ![to] = @ + m] /\ totalShares' = T + m
      /\ reserveWbtc' = reserveWbtc + uw /\ reservePtp' = reservePtp + up
  BY DEF AddLiquidity, Booked
<1>3. m \in Nat
  <2>1. byWbtc \in Nat /\ byPtp \in Nat
    BY <1>1, ProductNat, QuotientDown
  <2>. QED
    BY <2>1
<1> HIDE DEF m, T
<1>4. /\ uw \in Nat /\ m * reserveWbtc <= T * uw
      /\ up \in Nat /\ m * reservePtp <= T * up
  <2>1. m * reserveWbtc \in Nat /\ m * reservePtp \in Nat
    BY <1>1, <1>3, ProductNat
  <2>. QED
    BY <1>1, <2>1, QuotientUp DEF Used, CeilDiv, T
<1> HIDE DEF uw, up
<1> DEFINE n == sharesOf[to] + m
<1>5. n \in Nat /\ sharesOf' = [sharesOf EXCEPT ![to] = n]
  BY <1>1, <1>2, <1>3
<1> HIDE DEF n
<1>6. /\ sharesOf' \in [Holders \cup {Locked} -> Nat] /\ sharesOf'[Locked] = sharesOf[Locked]
      /\ SumFunction(sharesOf') = totalShares - sharesOf[to] + n
  BY <1>5, SharesSet
<1>7. SumFunction(sharesOf') = totalShares' /\ totalShares' \in Nat
  BY <1>1, <1>2, <1>3, <1>6 DEF n, T
<1>8. CanPush(0, 0)
  BY DEF PoolInv, MarketTypeOK, CanPush
<1>9. /\ reserveWbtc' \in Nat /\ reserveWbtc' <= reserveWbtc + uw - 0 /\ reserveWbtc' > 0
      /\ reservePtp' \in Nat /\ reservePtp' <= reservePtp + up - 0 /\ reservePtp' > 0
  BY <1>1, <1>2, <1>4
<1>10. PoolInv'
  BY <1>1, <1>2, <1>4, <1>6, <1>7, <1>8, <1>9, PayKeepsInv
<1>11. ASSUME NEW r \in Nat, NEW u \in Nat, m * r <= T * u PROVE r * (T + m) <= T * (r + u)
  <2>1. r * (T + m) = T * r + m * r /\ T * (r + u) = T * r + T * u
    BY <1>1, <1>3
  <2>2. T * r \in Nat /\ m * r \in Nat /\ T * u \in Nat
    BY <1>1, <1>3, ProductNat
  <2>. QED
    BY <1>11, <2>1, <2>2
<1>12. ValueKept
  <2>1. /\ reserveWbtc * (T + m) <= T * (reserveWbtc + uw)
        /\ reservePtp * (T + m) <= T * (reservePtp + up)
    BY <1>1, <1>4, <1>11
  <2>2. /\ reserveWbtc * totalShares' <= totalShares * reserveWbtc'
        /\ reservePtp * totalShares' <= totalShares * reservePtp'
    BY <1>2, <2>1 DEF T
  <2>3. totalShares \in Nat /\ reserveWbtc \in Nat /\ reservePtp \in Nat
    BY <1>1 DEF T
  <2>. QED
    BY <1>7, <1>9, <2>2, <2>3, BothSidesKept DEF ValueKept
<1>. QED
  BY <1>10, <1>12

LEMMA RemoveKeepsInv ==
  ASSUME PoolInv, NEW sender \in Users, NEW to \in Holders, NEW shares \in Nat,
         NEW minWbtc \in Nat, NEW minPtp \in Nat, RemoveLiquidity(sender, shares, minWbtc, minPtp, to)
  PROVE  PoolInv' /\ ValueKept
<1> DEFINE T == totalShares
           ow == (shares * reserveWbtc) \div totalShares
           op == (shares * reservePtp) \div totalShares
           n == sharesOf[sender] - shares
<1>1. /\ shares > 0 /\ sharesOf[sender] >= shares /\ CanPush(ow, op)
      /\ sharesOf' = [sharesOf EXCEPT ![sender] = n] /\ totalShares' = T - shares
      /\ reserveWbtc' = reserveWbtc - ow /\ reservePtp' = reservePtp - op
      /\ Pay(sender, 0, 0, to, ow, op)
  BY DEF RemoveLiquidity
<1>2. /\ T \in Nat /\ reserveWbtc \in Nat /\ reservePtp \in Nat /\ sender \in Holders
      /\ sharesOf \in [Holders \cup {Locked} -> Nat] /\ sharesOf[sender] \in Nat
      /\ sharesOf[Locked] \in Nat
      /\ T > 0 => /\ sharesOf[Locked] = MINIMUM_LIQUIDITY
                  /\ reserveWbtc > 0 /\ reservePtp > 0
  BY DEF PoolInv, MarketTypeOK, HoldingsAccounted, PoolSolvent, Users
<1>3. n \in Nat
  BY <1>1, <1>2
<1>4. sharesOf[sender] + sharesOf[Locked] <= T
  BY <1>2, SharesSet
<1>5. T \in Nat \ {0} /\ shares <= T
  BY <1>1, <1>2, <1>4
<1>6. /\ ow \in Nat /\ ow <= reserveWbtc /\ (shares < T => ow < reserveWbtc)
      /\ reserveWbtc * (T - shares) <= T * (reserveWbtc - ow)
  BY <1>2, <1>5, PartOfWhole
<1>7. /\ op \in Nat /\ op <= reservePtp /\ (shares < T => op < reservePtp)
      /\ reservePtp * (T - shares) <= T * (reservePtp - op)
  BY <1>2, <1>5, PartOfWhole
<1> HIDE DEF ow, op, n
<1>8. /\ sharesOf' \in [Holders \cup {Locked} -> Nat] /\ sharesOf'[Locked] = sharesOf[Locked]
      /\ SumFunction(sharesOf') = T - sharesOf[sender] + n
  BY <1>1, <1>2, <1>3, SharesSet
<1>9. SumFunction(sharesOf') = totalShares' /\ totalShares' \in Nat
  BY <1>1, <1>2, <1>5, <1>8 DEF n
<1>10. /\ reserveWbtc' \in Nat /\ reserveWbtc' <= reserveWbtc + 0 - ow
       /\ reservePtp' \in Nat /\ reservePtp' <= reservePtp + 0 - op
       /\ totalShares' > 0 => reserveWbtc' > 0 /\ reservePtp' > 0
  BY <1>1, <1>2, <1>5, <1>6, <1>7
<1>11. CanPull(sender, 0, 0)
  BY <1>2 DEF PoolInv, MarketTypeOK, CanPull, Allows
<1>12. totalShares' > 0 => sharesOf'[Locked] = MINIMUM_LIQUIDITY
  BY <1>1, <1>2, <1>5, <1>8
<1>13. PoolInv'
  BY <1>1, <1>6, <1>7, <1>8, <1>9, <1>10, <1>11, <1>12, PayKeepsInv
<1>14. ValueKept
  <2>1. /\ reserveWbtc * totalShares' <= totalShares * reserveWbtc'
        /\ reservePtp * totalShares' <= totalShares * reservePtp'
    BY <1>1, <1>6, <1>7
  <2>. QED
    BY <1>2, <1>9, <1>10, <2>1, BothSidesKept DEF ValueKept
<1>. QED
  BY <1>13, <1>14

(* Shares left alone and a product no smaller.                             *)
LEMMA SameSharesKeepValue ==
  ASSUME reserveWbtc \in Nat, reservePtp \in Nat, reserveWbtc' \in Nat, reservePtp' \in Nat,
         totalShares \in Nat, totalShares' = totalShares,
         reserveWbtc * reservePtp <= reserveWbtc' * reservePtp'
  PROVE  ValueKept
<1> DEFINE k  == reserveWbtc * reservePtp
           k2 == reserveWbtc' * reservePtp'
<1>1. k \in Nat /\ k2 \in Nat /\ k <= k2
  BY ProductNat
<1> HIDE DEF k, k2
<1>2. k * totalShares <= k2 * totalShares /\ k * totalShares \in Nat /\ k2 * totalShares \in Nat
  BY <1>1, ProductNat, ProductMonotonic
<1>3. (k * totalShares) * totalShares <= (k2 * totalShares) * totalShares
  BY <1>2, ProductMonotonic
<1>4. (k * totalShares) * totalShares \in Nat /\ (k2 * totalShares) * totalShares \in Nat
  BY <1>2, ProductNat
<1>. QED
  BY <1>3, <1>4 DEF ValueKept, k, k2

(* A trade takes less than the side it takes from, and the product of the  *)
(* reserves is no smaller after it.                                        *)
LEMMA TradeIsBounded ==
  ASSUME NEW rIn \in Nat \ {0}, NEW rOut \in Nat \ {0}, NEW amountIn \in Nat
  PROVE  LET given == AmountOut(amountIn, rIn, rOut)
         IN  /\ given \in Nat /\ given < rOut
             /\ rIn * rOut <= (rIn + amountIn) * (rOut - given)
<1> DEFINE x == amountIn * (Bps - feeBps)
<1>1. x \in Nat /\ x <= amountIn * Bps /\ Bps \in Nat \ {0}
  <2>1. Bps - feeBps \in Nat /\ Bps - feeBps <= Bps /\ Bps \in Nat \ {0}
    OBVIOUS
  <2>. QED
    BY <2>1, ProductNat, ProductMonotonic
<1> HIDE DEF x
<1>2. AmountOut(amountIn, rIn, rOut) = (rOut * x) \div (rIn * Bps + x)
  BY DEF AmountOut, x
<1>. QED
  BY <1>1, <1>2, TradeKeepsProduct

LEMMA SellKeepsInv ==
  ASSUME PoolInv, NEW sender \in Users, NEW to \in Holders, NEW amountIn \in Nat, NEW minOut \in Nat,
         SellPtp(sender, amountIn, minOut, to)
  PROVE  PoolInv' /\ ValueKept
<1> DEFINE given == AmountOut(amountIn, reservePtp, reserveWbtc)
<1>1. /\ reservePtp > 0 /\ reserveWbtc > 0 /\ CanPull(sender, 0, amountIn) /\ CanPush(given, 0)
      /\ reservePtp' = reservePtp + amountIn /\ reserveWbtc' = reserveWbtc - given
      /\ Pay(sender, 0, amountIn, to, given, 0) /\ sharesOf' = sharesOf /\ totalShares' = totalShares
  BY DEF SellPtp
<1>2. /\ reserveWbtc \in Nat \ {0} /\ reservePtp \in Nat \ {0}
      /\ sharesOf \in [Holders \cup {Locked} -> Nat] /\ totalShares \in Nat
      /\ SumFunction(sharesOf) = totalShares
      /\ totalShares > 0 => sharesOf[Locked] = MINIMUM_LIQUIDITY
  BY <1>1 DEF PoolInv, MarketTypeOK, HoldingsAccounted, PoolSolvent
<1>3. /\ given \in Nat /\ given < reserveWbtc
      /\ reservePtp * reserveWbtc <= (reservePtp + amountIn) * (reserveWbtc - given)
  BY <1>2, TradeIsBounded
<1> HIDE DEF given
<1>4. /\ reserveWbtc' \in Nat /\ reserveWbtc' <= reserveWbtc + 0 - given /\ reserveWbtc' > 0
      /\ reservePtp' \in Nat /\ reservePtp' <= reservePtp + amountIn - 0 /\ reservePtp' > 0
  BY <1>1, <1>2, <1>3
<1>5. PoolInv'
  BY <1>1, <1>2, <1>3, <1>4, PayKeepsInv
<1>6. ValueKept
  <2>1. reserveWbtc * reservePtp <= reserveWbtc' * reservePtp'
    BY <1>1, <1>2, <1>3, <1>4
  <2>. QED
    BY <1>1, <1>2, <1>4, <2>1, SameSharesKeepValue
<1>. QED
  BY <1>5, <1>6

LEMMA BuyKeepsInv ==
  ASSUME PoolInv, NEW sender \in Users, NEW to \in Holders, NEW amountIn \in Nat, NEW minOut \in Nat,
         BuyPtp(sender, amountIn, minOut, to)
  PROVE  PoolInv' /\ ValueKept
<1> DEFINE given == AmountOut(amountIn, reserveWbtc, reservePtp)
<1>1. /\ reservePtp > 0 /\ reserveWbtc > 0 /\ CanPull(sender, amountIn, 0) /\ CanPush(0, given)
      /\ reserveWbtc' = reserveWbtc + amountIn /\ reservePtp' = reservePtp - given
      /\ Pay(sender, amountIn, 0, to, 0, given) /\ sharesOf' = sharesOf /\ totalShares' = totalShares
  BY DEF BuyPtp
<1>2. /\ reserveWbtc \in Nat \ {0} /\ reservePtp \in Nat \ {0}
      /\ sharesOf \in [Holders \cup {Locked} -> Nat] /\ totalShares \in Nat
      /\ SumFunction(sharesOf) = totalShares
      /\ totalShares > 0 => sharesOf[Locked] = MINIMUM_LIQUIDITY
  BY <1>1 DEF PoolInv, MarketTypeOK, HoldingsAccounted, PoolSolvent
<1>3. /\ given \in Nat /\ given < reservePtp
      /\ reserveWbtc * reservePtp <= (reserveWbtc + amountIn) * (reservePtp - given)
  BY <1>2, TradeIsBounded
<1> HIDE DEF given
<1>4. /\ reserveWbtc' \in Nat /\ reserveWbtc' <= reserveWbtc + amountIn - 0 /\ reserveWbtc' > 0
      /\ reservePtp' \in Nat /\ reservePtp' <= reservePtp + 0 - given /\ reservePtp' > 0
  BY <1>1, <1>2, <1>3
<1>5. PoolInv'
  BY <1>1, <1>2, <1>3, <1>4, PayKeepsInv
<1>6. ValueKept
  <2>1. reserveWbtc * reservePtp <= reserveWbtc' * reservePtp'
    BY <1>1, <1>2, <1>3, <1>4
  <2>. QED
    BY <1>1, <1>2, <1>4, <2>1, SameSharesKeepValue
<1>. QED
  BY <1>5, <1>6

(* Coins sent past the pool's functions leave its books alone.             *)
LEMMA SendKeepsInv ==
  ASSUME PoolInv, NEW sender \in Users, NEW to \in Holders, NEW value \in Nat,
         Send(sender, to, value)
  PROVE  PoolInv' /\ ValueKept
<1>1. /\ sender \in Holders /\ sender # Pool /\ Pool \in Holders
      /\ wbtcOf \in [Holders -> Nat] /\ SumFunction(wbtcOf) <= Greatest
      /\ value <= wbtcOf[sender] /\ wbtcOf' = Moved(wbtcOf, sender, to, value)
      /\ UNCHANGED <<tokenVars, poolVars>>
      /\ wbtcOf[Pool] >= reserveWbtc /\ wbtcOf[Pool] \in Nat /\ reserveWbtc \in Nat
  BY DEF PoolInv, MarketTypeOK, HoldingsAccounted, PoolSolvent, Send, Users
<1>2. /\ wbtcOf' \in [Holders -> Nat] /\ SumFunction(wbtcOf') = SumFunction(wbtcOf)
      /\ wbtcOf'[Pool] =
           wbtcOf[Pool] - (IF Pool = sender THEN value ELSE 0) + (IF Pool = to THEN value ELSE 0)
  BY <1>1, MovedKeepsTotal
<1>3. wbtcOf'[Pool] >= reserveWbtc
  BY <1>1, <1>2
<1>4. PoolInv'
  BY <1>1, <1>2, <1>3 DEF PoolInv, MarketTypeOK, PoolGrantsNothing, HoldingsAccounted,
     SupplyAccounted, PoolSolvent, tokenVars, poolVars
<1>5. ValueKept
  <2>1. /\ reserveWbtc' = reserveWbtc /\ reservePtp' = reservePtp /\ totalShares' = totalShares
        /\ reserveWbtc \in Nat /\ reservePtp \in Nat /\ totalShares \in Nat
    BY <1>1 DEF PoolInv, MarketTypeOK, poolVars
  <2>2. reserveWbtc * reservePtp <= reserveWbtc' * reservePtp'
    BY <2>1, ProductNat
  <2>. QED
    BY <2>1, <2>2, SameSharesKeepValue
<1>. QED
  BY <1>4, <1>5

(* A call of the token leaves the pool's books alone.                      *)
LEMMA TokenCallKeepsInv ==
  ASSUME PoolInv, NEW sender \in Users, TokenNext(sender), UNCHANGED <<wbtcOf, poolVars>>
  PROVE  PoolInv' /\ ValueKept
<1>1. MarketTypeOK /\ TokenInv /\ PoolSolvent
  BY MarketParts
<1>2. TokenInv' /\ balanceOf'[Pool] >= balanceOf[Pool]
  BY <1>1, TokenKeepsInv
<1>3. /\ reserveWbtc' = reserveWbtc /\ reservePtp' = reservePtp /\ totalShares' = totalShares
      /\ sharesOf' = sharesOf /\ wbtcOf' = wbtcOf
      /\ reserveWbtc \in Nat /\ reservePtp \in Nat /\ totalShares \in Nat
  BY <1>1 DEF MarketTypeOK, poolVars
<1>4. balanceOf'[Pool] >= reservePtp'
  <2>1. balanceOf[Pool] >= reservePtp /\ balanceOf[Pool] \in Nat /\ balanceOf'[Pool] \in Nat
    BY <1>1, <1>2 DEF PoolSolvent, MarketTypeOK, TokenInv
  <2>. QED
    BY <1>2, <1>3, <2>1
<1>5. PoolInv'
  BY <1>1, <1>2, <1>3, <1>4 DEF PoolInv, TokenInv, MarketTypeOK, HoldingsAccounted, PoolSolvent
<1>6. reserveWbtc * reservePtp <= reserveWbtc' * reservePtp'
  BY <1>3, ProductNat
<1>. QED
  BY <1>3, <1>5, <1>6, SameSharesKeepValue

LEMMA PoolInvInit == ASSUME PoolInit PROVE PoolInv
<1>1. /\ MarketTypeOK /\ PoolGrantsNothing /\ wbtcOf = BtcGenesis
      /\ balanceOf \in [Holders -> Int] /\ \A a \in Holders : balanceOf[a] = 0
      /\ sharesOf \in [Holders \cup {Locked} -> Int]
      /\ \A a \in Holders \cup {Locked} : sharesOf[a] = 0
  BY DEF PoolInit, TokenInit, MarketTypeOK, PoolGrantsNothing, BtcGenesis
<1>2. IsFiniteSet(Holders \cup {Locked})
  BY FS_AddElement
<1>3. SumFunction(balanceOf) = 0
  BY <1>1, SumZero
<1>4. SumFunction(sharesOf) = 0
  BY <1>1, <1>2, SumZero
<1>5. SumFunction(wbtcOf) <= Greatest
  BY <1>1
<1>6. PoolSolvent /\ SupplyAccounted
  BY <1>1, <1>3, <1>4 DEF PoolInit, TokenInit, PoolSolvent, SupplyAccounted, MarketTypeOK
<1>. QED
  BY <1>1, <1>5, <1>6 DEF PoolInv, HoldingsAccounted

LEMMA PoolInvNext == ASSUME PoolInv, [MarketNext]_marketVars PROVE PoolInv' /\ [ValueKept]_marketVars
<1>1. CASE UNCHANGED marketVars
  <2>1. PoolInv'
    BY <1>1 DEF marketVars, tokenVars, poolVars, PoolInv, MarketTypeOK, PoolGrantsNothing,
       HoldingsAccounted, SupplyAccounted, PoolSolvent
  <2>. QED
    BY <1>1, <2>1
<1>2. CASE MarketNext
  <2>1. \A v \in Amounts \cup Minima : v \in Nat
    OBVIOUS
  <2>2. ASSUME NEW sender \in Users, PoolNext(sender) PROVE PoolInv' /\ ValueKept
    <3>1. PICK to \in Holders :
            \/ \E wbtc, ptp \in Amounts \ {0}, min \in Minima :
                 Open(sender, wbtc, ptp, min, to) \/ AddLiquidity(sender, wbtc, ptp, min, to)
            \/ \E shares \in Amounts, minWbtc, minPtp \in Minima :
                 RemoveLiquidity(sender, shares, minWbtc, minPtp, to)
            \/ \E amount \in Amounts, min \in Minima :
                 SellPtp(sender, amount, min, to) \/ BuyPtp(sender, amount, min, to)
      BY <2>2 DEF PoolNext
    <3>2. CASE \E wbtc, ptp \in Amounts \ {0}, min \in Minima :
                 Open(sender, wbtc, ptp, min, to) \/ AddLiquidity(sender, wbtc, ptp, min, to)
      BY <2>1, <3>2, OpenKeepsInv, AddKeepsInv
    <3>3. CASE \E shares \in Amounts, minWbtc, minPtp \in Minima :
                 RemoveLiquidity(sender, shares, minWbtc, minPtp, to)
      BY <2>1, <3>3, RemoveKeepsInv
    <3>4. CASE \E amount \in Amounts, min \in Minima :
                 SellPtp(sender, amount, min, to) \/ BuyPtp(sender, amount, min, to)
      BY <2>1, <3>4, SellKeepsInv, BuyKeepsInv
    <3>. QED
      BY <3>1, <3>2, <3>3, <3>4
  <2>3. ASSUME NEW sender \in Users, NEW to \in Holders, NEW v \in Amounts, Send(sender, to, v)
        PROVE  PoolInv' /\ ValueKept
    BY <2>1, <2>3, SendKeepsInv
  <2>4. ASSUME NEW sender \in Users, TokenNext(sender), UNCHANGED <<wbtcOf, poolVars>>
        PROVE  PoolInv' /\ ValueKept
    BY <2>4, TokenCallKeepsInv
  <2>. QED
    BY <1>2, <2>2, <2>3, <2>4 DEF MarketNext, Call
<1>. QED
  BY <1>1, <1>2

LEMMA PoolInvariance == MarketSpec => []PoolInv
<1>1. PoolInit => PoolInv
  BY PoolInvInit
<1>2. PoolInv /\ [MarketNext]_marketVars => PoolInv'
  BY PoolInvNext
<1>. QED
  BY <1>1, <1>2, PTL DEF MarketSpec

(* Whose everything is, however many accounts and whatever they call: the  *)
(* coins of the accounts add up to the supply, emission stays under its    *)
(* cap however much was burned, no balance ever wraps, and the pool holds  *)
(* what it booked and owes its shareholders.                               *)
THEOREM EveryCoinIsAccounted == MarketSpec => []HoldingsAccounted
<1>1. PoolInv => HoldingsAccounted
  BY DEF PoolInv
<1>. QED
  BY <1>1, PoolInvariance, PTL

(* Rounding favours the pool: no deposit, withdrawal or trade takes value  *)
(* from a share, at any reserves and any fee.                              *)
THEOREM SharesKeepTheirValue == MarketSpec => ShareValueNeverFalls
<1>1. PoolInv /\ [MarketNext]_marketVars =>
        [totalShares > 0 =>
           reserveWbtc' * reservePtp' * totalShares * totalShares
             >= reserveWbtc * reservePtp * totalShares' * totalShares']_marketVars
  BY PoolInvNext DEF ValueKept
<1>. QED
  BY <1>1, PoolInvariance, PTL DEF MarketSpec, ShareValueNeverFalls
-----------------------------------------------------------------------------
(***************************************************************************)
(* That a root commits: for any contents, digests of trees among them, and *)
(* lists of any length.  A tree is closed downwards: a pair in it was made *)
(* of two digests in it, and a leaf in it is a member's.  So whatever      *)
(* climbs to the root began at a member, and of two lists with one root    *)
(* each has every leaf of the other, which for leaves that carry their     *)
(* place makes them one list.                                              *)
(***************************************************************************)

(* The domain bytes keep the kinds of digest apart.                        *)
LEMMA DigestsApart ==
  ASSUME NEW x, NEW y, NEW c, NEW d, NEW i, NEW j
  PROVE  /\ TagLeaf(c) # HashPair(x, y) /\ HashPair(x, y) = HashPair(y, x)
         /\ TagLeaf(c) = TagLeaf(d) => c = d
         /\ EmptyRoot # TagLeaf(c) /\ EmptyRoot # HashPair(x, y)
         /\ PositionalLeaf(i, c) = PositionalLeaf(j, d) => i = j /\ c = d
<1>1. {x, y} = {y, x} /\ "leaf" # "node" /\ "empty" # "leaf" /\ "empty" # "node"
  OBVIOUS
<1> QED BY <1>1 DEF TagLeaf, HashPair, EmptyRoot, PositionalLeaf

LEMMA PairIsOf ==
  ASSUME NEW x, NEW y, NEW v, NEW w, HashPair(x, y) = HashPair(v, w)
  PROVE  x \in {v, w} /\ y \in {v, w}
<1>1. {x, y} = {v, w}
  BY DEF HashPair
<1> QED BY <1>1

(* A row of k digests.                                                     *)
Row(s, k) == k \in Nat \ {0} /\ DOMAIN s = 1 .. k /\ Len(s) = k

LEMMA RowIs ==
  ASSUME NEW k \in Nat \ {0}, NEW s, s = [i \in 1 .. k |-> s[i]]
  PROVE  Row(s, k)
<1> DEFINE E == {s[i] : i \in 1 .. k}
<1>1. s \in [1 .. k -> E]
  OBVIOUS
<1> HIDE DEF E
<1>2. s \in Seq(E) /\ Len(s) = k
  BY <1>1
<1> QED BY <1>1, <1>2 DEF Row

(* What rises from a row, and from where.                                  *)
Half(k) == (k + 1) \div 2

LEMMA AboveIs ==
  ASSUME NEW s, NEW k, Row(s, k)
  PROVE  /\ Row(Above(s), Half(k)) /\ (k > 1 => Half(k) < k) /\ (k = 1 => Half(k) = 1)
         /\ \A i \in 1 .. Half(k) :
              \/ 2 * i \in 1 .. k /\ 2 * i - 1 \in 1 .. k /\ Above(s)[i] = HashPair(s[2 * i - 1], s[2 * i])
              \/ 2 * i - 1 = k /\ Above(s)[i] = s[k]
         /\ \A j \in 1 .. k : Half(j) \in 1 .. Half(k) /\ j \in {2 * Half(j) - 1, 2 * Half(j)}
<1>1. k \in Nat \ {0} /\ Len(s) = k
  BY DEF Row
<1>2. \A j \in 1 .. k : Half(j) \in 1 .. Half(k) /\ j \in {2 * Half(j) - 1, 2 * Half(j)}
  BY <1>1 DEF Half
<1>3. Half(k) \in Nat \ {0} /\ (k > 1 => Half(k) < k) /\ (k = 1 => Half(k) = 1)
  BY <1>1 DEF Half
<1>4. Above(s) = [i \in 1 .. Half(k) |-> IF 2 * i <= k THEN HashPair(s[2 * i - 1], s[2 * i]) ELSE s[2 * i - 1]]
  BY <1>1 DEF Above, Half
<1>5. Row(Above(s), Half(k))
  <2>1. Above(s) = [i \in 1 .. Half(k) |-> Above(s)[i]]
    BY <1>4
  <2> QED BY <1>3, <2>1, RowIs
<1>6. ASSUME NEW i \in 1 .. Half(k)
      PROVE  \/ 2 * i \in 1 .. k /\ 2 * i - 1 \in 1 .. k /\ Above(s)[i] = HashPair(s[2 * i - 1], s[2 * i])
             \/ 2 * i - 1 = k /\ Above(s)[i] = s[k]
  <2>1. Above(s)[i] = IF 2 * i <= k THEN HashPair(s[2 * i - 1], s[2 * i]) ELSE s[2 * i - 1]
    BY <1>4
  <2>2. 2 * i - 1 <= k /\ i >= 1
    BY <1>1 DEF Half
  <2>3. CASE 2 * i <= k
    BY <1>1, <2>1, <2>2, <2>3
  <2>4. CASE 2 * i > k
    <3>1. 2 * i - 1 = k /\ ~(2 * i <= k)
      BY <1>1, <2>2, <2>4
    <3> QED BY <2>1, <3>1
  <2> QED BY <1>1, <2>3, <2>4
<1> QED BY <1>2, <1>3, <1>5, <1>6

(* The recursion of buildTree has a solution of any height.                *)
Leaves(list) == [i \in DOMAIN list |-> TagLeaf(list[i])]

IsTree(list, n, g) == g = [m \in 0 .. n |-> IF m = 0 THEN Leaves(list) ELSE Above(g[m - 1])]

LEMMA TreeExists ==
  ASSUME NEW list, NEW n \in Nat
  PROVE  \E g : IsTree(list, n, g)
<1> DEFINE A == {m \in Nat : \E g : IsTree(list, m, g)}
<1>1. 0 \in A
  <2> DEFINE g == [m \in 0 .. 0 |-> Leaves(list)]
  <2>1. IsTree(list, 0, g)
    BY DEF IsTree
  <2> QED BY <2>1
<1>2. ASSUME NEW m \in Nat, m \in A PROVE m + 1 \in A
  <2>1. PICK g : IsTree(list, m, g)
    BY <1>2
  <2> DEFINE h == [i \in 0 .. m + 1 |-> IF i <= m THEN g[i] ELSE Above(g[m])]
  <2>2. ASSUME NEW i \in 0 .. m + 1 PROVE h[i] = IF i = 0 THEN Leaves(list) ELSE Above(h[i - 1])
    <3>1. CASE i \in 0 .. m
      BY <2>1, <3>1 DEF IsTree
    <3>2. CASE i = m + 1
      BY <3>2
    <3> QED BY <3>1, <3>2
  <2>3. IsTree(list, m + 1, h)
    BY <2>2 DEF IsTree
  <2> QED BY <2>3
<1> HIDE DEF A
<1>3. n \in A
  BY <1>1, <1>2, CountUp
<1> QED BY <1>3 DEF A

LEMMA LevelsAre ==
  ASSUME NEW list, Len(list) \in Nat
  PROVE  /\ LevelsOf(list)[0] = Leaves(list)
         /\ \A n \in 1 .. Len(list) : LevelsOf(list)[n] = Above(LevelsOf(list)[n - 1])
<1> DEFINE level == CHOOSE g : IsTree(list, Len(list), g)
<1>1. IsTree(list, Len(list), level)
  BY TreeExists
<1>2. LevelsOf(list) = level
  BY DEF LevelsOf, IsTree, Leaves
<1> HIDE DEF level
<1> QED BY <1>1, <1>2 DEF IsTree

(* A list there is a tree of.                                              *)
Listed(list) == Row(list, Len(list))

Width(list, n) == Len(LevelsOf(list)[n])

(* Every level is a row, and each but a single one is narrower than the    *)
(* one below.                                                              *)
LEMMA RowsAre ==
  ASSUME NEW list, Listed(list)
  PROVE  \A n \in 0 .. Len(list) : /\ Row(LevelsOf(list)[n], Width(list, n))
                                   /\ Width(list, n) = 1 \/ Width(list, n) <= Len(list) - n
<1> DEFINE Fine(n) == /\ Row(LevelsOf(list)[n], Width(list, n))
                      /\ Width(list, n) = 1 \/ Width(list, n) <= Len(list) - n
           A == {n \in Nat : n <= Len(list) => Fine(n)}
<1>1. Len(list) \in Nat \ {0} /\ DOMAIN list = 1 .. Len(list)
  BY DEF Listed, Row
<1>2. 0 \in A
  <2>1. LevelsOf(list)[0] = Leaves(list)
    BY <1>1, LevelsAre
  <2>2. Leaves(list) = [i \in 1 .. Len(list) |-> Leaves(list)[i]]
    BY <1>1 DEF Leaves
  <2>3. Row(LevelsOf(list)[0], Len(list))
    BY <1>1, <2>1, <2>2, RowIs
  <2>4. Width(list, 0) = Len(list)
    BY <2>3 DEF Row, Width
  <2> QED BY <1>1, <2>3, <2>4
<1>3. ASSUME NEW n \in Nat, n \in A PROVE n + 1 \in A
  <2> SUFFICES ASSUME n + 1 <= Len(list) PROVE Fine(n + 1)
    OBVIOUS
  <2>1. Fine(n)
    BY <1>1, <1>3
  <2> DEFINE k == Width(list, n)
  <2>2. LevelsOf(list)[n + 1] = Above(LevelsOf(list)[n])
    <3>1. n + 1 \in 1 .. Len(list) /\ (n + 1) - 1 = n
      BY <1>1
    <3> QED BY <1>1, <3>1, LevelsAre
  <2> HIDE DEF k
  <2>3. Row(LevelsOf(list)[n], k) /\ (k = 1 \/ k <= Len(list) - n)
    BY <2>1 DEF k
  <2>4. Row(LevelsOf(list)[n + 1], Half(k)) /\ (k > 1 => Half(k) < k) /\ (k = 1 => Half(k) = 1)
    <3>1. \A s : Row(s, k) => Row(Above(s), Half(k)) /\ (k > 1 => Half(k) < k) /\ (k = 1 => Half(k) = 1)
      BY AboveIs, Zenon
    <3> QED BY <2>2, <2>3, <3>1, Zenon
  <2>5. Width(list, n + 1) = Half(k) /\ Half(k) \in Nat \ {0} /\ k \in Nat \ {0}
    BY <2>3, <2>4 DEF Row, Width
  <2>6. Half(k) = 1 \/ Half(k) <= Len(list) - (n + 1)
    BY <1>1, <2>3, <2>4, <2>5
  <2> QED BY <2>4, <2>5, <2>6
<1> HIDE DEF A
<1>4. \A n \in Nat : n \in A
  BY <1>2, <1>3, CountUp
<1> QED BY <1>1, <1>4 DEF A

(* So there is a first level of one digest, whose digest is the root.      *)
LEMMA HeightIs ==
  ASSUME NEW list, Listed(list)
  PROVE  /\ Height(list) \in 0 .. Len(list) /\ Width(list, Height(list)) = 1
         /\ \A n \in 0 .. Height(list) : Row(LevelsOf(list)[n], Width(list, n))
         /\ \A n \in 0 .. Height(list) - 1 : LevelsOf(list)[n + 1] = Above(LevelsOf(list)[n])
         /\ LevelsOf(list)[0] = Leaves(list)
         /\ TreeRoot(list) = LevelsOf(list)[Height(list)][1]
<1> DEFINE Top(n) == Width(list, n) = 1 /\ \A m \in 0 .. n - 1 : Width(list, m) > 1
           A == {n \in Nat : n <= Len(list) =>
                              (\A m \in 0 .. n : Width(list, m) > 1) \/ \E m \in 0 .. n : Top(m)}
<1>1. Len(list) \in Nat \ {0}
  BY DEF Listed, Row
<1>2. \A n \in 0 .. Len(list) : Width(list, n) \in Nat \ {0}
  BY RowsAre DEF Row
<1>3. 0 \in A
  BY <1>1, <1>2
<1>4. ASSUME NEW n \in Nat, n \in A PROVE n + 1 \in A
  <2> SUFFICES ASSUME n + 1 <= Len(list), \A m \in 0 .. n : Width(list, m) > 1
               PROVE  Width(list, n + 1) > 1 \/ Top(n + 1)
    BY <1>1, <1>4
  <2>1. n + 1 \in 0 .. Len(list) /\ (n + 1) - 1 = n
    BY <1>1
  <2> QED BY <1>2, <2>1
<1> HIDE DEF A
<1>5. Len(list) \in A
  BY <1>1, <1>3, <1>4, CountUp
<1>6. \E n \in 0 .. Len(list) : Top(n)
  <2>1. Len(list) \in 0 .. Len(list)
    BY <1>1
  <2>2. ~(Width(list, Len(list)) > 1)
    BY <1>1, <1>2, <2>1, RowsAre
  <2> QED BY <1>1, <1>5, <2>1, <2>2 DEF A
<1>7. Height(list) = CHOOSE n \in 0 .. Len(list) : Top(n)
  BY DEF Height, Width
<1>8. Height(list) \in 0 .. Len(list) /\ Top(Height(list))
  <2> HIDE DEF Top
  <2> QED BY <1>6, <1>7
<1>9. \A n \in 0 .. Height(list) : n \in 0 .. Len(list)
  BY <1>1, <1>8
<1>10. ASSUME NEW n \in 0 .. Height(list) - 1 PROVE LevelsOf(list)[n + 1] = Above(LevelsOf(list)[n])
  <2>1. n + 1 \in 1 .. Len(list) /\ (n + 1) - 1 = n
    BY <1>1, <1>8
  <2> QED BY <1>1, <2>1, LevelsAre
<1> QED BY <1>1, <1>8, <1>9, <1>10, RowsAre, LevelsAre DEF TreeRoot

(* What a tree is made of, and where the digests of a pair, or of a member, *)
(* are in it.                                                              *)
Digests(list) == UNION {ToSet(LevelsOf(list)[n]) : n \in 0 .. Height(list)}

Closed(D) == \A x, y : HashPair(x, y) \in D => x \in D /\ y \in D

LEMMA DigestIs ==
  ASSUME NEW list, Listed(list), NEW x
  PROVE  x \in Digests(list) <=>
           \E n \in 0 .. Height(list) : \E i \in 1 .. Width(list, n) : x = LevelsOf(list)[n][i]
<1>1. \A n \in 0 .. Height(list) : DOMAIN LevelsOf(list)[n] = 1 .. Width(list, n)
  BY HeightIs DEF Row
<1>2. \A n \in 0 .. Height(list) :
        x \in ToSet(LevelsOf(list)[n]) <=> \E i \in 1 .. Width(list, n) : x = LevelsOf(list)[n][i]
  BY <1>1 DEF ToSet
<1> QED BY <1>2 DEF Digests

LEMMA StepDown ==
  ASSUME NEW list, Listed(list), NEW n \in Nat, n + 1 <= Height(list)
  PROVE  /\ n \in 0 .. Height(list)
         /\ \A i \in 1 .. Width(list, n + 1) :
              \/ \E j, k \in 1 .. Width(list, n) :
                   LevelsOf(list)[n + 1][i] = HashPair(LevelsOf(list)[n][j], LevelsOf(list)[n][k])
              \/ \E j \in 1 .. Width(list, n) : LevelsOf(list)[n + 1][i] = LevelsOf(list)[n][j]
         /\ \A j \in 1 .. Width(list, n) : \E i \in 1 .. Width(list, n + 1) :
              \/ LevelsOf(list)[n + 1][i] = LevelsOf(list)[n][j]
              \/ \E y : LevelsOf(list)[n + 1][i] = HashPair(LevelsOf(list)[n][j], y)
<1> DEFINE s == LevelsOf(list)[n]
           up == LevelsOf(list)[n + 1]
           k == Width(list, n)
<1>1. Height(list) \in Nat /\ n \in 0 .. Height(list) /\ n \in 0 .. Height(list) - 1
  BY HeightIs DEF Listed, Row
<1>2. up = Above(s) /\ Row(s, k) /\ Row(up, Width(list, n + 1))
  BY <1>1, HeightIs
<1> HIDE DEF s, up, k
<1>3. Width(list, n + 1) = Half(k) /\ k \in Nat \ {0} /\ Half(k) \in Nat
  BY <1>2, AboveIs DEF Row
<1>4. ASSUME NEW i \in 1 .. Half(k)
      PROVE  \/ \E j, m \in 1 .. k : up[i] = HashPair(s[j], s[m])
             \/ \E j \in 1 .. k : up[i] = s[j]
  <2>1. k \in 1 .. k
    BY <1>3
  <2> QED BY <1>2, <2>1, AboveIs
<1>5. ASSUME NEW j \in 1 .. k
      PROVE  \E i \in 1 .. Half(k) : up[i] = s[j] \/ \E y : up[i] = HashPair(s[j], y)
  <2> DEFINE i == Half(j)
  <2>1. i \in 1 .. Half(k) /\ j \in {2 * i - 1, 2 * i}
    BY <1>2, AboveIs
  <2> HIDE DEF i
  <2>2. CASE 2 * i - 1 = k /\ up[i] = s[k]
    <3>1. j = k
      BY <1>3, <2>1, <2>2
    <3> QED BY <2>1, <2>2, <3>1
  <2>3. CASE up[i] = HashPair(s[2 * i - 1], s[2 * i])
    <3>1. up[i] = HashPair(s[2 * i], s[2 * i - 1])
      BY <2>3, DigestsApart
    <3> QED BY <2>1, <2>3, <3>1
  <2> QED BY <1>2, <2>1, <2>2, <2>3, AboveIs
<1> QED BY <1>1, <1>3, <1>4, <1>5 DEF s, up, k

(* A pair in a tree was made of two digests in it.                         *)
LEMMA TreeIsClosed ==
  ASSUME NEW list, Listed(list)
  PROVE  Closed(Digests(list))
<1> SUFFICES ASSUME NEW x, NEW y, HashPair(x, y) \in Digests(list)
             PROVE  x \in Digests(list) /\ y \in Digests(list)
  BY DEF Closed
<1> DEFINE A == {n \in Nat : n <= Height(list) =>
                   \A i \in 1 .. Width(list, n) :
                     LevelsOf(list)[n][i] = HashPair(x, y) => x \in Digests(list) /\ y \in Digests(list)}
<1>0. Height(list) \in Nat
  BY HeightIs DEF Listed, Row
<1>1. 0 \in A
  <2>1. ASSUME NEW i \in 1 .. Width(list, 0) PROVE LevelsOf(list)[0][i] # HashPair(x, y)
    <3>1. LevelsOf(list)[0] = Leaves(list) /\ i \in DOMAIN LevelsOf(list)[0]
      BY <1>0, HeightIs DEF Row
    <3>2. LevelsOf(list)[0][i] = TagLeaf(list[i])
      BY <3>1 DEF Leaves
    <3> QED BY <3>2, DigestsApart
  <2> QED BY <2>1
<1>2. ASSUME NEW n \in Nat, n \in A PROVE n + 1 \in A
  <2> SUFFICES ASSUME n + 1 <= Height(list), NEW i \in 1 .. Width(list, n + 1),
                      HashPair(x, y) = LevelsOf(list)[n + 1][i]
               PROVE  x \in Digests(list) /\ y \in Digests(list)
    OBVIOUS
  <2>1. n \in 0 .. Height(list)
    BY StepDown
  <2>2. CASE \E j, k \in 1 .. Width(list, n) :
               LevelsOf(list)[n + 1][i] = HashPair(LevelsOf(list)[n][j], LevelsOf(list)[n][k])
    <3>1. PICK j, k \in 1 .. Width(list, n) :
            LevelsOf(list)[n + 1][i] = HashPair(LevelsOf(list)[n][j], LevelsOf(list)[n][k])
      BY <2>2
    <3>2. /\ x \in {LevelsOf(list)[n][j], LevelsOf(list)[n][k]}
          /\ y \in {LevelsOf(list)[n][j], LevelsOf(list)[n][k]}
      <4>1. \A v, w : HashPair(x, y) = HashPair(v, w) => x \in {v, w} /\ y \in {v, w}
        BY PairIsOf, Zenon
      <4> QED BY <3>1, <4>1, Zenon
    <3>3. LevelsOf(list)[n][j] \in Digests(list) /\ LevelsOf(list)[n][k] \in Digests(list)
      BY <2>1, DigestIs
    <3> QED BY <3>2, <3>3
  <2>3. CASE \E j \in 1 .. Width(list, n) : LevelsOf(list)[n + 1][i] = LevelsOf(list)[n][j]
    BY <1>2, <2>3, <1>0
  <2> QED BY <2>2, <2>3, StepDown
<1> HIDE DEF A
<1>3. \A n \in Nat : n \in A
  BY <1>1, <1>2, CountUp
<1>4. PICK n \in 0 .. Height(list) : \E i \in 1 .. Width(list, n) : HashPair(x, y) = LevelsOf(list)[n][i]
  BY DigestIs
<1> QED BY <1>0, <1>3, <1>4 DEF A

(* A leaf in a tree is a member's.                                         *)
LEMMA LeafIsMembers ==
  ASSUME NEW list, Listed(list), NEW c, TagLeaf(c) \in Digests(list)
  PROVE  \E i \in DOMAIN list : c = list[i]
<1> DEFINE A == {n \in Nat : n <= Height(list) =>
                   \A i \in 1 .. Width(list, n) :
                     LevelsOf(list)[n][i] = TagLeaf(c) => \E j \in DOMAIN list : c = list[j]}
<1>0. Height(list) \in Nat
  BY HeightIs DEF Listed, Row
<1>1. 0 \in A
  <2>1. ASSUME NEW i \in 1 .. Width(list, 0), LevelsOf(list)[0][i] = TagLeaf(c)
        PROVE  \E j \in DOMAIN list : c = list[j]
    <3>1. LevelsOf(list)[0] = Leaves(list) /\ i \in DOMAIN LevelsOf(list)[0]
      BY <1>0, HeightIs DEF Row
    <3>2. LevelsOf(list)[0][i] = TagLeaf(list[i]) /\ i \in DOMAIN list
      BY <3>1 DEF Leaves
    <3> QED BY <2>1, <3>2, DigestsApart, ZenonT(60)
  <2> QED BY <2>1
<1>2. ASSUME NEW n \in Nat, n \in A PROVE n + 1 \in A
  <2> SUFFICES ASSUME n + 1 <= Height(list), NEW i \in 1 .. Width(list, n + 1),
                      LevelsOf(list)[n + 1][i] = TagLeaf(c)
               PROVE  \E j \in DOMAIN list : c = list[j]
    OBVIOUS
  <2>1. ~ \E j, k \in 1 .. Width(list, n) :
               LevelsOf(list)[n + 1][i] = HashPair(LevelsOf(list)[n][j], LevelsOf(list)[n][k])
    BY DigestsApart
  <2>2. PICK j \in 1 .. Width(list, n) : LevelsOf(list)[n + 1][i] = LevelsOf(list)[n][j]
    BY <2>1, StepDown
  <2> QED BY <1>0, <1>2, <2>2
<1> HIDE DEF A
<1>3. \A n \in Nat : n \in A
  BY <1>1, <1>2, CountUp
<1>4. PICK n \in 0 .. Height(list) : \E i \in 1 .. Width(list, n) : TagLeaf(c) = LevelsOf(list)[n][i]
  BY DigestIs
<1> QED BY <1>0, <1>3, <1>4 DEF A

(* Whatever is closed and has the root has every leaf.                     *)
LEMMA RootHoldsLeaves ==
  ASSUME NEW list, Listed(list), NEW D, Closed(D), TreeRoot(list) \in D
  PROVE  \A i \in DOMAIN list : TagLeaf(list[i]) \in D
<1> DEFINE A == {m \in Nat : m <= Height(list) =>
                   \A i \in 1 .. Width(list, Height(list) - m) : LevelsOf(list)[Height(list) - m][i] \in D}
<1>0. Height(list) \in Nat
  BY HeightIs DEF Listed, Row
<1>1. 0 \in A
  <2>1. Height(list) - 0 = Height(list) /\ Width(list, Height(list)) = 1 /\ 1 .. 1 = {1}
    BY <1>0, HeightIs
  <2> QED BY <2>1, HeightIs
<1>2. ASSUME NEW m \in Nat, m \in A PROVE m + 1 \in A
  <2> SUFFICES ASSUME m + 1 <= Height(list) PROVE m + 1 \in A
    OBVIOUS
  <2> DEFINE n == Height(list) - (m + 1)
  <2>1. n \in Nat /\ n + 1 = Height(list) - m /\ n + 1 <= Height(list) /\ m <= Height(list)
    BY <1>0
  <2> HIDE DEF n
  <2>2. ASSUME NEW j \in 1 .. Width(list, n) PROVE LevelsOf(list)[n][j] \in D
    <3>1. PICK i \in 1 .. Width(list, n + 1) :
              \/ LevelsOf(list)[n + 1][i] = LevelsOf(list)[n][j]
              \/ \E y : LevelsOf(list)[n + 1][i] = HashPair(LevelsOf(list)[n][j], y)
      BY <2>1, StepDown
    <3>2. LevelsOf(list)[n + 1][i] \in D
      BY <1>2, <2>1
    <3> QED BY <3>1, <3>2 DEF Closed
  <2> QED BY <2>2 DEF n
<1> HIDE DEF A
<1>3. Height(list) \in A
  BY <1>0, <1>1, <1>2, CountUp
<1>4. Height(list) - Height(list) = 0 /\ Height(list) <= Height(list)
  BY <1>0
<1>5. \A i \in 1 .. Width(list, 0) : LevelsOf(list)[0][i] \in D
  BY <1>3, <1>4 DEF A
<1>6. /\ LevelsOf(list)[0] = Leaves(list) /\ DOMAIN Leaves(list) = 1 .. Width(list, 0)
      /\ DOMAIN Leaves(list) = DOMAIN list
  BY <1>0, HeightIs DEF Row, Leaves
<1> QED BY <1>5, <1>6 DEF Leaves

(* The recursion of verifyProof: the digests along a climb.                *)
IsClimb(c, proof, n, g) ==
  g = [k \in 0 .. n |-> IF k = 0 THEN TagLeaf(c) ELSE HashPair(g[k - 1], proof[k])]

LEMMA ClimbExists ==
  ASSUME NEW c, NEW proof, NEW n \in Nat
  PROVE  \E g : IsClimb(c, proof, n, g)
<1> DEFINE A == {m \in Nat : \E g : IsClimb(c, proof, m, g)}
<1>1. 0 \in A
  <2> DEFINE g == [k \in 0 .. 0 |-> TagLeaf(c)]
  <2>1. IsClimb(c, proof, 0, g)
    BY DEF IsClimb
  <2> QED BY <2>1
<1>2. ASSUME NEW m \in Nat, m \in A PROVE m + 1 \in A
  <2>1. PICK g : IsClimb(c, proof, m, g)
    BY <1>2
  <2> DEFINE h == [k \in 0 .. m + 1 |-> IF k <= m THEN g[k] ELSE HashPair(g[m], proof[m + 1])]
  <2>2. ASSUME NEW k \in 0 .. m + 1 PROVE h[k] = IF k = 0 THEN TagLeaf(c) ELSE HashPair(h[k - 1], proof[k])
    <3>1. CASE k \in 0 .. m
      BY <2>1, <3>1 DEF IsClimb
    <3>2. CASE k = m + 1
      BY <3>2
    <3> QED BY <3>1, <3>2
  <2>3. IsClimb(c, proof, m + 1, h)
    BY <2>2 DEF IsClimb
  <2> QED BY <2>3
<1> HIDE DEF A
<1>3. n \in A
  BY <1>1, <1>2, CountUp
<1> QED BY <1>3 DEF A

LEMMA ClimbIs ==
  ASSUME NEW c, NEW proof, Len(proof) \in Nat
  PROVE  \E g : IsClimb(c, proof, Len(proof), g) /\ Climbed(c, proof) = g[Len(proof)]
<1> DEFINE node == CHOOSE g : IsClimb(c, proof, Len(proof), g)
<1>1. IsClimb(c, proof, Len(proof), node)
  BY ClimbExists
<1>2. Climbed(c, proof) = node[Len(proof)]
  BY DEF Climbed, IsClimb
<1> HIDE DEF node
<1> QED BY <1>1, <1>2

(* Who climbs into what is closed began there.                             *)
LEMMA ClimbBeganIn ==
  ASSUME NEW D, Closed(D), NEW c, NEW proof, Len(proof) \in Nat, Climbed(c, proof) \in D
  PROVE  TagLeaf(c) \in D
<1>1. PICK g : IsClimb(c, proof, Len(proof), g) /\ Climbed(c, proof) = g[Len(proof)]
  BY ClimbIs
<1> DEFINE A == {m \in Nat : m <= Len(proof) => g[Len(proof) - m] \in D}
<1>2. 0 \in A
  BY <1>1
<1>3. ASSUME NEW m \in Nat, m \in A PROVE m + 1 \in A
  <2> SUFFICES ASSUME m + 1 <= Len(proof) PROVE g[Len(proof) - (m + 1)] \in D
    OBVIOUS
  <2> DEFINE k == Len(proof) - m
  <2>1. k \in 1 .. Len(proof) /\ g[k] \in D /\ k - 1 = Len(proof) - (m + 1)
    BY <1>3
  <2> HIDE DEF k
  <2>2. g[k] = HashPair(g[k - 1], proof[k])
    BY <1>1, <2>1 DEF IsClimb
  <2> QED BY <2>1, <2>2 DEF Closed
<1> HIDE DEF A
<1>4. Len(proof) \in A
  BY <1>2, <1>3, CountUp
<1>5. g[0] \in D
  BY <1>4 DEF A
<1> QED BY <1>1, <1>5 DEF IsClimb

(* One sibling more is one pair more.                                      *)
LEMMA ClimbOnce ==
  ASSUME NEW E, NEW proof \in Seq(E), NEW y \in E, NEW c
  PROVE  Climbed(c, Append(proof, y)) = HashPair(Climbed(c, proof), y)
<1> DEFINE longer == Append(proof, y)
           n == Len(proof)
<1>1. n \in Nat /\ Len(longer) = n + 1 /\ longer[n + 1] = y /\ \A k \in 1 .. n : longer[k] = proof[k]
  OBVIOUS
<1> HIDE DEF longer, n
<1>2. PICK g : IsClimb(c, proof, n, g) /\ Climbed(c, proof) = g[n]
  BY <1>1, ClimbIs DEF n
<1>3. PICK h : IsClimb(c, longer, n + 1, h) /\ Climbed(c, longer) = h[n + 1]
  BY <1>1, ClimbIs
<1> DEFINE A == {k \in Nat : k <= n => h[k] = g[k]}
<1>4. 0 \in A
  BY <1>1, <1>2, <1>3 DEF IsClimb
<1>5. ASSUME NEW k \in Nat, k \in A PROVE k + 1 \in A
  <2> SUFFICES ASSUME k + 1 <= n PROVE h[k + 1] = g[k + 1]
    OBVIOUS
  <2>1. k + 1 \in 1 .. n /\ k + 1 \in 0 .. n /\ k + 1 \in 0 .. n + 1 /\ (k + 1) - 1 = k /\ k + 1 # 0 /\ h[k] = g[k]
    BY <1>1, <1>5
  <2>2. h[k + 1] = HashPair(h[(k + 1) - 1], longer[k + 1]) /\ g[k + 1] = HashPair(g[(k + 1) - 1], proof[k + 1])
    BY <1>2, <1>3, <2>1 DEF IsClimb
  <2> QED BY <1>1, <2>1, <2>2
<1> HIDE DEF A
<1>6. h[n] = g[n]
  <2>1. n \in A
    BY <1>1, <1>4, <1>5, CountUp
  <2> QED BY <1>1, <2>1 DEF A
<1>7. h[n + 1] = HashPair(h[(n + 1) - 1], longer[n + 1]) /\ (n + 1) - 1 = n
  BY <1>1, <1>3 DEF IsClimb
<1> QED BY <1>1, <1>2, <1>3, <1>6, <1>7 DEF longer

(* The recursions of proofOf: the place on each level, and what was taken  *)
(* along up to it.                                                         *)
IsPath(h, index, place) == place = [n \in 0 .. h |-> IF n = 0 THEN index ELSE (place[n - 1] + 1) \div 2]

Taken(level, p, sofar) ==
  IF Sibling(p) <= Len(level) THEN Append(sofar, level[Sibling(p)]) ELSE sofar

IsTaking(list, h, place, q) ==
  q = [n \in 0 .. h |-> IF n = 0 THEN <<>> ELSE Taken(LevelsOf(list)[n - 1], place[n - 1], q[n - 1])]

LEMMA PathExists ==
  ASSUME NEW h \in Nat, NEW index
  PROVE  \E place : IsPath(h, index, place)
<1> DEFINE A == {m \in Nat : \E g : IsPath(m, index, g)}
<1>1. 0 \in A
  <2> DEFINE g == [n \in 0 .. 0 |-> index]
  <2>1. IsPath(0, index, g)
    BY DEF IsPath
  <2> QED BY <2>1
<1>2. ASSUME NEW m \in Nat, m \in A PROVE m + 1 \in A
  <2>1. PICK g : IsPath(m, index, g)
    BY <1>2
  <2> DEFINE f == [n \in 0 .. m + 1 |-> IF n <= m THEN g[n] ELSE (g[m] + 1) \div 2]
  <2>2. ASSUME NEW n \in 0 .. m + 1 PROVE f[n] = IF n = 0 THEN index ELSE (f[n - 1] + 1) \div 2
    <3>1. CASE n \in 0 .. m
      BY <2>1, <3>1 DEF IsPath
    <3>2. CASE n = m + 1
      BY <3>2
    <3> QED BY <3>1, <3>2
  <2>3. IsPath(m + 1, index, f)
    BY <2>2 DEF IsPath
  <2> QED BY <2>3
<1> HIDE DEF A
<1>3. h \in A
  BY <1>1, <1>2, CountUp
<1> QED BY <1>3 DEF A

LEMMA TakingExists ==
  ASSUME NEW list, NEW h \in Nat, NEW place
  PROVE  \E q : IsTaking(list, h, place, q)
<1> DEFINE A == {m \in Nat : \E q : IsTaking(list, m, place, q)}
<1>1. 0 \in A
  <2> DEFINE g == [n \in 0 .. 0 |-> <<>>]
  <2>1. IsTaking(list, 0, place, g)
    BY DEF IsTaking
  <2> QED BY <2>1
<1>2. ASSUME NEW m \in Nat, m \in A PROVE m + 1 \in A
  <2>1. PICK g : IsTaking(list, m, place, g)
    BY <1>2
  <2> DEFINE f == [n \in 0 .. m + 1 |-> IF n <= m THEN g[n] ELSE Taken(LevelsOf(list)[m], place[m], g[m])]
  <2>2. ASSUME NEW n \in 0 .. m + 1
        PROVE  f[n] = IF n = 0 THEN <<>> ELSE Taken(LevelsOf(list)[n - 1], place[n - 1], f[n - 1])
    <3>1. CASE n \in 0 .. m
      BY <2>1, <3>1 DEF IsTaking
    <3>2. CASE n = m + 1
      BY <3>2
    <3> QED BY <3>1, <3>2
  <2>3. IsTaking(list, m + 1, place, f)
    BY <2>2 DEF IsTaking
  <2> QED BY <2>3
<1> HIDE DEF A
<1>3. h \in A
  BY <1>1, <1>2, CountUp
<1> QED BY <1>3 DEF A

LEMMA ProofOfIs ==
  ASSUME NEW list, Listed(list), NEW index
  PROVE  \E place, q : /\ IsPath(Height(list), index, place) /\ IsTaking(list, Height(list), place, q)
                       /\ ProofOf(list, index) = q[Height(list)]
<1> DEFINE place == CHOOSE g : IsPath(Height(list), index, g)
           q == CHOOSE g : IsTaking(list, Height(list), place, g)
<1>0. Height(list) \in Nat
  BY HeightIs DEF Listed, Row
<1>1. IsPath(Height(list), index, place)
  BY <1>0, PathExists
<1>2. IsTaking(list, Height(list), place, q)
  <2> HIDE DEF place
  <2> QED BY <1>0, TakingExists
<1>3. ProofOf(list, index) = q[Height(list)]
  BY DEF ProofOf, IsPath, IsTaking, Taken
<1> HIDE DEF place, q
<1> QED BY <1>1, <1>2, <1>3

(* One level up: a partner on either side, or none.                        *)
LEMMA OneLevelUp ==
  ASSUME NEW s, NEW k, Row(s, k), NEW p \in 1 .. k
  PROVE  /\ Half(p) \in 1 .. Half(k)
         /\ Sibling(p) <= k => Sibling(p) \in 1 .. k /\ Above(s)[Half(p)] = HashPair(s[p], s[Sibling(p)])
         /\ ~(Sibling(p) <= k) => Above(s)[Half(p)] = s[p]
<1> DEFINE i == Half(p)
<1>1. k \in Nat \ {0} /\ i \in 1 .. Half(k) /\ p \in {2 * i - 1, 2 * i}
  BY AboveIs DEF Row
<1> HIDE DEF i
<1>2. i \in Int
  BY <1>1
<1>3. \/ 2 * i \in 1 .. k /\ Above(s)[i] = HashPair(s[2 * i - 1], s[2 * i])
      \/ 2 * i - 1 = k /\ Above(s)[i] = s[k]
  BY <1>1, AboveIs
<1>4. CASE p = 2 * i
  <2>1. Sibling(p) = 2 * i - 1 /\ Sibling(p) <= k /\ Sibling(p) \in 1 .. k
    BY <1>1, <1>2, <1>4 DEF Sibling
  <2>2. Above(s)[i] = HashPair(s[2 * i - 1], s[2 * i])
    <3>1. ~(2 * i - 1 = k)
      BY <1>1, <1>2, <1>4
    <3> QED BY <1>3, <3>1
  <2>3. HashPair(s[2 * i - 1], s[2 * i]) = HashPair(s[2 * i], s[2 * i - 1])
    BY DigestsApart
  <2> QED BY <1>1, <1>4, <2>1, <2>2, <2>3 DEF i
<1>5. CASE p = 2 * i - 1
  <2>1. Sibling(p) = 2 * i
    BY <1>1, <1>2, <1>5 DEF Sibling
  <2>2. CASE 2 * i <= k
    <3>1. Above(s)[i] = HashPair(s[2 * i - 1], s[2 * i]) /\ 2 * i \in 1 .. k
      <4>1. ~(2 * i - 1 = k) /\ 2 * i \in 1 .. k
        BY <1>1, <1>2, <2>2
      <4> QED BY <1>3, <4>1
    <3> QED BY <1>1, <1>5, <2>1, <2>2, <3>1 DEF i
  <2>3. CASE ~(2 * i <= k)
    <3>1. Above(s)[i] = s[k] /\ p = k
      <4>1. ~(2 * i \in 1 .. k) /\ p = k
        BY <1>1, <1>2, <1>5, <2>3
      <4> QED BY <1>3, <4>1
    <3> QED BY <1>1, <1>5, <2>1, <2>3, <3>1 DEF i
  <2> QED BY <2>2, <2>3
<1> QED BY <1>1, <1>4, <1>5

(* The proof handed out climbs through the very places of its leaf.        *)
LEMMA ProofVerifies ==
  ASSUME NEW list, Listed(list), NEW index \in DOMAIN list
  PROVE  VerifyProof(list[index], ProofOf(list, index), TreeRoot(list))
<1> DEFINE h == Height(list)
           c == list[index]
           level(n) == LevelsOf(list)[n]
<1>0. h \in Nat /\ 0 \in 0 .. h
  BY HeightIs DEF Listed, Row
<1>1. PICK place, q : IsPath(h, index, place) /\ IsTaking(list, h, place, q) /\ ProofOf(list, index) = q[h]
  BY ProofOfIs
<1>2. place[0] = index /\ q[0] = <<>>
  BY <1>0, <1>1 DEF IsPath, IsTaking
<1>3. ASSUME NEW n \in Nat, n + 1 <= h
      PROVE  place[n + 1] = Half(place[n]) /\ q[n + 1] = Taken(level(n), place[n], q[n])
  <2>1. n + 1 \in 0 .. h /\ n + 1 # 0 /\ (n + 1) - 1 = n
    BY <1>0, <1>3
  <2> QED BY <1>1, <2>1 DEF IsPath, IsTaking, Half
<1> DEFINE Fine(n) == /\ place[n] \in 1 .. Width(list, n) /\ q[n] \in Seq(Digests(list))
                      /\ Climbed(c, q[n]) = level(n)[place[n]]
           A == {n \in Nat : n <= h => Fine(n)}
<1> HIDE DEF h
<1>4. 0 \in A
  <2>1. level(0) = Leaves(list) /\ 1 .. Width(list, 0) = DOMAIN level(0) /\ index \in DOMAIN level(0)
    BY <1>0, HeightIs DEF Row, Leaves, h
  <2>2. Climbed(c, <<>>) = TagLeaf(c)
    <3>1. Len(<<>>) = 0
      OBVIOUS
    <3>2. PICK g : IsClimb(c, <<>>, 0, g) /\ Climbed(c, <<>>) = g[0]
      BY <3>1, ClimbIs
    <3> QED BY <3>2 DEF IsClimb
  <2>3. level(0)[index] = TagLeaf(c)
    BY <2>1 DEF Leaves
  <2>4. <<>> \in Seq(Digests(list))
    OBVIOUS
  <2> QED BY <1>2, <2>1, <2>2, <2>3, <2>4
<1>5. ASSUME NEW n \in Nat, n \in A PROVE n + 1 \in A
  <2> SUFFICES ASSUME n + 1 <= h PROVE Fine(n + 1)
    OBVIOUS
  <2> DEFINE s == level(n)
             k == Width(list, n)
             p == place[n]
  <2>1. Fine(n) /\ n \in 0 .. h /\ n \in 0 .. h - 1
    BY <1>0, <1>5
  <2>2. Row(s, k) /\ level(n + 1) = Above(s) /\ p \in 1 .. k /\ Len(s) = k
    BY <2>1, HeightIs DEF h, Width
  <2>3. \A i \in 1 .. k : s[i] \in Digests(list)
    BY <2>1, DigestIs DEF h
  <2>4. place[n + 1] = Half(p) /\ q[n + 1] = Taken(s, p, q[n])
    BY <1>3
  <2>5. Width(list, n + 1) = Half(k)
    <3>1. Row(Above(s), Half(k))
      BY <2>2, AboveIs
    <3> QED BY <2>2, <3>1 DEF Row, Width
  <2>6. q[n] \in Seq(Digests(list)) /\ Climbed(c, q[n]) = s[p]
    BY <2>1
  <2> HIDE DEF s, k, p, level
  <2>7. Half(p) \in 1 .. Half(k)
    BY <2>2, OneLevelUp
  <2>8. CASE Sibling(p) <= k
    <3>1. Sibling(p) \in 1 .. k /\ Above(s)[Half(p)] = HashPair(s[p], s[Sibling(p)])
      BY <2>2, <2>8, OneLevelUp
    <3>2. q[n + 1] = Append(q[n], s[Sibling(p)])
      BY <2>2, <2>4, <2>8 DEF Taken
    <3>3. s[Sibling(p)] \in Digests(list)
      BY <2>3, <3>1
    <3>4. Climbed(c, Append(q[n], s[Sibling(p)])) = HashPair(Climbed(c, q[n]), s[Sibling(p)])
      BY <2>6, <3>3, ClimbOnce
    <3>5. Append(q[n], s[Sibling(p)]) \in Seq(Digests(list))
      BY <2>6, <3>3
    <3> QED BY <2>2, <2>4, <2>5, <2>6, <2>7, <3>1, <3>2, <3>4, <3>5
  <2>9. CASE ~(Sibling(p) <= k)
    <3>1. Above(s)[Half(p)] = s[p]
      BY <2>2, <2>9, OneLevelUp
    <3>2. q[n + 1] = q[n]
      BY <2>2, <2>4, <2>9 DEF Taken
    <3> QED BY <2>2, <2>4, <2>5, <2>6, <2>7, <3>1, <3>2
  <2> QED BY <2>8, <2>9
<1> HIDE DEF A
<1>6. h \in A
  BY <1>0, <1>4, <1>5, CountUp
<1>7. Fine(h)
  BY <1>0, <1>6 DEF A
<1>8. Width(list, h) = 1 /\ TreeRoot(list) = level(h)[1]
  BY HeightIs DEF h
<1>9. place[h] = 1
  BY <1>7, <1>8
<1> QED BY <1>1, <1>7, <1>8, <1>9 DEF VerifyProof

(* The root is in the tree, and is never the root of nothing.              *)
LEMMA RootIsIn ==
  ASSUME NEW list, Listed(list)
  PROVE  TreeRoot(list) \in Digests(list) /\ TreeRoot(list) # EmptyRoot
<1>1. TreeRoot(list) \in Digests(list)
  <2>1. Height(list) \in 0 .. Height(list) /\ 1 \in 1 .. Width(list, Height(list))
    BY HeightIs DEF Listed, Row
  <2> QED BY <2>1, HeightIs, DigestIs
<1>2. ASSUME TreeRoot(list) = EmptyRoot PROVE FALSE
  <2>1. Closed({EmptyRoot})
    BY DigestsApart DEF Closed
  <2>2. 1 \in DOMAIN list
    BY DEF Listed, Row
  <2>3. TagLeaf(list[1]) \in {EmptyRoot}
    BY <1>2, <2>1, <2>2, RootHoldsLeaves
  <2> QED BY <2>3, DigestsApart
<1> QED BY <1>1, <1>2

LEMMA OneRootOneSet ==
  ASSUME NEW one, Listed(one), NEW other, Listed(other), TreeRoot(one) = TreeRoot(other)
  PROVE  \A i \in DOMAIN one : \E j \in DOMAIN other : one[i] = other[j]
<1>1. Closed(Digests(other)) /\ TreeRoot(one) \in Digests(other)
  BY TreeIsClosed, RootIsIn
<1> DEFINE D == Digests(other)
<1>2. \A i \in DOMAIN one : TagLeaf(one[i]) \in D
  <2>1. Closed(D) /\ TreeRoot(one) \in D
    BY <1>1
  <2> HIDE DEF D
  <2> QED BY <2>1, RootHoldsLeaves
<1> QED BY <1>2, LeafIsMembers

Placed(list) == [i \in DOMAIN list |-> PositionalLeaf(i - 1, list[i])]

LEMMA PlacedIs ==
  ASSUME NEW list \in Seq(Contents)
  PROVE  /\ list = <<>> => OrderedRootOf(list) = EmptyRoot
         /\ list # <<>> => /\ OrderedRootOf(list) = TreeRoot(Placed(list))
                           /\ Listed(list) /\ Listed(Placed(list)) /\ DOMAIN Placed(list) = DOMAIN list
<1>1. Len(list) \in Nat /\ DOMAIN list = 1 .. Len(list) /\ DOMAIN Placed(list) = DOMAIN list
  BY DEF Placed
<1>2. OrderedRootOf(list) = RootOf(Placed(list))
  BY DEF OrderedRootOf, Placed
<1>3. CASE list = <<>>
  <2>1. DOMAIN list = {}
    BY <1>3
  <2>2. Placed(list) = <<>>
    BY <2>1 DEF Placed
  <2> QED BY <1>2, <1>3, <2>2 DEF RootOf
<1>4. CASE list # <<>>
  <2>1. Len(list) \in Nat \ {0}
    BY <1>4
  <2>2. Listed(list)
    BY <1>1, <2>1 DEF Listed, Row
  <2>3. Placed(list) = [i \in 1 .. Len(list) |-> Placed(list)[i]]
    BY <1>1 DEF Placed
  <2>4. Row(Placed(list), Len(list))
    BY <2>1, <2>3, RowIs
  <2>5. Listed(Placed(list)) /\ Placed(list) # <<>>
    BY <2>4 DEF Listed, Row
  <2> QED BY <1>1, <1>2, <1>4, <2>2, <2>5 DEF RootOf
<1> QED BY <1>3, <1>4

(* Lists whose ordered roots are one agree wherever the first has a place. *)
LEMMA OneRootOnePrefix ==
  ASSUME NEW one \in Seq(Contents), NEW other \in Seq(Contents),
         OrderedRootOf(one) = OrderedRootOf(other), one # <<>>
  PROVE  other # <<>> /\ \A i \in DOMAIN one : i \in DOMAIN other /\ one[i] = other[i]
<1>1. Listed(Placed(one)) /\ OrderedRootOf(one) = TreeRoot(Placed(one)) /\ DOMAIN Placed(one) = DOMAIN one
  BY PlacedIs
<1>2. other # <<>>
  BY <1>1, PlacedIs, RootIsIn
<1>3. Listed(Placed(other)) /\ TreeRoot(Placed(one)) = TreeRoot(Placed(other)) /\ DOMAIN Placed(other) = DOMAIN other
  BY <1>1, <1>2, PlacedIs
<1>4. ASSUME NEW i \in DOMAIN one PROVE i \in DOMAIN other /\ one[i] = other[i]
  <2>1. PICK j \in DOMAIN other : Placed(one)[i] = Placed(other)[j]
    BY <1>1, <1>3, OneRootOneSet
  <2>2. PositionalLeaf(i - 1, one[i]) = PositionalLeaf(j - 1, other[j])
    BY <2>1 DEF Placed
  <2>3. i - 1 = j - 1 /\ one[i] = other[j]
    BY <2>2, DigestsApart
  <2>4. i = j
    BY <2>3
  <2> QED BY <2>3, <2>4
<1> QED BY <1>2, <1>4

LEMMA OneRootOneList ==
  ASSUME NEW one \in Seq(Contents), NEW other \in Seq(Contents),
         OrderedRootOf(one) = OrderedRootOf(other), one # <<>>
  PROVE  other = one
<1>1. other # <<>> /\ \A i \in DOMAIN one : i \in DOMAIN other /\ one[i] = other[i]
  BY OneRootOnePrefix
<1>2. \A i \in DOMAIN other : i \in DOMAIN one
  BY <1>1, OneRootOnePrefix
<1>3. DOMAIN one = DOMAIN other
  BY <1>1, <1>2
<1> QED BY <1>1, <1>3

(* What is sealed is a list of contents.                                   *)
LEMMA SealedTyped == MerkleSpec => [](leaves \in Seq(Contents))
<1>1. MerkleInit => leaves \in Seq(Contents)
  BY DEF MerkleInit
<1>2. leaves \in Seq(Contents) /\ [MerkleNext]_leaves => (leaves \in Seq(Contents))'
  BY DEF MerkleNext, Seal
<1> QED BY <1>1, <1>2, PTL DEF MerkleSpec

LEMMA MembershipOfSealed ==
  ASSUME leaves \in Seq(Contents)
  PROVE  MembershipIsExact
<1> SUFFICES ASSUME leaves # <<>>
             PROVE  /\ \A i \in DOMAIN leaves : VerifyProof(leaves[i], ProofOf(leaves, i), TreeRoot(leaves))
                    /\ \A c \in (Contents \cup TreeDigests) \ ToSet(leaves),
                          proof \in BoundedSeq(Contents \cup TreeDigests, MaxProof) :
                            ~VerifyProof(c, proof, TreeRoot(leaves))
  BY DEF MembershipIsExact
<1>1. Listed(leaves)
  BY PlacedIs
<1>2. ASSUME NEW c, c \notin ToSet(leaves),
             NEW proof \in BoundedSeq(Contents \cup TreeDigests, MaxProof),
             VerifyProof(c, proof, TreeRoot(leaves))
      PROVE  FALSE
  <2> DEFINE E == Contents \cup TreeDigests
  <2>1. PICK m \in 0 .. MaxProof : proof \in [1 .. m -> E]
    BY DEF BoundedSeq, SeqOf
  <2> HIDE DEF E
  <2>2. Len(proof) \in Nat
    BY <2>1
  <2>3. Climbed(c, proof) \in Digests(leaves)
    BY <1>1, <1>2, RootIsIn DEF VerifyProof
  <2>4. TagLeaf(c) \in Digests(leaves)
    BY <1>1, <2>2, <2>3, TreeIsClosed, ClimbBeganIn
  <2>5. PICK i \in DOMAIN leaves : c = leaves[i]
    BY <1>1, <2>4, LeafIsMembers
  <2> QED BY <1>2, <2>5 DEF ToSet
<1> QED BY <1>1, <1>2, ProofVerifies

LEMMA OrderOfSealed ==
  ASSUME leaves \in Seq(Contents)
  PROVE  OrderIsCommitted
<1> SUFFICES ASSUME leaves # <<>>, NEW list \in Lists, OrderedRootOf(list) = OrderedRootOf(leaves)
             PROVE  list = leaves
  BY DEF OrderIsCommitted
<1>1. PICK m \in 0 .. MaxLeaves : list \in [1 .. m -> Contents]
  BY DEF Lists, BoundedSeq, SeqOf
<1>2. list \in Seq(Contents)
  BY <1>1
<1> QED BY <1>2, OneRootOneList

(* A root commits: membership can be proved of exactly the members, with   *)
(* whatever digests of the tree one tries, and an ordered root is of one   *)
(* list only (core/merkle.mjs verifyProof, orderedRootOf).                 *)
THEOREM RootsCommit == MerkleSpec => []RootCommits
<1>1. leaves \in Seq(Contents) => RootCommits
  BY MembershipOfSealed, OrderOfSealed DEF RootCommits
<1> QED BY <1>1, SealedTyped, PTL
-----------------------------------------------------------------------------
(***************************************************************************)
(* That a half-written picture under its own name is the doing of two      *)
(* uploads of one millisecond, for any number of uploads of any length and *)
(* a crash between any two steps.  A file that was opened always has an    *)
(* upload that answers for it: the last to empty it, whose own chunks are  *)
(* all in it, and which leaves it whole on the disk when it has synced.    *)
(* And what bears the picture's name was put there by an upload begun in   *)
(* the millisecond of that file.                                           *)
(***************************************************************************)

Stages == {"idle", "open", "synced", "stored", "refused", "failed", "lost"}

UploadRecords == [st : Stages, name : Nat, file : Uploads \cup {NoFile}, at : 0 .. Chunks]

MediaTyped ==
  /\ ms \in Names
  /\ upload \in [Uploads -> UploadRecords]
  /\ tmp \in [Names -> Uploads \cup {NoFile}] /\ target \in Uploads \cup {NoFile}
  /\ bytes \in [Uploads -> SUBSET Whole] /\ disk \in [Uploads -> SUBSET Whole]

(* The upload that made a file has it open under the file's name, and so   *)
(* has every other that opened it.                                         *)
MadeAt(f, t) == f \in Uploads /\ upload[f].file = f /\ upload[f].name = t

FilesNamed ==
  /\ \A u \in Uploads :
       IF upload[u].st = "idle" THEN upload[u] = NotBegun
       ELSE upload[u].name \in Names /\ MadeAt(upload[u].file, upload[u].name)
  /\ \A t \in Names : tmp[t] # NoFile => MadeAt(tmp[t], t)

PutByOneOfItsTime ==
  target # NoFile =>
    /\ MadeAt(target, upload[target].name)
    /\ \E u \in Uploads : upload[u].st = "stored" /\ upload[u].name = upload[target].name

AnswersFor(w, f) ==
  /\ upload[w].file = f
  /\ upload[w].st = "open" => 1 .. upload[w].at \subseteq bytes[f]
  /\ upload[w].st \in {"synced", "stored", "refused"} => bytes[f] = Whole /\ disk[f] = Whole

FilesAnsweredFor ==
  \A f \in Uploads : upload[f].file = f => \E w \in Uploads : AnswersFor(w, f)

FilesInv == MediaTyped /\ FilesNamed /\ PutByOneOfItsTime /\ FilesAnsweredFor

LEMMA FilesTyped ==
  ASSUME FilesInv, [MediaNext]_mediaVars
  PROVE  MediaTyped'
<1> USE MediaAssumption DEF FilesInv, MediaTyped, Whole, Names
<1>0. /\ \A r \in UploadRecords, st \in Stages : [r EXCEPT !.st = st] \in UploadRecords
      /\ \A r \in UploadRecords, k \in 0 .. Chunks : [r EXCEPT !.at = k] \in UploadRecords
  BY DEF UploadRecords
<1>9. {"synced", "failed", "stored", "refused", "lost"} \subseteq Stages
  BY DEF Stages
<1>1. ASSUME NEW u \in Uploads, OpenFile(u) PROVE MediaTyped'
  <2> DEFINE file == IF tmp[ms] = NoFile THEN u ELSE tmp[ms]
  <2>1. file \in Uploads /\ Opened(file) \in UploadRecords
    BY DEF Opened, UploadRecords, Stages
  <2> HIDE DEF file
  <2> QED BY <1>1, <2>1 DEF OpenFile, file
<1>2. ASSUME NEW u \in Uploads, WriteChunk(u) PROVE MediaTyped'
  <2>1. upload[u].at + 1 \in 1 .. Chunks
    BY <1>2 DEF WriteChunk, UploadRecords
  <2>2. upload' \in [Uploads -> UploadRecords]
    BY <1>0, <1>2, <2>1 DEF WriteChunk
  <2>3. bytes' \in [Uploads -> SUBSET Whole]
    BY <1>2, <2>1 DEF WriteChunk
  <2> QED BY <1>2, <2>2, <2>3 DEF WriteChunk
<1>3. ASSUME NEW u \in Uploads, SyncFile(u) PROVE MediaTyped'
  BY <1>0, <1>9, <1>3 DEF SyncFile, Flushed
<1>4. ASSUME NEW u \in Uploads, UploadFails(u) PROVE MediaTyped'
  BY <1>0, <1>9, <1>4 DEF UploadFails
<1>5. ASSUME NEW u \in Uploads, RenameFile(u) PROVE MediaTyped'
  <2>1. upload[u].name \in Names
    BY <1>5 DEF RenameFile, FilesNamed
  <2> QED BY <1>0, <1>9, <1>5, <2>1 DEF RenameFile
<1>6. ASSUME NEW u \in Uploads, NothingToRename(u) PROVE MediaTyped'
  <2>1. upload' \in [Uploads -> UploadRecords]
    BY <1>0, <1>9, <1>6 DEF NothingToRename
  <2> QED BY <1>6, <2>1 DEF NothingToRename
<1>7. CASE MediaCrash
  <2>1. upload' \in [Uploads -> UploadRecords]
    BY <1>0, <1>9, <1>7 DEF MediaCrash
  <2>2. bytes' \in [Uploads -> SUBSET Whole]
    BY <1>7 DEF MediaCrash
  <2> QED BY <1>7, <2>1, <2>2 DEF MediaCrash
<1>8. CASE ForgetFile \/ MediaTick \/ UNCHANGED mediaVars
  BY <1>8 DEF ForgetFile, MediaTick, mediaVars
<1> QED BY <1>1, <1>2, <1>3, <1>4, <1>5, <1>6, <1>7, <1>8 DEF MediaNext, Upload

(* What holds of a file when it is opened: it has the name of the moment.  *)
LEMMA OpensByName ==
  ASSUME FilesInv, NEW u \in Uploads, OpenFile(u)
  PROVE  \E file \in Uploads :
           /\ upload' = [upload EXCEPT ![u] = Opened(file)]
           /\ tmp' = [tmp EXCEPT ![ms] = file] /\ bytes' = [bytes EXCEPT ![file] = {}]
           /\ file = u \/ (MadeAt(file, ms) /\ file # u)
           /\ \A w \in Uploads : upload[w].file # u
<1> DEFINE made == IF tmp[ms] = NoFile THEN u ELSE tmp[ms]
<1>1. made \in Uploads /\ (made = u \/ MadeAt(made, ms))
  BY DEF FilesInv, FilesNamed, MediaTyped
<1> HIDE DEF made
<1>2. upload[u].file = NoFile /\ NoFile \notin Uploads
  BY NoFileIsNoUpload DEF OpenFile, NotBegun
<1>3. \A w \in Uploads : upload[w].file # u
  BY <1>2 DEF FilesInv, FilesNamed, MadeAt, NotBegun
<1>4. ASSUME MadeAt(made, ms) PROVE made # u
  BY <1>1, <1>3, <1>4 DEF MadeAt
<1>5. /\ upload' = [upload EXCEPT ![u] = Opened(made)]
      /\ tmp' = [tmp EXCEPT ![ms] = made] /\ bytes' = [bytes EXCEPT ![made] = {}]
  BY DEF OpenFile, made
<1> QED BY <1>1, <1>3, <1>4, <1>5

(* An open changes no other upload, and who made a file has it open yet.   *)
LEMMA MadeStays ==
  ASSUME FilesInv, [MediaNext]_mediaVars, NEW f, NEW t \in Names, MadeAt(f, t)
  PROVE  MadeAt(f, t)' 
<1> USE DEF FilesInv, MediaTyped, UploadRecords, MadeAt
<1>1. ASSUME NEW u \in Uploads, OpenFile(u) PROVE upload'[f] = upload[f]
  BY <1>1, OpensByName
<1>2. ASSUME NEW u \in Uploads, Upload(u), ~OpenFile(u)
      PROVE  upload'[f].file = upload[f].file /\ upload'[f].name = upload[f].name
  BY <1>2 DEF Upload, WriteChunk, SyncFile, UploadFails, RenameFile, NothingToRename
<1>3. CASE MediaCrash
  BY <1>3 DEF MediaCrash
<1>4. CASE ForgetFile \/ MediaTick \/ UNCHANGED mediaVars
  BY <1>4 DEF ForgetFile, MediaTick, mediaVars
<1> QED BY <1>1, <1>2, <1>3, <1>4 DEF MediaNext

LEMMA NamesKept ==
  ASSUME FilesInv, [MediaNext]_mediaVars
  PROVE  FilesNamed'
<1> USE DEF FilesInv, MediaTyped, UploadRecords
<1>1. ASSUME NEW u \in Uploads, OpenFile(u) PROVE FilesNamed'
  <2>1. PICK file \in Uploads :
          /\ upload' = [upload EXCEPT ![u] = Opened(file)]
          /\ tmp' = [tmp EXCEPT ![ms] = file]
          /\ file = u \/ (MadeAt(file, ms) /\ file # u)
    BY <1>1, OpensByName
  <2>2. upload'[u] = Opened(file) /\ \A w \in Uploads \ {u} : upload'[w] = upload[w]
    BY <2>1
  <2>3. MadeAt(file, ms)'
    <3>1. CASE file = u
      BY <2>2, <3>1, <1>1 DEF MadeAt, Opened, OpenFile
    <3>2. CASE file # u
      BY <1>1, <2>1, <2>2, <3>2 DEF MadeAt, OpenFile
    <3> QED BY <3>1, <3>2
  <2>4. ASSUME NEW w \in Uploads
        PROVE  (IF upload[w].st = "idle" THEN upload[w] = NotBegun
                ELSE upload[w].name \in Names /\ MadeAt(upload[w].file, upload[w].name))'
    <3>1. CASE w = u
      BY <1>1, <2>2, <2>3, <3>1 DEF Opened, OpenFile
    <3>2. CASE w # u /\ upload[w].st = "idle"
      BY <2>2, <3>2 DEF FilesNamed
    <3>3. CASE w # u /\ upload[w].st # "idle"
      <4>1. upload[w].name \in Names /\ MadeAt(upload[w].file, upload[w].name)
        BY <3>3 DEF FilesNamed
      <4>2. MadeAt(upload[w].file, upload[w].name)'
        BY <4>1, <2>2, <3>3, <1>1, OpensByName DEF MadeAt
      <4> QED BY <2>2, <3>3, <4>1, <4>2
    <3> QED BY <3>1, <3>2, <3>3
  <2>5. ASSUME NEW t \in Names, tmp'[t] # NoFile PROVE MadeAt(tmp[t], t)'
    <3>1. CASE t = ms
      BY <1>1, <2>1, <2>3, <3>1 DEF OpenFile, MadeAt
    <3>2. CASE t # ms
      <4>1. tmp'[t] = tmp[t] /\ MadeAt(tmp[t], t)
        BY <2>1, <2>5, <3>2 DEF FilesNamed
      <4> QED BY <4>1, MadeStays DEF MadeAt
    <3> QED BY <3>1, <3>2
  <2> QED BY <2>4, <2>5 DEF FilesNamed
<1>2. ASSUME ~ \E u \in Uploads : OpenFile(u) PROVE FilesNamed'
  <2>1. ASSUME NEW w \in Uploads
        PROVE  /\ upload'[w].name = upload[w].name /\ upload'[w].file = upload[w].file
               /\ upload[w].st = "idle" => upload'[w] = upload[w]
               /\ upload[w].st # "idle" => upload'[w].st # "idle"
    BY <1>2 DEF MediaNext, Upload, WriteChunk, SyncFile, UploadFails, RenameFile, NothingToRename,
                MediaCrash, ForgetFile, MediaTick, mediaVars
  <2>2. \A f, t : MadeAt(f, t) => MadeAt(f, t)'
    BY <2>1 DEF MadeAt
  <2>3. \A t \in Names : tmp'[t] \in {tmp[t], NoFile}
    BY <1>2 DEF MediaNext, Upload, WriteChunk, SyncFile, UploadFails, RenameFile, NothingToRename,
                MediaCrash, ForgetFile, MediaTick, mediaVars
  <2>4. ASSUME NEW w \in Uploads
        PROVE  (IF upload[w].st = "idle" THEN upload[w] = NotBegun
                ELSE upload[w].name \in Names /\ MadeAt(upload[w].file, upload[w].name))'
    BY <2>1, <2>2 DEF FilesNamed, MadeAt
  <2>5. ASSUME NEW t \in Names, tmp'[t] # NoFile PROVE MadeAt(tmp[t], t)'
    BY <2>2, <2>3, <2>5 DEF FilesNamed, MadeAt
  <2> QED BY <2>4, <2>5 DEF FilesNamed
<1> QED BY <1>1, <1>2

LEMMA PutInTimeKept ==
  ASSUME FilesInv, [MediaNext]_mediaVars
  PROVE  PutByOneOfItsTime'
<1> USE DEF FilesInv, MediaTyped, UploadRecords
<1> SUFFICES ASSUME target' # NoFile
             PROVE  /\ MadeAt(target, upload[target].name)'
                    /\ \E u \in Uploads : /\ upload'[u].st = "stored"
                                          /\ upload'[u].name = upload'[target'].name
  BY DEF PutByOneOfItsTime
<1>1. CASE target' = target
  <2>1. MadeAt(target, upload[target].name) /\ upload[target].name \in Names
    BY <1>1, NoFileIsNoUpload DEF PutByOneOfItsTime, FilesNamed, MadeAt, NotBegun
  <2>2. PICK u \in Uploads : upload[u].st = "stored" /\ upload[u].name = upload[target].name
    BY <1>1 DEF PutByOneOfItsTime
  <2>3. MadeAt(target, upload[target].name)' /\ upload'[target].name = upload[target].name
    BY <1>1, <2>1, MadeStays DEF MadeAt
  <2>4. upload'[u] = upload[u]
    BY <2>2 DEF MediaNext, Upload, OpenFile, WriteChunk, SyncFile, UploadFails, RenameFile, NothingToRename,
                MediaCrash, ForgetFile, MediaTick, mediaVars, NotBegun
  <2> QED BY <1>1, <2>2, <2>3, <2>4
<1>2. CASE target' # target
  <2>1. PICK u \in Uploads : RenameFile(u)
    BY <1>2 DEF MediaNext, Upload, OpenFile, WriteChunk, SyncFile, UploadFails, NothingToRename,
                MediaCrash, ForgetFile, MediaTick, mediaVars
  <2>2. upload[u].name \in Names
    BY <2>1 DEF RenameFile, FilesNamed
  <2>3. MadeAt(target', upload[u].name)
    BY <2>1, <2>2 DEF RenameFile, FilesNamed
  <2>4. MadeAt(target, upload[u].name)'
    BY <2>1, <2>3 DEF RenameFile, MadeAt
  <2>5. upload'[u].st = "stored" /\ upload'[u].name = upload[u].name
    BY <2>1 DEF RenameFile
  <2> QED BY <2>4, <2>5 DEF MadeAt
<1> QED BY <1>1, <1>2

(* The last to empty a file answers for it; else whoever did before.       *)
LEMMA AnsweredForKept ==
  ASSUME FilesInv, [MediaNext]_mediaVars
  PROVE  FilesAnsweredFor'
<1> USE MediaAssumption DEF FilesInv, MediaTyped, UploadRecords, Whole
<1> SUFFICES ASSUME NEW f \in Uploads, upload'[f].file = f
             PROVE  \E w \in Uploads : AnswersFor(w, f)'
  BY DEF FilesAnsweredFor
<1>1. ASSUME NEW u \in Uploads, OpenFile(u) PROVE \E w \in Uploads : AnswersFor(w, f)'
  <2>1. PICK file \in Uploads :
          /\ upload' = [upload EXCEPT ![u] = Opened(file)] /\ bytes' = [bytes EXCEPT ![file] = {}]
          /\ file = u \/ (MadeAt(file, ms) /\ file # u)
          /\ \A w \in Uploads : upload[w].file # u
    BY <1>1, OpensByName
  <2>2. upload'[u] = Opened(file) /\ \A w \in Uploads \ {u} : upload'[w] = upload[w]
    BY <2>1
  <2>3. CASE f = file
    <3>1. upload'[u].file = f /\ upload'[u].st = "open" /\ 1 .. upload'[u].at = {}
      BY <2>2, <2>3 DEF Opened
    <3>2. AnswersFor(u, f)'
      BY <3>1 DEF AnswersFor
    <3> QED BY <3>2
  <2>4. CASE f # file
    <3>1. f # u /\ upload[f].file = f
      BY <2>2, <2>4 DEF Opened
    <3>2. PICK w \in Uploads : AnswersFor(w, f)
      BY <3>1 DEF FilesAnsweredFor
    <3>3. w # u
      BY <1>1, <3>2, NoFileIsNoUpload DEF AnswersFor, OpenFile, NotBegun
    <3>4. upload'[w] = upload[w] /\ bytes'[f] = bytes[f] /\ disk'[f] = disk[f]
      BY <1>1, <2>1, <2>2, <2>4, <3>3 DEF OpenFile
    <3>5. AnswersFor(w, f)'
      BY <3>2, <3>4 DEF AnswersFor
    <3> QED BY <3>5
  <2> QED BY <2>3, <2>4
<1>2. ASSUME ~ \E u \in Uploads : OpenFile(u) PROVE \E w \in Uploads : AnswersFor(w, f)'
  <2>1. \A w \in Uploads : upload'[w].file = upload[w].file
    BY <1>2 DEF MediaNext, Upload, WriteChunk, SyncFile, UploadFails, RenameFile, NothingToRename,
                MediaCrash, ForgetFile, MediaTick, mediaVars
  <2>2. PICK w \in Uploads : AnswersFor(w, f)
    BY <2>1 DEF FilesAnsweredFor
  <2>3. upload'[w].file = f
    BY <2>1, <2>2 DEF AnswersFor
  <2>4. ASSUME NEW u \in Uploads, WriteChunk(u) PROVE AnswersFor(w, f)'
    <3>1. upload[u].at + 1 \in Whole
      BY <2>4 DEF WriteChunk
    <3>2. bytes'[f] = IF f = upload[u].file THEN bytes[f] \cup {upload[u].at + 1} ELSE bytes[f]
      BY <2>4 DEF WriteChunk
    <3>3. bytes[f] \subseteq bytes'[f] /\ (bytes[f] = Whole => bytes'[f] = Whole)
      BY <3>1, <3>2
    <3>4. CASE w = u
      <4>1. upload[w].file = f /\ 1 .. upload[w].at \subseteq bytes[f]
        BY <2>2, <2>4, <3>4 DEF AnswersFor, WriteChunk
      <4>2. upload'[w].st = "open" /\ upload'[w].at = upload[w].at + 1
        BY <2>4, <3>4 DEF WriteChunk
      <4>3. 1 .. upload'[w].at \subseteq bytes'[f]
        BY <3>2, <3>4, <4>1, <4>2
      <4> QED BY <2>3, <4>2, <4>3 DEF AnswersFor
    <3>5. CASE w # u
      <4>1. upload'[w] = upload[w] /\ disk' = disk
        BY <2>4, <3>5 DEF WriteChunk
      <4> QED BY <2>2, <3>3, <4>1 DEF AnswersFor
    <3> QED BY <3>4, <3>5
  <2>5. ASSUME NEW u \in Uploads, SyncFile(u) PROVE AnswersFor(w, f)'
    <3>1. bytes' = bytes /\ disk'[f] = IF f = upload[u].file THEN bytes[f] ELSE disk[f]
      BY <2>5 DEF SyncFile, Flushed
    <3>2. CASE w = u
      <4>1. upload[w].st = "open" /\ upload[w].at = Chunks /\ upload[w].file = f
        BY <2>2, <2>5, <3>2 DEF SyncFile, AnswersFor
      <4>2. bytes[f] = Whole
        BY <2>2, <4>1 DEF AnswersFor
      <4>3. upload'[w].st = "synced"
        BY <2>5, <3>2 DEF SyncFile
      <4> QED BY <2>3, <3>1, <4>1, <4>2, <4>3, <3>2 DEF AnswersFor
    <3>3. CASE w # u
      <4>1. upload'[w] = upload[w]
        BY <2>5, <3>3 DEF SyncFile
      <4> QED BY <2>2, <3>1, <4>1 DEF AnswersFor
    <3> QED BY <3>2, <3>3
  <2>6. ASSUME NEW u \in Uploads, UploadFails(u) \/ RenameFile(u) \/ NothingToRename(u)
        PROVE  AnswersFor(w, f)'
    <3>1. bytes' = bytes /\ disk' = disk
      BY <2>6 DEF UploadFails, RenameFile, NothingToRename
    <3>2. \/ upload'[w].st = "failed" \/ upload'[w] = upload[w]
          \/ upload[w].st = "synced" /\ upload'[w].st # "open"
      BY <2>6 DEF UploadFails, RenameFile, NothingToRename
    <3> QED BY <2>2, <2>3, <3>1, <3>2 DEF AnswersFor
  <2>7. CASE MediaCrash
    <3>1. bytes'[f] \in {bytes[f], disk[f]} /\ disk'[f] = bytes'[f]
      BY <2>7 DEF MediaCrash
    <3>2. \/ upload'[w].st = "lost"
          \/ upload'[w] = upload[w] /\ upload[w].st # "open"
      BY <2>7 DEF MediaCrash
    <3> QED BY <2>2, <2>3, <3>1, <3>2 DEF AnswersFor
  <2>8. CASE ForgetFile \/ MediaTick \/ UNCHANGED mediaVars
    <3>1. upload' = upload /\ bytes' = bytes /\ disk' = disk
      BY <2>8 DEF ForgetFile, MediaTick, mediaVars
    <3> QED BY <2>2, <3>1 DEF AnswersFor
  <2> QED BY <1>2, <2>4, <2>5, <2>6, <2>7, <2>8 DEF MediaNext, Upload
<1> QED BY <1>1, <1>2

LEMMA FilesAlways == MediaSpec => []FilesInv
<1>1. MediaInit => FilesInv
  BY MediaAssumption, NoFileIsNoUpload
  DEF MediaInit, FilesInv, MediaTyped, UploadRecords, FilesNamed, PutByOneOfItsTime, FilesAnsweredFor, NotBegun,
      Names, Whole, Stages
<1>2. FilesInv /\ [MediaNext]_mediaVars => FilesInv'
  BY FilesTyped, NamesKept, PutInTimeKept, AnsweredForKept DEF FilesInv
<1> QED BY <1>1, <1>2, PTL DEF MediaSpec

(* However many uploads of one picture there are, and wherever they fail   *)
(* or the machine stops: what is read under its name is the whole picture, *)
(* or two uploads were begun in one millisecond and one of them had not    *)
(* got to its sync (server/media.mjs put).                                 *)
THEOREM HalfOnlyOfTwins == MediaSpec => []HalfIsOfTwins
<1>1. FilesInv => HalfIsOfTwins
  <2> SUFFICES ASSUME FilesInv, target # NoFile, bytes[target] # Whole
               PROVE  \E u, v \in Uploads :
                        /\ Began(u, v) /\ upload[u].st = "stored" /\ upload[v].file = target
                        /\ upload[v].st \in {"open", "failed", "lost"}
    BY DEF HalfIsOfTwins
  <2>1. target \in Uploads /\ upload[target].file = target
    BY DEF FilesInv, PutByOneOfItsTime, MadeAt
  <2>2. PICK u \in Uploads : upload[u].st = "stored" /\ upload[u].name = upload[target].name
    BY DEF FilesInv, PutByOneOfItsTime
  <2>3. PICK v \in Uploads : AnswersFor(v, target)
    BY <2>1 DEF FilesInv, FilesAnsweredFor
  <2>4. upload[v].file = target /\ upload[v].st \notin {"synced", "stored", "refused"}
    BY <2>3 DEF AnswersFor
  <2>5. upload[v].st # "idle"
    BY <2>1, <2>4, NoFileIsNoUpload DEF FilesInv, FilesNamed, NotBegun
  <2>6. upload[v].st \in {"open", "failed", "lost"}
    BY <2>4, <2>5 DEF FilesInv, MediaTyped, UploadRecords, Stages
  <2>7. upload[v].name = upload[target].name
    BY <2>4, <2>5 DEF FilesInv, FilesNamed, MadeAt
  <2> QED BY <2>2, <2>4, <2>6, <2>7 DEF Began
<1> QED BY <1>1, FilesAlways, PTL
=============================================================================
