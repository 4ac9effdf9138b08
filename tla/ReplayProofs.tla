---------------------------- MODULE ReplayProofs ----------------------------
(***************************************************************************)
(* Theorems about Replay, for every value of its constants: the table of   *)
(* posts and the clock, the pair ledger, and the balance sheet, which is   *)
(* what every act of core/replay.mjs does to the sums over accounts,       *)
(* escrows, bonds and burns.                                               *)
(*                                                                         *)
(*   1. PostInv and ClockInv, the posts, their index, the epoch            *)
(*   2. PairInv, the ledger that is never walked                           *)
(*   3. prices, fee splits, medians and the schedule are naturals          *)
(*   4. what one changed row, escrow or provider does to a sum             *)
(*   5. MoneyInv, the invariant of the books, over every act               *)
(*   6. that a claim and a rebate are fair to the others                   *)
(*   7. BondInv, that what is proven is bonded                             *)
(*   8. RailInv, that the supply stays within its rails                    *)
(*   9. that every act lands as Ledger says                                *)
(***************************************************************************)
EXTENDS Rulebook, AccountingTheorems

(* Posts are numbered in the order they are published, with no gap.        *)
PidsInOrder == \A p \in Pids : posts[p].state = "none" <=> p > seq

LEMMA NatProduct == ASSUME NEW x \in Nat, NEW y \in Nat PROVE x * y \in Nat
OBVIOUS

LEMMA LifetimeNat == Params.lifetime \in Nat
BY ParamsAssumption DEF Pos

(* The inductive strengthening of CidIndexExact: a new post takes the next *)
(* pid, so it can overwrite no other, and takes a cid nobody holds.        *)
PostInv ==
  /\ PostsTypeOK
  /\ PidsInOrder
  /\ \A p \in Pids : posts[p].state = "live" => posts[p].cid \in Cids
  /\ CidIndexExact

-----------------------------------------------------------------------------
(* Only three acts touch the post table, the cid index or the counter.     *)
LEMMA PostFrame ==
  ASSUME NEW a \in Addr, NEW t \in Stamps,
         IdentityNext(a, t) \/ PoolNext(a, t) \/ EngagementNext(a, t)
           \/ CapacityNext(a, t) \/ EpochNext(a, t)
  PROVE  UNCHANGED <<posts, cids, seq>>
<1>1. CASE IdentityNext(a, t)
  BY <1>1 DEF IdentityNext, Register, BurnClaim, postVars
<1>2. CASE PoolNext(a, t)
  BY <1>2 DEF PoolNext, SwapBtc, SwapPtp, LiqAdd, LiqRemove, postVars
<1>3. CASE EngagementNext(a, t)
  BY <1>3 DEF EngagementNext, View, Like, Comment, CommitEngagement
<1>4. CASE CapacityNext(a, t)
  BY <1>4 DEF CapacityNext, CapBuy, CapPledge, CapProof, CapClaim, postVars
<1>5. CASE EpochNext(a, t)
  BY <1>5 DEF EpochNext, RulesSet, CloseEpoch, postVars
<1> QED BY <1>1, <1>2, <1>3, <1>4, <1>5

LEMMA PostKeepsPostInv ==
  ASSUME PostInv, NEW a \in Addr, NEW t \in Stamps, NEW c \in Cids,
         NEW bytes \in Inputs.bytes, NEW price \in Inputs.prices, NEW d \in Inputs.days,
         Post(a, t, c, bytes, price, d)
  PROVE  PostInv'
<1> DEFINE p == seq + 1
<1> USE DEF PostInv
<1>1. p \in Pids /\ seq' = p
  BY BoundsAssumption DEF Post, Pids, PostsTypeOK
<1>2. t + d * Params.lifetime \in Nat
  <2>1. t \in Nat /\ d \in Nat
    BY BoundsAssumption, InputsAssumption DEF Pos
  <2>2. d * Params.lifetime \in Nat
    BY <2>1, LifetimeNat, NatProduct
  <2> QED BY <2>1, <2>2
<1>3. posts' = [posts EXCEPT ![p] =
                  [author |-> a, cid |-> c, bytes |-> bytes, price |-> price,
                   expires |-> t + d * Params.lifetime, state |-> "live"]]
  BY DEF Post
<1>4. cids' = [cids EXCEPT ![c] = p] /\ cids[c] = 0
  BY DEF Post
<1>5. PostsTypeOK'
  <2>1. bytes \in Nat /\ price \in Nat
    BY InputsAssumption DEF Pos
  <2>2. posts' \in [Pids -> [author : Addr \cup {NoAddr}, cid : Cids \cup {0}, bytes : Nat,
                             price : Nat, expires : Nat, state : {"none", "live", "settled"}]]
    BY <1>2, <1>3, <2>1 DEF PostsTypeOK
  <2>3. cids' \in [Cids -> 0 .. MaxPosts] /\ seq' \in 0 .. MaxPosts
    BY <1>1, <1>4 DEF PostsTypeOK, Pids
  <2> QED BY <2>2, <2>3 DEF PostsTypeOK
<1>6. PidsInOrder'
  BY <1>1, <1>3, BoundsAssumption, SMTT(60) DEF PidsInOrder, PostsTypeOK, Pids
<1>7. \A q \in Pids : q # p => posts'[q] = posts[q]
  BY <1>3 DEF PostsTypeOK
<1>8. posts'[p].state = "live" /\ posts'[p].cid = c
  BY <1>1, <1>3 DEF PostsTypeOK
<1>9. posts[p].state = "none"
  BY <1>1, BoundsAssumption DEF PidsInOrder, PostsTypeOK, Pids
<1>10. CidIndexExact'
  <2>1. ASSUME NEW k \in Cids, cids'[k] # 0
        PROVE  posts'[cids'[k]].state = "live" /\ posts'[cids'[k]].cid = k
    <3>1. CASE k = c
      BY <3>1, <1>4, <1>8 DEF PostsTypeOK
    <3>2. CASE k # c
      <4>1. cids'[k] = cids[k] /\ cids[k] # 0 /\ cids[k] \in Pids
        BY <2>1, <3>2, <1>4, BoundsAssumption DEF PostsTypeOK, Pids
      <4>2. posts[cids[k]].state = "live" /\ posts[cids[k]].cid = k
        BY <4>1 DEF CidIndexExact
      <4> QED BY <4>1, <4>2, <1>7, <1>9
    <3> QED BY <3>1, <3>2
  <2>2. ASSUME NEW q \in Pids, posts'[q].state = "live"
        PROVE  cids'[posts'[q].cid] = q
    <3>1. CASE q = p
      BY <3>1, <1>4, <1>8 DEF PostsTypeOK
    <3>2. CASE q # p
      <4>1. posts[q].state = "live" /\ cids[posts[q].cid] = q
        BY <2>2, <3>2, <1>7 DEF CidIndexExact
      <4>2. posts[q].cid # c
        BY <4>1, <1>4, BoundsAssumption DEF Pids
      <4> QED BY <4>1, <4>2, <3>2, <1>4, <1>7 DEF PostsTypeOK
    <3> QED BY <3>1, <3>2
  <2> QED BY <2>1, <2>2 DEF CidIndexExact
<1>11. \A q \in Pids : posts'[q].state = "live" => posts'[q].cid \in Cids
  BY <1>7, <1>8
<1> QED BY <1>5, <1>6, <1>10, <1>11

LEMMA ExtendKeepsPostInv ==
  ASSUME PostInv, NEW a \in Addr, NEW t \in Stamps, NEW p \in Pids,
         NEW d \in Inputs.days, Extend(a, t, p, d)
  PROVE  PostInv'
<1> USE DEF PostInv
<1>1. posts' = [posts EXCEPT ![p].expires = @ + d * Params.lifetime]
      /\ UNCHANGED <<cids, seq>>
  BY DEF Extend
<1>2. posts[p].expires + d * Params.lifetime \in Nat
  <2>1. d \in Nat
    BY InputsAssumption DEF Pos
  <2>2. d * Params.lifetime \in Nat
    BY <2>1, LifetimeNat, NatProduct
  <2> QED BY <2>2 DEF PostsTypeOK
<1>3. PostsTypeOK'
  BY <1>1, <1>2 DEF PostsTypeOK
<1>4. \A q \in Pids : posts'[q].state = posts[q].state /\ posts'[q].cid = posts[q].cid
  BY <1>1 DEF PostsTypeOK
<1>5. PidsInOrder'
  BY <1>1, <1>4 DEF PidsInOrder
<1>6. \A k \in Cids : cids[k] # 0 => cids[k] \in Pids
  BY BoundsAssumption DEF PostsTypeOK, Pids
<1>7. CidIndexExact'
  BY <1>1, <1>4, <1>6 DEF CidIndexExact
<1> QED BY <1>3, <1>4, <1>5, <1>7

LEMMA SettleKeepsPostInv ==
  ASSUME PostInv, NEW a \in Addr, NEW t \in Stamps, NEW p \in Pids, Settle(a, t, p)
  PROVE  PostInv'
<1> USE DEF PostInv
<1>1. /\ posts' = [posts EXCEPT ![p].state = "settled"]
      /\ cids' = [c \in Cids |-> IF c = posts[p].cid /\ cids[c] = p THEN 0 ELSE cids[c]]
      /\ seq' = seq
      /\ posts[p].state = "live"
  BY DEF Settle, Released, Open
<1>2. PostsTypeOK'
  BY <1>1, BoundsAssumption DEF PostsTypeOK
<1>3. /\ \A q \in Pids : posts'[q].cid = posts[q].cid
      /\ \A q \in Pids : q # p => posts'[q].state = posts[q].state
      /\ posts'[p].state = "settled"
  BY <1>1 DEF PostsTypeOK
<1>4. PidsInOrder'
  BY <1>1, <1>3 DEF PidsInOrder
<1>5. ASSUME NEW k \in Cids, cids'[k] # 0
      PROVE  posts'[cids'[k]].state = "live" /\ posts'[cids'[k]].cid = k
  <2>1. cids'[k] = cids[k] /\ cids[k] \in Pids
    BY <1>1, <1>5, BoundsAssumption DEF PostsTypeOK, Pids
  <2>2. posts[cids[k]].state = "live" /\ posts[cids[k]].cid = k
    BY <2>1, <1>5 DEF CidIndexExact
  <2>3. cids[k] # p
    BY <2>1, <2>2, <1>1, <1>5
  <2> QED BY <2>1, <2>2, <2>3, <1>3
<1>6. ASSUME NEW q \in Pids, posts'[q].state = "live"
      PROVE  cids'[posts'[q].cid] = q
  <2>1. q # p /\ posts[q].state = "live" /\ cids[posts[q].cid] = q
    BY <1>3, <1>6 DEF CidIndexExact
  <2>2. posts[q].cid \in Cids
    BY <2>1
  <2> QED BY <2>1, <2>2, <1>1, <1>3
<1> QED BY <1>2, <1>3, <1>4, <1>5, <1>6 DEF CidIndexExact

LEMMA PostInvInit == Init => PostInv
<1> SUFFICES ASSUME Init PROVE PostInv
  OBVIOUS
<1>1. PostsTypeOK
  BY BoundsAssumption DEF Init, PostsTypeOK, NoPost
<1>2. \A p \in Pids : posts[p].state = "none" /\ p > 0
  BY DEF Init, NoPost, Pids
<1>3. seq = 0 /\ \A c \in Cids : cids[c] = 0
  BY DEF Init
<1> QED BY <1>1, <1>2, <1>3 DEF PostInv, PidsInOrder, CidIndexExact

LEMMA PostInvNext == PostInv /\ [Next]_vars => PostInv'
<1> SUFFICES ASSUME PostInv, [Next]_vars PROVE PostInv'
  OBVIOUS
<1>1. CASE UNCHANGED <<posts, cids, seq>>
  BY <1>1 DEF PostInv, PostsTypeOK, PidsInOrder, CidIndexExact
<1>2. CASE UNCHANGED vars
  BY <1>1, <1>2 DEF vars, postVars
<1>3. ASSUME NEW a \in Addr, NEW t \in Stamps, Act(a, t) PROVE PostInv'
  <2>1. CASE IdentityNext(a, t) \/ PoolNext(a, t) \/ EngagementNext(a, t)
               \/ CapacityNext(a, t) \/ EpochNext(a, t)
    BY <2>1, <1>1, PostFrame
  <2>2. CASE WallNext(a, t)
    BY <2>2, PostKeepsPostInv, ExtendKeepsPostInv, SettleKeepsPostInv DEF WallNext
  <2> QED BY <1>3, <2>1, <2>2 DEF Act
<1> QED BY <1>2, <1>3 DEF Next

(* The post table is well formed in every reachable world.                 *)
THEOREM PostsWellTyped == Spec => []PostsTypeOK
<1>1. PostInv => PostsTypeOK
  BY DEF PostInv
<1> QED BY <1>1, PostInvInit, PostInvNext, PTL DEF Spec

(* Whatever is posted, extended and settled in whatever order, the cid     *)
(* index names exactly the unsettled posts (core/replay.mjs, cids).        *)
THEOREM CidIndexIsExact == Spec => []CidIndexExact
<1>1. PostInv => CidIndexExact
  BY DEF PostInv
<1> QED BY <1>1, PostInvInit, PostInvNext, PTL DEF Spec
-----------------------------------------------------------------------------
(* The columns of the post table all have one row per pid.                 *)
Columns == DOMAIN escrow = Pids /\ DOMAIN credit = Pids /\ DOMAIN tally = Pids

SettledRowKept(p) ==
  /\ posts'[p] = posts[p]
  /\ escrow'[p] = escrow[p]
  /\ credit'[p] = credit[p]
  /\ tally'[p] = tally[p]

LEMMA ColumnsInit == Init => Columns
BY DEF Init, Columns

(* Five kinds of act write a column of the post table; all the others      *)
(* leave every column alone.                                               *)
LEMMA ColumnFrame ==
  ASSUME NEW a \in Addr, NEW t \in Stamps,
         \/ IdentityNext(a, t) \/ PoolNext(a, t) \/ EpochNext(a, t)
         \/ \E ptp \in Inputs.amounts : CapBuy(a, t, ptp)
         \/ \E mb \in Inputs.mbs : CapPledge(a, t, mb)
         \/ \E p \in Pids, s \in Inputs.shards : CapProof(a, t, p, s)
  PROVE  UNCHANGED <<posts, escrow, credit, tally>>
<1>1. CASE IdentityNext(a, t)
  BY <1>1 DEF IdentityNext, Register, BurnClaim, postVars
<1>2. CASE PoolNext(a, t)
  BY <1>2 DEF PoolNext, SwapBtc, SwapPtp, LiqAdd, LiqRemove, postVars
<1>3. CASE EpochNext(a, t)
  BY <1>3 DEF EpochNext, RulesSet, CloseEpoch, postVars
<1>4. CASE \/ \E ptp \in Inputs.amounts : CapBuy(a, t, ptp)
           \/ \E mb \in Inputs.mbs : CapPledge(a, t, mb)
           \/ \E p \in Pids, s \in Inputs.shards : CapProof(a, t, p, s)
  BY <1>4 DEF CapBuy, CapPledge, CapProof, postVars
<1> QED BY <1>1, <1>2, <1>3, <1>4

(* A new post takes a row that was empty.                                  *)
LEMMA PostKeepsSettled ==
  ASSUME PostInv, Columns, NEW a \in Addr, NEW t \in Stamps, NEW c \in Cids,
         NEW bytes \in Inputs.bytes, NEW price \in Inputs.prices, NEW d \in Inputs.days,
         Post(a, t, c, bytes, price, d)
  PROVE  /\ Columns'
         /\ \A q \in Pids : posts[q].state = "settled" => SettledRowKept(q)
<1> DEFINE p == seq + 1
<1>1. posts[p].state = "none"
  BY BoundsAssumption DEF Post, PostInv, PidsInOrder, PostsTypeOK, Pids
<1>2. /\ \E r : posts' = [posts EXCEPT ![p] = r]
      /\ \E e : escrow' = [escrow EXCEPT ![p] = e]
      /\ UNCHANGED <<credit, tally>>
  BY DEF Post
<1>3. Columns'
  BY <1>2 DEF Columns
<1>4. ASSUME NEW q \in Pids, posts[q].state = "settled" PROVE SettledRowKept(q)
  <2>1. q # p
    BY <1>1, <1>4
  <2> QED BY <2>1, <1>2 DEF SettledRowKept, Columns, PostInv, PostsTypeOK
<1> QED BY <1>3, <1>4

(* Extending, settling and engaging need an open post.                     *)
LEMMA OpenActKeepsSettled ==
  ASSUME PostInv, Columns, NEW a \in Addr, NEW t \in Stamps, NEW p \in Pids,
         \/ \E d \in Inputs.days : Extend(a, t, p, d)
         \/ Settle(a, t, p)
         \/ \E s \in Inputs.seqs : View(a, t, p, s)
         \/ Like(a, t, p)
         \/ Comment(a, t, p)
  PROVE  /\ Columns'
         /\ \A q \in Pids : posts[q].state = "settled" => SettledRowKept(q)
<1>1. /\ posts[p].state = "live"
      /\ posts' = posts \/ \E r : posts' = [posts EXCEPT ![p] = r]
      /\ \E e : escrow' = [escrow EXCEPT ![p] = e]
      /\ credit' = credit \/ \E w : credit' = [credit EXCEPT ![p] = w]
      /\ DOMAIN tally' = Pids /\ \A q \in Pids \ {p} : tally'[q] = tally[q]
  <2>1. CASE \E d \in Inputs.days : Extend(a, t, p, d)
    BY <2>1, ZenonT(60) DEF Extend, Open, Columns
  <2>2. CASE Settle(a, t, p)
    BY <2>2 DEF Settle, Open, Columns
  <2>3. CASE \E s \in Inputs.seqs : View(a, t, p, s)
    <3>1. /\ posts[p].state = "live"
          /\ posts' = posts
          /\ \E e : escrow' = [escrow EXCEPT ![p] = e]
          /\ \E w : credit' = [credit EXCEPT ![p] = w]
      BY <2>3 DEF View, EngagementPlan, Live, Open, CommitEngagement
    <3>2. DOMAIN tally' = Pids /\ \A q \in Pids \ {p} : tally'[q] = tally[q]
      BY <2>3 DEF View, Columns
    <3> QED BY <3>1, <3>2
  <2>4. CASE Like(a, t, p)
    BY <2>4 DEF Like, EngagementPlan, Live, Open, CommitEngagement, Columns
  <2>5. CASE Comment(a, t, p)
    BY <2>5 DEF Comment, EngagementPlan, Live, Open, CommitEngagement, Columns
  <2> QED BY <2>1, <2>2, <2>3, <2>4, <2>5
<1>2. Columns'
  BY <1>1 DEF Columns
<1>3. ASSUME NEW q \in Pids, posts[q].state = "settled" PROVE SettledRowKept(q)
  <2>1. q # p
    BY <1>1, <1>3
  <2>2. posts'[q] = posts[q]
    BY <2>1, <1>1 DEF PostInv, PostsTypeOK
  <2>3. escrow'[q] = escrow[q] /\ credit'[q] = credit[q] /\ tally'[q] = tally[q]
    BY <2>1, <1>1 DEF Columns
  <2> QED BY <2>2, <2>3 DEF SettledRowKept
<1> QED BY <1>2, <1>3

(* A claim walks the live posts only.                                      *)
LEMMA ClaimKeepsSettled ==
  ASSUME Columns, NEW a \in Addr, NEW t \in Stamps, CapClaim(a, t)
  PROVE  /\ Columns'
         /\ \A q \in Pids : posts[q].state = "settled" => SettledRowKept(q)
<1>1. /\ escrow' = [p \in Pids |-> IF p \in Claimable(a) THEN Drawn(a, p) ELSE escrow[p]]
      /\ UNCHANGED <<posts, credit, tally>>
  BY DEF CapClaim
<1>2. \A q \in Pids : posts[q].state = "settled" => q \notin Claimable(a)
  BY DEF Claimable
<1>3. Columns'
  BY <1>1 DEF Columns
<1>4. \A q \in Pids : posts[q].state = "settled" => SettledRowKept(q)
  BY <1>1, <1>2 DEF SettledRowKept
<1> QED BY <1>3, <1>4

LEMMA StepKeepsSettled ==
  PostInv /\ Columns /\ [Next]_vars =>
    Columns' /\ \A q \in Pids : posts[q].state = "settled" => SettledRowKept(q)
<1> DEFINE Kept ==
      Columns' /\ \A q \in Pids : posts[q].state = "settled" => SettledRowKept(q)
<1> SUFFICES ASSUME PostInv, Columns, [Next]_vars PROVE Kept
  OBVIOUS
<1>1. CASE UNCHANGED <<posts, escrow, credit, tally>>
  BY <1>1 DEF Columns, SettledRowKept
<1>2. CASE UNCHANGED vars
  BY <1>1, <1>2 DEF vars, postVars
<1>3. ASSUME NEW a \in Addr, NEW t \in Stamps, Act(a, t) PROVE Kept
  <2> HIDE DEF Kept
  <2>1. CASE IdentityNext(a, t) \/ PoolNext(a, t) \/ EpochNext(a, t)
    <3>1. UNCHANGED <<posts, escrow, credit, tally>>
      BY <2>1, ColumnFrame
    <3> QED BY <3>1, <1>1
  <2>2. CASE WallNext(a, t)
    BY <2>2, PostKeepsSettled, OpenActKeepsSettled DEF WallNext, Kept
  <2>3. CASE EngagementNext(a, t)
    BY <2>3, OpenActKeepsSettled DEF EngagementNext, Kept
  <2>4. CASE CapacityNext(a, t)
    <3>1. CASE CapClaim(a, t)
      BY <3>1, ClaimKeepsSettled DEF Kept
    <3>2. CASE ~CapClaim(a, t)
      <4>1. UNCHANGED <<posts, escrow, credit, tally>>
        BY <2>4, <3>2, ColumnFrame DEF CapacityNext
      <4> QED BY <4>1, <1>1
    <3> QED BY <3>1, <3>2
  <2> QED BY <1>3, <2>1, <2>2, <2>3, <2>4 DEF Act
<1> QED BY <1>2, <1>3 DEF Next

(* No act, in any order, reopens a settled post, pays it a second time or  *)
(* lets it collect another fee (core/replay.mjs, settle and every plan     *)
(* that looks a post up).                                                  *)
THEOREM SettlementIsFinal == Spec => SettledIsFinal
<1>1. PostInv /\ Columns /\ [Next]_vars =>
        [\A p \in Pids : posts[p].state = "settled" =>
           /\ posts'[p] = posts[p]
           /\ escrow'[p] = escrow[p]
           /\ credit'[p] = credit[p]
           /\ tally'[p] = tally[p]]_vars
  BY StepKeepsSettled DEF SettledRowKept
<1>2. PostInv /\ Columns /\ [Next]_vars => Columns'
  BY StepKeepsSettled
<1> QED
  BY <1>1, <1>2, PostInvInit, PostInvNext, ColumnsInit, PTL DEF Spec, SettledIsFinal
-----------------------------------------------------------------------------
(* The clock of the rules: RulesOnTime is inductive once the numbers it    *)
(* compares are known to be numbers.                                       *)
ClockInv ==
  /\ DOMAIN epoch = {"n", "startedAt", "burned", "rate"} /\ epoch.n \in Nat
  /\ rules \in [fromEpoch : Nat, next : Nat]
  /\ RulesOnTime

(* The number of the epoch and the shape of its record.                    *)
SameEpoch == DOMAIN epoch' = DOMAIN epoch /\ epoch'.n = epoch.n

(* An act may stamp the start of the genesis epoch and count a burn.       *)
LEMMA QuietKeepsNumber ==
  ASSUME ClockInv, NEW t, LandsQuietly(t)
  PROVE  SameEpoch
BY DEF ClockInv, LandsQuietly, Started, SameEpoch

LEMMA BurnKeepsNumber ==
  ASSUME ClockInv, NEW t, NEW b, epoch' = Burned(Started(epoch, t), b)
  PROVE  SameEpoch
BY DEF ClockInv, Burned, Started, SameEpoch

LEMMA EngagementKeepsNumber ==
  ASSUME ClockInv, NEW kind, NEW a, NEW t, NEW p, NEW s, CommitEngagement(kind, a, t, p, s)
  PROVE  rules' = rules /\ SameEpoch
<1>1. rules' = rules
  BY DEF CommitEngagement
<1> DEFINE burn == SplitFee(EngagementFee(p, kind), Params.fee).burn
<1>2. epoch' = Burned(Started(epoch, t), burn)
  BY DEF CommitEngagement
<1>3. SameEpoch
  <2> HIDE DEF burn
  <2> QED BY <1>2, BurnKeepsNumber
<1> QED BY <1>1, <1>3

LEMMA PublishKeepsNumber ==
  ASSUME ClockInv, NEW a, NEW t, NEW c, NEW bytes, NEW price, NEW d,
         Post(a, t, c, bytes, price, d)
  PROVE  rules' = rules /\ SameEpoch
<1>1. rules' = rules
  BY DEF Post, epochVars
<1> DEFINE burn == SplitFee(PriceOf(Params.publishBase, epoch.rate), Params.publish).burn
<1>2. epoch' = Burned(Started(epoch, t), burn)
  BY DEF Post
<1>3. SameEpoch
  <2> HIDE DEF burn
  <2> QED BY <1>2, BurnKeepsNumber
<1> QED BY <1>1, <1>3

LEMMA SettleKeepsNumber ==
  ASSUME ClockInv, NEW a, NEW t, NEW p, Settle(a, t, p)
  PROVE  rules' = rules /\ SameEpoch
<1>1. rules' = rules
  BY DEF Settle, epochVars
<1>2. PICK burn : epoch' = Burned(Started(epoch, t), burn)
  BY Zenon DEF Settle
<1> QED BY <1>1, <1>2, BurnKeepsNumber

LEMMA RulesFrame ==
  ASSUME ClockInv, NEW a \in Addr, NEW t \in Stamps,
         IdentityNext(a, t) \/ PoolNext(a, t) \/ WallNext(a, t)
           \/ EngagementNext(a, t) \/ CapacityNext(a, t)
  PROVE  rules' = rules /\ SameEpoch
<1>1. CASE IdentityNext(a, t)
  BY <1>1, QuietKeepsNumber DEF IdentityNext, Register, BurnClaim, epochVars
<1>2. CASE PoolNext(a, t)
  BY <1>2, QuietKeepsNumber DEF PoolNext, SwapBtc, SwapPtp, LiqAdd, LiqRemove, epochVars
<1>3. CASE WallNext(a, t)
  <2>1. ASSUME NEW p \in Pids, NEW d \in Inputs.days, Extend(a, t, p, d)
        PROVE  rules' = rules /\ SameEpoch
    BY <2>1, QuietKeepsNumber DEF Extend, epochVars
  <2> QED BY <1>3, <2>1, PublishKeepsNumber, SettleKeepsNumber DEF WallNext
<1>4. CASE EngagementNext(a, t)
  BY <1>4, EngagementKeepsNumber DEF EngagementNext, View, Like, Comment
<1>5. CASE CapacityNext(a, t)
  BY <1>5, QuietKeepsNumber
     DEF CapacityNext, CapBuy, CapPledge, CapProof, CapClaim, epochVars
<1> QED BY <1>1, <1>2, <1>3, <1>4, <1>5

(* A change is scheduled for an epoch to come.                             *)
LEMMA RulesSetKeepsClock ==
  ASSUME ClockInv, NEW a \in Addr, NEW t \in Stamps, NEW from \in Inputs.froms,
         RulesSet(a, t, from)
  PROVE  ClockInv'
<1>1. from \in Nat /\ from > epoch.n
  BY InputsAssumption DEF RulesSet
<1>2. SameEpoch
  BY QuietKeepsNumber DEF RulesSet
<1>3. rules' = [rules EXCEPT !.next = from]
  BY DEF RulesSet
<1>4. rules' \in [fromEpoch : Nat, next : Nat]
  BY <1>1, <1>3 DEF ClockInv
<1>5. rules'.next = from /\ rules'.fromEpoch = rules.fromEpoch
  BY <1>3 DEF ClockInv
<1> QED BY <1>1, <1>2, <1>4, <1>5 DEF ClockInv, RulesOnTime, SameEpoch

(* A close advances the number by one and takes up a change that is due.   *)
LEMMA CloseKeepsClock ==
  ASSUME ClockInv, NEW a \in Addr, NEW t \in Stamps, NEW oracle \in Inputs.oracles,
         CloseEpoch(a, t, oracle)
  PROVE  ClockInv'
<1>1. DOMAIN epoch' = {"n", "startedAt", "burned", "rate"} /\ epoch'.n = epoch.n + 1
  BY DEF CloseEpoch, NextEpoch
<1>2. rules' = IF rules.next # 0 /\ rules.next <= epoch.n + 1
               THEN [fromEpoch |-> rules.next, next |-> 0] ELSE rules
  BY DEF CloseEpoch, RulesAt
<1>3. CASE rules.next # 0 /\ rules.next <= epoch.n + 1
  BY <1>1, <1>2, <1>3 DEF ClockInv, RulesOnTime
<1>4. CASE ~(rules.next # 0 /\ rules.next <= epoch.n + 1)
  BY <1>1, <1>2, <1>4 DEF ClockInv, RulesOnTime
<1> QED BY <1>3, <1>4

LEMMA ClockInvInit == Init => ClockInv
BY DEF Init, ClockInv, RulesOnTime

LEMMA ClockInvNext == ClockInv /\ [Next]_vars => ClockInv'
<1> SUFFICES ASSUME ClockInv, [Next]_vars PROVE ClockInv'
  OBVIOUS
<1>1. CASE rules' = rules /\ SameEpoch
  BY <1>1 DEF ClockInv, RulesOnTime, SameEpoch
<1>2. CASE UNCHANGED vars
  BY <1>1, <1>2 DEF vars, epochVars, SameEpoch
<1>3. ASSUME NEW a \in Addr, NEW t \in Stamps, Act(a, t) PROVE ClockInv'
  <2>1. CASE EpochNext(a, t)
    BY <2>1, RulesSetKeepsClock, CloseKeepsClock DEF EpochNext
  <2>2. CASE ~EpochNext(a, t)
    BY <1>1, <1>3, <2>2, RulesFrame DEF Act
  <2> QED BY <2>1, <2>2
<1> QED BY <1>2, <1>3 DEF Next

(* A change of the rules is in force from its epoch on, neither before nor *)
(* after, however closes and schedules interleave (core/replay.mjs,        *)
(* rulesSet and closeEpoch).                                               *)
THEOREM ChangeIsOnTime == Spec => []RulesOnTime
<1>1. ClockInv => RulesOnTime
  BY DEF ClockInv
<1> QED BY <1>1, ClockInvInit, ClockInvNext, PTL DEF Spec
-----------------------------------------------------------------------------
(* The (viewer, post) ledger, with what makes the pair cap inductive: the  *)
(* views the ledger counts for the running epoch are the views that landed *)
(* in it, and no row is of an epoch to come.                               *)
Tally == [views : Nat, unique : Nat, likes : Nat, comments : Nat]
Pair  == [at : Nat, n : Nat, epoch : Nat, viewed : BOOLEAN, liked : BOOLEAN]

PairTypeOK ==
  /\ tally \in [Pids -> Tally]
  /\ views \in [Addr \X Pids -> Pair]
  /\ landed \in [Addr \X Pids \X Engagement -> Nat]

PairInv ==
  /\ PairTypeOK
  /\ TallyMatchesLedger
  /\ \A a \in Addr, p \in Pids :
       /\ views[<<a, p>>].epoch <= epoch.n
       /\ landed[<<a, p, "view">>] = ViewsThisEpoch(views[<<a, p>>])
       /\ ViewsThisEpoch(views[<<a, p>>]) <= Params.pairCap

(* One pair's row and the counters of its post are replaced.               *)
LEMMA OneRow ==
  ASSUME PairTypeOK, NEW a \in Addr, NEW p \in Pids, NEW row \in Pair, NEW count \in Tally,
         views' = [views EXCEPT ![<<a, p>>] = row],
         tally' = [tally EXCEPT ![p] = count]
  PROVE  /\ views' \in [Addr \X Pids -> Pair] /\ tally' \in [Pids -> Tally]
         /\ views'[<<a, p>>] = row /\ tally'[p] = count
         /\ \A b \in Addr, q \in Pids : <<b, q>> # <<a, p>> => views'[<<b, q>>] = views[<<b, q>>]
         /\ \A q \in Pids : q # p => tally'[q] = tally[q]
BY DEF PairTypeOK

(* A flag raised for one more address is one more in the count of them.    *)
LEMMA OneMore ==
  ASSUME NEW f \in [Addr -> BOOLEAN], NEW g \in [Addr -> BOOLEAN], NEW a \in Addr,
         \A b \in Addr : b # a => g[b] = f[b], g[a]
  PROVE  Cardinality({b \in Addr : g[b]})
           = Cardinality({b \in Addr : f[b]}) + IF f[a] THEN 0 ELSE 1
<1> DEFINE F == {b \in Addr : f[b]}
           G == {b \in Addr : g[b]}
<1>1. IsFiniteSet(F) /\ Cardinality(F) \in Nat
  BY BoundsAssumption, FS_Subset, FS_CardinalityType
<1>2. CASE f[a]
  <2>1. G = F
    BY <1>2
  <2> QED BY <1>1, <1>2, <2>1
<1>3. CASE ~f[a]
  <2>1. G = F \cup {a} /\ a \notin F
    BY <1>3
  <2> HIDE DEF F, G
  <2>2. Cardinality(G) = Cardinality(F) + 1
    BY <1>1, <2>1, FS_AddElement
  <2> QED BY <1>3, <2>2 DEF F, G
<1> QED BY <1>2, <1>3

(* The same for the two flags of the ledger.                               *)
LEMMA LedgerCounts ==
  ASSUME PairTypeOK, PairTypeOK', TallyMatchesLedger, NEW a \in Addr, NEW p \in Pids,
         \A b \in Addr, q \in Pids : <<b, q>> # <<a, p>> => views'[<<b, q>>] = views[<<b, q>>],
         \A q \in Pids : q # p => tally'[q] = tally[q],
         \/ /\ views'[<<a, p>>].liked
            /\ tally'[p].likes = tally[p].likes + IF views[<<a, p>>].liked THEN 0 ELSE 1
         \/ /\ views'[<<a, p>>].liked = views[<<a, p>>].liked
            /\ tally'[p].likes = tally[p].likes,
         \/ /\ views'[<<a, p>>].viewed
            /\ tally'[p].unique = tally[p].unique + IF views[<<a, p>>].viewed THEN 0 ELSE 1
         \/ /\ views'[<<a, p>>].viewed = views[<<a, p>>].viewed
            /\ tally'[p].unique = tally[p].unique
  PROVE  TallyMatchesLedger'
<1> SUFFICES ASSUME NEW q \in Pids
             PROVE  /\ tally'[q].likes = Cardinality({b \in Addr : views'[<<b, q>>].liked})
                    /\ tally'[q].unique = Cardinality({b \in Addr : views'[<<b, q>>].viewed})
  BY DEF TallyMatchesLedger
<1>1. /\ tally[q].likes = Cardinality({b \in Addr : views[<<b, q>>].liked})
      /\ tally[q].unique = Cardinality({b \in Addr : views[<<b, q>>].viewed})
  BY DEF TallyMatchesLedger
<1>2. CASE q # p
  <2>1. \A b \in Addr : views'[<<b, q>>] = views[<<b, q>>]
    BY <1>2
  <2>2. tally'[q] = tally[q]
    BY <1>2
  <2> QED BY <1>1, <2>1, <2>2
<1>3. CASE q = p
  <2> DEFINE likedOnce  == [b \in Addr |-> views[<<b, p>>].liked]
             likedNow   == [b \in Addr |-> views'[<<b, p>>].liked]
             viewedOnce == [b \in Addr |-> views[<<b, p>>].viewed]
             viewedNow  == [b \in Addr |-> views'[<<b, p>>].viewed]
  <2>1. /\ likedOnce \in [Addr -> BOOLEAN] /\ likedNow \in [Addr -> BOOLEAN]
        /\ viewedOnce \in [Addr -> BOOLEAN] /\ viewedNow \in [Addr -> BOOLEAN]
    BY DEF PairTypeOK, Pair
  <2>2. \A b \in Addr : b # a => likedNow[b] = likedOnce[b] /\ viewedNow[b] = viewedOnce[b]
    OBVIOUS
  <2>3. /\ tally[p].likes = Cardinality({b \in Addr : likedOnce[b]})
        /\ tally[p].unique = Cardinality({b \in Addr : viewedOnce[b]})
    BY <1>1, <1>3
  <2>4. \/ likedNow[a] /\ tally'[p].likes = tally[p].likes + IF likedOnce[a] THEN 0 ELSE 1
        \/ likedNow[a] = likedOnce[a] /\ tally'[p].likes = tally[p].likes
    OBVIOUS
  <2>5. \/ viewedNow[a] /\ tally'[p].unique = tally[p].unique + IF viewedOnce[a] THEN 0 ELSE 1
        \/ viewedNow[a] = viewedOnce[a] /\ tally'[p].unique = tally[p].unique
    OBVIOUS
  <2>6. /\ {b \in Addr : likedNow[b]} = {b \in Addr : views'[<<b, q>>].liked}
        /\ {b \in Addr : viewedNow[b]} = {b \in Addr : views'[<<b, q>>].viewed}
    BY <1>3
  <2> HIDE DEF likedOnce, likedNow, viewedOnce, viewedNow
  <2>7. tally'[p].likes = Cardinality({b \in Addr : likedNow[b]})
    <3>1. CASE likedNow[a] = likedOnce[a] /\ tally'[p].likes = tally[p].likes
      <4>1. \A b \in Addr : likedNow[b] = likedOnce[b]
        BY <2>2, <3>1
      <4>2. {b \in Addr : likedNow[b]} = {b \in Addr : likedOnce[b]}
        BY <4>1
      <4> QED BY <2>3, <3>1, <4>2
    <3>2. CASE likedNow[a] /\ tally'[p].likes = tally[p].likes + IF likedOnce[a] THEN 0 ELSE 1
      <4>1. Cardinality({b \in Addr : likedNow[b]})
              = Cardinality({b \in Addr : likedOnce[b]}) + IF likedOnce[a] THEN 0 ELSE 1
        BY <2>1, <2>2, <3>2, OneMore
      <4> QED BY <2>3, <3>2, <4>1
    <3> QED BY <2>4, <3>1, <3>2
  <2>8. tally'[p].unique = Cardinality({b \in Addr : viewedNow[b]})
    <3>1. CASE viewedNow[a] = viewedOnce[a] /\ tally'[p].unique = tally[p].unique
      <4>1. \A b \in Addr : viewedNow[b] = viewedOnce[b]
        BY <2>2, <3>1
      <4>2. {b \in Addr : viewedNow[b]} = {b \in Addr : viewedOnce[b]}
        BY <4>1
      <4> QED BY <2>3, <3>1, <4>2
    <3>2. CASE viewedNow[a] /\ tally'[p].unique = tally[p].unique + IF viewedOnce[a] THEN 0 ELSE 1
      <4>1. Cardinality({b \in Addr : viewedNow[b]})
              = Cardinality({b \in Addr : viewedOnce[b]}) + IF viewedOnce[a] THEN 0 ELSE 1
        BY <2>1, <2>2, <3>2, OneMore
      <4> QED BY <2>3, <3>2, <4>1
    <3> QED BY <2>5, <3>1, <3>2
  <2> QED BY <1>3, <2>6, <2>7, <2>8
<1> QED BY <1>2, <1>3

(* An engagement lands once more for its pair, and for no other.           *)
LandedOnce(kind, a, p) ==
  /\ landed' \in [Addr \X Pids \X Engagement -> Nat]
  /\ epoch'.n = epoch.n
  /\ \A b \in Addr, q \in Pids :
       IF <<b, q>> = <<a, p>> /\ kind = "view"
       THEN landed'[<<b, q, "view">>] = landed[<<b, q, "view">>] + 1
       ELSE landed'[<<b, q, "view">>] = landed[<<b, q, "view">>]

LEMMA LandsOnce ==
  ASSUME PairTypeOK, ClockInv, NEW kind \in Engagement, NEW a \in Addr, NEW t, NEW p \in Pids,
         NEW s, CommitEngagement(kind, a, t, p, s)
  PROVE  LandedOnce(kind, a, p)
<1> DEFINE x == <<a, p, kind>>
<1>1. landed' = [landed EXCEPT ![x] = @ + 1]
  BY DEF CommitEngagement
<1>2. epoch'.n = epoch.n
  BY EngagementKeepsNumber DEF SameEpoch
<1>3. x \in Addr \X Pids \X Engagement
  OBVIOUS
<1>4. ASSUME NEW b \in Addr, NEW q \in Pids
      PROVE  /\ <<b, q, "view">> \in Addr \X Pids \X Engagement
             /\ <<b, q, "view">> = x <=> <<b, q>> = <<a, p>> /\ kind = "view"
  BY DEF Engagement
<1> HIDE DEF x
<1>5. /\ landed' \in [Addr \X Pids \X Engagement -> Nat]
      /\ \A y \in Addr \X Pids \X Engagement :
           landed'[y] = IF y = x THEN landed[y] + 1 ELSE landed[y]
  BY <1>1, <1>3 DEF PairTypeOK
<1>6. ASSUME NEW b \in Addr, NEW q \in Pids
      PROVE  IF <<b, q>> = <<a, p>> /\ kind = "view"
             THEN landed'[<<b, q, "view">>] = landed[<<b, q, "view">>] + 1
             ELSE landed'[<<b, q, "view">>] = landed[<<b, q, "view">>]
  BY <1>4, <1>5
<1> QED BY <1>2, <1>5, <1>6 DEF LandedOnce

LEMMA ViewKeepsPairs ==
  ASSUME PairInv, ClockInv, NEW a \in Addr, NEW t \in Stamps, NEW p \in Pids,
         NEW s \in Inputs.seqs, View(a, t, p, s)
  PROVE  PairInv'
<1> DEFINE pair  == views[<<a, p>>]
           row   == Viewed(pair, t)
           seen  == IF pair.viewed THEN tally[p].unique ELSE tally[p].unique + 1
           more  == tally[p].views + 1
           count == [tally[p] EXCEPT !.views = more, !.unique = seen]
<1>1. pair \in Pair /\ tally[p] \in Tally /\ PairTypeOK /\ <<a, p>> \in Addr \X Pids
  BY DEF PairInv, PairTypeOK
<1>2. t \in Nat /\ epoch.n \in Nat
  BY BoundsAssumption DEF Pos, ClockInv
<1>3. ViewsThisEpoch(pair) \in Nat /\ ViewsThisEpoch(pair) + 1 <= Params.pairCap
  BY <1>1, ParamsAssumption DEF View, ViewsThisEpoch, Pair, Pos
<1>4. row \in Pair /\ row.epoch = epoch.n /\ row.n = ViewsThisEpoch(pair) + 1
      /\ row.viewed /\ row.liked = pair.liked
  BY <1>1, <1>2, <1>3 DEF Viewed, Pair
<1>5. count \in Tally /\ count.likes = tally[p].likes
      /\ count.unique = tally[p].unique + IF pair.viewed THEN 0 ELSE 1
  <2>1. seen \in Nat /\ seen = tally[p].unique + IF pair.viewed THEN 0 ELSE 1
    BY <1>1 DEF Tally
  <2>2. more \in Nat
    BY <1>1 DEF Tally
  <2> HIDE DEF seen, more
  <2> QED BY <1>1, <2>1, <2>2 DEF Tally
<1>6. views' = [views EXCEPT ![<<a, p>>] = row] /\ tally' = [tally EXCEPT ![p] = count]
  <2>1. tally' = [tally EXCEPT ![p].views = @ + 1,
                               ![p].unique = IF pair.viewed THEN @ ELSE @ + 1]
    BY DEF View
  <2>2. tally' = [tally EXCEPT ![p] = count]
    BY <1>1, <2>1 DEF PairTypeOK, Tally
  <2> QED BY <2>2 DEF View
<1> HIDE DEF row, count
<1>7. /\ views' \in [Addr \X Pids -> Pair] /\ tally' \in [Pids -> Tally]
      /\ views'[<<a, p>>] = row /\ tally'[p] = count
      /\ \A b \in Addr, q \in Pids : <<b, q>> # <<a, p>> => views'[<<b, q>>] = views[<<b, q>>]
      /\ \A q \in Pids : q # p => tally'[q] = tally[q]
  BY <1>1, <1>4, <1>5, <1>6, OneRow
<1>8. /\ landed' \in [Addr \X Pids \X Engagement -> Nat]
      /\ epoch'.n = epoch.n
      /\ \A b \in Addr, q \in Pids :
           IF <<b, q>> = <<a, p>>
           THEN landed'[<<b, q, "view">>] = landed[<<b, q, "view">>] + 1
           ELSE landed'[<<b, q, "view">>] = landed[<<b, q, "view">>]
  <2>1. CommitEngagement("view", a, t, p, s) /\ "view" \in Engagement
    BY DEF View, Engagement
  <2>2. LandedOnce("view", a, p)
    BY <1>1, <2>1, LandsOnce
  <2> QED BY <2>1, <2>2 DEF LandedOnce
<1>9. PairTypeOK'
  BY <1>7, <1>8 DEF PairTypeOK
<1>10. TallyMatchesLedger'
  BY <1>1, <1>4, <1>5, <1>7, <1>9, LedgerCounts DEF PairInv
<1>11. ASSUME NEW b \in Addr, NEW q \in Pids
       PROVE  /\ views'[<<b, q>>].epoch <= epoch'.n
              /\ landed'[<<b, q, "view">>] = ViewsThisEpoch(views[<<b, q>>])'
              /\ ViewsThisEpoch(views[<<b, q>>])' <= Params.pairCap
  <2>1. CASE <<b, q>> = <<a, p>>
    <3>1. Known(row) /\ row.epoch = epoch'.n
      BY <1>4, <1>8 DEF Known
    <3>2. ViewsThisEpoch(views[<<a, p>>])' = ViewsThisEpoch(pair) + 1
      BY <1>4, <1>7, <3>1 DEF ViewsThisEpoch, Known
    <3>3. landed'[<<a, p, "view">>] = ViewsThisEpoch(pair) + 1
      BY <1>8 DEF PairInv
    <3>4. b = a /\ q = p
      BY <2>1
    <3>5. views'[<<a, p>>].epoch <= epoch'.n
      BY <1>2, <1>7, <1>8, <3>1
    <3> QED BY <1>3, <3>2, <3>3, <3>4, <3>5
  <2>2. CASE <<b, q>> # <<a, p>>
    <3>1. views'[<<b, q>>] = views[<<b, q>>]
      BY <1>7, <2>2
    <3>2. landed'[<<b, q, "view">>] = landed[<<b, q, "view">>]
      BY <1>1, <1>8, <2>2 DEF PairTypeOK, Engagement
    <3>3. ViewsThisEpoch(views[<<b, q>>])' = ViewsThisEpoch(views[<<b, q>>])
      BY <1>8, <3>1 DEF ViewsThisEpoch, Known
    <3> QED BY <1>8, <3>1, <3>2, <3>3 DEF PairInv
  <2> QED BY <2>1, <2>2
<1> QED BY <1>9, <1>10, <1>11 DEF PairInv

LEMMA LikeKeepsPairs ==
  ASSUME PairInv, ClockInv, NEW a \in Addr, NEW t \in Stamps, NEW p \in Pids, Like(a, t, p)
  PROVE  PairInv'
<1> DEFINE pair  == views[<<a, p>>]
           row   == Liked(pair)
           count == [tally[p] EXCEPT !.likes = @ + 1]
<1>1. pair \in Pair /\ tally[p] \in Tally /\ PairTypeOK /\ <<a, p>> \in Addr \X Pids
  BY DEF PairInv, PairTypeOK
<1>2. epoch.n \in Nat /\ ~pair.liked
  BY DEF ClockInv, Like
<1>3. row \in Pair /\ row.liked /\ row.viewed = pair.viewed
  BY <1>1, <1>2 DEF Liked, Pair, NoPair, Known
<1>4. row.epoch <= epoch.n /\ (row.epoch = epoch.n => row.n = ViewsThisEpoch(pair))
      /\ (row.epoch # epoch.n => ViewsThisEpoch(pair) = 0)
  <2>1. pair.epoch <= epoch.n
    BY DEF PairInv
  <2>2. CASE Known(pair)
    <3>1. row = [pair EXCEPT !.liked = TRUE]
      BY <2>2 DEF Liked
    <3>2. row.epoch = pair.epoch /\ row.n = pair.n
      BY <1>1, <3>1 DEF Pair
    <3> QED BY <2>1, <2>2, <3>2 DEF ViewsThisEpoch
  <2>3. CASE ~Known(pair)
    <3>1. row = [NoPair EXCEPT !.epoch = epoch.n, !.liked = TRUE]
      BY <2>3 DEF Liked
    <3>2. row.epoch = epoch.n /\ row.n = 0
      BY <3>1 DEF NoPair
    <3> QED BY <1>2, <2>3, <3>2 DEF ViewsThisEpoch
  <2> QED BY <2>2, <2>3
<1>5. count \in Tally /\ count.likes = tally[p].likes + 1 /\ count.unique = tally[p].unique
  BY <1>1 DEF Tally
<1>6. views' = [views EXCEPT ![<<a, p>>] = row] /\ tally' = [tally EXCEPT ![p] = count]
  BY <1>1 DEF Like, PairTypeOK, Tally
<1> HIDE DEF row, count
<1>7. /\ views' \in [Addr \X Pids -> Pair] /\ tally' \in [Pids -> Tally]
      /\ views'[<<a, p>>] = row /\ tally'[p] = count
      /\ \A b \in Addr, q \in Pids : <<b, q>> # <<a, p>> => views'[<<b, q>>] = views[<<b, q>>]
      /\ \A q \in Pids : q # p => tally'[q] = tally[q]
  BY <1>1, <1>3, <1>5, <1>6, OneRow
<1>8. /\ landed' \in [Addr \X Pids \X Engagement -> Nat]
      /\ epoch'.n = epoch.n
      /\ \A b \in Addr, q \in Pids : landed'[<<b, q, "view">>] = landed[<<b, q, "view">>]
  <2>1. "like" \in Engagement /\ "like" # "view"
        /\ CommitEngagement("like", a, t, p, accounts[a].viewSeq)
    BY DEF Engagement, Like
  <2>2. LandedOnce("like", a, p)
    BY <1>1, <2>1, LandsOnce
  <2> QED BY <2>1, <2>2 DEF LandedOnce
<1>9. PairTypeOK'
  BY <1>7, <1>8 DEF PairTypeOK
<1>10. TallyMatchesLedger'
  BY <1>1, <1>2, <1>3, <1>5, <1>7, <1>9, LedgerCounts DEF PairInv
<1>11. ASSUME NEW b \in Addr, NEW q \in Pids
       PROVE  /\ views'[<<b, q>>].epoch <= epoch'.n
              /\ landed'[<<b, q, "view">>] = ViewsThisEpoch(views[<<b, q>>])'
              /\ ViewsThisEpoch(views[<<b, q>>])' <= Params.pairCap
  <2>1. ViewsThisEpoch(views[<<b, q>>])' = ViewsThisEpoch(views[<<b, q>>])
        /\ views'[<<b, q>>].epoch <= epoch'.n
    <3>1. CASE <<b, q>> = <<a, p>>
      BY <1>3, <1>4, <1>7, <1>8, <3>1 DEF ViewsThisEpoch, Known
    <3>2. CASE <<b, q>> # <<a, p>>
      BY <1>7, <1>8, <3>2 DEF ViewsThisEpoch, Known, PairInv
    <3> QED BY <3>1, <3>2
  <2> QED BY <1>8, <2>1 DEF PairInv
<1> QED BY <1>9, <1>10, <1>11 DEF PairInv

LEMMA CommentKeepsPairs ==
  ASSUME PairInv, ClockInv, NEW a \in Addr, NEW t \in Stamps, NEW p \in Pids, Comment(a, t, p)
  PROVE  PairInv'
<1>1. PairTypeOK /\ views' = views /\ tally' = [tally EXCEPT ![p].comments = @ + 1]
  BY DEF PairInv, Comment
<1>2. tally' \in [Pids -> Tally]
      /\ \A q \in Pids : tally'[q].likes = tally[q].likes /\ tally'[q].unique = tally[q].unique
  BY <1>1 DEF PairTypeOK, Tally
<1>3. /\ landed' \in [Addr \X Pids \X Engagement -> Nat]
      /\ epoch'.n = epoch.n
      /\ \A b \in Addr, q \in Pids : landed'[<<b, q, "view">>] = landed[<<b, q, "view">>]
  <2>1. "comment" \in Engagement /\ "comment" # "view"
        /\ CommitEngagement("comment", a, t, p, accounts[a].viewSeq)
    BY DEF Engagement, Comment
  <2>2. LandedOnce("comment", a, p)
    BY <1>1, <2>1, LandsOnce
  <2> QED BY <2>1, <2>2 DEF LandedOnce
<1>4. PairTypeOK'
  BY <1>1, <1>2, <1>3 DEF PairTypeOK
<1>5. TallyMatchesLedger'
  BY <1>1, <1>2, ZenonT(60) DEF TallyMatchesLedger, PairInv
<1> QED BY <1>1, <1>3, <1>4, <1>5 DEF PairInv, ViewsThisEpoch, Known

(* A close empties the list of what landed, and every row of the ledger is *)
(* of an epoch gone by.                                                    *)
LEMMA CloseKeepsPairs ==
  ASSUME PairInv, ClockInv, NEW a \in Addr, NEW t \in Stamps, NEW oracle \in Inputs.oracles,
         CloseEpoch(a, t, oracle)
  PROVE  PairInv'
<1>1. /\ landed' = [x \in DOMAIN landed |-> 0] /\ epoch'.n = epoch.n + 1
      /\ UNCHANGED <<views, tally>>
  BY DEF CloseEpoch, NoActs, NextEpoch, postVars
<1>2. PairTypeOK'
  BY <1>1 DEF PairTypeOK, PairInv
<1>3. TallyMatchesLedger'
  BY <1>1 DEF TallyMatchesLedger, PairInv
<1>4. ASSUME NEW b \in Addr, NEW q \in Pids
      PROVE  /\ views'[<<b, q>>].epoch <= epoch'.n
             /\ landed'[<<b, q, "view">>] = ViewsThisEpoch(views[<<b, q>>])'
             /\ ViewsThisEpoch(views[<<b, q>>])' <= Params.pairCap
  <2>1. views[<<b, q>>] \in Pair /\ views[<<b, q>>].epoch <= epoch.n /\ epoch.n \in Nat
    BY DEF PairInv, PairTypeOK, ClockInv
  <2>2. ViewsThisEpoch(views[<<b, q>>])' = 0
    BY <1>1, <2>1 DEF ViewsThisEpoch, Pair
  <2>3. landed'[<<b, q, "view">>] = 0
    BY <1>1 DEF PairInv, PairTypeOK, Engagement
  <2> QED BY <1>1, <2>1, <2>2, <2>3, ParamsAssumption DEF Pair, Pos
<1> QED BY <1>2, <1>3, <1>4 DEF PairInv

LEMMA PairFrame ==
  ASSUME ClockInv, NEW a \in Addr, NEW t \in Stamps,
         \/ IdentityNext(a, t) \/ PoolNext(a, t) \/ WallNext(a, t) \/ CapacityNext(a, t)
         \/ \E from \in Inputs.froms : RulesSet(a, t, from)
  PROVE  UNCHANGED <<views, tally, landed>> /\ epoch'.n = epoch.n
<1>1. CASE IdentityNext(a, t) \/ PoolNext(a, t) \/ WallNext(a, t) \/ CapacityNext(a, t)
  <2>1. epoch'.n = epoch.n
    BY <1>1, RulesFrame DEF SameEpoch
  <2>2. CASE IdentityNext(a, t)
    BY <2>1, <2>2 DEF IdentityNext, Register, BurnClaim, postVars, epochVars
  <2>3. CASE PoolNext(a, t)
    BY <2>1, <2>3 DEF PoolNext, SwapBtc, SwapPtp, LiqAdd, LiqRemove, postVars, epochVars
  <2>4. CASE WallNext(a, t)
    <3>1. ASSUME NEW c, NEW bytes, NEW price, NEW d, Post(a, t, c, bytes, price, d)
          PROVE  UNCHANGED <<views, tally, landed>>
      BY <3>1 DEF Post, epochVars
    <3>2. ASSUME NEW p, NEW d, Extend(a, t, p, d) PROVE UNCHANGED <<views, tally, landed>>
      BY <3>2 DEF Extend, epochVars
    <3>3. ASSUME NEW p, Settle(a, t, p) PROVE UNCHANGED <<views, tally, landed>>
      BY <3>3 DEF Settle, epochVars
    <3> QED BY <2>1, <2>4, <3>1, <3>2, <3>3 DEF WallNext
  <2>5. CASE CapacityNext(a, t)
    BY <2>1, <2>5 DEF CapacityNext, CapBuy, CapPledge, CapProof, CapClaim, postVars, epochVars
  <2> QED BY <1>1, <2>2, <2>3, <2>4, <2>5
<1>2. CASE \E from \in Inputs.froms : RulesSet(a, t, from)
  BY <1>2, QuietKeepsNumber DEF RulesSet, postVars, SameEpoch
<1> QED BY <1>1, <1>2

LEMMA PairInvInit == Init => PairInv
<1> SUFFICES ASSUME Init PROVE PairInv
  OBVIOUS
<1>1. PairTypeOK
  BY DEF Init, PairTypeOK, Pair, Tally, NoPair, NoTally
<1>2. \A a \in Addr, p \in Pids : views[<<a, p>>] = NoPair
  BY DEF Init
<1>3. TallyMatchesLedger
  <2> SUFFICES ASSUME NEW p \in Pids
               PROVE  /\ tally[p].likes = Cardinality({a \in Addr : views[<<a, p>>].liked})
                      /\ tally[p].unique = Cardinality({a \in Addr : views[<<a, p>>].viewed})
    BY DEF TallyMatchesLedger
  <2>1. {a \in Addr : views[<<a, p>>].liked} = {} /\ {a \in Addr : views[<<a, p>>].viewed} = {}
    BY <1>2 DEF NoPair
  <2>2. tally[p].likes = 0 /\ tally[p].unique = 0
    BY DEF Init, NoTally
  <2> QED BY <2>1, <2>2, FS_EmptySet
<1>4. \A a \in Addr, p \in Pids : landed[<<a, p, "view">>] = 0
  BY DEF Init, Engagement
<1>5. epoch.n = 0
  BY DEF Init
<1> QED BY <1>1, <1>2, <1>3, <1>4, <1>5, ParamsAssumption
        DEF PairInv, ViewsThisEpoch, Known, NoPair, Pos

LEMMA PairInvNext == PairInv /\ ClockInv /\ [Next]_vars => PairInv'
<1> SUFFICES ASSUME PairInv, ClockInv, [Next]_vars PROVE PairInv'
  OBVIOUS
<1>1. CASE UNCHANGED <<views, tally, landed>> /\ epoch'.n = epoch.n
  BY <1>1 DEF PairInv, PairTypeOK, TallyMatchesLedger, ViewsThisEpoch, Known
<1>2. CASE UNCHANGED vars
  BY <1>1, <1>2 DEF vars, postVars, epochVars
<1>3. ASSUME NEW a \in Addr, NEW t \in Stamps, Act(a, t) PROVE PairInv'
  <2>1. CASE EngagementNext(a, t)
    BY <2>1, ViewKeepsPairs, LikeKeepsPairs, CommentKeepsPairs DEF EngagementNext
  <2>2. CASE \E oracle \in Inputs.oracles : CloseEpoch(a, t, oracle)
    BY <2>2, CloseKeepsPairs
  <2>3. CASE ~ (EngagementNext(a, t) \/ \E oracle \in Inputs.oracles : CloseEpoch(a, t, oracle))
    BY <1>1, <1>3, <2>3, PairFrame DEF Act, EpochNext
  <2> QED BY <2>1, <2>2, <2>3
<1> QED BY <1>2, <1>3 DEF Next

(* Whatever a viewer does in whatever order, the likes and unique views a  *)
(* post counts are the pairs of the ledger that have them, and no pair has *)
(* more paid views in one epoch than the cap (core/replay.mjs, planView,   *)
(* planLike and the (viewer, post) ledger).                                *)
THEOREM PairsAreCounted == Spec => []PairsCounted
<1>1. PairInv => PairsCounted
  BY DEF PairInv, PairsCounted, PairCapHolds
<1> QED BY <1>1, PairInvInit, PairInvNext, ClockInvInit, ClockInvNext, PTL DEF Spec
-----------------------------------------------------------------------------
(* The tariffs: every price is a natural, and a fee is exactly its legs.   *)
Rate == [eur : Pos, poolSat : Pos, poolPtp : Pos]

LEMMA ParamsNat ==
  /\ Params.bps \in Pos /\ Params.satPerBtc \in Pos /\ Params.replication \in Pos
  /\ Params.rentPerMbDay \in Pos /\ Params.bytesPerMb \in Pos /\ Params.capCoin \in Pos
  /\ Params.shardBytes \in Pos /\ Params.likeBps \in Pos /\ Params.commentBps \in Pos
  /\ Params.minSettlement \in Pos /\ Params.publishBase \in Pos /\ Params.minLiquidity \in Pos
  /\ Params.bondPerGb \in Pos /\ Params.accountBond \in Pos /\ Params.mbPerGb \in Pos
  /\ Params.kappa \in Pos /\ Params.genesisSat \in Pos /\ Params.genesisPtp \in Pos
  /\ Params.genesisRate \in Pos /\ Params.swapFeeBps \in Nat /\ Params.maxMoveBps \in Nat
  /\ Params.spikeBps \in Nat /\ Params.epochEmission \in Pos /\ Params.decayNum \in Nat
  /\ Params.decayDen \in Pos /\ Params.decayEpochs \in Pos /\ Params.maxSupply \in Pos
  /\ Params.lifetime \in Pos /\ Params.medianEpochs \in Pos
BY ParamsAssumption

LEMMA CeilDivNat ==
  ASSUME NEW n \in Nat, NEW d \in Pos
  PROVE  CeilDiv(n, d) \in Nat /\ n <= d * CeilDiv(n, d)
BY QuotientUp DEF CeilDiv, Pos

LEMMA CeilDivPos ==
  ASSUME NEW n \in Pos, NEW d \in Pos
  PROVE  CeilDiv(n, d) \in Pos
<1>1. CeilDiv(n, d) \in Nat /\ n <= d * CeilDiv(n, d)
  BY CeilDivNat DEF Pos
<1>2. CeilDiv(n, d) # 0
  <2>1. CASE CeilDiv(n, d) = 0
    <3>1. d * 0 = 0
      BY DEF Pos
    <3> QED BY <1>1, <2>1, <3>1 DEF Pos
  <2> QED BY <2>1
<1> QED BY <1>1, <1>2 DEF Pos

LEMMA PosProduct == ASSUME NEW x \in Pos, NEW y \in Pos PROVE x * y \in Pos
BY DEF Pos

LEMMA PriceNat ==
  ASSUME NEW nano \in Nat, NEW r \in Rate
  PROVE  PriceOf(nano, r) \in Nat
<1>1. r.eur * r.poolSat \in Pos
  BY PosProduct DEF Rate
<1>2. nano * Params.satPerBtc * r.poolPtp \in Nat
  BY ProductNat, ParamsNat DEF Rate, Pos
<1> DEFINE above == nano * Params.satPerBtc * r.poolPtp
           below == r.eur * r.poolSat
<1> HIDE DEF above, below
<1>3. above \div below \in Nat
  BY <1>1, <1>2, QuotientDown DEF above, below, Pos
<1> QED BY <1>3 DEF PriceOf, above, below

LEMMA ActionPriceNat ==
  ASSUME NEW price \in Nat, NEW kind \in Engagement
  PROVE  ActionPriceNanoEur(price, kind) \in Nat
<1>1. \A n \in Nat : (price * n) \div Params.bps \in Nat
  BY ProductNat, QuotientDown, ParamsNat DEF Pos
<1>2. (price * Params.likeBps) \div Params.bps \in Nat
      /\ (price * Params.commentBps) \div Params.bps \in Nat
  BY <1>1, ParamsNat DEF Pos
<1> QED BY <1>2 DEF ActionPriceNanoEur, Engagement

LEMMA RentNat ==
  ASSUME NEW bytes \in Pos, NEW days \in Pos
  PROVE  RentNanoEur(bytes, days) \in Nat /\ CapUnitsFor(bytes, days) \in Pos
<1>1. bytes * days * Params.replication \in Pos
  BY PosProduct, ParamsNat
<1>2. /\ bytes * days * Params.replication * Params.rentPerMbDay \in Pos
      /\ bytes * days * Params.replication * Params.capCoin \in Pos
  BY <1>1, PosProduct, ParamsNat
<1>3. /\ RentNanoEur(bytes, days) \in Pos
      /\ CapUnitsFor(bytes, days) \in Pos
  BY <1>2, CeilDivPos, ParamsNat DEF RentNanoEur, CapUnitsFor
<1> QED BY <1>3 DEF Pos

LEMMA CapUnitsNat ==
  ASSUME NEW wei \in Nat, NEW r \in Rate
  PROVE  CapUnitsForWei(wei, r) \in Nat
<1> DEFINE above == wei * r.eur * r.poolSat * Params.capCoin
           below == Params.satPerBtc * r.poolPtp * Params.rentPerMbDay
<1>1. below \in Pos
  BY PosProduct, ParamsNat DEF Rate
<1>2. above \in Nat
  BY ProductNat, ParamsNat DEF Rate, Pos
<1>3. CapUnitsForWei(wei, r) = above \div below
  BY DEF CapUnitsForWei
<1> HIDE DEF above, below
<1> QED BY <1>1, <1>2, <1>3, QuotientDown DEF Pos

(* A vector whose legs make the whole splits a fee without loss: the burn  *)
(* takes what the other legs lost to truncation, and that is never less    *)
(* than nothing.                                                           *)
LEMMA SplitIsWhole ==
  ASSUME NEW total \in Nat, NEW vector \in [Leg -> Nat],
         vector.creator + vector.burn + vector.capacity + vector.treasury = Params.bps
  PROVE  LET legs == SplitFee(total, vector)
         IN  /\ legs.creator \in Nat /\ legs.capacity \in Nat /\ legs.treasury \in Nat
             /\ legs.burn \in Nat
             /\ total = legs.creator + legs.capacity + legs.treasury + legs.burn
             /\ vector.creator = 0 => legs.creator = 0
<1> DEFINE c == vector.creator
           k == vector.capacity
           t == vector.treasury
           b == vector.burn
           w == Params.bps
<1>1. c \in Nat /\ k \in Nat /\ t \in Nat /\ b \in Nat /\ w \in Nat \ {0} /\ c + b + k + t = w
  BY ParamsNat DEF Leg, Pos
<1> DEFINE C == (total * c) \div w
           K == (total * k) \div w
           T == (total * t) \div w
<1>2. SplitFee(total, vector)
        = [creator |-> C, capacity |-> K, treasury |-> T, burn |-> total - C - K - T]
  BY DEF SplitFee
<1>0. c = vector.creator
  OBVIOUS
<1> HIDE DEF c, k, t, b, w
<1>3. total * c \in Nat /\ total * k \in Nat /\ total * t \in Nat /\ total * b \in Nat
  BY <1>1, ProductNat
<1>4. /\ C \in Nat /\ w * C <= total * c
      /\ K \in Nat /\ w * K <= total * k
      /\ T \in Nat /\ w * T <= total * t
  BY <1>1, <1>3, QuotientDown
<1>5. c = 0 => C = 0
  <2> SUFFICES ASSUME c = 0 PROVE C = 0
    OBVIOUS
  <2>1. total * c = 0
    OBVIOUS
  <2>2. w * C <= 0
    BY <1>4, <2>1
  <2>3. C # 0 => w * C > 0
    BY <1>1, <1>4
  <2> HIDE DEF C
  <2> QED BY <1>1, <1>4, <2>2, <2>3
<1> HIDE DEF C, K, T
<1>6. C + K + T <= total
  <2>1. w * (C + K + T) = w * C + w * K + w * T
    BY <1>1, <1>4
  <2>2. total * c + total * k + total * t + total * b = total * w
    BY <1>1
  <2>3. w * C \in Nat /\ w * K \in Nat /\ w * T \in Nat /\ total * w \in Nat
    BY <1>1, <1>4, ProductNat
  <2>4. w * (C + K + T) <= total * w
    BY <1>3, <1>4, <2>1, <2>2, <2>3
  <2>5. C + K + T \in Nat /\ w * (C + K + T) = (C + K + T) * w
    BY <1>1, <1>4
  <2> DEFINE s == C + K + T
  <2>6. s \in Nat /\ s * w <= total * w
    BY <2>4, <2>5
  <2> HIDE DEF s
  <2>7. s <= total
    BY <1>1, <2>6, CancelFactor
  <2> QED BY <2>7 DEF s
<1>7. total - C - K - T \in Nat
  BY <1>4, <1>6
<1>8. total = C + K + T + (total - C - K - T)
  BY <1>4
<1> DEFINE legs == SplitFee(total, vector)
<1>9. legs.creator = C /\ legs.capacity = K /\ legs.treasury = T /\ legs.burn = total - C - K - T
  BY <1>2
<1> HIDE DEF legs
<1>10. /\ legs.creator \in Nat /\ legs.capacity \in Nat /\ legs.treasury \in Nat
       /\ legs.burn \in Nat
       /\ total = legs.creator + legs.capacity + legs.treasury + legs.burn
       /\ vector.creator = 0 => legs.creator = 0
  BY <1>0, <1>4, <1>5, <1>7, <1>8, <1>9
<1> QED BY <1>10 DEF legs

(* The two vectors of the params edition are such.                         *)
LEMMA FeeSplits ==
  ASSUME NEW total \in Nat
  PROVE  LET legs == SplitFee(total, Params.fee)
         IN  /\ legs.creator \in Nat /\ legs.capacity \in Nat /\ legs.treasury \in Nat
             /\ legs.burn \in Nat
             /\ total = legs.creator + legs.capacity + legs.treasury + legs.burn
<1>1. Params.fee \in [Leg -> Nat] /\ Params.fee.creator + Params.fee.burn + Params.fee.capacity
        + Params.fee.treasury = Params.bps
  BY ParamsAssumption
<1> QED BY <1>1, SplitIsWhole

LEMMA PublishSplits ==
  ASSUME NEW total \in Nat
  PROVE  LET legs == SplitFee(total, Params.publish)
         IN  /\ legs.capacity \in Nat /\ legs.treasury \in Nat /\ legs.burn \in Nat
             /\ total = legs.capacity + legs.treasury + legs.burn
<1> DEFINE v == Params.publish
           legs == SplitFee(total, v)
<1>1. v \in [Leg -> Nat] /\ v.creator = 0
  BY ParamsAssumption
<1>2. v.burn \in Nat /\ v.capacity \in Nat /\ v.treasury \in Nat
  BY <1>1 DEF Leg
<1>3. v.creator + v.burn + v.capacity + v.treasury = Params.bps
  <2>1. v.burn + v.capacity + v.treasury = Params.bps
    BY ParamsAssumption
  <2> QED BY <1>1, <1>2, <2>1
<1> HIDE DEF v
<1>4. /\ legs.creator = 0 /\ legs.capacity \in Nat /\ legs.treasury \in Nat
      /\ legs.burn \in Nat
      /\ total = legs.creator + legs.capacity + legs.treasury + legs.burn
  BY <1>1, <1>3, SplitIsWhole
<1> HIDE DEF legs
<1>5. total = legs.capacity + legs.treasury + legs.burn
  BY <1>4
<1> QED BY <1>4, <1>5 DEF legs, v
-----------------------------------------------------------------------------
(* The k-th smallest of finitely many naturals exists: the least number    *)
(* that k of them do not exceed is one of them.                            *)
LEMMA KthNat ==
  ASSUME NEW I, IsFiniteSet(I), NEW s, \A i \in I : s[i] \in Nat,
         NEW k \in Nat, 1 <= k, k <= Cardinality(I)
  PROVE  Kth(s, I, k) \in Nat
<1> DEFINE upto(v)  == {i \in I : s[i] <= v}
           under(v) == {i \in I : s[i] < v}
           V        == {v \in Nat : Cardinality(upto(v)) >= k}
           Good(v)  == Cardinality(under(v)) < k /\ Cardinality(upto(v)) >= k
<1>1. \A v \in Nat : /\ IsFiniteSet(upto(v)) /\ Cardinality(upto(v)) \in Nat
                     /\ IsFiniteSet(under(v)) /\ Cardinality(under(v)) \in Nat
  <2> SUFFICES ASSUME NEW v \in Nat
               PROVE  /\ IsFiniteSet(upto(v)) /\ Cardinality(upto(v)) \in Nat
                      /\ IsFiniteSet(under(v)) /\ Cardinality(under(v)) \in Nat
    OBVIOUS
  <2>1. upto(v) \in SUBSET I /\ under(v) \in SUBSET I
    OBVIOUS
  <2> HIDE DEF upto, under
  <2> QED BY <2>1, FS_Subset, FS_CardinalityType
<1>2. V # {}
  <2> DEFINE f == [i \in I |-> s[i]]
             top == SumFunction(f)
  <2>1. f \in [I -> Nat]
    OBVIOUS
  <2>2. top \in Nat /\ \A i \in I : f[i] <= top
    BY <2>1, SumNat
  <2> HIDE DEF top
  <2>3. upto(top) = I
    BY <2>2
  <2>4. top \in V
    BY <2>2, <2>3
  <2> QED BY <2>4
<1>3. \A v \in V : v \in Nat
  OBVIOUS
<1>4. \A v \in V : \A u \in Nat : u < v /\ Cardinality(upto(u)) >= k => u \in V
  OBVIOUS
<1>5. PICK v \in V : \A u \in V : ~(u < v)
  <2>1. IsWellFoundedOn(OpToRel(<, Nat), Nat)
    BY NatLessThanWellFounded
  <2>2. V \subseteq Nat
    BY <1>3
  <2> HIDE DEF V
  <2>3. PICK v \in V : \A u \in V : ~ (<<u, v>> \in OpToRel(<, Nat))
    BY <1>2, <2>1, <2>2, WFMin
  <2>4. \A u \in V : ~(u < v)
    BY <2>2, <2>3 DEF OpToRel
  <2> QED BY <2>4
<1>6. v \in Nat /\ Cardinality(upto(v)) >= k
  OBVIOUS
<1>7. \A u \in Nat : u < v => Cardinality(upto(u)) < k
  <2> SUFFICES ASSUME NEW u \in Nat, u < v, ~(Cardinality(upto(u)) < k) PROVE FALSE
    OBVIOUS
  <2>1. Cardinality(upto(u)) \in Nat
    BY <1>1
  <2>2. u \in V
    BY <2>1
  <2> QED BY <2>2, <1>5
<1>8. under(v) = IF v = 0 THEN {} ELSE upto(v - 1)
  BY <1>6
<1>9. Cardinality(under(v)) < k
  <2>1. CASE v = 0
    BY <2>1, <1>8, FS_EmptySet
  <2>2. CASE v # 0
    <3>1. v - 1 \in Nat /\ v - 1 < v
      BY <1>6, <2>2
    <3>2. Cardinality(upto(v - 1)) < k
      BY <1>7, <3>1
    <3>3. under(v) = upto(v - 1)
      BY <1>8, <2>2
    <3> HIDE DEF upto, under
    <3> QED BY <3>2, <3>3
  <2> QED BY <2>1, <2>2
<1>10. v \in {s[i] : i \in I}
  <2> SUFFICES ASSUME \A i \in I : s[i] # v PROVE FALSE
    OBVIOUS
  <2>1. upto(v) = under(v)
    BY <1>6
  <2> HIDE DEF upto, under, V
  <2>2. Cardinality(upto(v)) \in Nat
    BY <1>1, <1>6
  <2> QED BY <1>6, <1>9, <2>1, <2>2
<1>11. \E x \in {s[i] : i \in I} : Good(x)
  BY <1>6, <1>9, <1>10
<1>12. Kth(s, I, k) \in {s[i] : i \in I}
  <2> HIDE DEF Good
  <2>1. Kth(s, I, k) = CHOOSE x \in {s[i] : i \in I} : Good(x)
    BY DEF Kth, Good
  <2> QED BY <1>11, <2>1
<1> QED BY <1>12

LEMMA MedianNat ==
  ASSUME NEW I, IsFiniteSet(I), NEW s, \A i \in I : s[i] \in Nat
  PROVE  MedianOf(s, I) \in Nat
<1> DEFINE n == Cardinality(I)
           mid == n \div 2
<1>1. n \in Nat
  BY FS_CardinalityType
<1>2. CASE n = 0
  BY <1>2 DEF MedianOf
<1>3. CASE n # 0 /\ n % 2 = 1
  <2>1. mid + 1 \in Nat /\ 1 <= mid + 1 /\ mid + 1 <= n
    BY <1>1, <1>3
  <2>2. Kth(s, I, mid + 1) \in Nat
    BY <2>1, KthNat
  <2> QED BY <1>3, <2>2 DEF MedianOf
<1>4. CASE n # 0 /\ n % 2 # 1
  <2>1. mid \in Nat /\ 1 <= mid /\ mid + 1 \in Nat /\ 1 <= mid + 1 /\ mid + 1 <= n /\ mid <= n
    BY <1>1, <1>4
  <2>2. Kth(s, I, mid) \in Nat /\ Kth(s, I, mid + 1) \in Nat
    BY <2>1, KthNat
  <2>3. MedianOf(s, I) = (Kth(s, I, mid) + Kth(s, I, mid + 1)) \div 2
    BY <1>4 DEF MedianOf
  <2> QED BY <2>2, <2>3
<1> QED BY <1>2, <1>3, <1>4

LEMMA ClampedNat ==
  ASSUME NEW eur \in Nat, NEW prev \in Nat
  PROVE  Clamped(eur, prev) \in Nat
<1> DEFINE w == Params.bps
           m == Params.maxMoveBps
<1>1. w \in Nat \ {0} /\ w + m \in Nat /\ w - m \in Nat
  BY ParamsAssumption DEF Pos
<1>2. (prev * (w + m)) \div w \in Nat /\ (prev * (w - m)) \div w \in Nat
  BY <1>1, ProductNat, QuotientDown
<1> QED BY <1>2 DEF Clamped

LEMMA SealedNat ==
  ASSUME NEW oracle \in Inputs.oracles, NEW prev \in Nat
  PROVE  SealedEur(oracle, prev) \in Nat
<1> DEFINE usable == {i \in DOMAIN oracle.sources : oracle.sources[i] > 0}
           bare   == IF oracle.eur > 0 THEN oracle.eur ELSE prev
           middle == MedianOf(oracle.sources, usable)
<1>1. oracle.eur \in Nat /\ oracle.sources \in Seq(Nat)
  BY InputsAssumption
<1>2. \A i \in DOMAIN oracle.sources : oracle.sources[i] \in Nat
  BY <1>1
<1>3. IsFiniteSet(DOMAIN oracle.sources)
  BY <1>1, FS_Interval
<1>4. IsFiniteSet(usable) /\ \A i \in usable : oracle.sources[i] \in Nat
  BY <1>2, <1>3, FS_Subset
<1> HIDE DEF usable
<1>5. middle \in Nat
  BY <1>4, MedianNat
<1>6. bare \in Nat
  BY <1>1
<1> HIDE DEF middle, bare
<1>7. Clamped(middle, prev) \in Nat /\ Clamped(bare, prev) \in Nat
  BY <1>5, <1>6, ClampedNat
<1>8. SealedEur(oracle, prev) \in {0, Clamped(middle, prev), Clamped(bare, prev)}
  BY DEF SealedEur, usable, middle, bare
<1> QED BY <1>7, <1>8

LEMMA PowerIn ==
  ASSUME NEW E, NEW b, NEW n \in Nat, 1 \in E, \A e \in E : b * e \in E
  PROVE  Power(b, n) \in E
<1> DEFINE step == [i \in 1 .. n |-> [e \in E |-> b * e]]
           Is(g) == g = [i \in 0 .. n |-> IF i = 0 THEN 1 ELSE b * g[i - 1]]
<1>1. step \in [1 .. n -> [E -> E]]
  OBVIOUS
<1> HIDE DEF step
<1>2. PICK g \in [0 .. n -> E] : Run(n, 1, step, g)
  BY <1>1, RunExists
<1>3. \A i \in 0 .. n : g[i] = IF i = 0 THEN 1 ELSE b * g[i - 1]
  <2> SUFFICES ASSUME NEW i \in 0 .. n PROVE g[i] = IF i = 0 THEN 1 ELSE b * g[i - 1]
    OBVIOUS
  <2>1. g[i] = IF i = 0 THEN 1 ELSE step[i][g[i - 1]]
    BY <1>2 DEF Run
  <2>2. i # 0 => i \in 1 .. n /\ i - 1 \in 0 .. n
    OBVIOUS
  <2> QED BY <2>1, <2>2 DEF step
<1>4. Is(g)
  BY <1>3
<1> DEFINE pow == CHOOSE h : Is(h)
<1>5. Power(b, n) = pow[n]
  BY DEF Power
<1>6. Is(pow)
  BY <1>4
<1> HIDE DEF pow
<1> DEFINE A == {m \in Nat : m <= n => pow[m] \in E}
<1>7. 0 \in A
  BY <1>6
<1>8. ASSUME NEW m \in Nat, m \in A PROVE m + 1 \in A
  <2> SUFFICES ASSUME m + 1 <= n PROVE pow[m + 1] \in E
    OBVIOUS
  <2>1. pow[m] \in E
    BY <1>8
  <2>2. m + 1 \in 0 .. n /\ m + 1 # 0 /\ (m + 1) - 1 = m
    OBVIOUS
  <2>3. pow[m + 1] = b * pow[m]
    BY <1>6, <2>2
  <2> QED BY <2>1, <2>3
<1> HIDE DEF A
<1>9. n \in A
  BY <1>7, <1>8, CountUp
<1> QED BY <1>5, <1>9 DEF A

LEMMA ScheduleNat == ASSUME NEW n \in Nat PROVE ScheduledCap(n) \in Nat
<1> DEFINE years == n \div Params.decayEpochs
           num == Power(Params.decayNum, years)
           den == Power(Params.decayDen, years)
<1>1. years \in Nat
  BY ParamsNat, QuotientDown DEF Pos
<1> HIDE DEF years
<1>2. num \in Nat
  <2>1. \A e \in Nat : Params.decayNum * e \in Nat
    BY ParamsNat, ProductNat
  <2> QED BY <1>1, <2>1, PowerIn
<1>3. den \in Pos
  <2>1. \A e \in Pos : Params.decayDen * e \in Pos
    BY ParamsNat, PosProduct
  <2>2. 1 \in Pos
    BY DEF Pos
  <2> QED BY <1>1, <2>1, <2>2, PowerIn
<1>4. ScheduledCap(n) = (Params.epochEmission * num) \div den
  BY DEF ScheduledCap, years
<1> HIDE DEF num, den
<1>5. Params.epochEmission * num \in Nat
  BY <1>2, ParamsNat, ProductNat DEF Pos
<1> QED BY <1>3, <1>4, <1>5, QuotientDown DEF Pos

(* What an epoch may mint is never more than it burned.                    *)
LEMMA EmissionWithinBurn ==
  ASSUME NEW n \in Nat, NEW burned \in Nat, NEW median \in Nat
  PROVE  Emission(n, burned, median) \in Nat /\ Emission(n, burned, median) <= burned
<1> DEFINE ceiling   == (Params.spikeBps * median) \div Params.bps
           effective == IF median > 0 /\ burned > ceiling THEN ceiling ELSE burned
           coupled   == (Params.kappa * effective) \div Params.bps
           cap       == ScheduledCap(n)
<1>1. ceiling \in Nat
  BY ParamsNat, ProductNat, QuotientDown DEF Pos
<1> HIDE DEF ceiling
<1>2. effective \in Nat /\ effective <= burned
  BY <1>1
<1> HIDE DEF effective
<1>3. Params.kappa \in Nat /\ Params.bps \in Nat \ {0} /\ Params.kappa <= Params.bps
  BY ParamsAssumption DEF Pos
<1>4. coupled \in Nat /\ coupled <= effective
  BY <1>2, <1>3, PartOfWhole
<1>5. cap \in Nat
  BY ScheduleNat
<1>6. Emission(n, burned, median) = IF coupled < cap THEN coupled ELSE cap
  BY DEF Emission, ceiling, effective
<1> HIDE DEF coupled, cap
<1> QED BY <1>2, <1>4, <1>5, <1>6
-----------------------------------------------------------------------------
(* The inductive invariant of the money, part by part.  What the books say *)
(* is inductive only with it known that an account nobody opened is empty, *)
(* that a pid nobody has posted to holds nothing, and that an escrow has   *)
(* sold at least the capacity it has paid for.                             *)
Row       == [sat : Nat, ptp : Nat, cap : Nat, shares : Nat, viewSeq : Int]
EscrowRow == [holding : Nat, serving : Nat, capUnits : Nat, claimed : Nat]
Provider  == [mb : Nat, bondPtp : Nat, bondNano : Nat, provenEpoch : Nat, provenInEpoch : Nat]
Proof     == [by : Addr, shard : Nat, epoch : Nat, units : Nat, claimed : BOOLEAN]

(* An escrow that has paid out every unit it sold holds no rent.           *)
Sound == {e \in EscrowRow : e.claimed <= e.capUnits /\ (e.claimed = e.capUnits => e.holding = 0)}

RowsOK ==
  /\ joined \subseteq Addr
  /\ accounts \in [Addr -> Row]
  /\ \A a \in Addr : a \notin joined => accounts[a] = NewAccount

PoolOK == pool \in [sat : Pos, ptp : Pos, shares : Pos, locked : Pos]

SupplyOK == supply \in [emitted : Nat, burned : Nat] /\ treasury \in Nat

BurnsOK == burns \subseteq Txos /\ IsFiniteSet(burns)

NodesOK == providers \in [Addr -> Provider]

WallOK ==
  /\ escrow \in [Pids -> Sound]
  /\ credit \in [Pids -> Nat]
  /\ proofs \in [Pids -> Seq(Proof)]
  /\ \A p \in Pids : posts[p].state = "none" =>
                       escrow[p] = NoEscrow /\ credit[p] = 0 /\ proofs[p] = <<>>
  /\ \A p \in Pids : posts[p].state # "none" => posts[p].author \in joined /\ posts[p].bytes \in Pos

RatesOK ==
  /\ epoch \in [n : Nat, startedAt : Nat, burned : Nat, rate : Rate]
  /\ history \in Seq(Nat)

Books == PtpConserved /\ PotIsTheEscrows /\ SatConserved

MoneyInv ==
  /\ RowsOK /\ PoolOK /\ SupplyOK /\ BurnsOK /\ NodesOK /\ WallOK /\ RatesOK
  /\ Books
-----------------------------------------------------------------------------
(* What a change of one row does to the sums over all rows.                *)
LEMMA PidsFinite == IsFiniteSet(Pids)
BY FS_Interval, BoundsAssumption DEF Pids

LEMMA RowsAddUp ==
  ASSUME RowsOK
  PROVE  /\ PtpHeld \in Nat /\ SatHeld \in Nat
         /\ \A a \in Addr : accounts[a] \in Row /\ accounts[a].ptp <= PtpHeld
                                                /\ accounts[a].sat <= SatHeld
<1> DEFINE f == [a \in Addr |-> accounts[a].ptp]
           g == [a \in Addr |-> accounts[a].sat]
<1>1. f \in [Addr -> Nat] /\ g \in [Addr -> Nat] /\ \A a \in Addr : accounts[a] \in Row
  BY DEF RowsOK, Row
<1>2. \A a \in Addr : f[a] = accounts[a].ptp /\ g[a] = accounts[a].sat
  OBVIOUS
<1>3. PtpHeld = SumFunction(f) /\ SatHeld = SumFunction(g)
  BY DEF PtpHeld, SatHeld
<1> HIDE DEF f, g
<1>4. SumFunction(f) \in Nat /\ \A a \in Addr : f[a] <= SumFunction(f)
  BY <1>1, SumNat, BoundsAssumption
<1>5. SumFunction(g) \in Nat /\ \A a \in Addr : g[a] <= SumFunction(g)
  BY <1>1, SumNat, BoundsAssumption
<1> QED BY <1>1, <1>2, <1>3, <1>4, <1>5

RowMoved(a, row) ==
  /\ RowsOK'
  /\ PtpHeld' = PtpHeld - accounts[a].ptp + row.ptp
  /\ SatHeld' = SatHeld - accounts[a].sat + row.sat

LEMMA RowMoves ==
  ASSUME RowsOK, NEW a \in joined, NEW row \in Row, joined' = joined,
         accounts' = [accounts EXCEPT ![a] = row]
  PROVE  RowMoved(a, row)
<1>1. a \in Addr /\ accounts' \in [Addr -> Row] /\ accounts'[a] = row
      /\ \A b \in Addr : b # a => accounts'[b] = accounts[b]
  BY DEF RowsOK
<1>2. RowsOK'
  BY <1>1 DEF RowsOK
<1> DEFINE f == [b \in Addr |-> accounts[b].ptp]
           g == [b \in Addr |-> accounts[b].sat]
           h == [b \in Addr |-> accounts'[b].ptp]
           k == [b \in Addr |-> accounts'[b].sat]
<1>3. f \in [Addr -> Int] /\ g \in [Addr -> Int] /\ h \in [Addr -> Int] /\ k \in [Addr -> Int]
  BY <1>1 DEF RowsOK, Row
<1>4. /\ f[a] = accounts[a].ptp /\ g[a] = accounts[a].sat /\ h[a] = row.ptp /\ k[a] = row.sat
      /\ \A b \in Addr : b # a => h[b] = f[b] /\ k[b] = g[b]
  BY <1>1
<1>5. /\ PtpHeld = SumFunction(f) /\ SatHeld = SumFunction(g)
      /\ PtpHeld' = SumFunction(h) /\ SatHeld' = SumFunction(k)
  BY DEF PtpHeld, SatHeld
<1> HIDE DEF f, g, h, k
<1>6. SumFunction(h) = SumFunction(f) - f[a] + h[a]
  BY <1>1, <1>3, <1>4, SumUpdate, BoundsAssumption
<1>7. SumFunction(k) = SumFunction(g) - g[a] + k[a]
  BY <1>1, <1>3, <1>4, SumUpdate, BoundsAssumption
<1> QED BY <1>2, <1>4, <1>5, <1>6, <1>7 DEF RowMoved

LEMMA RowsStay ==
  ASSUME RowsOK, UNCHANGED <<joined, accounts>>
  PROVE  RowsOK' /\ PtpHeld' = PtpHeld /\ SatHeld' = SatHeld
BY DEF RowsOK, PtpHeld, SatHeld

LEMMA WallAddsUp ==
  ASSUME WallOK
  PROVE  /\ Escrowed \in Nat /\ CreditOwed \in Nat
         /\ \A p \in Pids : /\ escrow[p] \in Sound /\ escrow[p] \in EscrowRow /\ credit[p] \in Nat
                            /\ Held(escrow[p]) \in Nat /\ Held(escrow[p]) <= Escrowed
                            /\ credit[p] <= CreditOwed
<1> DEFINE f == [p \in Pids |-> Held(escrow[p])]
<1>1. f \in [Pids -> Nat] /\ credit \in [Pids -> Nat]
      /\ \A p \in Pids : escrow[p] \in Sound /\ escrow[p] \in EscrowRow
                         /\ credit[p] \in Nat /\ Held(escrow[p]) \in Nat
  BY DEF WallOK, Sound, EscrowRow, Held
<1>2. (\A p \in Pids : f[p] = Held(escrow[p])) /\ Escrowed = SumFunction(f)
  BY DEF Escrowed
<1> HIDE DEF f
<1>3. SumFunction(f) \in Nat /\ \A p \in Pids : f[p] <= SumFunction(f)
  BY <1>1, SumNat, PidsFinite
<1>4. SumFunction(credit) \in Nat /\ \A p \in Pids : credit[p] <= SumFunction(credit)
  BY <1>1, SumNat, PidsFinite
<1> QED BY <1>1, <1>2, <1>3, <1>4 DEF CreditOwed

EscrowMoved(p, e) ==
  /\ escrow' \in [Pids -> Sound]
  /\ escrow'[p] = e
  /\ \A q \in Pids : q # p => escrow'[q] = escrow[q]
  /\ Escrowed' = Escrowed - Held(escrow[p]) + Held(e)

LEMMA EscrowMoves ==
  ASSUME WallOK, NEW p \in Pids, NEW e \in Sound, escrow' = [escrow EXCEPT ![p] = e]
  PROVE  EscrowMoved(p, e)
<1>1. escrow' \in [Pids -> Sound] /\ escrow'[p] = e
      /\ \A q \in Pids : q # p => escrow'[q] = escrow[q]
  BY DEF WallOK
<1> DEFINE f == [q \in Pids |-> Held(escrow[q])]
           g == [q \in Pids |-> Held(escrow'[q])]
<1>2. f \in [Pids -> Int] /\ g \in [Pids -> Int]
  <2>1. \A x \in Sound : Held(x) \in Int
    BY DEF Sound, EscrowRow, Held
  <2>2. escrow \in [Pids -> Sound]
    BY DEF WallOK
  <2> QED BY <1>1, <2>1, <2>2
<1>3. f[p] = Held(escrow[p]) /\ g[p] = Held(e) /\ \A q \in Pids : q # p => g[q] = f[q]
  BY <1>1
<1>4. Escrowed = SumFunction(f) /\ Escrowed' = SumFunction(g)
  BY DEF Escrowed, Held
<1> HIDE DEF f, g
<1>5. SumFunction(g) = SumFunction(f) - f[p] + g[p]
  BY <1>2, <1>3, SumUpdate, PidsFinite
<1> QED BY <1>1, <1>3, <1>4, <1>5 DEF EscrowMoved

CreditMoved(p, n) ==
  /\ credit' \in [Pids -> Nat]
  /\ credit'[p] = n
  /\ \A q \in Pids : q # p => credit'[q] = credit[q]
  /\ CreditOwed' = CreditOwed - credit[p] + n

LEMMA CreditMoves ==
  ASSUME WallOK, NEW p \in Pids, NEW n \in Nat, credit' = [credit EXCEPT ![p] = n]
  PROVE  CreditMoved(p, n)
<1>1. credit' \in [Pids -> Nat] /\ credit'[p] = n
      /\ \A q \in Pids : q # p => credit'[q] = credit[q]
  BY DEF WallOK
<1>2. credit \in [Pids -> Int] /\ credit' \in [Pids -> Int]
  BY <1>1 DEF WallOK
<1>3. SumFunction(credit') = SumFunction(credit) - credit[p] + credit'[p]
  <2> DEFINE now == credit'
  <2>1. now \in [Pids -> Int] /\ \A q \in Pids : q # p => now[q] = credit[q]
    BY <1>1, <1>2
  <2> HIDE DEF now
  <2>2. SumFunction(now) = SumFunction(credit) - credit[p] + now[p]
    BY <1>2, <2>1, SumUpdate, PidsFinite
  <2> QED BY <2>2 DEF now
<1> QED BY <1>1, <1>3 DEF CreditMoved, CreditOwed

LEMMA BondsAddUp ==
  ASSUME NodesOK
  PROVE  BondsPaid \in Nat /\ \A a \in Addr : providers[a] \in Provider
<1> DEFINE f == [a \in Addr |-> providers[a].bondPtp]
<1>1. f \in [Addr -> Nat] /\ \A a \in Addr : providers[a] \in Provider
  BY DEF NodesOK, Provider
<1> HIDE DEF f
<1>2. SumFunction(f) \in Nat
  BY <1>1, SumNat, BoundsAssumption
<1> QED BY <1>1, <1>2 DEF BondsPaid, f

ProviderMoved(a, row) ==
  /\ NodesOK'
  /\ providers'[a] = row
  /\ \A b \in Addr : b # a => providers'[b] = providers[b]
  /\ BondsPaid' = BondsPaid - providers[a].bondPtp + row.bondPtp

LEMMA ProviderMoves ==
  ASSUME NodesOK, NEW a \in Addr, NEW row \in Provider, providers' = [providers EXCEPT ![a] = row]
  PROVE  ProviderMoved(a, row)
<1>1. providers' \in [Addr -> Provider] /\ providers'[a] = row
      /\ \A b \in Addr : b # a => providers'[b] = providers[b]
  BY DEF NodesOK
<1> DEFINE f == [b \in Addr |-> providers[b].bondPtp]
           g == [b \in Addr |-> providers'[b].bondPtp]
<1>2. f \in [Addr -> Int] /\ g \in [Addr -> Int]
  BY <1>1 DEF NodesOK, Provider
<1>3. f[a] = providers[a].bondPtp /\ g[a] = row.bondPtp /\ \A b \in Addr : b # a => g[b] = f[b]
  BY <1>1
<1>4. BondsPaid = SumFunction(f) /\ BondsPaid' = SumFunction(g)
  BY DEF BondsPaid
<1> HIDE DEF f, g
<1>5. SumFunction(g) = SumFunction(f) - f[a] + g[a]
  BY <1>2, <1>3, SumUpdate, BoundsAssumption
<1> QED BY <1>1, <1>3, <1>4, <1>5 DEF ProviderMoved, NodesOK

LEMMA BurnsAddUp ==
  ASSUME BurnsOK
  PROVE  SatBurned \in Nat
<1> DEFINE f == [o \in burns |-> TxoSat[o]]
<1>1. f \in [burns -> Nat] /\ IsFiniteSet(burns)
  BY BoundsAssumption DEF BurnsOK, Pos
<1> HIDE DEF f
<1>2. SumFunction(f) \in Nat
  BY <1>1, SumNat
<1> QED BY <1>2 DEF SatBurned, f

LEMMA BurnsGrow ==
  ASSUME BurnsOK, NEW o \in Txos, o \notin burns, burns' = burns \cup {o}
  PROVE  BurnsOK' /\ SatBurned' = SatBurned + TxoSat[o] /\ TxoSat[o] \in Nat
<1> DEFINE f == [x \in burns |-> TxoSat[x]]
           g == [x \in burns \cup {o} |-> TxoSat[x]]
<1>1. BurnsOK'
  BY FS_AddElement DEF BurnsOK
<1>2. f \in [burns -> Int] /\ g \in [burns \cup {o} -> Int] /\ TxoSat[o] \in Nat
  BY BoundsAssumption DEF BurnsOK, Pos
<1>3. (\A x \in burns : g[x] = f[x]) /\ g[o] = TxoSat[o]
  OBVIOUS
<1>4. SatBurned = SumFunction(f) /\ SatBurned' = SumFunction(g)
  BY DEF SatBurned
<1>5. IsFiniteSet(burns) /\ o \notin burns
  BY DEF BurnsOK
<1> HIDE DEF f, g
<1>6. \A e \in [burns -> Int], h \in [burns \cup {o} -> Int] :
        (\A x \in burns : h[x] = e[x]) => SumFunction(h) = SumFunction(e) + h[o]
  BY ONLY <1>5, SumExtend, Zenon
<1>7. SumFunction(g) = SumFunction(f) + g[o]
  BY <1>2, <1>3, <1>6, Zenon
<1> QED BY <1>1, <1>2, <1>3, <1>4, <1>7

(* The wall where nobody touches it.                                       *)
LEMMA WallStays ==
  ASSUME WallOK, UNCHANGED <<posts, escrow, credit, proofs>>, joined \subseteq joined'
  PROVE  WallOK' /\ Escrowed' = Escrowed /\ CreditOwed' = CreditOwed
BY DEF WallOK, Escrowed, CreditOwed, Held

LEMMA NodesStay ==
  ASSUME NodesOK, UNCHANGED providers
  PROVE  NodesOK' /\ BondsPaid' = BondsPaid
BY DEF NodesOK, BondsPaid

LEMMA BurnsStay ==
  ASSUME BurnsOK, UNCHANGED burns
  PROVE  BurnsOK' /\ SatBurned' = SatBurned
BY DEF BurnsOK, SatBurned

(* The clock of an act that closes no epoch.                               *)
LEMMA QuietRates ==
  ASSUME RatesOK, NEW t \in Stamps, LandsQuietly(t), UNCHANGED history
  PROVE  RatesOK' /\ epoch'.burned = epoch.burned /\ epoch'.rate = epoch.rate /\ epoch'.n = epoch.n
<1>1. t \in Nat
  BY BoundsAssumption DEF Pos
<1> QED BY <1>1 DEF RatesOK, LandsQuietly, Started

LEMMA BurningRates ==
  ASSUME RatesOK, NEW t \in Stamps, NEW n \in Nat, epoch' = Burned(Started(epoch, t), n),
         UNCHANGED history
  PROVE  RatesOK' /\ epoch'.burned = epoch.burned + n /\ epoch'.rate = epoch.rate
         /\ epoch'.n = epoch.n
<1>1. t \in Nat
  BY BoundsAssumption DEF Pos
<1> DEFINE e == Started(epoch, t)
<1>2. e \in [n : Nat, startedAt : Nat, burned : Nat, rate : Rate]
      /\ e.burned = epoch.burned /\ e.rate = epoch.rate /\ e.n = epoch.n
  BY <1>1 DEF RatesOK, Started
<1> HIDE DEF e
<1> DEFINE m == e.burned + n
<1>3. epoch' = [e EXCEPT !.burned = m]
  BY DEF Burned, e
<1>4. m \in Nat /\ m = epoch.burned + n
  BY <1>2
<1> HIDE DEF m
<1>5. epoch' \in [n : Nat, startedAt : Nat, burned : Nat, rate : Rate]
      /\ epoch'.burned = m /\ epoch'.rate = e.rate /\ epoch'.n = e.n
  BY <1>2, <1>3, <1>4
<1>6. history' \in Seq(Nat)
  BY DEF RatesOK
<1> QED BY <1>2, <1>4, <1>5, <1>6 DEF RatesOK
-----------------------------------------------------------------------------
(* The trades.  A row of the accounts whose satoshis, PTP and shares are   *)
(* replaced is a row again.                                                *)
LEMMA RowOf ==
  ASSUME NEW r \in Row, NEW sat \in Nat, NEW ptp \in Nat, NEW shares \in Nat
  PROVE  LET row == [r EXCEPT !.sat = sat, !.ptp = ptp, !.shares = shares]
         IN  row \in Row /\ row.sat = sat /\ row.ptp = ptp
BY DEF Row

LEMMA RowOfCap ==
  ASSUME NEW r \in Row, NEW ptp \in Nat, NEW cap \in Nat
  PROVE  LET row == [r EXCEPT !.ptp = ptp, !.cap = cap]
         IN  row \in Row /\ row.sat = r.sat /\ row.ptp = ptp
BY DEF Row

LEMMA RowOfView ==
  ASSUME NEW r \in Row, NEW ptp \in Nat, NEW viewSeq \in Int
  PROVE  LET row == [r EXCEPT !.ptp = ptp, !.viewSeq = viewSeq]
         IN  row \in Row /\ row.sat = r.sat /\ row.ptp = ptp
BY DEF Row

LEMMA TradeOut ==
  ASSUME NEW amt \in Pos, NEW rIn \in Pos, NEW rOut \in Pos
  PROVE  LET out == AmountOut(amt, rIn, rOut)
         IN  /\ out \in Nat /\ rOut - out \in Pos
             /\ rIn * rOut <= (rIn + amt) * (rOut - out)
<1> DEFINE B == Params.bps
           x == amt * (Params.bps - Params.swapFeeBps)
           out == AmountOut(amt, rIn, rOut)
<1>1. B \in Nat \ {0} /\ Params.bps - Params.swapFeeBps \in Nat
      /\ Params.bps - Params.swapFeeBps <= B
  BY ParamsAssumption DEF Pos
<1>2. amt \in Nat /\ rIn \in Nat \ {0} /\ rOut \in Nat \ {0}
  BY DEF Pos
<1>3. x \in Nat /\ x <= amt * B
  BY <1>1, <1>2, ProductNat, ProductMonotonic
<1>4. out = (rOut * x) \div (rIn * B + x)
  BY DEF AmountOut
<1> HIDE DEF B, x, out
<1>5. /\ out \in Nat /\ out < rOut
      /\ rIn * rOut <= (rIn + amt) * (rOut - out)
  BY <1>1, <1>2, <1>3, <1>4, TradeKeepsProduct
<1>6. rOut - out \in Pos
  BY <1>2, <1>5 DEF Pos
<1> QED BY <1>5, <1>6 DEF out

(* What every trade keeps.                                                 *)
PoolKept ==
  /\ PoolOK'
  /\ pool'.sat * pool'.ptp * pool.shares * pool.shares
       >= pool.sat * pool.ptp * pool'.shares * pool'.shares

LEMMA PoolNums ==
  ASSUME PoolOK
  PROVE  /\ pool.sat \in Pos /\ pool.ptp \in Pos /\ pool.shares \in Pos /\ pool.locked \in Pos
         /\ pool.sat \in Nat \ {0} /\ pool.ptp \in Nat \ {0} /\ pool.shares \in Nat \ {0}
         /\ pool.locked \in Nat
         /\ DOMAIN pool = {"sat", "ptp", "shares", "locked"}
BY DEF PoolOK, Pos

LEMMA SwapKeepsPool ==
  ASSUME PoolOK, NEW sat \in Pos, NEW ptp \in Pos, pool.sat * pool.ptp <= sat * ptp,
         pool' = [pool EXCEPT !.sat = sat, !.ptp = ptp]
  PROVE  PoolKept
<1>1. PoolOK' /\ pool'.sat = sat /\ pool'.ptp = ptp /\ pool'.shares = pool.shares
  BY DEF PoolOK
<1> DEFINE s == pool.shares
           k == pool.sat * pool.ptp
           l == sat * ptp
<1>2. s \in Nat /\ s * s \in Nat /\ k \in Nat /\ l \in Nat /\ k <= l
  BY PoolNums, ProductNat DEF Pos
<1>3. pool.sat * pool.ptp * pool.shares * pool.shares = k * s * s
      /\ sat * ptp * pool.shares * pool.shares = l * s * s
  OBVIOUS
<1> HIDE DEF s, k, l
<1>4. k * (s * s) <= l * (s * s)
  BY <1>2, ProductMonotonic
<1>5. k * s * s = k * (s * s) /\ l * s * s = l * (s * s)
  BY <1>2
<1>6. k * s * s <= l * s * s
  BY <1>4, <1>5
<1>7. k * s * s \in Nat /\ l * s * s \in Nat
  BY <1>2, ProductNat
<1>8. l * s * s >= k * s * s
  BY <1>6, <1>7
<1> QED BY <1>1, <1>3, <1>8 DEF PoolKept

LEMMA LiquidityKeepsPool ==
  ASSUME PoolOK, NEW sat \in Pos, NEW ptp \in Pos, NEW shares \in Pos,
         pool.sat * shares <= pool.shares * sat, pool.ptp * shares <= pool.shares * ptp,
         pool' = [pool EXCEPT !.sat = sat, !.ptp = ptp, !.shares = shares]
  PROVE  PoolKept
<1>1. PoolOK' /\ pool'.sat = sat /\ pool'.ptp = ptp /\ pool'.shares = shares
  BY DEF PoolOK
<1>2. /\ sat \in Nat /\ ptp \in Nat /\ shares \in Nat
      /\ pool.sat \in Nat /\ pool.ptp \in Nat /\ pool.shares \in Nat
  BY PoolNums DEF Pos
<1>3. sat * ptp * pool.shares * pool.shares >= pool.sat * pool.ptp * shares * shares
  BY <1>2, BothSidesKept
<1> QED BY <1>1, <1>3 DEF PoolKept

(* A deposit takes its part of each reserve rounded up.                    *)
LEMMA DepositKeepsPool ==
  ASSUME PoolOK, NEW minted \in Pos,
         pool' = [pool EXCEPT !.sat = @ + Taken(pool, minted, pool.sat),
                              !.ptp = @ + Taken(pool, minted, pool.ptp),
                              !.shares = @ + minted]
  PROVE  /\ PoolKept
         /\ Taken(pool, minted, pool.sat) \in Nat /\ Taken(pool, minted, pool.ptp) \in Nat
         /\ pool'.sat = pool.sat + Taken(pool, minted, pool.sat)
         /\ pool'.ptp = pool.ptp + Taken(pool, minted, pool.ptp)
<1> DEFINE S == pool.shares
           u == Taken(pool, minted, pool.sat)
           v == Taken(pool, minted, pool.ptp)
           sat == pool.sat + u
           ptp == pool.ptp + v
           shares == S + minted
<1>1. /\ minted \in Nat /\ pool.sat \in Nat \ {0} /\ pool.ptp \in Nat \ {0} /\ S \in Nat \ {0}
  BY PoolNums DEF Pos
<1>2. minted * pool.sat \in Nat /\ minted * pool.ptp \in Nat
  BY <1>1, ProductNat
<1>3. /\ u \in Nat /\ minted * pool.sat <= S * u
      /\ v \in Nat /\ minted * pool.ptp <= S * v
  BY <1>1, <1>2, QuotientUp DEF Taken, CeilDiv
<1>4. pool' = [pool EXCEPT !.sat = sat, !.ptp = ptp, !.shares = shares]
  OBVIOUS
<1>5. pool.sat * (S + minted) <= S * (pool.sat + u) /\ pool.ptp * (S + minted) <= S * (pool.ptp + v)
  <2> HIDE DEF S, u, v
  <2>1. /\ pool.sat * (S + minted) = S * pool.sat + minted * pool.sat
        /\ S * (pool.sat + u) = S * pool.sat + S * u
        /\ pool.ptp * (S + minted) = S * pool.ptp + minted * pool.ptp
        /\ S * (pool.ptp + v) = S * pool.ptp + S * v
    BY <1>1, <1>3
  <2>2. S * pool.sat \in Nat /\ S * u \in Nat /\ S * pool.ptp \in Nat /\ S * v \in Nat
    BY <1>1, <1>3, ProductNat
  <2> QED BY <1>2, <1>3, <2>1, <2>2
<1>6. sat \in Pos /\ ptp \in Pos /\ shares \in Pos
  BY <1>1, <1>3 DEF Pos
<1>7. pool.sat * shares <= pool.shares * sat /\ pool.ptp * shares <= pool.shares * ptp
  BY <1>5
<1> HIDE DEF sat, ptp, shares, S, u, v
<1>8. PoolKept
  BY <1>4, <1>6, <1>7, LiquidityKeepsPool
<1>9. pool'.sat = sat /\ pool'.ptp = ptp
  BY <1>4 DEF PoolOK
<1> QED BY <1>3, <1>8, <1>9 DEF sat, ptp, u, v

(* A withdrawal gives its part of each reserve rounded down, and the       *)
(* locked shares stay.                                                     *)
LEMMA WithdrawalKeepsPool ==
  ASSUME PoolOK, NEW n \in Pos, n <= pool.shares - pool.locked,
         pool' = [pool EXCEPT !.sat = @ - (n * pool.sat) \div pool.shares,
                              !.ptp = @ - (n * pool.ptp) \div pool.shares,
                              !.shares = @ - n]
  PROVE  /\ PoolKept
         /\ (n * pool.sat) \div pool.shares \in Nat /\ (n * pool.ptp) \div pool.shares \in Nat
         /\ pool'.sat = pool.sat - (n * pool.sat) \div pool.shares
         /\ pool'.ptp = pool.ptp - (n * pool.ptp) \div pool.shares
<1> DEFINE S == pool.shares
           u == (n * pool.sat) \div S
           v == (n * pool.ptp) \div S
           sat == pool.sat - u
           ptp == pool.ptp - v
           shares == S - n
<1>1. /\ n \in Nat /\ pool.sat \in Nat \ {0} /\ pool.ptp \in Nat \ {0} /\ S \in Nat \ {0}
      /\ n < S
  BY PoolNums DEF Pos
<1>2. pool' = [pool EXCEPT !.sat = sat, !.ptp = ptp, !.shares = shares]
  OBVIOUS
<1>3. /\ u \in Nat /\ u < pool.sat
      /\ pool.sat * (S - n) <= S * (pool.sat - u)
  <2> HIDE DEF S
  <2> QED BY <1>1, PartOfWhole
<1>4. /\ v \in Nat /\ v < pool.ptp
      /\ pool.ptp * (S - n) <= S * (pool.ptp - v)
  <2> HIDE DEF S
  <2> QED BY <1>1, PartOfWhole
<1>5. u = (n * pool.sat) \div pool.shares /\ v = (n * pool.ptp) \div pool.shares /\ S = pool.shares
  OBVIOUS
<1> HIDE DEF u, v
<1>6. sat \in Pos /\ ptp \in Pos /\ shares \in Pos
  BY <1>1, <1>3, <1>4 DEF Pos
<1>7. pool.sat * shares <= pool.shares * sat /\ pool.ptp * shares <= pool.shares * ptp
  BY <1>3, <1>4
<1>8. sat = pool.sat - u /\ ptp = pool.ptp - v
  OBVIOUS
<1> HIDE DEF sat, ptp, shares, S
<1>9. PoolKept
  BY <1>2, <1>6, <1>7, LiquidityKeepsPool
<1>10. pool'.sat = sat /\ pool'.ptp = ptp
  BY <1>2 DEF PoolOK
<1> QED BY <1>3, <1>4, <1>5, <1>8, <1>9, <1>10
-----------------------------------------------------------------------------
(* Everything the balance sheet adds up is a number.                       *)
LEMMA MoneyNums ==
  ASSUME MoneyInv
  PROVE  /\ supply.emitted \in Nat /\ supply.burned \in Nat /\ treasury \in Nat
         /\ pool.ptp \in Nat /\ pool.sat \in Nat /\ pot \in Nat /\ bonds \in Nat
         /\ PtpHeld \in Nat /\ SatHeld \in Nat /\ SatBurned \in Nat
         /\ CreditOwed \in Nat /\ Escrowed \in Nat /\ BondsPaid \in Nat
         /\ Params.genesisSat \in Nat
<1>1. supply.emitted \in Nat /\ supply.burned \in Nat /\ treasury \in Nat
  BY DEF MoneyInv, SupplyOK
<1>2. pool.ptp \in Nat /\ pool.sat \in Nat
  BY PoolNums DEF MoneyInv
<1>3. /\ PtpHeld \in Nat /\ SatHeld \in Nat /\ SatBurned \in Nat
      /\ CreditOwed \in Nat /\ Escrowed \in Nat /\ BondsPaid \in Nat
  BY RowsAddUp, WallAddsUp, BondsAddUp, BurnsAddUp DEF MoneyInv
<1>4. pot = Escrowed /\ bonds = BondsPaid
  BY DEF MoneyInv, Books, PotIsTheEscrows
<1> QED BY <1>1, <1>2, <1>3, <1>4, ParamsNat DEF Pos

(* The parts of the sheet most acts leave alone.                           *)
Idle ==
  /\ WallOK' /\ BurnsOK' /\ NodesOK' /\ PotIsTheEscrows'
  /\ CreditOwed' = CreditOwed /\ SatBurned' = SatBurned
  /\ bonds' = bonds /\ pot' = pot

LEMMA IdleParts ==
  ASSUME MoneyInv, UNCHANGED <<joined, burns, pot, bonds, providers, posts, escrow, credit, proofs>>
  PROVE  Idle
<1>1. WallOK' /\ Escrowed' = Escrowed /\ CreditOwed' = CreditOwed
  BY WallStays DEF MoneyInv
<1>2. BurnsOK' /\ SatBurned' = SatBurned
  BY BurnsStay DEF MoneyInv
<1>3. NodesOK' /\ BondsPaid' = BondsPaid
  BY NodesStay DEF MoneyInv
<1>4. PotIsTheEscrows'
  BY <1>1, <1>3 DEF MoneyInv, Books, PotIsTheEscrows, Held
<1> QED BY <1>1, <1>2, <1>3, <1>4 DEF Idle

(* A trade, a deposit and a withdrawal move coins between one row and the  *)
(* pool.                                                                   *)
LEMMA TradeKeepsMoney ==
  ASSUME MoneyInv, NEW a \in joined, NEW t \in Stamps, NEW row \in Row, PoolKept,
         accounts' = [accounts EXCEPT ![a] = row],
         row.ptp + pool'.ptp = accounts[a].ptp + pool.ptp,
         row.sat + pool'.sat = accounts[a].sat + pool.sat,
         LandsQuietly(t),
         UNCHANGED <<joined, burns, supply, treasury, pot, bonds, providers, posts, escrow,
                     credit, proofs, history>>
  PROVE  MoneyInv'
<1>1. Idle
  BY IdleParts
<1>2. RowMoved(a, row)
  BY RowMoves DEF MoneyInv
<1>3. RatesOK'
  BY QuietRates DEF MoneyInv
<1>4. PoolOK' /\ SupplyOK'
  BY DEF MoneyInv, SupplyOK, PoolKept
<1>5. /\ accounts[a].ptp \in Nat /\ accounts[a].sat \in Nat /\ row.ptp \in Nat /\ row.sat \in Nat
      /\ pool'.ptp \in Nat /\ pool'.sat \in Nat
  BY RowsAddUp, <1>4 DEF MoneyInv, RowsOK, Row, PoolOK, Pos
<1>6. PtpConserved'
  <2>1. PtpHeld' + pool'.ptp = PtpHeld + pool.ptp
    BY <1>2, <1>5, MoneyNums DEF RowMoved
  <2>2. supply.emitted - supply.burned
          = PtpHeld + pool.ptp + treasury + pot + bonds + CreditOwed
    BY DEF MoneyInv, Books, PtpConserved
  <2>3. PtpHeld' \in Int
    BY <1>2, <1>5, MoneyNums DEF RowMoved
  <2>4. supply.emitted - supply.burned
          = PtpHeld' + pool'.ptp + treasury + pot + bonds + CreditOwed
    BY <1>5, <2>1, <2>2, <2>3, MoneyNums
  <2> QED BY <1>1, <2>4 DEF PtpConserved, Idle
<1>7. SatConserved'
  <2>1. SatHeld' + pool'.sat = SatHeld + pool.sat
    BY <1>2, <1>5, MoneyNums DEF RowMoved
  <2>2. SatHeld + pool.sat = Params.genesisSat + SatBurned
    BY DEF MoneyInv, Books, SatConserved
  <2> QED BY <1>1, <2>1, <2>2 DEF SatConserved, Idle
<1> QED BY <1>1, <1>2, <1>3, <1>4, <1>6, <1>7 DEF MoneyInv, Books, RowMoved, Idle

(* What the pool acts share: who acts has a row, and only rows and pool    *)
(* change.                                                                 *)
LEMMA PoolActKeepsMoney ==
  ASSUME MoneyInv, NEW a \in Addr, NEW t \in Stamps, PoolNext(a, t)
  PROVE  MoneyInv' /\ PoolKept
<1>1. PoolOK /\ RowsOK
  BY DEF MoneyInv
<1>2. ASSUME NEW amt \in Inputs.amounts, NEW minOut \in Inputs.minOuts, SwapBtc(a, t, amt, minOut)
      PROVE  MoneyInv' /\ PoolKept
  <2> DEFINE out == AmountOut(amt, pool.sat, pool.ptp)
             sat == accounts[a].sat - amt
             ptp == accounts[a].ptp + out
             shares == accounts[a].shares
             row == [accounts[a] EXCEPT !.sat = sat, !.ptp = ptp, !.shares = shares]
  <2>1. amt \in Pos /\ amt \in Nat
    BY InputsAssumption DEF Pos
  <2>2. out \in Nat /\ pool.ptp - out \in Pos
        /\ pool.sat * pool.ptp <= (pool.sat + amt) * (pool.ptp - out)
    BY <1>1, <2>1, PoolNums, TradeOut
  <2>3. a \in joined /\ a \in Addr /\ accounts[a] \in Row /\ accounts[a].sat >= amt
    BY <1>2, RowsAddUp DEF MoneyInv, SwapBtc, Envelope
  <2>4. accounts' = [accounts EXCEPT ![a].sat = @ - amt, ![a].ptp = @ + out]
        /\ pool' = [pool EXCEPT !.sat = @ + amt, !.ptp = @ - out]
    BY <1>2 DEF SwapBtc
  <2>5. LandsQuietly(t) /\ UNCHANGED <<joined, burns, supply, treasury, pot, bonds, providers,
          posts, escrow, credit, proofs, history>>
    BY <1>2 DEF SwapBtc, postVars, epochVars
  <2> HIDE DEF out
  <2>6. sat \in Nat /\ ptp \in Nat /\ shares \in Nat /\ pool.sat + amt \in Pos
    BY <1>1, <2>1, <2>2, <2>3, PoolNums DEF Row, Pos
  <2>7. accounts' = [accounts EXCEPT ![a] = row]
    BY <1>1, <2>4 DEF RowsOK, Row
  <2>8. PoolKept
    BY <1>1, <2>2, <2>4, <2>6, SwapKeepsPool
  <2>9. pool'.sat = pool.sat + amt /\ pool'.ptp = pool.ptp - out
    BY <1>1, <2>4 DEF PoolOK
  <2>10. sat + pool'.sat = accounts[a].sat + pool.sat /\ ptp + pool'.ptp = accounts[a].ptp + pool.ptp
    BY <1>1, <2>1, <2>2, <2>3, <2>9, PoolNums DEF Row, Pos
  <2> HIDE DEF sat, ptp, shares
  <2>11. row \in Row /\ row.sat = sat /\ row.ptp = ptp
    BY <2>3, <2>6 DEF Row
  <2> HIDE DEF row
  <2>12. MoneyInv'
    BY <2>3, <2>5, <2>7, <2>8, <2>10, <2>11, TradeKeepsMoney
  <2> QED BY <2>8, <2>12
<1>3. ASSUME NEW amt \in Inputs.amounts, NEW minOut \in Inputs.minOuts, SwapPtp(a, t, amt, minOut)
      PROVE  MoneyInv' /\ PoolKept
  <2> DEFINE out == AmountOut(amt, pool.ptp, pool.sat)
             sat == accounts[a].sat + out
             ptp == accounts[a].ptp - amt
             shares == accounts[a].shares
             row == [accounts[a] EXCEPT !.sat = sat, !.ptp = ptp, !.shares = shares]
  <2>1. amt \in Pos /\ amt \in Nat
    BY InputsAssumption DEF Pos
  <2>2. out \in Nat /\ pool.sat - out \in Pos
        /\ pool.ptp * pool.sat <= (pool.ptp + amt) * (pool.sat - out)
    BY <1>1, <2>1, PoolNums, TradeOut
  <2>3. a \in joined /\ a \in Addr /\ accounts[a] \in Row /\ accounts[a].ptp >= amt
    BY <1>3, RowsAddUp DEF MoneyInv, SwapPtp, Envelope
  <2>4. accounts' = [accounts EXCEPT ![a].ptp = @ - amt, ![a].sat = @ + out]
        /\ pool' = [pool EXCEPT !.ptp = @ + amt, !.sat = @ - out]
    BY <1>3 DEF SwapPtp
  <2>5. LandsQuietly(t) /\ UNCHANGED <<joined, burns, supply, treasury, pot, bonds, providers,
          posts, escrow, credit, proofs, history>>
    BY <1>3 DEF SwapPtp, postVars, epochVars
  <2> HIDE DEF out
  <2>6. sat \in Nat /\ ptp \in Nat /\ shares \in Nat /\ pool.ptp + amt \in Pos
    BY <1>1, <2>1, <2>2, <2>3, PoolNums DEF Row, Pos
  <2>7. accounts' = [accounts EXCEPT ![a] = row]
    BY <1>1, <2>4 DEF RowsOK, Row
  <2>8. PoolKept
    <3> DEFINE s == pool.sat - out
               q == pool.ptp + amt
    <3>1. s \in Pos /\ q \in Pos /\ pool' = [pool EXCEPT !.sat = s, !.ptp = q]
      BY <1>1, <2>2, <2>4, <2>6 DEF PoolOK
    <3>2. pool.sat * pool.ptp <= s * q
      <4>1. pool.ptp * pool.sat <= q * s
        BY <2>2
      <4>2. s \in Nat /\ q \in Nat /\ pool.sat \in Nat /\ pool.ptp \in Nat
        BY <1>1, <3>1, PoolNums DEF Pos
      <4> HIDE DEF s, q
      <4>3. pool.ptp * pool.sat = pool.sat * pool.ptp /\ q * s = s * q
        BY <4>2
      <4> QED BY <4>1, <4>3
    <3> HIDE DEF s, q
    <3> QED BY <1>1, <3>1, <3>2, SwapKeepsPool
  <2>9. pool'.sat = pool.sat - out /\ pool'.ptp = pool.ptp + amt
    BY <1>1, <2>4 DEF PoolOK
  <2>10. sat + pool'.sat = accounts[a].sat + pool.sat /\ ptp + pool'.ptp = accounts[a].ptp + pool.ptp
    BY <1>1, <2>1, <2>2, <2>3, <2>9, PoolNums DEF Row, Pos
  <2> HIDE DEF sat, ptp, shares
  <2>11. row \in Row /\ row.sat = sat /\ row.ptp = ptp
    BY <2>3, <2>6 DEF Row
  <2> HIDE DEF row
  <2>12. MoneyInv'
    BY <2>3, <2>5, <2>7, <2>8, <2>10, <2>11, TradeKeepsMoney
  <2> QED BY <2>8, <2>12
<1>4. ASSUME NEW offSat \in Inputs.amounts, NEW offPtp \in Inputs.amounts, LiqAdd(a, t, offSat, offPtp)
      PROVE  MoneyInv' /\ PoolKept
  <2> DEFINE minted == SharesFor(pool, offSat, offPtp)
             u == Taken(pool, minted, pool.sat)
             v == Taken(pool, minted, pool.ptp)
             sat == accounts[a].sat - u
             ptp == accounts[a].ptp - v
             shares == accounts[a].shares + minted
             row == [accounts[a] EXCEPT !.sat = sat, !.ptp = ptp, !.shares = shares]
  <2>1. minted \in Pos
    <3>1. offSat \in Nat /\ offPtp \in Nat
      BY InputsAssumption DEF Pos
    <3>2. (offSat * pool.shares) \div pool.sat \in Nat /\ (offPtp * pool.shares) \div pool.ptp \in Nat
      BY <1>1, <3>1, PoolNums, ProductNat, QuotientDown
    <3>3. minted > 0
      BY <1>4 DEF LiqAdd
    <3>4. minted \in Nat
      BY <3>2 DEF SharesFor
    <3> QED BY <3>3, <3>4 DEF Pos
  <2>2. a \in joined /\ a \in Addr /\ accounts[a] \in Row /\ accounts[a].sat >= offSat
        /\ accounts[a].ptp >= offPtp /\ u <= offSat /\ v <= offPtp
    BY <1>4, RowsAddUp DEF MoneyInv, LiqAdd, Envelope
  <2>3. accounts' = [accounts EXCEPT ![a].sat = @ - u, ![a].ptp = @ - v, ![a].shares = @ + minted]
        /\ pool' = [pool EXCEPT !.sat = @ + u, !.ptp = @ + v, !.shares = @ + minted]
    BY <1>4 DEF LiqAdd
  <2>4. LandsQuietly(t) /\ UNCHANGED <<joined, burns, supply, treasury, pot, bonds, providers,
          posts, escrow, credit, proofs, history>>
    BY <1>4 DEF LiqAdd, postVars, epochVars
  <2> HIDE DEF minted
  <2>5. PoolKept /\ u \in Nat /\ v \in Nat /\ pool'.sat = pool.sat + u /\ pool'.ptp = pool.ptp + v
    BY <1>1, <2>1, <2>3, DepositKeepsPool
  <2> HIDE DEF u, v
  <2>6. sat \in Nat /\ ptp \in Nat /\ shares \in Nat
    <3>1. offSat \in Nat /\ offPtp \in Nat
      BY InputsAssumption DEF Pos
    <3> QED BY <2>1, <2>2, <2>5, <3>1 DEF Row, Pos
  <2>7. accounts' = [accounts EXCEPT ![a] = row]
    BY <1>1, <2>3 DEF RowsOK, Row
  <2>8. sat + pool'.sat = accounts[a].sat + pool.sat /\ ptp + pool'.ptp = accounts[a].ptp + pool.ptp
    BY <1>1, <2>2, <2>5, PoolNums DEF Row
  <2> HIDE DEF sat, ptp, shares
  <2>9. row \in Row /\ row.sat = sat /\ row.ptp = ptp
    BY <2>2, <2>6 DEF Row
  <2> HIDE DEF row
  <2>10. MoneyInv'
    BY <2>2, <2>4, <2>5, <2>7, <2>8, <2>9, TradeKeepsMoney
  <2> QED BY <2>5, <2>10
<1>5. ASSUME NEW n \in Inputs.shares, LiqRemove(a, t, n) PROVE MoneyInv' /\ PoolKept
  <2> DEFINE u == (n * pool.sat) \div pool.shares
             v == (n * pool.ptp) \div pool.shares
             sat == accounts[a].sat + u
             ptp == accounts[a].ptp + v
             shares == accounts[a].shares - n
             row == [accounts[a] EXCEPT !.sat = sat, !.ptp = ptp, !.shares = shares]
  <2>1. n \in Pos /\ n \in Nat
    BY InputsAssumption DEF Pos
  <2>2. a \in joined /\ a \in Addr /\ accounts[a] \in Row /\ accounts[a].shares >= n
        /\ n <= pool.shares - pool.locked
    BY <1>5, RowsAddUp DEF MoneyInv, LiqRemove, Envelope
  <2>3. accounts' = [accounts EXCEPT ![a].shares = @ - n, ![a].sat = @ + u, ![a].ptp = @ + v]
        /\ pool' = [pool EXCEPT !.sat = @ - u, !.ptp = @ - v, !.shares = @ - n]
    BY <1>5 DEF LiqRemove
  <2>4. LandsQuietly(t) /\ UNCHANGED <<joined, burns, supply, treasury, pot, bonds, providers,
          posts, escrow, credit, proofs, history>>
    BY <1>5 DEF LiqRemove, postVars, epochVars
  <2>5. PoolKept /\ u \in Nat /\ v \in Nat /\ pool'.sat = pool.sat - u /\ pool'.ptp = pool.ptp - v
    BY <1>1, <2>1, <2>2, <2>3, WithdrawalKeepsPool
  <2> HIDE DEF u, v
  <2>6. sat \in Nat /\ ptp \in Nat /\ shares \in Nat
    BY <2>1, <2>2, <2>5 DEF Row
  <2>7. accounts' = [accounts EXCEPT ![a] = row]
    BY <1>1, <2>3 DEF RowsOK, Row
  <2>8. sat + pool'.sat = accounts[a].sat + pool.sat /\ ptp + pool'.ptp = accounts[a].ptp + pool.ptp
    BY <1>1, <2>2, <2>5, PoolNums DEF Row
  <2> HIDE DEF sat, ptp, shares
  <2>9. row \in Row /\ row.sat = sat /\ row.ptp = ptp
    BY <2>2, <2>6 DEF Row
  <2> HIDE DEF row
  <2>10. MoneyInv'
    BY <2>2, <2>4, <2>5, <2>7, <2>8, <2>9, TradeKeepsMoney
  <2> QED BY <2>5, <2>10
<1> QED BY <1>2, <1>3, <1>4, <1>5 DEF PoolNext
-----------------------------------------------------------------------------
(* An act that moves no coin: whoever joins has an empty row, and a        *)
(* scheduled rule touches no money.                                        *)
LEMMA StillKeepsMoney ==
  ASSUME MoneyInv, NEW t \in Stamps, joined \subseteq joined', RowsOK', accounts' = accounts,
         LandsQuietly(t),
         UNCHANGED <<burns, moneyVars, providers, posts, escrow, credit, proofs, history>>
  PROVE  MoneyInv'
<1>1. UNCHANGED <<pool, supply, treasury, pot, bonds>>
  BY DEF moneyVars
<1>2. WallOK' /\ Escrowed' = Escrowed /\ CreditOwed' = CreditOwed
  BY WallStays DEF MoneyInv
<1>3. BurnsOK' /\ SatBurned' = SatBurned
  BY BurnsStay DEF MoneyInv
<1>4. NodesOK' /\ BondsPaid' = BondsPaid
  BY NodesStay DEF MoneyInv
<1>5. RatesOK'
  BY QuietRates DEF MoneyInv
<1>6. PtpHeld' = PtpHeld /\ SatHeld' = SatHeld
  BY DEF PtpHeld, SatHeld
<1>7. Books'
  BY <1>1, <1>2, <1>3, <1>4, <1>6
     DEF MoneyInv, Books, PtpConserved, PotIsTheEscrows, SatConserved, Held
<1>8. PoolOK' /\ SupplyOK'
  BY <1>1 DEF MoneyInv, PoolOK, SupplyOK
<1> QED BY <1>2, <1>3, <1>4, <1>5, <1>7, <1>8 DEF MoneyInv

LEMMA RegisterKeepsMoney ==
  ASSUME MoneyInv, NEW a \in Addr, NEW t \in Stamps, NEW name \in Names, Register(a, t, name)
  PROVE  MoneyInv' /\ UNCHANGED pool
<1>1. RowsOK /\ a \notin joined
  BY DEF MoneyInv, Register
<1>2. /\ joined' = joined \cup {a} /\ accounts' = [accounts EXCEPT ![a] = NewAccount]
      /\ LandsQuietly(t) /\ UNCHANGED pool
      /\ UNCHANGED <<burns, moneyVars, providers, posts, escrow, credit, proofs, history>>
  BY DEF Register, postVars, epochVars, moneyVars
<1>3. accounts' = accounts
  BY <1>1, <1>2 DEF RowsOK
<1>4. RowsOK' /\ joined \subseteq joined'
  BY <1>1, <1>2, <1>3 DEF RowsOK
<1> QED BY <1>2, <1>3, <1>4, StillKeepsMoney

LEMMA RulesSetKeepsMoney ==
  ASSUME MoneyInv, NEW a \in Addr, NEW t \in Stamps, NEW from \in Inputs.froms, RulesSet(a, t, from)
  PROVE  MoneyInv' /\ UNCHANGED pool
<1>1. /\ joined' = joined /\ accounts' = accounts /\ LandsQuietly(t) /\ UNCHANGED pool
      /\ UNCHANGED <<burns, moneyVars, providers, posts, escrow, credit, proofs, history>>
  BY DEF RulesSet, postVars, moneyVars
<1>2. RowsOK' /\ joined \subseteq joined'
  BY <1>1 DEF MoneyInv, RowsOK
<1> QED BY <1>1, <1>2, StillKeepsMoney

(* A claimed output is added to the set of claimed outputs and to one row. *)
LEMMA BurnClaimKeepsMoney ==
  ASSUME MoneyInv, NEW a \in Addr, NEW t \in Stamps, NEW o \in Txos, BurnClaim(a, t, o)
  PROVE  MoneyInv' /\ UNCHANGED pool
<1> DEFINE sat == accounts[a].sat + TxoSat[o]
           row == [accounts[a] EXCEPT !.sat = sat]
<1>1. a \in joined /\ o \notin burns /\ burns' = burns \cup {o} /\ LandsQuietly(t)
      /\ accounts' = [accounts EXCEPT ![a].sat = @ + TxoSat[o]]
  BY DEF BurnClaim, Envelope, BurnTaken
<1>2. UNCHANGED <<joined, pool, supply, treasury, pot, bonds, providers, posts, escrow, credit,
                  proofs, history>>
  BY DEF BurnClaim, moneyVars, postVars, epochVars
<1>3. RowsOK /\ PoolOK /\ SupplyOK /\ BurnsOK /\ NodesOK /\ WallOK /\ RatesOK
  BY DEF MoneyInv
<1>4. BurnsOK' /\ SatBurned' = SatBurned + TxoSat[o] /\ TxoSat[o] \in Nat
  BY <1>1, <1>3, BurnsGrow
<1>5. accounts[a] \in Row /\ sat \in Nat
  BY <1>3, <1>4, RowsAddUp DEF Row
<1>6. accounts' = [accounts EXCEPT ![a] = row]
  BY <1>1, <1>3 DEF RowsOK, Row
<1> HIDE DEF sat
<1>7. row \in Row /\ row.sat = sat /\ row.ptp = accounts[a].ptp
  BY <1>5 DEF Row
<1> HIDE DEF row
<1>8. RowMoved(a, row)
  BY <1>1, <1>2, <1>3, <1>6, <1>7, RowMoves
<1>9. WallOK' /\ Escrowed' = Escrowed /\ CreditOwed' = CreditOwed
      /\ NodesOK' /\ BondsPaid' = BondsPaid
  BY <1>2, <1>3, WallStays, NodesStay
<1>10. RatesOK'
  BY <1>1, <1>2, <1>3, QuietRates
<1>11. PtpConserved'
  <2>1. PtpHeld' = PtpHeld
    <3>1. accounts[a].ptp \in Nat /\ PtpHeld \in Nat
      BY <1>3, <1>5, RowsAddUp DEF Row
    <3> QED BY <1>7, <1>8, <3>1 DEF RowMoved
  <2>2. PtpConserved
    BY DEF MoneyInv, Books
  <2> QED BY <1>2, <1>9, <2>1, <2>2 DEF PtpConserved
<1>12. SatConserved'
  <2>1. SatHeld' = SatHeld + TxoSat[o]
    <3>1. accounts[a].sat \in Nat /\ SatHeld \in Nat
      BY <1>3, <1>5, RowsAddUp DEF Row
    <3> QED BY <1>4, <1>7, <1>8, <3>1 DEF RowMoved, sat
  <2>2. SatHeld + pool.sat = Params.genesisSat + SatBurned
    BY DEF MoneyInv, Books, SatConserved
  <2> QED BY <1>2, <1>4, <2>1, <2>2, MoneyNums DEF SatConserved
<1>13. PotIsTheEscrows'
  BY <1>2, <1>9 DEF MoneyInv, Books, PotIsTheEscrows, Held
<1> QED BY <1>2, <1>3, <1>4, <1>8, <1>9, <1>10, <1>11, <1>12, <1>13
        DEF MoneyInv, Books, RowMoved, PoolOK, SupplyOK
-----------------------------------------------------------------------------
(* The wall: a publish fee goes to burn, pot and treasury, and the rent to *)
(* the pot; both lie in the escrow of the post.                            *)
LEMMA PostKeepsMoney ==
  ASSUME MoneyInv, PostInv, NEW a \in Addr, NEW t \in Stamps, NEW c \in Cids,
         NEW bytes \in Inputs.bytes, NEW price \in Inputs.prices, NEW d \in Inputs.days,
         Post(a, t, c, bytes, price, d)
  PROVE  MoneyInv' /\ UNCHANGED pool
<1> DEFINE fee   == PriceOf(Params.publishBase, epoch.rate)
           rent  == Rent(bytes, d)
           units == CapUnitsFor(bytes, d)
           legs  == SplitFee(fee, Params.publish)
           p     == seq + 1
           ptp   == accounts[a].ptp - fee - rent
           cap   == accounts[a].cap - units
           row   == [accounts[a] EXCEPT !.ptp = ptp, !.cap = cap]
           e     == [holding |-> rent, serving |-> legs.capacity, capUnits |-> units, claimed |-> 0]
           new   == [author |-> a, cid |-> c, bytes |-> bytes, price |-> price,
                     expires |-> t + d * Params.lifetime, state |-> "live"]
<1>1. RowsOK /\ PoolOK /\ SupplyOK /\ BurnsOK /\ NodesOK /\ WallOK /\ RatesOK
  BY DEF MoneyInv
<1>2. /\ a \in joined /\ accounts[a].ptp >= fee + rent /\ accounts[a].cap >= units
      /\ accounts' = [accounts EXCEPT ![a].ptp = @ - fee - rent, ![a].cap = @ - units]
      /\ supply' = [supply EXCEPT !.burned = @ + legs.burn]
      /\ epoch' = Burned(Started(epoch, t), legs.burn)
      /\ treasury' = treasury + legs.treasury
      /\ pot' = pot + legs.capacity + rent
      /\ posts' = [posts EXCEPT ![p] = new]
      /\ escrow' = [escrow EXCEPT ![p] = e]
  BY DEF Post, Envelope, Affords
<1>3. UNCHANGED <<joined, burns, pool, bonds, providers, credit, proofs, history>>
  BY DEF Post, epochVars
<1>4. p \in Pids /\ posts[p].state = "none" /\ DOMAIN posts = Pids
  BY BoundsAssumption DEF Post, Pids, PostInv, PostsTypeOK, PidsInOrder
<1>5. bytes \in Pos /\ d \in Pos /\ epoch.rate \in Rate
  BY <1>1, InputsAssumption DEF RatesOK
<1>6. fee \in Nat
  BY <1>5, PriceNat, ParamsNat DEF Pos
<1>7. rent \in Nat /\ units \in Pos
  BY <1>5, RentNat, PriceNat DEF Rent
<1>8. /\ legs.capacity \in Nat /\ legs.treasury \in Nat /\ legs.burn \in Nat
      /\ fee = legs.capacity + legs.treasury + legs.burn
  BY <1>6, PublishSplits
<1> HIDE DEF fee, rent, units, legs
<1>9. accounts[a] \in Row /\ ptp \in Nat /\ cap \in Nat
  BY <1>1, <1>2, <1>6, <1>7, RowsAddUp DEF Row, Pos
<1>10. accounts' = [accounts EXCEPT ![a] = row]
  BY <1>1, <1>2 DEF RowsOK, Row
<1>11. ptp = accounts[a].ptp - fee - rent
  OBVIOUS
<1> HIDE DEF ptp, cap
<1>12. row \in Row /\ row.ptp = ptp /\ row.sat = accounts[a].sat
  BY <1>9 DEF Row
<1> HIDE DEF row
<1>13. RowMoved(a, row)
  BY <1>1, <1>2, <1>3, <1>10, <1>12, RowMoves
<1>14. e \in Sound /\ Held(e) = rent + legs.capacity
  BY <1>7, <1>8 DEF Sound, EscrowRow, Held, Pos
<1>15. escrow[p] = NoEscrow /\ credit[p] = 0 /\ proofs[p] = <<>>
  BY <1>1, <1>4 DEF WallOK
<1>16. Held(escrow[p]) = 0
  BY <1>15 DEF Held, NoEscrow
<1> HIDE DEF e, p
<1>17. EscrowMoved(p, e)
  BY <1>1, <1>2, <1>4, <1>14, EscrowMoves
<1>18. /\ posts'[p].state = "live" /\ posts'[p].author = a /\ posts'[p].bytes = bytes
       /\ \A q \in Pids : q # p => posts'[q] = posts[q]
  BY <1>2, <1>4
<1>19. WallOK'
  <2>1. ASSUME NEW q \in Pids, posts'[q].state = "none"
        PROVE  escrow'[q] = NoEscrow /\ credit'[q] = 0 /\ proofs'[q] = <<>>
    BY <1>1, <1>3, <1>17, <1>18, <2>1 DEF EscrowMoved, WallOK
  <2>2. ASSUME NEW q \in Pids, posts'[q].state # "none"
        PROVE  posts'[q].author \in joined' /\ posts'[q].bytes \in Pos
    BY <1>1, <1>2, <1>3, <1>5, <1>18, <2>2 DEF WallOK
  <2>3. credit' \in [Pids -> Nat] /\ proofs' \in [Pids -> Seq(Proof)]
    BY <1>1, <1>3 DEF WallOK
  <2>4. escrow' \in [Pids -> Sound]
    BY <1>17 DEF EscrowMoved
  <2> QED BY <2>1, <2>2, <2>3, <2>4 DEF WallOK
<1>20. BurnsOK' /\ SatBurned' = SatBurned /\ NodesOK' /\ BondsPaid' = BondsPaid
  BY <1>1, <1>3, BurnsStay, NodesStay
<1>21. RatesOK'
  BY <1>1, <1>2, <1>3, <1>8, BurningRates
<1>22. SupplyOK' /\ supply'.burned = supply.burned + legs.burn /\ supply'.emitted = supply.emitted
  <2> DEFINE b == supply.burned + legs.burn
  <2>1. b \in Nat /\ supply' = [supply EXCEPT !.burned = b]
    BY <1>1, <1>2, <1>8 DEF SupplyOK
  <2>2. treasury' \in Nat
    BY <1>1, <1>2, <1>8 DEF SupplyOK
  <2> HIDE DEF b
  <2>3. SupplyOK' /\ supply'.burned = b /\ supply'.emitted = supply.emitted
    BY <1>1, <2>1, <2>2 DEF SupplyOK
  <2> QED BY <2>3 DEF b
<1>23. CreditOwed' = CreditOwed
  BY <1>3 DEF CreditOwed
<1>24. /\ PtpHeld' = PtpHeld - fee - rent /\ SatHeld' = SatHeld
       /\ Escrowed' = Escrowed + rent + legs.capacity
  <2>1. accounts[a].ptp \in Nat /\ accounts[a].sat \in Nat
    BY <1>9 DEF Row
  <2> QED BY <1>6, <1>7, <1>8, <1>11, <1>12, <1>13, <1>14, <1>16, <1>17, <2>1, MoneyNums
          DEF RowMoved, EscrowMoved
<1>25. PtpConserved'
  <2>1. supply.emitted - supply.burned
          = PtpHeld + pool.ptp + treasury + pot + bonds + CreditOwed
    BY DEF MoneyInv, Books, PtpConserved
  <2>2. /\ treasury' = treasury + legs.treasury /\ pot' = pot + legs.capacity + rent
        /\ pool' = pool /\ bonds' = bonds
    BY <1>2, <1>3
  <2> DEFINE others == pool.ptp + bonds + CreditOwed
  <2>3. others \in Nat /\ others = pool.ptp + bonds + CreditOwed
    BY MoneyNums
  <2>4. others' = others
    BY <1>23, <2>2
  <2> HIDE DEF others
  <2>5. supply.emitted - supply.burned = PtpHeld + treasury + pot + others
    BY <2>1, <2>3, MoneyNums
  <2>6. supply'.emitted - supply'.burned = PtpHeld' + treasury' + pot' + others'
    <3>1. /\ supply'.burned = supply.burned + legs.burn /\ supply'.emitted = supply.emitted
          /\ PtpHeld' = PtpHeld - fee - rent /\ others' = others
          /\ treasury' = treasury + legs.treasury /\ pot' = pot + legs.capacity + rent
      BY <1>22, <1>24, <2>2, <2>4
    <3>2. /\ fee \in Nat /\ rent \in Nat /\ PtpHeld \in Nat /\ treasury \in Nat /\ pot \in Nat
          /\ supply.emitted \in Nat /\ supply.burned \in Nat
      BY <1>6, <1>7, MoneyNums
    <3> DEFINE toPot == legs.capacity
               toTreasury == legs.treasury
               gone == legs.burn
               made == supply.emitted
               lost == supply.burned
    <3>3. /\ toPot \in Nat /\ toTreasury \in Nat /\ gone \in Nat /\ others \in Nat
          /\ made \in Nat /\ lost \in Nat
          /\ fee = toPot + toTreasury + gone /\ made - lost = PtpHeld + treasury + pot + others
      BY <1>8, <2>3, <2>5, <3>2
    <3> HIDE DEF toPot, toTreasury, gone, made, lost
    <3>4. made - (lost + gone)
            = (PtpHeld - fee - rent) + (treasury + toTreasury) + (pot + toPot + rent) + others
      BY ONLY <3>2, <3>3
    <3> QED BY <3>1, <3>4 DEF toPot, toTreasury, gone, made, lost
  <2>7. /\ PtpHeld' \in Int /\ treasury' \in Int /\ pot' \in Int /\ CreditOwed' \in Nat
        /\ pool'.ptp \in Nat /\ bonds' \in Nat
    BY <1>6, <1>7, <1>8, <1>23, <1>24, <2>2, MoneyNums
  <2> QED BY <2>6, <2>7 DEF PtpConserved, others
<1>26. PotIsTheEscrows'
  <2>1. pot = Escrowed /\ bonds = BondsPaid
        /\ \A q \in Pids : posts[q].state = "settled" => Held(escrow[q]) + credit[q] = 0
    BY DEF MoneyInv, Books, PotIsTheEscrows
  <2>2. pot' = Escrowed'
    BY <1>2, <1>7, <1>8, <1>24, <2>1, MoneyNums
  <2>3. ASSUME NEW q \in Pids, posts'[q].state = "settled"
        PROVE  Held(escrow'[q]) + credit'[q] = 0
    <3>1. q # p
      BY <1>18, <2>3
    <3> QED BY <1>3, <1>17, <1>18, <2>1, <2>3, <3>1 DEF EscrowMoved
  <2> QED BY <1>3, <1>20, <2>1, <2>2, <2>3 DEF PotIsTheEscrows, Held
<1>27. SatConserved'
  BY <1>3, <1>20, <1>24 DEF MoneyInv, Books, SatConserved
<1> QED BY <1>1, <1>3, <1>13, <1>19, <1>20, <1>21, <1>22, <1>25, <1>26, <1>27
        DEF MoneyInv, Books, RowMoved, PoolOK
-----------------------------------------------------------------------------
(* An act on one open post leaves the wall in order.                       *)
LEMMA OpenActKeepsWall ==
  ASSUME WallOK, NEW p \in Pids, NEW e \in Sound, NEW n \in Nat, posts[p].state # "none",
         EscrowMoved(p, e), CreditMoved(p, n), UNCHANGED proofs, joined' = joined,
         \A q \in Pids : q # p => posts'[q] = posts[q],
         posts'[p].state # "none", posts'[p].author = posts[p].author,
         posts'[p].bytes = posts[p].bytes
  PROVE  WallOK'
<1>1. ASSUME NEW q \in Pids, posts'[q].state = "none"
      PROVE  escrow'[q] = NoEscrow /\ credit'[q] = 0 /\ proofs'[q] = <<>>
  BY <1>1 DEF EscrowMoved, CreditMoved, WallOK
<1>2. ASSUME NEW q \in Pids, posts'[q].state # "none"
      PROVE  posts'[q].author \in joined' /\ posts'[q].bytes \in Pos
  BY <1>2 DEF WallOK
<1>3. escrow' \in [Pids -> Sound] /\ credit' \in [Pids -> Nat] /\ proofs' \in [Pids -> Seq(Proof)]
  BY DEF EscrowMoved, CreditMoved, WallOK
<1> QED BY <1>1, <1>2, <1>3 DEF WallOK

(* A settled post is left with nothing, and what is left of it was none of *)
(* the other posts'.                                                       *)
LEMMA OpenActKeepsSheet ==
  ASSUME PotIsTheEscrows, NEW p \in Pids, NEW e, NEW n, EscrowMoved(p, e), CreditMoved(p, n),
         \A q \in Pids : q # p => posts'[q] = posts[q],
         posts'[p].state = "settled" => Held(e) + n = 0,
         pot' = Escrowed', bonds' = BondsPaid'
  PROVE  PotIsTheEscrows'
<1>1. ASSUME NEW q \in Pids, posts'[q].state = "settled"
      PROVE  Held(escrow'[q]) + credit'[q] = 0
  BY <1>1 DEF EscrowMoved, CreditMoved, PotIsTheEscrows
<1> QED BY <1>1 DEF PotIsTheEscrows, Held

LEMMA ExtendKeepsMoney ==
  ASSUME MoneyInv, PostInv, NEW a \in Addr, NEW t \in Stamps, NEW p \in Pids,
         NEW d \in Inputs.days, Extend(a, t, p, d)
  PROVE  MoneyInv' /\ UNCHANGED pool
<1> DEFINE rent  == Rent(posts[p].bytes, d)
           units == CapUnitsFor(posts[p].bytes, d)
           ptp   == accounts[a].ptp - rent
           cap   == accounts[a].cap - units
           row   == [accounts[a] EXCEPT !.ptp = ptp, !.cap = cap]
           sold  == escrow[p].capUnits + units
           hold  == escrow[p].holding + rent
           e     == [escrow[p] EXCEPT !.capUnits = sold, !.holding = hold]
<1>1. RowsOK /\ PoolOK /\ SupplyOK /\ BurnsOK /\ NodesOK /\ WallOK /\ RatesOK
  BY DEF MoneyInv
<1>2. /\ a \in joined /\ accounts[a].ptp >= rent /\ accounts[a].cap >= units
      /\ posts[p].state = "live"
      /\ accounts' = [accounts EXCEPT ![a].ptp = @ - rent, ![a].cap = @ - units]
      /\ posts' = [posts EXCEPT ![p].expires = @ + d * Params.lifetime]
      /\ escrow' = [escrow EXCEPT ![p].capUnits = @ + units, ![p].holding = @ + rent]
      /\ pot' = pot + rent
      /\ LandsQuietly(t)
  BY DEF Extend, Envelope, Affords, Open
<1>3. UNCHANGED <<joined, burns, pool, supply, treasury, bonds, providers, credit, proofs, history>>
  BY DEF Extend, epochVars
<1>4. /\ posts'[p].state = "live" /\ posts'[p].author = posts[p].author
      /\ posts'[p].bytes = posts[p].bytes
      /\ \A q \in Pids : q # p => posts'[q] = posts[q]
  BY <1>2 DEF PostInv, PostsTypeOK
<1>5. posts[p].bytes \in Pos /\ d \in Pos /\ epoch.rate \in Rate
  BY <1>1, <1>2, InputsAssumption DEF RatesOK, WallOK
<1>6. rent \in Nat /\ units \in Pos
  BY <1>5, RentNat, PriceNat DEF Rent
<1> HIDE DEF rent, units
<1>7. accounts[a] \in Row /\ ptp \in Nat /\ cap \in Nat
  BY <1>1, <1>2, <1>6, RowsAddUp DEF Row, Pos
<1>8. accounts' = [accounts EXCEPT ![a] = row] /\ ptp = accounts[a].ptp - rent
  BY <1>1, <1>2 DEF RowsOK, Row
<1> HIDE DEF ptp, cap
<1>9. row \in Row /\ row.ptp = ptp /\ row.sat = accounts[a].sat
  BY <1>7 DEF Row
<1> HIDE DEF row
<1>10. RowMoved(a, row)
  BY <1>1, <1>2, <1>3, <1>8, <1>9, RowMoves
<1>11. /\ escrow[p] \in EscrowRow /\ escrow[p] \in Sound
       /\ sold \in Nat /\ hold \in Nat /\ escrow[p].claimed < sold
       /\ hold = escrow[p].holding + rent
  BY <1>1, <1>6, WallAddsUp DEF Sound, EscrowRow, Pos
<1>12. escrow' = [escrow EXCEPT ![p] = e]
  BY <1>1, <1>2 DEF WallOK, Sound, EscrowRow
<1> HIDE DEF sold, hold
<1>13. e \in Sound /\ Held(e) = Held(escrow[p]) + rent
  <2>1. e \in EscrowRow /\ e.holding = hold /\ e.serving = escrow[p].serving
        /\ e.claimed = escrow[p].claimed /\ e.capUnits = sold
    BY <1>11 DEF EscrowRow
  <2>2. escrow[p].serving \in Nat /\ escrow[p].claimed \in Nat /\ escrow[p].holding \in Nat
    BY <1>11 DEF EscrowRow
  <2> HIDE DEF e
  <2> QED BY <1>6, <1>11, <2>1, <2>2 DEF Sound, Held
<1> HIDE DEF e
<1>14. EscrowMoved(p, e)
  BY <1>1, <1>12, <1>13, EscrowMoves
<1>15. CreditMoved(p, credit[p]) /\ credit[p] \in Nat
  <2>1. credit[p] \in Nat /\ credit' \in [Pids -> Nat] /\ CreditOwed \in Nat
    BY <1>1, <1>3, WallAddsUp DEF WallOK
  <2>2. CreditOwed' = CreditOwed
    BY <1>3 DEF CreditOwed
  <2> QED BY <1>3, <2>1, <2>2 DEF CreditMoved
<1>16. WallOK'
  BY <1>1, <1>2, <1>3, <1>4, <1>13, <1>14, <1>15, OpenActKeepsWall
<1>17. BurnsOK' /\ SatBurned' = SatBurned /\ NodesOK' /\ BondsPaid' = BondsPaid
  BY <1>1, <1>3, BurnsStay, NodesStay
<1>18. RatesOK'
  BY <1>1, <1>2, <1>3, QuietRates
<1>19. /\ PtpHeld' = PtpHeld - rent /\ SatHeld' = SatHeld /\ Escrowed' = Escrowed + rent
       /\ CreditOwed' = CreditOwed
  <2>1. accounts[a].ptp \in Nat /\ accounts[a].sat \in Nat /\ Held(escrow[p]) \in Nat
    BY <1>1, <1>7, WallAddsUp DEF Row
  <2>2. CreditOwed' = CreditOwed
    BY <1>3 DEF CreditOwed
  <2> QED BY <1>6, <1>8, <1>9, <1>10, <1>13, <1>14, <2>1, <2>2, MoneyNums DEF RowMoved, EscrowMoved
<1>20. PtpConserved'
  <2>1. supply.emitted - supply.burned
          = PtpHeld + pool.ptp + treasury + pot + bonds + CreditOwed
    BY DEF MoneyInv, Books, PtpConserved
  <2>2. supply.emitted - supply.burned
          = PtpHeld' + pool.ptp + treasury + pot' + bonds + CreditOwed'
    BY <1>2, <1>6, <1>19, <2>1, MoneyNums
  <2> QED BY <1>3, <2>2 DEF PtpConserved
<1>21. PotIsTheEscrows'
  <2>1. PotIsTheEscrows /\ pot = Escrowed /\ bonds = BondsPaid
    BY DEF MoneyInv, Books, PotIsTheEscrows
  <2>2. pot' = Escrowed' /\ bonds' = BondsPaid'
    BY <1>2, <1>3, <1>17, <1>19, <2>1
  <2> QED BY <1>4, <1>14, <1>15, <2>1, <2>2, OpenActKeepsSheet
<1>22. SatConserved'
  BY <1>3, <1>17, <1>19 DEF MoneyInv, Books, SatConserved
<1> QED BY <1>1, <1>3, <1>10, <1>16, <1>17, <1>18, <1>20, <1>21, <1>22
        DEF MoneyInv, Books, RowMoved, PoolOK, SupplyOK

(* Settlement pays the author whole or sweeps the credit whole, and burns  *)
(* what the holders left.                                                  *)
LEMMA SettleKeepsMoney ==
  ASSUME MoneyInv, PostInv, NEW a \in Addr, NEW t \in Stamps, NEW p \in Pids, Settle(a, t, p)
  PROVE  MoneyInv' /\ UNCHANGED pool
<1> DEFINE floor == PriceOf(Params.minSettlement, epoch.rate)
           paid  == IF credit[p] >= floor THEN credit[p] ELSE 0
           left  == Surplus(p)
           burnt == credit[p] - paid + left
           who   == posts[p].author
           ptp   == accounts[who].ptp + paid
           row   == [accounts[who] EXCEPT !.ptp = ptp]
           e     == [escrow[p] EXCEPT !.holding = 0, !.serving = 0]
           zero  == 0
<1>1. RowsOK /\ PoolOK /\ SupplyOK /\ BurnsOK /\ NodesOK /\ WallOK /\ RatesOK
  BY DEF MoneyInv
<1>2. /\ posts[p].state = "live"
      /\ accounts' = [accounts EXCEPT ![who].ptp = @ + paid]
      /\ supply' = [supply EXCEPT !.burned = @ + burnt]
      /\ epoch' = Burned(Started(epoch, t), burnt)
      /\ pot' = pot - left
      /\ credit' = [credit EXCEPT ![p] = zero]
      /\ escrow' = [escrow EXCEPT ![p].holding = 0, ![p].serving = 0]
      /\ posts' = [posts EXCEPT ![p].state = "settled"]
  BY DEF Settle, Open
<1>3. UNCHANGED <<joined, burns, pool, treasury, bonds, providers, proofs, history>>
  BY DEF Settle, epochVars
<1>4. /\ posts'[p].state = "settled" /\ posts'[p].author = posts[p].author
      /\ posts'[p].bytes = posts[p].bytes
      /\ \A q \in Pids : q # p => posts'[q] = posts[q]
  BY <1>2 DEF PostInv, PostsTypeOK
<1>5. /\ who \in joined /\ who \in Addr /\ accounts[who] \in Row
      /\ escrow[p] \in EscrowRow /\ credit[p] \in Nat /\ Held(escrow[p]) \in Nat
      /\ left = Held(escrow[p]) /\ left <= Escrowed
  BY <1>1, <1>2, WallAddsUp, RowsAddUp DEF WallOK, RowsOK, Surplus
<1>6. paid \in Nat /\ burnt \in Nat /\ credit[p] - paid \in Nat
  BY <1>5
<1>7. burnt = credit[p] - paid + left
  OBVIOUS
<1> HIDE DEF paid, left, burnt, who
<1>8. ptp \in Nat /\ ptp = accounts[who].ptp + paid /\ accounts' = [accounts EXCEPT ![who] = row]
  BY <1>1, <1>2, <1>5, <1>6 DEF RowsOK, Row
<1> HIDE DEF ptp
<1>9. row \in Row /\ row.ptp = ptp /\ row.sat = accounts[who].sat
  BY <1>5, <1>8 DEF Row
<1> HIDE DEF row
<1>10. RowMoved(who, row)
  BY <1>1, <1>3, <1>5, <1>8, <1>9, RowMoves
<1>11. escrow' = [escrow EXCEPT ![p] = e]
  BY <1>1, <1>2 DEF WallOK, Sound, EscrowRow
<1>12. e \in Sound /\ Held(e) = 0
  <2>1. escrow[p] \in Sound
    BY <1>1, WallAddsUp
  <2>2. /\ e \in EscrowRow /\ e.holding = 0 /\ e.serving = 0
        /\ e.claimed = escrow[p].claimed /\ e.capUnits = escrow[p].capUnits
    BY <1>5 DEF EscrowRow
  <2>3. escrow[p].claimed <= escrow[p].capUnits
    BY <2>1 DEF Sound
  <2> HIDE DEF e
  <2> QED BY <2>2, <2>3 DEF Sound, Held
<1> HIDE DEF e
<1>13. EscrowMoved(p, e)
  BY <1>1, <1>11, <1>12, EscrowMoves
<1>14. CreditMoved(p, zero) /\ zero \in Nat /\ zero = 0
  BY <1>1, <1>2, CreditMoves
<1> HIDE DEF zero
<1>15. WallOK'
  BY <1>1, <1>2, <1>3, <1>4, <1>12, <1>13, <1>14, OpenActKeepsWall
<1>16. BurnsOK' /\ SatBurned' = SatBurned /\ NodesOK' /\ BondsPaid' = BondsPaid
  BY <1>1, <1>3, BurnsStay, NodesStay
<1>17. RatesOK'
  BY <1>1, <1>2, <1>3, <1>6, BurningRates
<1>18. SupplyOK' /\ supply'.burned = supply.burned + burnt /\ supply'.emitted = supply.emitted
  <2> DEFINE b == supply.burned + burnt
  <2>1. b \in Nat /\ supply' = [supply EXCEPT !.burned = b]
    BY <1>1, <1>2, <1>6 DEF SupplyOK
  <2> HIDE DEF b
  <2>2. SupplyOK' /\ supply'.burned = b /\ supply'.emitted = supply.emitted
    BY <1>1, <1>3, <2>1 DEF SupplyOK
  <2> QED BY <2>2 DEF b
<1>19. /\ PtpHeld' = PtpHeld + paid /\ SatHeld' = SatHeld /\ Escrowed' = Escrowed - left
       /\ CreditOwed' = CreditOwed - credit[p]
  <2>1. accounts[who].ptp \in Nat /\ accounts[who].sat \in Nat
    BY <1>5 DEF Row
  <2> QED BY <1>5, <1>6, <1>8, <1>9, <1>10, <1>12, <1>13, <1>14, <2>1, MoneyNums
          DEF RowMoved, EscrowMoved, CreditMoved
<1>20. PtpConserved'
  <2>1. supply.emitted - supply.burned
          = PtpHeld + pool.ptp + treasury + pot + bonds + CreditOwed
    BY DEF MoneyInv, Books, PtpConserved
  <2>2. pot' = pot - left /\ left \in Nat
    BY <1>2, <1>5
  <2>3. supply'.emitted - supply'.burned
          = PtpHeld' + pool.ptp + treasury + pot' + bonds + CreditOwed'
    <3> DEFINE owed == credit[p]
    <3>1. /\ owed \in Nat /\ left \in Nat /\ paid \in Nat /\ burnt = owed - paid + left
          /\ supply'.burned = supply.burned + burnt /\ supply'.emitted = supply.emitted
          /\ PtpHeld' = PtpHeld + paid /\ CreditOwed' = CreditOwed - owed
      BY <1>5, <1>6, <1>7, <1>18, <1>19
    <3> HIDE DEF owed
    <3> QED BY <2>1, <2>2, <3>1, MoneyNums
  <2> QED BY <1>3, <2>3 DEF PtpConserved
<1>21. PotIsTheEscrows'
  <2>1. PotIsTheEscrows /\ pot = Escrowed /\ bonds = BondsPaid
    BY DEF MoneyInv, Books, PotIsTheEscrows
  <2>2. pot' = Escrowed' /\ bonds' = BondsPaid' /\ Held(e) + zero = 0
    BY <1>2, <1>3, <1>12, <1>14, <1>16, <1>19, <2>1
  <2> QED BY <1>4, <1>13, <1>14, <2>1, <2>2, OpenActKeepsSheet
<1>22. SatConserved'
  BY <1>3, <1>16, <1>19 DEF MoneyInv, Books, SatConserved
<1> QED BY <1>1, <1>3, <1>10, <1>15, <1>16, <1>17, <1>18, <1>20, <1>21, <1>22
        DEF MoneyInv, Books, RowMoved, PoolOK
-----------------------------------------------------------------------------
(* What an engagement burns: the legs of its fee are the whole fee.        *)
LEMMA EngagementSplits ==
  ASSUME WallOK, RatesOK, PostInv, NEW p \in Pids, NEW kind \in Engagement
  PROVE  LET fee  == EngagementFee(p, kind)
             legs == SplitFee(fee, Params.fee)
         IN  /\ fee \in Nat
             /\ legs.creator \in Nat /\ legs.capacity \in Nat /\ legs.treasury \in Nat
             /\ legs.burn \in Nat
             /\ fee = legs.creator + legs.capacity + legs.treasury + legs.burn
<1>1. posts[p].price \in Nat
  BY DEF PostInv, PostsTypeOK
<1>2. EngagementFee(p, kind) \in Nat
  BY <1>1, ActionPriceNat, PriceNat DEF EngagementFee, RatesOK
<1> QED BY <1>2, FeeSplits

(* An engagement pays the author's credit, the post's escrow and the       *)
(* treasury, and burns the rest.                                           *)
LEMMA EngagementKeepsMoney ==
  ASSUME MoneyInv, PostInv, NEW a \in Addr, NEW t \in Stamps, NEW p \in Pids,
         NEW kind \in Engagement, NEW s \in Int,
         EngagementPlan(kind, a, t, p), CommitEngagement(kind, a, t, p, s)
  PROVE  MoneyInv' /\ UNCHANGED pool
<1> DEFINE fee  == EngagementFee(p, kind)
           legs == SplitFee(fee, Params.fee)
           ptp  == accounts[a].ptp - fee
           row  == [accounts[a] EXCEPT !.ptp = ptp, !.viewSeq = s]
           paid == credit[p] + legs.creator
           serv == escrow[p].serving + legs.capacity
           e    == [escrow[p] EXCEPT !.serving = serv]
<1>1. RowsOK /\ PoolOK /\ SupplyOK /\ BurnsOK /\ NodesOK /\ WallOK /\ RatesOK
  BY DEF MoneyInv
<1>2. /\ a \in joined /\ posts[p].state = "live" /\ accounts[a].ptp >= fee
      /\ accounts' = [accounts EXCEPT ![a].ptp = @ - fee, ![a].viewSeq = s]
      /\ credit' = [credit EXCEPT ![p] = @ + legs.creator]
      /\ escrow' = [escrow EXCEPT ![p].serving = @ + legs.capacity]
      /\ pot' = pot + legs.capacity
      /\ treasury' = treasury + legs.treasury
      /\ supply' = [supply EXCEPT !.burned = @ + legs.burn]
      /\ epoch' = Burned(Started(epoch, t), legs.burn)
  BY DEF EngagementPlan, CommitEngagement, Envelope, Live, Open
<1>3. UNCHANGED <<joined, burns, pool, bonds, providers, posts, proofs, history>>
  BY DEF CommitEngagement
<1>4. /\ fee \in Nat /\ legs.creator \in Nat /\ legs.capacity \in Nat /\ legs.treasury \in Nat
      /\ legs.burn \in Nat
      /\ fee = legs.creator + legs.capacity + legs.treasury + legs.burn
  BY <1>1, EngagementSplits
<1> HIDE DEF fee, legs
<1>5. accounts[a] \in Row /\ ptp \in Nat /\ ptp = accounts[a].ptp - fee
      /\ accounts' = [accounts EXCEPT ![a] = row]
  <2>1. a \in Addr /\ accounts[a] \in Row /\ accounts[a].ptp \in Nat
    BY <1>1, <1>2, RowsAddUp DEF RowsOK, Row
  <2>2. accounts' = [accounts EXCEPT ![a] = row]
    BY <1>2, <2>1
  <2>3. accounts[a].ptp >= fee
    BY <1>2
  <2> QED BY <1>4, <2>1, <2>2, <2>3
<1> HIDE DEF ptp
<1>6. row \in Row /\ row.ptp = ptp /\ row.sat = accounts[a].sat
  BY <1>5 DEF Row
<1> HIDE DEF row
<1>7. RowMoved(a, row)
  BY <1>1, <1>2, <1>3, <1>5, <1>6, RowMoves
<1>8. /\ escrow[p] \in EscrowRow /\ escrow[p].claimed <= escrow[p].capUnits
      /\ (escrow[p].claimed = escrow[p].capUnits => escrow[p].holding = 0)
      /\ credit[p] \in Nat /\ paid \in Nat
      /\ serv \in Nat /\ serv = escrow[p].serving + legs.capacity
      /\ paid = credit[p] + legs.creator
      /\ escrow' = [escrow EXCEPT ![p] = e] /\ credit' = [credit EXCEPT ![p] = paid]
  <2>1. escrow[p] \in EscrowRow /\ escrow[p] \in Sound /\ credit[p] \in Nat
        /\ DOMAIN escrow = Pids /\ DOMAIN credit = Pids
    BY <1>1, WallAddsUp DEF WallOK
  <2>2. escrow' = [escrow EXCEPT ![p] = e] /\ credit' = [credit EXCEPT ![p] = paid]
    BY <1>2, <2>1
  <2>3. serv \in Nat /\ paid \in Nat
    BY <1>4, <2>1 DEF EscrowRow
  <2>4. escrow[p].claimed <= escrow[p].capUnits
        /\ (escrow[p].claimed = escrow[p].capUnits => escrow[p].holding = 0)
    BY <2>1 DEF Sound
  <2> QED BY <2>1, <2>2, <2>3, <2>4
<1> HIDE DEF serv, paid
<1>9. /\ e \in EscrowRow /\ e.holding = escrow[p].holding /\ e.serving = serv
      /\ e.claimed = escrow[p].claimed /\ e.capUnits = escrow[p].capUnits
  BY <1>8 DEF EscrowRow
<1> HIDE DEF e
<1>10. e \in Sound /\ Held(e) = Held(escrow[p]) + legs.capacity
  <2>1. escrow[p].holding \in Nat /\ escrow[p].serving \in Nat
    BY <1>8 DEF EscrowRow
  <2> QED BY <1>4, <1>8, <1>9, <2>1 DEF Sound, Held
<1>11. EscrowMoved(p, e) /\ CreditMoved(p, paid)
  BY <1>1, <1>8, <1>10, EscrowMoves, CreditMoves
<1>12. WallOK'
  BY <1>1, <1>2, <1>3, <1>8, <1>10, <1>11, OpenActKeepsWall
<1>13. BurnsOK' /\ SatBurned' = SatBurned /\ NodesOK' /\ BondsPaid' = BondsPaid
  BY <1>1, <1>3, BurnsStay, NodesStay
<1>14. RatesOK'
  BY <1>1, <1>2, <1>3, <1>4, BurningRates
<1>15. SupplyOK' /\ supply'.burned = supply.burned + legs.burn /\ supply'.emitted = supply.emitted
  <2> DEFINE b == supply.burned + legs.burn
  <2>1. b \in Nat /\ supply' = [supply EXCEPT !.burned = b] /\ treasury' \in Nat
    BY <1>1, <1>2, <1>4 DEF SupplyOK
  <2> HIDE DEF b
  <2>2. SupplyOK' /\ supply'.burned = b /\ supply'.emitted = supply.emitted
    BY <1>1, <2>1 DEF SupplyOK
  <2> QED BY <2>2 DEF b
<1>16. /\ PtpHeld' = PtpHeld - fee /\ SatHeld' = SatHeld /\ Escrowed' = Escrowed + legs.capacity
       /\ CreditOwed' = CreditOwed + legs.creator
  <2>1. accounts[a].ptp \in Nat /\ accounts[a].sat \in Nat /\ Held(escrow[p]) \in Nat
    BY <1>1, <1>5, WallAddsUp DEF Row
  <2> QED BY <1>4, <1>5, <1>6, <1>7, <1>8, <1>10, <1>11, <2>1, MoneyNums
          DEF RowMoved, EscrowMoved, CreditMoved
<1>17. PtpConserved'
  <2>1. supply.emitted - supply.burned
          = PtpHeld + pool.ptp + treasury + pot + bonds + CreditOwed
    BY DEF MoneyInv, Books, PtpConserved
  <2>2. pot' = pot + legs.capacity /\ treasury' = treasury + legs.treasury
    BY <1>2
  <2>3. supply'.emitted - supply'.burned
          = PtpHeld' + pool.ptp + treasury' + pot' + bonds + CreditOwed'
    <3> DEFINE c == legs.creator
               k == legs.capacity
               l == legs.treasury
               b == legs.burn
    <3>1. /\ c \in Nat /\ k \in Nat /\ l \in Nat /\ b \in Nat /\ fee = c + k + l + b
          /\ supply'.burned = supply.burned + b /\ supply'.emitted = supply.emitted
          /\ PtpHeld' = PtpHeld - fee /\ CreditOwed' = CreditOwed + c
          /\ pot' = pot + k /\ treasury' = treasury + l
      BY <1>4, <1>15, <1>16, <2>2
    <3> HIDE DEF c, k, l, b
    <3> QED BY <2>1, <3>1, MoneyNums
  <2> QED BY <1>3, <2>3 DEF PtpConserved
<1>18. PotIsTheEscrows'
  <2>1. PotIsTheEscrows /\ pot = Escrowed /\ bonds = BondsPaid
    BY DEF MoneyInv, Books, PotIsTheEscrows
  <2>2. pot' = Escrowed' /\ bonds' = BondsPaid' /\ posts'[p].state # "settled"
    BY <1>2, <1>3, <1>13, <1>16, <2>1
  <2> QED BY <1>3, <1>11, <2>1, <2>2, OpenActKeepsSheet
<1>19. SatConserved'
  BY <1>3, <1>13, <1>16 DEF MoneyInv, Books, SatConserved
<1> QED BY <1>1, <1>3, <1>7, <1>12, <1>13, <1>14, <1>15, <1>17, <1>18, <1>19
        DEF MoneyInv, Books, RowMoved, PoolOK

(* Which engagement it was, and with which view number.                    *)
LEMMA EngagementKinds ==
  ASSUME RowsOK, NEW a \in Addr, NEW t \in Stamps, EngagementNext(a, t)
  PROVE  \E p \in Pids, kind \in Engagement, s \in Int :
           EngagementPlan(kind, a, t, p) /\ CommitEngagement(kind, a, t, p, s)
<1>1. accounts[a].viewSeq \in Int /\ \A s \in Inputs.seqs : s \in Int
  BY InputsAssumption DEF RowsOK, Row
<1>2. ASSUME NEW p \in Pids, NEW s \in Inputs.seqs, View(a, t, p, s)
      PROVE  EngagementPlan("view", a, t, p) /\ CommitEngagement("view", a, t, p, s)
  BY <1>2 DEF View
<1>3. ASSUME NEW p \in Pids, Like(a, t, p)
      PROVE  EngagementPlan("like", a, t, p)
             /\ CommitEngagement("like", a, t, p, accounts[a].viewSeq)
  BY <1>3 DEF Like
<1>4. ASSUME NEW p \in Pids, Comment(a, t, p)
      PROVE  EngagementPlan("comment", a, t, p)
             /\ CommitEngagement("comment", a, t, p, accounts[a].viewSeq)
  BY <1>4 DEF Comment
<1>5. "view" \in Engagement /\ "like" \in Engagement /\ "comment" \in Engagement
  BY DEF Engagement
<1> QED BY <1>1, <1>2, <1>3, <1>4, <1>5 DEF EngagementNext
-----------------------------------------------------------------------------
(* Capacity bought is PTP destroyed.                                       *)
LEMMA CapBuyKeepsMoney ==
  ASSUME MoneyInv, NEW a \in Addr, NEW t \in Stamps, NEW amt \in Inputs.amounts, CapBuy(a, t, amt)
  PROVE  MoneyInv' /\ UNCHANGED pool
<1> DEFINE units == CapUnitsForWei(amt, epoch.rate)
           ptp == accounts[a].ptp - amt
           cap == accounts[a].cap + units
           row == [accounts[a] EXCEPT !.ptp = ptp, !.cap = cap]
           b   == supply.burned + amt
<1>1. RowsOK /\ PoolOK /\ SupplyOK /\ BurnsOK /\ NodesOK /\ WallOK /\ RatesOK
  BY DEF MoneyInv
<1>2. /\ a \in joined /\ accounts[a].ptp >= amt
      /\ accounts' = [accounts EXCEPT ![a].ptp = @ - amt, ![a].cap = @ + units]
      /\ supply' = [supply EXCEPT !.burned = @ + amt]
      /\ LandsQuietly(t)
  BY DEF CapBuy, Envelope
<1>3. UNCHANGED <<joined, burns, pool, treasury, pot, bonds, providers, posts, escrow, credit,
                  proofs, history>>
  BY DEF CapBuy, postVars, epochVars
<1>4. amt \in Nat
  BY InputsAssumption DEF Pos
<1>5. units \in Nat
  BY <1>1, <1>4, CapUnitsNat DEF RatesOK
<1> HIDE DEF units
<1>6. accounts[a] \in Row /\ ptp \in Nat /\ cap \in Nat /\ ptp = accounts[a].ptp - amt
      /\ accounts' = [accounts EXCEPT ![a] = row]
  <2>1. a \in Addr /\ accounts[a] \in Row /\ accounts[a].ptp \in Nat /\ accounts[a].cap \in Nat
    BY <1>1, <1>2, RowsAddUp DEF RowsOK, Row
  <2>2. accounts' = [accounts EXCEPT ![a] = row]
    BY <1>2, <2>1
  <2>3. accounts[a].ptp >= amt
    BY <1>2
  <2> QED BY <1>4, <1>5, <2>1, <2>2, <2>3
<1> HIDE DEF ptp, cap
<1>7. row \in Row /\ row.ptp = ptp /\ row.sat = accounts[a].sat
  BY <1>6 DEF Row
<1> HIDE DEF row
<1>8. RowMoved(a, row)
  BY <1>1, <1>2, <1>3, <1>6, <1>7, RowMoves
<1>9. Idle
  BY <1>3, IdleParts
<1>10. SupplyOK' /\ supply'.burned = supply.burned + amt /\ supply'.emitted = supply.emitted
  <2>1. b \in Nat /\ supply' = [supply EXCEPT !.burned = b]
    BY <1>1, <1>2, <1>4 DEF SupplyOK
  <2> HIDE DEF b
  <2>2. SupplyOK' /\ supply'.burned = b /\ supply'.emitted = supply.emitted
    BY <1>1, <1>3, <2>1 DEF SupplyOK
  <2> QED BY <2>2 DEF b
<1>11. RatesOK'
  BY <1>1, <1>2, <1>3, QuietRates
<1>12. PtpHeld' = PtpHeld - amt /\ SatHeld' = SatHeld
  <2>1. accounts[a].ptp \in Nat /\ accounts[a].sat \in Nat
    BY <1>6 DEF Row
  <2> QED BY <1>4, <1>6, <1>7, <1>8, <2>1, MoneyNums DEF RowMoved
<1>13. PtpConserved'
  <2>1. supply.emitted - supply.burned
          = PtpHeld + pool.ptp + treasury + pot + bonds + CreditOwed
    BY DEF MoneyInv, Books, PtpConserved
  <2>2. supply'.emitted - supply'.burned
          = PtpHeld' + pool.ptp + treasury + pot + bonds + CreditOwed
    <3> DEFINE x == amt
    <3>1. /\ supply'.burned = supply.burned + x /\ supply'.emitted = supply.emitted
          /\ PtpHeld' = PtpHeld - x /\ x \in Nat
      BY <1>4, <1>10, <1>12
    <3>2. supply.emitted \in Nat /\ supply.burned \in Nat /\ PtpHeld \in Nat
          /\ pool.ptp + treasury + pot + bonds + CreditOwed \in Nat
      BY MoneyNums
    <3> DEFINE rest == pool.ptp + treasury + pot + bonds + CreditOwed
    <3>3. supply.emitted - supply.burned = PtpHeld + rest
      BY <2>1, MoneyNums
    <3> HIDE DEF x, rest, b
    <3>4. supply'.emitted - supply'.burned = PtpHeld' + rest
      BY <3>1, <3>2, <3>3 DEF rest
    <3> QED BY <3>1, <3>4, MoneyNums DEF rest
  <2> QED BY <1>3, <1>9, <2>2 DEF PtpConserved, Idle
<1>14. SatConserved'
  BY <1>3, <1>9, <1>12 DEF MoneyInv, Books, SatConserved, Idle
<1> QED BY <1>1, <1>3, <1>8, <1>9, <1>10, <1>11, <1>13, <1>14
        DEF MoneyInv, Books, RowMoved, PoolOK, Idle

(* A pledge moves its bond from the row to the bonds.                      *)
LEMMA CapPledgeKeepsMoney ==
  ASSUME MoneyInv, NEW a \in Addr, NEW t \in Stamps, NEW mb \in Inputs.mbs, CapPledge(a, t, mb)
  PROVE  MoneyInv' /\ UNCHANGED pool
<1> DEFINE due  == BondDue(a, mb)
           bond == PriceOf(due, epoch.rate)
           ptp  == accounts[a].ptp - bond
           row  == [accounts[a] EXCEPT !.ptp = ptp]
           paid == providers[a].bondPtp + bond
           nano == providers[a].bondNano + due
           node == [providers[a] EXCEPT !.mb = mb, !.bondPtp = paid, !.bondNano = nano]
<1>1. RowsOK /\ PoolOK /\ SupplyOK /\ BurnsOK /\ NodesOK /\ WallOK /\ RatesOK
  BY DEF MoneyInv
<1>2. /\ a \in joined /\ accounts[a].ptp >= bond
      /\ accounts' = [accounts EXCEPT ![a].ptp = @ - bond]
      /\ bonds' = bonds + bond
      /\ providers' = [providers EXCEPT ![a].mb = mb, ![a].bondPtp = @ + bond,
                                        ![a].bondNano = @ + due]
      /\ LandsQuietly(t)
  BY DEF CapPledge, Envelope
<1>3. UNCHANGED <<joined, burns, pool, supply, treasury, pot, posts, escrow, credit, proofs, history>>
  BY DEF CapPledge, postVars, epochVars
<1>4. mb \in Nat /\ providers[a] \in Provider
  BY <1>1, InputsAssumption, BondsAddUp DEF Pos
<1>5. due \in Nat
  <2>1. mb * Params.bondPerGb \in Nat /\ Params.mbPerGb \in Pos
    BY <1>4, ParamsNat, ProductNat DEF Pos
  <2>2. RequiredNano(mb) \in Nat
    BY <2>1, CeilDivNat, ParamsNat DEF RequiredNano, Pos
  <2> QED BY <1>4, <2>2 DEF BondDue, Provider
<1>6. bond \in Nat
  BY <1>1, <1>5, PriceNat DEF RatesOK
<1> HIDE DEF due, bond
<1>7. accounts[a] \in Row /\ ptp \in Nat /\ ptp = accounts[a].ptp - bond
      /\ accounts' = [accounts EXCEPT ![a] = row]
  BY <1>1, <1>2, <1>6, RowsAddUp DEF RowsOK, Row
<1> HIDE DEF ptp
<1>8. row \in Row /\ row.ptp = ptp /\ row.sat = accounts[a].sat
  BY <1>7 DEF Row
<1> HIDE DEF row
<1>9. RowMoved(a, row)
  BY <1>1, <1>2, <1>3, <1>7, <1>8, RowMoves
<1>10. paid \in Nat /\ nano \in Nat /\ paid = providers[a].bondPtp + bond
       /\ providers' = [providers EXCEPT ![a] = node]
  <2>1. providers[a].bondPtp \in Nat /\ providers[a].bondNano \in Nat /\ DOMAIN providers = Addr
    BY <1>1, <1>4 DEF NodesOK, Provider
  <2>2. providers' = [providers EXCEPT ![a] = node]
    BY <1>2, <2>1
  <2> QED BY <1>5, <1>6, <2>1, <2>2
<1> HIDE DEF paid, nano
<1>11. node \in Provider /\ node.bondPtp = paid
  BY <1>4, <1>10 DEF Provider
<1> HIDE DEF node
<1>12. ProviderMoved(a, node)
  BY <1>1, <1>10, <1>11, ProviderMoves
<1>13. /\ PtpHeld' = PtpHeld - bond /\ SatHeld' = SatHeld /\ BondsPaid' = BondsPaid + bond
  <2>1. accounts[a].ptp \in Nat /\ accounts[a].sat \in Nat /\ providers[a].bondPtp \in Nat
    BY <1>4, <1>7 DEF Row, Provider
  <2> QED BY <1>6, <1>7, <1>8, <1>9, <1>10, <1>11, <1>12, <2>1, MoneyNums, SMTT(60) DEF RowMoved, ProviderMoved
<1>14. WallOK' /\ Escrowed' = Escrowed /\ CreditOwed' = CreditOwed
       /\ BurnsOK' /\ SatBurned' = SatBurned
  BY <1>1, <1>3, WallStays, BurnsStay
<1>15. RatesOK'
  BY <1>1, <1>2, <1>3, QuietRates
<1>16. PtpConserved'
  <2>1. supply.emitted - supply.burned
          = PtpHeld + pool.ptp + treasury + pot + bonds + CreditOwed
    BY DEF MoneyInv, Books, PtpConserved
  <2>2. supply.emitted - supply.burned
          = PtpHeld' + pool.ptp + treasury + pot + bonds' + CreditOwed
    BY <1>2, <1>6, <1>13, <2>1, MoneyNums
  <2> QED BY <1>3, <1>14, <2>2 DEF PtpConserved
<1>17. PotIsTheEscrows'
  <2>1. PotIsTheEscrows /\ bonds = BondsPaid
    BY DEF MoneyInv, Books, PotIsTheEscrows
  <2>2. bonds' = BondsPaid'
    BY <1>2, <1>13, <2>1
  <2> QED BY <1>3, <1>14, <2>1, <2>2 DEF PotIsTheEscrows, Held
<1>18. SatConserved'
  BY <1>3, <1>13, <1>14 DEF MoneyInv, Books, SatConserved
<1> QED BY <1>1, <1>3, <1>9, <1>12, <1>14, <1>15, <1>16, <1>17, <1>18
        DEF MoneyInv, Books, RowMoved, ProviderMoved, PoolOK, SupplyOK
-----------------------------------------------------------------------------
(* The claims.  What one draw, or a run of draws, leaves in an escrow: the *)
(* units sold stay, no unit is paid twice, and what is owed per unit not   *)
(* yet claimed has not fallen.                                             *)
Left(e) == e.capUnits - e.claimed

DrawnFrom(e, f) ==
  /\ f \in Sound
  /\ f.capUnits = e.capUnits
  /\ f.claimed >= e.claimed
  /\ Held(f) <= Held(e)
  /\ Held(f) * Left(e) >= Held(e) * Left(f)

LEMMA SoundNums ==
  ASSUME NEW e \in Sound
  PROVE  /\ e \in EscrowRow
         /\ e.holding \in Nat /\ e.serving \in Nat /\ e.capUnits \in Nat /\ e.claimed \in Nat
         /\ Left(e) \in Nat /\ Held(e) \in Nat /\ e.claimed <= e.capUnits
         /\ (Left(e) = 0 => e.holding = 0)
BY DEF Sound, EscrowRow, Left, Held

LEMMA NothingDrawn == ASSUME NEW e \in Sound PROVE DrawnFrom(e, e)
<1>1. Held(e) * Left(e) \in Nat
  BY SoundNums, ProductNat
<1> QED BY <1>1, SoundNums DEF DrawnFrom

LEMMA DrawsChain ==
  ASSUME NEW e \in Sound, NEW f, DrawnFrom(e, f), NEW g, DrawnFrom(f, g)
  PROVE  DrawnFrom(e, g)
<1>1. f \in Sound /\ g \in Sound
  BY DEF DrawnFrom
<1> DEFINE E == Held(e)
           F == Held(f)
           G == Held(g)
           k == Left(e)
           l == Left(f)
           m == Left(g)
<1>2. E \in Nat /\ F \in Nat /\ G \in Nat /\ k \in Nat /\ l \in Nat /\ m \in Nat /\ m <= l
  BY <1>1, SoundNums DEF DrawnFrom, Left
<1>3. F * k >= E * l /\ G * l >= F * m
  BY DEF DrawnFrom
<1> HIDE DEF E, F, G, k, l, m
<1>4. G * k >= E * m
  <2>1. CASE l = 0
    BY <1>2, <2>1, ProductNat
  <2>2. CASE l # 0
    <3>1. (E * m) * l = (E * l) * m /\ (G * k) * l = (G * l) * k /\ (F * k) * m = (F * m) * k
      BY <1>2
    <3>2. E * l \in Nat /\ F * k \in Nat /\ G * l \in Nat /\ F * m \in Nat
          /\ E * m \in Nat /\ G * k \in Nat
      BY <1>2, ProductNat
    <3>3. (E * l) * m <= (F * k) * m
      <4>1. E * l <= F * k
        BY <1>3, <3>2
      <4> QED BY <1>2, <3>2, <4>1, ProductMonotonic
    <3>4. (F * m) * k <= (G * l) * k
      <4>1. F * m <= G * l
        BY <1>3, <3>2
      <4> QED BY <1>2, <3>2, <4>1, ProductMonotonic
    <3>5. (E * m) * l <= (G * k) * l
      <4>1. (E * l) * m \in Nat /\ (F * k) * m \in Nat /\ (G * l) * k \in Nat
        BY <1>2, <3>2, ProductNat
      <4> QED BY <3>1, <3>3, <3>4, <4>1
    <3>6. l \in Nat \ {0}
      BY <1>2, <2>2
    <3>7. E * m <= G * k
      BY <3>2, <3>5, <3>6, CancelFactor
    <3> QED BY <3>2, <3>7
  <2> QED BY <2>1, <2>2
<1>5. Held(g) * Left(e) >= Held(e) * Left(g)
  BY <1>4 DEF E, G, k, m
<1>6. g.capUnits = e.capUnits /\ g.claimed >= e.claimed /\ Held(g) <= Held(e)
  BY <1>1, SoundNums DEF DrawnFrom
<1> QED BY <1>1, <1>5, <1>6 DEF DrawnFrom

LEMMA DrawIsFair ==
  ASSUME NEW e \in Sound, NEW units \in Nat
  PROVE  DrawnFrom(e, Draw(e, units))
<1> DEFINE L         == Left(e)
           H         == Held(e)
           unclaimed == IF e.capUnits > e.claimed THEN e.capUnits - e.claimed ELSE 0
           taken     == IF units > unclaimed THEN unclaimed ELSE units
           share     == IF unclaimed > 0 THEN (Held(e) * taken) \div unclaimed ELSE 0
           part      == IF share > e.holding THEN e.holding ELSE share
           holding   == e.holding - part
           serving   == e.serving - (share - part)
           claimed   == e.claimed + taken
           f         == Draw(e, units)
<1>1. /\ e \in EscrowRow /\ e.holding \in Nat /\ e.serving \in Nat /\ e.capUnits \in Nat
      /\ e.claimed \in Nat /\ L \in Nat /\ H \in Nat /\ (L = 0 => e.holding = 0)
      /\ H = e.holding + e.serving /\ L = e.capUnits - e.claimed
  BY SoundNums DEF Held, Left
<1>2. unclaimed = L
  BY <1>1
<1>3. taken \in Nat /\ taken <= L
  BY <1>1, <1>2
<1>4. share = IF L > 0 THEN (H * taken) \div L ELSE 0
  BY <1>2
<1> HIDE DEF L, H, unclaimed, taken, share
<1>5. /\ share \in Nat /\ share <= H
      /\ H * (L - taken) <= L * (H - share)
      /\ taken = L /\ L > 0 => share = H
  <2>1. CASE L = 0
    BY <1>1, <1>3, <1>4, <2>1
  <2>2. CASE L # 0
    <3>1. L \in Nat \ {0} /\ share = (taken * H) \div L
      BY <1>1, <1>3, <1>4, <2>2
    <3>2. share \in Nat /\ share <= H /\ H * (L - taken) <= L * (H - share)
      BY <1>1, <1>3, <3>1, PartOfWhole
    <3>3. taken = L => share = H
      <4>1. L * H \in Nat /\ (L * H) \div L = H
        BY <1>1, <3>1, ProductNat
      <4> QED BY <3>1, <4>1
    <3> QED BY <3>2, <3>3
  <2> QED BY <2>1, <2>2
<1>6. holding \in Nat /\ serving \in Nat /\ claimed \in Nat /\ holding + serving = H - share
      /\ claimed = e.claimed + taken
      /\ (taken = L => holding = 0)
  <2>1. share \in Nat /\ share <= H /\ taken \in Nat /\ taken <= L
        /\ (taken = L /\ L > 0 => share = H)
    BY <1>3, <1>5
  <2>2. part \in Nat /\ part <= e.holding /\ part <= share /\ share - part <= e.serving
        /\ (share = H => part = e.holding)
    BY <1>1, <2>1
  <2>3. taken = L => part = e.holding
    BY <1>1, <2>1, <2>2
  <2> HIDE DEF part
  <2> QED BY <1>1, <2>1, <2>2, <2>3
<1>7. f = [e EXCEPT !.holding = holding, !.serving = serving, !.claimed = claimed]
  BY DEF Draw, unclaimed, taken, share
<1> HIDE DEF holding, serving, claimed, f
<1>8. f \in EscrowRow /\ f.holding = holding /\ f.serving = serving /\ f.claimed = claimed
      /\ f.capUnits = e.capUnits
  BY <1>1, <1>6, <1>7 DEF EscrowRow
<1>9. Held(f) = H - share /\ Left(f) = L - taken
  BY <1>1, <1>3, <1>6, <1>8 DEF Held, Left
<1>10. f \in Sound
  <2>1. f.claimed <= f.capUnits /\ (f.claimed = f.capUnits => f.holding = 0)
    BY <1>1, <1>3, <1>6, <1>8
  <2> QED BY <1>8, <2>1 DEF Sound
<1>11. Held(f) * Left(e) >= Held(e) * Left(f)
  <2>1. (H - share) * L >= H * (L - taken)
    <3>1. H - share \in Nat /\ L - taken \in Nat
      <4>1. share \in Nat /\ share <= H
        BY <1>5
      <4> QED BY <1>1, <1>3, <4>1
    <3>2. (H - share) * L = L * (H - share) /\ L * (H - share) \in Nat /\ H * (L - taken) \in Nat
      BY <1>1, <3>1, ProductNat
    <3> QED BY <1>5, <3>2
  <2> QED BY <1>9, <2>1 DEF H, L
<1>12. f.claimed >= e.claimed /\ Held(f) <= Held(e)
  BY <1>1, <1>3, <1>5, <1>6, <1>8, <1>9 DEF H
<1> QED BY <1>8, <1>10, <1>11, <1>12 DEF DrawnFrom, f

(* The run of the draws of one node on one post.                           *)
LEMMA DrawnIsFair ==
  ASSUME WallOK, NEW a \in Addr, NEW p \in Pids
  PROVE  DrawnFrom(escrow[p], Drawn(a, p))
<1> DEFINE n == Len(proofs[p])
           base == escrow[p]
           E == {f \in Sound : DrawnFrom(base, f)}
           mine(i) == i \in Unclaimed(a, p)
           units(i) == proofs[p][i].units
           step == [i \in 1 .. n |-> [f \in E |-> IF mine(i) THEN Draw(f, units(i)) ELSE f]]
           Is(g) == g = [i \in 0 .. n |-> IF i = 0 THEN base
                                          ELSE IF mine(i) THEN Draw(g[i - 1], units(i))
                                          ELSE g[i - 1]]
<1>1. base \in Sound /\ proofs[p] \in Seq(Proof) /\ n \in Nat
      /\ \A i \in 1 .. n : proofs[p][i] \in Proof
  BY DEF WallOK
<1>2. \A i \in 1 .. n : units(i) \in Nat
  BY <1>1 DEF Proof
<1> HIDE DEF n, base, mine, units
<1>3. base \in E
  BY <1>1, NothingDrawn
<1>4. ASSUME NEW i \in 1 .. n, NEW f \in E
      PROVE  (IF mine(i) THEN Draw(f, units(i)) ELSE f) \in E
  <2>1. DrawnFrom(base, f) /\ f \in Sound /\ units(i) \in Nat
    BY <1>2
  <2>2. DrawnFrom(f, Draw(f, units(i)))
    BY <2>1, DrawIsFair
  <2>3. DrawnFrom(base, Draw(f, units(i)))
    BY <1>1, <2>1, <2>2, DrawsChain
  <2>4. Draw(f, units(i)) \in E
    BY <2>2, <2>3 DEF DrawnFrom
  <2> QED BY <2>4
<1> HIDE DEF E
<1>5. step \in [1 .. n -> [E -> E]]
  BY <1>4
<1>6. \A i \in 1 .. n, f \in E : step[i][f] = IF mine(i) THEN Draw(f, units(i)) ELSE f
  OBVIOUS
<1> HIDE DEF step
<1>7. PICK g \in [0 .. n -> E] : Run(n, base, step, g)
  BY <1>1, <1>3, <1>5, RunExists
<1>8. \A i \in 0 .. n : g[i] = IF i = 0 THEN base
                              ELSE IF mine(i) THEN Draw(g[i - 1], units(i)) ELSE g[i - 1]
  <2> SUFFICES ASSUME NEW i \in 0 .. n
               PROVE  g[i] = IF i = 0 THEN base
                             ELSE IF mine(i) THEN Draw(g[i - 1], units(i)) ELSE g[i - 1]
    OBVIOUS
  <2>1. g[i] = IF i = 0 THEN base ELSE step[i][g[i - 1]]
    BY <1>7 DEF Run
  <2>2. i # 0 => i \in 1 .. n /\ i - 1 \in 0 .. n
    BY <1>1
  <2>3. i # 0 => step[i][g[i - 1]] = IF mine(i) THEN Draw(g[i - 1], units(i)) ELSE g[i - 1]
    BY <1>6, <1>7, <2>2
  <2> QED BY <2>1, <2>3
<1>9. Is(g)
  BY <1>7, <1>8
<1> DEFINE after == CHOOSE h : Is(h)
<1>10. Drawn(a, p) = after[n]
  BY DEF Drawn, n, base, mine, units
<1>11. Is(after)
  BY <1>9
<1> HIDE DEF after
<1> DEFINE A == {m \in Nat : m <= n => after[m] \in E}
<1>12. 0 \in A
  BY <1>1, <1>3, <1>11
<1>13. ASSUME NEW m \in Nat, m \in A PROVE m + 1 \in A
  <2> SUFFICES ASSUME m + 1 <= n PROVE after[m + 1] \in E
    OBVIOUS
  <2>1. after[m] \in E
    BY <1>1, <1>13
  <2>2. m + 1 \in 0 .. n /\ m + 1 # 0 /\ (m + 1) - 1 = m /\ m + 1 \in 1 .. n
    BY <1>1
  <2>3. after[m + 1] = IF mine(m + 1) THEN Draw(after[m], units(m + 1)) ELSE after[m]
    BY <1>11, <2>2
  <2> QED BY <1>4, <2>1, <2>2, <2>3
<1> HIDE DEF A
<1>14. n \in A
  BY <1>1, <1>12, <1>13, CountUp
<1>15. after[n] \in E
  BY <1>1, <1>14 DEF A
<1> QED BY <1>10, <1>15 DEF E, base
-----------------------------------------------------------------------------
(* The shard a node proves lies within its post, so it counts some units.  *)
LEMMA ProofUnitsNat ==
  ASSUME NEW bytes \in Pos, NEW s \in Nat, s < Shards(bytes)
  PROVE  ProofUnits(bytes, s) \in Nat
<1> DEFINE d == Params.shardBytes
           left == bytes - s * d
           c == Shards(bytes)
           size == IF left < d THEN left ELSE d
<1>1. d \in Nat \ {0} /\ bytes \in Nat \ {0}
  BY ParamsNat DEF Pos
<1>2. c = (bytes + d - 1) \div d
  BY DEF Shards, CeilDiv
<1> HIDE DEF d, c
<1>3. c \in Nat /\ d * c <= bytes + d - 1
  BY <1>1, <1>2, QuotientDown
<1>4. s * d < bytes /\ s * d \in Nat
  <2>1. s + 1 <= c
    BY <1>3 DEF c
  <2>2. (s + 1) * d <= c * d
    BY <1>1, <1>3, <2>1, ProductMonotonic
  <2>3. (s + 1) * d = s * d + d /\ c * d = d * c /\ s * d \in Nat /\ d * c \in Nat
    BY <1>1, <1>3, ProductNat
  <2> QED BY <1>1, <1>3, <2>2, <2>3
<1>5. left \in Nat
  BY <1>1, <1>4
<1> HIDE DEF left
<1>6. size \in Nat
  BY <1>1, <1>5
<1>7. size * Params.capCoin \in Nat /\ Params.bytesPerMb \in Pos
  BY <1>6, ParamsNat, ProductNat DEF Pos
<1>8. ProofUnits(bytes, s) = CeilDiv(size * Params.capCoin, Params.bytesPerMb)
  BY DEF ProofUnits, size, left, d
<1> HIDE DEF size
<1> QED BY <1>7, <1>8, CeilDivNat

(* A proof is one more line in the proofs of its post.                     *)
ProofAdded(a, p, s) ==
  /\ NodesOK' /\ proofs' \in [Pids -> Seq(Proof)]
  /\ \A q \in Pids : q # p => proofs'[q] = proofs[q]
  /\ BondsPaid' = BondsPaid
  /\ ProofUnits(posts[p].bytes, s) \in Nat

LEMMA CapProofAdds ==
  ASSUME MoneyInv, NEW a \in Addr, NEW t \in Stamps, NEW p \in Pids, NEW s \in Inputs.shards,
         CapProof(a, t, p, s)
  PROVE  ProofAdded(a, p, s)
<1> DEFINE units == ProofUnits(posts[p].bytes, s)
           line  == [by |-> a, shard |-> s, epoch |-> epoch.n, units |-> units, claimed |-> FALSE]
           n     == epoch.n
           more  == ProvenInEpoch(a) + units
           node  == [providers[a] EXCEPT !.provenEpoch = n, !.provenInEpoch = more]
<1>1. WallOK /\ NodesOK /\ RatesOK
  BY DEF MoneyInv
<1>2. /\ posts[p].state = "live" /\ s < Shards(posts[p].bytes)
      /\ proofs' = [proofs EXCEPT ![p] = Append(@, line)]
      /\ providers' = [providers EXCEPT ![a].provenEpoch = n, ![a].provenInEpoch = more]
  BY DEF CapProof, Live, Open
<1>3. units \in Nat /\ s \in Nat /\ n \in Nat
  <2>1. s \in Nat /\ posts[p].bytes \in Pos
    BY <1>1, <1>2, InputsAssumption DEF WallOK
  <2> QED BY <1>1, <1>2, <2>1, ProofUnitsNat DEF RatesOK
<1>4. providers[a] \in Provider
  BY <1>1, BondsAddUp
<1>5. more \in Nat
  BY <1>3, <1>4 DEF ProvenInEpoch, Provider
<1>6. providers' = [providers EXCEPT ![a] = node]
  BY <1>1, <1>2 DEF NodesOK, Provider
<1> HIDE DEF n, more
<1>7. node \in Provider /\ node.bondPtp = providers[a].bondPtp
  BY <1>3, <1>4, <1>5 DEF Provider
<1> HIDE DEF node, units
<1>8. ProviderMoved(a, node)
  BY <1>1, <1>6, <1>7, ProviderMoves
<1>9. NodesOK' /\ BondsPaid' = BondsPaid
  <2>1. providers[a].bondPtp \in Nat /\ BondsPaid \in Nat
    BY <1>1, <1>4, BondsAddUp DEF Provider
  <2> QED BY <1>7, <1>8, <2>1 DEF ProviderMoved
<1>10. line \in Proof
  <2>1. epoch.n \in Nat /\ FALSE \in BOOLEAN
    BY <1>3 DEF n
  <2> QED BY <1>3, <2>1 DEF Proof
<1> HIDE DEF line
<1>11. proofs[p] \in Seq(Proof) /\ proofs \in [Pids -> Seq(Proof)]
  BY <1>1 DEF WallOK
<1>12. Append(proofs[p], line) \in Seq(Proof)
  BY <1>10, <1>11
<1>13. proofs' \in [Pids -> Seq(Proof)] /\ \A q \in Pids : q # p => proofs'[q] = proofs[q]
  BY <1>2, <1>11, <1>12
<1> QED BY <1>3, <1>9, <1>13 DEF ProofAdded, units

LEMMA CapProofKeepsMoney ==
  ASSUME MoneyInv, NEW a \in Addr, NEW t \in Stamps, NEW p \in Pids, NEW s \in Inputs.shards,
         CapProof(a, t, p, s)
  PROVE  MoneyInv' /\ UNCHANGED pool
<1>1. RowsOK /\ PoolOK /\ SupplyOK /\ BurnsOK /\ NodesOK /\ WallOK /\ RatesOK
  BY DEF MoneyInv
<1>2. /\ posts[p].state = "live" /\ LandsQuietly(t)
      /\ UNCHANGED <<joined, accounts, burns, pool, supply, treasury, pot, bonds, posts, escrow,
                     credit, history>>
  BY DEF CapProof, Live, Open, moneyVars, epochVars
<1>3. ProofAdded(a, p, s)
  BY CapProofAdds
<1>4. WallOK' /\ Escrowed' = Escrowed /\ CreditOwed' = CreditOwed
  <2>1. ASSUME NEW q \in Pids, posts'[q].state = "none"
        PROVE  escrow'[q] = NoEscrow /\ credit'[q] = 0 /\ proofs'[q] = <<>>
    <3>1. q # p
      BY <1>2, <2>1
    <3> QED BY <1>1, <1>2, <1>3, <2>1, <3>1 DEF ProofAdded, WallOK
  <2>2. proofs' \in [Pids -> Seq(Proof)]
    BY <1>3 DEF ProofAdded
  <2> QED BY <1>1, <1>2, <2>1, <2>2 DEF WallOK, Escrowed, CreditOwed, Held
<1>5. RowsOK' /\ PtpHeld' = PtpHeld /\ SatHeld' = SatHeld /\ BurnsOK' /\ SatBurned' = SatBurned
  BY <1>1, <1>2, RowsStay, BurnsStay
<1>6. RatesOK'
  BY <1>1, <1>2, QuietRates
<1>7. NodesOK' /\ BondsPaid' = BondsPaid
  BY <1>3 DEF ProofAdded
<1>8. Books'
  BY <1>2, <1>4, <1>5, <1>7 DEF MoneyInv, Books, PtpConserved, PotIsTheEscrows, SatConserved, Held
<1> QED BY <1>1, <1>2, <1>4, <1>5, <1>6, <1>7, <1>8 DEF MoneyInv, PoolOK, SupplyOK
-----------------------------------------------------------------------------
(* The units of some of the proofs of a post.                              *)
LEMMA UnitsNat ==
  ASSUME WallOK, NEW p \in Pids, NEW I \in SUBSET DOMAIN proofs[p]
  PROVE  UnitsOf(p, I) \in Nat /\ IsFiniteSet(I)
<1>1. proofs[p] \in Seq(Proof)
  BY DEF WallOK
<1>2. DOMAIN proofs[p] = 1 .. Len(proofs[p]) /\ Len(proofs[p]) \in Nat
      /\ \A i \in 1 .. Len(proofs[p]) : proofs[p][i] \in Proof
  BY <1>1
<1>3. IsFiniteSet(I)
  <2>1. IsFiniteSet(1 .. Len(proofs[p])) /\ I \subseteq 1 .. Len(proofs[p])
    BY <1>2, FS_Interval
  <2> QED BY <2>1, FS_Subset
<1> DEFINE f == [i \in I |-> proofs[p][i].units]
<1>4. f \in [I -> Nat]
  BY <1>2 DEF Proof
<1>5. UnitsOf(p, I) = SumFunction(f)
  BY DEF UnitsOf
<1> HIDE DEF f
<1>6. SumFunction(f) \in Nat
  BY <1>3, <1>4, SumNat
<1> QED BY <1>3, <1>5, <1>6

ClaimTotal(a)  == SumFunction([p \in Claimable(a) |-> Held(escrow[p]) - Held(Drawn(a, p))])
ClaimMinted(a) == SumFunction([p \in Claimable(a) |-> UnitsOf(p, Unclaimed(a, p))])

(* A claim marks proofs as paid and changes nothing else of them.          *)
ClaimedSeq(a, p) ==
  [i \in DOMAIN proofs[p] |->
     IF p \in Claimable(a) /\ i \in Unclaimed(a, p)
     THEN [proofs[p][i] EXCEPT !.claimed = TRUE] ELSE proofs[p][i]]

LEMMA ClaimMarks ==
  ASSUME WallOK, NEW a \in Addr, NEW p \in Pids
  PROVE  /\ ClaimedSeq(a, p) \in Seq(Proof)
         /\ (proofs[p] = <<>> => ClaimedSeq(a, p) = <<>>)
         /\ DOMAIN ClaimedSeq(a, p) = DOMAIN proofs[p]
         /\ \A i \in DOMAIN proofs[p] :
              /\ ClaimedSeq(a, p)[i].by = proofs[p][i].by
              /\ ClaimedSeq(a, p)[i].epoch = proofs[p][i].epoch
              /\ ClaimedSeq(a, p)[i].units = proofs[p][i].units
<1> DEFINE n == Len(proofs[p])
           new(i) == IF p \in Claimable(a) /\ i \in Unclaimed(a, p)
                     THEN [proofs[p][i] EXCEPT !.claimed = TRUE] ELSE proofs[p][i]
<1>1. proofs[p] \in Seq(Proof)
  BY DEF WallOK
<1>2. DOMAIN proofs[p] = 1 .. n /\ n \in Nat /\ \A i \in 1 .. n : proofs[p][i] \in Proof
  BY <1>1
<1>3. ASSUME NEW i \in 1 .. n
      PROVE  /\ new(i) \in Proof /\ new(i).by = proofs[p][i].by
             /\ new(i).epoch = proofs[p][i].epoch /\ new(i).units = proofs[p][i].units
  <2>1. proofs[p][i] \in Proof /\ TRUE \in BOOLEAN
    BY <1>2
  <2> QED BY <2>1 DEF Proof
<1>4. ClaimedSeq(a, p) = [i \in 1 .. n |-> new(i)]
  BY <1>2 DEF ClaimedSeq
<1> HIDE DEF new
<1>5. ClaimedSeq(a, p) \in Seq(Proof)
  BY <1>2, <1>3, <1>4
<1>6. proofs[p] = <<>> => ClaimedSeq(a, p) = <<>>
  <2>1. proofs[p] = <<>> => n = 0
    OBVIOUS
  <2> HIDE DEF n
  <2>2. n = 0 => ClaimedSeq(a, p) = <<>>
    BY <1>4, <1>5
  <2> QED BY <2>1, <2>2
<1> QED BY <1>2, <1>3, <1>4, <1>5, <1>6

(* What a claim takes leaves the escrows and nothing else.                 *)
LEMMA ClaimMovesEscrow ==
  ASSUME WallOK, NEW a \in Addr,
         escrow' = [p \in Pids |-> IF p \in Claimable(a) THEN Drawn(a, p) ELSE escrow[p]]
  PROVE  /\ escrow' \in [Pids -> Sound]
         /\ \A p \in Pids : DrawnFrom(escrow[p], escrow'[p])
         /\ ClaimTotal(a) \in Nat /\ ClaimMinted(a) \in Nat
         /\ Escrowed' = Escrowed - ClaimTotal(a)
<1> DEFINE C == Claimable(a)
           f == [p \in C |-> Held(escrow[p]) - Held(Drawn(a, p))]
           g == [p \in Pids |-> IF p \in C THEN Held(escrow[p]) - Held(Drawn(a, p)) ELSE 0]
           old == [p \in Pids |-> Held(escrow[p])]
           new == [p \in Pids |-> Held(escrow'[p])]
           u == [p \in C |-> UnitsOf(p, Unclaimed(a, p))]
<1>1. C \subseteq Pids /\ IsFiniteSet(C) /\ IsFiniteSet(Pids)
  BY PidsFinite, FS_Subset DEF Claimable
<1>2. \A p \in Pids : escrow[p] \in Sound
  BY DEF WallOK
<1>3. \A p \in Pids : DrawnFrom(escrow[p], Drawn(a, p)) /\ DrawnFrom(escrow[p], escrow[p])
  BY <1>2, DrawnIsFair, NothingDrawn
<1>4. \A p \in Pids : escrow'[p] = IF p \in C THEN Drawn(a, p) ELSE escrow[p]
  OBVIOUS
<1>5. \A p \in Pids : DrawnFrom(escrow[p], escrow'[p])
  BY <1>3, <1>4
<1>6. escrow' \in [Pids -> Sound]
  BY <1>5 DEF DrawnFrom
<1>7. \A p \in Pids : Held(escrow[p]) \in Nat /\ Held(escrow'[p]) \in Nat
                      /\ Held(escrow'[p]) <= Held(escrow[p])
  <2> SUFFICES ASSUME NEW p \in Pids
               PROVE  Held(escrow[p]) \in Nat /\ Held(escrow'[p]) \in Nat
                      /\ Held(escrow'[p]) <= Held(escrow[p])
    OBVIOUS
  <2>1. escrow[p] \in Sound /\ escrow'[p] \in Sound /\ Held(escrow'[p]) <= Held(escrow[p])
    BY <1>2, <1>5 DEF DrawnFrom
  <2> DEFINE e == escrow'[p]
  <2>2. Held(e) \in Nat
    <3>1. e \in Sound
      BY <2>1
    <3> HIDE DEF e
    <3> QED BY <3>1, SoundNums
  <2> QED BY <2>1, <2>2, SoundNums
<1>8. \A p \in Pids : g[p] = old[p] - new[p] /\ g[p] \in Nat
                      /\ old[p] \in Nat /\ new[p] \in Nat
  BY <1>4, <1>7
<1>9. f \in [C -> Int] /\ g \in [Pids -> Int] /\ g \in [Pids -> Nat] /\ old \in [Pids -> Int]
      /\ new \in [Pids -> Int]
      /\ \A p \in Pids : g[p] = IF p \in C THEN f[p] ELSE 0
  <2>1. \A p \in C : f[p] = g[p]
    BY <1>1
  <2> QED BY <1>1, <1>8, <2>1
<1>10. ClaimTotal(a) = SumFunction(f) /\ Escrowed = SumFunction(old) /\ Escrowed' = SumFunction(new)
  BY DEF ClaimTotal, Escrowed, Held
<1>11. ClaimMinted(a) = SumFunction(u)
  BY DEF ClaimMinted
<1>12. u \in [C -> Nat]
  <2> SUFFICES ASSUME NEW p \in C PROVE UnitsOf(p, Unclaimed(a, p)) \in Nat
    OBVIOUS
  <2>1. p \in Pids /\ Unclaimed(a, p) \in SUBSET DOMAIN proofs[p]
    BY <1>1 DEF Unclaimed
  <2> QED BY <2>1, UnitsNat
<1> HIDE DEF C, f, g, old, new, u
<1>13. SumFunction(f) = SumFunction(g)
  BY <1>1, <1>9, SumRestrict
<1>14. SumFunction(old) = SumFunction(g) + SumFunction(new)
  <2>1. \A p \in Pids : old[p] = g[p] + new[p]
    BY <1>8
  <2>2. g \in [Pids -> Int] /\ new \in [Pids -> Int] /\ old \in [Pids -> Int] /\ IsFiniteSet(Pids)
    BY <1>1, <1>9
  <2> QED BY ONLY <2>1, <2>2, SumPlus
<1>15. SumFunction(g) \in Nat /\ SumFunction(new) \in Int
  BY <1>1, <1>9, SumNat, SumType
<1>16. SumFunction(u) \in Nat
  BY <1>1, <1>12, SumNat
<1> QED BY <1>5, <1>6, <1>10, <1>11, <1>13, <1>14, <1>15, <1>16
-----------------------------------------------------------------------------
LEMMA CapClaimKeepsMoney ==
  ASSUME MoneyInv, NEW a \in Addr, NEW t \in Stamps, CapClaim(a, t)
  PROVE  /\ MoneyInv' /\ UNCHANGED pool
         /\ \A p \in Pids : DrawnFrom(escrow[p], escrow'[p]) /\ proofs'[p] = ClaimedSeq(a, p)
<1> DEFINE total == ClaimTotal(a)
           minted == ClaimMinted(a)
           ptp == accounts[a].ptp + total
           cap == accounts[a].cap + minted
           row == [accounts[a] EXCEPT !.ptp = ptp, !.cap = cap]
<1>1. RowsOK /\ PoolOK /\ SupplyOK /\ BurnsOK /\ NodesOK /\ WallOK /\ RatesOK
  BY DEF MoneyInv
<1>2. /\ a \in joined /\ pot' = pot - total /\ LandsQuietly(t)
      /\ escrow' = [p \in Pids |-> IF p \in Claimable(a) THEN Drawn(a, p) ELSE escrow[p]]
      /\ accounts' = [accounts EXCEPT ![a].ptp = @ + total, ![a].cap = @ + minted]
  BY DEF CapClaim, Envelope, ClaimTotal, ClaimMinted
<1>3. \A p \in Pids : proofs'[p] = ClaimedSeq(a, p)
  BY DEF CapClaim, ClaimedSeq
<1>4. DOMAIN proofs' = Pids /\ proofs' = [p \in Pids |-> proofs'[p]]
  BY DEF CapClaim
<1>5. UNCHANGED <<joined, burns, pool, supply, treasury, bonds, providers, posts, credit, history>>
  BY DEF CapClaim, epochVars
<1>6. /\ escrow' \in [Pids -> Sound]
      /\ \A p \in Pids : DrawnFrom(escrow[p], escrow'[p])
      /\ total \in Nat /\ minted \in Nat /\ Escrowed' = Escrowed - total
  BY <1>1, <1>2, ClaimMovesEscrow
<1> HIDE DEF total, minted
<1>7. accounts[a] \in Row /\ ptp \in Nat /\ cap \in Nat /\ ptp = accounts[a].ptp + total
      /\ accounts' = [accounts EXCEPT ![a] = row]
  <2>1. a \in Addr /\ accounts[a] \in Row /\ accounts[a].ptp \in Nat /\ accounts[a].cap \in Nat
    BY <1>1, RowsAddUp DEF RowsOK, Row
  <2>2. accounts' = [accounts EXCEPT ![a] = row]
    BY <1>2, <2>1
  <2>3. total \in Nat /\ minted \in Nat
    BY <1>6
  <2> QED BY <2>1, <2>2, <2>3
<1> HIDE DEF ptp, cap
<1>8. row \in Row /\ row.ptp = ptp /\ row.sat = accounts[a].sat
  BY <1>7 DEF Row
<1> HIDE DEF row
<1>9. RowMoved(a, row)
  BY <1>1, <1>2, <1>5, <1>7, <1>8, RowMoves
<1>10. WallOK'
  <2>1. \A p \in Pids : proofs'[p] \in Seq(Proof) /\ (proofs[p] = <<>> => proofs'[p] = <<>>)
    BY <1>1, <1>3, ClaimMarks
  <2>2. ASSUME NEW q \in Pids, posts'[q].state = "none"
        PROVE  escrow'[q] = NoEscrow /\ credit'[q] = 0 /\ proofs'[q] = <<>>
    <3>1. posts[q].state = "none" /\ proofs[q] = <<>> /\ escrow[q] = NoEscrow /\ credit[q] = 0
      BY <1>1, <1>5, <2>2 DEF WallOK
    <3>2. q \notin Claimable(a)
      BY <3>1 DEF Claimable
    <3> QED BY <1>2, <1>5, <2>1, <3>1, <3>2
  <2>3. proofs' \in [Pids -> Seq(Proof)]
    BY <1>4, <2>1
  <2> QED BY <1>1, <1>5, <1>6, <2>2, <2>3 DEF WallOK
<1>11. BurnsOK' /\ SatBurned' = SatBurned /\ NodesOK' /\ BondsPaid' = BondsPaid
  BY <1>1, <1>5, BurnsStay, NodesStay
<1>12. RatesOK'
  BY <1>1, <1>2, <1>5, QuietRates
<1>13. PtpHeld' = PtpHeld + total /\ SatHeld' = SatHeld /\ CreditOwed' = CreditOwed
  <2>1. accounts[a].ptp \in Nat /\ accounts[a].sat \in Nat
    BY <1>7 DEF Row
  <2>2. CreditOwed' = CreditOwed
    BY <1>5 DEF CreditOwed
  <2>3. total \in Nat
    BY <1>6
  <2> QED BY <1>7, <1>8, <1>9, <2>1, <2>2, <2>3, MoneyNums DEF RowMoved
<1>14. PtpConserved'
  <2>1. supply.emitted - supply.burned
          = PtpHeld + pool.ptp + treasury + pot + bonds + CreditOwed
    BY DEF MoneyInv, Books, PtpConserved
  <2>2. pot' = pot - total /\ total \in Nat
    BY <1>2, <1>6
  <2>3. supply.emitted - supply.burned
          = PtpHeld' + pool.ptp + treasury + pot' + bonds + CreditOwed'
    BY <1>13, <2>1, <2>2, MoneyNums
  <2> QED BY <1>5, <2>3 DEF PtpConserved
<1>15. PotIsTheEscrows'
  <2>1. pot = Escrowed /\ bonds = BondsPaid
        /\ \A q \in Pids : posts[q].state = "settled" => Held(escrow[q]) + credit[q] = 0
    BY DEF MoneyInv, Books, PotIsTheEscrows
  <2>2. pot' = Escrowed'
    BY <1>2, <1>6, <2>1
  <2>3. ASSUME NEW q \in Pids, posts'[q].state = "settled"
        PROVE  Held(escrow'[q]) + credit'[q] = 0
    <3>1. posts[q].state = "settled" /\ q \notin Claimable(a)
      BY <1>5, <2>3 DEF Claimable
    <3> QED BY <1>2, <1>5, <2>1, <3>1
  <2> QED BY <1>5, <1>11, <2>1, <2>2, <2>3 DEF PotIsTheEscrows, Held
<1>16. SatConserved'
  BY <1>5, <1>11, <1>13 DEF MoneyInv, Books, SatConserved
<1>17. MoneyInv'
  BY <1>1, <1>5, <1>9, <1>10, <1>11, <1>12, <1>14, <1>15, <1>16
     DEF MoneyInv, Books, RowMoved, PoolOK, SupplyOK
<1> QED BY <1>3, <1>5, <1>6, <1>17
-----------------------------------------------------------------------------
(* The close of an epoch.                                                  *)
Acts == Addr \X Pids \X Engagement

LEMMA ActsFinite == IsFiniteSet(Acts) /\ IsFiniteSet(Engagement)
<1> DEFINE P == (Addr \X Pids) \X Engagement
           f == [y \in P |-> <<y[1][1], y[1][2], y[2]>>]
<1>1. IsFiniteSet(Engagement)
  <2>1. IsFiniteSet({"view"})
    BY FS_Singleton
  <2>2. IsFiniteSet({"view"} \cup {"like"})
    BY <2>1, FS_AddElement
  <2>3. IsFiniteSet(({"view"} \cup {"like"}) \cup {"comment"})
    BY <2>2, FS_AddElement
  <2>4. Engagement = ({"view"} \cup {"like"}) \cup {"comment"}
    BY DEF Engagement
  <2> QED BY <2>3, <2>4
<1>2. IsFiniteSet(P)
  <2>1. IsFiniteSet(Addr \X Pids)
    BY PidsFinite, BoundsAssumption, FS_Product
  <2> QED BY <1>1, <2>1, FS_Product
<1>3. f \in Surjection(P, Acts)
  <2>1. f \in [P -> Acts]
    BY DEF Acts
  <2>2. ASSUME NEW x \in Acts PROVE \E y \in P : f[y] = x
    <3>1. PICK b \in Addr, q \in Pids, k \in Engagement : x = <<b, q, k>>
      BY DEF Acts
    <3>2. <<<<b, q>>, k>> \in P
      OBVIOUS
    <3>3. f[<<<<b, q>>, k>>] = x
      BY <3>1, <3>2
    <3> QED BY <3>2, <3>3
  <2> HIDE DEF f, P
  <2> QED BY <2>1, <2>2 DEF Surjection
<1> HIDE DEF f, P
<1>4. IsFiniteSet(Acts)
  BY <1>2, <1>3, FS_Surjection
<1> QED BY <1>1, <1>4

(* What an epoch's engagement gives back is a number, and each clamp of it *)
(* only lowers it.                                                         *)
LEMMA CreditedNat ==
  ASSUME WallOK, RatesOK, PostInv, landed \in [Acts -> Nat], NEW b
  PROVE  Credited(b) \in Nat /\ Rebate(b) \in Nat
<1> DEFINE T == {y \in DOMAIN landed : landed[y] > 0}
           f == [x \in T |-> IF posts[x[2]].author = b
                             THEN landed[x] * EngagementBurn(x[2], x[3]) ELSE 0]
<1>1. T \subseteq Acts /\ IsFiniteSet(T)
  <2>1. T \subseteq Acts
    OBVIOUS
  <2> QED BY <2>1, ActsFinite, FS_Subset
<1>2. f \in [T -> Nat]
  <2> SUFFICES ASSUME NEW x \in T
               PROVE  (IF posts[x[2]].author = b
                       THEN landed[x] * EngagementBurn(x[2], x[3]) ELSE 0) \in Nat
    OBVIOUS
  <2>1. x[2] \in Pids /\ x[3] \in Engagement /\ landed[x] \in Nat
    BY <1>1 DEF Acts
  <2>2. EngagementBurn(x[2], x[3]) \in Nat
    BY <2>1, EngagementSplits DEF EngagementBurn
  <2>3. landed[x] * EngagementBurn(x[2], x[3]) \in Nat
    BY <2>1, <2>2, ProductNat
  <2> QED BY <2>3
<1>3. Credited(b) = SumFunction(f)
  BY DEF Credited
<1> HIDE DEF T, f
<1>4. Credited(b) \in Nat
  BY <1>1, <1>2, <1>3, SumNat
<1>5. Rebate(b) \in Nat
  <2>1. Params.kappa * Credited(b) \in Nat /\ Params.bps \in Nat \ {0}
    BY <1>4, ParamsNat, ProductNat DEF Pos
  <2> QED BY <2>1, QuotientDown DEF Rebate
<1> QED BY <1>4, <1>5
-----------------------------------------------------------------------------
Asked   == SumFunction([b \in Addr |-> Rebate(b)])
Allowed == Emission(epoch.n, epoch.burned, MedianOf(history, DOMAIN history))
Round   == SumFunction([b \in Addr |-> EpochMint(b)])
Room    == Params.maxSupply - supply.emitted
Handed  == SumFunction([b \in Addr |-> EpochShare(b)])

(* A part of a whole, rounded down, by a factor no larger than the whole.  *)
LEMMA PartIsLess ==
  ASSUME NEW x \in Nat, NEW r \in Nat, NEW whole \in Nat, r < whole
  PROVE  (x * r) \div whole \in Nat /\ (x * r) \div whole <= x
<1> DEFINE q == (x * r) \div whole
<1>1. whole \in Nat \ {0} /\ x * r \in Nat
  BY ProductNat
<1>2. q \in Nat /\ whole * q <= x * r
  BY <1>1, QuotientDown
<1> HIDE DEF q
<1>3. x * r <= x * whole /\ x * r \in Nat /\ x * whole \in Nat /\ whole * q \in Nat
  BY <1>2, ProductMonotonic, ProductNat
<1>4. q * whole <= x * whole
  <2>1. q * whole = whole * q
    BY <1>2
  <2> QED BY <1>2, <1>3, <2>1
<1>5. q <= x
  BY <1>1, <1>2, <1>4, CancelFactor
<1> QED BY <1>2, <1>5 DEF q

LEMMA AllowedNat ==
  ASSUME RatesOK
  PROVE  Allowed \in Nat /\ Allowed <= epoch.burned /\ epoch.burned \in Nat
<1>1. epoch.n \in Nat /\ epoch.burned \in Nat /\ history \in Seq(Nat)
  BY DEF RatesOK
<1>2. DOMAIN history = 1 .. Len(history) /\ Len(history) \in Nat
      /\ \A i \in DOMAIN history : history[i] \in Nat
  BY <1>1
<1>3. IsFiniteSet(DOMAIN history)
  BY <1>2, FS_Interval
<1>4. MedianOf(history, DOMAIN history) \in Nat
  BY <1>2, <1>3, MedianNat
<1> QED BY <1>1, <1>4, EmissionWithinBurn DEF Allowed

(* The first clamp: a round asks for what the engagement of the epoch      *)
(* burned, and gets no more than the rail allows.                          *)
LEMMA RoundWithinRail ==
  ASSUME WallOK, RatesOK, PostInv, landed \in [Acts -> Nat]
  PROVE  /\ \A b \in Addr : EpochMint(b) \in Nat /\ EpochMint(b) <= Rebate(b)
         /\ Round \in Nat /\ Round <= Allowed
<1> DEFINE ask == [b \in Addr |-> Rebate(b)]
           get == [b \in Addr |-> EpochMint(b)]
           A   == SumFunction(ask)
           R   == Allowed
<1>1. ask \in [Addr -> Nat] /\ ask \in [Addr -> Int] /\ \A b \in Addr : ask[b] = Rebate(b)
  BY CreditedNat
<1>2. R \in Nat
  BY AllowedNat
<1>3. \A b \in Addr : EpochMint(b) = IF A <= R THEN ask[b] ELSE (ask[b] * R) \div A
  BY <1>1 DEF EpochMint, Allowed
<1>4. \A b \in Addr : get[b] = EpochMint(b)
  OBVIOUS
<1> HIDE DEF ask, R
<1>5. A \in Nat
  BY <1>1, SumNat, BoundsAssumption
<1>6. \A b \in Addr : EpochMint(b) \in Nat /\ EpochMint(b) <= ask[b]
  <2>1. CASE A <= R
    BY <1>1, <1>3, <2>1
  <2>2. CASE ~(A <= R)
    <3> SUFFICES ASSUME NEW b \in Addr PROVE EpochMint(b) \in Nat /\ EpochMint(b) <= ask[b]
      OBVIOUS
    <3> HIDE DEF A
    <3>1. R < A /\ ask[b] \in Nat
      BY <1>1, <1>2, <1>5, <2>2
    <3>2. EpochMint(b) = (ask[b] * R) \div A
      BY <1>3, <2>2
    <3> QED BY <1>2, <1>5, <3>1, <3>2, PartIsLess
  <2> QED BY <2>1, <2>2
<1>7. get \in [Addr -> Nat] /\ get \in [Addr -> Int]
  BY <1>6
<1> HIDE DEF get
<1>8. SumFunction(get) \in Nat
  BY <1>7, SumNat, BoundsAssumption
<1>9. SumFunction(get) <= R
  <2>1. CASE A <= R
    <3>1. \A b \in Addr : get[b] <= ask[b]
      BY <1>1, <1>4, <1>6
    <3>2. SumFunction(get) <= SumFunction(ask)
      BY <1>1, <1>7, <3>1, SumMonotonic, BoundsAssumption
    <3> QED BY <1>2, <1>5, <1>8, <2>1, <3>2
  <2>2. CASE ~(A <= R)
    <3>1. SumFunction(ask) > 0
      BY <1>2, <1>5, <2>2
    <3>2. \A b \in Addr : get[b] = (ask[b] * R) \div SumFunction(ask)
      BY <1>3, <1>4, <2>2
    <3> QED BY <1>1, <1>2, <1>7, <3>1, <3>2, SumOfParts, BoundsAssumption
  <2> QED BY <2>1, <2>2
<1> QED BY <1>1, <1>6, <1>8, <1>9 DEF Round, get, R

(* The second clamp: what is handed out is within the round, and within    *)
(* the room that maxSupply leaves.                                         *)
LEMMA SharesWithinRound ==
  ASSUME WallOK, RatesOK, PostInv, SupplyOK, landed \in [Acts -> Nat]
  PROVE  /\ \A b \in Addr : EpochShare(b) \in Nat /\ EpochShare(b) <= EpochMint(b)
         /\ Handed \in Nat /\ Handed <= Round /\ (Room >= 0 => Handed <= Room)
<1> DEFINE ask == [b \in Addr |-> EpochMint(b)]
           get == [b \in Addr |-> EpochShare(b)]
           A   == SumFunction(ask)
           R   == Room
<1>1. ask \in [Addr -> Nat] /\ ask \in [Addr -> Int] /\ \A b \in Addr : ask[b] = EpochMint(b)
  BY RoundWithinRail
<1>2. R \in Int
  BY ParamsNat DEF SupplyOK, Room, Pos
<1>3. \A b \in Addr : EpochShare(b) = IF A <= R THEN ask[b]
                                     ELSE IF R > 0 THEN (ask[b] * R) \div A ELSE 0
  BY <1>1 DEF EpochShare, Room
<1>4. \A b \in Addr : get[b] = EpochShare(b)
  OBVIOUS
<1> HIDE DEF ask, R
<1>5. A \in Nat
  BY <1>1, SumNat, BoundsAssumption
<1>6. \A b \in Addr : EpochShare(b) \in Nat /\ EpochShare(b) <= ask[b]
  <2> SUFFICES ASSUME NEW b \in Addr PROVE EpochShare(b) \in Nat /\ EpochShare(b) <= ask[b]
    OBVIOUS
  <2>1. CASE A <= R \/ ~(R > 0)
    BY <1>1, <1>3, <2>1
  <2>2. CASE ~(A <= R) /\ R > 0
    <3> HIDE DEF A
    <3>1. R < A /\ ask[b] \in Nat /\ R \in Nat
      BY <1>1, <1>2, <1>5, <2>2
    <3>2. EpochShare(b) = (ask[b] * R) \div A
      BY <1>3, <2>2
    <3> QED BY <1>5, <3>1, <3>2, PartIsLess
  <2> QED BY <2>1, <2>2
<1>7. get \in [Addr -> Nat] /\ get \in [Addr -> Int]
  BY <1>6
<1> HIDE DEF get
<1>8. SumFunction(get) \in Nat /\ SumFunction(get) <= A
  <2>1. \A b \in Addr : get[b] <= ask[b]
    BY <1>4, <1>6
  <2> QED BY <1>1, <1>7, <2>1, SumNat, SumMonotonic, BoundsAssumption
<1>9. R >= 0 => SumFunction(get) <= R
  <2>1. CASE A <= R
    BY <1>2, <1>5, <1>8, <2>1
  <2>2. CASE ~(A <= R) /\ R > 0
    <3>1. SumFunction(ask) > 0 /\ R \in Nat
      BY <1>2, <1>5, <2>2
    <3>2. \A b \in Addr : get[b] = (ask[b] * R) \div SumFunction(ask)
      BY <1>3, <1>4, <2>2
    <3> QED BY <1>1, <1>7, <3>1, <3>2, SumOfParts, BoundsAssumption
  <2>3. CASE ~(A <= R) /\ ~(R > 0)
    <3>1. \A b \in Addr : get[b] = 0
      BY <1>3, <1>4, <2>3
    <3>2. SumFunction(get) = 0
      BY <1>7, <3>1, SumZero, BoundsAssumption
    <3> QED BY <3>2
  <2> QED BY <2>1, <2>2, <2>3
<1> QED BY <1>1, <1>6, <1>8, <1>9 DEF Handed, Round, get, ask, R
-----------------------------------------------------------------------------
ShareOf(b) == IF b \in joined THEN EpochShare(b) ELSE 0

(* Only those who joined are paid: what is minted is within what is        *)
(* handed out.                                                             *)
LEMMA MintedIsHanded ==
  ASSUME WallOK, RatesOK, PostInv, SupplyOK, RowsOK, landed \in [Acts -> Nat]
  PROVE  /\ Minted \in Nat /\ Minted <= Handed
         /\ Minted = SumFunction([b \in Addr |-> ShareOf(b)])
         /\ \A b \in Addr : ShareOf(b) \in Nat /\ ShareOf(b) <= Rebate(b)
<1> DEFINE f == [b \in joined |-> EpochShare(b)]
           g == [b \in Addr |-> ShareOf(b)]
           h == [b \in Addr |-> EpochShare(b)]
<1>1. \A b \in Addr : /\ EpochShare(b) \in Nat /\ EpochMint(b) \in Nat /\ Rebate(b) \in Nat
                      /\ EpochShare(b) <= EpochMint(b) /\ EpochMint(b) <= Rebate(b)
  BY CreditedNat, RoundWithinRail, SharesWithinRound
<1>2. joined \subseteq Addr
  BY DEF RowsOK
<1>3. \A b \in Addr : ShareOf(b) \in Nat /\ ShareOf(b) <= EpochShare(b) /\ ShareOf(b) <= Rebate(b)
  <2> SUFFICES ASSUME NEW b \in Addr
               PROVE  ShareOf(b) \in Nat /\ ShareOf(b) <= EpochShare(b) /\ ShareOf(b) <= Rebate(b)
    OBVIOUS
  <2>1. /\ EpochShare(b) \in Nat /\ EpochMint(b) \in Nat /\ Rebate(b) \in Nat
        /\ EpochShare(b) <= EpochMint(b) /\ EpochMint(b) <= Rebate(b)
    BY <1>1
  <2>2. EpochShare(b) <= Rebate(b)
    BY <2>1
  <2> QED BY <2>1, <2>2 DEF ShareOf
<1>4. /\ f \in [joined -> Nat] /\ f \in [joined -> Int]
      /\ g \in [Addr -> Nat] /\ g \in [Addr -> Int] /\ h \in [Addr -> Int]
      /\ \A b \in Addr : g[b] <= h[b]
      /\ \A b \in Addr : g[b] = IF b \in joined THEN f[b] ELSE 0
  BY <1>1, <1>2, <1>3 DEF ShareOf
<1>5. Minted = SumFunction(f) /\ Handed = SumFunction(h)
  BY DEF Minted, Handed
<1> HIDE DEF f, g, h
<1>6. SumFunction(f) = SumFunction(g)
  BY <1>2, <1>4, SumRestrict, BoundsAssumption
<1>7. SumFunction(g) \in Nat /\ SumFunction(g) <= SumFunction(h)
  BY <1>4, SumNat, SumMonotonic, BoundsAssumption
<1> QED BY <1>3, <1>5, <1>6, <1>7 DEF g

(* What the log keeps of the past burns is a sequence of numbers.          *)
LEMMA LastOfNat ==
  ASSUME NEW s \in Seq(Nat), NEW n \in Pos
  PROVE  LastOf(s, n) \in Seq(Nat)
<1>1. CASE Len(s) <= n
  BY <1>1 DEF LastOf
<1>2. CASE ~(Len(s) <= n)
  <2>1. Len(s) \in Nat /\ n \in Nat /\ Len(s) - n + 1 \in 1 .. Len(s)
    BY <1>2 DEF Pos
  <2>2. \A i \in Len(s) - n + 1 .. Len(s) : s[i] \in Nat
    BY <2>1
  <2>3. SubSeq(s, Len(s) - n + 1, Len(s)) \in Seq(Nat)
    BY <2>1, <2>2
  <2> QED BY <1>2, <2>3 DEF LastOf
<1> QED BY <1>1, <1>2

CloseParts(b) ==
  /\ accounts'[b].ptp = accounts[b].ptp + ShareOf(b)
  /\ accounts'[b].sat = accounts[b].sat

LEMMA CloseKeepsMoney ==
  ASSUME MoneyInv, PostInv, landed \in [Acts -> Nat],
         NEW a \in Addr, NEW t \in Stamps, NEW oracle \in Inputs.oracles, CloseEpoch(a, t, oracle)
  PROVE  /\ MoneyInv' /\ UNCHANGED pool
         /\ supply'.emitted = supply.emitted + Minted /\ supply'.burned = supply.burned
         /\ epoch'.burned = 0
         /\ \A b \in Addr : CloseParts(b)
<1> DEFINE eur == SealedEur(oracle, epoch.rate.eur)
           row(b) == [accounts[b] EXCEPT !.ptp = @ + ShareOf(b)]
<1>1. RowsOK /\ PoolOK /\ SupplyOK /\ BurnsOK /\ NodesOK /\ WallOK /\ RatesOK
  BY DEF MoneyInv
<1>2. /\ accounts' = [b \in Addr |-> row(b)]
      /\ supply' = [supply EXCEPT !.emitted = @ + Minted]
      /\ history' = LastOf(Append(history, epoch.burned), Params.medianEpochs)
      /\ epoch' = NextEpoch(t, eur)
      /\ eur > 0
  BY DEF CloseEpoch, ShareOf
<1>3. UNCHANGED <<joined, burns, pool, treasury, pot, bonds, providers, posts, escrow, credit, proofs>>
  BY DEF CloseEpoch, postVars
<1>4. Minted \in Nat /\ \A b \in Addr : ShareOf(b) \in Nat
  BY <1>1, MintedIsHanded
<1>5. ASSUME NEW b \in Addr
      PROVE  /\ row(b) \in Row /\ row(b).ptp = accounts[b].ptp + ShareOf(b)
             /\ row(b).sat = accounts[b].sat
  <2> DEFINE ptp == accounts[b].ptp + ShareOf(b)
  <2>1. accounts[b] \in Row /\ ptp \in Nat /\ row(b) = [accounts[b] EXCEPT !.ptp = ptp]
    BY <1>1, <1>4, RowsAddUp DEF Row
  <2> HIDE DEF row
  <2>2. ptp = accounts[b].ptp + ShareOf(b)
    OBVIOUS
  <2> HIDE DEF ptp
  <2> QED BY <2>1, <2>2 DEF Row
<1>6. \A b \in Addr : b \notin joined => accounts'[b] = NewAccount
  <2> SUFFICES ASSUME NEW b \in Addr, b \notin joined PROVE accounts'[b] = NewAccount
    OBVIOUS
  <2>1. accounts[b] = NewAccount /\ ShareOf(b) = 0 /\ accounts'[b] = row(b)
    BY <1>1, <1>2 DEF RowsOK, ShareOf
  <2>2. accounts[b].ptp = 0
    BY <2>1 DEF NewAccount
  <2>3. row(b) = [accounts[b] EXCEPT !.ptp = 0]
    BY <2>1, <2>2
  <2>4. [accounts[b] EXCEPT !.ptp = 0] = accounts[b]
    BY <2>1 DEF NewAccount
  <2> QED BY <2>1, <2>3, <2>4
<1>7. \A b \in Addr : accounts'[b] = row(b)
  BY <1>2
<1>8. RowsOK'
  <2>1. accounts' \in [Addr -> Row]
    BY <1>2, <1>5
  <2> QED BY <1>1, <1>3, <1>6, <2>1 DEF RowsOK
<1>9. \A b \in Addr : CloseParts(b)
  BY <1>5, <1>7 DEF CloseParts
<1> HIDE DEF row
<1>10. PtpHeld' = PtpHeld + Minted /\ SatHeld' = SatHeld
  <2> DEFINE f == [b \in Addr |-> accounts[b].ptp]
             g == [b \in Addr |-> ShareOf(b)]
             h == [b \in Addr |-> accounts'[b].ptp]
             s == [b \in Addr |-> accounts[b].sat]
             s2 == [b \in Addr |-> accounts'[b].sat]
  <2>1. \A b \in Addr : accounts[b].ptp \in Nat /\ accounts'[b].ptp \in Nat
    BY <1>1, <1>8 DEF RowsOK, Row
  <2>2. f \in [Addr -> Int] /\ g \in [Addr -> Int] /\ h \in [Addr -> Int]
        /\ \A b \in Addr : h[b] = f[b] + g[b]
    BY <1>4, <1>9, <2>1 DEF CloseParts
  <2>3. PtpHeld = SumFunction(f) /\ PtpHeld' = SumFunction(h)
    BY DEF PtpHeld
  <2>4. SatHeld = SumFunction(s) /\ SatHeld' = SumFunction(s2)
    BY DEF SatHeld
  <2>5. s = s2
    BY <1>9 DEF CloseParts
  <2>6. Minted = SumFunction(g)
    BY <1>1, MintedIsHanded
  <2> HIDE DEF f, g, h, s, s2
  <2>7. SumFunction(h) = SumFunction(f) + SumFunction(g)
    BY <2>2, SumPlus, BoundsAssumption
  <2> QED BY <2>3, <2>4, <2>5, <2>6, <2>7
<1>11. SupplyOK' /\ supply'.emitted = supply.emitted + Minted /\ supply'.burned = supply.burned
  <2> DEFINE e == supply.emitted + Minted
  <2>1. e \in Nat /\ supply' = [supply EXCEPT !.emitted = e]
    BY <1>1, <1>2, <1>4 DEF SupplyOK
  <2> HIDE DEF e
  <2>2. SupplyOK' /\ supply'.burned = supply.burned /\ supply'.emitted = e
    BY <1>1, <1>3, <2>1 DEF SupplyOK
  <2> QED BY <2>2 DEF e
<1>12. RatesOK' /\ epoch'.burned = 0
  <2>1. epoch.rate.eur \in Nat
    BY <1>1 DEF RatesOK, Rate, Pos
  <2>2. eur \in Pos
    BY <1>2, <2>1, SealedNat DEF Pos
  <2>3. t \in Nat /\ epoch.n + 1 \in Nat /\ pool.sat \in Pos /\ pool.ptp \in Pos
    BY <1>1, PoolNums, BoundsAssumption DEF RatesOK, Pos
  <2> HIDE DEF eur
  <2>4. SealRate(pool, eur) \in Rate
    BY <2>2, <2>3 DEF SealRate, Rate
  <2>5. epoch' \in [n : Nat, startedAt : Nat, burned : Nat, rate : Rate] /\ epoch'.burned = 0
    BY <1>2, <2>3, <2>4 DEF NextEpoch
  <2>6. Append(history, epoch.burned) \in Seq(Nat)
    BY <1>1 DEF RatesOK
  <2>7. history' \in Seq(Nat)
    BY <1>2, <2>6, LastOfNat, ParamsNat
  <2> QED BY <2>5, <2>7 DEF RatesOK
<1>13. Idle
  <2>1. WallOK' /\ Escrowed' = Escrowed /\ CreditOwed' = CreditOwed
    BY <1>1, <1>3, WallStays
  <2>2. BurnsOK' /\ SatBurned' = SatBurned /\ NodesOK' /\ BondsPaid' = BondsPaid
    BY <1>1, <1>3, BurnsStay, NodesStay
  <2>3. PotIsTheEscrows'
    BY <1>3, <2>1, <2>2 DEF MoneyInv, Books, PotIsTheEscrows, Held
  <2> QED BY <1>3, <2>1, <2>2, <2>3 DEF Idle
<1>14. PtpConserved'
  <2>1. supply.emitted - supply.burned
          = PtpHeld + pool.ptp + treasury + pot + bonds + CreditOwed
    BY DEF MoneyInv, Books, PtpConserved
  <2> DEFINE m == Minted
  <2>2. supply'.emitted = supply.emitted + m /\ supply'.burned = supply.burned
        /\ PtpHeld' = PtpHeld + m /\ m \in Nat
    BY <1>4, <1>10, <1>11
  <2> HIDE DEF m
  <2>3. supply'.emitted - supply'.burned
          = PtpHeld' + pool.ptp + treasury + pot + bonds + CreditOwed
    BY <2>1, <2>2, MoneyNums
  <2> QED BY <1>3, <1>13, <2>3 DEF PtpConserved, Idle
<1>15. SatConserved'
  BY <1>3, <1>10, <1>13 DEF MoneyInv, Books, SatConserved, Idle
<1>16. MoneyInv'
  BY <1>1, <1>3, <1>8, <1>11, <1>12, <1>13, <1>14, <1>15 DEF MoneyInv, Books, PoolOK, Idle
<1> QED BY <1>3, <1>9, <1>11, <1>12, <1>16
-----------------------------------------------------------------------------
(* The genesis world.                                                      *)
LEMMA MoneyInvInit == Init => MoneyInv
<1> SUFFICES ASSUME Init PROVE MoneyInv
  OBVIOUS
<1>1. RowsOK
  <2>1. NewAccount \in Row
    BY DEF NewAccount, Row
  <2> QED BY <2>1 DEF Init, RowsOK
<1>2. PoolOK /\ pool.sat = Params.genesisSat /\ pool.ptp = Params.genesisPtp
  <2> DEFINE y == Params.genesisSat * Params.genesisPtp
             r == Isqrt(y)
  <2>1. y \in Pos /\ y \in Nat
    BY PosProduct, ParamsNat DEF Pos
  <2> HIDE DEF y
  <2>2. \E z \in 0 .. y : z * z <= y /\ (z + 1) * (z + 1) > y
    BY <2>1, SquareRoot
  <2>3. \E z \in 0 .. y : z * z <= y /\ y < (z + 1) * (z + 1)
    BY <2>1, <2>2
  <2>4. r \in 0 .. y /\ y < (r + 1) * (r + 1)
    BY <2>3 DEF Isqrt
  <2>5. r \in Pos
    <3>1. r # 0
      BY <2>1, <2>4 DEF Pos
    <3> QED BY <2>1, <2>4, <3>1 DEF Pos
  <2>6. pool = [sat |-> Params.genesisSat, ptp |-> Params.genesisPtp, shares |-> r,
                locked |-> Params.minLiquidity]
    BY DEF Init, GenesisPool, y
  <2> HIDE DEF r
  <2> QED BY <2>5, <2>6, ParamsNat DEF PoolOK
<1>3. SupplyOK /\ supply.emitted = Params.genesisPtp /\ supply.burned = 0 /\ treasury = 0
  BY ParamsNat DEF Init, SupplyOK, Pos
<1>4. BurnsOK
  BY FS_EmptySet DEF Init, BurnsOK
<1>5. NodesOK
  <2>1. NoProvider \in Provider
    BY DEF NoProvider, Provider
  <2> QED BY <2>1 DEF Init, NodesOK
<1>6. WallOK
  <2>1. NoEscrow \in Sound
    BY DEF NoEscrow, Sound, EscrowRow
  <2>2. <<>> \in Seq(Proof) /\ 0 \in Nat
    OBVIOUS
  <2>3. \A p \in Pids : posts[p].state = "none"
    BY DEF Init, NoPost
  <2>4. /\ escrow \in [Pids -> Sound] /\ credit \in [Pids -> Nat] /\ proofs \in [Pids -> Seq(Proof)]
        /\ \A p \in Pids : escrow[p] = NoEscrow /\ credit[p] = 0 /\ proofs[p] = <<>>
    BY <2>1, <2>2 DEF Init
  <2> QED BY <2>3, <2>4 DEF WallOK
<1>7. RatesOK
  <2>1. SealRate(GenesisPool, Params.genesisRate) \in Rate
    BY ParamsNat DEF SealRate, GenesisPool, Rate
  <2>2. epoch = [n |-> 0, startedAt |-> 0, burned |-> 0,
                 rate |-> SealRate(GenesisPool, Params.genesisRate)] /\ history = <<>>
    BY DEF Init
  <2> HIDE DEF Init
  <2>3. epoch \in [n : Nat, startedAt : Nat, burned : Nat, rate : Rate]
    BY <2>1, <2>2
  <2> QED BY <2>2, <2>3 DEF RatesOK
<1>8. PtpHeld = 0 /\ SatHeld = 0 /\ BondsPaid = 0
  <2> DEFINE f == [b \in Addr |-> accounts[b].ptp]
             g == [b \in Addr |-> accounts[b].sat]
             h == [b \in Addr |-> providers[b].bondPtp]
  <2>1. \A b \in Addr : f[b] = 0 /\ g[b] = 0 /\ h[b] = 0
    BY DEF Init, NewAccount, NoProvider
  <2>2. f \in [Addr -> Int] /\ g \in [Addr -> Int] /\ h \in [Addr -> Int]
    BY <2>1
  <2>3. PtpHeld = SumFunction(f) /\ SatHeld = SumFunction(g) /\ BondsPaid = SumFunction(h)
    BY DEF PtpHeld, SatHeld, BondsPaid
  <2> HIDE DEF f, g, h
  <2> QED BY <2>1, <2>2, <2>3, SumZero, BoundsAssumption
<1>9. Escrowed = 0 /\ CreditOwed = 0
  <2> DEFINE f == [p \in Pids |-> Held(escrow[p])]
             g == credit
  <2>1. \A p \in Pids : f[p] = 0 /\ g[p] = 0
    BY DEF Init, NoEscrow, Held
  <2>2. f \in [Pids -> Int] /\ g \in [Pids -> Int]
    BY <2>1 DEF Init
  <2>3. Escrowed = SumFunction(f) /\ CreditOwed = SumFunction(g)
    BY DEF Escrowed, CreditOwed
  <2> HIDE DEF f, g
  <2> QED BY <2>1, <2>2, <2>3, SumZero, PidsFinite
<1>10. SatBurned = 0
  <2> DEFINE f == [o \in burns |-> TxoSat[o]]
  <2>1. burns = {} /\ f \in [burns -> Int] /\ IsFiniteSet(burns)
    BY FS_EmptySet DEF Init
  <2>2. SatBurned = SumFunction(f)
    BY DEF SatBurned
  <2> HIDE DEF f
  <2> QED BY <2>1, <2>2, SumType
<1>11. PtpConserved
  <2>1. pot = 0 /\ bonds = 0 /\ Params.genesisPtp \in Nat
    BY ParamsNat DEF Init, Pos
  <2> QED BY <1>2, <1>3, <1>8, <1>9, <2>1 DEF PtpConserved
<1>12. PotIsTheEscrows
  <2>1. pot = 0 /\ bonds = 0 /\ \A p \in Pids : posts[p].state = "none"
    BY DEF Init, NoPost
  <2> QED BY <1>8, <1>9, <2>1 DEF PotIsTheEscrows
<1>13. SatConserved
  <2>1. Params.genesisSat \in Nat
    BY ParamsNat DEF Pos
  <2> QED BY <1>2, <1>8, <1>10, <2>1 DEF SatConserved
<1> QED BY <1>1, <1>2, <1>3, <1>4, <1>5, <1>6, <1>7, <1>11, <1>12, <1>13 DEF MoneyInv, Books
-----------------------------------------------------------------------------
(* Every act at once.                                                      *)
PoolHeld == pool'.sat * pool'.ptp * pool.shares * pool.shares
              >= pool.sat * pool.ptp * pool'.shares * pool'.shares

LEMMA PoolStays ==
  ASSUME PoolOK, UNCHANGED pool
  PROVE  PoolHeld
<1>1. pool.sat * pool.ptp * pool.shares * pool.shares \in Nat
  BY PoolNums, ProductNat
<1> QED BY <1>1 DEF PoolHeld

LEMMA ActKeepsMoney ==
  ASSUME MoneyInv, PostInv, landed \in [Acts -> Nat], NEW a \in Addr, NEW t \in Stamps, Act(a, t)
  PROVE  MoneyInv' /\ PoolHeld
<1>0. PoolOK /\ RowsOK
  BY DEF MoneyInv
<1>1. CASE IdentityNext(a, t)
  <2>1. MoneyInv' /\ UNCHANGED pool
    BY <1>1, RegisterKeepsMoney, BurnClaimKeepsMoney DEF IdentityNext
  <2> QED BY <1>0, <2>1, PoolStays
<1>2. CASE PoolNext(a, t)
  BY <1>2, PoolActKeepsMoney DEF PoolKept, PoolHeld
<1>3. CASE WallNext(a, t)
  <2>1. MoneyInv' /\ UNCHANGED pool
    BY <1>3, PostKeepsMoney, ExtendKeepsMoney, SettleKeepsMoney DEF WallNext
  <2> QED BY <1>0, <2>1, PoolStays
<1>4. CASE EngagementNext(a, t)
  <2>1. PICK p \in Pids, kind \in Engagement, s \in Int :
          EngagementPlan(kind, a, t, p) /\ CommitEngagement(kind, a, t, p, s)
    BY <1>0, <1>4, EngagementKinds
  <2>2. MoneyInv' /\ UNCHANGED pool
    BY <2>1, EngagementKeepsMoney
  <2> QED BY <1>0, <2>2, PoolStays
<1>5. CASE CapacityNext(a, t)
  <2>1. MoneyInv' /\ UNCHANGED pool
    BY <1>5, CapBuyKeepsMoney, CapPledgeKeepsMoney, CapProofKeepsMoney, CapClaimKeepsMoney
       DEF CapacityNext
  <2> QED BY <1>0, <2>1, PoolStays
<1>6. CASE EpochNext(a, t)
  <2>1. MoneyInv' /\ UNCHANGED pool
    BY <1>6, RulesSetKeepsMoney, CloseKeepsMoney DEF EpochNext
  <2> QED BY <1>0, <2>1, PoolStays
<1> QED BY <1>1, <1>2, <1>3, <1>4, <1>5, <1>6 DEF Act

LEMMA MoneyInvNext ==
  MoneyInv /\ PostInv /\ landed \in [Acts -> Nat] /\ [Next]_vars => MoneyInv' /\ PoolHeld
<1> SUFFICES ASSUME MoneyInv, PostInv, landed \in [Acts -> Nat], [Next]_vars
             PROVE  MoneyInv' /\ PoolHeld
  OBVIOUS
<1>1. CASE Next
  BY <1>1, ActKeepsMoney DEF Next
<1>2. CASE UNCHANGED vars
  <2>1. UNCHANGED <<joined, accounts, burns, pool, supply, treasury, pot, bonds, providers, posts,
                    escrow, credit, proofs, epoch, history>>
    BY <1>2 DEF vars, moneyVars, postVars, epochVars
  <2>2. RowsOK' /\ PoolOK' /\ SupplyOK' /\ BurnsOK' /\ NodesOK' /\ WallOK' /\ RatesOK'
    BY <2>1 DEF MoneyInv, RowsOK, PoolOK, SupplyOK, BurnsOK, NodesOK, WallOK, RatesOK
  <2>3. Books'
    BY <2>1 DEF MoneyInv, Books, PtpConserved, PotIsTheEscrows, SatConserved, PtpHeld, SatHeld,
       CreditOwed, Escrowed, BondsPaid, SatBurned, Held
  <2>4. PoolHeld
    BY <2>1, PoolStays DEF MoneyInv
  <2> QED BY <2>2, <2>3, <2>4 DEF MoneyInv
<1> QED BY <1>1, <1>2

(* The two variables no sum and no table reads.                            *)
QuietInv == handles \in [Names -> Addr \cup {NoAddr}] /\ lastAt \in Nat

(* An act that lands leaves its stamp, and a handle at most to its author. *)
LEMMA ActIsStamped ==
  ASSUME NEW a \in Addr, NEW t \in Stamps, Act(a, t)
  PROVE  lastAt' = t /\ (handles' = handles \/ \E h \in Names : handles' = [handles EXCEPT ![h] = a])
<1>1. CASE IdentityNext(a, t)
  BY <1>1 DEF IdentityNext, Register, BurnClaim, LandsQuietly
<1>2. CASE PoolNext(a, t)
  BY <1>2 DEF PoolNext, SwapBtc, SwapPtp, LiqAdd, LiqRemove, LandsQuietly
<1>3. CASE WallNext(a, t)
  <2>1. ASSUME NEW c, NEW b, NEW pr, NEW d, Post(a, t, c, b, pr, d)
        PROVE  lastAt' = t /\ handles' = handles
    BY <2>1 DEF Post, Lands
  <2>2. ASSUME NEW p, NEW d, Extend(a, t, p, d) PROVE lastAt' = t /\ handles' = handles
    BY <2>2 DEF Extend, LandsQuietly
  <2>3. ASSUME NEW p, Settle(a, t, p) PROVE lastAt' = t /\ handles' = handles
    BY <2>3 DEF Settle, Lands
  <2> QED BY <1>3, <2>1, <2>2, <2>3 DEF WallNext
<1>4. CASE EngagementNext(a, t)
  BY <1>4 DEF EngagementNext, View, Like, Comment, CommitEngagement, Lands
<1>5. CASE CapacityNext(a, t)
  BY <1>5 DEF CapacityNext, CapBuy, CapPledge, CapProof, CapClaim, LandsQuietly
<1>6. CASE EpochNext(a, t)
  BY <1>6 DEF EpochNext, RulesSet, CloseEpoch, LandsQuietly, Lands
<1> QED BY <1>1, <1>2, <1>3, <1>4, <1>5, <1>6 DEF Act

LEMMA QuietInvNext == QuietInv /\ [Next]_vars => QuietInv'
<1> SUFFICES ASSUME QuietInv, [Next]_vars PROVE QuietInv'
  OBVIOUS
<1>1. ASSUME NEW a \in Addr, NEW t \in Stamps, Act(a, t)
      PROVE  lastAt' = t /\ (handles' = handles \/ \E h \in Names : handles' = [handles EXCEPT ![h] = a])
  BY <1>1, ActIsStamped
<1>2. CASE Next
  <2>1. PICK a \in Addr, t \in Stamps : Act(a, t)
    BY <1>2 DEF Next
  <2>2. t \in Nat
    BY BoundsAssumption DEF Pos
  <2>3. lastAt' \in Nat
    BY <1>1, <2>1, <2>2
  <2>4. handles' \in [Names -> Addr \cup {NoAddr}]
    BY <1>1, <2>1 DEF QuietInv
  <2> QED BY <2>3, <2>4 DEF QuietInv
<1>3. CASE UNCHANGED vars
  BY <1>3 DEF vars, QuietInv
<1> QED BY <1>2, <1>3

(* All that is known of the world together.                                *)
WorldInv == MoneyInv /\ PostInv /\ ClockInv /\ PairInv /\ QuietInv

LEMMA WorldInvInit == Init => WorldInv
<1> SUFFICES ASSUME Init PROVE WorldInv
  OBVIOUS
<1>1. QuietInv
  BY DEF Init, QuietInv
<1> QED BY <1>1, MoneyInvInit, PostInvInit, ClockInvInit, PairInvInit DEF WorldInv

LEMMA LandedActs == PairInv => landed \in [Acts -> Nat]
BY DEF PairInv, PairTypeOK, Acts

LEMMA WorldInvNext == WorldInv /\ [Next]_vars => WorldInv' /\ PoolHeld
BY MoneyInvNext, PostInvNext, ClockInvNext, PairInvNext, QuietInvNext, LandedActs DEF WorldInv

LEMMA WorldHolds == Spec => []WorldInv
<1>1. WorldInv /\ [Next]_vars => WorldInv'
  BY WorldInvNext
<1> QED BY <1>1, WorldInvInit, PTL DEF Spec

LEMMA WorldIsTyped == WorldInv => TypeOK
<1> SUFFICES ASSUME WorldInv PROVE TypeOK
  OBVIOUS
<1>1. MoneyTypeOK
  <2>1. pot \in Nat /\ bonds \in Nat
    BY MoneyNums DEF WorldInv
  <2>2. accounts \in [Addr -> Row] /\ joined \subseteq Addr /\ burns \subseteq Txos
        /\ providers \in [Addr -> Provider] /\ supply \in [emitted : Nat, burned : Nat]
        /\ treasury \in Nat /\ handles \in [Names -> Addr \cup {NoAddr}]
    BY DEF WorldInv, MoneyInv, RowsOK, BurnsOK, NodesOK, SupplyOK, QuietInv
  <2>3. pool \in [sat : Pos, ptp : Pos, shares : Pos, locked : Nat]
    BY DEF WorldInv, MoneyInv, PoolOK, Pos
  <2> QED BY <2>1, <2>2, <2>3 DEF MoneyTypeOK, Row, Provider
<1>2. PostsTypeOK
  BY DEF WorldInv, PostInv
<1>3. WallTypeOK
  <2>1. escrow \in [Pids -> EscrowRow]
    BY DEF WorldInv, MoneyInv, WallOK, Sound
  <2>2. credit \in [Pids -> Nat] /\ proofs \in [Pids -> Seq(Proof)]
    BY DEF WorldInv, MoneyInv, WallOK
  <2>3. tally \in [Pids -> Tally] /\ views \in [Addr \X Pids -> Pair]
    BY DEF WorldInv, PairInv, PairTypeOK
  <2> QED BY <2>1, <2>2, <2>3 DEF WallTypeOK, EscrowRow, Proof, Tally, Pair
<1>4. EpochTypeOK
  <2>1. epoch \in [n : Nat, startedAt : Nat, burned : Nat, rate : Rate] /\ history \in Seq(Nat)
    BY DEF WorldInv, MoneyInv, RatesOK
  <2>2. landed \in [Addr \X Pids \X Engagement -> Nat]
    BY DEF WorldInv, PairInv, PairTypeOK
  <2>3. rules \in [fromEpoch : Nat, next : Nat] /\ lastAt \in Nat
    BY DEF WorldInv, ClockInv, QuietInv
  <2> QED BY <2>1, <2>2, <2>3 DEF EpochTypeOK, Rate
<1> QED BY <1>1, <1>2, <1>3, <1>4 DEF TypeOK

(* Whatever acts land in whatever order, every coin is somewhere: what was *)
(* emitted and not burned is what the accounts, the pool, the treasury,    *)
(* the pot, the bonds and the credits hold; the pot is exactly what the    *)
(* escrows are owed; no satoshi is made or lost (core/replay.mjs, the      *)
(* money legs of every commit).                                            *)
THEOREM MoneyIsConserved == Spec => []MoneyConserved
<1>1. WorldInv => MoneyConserved
  BY WorldIsTyped DEF WorldInv, MoneyInv, Books, MoneyConserved
<1> QED BY <1>1, WorldHolds, PTL

(* No claim draws a post past the capacity it sold, and the claim of the   *)
(* last unit takes the last of the rent (core/replay.mjs, capClaim).       *)
THEOREM RentIsFullyDrawn == Spec => []RentFullyDrawn
<1>1. WorldInv => RentFullyDrawn
  <2> SUFFICES ASSUME WorldInv PROVE RentFullyDrawn
    OBVIOUS
  <2>1. \A p \in Pids : escrow[p] \in Sound
    BY DEF WorldInv, MoneyInv, WallOK
  <2> QED BY <2>1 DEF RentFullyDrawn, Sound
<1> QED BY <1>1, WorldHolds, PTL

(* No trade, deposit or withdrawal lowers the product of the reserves per  *)
(* share squared, and no other act touches the pool (core/amm.mjs).        *)
THEOREM PoolKeepsItsProduct == Spec => PoolNeverLosesToTraders
<1>1. WorldInv /\ [Next]_vars =>
        [pool'.sat * pool'.ptp * pool.shares * pool.shares
           >= pool.sat * pool.ptp * pool'.shares * pool'.shares]_vars
  BY WorldInvNext DEF PoolHeld
<1> QED BY <1>1, WorldHolds, PTL DEF Spec, PoolNeverLosesToTraders
-----------------------------------------------------------------------------
(* An act on one escrow that sells or pays in leaves what was claimed.     *)
SameClaimed == \A p \in Pids : escrow'[p].claimed = escrow[p].claimed

LEMMA WallKeepsClaimed ==
  ASSUME WorldInv, NEW a \in Addr, NEW t \in Stamps, WallNext(a, t) \/ EngagementNext(a, t)
  PROVE  SameClaimed
<1>1. WallOK /\ RowsOK /\ \A p \in Pids : escrow[p] \in EscrowRow
  <2>1. WallOK /\ RowsOK
    BY DEF WorldInv, MoneyInv
  <2> QED BY <2>1, WallAddsUp
<1>2. DOMAIN escrow = Pids
  BY <1>1 DEF WallOK
<1>3. ASSUME NEW p \in Pids, NEW e, e.claimed = escrow[p].claimed, escrow' = [escrow EXCEPT ![p] = e]
      PROVE  SameClaimed
  BY <1>2, <1>3 DEF SameClaimed
<1>4. ASSUME NEW c \in Cids, NEW bytes \in Inputs.bytes, NEW price \in Inputs.prices,
             NEW d \in Inputs.days, Post(a, t, c, bytes, price, d)
      PROVE  SameClaimed
  <2> DEFINE p == seq + 1
             legs == SplitFee(PriceOf(Params.publishBase, epoch.rate), Params.publish)
             e == [holding |-> Rent(bytes, d), serving |-> legs.capacity,
                   capUnits |-> CapUnitsFor(bytes, d), claimed |-> 0]
  <2>1. escrow' = [escrow EXCEPT ![p] = e]
    BY <1>4 DEF Post
  <2>2. p \in Pids /\ posts[p].state = "none"
    BY <1>4, BoundsAssumption DEF Post, Pids, WorldInv, PostInv, PostsTypeOK, PidsInOrder
  <2>3. escrow[p].claimed = 0
    BY <1>1, <2>2 DEF WallOK, NoEscrow
  <2>4. e.claimed = 0
    OBVIOUS
  <2> HIDE DEF e, p
  <2> QED BY <1>3, <2>1, <2>2, <2>3, <2>4
<1>5. ASSUME NEW p \in Pids, NEW d \in Inputs.days, Extend(a, t, p, d) PROVE SameClaimed
  <2> DEFINE e == [escrow[p] EXCEPT
                     !.capUnits = escrow[p].capUnits + CapUnitsFor(posts[p].bytes, d),
                     !.holding = escrow[p].holding + Rent(posts[p].bytes, d)]
  <2>1. escrow' = [escrow EXCEPT ![p] = e]
    BY <1>1, <1>2, <1>5 DEF Extend, EscrowRow
  <2>2. e.claimed = escrow[p].claimed
    BY <1>1 DEF EscrowRow
  <2> HIDE DEF e
  <2> QED BY <1>3, <2>1, <2>2
<1>6. ASSUME NEW p \in Pids, Settle(a, t, p) PROVE SameClaimed
  <2> DEFINE e == [escrow[p] EXCEPT !.holding = 0, !.serving = 0]
  <2>1. escrow' = [escrow EXCEPT ![p] = e]
    BY <1>1, <1>2, <1>6 DEF Settle, EscrowRow
  <2>2. e.claimed = escrow[p].claimed
    BY <1>1 DEF EscrowRow
  <2> HIDE DEF e
  <2> QED BY <1>3, <2>1, <2>2
<1>7. ASSUME NEW p \in Pids, NEW kind \in Engagement, NEW s \in Int, CommitEngagement(kind, a, t, p, s)
      PROVE  SameClaimed
  <2> DEFINE legs == SplitFee(EngagementFee(p, kind), Params.fee)
             e == [escrow[p] EXCEPT !.serving = escrow[p].serving + legs.capacity]
  <2>1. escrow' = [escrow EXCEPT ![p] = e]
    BY <1>1, <1>2, <1>7 DEF CommitEngagement, EscrowRow
  <2>2. e.claimed = escrow[p].claimed
    BY <1>1 DEF EscrowRow
  <2> HIDE DEF e
  <2> QED BY <1>3, <2>1, <2>2
<1>8. CASE WallNext(a, t)
  BY <1>4, <1>5, <1>6, <1>8 DEF WallNext
<1>9. CASE EngagementNext(a, t)
  BY <1>1, <1>7, <1>9, EngagementKinds
<1> QED BY <1>8, <1>9

FairClaims ==
  \A p \in Pids :
    LET left(e) == e.capUnits - e.claimed
    IN  escrow'[p].claimed # escrow[p].claimed =>
          Held(escrow'[p]) * left(escrow[p]) >= Held(escrow[p]) * left(escrow'[p])

LEMMA ClaimsAreFair == WorldInv /\ [Next]_vars => FairClaims
<1> SUFFICES ASSUME WorldInv, [Next]_vars PROVE FairClaims
  OBVIOUS
<1>1. SameClaimed => FairClaims
  BY DEF SameClaimed, FairClaims
<1>2. UNCHANGED escrow => SameClaimed
  BY DEF SameClaimed
<1>3. ASSUME NEW a \in Addr, NEW t \in Stamps, Act(a, t) PROVE FairClaims
  <2>1. CASE IdentityNext(a, t) \/ PoolNext(a, t) \/ EpochNext(a, t)
    BY <1>1, <1>2, <2>1, ColumnFrame
  <2>2. CASE WallNext(a, t) \/ EngagementNext(a, t)
    BY <1>1, <2>2, WallKeepsClaimed
  <2>3. CASE CapacityNext(a, t)
    <3>1. CASE CapClaim(a, t)
      <4>1. \A p \in Pids : DrawnFrom(escrow[p], escrow'[p])
        BY <3>1, CapClaimKeepsMoney DEF WorldInv
      <4> QED BY <4>1 DEF FairClaims, DrawnFrom, Left
    <3>2. CASE \/ \E ptp \in Inputs.amounts : CapBuy(a, t, ptp)
               \/ \E mb \in Inputs.mbs : CapPledge(a, t, mb)
               \/ \E p \in Pids, s \in Inputs.shards : CapProof(a, t, p, s)
      BY <1>1, <1>2, <3>2, ColumnFrame
    <3> QED BY <2>3, <3>1, <3>2 DEF CapacityNext
  <2> QED BY <1>3, <2>1, <2>2, <2>3 DEF Act
<1>4. CASE Next
  BY <1>3, <1>4 DEF Next
<1>5. CASE UNCHANGED vars
  BY <1>1, <1>2, <1>5 DEF vars, postVars
<1> QED BY <1>4, <1>5

(* Whoever claims, in whatever order and however often, what a post owes   *)
(* per unit still unclaimed does not fall (core/replay.mjs, capClaim).     *)
THEOREM ClaimsDiluteNobody == Spec => NoDilution
<1>1. WorldInv /\ [Next]_vars =>
        [\A p \in Pids :
           LET left(e) == e.capUnits - e.claimed
           IN  escrow'[p].claimed # escrow[p].claimed =>
                 Held(escrow'[p]) * left(escrow[p]) >= Held(escrow[p]) * left(escrow'[p])]_vars
  BY ClaimsAreFair DEF FairClaims
<1> QED BY <1>1, WorldHolds, PTL DEF Spec, NoDilution
-----------------------------------------------------------------------------
(* Only a close turns the epoch.                                           *)
LEMMA EpochTurnsAtClose ==
  ASSUME ClockInv, NEW a \in Addr, NEW t \in Stamps, Act(a, t), epoch'.n # epoch.n
  PROVE  \E oracle \in Inputs.oracles : CloseEpoch(a, t, oracle)
<1>1. ~(IdentityNext(a, t) \/ PoolNext(a, t) \/ WallNext(a, t)
          \/ EngagementNext(a, t) \/ CapacityNext(a, t))
  BY RulesFrame DEF SameEpoch
<1>2. EpochNext(a, t)
  BY <1>1 DEF Act
<1>3. ASSUME NEW from \in Inputs.froms, RulesSet(a, t, from) PROVE FALSE
  <2>1. LandsQuietly(t)
    BY <1>3 DEF RulesSet
  <2> QED BY <2>1, QuietKeepsNumber DEF SameEpoch
<1> QED BY <1>2, <1>3 DEF EpochNext

OwnRebates ==
  epoch'.n # epoch.n =>
    \A a \in Addr : accounts'[a].ptp - accounts[a].ptp <= (Params.kappa * Credited(a)) \div Params.bps

LEMMA RebatesAreOwn == WorldInv /\ [Next]_vars => OwnRebates
<1> SUFFICES ASSUME WorldInv, [Next]_vars, epoch'.n # epoch.n, NEW b \in Addr
             PROVE  accounts'[b].ptp - accounts[b].ptp <= (Params.kappa * Credited(b)) \div Params.bps
  BY DEF OwnRebates
<1>1. Next
  BY DEF vars
<1>2. PICK a \in Addr, t \in Stamps : Act(a, t)
  BY <1>1 DEF Next
<1>3. PICK oracle \in Inputs.oracles : CloseEpoch(a, t, oracle)
  BY <1>2, EpochTurnsAtClose DEF WorldInv
<1>4. landed \in [Acts -> Nat] /\ MoneyInv /\ PostInv
      /\ WallOK /\ RatesOK /\ SupplyOK /\ RowsOK
  BY LandedActs DEF WorldInv, MoneyInv
<1>5. CloseParts(b)
  BY <1>3, <1>4, CloseKeepsMoney
<1>6. ShareOf(b) \in Nat /\ ShareOf(b) <= Rebate(b)
  BY <1>4, MintedIsHanded
<1>7. accounts[b].ptp \in Nat
  BY <1>4, RowsAddUp DEF Row
<1>8. accounts'[b].ptp - accounts[b].ptp <= Rebate(b)
  BY <1>5, <1>6, <1>7 DEF CloseParts
<1> QED BY <1>8 DEF Rebate

(* The close of an epoch hands nobody more than the rebate of the burn     *)
(* that engagement with their own posts caused (core/replay.mjs,           *)
(* closeEpoch; core/rules/v1.mjs).                                         *)
THEOREM RebatesAreOfOwnBurn == Spec => RebateIsOfOwnBurn
<1>1. WorldInv /\ [Next]_vars =>
        [epoch'.n # epoch.n =>
           \A a \in Addr : accounts'[a].ptp - accounts[a].ptp
                             <= (Params.kappa * Credited(a)) \div Params.bps]_vars
  BY RebatesAreOwn DEF OwnRebates
<1> QED BY <1>1, WorldHolds, PTL DEF Spec, RebateIsOfOwnBurn
-----------------------------------------------------------------------------
(* The pledges.  What makes PledgesBonded inductive: what a node proved,   *)
(* summed over the proofs, is the counter the code keeps for it, and the   *)
(* counter is what its bond was charged for.                               *)
MineNow(a, p) == {i \in DOMAIN proofs[p] : proofs[p][i].by = a /\ proofs[p][i].epoch = epoch.n}

CountersAgree == \A a \in Addr : Proven(a) = ProvenInEpoch(a)

CountersBonded ==
  \A a \in Addr :
    ProvenInEpoch(a) * Params.bondPerGb <= providers[a].bondNano * Params.mbPerGb * Params.capCoin

NothingFromTheFuture ==
  /\ \A p \in Pids : \A i \in DOMAIN proofs[p] : proofs[p][i].epoch <= epoch.n
  /\ \A a \in Addr : providers[a].provenEpoch <= epoch.n

BondInv == BondCovers /\ CountersAgree /\ CountersBonded /\ NothingFromTheFuture

LEMMA ProvenParts ==
  ASSUME WallOK, NEW a \in Addr
  PROVE  /\ Proven(a) = SumFunction([p \in Pids |-> UnitsOf(p, MineNow(a, p))])
         /\ \A p \in Pids : /\ UnitsOf(p, MineNow(a, p)) \in Nat
                            /\ MineNow(a, p) \in SUBSET DOMAIN proofs[p]
         /\ Proven(a) \in Nat
<1> DEFINE f == [p \in Pids |-> UnitsOf(p, MineNow(a, p))]
<1>1. \A p \in Pids : UnitsOf(p, MineNow(a, p)) \in Nat /\ MineNow(a, p) \in SUBSET DOMAIN proofs[p]
  <2> SUFFICES ASSUME NEW p \in Pids
               PROVE  UnitsOf(p, MineNow(a, p)) \in Nat
                      /\ MineNow(a, p) \in SUBSET DOMAIN proofs[p]
    OBVIOUS
  <2>1. MineNow(a, p) \in SUBSET DOMAIN proofs[p]
    BY DEF MineNow
  <2> QED BY <2>1, UnitsNat
<1>2. Proven(a) = SumFunction(f)
  BY DEF Proven, MineNow
<1>3. f \in [Pids -> Nat]
  BY <1>1
<1> HIDE DEF f
<1>4. SumFunction(f) \in Nat
  BY <1>3, SumNat, PidsFinite
<1> QED BY <1>1, <1>2, <1>4 DEF f

(* Where no proof's owner, epoch or units change, nor the epoch, the sums  *)
(* stand.                                                                  *)
SameProofs ==
  \A p \in Pids :
    /\ DOMAIN proofs'[p] = DOMAIN proofs[p]
    /\ \A i \in DOMAIN proofs[p] :
         /\ proofs'[p][i].by = proofs[p][i].by
         /\ proofs'[p][i].epoch = proofs[p][i].epoch
         /\ proofs'[p][i].units = proofs[p][i].units

LEMMA ProvenStands ==
  ASSUME SameProofs, epoch'.n = epoch.n, NEW a \in Addr
  PROVE  Proven(a)' = Proven(a)
<1> DEFINE f == [p \in Pids |-> UnitsOf(p, MineNow(a, p))]
           g == [p \in Pids |-> UnitsOf(p, MineNow(a, p))']
<1>1. \A p \in Pids : UnitsOf(p, MineNow(a, p))' = UnitsOf(p, MineNow(a, p))
  <2> SUFFICES ASSUME NEW p \in Pids PROVE UnitsOf(p, MineNow(a, p))' = UnitsOf(p, MineNow(a, p))
    OBVIOUS
  <2>1. MineNow(a, p)' = MineNow(a, p)
    BY DEF SameProofs, MineNow
  <2> DEFINE u == [i \in MineNow(a, p) |-> proofs[p][i].units]
             v == [i \in MineNow(a, p)' |-> proofs'[p][i].units]
  <2>2. u = v
    BY <2>1 DEF SameProofs, MineNow
  <2>3. UnitsOf(p, MineNow(a, p)) = SumFunction(u) /\ UnitsOf(p, MineNow(a, p))' = SumFunction(v)
    BY DEF UnitsOf
  <2> QED BY <2>2, <2>3
<1>2. f = g
  BY <1>1
<1>3. Proven(a) = SumFunction(f) /\ Proven(a)' = SumFunction(g)
  BY DEF Proven, MineNow
<1> QED BY <1>2, <1>3

(* An act that leaves proofs, pledges and epoch alone.                     *)
LEMMA PledgesStay ==
  ASSUME BondInv, SameProofs, epoch'.n = epoch.n, UNCHANGED providers
  PROVE  BondInv'
<1>1. CountersAgree'
  BY ProvenStands DEF BondInv, CountersAgree, ProvenInEpoch
<1>2. BondCovers' /\ CountersBonded'
  BY DEF BondInv, BondCovers, CountersBonded, ProvenInEpoch, RequiredNano
<1>3. NothingFromTheFuture'
  BY DEF BondInv, NothingFromTheFuture, SameProofs
<1> QED BY <1>1, <1>2, <1>3 DEF BondInv

LEMMA RequiredCovers ==
  ASSUME NEW mb \in Nat
  PROVE  RequiredNano(mb) \in Nat /\ mb * Params.bondPerGb <= RequiredNano(mb) * Params.mbPerGb
<1> DEFINE n == mb * Params.bondPerGb
           d == Params.mbPerGb
           c == CeilDiv(n, d)
           r == RequiredNano(mb)
<1>1. n \in Nat /\ d \in Pos /\ d \in Nat /\ Params.accountBond \in Nat
  BY ParamsNat, ProductNat DEF Pos
<1>2. c \in Nat /\ n <= d * c
  BY <1>1, CeilDivNat
<1>3. r = IF c > Params.accountBond THEN c ELSE Params.accountBond
  BY DEF RequiredNano
<1> HIDE DEF n, d, c, r
<1>4. r \in Nat /\ c <= r
  BY <1>1, <1>2, <1>3
<1>5. d * c <= d * r /\ d * c \in Nat /\ d * r \in Nat
  BY <1>1, <1>2, <1>4, ProductMonotonic, ProductNat
<1>6. n <= r * d
  <2>1. r * d = d * r
    BY <1>1, <1>4
  <2> QED BY <1>1, <1>2, <1>5, <2>1
<1> QED BY <1>4, <1>6 DEF n, d, r

LEMMA PledgeKeepsBonds ==
  ASSUME MoneyInv, BondInv, NEW a \in Addr, NEW t \in Stamps, NEW mb \in Inputs.mbs,
         CapPledge(a, t, mb)
  PROVE  BondInv'
<1> DEFINE due  == BondDue(a, mb)
           nano == providers[a].bondNano + due
<1>1. NodesOK /\ RatesOK /\ WallOK
  BY DEF MoneyInv
<1>2. /\ proofs' = proofs /\ LandsQuietly(t)
      /\ providers' = [providers EXCEPT ![a].mb = mb,
                         ![a].bondPtp = @ + PriceOf(due, epoch.rate), ![a].bondNano = @ + due]
  BY DEF CapPledge, postVars
<1>3. epoch'.n = epoch.n
  BY <1>1, <1>2, QuietRates DEF CapPledge, epochVars
<1>4. providers[a] \in Provider /\ DOMAIN providers = Addr /\ mb \in Nat /\ providers[a].bondNano \in Nat
  BY <1>1, InputsAssumption, BondsAddUp DEF NodesOK, Provider, Pos
<1>5. RequiredNano(mb) \in Nat
  BY <1>4, RequiredCovers
<1>6. due \in Nat /\ nano \in Nat /\ nano >= RequiredNano(mb) /\ nano >= providers[a].bondNano
  BY <1>4, <1>5 DEF BondDue
<1>7. /\ providers'[a].mb = mb /\ providers'[a].bondNano = nano
      /\ providers'[a].provenEpoch = providers[a].provenEpoch
      /\ providers'[a].provenInEpoch = providers[a].provenInEpoch
      /\ \A b \in Addr : b # a => providers'[b] = providers[b]
  BY <1>2, <1>4 DEF Provider
<1> HIDE DEF nano
<1>8. \A b \in Addr : ProvenInEpoch(b)' = ProvenInEpoch(b)
                      /\ providers'[b].provenEpoch = providers[b].provenEpoch
  BY <1>3, <1>7 DEF ProvenInEpoch
<1>9. CountersAgree'
  <2>1. SameProofs
    BY <1>2 DEF SameProofs
  <2> QED BY <1>3, <1>8, <2>1, ProvenStands DEF BondInv, CountersAgree
<1>10. BondCovers'
  <2>1. \A b \in Addr : providers'[b].mb > 0 => providers'[b].bondNano >= RequiredNano(providers'[b].mb)
    BY <1>6, <1>7 DEF BondInv, BondCovers
  <2> QED BY <2>1 DEF BondCovers, RequiredNano
<1>11. CountersBonded'
  <2> SUFFICES ASSUME NEW b \in Addr
               PROVE  ProvenInEpoch(b) * Params.bondPerGb
                        <= providers'[b].bondNano * Params.mbPerGb * Params.capCoin
    BY <1>8 DEF CountersBonded
  <2>1. ProvenInEpoch(b) * Params.bondPerGb
          <= providers[b].bondNano * Params.mbPerGb * Params.capCoin
    BY DEF BondInv, CountersBonded
  <2>2. CASE b # a
    BY <1>7, <2>1, <2>2
  <2>3. CASE b = a
    <3> DEFINE o == providers[a].bondNano
               g == Params.mbPerGb
               k == Params.capCoin
               q == ProvenInEpoch(a) * Params.bondPerGb
    <3>1. o \in Nat /\ nano \in Nat /\ o <= nano /\ g \in Nat /\ k \in Nat /\ q <= o * g * k
      BY <1>4, <1>6, <2>1, <2>3, ParamsNat DEF Pos
    <3>2. q \in Nat
      BY <1>4, ParamsNat, ProductNat DEF ProvenInEpoch, Provider, Pos
    <3> HIDE DEF o, g, k, q
    <3>3. o * g <= nano * g /\ o * g \in Nat /\ nano * g \in Nat
      BY <3>1, ProductMonotonic, ProductNat
    <3>4. o * g * k <= nano * g * k /\ o * g * k \in Nat /\ nano * g * k \in Nat
      BY <3>1, <3>3, ProductMonotonic, ProductNat
    <3>5. q <= nano * g * k
      BY <3>1, <3>2, <3>4
    <3> QED BY <1>7, <2>3, <3>5 DEF q, g, k
  <2> QED BY <2>2, <2>3
<1>12. NothingFromTheFuture'
  BY <1>2, <1>3, <1>8 DEF BondInv, NothingFromTheFuture
<1> QED BY <1>9, <1>10, <1>11, <1>12 DEF BondInv
-----------------------------------------------------------------------------
(* One accepted proof: one more line of the post, the same units more on   *)
(* the counter.                                                            *)
ProofLine(a, p, s) ==
  [by |-> a, shard |-> s, epoch |-> epoch.n, units |-> ProofUnits(posts[p].bytes, s),
   claimed |-> FALSE]

ProofCounted(a, p, s) ==
  LET units == ProofUnits(posts[p].bytes, s)
  IN  /\ units \in Nat /\ epoch'.n = epoch.n /\ epoch.n \in Nat
      /\ DOMAIN proofs' = Pids /\ proofs[p] \in Seq(Proof)
      /\ proofs'[p] = Append(proofs[p], ProofLine(a, p, s))
      /\ \A q \in Pids : q # p => proofs'[q] = proofs[q]
      /\ providers'[a].provenEpoch = epoch.n
      /\ providers'[a].provenInEpoch = ProvenInEpoch(a) + units
      /\ providers'[a].mb = providers[a].mb /\ providers'[a].bondNano = providers[a].bondNano
      /\ \A b \in Addr : b # a => providers'[b] = providers[b]
      /\ ProvenInEpoch(a) + units <= providers[a].mb * Params.capCoin
      /\ providers[a].mb > 0 /\ providers[a] \in Provider

LEMMA CapProofCounts ==
  ASSUME MoneyInv, NEW a \in Addr, NEW t \in Stamps, NEW p \in Pids, NEW s \in Inputs.shards,
         CapProof(a, t, p, s)
  PROVE  ProofCounted(a, p, s)
<1>1. WallOK /\ NodesOK /\ RatesOK
  BY DEF MoneyInv
<1>2. ProofUnits(posts[p].bytes, s) \in Nat
  BY CapProofAdds DEF ProofAdded
<1>3. /\ proofs' = [proofs EXCEPT ![p] = Append(@, ProofLine(a, p, s))]
      /\ providers' = [providers EXCEPT ![a].provenEpoch = epoch.n,
                         ![a].provenInEpoch = ProvenInEpoch(a) + ProofUnits(posts[p].bytes, s)]
      /\ LandsQuietly(t) /\ history' = history /\ providers[a].mb > 0
      /\ ProvenInEpoch(a) + ProofUnits(posts[p].bytes, s) <= providers[a].mb * Params.capCoin
  BY DEF CapProof, ProofLine, epochVars
<1>4. epoch'.n = epoch.n /\ epoch.n \in Nat
  BY <1>1, <1>3, QuietRates DEF RatesOK
<1>5. proofs \in [Pids -> Seq(Proof)] /\ providers[a] \in Provider /\ DOMAIN providers = Addr
  BY <1>1 DEF WallOK, NodesOK
<1> DEFINE more == ProvenInEpoch(a) + ProofUnits(posts[p].bytes, s)
           n    == epoch.n
           line == ProofLine(a, p, s)
<1>6. /\ proofs' = [proofs EXCEPT ![p] = Append(@, line)]
      /\ providers' = [providers EXCEPT ![a].provenEpoch = n, ![a].provenInEpoch = more]
  BY <1>3
<1> HIDE DEF more, n, line
<1>7. /\ providers'[a].provenEpoch = n /\ providers'[a].provenInEpoch = more
      /\ providers'[a].mb = providers[a].mb /\ providers'[a].bondNano = providers[a].bondNano
      /\ \A b \in Addr : b # a => providers'[b] = providers[b]
  BY <1>5, <1>6 DEF Provider
<1>8. /\ DOMAIN proofs' = Pids /\ proofs'[p] = Append(proofs[p], line)
      /\ \A q \in Pids : q # p => proofs'[q] = proofs[q]
  BY <1>5, <1>6
<1> QED BY <1>2, <1>3, <1>4, <1>5, <1>7, <1>8 DEF ProofCounted, more, n, line

(* What one more line does to the units of its post.                       *)
LEMMA LineAdds ==
  ASSUME WallOK, NEW a \in Addr, NEW p \in Pids, NEW s, ProofCounted(a, p, s), NEW b \in Addr
  PROVE  UnitsOf(p, MineNow(b, p))'
           = UnitsOf(p, MineNow(b, p)) + IF b = a THEN ProofUnits(posts[p].bytes, s) ELSE 0
<1> DEFINE line == ProofLine(a, p, s)
           k == Len(proofs[p]) + 1
           I == MineNow(b, p)
           J == MineNow(b, p)'
           f == [i \in I |-> proofs[p][i].units]
           g == [i \in J |-> proofs'[p][i].units]
           u == ProofUnits(posts[p].bytes, s)
<1>1. /\ proofs[p] \in Seq(Proof) /\ proofs'[p] = Append(proofs[p], line) /\ epoch'.n = epoch.n
      /\ line.by = a /\ line.epoch = epoch.n /\ line.units = u /\ u \in Nat
  BY DEF ProofCounted, ProofLine
<1> HIDE DEF line, u
<1>2. /\ k \in Nat /\ DOMAIN proofs[p] = 1 .. k - 1 /\ DOMAIN proofs'[p] = 1 .. k
      /\ \A i \in 1 .. k - 1 : proofs'[p][i] = proofs[p][i] /\ proofs[p][i] \in Proof
      /\ proofs'[p][k] = line
  BY <1>1
<1>3. I = {i \in 1 .. k - 1 : proofs[p][i].by = b /\ proofs[p][i].epoch = epoch.n}
  BY <1>2 DEF MineNow
<1>4. J = {i \in 1 .. k : proofs'[p][i].by = b /\ proofs'[p][i].epoch = epoch.n}
  BY <1>1, <1>2 DEF MineNow
<1>5. UnitsOf(p, MineNow(b, p)) = SumFunction(f) /\ UnitsOf(p, MineNow(b, p))' = SumFunction(g)
  BY DEF UnitsOf
<1>6. IsFiniteSet(I) /\ k \notin I /\ UnitsOf(p, I) \in Nat
  <2>1. I \in SUBSET DOMAIN proofs[p]
    BY DEF MineNow
  <2> HIDE DEF I
  <2>2. IsFiniteSet(I) /\ UnitsOf(p, I) \in Nat
    BY <2>1, UnitsNat
  <2>3. k \notin I
    BY <1>2, <2>1
  <2> QED BY <2>2, <2>3
<1> HIDE DEF k, I, J
<1>7. CASE b = a
  <2>1. J = I \cup {k}
    BY <1>1, <1>2, <1>3, <1>4, <1>7
  <2>2. /\ f \in [I -> Int] /\ g \in [I \cup {k} -> Int]
        /\ (\A i \in I : g[i] = f[i]) /\ g[k] = u
    BY <1>1, <1>2, <1>3, <2>1, SMTT(60) DEF Proof
  <2> HIDE DEF f, g
  <2>3. \A e \in [I -> Int], h \in [I \cup {k} -> Int] :
          (\A i \in I : h[i] = e[i]) => SumFunction(h) = SumFunction(e) + h[k]
    BY ONLY <1>6, SumExtend, Zenon
  <2>4. SumFunction(g) = SumFunction(f) + g[k]
    BY <2>2, <2>3
  <2> QED BY <1>5, <1>7, <2>2, <2>4 DEF u
<1>8. CASE b # a
  <2>1. J = I
    BY <1>1, <1>2, <1>3, <1>4, <1>8
  <2>2. f = g
    BY <1>2, <1>3, <2>1
  <2> HIDE DEF f, g
  <2> QED BY <1>5, <1>6, <1>8, <2>2 DEF I
<1> QED BY <1>7, <1>8

LEMMA ProvenGrows ==
  ASSUME WallOK, WallOK', NEW a \in Addr, NEW p \in Pids, NEW s, ProofCounted(a, p, s), NEW b \in Addr
  PROVE  Proven(b)' = Proven(b) + IF b = a THEN ProofUnits(posts[p].bytes, s) ELSE 0
<1> DEFINE f == [q \in Pids |-> UnitsOf(q, MineNow(b, q))]
           g == [q \in Pids |-> UnitsOf(q, MineNow(b, q))']
           u == IF b = a THEN ProofUnits(posts[p].bytes, s) ELSE 0
<1>1. Proven(b) = SumFunction(f) /\ Proven(b)' = SumFunction(g)
  BY DEF Proven, MineNow
<1>2. f \in [Pids -> Nat] /\ SumFunction(f) \in Nat
  <2>1. f \in [Pids -> Nat]
    BY ProvenParts
  <2> HIDE DEF f
  <2> QED BY <2>1, SumNat, PidsFinite
<1>3. g[p] = f[p] + u
  BY LineAdds
<1>4. \A q \in Pids : q # p => g[q] = f[q]
  <2> SUFFICES ASSUME NEW q \in Pids, q # p PROVE UnitsOf(q, MineNow(b, q))' = UnitsOf(q, MineNow(b, q))
    OBVIOUS
  <2>1. proofs'[q] = proofs[q] /\ epoch'.n = epoch.n
    BY DEF ProofCounted
  <2> QED BY <2>1 DEF UnitsOf, MineNow
<1>5. u \in Nat
  BY DEF ProofCounted
<1>6. f \in [Pids -> Int] /\ g \in [Pids -> Int]
  <2>1. \A q \in Pids : f[q] \in Nat
    BY <1>2
  <2>2. \A q \in Pids : g[q] \in Int
    <3> HIDE DEF f, g, u
    <3> QED BY <1>3, <1>4, <1>5, <2>1
  <2> QED BY <2>1, <2>2
<1> HIDE DEF f, g, u
<1>7. SumFunction(g) = SumFunction(f) - f[p] + g[p]
  BY ONLY <1>4, <1>6, PidsFinite, p \in Pids, SumUpdate
<1>8. SumFunction(g) = SumFunction(f) + u
  <2>1. f[p] \in Nat
    BY <1>2
  <2> QED BY <1>2, <1>3, <1>5, <1>7, <2>1
<1> QED BY <1>1, <1>8 DEF u

LEMMA ProofIsBonded ==
  ASSUME MoneyInv, BondInv, NEW a \in Addr, NEW p \in Pids, NEW s, ProofCounted(a, p, s)
  PROVE  (ProvenInEpoch(a) + ProofUnits(posts[p].bytes, s)) * Params.bondPerGb
           <= providers[a].bondNano * Params.mbPerGb * Params.capCoin
<1> DEFINE m == providers[a].mb
           o == providers[a].bondNano
           c == Params.bondPerGb
           g == Params.mbPerGb
           k == Params.capCoin
           r == RequiredNano(m)
           x == ProvenInEpoch(a) + ProofUnits(posts[p].bytes, s)
<1>1. m \in Nat /\ o \in Nat /\ x \in Nat /\ x <= m * k /\ m > 0
  BY DEF ProofCounted, Provider, ProvenInEpoch
<1>2. c \in Nat /\ g \in Nat /\ k \in Nat
  BY ParamsNat DEF Pos
<1>3. r \in Nat /\ m * c <= r * g /\ r <= o
  BY <1>1, RequiredCovers DEF BondInv, BondCovers
<1> HIDE DEF m, o, c, g, k, r, x
<1>4. x * c <= m * k * c /\ x * c \in Nat /\ m * k \in Nat /\ m * k * c \in Nat
  BY <1>1, <1>2, ProductMonotonic, ProductNat
<1>5. m * k * c = m * c * k /\ m * c \in Nat /\ r * g \in Nat
  BY <1>1, <1>2, <1>3, ProductNat
<1>6. m * c * k <= r * g * k /\ r * g * k \in Nat
  BY <1>2, <1>3, <1>5, ProductMonotonic, ProductNat
<1>7. r * g <= o * g /\ o * g \in Nat
  BY <1>1, <1>2, <1>3, ProductMonotonic, ProductNat
<1>8. r * g * k <= o * g * k /\ o * g * k \in Nat
  BY <1>2, <1>5, <1>7, ProductMonotonic, ProductNat
<1>9. x * c <= o * g * k
  BY <1>4, <1>5, <1>6, <1>8
<1> QED BY <1>9 DEF x, c, o, g, k

LEMMA CapProofKeepsBonds ==
  ASSUME MoneyInv, BondInv, NEW a \in Addr, NEW t \in Stamps, NEW p \in Pids,
         NEW s \in Inputs.shards, CapProof(a, t, p, s)
  PROVE  BondInv'
<1> DEFINE u == ProofUnits(posts[p].bytes, s)
           n == epoch.n
<1>1. WallOK /\ WallOK' /\ MoneyInv'
  BY CapProofKeepsMoney DEF MoneyInv
<1>2. ProofCounted(a, p, s)
  BY CapProofCounts
<1>3. /\ u \in Nat /\ n \in Nat /\ epoch'.n = n
      /\ providers'[a].provenEpoch = n /\ providers'[a].provenInEpoch = ProvenInEpoch(a) + u
      /\ providers'[a].mb = providers[a].mb /\ providers'[a].bondNano = providers[a].bondNano
      /\ \A b \in Addr : b # a => providers'[b] = providers[b]
  BY <1>2 DEF ProofCounted
<1>4. ProvenInEpoch(a)' = ProvenInEpoch(a) + u
      /\ \A b \in Addr : b # a => ProvenInEpoch(b)' = ProvenInEpoch(b)
  BY <1>3 DEF ProvenInEpoch
<1>5. CountersAgree'
  <2> SUFFICES ASSUME NEW b \in Addr PROVE Proven(b)' = ProvenInEpoch(b)'
    BY DEF CountersAgree
  <2>1. Proven(b)' = Proven(b) + IF b = a THEN u ELSE 0
    BY <1>1, <1>2, ProvenGrows
  <2>2. Proven(b) = ProvenInEpoch(b) /\ Proven(b) \in Nat
    BY <1>1, ProvenParts DEF BondInv, CountersAgree
  <2> QED BY <1>3, <1>4, <2>1, <2>2
<1>6. BondCovers'
  <2>1. \A b \in Addr : providers'[b].mb = providers[b].mb /\ providers'[b].bondNano = providers[b].bondNano
    BY <1>3
  <2> QED BY <2>1 DEF BondInv, BondCovers, RequiredNano
<1>7. CountersBonded'
  <2> SUFFICES ASSUME NEW b \in Addr
               PROVE  ProvenInEpoch(b)' * Params.bondPerGb
                        <= providers'[b].bondNano * Params.mbPerGb * Params.capCoin
    BY DEF CountersBonded
  <2>1. CASE b = a
    BY <1>2, <1>3, <1>4, <2>1, ProofIsBonded
  <2>2. CASE b # a
    <3>1. ProvenInEpoch(b) * Params.bondPerGb
            <= providers[b].bondNano * Params.mbPerGb * Params.capCoin
      BY DEF BondInv, CountersBonded
    <3> QED BY <1>3, <1>4, <2>2, <3>1
  <2> QED BY <2>1, <2>2
<1>8. NothingFromTheFuture'
  <2>1. \A q \in Pids : \A i \in DOMAIN proofs'[q] : proofs'[q][i].epoch <= n
    <3> SUFFICES ASSUME NEW q \in Pids, NEW i \in DOMAIN proofs'[q] PROVE proofs'[q][i].epoch <= n
      OBVIOUS
    <3>1. CASE q # p
      BY <1>2, <3>1 DEF ProofCounted, BondInv, NothingFromTheFuture
    <3>2. CASE q = p
      <4> DEFINE line == ProofLine(a, p, s)
      <4>1. proofs[p] \in Seq(Proof) /\ proofs'[p] = Append(proofs[p], line) /\ line.epoch = n
        BY <1>2 DEF ProofCounted, ProofLine
      <4>2. \A j \in DOMAIN proofs[p] : proofs[p][j].epoch <= n
        BY DEF BondInv, NothingFromTheFuture
      <4> HIDE DEF line
      <4>3. i \in 1 .. Len(proofs[p]) + 1
        BY <3>2, <4>1
      <4>4. CASE i = Len(proofs[p]) + 1
        BY <1>3, <3>2, <4>1, <4>4
      <4>5. CASE i \in 1 .. Len(proofs[p])
        BY <3>2, <4>1, <4>2, <4>5
      <4> QED BY <4>1, <4>3, <4>4, <4>5
    <3> QED BY <3>1, <3>2
  <2>2. \A b \in Addr : providers'[b].provenEpoch <= n
    <3>1. \A b \in Addr : providers[b].provenEpoch <= n
      BY DEF BondInv, NothingFromTheFuture
    <3> QED BY <1>3, <3>1
  <2> QED BY <1>3, <2>1, <2>2 DEF NothingFromTheFuture
<1> QED BY <1>5, <1>6, <1>7, <1>8 DEF BondInv
-----------------------------------------------------------------------------
LEMMA ClaimKeepsBonds ==
  ASSUME MoneyInv, ClockInv, BondInv, NEW a \in Addr, NEW t \in Stamps, CapClaim(a, t)
  PROVE  BondInv'
<1>1. \A p \in Pids : proofs'[p] = ClaimedSeq(a, p)
  BY CapClaimKeepsMoney
<1>2. WallOK
  BY DEF MoneyInv
<1>3. SameProofs
  BY <1>1, <1>2, ClaimMarks DEF SameProofs
<1>4. UNCHANGED providers /\ LandsQuietly(t)
  BY DEF CapClaim
<1>5. epoch'.n = epoch.n
  BY <1>4, QuietKeepsNumber DEF SameEpoch
<1> QED BY <1>3, <1>4, <1>5, PledgesStay

(* With a new epoch every counter starts from nothing, and so does the sum *)
(* over the proofs: none of them is of the new epoch.                      *)
LEMMA CloseKeepsBonds ==
  ASSUME WorldInv, BondInv, NEW a \in Addr, NEW t \in Stamps, NEW oracle \in Inputs.oracles,
         CloseEpoch(a, t, oracle)
  PROVE  BondInv'
<1> DEFINE n == epoch.n
<1>1. NodesOK /\ WallOK /\ RatesOK
  BY DEF WorldInv, MoneyInv
<1>2. UNCHANGED <<providers, proofs>> /\ epoch' = NextEpoch(t, SealedEur(oracle, epoch.rate.eur))
  BY DEF CloseEpoch, postVars
<1>3. n \in Nat /\ epoch'.n = n + 1
  BY <1>1, <1>2 DEF RatesOK, NextEpoch
<1>4. \A b \in Addr : providers[b] \in Provider
  BY <1>1, BondsAddUp
<1>5. \A b \in Addr : ProvenInEpoch(b)' = 0
  <2>1. \A b \in Addr : providers[b].provenEpoch <= n /\ providers[b].provenEpoch \in Nat
    BY <1>4 DEF BondInv, NothingFromTheFuture, Provider
  <2>2. \A b \in Addr : providers'[b].provenEpoch # epoch'.n
    <3> HIDE DEF n
    <3> QED BY <1>2, <1>3, <2>1
  <2> QED BY <2>2 DEF ProvenInEpoch
<1>6. CountersAgree'
  <2> SUFFICES ASSUME NEW b \in Addr PROVE Proven(b)' = 0
    BY <1>5 DEF CountersAgree
  <2> DEFINE g == [p \in Pids |-> UnitsOf(p, MineNow(b, p))']
  <2>1. ASSUME NEW p \in Pids PROVE UnitsOf(p, MineNow(b, p))' = 0
    <3>1. \A i \in DOMAIN proofs[p] : proofs[p][i].epoch <= n
      BY DEF BondInv, NothingFromTheFuture
    <3>2. proofs[p] \in Seq(Proof)
      BY <1>1 DEF WallOK
    <3>3. \A i \in DOMAIN proofs[p] : proofs[p][i].epoch \in Nat
      <4>1. \A i \in DOMAIN proofs[p] : proofs[p][i] \in Proof
        BY <3>2
      <4> QED BY <4>1 DEF Proof
    <3>4. MineNow(b, p)' = {}
      <4> HIDE DEF n
      <4> QED BY <1>2, <1>3, <3>1, <3>3 DEF MineNow
    <3> DEFINE e == [i \in MineNow(b, p)' |-> proofs'[p][i].units]
               I == MineNow(b, p)'
    <3>5. UnitsOf(p, MineNow(b, p))' = SumFunction(e)
      BY DEF UnitsOf
    <3>6. e \in [I -> Int] /\ I = {} /\ IsFiniteSet(I)
      BY <3>4, FS_EmptySet
    <3> HIDE DEF e, I
    <3>7. SumFunction(e) = 0
      BY <3>6, SumType
    <3> QED BY <3>5, <3>7
  <2>2. Proven(b)' = SumFunction(g)
    BY DEF Proven, MineNow
  <2>3. g \in [Pids -> Int] /\ \A p \in Pids : g[p] = 0
    BY <2>1
  <2> HIDE DEF g
  <2>4. SumFunction(g) = 0
    BY <2>3, PidsFinite, SumZero
  <2> QED BY <2>2, <2>4
<1>7. CountersBonded'
  <2> SUFFICES ASSUME NEW b \in Addr
               PROVE  0 * Params.bondPerGb <= providers'[b].bondNano * Params.mbPerGb * Params.capCoin
    BY <1>5 DEF CountersBonded
  <2>1. providers[b].bondNano \in Nat
    BY <1>4 DEF Provider
  <2>2. Params.bondPerGb \in Nat /\ Params.mbPerGb \in Nat /\ Params.capCoin \in Nat
    BY ParamsNat DEF Pos
  <2>3. providers[b].bondNano * Params.mbPerGb * Params.capCoin \in Nat
    BY <2>1, <2>2, ProductNat
  <2>4. 0 * Params.bondPerGb = 0
    BY <2>2
  <2> QED BY <1>2, <2>3, <2>4
<1>8. BondCovers'
  BY <1>2 DEF BondInv, BondCovers, RequiredNano
<1>9. NothingFromTheFuture'
  <2>1. \A p \in Pids : \A i \in DOMAIN proofs[p] : proofs[p][i].epoch <= n /\ proofs[p][i].epoch \in Nat
    <3>1. \A p \in Pids : proofs[p] \in Seq(Proof)
      BY <1>1 DEF WallOK
    <3>2. \A p \in Pids : \A i \in DOMAIN proofs[p] : proofs[p][i] \in Proof
      BY <3>1
    <3> QED BY <3>2 DEF BondInv, NothingFromTheFuture, Proof
  <2>2. \A b \in Addr : providers[b].provenEpoch <= n /\ providers[b].provenEpoch \in Nat
    BY <1>4 DEF BondInv, NothingFromTheFuture, Provider
  <2> HIDE DEF n
  <2>3. (\A p \in Pids : \A i \in DOMAIN proofs[p] : proofs[p][i].epoch <= n + 1)
        /\ \A b \in Addr : providers[b].provenEpoch <= n + 1
    BY <1>3, <2>1, <2>2
  <2> QED BY <1>2, <1>3, <2>3 DEF NothingFromTheFuture
<1> QED BY <1>6, <1>7, <1>8, <1>9 DEF BondInv

(* Only proofs and claims write the proofs, only proofs and pledges the    *)
(* nodes.                                                                  *)
LEMMA PledgeFrame ==
  ASSUME NEW a \in Addr, NEW t \in Stamps,
         \/ IdentityNext(a, t) \/ PoolNext(a, t) \/ WallNext(a, t) \/ EngagementNext(a, t)
         \/ \E ptp \in Inputs.amounts : CapBuy(a, t, ptp)
         \/ \E from \in Inputs.froms : RulesSet(a, t, from)
  PROVE  UNCHANGED <<proofs, providers>>
<1>1. CASE IdentityNext(a, t) \/ PoolNext(a, t)
  BY <1>1 DEF IdentityNext, PoolNext, Register, BurnClaim, SwapBtc, SwapPtp, LiqAdd, LiqRemove, postVars
<1>2. CASE WallNext(a, t)
  <2>1. ASSUME NEW c, NEW b, NEW pr, NEW d, Post(a, t, c, b, pr, d)
        PROVE  UNCHANGED <<proofs, providers>>
    BY <2>1 DEF Post
  <2>2. ASSUME NEW p, NEW d, Extend(a, t, p, d) PROVE UNCHANGED <<proofs, providers>>
    BY <2>2 DEF Extend
  <2>3. ASSUME NEW p, Settle(a, t, p) PROVE UNCHANGED <<proofs, providers>>
    BY <2>3 DEF Settle
  <2> QED BY <1>2, <2>1, <2>2, <2>3 DEF WallNext
<1>3. CASE EngagementNext(a, t)
  BY <1>3 DEF EngagementNext, View, Like, Comment, CommitEngagement
<1>4. CASE \/ \E ptp \in Inputs.amounts : CapBuy(a, t, ptp)
           \/ \E from \in Inputs.froms : RulesSet(a, t, from)
  BY <1>4 DEF CapBuy, RulesSet, postVars
<1> QED BY <1>1, <1>2, <1>3, <1>4

LEMMA ActKeepsBonds ==
  ASSUME WorldInv, BondInv, NEW a \in Addr, NEW t \in Stamps, Act(a, t)
  PROVE  BondInv'
<1>1. MoneyInv /\ ClockInv
  BY DEF WorldInv
<1>2. ASSUME UNCHANGED <<proofs, providers>>, epoch'.n = epoch.n PROVE BondInv'
  <2>1. SameProofs
    BY <1>2 DEF SameProofs
  <2> QED BY <1>2, <2>1, PledgesStay
<1>3. CASE IdentityNext(a, t) \/ PoolNext(a, t) \/ WallNext(a, t) \/ EngagementNext(a, t)
  <2>1. UNCHANGED <<proofs, providers>> /\ epoch'.n = epoch.n
    BY <1>1, <1>3, PledgeFrame, RulesFrame DEF SameEpoch
  <2> QED BY <1>2, <2>1
<1>4. CASE CapacityNext(a, t)
  <2>1. CASE \E ptp \in Inputs.amounts : CapBuy(a, t, ptp)
    <3>1. UNCHANGED <<proofs, providers>> /\ epoch'.n = epoch.n
      BY <1>1, <1>4, <2>1, PledgeFrame, RulesFrame DEF SameEpoch
    <3> QED BY <1>2, <3>1
  <2>2. CASE \E mb \in Inputs.mbs : CapPledge(a, t, mb)
    BY <1>1, <2>2, PledgeKeepsBonds
  <2>3. CASE \E p \in Pids, s \in Inputs.shards : CapProof(a, t, p, s)
    BY <1>1, <2>3, CapProofKeepsBonds
  <2>4. CASE CapClaim(a, t)
    BY <1>1, <2>4, ClaimKeepsBonds
  <2> QED BY <1>4, <2>1, <2>2, <2>3, <2>4 DEF CapacityNext
<1>5. CASE \E from \in Inputs.froms : RulesSet(a, t, from)
  <2>1. LandsQuietly(t) /\ UNCHANGED <<proofs, providers>>
    BY <1>5, PledgeFrame DEF RulesSet
  <2>2. epoch'.n = epoch.n
    BY <1>1, <2>1, QuietKeepsNumber DEF SameEpoch
  <2> QED BY <1>2, <2>1, <2>2
<1>6. CASE \E oracle \in Inputs.oracles : CloseEpoch(a, t, oracle)
  BY <1>6, CloseKeepsBonds
<1> QED BY <1>3, <1>4, <1>5, <1>6 DEF Act, EpochNext

LEMMA BondInvNext == WorldInv /\ BondInv /\ [Next]_vars => BondInv'
<1> SUFFICES ASSUME WorldInv, BondInv, [Next]_vars PROVE BondInv'
  OBVIOUS
<1>1. CASE Next
  BY <1>1, ActKeepsBonds DEF Next
<1>2. CASE UNCHANGED vars
  <2>1. UNCHANGED <<proofs, providers, epoch>>
    BY <1>2 DEF vars, postVars
  <2>2. SameProofs /\ epoch'.n = epoch.n
    BY <2>1 DEF SameProofs
  <2> QED BY <2>1, <2>2, PledgesStay
<1> QED BY <1>1, <1>2

LEMMA BondInvInit == Init => BondInv
<1> SUFFICES ASSUME Init PROVE BondInv
  OBVIOUS
<1>1. epoch.n = 0 /\ proofs = [p \in Pids |-> <<>>] /\ providers = [a \in Addr |-> NoProvider]
  BY DEF Init
<1>2. \A a \in Addr : ProvenInEpoch(a) = 0 /\ providers[a].mb = 0 /\ providers[a].bondNano = 0
                      /\ providers[a].provenEpoch = 0
  BY <1>1 DEF ProvenInEpoch, NoProvider
<1>3. CountersAgree
  <2> SUFFICES ASSUME NEW b \in Addr PROVE Proven(b) = 0
    BY <1>2 DEF CountersAgree
  <2> DEFINE g == [p \in Pids |-> UnitsOf(p, MineNow(b, p))]
  <2>1. ASSUME NEW p \in Pids PROVE UnitsOf(p, MineNow(b, p)) = 0
    <3> DEFINE I == MineNow(b, p)
               e == [i \in I |-> proofs[p][i].units]
    <3>1. I = {}
      BY <1>1 DEF MineNow
    <3>2. UnitsOf(p, MineNow(b, p)) = SumFunction(e)
      BY DEF UnitsOf
    <3>3. e \in [I -> Int] /\ I = {} /\ IsFiniteSet(I)
      BY <3>1, FS_EmptySet
    <3> HIDE DEF e, I
    <3>4. SumFunction(e) = 0
      BY <3>3, SumType
    <3> QED BY <3>2, <3>4
  <2>2. Proven(b) = SumFunction(g)
    BY DEF Proven, MineNow
  <2>3. g \in [Pids -> Int] /\ \A p \in Pids : g[p] = 0
    BY <2>1
  <2> HIDE DEF g
  <2> QED BY <2>2, <2>3, PidsFinite, SumZero
<1>4. CountersBonded
  <2>1. Params.bondPerGb \in Nat /\ Params.mbPerGb \in Nat /\ Params.capCoin \in Nat
    BY ParamsNat DEF Pos
  <2>2. 0 * Params.bondPerGb <= 0 * Params.mbPerGb * Params.capCoin
    BY <2>1
  <2> QED BY <1>2, <2>2 DEF CountersBonded
<1>5. BondCovers /\ NothingFromTheFuture
  BY <1>1, <1>2 DEF BondCovers, NothingFromTheFuture
<1> QED BY <1>3, <1>4, <1>5 DEF BondInv

(* However a node grows, shrinks and grows its pledge, its bond covers the *)
(* size it has, and what it proves in an epoch, summed over the proofs of  *)
(* every post, is no more than the bond was charged for (core/replay.mjs,  *)
(* capPledge, capProof).                                                   *)
THEOREM PledgesAreBonded == Spec => []PledgesBonded
<1>1. Init => WorldInv /\ BondInv
  BY WorldInvInit, BondInvInit
<1>2. WorldInv /\ BondInv /\ [Next]_vars => (WorldInv /\ BondInv)'
  BY WorldInvNext, BondInvNext
<1>3. BondInv => PledgesBonded
  BY DEF BondInv, CountersAgree, CountersBonded, PledgesBonded, ProvenIsBonded
<1> QED BY <1>1, <1>2, <1>3, PTL DEF Spec

(* Both ends of capacity: no post is drawn past what it sold, nor a wei    *)
(* left behind, and no node proves past its bond (core/replay.mjs          *)
(* capClaim, capProof).                                                    *)
THEOREM CapacityIsHeld == Spec => []CapacityHolds
<1>1. RentFullyDrawn /\ PledgesBonded => CapacityHolds
  BY DEF CapacityHolds
<1> QED BY <1>1, RentIsFullyDrawn, PledgesAreBonded, PTL
-----------------------------------------------------------------------------
(* The rails of the supply.  What the log of the epoch says was burned by  *)
(* engagement, priced as it was when it landed: neither the price of a     *)
(* post nor the sealed rate moves before the close.                        *)
Worth(x) == landed[x] * EngagementBurn(x[2], x[3])

LogBurn == SumFunction([x \in Acts |-> Worth(x)])

RailInv ==
  /\ NetSupplyNeverAboveGenesis
  /\ EmittedWithinMaxSupply
  /\ LogBurn <= epoch.burned
  /\ \A x \in Acts : posts[x[2]].state = "none" => landed[x] = 0

LEMMA ActsParts == \A x \in Acts : x \in Addr \X Pids \X Engagement /\ x[1] \in Addr
                                   /\ x[2] \in Pids /\ x[3] \in Engagement /\ x = <<x[1], x[2], x[3]>>
BY DEF Acts

LEMMA WorthNat ==
  ASSUME WorldInv
  PROVE  /\ \A x \in Acts : Worth(x) \in Nat /\ landed[x] \in Nat
                            /\ EngagementBurn(x[2], x[3]) \in Nat
         /\ [x \in Acts |-> Worth(x)] \in [Acts -> Nat]
         /\ [x \in Acts |-> Worth(x)] \in [Acts -> Int]
         /\ LogBurn \in Nat
<1> DEFINE f == [x \in Acts |-> Worth(x)]
<1>1. WallOK /\ RatesOK /\ PostInv /\ landed \in [Acts -> Nat]
  BY LandedActs DEF WorldInv, MoneyInv
<1>2. \A x \in Acts : landed[x] \in Nat /\ EngagementBurn(x[2], x[3]) \in Nat
  BY <1>1, ActsParts, EngagementSplits DEF EngagementBurn
<1>3. \A x \in Acts : Worth(x) \in Nat
  BY <1>2, ProductNat DEF Worth
<1>4. f \in [Acts -> Nat] /\ f \in [Acts -> Int]
  BY <1>3
<1>5. LogBurn = SumFunction(f)
  BY DEF LogBurn
<1> HIDE DEF f
<1>6. LogBurn \in Nat
  BY <1>4, <1>5, SumNat, ActsFinite
<1> QED BY <1>2, <1>3, <1>4, <1>6 DEF f

(* The same about the world after a step.                                  *)
WorthFine == \A x \in Acts : Worth(x) \in Nat /\ EngagementBurn(x[2], x[3]) \in Nat

LEMMA WorthIsFine == WorldInv => WorthFine
BY WorthNat DEF WorthFine

LEMMA WorthStaysFine == WorldInv' => WorthFine'
BY WorthIsFine, PTL

LEMMA WorthNatAfter ==
  ASSUME WorldInv'
  PROVE  \A x \in Acts : Worth(x)' \in Nat /\ EngagementBurn(x[2], x[3])' \in Nat
<1>1. WorthFine'
  BY WorthStaysFine
<1> QED BY <1>1 DEF WorthFine, Acts

(* No act but the close touches the price of a post that was published.    *)
PricesKept ==
  /\ epoch'.rate = epoch.rate
  /\ \A p \in Pids : posts[p].state # "none" => posts'[p].price = posts[p].price
                                               /\ posts'[p].state # "none"

LEMMA PricedTheSame ==
  ASSUME PricesKept, NEW x \in Acts, posts[x[2]].state # "none"
  PROVE  EngagementBurn(x[2], x[3])' = EngagementBurn(x[2], x[3])
<1>1. x[2] \in Pids
  BY ActsParts
<1>2. posts'[x[2]].price = posts[x[2]].price /\ epoch'.rate = epoch.rate
  BY <1>1 DEF PricesKept
<1> QED BY <1>2 DEF EngagementBurn, EngagementFee

(* An act that logs no engagement leaves the burn of the log; one that     *)
(* logs one adds its burn.                                                 *)
LEMMA LogStands ==
  ASSUME WorldInv, WorldInv', RailInv, PricesKept, landed' = landed
  PROVE  LogBurn' = LogBurn /\ \A x \in Acts : posts'[x[2]].state = "none" => landed'[x] = 0
<1> DEFINE f == [x \in Acts |-> Worth(x)]
           g == [x \in Acts |-> Worth(x)']
<1>1. \A x \in Acts : Worth(x)' = Worth(x)
  <2> SUFFICES ASSUME NEW x \in Acts PROVE Worth(x)' = Worth(x)
    OBVIOUS
  <2>1. CASE posts[x[2]].state # "none"
    BY <2>1, PricedTheSame DEF Worth
  <2>2. CASE posts[x[2]].state = "none"
    <3>1. landed[x] = 0 /\ EngagementBurn(x[2], x[3]) \in Nat
      BY <2>2, WorthNat DEF RailInv
    <3>2. EngagementBurn(x[2], x[3])' \in Nat
      BY WorthNatAfter
    <3> DEFINE u == EngagementBurn(x[2], x[3])
               v == EngagementBurn(x[2], x[3])'
    <3>3. Worth(x) = 0 * u /\ Worth(x)' = 0 * v
      BY <3>1 DEF Worth
    <3> HIDE DEF u, v
    <3>4. 0 * u = 0 /\ 0 * v = 0
      BY <3>1, <3>2 DEF u, v
    <3> QED BY <3>3, <3>4
  <2> QED BY <2>1, <2>2
<1>2. f = g
  BY <1>1
<1>3. LogBurn = SumFunction(f) /\ LogBurn' = SumFunction(g)
  BY DEF LogBurn, Acts
<1>4. \A x \in Acts : posts'[x[2]].state = "none" => landed'[x] = 0
  BY ActsParts DEF RailInv, PricesKept
<1> QED BY <1>2, <1>3, <1>4
-----------------------------------------------------------------------------
LEMMA LogGrows ==
  ASSUME WorldInv, WorldInv', RailInv, PricesKept, NEW z \in Acts, posts[z[2]].state # "none",
         landed' = [landed EXCEPT ![z] = @ + 1]
  PROVE  /\ LogBurn' = LogBurn + EngagementBurn(z[2], z[3])
         /\ \A x \in Acts : posts'[x[2]].state = "none" => landed'[x] = 0
<1> DEFINE f == [x \in Acts |-> Worth(x)]
           g == [x \in Acts |-> Worth(x)']
           u == EngagementBurn(z[2], z[3])
<1>0. landed \in [Acts -> Nat]
  BY LandedActs DEF WorldInv
<1>1. landed'[z] = landed[z] + 1 /\ \A x \in Acts : x # z => landed'[x] = landed[x]
  BY <1>0
<1>2. \A x \in Acts : x # z => Worth(x)' = Worth(x)
  <2> SUFFICES ASSUME NEW x \in Acts, x # z PROVE Worth(x)' = Worth(x)
    OBVIOUS
  <2>1. CASE posts[x[2]].state # "none"
    BY <1>1, <2>1, PricedTheSame DEF Worth
  <2>2. CASE posts[x[2]].state = "none"
    <3> DEFINE m == EngagementBurn(x[2], x[3])
               n == EngagementBurn(x[2], x[3])'
    <3>1. landed[x] = 0 /\ m \in Nat /\ n \in Nat
      BY <2>2, WorthNat, WorthNatAfter DEF RailInv
    <3>2. Worth(x) = 0 * m /\ Worth(x)' = 0 * n
      BY <1>1, <3>1 DEF Worth
    <3> HIDE DEF m, n
    <3>3. 0 * m = 0 /\ 0 * n = 0
      BY <3>1
    <3> QED BY <3>2, <3>3
  <2> QED BY <2>1, <2>2
<1>3. Worth(z)' = Worth(z) + u
  <2> DEFINE k == landed[z]
  <2>1. k \in Nat /\ u \in Nat
    BY WorthNat
  <2>2. Worth(z) = k * u /\ Worth(z)' = (k + 1) * u
    BY <1>1, PricedTheSame DEF Worth
  <2> HIDE DEF k, u
  <2>3. (k + 1) * u = k * u + u
    BY <2>1
  <2> QED BY <2>2, <2>3
<1>4. f \in [Acts -> Int] /\ g \in [Acts -> Int] /\ IsFiniteSet(Acts) /\ LogBurn \in Nat
  BY WorthNat, WorthNatAfter, ActsFinite
<1>5. LogBurn = SumFunction(f) /\ LogBurn' = SumFunction(g)
  BY DEF LogBurn, Acts
<1>6. (\A y \in Acts : y # z => g[y] = f[y]) /\ f[z] \in Int /\ g[z] = f[z] + u /\ u \in Nat
  BY <1>2, <1>3, WorthNat
<1> HIDE DEF f, g, u
<1>7. SumFunction(g) = SumFunction(f) - f[z] + g[z]
  BY ONLY <1>4, <1>6, z \in Acts, SumUpdate
<1>8. LogBurn' = LogBurn + u
  BY <1>4, <1>5, <1>6, <1>7
<1>9. \A x \in Acts : posts'[x[2]].state = "none" => landed'[x] = 0
  <2> SUFFICES ASSUME NEW x \in Acts, posts'[x[2]].state = "none" PROVE landed'[x] = 0
    OBVIOUS
  <2>1. x[2] \in Pids /\ z[2] \in Pids
    BY ActsParts
  <2>2. posts[x[2]].state = "none"
    BY <2>1 DEF PricesKept
  <2>3. x # z
    BY <2>2
  <2> QED BY <1>1, <2>2, <2>3 DEF RailInv
<1> QED BY <1>8, <1>9 DEF u

(* An act that destroys n PTP in the epoch's count and m outside it.       *)
Destroys(n, m) ==
  /\ n \in Nat /\ m \in Nat
  /\ supply'.emitted = supply.emitted
  /\ supply'.burned = supply.burned + n + m
  /\ epoch'.burned = epoch.burned + n
  /\ PricesKept

LEMMA RailNums ==
  ASSUME WorldInv
  PROVE  /\ supply.emitted \in Nat /\ supply.burned \in Nat /\ epoch.burned \in Nat
         /\ Params.genesisPtp \in Nat /\ Params.maxSupply \in Nat /\ LogBurn \in Nat
<1>1. MoneyInv /\ RatesOK
  BY DEF WorldInv, MoneyInv
<1>2. epoch.burned \in Nat
  BY <1>1 DEF RatesOK
<1> QED BY <1>1, <1>2, MoneyNums, WorthNat, ParamsNat DEF Pos

LEMMA NetFalls ==
  ASSUME WorldInv, RailInv, NEW n, NEW m, Destroys(n, m)
  PROVE  NetSupplyNeverAboveGenesis' /\ EmittedWithinMaxSupply'
<1> DEFINE e == supply.emitted
           b == supply.burned
           w == epoch.burned
           k == Params.genesisPtp
<1>1. /\ e \in Nat /\ b \in Nat /\ w \in Nat /\ k \in Nat /\ n \in Nat /\ m \in Nat
      /\ supply'.emitted = e /\ supply'.burned = b + n + m /\ epoch'.burned = w + n
      /\ e - b + w <= k
  BY RailNums DEF RailInv, Destroys, NetSupplyNeverAboveGenesis
<1>2. EmittedWithinMaxSupply'
  BY <1>1 DEF RailInv, EmittedWithinMaxSupply
<1> HIDE DEF e, b, w, k
<1>3. e - (b + n + m) + (w + n) <= k
  BY <1>1
<1>4. supply'.emitted - supply'.burned + epoch'.burned <= k
  BY <1>1, <1>3
<1> QED BY <1>2, <1>4 DEF NetSupplyNeverAboveGenesis, k

LEMMA DestroyingKeepsRails ==
  ASSUME WorldInv, WorldInv', RailInv, NEW n, NEW m, Destroys(n, m), landed' = landed
  PROVE  RailInv'
<1>1. LogBurn' = LogBurn /\ \A x \in Acts : posts'[x[2]].state = "none" => landed'[x] = 0
  BY LogStands DEF Destroys
<1>2. NetSupplyNeverAboveGenesis' /\ EmittedWithinMaxSupply'
  BY NetFalls
<1>3. LogBurn' <= epoch'.burned
  <2>1. LogBurn \in Nat /\ epoch.burned \in Nat /\ LogBurn <= epoch.burned /\ n \in Nat
        /\ epoch'.burned = epoch.burned + n
    BY RailNums DEF RailInv, Destroys
  <2> QED BY <1>1, <2>1
<1> QED BY <1>1, <1>2, <1>3 DEF RailInv, Acts

LEMMA EngagementKeepsRails ==
  ASSUME WorldInv, WorldInv', RailInv, NEW a \in Addr, NEW t \in Stamps, NEW p \in Pids,
         NEW kind \in Engagement, NEW s \in Int,
         EngagementPlan(kind, a, t, p), CommitEngagement(kind, a, t, p, s)
  PROVE  RailInv'
<1> DEFINE n == EngagementBurn(p, kind)
           z == <<a, p, kind>>
<1>1. WallOK /\ RatesOK /\ PostInv /\ SupplyOK
  BY DEF WorldInv, MoneyInv
<1>2. n \in Nat
  BY <1>1, EngagementSplits DEF EngagementBurn
<1>3. /\ supply' = [supply EXCEPT !.burned = @ + n] /\ epoch' = Burned(Started(epoch, t), n)
      /\ landed' = [landed EXCEPT ![z] = @ + 1] /\ posts' = posts /\ history' = history
      /\ posts[p].state = "live"
  BY DEF EngagementPlan, CommitEngagement, Live, Open, EngagementBurn
<1>4. z \in Acts /\ z[2] = p /\ z[3] = kind
  BY DEF Acts
<1> HIDE DEF n, z
<1>5. epoch'.burned = epoch.burned + n /\ epoch'.rate = epoch.rate
  BY <1>1, <1>2, <1>3, BurningRates
<1>6. PricesKept
  BY <1>3, <1>5 DEF PricesKept
<1>7. Destroys(n, 0)
  <2>1. supply'.emitted = supply.emitted /\ supply'.burned = supply.burned + n /\ supply.burned \in Nat
    BY <1>1, <1>3 DEF SupplyOK
  <2>2. supply'.burned = supply.burned + n + 0
    BY <1>2, <2>1
  <2> QED BY <1>2, <1>5, <1>6, <2>1, <2>2 DEF Destroys
<1>8. LogBurn' = LogBurn + n /\ \A x \in Acts : posts'[x[2]].state = "none" => landed'[x] = 0
  BY <1>3, <1>4, <1>6, LogGrows DEF n
<1>9. LogBurn' <= epoch'.burned
  <2>1. LogBurn \in Nat /\ epoch.burned \in Nat /\ LogBurn <= epoch.burned
    BY RailNums DEF RailInv
  <2> QED BY <1>2, <1>5, <1>8, <2>1
<1> QED BY <1>7, <1>8, <1>9, NetFalls DEF RailInv, Acts

(* The close pays no more than the burn it counted and what maxSupply      *)
(* leaves, and starts an empty log.                                        *)
LEMMA CloseKeepsRails ==
  ASSUME WorldInv, WorldInv', RailInv, NEW a \in Addr, NEW t \in Stamps,
         NEW oracle \in Inputs.oracles, CloseEpoch(a, t, oracle)
  PROVE  RailInv'
<1> DEFINE e == supply.emitted
           b == supply.burned
           w == epoch.burned
           k == Params.genesisPtp
           x == Params.maxSupply
           m == Minted
<1>1. /\ WallOK /\ RatesOK /\ PostInv /\ SupplyOK /\ RowsOK /\ MoneyInv
      /\ landed \in [Acts -> Nat]
  BY LandedActs DEF WorldInv, MoneyInv
<1>2. supply'.emitted = e + m /\ supply'.burned = b /\ epoch'.burned = 0
  BY <1>1, CloseKeepsMoney
<1>3. e \in Nat /\ b \in Nat /\ w \in Nat /\ k \in Nat /\ x \in Nat /\ e - b + w <= k /\ e <= x
  BY RailNums DEF RailInv, NetSupplyNeverAboveGenesis, EmittedWithinMaxSupply
<1>4. m \in Nat /\ m <= w /\ m <= x - e
  <2> DEFINE h == Handed
             r == Round
             l == Allowed
  <2>1. m \in Nat /\ m <= h /\ h \in Nat /\ h <= r /\ r \in Nat /\ r <= l /\ l \in Nat /\ l <= w
    BY <1>1, MintedIsHanded, SharesWithinRound, RoundWithinRail, AllowedNat
  <2>2. Room = x - e /\ (Room >= 0 => h <= Room)
    BY <1>1, SharesWithinRound DEF Room
  <2>3. h <= x - e
    <3> HIDE DEF x, e, h
    <3> QED BY <1>3, <2>2
  <2> HIDE DEF h, r, l, m, w, x, e
  <2> QED BY <1>3, <2>1, <2>3
<1> HIDE DEF e, b, w, k, x, m
<1>5. e + m - b + 0 <= k /\ e + m <= x
  BY <1>3, <1>4
<1>6. NetSupplyNeverAboveGenesis' /\ EmittedWithinMaxSupply'
  <2>1. supply'.emitted - supply'.burned + epoch'.burned <= k /\ supply'.emitted <= x
    BY <1>2, <1>3, <1>4, <1>5
  <2> QED BY <2>1 DEF NetSupplyNeverAboveGenesis, EmittedWithinMaxSupply, k, x
<1>7. \A y \in Acts : landed'[y] = 0
  BY <1>1 DEF CloseEpoch, NoActs
<1>8. LogBurn' = 0
  <2> DEFINE g == [y \in Acts |-> Worth(y)']
  <2>1. \A y \in Acts : Worth(y)' = 0
    <3> SUFFICES ASSUME NEW y \in Acts PROVE Worth(y)' = 0
      OBVIOUS
    <3> DEFINE u == EngagementBurn(y[2], y[3])'
    <3>1. u \in Nat /\ Worth(y)' = 0 * u
      BY <1>7, WorthNatAfter DEF Worth
    <3> HIDE DEF u
    <3> QED BY <3>1
  <2>2. g \in [Acts -> Int] /\ \A y \in Acts : g[y] = 0
    BY <2>1
  <2>3. LogBurn' = SumFunction(g)
    BY DEF LogBurn, Acts
  <2> HIDE DEF g
  <2> QED BY <2>2, <2>3, ActsFinite, SumZero
<1> QED BY <1>2, <1>6, <1>7, <1>8 DEF RailInv, Acts
-----------------------------------------------------------------------------
(* An act that burns nothing and logs no engagement.                       *)
LEMMA StillKeepsRails ==
  ASSUME WorldInv, WorldInv', RailInv, NEW t \in Stamps, LandsQuietly(t),
         UNCHANGED <<supply, landed, history>>,
         \A p \in Pids : posts[p].state # "none" => posts'[p].price = posts[p].price
                                                    /\ posts'[p].state # "none"
  PROVE  RailInv'
<1>1. epoch'.burned = epoch.burned /\ epoch'.rate = epoch.rate
  BY QuietRates DEF WorldInv, MoneyInv
<1>2. epoch'.burned = epoch.burned + 0 /\ supply'.burned = supply.burned + 0 + 0
  BY <1>1, RailNums
<1>3. Destroys(0, 0)
  BY <1>1, <1>2 DEF Destroys, PricesKept
<1> QED BY <1>3, DestroyingKeepsRails

LEMMA StillActs ==
  ASSUME NEW a \in Addr, NEW t \in Stamps,
         \/ IdentityNext(a, t) \/ PoolNext(a, t)
         \/ \E mb \in Inputs.mbs : CapPledge(a, t, mb)
         \/ \E p \in Pids, s \in Inputs.shards : CapProof(a, t, p, s)
         \/ CapClaim(a, t)
         \/ \E from \in Inputs.froms : RulesSet(a, t, from)
  PROVE  UNCHANGED <<supply, landed, history, posts>> /\ LandsQuietly(t)
<1>1. CASE IdentityNext(a, t)
  BY <1>1 DEF IdentityNext, Register, BurnClaim, moneyVars, postVars, epochVars
<1>2. CASE PoolNext(a, t)
  BY <1>2 DEF PoolNext, SwapBtc, SwapPtp, LiqAdd, LiqRemove, postVars, epochVars
<1>3. CASE \E mb \in Inputs.mbs : CapPledge(a, t, mb)
  BY <1>3 DEF CapPledge, postVars, epochVars
<1>4. ASSUME NEW p \in Pids, NEW s \in Inputs.shards, CapProof(a, t, p, s)
      PROVE  UNCHANGED <<supply, landed, history, posts>> /\ LandsQuietly(t)
  BY <1>4 DEF CapProof, moneyVars, epochVars
<1>5. CASE CapClaim(a, t)
  BY <1>5 DEF CapClaim, epochVars
<1>6. CASE \E from \in Inputs.froms : RulesSet(a, t, from)
  BY <1>6 DEF RulesSet, moneyVars, postVars
<1> QED BY <1>1, <1>2, <1>3, <1>4, <1>5, <1>6

LEMMA ExtendKeepsRails ==
  ASSUME WorldInv, WorldInv', RailInv, NEW a \in Addr, NEW t \in Stamps, NEW p \in Pids,
         NEW d \in Inputs.days, Extend(a, t, p, d)
  PROVE  RailInv'
<1> DEFINE x == posts[p].expires + d * Params.lifetime
<1>1. UNCHANGED <<supply, landed, history>> /\ LandsQuietly(t)
      /\ posts' = [posts EXCEPT ![p].expires = x]
  BY DEF Extend, epochVars
<1> HIDE DEF x
<1>2. posts \in [Pids -> [author : Addr \cup {NoAddr}, cid : Cids \cup {0}, bytes : Nat,
                         price : Nat, expires : Nat, state : {"none", "live", "settled"}]]
  BY DEF WorldInv, PostInv, PostsTypeOK
<1>3. \A q \in Pids : posts'[q].price = posts[q].price /\ posts'[q].state = posts[q].state
  BY <1>1, <1>2
<1> QED BY <1>1, <1>3, StillKeepsRails

LEMMA PostKeepsRails ==
  ASSUME WorldInv, WorldInv', RailInv, NEW a \in Addr, NEW t \in Stamps, NEW c \in Cids,
         NEW bytes \in Inputs.bytes, NEW price \in Inputs.prices, NEW d \in Inputs.days,
         Post(a, t, c, bytes, price, d)
  PROVE  RailInv'
<1> DEFINE fee  == PriceOf(Params.publishBase, epoch.rate)
           legs == SplitFee(fee, Params.publish)
           n    == legs.burn
           p    == seq + 1
           row  == [author |-> a, cid |-> c, bytes |-> bytes, price |-> price,
                    expires |-> t + d * Params.lifetime, state |-> "live"]
<1>1. RatesOK /\ SupplyOK /\ PostInv
  BY DEF WorldInv, MoneyInv
<1>2. n \in Nat
  <2>1. fee \in Nat
    BY <1>1, PriceNat, ParamsNat DEF RatesOK, Pos
  <2> HIDE DEF fee
  <2> QED BY <2>1, PublishSplits
<1>3. /\ supply' = [supply EXCEPT !.burned = @ + n] /\ epoch' = Burned(Started(epoch, t), n)
      /\ posts' = [posts EXCEPT ![p] = row] /\ landed' = landed /\ history' = history
      /\ seq < MaxPosts
  BY DEF Post, epochVars
<1>4. p \in Pids /\ posts[p].state = "none"
  BY <1>1, <1>3, BoundsAssumption DEF Pids, PostInv, PidsInOrder, PostsTypeOK
<1> HIDE DEF n, p, row
<1>5. epoch'.burned = epoch.burned + n /\ epoch'.rate = epoch.rate
  BY <1>1, <1>2, <1>3, BurningRates
<1>6. \A q \in Pids : q # p => posts'[q] = posts[q]
  BY <1>1, <1>3 DEF PostInv, PostsTypeOK
<1>7. PricesKept
  BY <1>4, <1>5, <1>6 DEF PricesKept
<1>8. supply'.emitted = supply.emitted /\ supply'.burned = supply.burned + n + 0
  <2>1. supply'.emitted = supply.emitted /\ supply'.burned = supply.burned + n /\ supply.burned \in Nat
    BY <1>1, <1>3 DEF SupplyOK
  <2> QED BY <1>2, <2>1
<1>9. Destroys(n, 0)
  BY <1>2, <1>5, <1>7, <1>8 DEF Destroys
<1> QED BY <1>3, <1>9, DestroyingKeepsRails

LEMMA SettleKeepsRails ==
  ASSUME WorldInv, WorldInv', RailInv, NEW a \in Addr, NEW t \in Stamps, NEW p \in Pids,
         Settle(a, t, p)
  PROVE  RailInv'
<1> DEFINE floor == PriceOf(Params.minSettlement, epoch.rate)
           paid  == IF credit[p] >= floor THEN credit[p] ELSE 0
           n     == credit[p] - paid + Surplus(p)
<1>1. RatesOK /\ SupplyOK /\ WallOK /\ PostInv
  BY DEF WorldInv, MoneyInv
<1>2. n \in Nat
  <2>1. credit[p] \in Nat /\ Surplus(p) \in Nat
    BY <1>1, WallAddsUp DEF Surplus
  <2> HIDE DEF floor
  <2> QED BY <2>1
<1>3. /\ supply' = [supply EXCEPT !.burned = @ + n] /\ epoch' = Burned(Started(epoch, t), n)
      /\ posts' = [posts EXCEPT ![p].state = "settled"] /\ landed' = landed /\ history' = history
  BY DEF Settle, epochVars
<1> HIDE DEF n
<1>4. epoch'.burned = epoch.burned + n /\ epoch'.rate = epoch.rate
  BY <1>1, <1>2, <1>3, BurningRates
<1>5. posts \in [Pids -> [author : Addr \cup {NoAddr}, cid : Cids \cup {0}, bytes : Nat,
                         price : Nat, expires : Nat, state : {"none", "live", "settled"}]]
  BY <1>1 DEF PostInv, PostsTypeOK
<1>6. \A q \in Pids : posts'[q].price = posts[q].price
                      /\ posts'[q].state = IF q = p THEN "settled" ELSE posts[q].state
  BY <1>3, <1>5
<1>7. PricesKept
  BY <1>4, <1>6 DEF PricesKept
<1>8. supply'.emitted = supply.emitted /\ supply'.burned = supply.burned + n + 0
  <2>1. supply'.emitted = supply.emitted /\ supply'.burned = supply.burned + n /\ supply.burned \in Nat
    BY <1>1, <1>3 DEF SupplyOK
  <2> QED BY <1>2, <2>1
<1>9. Destroys(n, 0)
  BY <1>2, <1>4, <1>7, <1>8 DEF Destroys
<1> QED BY <1>3, <1>9, DestroyingKeepsRails

LEMMA CapBuyKeepsRails ==
  ASSUME WorldInv, WorldInv', RailInv, NEW a \in Addr, NEW t \in Stamps, NEW amt \in Inputs.amounts,
         CapBuy(a, t, amt)
  PROVE  RailInv'
<1>1. RatesOK /\ SupplyOK /\ amt \in Nat
  BY InputsAssumption DEF WorldInv, MoneyInv, Pos
<1>2. /\ supply' = [supply EXCEPT !.burned = @ + amt] /\ LandsQuietly(t)
      /\ UNCHANGED <<posts, landed, history>>
  BY DEF CapBuy, postVars, epochVars
<1>3. epoch'.burned = epoch.burned /\ epoch'.rate = epoch.rate /\ epoch.burned \in Nat
  BY <1>1, <1>2, QuietRates DEF RatesOK
<1>4. supply'.emitted = supply.emitted /\ supply'.burned = supply.burned + amt /\ supply.burned \in Nat
  BY <1>1, <1>2 DEF SupplyOK
<1>5. supply'.burned = supply.burned + 0 + amt /\ epoch'.burned = epoch.burned + 0
  BY <1>1, <1>3, <1>4
<1>6. PricesKept
  BY <1>2, <1>3 DEF PricesKept
<1>7. Destroys(0, amt)
  BY <1>1, <1>4, <1>5, <1>6 DEF Destroys
<1> QED BY <1>2, <1>7, DestroyingKeepsRails

LEMMA ActKeepsRails ==
  ASSUME WorldInv, WorldInv', RailInv, NEW a \in Addr, NEW t \in Stamps, Act(a, t)
  PROVE  RailInv'
<1>1. CASE \/ IdentityNext(a, t) \/ PoolNext(a, t)
           \/ \E mb \in Inputs.mbs : CapPledge(a, t, mb)
           \/ \E p \in Pids, s \in Inputs.shards : CapProof(a, t, p, s)
           \/ CapClaim(a, t)
           \/ \E from \in Inputs.froms : RulesSet(a, t, from)
  <2>1. UNCHANGED <<supply, landed, history, posts>> /\ LandsQuietly(t)
    BY <1>1, StillActs
  <2> QED BY <2>1, StillKeepsRails
<1>2. CASE WallNext(a, t)
  BY <1>2, PostKeepsRails, ExtendKeepsRails, SettleKeepsRails DEF WallNext
<1>3. CASE EngagementNext(a, t)
  <2>1. RowsOK
    BY DEF WorldInv, MoneyInv
  <2>2. PICK p \in Pids, kind \in Engagement, s \in Int :
          EngagementPlan(kind, a, t, p) /\ CommitEngagement(kind, a, t, p, s)
    BY <1>3, <2>1, EngagementKinds
  <2> QED BY <2>2, EngagementKeepsRails
<1>4. CASE \E ptp \in Inputs.amounts : CapBuy(a, t, ptp)
  BY <1>4, CapBuyKeepsRails
<1>5. CASE \E oracle \in Inputs.oracles : CloseEpoch(a, t, oracle)
  BY <1>5, CloseKeepsRails
<1> QED BY <1>1, <1>2, <1>3, <1>4, <1>5 DEF Act, CapacityNext, EpochNext

LEMMA RailInvNext == WorldInv /\ WorldInv' /\ RailInv /\ [Next]_vars => RailInv'
<1> SUFFICES ASSUME WorldInv, WorldInv', RailInv, [Next]_vars PROVE RailInv'
  OBVIOUS
<1>1. CASE Next
  BY <1>1, ActKeepsRails DEF Next
<1>2. CASE UNCHANGED vars
  <2>1. UNCHANGED <<supply, landed, posts, epoch>>
    BY <1>2 DEF vars, moneyVars, postVars, epochVars
  <2>2. LogBurn' = LogBurn
    BY <2>1 DEF LogBurn, Worth, EngagementBurn, EngagementFee, Acts
  <2> QED BY <2>1, <2>2 DEF RailInv, NetSupplyNeverAboveGenesis, EmittedWithinMaxSupply, Acts
<1> QED BY <1>1, <1>2

LEMMA RailInvInit == Init => RailInv
<1> SUFFICES ASSUME Init PROVE RailInv
  OBVIOUS
<1>1. WorldInv
  BY WorldInvInit
<1>2. /\ supply.emitted = Params.genesisPtp /\ supply.burned = 0 /\ epoch.burned = 0
      /\ \A x \in Acts : landed[x] = 0
  BY DEF Init, Acts
<1>3. Params.genesisPtp - 0 + 0 <= Params.genesisPtp /\ Params.genesisPtp <= Params.maxSupply
  <2>1. Params.genesisPtp \in Nat
    BY ParamsNat DEF Pos
  <2>2. Params.genesisPtp <= Params.maxSupply
    BY ParamsAssumption
  <2> QED BY <2>1, <2>2
<1>4. LogBurn = 0
  <2> DEFINE g == [y \in Acts |-> Worth(y)]
  <2>1. \A y \in Acts : Worth(y) = 0
    <3> SUFFICES ASSUME NEW y \in Acts PROVE Worth(y) = 0
      OBVIOUS
    <3> DEFINE u == EngagementBurn(y[2], y[3])
    <3>1. u \in Nat /\ Worth(y) = 0 * u
      BY <1>1, <1>2, WorthNat DEF Worth
    <3> HIDE DEF u
    <3> QED BY <3>1
  <2>2. g \in [Acts -> Int] /\ \A y \in Acts : g[y] = 0
    BY <2>1
  <2>3. LogBurn = SumFunction(g)
    BY DEF LogBurn
  <2> HIDE DEF g
  <2> QED BY <2>2, <2>3, ActsFinite, SumZero
<1>5. NetSupplyNeverAboveGenesis /\ EmittedWithinMaxSupply
  BY <1>2, <1>3 DEF NetSupplyNeverAboveGenesis, EmittedWithinMaxSupply
<1> QED BY <1>2, <1>4, <1>5 DEF RailInv

(* What each author is credited is a part of the burn of the log.          *)
LEMMA CreditsAreLogged ==
  ASSUME WorldInv, RailInv
  PROVE  CreditedWasBurned
<1> DEFINE owner == [x \in Acts |-> posts[x[2]].author]
           f == [x \in Acts |-> Worth(x)]
           g == [a \in Addr |-> Credited(a)]
           T == {y \in DOMAIN landed : landed[y] > 0}
<1>1. WallOK /\ RatesOK /\ PostInv /\ landed \in [Acts -> Nat]
  BY LandedActs DEF WorldInv, MoneyInv
<1>2. f \in [Acts -> Nat] /\ \A x \in Acts : Worth(x) \in Nat /\ landed[x] \in Nat
                              /\ EngagementBurn(x[2], x[3]) \in Nat
  BY WorthNat
<1>3. g \in [Addr -> Nat]
  BY <1>1, CreditedNat
<1>4. T \in SUBSET Acts
  BY <1>1
<1>5. ASSUME NEW a \in Addr
      PROVE  g[a] = OwnedBy(Acts, f, owner, a)
  <2> DEFINE part == [x \in T |-> IF posts[x[2]].author = a
                                  THEN landed[x] * EngagementBurn(x[2], x[3]) ELSE 0]
             all  == [x \in Acts |-> IF owner[x] = a THEN f[x] ELSE 0]
  <2>1. g[a] = SumFunction(part)
    BY DEF Credited
  <2>2. part \in [T -> Int] /\ all \in [Acts -> Int]
    BY <1>2, <1>4 DEF Worth
  <2>3. \A x \in Acts : all[x] = IF x \in T THEN part[x] ELSE 0
    <3> SUFFICES ASSUME NEW x \in Acts PROVE all[x] = IF x \in T THEN part[x] ELSE 0
      OBVIOUS
    <3>1. CASE x \in T
      BY <3>1 DEF Worth
    <3>2. CASE x \notin T
      <4> DEFINE u == EngagementBurn(x[2], x[3])
      <4>1. landed[x] = 0 /\ u \in Nat
        BY <1>1, <1>2, <3>2
      <4>2. Worth(x) = 0 * u
        BY <4>1 DEF Worth
      <4> HIDE DEF u
      <4>3. Worth(x) = 0
        BY <4>1, <4>2
      <4> QED BY <3>2, <4>3
    <3> QED BY <3>1, <3>2
  <2> HIDE DEF part, all, T, g
  <2>4. SumFunction(part) = SumFunction(all)
    BY <1>4, <2>2, <2>3, SumRestrict, ActsFinite
  <2> QED BY <2>1, <2>4 DEF all, OwnedBy
<1>6. LogBurn = SumFunction(f) /\ LogBurn <= epoch.burned /\ LogBurn \in Nat /\ epoch.burned \in Nat
  BY RailNums DEF LogBurn, RailInv
<1> HIDE DEF owner, f, g
<1>7. SumFunction(g) <= SumFunction(f) /\ SumFunction(g) \in Nat
  <2>0. /\ f \in [Acts -> Nat] /\ g \in [Addr -> Nat] /\ IsFiniteSet(Acts) /\ IsFiniteSet(Addr)
        /\ \A a \in Addr : g[a] = OwnedBy(Acts, f, owner, a)
    BY <1>2, <1>3, <1>5, ActsFinite, BoundsAssumption
  <2>1. SumFunction(g) <= SumFunction(f)
    BY ONLY <2>0, SumByOwner
  <2> QED BY <1>3, <2>1, SumNat, BoundsAssumption
<1>8. SumFunction(g) <= epoch.burned
  BY <1>6, <1>7
<1> QED BY <1>8 DEF CreditedWasBurned, g

(* The rails compose: over conserved money, emission never outruns what    *)
(* was destroyed, no round of rebates passes maxSupply, and the rebates    *)
(* rules/v1 computes from the log rest on burns replay counted as they     *)
(* happened (core/replay.mjs closeEpoch; core/rules/v1.mjs).               *)
THEOREM SupplyStaysWithinRails == Spec => []SupplyWithinRails
<1>1. Init => WorldInv /\ RailInv
  BY WorldInvInit, RailInvInit
<1>2. WorldInv /\ RailInv /\ [Next]_vars => (WorldInv /\ RailInv)'
  BY WorldInvNext, RailInvNext
<1>3. WorldInv /\ RailInv => SupplyWithinRails
  <2> SUFFICES ASSUME WorldInv, RailInv PROVE SupplyWithinRails
    OBVIOUS
  <2>1. MoneyConserved
    BY WorldIsTyped DEF WorldInv, MoneyInv, Books, MoneyConserved
  <2> QED BY <2>1, CreditsAreLogged DEF RailInv, SupplyWithinRails
<1> QED BY <1>1, <1>2, <1>3, PTL DEF Spec
-----------------------------------------------------------------------------
(* The posts as Ledger knows them.                                         *)
Pictures == [cid : Cids \cup {0}, live : BOOLEAN]

LEMMA PictureIs ==
  ASSUME NEW post, NEW c
  PROVE  /\ post.cid \in Cids \cup {0} => Picture(post) \in Pictures
         /\ Picture(post).cid = post.cid
         /\ Picture(post).live <=> post.state = "live"
         /\ post.cid = c /\ post.state = "live" => Picture(post) = [cid |-> c, live |-> TRUE]
<1>1. (post.state = "live") \in BOOLEAN
  OBVIOUS
<1>2. post.state = "live" => (post.state = "live") = TRUE
  OBVIOUS
<1> QED BY <1>1, <1>2, Zenon DEF Picture, Pictures

LEMMA PictureGone ==
  ASSUME NEW old, NEW new, new.cid = old.cid, new.state = "settled"
  PROVE  Picture(new) = [Picture(old) EXCEPT !.live = FALSE]
<1>1. (new.state = "live") = FALSE
  OBVIOUS
<1>2. Picture(new) = [cid |-> old.cid, live |-> FALSE]
  BY <1>1, Zenon DEF Picture
<1>3. PICK l : Picture(old) = [cid |-> old.cid, live |-> l]
  BY Zenon DEF Picture
<1>4. \A m : [Picture(old) EXCEPT !.live = m] = [cid |-> old.cid, live |-> m]
  BY <1>3
<1>5. [Picture(old) EXCEPT !.live = FALSE] = [cid |-> old.cid, live |-> FALSE]
  BY <1>4, Zenon
<1> QED BY <1>2, <1>5

LEMMA PicturesAre ==
  ASSUME PostInv
  PROVE  /\ seq \in 0 .. MaxPosts /\ 1 .. seq \subseteq Pids
         /\ WorldInPart.posts \in Seq(Pictures)
         /\ DOMAIN WorldInPart.posts = 1 .. seq /\ Len(WorldInPart.posts) = seq
         /\ \A p \in 1 .. seq : WorldInPart.posts[p] = Picture(posts[p])
<1> DEFINE s == [p \in 1 .. seq |-> Picture(posts[p])]
<1>1. seq \in 0 .. MaxPosts /\ 1 .. seq \subseteq Pids
  BY BoundsAssumption DEF PostInv, PostsTypeOK, Pids
<1>2. \A p \in 1 .. seq : Picture(posts[p]) \in Pictures
  BY <1>1, PictureIs DEF PostInv, PostsTypeOK
<1>3. s \in Seq(Pictures) /\ DOMAIN s = 1 .. seq /\ Len(s) = seq
  <2>1. seq \in Nat
    BY <1>1
  <2> QED BY <1>2, <2>1
<1>4. WorldInPart.posts = s
  BY DEF WorldInPart
<1> QED BY <1>1, <1>3, <1>4

(* An act of another kind moves the last stamp and no index.               *)
LEMMA LandsAsNote ==
  ASSUME NEW t, lastAt' = t, t >= lastAt, UNCHANGED <<burns, seq>>,
         \A p \in 1 .. seq : posts'[p].cid = posts[p].cid /\ posts'[p].state = posts[p].state
  PROVE  TakenByLedger(NoteAt(lastAt'))
<1> DEFINE act == NoteAt(lastAt')
<1>0. \A p \in 1 .. seq : Picture(posts'[p]) = Picture(posts[p])
  BY Zenon DEF Picture
<1>2. AsLedger!Accepts(WorldInPart, act)
  BY DEF AsLedger!Accepts, WorldInPart, NoteAt
<1>3. AsLedger!Applied(WorldInPart, act)
        = [claimed |-> burns, posts |-> WorldInPart.posts, lastAt |-> t]
  BY DEF AsLedger!Applied, WorldInPart, NoteAt
<1>4. WorldInPart' = [claimed |-> burns, posts |-> WorldInPart.posts, lastAt |-> t]
  BY <1>0 DEF WorldInPart
<1> QED BY <1>2, <1>3, <1>4 DEF TakenByLedger

LEMMA BurnLandsSo ==
  ASSUME NEW a, NEW t, NEW o \in Txos, BurnClaim(a, t, o)
  PROVE  TakenByLedger([k |-> "claim", ref |-> o, t |-> t])
<1> DEFINE act == [k |-> "claim", ref |-> o, t |-> t]
<1>1. /\ t >= lastAt /\ o \notin burns /\ burns' = burns \cup {o} /\ lastAt' = t
      /\ UNCHANGED <<posts, seq>>
  BY DEF BurnClaim, BurnTaken, Envelope, LandsQuietly, postVars
<1>3. AsLedger!Accepts(WorldInPart, act)
  BY <1>1 DEF AsLedger!Accepts, WorldInPart
<1>4. AsLedger!Applied(WorldInPart, act)
        = [claimed |-> burns \cup {o}, posts |-> WorldInPart.posts, lastAt |-> t]
  BY DEF AsLedger!Applied, WorldInPart
<1>5. WorldInPart' = [claimed |-> burns \cup {o}, posts |-> WorldInPart.posts, lastAt |-> t]
  BY <1>1 DEF WorldInPart
<1> QED BY <1>3, <1>4, <1>5 DEF TakenByLedger

(* The index says that no unsettled post has the picture, and the new post *)
(* takes the next place.                                                   *)
LEMMA PostLandsSo ==
  ASSUME PostInv, NEW a \in Addr, NEW t \in Stamps, NEW c \in Cids,
         NEW bytes \in Inputs.bytes, NEW price \in Inputs.prices, NEW d \in Inputs.days,
         Post(a, t, c, bytes, price, d)
  PROVE  TakenByLedger([k |-> "post", ref |-> c, t |-> t])
<1> DEFINE act == [k |-> "post", ref |-> c, t |-> t]
           new == [cid |-> c, live |-> TRUE]
           old == WorldInPart.posts
<1>1. /\ t >= lastAt /\ lastAt' = t /\ cids[c] = 0 /\ burns' = burns
      /\ seq < MaxPosts /\ seq' = seq + 1
      /\ posts' = [posts EXCEPT ![seq + 1] =
                      [author |-> a, cid |-> c, bytes |-> bytes, price |-> price,
                       expires |-> t + d * Params.lifetime, state |-> "live"]]
  BY DEF Post, Envelope, Lands
<1>2. /\ seq + 1 \in Pids /\ seq \in Nat /\ 1 .. seq \subseteq Pids
  BY <1>1, PicturesAre, BoundsAssumption DEF Pids
<1>3. /\ posts'[seq + 1].cid = c /\ posts'[seq + 1].state = "live"
      /\ \A p \in 1 .. seq : posts'[p] = posts[p]
  BY <1>1, <1>2 DEF PostInv, PostsTypeOK
<1>5. ~AsLedger!Unsettled(WorldInPart, c)
  <2>1. ASSUME NEW p \in 1 .. seq, posts[p].cid = c, posts[p].state = "live" PROVE FALSE
    BY <1>1, <1>2, <2>1 DEF PostInv, CidIndexExact, Pids
  <2> QED BY <2>1, PicturesAre, PictureIs DEF AsLedger!Unsettled
<1>6. AsLedger!Accepts(WorldInPart, act)
  <2>1. WorldInPart.lastAt = lastAt
    BY DEF WorldInPart
  <2> QED BY <1>1, <1>5, <2>1 DEF AsLedger!Accepts
<1>7. AsLedger!Applied(WorldInPart, act) = [claimed |-> burns, posts |-> Append(old, new), lastAt |-> t]
  BY DEF AsLedger!Applied, WorldInPart
<1>8. WorldInPart'.posts = Append(old, new)
  <2> DEFINE s == [p \in 1 .. seq + 1 |-> Picture(posts'[p])]
  <2>1. WorldInPart'.posts = s
    BY <1>1 DEF WorldInPart
  <2>2. /\ old \in Seq(Pictures) /\ Len(old) = seq
        /\ \A p \in 1 .. seq : old[p] = Picture(posts[p])
    BY PicturesAre
  <2>6. s[seq + 1] = Picture(posts'[seq + 1]) /\ \A p \in 1 .. seq : s[p] = Picture(posts'[p])
    BY <1>2
  <2>7. s = [p \in 1 .. seq + 1 |-> s[p]]
    OBVIOUS
  <2>5. Append(old, new) = [p \in 1 .. seq + 1 |-> IF p = seq + 1 THEN new ELSE old[p]]
    BY <1>2, <2>2
  <2> HIDE DEF s, new, old
  <2>8. Picture(posts'[seq + 1]) = new
    BY <1>3, PictureIs, Zenon DEF new
  <2>3. s[seq + 1] = new /\ \A p \in 1 .. seq : s[p] = old[p]
    BY <1>3, <2>2, <2>6, <2>8, Zenon
  <2>9. \A p \in 1 .. seq + 1 : s[p] = IF p = seq + 1 THEN new ELSE old[p]
    <3>1. \A p \in 1 .. seq + 1 : p = seq + 1 \/ p \in 1 .. seq
      BY <1>2
    <3>2. \A p \in 1 .. seq : p # seq + 1
      BY <1>2
    <3> QED BY <2>3, <3>1, <3>2
  <2>4. s = [p \in 1 .. seq + 1 |-> IF p = seq + 1 THEN new ELSE old[p]]
    BY <2>7, <2>9, Zenon
  <2> QED BY <2>1, <2>4, <2>5
<1>9. WorldInPart' = [claimed |-> burns, posts |-> Append(old, new), lastAt |-> t]
  <2>1. WorldInPart' = [claimed |-> burns', posts |-> WorldInPart'.posts, lastAt |-> lastAt']
    BY DEF WorldInPart
  <2> QED BY <1>1, <1>8, <2>1
<1> QED BY <1>6, <1>7, <1>9 DEF TakenByLedger

LEMMA SettleLandsSo ==
  ASSUME PostInv, NEW a \in Addr, NEW t \in Stamps, NEW r \in Pids, Settle(a, t, r)
  PROVE  TakenByLedger([k |-> "settle", ref |-> r, t |-> t])
<1> DEFINE act == [k |-> "settle", ref |-> r, t |-> t]
           old == WorldInPart.posts
<1>1. /\ t >= lastAt /\ lastAt' = t /\ posts[r].state = "live" /\ burns' = burns /\ seq' = seq
      /\ posts' = [posts EXCEPT ![r].state = "settled"]
  BY DEF Settle, Envelope, Lands, Open
<1>2. r \in 1 .. seq /\ 1 .. seq \subseteq Pids
  BY <1>1, PicturesAre DEF PostInv, PidsInOrder, Pids
<1>4. old[r].live /\ r \in DOMAIN old
  BY <1>1, <1>2, PicturesAre, PictureIs
<1>5. AsLedger!Accepts(WorldInPart, act)
  <2>1. WorldInPart.lastAt = lastAt
    BY DEF WorldInPart
  <2> QED BY <1>1, <1>4, <2>1 DEF AsLedger!Accepts
<1>6. AsLedger!Applied(WorldInPart, act)
        = [claimed |-> burns, posts |-> [old EXCEPT ![r].live = FALSE], lastAt |-> t]
  BY DEF AsLedger!Applied, WorldInPart
<1>7. WorldInPart'.posts = [old EXCEPT ![r].live = FALSE]
  <2> DEFINE s == [p \in 1 .. seq |-> Picture(posts'[p])]
  <2>1. WorldInPart'.posts = s
    BY <1>1 DEF WorldInPart
  <2>2. /\ DOMAIN old = 1 .. seq /\ old \in Seq(Pictures) /\ Len(old) = seq
        /\ \A p \in 1 .. seq : old[p] = Picture(posts[p])
    BY PicturesAre
  <2>3. /\ posts'[r].cid = posts[r].cid /\ posts'[r].state = "settled"
        /\ \A p \in 1 .. seq : p # r => posts'[p] = posts[p]
    BY <1>1, <1>2 DEF PostInv, PostsTypeOK
  <2>4. s[r] = [old[r] EXCEPT !.live = FALSE] /\ \A p \in 1 .. seq : p # r => s[p] = old[p]
    <3>1. s[r] = Picture(posts'[r]) /\ \A p \in 1 .. seq : s[p] = Picture(posts'[p])
      BY <1>2
    <3> HIDE DEF s, old
    <3>2. Picture(posts'[r]) = [Picture(posts[r]) EXCEPT !.live = FALSE]
      BY <2>3, PictureGone, Zenon
    <3>3. old[r] = Picture(posts[r])
      BY <1>2, <2>2, Zenon
    <3>4. s[r] = [old[r] EXCEPT !.live = FALSE]
      BY <3>1, <3>2, <3>3, Zenon
    <3>5. ASSUME NEW p \in 1 .. seq, p # r PROVE s[p] = old[p]
      BY <2>2, <2>3, <3>1, <3>5, Zenon
    <3> QED BY <3>4, <3>5, Zenon
  <2> HIDE DEF s
  <2>5. s = [p \in 1 .. seq |-> s[p]]
    BY DEF s
  <2>6. old = [p \in 1 .. seq |-> old[p]]
    BY <2>2
  <2>7. [old EXCEPT ![r].live = FALSE] = [p \in 1 .. seq |-> IF p = r THEN [old[r] EXCEPT !.live = FALSE] ELSE old[p]]
    BY <1>2, <2>2, <2>6
  <2> QED BY <2>1, <2>4, <2>5, <2>7
<1>8. WorldInPart' = [claimed |-> burns, posts |-> [old EXCEPT ![r].live = FALSE], lastAt |-> t]
  <2>1. WorldInPart' = [claimed |-> burns', posts |-> WorldInPart'.posts, lastAt |-> lastAt']
    BY DEF WorldInPart
  <2> QED BY <1>1, <1>7, <2>1
<1> QED BY <1>5, <1>6, <1>8 DEF TakenByLedger

LEMMA ExtendLandsSo ==
  ASSUME PostInv, NEW a \in Addr, NEW t \in Stamps, NEW p \in Pids, NEW d \in Inputs.days,
         Extend(a, t, p, d)
  PROVE  TakenByLedger(NoteAt(lastAt'))
<1>1. /\ t >= lastAt /\ lastAt' = t /\ UNCHANGED <<burns, seq>>
      /\ posts' = [posts EXCEPT ![p].expires = @ + d * Params.lifetime]
  BY DEF Extend, Envelope, LandsQuietly
<1>2. \A q \in 1 .. seq : posts'[q].cid = posts[q].cid /\ posts'[q].state = posts[q].state
  BY <1>1, PicturesAre DEF PostInv, PostsTypeOK
<1> QED BY <1>1, <1>2, LandsAsNote

(* The acts that touch neither an output nor a post.                       *)
LEMMA OthersLandSo ==
  ASSUME NEW a \in Addr, NEW t \in Stamps,
         \/ \E h \in Names : Register(a, t, h)
         \/ PoolNext(a, t) \/ EngagementNext(a, t) \/ CapacityNext(a, t) \/ EpochNext(a, t)
  PROVE  TakenByLedger(NoteAt(lastAt'))
<1> SUFFICES lastAt' = t /\ t >= lastAt /\ UNCHANGED <<burns, seq, posts>>
  BY LandsAsNote
<1>1. CASE \E h \in Names : Register(a, t, h)
  BY <1>1 DEF Register, LandsQuietly, postVars
<1>2. CASE PoolNext(a, t)
  <2>1. UNCHANGED <<seq, posts>>
    BY <1>2, PostFrame
  <2>2. CASE \E amt \in Inputs.amounts, minOut \in Inputs.minOuts :
               SwapBtc(a, t, amt, minOut) \/ SwapPtp(a, t, amt, minOut)
    BY <2>1, <2>2 DEF SwapBtc, SwapPtp, Envelope, LandsQuietly
  <2>3. CASE \E sat, ptp \in Inputs.amounts : LiqAdd(a, t, sat, ptp)
    BY <2>1, <2>3 DEF LiqAdd, Envelope, LandsQuietly
  <2>4. CASE \E shares \in Inputs.shares : LiqRemove(a, t, shares)
    BY <2>1, <2>4 DEF LiqRemove, Envelope, LandsQuietly
  <2> QED BY <1>2, <2>2, <2>3, <2>4 DEF PoolNext
<1>3. CASE EngagementNext(a, t)
  <2>1. UNCHANGED <<seq, posts>>
    BY <1>3, PostFrame
  <2>2. ASSUME NEW kind, NEW p, NEW s, EngagementPlan(kind, a, t, p), CommitEngagement(kind, a, t, p, s)
        PROVE  lastAt' = t /\ t >= lastAt /\ burns' = burns
    BY <2>2 DEF EngagementPlan, Envelope, CommitEngagement, Lands
  <2>3. lastAt' = t /\ t >= lastAt /\ burns' = burns
    BY <1>3, <2>2 DEF EngagementNext, View, Like, Comment
  <2> QED BY <2>1, <2>3
<1>4. CASE CapacityNext(a, t)
  <2>1. UNCHANGED <<seq, posts>>
    BY <1>4, PostFrame
  <2>2. CASE \E ptp \in Inputs.amounts : CapBuy(a, t, ptp)
    BY <2>1, <2>2 DEF CapBuy, Envelope, LandsQuietly
  <2>3. CASE \E mb \in Inputs.mbs : CapPledge(a, t, mb)
    BY <2>1, <2>3 DEF CapPledge, Envelope, LandsQuietly
  <2>4. CASE \E p \in Pids, s \in Inputs.shards : CapProof(a, t, p, s)
    BY <2>1, <2>4 DEF CapProof, Envelope, LandsQuietly
  <2>5. CASE CapClaim(a, t)
    BY <2>1, <2>5 DEF CapClaim, Envelope, LandsQuietly
  <2> QED BY <1>4, <2>2, <2>3, <2>4, <2>5 DEF CapacityNext
<1>5. CASE EpochNext(a, t)
  BY <1>5 DEF EpochNext, RulesSet, CloseEpoch, Envelope, LandsQuietly, Lands, postVars
<1> QED BY <1>1, <1>2, <1>3, <1>4, <1>5

(* The writer's abstract log and the rulebook are one rulebook: whatever   *)
(* lands in the world, Ledger accepts there and applies as the world does  *)
(* (core/replay.mjs actError and applyAct, against what attemptWrite in    *)
(* server/index.mjs leans on).                                             *)
THEOREM RulebookIsLedgers == Spec => LandsAsLedger
<1>1. PostInv /\ [Next]_vars => [LandedAsLedger]_vars
  <2> SUFFICES ASSUME PostInv, Next PROVE LandedAsLedger
    OBVIOUS
  <2>1. PICK a \in Addr, t \in Stamps : Act(a, t)
    BY DEF Next
  <2>2. lastAt' = t /\ lastAt' \in Stamps
    BY <2>1, ActIsStamped
  <2>3. ASSUME NEW act \in IndexedActs(lastAt'), Landing(act) PROVE TakenByLedger(act)
    <3>1. PICK b \in Addr :
            \/ act.k = "claim" /\ BurnClaim(b, act.t, act.ref)
            \/ act.k = "post" /\ \E bytes \in Inputs.bytes, price \in Inputs.prices, d \in Inputs.days :
                                    Post(b, act.t, act.ref, bytes, price, d)
            \/ act.k = "settle" /\ Settle(b, act.t, act.ref)
      BY <2>3 DEF Landing
    <3>2. CASE act.k = "claim"
      <4>1. act.ref \in Txos /\ act = [k |-> "claim", ref |-> act.ref, t |-> act.t]
        BY <3>2 DEF IndexedActs
      <4>2. BurnClaim(b, act.t, act.ref)
        BY <3>1, <3>2
      <4> QED BY <4>1, <4>2, BurnLandsSo
    <3>3. CASE act.k = "post"
      <4>1. act.ref \in Cids /\ act.t \in Stamps /\ act = [k |-> "post", ref |-> act.ref, t |-> act.t]
        BY <2>2, <3>3 DEF IndexedActs
      <4>2. \E bytes \in Inputs.bytes, price \in Inputs.prices, d \in Inputs.days :
              Post(b, act.t, act.ref, bytes, price, d)
        BY <3>1, <3>3
      <4> QED BY <4>1, <4>2, PostLandsSo
    <3>4. CASE act.k = "settle"
      <4>1. act.ref \in Pids /\ act.t \in Stamps /\ act = [k |-> "settle", ref |-> act.ref, t |-> act.t]
        BY <2>2, <3>4 DEF IndexedActs
      <4>2. Settle(b, act.t, act.ref)
        BY <3>1, <3>4
      <4> QED BY <4>1, <4>2, SettleLandsSo
    <3> QED BY <3>2, <3>3, <3>4 DEF IndexedActs
  <2>4. ASSUME \A act \in IndexedActs(lastAt') : ~Landing(act)
        PROVE  TakenByLedger(NoteAt(lastAt'))
    <3>1. lastAt' = t
      BY <2>2
    <3>2. ASSUME NEW o \in Txos, BurnClaim(a, t, o) PROVE FALSE
      <4> DEFINE act == [k |-> "claim", ref |-> o, t |-> t]
      <4>1. act \in IndexedActs(lastAt')
        BY <3>1 DEF IndexedActs
      <4> QED BY <2>4, <3>2, <4>1 DEF Landing
    <3>3. ASSUME NEW c \in Cids, NEW bytes \in Inputs.bytes, NEW price \in Inputs.prices,
                 NEW d \in Inputs.days, Post(a, t, c, bytes, price, d)
          PROVE  FALSE
      <4> DEFINE act == [k |-> "post", ref |-> c, t |-> t]
      <4>1. act \in IndexedActs(lastAt')
        BY <3>1 DEF IndexedActs
      <4> QED BY <2>4, <3>3, <4>1 DEF Landing
    <3>4. ASSUME NEW r \in Pids, Settle(a, t, r) PROVE FALSE
      <4> DEFINE act == [k |-> "settle", ref |-> r, t |-> t]
      <4>1. act \in IndexedActs(lastAt')
        BY <3>1 DEF IndexedActs
      <4> QED BY <2>4, <3>4, <4>1 DEF Landing
    <3>5. CASE IdentityNext(a, t)
      BY <3>2, <3>5, OthersLandSo DEF IdentityNext
    <3>6. CASE WallNext(a, t)
      BY <3>3, <3>4, <3>6, ExtendLandsSo DEF WallNext
    <3>7. CASE PoolNext(a, t) \/ EngagementNext(a, t) \/ CapacityNext(a, t) \/ EpochNext(a, t)
      BY <3>7, OthersLandSo
    <3> QED BY <2>1, <3>5, <3>6, <3>7 DEF Act
  <2> QED BY <2>3, <2>4 DEF LandedAsLedger
<1> QED BY <1>1, PostInvInit, PostInvNext, PTL DEF Spec, LandsAsLedger
=============================================================================
