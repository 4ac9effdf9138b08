------------------------------- MODULE Replay -------------------------------
(***************************************************************************)
(* The rulebook of the network, core/replay.mjs: the world is a pure       *)
(* function of a log of acts, and `applyAct' applies one act whole or      *)
(* refuses it whole.  Every act kind is one action below; its guard is the *)
(* envelope check plus the refusals of the kind's `prepare', its primed    *)
(* variables are the assignments of the kind's `commit'.  A refused act    *)
(* leaves the world alone, so it is a stuttering step.                     *)
(*                                                                         *)
(* Time is not a variable of the world: an act carries a stamp `t', and    *)
(* the only memory of it is the stamp of the last act that landed.         *)
(*                                                                         *)
(* Abstracted: text, dimensions, mime types and hashes; the reporting      *)
(* counters nothing reads (grossNano, joined, acts, proven, dust,          *)
(* tombstones); the act index `i', which module Writer models.  A view's   *)
(* dwell and viewport attestation is taken as already sufficient.          *)
(*                                                                         *)
(* An operator whose name is another's with a suffix (Surplus_RentOnly,    *)
(* Draw_RoundedUp) is a mistake one could make in that other operator.  No *)
(* action uses it: it is there to confirm that a property can fail.        *)
(***************************************************************************)
EXTENDS Integers, Sequences, FiniteSets, FiniteSetsExt

CONSTANTS
  Addr,        \* the addresses that may act
  NoAddr,      \* the absent address
  Names,       \* confusable skeletons of handles
  Cids,        \* content addresses of pictures
  Txos,        \* transaction outputs that destroyed bitcoin
  TxoSat,      \* what each of them destroyed
  RuleKey,     \* the one address that may send rulesSet, or NoAddr
  Score,       \* Score[a, k, c, s]: rendezvous score of slot k of node a
  Params,      \* the params edition (core/params.mjs), see ParamsAssumption
  Inputs,      \* the field values acts carry, see InputsAssumption
  Stamps,      \* bound: the timestamps acts carry
  MaxPosts,    \* bound: posts ever published
  MaxEpoch     \* bound: epochs ever closed

Pos == Nat \ {0}

ASSUME BoundsAssumption ==
  /\ Stamps \subseteq Pos /\ MaxPosts \in Nat /\ MaxEpoch \in Nat
  /\ NoAddr \notin Addr
  /\ RuleKey \in Addr \cup {NoAddr}
  /\ IsFiniteSet(Addr)
  /\ TxoSat \in [Txos -> Pos]

Leg == {"creator", "burn", "capacity", "treasury"}

(* core/params.mjs assertInvariants: the splits are the whole of a fee,    *)
(* the publish vector pays no creator, every price is positive and the     *)
(* emission coupling is below one.                                         *)
ASSUME ParamsAssumption ==
  /\ Params \in
       [bps : Pos, fee : [Leg -> Nat], publish : [Leg -> Nat], publishBase : Pos,
        rentPerMbDay : Pos, replication : Pos, capCoin : Pos, bytesPerMb : Pos,
        shardBytes : Pos, maxBytes : Pos, likeBps : Pos, commentBps : Pos,
        minSettlement : Pos, priceMin : Pos, priceMax : Nat, lifetime : Pos,
        grace : Nat, epochLength : Pos, cooldown : Nat, pairCap : Pos,
        swapFeeBps : Nat, satPerBtc : Pos, maxMoveBps : Nat, quorum : Nat,
        bondPerGb : Pos, accountBond : Pos, mbPerGb : Pos, kappa : Pos,
        spikeBps : Nat, medianEpochs : Pos, epochEmission : Pos, decayNum : Nat,
        decayDen : Pos, decayEpochs : Pos, maxSupply : Pos, genesisSat : Pos,
        genesisPtp : Pos, minLiquidity : Pos, genesisRate : Pos, slotMb : Pos,
        maxSlots : Pos]
  /\ Params.fee.creator + Params.fee.burn + Params.fee.capacity
       + Params.fee.treasury = Params.bps
  /\ Params.publish.creator = 0
  /\ Params.publish.burn + Params.publish.capacity
       + Params.publish.treasury = Params.bps
  /\ Params.genesisPtp <= Params.maxSupply
  /\ Params.kappa < Params.bps /\ Params.swapFeeBps < Params.bps
  /\ Params.maxMoveBps < Params.bps

ASSUME InputsAssumption ==
  Inputs \in
    [amounts : SUBSET Pos, minOuts : SUBSET Nat, shares : SUBSET Pos, bytes : SUBSET Pos,
     days : SUBSET Pos, prices : SUBSET Nat, seqs : SUBSET Nat, mbs : SUBSET Pos,
     shards : SUBSET Nat, froms : SUBSET Nat,
     oracles : SUBSET [listed : BOOLEAN, eur : Nat, sources : Seq(Nat)]]

VARIABLES
  joined,      \* addresses with an account row
  accounts,    \* sat, ptp, cap, shares and the last view sequence of each
  handles,     \* which address holds each name
  burns,       \* outputs already claimed
  pool,        \* the one pool: sat, ptp, shares, locked
  supply,      \* emitted and burned
  treasury,    \* the treasury's PTP
  pot,         \* capacity.potPtp
  bonds,       \* capacity.bondsPtp
  providers,   \* capacity.providers: pledge, bond and the epoch's proofs
  posts,       \* author, cid, bytes, price, expires, state of each post
  escrow,      \* holding, serving, capUnits and claimedUnits of each post
  credit,      \* creditWei of each post
  proofs,      \* accepted capacity proofs of each post, in order
  tally,       \* views, unique viewers, likes, comments of each post
  views,       \* the (viewer, post) ledger
  cids,        \* which unsettled post holds each cid (0: none)
  seq,         \* posts ever published
  epoch,       \* number, start, sealed rate, burn
  landed,      \* epoch.acts, as a bag of the engagement acts
  history,     \* the burn of the last closed epochs
  rules,       \* the rules in force and the scheduled change
  lastAt       \* log.lastAt

moneyVars == <<pool, supply, treasury, pot, bonds>>
postVars  == <<posts, escrow, credit, proofs, tally, cids, seq>>
epochVars == <<landed, history, rules>>
vars == <<joined, accounts, handles, burns, moneyVars, providers, postVars,
          views, epoch, epochVars, lastAt>>

Pids   == 1 .. MaxPosts
Engagement == {"view", "like", "comment"}

-----------------------------------------------------------------------------
(* Prices and splits: core/pricing.mjs, and the two tariffs of replay.mjs. *)

CeilDiv(a, b) == (a + b - 1) \div b

(* needRate: a rate with a zero leg prices nothing and refuses the act.    *)
RateUsable(r) == r.eur > 0 /\ r.poolSat > 0 /\ r.poolPtp > 0

(* One fused rational, truncated, and never zero for a non-zero price.     *)
PriceOf(nano, r) ==
  LET wei == (nano * Params.satPerBtc * r.poolPtp) \div (r.eur * r.poolSat)
  IN  IF nano = 0 THEN 0 ELSE IF wei = 0 THEN 1 ELSE wei

(* Every leg truncates; the burn takes what truncation left.               *)
SplitFee(total, vector) ==
  LET leg(l) == (total * vector[l]) \div Params.bps
  IN  [creator  |-> leg("creator"),
       capacity |-> leg("capacity"),
       treasury |-> leg("treasury"),
       burn     |-> total - leg("creator") - leg("capacity") - leg("treasury")]

ActionPriceNanoEur(price, kind) ==
  CASE kind = "view"    -> price
    [] kind = "like"    -> (price * Params.likeBps) \div Params.bps
    [] kind = "comment" -> (price * Params.commentBps) \div Params.bps

RentNanoEur(bytes, days) ==
  CeilDiv(bytes * days * Params.replication * Params.rentPerMbDay, Params.bytesPerMb)

CapUnitsFor(bytes, days) ==
  CeilDiv(bytes * days * Params.replication * Params.capCoin, Params.bytesPerMb)

CapUnitsForWei(wei, r) ==
  (wei * r.eur * r.poolSat * Params.capCoin)
    \div (Params.satPerBtc * r.poolPtp * Params.rentPerMbDay)

(* The k-th smallest of the values s has at the indices I.                 *)
Kth(s, I, k) ==
  CHOOSE v \in {s[i] : i \in I} :
    /\ Cardinality({i \in I : s[i] < v}) < k
    /\ Cardinality({i \in I : s[i] <= v}) >= k

(* medianBurn and medianOf: the middle, or the two middles' floored mean.  *)
MedianOf(s, I) ==
  LET n   == Cardinality(I)
      mid == n \div 2
  IN  IF n = 0 THEN 0
      ELSE IF n % 2 = 1 THEN Kth(s, I, mid + 1)
      ELSE (Kth(s, I, mid) + Kth(s, I, mid + 1)) \div 2

(* sealRate: the median of the listed sources, or the bare number where no *)
(* list came, clamped around the previous rate; 0 stands for ORACLE_STALE. *)
(* The pool leg is the live pool at the seal.                              *)
Clamped(eur, prev) ==
  LET hi == (prev * (Params.bps + Params.maxMoveBps)) \div Params.bps
      lo == (prev * (Params.bps - Params.maxMoveBps)) \div Params.bps
  IN  IF eur > hi THEN hi ELSE IF eur < lo THEN lo ELSE eur

SealedEur(oracle, prev) ==
  LET usable == {i \in DOMAIN oracle.sources : oracle.sources[i] > 0}
      bare   == IF oracle.eur > 0 THEN oracle.eur ELSE prev
      eur    == IF oracle.listed /\ usable # {} THEN MedianOf(oracle.sources, usable) ELSE bare
  IN  IF oracle.listed /\ Cardinality(usable) < Params.quorum THEN 0 ELSE Clamped(eur, prev)

SealRate(p, eur) == [eur |-> eur, poolSat |-> p.sat, poolPtp |-> p.ptp]

(* emission: what an epoch may mint, the coupling capped by the schedule.  *)
Power(b, n) ==
  LET pow[i \in 0 .. n] == IF i = 0 THEN 1 ELSE b * pow[i - 1]
  IN  pow[n]

ScheduledCap(n) ==
  LET years == n \div Params.decayEpochs
  IN  (Params.epochEmission * Power(Params.decayNum, years)) \div Power(Params.decayDen, years)

Emission(n, burned, median) ==
  LET ceiling   == (Params.spikeBps * median) \div Params.bps
      effective == IF median > 0 /\ burned > ceiling THEN ceiling ELSE burned
      coupled   == (Params.kappa * effective) \div Params.bps
  IN  IF coupled < ScheduledCap(n) THEN coupled ELSE ScheduledCap(n)
-----------------------------------------------------------------------------
(* The pool: core/amm.mjs.                                                 *)

Isqrt(n) == CHOOSE r \in 0 .. n : r * r <= n /\ n < (r + 1) * (r + 1)

AmountOut(amountIn, reserveIn, reserveOut) ==
  LET inWithFee == amountIn * (Params.bps - Params.swapFeeBps)
  IN  (reserveOut * inWithFee) \div (reserveIn * Params.bps + inWithFee)

GenesisPool ==
  [sat |-> Params.genesisSat, ptp |-> Params.genesisPtp,
   shares |-> Isqrt(Params.genesisSat * Params.genesisPtp),
   locked |-> Params.minLiquidity]

Taken_Floored(p, minted, reserve) == (minted * reserve) \div p.shares

(* addLiquidity takes the proportional part of an offer, rounded up, for   *)
(* shares rounded down.                                                    *)
Taken(p, minted, reserve) == CeilDiv(minted * reserve, p.shares)

SharesFor(p, sat, ptp) ==
  LET bySat == (sat * p.shares) \div p.sat
      byPtp == (ptp * p.shares) \div p.ptp
  IN  IF bySat < byPtp THEN bySat ELSE byPtp
-----------------------------------------------------------------------------
(* Placement: placementFor ranks virtual slots by score, slots weighted by *)
(* the pledge, and keeps the first `replication' distinct nodes.           *)

PlacementSlots(mb) ==
  LET n == CeilDiv(mb, Params.slotMb)
  IN  IF n > Params.maxSlots THEN Params.maxSlots ELSE n

BestScore(a, c, s) ==
  Max({Score[a, k, c, s] : k \in 0 .. PlacementSlots(providers[a].mb) - 1})

Placed(a, c, s) ==
  /\ providers[a].mb > 0
  /\ Cardinality({b \in Addr : /\ providers[b].mb > 0
                               /\ BestScore(b, c, s) > BestScore(a, c, s)})
       < Params.replication

Shards(bytes) == CeilDiv(bytes, Params.shardBytes)

ProofUnits(bytes, s) ==
  LET left == bytes - s * Params.shardBytes
  IN  CeilDiv((IF left < Params.shardBytes THEN left ELSE Params.shardBytes)
                * Params.capCoin, Params.bytesPerMb)
-----------------------------------------------------------------------------
NewAccount == [sat |-> 0, ptp |-> 0, cap |-> 0, shares |-> 0, viewSeq |-> -1]
NoProvider == [mb |-> 0, bondPtp |-> 0, bondNano |-> 0, provenEpoch |-> 0, provenInEpoch |-> 0]
NoPost     == [author |-> NoAddr, cid |-> 0, bytes |-> 0, price |-> 0, expires |-> 0,
               state |-> "none"]
NoEscrow   == [holding |-> 0, serving |-> 0, capUnits |-> 0, claimed |-> 0]
NoTally    == [views |-> 0, unique |-> 0, likes |-> 0, comments |-> 0]
NoPair     == [at |-> 0, n |-> 0, epoch |-> 0, viewed |-> FALSE, liked |-> FALSE]

(* emptyWorld                                                              *)
Init ==
  /\ joined    = {}
  /\ accounts  = [a \in Addr |-> NewAccount]
  /\ handles   = [h \in Names |-> NoAddr]
  /\ burns     = {}
  /\ pool      = GenesisPool
  /\ supply    = [emitted |-> Params.genesisPtp, burned |-> 0]
  /\ treasury  = 0
  /\ pot       = 0
  /\ bonds     = 0
  /\ providers = [a \in Addr |-> NoProvider]
  /\ posts     = [p \in Pids |-> NoPost]
  /\ escrow    = [p \in Pids |-> NoEscrow]
  /\ credit    = [p \in Pids |-> 0]
  /\ proofs    = [p \in Pids |-> <<>>]
  /\ tally     = [p \in Pids |-> NoTally]
  /\ views     = [x \in Addr \X Pids |-> NoPair]
  /\ cids      = [c \in Cids |-> 0]
  /\ seq       = 0
  /\ epoch     = [n |-> 0, startedAt |-> 0, burned |-> 0,
                  rate |-> SealRate(GenesisPool, Params.genesisRate)]
  /\ landed    = [x \in Addr \X Pids \X Engagement |-> 0]
  /\ history   = <<>>
  /\ rules     = [fromEpoch |-> 0, next |-> 0]
  /\ lastAt    = 0

(* envelopeProblem: the stamp does not go backwards and, for every kind    *)
(* but register, the account exists.                                       *)
Envelope(a, t) == t >= lastAt /\ a \in joined

(* The tail of applyAct.  The genesis epoch starts with its first act.     *)
Started(e, t) == IF e.startedAt = 0 THEN [e EXCEPT !.startedAt = t] ELSE e

Lands(t) == lastAt' = t

LandsQuietly(t) == lastAt' = t /\ epoch' = Started(epoch, t)

Burned(e, n) == [e EXCEPT !.burned = @ + n]
-----------------------------------------------------------------------------
Register(a, t, name) ==
  /\ t >= lastAt
  /\ a \notin joined
  /\ handles[name] = NoAddr
  /\ joined' = joined \cup {a}
  /\ accounts' = [accounts EXCEPT ![a] = NewAccount]
  /\ handles' = [handles EXCEPT ![name] = a]
  /\ LandsQuietly(t)
  /\ UNCHANGED <<burns, moneyVars, providers, postVars, views, epochVars>>

BurnTaken(o) == o \in burns

BurnClaim(a, t, o) ==
  /\ Envelope(a, t)
  /\ ~BurnTaken(o)
  /\ burns' = burns \cup {o}
  /\ accounts' = [accounts EXCEPT ![a].sat = @ + TxoSat[o]]
  /\ LandsQuietly(t)
  /\ UNCHANGED <<joined, handles, moneyVars, providers, postVars, views, epochVars>>

(* The pool reprices on every trade, so a fill below minOut is refused.    *)
SwapBtc(a, t, amt, minOut) ==
  LET out == AmountOut(amt, pool.sat, pool.ptp)
  IN  /\ Envelope(a, t)
      /\ accounts[a].sat >= amt
      /\ out > 0 /\ out >= minOut
      /\ accounts' = [accounts EXCEPT ![a].sat = @ - amt, ![a].ptp = @ + out]
      /\ pool' = [pool EXCEPT !.sat = @ + amt, !.ptp = @ - out]
      /\ LandsQuietly(t)
      /\ UNCHANGED <<joined, handles, burns, supply, treasury, pot, bonds, providers,
                     postVars, views, epochVars>>

SwapPtp(a, t, amt, minOut) ==
  LET out == AmountOut(amt, pool.ptp, pool.sat)
  IN  /\ Envelope(a, t)
      /\ accounts[a].ptp >= amt
      /\ out > 0 /\ out >= minOut
      /\ accounts' = [accounts EXCEPT ![a].ptp = @ - amt, ![a].sat = @ + out]
      /\ pool' = [pool EXCEPT !.ptp = @ + amt, !.sat = @ - out]
      /\ LandsQuietly(t)
      /\ UNCHANGED <<joined, handles, burns, supply, treasury, pot, bonds, providers,
                     postVars, views, epochVars>>

LiqAdd(a, t, sat, ptp) ==
  LET minted  == SharesFor(pool, sat, ptp)
      usedSat == Taken(pool, minted, pool.sat)
      usedPtp == Taken(pool, minted, pool.ptp)
  IN  /\ Envelope(a, t)
      /\ accounts[a].sat >= sat /\ accounts[a].ptp >= ptp
      /\ minted > 0 /\ usedSat <= sat /\ usedPtp <= ptp
      /\ accounts' = [accounts EXCEPT ![a].sat = @ - usedSat, ![a].ptp = @ - usedPtp,
                                      ![a].shares = @ + minted]
      /\ pool' = [pool EXCEPT !.sat = @ + usedSat, !.ptp = @ + usedPtp,
                              !.shares = @ + minted]
      /\ LandsQuietly(t)
      /\ UNCHANGED <<joined, handles, burns, supply, treasury, pot, bonds, providers,
                     postVars, views, epochVars>>

LiqRemove(a, t, shares) ==
  LET sat == (shares * pool.sat) \div pool.shares
      ptp == (shares * pool.ptp) \div pool.shares
  IN  /\ Envelope(a, t)
      /\ accounts[a].shares >= shares
      /\ shares <= pool.shares - pool.locked
      /\ sat > 0 \/ ptp > 0
      /\ accounts' = [accounts EXCEPT ![a].shares = @ - shares, ![a].sat = @ + sat,
                                      ![a].ptp = @ + ptp]
      /\ pool' = [pool EXCEPT !.sat = @ - sat, !.ptp = @ - ptp, !.shares = @ - shares]
      /\ LandsQuietly(t)
      /\ UNCHANGED <<joined, handles, burns, supply, treasury, pot, bonds, providers,
                     postVars, views, epochVars>>
-----------------------------------------------------------------------------
Open_Forever(p) == posts[p].state # "none"

(* Published and not settled; a lapsed post is open until it is settled.   *)
Open(p) == posts[p].state = "live"
Live(p, t) == Open(p) /\ t < posts[p].expires

Affords_AnyCap(a, ptp, cap) == accounts[a].ptp >= ptp

Affords(a, ptp, cap) == accounts[a].ptp >= ptp /\ accounts[a].cap >= cap

Rent(bytes, days) == PriceOf(RentNanoEur(bytes, days), epoch.rate)

(* The publish fee splits into burn, pot and treasury; the rent and the    *)
(* pot's leg of the fee are what the post escrows for its holders.         *)
Post(a, t, c, bytes, price, days) ==
  LET fee   == PriceOf(Params.publishBase, epoch.rate)
      rent  == Rent(bytes, days)
      units == CapUnitsFor(bytes, days)
      legs  == SplitFee(fee, Params.publish)
      p     == seq + 1
  IN  /\ Envelope(a, t)
      /\ seq < MaxPosts
      /\ cids[c] = 0
      /\ bytes <= Params.maxBytes
      /\ price \in Params.priceMin .. Params.priceMax
      /\ RateUsable(epoch.rate)
      /\ Affords(a, fee + rent, units)
      /\ accounts' = [accounts EXCEPT ![a].ptp = @ - fee - rent, ![a].cap = @ - units]
      /\ seq' = p
      /\ supply' = [supply EXCEPT !.burned = @ + legs.burn]
      /\ epoch' = Burned(Started(epoch, t), legs.burn)
      /\ treasury' = treasury + legs.treasury
      /\ pot' = pot + legs.capacity + rent
      /\ posts' = [posts EXCEPT ![p] =
           [author |-> a, cid |-> c, bytes |-> bytes, price |-> price,
            expires |-> t + days * Params.lifetime, state |-> "live"]]
      /\ escrow' = [escrow EXCEPT ![p] =
           [holding |-> rent, serving |-> legs.capacity, capUnits |-> units, claimed |-> 0]]
      /\ cids' = [cids EXCEPT ![c] = p]
      /\ Lands(t)
      /\ UNCHANGED <<joined, handles, burns, pool, bonds, providers, credit, proofs,
                     tally, views, epochVars>>

(* A lapsed post may still be extended until somebody settles it.          *)
Extend(a, t, p, days) ==
  LET rent  == Rent(posts[p].bytes, days)
      units == CapUnitsFor(posts[p].bytes, days)
  IN  /\ Envelope(a, t)
      /\ Open(p)
      /\ posts[p].author = a
      /\ RateUsable(epoch.rate)
      /\ Affords(a, rent, units)
      /\ accounts' = [accounts EXCEPT ![a].ptp = @ - rent, ![a].cap = @ - units]
      /\ posts' = [posts EXCEPT ![p].expires = @ + days * Params.lifetime]
      /\ escrow' = [escrow EXCEPT ![p].capUnits = @ + units, ![p].holding = @ + rent]
      /\ pot' = pot + rent
      /\ LandsQuietly(t)
      /\ UNCHANGED <<joined, handles, burns, pool, supply, treasury, bonds, providers,
                     credit, proofs, tally, cids, seq, views, epochVars>>
-----------------------------------------------------------------------------
EngagementFee(p, kind) == PriceOf(ActionPriceNanoEur(posts[p].price, kind), epoch.rate)

EngagementPlan(kind, a, t, p) ==
  /\ Envelope(a, t)
  /\ Live(p, t)
  /\ posts[p].author # a
  /\ RateUsable(epoch.rate)
  /\ accounts[a].ptp >= EngagementFee(p, kind)

CommitEngagement(kind, a, t, p, viewSeq) ==
  LET fee  == EngagementFee(p, kind)
      legs == SplitFee(fee, Params.fee)
  IN  /\ accounts' = [accounts EXCEPT ![a].ptp = @ - fee, ![a].viewSeq = viewSeq]
      /\ credit' = [credit EXCEPT ![p] = @ + legs.creator]
      /\ escrow' = [escrow EXCEPT ![p].serving = @ + legs.capacity]
      /\ pot' = pot + legs.capacity
      /\ treasury' = treasury + legs.treasury
      /\ supply' = [supply EXCEPT !.burned = @ + legs.burn]
      /\ epoch' = Burned(Started(epoch, t), legs.burn)
      /\ landed' = [landed EXCEPT ![<<a, p, kind>>] = @ + 1]
      /\ Lands(t)
      /\ UNCHANGED <<joined, handles, burns, pool, bonds, providers, posts, proofs, cids,
                     seq, history, rules>>

(* The (viewer, post) row exists once the pair has viewed or liked.        *)
Known(pair) == pair.viewed \/ pair.liked
ViewsThisEpoch(pair) == IF Known(pair) /\ pair.epoch = epoch.n THEN pair.n ELSE 0

Viewed(pair, t) ==
  [at |-> t, n |-> ViewsThisEpoch(pair) + 1, epoch |-> epoch.n,
   viewed |-> TRUE, liked |-> pair.liked]

Liked_Fresh(pair) ==
  [NoPair EXCEPT !.epoch = epoch.n, !.viewed = pair.viewed, !.liked = TRUE]

(* A like keeps the row's pacing; a first like opens a row that holds none. *)
Liked(pair) ==
  IF Known(pair) THEN [pair EXCEPT !.liked = TRUE]
  ELSE [NoPair EXCEPT !.epoch = epoch.n, !.liked = TRUE]

View(a, t, p, s) ==
  LET pair == views[<<a, p>>]
  IN  /\ EngagementPlan("view", a, t, p)
      /\ s > accounts[a].viewSeq
      /\ Known(pair) => /\ t - pair.at >= Params.cooldown
                        /\ ViewsThisEpoch(pair) < Params.pairCap
      /\ tally' = [tally EXCEPT ![p].views = @ + 1,
                                ![p].unique = IF pair.viewed THEN @ ELSE @ + 1]
      /\ views' = [views EXCEPT ![<<a, p>>] = Viewed(pair, t)]
      /\ CommitEngagement("view", a, t, p, s)

Like(a, t, p) ==
  LET pair == views[<<a, p>>]
  IN  /\ EngagementPlan("like", a, t, p)
      /\ ~pair.liked
      /\ tally' = [tally EXCEPT ![p].likes = @ + 1]
      /\ views' = [views EXCEPT ![<<a, p>>] = Liked(pair)]
      /\ CommitEngagement("like", a, t, p, accounts[a].viewSeq)

Comment(a, t, p) ==
  /\ EngagementPlan("comment", a, t, p)
  /\ tally' = [tally EXCEPT ![p].comments = @ + 1]
  /\ views' = views
  /\ CommitEngagement("comment", a, t, p, accounts[a].viewSeq)

Held(e) == e.holding + e.serving

Surplus_RentOnly(p) == escrow[p].holding

Surplus(p) == Held(escrow[p])

Released_Never(p) == cids

Released(p) ==
  [c \in Cids |-> IF c = posts[p].cid /\ cids[c] = p THEN 0 ELSE cids[c]]

(* Anybody may settle a lapsed post.  The author's credit is paid whole or *)
(* swept whole; the escrow left over is destroyed.                         *)
Settle(a, t, p) ==
  LET floor   == PriceOf(Params.minSettlement, epoch.rate)
      paid    == IF credit[p] >= floor THEN credit[p] ELSE 0
      surplus == Surplus(p)
      burnt   == credit[p] - paid + surplus
  IN  /\ Envelope(a, t)
      /\ Open(p)
      /\ t >= posts[p].expires + Params.grace
      /\ RateUsable(epoch.rate)
      /\ accounts' = [accounts EXCEPT ![posts[p].author].ptp = @ + paid]
      /\ supply' = [supply EXCEPT !.burned = @ + burnt]
      /\ epoch' = Burned(Started(epoch, t), burnt)
      /\ pot' = pot - surplus
      /\ credit' = [credit EXCEPT ![p] = 0]
      /\ escrow' = [escrow EXCEPT ![p].holding = 0, ![p].serving = 0]
      /\ posts' = [posts EXCEPT ![p].state = "settled"]
      /\ cids' = Released(p)
      /\ Lands(t)
      /\ UNCHANGED <<joined, handles, burns, pool, treasury, bonds, providers, proofs,
                     tally, seq, views, epochVars>>
-----------------------------------------------------------------------------
(* CAP is bought at the rent tariff.  The PTP is destroyed, but it does    *)
(* not count as burn of the epoch, so no emission follows from it.         *)
CapBuy(a, t, ptp) ==
  LET units == CapUnitsForWei(ptp, epoch.rate)
  IN  /\ Envelope(a, t)
      /\ accounts[a].ptp >= ptp
      /\ RateUsable(epoch.rate)
      /\ units > 0
      /\ accounts' = [accounts EXCEPT ![a].ptp = @ - ptp, ![a].cap = @ + units]
      /\ supply' = [supply EXCEPT !.burned = @ + ptp]
      /\ LandsQuietly(t)
      /\ UNCHANGED <<joined, handles, burns, pool, treasury, pot, bonds, providers,
                     postVars, views, epochVars>>

RequiredNano(mb) ==
  LET sized == CeilDiv(mb * Params.bondPerGb, Params.mbPerGb)
  IN  IF sized > Params.accountBond THEN sized ELSE Params.accountBond

BondDue(a, mb) ==
  IF RequiredNano(mb) > providers[a].bondNano
  THEN RequiredNano(mb) - providers[a].bondNano ELSE 0

(* A pledge sets the size; only the part of its bond not paid before is    *)
(* charged, and what was paid is never given back.                         *)
CapPledge(a, t, mb) ==
  LET due  == BondDue(a, mb)
      bond == PriceOf(due, epoch.rate)
  IN  /\ Envelope(a, t)
      /\ due > 0 => RateUsable(epoch.rate)
      /\ accounts[a].ptp >= bond
      /\ accounts' = [accounts EXCEPT ![a].ptp = @ - bond]
      /\ bonds' = bonds + bond
      /\ providers' = [providers EXCEPT ![a].mb = mb, ![a].bondPtp = @ + bond,
                                        ![a].bondNano = @ + due]
      /\ LandsQuietly(t)
      /\ UNCHANGED <<joined, handles, burns, pool, supply, treasury, pot, postVars,
                     views, epochVars>>

ProvenInEpoch_Forgotten(a) == 0

ProvenInEpoch(a) ==
  IF providers[a].provenEpoch = epoch.n THEN providers[a].provenInEpoch ELSE 0

CapProof(a, t, p, s) ==
  LET units == ProofUnits(posts[p].bytes, s)
  IN  /\ Envelope(a, t)
      /\ providers[a].mb > 0
      /\ Live(p, t)
      /\ s < Shards(posts[p].bytes)
      /\ Placed(a, posts[p].cid, s)
      /\ \A i \in DOMAIN proofs[p] :
           ~ (/\ proofs[p][i].by = a
              /\ proofs[p][i].shard = s
              /\ proofs[p][i].epoch = epoch.n)
      /\ ProvenInEpoch(a) + units <= providers[a].mb * Params.capCoin
      /\ proofs' = [proofs EXCEPT ![p] =
           Append(@, [by |-> a, shard |-> s, epoch |-> epoch.n, units |-> units,
                      claimed |-> FALSE])]
      /\ providers' = [providers EXCEPT ![a].provenEpoch = epoch.n,
                                        ![a].provenInEpoch = ProvenInEpoch(a) + units]
      /\ LandsQuietly(t)
      /\ UNCHANGED <<joined, accounts, handles, burns, moneyVars, posts, escrow, credit,
                     tally, cids, seq, views, epochVars>>

Draw_Unclamped(e, units) ==
  LET unclaimed == IF e.capUnits > e.claimed THEN e.capUnits - e.claimed ELSE 0
      share     == IF unclaimed > 0 THEN (Held(e) * units) \div unclaimed ELSE 0
      holding   == IF share > e.holding THEN e.holding ELSE share
  IN  [e EXCEPT !.holding = @ - holding, !.serving = @ - (share - holding),
                !.claimed = @ + units]

Draw_RoundedUp(e, units) ==
  LET unclaimed == IF e.capUnits > e.claimed THEN e.capUnits - e.claimed ELSE 0
      taken     == IF units > unclaimed THEN unclaimed ELSE units
      share     == IF unclaimed > 0 THEN CeilDiv(Held(e) * taken, unclaimed) ELSE 0
      holding   == IF share > e.holding THEN e.holding ELSE share
  IN  [e EXCEPT !.holding = @ - holding, !.serving = @ - (share - holding),
                !.claimed = @ + taken]

(* One proof's draw: the same part of the escrow as its units are of the   *)
(* units not yet claimed, taken from the rent first.                       *)
Draw(e, units) ==
  LET unclaimed == IF e.capUnits > e.claimed THEN e.capUnits - e.claimed ELSE 0
      taken     == IF units > unclaimed THEN unclaimed ELSE units
      share     == IF unclaimed > 0 THEN (Held(e) * taken) \div unclaimed ELSE 0
      holding   == IF share > e.holding THEN e.holding ELSE share
  IN  [e EXCEPT !.holding = @ - holding, !.serving = @ - (share - holding),
                !.claimed = @ + taken]

Unclaimed(a, p) ==
  {i \in DOMAIN proofs[p] : proofs[p][i].by = a /\ ~proofs[p][i].claimed}

(* The escrow of a post after its proofs by `a' have drawn, in order.      *)
Drawn(a, p) ==
  LET after[i \in 0 .. Len(proofs[p])] ==
        IF i = 0 THEN escrow[p]
        ELSE IF i \in Unclaimed(a, p) THEN Draw(after[i - 1], proofs[p][i].units)
        ELSE after[i - 1]
  IN  after[Len(proofs[p])]

UnitsOf(p, I) == SumFunction([i \in I |-> proofs[p][i].units])

Claimable(a) == {p \in Pids : posts[p].state = "live" /\ Unclaimed(a, p) # {}}

CapClaim(a, t) ==
  LET total  == SumFunction([p \in Claimable(a) |-> Held(escrow[p]) - Held(Drawn(a, p))])
      minted == SumFunction([p \in Claimable(a) |-> UnitsOf(p, Unclaimed(a, p))])
  IN  /\ Envelope(a, t)
      /\ total > 0
      /\ escrow' = [p \in Pids |-> IF p \in Claimable(a) THEN Drawn(a, p) ELSE escrow[p]]
      /\ proofs' = [p \in Pids |->
           [i \in DOMAIN proofs[p] |->
              IF p \in Claimable(a) /\ i \in Unclaimed(a, p)
              THEN [proofs[p][i] EXCEPT !.claimed = TRUE] ELSE proofs[p][i]]]
      /\ pot' = pot - total
      /\ accounts' = [accounts EXCEPT ![a].ptp = @ + total, ![a].cap = @ + minted]
      /\ LandsQuietly(t)
      /\ UNCHANGED <<joined, handles, burns, pool, supply, treasury, bonds, providers,
                     posts, credit, tally, cids, seq, views, epochVars>>
-----------------------------------------------------------------------------
(* Only the rule key schedules a change, and only for an epoch to come.    *)
RulesSet(a, t, from) ==
  /\ Envelope(a, t)
  /\ a = RuleKey
  /\ from > epoch.n
  /\ rules' = [rules EXCEPT !.next = from]
  /\ LandsQuietly(t)
  /\ UNCHANGED <<joined, accounts, handles, burns, moneyVars, providers, postVars,
                 views, landed, history>>

(* rules/v1: the burn that other people's engagement with an author's      *)
(* posts caused this epoch, recomputed from the acts that landed.          *)
EngagementBurn(p, kind) == SplitFee(EngagementFee(p, kind), Params.fee).burn

Credited(author) ==
  SumFunction([x \in {y \in DOMAIN landed : landed[y] > 0} |->
    IF posts[x[2]].author = author THEN landed[x] * EngagementBurn(x[2], x[3]) ELSE 0])

Rebate(author) == (Params.kappa * Credited(author)) \div Params.bps

EpochMint_Pot(author) ==
  LET asked   == SumFunction([b \in Addr |-> Rebate(b)])
      allowed == Emission(epoch.n, epoch.burned, MedianOf(history, DOMAIN history))
  IN  IF asked = 0 THEN 0 ELSE (Rebate(author) * allowed) \div asked

(* applyEpochRail: all in full, or all scaled by one fraction, rounded down. *)
EpochMint(author) ==
  LET asked   == SumFunction([b \in Addr |-> Rebate(b)])
      allowed == Emission(epoch.n, epoch.burned, MedianOf(history, DOMAIN history))
  IN  IF asked <= allowed THEN Rebate(author) ELSE (Rebate(author) * allowed) \div asked

(* closeEpoch clamps the round once more to what maxSupply leaves.         *)
EpochShare(author) ==
  LET total == SumFunction([b \in Addr |-> EpochMint(b)])
      room  == Params.maxSupply - supply.emitted
  IN  IF total <= room THEN EpochMint(author)
      ELSE IF room > 0 THEN (EpochMint(author) * room) \div total ELSE 0

LastOf(s, n) == IF Len(s) <= n THEN s ELSE SubSeq(s, Len(s) - n + 1, Len(s))

NextEpoch_BurnKept(t, eur) ==
  [n |-> epoch.n + 1, startedAt |-> t, burned |-> epoch.burned,
   rate |-> SealRate(pool, eur)]

NextEpoch(t, eur) ==
  [n |-> epoch.n + 1, startedAt |-> t, burned |-> 0, rate |-> SealRate(pool, eur)]

NoActs == [x \in DOMAIN landed |-> 0]

RulesAt_Late(n) ==
  IF rules.next # 0 /\ rules.next < n
  THEN [fromEpoch |-> rules.next, next |-> 0] ELSE rules

RulesAt(n) ==
  IF rules.next # 0 /\ rules.next <= n
  THEN [fromEpoch |-> rules.next, next |-> 0] ELSE rules

Minted_Asked == SumFunction([b \in joined |-> EpochMint(b)])

Minted == SumFunction([b \in joined |-> EpochShare(b)])

CloseEpoch(a, t, oracle) ==
  LET eur == SealedEur(oracle, epoch.rate.eur)
  IN  /\ Envelope(a, t)
      /\ epoch.n < MaxEpoch
      /\ epoch.startedAt # 0
      /\ t >= epoch.startedAt + Params.epochLength
      /\ RateUsable(epoch.rate)
      /\ eur > 0
      /\ accounts' = [b \in Addr |->
           [accounts[b] EXCEPT !.ptp = @ + IF b \in joined THEN EpochShare(b) ELSE 0]]
      /\ supply' = [supply EXCEPT !.emitted = @ + Minted]
      /\ history' = LastOf(Append(history, epoch.burned), Params.medianEpochs)
      /\ epoch' = NextEpoch(t, eur)
      /\ landed' = NoActs
      /\ rules' = RulesAt(epoch.n + 1)
      /\ Lands(t)
      /\ UNCHANGED <<joined, handles, burns, pool, treasury, pot, bonds, providers,
                     postVars, views>>
-----------------------------------------------------------------------------
IdentityNext(a, t) ==
  \/ \E h \in Names : Register(a, t, h)
  \/ \E o \in Txos : BurnClaim(a, t, o)

PoolNext(a, t) ==
  \/ \E amt \in Inputs.amounts, minOut \in Inputs.minOuts :
       SwapBtc(a, t, amt, minOut) \/ SwapPtp(a, t, amt, minOut)
  \/ \E sat, ptp \in Inputs.amounts : LiqAdd(a, t, sat, ptp)
  \/ \E shares \in Inputs.shares : LiqRemove(a, t, shares)

WallNext(a, t) ==
  \/ \E c \in Cids, bytes \in Inputs.bytes, price \in Inputs.prices, d \in Inputs.days :
       Post(a, t, c, bytes, price, d)
  \/ \E p \in Pids, d \in Inputs.days : Extend(a, t, p, d)
  \/ \E p \in Pids : Settle(a, t, p)

EngagementNext(a, t) ==
  \E p \in Pids :
    \/ \E s \in Inputs.seqs : View(a, t, p, s)
    \/ Like(a, t, p)
    \/ Comment(a, t, p)

CapacityNext(a, t) ==
  \/ \E ptp \in Inputs.amounts : CapBuy(a, t, ptp)
  \/ \E mb \in Inputs.mbs : CapPledge(a, t, mb)
  \/ \E p \in Pids, s \in Inputs.shards : CapProof(a, t, p, s)
  \/ CapClaim(a, t)

EpochNext(a, t) ==
  \/ \E from \in Inputs.froms : RulesSet(a, t, from)
  \/ \E oracle \in Inputs.oracles : CloseEpoch(a, t, oracle)

Act(a, t) ==
  \/ IdentityNext(a, t) \/ PoolNext(a, t) \/ WallNext(a, t)
  \/ EngagementNext(a, t) \/ CapacityNext(a, t) \/ EpochNext(a, t)

Next == \E a \in Addr, t \in Stamps : Act(a, t)

Spec == Init /\ [][Next]_vars
-----------------------------------------------------------------------------
MoneyTypeOK ==
  /\ joined \subseteq Addr
  /\ accounts \in [Addr -> [sat : Nat, ptp : Nat, cap : Nat, shares : Nat, viewSeq : Int]]
  /\ handles \in [Names -> Addr \cup {NoAddr}]
  /\ burns \subseteq Txos
  /\ pool \in [sat : Pos, ptp : Pos, shares : Pos, locked : Nat]
  /\ supply \in [emitted : Nat, burned : Nat]
  /\ treasury \in Nat /\ pot \in Nat /\ bonds \in Nat
  /\ providers \in [Addr -> [mb : Nat, bondPtp : Nat, bondNano : Nat, provenEpoch : Nat,
                             provenInEpoch : Nat]]

PostsTypeOK ==
  /\ posts \in [Pids -> [author : Addr \cup {NoAddr}, cid : Cids \cup {0}, bytes : Nat,
                         price : Nat, expires : Nat, state : {"none", "live", "settled"}]]
  /\ cids \in [Cids -> 0 .. MaxPosts]
  /\ seq \in 0 .. MaxPosts

WallTypeOK ==
  /\ escrow \in [Pids -> [holding : Nat, serving : Nat, capUnits : Nat, claimed : Nat]]
  /\ credit \in [Pids -> Nat]
  /\ proofs \in [Pids -> Seq([by : Addr, shard : Nat, epoch : Nat, units : Nat,
                              claimed : BOOLEAN])]
  /\ tally \in [Pids -> [views : Nat, unique : Nat, likes : Nat, comments : Nat]]
  /\ views \in [Addr \X Pids -> [at : Nat, n : Nat, epoch : Nat, viewed : BOOLEAN,
                                 liked : BOOLEAN]]

EpochTypeOK ==
  /\ epoch \in [n : Nat, startedAt : Nat, burned : Nat,
                rate : [eur : Pos, poolSat : Pos, poolPtp : Pos]]
  /\ landed \in [Addr \X Pids \X Engagement -> Nat]
  /\ history \in Seq(Nat)
  /\ rules \in [fromEpoch : Nat, next : Nat]
  /\ lastAt \in Nat

(* No balance, escrow or counter of the world is ever driven below zero,   *)
(* and neither the pool nor a sealed rate ever loses a leg.                *)
TypeOK == MoneyTypeOK /\ PostsTypeOK /\ WallTypeOK /\ EpochTypeOK

(* What the accounts hold between them, what the posts owe their authors   *)
(* and their holders, and what the pledges were charged.                   *)
PtpHeld    == SumFunction([a \in Addr |-> accounts[a].ptp])
SatHeld    == SumFunction([a \in Addr |-> accounts[a].sat])
CreditOwed == SumFunction(credit)
Escrowed   == SumFunction([p \in Pids |-> Held(escrow[p])])
BondsPaid  == SumFunction([a \in Addr |-> providers[a].bondPtp])
SatBurned  == SumFunction([o \in burns |-> TxoSat[o]])

(* Every act moves PTP between named places or destroys it: what was       *)
(* emitted and not burned is exactly what accounts, pool, treasury, pot,   *)
(* bonds and unsettled credits hold between them (replay.mjs, the money    *)
(* legs of every commit).                                                  *)
PtpConserved ==
  supply.emitted - supply.burned = PtpHeld + pool.ptp + treasury + pot + bonds + CreditOwed

(* The capacity pot is one number beside the escrows it is owed to:        *)
(* publishing, extending, engaging, claiming and settling must all move    *)
(* both, and a settled post must leave nothing of itself in either.        *)
PotIsTheEscrows ==
  /\ pot = Escrowed
  /\ \A p \in Pids : posts[p].state = "settled" => Held(escrow[p]) + credit[p] = 0
  /\ bonds = BondsPaid

(* A satoshi enters only with a claimed output, each output once, and no   *)
(* trade, deposit or withdrawal creates or loses one.                      *)
SatConserved == SatHeld + pool.sat = Params.genesisSat + SatBurned

(* The cid index names exactly the unsettled posts, one per picture: a     *)
(* picture is refused while it is up, and free again once settled, also    *)
(* when the same picture has been posted and settled before.               *)
CidIndexExact ==
  /\ \A c \in Cids : cids[c] # 0 => posts[cids[c]].state = "live" /\ posts[cids[c]].cid = c
  /\ \A p \in Pids : posts[p].state = "live" => cids[posts[p].cid] = p

(* The (viewer, post) ledger and the counters on the post are written by   *)
(* different acts and must agree: one like and one unique view per pair.   *)
TallyMatchesLedger ==
  \A p \in Pids :
    /\ tally[p].likes = Cardinality({a \in Addr : views[<<a, p>>].liked})
    /\ tally[p].unique = Cardinality({a \in Addr : views[<<a, p>>].viewed})

(* Whatever a viewer does in between (like, comment, wait for the epoch to *)
(* turn), no pair has more paid views in one epoch than the pair cap.      *)
PairCapHolds == \A a \in Addr, p \in Pids : landed[<<a, p, "view">>] <= Params.pairCap

(* A claim never draws a post past the capacity it sold, and the last unit *)
(* takes the last wei of rent with it.                                     *)
RentFullyDrawn ==
  \A p \in Pids :
    /\ escrow[p].claimed <= escrow[p].capUnits
    /\ escrow[p].claimed = escrow[p].capUnits => escrow[p].holding = 0

(* What a post owes per unit not yet claimed never falls when somebody     *)
(* claims, so claiming early takes nothing from the holders who claim      *)
(* late.                                                                   *)
NoDilution ==
  [][\A p \in Pids :
       LET left(e) == e.capUnits - e.claimed
       IN  escrow'[p].claimed # escrow[p].claimed =>
             Held(escrow'[p]) * left(escrow[p]) >= Held(escrow[p]) * left(escrow'[p])]_vars

(* Growing, shrinking and growing a pledge again never leaves it under-    *)
(* bonded for the size it has.                                             *)
BondCovers == \A a \in Addr : providers[a].mb > 0 => providers[a].bondNano >= RequiredNano(providers[a].mb)

(* The megabyte-days a node had accepted in the current epoch, over posts. *)
Proven(a) ==
  SumFunction([p \in Pids |->
    UnitsOf(p, {i \in DOMAIN proofs[p] : proofs[p][i].by = a /\ proofs[p][i].epoch = epoch.n})])

(* They never exceed what the node's bond paid for, however it resized its *)
(* pledge in between.                                                      *)
ProvenIsBonded ==
  \A a \in Addr :
    Proven(a) * Params.bondPerGb <= providers[a].bondNano * Params.mbPerGb * Params.capCoin

(* Emission never outruns destruction: the net supply, less the burn that  *)
(* may still be rebated at the next close, is never above genesis.         *)
NetSupplyNeverAboveGenesis ==
  supply.emitted - supply.burned + epoch.burned <= Params.genesisPtp

(* The burn that rules/v1 recomputes from the log of the epoch never       *)
(* exceeds the burn that replay counted as it happened.                    *)
CreditedWasBurned == SumFunction([a \in Addr |-> Credited(a)]) <= epoch.burned

(* The rails compose: no round of rebates carries emission past maxSupply. *)
EmittedWithinMaxSupply == supply.emitted <= Params.maxSupply

(* An epoch close hands nobody more than the rebate of the burn that       *)
(* engagement with their own posts caused: nobody is paid out of another   *)
(* author's burn.                                                          *)
RebateIsOfOwnBurn ==
  [][epoch'.n # epoch.n =>
       \A a \in Addr : accounts'[a].ptp - accounts[a].ptp
                         <= (Params.kappa * Credited(a)) \div Params.bps]_vars

(* A scheduled rules change takes effect at its epoch, neither before nor  *)
(* after, and the rules in force are never of an epoch to come.            *)
RulesOnTime ==
  /\ rules.fromEpoch <= epoch.n
  /\ rules.next # 0 => rules.next > epoch.n

(* Money is conserved: the PTP in circulation, the pot against the escrows *)
(* it is owed to, and the satoshis behind the pool; and nothing that holds *)
(* money is ever driven below zero.                                        *)
MoneyConserved == TypeOK /\ PtpConserved /\ PotIsTheEscrows /\ SatConserved

(* What one viewer counts for on one post: the ledger and the counters     *)
(* agree, and the pair stays under its cap.                                *)
PairsCounted == TallyMatchesLedger /\ PairCapHolds

(* What a node may prove is what its bond was charged for.                 *)
PledgesBonded == BondCovers /\ ProvenIsBonded

(* What storage is paid was sold to it, what it proved was bonded.         *)
CapacityHolds == RentFullyDrawn /\ PledgesBonded

(* The rails of the supply together, over money that is conserved.         *)
SupplyWithinRails ==
  /\ MoneyConserved
  /\ NetSupplyNeverAboveGenesis /\ CreditedWasBurned /\ EmittedWithinMaxSupply

(* Settlement is final: a settled post never reopens, is never paid again  *)
(* and never collects another fee.                                         *)
SettledIsFinal ==
  [][\A p \in Pids : posts[p].state = "settled" =>
       /\ posts'[p] = posts[p]
       /\ escrow'[p] = escrow[p]
       /\ credit'[p] = credit[p]
       /\ tally'[p] = tally[p]]_vars

(* The pool's product per share squared never falls, whether by a trade, a *)
(* deposit or a withdrawal: no sequence of them extracts from holders.     *)
PoolNeverLosesToTraders ==
  [][pool'.sat * pool'.ptp * pool.shares * pool.shares
       >= pool.sat * pool.ptp * pool'.shares * pool'.shares]_vars
=============================================================================
