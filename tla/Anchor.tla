------------------------------- MODULE Anchor -------------------------------
(***************************************************************************)
(* contracts/PtpAnchor.sol: the on-chain record of posts, of what is left  *)
(* of them after settlement, and of the roots of closed epochs.            *)
(*                                                                         *)
(* A transaction is one step, sent by any account.  A hash is injective,   *)
(* so the id of a post is the tuple it is the hash of.  The three roots of *)
(* an epoch are one word; a zero word in any of them is the word Zero.     *)
(***************************************************************************)
EXTENDS Integers

CONSTANTS
  Addr,      \* accounts that may send transactions
  Cids,      \* picture hashes
  Nonces,    \* the authors' own counters
  Shapes,    \* <<bytes, width, height>> a caller may pass
  Words,     \* non-zero 32-byte words: tombstones and roots
  Zero,      \* the zero word, and the zero address
  Founder,   \* the producer at deployment
  Ceiling,   \* type(uint256).max
  MaxTime,   \* bound on the chain's clock
  MaxEpoch   \* bound on the epochs sealed

ASSUME AnchorAssumption ==
  /\ Founder \in Addr
  /\ Zero \notin Addr \cup Cids \cup Words
  /\ Shapes \subseteq Nat \X Nat \X Nat
  /\ MaxTime \in Nat \ {0}
  /\ MaxEpoch \in Nat /\ Ceiling \in Nat
  (* the horizon advances one epoch per transaction, so what currentEpoch  *)
  (* reports never reaches the ceiling of the number type                  *)
  /\ MaxEpoch + 1 < Ceiling

VARIABLES
  now,           \* block.timestamp
  producer,      \* the office
  posts,         \* id -> post
  roots,         \* epoch -> root, with the time it was posted at
  highestEpoch,
  anySealed,
  settledLog     \* the Settled events emitted so far

anchorVars == <<now, producer, posts, roots, highestEpoch, anySealed, settledLog>>

(* fault: the caller's address is not hashed *)
PostIdFor_Unbound(author, cid, nonce) == <<Founder, cid, nonce>>

PostIdFor(author, cid, nonce) == <<author, cid, nonce>>
Ids == {PostIdFor(a, c, n) : a \in Addr, c \in Cids, n \in Nonces}

NoShape == <<0, 0, 0>>
NoPost == [author |-> Zero, cid |-> Zero, shape |-> NoShape, publishedAt |-> 0,
           expires |-> 0, state |-> "none", tombstone |-> Zero]
NoRoot == [root |-> Zero, at |-> 0]

AnchorInit ==
  /\ now = 1
  /\ producer = Founder
  /\ posts = [id \in Ids |-> NoPost]
  /\ roots = [e \in 0 .. Ceiling |-> NoRoot]
  /\ highestEpoch = 0
  /\ anySealed = FALSE
  /\ settledLog = {}
-----------------------------------------------------------------------------
Publish(a, cid, shape, expires, nonce) ==
  LET id == PostIdFor(a, cid, nonce)
  IN  /\ cid # Zero
      /\ shape[1] > 0 /\ shape[2] > 0 /\ shape[3] > 0
      /\ expires > now
      /\ posts[id].state = "none"
      /\ posts' = [posts EXCEPT ![id] =
                     [author |-> a, cid |-> cid, shape |-> shape, publishedAt |-> now,
                      expires |-> expires, state |-> "live", tombstone |-> Zero]]
      /\ UNCHANGED <<now, producer, roots, highestEpoch, anySealed, settledLog>>

(* A lapsed post that is not settled yet can still be extended.            *)
Extend(a, id, expires) ==
  /\ posts[id].state = "live"
  /\ posts[id].author = a
  /\ expires > posts[id].expires
  /\ posts' = [posts EXCEPT ![id].expires = expires]
  /\ UNCHANGED <<now, producer, roots, highestEpoch, anySealed, settledLog>>

(* fault: the event is emitted after the fields were cleared *)
Residue_AfterClearing(id, tombstone) ==
  [id |-> id, author |-> posts[id].author, cid |-> Zero, shape |-> NoShape,
   publishedAt |-> posts[id].publishedAt, expires |-> posts[id].expires,
   tombstone |-> tombstone]

(* What the Settled event carries: the post as it was before the clearing. *)
Residue(id, tombstone) ==
  [id |-> id, author |-> posts[id].author, cid |-> posts[id].cid, shape |-> posts[id].shape,
   publishedAt |-> posts[id].publishedAt, expires |-> posts[id].expires,
   tombstone |-> tombstone]

(* fault: settled whenever the producer says so *)
Lapsed_Always(id) == TRUE

Lapsed(id) == now >= posts[id].expires

Settle(a, id, tombstone) ==
  /\ a = producer
  /\ tombstone # Zero
  /\ posts[id].state = "live"
  /\ Lapsed(id)
  /\ settledLog' = settledLog \cup {Residue(id, tombstone)}
  /\ posts' = [posts EXCEPT ![id] =
                 [@ EXCEPT !.state = "settled", !.tombstone = tombstone,
                           !.cid = Zero, !.shape = NoShape]]
  /\ UNCHANGED <<now, producer, roots, highestEpoch, anySealed>>
-----------------------------------------------------------------------------
(* _nextEpoch, which currentEpoch publishes.                               *)
CurrentEpoch == IF anySealed THEN highestEpoch + 1 ELSE 0

(* fault: the first seal names any epoch, as it once could *)
SealsNext_FirstFree(epoch) ==
  (anySealed => epoch = highestEpoch + 1) /\ epoch < Ceiling /\ roots[epoch].at = 0

(* fault: the last epoch can be sealed again *)
SealsNext_Again(epoch) == epoch >= CurrentEpoch - 1 /\ epoch < Ceiling

SealsNext(epoch) == epoch = CurrentEpoch /\ epoch < Ceiling /\ roots[epoch].at = 0

EpochRoot(a, epoch, root) ==
  /\ a = producer
  /\ root # Zero
  /\ SealsNext(epoch)
  /\ roots' = [roots EXCEPT ![epoch] = [root |-> root, at |-> now]]
  /\ highestEpoch' = epoch
  /\ anySealed' = TRUE
  /\ UNCHANGED <<now, producer, posts, settledLog>>

RotateProducer(a, to) ==
  /\ a = producer
  /\ to # Zero
  /\ producer' = to
  /\ UNCHANGED <<now, posts, roots, highestEpoch, anySealed, settledLog>>

NextBlock ==
  /\ now < MaxTime
  /\ now' = now + 1
  /\ UNCHANGED <<producer, posts, roots, highestEpoch, anySealed, settledLog>>

AnchorNext ==
  \/ \E a \in Addr, cid \in Cids \cup {Zero}, shape \in Shapes, t \in 1 .. MaxTime, n \in Nonces :
       Publish(a, cid, shape, t, n)
  \/ \E a \in Addr, id \in Ids, t \in 1 .. MaxTime : Extend(a, id, t)
  \/ \E a \in Addr, id \in Ids, w \in Words \cup {Zero} : Settle(a, id, w)
  \/ \E a \in Addr, e \in 0 .. MaxEpoch, w \in Words \cup {Zero} : EpochRoot(a, e, w)
  \/ \E a \in Addr, to \in Addr \cup {Zero} : RotateProducer(a, to)
  \/ NextBlock
-----------------------------------------------------------------------------
Post ==
  [author : Addr \cup {Zero}, cid : Cids \cup {Zero}, shape : Nat \X Nat \X Nat,
   publishedAt : 0 .. MaxTime, expires : 0 .. MaxTime,
   state : {"none", "live", "settled"}, tombstone : Words \cup {Zero}]

(* Types, and what they say of a record: a live post has the payload its   *)
(* id was made from, only a settled one has a tombstone, an epoch without  *)
(* a time has no root, an event names a post.                              *)
AnchorTypeOK ==
  /\ now \in 1 .. MaxTime
  /\ producer \in Addr
  /\ posts \in [Ids -> Post]
  /\ \A id \in Ids :
       /\ posts[id].state # "settled" => posts[id].tombstone = Zero
       /\ posts[id].state = "live" => posts[id].cid = id[2] /\ posts[id].shape # NoShape
  /\ roots \in [0 .. Ceiling -> [root : Words \cup {Zero}, at : 0 .. MaxTime]]
  /\ \A e \in 0 .. Ceiling : roots[e].at = 0 => roots[e].root = Zero
  /\ highestEpoch \in 0 .. MaxEpoch
  /\ anySealed \in BOOLEAN
  /\ \A r \in settledLog : r.id \in Ids

Sealed(e) == roots[e].at > 0

(* "highestEpoch is the count of sealed epochs minus one": the epochs that *)
(* have roots are exactly those below the one currentEpoch reports, so no  *)
(* epoch the contract calls sealed was ever skipped.                       *)
SealedBelowHorizon == \A e \in 0 .. Ceiling : Sealed(e) <=> e < CurrentEpoch

(* "Stealing an id now costs a preimage attack": whatever stands under the *)
(* id of an author's picture and counter was put there by that author, so  *)
(* nobody else can make the author's own publish revert.                   *)
NobodyElsesId ==
  \A a \in Addr, c \in Cids, n \in Nonces :
    LET p == posts[PostIdFor(a, c, n)] IN p.state # "none" => p.author = a

EventsOf(id) == {r \in settledLog : r.id = id}

(* The event has the payload the id was made from, and agrees with storage *)
(* on everything storage still has.                                        *)
Carries(r, id) ==
  /\ r.shape # NoShape
  /\ id = PostIdFor(r.author, r.cid, id[3])
  /\ r.author = posts[id].author
  /\ r.publishedAt = posts[id].publishedAt /\ r.expires = posts[id].expires
  /\ r.tombstone = posts[id].tombstone

(* "Clearing loses nobody anything they could not still prove": every      *)
(* settled post, and no other, has one event, and that event carries the   *)
(* whole of it.                                                            *)
RecordSurvivesClearing ==
  \A id \in Ids :
    /\ posts[id].state # "settled" => EventsOf(id) = {}
    /\ posts[id].state = "settled" => \E r \in EventsOf(id) : EventsOf(id) = {r} /\ Carries(r, id)

(* What the chain keeps is complete and everybody's own: no epoch is       *)
(* missing below the horizon, no settled post without the whole of its     *)
(* record, and nothing stands under another author's id.                   *)
RecordSound == SealedBelowHorizon /\ RecordSurvivesClearing /\ NobodyElsesId

(* A settled post never changes.  A live one keeps author, picture and     *)
(* publication, its expiry only moves forward, it settles only once lapsed.*)
NotRevised(id) ==
  /\ posts[id].state = "settled" => posts'[id] = posts[id]
  /\ posts[id].state = "live" =>
       /\ posts'[id].author = posts[id].author
       /\ posts'[id].publishedAt = posts[id].publishedAt
       /\ posts'[id].expires >= posts[id].expires
       /\ \/ posts'[id].state = "live" /\ posts'[id].cid = posts[id].cid
          \/ posts'[id].state = "settled" /\ now >= posts[id].expires

(* "One write, no revisions": no step revises a post, a posted root, or an *)
(* event.                                                                  *)
NoRevision ==
  /\ \A e \in 0 .. Ceiling : Sealed(e) => roots'[e] = roots[e]
  /\ settledLog \subseteq settledLog'
  /\ \A id \in Ids : NotRevised(id)
=============================================================================
