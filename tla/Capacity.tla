------------------------------ MODULE Capacity ------------------------------
(***************************************************************************)
(* Storage: who is to keep a shard (placementFor, core/replay.mjs), whom   *)
(* the host asks about it (server/capacity.mjs), what a device keeps and   *)
(* answers (app/storage.mjs), and what an answer is credited for           *)
(* (capProof, core/replay.mjs).                                            *)
(*                                                                         *)
(* A post has one shard, as every picture up to SHARD_BYTES has.  A pledge *)
(* is the number of placement slots it buys.  sha256 is a draw: every id   *)
(* of a node, the plain one and one per slot, has a score of its own for   *)
(* every shard.  An answer is the epoch whose seed it was computed for;    *)
(* whoever has one may send it, at any time and more than once.            *)
(***************************************************************************)
EXTENDS Integers, FiniteSets

CONSTANTS
  Nodes, Posts,
  MaxSlots,     \* MAX_PLACEMENT_SLOTS
  Replication,
  Draws,        \* what the hash may turn out to be
  LastEpoch     \* bound

Slots == 0 .. MaxSlots - 1
Plain == MaxSlots      \* where the plain id of a node is drawn
PlacementIds == Posts \X Nodes \X (0 .. MaxSlots)

ASSUME CapacityAssumption ==
  /\ IsFiniteSet(Nodes) /\ MaxSlots \in Nat \ {0} /\ Replication \in Nat
  /\ \A draw \in Draws :
       /\ draw \in [PlacementIds -> Nat]
       /\ \A i, j \in PlacementIds : draw[i] = draw[j] => i = j

VARIABLES
  score,     \* nodeScore
  pledge,    \* slots of every node, 0 when it never pledged
  post,      \* is the post not there yet, live, or past its expiry
  epoch,
  issued,    \* the register: challenges of <<node, post, epoch>>
  late,      \* those of them issued more than two seconds ago
  proven,    \* the proofs accepted: <<node, post, epoch>>
  has,       \* the shards on every device
  answers,   \* answers made so far: <<post, epoch>>
  kept       \* ghost: <<post, epoch>> of which some device had the bytes

capVars == <<score, pledge, post, epoch, issued, late, proven, has, answers, kept>>

CapInit ==
  /\ score \in Draws
  /\ pledge = [n \in Nodes |-> 0]
  /\ post = [p \in Posts |-> "none"]
  /\ epoch = 0 /\ issued = {} /\ late = {} /\ proven = {}
  /\ has = [n \in Nodes |-> {}] /\ answers = {} /\ kept = {}
-----------------------------------------------------------------------------
(* placeShard ranks ids by score and keeps the first; placementFor ranks   *)
(* one id per slot and keeps the first nodes met, so that a node stands    *)
(* where the best of its slots does.                                       *)
LiveNodes == {n \in Nodes : pledge[n] > 0}

SlotsOf_Last(n) == {s \in Slots : s = pledge[n] - 1}

SlotsOf(n) == {s \in Slots : s < pledge[n]}

Ahead(p, m, n) ==
  \E s \in SlotsOf(m) : \A t \in SlotsOf(n) : score[<<p, m, s>>] > score[<<p, n, t>>]

PlacementFor(p) ==
  {n \in LiveNodes : Cardinality({m \in LiveNodes : Ahead(p, m, n)}) < Replication}

(* placeShard over the plain ids: assignmentsFor of the host, shardPlanFor *)
(* of the device.                                                          *)
Assigned(p) ==
  {n \in LiveNodes :
     Cardinality({m \in LiveNodes : score[<<p, m, Plain>>] > score[<<p, n, Plain>>]}) < Replication}
-----------------------------------------------------------------------------
(* The record.                                                             *)
Pledge(n, slots) ==
  /\ pledge' = [pledge EXCEPT ![n] = slots]
  /\ UNCHANGED <<score, post, epoch, issued, late, proven, has, answers, kept>>

NewShard(p) ==
  /\ post[p] = "none" /\ post' = [post EXCEPT ![p] = "live"]
  /\ UNCHANGED <<score, pledge, epoch, issued, late, proven, has, answers, kept>>

Expire(p) ==
  /\ post[p] = "live" /\ post' = [post EXCEPT ![p] = "over"]
  /\ UNCHANGED <<score, pledge, epoch, issued, late, proven, has, answers, kept>>

Holding(h) == {p \in Posts : \E n \in Nodes : p \in h[n]}

(* A close moves the seed, and drops what was issued before it.            *)
CloseDay ==
  /\ epoch < LastEpoch /\ epoch' = epoch + 1
  /\ issued' = {} /\ late' = {}
  /\ kept' = kept \cup {<<p, epoch'>> : p \in Holding(has)}
  /\ UNCHANGED <<score, pledge, post, proven, has, answers>>
-----------------------------------------------------------------------------
(* The device.                                                             *)
Accept(n, p) ==
  /\ post[p] = "live" /\ n \in Assigned(p)
  /\ has' = [has EXCEPT ![n] = @ \cup {p}]
  /\ kept' = kept \cup {<<p, epoch>>}
  /\ UNCHANGED <<score, pledge, post, epoch, issued, late, proven, answers>>

(* The browser evicts, or the picture is forgotten.                        *)
Evict(n, p) ==
  /\ p \in has[n] /\ has' = [has EXCEPT ![n] = @ \ {p}]
  /\ UNCHANGED <<score, pledge, post, epoch, issued, late, proven, answers, kept>>

Prove(n, p) ==
  /\ p \in has[n] /\ answers' = answers \cup {<<p, epoch>>}
  /\ UNCHANGED <<score, pledge, post, epoch, issued, late, proven, has, kept>>
-----------------------------------------------------------------------------
(* The host.                                                               *)
AsksOf(n) == {p \in Posts : post[p] = "live" /\ n \in Assigned(p)}

(* GET /api/v1/capacity/challenges.                                        *)
Challenge(n) ==
  LET asked == {<<n, p, epoch>> : p \in AsksOf(n)}
  IN /\ issued' = issued \cup asked /\ late' = late \ asked
     /\ UNCHANGED <<score, pledge, post, epoch, proven, has, answers, kept>>

Delay(i) ==
  /\ i \in issued \ late /\ late' = late \cup {i}
  /\ UNCHANGED <<score, pledge, post, epoch, issued, proven, has, answers, kept>>

Forgets ==
  /\ issued' = {} /\ late' = {}
  /\ UNCHANGED <<score, pledge, post, epoch, proven, has, answers, kept>>

RightAnswer_AnySeed(p, e) == <<p, e>> \in answers

(* An answer is right when it is the one to the seed of this epoch.        *)
RightAnswer(p, e) == <<p, e>> \in answers /\ e = epoch

(* capProof: what replay refuses, then what verifyProof does.              *)
CapProof(n, p, e) ==
  /\ pledge[n] > 0 /\ post[p] = "live" /\ n \in PlacementFor(p)
  /\ <<n, p, epoch>> \notin proven
  /\ <<n, p, epoch>> \in issued \ late
  /\ RightAnswer(p, e)
  /\ proven' = proven \cup {<<n, p, epoch>>}
  /\ UNCHANGED <<score, pledge, post, epoch, issued, late, has, answers, kept>>

CapNext ==
  \/ \E n \in Nodes, slots \in 1 .. MaxSlots : Pledge(n, slots)
  \/ \E p \in Posts : NewShard(p) \/ Expire(p)
  \/ CloseDay \/ Forgets
  \/ \E n \in Nodes, p \in Posts : Accept(n, p) \/ Evict(n, p) \/ Prove(n, p)
  \/ \E n \in Nodes : Challenge(n)
  \/ \E i \in issued : Delay(i)
  \/ \E n \in Nodes, p \in Posts, e \in 0 .. LastEpoch : CapProof(n, p, e)

CapSpec == CapInit /\ [][CapNext]_capVars
-----------------------------------------------------------------------------
CapTypeOK ==
  /\ score \in Draws
  /\ pledge \in [Nodes -> 0 .. MaxSlots]
  /\ post \in [Posts -> {"none", "live", "over"}]
  /\ epoch \in Nat
  /\ {issued, late, proven} \subseteq SUBSET (Nodes \X Posts \X Nat)
  /\ has \in [Nodes -> SUBSET Posts]
  /\ {answers, kept} \subseteq SUBSET (Posts \X Nat)

(* A credit is worth a day of storage: in the epoch it was given for, some *)
(* device had the bytes, whatever was kept of earlier answers, sent on by  *)
(* others, evicted, or asked again.                                        *)
CreditMeansKept == \A c \in proven : <<c[2], c[3]>> \in kept

(* Whoever pledges more is the only one newly placed, and whoever pledges  *)
(* less the only one that is placed no longer: nobody else has to fetch a  *)
(* shard, or drop one, because of it.                                      *)
OnlyOwnShareMoves ==
  [][\A n \in Nodes, p \in Posts :
       /\ pledge'[n] > pledge[n] => PlacementFor(p)' \subseteq PlacementFor(p) \cup {n}
       /\ pledge'[n] < pledge[n] => PlacementFor(p) \subseteq PlacementFor(p)' \cup {n}]_capVars

(* The rulebook says that server/capacity.mjs issues challenges from       *)
(* placementFor: whoever is asked about a shard is placed on it.           *)
AskedIsPlaced ==
  [][\A i \in issued' \ issued : i[1] \in PlacementFor(i[2])]_capVars
=============================================================================
