------------------------------- MODULE Merkle -------------------------------
(***************************************************************************)
(* core/merkle.mjs: the roots a block seals and the proofs against them.   *)
(*                                                                         *)
(* sha256 is injective: a digest is the tuple it was made from, and its    *)
(* first member the domain byte.  Digests are compared as bytes only to    *)
(* put a pair in one order whichever way it came, so a pair is a set.  An  *)
(* act is named by whoever sends it, so a content may be any digest, those *)
(* of a tree among them.                                                   *)
(***************************************************************************)
EXTENDS Integers, Sequences, SequencesExt

CONSTANTS
  Contents,   \* content digests an epoch may seal
  MaxLeaves,  \* bound
  MaxProof    \* bound on the length of a proof somebody makes up

VARIABLE leaves   \* the digests of the epoch so far

MerkleInit == leaves = <<>>

(* A block's acts[] and payloads[] take one digest after another.          *)
Seal(c) == Len(leaves) < MaxLeaves /\ leaves' = Append(leaves, c)

MerkleNext == \E c \in Contents : Seal(c)

MerkleSpec == MerkleInit /\ [][MerkleNext]_leaves
-----------------------------------------------------------------------------
TagLeaf_Bare(content) == content

TagLeaf(content) == <<"leaf", content>>

HashPair(x, y) == <<"node", {x, y}>>

EmptyRoot == <<"empty">>

PositionalLeaf_Anywhere(i, content) == <<"position", content>>

PositionalLeaf(i, content) == <<"position", i, content>>

(* The level above: pairs from the left, an odd last one rises.            *)
Above(level) ==
  [i \in 1 .. (Len(level) + 1) \div 2 |->
     IF 2 * i <= Len(level) THEN HashPair(level[2 * i - 1], level[2 * i])
     ELSE level[2 * i - 1]]

(* The levels one above the other; a list has no more of them than leaves. *)
LevelsOf(list) ==
  LET level[n \in 0 .. Len(list)] ==
        IF n = 0 THEN [i \in DOMAIN list |-> TagLeaf(list[i])] ELSE Above(level[n - 1])
  IN level

(* buildTree stops at the first that has a single digest.                  *)
Height(list) ==
  CHOOSE n \in 0 .. Len(list) : /\ Len(LevelsOf(list)[n]) = 1
                                /\ \A m \in 0 .. n - 1 : Len(LevelsOf(list)[m]) > 1

TreeRoot(list) == LevelsOf(list)[Height(list)][1]

RootOf(list) == IF list = <<>> THEN EmptyRoot ELSE TreeRoot(list)

(* orderedRootOf: every digest is bound to its place first.                *)
OrderedRootOf(list) == RootOf([i \in DOMAIN list |-> PositionalLeaf(i - 1, list[i])])

Sibling_Right(i) == i + 1

(* The partner of the i-th of a level, counted from one: i ^ 1 from zero.  *)
Sibling(i) == IF i % 2 = 1 THEN i + 1 ELSE i - 1

(* Siblings from the bottom up; one that rises alone has none.             *)
ProofOf(list, index) ==
  LET levels == LevelsOf(list)
      place[n \in 0 .. Height(list)] == IF n = 0 THEN index ELSE (place[n - 1] + 1) \div 2
      proof[n \in 0 .. Height(list)] ==
        IF n = 0 THEN <<>>
        ELSE IF Sibling(place[n - 1]) <= Len(levels[n - 1])
        THEN Append(proof[n - 1], levels[n - 1][Sibling(place[n - 1])])
        ELSE proof[n - 1]
  IN proof[Height(list)]

(* The leaf folded up through the siblings.                                *)
Climbed(content, proof) ==
  LET node[k \in 0 .. Len(proof)] ==
        IF k = 0 THEN TagLeaf(content) ELSE HashPair(node[k - 1], proof[k])
  IN node[Len(proof)]

VerifyProof(content, proof, root) == Climbed(content, proof) = root
-----------------------------------------------------------------------------
TreeDigests == UNION {ToSet(LevelsOf(leaves)[n]) : n \in 0 .. Height(leaves)}

Lists == BoundedSeq(Contents, MaxLeaves)

(* A proof handed out verifies, whatever its place in whatever list; and   *)
(* nothing that is not in the list has one, not even a digest of the tree  *)
(* itself presented as an act, with any digests of the tree as siblings.   *)
MembershipIsExact ==
  leaves # <<>> =>
    LET root == TreeRoot(leaves)
    IN /\ \A i \in DOMAIN leaves : VerifyProof(leaves[i], ProofOf(leaves, i), root)
       /\ \A c \in (Contents \cup TreeDigests) \ ToSet(leaves),
             proof \in BoundedSeq(Contents \cup TreeDigests, MaxProof) : ~VerifyProof(c, proof, root)

OrderIsCommitted ==
  leaves # <<>> =>
    \A list \in Lists : OrderedRootOf(list) = OrderedRootOf(leaves) => list = leaves

(* What a block seals fixes which acts, how many and in which order: two   *)
(* lists have one root only if they are one list, and membership can be    *)
(* proved of exactly the members.                                          *)
RootCommits == MembershipIsExact /\ OrderIsCommitted
=============================================================================
