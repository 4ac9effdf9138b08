----------------------------- MODULE MCEvidence -----------------------------
(***************************************************************************)
(* What the host takes on somebody's word, or on some bytes', each with    *)
(* its bounds: the explorers' word on a burn, the sources' word on the     *)
(* rate and the closers' on it, a device's word on what it keeps, a        *)
(* signature's on whose act it is, a proof's on what an epoch sealed, a    *)
(* name's on the bytes below it.                                           *)
(* They meet only in the record, so a behaviour is about one of them.      *)
(***************************************************************************)
EXTENDS Watch, Oracle, Capacity, Merkle, Media, Signature, TLC

CONSTANTS a, b

VARIABLE question

evidenceVars == <<watchVars, oracleVars, capVars, leaves, mediaVars, sigVars, question>>

(* What a close may carry: nothing, a bare rate, or values of sources, one *)
(* fewer than half of which may be anything.                               *)
MCReports ==
  {[kind |-> "none", values |-> <<>>]}
    \cup {[kind |-> "bare", values |-> <<q>>] : q \in {300, 3000}}
    \cup {[kind |-> "sources", values |-> v] :
            v \in {<<300, 300>>, <<300, 1000, 3000>>, <<300, 300, 1000, 3000>>}}

(* Scores, best first: one pledge wins by either slot; the ranking of the  *)
(* plain ids agrees with that of the slots, or does not.                   *)
Ranked(s) == [i \in PlacementIds |-> CHOOSE r \in 1 .. 6 : s[7 - r] = <<i[2], i[3]>>]

MCDraws ==
  {Ranked(s) : s \in {
     <<<<a, 1>>, <<a, 0>>, <<b, 0>>, <<b, 1>>, <<a, 2>>, <<b, 2>>>>,
     <<<<a, 0>>, <<b, 1>>, <<b, 0>>, <<a, 1>>, <<b, 2>>, <<a, 2>>>>,
     <<<<a, 1>>, <<b, 0>>, <<a, 0>>, <<b, 1>>, <<b, 2>>, <<a, 2>>>>}}

(* Two acts, and one named like the node above them.                       *)
MCContents ==
  LET act == <<"act", 1>>
      two == <<"act", 2>>
  IN {act, two, HashPair(TagLeaf(act), TagLeaf(two))}

(* A module a behaviour is not about stays as it begins.                   *)
Some(S) == CHOOSE x \in S : TRUE

EvidenceInit ==
  /\ WatchInit /\ OracleInit /\ CapInit /\ MerkleInit /\ MediaInit /\ SigInit
  /\ question \in {"burn", "rate", "closes", "storage", "tree", "upload", "signature"}
  /\ question # "burn" => out = Some(Outputs)
  /\ question # "rate" => market = Some(Quotes)
  /\ question # "storage" => score = Some(Draws)
  /\ question # "signature" => key = Some(Keys) /\ digest = Some(Digests)

(* Rounds and requests, with a close between them; or eight closes.        *)
RateNext == OracleNext /\ Len(seals') <= 2

ClosesNext == \E report \in Reports : CloseEpoch(report)

EvidenceNext ==
  /\ \/ /\ question = "burn"      /\ WatchNext
        /\ UNCHANGED <<oracleVars, capVars, leaves, mediaVars, sigVars>>
     \/ /\ question = "rate"      /\ RateNext
        /\ UNCHANGED <<watchVars, capVars, leaves, mediaVars, sigVars>>
     \/ /\ question = "closes"    /\ ClosesNext
        /\ UNCHANGED <<watchVars, capVars, leaves, mediaVars, sigVars>>
     \/ /\ question = "storage"   /\ CapNext
        /\ UNCHANGED <<watchVars, oracleVars, leaves, mediaVars, sigVars>>
     \/ /\ question = "tree"      /\ MerkleNext
        /\ UNCHANGED <<watchVars, oracleVars, capVars, mediaVars, sigVars>>
     \/ /\ question = "upload"    /\ MediaNext
        /\ UNCHANGED <<watchVars, oracleVars, capVars, leaves, sigVars>>
     \/ /\ question = "signature" /\ SigNext
        /\ UNCHANGED <<watchVars, oracleVars, capVars, leaves, mediaVars>>
  /\ UNCHANGED question

EvidenceSpec == EvidenceInit /\ [][EvidenceNext]_evidenceVars

StorageSpec == EvidenceInit /\ question = "storage" /\ [][EvidenceNext]_evidenceVars
=============================================================================
