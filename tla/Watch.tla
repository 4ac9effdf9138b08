-------------------------------- MODULE Watch --------------------------------
(***************************************************************************)
(* Proof of burn: server/burnwatch.mjs asks the explorers about one        *)
(* transaction while blocks are mined and replaced, and server/index.mjs   *)
(* writes the claim when they agree.                                       *)
(*                                                                         *)
(* Bitcoin is a height and the place of the one transaction on the best    *)
(* chain.  An explorer that is right answers out of that chain, but the    *)
(* transaction and the height of the tip are two requests, sent together   *)
(* and answered at two instants: a block may come, or be replaced, between *)
(* them.  An explorer that is not right may say anything.  Within one      *)
(* round, which the deadline ends after fifteen seconds, the best chain    *)
(* changes at most once.                                                   *)
(***************************************************************************)
EXTENDS Integers, FiniteSets

CONSTANTS
  Explorers,   \* those configured
  Right,       \* those that answer out of the best chain
  MinConf,     \* MIN_CONFIRMATIONS
  Tolerance,   \* CONFIRMATION_TOLERANCE
  MaxReorg,    \* the most blocks that are ever replaced at once
  Sats,        \* amounts an output may carry
  MaxHeight    \* bound on the height of the chain

ASSUME WatchAssumption ==
  /\ IsFiniteSet(Explorers) /\ Right \subseteq Explorers
  /\ {MinConf, Tolerance, MaxReorg, MaxHeight} \subseteq Nat
  /\ Sats \subseteq Nat \ {0}

(* The chain's side of the bargain: what is replaced at once is less than  *)
(* the depth asked for, by the block a round may miss.                     *)
ASSUME DepthSuffices == MaxReorg + 1 < MinConf

ASSUME OneMayLie == Cardinality(Explorers \ Right) <= 1

VARIABLES
  tip,      \* height of the best chain
  at,       \* height of the transaction on it, 0 when it is not there
  out,      \* the output it carries: satoshis, and is the script the keyless one
  moved,    \* has the best chain changed in this round
  claim,    \* the claim under way: how far it is, and the satoshis it names
  ans,      \* what each explorer has said so far in this round
  credited  \* the satoshis of the claim on the record, 0 when there is none

chainVars == <<tip, at, out>>
watchVars == <<chainVars, moved, claim, ans, credited>>

Outputs == [sat : Sats, keyless : BOOLEAN]
Claims  == [st : {"none", "asked", "proven"}, sat : Sats \cup {0}]
Said    == [tx : {"wait", "read", "failed"}, height : Nat, tip : Nat \cup {-1},
            sat : Sats \cup {0}, keyless : BOOLEAN]
Unread  == [tx |-> "wait", height |-> 0, tip |-> -1, sat |-> 0, keyless |-> FALSE]
NoClaim == [st |-> "none", sat |-> 0]

WatchInit ==
  /\ tip = 1 /\ at = 0 /\ out \in Outputs
  /\ moved = FALSE /\ claim = NoClaim
  /\ ans = [e \in Explorers |-> Unread]
  /\ credited = 0
-----------------------------------------------------------------------------
(* Bitcoin.  A change to the best chain is one block longer than what it   *)
(* replaces; a transaction off the chain may be put in any new block.      *)
Grow(d) ==
  /\ claim.st = "asked" => ~moved
  /\ tip < MaxHeight /\ d < tip
  /\ tip' = tip + 1
  /\ at' \in IF at # 0 /\ at <= tip - d THEN {at} ELSE {0} \cup (tip - d + 1 .. tip + 1)
  /\ moved' = (claim.st = "asked")
  /\ UNCHANGED <<out, claim, ans, credited>>
-----------------------------------------------------------------------------
(* The explorers.                                                          *)
Ask(s) ==
  /\ claim.st = "none" /\ credited = 0
  /\ claim' = [st |-> "asked", sat |-> s]
  /\ ans' = [e \in Explorers |-> Unread] /\ moved' = FALSE
  /\ UNCHANGED <<chainVars, credited>>

ReadTx(e) ==
  /\ claim.st = "asked" /\ e \in Right /\ ans[e].tx = "wait"
  /\ ans' = [ans EXCEPT ![e] = [tx |-> "read", height |-> at, tip |-> @.tip,
                                sat |-> out.sat, keyless |-> out.keyless]]
  /\ UNCHANGED <<chainVars, moved, claim, credited>>

ReadTip(e) ==
  /\ claim.st = "asked" /\ e \in Right /\ ans[e].tip = -1 /\ ans[e].tx # "failed"
  /\ ans' = [ans EXCEPT ![e].tip = tip]
  /\ UNCHANGED <<chainVars, moved, claim, credited>>

(* An explorer that is wrong names a depth and an output of its own.       *)
Invent(e, depth, o) ==
  /\ claim.st = "asked" /\ e \notin Right /\ ans[e] = Unread
  /\ ans' = [ans EXCEPT ![e] = [tx |-> "read", height |-> IF depth = 0 THEN 0 ELSE 1,
                                tip |-> depth, sat |-> o.sat, keyless |-> o.keyless]]
  /\ UNCHANGED <<chainVars, moved, claim, credited>>

(* No answer within the deadline, none within the byte cap, not JSON, or a *)
(* transaction the explorer does not know.                                 *)
Fail(e) ==
  /\ claim.st = "asked" /\ (ans[e].tx = "wait" \/ ans[e].tip = -1)
  /\ ans' = [ans EXCEPT ![e].tx = "failed"]
  /\ UNCHANGED <<chainVars, moved, claim, credited>>
-----------------------------------------------------------------------------
(* checkBurn, when every explorer has answered or failed.                  *)
Settled(e) == ans[e].tx = "failed" \/ (ans[e].tx = "read" /\ ans[e].tip # -1)

Depth(a) == IF a.height = 0 THEN 0 ELSE a.tip - a.height + 1

Answers == {e \in Explorers : ans[e].tx = "read"}

Agree_DepthOnly(E) == \A e, f \in E : Depth(ans[e]) - Depth(ans[f]) <= Tolerance

Agree(E) ==
  \A e, f \in E :
    /\ ans[e].sat = ans[f].sat /\ ans[e].keyless = ans[f].keyless
    /\ Depth(ans[e]) - Depth(ans[f]) <= Tolerance

Pays(a, s) == a.keyless /\ a.sat = s

(* confirmations is the least of the depths.                               *)
Deep(E) == \A e \in E : Depth(ans[e]) >= MinConf

Verified ==
  /\ Cardinality(Answers) >= 2
  /\ Agree(Answers)
  /\ \E e \in Answers : Pays(ans[e], claim.sat)
  /\ Deep(Answers)

Judge ==
  /\ claim.st = "asked" /\ \A e \in Explorers : Settled(e)
  /\ claim' = IF Verified THEN [claim EXCEPT !.st = "proven"] ELSE NoClaim
  /\ ans' = [e \in Explorers |-> Unread] /\ moved' = FALSE
  /\ UNCHANGED <<chainVars, credited>>

(* The second pass of submit: the claim is written with the proof in hand. *)
Write ==
  /\ claim.st = "proven"
  /\ credited' = claim.sat /\ claim' = NoClaim
  /\ UNCHANGED <<chainVars, moved, ans>>

WatchNext ==
  \/ \E d \in 0 .. MaxReorg : Grow(d)
  \/ \E s \in Sats : Ask(s)
  \/ \E e \in Explorers : ReadTx(e) \/ ReadTip(e) \/ Fail(e)
  \/ \E e \in Explorers, n \in 0 .. MaxHeight, o \in Outputs : Invent(e, n, o)
  \/ Judge \/ Write

WatchSpec == WatchInit /\ [][WatchNext]_watchVars
-----------------------------------------------------------------------------
WatchTypeOK ==
  /\ tip \in Nat \ {0} /\ at \in 0 .. tip /\ out \in Outputs
  /\ moved \in BOOLEAN
  /\ claim \in Claims
  /\ ans \in [Explorers -> Said]
  /\ credited \in Nat

(* What the record credits was destroyed: the transaction is on the best   *)
(* chain and stays there, the output has no key, and it carries the        *)
(* satoshis credited; although one explorer may be wrong about all of it,  *)
(* and no answer of the other is about one instant.                        *)
CreditedIsDestroyed ==
  credited # 0 => at # 0 /\ out.keyless /\ credited = out.sat
=============================================================================
