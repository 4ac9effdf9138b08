------------------------------- MODULE Ledger -------------------------------
(***************************************************************************)
(* What a writer promises (server/index.mjs, server/log.mjs), without its  *)
(* queue, its disk or its crashes: one log that only grows, by one act at  *)
(* a time, never by an act the rulebook refuses there and never twice by   *)
(* the same signature; and whoever is told that an act was accepted can    *)
(* rely on it for ever.                                                    *)
(*                                                                         *)
(* The rulebook appears here through the three index checks that a race    *)
(* between two requests can break: an output is claimed once, a picture is *)
(* in one unsettled post, a post is settled once; and through the order of *)
(* the stamps.  Everything else in Replay is an act of kind "note", which  *)
(* the rulebook takes any number of times.                                 *)
(***************************************************************************)
EXTENDS Integers, Sequences

CONSTANTS
  Reqs,      \* requests; the first to carry an act lends it its signature
  Outs,      \* outputs that may be claimed
  Cids,      \* pictures
  MaxPosts,  \* bound: posts a settle may name
  MaxTime    \* bound: the clock

Acts ==
  [sig : Reqs, k : {"claim"}, ref : Outs, t : 1 .. MaxTime]
    \cup [sig : Reqs, k : {"post"}, ref : Cids, t : 1 .. MaxTime]
    \cup [sig : Reqs, k : {"settle"}, ref : 1 .. MaxPosts, t : 1 .. MaxTime]
    \cup [sig : Reqs, k : {"note"}, ref : {0}, t : 1 .. MaxTime]

(* The part of the world those checks read.                                *)
EmptyWorld == [claimed |-> {}, posts |-> <<>>, lastAt |-> 0]

Unsettled_Never(w, c) == FALSE

Unsettled(w, c) == \E p \in DOMAIN w.posts : w.posts[p].cid = c /\ w.posts[p].live

(* actError: the stamps of the log do not go backwards, and then the kind. *)
Accepts(w, act) ==
  /\ act.t >= w.lastAt
  /\ act.k = "claim"  => act.ref \notin w.claimed
  /\ act.k = "post"   => ~Unsettled(w, act.ref)
  /\ act.k = "settle" => act.ref \in DOMAIN w.posts /\ w.posts[act.ref].live

(* applyAct, on an act that was accepted.                                  *)
Applied(w, act) ==
  [claimed |-> IF act.k = "claim" THEN w.claimed \cup {act.ref} ELSE w.claimed,
   posts   |-> CASE act.k = "post"   -> Append(w.posts, [cid |-> act.ref, live |-> TRUE])
                 [] act.k = "settle" -> [w.posts EXCEPT ![act.ref].live = FALSE]
                 [] OTHER            -> w.posts,
   lastAt  |-> act.t]

Step(w, act) == IF Accepts(w, act) THEN Applied(w, act) ELSE w

(* replay: what the rulebook refuses is skipped whole.                     *)
WorldOf(lines) ==
  LET after[i \in 0 .. Len(lines)] ==
        IF i = 0 THEN EmptyWorld ELSE Step(after[i - 1], lines[i])
  IN  after[Len(lines)]

VARIABLES log, acked

Signatures(l) == {l[i].sig : i \in DOMAIN l}

LedgerInit == log = <<>> /\ acked = {}

Record(act) ==
  /\ Accepts(WorldOf(log), act)
  /\ act.sig \notin Signatures(log)
  /\ log' = Append(log, act)

(* Told only of what is recorded.  One act may be recorded and            *)
(* acknowledged in one step.                                               *)
Acknowledge == acked' \subseteq Signatures(log') /\ acked \subseteq acked'

LedgerNext == Acknowledge /\ (UNCHANGED log \/ \E act \in Acts : Record(act))

LedgerSpec == LedgerInit /\ [][LedgerNext]_<<log, acked>>
-----------------------------------------------------------------------------
(* Every line of the log is an act the rulebook takes at its place: what   *)
(* is durable is never what replay skips (docs/ARCHITECTURE.md, rule 2).   *)
EveryLineApplies ==
  \A i \in DOMAIN log : Accepts(WorldOf(SubSeq(log, 1, i - 1)), log[i])

(* One signed act is one line, however often it is sent and whatever was   *)
(* lost between the attempts (server/index.mjs, attemptWrite).             *)
OneLinePerSignature ==
  \A i, j \in DOMAIN log : log[i].sig = log[j].sig => i = j

(* Nobody is told that an act was accepted which the log does not hold.    *)
AckedIsRecorded == acked \subseteq Signatures(log)
=============================================================================
