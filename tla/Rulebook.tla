------------------------------ MODULE Rulebook ------------------------------
(***************************************************************************)
(* The part of the rulebook that a writer leans on.  Ledger, and the host  *)
(* that is shown to keep its promise, know the world only by three indexes *)
(* and the last stamp.  Here the world of Replay, all of it, is mapped to  *)
(* that part, and every act that lands is one Ledger would have taken.     *)
(***************************************************************************)
EXTENDS Replay

AsLedger == INSTANCE Ledger WITH Reqs <- {}, Outs <- Txos, MaxTime <- 0, log <- <<>>, acked <- {}

Picture(post) == [cid |-> post.cid, live |-> post.state = "live"]

(* What Ledger calls the world.                                            *)
WorldInPart ==
  [claimed |-> burns, posts |-> [p \in 1 .. seq |-> Picture(posts[p])], lastAt |-> lastAt]

(* The acts Ledger tells apart; any other kind is a note.                  *)
IndexedActs(stamp) ==
  [k : {"claim"}, ref : Txos, t : {stamp}] \cup [k : {"post"}, ref : Cids, t : {stamp}]
    \cup [k : {"settle"}, ref : Pids, t : {stamp}]

NoteAt(stamp) == [k |-> "note", ref |-> 0, t |-> stamp]

(* That a step is the landing of that act.                                 *)
Landing(act) ==
  \E a \in Addr :
    \/ act.k = "claim" /\ BurnClaim(a, act.t, act.ref)
    \/ act.k = "post" /\ \E bytes \in Inputs.bytes, price \in Inputs.prices, d \in Inputs.days :
                            Post(a, act.t, act.ref, bytes, price, d)
    \/ act.k = "settle" /\ Settle(a, act.t, act.ref)

TakenByLedger(act) ==
  /\ AsLedger!Accepts(WorldInPart, act)
  /\ WorldInPart' = AsLedger!Applied(WorldInPart, act)

LandedAsLedger ==
  /\ \A act \in IndexedActs(lastAt') : Landing(act) => TakenByLedger(act)
  /\ (\A act \in IndexedActs(lastAt') : ~Landing(act)) => TakenByLedger(NoteAt(lastAt'))

(* A claim, a post or a settlement that lands is one that Ledger accepts   *)
(* at that place, and does to the outputs claimed, to the unsettled        *)
(* pictures and to the last stamp what Ledger says; an act of any of the   *)
(* other kinds touches none of them.  So what is shown of a host whose     *)
(* world is Ledger's holds of the rulebook (core/replay.mjs actError).     *)
LandsAsLedger == [][LandedAsLedger]_vars
=============================================================================
