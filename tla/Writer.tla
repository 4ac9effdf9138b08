------------------------------- MODULE Writer -------------------------------
(***************************************************************************)
(* One host that holds the pen: `submit' and the write queue of            *)
(* server/index.mjs over the log file of server/log.mjs and the picture    *)
(* store of server/media.mjs, with the explorers of server/burnwatch.mjs   *)
(* asked while the queue is released.                                      *)
(*                                                                         *)
(* A request is checked and written at the head of the queue.  Between two *)
(* steps of the head other requests arrive, pictures are uploaded, the     *)
(* explorers answer, the clock moves and the process may crash.            *)
(*                                                                         *)
(* The file is the lines the process knows (`acts') and, past them, what   *)
(* a failed write left: at most one whole line nobody was told of, then    *)
(* perhaps the end of an older one, cut short by a shorter line written    *)
(* over it.  Bytes with no newline behind them count as nothing, because   *)
(* openLog cuts them off.  Signatures and the encoding are taken as given. *)
(***************************************************************************)
EXTENDS Integers, Sequences, FiniteSets, SequencesExt, Functions

CONSTANTS
  Reqs, Outs, Cids, MaxPosts, MaxTime,   \* as in Ledger
  Kinds,       \* bound: the kinds of act sent
  Skew,        \* maxClockSkewMs
  MaxFaults,   \* bound: failed writes, syncs and deletions
  MaxCrashes,  \* bound: crashes
  MaxPuts      \* bound: uploads

ASSUME WriterAssumption ==
  /\ MaxTime \in Nat \ {0}
  /\ {MaxPosts, Skew, MaxFaults, MaxCrashes, MaxPuts} \subseteq Nat

VARIABLES
  req,      \* what each request carries and how far it came
  queue,    \* writeTail: the passes waiting for the queue, in order
  phase,    \* the pass that holds it: idle, admitted or appended
  acts,     \* log.acts: the complete lines, <<>> where one does not parse
  tail,     \* the bytes beyond them
  world,    \* the live world
  seen,     \* seenSigs
  store,    \* pictures on the disk
  now,      \* the host's clock
  pen,      \* what isWriter answers
  faults, crashes, puts   \* counted against the bounds

hostVars == <<acts, tail, world, seen, store>>
envVars  == <<now, pen, faults, crashes, puts>>
vars     == <<req, queue, phase, hostVars, envVars>>

Garbage == <<>>
NoAct   == [sig |-> 0, k |-> "none", ref |-> 0, t |-> 0]
NoTail  == [line |-> NoAct, scrap |-> FALSE]

(* The lines that parse.                                                   *)
Readable(lines) ==
  LET upto[i \in 0 .. Len(lines)] ==
        IF i = 0 THEN <<>>
        ELSE IF lines[i] = Garbage THEN upto[i - 1] ELSE Append(upto[i - 1], lines[i])
  IN  upto[Len(lines)]

L == INSTANCE Ledger WITH
       log   <- Readable(acts),
       acked <- {req[r].act.sig : r \in {x \in Reqs : req[x].st = "ok"}}

(* The signatures of the lines of a file, as createServer collects them.   *)
SigsOf(lines) == {lines[i].sig : i \in {j \in DOMAIN lines : lines[j] # Garbage}}

Answered == {"ok", "refused", "error", "lost"}

Codes == {"none", "NOT_THE_WRITER", "TIMESTAMP_IMPLAUSIBLE", "BURN_ALREADY_CLAIMED", "RULEBOOK",
          "DUPLICATE_ACT", "CLOCK_SKEW", "CID_MISMATCH", "BURN_EXPLORERS_DISAGREE", "UNCATALOGUED"}

Init ==
  /\ req = [r \in Reqs |-> [st |-> "new", act |-> NoAct, proof |-> "none", code |-> "none"]]
  /\ queue = <<>> /\ phase = "idle"
  /\ acts = <<>> /\ tail = NoTail
  /\ world = L!EmptyWorld
  /\ seen = {} /\ store = {}
  /\ now = 1 /\ pen = TRUE
  /\ faults = 0 /\ crashes = 0 /\ puts = 0
-----------------------------------------------------------------------------
(* submit, up to the queue.  isWriter is asked here and nowhere else.      *)
Enters(r, act) ==
  /\ req[r].st = "new"
  /\ IF pen
     THEN /\ req' = [req EXCEPT ![r].st = "queued", ![r].act = act]
          /\ queue' = Append(queue, r)
     ELSE /\ req' = [req EXCEPT ![r].st = "refused", ![r].act = act,
                                ![r].code = "NOT_THE_WRITER"]
          /\ UNCHANGED queue
  /\ UNCHANGED <<phase, hostVars, envVars>>

Send(r, k, ref, t) == Enters(r, [sig |-> r, k |-> k, ref |-> ref, t |-> t])

(* A client that heard nothing, or clicked twice, sends the signed act again. *)
Resend(r, q) == req[q].st # "new" /\ req[q].act.sig = q /\ Enters(r, req[q].act)

(* POST /api/v1/media: a temporary file and a rename, outside the queue.   *)
Put(c) ==
  /\ puts < MaxPuts
  /\ puts' = puts + 1
  /\ store' = store \cup {c}
  /\ UNCHANGED <<req, queue, phase, acts, tail, world, seen, now, pen, faults, crashes>>
-----------------------------------------------------------------------------
(* attemptWrite: the rulebook, the signature index, the host's own checks. *)

Head_ == req[Head(queue)]

Implausible(act) == act.t - now > Skew \/ now - act.t > Skew

(* The refusal of a pass, or "none".  A claim that needs no more than its  *)
(* proof is not refused by this.                                           *)
Refusal(act, proof) ==
  CASE act.t < world.lastAt                      -> "TIMESTAMP_IMPLAUSIBLE"
    [] act.k = "claim" /\ act.ref \in world.claimed -> "BURN_ALREADY_CLAIMED"
    [] ~L!Accepts(world, act)                    -> "RULEBOOK"
    [] act.sig \in seen                          -> "DUPLICATE_ACT"
    [] Implausible(act)                          -> "CLOCK_SKEW"
    [] act.k = "post" /\ act.ref \notin store    -> "CID_MISMATCH"
    [] proof = "bad"                             -> "BURN_EXPLORERS_DISAGREE"
    [] OTHER                                     -> "none"

NeedsProof_Always(act, proof) == act.k = "claim"

NeedsProof(act, proof) == act.k = "claim" /\ proof = "none"

Answer(r, st, code) ==
  /\ req' = [req EXCEPT ![r].st = st, ![r].code = code]
  /\ queue' = Tail(queue)
  /\ phase' = "idle"

Refuse ==
  /\ queue # <<>> /\ phase = "idle"
  /\ Refusal(Head_.act, Head_.proof) # "none"
  /\ Answer(Head(queue), "refused", Refusal(Head_.act, Head_.proof))
  /\ UNCHANGED <<hostVars, envVars>>

HandBack_Held ==
  /\ queue # <<>> /\ phase = "idle"
  /\ Refusal(Head_.act, Head_.proof) = "none"
  /\ NeedsProof(Head_.act, Head_.proof)
  /\ req' = [req EXCEPT ![Head(queue)].st = "asking"]
  /\ UNCHANGED <<queue, phase, hostVars, envVars>>

(* The claim leaves the queue for the explorers.                           *)
HandBack ==
  /\ queue # <<>> /\ phase = "idle"
  /\ Refusal(Head_.act, Head_.proof) = "none"
  /\ NeedsProof(Head_.act, Head_.proof)
  /\ Answer(Head(queue), "asking", "none")
  /\ UNCHANGED <<hostVars, envVars>>

Admitted(act, proof) == Refusal(act, proof) = "none" /\ ~NeedsProof(act, proof)

Admit ==
  /\ queue # <<>> /\ phase = "idle"
  /\ Admitted(Head_.act, Head_.proof)
  /\ phase' = "admitted"
  /\ UNCHANGED <<req, queue, hostVars, envVars>>

(* verifyBurn: both explorers agree, or anything else happens; they are    *)
(* not asked about an output already claimed.                              *)
Explorers(r, proof) ==
  /\ req[r].st = "asking"
  /\ req[r].act.ref \in world.claimed => proof = "bad"
  /\ req' = [req EXCEPT ![r].st = "queued", ![r].proof = proof]
  /\ queue' = Append(queue, r)
  /\ UNCHANGED <<phase, hostVars, envVars>>
-----------------------------------------------------------------------------
(* log.append: what may be left beyond a line written over `tail'.         *)
Left(old) == IF old = NoTail THEN {NoTail} ELSE {NoTail, [NoTail EXCEPT !.scrap = TRUE]}

(* The line is written and synced, the world moves, and only a settlement  *)
(* has more to do before the answer.                                       *)
Write ==
  LET act == Head_.act
  IN  /\ phase = "admitted"
      /\ acts' = Append(acts, act)
      /\ tail' \in Left(tail)
      /\ seen' = seen \cup {act.sig}
      /\ world' = L!Step(world, act)
      /\ IF act.k = "settle" /\ L!Accepts(world, act)
         THEN phase' = "appended" /\ UNCHANGED <<req, queue>>
         ELSE Answer(Head(queue), IF L!Accepts(world, act) THEN "ok" ELSE "refused", "none")
      /\ UNCHANGED <<store, envVars>>

Leftovers(act) ==
  {tail} \cup {[line |-> act, scrap |-> cut] : cut \in {FALSE, tail # NoTail}}
         \cup (Left(tail) \ {NoTail})

(* The write or the sync throws: the size does not move, and what reached  *)
(* the disk stays there until it is written over.                          *)
WriteFails ==
  /\ phase = "admitted"
  /\ faults < MaxFaults
  /\ faults' = faults + 1
  /\ tail' \in Leftovers(Head_.act)
  /\ Answer(Head(queue), "error", "UNCATALOGUED")
  /\ UNCHANGED <<acts, world, seen, store, now, pen, crashes, puts>>

(* afterApply of a settle, still holding the queue.                        *)
Forget ==
  /\ phase = "appended"
  /\ store' = store \ {world.posts[Head_.act.ref].cid}
  /\ Answer(Head(queue), "ok", "none")
  /\ UNCHANGED <<acts, tail, world, seen, envVars>>

ForgetFails ==
  /\ phase = "appended"
  /\ faults < MaxFaults
  /\ faults' = faults + 1
  /\ Answer(Head(queue), "error", "UNCATALOGUED")
  /\ UNCHANGED <<hostVars, now, pen, crashes, puts>>
-----------------------------------------------------------------------------
(* openLog: the complete lines, then whatever of the leftovers survived.   *)
Reopened_Torn(lines, left) ==
  IF left.scrap THEN Append(SubSeq(lines, 1, Len(lines) - 1), Garbage) ELSE lines

Reopened(lines, left) ==
  lines \o (IF left.line = NoAct THEN <<>> ELSE <<left.line>>)
        \o (IF left.scrap THEN <<Garbage>> ELSE <<>>)

Rebuilt_Kept(lines) == world

(* createServer: the world is rebuilt from nothing.                        *)
Rebuilt(lines) == L!WorldOf(Readable(lines))

(* A crash and the start after it.  A line on its way to the disk may have *)
(* arrived; a leftover that was never synced may be lost with the power.   *)
Crash ==
  /\ crashes < MaxCrashes
  /\ crashes' = crashes + 1
  /\ \E left \in {tail, NoTail} \cup (IF phase = "admitted" THEN Leftovers(Head_.act) ELSE {}) :
       acts' = Reopened(acts, left)
  /\ tail' = NoTail
  /\ world' = Rebuilt(acts')
  /\ seen' = SigsOf(acts')
  /\ req' = [r \in Reqs |-> IF req[r].st \in {"queued", "asking"}
                            THEN [req[r] EXCEPT !.st = "lost"] ELSE req[r]]
  /\ queue' = <<>> /\ phase' = "idle"
  /\ UNCHANGED <<store, now, pen, faults, puts>>

Tick ==
  /\ now < MaxTime
  /\ now' = now + 1
  /\ UNCHANGED <<req, queue, phase, hostVars, pen, faults, crashes, puts>>

(* The office moves to another host; it does not come back in this model.  *)
LosePen ==
  /\ pen
  /\ pen' = FALSE
  /\ UNCHANGED <<req, queue, phase, hostVars, now, faults, crashes, puts>>
-----------------------------------------------------------------------------
Sent(r) ==
  \/ \E t \in 1 .. MaxTime :
       \/ "claim" \in Kinds /\ \E o \in Outs : Send(r, "claim", o, t)
       \/ "post" \in Kinds /\ \E c \in Cids : Send(r, "post", c, t)
       \/ "settle" \in Kinds /\ \E p \in 1 .. MaxPosts : Send(r, "settle", p, t)
       \/ "note" \in Kinds /\ Send(r, "note", 0, t)
  \/ \E q \in Reqs : Resend(r, q)

Queued == Refuse \/ HandBack \/ Admit \/ Write \/ Forget

Faulty == WriteFails \/ ForgetFails \/ Crash

Asked(r) == \E proof \in {"good", "bad"} : Explorers(r, proof)

Next ==
  \/ \E r \in Reqs : Sent(r) \/ Asked(r)
  \/ \E c \in Cids : Put(c)
  \/ Queued \/ Faulty \/ Tick \/ LosePen

Spec == Init /\ [][Next]_vars

(* The event loop runs what is ready, the disk answers or throws, and the  *)
(* explorers are given EXPLORER_TIMEOUT_MS before they count as failed.    *)
Fairness == WF_vars(Queued) /\ \A r \in Reqs : WF_vars(Asked(r))

FairSpec == Spec /\ Fairness
-----------------------------------------------------------------------------
(* Types; and a request holds exactly one place in the queue while it      *)
(* waits for a pass, and none while the explorers are asked about it.      *)
TypeOK ==
  /\ req \in [Reqs -> [st : {"new", "queued", "asking"} \cup Answered,
                       act : L!Acts \cup {NoAct}, proof : {"none", "good", "bad"},
                       code : Codes]]
  /\ queue \in Seq(Reqs) /\ IsInjective(queue)
  /\ Range(queue) = {r \in Reqs : req[r].st = "queued"}
  /\ phase \in {"idle", "admitted", "appended"}
  /\ acts \in Seq(L!Acts \cup {Garbage})
  /\ tail \in [line : L!Acts \cup {NoAct}, scrap : BOOLEAN]
  /\ seen \subseteq Reqs /\ store \subseteq Cids
  /\ now \in 1 .. MaxTime /\ pen \in BOOLEAN

(* The world is never patched from the side: what the process advanced act *)
(* by act is what a replay of its own log computes (createServer).         *)
LiveWorldIsReplay == world = L!WorldOf(Readable(acts))

(* The process and its file agree, and the queue with its requests.        *)
HostConsistent == TypeOK /\ LiveWorldIsReplay

(* The picture of every unsettled post is on the disk: no deletion for an  *)
(* old post ever takes the picture of a new one.                           *)
UnsettledHasPicture == \A p \in DOMAIN world.posts : world.posts[p].live => world.posts[p].cid \in store

(* The host implements the one log it promises.                            *)
ImplementsLedger == L!LedgerSpec

(* Whoever sends an act hears of it, unless the process dies first.        *)
EveryRequestAnswered == \A r \in Reqs : req[r].st = "queued" ~> req[r].st \in Answered
=============================================================================
