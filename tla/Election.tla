------------------------------ MODULE Election ------------------------------
(***************************************************************************)
(* Several hosts, each of which decides from its own probe rounds whether  *)
(* it holds the pen: server/chain/election.mjs over the endpoints of       *)
(* server/index.mjs.                                                       *)
(*                                                                         *)
(* A round asks the roster one host after another, two documents each, so  *)
(* the rows it decides on are of different age, and so is what it knew of  *)
(* itself when it began.  Meanwhile the hosts write, seal, copy the record *)
(* they follow and restart.                                                *)
(*                                                                         *)
(* No file of the repository calls `elect'.  What the caller does with the *)
(* answer is external here: it adopts role and address, and a host counts  *)
(* as quarantined until it has been seated.  A log is the sequence of the  *)
(* hosts that accepted its acts, a block the prefix of the log it seals    *)
(* and its producer; equal blocks are equal hashes.                        *)
(***************************************************************************)
EXTENDS Integers, Sequences, FiniteSets, SequencesExt

CONSTANTS
  Hosts, NoHost,
  Order,           \* [Hosts -> Nat]: the origins, compared as strings
  StatusServed,    \* whether a host answers /status.json
  HandoverDeclared, \* options.allowProducerChange
  MaxActs,         \* bound: acts in one log
  MaxDisturbances  \* bound: failed requests, restarts and promotions together

ASSUME ElectionAssumption ==
  /\ IsFiniteSet(Hosts) /\ NoHost \notin Hosts
  /\ Order \in [Hosts -> Nat]
  /\ \A a, b \in Hosts : Order[a] = Order[b] => a = b
  /\ StatusServed \in BOOLEAN /\ HandoverDeclared \in BOOLEAN
  /\ {MaxActs, MaxDisturbances} \subseteq Nat

VARIABLES
  log,         \* the act log of each host
  chain,       \* its sealed blocks
  role,        \* waiting, mirror or writer
  follow,      \* whose mirror it is
  quarantined, \* not seated since it started
  promoted,    \* by its operator
  round,       \* the probe round under way
  mandate,     \* history: somebody answered, or the operator spoke, since the start
  disturbed    \* failed requests, restarts and promotions so far

recordVars == <<log, chain>>
roleVars   == <<role, follow, quarantined, mandate>>
vars == <<recordVars, roleVars, promoted, round, disturbed>>

Roles == {"waiting", "mirror", "writer"}
Idle  == [st |-> "idle"]

Block(by, acts) == [by |-> by, acts |-> acts]
Sealed(c)       == IF c = <<>> THEN 0 ELSE Len(Last(c).acts)
-----------------------------------------------------------------------------
(* Ranking.                                                                *)

StrictlyLonger(p, q) == p.height > q.height \/ (p.height = q.height /\ p.acts > q.acts)

AtLeastAsLong(p, q) == p.height > q.height \/ (p.height = q.height /\ p.acts >= q.acts)

(* compareByRecord: liveness is left out where this host is a candidate.   *)
Precedes(p, q) ==
  \/ StrictlyLonger(p, q)
  \/ ~StrictlyLonger(q, p) /\ Order[p.origin] < Order[q.origin]

(* compareCandidates among peers: any of the longest, for liveness is      *)
(* whatever the status said.                                               *)
Foremost(S) == {p \in S : \A q \in S : ~StrictlyLonger(q, p)}

CompareRecords(mine, theirs) ==
  CASE mine = theirs              -> "same"
    [] IsPrefix(theirs, mine)     -> "ahead"
    [] IsPrefix(mine, theirs)     -> "behind"
    [] OTHER                      -> "forked"
-----------------------------------------------------------------------------
(* decide: what a host makes of what it heard.                             *)

Decision(r, f, code) == [role |-> r, follow |-> f, code |-> code]

(* A peer that mirrors us is no candidate, but it has answered.            *)
Candidates(me, heard) == {p \in heard : p.follows # me.origin}

Alone_Eager(me) ==
  IF me.promoted THEN Decision("writer", NoHost, "PROMOTED_BY_OPERATOR")
                 ELSE Decision("writer", NoHost, "PARTITIONED_INCUMBENT")

Alone(me) ==
  CASE me.promoted    -> Decision("writer", NoHost, "PROMOTED_BY_OPERATOR")
    [] me.quarantined -> Decision("waiting", NoHost, "NO_PEER_HEARD")
    [] OTHER          -> Decision("writer", NoHost, "PARTITIONED_INCUMBENT")

Frozen == Decision("waiting", NoHost, "FORK_NEEDS_A_PERSON")

(* Whom a host still in quarantine yields to.                              *)
Yields(me, candidates) == {p \in candidates : p.role = "writer" /\ AtLeastAsLong(p, me)}

(* Nobody is seated: the record decides, then the origin.                  *)
First(field) == CHOOSE p \in field : \A q \in field \ {p} : Precedes(p, q)

Booting(me, candidates) ==
  LET seated == Yields(me, candidates)
      first  == First(candidates \cup {me})
  IN  IF seated # {}
      THEN {Decision("mirror", p.origin, "YIELD_TO_SEATED_WRITER") : p \in Foremost(seated)}
      ELSE {IF first = me THEN Decision("writer", NoHost, "QUARANTINE_LIFTED")
                          ELSE Decision("mirror", first.origin, "YIELD_BY_ORDER")}

Seated_YieldsToEqual(me, candidates) ==
  LET longer == {p \in candidates : AtLeastAsLong(p, me)}
  IN  IF longer # {}
      THEN {Decision("mirror", p.origin, "YIELD_TO_LONGER") : p \in Foremost(longer)}
      ELSE {Decision("writer", NoHost, "INCUMBENT_HOLDS")}

Seated_FollowsItself(me, candidates) ==
  {Decision("mirror", p.origin, "YIELD_TO_LONGER") : p \in Foremost(candidates \cup {me})}

Seated_Never(me, candidates) == {Decision("writer", NoHost, "INCUMBENT_HOLDS")}

(* A seated host yields to a strictly longer record and to nothing else.   *)
Seated(me, candidates) ==
  LET longer == {p \in candidates : StrictlyLonger(p, me)}
  IN  IF longer # {}
      THEN {Decision("mirror", p.origin, "YIELD_TO_LONGER") : p \in Foremost(longer)}
      ELSE {Decision("writer", NoHost,
                     IF me.promoted /\ me.quarantined THEN "PROMOTED_BY_OPERATOR"
                                                      ELSE "INCUMBENT_HOLDS")}

Decide_ForkUnseen(me, heard) ==
  IF heard = {} THEN {Alone(me)}
  ELSE IF me.quarantined /\ ~me.promoted THEN Booting(me, Candidates(me, heard))
  ELSE Seated(me, Candidates(me, heard))

Decide(me, heard) ==
  IF heard = {} THEN {Alone(me)}
  ELSE IF \E p \in heard : CompareRecords(me.chain, p.chain) = "forked" THEN {Frozen}
  ELSE IF me.quarantined /\ ~me.promoted THEN Booting(me, Candidates(me, heard))
  ELSE Seated(me, Candidates(me, heard))
-----------------------------------------------------------------------------
(* auditRecord, of one delivered chain and the status claimed beside it.   *)
(* The act count is not delivered: it is read from the status on both      *)
(* sides of the comparison.                                                *)
OneProducer(blocks) == \A i, j \in DOMAIN blocks : blocks[i].by = blocks[j].by

Audited(blocks, claim) ==
  /\ HandoverDeclared \/ OneProducer(blocks)
  /\ claim.height <= Len(blocks)

Row(p, blocks, claim) ==
  [origin |-> p, height |-> Len(blocks), acts |-> claim.acts, role |-> claim.role,
   follows |-> claim.follows, chain |-> blocks]

Status(p) ==
  [height |-> Len(chain[p]), acts |-> Len(log[p]), role |-> role[p], follows |-> follow[p]]

(* What is left of a claim whose document did not arrive.                  *)
NoStatus == [height |-> 0, acts |-> 0, role |-> "waiting", follows |-> NoHost]
-----------------------------------------------------------------------------
(* Init: the hosts hold copies of one record of one producer, of unequal   *)
(* length, and all of them have just started.                              *)
Init ==
  /\ \E founder \in Hosts, n \in [Hosts -> 1 .. 2] :
       /\ log = [h \in Hosts |-> [i \in 1 .. n[h] |-> founder]]
       /\ chain = [h \in Hosts |-> <<Block(founder, <<founder>>)>>]
  /\ role = [h \in Hosts |-> "waiting"]
  /\ follow = [h \in Hosts |-> NoHost]
  /\ quarantined = [h \in Hosts |-> TRUE]
  /\ promoted = [h \in Hosts |-> FALSE]
  /\ round = [h \in Hosts |-> Idle]
  /\ mandate = [h \in Hosts |-> FALSE]
  /\ disturbed = 0
-----------------------------------------------------------------------------
(* elect: what the host says of itself is fixed when the round begins.     *)
Probe(h) ==
  /\ round[h].st = "idle"
  /\ round' = [round EXCEPT ![h] =
       [st |-> "asking", left |-> Hosts \ {h}, heard |-> {}, peer |-> NoHost, blocks |-> <<>>,
        me |-> [origin |-> h, height |-> Len(chain[h]), acts |-> Len(log[h]), chain |-> chain[h],
                quarantined |-> quarantined[h], promoted |-> promoted[h]]]]
  /\ UNCHANGED <<recordVars, roleVars, promoted, disturbed>>

(* GET /api/chain; a host that has sealed nothing refuses.                 *)
FetchChain(h, p) ==
  /\ round[h].st = "asking" /\ p \in round[h].left
  /\ chain[p] # <<>>
  /\ round' = [round EXCEPT ![h].st = "status", ![h].peer = p, ![h].blocks = chain[p]]
  /\ UNCHANGED <<recordVars, roleVars, promoted, disturbed>>

Drop(h, p) == round' = [round EXCEPT ![h].st = "asking", ![h].left = @ \ {p}]

ChainRefused(h, p) ==
  /\ round[h].st = "asking" /\ p \in round[h].left
  /\ chain[p] = <<>>
  /\ Drop(h, p)
  /\ UNCHANGED <<recordVars, roleVars, promoted, disturbed>>

Heard(h, claim) ==
  LET r == round[h]
  IN  round' = [round EXCEPT ![h] =
        [r EXCEPT !.st = "asking", !.left = @ \ {r.peer}, !.peer = NoHost, !.blocks = <<>>,
                  !.heard = IF Audited(r.blocks, claim)
                            THEN @ \cup {Row(r.peer, r.blocks, claim)} ELSE @]]

(* GET /status.json, asked when the chain has arrived.                     *)
FetchStatus(h) ==
  /\ round[h].st = "status"
  /\ Heard(h, IF StatusServed THEN Status(round[h].peer) ELSE NoStatus)
  /\ UNCHANGED <<recordVars, roleVars, promoted, disturbed>>

Disturbance ==
  /\ disturbed < MaxDisturbances
  /\ disturbed' = disturbed + 1

(* A lost chain leaves the peer out, a lost status only its claims.        *)
Loses(h) ==
  /\ Disturbance
  /\ \/ round[h].st = "asking" /\ \E p \in round[h].left : Drop(h, p)
     \/ round[h].st = "status" /\ Heard(h, NoStatus)
  /\ UNCHANGED <<recordVars, roleVars, promoted>>

Mandated(me, heard) == heard # {} \/ me.promoted

(* The round ends in a decision, and the caller adopts it.                 *)
Adopt(h, d) ==
  /\ role' = [role EXCEPT ![h] = d.role]
  /\ follow' = [follow EXCEPT ![h] = d.follow]
  /\ quarantined' = [quarantined EXCEPT ![h] = d.role # "writer"]
  /\ mandate' = [mandate EXCEPT ![h] = @ \/ Mandated(round[h].me, round[h].heard)]
  /\ round' = [round EXCEPT ![h] = Idle]

Settle(h) ==
  /\ round[h].st = "asking" /\ round[h].left = {}
  /\ \E d \in Decide(round[h].me, round[h].heard) : Adopt(h, d)
  /\ UNCHANGED <<recordVars, promoted, disturbed>>
-----------------------------------------------------------------------------
(* What goes on around the rounds.                                         *)

(* submit takes acts while isWriter says so.                               *)
Write(h) ==
  /\ role[h] = "writer" /\ Len(log[h]) < MaxActs
  /\ log' = [log EXCEPT ![h] = Append(@, h)]
  /\ UNCHANGED <<chain, roleVars, promoted, round, disturbed>>

(* buildChain, when an epoch has closed since the last block.              *)
Seal(h) ==
  /\ role[h] = "writer" /\ Len(log[h]) > Sealed(chain[h])
  /\ chain' = [chain EXCEPT ![h] = Append(@, Block(h, log[h]))]
  /\ UNCHANGED <<log, roleVars, promoted, round, disturbed>>

(* A mirror copies the record it follows, once the host it follows writes  *)
(* and if that record extends its own blocks.                              *)
Copy(h) ==
  /\ role[h] = "mirror" /\ role[follow[h]] = "writer"
  /\ LET p == follow[h]
     IN  /\ log[p] # log[h] \/ chain[p] # chain[h]
         /\ CompareRecords(chain[h], chain[p]) \in {"same", "behind"}
         /\ AtLeastAsLong(Status(p), Status(h))
         /\ log' = [log EXCEPT ![h] = log[p]]
         /\ chain' = [chain EXCEPT ![h] = chain[p]]
  /\ UNCHANGED <<roleVars, promoted, round, disturbed>>

(* A watchdog starts the host again, perhaps from a backup of its record,  *)
(* in which the blocks may lag behind the log.                             *)
Restart(h) ==
  /\ Disturbance
  /\ \E n \in 0 .. Len(log[h]), m \in 0 .. Len(chain[h]) :
       /\ \A i \in 1 .. m : Len(chain[h][i].acts) <= n
       /\ log' = [log EXCEPT ![h] = SubSeq(@, 1, n)]
       /\ chain' = [chain EXCEPT ![h] = SubSeq(@, 1, m)]
  /\ role' = [role EXCEPT ![h] = "waiting"]
  /\ follow' = [follow EXCEPT ![h] = NoHost]
  /\ quarantined' = [quarantined EXCEPT ![h] = TRUE]
  /\ promoted' = [promoted EXCEPT ![h] = FALSE]
  /\ mandate' = [mandate EXCEPT ![h] = FALSE]
  /\ round' = [round EXCEPT ![h] = Idle]

(* The operator promotes a host that waits.                                *)
Promote(h) ==
  /\ Disturbance
  /\ role[h] = "waiting" /\ ~promoted[h]
  /\ promoted' = [promoted EXCEPT ![h] = TRUE]
  /\ UNCHANGED <<recordVars, roleVars, round>>
-----------------------------------------------------------------------------
Ask(h) ==
  \/ Probe(h)
  \/ \E p \in Hosts : FetchChain(h, p) \/ ChainRefused(h, p)
  \/ FetchStatus(h)
  \/ Settle(h)

Next ==
  \E h \in Hosts :
    Ask(h) \/ Loses(h) \/ Write(h) \/ Seal(h) \/ Copy(h) \/ Restart(h) \/ Promote(h)

Spec == Init /\ [][Next]_vars

(* Every host goes on with its rounds, and a mirror with its copying.      *)
Fairness == \A h \in Hosts : WF_vars(Ask(h)) /\ WF_vars(Copy(h))

FairSpec == Spec /\ Fairness
-----------------------------------------------------------------------------
Pen(h) == role[h] = "writer"

TypeOK ==
  /\ log \in [Hosts -> Seq(Hosts)]
  /\ role \in [Hosts -> Roles] /\ follow \in [Hosts -> Hosts \cup {NoHost}]
  /\ quarantined \in [Hosts -> BOOLEAN] /\ promoted \in [Hosts -> BOOLEAN]
  /\ mandate \in [Hosts -> BOOLEAN]
  /\ \A h \in Hosts : (follow[h] # NoHost) <=> role[h] = "mirror"
  /\ \A h \in Hosts : follow[h] # h
  /\ \A h \in Hosts : \A i \in DOMAIN chain[h] : IsPrefix(chain[h][i].acts, log[h])

(* Rule 1, silence is not a mandate: nobody writes who has neither heard   *)
(* from a peer nor been promoted since it started.                         *)
NoPenOnSilence == \A h \in Hosts : Pen(h) => mandate[h]

(* Roles, logs and sealed records fit together, and no pen is unmandated.  *)
RolesHold == TypeOK /\ NoPenOnSilence

(* "Exactly one host at a time ... never concurrent."                      *)
AtMostOnePen == \A a, b \in Hosts : Pen(a) /\ Pen(b) => a = b

(* Each has sealed a block the other has not.                              *)
Forked(a, b) == ~IsPrefix(chain[a], chain[b]) /\ ~IsPrefix(chain[b], chain[a])

Longer(a, b) == StrictlyLonger(Status(a), Status(b))

(* Two hosts may write for a while, but not for ever where one record is   *)
(* strictly longer: the rounds take the pen of the shorter one away.       *)
LongerRecordEndsUpAlone ==
  <>[](\A a, b \in Hosts : Pen(a) /\ Pen(b) => ~Longer(a, b))

(* Two sealed histories stop both hosts.                                   *)
ForkFreezesBoth ==
  \A a, b \in Hosts : <>[]Forked(a, b) => <>[](~Pen(a) /\ ~Pen(b))

(* Hosts that hear each other do not wait for one another for ever: in the *)
(* end there is a writer, or a fork, or a host whose refusals its peers    *)
(* take for silence because it holds no sealed block.                      *)
SomebodyWrites ==
  \/ <>[](\E h \in Hosts : Pen(h))
  \/ <>[](\E a, b \in Hosts : Forked(a, b))
  \/ <>[](\E h \in Hosts : chain[h] = <<>>)
=============================================================================
