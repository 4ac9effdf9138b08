------------------------------- MODULE Client -------------------------------
(***************************************************************************)
(* The page (app/app.mjs) of one member, between the record it read and    *)
(* the record the writer keeps: `refresh' replaces the page's world with a *)
(* replay of what some source answered, `send' checks an act against that  *)
(* world, has the wallet sign it (app/wallet.mjs), posts it, and folds the *)
(* answer into whatever world the page has by then.  Looking at a picture  *)
(* is such an act: createViewMeter decides when it is due.                 *)
(*                                                                         *)
(* A world is the sequence of lines applied to it; a picture's id counts   *)
(* the posts among them.  Every account is registered before the first     *)
(* post, every picture lives on, and the writer takes what the rulebook    *)
(* takes.                                                                  *)
(***************************************************************************)
EXTENDS Integers, Sequences, FiniteSets, SequencesExt

CONSTANTS
  Accounts,   \* the accounts of the member's wallet
  Sends,      \* bound: acts of the page in flight at once
  Dwell,      \* viewDwellMs
  Cooldown,   \* viewCooldownSec
  MaxLines,   \* bound: lines of the record
  MaxCards,   \* bound: pictures the page shows
  MaxLooks,   \* bound: times a picture comes into view
  MaxSwitches,\* bound: changes of account
  MaxTime     \* bound on the clock

ASSUME ClientAssumption ==
  /\ {Dwell, Cooldown, MaxLines, MaxTime} \subseteq Nat \ {0}
  /\ {MaxCards, MaxLooks, MaxSwitches} \subseteq Nat

Them == "them"            \* everybody else

VARIABLES
  now,      \* the clock
  log,      \* the record: what the writer accepted, a line's index in `i'
  who,      \* wallet.address
  switches, \* counted against the bound
  world,    \* state.world, as the lines applied to it
  cards,    \* by id: the line of the post whose picture the card shows
  pairs,    \* the meter's copy of the view ledger: last view of each id
  run,      \* the meter's dwell, by id
  seqSent,  \* the highest view sequence sent
  send      \* calls of send

hostVars  == <<now, log>>
meterVars == <<pairs, run>>
pageVars  == <<world, cards, seqSent, send>>
vars      == <<hostVars, who, switches, meterVars, pageVars>>

Pids    == 1 .. MaxCards
NoAct   == [k |-> "none"]
NoSend  == [st |-> "idle", act |-> NoAct]
NotSeen == [since |-> 0, spent |-> FALSE, look |-> 0]

Init ==
  /\ now = 1 /\ log = <<[k |-> "post", as |-> Them, t |-> 1, i |-> 1]>>
  /\ who \in Accounts /\ switches = 0
  /\ world = <<>> /\ cards = [p \in Pids |-> 0]
  /\ pairs = [p \in Pids |-> 0] /\ run = [p \in Pids |-> NotSeen]
  /\ seqSent = -1
  /\ send = [s \in Sends |-> NoSend]
-----------------------------------------------------------------------------
(* What the rulebook says of a world, as much of it as is needed.          *)

(* The posts among the lines: a picture's id is its place in them.         *)
Posts(w) ==
  LET upto[n \in 0 .. Len(w)] ==
        IF n = 0 THEN <<>>
        ELSE IF w[n].k = "post" THEN Append(upto[n - 1], w[n]) ELSE upto[n - 1]
  IN  upto[Len(w)]

LastAt(w) == IF w = <<>> THEN 0 ELSE w[Len(w)].t

Views(w, a) == {n \in DOMAIN w : w[n].k = "view" /\ w[n].as = a}

ViewSeq(w, a) == Max({w[n].seq : n \in Views(w, a)} \cup {-1})

(* When this account last viewed the picture, 0 when it never did.         *)
Viewed(w, a, p) == Max({w[n].t : n \in {m \in Views(w, a) : w[m].pid = p}} \cup {0})

(* What the rulebook does not refuse: UNKNOWN_ACCOUNT,                     *)
(* TIMESTAMP_IMPLAUSIBLE, and of a view VIEW_SEQ_REPLAY, POST_NOT_FOUND,   *)
(* SELF_ENGAGEMENT and VIEW_TOO_SOON.                                      *)
Accepts(w, act) ==
  /\ w # <<>>
  /\ act.t >= LastAt(w)
  /\ act.k = "view" =>
       /\ act.seq > ViewSeq(w, act.as)
       /\ act.pid \in DOMAIN Posts(w)
       /\ Posts(w)[act.pid].as # act.as
       /\ Viewed(w, act.as, act.pid) # 0 =>
            act.t - Viewed(w, act.as, act.pid) >= Cooldown

Folds_AnyIndex(w, line) == Accepts(w, line)

(* applyAct on a line that carries the writer's index.                     *)
Folds(w, line) == Accepts(w, line) /\ line.i > w[Len(w)].i
-----------------------------------------------------------------------------
(* render: a card is made, with its picture, when its id is first shown,   *)
(* and goes when the id does.                                              *)
Rendered_Keeps(w) ==
  [p \in Pids |-> IF cards[p] # 0 THEN cards[p]
                  ELSE IF p \in DOMAIN Posts(w) THEN Posts(w)[p].i ELSE 0]

Rendered(w) ==
  [p \in Pids |-> IF p \notin DOMAIN Posts(w) THEN 0
                  ELSE IF cards[p] # 0 THEN cards[p] ELSE Posts(w)[p].i]

(* ...and with the card the meter's run.                                   *)
Watched(w) == [p \in Pids |-> IF p \in DOMAIN Posts(w) THEN run[p]
                              ELSE [NotSeen EXCEPT !.look = run[p].look]]

(* meter.seed.                                                             *)
Seeded(w, a) == [p \in Pids |-> Viewed(w, a, p)]

Shows(w, a) ==
  /\ world' = w
  /\ cards' = Rendered(w) /\ run' = Watched(w) /\ pairs' = Seeded(w, a)
-----------------------------------------------------------------------------
(* refresh: what a source answered becomes the world.  It is a beginning   *)
(* of the record: the host's when it was asked, which may be long ago by   *)
(* now; an older copy from the archive; or, when nothing answers, nothing. *)
Replayed(n) == SubSeq(log, 1, n)

Refresh ==
  /\ \E n \in 0 .. Len(log) : Shows(Replayed(n), who)
  /\ UNCHANGED <<hostVars, who, switches, seqSent, send>>
-----------------------------------------------------------------------------
(* send: prepareAct stamps the act and the rulebook is asked; then the     *)
(* wallet is.  An act has no index before the writer gives it one.         *)
Stamp == IF now > LastAt(world) THEN now ELSE LastAt(world)

Sign(s, act) == send' = [send EXCEPT ![s] = [st |-> "signing", act |-> act]]

(* The composer, whose button is busy while its post is on the way.        *)
Publish(s) ==
  /\ send[s] = NoSend /\ \A r \in Sends : send[r].act.k # "post"
  /\ Len(log) < MaxLines
  /\ LET act == [k |-> "post", as |-> who, t |-> Stamp, i |-> 0]
     IN  Accepts(world, act) /\ Sign(s, act)
  /\ UNCHANGED <<hostVars, who, switches, meterVars, world, cards, seqSent>>

(* signAct compares the recovered signer with the wallet's address of now. *)
Checks(signer) == signer = who

(* The provider signs, as the account it was asked for or as another; what *)
(* passes the check leaves the page, and the writer takes or refuses it.   *)
Delivered(s, signer) == send[s].st = "signing" /\ Checks(signer)

Taken(s, signer) ==
  /\ Delivered(s, signer)
  /\ signer = send[s].act.as /\ Accepts(log, send[s].act)
  /\ Len(log) < MaxLines
  /\ LET line == [send[s].act EXCEPT !.i = Len(log) + 1]
     IN  /\ log' = Append(log, line)
         /\ send' = [send EXCEPT ![s] = [st |-> "taken", act |-> line]]
  /\ UNCHANGED <<now, who, switches, meterVars, world, cards, seqSent>>

Refused(s, signer) ==
  /\ Delivered(s, signer)
  /\ signer # send[s].act.as \/ ~Accepts(log, send[s].act)
  /\ send' = [send EXCEPT ![s] = NoSend]
  /\ UNCHANGED <<hostVars, who, switches, meterVars, world, cards, seqSent>>

(* The signature does not recover to the wallet's address, or nobody       *)
(* signs, or the writer is not reached.                                    *)
NotSent(s) ==
  /\ send[s].st = "signing"
  /\ send' = [send EXCEPT ![s] = NoSend]
  /\ UNCHANGED <<hostVars, who, switches, meterVars, world, cards, seqSent>>

(* The accepted act lands in the world the page has now...                 *)
Fold(s) ==
  /\ send[s].st = "taken" /\ Folds(world, send[s].act)
  /\ Shows(Append(world, send[s].act), who)
  /\ send' = [send EXCEPT ![s] = NoSend]
  /\ UNCHANGED <<hostVars, who, switches, seqSent>>

(* ...or does not fit, and the record is read again.                       *)
Refetch(s) ==
  /\ send[s].st = "taken" /\ ~Folds(world, send[s].act)
  /\ \E n \in 0 .. Len(log) : Shows(Replayed(n), who)
  /\ send' = [send EXCEPT ![s] = NoSend]
  /\ UNCHANGED <<hostVars, who, switches, seqSent>>

(* An answer that is lost is shown as a refusal.                           *)
AnswerLost(s) ==
  /\ send[s].st = "taken"
  /\ send' = [send EXCEPT ![s] = NoSend]
  /\ UNCHANGED <<hostVars, who, switches, meterVars, world, cards, seqSent>>
-----------------------------------------------------------------------------
(* The meter.  A card comes into view and leaves it.                       *)
Looks == FoldFunction(+, 0, [p \in Pids |-> run[p].look])

Arrive(p) ==
  /\ cards[p] # 0 /\ run[p].since = 0 /\ Looks < MaxLooks
  /\ run' = [run EXCEPT ![p].since = now, ![p].look = @ + 1]
  /\ UNCHANGED <<hostVars, who, switches, pairs, pageVars>>

Leave(p) ==
  /\ run[p].since # 0
  /\ run' = [run EXCEPT ![p].since = 0, ![p].spent = FALSE]
  /\ UNCHANGED <<hostVars, who, switches, pairs, pageVars>>

(* A fling, a hidden tab or a gap between frames: the dwell starts again.  *)
Interrupt(p) ==
  /\ run[p].since \in 1 .. now - 1
  /\ run' = [run EXCEPT ![p].since = now]
  /\ UNCHANGED <<hostVars, who, switches, pairs, pageVars>>

Due_Again(p) == run[p].since # 0 /\ now - run[p].since >= Dwell

Due(p) == run[p].since # 0 /\ now - run[p].since >= Dwell /\ ~run[p].spent

Blocked(p) == pairs[p] # 0 /\ now - pairs[p] < Cooldown

(* The dwell is over and may not be billed: it is spent all the same.      *)
Spend(p) ==
  /\ Due(p) /\ Blocked(p)
  /\ run' = [run EXCEPT ![p].spent = TRUE]
  /\ UNCHANGED <<hostVars, who, switches, pairs, pageVars>>

NextSeq_OfWorld == ViewSeq(world, who) + 1

NextSeq == Max({ViewSeq(world, who), seqSent}) + 1

(* bill: the view is noted, numbered, checked and sent.  `look' says    *)
(* which time this is that the picture has come before the member's eyes.  *)
Bill(p, s) ==
  /\ Due(p) /\ ~Blocked(p)
  /\ send[s] = NoSend
  /\ run' = [run EXCEPT ![p].spent = TRUE]
  /\ pairs' = [pairs EXCEPT ![p] = now]
  /\ seqSent' = NextSeq
  /\ LET act == [k |-> "view", as |-> who, t |-> Stamp, i |-> 0,
                 pid |-> p, seq |-> NextSeq, look |-> run[p].look]
     IN  IF Accepts(world, act) THEN Sign(s, act) ELSE UNCHANGED send
  /\ UNCHANGED <<hostVars, who, switches, world, cards>>
-----------------------------------------------------------------------------
(* Somebody else's post, the wallet's user, the clock.                     *)
TheyPost ==
  /\ Len(log) < MaxLines
  /\ log' = Append(log, [k |-> "post", as |-> Them, t |-> now, i |-> Len(log) + 1])
  /\ UNCHANGED <<now, who, switches, meterVars, pageVars>>

AccountsChanged(a) ==
  /\ switches < MaxSwitches /\ a # who
  /\ switches' = switches + 1
  /\ who' = a
  /\ pairs' = Seeded(world, a)
  /\ UNCHANGED <<hostVars, run, pageVars>>

Tick ==
  /\ now < MaxTime
  /\ now' = now + 1
  /\ UNCHANGED <<log, who, switches, meterVars, pageVars>>

Sending(s) ==
  \/ Publish(s) \/ NotSent(s) \/ Fold(s) \/ Refetch(s) \/ AnswerLost(s)
  \/ \E a \in Accounts : Taken(s, a) \/ Refused(s, a)
  \/ \E p \in Pids : Bill(p, s)

Metering(p) == Arrive(p) \/ Leave(p) \/ Interrupt(p) \/ Spend(p)

Next ==
  \/ TheyPost \/ Tick \/ Refresh
  \/ \E a \in Accounts : AccountsChanged(a)
  \/ \E s \in Sends : Sending(s)
  \/ \E p \in Pids : Metering(p)

Spec == Init /\ [][Next]_vars
-----------------------------------------------------------------------------
TypeOK ==
  /\ now \in 1 .. MaxTime /\ who \in Accounts /\ switches \in 0 .. MaxSwitches
  /\ \A n \in DOMAIN log : log[n].i = n
  /\ \A n \in DOMAIN world : world[n] = log[world[n].i]
  /\ cards \in [Pids -> 0 .. MaxLines] /\ pairs \in [Pids -> 0 .. MaxTime]
  /\ \A p \in Pids : cards[p] # 0 <=> p \in DOMAIN Posts(world)
  /\ run \in [Pids -> [since : 0 .. MaxTime, spent : BOOLEAN, look : Nat]]
  /\ seqSent \in Nat \cup {-1}
  /\ \A s \in Sends : send[s].st \in {"idle", "signing", "taken"}

(* However answers and refreshes overtake each other, no line of the       *)
(* record is in the page's world twice, and none before an older one: no   *)
(* view, fee or balance is counted double on the screen.                   *)
AppliedOnce == \A m, n \in DOMAIN world : m < n => world[m].i < world[n].i

(* One look at a picture is charged at most once, whatever was noted,      *)
(* forgotten with a reseeded ledger, refused, or charged late.             *)
OneChargePerLook ==
  \A m, n \in DOMAIN log :
    /\ m < n
    /\ {log[m].k, log[n].k} = {"view"}
    /\ log[m].pid = log[n].pid
    => log[m].look # log[n].look

(* Views sent together, or after a stale refresh, never claim one number:  *)
(* the writer refuses a view for its sequence only when a later one of     *)
(* this page overtook it.                                                  *)
SequenceNeverReused ==
  \A s \in Sends : send[s].st = "signing" /\ send[s].act.k = "view" =>
    /\ \A n \in Views(log, send[s].act.as) : log[n].seq # send[s].act.seq
    /\ \A r \in Sends \ {s} :
         send[r].st = "signing" /\ send[r].act.k = "view" => send[r].act.seq # send[s].act.seq

(* The page's world is a part of the record in its order, its cards are    *)
(* that world's, and what it sends next is numbered by neither too little. *)
PageFollowsRecord == TypeOK /\ AppliedOnce /\ SequenceNeverReused
=============================================================================
