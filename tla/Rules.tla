-------------------------------- MODULE Rules --------------------------------
(***************************************************************************)
(* contracts/PtpRules.sol, beside the anchor it takes for its clock: the   *)
(* schedule of which distribution module is claimed to govern from which   *)
(* epoch.  ops/deploy.mjs puts the anchor on the chain first; how many     *)
(* epochs are sealed before this contract follows is open.                 *)
(*                                                                         *)
(* An edition is a version string with the hash of its source; an empty    *)
(* string or a zero hash is the edition Zero.                              *)
(***************************************************************************)
EXTENDS Anchor, Sequences

CONSTANT Editions

ASSUME RulesAssumption == Zero \notin Editions

VARIABLES
  ruleKey,    \* Zero until the contract is deployed
  schedule    \* entries in publication order, empty until then

rulesVars == <<ruleKey, schedule>>
vars == <<anchorVars, rulesVars>>

Init == AnchorInit /\ ruleKey = Zero /\ schedule = <<>>

Deployed == schedule # <<>>

Rule(a, edition, fromEpoch) ==
  [fromEpoch |-> fromEpoch, edition |-> edition, setBy |-> a, setAt |-> now]
-----------------------------------------------------------------------------
(* fault: the first entry claims every epoch, as it once did *)
GenesisFrom_Zero == 0

GenesisFrom == CurrentEpoch

Deploy(a, key, edition) ==
  /\ ~Deployed
  /\ key # Zero /\ edition # Zero
  /\ ruleKey' = key
  /\ schedule' = <<Rule(a, edition, GenesisFrom)>>
  /\ UNCHANGED anchorVars

ClearsFloors_AtClock(fromEpoch, last, clock) ==
  fromEpoch > last /\ (clock # Ceiling => fromEpoch >= clock)

ClearsFloors_ClockOnly(fromEpoch, last, clock) == clock # Ceiling => fromEpoch > clock

ClearsFloors_NoClause(fromEpoch, last, clock) == fromEpoch > last /\ fromEpoch > clock

(* The two floors of setRules: above the last entry, and above the clock   *)
(* unless the clock reads the one number nothing is above.                 *)
ClearsFloors(fromEpoch, last, clock) ==
  /\ fromEpoch > last
  /\ clock # Ceiling => fromEpoch > clock

SetRules(a, edition, fromEpoch) ==
  /\ Deployed
  /\ a = ruleKey
  /\ edition # Zero
  /\ ClearsFloors(fromEpoch, schedule[Len(schedule)].fromEpoch, CurrentEpoch)
  /\ schedule' = Append(schedule, Rule(a, edition, fromEpoch))
  /\ UNCHANGED <<anchorVars, ruleKey>>

RotateRuleKey(a, to) ==
  /\ Deployed
  /\ a = ruleKey
  /\ to # Zero
  /\ ruleKey' = to
  /\ UNCHANGED <<anchorVars, schedule>>

RulesNext ==
  \/ \E a \in Addr, key \in Addr \cup {Zero}, r \in Editions \cup {Zero} : Deploy(a, key, r)
  \/ \E a \in Addr, r \in Editions \cup {Zero}, e \in 0 .. Ceiling : SetRules(a, r, e)
  \/ \E a \in Addr, to \in Addr \cup {Zero} : RotateRuleKey(a, to)

Next == (AnchorNext /\ UNCHANGED rulesVars) \/ RulesNext

Spec == Init /\ [][Next]_vars
-----------------------------------------------------------------------------
(* _rulesFor: the last entry at or below the epoch; it reverts when there  *)
(* is none.                                                                *)
Governing(epoch) == {i \in 1 .. Len(schedule) : schedule[i].fromEpoch <= epoch}

NoAnswer == [fromEpoch |-> 0, edition |-> Zero, setBy |-> Zero, setAt |-> 0]

RulesFor(epoch) ==
  LET S == Governing(epoch)
  IN  IF S = {} THEN NoAnswer
      ELSE schedule[CHOOSE i \in S : \A j \in S : j <= i]
-----------------------------------------------------------------------------
Entry == [fromEpoch : 0 .. Ceiling, edition : Editions, setBy : Addr, setAt : 1 .. MaxTime]

(* Types; the key is set exactly from the deployment on.                   *)
RulesTypeOK ==
  /\ schedule \in Seq(Entry)
  /\ ruleKey \in Addr \cup {Zero}
  /\ ruleKey = Zero <=> schedule = <<>>

TypeOK == AnchorTypeOK /\ RulesTypeOK

(* THE NARROW GUARANTEE: what the schedule says of an epoch the anchor has *)
(* sealed never changes, by any later entry, by a change of key, nor by    *)
(* the deployment itself, which claims no epoch sealed before it.  Once    *)
(* deployed, the same holds of the epoch "being computed right now".       *)
AnswersFrozen ==
  [][\A e \in 0 .. Ceiling :
       Sealed(e) \/ (Deployed /\ e = CurrentEpoch) => RulesFor(e)' = RulesFor(e)]_vars

(* The entries are a partition of the epochs from the first one's on: the  *)
(* scan answers with the entry that starts nearest below the epoch, so no  *)
(* entry is ever shadowed by one published later.                          *)
NothingShadowed ==
  /\ \A i \in 1 .. Len(schedule) : RulesFor(schedule[i].fromEpoch) = schedule[i]
  /\ \A e \in 0 .. Ceiling : \A i \in Governing(e) :
       schedule[i].fromEpoch <= RulesFor(e).fromEpoch

(* "It is also the ONLY way this function can stop accepting entries": for *)
(* every number a clock could return, the key can still schedule something *)
(* unless it has itself named the ceiling.                                 *)
NeverLockedOut ==
  Deployed =>
    LET last == schedule[Len(schedule)].fromEpoch
    IN  last < Ceiling =>
          \A clock \in 0 .. Ceiling : \E e \in 0 .. Ceiling : ClearsFloors(e, last, clock)

(* The schedule can be read and can be continued.                          *)
ScheduleSound == NothingShadowed /\ NeverLockedOut

(* The record as a whole, for the specification of both contracts.         *)
RecordIsFinal == [][NoRevision]_vars
=============================================================================
