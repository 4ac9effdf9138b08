------------------------------- MODULE Oracle -------------------------------
(***************************************************************************)
(* The EUR/BTC rate.  The host reads the sources (server/oracle.mjs) one   *)
(* round at a time and publishes what it read (server/index.mjs); whoever  *)
(* closes an epoch seals a rate (sealRate, core/pricing.mjs).  The two     *)
(* share a median, a quorum and a clamp, and nothing else: a round may     *)
(* still be out when the epoch it was begun in has closed.                 *)
(***************************************************************************)
EXTENDS Integers, Sequences, FiniteSets, SequencesExt

CONSTANTS
  Sources,    \* how many are configured
  Wrong,      \* how many of them say what they like
  Minimum,    \* ORACLE_MIN_SOURCES
  Quorum,     \* ORACLE_QUORUM
  MaxMove,    \* ORACLE_MAX_MOVE_BPS
  Scale,      \* BPS
  MaxAge,     \* ORACLE_MAX_AGE_MS
  Getters,    \* bound: requests for the published rate at once
  Quotes,     \* prices the market may have, and lies
  Reports,    \* what a close may carry: lists of values, or of one bare rate
  FirstRate,  \* the rate of the genesis epoch
  MaxCloses, MaxRounds, MaxClock   \* bounds

ASSUME OracleAssumption ==
  /\ {Sources, Wrong, Minimum, Quorum} \subseteq Nat
  /\ Sources >= Minimum /\ Minimum >= Quorum
  /\ 2 * Wrong < Quorum
  /\ {MaxMove, MaxAge} \subseteq Nat /\ Scale \in Nat \ {0} /\ 10 * MaxMove <= Scale
  /\ Quotes \subseteq Nat \ {0} /\ FirstRate \in Nat \ {0}
  /\ \A report \in Reports :
       /\ report.values \in Seq(Nat \ {0})
       /\ report.kind = "bare" => Len(report.values) = 1

VARIABLES
  market,   \* what one bitcoin costs
  clock,
  seals,    \* the rate of every epoch so far: the last is world.epoch.oracle
  round,    \* oracleInFlight, and what it was begun with
  rounds,   \* counted against the bound
  reading,  \* oracleReading, as it was signed
  got       \* GET /api/v1/oracle, per request, and what it answered

oracleVars == <<market, clock, seals, round, rounds, reading, got>>

NoRound   == [st |-> "none"]
NoReading == [at |-> -1]
NoGet     == [st |-> "none"]

OracleInit ==
  /\ market \in Quotes /\ clock = 0
  /\ seals = <<FirstRate>>
  /\ round = NoRound /\ rounds = 0 /\ reading = NoReading
  /\ got = [g \in Getters |-> NoGet]
-----------------------------------------------------------------------------
(* The k-th smallest of a list.                                            *)
Kth(values, k) ==
  CHOOSE x \in {values[i] : i \in DOMAIN values} :
    /\ Cardinality({i \in DOMAIN values : values[i] < x}) < k
    /\ Cardinality({i \in DOMAIN values : values[i] <= x}) >= k

(* medianNano and medianOf: the middle, or the mean of the two, down.      *)
MedianNano(values) ==
  LET mid == Len(values) \div 2
  IN IF Len(values) % 2 = 1 THEN Kth(values, mid + 1)
     ELSE (Kth(values, mid) + Kth(values, mid + 1)) \div 2

Clamped_HighOnly(rate, prev) ==
  LET hi == (prev * (Scale + MaxMove)) \div Scale
  IN IF rate > hi THEN hi ELSE rate

(* No further than the move allowed from the rate sealed before.           *)
Clamped(rate, prev) ==
  LET hi == (prev * (Scale + MaxMove)) \div Scale
      lo == (prev * (Scale - MaxMove)) \div Scale
  IN IF rate > hi THEN hi ELSE IF rate < lo THEN lo ELSE rate

Epoch    == Len(seals) - 1
Standing == Last(seals)
-----------------------------------------------------------------------------
(* closeEpoch, as far as the rate: with the values of sources, with a bare *)
(* rate, or with neither, when the rate stands.                            *)
Close(report) ==
  /\ Len(seals) <= MaxCloses
  /\ report.kind = "sources" => Len(report.values) >= Quorum
  /\ seals' = Append(seals,
       Clamped(CASE report.kind = "sources" -> MedianNano(report.values)
                 [] report.kind = "bare"    -> report.values[1]
                 [] OTHER                   -> Standing, Standing))
  /\ UNCHANGED <<market, clock, reading, got>>

Begun == [st |-> "out", prev |-> Standing, epoch |-> Epoch, saw |-> {market}]

(* refreshOracle: one round at a time, whoever asks.                       *)
Refresh ==
  /\ round' = IF round = NoRound THEN Begun ELSE round
  /\ rounds' = IF round = NoRound THEN rounds + 1 ELSE rounds

(* The host applies a close and starts a round it does not wait for.       *)
CloseEpoch(report) ==
  /\ round = NoRound => rounds < MaxRounds
  /\ Close(report) /\ Refresh

(* The market moves at any time, but within the eight seconds of a round   *)
(* no more than once.                                                      *)
Move(m) ==
  /\ round # NoRound => Cardinality(round.saw) = 1
  /\ market' = m
  /\ round' = IF round = NoRound THEN round ELSE [round EXCEPT !.saw = @ \cup {m}]
  /\ UNCHANGED <<clock, seals, rounds, reading, got>>

(* What a round may bring, in ascending order, for the median sorts it:    *)
(* any source may be silent or too late, and one that is right says what   *)
(* the market was at an instant of the round.                              *)
Ascending == {v \in BoundedSeq(Quotes, Sources) : \A i \in 2 .. Len(v) : v[i-1] <= v[i]}

Brought == {v \in Ascending : Cardinality({i \in DOMAIN v : v[i] \notin round.saw}) <= Wrong}

Enough_Two(n) == n >= 2
Enough(n) == n >= Quorum

Read_EpochOfNow(median) ==
  [rate |-> Clamped(median, round.prev), median |-> median, epoch |-> Epoch,
   at |-> clock, saw |-> round.saw]

(* readOracle: the reading and what it is signed with.                     *)
Read(median) ==
  [rate |-> Clamped(median, round.prev), median |-> median, epoch |-> round.epoch,
   at |-> clock, saw |-> round.saw]

Live(r) == [st |-> "live", at |-> r.at, answered |-> clock]

(* The round ends: the reading is published and whoever waited is answered *)
(* with it; or too few sources answered, and what was published stands.    *)
RoundOver(values) ==
  /\ round' = NoRound
  /\ reading' = IF Enough(Len(values)) THEN Read(MedianNano(values)) ELSE reading
  /\ got' = [g \in Getters |->
       IF got[g].st # "wait" THEN got[g]
       ELSE IF Enough(Len(values)) THEN Live(reading') ELSE [st |-> "failed"]]
  /\ UNCHANGED <<market, clock, seals, rounds>>
-----------------------------------------------------------------------------
(* GET /api/v1/oracle.                                                     *)
Stale_Missing == reading = NoReading

Stale == reading = NoReading \/ clock - reading.at > MaxAge

Get(g) ==
  /\ got[g].st # "wait"
  /\ IF Stale
       THEN /\ rounds < MaxRounds /\ Refresh
            /\ got' = [got EXCEPT ![g] = [st |-> "wait"]]
       ELSE /\ got' = [got EXCEPT ![g] = Live(reading)]
            /\ UNCHANGED <<round, rounds>>
  /\ UNCHANGED <<market, clock, seals, reading>>

(* The host restarts: what it read, and the round it was in, are gone.     *)
Restart ==
  /\ round' = NoRound /\ reading' = NoReading
  /\ got' = [g \in Getters |-> NoGet]
  /\ UNCHANGED <<market, clock, seals, rounds>>

Pass ==
  /\ clock < MaxClock /\ clock' = clock + 1
  /\ UNCHANGED <<market, seals, round, rounds, reading, got>>

OracleNext ==
  \/ \E report \in Reports : CloseEpoch(report)
  \/ \E m \in Quotes : Move(m)
  \/ round # NoRound /\ \E values \in Brought : RoundOver(values)
  \/ Restart \/ Pass
  \/ \E g \in Getters : Get(g)

OracleSpec == OracleInit /\ [][OracleNext]_oracleVars
-----------------------------------------------------------------------------
ReadingStands ==
  reading # NoReading =>
    LET sealed == seals[reading.epoch + 1]
    IN /\ \E lo, hi \in reading.saw : lo <= reading.median /\ reading.median <= hi
       /\ reading.rate * Scale <= sealed * (Scale + MaxMove)
       /\ (reading.rate + 1) * Scale > sealed * (Scale - MaxMove)

FreshOrSaysSo ==
  \A g \in Getters : got[g].st = "live" => got[g].answered - got[g].at <= MaxAge

(* A published rate is what an honest market was at some instant of its    *)
(* round, as far as the clamp of the epoch it is signed for allows: a      *)
(* minority of wrong sources does not move the median out of what the      *)
(* right ones saw, however many were silent, and a close in the middle of  *)
(* a round does not mix one epoch's rate with another's number.  A request *)
(* that does not hear otherwise hears a reading of the last minute, though *)
(* it may have joined a round somebody else began.                         *)
PublishedRateStands == ReadingStands /\ FreshOrSaysSo

(* Below this, in billionths of a euro, six roundings outweigh the move.   *)
Dust == 135

(* Whatever the closes report, the rate is not halved in six of them nor   *)
(* doubled in seven.                                                       *)
DriftIsSlow ==
  \A i, j \in DOMAIN seals :
    i < j /\ seals[i] >= Dust =>
      /\ j - i <= 6 => 2 * seals[j] > seals[i]
      /\ j - i <= 7 => seals[j] < 2 * seals[i]
=============================================================================
