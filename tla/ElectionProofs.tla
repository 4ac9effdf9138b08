--------------------------- MODULE ElectionProofs ---------------------------
(***************************************************************************)
(* Theorems about Election, for any number of hosts and disturbances, with *)
(* a status document or without.                                           *)
(***************************************************************************)
EXTENDS Election, SequenceTheorems, TLAPS

-----------------------------------------------------------------------------
(* Beginnings of a log.                                                    *)
LEMMA PrefixByElement ==
  ASSUME NEW S, NEW s \in Seq(S), NEW t \in Seq(S)
  PROVE  IsPrefix(s, t) <=> Len(s) <= Len(t) /\ \A i \in 1 .. Len(s) : s[i] = t[i]
<1>1. CASE Len(s) > Len(t)
  BY <1>1, LenProperties DEF IsPrefix
<1>2. CASE Len(s) <= Len(t)
  <2>1. Len(s) \in Nat /\ Len(t) \in Nat /\ SubSeq(s, 1, Len(s)) = s
    BY LenProperties, SubSeqFull
  <2>2. /\ SubSeq(t, 1, Len(s)) \in Seq(S)
        /\ Len(SubSeq(t, 1, Len(s))) = Len(s)
        /\ \A i \in 1 .. Len(s) : SubSeq(t, 1, Len(s))[i] = t[i]
    <3>1. \A i \in 1 .. Len(s) : t[i] \in S
      BY <1>2, <2>1, ElementOfSeq
    <3>2. /\ SubSeq(t, 1, Len(s)) \in Seq(S)
          /\ Len(SubSeq(t, 1, Len(s))) = IF 1 <= Len(s) THEN Len(s) - 1 + 1 ELSE 0
          /\ \A i \in 1 .. Len(s) - 1 + 1 : SubSeq(t, 1, Len(s))[i] = t[1 + i - 1]
      BY <2>1, <3>1, SubSeqProperties
    <3> QED BY <2>1, <3>2
  <2>3. (\A i \in 1 .. Len(s) : s[i] = t[i]) => SubSeq(t, 1, Len(s)) = s
    BY <2>2, SeqEqual
  <2>4. SubSeq(t, 1, Len(s)) = s => \A i \in 1 .. Len(s) : s[i] = t[i]
    BY <2>2
  <2> QED BY <1>2, <2>1, <2>3, <2>4 DEF IsPrefix
<1> QED BY <1>1, <1>2, LenProperties

LEMMA PrefixOfItself ==
  ASSUME NEW S, NEW s \in Seq(S)
  PROVE  IsPrefix(s, s)
BY PrefixByElement, LenProperties

LEMMA PrefixOfLonger ==
  ASSUME NEW S, NEW s \in Seq(S), NEW t \in Seq(S), NEW e \in S, IsPrefix(s, t)
  PROVE  IsPrefix(s, Append(t, e)) /\ Append(t, e) \in Seq(S)
<1>1. /\ Append(t, e) \in Seq(S) /\ Len(Append(t, e)) = Len(t) + 1
      /\ \A i \in 1 .. Len(t) : Append(t, e)[i] = t[i]
  OBVIOUS
<1>2. Len(s) \in Nat /\ Len(t) \in Nat
  BY LenProperties
<1>3. Len(s) <= Len(t) /\ \A i \in 1 .. Len(s) : s[i] = t[i]
  BY PrefixByElement
<1>4. Len(s) <= Len(Append(t, e)) /\ \A i \in 1 .. Len(s) : s[i] = Append(t, e)[i]
  BY <1>1, <1>2, <1>3
<1> QED BY <1>1, <1>4, PrefixByElement

(* What lies within the first n acts lies within the backup of them.       *)
LEMMA PrefixOfBackup ==
  ASSUME NEW S, NEW s \in Seq(S), NEW t \in Seq(S), NEW n \in 0 .. Len(t),
         IsPrefix(s, t), Len(s) <= n
  PROVE  IsPrefix(s, SubSeq(t, 1, n))
<1>1. Len(s) \in Nat /\ Len(t) \in Nat /\ n \in Nat
  BY LenProperties
<1>2. Len(s) <= Len(t) /\ \A i \in 1 .. Len(s) : s[i] = t[i]
  BY PrefixByElement
<1>3. \A i \in 1 .. n : t[i] \in S
  BY <1>1, ElementOfSeq
<1>4. /\ SubSeq(t, 1, n) \in Seq(S)
      /\ Len(SubSeq(t, 1, n)) = IF 1 <= n THEN n - 1 + 1 ELSE 0
      /\ \A i \in 1 .. n - 1 + 1 : SubSeq(t, 1, n)[i] = t[1 + i - 1]
  BY <1>1, <1>3, SubSeqProperties
<1>5. Len(SubSeq(t, 1, n)) = n /\ \A i \in 1 .. n : SubSeq(t, 1, n)[i] = t[i]
  BY <1>1, <1>4
<1>6. Len(s) <= Len(SubSeq(t, 1, n)) /\ \A i \in 1 .. Len(s) : s[i] = SubSeq(t, 1, n)[i]
  BY <1>1, <1>2, <1>5
<1> QED BY <1>4, <1>6, PrefixByElement

LEMMA BackupTyped ==
  ASSUME NEW S, NEW s \in Seq(S), NEW n \in 0 .. Len(s)
  PROVE  /\ SubSeq(s, 1, n) \in Seq(S) /\ Len(SubSeq(s, 1, n)) = n
         /\ \A i \in 1 .. n : SubSeq(s, 1, n)[i] = s[i]
<1>1. Len(s) \in Nat /\ n \in Nat
  BY LenProperties
<1>2. \A i \in 1 .. n : s[i] \in S
  BY <1>1, ElementOfSeq
<1>3. /\ SubSeq(s, 1, n) \in Seq(S)
      /\ Len(SubSeq(s, 1, n)) = IF 1 <= n THEN n - 1 + 1 ELSE 0
      /\ \A i \in 1 .. n - 1 + 1 : SubSeq(s, 1, n)[i] = s[1 + i - 1]
  BY <1>1, <1>2, SubSeqProperties
<1> QED BY <1>1, <1>3
-----------------------------------------------------------------------------
(* The order the rounds decide by.                                         *)
IsRow(p) == p.origin \in Hosts /\ p.height \in Nat /\ p.acts \in Nat

LEMMA PrecedesTotal ==
  ASSUME NEW p, NEW q, IsRow(p), IsRow(q), p.origin # q.origin
  PROVE  Precedes(p, q) \/ Precedes(q, p)
<1>1. /\ Order[p.origin] \in Nat /\ Order[q.origin] \in Nat
      /\ Order[p.origin] # Order[q.origin]
  BY ElectionAssumption DEF IsRow
<1> QED BY <1>1 DEF IsRow, Precedes, StrictlyLonger

LEMMA PrecedesTransitive ==
  ASSUME NEW p, NEW q, NEW r, IsRow(p), IsRow(q), IsRow(r), Precedes(p, q), Precedes(q, r)
  PROVE  Precedes(p, r)
<1>1. {Order[p.origin], Order[q.origin], Order[r.origin]} \subseteq Nat
  BY ElectionAssumption DEF IsRow
<1> QED BY <1>1 DEF IsRow, Precedes, StrictlyLonger

(* Every choice among these has a first.  The existence of a first is an   *)
(* induction over their number; here it is one over the round, which hears *)
(* of one host at a time.                                                  *)
Ranked(S) ==
  \A T \in SUBSET S : T # {} => \E p \in T : \A q \in T \ {p} : Precedes(p, q)

LEMMA RankedGrows ==
  ASSUME NEW S, NEW row, Ranked(S), IsRow(row),
         \A p \in S : IsRow(p) /\ p.origin # row.origin
  PROVE  Ranked(S \cup {row})
<1> SUFFICES ASSUME NEW T \in SUBSET (S \cup {row}), T # {}
             PROVE  \E p \in T : \A q \in T \ {p} : Precedes(p, q)
  BY DEF Ranked
<1>1. CASE row \notin T
  BY <1>1 DEF Ranked
<1>2. CASE row \in T
  <2> DEFINE U == T \ {row}
  <2>1. CASE U = {}
    BY <1>2, <2>1
  <2>2. CASE U # {}
    <3>1. U \in SUBSET S
      OBVIOUS
    <3>2. PICK f \in U : \A q \in U \ {f} : Precedes(f, q)
      BY <2>2, <3>1 DEF Ranked
    <3>3. IsRow(f) /\ f.origin # row.origin /\ \A q \in U : IsRow(q)
      BY <3>1
    <3>4. CASE Precedes(f, row)
      BY <3>2, <3>4
    <3>5. CASE Precedes(row, f)
      <4>1. \A q \in U : Precedes(row, q)
        BY <3>2, <3>3, <3>5, PrecedesTransitive
      <4> QED BY <1>2, <4>1
    <3> QED BY <3>3, <3>4, <3>5, PrecedesTotal
  <2> QED BY <2>1, <2>2
<1> QED BY <1>1, <1>2

-----------------------------------------------------------------------------
(* What a round may decide.                                                *)
Fits(h, d) ==
  /\ d.role \in Roles /\ d.follow \in Hosts \cup {NoHost}
  /\ d.follow # NoHost <=> d.role = "mirror"
  /\ d.follow # h

LEMMA FollowerFits ==
  ASSUME NEW h \in Hosts, NEW p, p.origin \in Hosts \ {h}, NEW code
  PROVE  Fits(h, Decision("mirror", p.origin, code))
BY ElectionAssumption DEF Fits, Decision, Roles

LEMMA WriterFits ==
  ASSUME NEW h \in Hosts, NEW code, NEW r \in {"writer", "waiting"}
  PROVE  Fits(h, Decision(r, NoHost, code)) /\ Decision(r, NoHost, code).role = r
BY ElectionAssumption DEF Fits, Decision, Roles

LEMMA SeatedFits ==
  ASSUME NEW h \in Hosts, NEW me, NEW candidates,
         \A p \in candidates : p.origin \in Hosts \ {h},
         NEW d \in Seated(me, candidates)
  PROVE  Fits(h, d)
<1> DEFINE longer == {p \in candidates : StrictlyLonger(p, me)}
<1>1. CASE longer # {}
  <2>1. PICK p \in longer : d = Decision("mirror", p.origin, "YIELD_TO_LONGER")
    BY <1>1 DEF Seated, Foremost
  <2> QED BY <2>1, FollowerFits
<1>2. CASE longer = {}
  <2>1. \E code : d = Decision("writer", NoHost, code)
    BY <1>2 DEF Seated
  <2> QED BY <2>1, WriterFits
<1> QED BY <1>1, <1>2

LEMMA BootingFits ==
  ASSUME NEW h \in Hosts, NEW me, NEW candidates,
         \A p \in candidates : p.origin \in Hosts \ {h},
         Ranked(candidates \cup {me}), NEW d \in Booting(me, candidates)
  PROVE  Fits(h, d)
<1> DEFINE seated == Yields(me, candidates)
           first == First(candidates \cup {me})
<1>1. CASE seated # {}
  <2>1. PICK p \in seated : d = Decision("mirror", p.origin, "YIELD_TO_SEATED_WRITER")
    BY <1>1 DEF Booting, Foremost
  <2>2. p \in candidates
    BY <2>1 DEF Yields
  <2> QED BY <2>1, <2>2, FollowerFits
<1>2. CASE seated = {}
  <2>1. first \in candidates \cup {me}
    <3>1. \E p \in candidates \cup {me} : \A q \in (candidates \cup {me}) \ {p} : Precedes(p, q)
      BY ZenonT(60) DEF Ranked
    <3> QED BY <3>1 DEF First
  <2>2. d = IF first = me THEN Decision("writer", NoHost, "QUARANTINE_LIFTED")
                          ELSE Decision("mirror", first.origin, "YIELD_BY_ORDER")
    BY <1>2 DEF Booting
  <2> HIDE DEF first
  <2> QED BY <2>1, <2>2, WriterFits, FollowerFits
<1> QED BY <1>1, <1>2

(* Rule 1 at the decision: who heard nobody gets the pen only from the     *)
(* operator, or keeps the one it had when the round began.                 *)
LEMMA DecisionFits ==
  ASSUME NEW h \in Hosts, NEW me, NEW heard,
         \A p \in heard : p.origin \in Hosts \ {h},
         me.origin = h, Ranked(heard \cup {me}), NEW d \in Decide(me, heard)
  PROVE  /\ Fits(h, d)
         /\ d.role = "writer" => heard # {} \/ me.promoted \/ ~me.quarantined
<1>1. CASE heard = {}
  <2>1. d = Alone(me)
    BY <1>1 DEF Decide
  <2>2. \/ d = Decision("writer", NoHost, "PROMOTED_BY_OPERATOR") /\ me.promoted
        \/ d = Decision("waiting", NoHost, "NO_PEER_HEARD")
        \/ d = Decision("writer", NoHost, "PARTITIONED_INCUMBENT") /\ ~me.quarantined
    BY <2>1 DEF Alone
  <2> QED BY <2>2, WriterFits
<1>2. CASE heard # {}
  <2> DEFINE candidates == Candidates(me, heard)
  <2>1. /\ \A p \in candidates : p.origin \in Hosts \ {h}
        /\ Ranked(candidates \cup {me})
    BY DEF Candidates, Ranked
  <2>2. d = Frozen \/ d \in Booting(me, candidates) \/ d \in Seated(me, candidates)
    BY <1>2 DEF Decide
  <2> HIDE DEF candidates
  <2>3. Fits(h, Frozen)
    BY WriterFits DEF Frozen
  <2> QED BY <1>2, <2>1, <2>2, <2>3, BootingFits, SeatedFits
<1> QED BY <1>1, <1>2
-----------------------------------------------------------------------------
(* The record of each host: its blocks seal beginnings of its log.         *)
BlockType == [by : Hosts, acts : Seq(Hosts)]

RecordInv ==
  /\ log \in [Hosts -> Seq(Hosts)]
  /\ chain \in [Hosts -> Seq(BlockType)]
  /\ \A h \in Hosts : \A i \in 1 .. Len(chain[h]) : IsPrefix(chain[h][i].acts, log[h])

(* Roles.  What is in quarantine is what is not seated.                    *)
RoleInv ==
  /\ role \in [Hosts -> Roles] /\ follow \in [Hosts -> Hosts \cup {NoHost}]
  /\ \A h \in Hosts : follow[h] # NoHost <=> role[h] = "mirror"
  /\ \A h \in Hosts : follow[h] # h

PenInv ==
  /\ quarantined \in [Hosts -> BOOLEAN] /\ mandate \in [Hosts -> BOOLEAN]
  /\ \A h \in Hosts : ~quarantined[h] => role[h] = "writer"
  /\ \A h \in Hosts : role[h] = "writer" => mandate[h]

(* A round under way: whom it may still hear, and whom it has heard.  A    *)
(* host that was seated when it began has had its mandate.                 *)
Shape(r, h) ==
  /\ DOMAIN r = {"st", "left", "heard", "peer", "blocks", "me"}
  /\ r.st \in {"asking", "status"}
  /\ r.left \subseteq Hosts \ {h}
  /\ r.st = "status" => r.peer \in r.left
  /\ r.blocks \in Seq(BlockType)
  /\ r.me.origin = h /\ IsRow(r.me)
  /\ \A p \in r.heard : IsRow(p) /\ p.origin # h /\ p.origin \notin r.left
  /\ Ranked(r.heard \cup {r.me})

RoundInv ==
  /\ DOMAIN round = Hosts
  /\ \A h \in Hosts : round[h].st # "idle" => Shape(round[h], h)

MandateInv ==
  \A h \in Hosts : round[h].st # "idle" /\ ~round[h].me.quarantined => mandate[h]

-----------------------------------------------------------------------------
LEMMA RecordKept ==
  ASSUME RecordInv, NEW h \in Hosts, Seal(h) \/ Write(h) \/ Restart(h)
  PROVE  RecordInv'
<1>1. log[h] \in Seq(Hosts) /\ chain[h] \in Seq(BlockType)
  BY DEF RecordInv
<1>2. ASSUME NEW i \in 1 .. Len(chain[h]) PROVE chain[h][i].acts \in Seq(Hosts)
  <2>1. chain[h][i] \in BlockType
    BY <1>1, ElementOfSeq
  <2> QED BY <2>1 DEF BlockType
<1>3. CASE Write(h)
  <2>1. log' = [log EXCEPT ![h] = Append(log[h], h)] /\ chain' = chain
    BY <1>3 DEF Write
  <2>2. Append(log[h], h) \in Seq(Hosts)
    BY <1>1
  <2>3. \A i \in 1 .. Len(chain[h]) : IsPrefix(chain[h][i].acts, Append(log[h], h))
    BY <1>1, <1>2, PrefixOfLonger DEF RecordInv
  <2> QED BY <2>1, <2>2, <2>3 DEF RecordInv
<1>4. CASE Seal(h)
  <2> DEFINE b == Block(h, log[h])
  <2>1. chain' = [chain EXCEPT ![h] = Append(chain[h], b)] /\ log' = log
    BY <1>4 DEF Seal
  <2>2. b \in BlockType /\ b.acts = log[h]
    BY <1>1 DEF Block, BlockType
  <2> HIDE DEF b
  <2>3. /\ Append(chain[h], b) \in Seq(BlockType) /\ Len(Append(chain[h], b)) = Len(chain[h]) + 1
        /\ \A i \in 1 .. Len(chain[h]) : Append(chain[h], b)[i] = chain[h][i]
        /\ Append(chain[h], b)[Len(chain[h]) + 1] = b
    BY <1>1, <2>2
  <2>4. \A i \in 1 .. Len(Append(chain[h], b)) : IsPrefix(Append(chain[h], b)[i].acts, log[h])
    BY <1>1, <2>2, <2>3, PrefixOfItself, LenProperties DEF RecordInv
  <2> DEFINE c == Append(chain[h], b)
  <2>5. c \in Seq(BlockType) /\ \A i \in 1 .. Len(c) : IsPrefix(c[i].acts, log[h])
    BY <2>3, <2>4
  <2>6. chain' = [chain EXCEPT ![h] = c] /\ log' = log
    BY <2>1
  <2> HIDE DEF c
  <2> QED BY <2>5, <2>6 DEF RecordInv
<1>5. CASE Restart(h)
  <2>1. PICK n \in 0 .. Len(log[h]), m \in 0 .. Len(chain[h]) :
          /\ \A i \in 1 .. m : Len(chain[h][i].acts) <= n
          /\ log' = [log EXCEPT ![h] = SubSeq(log[h], 1, n)]
          /\ chain' = [chain EXCEPT ![h] = SubSeq(chain[h], 1, m)]
    BY <1>5 DEF Restart
  <2> DEFINE l == SubSeq(log[h], 1, n)
             c == SubSeq(chain[h], 1, m)
  <2>2. l \in Seq(Hosts)
    BY <1>1, BackupTyped
  <2>3. c \in Seq(BlockType) /\ Len(c) = m /\ \A i \in 1 .. m : c[i] = chain[h][i]
    BY <1>1, BackupTyped
  <2>4. ASSUME NEW i \in 1 .. m PROVE IsPrefix(chain[h][i].acts, l)
    <3>1. i \in 1 .. Len(chain[h])
      BY <1>1, LenProperties
    <3>2. chain[h][i].acts \in Seq(Hosts) /\ IsPrefix(chain[h][i].acts, log[h])
      BY <1>2, <3>1 DEF RecordInv
    <3>3. Len(chain[h][i].acts) <= n
      BY <2>1
    <3> QED BY <1>1, <3>2, <3>3, PrefixOfBackup
  <2>5. \A i \in 1 .. Len(c) : IsPrefix(c[i].acts, l)
    BY <2>3, <2>4
  <2>6. log' = [log EXCEPT ![h] = l] /\ chain' = [chain EXCEPT ![h] = c]
    BY <2>1
  <2> HIDE DEF l, c
  <2> QED BY <2>2, <2>3, <2>5, <2>6 DEF RecordInv
<1> QED BY <1>3, <1>4, <1>5

(* A mirror takes over log and blocks together.                            *)
LEMMA CopyKeepsRecord ==
  ASSUME RecordInv, RoleInv, NEW h \in Hosts, Copy(h)
  PROVE  RecordInv'
<1>1. PICK p : /\ p = follow[h]
               /\ log' = [log EXCEPT ![h] = log[p]]
               /\ chain' = [chain EXCEPT ![h] = chain[p]]
  BY DEF Copy
<1>2. p \in Hosts
  BY <1>1 DEF RoleInv, Copy
<1> QED BY <1>1, <1>2 DEF RecordInv

LEMMA RecordFrame ==
  ASSUME NEW h \in Hosts, Ask(h) \/ Loses(h) \/ Promote(h)
  PROVE  UNCHANGED recordVars
BY DEF Ask, Probe, FetchChain, ChainRefused, FetchStatus, Settle, Loses, Promote, recordVars
-----------------------------------------------------------------------------
(* A round that is asking goes on, or has heard one more.                  *)
LEMMA RowOfPeer ==
  ASSUME NEW h \in Hosts, Shape(round[h], h), round[h].st = "status", NEW claim,
         claim.acts \in Nat
  PROVE  LET row == Row(round[h].peer, round[h].blocks, claim)
         IN  /\ IsRow(row) /\ row.origin = round[h].peer /\ row.origin # h
             /\ Ranked(round[h].heard \cup {row} \cup {round[h].me})
<1> DEFINE r   == round[h]
           row == Row(r.peer, r.blocks, claim)
<1>1. row.origin = r.peer /\ row.acts = claim.acts /\ row.height = Len(r.blocks)
  BY DEF Row
<1>2. r.peer \in r.left /\ r.peer \in Hosts \ {h}
  BY DEF Shape
<1>3. Len(r.blocks) \in Nat
  BY LenProperties DEF Shape
<1>4. IsRow(row) /\ row.origin # h
  BY <1>1, <1>2, <1>3 DEF IsRow
<1> DEFINE S == r.heard \cup {r.me}
<1>5. Ranked(S) /\ \A p \in S : IsRow(p) /\ p.origin # row.origin
  BY <1>1, <1>2 DEF Shape
<1>6. Ranked(S \cup {row})
  <2> HIDE DEF S, row
  <2> QED BY <1>4, <1>5, RankedGrows
<1>7. r.heard \cup {row} \cup {r.me} = S \cup {row}
  OBVIOUS
<1> HIDE DEF row
<1> QED BY <1>1, <1>4, <1>6, <1>7 DEF row

LEMMA HeardKeepsShape ==
  ASSUME RoundInv, NEW h \in Hosts, round[h].st = "status", NEW claim, claim.acts \in Nat,
         Heard(h, claim)
  PROVE  /\ DOMAIN round' = Hosts
         /\ \A g \in Hosts \ {h} : round'[g] = round[g]
         /\ Shape(round'[h], h) /\ round'[h].me = round[h].me
<1> DEFINE r   == round[h]
           row == Row(r.peer, r.blocks, claim)
           new == [r EXCEPT !.st = "asking", !.left = @ \ {r.peer}, !.peer = NoHost,
                            !.blocks = <<>>,
                            !.heard = IF Audited(r.blocks, claim) THEN @ \cup {row} ELSE @]
<1>1. Shape(r, h)
  BY DEF RoundInv
<1>2. round' = [round EXCEPT ![h] = new]
  BY DEF Heard
<1>3. /\ DOMAIN round' = Hosts /\ round'[h] = new
      /\ \A g \in Hosts \ {h} : round'[g] = round[g]
  <2> HIDE DEF new
  <2> QED BY <1>2 DEF RoundInv
<1>4. /\ DOMAIN new = DOMAIN r
      /\ new.st = "asking" /\ new.left = r.left \ {r.peer}
      /\ new.blocks = <<>> /\ new.me = r.me
      /\ new.heard \in {r.heard, r.heard \cup {row}}
  BY <1>1 DEF Shape
<1>5. IsRow(row) /\ row.origin = r.peer /\ row.origin # h /\ Ranked(r.heard \cup {row} \cup {r.me})
  BY <1>1, RowOfPeer
<1>6. <<>> \in Seq(BlockType)
  BY EmptySeq
<1> HIDE DEF new, row
<1>7. \A p \in new.heard : IsRow(p) /\ p.origin # h /\ p.origin \notin new.left
  BY <1>1, <1>4, <1>5 DEF Shape
<1>8. Ranked(new.heard \cup {new.me})
  BY <1>1, <1>4, <1>5 DEF Shape
<1>9. Shape(new, h)
  BY <1>1, <1>4, <1>6, <1>7, <1>8 DEF Shape
<1> QED BY <1>3, <1>4, <1>9

LEMMA DropKeepsShape ==
  ASSUME RoundInv, NEW h \in Hosts, round[h].st = "asking", NEW p, Drop(h, p)
  PROVE  /\ DOMAIN round' = Hosts
         /\ \A g \in Hosts \ {h} : round'[g] = round[g]
         /\ Shape(round'[h], h) /\ round'[h].me = round[h].me
<1> DEFINE r   == round[h]
           new == [r EXCEPT !.st = "asking", !.left = @ \ {p}]
<1>1. Shape(r, h)
  BY DEF RoundInv
<1>2. round' = [round EXCEPT ![h] = new]
  BY DEF Drop
<1>3. /\ DOMAIN round' = Hosts /\ round'[h] = new
      /\ \A g \in Hosts \ {h} : round'[g] = round[g]
  <2> HIDE DEF new
  <2> QED BY <1>2 DEF RoundInv
<1>4. /\ DOMAIN new = DOMAIN r
      /\ new.st = "asking" /\ new.left = r.left \ {p}
      /\ new.blocks = r.blocks /\ new.me = r.me /\ new.heard = r.heard
  BY <1>1 DEF Shape
<1> HIDE DEF new
<1>5. Shape(new, h)
  BY <1>1, <1>4 DEF Shape
<1> QED BY <1>3, <1>4, <1>5

LEMMA FetchKeepsShape ==
  ASSUME RoundInv, RecordInv, NEW h \in Hosts, NEW p \in Hosts, FetchChain(h, p)
  PROVE  /\ DOMAIN round' = Hosts
         /\ \A g \in Hosts \ {h} : round'[g] = round[g]
         /\ Shape(round'[h], h) /\ round'[h].me = round[h].me
<1> DEFINE r   == round[h]
           c   == chain[p]
           new == [r EXCEPT !.st = "status", !.peer = p, !.blocks = c]
<1>1. Shape(r, h) /\ p \in r.left
  BY DEF RoundInv, FetchChain
<1>2. round' = [round EXCEPT ![h] = new]
  BY DEF FetchChain
<1>3. c \in Seq(BlockType)
  BY DEF RecordInv
<1> HIDE DEF c
<1>4. /\ DOMAIN round' = Hosts /\ round'[h] = new
      /\ \A g \in Hosts \ {h} : round'[g] = round[g]
  <2> HIDE DEF new
  <2> QED BY <1>2 DEF RoundInv
<1>5. /\ DOMAIN new = DOMAIN r
      /\ new.st = "status" /\ new.left = r.left /\ new.peer = p
      /\ new.blocks = c /\ new.me = r.me /\ new.heard = r.heard
  BY <1>1 DEF Shape
<1> HIDE DEF new
<1>6. Shape(new, h)
  BY <1>1, <1>3, <1>5 DEF Shape
<1> QED BY <1>4, <1>5, <1>6
-----------------------------------------------------------------------------
HostInv == RecordInv /\ RoleInv /\ PenInv /\ RoundInv /\ MandateInv

(* A round that only goes on changes nobody's role.                        *)
LEMMA RoundGoesOn ==
  ASSUME HostInv, NEW h \in Hosts, UNCHANGED <<recordVars, roleVars>>,
         round[h].st # "idle",
         DOMAIN round' = Hosts, \A g \in Hosts \ {h} : round'[g] = round[g],
         Shape(round'[h], h), round'[h].me = round[h].me
  PROVE  HostInv'
<1>1. RecordInv' /\ RoleInv'
  BY DEF HostInv, RecordInv, RoleInv, recordVars, roleVars
<1>2. PenInv'
  BY DEF HostInv, PenInv, roleVars
<1>3. RoundInv'
  BY DEF HostInv, RoundInv
<1>4. ASSUME NEW g \in Hosts, round'[g].st # "idle", ~round'[g].me.quarantined
      PROVE  mandate'[g]
  <2>1. mandate' = mandate
    BY DEF roleVars
  <2>2. CASE g = h
    BY <1>4, <2>1, <2>2 DEF HostInv, MandateInv
  <2>3. CASE g # h
    BY <1>4, <2>1, <2>3 DEF HostInv, MandateInv
  <2> QED BY <2>2, <2>3
<1> QED BY <1>1, <1>2, <1>3, <1>4 DEF HostInv, MandateInv

LEMMA StatusNat ==
  ASSUME RecordInv, NEW p \in Hosts
  PROVE  Status(p).acts \in Nat /\ NoStatus.acts \in Nat /\ Len(chain[p]) \in Nat
<1>1. log[p] \in Seq(Hosts) /\ chain[p] \in Seq(BlockType)
  BY DEF RecordInv
<1> QED BY <1>1, LenProperties DEF Status, NoStatus

LEMMA AskingKeeps ==
  ASSUME HostInv, NEW h \in Hosts,
         \/ \E p \in Hosts : FetchChain(h, p) \/ ChainRefused(h, p)
         \/ FetchStatus(h) \/ Loses(h)
  PROVE  HostInv'
<1>1. RecordInv /\ RoundInv
  BY DEF HostInv
<1>2. ASSUME NEW p \in Hosts, FetchChain(h, p) PROVE HostInv'
  <2>1. round[h].st # "idle" /\ UNCHANGED <<recordVars, roleVars>>
    BY <1>2 DEF FetchChain
  <2> QED BY <1>1, <1>2, <2>1, FetchKeepsShape, RoundGoesOn
<1>3. ASSUME NEW p, round[h].st = "asking", Drop(h, p), UNCHANGED <<recordVars, roleVars>>
      PROVE  HostInv'
  BY <1>1, <1>3, DropKeepsShape, RoundGoesOn
<1>4. ASSUME NEW claim, claim.acts \in Nat, round[h].st = "status", Heard(h, claim),
             UNCHANGED <<recordVars, roleVars>>
      PROVE  HostInv'
  BY <1>1, <1>4, HeardKeepsShape, RoundGoesOn
<1>5. ASSUME NEW p \in Hosts, ChainRefused(h, p) PROVE HostInv'
  BY <1>3, <1>5 DEF ChainRefused
<1>6. CASE FetchStatus(h)
  <2> DEFINE claim == IF StatusServed THEN Status(round[h].peer) ELSE NoStatus
  <2>1. round[h].peer \in Hosts
    BY <1>1, <1>6 DEF RoundInv, Shape, FetchStatus
  <2>2. claim.acts \in Nat
    BY <1>1, <2>1, StatusNat
  <2>3. round[h].st = "status" /\ Heard(h, claim) /\ UNCHANGED <<recordVars, roleVars>>
    BY <1>6 DEF FetchStatus
  <2> HIDE DEF claim
  <2> QED BY <1>4, <2>2, <2>3
<1>7. CASE Loses(h)
  <2>1. UNCHANGED <<recordVars, roleVars>>
    BY <1>7 DEF Loses
  <2>2. CASE round[h].st = "asking" /\ \E p \in round[h].left : Drop(h, p)
    BY <1>3, <2>1, <2>2
  <2>3. CASE round[h].st = "status" /\ Heard(h, NoStatus)
    <3>1. NoStatus.acts \in Nat
      BY DEF NoStatus
    <3> QED BY <1>4, <2>1, <2>3, <3>1
  <2> QED BY <1>7, <2>2, <2>3 DEF Loses
<1> QED BY <1>2, <1>5, <1>6, <1>7

(* A round begins with nobody heard and everybody to ask.                  *)
LEMMA ProbeKeeps ==
  ASSUME HostInv, NEW h \in Hosts, Probe(h)
  PROVE  HostInv'
<1> DEFINE me  == [origin |-> h, height |-> Len(chain[h]), acts |-> Len(log[h]),
                   chain |-> chain[h], quarantined |-> quarantined[h],
                   promoted |-> promoted[h]]
           new == [st |-> "asking", left |-> Hosts \ {h}, heard |-> {}, peer |-> NoHost,
                   blocks |-> <<>>, me |-> me]
<1>1. round' = [round EXCEPT ![h] = new] /\ UNCHANGED <<recordVars, roleVars>>
  BY DEF Probe
<1>2. me.origin = h /\ IsRow(me)
  <2>1. log[h] \in Seq(Hosts) /\ chain[h] \in Seq(BlockType)
    BY DEF HostInv, RecordInv
  <2>2. Len(log[h]) \in Nat /\ Len(chain[h]) \in Nat
    BY <2>1, LenProperties
  <2> QED BY <2>2 DEF IsRow
<1>3. me.quarantined = quarantined[h]
  OBVIOUS
<1> HIDE DEF me
<1>4. Ranked({} \cup {me})
  BY DEF Ranked
<1>5. Shape(new, h) /\ new.me = me
  BY <1>2, <1>4, EmptySeq DEF Shape
<1> HIDE DEF new
<1>6. /\ DOMAIN round' = Hosts /\ round'[h] = new
      /\ \A g \in Hosts \ {h} : round'[g] = round[g]
  BY <1>1 DEF HostInv, RoundInv
<1>7. RecordInv' /\ RoleInv'
  BY <1>1 DEF HostInv, RecordInv, RoleInv, recordVars, roleVars
<1>8. PenInv'
  BY <1>1 DEF HostInv, PenInv, roleVars
<1>9. RoundInv'
  BY <1>5, <1>6 DEF HostInv, RoundInv
<1>10. ASSUME NEW g \in Hosts, round'[g].st # "idle", ~round'[g].me.quarantined
       PROVE  mandate'[g]
  <2>1. mandate' = mandate
    BY <1>1 DEF roleVars
  <2>2. CASE g = h
    <3>1. ~quarantined[h]
      BY <1>3, <1>5, <1>6, <1>10, <2>2
    <3> QED BY <2>1, <2>2, <3>1 DEF HostInv, PenInv
  <2>3. CASE g # h
    BY <1>6, <1>10, <2>1, <2>3 DEF HostInv, MandateInv
  <2> QED BY <2>2, <2>3
<1> QED BY <1>7, <1>8, <1>9, <1>10 DEF HostInv, MandateInv

(* The decision is adopted.                                                *)
LEMMA SettleKeeps ==
  ASSUME HostInv, NEW h \in Hosts, Settle(h)
  PROVE  HostInv'
<1> DEFINE me    == round[h].me
           heard == round[h].heard
<1>1. Shape(round[h], h)
  BY DEF HostInv, RoundInv, Settle
<1>2. PICK d \in Decide(me, heard) : Adopt(h, d)
  BY DEF Settle
<1>3. /\ me.origin = h /\ Ranked(heard \cup {me})
      /\ \A p \in heard : p.origin \in Hosts \ {h}
  BY <1>1 DEF Shape, IsRow
<1>4. /\ Fits(h, d)
      /\ d.role = "writer" => heard # {} \/ me.promoted \/ ~me.quarantined
  <2> HIDE DEF me, heard
  <2> QED BY <1>2, <1>3, DecisionFits
<1>5. RecordInv'
  BY DEF HostInv, RecordInv, Settle, recordVars
<1>6. RoleInv'
  BY <1>2, <1>4 DEF HostInv, RoleInv, Adopt, Fits
<1>7. RoundInv'
  <2>1. round' = [round EXCEPT ![h] = Idle]
    BY <1>2 DEF Adopt
  <2> QED BY <2>1 DEF HostInv, RoundInv, Idle
<1>8. \A g \in Hosts \ {h} : /\ role'[g] = role[g] /\ quarantined'[g] = quarantined[g]
                            /\ mandate'[g] = mandate[g] /\ round'[g] = round[g]
  BY <1>2 DEF HostInv, RoleInv, PenInv, RoundInv, Adopt
<1>9. /\ role'[h] = d.role
      /\ quarantined'[h] = (d.role # "writer")
      /\ mandate'[h] = (mandate[h] \/ Mandated(me, heard))
  BY <1>2 DEF HostInv, RoleInv, PenInv, Adopt
<1>10. /\ quarantined' \in [Hosts -> BOOLEAN]
       /\ mandate' \in [Hosts -> BOOLEAN]
  BY <1>2 DEF HostInv, PenInv, Adopt
<1>11. d.role = "writer" => mandate'[h]
  <2> SUFFICES ASSUME d.role = "writer" PROVE mandate'[h]
    OBVIOUS
  <2>1. CASE heard # {} \/ me.promoted
    BY <1>9, <2>1 DEF Mandated
  <2>2. CASE ~me.quarantined
    <3>1. mandate[h]
      BY <2>2 DEF HostInv, MandateInv, Settle
    <3> QED BY <1>9, <3>1
  <2> QED BY <1>4, <2>1, <2>2
<1>12. PenInv'
  <2>1. ASSUME NEW g \in Hosts, ~quarantined'[g] PROVE role'[g] = "writer"
    BY <1>8, <1>9, <2>1 DEF HostInv, PenInv
  <2>2. ASSUME NEW g \in Hosts, role'[g] = "writer" PROVE mandate'[g]
    BY <1>8, <1>9, <1>11, <2>2 DEF HostInv, PenInv
  <2> QED BY <1>10, <2>1, <2>2 DEF PenInv
<1>13. MandateInv'
  <2>1. round'[h].st = "idle"
    BY <1>2 DEF Adopt, HostInv, RoundInv, Idle
  <2>2. ASSUME NEW g \in Hosts, round'[g].st # "idle", ~round'[g].me.quarantined
        PROVE  mandate'[g]
    BY <1>8, <2>1, <2>2 DEF HostInv, MandateInv
  <2> QED BY <2>2 DEF MandateInv
<1> QED BY <1>5, <1>6, <1>7, <1>12, <1>13 DEF HostInv

(* A restart takes pen, mandate and round together.                        *)
LEMMA RestartKeeps ==
  ASSUME HostInv, NEW h \in Hosts, Restart(h)
  PROVE  HostInv'
<1>1. RecordInv'
  BY RecordKept DEF HostInv
<1>2. /\ role' = [role EXCEPT ![h] = "waiting"]
      /\ follow' = [follow EXCEPT ![h] = NoHost]
      /\ quarantined' = [quarantined EXCEPT ![h] = TRUE]
      /\ mandate' = [mandate EXCEPT ![h] = FALSE]
      /\ round' = [round EXCEPT ![h] = Idle]
  BY DEF Restart
<1>3. RoleInv'
  BY <1>2, ElectionAssumption DEF HostInv, RoleInv, Roles
<1>4. /\ \A g \in Hosts \ {h} : /\ role'[g] = role[g] /\ quarantined'[g] = quarantined[g]
                               /\ mandate'[g] = mandate[g] /\ round'[g] = round[g]
      /\ role'[h] = "waiting" /\ quarantined'[h] /\ round'[h] = Idle
  BY <1>2 DEF HostInv, RoleInv, PenInv, RoundInv
<1>5. PenInv'
  <2>1. quarantined' \in [Hosts -> BOOLEAN] /\ mandate' \in [Hosts -> BOOLEAN]
    BY <1>2 DEF HostInv, PenInv
  <2>2. ASSUME NEW g \in Hosts, ~quarantined'[g] PROVE role'[g] = "writer"
    BY <1>4, <2>2 DEF HostInv, PenInv
  <2>3. ASSUME NEW g \in Hosts, role'[g] = "writer" PROVE mandate'[g]
    BY <1>4, <2>3 DEF HostInv, PenInv
  <2> QED BY <2>1, <2>2, <2>3 DEF PenInv
<1>6. RoundInv'
  BY <1>2 DEF HostInv, RoundInv, Idle
<1>7. MandateInv'
  <2>1. ASSUME NEW g \in Hosts, round'[g].st # "idle", ~round'[g].me.quarantined
        PROVE  mandate'[g]
    BY <1>4, <2>1 DEF HostInv, MandateInv, Idle
  <2> QED BY <2>1 DEF MandateInv
<1> QED BY <1>1, <1>3, <1>5, <1>6, <1>7 DEF HostInv

LEMMA HostInvInit == Init => HostInv
<1> SUFFICES ASSUME Init PROVE HostInv
  OBVIOUS
<1>1. PICK founder \in Hosts, n \in [Hosts -> 1 .. 2] :
        /\ log = [h \in Hosts |-> [i \in 1 .. n[h] |-> founder]]
        /\ chain = [h \in Hosts |-> <<Block(founder, <<founder>>)>>]
  BY DEF Init
<1>2. ASSUME NEW h \in Hosts
      PROVE  /\ log[h] \in Seq(Hosts) /\ chain[h] \in Seq(BlockType)
             /\ \A i \in 1 .. Len(chain[h]) : IsPrefix(chain[h][i].acts, log[h])
  <2>1. log[h] = [i \in 1 .. n[h] |-> founder] /\ n[h] \in 1 .. 2
    BY <1>1
  <2>2. log[h] \in Seq(Hosts) /\ Len(log[h]) = n[h] /\ log[h][1] = founder
    BY <2>1
  <2>3. <<founder>> \in Seq(Hosts) /\ Len(<<founder>>) = 1 /\ <<founder>>[1] = founder
    OBVIOUS
  <2>4. IsPrefix(<<founder>>, log[h])
    <3>1. 1 <= Len(log[h])
      BY <2>1, <2>2
    <3>2. \A i \in 1 .. Len(<<founder>>) : <<founder>>[i] = log[h][i]
      BY <2>2, <2>3
    <3> DEFINE s == <<founder>>
               t == log[h]
    <3>3. s \in Seq(Hosts) /\ t \in Seq(Hosts) /\ Len(s) <= Len(t)
          /\ \A i \in 1 .. Len(s) : s[i] = t[i]
      BY <2>2, <2>3, <3>1, <3>2
    <3> HIDE DEF s, t
    <3>4. IsPrefix(s, t)
      BY <3>3, PrefixByElement
    <3> QED BY <3>4 DEF s, t
  <2> DEFINE b == Block(founder, <<founder>>)
  <2>5. b \in BlockType /\ b.acts = <<founder>>
    BY <2>3 DEF Block, BlockType
  <2>6. chain[h] = <<b>>
    BY <1>1
  <2> HIDE DEF b
  <2> QED BY <2>2, <2>4, <2>5, <2>6
<1>3. RecordInv
  BY <1>1, <1>2 DEF RecordInv
<1>4. RoleInv
  BY ElectionAssumption DEF Init, RoleInv, Roles
<1>5. PenInv
  BY DEF Init, PenInv
<1>6. \A h \in Hosts : round[h] = Idle
  BY DEF Init
<1>7. DOMAIN round = Hosts
  BY DEF Init
<1> QED BY <1>3, <1>4, <1>5, <1>6, <1>7 DEF HostInv, RoundInv, MandateInv, Idle

LEMMA HostInvNext == HostInv /\ [Next]_vars => HostInv'
<1> SUFFICES ASSUME HostInv, [Next]_vars PROVE HostInv'
  OBVIOUS
<1>1. ASSUME UNCHANGED <<roleVars, round>>, RecordInv' PROVE HostInv'
  BY <1>1 DEF HostInv, RoleInv, PenInv, RoundInv, MandateInv, roleVars
<1>2. CASE UNCHANGED vars
  <2>1. RecordInv'
    BY <1>2 DEF HostInv, RecordInv, vars, recordVars
  <2>2. UNCHANGED <<roleVars, round>>
    BY <1>2 DEF vars
  <2> QED BY <1>1, <2>1, <2>2
<1>3. ASSUME NEW h \in Hosts, Write(h) \/ Seal(h) \/ Copy(h) PROVE HostInv'
  <2>1. UNCHANGED <<roleVars, round>>
    BY <1>3 DEF Write, Seal, Copy
  <2>2. RecordInv'
    BY <1>3, RecordKept, CopyKeepsRecord DEF HostInv
  <2> QED BY <1>1, <2>1, <2>2
<1>4. ASSUME NEW h \in Hosts, Promote(h) PROVE HostInv'
  <2>1. UNCHANGED <<roleVars, round>> /\ UNCHANGED recordVars
    BY <1>4 DEF Promote
  <2>2. RecordInv'
    BY <2>1 DEF HostInv, RecordInv, recordVars
  <2> QED BY <1>1, <2>1, <2>2
<1>5. ASSUME NEW h \in Hosts, Ask(h) \/ Loses(h) \/ Restart(h) PROVE HostInv'
  BY <1>5, AskingKeeps, ProbeKeeps, SettleKeeps, RestartKeeps DEF Ask
<1> QED BY <1>2, <1>3, <1>4, <1>5 DEF Next

(* Whether a host was promoted is known of every host.                     *)
PromotedInv == promoted \in [Hosts -> BOOLEAN]

LEMMA PromotedInvInit == Init => PromotedInv
BY DEF Init, PromotedInv

LEMMA PromotedInvNext == PromotedInv /\ [Next]_vars => PromotedInv'
<1> SUFFICES ASSUME PromotedInv, [Next]_vars PROVE PromotedInv'
  OBVIOUS
<1>1. CASE UNCHANGED vars
  BY <1>1 DEF PromotedInv, vars
<1>2. ASSUME NEW h \in Hosts, Restart(h) \/ Promote(h) PROVE PromotedInv'
  <2>1. \E b \in BOOLEAN : promoted' = [promoted EXCEPT ![h] = b]
    BY <1>2 DEF Restart, Promote
  <2> QED BY <2>1 DEF PromotedInv
<1>3. ASSUME NEW h \in Hosts, Ask(h) \/ Loses(h) \/ Write(h) \/ Seal(h) \/ Copy(h)
      PROVE  PromotedInv'
  <2>1. promoted' = promoted
    BY <1>3 DEF Ask, Probe, FetchChain, ChainRefused, FetchStatus, Settle, Loses,
                Write, Seal, Copy
  <2> QED BY <2>1 DEF PromotedInv
<1> QED BY <1>1, <1>2, <1>3 DEF Next

LEMMA HostInvHolds == HostInv /\ PromotedInv => RolesHold
<1> SUFFICES ASSUME HostInv, PromotedInv PROVE RolesHold
  OBVIOUS
<1>1. NoPenOnSilence
  BY DEF HostInv, PenInv, NoPenOnSilence, Pen
<1>2. \A h \in Hosts : DOMAIN chain[h] = 1 .. Len(chain[h])
  BY LenProperties DEF HostInv, RecordInv
<1>3. \A h \in Hosts : \A i \in DOMAIN chain[h] : IsPrefix(chain[h][i].acts, log[h])
  BY <1>2 DEF HostInv, RecordInv
<1>4. log \in [Hosts -> Seq(Hosts)]
  BY DEF HostInv, RecordInv
<1>5. /\ role \in [Hosts -> Roles] /\ follow \in [Hosts -> Hosts \cup {NoHost}]
      /\ \A h \in Hosts : (follow[h] # NoHost) <=> role[h] = "mirror"
      /\ \A h \in Hosts : follow[h] # h
  BY DEF HostInv, RoleInv
<1>6. /\ quarantined \in [Hosts -> BOOLEAN] /\ mandate \in [Hosts -> BOOLEAN]
      /\ promoted \in [Hosts -> BOOLEAN]
  BY DEF HostInv, PenInv, PromotedInv
<1>7. TypeOK
  BY <1>3, <1>4, <1>5, <1>6 DEF TypeOK
<1> QED BY <1>1, <1>7 DEF RolesHold

(* Rule 1 of server/chain/election.mjs, "silence is not a mandate", for    *)
(* any number of hosts, losses, restarts from backups and promotions: no   *)
(* host holds the pen that has not heard of a peer and has not been        *)
(* promoted since it started; a mirror follows another host; and no host   *)
(* has sealed an act that its log does not have.                           *)
THEOREM PenNeedsMandate == Spec => []RolesHold
<1>1. Init => HostInv /\ PromotedInv
  BY HostInvInit, PromotedInvInit
<1>2. (HostInv /\ PromotedInv) /\ [Next]_vars => (HostInv /\ PromotedInv)'
  BY HostInvNext, PromotedInvNext
<1>3. HostInv /\ PromotedInv => RolesHold
  BY HostInvHolds
<1> QED BY <1>1, <1>2, <1>3, PTL DEF Spec
=============================================================================
