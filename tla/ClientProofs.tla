---------------------------- MODULE ClientProofs ----------------------------
(***************************************************************************)
(* Theorems about Client, for any number of accounts, pictures, lines and  *)
(* calls in flight.                                                        *)
(***************************************************************************)
EXTENDS Client, AccountingTheorems

Times == 1 .. MaxTime

PostLine == [k : {"post"}, as : Accounts \cup {Them}, t : Times, i : 0 .. MaxLines]
ViewLine == [k : {"view"}, as : Accounts, t : Times, i : 0 .. MaxLines,
             pid : Pids, seq : Nat, look : Nat]
Line == PostLine \cup ViewLine

(* The record: lines carry their place and no stamp ahead of the clock.    *)
RecordInv ==
  /\ now \in Times
  /\ log \in Seq(Line) /\ Len(log) \in 1 .. MaxLines
  /\ \A n \in DOMAIN log : log[n].i = n /\ log[n].t <= now

(* Lines of the record, in its order.                                      *)
PartOfRecord(w) ==
  /\ w \in Seq(Line)
  /\ \A n \in DOMAIN w : w[n].i \in DOMAIN log /\ w[n] = log[w[n].i]
  /\ \A m, n \in DOMAIN w : m < n => w[m].i < w[n].i

Runs == [since : 0 .. MaxTime, spent : BOOLEAN, look : Nat]

(* The page: its world is a part of the record, its cards that world's.    *)
PageInv ==
  /\ who \in Accounts /\ switches \in 0 .. MaxSwitches
  /\ PartOfRecord(world)
  /\ cards \in [Pids -> 0 .. MaxLines]
  /\ \A p \in Pids : cards[p] # 0 <=> p \in DOMAIN Posts(world)
  /\ pairs \in [Pids -> 0 .. MaxTime]
  /\ run \in [Pids -> Runs]

(* The calls of send: what the writer took is a line of the record.        *)
Calls == {NoSend} \cup [st : {"signing", "taken"}, act : Line]

SendInv ==
  /\ seqSent \in Nat \cup {-1}
  /\ send \in [Sends -> Calls]
  /\ \A s \in Sends : send[s].st = "signing" => send[s].act.t <= now
  /\ \A s \in Sends : send[s].st = "taken" =>
       send[s].act.i \in DOMAIN log /\ send[s].act = log[send[s].act.i]

(* A look is charged when it is over, or its dwell is spent.               *)
Charged(p, look) ==
  \/ look < run[p].look
  \/ look = run[p].look /\ (run[p].spent \/ run[p].since = 0)

Flies(s) == send[s].st = "signing" /\ send[s].act.k = "view"

Numbered(v) == v.seq <= seqSent /\ Charged(v.pid, v.look)

Apart(u, v) == u.seq # v.seq /\ (u.pid = v.pid => u.look # v.look)

(* Every view, in the record or on its way there, was numbered by this     *)
(* page and is of a look that is charged; and no two are of one look or    *)
(* have one number.                                                        *)
ViewInv ==
  /\ \A n \in DOMAIN log : log[n].k = "view" => Numbered(log[n])
  /\ \A s \in Sends : Flies(s) => Numbered(send[s].act)
  /\ \A m, n \in DOMAIN log :
       m # n /\ log[m].k = "view" /\ log[n].k = "view" => Apart(log[m], log[n])
  /\ \A n \in DOMAIN log, s \in Sends :
       log[n].k = "view" /\ Flies(s) => Apart(log[n], send[s].act)
  /\ \A r, s \in Sends :
       r # s /\ Flies(r) /\ Flies(s) => Apart(send[r].act, send[s].act)

ClientInv == RecordInv /\ PageInv /\ SendInv /\ ViewInv
-----------------------------------------------------------------------------
(* The greatest of a default and what a sequence holds at some places.     *)
LEMMA MaxOfValues ==
  ASSUME NEW n \in Nat, NEW N \in SUBSET (1 .. n), NEW f, \A m \in N : f[m] \in Int,
         NEW c \in Int, NEW S, \A x : x \in S <=> x = c \/ \E m \in N : x = f[m]
  PROVE  Max(S) \in S /\ \A x \in S : x <= Max(S)
<1>1. \E x \in S : \A y \in S : x >= y
  <2>1. 1 \in Int /\ n \in Int
    OBVIOUS
  <2>2. IsFiniteSet(1 .. n)
    BY <2>1, FS_Interval
  <2>3. IsFiniteSet(N)
    BY <2>2, FS_Subset
  <2>4. \/ \A m \in N : f[m] <= c
        \/ \E k \in N : f[k] >= c /\ \A m \in N : f[m] <= f[k]
    BY <2>3, GreatestExists
  <2>5. CASE \A m \in N : f[m] <= c
    <3>1. c \in S /\ \A y \in S : c >= y
      BY <2>5
    <3> QED BY <3>1
  <2>6. CASE \E k \in N : f[k] >= c /\ \A m \in N : f[m] <= f[k]
    <3>1. PICK k \in N : f[k] >= c /\ \A m \in N : f[m] <= f[k]
      BY <2>6
    <3>2. f[k] \in S /\ \A y \in S : f[k] >= y
      BY <3>1
    <3> QED BY <3>2
  <2> QED BY <2>4, <2>5, <2>6
<1>2. Max(S) \in S /\ \A y \in S : Max(S) >= y
  BY <1>1 DEF Max
<1>3. \A y \in S : y \in Int
  OBVIOUS
<1> QED BY <1>2, <1>3

-----------------------------------------------------------------------------
(* The posts of a sequence of lines.                                       *)
Gathers(w, g) ==
  g = [n \in 0 .. Len(w) |->
        IF n = 0 THEN <<>>
        ELSE IF w[n].k = "post" THEN Append(g[n - 1], w[n]) ELSE g[n - 1]]

LEMMA GatherAt ==
  ASSUME NEW w, NEW g, Gathers(w, g), Len(w) \in Nat
  PROVE  /\ g[0] = <<>>
         /\ \A n \in 1 .. Len(w) :
              g[n] = IF w[n].k = "post" THEN Append(g[n - 1], w[n]) ELSE g[n - 1]
<1> DEFINE l == Len(w)
           next(n) == IF w[n].k = "post" THEN Append(g[n - 1], w[n]) ELSE g[n - 1]
<1>1. g = [n \in 0 .. l |-> IF n = 0 THEN <<>> ELSE next(n)]
  BY DEF Gathers
<1> HIDE DEF next
<1>2. l \in Nat
  OBVIOUS
<1> HIDE DEF l
<1>3. g[0] = <<>> /\ \A n \in 1 .. l : g[n] = next(n)
  BY <1>1, <1>2
<1> QED BY <1>3 DEF next, l

LEMMA GatherExists ==
  ASSUME NEW S, NEW w, Len(w) \in Nat,
         \A n \in 1 .. Len(w) : w[n].k = "post" => w[n] \in S
  PROVE  \E g \in [0 .. Len(w) -> Seq(S)] : Gathers(w, g)
<1> DEFINE l    == Len(w)
           E    == Seq(S)
           step == [n \in 1 .. l |-> [s \in E |-> IF w[n].k = "post" THEN Append(s, w[n]) ELSE s]]
<1>1. l \in Nat /\ <<>> \in E
  OBVIOUS
<1>2. step \in [1 .. l -> [E -> E]]
  <2>1. ASSUME NEW n \in 1 .. l, NEW s \in E
        PROVE  (IF w[n].k = "post" THEN Append(s, w[n]) ELSE s) \in E
    OBVIOUS
  <2> QED BY <2>1
<1>3. \A n \in 1 .. l : \A s \in E :
        step[n][s] = IF w[n].k = "post" THEN Append(s, w[n]) ELSE s
  OBVIOUS
<1> HIDE DEF l, E, step
<1>4. PICK g \in [0 .. l -> E] : Run(l, <<>>, step, g)
  BY <1>1, <1>2, RunExists
<1>5. ASSUME NEW n \in 0 .. l
      PROVE  g[n] = IF n = 0 THEN <<>>
                    ELSE IF w[n].k = "post" THEN Append(g[n - 1], w[n]) ELSE g[n - 1]
  <2>1. g[n] = IF n = 0 THEN <<>> ELSE step[n][g[n - 1]]
    BY <1>4 DEF Run
  <2>2. CASE n = 0
    BY <2>1, <2>2
  <2>3. CASE n # 0
    <3>1. n \in 1 .. l /\ g[n - 1] \in E
      BY <1>1, <2>3
    <3> QED BY <1>3, <2>1, <2>3, <3>1
  <2> QED BY <2>2, <2>3
<1>6. Gathers(w, g)
  BY <1>5 DEF Gathers, l
<1> QED BY <1>6 DEF l, E

(* Every post gathered is one of the lines.                                *)
LEMMA PostsTyped ==
  ASSUME NEW S, NEW w, Len(w) \in Nat,
         \A n \in 1 .. Len(w) : w[n].k = "post" => w[n] \in S
  PROVE  Posts(w) \in Seq(S)
<1> DEFINE upto == CHOOSE g : Gathers(w, g)
<1>1. Gathers(w, upto)
  BY GatherExists
<1>2. Posts(w) = upto[Len(w)]
  BY DEF Posts, Gathers
<1> HIDE DEF upto
<1> DEFINE A == {n \in Nat : n <= Len(w) => upto[n] \in Seq(S)}
<1>3. 0 \in A
  <2>1. upto[0] = <<>>
    BY <1>1, GatherAt
  <2>2. <<>> \in Seq(S)
    OBVIOUS
  <2>3. upto[0] \in Seq(S)
    BY <2>1, <2>2
  <2> QED BY <2>3
<1>4. ASSUME NEW n \in Nat, n \in A PROVE n + 1 \in A
  <2> SUFFICES ASSUME n + 1 <= Len(w) PROVE upto[n + 1] \in Seq(S)
    OBVIOUS
  <2>1. upto[n] \in Seq(S) /\ n + 1 \in 1 .. Len(w) /\ (n + 1) - 1 = n
    BY <1>4
  <2>2. upto[n + 1] = IF w[n + 1].k = "post" THEN Append(upto[(n + 1) - 1], w[n + 1])
                      ELSE upto[(n + 1) - 1]
    BY <1>1, <2>1, GatherAt
  <2> QED BY <2>1, <2>2
<1> HIDE DEF A
<1>5. Len(w) \in A
  BY <1>3, <1>4, CountUp
<1> QED BY <1>2, <1>5 DEF A
-----------------------------------------------------------------------------
(* What the page computes from a world.                                    *)
LEMMA LineParts ==
  ASSUME NEW line \in Line
  PROVE  /\ line.t \in Times /\ line.i \in 0 .. MaxLines
         /\ line.k \in {"post", "view"}
         /\ line.k = "post" => line \in PostLine
         /\ line.k = "view" => line \in ViewLine
BY DEF Line, PostLine, ViewLine

LEMMA WorldLines ==
  ASSUME NEW w \in Seq(Line)
  PROVE  /\ Len(w) \in Nat /\ DOMAIN w = 1 .. Len(w)
         /\ \A n \in 1 .. Len(w) : w[n] \in Line
OBVIOUS

LEMMA ViewedTyped ==
  ASSUME NEW w \in Seq(Line), NEW a, NEW p
  PROVE  Viewed(w, a, p) \in 0 .. MaxTime
<1> DEFINE N == {m \in Views(w, a) : w[m].pid = p}
           f == [m \in 1 .. Len(w) |-> w[m].t]
           S == {f[m] : m \in N} \cup {0}
<1>1. /\ Len(w) \in Nat /\ DOMAIN w = 1 .. Len(w)
      /\ \A n \in 1 .. Len(w) : w[n] \in Line
  BY WorldLines
<1>2. N \in SUBSET (1 .. Len(w))
  BY <1>1 DEF Views
<1>3. \A m \in 1 .. Len(w) : f[m] \in Times
  BY <1>1, LineParts
<1>4. {w[n].t : n \in N} = {f[m] : m \in N}
  BY <1>2
<1>5. Viewed(w, a, p) = Max(S)
  BY <1>4 DEF Viewed
<1> HIDE DEF N, f
<1>6. \A m \in N : f[m] \in Int
  BY <1>2, <1>3 DEF Times
<1> DEFINE l == Len(w)
<1>7. Max(S) \in S
  <2>1. /\ l \in Nat /\ N \in SUBSET (1 .. l) /\ 0 \in Int
        /\ \A x : x \in S <=> x = 0 \/ \E m \in N : x = f[m]
    BY <1>1, <1>2
  <2> HIDE DEF l, S
  <2> QED BY <1>6, <2>1, MaxOfValues, ZenonT(60)
<1>8. S \subseteq 0 .. MaxTime
  BY <1>2, <1>3, ClientAssumption DEF Times
<1> HIDE DEF S
<1> QED BY <1>5, <1>7, <1>8

LEMMA ViewSeqBelow ==
  ASSUME RecordInv, SendInv, ViewInv, NEW w, PartOfRecord(w), NEW a
  PROVE  ViewSeq(w, a) \in Int /\ ViewSeq(w, a) <= seqSent
<1> DEFINE N == Views(w, a)
           f == [m \in 1 .. Len(w) |-> w[m].seq]
           S == {f[m] : m \in N} \cup {-1}
<1>1. w \in Seq(Line)
  BY DEF PartOfRecord
<1>2. /\ Len(w) \in Nat /\ DOMAIN w = 1 .. Len(w)
      /\ \A n \in 1 .. Len(w) : w[n] \in Line
  BY <1>1, WorldLines
<1>3. N \in SUBSET (1 .. Len(w))
  BY <1>2 DEF Views
<1>4. ASSUME NEW m \in N PROVE f[m] \in Nat /\ f[m] <= seqSent
  <2>1. m \in 1 .. Len(w) /\ w[m].k = "view" /\ f[m] = w[m].seq
    BY <1>3 DEF Views
  <2>2. w[m] \in ViewLine
    BY <1>2, <2>1, LineParts
  <2>3. w[m].i \in DOMAIN log /\ w[m] = log[w[m].i]
    BY <1>2, <2>1 DEF PartOfRecord
  <2>4. w[m].seq <= seqSent
    BY <2>1, <2>3 DEF ViewInv, Numbered
  <2> QED BY <2>1, <2>2, <2>4 DEF ViewLine
<1>5. {w[n].seq : n \in N} = {f[m] : m \in N}
  BY <1>3
<1>6. ViewSeq(w, a) = Max(S)
  BY <1>5 DEF ViewSeq
<1> HIDE DEF N, f
<1>7. Max(S) \in S
  <2> DEFINE l == Len(w)
             c == -1
  <2>1. c \in Int /\ \A m \in N : f[m] \in Int
    BY <1>4
  <2>2. /\ l \in Nat /\ N \in SUBSET (1 .. l)
        /\ \A x : x \in S <=> x = c \/ \E m \in N : x = f[m]
    BY <1>2, <1>3
  <2> HIDE DEF l, S, c
  <2> QED BY <2>1, <2>2, MaxOfValues, ZenonT(60)
<1>8. \A x \in S : x \in Int /\ x <= seqSent
  BY <1>4 DEF SendInv
<1> HIDE DEF S
<1> QED BY <1>6, <1>7, <1>8

(* The next number is one more than the last this page has used.           *)
LEMMA NextSeqIs ==
  ASSUME RecordInv, PageInv, SendInv, ViewInv
  PROVE  NextSeq = seqSent + 1 /\ NextSeq \in Nat
<1> DEFINE x == ViewSeq(world, who)
<1>1. x \in Int /\ x <= seqSent /\ seqSent \in Int /\ seqSent >= -1
  BY ViewSeqBelow DEF PageInv, SendInv
<1>2. NextSeq = Max({x, seqSent}) + 1
  BY DEF NextSeq
<1> HIDE DEF x
<1>3. Max({x, seqSent}) = seqSent
  <2>1. \E m \in {x, seqSent} : \A y \in {x, seqSent} : m >= y
    BY <1>1
  <2>2. /\ Max({x, seqSent}) \in {x, seqSent}
        /\ \A y \in {x, seqSent} : Max({x, seqSent}) >= y
    BY <2>1 DEF Max
  <2> QED BY <1>1, <2>2
<1> QED BY <1>1, <1>2, <1>3

LEMMA StampInTime ==
  ASSUME RecordInv, PageInv
  PROVE  Stamp = now /\ Stamp \in Times
<1>1. now \in Times
  BY DEF RecordInv
<1>2. LastAt(world) <= now
  <2>1. CASE world = <<>>
    BY <1>1, <2>1 DEF LastAt, Times
  <2>2. CASE world # <<>>
    <3>1. world \in Seq(Line)
      BY DEF PageInv, PartOfRecord
    <3>2. Len(world) \in DOMAIN world
      BY <2>2, <3>1
    <3>3. world[Len(world)].i \in DOMAIN log /\ world[Len(world)] = log[world[Len(world)].i]
      BY <3>2 DEF PageInv, PartOfRecord
    <3>4. world[Len(world)].t <= now
      BY <3>3 DEF RecordInv
    <3> QED BY <2>2, <3>4 DEF LastAt
  <2> QED BY <2>1, <2>2
<1> HIDE DEF LastAt
<1>3. LastAt(world) \in Nat
  <2>1. CASE world = <<>>
    BY <2>1 DEF LastAt
  <2>2. CASE world # <<>>
    <3>1. world \in Seq(Line)
      BY DEF PageInv, PartOfRecord
    <3>2. world[Len(world)] \in Line
      BY <2>2, <3>1
    <3>3. world[Len(world)].t \in Nat
      BY <3>2, LineParts DEF Times
    <3> QED BY <2>2, <3>3 DEF LastAt
  <2> QED BY <2>1, <2>2
<1> QED BY <1>1, <1>2, <1>3 DEF Stamp, Times
-----------------------------------------------------------------------------
(* The record grows, and what is part of it stays part of it.              *)
Grows ==
  /\ log' \in Seq(Line)
  /\ Len(log) <= Len(log')
  /\ \A n \in DOMAIN log : n \in DOMAIN log' /\ log'[n] = log[n]

LEMMA AppendGrows ==
  ASSUME RecordInv, NEW line \in Line, log' = Append(log, line),
         line.i = Len(log) + 1, line.t <= now', Len(log) < MaxLines,
         now' \in Times, now <= now'
  PROVE  /\ RecordInv' /\ Grows
         /\ DOMAIN log' = 1 .. Len(log) + 1 /\ log'[Len(log) + 1] = line
<1>1. log \in Seq(Line) /\ Len(log) \in 1 .. MaxLines
  BY DEF RecordInv
<1>2. /\ log' \in Seq(Line) /\ Len(log') = Len(log) + 1
      /\ DOMAIN log = 1 .. Len(log) /\ DOMAIN log' = 1 .. Len(log) + 1
      /\ \A n \in 1 .. Len(log) : log'[n] = log[n]
      /\ log'[Len(log) + 1] = line
  BY <1>1
<1>3. Grows
  BY <1>1, <1>2 DEF Grows
<1>4. ASSUME NEW n \in DOMAIN log' PROVE log'[n].i = n /\ log'[n].t <= now'
  <2>1. CASE n = Len(log) + 1
    BY <1>2, <2>1
  <2>2. CASE n \in 1 .. Len(log)
    <3>1. log'[n] = log[n] /\ log[n].i = n /\ log[n].t <= now /\ log[n] \in Line
      BY <1>1, <1>2, <2>2 DEF RecordInv
    <3>2. log[n].t \in Nat /\ now \in Nat /\ now' \in Nat
      BY <3>1, LineParts DEF RecordInv, Times
    <3> QED BY <3>1, <3>2
  <2> QED BY <1>1, <1>2, <2>1, <2>2
<1>5. Len(log') \in 1 .. MaxLines
  BY <1>1, <1>2, ClientAssumption
<1> QED BY <1>2, <1>3, <1>4, <1>5 DEF RecordInv

LEMMA SameRecord ==
  ASSUME RecordInv, UNCHANGED hostVars
  PROVE  RecordInv' /\ Grows
BY DEF RecordInv, Grows, hostVars

LEMMA PartStays ==
  ASSUME Grows, NEW w, PartOfRecord(w)
  PROVE  /\ w \in Seq(Line)
         /\ \A n \in DOMAIN w : w[n].i \in DOMAIN log' /\ w[n] = log'[w[n].i]
         /\ \A m, n \in DOMAIN w : m < n => w[m].i < w[n].i
BY DEF Grows, PartOfRecord

(* A beginning of the record is a part of it.                              *)
LEMMA ReplayedIsPart ==
  ASSUME RecordInv, NEW n \in 0 .. Len(log)
  PROVE  PartOfRecord(Replayed(n))
<1>1. log \in Seq(Line) /\ Len(log) \in Nat /\ DOMAIN log = 1 .. Len(log)
  BY DEF RecordInv
<1> DEFINE w == SubSeq(log, 1, n)
<1>2. w \in Seq(Line) /\ DOMAIN w = 1 .. n /\ \A m \in 1 .. n : w[m] = log[m]
  BY <1>1
<1>3. \A m \in 1 .. n : log[m].i = m /\ m \in DOMAIN log
  BY <1>1 DEF RecordInv
<1> HIDE DEF w
<1>4. PartOfRecord(w)
  BY <1>1, <1>2, <1>3 DEF PartOfRecord
<1> QED BY <1>4 DEF w, Replayed

(* An accepted act that comes after everything the page has lands there.   *)
LEMMA FoldIsPart ==
  ASSUME RecordInv, PartOfRecord(world), NEW line \in Line,
         line.i \in DOMAIN log, line = log[line.i], Folds(world, line)
  PROVE  PartOfRecord(Append(world, line))
<1> DEFINE l == Len(world)
           w == Append(world, line)
<1>1. world \in Seq(Line) /\ l \in Nat /\ DOMAIN world = 1 .. l
  BY DEF PartOfRecord
<1>2. /\ w \in Seq(Line) /\ DOMAIN w = 1 .. l + 1
      /\ \A n \in 1 .. l : w[n] = world[n]
      /\ w[l + 1] = line
  BY <1>1
<1>3. \A n \in 1 .. l : world[n].i \in Nat /\ line.i \in Nat
  BY <1>1, LineParts
<1>4. line.i > world[l].i
  BY DEF Folds
<1>5. \A n \in 1 .. l : world[n].i <= world[l].i
  BY <1>1, <1>3 DEF PartOfRecord
<1> HIDE DEF w, l
<1>6. ASSUME NEW m \in 1 .. l + 1, NEW n \in 1 .. l + 1, m < n PROVE w[m].i < w[n].i
  <2>1. CASE n = l + 1
    <3>1. m \in 1 .. l /\ l \in 1 .. l
      BY <1>1, <1>6, <2>1
    <3> QED BY <1>2, <1>3, <1>4, <1>5, <2>1, <3>1
  <2>2. CASE n \in 1 .. l
    <3>1. m \in 1 .. l
      BY <1>1, <1>6, <2>2
    <3> QED BY <1>1, <1>2, <1>6, <2>2, <3>1 DEF PartOfRecord
  <2> QED BY <1>1, <2>1, <2>2
<1>7. ASSUME NEW n \in 1 .. l + 1 PROVE w[n].i \in DOMAIN log /\ w[n] = log[w[n].i]
  <2>1. CASE n = l + 1
    BY <1>2, <2>1
  <2>2. CASE n \in 1 .. l
    BY <1>1, <1>2, <2>2 DEF PartOfRecord
  <2> QED BY <1>1, <2>1, <2>2
<1> QED BY <1>2, <1>6, <1>7 DEF PartOfRecord, w
-----------------------------------------------------------------------------
(* A call that signs carries an act; the writer's index makes it a line.   *)
LEMMA CallParts ==
  ASSUME SendInv, NEW s \in Sends, send[s].st # "idle"
  PROVE  send[s].act \in Line /\ send[s].st \in {"signing", "taken"} /\ send[s] # NoSend
BY DEF SendInv, Calls, NoSend

LEMMA Indexed ==
  ASSUME NEW act \in Line, NEW n \in 0 .. MaxLines
  PROVE  LET line == [act EXCEPT !.i = n]
         IN  /\ line \in Line /\ line.i = n /\ line.t = act.t /\ line.k = act.k
             /\ act.k = "view" => /\ line.seq = act.seq /\ line.pid = act.pid
                                  /\ line.look = act.look
<1>1. CASE act \in PostLine
  BY <1>1 DEF PostLine, Line
<1>2. CASE act \in ViewLine
  BY <1>2 DEF ViewLine, Line
<1> QED BY <1>1, <1>2 DEF Line

(* What Taken appends, and what the call is then.                          *)
LEMMA TakenIs ==
  ASSUME RecordInv, SendInv, NEW s \in Sends, NEW a, Taken(s, a)
  PROVE  \E line \in Line :
           /\ line = [send[s].act EXCEPT !.i = Len(log) + 1]
           /\ line.i = Len(log) + 1 /\ line.t <= now /\ log' = Append(log, line)
           /\ send' = [send EXCEPT ![s] = [st |-> "taken", act |-> line]]
           /\ line.k = send[s].act.k
           /\ line.k = "view" => /\ line.seq = send[s].act.seq
                                 /\ line.pid = send[s].act.pid
                                 /\ line.look = send[s].act.look
<1>1. send[s].st = "signing" /\ Len(log) < MaxLines
  BY DEF Taken, Delivered
<1>2. send[s].act \in Line /\ send[s].act.t <= now
  BY <1>1, CallParts DEF SendInv
<1>3. Len(log) + 1 \in 0 .. MaxLines
  BY <1>1, ClientAssumption DEF RecordInv
<1> DEFINE line == [send[s].act EXCEPT !.i = Len(log) + 1]
<1>4. /\ line \in Line /\ line.i = Len(log) + 1 /\ line.t = send[s].act.t /\ line.k = send[s].act.k
      /\ send[s].act.k = "view" => /\ line.seq = send[s].act.seq /\ line.pid = send[s].act.pid
                                   /\ line.look = send[s].act.look
  BY <1>2, <1>3, Indexed
<1>5. log' = Append(log, line) /\ send' = [send EXCEPT ![s] = [st |-> "taken", act |-> line]]
  BY DEF Taken
<1>6. line = [send[s].act EXCEPT !.i = Len(log) + 1]
  OBVIOUS
<1> HIDE DEF line
<1> QED BY <1>2, <1>4, <1>5, <1>6

(* The stages of a call other than the two that write.                     *)
Ends(s) ==
  \/ NotSent(s) \/ Fold(s) \/ Refetch(s) \/ AnswerLost(s)
  \/ \E a \in Accounts : Refused(s, a)

LEMMA RecordNext ==
  ASSUME ClientInv, Next
  PROVE  RecordInv' /\ Grows
<1>0. RecordInv /\ SendInv /\ PageInv
  BY DEF ClientInv
<1>1. CASE TheyPost
  <2> DEFINE line == [k |-> "post", as |-> Them, t |-> now, i |-> Len(log) + 1]
  <2>1. /\ log' = Append(log, line) /\ now' = now /\ Len(log) < MaxLines
        /\ now \in Times /\ Len(log) \in 1 .. MaxLines
    BY <1>0, <1>1 DEF TheyPost, RecordInv
  <2>2. Len(log) + 1 \in 0 .. MaxLines
    BY <2>1, ClientAssumption
  <2>3. line \in Line /\ line.i = Len(log) + 1 /\ line.t = now
    BY <2>1, <2>2 DEF Line, PostLine
  <2>4. now <= now' /\ now' \in Times /\ line.t <= now'
    BY <2>1, <2>3 DEF Times
  <2> HIDE DEF line
  <2> QED BY <1>0, <2>1, <2>3, <2>4, AppendGrows
<1>2. ASSUME NEW s \in Sends, NEW a, Taken(s, a) PROVE RecordInv' /\ Grows
  <2>1. PICK line \in Line :
          line.i = Len(log) + 1 /\ line.t <= now /\ log' = Append(log, line)
    BY <1>0, <1>2, TakenIs
  <2>2. now' = now /\ now \in Times /\ now <= now' /\ Len(log) < MaxLines
    BY <1>0, <1>2 DEF Taken, RecordInv, Times
  <2> QED BY <1>0, <2>1, <2>2, AppendGrows
<1>3. CASE Tick
  <2>1. log' = log /\ now' = now + 1 /\ now < MaxTime /\ now \in Times
    BY <1>0, <1>3 DEF Tick, RecordInv
  <2>2. now' \in Times
    BY <2>1, ClientAssumption DEF Times
  <2>3. ASSUME NEW n \in DOMAIN log PROVE log[n].i = n /\ log[n].t <= now'
    <3>1. log[n] \in Line /\ log[n].t <= now /\ log[n].i = n
      BY <1>0 DEF RecordInv
    <3>2. log[n].t \in Nat
      BY <3>1, LineParts DEF Times
    <3> QED BY <2>1, <3>1, <3>2 DEF Times
  <2> QED BY <1>0, <2>1, <2>2, <2>3 DEF RecordInv, Grows
<1>4. CASE UNCHANGED hostVars
  BY <1>0, <1>4, SameRecord
<1>5. ASSUME NEW s \in Sends, Sending(s), ~ \E a \in Accounts : Taken(s, a)
      PROVE  UNCHANGED hostVars
  BY <1>5 DEF Sending, Publish, NotSent, Fold, Refetch, AnswerLost, Refused, Bill
<1>6. ASSUME NEW p \in Pids, Metering(p) PROVE UNCHANGED hostVars
  BY <1>6 DEF Metering, Arrive, Leave, Interrupt, Spend
<1>7. CASE Refresh \/ \E a \in Accounts : AccountsChanged(a)
  BY <1>4, <1>7 DEF Refresh, AccountsChanged
<1> QED BY <1>1, <1>2, <1>3, <1>4, <1>5, <1>6, <1>7 DEF Next
-----------------------------------------------------------------------------
(* The page.                                                               *)
LEMMA PostsOfPart ==
  ASSUME RecordInv, NEW w, PartOfRecord(w), NEW p \in DOMAIN Posts(w)
  PROVE  Posts(w)[p].i \in 1 .. MaxLines
<1> DEFINE S == {line \in Line : line.i # 0}
<1>1. /\ Len(w) \in Nat /\ DOMAIN w = 1 .. Len(w)
      /\ \A n \in 1 .. Len(w) : w[n] \in Line
  BY WorldLines DEF PartOfRecord
<1>2. ASSUME NEW n \in 1 .. Len(w) PROVE w[n] \in S
  <2>1. w[n] \in Line /\ w[n].i \in 1 .. Len(log) /\ Len(log) \in Nat
    BY <1>1 DEF PartOfRecord, RecordInv
  <2> QED BY <2>1
<1> HIDE DEF S
<1>3. Posts(w) \in Seq(S)
  BY <1>1, <1>2, PostsTyped
<1>4. Posts(w)[p] \in S
  BY <1>3
<1>5. Posts(w)[p] \in Line /\ Posts(w)[p].i # 0
  BY <1>4 DEF S
<1>6. Posts(w)[p].i \in 0 .. MaxLines
  BY <1>5, LineParts
<1> QED BY <1>5, <1>6, ClientAssumption

LEMMA ShowsKeepsPage ==
  ASSUME RecordInv, PageInv, NEW w, PartOfRecord(w), Shows(w, who),
         UNCHANGED <<log, who, switches>>
  PROVE  PageInv'
<1>1. world' = w /\ cards' = Rendered(w) /\ run' = Watched(w) /\ pairs' = Seeded(w, who)
  BY DEF Shows
<1>2. PartOfRecord(world)'
  BY <1>1 DEF PartOfRecord
<1>3. cards' \in [Pids -> 0 .. MaxLines] /\ \A p \in Pids : cards'[p] # 0 <=> p \in DOMAIN Posts(world')
  <2> DEFINE card(p) == IF p \notin DOMAIN Posts(w) THEN 0
                        ELSE IF cards[p] # 0 THEN cards[p] ELSE Posts(w)[p].i
  <2>1. cards' = [p \in Pids |-> card(p)]
    BY <1>1 DEF Rendered
  <2>2. ASSUME NEW p \in Pids
        PROVE  card(p) \in 0 .. MaxLines /\ (card(p) # 0 <=> p \in DOMAIN Posts(w))
    <3>1. cards[p] \in 0 .. MaxLines
      BY DEF PageInv
    <3>2. p \in DOMAIN Posts(w) => Posts(w)[p].i \in 1 .. MaxLines
      BY PostsOfPart
    <3>3. 0 \in 0 .. MaxLines /\ 1 .. MaxLines \subseteq 0 .. MaxLines /\ 0 \notin 1 .. MaxLines
      BY ClientAssumption
    <3> QED BY <3>1, <3>2, <3>3
  <2> HIDE DEF card
  <2> QED BY <1>1, <2>1, <2>2
<1>4. pairs' \in [Pids -> 0 .. MaxTime]
  <2>1. w \in Seq(Line)
    BY DEF PartOfRecord
  <2>2. \A p \in Pids : Viewed(w, who, p) \in 0 .. MaxTime
    BY <2>1, ViewedTyped
  <2> QED BY <1>1, <2>2 DEF Seeded
<1>5. run' \in [Pids -> Runs]
  <2>1. ASSUME NEW p \in Pids
        PROVE  run[p] \in Runs /\ [NotSeen EXCEPT !.look = run[p].look] \in Runs
    <3>1. run[p] \in Runs
      BY DEF PageInv
    <3>2. 0 \in 0 .. MaxTime
      BY ClientAssumption
    <3>3. NotSeen \in Runs /\ run[p].look \in Nat
      BY <3>1, <3>2 DEF NotSeen, Runs
    <3> QED BY <3>1, <3>3 DEF Runs
  <2> QED BY <1>1, <2>1 DEF Watched
<1> QED BY <1>1, <1>2, <1>3, <1>4, <1>5 DEF PageInv

(* The meter's steps: a look that was charged stays charged.               *)
LEMMA MeterIs ==
  ASSUME RecordInv, PageInv, NEW p \in Pids, Metering(p) \/ \E s \in Sends : Bill(p, s)
  PROVE  /\ run' \in [Pids -> Runs]
         /\ \A q \in Pids : \A look \in Nat : Charged(q, look) => Charged(q, look)'
<1>1. run \in [Pids -> Runs] /\ run[p] \in Runs /\ now \in 0 .. MaxTime /\ now # 0
      /\ 0 \in 0 .. MaxTime
  BY ClientAssumption DEF RecordInv, PageInv, Times
<1>2. SUFFICES /\ run' \in [Pids -> Runs]
               /\ \A q \in Pids : q # p => run'[q] = run[q]
               /\ \A look \in Nat : Charged(p, look) => Charged(p, look)'
  BY DEF Charged
<1>3. CASE Arrive(p)
  <2>1. /\ run' \in [Pids -> Runs] /\ run'[p].look = run[p].look + 1
        /\ \A q \in Pids : q # p => run'[q] = run[q]
    BY <1>1, <1>3 DEF Arrive, Runs
  <2>2. run[p].look \in Nat
    BY <1>1 DEF Runs
  <2> QED BY <2>1, <2>2 DEF Charged
<1>4. CASE Leave(p)
  <2>1. /\ run' \in [Pids -> Runs] /\ run'[p].look = run[p].look /\ run'[p].since = 0
        /\ \A q \in Pids : q # p => run'[q] = run[q]
    BY <1>1, <1>4 DEF Leave, Runs
  <2> QED BY <2>1 DEF Charged
<1>5. CASE Interrupt(p)
  <2>1. /\ run' \in [Pids -> Runs] /\ run'[p].look = run[p].look
        /\ run'[p].spent = run[p].spent /\ run[p].since # 0
        /\ \A q \in Pids : q # p => run'[q] = run[q]
    BY <1>1, <1>5 DEF Interrupt, Runs
  <2> QED BY <2>1 DEF Charged
<1>6. CASE Spend(p) \/ \E s \in Sends : Bill(p, s)
  <2>1. run' = [run EXCEPT ![p].spent = TRUE]
    BY <1>6 DEF Spend, Bill
  <2>2. /\ run' \in [Pids -> Runs] /\ run'[p].look = run[p].look /\ run'[p].spent = TRUE
        /\ \A q \in Pids : q # p => run'[q] = run[q]
    BY <1>1, <2>1 DEF Runs
  <2> QED BY <2>2 DEF Charged
<1> QED BY <1>3, <1>4, <1>5, <1>6 DEF Metering

LEMMA PageNext ==
  ASSUME ClientInv, Next, RecordInv', Grows
  PROVE  PageInv'
<1>0. RecordInv /\ PageInv /\ SendInv
  BY DEF ClientInv
<1>1. PartOfRecord(world) /\ world \in Seq(Line)
  BY <1>0 DEF PageInv, PartOfRecord
<1>2. CASE UNCHANGED <<who, switches, world, cards, pairs, run>>
  <2>1. world' = world => PartOfRecord(world)'
    BY <1>1, PartStays DEF PartOfRecord
  <2> QED BY <1>0, <1>2, <2>1 DEF PageInv
<1>3. ASSUME NEW w, PartOfRecord(w), Shows(w, who), UNCHANGED <<hostVars, who, switches>>
      PROVE  PageInv'
  BY <1>0, <1>3, ShowsKeepsPage DEF hostVars
<1>4. ASSUME NEW n \in 0 .. Len(log), Shows(Replayed(n), who), UNCHANGED <<hostVars, who, switches>>
      PROVE  PageInv'
  BY <1>0, <1>3, <1>4, ReplayedIsPart
<1>5. CASE Refresh
  BY <1>4, <1>5 DEF Refresh
<1>6. ASSUME NEW p \in Pids, Metering(p) \/ \E s \in Sends : Bill(p, s) PROVE PageInv'
  <2>1. run' \in [Pids -> Runs]
    BY <1>0, <1>6, MeterIs
  <2>2. UNCHANGED <<who, switches, world, cards>>
    BY <1>6 DEF Metering, Arrive, Leave, Interrupt, Spend, Bill, pageVars
  <2>3. PartOfRecord(world)'
    BY <1>1, <2>2, PartStays DEF PartOfRecord
  <2>4. pairs' = pairs \/ pairs' = [pairs EXCEPT ![p] = now]
    BY <1>6 DEF Metering, Arrive, Leave, Interrupt, Spend, Bill
  <2>5. now \in 0 .. MaxTime
    BY <1>0, ClientAssumption DEF RecordInv, Times
  <2>6. pairs' \in [Pids -> 0 .. MaxTime]
    BY <1>0, <2>4, <2>5 DEF PageInv
  <2> QED BY <1>0, <2>1, <2>2, <2>3, <2>6 DEF PageInv
<1>7. ASSUME NEW a \in Accounts, AccountsChanged(a) PROVE PageInv'
  <2>1. /\ who' = a /\ switches' = switches + 1 /\ switches < MaxSwitches
        /\ pairs' = Seeded(world, a) /\ UNCHANGED <<world, cards, run>>
    BY <1>7 DEF AccountsChanged, pageVars
  <2>2. PartOfRecord(world)'
    BY <1>1, <2>1, PartStays DEF PartOfRecord
  <2>3. pairs' \in [Pids -> 0 .. MaxTime]
    <3>1. \A p \in Pids : Viewed(world, a, p) \in 0 .. MaxTime
      BY <1>1, ViewedTyped
    <3> QED BY <2>1, <3>1 DEF Seeded
  <2>4. switches' \in 0 .. MaxSwitches
    BY <1>0, <2>1, ClientAssumption DEF PageInv
  <2> QED BY <1>0, <2>1, <2>2, <2>3, <2>4 DEF PageInv
<1>8. ASSUME NEW s \in Sends, Sending(s), ~ \E p \in Pids : Bill(p, s) PROVE PageInv'
  <2>1. CASE Publish(s) \/ NotSent(s) \/ AnswerLost(s) \/ \E a \in Accounts : Taken(s, a) \/ Refused(s, a)
    BY <1>2, <2>1 DEF Publish, NotSent, AnswerLost, Taken, Refused, meterVars
  <2>2. CASE Fold(s)
    <3>1. /\ send[s].st = "taken" /\ Folds(world, send[s].act)
          /\ Shows(Append(world, send[s].act), who) /\ UNCHANGED <<hostVars, who, switches>>
      BY <2>2 DEF Fold
    <3>2. send[s].act \in Line /\ send[s].act.i \in DOMAIN log /\ send[s].act = log[send[s].act.i]
      BY <1>0, <3>1, CallParts DEF SendInv
    <3>3. PartOfRecord(Append(world, send[s].act))
      BY <1>0, <1>1, <3>1, <3>2, FoldIsPart
    <3> QED BY <1>3, <3>1, <3>3
  <2>3. CASE Refetch(s)
    BY <1>4, <2>3 DEF Refetch
  <2> QED BY <1>8, <2>1, <2>2, <2>3 DEF Sending
<1>9. CASE TheyPost \/ Tick
  BY <1>2, <1>9 DEF TheyPost, Tick, meterVars, pageVars
<1> QED BY <1>5, <1>6, <1>7, <1>8, <1>9 DEF Next, Sending
-----------------------------------------------------------------------------
(* The calls.                                                              *)
Sound(c) ==
  /\ c \in Calls
  /\ c.st = "signing" => c.act.t <= now
  /\ c.st = "taken" => c.act.i \in DOMAIN log /\ c.act = log[c.act.i]

LEMMA SendIsSound ==
  SendInv <=> /\ seqSent \in Nat \cup {-1}
              /\ send = [s \in Sends |-> send[s]]
              /\ \A s \in Sends : Sound(send[s])
BY DEF SendInv, Sound

LEMMA SoundStays ==
  ASSUME RecordInv, RecordInv', Grows, now <= now', NEW c, Sound(c)
  PROVE  /\ c \in Calls
         /\ c.st = "signing" => c.act.t <= now'
         /\ c.st = "taken" => c.act.i \in DOMAIN log' /\ c.act = log'[c.act.i]
<1>1. c.st = "signing" => c.act.t \in Int
  <2>1. c.st = "signing" => c.act \in Line
    BY DEF Sound, Calls, NoSend
  <2> QED BY <2>1, LineParts DEF Times
<1>2. now \in Int /\ now' \in Int
  BY DEF RecordInv, Times
<1> QED BY <1>1, <1>2 DEF Sound, Grows

LEMMA NoSendSound == Sound(NoSend)
BY DEF Sound, NoSend, Calls

LEMMA ClockRuns ==
  ASSUME RecordInv, Next
  PROVE  now <= now'
<1>1. now' = now \/ now' = now + 1
  BY DEF Next, TheyPost, Tick, Refresh, AccountsChanged, Sending, Publish, NotSent, Fold, Refetch,
         AnswerLost, Taken, Refused, Bill, Metering, Arrive, Leave, Interrupt, Spend, hostVars
<1> QED BY <1>1 DEF RecordInv, Times

(* A call is left alone but for one, and that one is sound.                *)
LEMMA OneCall ==
  ASSUME RecordInv, RecordInv', SendInv, Grows, now <= now',
         seqSent' \in Nat \cup {-1}, NEW s, NEW c,
         send' = [send EXCEPT ![s] = c], Sound(c)'
  PROVE  SendInv'
<1>1. send = [x \in Sends |-> send[x]] /\ \A x \in Sends : Sound(send[x])
  BY SendIsSound
<1>2. send' \in [Sends -> Calls] /\ \A x \in Sends : send'[x] = send[x] \/ send'[x] = c
  BY DEF SendInv, Sound
<1>3. \A x \in Sends : (send[x].st = "signing" => send[x].act.t <= now')
                       /\ (send[x].st = "taken" => send[x].act.i \in DOMAIN log'
                                                   /\ send[x].act = log'[send[x].act.i])
  BY <1>1, SoundStays
<1> QED BY <1>2, <1>3 DEF SendInv, Sound

(* What a member's own post, and a billed view, put into a call.           *)
LEMMA PublishIs ==
  ASSUME RecordInv, PageInv, NEW s \in Sends, Publish(s)
  PROVE  \E act \in PostLine :
           act.t = now /\ send' = [send EXCEPT ![s] = [st |-> "signing", act |-> act]]
<1> DEFINE act == [k |-> "post", as |-> who, t |-> Stamp, i |-> 0]
<1>1. send' = [send EXCEPT ![s] = [st |-> "signing", act |-> act]]
  BY DEF Publish, Sign
<1>2. Stamp = now /\ Stamp \in Times /\ who \in Accounts /\ 0 \in 0 .. MaxLines
  BY StampInTime, ClientAssumption DEF PageInv
<1>3. act \in PostLine /\ act.t = now
  BY <1>2 DEF PostLine
<1> HIDE DEF act
<1> QED BY <1>1, <1>3

LEMMA BillIs ==
  ASSUME ClientInv, NEW p \in Pids, NEW s \in Sends, Bill(p, s)
  PROVE  /\ seqSent' = seqSent + 1 /\ seqSent \in Int /\ seqSent' \in Nat
         /\ send[s] = NoSend /\ UNCHANGED hostVars
         /\ run[p].look \in Nat
         /\ ~Charged(p, run[p].look) /\ Charged(p, run[p].look)'
         /\ \/ send' = send
            \/ \E act \in ViewLine :
                 /\ act.t = now /\ act.pid = p /\ act.seq = seqSent' /\ act.look = run[p].look
                 /\ send' = [send EXCEPT ![s] = [st |-> "signing", act |-> act]]
<1>0. RecordInv /\ PageInv /\ SendInv /\ ViewInv
  BY DEF ClientInv
<1> DEFINE act == [k |-> "view", as |-> who, t |-> Stamp, i |-> 0,
                   pid |-> p, seq |-> NextSeq, look |-> run[p].look]
<1>1. /\ run' = [run EXCEPT ![p].spent = TRUE] /\ seqSent' = NextSeq
      /\ send[s] = NoSend /\ UNCHANGED hostVars
      /\ run[p].since # 0 /\ ~run[p].spent
      /\ send' = send \/ send' = [send EXCEPT ![s] = [st |-> "signing", act |-> act]]
  BY DEF Bill, Due, Sign
<1>2. NextSeq = seqSent + 1 /\ NextSeq \in Nat /\ seqSent \in Int
  BY <1>0, NextSeqIs DEF SendInv
<1>3. Stamp = now /\ Stamp \in Times /\ who \in Accounts /\ 0 \in 0 .. MaxLines
  BY <1>0, StampInTime, ClientAssumption DEF PageInv
<1>4. run \in [Pids -> Runs] /\ run[p].look \in Nat
  BY <1>0 DEF PageInv, Runs
<1>5. act \in ViewLine /\ act.t = now /\ act.pid = p /\ act.seq = NextSeq /\ act.look = run[p].look
  BY <1>2, <1>3, <1>4 DEF ViewLine
<1>6. run'[p].look = run[p].look /\ run'[p].spent = TRUE
  BY <1>1, <1>4 DEF Runs
<1>7. ~Charged(p, run[p].look) /\ Charged(p, run[p].look)'
  BY <1>1, <1>4, <1>6 DEF Charged
<1> HIDE DEF act
<1> QED BY <1>1, <1>2, <1>4, <1>5, <1>7

LEMMA SendNext ==
  ASSUME ClientInv, Next, RecordInv', Grows
  PROVE  SendInv'
<1>0. RecordInv /\ PageInv /\ SendInv /\ now <= now'
  BY ClockRuns DEF ClientInv
<1>1. ASSUME seqSent' \in Nat \cup {-1}, send' = send PROVE SendInv'
  <2>1. \A x \in Sends : Sound(send[x])
    BY <1>0, SendIsSound
  <2>2. \A x \in Sends : (send[x].st = "signing" => send[x].act.t <= now')
                         /\ (send[x].st = "taken" => send[x].act.i \in DOMAIN log'
                                                     /\ send[x].act = log'[send[x].act.i])
    BY <1>0, <2>1, SoundStays
  <2> QED BY <1>0, <1>1, <2>2 DEF SendInv
<1>2. CASE TheyPost \/ Tick \/ Refresh \/ \E a \in Accounts : AccountsChanged(a)
  <2>1. send' = send /\ seqSent' = seqSent
    BY <1>2 DEF TheyPost, Tick, Refresh, AccountsChanged, pageVars
  <2> QED BY <1>0, <1>1, <2>1 DEF SendInv
<1>3. ASSUME NEW p \in Pids, Metering(p) PROVE SendInv'
  <2>1. send' = send /\ seqSent' = seqSent
    BY <1>3 DEF Metering, Arrive, Leave, Interrupt, Spend, pageVars
  <2> QED BY <1>0, <1>1, <2>1 DEF SendInv
<1>4. ASSUME NEW s \in Sends, Ends(s) PROVE SendInv'
  <2>1. send' = [send EXCEPT ![s] = NoSend] /\ seqSent' = seqSent
    BY <1>4 DEF Ends, NotSent, Fold, Refetch, AnswerLost, Refused
  <2>2. Sound(NoSend)'
    BY DEF Sound, NoSend, Calls
  <2> QED BY <1>0, <2>1, <2>2, OneCall DEF SendInv
<1>5. ASSUME NEW act \in Line, NEW s \in Sends, act.t = now, now' = now,
             seqSent' \in Nat \cup {-1},
             send' = [send EXCEPT ![s] = [st |-> "signing", act |-> act]]
      PROVE  SendInv'
  <2> DEFINE c == [st |-> "signing", act |-> act]
  <2>1. c \in Calls /\ c.st = "signing" /\ c.act = act /\ now' <= now'
    BY <1>0 DEF Calls, RecordInv, Times
  <2>2. Sound(c)'
    BY <1>5, <2>1 DEF Sound
  <2> HIDE DEF c
  <2>3. send' = [send EXCEPT ![s] = c]
    BY <1>5 DEF c
  <2> QED BY <1>0, <1>5, <2>2, <2>3, OneCall
<1>6. ASSUME NEW s \in Sends, Publish(s) PROVE SendInv'
  <2>1. PICK act \in PostLine :
          act.t = now /\ send' = [send EXCEPT ![s] = [st |-> "signing", act |-> act]]
    BY <1>0, <1>6, PublishIs
  <2>2. now' = now /\ seqSent' = seqSent /\ act \in Line
    BY <1>6 DEF Publish, hostVars, Line
  <2> QED BY <1>0, <1>5, <2>1, <2>2 DEF SendInv
<1>7. ASSUME NEW s \in Sends, NEW p \in Pids, Bill(p, s) PROVE SendInv'
  <2>1. now' = now /\ seqSent' \in Nat
    BY <1>7, BillIs DEF hostVars
  <2>2. CASE send' = send
    BY <1>1, <2>1, <2>2
  <2>3. CASE send' # send
    <3>1. PICK act \in ViewLine :
            act.t = now /\ send' = [send EXCEPT ![s] = [st |-> "signing", act |-> act]]
      BY <1>7, <2>3, BillIs
    <3> QED BY <1>5, <2>1, <3>1 DEF Line
  <2> QED BY <2>2, <2>3
<1>8. ASSUME NEW s \in Sends, NEW a \in Accounts, Taken(s, a) PROVE SendInv'
  <2>1. PICK line \in Line :
          /\ line.i = Len(log) + 1 /\ line.t <= now /\ log' = Append(log, line)
          /\ send' = [send EXCEPT ![s] = [st |-> "taken", act |-> line]]
    BY <1>0, <1>8, TakenIs
  <2>2. now' = now /\ seqSent' = seqSent
    BY <1>8 DEF Taken
  <2>3. line.i \in DOMAIN log' /\ log'[line.i] = line
    BY <1>0, <2>1 DEF RecordInv
  <2> DEFINE c == [st |-> "taken", act |-> line]
  <2>4. c \in Calls /\ c.st = "taken" /\ c.act = line
    BY DEF Calls
  <2>5. Sound(c)'
    BY <2>3, <2>4 DEF Sound
  <2> HIDE DEF c
  <2>6. send' = [send EXCEPT ![s] = c] /\ seqSent' \in Nat \cup {-1}
    BY <1>0, <2>1, <2>2 DEF c, SendInv
  <2> QED BY <1>0, <2>5, <2>6, OneCall
<1> QED BY <1>2, <1>3, <1>4, <1>6, <1>7, <1>8 DEF Next, Sending, Ends
-----------------------------------------------------------------------------
(* The views.                                                              *)
LEMMA NumberedStays ==
  ASSUME seqSent \in Int, seqSent' \in Int, seqSent <= seqSent',
         \A q \in Pids : \A look \in Nat : Charged(q, look) => Charged(q, look)',
         NEW v \in Line, v.k = "view", Numbered(v)
  PROVE  Numbered(v)'
<1>1. v.pid \in Pids /\ v.look \in Nat /\ v.seq \in Nat
  BY LineParts DEF ViewLine
<1> QED BY <1>1 DEF Numbered

(* No new view: the record has none more, and none more is on its way.     *)
LEMMA NoNewView ==
  ASSUME RecordInv, RecordInv', SendInv, ViewInv,
         \A n \in DOMAIN log' : log'[n].k = "view" => n \in DOMAIN log /\ log'[n] = log[n],
         \A s \in Sends : Flies(s)' => Flies(s) /\ send'[s].act = send[s].act,
         seqSent' \in Int, seqSent <= seqSent',
         \A q \in Pids : \A look \in Nat : Charged(q, look) => Charged(q, look)'
  PROVE  ViewInv'
<1>1. ASSUME NEW n \in DOMAIN log', log'[n].k = "view" PROVE Numbered(log[n])'
  <2>1. n \in DOMAIN log /\ log'[n] = log[n] /\ log[n] \in Line /\ seqSent \in Int
    BY <1>1 DEF RecordInv, SendInv
  <2>2. PICK v \in Line : v = log[n]
    BY <2>1
  <2>3. v.k = "view" /\ Numbered(v)
    BY <1>1, <2>1, <2>2 DEF ViewInv
  <2>4. Numbered(v)'
    BY <2>1, <2>3, NumberedStays
  <2> QED BY <2>1, <2>2, <2>4 DEF Numbered, Charged
<1>2. ASSUME NEW s \in Sends, Flies(s)' PROVE Numbered(send[s].act)'
  <2>1. Flies(s) /\ send'[s].act = send[s].act /\ seqSent \in Int /\ send[s].act \in Line
    BY <1>2, CallParts DEF SendInv, Flies
  <2>2. PICK v \in Line : v = send[s].act
    BY <2>1
  <2>3. v.k = "view" /\ Numbered(v)
    BY <2>1, <2>2 DEF ViewInv, Flies
  <2>4. Numbered(v)'
    BY <2>1, <2>3, NumberedStays
  <2> QED BY <2>1, <2>2, <2>4 DEF Numbered, Charged
<1>3. ASSUME NEW m \in DOMAIN log', NEW n \in DOMAIN log', m # n,
             log'[m].k = "view", log'[n].k = "view"
      PROVE  Apart(log[m], log[n])'
  BY <1>3 DEF ViewInv, Apart
<1>4. ASSUME NEW n \in DOMAIN log', NEW s \in Sends, log'[n].k = "view", Flies(s)'
      PROVE  Apart(log[n], send[s].act)'
  BY <1>4 DEF ViewInv, Apart
<1>5. ASSUME NEW r \in Sends, NEW s \in Sends, r # s, Flies(r)', Flies(s)'
      PROVE  Apart(send[r].act, send[s].act)'
  BY <1>5 DEF ViewInv, Apart
<1> QED BY <1>1, <1>2, <1>3, <1>4, <1>5 DEF ViewInv

(* A new view goes on its way: its number and its look are nobody's.       *)
LEMMA OneNewView ==
  ASSUME RecordInv, SendInv, ViewInv, log' = log, NEW s \in Sends,
         NEW act \in ViewLine,
         send' = [send EXCEPT ![s] = [st |-> "signing", act |-> act]],
         seqSent' = seqSent + 1, act.seq = seqSent', seqSent \in Int,
         \A q \in Pids : \A look \in Nat : Charged(q, look) => Charged(q, look)',
         ~Charged(act.pid, act.look), Charged(act.pid, act.look)'
  PROVE  ViewInv'
<1>0. seqSent' \in Int /\ seqSent <= seqSent'
  OBVIOUS
<1>1. ASSUME NEW v \in Line, v.k = "view", Numbered(v)
      PROVE  Numbered(v)' /\ Apart(v, act) /\ Apart(act, v)
  <2>1. Numbered(v)'
    BY <1>0, <1>1, NumberedStays
  <2>2. v.seq # act.seq
    BY <1>1, LineParts DEF Numbered, ViewLine
  <2>3. v.pid = act.pid => v.look # act.look
    BY <1>1 DEF Numbered
  <2> QED BY <2>1, <2>2, <2>3 DEF Apart
<1>2. /\ \A x \in Sends : x # s => send'[x] = send[x]
      /\ send'[s].act = act
  BY DEF SendInv
<1>3. ASSUME NEW n \in DOMAIN log, log[n].k = "view"
      PROVE  Numbered(log[n])' /\ Apart(log[n], act)
  <2>1. PICK v \in Line : v = log[n]
    BY DEF RecordInv
  <2>2. v.k = "view" /\ Numbered(v)
    BY <1>3, <2>1 DEF ViewInv
  <2>3. Numbered(v)' /\ Apart(v, act)
    BY <1>1, <2>2
  <2> QED BY <2>1, <2>3 DEF Numbered, Charged
<1>4. ASSUME NEW x \in Sends, x # s, Flies(x)'
      PROVE  /\ Flies(x) /\ Numbered(send[x].act)' /\ Apart(send[x].act, act)
             /\ Apart(act, send[x].act)
  <2>1. Flies(x) /\ send'[x].act = send[x].act /\ send[x].act \in Line
    BY <1>2, <1>4, CallParts DEF Flies
  <2>2. PICK v \in Line : v = send[x].act
    BY <2>1
  <2>3. v.k = "view" /\ Numbered(v)
    BY <2>1, <2>2 DEF ViewInv, Flies
  <2>4. Numbered(v)' /\ Apart(v, act) /\ Apart(act, v)
    BY <1>1, <2>3
  <2> QED BY <2>1, <2>2, <2>4 DEF Numbered, Charged
<1>5. Numbered(send[s].act)'
  <2>1. act.seq <= seqSent'
    BY <1>0
  <2> QED BY <1>2, <2>1 DEF Numbered, Charged
<1>6. ASSUME NEW n \in DOMAIN log', log'[n].k = "view" PROVE Numbered(log[n])'
  BY <1>3, <1>6
<1>7. ASSUME NEW x \in Sends, Flies(x)' PROVE Numbered(send[x].act)'
  BY <1>4, <1>5, <1>7
<1>8. ASSUME NEW m \in DOMAIN log', NEW n \in DOMAIN log', m # n,
             log'[m].k = "view", log'[n].k = "view"
      PROVE  Apart(log[m], log[n])'
  BY <1>8 DEF ViewInv, Apart
<1>9. ASSUME NEW n \in DOMAIN log', NEW x \in Sends, log'[n].k = "view", Flies(x)'
      PROVE  Apart(log[n], send[x].act)'
  <2>1. CASE x = s
    BY <1>2, <1>3, <1>9, <2>1 DEF Apart
  <2>2. CASE x # s
    BY <1>2, <1>4, <1>9, <2>2 DEF ViewInv, Apart
  <2> QED BY <2>1, <2>2
<1>10. ASSUME NEW r \in Sends, NEW x \in Sends, r # x, Flies(r)', Flies(x)'
       PROVE  Apart(send[r].act, send[x].act)'
  <2>1. CASE r = s
    BY <1>2, <1>4, <1>10, <2>1 DEF Apart
  <2>2. CASE x = s
    BY <1>2, <1>4, <1>10, <2>2 DEF Apart
  <2>3. CASE r # s /\ x # s
    BY <1>2, <1>4, <1>10, <2>3 DEF ViewInv, Apart
  <2> QED BY <2>1, <2>2, <2>3
<1> QED BY <1>6, <1>7, <1>8, <1>9, <1>10 DEF ViewInv

(* A view that was on its way becomes a line.                              *)
LEMMA ViewTaken ==
  ASSUME RecordInv, RecordInv', SendInv, ViewInv, NEW s \in Sends, Flies(s),
         NEW line \in Line, log' = Append(log, line),
         line.seq = send[s].act.seq, line.pid = send[s].act.pid, line.look = send[s].act.look,
         send' = [send EXCEPT ![s] = [st |-> "taken", act |-> line]],
         UNCHANGED <<seqSent, run>>
  PROVE  ViewInv'
<1>1. /\ Len(log) \in Nat /\ DOMAIN log = 1 .. Len(log) /\ DOMAIN log' = 1 .. Len(log) + 1
      /\ \A n \in DOMAIN log : log'[n] = log[n]
      /\ log'[Len(log) + 1] = line
  BY DEF RecordInv
<1>2. /\ ~Flies(s)'
      /\ \A x \in Sends : x # s => send'[x] = send[x]
  BY DEF SendInv, Flies
<1>3. \A x \in Sends : Flies(x)' => x # s /\ Flies(x) /\ send'[x].act = send[x].act
  BY <1>2 DEF Flies
<1>4. ASSUME NEW n \in DOMAIN log', log'[n].k = "view" PROVE Numbered(log[n])'
  <2>1. CASE n \in DOMAIN log
    BY <1>1, <1>4, <2>1 DEF ViewInv, Numbered, Charged
  <2>2. CASE n = Len(log) + 1
    <3>1. Numbered(send[s].act)
      BY DEF ViewInv
    <3> QED BY <1>1, <2>2, <3>1 DEF Numbered, Charged
  <2> QED BY <1>1, <2>1, <2>2
<1>5. ASSUME NEW x \in Sends, Flies(x)' PROVE Numbered(send[x].act)'
  BY <1>3, <1>5 DEF ViewInv, Numbered, Charged
<1>6. ASSUME NEW m \in DOMAIN log', NEW n \in DOMAIN log', m # n,
             log'[m].k = "view", log'[n].k = "view"
      PROVE  Apart(log[m], log[n])'
  <2>1. CASE m \in DOMAIN log /\ n \in DOMAIN log
    BY <1>1, <1>6, <2>1 DEF ViewInv, Apart
  <2>2. CASE m \in DOMAIN log /\ n = Len(log) + 1
    <3>1. Apart(log[m], send[s].act)
      BY <1>1, <1>6, <2>2 DEF ViewInv
    <3> QED BY <1>1, <2>2, <3>1 DEF Apart
  <2>3. CASE n \in DOMAIN log /\ m = Len(log) + 1
    <3>1. Apart(log[n], send[s].act)
      BY <1>1, <1>6, <2>3 DEF ViewInv
    <3> QED BY <1>1, <2>3, <3>1 DEF Apart
  <2> QED BY <1>1, <1>6, <2>1, <2>2, <2>3
<1>7. ASSUME NEW n \in DOMAIN log', NEW x \in Sends, log'[n].k = "view", Flies(x)'
      PROVE  Apart(log[n], send[x].act)'
  <2>1. CASE n \in DOMAIN log
    BY <1>1, <1>3, <1>7, <2>1 DEF ViewInv, Apart
  <2>2. CASE n = Len(log) + 1
    <3>1. Apart(send[s].act, send[x].act)
      BY <1>3, <1>7 DEF ViewInv
    <3> QED BY <1>1, <1>3, <1>7, <2>2, <3>1 DEF Apart
  <2> QED BY <1>1, <2>1, <2>2
<1>8. ASSUME NEW r \in Sends, NEW x \in Sends, r # x, Flies(r)', Flies(x)'
      PROVE  Apart(send[r].act, send[x].act)'
  BY <1>3, <1>8 DEF ViewInv, Apart
<1> QED BY <1>4, <1>5, <1>6, <1>7, <1>8 DEF ViewInv

LEMMA WatchedKeeps ==
  ASSUME PageInv, NEW w, run' = Watched(w)
  PROVE  \A q \in Pids : \A look \in Nat : Charged(q, look) => Charged(q, look)'
<1>1. run \in [Pids -> Runs]
  BY DEF PageInv
<1>2. ASSUME NEW q \in Pids
      PROVE  run'[q] = run[q] \/ (run'[q].since = 0 /\ run'[q].look = run[q].look)
  <2>1. run[q].look \in Nat
    BY <1>1 DEF Runs
  <2>2. LET r == [NotSeen EXCEPT !.look = run[q].look]
        IN  r.since = 0 /\ r.look = run[q].look
    BY <2>1 DEF NotSeen
  <2>3. run'[q] = IF q \in DOMAIN Posts(w) THEN run[q] ELSE [NotSeen EXCEPT !.look = run[q].look]
    BY DEF Watched
  <2> QED BY <2>2, <2>3
<1> QED BY <1>2 DEF Charged

LEMMA ViewNext ==
  ASSUME ClientInv, Next, RecordInv', Grows
  PROVE  ViewInv'
<1>0. RecordInv /\ PageInv /\ SendInv /\ ViewInv /\ seqSent \in Int
  BY DEF ClientInv, SendInv
<1>1. ASSUME \A n \in DOMAIN log' : log'[n].k = "view" => n \in DOMAIN log /\ log'[n] = log[n],
             \A s \in Sends : Flies(s)' => Flies(s) /\ send'[s].act = send[s].act,
             seqSent' = seqSent,
             \A q \in Pids : \A look \in Nat : Charged(q, look) => Charged(q, look)'
      PROVE  ViewInv'
  BY <1>0, <1>1, NoNewView
<1>2. log' = log => \A n \in DOMAIN log' : log'[n].k = "view" => n \in DOMAIN log /\ log'[n] = log[n]
  OBVIOUS
<1>3. send' = send => \A s \in Sends : Flies(s)' => Flies(s) /\ send'[s].act = send[s].act
  BY DEF Flies
<1>4. run' = run => \A q \in Pids : \A look \in Nat : Charged(q, look) => Charged(q, look)'
  BY DEF Charged
<1>5. ASSUME NEW line \in Line, line.k = "post", log' = Append(log, line)
      PROVE  \A n \in DOMAIN log' : log'[n].k = "view" => n \in DOMAIN log /\ log'[n] = log[n]
  <2>1. /\ Len(log) \in Nat /\ DOMAIN log = 1 .. Len(log) /\ DOMAIN log' = 1 .. Len(log) + 1
        /\ \A n \in DOMAIN log : log'[n] = log[n]
        /\ log'[Len(log) + 1] = line
    BY <1>0, <1>5 DEF RecordInv
  <2> QED BY <1>5, <2>1
<1>6. ASSUME NEW s \in Sends, NEW c, send' = [send EXCEPT ![s] = c],
             c.st # "signing" \/ c.act.k # "view"
      PROVE  \A x \in Sends : Flies(x)' => Flies(x) /\ send'[x].act = send[x].act
  <2>1. send'[s] = c /\ \A x \in Sends : x # s => send'[x] = send[x]
    BY <1>0, <1>6 DEF SendInv
  <2> QED BY <1>6, <2>1 DEF Flies
<1>7. CASE TheyPost
  <2> DEFINE line == [k |-> "post", as |-> Them, t |-> now, i |-> Len(log) + 1]
  <2>1. log' = Append(log, line) /\ UNCHANGED <<send, run, seqSent>> /\ Len(log) < MaxLines
    BY <1>7 DEF TheyPost, pageVars, meterVars
  <2>2. Len(log) + 1 \in 0 .. MaxLines /\ now \in Times
    BY <1>0, <2>1, ClientAssumption DEF RecordInv
  <2>3. line \in Line /\ line.k = "post"
    BY <2>2 DEF Line, PostLine
  <2> HIDE DEF line
  <2> QED BY <1>1, <1>3, <1>4, <1>5, <2>1, <2>3
<1>8. CASE Tick \/ \E a \in Accounts : AccountsChanged(a)
  <2>1. UNCHANGED <<log, send, run, seqSent>>
    BY <1>8 DEF Tick, AccountsChanged, pageVars, meterVars, hostVars
  <2> QED BY <1>1, <1>2, <1>3, <1>4, <2>1
<1>9. CASE Refresh
  <2>1. UNCHANGED <<log, send, seqSent>> /\ \E w : run' = Watched(w)
    BY <1>9 DEF Refresh, Shows, hostVars
  <2> QED BY <1>0, <1>1, <1>2, <1>3, <2>1, WatchedKeeps
<1>10. ASSUME NEW p \in Pids, Metering(p) PROVE ViewInv'
  <2>1. UNCHANGED <<log, send, seqSent>>
    BY <1>10 DEF Metering, Arrive, Leave, Interrupt, Spend, pageVars, hostVars
  <2>2. \A q \in Pids : \A look \in Nat : Charged(q, look) => Charged(q, look)'
    BY <1>0, <1>10, MeterIs
  <2> QED BY <1>1, <1>2, <1>3, <2>1, <2>2
<1>11. ASSUME NEW s \in Sends, Ends(s) PROVE ViewInv'
  <2>1. send' = [send EXCEPT ![s] = NoSend] /\ seqSent' = seqSent /\ log' = log
        /\ (run' = run \/ \E w : run' = Watched(w))
    BY <1>11 DEF Ends, NotSent, Fold, Refetch, AnswerLost, Refused, Shows, hostVars, meterVars
  <2>2. NoSend.st # "signing"
    BY DEF NoSend
  <2>3. \A q \in Pids : \A look \in Nat : Charged(q, look) => Charged(q, look)'
    BY <1>0, <1>4, <2>1, WatchedKeeps
  <2>4. \A x \in Sends : Flies(x)' => Flies(x) /\ send'[x].act = send[x].act
    BY <1>6, <2>1, <2>2
  <2> QED BY <1>1, <1>2, <2>1, <2>3, <2>4
<1>12. ASSUME NEW s \in Sends, Publish(s) PROVE ViewInv'
  <2>1. PICK act \in PostLine : send' = [send EXCEPT ![s] = [st |-> "signing", act |-> act]]
    BY <1>0, <1>12, PublishIs
  <2> DEFINE c == [st |-> "signing", act |-> act]
  <2>2. c.act.k # "view"
    BY DEF PostLine
  <2> HIDE DEF c
  <2>3. \A x \in Sends : Flies(x)' => Flies(x) /\ send'[x].act = send[x].act
    <3>1. send' = [send EXCEPT ![s] = c]
      BY <2>1 DEF c
    <3> QED BY <1>6, <2>2, <3>1
  <2>4. UNCHANGED <<log, run, seqSent>>
    BY <1>12 DEF Publish, hostVars, meterVars
  <2> QED BY <1>1, <1>2, <1>4, <2>3, <2>4
<1>13. ASSUME NEW s \in Sends, NEW p \in Pids, Bill(p, s) PROVE ViewInv'
  <2>1. /\ seqSent' = seqSent + 1 /\ seqSent' \in Nat /\ log' = log
        /\ ~Charged(p, run[p].look) /\ Charged(p, run[p].look)'
    BY <1>13, BillIs DEF hostVars
  <2>2. \A q \in Pids : \A look \in Nat : Charged(q, look) => Charged(q, look)'
    BY <1>0, <1>13, MeterIs
  <2>3. CASE send' = send
    <3>1. seqSent <= seqSent' /\ seqSent' \in Int
      BY <1>0, <2>1
    <3> QED BY <1>0, <1>2, <1>3, <2>1, <2>2, <2>3, <3>1, NoNewView
  <2>4. CASE send' # send
    <3>1. PICK act \in ViewLine :
            /\ act.pid = p /\ act.seq = seqSent' /\ act.look = run[p].look
            /\ send' = [send EXCEPT ![s] = [st |-> "signing", act |-> act]]
      BY <1>13, <2>4, BillIs
    <3>2. ~Charged(act.pid, act.look) /\ Charged(act.pid, act.look)'
      <4>1. run'[p].look = run[p].look
        <5>1. run' = [run EXCEPT ![p].spent = TRUE] /\ run \in [Pids -> Runs]
          BY <1>0, <1>13 DEF Bill, PageInv
        <5> QED BY <5>1 DEF Runs
      <4> QED BY <2>1, <3>1, <4>1 DEF Charged
    <3> QED BY <1>0, <2>1, <2>2, <3>1, <3>2, OneNewView
  <2> QED BY <2>3, <2>4
<1>14. ASSUME NEW s \in Sends, NEW a \in Accounts, Taken(s, a) PROVE ViewInv'
  <2>1. PICK line \in Line :
          /\ log' = Append(log, line)
          /\ send' = [send EXCEPT ![s] = [st |-> "taken", act |-> line]]
          /\ line.k = send[s].act.k
          /\ line.k = "view" => /\ line.seq = send[s].act.seq
                                /\ line.pid = send[s].act.pid
                                /\ line.look = send[s].act.look
    BY <1>0, <1>14, TakenIs
  <2>2. UNCHANGED <<seqSent, run>> /\ send[s].st = "signing"
    BY <1>14 DEF Taken, Delivered, meterVars
  <2>3. CASE line.k = "view"
    <3>1. Flies(s)
      BY <2>1, <2>2, <2>3 DEF Flies
    <3> QED BY <1>0, <2>1, <2>2, <2>3, <3>1, ViewTaken
  <2>4. CASE line.k # "view"
    <3>1. line.k = "post"
      BY <2>4, LineParts
    <3> DEFINE c == [st |-> "taken", act |-> line]
    <3>2. c.st # "signing"
      OBVIOUS
    <3>3. send' = [send EXCEPT ![s] = c]
      BY <2>1
    <3> HIDE DEF c
    <3>4. \A x \in Sends : Flies(x)' => Flies(x) /\ send'[x].act = send[x].act
      BY <1>6, <3>2, <3>3
    <3> QED BY <1>1, <1>4, <1>5, <2>1, <2>2, <3>1, <3>4
  <2> QED BY <2>3, <2>4
<1> QED BY <1>7, <1>8, <1>9, <1>10, <1>11, <1>12, <1>13, <1>14 DEF Next, Sending, Ends
-----------------------------------------------------------------------------
LEMMA ClientInvInit == Init => ClientInv
<1> SUFFICES ASSUME Init PROVE ClientInv
  OBVIOUS
<1> DEFINE first == [k |-> "post", as |-> Them, t |-> 1, i |-> 1]
<1>0. 1 \in Times /\ 1 \in 0 .. MaxLines /\ 1 \in 1 .. MaxLines /\ 0 \in 0 .. MaxLines
      /\ 0 \in 0 .. MaxTime /\ 0 \in 0 .. MaxSwitches
  BY ClientAssumption DEF Times
<1>1. first \in Line /\ first.i = 1 /\ first.t = 1 /\ first.k = "post"
  BY <1>0 DEF Line, PostLine
<1>2. log = <<first>>
  BY DEF Init
<1> HIDE DEF first
<1>3. log \in Seq(Line) /\ Len(log) = 1 /\ DOMAIN log = {1} /\ log[1] = first
  BY <1>1, <1>2
<1>4. RecordInv
  BY <1>0, <1>1, <1>3 DEF Init, RecordInv
<1>5. PageInv
  <2>1. PartOfRecord(world)
    BY DEF Init, PartOfRecord
  <2>2. DOMAIN Posts(<<>>) = {}
    <3> DEFINE none == <<>>
    <3>1. Len(none) \in Nat /\ \A n \in 1 .. Len(none) : none[n].k = "post" => none[n] \in {}
      OBVIOUS
    <3> HIDE DEF none
    <3>2. Posts(none) \in Seq({})
      BY <3>1, PostsTyped
    <3>3. \A x \in Seq({}) : DOMAIN x = {}
      OBVIOUS
    <3> QED BY <3>2, <3>3 DEF none
  <2>3. NotSeen \in Runs
    BY <1>0 DEF NotSeen, Runs
  <2> QED BY <1>0, <2>1, <2>2, <2>3 DEF Init, PageInv
<1>6. SendInv
  BY DEF Init, SendInv, Calls, NoSend
<1>7. ViewInv
  <2>1. \A s \in Sends : ~Flies(s)
    BY DEF Init, Flies, NoSend
  <2> QED BY <1>1, <1>3, <2>1 DEF ViewInv
<1> QED BY <1>4, <1>5, <1>6, <1>7 DEF ClientInv

LEMMA ClientInvNext == ClientInv /\ [Next]_vars => ClientInv'
<1> SUFFICES ASSUME ClientInv, [Next]_vars PROVE ClientInv'
  OBVIOUS
<1>1. CASE Next
  <2>1. RecordInv' /\ Grows
    BY <1>1, RecordNext
  <2>2. PageInv' /\ SendInv' /\ ViewInv'
    BY <1>1, <2>1, PageNext, SendNext, ViewNext
  <2> QED BY <2>1, <2>2 DEF ClientInv
<1>2. CASE UNCHANGED vars
  BY <1>2 DEF ClientInv, RecordInv, PageInv, PartOfRecord, SendInv, ViewInv, Numbered, Charged,
              Flies, vars, hostVars, meterVars, pageVars
<1> QED BY <1>1, <1>2

LEMMA ClientInvHolds == Spec => []ClientInv
BY ClientInvInit, ClientInvNext, PTL DEF Spec

LEMMA InvGivesPage == ClientInv => PageFollowsRecord
<1> SUFFICES ASSUME ClientInv PROVE PageFollowsRecord
  OBVIOUS
<1>0. RecordInv /\ PageInv /\ SendInv /\ ViewInv
  BY DEF ClientInv
<1>1. TypeOK
  <2>1. \A s \in Sends : send[s].st \in {"idle", "signing", "taken"}
    BY <1>0 DEF SendInv, Calls, NoSend
  <2>2. \A n \in DOMAIN log : log[n].i = n
    BY <1>0 DEF RecordInv
  <2>3. \A n \in DOMAIN world : world[n] = log[world[n].i]
    BY <1>0 DEF PageInv, PartOfRecord
  <2>4. now \in 1 .. MaxTime /\ seqSent \in Nat \cup {-1}
    BY <1>0 DEF RecordInv, SendInv, Times
  <2> QED BY <1>0, <2>1, <2>2, <2>3, <2>4 DEF TypeOK, PageInv, Runs
<1>2. AppliedOnce
  BY <1>0 DEF AppliedOnce, PageInv, PartOfRecord
<1>3. SequenceNeverReused
  BY <1>0 DEF SequenceNeverReused, Views, ViewInv, Flies, Apart
<1> QED BY <1>1, <1>2, <1>3 DEF PageFollowsRecord

LEMMA InvGivesCharge == ClientInv => OneChargePerLook
<1> SUFFICES ASSUME ClientInv, NEW m \in DOMAIN log, NEW n \in DOMAIN log,
                    m < n, {log[m].k, log[n].k} = {"view"}, log[m].pid = log[n].pid
             PROVE  log[m].look # log[n].look
  BY DEF OneChargePerLook
<1>1. m # n /\ log[m].k = "view" /\ log[n].k = "view"
  <2>1. m \in Nat /\ n \in Nat
    BY DEF ClientInv, RecordInv
  <2> QED BY <2>1
<1> QED BY <1>1 DEF ClientInv, ViewInv, Apart

(* However answers, refreshes from records of any age and changes of the   *)
(* account overtake each other, the page's world is a part of the record   *)
(* in its order, its cards are that world's, and no view it sends reuses a *)
(* sequence number (app/app.mjs refresh, send, bill).                      *)
THEOREM PageStaysWithRecord == Spec => []PageFollowsRecord
BY ClientInvHolds, InvGivesPage, PTL

(* One look at a picture is never charged twice, though the page forgets   *)
(* with every reseeded ledger what it billed (app/app.mjs createViewMeter).*)
THEOREM LookIsChargedOnce == Spec => []OneChargePerLook
BY ClientInvHolds, InvGivesCharge, PTL
=============================================================================
