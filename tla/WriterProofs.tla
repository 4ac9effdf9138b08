---------------------------- MODULE WriterProofs ----------------------------
(***************************************************************************)
(* That a host is its log, for every value of the constants: its world is  *)
(* the replay of its lines, its pictures are those of the unsettled posts, *)
(* and what it promises of the log it keeps, however requests, explorers,  *)
(* failing writes and crashes interleave.                                  *)
(***************************************************************************)
EXTENDS Writer, AccountingTheorems
-----------------------------------------------------------------------------
(* What replay computes after each of the first m lines.                   *)
RunsTo(lines, m, w) ==
  w = [i \in 0 .. m |-> IF i = 0 THEN L!EmptyWorld ELSE L!Step(w[i - 1], lines[i])]

Along(m, v) == v = [i \in 0 .. m |-> v[i]]

LEMMA RunAt ==
  ASSUME NEW lines, NEW m \in Nat, NEW w, RunsTo(lines, m, w)
  PROVE  /\ w[0] = L!EmptyWorld
         /\ \A i \in 1 .. m : w[i] = L!Step(w[i - 1], lines[i])
BY DEF RunsTo

LEMMA RunIs ==
  ASSUME NEW lines, NEW m \in Nat, NEW v, Along(m, v),
         v[0] = L!EmptyWorld, \A i \in 1 .. m : v[i] = L!Step(v[i - 1], lines[i])
  PROVE  RunsTo(lines, m, v)
<1>1. \A i \in 0 .. m : v[i] = IF i = 0 THEN L!EmptyWorld ELSE L!Step(v[i - 1], lines[i])
  OBVIOUS
<1>2. [i \in 0 .. m |-> v[i]]
        = [i \in 0 .. m |-> IF i = 0 THEN L!EmptyWorld ELSE L!Step(v[i - 1], lines[i])]
  BY <1>1
<1> QED BY <1>2 DEF RunsTo, Along

LEMMA RunLonger ==
  ASSUME NEW lines, NEW m \in Nat, NEW w, RunsTo(lines, m, w)
  PROVE  \E v : RunsTo(lines, m + 1, v)
<1> DEFINE v == [i \in 0 .. m + 1 |-> IF i <= m THEN w[i] ELSE L!Step(w[m], lines[m + 1])]
<1>1. w[0] = L!EmptyWorld /\ \A i \in 1 .. m : w[i] = L!Step(w[i - 1], lines[i])
  BY RunAt
<1>2. v[0] = L!EmptyWorld
  BY <1>1
<1>3. ASSUME NEW i \in 1 .. m + 1 PROVE v[i] = L!Step(v[i - 1], lines[i])
  <2>1. CASE i \in 1 .. m
    <3>1. v[i] = w[i] /\ v[i - 1] = w[i - 1]
      BY <2>1
    <3> QED BY <1>1, <2>1, <3>1
  <2>2. CASE i = m + 1
    <3>1. v[i] = L!Step(w[m], lines[i]) /\ v[i - 1] = w[m]
      BY <2>2
    <3> QED BY <3>1
  <2> QED BY <2>1, <2>2
<1>4. Along(m + 1, v)
  BY DEF Along
<1> HIDE DEF v
<1>5. RunsTo(lines, m + 1, v)
  BY <1>2, <1>3, <1>4, RunIs
<1> QED BY <1>5

LEMMA ReplayExists ==
  ASSUME NEW lines, NEW n \in Nat
  PROVE  \E w : RunsTo(lines, n, w)
<1> DEFINE A == {m \in Nat : \E w : RunsTo(lines, m, w)}
<1>1. 0 \in A
  <2> DEFINE v == [i \in 0 .. 0 |-> L!EmptyWorld]
  <2>1. Along(0, v) /\ v[0] = L!EmptyWorld /\ \A i \in 1 .. 0 : v[i] = L!Step(v[i - 1], lines[i])
    BY DEF Along
  <2> HIDE DEF v
  <2>2. RunsTo(lines, 0, v)
    BY <2>1, RunIs
  <2> QED BY <2>2
<1>2. ASSUME NEW m \in Nat, m \in A PROVE m + 1 \in A
  BY <1>2, RunLonger
<1> HIDE DEF A
<1>3. n \in A
  BY <1>1, <1>2, CountUp
<1> QED BY <1>3 DEF A

(* Two replays agree as far as their lines do.                             *)
LEMMA RunsAgree ==
  ASSUME NEW l1, NEW l2, NEW m \in Nat, NEW n \in Nat, m <= n,
         NEW w, NEW v, RunsTo(l1, m, w), RunsTo(l2, n, v),
         \A i \in 1 .. m : l1[i] = l2[i]
  PROVE  w[m] = v[m]
<1> DEFINE A == {k \in Nat : k <= m => w[k] = v[k]}
<1>1. 0 \in A
  BY RunAt
<1>2. ASSUME NEW k \in Nat, k \in A PROVE k + 1 \in A
  <2> SUFFICES ASSUME k + 1 <= m PROVE w[k + 1] = v[k + 1]
    OBVIOUS
  <2>1. w[k] = v[k] /\ l1[k + 1] = l2[k + 1]
    BY <1>2
  <2>2. w[k + 1] = L!Step(w[(k + 1) - 1], l1[k + 1]) /\ v[k + 1] = L!Step(v[(k + 1) - 1], l2[k + 1])
    <3>1. k + 1 \in 1 .. m /\ k + 1 \in 1 .. n
      OBVIOUS
    <3> QED BY <3>1, RunAt
  <2> QED BY <2>1, <2>2
<1> HIDE DEF A
<1>3. m \in A
  BY <1>1, <1>2, CountUp
<1> QED BY <1>3 DEF A

LEMMA WorldIsRun ==
  ASSUME NEW lines, Len(lines) \in Nat
  PROVE  \E w : RunsTo(lines, Len(lines), w) /\ L!WorldOf(lines) = w[Len(lines)]
<1> DEFINE after == CHOOSE w : RunsTo(lines, Len(lines), w)
<1>1. RunsTo(lines, Len(lines), after)
  BY ReplayExists
<1>2. L!WorldOf(lines) = after[Len(lines)]
  BY DEF L!WorldOf, RunsTo
<1> QED BY <1>1, <1>2

(* One line more is one step more.                                         *)
LEMMA WorldOfMore ==
  ASSUME NEW S, NEW lines \in Seq(S), NEW act \in S
  PROVE  L!WorldOf(Append(lines, act)) = L!Step(L!WorldOf(lines), act)
<1> DEFINE more == Append(lines, act)
           n    == Len(lines)
<1>1. n \in Nat /\ Len(more) = n + 1 /\ more[n + 1] = act /\ \A i \in 1 .. n : more[i] = lines[i]
  OBVIOUS
<1> HIDE DEF more, n
<1>2. PICK w : RunsTo(lines, n, w) /\ L!WorldOf(lines) = w[n]
  BY <1>1, WorldIsRun DEF n
<1>3. PICK v : RunsTo(more, n + 1, v) /\ L!WorldOf(more) = v[n + 1]
  BY <1>1, WorldIsRun
<1>4. v[n + 1] = L!Step(v[(n + 1) - 1], more[n + 1])
  BY <1>1, <1>3, RunAt
<1>5. v[n] = w[n]
  <2>1. n <= n + 1 /\ n + 1 \in Nat /\ \A i \in 1 .. n : lines[i] = more[i]
    BY <1>1
  <2> QED BY <1>1, <1>2, <1>3, <2>1, RunsAgree
<1>6. L!WorldOf(more) = L!Step(L!WorldOf(lines), act)
  BY <1>1, <1>2, <1>3, <1>4, <1>5
<1> QED BY <1>6 DEF more

LEMMA WorldOfNone == L!WorldOf(<<>>) = L!EmptyWorld
<1>1. PICK w : RunsTo(<<>>, Len(<<>>), w) /\ L!WorldOf(<<>>) = w[Len(<<>>)]
  BY WorldIsRun
<1>2. Len(<<>>) = 0
  OBVIOUS
<1> QED BY <1>1, <1>2, RunAt
-----------------------------------------------------------------------------
(* The lines that parse, line by line.                                     *)
Line == L!Acts \cup {Garbage}

Reads(lines, g) ==
  g = [i \in 0 .. Len(lines) |->
        IF i = 0 THEN <<>>
        ELSE IF lines[i] = Garbage THEN g[i - 1] ELSE Append(g[i - 1], lines[i])]

LEMMA ReadAt ==
  ASSUME NEW lines, NEW g, Reads(lines, g), Len(lines) \in Nat
  PROVE  /\ g[0] = <<>>
         /\ \A i \in 1 .. Len(lines) :
              g[i] = IF lines[i] = Garbage THEN g[i - 1] ELSE Append(g[i - 1], lines[i])
<1> DEFINE n == Len(lines)
           next(i) == IF lines[i] = Garbage THEN g[i - 1] ELSE Append(g[i - 1], lines[i])
<1>1. g = [i \in 0 .. n |-> IF i = 0 THEN <<>> ELSE next(i)]
  BY DEF Reads
<1> HIDE DEF next
<1>2. n \in Nat
  OBVIOUS
<1> HIDE DEF n
<1>3. g[0] = <<>> /\ \A i \in 1 .. n : g[i] = next(i)
  BY <1>1, <1>2
<1> QED BY <1>3 DEF next, n

LEMMA ReadExists ==
  ASSUME NEW lines \in Seq(Line)
  PROVE  \E g \in [0 .. Len(lines) -> Seq(L!Acts)] : Reads(lines, g)
<1> DEFINE n    == Len(lines)
           E    == Seq(L!Acts)
           step == [i \in 1 .. n |-> [s \in E |-> IF lines[i] = Garbage THEN s ELSE Append(s, lines[i])]]
<1>1. n \in Nat /\ <<>> \in E /\ \A i \in 1 .. n : lines[i] \in Line
  OBVIOUS
<1>2. step \in [1 .. n -> [E -> E]]
  <2>1. ASSUME NEW i \in 1 .. n, NEW s \in E
        PROVE  (IF lines[i] = Garbage THEN s ELSE Append(s, lines[i])) \in E
    BY <1>1 DEF Line
  <2> QED BY <2>1
<1>3. \A i \in 1 .. n : \A s \in E :
        step[i][s] = IF lines[i] = Garbage THEN s ELSE Append(s, lines[i])
  OBVIOUS
<1> HIDE DEF n, E, step
<1>4. PICK g \in [0 .. n -> E] : Run(n, <<>>, step, g)
  BY <1>1, <1>2, RunExists
<1>5. ASSUME NEW i \in 0 .. n
      PROVE  g[i] = IF i = 0 THEN <<>>
                    ELSE IF lines[i] = Garbage THEN g[i - 1] ELSE Append(g[i - 1], lines[i])
  <2>1. g[i] = IF i = 0 THEN <<>> ELSE step[i][g[i - 1]]
    BY <1>4 DEF Run
  <2>2. CASE i = 0
    BY <2>1, <2>2
  <2>3. CASE i # 0
    <3>1. i \in 1 .. n /\ g[i - 1] \in E
      BY <1>1, <2>3
    <3> QED BY <1>3, <2>1, <2>3, <3>1
  <2> QED BY <2>2, <2>3
<1>6. Reads(lines, g)
  BY <1>5 DEF Reads, n
<1> QED BY <1>6 DEF n, E

LEMMA ReadIs ==
  ASSUME NEW lines \in Seq(Line)
  PROVE  \E g \in [0 .. Len(lines) -> Seq(L!Acts)] :
           Reads(lines, g) /\ Readable(lines) = g[Len(lines)]
<1> DEFINE upto == CHOOSE g : Reads(lines, g)
<1>1. Reads(lines, upto)
  BY ReadExists
<1>2. Readable(lines) = upto[Len(lines)]
  BY DEF Readable, Reads
<1>3. PICK g \in [0 .. Len(lines) -> Seq(L!Acts)] : Reads(lines, g)
  BY ReadExists
<1> HIDE DEF upto
<1> DEFINE A == {k \in Nat : k <= Len(lines) => upto[k] = g[k]}
<1>4. Len(lines) \in Nat
  OBVIOUS
<1>5. 0 \in A
  BY <1>1, <1>3, <1>4, ReadAt
<1>6. ASSUME NEW k \in Nat, k \in A PROVE k + 1 \in A
  <2> SUFFICES ASSUME k + 1 <= Len(lines) PROVE upto[k + 1] = g[k + 1]
    OBVIOUS
  <2>1. upto[k] = g[k] /\ k + 1 \in 1 .. Len(lines) /\ (k + 1) - 1 = k
    BY <1>4, <1>6
  <2>2. /\ upto[k + 1] = IF lines[k + 1] = Garbage THEN upto[(k + 1) - 1]
                         ELSE Append(upto[(k + 1) - 1], lines[k + 1])
        /\ g[k + 1] = IF lines[k + 1] = Garbage THEN g[(k + 1) - 1]
                      ELSE Append(g[(k + 1) - 1], lines[k + 1])
    BY <1>1, <1>3, <1>4, <2>1, ReadAt
  <2> QED BY <2>1, <2>2
<1> HIDE DEF A
<1>7. Len(lines) \in A
  BY <1>4, <1>5, <1>6, CountUp
<1>8. upto[Len(lines)] = g[Len(lines)]
  BY <1>7 DEF A
<1> QED BY <1>2, <1>3, <1>8

LEMMA ReadableTyped == ASSUME NEW lines \in Seq(Line) PROVE Readable(lines) \in Seq(L!Acts)
<1>1. Len(lines) \in 0 .. Len(lines)
  OBVIOUS
<1> QED BY <1>1, ReadIs

(* A line more is read if it parses.                                       *)
LEMMA ReadableMore ==
  ASSUME NEW lines \in Seq(Line), NEW line \in Line
  PROVE  Readable(Append(lines, line))
           = IF line = Garbage THEN Readable(lines) ELSE Append(Readable(lines), line)
<1> DEFINE more == Append(lines, line)
           n    == Len(lines)
<1>1. /\ n \in Nat /\ Len(more) = n + 1 /\ more[n + 1] = line /\ more \in Seq(Line)
      /\ \A i \in 1 .. n : more[i] = lines[i]
  OBVIOUS
<1>2. PICK g : Reads(lines, g) /\ Readable(lines) = g[n]
  BY ReadIs
<1>3. PICK h : Reads(more, h) /\ Readable(more) = h[Len(more)]
  BY <1>1, ReadIs
<1> HIDE DEF more
<1> DEFINE A == {k \in Nat : k <= n => g[k] = h[k]}
<1>4. 0 \in A
  BY <1>1, <1>2, <1>3, ReadAt
<1>5. ASSUME NEW k \in Nat, k \in A PROVE k + 1 \in A
  <2> SUFFICES ASSUME k + 1 <= n PROVE g[k + 1] = h[k + 1]
    OBVIOUS
  <2>1. /\ g[k] = h[k] /\ k + 1 \in 1 .. n /\ k + 1 \in 1 .. Len(more) /\ (k + 1) - 1 = k
        /\ more[k + 1] = lines[k + 1]
    BY <1>1, <1>5
  <2>2. /\ g[k + 1] = IF lines[k + 1] = Garbage THEN g[(k + 1) - 1]
                      ELSE Append(g[(k + 1) - 1], lines[k + 1])
        /\ h[k + 1] = IF more[k + 1] = Garbage THEN h[(k + 1) - 1]
                      ELSE Append(h[(k + 1) - 1], more[k + 1])
    BY <1>1, <1>2, <1>3, <2>1, ReadAt
  <2> QED BY <2>1, <2>2
<1> HIDE DEF A
<1>6. n \in A
  BY <1>1, <1>4, <1>5, CountUp
<1>7. g[n] = h[n]
  BY <1>6 DEF A
<1>8. h[n + 1] = IF line = Garbage THEN h[n] ELSE Append(h[n], line)
  <2>1. n + 1 \in 1 .. Len(more) /\ (n + 1) - 1 = n /\ Len(more) \in Nat
    BY <1>1
  <2> QED BY <1>1, <1>3, <2>1, ReadAt
<1> QED BY <1>1, <1>2, <1>3, <1>7, <1>8 DEF more

LEMMA ReadableNone == Readable(<<>>) = <<>>
<1>1. <<>> \in Seq(Line) /\ Len(<<>>) = 0
  OBVIOUS
<1>2. PICK g : Reads(<<>>, g) /\ Readable(<<>>) = g[Len(<<>>)]
  BY <1>1, ReadIs
<1> QED BY <1>1, <1>2, ReadAt
-----------------------------------------------------------------------------
(* Lines, acts and the worlds they make.                                   *)
Picture == [cid : Cids, live : BOOLEAN]
World   == [claimed : SUBSET Outs, posts : Seq(Picture), lastAt : Nat]

LEMMA ActParts ==
  ASSUME NEW act \in L!Acts
  PROVE  /\ act.sig \in Reqs /\ act.t \in Nat /\ act # NoAct /\ act # Garbage
         /\ act.k \in {"claim", "post", "settle", "note"}
         /\ act.k = "claim" => act.ref \in Outs
         /\ act.k = "post" => act.ref \in Cids
<1>1. /\ act.sig \in Reqs /\ act.t \in Nat /\ act.k \in {"claim", "post", "settle", "note"}
      /\ act.k = "claim" => act.ref \in Outs
      /\ act.k = "post" => act.ref \in Cids
  BY WriterAssumption DEF L!Acts
<1>2. act # NoAct
  BY <1>1 DEF NoAct
<1>3. act # Garbage
  <2>1. "k" \in DOMAIN act
    BY DEF L!Acts
  <2>2. DOMAIN Garbage = {}
    BY DEF Garbage
  <2> QED BY <2>1, <2>2
<1> QED BY <1>1, <1>2, <1>3

(* One unsettled post for each picture.                                    *)
OnePicture(w) ==
  \A p, q \in DOMAIN w.posts :
    w.posts[p].live /\ w.posts[q].live /\ w.posts[p].cid = w.posts[q].cid => p = q

(* Every picture an unsettled post shows is in the store.                  *)
Pictured(w, pictures) == \A p \in DOMAIN w.posts : w.posts[p].live => w.posts[p].cid \in pictures

(* What a line that is taken does to the world.                            *)
LEMMA StepKeepsWorld ==
  ASSUME NEW w \in World, NEW act \in L!Acts, L!Accepts(w, act), OnePicture(w),
         NEW pictures, Pictured(w, pictures), act.k = "post" => act.ref \in pictures
  PROVE  /\ L!Step(w, act) \in World /\ OnePicture(L!Step(w, act))
         /\ Pictured(L!Step(w, act), pictures)
         /\ act.k = "settle" => /\ act.ref \in DOMAIN L!Step(w, act).posts
                                /\ ~L!Unsettled(L!Step(w, act), L!Step(w, act).posts[act.ref].cid)
<1> DEFINE v == L!Step(w, act)
<1>1. /\ w.claimed \subseteq Outs /\ w.posts \in Seq(Picture) /\ w.lastAt \in Nat
  BY DEF World
<1>2. v = L!Applied(w, act)
  BY DEF L!Step
<1>3. CASE act.k = "post"
  <2> DEFINE new == [cid |-> act.ref, live |-> TRUE]
  <2>1. v = [claimed |-> w.claimed, posts |-> Append(w.posts, new), lastAt |-> act.t]
    BY <1>2, <1>3 DEF L!Applied
  <2>2. new \in Picture /\ new.cid = act.ref /\ new.live
    BY <1>3, ActParts DEF Picture
  <2> HIDE DEF new, v
  <2>3. /\ v.posts \in Seq(Picture) /\ DOMAIN v.posts = DOMAIN w.posts \cup {Len(w.posts) + 1}
        /\ \A p \in DOMAIN w.posts : v.posts[p] = w.posts[p]
        /\ v.posts[Len(w.posts) + 1] = new
    BY <1>1, <2>1, <2>2
  <2>4. v \in World
    BY <1>1, <2>1, <2>3, ActParts DEF World
  <2>5. \A p \in DOMAIN w.posts : w.posts[p].live => w.posts[p].cid # act.ref
    BY <1>3 DEF L!Accepts, L!Unsettled
  <2>6. OnePicture(v)
    BY <2>2, <2>3, <2>5 DEF OnePicture
  <2>7. Pictured(v, pictures)
    BY <1>3, <2>2, <2>3 DEF Pictured
  <2> QED BY <1>3, <2>4, <2>6, <2>7 DEF v
<1>4. CASE act.k = "settle"
  <2> DEFINE r == act.ref
             p1 == [w.posts[r] EXCEPT !.live = FALSE]
  <2>1. r \in DOMAIN w.posts /\ w.posts[r].live
    BY <1>4 DEF L!Accepts
  <2>2. w.posts[r] \in Picture
    BY <1>1, <2>1
  <2>3. p1 \in Picture /\ p1.live = FALSE /\ p1.cid = w.posts[r].cid
    BY <2>2 DEF Picture
  <2>4. v = [claimed |-> w.claimed, posts |-> [w.posts EXCEPT ![r] = p1], lastAt |-> act.t]
    BY <1>2, <1>4 DEF L!Applied
  <2> HIDE DEF p1, v, r
  <2>5. /\ v.posts \in Seq(Picture) /\ DOMAIN v.posts = DOMAIN w.posts /\ v.posts[r] = p1
        /\ \A p \in DOMAIN w.posts : p # r => v.posts[p] = w.posts[p]
    BY <1>1, <2>1, <2>3, <2>4
  <2>6. v \in World
    BY <1>1, <2>4, <2>5, ActParts DEF World
  <2>7. OnePicture(v)
    BY <2>3, <2>5 DEF OnePicture
  <2>8. Pictured(v, pictures)
    BY <2>3, <2>5 DEF Pictured
  <2>9. ~L!Unsettled(v, v.posts[r].cid)
    BY <2>1, <2>3, <2>5 DEF L!Unsettled, OnePicture
  <2> QED BY <2>1, <2>5, <2>6, <2>7, <2>8, <2>9 DEF v, r
<1>5. CASE act.k \in {"claim", "note"}
  <2>1. v = [claimed |-> IF act.k = "claim" THEN w.claimed \cup {act.ref} ELSE w.claimed,
             posts |-> w.posts, lastAt |-> act.t]
    BY <1>2, <1>5 DEF L!Applied
  <2> HIDE DEF v
  <2>2. v.posts = w.posts
    BY <2>1
  <2>3. (IF act.k = "claim" THEN w.claimed \cup {act.ref} ELSE w.claimed) \subseteq Outs
    BY <1>1, ActParts
  <2>4. v \in World
    BY <1>1, <2>1, <2>3, ActParts DEF World
  <2>5. OnePicture(v) /\ Pictured(v, pictures)
    BY <2>2 DEF OnePicture, Pictured
  <2> QED BY <1>5, <2>4, <2>5 DEF v
<1> QED BY <1>3, <1>4, <1>5, ActParts
-----------------------------------------------------------------------------
(* The queue.                                                              *)
LEMMA Dequeued ==
  ASSUME NEW S, NEW q \in Seq(S), q # <<>>, IsInjective(q)
  PROVE  /\ Head(q) \in S /\ Head(q) \in Range(q)
         /\ Tail(q) \in Seq(S) /\ IsInjective(Tail(q))
         /\ Range(Tail(q)) = Range(q) \ {Head(q)}
<1>1. /\ Len(q) \in Nat \ {0} /\ Head(q) = q[1] /\ Head(q) \in S
      /\ Tail(q) \in Seq(S) /\ Len(Tail(q)) = Len(q) - 1
      /\ DOMAIN q = 1 .. Len(q) /\ DOMAIN Tail(q) = 1 .. Len(q) - 1
      /\ \A i \in 1 .. Len(q) - 1 : Tail(q)[i] = q[i + 1]
  OBVIOUS
<1>2. \A i, j \in 1 .. Len(q) : q[i] = q[j] => i = j
  BY <1>1 DEF IsInjective
<1>3. IsInjective(Tail(q))
  <2> SUFFICES ASSUME NEW i \in 1 .. Len(q) - 1, NEW j \in 1 .. Len(q) - 1,
                      Tail(q)[i] = Tail(q)[j]
               PROVE  i = j
    BY <1>1 DEF IsInjective
  <2>1. i + 1 \in 1 .. Len(q) /\ j + 1 \in 1 .. Len(q) /\ q[i + 1] = q[j + 1]
    BY <1>1
  <2>2. i + 1 = j + 1
    BY <1>2, <2>1
  <2> QED BY <2>2
<1>4. Head(q) \in Range(q)
  BY <1>1 DEF Range
<1>5. ASSUME NEW x \in Range(Tail(q)) PROVE x \in Range(q) /\ x # Head(q)
  <2>1. PICK i \in 1 .. Len(q) - 1 : x = Tail(q)[i]
    BY <1>1, <1>5 DEF Range
  <2>2. x = q[i + 1] /\ i + 1 \in 1 .. Len(q) /\ i + 1 # 1 /\ 1 \in 1 .. Len(q)
    BY <1>1, <2>1
  <2> QED BY <1>1, <1>2, <2>2 DEF Range
<1>6. ASSUME NEW x \in Range(q), x # Head(q) PROVE x \in Range(Tail(q))
  <2>1. PICK i \in 1 .. Len(q) : x = q[i]
    BY <1>1, <1>6 DEF Range
  <2>2. i # 1 /\ i - 1 \in 1 .. Len(q) - 1 /\ (i - 1) + 1 = i
    BY <1>1, <1>6, <2>1
  <2>3. Tail(q)[i - 1] = x
    BY <1>1, <2>1, <2>2
  <2> QED BY <1>1, <2>2, <2>3 DEF Range
<1> QED BY <1>1, <1>3, <1>4, <1>5, <1>6

LEMMA Enqueued ==
  ASSUME NEW S, NEW q \in Seq(S), IsInjective(q), NEW r \in S, r \notin Range(q)
  PROVE  /\ Append(q, r) \in Seq(S) /\ IsInjective(Append(q, r))
         /\ Range(Append(q, r)) = Range(q) \cup {r}
         /\ q # <<>> => Append(q, r) # <<>> /\ Head(Append(q, r)) = Head(q)
<1> DEFINE z == Append(q, r)
<1>1. /\ Len(q) \in Nat /\ z \in Seq(S) /\ DOMAIN q = 1 .. Len(q)
      /\ DOMAIN z = 1 .. Len(q) + 1 /\ z[Len(q) + 1] = r /\ \A i \in 1 .. Len(q) : z[i] = q[i]
  OBVIOUS
<1>2. q # <<>> => z # <<>> /\ Head(z) = Head(q)
  OBVIOUS
<1> HIDE DEF z
<1>3. \A i \in 1 .. Len(q) : q[i] # r
  BY <1>1 DEF Range
<1>4. \A i, j \in 1 .. Len(q) : q[i] = q[j] => i = j
  BY <1>1 DEF IsInjective
<1>5. IsInjective(z)
  <2> SUFFICES ASSUME NEW i \in 1 .. Len(q) + 1, NEW j \in 1 .. Len(q) + 1, z[i] = z[j]
               PROVE  i = j
    BY <1>1 DEF IsInjective
  <2>1. \A k \in 1 .. Len(q) + 1 : k \in 1 .. Len(q) \/ k = Len(q) + 1
    BY <1>1
  <2> QED BY <1>1, <1>3, <1>4, <2>1
<1>6. Range(z) = Range(q) \cup {r}
  <2>1. \A k \in 1 .. Len(q) + 1 : k \in 1 .. Len(q) \/ k = Len(q) + 1
    BY <1>1
  <2>2. \A k \in 1 .. Len(q) : k \in 1 .. Len(q) + 1
    BY <1>1
  <2>3. Len(q) + 1 \in 1 .. Len(q) + 1
    BY <1>1
  <2> QED BY <1>1, <2>1, <2>2, <2>3 DEF Range
<1> QED BY <1>1, <1>2, <1>5, <1>6 DEF z
-----------------------------------------------------------------------------
(* The inductive invariant.  That the world is the replay of the lines is  *)
(* kept only because whatever is on its way to the log (the act a pass has *)
(* admitted, or the line a failed write left behind the end of the file)   *)
(* still fits the world when it gets there: nothing moves the world while  *)
(* a pass holds the queue, and a later write takes the leftover's place.   *)
Request == [st : {"new", "queued", "asking"} \cup Answered, act : L!Acts \cup {NoAct},
            proof : {"none", "good", "bad"}, code : Codes]

Books(lines, w, sigs) ==
  /\ lines \in Seq(Line) /\ w \in World
  /\ w = L!WorldOf(Readable(lines))
  /\ sigs = SigsOf(lines) /\ sigs = L!Signatures(Readable(lines))
  /\ OnePicture(w)

Booked == Books(acts, world, seen) /\ Pictured(world, store)

Fits(act) ==
  /\ act \in L!Acts /\ L!Accepts(world, act) /\ act.sig \notin seen
  /\ act.k = "post" => act.ref \in store

InPass ==
  /\ phase \in {"idle", "admitted", "appended"}
  /\ phase # "idle" => queue # <<>>
  /\ phase = "admitted" => Fits(Head_.act)
  /\ phase = "appended" =>
       /\ Head_.act.k = "settle" /\ Head_.act.sig \in seen /\ tail.line = NoAct
       /\ Head_.act.ref \in DOMAIN world.posts
       /\ ~L!Unsettled(world, world.posts[Head_.act.ref].cid)

Leftover ==
  /\ tail \in [line : L!Acts \cup {NoAct}, scrap : BOOLEAN]
  /\ tail.line # NoAct => Fits(tail.line)

Requested ==
  /\ req \in [Reqs -> Request]
  /\ \A r \in Reqs : /\ req[r].st # "new" => req[r].act \in L!Acts
                     /\ req[r].st = "ok" => req[r].act.sig \in seen

Waiting ==
  /\ queue \in Seq(Reqs) /\ IsInjective(queue)
  /\ Range(queue) = {r \in Reqs : req[r].st = "queued"}

Surroundings == seen \subseteq Reqs /\ store \subseteq Cids /\ now \in 1 .. MaxTime /\ pen \in BOOLEAN

HostInv == Booked /\ InPass /\ Leftover /\ Requested /\ Waiting /\ Surroundings

(* What one request's row may become.                                      *)
RowIs(r, row) == req' = [req EXCEPT ![r] = row]

LEMMA AnswerIs ==
  ASSUME HostInv, queue # <<>>, NEW st \in {"asking"} \cup Answered, NEW code \in Codes,
         Answer(Head(queue), st, code), seen \subseteq seen',
         st = "ok" => Head_.act.sig \in seen'
  PROVE  /\ Requested' /\ Waiting' /\ phase' = "idle"
         /\ \A r \in Reqs : req[r].st = "ok" => req'[r].st = "ok" /\ req'[r].act = req[r].act
<1> DEFINE h   == Head(queue)
           row == [req[h] EXCEPT !.st = st, !.code = code]
<1>1. h \in Reqs /\ req[h].st = "queued" /\ req[h].act \in L!Acts
  <2>1. queue \in Seq(Reqs) /\ IsInjective(queue) /\ Range(queue) = {r \in Reqs : req[r].st = "queued"}
    BY DEF HostInv, Waiting
  <2>2. h \in Reqs /\ h \in Range(queue)
    BY <2>1, Dequeued
  <2> QED BY <2>1, <2>2 DEF HostInv, Requested
<1>2. req \in [Reqs -> Request] /\ req[h] \in Request
  BY <1>1 DEF HostInv, Requested
<1>3. st \in {"new", "queued", "asking"} \cup Answered /\ st # "queued" /\ st # "new"
  BY DEF Answered
<1>4. row \in Request /\ row.st = st /\ row.act = req[h].act
  BY <1>2, <1>3 DEF Request
<1>5. req' = [req EXCEPT ![h] = row] /\ queue' = Tail(queue) /\ phase' = "idle"
  BY <1>2 DEF Answer, Request
<1>6. Head_.act.sig = row.act.sig
  BY <1>4 DEF Head_
<1> HIDE DEF row, h
<1>7. /\ req' \in [Reqs -> Request] /\ req'[h] = row
      /\ \A r \in Reqs : r # h => req'[r] = req[r]
  BY <1>1, <1>2, <1>4, <1>5
<1>8. Requested'
  <2>1. ASSUME NEW r \in Reqs
        PROVE  /\ req'[r].st # "new" => req'[r].act \in L!Acts
               /\ req'[r].st = "ok" => req'[r].act.sig \in seen'
    <3>1. CASE r = h
      BY <1>1, <1>3, <1>4, <1>6, <1>7, <3>1
    <3>2. CASE r # h
      BY <1>7, <3>2 DEF HostInv, Requested
    <3> QED BY <3>1, <3>2
  <2> QED BY <1>7, <2>1 DEF Requested
<1>9. Waiting'
  <2>1. queue \in Seq(Reqs) /\ IsInjective(queue) /\ Range(queue) = {r \in Reqs : req[r].st = "queued"}
    BY DEF HostInv, Waiting
  <2>2. /\ queue' \in Seq(Reqs) /\ IsInjective(queue')
        /\ Range(queue') = Range(queue) \ {h}
    BY <1>5, <2>1, Dequeued DEF h
  <2>3. {r \in Reqs : req'[r].st = "queued"} = {r \in Reqs : req[r].st = "queued"} \ {h}
    BY <1>3, <1>4, <1>7
  <2> QED BY <2>1, <2>2, <2>3 DEF Waiting
<1> QED BY <1>1, <1>4, <1>5, <1>7, <1>8, <1>9

(* A request that joins the end of the queue.                              *)
LEMMA JoinIs ==
  ASSUME HostInv, NEW r \in Reqs, req[r].st \in {"new", "asking"},
         NEW row \in Request, row.st = "queued", row.act \in L!Acts,
         req' = [req EXCEPT ![r] = row], queue' = Append(queue, r),
         UNCHANGED <<phase, acts, tail, world, seen, store>>
  PROVE  /\ Requested' /\ Waiting' /\ InPass'
         /\ \A x \in Reqs : req[x].st = "ok" => req'[x].st = "ok" /\ req'[x].act = req[x].act
<1>1. /\ req \in [Reqs -> Request] /\ req' \in [Reqs -> Request] /\ req'[r] = row
      /\ \A x \in Reqs : x # r => req'[x] = req[x]
  BY DEF HostInv, Requested
<1>2. Requested'
  <2>1. ASSUME NEW x \in Reqs
        PROVE  /\ req'[x].st # "new" => req'[x].act \in L!Acts
               /\ req'[x].st = "ok" => req'[x].act.sig \in seen'
    <3>1. CASE x = r
      BY <1>1, <3>1
    <3>2. CASE x # r
      BY <1>1, <3>2 DEF HostInv, Requested
    <3> QED BY <3>1, <3>2
  <2> QED BY <1>1, <2>1 DEF Requested
<1>3. queue \in Seq(Reqs) /\ IsInjective(queue) /\ Range(queue) = {x \in Reqs : req[x].st = "queued"}
  BY DEF HostInv, Waiting
<1>4. r \notin Range(queue)
  BY <1>3
<1>5. /\ queue' \in Seq(Reqs) /\ IsInjective(queue') /\ Range(queue') = Range(queue) \cup {r}
      /\ queue # <<>> => queue' # <<>> /\ Head(queue') = Head(queue)
  BY <1>3, <1>4, Enqueued
<1>6. Waiting'
  <2>1. {x \in Reqs : req'[x].st = "queued"} = {x \in Reqs : req[x].st = "queued"} \cup {r}
    BY <1>1
  <2> QED BY <1>3, <1>5, <2>1 DEF Waiting
<1>7. InPass'
  <2>1. CASE phase = "idle"
    BY <2>1 DEF InPass
  <2>2. CASE phase # "idle"
    <3>1. queue # <<>>
      BY <2>2 DEF HostInv, InPass
    <3>2. Head(queue) \in Reqs /\ Head(queue) \in Range(queue) /\ Head(queue) # r
      BY <1>3, <1>4, <3>1, Dequeued
    <3>3. Head_' = Head_
      BY <1>1, <1>5, <3>1, <3>2 DEF Head_
    <3> QED BY <1>5, <2>2, <3>1, <3>3 DEF HostInv, InPass, Fits
  <2> QED BY <2>1, <2>2
<1> QED BY <1>1, <1>2, <1>6, <1>7
-----------------------------------------------------------------------------
(* The books and the file.                                                 *)
LEMMA BooksEmpty == Books(<<>>, L!EmptyWorld, {}) /\ Pictured(L!EmptyWorld, {}) /\ SigsOf(<<>>) = {}
<1>1. <<>> \in Seq(Line) /\ Readable(<<>>) = <<>>
  BY ReadableNone
<1>2. L!EmptyWorld \in World /\ L!EmptyWorld = L!WorldOf(<<>>) /\ L!EmptyWorld.posts = <<>>
  BY WorldOfNone DEF L!EmptyWorld, World
<1>3. SigsOf(<<>>) = {} /\ L!Signatures(<<>>) = {}
  BY DEF SigsOf, L!Signatures
<1> QED BY <1>1, <1>2, <1>3 DEF Books, OnePicture, Pictured

LEMMA SigsMore ==
  ASSUME NEW lines \in Seq(Line), NEW line \in Line
  PROVE  SigsOf(Append(lines, line)) = IF line = Garbage THEN SigsOf(lines)
                                       ELSE SigsOf(lines) \cup {line.sig}
<1> DEFINE z == Append(lines, line)
           n == Len(lines)
<1>1. /\ n \in Nat /\ DOMAIN lines = 1 .. n /\ DOMAIN z = 1 .. n + 1
      /\ z[n + 1] = line /\ \A i \in 1 .. n : z[i] = lines[i]
  OBVIOUS
<1> HIDE DEF z, n
<1>2. \A i \in 1 .. n + 1 : i \in 1 .. n \/ i = n + 1
  BY <1>1
<1>3. (\A i \in 1 .. n : i \in 1 .. n + 1) /\ n + 1 \in 1 .. n + 1
  BY <1>1
<1>4. CASE line = Garbage
  <2>1. {j \in DOMAIN z : z[j] # Garbage} = {j \in DOMAIN lines : lines[j] # Garbage}
    BY <1>1, <1>2, <1>3, <1>4
  <2>2. \A j \in {i \in DOMAIN lines : lines[i] # Garbage} : z[j].sig = lines[j].sig
    BY <1>1
  <2>3. SigsOf(z) = SigsOf(lines)
    BY <2>1, <2>2 DEF SigsOf
  <2> QED BY <1>4, <2>3 DEF z
<1>5. CASE line # Garbage
  <2>1. {j \in DOMAIN z : z[j] # Garbage} = {j \in DOMAIN lines : lines[j] # Garbage} \cup {n + 1}
    BY <1>1, <1>2, <1>3, <1>5
  <2>2. \A j \in {i \in DOMAIN lines : lines[i] # Garbage} : z[j].sig = lines[j].sig
    BY <1>1
  <2>3. SigsOf(z) = SigsOf(lines) \cup {line.sig}
    BY <1>1, <2>1, <2>2 DEF SigsOf
  <2> QED BY <1>5, <2>3 DEF z
<1> QED BY <1>4, <1>5

LEMMA SignaturesMore ==
  ASSUME NEW lines \in Seq(L!Acts), NEW act \in L!Acts
  PROVE  L!Signatures(Append(lines, act)) = L!Signatures(lines) \cup {act.sig}
<1> DEFINE z == Append(lines, act)
           n == Len(lines)
<1>1. /\ n \in Nat /\ DOMAIN lines = 1 .. n /\ DOMAIN z = 1 .. n + 1
      /\ z[n + 1] = act /\ \A i \in 1 .. n : z[i] = lines[i]
  OBVIOUS
<1> HIDE DEF z, n
<1>2. \A i \in 1 .. n + 1 : i \in 1 .. n \/ i = n + 1
  BY <1>1
<1>3. (\A i \in 1 .. n : i \in 1 .. n + 1) /\ n + 1 \in 1 .. n + 1
  BY <1>1
<1>4. L!Signatures(z) = L!Signatures(lines) \cup {act.sig}
  BY <1>1, <1>2, <1>3 DEF L!Signatures
<1> QED BY <1>4 DEF z

LEMMA BooksGarbage ==
  ASSUME NEW lines, NEW w, NEW sigs, Books(lines, w, sigs)
  PROVE  Books(Append(lines, Garbage), w, sigs) /\ Readable(Append(lines, Garbage)) = Readable(lines)
<1>1. lines \in Seq(Line) /\ Garbage \in Line
  BY DEF Books, Line
<1>2. Append(lines, Garbage) \in Seq(Line)
  BY <1>1
<1> QED BY <1>1, <1>2, SigsMore, ReadableMore DEF Books

LEMMA BooksMore ==
  ASSUME NEW lines, NEW w, NEW sigs, Books(lines, w, sigs), NEW pictures, Pictured(w, pictures),
         NEW act \in L!Acts, L!Accepts(w, act), act.k = "post" => act.ref \in pictures
  PROVE  /\ Books(Append(lines, act), L!Step(w, act), sigs \cup {act.sig})
         /\ Pictured(L!Step(w, act), pictures)
         /\ Readable(Append(lines, act)) = Append(Readable(lines), act)
<1>1. lines \in Seq(Line) /\ act \in Line /\ act # Garbage
  BY ActParts DEF Books, Line
<1>2. Append(lines, act) \in Seq(Line)
  BY <1>1
<1>3. Readable(Append(lines, act)) = Append(Readable(lines), act) /\ Readable(lines) \in Seq(L!Acts)
  BY <1>1, ReadableMore, ReadableTyped
<1>4. L!WorldOf(Readable(Append(lines, act))) = L!Step(w, act)
  BY <1>3, WorldOfMore DEF Books
<1>5. /\ L!Step(w, act) \in World /\ OnePicture(L!Step(w, act)) /\ Pictured(L!Step(w, act), pictures)
  BY StepKeepsWorld DEF Books
<1>6. SigsOf(Append(lines, act)) = sigs \cup {act.sig}
  BY <1>1, SigsMore DEF Books
<1>7. L!Signatures(Readable(Append(lines, act))) = sigs \cup {act.sig}
  BY <1>3, SignaturesMore DEF Books
<1> QED BY <1>2, <1>3, <1>4, <1>5, <1>6, <1>7 DEF Books

LEMMA BookedStays ==
  ASSUME Booked, UNCHANGED <<acts, world, seen>>, store \subseteq store'
  PROVE  Booked'
BY DEF Booked, Books, Pictured
-----------------------------------------------------------------------------
(* What a step leaves the member and the log.                              *)
Kept == \A r \in Reqs : req[r].st = "ok" => req'[r].st = "ok" /\ req'[r].act = req[r].act

Logged == Readable(acts') = Readable(acts) \/ \E act \in L!Acts : L!Record(act)

Sound == HostInv' /\ Kept /\ Logged

LEMMA SameRequests ==
  ASSUME HostInv, UNCHANGED <<req, queue>>, seen \subseteq seen'
  PROVE  Requested' /\ Waiting' /\ Kept
BY DEF HostInv, Requested, Waiting, Kept

LEMMA SamePass ==
  ASSUME HostInv, UNCHANGED <<req, queue, phase, acts, tail, world, seen>>, store \subseteq store'
  PROVE  InPass' /\ Leftover'
<1>1. Head_' = Head_
  BY DEF Head_
<1>2. \A act : Fits(act) => Fits(act)'
  BY DEF Fits
<1> QED BY <1>1, <1>2 DEF HostInv, InPass, Leftover

LEMMA SameLeftover ==
  ASSUME HostInv, UNCHANGED <<tail, world, seen, store>>
  PROVE  Leftover'
BY DEF HostInv, Leftover, Fits

(* submit, up to the queue.                                                *)
LEMMA EntersIsSound ==
  ASSUME HostInv, NEW r \in Reqs, NEW act \in L!Acts, Enters(r, act)
  PROVE  Sound
<1>1. /\ req[r].st = "new" /\ UNCHANGED <<phase, acts, tail, world, seen, store, now, pen>>
  BY DEF Enters, hostVars, envVars
<1>2. Booked' /\ Leftover' /\ Surroundings'
  BY <1>1, BookedStays, SameLeftover DEF HostInv, Surroundings
<1>3. req \in [Reqs -> Request] /\ req[r] \in Request
  BY DEF HostInv, Requested
<1>4. CASE pen
  <2> DEFINE row == [req[r] EXCEPT !.st = "queued", !.act = act]
  <2>1. row \in Request /\ row.st = "queued" /\ row.act = act
    BY <1>3 DEF Request
  <2>2. req' = [req EXCEPT ![r] = row] /\ queue' = Append(queue, r)
    BY <1>3, <1>4 DEF Enters, Request
  <2> HIDE DEF row
  <2>3. Requested' /\ Waiting' /\ InPass' /\ Kept
    BY <1>1, <2>1, <2>2, JoinIs DEF Kept
  <2> QED BY <1>1, <1>2, <2>3 DEF Sound, HostInv, Logged
<1>5. CASE ~pen
  <2> DEFINE mid == [req[r] EXCEPT !.st = "refused", !.act = act]
             row == [mid EXCEPT !.code = "NOT_THE_WRITER"]
  <2>1. row \in Request /\ row.st = "refused" /\ row.act = act
    <3>1. mid \in Request /\ mid.st = "refused" /\ mid.act = act
      BY <1>3 DEF Request, Answered
    <3> HIDE DEF mid
    <3> QED BY <3>1 DEF Request, Codes
  <2>2. req' = [req EXCEPT ![r] = row] /\ queue' = queue
    BY <1>3, <1>5 DEF Enters, Request
  <2> HIDE DEF row
  <2>3. /\ req' \in [Reqs -> Request] /\ req'[r] = row
        /\ \A x \in Reqs : x # r => req'[x] = req[x]
    BY <1>3, <2>1, <2>2
  <2>4. Requested'
    <3>1. ASSUME NEW x \in Reqs
          PROVE  /\ req'[x].st # "new" => req'[x].act \in L!Acts
                 /\ req'[x].st = "ok" => req'[x].act.sig \in seen'
      <4>1. CASE x = r
        BY <2>1, <2>3, <4>1
      <4>2. CASE x # r
        BY <1>1, <2>3, <4>2 DEF HostInv, Requested
      <4> QED BY <4>1, <4>2
    <3> QED BY <2>3, <3>1 DEF Requested
  <2>5. {x \in Reqs : req'[x].st = "queued"} = {x \in Reqs : req[x].st = "queued"}
    BY <1>1, <2>1, <2>3
  <2>6. Waiting'
    BY <2>2, <2>5 DEF HostInv, Waiting
  <2>7. Kept
    BY <1>1, <2>3 DEF Kept
  <2>8. InPass'
    <3>1. CASE phase = "idle"
      BY <1>1, <3>1 DEF InPass
    <3>2. CASE phase # "idle"
      <4>1. queue # <<>>
        BY <3>2 DEF HostInv, InPass
      <4>2. queue \in Seq(Reqs) /\ IsInjective(queue) /\ Range(queue) = {x \in Reqs : req[x].st = "queued"}
        BY DEF HostInv, Waiting
      <4>3. Head(queue) \in Reqs /\ Head(queue) \in Range(queue)
        BY <4>1, <4>2, Dequeued
      <4>4. Head(queue) # r
        BY <1>1, <4>2, <4>3
      <4>5. Head_' = Head_
        BY <2>2, <2>3, <4>3, <4>4 DEF Head_
      <4>6. \A a : Fits(a) => Fits(a)'
        BY <1>1 DEF Fits
      <4> QED BY <1>1, <2>2, <4>1, <4>5, <4>6 DEF HostInv, InPass
    <3> QED BY <3>1, <3>2
  <2> QED BY <1>1, <1>2, <2>4, <2>6, <2>7, <2>8 DEF Sound, HostInv, Logged
<1> QED BY <1>4, <1>5

(* The passes that answer, or hand back, before anything is written.       *)
LEMMA AnsweredIsSound ==
  ASSUME HostInv, queue # <<>>, NEW st \in {"asking"} \cup Answered, NEW code \in Codes,
         Answer(Head(queue), st, code), st # "ok",
         UNCHANGED <<acts, world, seen, store>>, Leftover', Surroundings'
  PROVE  Sound
<1>1. Requested' /\ Waiting' /\ phase' = "idle" /\ Kept
  BY AnswerIs DEF Kept
<1>2. Booked'
  BY BookedStays DEF HostInv
<1>3. InPass'
  BY <1>1 DEF InPass
<1> QED BY <1>1, <1>2, <1>3 DEF Sound, HostInv, Logged

LEMMA RefusalIsCode == ASSUME NEW act, NEW proof PROVE Refusal(act, proof) \in Codes
<1> DEFINE c1 == act.t < world.lastAt
           c2 == act.k = "claim" /\ act.ref \in world.claimed
           c3 == ~L!Accepts(world, act)
           c4 == act.sig \in seen
           c5 == Implausible(act)
           c6 == act.k = "post" /\ act.ref \notin store
           c7 == proof = "bad"
<1>1. Refusal(act, proof) = CASE c1    -> "TIMESTAMP_IMPLAUSIBLE"
                              [] c2    -> "BURN_ALREADY_CLAIMED"
                              [] c3    -> "RULEBOOK"
                              [] c4    -> "DUPLICATE_ACT"
                              [] c5    -> "CLOCK_SKEW"
                              [] c6    -> "CID_MISMATCH"
                              [] c7    -> "BURN_EXPLORERS_DISAGREE"
                              [] OTHER -> "none"
  BY DEF Refusal
<1> HIDE DEF c1, c2, c3, c4, c5, c6, c7
<1> QED BY <1>1 DEF Codes

LEMMA RefuseIsSound == ASSUME HostInv, Refuse PROVE Sound
<1>1. /\ queue # <<>> /\ UNCHANGED <<acts, tail, world, seen, store, now, pen>>
      /\ Answer(Head(queue), "refused", Refusal(Head_.act, Head_.proof))
  BY DEF Refuse, hostVars, envVars
<1>2. "refused" \in {"asking"} \cup Answered
  BY DEF Answered
<1>3. Leftover' /\ Surroundings'
  BY <1>1, SameLeftover DEF HostInv, Surroundings
<1> QED BY <1>1, <1>2, <1>3, RefusalIsCode, AnsweredIsSound

LEMMA HandBackIsSound == ASSUME HostInv, HandBack PROVE Sound
<1>1. /\ queue # <<>> /\ UNCHANGED <<acts, tail, world, seen, store, now, pen>>
      /\ Answer(Head(queue), "asking", "none")
  BY DEF HandBack, hostVars, envVars
<1>2. Leftover' /\ Surroundings'
  BY <1>1, SameLeftover DEF HostInv, Surroundings
<1>3. "asking" \in {"asking"} \cup Answered /\ "none" \in Codes /\ "asking" # "ok"
  BY DEF Codes
<1> QED BY <1>1, <1>2, <1>3, AnsweredIsSound

(* What a pass admits fits the world as it stands.                         *)
LEMMA AdmittedFits ==
  ASSUME HostInv, NEW act \in L!Acts, NEW proof, Admitted(act, proof)
  PROVE  Fits(act)
BY DEF Admitted, Refusal, Fits

LEMMA HeadWaits ==
  ASSUME HostInv, queue # <<>>
  PROVE  Head_.act \in L!Acts /\ Head(queue) \in Reqs /\ req[Head(queue)].st = "queued"
<1>1. queue \in Seq(Reqs) /\ IsInjective(queue) /\ Range(queue) = {r \in Reqs : req[r].st = "queued"}
  BY DEF HostInv, Waiting
<1>2. Head(queue) \in Reqs /\ Head(queue) \in Range(queue)
  BY <1>1, Dequeued
<1> QED BY <1>1, <1>2 DEF HostInv, Requested, Head_

LEMMA AdmitIsSound == ASSUME HostInv, Admit PROVE Sound
<1>1. /\ queue # <<>> /\ phase' = "admitted" /\ Admitted(Head_.act, Head_.proof)
      /\ UNCHANGED <<req, queue, acts, tail, world, seen, store, now, pen>>
  BY DEF Admit, hostVars, envVars
<1>2. Fits(Head_.act)
  BY <1>1, HeadWaits, AdmittedFits
<1>3. Head_' = Head_
  BY <1>1 DEF Head_
<1>4. Fits(Head_.act)'
  BY <1>1, <1>2, <1>3 DEF Fits
<1>5. InPass'
  BY <1>1, <1>4 DEF InPass
<1>6. Booked' /\ Leftover' /\ Surroundings' /\ Requested' /\ Waiting' /\ Kept
  BY <1>1, BookedStays, SameLeftover, SameRequests DEF HostInv, Surroundings
<1> QED BY <1>1, <1>5, <1>6 DEF Sound, HostInv, Logged

LEMMA ExplorersIsSound ==
  ASSUME HostInv, NEW r \in Reqs, NEW proof \in {"good", "bad"}, Explorers(r, proof)
  PROVE  Sound
<1> DEFINE row == [req[r] EXCEPT !.st = "queued", !.proof = proof]
<1>1. /\ req[r].st = "asking" /\ queue' = Append(queue, r)
      /\ UNCHANGED <<phase, acts, tail, world, seen, store, now, pen>>
  BY DEF Explorers, hostVars, envVars
<1>2. req \in [Reqs -> Request] /\ req[r] \in Request /\ req[r].act \in L!Acts
  BY <1>1 DEF HostInv, Requested
<1>3. row \in Request /\ row.st = "queued" /\ row.act = req[r].act
  BY <1>2 DEF Request
<1>4. req' = [req EXCEPT ![r] = row]
  BY <1>2 DEF Explorers, Request
<1> HIDE DEF row
<1>5. Requested' /\ Waiting' /\ InPass' /\ Kept
  BY <1>1, <1>2, <1>3, <1>4, JoinIs DEF Kept
<1>6. Booked' /\ Leftover' /\ Surroundings'
  BY <1>1, BookedStays, SameLeftover DEF HostInv, Surroundings
<1> QED BY <1>1, <1>5, <1>6 DEF Sound, HostInv, Logged

LEMMA IdleIsSound ==
  ASSUME HostInv, UNCHANGED <<req, queue, phase, acts, tail, world, seen>>, store \subseteq store',
         Surroundings'
  PROVE  Sound
<1>1. Booked' /\ Requested' /\ Waiting' /\ Kept /\ InPass' /\ Leftover'
  BY BookedStays, SameRequests, SamePass DEF HostInv
<1> QED BY <1>1 DEF Sound, HostInv, Logged
-----------------------------------------------------------------------------
(* A line that reaches the log.                                            *)
LEMMA LineIsRecorded ==
  ASSUME HostInv, NEW act, Fits(act)
  PROVE  /\ Books(Append(acts, act), L!Step(world, act), seen \cup {act.sig})
         /\ Pictured(L!Step(world, act), store)
         /\ Readable(Append(acts, act)) = Append(Readable(acts), act)
         /\ L!Accepts(L!WorldOf(Readable(acts)), act)
         /\ act.sig \notin L!Signatures(Readable(acts))
         /\ act.k = "settle" =>
              /\ act.ref \in DOMAIN L!Step(world, act).posts
              /\ ~L!Unsettled(L!Step(world, act), L!Step(world, act).posts[act.ref].cid)
<1>1. /\ act \in L!Acts /\ L!Accepts(world, act) /\ act.sig \notin seen
      /\ act.k = "post" => act.ref \in store
  BY DEF Fits
<1>2. Books(acts, world, seen) /\ Pictured(world, store)
  BY DEF HostInv, Booked
<1>3. /\ Books(Append(acts, act), L!Step(world, act), seen \cup {act.sig})
      /\ Pictured(L!Step(world, act), store)
      /\ Readable(Append(acts, act)) = Append(Readable(acts), act)
  BY <1>1, <1>2, BooksMore
<1>4. L!Accepts(L!WorldOf(Readable(acts)), act) /\ act.sig \notin L!Signatures(Readable(acts))
  BY <1>1, <1>2 DEF Books
<1>5. act.k = "settle" =>
        /\ act.ref \in DOMAIN L!Step(world, act).posts
        /\ ~L!Unsettled(L!Step(world, act), L!Step(world, act).posts[act.ref].cid)
  BY <1>1, <1>2, StepKeepsWorld DEF Books
<1> QED BY <1>3, <1>4, <1>5

(* What a later line leaves of an older one counts as no act.              *)
LEMMA NothingLeft ==
  \A left \in {NoTail, [NoTail EXCEPT !.scrap = TRUE]} :
    left \in [line : L!Acts \cup {NoAct}, scrap : BOOLEAN] /\ left.line = NoAct
<1>1. NoTail \in [line : L!Acts \cup {NoAct}, scrap : BOOLEAN] /\ NoTail.line = NoAct
  BY DEF NoTail
<1> HIDE DEF NoTail
<1>2. [NoTail EXCEPT !.scrap = TRUE] \in [line : L!Acts \cup {NoAct}, scrap : BOOLEAN]
  BY <1>1
<1>3. [NoTail EXCEPT !.scrap = TRUE].line = NoAct
  BY <1>1
<1> QED BY <1>1, <1>2, <1>3

LEMMA WriteIsSound == ASSUME HostInv, Write PROVE Sound
<1> DEFINE act == Head_.act
<1>1. /\ phase = "admitted" /\ acts' = Append(acts, act) /\ tail' \in Left(tail)
      /\ seen' = seen \cup {act.sig} /\ world' = L!Step(world, act)
      /\ UNCHANGED <<store, now, pen>>
  BY DEF Write, envVars
<1>2. queue # <<>> /\ Fits(act)
  BY <1>1 DEF HostInv, InPass
<1>3. L!Accepts(world, act) /\ act \in L!Acts
  BY <1>2 DEF Fits
<1>4. Booked'
  BY <1>1, <1>2, LineIsRecorded DEF Booked
<1>5. Logged
  <2>1. Readable(acts') = Append(Readable(acts), act)
    BY <1>1, <1>2, LineIsRecorded
  <2>2. L!Record(act)
    BY <1>2, <2>1, LineIsRecorded DEF L!Record
  <2> QED BY <1>3, <2>2 DEF Logged
<1>6. tail'.line = NoAct /\ Leftover'
  <2>1. tail' \in {NoTail, [NoTail EXCEPT !.scrap = TRUE]}
    BY <1>1 DEF Left
  <2>2. tail' \in [line : L!Acts \cup {NoAct}, scrap : BOOLEAN] /\ tail'.line = NoAct
    BY <2>1, NothingLeft
  <2> QED BY <2>2 DEF Leftover
<1>7. Surroundings'
  BY <1>1, <1>3, ActParts DEF HostInv, Surroundings
<1>8. CASE act.k = "settle"
  <2>1. phase' = "appended" /\ UNCHANGED <<req, queue>>
    BY <1>3, <1>8 DEF Write
  <2>2. Requested' /\ Waiting' /\ Kept
    BY <1>1, <2>1, SameRequests
  <2>3. Head_' = Head_
    BY <2>1 DEF Head_
  <2>4. /\ act.ref \in DOMAIN world'.posts
        /\ ~L!Unsettled(world', world'.posts[act.ref].cid)
    BY <1>1, <1>2, <1>8, LineIsRecorded
  <2>5. InPass'
    BY <1>1, <1>2, <1>6, <1>8, <2>1, <2>3, <2>4 DEF InPass
  <2> QED BY <1>4, <1>5, <1>6, <1>7, <2>2, <2>5 DEF Sound, HostInv
<1>9. CASE act.k # "settle"
  <2>1. Answer(Head(queue), "ok", "none")
    BY <1>3, <1>9 DEF Write
  <2>2. "ok" \in {"asking"} \cup Answered /\ "none" \in Codes
    BY DEF Answered, Codes
  <2>3. Head_.act.sig \in seen' /\ seen \subseteq seen'
    BY <1>1
  <2>4. Requested' /\ Waiting' /\ phase' = "idle" /\ Kept
    BY <1>2, <2>1, <2>2, <2>3, AnswerIs DEF Kept
  <2>5. InPass'
    BY <2>4 DEF InPass
  <2> QED BY <1>4, <1>5, <1>6, <1>7, <2>4, <2>5 DEF Sound, HostInv
<1> QED BY <1>8, <1>9

(* What a failed write leaves behind is the line of an act that fits.      *)
LEMMA LeftoverFits ==
  ASSUME HostInv, phase = "admitted", NEW left \in Leftovers(Head_.act)
  PROVE  /\ left \in [line : L!Acts \cup {NoAct}, scrap : BOOLEAN]
         /\ left.line # NoAct => Fits(left.line)
<1> DEFINE act == Head_.act
<1>1. Fits(act) /\ act \in L!Acts
  BY DEF HostInv, InPass, Fits
<1>2. CASE left = tail
  BY <1>2 DEF HostInv, Leftover
<1>3. CASE left \in {[line |-> act, scrap |-> cut] : cut \in {FALSE, tail # NoTail}}
  <2>1. PICK cut \in BOOLEAN : left = [line |-> act, scrap |-> cut]
    BY <1>3
  <2> QED BY <1>1, <2>1
<1>4. CASE left \in Left(tail) \ {NoTail}
  <2>1. left = [NoTail EXCEPT !.scrap = TRUE]
    BY <1>4 DEF Left
  <2> QED BY <2>1 DEF NoTail
<1> QED BY <1>2, <1>3, <1>4 DEF Leftovers

LEMMA WriteFailsIsSound == ASSUME HostInv, WriteFails PROVE Sound
<1>1. /\ phase = "admitted" /\ tail' \in Leftovers(Head_.act)
      /\ Answer(Head(queue), "error", "UNCATALOGUED")
      /\ UNCHANGED <<acts, world, seen, store, now, pen>>
  BY DEF WriteFails
<1>2. queue # <<>>
  BY <1>1 DEF HostInv, InPass
<1>3. Leftover'
  <2>1. /\ tail' \in [line : L!Acts \cup {NoAct}, scrap : BOOLEAN]
        /\ tail'.line # NoAct => Fits(tail'.line)
    BY <1>1, LeftoverFits
  <2> QED BY <1>1, <2>1 DEF Leftover, Fits
<1>4. "error" \in {"asking"} \cup Answered /\ "UNCATALOGUED" \in Codes /\ "error" # "ok"
  BY DEF Answered, Codes
<1>5. Surroundings'
  BY <1>1 DEF HostInv, Surroundings
<1> QED BY <1>1, <1>2, <1>3, <1>4, <1>5, AnsweredIsSound

(* The picture of the settled post goes, and no unsettled post had it.     *)
LEMMA ForgetIsSound == ASSUME HostInv, Forget PROVE Sound
<1> DEFINE cid == world.posts[Head_.act.ref].cid
<1>1. /\ phase = "appended" /\ store' = store \ {cid}
      /\ Answer(Head(queue), "ok", "none")
      /\ UNCHANGED <<acts, tail, world, seen, now, pen>>
  BY DEF Forget, envVars
<1>2. /\ queue # <<>> /\ Head_.act.sig \in seen /\ tail.line = NoAct
      /\ ~L!Unsettled(world, cid)
  BY <1>1 DEF HostInv, InPass
<1> HIDE DEF cid
<1>3. Booked'
  <2>1. Books(acts, world, seen) /\ Pictured(world, store)
    BY DEF HostInv, Booked
  <2>2. Pictured(world, store')
    BY <1>1, <1>2, <2>1 DEF Pictured, L!Unsettled
  <2> QED BY <1>1, <2>1, <2>2 DEF Booked
<1>4. Leftover' /\ Surroundings'
  BY <1>1, <1>2 DEF HostInv, Leftover, Surroundings
<1>5. "ok" \in {"asking"} \cup Answered /\ "none" \in Codes
  BY DEF Answered, Codes
<1>6. Requested' /\ Waiting' /\ phase' = "idle" /\ Kept
  BY <1>1, <1>2, <1>5, AnswerIs DEF Kept
<1>7. InPass'
  BY <1>6 DEF InPass
<1> QED BY <1>1, <1>3, <1>4, <1>6, <1>7 DEF Sound, HostInv, Logged

LEMMA ForgetFailsIsSound == ASSUME HostInv, ForgetFails PROVE Sound
<1>1. /\ phase = "appended" /\ Answer(Head(queue), "error", "UNCATALOGUED")
      /\ UNCHANGED <<acts, tail, world, seen, store, now, pen>>
  BY DEF ForgetFails, hostVars
<1>2. queue # <<>>
  BY <1>1 DEF HostInv, InPass
<1>3. "error" \in {"asking"} \cup Answered /\ "UNCATALOGUED" \in Codes /\ "error" # "ok"
  BY DEF Answered, Codes
<1>4. Leftover' /\ Surroundings'
  BY <1>1, SameLeftover DEF HostInv, Surroundings
<1> QED BY <1>1, <1>2, <1>3, <1>4, AnsweredIsSound
-----------------------------------------------------------------------------
(* A crash keeps the lines, adds at most one that fits, and cuts the rest. *)
LEMMA ReopenedIs ==
  ASSUME NEW lines \in Seq(Line), NEW left \in [line : L!Acts \cup {NoAct}, scrap : BOOLEAN]
  PROVE  LET whole == IF left.line = NoAct THEN lines ELSE Append(lines, left.line)
         IN  Reopened(lines, left) = IF left.scrap THEN Append(whole, Garbage) ELSE whole
<1> DEFINE whole == IF left.line = NoAct THEN lines ELSE Append(lines, left.line)
<1>1. lines \o (IF left.line = NoAct THEN <<>> ELSE <<left.line>>) = whole
  <2>1. CASE left.line = NoAct
    BY <2>1
  <2>2. CASE left.line # NoAct
    <3>1. left.line \in Line
      BY <2>2 DEF Line
    <3>2. lines \o <<left.line>> = Append(lines, left.line)
      BY <3>1
    <3> QED BY <2>2, <3>2
  <2> QED BY <2>1, <2>2
<1>2. whole \in Seq(Line)
  BY DEF Line
<1> HIDE DEF whole
<1>3. Garbage \in Line
  BY DEF Line
<1>4. whole \o (IF left.scrap THEN <<Garbage>> ELSE <<>>)
        = IF left.scrap THEN Append(whole, Garbage) ELSE whole
  BY <1>2, <1>3
<1>5. Reopened(lines, left) = IF left.scrap THEN Append(whole, Garbage) ELSE whole
  BY <1>1, <1>4 DEF Reopened
<1> QED BY <1>5 DEF whole

LEMMA CrashIsSound == ASSUME HostInv, Crash PROVE Sound
<1>1. /\ tail' = NoTail /\ world' = L!WorldOf(Readable(acts')) /\ seen' = SigsOf(acts')
      /\ req' = [r \in Reqs |-> IF req[r].st \in {"queued", "asking"}
                                THEN [req[r] EXCEPT !.st = "lost"] ELSE req[r]]
      /\ queue' = <<>> /\ phase' = "idle" /\ UNCHANGED <<store, now, pen>>
  BY DEF Crash, Rebuilt
<1>2. PICK left \in {tail, NoTail} \cup (IF phase = "admitted" THEN Leftovers(Head_.act) ELSE {}) :
        acts' = Reopened(acts, left)
  BY DEF Crash
<1>3. /\ left \in [line : L!Acts \cup {NoAct}, scrap : BOOLEAN]
      /\ left.line # NoAct => Fits(left.line)
  <2>1. CASE left = tail
    BY <2>1 DEF HostInv, Leftover
  <2>2. CASE left = NoTail
    BY <2>2 DEF NoTail
  <2>3. CASE phase = "admitted" /\ left \in Leftovers(Head_.act)
    BY <2>3, LeftoverFits
  <2> QED BY <1>2, <2>1, <2>2, <2>3
<1> DEFINE whole == IF left.line = NoAct THEN acts ELSE Append(acts, left.line)
           w     == IF left.line = NoAct THEN world ELSE L!Step(world, left.line)
           sigs  == IF left.line = NoAct THEN seen ELSE seen \cup {left.line.sig}
<1>4. Books(acts, world, seen) /\ Pictured(world, store) /\ acts \in Seq(Line)
  BY DEF HostInv, Booked, Books
<1>5. Books(whole, w, sigs) /\ Pictured(w, store) /\ seen \subseteq sigs
  BY <1>3, <1>4, LineIsRecorded
<1>6. Readable(whole) = Readable(acts) \/ \E act \in L!Acts :
        /\ Readable(whole) = Append(Readable(acts), act)
        /\ L!Accepts(L!WorldOf(Readable(acts)), act)
        /\ act.sig \notin L!Signatures(Readable(acts))
  <2>1. CASE left.line = NoAct
    BY <2>1
  <2>2. CASE left.line # NoAct
    <3>1. Fits(left.line) /\ left.line \in L!Acts
      BY <1>3, <2>2
    <3>2. /\ Readable(whole) = Append(Readable(acts), left.line)
          /\ L!Accepts(L!WorldOf(Readable(acts)), left.line)
          /\ left.line.sig \notin L!Signatures(Readable(acts))
      BY <2>2, <3>1, LineIsRecorded
    <3> QED BY <3>1, <3>2
  <2> QED BY <2>1, <2>2
<1>7. acts' = IF left.scrap THEN Append(whole, Garbage) ELSE whole
  BY <1>2, <1>3, <1>4, ReopenedIs
<1> HIDE DEF whole, w, sigs
<1>8. Books(acts', w, sigs) /\ Readable(acts') = Readable(whole)
  BY <1>5, <1>7, BooksGarbage
<1>9. world' = w /\ seen' = sigs
  BY <1>1, <1>8 DEF Books
<1>10. Booked'
  BY <1>1, <1>5, <1>8, <1>9 DEF Booked
<1>11. Logged
  <2>1. CASE Readable(whole) = Readable(acts)
    BY <1>8, <2>1 DEF Logged
  <2>2. ASSUME NEW act \in L!Acts, Readable(whole) = Append(Readable(acts), act),
               L!Accepts(L!WorldOf(Readable(acts)), act),
               act.sig \notin L!Signatures(Readable(acts))
        PROVE  Logged
    <3>1. L!Record(act)
      BY <1>8, <2>2 DEF L!Record
    <3> QED BY <3>1 DEF Logged
  <2> QED BY <1>6, <2>1, <2>2
<1>12. req \in [Reqs -> Request]
  BY DEF HostInv, Requested
<1>13. ASSUME NEW r \in Reqs
       PROVE  /\ req'[r] \in Request /\ req'[r].act = req[r].act /\ req'[r].st # "queued"
              /\ (req'[r].st = "ok" <=> req[r].st = "ok") /\ (req'[r].st = "new" => req[r].st = "new")
  <2>1. req[r] \in Request /\ req'[r] = IF req[r].st \in {"queued", "asking"}
                                        THEN [req[r] EXCEPT !.st = "lost"] ELSE req[r]
    BY <1>1, <1>12
  <2>2. CASE req[r].st \in {"queued", "asking"}
    <3>1. req'[r] = [req[r] EXCEPT !.st = "lost"]
      BY <2>1, <2>2
    <3> QED BY <2>1, <2>2, <3>1 DEF Request, Answered
  <2>3. CASE req[r].st \notin {"queued", "asking"}
    BY <2>1, <2>3
  <2> QED BY <2>2, <2>3
<1>14. Requested' /\ Kept
  <2>1. req' \in [Reqs -> Request]
    BY <1>1, <1>13
  <2>2. ASSUME NEW r \in Reqs
        PROVE  /\ req'[r].st # "new" => req'[r].act \in L!Acts
               /\ req'[r].st = "ok" => req'[r].act.sig \in seen'
    <3>1. /\ req[r].st # "new" => req[r].act \in L!Acts
          /\ req[r].st = "ok" => req[r].act.sig \in seen
      BY DEF HostInv, Requested
    <3>2. req'[r].act = req[r].act /\ (req'[r].st = "ok" => req[r].st = "ok")
      BY <1>13
    <3>3. req[r].st = "new" => req'[r].st = "new"
      BY <1>1, <1>12 DEF Request
    <3>4. seen \subseteq seen'
      BY <1>5, <1>9
    <3>5. req'[r].st # "new" => req'[r].act \in L!Acts
      BY <3>1, <3>2, <3>3
    <3>6. req'[r].st = "ok" => req'[r].act.sig \in seen'
      BY <3>1, <3>2, <3>4
    <3> QED BY <3>5, <3>6
  <2> QED BY <1>13, <2>1, <2>2 DEF Requested, Kept
<1>15. Waiting'
  <2>1. <<>> \in Seq(Reqs) /\ IsInjective(<<>>) /\ Range(<<>>) = {}
    BY DEF IsInjective, Range
  <2>2. {r \in Reqs : req'[r].st = "queued"} = {}
    BY <1>13
  <2> QED BY <1>1, <2>1, <2>2 DEF Waiting
<1>16. InPass' /\ Leftover'
  BY <1>1 DEF InPass, Leftover, NoTail
<1>17. Surroundings'
  <2>1. sigs \subseteq Reqs
    BY <1>3, ActParts DEF HostInv, Surroundings, sigs, Fits
  <2> QED BY <1>1, <1>9, <2>1 DEF HostInv, Surroundings
<1> QED BY <1>10, <1>11, <1>14, <1>15, <1>16, <1>17 DEF Sound, HostInv
-----------------------------------------------------------------------------
(* From the first state on, and at every step.                             *)
LEMMA InitIsHost == Init => HostInv /\ L!LedgerInit
<1> SUFFICES ASSUME Init PROVE HostInv /\ L!LedgerInit
  OBVIOUS
<1>1. /\ req = [r \in Reqs |-> [st |-> "new", act |-> NoAct, proof |-> "none", code |-> "none"]]
      /\ queue = <<>> /\ phase = "idle" /\ acts = <<>> /\ tail = NoTail /\ world = L!EmptyWorld
      /\ seen = {} /\ store = {} /\ now = 1 /\ pen = TRUE
  BY DEF Init
<1>2. Booked
  BY <1>1, BooksEmpty DEF Booked
<1>3. InPass
  BY <1>1 DEF InPass
<1>4. Leftover
  BY <1>1, NothingLeft DEF Leftover
<1>5. \A r \in Reqs : req[r] \in Request /\ req[r].st = "new"
  BY <1>1 DEF Request, Codes
<1>6. req \in [Reqs -> Request]
  BY <1>1, <1>5
<1>7. Requested
  BY <1>5, <1>6 DEF Requested
<1>8. Waiting
  <2>1. <<>> \in Seq(Reqs) /\ IsInjective(<<>>) /\ Range(<<>>) = {}
    BY DEF IsInjective, Range
  <2>2. {r \in Reqs : req[r].st = "queued"} = {}
    BY <1>5
  <2> QED BY <1>1, <2>1, <2>2 DEF Waiting
<1>9. Surroundings
  BY <1>1, WriterAssumption DEF Surroundings
<1>10. L!LedgerInit
  BY <1>1, <1>5, ReadableNone DEF L!LedgerInit
<1> QED BY <1>2, <1>3, <1>4, <1>7, <1>8, <1>9, <1>10 DEF HostInv

LEMMA SentIsSound == ASSUME HostInv, NEW r \in Reqs, Sent(r) PROVE Sound
<1>1. CASE \E t \in 1 .. MaxTime :
             \/ "claim" \in Kinds /\ \E o \in Outs : Send(r, "claim", o, t)
             \/ "post" \in Kinds /\ \E c \in Cids : Send(r, "post", c, t)
             \/ "settle" \in Kinds /\ \E p \in 1 .. MaxPosts : Send(r, "settle", p, t)
             \/ "note" \in Kinds /\ Send(r, "note", 0, t)
  <2>1. PICK t \in 1 .. MaxTime :
             \/ "claim" \in Kinds /\ \E o \in Outs : Send(r, "claim", o, t)
             \/ "post" \in Kinds /\ \E c \in Cids : Send(r, "post", c, t)
             \/ "settle" \in Kinds /\ \E p \in 1 .. MaxPosts : Send(r, "settle", p, t)
             \/ "note" \in Kinds /\ Send(r, "note", 0, t)
    BY <1>1
  <2>2. ASSUME NEW k, NEW ref, Send(r, k, ref, t),
               \/ k = "claim" /\ ref \in Outs
               \/ k = "post" /\ ref \in Cids
               \/ k = "settle" /\ ref \in 1 .. MaxPosts
               \/ k = "note" /\ ref = 0
        PROVE  Sound
    <3>1. [sig |-> r, k |-> k, ref |-> ref, t |-> t] \in L!Acts
      BY <2>2 DEF L!Acts
    <3> QED BY <2>2, <3>1, EntersIsSound DEF Send
  <2> QED BY <2>1, <2>2
<1>2. CASE \E q \in Reqs : Resend(r, q)
  <2>1. PICK q \in Reqs : req[q].st # "new" /\ Enters(r, req[q].act)
    BY <1>2 DEF Resend
  <2>2. req[q].act \in L!Acts
    BY <2>1 DEF HostInv, Requested
  <2> QED BY <2>1, <2>2, EntersIsSound
<1> QED BY <1>1, <1>2 DEF Sent

LEMMA NextIsSound == HostInv /\ [Next]_vars => Sound
<1> SUFFICES ASSUME HostInv, [Next]_vars PROVE Sound
  OBVIOUS
<1>1. CASE \E r \in Reqs : Sent(r)
  BY <1>1, SentIsSound
<1>2. CASE \E r \in Reqs : Asked(r)
  BY <1>2, ExplorersIsSound DEF Asked
<1>3. CASE \E c \in Cids : Put(c)
  <2>1. PICK c \in Cids : Put(c)
    BY <1>3
  <2>2. Surroundings'
    BY <2>1 DEF Put, HostInv, Surroundings
  <2> QED BY <2>1, <2>2, IdleIsSound DEF Put
<1>4. CASE Queued
  BY <1>4, RefuseIsSound, HandBackIsSound, AdmitIsSound, WriteIsSound, ForgetIsSound DEF Queued
<1>5. CASE Faulty
  BY <1>5, WriteFailsIsSound, ForgetFailsIsSound, CrashIsSound DEF Faulty
<1>6. CASE Tick
  <2>1. Surroundings'
    BY <1>6, WriterAssumption DEF Tick, hostVars, HostInv, Surroundings
  <2> QED BY <1>6, <2>1, IdleIsSound DEF Tick, hostVars
<1>7. CASE LosePen
  <2>1. Surroundings'
    BY <1>7 DEF LosePen, hostVars, HostInv, Surroundings
  <2> QED BY <1>7, <2>1, IdleIsSound DEF LosePen, hostVars
<1>8. CASE UNCHANGED vars
  <2>1. Surroundings'
    BY <1>8 DEF vars, hostVars, envVars, HostInv, Surroundings
  <2> QED BY <1>8, <2>1, IdleIsSound DEF vars, hostVars
<1> QED BY <1>1, <1>2, <1>3, <1>4, <1>5, <1>6, <1>7, <1>8 DEF Next

LEMMA HostAlways == Spec => []HostInv
<1>1. Init => HostInv
  BY InitIsHost
<1>2. HostInv /\ [Next]_vars => HostInv'
  BY NextIsSound DEF Sound
<1> QED BY <1>1, <1>2, PTL DEF Spec
-----------------------------------------------------------------------------
(* What the promise is worth: what every log of L!LedgerSpec has.          *)
record == Readable(acts)
told   == {req[r].act.sig : r \in {x \in Reqs : req[x].st = "ok"}}

RecordInv ==
  record \in Seq(L!Acts) /\ L!EveryLineApplies /\ L!OneLinePerSignature /\ L!AckedIsRecorded

(* The lines before one already there are the same in the longer log.      *)
LEMMA PrefixStays ==
  ASSUME NEW l \in Seq(L!Acts), NEW act \in L!Acts, NEW i \in 1 .. Len(l)
  PROVE  /\ SubSeq(Append(l, act), 1, i - 1) = SubSeq(l, 1, i - 1)
         /\ Append(l, act)[i] = l[i]
<1>1. SubSeq(Append(l, act), 1, i - 1) = SubSeq(l, 1, i - 1)
  OBVIOUS
<1> QED BY <1>1

LEMMA WholePrefix ==
  ASSUME NEW l \in Seq(L!Acts), NEW act \in L!Acts
  PROVE  /\ SubSeq(Append(l, act), 1, Len(l)) = l
         /\ Append(l, act)[Len(l) + 1] = act
         /\ DOMAIN Append(l, act) = DOMAIN l \cup {Len(l) + 1}
         /\ Append(l, act) \in Seq(L!Acts)
OBVIOUS

(* Recording keeps both: the new line is taken by the world of the lines   *)
(* before it, and its signature is not among theirs.                       *)
LEMMA RecordKeeps ==
  ASSUME RecordInv, NEW act \in L!Acts, L!Record(act)
  PROVE  record' \in Seq(L!Acts) /\ L!EveryLineApplies' /\ L!OneLinePerSignature'
<1>1. record \in Seq(L!Acts) /\ record' = Append(record, act) /\ DOMAIN record = 1 .. Len(record)
  BY DEF RecordInv, record, L!Record
<1>2. record' \in Seq(L!Acts)
  BY <1>1, WholePrefix
<1>3. /\ L!Accepts(L!WorldOf(record), act) /\ act.sig \notin L!Signatures(record)
      /\ \A i \in DOMAIN record : L!Accepts(L!WorldOf(SubSeq(record, 1, i - 1)), record[i])
      /\ \A i, j \in DOMAIN record : record[i].sig = record[j].sig => i = j
  BY DEF RecordInv, record, L!Record, L!EveryLineApplies, L!OneLinePerSignature
<1>4. ASSUME NEW i \in DOMAIN record'
      PROVE  L!Accepts(L!WorldOf(SubSeq(record', 1, i - 1)), record'[i])
  <2>1. CASE i \in 1 .. Len(record)
    <3>1. SubSeq(record', 1, i - 1) = SubSeq(record, 1, i - 1) /\ record'[i] = record[i]
      BY <1>1, <2>1, PrefixStays
    <3> QED BY <1>1, <1>3, <2>1, <3>1
  <2>2. CASE i = Len(record) + 1
    <3>1. SubSeq(record', 1, i - 1) = record /\ record'[i] = act
      BY <1>1, <2>2, WholePrefix
    <3> QED BY <1>3, <3>1
  <2> QED BY <1>1, <2>1, <2>2, WholePrefix
<1>5. ASSUME NEW i \in DOMAIN record', NEW j \in DOMAIN record', record'[i].sig = record'[j].sig
      PROVE  i = j
  <2>1. \A k \in 1 .. Len(record) : record'[k] = record[k] /\ record[k].sig # act.sig
    BY <1>1, <1>3, PrefixStays DEF L!Signatures
  <2>2. record'[Len(record) + 1] = act
    BY <1>1, WholePrefix
  <2>3. \A k \in DOMAIN record' : k \in 1 .. Len(record) \/ k = Len(record) + 1
    BY <1>1, WholePrefix
  <2> QED BY <1>1, <1>3, <1>5, <2>1, <2>2, <2>3
<1>6. L!EveryLineApplies' /\ L!OneLinePerSignature'
  BY <1>4, <1>5 DEF L!EveryLineApplies, L!OneLinePerSignature, record
<1> QED BY <1>2, <1>6

LEMMA LedgerInvariance == L!LedgerSpec => []RecordInv
<1>1. ASSUME L!LedgerInit PROVE RecordInv
  <2>1. record = <<>> /\ told = {}
    BY <1>1 DEF L!LedgerInit, record, told
  <2>2. record \in Seq(L!Acts) /\ DOMAIN record = {}
    BY <2>1
  <2>3. L!EveryLineApplies /\ L!OneLinePerSignature
    BY <2>2 DEF record, L!EveryLineApplies, L!OneLinePerSignature
  <2>4. L!AckedIsRecorded
    BY <2>1 DEF told, L!AckedIsRecorded
  <2> QED BY <2>2, <2>3, <2>4 DEF RecordInv
<1>2. ASSUME RecordInv, [L!LedgerNext]_<<record, told>> PROVE RecordInv'
  <2>1. CASE UNCHANGED <<record, told>>
    BY <1>2, <2>1 DEF RecordInv, record, told, L!EveryLineApplies, L!OneLinePerSignature,
                      L!AckedIsRecorded
  <2>2. CASE L!LedgerNext
    <3>1. L!AckedIsRecorded'
      BY <2>2 DEF L!LedgerNext, L!Acknowledge, L!AckedIsRecorded
    <3>2. CASE UNCHANGED record
      BY <1>2, <3>1, <3>2 DEF RecordInv, record, L!EveryLineApplies, L!OneLinePerSignature
    <3>3. CASE \E act \in L!Acts : L!Record(act)
      BY <1>2, <3>1, <3>3, RecordKeeps DEF RecordInv
    <3> QED BY <2>2, <3>2, <3>3 DEF L!LedgerNext, record
  <2> QED BY <1>2, <2>1, <2>2
<1> QED BY <1>1, <1>2, PTL DEF L!LedgerSpec, record, told
-----------------------------------------------------------------------------
(* The process and its file agree at every moment, and the queue with its  *)
(* requests: the world advanced act by act is the replay of the lines,     *)
(* through failed writes, leftovers that outlive a crash, and restarts.    *)
THEOREM HostIsItsLog == Spec => []HostConsistent
<1>1. HostInv => HostConsistent
  <2> SUFFICES ASSUME HostInv PROVE HostConsistent
    OBVIOUS
  <2>1. LiveWorldIsReplay
    BY DEF HostInv, Booked, Books, LiveWorldIsReplay
  <2>2. TypeOK
    BY DEF HostInv, Booked, Books, Line, InPass, Leftover, Requested, Request, Waiting,
           Surroundings, TypeOK
  <2> QED BY <2>1, <2>2 DEF HostConsistent
<1> QED BY <1>1, HostAlways, PTL

(* The picture of every unsettled post is on the disk: a deletion for a    *)
(* settled post, late or repeated, never takes the picture of a live one.  *)
THEOREM PicturesStand == Spec => []UnsettledHasPicture
<1>1. HostInv => UnsettledHasPicture
  BY DEF HostInv, Booked, Pictured, UnsettledHasPicture
<1> QED BY <1>1, HostAlways, PTL

(* The host implements the one log it promises: every step records one act *)
(* the rulebook takes there and no signature twice, or nothing, and who is *)
(* told of an act can rely on it, across crashes and failed writes.        *)
THEOREM WriterKeepsItsPromise == Spec => ImplementsLedger
<1>1. Init => L!LedgerInit
  BY InitIsHost
<1>2. HostInv /\ [Next]_vars => [L!LedgerNext]_<<Readable(acts), told>>
  <2> SUFFICES ASSUME HostInv, [Next]_vars PROVE L!LedgerNext
    OBVIOUS
  <2>1. Requested' /\ Booked' /\ Kept /\ Logged
    BY NextIsSound DEF Sound, HostInv
  <2>2. told' \subseteq L!Signatures(Readable(acts'))
    BY <2>1 DEF Requested, Booked, Books, told
  <2>3. told \subseteq told'
    BY <2>1 DEF Kept, told
  <2>4. L!Acknowledge
    BY <2>2, <2>3 DEF L!Acknowledge, told
  <2>5. UNCHANGED Readable(acts) \/ \E act \in L!Acts : L!Record(act)
    BY <2>1 DEF Logged
  <2> QED BY <2>4, <2>5 DEF L!LedgerNext
<1> QED BY <1>1, <1>2, HostAlways, PTL DEF Spec, ImplementsLedger, L!LedgerSpec, told

(* What is durable is never what a replay would skip: every line that      *)
(* parses is an act the rulebook takes in the world of the lines before it.*)
THEOREM DurableIsReplayable == Spec => []L!EveryLineApplies
<1>1. RecordInv => L!EveryLineApplies
  BY DEF RecordInv
<1> QED BY <1>1, WriterKeepsItsPromise, LedgerInvariance, PTL DEF ImplementsLedger

(* However often a signed act is sent, and whatever crashed between the    *)
(* attempts, it is one line (server/index.mjs, attemptWrite).              *)
THEOREM SignatureIsOneLine == Spec => []L!OneLinePerSignature
<1>1. RecordInv => L!OneLinePerSignature
  BY DEF RecordInv
<1> QED BY <1>1, WriterKeepsItsPromise, LedgerInvariance, PTL DEF ImplementsLedger

(* Whoever was told "accepted" finds the act in the log for ever.          *)
THEOREM AcceptedIsDurable == Spec => []L!AckedIsRecorded /\ [][told \subseteq told']_<<record, told>>
<1>1. RecordInv => L!AckedIsRecorded
  BY DEF RecordInv
<1>2. [L!LedgerNext]_<<record, told>> => [told \subseteq told']_<<record, told>>
  BY DEF L!LedgerNext, L!Acknowledge, told
<1> QED BY <1>1, <1>2, WriterKeepsItsPromise, LedgerInvariance, PTL
        DEF ImplementsLedger, L!LedgerSpec, record, told
=============================================================================
