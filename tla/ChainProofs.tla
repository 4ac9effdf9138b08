---------------------------- MODULE ChainProofs -----------------------------
(***************************************************************************)
(* Theorems about Chain, for any length of the log and any number of       *)
(* troubles.                                                               *)
(***************************************************************************)
EXTENDS Chain, SequenceTheorems, AccountingTheorems

-----------------------------------------------------------------------------
(* The numbers of a set in their order, one number at a time.              *)
Orders(S, n, g) ==
  g = [m \in 0 .. n |-> IF m = 0 THEN <<>>
                        ELSE IF m \in S THEN Append(g[m - 1], m) ELSE g[m - 1]]

LEMMA OrderAt ==
  ASSUME NEW S, NEW n \in Nat, NEW g, Orders(S, n, g)
  PROVE  /\ g[0] = <<>>
         /\ \A m \in 1 .. n : g[m] = IF m \in S THEN Append(g[m - 1], m) ELSE g[m - 1]
<1> DEFINE next(m) == IF m \in S THEN Append(g[m - 1], m) ELSE g[m - 1]
<1>1. g = [m \in 0 .. n |-> IF m = 0 THEN <<>> ELSE next(m)]
  BY DEF Orders
<1> HIDE DEF next
<1>2. g[0] = <<>> /\ \A m \in 1 .. n : g[m] = next(m)
  BY <1>1
<1> QED BY <1>2 DEF next

LEMMA OrderExists ==
  ASSUME NEW S, NEW n \in Nat
  PROVE  \E g \in [0 .. n -> Seq(1 .. n)] : Orders(S, n, g)
<1> DEFINE E    == Seq(1 .. n)
           step == [m \in 1 .. n |-> [s \in E |-> IF m \in S THEN Append(s, m) ELSE s]]
<1>1. <<>> \in E
  OBVIOUS
<1>2. step \in [1 .. n -> [E -> E]]
  <2>1. ASSUME NEW m \in 1 .. n, NEW s \in E
        PROVE  (IF m \in S THEN Append(s, m) ELSE s) \in E
    <3> DEFINE D == 1 .. n
    <3>1. m \in D /\ s \in Seq(D)
      OBVIOUS
    <3> HIDE DEF D
    <3>2. Append(s, m) \in Seq(D)
      BY <3>1
    <3> QED BY <3>1, <3>2 DEF D
  <2> QED BY <2>1
<1>3. \A m \in 1 .. n : \A s \in E : step[m][s] = IF m \in S THEN Append(s, m) ELSE s
  OBVIOUS
<1> HIDE DEF E, step
<1>4. PICK g \in [0 .. n -> E] : Run(n, <<>>, step, g)
  BY <1>1, <1>2, RunExists
<1>5. ASSUME NEW m \in 0 .. n
      PROVE  g[m] = IF m = 0 THEN <<>> ELSE IF m \in S THEN Append(g[m - 1], m) ELSE g[m - 1]
  <2>1. g[m] = IF m = 0 THEN <<>> ELSE step[m][g[m - 1]]
    BY <1>4 DEF Run
  <2>2. CASE m = 0
    BY <2>1, <2>2
  <2>3. CASE m # 0
    <3>1. m \in 1 .. n /\ g[m - 1] \in E
      BY <2>3
    <3> QED BY <1>3, <2>1, <2>3, <3>1
  <2> QED BY <2>2, <2>3
<1>6. Orders(S, n, g)
  BY <1>5 DEF Orders
<1> QED BY <1>6 DEF E

(* Two runs over sets that agree agree.                                    *)
LEMMA OrdersAgree ==
  ASSUME NEW S, NEW R, NEW n \in Nat, NEW k \in Nat, NEW g, NEW h,
         Orders(S, n, g), Orders(R, k, h),
         NEW b \in Nat, b <= n, b <= k, \A m \in 1 .. b : m \in S <=> m \in R
  PROVE  g[b] = h[b]
<1> DEFINE A == {m \in Nat : m <= b => g[m] = h[m]}
<1>1. 0 \in A
  BY OrderAt
<1>2. ASSUME NEW m \in Nat, m \in A PROVE m + 1 \in A
  <2> SUFFICES ASSUME m + 1 <= b PROVE g[m + 1] = h[m + 1]
    OBVIOUS
  <2>1. /\ g[m] = h[m] /\ m + 1 \in 1 .. n /\ m + 1 \in 1 .. k /\ (m + 1) - 1 = m
        /\ (m + 1 \in S <=> m + 1 \in R)
    BY <1>2
  <2>2. /\ g[m + 1] = IF m + 1 \in S THEN Append(g[(m + 1) - 1], m + 1) ELSE g[(m + 1) - 1]
        /\ h[m + 1] = IF m + 1 \in R THEN Append(h[(m + 1) - 1], m + 1) ELSE h[(m + 1) - 1]
    BY <2>1, OrderAt
  <2> QED BY <2>1, <2>2
<1> HIDE DEF A
<1>3. b \in A
  BY <1>1, <1>2, CountUp
<1> QED BY <1>3 DEF A

LEMMA OrderedIs ==
  ASSUME NEW S, NEW n \in Nat
  PROVE  \E g \in [0 .. n -> Seq(1 .. n)] :
           Orders(S, n, g) /\ \A m \in 0 .. n : Ordered(S, m) = g[m]
<1>1. PICK g \in [0 .. n -> Seq(1 .. n)] : Orders(S, n, g)
  BY OrderExists
<1>2. ASSUME NEW m \in 0 .. n PROVE Ordered(S, m) = g[m]
  <2> DEFINE upto == CHOOSE h : Orders(S, m, h)
  <2>0. m \in Nat
    OBVIOUS
  <2>1. Orders(S, m, upto)
    BY <2>0, OrderExists
  <2>2. Ordered(S, m) = upto[m]
    BY DEF Ordered, Orders
  <2> HIDE DEF upto
  <2>3. upto[m] = g[m]
    BY <1>1, <2>0, <2>1, OrdersAgree
  <2> QED BY <2>2, <2>3
<1> QED BY <1>1, <1>2

LEMMA OrderedMore ==
  ASSUME NEW S
  PROVE  /\ Ordered(S, 0) = <<>>
         /\ \A n \in Nat : Ordered(S, n + 1) = IF n + 1 \in S THEN Append(Ordered(S, n), n + 1)
                                                ELSE Ordered(S, n)
<1>1. Ordered(S, 0) = <<>>
  <2>1. 0 \in Nat /\ 0 \in 0 .. 0
    OBVIOUS
  <2>2. PICK g : Orders(S, 0, g) /\ \A m \in 0 .. 0 : Ordered(S, m) = g[m]
    BY <2>1, OrderedIs
  <2> QED BY <2>1, <2>2, OrderAt
<1>2. ASSUME NEW n \in Nat
      PROVE  Ordered(S, n + 1) = IF n + 1 \in S THEN Append(Ordered(S, n), n + 1) ELSE Ordered(S, n)
  <2>1. n + 1 \in Nat /\ n \in 0 .. n + 1 /\ n + 1 \in 0 .. n + 1 /\ n + 1 \in 1 .. n + 1
        /\ (n + 1) - 1 = n
    OBVIOUS
  <2> DEFINE k == n + 1
  <2>k. k \in Nat
    BY <2>1
  <2> HIDE DEF k
  <2>2. PICK g \in [0 .. k -> Seq(1 .. k)] : Orders(S, k, g) /\ \A m \in 0 .. k : Ordered(S, m) = g[m]
    BY <2>k, OrderedIs, Zenon
  <2> USE DEF k
  <2>3. g[k] = IF k \in S THEN Append(g[k - 1], k) ELSE g[k - 1]
    BY <2>1, <2>2, OrderAt, SMTT(60)
  <2> QED BY <2>1, <2>2, <2>3
<1> QED BY <1>1, <1>2

LEMMA OrderedLocal ==
  ASSUME NEW S, NEW R, NEW n \in Nat, \A m \in 1 .. n : m \in S <=> m \in R
  PROVE  Ordered(S, n) = Ordered(R, n)
<1>1. PICK g : Orders(S, n, g) /\ \A m \in 0 .. n : Ordered(S, m) = g[m]
  BY OrderedIs
<1>2. PICK h : Orders(R, n, h) /\ \A m \in 0 .. n : Ordered(R, m) = h[m]
  BY OrderedIs
<1>3. g[n] = h[n]
  BY <1>1, <1>2, OrdersAgree
<1> QED BY <1>1, <1>2, <1>3

(* What is ordered is a sequence of members, and every one of them stands  *)
(* where the numbers up to it end.                                         *)
LEMMA OrderedTyped ==
  ASSUME NEW S, NEW n \in Nat
  PROVE  /\ Ordered(S, n) \in Seq(1 .. n)
         /\ \A h \in 1 .. Len(Ordered(S, n)) : Ordered(S, n)[h] \in S
         /\ \A h \in 1 .. Len(Ordered(S, n)) :
              /\ Len(Ordered(S, Ordered(S, n)[h])) = h
              /\ Ordered(S, Ordered(S, n)[h])[h] = Ordered(S, n)[h]
<1> DEFINE Fine(k) ==
             LET s == Ordered(S, k)
             IN  /\ s \in Seq(1 .. k)
                 /\ \A h \in 1 .. Len(s) : s[h] \in S
                 /\ \A h \in 1 .. Len(s) : Len(Ordered(S, s[h])) = h /\ Ordered(S, s[h])[h] = s[h]
           A == {k \in Nat : Fine(k)}
<1>1. 0 \in A
  <2> DEFINE s == Ordered(S, 0)
  <2>1. s = <<>>
    BY OrderedMore
  <2> HIDE DEF s
  <2>2. /\ s \in Seq(1 .. 0) /\ \A h \in 1 .. Len(s) : s[h] \in S
        /\ \A h \in 1 .. Len(s) : Len(Ordered(S, s[h])) = h /\ Ordered(S, s[h])[h] = s[h]
    BY <2>1
  <2> QED BY <2>2 DEF s
<1>2. ASSUME NEW k \in Nat, k \in A PROVE k + 1 \in A
  <2> DEFINE s == Ordered(S, k)
             t == Ordered(S, k + 1)
  <2>1. t = IF k + 1 \in S THEN Append(s, k + 1) ELSE s
    BY OrderedMore
  <2>2. /\ s \in Seq(1 .. k) /\ \A h \in 1 .. Len(s) : s[h] \in S
        /\ \A h \in 1 .. Len(s) : Len(Ordered(S, s[h])) = h /\ Ordered(S, s[h])[h] = s[h]
    BY <1>2
  <2>3. s \in Seq(1 .. k + 1)
    <3>1. Len(s) \in Nat /\ s = [h \in 1 .. Len(s) |-> s[h]] /\ \A h \in 1 .. Len(s) : s[h] \in 1 .. k
      BY <2>2
    <3>2. \A h \in 1 .. Len(s) : s[h] \in 1 .. k + 1
      BY <3>1
    <3> HIDE DEF s
    <3> QED BY <3>1, <3>2
  <2>4. CASE k + 1 \notin S
    <3>1. t = s
      BY <2>1, <2>4
    <3> HIDE DEF s, t
    <3>2. /\ t \in Seq(1 .. k + 1) /\ \A h \in 1 .. Len(t) : t[h] \in S
          /\ \A h \in 1 .. Len(t) : Len(Ordered(S, t[h])) = h /\ Ordered(S, t[h])[h] = t[h]
      BY <2>2, <2>3, <3>1
    <3> QED BY <3>2 DEF t
  <2>5. CASE k + 1 \in S
    <3>1. t = Append(s, k + 1) /\ Ordered(S, k + 1) = t
      BY <2>1, <2>5
    <3> HIDE DEF s, t
    <3>2. /\ t \in Seq(1 .. k + 1) /\ Len(s) \in Nat /\ Len(t) = Len(s) + 1 /\ t[Len(s) + 1] = k + 1
          /\ \A h \in 1 .. Len(s) : t[h] = s[h]
      BY <2>3, <3>1
    <3>3. ASSUME NEW h \in 1 .. Len(t)
          PROVE  t[h] \in S /\ Len(Ordered(S, t[h])) = h /\ Ordered(S, t[h])[h] = t[h]
      <4>1. CASE h \in 1 .. Len(s)
        BY <2>2, <3>2, <4>1
      <4>2. CASE h = Len(s) + 1
        BY <2>5, <3>1, <3>2, <4>2
      <4> QED BY <3>2, <4>1, <4>2
    <3> QED BY <3>2, <3>3 DEF t
  <2> QED BY <2>4, <2>5
<1> HIDE DEF A
<1>3. n \in A
  BY <1>1, <1>2, CountUp
<1> QED BY <1>3 DEF A

(* s is a beginning of t.                                                  *)
Begins(s, t) == Len(s) <= Len(t) /\ \A i \in 1 .. Len(s) : s[i] = t[i]

LEMMA OrderedPrefix ==
  ASSUME NEW S, NEW m \in Nat, NEW n \in Nat, m <= n
  PROVE  Begins(Ordered(S, m), Ordered(S, n))
<1> DEFINE s == Ordered(S, m)
           A == {k \in Nat : Begins(s, Ordered(S, m + k))}
<1>0. s \in Seq(1 .. m)
  BY OrderedTyped
<1>1. 0 \in A
  BY <1>0 DEF Begins
<1>2. ASSUME NEW k \in Nat, k \in A PROVE k + 1 \in A
  <2> DEFINE j == m + k
             u == Ordered(S, j)
  <2>1. j \in Nat /\ m + (k + 1) = j + 1
    OBVIOUS
  <2>2. u \in Seq(1 .. j)
    BY <2>1, OrderedTyped
  <2>3. Ordered(S, j + 1) = IF j + 1 \in S THEN Append(u, j + 1) ELSE u
    BY <2>1, OrderedMore
  <2>4. Begins(s, u)
    BY <1>2
  <2> HIDE DEF s, u, j
  <2>5. Begins(s, Append(u, j + 1))
    BY <1>0, <2>1, <2>2, <2>4 DEF Begins
  <2>6. Begins(s, Ordered(S, j + 1))
    BY <2>3, <2>4, <2>5
  <2> QED BY <2>1, <2>6
<1> HIDE DEF A
<1>3. n - m \in Nat /\ m + (n - m) = n
  OBVIOUS
<1>4. n - m \in A
  BY <1>1, <1>2, <1>3, CountUp
<1> QED BY <1>3, <1>4 DEF A

LEMMA WiderRange ==
  ASSUME NEW S, NEW T, NEW s \in Seq(S), S \subseteq T
  PROVE  s \in Seq(T)
<1>1. Len(s) \in Nat /\ s = [i \in 1 .. Len(s) |-> s[i]] /\ \A i \in 1 .. Len(s) : s[i] \in S
  OBVIOUS
<1>2. \A i \in 1 .. Len(s) : s[i] \in T
  BY <1>1
<1> QED BY <1>1, <1>2

LEMMA AppendLast ==
  ASSUME NEW T, NEW s \in Seq(T), NEW u \in Seq(T), NEW x \in T
  PROVE  Append(s \o u, x) = s \o Append(u, x)
<1> DEFINE v == Append(s \o u, x)
           w == s \o Append(u, x)
<1>1. /\ Len(s) \in Nat /\ Len(u) \in Nat
      /\ s \o u \in Seq(T) /\ Append(u, x) \in Seq(T)
      /\ Len(s \o u) = Len(s) + Len(u) /\ Len(Append(u, x)) = Len(u) + 1
  OBVIOUS
<1>2. v \in Seq(T) /\ w \in Seq(T) /\ Len(v) = Len(s) + Len(u) + 1 /\ Len(w) = Len(s) + Len(u) + 1
  BY <1>1
<1>3. ASSUME NEW i \in 1 .. Len(s) + Len(u) + 1 PROVE v[i] = w[i]
  <2>1. CASE i \in 1 .. Len(s)
    BY <1>1, <2>1
  <2>2. CASE i \in Len(s) + 1 .. Len(s) + Len(u)
    <3>1. v[i] = (s \o u)[i] /\ (s \o u)[i] = u[i - Len(s)]
      BY <1>1, <2>2
    <3>2. w[i] = Append(u, x)[i - Len(s)] /\ Append(u, x)[i - Len(s)] = u[i - Len(s)]
      BY <1>1, <2>2
    <3> QED BY <3>1, <3>2
  <2>3. CASE i = Len(s) + Len(u) + 1
    <3>1. v[i] = x
      BY <1>1, <2>3
    <3>2. w[i] = Append(u, x)[Len(u) + 1] /\ Append(u, x)[Len(u) + 1] = x
      BY <1>1, <2>3
    <3> QED BY <3>1, <3>2
  <2> QED BY <1>1, <2>1, <2>2, <2>3
<1> HIDE DEF v, w
<1>4. Len(v) = Len(w) /\ \A i \in 1 .. Len(v) : v[i] = w[i]
  BY <1>2, <1>3
<1>5. v = w
  BY <1>2, <1>4, SeqEqual
<1> QED BY <1>5 DEF v, w

LEMMA OrderedSplit ==
  ASSUME NEW S, NEW a \in Nat, NEW b \in Nat, a <= b
  PROVE  Ordered(S, b) = Ordered(S, a) \o Ordered({m \in S : m > a}, b)
<1> DEFINE s == Ordered(S, a)
           R == {m \in S : m > a}
           A == {k \in Nat : Ordered(S, a + k) = s \o Ordered(R, a + k)}
<1>0. s \in Seq(1 .. a)
  BY OrderedTyped
<1>1. 0 \in A
  <2>1. Ordered(R, a) = Ordered({}, a)
    <3>1. \A m \in 1 .. a : m \in R <=> m \in {}
      OBVIOUS
    <3> HIDE DEF R
    <3> QED BY <3>1, OrderedLocal
  <2>2. Ordered({}, a) = <<>>
    <3> DEFINE e == Ordered({}, a)
    <3>1. e \in Seq(1 .. a) /\ \A h \in 1 .. Len(e) : e[h] \in {}
      BY OrderedTyped
    <3> HIDE DEF e
    <3>2. Len(e) \in Nat /\ \A h \in 1 .. Len(e) : FALSE
      BY <3>1
    <3>3. Len(e) = 0
      BY <3>2
    <3> QED BY <3>1, <3>3 DEF e
  <2>3. s \o <<>> = s
    BY <1>0
  <2>4. a + 0 = a
    OBVIOUS
  <2> HIDE DEF R
  <2> QED BY <2>1, <2>2, <2>3, <2>4
<1>2. ASSUME NEW k \in Nat, k \in A PROVE k + 1 \in A
  <2> DEFINE j == a + k
             u == Ordered(R, j)
  <2>1. j \in Nat /\ a + (k + 1) = j + 1 /\ (j + 1 \in R <=> j + 1 \in S)
    OBVIOUS
  <2> HIDE DEF R, s, u, j
  <2>2. u \in Seq(1 .. j)
    BY <2>1, OrderedTyped DEF u
  <2>3. /\ Ordered(S, j + 1) = IF j + 1 \in S THEN Append(Ordered(S, j), j + 1) ELSE Ordered(S, j)
        /\ Ordered(R, j + 1) = IF j + 1 \in R THEN Append(u, j + 1) ELSE u
    BY <2>1, OrderedMore DEF u
  <2>4. Ordered(S, j) = s \o u
    BY <1>2 DEF u, j
  <2>5. Append(s \o u, j + 1) = s \o Append(u, j + 1)
    <3>1. 1 .. a \subseteq Nat /\ 1 .. j \subseteq Nat /\ j + 1 \in Nat
      BY <2>1
    <3>2. s \in Seq(Nat) /\ u \in Seq(Nat)
      BY <1>0, <2>2, <3>1, WiderRange
    <3> DEFINE x == j + 1
               T == Nat
    <3>3. s \in Seq(T) /\ u \in Seq(T) /\ x \in T
      BY <3>1, <3>2
    <3> HIDE DEF x, T
    <3>4. Append(s \o u, x) = s \o Append(u, x)
      BY <3>3, AppendLast, SMTT(60)
    <3> QED BY <3>4 DEF x
  <2>6. Ordered(S, j + 1) = s \o Ordered(R, j + 1)
    <3>1. CASE j + 1 \in R
      BY <2>1, <2>3, <2>4, <2>5, <3>1
    <3>2. CASE j + 1 \notin R
      BY <2>1, <2>3, <2>4, <3>2
    <3> QED BY <3>1, <3>2
  <2> QED BY <2>1, <2>6 DEF j
<1> HIDE DEF A
<1>3. b - a \in Nat /\ a + (b - a) = b
  OBVIOUS
<1>4. b - a \in A
  BY <1>1, <1>2, <1>3, CountUp
<1> QED BY <1>3, <1>4 DEF A
-----------------------------------------------------------------------------
(* What the rulebook takes, and where an epoch ends, depends on the lines  *)
(* up to there.                                                            *)
LEMMA TakesLocal ==
  ASSUME NEW lines, NEW more, NEW n \in Nat, \A i \in 1 .. n : lines[i] = more[i],
         NEW i \in 1 .. n
  PROVE  Takes(lines, i) <=> Takes(more, i)
<1>1. lines[i] = more[i] /\ \A j \in 1 .. i - 1 : lines[j] = more[j]
  OBVIOUS
<1> QED BY <1>1 DEF Takes, Settles

LEMMA TakenLocal ==
  ASSUME NEW lines, NEW more, NEW a, NEW b \in Nat, \A i \in 1 .. b : lines[i] = more[i]
  PROVE  Taken(lines, a, b) = Taken(more, a, b)
<1>1. \A i \in 1 .. b : i \in {j \in a .. b : Takes(lines, j)} <=> i \in {j \in a .. b : Takes(more, j)}
  <2> SUFFICES ASSUME NEW i \in 1 .. b
               PROVE  Takes(lines, i) <=> Takes(more, i)
    OBVIOUS
  <2> QED BY TakesLocal
<1> DEFINE S == {j \in a .. b : Takes(lines, j)}
           R == {j \in a .. b : Takes(more, j)}
<1>2. \A i \in 1 .. b : i \in S <=> i \in R
  BY <1>1
<1> HIDE DEF S, R
<1>3. Ordered(S, b) = Ordered(R, b)
  BY <1>2, OrderedLocal
<1> QED BY <1>3 DEF S, R, Taken

LEMMA TakenTyped ==
  ASSUME NEW lines, NEW a, NEW b \in Nat
  PROVE  /\ Taken(lines, a, b) \in Seq(1 .. b)
         /\ \A n \in 1 .. Len(Taken(lines, a, b)) : Taken(lines, a, b)[n] \in a .. b
<1> DEFINE S == {j \in a .. b : Takes(lines, j)}
<1>1. S \subseteq a .. b
  OBVIOUS
<1> HIDE DEF S
<1>2. /\ Ordered(S, b) \in Seq(1 .. b)
      /\ \A n \in 1 .. Len(Ordered(S, b)) : Ordered(S, b)[n] \in S
  BY OrderedTyped
<1> QED BY <1>1, <1>2 DEF S, Taken

(* Closes, as a sequence of numbers of lines.                              *)
LEMMA ClosesTyped ==
  ASSUME NEW lines, DOMAIN lines = 1 .. Len(lines), Len(lines) \in Nat
  PROVE  /\ Closes(lines) \in Seq(1 .. Len(lines)) /\ Epochs(lines) \in Nat
         /\ \A h \in 1 .. Epochs(lines) :
              Closes(lines)[h] \in 1 .. Len(lines) /\ lines[Closes(lines)[h]].k = "close"
<1> DEFINE S == {i \in DOMAIN lines : lines[i].k = "close"}
           l == Len(lines)
<1>1. /\ Ordered(S, l) \in Seq(1 .. l)
      /\ \A h \in 1 .. Len(Ordered(S, l)) : Ordered(S, l)[h] \in S
  <2> HIDE DEF S
  <2> QED BY OrderedTyped
<1>2. Closes(lines) = Ordered(S, l)
  BY DEF Closes
<1>3. \A x \in S : x \in 1 .. l /\ lines[x].k = "close"
  OBVIOUS
<1> HIDE DEF S, l
<1>4. Closes(lines) \in Seq(1 .. l) /\ Len(Closes(lines)) \in Nat
      /\ \A h \in 1 .. Len(Closes(lines)) : Closes(lines)[h] \in S
  BY <1>1, <1>2
<1> QED BY <1>3, <1>4 DEF l, Epochs

LEMMA ClosesLocal ==
  ASSUME NEW lines, DOMAIN lines = 1 .. Len(lines), Len(lines) \in Nat,
         NEW more, DOMAIN more = 1 .. Len(more), Len(more) \in Nat,
         Begins(lines, more)
  PROVE  Begins(Closes(lines), Closes(more)) /\ Epochs(lines) <= Epochs(more)
<1> DEFINE S == {i \in DOMAIN lines : lines[i].k = "close"}
           R == {i \in DOMAIN more : more[i].k = "close"}
           l == Len(lines)
           m == Len(more)
<1>1. \A i \in 1 .. l : i \in S <=> i \in R
  BY DEF Begins
<1>2. Closes(lines) = Ordered(S, l) /\ Closes(more) = Ordered(R, m) /\ l <= m
  BY DEF Closes, Begins
<1> HIDE DEF S, R, l, m
<1>3. l \in Nat /\ m \in Nat
  BY DEF l, m
<1>4. Ordered(S, l) = Ordered(R, l)
  BY <1>1, <1>3, OrderedLocal
<1>5. Begins(Ordered(R, l), Ordered(R, m))
  BY <1>2, <1>3, OrderedPrefix
<1> QED BY <1>2, <1>4, <1>5 DEF Begins, Epochs

LEMMA OrderedAscends ==
  ASSUME NEW S, NEW n \in Nat, NEW h \in 1 .. Len(Ordered(S, n)),
         NEW k \in 1 .. Len(Ordered(S, n)), h < k
  PROVE  Ordered(S, n)[h] < Ordered(S, n)[k]
<1> DEFINE s == Ordered(S, n)
           e == s[k]
           u == Ordered(S, e)
<1>1. s \in Seq(1 .. n) /\ Len(Ordered(S, s[k])) = k /\ Len(Ordered(S, s[h])) = h
  BY OrderedTyped
<1>2. e \in 1 .. n /\ s[h] \in 1 .. n /\ Len(u) = k
  BY <1>1
<1>3. u \in Seq(1 .. e) /\ Begins(u, s)
  BY <1>2, OrderedTyped, OrderedPrefix
<1>4. u[h] = s[h]
  BY <1>2, <1>3 DEF Begins
<1>5. u[h] \in 1 .. e
  BY <1>2, <1>3
<1>6. s[h] # e
  <2> HIDE DEF s
  <2> SUFFICES ASSUME s[h] = s[k] PROVE h = k
    OBVIOUS
  <2> QED BY <1>1
<1> QED BY <1>2, <1>4, <1>5, <1>6
-----------------------------------------------------------------------------
IsLog(lines) == DOMAIN lines = 1 .. Len(lines) /\ Len(lines) \in Nat

Start(lines, h) == IF h = 1 THEN 1 ELSE Closes(lines)[h - 1] + 1

LEMMA EpochBounds ==
  ASSUME NEW lines, IsLog(lines), NEW h \in 1 .. Epochs(lines)
  PROVE  /\ Closes(lines)[h] \in 1 .. Len(lines) /\ lines[Closes(lines)[h]].k = "close"
         /\ Start(lines, h) \in 1 .. Closes(lines)[h]
<1> DEFINE S == {i \in DOMAIN lines : lines[i].k = "close"}
           s == Closes(lines)
<1>1. /\ s \in Seq(1 .. Len(lines)) /\ Epochs(lines) \in Nat /\ Epochs(lines) = Len(s)
      /\ \A k \in 1 .. Epochs(lines) : s[k] \in 1 .. Len(lines) /\ lines[s[k]].k = "close"
  BY ClosesTyped DEF IsLog, Epochs
<1>2. \A j, k \in 1 .. Len(s) : j < k => s[j] < s[k]
  BY OrderedAscends DEF Closes, IsLog
<1> HIDE DEF s, S
<1>3. Start(lines, h) \in 1 .. s[h]
  <2>1. CASE h = 1
    BY <1>1, <2>1 DEF Start
  <2>2. CASE h # 1
    <3>1. h - 1 \in 1 .. Epochs(lines) /\ h - 1 < h
      BY <1>1, <2>2
    <3>2. s[h - 1] < s[h] /\ s[h - 1] \in 1 .. Len(lines) /\ s[h] \in 1 .. Len(lines)
      BY <1>1, <1>2, <3>1
    <3>3. Start(lines, h) = s[h - 1] + 1
      BY <2>2 DEF Start, s
    <3> QED BY <3>2, <3>3
  <2> QED BY <2>1, <2>2
<1> QED BY <1>1, <1>3 DEF s

LEMMA AtLocal ==
  ASSUME NEW b \in Nat, NEW lines, NEW more, \A i \in 1 .. b : lines[i] = more[i],
         NEW idx \in Seq(1 .. b)
  PROVE  At(lines, idx) = At(more, idx)
<1>1. \A n \in DOMAIN idx : lines[idx[n]] = more[idx[n]]
  OBVIOUS
<1> QED BY <1>1 DEF At

(* A block of an epoch is computed from the lines up to its close.         *)
LEMMA SealLocal ==
  ASSUME NEW lines, IsLog(lines), NEW more, IsLog(more), Begins(lines, more),
         NEW h \in 1 .. Epochs(lines), NEW prev, NEW ed
  PROVE  Seal(lines, h, prev, ed) = Seal(more, h, prev, ed)
<1> DEFINE end   == Closes(lines)[h]
           start == Start(lines, h)
<1>1. end \in 1 .. Len(lines) /\ start \in 1 .. end
  BY EpochBounds
<1>2. Closes(more)[h] = end /\ Start(more, h) = start
  <2>1. Begins(Closes(lines), Closes(more)) /\ Epochs(lines) \in Nat
    BY ClosesLocal, ClosesTyped DEF IsLog
  <2>2. \A k \in 1 .. Epochs(lines) : Closes(more)[k] = Closes(lines)[k]
    BY <2>1 DEF Begins, Epochs
  <2>3. h # 1 => h - 1 \in 1 .. Epochs(lines)
    BY <2>1
  <2> QED BY <2>2, <2>3 DEF Start
<1> HIDE DEF end, start
<1>3. Len(lines) \in Nat /\ end \in Nat /\ end - 1 \in Nat /\ start \in Nat /\ start >= 1
      /\ end - 1 <= end
  BY <1>1 DEF IsLog
<1>4. \A i \in 1 .. end : lines[i] = more[i]
  BY <1>1, <1>3 DEF Begins
<1> DEFINE last == end - 1
<1>5. /\ Taken(lines, start, last) = Taken(more, start, last)
      /\ Taken(lines, 1, end) = Taken(more, 1, end)
  <2>1. Taken(lines, start, last) = Taken(more, start, last)
    <3>1. \A i \in 1 .. last : lines[i] = more[i]
      BY <1>3, <1>4
    <3>2. last \in Nat
      BY <1>3
    <3> HIDE DEF last
    <3> QED BY <3>1, <3>2, TakenLocal
  <2>2. Taken(lines, 1, end) = Taken(more, 1, end)
    BY <1>3, <1>4, TakenLocal
  <2> QED BY <2>1, <2>2
<1>6. /\ At(lines, Taken(lines, start, last)) = At(more, Taken(lines, start, last))
      /\ At(lines, Taken(lines, 1, end)) = At(more, Taken(lines, 1, end))
  <2>1. Taken(lines, start, last) \in Seq(1 .. last) /\ last \in Nat
    BY <1>3, TakenTyped
  <2>2. \A i \in 1 .. last : lines[i] = more[i]
    BY <1>3, <1>4
  <2>3. Taken(lines, 1, end) \in Seq(1 .. end)
    BY <1>3, TakenTyped
  <2> HIDE DEF last
  <2> QED BY <1>3, <1>4, <2>1, <2>2, <2>3, AtLocal, SMTT(60)
<1>7. {i \in start .. end : ~Takes(lines, i)} = {i \in start .. end : ~Takes(more, i)}
  <2>1. ASSUME NEW i \in start .. end PROVE Takes(lines, i) <=> Takes(more, i)
    <3>1. i \in 1 .. end
      BY <1>3
    <3> QED BY <1>3, <1>4, <3>1, TakesLocal
  <2> QED BY <2>1
<1>8. lines[end].stamp = more[end].stamp
  BY <1>1, <1>4
<1>9. Package(lines, end) = Package(more, end)
  BY <1>5, <1>6 DEF Package
<1> DEFINE skip(l) == Cardinality({i \in start .. end : ~Takes(l, i)})
           pay(l)  == At(l, Taken(l, start, last))
<1>10. skip(lines) = skip(more) /\ pay(lines) = pay(more)
  BY <1>5, <1>6, <1>7
<1>11. \A l : Closes(l)[h] = end /\ Start(l, h) = start =>
         Seal(l, h, prev, ed) =
           [height |-> h, prev |-> prev, range |-> <<start, end>>, time |-> l[end].stamp,
            acts |-> Structures(pay(l)), payloads |-> pay(l), skipped |-> skip(l),
            package |-> Package(l, end), edition |-> ed]
  BY DEF Seal, Start
<1> HIDE DEF skip, pay
<1> QED BY <1>2, <1>8, <1>9, <1>10, <1>11 DEF end, start

LEMMA ReproducesLocal ==
  ASSUME NEW lines, IsLog(lines), NEW more, IsLog(more), Begins(lines, more),
         NEW blocks, IsLog(blocks), Len(blocks) <= Epochs(lines), NEW ed,
         Reproduces(lines, blocks, ed)
  PROVE  Reproduces(more, blocks, ed) /\ Len(blocks) <= Epochs(more)
<1>1. Epochs(lines) \in Nat /\ Epochs(more) \in Nat /\ Epochs(lines) <= Epochs(more)
  BY ClosesLocal, ClosesTyped DEF IsLog
<1>2. ASSUME NEW h \in DOMAIN blocks
      PROVE  blocks[h].derived = Reseal(more, blocks, h, ed)
  <2>1. h \in 1 .. Epochs(lines) /\ h <= Epochs(lines)
    BY <1>1 DEF IsLog
  <2>2. blocks[h].derived = Reseal(lines, blocks, h, ed)
    BY <2>1 DEF Reproduces
  <2>3. Reseal(lines, blocks, h, ed) = Reseal(more, blocks, h, ed)
    BY <2>1, SealLocal DEF Reseal
  <2> QED BY <2>2, <2>3
<1> QED BY <1>1, <1>2 DEF Reproduces, IsLog
-----------------------------------------------------------------------------
(* A sequence, whatever its elements are.                                  *)
IsSeq(s) == s \in Seq(ToSet(s))

LEMMA SeqIs ==
  ASSUME NEW S, NEW s \in Seq(S)
  PROVE  IsSeq(s)
<1>1. Len(s) \in Nat /\ DOMAIN s = 1 .. Len(s) /\ s = [i \in 1 .. Len(s) |-> s[i]]
  OBVIOUS
<1>2. \A i \in 1 .. Len(s) : s[i] \in ToSet(s)
  BY <1>1 DEF ToSet
<1> QED BY <1>1, <1>2 DEF IsSeq

LEMMA SeqParts ==
  ASSUME NEW s, IsSeq(s)
  PROVE  IsLog(s) /\ s = [i \in 1 .. Len(s) |-> s[i]]
BY DEF IsSeq, IsLog

LEMMA SameSeq ==
  ASSUME NEW s, IsSeq(s), NEW t, IsSeq(t), Len(s) = Len(t), \A i \in 1 .. Len(s) : s[i] = t[i]
  PROVE  s = t
<1>1. s = [i \in 1 .. Len(s) |-> s[i]] /\ t = [i \in 1 .. Len(t) |-> t[i]]
  BY SeqParts
<1> QED BY <1>1

LEMMA AppendIs ==
  ASSUME NEW s, IsSeq(s), NEW x
  PROVE  /\ IsSeq(Append(s, x)) /\ Len(Append(s, x)) = Len(s) + 1
         /\ Append(s, x)[Len(s) + 1] = x /\ \A i \in 1 .. Len(s) : Append(s, x)[i] = s[i]
<1> DEFINE T == ToSet(s) \cup {x}
<1>1. s \in Seq(T)
  BY WiderRange DEF IsSeq
<1>2. x \in T
  OBVIOUS
<1> HIDE DEF T
<1>3. Append(s, x) \in Seq(T)
  BY <1>1, <1>2
<1>4. IsSeq(Append(s, x))
  BY <1>3, SeqIs
<1> QED BY <1>1, <1>2, <1>4

LEMMA SubSeqIs ==
  ASSUME NEW s, IsSeq(s), NEW h \in 0 .. Len(s)
  PROVE  /\ IsSeq(SubSeq(s, 1, h)) /\ Len(SubSeq(s, 1, h)) = h
         /\ \A i \in 1 .. h : SubSeq(s, 1, h)[i] = s[i]
<1> DEFINE T == ToSet(s)
<1>1. s \in Seq(T) /\ Len(s) \in Nat
  BY DEF IsSeq
<1> HIDE DEF T
<1>2. h \in Nat /\ h <= Len(s) /\ \A i \in 1 .. h : s[i] \in T
  BY <1>1
<1> DEFINE u == SubSeq(s, 1, h)
<1>3. u \in Seq(T) /\ Len(u) = h /\ \A i \in 1 .. h : u[i] = s[i]
  BY <1>1, <1>2
<1>4. IsSeq(u)
  BY <1>3, SeqIs
<1> QED BY <1>3, <1>4

-----------------------------------------------------------------------------
(* The walk of the builder: the blocks there are, then one for each epoch  *)
(* beyond them.                                                            *)
Walked(lines, blocks, by, ed, done, h) ==
  IF h <= Len(blocks) THEN SubSeq(blocks, 1, h)
  ELSE Append(done, [derived |-> Reseal(lines, done, h, ed), by |-> by])

Walks(lines, blocks, by, ed, n, g) ==
  g = [h \in 0 .. n |-> Walked(lines, blocks, by, ed, g[h - 1], h)]

LEMMA WalkExists ==
  ASSUME NEW lines, NEW blocks, Len(blocks) \in Nat, NEW by, NEW ed, NEW n \in Nat
  PROVE  \E g : Walks(lines, blocks, by, ed, n, g)
<1> DEFINE W(done, h) == Walked(lines, blocks, by, ed, done, h)
           A == {m \in Nat : \E g : g = [h \in 0 .. m |-> W(g[h - 1], h)]}
<1>1. 0 \in A
  <2> DEFINE g == [h \in 0 .. 0 |-> SubSeq(blocks, 1, 0)]
  <2>1. \A done : W(done, 0) = SubSeq(blocks, 1, 0)
    BY DEF Walked
  <2> HIDE DEF W
  <2>2. g = [h \in 0 .. 0 |-> W(g[h - 1], h)]
    BY <2>1
  <2> QED BY <2>2
<1>2. ASSUME NEW m \in Nat, m \in A PROVE m + 1 \in A
  <2> HIDE DEF W
  <2>1. PICK g : g = [h \in 0 .. m |-> W(g[h - 1], h)]
    BY <1>2
  <2> DEFINE f == [h \in 0 .. m + 1 |-> IF h <= m THEN g[h] ELSE W(g[m], h)]
  <2>2. ASSUME NEW h \in 0 .. m + 1 PROVE f[h] = W(f[h - 1], h)
    <3>1. CASE h = 0
      <4>1. \A x, y : W(x, 0) = W(y, 0)
        BY DEF W, Walked
      <4>2. f[0] = g[0] /\ g[0] = W(g[0 - 1], 0)
        BY <2>1
      <4>3. W(g[0 - 1], 0) = W(f[0 - 1], 0)
        BY <4>1
      <4> QED BY <3>1, <4>2, <4>3
    <3>2. CASE h # 0 /\ h <= m
      <4>1. f[h] = g[h] /\ f[h - 1] = g[h - 1] /\ g[h] = W(g[h - 1], h)
        BY <2>1, <3>2
      <4> HIDE DEF f
      <4> QED BY <4>1
    <3>3. CASE h = m + 1
      <4>1. f[h] = W(g[m], h) /\ f[h - 1] = g[m]
        BY <3>3
      <4> HIDE DEF f
      <4> QED BY <4>1
    <3> QED BY <3>1, <3>2, <3>3
  <2>3. f = [h \in 0 .. m + 1 |-> f[h]]
    OBVIOUS
  <2> HIDE DEF f
  <2>4. f = [h \in 0 .. m + 1 |-> W(f[h - 1], h)]
    BY <2>2, <2>3
  <2> QED BY <2>4
<1> HIDE DEF A
<1>3. n \in A
  BY <1>1, <1>2, CountUp
<1> QED BY <1>3 DEF A, Walks

(* Its parts: as many blocks as epochs, first those there were, then new   *)
(* ones of this signer, each linked to the one before.                     *)
LEMMA ExtendedIs ==
  ASSUME NEW lines, IsLog(lines), NEW blocks, IsSeq(blocks), Len(blocks) <= Epochs(lines),
         NEW by, NEW ed
  PROVE  LET r == Extended(lines, blocks, by, ed)
         IN  /\ IsSeq(r) /\ Len(r) = Epochs(lines) /\ Begins(blocks, r)
             /\ \A k \in 1 .. Len(r) : k > Len(blocks) =>
                  r[k].by = by /\ r[k].derived = Reseal(lines, r, k, ed)
<1> DEFINE e == Epochs(lines)
           g == CHOOSE w : Walks(lines, blocks, by, ed, e, w)
<1>1. e \in Nat /\ Len(blocks) \in Nat
  BY ClosesTyped, SeqParts DEF IsLog
<1>2. Walks(lines, blocks, by, ed, e, g)
  BY <1>1, WalkExists
<1>3. Extended(lines, blocks, by, ed) = g[e]
  BY DEF Extended, Walks, Walked
<1> HIDE DEF e, g
<1>4. \A h \in 0 .. e : g[h] = Walked(lines, blocks, by, ed, g[h - 1], h)
  BY <1>2 DEF Walks
<1> DEFINE New(r, k) == r[k].by = by /\ r[k].derived = Reseal(lines, r, k, ed)
           Fine(r, h) == /\ IsSeq(r) /\ Len(r) = h
                         /\ \A k \in 1 .. h : k <= Len(blocks) => r[k] = blocks[k]
                         /\ \A k \in 1 .. h : k > Len(blocks) => New(r, k)
           A == {h \in Nat : h <= e => Fine(g[h], h)}
<1>5. ASSUME NEW h \in 0 .. e, h <= Len(blocks) PROVE Fine(g[h], h)
  <2>1. g[h] = SubSeq(blocks, 1, h)
    BY <1>4, <1>5 DEF Walked
  <2>2. h \in 0 .. Len(blocks)
    BY <1>1, <1>5
  <2>3. IsSeq(g[h]) /\ Len(g[h]) = h /\ \A i \in 1 .. h : g[h][i] = blocks[i]
    BY <2>1, <2>2, SubSeqIs
  <2>4. \A k \in 1 .. h : ~(k > Len(blocks))
    BY <1>1, <1>5
  <2> HIDE DEF New
  <2> QED BY <2>3, <2>4
<1>6. 0 \in A
  <2>1. 0 \in 0 .. e /\ 0 <= Len(blocks)
    BY <1>1
  <2> HIDE DEF Fine
  <2> QED BY <1>5, <2>1
<1>7. ASSUME NEW h \in Nat, h \in A PROVE h + 1 \in A
  <2> SUFFICES ASSUME h + 1 <= e PROVE Fine(g[h + 1], h + 1)
    OBVIOUS
  <2>1. h + 1 \in 0 .. e /\ h <= e /\ (h + 1) - 1 = h
    BY <1>1
  <2>2. Fine(g[h], h)
    BY <1>7, <2>1
  <2>3. CASE h + 1 <= Len(blocks)
    <3> HIDE DEF Fine
    <3> QED BY <1>5, <2>1, <2>3
  <2>4. CASE ~(h + 1 <= Len(blocks))
    <3> DEFINE done == g[h]
               x    == [derived |-> Reseal(lines, done, h + 1, ed), by |-> by]
               r    == Append(done, x)
    <3>1. g[h + 1] = r
      BY <1>4, <2>1, <2>4 DEF Walked
    <3>2. IsSeq(done) /\ Len(done) = h
      BY <2>2
    <3>3. /\ IsSeq(r) /\ Len(r) = h + 1 /\ r[h + 1] = x
          /\ \A i \in 1 .. h : r[i] = done[i]
      <4> HIDE DEF x, done
      <4> QED BY <3>2, AppendIs
    <3>4. x.by = by /\ x.derived = Reseal(lines, done, h + 1, ed)
      OBVIOUS
    <3>5. ASSUME NEW k \in 1 .. h + 1 PROVE Reseal(lines, r, k, ed) = Reseal(lines, done, k, ed)
      <4>1. k # 1 => k - 1 \in 1 .. h
        OBVIOUS
      <4> HIDE DEF r, done
      <4> QED BY <3>3, <4>1 DEF Reseal
    <3> HIDE DEF r, x
    <3>6. ASSUME NEW k \in 1 .. h + 1, k > Len(blocks) PROVE New(r, k)
      <4>1. CASE k = h + 1
        BY <3>3, <3>4, <3>5, <4>1
      <4>2. CASE k \in 1 .. h
        <5>1. New(done, k)
          <6> HIDE DEF New
          <6> QED BY <2>2, <3>6, <4>2
        <5> QED BY <3>3, <3>5, <4>2, <5>1
      <4> QED BY <4>1, <4>2
    <3>7. ASSUME NEW k \in 1 .. h + 1, k <= Len(blocks) PROVE r[k] = blocks[k]
      <4>1. k \in 1 .. h
        BY <1>1, <2>4, <3>7
      <4>2. done[k] = blocks[k]
        <5> HIDE DEF New
        <5> QED BY <2>2, <3>7, <4>1
      <4> QED BY <3>3, <4>1, <4>2
    <3> HIDE DEF New
    <3>8. Fine(r, h + 1)
      BY <3>3, <3>6, <3>7
    <3> QED BY <3>1, <3>8
  <2> QED BY <2>3, <2>4
<1> HIDE DEF A
<1>8. e \in A
  BY <1>1, <1>6, <1>7, CountUp
<1>9. Fine(g[e], e)
  BY <1>1, <1>8 DEF A
<1> DEFINE r == g[e]
<1> HIDE DEF New, r
<1>10. /\ IsSeq(r) /\ Len(r) = e
       /\ \A k \in 1 .. e : k <= Len(blocks) => r[k] = blocks[k]
       /\ \A k \in 1 .. e : k > Len(blocks) => New(r, k)
  BY <1>9 DEF r
<1>11. Begins(blocks, r)
  BY <1>1, <1>10 DEF Begins, e
<1> QED BY <1>3, <1>10, <1>11 DEF r, e, New

(* So the blocks of the whole log can be computed again from it.           *)
LEMMA ExtendedReproduces ==
  ASSUME NEW lines, IsLog(lines), NEW blocks, IsSeq(blocks), Len(blocks) <= Epochs(lines),
         NEW by, NEW ed, Reproduces(lines, blocks, ed)
  PROVE  Reproduces(lines, Extended(lines, blocks, by, ed), ed)
<1> DEFINE r == Extended(lines, blocks, by, ed)
<1>1. /\ IsSeq(r) /\ Len(r) = Epochs(lines) /\ Begins(blocks, r)
      /\ \A k \in 1 .. Len(r) : k > Len(blocks) => r[k].derived = Reseal(lines, r, k, ed)
  BY ExtendedIs
<1> HIDE DEF r
<1>2. DOMAIN r = 1 .. Len(r) /\ Len(r) \in Nat /\ DOMAIN blocks = 1 .. Len(blocks) /\ Len(blocks) \in Nat
  BY <1>1, SeqParts DEF IsLog
<1>3. ASSUME NEW h \in 1 .. Len(r) PROVE r[h].derived = Reseal(lines, r, h, ed)
  <2>1. CASE h > Len(blocks)
    BY <1>1, <2>1
  <2>2. CASE ~(h > Len(blocks))
    <3>1. h \in 1 .. Len(blocks) /\ h <= Epochs(lines) /\ r[h] = blocks[h]
      BY <1>1, <1>2, <2>2 DEF Begins
    <3>2. h # 1 => h - 1 \in 1 .. Len(blocks)
      BY <1>2, <3>1
    <3>3. h # 1 => r[h - 1] = blocks[h - 1]
      BY <1>1, <3>2 DEF Begins
    <3>4. blocks[h].derived = Reseal(lines, blocks, h, ed)
      BY <1>2, <3>1 DEF Reproduces
    <3>5. Reseal(lines, blocks, h, ed) = Reseal(lines, r, h, ed)
      BY <3>3 DEF Reseal
    <3> QED BY <3>1, <3>4, <3>5
  <2> QED BY <2>1, <2>2
<1>4. Reproduces(lines, r, ed)
  BY <1>2, <1>3 DEF Reproduces
<1> QED BY <1>4 DEF r
-----------------------------------------------------------------------------
(* A key made for the signer is no key of a block.                         *)
LEMMA SignerIsAKey ==
  ASSUME IsSeq(chain), IsChain(chain), key \in Nat
  PROVE  Signer \in Nat \ {0}
<1> DEFINE N == 1 .. Len(chain)
           f == [h \in N |-> chain[h].by]
           S == {0, key} \cup {chain[h].by : h \in DOMAIN chain}
<1>1. DOMAIN chain = N /\ Len(chain) \in Nat
  BY SeqParts DEF IsLog
<1>2. \A h \in N : f[h] \in Nat
  BY <1>1 DEF IsChain
<1>3. \A x : x \in S <=> x = 0 \/ x = key \/ \E h \in N : x = f[h]
  BY <1>1
<1>4. IsFiniteSet(N)
  <2>1. 1 \in Int /\ Len(chain) \in Int
    BY <1>1
  <2> QED BY <2>1, FS_Interval
<1> HIDE DEF f, S
<1>5. \/ \A h \in N : f[h] <= key
      \/ \E k \in N : f[k] >= key /\ \A h \in N : f[h] <= f[k]
  <2>1. key \in Int /\ \A h \in N : f[h] \in Int
    BY <1>2
  <2> HIDE DEF N
  <2> QED BY <1>4, <2>1, GreatestExists
<1>6. \E x \in S : \A y \in S : x >= y
  <2>1. CASE \A h \in N : f[h] <= key
    <3>1. key \in S /\ \A y \in S : key >= y
      BY <1>3, <2>1
    <3> QED BY <3>1
  <2>2. CASE \E k \in N : f[k] >= key /\ \A h \in N : f[h] <= f[k]
    <3>1. PICK k \in N : f[k] >= key /\ \A h \in N : f[h] <= f[k]
      BY <2>2
    <3>2. f[k] \in S /\ \A y \in S : f[k] >= y
      BY <1>2, <1>3, <3>1
    <3> QED BY <3>2
  <2> QED BY <1>5, <2>1, <2>2
<1>7. Max(S) \in S
  BY <1>6 DEF Max
<1>8. Max(S) \in Nat
  BY <1>2, <1>3, <1>7
<1>9. FreshKey = 1 + Max(S)
  BY DEF FreshKey, S
<1> QED BY <1>8, <1>9 DEF Signer

-----------------------------------------------------------------------------
(* What the files and the readers of them hold.                            *)
FilesInv ==
  /\ log \in Seq(Lines) /\ ghost \in Seq(Lines) /\ pending \in Seq(Lines)
  /\ build.acts \in Seq(Lines) /\ job.acts \in Seq(Lines) /\ archive.acts \in Seq(Lines)
  /\ pending # <<>> => Len(pending) = 1 /\ ghost # <<>>
  /\ troubles \in 0 .. MaxLines

LEMMA MarkTyped == Torn \in Lines /\ Scrap \in Lines
<1>1. 0 \in 0 .. MaxLines
  BY ChainAssumption
<1> QED BY <1>1 DEF Torn, Scrap, Lines

LEMMA OfferedTyped ==
  ASSUME FilesInv, Room(1), NEW line \in Offered
  PROVE  line \in Lines /\ line.k \in {"post", "settle", "close"}
<1>1. Len(log) + 1 \in 0 .. MaxLines /\ troubles \in 0 .. MaxLines /\ 0 \in 0 .. MaxLines
      /\ DOMAIN log = 1 .. Len(log) /\ Len(log) \in Nat /\ MaxLines \in Nat
  BY ChainAssumption DEF FilesInv, Room
<1>2. PICK k \in {"post", "settle", "close"}, ref \in 0 .. MaxLines :
        line = [k |-> k, stamp |-> <<Len(log) + 1, troubles>>, ref |-> ref]
  <2>1. \A p \in 1 .. Len(log) : p \in 0 .. MaxLines
    BY <1>1
  <2> QED BY <1>1, <2>1 DEF Offered
<1> QED BY <1>1, <1>2 DEF Lines

(* A write under way, and what it leaves in the file.                      *)
LEMMA AppendShape ==
  ASSUME FilesInv, StartAppend
  PROVE  \E line \in Lines, rest \in Seq(Lines), x \in Lines :
           /\ pending = <<>> /\ pending' = <<line>> /\ ghost' = <<x>> \o rest
           /\ line.k \in {"post", "settle", "close"} /\ (x = Torn \/ x = line)
           /\ ghost = <<>> => rest = <<>>
<1>1. PICK line \in Offered, rest \in {<<>>} \cup (IF ghost = <<>> THEN {} ELSE {<<Scrap>>}) :
        /\ pending' = <<line>>
        /\ ghost' \in {<<Torn>> \o rest, <<line>> \o rest}
  BY DEF StartAppend
<1>2. pending = <<>> /\ line \in Lines /\ line.k \in {"post", "settle", "close"}
  BY OfferedTyped DEF StartAppend
<1>3. rest \in Seq(Lines) /\ (ghost = <<>> => rest = <<>>)
  <2>1. <<>> \in Seq(Lines) /\ <<Scrap>> \in Seq(Lines)
    BY MarkTyped
  <2> QED BY <2>1
<1>4. \E x \in Lines : (x = Torn \/ x = line) /\ ghost' = <<x>> \o rest
  BY <1>1, <1>2, MarkTyped
<1> QED BY <1>1, <1>2, <1>3, <1>4

LEMMA FilesInit == Init => FilesInv
<1> SUFFICES ASSUME Init PROVE FilesInv
  OBVIOUS
<1>1. <<>> \in Seq(Lines)
  OBVIOUS
<1> QED BY <1>1, ChainAssumption DEF Init, FilesInv, Idle, NoJob

LEMMA FilesNext == FilesInv /\ [Next]_vars => FilesInv'
<1> SUFFICES ASSUME FilesInv, [Next]_vars PROVE FilesInv'
  OBVIOUS
<1> USE DEF FilesInv
<1>1. CASE StartAppend
  <2>1. PICK line \in Lines, rest \in Seq(Lines), x \in Lines :
          pending' = <<line>> /\ ghost' = <<x>> \o rest
    BY <1>1, AppendShape
  <2>2. <<line>> \in Seq(Lines) /\ Len(<<line>>) = 1 /\ <<x>> \in Seq(Lines) /\ Len(<<x>>) = 1
    OBVIOUS
  <2>3. ghost' \in Seq(Lines) /\ Len(ghost') = 1 + Len(rest) /\ Len(rest) \in Nat
    BY <2>1, <2>2
  <2>4. ghost' # <<>>
    BY <2>3
  <2> QED BY <1>1, <2>1, <2>2, <2>3, <2>4 DEF StartAppend, sealing
<1>2. CASE Synced
  <2>1. Tail(ghost) \in Seq(Lines) /\ log \o pending \in Seq(Lines)
    BY <1>2 DEF Synced
  <2> QED BY <1>2, <2>1 DEF Synced, sealing
<1>3. CASE ReadActs
  <2>1. log \o ghost \in Seq(Lines) /\ build'.acts = log \o ghost
    BY <1>3 DEF ReadActs, Idle
  <2> QED BY <1>3, <2>1 DEF ReadActs, files
<1>4. CASE \E rebuild \in BOOLEAN : SealBlocks(rebuild)
  <2>1. build'.acts = <<>>
    BY <1>4 DEF SealBlocks, Idle
  <2>2. UNCHANGED <<files, job, archive, troubles>>
    BY <1>4 DEF SealBlocks
  <2> QED BY <2>1, <2>2 DEF files
<1>5. CASE Publish \/ Project
  <2>1. build'.acts = <<>>
    BY <1>5 DEF Publish, Project, Idle
  <2> QED BY <1>5, <2>1 DEF Publish, Project, files
<1>6. CASE Fetching
  <2>0. <<>> \in Seq(Lines)
    OBVIOUS
  <2>1. job'.acts \in {<<>>, log}
    BY <1>6 DEF Fetching, Fetch
  <2> QED BY <1>6, <2>0, <2>1 DEF Fetching, files, sealing
<1>7. CASE Stage
  <2>1. job'.acts = <<>> /\ archive'.acts \in {job.acts, archive.acts}
    BY <1>7 DEF Stage, NoJob
  <2> QED BY <1>7, <2>1 DEF Stage, files, sealing
<1>8. CASE Troubled
  <2>1. troubles' \in 0 .. MaxLines
    BY <1>8, ChainAssumption DEF Troubled, AppendFails, WriterRestarts, BuilderCrashes,
       KeyLost, Upgrade, Trouble, Room
  <2>2. CASE AppendFails
    BY <2>1, <2>2 DEF AppendFails, sealing
  <2>3. CASE WriterRestarts
    <3>0. <<>> \in Seq(Lines)
      OBVIOUS
    <3>1. Kept \in Seq(Lines)
      BY MarkTyped DEF Kept
    <3>2. log \o Kept \in Seq(Lines)
      BY <3>1
    <3>3. log' \in Seq(Lines)
      BY <2>3, <3>2 DEF WriterRestarts
    <3> QED BY <2>1, <2>3, <3>0, <3>3 DEF WriterRestarts, sealing
  <2>4. CASE BuilderCrashes
    BY <2>1, <2>4 DEF BuilderCrashes, Idle, files
  <2>5. CASE KeyLost \/ Upgrade
    BY <2>1, <2>5 DEF KeyLost, Upgrade, files
  <2> QED BY <1>8, <2>2, <2>3, <2>4, <2>5 DEF Troubled
<1>9. CASE UNCHANGED vars
  BY <1>9 DEF vars, files, sealing
<1> QED BY <1>1, <1>2, <1>3, <1>4, <1>5, <1>6, <1>7, <1>8, <1>9 DEF Next, Writing, Sealing, Copying
-----------------------------------------------------------------------------
(* Whatever is kept, computed, fetched or published as a chain is one, and *)
(* each only adds to the one it was taken from.                            *)
Chained(blocks) == IsSeq(blocks) /\ IsChain(blocks)

SealInv ==
  /\ Chained(chain) /\ Chained(build.out) /\ Chained(job.chain) /\ Chained(archive.chain)
  /\ build.pc = "sealed" => Begins(chain, build.out)
  /\ Begins(archive.chain, chain)
  /\ job.pc # "idle" => Begins(archive.chain, job.chain) /\ Begins(job.chain, chain)
  /\ head = <<>> \/ head[1] \in ToSet(chain)
  /\ build.pc \in {"idle", "read", "sealed", "published"}
  /\ job.pc \in {"idle", "chain", "acts"}
  /\ key \in Nat /\ edition \in Nat

LEMMA NoBlocks == Chained(<<>>) /\ \A s : IsSeq(s) => Begins(<<>>, s)
<1>1. <<>> \in Seq({}) /\ DOMAIN <<>> = {} /\ Len(<<>>) = 0
  OBVIOUS
<1>2. IsSeq(<<>>)
  BY <1>1, SeqIs
<1>3. \A s : IsSeq(s) => Len(s) \in Nat
  BY SeqParts DEF IsLog
<1> QED BY <1>1, <1>2, <1>3 DEF Chained, IsChain, Begins

LEMMA BeginsSelf ==
  ASSUME NEW s, IsSeq(s)
  PROVE  Begins(s, s)
BY SeqParts DEF Begins, IsLog

LEMMA BeginsBegins ==
  ASSUME NEW s, IsSeq(s), NEW t, IsSeq(t), NEW u, IsSeq(u), Begins(s, t), Begins(t, u)
  PROVE  Begins(s, u)
<1>1. Len(s) \in Nat /\ Len(t) \in Nat /\ Len(u) \in Nat
  BY SeqParts DEF IsLog
<1> QED BY <1>1 DEF Begins

LEMMA BeginsSet ==
  ASSUME NEW s, IsSeq(s), NEW t, IsSeq(t), Begins(s, t)
  PROVE  ToSet(s) \subseteq ToSet(t)
<1>1. /\ Len(s) \in Nat /\ Len(t) \in Nat /\ DOMAIN s = 1 .. Len(s) /\ DOMAIN t = 1 .. Len(t)
  BY SeqParts DEF IsLog
<1> QED BY <1>1 DEF Begins, ToSet

(* What the builder writes is a chain that begins with the one there is.   *)
LEMMA ExtendedChained ==
  ASSUME NEW lines, IsLog(lines), NEW blocks, Chained(blocks), Len(blocks) <= Epochs(lines),
         NEW by \in Nat \ {0}, NEW ed
  PROVE  Chained(Extended(lines, blocks, by, ed)) /\ Begins(blocks, Extended(lines, blocks, by, ed))
<1> DEFINE r == Extended(lines, blocks, by, ed)
<1>1. /\ IsSeq(r) /\ Begins(blocks, r)
      /\ \A k \in 1 .. Len(r) : k > Len(blocks) =>
           r[k].by = by /\ r[k].derived = Reseal(lines, r, k, ed)
  BY ExtendedIs DEF Chained
<1> HIDE DEF r
<1>2. DOMAIN r = 1 .. Len(r) /\ Len(r) \in Nat /\ DOMAIN blocks = 1 .. Len(blocks) /\ Len(blocks) \in Nat
  BY <1>1, SeqParts DEF IsLog, Chained
<1>3. ASSUME NEW h \in 1 .. Len(r)
      PROVE  /\ r[h].by \in Nat \ {0}
             /\ r[h].derived.height = h
             /\ r[h].derived.prev = IF h = 1 THEN Genesis ELSE r[h - 1]
  <2>1. CASE h > Len(blocks)
    <3>1. r[h].by = by /\ r[h].derived = Reseal(lines, r, h, ed)
      BY <1>1, <2>1
    <3>2. \A prev : Seal(lines, h, prev, ed).height = h /\ Seal(lines, h, prev, ed).prev = prev
      BY DEF Seal
    <3> QED BY <3>1, <3>2 DEF Reseal
  <2>2. CASE ~(h > Len(blocks))
    <3>1. h \in 1 .. Len(blocks) /\ r[h] = blocks[h]
      BY <1>1, <1>2, <2>2 DEF Begins
    <3>2. h # 1 => h - 1 \in 1 .. Len(blocks)
      BY <1>2, <3>1
    <3>3. h # 1 => r[h - 1] = blocks[h - 1]
      BY <1>1, <3>2 DEF Begins
    <3> QED BY <1>2, <3>1, <3>3 DEF Chained, IsChain
  <2> QED BY <2>1, <2>2
<1>4. IsChain(r)
  BY <1>2, <1>3 DEF IsChain
<1> QED BY <1>1, <1>4 DEF r, Chained

(* A pass of the builder that did not refuse.                              *)
LEMMA SealedParts ==
  ASSUME FilesInv, SealInv, NEW rebuild \in BOOLEAN, SealBlocks(rebuild), ~Refuses(rebuild)
  PROVE  /\ build'.pc = "sealed" /\ build'.out = Extended(build.acts, chain, Signer, edition)
         /\ IsLog(build.acts) /\ Len(chain) <= Epochs(build.acts)
         /\ Reproduces(build.acts, chain, edition)
         /\ Chained(build'.out) /\ Begins(chain, build'.out)
<1>1. /\ build'.pc = "sealed" /\ build'.out = Extended(build.acts, chain, Signer, edition)
      /\ Reproduces(build.acts, chain, edition) /\ ~(Len(chain) > Epochs(build.acts))
  BY DEF SealBlocks, Refuses, Idle
<1>2. IsLog(build.acts)
  BY DEF FilesInv, IsLog
<1>3. Len(chain) \in Nat /\ Epochs(build.acts) \in Nat
  BY <1>2, SeqParts, ClosesTyped DEF SealInv, Chained, IsLog
<1>4. Len(chain) <= Epochs(build.acts)
  BY <1>1, <1>3
<1>5. Signer \in Nat \ {0}
  BY SignerIsAKey DEF SealInv, Chained
<1>6. Chained(Extended(build.acts, chain, Signer, edition))
      /\ Begins(chain, Extended(build.acts, chain, Signer, edition))
  BY <1>2, <1>4, <1>5, ExtendedChained DEF SealInv
<1> QED BY <1>1, <1>2, <1>4, <1>6

LEMMA SealInit == Init => SealInv
<1> SUFFICES ASSUME Init PROVE SealInv
  OBVIOUS
<1>1. Chained(<<>>) /\ Begins(<<>>, <<>>)
  BY NoBlocks DEF Chained
<1> QED BY <1>1 DEF Init, SealInv, Idle, NoJob

LEMMA SealNext == FilesInv /\ SealInv /\ [Next]_vars => SealInv'
<1> SUFFICES ASSUME FilesInv, SealInv, [Next]_vars PROVE SealInv'
  OBVIOUS
<1>0. /\ Chained(<<>>) /\ IsSeq(chain) /\ IsSeq(build.out) /\ IsSeq(job.chain)
      /\ IsSeq(archive.chain)
  BY NoBlocks DEF SealInv, Chained
<1>1. CASE UNCHANGED <<sealing, job, archive>>
  BY <1>1 DEF SealInv, sealing
<1>2. CASE ReadActs \/ BuilderCrashes
  <2>1. build'.out = <<>> /\ build'.pc \in {"idle", "read"}
    <3>1. CASE ReadActs
      BY <3>1 DEF ReadActs, Idle
    <3>2. CASE BuilderCrashes
      BY <3>2 DEF BuilderCrashes, Idle
    <3> QED BY <1>2, <3>1, <3>2
  <2> QED BY <1>0, <1>2, <2>1 DEF ReadActs, BuilderCrashes, SealInv
<1>3. CASE \E rebuild \in BOOLEAN : SealBlocks(rebuild)
  <2>1. PICK rebuild \in BOOLEAN : SealBlocks(rebuild)
    BY <1>3
  <2>2. key' \in Nat
    <3>1. Signer \in Nat
      BY SignerIsAKey DEF SealInv, Chained
    <3> QED BY <2>1, <3>1 DEF SealBlocks, SealInv
  <2>3. /\ Chained(build'.out) /\ build'.pc \in {"idle", "sealed"}
        /\ build'.pc = "sealed" => Begins(chain, build'.out)
    <3>1. CASE Refuses(rebuild)
      <4>1. build' = Idle
        BY <2>1, <3>1 DEF SealBlocks
      <4> QED BY <1>0, <4>1 DEF Idle
    <3>2. CASE ~Refuses(rebuild)
      BY <2>1, <3>2, SealedParts
    <3> QED BY <3>1, <3>2
  <2>4. UNCHANGED <<chain, head, edition, job, archive>>
    BY <2>1 DEF SealBlocks
  <2> QED BY <2>2, <2>3, <2>4 DEF SealInv
<1>4. CASE Publish
  <2>1. /\ chain' = build.out /\ build'.out = <<>> /\ build'.pc = "published"
        /\ UNCHANGED <<head, key, edition, job, archive>> /\ Begins(chain, build.out)
    BY <1>4 DEF Publish, Idle, SealInv
  <2>2. Begins(archive.chain, build.out)
    BY <1>0, <2>1, BeginsBegins DEF SealInv
  <2>3. job.pc # "idle" => Begins(job.chain, build.out)
    BY <1>0, <2>1, BeginsBegins DEF SealInv
  <2>4. head = <<>> \/ head[1] \in ToSet(build.out)
    BY <1>0, <2>1, BeginsSet DEF SealInv
  <2> QED BY <1>0, <2>1, <2>2, <2>3, <2>4 DEF SealInv
<1>5. CASE Project
  <2>1. /\ build'.out = <<>> /\ build'.pc = "idle"
        /\ UNCHANGED <<chain, key, edition, job, archive>>
    BY <1>5 DEF Project, Idle
  <2>2. head' = <<>> \/ head'[1] \in ToSet(chain)
    <3>1. CASE chain = <<>>
      BY <1>5, <3>1 DEF Project, SealInv
    <3>2. CASE chain # <<>>
      <4>1. DOMAIN chain = 1 .. Len(chain) /\ Len(chain) \in Nat /\ Len(chain) # 0
        BY <1>0, <3>2, SeqParts DEF IsLog, IsSeq
      <4>2. head'[1] = chain[Len(chain)]
        BY <1>5, <3>2 DEF Project, Last
      <4> QED BY <4>1, <4>2 DEF ToSet
    <3> QED BY <3>1, <3>2
  <2> QED BY <1>0, <2>1, <2>2 DEF SealInv
<1>6. CASE Fetching
  <2>1. UNCHANGED <<sealing, archive>>
    BY <1>6 DEF Fetching
  <2>2. \/ job'.pc = "chain" /\ job'.chain = chain
        \/ job.pc = "chain" /\ job'.pc = "acts" /\ job'.chain = job.chain
    BY <1>6 DEF Fetching, Fetch
  <2>3. Begins(chain, chain)
    BY <1>0, BeginsSelf
  <2> QED BY <2>1, <2>2, <2>3 DEF SealInv, sealing
<1>7. CASE Stage
  <2>1. UNCHANGED sealing /\ job'.pc = "idle" /\ job'.chain = <<>> /\ job.pc = "acts"
        /\ archive'.chain \in {archive.chain, job.chain}
    BY <1>7 DEF Stage, NoJob
  <2> QED BY <1>0, <2>1 DEF SealInv, sealing
<1>8. CASE KeyLost \/ Upgrade
  <2>1. UNCHANGED <<chain, head, build, job, archive>> /\ key' \in Nat /\ edition' \in Nat
    BY <1>8 DEF KeyLost, Upgrade, SealInv
  <2> QED BY <2>1 DEF SealInv
<1>9. CASE StartAppend \/ Synced \/ AppendFails \/ WriterRestarts
  BY <1>1, <1>9 DEF StartAppend, Synced, AppendFails, WriterRestarts
<1>10. CASE UNCHANGED vars
  BY <1>1, <1>10 DEF vars
<1> QED
  BY <1>2, <1>3, <1>4, <1>5, <1>6, <1>7, <1>8, <1>9, <1>10
  DEF Next, Writing, Sealing, Copying, Troubled

LEMMA ChainInvAlways == Spec => [](FilesInv /\ SealInv)
<1>1. Init => FilesInv /\ SealInv
  BY FilesInit, SealInit
<1>2. (FilesInv /\ SealInv) /\ [Next]_vars => (FilesInv /\ SealInv)'
  BY FilesNext, SealNext
<1> QED BY <1>1, <1>2, PTL DEF Spec

(* Types: what is published as a chain is linked block to block.           *)
THEOREM PublishedIsLinked == Spec => []TypeOK
<1>1. FilesInv /\ SealInv => TypeOK
  BY DEF FilesInv, SealInv, TypeOK, Chained
<1> QED BY <1>1, ChainInvAlways, PTL

LEMMA BeginsIsPrefix ==
  ASSUME NEW s, IsSeq(s), NEW t, IsSeq(t), Begins(s, t)
  PROVE  IsPrefix(s, t)
<1>1. Len(s) \in Nat /\ Len(t) \in Nat /\ Len(s) <= Len(t)
  BY SeqParts DEF IsLog, Begins
<1> DEFINE u == SubSeq(s, 1, Len(s))
           v == SubSeq(t, 1, Len(s))
<1>2. IsSeq(u) /\ Len(u) = Len(s) /\ \A i \in 1 .. Len(s) : u[i] = s[i]
  <2>1. Len(s) \in 0 .. Len(s)
    BY <1>1
  <2> QED BY <2>1, SubSeqIs
<1>3. IsSeq(v) /\ Len(v) = Len(s) /\ \A i \in 1 .. Len(s) : v[i] = t[i]
  <2>1. Len(s) \in 0 .. Len(t)
    BY <1>1
  <2> QED BY <2>1, SubSeqIs
<1> HIDE DEF u, v
<1>4. \A i \in 1 .. Len(u) : u[i] = v[i]
  BY <1>2, <1>3 DEF Begins
<1>5. u = v
  BY <1>2, <1>3, <1>4, SameSeq
<1> QED BY <1>1, <1>5 DEF IsPrefix, u, v

(* build.mjs: "Sealed blocks are never dropped": through every failed      *)
(* write, crash, restart, lost key and upgrade, the chain and the archive  *)
(* that follows it only grow.                                              *)
THEOREM SealedBlocksStay == Spec => SealedStays
<1> DEFINE Grows == IsPrefix(chain, chain') /\ IsPrefix(archive.chain, archive'.chain)
<1>1. FilesInv /\ SealInv /\ [Next]_vars => [Grows]_vars
  <2> SUFFICES ASSUME FilesInv, SealInv, [Next]_vars PROVE Grows
    OBVIOUS
  <2>1. /\ IsSeq(chain) /\ IsSeq(build.out) /\ IsSeq(job.chain) /\ IsSeq(archive.chain)
    BY DEF SealInv, Chained
  <2>2. chain' = chain \/ (chain' = build.out /\ Begins(chain, build.out))
    BY DEF SealInv, Next, Writing, Sealing, Copying, Troubled, StartAppend, Synced, AppendFails,
       WriterRestarts, ReadActs, SealBlocks, Publish, Project, BuilderCrashes, KeyLost, Upgrade,
       Fetching, Stage, vars, sealing
  <2>3. \/ archive'.chain = archive.chain
        \/ archive'.chain = job.chain /\ Begins(archive.chain, job.chain)
    BY DEF SealInv, Next, Writing, Sealing, Copying, Troubled, StartAppend, Synced, AppendFails,
       WriterRestarts, ReadActs, SealBlocks, Publish, Project, BuilderCrashes, KeyLost, Upgrade,
       Fetching, Stage, vars
  <2>4. Begins(chain, chain) /\ Begins(archive.chain, archive.chain)
    BY <2>1, BeginsSelf
  <2>5. IsPrefix(chain, chain')
    BY <2>1, <2>2, <2>4, BeginsIsPrefix
  <2>6. IsPrefix(archive.chain, archive'.chain)
    BY <2>1, <2>3, <2>4, BeginsIsPrefix
  <2> QED BY <2>5, <2>6
<1> QED BY <1>1, ChainInvAlways, PTL DEF Spec, SealedStays
-----------------------------------------------------------------------------
(* Lines picked by number, and their structures.                           *)
LEMMA AtIs ==
  ASSUME NEW lines, NEW b \in Nat, NEW idx \in Seq(1 .. b)
  PROVE  /\ IsSeq(At(lines, idx)) /\ Len(At(lines, idx)) = Len(idx)
         /\ \A n \in 1 .. Len(idx) : At(lines, idx)[n] = lines[idx[n]]
<1> DEFINE T == {lines[idx[n]] : n \in 1 .. Len(idx)}
           s == [n \in 1 .. Len(idx) |-> lines[idx[n]]]
<1>1. Len(idx) \in Nat /\ DOMAIN idx = 1 .. Len(idx)
  OBVIOUS
<1>2. At(lines, idx) = s
  BY <1>1 DEF At
<1>3. \A n \in 1 .. Len(idx) : lines[idx[n]] \in T
  OBVIOUS
<1>4. s \in Seq(T) /\ Len(s) = Len(idx) /\ \A n \in 1 .. Len(idx) : s[n] = lines[idx[n]]
  <2> HIDE DEF T
  <2> QED BY <1>1, <1>3
<1> HIDE DEF T, s
<1>5. IsSeq(s)
  BY <1>4, SeqIs
<1> QED BY <1>2, <1>4, <1>5

LEMMA StructuresIs ==
  ASSUME NEW s, IsSeq(s)
  PROVE  /\ IsSeq(Structures(s)) /\ Len(Structures(s)) = Len(s)
         /\ \A n \in 1 .. Len(s) : Structures(s)[n] = Structure(s[n])
<1> DEFINE T == {Structure(s[n]) : n \in 1 .. Len(s)}
           t == [n \in 1 .. Len(s) |-> Structure(s[n])]
<1>1. Len(s) \in Nat /\ DOMAIN s = 1 .. Len(s)
  BY SeqParts DEF IsLog
<1>2. Structures(s) = t
  BY <1>1 DEF Structures
<1>3. \A n \in 1 .. Len(s) : Structure(s[n]) \in T
  OBVIOUS
<1>4. t \in Seq(T) /\ Len(t) = Len(s) /\ \A n \in 1 .. Len(s) : t[n] = Structure(s[n])
  <2> HIDE DEF T
  <2> QED BY <1>1, <1>3
<1> HIDE DEF T, t
<1>5. IsSeq(t)
  BY <1>4, SeqIs
<1> QED BY <1>2, <1>4, <1>5

LEMMA TracesIs ==
  ASSUME NEW s, IsSeq(s)
  PROVE  /\ Len(Traces(s)) = Len(s)
         /\ \A n \in 1 .. Len(s) : Traces(s)[n] = Trace(s[n])
<1> DEFINE t == [n \in 1 .. Len(s) |-> Trace(s[n])]
           T == {Trace(s[n]) : n \in 1 .. Len(s)}
<1>1. Len(s) \in Nat /\ DOMAIN s = 1 .. Len(s)
  BY SeqParts DEF IsLog
<1>2. Traces(s) = t
  BY <1>1 DEF Traces
<1>3. \A n \in 1 .. Len(s) : Trace(s[n]) \in T
  OBVIOUS
<1>4. Len(t) = Len(s) /\ \A n \in 1 .. Len(s) : t[n] = Trace(s[n])
  <2> HIDE DEF T
  <2> QED BY <1>1, <1>3
<1> QED BY <1>2, <1>4

LEMMA BaredIs ==
  ASSUME NEW s, IsSeq(s)
  PROVE  /\ IsSeq(Bared(s)) /\ Len(Bared(s)) = Len(s)
         /\ \A n \in 1 .. Len(s) : Bared(s)[n] = Bare(s[n])
<1> DEFINE T == {Bare(s[n]) : n \in 1 .. Len(s)}
           t == [n \in 1 .. Len(s) |-> Bare(s[n])]
<1>1. Len(s) \in Nat /\ DOMAIN s = 1 .. Len(s)
  BY SeqParts DEF IsLog
<1>2. Bared(s) = t
  BY <1>1 DEF Bared
<1>3. \A n \in 1 .. Len(s) : Bare(s[n]) \in T
  OBVIOUS
<1>4. t \in Seq(T) /\ Len(t) = Len(s) /\ \A n \in 1 .. Len(s) : t[n] = Bare(s[n])
  <2> HIDE DEF T
  <2> QED BY <1>1, <1>3
<1> HIDE DEF T, t
<1>5. IsSeq(t)
  BY <1>4, SeqIs
<1> QED BY <1>2, <1>4, <1>5

LEMMA ConcatIs ==
  ASSUME NEW p, IsSeq(p), NEW q, IsSeq(q)
  PROVE  /\ IsSeq(p \o q) /\ Len(p \o q) = Len(p) + Len(q)
         /\ \A n \in 1 .. Len(p) : (p \o q)[n] = p[n]
         /\ \A n \in 1 .. Len(q) : (p \o q)[Len(p) + n] = q[n]
<1> DEFINE T == ToSet(p) \cup ToSet(q)
<1>1. p \in Seq(T) /\ q \in Seq(T)
  <2>1. ToSet(p) \subseteq T /\ ToSet(q) \subseteq T
    OBVIOUS
  <2>2. p \in Seq(ToSet(p)) /\ q \in Seq(ToSet(q))
    BY DEF IsSeq
  <2> HIDE DEF T
  <2> QED BY <2>1, <2>2, WiderRange
<1> HIDE DEF T
<1>2. p \o q \in Seq(T) /\ Len(p \o q) = Len(p) + Len(q) /\ Len(p) \in Nat /\ Len(q) \in Nat
  BY <1>1
<1>3. \A n \in 1 .. Len(p) : (p \o q)[n] = p[n]
  BY <1>1, <1>2
<1>4. \A n \in 1 .. Len(q) : (p \o q)[Len(p) + n] = q[n]
  BY <1>1, <1>2
<1>5. IsSeq(p \o q)
  BY <1>2, SeqIs
<1> QED BY <1>2, <1>3, <1>4, <1>5

(* Sequences whose parts are alike once bared are alike once bared.        *)
LEMMA BaredParts ==
  ASSUME NEW p, IsSeq(p), NEW q, IsSeq(q), NEW u, IsSeq(u), NEW v, IsSeq(v), NEW x, NEW y,
         Bared(p) = Bared(u), Bared(q) = Bared(v), Bare(x) = Bare(y)
  PROVE  Bared(Append(p \o q, x)) = Bared(Append(u \o v, y))
<1>1. /\ Len(p) = Len(u) /\ \A n \in 1 .. Len(p) : Bare(p[n]) = Bare(u[n])
      /\ Len(q) = Len(v) /\ \A n \in 1 .. Len(q) : Bare(q[n]) = Bare(v[n])
      /\ Len(p) \in Nat /\ Len(q) \in Nat
  BY BaredIs, SeqParts DEF IsLog
<1>2. /\ IsSeq(p \o q) /\ Len(p \o q) = Len(p) + Len(q)
      /\ IsSeq(u \o v) /\ Len(u \o v) = Len(p) + Len(q)
  BY <1>1, ConcatIs
<1>3. ASSUME NEW n \in 1 .. Len(p) + Len(q) PROVE Bare((p \o q)[n]) = Bare((u \o v)[n])
  <2>1. CASE n \in 1 .. Len(p)
    BY <1>1, <2>1, ConcatIs
  <2>2. CASE n \notin 1 .. Len(p)
    <3>1. PICK j \in 1 .. Len(q) : n = Len(p) + j
      <4>1. n - Len(p) \in 1 .. Len(q) /\ n = Len(p) + (n - Len(p))
        BY <1>1, <2>2
      <4> QED BY <4>1
    <3>2. (p \o q)[n] = q[j] /\ (u \o v)[n] = v[j]
      BY <1>1, <3>1, ConcatIs
    <3> QED BY <1>1, <3>2
  <2> QED BY <2>1, <2>2
<1> DEFINE cp == p \o q
           cu == u \o v
           w  == Append(cp, x)
           z  == Append(cu, y)
           k  == Len(p) + Len(q)
<1>4. k \in Nat /\ IsSeq(cp) /\ IsSeq(cu) /\ Len(cp) = k /\ Len(cu) = k
      /\ \A n \in 1 .. k : Bare(cp[n]) = Bare(cu[n])
  BY <1>1, <1>2, <1>3
<1> HIDE DEF cp, cu, k
<1>5. /\ IsSeq(w) /\ Len(w) = k + 1 /\ w[k + 1] = x /\ \A n \in 1 .. k : w[n] = cp[n]
      /\ IsSeq(z) /\ Len(z) = k + 1 /\ z[k + 1] = y /\ \A n \in 1 .. k : z[n] = cu[n]
  BY <1>4, AppendIs
<1> HIDE DEF w, z
<1>6. \A n \in 1 .. k + 1 : Bare(w[n]) = Bare(z[n])
  <2>1. \A n \in 1 .. k + 1 : n = k + 1 \/ n \in 1 .. k
    BY <1>4
  <2> QED BY <1>4, <1>5, <2>1
<1>7. Bared(w) = Bared(z)
  <2>1. /\ IsSeq(Bared(w)) /\ IsSeq(Bared(z)) /\ Len(Bared(w)) = Len(Bared(z))
        /\ \A n \in 1 .. Len(Bared(w)) : Bared(w)[n] = Bared(z)[n]
    BY <1>5, <1>6, BaredIs
  <2> QED BY <2>1, SameSeq
<1> QED BY <1>7 DEF w, z, cp, cu

(* Blocks that a log reproduces are sound each by itself.                  *)
LEMMA ReproducedIsSound ==
  ASSUME NEW lines, IsLog(lines), NEW blocks, IsSeq(blocks), Len(blocks) <= Epochs(lines),
         NEW ed, Reproduces(lines, blocks, ed)
  PROVE  Sound(blocks)
<1>1. DOMAIN blocks = 1 .. Len(blocks) /\ Len(blocks) \in Nat /\ Epochs(lines) \in Nat
  BY SeqParts, ClosesTyped DEF IsLog
<1>2. ASSUME NEW h \in 1 .. Len(blocks)
      PROVE  /\ blocks[h].derived.height = h
             /\ Len(blocks[h].derived.acts) = Len(blocks[h].derived.payloads)
  <2>1. h \in 1 .. Epochs(lines) /\ blocks[h].derived = Reseal(lines, blocks, h, ed)
    BY <1>1 DEF Reproduces
  <2> DEFINE last == Closes(lines)[h] - 1
             idx  == Taken(lines, Start(lines, h), last)
             pay  == At(lines, idx)
  <2>2. last \in Nat
    <3>1. Closes(lines)[h] \in 1 .. Len(lines)
      BY <2>1, EpochBounds
    <3> QED BY <3>1 DEF IsLog
  <2>3. \A prev : /\ Seal(lines, h, prev, ed).height = h
                  /\ Seal(lines, h, prev, ed).acts = Structures(pay)
                  /\ Seal(lines, h, prev, ed).payloads = pay
    BY DEF Seal, Start
  <2> HIDE DEF last, pay, idx
  <2>4. idx \in Seq(1 .. last)
    BY <2>2, TakenTyped DEF idx
  <2>5. IsSeq(pay)
    BY <2>2, <2>4, AtIs DEF pay
  <2>6. Len(Structures(pay)) = Len(pay)
    BY <2>5, StructuresIs
  <2> QED BY <2>1, <2>3, <2>6 DEF Reseal
<1> QED BY <1>1, <1>2 DEF Sound

-----------------------------------------------------------------------------
(* Nothing is published that does not verify.                              *)
LEMMA NoEpochs == Epochs(<<>>) = 0 /\ IsLog(<<>>)
<1>1. DOMAIN <<>> = 1 .. Len(<<>>) /\ Len(<<>>) = 0
  OBVIOUS
<1>2. IsLog(<<>>)
  BY <1>1 DEF IsLog
<1>3. Closes(<<>>) \in Seq(1 .. 0)
  BY <1>1, ClosesTyped
<1>4. Closes(<<>>) = <<>>
  BY <1>1, OrderedMore DEF Closes
<1>5. Len(Closes(<<>>)) = 0
  BY <1>1, <1>4
<1> QED BY <1>2, <1>5 DEF Epochs

(* archive.yml: "publish nothing that did not verify": the                *)
(* published copy verifies, whatever the job fetched and whenever, and     *)
(* goes on doing so under the code that published it.                      *)
THEOREM PublishedCopyVerifies == Spec => []ArchiveVerifies
<1>1. Init => ArchiveVerifies
  <2>1. DOMAIN <<>> = {} /\ Len(<<>>) = 0
    OBVIOUS
  <2> QED BY <2>1, NoEpochs DEF Init, ArchiveVerifies, Verifies, Parses, Sound, Reproduces
<1>2. ArchiveVerifies /\ [Next]_vars => ArchiveVerifies'
  <2> SUFFICES ASSUME ArchiveVerifies, [Next]_vars PROVE ArchiveVerifies'
    OBVIOUS
  <2>1. CASE archive' = archive
    BY <2>1 DEF ArchiveVerifies, Verifies, Parses, Sound, Reproduces
  <2>2. CASE Stage
    <3>1. CASE Staged
      <4>1. /\ archive'.chain = job.chain /\ archive'.acts = job.acts
            /\ archive'.edition = edition
        BY <2>2, <3>1 DEF Stage
      <4>2. Verifies(job.chain, job.acts, edition)
        BY <3>1 DEF Staged
      <4> QED BY <4>1, <4>2 DEF ArchiveVerifies
    <3>2. CASE ~Staged
      BY <2>1, <2>2, <3>2 DEF Stage
    <3> QED BY <3>1, <3>2
  <2>3. archive' = archive \/ Stage
    BY DEF Next, Writing, Sealing, Copying, Troubled, StartAppend, Synced, AppendFails,
       WriterRestarts, ReadActs, SealBlocks, Publish, Project, BuilderCrashes, KeyLost, Upgrade,
       Fetching, vars
  <2> QED BY <2>1, <2>2, <2>3
<1> QED BY <1>1, <1>2, PTL DEF Spec
-----------------------------------------------------------------------------
(* What is taken up to a close: what was taken up to an earlier line, what *)
(* was taken since, and the close.                                         *)
LEMMA TakenToClose ==
  ASSUME NEW lines, NEW m \in Nat, NEW end \in Nat, m < end, lines[end].k = "close"
  PROVE  Taken(lines, 1, end)
           = Append(Taken(lines, 1, m) \o Taken(lines, m + 1, end - 1), end)
<1> DEFINE last == end - 1
           S == {i \in 1 .. end : Takes(lines, i)}
           M == {i \in 1 .. m : Takes(lines, i)}
           R == {i \in m + 1 .. last : Takes(lines, i)}
           U == {i \in S : i > m}
<1>1. last \in Nat /\ last + 1 = end /\ m <= last
  OBVIOUS
<1>2. end \in S
  BY DEF Takes
<1>3. \A i \in 1 .. m : i \in S <=> i \in M
  BY <1>1
<1>4. \A i \in 1 .. last : i \in U <=> i \in R
  BY <1>1
<1>5. /\ Taken(lines, 1, end) = Ordered(S, end) /\ Taken(lines, 1, m) = Ordered(M, m)
      /\ Taken(lines, m + 1, end - 1) = Ordered(R, last)
  BY DEF Taken
<1> HIDE DEF last, S, M, R
<1>6. Ordered(S, end) = Append(Ordered(S, last), end)
  <2>1. Ordered(S, last + 1) = IF last + 1 \in S THEN Append(Ordered(S, last), last + 1)
                               ELSE Ordered(S, last)
    BY <1>1, OrderedMore
  <2> QED BY <1>1, <1>2, <2>1
<1>7. Ordered(S, last) = Ordered(S, m) \o Ordered(U, last)
  BY <1>1, OrderedSplit
<1> HIDE DEF U
<1>8. Ordered(S, m) = Ordered(M, m) /\ Ordered(U, last) = Ordered(R, last)
  <2>1. Ordered(S, m) = Ordered(M, m)
    BY <1>3, OrderedLocal
  <2>2. Ordered(U, last) = Ordered(R, last)
    BY <1>1, <1>4, OrderedLocal
  <2> QED BY <2>1, <2>2
<1> QED BY <1>5, <1>6, <1>7, <1>8

LEMMA AtParts ==
  ASSUME NEW lines, NEW b \in Nat, NEW u \in Seq(1 .. b), NEW v \in Seq(1 .. b), NEW x \in 1 .. b
  PROVE  At(lines, Append(u \o v, x)) = Append(At(lines, u) \o At(lines, v), lines[x])
<1> DEFINE w == Append(u \o v, x)
           au == At(lines, u)
           av == At(lines, v)
           r == Append(au \o av, lines[x])
<1>1. /\ Len(u) \in Nat /\ Len(v) \in Nat /\ w \in Seq(1 .. b)
      /\ Len(w) = Len(u) + Len(v) + 1 /\ w[Len(u) + Len(v) + 1] = x
      /\ \A n \in 1 .. Len(u) : w[n] = u[n]
      /\ \A n \in 1 .. Len(v) : w[Len(u) + n] = v[n]
  <2>1. u \o v \in Seq(1 .. b) /\ Len(u \o v) = Len(u) + Len(v) /\ Len(u) \in Nat /\ Len(v) \in Nat
    OBVIOUS
  <2>2. w \in Seq(1 .. b) /\ Len(w) = Len(u \o v) + 1 /\ w[Len(u \o v) + 1] = x
        /\ \A n \in 1 .. Len(u \o v) : w[n] = (u \o v)[n]
    BY <2>1
  <2>3. /\ \A n \in 1 .. Len(u) : (u \o v)[n] = u[n]
        /\ \A n \in 1 .. Len(v) : (u \o v)[Len(u) + n] = v[n]
    OBVIOUS
  <2> HIDE DEF w
  <2>4. ASSUME NEW n \in 1 .. Len(u) PROVE w[n] = u[n]
    <3>1. n \in 1 .. Len(u \o v)
      BY <2>1
    <3> QED BY <2>2, <2>3, <3>1
  <2>5. ASSUME NEW n \in 1 .. Len(v) PROVE w[Len(u) + n] = v[n]
    <3>1. Len(u) + n \in 1 .. Len(u \o v)
      BY <2>1
    <3> QED BY <2>2, <2>3, <3>1
  <2> QED BY <2>1, <2>2, <2>4, <2>5
<1>2. /\ IsSeq(au) /\ Len(au) = Len(u) /\ \A n \in 1 .. Len(u) : au[n] = lines[u[n]]
      /\ IsSeq(av) /\ Len(av) = Len(v) /\ \A n \in 1 .. Len(v) : av[n] = lines[v[n]]
  BY AtIs
<1>3. /\ IsSeq(At(lines, w)) /\ Len(At(lines, w)) = Len(w)
      /\ \A n \in 1 .. Len(w) : At(lines, w)[n] = lines[w[n]]
  <2>1. w \in Seq(1 .. b)
    BY <1>1
  <2> HIDE DEF w
  <2> QED BY <2>1, AtIs
<1> HIDE DEF au, av, w
<1>4. /\ IsSeq(au \o av) /\ Len(au \o av) = Len(u) + Len(v)
      /\ \A n \in 1 .. Len(u) : (au \o av)[n] = au[n]
      /\ \A n \in 1 .. Len(v) : (au \o av)[Len(u) + n] = av[n]
  <2>1. IsSeq(au) /\ IsSeq(av) /\ Len(au) = Len(u) /\ Len(av) = Len(v)
    BY <1>2
  <2>2. IsSeq(au \o av) /\ Len(au \o av) = Len(au) + Len(av)
    BY <2>1, ConcatIs
  <2>3. \A n \in 1 .. Len(au) : (au \o av)[n] = au[n]
    BY <2>1, ConcatIs
  <2>4. \A n \in 1 .. Len(av) : (au \o av)[Len(au) + n] = av[n]
    BY <2>1, ConcatIs
  <2> QED BY <2>1, <2>2, <2>3, <2>4
<1> DEFINE cat == au \o av
<1> HIDE DEF cat
<1>5. /\ IsSeq(r) /\ Len(r) = Len(u) + Len(v) + 1 /\ r[Len(u) + Len(v) + 1] = lines[x]
      /\ \A n \in 1 .. Len(u) + Len(v) : r[n] = cat[n]
  BY <1>4, AppendIs DEF cat
<1> HIDE DEF r
<1>6. ASSUME NEW n \in 1 .. Len(w) PROVE r[n] = lines[w[n]]
  <2>1. CASE n \in 1 .. Len(u)
    <3>1. n \in 1 .. Len(u) + Len(v)
      BY <1>1, <2>1
    <3> QED BY <1>1, <1>2, <1>4, <1>5, <2>1, <3>1, SMTT(60) DEF cat
  <2>2. CASE n \in Len(u) + 1 .. Len(u) + Len(v)
    <3>1. PICK j \in 1 .. Len(v) : n = Len(u) + j
      <4>1. n - Len(u) \in 1 .. Len(v) /\ n = Len(u) + (n - Len(u))
        BY <1>1, <2>2
      <4> QED BY <4>1
    <3>2. w[n] = v[j] /\ cat[n] = av[j] /\ av[j] = lines[v[j]]
      BY <1>1, <1>2, <1>4, <3>1 DEF cat
    <3>3. r[n] = cat[n]
      BY <1>1, <1>5, <2>2
    <3> QED BY <3>2, <3>3
  <2>3. CASE n = Len(u) + Len(v) + 1
    BY <1>1, <1>5, <2>3
  <2>4. Len(w) = Len(u) + Len(v) + 1 /\ Len(u) \in Nat /\ Len(v) \in Nat
    BY <1>1
  <2>5. n \in 1 .. Len(u) \/ n \in Len(u) + 1 .. Len(u) + Len(v) \/ n = Len(u) + Len(v) + 1
    BY <2>4
  <2> QED BY <2>1, <2>2, <2>3, <2>5
<1>7. At(lines, w) = r
  <2>1. Len(At(lines, w)) = Len(r) /\ \A n \in 1 .. Len(At(lines, w)) : At(lines, w)[n] = r[n]
    BY <1>1, <1>3, <1>5, <1>6
  <2> QED BY <1>3, <1>5, <2>1, SameSeq
<1> QED BY <1>7 DEF w, r, au, av

(* The close of an epoch stands in what its block commits to.              *)
LEMMA CloseIsKept ==
  ASSUME NEW lines, NEW m \in Nat, NEW end \in Nat, m < end, lines[end].k = "close"
  PROVE  /\ Len(Package(lines, end)) \in Nat
         /\ Package(lines, end)[Len(Package(lines, end))] = Bare(lines[end])
<1> DEFINE t   == Taken(lines, 1, end)
           at  == At(lines, t)
           u   == Taken(lines, 1, m) \o Taken(lines, m + 1, end - 1)
<1>1. t = Append(u, end)
  BY TakenToClose
<1>2. u \in Seq(Nat)
  <2>1. end - 1 \in Nat /\ 1 .. m \subseteq Nat /\ 1 .. end - 1 \subseteq Nat
    OBVIOUS
  <2>2. Taken(lines, 1, m) \in Seq(1 .. m) /\ Taken(lines, m + 1, end - 1) \in Seq(1 .. end - 1)
    BY <2>1, TakenTyped
  <2>3. Taken(lines, 1, m) \in Seq(Nat) /\ Taken(lines, m + 1, end - 1) \in Seq(Nat)
    BY <2>1, <2>2, WiderRange
  <2> QED BY <2>3
<1>3. t \in Seq(1 .. end)
  BY TakenTyped
<1> HIDE DEF t, u
<1>4. Len(t) \in Nat /\ Len(t) = Len(u) + 1 /\ t[Len(t)] = end /\ Len(t) \in 1 .. Len(t)
  BY <1>1, <1>2
<1>5. IsSeq(at) /\ Len(at) = Len(t) /\ at[Len(t)] = lines[end]
  BY <1>3, <1>4, AtIs
<1> HIDE DEF at
<1>6. Len(Traces(at)) = Len(t) /\ Traces(at)[Len(t)] = Trace(lines[end])
  BY <1>4, <1>5, TracesIs
<1>7. Trace(lines[end]) = Bare(lines[end])
  BY DEF Trace, Bare
<1>8. Package(lines, end) = Traces(at)
  BY DEF Package, at, t
<1> QED BY <1>4, <1>6, <1>7, <1>8

(* Two records that the same blocks verify hold the same sealed acts.      *)
LEMMA SealedAgree ==
  ASSUME NEW one, IsLog(one), NEW two, IsLog(two), NEW blocks, IsSeq(blocks), NEW ed,
         Len(blocks) <= Epochs(one), Reproduces(one, blocks, ed),
         Len(blocks) <= Epochs(two), Reproduces(two, blocks, ed)
  PROVE  Sealed(one, blocks) = Sealed(two, blocks)
<1> DEFINE End(h)  == IF h = 0 THEN 0 ELSE Closes(one)[h]
           Same(b) == Bared(At(one, Taken(one, 1, b))) = Bared(At(two, Taken(two, 1, b)))
           A == {h \in Nat : h <= Len(blocks) => Same(End(h))}
<1>1. /\ DOMAIN blocks = 1 .. Len(blocks) /\ Len(blocks) \in Nat
      /\ Epochs(one) \in Nat /\ Epochs(two) \in Nat
  BY SeqParts, ClosesTyped DEF IsLog
<1>2. ASSUME NEW h \in 1 .. Len(blocks)
      PROVE  /\ blocks[h].derived.range = <<Start(one, h), Closes(one)[h]>>
             /\ Closes(one)[h] = Closes(two)[h] /\ Start(one, h) = Start(two, h)
             /\ At(one, Taken(one, Start(one, h), Closes(one)[h] - 1))
                  = At(two, Taken(two, Start(one, h), Closes(one)[h] - 1))
             /\ Package(one, Closes(one)[h]) = Package(two, Closes(one)[h])
             /\ Closes(one)[h] \in Nat /\ Start(one, h) \in 1 .. Closes(one)[h]
             /\ one[Closes(one)[h]].k = "close" /\ two[Closes(one)[h]].k = "close"
  <2>1. h \in 1 .. Epochs(one) /\ h \in 1 .. Epochs(two)
    BY <1>1
  <2>2. /\ blocks[h].derived = Reseal(one, blocks, h, ed)
        /\ blocks[h].derived = Reseal(two, blocks, h, ed)
    BY <1>1, <2>1 DEF Reproduces
  <2>3. \A lines, prev :
          /\ Seal(lines, h, prev, ed).range = <<Start(lines, h), Closes(lines)[h]>>
          /\ Seal(lines, h, prev, ed).payloads
               = At(lines, Taken(lines, Start(lines, h), Closes(lines)[h] - 1))
          /\ Seal(lines, h, prev, ed).package = Package(lines, Closes(lines)[h])
    BY DEF Seal, Start
  <2>4. <<Start(one, h), Closes(one)[h]>> = <<Start(two, h), Closes(two)[h]>>
    BY <2>2, <2>3 DEF Reseal
  <2>5. Start(one, h) = Start(two, h) /\ Closes(one)[h] = Closes(two)[h]
    BY <2>4
  <2>6. /\ Closes(one)[h] \in 1 .. Len(one) /\ one[Closes(one)[h]].k = "close"
        /\ Start(one, h) \in 1 .. Closes(one)[h]
        /\ two[Closes(two)[h]].k = "close"
    BY <2>1, EpochBounds
  <2>7. Closes(one)[h] \in Nat
    BY <2>6 DEF IsLog
  <2> QED BY <2>2, <2>3, <2>5, <2>6, <2>7 DEF Reseal
<1>3. 0 \in A
  <2>1. Taken(one, 1, 0) = <<>> /\ Taken(two, 1, 0) = <<>>
    BY OrderedMore DEF Taken
  <2>2. At(one, <<>>) = At(two, <<>>)
    BY DEF At
  <2> QED BY <2>1, <2>2
<1>4. ASSUME NEW h \in Nat, h \in A PROVE h + 1 \in A
  <2> SUFFICES ASSUME h + 1 <= Len(blocks) PROVE Same(End(h + 1))
    OBVIOUS
  <2> DEFINE m   == End(h)
             end == Closes(one)[h + 1]
             last == end - 1
  <2>1. h + 1 \in 1 .. Len(blocks) /\ (h + 1) - 1 = h /\ (h = 0 <=> h + 1 = 1)
    BY <1>1
  <2>2. Same(m)
    BY <1>1, <1>4
  <2>3. m \in Nat
    <3>1. CASE h = 0
      BY <3>1
    <3>2. CASE h # 0
      <4>1. h \in 1 .. Len(blocks)
        BY <1>1, <2>1, <3>2
      <4> QED BY <1>2, <3>2, <4>1
    <3> QED BY <3>1, <3>2
  <2>4. Start(one, h + 1) = m + 1
    BY <2>1 DEF Start
  <2>5. /\ end \in Nat /\ m + 1 \in 1 .. end /\ one[end].k = "close" /\ two[end].k = "close"
        /\ At(one, Taken(one, m + 1, end - 1)) = At(two, Taken(two, m + 1, end - 1))
        /\ Package(one, end) = Package(two, end)
    <3> HIDE DEF m
    <3> QED BY <1>2, <2>1, <2>4
  <2>6. End(h + 1) = end
    BY <2>1
  <2> HIDE DEF m, end
  <2>7. m < end /\ end - 1 \in Nat /\ end \in 1 .. end /\ 1 .. m \subseteq 1 .. end
        /\ 1 .. end - 1 \subseteq 1 .. end
    BY <2>3, <2>5
  <2>8. Bare(one[end]) = Bare(two[end])
    BY <2>3, <2>5, <2>7, CloseIsKept
  <2>9. ASSUME NEW lines, lines[end].k = "close"
        PROVE  /\ IsSeq(At(lines, Taken(lines, 1, m)))
               /\ IsSeq(At(lines, Taken(lines, m + 1, end - 1)))
               /\ At(lines, Taken(lines, 1, end))
                    = Append(At(lines, Taken(lines, 1, m))
                               \o At(lines, Taken(lines, m + 1, end - 1)), lines[end])
    <3> DEFINE u == Taken(lines, 1, m)
               v == Taken(lines, m + 1, end - 1)
    <3>1. u \in Seq(1 .. m) /\ v \in Seq(1 .. end - 1)
      BY <2>3, <2>7, TakenTyped
    <3>2. Taken(lines, 1, end) = Append(u \o v, end)
      BY <2>3, <2>5, <2>7, <2>9, TakenToClose
    <3> HIDE DEF u, v
    <3>3. u \in Seq(1 .. end) /\ v \in Seq(1 .. end)
      BY <2>7, <3>1, WiderRange
    <3>4. At(lines, Append(u \o v, end)) = Append(At(lines, u) \o At(lines, v), lines[end])
      BY <2>5, <2>7, <3>3, AtParts
    <3>5. IsSeq(At(lines, u)) /\ IsSeq(At(lines, v))
      BY <2>5, <3>3, AtIs
    <3> QED BY <3>2, <3>4, <3>5 DEF u, v
  <2>10. Same(end)
    <3> DEFINE p == At(one, Taken(one, 1, m))
               q == At(one, Taken(one, m + 1, end - 1))
               u == At(two, Taken(two, 1, m))
               v == At(two, Taken(two, m + 1, end - 1))
    <3>1. /\ IsSeq(p) /\ IsSeq(q) /\ IsSeq(u) /\ IsSeq(v)
          /\ At(one, Taken(one, 1, end)) = Append(p \o q, one[end])
          /\ At(two, Taken(two, 1, end)) = Append(u \o v, two[end])
      BY <2>5, <2>9
    <3>2. Bared(p) = Bared(u) /\ q = v
      BY <2>2, <2>5
    <3> HIDE DEF p, q, u, v
    <3>3. Bared(Append(p \o q, one[end])) = Bared(Append(u \o v, two[end]))
      BY <2>8, <3>1, <3>2, BaredParts
    <3> QED BY <3>1, <3>3
  <2> QED BY <2>6, <2>10
<1> HIDE DEF A
<1>5. CASE blocks = <<>>
  BY <1>5 DEF Sealed
<1>6. CASE blocks # <<>>
  <2> DEFINE n == Len(blocks)
  <2>1. n \in 1 .. Len(blocks)
    BY <1>1, <1>6 DEF IsSeq
  <2>2. n \in A
    BY <1>1, <1>3, <1>4, CountUp
  <2>3. Same(Closes(one)[n])
    BY <2>1, <2>2 DEF A
  <2>4. Last(blocks).derived.range[2] = Closes(one)[n]
    BY <1>2, <2>1 DEF Last
  <2> QED BY <1>6, <2>3, <2>4 DEF Sealed
<1> QED BY <1>5, <1>6

(* Two records that verify against one chain hold the same acts up to the  *)
(* last close it seals, picture identifiers included, but for the          *)
(* signature and the quotes of a close: block.mjs, "silent rewriting       *)
(* becomes detectable", for any rewriting of what a block has.             *)
THEOREM VerifiedRecordsAgree ==
  ASSUME NEW one, IsLog(one), NEW two, IsLog(two), NEW blocks, IsSeq(blocks), NEW ed,
         Verifies(blocks, one, ed), Verifies(blocks, two, ed)
  PROVE  Sealed(one, blocks) = Sealed(two, blocks)
BY SealedAgree DEF Verifies
(* Between two closes that follow each other there is none.                *)
LEMMA NoCloseWithin ==
  ASSUME NEW lines, IsLog(lines), NEW h \in 1 .. Epochs(lines),
         NEW i \in Start(lines, h) .. Closes(lines)[h] - 1
  PROVE  i \in 1 .. Len(lines) /\ lines[i].k # "close"
<1> DEFINE S == {l \in DOMAIN lines : lines[l].k = "close"}
           n == Len(lines)
           s == Ordered(S, n)
           u == Ordered(S, i)
           j == Len(u)
<1>1. Closes(lines) = s /\ Epochs(lines) = Len(s) /\ n \in Nat /\ DOMAIN lines = 1 .. n
  BY DEF Closes, Epochs, IsLog
<1>2. s[h] \in 1 .. n /\ Start(lines, h) \in 1 .. s[h]
  BY <1>1, EpochBounds
<1>3. i \in 1 .. n /\ i < s[h]
  BY <1>1, <1>2
<1> SUFFICES ASSUME i \in S PROVE FALSE
  BY <1>1, <1>3
<1> HIDE DEF S
<1>4. s \in Seq(1 .. n) /\ u \in Seq(1 .. i) /\ Begins(u, s)
  BY <1>1, <1>3, OrderedTyped, OrderedPrefix
<1>5. j \in 1 .. Len(s) /\ s[j] = i
  <2> DEFINE r == Ordered(S, i - 1)
  <2>1. i - 1 \in Nat /\ (i - 1) + 1 = i
    BY <1>3
  <2>2. u = Append(r, i) /\ r \in Seq(1 .. i - 1)
    <3> DEFINE k == i - 1
    <3>1. k \in Nat /\ k + 1 = i
      BY <2>1
    <3> HIDE DEF k
    <3>2. Ordered(S, k + 1) = Append(Ordered(S, k), k + 1) /\ Ordered(S, k) \in Seq(1 .. k)
      BY <3>1, OrderedMore, OrderedTyped
    <3> QED BY <3>1, <3>2 DEF k
  <2>3. j = Len(r) + 1 /\ u[j] = i /\ Len(r) \in Nat
    <3> HIDE DEF r
    <3> QED BY <2>2
  <2> HIDE DEF u
  <2> QED BY <1>4, <2>3 DEF Begins
<1>6. \A a, b \in 1 .. Len(s) : a < b => s[a] < s[b]
  BY <1>1, OrderedAscends
<1>7. h \in 1 .. Len(s)
  BY <1>1
<1>8. h # 1 => h - 1 \in 1 .. Len(s) /\ s[h - 1] < i
  <2> SUFFICES ASSUME h # 1 PROVE h - 1 \in 1 .. Len(s) /\ s[h - 1] < i
    OBVIOUS
  <2>1. h - 1 \in 1 .. Len(s)
    BY <1>7
  <2>2. Start(lines, h) = s[h - 1] + 1
    BY <1>1 DEF Start
  <2>3. s[h - 1] \in 1 .. n
    BY <1>4, <2>1
  <2> QED BY <1>3, <2>1, <2>2, <2>3
<1> HIDE DEF s, j
<1>9. s[h] \in Nat /\ i \in Nat /\ h \in Nat /\ j \in Nat
  BY <1>2, <1>3, <1>5, <1>7
<1>10. j < h
  BY <1>3, <1>5, <1>6, <1>7, <1>9
<1>11. h # 1 /\ h - 1 \in 1 .. Len(s) /\ s[h - 1] < i
  BY <1>5, <1>8, <1>9, <1>10
<1>12. j = h - 1 \/ j < h - 1
  BY <1>9, <1>10
<1>13. s[h - 1] \in Nat
  BY <1>4, <1>11 DEF s
<1> QED BY <1>5, <1>6, <1>9, <1>11, <1>12, <1>13

(* Lines alike once bared: the same kinds and stamps, and what is no close *)
(* the same line.                                                          *)
LEMMA BaredAlike ==
  ASSUME NEW one \in Seq(Lines), NEW two \in Seq(Lines), Bared(one) = Bared(two)
  PROVE  /\ Len(one) \in Nat /\ Len(two) = Len(one)
         /\ DOMAIN one = 1 .. Len(one) /\ DOMAIN two = 1 .. Len(one)
         /\ \A i \in 1 .. Len(one) :
              /\ one[i].k = two[i].k /\ one[i].stamp = two[i].stamp
              /\ one[i].k # "close" => one[i] = two[i]
              /\ Trace(one[i]) = Trace(two[i])
<1>1. IsSeq(one) /\ IsSeq(two)
  BY SeqIs
<1>2. /\ Len(one) \in Nat /\ Len(two) = Len(one)
      /\ DOMAIN one = 1 .. Len(one) /\ DOMAIN two = 1 .. Len(one)
      /\ \A i \in 1 .. Len(one) : Bare(one[i]) = Bare(two[i])
  BY <1>1, BaredIs, SeqParts DEF IsLog
<1>3. \A i \in 1 .. Len(one) : one[i] \in Lines /\ two[i] \in Lines
  BY <1>2
<1>4. ASSUME NEW x \in Lines, NEW y \in Lines, Bare(x) = Bare(y)
      PROVE  /\ x.k = y.k /\ x.stamp = y.stamp /\ (x.k # "close" => x = y)
             /\ Trace(x) = Trace(y)
  <2>1. \A z \in Lines : Bare(z).k = z.k /\ Bare(z).stamp = z.stamp
    BY DEF Bare, Lines
  <2>2. x.k = y.k /\ x.stamp = y.stamp
    BY <1>4, <2>1
  <2>3. x.k # "close" => x = y
    BY <1>4, <2>2 DEF Bare
  <2>4. Trace(x) = Trace(y)
    BY <1>4, <2>2, <2>3 DEF Bare, Trace
  <2> QED BY <2>2, <2>3, <2>4
<1> QED BY <1>2, <1>3, <1>4

LEMMA BaredTakes ==
  ASSUME NEW one \in Seq(Lines), NEW two \in Seq(Lines), Bared(one) = Bared(two),
         NEW i \in 1 .. Len(one)
  PROVE  Takes(one, i) <=> Takes(two, i)
<1>1. /\ Len(one) \in Nat
      /\ \A j \in 1 .. Len(one) : one[j].k = two[j].k /\ (one[j].k # "close" => one[j] = two[j])
  BY BaredAlike
<1>2. CASE one[i].k = "settle"
  <2>1. one[i] = two[i]
    BY <1>1, <1>2
  <2>2. \A j \in 1 .. i - 1 : j \in 1 .. Len(one)
    BY <1>1
  <2>3. \A j \in 1 .. i - 1 : \A p : Settles(one, j, p) <=> Settles(two, j, p)
    BY <1>1, <2>2 DEF Settles
  <2>4. one[i].ref \in 1 .. i - 1 => one[one[i].ref].k = two[one[i].ref].k
    BY <1>1, <2>2
  <2> QED BY <1>2, <2>1, <2>3, <2>4 DEF Takes
<1>3. CASE one[i].k # "settle"
  BY <1>1, <1>3 DEF Takes
<1> QED BY <1>2, <1>3

LEMMA BaredTaken ==
  ASSUME NEW one \in Seq(Lines), NEW two \in Seq(Lines), Bared(one) = Bared(two),
         NEW a, NEW b \in Nat, b <= Len(one)
  PROVE  Taken(one, a, b) = Taken(two, a, b)
<1> DEFINE S == {j \in a .. b : Takes(one, j)}
           R == {j \in a .. b : Takes(two, j)}
<1>1. \A i \in 1 .. b : i \in S <=> i \in R
  <2> SUFFICES ASSUME NEW i \in 1 .. b PROVE Takes(one, i) <=> Takes(two, i)
    OBVIOUS
  <2>1. i \in 1 .. Len(one)
    OBVIOUS
  <2> QED BY <2>1, BaredTakes
<1> HIDE DEF S, R
<1>2. Ordered(S, b) = Ordered(R, b)
  BY <1>1, OrderedLocal
<1> QED BY <1>2 DEF S, R, Taken

(* A block of an epoch is the same of both.                                *)
LEMMA BaredSeal ==
  ASSUME NEW one \in Seq(Lines), NEW two \in Seq(Lines), Bared(one) = Bared(two)
  PROVE  /\ Epochs(one) = Epochs(two)
         /\ \A h \in 1 .. Epochs(one) : \A prev, ed : Seal(one, h, prev, ed) = Seal(two, h, prev, ed)
<1>1. IsLog(one) /\ IsLog(two) /\ Len(one) = Len(two)
      /\ \A i \in 1 .. Len(one) :
           /\ one[i].k = two[i].k /\ one[i].stamp = two[i].stamp
           /\ one[i].k # "close" => one[i] = two[i]
           /\ Trace(one[i]) = Trace(two[i])
  BY BaredAlike DEF IsLog
<1>2. Closes(one) = Closes(two) /\ Epochs(one) = Epochs(two)
  BY <1>1 DEF Closes, Epochs, IsLog
<1>3. ASSUME NEW h \in 1 .. Epochs(one), NEW prev, NEW ed
      PROVE  Seal(one, h, prev, ed) = Seal(two, h, prev, ed)
  <2> DEFINE end   == Closes(one)[h]
             start == Start(one, h)
             last  == end - 1
  <2>1. end \in 1 .. Len(one) /\ start \in 1 .. end
    BY <1>1, EpochBounds
  <2>2. Closes(two)[h] = end /\ Start(two, h) = start
    BY <1>2 DEF Start
  <2>3. \A i \in start .. last : i \in 1 .. Len(one) /\ one[i].k # "close"
    BY <1>1, NoCloseWithin
  <2> HIDE DEF end, start
  <2>4. end \in Nat /\ last \in Nat /\ start \in Nat /\ end <= Len(one) /\ last <= Len(one)
    BY <1>1, <2>1 DEF IsLog
  <2> HIDE DEF last
  <2>5. Taken(one, start, last) = Taken(two, start, last) /\ Taken(one, 1, end) = Taken(two, 1, end)
    BY <2>4, BaredTaken
  <2>6. At(one, Taken(one, start, last)) = At(two, Taken(one, start, last))
    <3> DEFINE idx == Taken(one, start, last)
    <3>1. idx \in Seq(1 .. last) /\ \A n \in 1 .. Len(idx) : idx[n] \in start .. last
      BY <2>4, TakenTyped
    <3> HIDE DEF idx
    <3>2. \A n \in DOMAIN idx : one[idx[n]] = two[idx[n]]
      BY <1>1, <2>3, <3>1
    <3>3. At(one, idx) = At(two, idx)
      BY <3>2 DEF At
    <3> QED BY <3>3 DEF idx
  <2>7. Package(one, end) = Package(two, end)
    <3> DEFINE idx == Taken(one, 1, end)
    <3>1. idx \in Seq(1 .. end)
      BY <2>4, TakenTyped
    <3> HIDE DEF idx
    <3>2. \A n \in DOMAIN idx : idx[n] \in 1 .. Len(one)
      BY <2>1, <3>1
    <3>3. /\ DOMAIN At(one, idx) = DOMAIN idx /\ DOMAIN At(two, idx) = DOMAIN idx
          /\ \A n \in DOMAIN idx : At(one, idx)[n] = one[idx[n]] /\ At(two, idx)[n] = two[idx[n]]
      BY DEF At
    <3>4. Traces(At(one, idx)) = Traces(At(two, idx))
      <4>1. \A n \in DOMAIN idx : Trace(At(one, idx)[n]) = Trace(At(two, idx)[n])
        BY <1>1, <3>2, <3>3
      <4> QED BY <3>3, <4>1 DEF Traces
    <3> QED BY <2>5, <3>4 DEF idx, Package
  <2>8. \A i \in start .. end : Takes(one, i) <=> Takes(two, i)
    <3>1. \A i \in start .. end : i \in 1 .. Len(one)
      BY <2>1, <2>4
    <3> QED BY <3>1, BaredTakes
  <2>9. {i \in start .. end : ~Takes(one, i)} = {i \in start .. end : ~Takes(two, i)}
    BY <2>8
  <2>10. one[end].stamp = two[end].stamp
    BY <1>1, <2>1
  <2> DEFINE skip(l) == Cardinality({i \in start .. end : ~Takes(l, i)})
             pay(l)  == At(l, Taken(l, start, last))
  <2>11. skip(one) = skip(two) /\ pay(one) = pay(two)
    BY <2>5, <2>6, <2>9
  <2>12. \A l : Closes(l)[h] = end /\ Start(l, h) = start =>
           Seal(l, h, prev, ed) =
             [height |-> h, prev |-> prev, range |-> <<start, end>>, time |-> l[end].stamp,
              acts |-> Structures(pay(l)), payloads |-> pay(l), skipped |-> skip(l),
              package |-> Package(l, end), edition |-> ed]
    BY DEF Seal, Start, last
  <2> HIDE DEF skip, pay
  <2>13. Closes(one)[h] = end /\ Start(one, h) = start
    BY DEF end, start
  <2> QED BY <2>2, <2>7, <2>10, <2>11, <2>12, <2>13
<1> QED BY <1>2, <1>3

(* And that is all of it: a record verifies whatever the signatures and    *)
(* the quotes of its closes are.  block.mjs commits to no act that closes  *)
(* an epoch, only to what it did.                                          *)
THEOREM QuotesAreNotSealed ==
  ASSUME NEW one \in Seq(Lines), NEW two \in Seq(Lines), Bared(one) = Bared(two),
         NEW blocks, IsSeq(blocks), NEW ed, Verifies(blocks, one, ed)
  PROVE  Verifies(blocks, two, ed)
<1>1. /\ Epochs(one) = Epochs(two)
      /\ \A h \in 1 .. Epochs(one) : \A prev : Seal(one, h, prev, ed) = Seal(two, h, prev, ed)
  BY BaredSeal
<1>2. DOMAIN blocks = 1 .. Len(blocks) /\ Len(blocks) \in Nat /\ Epochs(one) \in Nat
  <2>1. IsLog(one)
    BY DEF IsLog
  <2> QED BY <2>1, ClosesTyped, SeqParts DEF IsLog
<1>3. Len(blocks) <= Epochs(one)
  BY DEF Verifies
<1>4. Reproduces(two, blocks, ed)
  <2> SUFFICES ASSUME NEW h \in 1 .. Len(blocks)
               PROVE  blocks[h].derived = Reseal(two, blocks, h, ed)
    BY <1>2 DEF Reproduces
  <2>1. h \in 1 .. Epochs(one)
    BY <1>2, <1>3
  <2>2. blocks[h].derived = Reseal(one, blocks, h, ed)
    BY <1>2, <2>1 DEF Verifies, Reproduces
  <2> QED BY <1>1, <2>1, <2>2 DEF Reseal
<1>5. Parses(two)
  BY BaredAlike DEF Verifies, Parses
<1> QED BY <1>1, <1>4, <1>5 DEF Verifies

(* An edited log is a log.                                                 *)
LEMMA FunctionIsLog ==
  ASSUME NEW n \in Nat, NEW f, DOMAIN f = 1 .. n, f = [k \in 1 .. n |-> f[k]]
  PROVE  IsLog(f)
<1> DEFINE T == {f[k] : k \in 1 .. n}
<1>1. \A k \in 1 .. n : f[k] \in T
  OBVIOUS
<1> HIDE DEF T
<1>2. f \in Seq(T) /\ Len(f) = n
  BY <1>1
<1> QED BY <1>2 DEF IsLog

LEMMA EditsAreLogs ==
  ASSUME NEW lines \in Seq(Lines), NEW edited \in Edits(lines)
  PROVE  IsLog(edited)
<1> DEFINE n == Len(lines)
<1>1. n \in Nat /\ DOMAIN lines = 1 .. n /\ IsSeq(lines) /\ \A k \in 1 .. n : lines[k] \in Lines
  BY SeqIs
<1>2. CASE \E i \in DOMAIN lines : edited = RemoveAt(lines, i)
  <2>1. PICK i \in 1 .. n : edited = SubSeq(lines, 1, i - 1) \o SubSeq(lines, i + 1, n)
    BY <1>1, <1>2 DEF RemoveAt
  <2>2. SubSeq(lines, 1, i - 1) \in Seq(Lines) /\ SubSeq(lines, i + 1, n) \in Seq(Lines)
    BY <1>1
  <2>3. edited \in Seq(Lines)
    BY <2>1, <2>2
  <2> QED BY <2>3 DEF IsLog
<1>3. CASE \E i \in DOMAIN lines : edited = InsertAt(lines, i, Void(<<0, 0>>))
  <2> DEFINE v == Void(<<0, 0>>)
             T == Lines \cup {v}
  <2>1. PICK i \in 1 .. n :
          edited = SubSeq(lines, 1, i - 1) \o <<v>> \o SubSeq(lines, i, n)
    BY <1>1, <1>3 DEF InsertAt
  <2>2. v \in T /\ \A k \in 1 .. n : lines[k] \in T
    BY <1>1
  <2> HIDE DEF v, T
  <2>3. lines \in Seq(T)
    <3>1. lines = [k \in 1 .. n |-> lines[k]]
      BY <1>1
    <3> QED BY <1>1, <2>2, <3>1
  <2>4. SubSeq(lines, 1, i - 1) \in Seq(T) /\ SubSeq(lines, i, n) \in Seq(T) /\ <<v>> \in Seq(T)
    BY <1>1, <2>2, <2>3
  <2>5. edited \in Seq(T)
    BY <2>1, <2>4
  <2> QED BY <2>5 DEF IsLog
<1>4. CASE \/ \E i \in DOMAIN lines : edited = [lines EXCEPT ![i] = Void(@.stamp)]
           \/ \E i \in DOMAIN lines : edited = [lines EXCEPT ![i].stamp = <<0, 0>>]
           \/ \E i \in DOMAIN lines, r \in 0 .. MaxLines : edited = [lines EXCEPT ![i].ref = r]
           \/ \E i \in 1 .. n - 1 :
                edited = [lines EXCEPT ![i] = lines[i + 1], ![i + 1] = lines[i]]
  <2>1. DOMAIN edited = 1 .. n /\ edited = [k \in 1 .. n |-> edited[k]]
    BY <1>1, <1>4
  <2> QED BY <1>1, <2>1, FunctionIsLog
<1> QED BY <1>2, <1>3, <1>4 DEF Edits

LEMMA TamperShowsAlways == FilesInv /\ SealInv => TamperShows
<1> SUFFICES ASSUME FilesInv, SealInv, Verifies(chain, log, edition),
                    NEW edited \in Edits(log), Verifies(chain, edited, edition)
             PROVE  Sealed(edited, chain) = Sealed(log, chain)
  BY DEF TamperShows
<1>1. log \in Seq(Lines) /\ IsSeq(chain)
  BY DEF FilesInv, SealInv, Chained
<1>2. IsLog(log)
  BY <1>1 DEF IsLog
<1>3. IsLog(edited)
  BY <1>1, EditsAreLogs
<1> QED BY <1>1, <1>2, <1>3, VerifiedRecordsAgree

-----------------------------------------------------------------------------
(* What a reader of the file can have parsed.                              *)
Disk == IF ghost = <<Torn>> THEN log ELSE log \o ghost

(* Blocks computed from some beginning of what was on the disk.            *)
Founded(blocks, acts) ==
  /\ acts \in Seq(Lines) /\ Begins(acts, Disk)
  /\ Len(blocks) <= Epochs(acts) /\ Reproduces(acts, blocks, edition)

Own(blocks) == \A h \in DOMAIN blocks : blocks[h].by = key

(* On an undisturbed host the bytes beyond the log are those of the line   *)
(* being written, every block is of the one key and computed from what the *)
(* disk began with, and the job's chain is at most a line ahead of its log.*)
CalmInv ==
  /\ pending = <<>> => ghost = <<>>
  /\ pending # <<>> => ghost = <<Torn>> \/ ghost = pending
  /\ Parses(log) /\ Parses(pending)
  /\ Own(chain) /\ Own(build.out) /\ Own(job.chain)
  /\ build.pc = "read" => Begins(build.acts, Disk)
  /\ \E acts : Founded(chain, acts)
  /\ build.pc = "sealed" => \E acts : Founded(build.out, acts)
  /\ job.pc = "chain" => \E acts : Founded(job.chain, acts)
  /\ job.pc = "acts" =>
       /\ Begins(job.acts, log)
       /\ \E acts : Founded(job.chain, acts) /\ Len(acts) <= Len(job.acts) + 1

FetchInv == Undisturbed => CalmInv

LEMMA DiskIs ==
  ASSUME FilesInv, CalmInv
  PROVE  /\ Disk \in Seq(Lines) /\ Parses(Disk) /\ Begins(log, Disk)
         /\ Len(Disk) <= Len(log) + 1 /\ Begins(Disk, log \o ghost)
<1>1. log \in Seq(Lines) /\ ghost \in Seq(Lines) /\ pending \in Seq(Lines) /\ Len(log) \in Nat
      /\ Len(pending) \in Nat /\ DOMAIN log = 1 .. Len(log) /\ DOMAIN pending = 1 .. Len(pending)
  BY DEF FilesInv
<1>2. CASE ghost = <<Torn>>
  <2>1. Disk = log
    BY <1>2 DEF Disk
  <2>2. Len(log \o ghost) = Len(log) + Len(ghost) /\ Len(ghost) \in Nat
        /\ \A i \in 1 .. Len(log) : (log \o ghost)[i] = log[i]
    BY <1>1
  <2> QED BY <1>1, <2>1, <2>2 DEF Begins, CalmInv
<1>3. CASE ghost # <<Torn>>
  <2>1. ghost = pending /\ Len(pending) <= 1
    <3>1. CASE pending = <<>>
      BY <3>1 DEF CalmInv
    <3>2. CASE pending # <<>>
      <4>1. ghost = <<Torn>> \/ ghost = pending
        BY <3>2 DEF CalmInv
      <4>2. Len(pending) = 1
        BY <3>2 DEF FilesInv
      <4> QED BY <1>3, <4>1, <4>2
    <3> QED BY <3>1, <3>2
  <2> DEFINE d == log \o pending
  <2>2. Disk = d /\ log \o ghost = d
    BY <1>3, <2>1 DEF Disk
  <2>3. d \in Seq(Lines) /\ Len(d) = Len(log) + Len(pending) /\ DOMAIN d = 1 .. Len(d)
        /\ \A i \in 1 .. Len(d) : d[i] = IF i <= Len(log) THEN log[i] ELSE pending[i - Len(log)]
    BY <1>1
  <2> HIDE DEF d
  <2>4. \A i \in 1 .. Len(log) : d[i] = log[i]
    BY <1>1, <2>3
  <2>5. Parses(d)
    <3> SUFFICES ASSUME NEW i \in 1 .. Len(d) PROVE d[i].k \notin {"torn", "scrap"}
      BY <2>3 DEF Parses
    <3>1. CASE i <= Len(log)
      <4>1. i \in 1 .. Len(log)
        BY <1>1, <3>1
      <4> QED BY <1>1, <2>4, <4>1 DEF CalmInv, Parses
    <3>2. CASE ~(i <= Len(log))
      <4>1. i - Len(log) \in 1 .. Len(pending) /\ d[i] = pending[i - Len(log)]
        BY <1>1, <2>3, <3>2
      <4> QED BY <1>1, <4>1 DEF CalmInv, Parses
    <3> QED BY <3>1, <3>2
  <2>6. Begins(d, d)
    BY <2>3 DEF Begins
  <2> QED BY <1>1, <2>1, <2>2, <2>3, <2>4, <2>5, <2>6 DEF Begins
<1> QED BY <1>2, <1>3

(* A step that is no trouble, from an undisturbed host.                    *)
Smooth == Writing \/ ReadActs \/ Sealing \/ Copying \/ UNCHANGED vars

LEMMA TroubleLasts ==
  ASSUME FilesInv, [Next]_vars, Undisturbed'
  PROVE  Undisturbed /\ Smooth
<1>1. troubles \in Nat
  BY ChainAssumption DEF FilesInv
<1>2. CASE Troubled
  <2>1. troubles' = troubles + 1
    BY <1>2 DEF Troubled, AppendFails, WriterRestarts, BuilderCrashes, KeyLost, Upgrade, Trouble
  <2> QED BY <1>1, <2>1 DEF Undisturbed
<1>3. CASE Smooth
  <2>1. troubles' = troubles
    BY <1>3 DEF Smooth, Writing, Sealing, Copying, StartAppend, Synced, ReadActs, SealBlocks,
       Publish, Project, Fetching, Stage, vars
  <2> QED BY <1>3, <2>1 DEF Undisturbed
<1> QED BY <1>2, <1>3 DEF Next, Smooth

(* What such a step does to the files: the log and the disk only grow.     *)
LEMMA SmoothFiles ==
  ASSUME FilesInv, CalmInv, Smooth
  PROVE  /\ (pending = <<>> => ghost = <<>>)'
         /\ (pending # <<>> => ghost = <<Torn>> \/ ghost = pending)'
         /\ Parses(log)' /\ Parses(pending)'
         /\ Begins(log, log') /\ Begins(Disk, Disk') /\ edition' = edition
<1>1. log \in Seq(Lines) /\ Disk \in Seq(Lines) /\ Begins(log, log) /\ Begins(Disk, Disk)
      /\ Parses(Disk) /\ ghost \in Seq(Lines) /\ pending \in Seq(Lines)
  <2>1. log \in Seq(Lines) /\ Disk \in Seq(Lines) /\ Parses(Disk)
    BY DiskIs DEF FilesInv
  <2>2. IsSeq(log) /\ IsSeq(Disk)
    BY <2>1, SeqIs
  <2> QED BY <2>1, <2>2, BeginsSelf DEF FilesInv
<1>2. CASE StartAppend
  <2>1. PICK line \in Lines, rest \in Seq(Lines), x \in Lines :
           /\ pending = <<>> /\ pending' = <<line>> /\ ghost' = <<x>> \o rest
           /\ line.k \in {"post", "settle", "close"} /\ (x = Torn \/ x = line)
           /\ ghost = <<>> => rest = <<>>
    BY <1>2, AppendShape
  <2>2. ghost = <<>> /\ rest = <<>> /\ UNCHANGED <<log, edition>>
    BY <1>2, <2>1 DEF CalmInv, StartAppend, sealing
  <2>3. ghost' = <<x>>
    BY <2>1, <2>2
  <2>4. pending' # <<>> /\ (ghost' = <<Torn>> \/ ghost' = pending')
    BY <2>1, <2>3
  <2>5. Parses(pending)' /\ Parses(log)'
    <3>1. DOMAIN <<line>> = {1} /\ <<line>>[1] = line
      OBVIOUS
    <3> QED BY <2>1, <2>2, <3>1 DEF Parses, CalmInv
  <2>6. Disk = log
    <3>1. log \o <<>> = log
      BY <1>1
    <3> QED BY <2>2, <3>1 DEF Disk
  <2>7. Disk' = log \/ Disk' = log \o <<x>>
    BY <2>2, <2>3 DEF Disk
  <2>8. Begins(log, log \o <<x>>)
    <3>1. Len(log \o <<x>>) = Len(log) + 1 /\ Len(log) \in Nat
          /\ \A i \in 1 .. Len(log) : (log \o <<x>>)[i] = log[i]
      BY <1>1
    <3> QED BY <3>1 DEF Begins
  <2> QED BY <1>1, <2>2, <2>4, <2>5, <2>6, <2>7, <2>8
<1>3. CASE Synced
  <2>1. pending # <<>> /\ log' = log \o pending /\ ghost' = Tail(ghost) /\ pending' = <<>>
        /\ edition' = edition
    BY <1>3 DEF Synced, sealing
  <2>2. ghost' = <<>>
    <3>1. Len(pending) = 1
      BY <2>1 DEF FilesInv
    <3>2. Len(ghost) = 1
      BY <2>1, <3>1 DEF CalmInv
    <3>3. ghost # <<>>
      BY <3>2
    <3>4. Tail(ghost) \in Seq(Lines) /\ Len(Tail(ghost)) = Len(ghost) - 1
      BY <1>1, <3>3
    <3>5. \A s \in Seq(Lines) : Len(s) = 0 => s = <<>>
      OBVIOUS
    <3> QED BY <2>1, <3>2, <3>4, <3>5
  <2> DEFINE d == log \o pending
  <2>3. d \in Seq(Lines) /\ Len(d) = Len(log) + Len(pending) /\ Len(log) \in Nat
        /\ Len(pending) \in Nat /\ DOMAIN d = 1 .. Len(d)
        /\ \A i \in 1 .. Len(d) : d[i] = IF i <= Len(log) THEN log[i] ELSE pending[i - Len(log)]
    BY <1>1
  <2>4. log' = d /\ Disk' = d
    <3>1. d \o <<>> = d
      BY <2>3
    <3> QED BY <2>1, <2>2, <3>1 DEF Disk
  <2>5. Disk = log \/ Disk = d
    BY <2>1 DEF CalmInv, Disk
  <2> HIDE DEF d
  <2>6. Begins(log, d) /\ Begins(d, d)
    BY <2>3 DEF Begins
  <2>7. Parses(d)
    <3> SUFFICES ASSUME NEW i \in 1 .. Len(d) PROVE d[i].k \notin {"torn", "scrap"}
      BY <2>3 DEF Parses
    <3>0. DOMAIN log = 1 .. Len(log) /\ DOMAIN pending = 1 .. Len(pending)
      BY <1>1
    <3>1. CASE i <= Len(log)
      <4>1. i \in 1 .. Len(log) /\ d[i] = log[i]
        BY <2>3, <3>1
      <4> QED BY <3>0, <4>1 DEF CalmInv, Parses
    <3>2. CASE ~(i <= Len(log))
      <4>1. i - Len(log) \in 1 .. Len(pending) /\ d[i] = pending[i - Len(log)]
        BY <2>3, <3>2
      <4> QED BY <3>0, <4>1 DEF CalmInv, Parses
    <3> QED BY <3>1, <3>2
  <2>8. Parses(log)' /\ Parses(pending)'
    BY <2>1, <2>4, <2>7 DEF Parses
  <2> QED BY <1>1, <2>1, <2>2, <2>4, <2>5, <2>6, <2>8
<1>4. CASE ReadActs \/ Sealing \/ Copying \/ UNCHANGED vars
  <2>1. UNCHANGED files /\ edition' = edition
    BY <1>4 DEF ReadActs, Sealing, Copying, SealBlocks, Publish, Project, Fetching, Stage,
       sealing, vars
  <2>2. Disk' = Disk
    BY <2>1 DEF files, Disk
  <2> QED BY <1>1, <2>1, <2>2 DEF files, CalmInv, Parses
<1> QED BY <1>2, <1>3, <1>4 DEF Smooth, Writing

LEMMA FoundedLater ==
  ASSUME FilesInv, CalmInv, FilesInv', Begins(Disk, Disk'), edition' = edition,
         NEW blocks, NEW acts, Founded(blocks, acts)
  PROVE  /\ acts \in Seq(Lines) /\ Begins(acts, Disk')
         /\ Len(blocks) <= Epochs(acts) /\ Reproduces(acts, blocks, edition')
<1>1. acts \in Seq(Lines) /\ Disk \in Seq(Lines) /\ Begins(acts, Disk)
  BY DiskIs DEF Founded
<1>2. Disk' \in Seq(Lines)
  <2>1. log' \in Seq(Lines) /\ ghost' \in Seq(Lines)
    BY DEF FilesInv
  <2> QED BY <2>1 DEF Disk
<1>3. IsSeq(acts) /\ IsSeq(Disk) /\ IsSeq(Disk')
  BY <1>1, <1>2, SeqIs
<1>4. Begins(acts, Disk')
  BY <1>1, <1>3, BeginsBegins
<1> QED BY <1>1, <1>4 DEF Founded

(* Blocks signed with a new key begin a chain.                             *)
LEMMA KeyStaysOrNone ==
  ASSUME SealInv, CalmInv, NEW rebuild \in BOOLEAN, SealBlocks(rebuild)
  PROVE  /\ (\A h \in DOMAIN chain : chain[h].by = key)'
         /\ (\A h \in DOMAIN job.chain : job.chain[h].by = key)'
         /\ \A h \in DOMAIN chain : key' = key
<1>1. key' = key \/ key = 0
  BY DEF SealBlocks, Signer
<1>2. key = 0 => DOMAIN chain = {} /\ DOMAIN job.chain = {}
  <2>1. \A h \in DOMAIN chain : chain[h].by = key /\ chain[h].by \in Nat \ {0}
    BY DEF SealInv, CalmInv, Own, Chained, IsChain
  <2>2. \A h \in DOMAIN job.chain : job.chain[h].by = key /\ job.chain[h].by \in Nat \ {0}
    BY DEF SealInv, CalmInv, Own, Chained, IsChain
  <2> QED BY <2>1, <2>2
<1>3. chain' = chain /\ job' = job
  BY DEF SealBlocks
<1>4. /\ \A h \in DOMAIN chain : chain[h].by = key
      /\ \A h \in DOMAIN job.chain : job.chain[h].by = key
  BY DEF CalmInv, Own
<1> QED BY <1>1, <1>2, <1>3, <1>4

LEMMA CalmSeals ==
  ASSUME FilesInv, SealInv, CalmInv, NEW rebuild \in BOOLEAN, SealBlocks(rebuild)
  PROVE  /\ (\A h \in DOMAIN build.out : build.out[h].by = key)'
         /\ build'.pc \in {"idle", "sealed"}
         /\ build'.pc = "sealed" => \E acts : Founded(build'.out, acts)
<1>1. CASE Refuses(rebuild)
  <2>1. build'.out = <<>> /\ build'.pc = "idle" /\ DOMAIN <<>> = {}
    BY <1>1 DEF SealBlocks, Idle
  <2> QED BY <2>1
<1>2. CASE ~Refuses(rebuild)
  <2> DEFINE r == Extended(build.acts, chain, Signer, edition)
  <2>1. /\ build'.pc = "sealed" /\ build'.out = r
        /\ IsLog(build.acts) /\ Len(chain) <= Epochs(build.acts)
        /\ Reproduces(build.acts, chain, edition) /\ IsSeq(chain)
    BY <1>2, SealedParts DEF SealInv, Chained
  <2>2. /\ IsSeq(r) /\ Len(r) = Epochs(build.acts) /\ Begins(chain, r)
        /\ \A k \in 1 .. Len(r) : k > Len(chain) => r[k].by = Signer
    BY <2>1, ExtendedIs
  <2>3. Reproduces(build.acts, r, edition)
    BY <2>1, ExtendedReproduces
  <2> HIDE DEF r
  <2>4. DOMAIN r = 1 .. Len(r) /\ Len(r) \in Nat /\ DOMAIN chain = 1 .. Len(chain) /\ Len(chain) \in Nat
    BY <2>1, <2>2, SeqParts DEF IsLog
  <2>5. ASSUME NEW k \in 1 .. Len(r) PROVE r[k].by = key'
    <3>1. CASE k > Len(chain)
      <4>1. Epochs(build.acts) > Len(chain)
        BY <2>2, <2>4, <3>1
      <4>2. Signs(rebuild)
        BY <2>1, <4>1 DEF Signs
      <4> QED BY <2>2, <3>1, <4>2 DEF SealBlocks
    <3>2. CASE ~(k > Len(chain))
      <4>1. k \in DOMAIN chain /\ r[k] = chain[k]
        BY <2>2, <2>4, <3>2 DEF Begins
      <4>2. chain[k].by = key /\ key' = key
        BY <4>1, KeyStaysOrNone DEF CalmInv, Own
      <4> QED BY <4>1, <4>2
    <3> QED BY <3>1, <3>2
  <2>6. Founded(r, build.acts)
    <3>1. build.pc = "read"
      BY DEF SealBlocks
    <3>2. Len(r) <= Epochs(build.acts)
      BY <2>2, <2>4
    <3> QED BY <2>3, <3>1, <3>2 DEF Founded, CalmInv, FilesInv
  <2> QED BY <2>1, <2>4, <2>5, <2>6
<1> QED BY <1>1, <1>2

LEMMA CalmInit == Init => FetchInv
<1> SUFFICES ASSUME Init PROVE CalmInv
  BY DEF FetchInv
<1>1. <<>> \in Seq(Lines) /\ DOMAIN <<>> = {} /\ Len(<<>>) = 0 /\ <<>> \o <<>> = <<>>
  OBVIOUS
<1>2. Disk = <<>>
  <2>1. <<>> # <<Torn>>
    OBVIOUS
  <2> QED BY <1>1, <2>1 DEF Init, Disk
<1>3. Founded(<<>>, <<>>)
  BY <1>1, <1>2, NoEpochs DEF Founded, Begins, Reproduces
<1> QED BY <1>1, <1>3 DEF Init, CalmInv, Own, Parses, Idle, NoJob

LEMMA CalmNext == FilesInv /\ SealInv /\ FetchInv /\ [Next]_vars => FetchInv'
<1> SUFFICES ASSUME FilesInv, SealInv, FetchInv, [Next]_vars, Undisturbed' PROVE CalmInv'
  BY DEF FetchInv
<1>1. CalmInv /\ Smooth
  BY TroubleLasts DEF FetchInv
<1>2. FilesInv'
  BY FilesNext
<1>3. /\ (pending = <<>> => ghost = <<>>)'
      /\ (pending # <<>> => ghost = <<Torn>> \/ ghost = pending)'
      /\ Parses(log)' /\ Parses(pending)'
      /\ Begins(log, log') /\ Begins(Disk, Disk') /\ edition' = edition
  BY <1>1, SmoothFiles
<1>4. Disk \in Seq(Lines) /\ Disk' \in Seq(Lines) /\ IsSeq(Disk) /\ IsSeq(Disk')
  <2>1. log' \in Seq(Lines) /\ ghost' \in Seq(Lines)
    BY <1>2 DEF FilesInv
  <2>2. Disk \in Seq(Lines)
    BY <1>1, DiskIs
  <2>3. Disk' \in Seq(Lines)
    BY <2>1 DEF Disk
  <2> QED BY <2>2, <2>3, SeqIs
<1>5. \A blocks, acts : Founded(blocks, acts) =>
        /\ acts \in Seq(Lines) /\ Begins(acts, Disk')
        /\ Len(blocks) <= Epochs(acts) /\ Reproduces(acts, blocks, edition')
  BY <1>1, <1>2, <1>3, FoundedLater
<1>6. \A s \in Seq(Lines) : Begins(s, Disk) => Begins(s, Disk')
  BY <1>3, <1>4, SeqIs, BeginsBegins
<1>7. \A s \in Seq(Lines) : Begins(s, log) => Begins(s, log')
  <2>1. log \in Seq(Lines) /\ log' \in Seq(Lines)
    BY <1>2 DEF FilesInv
  <2> QED BY <1>3, <2>1, SeqIs, BeginsBegins
<1> DEFINE Later(blocks) == \E acts : /\ acts \in Seq(Lines) /\ Begins(acts, Disk')
                                      /\ Len(blocks) <= Epochs(acts)
                                      /\ Reproduces(acts, blocks, edition')
           Near(blocks, seen) ==
             \E acts : /\ acts \in Seq(Lines) /\ Begins(acts, Disk')
                       /\ Len(blocks) <= Epochs(acts) /\ Reproduces(acts, blocks, edition')
                       /\ Len(acts) <= Len(seen) + 1
<1>8. \A blocks : (\E acts : Founded(blocks, acts)) => Later(blocks)
  BY <1>5
<1>9. \A blocks, seen : (\E acts : Founded(blocks, acts) /\ Len(acts) <= Len(seen) + 1)
                          => Near(blocks, seen)
  BY <1>5
<1> HIDE DEF Later, Near
<1>10. SUFFICES /\ (\A h \in DOMAIN chain : chain[h].by = key)'
                /\ (\A h \in DOMAIN build.out : build.out[h].by = key)'
                /\ (\A h \in DOMAIN job.chain : job.chain[h].by = key)'
                /\ build'.pc = "read" => Begins(build'.acts, Disk')
                /\ Later(chain')
                /\ build'.pc = "sealed" => Later(build'.out)
                /\ job'.pc = "chain" => Later(job'.chain)
                /\ job'.pc = "acts" => Begins(job'.acts, log') /\ Near(job'.chain, job'.acts)
  BY <1>3 DEF CalmInv, Own, Founded, Later, Near
<1>11. /\ \A h \in DOMAIN chain : chain[h].by = key
       /\ \A h \in DOMAIN build.out : build.out[h].by = key
       /\ \A h \in DOMAIN job.chain : job.chain[h].by = key
       /\ build.pc = "read" => Begins(build.acts, Disk')
       /\ Later(chain) /\ (build.pc = "sealed" => Later(build.out))
       /\ (job.pc = "chain" => Later(job.chain))
       /\ (job.pc = "acts" => Begins(job.acts, log') /\ Near(job.chain, job.acts))
  BY <1>1, <1>6, <1>7, <1>8, <1>9 DEF CalmInv, Own, FilesInv
<1>12. CASE UNCHANGED <<sealing, job>>
  BY <1>11, <1>12 DEF sealing
<1>13. CASE ReadActs
  <2>1. /\ build'.pc = "read" /\ build'.out = <<>> /\ build'.acts = log \o ghost
        /\ UNCHANGED <<files, chain, key, job>> /\ DOMAIN <<>> = {} /\ Parses(log \o ghost)
    BY <1>13 DEF ReadActs, Idle
  <2>2. ghost # <<Torn>>
    <3> SUFFICES ASSUME ghost = <<Torn>> PROVE ~Parses(log \o ghost)
      BY <2>1
    <3> DEFINE d == log \o <<Torn>>
    <3>1. Len(log) + 1 \in DOMAIN d /\ d[Len(log) + 1] = Torn
      BY MarkTyped DEF FilesInv
    <3>2. d[Len(log) + 1].k = "torn"
      BY <3>1 DEF Torn
    <3> QED BY <3>1, <3>2 DEF Parses
  <2>3. build'.acts = Disk'
    BY <2>1, <2>2 DEF Disk, files
  <2>4. Begins(Disk', Disk')
    BY <1>4, BeginsSelf
  <2> QED BY <1>11, <2>1, <2>3, <2>4
<1>14. CASE \E rebuild \in BOOLEAN : SealBlocks(rebuild)
  <2>1. PICK rebuild \in BOOLEAN : SealBlocks(rebuild)
    BY <1>14
  <2>2. UNCHANGED <<chain, job>>
    BY <2>1 DEF SealBlocks
  <2>3. /\ (\A h \in DOMAIN chain : chain[h].by = key)'
        /\ (\A h \in DOMAIN job.chain : job.chain[h].by = key)'
    BY <1>1, <2>1, KeyStaysOrNone
  <2>4. /\ (\A h \in DOMAIN build.out : build.out[h].by = key)'
        /\ build'.pc \in {"idle", "sealed"}
        /\ build'.pc = "sealed" => \E acts : Founded(build'.out, acts)
    BY <1>1, <2>1, CalmSeals
  <2>5. build'.pc # "read" /\ (build'.pc = "sealed" => Later(build'.out))
    BY <1>8, <2>4
  <2> QED BY <1>11, <2>2, <2>3, <2>4, <2>5
<1>15. CASE Publish
  <2>1. /\ build.pc = "sealed" /\ chain' = build.out /\ build'.out = <<>>
        /\ build'.pc = "published" /\ UNCHANGED <<key, job>> /\ DOMAIN <<>> = {}
    BY <1>15 DEF Publish, Idle
  <2> QED BY <1>11, <2>1
<1>16. CASE Project
  <2>1. /\ build'.out = <<>> /\ build'.pc = "idle" /\ UNCHANGED <<chain, key, job>>
        /\ DOMAIN <<>> = {}
    BY <1>16 DEF Project, Idle
  <2> QED BY <1>11, <2>1
<1>17. CASE Fetching
  <2>1. UNCHANGED <<files, sealing>>
    BY <1>17 DEF Fetching
  <2>2. CASE job'.pc = "chain" /\ job'.chain = chain
    BY <1>11, <2>1, <2>2 DEF sealing
  <2>3. CASE job.pc = "chain" /\ job'.pc = "acts" /\ job'.chain = job.chain /\ job'.acts = log
    <3>1. PICK acts : Founded(job.chain, acts)
      BY <1>1, <2>3 DEF CalmInv
    <3>2. Len(acts) <= Len(log) + 1
      <4>1. Len(acts) <= Len(Disk) /\ Len(Disk) <= Len(log) + 1 /\ acts \in Seq(Lines)
        BY <1>1, <3>1, DiskIs DEF Founded, Begins
      <4>2. Len(acts) \in Nat /\ Len(Disk) \in Nat /\ Len(log) \in Nat
        BY <1>4, <4>1 DEF FilesInv
      <4> QED BY <4>1, <4>2
    <3>3. Near(job.chain, log)
      BY <1>9, <3>1, <3>2
    <3> QED BY <1>3, <1>11, <2>1, <2>3, <3>3 DEF sealing
  <2> QED BY <1>17, <2>2, <2>3 DEF Fetching, Fetch
<1>18. CASE Stage
  <2>1. UNCHANGED sealing /\ job'.pc = "idle" /\ job'.chain = <<>> /\ DOMAIN <<>> = {}
    BY <1>18 DEF Stage, NoJob
  <2> QED BY <1>11, <2>1 DEF sealing
<1>19. CASE Writing \/ UNCHANGED vars
  BY <1>12, <1>19 DEF Writing, StartAppend, Synced, vars
<1> QED
  BY <1>1, <1>13, <1>14, <1>15, <1>16, <1>17, <1>18, <1>19 DEF Smooth, Sealing, Copying

(* A chain founded on a log of an undisturbed host verifies against it.    *)
LEMMA FoundedVerifies ==
  ASSUME FilesInv, SealInv, CalmInv, NEW acts, Founded(job.chain, acts)
  PROVE  Verifies(job.chain, acts, edition)
<1>1. Parses(acts)
  <2>1. acts \in Seq(Lines) /\ Disk \in Seq(Lines) /\ Parses(Disk) /\ Begins(acts, Disk)
    BY DiskIs DEF Founded
  <2>2. /\ DOMAIN acts = 1 .. Len(acts) /\ Len(acts) \in Nat
        /\ DOMAIN Disk = 1 .. Len(Disk) /\ Len(Disk) \in Nat
    BY <2>1
  <2>3. \A i \in DOMAIN acts : i \in DOMAIN Disk /\ acts[i] = Disk[i]
    BY <2>1, <2>2 DEF Begins
  <2> QED BY <2>1, <2>3 DEF Parses
<1>2. Sound(job.chain)
  <2>1. IsLog(acts) /\ IsSeq(job.chain) /\ Len(job.chain) <= Epochs(acts)
        /\ Reproduces(acts, job.chain, edition)
    BY DEF Founded, IsLog, SealInv, Chained
  <2> QED BY <2>1, ReproducedIsSound
<1>3. \A h \in DOMAIN job.chain : job.chain[h].by = job.chain[1].by
  <2>1. DOMAIN job.chain = 1 .. Len(job.chain) /\ Len(job.chain) \in Nat
    BY SeqParts DEF SealInv, Chained, IsLog
  <2>2. \A h \in DOMAIN job.chain : 1 \in DOMAIN job.chain
    BY <2>1
  <2> QED BY <2>2 DEF CalmInv, Own
<1> QED BY <1>1, <1>2, <1>3 DEF Verifies, Founded

LEMMA FetchedAlways == FilesInv /\ SealInv /\ FetchInv => FetchedRecordVerifies
<1> SUFFICES ASSUME FilesInv, SealInv, CalmInv, job.pc = "acts"
             PROVE  \/ Verifies(job.chain, job.acts, edition)
                    \/ LET disk == log \o ghost
                       IN  /\ Len(disk) > Len(job.acts)
                           /\ Verifies(job.chain, Append(job.acts, disk[Len(job.acts) + 1]),
                                       edition)
  BY DEF FetchedRecordVerifies, FetchInv
<1>1. PICK acts : Founded(job.chain, acts) /\ Len(acts) <= Len(job.acts) + 1
  BY DEF CalmInv
<1> DEFINE disk == log \o ghost
           seen == job.acts
<1>2. /\ acts \in Seq(Lines) /\ seen \in Seq(Lines) /\ log \in Seq(Lines)
      /\ Disk \in Seq(Lines) /\ disk \in Seq(Lines)
      /\ Begins(acts, Disk) /\ Begins(seen, log) /\ Begins(log, Disk) /\ Begins(Disk, disk)
  BY <1>1, DiskIs DEF Founded, CalmInv, FilesInv
<1> HIDE DEF disk, seen
<1>3. /\ Len(acts) \in Nat /\ Len(seen) \in Nat /\ Len(Disk) \in Nat /\ Len(disk) \in Nat
      /\ IsSeq(acts) /\ IsSeq(seen) /\ IsSeq(log) /\ IsSeq(Disk) /\ IsSeq(disk)
      /\ IsLog(acts) /\ IsLog(seen) /\ \A i \in 1 .. Len(disk) : disk[i] \in Lines
  BY <1>2, SeqIs DEF IsLog
<1>4. Begins(seen, Disk) /\ Begins(acts, disk) /\ Begins(seen, disk)
  <2>1. Begins(seen, Disk) /\ Begins(acts, disk)
    BY <1>2, <1>3, BeginsBegins
  <2> QED BY <1>2, <1>3, <2>1, BeginsBegins
<1>5. CASE Len(acts) <= Len(seen)
  <2>1. Begins(acts, seen)
    <3>1. \A i \in 1 .. Len(acts) : acts[i] = Disk[i] /\ seen[i] = Disk[i]
      BY <1>2, <1>3, <1>4, <1>5 DEF Begins
    <3> QED BY <1>5, <3>1 DEF Begins
  <2>2. /\ IsLog(job.chain) /\ Len(job.chain) <= Epochs(acts)
        /\ Reproduces(acts, job.chain, edition)
    BY <1>1, SeqParts DEF Founded, SealInv, Chained
  <2>3. Reproduces(seen, job.chain, edition) /\ Len(job.chain) <= Epochs(seen)
    BY <1>3, <2>1, <2>2, ReproducesLocal
  <2>4. Founded(job.chain, seen)
    BY <1>2, <1>4, <2>3 DEF Founded
  <2> QED BY <2>4, FoundedVerifies DEF seen
<1>6. CASE ~(Len(acts) <= Len(seen))
  <2> DEFINE x == disk[Len(seen) + 1]
             more == Append(seen, x)
  <2>1. Len(acts) = Len(seen) + 1 /\ Len(disk) > Len(seen) /\ Len(seen) + 1 \in 1 .. Len(disk)
    <3>1. Len(acts) <= Len(disk) /\ Len(acts) <= Len(seen) + 1
      BY <1>1, <1>4 DEF Begins, seen
    <3> QED BY <1>3, <1>6, <3>1
  <2>2. /\ IsSeq(more) /\ Len(more) = Len(seen) + 1 /\ more[Len(seen) + 1] = x
        /\ \A i \in 1 .. Len(seen) : more[i] = seen[i]
    <3> HIDE DEF x
    <3> QED BY <1>3, AppendIs
  <2> HIDE DEF more
  <2>3. ASSUME NEW i \in 1 .. Len(acts) PROVE acts[i] = more[i]
    <3>1. acts[i] = disk[i]
      BY <1>4 DEF Begins
    <3>2. CASE i = Len(seen) + 1
      BY <2>2, <3>1, <3>2
    <3>3. CASE i # Len(seen) + 1
      <4>1. i \in 1 .. Len(seen)
        BY <1>3, <2>1, <3>3
      <4>2. seen[i] = disk[i]
        BY <1>4, <4>1 DEF Begins
      <4> QED BY <2>2, <3>1, <4>1, <4>2
    <3> QED BY <3>2, <3>3
  <2>4. acts = more
    BY <1>3, <2>1, <2>2, <2>3, SameSeq
  <2>5. Verifies(job.chain, more, edition)
    BY <1>1, <2>4, FoundedVerifies
  <2> QED BY <2>1, <2>5 DEF more, disk, seen
<1> QED BY <1>5, <1>6

(* The record holds, for every length of the log, every interleaving of    *)
(* the writer, the builder and the archive job, and every trouble: what is *)
(* fetched from an undisturbed host verifies, what is published verifies,  *)
(* and an edit of what a block fixes of the log does not.                  *)
THEOREM RecordIsHeld == Spec => []RecordHolds
<1>1. Init => FilesInv /\ SealInv /\ FetchInv
  BY FilesInit, SealInit, CalmInit
<1>2. (FilesInv /\ SealInv /\ FetchInv) /\ [Next]_vars => (FilesInv /\ SealInv /\ FetchInv)'
  BY FilesNext, SealNext, CalmNext
<1>3. FilesInv /\ SealInv /\ FetchInv => FetchedRecordVerifies /\ TamperShows
  BY FetchedAlways, TamperShowsAlways
<1>4. FetchedRecordVerifies /\ TamperShows /\ ArchiveVerifies /\ TypeOK => RecordHolds
  BY DEF RecordHolds
<1> QED BY <1>1, <1>2, <1>3, <1>4, PublishedCopyVerifies, PublishedIsLinked, PTL DEF Spec
=============================================================================
