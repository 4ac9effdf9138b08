---------------------------- MODULE DeviceProofs ----------------------------
(***************************************************************************)
(* Theorems about Device, for any number of requests under way, any shards *)
(* and any length of a lease.                                              *)
(***************************************************************************)
EXTENDS Device, SequenceTheorems, TLAPS

Row == [exp : Nat \ {0}, live : BOOLEAN]

(* Some post of the picture lives, or lived, at least as long as e.        *)
Granted(e) == \E p \in 1 .. Len(posts) : e <= posts[p].exp

(* What the page has read is an earlier state of the record.               *)
KnownIsEarlier ==
  /\ Len(known) <= Len(posts)
  /\ \A p \in 1 .. Len(known) : known[p].exp <= posts[p].exp

PageTyped ==
  /\ {disk, keep} \subseteq SUBSET Shards
  /\ forget \in [st : {"none", "remove", "tell"}, listed : SUBSET Shards]
  /\ forgotten \in BOOLEAN

(* The inductive strengthening: not only a cached copy is stamped with an  *)
(* expiry the record granted, so is every request on its way to one, and   *)
(* so is what the page would ask with.                                     *)
LeaseInv ==
  /\ now \in 1 .. MaxTime
  /\ posts \in Seq(Row) /\ known \in Seq(Row)
  /\ KnownIsEarlier
  /\ cache \in Nat /\ (cache # 0 => Granted(cache))
  /\ req \in [Reqs -> [st : {"idle", "match", "drop", "fetch", "stamp"}, exp : Nat]]
  /\ \A r \in Reqs : req[r].st # "idle" => req[r].exp # 0 /\ Granted(req[r].exp)

SwTyped == sw \in [forget : SUBSET {"sent", "delete"}, sweep : SUBSET {"sent", "delete"}]

-----------------------------------------------------------------------------
(* The record grows: posts are added and leases lengthened, never the      *)
(* reverse.                                                                *)
Grows ==
  /\ posts' \in Seq(Row)
  /\ Len(posts) <= Len(posts')
  /\ \A p \in 1 .. Len(posts) : posts[p].exp <= posts'[p].exp

LEMMA GrantedStays ==
  ASSUME posts \in Seq(Row), Grows, NEW e \in Nat, Granted(e)
  PROVE  \E p \in 1 .. Len(posts') : e <= posts'[p].exp
<1>1. PICK p \in 1 .. Len(posts) : e <= posts[p].exp
  BY DEF Granted
<1>2. p \in 1 .. Len(posts') /\ posts[p].exp <= posts'[p].exp
  BY DEF Grows
<1>3. posts[p] \in Row /\ posts'[p] \in Row
  BY <1>2, ElementOfSeq DEF Grows
<1>4. e <= posts'[p].exp
  BY <1>1, <1>2, <1>3 DEF Row
<1> QED BY <1>2, <1>4

LEMMA PublishedGrows ==
  ASSUME LeaseInv, posts' = Published
  PROVE  Grows /\ Len(posts') = Len(posts) + 1
<1> DEFINE new == [exp |-> now + Lease, live |-> TRUE]
<1>1. new \in Row
  BY DeviceAssumption DEF LeaseInv, Row
<1>2. /\ Append(posts, new) \in Seq(Row)
      /\ Len(Append(posts, new)) = Len(posts) + 1
      /\ \A p \in 1 .. Len(posts) : Append(posts, new)[p] = posts[p]
  <2> HIDE DEF new
  <2> QED BY <1>1 DEF LeaseInv
<1>3. \A p \in 1 .. Len(posts) : posts[p] \in Row
  BY ElementOfSeq DEF LeaseInv
<1>4. \A p \in 1 .. Len(posts) : posts[p].exp <= posts[p].exp
  BY <1>3 DEF Row
<1>5. posts' = Append(posts, new)
  BY DEF Published
<1> HIDE DEF new
<1> QED BY <1>2, <1>4, <1>5, LenProperties DEF Grows, LeaseInv

(* One row is replaced by one whose lease is as long or longer.            *)
LEMMA RowGrows ==
  ASSUME posts \in Seq(Row), NEW i \in 1 .. Len(posts), NEW row \in Row,
         posts[i].exp <= row.exp, posts' = [posts EXCEPT ![i] = row]
  PROVE  Grows
<1>1. /\ posts' \in Seq(Row) /\ Len(posts') = Len(posts)
      /\ \A j \in 1 .. Len(posts) : posts'[j] = IF j = i THEN row ELSE posts[j]
  BY ExceptSeq
<1>2. \A p \in 1 .. Len(posts) : posts[p] \in Row
  BY ElementOfSeq
<1>3. \A p \in 1 .. Len(posts) : posts[p].exp <= posts[p].exp
  BY <1>2 DEF Row
<1> QED BY <1>1, <1>3, LenProperties DEF Grows

LEMMA SettledRow ==
  ASSUME NEW row \in Row
  PROVE  [row EXCEPT !.live = FALSE] \in Row /\ [row EXCEPT !.live = FALSE].exp = row.exp
<1>1. [row EXCEPT !.live = FALSE] \in Row
  BY Zenon DEF Row
<1>2. [row EXCEPT !.live = FALSE].exp = row.exp
  BY DEF Row
<1> QED BY <1>1, <1>2

LEMMA RecordGrows ==
  ASSUME LeaseInv, Record \/ Publish
  PROVE  Grows
<1> DEFINE n == Len(posts)
<1>1. Live(posts) => n \in 1 .. Len(posts) /\ posts[n] \in Row
  BY EmptySeq, LenProperties, ElementOfSeq DEF LeaseInv, Live
<1>2. CASE OthersPublish \/ Publish
  BY <1>2, PublishedGrows DEF OthersPublish, Publish
<1>3. CASE Extend
  <2> DEFINE row == [posts[n] EXCEPT !.exp = @ + Lease]
  <2>1. Live(posts) /\ posts' = [posts EXCEPT ![n] = row]
    BY <1>3 DEF Extend
  <2>2. row \in Row /\ posts[n].exp <= row.exp
    BY <1>1, <2>1, DeviceAssumption DEF Row
  <2> HIDE DEF row
  <2> QED BY <1>1, <2>1, <2>2, RowGrows DEF LeaseInv
<1>4. CASE Settle
  <2> DEFINE row == [posts[n] EXCEPT !.live = FALSE]
  <2>1. Live(posts) /\ posts' = [posts EXCEPT ![n] = row]
    BY <1>4 DEF Settle
  <2>2. row \in Row /\ posts[n].exp <= row.exp
    <3>1. posts[n] \in Row
      BY <1>1, <2>1
    <3>2. row \in Row /\ row.exp = posts[n].exp
      BY <3>1, SettledRow
    <3> QED BY <3>1, <3>2 DEF Row
  <2> HIDE DEF row
  <2> QED BY <1>1, <2>1, <2>2, RowGrows DEF LeaseInv
<1>5. CASE Tick
  <2>1. posts' = posts
    BY <1>5 DEF Tick
  <2>2. \A p \in 1 .. Len(posts) : posts[p] \in Row
    BY ElementOfSeq DEF LeaseInv
  <2>3. \A p \in 1 .. Len(posts) : posts[p].exp <= posts[p].exp
    BY <2>2 DEF Row
  <2> QED BY <2>1, <2>3, LenProperties DEF Grows, LeaseInv
<1> QED BY <1>2, <1>3, <1>4, <1>5 DEF Record

-----------------------------------------------------------------------------
(* Whoever changes the record only adds to it, so nothing granted is lost; *)
(* the page's reading either stays or becomes the record of the moment.    *)
LEMMA RecordKeepsLease ==
  ASSUME LeaseInv, Record \/ Publish
  PROVE  LeaseInv'
<1>1. Grows
  BY RecordGrows
<1>2. now' \in 1 .. MaxTime
  <2>1. now' = now \/ (now' = now + 1 /\ now < MaxTime)
    BY DEF Record, OthersPublish, Extend, Settle, Tick, Publish
  <2> QED BY <2>1, DeviceAssumption DEF LeaseInv
<1>3. UNCHANGED <<cache, req>>
  BY DEF Record, OthersPublish, Extend, Settle, Tick, Publish, swVars
<1>4. known' = known \/ known' = posts'
  BY DEF Record, OthersPublish, Extend, Settle, Tick, Publish, pageVars
<1>5. known' \in Seq(Row) /\ KnownIsEarlier'
  <2>1. CASE known' = known
    <3>1. ASSUME NEW p \in 1 .. Len(known) PROVE known[p].exp <= posts'[p].exp
      <4>1. known[p].exp <= posts[p].exp /\ posts[p].exp <= posts'[p].exp
        BY <1>1 DEF LeaseInv, KnownIsEarlier, Grows
      <4>2. known[p] \in Row /\ posts[p] \in Row /\ posts'[p] \in Row
        <5>1. p \in 1 .. Len(posts) /\ p \in 1 .. Len(posts')
          BY <1>1, LenProperties DEF LeaseInv, KnownIsEarlier, Grows
        <5> QED BY <1>1, <5>1, ElementOfSeq DEF LeaseInv, Grows
      <4> QED BY <4>1, <4>2 DEF Row
    <3>2. Len(known) <= Len(posts')
      BY <1>1, LenProperties DEF LeaseInv, KnownIsEarlier, Grows
    <3> QED BY <2>1, <3>1, <3>2 DEF LeaseInv, KnownIsEarlier
  <2>2. CASE known' = posts'
    <3>1. \A p \in 1 .. Len(posts') : posts'[p] \in Row
      BY <1>1, ElementOfSeq DEF Grows
    <3>2. \A p \in 1 .. Len(posts') : posts'[p].exp <= posts'[p].exp
      BY <3>1 DEF Row
    <3> QED BY <1>1, <2>2, <3>2, LenProperties DEF Grows, KnownIsEarlier
  <2> QED BY <1>4, <2>1, <2>2
<1>6. cache' \in Nat /\ (cache' # 0 => Granted(cache)')
  BY <1>1, <1>3, GrantedStays DEF LeaseInv, Granted
<1>7. \A r \in Reqs : req'[r].st # "idle" => req'[r].exp # 0 /\ Granted(req[r].exp)'
  <2>1. ASSUME NEW r \in Reqs, req[r].st # "idle" PROVE Granted(req[r].exp)'
    <3>1. req[r].exp \in Nat /\ Granted(req[r].exp)
      BY <2>1 DEF LeaseInv
    <3>2. Granted(req[r].exp)' <=> \E p \in 1 .. Len(posts') : req[r].exp <= posts'[p].exp
      BY <1>3 DEF Granted
    <3> DEFINE e == req[r].exp
    <3>3. e \in Nat /\ Granted(e)
      BY <3>1
    <3>4. \E p \in 1 .. Len(posts') : e <= posts'[p].exp
      BY <3>3, <1>1, GrantedStays DEF LeaseInv
    <3> QED BY <3>2, <3>4
  <2> QED BY <1>3, <2>1 DEF LeaseInv
<1>8. posts' \in Seq(Row)
  BY <1>1 DEF Grows
<1> QED BY <1>2, <1>3, <1>5, <1>6, <1>7, <1>8 DEF LeaseInv

(* The page reads the record, or works on its own store.                   *)
LEMMA PageKeepsLease ==
  ASSUME LeaseInv,
         \/ Refresh \/ ForgetShards \/ TellForget \/ Restart
         \/ \E k \in Shards : Accept(k)
         \/ \E p \in 1 .. MaxPosts : Tombstone(p)
  PROVE  LeaseInv'
<1>1. UNCHANGED <<now, posts, cache, req>>
  BY DEF Refresh, ForgetShards, TellForget, Restart, Accept, Tombstone, logVars, swVars
<1>2. known' = known \/ known' = posts
  BY DEF Refresh, ForgetShards, TellForget, Restart, Accept, Tombstone
<1>3. known' \in Seq(Row) /\ KnownIsEarlier'
  <2>1. CASE known' = known
    BY <1>1, <2>1 DEF LeaseInv, KnownIsEarlier
  <2>2. CASE known' = posts
    <3>1. \A p \in 1 .. Len(posts) : posts[p] \in Row
      BY ElementOfSeq DEF LeaseInv
    <3>2. \A p \in 1 .. Len(posts) : posts[p].exp <= posts[p].exp
      BY <3>1 DEF Row
    <3> QED BY <1>1, <2>2, <3>2, LenProperties DEF LeaseInv, KnownIsEarlier
  <2> QED BY <1>2, <2>1, <2>2
<1> QED BY <1>1, <1>3 DEF LeaseInv, Granted

(* A card asks with the expiry the page has read.                          *)
LEMMA AskKeepsLease ==
  ASSUME LeaseInv, NEW r \in Reqs, NEW p \in 1 .. MaxPosts, Ask(r, p)
  PROVE  LeaseInv'
<1>1. UNCHANGED <<now, posts, known, cache>>
  BY DEF Ask, logVars, pageVars
<1>2. /\ p \in DOMAIN known
      /\ req' = [req EXCEPT ![r] = [st |-> "match", exp |-> known[p].exp]]
  BY DEF Ask
<1>3. p \in 1 .. Len(known) /\ p \in 1 .. Len(posts)
  BY <1>2, LenProperties DEF LeaseInv, KnownIsEarlier
<1>4. known[p] \in Row /\ known[p].exp <= posts[p].exp
  BY <1>3, ElementOfSeq DEF LeaseInv, KnownIsEarlier
<1> DEFINE e == known[p].exp
<1>5. e \in Nat /\ e # 0 /\ Granted(e)
  BY <1>3, <1>4 DEF Row, Granted
<1>6. req' = [req EXCEPT ![r] = [st |-> "match", exp |-> e]]
  BY <1>2
<1> HIDE DEF e
<1> QED BY <1>1, <1>5, <1>6 DEF LeaseInv, KnownIsEarlier, Granted

(* A request goes on with the expiry it came with, ends, or leaves a copy  *)
(* stamped with it.                                                        *)
LEMMA HandlerKeepsLease ==
  ASSUME LeaseInv, NEW r \in Reqs, Handler(r)
  PROVE  LeaseInv'
<1>1. UNCHANGED <<now, posts, known>>
  BY DEF Handler, Hit, Stale, Drop, Miss, Fetched, NotKept, Put, logVars, pageVars
<1>2. CASE Put(r)
  <2>1. /\ req[r].st = "stamp"
        /\ cache' = req[r].exp
        /\ req' = [req EXCEPT ![r] = NoReq]
    BY <1>2 DEF Put, Stamp
  <2> QED BY <1>1, <2>1 DEF LeaseInv, KnownIsEarlier, Granted, NoReq
<1>3. CASE Hit(r) \/ NotKept(r)
  <2>1. req' = [req EXCEPT ![r] = NoReq] /\ cache' = cache
    BY <1>3 DEF Hit, NotKept
  <2> QED BY <1>1, <2>1 DEF LeaseInv, KnownIsEarlier, Granted, NoReq
<1>4. CASE Stale(r) \/ Drop(r) \/ Miss(r) \/ Fetched(r)
  <2>1. /\ req[r].st # "idle"
        /\ cache' \in {cache, 0}
        /\ \E st \in {"drop", "fetch", "stamp"} : req' = [req EXCEPT ![r].st = st]
    BY <1>4 DEF Stale, Drop, Miss, Fetched
  <2>2. /\ req' \in [Reqs -> [st : {"idle", "match", "drop", "fetch", "stamp"}, exp : Nat]]
        /\ \A q \in Reqs : req'[q].exp = req[q].exp
        /\ \A q \in Reqs : req'[q].st # "idle" => req[q].st # "idle"
    BY <2>1 DEF LeaseInv
  <2> QED BY <1>1, <2>1, <2>2 DEF LeaseInv, KnownIsEarlier, Granted
<1> QED BY <1>2, <1>3, <1>4 DEF Handler

LEMMA MessagesKeepLease ==
  ASSUME LeaseInv, Messages
  PROVE  LeaseInv'
<1>1. UNCHANGED <<now, posts, known, req>> /\ cache' \in {cache, 0}
  BY DEF Messages, ForgetLooks, ForgetDeletes, SweepLooks, SweepDeletes, logVars, pageVars
<1> QED BY <1>1 DEF LeaseInv, KnownIsEarlier, Granted

LEMMA LeaseInvInit == Init => LeaseInv
<1> SUFFICES ASSUME Init PROVE LeaseInv
  OBVIOUS
<1>1. posts = <<>> /\ known = <<>> /\ <<>> \in Seq(Row) /\ Len(<<>>) = 0
  BY EmptySeq DEF Init
<1>2. now \in 1 .. MaxTime /\ cache = 0 /\ req = [r \in Reqs |-> NoReq]
  BY DeviceAssumption DEF Init
<1> QED BY <1>1, <1>2 DEF LeaseInv, KnownIsEarlier, NoReq

LEMMA LeaseInvNext == LeaseInv /\ [Next]_vars => LeaseInv'
<1> SUFFICES ASSUME LeaseInv, [Next]_vars PROVE LeaseInv'
  OBVIOUS
<1>1. CASE UNCHANGED vars
  BY <1>1 DEF vars, logVars, pageVars, swVars, LeaseInv, KnownIsEarlier, Granted
<1>2. CASE Next
  BY <1>2, RecordKeepsLease, PageKeepsLease, AskKeepsLease, HandlerKeepsLease,
     MessagesKeepLease DEF Next, Page
<1> QED BY <1>1, <1>2

-----------------------------------------------------------------------------
(* The rest of the types: the page's own state and the two messages.       *)
LEMMA OwnTypesInit == Init => PageTyped /\ SwTyped
<1> SUFFICES ASSUME Init PROVE PageTyped /\ SwTyped
  OBVIOUS
<1>1. forgotten \in BOOLEAN
  BY DEF Init
<1>2. disk = {} /\ keep = {} /\ forget = NoForget
  BY DEF Init
<1>3. sw = [forget |-> {}, sweep |-> {}]
  BY DEF Init
<1> QED BY <1>1, <1>2, <1>3 DEF PageTyped, SwTyped, NoForget

LEMMA PageTypedNext == PageTyped /\ [Next]_vars => PageTyped'
<1> SUFFICES ASSUME PageTyped, [Next]_vars PROVE PageTyped'
  OBVIOUS
<1>1. CASE UNCHANGED <<disk, keep, forgotten, forget>>
  BY <1>1 DEF PageTyped
<1>2. CASE Refresh \/ Record \/ Messages \/ UNCHANGED vars
  BY <1>1, <1>2 DEF Refresh, Record, OthersPublish, Extend, Settle, Tick, Messages,
     ForgetLooks, ForgetDeletes, SweepLooks, SweepDeletes, vars, pageVars
<1>3. ASSUME NEW r \in Reqs, Handler(r) \/ \E p \in 1 .. MaxPosts : Ask(r, p)
      PROVE  PageTyped'
  BY <1>1, <1>3
     DEF Handler, Hit, Stale, Drop, Miss, Fetched, NotKept, Put, Ask, pageVars
<1>4. CASE Publish
  BY <1>4 DEF Publish, PageTyped
<1>5. ASSUME NEW k \in Shards, Accept(k) PROVE PageTyped'
  <2>1. forget' = forget /\ forgotten' = forgotten
    BY <1>5 DEF Accept
  <2>2. keep' \in SUBSET Shards /\ disk' \in SUBSET Shards
    BY <1>5 DEF Accept, PageTyped
  <2> QED BY <2>1, <2>2 DEF PageTyped
<1>6. ASSUME NEW p \in 1 .. MaxPosts, Tombstone(p) PROVE PageTyped'
  <2>1. forgotten' \in BOOLEAN
    BY <1>6 DEF Tombstone
  <2>2. disk' = disk /\ keep' = keep /\ forget' = [st |-> "remove", listed |-> disk]
    BY <1>6 DEF Tombstone
  <2> QED BY <2>1, <2>2 DEF PageTyped
<1>7. CASE ForgetShards
  <2>1. keep' = keep /\ forgotten' = forgotten /\ forget' = [st |-> "tell", listed |-> {}]
    BY <1>7 DEF ForgetShards
  <2>2. disk' \in SUBSET Shards
    BY <1>7 DEF ForgetShards, PageTyped
  <2> QED BY <2>1, <2>2 DEF PageTyped
<1>8. CASE TellForget
  BY <1>8 DEF TellForget, PageTyped, NoForget
<1>9. CASE Restart
  <2>1. forgotten' \in BOOLEAN
    BY <1>9 DEF Restart
  <2>2. disk' = disk /\ keep' = {} /\ forget' = NoForget
    BY <1>9 DEF Restart
  <2> QED BY <2>1, <2>2 DEF PageTyped, NoForget
<1> QED
  BY <1>2, <1>3, <1>4, <1>5, <1>6, <1>7, <1>8, <1>9 DEF Next, Page

LEMMA SwTypedNext == SwTyped /\ [Next]_vars => SwTyped'
<1> SUFFICES ASSUME SwTyped, [Next]_vars PROVE SwTyped'
  OBVIOUS
<1>1. CASE sw' = sw
  BY <1>1 DEF SwTyped
<1>2. CASE Record \/ UNCHANGED vars
  BY <1>1, <1>2 DEF Record, OthersPublish, Extend, Settle, Tick, vars, swVars
<1>3. CASE Page
  <2>1. CASE TellForget \/ Restart
    BY <2>1 DEF TellForget, Restart, SwTyped
  <2>2. CASE ~(TellForget \/ Restart)
    BY <1>1, <1>3, <2>2 DEF Page, Refresh, Publish, ForgetShards, Accept, Tombstone, swVars
  <2> QED BY <2>1, <2>2
<1>4. ASSUME NEW r \in Reqs, Handler(r) \/ \E p \in 1 .. MaxPosts : Ask(r, p)
      PROVE  SwTyped'
  BY <1>1, <1>4 DEF Handler, Hit, Stale, Drop, Miss, Fetched, NotKept, Put, Ask
<1>5. CASE Messages
  BY <1>5 DEF Messages, ForgetLooks, ForgetDeletes, SweepLooks, SweepDeletes, SwTyped
<1> QED BY <1>2, <1>3, <1>4, <1>5 DEF Next

LEMMA InvariantsGiveTypes == LeaseInv /\ PageTyped /\ SwTyped => TypeOK
<1> SUFFICES ASSUME LeaseInv, PageTyped, SwTyped PROVE TypeOK
  OBVIOUS
<1>1. cache # 0 => \E p \in DOMAIN posts : cache \in 1 .. posts[p].exp
  <2> SUFFICES ASSUME cache # 0 PROVE \E p \in DOMAIN posts : cache \in 1 .. posts[p].exp
    OBVIOUS
  <2>1. PICK p \in 1 .. Len(posts) : cache <= posts[p].exp
    BY DEF LeaseInv, Granted
  <2>2. posts[p] \in Row /\ p \in DOMAIN posts
    BY ElementOfSeq, LenProperties DEF LeaseInv
  <2> QED BY <2>1, <2>2 DEF LeaseInv, Row
<1>2. {posts, known} \subseteq Seq([exp : Nat \ {0}, live : BOOLEAN])
  BY DEF LeaseInv, Row
<1> QED BY <1>1, <1>2 DEF LeaseInv, PageTyped, SwTyped, TypeOK

(* A copy that is shown is fresh, and what it is stamped with was granted. *)
LEMMA HitIsUnderLease ==
  ASSUME LeaseInv, NEW r \in Reqs, Hit(r)
  PROVE  \E p \in DOMAIN posts : posts[p].exp > now
<1>1. cache > now
  BY DEF Hit, Fresh
<1>2. cache \in Nat /\ now \in Nat /\ cache # 0
  BY <1>1, DeviceAssumption DEF LeaseInv
<1>3. PICK p \in 1 .. Len(posts) : cache <= posts[p].exp
  BY <1>2 DEF LeaseInv, Granted
<1>4. posts[p] \in Row /\ p \in DOMAIN posts
  BY <1>3, ElementOfSeq, LenProperties DEF LeaseInv
<1> QED BY <1>1, <1>2, <1>3, <1>4 DEF Row

(* However requests, extensions, settlement, a second publication, FORGET  *)
(* and SWEEP overlap, the cache holds nothing stamped beyond what the      *)
(* record granted and shows nothing beyond it (app/sw.js handleMedia).     *)
THEOREM NothingShownOverdue == Spec => CacheUnderLease
<1>1. LeaseInv /\ [Next]_vars =>
        [\A r \in Reqs : Hit(r) => \E p \in DOMAIN posts : posts[p].exp > now]_vars
  BY HitIsUnderLease
<1> QED
  BY <1>1, LeaseInvInit, LeaseInvNext, OwnTypesInit, PageTypedNext, SwTypedNext,
     InvariantsGiveTypes, PTL
     DEF Spec, CacheUnderLease, ShownUnderLease
=============================================================================
