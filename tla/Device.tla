------------------------------- MODULE Device -------------------------------
(***************************************************************************)
(* One browser that shows and stores one picture: the media cache of the   *)
(* service worker (app/sw.js), the shard store (app/storage.mjs) and the   *)
(* page that tells both what the log says (app/app.mjs).                   *)
(*                                                                         *)
(* The picture may be published again once its first post has settled, so  *)
(* `posts' is the sequence of posts of this one cid.  Every step of the    *)
(* code that awaits is a step here: cache and store change under a request *)
(* whose body is still on the way.  The device's clock is the log's.       *)
(***************************************************************************)
EXTENDS Integers, Sequences, FiniteSets, SequencesExt

CONSTANTS
  Reqs,      \* bound: requests for the picture in flight at once
  Shards,    \* the shards of the picture placement gives this device
  Lease,     \* days of one lease
  Grace,     \* settlementGraceSec
  MaxPosts,  \* bound: times the picture is published
  MaxTime    \* bound on the clock

ASSUME DeviceAssumption ==
  /\ {Lease, Grace} \subseteq Nat \ {0}
  /\ MaxPosts \in Nat /\ MaxTime \in Nat \ {0}

VARIABLES
  now,      \* the clock
  posts,    \* the record: the posts of the picture, at most the last one live
  known,    \* state.world: what of it the page has read
  disk,     \* shards in the store
  keep,     \* keepOwnShards: the shards still to take
  forgotten,\* is the cid in `forgotten'
  forget,   \* forgetPicture: where it is, and the shards it listed
  cache,    \* the stamp of the cached picture, 0 when there is none
  req,      \* handleMedia, per request
  sw        \* its two messages, FORGET and SWEEP: how far each is worked off

logVars  == <<now, posts>>
pageVars == <<known, disk, keep, forgotten, forget>>
swVars   == <<cache, req, sw>>
vars     == <<logVars, pageVars, swVars>>

NoForget == [st |-> "none", listed |-> {}]
NoReq    == [st |-> "idle", exp |-> 0]

Live(ps) == ps # <<>> /\ Last(ps).live

Init ==
  /\ now = 1 /\ posts = <<>> /\ known = <<>>
  /\ disk = {} /\ keep = {}
  /\ forgotten = FALSE /\ forget = NoForget
  /\ cache = 0 /\ req = [r \in Reqs |-> NoReq]
  /\ sw = [forget |-> {}, sweep |-> {}]
-----------------------------------------------------------------------------
(* The record, as Replay moves it: one live post of a picture at a time, a *)
(* lease that only grows, and settlement after the grace.                  *)
Published == Append(posts, [exp |-> now + Lease, live |-> TRUE])

OthersPublish ==
  /\ ~Live(posts) /\ Len(posts) < MaxPosts
  /\ posts' = Published
  /\ UNCHANGED <<now, pageVars, swVars>>

Extend ==
  /\ Live(posts) /\ Last(posts).exp + Lease <= MaxTime
  /\ posts' = [posts EXCEPT ![Len(posts)].exp = @ + Lease]
  /\ UNCHANGED <<now, pageVars, swVars>>

Settle ==
  /\ Live(posts) /\ now >= Last(posts).exp + Grace
  /\ posts' = [posts EXCEPT ![Len(posts)].live = FALSE]
  /\ UNCHANGED <<now, pageVars, swVars>>

Tick ==
  /\ now < MaxTime
  /\ now' = now + 1
  /\ UNCHANGED <<posts, pageVars, swVars>>
-----------------------------------------------------------------------------
(* The page reads the record.                                              *)
Refresh ==
  /\ known' = posts
  /\ UNCHANGED <<logVars, disk, keep, forgotten, forget, swVars>>

(* The composer's submit, answered: the accepted post is in the page's     *)
(* world, and the picture is still in its memory.                          *)
Publish ==
  /\ ~Live(known) /\ ~Live(posts) /\ Len(posts) < MaxPosts
  /\ keep = {}
  /\ posts' = Published /\ known' = Published
  /\ keep' = Shards
  /\ UNCHANGED <<now, disk, forgotten, forget, swVars>>

(* accept: the store takes a shard, or the connection is metered, or there *)
(* is no store.                                                            *)
Accept(k) ==
  /\ k \in keep
  /\ keep' = keep \ {k}
  /\ disk' \in {disk \cup {k}, disk}
  /\ UNCHANGED <<logVars, known, forgotten, forget, swVars>>

(* paintPost of a settled post: forgetPicture, once in a session.          *)
Tombstone(p) ==
  /\ p \in DOMAIN known /\ ~known[p].live
  /\ ~forgotten
  /\ forgotten' = TRUE
  /\ forget' = [st |-> "remove", listed |-> disk]
  /\ UNCHANGED <<logVars, known, disk, keep, swVars>>

(* space.forget: OPFS drops the picture's directory, IndexedDB the keys it *)
(* listed before.                                                          *)
ForgetShards ==
  /\ forget.st = "remove"
  /\ disk' \in {{}, disk \ forget.listed}
  /\ forget' = [st |-> "tell", listed |-> {}]
  /\ UNCHANGED <<logVars, known, keep, forgotten, swVars>>

TellForget ==
  /\ forget.st = "tell"
  /\ forget' = NoForget
  /\ sw' = [sw EXCEPT !.forget = @ \cup {"sent"}]
  /\ UNCHANGED <<logVars, known, disk, keep, forgotten, cache, req>>

(* The app is closed and started again: what the page was doing is lost,   *)
(* the store and the service worker are not.  Registration sends SWEEP.    *)
Restart ==
  /\ known' = posts
  /\ keep' = {} /\ forgotten' = FALSE /\ forget' = NoForget
  /\ sw' = [sw EXCEPT !.sweep = @ \cup {"sent"}]
  /\ UNCHANGED <<logVars, disk, cache, req>>
-----------------------------------------------------------------------------
(* handleMedia.  A card of a live post asks for /media/<cid>?exp=<expires>. *)
Ask(r, p) ==
  /\ req[r] = NoReq
  /\ p \in DOMAIN known /\ known[p].live
  /\ req' = [req EXCEPT ![r] = [st |-> "match", exp |-> known[p].exp]]
  /\ UNCHANGED <<logVars, pageVars, cache, sw>>

Fresh_Unchecked(stamp) == stamp # 0

(* May a copy with this stamp be shown?                                    *)
Fresh(stamp) == stamp > now

Hit(r) ==
  /\ req[r].st = "match" /\ Fresh(cache)
  /\ req' = [req EXCEPT ![r] = NoReq]
  /\ UNCHANGED <<logVars, pageVars, cache, sw>>

Stale(r) ==
  /\ req[r].st = "match" /\ cache # 0 /\ ~Fresh(cache)
  /\ req' = [req EXCEPT ![r].st = "drop"]
  /\ UNCHANGED <<logVars, pageVars, cache, sw>>

Drop(r) ==
  /\ req[r].st = "drop"
  /\ cache' = 0
  /\ req' = [req EXCEPT ![r].st = "fetch"]
  /\ UNCHANGED <<logVars, pageVars, sw>>

Miss(r) ==
  /\ req[r].st = "match" /\ cache = 0
  /\ req' = [req EXCEPT ![r].st = "fetch"]
  /\ UNCHANGED <<logVars, pageVars, cache, sw>>

(* May an answer be kept under this expiry?                                *)
Keepable(exp) == exp > now

(* The host answers with the picture, which it holds while a post is live; *)
(* the body is then on its way into the stamped copy.                      *)
Fetched(r) ==
  /\ req[r].st = "fetch" /\ Live(posts) /\ Keepable(req[r].exp)
  /\ req' = [req EXCEPT ![r].st = "stamp"]
  /\ UNCHANGED <<logVars, pageVars, cache, sw>>

(* No picture, no network, or an expiry already past: nothing is kept.     *)
NotKept(r) ==
  /\ req[r].st = "fetch"
  /\ req' = [req EXCEPT ![r] = NoReq]
  /\ UNCHANGED <<logVars, pageVars, cache, sw>>

Stamp_Renewed(exp) == now + Lease

(* stamp: the expiry written on the copy.                                  *)
Stamp(exp) == exp

Put(r) ==
  /\ req[r].st = "stamp"
  /\ cache' = Stamp(req[r].exp)
  /\ req' = [req EXCEPT ![r] = NoReq]
  /\ UNCHANGED <<logVars, pageVars, sw>>

(* forgetMedia: the keys are read, then the entry goes.                    *)
ForgetLooks ==
  /\ "sent" \in sw.forget
  /\ sw' = [sw EXCEPT !.forget = (@ \ {"sent"}) \cup {d \in {"delete"} : cache # 0}]
  /\ UNCHANGED <<logVars, pageVars, cache, req>>

ForgetDeletes ==
  /\ "delete" \in sw.forget
  /\ cache' = 0
  /\ sw' = [sw EXCEPT !.forget = @ \ {"delete"}]
  /\ UNCHANGED <<logVars, pageVars, req>>

(* sweepMedia: a stamp that is due is seen, then the entry goes.           *)
Due_Never(stamp) == FALSE

Due(stamp) == stamp # 0 /\ stamp <= now

SweepLooks ==
  /\ "sent" \in sw.sweep
  /\ sw' = [sw EXCEPT !.sweep = (@ \ {"sent"}) \cup {d \in {"delete"} : Due(cache)}]
  /\ UNCHANGED <<logVars, pageVars, cache, req>>

SweepDeletes ==
  /\ "delete" \in sw.sweep
  /\ cache' = 0
  /\ sw' = [sw EXCEPT !.sweep = @ \ {"delete"}]
  /\ UNCHANGED <<logVars, pageVars, req>>
-----------------------------------------------------------------------------
Record == OthersPublish \/ Extend \/ Settle \/ Tick

Page ==
  \/ Refresh \/ Publish \/ ForgetShards \/ TellForget \/ Restart
  \/ \E k \in Shards : Accept(k)
  \/ \E p \in 1 .. MaxPosts : Tombstone(p)

Handler(r) == Hit(r) \/ Stale(r) \/ Drop(r) \/ Miss(r) \/ Fetched(r) \/ NotKept(r) \/ Put(r)

Messages == ForgetLooks \/ ForgetDeletes \/ SweepLooks \/ SweepDeletes

Next ==
  \/ Record \/ Page \/ Messages
  \/ \E r \in Reqs : Handler(r) \/ \E p \in 1 .. MaxPosts : Ask(r, p)

Spec == Init /\ [][Next]_vars

(* The browser runs the service worker's handlers to their end.            *)
Fairness ==
  /\ WF_vars(SweepLooks) /\ WF_vars(SweepDeletes)
  /\ \A r \in Reqs : WF_vars(Handler(r))

FairSpec == Spec /\ Fairness
-----------------------------------------------------------------------------
(* Types; and no copy is stamped later than the record ever let it live.   *)
TypeOK ==
  /\ now \in 1 .. MaxTime
  /\ {posts, known} \subseteq Seq([exp : Nat \ {0}, live : BOOLEAN])
  /\ {disk, keep} \subseteq SUBSET Shards
  /\ forget \in [st : {"none", "remove", "tell"}, listed : SUBSET Shards]
  /\ forgotten \in BOOLEAN
  /\ cache # 0 => \E p \in DOMAIN posts : cache \in 1 .. posts[p].exp
  /\ req \in [Reqs -> [st : {"idle", "match", "drop", "fetch", "stamp"}, exp : Nat]]
  /\ sw \in [forget : SUBSET {"sent", "delete"}, sweep : SUBSET {"sent", "delete"}]

(* No picture is shown from the cache once the lease the record gives it   *)
(* is over: whatever was asked, extended, published again or still on its  *)
(* way, a copy that is returned belongs to a lease that runs.              *)
ShownUnderLease ==
  [][\A r \in Reqs : Hit(r) => \E p \in DOMAIN posts : posts[p].exp > now]_vars

(* The cache and what is shown from it stay within the leases.             *)
CacheUnderLease == []TypeOK /\ ShownUnderLease

(* A copy kept past its lease does not stay: in an app that is started     *)
(* again and again, the cache in the end holds nothing that has run out.   *)
OverdueCopyLeaves == ([]<><<Restart>>_vars) => <>[](cache = 0 \/ cache > now)
=============================================================================
