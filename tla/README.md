# A TLA+ verification of peer-two-peer

peer-two-peer is a picture network whose whole state is a pure function of one
append-only log of signed *acts*. This directory models it in TLA+, checks
small instances with TLC and proves theorems for every instance with TLAPS.

## 1. The system

| component | state | operations | talks to |
|---|---|---|---|
| rulebook `core/replay.mjs` | the `World`: accounts, handles, burns, pool, supply, capacity, posts, viewer ledger, cid index, epoch, rules | seventeen act kinds, applied whole or refused whole | pricing, amm, params, rules, placement |
| pricing `core/pricing.mjs` | none | fused conversion, fee split, epoch rate seal | rulebook, writer |
| pool `core/amm.mjs` | none (the pool is a value) | swap, add, remove | rulebook |
| parameters `core/params.mjs` | constants | emission, schedule, rail, rebate | rulebook |
| rules `core/rules/v1.mjs` | none | credit per author | rulebook, at a close |
| placement `core/placement.mjs`, `server/capacity.mjs` | challenge register | place a shard, challenge, answer | rulebook, writer, client |
| encodings `core/canonical.mjs`, `core/merkle.mjs` | none | canonical text, trees, proofs | chain, contracts |
| writer `server/index.mjs` | live world, `seenSigs`, write queue | `submit`: verify, check, append, apply, delete | log, media, burnwatch, oracle, clients |
| log `server/log.mjs` | `acts.jsonl`, its spans | open (cutting a torn tail), append + fsync, redact | writer, chain builder |
| media `server/media.mjs` | files by content hash | put (temp + rename), get, forget | writer |
| burnwatch `server/burnwatch.mjs` | none | ask two explorers | writer |
| oracle `server/oracle.mjs` | the last reading, the round in flight | read five sources, publish | writer, closers |
| chain `server/chain/{block,build,verify,keys}.mjs` | `chain.json`, `head.json`, producer key | seal, sign, rebuild, verify | the log's file, the archive job |
| election `server/chain/election.mjs` | none of its own | probe round, audit, decide | peers' chain and status |
| service worker `app/sw.js` | media and shell caches | answer for a picture, FORGET, SWEEP | page, host |
| client `app/*` | world of the page, wallet, shard store, view meter | everything a member does | writer, wallet, service worker |
| contracts `contracts/*.sol` | token, pool, anchor, rule key | an on-chain edition | the chain's blocks |

What is hard here:

* **Money in integers.** Every fee is split into legs that truncate, the pool
  rounds one way, claims another, rebates are scaled twice. The correctness of
  the whole is a set of identities over sums that no single act shows broken.
* **Two records of one fact.** The pot and the escrows; the viewer ledger and
  the post's counters; the cid index and the posts; what the epoch burned and
  what its acts burned. Different acts write the two sides.
* **Lazy resets.** The pair ledger and the provider's proofs of the epoch are
  never walked at a close, they are compared with the epoch's number when read.
* **A single writer with awaits.** A queue serialises the writes, but it is
  released while explorers are asked, uploads go round it, and the disk, the
  world and the picture store are three things a crash can separate.
* **Files without locks.** The chain builder reads a log that is being written;
  the archive job fetches chain and log in two requests.
* **Several hosts.** Which one writes is decided by each from its own probes,
  which are of different age.
* **Awaits in the browser.** A body that is on its way when its lease ends, an
  answer folded into a world that was replaced since the act was checked.
* **Somebody's word.** Burns, rates and storage are taken from explorers,
  sources, closers and devices, of which some may be wrong.
* **A contract that cannot be repaired.** Every first write on the chain is
  permanent, and one contract reads another's progress as its only clock.

What makes each part correct is stated with the runs in section 3.

## 2. The modules

| module | extends or instantiates | models |
|---|---|---|
| `Replay` | community modules only | the rulebook, with what it calls in `core/pricing.mjs`, `core/amm.mjs`, `core/params.mjs`, `core/placement.mjs`, `core/rules/v1.mjs` |
| `Rulebook` | extends `Replay`, instantiates `Ledger` | the part of the world a writer leans on, and that what lands there is what `Ledger` takes |
| `MCReplay` | `Rulebook` | instances: a funding path, then the acts one question is about |
| `Ledger` | | what a writer promises: the abstract specification |
| `Writer` | instantiates `Ledger` | `submit`, the write queue, the log file, the picture store, the explorers' answer, crash and reopen |
| `MCWriter` | `Writer` | two scenes |
| `Media` | | `server/media.mjs`: the temporary files of the uploads of one picture |
| `Watch` | | `server/burnwatch.mjs`: one round over the explorers, above a chain that grows and is replaced |
| `Oracle` | | `server/oracle.mjs`, what `server/index.mjs` publishes of it, and `sealRate` |
| `Capacity` | | placement, `server/capacity.mjs`, the device's shards, `capProof` |
| `Merkle` | | `core/merkle.mjs` |
| `Signature` | | the curve as written in `app/wallet.mjs` and again in `server/index.mjs` |
| `MCEvidence` | the five above and `Media` | seven questions, one at a time |
| `Chain` | | `server/chain/` but for the election, the log's file as a reader sees it, and the archive job |
| `Election` | | `server/chain/election.mjs`, for several hosts that also write, seal, copy and restart |
| `MCElection` | `Election` | instances |
| `Device` | | one picture in one browser: `app/sw.js`, `app/storage.mjs`, and what `app/app.mjs` tells them |
| `Client` | | one page: `refresh`, `send`, the cards and the view meter of `app/app.mjs`, `signAct` of `app/wallet.mjs` |
| `MCClient` | `Client` | symmetry of the calls in flight |
| `Anchor`, `Rules` | `Rules` extends `Anchor` | `PtpAnchor.sol`; `PtpRules.sol` beside the anchor that is its clock |
| `Token`, `Pool` | `Pool` extends `Token` | `PtpToken.sol`; `PtpPool.sol` over it and over wBTC |
| `MCContracts` | `Rules`, `Pool` | four scenes |
| `AccountingTheorems` | | sums, counts and roundings: the facts the proofs below share |
| `ReplayProofs` (over `Rulebook`), `WriterProofs`, `ChainProofs`, `DeviceProofs`, `ClientProofs`, `ElectionProofs` | the module of their name | the theorems of section 4 |
| `BoundaryProofs` | `Watch`, `Oracle`, `Capacity`, `Merkle`, `Media`, `Rules`, `Pool` | the theorems about outside evidence, the contracts, trees and files |

In every module an operator named `Of_Suffix` (`SplitFee_Truncated`,
`Seated_YieldsToEqual`) is a plausible mistake in the operator `Of`, kept beside
it. No action uses it; putting it in the place of `Of` makes a named property
fail, which shows that the property depends on that line of the code.

### Replay

The variables are the fields of the `World`. Every act kind is one action; its
guard is `envelopeProblem` plus the refusals of the kind's `prepare`, its primed
variables are the assignments of `commit`, and the tail of `applyAct` (the last
stamp, the genesis epoch's start) is part of it as `Lands`. A refused act leaves
the world alone, so it is a stuttering step. Time is the stamp an act carries;
the one condition between two acts is that stamps do not go backwards.

The arithmetic is the code's: fused conversion with one rounding up, fee legs
that truncate with the rest going to one leg, the pool's floors and its integer
square root, the two scalings of a rebate, the clamp and quorum of the epoch's
rate. Numbers are integers of any size, as in the code, which computes in
BigInt. What stands in for data: a handle is the confusable skeleton the index
is keyed by, a picture is its content hash, a transaction output is a value with
an amount, a rendezvous score is a constant table `Score` (any table: nothing
depends on the hash that fills it). The parameters are one constant record, with
what `assertInvariants` demands of them as its assumption, so an instance can
shrink the basis from ten thousand to ten and still leave dust in every split.

Abstracted: wording, picture dimensions and types, the reporting counters that
nothing reads, a view's dwell time (taken as sufficient), and the second index
of the log, which is the writer's.

### Ledger and Writer

`Ledger` is what a member is promised: one log, growing by one act at a time,
never by an act the rulebook refuses there and never twice by one signature;
whoever was told "accepted" finds the act in it for ever. The rulebook appears
through the checks a race can break (an output claimed once, a picture in one
unsettled post, a post settled once, stamps in order).

`Writer` is the process that keeps the promise. `queue` is the promise chain
`serialiseWrite` builds, `phase` the pass that holds it, `acts` and `tail` the
file as the process knows it and the bytes a failed write left beyond, `world`
and `seen` what is held in memory, `store` the pictures. The actions:

| action | code |
|---|---|
| `Send`, `Resend` | `submit` up to the queue: pen, duplicate signature |
| `Put` | an upload, which goes round the queue |
| `Refuse`, `HandBack`, `Admit` | the checks of `attemptWrite`; a claim without a proof leaves the queue to ask the explorers |
| `Explorers` | `verifyBurn`: they confirm, deny, or time out |
| `Write`, `WriteFails` | `log.append` with its fsync, then `applyAct`; or the disk throws with part, all or none of the line written |
| `Forget`, `ForgetFails` | `afterApply` deletes a settled post's picture |
| `Crash` | everything in memory is lost; `openLog` cuts the torn tail and `createServer` replays the rest |
| `Tick`, `LosePen` | the clock, and the election's verdict |

An upload is one step here, a pen once lost is not given back, and redaction,
which no endpoint calls, is left out.

`Rulebook` says that `Ledger` knows enough of the rulebook. `WorldInPart` maps the
world of `Replay` to the indexes and the last stamp that `Ledger` has;
`LandsAsLedger` says of every step of the rulebook that a claim, a post or a
settlement that lands is one `Ledger` accepts there and applies to the same
effect, and that an act of any other kind touches none of them. The rulebook has
other reasons to refuse, and those only keep acts out of the log: what `Writer` is
shown to do over `Ledger`'s world it does over the whole of it.

`Media` splits an upload of one picture: open (which makes a file, or empties the
one that has the name), a write per chunk at the upload's own place in it, sync,
rename. A file is known by the upload that made it, and what a crash leaves of it
is what was flushed or what was read of it before. A rename that was made is taken
as durable, although the code does not sync the directory.

### The word of others: Watch, Oracle, Capacity, Merkle, Signature

In `Watch` Bitcoin is a height and the place of one transaction. An explorer that
is right answers from the best chain, but its two requests (the transaction and
the tip) are two steps, between which a block may come or be replaced; one that
is wrong may say anything. `Verified` is the rule of `checkBurn`: two answers at
least, agreement within the tolerance, an unspendable output of the amount, the
depth. Within one round the best chain changes at most once: a round is ended
after fifteen seconds.

In `Oracle` a round is begun with the epoch and rate that stand, and brings later
what the sources said; requests join the round in flight; closes fall in
between. The median, quorum and clamp of the host and of `sealRate` are the
code's. A close may report nothing, a bare rate or a list of sources.

In `Capacity` sha256 is a table of scores without ties, one for the plain id of a
node and one for each placement slot its pledge buys. An answer is the epoch
whose seed it was computed for, and whoever has one may send it. The register of
challenges, its loss with the process, the two-second bound and the rulebook's
acceptance of a proof are separate steps.

In `Merkle` a digest is the tuple it was made from, since hashing is injective,
and a pair is a set, since the code sorts it. `LevelsOf` has a level for every
leaf, of which the tree is those up to `Height`, the first with one digest.
`Signature` carries out both
versions of the arithmetic on a small curve of the same form (prime field of 43,
order 31), with every nonce and every triple `r, s, recid` in range and around it.

### Chain

`log` is the lines the writer knows to be on the disk, `ghost` what lies beyond
them in the file: part of a line, a line not yet synced, the rest of an older
line under a shorter one. The builder reads both (`ReadActs`), seals what is
closed (`SealBlocks`, with `--rebuild` or not), renames `chain.json` into place
(`Publish`) and writes the head (`Project`); it may die in between. The archive
job fetches chain, then log, verifies, stages pictures and publishes. A digest is
the value it digests and a signature of a block the number of the key. The troubles
are a failed write, a restart that loses what was not synced, a builder that dies, a
lost key and a new edition of the code.

A line has a kind, a `stamp` (time, index and sender; of a close, the rate it seals
as well) and a `ref`: the picture of a post, the post of a settle. A block has the
acts of its epoch twice, without and with the pictures (`Structures`, and the lines
themselves), and the state after its close (`Package`). The close itself is in
neither list: `walkLog` sets it aside, and of it the block has its stamp and what it
did to the world. The `ref` of a close stands for the rest, its signature and the
quotes its rate is the clamped median of, which no block has (`Trace`, `Bare`).

### Election

A round is several steps: `Probe` fixes what the host says of itself, then each
peer is asked for its chain and for its status, then `Settle` decides from rows of
different age. `Decide` is `decide` with its boot quarantine, its fork freeze and
its rules for a seated host. No file of the repository calls `elect`, so what a
caller does with the answer is external: it adopts role and address, and a host
counts as quarantined until seated. `Write`, `Seal`, `Copy`, `Restart` (perhaps
from a backup in which the blocks lag behind the log) and `Promote` go on around
the rounds. `mandate` is a history variable.

### Device and Client

`Device` splits `handleMedia`, `forgetMedia` and `sweepMedia` at each of their
awaits, with two requests in flight over one picture that may be extended, settled
and published again. `Client` splits `send` at its awaits: the check against the
world of the page, the wallet, the request, the answer, the fold, the second read;
between them the world may be replaced by a refresh from a record of any age, and
the wallet's account may change. A card keeps the picture it was made with; the
meter's runs and its copy of the ledger are variables of their own.

### Anchor, Rules, Token, Pool

One transaction is one step by any account. An id or a hash is the tuple it is
made from; the three roots of an epoch are one word. `settledLog` is the set of
`Settled` events, which the contract never reads and which its header calls the
permanent record. `schedule` is empty until `Deploy`, which may come after any
number of seals. `Ceiling` is the greatest `uint256`; the assumption
`MaxEpoch + 1 < Ceiling` is the header's "a value PtpAnchor cannot reach".

In `Token` and `Pool` checked sums are guards and `unchecked` sums are taken at
their width (`Greatest`, 31 in the run). wBTC is external and moves what it is
told to. A call of the pool is atomic, so its lock is never found closed.

## 3. The runs

| run | question | properties |
|---|---|---|
| `posts` | The life of posts: the wall (an author, two viewers, two posts of one picture) and capacity (two nodes that prove and claim in every order, or one that resizes its pledge over a close) | `MoneyConserved`, `CidIndexExact`, `PairsCounted`, `CapacityHolds`, `SettledIsFinal`, `NoDilution`, `LandsAsLedger` |
| `market` | What makes and moves money: two epoch closes under rails that bind, and any nine acts on the pool | `SupplyWithinRails`, `RulesOnTime`, `RebateIsOfOwnBurn`, `PoolNeverLosesToTraders` |
| `writer` | One host with a failing disk and a crash | `HostConsistent`, `UnsettledHasPicture`, `ImplementsLedger`, `EveryRequestAnswered` |
| `evidence` | Explorers, sources, closers, devices, trees, uploads, signatures | `CreditedIsDestroyed`, `PublishedRateStands`, `DriftIsSlow`, `CreditMeansKept`, `OnlyOwnShareMoves`, `RootCommits`, `HalfIsOfTwins`, `OneSigner` |
| `chain` | A writer, the builder and the archive job | `RecordHolds`, `SealedStays`, `ClosedIsArchived` |
| `election` | Two hosts in overlapping rounds | `RolesHold`, `LongerRecordEndsUpAlone`, `ForkFreezesBoth`, `SomebodyWrites` |
| `device` | Two requests for one picture | `CacheUnderLease`, `OverdueCopyLeaves` |
| `client` | Two acts of one page | `PageFollowsRecord`, `OneChargePerLook` |
| `contracts` | The four contracts | `RecordSound`, `ScheduleSound`, `HoldingsAccounted`, `RecordIsFinal`, `AnswersFrozen`, `ShareValueNeverFalls` |

Some properties are conjunctions, stated so because their parts are read
together; each also carries the types of its module.

* `MoneyConserved`: coin in circulation is in an account, the pool, the treasury,
  the pot, a bond or a credit (`PtpConserved`); the pot is the sum of the escrows
  and a settled post has none (`PotIsTheEscrows`); satoshis enter only by claimed
  outputs (`SatConserved`).
* `PairsCounted`: ledger and counters agree (`TallyMatchesLedger`), and nothing a
  viewer does in between lifts a pair over its cap (`PairCapHolds`).
* `CapacityHolds`: no post is drawn past the capacity it sold, and the last unit takes
  the last of the rent (`RentFullyDrawn`); a pledge is bonded for its size, and what
  was proved in the epoch for what was bonded (`PledgesBonded`).
* `SupplyWithinRails`: money is conserved, and the net supply less the burn that
  may still be rebated is never above genesis, credit is never above the burn,
  emission never above its maximum.
* `LandsAsLedger`: the rulebook and the writer's abstract log agree on every claim,
  post and settlement, and nothing else touches the indexes they share.
* `HalfIsOfTwins`: what is read under a picture's name is the whole picture, or two
  uploads were begun in one millisecond and one of them had not got to its sync.
* `HostConsistent`: a request has exactly one place in the queue while it waits;
  the live world is the replay of the host's own file (`LiveWorldIsReplay`).
* `RecordHolds`: published chains are linked; a record fetched from an undisturbed
  host verifies; so does the archive, under the code that published it; and no
  edit of a sealed log that still verifies changes a sealed act, but for the
  signature and the quotes of a close (`TamperShows`). The edits take out, put in,
  swap and restamp lines and change the `ref` of every kind.
* `RolesHold`: roles and addresses fit, blocks are beginnings of the log, and rule
  1 of the election, "silence is not a mandate" (`NoPenOnSilence`).
* `CacheUnderLease`: no stamp beyond what the record granted, nothing shown past
  every lease.
* `PageFollowsRecord`: every line of the page's world is that line of the record,
  none twice or before an older one; two views in flight never share a sequence
  number.
* `PublishedRateStands`: what is published lies between readings of honest sources
  and within the clamp of the epoch it is signed for, and is a minute old at most
  where it is called live.
* `HoldingsAccounted`: emitted less burned is the supply and the sum of the
  accounts, under the cap; the pool holds what it booked and never closes.
* `RecordSound`, `ScheduleSound`: no epoch is missing below the horizon, no settled
  post without its event, and nobody stands under another's id (`NobodyElsesId`); the backwards scan answers with the nearest entry
  and the schedule can always be continued.

### Bounds, and why they are enough

The exact values are in the `.cfg` files; an MC module says which scene a
behaviour plays.

* *Posts.* Two posts of one picture is the least with which the cid index can go
  wrong, since it needs an old settled post and a new one.
* *Stamps.* Each set lies on both sides of every deadline its run compares
  (expiry, grace, cooldown, epoch length), so each comparison goes both ways; the
  wall's also holds the expiry and the end of the grace period themselves.
* *Money.* Ten basis points to the whole, odd prices and one-wei capacity make
  every split leave a remainder; larger amounts repeat the same residues. The
  on-chain run's words wrap at 31, above the cap of 24: only a sum that has
  drifted would wrap.
* *Requests.* A race needs two claims or posts that exclude one another and one
  act that changes what the first check saw: three at one instant (scene
  `crowd`), or two with every kind, a skew and a moving clock (scene `clock`).
* *Faults.* One failed write before one crash gives every shape of tail the code
  distinguishes; the retry by the sender comes from `Resend`.
* *Uploads.* A third upload takes the name that one of two twins has just given up,
  so that the other renames a file it never opened; two chunks give a half.
* *The word of others.* Two explorers, one wrong, with a reorganisation of one
  block and a depth of three, the least the assumption allows; five sources, one
  wrong, a quorum of three; eight closes, since the claim about drift is about
  seven; two nodes with two slots each and three rankings, which agree or disagree
  with that of the plain ids.
* *The chain.* Four lines, of which a trouble takes the room of two: two closed
  epochs undisturbed, or one epoch on each side of a trouble.
* *Hosts.* Two hosts and one disturbance; two acts in a log is one beyond what is
  sealed at the start. Three hosts are beyond what can be enumerated with
  liveness; the safety half is proved for any number.
* *The browser.* Two requests, leases of one day, two publications; two calls of
  `send`, two cards, two looks, one change of account.
* *Contracts.* One seal before the deployment, one between two entries and one
  after; eight calls of the market, four of them the funding.

Every rulebook behaviour starts in the empty world and funds its participants by
ordinary acts in a fixed order, so no state is assumed that the program cannot
reach. `MCContracts` keeps the record of posts, the schedule, the coins and the
pool in separate behaviours: two of them share only the clock, the other two only
the token. Deadlock is not checked because every instance ends when its bounds
are used up.

### Fairness

* `Writer`: weak fairness of the queue's head (the event loop runs a ready
  continuation, a disk call answers or throws) and of each question to the
  explorers (fifteen seconds, then it counts as failed). Nothing is assumed of
  senders, uploads, crashes or the clock. `EveryRequestAnswered` counts a crash as
  an answer, for the connection breaks.
* `Chain`: a write that was begun ends; the builder and the archive job, which
  timers start, run again and again. `ClosedIsArchived` speaks of undisturbed
  behaviours.
* `Election`: every host goes on with its rounds, and a mirror with its copying.
  Both are external to the repository's code: a timer would drive them.
* `Device`: the browser ends the handlers it started. Restarts of the app are not
  assumed; `OverdueCopyLeaves` has them as its premise.
* `Client` has no liveness property: every step of it waits for a person, a wallet
  or a network.

### Where a sentence of the repository does not hold

Three runs each check one sentence and end in a counterexample.

| run | the sentence | what happens |
|---|---|---|
| `twopens` | `docs/DECENTRALIZATION.md`: "exactly one host at a time … never concurrent" | a round reads role, address and act count from `/status.json`, which `server/index.mjs` does not serve; every peer looks unseated and empty, and both take the pen |
| `archive` | `archive.yml` refuses "a picture the log says was settled" | it looks for the cid on the settle act, which names its post by `pid`, and keeps the picture |
| `asked` | `core/replay.mjs`: challenges come from the placement it admits proofs by | `server/capacity.mjs` ranks plain node ids and asks nodes whose proof is refused |

Others were met while modelling; the models carry the behaviour, and no run is
spent on the sentence.

* `core/errors.mjs:334`: unclaimed proofs draw "as soon as rent or engagement
  refills their escrows". A post proved past its capacity has no unit left to draw
  by (`core/replay.mjs:1453`), and engagement sells none.
* `server/index.mjs:1199`: a picture is "gone the moment its post settles". A crash
  between the durable line and the deletion (`:952`) leaves the bytes, and no
  start deletes them.
* `docs/ARCHITECTURE.md:195`: `capBuy` "pays PTP into the capacity pot". The PTP is
  destroyed.
* `server/index.mjs:801`: the one thing that can change in the gap while explorers
  are asked is another claim of the output. An act with a later stamp, written
  meanwhile, makes the confirmed claim late.
* `server/chain/verify.mjs:30`: edition drift "on its own, is not fatal". The
  edition is among the fields of a block that must reproduce
  (`server/chain/block.mjs`, `DERIVED_FIELDS`).
* `core/pricing.mjs:318` and `:324`: "both the clamped rate and the sources it was
  clamped from are in the block", which "carries the per-source values precisely so
  that a reader can judge them afterwards". A block has the rate, the reserves and the
  epoch (`server/chain/block.mjs:348`); the act with the quotes is in the log only,
  and there they, and its signature, can be rewritten to others of the same median
  without a verifier seeing it (`QuotesAreNotSealed`). The header of `block.mjs`,
  "silent rewriting becomes detectable", holds of everything else.
* `contracts/PtpRules.sol`: "every epoch has an answer". Deployed after a seal, the
  contract has none for the epochs below its first entry.
* `server/oracle.mjs:23`, `docs/ECONOMICS.md:122`: a twofold distortion "costs eight
  epochs". Seven closes at minus ten percent halve the rate (`DriftIsSlow` is
  stated with the six that do not, from rates at which rounding does not outweigh
  the move).
* `server/oracle.mjs:68`, `core/pricing.mjs:287`: truncating a median down "can
  never raise a fee". A lower rate raises fees: a fee is set in euros and paid in
  satoshis.
* `server/scripts/close-epoch.mjs:22` and `:133`: an act with an oracle is refused
  because JSON has no bigint. `sealRate` takes decimal strings
  (`core/pricing.mjs:328`); the script's premise is an older edition of it.
* `app/storage.mjs:432`: a settled post's picture leaves the device. It leaves by
  its cid (`app/app.mjs:1109`): when the page of a settled post is painted while a
  later post of the same picture lives, the shards of the live one go too.
* `app/app.mjs:906` and `:910`: a page whose world "is behind" refetches. An own
  post can be folded into a world that misses somebody's earlier post, and then
  stands under another id until the next refresh; a view billed meanwhile is
  charged for the picture the writer has under that id.
* `app/app.mjs:1150`: the picture of a post's own page is "billable on the same terms
  as a card". It is registered under the post's identifier beside the card of the
  feed, and the two share one dwell: at each frame the hidden card's share of zero
  starts it again, so that while the feed holds a card of the post its page is not
  charged. This one is read off the source; `Client` has one element per post.
* `app/wallet.mjs:713`: the check before an act leaves catches a provider that
  signed as another account "when a user switches accounts mid-flight". It compares
  (`:732`) with the address of after the await, while the act names that of before.
* `app/wallet.mjs:503`: "EIP-155 chain-shifted values … mean the same one bit". 27
  is taken off first and 35 afterwards, so such a value is refused or names the
  other root.
* `server/media.mjs:328`: "a reader never sees a half-written object under a name
  that promises a complete one". The temporary name (`:362`) is the cid, the process
  and the millisecond; of two uploads in one millisecond the second empties the file
  that the first then renames. `HalfIsOfTwins` says that nothing else does it.
* `server/index.mjs:1679`: a host without a sealed block answers a refusal, which
  its peers count as silence (the third disjunct of `SomebodyWrites`).
* `app/app.mjs` never calls `storage.prove`, and stores shards of its own fresh
  pictures only; a challenge asked again starts its two seconds again.

## 4. The proofs

All are checked by TLAPS for every value of the constants that the named
assumptions allow. Every safety invariant and every action property of a passing
run is a theorem here, but for one that is named at the end.

**`AccountingTheorems`** is arithmetic, free of any state. `SumFunction` is the
community modules' fold over a bag of values; the module proves that a sum moves
by what one summand moves, splits over a partition, is monotone, and is zero only
if every summand is. The library's induction takes an operator as a parameter, which the provers here cannot instantiate, so
each induction is over a *set* of numbers (`SetInduction`, `CountUp`): the set of
those for which the claim holds contains zero and, with a number, the next.
`RunExists` and `GreatestExists` give recursions and maxima from it.

**`ReplayProofs`**, from `BoundsAssumption`, `ParamsAssumption` (what
`assertInvariants` of `core/params.mjs` demands) and `InputsAssumption`.

*The wall.* `CidIndexExact` is not inductive: nothing in it says that a new post
does not overwrite an old one. `PostInv` adds that pids are given out in order (a
post exists exactly when its number is not above `seq`), that live posts have a
picture from `Cids`, and their types. `PostFrame` shows that only three acts touch
the post table, so the step has one case for each of them and one for the rest.

* `PostsWellTyped`: the types of post table, index and counter.
* `CidIndexIsExact`: the index names exactly the unsettled posts.
* `SettlementIsFinal`: no act changes the row, escrow, credit or counters of a
  settled post; every action guards on the post being live.
* `ChangeIsOnTime` (`RulesOnTime`), with `ClockInv`: epochs only grow, by one, and
  only at the close that also looks at the scheduled change.
* `PairsAreCounted` (`PairsCounted`) needs `PairInv`: a pair's row of an older
  epoch is whatever it was, and every reader compares the epoch before the count.

*Money.* `MoneyInv` is the types of every row (no balance, escrow, bond or credit is
negative), the pool, the supply, the burns and the epoch's rates, and the three
books (`PtpConserved`, `PotIsTheEscrows`, `SatConserved`). The types carry the weight:
a truncated leg is only "somewhere" if the remainder is a natural number, which is
where the tariff's assumptions and the roundings enter. Each act has a lemma of
its own that says which summands it moves and by how much.

* `MoneyIsConserved`, `RentIsFullyDrawn` and `PoolKeepsItsProduct`
  (`PoolNeverLosesToTraders`: nonlinear, from the bounds of one floor and of the
  integer square root at a time).
* `ClaimsDiluteNobody` (`NoDilution`): a claim takes its floor of the share and
  leaves the others at least theirs.
* `PledgesAreBonded`: the code guards with a node's counter, `PledgesBonded` is about
  the proofs the posts hold. `BondInv` joins the two: the counter agrees with the
  proofs, the bond covers both the pledge and the counter, and nothing is
  registered for an epoch to come. With `RentIsFullyDrawn` it is `CapacityIsHeld`.
* `RebatesAreOfOwnBurn` and `SupplyStaysWithinRails`: a close computes credit from
  the *log* of the epoch, while `epoch.burned` was counted act by act. `RailInv` says
  that the first never exceeds the second, and that no act in the log is about a
  post that does not exist.

*The indexes.* `RulebookIsLedgers` (`LandsAsLedger`) has one case per act kind: the
three indexed kinds against the refusals of `Ledger`, with `PostInv` for what a
settled post leaves and `ActIsStamped` for the stamp; for every other kind, that
the burns and the life and picture of each post stay.

**`WriterProofs`**, from `WriterAssumption`. `HostInv` has six parts. `Booked` is
`HostConsistent`; `InPass` says what the pass that holds the queue has checked and
that nothing has changed it since; `Waiting` and `Requested` are the queue and the
requests; `Surroundings` the picture store. `Leftover` is the one that was not
expected: a failed write may leave a *whole* line behind the file's known end, and
a crash makes that line part of the record. It is harmless because it was checked
against the very log that is then read back, and because the next write covers it.

* `HostIsItsLog` (`HostConsistent`), `PicturesStand` (`UnsettledHasPicture`).
* `WriterKeepsItsPromise` (`ImplementsLedger`): the first state maps to a first
  state of `Ledger`, every step to a step or a stutter. The crash that keeps a
  leftover is an append of the abstract log, and nothing else outside `Write` is.
* `DurableIsReplayable`, `SignatureIsOneLine`, `AcceptedIsDurable`: the promises of the
  abstract log, with its own invariant, carried over to the host's file.

**`ChainProofs`**, from `ChainAssumption`, which asks nothing of hashing beyond
what section 2 says of digests. `FilesInv` is the types of the files. `SealInv`: the
chain, what the builder is about to publish, what the job holds and the archive are
each linked, and each is a beginning of the next longer one. `CalmInv` and `FetchInv`
are about a host that had no trouble: what lies beyond its known log is the line
being written or a torn part of it, and every chain in any hand is founded on a
beginning of what the disk holds.

* `PublishedIsLinked`, `SealedBlocksStay` (`SealedStays`): a builder's run extends the
  chain it read or refuses, through every trouble.
* `PublishedCopyVerifies`: the archive verifies under the edition that published it.
* `VerifiedRecordsAgree`: any two logs that verify against the same blocks hold the
  same acts up to the last close sealed, but for the signatures and the quotes of
  closes. The run tries single edits; this is about every rewriting.
* `QuotesAreNotSealed`: the exception is one. Two logs that differ in nothing but the
  signatures and the quotes of their closes verify against the same blocks. It rests
  on there being no close between two that follow each other, so that the lists of a
  block hold none.
* `RecordIsHeld` (`RecordHolds`, with its exception for closes). The job fetches the chain first and the log second,
  so the log it holds is at most one line behind: a line the builder read before
  the writer had it synced.

**`ClientProofs`**, from `ClientAssumption`, for any number of accounts, cards and
calls in flight. `ClientInv`: the record, the page's world as lines of it in order,
each call between its awaits, and `ViewInv`, which says that a view, in the record or
in flight, has a number not above the one last given, is of a look that is charged
(over, or spent), and is apart from every other.

* `PageStaysWithRecord` (`PageFollowsRecord`), `LookIsChargedOnce` (`OneChargePerLook`).

**`BoundaryProofs`** has the evidence from outside and the contracts.

*Explorers*, from `WatchAssumption`, `DepthSuffices` (what is replaced at once is less
than the depth asked for, by one block) and `OneMayLie`. `BurnIsReal`
(`CreditedIsDestroyed`) rests on `WatchInv`: an honest explorer that has answered in
full named a depth that is at most one more than the true one, because its two
requests straddle at most one change of the chain; among two answers that agree
one is honest; and a transaction that deep is never replaced.

*Sources and closers*, from `OracleAssumption` (a quorum of more than twice the
liars). `PublishedRateIsHonest` (`PublishedRateStands`): a median has as many answers on
either side, so by counting some honest reading is on each; `RateRoundInv` keeps
the epoch and rate a round began with beside those that stand now. `RateDriftsSlowly`
(`DriftIsSlow`): `Reach` follows a rate close by close, and `Dust` is the rate below
which the roundings of six closes outweigh the move.

*Devices*, from `CapacityAssumption`. `ShareMovesAlone` (`OnlyOwnShareMoves`): a node's
place depends on how many nodes are ahead of it, a pledge only moves its own node's
best score, and a set that shrinks by the rest has no more members.
`CreditIsStorage` (`CreditMeansKept`): an answer to a seed exists only if the bytes
were on a device in that epoch, and a proof is credited in no other.

*Anchor and rules*, from `AnchorAssumption` and `RulesAssumption`. The invariant
has the anchor's half (types, sealed epochs below the horizon, ids with their
authors, events with their posts) and the schedule's half: `Sorted`, and `ScanEnds`,
which says that wherever some entry is at or below an epoch there is a last such
entry. It is an induction over the behaviour, since an entry that is pushed is
either that last entry or is not at or below the epoch at all.

* `TypeCorrect`, `NoEpochSkipped`, `IdsBelongToTheirAuthors`,
  `SettledRecordIsWhole`, `ScheduleIsPartition`, `KeyIsNeverLockedOut`, and their
  conjunctions `RecordIsSound` and `ScheduleIsSound`.
* `NarrowGuarantee` (`AnswersFrozen`): the sentence the header of `PtpRules.sol`
  argues for in prose, deployment included. It needs that the clock stays below
  the ceiling, which is where the anchor's numbering enters.
* `NothingIsRevised` (`RecordIsFinal`): "one write, no revisions".

*Token and pool*, from `TokenAssumption` and `PoolAssumption`. `EveryCoinIsAccounted`
(`HoldingsAccounted`): the `unchecked` sums are computed at their width, and do not
wrap because the balances add up to a supply under the cap; of wBTC it takes that no more
exists than a word holds. `SharesKeepTheirValue` (`ShareValueNeverFalls`) is nonlinear, in four
cases by the function that was called.

*Trees.* `RootsCommit` (`RootCommits`), for lists of any length over any contents,
digests of trees among them. Each level is half the one below, rounded up, so some
level has a single digest (`HeightIs`, an induction over the levels). The digests
of a tree are closed downwards: a pair among them has both its members among them,
since no leaf is a pair (`TreeIsClosed`). A climb that ends in the root therefore
never leaves the tree, down to the leaf it began with, whatever siblings are tried;
and a leaf of the tree is a member's. Whatever is closed in this way and has the
root has every leaf (`RootHoldsLeaves`), so two lists of one ordered root have
each other's leaves, and a leaf there says its place.

*Files*, from `MediaAssumption` and `NoFileIsNoUpload`. `HalfOnlyOfTwins`
(`HalfIsOfTwins`): every file that was opened has an upload that answers for it, the
last to empty it, whose own chunks are all there while it writes and which leaves
the file whole on the disk once it has synced (`FilesAnsweredFor`); and what bears
the picture's name was put there by an upload of that file's millisecond
(`PutByOneOfItsTime`), though perhaps not by one that ever opened it.

**`DeviceProofs`**, from `DeviceAssumption`. `NothingShownOverdue`
(`CacheUnderLease`) is about a copy written long after it was asked for. `LeaseInv`
says of the record, of what the page has read of it, of the requests in flight and
of the cache that whatever expiry is anywhere was granted to some post: expiries
only grow, so what was granted stays granted, and a stale reader is harmless.

**`ElectionProofs`**, from `ElectionAssumption`. `PenNeedsMandate` (`RolesHold`) needs
an invariant in five parts: the record of each host (`RecordInv`, preserved by a
restart from a backup), the roles (`RoleInv`), that what is not in quarantine is
seated and what is seated had a mandate (`PenInv`), the shape of a round under way
(`RoundInv`) and that a host which was seated when its round began has its mandate
still (`MandateInv`). `First` is a `CHOOSE` of the best candidate; that there is one
is an induction over the candidates, made here over the round, which hears of one
host at a time (`Ranked`).

**Only model-checked**: `OneSigner`, which holds by the group law of the curve and
is enumerated on a small one; and everything that must *eventually* happen
(`EveryRequestAnswered`, `ClosedIsArchived`, `LongerRecordEndsUpAlone`,
`ForkFreezesBoth`, `SomebodyWrites`, `OverdueCopyLeaves`), since liveness under
fairness and `ENABLED` are out of the prover's reach. No module declares a
`RECURSIVE` operator; `Chain` and `Merkle` recur through functions, whose existence
is proved by an induction over a set of numbers and which are used one step at a time.

## 5. What is not modelled

* `site/`, about a third of the lines of the repository: `core/` and `app.mjs`,
  `storage.mjs` and `wallet.mjs` are byte-identical copies, and the originals are the
  ones modelled. `index.html`, the manifest, the style and the service worker are an
  older edition: the worker has another `VERSION` and a shorter list of shell files,
  and the same media part, which is the one modelled.
* `core/canonical.mjs`, `core/errors.mjs`: an encoding and a catalogue of refusals.
* `server/scripts/close-epoch.mjs`: a client that reads once and sends one act,
  which is an action of `Replay` and of `Oracle`.
* `ops/`, `agents/`: scripts that drive compilers, name services and the public API.
* In the writer: redaction, rate limits, read endpoints, a pen that comes back; of an
  upload, what is refused before anything is written.
* In the chain: `--force` and `--allow-producer-change`, an operator's overrides.
* In the election: address hygiene, byte ceilings, the signature of a fetched chain.
* In the app: the second picture frame that a post's own page registers under the
  post's identifier (section 3); the shell and static caches, forms, layout, key custody, and the act
  kinds other than posts and views, which take the same path through `send`.
* Quotes and display (`amountIn`, price impact, `formatEur`), windows inside a shard.

## 6. What is left

1. `Writer`: redaction, a pen that comes back; and its composition with `Election`,
   in which the pen is read at the door and lost in the queue.
2. `Client`: likes, comments and storage acts, with the page's claims on its shards.
3. Proofs: `OneSigner` for the curve's group law instead of one small curve.
