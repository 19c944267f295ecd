# Urma: TLA+ models, checks and proofs

Urma publishes records on Bitcoin-like chains: a record is carried by a
*commit* transaction and the *reveal* that spends it. On top of that the
repository builds names, git and file archives, web packages and a message
wire. This directory models the parts in which the order of blocks, calls,
crashes and approvals decides whether the result is right.

## The system

| part | state it keeps | operations | meets |
|---|---|---|---|
| names registry (`urma-names` engine, state, payload) | name bindings, pending requests, votes, expiry index, undo frames | connect, disconnect, prune, resolve | fed by the scanner, read by CLI and gateway |
| names scanner (`urma-names` scan, index) | the index file: checkpoints, commit window, registry | sync: load, anchor, rollback, rebuild, scan, persist | a `Source` (node, providers, P2P) that reorganizes between calls |
| disk publication (`urma-runtime` disk_publish, disk_journal, publish; `urma-cli` git_follow_cli, web_cli) | plan, observations log, journal | publish, resume, watch | the node's mempool and chain, an operator |
| plans on disk (`disk_plan`, `disk_writer`, `disk_order`, `planner`) | plan directory | write, validate, open | wallet, publication |
| P2P light client (`urma-runtime/src/p2p`) | header chain, block cache, peers, requests in flight, address book | connect, sync headers, fetch block, drop peer | peers, a worker thread, callers of its source |
| transport router (`transport`, `providers`, `endpoints`, `backend`) | circuit breaker and cooling per provider | call, failed, succeeded | public providers, concurrent callers |
| source adapters (`bitcoin_rpc`, `electrum`, `esplora`, `remote`, `source`, `litecoin`) | sessions | request/response translation | external services |
| node facade (`node`) | acknowledged broadcasts | presence, broadcast, tip | adapters |
| recovery (`multipart/recovery`, `recovery`, `pinning`, `relay`, `transfer`) | partial results, pins | recover, pin | sources, files |
| wire index (`urma-wire` index) | the index file: checkpoints, messages | sync: roll back, fetch a batch with threads, confirm the tail, persist | a `Reader` that reorganizes between calls |
| core formats, chain proofs (`urma-core`, `urma-chain`) | none | encode, decode, verify | everything |
| web (`urma-web`, gateway files of `urma-cli`) | package store, gateway cache | pack, store, serve | names, recovery, HTTP |
| git (`urma-git`) | workspace, approvals, scan pool | plan, review, approve, scan, check out | publication, recovery |
| files (`urma-files`), atomic files (`urma-io`) | catalog; none | ingest, recover; write_replace | everything that persists |
| node client (`urma-node-client`) | overlay of unconfirmed names | query, overlay | a remote node |
| identity, wallet (`urma-identity`, `urma-wallet`, runtime `wallet`) | vault, keys, coins | derive, sign, select | planning |

What is hard here: a reorganization can arrive between any two answers of a
source; a registry must take blocks back exactly; a second copy of state (the
expiry index, the commit window, the observations log) must agree with the
first; the process can end between a durable note and the action it announces;
the mempool forgets; approvals arrive late. `PROJECT.json` lists these hazards
at their lines, with the properties that would catch them; every component,
modelled or not, is listed there with the reason.

## Modules

Each component is a module; `MC*` modules give it a small instance; `*Proofs`
modules prove theorems about it for every instance. `map` in `PROJECT.json`
names the lines behind every definition. A definition that no
specification uses (most are commented `mutant`) is a plausible slip of the one
it stands beside, and shows that the properties notice it.

### NamesRegistry (urma-names: engine, state, config, payload)

`names`, `pending`, `expiries`, `undo` and `height` are the fields of
`Registry`. `connect_delta` runs three passes over a block (approver records,
open claims, owner records); `Connect`, `Approve`/`Vote`, `Claims` or
`SkipClaims`, `OwnerRecord` and `Finish` are those passes, with `phase` as the
pass in progress. The records of a block are chosen when a pass reaches them:
the passes share no record kind, so each choice is a block. `Disconnect` and
`Prune` are `disconnect_delta` and `prune`. A transaction id determines its
record (`Rec`), as a hash does. `before` is a history variable: the maps before
each block that can still be undone. `mined` is the environment's note of which
reveals the chain holds; `Earlier` lets some of them come no later than the
genesis block, where the registry does not look. The reported outcomes are left
out; what they say is the guard of the disjunct taken.

Properties: `UndoExact`, `ExpiryIndexExact`, `ServedTargetApproved`,
`NoLingeringVotes`, `OwnerUntilExpiry`.

### NamesSync (urma-names: scan, index)

One step per call of the source; the chain may be another one at every step
(`Reorg`), and the call may end anywhere (`Stop`). The registry is represented
by the blocks it connected and what was observed in each, which is all that
`connect` is given; `NamesRegistry` says what it does with them. `locator` is
the commit window in memory, `index.window` the one that is persisted.
Two parts of the state are history: `mixed` of an entry (its window held a block
that the index had not connected) and `rebuilt` (where `rebuild_window` last
read the window). Properties: `PersistedSound` (one chain, and it loads),
`OnlyMixedDiffers` (observations differ from those of a fresh scan only through
a window mixed by `rebuild_window`, and not for long), `SyncEnds`;
`FreshScanAgrees` (they never differ) is violated, see what disagrees.

### SignedPlan and DiskPublish (urma-runtime: quote, planner, disk_writer, disk_plan, disk_order, disk_publish, disk_journal, publication_progress, node; urma-cli git_follow_cli)

`SignedPlan` is the plan of a multipart publication as operators: geometry,
quote, the planner that signs it record by record and the validator that every
load runs. `PlanSound` says that what loads is a whole tree and that what is
funded as quoted becomes a plan, over plans of every geometry within
`MaxLength` and edits of them; `PlansAreSound` proves it of every plan. A
record's `id` stands for its txid and digest, so equal identities are equal
records (`PlansAssumption`, with `IsRecord`, what the record format rules out).

`DiskPublish` loads such a plan (all candidates are loaded, one of them, a data,
a leaf and a root record, the smallest real plan, is walked) and runs the passes
of `follow`: `Begin`, `Inventory` per transaction, `Anchored`, then
`WalkCommit`/`WalkReveal` per record with `Look`, `Accepted` or `Refused`, and
`LookAgain` when something is submitted, then `Finish`. The node is external:
`Mine`, `Reorg` (the last block is replaced), `Evict`; they happen only while
the process is at a call, since its other steps touch its own memory only.
`acked` is what `Node::acknowledged` still vouches for after the providers lost
it; for a resumed process it is an over-approximation. The log keeps the last
presence per transaction and whether its last line is whole; `TornAppend` is a
crash inside `observe`, `Abort` any error or crash that ends a pass.
Properties: `RevealOrder`, `PendingBound`, `AttemptsDurable`, `CompleteHolds`,
`FollowSettles`. Interruptions are unbounded, reorganizations count as faults.
`RecordFee` is one constant: the price of records of different sizes is not
distinguished.

### WireIndex (urma-wire: index)

One call of `sync`: `Open`, `TipHeight`, `Rollback` per iteration of its loop,
`StartBatch`, then `Take`, `Fetch` and `FetchFails` of the threads in any order
against `Collect` and `Apply` of the collector, `Joined`, `ConfirmTail` and
`Return`. `cursor` and `failed` are the two atomics of `Batch` (the flag is read
relaxed, so a thread may still take a position after another one raised it);
`inbox` is the channel, `waiting` and `expected` the collector's. The reader is
on another chain whenever `Reorg` says so; `Stop` is a crash or an error outside
of the batch. Properties: `EntriesExact`, `ReportHonest`, `Settles`.

### LightClient and PeerSet (urma-runtime: p2p)

`LightClient` has the header chain with its index and file, the header rounds,
the pipeline of block requests, the block cache, and the worker thread with the
callers of `P2pProvider`. Headers form a tree with a `Verdict` each; batches may
be rejected half way, writes fail, peers lie, leave and answer late, and the
process crashes. `PeerSet` is how peers are found: pool, book, pins, bans,
seeding, redials, dial threads and the channel of their results.
Properties: `IndexExact`, `RequestsTracked`, `FollowsWork` (`WorkGrows`: only
more work replaces a chain, in memory and on disk; `Converges`: if header rounds
keep ending and one honest peer stays, the most work is followed);
`OneDialEach`, `DialsPermitted`, `Reconnects`.
Seen while modelling: `finish` connects a dialled host without looking at the
bans again; an address known from DNS only stays in `tried` after one failure;
`skip_v6` is never reset.

### Router and Lookup (urma-runtime: transport, remote, electrum, light)

`Lookup` is what a caller may rely on: an answer of a provider that had the
record during the call and is of the right network, Missing only when somebody
lacked it, an error only when nobody answered, and an end of every call.
`Router` is the code: a snapshot of open candidates ordered by evidence and
health, one attempt at a time or a race of the first two, the circuit breaker,
`Retry-After` and the genesis check. `Implements` is the refinement
(`Promise == INSTANCE Lookup WITH ...`), `StrongestFirst` and `Recovers` are
about the order of evidence and the breaker. A rejected broadcast or an Electrum
"Unsupported" counts as a failure of the provider; a race joins its slower
thread before it returns; only `sendrawtransaction` and what follows it has a
preferred provider; a retry may broadcast twice, which the network absorbs.

### WebStore and Gateway (urma-web store; urma-cli gateway_state, gateway_site)

`WebStore` is the store of verified publications, a file being absent, good or
bad. `Gateway` adds the worker threads, the rescan of names, the cache, the
flights, the bounded queue and the fetch thread. A story of `Stories` is what the
chain binds the name to block by block, and what the configured names archive may
answer. Properties: `JobsExact`, `KeptWhole` (cache accounts exact; a pointer
never precedes its files), `MovedNameStops`, `ServesAgain`. An archive's view is
published with the height and tip it reports and the age of its acquisition
(gateway_state.rs:196), so one that lags behind the chain keeps a moved name
served as long as it answers; urma-cli/README.md:221-226 says the operator is
trusted for that. `MovedNameStops` has the end of such views as a hypothesis; in
the stories `Moved` and `MovedUnseen` the archive lags or there is none. A request reads its snapshot once and uses it
after `await_fetch`; a transaction file that rotted is never repaired, which
`ServesAgain` takes as a hypothesis.

### Recovery (urma-runtime multipart/recovery, recovery; urma-git checkout; git clone)

A clone tries the archive, then notes the tip, fetches root, leaves and parts in
batches of threads from honest, lying and lagging providers, checks the chain
again, rebuilds from what it kept and renames the checkout into place, against a
chain that moves and a rival clone. Properties: `RecoveredExact`,
`InstallsSafely` (what passes the last check is on the active chain; a checkout
that another clone installed is never replaced), `Recovers`. The tip check cannot
see a chain that leaves and returns (A, B, A): the stories leave that out. A
record seen above the noted tip is not looked at again, and `InstallsSafely` says
nothing of it.

### PrivateArchive (urma-runtime journal, container, relay, source, litecoin, bitcoin_rpc; urma-cli archive_cli)

A private plan is prepared, signed, pushed by four commands (Core, regtest,
relay, Litecoin), observed, and recovered by scanning blocks or from a
container, with interruptions, evictions, reorganizations, a rival spend and
conflicting records. Properties: `RecoversExactly`, `ReportHonest`,
`Publishes`. Core's status has no second look at the tip, the explorer's has
(source.rs:484) and misses A, B, A.

### ScanPool and GitWorkspace (urma-git: workflows, workspace, plans, snapshot, review, scan_pool, scan_batch; runtime wallet)

`ScanPool` is the secret scan with its threads and bounded channel;
`GitWorkspace` the plan directory on which several processes prepare, review,
publish and resume while the operator commits and spends elsewhere and any
process fails or is killed; either may publish the same plan. The findings in
the branch and repository name, which one thread puts at the head of the report
before the pool starts (review.rs:160-173), are left out: `ScanOf` is about the
objects, and `FindingsLimit` is what the names leave of the limit. `SentStays`
speaks of the plan and of the existence of journal and log, not of the log's
lines.  Properties: `SentStays`, `SentAsApproved`,
`ScanExact`, `CommandsEnd`. Seen while modelling: a `review.json` torn by a
crash blocks both `require` and `record`; the leftovers of a killed review block
`prepare`; `git publish` records the review of whatever plan is in the directory;
`inspect_plan` reads without the lock; the quote prices one input where the
planner may need several; the web and names publishers (web_cli.rs:348,
names_flow.rs:153, common_cli.rs:41) take no lock.

## Runs

| run | shows | bounds | states |
|---|---|---|---|
| `names_registry` | undo frames, expiry index, votes, approvals, owners | one name, three policies (open; one approver; threshold 2), heights 1..8 (the end of the height type included), expiry 2, reveal window 1, two commit slots, prune to 1, stories in which some reveals wait for others to be mined first (`First`) | 695,760 |
| `names_sync` | the scanner under reorganizations and crashes | the chains of `MCNamesSync`, window 2, reversible 2, 2 blocks a call; the source may switch at every step | 115,299 |
| `names_rebuild` | violated: a window mixed by `rebuild_window` changes what a scan observes | the same | - |
| `disk_publish` | plans that load; order of reveals, buffer, durable attempts, a complete report is true, the loop ends | plans of up to 9 units and their edits; 3 records, 1 pending commit, 1 fault (eviction, reorganization, full mempool, watch, torn append); interruptions unbounded; the safety properties are proved for every bound | 546,638 |
| `wire_index` | the message index under racing threads, failures, reorganizations, crashes | 3 threads, batches of up to 3 blocks, chains of a tree with a fork of a fork | 141,192 |
| `light_client` | header index, requests, the most work | 7 headers (two forks, one header that breaks a rule, one that needs earlier history), an honest and a lying peer, one caller, batches of 3, cache of 1 | 281,541 |
| `peer_set` | dial slots, bans and pins, reconnection | 2 addresses (one IPv6), 2 dials, 1 peer, 2 changes of the network; with and without pins | 82,872 |
| `router` | refinement of `Lookup`, evidence, breaker | a light client, an HTTP source, an Electrum server; 2 callers, breaker 2, 2 moves of the servers | 165,514 |
| `gateway` | jobs, cache, store, moved names, repair | 2 publications sharing an object, 4 stories (a move with a lagging archive or without any, an expiry, a suspension), lag 1, 2 workers, queue of 1, cache of 2, 1 event (so no rot during an outage) | 432,110 |
| `recovery` | exact recovery, active chain, eventual recovery | three parts under two leaves and 15 damaged relatives, histories of chain and providers, batches of 2 | 44,573 |
| `private_archive` | exact scans, honest status, publication | an object of two records, eight other records, stories of pushes, scans and containers, up to 2 reorganizations | 178,911 |
| `git_workspace` | the submitted plan, the scan, the end of commands | 2 processes, 3 commands, 1 commit of the operator, 2 scan threads, 3 coins | 452,595 |

Deadlock is not checked (`CHECK_DEADLOCK FALSE`) where the system may stop: a
registry at the last height of its type, and modules whose environment has a
bounded number of moves.

Why the bounds are enough: names share nothing but the height, so one name and
two rivals, two approvers and two votes per side are the smallest numbers at
which order and thresholds matter, and an expiry of 2 lets a name bound at height 3 or
4 expire, be taken by the rival, and an update of its first owner be approved
after that, all within heights 1..8 (one story has just these steps). Three records are the smallest plan with all
roles; one pending commit fewer than records makes the buffer bind. Two threads
or callers (three for the wire batch, where a thread may fail while one waits
and one fetches) are the smallest number that races. What larger instances would add
for the safety properties is answered by the proofs below where there are any.

## Fairness

* `NamesSync`: a started call goes on (WF).
* `WireIndex`: the caller and each thread go on (WF): the scope joins its
  threads and every call of the reader has a timeout. `CatchesUp`, a part of
  `Settles`, has repeated calls of `sync` and a calm chain as hypotheses.
* `DiskPublish`: a pass goes on (WF); the loop begins its next pass, the network
  mines what it holds and acknowledgements lapse (SF, since watching and the
  calls of the process come in between). Resuming is up to the operator, so
  `FollowSettles` ends in `done` or `stopped`.
* `LightClient`: none; `Converges` states its needs as hypotheses.
* `PeerSet`: the worker and each dial thread go on (WF, dials have a timeout);
  seeding and the launch of a dial that keep coming due happen (SF: the worker
  loops over both).
* `Router`: a call goes on; blocks and `Retry-After` windows run out (WF:
  clocks). Nothing makes a server come back.
* `Gateway`: the clock, the fetch thread (which takes jobs, and steps or fails),
  the workers and the retry delay go on (WF).
* `Recovery`: the command goes on, the scripted history of the chain goes on
  (WF).
* `PrivateArchive`: a started command goes on and blocks are mined (WF); the
  operator repeats a command that stays possible (SF), which is the hypothesis
  "broadcast again and again" of `Publishes`.
* `GitWorkspace`: each process goes on, blocks are mined (WF). Starting commands
  is bounded, not fair.

## What disagrees with the repository's own words

* `rebuild_window` reads the window block by block after `rollback` compared
  only the last checkpoint (scan.rs:305). A source that switches forks in
  between and is back for `scan_block` leaves commits of the other fork in the
  persisted window, and a later reveal is judged by them: the incremental scan
  differs from a fresh one, which tests/scan.rs:451 asserts equal. The run
  `names_rebuild` is the counterexample of `FreshScanAgrees`, listed as a
  finding; `OnlyMixedDiffers` is what does hold, checked and proved.
* After a torn append, `history` ignores the unterminated line, but `observe`
  appends behind it (disk_journal.rs:44, 91): the joined line makes every later
  `resume` of that journal fail. `AttemptsDurable` speaks of a log that can be
  read.
* `AWAITING_PARENT` is not retryable in `transaction` (disk_publish.rs:337),
  although `broadcast` announces "retrying on the next pass".
* The anchor check (disk_publish.rs:156) misses a reorganization that replaces
  only blocks mined after the anchor: a complete report can list a transaction
  that is back in the mempool. `CompleteHolds` is what does hold.
* The weight of the publication buffer can be exceeded by one record
  (disk_publish.rs:206-208 compares before it adds); the number of pending
  commits cannot (`PendingBound`).

## Proofs

Proof modules extend the module they are about. The assumptions are the named
`ASSUME`s of the modules, which TLC evaluates in the runs: sentinels are not
values, rules are what `Genesis::validate` accepts, constants have their types.

**NamesRegistryProofs**, for all names, keys, records, policies and heights.
`TypeCorrect`, `DisconnectExact` (`UndoExact`), `ExpiryIndexCorrect`
(`ExpiryIndexExact`), `NeverOverdue` (no binding at or past its expiry).
*Argument.* `NothingOverdue` is not inductive: after `Disconnect` the maps are
earlier ones, so the invariant has to speak about them too. `Inv` is `TypeOK`,
`ExpiryIndexExact`, `UndoExact`, `NothingOverdue` and `PastNotOverdue` (every
remembered state had nothing overdue at its own height). `Connect` uses the
index to show that `Due` finds every name whose time has come; `Disconnect` uses
`UndoExact` to show that the restored maps are the remembered ones. Every record
action touches one name or one pending record and needs that `Remember` keeps
the first value.
`VotesStayFresh` (`NoLingeringVotes`) and `ApprovedTargets`
(`ServedTargetApproved`) rest on a second invariant, `Administered`: votes are
clean, the approvals of a pending record are approvers and a completed one has a
threshold of them, every bound name of an administered registry is granted by
some completed record, all of that also in every remembered state; and every
pending record is dated: its transaction is in a block at or below the height.
The last is what makes it inductive: a reorganization frees the transactions of
its block to be mined again, and a record that were still pending then would be
overwritten by its fresh copy, with the approvals that a served target rests on.
`OwnersKeepNames` (`OwnerUntilExpiry`) follows from `Inv` action by action; the
expiry index enters because `Connect` unbinds what the index lists.

**DiskPublishProofs**, for every number of records, limit, kind and number of
faults, and every order of roles in which data precedes leaves and leaves
precede the root (`OrderAssumption`, the order that `Order::append` enforces).
`DurableAttempts` (`AttemptsDurable`), `OrderedReveals` (`RevealOrder`),
`CompleteIsTrue` (`CompleteHolds`), `BoundedPending` (`PendingBound`).
*Argument.* `Ordered`: what the node holds was accepted and what is in a block was
mined before (`Told`); what a pass has seen was there (`Witnessed`); the log has
what was accepted and what is about to be sent (`Logged`); the flags of a walk
speak of all records before its position, and a reveal is looked for or sent
only when its commit was mined and its dependencies are revealed (`Eligible`).
`Current`: while the anchor is held, what was seen in a block still is in one,
unless it was mined after the anchor (`NewTip`, `Fresh`). `Bounded`: every
commit that floats in the mempool is one the pass knows to be pending or has
just sent (`Noticed`), and its buffer counts at least the pending ones (`Roomy`);
this needs that an acknowledgement may hide an eviction but never a transaction
that is there.

The second half of the module proves `PlansAreSound` (`PlanSound`) for every set
of plans that satisfies `PlansAssumption`, every `MaxLength`, `Fanout` and
`PartUnits`. *Argument.* A fold is unrolled into the chain of its values, and
what is said of the chain is proved by induction over its positions
(`Inductive`). *Loading*: after k accepted records the validator has seen p data
parts and then l leaves, in order, and its two lists are the references to them
(`Shape`); a leaf or root is accepted only with the entries so listed, so when
the count of nodes agrees with the declared length the records are a whole tree
(`ShapeAll`, `WholeIs`, `TreeIs`), and each commit spends the change of the one
before (`ChainIs`). *Signing*: the coin left after k records is the first one
less k times `Cost` (`SigningFunds`), so the quoted coin reaches the last record
and a coin one unit smaller does not (`SignsAll`, `SignsNotLess`); what the
planner signs is accepted pair by pair, which ties the writer's geometry to the
validator's (`JudgedData`, `JudgedLeaf`, `JudgedRoot`, `SignedLoads`). The state
invariant is only that a plan past loading passed the validator (`Loaded`).

**RouterProofs**, for all providers, callers, requests and moves of the servers.
`KeepsPromise`: initial states and steps of `Router` are initial states and
steps of `Lookup` under the refinement mapping, the safety part of `Implements`
(its fairness part is liveness and stays with TLC). `StrongestEvidence`
(`StrongestFirst`). *Argument.* The invariant says of every call in progress
that what is left in its queue was not asked, is not to be avoided and serves the
method; that a result waits only in a race and is an answer; that Missing was
said only where a record was asked for (`CallSound`); and, outside a race, that
one provider is asked at a time and no public report is asked while an open light
client is left in the queue (`InOrder`).

The same module proves, of `PrivateArchive` (prefix `Archive!`, all variables
but `moves` shared by name), for every plan, story, order of blocks, eviction,
rival spend and interruption, `ConfirmedIsOneChain` (`ReportHonest`) and
`RevealsFollowTheCommit` (`RevealAfterCommit`, the safety part of `Publishes`).
*Argument.* `ArchiveInv`: chains only get longer, and the abandoned one is no
longer than the active one (`Chained`), so a chain that moved at most once since
a command noted its tip, and that still goes through that tip, was never left;
hence what the command saw confirmed is in the tip (`Watching`, `Judging`).
While the commit was never on the chain and the operator allowed no unconfirmed
parents, no reveal is public (`Shown`) and a command has only the commit to send
(`Sends`). The hypothesis, `ArchiveAssumption`, says that reveals are not the
commit or a coin, that a story starts from a consistent chain and that the
records of others are not those of the plan.

**GitWorkspaceProofs**, for any number of processes, commands, coins and
commits. `SubmittedPlanStays` (`SentStays`), `SubmittedAsApproved`
(`SentAsApproved`). *Argument.* Whoever is between the check of the approval and
the submission holds the lock, and the directory is the plan that was approved
and reviewed; whoever replaces the directory holds the lock too and has seen,
under it, that nothing was started; the journal or the log of a started
publication is never removed.

`ScanIsExact` (`ScanExact`), for any number of threads, objects, findings and
commits. *Argument.* `ScanInv` is the account of a running pool: an object that
was taken is being sent, on the channel or in the results, unless it has no
finding (`Held`), and is in one place only (`Once`); without an error a thread
stops only when there is nothing left (`Through`), an error is on its way to the
one who waits for it (`Told`), and the shared count is that of the objects taken
(`Count`). When the threads are through, the results sorted by index are the
indices with findings, in order, and their reports joined are the listing of the
commit; the fold that joins them is unrolled into a chain of prefixes. `FindInv`
carries this from the pool to the directory: what is staged or stored is a scan
of a whole commit, and the lock lets one process scan at a time (`Apart`).

**WireIndexProofs**, for every tree of blocks, batch size and finite, non-empty
set of threads. `PersistedChain` (what is persisted is one chain),
`PersistedEntries` (`EntriesExact`), `HonestReport` (`ReportHonest`).
*Argument.* The invariant says of the index in memory what the properties say of
the file (`Sound`). `HonestReport` needs an account of the batch (`Accounted`):
every position a thread took is applied, waiting, on the channel or being
fetched; a position nobody took has a thread left to take it or an error on the
channel; a raised flag has its error on the channel. When the channel is closed
and empty nothing of that is left but "applied".

The same module proves, of `Recovery` (prefix `Clone!`, with `pc` and `tip`
renamed), `NothingLeftBehind` (`InstallsSafely`), for every set of stories: chains
that move, providers that lie or lag, other clones. *Argument.* `CloneInv`:
whatever a job, a result, the map of accepted records or a pending answer says of
a block was true of some version of the chain between the one whose tip was noted
as anchor and the present one. A block hash fixes the height and the blocks below
it; so when the last check finds the anchor at its height, every version in
between held the anchor too, and the blocks noted at or below it are still
active. That uses what the code cannot see: the chain does not return to a block
it left (`RecoveryAssumption`; A, B, A deceives the check).

**NamesSyncProofs**, for every set of chains, genesis height, commit window and
number of retained blocks. `PersistedIndexSound` (`PersistedSound`) and
`FreshScan` (`OnlyMixedDiffers`). *Argument.* `IInv` says of the index in memory
and of the one in the file that the genesis block, the connected blocks and the
checkpoints lie on one chain (`Linked`); it adds what the next call relies on: an
index without checkpoints has an empty registry (`Based`), a window holds nothing
above the height (`Below`), a window being rebuilt is filled from its lower end
(`Spanned`). For `FreshScan` the invariant `EInv` follows the window through a
call: it holds every block that a reveal in the next block can reach, those
above `rebuilt` are blocks of the index, and `Keep` blocks later nothing older
is left (`Covers`); there is one block more while that block is looked at
(`Ahead`). That the old blocks are gone in time rests on the number of
checkpoints, which tells `trim` when to begin (`Long`). Two windows of one chain
with the same blocks in reach give the same observations because a transaction
is in one block of a chain (`OnceAssumption`), so a difference needs a stray
block (`LastFresh`), and a stray block was read by `rebuild_window` and not long
ago (`StraySoon`). No hypothesis restricts when the source may switch.

**LightClientProofs**, for every tree of headers, set of peers and callers and
every limit. `HeaderIndexExact` (`IndexExact`), `RequestsAreTracked`
(`RequestsTracked`), `OnlyMoreWork` (`WorkGrows`, the safety part of
`FollowsWork`). *Argument.* The chain in memory and the chain in the file are
paths of the tree from the checkpoint (`ChainInv`), so the offset of a header is
the length of its path less one, whichever chain holds it (`Rank`). What peers
answer is a run of parents and children (`AnswersRun`), so what is fresh in a
batch grafts onto the held chain at its base (`BatchGrafts`), and the three ways
in which `extend` changes the index give the offsets of the joined chain
(`PushedExact`, `ReplacedExact`) or those from before (`RejectedExact`). The work
of a chain is the sum of its parts (`WeightJoined`), so weighing a branch against
what it replaces is weighing the whole chains; the file holds no more work than
memory (`WorkInv`), which a restart needs. `ReqInv` strengthens
`RequestsTracked` by what a disconnected peer owes: nothing. Without that a peer
that comes back would be owed answers nobody waits for. `PathAssumption` says
that the tree is one: no header precedes itself. `Inductive` is induction over
the naturals with the property given as a set, from the well-foundedness of
the order.

The same module proves two invariants of `PeerSet`, which it hosts under the
prefix `Dial!`, for all addresses, pins and limits that satisfy
`PeerSetAssumption`. `OneDialPerSlot` (`OneDialEach`): `DialInv` says for each
address that a slot marked dialing has exactly one thread or one undelivered
result, and every other slot none; a step that sends or receives a result changes
the number of results of one address by one. `DialsArePermitted`
(`DialsPermitted`): `PermitInv` says that what the pool holds is permitted and
not banned, and that every slot (waiting, dialing, connected) is permitted. The
pool is filled by folds over gossip, seeds and the book; `FoldExists` and
`FoldKeeps` unroll a fold into a chain of pools, along which the invariant is
kept step by step.

**GatewayProofs**, for any number of workers, publications and objects, every
queue and every budget. `OneFetchEach` (`JobsExact`) and `NothingHalfKept`
(`KeptWhole`). *Argument.* `JobInv` reads `JobsExact` as three facts a step can
be held against: the queue repeats nothing, the running job is not in it, and the
flights marked queued are the two together; `Requested` adds that a worker only
ever waits for a publication, which `launch` needs. For the store, no step makes
a file absent and a job that stands at a step has the files of the earlier steps
(`Reached`), so the pointer, written last, never comes before what it stands for;
an import is unrolled into the same steps, and it may run beside a fetch of the
same publication. For the cache, `Exact` says that the order lists the entries
without repetition and that the counter is the total of their sizes. `forget` and
the evictions take one entry out of all three (`ForgottenExact`, `PopOneExact`),
and since a put forgets the old entry first, nothing is counted twice
(`PutExact`). The total is a fold that takes the elements in an order nobody
chooses: that taking any of them first gives the same total (`TotalsOfAny`) is
shown by induction on the size of the set. `Sizes` may be zero.

## Only model-checked

* All liveness (`SyncEnds`, `FollowSettles`, `Settles`, `Converges`,
  `Reconnects`, the fairness part of `Implements`, `Recovers`, `MovedNameStops`,
  `ServesAgain`, `Publishes`, `CommandsEnd`): the prover has no fairness.
* What nested folds over data compute: `RecoveredExact`, `RecoversExactly`
  (records sorted into objects and reassembled). The library's induction
  theorems take an operator and cannot be instantiated. Sums, paths, totals,
  filtered lists, plans and pools of addresses are handled in the proofs above by
  induction over a set of numbers, or by unrolling a fold into a chain of values;
  these two nest several such folds.

## Not modelled

Byte formats, hashes, signatures, key derivation and encryption; proof of work
and Merkle proofs; argument parsing and output; the translation of requests for
external services; HTTP parsing; `Registry::from_parts`; `Target::Mempool` and
single-record publication of `publish_with`; the files archive and the node
client, which keep no state between calls; atomic file replacement, which every
module that persists takes as given (appends can be torn). `PROJECT.json` gives
the reason per component.
