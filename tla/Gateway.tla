------------------------------ MODULE Gateway ------------------------------
(***************************************************************************)
(* The web portal of urma-cli (gateway_state.rs, gateway_site.rs): worker   *)
(* threads answer requests for one name host, one thread rescans the names  *)
(* registry and publishes snapshots, one thread fetches publications into   *)
(* the store, and `urma web fetch' may import into the same store from      *)
(* another process.  The threads share the snapshot, the cache of verified  *)
(* publications, the flights and the bounded queue of fetch jobs, each      *)
(* under a lock of its own.                                                 *)
(*                                                                          *)
(* A story says what the name is bound to at each height of the chain and   *)
(* what an operator's names archive may report.  A request that is refused  *)
(* changes nothing and is left out.                                         *)
(***************************************************************************)
EXTENDS WebStore, Sequences, FiniteSetsExt, SequencesExt

CONSTANTS
  Workers, None,
  Paths,         \* Paths[w] : the paths asked of worker w: "entry", "pin", "proof"
  Rotting,       \* the files that may rot
  Stories,       \* what becomes of the name: its binding at each height, the
                 \* [point, tip] of each view the configured archive may answer
                 \* (none: no archive), and a bound on the events
  MaxLag,        \* Freshness::max_lag
  ScanBlocks,    \* GatewaySettings::scan_blocks
  QueueMax,      \* GatewaySettings::fetch_queue
  Sizes, Budget, \* footprint of a publication, GatewaySettings::cache_bytes
  Imported       \* the publications another process imports

ASSUME GatewayAssumption ==
  /\ \A s \in Stories :
        /\ s.bound \in Seq([to : Roots \cup {"suspended", "unbound"}, expiry : Nat]) \ {<<>>}
        /\ s.views \subseteq [point : Nat, tip : DOMAIN s.bound] /\ s.events \in Nat
        /\ \A v \in s.views : v.point \in 1..v.tip
  /\ Sizes \in [Roots -> Nat] /\ Budget \in Nat
  /\ MaxLag \in Nat /\ {ScanBlocks, QueueMax} \subseteq Nat \ {0}
  /\ Paths \in [Workers -> SUBSET {"entry", "pin", "proof"}]
  /\ None \notin Roots /\ Rotting \subseteq Files /\ Imported \subseteq Roots

VARIABLES
  story,         \* the one of Stories that happens
  height,        \* the chain's tip
  up,            \* whether the chain source answers
  events,        \* the events of the environment so far
  index,         \* the height of the persisted names index
  snapshot,      \* the height it resolves at, the tip it was compared with, its scan,
                 \* and whether it is an operator's view
  store,
  cache,         \* Cache: the entries, their order of arrival, the bytes they take
  flights, queue,
  job,           \* the fetch under way
  call           \* call[w] : the request worker w is answering

memory == <<cache, flights, queue>>
world == <<story, height, up, events>>
vars == <<world, index, snapshot, store, memory, job, call>>

Idle == [phase |-> "idle", root |-> None, path |-> None]
NoJob == [root |-> None, step |-> "idle"]
NoCache == [entries |-> {}, order |-> <<>>, bytes |-> 0]
Steps == <<"pins", "payload", "proofs", "pointer", "check">>

\* Network::open: the index on disk, not compared with any tip yet.
Loaded == [point |-> index, tip |-> index, scan |-> "never", view |-> FALSE]

Init ==
  /\ story \in Stories
  /\ height = 1 /\ up = TRUE /\ events = 0
  /\ index = 1
  /\ snapshot = Loaded
  /\ store = Empty
  /\ cache = NoCache
  /\ flights = [r \in Roots |-> "none"] /\ queue = <<>>
  /\ job = NoJob
  /\ call = [w \in Workers |-> Idle]

TypeOK ==
  /\ story \in Stories /\ height \in DOMAIN story.bound /\ index \in 1..height
  /\ up \in BOOLEAN /\ events \in 0..story.events
  /\ snapshot.point \in 1..snapshot.tip /\ snapshot.tip \in 1..height
  /\ snapshot.scan \in {"never", "recent", "old"} /\ snapshot.view \in BOOLEAN
  /\ store \in [Files -> {"absent", "good", "bad"}]
  /\ cache.entries \subseteq Roots /\ cache.order \in Seq(Roots) /\ cache.bytes \in Int
  /\ flights \in [Roots -> {"none", "queued", "landed", "failed", "failed before"}]
  /\ queue \in Seq(Roots) /\ Len(queue) <= QueueMax
  /\ job.root \in Roots \cup {None}
  /\ \A w \in Workers : call[w].root \in Roots \cup {None}

Event == events < story.events /\ events' = events + 1

-----------------------------------------------------------------------------
(* The rescan thread *)

Published(point, tip, view) == [point |-> point, tip |-> tip, scan |-> "recent", view |-> view]

\* refresh: sync_index takes the index some blocks further, then the tip.
Refresh ==
  /\ up
  /\ index' = Min({index + ScanBlocks, height})
  /\ snapshot' = Published(index', height, FALSE)
  /\ UNCHANGED <<world, store, memory, job, call>>

\* An operator's view instead: what it was projected to and the tip it reports
\* may both be behind the chain, the acquisition is new; the index on disk stays.
RefreshFromArchive ==
  /\ \E v \in story.views : v.tip <= height /\ snapshot' = Published(v.point, v.tip, TRUE)
  /\ UNCHANGED <<world, index, store, memory, job, call>>

\* max_age passes since the last scan that succeeded.
Age ==
  /\ snapshot.scan = "recent"
  /\ snapshot' = [snapshot EXCEPT !.scan = "old"]
  /\ UNCHANGED <<world, index, store, memory, job, call>>

\* The age of the scan ignored.
JudgeByLag(s) ==                                          \* mutant
  s.scan # "never" /\ s.tip - s.point <= MaxLag

\* Freshness::judge
Judge(s) == s.scan = "recent" /\ s.tip - s.point <= MaxLag

\* A binding that has run out still answers.
StandingExpired(s) ==                                     \* mutant
  LET bound == story.bound[s.point] IN IF bound.to \in Roots THEN bound.to ELSE None

\* standing: the publication the name is bound to, not expired at the tip.
Standing(s) ==
  LET bound == story.bound[s.point]
  IN IF bound.to \in Roots /\ bound.expiry > s.tip THEN bound.to ELSE None

\* servable: the publication a request may be answered from, if any.
Servable(s) == IF Judge(s) THEN Standing(s) ELSE None

-----------------------------------------------------------------------------
(* The cache and the flights *)

\* SelectSeq(s, LAMBDA q : q # r), which the prover cannot expand.
Without(s, r) ==
  LET kept[n \in 0..Len(s)] ==
        IF n = 0 THEN <<>> ELSE IF s[n] = r THEN kept[n - 1] ELSE Append(kept[n - 1], s[n])
  IN kept[Len(s)]

\* Cache::forget
Forgotten(c, r) ==
  IF r \notin c.entries THEN c
  ELSE [entries |-> c.entries \ {r}, bytes |-> c.bytes - Sizes[r],
        order |-> Without(c.order, r)]

\* The oldest make room for a publication of this size.
Evicted(c, size) ==
  LET pop[n \in 0..Len(c.order)] ==
        IF n = 0 THEN c
        ELSE Forgotten([pop[n - 1] EXCEPT !.order = Tail(@)], Head(pop[n - 1].order))
      enough == {n \in 0..Len(c.order) : pop[n].bytes + size <= Budget}
  IN pop[Min(enough \cup {Len(c.order)})]

Inserted(c, r) ==
  [entries |-> c.entries \cup {r}, order |-> Append(c.order, r), bytes |-> c.bytes + Sizes[r]]

\* A publication remembered a second time is counted twice.
PutTwice(c, r) == Inserted(Evicted(c, Sizes[r]), r)       \* mutant

\* Cache::put
Put(c, r) == Inserted(Evicted(Forgotten(c, r), Sizes[r]), r)

\* The flight is recorded before the queue has room for it.
LaunchFirst(r) ==                                         \* mutant
  IF flights[r] \in {"queued", "failed"} THEN UNCHANGED <<flights, queue>>
  ELSE /\ flights' = [flights EXCEPT ![r] = "queued"]
       /\ queue' = IF Len(queue) < QueueMax THEN Append(queue, r) ELSE queue

\* launch, under the lock of the flights: a job is queued unless one is under
\* way, the last one failed a short while ago, or the queue is full.
Launch(r) ==
  IF flights[r] \in {"queued", "failed"} \/ Len(queue) >= QueueMax THEN UNCHANGED <<flights, queue>>
  ELSE /\ flights' = [flights EXCEPT ![r] = "queued"]
       /\ queue' = Append(queue, r)

-----------------------------------------------------------------------------
(* The workers *)

Goto(w, phase) == call' = [call EXCEPT ![w].phase = phase]
Done(w) == call' = [call EXCEPT ![w] = Idle]

\* name_reply: the snapshot is read once, and the name must be servable in it.
Accept(w, path) ==
  /\ call[w].phase = "idle"
  /\ Servable(snapshot) # None
  /\ call' = [call EXCEPT ![w] = [phase |-> "look", root |-> Servable(snapshot), path |-> path]]
  /\ UNCHANGED <<world, index, snapshot, store, memory, job>>

\* publication: from the cache, else verified in the store, else fetched.
Look(w) ==
  LET r == call[w].root
  IN /\ call[w].phase = "look"
     /\ Goto(w, IF r \in cache.entries THEN "serve"
                ELSE IF Verifies(store, r) THEN "remember" ELSE "launch")
     /\ UNCHANGED <<world, index, snapshot, store, memory, job>>

\* remember: a publication larger than the cache is served and not kept.
Remember(w) ==
  /\ call[w].phase = "remember"
  /\ cache' = IF Sizes[call[w].root] <= Budget THEN Put(cache, call[w].root) ELSE cache
  /\ Goto(w, "serve")
  /\ UNCHANGED <<world, index, snapshot, store, flights, queue, job>>

\* await_fetch
LaunchFetch(w) ==
  /\ call[w].phase = "launch"
  /\ Launch(call[w].root)
  /\ IF flights'[call[w].root] = "queued" THEN Goto(w, "await") ELSE Done(w)
  /\ UNCHANGED <<world, index, snapshot, store, cache, job>>

\* The flight has ended; what landed is verified in the store once more.
Await(w) ==
  LET r == call[w].root
  IN /\ call[w].phase = "await"
     /\ flights[r] # "queued"
     /\ IF flights[r] = "landed" /\ Verifies(store, r) THEN Goto(w, "remember") ELSE Done(w)
     /\ UNCHANGED <<world, index, snapshot, store, memory, job>>

\* fetch_wait passes; the fetch goes on without this request.
TimeOut(w) ==
  /\ call[w].phase = "await"
  /\ flights[call[w].root] = "queued"
  /\ Done(w)
  /\ UNCHANGED <<world, index, snapshot, store, memory, job>>

\* file and proof: a pinned object that fails its hash is forgotten with its
\* publication and fetched again; a proof that fails is only refused.
Serve(w) ==
  LET r == call[w].root
      intact == Intact(store, r, call[w].path)
      broken == ~intact /\ call[w].path = "pin"
  IN /\ call[w].phase = "serve"
     /\ cache' = IF broken THEN Forgotten(cache, r) ELSE cache
     /\ IF broken THEN Goto(w, "refetch") ELSE Done(w)
     /\ UNCHANGED <<world, index, snapshot, store, flights, queue, job>>

Refetch(w) ==
  /\ call[w].phase = "refetch"
  /\ Launch(call[w].root)
  /\ Done(w)
  /\ UNCHANGED <<world, index, snapshot, store, cache, job>>

-----------------------------------------------------------------------------
(* The fetch thread, and an import by another process *)

\* fetch_loop takes the next job.
Take ==
  /\ job = NoJob /\ queue # <<>>
  /\ job' = [root |-> Head(queue), step |-> Head(Steps)]
  /\ queue' = Tail(queue)
  /\ UNCHANGED <<world, index, snapshot, store, cache, flights, call>>

\* Whether a step of the fetcher can be done: it asks the chain for what it
\* stores, and a transaction that is there with other bytes stops it.
Possible(r, step) ==
  /\ step # "check" => up
  /\ step = "proofs" => Agrees(store, <<"proofs", r>>)
  /\ step = "check" => Verifies(store, r)

\* The pointer is written where the pins should be, and the pins last.
WrittenPointerFirst(s, r, step) ==                        \* mutant
  CASE step = "pins" -> PutPointer(s, r)
    [] step = "pointer" -> PutObjects(s, {"pin"} \X Pins[r])
    [] step \in {"payload", "proofs"} -> PutNew(s, <<step, r>>)
    [] step = "check" -> s

\* What a step of store_publication or Prepared::publish leaves in the store.
Written(s, r, step) ==
  CASE step = "pins" -> PutObjects(s, {"pin"} \X Pins[r])
    [] step = "payload" -> PutObjects(s, {<<"payload", r>>})
    [] step = "proofs" -> PutNew(s, <<"proofs", r>>)
    [] step = "pointer" -> PutPointer(s, r)
    [] step = "check" -> s

Land(r, flight) ==
  /\ job' = NoJob
  /\ flights' = [flights EXCEPT ![r] = flight]

\* store_publication, one file after the other.
Step ==
  LET i == CHOOSE i \in DOMAIN Steps : Steps[i] = job.step
  IN /\ job # NoJob
     /\ Possible(job.root, job.step)
     /\ store' = Written(store, job.root, job.step)
     /\ IF job.step = "check" THEN Land(job.root, "landed")
        ELSE job' = [job EXCEPT !.step = Steps[i + 1]] /\ UNCHANGED flights
     /\ UNCHANGED <<world, index, snapshot, cache, queue, call>>

Fail ==
  /\ job # NoJob
  /\ ~Possible(job.root, job.step)
  /\ Land(job.root, "failed")
  /\ UNCHANGED <<world, index, snapshot, store, cache, queue, call>>

\* `urma web fetch' from an archive: staged and verified first, then published
\* file by file without replacing any that differ.  It ends after n of them.
Import(r, n) ==
  LET after[i \in 0..n] == IF i = 0 THEN store ELSE Written(after[i - 1], r, Steps[i])
  IN /\ Event
     /\ \A g \in Files : store[g] = "bad" => after[n][g] = "bad" \/ g[1] = "pointer"
     /\ store' = after[n]
     /\ UNCHANGED <<story, height, up, index, snapshot, memory, job, call>>

\* fetch_retry passes since the failure.
RetryElapses(r) ==
  /\ flights[r] = "failed"
  /\ flights' = [flights EXCEPT ![r] = "failed before"]
  /\ UNCHANGED <<world, index, snapshot, store, cache, queue, job, call>>

-----------------------------------------------------------------------------
(* The environment *)

Mine ==
  /\ height < Len(story.bound)
  /\ height' = height + 1
  /\ UNCHANGED <<story, up, events, index, snapshot, store, memory, job, call>>

Outage ==
  /\ Event
  /\ up' = FALSE
  /\ UNCHANGED <<story, height, index, snapshot, store, memory, job, call>>

Return ==
  /\ ~up
  /\ up' = TRUE
  /\ UNCHANGED <<story, height, events, index, snapshot, store, memory, job, call>>

Rot(g) ==
  /\ Event
  /\ store[g] = "good"
  /\ store' = [store EXCEPT ![g] = "bad"]
  /\ UNCHANGED <<story, height, up, index, snapshot, memory, job, call>>

\* The portal is stopped and started again; the store and the index stay.
Restart ==
  /\ Event
  /\ snapshot' = Loaded
  /\ cache' = NoCache
  /\ flights' = [r \in Roots |-> "none"] /\ queue' = <<>>
  /\ job' = NoJob
  /\ call' = [w \in Workers |-> Idle]
  /\ UNCHANGED <<story, height, up, index, store>>

Proceed(w) ==
  \/ Look(w) \/ Remember(w) \/ LaunchFetch(w) \/ Await(w) \/ Serve(w) \/ Refetch(w)

Next ==
  \/ Refresh \/ RefreshFromArchive \/ Age
  \/ \E w \in Workers : Proceed(w) \/ TimeOut(w) \/ \E path \in Paths[w] : Accept(w, path)
  \/ Take \/ Step \/ Fail \/ \E r \in Roots : RetryElapses(r)
  \/ \E r \in Imported, n \in 1..4 : Import(r, n)
  \/ Mine \/ Outage \/ Return \/ Restart \/ \E g \in Rotting : Rot(g)

\* Threads run and clocks pass; no request, scan or block has to come, and
\* nothing makes the chain source answer.
Fairness ==
  /\ WF_vars(Age) /\ WF_vars(Take) /\ WF_vars(Step \/ Fail)
  /\ \A w \in Workers : WF_vars(Proceed(w))
  /\ \A r \in Roots : WF_vars(RetryElapses(r))

Spec == Init /\ [][Next]_vars /\ Fairness

-----------------------------------------------------------------------------
(* Properties *)

\* A flight is marked queued exactly while one job for it waits or runs: no
\* publication is fetched twice at once, and none is waited for that nobody
\* fetches (launch, land, fetch_loop).
JobsExact ==
  LET running == {job.root} \ {None}
  IN /\ IsInjective(queue)
     /\ ToSet(queue) \cap running = {}
     /\ {r \in Roots : flights[r] = "queued"} = ToSet(queue) \cup running

\* The cache counts the bytes of exactly the publications it holds, lists each
\* once and stays within its budget, however the workers that remember and
\* forget one publication interleave (Cache::put, forget).
CacheExact ==
  /\ IsInjective(cache.order) /\ ToSet(cache.order) = cache.entries
  /\ cache.bytes = FoldSet(LAMBDA r, n : n + Sizes[r], 0, cache.entries)
  /\ cache.bytes <= Budget

\* A publication with a pointer has all of its files: a fetch or an import that
\* is cut short anywhere, beside another one, leaves nothing that looks whole
\* and is not (store_publication, Prepared::publish).
PointerLast ==
  \A r \in Roots : store[<<"pointer", r>>] # "absent" =>
    \A f \in FilesOf(r) : store[f] # "absent"

\* What is kept, in memory and on disk, is kept whole.
KeptWhole == CacheExact /\ PointerLast

\* The reply of w carries something of r, with status 200.
Sends(w, r) ==
  /\ call[w].phase = "serve" /\ call[w].root = r
  /\ Declares(r, call[w].path) /\ Intact(store, r, call[w].path)
  /\ Serve(w)

\* The name is bound to r by the block at `point', and that has not run out
\* when the chain is at `tip'.
BoundTo(r, point, tip) == story.bound[point].to = r /\ story.bound[point].expiry > tip

\* The snapshot is an operator's view in which r is what the name is bound to.
ViewOf(s, r) == s.view /\ BoundTo(r, s.point, s.tip)

\* When a name has left a publication, by a move, a suspension or expiry, its
\* host stops serving it, also when every later scan fails and with requests
\* that were waiting for a fetch (judge, standing, name_reply).  An operator's
\* view may be behind the chain for as long as the operator likes, and it is
\* believed as long as it is acquired anew (urma-cli/README.md:221-226): so the
\* hypothesis is that at some time the last view that still has r is acquired.
MovedNameStops ==
  \A r \in Roots :
    /\ <>[]~BoundTo(r, height, height)
    /\ <>[][~ViewOf(snapshot', r)]_snapshot
    => <>[][\A w \in Workers : ~Sends(w, r)]_vars

\* The portal repairs itself: when the chain source is back, a name that stays
\* bound is served again and again to whoever keeps asking, whatever objects
\* of the store rotted and whichever fetches failed before (publication,
\* refetch, put_object).
Asks(w, r, path) == call[w] = [phase |-> "look", root |-> r, path |-> path]
ServesAgain ==
  \A r \in Roots, w \in Workers : \A path \in {p \in Paths[w] : Declares(r, p)} :
    /\ <>[](up /\ BoundTo(r, height, height) /\ \A f \in Transactions : store[f] # "bad")
    /\ []<>Asks(w, r, path)
    => []<><<Sends(w, r)>>_vars
=============================================================================
