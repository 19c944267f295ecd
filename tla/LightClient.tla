---------------------------- MODULE LightClient ----------------------------
(* The peer-to-peer light client (urma-runtime/src/p2p): the chain of        *)
(* verified headers and its file, the cache of blocks, the requests in       *)
(* flight to the connected peers, the worker thread that owns them and the   *)
(* threads that call P2pProvider.                                            *)
(*                                                                           *)
(* Headers form a tree. Verdict says what the checks of a header find: "pow" *)
(* fails its proof of work, "rule" one of the checks against its             *)
(* predecessors, "context" needs history that precedes the checkpoint.       *)
(* Time is abstract: any wait may time out, any request may be overdue. What *)
(* a peer claims about its height only decides whom the worker asks, so the  *)
(* choice is left open.                                                      *)
EXTENDS Integers, Sequences, FiniteSets, SequencesExt, FiniteSetsExt, Functions

CONSTANTS
    Blocks,        \* headers, and the blocks they commit to
    Anchor,        \* the embedded checkpoint
    Parent,        \* prev_blockhash, of every block but the anchor
    Work,          \* the work of a header
    Verdict,       \* "ok", "pow", "rule" or "context"
    Peers,
    Honest,        \* peers that follow the network and serve what they have
    Limited,       \* peers that keep only recent blocks
    Callers,       \* threads inside P2pProvider
    HeaderMax,     \* P2P_HEADER_CACHE_MAX
    MaxBatch,      \* P2P_MAX_HEADERS_PER_MESSAGE
    Linear,        \* P2P_LOCATOR_LINEAR
    Prefetch,      \* P2P_PREFETCH_BLOCKS
    PerPeer,       \* P2P_PIPELINE_PER_PEER
    LimitedDepth,  \* P2P_LIMITED_PEER_DEPTH
    CacheSize,     \* P2P_BLOCK_CACHE_BYTES, in blocks
    Attempts,      \* P2P_FETCH_ATTEMPTS
    QueueSize,     \* capacity of the command channel
    Tips,          \* tips the network may be at
    Wanted,        \* heights that callers ask for
    None,          \* no caller, no command
    Foreign        \* a header file that begins at another checkpoint

Verdicts == {"ok", "pow", "rule", "context"}

ASSUME TreeAssumption ==
    /\ Anchor \in Blocks
    /\ Parent \in [Blocks \ {Anchor} -> Blocks]
    /\ Work \in [Blocks -> Nat \ {0}]
    /\ Verdict \in [Blocks -> Verdicts]
    /\ Verdict[Anchor] = "ok"
    /\ Tips \subseteq Blocks
    /\ Honest \subseteq Peers /\ Limited \subseteq Peers
    /\ None \notin Callers /\ None \notin Blocks /\ Foreign \notin Seq(Blocks)
    /\ {HeaderMax, MaxBatch, Prefetch, PerPeer, Attempts} \subseteq Nat \ {0}
    /\ {Linear, LimitedDepth, CacheSize, QueueSize} \cup Wanted \subseteq Nat

VARIABLES
    \* HeaderChain and its file
    headers, index, disk,
    \* the rest of Shared
    cache, synced,
    \* Peers: the connected ones, the banned ones, and what each still owes
    conn, banned, requested,
    \* InFlight
    flight,
    \* the worker: its place, the command it serves, the peers of a round that
    \* it still asks, the one it is asking, how many answered; the peers that
    \* lack the block it fetches and how often it tried
    pc, serving, todo, cur, advanced, answered, avoid, attempt,
    \* the command channel and the calls into the provider
    queue, call,
    \* the network: the tip that honest peers are at
    net

chainVars == <<headers, index, disk>>
peerVars  == <<conn, banned, requested>>
roundVars == <<todo, cur, advanced, answered>>
fetchVars == <<avoid, attempt>>
vars == <<chainVars, cache, synced, peerVars, flight, pc, serving, roundVars,
          fetchVars, queue, call, net>>

----------------------------------------------------------------------------
(* Headers *)

\* The headers from the checkpoint to b.
Path[b \in Blocks] ==
    IF b = Anchor THEN <<b>> ELSE Append(Path[Parent[b]], b)

\* No header precedes itself, and every one is reached from the checkpoint.
ASSUME PathAssumption ==
    \A b \in Blocks :
        /\ Path[b] \in Seq(Blocks)
        /\ Path[b] = IF b = Anchor THEN <<b>> ELSE Append(Path[Parent[b]], b)

Weight(s) ==
    LET sum[n \in 0..Len(s)] == IF n = 0 THEN 0 ELSE sum[n - 1] + Work[s[n]]
    IN sum[Len(s)]

Tip == Len(headers) - 1
HashAt(h) == headers[h + 1]
Positions(s) == [b \in Range(s) |-> (CHOOSE i \in DOMAIN s : s[i] = b) - 1]

\* The offsets a locator names. Without its first entry, so that a peer on our
\* tip answers with that tip.
Locator ==
    LET n == Len(headers)
        at[k \in 1..n] ==
            IF k = 1 THEN n - 1
            ELSE Max({0, at[k - 1] - 2 ^ Max({0, k - 1 - Linear})})
    IN {at[k] : k \in 2..n} \cup (IF n = 1 THEN {0} ELSE {})

\* Where a batch leaves the held chain, how much of it is held already, and
\* the rest.
Fork(batch)  == index[Parent[batch[1]]]
Known(batch) ==
    Max({k \in 0..Len(batch) : \A i \in 1..k :
            Fork(batch) + i <= Tip /\ HashAt(Fork(batch) + i) = batch[i]})
Fresh(batch) == SubSeq(batch, Known(batch) + 1, Len(batch))
Base(batch)  == Fork(batch) + Known(batch)
Held(base)   == SubSeq(headers, base + 2, Len(headers))

FirstFault(s) == LET i == Min({j \in DOMAIN s : Verdict[s[j]] # "ok"}) IN Verdict[s[i]]

\* Mutant: a branch is weighed against the whole chain.
MoreWorkThanAll(challenger, incumbent) == Weight(challenger) > Weight(headers)

MoreWork(challenger, incumbent) == Weight(challenger) > Weight(incumbent)

\* What extend decides about a batch.
Extension(batch) ==
    IF batch = <<>> THEN "ignored"
    ELSE IF Parent[batch[1]] \notin DOMAIN index THEN "missing"
    ELSE LET fresh == Fresh(batch) base == Base(batch) IN
         IF fresh = <<>> THEN "ignored"
         ELSE IF \/ Len(headers) + Len(fresh) > HeaderMax
                 \/ \E i \in DOMAIN fresh : Verdict[fresh[i]] = "pow" THEN "invalid"
         ELSE IF \E i \in DOMAIN fresh : Verdict[fresh[i]] # "ok"
              THEN IF FirstFault(fresh) = "context" THEN "context" ELSE "invalid"
         ELSE IF base = Tip THEN "appended"
         ELSE IF MoreWork(fresh, Held(base)) THEN "reorganized"
         ELSE "ignored"

\* The index while fresh headers are pushed one by one, and without the ones
\* that were pushed before a header was rejected.
Pushed(fresh) ==
    [b \in DOMAIN index \cup Range(fresh) |->
        IF b \in DOMAIN index THEN index[b]
        ELSE Tip + (CHOOSE i \in DOMAIN fresh : fresh[i] = b)]
Accepted(fresh) ==
    SelectInSeq(fresh, LAMBDA b : Verdict[b] # "ok") - 1
\* Mutant: the headers pushed before the rejected one stay in the index.
RejectedKept(fresh) == Pushed(SubSeq(fresh, 1, Accepted(fresh)))

Rejected(fresh) ==
    LET pushed == SubSeq(fresh, 1, Accepted(fresh))
    IN Restrict(Pushed(pushed), DOMAIN Pushed(pushed) \ Range(pushed))

\* A branch with more work replaces what is above its base.
Replaced(base, fresh) ==
    LET kept == Restrict(index, DOMAIN index \ Range(Held(base)))
    IN [b \in DOMAIN kept \cup Range(fresh) |->
          IF b \in Range(fresh) THEN base + (CHOOSE i \in DOMAIN fresh : fresh[i] = b)
          ELSE kept[b]]

\* HeaderChain::restore. A file that the checks refuse is removed; one that
\* needs earlier history is an error of open.
Loads == disk \notin {<<>>, Foreign}

Restore ==
    IF Loads
    THEN /\ headers' = disk /\ index' = Positions(disk) /\ UNCHANGED disk
    ELSE /\ headers' = <<Anchor>> /\ index' = Positions(<<Anchor>>) /\ disk' = <<>>

----------------------------------------------------------------------------
(* Block cache, connections and requests in flight *)

\* BlockCache::insert: the oldest entries make room.
Insert(c, b) ==
    LET kept == SelectSeq(c, LAMBDA e : e # b)
        room == SubSeq(kept, Max({1, Len(kept) - CacheSize + 2}), Len(kept))
    IN IF CacheSize = 0 THEN c ELSE Append(room, b)
InsertAll(c, s) == FoldLeft(Insert, c, s)

\* BlockCache::prune_above.
PruneAbove(c, h) == SelectSeq(c, LAMBDA e : Len(Path[e]) - 1 <= h)

Forget(f, b)       == {e \in f : e.hash # b}
ForgetPeer(f, p)   == {e \in f : e.peer # p}
Holders(f, b)      == {e.peer : e \in {x \in f : x.hash = b}}

\* drop_peer and ban_peer: the connection and what it knew are gone.
Disconnect(gone) ==
    /\ conn' = conn \ gone
    /\ requested' = [p \in Peers |-> IF p \in gone THEN {} ELSE requested[p]]

\* Mutant: a block in flight is asked for once more.
TargetsTwice(from) ==
    {headers[h + 1] : h \in from..Min({from + Prefetch - 1, Tip})} \ Range(cache)

\* The hashes from a height on that are neither cached nor asked for.
Targets(from) ==
    {b \in {headers[h + 1] : h \in from..Min({from + Prefetch - 1, Tip})} :
        b \notin Range(cache) /\ Holders(flight, b) = {}}

\* order_for_block without what peers claim to hold.
MayServe(p, b) == p \in Limited => Tip - index[b] <= LimitedDepth

\* The targets below one of them.
Before(targets, b) == {c \in targets : index[c] < index[b]}

\* The ways in which assign can hand the lowest targets to peers: the first one
\* whatever the peer's window, the others while it has room.
Assignments(targets, shunned) ==
    UNION {{a \in [some -> conn \ shunned] :
              \A b \in some :
                 /\ MayServe(a[b], b)
                 /\ \/ Before(targets, b) = {}
                    \/ Cardinality(requested[a[b]])
                         + Cardinality({c \in Before(targets, b) : a[c] = a[b]}) < PerPeer}
           : some \in {s \in SUBSET targets : \A b \in s : Before(targets, b) \subseteq s}}

\* What of an assignment one peer is asked for.
Rows(a, p) == {b \in DOMAIN a : a[b] = p}

\* ask_blocks, of the peers that the requests reach.
AskBlocks(a, asked) ==
    /\ requested' = [p \in Peers |->
         requested[p] \cup (IF p \in asked THEN Rows(a, p) ELSE {})]
    /\ flight' = flight \cup UNION
         {{[peer |-> p, hash |-> b, height |-> index[b]] : b \in Rows(a, p)} : p \in asked}

\* fill: a request that cannot be sent, or that exceeds the
\* peer's window, leaves nothing behind.
Fill(from, shunned) ==
    \E targets \in {Targets(from)} : \E a \in Assignments(targets, shunned) :
    \E reached \in SUBSET Range(a) :
        AskBlocks(a, {p \in reached :
            Cardinality(requested[p]) + Cardinality(Rows(a, p)) <= PerPeer + 1})

----------------------------------------------------------------------------
(* The worker *)

\* top_up connects a peer.
Connect(p) ==
    /\ pc = "poll" /\ p \notin conn \cup banned
    /\ conn' = conn \cup {p}
    /\ UNCHANGED <<chainVars, cache, synced, banned, requested, flight, pc, serving,
                   roundVars, fetchVars, queue, call, net>>

\* What a poll may read from the peers that are still there: for a block that
\* was asked for nothing yet, the block, a block that fails its checks, or that
\* the peer lacks it.
Owed(gone) == UNION {{<<p, b>> : b \in requested[p]} : p \in conn \ gone}
Reads(gone) ==
    {r \in [Owed(gone) -> {"nothing", "block", "bad", "lacking"}] :
        \A x \in Owed(gone) : x[1] \in Honest => r[x] # "bad"}
ReadAs(r, kind) == {x \in DOMAIN r : r[x] = kind}

\* What absorb_arrivals does with a block: it must be in flight to its sender,
\* and on the selected chain.
Expected(p, b) == \E e \in flight : e.peer = p /\ e.hash = b
Taken(r) == {x \in ReadAs(r, "block") : Expected(x[1], x[2])}
Admitted(r) == {x[2] : x \in {y \in Taken(r) : y[2] \in DOMAIN index}}
Refused(r) ==
    {x[1] : x \in {y \in ReadAs(r, "bad") : Expected(y[1], y[2]) /\ y[2] \in DOMAIN index}}

\* The requests still in flight after that.
Unsettled(r) ==
    {e \in flight : /\ <<e.peer, e.hash>> \notin ReadAs(r, "lacking")
                    /\ \A x \in Taken(r) : x[2] # e.hash
                    /\ <<e.peer, e.hash>> \in ReadAs(r, "bad") => e.hash \in DOMAIN index}

\* The peers that failed are dropped with all that was asked of them, those
\* that are gone with only their connection.
Settled(r, gone, failed) ==
    /\ flight' = {e \in Unsettled(r) : e.peer \notin failed}
    /\ conn' = conn \ (gone \cup failed)
    /\ requested' = [p \in Peers |->
         IF p \in gone \cup failed \/ p \notin conn THEN {}
         ELSE {b \in requested[p] : r[<<p, b>>] = "nothing"}]

\* pipeline::settle. poll_idle drops the peers whose connection fails, and
\* leaves what was asked of them in flight; what has arrived is admitted or
\* refused; peers that sent a bad block or let a request grow old are dropped
\* with all that was asked of them.
Settle ==
    /\ pc \in {"poll", "received"}
    /\ \E gone \in SUBSET conn : \E r \in Reads(gone) :
       \E overdue \in SUBSET {e.peer : e \in Unsettled(r)} :
         /\ Settled(r, gone, Refused(r) \cup overdue)
         /\ \E order \in SetToSeqs(Admitted(r)) : cache' = InsertAll(cache, order)
    /\ pc' = CASE pc = "received" -> "refill"
               [] pc = "poll" /\ synced -> "ready"
               [] OTHER -> "round"
    /\ UNCHANGED <<chainVars, synced, banned, serving, roundVars, fetchVars,
                   queue, call, net>>

\* The answer goes to the caller, if it still waits.
Answered(command, outcome) ==
    IF command = None \/ command.caller = None THEN call
    ELSE [call EXCEPT ![command.caller] = outcome]

Reply(outcome) ==
    /\ serving' = None
    /\ pc' = "poll"
    /\ avoid' = {} /\ attempt' = 0
    /\ call' = Answered(serving, outcome)

\* recv_timeout and serve.
Idle ==
    /\ pc = "ready" /\ queue = <<>>
    /\ pc' = "poll"
    /\ UNCHANGED <<chainVars, cache, synced, peerVars, flight, serving,
                   roundVars, fetchVars, queue, call, net>>

Take == serving' = Head(queue) /\ queue' = Tail(queue)

ServeRefresh ==
    /\ pc = "ready" /\ queue # <<>> /\ Head(queue).hash = None
    /\ Take /\ pc' = "round"
    /\ UNCHANGED <<chainVars, cache, synced, peerVars, flight, roundVars,
                   fetchVars, call, net>>

\* fetch_block: a block that left the selected chain is an error, a cached one
\* is handed out, another one fetched.
ServeBlock ==
    /\ pc = "ready" /\ queue # <<>> /\ Head(queue).hash # None
    /\ LET b == Head(queue).hash IN
       IF b \notin DOMAIN index
       THEN /\ queue' = Tail(queue) /\ pc' = "poll"
            /\ call' = Answered(Head(queue), "idle")
            /\ UNCHANGED serving
       ELSE /\ Take
            /\ pc' = IF b \in Range(cache) THEN "refill" ELSE "attempt"
            /\ UNCHANGED call
    /\ UNCHANGED <<chainVars, cache, synced, peerVars, flight, roundVars,
                   fetchVars, net>>

----------------------------------------------------------------------------
(* A round of header synchronization *)

\* order_for_headers: the peers that claim the tip, or all of them.
RoundStart ==
    /\ pc = "round"
    /\ \E some \in SUBSET conn : (some = {} <=> conn = {}) /\ todo' = some
    /\ cur' = None /\ advanced' = FALSE /\ answered' = FALSE
    /\ pc' = "sync"
    /\ UNCHANGED <<chainVars, cache, synced, peerVars, flight, serving,
                   fetchVars, queue, call, net>>

\* The headers a peer may answer with: an honest one its own chain from the
\* first locator entry on it, another one any run of headers.
Answer(p) ==
    IF p \in Honest
    THEN LET own == Path[net]
             from == Max({0} \cup {o \in 1..Tip : /\ o \in Locator /\ o < Len(own)
                                                 /\ own[o + 1] = HashAt(o)})
         IN {SubSeq(own, from + 2, Min({from + 1 + MaxBatch, Len(own)}))}
    ELSE {<<>>} \cup
         UNION {{SubSeq(Path[b], i, Len(Path[b])) : i \in 2..Len(Path[b])} : b \in Blocks}

Asks(p) == pc = "sync" /\ p \in todo /\ cur \in {None, p}

\* The peer is done with. A refresh may stop early once the tip moved.
Done(p, moved) ==
    /\ todo' \in {todo \ {p}} \cup (IF synced /\ moved THEN {{}} ELSE {})
    /\ cur' = None /\ advanced' = FALSE

\* A batch that changes nothing.
HeadersIgnored(p) ==
    /\ Asks(p)
    /\ \E batch \in Answer(p) : Len(batch) <= MaxBatch /\ Extension(batch) = "ignored"
    /\ answered' = TRUE
    /\ Done(p, advanced)
    /\ UNCHANGED <<chainVars, cache, synced, peerVars, flight, pc, serving,
                   fetchVars, queue, call, net>>

\* A batch that extends the chain or replaces its end. When persist fails the
\* chain in memory stays, the cache is not pruned, and the peer is dropped.
HeadersTaken(p) ==
    /\ Asks(p)
    /\ \E batch \in Answer(p) :
         LET fresh == Fresh(batch) base == Base(batch) kind == Extension(batch) IN
         /\ Len(batch) <= MaxBatch
         /\ kind \in {"appended", "reorganized"}
         /\ headers' = SubSeq(headers, 1, base + 1) \o fresh
         /\ index' = IF kind = "appended" THEN Pushed(fresh) ELSE Replaced(base, fresh)
         /\ \/ /\ disk' = headers'
               /\ cache' = IF kind = "appended" THEN cache ELSE PruneAbove(cache, base)
               /\ IF Len(batch) = MaxBatch
                  THEN /\ cur' = p /\ advanced' = TRUE
                       /\ UNCHANGED <<todo, answered>>
                  ELSE /\ answered' = TRUE /\ Done(p, TRUE)
               /\ UNCHANGED <<conn, requested>>
            \/ /\ Disconnect({p}) /\ Done(p, FALSE)
               /\ UNCHANGED <<disk, cache, answered>>
    /\ UNCHANGED <<synced, banned, flight, pc, serving, fetchVars, queue, call, net>>

\* A batch that is refused: its sender is banned, dropped or, when our own
\* history is too short, kept.
HeadersRefused(p) ==
    /\ Asks(p)
    /\ \E batch \in Answer(p) :
         LET kind == Extension(batch) IN
         /\ Len(batch) <= MaxBatch
         /\ kind \in {"missing", "invalid", "context"}
         /\ index' = IF kind # "missing" /\ Base(batch) = Tip
                        /\ \A i \in DOMAIN Fresh(batch) : Verdict[Fresh(batch)[i]] # "pow"
                        /\ Len(headers) + Len(Fresh(batch)) <= HeaderMax
                     THEN Rejected(Fresh(batch)) ELSE index
         /\ banned' = IF kind = "invalid" THEN banned \cup {p} ELSE banned
         /\ IF kind = "context" THEN UNCHANGED <<conn, requested>> ELSE Disconnect({p})
    /\ Done(p, FALSE)
    /\ UNCHANGED <<headers, disk, cache, synced, flight, pc, serving, answered,
                   fetchVars, queue, call, net>>

\* No answer in time, or a connection that breaks.
HeadersFail(p) ==
    /\ Asks(p)
    /\ Disconnect({p}) /\ Done(p, FALSE)
    /\ UNCHANGED <<chainVars, cache, synced, banned, flight, pc, serving,
                   answered, fetchVars, queue, call, net>>

RoundEnd ==
    /\ pc = "sync" /\ todo = {}
    /\ synced' = (synced \/ answered)
    /\ Reply(IF answered THEN "refreshed" ELSE "idle")
    /\ answered' = FALSE
    /\ UNCHANGED <<chainVars, cache, peerVars, flight, todo, cur, advanced,
                   queue, net>>

----------------------------------------------------------------------------
(* Fetching a block *)

\* The block is asked for unless it is in flight already.
Attempt ==
    /\ pc = "attempt" /\ attempt < Attempts
    /\ IF Holders(flight, serving.hash) = {}
       THEN Fill(index[serving.hash], avoid)
       ELSE UNCHANGED <<requested, flight>>
    /\ IF Holders(flight', serving.hash) \cap conn # {}
       THEN /\ pc' = "await"
            /\ UNCHANGED <<serving, call, fetchVars>>
       ELSE Reply("idle")
    /\ UNCHANGED <<chainVars, cache, synced, conn, banned, roundVars, queue, net>>

GiveUp ==
    /\ pc = "attempt" /\ attempt = Attempts
    /\ Reply("idle")
    /\ UNCHANGED <<chainVars, cache, synced, peerVars, flight, roundVars,
                   queue, net>>

Holder == CHOOSE p \in Holders(flight, serving.hash) : TRUE
TryAgain == attempt' = attempt + 1 /\ pc' = "attempt"

\* The peer says that it lacks the block.
AwaitLacking ==
    LET p == Holder b == serving.hash IN
    /\ pc = "await" /\ b \in requested[p]
    /\ requested' = [requested EXCEPT ![p] = @ \ {b}]
    /\ flight' = Forget(flight, b)
    /\ avoid' = avoid \cup {p}
    /\ TryAgain
    /\ UNCHANGED <<chainVars, cache, synced, conn, banned, serving, roundVars,
                   queue, call, net>>

\* The block comes. An honest peer sends only what it was asked for.
AwaitBlock ==
    LET p == Holder b == serving.hash IN
    /\ pc = "await"
    /\ p \in Honest => b \in requested[p]
    /\ requested' = [requested EXCEPT ![p] = @ \ {b}]
    /\ cache' = Insert(cache, b)
    /\ flight' = Forget(flight, b)
    /\ pc' = "received"
    /\ UNCHANGED <<chainVars, synced, conn, banned, serving, roundVars,
                   fetchVars, queue, call, net>>

\* No block in time, a broken connection, a block that fails its checks, or
\* bytes that are no message: the peer is dropped, in the last case banned.
AwaitFails ==
    LET p == Holder IN
    /\ pc = "await"
    /\ Disconnect({p})
    /\ flight' = ForgetPeer(flight, p)
    /\ banned' \in {banned} \cup (IF p \in Honest THEN {} ELSE {banned \cup {p}})
    /\ TryAgain
    /\ UNCHANGED <<chainVars, cache, synced, serving, roundVars, avoid, queue,
                   call, net>>

\* The next blocks are asked for and this one is handed out.
Refill ==
    /\ pc = "refill"
    /\ Fill(index[serving.hash] + 1, avoid)
    /\ Reply("idle")
    /\ UNCHANGED <<chainVars, cache, synced, conn, banned, roundVars, 
                   queue, net>>

----------------------------------------------------------------------------
(* P2pProvider::verified_block *)

\* The provider is ready, and the command channel has room.
Sends(c, b) ==
    /\ synced
    /\ Len(queue) < QueueSize
    /\ queue' = Append(queue, [caller |-> c, hash |-> b])
    /\ call' = [call EXCEPT ![c] = "waiting"]

\* refresh_if_stale.
CallRefresh(c) ==
    /\ call[c] = "idle"
    /\ Sends(c, None)
    /\ UNCHANGED <<chainVars, cache, synced, peerVars, flight, pc, serving,
                   roundVars, fetchVars, net>>

\* verified_header and fetch_raw: the block of the header at a height is asked
\* for, after a refresh or without one.
CallBlock(c, h) ==
    /\ call[c] \in {"idle", "refreshed"}
    /\ h \in 0..Tip
    /\ Sends(c, HashAt(h))
    /\ UNCHANGED <<chainVars, cache, synced, peerVars, flight, pc, serving,
                   roundVars, fetchVars, net>>

\* The answer takes too long, or is not followed by another command. The
\* worker will find that the requester went away.
CallEnds(c) ==
    /\ call[c] # "idle"
    /\ call' = [call EXCEPT ![c] = "idle"]
    /\ LET left(x) == IF x # None /\ x.caller = c THEN [x EXCEPT !.caller = None] ELSE x
       IN /\ queue' = [i \in DOMAIN queue |-> left(queue[i])]
          /\ serving' = left(serving)
    /\ UNCHANGED <<chainVars, cache, synced, peerVars, flight, pc, roundVars,
                   fetchVars, net>>

----------------------------------------------------------------------------
(* The process and the network *)

MemoryLost ==
    /\ cache' = <<>> /\ synced' = FALSE
    /\ conn' = {} /\ banned' = {} /\ requested' = [p \in Peers |-> {}]
    /\ flight' = {} /\ serving' = None
    /\ todo' = {} /\ cur' = None /\ advanced' = FALSE /\ answered' = FALSE
    /\ avoid' = {} /\ attempt' = 0
    /\ queue' = <<>> /\ call' = [c \in Callers |-> "idle"]

\* P2pProvider::with_peers and warm.
Open ==
    /\ pc = "down" /\ pc' = "poll"
    /\ Restore
    /\ UNCHANGED <<cache, synced, peerVars, flight, serving, roundVars,
                   fetchVars, queue, call, net>>

\* The process ends, at any point.
Crash ==
    /\ pc # "down" /\ pc' = "down"
    /\ headers' = <<Anchor>> /\ index' = Positions(<<Anchor>>)
    /\ MemoryLost
    /\ UNCHANGED <<disk, net>>

\* The network moves to a tip with more work.
NetMoves ==
    /\ \E b \in Tips : MoreWork(Path[b], Path[net]) /\ net' = b
    /\ UNCHANGED <<chainVars, cache, synced, peerVars, flight, pc, serving,
                   roundVars, fetchVars, queue, call>>

Init ==
    /\ disk \in {<<>>, Foreign}
    /\ headers = <<Anchor>> /\ index = Positions(<<Anchor>>)
    /\ cache = <<>> /\ synced = FALSE
    /\ conn = {} /\ banned = {} /\ requested = [p \in Peers |-> {}]
    /\ flight = {} /\ pc = "down" /\ serving = None
    /\ todo = {} /\ cur = None /\ advanced = FALSE /\ answered = FALSE
    /\ avoid = {} /\ attempt = 0
    /\ queue = <<>> /\ call = [c \in Callers |-> "idle"]
    /\ net \in Tips

Worker ==
    \/ Settle \/ Idle \/ ServeRefresh \/ ServeBlock
    \/ RoundStart \/ RoundEnd
    \/ \E p \in Peers : \/ HeadersIgnored(p) \/ HeadersTaken(p)
                        \/ HeadersRefused(p) \/ HeadersFail(p)
    \/ Attempt \/ GiveUp
    \/ AwaitLacking \/ AwaitBlock \/ AwaitFails \/ Refill

Next ==
    \/ Open \/ Crash \/ Worker
    \/ \E p \in Peers : Connect(p)
    \/ \E c \in Callers : \/ CallRefresh(c) \/ CallEnds(c)
                          \/ \E h \in Wanted : CallBlock(c, h)
    \/ NetMoves

Spec == Init /\ [][Next]_vars

----------------------------------------------------------------------------
(* Properties *)

\* The map from hash to offset lists exactly the headers held, also after a
\* batch was rejected half way, after a reorganization and after a restart
\* (HeaderChain::extend, append, load).
IndexExact == index = Positions(headers)

\* The chain in memory, and the one in the file across any number of restarts,
\* is only ever replaced by one with more work (HeaderChain::extend, persist).
WorkGrows ==
    [][/\ pc # "down" /\ pc' # "down" /\ headers' # headers
             => Weight(headers') > Weight(headers)
       /\ disk \notin {<<>>, Foreign} /\ disk' # disk
             => Weight(disk') > Weight(disk)]_vars

\* A block is asked of one peer at a time, and what a connected peer still
\* owes is in flight: no answer is thrown away as unrequested
\* (pipeline::fill, settle, fetch_block).
RequestsTracked ==
    /\ \A e, f \in flight : e.hash = f.hash => e = f
    /\ \A p \in conn : \A b \in requested[p] : Expected(p, b)

\* When header rounds keep coming to an end and only honest peers stay
\* connected, the client ends up with at least the work of the network: no
\* rejected batch, failed write, crash or branch of another peer keeps it away
\* for good (sync_round, sync_from, locator).
Converges ==
    ([]<>(pc = "sync") /\ []<>(pc = "poll") /\ \E p \in Honest : <>[](conn = {p}))
        => []<>(Weight(headers) >= Weight(Path[net]))

\* Only more work ever wins, and the most work does in the end.
FollowsWork == WorkGrows /\ Converges
============================================================================
