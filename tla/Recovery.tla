------------------------------ MODULE Recovery ------------------------------
(***************************************************************************)
(* `urma git clone`: rebuilding a multipart object from the chain.         *)
(*                                                                         *)
(* A root record lists leaf records, each leaf lists data records, and     *)
(* every reference names a transaction and the hash of the record in it.   *)
(* A clone first tries the operator's archive, all or nothing, and then    *)
(* recovers from the chain: it notes the tip, fetches the root, the leaves *)
(* and the parts in batches of worker threads, asks another provider when  *)
(* one serves bytes that do not prove the record, keeps every transaction  *)
(* it accepted, checks that the chain it began on is still there, rebuilds *)
(* the object once more from the kept transactions alone and renames the   *)
(* checkout into place.  The chain reorganizes and another clone of the    *)
(* same name may finish first at any moment.                               *)
(*                                                                         *)
(* The record a transaction carries is fixed by its identifier: the        *)
(* identifier commits to the spent output, which commits to the script     *)
(* with the record and its author.  A provider can therefore serve a       *)
(* witness that proves nothing, never one that proves another record.      *)
(***************************************************************************)
EXTENDS Integers, Sequences, FiniteSets, SequencesExt

CONSTANTS
    Stories,    \* what is published, who serves it and how the chain moves
    Fanout,     \* references per leaf (511 in the code)
    PartBytes,  \* bytes per data record
    Batch,      \* records fetched at once (8 in the code)
    Attempts,   \* tries per record
    MaxNodes,   \* the caller's limit on the records of one object
    ArchiveBudget \* records one archive session may read

VARIABLES
    story,    \* the one being played
    version,  \* which version of the chain is active
    faults,   \* failed calls so far
    pc,       \* where the clone is
    anchor,   \* tip noted by the Git workflow
    tip,      \* tip noted by the recovery itself
    todo,     \* references still to fetch in this phase
    try, avoid, \* attempt at the first of them; origins rejected for it
    jobs,     \* the worker threads, by transaction
    pending,  \* their results
    inventory, \* accepted leaves and seen transactions
    refs,     \* data references collected from the leaves
    payload,  \* bytes collected from the parts
    kept,     \* transactions retained as proofs: their bytes
    where,    \* history: the block in which each accepted record was seen
    dest      \* what is installed at the destination

remote == <<story, version, faults>>
session == <<anchor, tip, todo, try, avoid, jobs, pending, inventory, refs,
             payload, kept, where>>
vars == <<story, version, faults, pc, anchor, tip, todo, try, avoid, jobs,
          pending, inventory, refs, payload, kept, where, dest>>

Nothing == "nothing"
Records == story.records
Root == Records[story.root]

(***************************************************************************)
(* Geometry of an object: how many parts and leaves a length needs.        *)
(***************************************************************************)
DivCeil(a, b) == (a + b - 1) \div b
Least(a, b) == IF a < b THEN a ELSE b

Geometry(length) ==
    LET parts == IF length = 0 THEN 1 ELSE DivCeil(length, PartBytes)
    IN  [length |-> length, parts |-> parts, leaves |-> DivCeil(parts, Fanout)]

Nodes(g) == g.parts + g.leaves + 1
PartLength(g, index) == Least(g.length - index * PartBytes, PartBytes)
LeafEntries(g, index) == Least(g.parts - index * Fanout, Fanout)

\* RootManifest::geometry: the references present are those the length needs.
ManifestGeometry(root) == Len(root.entries) = Geometry(root.length).leaves

(***************************************************************************)
(* ManifestInventory: leaves in order, of the size the root implies, no    *)
(* transaction twice and none that is already part of the tree.            *)
(***************************************************************************)
NoInventory == [ok |-> FALSE, next |-> 0, seen |-> {}]

NewInventory(txid, root) ==
    LET listed == {root.entries[i].txid : i \in DOMAIN root.entries}
    IN  [ok |-> /\ ManifestGeometry(root)
                /\ Cardinality(listed) = Len(root.entries)
                /\ txid \notin listed,
         next |-> 0, seen |-> listed \cup {txid}]

AcceptLeaf(inv, root, leaf) ==
    LET listed == {leaf.entries[i].txid : i \in DOMAIN leaf.entries}
        g == Geometry(root.length)
    IN  [ok |-> /\ inv.ok
                /\ leaf.index = inv.next
                /\ inv.next < g.leaves
                /\ Len(leaf.entries) = LeafEntries(g, inv.next)
                /\ Cardinality(listed) = Len(leaf.entries)
                /\ listed \cap inv.seen = {},
         next |-> inv.next + 1, seen |-> inv.seen \cup listed]

\* Mutant: the author of a child is not compared with the root's.
AcceptAnyAuthor(ref, root) == Records[ref.txid].hash = ref.hash

\* accept: the record is the one the signed reference names, by the root's author.
Accept(ref, root) ==
    /\ Records[ref.txid].hash = ref.hash
    /\ Records[ref.txid].author = root.author

\* A data record fits at position `index` of the object.
PartFits(root, index, part) ==
    LET g == Geometry(root.length)
    IN  /\ part.kind = "data"
        /\ part.index = index
        /\ Len(part.bytes) = PartLength(g, index)

DigestMatches(root, bytes) == Len(bytes) = root.length /\ bytes = root.digest

(***************************************************************************)
(* reconstruct over a source that reads one record after another: the      *)
(* archive session and the retained proofs.  `has` are the transactions    *)
(* whose record the source can prove.                                      *)
(***************************************************************************)
LeafRefs(root) ==
    FlattenSeq([i \in DOMAIN root.entries |-> Records[root.entries[i].txid].entries])

Collected(parts) ==
    FlattenSeq([i \in DOMAIN parts |-> Records[parts[i].txid].bytes])

\* The inventory once every leaf is accepted.
Inventory(txid) ==
    LET root == Records[txid]
        Take(inv, r) == AcceptLeaf(inv, root, Records[r.txid])
    IN  FoldLeft(Take, NewInventory(txid, root), root.entries)

Reconstructs(txid, has) ==
    LET root == Records[txid]
        Readable(r) == r.txid \in has /\ Accept(r, root)
    IN  /\ txid \in has
        /\ root.kind = "root"
        /\ ManifestGeometry(root)
        /\ Nodes(Geometry(root.length)) <= MaxNodes
        /\ \A i \in DOMAIN root.entries :
              Readable(root.entries[i]) /\ Records[root.entries[i].txid].kind = "leaf"
        /\ Inventory(txid).ok
        /\ LET parts == LeafRefs(root)
           IN  /\ \A i \in DOMAIN parts :
                     Readable(parts[i]) /\ PartFits(root, i - 1, Records[parts[i].txid])
               /\ DigestMatches(root, Collected(parts))

(***************************************************************************)
(* The chain and its providers.                                            *)
(***************************************************************************)
Chain == story.chains[version]
Height(chain, block) == CHOOSE h \in DOMAIN chain : chain[h].id = block
Active(block) == \E h \in DOMAIN Chain : Chain[h].id = block
Mined(t) == \E h \in DOMAIN Chain : t \in Chain[h].txs
BlockOf(t) == Chain[CHOOSE h \in DOMAIN Chain : t \in Chain[h].txs].id

\* The height of a block in whichever version of the chain holds it.
Depth(block) ==
    LET v == CHOOSE n \in DOMAIN story.chains :
                 \E h \in DOMAIN story.chains[n] : story.chains[n][h].id = block
    IN  Height(story.chains[v], block)

Providers == DOMAIN story.serves

\* A block hash commits to its height and to the blocks below it, and the chain
\* does not return to a block it left.
Holds(s, v, block) == \E h \in DOMAIN s.chains[v] : s.chains[v][h].id = block

ASSUME RecoveryAssumption ==
    \A s \in Stories :
       /\ s.chains \in Seq(ToSet(s.chains)) /\ s.chains # <<>>
       /\ \A v \in DOMAIN s.chains :
             s.chains[v] \in Seq(ToSet(s.chains[v])) /\ s.chains[v] # <<>>
       /\ \A v, w \in DOMAIN s.chains :
             \A h \in DOMAIN s.chains[v], k \in DOMAIN s.chains[w] :
                s.chains[v][h].id = s.chains[w][k].id =>
                   h = k /\ \A i \in 1..h : s.chains[v][i].id = s.chains[w][i].id
       /\ \A u, v, w \in DOMAIN s.chains :
             \A h \in DOMAIN s.chains[u] :
                u < v /\ v < w /\ Holds(s, w, s.chains[u][h].id)
                   => Holds(s, v, s.chains[u][h].id)

MayFail == faults < story.faults
Fault == MayFail /\ faults' = faults + 1
Works == UNCHANGED faults

\* Transaction bytes: a commit may be served with or without its witness.
Full == "full"
Stripped == "stripped"

(***************************************************************************)
(* Beginning: the archive first, then the chain.                           *)
(***************************************************************************)
Fresh ==
    /\ anchor' = Nothing /\ tip' = Nothing /\ todo' = <<>>
    /\ try' = 1 /\ avoid' = {} /\ jobs' = <<>> /\ pending' = <<>>
    /\ inventory' = NoInventory /\ refs' = <<>> /\ payload' = <<>>
    /\ kept' = <<>> /\ where' = <<>>

Fail == pc' = "failed"

\* A named destination that exists already is refused before anything is fetched.
Begin ==
    /\ pc = "idle"
    /\ Fresh
    /\ pc' = IF dest.owner # Nothing THEN "refused" ELSE "archive"
    /\ UNCHANGED <<remote, dest>>

\* snapshot::validate: the payload is a Git snapshot whose pack, closure and
\* objects Git itself accepts.
GitValid == story.git

\* object_archive::Reader: one sequential session, one attempt per record, a
\* record budget charged for every read.  The root is charged too, and the
\* node limit is cut to what the budget held before it.
ArchiveServes ==
    /\ GitValid
    /\ Root.kind = "root"
    /\ Nodes(Geometry(Root.length)) <= ArchiveBudget
    /\ Reconstructs(story.root, story.archive)

FromArchive ==
    /\ pc = "archive"
    /\ ArchiveServes
    /\ pc' = "install"
    /\ inventory' = Inventory(story.root)
    /\ payload' = Collected(LeafRefs(Root))
    /\ kept' = [t \in UNION {{u, Records[u].commit} : u \in Inventory(story.root).seen} |-> Full]
    /\ UNCHANGED <<remote, anchor, tip, todo, try, avoid, jobs, pending, refs, where, dest>>

\* Any failure of the archive, its Git checks included, falls back to the chain.
ArchiveFails ==
    /\ pc = "archive"
    /\ \/ ~ArchiveServes /\ Works
       \/ Fault
    /\ pc' = "connect"
    /\ UNCHANGED <<story, version, session, dest>>

\* recover_staged notes the tip, then recover_from checks the network and
\* notes it again.
NoteAnchor ==
    /\ pc = "connect"
    /\ \/ Fault /\ Fail /\ UNCHANGED anchor
       \/ /\ Works /\ pc' = "tip"
          /\ anchor' = Last(Chain).id
    /\ UNCHANGED <<story, version, tip, todo, try, avoid, jobs, pending, inventory,
                   refs, payload, kept, where, dest>>

NoteTip ==
    /\ pc = "tip"
    /\ \/ Fault /\ Fail /\ UNCHANGED <<tip, todo>>
       \/ /\ Works /\ pc' = "root"
          /\ tip' = Last(Chain).id
          /\ todo' = <<[txid |-> story.root, hash |-> Root.hash]>>
    /\ UNCHANGED <<story, version, anchor, try, avoid, jobs, pending, inventory,
                   refs, payload, kept, where, dest>>

(***************************************************************************)
(* candidate: one worker thread fetching one record.                       *)
(***************************************************************************)
Fetching == pc \in {"root", "leaves", "parts"}
Wanted == Head(todo).txid

\* Both, f where they meet.
Over(f, g) ==
    [t \in DOMAIN f \cup DOMAIN g |-> IF t \in DOMAIN f THEN f[t] ELSE g[t]]

NewJob(rejected) == [at |-> "presence", avoid |-> rejected, block |-> Nothing,
                     origin |-> Nothing, commit |-> Nothing, result |-> Nothing]

\* A single ask, for the root and for every attempt after the first.
Ask ==
    /\ Fetching /\ todo # <<>> /\ jobs = <<>>
    /\ Wanted \notin DOMAIN pending
    /\ try > 1 \/ pc = "root"
    /\ try <= Attempts
    /\ jobs' = [t \in {Wanted} |-> NewJob(avoid)]
    /\ UNCHANGED <<remote, pc, anchor, tip, todo, try, avoid, pending, inventory,
                   refs, payload, kept, where, dest>>

\* prefetch: the next batch of references at once, one thread each.  What a
\* previous batch left behind is cleared.
Prefetch ==
    /\ pc \in {"leaves", "parts"} /\ todo # <<>> /\ jobs = <<>>
    /\ Wanted \notin DOMAIN pending /\ try = 1
    /\ LET width == Least(Batch, Len(todo))
       IN  jobs' = [t \in {todo[i].txid : i \in 1..width} |-> NewJob({})]
    /\ pending' = <<>>
    /\ UNCHANGED <<remote, pc, anchor, tip, todo, try, avoid, inventory, refs,
                   payload, kept, where, dest>>

JobStep(t, job) ==
    /\ jobs' = [jobs EXCEPT ![t] = job]
    /\ UNCHANGED <<story, version, pc, anchor, tip, todo, try, avoid, pending,
                   inventory, refs, payload, where, dest>>

Ended(job, result) == [job EXCEPT !.at = "done", !.result = result]

\* presence, first call: which block holds the transaction.
Locate(t) ==
    LET job == jobs[t]
    IN  /\ job.at = "presence"
        /\ \/ Fault /\ JobStep(t, Ended(job, "source"))
           \/ /\ Works
              /\ JobStep(t, IF Mined(t)
                            THEN [job EXCEPT !.at = "active", !.block = BlockOf(t)]
                            ELSE Ended(job, "unavailable"))
        /\ UNCHANGED kept

\* presence, second call: whether that block is on the active chain now.
Confirm(t) ==
    LET job == jobs[t]
    IN  /\ job.at = "active"
        /\ \/ Fault /\ JobStep(t, Ended(job, "source"))
           \/ /\ Works
              /\ JobStep(t, IF Active(job.block)
                            THEN [job EXCEPT !.at = "reveal"]
                            ELSE Ended(job, "unavailable"))
        /\ UNCHANGED kept

\* transaction_avoiding: any provider that has the transaction and was not
\* rejected for it; none left means the record is unavailable.
Serving(t, rejected) == {p \in Providers \ rejected : story.serves[p][t] # "none"}

FetchReveal(t) ==
    LET job == jobs[t]
    IN  /\ job.at = "reveal"
        /\ \/ Fault /\ JobStep(t, Ended(job, "source"))
           \/ /\ Works /\ Serving(t, job.avoid) = {}
              /\ JobStep(t, Ended(job, "unavailable"))
           \/ /\ Works
              /\ \E p \in Serving(t, job.avoid) :
                    JobStep(t, [job EXCEPT !.at = "commit", !.origin = p])
        /\ UNCHANGED kept

\* The commit is asked of anyone, and the pair is verified.  A witness that
\* proves nothing rejects the provider of the reveal.
Verified(t, p) == story.serves[p][t] = "good"

FetchCommit(t) ==
    LET job == jobs[t]
        Judged(bytes) == IF Verified(t, job.origin)
                         THEN [job EXCEPT !.at = "retain", !.commit = bytes]
                         ELSE Ended(job, "rejected")
    IN  /\ job.at = "commit"
        /\ \/ Fault /\ JobStep(t, Ended(job, "source"))
           \/ Fault /\ JobStep(t, Judged(Stripped))
           \/ Works /\ JobStep(t, Judged(Full))
        /\ UNCHANGED kept

\* retain_transaction for the reveal and then the commit.  A file that exists
\* is compared; two records may share a commit, and threads may race for it.
Retained(files, name, bytes) == Over(files, [t \in {name} |-> bytes])

\* Mutant: only the reveal is kept.
RetainReveal(t) ==
    /\ jobs[t].at = "retain"
    /\ kept' = Retained(kept, t, Full)
    /\ JobStep(t, Ended(jobs[t], "ok"))
    /\ Works

Retain(t) ==
    LET job == jobs[t]
        commit == Records[t].commit
        files == Retained(kept, t, Full)
        agrees == commit \in DOMAIN files => files[commit] = job.commit
    IN  /\ job.at = "retain"
        /\ kept' = IF agrees THEN Retained(files, commit, job.commit) ELSE files
        /\ JobStep(t, Ended(job, IF agrees THEN "ok" ELSE "source"))
        /\ Works

\* The scope ends when every thread has; their results wait to be taken.
Join ==
    /\ jobs # <<>>
    /\ \A t \in DOMAIN jobs : jobs[t].at = "done"
    /\ pending' = Over(jobs, pending)
    /\ jobs' = <<>>
    /\ UNCHANGED <<remote, pc, anchor, tip, todo, try, avoid, inventory, refs,
                   payload, kept, where, dest>>

(***************************************************************************)
(* fetch_candidate: take the result, or ask again without the providers    *)
(* that were rejected.                                                     *)
(***************************************************************************)
Result == pending[Wanted]
Taken == [t \in DOMAIN pending \ {Wanted} |-> pending[t]]
HasResult == Fetching /\ jobs = <<>> /\ todo # <<>> /\ Wanted \in DOMAIN pending

\* given_up or unavailable: the record cannot be had and the session ends.
\* The deadline may also pass before an attempt.
GiveUp ==
    /\ \/ HasResult /\ Result.result = "unavailable" /\ Works
       \/ Fetching /\ jobs = <<>> /\ try > Attempts /\ Works
       \/ Fetching /\ jobs = <<>> /\ todo # <<>> /\ Fault
    /\ Fail
    /\ UNCHANGED <<story, version, session, dest>>

\* Mutant: the rejected origin is forgotten.
RejectedForgotten(origin) == avoid

Rejected(origin) == avoid \cup {origin}

TryAgain ==
    /\ HasResult
    /\ Result.result \in {"rejected", "source"}
    /\ try' = try + 1
    /\ avoid' = IF Result.result = "rejected" THEN Rejected(Result.origin) ELSE avoid
    /\ pending' = Taken
    /\ UNCHANGED <<remote, pc, anchor, tip, todo, jobs, inventory, refs, payload,
                   kept, where, dest>>

\* Moving past an accepted record.
Advance(next) ==
    /\ todo' = next
    /\ pending' = Taken
    /\ try' = 1 /\ avoid' = {}
    /\ where' = Over(where, [t \in {Wanted} |-> Result.block])
    /\ UNCHANGED <<remote, anchor, tip, jobs, kept, dest>>

Arrived == HasResult /\ Result.result = "ok"
Refuse == Fail /\ UNCHANGED <<remote, session, dest>>

\* reconstruct: the root must be a root manifest within the caller's limits.
RootAccepted ==
    /\ Root.kind = "root"
    /\ Nodes(Geometry(Root.length)) <= MaxNodes
    /\ NewInventory(story.root, Root).ok

TakeRoot ==
    /\ pc = "root" /\ Arrived
    /\ \/ /\ RootAccepted
          /\ inventory' = NewInventory(story.root, Root)
          /\ pc' = "leaves"
          /\ Advance(Root.entries)
          /\ UNCHANGED <<refs, payload>>
       \/ ~RootAccepted /\ Refuse

\* inventory: a leaf of the root's author, in its place.
LeafAccepted(ref) ==
    LET record == Records[ref.txid]
    IN  /\ Accept(ref, Root)
        /\ record.kind = "leaf"
        /\ AcceptLeaf(inventory, Root, record).ok

TakeLeaf ==
    /\ pc = "leaves" /\ Arrived
    /\ \/ /\ LeafAccepted(Head(todo))
          /\ inventory' = AcceptLeaf(inventory, Root, Records[Wanted])
          /\ refs' = refs \o Records[Wanted].entries
          /\ Advance(Tail(todo))
          /\ UNCHANGED <<pc, payload>>
       \/ ~LeafAccepted(Head(todo)) /\ Refuse

LeavesDone ==
    /\ pc = "leaves" /\ todo = <<>>
    /\ pc' = "parts" /\ todo' = refs
    /\ UNCHANGED <<remote, anchor, tip, try, avoid, jobs, pending, inventory, refs,
                   payload, kept, where, dest>>

\* reconstruct_parts: each part at its index, with the length the root implies.
PartAccepted(ref, index) ==
    Accept(ref, Root) /\ PartFits(Root, index, Records[ref.txid])

TakePart ==
    /\ pc = "parts" /\ Arrived
    /\ LET index == Len(refs) - Len(todo)
       IN  \/ /\ PartAccepted(Head(todo), index)
              /\ payload' = payload \o Records[Wanted].bytes
              /\ Advance(Tail(todo))
              /\ UNCHANGED <<pc, inventory, refs>>
           \/ ~PartAccepted(Head(todo), index) /\ Refuse

PartsDone ==
    /\ pc = "parts" /\ todo = <<>>
    /\ pc' = IF DigestMatches(Root, payload) THEN "settle" ELSE "failed"
    /\ UNCHANGED <<remote, session, dest>>

(***************************************************************************)
(* Checks at the end, and the installation.                                *)
(***************************************************************************)
\* Mutant: the height still exists, its block is not compared.
UnmovedHeight(block) == Depth(block) <= Len(Chain)

\* The block noted at the beginning is still at its height.
Unmoved(block) ==
    Depth(block) <= Len(Chain) /\ Chain[Depth(block)].id = block

\* recover_from: the chain as it was when the recovery began.
Settle ==
    /\ pc = "settle"
    /\ \/ Fault /\ Fail
       \/ Works /\ pc' = IF Unmoved(tip) THEN "validate" ELSE "failed"
    /\ UNCHANGED <<story, version, session, dest>>

\* The Git checks of the payload, and the object rebuilt from the kept
\* transactions alone.
Proven ==
    {t \in DOMAIN Records : {t, Records[t].commit} \subseteq DOMAIN kept}

Validate ==
    /\ pc = "validate"
    /\ pc' = IF GitValid /\ Reconstructs(story.root, Proven) THEN "anchor" ELSE "failed"
    /\ UNCHANGED <<remote, session, dest>>

\* recover_staged: the chain as it was when the command began.
CheckAnchor ==
    /\ pc = "anchor"
    /\ \/ Fault /\ Fail
       \/ Works /\ pc' = IF Unmoved(anchor) THEN "install" ELSE "failed"
    /\ UNCHANGED <<story, version, session, dest>>

\* finish_install: refuse an existing destination, write the checkout aside,
\* and rename it without replacing.
Holding(owner, bytes, proofs) == [owner |-> owner, payload |-> bytes, proofs |-> proofs]

Checkout ==
    /\ pc = "install"
    /\ pc' = IF dest.owner = Nothing THEN "rename" ELSE "failed"
    /\ UNCHANGED <<remote, session, dest>>

\* Fault: the rename replaces what was installed since the checkout was written.
RenameReplacing ==
    /\ pc = "rename"
    /\ dest' = Holding("us", payload, kept)
    /\ pc' = "done"
    /\ UNCHANGED <<remote, session>>

Rename ==
    /\ pc = "rename"
    /\ IF dest.owner = Nothing
       THEN dest' = Holding("us", payload, kept) /\ pc' = "done"
       ELSE Fail /\ UNCHANGED dest
    /\ UNCHANGED <<remote, session>>

\* The operator runs the command again; the staging directories are gone.
Rerun ==
    /\ pc = "failed"
    /\ pc' = "idle"
    /\ Fresh
    /\ UNCHANGED <<remote, dest>>

(***************************************************************************)
(* The world around the clone.                                             *)
(***************************************************************************)
\* The chain grows or reorganizes; it does not return to a chain it left.
ChainMoves ==
    /\ version < Len(story.chains)
    /\ version' = version + 1
    /\ UNCHANGED <<story, faults, pc, session, dest>>

\* Another clone with the same destination finishes.
OtherClone ==
    /\ story.rival
    /\ dest.owner = Nothing
    /\ dest' = Holding("other", <<>>, <<>>)
    /\ UNCHANGED <<remote, pc, session>>

Init ==
    /\ story \in Stories
    /\ version = 1 /\ faults = 0 /\ pc = "idle"
    /\ dest = Holding(Nothing, <<>>, <<>>)
    /\ anchor = Nothing /\ tip = Nothing /\ todo = <<>>
    /\ try = 1 /\ avoid = {} /\ jobs = <<>> /\ pending = <<>>
    /\ inventory = NoInventory /\ refs = <<>> /\ payload = <<>>
    /\ kept = <<>> /\ where = <<>>

Worker(t) == Locate(t) \/ Confirm(t) \/ FetchReveal(t) \/ FetchCommit(t) \/ Retain(t)

Command ==
    \/ Begin \/ FromArchive \/ ArchiveFails \/ NoteAnchor \/ NoteTip
    \/ Ask \/ Prefetch \/ Join \/ GiveUp \/ TryAgain
    \/ TakeRoot \/ TakeLeaf \/ LeavesDone \/ TakePart \/ PartsDone
    \/ Settle \/ Validate \/ CheckAnchor \/ Checkout \/ Rename \/ Rerun
    \/ \E t \in DOMAIN jobs : Worker(t)

Next == Command \/ ChainMoves \/ OtherClone

\* The command keeps running and is run again after a failure, and the chain
\* keeps moving until it is calm.  Calls fail,
\* the chain moves and rivals finish a bounded number of times.
Spec == Init /\ [][Next]_vars /\ WF_vars(Command) /\ WF_vars(ChainMoves)
-----------------------------------------------------------------------------
(***************************************************************************)
(* What it promises.                                                       *)
(***************************************************************************)
\* The tree of records is the canonical publication of these bytes, written
\* out from the bytes and not from the checks of the code.
Publishes(bytes) ==
    LET g == Geometry(Len(bytes))
        Ref(t) == [txid |-> t, hash |-> Records[t].hash]
        Leaf(i) == Root.entries[i + 1].txid
        Part(j) == Records[Leaf(j \div Fanout)].entries[(j % Fanout) + 1].txid
        Width(i) == IF i < g.leaves - 1 THEN Fanout ELSE g.parts - i * Fanout
        Chunk(j) == SubSeq(bytes, j * PartBytes + 1,
                           IF j < g.parts - 1 THEN (j + 1) * PartBytes ELSE Len(bytes))
        Leaves == {Leaf(i) : i \in 0..(g.leaves - 1)}
        Parts == {Part(j) : j \in 0..(g.parts - 1)}
    IN  /\ Root.kind = "root" /\ Root.digest = bytes /\ Root.length = Len(bytes)
        /\ Root.entries = [i \in 1..g.leaves |-> Ref(Leaf(i - 1))]
        /\ \A i \in 0..(g.leaves - 1) :
              LET leaf == Records[Leaf(i)]
              IN  /\ leaf.kind = "leaf" /\ leaf.author = Root.author /\ leaf.index = i
                  /\ leaf.entries = [k \in 1..Width(i) |-> Ref(Part(i * Fanout + k - 1))]
        /\ \A j \in 0..(g.parts - 1) :
              LET part == Records[Part(j)]
              IN  /\ part.kind = "data" /\ part.author = Root.author
                  /\ part.index = j /\ part.bytes = Chunk(j)
        /\ Cardinality(Leaves \cup Parts \cup {story.root}) = g.leaves + g.parts + 1

\* What is installed is a whole publication by one author, rebuilt exactly,
\* whichever providers answered, in whatever order the threads ended, and the
\* proofs beside it are enough to rebuild it without the network (recovery.rs,
\* multipart/recovery.rs, checkout.rs).
OnlyWhole ==
    pc = "done" =>
        /\ dest.owner = "us"
        /\ Publishes(dest.payload)
        /\ \A t \in DOMAIN Records :
              t \in inventory.seen => {t, Records[t].commit} \subseteq DOMAIN dest.proofs

\* A recovery that succeeded over the network can be repeated from the
\* transactions it kept: the check of recover_staged never refuses what
\* recover_from accepted.
RetainedReconstructs ==
    pc = "validate" => Reconstructs(story.root, Proven)

\* What is recovered is exact, now and from what was kept.
RecoveredExact == OnlyWhole /\ RetainedReconstructs

\* When the last check passes, every record that was seen in a block at or
\* below the noted tip is on the active chain: no record of a branch that was
\* left during the recovery is reported as confirmed.  A record seen above the
\* noted tip is not looked at again, and nothing is said of it.
PassesOnChain ==
    pc = "anchor" /\ pc' = "install" =>
        \A t \in DOMAIN where : Depth(where[t]) <= Depth(anchor) => Active(where[t])

\* A checkout that another clone installed stays as it is, also when it came
\* between the look at the destination and the rename (checkout.rs:89, :130).
FirstStays == dest.owner = "other" => dest' = dest

\* What a clone may do in its last steps: it goes on only with records of the
\* active chain, and it never replaces what is at the destination.
InstallsSafely == [][PassesOnChain /\ FirstStays]_vars

\* A publication that some honest provider serves, with fewer bad providers
\* than attempts, is cloned in the end when the command is run again after
\* each failure, unless another clone took the destination.
Servable ==
    /\ Reconstructs(story.root, DOMAIN Records) /\ GitValid
    /\ \A t \in DOMAIN Records :
          /\ \E p \in Providers : story.serves[p][t] = "good"
          /\ Cardinality({p \in Providers : story.serves[p][t] = "bad"}) < Attempts
          /\ \E h \in DOMAIN Last(story.chains) : t \in Last(story.chains)[h].txs

Recovers == Servable ~> (pc = "done" \/ dest.owner = "other")
=============================================================================
