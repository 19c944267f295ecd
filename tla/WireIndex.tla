----------------------------- MODULE WireIndex -----------------------------
(***************************************************************************)
(* The index of public messages (urma-wire index.rs): sync rolls the       *)
(* persisted index back to the chain of a Reader, then worker threads      *)
(* fetch a batch of blocks in any order while the caller applies them in   *)
(* theirs, and the result is stored if its last block is still current.    *)
(* The reader may answer every call from another chain, or fail; the       *)
(* process may end anywhere.                                               *)
(***************************************************************************)
EXTENDS Integers, Sequences, FiniteSets

CONSTANTS
    Blocks,     \* block hashes
    Prev,       \* the block before each block
    Chains,     \* the chains the reader may be on: block of each height from 1
    Posts,      \* blocks that hold a valid wire record
    Start,      \* first height of the index
    MaxBlocks,  \* --max-blocks
    Workers,    \* the fetch threads of a batch
    None

ASSUME WireAssumption ==
    /\ Chains \subseteq Seq(Blocks) /\ Posts \subseteq Blocks /\ None \notin Blocks
    /\ Prev \in [Blocks -> Blocks \cup {None}]
    /\ \A c \in Chains : \A i \in 2..Len(c) : Prev[c[i]] = c[i - 1]
    /\ Start \in Nat \ {0} /\ MaxBlocks \in Nat \ {0}
    /\ IsFiniteSet(Workers) /\ Workers # {}

VARIABLES
    chain,      \* environment: the chain the reader is on
    disk,       \* the persisted Index, or None
    index,      \* the Index in memory, or None
    pc,         \* the step of sync in progress, "off" between calls
    tip,        \* tip height read by sync
    next,       \* first height of the batch
    total,      \* number of heights of the batch
    cursor,     \* Batch::cursor
    failed,     \* Batch::failed
    worker,     \* per thread: Ready, Gone, or the position it fetches
    inbox,      \* answers on the channel
    waiting,    \* answers that came before their turn, by position
    expected,   \* position whose turn it is
    streamed    \* result of stream_batch: "ok" or "error"

Ready == -1
Gone == -2

batch == <<next, total, cursor, failed, worker, inbox, waiting, expected, streamed>>
vars == <<chain, disk, index, pc, tip, batch>>

-----------------------------------------------------------------------------
(* Index: the checkpoints from Start on, and the entries by height. *)

EmptyIndex == [blocks |-> <<>>, entries |-> {}]
Last(x) == x.blocks[Len(x.blocks)]
Height(x) == Start + Len(x.blocks) - 1

(* read_entries, verified_entry: a record keeps the height of its block. *)
Entries(b, h) == IF b \in Posts THEN {[height |-> h, block |-> b]} ELSE {}

(* Fault: the entries of the block that is taken back stay. *)
PoppedEarly(x) ==
    [blocks  |-> SubSeq(x.blocks, 1, Len(x.blocks) - 1),
     entries |-> {e \in x.entries : e.height <= Height(x)}]

(* The body of rollback's loop. *)
Popped(x) ==
    [blocks  |-> SubSeq(x.blocks, 1, Len(x.blocks) - 1),
     entries |-> {e \in x.entries : e.height < Height(x)}]

(* The end of apply_block. *)
Pushed(x, b) ==
    [blocks  |-> Append(x.blocks, b),
     entries |-> x.entries \cup Entries(b, Height(x) + 1)]

-----------------------------------------------------------------------------
NoBatch ==
    /\ next' = Start /\ total' = 0 /\ cursor' = 0 /\ failed' = FALSE
    /\ worker' = [w \in Workers |-> Gone]
    /\ inbox' = <<>> /\ waiting' = [p \in {} |-> None] /\ expected' = 0 /\ streamed' = "ok"

Off == pc' = "off" /\ index' = None /\ tip' = 0 /\ NoBatch

(* opened *)
Open ==
    /\ pc = "off"
    /\ index' = IF disk = None THEN EmptyIndex ELSE disk
    /\ pc' = "tip"
    /\ UNCHANGED <<chain, disk, tip, batch>>

TipHeight ==
    /\ pc = "tip"
    /\ tip' = Len(chain)
    /\ pc' = "rollback"
    /\ UNCHANGED <<chain, disk, index, batch>>

(* rollback ends; sync persists if it changed the index, or none is stored:  *)
(* in every case the file then holds the index.                              *)
RolledBack ==
    /\ disk' = index
    /\ pc' = "start"
    /\ UNCHANGED <<index, tip, batch>>

(* Fault: rollback looks at the height of the last checkpoint only. *)
StaleByHeight(x) == Height(x) > tip

(* The last checkpoint is beyond the tip, or another block is in its place. *)
Stale(x) ==
    \/ Height(x) > tip
    \/ Height(x) \in DOMAIN chain /\ chain[Height(x)] # Last(x)

(* One iteration of rollback's loop. *)
Rollback ==
    /\ pc = "rollback"
    /\ UNCHANGED chain
    /\ \/ index.blocks = <<>> /\ RolledBack
       \/ /\ index.blocks # <<>> /\ ~Stale(index) /\ Height(index) \in DOMAIN chain
          /\ RolledBack
       \/ /\ index.blocks # <<>> /\ Stale(index)
          /\ index' = Popped(index)
          /\ UNCHANGED <<disk, pc, tip, batch>>
       \/ /\ index.blocks # <<>> /\ Height(index) <= tip /\ Height(index) \notin DOMAIN chain
          /\ Off /\ UNCHANGED disk

Smaller(a, b) == IF a < b THEN a ELSE b

(* The number of heights from the next one to the tip, at most MaxBlocks. *)
BatchSize ==
    IF Height(index) + 1 > tip THEN 0 ELSE Smaller(MaxBlocks, tip - Height(index))

(* The heights of the batch, and its threads: no more than there are heights. *)
StartBatch ==
    /\ pc = "start"
    /\ next' = Height(index) + 1
    /\ total' = BatchSize
    /\ cursor' = 0 /\ failed' = FALSE /\ inbox' = <<>> /\ expected' = 0 /\ streamed' = "ok"
    /\ \E threads \in SUBSET Workers :
         /\ Cardinality(threads) = Smaller(Cardinality(Workers), total')
         /\ worker' = [w \in Workers |-> IF w \in threads THEN Ready ELSE Gone]
    /\ waiting' = [p \in {} |-> None]
    /\ pc' = "stream"
    /\ UNCHANGED <<chain, disk, index, tip>>

Streaming == pc \in {"stream", "apply", "join"}

(* heights.get(position) *)
Taken == IF cursor < total THEN cursor ELSE Gone

(* fetch_loop: stop, or take the next position.  The flag is read relaxed,   *)
(* so a thread may take a position although another one has raised it.       *)
Take(w) ==
    /\ Streaming /\ worker[w] = Ready
    /\ \/ failed /\ worker' = [worker EXCEPT ![w] = Gone] /\ UNCHANGED cursor
       \/ /\ cursor' = cursor + 1
          /\ worker' = [worker EXCEPT ![w] = Taken]
    /\ UNCHANGED <<chain, disk, index, pc, tip, next, total, failed, inbox, waiting, expected, streamed>>

Fetching(w) == Streaming /\ worker[w] \notin {Ready, Gone}

(* The channel: a send fails once the collector has left its loop. *)
Send(w, answer) ==
    inbox' = IF pc = "join" THEN inbox
             ELSE Append(inbox, [position |-> worker[w], block |-> answer])

Fetch(w) ==
    /\ Fetching(w)
    /\ next + worker[w] \in DOMAIN chain
    /\ Send(w, chain[next + worker[w]])
    /\ worker' = [worker EXCEPT ![w] = IF pc = "join" THEN Gone ELSE Ready]
    /\ UNCHANGED <<chain, disk, index, pc, tip, next, total, cursor, failed, waiting, expected, streamed>>

(* Fault: the thread that fails tells the others but not the collector. *)
FailSilently(w) ==
    /\ Fetching(w)
    /\ failed' = TRUE
    /\ worker' = [worker EXCEPT ![w] = Gone]
    /\ UNCHANGED <<chain, disk, index, pc, tip, next, total, cursor, inbox, waiting, expected, streamed>>

(* A fetch fails: the thread raises the flag, reports, and sees its own flag. *)
FetchFails(w) ==
    /\ Fetching(w)
    /\ failed' = TRUE
    /\ Send(w, None)
    /\ worker' = [worker EXCEPT ![w] = Gone]
    /\ UNCHANGED <<chain, disk, index, pc, tip, next, total, cursor, waiting, expected, streamed>>

(* The collector leaves its loop with an error; the scope waits for the threads. *)
Leave == pc' = "join" /\ streamed' = "error"

(* The collector takes one answer from the channel. *)
Collect ==
    /\ pc = "stream" /\ inbox # <<>>
    /\ inbox' = Tail(inbox)
    /\ LET a == Head(inbox)
       IN  IF a.block = None THEN Leave /\ UNCHANGED waiting
           ELSE /\ waiting' = [p \in DOMAIN waiting \cup {a.position} |->
                                 IF p = a.position THEN a.block ELSE waiting[p]]
                /\ pc' = "apply" /\ UNCHANGED streamed
    /\ UNCHANGED <<chain, disk, index, tip, next, total, cursor, failed, worker, expected>>

(* apply_block: the block continues the last checkpoint, if there is one. *)
Follows(x, b) == x.blocks # <<>> => Prev[b] = Last(x)

(* One iteration of the inner loop. *)
Apply ==
    /\ pc = "apply"
    /\ UNCHANGED <<chain, disk, tip, next, total, cursor, worker, inbox>>
    /\ \/ /\ expected \notin DOMAIN waiting
          /\ pc' = "stream"
          /\ UNCHANGED <<index, failed, waiting, expected, streamed>>
       \/ /\ expected \in DOMAIN waiting /\ Follows(index, waiting[expected])
          /\ index' = Pushed(index, waiting[expected])
          /\ waiting' = [p \in DOMAIN waiting \ {expected} |-> waiting[p]]
          /\ expected' = expected + 1
          /\ UNCHANGED <<pc, failed, streamed>>
       \/ /\ expected \in DOMAIN waiting /\ ~Follows(index, waiting[expected])
          /\ failed' = TRUE /\ Leave
          /\ UNCHANGED <<index, waiting, expected>>

(* apply_block fails on a block that follows: its records cannot be read, or *)
(* a commit transaction is not available.                                    *)
ApplyFails ==
    /\ pc = "apply" /\ expected \in DOMAIN waiting /\ Follows(index, waiting[expected])
    /\ failed' = TRUE /\ Leave
    /\ UNCHANGED <<chain, disk, index, tip, next, total, cursor, worker, inbox, waiting, expected>>

AllGone == \A w \in Workers : worker[w] = Gone

(* Fault: the collector keeps a sender of its own. *)
ClosedNever == FALSE

(* The channel is closed and empty: every thread has dropped its sender. *)
Closed == inbox = <<>> /\ AllGone

(* stream_batch returns. *)
Joined ==
    /\ \/ pc = "stream" /\ Closed
       \/ pc = "join" /\ AllGone
    /\ pc' = IF Height(index) >= next THEN "confirm" ELSE "return"
    /\ UNCHANGED <<chain, disk, index, tip, batch>>

(* confirm_tail, then persist. *)
ConfirmTail ==
    /\ pc = "confirm"
    /\ UNCHANGED chain
    /\ IF Height(index) \in DOMAIN chain /\ chain[Height(index)] = Last(index)
       THEN disk' = index /\ pc' = "return" /\ UNCHANGED <<index, tip, batch>>
       ELSE Off /\ UNCHANGED disk

Return ==
    /\ pc = "return"
    /\ Off
    /\ UNCHANGED <<chain, disk>>

(* A crash, or a call of the reader that fails outside of the batch. *)
Stop ==
    /\ pc \notin {"off", "return"}
    /\ Off
    /\ UNCHANGED <<chain, disk>>

Reorg ==
    /\ chain' \in Chains \ {chain}
    /\ UNCHANGED <<disk, index, pc, tip, batch>>

Init ==
    /\ chain \in Chains
    /\ disk = None /\ index = None /\ pc = "off" /\ tip = 0
    /\ next = Start /\ total = 0 /\ cursor = 0 /\ failed = FALSE
    /\ worker = [w \in Workers |-> Gone]
    /\ inbox = <<>> /\ waiting = [p \in {} |-> None] /\ expected = 0 /\ streamed = "ok"

Thread(w) == Take(w) \/ Fetch(w) \/ FetchFails(w)
Caller ==
    \/ TipHeight \/ Rollback \/ StartBatch \/ Collect \/ Apply \/ ApplyFails
    \/ Joined \/ ConfirmTail \/ Return

Next == Open \/ Caller \/ (\E w \in Workers : Thread(w)) \/ Stop \/ Reorg

Spec == Init /\ [][Next]_vars

(* A call that was made, and its threads, run until they are done. *)
FairSpec == Spec /\ WF_vars(Caller) /\ \A w \in Workers : WF_vars(Thread(w))

-----------------------------------------------------------------------------
(* Correctness. *)

IsIndex(x) ==
    /\ x.blocks \in Seq(Blocks)
    /\ x = [blocks |-> x.blocks, entries |-> x.entries]

(* Type invariant: checkpoints are block hashes, and every answer on its way *)
(* has a position of the batch and the block or the error the reader gave.   *)
TypeOK ==
    /\ chain \in Chains
    /\ disk = None \/ IsIndex(disk)
    /\ IF pc = "off" THEN index = None ELSE IsIndex(index)
    /\ pc \in {"off", "tip", "rollback", "start", "stream", "apply", "join", "confirm", "return"}
    /\ {tip, total, cursor, expected} \subseteq Nat /\ failed \in BOOLEAN
    /\ next \in Nat \ {0}
    /\ streamed \in {"ok", "error"}
    /\ worker \in [Workers -> Gone .. total - 1]
    /\ inbox \in Seq([position : 0 .. total - 1, block : Blocks \cup {None}])
    /\ DOMAIN waiting \subseteq 0 .. total - 1
    /\ waiting \in [DOMAIN waiting -> Blocks]

Linked(s) == \A i \in 2..Len(s) : Prev[s[i]] = s[i - 1]

(* Whatever the reader switches to and however the threads race, the        *)
(* persisted checkpoints follow each other on one chain.                    *)
OneChain == disk # None => Linked(disk.blocks)

EntriesOf(s) == UNION {Entries(s[i], Start + i - 1) : i \in 1..Len(s)}

(* The persisted entries are exactly those of the persisted checkpoints, at *)
(* their heights: none is lost, kept after a rollback, or applied twice.    *)
EntriesExact == disk # None => disk.entries = EntriesOf(disk.blocks)

(* sync reports success only when every height of the batch was applied, so *)
(* complete_to_tip never hides a gap left by a thread that failed.          *)
ReportHonest ==
    pc = "return" /\ streamed = "ok" => Height(index) = next + total - 1

(* A call comes to an end: no thread and no collector waits for ever for an *)
(* answer that a failed thread will not send.                               *)
SyncEnds == (pc # "off") ~> (pc = "off")

Disturbed == Reorg \/ Stop \/ ApplyFails \/ \E w \in Workers : FetchFails(w)

(* No reorganization leaves the index stuck: once the chain and the reader  *)
(* are calm, repeating sync brings the persisted index to the tip.          *)
CatchesUp ==
    []<><<Open>>_vars /\ <>[][~Disturbed]_vars
      => <>[](disk # None /\ disk.blocks = SubSeq(chain, Start, Len(chain)))

(* Every call ends, and calls that go on catch up. *)
Settles == SyncEnds /\ CatchesUp
=============================================================================
