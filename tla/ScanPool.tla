------------------------------ MODULE ScanPool ------------------------------
(***************************************************************************)
(* The secret scan of a Git snapshot (urma-git review.rs scan, scan_pool.rs *)
(* and scan_batch.rs): worker threads take the objects of the inventory by *)
(* a shared index, read each through a `git cat-file --batch' child, and   *)
(* send what they found through a bounded channel to the thread that       *)
(* started them.                                                           *)
(*                                                                         *)
(* Contents and rules are abstracted to the findings of each object; those *)
(* in the branch and repository name, which one thread adds to the head of *)
(* the report before the pool starts (review.rs:160), are left out.  What  *)
(* scan_reader finds in one object is deterministic; which worker takes    *)
(* which object, and in what order results arrive, is not.                 *)
(***************************************************************************)
EXTENDS Integers, Sequences, FiniteSets, SequencesExt

CONSTANTS
    Workers,        \* most threads that scan_workers can allow
    Inventory,      \* the objects of each commit, in inventory order
    Marks,          \* number of findings in each object
    FindingsLimit   \* SCAN_FINDINGS_LIMIT less the findings in the names

ASSUME ScanAssumption ==
    /\ Workers \in Nat \ {0} /\ FindingsLimit \in Nat
    /\ Marks \in [DOMAIN Marks -> Nat]
    /\ \A c \in DOMAIN Inventory : Inventory[c] \in Seq(DOMAIN Marks)

VARIABLES
    crew,       \* where each worker thread is, with the index it took
    next,       \* Jobs::next
    cancelled,  \* Jobs::cancelled
    counted,    \* the shared count of findings
    channel,    \* results sent: the index of a scanned object, 0 for an error
    results,    \* indices of objects with findings, as they arrived
    objects,    \* ScanReport::objects
    errors      \* whether an error arrived

pool == <<crew, next, cancelled, counted, channel, results, objects, errors>>

Thread(at, index) == [at |-> at, index |-> index]

Quiet ==
    /\ crew = <<>> /\ next = 1 /\ cancelled = FALSE /\ counted = 0
    /\ channel = <<>> /\ results = <<>> /\ objects = 0 /\ errors = FALSE

(* The pool is gone: thread::scope has joined its threads. *)
PoolEnds ==
    /\ crew' = <<>> /\ next' = 1 /\ cancelled' = FALSE /\ counted' = 0
    /\ channel' = <<>> /\ results' = <<>> /\ objects' = 0 /\ errors' = FALSE

Least(m, n) == IF m < n THEN m ELSE n

(* scan_workers: requested and memory budget give at most Workers, and no    *)
(* more than there are objects, but one at least.                            *)
Counts(c) == 1..Least(Workers, IF Len(Inventory[c]) > 0 THEN Len(Inventory[c]) ELSE 1)

(* scan: the threads are spawned. *)
PoolStarts(c) ==
    /\ \E n \in Counts(c) : crew' = [w \in 1..n |-> Thread("take", 0)]
    /\ UNCHANGED <<next, cancelled, counted, channel, results, objects, errors>>

Moved(w, at, index) == crew' = [crew EXCEPT ![w] = Thread(at, index)]

(* run_worker after an error: the batch is aborted and the others are told  *)
(* to stop; the error is still to be sent.                                   *)
Failed(w) == cancelled' = TRUE /\ Moved(w, "tell", 0)

(* SCAN_FINDINGS_LIMIT: the finding past it is an error. *)
Within(n) == n <= FindingsLimit

(* scan_jobs, one round of the loop up to the send: the next object unless  *)
(* cancelled, and its findings added to the shared count.  Reading it is    *)
(* the worker's own business, so that both are one step.                    *)
TakeObject(c, w) ==
    /\ crew[w].at = "take"
    /\ IF cancelled THEN Moved(w, "close", 0) /\ UNCHANGED <<next, counted, cancelled>>
       ELSE /\ next' = next + 1
            /\ IF next > Len(Inventory[c])
               THEN Moved(w, "close", 0) /\ UNCHANGED <<counted, cancelled>>
               ELSE /\ counted' = counted + Marks[Inventory[c][next]]
                    /\ IF Within(counted') THEN Moved(w, "send", next) /\ UNCHANGED cancelled
                                           ELSE Failed(w)
    /\ UNCHANGED <<channel, results, objects, errors>>

(* Batch::scan fails: the child answers for another object or ends early,   *)
(* or the object is an LFS pointer; or Batch::finish reports an error.      *)
ScanFails(c, w) ==
    /\ \/ crew[w].at = "take" /\ ~cancelled /\ next <= Len(Inventory[c]) /\ next' = next + 1
       \/ crew[w].at = "close" /\ UNCHANGED next
    /\ Failed(w)
    /\ UNCHANGED <<counted, channel, results, objects, errors>>

(* sync_channel(count): a send waits while as many results as threads wait.  *)
Room == Len(channel) < Len(crew)

SendPart(w) ==
    /\ crew[w].at = "send" /\ Room
    /\ channel' = Append(channel, crew[w].index)
    /\ Moved(w, "take", 0)
    /\ UNCHANGED <<next, cancelled, counted, results, objects, errors>>

(* run_worker sends its error. *)
Tell(w) ==
    /\ crew[w].at = "tell" /\ Room
    /\ channel' = Append(channel, 0)
    /\ Moved(w, "done", 0)
    /\ UNCHANGED <<next, cancelled, counted, results, objects, errors>>

(* Batch::finish: the child is closed and reaped. *)
Close(w) ==
    /\ crew[w].at = "close"
    /\ Moved(w, "done", 0)
    /\ UNCHANGED <<next, cancelled, counted, channel, results, objects, errors>>

(* The loop over the receiver: the channel is drained while threads run; a  *)
(* version that joins them first is ReceiveAfterJoin.                        *)
Joined == \A w \in DOMAIN crew : crew[w].at = "done"

Received(c) ==
    LET index == Head(channel)
    IN  /\ channel' = Tail(channel)
        /\ errors' = (errors \/ index = 0)
        /\ objects' = IF index = 0 THEN objects ELSE objects + 1
        /\ results' = IF index # 0 /\ Marks[Inventory[c][index]] > 0
                      THEN Append(results, index) ELSE results
        /\ UNCHANGED <<crew, next, cancelled, counted>>

ReceiveAfterJoin(c) == channel # <<>> /\ Joined /\ Received(c)
Receive(c) == channel # <<>> /\ Received(c)

(* The receiver ends when every sender is gone. *)
Drained == crew # <<>> /\ Joined /\ channel = <<>>

(* finish: all objects or an error; the parts in inventory order. *)
Complete(c) == ~errors /\ objects = Len(Inventory[c])

FindingsAt(c, index) ==
    [k \in 1..Marks[Inventory[c][index]] |-> <<Inventory[c][index], k>>]

(* A finish that keeps the order of arrival. *)
ReportUnsorted(c) == FlattenSeq([k \in DOMAIN results |-> FindingsAt(c, results[k])])

(* sort_by_key on the index: place k has the index with k - 1 smaller ones. *)
Sorted(s) ==
    [k \in DOMAIN s |-> CHOOSE i \in ToSet(s) : Cardinality({j \in ToSet(s) : j < i}) = k - 1]
Report(c) == FlattenSeq([k \in DOMAIN results |-> FindingsAt(c, Sorted(results)[k])])

WorkerStep(c) ==
    \/ \E w \in DOMAIN crew :
          TakeObject(c, w) \/ ScanFails(c, w) \/ SendPart(w) \/ Tell(w) \/ Close(w)
    \/ Receive(c)

(* Reference: what one thread that reads the objects in order would report  *)
(* of them.                                                                 *)
ScanOf(c) == FlattenSeq([i \in DOMAIN Inventory[c] |-> FindingsAt(c, i)])
=============================================================================
