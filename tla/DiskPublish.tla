---------------------------- MODULE DiskPublish ----------------------------
(***************************************************************************)
(* Publication of an approved plan (urma-runtime disk_publish.rs,          *)
(* disk_journal.rs, publish.rs broadcast, publication_progress.rs) and the *)
(* loop that repeats it (urma-cli git_follow_cli.rs follow, web_cli.rs).   *)
(*                                                                         *)
(* The plan is loaded and validated first (SignedPlan).  Record i of it is  *)
(* a commit transaction that spends the change of commit i - 1 and a       *)
(* reveal that spends commit i.                                            *)
(* One reconciliation looks at every transaction, then walks the records   *)
(* and submits what may be submitted.  Between any two calls of the node   *)
(* its mempool and its chain may change; the process may end anywhere.     *)
(*                                                                         *)
(* All commits weigh the same and so do all reveals, so the limits         *)
(* PUBLICATION_PENDING_COMMITS and PUBLICATION_COMMIT_VBYTES are one bound *)
(* on the number of pending commits.  The journal's rows add nothing to    *)
(* the observations log: every transaction it lists as seen was appended   *)
(* there first.                                                            *)
(***************************************************************************)
EXTENDS SignedPlan

CONSTANTS
    Plans,          \* what the plan directory may hold: signed plans and edits of them
    Roles, Length,  \* bound: a plan is published if its records have these kinds
                    \* and its payload this length; others are only loaded
    PendingCommits, \* PUBLICATION_PENDING_COMMITS
    CommitWeight, RevealWeight,
    BufferWeight,   \* PUBLICATION_BUFFER_WEIGHT
    Faults,         \* bound: the kinds of disturbance that happen
    MaxFaults,      \* bound: and how many of them
    Interrupts,     \* bound: whether a pass can be interrupted at any call
    Routed,         \* whether the node is reached through public providers
    None

N == Len(Roles)
Tx == (1..N) \X {"commit", "reveal"}
TxAt(k) == <<(k + 1) \div 2, IF k % 2 = 1 THEN "commit" ELSE "reveal">>
Parent(tx) == IF tx[2] = "reveal" THEN <<tx[1], "commit">>
              ELSE IF tx[1] > 1 THEN <<tx[1] - 1, "commit">> ELSE None

Presence == {"Missing", "Mempool", "Confirmed"}
State == {"Prepared", "Missing", "Mempool", "Confirmed", "SourceUnavailable"}

ASSUME PublishAssumption ==
    /\ {PendingCommits, CommitWeight, RevealWeight, BufferWeight, MaxFaults} \subseteq Nat
    /\ {Interrupts, Routed} \subseteq BOOLEAN /\ None \notin Tx
    /\ Roles \in Seq({"data", "leaf", "root"}) /\ Len(Roles) > 0

(* A plan is a list of records, and an identity tells one of them from      *)
(* another: a reveal's txid or a record's digest stands for its content.    *)
ASSUME PlansAssumption ==
    \A p \in Plans :
        /\ p.records \in Seq(ToSet(p.records))
        /\ \A k \in DOMAIN p.records : IsRecord(p.records[k].record)
        /\ \A j, k \in DOMAIN p.records :
              p.records[j].record.id = p.records[k].record.id
                  => p.records[j].record = p.records[k].record

(* The order of the records in every plan that loads (Order::append; see     *)
(* LoadedWhole): data, then leaves, then the root.                           *)
ASSUME OrderAssumption ==
    \A i, j \in 1..N :
        \/ Roles[i] = "leaf" /\ Roles[j] = "data"
        \/ Roles[i] = "root" /\ Roles[j] # "root"
        => j < i

VARIABLES
    plan,       \* the plan in the directory: plan.json, index.bin and records.bin
    where,      \* node: "none", "mempool", "tip" (in the last block) or "deep"
    since,      \* node: transactions mined since the current pass began
    tipNew,     \* node: the last block is newer than the pass's anchor
    faults,     \* faults so far
    acked,      \* of Node::acknowledged, what the providers have lost since
    accepted,   \* history variable: transactions that were ever in the node
    buried,     \* history variable: transactions that were ever confirmed
    log,        \* observations.jsonl: last presence appended per transaction
    tail,       \* whether the log ends in a full line, or holds a broken one
    journal,    \* the stored report: "none", "incomplete" or "complete"
    pc,         \* step of the pass, "load" before the first, "idle" between passes,
                \* "stopped" when the loop ended, "refused" when the plan does not load
    submit,     \* publish or watch
    held,       \* the anchor block is still on the chain
    pos,        \* transaction of the inventory, or record of the walk
    obs,        \* Progress::observations
    walk,       \* availability flags, buffer and `limited' of the walk
    blocked, retryable

world == <<where, since, tipNew, faults, acked, accepted, buried, held>>
files == <<log, tail, journal>>
pass == <<pc, submit, pos, obs, walk, blocked, retryable>>
vars == <<plan, world, files, pass>>

-----------------------------------------------------------------------------
(* The node. *)

(* recently_acknowledged: public providers that do not know a transaction    *)
(* are taken to lag behind.                                                  *)
PresenceOf(tx) == CASE where[tx] = "none" -> IF tx \in acked THEN "Mempool" ELSE "Missing"
                    [] where[tx] = "mempool" -> "Mempool"
                    [] OTHER -> "Confirmed"
Mined(tx) == tx # None => where[tx] \in {"tip", "deep"}
Known(tx) == tx # None => where[tx] # "none"

(* presence_cached makes three calls: when the block is replaced between     *)
(* them the answer is Missing although the mempool has the transaction.      *)
Answers(tx) ==
    {PresenceOf(tx)} \cup
        (IF where[tx] = "mempool" /\ tx \in buried THEN {"Missing"} ELSE {})

(* A pass is in progress. *)
Active == pc \notin {"load", "refused", "loaded", "idle", "stopped", "done"}

(* The process is at a call of the node or of a file.  Its other steps touch *)
(* only its own memory, so nothing else needs to happen between them.        *)
Calling == pc \notin {"commit", "reveal", "next"}

Disturbs(kind) == kind \in Faults /\ faults < MaxFaults /\ faults' = faults + 1

Waiting == {tx \in Tx : where[tx] = "mempool"}

(* A block: the transactions S of the mempool, parents included. *)
Mine(S) ==
    /\ \A tx \in S : where[tx] = "mempool" /\ (Parent(tx) \in S \/ Mined(Parent(tx)))
    /\ Calling
    /\ where' = [tx \in Tx |-> IF tx \in S THEN "tip"
                               ELSE IF where[tx] = "tip" THEN "deep" ELSE where[tx]]
    /\ since' = IF Active THEN since \cup S ELSE {}
    /\ tipNew' = Active
    /\ buried' = buried \cup S
    /\ UNCHANGED <<faults, acked, accepted, held, files, pass>>

(* Another block takes the place of the last one, without our transactions. *)
Reorg ==
    /\ Calling
    /\ Disturbs("reorganization")
    /\ where' = [tx \in Tx |-> IF where[tx] = "tip" THEN "mempool" ELSE where[tx]]
    /\ held' = (Active => held /\ tipNew)
    /\ UNCHANGED <<since, tipNew, acked, accepted, buried, files, pass>>

(* The mempool drops a transaction and its descendants, a set closed         *)
(* downward.  Behind public providers the Node of a running command may still *)
(* remember their acknowledgements (remember_acknowledged); one that it never *)
(* got is one that expires at once.                                          *)
Evict(S) ==
    /\ Calling
    /\ Disturbs("eviction")
    /\ S # {} /\ S \subseteq Waiting
    /\ \A tx \in Tx : where[tx] = "mempool" /\ Parent(tx) \in S => tx \in S
    /\ where' = [tx \in Tx |-> IF tx \in S THEN "none" ELSE where[tx]]
    /\ acked' = IF Routed /\ pc \notin {"stopped", "done"} THEN acked \cup S ELSE acked
    /\ UNCHANGED <<since, tipNew, accepted, buried, held, files, pass>>

(* SUBMISSION_ACK_WINDOW is over for tx. *)
Expire(tx) ==
    /\ Calling
    /\ tx \in acked
    /\ acked' = acked \ {tx}
    /\ UNCHANGED <<where, since, tipNew, faults, accepted, buried, held, files, pass>>

-----------------------------------------------------------------------------
(* The observations log. *)

(* Session::remember and disk_journal::observe: a durable append, unless     *)
(* the log already says so.  After a line cut short the new line joins it.   *)
Append1(tx, p) ==
    IF log[tx] = p THEN UNCHANGED <<log, tail>>
    ELSE /\ log' = [log EXCEPT ![tx] = p]
         /\ tail' = IF tail = "torn" THEN "broken" ELSE tail

(* What remember() appends before an absent transaction is submitted. *)
AttemptForgotten(tx) == tx \in Tx /\ UNCHANGED <<log, tail>>
Attempt(tx) == Append1(tx, "Missing")

(* transaction(): what is recorded of a presence that was just looked up. *)
Record(tx, p) ==
    IF submit /\ (log[tx] # "none" \/ p # "Missing") THEN Append1(tx, p) ELSE UNCHANGED <<log, tail>>

(* publication_progress::state *)
StateOf(tx, p) == IF p = "Missing" /\ log[tx] = "none" THEN "Prepared" ELSE p

-----------------------------------------------------------------------------
(* reconcile: read the history, take the tip as anchor. *)

NoWalk == [data |-> TRUE, leaves |-> TRUE, parent |-> TRUE, limited |-> FALSE,
           commits |-> 0, weight |-> 0, broadcast |-> 0]

(* DiskPlan::load, at the start of a command. *)
Published ==
    /\ [k \in DOMAIN plan.records |-> KindOf(plan, k)] = Roles
    /\ plan.records[N].record.units = Length

Load ==
    /\ pc = "load"
    /\ pc' = IF ~Validates(plan) THEN "refused" ELSE IF Published THEN "idle" ELSE "loaded"
    /\ UNCHANGED <<world, files, submit, pos, obs, walk, blocked, retryable>>

Begin(publishing) ==
    /\ pc = "idle"
    /\ IF publishing THEN UNCHANGED faults ELSE Disturbs("watch")
    /\ submit' = publishing
    /\ pc' = IF tail = "broken" THEN "stopped" ELSE "inventory"
    /\ UNCHANGED <<where, since, tipNew, acked, accepted, buried, held, files, pos, obs, walk, blocked, retryable>>

(* The memory of a pass is gone when it ends; the next one starts afresh.   *)
(* The Node lives as long as the loop.                                      *)
Over(next) ==
    /\ pc' = next
    /\ submit' = TRUE /\ pos' = 1 /\ obs' = <<>> /\ walk' = NoWalk
    /\ blocked' = "" /\ retryable' = TRUE
    /\ held' = TRUE /\ tipNew' = FALSE /\ since' = {}
    /\ acked' = IF next = "idle" THEN acked ELSE {}
    /\ UNCHANGED <<where, accepted, buried>>

(* inventory: look at one transaction without submitting it. *)
Inventory ==
    /\ pc = "inventory"
    /\ LET tx == TxAt(pos)
       IN  \E p \in Answers(tx) :
               /\ obs' = Append(obs, StateOf(tx, p))
               /\ Record(tx, p)
    /\ pos' = pos + 1
    /\ pc' = IF pos = 2 * N THEN "anchor" ELSE pc
    /\ UNCHANGED <<world, journal, submit, walk, blocked, retryable>>

(* The source gives no answer: that is not absence. *)
Unavailable ==
    /\ pc = "inventory"
    /\ obs' = Append(obs, "SourceUnavailable")
    /\ blocked' = "source unavailable" /\ retryable' = FALSE
    /\ pc' = "finish"
    /\ UNCHANGED <<world, files, submit, pos, walk>>

(* Buffer::new, from what the inventory saw. *)
Commit(i) == obs[2 * i - 1]
Reveal(i) == obs[2 * i]
Pending == {i \in 1..N : Commit(i) = "Mempool"}
Owed == {i \in 1..N : Reveal(i) # "Confirmed" /\
                         (Commit(i) \in {"Confirmed", "Mempool"} \/ Reveal(i) = "Mempool")}
NewBuffer ==
    [NoWalk EXCEPT
        !.commits = Cardinality(Pending),
        !.weight = Cardinality(Pending) * CommitWeight + Cardinality(Owed) * RevealWeight,
        !.broadcast = Cardinality(Pending) * CommitWeight
                        + Cardinality({i \in 1..N : Reveal(i) = "Mempool"}) * RevealWeight]

(* walk, up to its loop. *)
Anchored ==
    /\ pc = "anchor"
    /\ IF ~submit THEN pc' = "finish" /\ UNCHANGED <<walk, blocked>>
       ELSE IF ~held THEN pc' = "finish" /\ blocked' = "chain changed" /\ UNCHANGED walk
       ELSE pc' = "commit" /\ walk' = NewBuffer /\ UNCHANGED blocked
    /\ pos' = 1
    /\ UNCHANGED <<world, files, submit, obs, retryable>>

AdmitsOneMore == walk.commits <= PendingCommits
Admits ==
    /\ walk.commits < PendingCommits
    /\ walk.weight + CommitWeight + RevealWeight <= BufferWeight

UnsentNew(s) == s = "Prepared"
Unsent(s) == s \in {"Prepared", "Missing"}

(* The loop of walk: the commit of record `pos'. *)
WalkCommit ==
    /\ pc = "commit"
    /\ UNCHANGED <<world, files, submit, pos, obs, blocked, retryable>>
    /\ IF Unsent(Commit(pos)) /\ walk.parent
       THEN IF Admits /\ blocked = "" THEN pc' = "look commit" /\ UNCHANGED walk
                      ELSE pc' = "reveal" /\ walk' = [walk EXCEPT !.limited = TRUE]
       ELSE pc' = "reveal" /\ UNCHANGED walk

(* Its commit is confirmed and so is, or waits to be, all it refers to. *)
SettledEarly(s) == s \in {"Mempool", "Confirmed"}
Settled(s) == s = "Confirmed"
DependenciesOnData == Roles[pos] \in {"leaf", "root"} => walk.data
Dependencies ==
    CASE Roles[pos] = "leaf" -> walk.data
      [] Roles[pos] = "root" -> walk.data /\ walk.leaves
      [] OTHER -> TRUE

(* The loop of walk: the reveal of record `pos'. *)
WalkReveal ==
    /\ pc = "reveal"
    /\ UNCHANGED <<world, files, submit, pos, obs, blocked, retryable>>
    /\ IF /\ Settled(Commit(pos)) /\ Dependencies
          /\ retryable /\ blocked = "" /\ Unsent(Reveal(pos))
       THEN IF walk.broadcast + RevealWeight <= BufferWeight
            THEN pc' = "look reveal" /\ UNCHANGED walk
            ELSE pc' = "next" /\ walk' = [walk EXCEPT !.limited = TRUE]
       ELSE pc' = "next" /\ UNCHANGED walk

Kind == IF pc \in {"look commit", "send commit", "check commit"} THEN "commit" ELSE "reveal"
Target == <<pos, Kind>>
Slot == IF Kind = "commit" THEN 2 * pos - 1 ELSE 2 * pos

(* submit_record: transaction() appended its observation; it takes the      *)
(* place of the one the inventory made.                                     *)
Replace(s) == [obs EXCEPT ![Slot] = s]

(* submit_record returns s: the observation is replaced, the buffer filled. *)
Returned(s, reason, retry) ==
    /\ obs' = Replace(s)
    /\ blocked' = IF reason = "" THEN blocked ELSE reason
    /\ retryable' = retry
    /\ pc' = IF Kind = "commit" THEN "reveal" ELSE "next"
    /\ walk' = IF s # "Mempool" THEN walk
               ELSE IF Kind = "commit"
               THEN [walk EXCEPT !.commits = @ + 1, !.weight = @ + CommitWeight + RevealWeight,
                                 !.broadcast = @ + CommitWeight]
               ELSE [walk EXCEPT !.broadcast = @ + RevealWeight]

(* transaction(eligible): the look before submitting; an absent transaction *)
(* is appended to the log as an attempt.                                    *)
Look ==
    /\ pc \in {"look commit", "look reveal"}
    /\ UNCHANGED <<world, journal, submit, pos>>
    /\ \E p \in Answers(Target) :
           IF p = "Missing"
           THEN /\ Attempt(Target)
                /\ pc' = IF Kind = "commit" THEN "send commit" ELSE "send reveal"
                /\ UNCHANGED <<obs, walk, blocked, retryable>>
           ELSE Record(Target, p) /\ Returned(p, "", retryable)

LookFails ==
    /\ pc \in {"look commit", "look reveal"}
    /\ Returned("SourceUnavailable", "source unavailable", FALSE)
    /\ UNCHANGED <<world, files, submit, pos>>

(* broadcast: the node takes the transaction, with or without its reply.    *)
Accepted ==
    /\ pc \in {"send commit", "send reveal"}
    /\ where[Target] \in {"none", "mempool"} /\ Known(Parent(Target))
    /\ where' = [where EXCEPT ![Target] = "mempool"]
    /\ accepted' = accepted \cup {Target}
    /\ pc' = IF Kind = "commit" THEN "check commit" ELSE "check reveal"
    /\ UNCHANGED <<since, tipNew, faults, acked, buried, held, files, submit, pos, obs, walk, blocked, retryable>>

(* broadcast: refused; retryable only when the mempool is full. *)
Refused(reason) ==
    /\ pc \in {"send commit", "send reveal"}
    /\ \/ reason = "mempool full" /\ Disturbs("mempool full")
       \/ reason = "awaiting parent" /\ Parent(Target) # None
            /\ where[Parent(Target)] = "mempool" /\ UNCHANGED faults
       \/ reason = "rejected" /\ UNCHANGED faults
    /\ Returned("Missing", reason, reason = "mempool full")
    /\ UNCHANGED <<where, since, tipNew, acked, accepted, buried, held, files, submit, pos>>

(* The look after submitting. *)
LookAgain ==
    /\ pc \in {"check commit", "check reveal"}
    /\ \E p \in Answers(Target) :
           /\ Record(Target, p)
           /\ Returned(p, IF p = "Missing" THEN "not yet observable" ELSE "", retryable)
    /\ UNCHANGED <<world, journal, submit, pos>>

Seen(s) == s \in {"Confirmed", "Mempool"}

(* The end of an iteration: availability for the records that follow. *)
NextRecord ==
    /\ pc = "next"
    /\ walk' = [walk EXCEPT
                  !.parent = Seen(Commit(pos)),
                  !.data   = @ /\ (Roles[pos] = "data" => Seen(Reveal(pos))),
                  !.leaves = @ /\ (Roles[pos] = "leaf" => Seen(Reveal(pos)))]
    /\ IF pos = N \/ ~retryable \/ blocked # ""
       THEN /\ pc' = "finish"
            /\ blocked' = IF walk.limited /\ blocked = "" THEN "buffer full" ELSE blocked
            /\ UNCHANGED pos
       ELSE pc' = "commit" /\ pos' = pos + 1 /\ UNCHANGED blocked
    /\ UNCHANGED <<world, files, submit, obs, retryable>>

(* The end of reconcile: the anchor once more, the report, the loop.        *)
Reached(rows) == Len(rows) = 2 * N /\ \A k \in DOMAIN rows : rows[k] = "Confirmed"

RowsKept == obs
Rows == IF held THEN obs ELSE <<>>

Finish ==
    /\ pc = "finish"
    /\ LET complete == Reached(Rows)
       IN  /\ journal' = IF ~submit THEN journal ELSE IF complete THEN "complete" ELSE "incomplete"
           /\ Over(IF ~retryable THEN "stopped" ELSE IF complete THEN "done" ELSE "idle")
    /\ UNCHANGED <<faults, log, tail>>

(* An error that ends the pass, or a crash, before anything else is stored. *)
Abort ==
    /\ Interrupts /\ Active /\ Calling
    /\ Over("stopped")
    /\ UNCHANGED <<faults, files>>

(* A crash or a full disk in the middle of an append. *)
TornAppend ==
    /\ submit
    /\ pc \in {"inventory", "look commit", "look reveal", "check commit", "check reveal"}
    /\ Disturbs("torn append")
    /\ tail' = IF tail = "broken" THEN tail ELSE "torn"
    /\ Over("stopped")
    /\ UNCHANGED <<log, journal>>

(* The operator runs resume, or watches, after the loop ended; the plan     *)
(* that loaded before loads again.                                          *)
Resume ==
    /\ pc \in {"stopped", "done"}
    /\ pc' = "idle"
    /\ UNCHANGED <<world, files, submit, pos, obs, walk, blocked, retryable>>

-----------------------------------------------------------------------------
Init ==
    /\ plan \in Plans
    /\ where = [tx \in Tx |-> "none"]
    /\ since = {} /\ tipNew = FALSE /\ held = TRUE
    /\ faults = 0 /\ acked = {} /\ accepted = {} /\ buried = {}
    /\ log = [tx \in Tx |-> "none"] /\ tail = "clean" /\ journal = "none"
    /\ pc = "load" /\ submit = TRUE
    /\ pos = 1 /\ obs = <<>> /\ walk = NoWalk
    /\ blocked = "" /\ retryable = TRUE

PassStep ==
    \/ Inventory \/ Anchored \/ WalkCommit \/ WalkReveal
    \/ Look \/ Accepted \/ LookAgain \/ NextRecord \/ Finish
    \/ \E reason \in {"mempool full", "awaiting parent", "rejected"} : Refused(reason)

Step ==
    \/ \E publishing \in BOOLEAN : Begin(publishing)
    \/ Load \/ PassStep
    \/ Unavailable \/ LookFails \/ Abort \/ TornAppend \/ Resume
    \/ \E S \in SUBSET Waiting : Mine(S) \/ Evict(S)
    \/ Reorg
    \/ \E tx \in Tx : Expire(tx)

Next == Step /\ UNCHANGED plan

Spec == Init /\ [][Next]_vars

(* A pass runs to its end, the loop starts the next one (follow with --watch *)
(* and --persist) however often somebody watches in between, and the network *)
(* mines what it holds, and time passes.  Nothing obliges an operator to resume.  Mining is   *)
(* strongly fair only because Mine waits for the process to be Calling.      *)
FairSpec ==
    /\ Spec
    /\ WF_vars(PassStep /\ UNCHANGED plan)
    /\ SF_vars(Begin(TRUE) /\ UNCHANGED plan)
    /\ SF_vars((\E S \in SUBSET Waiting : S # {} /\ Mine(S)) /\ UNCHANGED plan)
    /\ SF_vars((\E tx \in Tx : Expire(tx)) /\ UNCHANGED plan)

-----------------------------------------------------------------------------
(* Correctness. *)

(* Type invariant: observations pair up with the plan's transactions, and   *)
(* the buffer counts what fits the plan.                                    *)
TypeOK ==
    /\ where \in [Tx -> {"none", "mempool", "tip", "deep"}]
    /\ since \subseteq Tx /\ accepted \subseteq Tx /\ buried \subseteq accepted
    /\ {tipNew, held, submit, retryable} \subseteq BOOLEAN
    /\ faults \in 0..MaxFaults
    /\ log \in [Tx -> Presence \cup {"none"}]
    /\ tail \in {"clean", "torn", "broken"}
    /\ journal \in {"none", "incomplete", "complete"}
    /\ pos \in 1..(2 * N + 1)
    /\ obs \in Seq(State) /\ Len(obs) <= 2 * N
    /\ walk.commits \in 0..N

Revealed == {i \in 1..N : <<i, "reveal">> \in accepted}

(* What is published is one tree: from the root of a plan that loaded, all  *)
(* data parts are reached once and in order, over references that all point *)
(* back, and each commit is funded by the one before, so that the walk in   *)
(* record order can always go on; no other sequence of records loads.       *)
LoadedWhole == pc \in {"idle", "loaded"} => IsTree(plan) /\ IsChain(plan)

(* The funding that the quote asks for is just what signing needs: a coin   *)
(* of that value carries the chain of change through every record down to   *)
(* the dust-safe rest, within the approved fee, and a smaller one does not; *)
(* and what was signed so loads, at every boundary of the geometry.  (A fact *)
(* of the constants, evaluated where a plan has just been judged.)          *)
FundingExact ==
    pc \in {"loaded", "refused"} => \A length \in 0..MaxLength :
        /\ Signs(length, <<Funding(length)>>, Quote(length))
        /\ ~Signs(length, <<Funding(length) - 1>>, Quote(length))
        /\ Validates(Written(length, <<Funding(length)>>, Quote(length)))

(* What loads is a plan, and what is funded as quoted becomes one. *)
PlanSound == LoadedWhole /\ FundingExact

(* The walk never shows a part of the tree before what it refers to: a leaf *)
(* is submitted when all data records have been, the root when all leaves   *)
(* have been too, whatever was evicted, reorganized, lost or restarted.     *)
RootLast ==
    \A i \in Revealed, j \in 1..N :
        \/ Roles[i] = "leaf" /\ Roles[j] = "data"
        \/ Roles[i] = "root" /\ Roles[j] # "root"
        => j \in Revealed

(* remember() comes before broadcast(): whenever the process ends, every    *)
(* transaction the network ever received has an attempt in the log, so a    *)
(* restart that can read the log never takes it for merely prepared.        *)
AttemptsDurable == tail # "broken" => \A tx \in accepted : log[tx] # "none"

(* A reveal is submitted only once its commit has been confirmed. *)
RevealAfterCommit == \A i \in Revealed : <<i, "commit">> \in buried

(* Both orders in which reveals are submitted. *)
RevealOrder == RootLast /\ RevealAfterCommit

(* No more than PUBLICATION_PENDING_COMMITS commits of the plan wait in the  *)
(* mempool, over all passes and restarts.  What a reorganization puts back   *)
(* there does not count.                                                     *)
PendingBound ==
    Cardinality({i \in 1..N : where[<<i, "commit">>] = "mempool" /\ <<i, "commit">> \notin buried})
        <= PendingCommits

Confirmed(tx) == where[tx] \in {"tip", "deep"}

(* A report is complete only if every transaction is confirmed at that      *)
(* moment, except for one that was mined after the pass took its anchor.    *)
CompleteHolds ==
    [][pc = "finish" /\ pc' = "done" => \A tx \in Tx : Confirmed(tx) \/ tx \in since]_vars

(* The loop comes to the end of the publication, or stops for the operator. *)
FollowSettles == (pc = "idle") ~> (pc \in {"done", "stopped"})
=============================================================================
