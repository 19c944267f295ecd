---------------------------- MODULE GitWorkspace ----------------------------
(***************************************************************************)
(* The plan directory of a Git publication and the commands that use it:   *)
(* git prepare, review, publish and resume (urma-cli git_cli.rs,           *)
(* git_publish_cli.rs, git_follow_cli.rs; urma-git workflows.rs,           *)
(* workspace.rs, plans.rs, snapshot.rs, review.rs), with the wallet that   *)
(* funds the plan (urma-runtime wallet.rs, planner.rs, quote.rs).          *)
(*                                                                         *)
(* Several processes run commands on one directory.  Some hold the         *)
(* advisory lock of the directory, some read it without; the operator      *)
(* commits meanwhile, spends coins elsewhere, and any process can fail or  *)
(* be killed.  Files are replaced as a whole directory, by one exchange.   *)
(*                                                                         *)
(* Signing draws no randomness, so a plan (SignedPlan) is known by its     *)
(* snapshot and its coins; its identifier, the hash of plan.json, is that  *)
(* value itself.  Author, account, network and fee rate of all commands    *)
(* are the same.                                                           *)
(***************************************************************************)
EXTENDS ScanPool, SignedPlan

CONSTANTS
    Processes,
    Coins,          \* the wallet's coins, largest first
    Value,          \* of each coin
    Size,           \* length of the payload that each commit makes
    Faults,         \* what is wrong with each commit
    Limit,          \* limits.max_pack_bytes
    Checks,         \* WALLET_CHECKS
    VerifyOutputs,  \* WALLET_VERIFY_OUTPUTS
    Runs,           \* the commands that each process runs
    MaxRuns,        \* bound: commands started
    MaxCommits,     \* bound: changes of HEAD
    Contested,      \* bound: coins that another wallet may spend
    None

Heads == DOMAIN Inventory

ASSUME WorkspaceAssumption ==
    /\ \A i, j \in DOMAIN Coins : i < j => Value[Coins[i]] >= Value[Coins[j]]
    /\ \A c \in Heads : Size[c] \in 0..MaxLength
    /\ \A c \in Heads : Faults[c] \subseteq {"detached", "unsafe path", "too many objects", "damaged blob"}
    /\ {Limit, Checks, VerifyOutputs, MaxRuns, MaxCommits} \subseteq Nat
    /\ Contested \subseteq ToSet(Coins)
    /\ None \notin Heads \cup Processes

NoSnapshot == [head |-> None, scan |-> FALSE, found |-> <<>>]
NoPlan == [snapshot |-> NoSnapshot, coins |-> {}]
NoReview == [state |-> "none", plan |-> NoPlan, classes |-> {}]

(* The directory as workspace::replace leaves it. *)
Fresh(snapshot, plan) ==
    [snapshot |-> snapshot, plan |-> plan, review |-> NoReview,
     journal |-> FALSE, log |-> FALSE, litter |-> FALSE]

Idle == [at |-> "idle", cmd |-> "none", scan |-> FALSE, plan |-> NoPlan, clean |-> FALSE,
         reviewed |-> FALSE, staged |-> NoPlan, classes |-> {}]

VARIABLES
    head,       \* the commit that HEAD names
    coin,       \* of each coin: "unspent", "pending" or "spent"
    used,       \* commands and commits so far
    dir,        \* the plan directory
    lock,       \* who holds the lock of the directory
    proc,       \* what each process does
    sent        \* history variable: plans submitted, with what was approved

vars == <<head, coin, used, dir, lock, proc, sent, pool>>
world == <<head, coin, used, sent>>

-----------------------------------------------------------------------------
(* The wallet. *)

Prefix(s, n) == SubSeq(s, 1, Least(Len(s), n))

(* local_coins or routed_coins: the outputs that the chain has unspent,     *)
(* whatever the mempool does with them.                                     *)
Reported == LET unspent(k) == coin[k] # "spent" IN SelectSeq(Coins, unspent)

(* Candidates::add: the largest of them. *)
Candidates == Prefix(Reported, Checks)

(* live: the output is unspent, mempool included. *)
Live(k) == coin[k] = "unspent"

(* Node::wallet: the first candidates that are live. *)
WalletView == Prefix(SelectSeq(Candidates, Live), VerifyOutputs)

Values(ks) == [i \in DOMAIN ks |-> Value[ks[i]]]

(* covered: the balance reaches the amount. *)
Covers(ks, amount) == Total(Values(ks)) >= amount

(* chosen: the shortest prefix that does. *)
Chosen(view, amount) ==
    CHOOSE ks \in {Prefix(view, n) : n \in 0..Len(view)} :
        Covers(ks, amount) /\ \A n \in 0..(Len(ks) - 1) : ~Covers(Prefix(view, n), amount)

(* Node::select_coins and Planner::streaming for a commit's payload. *)
Selected(c) == Chosen(WalletView, Funding(Size[c]))

(* sign_snapshot: the coins cover the plan, and the fee of its records, with *)
(* all of them as inputs of the first, stays within the quote (the outcome   *)
(* of Signs for coins that cover the funding).                               *)
CanSign(c) ==
    /\ Covers(WalletView, Funding(Size[c]))
    /\ Quote(Size[c]) + (Len(Selected(c)) - 1) * InputFee <= Quote(Size[c])

-----------------------------------------------------------------------------
(* The snapshot. *)

(* snapshot::freeze: HEAD is a branch, and its PACK fits. *)
OnBranch(c) == "detached" \notin Faults[c]
PackFits(c) == Size[c] <= Limit

(* inventory::parse_entry and safe_path *)
PathsSafe(c) == "unsafe path" \notin Faults[c]

(* inventory::inspect, inspect_objects and metadata_row *)
WithinLimits(c) == "too many objects" \notin Faults[c]

(* snapshot::validate, validate_blobs and Batch::copy_blob *)
BlobsValid(c) == "damaged blob" \notin Faults[c]

Freezable(c) == OnBranch(c) /\ PathsSafe(c) /\ WithinLimits(c) /\ PackFits(c) /\ BlobsValid(c)

-----------------------------------------------------------------------------
(* The directory. *)

Exists == dir.snapshot # NoSnapshot

(* ensure_unpublished; a version that looks only at the journal. *)
UnpublishedByJournal == ~dir.journal
Unpublished == ~dir.journal /\ ~dir.log

(* owned: nothing but a plan's own files. *)
Owned == ~dir.litter

(* reusable: the same branch head and limits, an intact snapshot and scan. *)
Reusable(scan) == Exists /\ dir.snapshot.head = head /\ dir.snapshot.scan = scan

(* GitPlan::load_with_publication: the artifacts are those the plan froze. *)
Loads == dir.plan # NoPlan /\ dir.plan.snapshot = dir.snapshot

(* review::require *)
Reviewed(plan) ==
    /\ dir.review.state = "kept" /\ dir.review.plan = plan
    /\ dir.review.classes = ToSet(dir.snapshot.found)

(* workspace::lock.  A second one is refused, not waited for. *)
LockFree == lock = None

At(p, at) == proc[p].at = at
Goto(p, at) == proc' = [proc EXCEPT ![p].at = at]
Becomes(p, s) == proc' = [proc EXCEPT ![p] = s]

Quits(p) == Becomes(p, Idle)
Unlocks(p) == lock' = IF lock = p THEN None ELSE lock
KeepsLock == UNCHANGED <<lock, pool>>

(* The operator starts a command. *)
Starts(p, cmd) ==
    /\ At(p, "idle") /\ cmd \in Runs[p]
    /\ used.runs < MaxRuns /\ used' = [used EXCEPT !.runs = @ + 1]

-----------------------------------------------------------------------------
(* git prepare, and the first half of git publish. *)

Prepares == {"prepare", "publish"}

(* lock, ensure_unpublished. *)
StartPrepare(p, cmd, scan) ==
    /\ Starts(p, cmd) /\ cmd \in Prepares /\ LockFree /\ Unpublished
    /\ lock' = p
    /\ Becomes(p, [Idle EXCEPT !.at = "snapshot", !.cmd = cmd, !.scan = scan])
    /\ UNCHANGED <<head, coin, sent, dir, pool>>

(* workspace::snapshot: reuse what is there, or freeze HEAD in a staging    *)
(* directory (snapshot::freeze, validate) and scan it when asked to.        *)
Snapshot(p) ==
    /\ At(p, "snapshot") /\ Unpublished /\ (Exists => Owned)
    /\ Reusable(proc[p].scan) \/ Freezable(head)
    /\ IF Reusable(proc[p].scan) THEN Goto(p, "found") /\ UNCHANGED pool
       ELSE LET frozen == [head |-> head, scan |-> proc[p].scan, found |-> <<>>]
            IN  /\ Becomes(p, [proc[p] EXCEPT !.staged.snapshot = frozen,
                                              !.at = IF frozen.scan THEN "scanning" ELSE "swap"])
                /\ IF frozen.scan THEN PoolStarts(head) ELSE UNCHANGED pool
    /\ UNCHANGED <<world, dir, lock>>

(* Each of these steps ends the command when the directory is not its own   *)
(* to replace; so does a HEAD that cannot be frozen, and a preflight that   *)
(* the node's policy rejects.                                               *)
Refuse(p) ==
    /\ \/ proc[p].at \in {"snapshot", "swap", "swap plan"} /\ ~(Unpublished /\ (Exists => Owned))
       \/ At(p, "snapshot") /\ ~Reusable(proc[p].scan) /\ ~Freezable(head)
       \/ At(p, "sign") /\ ~Unpublished
       \/ At(p, "preflight") /\ \E k \in dir.plan.coins : coin[k] # "unspent"
    /\ Quits(p) /\ Unlocks(p)
    /\ UNCHANGED <<world, dir, pool>>

(* Which commit the threads of process p read. *)
Scanned(p) == IF At(p, "scanning") THEN proc[p].staged.snapshot.head ELSE dir.snapshot.head
Scanning(p) == proc[p].at \in {"scanning", "rescanning"}

PoolStep(p) ==
    /\ Scanning(p)
    /\ WorkerStep(Scanned(p))
    /\ UNCHANGED <<world, dir, lock, proc>>

(* review::scan ends: prepare_named stores the report, or returns the error. *)
ScanEnds(p) ==
    /\ At(p, "scanning") /\ Drained
    /\ IF Complete(Scanned(p))
       THEN /\ Becomes(p, [proc[p] EXCEPT !.at = "swap",
                                          !.staged.snapshot.found = Report(Scanned(p))])
            /\ UNCHANGED lock
       ELSE Quits(p) /\ Unlocks(p)
    /\ PoolEnds
    /\ UNCHANGED <<world, dir>>

(* replace: the directory is exchanged for the staged one. *)
SwapSnapshot(p) ==
    /\ At(p, "swap") /\ Unpublished /\ (Exists => Owned)
    /\ dir' = Fresh(proc[p].staged.snapshot, NoPlan)
    /\ Goto(p, "found")
    /\ KeepsLock /\ UNCHANGED world

(* git publish refuses findings here; funding_cli::check wants the quote    *)
(* covered by the wallet's balance.                                         *)
CheckFunds(p) ==
    /\ At(p, "found")
    /\ IF /\ proc[p].cmd = "publish" => dir.snapshot.found = <<>>
          /\ Covers(WalletView, Funding(Size[dir.snapshot.head]))
       THEN Goto(p, "sign") /\ UNCHANGED lock
       ELSE Quits(p) /\ Unlocks(p)
    /\ UNCHANGED <<world, dir, pool>>

(* funding_unspent *)
FundingUnspent(plan) == plan.coins \subseteq ToSet(WalletView)

(* The plan that sign_snapshot signs and GitPlan::freeze stores. *)
Signed(coins) == [snapshot |-> dir.snapshot, coins |-> ToSet(coins)]

(* workspace::copy_snapshot: the files that go into the new directory, and  *)
(* no review.                                                               *)
Copied(plan) == Fresh(dir.snapshot, plan)

(* prepare_snapshot: reuse the signed plan, or sign a new one in staging.   *)
Sign(p) ==
    /\ At(p, "sign") /\ Unpublished
    /\ IF Loads /\ FundingUnspent(dir.plan) THEN Goto(p, "preflight") /\ UNCHANGED lock
       ELSE IF CanSign(dir.snapshot.head)
       THEN /\ Becomes(p, [proc[p] EXCEPT
                  !.at = "swap plan", !.staged = Signed(Selected(dir.snapshot.head))])
            /\ UNCHANGED lock
       ELSE Quits(p) /\ Unlocks(p)
    /\ UNCHANGED <<world, dir, pool>>

SwapPlan(p) ==
    /\ At(p, "swap plan") /\ Unpublished /\ Owned
    /\ dir' = Copied(proc[p].staged)
    /\ Goto(p, "preflight")
    /\ KeepsLock /\ UNCHANGED world

(* funding_cli::preflight: testmempoolaccept of the first commit, which     *)
(* a public endpoint may not offer.  Then the lock is dropped.              *)
Ready(p, tested) ==
    /\ At(p, "preflight")
    /\ tested => \A k \in dir.plan.coins : coin[k] = "unspent"
    /\ Unlocks(p)
    /\ IF proc[p].cmd = "prepare" THEN Quits(p)
       ELSE Becomes(p, [Idle EXCEPT !.at = "describe", !.cmd = "publish",
                                    !.plan = dir.plan, !.clean = TRUE])
    /\ UNCHANGED <<world, dir, pool>>

-----------------------------------------------------------------------------
(* git publish, publish --plan and resume up to the approval, without lock. *)

(* inspect_plan: the plan, and then snapshot.json, which by then may be of  *)
(* another plan.                                                            *)
Inspect(p, cmd) ==
    /\ Starts(p, cmd) /\ cmd \in {"publish plan", "resume"} /\ Loads
    /\ Becomes(p, [Idle EXCEPT !.at = "report", !.cmd = cmd, !.plan = dir.plan])
    /\ KeepsLock /\ UNCHANGED <<head, coin, sent, dir>>

ReadReport(p) ==
    /\ At(p, "report")
    /\ Becomes(p, [proc[p] EXCEPT !.clean = dir.snapshot.found = <<>>,
                                  !.at = IF proc[p].cmd = "resume" THEN "approve" ELSE "describe"])
    /\ KeepsLock /\ UNCHANGED <<world, dir>>

(* describe, and the look at review.json. *)
Describe(p) ==
    /\ At(p, "describe")
    /\ LET exists == dir.review.state # "none"
       IN  IF Loads /\ IF exists THEN Reviewed(proc[p].plan) ELSE proc[p].clean
           THEN Becomes(p, [proc[p] EXCEPT !.at = "approve", !.reviewed = exists])
           ELSE Quits(p)
    /\ KeepsLock /\ UNCHANGED <<world, dir>>

(* approve_publication: the operator sees the identifier of proc[p].plan.   *)
Approve(p) ==
    /\ At(p, "approve")
    /\ IF proc[p].cmd = "resume" \/ proc[p].reviewed THEN Goto(p, "publish") ELSE Goto(p, "review")
    /\ KeepsLock /\ UNCHANGED <<world, dir>>

-----------------------------------------------------------------------------
(* record_review: git review, and git publish for a plan without findings.  *)

AskReview(p, classes) ==
    /\ Starts(p, "review") /\ Loads
    /\ Becomes(p, [Idle EXCEPT !.at = "review", !.cmd = "review", !.classes = classes])
    /\ KeepsLock /\ UNCHANGED <<head, coin, sent, dir>>

(* The lock, the plan, and the snapshot validated and scanned once more.    *)
BeginReview(p) ==
    /\ At(p, "review")
    /\ IF LockFree /\ Loads
       THEN /\ lock' = p
            /\ Goto(p, IF dir.snapshot.scan THEN "rescanning" ELSE "record")
            /\ IF dir.snapshot.scan THEN PoolStarts(dir.snapshot.head) ELSE UNCHANGED pool
       ELSE Quits(p) /\ UNCHANGED <<lock, pool>>
    /\ UNCHANGED <<world, dir>>

(* The new report must be the recorded one, byte for byte. *)
RescanEnds(p) ==
    /\ At(p, "rescanning") /\ Drained
    /\ IF Complete(Scanned(p)) /\ Report(Scanned(p)) = dir.snapshot.found
       THEN Goto(p, "record") /\ UNCHANGED lock
       ELSE Quits(p) /\ Unlocks(p)
    /\ PoolEnds
    /\ UNCHANGED <<world, dir>>

(* review::record: all findings classified, and review.json is new. *)
Accepts(p) == proc[p].classes = ToSet(dir.snapshot.found)

Record(p) ==
    /\ At(p, "record")
    /\ IF Accepts(p) /\ dir.review.state = "none"
       THEN Goto(p, "write") /\ dir' = [dir EXCEPT !.review.state = "torn"] /\ UNCHANGED lock
       ELSE Quits(p) /\ Unlocks(p) /\ UNCHANGED dir
    /\ UNCHANGED <<world, pool>>

WriteReview(p) ==
    /\ At(p, "write")
    /\ dir' = [dir EXCEPT !.review = [state |-> "kept", plan |-> dir.plan, classes |-> proc[p].classes]]
    /\ Unlocks(p)
    /\ IF proc[p].cmd = "review" THEN Quits(p) ELSE Goto(p, "publish")
    /\ UNCHANGED <<world, pool>>

-----------------------------------------------------------------------------
(* follow and publish_progress: one pass under the lock, again and again.   *)

(* The plan in the directory is the approved one, and it is reviewed. *)
AnyPlan(p) == proc[p].plan # NoPlan
Approved(p) == proc[p].plan = dir.plan

BeginPass(p) ==
    /\ At(p, "publish")
    /\ IF LockFree /\ Loads /\ Approved(p) /\ Reviewed(dir.plan)
       THEN lock' = p /\ Goto(p, "attempt")
       ELSE Quits(p) /\ UNCHANGED lock
    /\ UNCHANGED <<world, dir, pool>>

OnChain == \E s \in sent : s.plan = dir.plan /\ \A k \in s.plan.coins : coin[k] = "spent"
InMempool == \E s \in sent : s.plan = dir.plan /\ \A k \in s.plan.coins : coin[k] = "pending"

(* remember() creates the observations log before the first submission.     *)
Attempt(p) ==
    /\ At(p, "attempt")
    /\ dir' = [dir EXCEPT !.log = TRUE]
    /\ Goto(p, IF OnChain \/ InMempool THEN "store" ELSE "send")
    /\ KeepsLock /\ UNCHANGED world

(* broadcast: the network takes it while the coins are there, or refuses.   *)
Send(p) ==
    /\ At(p, "send")
    /\ IF \A k \in dir.plan.coins : coin[k] = "unspent"
       THEN /\ coin' = [k \in DOMAIN coin |-> IF k \in dir.plan.coins THEN "pending" ELSE coin[k]]
            /\ sent' = sent \cup {[plan |-> dir.plan, approved |-> proc[p].plan]}
            /\ Goto(p, "store")
       ELSE Goto(p, "stop") /\ UNCHANGED <<coin, sent>>
    /\ KeepsLock /\ UNCHANGED <<head, used, dir>>

(* The source gives no answer before anything is submitted. *)
Unavailable(p) ==
    /\ At(p, "attempt")
    /\ Goto(p, "stop")
    /\ KeepsLock /\ UNCHANGED <<world, dir>>

(* store and the end of the pass; follow goes on unless the target is       *)
(* reached or the report says stop.                                         *)
Store(p) ==
    /\ proc[p].at \in {"store", "stop"}
    /\ dir' = [dir EXCEPT !.journal = TRUE]
    /\ Unlocks(p)
    /\ IF At(p, "stop") \/ OnChain THEN Quits(p) ELSE Goto(p, "publish")
    /\ UNCHANGED <<world, pool>>

-----------------------------------------------------------------------------
(* Failures, and the world. *)

(* An error at any call, a declined approval or Ctrl-C: temporary           *)
(* directories go, what was stored stays.                                   *)
Fail(p) ==
    /\ ~At(p, "idle")
    /\ Quits(p) /\ Unlocks(p)
    /\ IF Scanning(p) THEN PoolEnds ELSE UNCHANGED pool
    /\ UNCHANGED <<world, dir>>

(* A killed review leaves its scratch directory behind. *)
Kill(p) ==
    /\ proc[p].at \in {"rescanning", "record", "write"}
    /\ dir' = [dir EXCEPT !.litter = TRUE]
    /\ Quits(p) /\ Unlocks(p)
    /\ IF Scanning(p) THEN PoolEnds ELSE UNCHANGED pool
    /\ UNCHANGED world

Commit(c) ==
    /\ c # head
    /\ used.commits < MaxCommits /\ used' = [used EXCEPT !.commits = @ + 1]
    /\ head' = c
    /\ UNCHANGED <<coin, dir, lock, proc, sent, pool>>

SpendElsewhere(k) ==
    /\ coin[k] = "unspent"
    /\ coin' = [coin EXCEPT ![k] = "spent"]
    /\ UNCHANGED <<head, used, dir, lock, proc, sent, pool>>

Mine ==
    /\ \E k \in DOMAIN coin : coin[k] = "pending"
    /\ coin' = [k \in DOMAIN coin |-> IF coin[k] = "pending" THEN "spent" ELSE coin[k]]
    /\ UNCHANGED <<head, used, dir, lock, proc, sent, pool>>

-----------------------------------------------------------------------------
Init ==
    /\ head \in Heads
    /\ coin = [k \in ToSet(Coins) |-> "unspent"] /\ used = [runs |-> 0, commits |-> 0]
    /\ dir = Fresh(NoSnapshot, NoPlan)
    /\ lock = None
    /\ proc = [p \in Processes |-> Idle]
    /\ sent = {}
    /\ Quiet

Step(p) ==
    \/ Snapshot(p) \/ Refuse(p) \/ PoolStep(p) \/ ScanEnds(p) \/ SwapSnapshot(p) \/ CheckFunds(p)
    \/ Sign(p) \/ SwapPlan(p) \/ \E tested \in BOOLEAN : Ready(p, tested)
    \/ ReadReport(p) \/ Describe(p) \/ Approve(p)
    \/ BeginReview(p) \/ RescanEnds(p) \/ Record(p) \/ WriteReview(p)
    \/ BeginPass(p) \/ Attempt(p) \/ Unavailable(p) \/ Send(p) \/ Store(p)

Classifications == {ToSet(dir.snapshot.found), {}}

Start(p) ==
    \/ \E cmd \in Prepares, scan \in BOOLEAN : StartPrepare(p, cmd, scan)
    \/ \E cmd \in {"publish plan", "resume"} : Inspect(p, cmd)
    \/ \E classes \in Classifications : AskReview(p, classes)

(* The threads of a scan read a private copy of an immutable commit, and    *)
(* nobody else sees them, so that their steps commute with those of all     *)
(* others: nothing else needs to happen between two of them.                *)
Apart(p) == \A q \in Processes \ {p} : ~Scanning(q)

Next ==
    \/ \E p \in Processes : Apart(p) /\ (Start(p) \/ Step(p) \/ Fail(p) \/ Kill(p))
    \/ Apart(None) /\ \/ \E c \in Heads : Commit(c)
                      \/ \E k \in Contested : SpendElsewhere(k)
                      \/ Mine

Spec == Init /\ [][Next]_vars

(* A command goes on (its operator answers), and the network mines. *)
FairSpec ==
    /\ Spec
    /\ \A p \in Processes : WF_vars(Step(p))
    /\ WF_vars(Mine)
-----------------------------------------------------------------------------
(* Correctness. *)

(* A plan that was ever submitted stays in the directory, and the directory *)
(* knows that its publication has started, whoever prepares, reviews, also  *)
(* publishes it, fails or is killed afterwards: no command makes another    *)
(* plan, to be paid for again, in its place.  Of the log only its being     *)
(* there is said; whether its lines can be read is a matter of DiskPublish. *)
SentStays == \A s \in sent : dir.plan = s.plan /\ (dir.journal \/ dir.log)

(* What is submitted is what the operator who submitted it approved, and    *)
(* its receipt classifies each finding recorded with its snapshot (which    *)
(* ScanExact compares with the commit, and which are none when the snapshot *)
(* was made without a scan), although the approval was given without the    *)
(* lock.                                                                    *)
SentAsApproved ==
    \A s \in sent :
        /\ s.approved = s.plan
        /\ dir.review.state = "kept" /\ dir.review.plan = s.plan
        /\ dir.review.classes = ToSet(s.plan.snapshot.found)

(* Whatever the threads did, a stored scan is the scan of the whole commit, *)
(* in inventory order, so that record_review can compare it byte for byte;  *)
(* and it exists only if the findings stay within the limit.                *)
ScanExact ==
    Exists /\ dir.snapshot.scan =>
        /\ dir.snapshot.found = ScanOf(dir.snapshot.head)
        /\ Within(Len(dir.snapshot.found))

(* Every command ends: the scan's threads never wait for each other for     *)
(* good, follow reaches its target or stops for the operator, and once no   *)
(* command is started any more the directory comes to rest.                 *)
CommandsEnd == <>[](\A p \in Processes : At(p, "idle"))
=============================================================================
