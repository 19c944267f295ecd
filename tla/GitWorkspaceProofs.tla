------------------------- MODULE GitWorkspaceProofs -------------------------
(***************************************************************************)
(* A Git plan that was submitted stays in its directory, with the receipt  *)
(* of its review, and is the plan its operator approved; and the scan that *)
(* the directory keeps is the scan of the whole commit, whatever its       *)
(* threads did: for every number of processes and threads, every wallet    *)
(* and every repository.                                                   *)
(***************************************************************************)
EXTENDS GitWorkspace, SequenceTheorems, FiniteSetTheorems, WellFoundedInduction, TLAPS

(* The fields of a process and of the directory. *)
IsProc(r) ==
    r = [at |-> r.at, cmd |-> r.cmd, scan |-> r.scan, plan |-> r.plan, clean |-> r.clean,
         reviewed |-> r.reviewed, staged |-> r.staged, classes |-> r.classes]
IsReview(r) == r = [state |-> r.state, plan |-> r.plan, classes |-> r.classes]
IsDir(d) ==
    d = [snapshot |-> d.snapshot, plan |-> d.plan, review |-> d.review,
         journal |-> d.journal, log |-> d.log, litter |-> d.litter]

Shape ==
    /\ DOMAIN proc = Processes
    /\ \A p \in Processes : IsProc(proc[p])
    /\ IsDir(dir) /\ IsReview(dir.review)

(* Where a command holds the lock of the directory. *)
Locked == {"snapshot", "scanning", "swap", "found", "sign", "swap plan", "preflight",
           "rescanning", "record", "write", "attempt", "send", "store", "stop"}

(* The lock is held by the process that is at such a place, and by no other. *)
Exclusive == \A p \in Processes : proc[p].at \in Locked <=> lock = p

(* Between the check of the approval and the submission the directory keeps *)
(* the approved plan and its review; from the attempt on it has a log.      *)
Bound ==
    \A p \in Processes :
        /\ proc[p].at \in {"attempt", "send"} =>
             proc[p].plan = dir.plan /\ Loads /\ Reviewed(dir.plan)
        /\ proc[p].at = "send" => dir.log = TRUE
        /\ proc[p].at = "write" => dir.review.state = "torn"

IInv == Shape /\ Exclusive /\ Bound /\ SentStays /\ SentAsApproved

-----------------------------------------------------------------------------
(* Idle processes and fresh directories have the right fields. *)
LEMMA IdleShape == IsProc(Idle) /\ Idle.at = "idle"
  BY DEF IsProc, Idle

(* A directory as workspace::replace leaves it. *)
LEMMA FreshShape ==
  ASSUME NEW s, NEW t
  PROVE  /\ IsDir(Fresh(s, t)) /\ IsReview(Fresh(s, t).review)
         /\ Fresh(s, t).plan = t /\ Fresh(s, t).snapshot = s
  BY DEF IsDir, IsReview, Fresh, NoReview

(* At first nobody runs a command and nothing was submitted. *)
LEMMA InitInv == Init => IInv
<1> SUFFICES ASSUME Init PROVE IInv
  OBVIOUS
<1>1. Shape
  BY IdleShape, FreshShape DEF Init, Shape
<1>2. \A p \in Processes : proc[p].at = "idle" /\ lock # p
  BY IdleShape, WorkspaceAssumption DEF Init
<1>3. Exclusive /\ Bound
  BY <1>2 DEF Exclusive, Bound, Locked
<1>4. SentStays /\ SentAsApproved
  BY DEF Init, SentStays, SentAsApproved
<1> QED BY <1>1, <1>3, <1>4 DEF IInv

(* What Goto and Becomes do. *)
LEMMA GotoEffect ==
  ASSUME Shape, NEW p \in Processes, NEW at, Goto(p, at)
  PROVE  /\ DOMAIN proc' = Processes /\ \A q \in Processes : IsProc(proc'[q])
         /\ \A q \in Processes \ {p} : proc'[q] = proc[q]
         /\ proc'[p].at = at /\ proc'[p].plan = proc[p].plan
<1>1. /\ DOMAIN proc' = Processes /\ \A q \in Processes \ {p} : proc'[q] = proc[q]
      /\ proc'[p] = [proc[p] EXCEPT !.at = at]
  BY DEF Goto, Shape
<1>2. IsProc(proc[p])
  BY DEF Shape
<1>3. IsProc(proc'[p]) /\ proc'[p].at = at /\ proc'[p].plan = proc[p].plan
  BY <1>1, <1>2 DEF IsProc
<1> QED BY <1>1, <1>3 DEF Shape

(* The same for a process that becomes another record. *)
LEMMA BecomesEffect ==
  ASSUME Shape, NEW p \in Processes, NEW s, Becomes(p, s), IsProc(s)
  PROVE  /\ DOMAIN proc' = Processes /\ \A q \in Processes : IsProc(proc'[q])
         /\ \A q \in Processes \ {p} : proc'[q] = proc[q]
         /\ proc'[p] = s
  BY DEF Becomes, Shape

(* The other processes are where they were. *)
Alone(p) ==
    /\ DOMAIN proc' = Processes /\ \A q \in Processes : IsProc(proc'[q])
    /\ \A q \in Processes \ {p} : proc'[q] = proc[q]

(* The ways a step of p can treat the lock. *)
Holds(p) == proc[p].at \in Locked /\ proc'[p].at \in Locked /\ lock' = lock
Frees(p) == proc'[p].at \notin Locked /\ Unlocks(p)
Takes(p) == proc'[p].at \in Locked /\ LockFree /\ lock' = p
Ignores(p) == proc[p].at \notin Locked /\ proc'[p].at \notin Locked /\ lock' = lock

(* Each of them keeps the lock exclusive. *)
LEMMA LockStep ==
  ASSUME Exclusive, NEW p \in Processes, Alone(p), Holds(p) \/ Frees(p) \/ Takes(p) \/ Ignores(p)
  PROVE  Exclusive'
<1> SUFFICES ASSUME NEW q \in Processes PROVE proc'[q].at \in Locked <=> lock' = q
  BY DEF Exclusive, Locked
<1>1. None \notin Processes
  BY WorkspaceAssumption
<1>2. proc[q].at \in Locked <=> lock = q
  BY DEF Exclusive
<1>3. proc[p].at \in Locked <=> lock = p
  BY DEF Exclusive
<1>4. CASE q = p
  BY <1>1, <1>3, <1>4 DEF Holds, Frees, Takes, Ignores, Unlocks, LockFree
<1>5. CASE q # p
  BY <1>1, <1>2, <1>3, <1>5 DEF Alone, Holds, Frees, Takes, Ignores, Unlocks, LockFree
<1> QED BY <1>4, <1>5

(* A step that leaves the directory alone and ends at none of the places    *)
(* that rely on it.                                                         *)
LEMMA DirKept ==
  ASSUME IInv, NEW p \in Processes, Alone(p), UNCHANGED <<dir, sent>>,
         Holds(p) \/ Frees(p) \/ Takes(p) \/ Ignores(p),
         proc'[p].at \notin {"attempt", "send", "write"}
  PROVE  IInv'
<1>1. Exclusive'
  BY LockStep DEF IInv
<1>2. Shape'
  BY DEF IInv, Shape, Alone
<1>3. Bound'
  <2> SUFFICES ASSUME NEW q \in Processes
               PROVE  /\ proc'[q].at \in {"attempt", "send"} =>
                            proc'[q].plan = dir'.plan /\ Loads' /\ Reviewed(dir.plan)'
                      /\ proc'[q].at = "send" => dir'.log = TRUE
                      /\ proc'[q].at = "write" => dir'.review.state = "torn"
    BY DEF Bound
  <2>1. (Loads <=> Loads') /\ (Reviewed(dir.plan) <=> Reviewed(dir.plan)')
    BY DEF Loads, Reviewed
  <2>2. CASE q = p BY <2>2
  <2>3. CASE q # p BY <2>1, <2>3 DEF Alone, IInv, Bound
  <2> QED BY <2>2, <2>3
<1>4. SentStays' /\ SentAsApproved'
  BY DEF IInv, SentStays, SentAsApproved
<1> QED BY <1>1, <1>2, <1>3, <1>4 DEF IInv

(* A step of the holder that changes the directory or submits: nobody else  *)
(* is at a place that relies on the directory.                              *)
LEMMA DirChanged ==
  ASSUME IInv, NEW p \in Processes, Alone(p), proc[p].at \in Locked,
         Holds(p) \/ Frees(p), IsDir(dir'), IsReview(dir'.review),
         proc'[p].at \in {"attempt", "send"} =>
           proc'[p].plan = dir'.plan /\ Loads' /\ Reviewed(dir.plan)',
         proc'[p].at = "send" => dir'.log = TRUE,
         proc'[p].at = "write" => dir'.review.state = "torn",
         SentStays', SentAsApproved'
  PROVE  IInv'
<1>1. Exclusive'
  BY LockStep DEF IInv
<1>2. Shape'
  BY DEF Shape, Alone
<1>3. ASSUME NEW q \in Processes \ {p} PROVE proc'[q].at \notin Locked
  BY <1>3 DEF IInv, Exclusive, Alone
<1>4. Bound'
  <2> SUFFICES ASSUME NEW q \in Processes
               PROVE  /\ proc'[q].at \in {"attempt", "send"} =>
                            proc'[q].plan = dir'.plan /\ Loads' /\ Reviewed(dir.plan)'
                      /\ proc'[q].at = "send" => dir'.log = TRUE
                      /\ proc'[q].at = "write" => dir'.review.state = "torn"
    BY DEF Bound
  <2>1. CASE q = p BY <2>1
  <2>2. CASE q # p BY <1>3, <2>2 DEF Locked
  <2> QED BY <2>1, <2>2
<1> QED BY <1>1, <1>2, <1>4 DEF IInv

(* Goto and Becomes move one process only. *)
LEMMA GotoAlone ==
  ASSUME IInv, NEW p \in Processes, NEW at, Goto(p, at)
  PROVE  Alone(p) /\ proc'[p].at = at /\ proc'[p].plan = proc[p].plan
  BY GotoEffect DEF IInv, Alone

(* So does the end of a command, *)
LEMMA QuitsAlone ==
  ASSUME IInv, NEW p \in Processes, Quits(p)
  PROVE  Alone(p) /\ proc'[p].at = "idle"
  BY BecomesEffect, IdleShape DEF IInv, Alone, Quits

(* and any other change of one process. *)
LEMMA BecomesAlone ==
  ASSUME IInv, NEW p \in Processes, NEW s, Becomes(p, s), IsProc(s)
  PROVE  Alone(p) /\ proc'[p] = s
  BY BecomesEffect DEF IInv, Alone

(* A command that ends without touching the directory. *)
LEMMA QuitsInv ==
  ASSUME IInv, NEW p \in Processes, Quits(p), UNCHANGED <<dir, sent>>,
         Unlocks(p) \/ (proc[p].at \notin Locked /\ lock' = lock)
  PROVE  IInv'
<1>1. Alone(p) /\ proc'[p].at = "idle"
  BY QuitsAlone
<1>2. Frees(p) \/ Ignores(p)
  BY <1>1 DEF Frees, Ignores, Locked
<1> QED BY <1>1, <1>2, DirKept

(* A command that goes on without touching the directory. *)
LEMMA GotoInv ==
  ASSUME IInv, NEW p \in Processes, NEW at, Goto(p, at), UNCHANGED <<dir, sent>>,
         at \notin {"attempt", "send", "write"},
         \/ proc[p].at \in Locked /\ at \in Locked /\ lock' = lock
         \/ at \in Locked /\ LockFree /\ lock' = p
         \/ proc[p].at \notin Locked /\ at \notin Locked /\ lock' = lock
  PROVE  IInv'
<1>1. Alone(p) /\ proc'[p].at = at
  BY GotoAlone
<1>2. Holds(p) \/ Takes(p) \/ Ignores(p)
  BY <1>1 DEF Holds, Takes, Ignores
<1> QED BY <1>1, <1>2, DirKept

(* The same for a step that changes more of the process. *)
LEMMA BecomesInv ==
  ASSUME IInv, NEW p \in Processes, NEW s, IsProc(s), Becomes(p, s), UNCHANGED <<dir, sent>>,
         s.at \notin {"attempt", "send", "write"},
         \/ proc[p].at \in Locked /\ s.at \in Locked /\ lock' = lock
         \/ s.at \in Locked /\ LockFree /\ lock' = p
         \/ proc[p].at \notin Locked /\ s.at \notin Locked /\ lock' = lock
         \/ s.at \notin Locked /\ Unlocks(p)
  PROVE  IInv'
<1>1. Alone(p) /\ proc'[p] = s
  BY BecomesAlone
<1>2. Holds(p) \/ Takes(p) \/ Ignores(p) \/ Frees(p)
  BY <1>1 DEF Holds, Takes, Ignores, Frees
<1> QED BY <1>1, <1>2, DirKept

-----------------------------------------------------------------------------
(* The commands: prepare, up to the exchange of the directory. *)

(* They stage, they do not touch the directory. *)
LEMMA PrepareInv ==
  ASSUME IInv, NEW p \in Processes,
         \/ \E cmd \in Prepares, scan \in BOOLEAN : StartPrepare(p, cmd, scan)
         \/ Snapshot(p) \/ Refuse(p) \/ ScanEnds(p) \/ CheckFunds(p) \/ Sign(p)
         \/ \E tested \in BOOLEAN : Ready(p, tested)
  PROVE  IInv'
<1>1. UNCHANGED <<dir, sent>>
  BY DEF StartPrepare, Snapshot, Refuse, ScanEnds, CheckFunds, Sign, Ready, world
<1>2. IsProc(proc[p])
  BY DEF IInv, Shape
<1>3. ASSUME NEW cmd, NEW scan, StartPrepare(p, cmd, scan) PROVE IInv'
  <2>1. PICK s : s = [Idle EXCEPT !.at = "snapshot", !.cmd = cmd, !.scan = scan]
    OBVIOUS
  <2>2. IsProc(s) /\ s.at = "snapshot"
    BY <2>1 DEF IsProc, Idle
  <2>3. Becomes(p, s) /\ LockFree /\ lock' = p
    BY <1>3, <2>1 DEF StartPrepare
  <2> QED BY <1>1, <2>2, <2>3, BecomesInv DEF Locked
<1>4. CASE Snapshot(p)
  <2>1. proc[p].at = "snapshot" /\ lock' = lock
    BY <1>4 DEF Snapshot, At
  <2>2. CASE Reusable(proc[p].scan)
    <3>1. Goto(p, "found")
      BY <1>4, <2>2 DEF Snapshot
    <3> QED BY <1>1, <2>1, <3>1, GotoInv DEF Locked
  <2>3. CASE ~Reusable(proc[p].scan)
    <3> DEFINE f == [head |-> head, scan |-> proc[p].scan, found |-> <<>>]
    <3>1. PICK at : at = IF f.scan THEN "scanning" ELSE "swap"
      OBVIOUS
    <3>2. PICK s : s = [proc[p] EXCEPT !.staged.snapshot = f, !.at = at]
      OBVIOUS
    <3>3. Becomes(p, s)
      BY <1>4, <2>3, <3>2, <3>1 DEF Snapshot
    <3>4. at \in {"scanning", "swap"}
      BY <3>1
    <3> HIDE DEF f
    <3>5. IsProc(s) /\ s.at = at
      BY <1>2, <3>2 DEF IsProc
    <3> QED BY <1>1, <2>1, <3>5, <3>3, <3>4, BecomesInv DEF Locked
  <2> QED BY <2>2, <2>3
<1>5. CASE Refuse(p)
  BY <1>1, <1>5, QuitsInv DEF Refuse
<1>6. CASE ScanEnds(p)
  <2>1. proc[p].at = "scanning"
    BY <1>6 DEF ScanEnds, At
  <2>2. CASE Quits(p) /\ Unlocks(p)
    BY <1>1, <2>2, QuitsInv
  <2>3. CASE ~(Quits(p) /\ Unlocks(p))
    <3>1. PICK f : Becomes(p, [proc[p] EXCEPT !.at = "swap", !.staged.snapshot.found = f])
      BY <1>6, <2>3 DEF ScanEnds
    <3>2. lock' = lock
      BY <1>6, <2>3 DEF ScanEnds
    <3>3. PICK s : s = [proc[p] EXCEPT !.at = "swap", !.staged.snapshot.found = f]
      OBVIOUS
    <3>4. IsProc(s) /\ s.at = "swap"
      BY <1>2, <3>3 DEF IsProc
    <3>5. Becomes(p, s)
      BY <3>3, <3>1
    <3> QED BY <1>1, <2>1, <3>2, <3>4, <3>5, BecomesInv DEF Locked
  <2> QED BY <2>2, <2>3
<1>7. CASE CheckFunds(p)
  <2>1. proc[p].at = "found"
    BY <1>7 DEF CheckFunds, At
  <2>2. (Goto(p, "sign") /\ lock' = lock) \/ (Quits(p) /\ Unlocks(p))
    BY <1>7 DEF CheckFunds
  <2> QED BY <1>1, <2>1, <2>2, GotoInv, QuitsInv DEF Locked
<1>8. CASE Sign(p)
  <2>1. proc[p].at = "sign"
    BY <1>8 DEF Sign, At
  <2>2. CASE (Goto(p, "preflight") /\ lock' = lock) \/ (Quits(p) /\ Unlocks(p))
    BY <1>1, <2>1, <2>2, GotoInv, QuitsInv DEF Locked
  <2>3. CASE ~((Goto(p, "preflight") /\ lock' = lock) \/ (Quits(p) /\ Unlocks(p)))
    <3>1. PICK t : /\ Becomes(p, [proc[p] EXCEPT !.at = "swap plan", !.staged = t])
                   /\ lock' = lock
      BY <1>8, <2>3 DEF Sign
    <3>2. PICK s : s = [proc[p] EXCEPT !.at = "swap plan", !.staged = t]
      OBVIOUS
    <3>3. IsProc(s) /\ s.at = "swap plan"
      BY <1>2, <3>2 DEF IsProc
    <3>4. Becomes(p, s) /\ lock' = lock
      BY <3>2, <3>1
    <3> QED BY <1>1, <2>1, <3>3, <3>4, BecomesInv DEF Locked
  <2> QED BY <2>2, <2>3
<1>9. ASSUME NEW tested, Ready(p, tested) PROVE IInv'
  <2>1. Unlocks(p)
    BY <1>9 DEF Ready
  <2>2. PICK s : s = [Idle EXCEPT !.at = "describe", !.cmd = "publish", !.plan = dir.plan, !.clean = TRUE]
    OBVIOUS
  <2>3. IsProc(s) /\ s.at = "describe"
    BY <2>2 DEF IsProc, Idle
  <2>4. Quits(p) \/ Becomes(p, s)
    BY <1>9, <2>2 DEF Ready
  <2> QED BY <1>1, <2>1, <2>3, <2>4, QuitsInv, BecomesInv DEF Locked
<1> QED BY <1>3, <1>4, <1>5, <1>6, <1>7, <1>8, <1>9

(* Inspection and approval, without the lock, and the review up to its receipt. *)
LEMMA ReviewInv ==
  ASSUME IInv, NEW p \in Processes,
         \/ \E cmd \in {"publish plan", "resume"} : Inspect(p, cmd)
         \/ ReadReport(p) \/ Describe(p) \/ Approve(p)
         \/ \E classes \in Classifications : AskReview(p, classes)
         \/ BeginReview(p) \/ RescanEnds(p)
  PROVE  IInv'
<1>1. UNCHANGED <<dir, sent>>
  BY DEF Inspect, ReadReport, Describe, Approve, AskReview, BeginReview, RescanEnds, world
<1>2. IsProc(proc[p])
  BY DEF IInv, Shape
<1>3. ASSUME NEW cmd, Inspect(p, cmd) PROVE IInv'
  <2>1. PICK s : s = [Idle EXCEPT !.at = "report", !.cmd = cmd, !.plan = dir.plan]
    OBVIOUS
  <2>2. IsProc(s) /\ s.at = "report"
    BY <2>1 DEF IsProc, Idle
  <2>3. Becomes(p, s) /\ lock' = lock /\ proc[p].at = "idle"
    BY <1>3, <2>1 DEF Inspect, KeepsLock, Starts, At
  <2> QED BY <1>1, <2>2, <2>3, BecomesInv DEF Locked
<1>4. CASE ReadReport(p)
  <2> DEFINE clean == dir.snapshot.found = <<>>
  <2>1. PICK at : at = IF proc[p].cmd = "resume" THEN "approve" ELSE "describe"
    OBVIOUS
  <2>2. PICK s : s = [proc[p] EXCEPT !.clean = clean, !.at = at]
    OBVIOUS
  <2>3. IsProc(s) /\ s.at = at
    BY <1>2, <2>2 DEF IsProc
  <2>4. Becomes(p, s) /\ lock' = lock /\ proc[p].at = "report"
    BY <1>4, <2>2, <2>1 DEF ReadReport, KeepsLock, At
  <2>5. at \in {"approve", "describe"}
    BY <2>1
  <2> QED BY <1>1, <2>3, <2>4, <2>5, BecomesInv DEF Locked
<1>5. CASE Describe(p)
  <2>1. lock' = lock /\ proc[p].at = "describe"
    BY <1>5 DEF Describe, KeepsLock, At
  <2>2. CASE Quits(p)
    BY <1>1, <2>1, <2>2, QuitsInv DEF Locked
  <2>3. CASE ~Quits(p)
    <3>1. PICK r : Becomes(p, [proc[p] EXCEPT !.at = "approve", !.reviewed = r])
      BY <1>5, <2>3 DEF Describe
    <3>2. PICK s : s = [proc[p] EXCEPT !.at = "approve", !.reviewed = r]
      OBVIOUS
    <3>3. IsProc(s) /\ s.at = "approve"
      BY <1>2, <3>2 DEF IsProc
    <3>4. Becomes(p, s)
      BY <3>2, <3>1
    <3> QED BY <1>1, <2>1, <3>3, <3>4, BecomesInv DEF Locked
  <2> QED BY <2>2, <2>3
<1>6. CASE Approve(p)
  <2>1. lock' = lock /\ proc[p].at = "approve" /\ (Goto(p, "publish") \/ Goto(p, "review"))
    BY <1>6 DEF Approve, KeepsLock, At
  <2> QED BY <1>1, <2>1, GotoInv DEF Locked
<1>7. ASSUME NEW classes, AskReview(p, classes) PROVE IInv'
  <2>1. PICK s : s = [Idle EXCEPT !.at = "review", !.cmd = "review", !.classes = classes]
    OBVIOUS
  <2>2. IsProc(s) /\ s.at = "review"
    BY <2>1 DEF IsProc, Idle
  <2>3. Becomes(p, s) /\ lock' = lock /\ proc[p].at = "idle"
    BY <1>7, <2>1 DEF AskReview, KeepsLock, Starts, At
  <2> QED BY <1>1, <2>2, <2>3, BecomesInv DEF Locked
<1>8. CASE BeginReview(p)
  <2>1. proc[p].at = "review"
    BY <1>8 DEF BeginReview, At
  <2>2. \/ Quits(p) /\ lock' = lock
        \/ LockFree /\ lock' = p /\ (Goto(p, "rescanning") \/ Goto(p, "record"))
    BY <1>8 DEF BeginReview
  <2> QED BY <1>1, <2>1, <2>2, QuitsInv, GotoInv DEF Locked
<1>9. CASE RescanEnds(p)
  <2>1. proc[p].at = "rescanning"
    BY <1>9 DEF RescanEnds, At
  <2>2. (Goto(p, "record") /\ lock' = lock) \/ (Quits(p) /\ Unlocks(p))
    BY <1>9 DEF RescanEnds
  <2> QED BY <1>1, <2>1, <2>2, QuitsInv, GotoInv DEF Locked
<1> QED BY <1>3, <1>4, <1>5, <1>6, <1>7, <1>8, <1>9

-----------------------------------------------------------------------------
(* The steps that change the directory. *)

(* A directory without journal and log, or without a receipt, was never     *)
(* published from.                                                          *)
LEMMA NothingSent ==
  ASSUME IInv, Unpublished \/ dir.review.state # "kept"
  PROVE  sent = {}
  BY DEF IInv, SentStays, SentAsApproved, Unpublished

(* The exchange comes after ensure_unpublished. *)
LEMMA SwapInv ==
  ASSUME IInv, NEW p \in Processes, SwapSnapshot(p) \/ SwapPlan(p)
  PROVE  IInv'
<1>1. /\ proc[p].at \in Locked /\ lock' = lock /\ sent' = sent /\ Unpublished
      /\ Goto(p, "found") \/ Goto(p, "preflight")
  BY DEF SwapSnapshot, SwapPlan, KeepsLock, At, Locked, world
<1>2. PICK u, t : dir' = Fresh(u, t)
  BY DEF SwapSnapshot, SwapPlan, Copied
<1>3. Alone(p) /\ proc'[p].at \in {"found", "preflight"}
  BY <1>1, GotoAlone
<1>4. Holds(p)
  BY <1>1, <1>3 DEF Holds, Locked
<1>5. IsDir(dir') /\ IsReview(dir'.review)
  BY <1>2, FreshShape
<1>6. sent' = {}
  BY <1>1, NothingSent
<1>7. SentStays' /\ SentAsApproved'
  BY <1>6 DEF SentStays, SentAsApproved
<1> QED BY <1>1, <1>3, <1>4, <1>5, <1>7, DirChanged

(* A receipt is created only where there is none. *)
LEMMA RecordInv ==
  ASSUME IInv, NEW p \in Processes, Record(p)
  PROVE  IInv'
<1>1. proc[p].at = "record" /\ sent' = sent
  BY DEF Record, At, world
<1>2. CASE ~(Accepts(p) /\ dir.review.state = "none")
  BY <1>1, <1>2, QuitsInv DEF Record
<1>3. CASE Accepts(p) /\ dir.review.state = "none"
  <2>1. /\ Goto(p, "write") /\ lock' = lock
        /\ dir' = [dir EXCEPT !.review.state = "torn"]
    BY <1>3 DEF Record
  <2>2. IsDir(dir) /\ IsReview(dir.review)
    BY DEF IInv, Shape
  <2>3. IsDir(dir') /\ dir'.review = [dir.review EXCEPT !.state = "torn"]
    BY <2>1, <2>2 DEF IsDir
  <2>4. IsReview(dir'.review) /\ dir'.review.state = "torn"
    BY <2>2, <2>3 DEF IsReview
  <2>5. Alone(p) /\ proc'[p].at = "write"
    BY <2>1, GotoAlone
  <2>6. Holds(p) /\ proc[p].at \in Locked
    BY <1>1, <2>1, <2>5 DEF Holds, Locked
  <2>7. sent' = {}
    BY <1>1, <1>3, NothingSent
  <2>8. SentStays' /\ SentAsApproved'
    BY <2>7 DEF SentStays, SentAsApproved
  <2> QED BY <2>3, <2>4, <2>5, <2>6, <2>8, DirChanged
<1> QED BY <1>2, <1>3

(* Writing it ends the review; nothing was submitted without a receipt. *)
LEMMA WriteInv ==
  ASSUME IInv, NEW p \in Processes, WriteReview(p)
  PROVE  IInv'
<1>1. /\ proc[p].at = "write" /\ sent' = sent /\ Unlocks(p)
      /\ Quits(p) \/ Goto(p, "publish")
      /\ dir' = [dir EXCEPT !.review = [state |-> "kept", plan |-> dir.plan, classes |-> proc[p].classes]]
  BY DEF WriteReview, At, world
<1>2. sent' = {}
  <2>1. dir.review.state = "torn"
    BY <1>1 DEF IInv, Bound
  <2> QED BY <1>1, <2>1, NothingSent
<1>3. SentStays' /\ SentAsApproved'
  BY <1>2 DEF SentStays, SentAsApproved
<1>4. IsDir(dir)
  BY DEF IInv, Shape
<1>5. IsDir(dir') /\ dir'.review = [state |-> "kept", plan |-> dir.plan, classes |-> proc[p].classes]
  BY <1>1, <1>4 DEF IsDir
<1>6. IsReview(dir'.review)
  BY <1>5 DEF IsReview
<1>7. Alone(p) /\ proc'[p].at \in {"idle", "publish"}
  BY <1>1, GotoAlone, QuitsAlone
<1>8. Frees(p) /\ proc[p].at \in Locked
  BY <1>1, <1>7 DEF Frees, Locked
<1> QED BY <1>3, <1>5, <1>6, <1>7, <1>8, DirChanged

(* A pass begins when the approved plan is there, reviewed, and leaves the  *)
(* directory as it is.                                                      *)
LEMMA BeginPassInv ==
  ASSUME IInv, NEW p \in Processes, BeginPass(p)
  PROVE  IInv'
<1>1. proc[p].at = "publish" /\ UNCHANGED <<dir, sent>>
  BY DEF BeginPass, At, world
<1>2. CASE ~(LockFree /\ Loads /\ Approved(p) /\ Reviewed(dir.plan))
  <2>1. Quits(p) /\ lock' = lock
    BY <1>2 DEF BeginPass
  <2> QED BY <1>1, <2>1, QuitsInv DEF Locked
<1>3. CASE LockFree /\ Loads /\ Approved(p) /\ Reviewed(dir.plan)
  <2>1. lock' = p /\ Goto(p, "attempt")
    BY <1>3 DEF BeginPass
  <2>2. Alone(p) /\ proc'[p].at = "attempt" /\ proc'[p].plan = proc[p].plan
    BY <2>1, GotoAlone
  <2>3. Takes(p)
    BY <1>3, <2>1, <2>2 DEF Takes, Locked
  <2>4. Exclusive'
    BY <2>2, <2>3, LockStep DEF IInv
  <2>5. Shape'
    BY <1>1, <2>2 DEF IInv, Shape, Alone
  <2>6. Bound'
    <3> SUFFICES ASSUME NEW q \in Processes
                 PROVE  /\ proc'[q].at \in {"attempt", "send"} =>
                              proc'[q].plan = dir'.plan /\ Loads' /\ Reviewed(dir.plan)'
                        /\ proc'[q].at = "send" => dir'.log = TRUE
                        /\ proc'[q].at = "write" => dir'.review.state = "torn"
      BY DEF Bound
    <3>1. Loads' /\ Reviewed(dir.plan)'
      BY <1>1, <1>3 DEF Loads, Reviewed
    <3>2. CASE q = p BY <1>1, <1>3, <2>2, <3>1, <3>2 DEF Approved
    <3>3. CASE q # p BY <1>1, <2>2, <3>1, <3>3 DEF Alone, IInv, Bound
    <3> QED BY <3>2, <3>3
  <2>7. SentStays' /\ SentAsApproved'
    BY <1>1 DEF IInv, SentStays, SentAsApproved
  <2> QED BY <2>4, <2>5, <2>6, <2>7 DEF IInv
<1> QED BY <1>2, <1>3

(* The attempt's log line, the journal of the pass and the litter of a      *)
(* killed review leave plan, snapshot and receipt as they are.              *)
LEMMA SameBytes ==
  ASSUME IInv, sent' = sent, dir'.plan = dir.plan, dir'.snapshot = dir.snapshot,
         dir'.review = dir.review, dir'.log = dir.log \/ dir'.log = TRUE,
         dir'.journal = dir.journal \/ dir'.journal = TRUE
  PROVE  SentStays' /\ SentAsApproved'
  BY DEF IInv, SentStays, SentAsApproved

(* The log exists before the first submission. *)
LEMMA AttemptInv ==
  ASSUME IInv, NEW p \in Processes, Attempt(p)
  PROVE  IInv'
<1>1. /\ proc[p].at = "attempt" /\ lock' = lock /\ sent' = sent
      /\ dir' = [dir EXCEPT !.log = TRUE] /\ (Goto(p, "store") \/ Goto(p, "send"))
  BY DEF Attempt, At, KeepsLock, world
<1>2. IsDir(dir) /\ IsReview(dir.review)
  BY DEF IInv, Shape
<1>3. /\ IsDir(dir') /\ dir'.plan = dir.plan /\ dir'.snapshot = dir.snapshot
      /\ dir'.review = dir.review /\ dir'.log = TRUE /\ dir'.journal = dir.journal
  BY <1>1, <1>2 DEF IsDir
<1>4. Alone(p) /\ proc'[p].at \in {"store", "send"} /\ proc'[p].plan = proc[p].plan
  BY <1>1, GotoAlone
<1>5. Holds(p) /\ proc[p].at \in Locked
  BY <1>1, <1>4 DEF Holds, Locked
<1>6. proc'[p].plan = dir'.plan /\ Loads' /\ Reviewed(dir.plan)'
  BY <1>1, <1>3, <1>4 DEF IInv, Bound, Loads, Reviewed
<1>7. SentStays' /\ SentAsApproved'
  BY <1>1, <1>3, SameBytes
<1> QED BY <1>2, <1>3, <1>4, <1>5, <1>6, <1>7, DirChanged

(* What is submitted is the approved plan. *)
LEMMA SendInv ==
  ASSUME IInv, NEW p \in Processes, Send(p)
  PROVE  IInv'
<1>1. proc[p].at = "send" /\ lock' = lock /\ dir' = dir
  BY DEF Send, At, KeepsLock
<1>2. CASE Goto(p, "stop") /\ sent' = sent
  BY <1>1, <1>2, GotoInv DEF Locked
<1>3. CASE ~(Goto(p, "stop") /\ sent' = sent)
  <2>1. sent' = sent \cup {[plan |-> dir.plan, approved |-> proc[p].plan]} /\ Goto(p, "store")
    BY <1>3 DEF Send
  <2>2. /\ proc[p].plan = dir.plan /\ dir.plan.snapshot = dir.snapshot /\ dir.log = TRUE
        /\ dir.review.state = "kept" /\ dir.review.plan = dir.plan
        /\ dir.review.classes = ToSet(dir.snapshot.found)
    BY <1>1 DEF IInv, Bound, Loads, Reviewed
  <2>3. SentStays' /\ SentAsApproved'
    <3> SUFFICES ASSUME NEW e \in sent'
                 PROVE  /\ dir'.plan = e.plan /\ (dir'.journal \/ dir'.log)
                        /\ e.approved = e.plan
                        /\ dir'.review.state = "kept" /\ dir'.review.plan = e.plan
                        /\ dir'.review.classes = ToSet(e.plan.snapshot.found)
      BY DEF SentStays, SentAsApproved
    <3>1. CASE e \in sent
      BY <1>1, <3>1 DEF IInv, SentStays, SentAsApproved
    <3>2. CASE e = [plan |-> dir.plan, approved |-> proc[p].plan]
      <4>1. e.plan = dir.plan /\ e.approved = dir.plan
        BY <2>2, <3>2
      <4> QED BY <1>1, <2>2, <4>1
    <3> QED BY <2>1, <3>1, <3>2
  <2>4. Alone(p) /\ proc'[p].at = "store"
    BY <2>1, GotoAlone
  <2>5. Holds(p) /\ proc[p].at \in Locked
    BY <1>1, <2>4 DEF Holds, Locked
  <2>6. IsDir(dir') /\ IsReview(dir'.review)
    BY <1>1 DEF IInv, Shape
  <2> QED BY <2>3, <2>4, <2>5, <2>6, DirChanged
<1> QED BY <1>2, <1>3

(* The journal is stored when the pass ends. *)
LEMMA StoreInv ==
  ASSUME IInv, NEW p \in Processes, Store(p)
  PROVE  IInv'
<1>1. /\ proc[p].at \in Locked /\ sent' = sent /\ Unlocks(p)
      /\ dir' = [dir EXCEPT !.journal = TRUE] /\ (Quits(p) \/ Goto(p, "publish"))
  BY DEF Store, Locked, world
<1>2. IsDir(dir) /\ IsReview(dir.review)
  BY DEF IInv, Shape
<1>3. /\ IsDir(dir') /\ dir'.plan = dir.plan /\ dir'.snapshot = dir.snapshot
      /\ dir'.review = dir.review /\ dir'.log = dir.log /\ dir'.journal = TRUE
  BY <1>1, <1>2 DEF IsDir
<1>4. Alone(p) /\ proc'[p].at \in {"idle", "publish"}
  BY <1>1, GotoAlone, QuitsAlone
<1>5. Frees(p)
  BY <1>1, <1>4 DEF Frees, Locked
<1>6. SentStays' /\ SentAsApproved'
  BY <1>1, <1>3, SameBytes
<1> QED BY <1>1, <1>2, <1>3, <1>4, <1>5, <1>6, DirChanged

(* A killed review. *)
LEMMA KillInv ==
  ASSUME IInv, NEW p \in Processes, Kill(p)
  PROVE  IInv'
<1>1. /\ proc[p].at \in Locked /\ sent' = sent /\ Unlocks(p)
      /\ dir' = [dir EXCEPT !.litter = TRUE] /\ Quits(p)
  BY DEF Kill, Locked, world
<1>2. IsDir(dir) /\ IsReview(dir.review)
  BY DEF IInv, Shape
<1>3. /\ IsDir(dir') /\ dir'.plan = dir.plan /\ dir'.snapshot = dir.snapshot
      /\ dir'.review = dir.review /\ dir'.log = dir.log /\ dir'.journal = dir.journal
  BY <1>1, <1>2 DEF IsDir
<1>4. Alone(p) /\ proc'[p].at = "idle"
  BY <1>1, QuitsAlone
<1>5. Frees(p)
  BY <1>1, <1>4 DEF Frees, Locked
<1>6. SentStays' /\ SentAsApproved'
  BY <1>1, <1>3, SameBytes
<1> QED BY <1>1, <1>2, <1>3, <1>4, <1>5, <1>6, DirChanged

(* Everything else leaves processes, lock, directory and what was sent alone. *)
LEMMA Untouched ==
  ASSUME IInv, UNCHANGED <<dir, sent, proc, lock>>
  PROVE  IInv'
<1>1. Shape' /\ Exclusive'
  BY DEF IInv, Shape, Exclusive
<1>2. Bound'
  BY DEF IInv, Bound, Loads, Reviewed
<1>3. SentStays' /\ SentAsApproved'
  BY DEF IInv, SentStays, SentAsApproved
<1> QED BY <1>1, <1>2, <1>3 DEF IInv

(* Every step keeps the invariant. *)
LEMMA NextInv == IInv /\ [Next]_vars => IInv'
<1> SUFFICES ASSUME IInv, [Next]_vars PROVE IInv'
  OBVIOUS
<1>1. CASE UNCHANGED vars
  BY <1>1, Untouched DEF vars
<1>2. ASSUME NEW p \in Processes, Start(p) PROVE IInv'
  BY <1>2, PrepareInv, ReviewInv DEF Start
<1>3. ASSUME NEW p \in Processes, PoolStep(p) PROVE IInv'
  BY <1>3, Untouched DEF PoolStep, world
<1>4. ASSUME NEW p \in Processes, Unavailable(p) PROVE IInv'
  <2>1. proc[p].at = "attempt" /\ Goto(p, "stop") /\ lock' = lock /\ UNCHANGED <<dir, sent>>
    BY <1>4 DEF Unavailable, At, KeepsLock, world
  <2> QED BY <2>1, GotoInv DEF Locked
<1>5. ASSUME NEW p \in Processes, Step(p) PROVE IInv'
  BY <1>3, <1>4, <1>5, PrepareInv, ReviewInv, SwapInv, RecordInv, WriteInv, BeginPassInv,
     AttemptInv, SendInv, StoreInv DEF Step
<1>6. ASSUME NEW p \in Processes, Fail(p) PROVE IInv'
  BY <1>6, QuitsInv DEF Fail, world
<1>7. ASSUME NEW p \in Processes, Kill(p) PROVE IInv'
  BY <1>7, KillInv
<1>8. ASSUME \/ \E c \in Heads : Commit(c)
             \/ \E k \in Contested : SpendElsewhere(k)
             \/ Mine
      PROVE  IInv'
  BY <1>8, Untouched DEF Commit, SpendElsewhere, Mine
<1> QED BY <1>1, <1>2, <1>5, <1>6, <1>7, <1>8 DEF Next

(* The invariant: whoever is between the check of the approval and the      *)
(* submission holds the lock, and the directory is the approved, reviewed   *)
(* plan (workspace::lock, publish_progress).                                *)
THEOREM Invariant == Spec => []IInv
  BY InitInv, NextInv, PTL DEF Spec

(* A submitted plan is never replaced, whatever other commands do on the    *)
(* directory and whenever a process dies (ensure_unpublished, remember).    *)
THEOREM SubmittedPlanStays == Spec => []SentStays
<1>1. IInv => SentStays
  BY DEF IInv
<1> QED BY <1>1, Invariant, PTL

(* What was submitted is what its operator approved, with a receipt for     *)
(* every finding, although the approval was given without the lock          *)
(* (publish_progress, review::require).                                     *)
THEOREM SubmittedAsApproved == Spec => []SentAsApproved
<1>1. IInv => SentAsApproved
  BY DEF IInv
<1> QED BY <1>1, Invariant, PTL

-----------------------------------------------------------------------------
(* A set of naturals has a least element. *)
LEMMA LeastNat ==
  ASSUME NEW T \in SUBSET Nat, T # {}
  PROVE  \E x \in T : \A y \in T : x <= y
<1>1. PICK R : R = OpToRel(<, Nat)
  OBVIOUS
<1>2. IsWellFoundedOn(R, Nat)
  BY <1>1, NatLessThanWellFounded
<1>3. PICK x \in T : \A y \in T : ~(<<y, x>> \in R)
  BY <1>2, WFMin
<1>4. ASSUME NEW y \in T PROVE x <= y
  <2>1. <<y, x>> \notin R
    BY <1>3
  <2>2. y \in Nat /\ x \in Nat
    OBVIOUS
  <2>3. ~(y < x)
    BY <1>1, <2>1, <2>2 DEF OpToRel
  <2> QED BY <2>2, <2>3
<1> QED BY <1>4

(* Induction, with the property given by the set of numbers that have it. *)
LEMMA Inductive ==
  ASSUME NEW S, 0 \in S, \A n \in Nat : n \in S => n + 1 \in S
  PROVE  \A n \in Nat : n \in S
<1> SUFFICES ASSUME Nat \ S # {} PROVE FALSE
  OBVIOUS
<1>1. PICK x \in Nat \ S : \A y \in Nat \ S : x <= y
  BY LeastNat
<1>2. x # 0 /\ x - 1 \in Nat /\ x = (x - 1) + 1
  BY <1>1
<1>3. x - 1 \in S
  BY <1>1, <1>2
<1> QED BY <1>1, <1>2, <1>3

-----------------------------------------------------------------------------
(* The report of a scan. *)

(* g[n] is what the first n of the parts s make, for n up to m. *)
Chained(g, s, F, m) ==
    /\ g \in [0..m -> Seq(F)] /\ g[0] = <<>>
    /\ \A n \in 1..m : g[n] = g[n - 1] \o s[n]

\* The prefixes of a flattened sequence exist.
LEMMA ChainExists ==
  ASSUME NEW F, NEW s \in Seq(Seq(F))
  PROVE  \E g : Chained(g, s, F, Len(s))
<1>1. PICK S : S = {m \in Nat : m <= Len(s) => \E g : Chained(g, s, F, m)}
  OBVIOUS
<1>2. 0 \in S
  <2>1. PICK g : g = [n \in 0..0 |-> <<>>]
    OBVIOUS
  <2>2. g \in [0..0 -> Seq(F)] /\ g[0] = <<>> /\ 1..0 = {}
    BY <2>1
  <2>3. Chained(g, s, F, 0)
    BY <2>2 DEF Chained
  <2> QED BY <1>1, <2>3
<1>3. ASSUME NEW m \in Nat, m \in S PROVE m + 1 \in S
  <2>1. CASE m + 1 <= Len(s)
    <3>1. PICK g : Chained(g, s, F, m)
      BY <1>1, <1>3, <2>1
    <3>2. PICK v : v = g[m] \o s[m + 1]
      OBVIOUS
    <3>3. g[m] \in Seq(F) /\ s[m + 1] \in Seq(F)
      <4>1. m \in 0..m /\ m + 1 \in 1..Len(s)
        BY <2>1
      <4> QED BY <3>1, <4>1 DEF Chained
    <3>4. v \in Seq(F)
      BY <3>2, <3>3
    <3>5. PICK h : h = [n \in 0..(m + 1) |-> IF n = m + 1 THEN v ELSE g[n]]
      OBVIOUS
    <3>6. h[m + 1] = v /\ \A n \in 0..m : h[n] = g[n] /\ g[n] \in Seq(F)
      BY <3>1, <3>5 DEF Chained
    <3>7. \A n \in 0..(m + 1) : n \in 0..m \/ n = m + 1
      OBVIOUS
    <3>8. h \in [0..(m + 1) -> Seq(F)]
      BY <3>4, <3>5, <3>6, <3>7
    <3>9. ASSUME NEW n \in 1..(m + 1) PROVE h[n] = h[n - 1] \o s[n]
      <4>1. CASE n = m + 1
        <5>1. n - 1 = m /\ m \in 0..m
          BY <4>1
        <5> QED BY <3>2, <3>6, <4>1, <5>1
      <4>2. CASE n # m + 1
        <5>1. n \in 1..m /\ n \in 0..m /\ n - 1 \in 0..m
          BY <4>2
        <5> QED BY <3>1, <3>6, <5>1 DEF Chained
      <4> QED BY <4>1, <4>2
    <3>10. h[0] = <<>>
      BY <3>1, <3>6 DEF Chained
    <3>11. Chained(h, s, F, m + 1)
      BY <3>8, <3>9, <3>10 DEF Chained
    <3> QED BY <1>1, <3>11
  <2>2. CASE ~(m + 1 <= Len(s))
    BY <1>1, <2>2
  <2> QED BY <2>1, <2>2
<1>4. Len(s) \in S
  BY <1>2, <1>3, Inductive
<1> QED BY <1>1, <1>4

\* FlattenSeq gives the last of them.
LEMMA FlattenIs ==
  ASSUME NEW F, NEW s \in Seq(Seq(F)), NEW g, Chained(g, s, F, Len(s))
  PROVE  FlattenSeq(s) = g[Len(s)]
<1>1. PICK N \in Nat : N = Len(s)
  OBVIOUS
<1>2. CASE N = 0
  <2>1. s = <<>>
    BY <1>1, <1>2, EmptySeq
  <2> QED BY <1>1, <1>2, <2>1 DEF FlattenSeq, Chained
<1>3. CASE N # 0
  <2> DEFINE G(h) == [i \in 1..Len(s) |-> IF i = 1 THEN s[i] ELSE h[i - 1] \o s[i]]
             flat == CHOOSE h : h = G(h)
  <2>1. g[0] = <<>> /\ \A n \in 1..N : g[n] = g[n - 1] \o s[n] /\ g[n] \in Seq(F) /\ s[n] \in Seq(F)
    <3>1. \A n \in 1..N : n \in 0..N /\ n \in 1..Len(s)
      BY <1>1
    <3> QED BY <1>1, <3>1 DEF Chained
  <2>2. g[1] = s[1]
    <3>1. 1 \in 1..N /\ 1 - 1 = 0
      BY <1>3
    <3>2. g[1] = <<>> \o s[1] /\ s[1] \in Seq(F)
      BY <2>1, <3>1
    <3> QED BY <3>2
  <2>3. PICK h : h = [n \in 1..N |-> g[n]]
    OBVIOUS
  <2>4. h = G(h)
    <3>1. ASSUME NEW n \in 1..N PROVE h[n] = IF n = 1 THEN s[n] ELSE h[n - 1] \o s[n]
      <4>1. n # 1 => n - 1 \in 1..N
        OBVIOUS
      <4> QED BY <2>1, <2>2, <2>3, <4>1
    <3>2. h = [n \in 1..N |-> IF n = 1 THEN s[n] ELSE h[n - 1] \o s[n]]
      BY <2>3, <3>1
    <3> QED BY <1>1, <3>2
  <2>5. flat = G(flat)
    BY <2>4
  <2>6. FlattenSeq(s) = flat[N]
    BY <1>1, <1>3 DEF FlattenSeq
  <2> HIDE DEF flat
  <2>7. \A n \in 1..N : flat[n] = IF n = 1 THEN s[n] ELSE flat[n - 1] \o s[n]
    BY <1>1, <2>5
  <2> HIDE DEF G
  <2>8. PICK S : S = {n \in Nat : n + 1 <= N => flat[n + 1] = g[n + 1]}
    OBVIOUS
  <2>9. 0 \in S
    <3>1. 0 + 1 = 1 /\ 1 \in 1..N
      BY <1>3
    <3> QED BY <2>2, <2>7, <2>8, <3>1
  <2>10. ASSUME NEW n \in Nat, n \in S PROVE n + 1 \in S
    <3>1. CASE n + 2 <= N
      <4>1. n + 2 \in 1..N /\ (n + 2) - 1 = n + 1 /\ n + 2 # 1 /\ (n + 1) + 1 = n + 2
        BY <3>1
      <4>2. flat[n + 1] = g[n + 1]
        BY <2>8, <2>10, <3>1
      <4>3. PICK k : k = n + 2
        OBVIOUS
      <4>4. k \in 1..N /\ k - 1 = n + 1 /\ k # 1
        BY <4>1, <4>3
      <4>5. flat[k] = flat[k - 1] \o s[k] /\ g[k] = g[k - 1] \o s[k]
        BY <2>1, <2>7, <4>4
      <4>6. flat[k] = g[k]
        BY <4>2, <4>4, <4>5
      <4> QED BY <2>8, <4>1, <4>3, <4>6
    <3>2. CASE ~(n + 2 <= N)
      BY <2>8, <3>2
    <3> QED BY <3>1, <3>2
  <2>11. \A n \in Nat : n \in S
    BY <2>9, <2>10, Inductive
  <2>12. N - 1 \in Nat /\ (N - 1) + 1 = N
    BY <1>3
  <2>13. N - 1 \in S
    BY <2>11, <2>12
  <2>14. flat[N] = g[N]
    BY <2>8, <2>12, <2>13
  <2> QED BY <1>1, <2>6, <2>14
<1> QED BY <1>2, <1>3

(* How many of the numbers in M are smaller than n. *)
Below(M, n) == Cardinality({j \in M : j < n})

\* Numbers up to L are finitely many.
LEMMA Numbers ==
  ASSUME NEW L \in Nat, NEW M \in SUBSET (1..L)
  PROVE  IsFiniteSet(M) /\ \A j \in M : j \in Nat /\ 1 <= j /\ j <= L
<1>1. 1 \in Int /\ L \in Int
  OBVIOUS
<1>2. IsFiniteSet(1..L)
  BY <1>1, FS_Interval
<1>3. IsFiniteSet(M)
  BY <1>2, FS_Subset
<1>4. \A j \in M : j \in 1..L
  OBVIOUS
<1> QED BY <1>3, <1>4

\* Counting up to the next number.
LEMMA BelowNext ==
  ASSUME NEW L \in Nat, NEW M \in SUBSET (1..L), NEW n \in Nat
  PROVE  /\ Below(M, n) \in Nat
         /\ Below(M, n + 1) = IF n \in M THEN Below(M, n) + 1 ELSE Below(M, n)
<1>1. IsFiniteSet(M) /\ \A j \in M : j \in Nat
  BY Numbers
<1>2. PICK A : A = {j \in M : j < n}
  OBVIOUS
<1>3. IsFiniteSet(A) /\ Cardinality(A) \in Nat
  <2>1. A \in SUBSET M
    BY <1>2
  <2>2. IsFiniteSet(A)
    BY <1>1, <2>1, FS_Subset
  <2> QED BY <2>2, FS_CardinalityType
<1>4. PICK B : B = {j \in M : j < n + 1}
  OBVIOUS
<1>5. CASE n \in M
  <2>1. B = A \cup {n} /\ n \notin A
    <3>1. \A j \in M : j < n + 1 <=> j < n \/ j = n
      BY <1>1
    <3>2. ~(n < n)
      OBVIOUS
    <3>3. \A j : j \in B <=> j \in A \/ j = n
      BY <1>2, <1>4, <1>5, <3>1
    <3> QED BY <1>2, <3>2, <3>3
  <2>2. Cardinality(A \cup {n}) = Cardinality(A) + 1
    BY <1>3, <2>1, FS_AddElement
  <2> QED BY <1>2, <1>3, <1>4, <1>5, <2>1, <2>2 DEF Below
<1>6. CASE n \notin M
  <2>1. B = A
    <3>1. \A j \in M : j < n + 1 <=> j < n
      BY <1>1, <1>6
    <3> QED BY <1>2, <1>4, <3>1
  <2> QED BY <1>2, <1>3, <1>4, <1>6, <2>1 DEF Below
<1> QED BY <1>5, <1>6

\* Nothing is below the first number, all of M below the last.
LEMMA BelowEnds ==
  ASSUME NEW L \in Nat, NEW M \in SUBSET (1..L)
  PROVE  Below(M, 1) = 0 /\ Below(M, L + 1) = Cardinality(M) /\ IsFiniteSet(M)
<1>0. \A j \in M : j \in Nat /\ 1 <= j /\ j <= L
  BY Numbers
<1>1. {j \in M : j < 1} = {}
  <2>1. \A j \in M : ~(j < 1)
    BY <1>0
  <2> QED BY <2>1
<1>2. {j \in M : j < L + 1} = M
  <2>1. \A j \in M : j < L + 1
    BY <1>0
  <2> QED BY <2>1
<1>3. IsFiniteSet(M)
  BY Numbers
<1> QED BY <1>1, <1>2, <1>3, FS_EmptySet DEF Below

\* More is below a larger element.
LEMMA BelowLess ==
  ASSUME NEW L \in Nat, NEW M \in SUBSET (1..L), NEW i \in M, NEW n \in M, i < n
  PROVE  Below(M, i) < Below(M, n)
<1>1. IsFiniteSet(M)
  BY BelowEnds
<1>2. PICK A : A = {j \in M : j < i}
  OBVIOUS
<1>3. PICK B : B = {j \in M : j < n}
  OBVIOUS
<1>4. A \in SUBSET B /\ i \in B /\ i \notin A /\ B \in SUBSET M
  <2>1. \A j \in M : j < i => j < n
    BY Numbers
  <2>2. ~(i < i)
    BY Numbers
  <2> QED BY <1>2, <1>3, <2>1, <2>2
<1>5. IsFiniteSet(B)
  BY <1>1, <1>4, FS_Subset
<1>6. IsFiniteSet(A) /\ Cardinality(A) <= Cardinality(B) /\ (Cardinality(B) = Cardinality(A) => B = A)
  BY <1>4, <1>5, FS_Subset
<1>7. Cardinality(A) # Cardinality(B)
  BY <1>4, <1>6
<1>8. Cardinality(A) \in Nat /\ Cardinality(B) \in Nat
  BY <1>5, <1>6, FS_CardinalityType
<1>9. Cardinality(A) < Cardinality(B)
  BY <1>6, <1>7, <1>8
<1> QED BY <1>2, <1>3, <1>9 DEF Below

\* Every number of smaller elements is reached.
LEMMA BelowAll ==
  ASSUME NEW L \in Nat, NEW M \in SUBSET (1..L)
  PROVE  \A k \in 1..Cardinality(M) : \E i \in M : Below(M, i) = k - 1
<1>1. PICK S : S = {n \in Nat : \A k \in 1..Below(M, n + 1) : \E i \in M : Below(M, i) = k - 1}
  OBVIOUS
<1>2. 0 \in S
  <2>1. 1..0 = {} /\ 0 + 1 = 1
    OBVIOUS
  <2> QED BY <1>1, <2>1, BelowEnds
<1>3. ASSUME NEW n \in Nat, n \in S PROVE n + 1 \in S
  <2>1. PICK m \in Nat : m = n + 1
    OBVIOUS
  <2>2. \A k \in 1..Below(M, m) : \E i \in M : Below(M, i) = k - 1
    BY <1>1, <1>3, <2>1
  <2>3. PICK b \in Nat : b = Below(M, m)
    BY BelowNext
  <2>4. ASSUME NEW k \in 1..Below(M, m + 1) PROVE \E i \in M : Below(M, i) = k - 1
    <3>1. CASE k \in 1..b
      BY <2>2, <2>3, <3>1
    <3>2. CASE k \notin 1..b
      <4>1. Below(M, m + 1) = IF m \in M THEN b + 1 ELSE b
        BY <2>3, BelowNext
      <4>2. m \in M /\ k = b + 1
        BY <2>3, <3>2, <4>1
      <4>3. Below(M, m) = k - 1
        BY <2>3, <4>2
      <4> QED BY <4>2, <4>3
    <3> QED BY <3>1, <3>2
  <2> QED BY <1>1, <2>1, <2>4
<1>4. L \in S
  <2>1. \A n \in Nat : n \in S
    BY <1>2, <1>3, Inductive
  <2> QED BY <2>1
<1> QED BY <1>1, <1>4, BelowEnds

\* An element of a sequence without repetitions, sorted, has as many before
\* it as are smaller.
LEMMA SortedAt ==
  ASSUME NEW L \in Nat, NEW s \in Seq(1..L), IsInjective(s)
  PROVE  /\ ToSet(s) \in SUBSET (1..L) /\ Cardinality(ToSet(s)) = Len(s)
         /\ \A k \in 1..Len(s) : Sorted(s)[k] \in ToSet(s)
         /\ \A n \in ToSet(s) : Below(ToSet(s), n) + 1 \in 1..Len(s)
                                /\ Sorted(s)[Below(ToSet(s), n) + 1] = n
<1>1. PICK N \in Nat : N = Len(s) /\ DOMAIN s = 1..N
  OBVIOUS
<1>2. PICK M : M = ToSet(s)
  OBVIOUS
<1>3. M \in SUBSET (1..L)
  BY <1>2 DEF ToSet
<1>4. Cardinality(M) = N
  <2>1. s \in [1..N -> M]
    BY <1>1, <1>2 DEF ToSet
  <2>2. s \in Injection(1..N, M)
    BY <1>1, <2>1 DEF Injection, IsInjective
  <2>3. s \in Surjection(1..N, M)
    BY <1>1, <1>2, <2>1 DEF Surjection, ToSet
  <2>4. ExistsBijection(1..N, M)
    BY <2>2, <2>3 DEF ExistsBijection, Bijection
  <2> QED BY <2>4, FS_CountingElements
<1>5. ASSUME NEW k \in 1..N
      PROVE  Sorted(s)[k] \in M /\ Below(M, Sorted(s)[k]) = k - 1
  <2>1. \E i \in M : Below(M, i) = k - 1
    BY <1>3, <1>4, BelowAll
  <2>2. Sorted(s)[k] = CHOOSE i \in M : Below(M, i) = k - 1
    BY <1>1, <1>2 DEF Sorted, Below
  <2> QED BY <2>1, <2>2
<1>6. ASSUME NEW n \in M
      PROVE  Below(M, n) + 1 \in 1..N /\ Sorted(s)[Below(M, n) + 1] = n
  <2>1. n \in Nat /\ n <= L /\ n >= 1
    BY <1>3
  <2>2. PICK b \in Nat : b = Below(M, n)
    BY <1>3, <2>1, BelowNext
  <2>3. b < N
    <3>1. PICK A : A = {j \in M : j < n}
      OBVIOUS
    <3>2. A \in SUBSET M /\ n \notin A /\ IsFiniteSet(M)
      BY <1>3, <3>1, BelowEnds
    <3>3. Cardinality(A) <= Cardinality(M) /\ (Cardinality(M) = Cardinality(A) => M = A)
      BY <3>2, FS_Subset
    <3>4. Cardinality(A) = b
      BY <2>2, <3>1 DEF Below
    <3>5. M # A
      BY <3>2
    <3> QED BY <1>4, <3>3, <3>4, <3>5
  <2>4. PICK k \in 1..N : k = b + 1
    BY <2>3
  <2>5. Sorted(s)[k] \in M /\ Below(M, Sorted(s)[k]) = b
    BY <1>5, <2>4
  <2>6. PICK i \in M : i = Sorted(s)[k]
    BY <2>5
  <2>7. i \in Nat /\ Below(M, i) = Below(M, n)
    BY <1>3, <2>2, <2>5, <2>6
  <2>8. ~(i < n) /\ ~(n < i)
    <3>1. i < n => Below(M, i) < Below(M, n)
      BY <1>3, BelowLess
    <3>2. n < i => Below(M, n) < Below(M, i)
      BY <1>3, BelowLess
    <3> QED BY <2>2, <2>7, <3>1, <3>2
  <2>9. i = n
    BY <2>1, <2>7, <2>8
  <2> QED BY <2>2, <2>4, <2>6, <2>9
<1> QED BY <1>1, <1>2, <1>3, <1>4, <1>5, <1>6

Pairs == (DOMAIN Marks) \X Nat
Objects(c) == Len(Inventory[c])
MarksOf(c, i) == Marks[Inventory[c][i]]

\* The findings of one object.
LEMMA Part ==
  ASSUME NEW c \in Heads
  PROVE  /\ Inventory[c] \in Seq(DOMAIN Marks) /\ Objects(c) \in Nat
         /\ \A i \in 1..Objects(c) :
              /\ FindingsAt(c, i) \in Seq(Pairs) /\ MarksOf(c, i) \in Nat
              /\ Len(FindingsAt(c, i)) = MarksOf(c, i)
              /\ MarksOf(c, i) = 0 => FindingsAt(c, i) = <<>>
<1>1. Inventory[c] \in Seq(DOMAIN Marks)
  BY ScanAssumption DEF Heads
<1>2. Objects(c) \in Nat
  BY <1>1 DEF Objects
<1>3. ASSUME NEW i \in 1..Objects(c)
      PROVE  /\ FindingsAt(c, i) \in Seq(Pairs) /\ MarksOf(c, i) \in Nat
             /\ Len(FindingsAt(c, i)) = MarksOf(c, i)
             /\ MarksOf(c, i) = 0 => FindingsAt(c, i) = <<>>
  <2>1. Inventory[c][i] \in DOMAIN Marks
    BY <1>1 DEF Objects
  <2>2. PICK m \in Nat : m = MarksOf(c, i)
    BY <2>1, ScanAssumption DEF MarksOf
  <2>3. FindingsAt(c, i) = [k \in 1..m |-> <<Inventory[c][i], k>>]
    BY <2>2 DEF FindingsAt, MarksOf
  <2>4. \A k \in 1..m : <<Inventory[c][i], k>> \in Pairs
    BY <2>1 DEF Pairs
  <2>5. FindingsAt(c, i) \in [1..m -> Pairs]
    BY <2>3, <2>4
  <2>6. FindingsAt(c, i) \in Seq(Pairs) /\ Len(FindingsAt(c, i)) = m
    BY <2>5
  <2> QED BY <2>2, <2>6, EmptySeq
<1> QED BY <1>1, <1>2, <1>3

PartsOf(c) == [i \in DOMAIN Inventory[c] |-> FindingsAt(c, i)]

(* The findings of the first n objects. *)
Listing(c) == CHOOSE g : Chained(g, PartsOf(c), Pairs, Objects(c))

\* The scan that reads the objects in order.
LEMMA ListingIs ==
  ASSUME NEW c \in Heads
  PROVE  /\ Listing(c)[0] = <<>>
         /\ \A n \in 0..Objects(c) : Listing(c)[n] \in Seq(Pairs)
         /\ \A n \in 1..Objects(c) : Listing(c)[n] = Listing(c)[n - 1] \o FindingsAt(c, n)
         /\ ScanOf(c) = Listing(c)[Objects(c)]
<1>1. PICK s : s = PartsOf(c)
  OBVIOUS
<1>2. DOMAIN Inventory[c] = 1..Objects(c)
  BY Part DEF Objects
<1>3. s \in [1..Objects(c) -> Seq(Pairs)] /\ \A n \in 1..Objects(c) : s[n] = FindingsAt(c, n)
  BY <1>1, <1>2, Part DEF PartsOf
<1>4. s \in Seq(Seq(Pairs)) /\ Len(s) = Objects(c)
  BY <1>3, Part
<1>5. \E g : Chained(g, s, Pairs, Objects(c))
  BY <1>4, ChainExists
<1>6. PICK g : g = Listing(c)
  OBVIOUS
<1>7. Chained(g, s, Pairs, Objects(c))
  BY <1>1, <1>5, <1>6 DEF Listing
<1>8. FlattenSeq(s) = g[Objects(c)]
  BY <1>4, <1>7, FlattenIs
<1>9. ScanOf(c) = FlattenSeq(s)
  BY <1>1 DEF ScanOf, PartsOf
<1>10. /\ g[0] = <<>> /\ \A n \in 0..Objects(c) : g[n] \in Seq(Pairs)
       /\ \A n \in 1..Objects(c) : g[n] = g[n - 1] \o s[n]
  BY <1>7 DEF Chained
<1> QED BY <1>3, <1>6, <1>8, <1>9, <1>10

\* One more object in the listing adds as many findings as it has.
LEMMA ListingGrows ==
  ASSUME NEW c \in Heads, NEW n \in 1..Objects(c)
  PROVE  /\ Len(Listing(c)[n - 1]) \in Nat /\ Len(Listing(c)[n]) \in Nat
         /\ Len(Listing(c)[n]) = Len(Listing(c)[n - 1]) + MarksOf(c, n)
         /\ MarksOf(c, n) = 0 => Listing(c)[n] = Listing(c)[n - 1]
<1>1. Objects(c) \in Nat
  BY Part
<1>2. n - 1 \in 0..Objects(c)
  BY <1>1
<1>3. PICK a \in Seq(Pairs) : a = Listing(c)[n - 1]
  BY <1>2, ListingIs
<1>4. PICK b \in Seq(Pairs) : b = FindingsAt(c, n) /\ Len(b) = MarksOf(c, n)
                              /\ (MarksOf(c, n) = 0 => b = <<>>)
  BY Part
<1>5. Listing(c)[n] = a \o b
  BY <1>3, <1>4, ListingIs
<1>6. Len(a \o b) = Len(a) + Len(b) /\ a \o b \in Seq(Pairs) /\ (b = <<>> => a \o b = a)
  OBVIOUS
<1> QED BY <1>3, <1>4, <1>5, <1>6

\* Results in any order, each once, make the report of the scan in order.
LEMMA ReportIs ==
  ASSUME NEW c \in Heads, results \in Seq(1..Objects(c)), IsInjective(results),
         \A i \in 1..Objects(c) : MarksOf(c, i) > 0 => i \in ToSet(results)
  PROVE  Report(c) = ScanOf(c)
<1>1. PICK L \in Nat : L = Objects(c)
  BY Part
<1>2. PICK s \in Seq(1..L) : s = results
  BY <1>1
<1>3. PICK M : M = ToSet(s)
  OBVIOUS
<1>4. PICK N \in Nat : N = Len(s) /\ DOMAIN s = 1..N
  OBVIOUS
<1>5. /\ M \in SUBSET (1..L) /\ Cardinality(M) = N
      /\ \A k \in 1..N : Sorted(s)[k] \in M
      /\ \A n \in M : Below(M, n) + 1 \in 1..N /\ Sorted(s)[Below(M, n) + 1] = n
  BY <1>2, <1>3, <1>4, SortedAt
<1>6. PICK p : p = [k \in 1..N |-> FindingsAt(c, Sorted(s)[k])]
  OBVIOUS
<1>7. p \in Seq(Seq(Pairs)) /\ Len(p) = N
  <2>1. \A k \in 1..N : FindingsAt(c, Sorted(s)[k]) \in Seq(Pairs)
    BY <1>1, <1>5, Part
  <2>2. p \in [1..N -> Seq(Pairs)]
    BY <1>6, <2>1
  <2> QED BY <2>2
<1>8. PICK f : Chained(f, p, Pairs, N)
  BY <1>7, ChainExists
<1>9. Report(c) = f[N]
  <2>1. Report(c) = FlattenSeq(p)
    BY <1>2, <1>4, <1>6 DEF Report
  <2> QED BY <1>7, <1>8, <2>1, FlattenIs
<1>10. PICK S : S = {n \in Nat : n <= L => f[Below(M, n + 1)] = Listing(c)[n]}
  OBVIOUS
<1>11. 0 \in S
  <2>1. Below(M, 0 + 1) = 0
    BY <1>5, BelowEnds
  <2>2. f[0] = <<>> /\ Listing(c)[0] = <<>>
    BY <1>8, ListingIs DEF Chained
  <2> QED BY <1>10, <2>1, <2>2
<1>12. ASSUME NEW n \in Nat, n \in S PROVE n + 1 \in S
  <2>1. CASE n + 1 <= L
    <3>1. PICK m \in 1..L : m = n + 1
      BY <2>1
    <3> m \in Nat
      OBVIOUS
    <3>2. PICK b \in Nat : b = Below(M, m)
      BY <1>5, BelowNext
    <3>3. f[b] = Listing(c)[m - 1]
      BY <1>10, <1>12, <2>1, <3>1, <3>2
    <3>4. Below(M, m + 1) = IF m \in M THEN b + 1 ELSE b
      BY <1>5, <3>2, BelowNext
    <3>5. CASE m \in M
      <4>1. PICK k \in 1..N : k = b + 1 /\ Sorted(s)[k] = m
        <5>1. b + 1 \in 1..N /\ Sorted(s)[b + 1] = m
          BY <1>5, <3>2, <3>5
        <5> QED BY <5>1
      <4>2. f[k] = f[k - 1] \o p[k]
        BY <1>8 DEF Chained
      <4>3. p[k] = FindingsAt(c, m) /\ k - 1 = b
        BY <1>6, <4>1
      <4>4. Listing(c)[m] = Listing(c)[m - 1] \o FindingsAt(c, m)
        BY <1>1, ListingIs
      <4>5. f[k] = Listing(c)[m]
        BY <3>3, <4>2, <4>3, <4>4
      <4> QED BY <1>10, <3>1, <3>4, <3>5, <4>1, <4>5
    <3>6. CASE m \notin M
      <4>1. ~(MarksOf(c, m) > 0) /\ MarksOf(c, m) \in Nat
        BY <1>1, <1>2, <1>3, <3>6, Part
      <4>2. MarksOf(c, m) = 0
        BY <4>1
      <4>3. Listing(c)[m] = Listing(c)[m - 1]
        BY <1>1, <4>2, ListingGrows
      <4> QED BY <1>10, <3>1, <3>3, <3>4, <3>6, <4>3
    <3> QED BY <3>5, <3>6
  <2>2. CASE ~(n + 1 <= L)
    BY <1>10, <2>2
  <2> QED BY <2>1, <2>2
<1>13. L \in S
  <2>1. \A n \in Nat : n \in S
    BY <1>11, <1>12, Inductive
  <2> QED BY <2>1
<1>14. Below(M, L + 1) = N
  BY <1>5, BelowEnds
<1> QED BY <1>1, <1>9, <1>10, <1>13, <1>14, ListingIs

-----------------------------------------------------------------------------
(* The threads of a scan of commit c. *)

Places == {"take", "send", "tell", "close", "done"}

PoolShape(c) ==
    /\ DOMAIN crew # {} /\ crew \in [DOMAIN crew -> [at : Places, index : Nat]]
    /\ next \in Nat \ {0} /\ cancelled \in BOOLEAN /\ errors \in BOOLEAN
    /\ channel \in Seq(0..Objects(c)) /\ results \in Seq(1..Objects(c))

(* An error is on its way to the one who waits for it, or there. *)
Told ==
    cancelled => \/ errors \/ 0 \in ToSet(channel)
                 \/ \E w \in DOMAIN crew : crew[w].at = "tell"

(* A thread stops only after an error, or when there is nothing left. *)
Through(c) ==
    ~cancelled => \A w \in DOMAIN crew :
        crew[w].at # "tell" /\ (crew[w].at \in {"close", "done"} => next > Objects(c))

Sends(w, i) == crew[w].at = "send" /\ crew[w].index = i

(* Without an error no object that was taken is lost, ... *)
Held(c) ==
    ~cancelled => \A i \in 1..Objects(c) :
        i < next => \/ \E w \in DOMAIN crew : Sends(w, i)
                    \/ i \in ToSet(channel)
                    \/ MarksOf(c, i) > 0 => i \in ToSet(results)

(* ... and none is in two places. *)
Once(c) ==
    /\ \A w \in DOMAIN crew : crew[w].at = "send" =>
          /\ crew[w].index \in 1..Objects(c) /\ crew[w].index < next
          /\ crew[w].index \notin ToSet(channel) /\ crew[w].index \notin ToSet(results)
    /\ \A w, v \in DOMAIN crew :
          crew[w].at = "send" /\ crew[v].at = "send" /\ crew[w].index = crew[v].index => w = v
    /\ \A k, l \in DOMAIN channel : channel[k] = channel[l] /\ channel[k] # 0 => k = l
    /\ \A k \in DOMAIN channel : channel[k] < next /\ channel[k] \notin ToSet(results)
    /\ IsInjective(results) /\ \A i \in ToSet(results) : i < next

(* The shared count is that of the objects taken. *)
Count(c) ==
    ~cancelled => counted = Len(Listing(c)[Least(next - 1, Objects(c))]) /\ Within(counted)

ScanInv(c) == PoolShape(c) /\ Told /\ Through(c) /\ Held(c) /\ Once(c) /\ Count(c)

\* A new element at the end of a sequence.
LEMMA AppendSet ==
  ASSUME NEW F, NEW s \in Seq(F), NEW x \in F
  PROVE  /\ Append(s, x) \in Seq(F) /\ ToSet(Append(s, x)) = ToSet(s) \cup {x}
         /\ Len(s) \in Nat /\ DOMAIN s = 1..Len(s) /\ DOMAIN Append(s, x) = 1..(Len(s) + 1)
         /\ \A k \in 1..Len(s) : Append(s, x)[k] = s[k]
         /\ Append(s, x)[Len(s) + 1] = x
<1>1. PICK n \in Nat : n = Len(s)
  OBVIOUS
<1>2. PICK t \in Seq(F) : t = Append(s, x)
  BY AppendProperties
<1>3. /\ DOMAIN s = 1..n /\ DOMAIN t = 1..(n + 1)
      /\ \A k \in 1..n : t[k] = s[k]
      /\ t[n + 1] = x
  <2>1. DOMAIN s = 1..n
    BY <1>1
  <2>2. Len(t) = n + 1
    BY <1>1, <1>2
  <2>3. DOMAIN t = 1..(n + 1)
    BY <1>2, <2>2
  <2>4. \A k \in 1..n : t[k] = s[k]
    BY <1>1, <1>2
  <2>5. t[n + 1] = x
    BY <1>1, <1>2
  <2> QED BY <2>1, <2>3, <2>4, <2>5
<1>4. ToSet(t) = ToSet(s) \cup {x}
  <2>1. \A k : k \in 1..(n + 1) <=> k \in 1..n \/ k = n + 1
    OBVIOUS
  <2> QED BY <1>3, <2>1 DEF ToSet
<1> QED BY <1>1, <1>2, <1>3, <1>4

\* The head leaves a sequence.
LEMMA TailSet ==
  ASSUME NEW F, NEW s \in Seq(F), s # <<>>
  PROVE  /\ Tail(s) \in Seq(F) /\ Head(s) \in F /\ ToSet(s) = ToSet(Tail(s)) \cup {Head(s)}
         /\ \A k \in DOMAIN Tail(s) : k + 1 \in DOMAIN s /\ k + 1 # 1 /\ Tail(s)[k] = s[k + 1]
         /\ 1 \in DOMAIN s /\ Head(s) = s[1] /\ \A k \in DOMAIN Tail(s) : k \in Nat
<1>1. PICK n \in Nat : n = Len(s)
  OBVIOUS
<1>2. n # 0
  BY <1>1, EmptySeq
<1>3. PICK t \in Seq(F) : t = Tail(s)
  BY HeadTailProperties
<1>4. /\ DOMAIN s = 1..n /\ DOMAIN t = 1..(n - 1)
      /\ \A k \in 1..(n - 1) : t[k] = s[k + 1]
      /\ Head(s) = s[1] /\ s[1] \in F
  <2>1. DOMAIN s = 1..n
    BY <1>1
  <2>2. Len(t) = n - 1 /\ n - 1 \in Nat
    BY <1>1, <1>2, <1>3
  <2>3. DOMAIN t = 1..(n - 1)
    BY <1>3, <2>2
  <2>4. \A k \in 1..(n - 1) : t[k] = s[k + 1]
    BY <1>1, <1>2, <1>3
  <2>5. Head(s) = s[1] /\ s[1] \in F
    BY <1>1, <1>2
  <2> QED BY <2>1, <2>3, <2>4, <2>5
<1>5. \A k \in 1..(n - 1) : k \in Nat /\ k + 1 \in 1..n /\ k + 1 # 1
  OBVIOUS
<1>6. ToSet(s) = ToSet(t) \cup {s[1]}
  <2>1. ASSUME NEW k \in 1..n PROVE s[k] \in ToSet(t) \cup {s[1]}
    <3>1. CASE k = 1
      BY <3>1
    <3>2. CASE k # 1
      <4>1. PICK l \in 1..(n - 1) : l + 1 = k
        <5>1. k - 1 \in 1..(n - 1) /\ (k - 1) + 1 = k
          BY <3>2
        <5> QED BY <5>1
      <4>2. t[l] = s[k] /\ t[l] \in ToSet(t)
        BY <1>4, <4>1 DEF ToSet
      <4> QED BY <4>2
    <3> QED BY <3>1, <3>2
  <2>2. ToSet(s) \subseteq ToSet(t) \cup {s[1]}
    BY <1>4, <2>1 DEF ToSet
  <2>3. ToSet(t) \subseteq ToSet(s)
    BY <1>4, <1>5 DEF ToSet
  <2>4. s[1] \in ToSet(s)
    BY <1>2, <1>4 DEF ToSet
  <2> QED BY <2>2, <2>3, <2>4
<1>7. 1 \in 1..n
  BY <1>2
<1> QED BY <1>3, <1>4, <1>5, <1>6, <1>7

\* A thread moves, the others stay.
LEMMA MovedEffect ==
  ASSUME NEW c, PoolShape(c), NEW w \in DOMAIN crew, NEW at \in Places, NEW index \in Nat,
         Moved(w, at, index)
  PROVE  /\ DOMAIN crew' = DOMAIN crew /\ crew' \in [DOMAIN crew' -> [at : Places, index : Nat]]
         /\ crew'[w].at = at /\ crew'[w].index = index
         /\ \A v \in DOMAIN crew : v # w => crew'[v] = crew[v]
<1>1. Thread(at, index) \in [at : Places, index : Nat] /\ Thread(at, index).at = at
      /\ Thread(at, index).index = index
  BY DEF Thread
<1>2. PICK t : t = Thread(at, index)
  OBVIOUS
<1>3. crew' = [crew EXCEPT ![w] = t]
  BY <1>2 DEF Moved
<1>4. DOMAIN crew' = DOMAIN crew /\ crew'[w] = t /\ \A v \in DOMAIN crew : v # w => crew'[v] = crew[v]
  BY <1>3
<1>5. crew' \in [DOMAIN crew -> [at : Places, index : Nat]]
  BY <1>1, <1>2, <1>3 DEF PoolShape
<1> QED BY <1>1, <1>2, <1>4, <1>5

\* The threads are spawned.
LEMMA StartScan ==
  ASSUME NEW c \in Heads, Quiet, PoolStarts(c)
  PROVE  ScanInv(c)'
<1>1. PICK n \in Counts(c) : crew' = [w \in 1..n |-> Thread("take", 0)]
  BY DEF PoolStarts
<1>2. n \in Nat /\ 1 \in 1..n
  BY <1>1 DEF Counts
<1>3. /\ next' = 1 /\ cancelled' = FALSE /\ counted' = 0 /\ channel' = <<>> /\ results' = <<>>
      /\ errors' = FALSE
  BY DEF PoolStarts, Quiet
<1>4. DOMAIN crew' = 1..n /\ \A w \in DOMAIN crew' : crew'[w].at = "take"
  BY <1>1 DEF Thread
<1>5. PoolShape(c)'
  <2>1. Thread("take", 0) \in [at : Places, index : Nat]
    BY DEF Thread, Places
  <2>2. crew' \in [DOMAIN crew' -> [at : Places, index : Nat]] /\ DOMAIN crew' # {}
    BY <1>1, <1>2, <1>4, <2>1
  <2>3. channel' \in Seq(0..Objects(c)) /\ results' \in Seq(1..Objects(c))
    BY <1>3, EmptySeq
  <2>4. next' \in Nat \ {0}
    <3>1. next' = 1
      BY <1>3
    <3> QED BY <3>1
  <2>5. cancelled' \in BOOLEAN /\ errors' \in BOOLEAN
    <3>1. cancelled' = FALSE /\ errors' = FALSE
      BY <1>3
    <3> QED BY <3>1
  <2> QED BY <2>2, <2>3, <2>4, <2>5 DEF PoolShape
<1>6. DOMAIN channel' = {} /\ DOMAIN results' = {}
  BY <1>3
<1>7. Told' /\ Through(c)'
  BY <1>3, <1>4 DEF Told, Through
<1>8. Held(c)'
  <2>1. \A i \in 1..Objects(c) : ~(i < 1)
    BY Part
  <2> QED BY <1>3, <2>1 DEF Held
<1>9. Once(c)'
  BY <1>4, <1>6 DEF Once, IsInjective, ToSet
<1>10. Count(c)'
  <2>1. Least(1 - 1, Objects(c)) = 0
    BY Part DEF Least
  <2>2. Len(Listing(c)[0]) = 0
    BY ListingIs
  <2>3. Within(0)
    BY ScanAssumption DEF Within
  <2>4. counted' = Len(Listing(c)[Least(next' - 1, Objects(c))]) /\ Within(counted')
    BY <1>3, <2>1, <2>2, <2>3
  <2> QED BY <2>4 DEF Count
<1> QED BY <1>5, <1>7, <1>8, <1>9, <1>10 DEF ScanInv

\* A thread that does not begin to send puts no object in a second place.
LEMMA OnceKept ==
  ASSUME NEW c \in Heads, ScanInv(c), NEW w \in DOMAIN crew, NEW at \in Places \ {"send"},
         Moved(w, at, 0), next' \in {next, next + 1}, UNCHANGED <<channel, results>>
  PROVE  Once(c)'
<1>1. /\ DOMAIN crew' = DOMAIN crew /\ crew'[w].at = at
      /\ \A v \in DOMAIN crew : v # w => crew'[v] = crew[v]
  BY MovedEffect DEF ScanInv
<1>2. Once(c) /\ next \in Nat
  BY DEF ScanInv, PoolShape
<1>3. \A v \in DOMAIN crew' : crew'[v].at = "send" => v # w /\ v \in DOMAIN crew /\ crew'[v] = crew[v]
  BY <1>1
<1>4. \A i \in Nat : i < next => i < next'
  BY <1>2
<1>5. /\ \A v \in DOMAIN crew : crew[v].at = "send" => crew[v].index \in 1..Objects(c)
      /\ 1..Objects(c) \subseteq Nat /\ ToSet(results) \subseteq Nat
      /\ \A k \in DOMAIN channel : channel[k] \in Nat
  BY Part DEF ScanInv, PoolShape, Once, ToSet
<1>6. \A v \in DOMAIN crew' : crew'[v].at = "send" =>
          /\ crew'[v].index \in 1..Objects(c) /\ crew'[v].index < next'
          /\ crew'[v].index \notin ToSet(channel') /\ crew'[v].index \notin ToSet(results')
  BY <1>2, <1>3, <1>4, <1>5 DEF Once
<1>7. \A v, u \in DOMAIN crew' :
          crew'[v].at = "send" /\ crew'[u].at = "send" /\ crew'[v].index = crew'[u].index => v = u
  BY <1>2, <1>3 DEF Once
<1>8. /\ \A k, l \in DOMAIN channel' : channel'[k] = channel'[l] /\ channel'[k] # 0 => k = l
      /\ \A k \in DOMAIN channel' : channel'[k] < next' /\ channel'[k] \notin ToSet(results')
      /\ IsInjective(results') /\ \A i \in ToSet(results') : i < next'
  BY <1>2, <1>4, <1>5 DEF Once
<1> QED BY <1>6, <1>7, <1>8 DEF Once

\* An error: the others are told to stop.
LEMMA FailScan ==
  ASSUME NEW c \in Heads, ScanInv(c), NEW w \in DOMAIN crew, Failed(w),
         next' \in {next, next + 1}, UNCHANGED <<channel, results, errors>>
  PROVE  ScanInv(c)'
<1>1. cancelled' = TRUE /\ Moved(w, "tell", 0) /\ "tell" \in Places \ {"send"} /\ 0 \in Nat
  BY DEF Failed, Places
<1>2. /\ DOMAIN crew' = DOMAIN crew /\ crew'[w].at = "tell"
      /\ crew' \in [DOMAIN crew' -> [at : Places, index : Nat]]
  BY <1>1, MovedEffect DEF ScanInv
<1>3. PoolShape(c)'
  <2>1. next' \in Nat \ {0}
    BY DEF ScanInv, PoolShape
  <2> QED BY <1>1, <1>2, <2>1 DEF ScanInv, PoolShape
<1>4. Told'
  BY <1>2 DEF Told
<1>5. Through(c)' /\ Held(c)' /\ Count(c)'
  BY <1>1 DEF Through, Held, Count
<1>6. Once(c)'
  BY <1>1, OnceKept
<1> QED BY <1>3, <1>4, <1>5, <1>6 DEF ScanInv

\* A thread closes: it was told to stop, or took a number past the last object.
LEMMA CloseScan ==
  ASSUME NEW c \in Heads, ScanInv(c), NEW w \in DOMAIN crew, NEW at \in {"close", "done"},
         Moved(w, at, 0), crew[w].at \in {"take", "close"},
         next' \in {next, next + 1}, cancelled \/ next > Objects(c),
         UNCHANGED <<cancelled, counted, channel, results, errors>>
  PROVE  ScanInv(c)'
<1>1. at \in Places \ {"send"} /\ at # "tell" /\ 0 \in Nat
  BY DEF Places
<1>2. /\ DOMAIN crew' = DOMAIN crew /\ crew'[w].at = at
      /\ crew' \in [DOMAIN crew' -> [at : Places, index : Nat]]
      /\ \A v \in DOMAIN crew : v # w => crew'[v] = crew[v]
  BY <1>1, MovedEffect DEF ScanInv
<1>3. next \in Nat \ {0} /\ Objects(c) \in Nat
  BY Part DEF ScanInv, PoolShape
<1>4. PoolShape(c)'
  <2>1. next' \in Nat \ {0}
    BY <1>3
  <2> QED BY <1>2, <2>1 DEF ScanInv, PoolShape
<1>5. Told'
  <2>1. ASSUME NEW v \in DOMAIN crew, crew[v].at = "tell" PROVE v # w /\ crew'[v].at = "tell"
    BY <1>2, <2>1
  <2> QED BY <1>2, <2>1 DEF ScanInv, Told
<1>6. Through(c)'
  <2>1. CASE cancelled
    BY <2>1 DEF Through
  <2>2. CASE ~cancelled
    <3>1. next' > Objects(c)
      BY <1>3, <2>2
    <3>2. \A v \in DOMAIN crew' : crew'[v].at # "tell"
      BY <1>1, <1>2, <2>2 DEF ScanInv, Through
    <3> QED BY <3>1, <3>2 DEF Through
  <2> QED BY <2>1, <2>2
<1>7. Held(c)'
  <2>1. CASE cancelled
    BY <2>1 DEF Held
  <2>2. CASE ~cancelled
    <3>1. \A i \in 1..Objects(c) : i < next
      BY <1>3, <2>2
    <3>2. ASSUME NEW v \in DOMAIN crew, NEW i, Sends(v, i) PROVE Sends(v, i)' /\ v \in DOMAIN crew'
      <4>1. v # w
        BY <3>2 DEF Sends
      <4> QED BY <1>2, <3>2, <4>1 DEF Sends
    <3>3. ASSUME NEW i \in 1..Objects(c)
          PROVE  \/ \E v \in DOMAIN crew' : Sends(v, i)'
                 \/ i \in ToSet(channel')
                 \/ MarksOf(c, i) > 0 => i \in ToSet(results')
      <4>1. \/ \E v \in DOMAIN crew : Sends(v, i)
            \/ i \in ToSet(channel)
            \/ MarksOf(c, i) > 0 => i \in ToSet(results)
        BY <2>2, <3>1 DEF ScanInv, Held
      <4> QED BY <3>2, <4>1
    <3> QED BY <3>3 DEF Held, Sends
  <2> QED BY <2>1, <2>2
<1>8. Once(c)'
  BY <1>1, OnceKept
<1>9. Count(c)'
  <2>1. CASE cancelled
    BY <2>1 DEF Count
  <2>2. CASE ~cancelled
    <3>1. Least(next - 1, Objects(c)) = Objects(c) /\ Least(next' - 1, Objects(c)) = Objects(c)
      BY <1>3, <2>2 DEF Least
    <3>2. counted = Len(Listing(c)[Objects(c)]) /\ Within(counted)
      BY <2>2, <3>1 DEF ScanInv, Count
    <3> QED BY <3>1, <3>2 DEF Count
  <2> QED BY <2>1, <2>2
<1> QED BY <1>4, <1>5, <1>6, <1>7, <1>8, <1>9 DEF ScanInv

\* Only objects that were taken are on their way.
LEMMA TakenBefore ==
  ASSUME NEW c \in Heads, ScanInv(c)
  PROVE  /\ \A v \in DOMAIN crew : crew[v].at = "send" =>
              crew[v].index \in 1..Objects(c) /\ crew[v].index < next
         /\ \A k \in DOMAIN channel : channel[k] \in Nat /\ channel[k] < next
         /\ \A i \in ToSet(results) : i \in Nat /\ i < next
<1>1. channel \in Seq(0..Objects(c)) /\ results \in Seq(1..Objects(c)) /\ Objects(c) \in Nat
  BY Part DEF ScanInv, PoolShape
<1>2. \A k \in DOMAIN channel : channel[k] \in Nat
  BY <1>1
<1>3. \A k \in DOMAIN results : results[k] \in Nat
  BY <1>1
<1>4. \A i \in ToSet(results) : i \in Nat
  BY <1>3 DEF ToSet
<1> QED BY <1>2, <1>4 DEF ScanInv, Once

\* A thread takes the next object.
LEMMA NextObject ==
  ASSUME NEW c \in Heads, ScanInv(c), NEW w \in DOMAIN crew, crew[w].at = "take", ~cancelled,
         next' = next + 1, next <= Objects(c), counted' = counted + MarksOf(c, next),
         Within(counted'), Moved(w, "send", next),
         UNCHANGED <<cancelled, channel, results, errors>>
  PROVE  ScanInv(c)'
<1>1. next \in 1..Objects(c) /\ next \in Nat /\ "send" \in Places /\ Objects(c) \in Nat
  BY Part DEF ScanInv, PoolShape, Places
<1>2. /\ DOMAIN crew' = DOMAIN crew /\ crew'[w].at = "send" /\ crew'[w].index = next
      /\ crew' \in [DOMAIN crew' -> [at : Places, index : Nat]]
      /\ \A v \in DOMAIN crew : v # w => crew'[v] = crew[v]
  BY <1>1, MovedEffect DEF ScanInv
<1>3. PoolShape(c)'
  <2>1. next' \in Nat \ {0}
    BY <1>1
  <2> QED BY <1>2, <2>1 DEF ScanInv, PoolShape
<1>4. Told'
  BY DEF Told
<1>5. Through(c)'
  <2>1. \A v \in DOMAIN crew : crew[v].at # "tell" /\ crew[v].at \notin {"close", "done"}
    BY <1>1 DEF ScanInv, Through
  <2> QED BY <1>2, <2>1 DEF Through
<1>6. Held(c)'
  <2>1. ASSUME NEW i \in 1..Objects(c), i < next'
        PROVE  \/ \E v \in DOMAIN crew' : Sends(v, i)'
               \/ i \in ToSet(channel')
               \/ MarksOf(c, i) > 0 => i \in ToSet(results')
    <3>1. CASE i = next
      BY <1>2, <3>1 DEF Sends
    <3>2. CASE i # next
      <4>1. i < next
        BY <1>1, <2>1, <3>2
      <4>2. \/ \E v \in DOMAIN crew : Sends(v, i)
            \/ i \in ToSet(channel)
            \/ MarksOf(c, i) > 0 => i \in ToSet(results)
        BY <4>1 DEF ScanInv, Held
      <4>3. ASSUME NEW v \in DOMAIN crew, Sends(v, i) PROVE Sends(v, i)' /\ v \in DOMAIN crew'
        <5>1. v # w
          BY <4>3 DEF Sends
        <5> QED BY <1>2, <4>3, <5>1 DEF Sends
      <4> QED BY <4>2, <4>3
    <3> QED BY <3>1, <3>2
  <2> QED BY <2>1 DEF Held, Sends
<1>7. Once(c)'
  <2>1. /\ \A v \in DOMAIN crew : crew[v].at = "send" =>
             crew[v].index \in 1..Objects(c) /\ crew[v].index < next
        /\ \A k \in DOMAIN channel : channel[k] \in Nat /\ channel[k] < next
        /\ \A i \in ToSet(results) : i \in Nat /\ i < next
    BY TakenBefore
  <2>2. next \notin ToSet(channel) /\ next \notin ToSet(results)
    BY <1>1, <2>1 DEF ToSet
  <2>3. \A v \in DOMAIN crew : crew[v].at = "send" => crew[v].index # next
    BY <1>1, <2>1
  <2>4. \A i \in Nat : i < next => i < next'
    BY <1>1
  <2>5. next < next'
    BY <1>1
  <2>6. \A v \in DOMAIN crew' : crew'[v].at = "send" =>
          /\ crew'[v].index \in 1..Objects(c) /\ crew'[v].index < next'
          /\ crew'[v].index \notin ToSet(channel') /\ crew'[v].index \notin ToSet(results')
    <3> TAKE v \in DOMAIN crew'
    <3>1. CASE v = w
      BY <1>1, <1>2, <2>2, <2>5, <3>1
    <3>2. CASE v # w
      <4>1. crew'[v] = crew[v] /\ v \in DOMAIN crew
        BY <1>2, <3>2
      <4>2. \A i \in 1..Objects(c) : i \in Nat
        BY <1>1
      <4> QED BY <4>1, <4>2, <2>1, <2>4 DEF ScanInv, Once
    <3> QED BY <3>1, <3>2
  <2>7. \A v, u \in DOMAIN crew' :
          crew'[v].at = "send" /\ crew'[u].at = "send" /\ crew'[v].index = crew'[u].index => v = u
    BY <1>2, <2>3 DEF ScanInv, Once
  <2>8. /\ \A k, l \in DOMAIN channel' : channel'[k] = channel'[l] /\ channel'[k] # 0 => k = l
        /\ \A k \in DOMAIN channel' : channel'[k] < next' /\ channel'[k] \notin ToSet(results')
        /\ IsInjective(results') /\ \A i \in ToSet(results') : i < next'
    BY <2>1, <2>4 DEF ScanInv, Once
  <2> QED BY <2>6, <2>7, <2>8 DEF Once
<1>8. Count(c)'
  <2>1. Least(next - 1, Objects(c)) = next - 1 /\ Least(next' - 1, Objects(c)) = next
    BY <1>1 DEF Least
  <2>2. counted = Len(Listing(c)[next - 1])
    BY <2>1 DEF ScanInv, Count
  <2>3. Len(Listing(c)[next]) = Len(Listing(c)[next - 1]) + MarksOf(c, next)
    BY <1>1, ListingGrows
  <2>4. counted' = Len(Listing(c)[next])
    BY <2>2, <2>3
  <2> QED BY <2>1, <2>4 DEF Count
<1> QED BY <1>3, <1>4, <1>5, <1>6, <1>7, <1>8 DEF ScanInv

\* A thread sends what it found in its object.
LEMMA SendScan ==
  ASSUME NEW c \in Heads, ScanInv(c), NEW w \in DOMAIN crew, SendPart(w)
  PROVE  ScanInv(c)'
<1>1. PICK i : i = crew[w].index
  OBVIOUS
<1>2. /\ crew[w].at = "send" /\ channel' = Append(channel, i) /\ Moved(w, "take", 0)
      /\ UNCHANGED <<next, cancelled, counted, results, objects, errors>>
  BY <1>1 DEF SendPart
<1>3. i \in 1..Objects(c) /\ i < next /\ i \notin ToSet(channel) /\ i \notin ToSet(results)
  BY <1>1, <1>2 DEF ScanInv, Once
<1>4. Objects(c) \in Nat /\ i \in 0..Objects(c) /\ i # 0 /\ "take" \in Places /\ 0 \in Nat
  BY <1>3, Part DEF Places
<1>5. /\ DOMAIN crew' = DOMAIN crew /\ crew'[w].at = "take"
      /\ crew' \in [DOMAIN crew' -> [at : Places, index : Nat]]
      /\ \A v \in DOMAIN crew : v # w => crew'[v] = crew[v]
  BY <1>2, <1>4, MovedEffect DEF ScanInv
<1>6. PICK m \in Nat : m = Len(channel)
  BY DEF ScanInv, PoolShape
<1>7. /\ channel' \in Seq(0..Objects(c)) /\ ToSet(channel') = ToSet(channel) \cup {i}
      /\ DOMAIN channel = 1..m /\ DOMAIN channel' = 1..(m + 1)
      /\ \A k \in 1..m : channel'[k] = channel[k]
      /\ channel'[m + 1] = i
  <2>1. channel \in Seq(0..Objects(c))
    BY DEF ScanInv, PoolShape
  <2> QED BY <1>2, <1>4, <1>6, <2>1, AppendSet
<1>8. \A k \in DOMAIN channel' : k = m + 1 \/ k \in DOMAIN channel
  BY <1>7
<1>9. PoolShape(c)'
  BY <1>2, <1>5, <1>7 DEF ScanInv, PoolShape
<1>10. Told'
  <2>1. ASSUME NEW v \in DOMAIN crew, crew[v].at = "tell" PROVE crew'[v].at = "tell"
    BY <1>2, <1>5, <2>1
  <2> QED BY <1>2, <1>5, <1>7, <2>1 DEF ScanInv, Told
<1>11. Through(c)'
  <2>1. ASSUME ~cancelled, NEW v \in DOMAIN crew'
        PROVE  crew'[v].at # "tell" /\ (crew'[v].at \in {"close", "done"} => next' > Objects(c))
    BY <1>2, <1>5, <2>1 DEF ScanInv, Through
  <2> QED BY <1>2, <2>1 DEF Through
<1>12. Held(c)'
  <2>1. ASSUME ~cancelled, NEW j \in 1..Objects(c), j < next
        PROVE  \/ \E v \in DOMAIN crew' : Sends(v, j)'
               \/ j \in ToSet(channel')
               \/ MarksOf(c, j) > 0 => j \in ToSet(results')
    <3>1. \/ \E v \in DOMAIN crew : Sends(v, j)
          \/ j \in ToSet(channel)
          \/ MarksOf(c, j) > 0 => j \in ToSet(results)
      BY <2>1 DEF ScanInv, Held
    <3>2. ASSUME NEW v \in DOMAIN crew, Sends(v, j)
          PROVE  j \in ToSet(channel') \/ (Sends(v, j)' /\ v \in DOMAIN crew')
      <4>1. CASE v = w
        BY <1>1, <1>7, <3>2, <4>1 DEF Sends
      <4>2. CASE v # w
        BY <1>5, <3>2, <4>2 DEF Sends
      <4> QED BY <4>1, <4>2
    <3> QED BY <1>2, <1>7, <3>1, <3>2
  <2> QED BY <1>2, <2>1 DEF Held, Sends
<1>13. Once(c)'
  <2>1. \A v \in DOMAIN crew' : crew'[v].at = "send" => v \in DOMAIN crew /\ v # w /\ crew'[v] = crew[v]
    BY <1>5
  <2>2. \A v \in DOMAIN crew' : crew'[v].at = "send" => crew'[v].index # i
    BY <1>1, <1>2, <2>1 DEF ScanInv, Once
  <2>3. \A v \in DOMAIN crew' : crew'[v].at = "send" =>
          /\ crew'[v].index \in 1..Objects(c) /\ crew'[v].index < next'
          /\ crew'[v].index \notin ToSet(channel') /\ crew'[v].index \notin ToSet(results')
    BY <1>2, <1>7, <2>1, <2>2 DEF ScanInv, Once
  <2>4. \A v, u \in DOMAIN crew' :
          crew'[v].at = "send" /\ crew'[u].at = "send" /\ crew'[v].index = crew'[u].index => v = u
    BY <2>1 DEF ScanInv, Once
  <2>5. \A k \in DOMAIN channel : channel[k] \in ToSet(channel) /\ channel[k] # i
    BY <1>3 DEF ToSet
  <2>6. ASSUME NEW k \in DOMAIN channel', NEW l \in DOMAIN channel',
               channel'[k] = channel'[l], channel'[k] # 0
        PROVE  k = l
    <3>1. CASE k \in DOMAIN channel /\ l \in DOMAIN channel
      BY <1>7, <2>6, <3>1 DEF ScanInv, Once
    <3>2. CASE k = m + 1 \/ l = m + 1
      BY <1>7, <1>8, <2>5, <2>6, <3>2
    <3> QED BY <1>8, <3>1, <3>2
  <2>7. ASSUME NEW k \in DOMAIN channel' PROVE channel'[k] < next' /\ channel'[k] \notin ToSet(results')
    <3>1. CASE k \in DOMAIN channel
      BY <1>2, <1>7, <3>1 DEF ScanInv, Once
    <3>2. CASE k = m + 1
      BY <1>2, <1>3, <1>7, <3>2
    <3> QED BY <1>8, <3>1, <3>2
  <2>8. IsInjective(results') /\ \A j \in ToSet(results') : j < next'
    BY <1>2 DEF ScanInv, Once
  <2> QED BY <2>3, <2>4, <2>6, <2>7, <2>8 DEF Once
<1>14. Count(c)'
  BY <1>2 DEF ScanInv, Count
<1> QED BY <1>9, <1>10, <1>11, <1>12, <1>13, <1>14 DEF ScanInv

\* A thread sends its error.
LEMMA TellScan ==
  ASSUME NEW c \in Heads, ScanInv(c), NEW w \in DOMAIN crew, Tell(w)
  PROVE  ScanInv(c)'
<1>1. /\ crew[w].at = "tell" /\ channel' = Append(channel, 0) /\ Moved(w, "done", 0)
      /\ UNCHANGED <<next, cancelled, counted, results, objects, errors>>
  BY DEF Tell
<1>2. cancelled'
  BY <1>1 DEF ScanInv, Through
<1>3. Objects(c) \in Nat /\ 0 \in 0..Objects(c) /\ "done" \in Places /\ 0 \in Nat
  BY Part DEF Places
<1>4. /\ DOMAIN crew' = DOMAIN crew /\ crew'[w].at = "done"
      /\ crew' \in [DOMAIN crew' -> [at : Places, index : Nat]]
      /\ \A v \in DOMAIN crew : v # w => crew'[v] = crew[v]
  BY <1>1, <1>3, MovedEffect DEF ScanInv
<1>5. PICK m \in Nat : m = Len(channel)
  BY DEF ScanInv, PoolShape
<1>6. /\ channel' \in Seq(0..Objects(c)) /\ ToSet(channel') = ToSet(channel) \cup {0}
      /\ DOMAIN channel = 1..m /\ DOMAIN channel' = 1..(m + 1)
      /\ \A k \in 1..m : channel'[k] = channel[k]
      /\ channel'[m + 1] = 0
  <2>1. channel \in Seq(0..Objects(c))
    BY DEF ScanInv, PoolShape
  <2> QED BY <1>1, <1>3, <1>5, <2>1, AppendSet
<1>7. \A k \in DOMAIN channel' : k = m + 1 \/ k \in DOMAIN channel
  BY <1>6
<1>8. PoolShape(c)'
  BY <1>1, <1>4, <1>6 DEF ScanInv, PoolShape
<1>9. Told'
  BY <1>6 DEF Told
<1>10. Through(c)' /\ Held(c)' /\ Count(c)'
  BY <1>2 DEF Through, Held, Count
<1>11. Once(c)'
  <2>1. \A v \in DOMAIN crew' : crew'[v].at = "send" => v \in DOMAIN crew /\ v # w /\ crew'[v] = crew[v]
    BY <1>4
  <2>2. 0 \notin 1..Objects(c) /\ 0 < next
    BY <1>3 DEF ScanInv, PoolShape
  <2>3. \A v \in DOMAIN crew' : crew'[v].at = "send" =>
          /\ crew'[v].index \in 1..Objects(c) /\ crew'[v].index < next'
          /\ crew'[v].index \notin ToSet(channel') /\ crew'[v].index \notin ToSet(results')
    BY <1>1, <1>6, <2>1, <2>2 DEF ScanInv, Once
  <2>4. \A v, u \in DOMAIN crew' :
          crew'[v].at = "send" /\ crew'[u].at = "send" /\ crew'[v].index = crew'[u].index => v = u
    BY <2>1 DEF ScanInv, Once
  <2>5. ASSUME NEW k \in DOMAIN channel', NEW l \in DOMAIN channel',
               channel'[k] = channel'[l], channel'[k] # 0
        PROVE  k = l
    <3>1. k \in DOMAIN channel /\ l \in DOMAIN channel
      BY <1>6, <1>7, <2>5
    <3> QED BY <1>6, <2>5, <3>1 DEF ScanInv, Once
  <2>6. 0 \notin ToSet(results)
    <3>1. results \in Seq(1..Objects(c))
      BY DEF ScanInv, PoolShape
    <3>2. \A k \in DOMAIN results : results[k] \in 1..Objects(c)
      BY <1>3, <3>1
    <3>3. \A k \in DOMAIN results : results[k] # 0
      BY <2>2, <3>2
    <3> QED BY <3>3 DEF ToSet
  <2>7. ASSUME NEW k \in DOMAIN channel' PROVE channel'[k] < next' /\ channel'[k] \notin ToSet(results')
    <3>1. CASE k \in DOMAIN channel
      BY <1>1, <1>6, <3>1 DEF ScanInv, Once
    <3>2. CASE k = m + 1
      BY <1>1, <1>6, <2>2, <2>6, <3>2
    <3> QED BY <1>7, <3>1, <3>2
  <2>8. IsInjective(results') /\ \A j \in ToSet(results') : j < next'
    BY <1>1 DEF ScanInv, Once
  <2> QED BY <2>3, <2>4, <2>5, <2>7, <2>8 DEF Once
<1> QED BY <1>8, <1>9, <1>10, <1>11 DEF ScanInv

\* The one who waits receives a result or an error.
LEMMA ReceiveScan ==
  ASSUME NEW c \in Heads, ScanInv(c), Receive(c)
  PROVE  ScanInv(c)'
<1>1. PICK i : i = Head(channel)
  OBVIOUS
<1>2. PICK rest : rest = Tail(channel)
  OBVIOUS
<1>3. /\ channel # <<>> /\ channel' = rest /\ errors' = (errors \/ i = 0)
      /\ results' = IF i # 0 /\ MarksOf(c, i) > 0 THEN Append(results, i) ELSE results
      /\ UNCHANGED <<crew, next, cancelled, counted>>
  BY <1>1, <1>2 DEF Receive, Received, MarksOf
<1>4. channel \in Seq(0..Objects(c)) /\ results \in Seq(1..Objects(c)) /\ Objects(c) \in Nat
  BY Part DEF ScanInv, PoolShape
<1>5. /\ rest \in Seq(0..Objects(c)) /\ i \in 0..Objects(c) /\ ToSet(channel) = ToSet(rest) \cup {i}
      /\ \A k \in DOMAIN rest : k + 1 \in DOMAIN channel /\ k + 1 # 1 /\ rest[k] = channel[k + 1]
      /\ 1 \in DOMAIN channel /\ i = channel[1] /\ \A k \in DOMAIN rest : k \in Nat
  BY <1>1, <1>2, <1>3, <1>4, TailSet
<1>6. i # 0 => i \in 1..Objects(c) /\ MarksOf(c, i) \in Nat
  BY <1>4, <1>5, Part
<1>7. \/ results' = results /\ (i # 0 => ~(MarksOf(c, i) > 0))
      \/ i # 0 /\ results' = Append(results, i)
  BY <1>3
<1>8. /\ results' \in Seq(1..Objects(c)) /\ ToSet(results) \subseteq ToSet(results')
      /\ ToSet(results') \subseteq ToSet(results) \cup {i}
      /\ i # 0 /\ MarksOf(c, i) > 0 => i \in ToSet(results')
  <2>1. CASE results' = results /\ (i # 0 => ~(MarksOf(c, i) > 0))
    BY <1>4, <2>1
  <2>2. CASE i # 0 /\ results' = Append(results, i)
    <3>1. i \in 1..Objects(c)
      BY <1>6, <2>2
    <3>2. results' \in Seq(1..Objects(c)) /\ ToSet(results') = ToSet(results) \cup {i}
      BY <1>4, <2>2, <3>1, AppendSet
    <3> QED BY <3>2
  <2> QED BY <1>7, <2>1, <2>2
<1>9. i \notin ToSet(results) /\ i < next
  BY <1>5 DEF ScanInv, Once
<1>10. i # 0 => i \notin ToSet(rest)
  <2>1. ASSUME i # 0, NEW k \in DOMAIN rest, rest[k] = i PROVE FALSE
    <3>1. k + 1 \in DOMAIN channel /\ k + 1 # 1 /\ channel[k + 1] = channel[1]
      BY <1>5, <2>1
    <3> QED BY <1>5, <2>1, <3>1 DEF ScanInv, Once
  <2> QED BY <2>1 DEF ToSet
<1>11. PoolShape(c)'
  <2>1. errors' \in BOOLEAN
    BY <1>3
  <2> QED BY <1>3, <1>5, <1>8, <2>1 DEF ScanInv, PoolShape
<1>12. Told'
  BY <1>3, <1>5 DEF ScanInv, Told
<1>13. Through(c)'
  BY <1>3 DEF ScanInv, Through
<1>14. Held(c)'
  <2>1. ASSUME ~cancelled, NEW j \in 1..Objects(c), j < next
        PROVE  \/ \E v \in DOMAIN crew : Sends(v, j)
               \/ j \in ToSet(channel')
               \/ MarksOf(c, j) > 0 => j \in ToSet(results')
    <3>1. \/ \E v \in DOMAIN crew : Sends(v, j)
          \/ j \in ToSet(channel)
          \/ MarksOf(c, j) > 0 => j \in ToSet(results)
      BY <2>1 DEF ScanInv, Held
    <3>2. j # 0
      BY <1>4
    <3> QED BY <1>3, <1>5, <1>8, <3>1, <3>2
  <2> QED BY <1>3, <2>1 DEF Held, Sends
<1>15. Once(c)'
  <2>1. /\ \A w \in DOMAIN crew : crew[w].at = "send" =>
             /\ crew[w].index \in 1..Objects(c) /\ crew[w].index < next
             /\ crew[w].index \notin ToSet(channel) /\ crew[w].index \notin ToSet(results)
        /\ \A w, v \in DOMAIN crew :
             crew[w].at = "send" /\ crew[v].at = "send" /\ crew[w].index = crew[v].index => w = v
    BY DEF ScanInv, Once
  <2>2. \A w \in DOMAIN crew : crew[w].at = "send" =>
             crew[w].index \notin ToSet(channel') /\ crew[w].index \notin ToSet(results')
    BY <1>3, <1>5, <1>8, <2>1
  <2>3. ASSUME NEW k \in DOMAIN rest, NEW l \in DOMAIN rest, rest[k] = rest[l], rest[k] # 0
        PROVE  k = l
    <3>1. /\ k + 1 \in DOMAIN channel /\ l + 1 \in DOMAIN channel
          /\ channel[k + 1] = channel[l + 1] /\ channel[k + 1] # 0
      BY <1>5, <2>3
    <3>2. k + 1 = l + 1
      BY <3>1 DEF ScanInv, Once
    <3>3. k \in Nat /\ l \in Nat
      BY <1>5
    <3> QED BY <3>2, <3>3
  <2>4. ASSUME NEW k \in DOMAIN rest PROVE rest[k] < next /\ rest[k] \notin ToSet(results')
    <3>1. rest[k] < next /\ rest[k] \notin ToSet(results)
      BY <1>5 DEF ScanInv, Once
    <3>2. i # 0 => rest[k] # i
      BY <1>10 DEF ToSet
    <3>3. CASE i = 0
      BY <1>7, <3>1, <3>3
    <3>4. CASE i # 0
      BY <1>8, <3>1, <3>2, <3>4
    <3> QED BY <3>3, <3>4
  <2>5. IsInjective(results')
    <3>1. CASE results' = results
      BY <3>1 DEF ScanInv, Once
    <3>2. CASE i # 0 /\ results' = Append(results, i)
      <4>1. i \in 1..Objects(c)
        BY <1>6, <3>2
      <4>2. PICK n \in Nat : n = Len(results)
        BY <1>4
      <4>3. /\ DOMAIN results = 1..n /\ DOMAIN results' = 1..(n + 1)
            /\ \A k \in 1..n : results'[k] = results[k]
            /\ results'[n + 1] = i
        BY <1>4, <3>2, <4>1, <4>2, AppendSet
      <4>4. \A k \in DOMAIN results' : k = n + 1 \/ k \in DOMAIN results
        BY <4>3
      <4>5. \A k \in DOMAIN results : results[k] # i
        BY <1>9 DEF ToSet
      <4>6. IsInjective(results)
        BY DEF ScanInv, Once
      <4> QED BY <4>3, <4>4, <4>5, <4>6 DEF IsInjective
    <3> QED BY <1>7, <3>1, <3>2
  <2>6. \A j \in ToSet(results') : j < next
    BY <1>8, <1>9 DEF ScanInv, Once
  <2> QED BY <1>3, <2>1, <2>2, <2>3, <2>4, <2>5, <2>6 DEF Once
<1>16. Count(c)'
  BY <1>3 DEF ScanInv, Count
<1> QED BY <1>11, <1>12, <1>13, <1>14, <1>15, <1>16 DEF ScanInv

\* Every step of the threads.
LEMMA PoolNext ==
  ASSUME NEW c \in Heads, ScanInv(c), WorkerStep(c)
  PROVE  ScanInv(c)'
<1>1. next \in Nat /\ 0 \in Nat
  BY DEF ScanInv, PoolShape
<1>2. ASSUME NEW w \in DOMAIN crew, TakeObject(c, w) PROVE ScanInv(c)'
  <2>1. crew[w].at = "take" /\ UNCHANGED <<channel, results, objects, errors>>
    BY <1>2 DEF TakeObject
  <2>2. CASE cancelled
    <3>1. Moved(w, "close", 0) /\ UNCHANGED <<next, counted, cancelled>>
      BY <1>2, <2>2 DEF TakeObject
    <3> QED BY <2>1, <2>2, <3>1, CloseScan
  <2>3. CASE ~cancelled /\ next > Objects(c)
    <3>1. next' = next + 1 /\ Moved(w, "close", 0) /\ UNCHANGED <<counted, cancelled>>
      BY <1>2, <2>3 DEF TakeObject, Objects
    <3> QED BY <2>1, <2>3, <3>1, CloseScan
  <2>4. CASE ~cancelled /\ ~(next > Objects(c))
    <3>1. /\ next' = next + 1 /\ counted' = counted + MarksOf(c, next)
          /\ IF Within(counted') THEN Moved(w, "send", next) /\ UNCHANGED cancelled ELSE Failed(w)
      BY <1>2, <2>4 DEF TakeObject, Objects, MarksOf
    <3>2. next <= Objects(c)
      BY <1>1, <2>4, Part
    <3>3. CASE Within(counted')
      BY <2>1, <2>4, <3>1, <3>2, <3>3, NextObject
    <3>4. CASE ~Within(counted')
      BY <2>1, <3>1, <3>4, FailScan
    <3> QED BY <3>3, <3>4
  <2> QED BY <2>2, <2>3, <2>4
<1>3. ASSUME NEW w \in DOMAIN crew, ScanFails(c, w) PROVE ScanInv(c)'
  <2>1. Failed(w) /\ next' \in {next, next + 1} /\ UNCHANGED <<channel, results, errors>>
    BY <1>3 DEF ScanFails
  <2> QED BY <2>1, FailScan
<1>4. ASSUME NEW w \in DOMAIN crew, Close(w) PROVE ScanInv(c)'
  <2>1. /\ crew[w].at = "close" /\ Moved(w, "done", 0)
        /\ UNCHANGED <<next, cancelled, counted, channel, results, objects, errors>>
    BY <1>4 DEF Close
  <2>2. cancelled \/ next > Objects(c)
    BY <2>1 DEF ScanInv, Through
  <2> QED BY <2>1, <2>2, CloseScan
<1> QED BY <1>2, <1>3, <1>4, SendScan, TellScan, ReceiveScan DEF WorkerStep

\* What a scan that ended without an error reports.
LEMMA ScanReports ==
  ASSUME NEW c \in Heads, ScanInv(c), Drained, Complete(c)
  PROVE  Report(c) = ScanOf(c) /\ Within(Len(Report(c)))
<1>1. /\ channel = <<>> /\ ~errors /\ DOMAIN crew # {}
      /\ \A w \in DOMAIN crew : crew[w].at = "done"
  BY DEF Drained, Joined, Complete, ScanInv, PoolShape
<1>2. ToSet(channel) = {}
  BY <1>1 DEF ToSet
<1>3. ~cancelled
  BY <1>1, <1>2 DEF ScanInv, Told
<1>4. next > Objects(c) /\ next \in Nat /\ Objects(c) \in Nat
  BY <1>1, <1>3, Part DEF ScanInv, Through, PoolShape
<1>5. \A i \in 1..Objects(c) : MarksOf(c, i) > 0 => i \in ToSet(results)
  <2>1. \A i \in 1..Objects(c) : i < next
    BY <1>4
  <2> QED BY <1>1, <1>2, <1>3, <2>1 DEF ScanInv, Held, Sends
<1>6. results \in Seq(1..Objects(c)) /\ IsInjective(results)
  BY DEF ScanInv, PoolShape, Once
<1>7. Report(c) = ScanOf(c)
  BY <1>5, <1>6, ReportIs
<1>8. Least(next - 1, Objects(c)) = Objects(c)
  BY <1>4 DEF Least
<1>9. Within(Len(Listing(c)[Objects(c)]))
  BY <1>3, <1>8 DEF ScanInv, Count
<1> QED BY <1>7, <1>9, ListingIs

-----------------------------------------------------------------------------
(* The scan within the workspace. *)

(* The fields of a staged plan and of a snapshot. *)
IsStaged(t) == t = [snapshot |-> t.snapshot, coins |-> t.coins]
IsSnapshot(s) == s = [head |-> s.head, scan |-> s.scan, found |-> s.found]

(* A snapshot with a scan is one of a commit, with all that there is to find. *)
SnapshotExact(s) ==
    s.scan => s.head \in Heads /\ s.found = ScanOf(s.head) /\ Within(Len(s.found))

(* What a process has staged, and the threads it runs. *)
Staging(p) ==
    /\ proc[p].at \in {"snapshot", "scanning"} => IsStaged(proc[p].staged)
    /\ proc[p].at = "scanning" =>
         IsSnapshot(proc[p].staged.snapshot) /\ proc[p].staged.snapshot.head \in Heads
    /\ proc[p].at = "rescanning" => dir.snapshot.scan
    /\ proc[p].at = "swap" => SnapshotExact(proc[p].staged.snapshot)
    /\ Scanning(p) => ScanInv(Scanned(p))

FindInv ==
    /\ head \in Heads
    /\ SnapshotExact(dir.snapshot)
    /\ \A p \in Processes : Staging(p)
    /\ (\A p \in Processes : ~Scanning(p)) => Quiet

(* At first there is no snapshot. *)
LEMMA InitFind == Init => FindInv
<1> SUFFICES ASSUME Init PROVE FindInv
  OBVIOUS
<1>1. dir.snapshot.scan = FALSE
  BY FreshShape DEF Init, NoSnapshot
<1>2. \A p \in Processes : proc[p].at = "idle"
  BY IdleShape DEF Init
<1>3. \A p \in Processes : Staging(p)
  BY <1>2 DEF Staging, Scanning
<1>4. head \in Heads /\ Quiet
  BY DEF Init
<1> QED BY <1>1, <1>3, <1>4 DEF FindInv, SnapshotExact

(* While p steps nobody else scans, so that p's own part is what matters. *)
LEMMA FindMoved ==
  ASSUME FindInv, NEW p \in Processes, Apart(p), Alone(p), head' \in Heads,
         SnapshotExact(dir'.snapshot), Staging(p)', Scanning(p)' \/ Quiet'
  PROVE  FindInv'
<1>1. ASSUME NEW q \in Processes PROVE Staging(q)'
  <2>1. CASE q = p BY <2>1
  <2>2. CASE q # p
    <3>1. proc'[q] = proc[q] /\ ~Scanning(q)
      BY <2>2 DEF Alone, Apart
    <3>2. Staging(q)
      BY DEF FindInv
    <3>3. proc'[q].at \notin {"scanning", "rescanning"}
      BY <3>1 DEF Scanning
    <3>4. /\ proc'[q].at = "snapshot" => IsStaged(proc'[q].staged)
          /\ proc'[q].at = "swap" => SnapshotExact(proc'[q].staged.snapshot)
      BY <3>1, <3>2 DEF Staging
    <3> QED BY <3>3, <3>4 DEF Staging, Scanning
  <2> QED BY <2>1, <2>2
<1>2. (\A q \in Processes : ~Scanning(q))' => Quiet'
  OBVIOUS
<1> QED BY <1>1, <1>2 DEF FindInv

(* Nobody scans before a step of p that is not one of its scan. *)
LEMMA QuietNow ==
  ASSUME FindInv, NEW p \in Processes, Apart(p), ~Scanning(p)
  PROVE  Quiet
  BY DEF FindInv, Apart

(* The places where nothing is staged or scanned. *)
Busy == {"snapshot", "scanning", "rescanning", "swap"}

(* A step to such a place that keeps the snapshot, and the pool or ends it. *)
LEMMA FindKept ==
  ASSUME FindInv, NEW p \in Processes, Apart(p), Alone(p), head' = head,
         dir'.snapshot = dir.snapshot, proc'[p].at \notin Busy,
         PoolEnds \/ (~Scanning(p) /\ UNCHANGED pool)
  PROVE  FindInv'
<1>1. Quiet'
  <2>1. CASE PoolEnds BY <2>1 DEF PoolEnds, Quiet
  <2>2. CASE ~Scanning(p) /\ UNCHANGED pool
    BY <2>2, QuietNow DEF Quiet, pool
  <2> QED BY <2>1, <2>2
<1>2. Staging(p)'
  BY DEF Staging, Scanning, Busy
<1>3. head' \in Heads /\ SnapshotExact(dir'.snapshot)
  BY DEF FindInv
<1> QED BY <1>1, <1>2, <1>3, FindMoved

(* In particular the end of a command, whatever it was doing. *)
LEMMA FindQuits ==
  ASSUME IInv, FindInv, NEW p \in Processes, Apart(p), Quits(p), head' = head,
         dir'.snapshot = dir.snapshot, PoolEnds \/ (~Scanning(p) /\ UNCHANGED pool)
  PROVE  FindInv'
<1>1. Alone(p) /\ proc'[p].at \notin Busy
  BY QuitsAlone DEF Busy
<1> QED BY <1>1, FindKept

(* The commands start with nothing staged but the default. *)
LEMMA FindStart ==
  ASSUME IInv, FindInv, NEW p \in Processes, Apart(p), Start(p)
  PROVE  FindInv'
<1>1. proc[p].at = "idle" /\ UNCHANGED <<head, dir, pool>>
  BY DEF Start, StartPrepare, Inspect, AskReview, Starts, At, KeepsLock
<1>2. ~Scanning(p)
  BY <1>1 DEF Scanning
<1>3. ASSUME NEW cmd, NEW scan, StartPrepare(p, cmd, scan) PROVE FindInv'
  <2>1. PICK s : s = [Idle EXCEPT !.at = "snapshot", !.cmd = cmd, !.scan = scan]
    OBVIOUS
  <2>2. IsProc(s) /\ s.at = "snapshot" /\ s.staged = NoPlan
    BY <2>1 DEF IsProc, Idle
  <2>3. Becomes(p, s)
    BY <1>3, <2>1 DEF StartPrepare
  <2>4. Alone(p) /\ proc'[p] = s
    BY <2>2, <2>3, BecomesAlone
  <2>5. IsStaged(NoPlan)
    BY DEF IsStaged, NoPlan
  <2>6. Staging(p)'
    BY <2>2, <2>4, <2>5 DEF Staging, Scanning
  <2>7. Quiet'
    BY <1>1, <1>2, QuietNow DEF Quiet, pool
  <2>8. head' \in Heads /\ SnapshotExact(dir'.snapshot)
    BY <1>1 DEF FindInv
  <2> QED BY <2>4, <2>6, <2>7, <2>8, FindMoved
<1>4. ASSUME NEW cmd, Inspect(p, cmd) PROVE FindInv'
  <2>1. PICK s : s = [Idle EXCEPT !.at = "report", !.cmd = cmd, !.plan = dir.plan]
    OBVIOUS
  <2>2. IsProc(s) /\ s.at = "report"
    BY <2>1 DEF IsProc, Idle
  <2>3. Becomes(p, s)
    BY <1>4, <2>1 DEF Inspect
  <2> QED BY <1>1, <1>2, <2>2, <2>3, BecomesAlone, FindKept DEF Busy
<1>5. ASSUME NEW classes, AskReview(p, classes) PROVE FindInv'
  <2>1. PICK s : s = [Idle EXCEPT !.at = "review", !.cmd = "review", !.classes = classes]
    OBVIOUS
  <2>2. IsProc(s) /\ s.at = "review"
    BY <2>1 DEF IsProc, Idle
  <2>3. Becomes(p, s)
    BY <1>5, <2>1 DEF AskReview
  <2> QED BY <1>1, <1>2, <2>2, <2>3, BecomesAlone, FindKept DEF Busy
<1> QED BY <1>3, <1>4, <1>5 DEF Start

(* workspace::snapshot: what is there is reused, or HEAD is frozen and its  *)
(* scan begins.                                                             *)
LEMMA FindSnapshot ==
  ASSUME IInv, FindInv, NEW p \in Processes, Apart(p), Snapshot(p)
  PROVE  FindInv'
<1>1. proc[p].at = "snapshot" /\ UNCHANGED <<head, dir>>
  BY DEF Snapshot, At, world
<1>2. ~Scanning(p)
  BY <1>1 DEF Scanning
<1>3. CASE Reusable(proc[p].scan)
  <2>1. Goto(p, "found") /\ UNCHANGED pool
    BY <1>3 DEF Snapshot
  <2>2. Alone(p) /\ proc'[p].at = "found"
    BY <2>1, GotoAlone
  <2> QED BY <1>1, <1>2, <2>1, <2>2, FindKept DEF Busy
<1>4. CASE ~Reusable(proc[p].scan)
  <2>1. PICK f : f = [head |-> head, scan |-> proc[p].scan, found |-> <<>>]
    OBVIOUS
  <2>2. PICK at : at = IF f.scan THEN "scanning" ELSE "swap"
    OBVIOUS
  <2>3. PICK s : s = [proc[p] EXCEPT !.staged.snapshot = f, !.at = at]
    OBVIOUS
  <2>4. /\ Becomes(p, s)
        /\ IF f.scan THEN PoolStarts(head) ELSE UNCHANGED pool
    BY <1>4, <2>1, <2>2, <2>3 DEF Snapshot
  <2>5. IsProc(proc[p]) /\ IsStaged(proc[p].staged)
    BY <1>1 DEF IInv, Shape, FindInv, Staging
  <2>6. IsProc(s) /\ s.at = at /\ s.staged = [proc[p].staged EXCEPT !.snapshot = f]
    BY <2>3, <2>5 DEF IsProc
  <2>7. IsStaged(s.staged) /\ s.staged.snapshot = f
    BY <2>5, <2>6 DEF IsStaged
  <2>8. Alone(p) /\ proc'[p] = s
    BY <2>4, <2>6, BecomesAlone
  <2>9. head' \in Heads /\ SnapshotExact(dir'.snapshot)
    BY <1>1 DEF FindInv
  <2>10. IsSnapshot(f) /\ f.head = head
    BY <2>1 DEF IsSnapshot
  <2>11. CASE f.scan
    <3>1. at = "scanning" /\ PoolStarts(head)
      BY <2>2, <2>4, <2>11
    <3>2. ScanInv(head)'
      BY <1>1, <1>2, <2>9, <3>1, QuietNow, StartScan
    <3>3. Scanned(p)' = head /\ Scanning(p)'
      BY <2>6, <2>7, <2>8, <2>10, <3>1 DEF Scanned, Scanning, At
    <3>4. ScanInv(Scanned(p))'
      BY <1>1, <3>2, <3>3
    <3>5. Staging(p)'
      BY <1>1, <2>6, <2>7, <2>8, <2>9, <2>10, <3>1, <3>4 DEF Staging
    <3> QED BY <2>8, <2>9, <3>3, <3>5, FindMoved
  <2>12. CASE ~f.scan
    <3>1. at = "swap" /\ UNCHANGED pool
      BY <2>2, <2>4, <2>12
    <3>2. Staging(p)'
      BY <2>6, <2>7, <2>8, <2>12, <3>1 DEF Staging, Scanning, SnapshotExact
    <3>3. Quiet'
      BY <1>2, <3>1, QuietNow DEF Quiet, pool
    <3> QED BY <2>8, <2>9, <3>2, <3>3, FindMoved
  <2> QED BY <2>11, <2>12
<1> QED BY <1>3, <1>4

(* A step of the scan's threads. *)
LEMMA FindPool ==
  ASSUME IInv, FindInv, NEW p \in Processes, Apart(p), PoolStep(p)
  PROVE  FindInv'
<1>1. Scanning(p) /\ WorkerStep(Scanned(p)) /\ UNCHANGED <<head, dir, proc>>
  BY DEF PoolStep, world
<1>2. Staging(p) /\ Alone(p)
  BY <1>1 DEF FindInv, IInv, Shape, Alone
<1>3. Scanned(p) \in Heads
  <2>1. CASE proc[p].at = "scanning"
    BY <1>2, <2>1 DEF Staging, Scanned, At
  <2>2. CASE proc[p].at = "rescanning"
    BY <1>2, <2>2 DEF Staging, Scanned, At, FindInv, SnapshotExact
  <2> QED BY <1>1, <2>1, <2>2 DEF Scanning
<1>4. ScanInv(Scanned(p))
  BY <1>1, <1>2 DEF Staging
<1>5. PICK c \in Heads : c = Scanned(p)
  BY <1>3
<1>6. ScanInv(c)'
  BY <1>1, <1>4, <1>5, PoolNext
<1>7. Scanned(p)' = c /\ Scanning(p)'
  BY <1>1, <1>5 DEF Scanned, Scanning, At
<1>8. ScanInv(Scanned(p))'
  BY <1>6, <1>7
<1>9. Staging(p)'
  BY <1>1, <1>2, <1>8 DEF Staging, SnapshotExact
<1>10. head' \in Heads /\ SnapshotExact(dir'.snapshot)
  BY <1>1 DEF FindInv
<1> QED BY <1>2, <1>7, <1>9, <1>10, FindMoved

(* The report of a frozen commit is stored, when all threads are done. *)
LEMMA FindScanEnds ==
  ASSUME IInv, FindInv, NEW p \in Processes, Apart(p), ScanEnds(p)
  PROVE  FindInv'
<1>1. /\ proc[p].at = "scanning" /\ Drained /\ PoolEnds /\ UNCHANGED <<head, dir>>
  BY DEF ScanEnds, At, world
<1>2. CASE Quits(p)
  BY <1>1, <1>2, FindQuits
<1>3. CASE ~Quits(p)
  <2>1. PICK c : c = Scanned(p)
    OBVIOUS
  <2>2. PICK f : f = Report(c)
    OBVIOUS
  <2>3. PICK s : s = [proc[p] EXCEPT !.at = "swap", !.staged.snapshot.found = f]
    OBVIOUS
  <2>4. Complete(c) /\ Becomes(p, s)
    BY <1>1, <1>3, <2>1, <2>2, <2>3 DEF ScanEnds
  <2>5. Staging(p) /\ IsProc(proc[p])
    BY DEF FindInv, IInv, Shape
  <2>6. IsStaged(proc[p].staged) /\ IsSnapshot(proc[p].staged.snapshot)
    BY <1>1, <2>5 DEF Staging
  <2>7. c \in Heads /\ c = proc[p].staged.snapshot.head /\ ScanInv(c)
    BY <1>1, <2>1, <2>5 DEF Staging, Scanned, Scanning, At
  <2>8. f = ScanOf(c) /\ Within(Len(f))
    BY <1>1, <2>2, <2>4, <2>7, ScanReports
  <2>9. /\ IsProc(s) /\ s.at = "swap"
        /\ s.staged = [proc[p].staged EXCEPT !.snapshot.found = f]
    BY <2>3, <2>5 DEF IsProc
  <2>10. s.staged.snapshot = [proc[p].staged.snapshot EXCEPT !.found = f]
    BY <2>6, <2>9 DEF IsStaged
  <2>11. s.staged.snapshot.head = c /\ s.staged.snapshot.found = f
    BY <2>6, <2>7, <2>10 DEF IsSnapshot
  <2>12. SnapshotExact(s.staged.snapshot)
    BY <2>7, <2>8, <2>11 DEF SnapshotExact
  <2>13. Alone(p) /\ proc'[p] = s
    BY <2>4, <2>9, BecomesAlone
  <2>14. Staging(p)'
    BY <2>9, <2>12, <2>13 DEF Staging, Scanning
  <2>15. Quiet'
    BY <1>1 DEF PoolEnds, Quiet
  <2>16. head' \in Heads /\ SnapshotExact(dir'.snapshot)
    BY <1>1 DEF FindInv
  <2> QED BY <2>13, <2>14, <2>15, <2>16, FindMoved
<1> QED BY <1>2, <1>3

(* The exchange puts the staged snapshot into the directory. *)
LEMMA FindSwap ==
  ASSUME IInv, FindInv, NEW p \in Processes, Apart(p), SwapSnapshot(p)
  PROVE  FindInv'
<1>1. /\ proc[p].at = "swap" /\ UNCHANGED <<head, pool>> /\ Goto(p, "found")
      /\ dir' = Fresh(proc[p].staged.snapshot, NoPlan)
  BY DEF SwapSnapshot, At, world, KeepsLock
<1>2. Alone(p) /\ proc'[p].at = "found"
  BY <1>1, GotoAlone
<1>3. SnapshotExact(dir'.snapshot)
  BY <1>1, FreshShape DEF FindInv, Staging
<1>4. Quiet'
  BY <1>1, QuietNow DEF Quiet, pool, Scanning
<1>5. Staging(p)'
  BY <1>2 DEF Staging, Scanning
<1> QED BY <1>1, <1>2, <1>3, <1>4, <1>5, FindMoved DEF FindInv

(* record_review scans the snapshot once more, *)
LEMMA FindBegins ==
  ASSUME IInv, FindInv, NEW p \in Processes, Apart(p), BeginReview(p)
  PROVE  FindInv'
<1>1. proc[p].at = "review" /\ UNCHANGED <<head, dir>>
  BY DEF BeginReview, At, world
<1>2. ~Scanning(p)
  BY <1>1 DEF Scanning
<1>3. CASE Quits(p) /\ UNCHANGED pool
  BY <1>1, <1>2, <1>3, FindQuits
<1>4. CASE ~(Quits(p) /\ UNCHANGED pool)
  <2>1. /\ Goto(p, IF dir.snapshot.scan THEN "rescanning" ELSE "record")
        /\ IF dir.snapshot.scan THEN PoolStarts(dir.snapshot.head) ELSE UNCHANGED pool
    BY <1>4 DEF BeginReview
  <2>2. CASE ~dir.snapshot.scan
    <3>1. Goto(p, "record") /\ UNCHANGED pool
      BY <2>1, <2>2
    <3>2. Alone(p) /\ proc'[p].at = "record"
      BY <3>1, GotoAlone
    <3> QED BY <1>1, <1>2, <3>1, <3>2, FindKept DEF Busy
  <2>3. CASE dir.snapshot.scan
    <3>1. PICK c \in Heads : c = dir.snapshot.head
      BY <2>3 DEF FindInv, SnapshotExact
    <3>2. Goto(p, "rescanning") /\ PoolStarts(c)
      BY <2>1, <2>3, <3>1
    <3>3. Alone(p) /\ proc'[p].at = "rescanning"
      BY <3>2, GotoAlone
    <3>4. ScanInv(c)'
      BY <1>2, <3>2, QuietNow, StartScan
    <3>5. Scanned(p)' = c /\ Scanning(p)'
      BY <1>1, <3>1, <3>3 DEF Scanned, Scanning, At
    <3>6. ScanInv(Scanned(p))'
      BY <3>4, <3>5
    <3>7. Staging(p)'
      BY <1>1, <2>3, <3>3, <3>6 DEF Staging
    <3>8. head' \in Heads /\ SnapshotExact(dir'.snapshot)
      BY <1>1 DEF FindInv
    <3> QED BY <3>3, <3>5, <3>7, <3>8, FindMoved
  <2> QED BY <2>2, <2>3
<1> QED BY <1>3, <1>4

(* and only compares what it finds. *)
LEMMA FindRescanEnds ==
  ASSUME IInv, FindInv, NEW p \in Processes, Apart(p), RescanEnds(p)
  PROVE  FindInv'
<1>1. PoolEnds /\ UNCHANGED <<head, dir>> /\ (Goto(p, "record") \/ Quits(p))
  BY DEF RescanEnds, world
<1>2. Alone(p) /\ proc'[p].at \notin Busy
  BY <1>1, GotoAlone, QuitsAlone DEF Busy
<1> QED BY <1>1, <1>2, FindKept

(* Errors and kills end the scan with the command. *)
LEMMA FindFails ==
  ASSUME IInv, FindInv, NEW p \in Processes, Apart(p), Fail(p) \/ Kill(p)
  PROVE  FindInv'
<1>1. Quits(p) /\ head' = head /\ (PoolEnds \/ (~Scanning(p) /\ UNCHANGED pool))
  BY DEF Fail, Kill, world
<1>2. dir'.snapshot = dir.snapshot
  BY DEF Fail, Kill, IInv, Shape, IsDir, world
<1> QED BY <1>1, <1>2, FindQuits

(* All other steps of a command neither stage a snapshot nor run threads. *)
LEMMA FindGoes ==
  ASSUME IInv, FindInv, NEW p \in Processes, Apart(p), proc[p].at \notin Busy \ {"snapshot", "swap"},
         UNCHANGED <<head, pool>>, dir'.snapshot = dir.snapshot,
         NEW at \in {"preflight", "sign", "approve", "publish", "review", "attempt", "write",
                     "store", "send", "stop"},
         Goto(p, at) \/ Quits(p)
  PROVE  FindInv'
<1>1. ~Scanning(p)
  BY DEF Scanning, Busy
<1>2. Alone(p) /\ proc'[p].at \notin Busy
  BY GotoAlone, QuitsAlone DEF Busy
<1> QED BY <1>1, <1>2, FindKept

(* prepare after its snapshot *)
LEMMA FindPrepares ==
  ASSUME IInv, FindInv, NEW p \in Processes, Apart(p),
         \/ Refuse(p) \/ CheckFunds(p) \/ Sign(p) \/ SwapPlan(p)
         \/ \E tested \in BOOLEAN : Ready(p, tested)
  PROVE  FindInv'
<1>1. UNCHANGED <<head, pool>>
  BY DEF Refuse, CheckFunds, Sign, SwapPlan, Ready, world, KeepsLock
<1>2. dir'.snapshot = dir.snapshot
  BY FreshShape DEF Refuse, CheckFunds, Sign, SwapPlan, Ready, world, Copied
<1>3. CASE Refuse(p)
  <2>1. Quits(p) /\ ~Scanning(p)
    BY <1>3 DEF Refuse, Scanning, At
  <2> QED BY <1>1, <1>2, <2>1, FindQuits
<1>4. CASE CheckFunds(p)
  <2>1. proc[p].at = "found" /\ (Goto(p, "sign") \/ Quits(p))
    BY <1>4 DEF CheckFunds, At
  <2> QED BY <1>1, <1>2, <2>1, FindGoes DEF Busy
<1>5. CASE Sign(p)
  <2>1. proc[p].at = "sign"
    BY <1>5 DEF Sign, At
  <2>2. CASE Goto(p, "preflight") \/ Quits(p)
    BY <1>1, <1>2, <2>1, <2>2, FindGoes DEF Busy
  <2>3. CASE ~(Goto(p, "preflight") \/ Quits(p))
    <3>1. PICK t : Becomes(p, [proc[p] EXCEPT !.at = "swap plan", !.staged = t])
      BY <1>5, <2>3 DEF Sign
    <3>2. PICK s : s = [proc[p] EXCEPT !.at = "swap plan", !.staged = t]
      OBVIOUS
    <3>3. IsProc(proc[p])
      BY DEF IInv, Shape
    <3>4. IsProc(s) /\ s.at = "swap plan" /\ Becomes(p, s)
      BY <3>1, <3>2, <3>3 DEF IsProc
    <3>5. Alone(p) /\ proc'[p].at = "swap plan" /\ ~Scanning(p)
      BY <2>1, <3>4, BecomesAlone DEF Scanning
    <3> QED BY <1>1, <1>2, <3>5, FindKept DEF Busy
  <2> QED BY <2>2, <2>3
<1>6. CASE SwapPlan(p)
  <2>1. proc[p].at = "swap plan" /\ Goto(p, "preflight")
    BY <1>6 DEF SwapPlan, At
  <2> QED BY <1>1, <1>2, <2>1, FindGoes DEF Busy
<1>7. ASSUME NEW tested, Ready(p, tested) PROVE FindInv'
  <2>1. PICK s : s = [Idle EXCEPT !.at = "describe", !.cmd = "publish", !.plan = dir.plan, !.clean = TRUE]
    OBVIOUS
  <2>2. IsProc(s) /\ s.at = "describe"
    BY <2>1 DEF IsProc, Idle
  <2>3. (Quits(p) \/ Becomes(p, s)) /\ ~Scanning(p)
    BY <1>7, <2>1 DEF Ready, Scanning, At
  <2>4. Alone(p) /\ proc'[p].at \notin Busy
    BY <2>2, <2>3, BecomesAlone, QuitsAlone DEF Busy
  <2> QED BY <1>1, <1>2, <2>3, <2>4, FindKept
<1> QED BY <1>3, <1>4, <1>5, <1>6, <1>7

(* review and publish, but for the scan of the review *)
LEMMA FindPublishes ==
  ASSUME IInv, FindInv, NEW p \in Processes, Apart(p),
         \/ ReadReport(p) \/ Describe(p) \/ Approve(p) \/ Record(p) \/ WriteReview(p)
         \/ BeginPass(p) \/ Attempt(p) \/ Unavailable(p) \/ Send(p) \/ Store(p)
  PROVE  FindInv'
<1>1. UNCHANGED <<head, pool>>
  BY DEF ReadReport, Describe, Approve, Record, WriteReview, BeginPass, Attempt, Unavailable,
         Send, Store, world, KeepsLock
<1>2. IsDir(dir) /\ IsProc(proc[p])
  BY DEF IInv, Shape
<1>3. dir'.snapshot = dir.snapshot
  <2>1. CASE UNCHANGED dir BY <2>1
  <2>2. CASE Record(p) BY <1>2, <2>2 DEF Record, IsDir
  <2>3. CASE WriteReview(p) BY <1>2, <2>3 DEF WriteReview, IsDir
  <2>4. CASE Attempt(p) BY <1>2, <2>4 DEF Attempt, IsDir
  <2>5. CASE Store(p) BY <1>2, <2>5 DEF Store, IsDir
  <2> QED BY <2>1, <2>2, <2>3, <2>4, <2>5 DEF ReadReport, Describe, Approve, BeginPass,
             Unavailable, Send, world
<1>4. CASE ReadReport(p)
  <2>1. PICK clean : clean = (dir.snapshot.found = <<>>)
    OBVIOUS
  <2>2. PICK at : at = IF proc[p].cmd = "resume" THEN "approve" ELSE "describe"
    OBVIOUS
  <2>3. PICK s : s = [proc[p] EXCEPT !.clean = clean, !.at = at]
    OBVIOUS
  <2>4. IsProc(s) /\ s.at = at /\ at \notin Busy
    BY <1>2, <2>2, <2>3 DEF IsProc, Busy
  <2>5. Becomes(p, s) /\ ~Scanning(p)
    BY <1>4, <2>1, <2>2, <2>3 DEF ReadReport, Scanning, At
  <2>6. Alone(p) /\ proc'[p] = s
    BY <2>4, <2>5, BecomesAlone
  <2> QED BY <1>1, <1>3, <2>4, <2>5, <2>6, FindKept
<1>5. CASE Describe(p)
  <2>1. ~Scanning(p)
    BY <1>5 DEF Describe, Scanning, At
  <2>2. CASE Quits(p)
    BY <1>1, <1>3, <2>1, <2>2, FindQuits
  <2>3. CASE ~Quits(p)
    <3>1. PICK r : Becomes(p, [proc[p] EXCEPT !.at = "approve", !.reviewed = r])
      BY <1>5, <2>3 DEF Describe
    <3>2. PICK s : s = [proc[p] EXCEPT !.at = "approve", !.reviewed = r]
      OBVIOUS
    <3>3. IsProc(s) /\ s.at = "approve" /\ Becomes(p, s)
      BY <1>2, <3>1, <3>2 DEF IsProc
    <3>4. Alone(p) /\ proc'[p].at \notin Busy
      BY <3>3, BecomesAlone DEF Busy
    <3> QED BY <1>1, <1>3, <2>1, <3>4, FindKept
  <2> QED BY <2>2, <2>3
<1>6. CASE Approve(p)
  BY <1>1, <1>3, <1>6, FindGoes DEF Approve, At, Busy
<1>7. CASE Record(p)
  BY <1>1, <1>3, <1>7, FindGoes DEF Record, At, Busy
<1>8. CASE WriteReview(p)
  BY <1>1, <1>3, <1>8, FindGoes DEF WriteReview, At, Busy
<1>9. CASE BeginPass(p)
  BY <1>1, <1>3, <1>9, FindGoes DEF BeginPass, At, Busy
<1>10. CASE Attempt(p)
  BY <1>1, <1>3, <1>10, FindGoes DEF Attempt, At, Busy
<1>11. CASE Unavailable(p)
  BY <1>1, <1>3, <1>11, FindGoes DEF Unavailable, At, Busy
<1>12. CASE Send(p)
  BY <1>1, <1>3, <1>12, FindGoes DEF Send, At, Busy
<1>13. CASE Store(p)
  BY <1>1, <1>3, <1>13, FindGoes DEF Store, At, Busy
<1> QED BY <1>4, <1>5, <1>6, <1>7, <1>8, <1>9, <1>10, <1>11, <1>12, <1>13

(* What happens in the world while nobody scans leaves snapshots alone. *)
LEMMA FindWorld ==
  ASSUME FindInv, head' \in Heads, UNCHANGED <<dir, proc, pool>>, Apart(None)
  PROVE  FindInv'
<1>1. \A p \in Processes : ~Scanning(p) /\ ~Scanning(p)'
  BY WorkspaceAssumption DEF Apart, Scanning
<1>2. Quiet'
  BY <1>1 DEF FindInv, Quiet, pool
<1>3. \A p \in Processes : Staging(p)'
  BY <1>1 DEF FindInv, Staging
<1> QED BY <1>2, <1>3 DEF FindInv

(* Every step keeps what is staged and what is stored exact. *)
LEMMA FindNext == IInv /\ FindInv /\ [Next]_vars => FindInv'
<1> SUFFICES ASSUME IInv, FindInv, [Next]_vars PROVE FindInv'
  OBVIOUS
<1>1. CASE UNCHANGED vars
  <2>1. UNCHANGED <<head, dir, proc, pool>>
    BY <1>1 DEF vars
  <2>2. \A p \in Processes : Staging(p)'
    BY <2>1 DEF FindInv, Staging, Scanning, Scanned, At, ScanInv, PoolShape, Told, Through, Sends,
                Held, Once, Count, pool
  <2>3. Quiet <=> Quiet'
    BY <2>1 DEF Quiet, pool
  <2> QED BY <2>1, <2>2, <2>3 DEF FindInv, Scanning
<1>2. ASSUME NEW p \in Processes, Apart(p), Step(p) PROVE FindInv'
  BY <1>2, FindSnapshot, FindPool, FindScanEnds, FindSwap, FindBegins, FindRescanEnds,
     FindPrepares, FindPublishes DEF Step
<1>3. ASSUME NEW p \in Processes, Apart(p), Start(p) \/ Fail(p) \/ Kill(p) PROVE FindInv'
  BY <1>3, FindStart, FindFails
<1>4. ASSUME Apart(None), \/ \E c \in Heads : Commit(c)
                          \/ \E k \in Contested : SpendElsewhere(k)
                          \/ Mine
      PROVE  FindInv'
  <2>1. head' \in Heads /\ UNCHANGED <<dir, proc, pool>>
    BY <1>4 DEF Commit, SpendElsewhere, Mine, FindInv
  <2> QED BY <1>4, <2>1, FindWorld
<1> QED BY <1>1, <1>2, <1>3, <1>4 DEF Next

(* A snapshot in the directory has the scan of its whole commit, in the     *)
(* order of the inventory and within the limit of findings, however the     *)
(* threads interleave, whichever of them fails and whoever is killed        *)
(* (scan_pool.rs run_worker, receive and finish; workspace::replace).       *)
THEOREM ScanIsExact == Spec => []ScanExact
<1>1. IInv /\ FindInv => ScanExact
  BY DEF FindInv, SnapshotExact, ScanExact
<1>2. IInv /\ FindInv /\ [Next]_vars => IInv' /\ FindInv'
  BY NextInv, FindNext
<1> QED BY <1>1, <1>2, InitInv, InitFind, PTL DEF Spec
=============================================================================
