---------------------------- MODULE GatewayProofs ----------------------------
(***************************************************************************)
(* The web portal for any number of workers, publications and objects, any *)
(* queue and any budget: a publication is fetched once at a time and nobody *)
(* waits for a fetch that is not under way, the cache counts what it holds, *)
(* and a pointer in the store stands for a whole publication.              *)
(***************************************************************************)
EXTENDS Gateway, SequenceTheorems, FiniteSetTheorems, WellFoundedInduction, TLAPS

-----------------------------------------------------------------------------
(* Sequences without repetition. *)

\* A new element at the end repeats nothing.
LEMMA Appended ==
  ASSUME NEW s \in Seq(Roots), NEW r \in Roots
  PROVE  /\ Append(s, r) \in Seq(Roots)
         /\ ToSet(Append(s, r)) = ToSet(s) \cup {r}
         /\ IsInjective(s) /\ r \notin ToSet(s) => IsInjective(Append(s, r))
<1>1. PICK n \in Nat : n = Len(s)
  OBVIOUS
<1>2. PICK t \in Seq(Roots) : t = Append(s, r)
  BY AppendProperties
<1>3. Len(t) = n + 1 /\ t[n + 1] = r /\ \A i \in 1..n : t[i] = s[i]
  BY <1>1, <1>2
<1>4. DOMAIN s = 1..n /\ DOMAIN t = 1..(n + 1)
  BY <1>1, <1>3
<1>5. \A i \in 1..(n + 1) : i \in 1..n \/ i = n + 1
  OBVIOUS
<1>6. ToSet(t) = ToSet(s) \cup {r}
  <2>1. ASSUME NEW x \in ToSet(t) PROVE x \in ToSet(s) \cup {r}
    BY <1>3, <1>4, <1>5 DEF ToSet
  <2>2. ASSUME NEW x \in ToSet(s) \cup {r} PROVE x \in ToSet(t)
    <3>1. CASE x = r
      <4>1. n + 1 \in DOMAIN t
        BY <1>4
      <4> QED BY <1>3, <3>1, <4>1 DEF ToSet
    <3>2. CASE x \in ToSet(s)
      <4>1. PICK i \in 1..n : s[i] = x
        BY <1>4, <3>2 DEF ToSet
      <4>2. i \in DOMAIN t
        BY <1>4
      <4> QED BY <1>3, <4>1, <4>2 DEF ToSet
    <3> QED BY <3>1, <3>2
  <2> QED BY <2>1, <2>2
<1>7. ASSUME IsInjective(s), r \notin ToSet(s) PROVE IsInjective(t)
  <2> SUFFICES ASSUME NEW i \in 1..(n + 1), NEW j \in 1..(n + 1), t[i] = t[j] PROVE i = j
    BY <1>4 DEF IsInjective
  <2>1. \A k \in 1..n : t[k] \in ToSet(s) /\ t[k] # r
    BY <1>3, <1>4, <1>7 DEF ToSet
  <2>2. CASE i = n + 1 \/ j = n + 1
    BY <1>3, <1>5, <2>1, <2>2
  <2>3. CASE i \in 1..n /\ j \in 1..n
    BY <1>3, <1>4, <1>7, <2>3 DEF IsInjective
  <2> QED BY <1>5, <2>2, <2>3
<1> QED BY <1>2, <1>6, <1>7

\* Taking the head drops exactly that element.
LEMMA Popped ==
  ASSUME NEW s \in Seq(Roots), s # <<>>, IsInjective(s)
  PROVE  /\ Head(s) \in Roots /\ Tail(s) \in Seq(Roots) /\ IsInjective(Tail(s))
         /\ Head(s) \notin ToSet(Tail(s)) /\ ToSet(s) = ToSet(Tail(s)) \cup {Head(s)}
<1>1. PICK n \in Nat : Len(s) = n + 1
  <2>1. Len(s) \in Nat /\ Len(s) # 0
    OBVIOUS
  <2>2. Len(s) - 1 \in Nat /\ Len(s) = (Len(s) - 1) + 1
    BY <2>1
  <2> QED BY <2>2
<1>2. PICK t : t = Tail(s)
  OBVIOUS
<1>3. t \in Seq(Roots) /\ Len(t) = n /\ \A i \in 1..n : t[i] = s[i + 1]
  BY <1>1, <1>2
<1>4. Head(s) = s[1] /\ Head(s) \in Roots
  BY <1>1
<1>5. DOMAIN s = 1..(n + 1) /\ DOMAIN t = 1..n
  BY <1>1, <1>3
<1>6. \A i \in 1..n : i + 1 \in 1..(n + 1) /\ i + 1 # 1
  OBVIOUS
<1>7. 1 \in 1..(n + 1)
  OBVIOUS
<1>8. IsInjective(t)
  <2> SUFFICES ASSUME NEW i \in 1..n, NEW j \in 1..n, t[i] = t[j] PROVE i = j
    BY <1>5 DEF IsInjective
  <2>1. i + 1 = j + 1
    BY <1>3, <1>5, <1>6 DEF IsInjective
  <2> QED BY <2>1
<1>9. \A i \in 1..n : t[i] # s[1]
  BY <1>3, <1>5, <1>6, <1>7 DEF IsInjective
<1>10. Head(s) \notin ToSet(t)
  BY <1>4, <1>5, <1>9 DEF ToSet
<1>11. ASSUME NEW x \in ToSet(s) PROVE x \in ToSet(t) \cup {Head(s)}
  <2>1. PICK i \in 1..(n + 1) : s[i] = x
    BY <1>5 DEF ToSet
  <2>2. CASE i = 1
    BY <1>4, <2>1, <2>2
  <2>3. CASE i # 1
    <3>1. PICK k \in 1..n : i = k + 1
      <4>1. i - 1 \in 1..n /\ i = (i - 1) + 1
        BY <2>3
      <4> QED BY <4>1
    <3> QED BY <1>3, <1>5, <2>1, <3>1 DEF ToSet
  <2> QED BY <2>2, <2>3
<1>12. ASSUME NEW x \in ToSet(t) \cup {Head(s)} PROVE x \in ToSet(s)
  <2>1. CASE x = Head(s)
    BY <1>4, <1>5, <1>7, <2>1 DEF ToSet
  <2>2. CASE x \in ToSet(t)
    BY <1>3, <1>5, <1>6, <2>2 DEF ToSet
  <2> QED BY <2>1, <2>2
<1>13. ToSet(s) = ToSet(t) \cup {Head(s)}
  BY <1>11, <1>12
<1> QED BY <1>2, <1>3, <1>4, <1>8, <1>10, <1>13

\* An empty sequence holds nothing.
LEMMA NoElements ==
    <<>> \in Seq(Roots) /\ ToSet(<<>>) = {} /\ IsInjective(<<>>)
  BY DEF ToSet, IsInjective

-----------------------------------------------------------------------------
(* Requests, jobs and flights. *)

StepNames == {"pins", "payload", "proofs", "pointer", "check"}

Requested ==
    /\ DOMAIN call = Workers
    /\ \A w \in Workers : call[w].phase # "idle" => call[w].root \in Roots

JobInv ==
    /\ queue \in Seq(Roots)
    /\ flights \in [Roots -> {"none", "queued", "landed", "failed", "failed before"}]
    /\ job = NoJob \/ job \in [root : Roots, step : StepNames]
    /\ JobsExact

Waiting == {r \in Roots : flights[r] = "queued"}
Running == {job.root} \ {None}

\* The names of the jobs' steps differ.
LEMMA Names ==
    /\ None \notin Roots /\ Steps = <<"pins", "payload", "proofs", "pointer", "check">>
    /\ Head(Steps) = "pins" /\ NoJob = [root |-> None, step |-> "idle"]
  BY GatewayAssumption DEF Steps, NoJob

\* JobsExact in terms of the jobs that wait and the job that runs.
LEMMA JobsAre == JobsExact <=> /\ IsInjective(queue) /\ ToSet(queue) \cap Running = {}
                              /\ Waiting = ToSet(queue) \cup Running
  BY DEF JobsExact, Running, Waiting

\* launch queues a publication at most once.
LEMMA LaunchJobs ==
  ASSUME JobInv, NEW r \in Roots, Launch(r), job' = job
  PROVE  JobInv'
<1>1. CASE UNCHANGED <<flights, queue>>
  BY <1>1 DEF JobInv, JobsExact
<1>2. CASE ~UNCHANGED <<flights, queue>>
  <2>1. /\ flights[r] # "queued" /\ flights' = [flights EXCEPT ![r] = "queued"]
        /\ queue' = Append(queue, r)
    BY <1>2 DEF Launch
  <2>2. r \notin Waiting /\ Waiting' = Waiting \cup {r}
    BY <2>1 DEF JobInv, Waiting
  <2>3. Running' = Running
    BY DEF Running
  <2>4. r \notin ToSet(queue) /\ r \notin Running
    BY <2>2, JobsAre DEF JobInv
  <2>5. /\ queue' \in Seq(Roots) /\ ToSet(queue') = ToSet(queue) \cup {r}
        /\ IsInjective(queue')
    BY <2>1, <2>4, Appended, JobsAre DEF JobInv
  <2>6. ToSet(queue') \cap Running' = {} /\ Waiting' = ToSet(queue') \cup Running'
    BY <2>2, <2>3, <2>4, <2>5, JobsAre DEF JobInv
  <2>7. JobsExact'
    BY <2>5, <2>6 DEF JobsExact, Running, Waiting
  <2> QED BY <2>1, <2>5, <2>7 DEF JobInv
<1> QED BY <1>1, <1>2

\* fetch_loop moves the head of the queue to the running job.
LEMMA TakeJobs ==
  ASSUME JobInv, Take
  PROVE  JobInv'
<1>1. /\ job = NoJob /\ queue # <<>> /\ job' = [root |-> Head(queue), step |-> "pins"]
      /\ queue' = Tail(queue) /\ flights' = flights
  BY Names DEF Take
<1>2. /\ Head(queue) \in Roots /\ Tail(queue) \in Seq(Roots) /\ IsInjective(Tail(queue))
      /\ Head(queue) \notin ToSet(Tail(queue))
      /\ ToSet(queue) = ToSet(Tail(queue)) \cup {Head(queue)}
  BY <1>1, Popped DEF JobInv, JobsExact
<1>3. Running = {} /\ Running' = {Head(queue)} /\ Waiting' = Waiting
  BY <1>1, <1>2, Names DEF Running, Waiting
<1>4. ToSet(queue') \cap Running' = {} /\ Waiting' = ToSet(queue') \cup Running'
  BY <1>1, <1>2, <1>3, JobsAre DEF JobInv
<1>5. JobsExact'
  BY <1>1, <1>2, <1>4 DEF JobsExact, Running, Waiting
<1>6. job' \in [root : Roots, step : StepNames]
  BY <1>1, <1>2 DEF StepNames
<1> QED BY <1>1, <1>2, <1>5, <1>6 DEF JobInv

\* land clears the mark of the job that ran.
LEMMA LandJobs ==
  ASSUME JobInv, job # NoJob, NEW flight \in {"landed", "failed"}, Land(job.root, flight),
         queue' = queue
  PROVE  JobInv'
<1>1. PICK r \in Roots : r = job.root
  BY DEF JobInv
<1>2. job' = NoJob /\ flights' = [flights EXCEPT ![r] = flight]
  BY <1>1 DEF Land
<1>3. Running = {r} /\ Running' = {}
  BY <1>1, <1>2, Names DEF Running
<1>4. Waiting' = Waiting \ {r}
  BY <1>2 DEF Waiting, JobInv
<1>5. ToSet(queue') \cap Running' = {} /\ Waiting' = ToSet(queue') \cup Running'
  BY <1>3, <1>4, JobsAre DEF JobInv
<1>6. JobsExact'
  BY <1>5 DEF JobInv, JobsExact, Running, Waiting
<1> QED BY <1>2, <1>6 DEF JobInv

\* Where a fetch goes after each of its steps.
LEMMA NextStep ==
  ASSUME NEW step \in StepNames \ {"check"}
  PROVE  LET i == CHOOSE i \in DOMAIN Steps : Steps[i] = step
         IN  /\ step = "pins" => Steps[i + 1] = "payload"
             /\ step = "payload" => Steps[i + 1] = "proofs"
             /\ step = "proofs" => Steps[i + 1] = "pointer"
             /\ step = "pointer" => Steps[i + 1] = "check"
<1>1. DOMAIN Steps = 1..5
  BY DEF Steps
<1>2. /\ Steps[1] = "pins" /\ Steps[2] = "payload" /\ Steps[3] = "proofs"
      /\ Steps[4] = "pointer" /\ Steps[5] = "check"
  BY DEF Steps
<1>3. PICK i : i = CHOOSE k \in DOMAIN Steps : Steps[k] = step
  OBVIOUS
<1>4. i \in 1..5 /\ Steps[i] = step
  BY <1>1, <1>2, <1>3 DEF StepNames
<1>5. i \in {1, 2, 3, 4}
  BY <1>2, <1>4
<1>6. 1 + 1 = 2 /\ 2 + 1 = 3 /\ 3 + 1 = 4 /\ 4 + 1 = 5
  OBVIOUS
<1>7. /\ step = "pins" => Steps[i + 1] = "payload"
      /\ step = "payload" => Steps[i + 1] = "proofs"
      /\ step = "proofs" => Steps[i + 1] = "pointer"
      /\ step = "pointer" => Steps[i + 1] = "check"
  BY <1>2, <1>4, <1>5, <1>6
<1> QED BY <1>3, <1>7

\* What leaves queue, job and flights alone keeps JobInv.
LEMMA JobsUnchanged ==
  ASSUME JobInv, UNCHANGED <<queue, flights, job>>
  PROVE  JobInv'
  BY DEF JobInv, JobsExact

LEMMA StepJobs ==
  ASSUME JobInv, Step
  PROVE  JobInv'
<1>1. job # NoJob /\ queue' = queue
  BY DEF Step
<1>2. CASE job.step = "check"
  BY <1>1, <1>2, LandJobs DEF Step
<1>3. CASE job.step # "check"
  <2>1. PICK i : job' = [job EXCEPT !.step = Steps[i + 1]] /\ flights' = flights
                 /\ i = CHOOSE k \in DOMAIN Steps : Steps[k] = job.step
    BY <1>3 DEF Step
  <2>2. job \in [root : Roots, step : StepNames]
    BY <1>1 DEF JobInv
  <2>3. Steps[i + 1] \in StepNames
    BY <1>3, <2>1, <2>2, NextStep DEF StepNames
  <2>4. job' \in [root : Roots, step : StepNames] /\ job'.root = job.root
    BY <2>1, <2>2, <2>3
  <2> QED BY <1>1, <2>1, <2>4 DEF JobInv, JobsExact
<1> QED BY <1>2, <1>3

LEMMA RetryJobs ==
  ASSUME JobInv, NEW r \in Roots, RetryElapses(r)
  PROVE  JobInv'
<1>1. /\ flights[r] = "failed" /\ flights' = [flights EXCEPT ![r] = "failed before"]
      /\ queue' = queue /\ job' = job
  BY DEF RetryElapses
<1>2. Waiting' = Waiting /\ Running' = Running
  BY <1>1 DEF Waiting, Running, JobInv
<1>3. JobsExact'
  BY <1>1, <1>2 DEF JobInv, JobsExact, Waiting, Running
<1> QED BY <1>1, <1>3 DEF JobInv

\* A restart begins without flights and jobs.
LEMMA RestartJobs ==
  ASSUME Restart
  PROVE  JobInv'
<1>1. flights' = [r \in Roots |-> "none"] /\ queue' = <<>> /\ job' = NoJob
  BY DEF Restart
<1>2. Waiting' = {} /\ Running' = {}
  BY <1>1, Names DEF Waiting, Running
<1>3. JobsExact'
  BY <1>1, <1>2, NoElements DEF JobsExact, Waiting, Running
<1> QED BY <1>1, <1>3, NoElements DEF JobInv

(* Which publication a request is for. *)
LEMMA ServableRoot == Servable(snapshot) # None => Servable(snapshot) \in Roots
  BY DEF Servable, Standing

\* A worker waits only for a publication it was asked for.
LEMMA RequestedNext ==
  ASSUME Requested, [Next]_vars
  PROVE  Requested'
<1>1. CASE call' = call
  BY <1>1 DEF Requested
<1>2. ASSUME NEW w \in Workers, Done(w) PROVE Requested'
  BY <1>2 DEF Done, Idle, Requested
<1>3. ASSUME NEW w \in Workers, NEW phase, Goto(w, phase), call[w].phase # "idle" PROVE Requested'
  <2>1. call' = [call EXCEPT ![w].phase = phase] /\ call[w].root \in Roots
    BY <1>3 DEF Goto, Requested
  <2>2. call'[w].root = call[w].root /\ DOMAIN call' = Workers
    BY <2>1 DEF Requested
  <2>3. \A v \in Workers \ {w} : call'[v] = call[v]
    BY <2>1 DEF Requested
  <2> QED BY <2>1, <2>2, <2>3 DEF Requested
<1>4. CASE UNCHANGED vars
  BY <1>1, <1>4 DEF vars
<1>5. CASE Refresh \/ RefreshFromArchive \/ Age \/ Take \/ Step \/ Fail \/ Mine \/ Outage \/ Return
  BY <1>1, <1>5 DEF Refresh, RefreshFromArchive, Age, Take, Step, Fail, Mine, Outage, Return
<1>6. ASSUME NEW w \in Workers, Proceed(w) \/ TimeOut(w) PROVE Requested'
  BY <1>2, <1>3, <1>6 DEF Proceed, Look, Remember, LaunchFetch, Await, Serve, Refetch, TimeOut
<1>7. ASSUME NEW w \in Workers, NEW path \in Paths[w], Accept(w, path) PROVE Requested'
  <2>1. /\ call' = [call EXCEPT ![w] = [phase |-> "look", root |-> Servable(snapshot), path |-> path]]
        /\ Servable(snapshot) \in Roots
    BY <1>7, ServableRoot DEF Accept
  <2> QED BY <2>1 DEF Requested
<1>8. ASSUME NEW r \in Roots, RetryElapses(r) PROVE Requested'
  BY <1>1, <1>8 DEF RetryElapses
<1>9. ASSUME NEW r \in Imported, NEW n \in 1..4, Import(r, n) PROVE Requested'
  BY <1>1, <1>9 DEF Import
<1>10. ASSUME NEW g \in Rotting, Rot(g) PROVE Requested'
  BY <1>1, <1>10 DEF Rot
<1>11. CASE Restart
  BY <1>11 DEF Restart, Requested, Idle
<1> QED BY <1>4, <1>5, <1>6, <1>7, <1>8, <1>9, <1>10, <1>11 DEF Next

LEMMA JobNext ==
  ASSUME JobInv, Requested, [Next]_vars
  PROVE  JobInv'
<1>1. CASE UNCHANGED <<queue, flights, job>>
  BY <1>1, JobsUnchanged
<1>2. CASE UNCHANGED vars
  BY <1>1, <1>2 DEF vars, memory
<1>3. CASE Refresh \/ RefreshFromArchive \/ Age \/ Mine \/ Outage \/ Return
  BY <1>1, <1>3 DEF Refresh, RefreshFromArchive, Age, Mine, Outage, Return, memory
<1>4. ASSUME NEW w \in Workers, Look(w) \/ Remember(w) \/ Await(w) \/ Serve(w) \/ TimeOut(w)
      PROVE  JobInv'
  BY <1>1, <1>4 DEF Look, Remember, Await, Serve, TimeOut, memory
<1>5. ASSUME NEW w \in Workers, LaunchFetch(w) \/ Refetch(w) PROVE JobInv'
  <2>1. call[w].root \in Roots /\ Launch(call[w].root) /\ job' = job
    BY <1>5 DEF LaunchFetch, Refetch, Requested
  <2> QED BY <2>1, LaunchJobs
<1>6. ASSUME NEW w \in Workers, NEW path \in Paths[w], Accept(w, path) PROVE JobInv'
  BY <1>1, <1>6 DEF Accept, memory
<1>7. CASE Take
  BY <1>7, TakeJobs
<1>8. CASE Step
  BY <1>8, StepJobs
<1>9. CASE Fail
  BY <1>9, LandJobs DEF Fail
<1>10. ASSUME NEW r \in Roots, RetryElapses(r) PROVE JobInv'
  BY <1>10, RetryJobs
<1>11. ASSUME NEW r \in Imported, NEW n \in 1..4, Import(r, n) PROVE JobInv'
  BY <1>1, <1>11 DEF Import, memory
<1>12. ASSUME NEW g \in Rotting, Rot(g) PROVE JobInv'
  BY <1>1, <1>12 DEF Rot, memory
<1>13. CASE Restart
  BY <1>13, RestartJobs
<1> QED BY <1>2, <1>3, <1>4, <1>5, <1>6, <1>7, <1>8, <1>9, <1>10, <1>11, <1>12, <1>13
        DEF Next, Proceed

LEMMA JobInit == Init => JobInv /\ Requested
<1> SUFFICES ASSUME Init PROVE JobInv /\ Requested
  OBVIOUS
<1>1. flights = [r \in Roots |-> "none"] /\ queue = <<>> /\ job = NoJob
  BY DEF Init
<1>2. Waiting = {} /\ Running = {}
  BY <1>1, Names DEF Waiting, Running
<1>3. JobsExact
  BY <1>1, <1>2, NoElements, JobsAre
<1>4. Requested
  BY DEF Init, Requested, Idle
<1> QED BY <1>1, <1>3, <1>4, NoElements DEF JobInv

(* A flight is marked queued exactly while one job for it waits or runs,    *)
(* for every size of the queue: of any number of requests that find a       *)
(* publication missing, rotten or failed, one starts the fetch, and none    *)
(* waits for a fetch that a full queue turned away (launch, land,           *)
(* fetch_loop).                                                             *)
THEOREM OneFetchEach == Spec => []JobsExact
<1>1. Init => JobInv /\ Requested
  BY JobInit
<1>2. JobInv /\ Requested /\ [Next]_vars => JobInv' /\ Requested'
  BY JobNext, RequestedNext
<1>3. JobInv => JobsExact
  BY DEF JobInv
<1> QED BY <1>1, <1>2, <1>3, PTL DEF Spec
-----------------------------------------------------------------------------
(* The store. *)

States == {"absent", "good", "bad"}

(* The files a step of a fetch or an import writes. *)
FilesAt(r, step) ==
    IF step = "pins" THEN {"pin"} \X Pins[r] ELSE IF step = "check" THEN {} ELSE {<<step, r>>}

Kept(s, t) == \A f \in Files : s[f] # "absent" => t[f] # "absent"
Whole(s) ==
    \A r \in Roots : s[<<"pointer", r>>] # "absent" => \A f \in FilesOf(r) : s[f] # "absent"

(* What was written of a publication before a step. *)
Reached(s, r, step) ==
    /\ step # "pins" => \A f \in FilesAt(r, "pins") : s[f] # "absent"
    /\ step \in {"proofs", "pointer", "check"} => s[<<"payload", r>>] # "absent"
    /\ step \in {"pointer", "check"} => s[<<"proofs", r>>] # "absent"

\* Objects, proofs and pointers are different files.
LEMMA FileNames ==
  ASSUME NEW r \in Roots
  PROVE  /\ \A kind \in Kinds : <<kind, r>> \in Files
         /\ {"pin"} \X Pins[r] \subseteq Files
         /\ FilesOf(r) = FilesAt(r, "pins") \cup
                         {<<"payload", r>>, <<"proofs", r>>, <<"pointer", r>>}
         /\ \A step \in StepNames : FilesAt(r, step) \subseteq Files
<1>1. Pins[r] \subseteq Objects
  BY StoreAssumption
<1>2. \A kind \in Kinds : <<kind, r>> \in Files
  BY DEF Files
<1>3. {"pin"} \X Pins[r] \subseteq Files
  BY <1>1 DEF Files
<1>4. Kinds \X {r} = {<<"payload", r>>, <<"proofs", r>>, <<"pointer", r>>}
  BY DEF Kinds
<1>5. FilesOf(r) = FilesAt(r, "pins") \cup {<<"payload", r>>, <<"proofs", r>>, <<"pointer", r>>}
  BY <1>4 DEF FilesOf, FilesAt
<1>6. \A step \in StepNames : FilesAt(r, step) \subseteq Files
  BY <1>2, <1>3 DEF FilesAt, StepNames, Kinds
<1> QED BY <1>2, <1>3, <1>5, <1>6

\* A step of a fetch makes its own files good and leaves the others alone.
LEMMA WrittenFiles ==
  ASSUME NEW s \in [Files -> States], NEW r \in Roots, NEW step \in StepNames
  PROVE  /\ Written(s, r, step) \in [Files -> States]
         /\ \A f \in Files : Written(s, r, step)[f] = IF f \in FilesAt(r, step) THEN "good" ELSE s[f]
<1>1. CASE step = "pins"
  BY <1>1 DEF Written, PutObjects, FilesAt, States
<1>2. CASE step = "payload"
  BY <1>2 DEF Written, PutObjects, FilesAt, States
<1>3. CASE step = "proofs"
  BY <1>3, FileNames DEF Written, PutNew, FilesAt, States, Kinds
<1>4. CASE step = "pointer"
  BY <1>4, FileNames DEF Written, PutPointer, FilesAt, States, Kinds
<1>5. CASE step = "check"
  BY <1>5 DEF Written, FilesAt
<1> QED BY <1>1, <1>2, <1>3, <1>4, <1>5 DEF StepNames

\* A step of a fetch makes no file absent.
LEMMA WrittenKept ==
  ASSUME NEW s \in [Files -> States], NEW r \in Roots, NEW step \in StepNames
  PROVE  Kept(s, Written(s, r, step))
  BY WrittenFiles DEF Kept

\* The pointer is written when everything it stands for is there.
LEMMA WrittenWhole ==
  ASSUME NEW s \in [Files -> States], NEW r \in Roots, NEW step \in StepNames,
         Whole(s), Reached(s, r, step)
  PROVE  Whole(Written(s, r, step))
<1>1. PICK t : t = Written(s, r, step)
  OBVIOUS
<1>2. Kept(s, t) /\ \A f \in Files : t[f] = IF f \in FilesAt(r, step) THEN "good" ELSE s[f]
  BY <1>1, WrittenFiles, WrittenKept
<1>3. ASSUME NEW q \in Roots, t[<<"pointer", q>>] # "absent", NEW f \in FilesOf(q)
      PROVE  t[f] # "absent"
  <2>1. <<"pointer", q>> \in Files /\ f \in Files
    <3>1. /\ <<"pointer", q>> \in Files /\ <<"payload", q>> \in Files /\ <<"proofs", q>> \in Files
          /\ FilesAt(q, "pins") \subseteq Files
      BY FileNames DEF Kinds, StepNames
    <3>2. f \in FilesAt(q, "pins") \cup {<<"payload", q>>, <<"proofs", q>>, <<"pointer", q>>}
      BY FileNames
    <3> QED BY <3>1, <3>2
  <2>2. CASE s[<<"pointer", q>>] # "absent"
    BY <1>2, <2>1, <2>2 DEF Whole, Kept
  <2>3. CASE s[<<"pointer", q>>] = "absent"
    <3>1. <<"pointer", q>> \in FilesAt(r, step)
      BY <1>2, <1>3, <2>1, <2>3
    <3>2. step = "pointer" /\ q = r
      BY <3>1 DEF FilesAt, StepNames
    <3>3. CASE f = <<"pointer", r>>
      BY <1>3, <3>2, <3>3
    <3>4. CASE f # <<"pointer", r>>
      <4>1. s[f] # "absent"
        BY <3>2, <3>4, FileNames DEF Reached
      <4> QED BY <1>2, <2>1, <4>1 DEF Kept
    <3> QED BY <3>3, <3>4
  <2> QED BY <2>2, <2>3
<1> QED BY <1>1, <1>3 DEF Whole

(* A step takes a publication to where the next one starts. *)
Following(step) ==
    IF step = "pins" THEN "payload" ELSE IF step = "payload" THEN "proofs"
    ELSE IF step = "proofs" THEN "pointer" ELSE "check"

\* The files of the earlier steps are there at the next one.
LEMMA WrittenReached ==
  ASSUME NEW s \in [Files -> States], NEW r \in Roots, NEW step \in StepNames \ {"check"},
         Reached(s, r, step)
  PROVE  Reached(Written(s, r, step), r, Following(step))
<1>1. PICK t : t = Written(s, r, step)
  OBVIOUS
<1>2. /\ \A f \in FilesAt(r, step) : t[f] # "absent"
      /\ \A f \in Files : s[f] # "absent" => t[f] # "absent"
  BY <1>1, WrittenFiles, FileNames
<1>3. /\ \A f \in FilesAt(r, "pins") : f \in Files
      /\ <<"payload", r>> \in Files /\ <<"proofs", r>> \in Files
  BY FileNames DEF Kinds, StepNames
<1>4. CASE step = "pins"
  BY <1>1, <1>2, <1>4 DEF Reached, Following
<1>5. CASE step = "payload"
  BY <1>1, <1>2, <1>3, <1>5 DEF Reached, Following, FilesAt
<1>6. CASE step = "proofs"
  BY <1>1, <1>2, <1>3, <1>6 DEF Reached, Following, FilesAt
<1>7. CASE step = "pointer"
  BY <1>1, <1>2, <1>3, <1>7 DEF Reached, Following
<1> QED BY <1>4, <1>5, <1>6, <1>7 DEF StepNames

LEMMA ReachedKept ==
  ASSUME NEW s, NEW t, Kept(s, t), NEW r \in Roots, NEW step, Reached(s, r, step)
  PROVE  Reached(t, r, step)
  BY FileNames DEF Reached, Kept, Kinds, StepNames

StoreInv ==
    /\ store \in [Files -> States] /\ Whole(store)
    /\ job # NoJob => Reached(store, job.root, job.step)

\* Nothing that keeps the files present disturbs the store.
LEMMA StoreKept ==
  ASSUME StoreInv, JobInv, store' \in [Files -> States], Whole(store'), Kept(store, store'),
         job' \in {job, NoJob}
  PROVE  StoreInv'
<1>1. ASSUME job # NoJob, job' = job PROVE Reached(store', job.root, job.step)
  BY <1>1, ReachedKept DEF StoreInv, JobInv
<1>2. job' # NoJob => Reached(store', job'.root, job'.step)
  BY <1>1
<1> QED BY <1>2 DEF StoreInv, NoJob

LEMMA StoreUnchanged ==
  ASSUME StoreInv, JobInv, store' = store, job' \in {job, NoJob}
  PROVE  StoreInv'
  BY DEF StoreInv, NoJob

LEMMA StepStore ==
  ASSUME StoreInv, JobInv, Step
  PROVE  StoreInv'
<1>1. job # NoJob /\ store' = Written(store, job.root, job.step)
  BY DEF Step
<1>2. PICK r \in Roots, step \in StepNames : job = [root |-> r, step |-> step]
  BY <1>1 DEF JobInv
<1>3. job.root = r /\ job.step = step
  BY <1>2
<1>4. store' \in [Files -> States] /\ Kept(store, store') /\ Whole(store')
  BY <1>1, <1>3, WrittenFiles, WrittenKept, WrittenWhole DEF StoreInv
<1>5. CASE step = "check"
  <2>1. job' = NoJob
    BY <1>3, <1>5 DEF Step, Land
  <2> QED BY <1>4, <2>1, StoreKept
<1>6. CASE step # "check"
  <2>1. PICK i : job' = [job EXCEPT !.step = Steps[i + 1]]
                 /\ i = CHOOSE k \in DOMAIN Steps : Steps[k] = step
    BY <1>3, <1>6 DEF Step
  <2>2. Steps[i + 1] = Following(step)
    BY <1>6, <2>1, NextStep DEF Following, StepNames
  <2>3. job'.root = r /\ job'.step = Following(step)
    BY <1>2, <2>1, <2>2
  <2>4. Reached(store', r, Following(step))
    BY <1>1, <1>3, <1>6, WrittenReached DEF StoreInv
  <2> QED BY <1>4, <2>3, <2>4 DEF StoreInv
<1> QED BY <1>5, <1>6
(* The files of an import, step after step. *)
LEMMA ImportStore ==
  ASSUME StoreInv, JobInv, NEW r \in Roots, NEW n \in 1..4, Import(r, n)
  PROVE  StoreInv'
<1> DEFINE F(g) == [i \in 0..n |-> IF i = 0 THEN store ELSE Written(g[i - 1], r, Steps[i])]
           after == CHOOSE g : g = F(g)
<1>1. store' = after[n] /\ job' = job
  BY DEF Import
<1>2. Steps[1] = "pins" /\ Steps[2] = "payload" /\ Steps[3] = "proofs" /\ Steps[4] = "pointer"
  BY DEF Steps
<1>3. PICK s1 : s1 = Written(store, r, "pins")
  OBVIOUS
<1>4. PICK s2 : s2 = Written(s1, r, "payload")
  OBVIOUS
<1>5. PICK s3 : s3 = Written(s2, r, "proofs")
  OBVIOUS
<1>6. PICK s4 : s4 = Written(s3, r, "pointer")
  OBVIOUS
<1>7. \A i \in 1..n : i \in {1, 2, 3, 4}
  OBVIOUS
<1>8. \E g : g = F(g)
  <2>1. PICK g : g = [i \in 0..n |-> IF i = 0 THEN store ELSE IF i = 1 THEN s1
                                    ELSE IF i = 2 THEN s2 ELSE IF i = 3 THEN s3 ELSE s4]
    OBVIOUS
  <2>2. ASSUME NEW i \in 0..n PROVE g[i] = IF i = 0 THEN store ELSE Written(g[i - 1], r, Steps[i])
    <3>1. CASE i = 0
      BY <2>1, <3>1
    <3>2. CASE i # 0
      <4>1. i - 1 \in 0..n /\ i \in {1, 2, 3, 4}
        BY <1>7, <3>2
      <4>2. CASE i = 1
        <5>1. g[i] = s1 /\ g[i - 1] = store
          BY <2>1, <4>1, <4>2
        <5> QED BY <1>2, <1>3, <4>2, <5>1
      <4>3. CASE i = 2
        <5>1. g[i] = s2 /\ g[i - 1] = s1
          BY <2>1, <4>1, <4>3
        <5> QED BY <1>2, <1>4, <4>3, <5>1
      <4>4. CASE i = 3
        <5>1. g[i] = s3 /\ g[i - 1] = s2
          BY <2>1, <4>1, <4>4
        <5> QED BY <1>2, <1>5, <4>4, <5>1
      <4>5. CASE i = 4
        <5>1. g[i] = s4 /\ g[i - 1] = s3
          BY <2>1, <4>1, <4>5
        <5> QED BY <1>2, <1>6, <4>5, <5>1
      <4> QED BY <4>1, <4>2, <4>3, <4>4, <4>5
    <3> QED BY <3>1, <3>2
  <2>3. g = F(g)
    BY <2>1, <2>2
  <2> QED BY <2>3
<1>9. after = F(after)
  BY <1>8
<1> HIDE DEF after
<1>10. after[0] = store /\ \A i \in 1..n : after[i] = Written(after[i - 1], r, Steps[i])
  BY <1>9
<1> HIDE DEF F
<1>11. after[n] \in {s1, s2, s3, s4}
  <2>1. after[1] = s1
    BY <1>2, <1>3, <1>10
  <2>2. n >= 2 => after[2] = s2
    BY <1>2, <1>4, <1>10, <2>1
  <2>3. n >= 3 => after[3] = s3
    BY <1>2, <1>5, <1>10, <2>2
  <2>4. n >= 4 => after[4] = s4
    BY <1>2, <1>6, <1>10, <2>3
  <2>5. n \in {1, 2, 3, 4}
    OBVIOUS
  <2> QED BY <2>1, <2>2, <2>3, <2>4, <2>5
<1>12. {"pins", "payload", "proofs", "pointer"} \subseteq StepNames \ {"check"}
  BY DEF StepNames
<1>13. /\ s1 \in [Files -> States] /\ Whole(s1) /\ Kept(store, s1) /\ Reached(s1, r, "payload")
  <2>1. store \in [Files -> States] /\ Whole(store) /\ Reached(store, r, "pins")
    BY DEF StoreInv, Reached
  <2> QED BY <1>3, <1>12, <2>1, WrittenFiles, WrittenWhole, WrittenKept, WrittenReached DEF Following
<1>14. /\ s2 \in [Files -> States] /\ Whole(s2) /\ Kept(s1, s2) /\ Reached(s2, r, "proofs")
  BY <1>4, <1>12, <1>13, WrittenFiles, WrittenWhole, WrittenKept, WrittenReached DEF Following
<1>15. /\ s3 \in [Files -> States] /\ Whole(s3) /\ Kept(s2, s3) /\ Reached(s3, r, "pointer")
  BY <1>5, <1>12, <1>14, WrittenFiles, WrittenWhole, WrittenKept, WrittenReached DEF Following
<1>16. /\ s4 \in [Files -> States] /\ Whole(s4) /\ Kept(s3, s4)
  BY <1>6, <1>12, <1>15, WrittenFiles, WrittenWhole, WrittenKept
<1>17. /\ after[n] \in [Files -> States] /\ Whole(after[n]) /\ Kept(store, after[n])
  BY <1>11, <1>13, <1>14, <1>15, <1>16 DEF Kept
<1> QED BY <1>1, <1>17, StoreKept

LEMMA RotStore ==
  ASSUME StoreInv, JobInv, NEW g \in Rotting, Rot(g)
  PROVE  StoreInv'
<1>1. store[g] = "good" /\ store' = [store EXCEPT ![g] = "bad"] /\ job' = job /\ g \in Files
  BY GatewayAssumption DEF Rot
<1>2. store' \in [Files -> States] /\ \A f \in Files : store'[f] # "absent" <=> store[f] # "absent"
  BY <1>1 DEF StoreInv, States
<1>3. ASSUME NEW q \in Roots, NEW f \in FilesOf(q) PROVE f \in Files
  <2>1. /\ <<"pointer", q>> \in Files /\ <<"payload", q>> \in Files /\ <<"proofs", q>> \in Files
        /\ FilesAt(q, "pins") \subseteq Files
    BY FileNames DEF Kinds, StepNames
  <2>2. f \in FilesAt(q, "pins") \cup {<<"payload", q>>, <<"proofs", q>>, <<"pointer", q>>}
    BY FileNames
  <2> QED BY <2>1, <2>2
<1>4. \A q \in Roots : <<"pointer", q>> \in Files
  BY FileNames DEF Kinds
<1>5. Whole(store') /\ Kept(store, store')
  BY <1>2, <1>3, <1>4 DEF Whole, Kept, StoreInv
<1> QED BY <1>1, <1>2, <1>5, StoreKept

LEMMA StoreNext ==
  ASSUME StoreInv, JobInv, [Next]_vars
  PROVE  StoreInv'
<1>1. CASE store' = store /\ job' \in {job, NoJob}
  BY <1>1, StoreUnchanged
<1>2. CASE UNCHANGED vars
  BY <1>1, <1>2 DEF vars
<1>3. CASE Refresh \/ RefreshFromArchive \/ Age \/ Mine \/ Outage \/ Return \/ Fail \/ Restart
  BY <1>1, <1>3 DEF Refresh, RefreshFromArchive, Age, Mine, Outage, Return, Fail, Land, Restart
<1>4. ASSUME NEW w \in Workers, Proceed(w) \/ TimeOut(w) PROVE StoreInv'
  BY <1>1, <1>4 DEF Proceed, Look, Remember, LaunchFetch, Await, Serve, Refetch, TimeOut
<1>5. ASSUME NEW w \in Workers, NEW path \in Paths[w], Accept(w, path) PROVE StoreInv'
  BY <1>1, <1>5 DEF Accept
<1>6. CASE Take
  <2>1. store' = store /\ job'.step = "pins"
    BY <1>6, Names DEF Take
  <2> QED BY <2>1 DEF StoreInv, Reached
<1>7. CASE Step
  BY <1>7, StepStore
<1>8. ASSUME NEW r \in Roots, RetryElapses(r) PROVE StoreInv'
  BY <1>1, <1>8 DEF RetryElapses
<1>9. ASSUME NEW r \in Imported, NEW n \in 1..4, Import(r, n) PROVE StoreInv'
  BY <1>9, ImportStore, GatewayAssumption
<1>10. ASSUME NEW g \in Rotting, Rot(g) PROVE StoreInv'
  BY <1>10, RotStore
<1> QED BY <1>2, <1>3, <1>4, <1>5, <1>6, <1>7, <1>8, <1>9, <1>10 DEF Next

LEMMA StoreInit == Init => StoreInv
<1> SUFFICES ASSUME Init PROVE StoreInv
  OBVIOUS
<1>1. store = [f \in Files |-> "absent"] /\ job = NoJob
  BY DEF Init, Empty
<1>2. \A r \in Roots : <<"pointer", r>> \in Files
  BY FileNames DEF Kinds
<1>3. Whole(store)
  BY <1>1, <1>2 DEF Whole
<1> QED BY <1>1, <1>3 DEF StoreInv, States
-----------------------------------------------------------------------------
(* Numbers. *)

(* A set of naturals has a least element. *)
LEMMA LeastNat ==
  ASSUME NEW T \in SUBSET Nat, T # {}
  PROVE  \E x \in T : \A y \in T : x <= y
<1>1. PICK R : R = OpToRel(<, Nat)
  OBVIOUS
<1>2. IsWellFoundedOn(R, Nat)
  BY <1>1, NatLessThanWellFounded
<1>3. PICK x \in T : \A y \in T : ~(<<y, x>> \in R)
  BY <1>2, WFMin
<1>4. ASSUME NEW y \in T PROVE x <= y
  <2>1. <<y, x>> \notin R
    BY <1>3
  <2>2. y \in Nat /\ x \in Nat
    OBVIOUS
  <2>3. ~(y < x)
    BY <1>1, <2>1, <2>2 DEF OpToRel
  <2> QED BY <2>2, <2>3
<1> QED BY <1>4

(* Induction, with the property given by the set of numbers that have it. *)
LEMMA Inductive ==
  ASSUME NEW S, 0 \in S, \A n \in Nat : n \in S => n + 1 \in S
  PROVE  \A n \in Nat : n \in S
<1> SUFFICES ASSUME Nat \ S # {} PROVE FALSE
  OBVIOUS
<1>1. PICK x \in Nat \ S : \A y \in Nat \ S : x <= y
  BY LeastNat
<1>2. x # 0 /\ x - 1 \in Nat /\ x = (x - 1) + 1
  BY <1>1
<1>3. x - 1 \in S
  BY <1>1, <1>2
<1> QED BY <1>1, <1>2, <1>3

\* The minimum of a set of naturals belongs to it.
LEMMA MinIn ==
  ASSUME NEW T \in SUBSET Nat, T # {}
  PROVE  Min(T) \in T /\ \A y \in T : Min(T) <= y
  BY LeastNat DEF Min

-----------------------------------------------------------------------------
(* The order of the cache without one publication. *)

(* What the first n elements of s leave without r. *)
Left(t, s, r, n) ==
    /\ t \in Seq(Roots)
    /\ \A x \in ToSet(t) : x # r /\ \E i \in 1..n : s[i] = x
    /\ \A i \in 1..n : s[i] # r => s[i] \in ToSet(t)
    /\ IsInjective(s) => IsInjective(t)
    /\ (\A i \in 1..n : s[i] # r) => Len(t) = n /\ \A i \in 1..n : t[i] = s[i]

Kept1(t, s, r, n) == IF s[n] = r THEN t ELSE Append(t, s[n])

\* Nothing is left of an empty prefix.
LEMMA LeftFirst ==
  ASSUME NEW s \in Seq(Roots), NEW r
  PROVE  Left(<<>>, s, r, 0)
  BY NoElements DEF Left

\* One element more of the prefix is kept or dropped.
LEMMA LeftNext ==
  ASSUME NEW s \in Seq(Roots), NEW r, NEW n \in Nat, n + 1 <= Len(s), NEW t, Left(t, s, r, n)
  PROVE  Left(Kept1(t, s, r, n + 1), s, r, n + 1)
<1>1. PICK x \in Roots : x = s[n + 1]
  <2>1. n + 1 \in 1..Len(s)
    OBVIOUS
  <2> QED BY <2>1
<1>2. \A i \in 1..(n + 1) : i \in 1..n \/ i = n + 1
  OBVIOUS
<1>3. \A i \in 1..n : i \in 1..(n + 1)
  OBVIOUS
<1>4. n + 1 \in 1..(n + 1)
  OBVIOUS
<1>5. CASE x = r
  <2>1. Kept1(t, s, r, n + 1) = t
    BY <1>1, <1>5 DEF Kept1
  <2> QED BY <1>1, <1>2, <1>3, <1>4, <1>5, <2>1 DEF Left
<1>6. CASE x # r
  <2>1. PICK u : u = Append(t, x)
    OBVIOUS
  <2>2. Kept1(t, s, r, n + 1) = u
    BY <1>1, <1>6, <2>1 DEF Kept1
  <2>3. t \in Seq(Roots)
    BY DEF Left
  <2>4. u \in Seq(Roots) /\ ToSet(u) = ToSet(t) \cup {x}
    BY <2>1, <2>3, Appended
  <2>5. \A y \in ToSet(u) : y # r /\ \E i \in 1..(n + 1) : s[i] = y
    BY <1>1, <1>3, <1>4, <1>6, <2>4 DEF Left
  <2>6. \A i \in 1..(n + 1) : s[i] # r => s[i] \in ToSet(u)
    BY <1>1, <1>2, <2>4 DEF Left
  <2>7. ASSUME IsInjective(s) PROVE IsInjective(u)
    <3>1. n + 1 \in DOMAIN s /\ \A i \in 1..n : i \in DOMAIN s /\ i # n + 1
      OBVIOUS
    <3>2. \A i \in 1..n : s[i] # x
      BY <1>1, <2>7, <3>1 DEF IsInjective
    <3>3. x \notin ToSet(t)
      BY <3>2 DEF Left
    <3> QED BY <2>1, <2>3, <2>7, <3>3, Appended DEF Left
  <2>8. ASSUME \A i \in 1..(n + 1) : s[i] # r
        PROVE  Len(u) = n + 1 /\ \A i \in 1..(n + 1) : u[i] = s[i]
    <3>1. Len(t) = n /\ \A i \in 1..n : t[i] = s[i]
      BY <1>3, <2>8 DEF Left
    <3>2. Len(u) = n + 1 /\ u[n + 1] = x /\ \A i \in 1..n : u[i] = t[i]
      BY <2>1, <2>3, <3>1
    <3> QED BY <1>1, <1>2, <3>1, <3>2
  <2> QED BY <2>2, <2>4, <2>5, <2>6, <2>7, <2>8 DEF Left
<1> QED BY <1>5, <1>6

(* kept[n] for n up to m. *)
KeptTo(g, s, r, m) == g \in [0..m -> Seq(Roots)] /\ g[0] = <<>>
                      /\ \A n \in 1..m : g[n] = Kept1(g[n - 1], s, r, n)

\* The recursive function of Without exists.
LEMMA KeptExists ==
  ASSUME NEW s \in Seq(Roots), NEW r
  PROVE  \E g : KeptTo(g, s, r, Len(s))
<1>1. PICK S : S = {m \in Nat : m <= Len(s) => \E g : KeptTo(g, s, r, m)}
  OBVIOUS
<1>2. 0 \in S
  <2>1. PICK g : g = [n \in 0..0 |-> <<>>]
    OBVIOUS
  <2>2. g \in [0..0 -> Seq(Roots)] /\ g[0] = <<>> /\ 1..0 = {}
    BY <2>1, NoElements
  <2>3. KeptTo(g, s, r, 0)
    BY <2>2 DEF KeptTo
  <2> QED BY <1>1, <2>3
<1>3. ASSUME NEW m \in Nat, m \in S PROVE m + 1 \in S
  <2>1. CASE m + 1 <= Len(s)
    <3>1. PICK g : KeptTo(g, s, r, m)
      BY <1>1, <1>3, <2>1
    <3>2. PICK v : v = Kept1(g[m], s, r, m + 1)
      OBVIOUS
    <3>3. g[m] \in Seq(Roots) /\ s[m + 1] \in Roots
      <4>1. m \in 0..m /\ m + 1 \in 1..Len(s)
        BY <2>1
      <4> QED BY <3>1, <4>1 DEF KeptTo
    <3>4. v \in Seq(Roots)
      BY <3>2, <3>3, Appended DEF Kept1
    <3>5. PICK h : h = [n \in 0..(m + 1) |-> IF n = m + 1 THEN v ELSE g[n]]
      OBVIOUS
    <3>6. h[m + 1] = v /\ \A n \in 0..m : h[n] = g[n] /\ g[n] \in Seq(Roots)
      BY <3>1, <3>5 DEF KeptTo
    <3>7. \A n \in 0..(m + 1) : n \in 0..m \/ n = m + 1
      OBVIOUS
    <3>8. h \in [0..(m + 1) -> Seq(Roots)]
      BY <3>4, <3>5, <3>6, <3>7
    <3>9. ASSUME NEW n \in 1..(m + 1) PROVE h[n] = Kept1(h[n - 1], s, r, n)
      <4>1. CASE n = m + 1
        <5>1. n - 1 = m /\ m \in 0..m
          BY <4>1
        <5> QED BY <3>2, <3>6, <4>1, <5>1
      <4>2. CASE n # m + 1
        <5>1. n \in 1..m /\ n \in 0..m /\ n - 1 \in 0..m
          BY <4>2
        <5> QED BY <3>1, <3>6, <5>1 DEF KeptTo
      <4> QED BY <4>1, <4>2
    <3>10. h[0] = <<>>
      BY <3>1, <3>6 DEF KeptTo
    <3>11. KeptTo(h, s, r, m + 1)
      BY <3>8, <3>9, <3>10 DEF KeptTo
    <3> QED BY <1>1, <3>11
  <2>2. CASE ~(m + 1 <= Len(s))
    BY <1>1, <2>2
  <2> QED BY <2>1, <2>2
<1>4. Len(s) \in S
  BY <1>2, <1>3, Inductive
<1> QED BY <1>1, <1>4

\* Without is the last of what is left of the prefixes.
LEMMA WithoutLeft ==
  ASSUME NEW s \in Seq(Roots), NEW r
  PROVE  Left(Without(s, r), s, r, Len(s))
<1>1. PICK N \in Nat : N = Len(s)
  OBVIOUS
<1> DEFINE F(g) == [n \in 0..Len(s) |-> IF n = 0 THEN <<>> ELSE Kept1(g[n - 1], s, r, n)]
           kept == CHOOSE g : g = F(g)
<1>2. PICK g : KeptTo(g, s, r, N)
  BY <1>1, KeptExists
<1>3. g = F(g)
  <2>1. g = [n \in 0..N |-> g[n]]
    BY <1>2 DEF KeptTo
  <2>2. ASSUME NEW n \in 0..N PROVE g[n] = IF n = 0 THEN <<>> ELSE Kept1(g[n - 1], s, r, n)
    <3>1. n = 0 \/ n \in 1..N
      OBVIOUS
    <3> QED BY <1>2, <3>1 DEF KeptTo
  <2> QED BY <1>1, <2>1, <2>2
<1>4. kept = F(kept)
  BY <1>3
<1>5. Without(s, r) = kept[N]
  BY <1>1 DEF Without, Kept1
<1> HIDE DEF kept
<1>6. kept[0] = <<>> /\ \A n \in 1..N : kept[n] = Kept1(kept[n - 1], s, r, n)
  <2>1. \A n \in 0..N : kept[n] = IF n = 0 THEN <<>> ELSE Kept1(kept[n - 1], s, r, n)
    BY <1>1, <1>4
  <2>2. 0 \in 0..N /\ \A n \in 1..N : n \in 0..N /\ n # 0
    OBVIOUS
  <2> QED BY <2>1, <2>2
<1> HIDE DEF F
<1>7. PICK S : S = {n \in Nat : n <= N => Left(kept[n], s, r, n)}
  OBVIOUS
<1>8. 0 \in S
  BY <1>6, <1>7, LeftFirst
<1>9. ASSUME NEW n \in Nat, n \in S PROVE n + 1 \in S
  <2>1. CASE n + 1 <= N
    <3>1. Left(kept[n], s, r, n)
      BY <1>7, <1>9, <2>1
    <3>2. n + 1 \in 1..N /\ (n + 1) - 1 = n
      BY <2>1
    <3>3. kept[n + 1] = Kept1(kept[n], s, r, n + 1)
      BY <1>6, <3>2
    <3>4. Left(kept[n + 1], s, r, n + 1)
      BY <1>1, <2>1, <3>1, <3>3, LeftNext
    <3> QED BY <1>7, <3>4
  <2>2. CASE ~(n + 1 <= N)
    BY <1>7, <2>2
  <2> QED BY <2>1, <2>2
<1>10. N \in S
  BY <1>8, <1>9, Inductive
<1> QED BY <1>1, <1>5, <1>7, <1>10

(* retain leaves the others in their order. *)
LEMMA WithoutOne ==
  ASSUME NEW s \in Seq(Roots), NEW r
  PROVE  /\ Without(s, r) \in Seq(Roots)
         /\ ToSet(Without(s, r)) = ToSet(s) \ {r}
         /\ IsInjective(s) => IsInjective(Without(s, r))
         /\ r \notin ToSet(s) => Without(s, r) = s
<1>1. PICK t : t = Without(s, r)
  OBVIOUS
<1>2. Left(t, s, r, Len(s))
  BY <1>1, WithoutLeft
<1>3. DOMAIN s = 1..Len(s)
  OBVIOUS
<1>4. ToSet(t) = ToSet(s) \ {r}
  <2>1. ASSUME NEW x \in ToSet(t) PROVE x \in ToSet(s) \ {r}
    BY <1>2, <1>3 DEF Left, ToSet
  <2>2. ASSUME NEW x \in ToSet(s) \ {r} PROVE x \in ToSet(t)
    <3>1. PICK i \in 1..Len(s) : s[i] = x
      BY <1>3 DEF ToSet
    <3> QED BY <1>2, <3>1 DEF Left
  <2> QED BY <2>1, <2>2
<1>5. ASSUME r \notin ToSet(s) PROVE t = s
  <2>1. \A i \in 1..Len(s) : s[i] # r
    BY <1>3, <1>5 DEF ToSet
  <2>2. t \in Seq(Roots) /\ Len(t) = Len(s) /\ \A i \in 1..Len(s) : t[i] = s[i]
    BY <1>2, <2>1 DEF Left
  <2> QED BY <2>2
<1>6. t \in Seq(Roots) /\ (IsInjective(s) => IsInjective(t))
  BY <1>2 DEF Left
<1> QED BY <1>1, <1>4, <1>5, <1>6
-----------------------------------------------------------------------------
(* The bytes of a set of publications. *)

Total(S) == FoldSet(LAMBDA r, n : n + Sizes[r], 0, S)

One(s) == CHOOSE x \in s : TRUE
Upto(S, k) == {s \in SUBSET S : Cardinality(s) <= k}

(* f[s] is the total of every subset of S, or of those of at most k. *)
Totals(f, S) ==
    /\ f \in [SUBSET S -> Nat] /\ f[{}] = 0
    /\ \A s \in SUBSET S : s # {} => f[s] = f[s \ {One(s)}] + Sizes[One(s)]
TotalsTo(f, S, k) ==
    /\ f \in [Upto(S, k) -> Nat] /\ f[{}] = 0
    /\ \A s \in Upto(S, k) : s # {} => f[s] = f[s \ {One(s)}] + Sizes[One(s)]

\* Sizes are naturals.
LEMMA SizesAre == \A r \in Roots : Sizes[r] \in Nat
  BY GatewayAssumption

\* A set less one element has one element fewer.
LEMMA Smaller ==
  ASSUME NEW S, IsFiniteSet(S), NEW s \in SUBSET S, NEW x \in s
  PROVE  /\ s \ {x} \in SUBSET S /\ IsFiniteSet(s)
         /\ Cardinality(s) \in Nat /\ Cardinality(s \ {x}) \in Nat
         /\ Cardinality(s) = Cardinality(s \ {x}) + 1
<1>1. IsFiniteSet(s)
  BY FS_Subset
<1>2. IsFiniteSet(s \ {x}) /\ Cardinality(s \ {x}) = Cardinality(s) - 1
  BY <1>1, FS_RemoveElement
<1>3. Cardinality(s) \in Nat /\ Cardinality(s \ {x}) \in Nat
  BY <1>1, <1>2, FS_CardinalityType
<1> QED BY <1>1, <1>2, <1>3

\* The element a fold takes belongs to the set.
LEMMA AnyIn == \A s : s # {} => One(s) \in s
  BY DEF One

\* Totals of the sets of one size give those of the next size.
LEMMA Layer ==
  ASSUME NEW S \in SUBSET Roots, IsFiniteSet(S), NEW k \in Nat, NEW f, TotalsTo(f, S, k)
  PROVE  \E h : TotalsTo(h, S, k + 1)
<1>1. PICK h : h = [s \in Upto(S, k + 1) |->
                      IF s \in Upto(S, k) THEN f[s] ELSE f[s \ {One(s)}] + Sizes[One(s)]]
  OBVIOUS
<1>2. ASSUME NEW s \in Upto(S, k + 1), s # {}
      PROVE  s \ {One(s)} \in Upto(S, k) /\ One(s) \in Roots
  <2>1. s \in SUBSET S /\ One(s) \in s /\ Cardinality(s) <= k + 1
    BY <1>2, AnyIn DEF Upto
  <2>2. /\ s \ {One(s)} \in SUBSET S /\ Cardinality(s \ {One(s)}) \in Nat
        /\ Cardinality(s) = Cardinality(s \ {One(s)}) + 1
    BY <2>1, Smaller
  <2> QED BY <2>1, <2>2 DEF Upto
<1>3. {} \in Upto(S, k) /\ Upto(S, k) \subseteq Upto(S, k + 1)
  <2>1. Cardinality({}) = 0
    BY FS_EmptySet
  <2>2. \A s \in SUBSET S : Cardinality(s) \in Nat
    BY FS_Subset, FS_CardinalityType
  <2> QED BY <2>1, <2>2 DEF Upto
<1>4. \A s \in Upto(S, k) : h[s] = f[s] /\ f[s] \in Nat
  BY <1>1, <1>3 DEF TotalsTo
<1>5. ASSUME NEW s \in Upto(S, k + 1), s # {} PROVE h[s] = h[s \ {One(s)}] + Sizes[One(s)]
  <2>1. h[s \ {One(s)}] = f[s \ {One(s)}]
    BY <1>2, <1>4, <1>5
  <2>2. CASE s \in Upto(S, k)
    BY <1>4, <1>5, <2>1, <2>2 DEF TotalsTo
  <2>3. CASE s \notin Upto(S, k)
    BY <1>1, <2>1, <2>3
  <2> QED BY <2>2, <2>3
<1>6. ASSUME NEW s \in Upto(S, k + 1) PROVE h[s] \in Nat
  <2>1. CASE s \in Upto(S, k)
    BY <1>4, <2>1
  <2>2. CASE s \notin Upto(S, k)
    <3>1. s # {}
      BY <1>3, <2>2
    <3>2. f[s \ {One(s)}] \in Nat /\ Sizes[One(s)] \in Nat
      BY <1>2, <1>4, <3>1, SizesAre
    <3>3. h[s] = f[s \ {One(s)}] + Sizes[One(s)]
      BY <1>1, <2>2
    <3> QED BY <3>2, <3>3
  <2> QED BY <2>1, <2>2
<1>7. h \in [Upto(S, k + 1) -> Nat]
  BY <1>1, <1>6
<1>8. h[{}] = 0
  BY <1>3, <1>4 DEF TotalsTo
<1> QED BY <1>5, <1>7, <1>8 DEF TotalsTo

\* Totals of all subsets of a finite set exist.
LEMMA TotalsExist ==
  ASSUME NEW S \in SUBSET Roots, IsFiniteSet(S)
  PROVE  \E f : Totals(f, S)
<1>1. PICK K : K = {k \in Nat : \E f : TotalsTo(f, S, k)}
  OBVIOUS
<1>2. 0 \in K
  <2>1. Upto(S, 0) = {{}}
    <3>1. \A s \in SUBSET S : IsFiniteSet(s) /\ Cardinality(s) \in Nat
      BY FS_Subset, FS_CardinalityType
    <3>2. Cardinality({}) = 0 /\ \A s \in SUBSET S : Cardinality(s) <= 0 => s = {}
      BY <3>1, FS_EmptySet
    <3> QED BY <3>2 DEF Upto
  <2>2. PICK f : f = [s \in {{}} |-> 0]
    OBVIOUS
  <2>3. TotalsTo(f, S, 0)
    BY <2>1, <2>2 DEF TotalsTo
  <2> QED BY <1>1, <2>3
<1>3. ASSUME NEW k \in Nat, k \in K PROVE k + 1 \in K
  <2>1. PICK f : TotalsTo(f, S, k)
    BY <1>1, <1>3
  <2>2. \E h : TotalsTo(h, S, k + 1)
    BY <2>1, Layer
  <2> QED BY <1>1, <2>2
<1>4. Cardinality(S) \in Nat
  BY FS_CardinalityType
<1>5. PICK f : TotalsTo(f, S, Cardinality(S))
  <2>1. \A k \in Nat : k \in K
    BY <1>2, <1>3, Inductive
  <2> QED BY <1>1, <1>4, <2>1
<1>6. Upto(S, Cardinality(S)) = SUBSET S
  BY FS_Subset DEF Upto
<1> QED BY <1>5, <1>6 DEF Totals, TotalsTo

(* The fold over a subset gives what the totals of the whole set say. *)
LEMMA TotalIs ==
  ASSUME NEW S \in SUBSET Roots, IsFiniteSet(S), NEW f, Totals(f, S), NEW T \in SUBSET S
  PROVE  Total(T) = f[T]
<1> DEFINE F(g) == [s \in SUBSET T |-> IF s = {} THEN 0 ELSE g[s \ {One(s)}] + Sizes[One(s)]]
           iter == CHOOSE g : g = F(g)
<1>1. IsFiniteSet(T)
  BY FS_Subset
<1>2. PICK g : Totals(g, T)
  BY <1>1, TotalsExist
<1>3. g = F(g)
  <2>1. g = [s \in SUBSET T |-> g[s]]
    BY <1>2 DEF Totals
  <2>2. \A s \in SUBSET T : g[s] = IF s = {} THEN 0 ELSE g[s \ {One(s)}] + Sizes[One(s)]
    BY <1>2 DEF Totals
  <2> QED BY <2>1, <2>2
<1>4. iter = F(iter)
  BY <1>3
<1>5. Total(T) = iter[T]
  BY DEF Total, FoldSet, MapThenFoldSet, One
<1> HIDE DEF iter
<1>6. \A s \in SUBSET T : iter[s] = IF s = {} THEN 0 ELSE iter[s \ {One(s)}] + Sizes[One(s)]
  BY <1>4
<1> HIDE DEF F
<1>7. PICK K : K = {k \in Nat : \A s \in SUBSET T : Cardinality(s) = k => iter[s] = f[s]}
  OBVIOUS
<1>8. 0 \in K
  <2>1. ASSUME NEW s \in SUBSET T, Cardinality(s) = 0 PROVE iter[s] = f[s]
    <3>1. s = {}
      BY <1>1, <2>1, FS_Subset, FS_EmptySet
    <3> QED BY <1>6, <3>1 DEF Totals
  <2> QED BY <1>7, <2>1
<1>9. ASSUME NEW k \in Nat, k \in K PROVE k + 1 \in K
  <2>1. ASSUME NEW s \in SUBSET T, Cardinality(s) = k + 1 PROVE iter[s] = f[s]
    <3>1. s # {}
      BY <2>1, FS_EmptySet
    <3>2. PICK x : x = One(s) /\ x \in s
      BY <3>1, AnyIn
    <3>3. s \ {x} \in SUBSET T /\ Cardinality(s \ {x}) \in Nat /\ Cardinality(s) = Cardinality(s \ {x}) + 1
      BY <1>1, <3>2, Smaller
    <3>4. Cardinality(s \ {x}) = k
      BY <2>1, <3>3
    <3>5. iter[s \ {x}] = f[s \ {x}]
      BY <1>7, <1>9, <3>3, <3>4
    <3>6. iter[s] = iter[s \ {x}] + Sizes[x]
      BY <1>6, <3>1, <3>2
    <3>7. f[s] = f[s \ {x}] + Sizes[x]
      BY <3>1, <3>2 DEF Totals
    <3> QED BY <3>5, <3>6, <3>7
  <2> QED BY <1>7, <2>1
<1>10. Cardinality(T) \in K
  <2>1. \A k \in Nat : k \in K
    BY <1>8, <1>9, Inductive
  <2> QED BY <1>1, <2>1, FS_CardinalityType
<1> QED BY <1>5, <1>7, <1>10

(* The fold takes a chosen element first; any other comes to the same. *)
LEMMA TotalsOfAny ==
  ASSUME NEW S \in SUBSET Roots, IsFiniteSet(S), NEW f, Totals(f, S)
  PROVE  \A s \in SUBSET S : \A r \in s : f[s] = f[s \ {r}] + Sizes[r]
<1>1. PICK K : K = {k \in Nat : \A s \in SUBSET S : Cardinality(s) = k =>
                                   \A r \in s : f[s] = f[s \ {r}] + Sizes[r]}
  OBVIOUS
<1>2. 0 \in K
  <2>1. ASSUME NEW s \in SUBSET S, Cardinality(s) = 0 PROVE s = {}
    BY <2>1, FS_Subset, FS_EmptySet
  <2> QED BY <1>1, <2>1
<1>3. ASSUME NEW k \in Nat, k \in K PROVE k + 1 \in K
  <2>1. ASSUME NEW s \in SUBSET S, Cardinality(s) = k + 1, NEW r \in s
        PROVE  f[s] = f[s \ {r}] + Sizes[r]
    <3>1. PICK x : x = One(s) /\ x \in s
      BY AnyIn
    <3>2. f[s] = f[s \ {x}] + Sizes[x]
      BY <3>1 DEF Totals
    <3>3. CASE x = r
      BY <3>2, <3>3
    <3>4. CASE x # r
      <4>1. /\ s \ {x} \in SUBSET S /\ Cardinality(s \ {x}) = k
            /\ s \ {r} \in SUBSET S /\ Cardinality(s \ {r}) = k
        BY <2>1, <3>1, Smaller
      <4>2. r \in s \ {x} /\ x \in s \ {r} /\ (s \ {x}) \ {r} = (s \ {r}) \ {x}
        BY <3>1, <3>4
      <4>3. PICK u : u = (s \ {r}) \ {x}
        OBVIOUS
      <4>4. f[s \ {x}] = f[u] + Sizes[r]
        BY <1>1, <1>3, <4>1, <4>2, <4>3
      <4>5. f[s \ {r}] = f[u] + Sizes[x]
        BY <1>1, <1>3, <4>1, <4>2, <4>3
      <4>6. f[u] \in Nat /\ Sizes[x] \in Nat /\ Sizes[r] \in Nat
        BY <3>1, <4>1, <4>3, SizesAre DEF Totals
      <4> QED BY <3>2, <4>4, <4>5, <4>6
    <3> QED BY <3>3, <3>4
  <2> QED BY <1>1, <2>1
<1>4. ASSUME NEW s \in SUBSET S PROVE Cardinality(s) \in K
  <2>1. Cardinality(s) \in Nat
    BY FS_Subset, FS_CardinalityType
  <2>2. \A k \in Nat : k \in K
    BY <1>2, <1>3, Inductive
  <2> QED BY <2>1, <2>2
<1> QED BY <1>1, <1>4

\* The total of a set is that of the rest and the size of the element.
LEMMA TotalOf ==
  ASSUME NEW S \in SUBSET Roots, IsFiniteSet(S)
  PROVE  /\ Total(S) \in Nat /\ Total({}) = 0
         /\ \A r \in S : Total(S) = Total(S \ {r}) + Sizes[r]
<1>1. PICK f : Totals(f, S)
  BY TotalsExist
<1>2. \A T \in SUBSET S : Total(T) = f[T] /\ f[T] \in Nat
  <2>1. \A T \in SUBSET S : Total(T) = f[T]
    BY <1>1, TotalIs
  <2>2. \A T \in SUBSET S : f[T] \in Nat
    BY <1>1 DEF Totals
  <2> QED BY <2>1, <2>2
<1>3. \A r \in S : f[S] = f[S \ {r}] + Sizes[r]
  BY <1>1, TotalsOfAny
<1> QED BY <1>1, <1>2, <1>3 DEF Totals
-----------------------------------------------------------------------------
(* The cache. *)

Caches == [entries : SUBSET Roots, order : Seq(Roots), bytes : Nat]

Exact(c) ==
    /\ c \in Caches /\ IsFiniteSet(c.entries)
    /\ IsInjective(c.order) /\ ToSet(c.order) = c.entries
    /\ c.bytes = Total(c.entries)

\* An empty cache is exact.
LEMMA NoCacheExact == Exact(NoCache) /\ NoCache.bytes = 0
<1>1. IsFiniteSet({}) /\ {} \in SUBSET Roots
  BY FS_EmptySet
<1>2. Total({}) = 0
  BY <1>1, TotalOf
<1>3. NoCache.entries = {} /\ NoCache.order = <<>> /\ NoCache.bytes = 0 /\ NoCache \in Caches
  BY <1>1, NoElements DEF NoCache, Caches
<1> QED BY <1>1, <1>2, <1>3, NoElements DEF Exact

(* An entry leaves the map and the order, with its bytes. *)
LEMMA Leaves ==
  ASSUME NEW c, Exact(c), NEW r \in c.entries, NEW order \in Seq(Roots), IsInjective(order),
         ToSet(order) = c.entries \ {r},
         NEW d, d = [entries |-> c.entries \ {r}, bytes |-> c.bytes - Sizes[r], order |-> order]
  PROVE  Exact(d) /\ d.bytes <= c.bytes
<1>1. c.entries \in SUBSET Roots /\ IsFiniteSet(c.entries) /\ c.bytes = Total(c.entries)
  BY DEF Exact, Caches
<1>2. Total(c.entries) = Total(c.entries \ {r}) + Sizes[r] /\ Sizes[r] \in Nat
  BY <1>1, TotalOf, SizesAre
<1>3. IsFiniteSet(c.entries \ {r}) /\ c.entries \ {r} \in SUBSET Roots
  BY <1>1, FS_RemoveElement
<1>4. Total(c.entries \ {r}) \in Nat
  BY <1>3, TotalOf
<1>5. d.entries = c.entries \ {r} /\ d.order = order /\ d.bytes = c.bytes - Sizes[r]
  OBVIOUS
<1>6. d.bytes = Total(d.entries) /\ d.bytes \in Nat /\ d.bytes <= c.bytes
  BY <1>1, <1>2, <1>4, <1>5
<1>7. d \in Caches
  BY <1>3, <1>5, <1>6 DEF Caches
<1> QED BY <1>3, <1>5, <1>6, <1>7 DEF Exact

\* forget removes the entry, its place in the order and its bytes.
LEMMA ForgottenExact ==
  ASSUME NEW c, Exact(c), NEW r
  PROVE  /\ Exact(Forgotten(c, r)) /\ Forgotten(c, r).bytes <= c.bytes
         /\ Forgotten(c, r).entries = c.entries \ {r}
<1>1. CASE r \notin c.entries
  <2>1. Forgotten(c, r) = c /\ c.entries \ {r} = c.entries
    BY <1>1 DEF Forgotten
  <2>2. c.bytes \in Nat
    BY DEF Exact, Caches
  <2> QED BY <2>1, <2>2
<1>2. CASE r \in c.entries
  <2>1. PICK order : order = Without(c.order, r)
    OBVIOUS
  <2>2. c.order \in Seq(Roots) /\ IsInjective(c.order) /\ ToSet(c.order) = c.entries
    BY DEF Exact, Caches
  <2>3. order \in Seq(Roots) /\ IsInjective(order) /\ ToSet(order) = c.entries \ {r}
    BY <2>1, <2>2, WithoutOne
  <2>4. PICK d : d = [entries |-> c.entries \ {r}, bytes |-> c.bytes - Sizes[r], order |-> order]
    OBVIOUS
  <2>5. Forgotten(c, r) = d /\ d.entries = c.entries \ {r}
    BY <1>2, <2>1, <2>4 DEF Forgotten
  <2>6. Exact(d) /\ d.bytes <= c.bytes
    BY <1>2, <2>3, <2>4, Leaves
  <2> QED BY <2>5, <2>6
<1> QED BY <1>1, <1>2

(* The oldest entry is popped and forgotten. *)
PopOne(c) == Forgotten([c EXCEPT !.order = Tail(@)], Head(c.order))

\* One eviction removes the oldest entry.
LEMMA PopOneExact ==
  ASSUME NEW c, Exact(c), c.order # <<>>
  PROVE  /\ Exact(PopOne(c)) /\ Len(PopOne(c).order) = Len(c.order) - 1
         /\ PopOne(c).entries \subseteq c.entries
<1>1. c.order \in Seq(Roots) /\ IsInjective(c.order) /\ ToSet(c.order) = c.entries /\ c \in Caches
  BY DEF Exact, Caches
<1>2. PICK r, rest : r = Head(c.order) /\ rest = Tail(c.order)
  OBVIOUS
<1>3. /\ r \in Roots /\ rest \in Seq(Roots) /\ IsInjective(rest) /\ r \notin ToSet(rest)
      /\ c.entries = ToSet(rest) \cup {r}
  BY <1>1, <1>2, Popped
<1>4. Len(rest) = Len(c.order) - 1
  BY <1>1, <1>2
<1>5. ToSet(rest) = c.entries \ {r} /\ r \in c.entries
  BY <1>3
<1>6. Without(rest, r) = rest
  BY <1>3, WithoutOne
<1>7. PICK b : b = [c EXCEPT !.order = rest]
  OBVIOUS
<1>8. b.entries = c.entries /\ b.bytes = c.bytes /\ b.order = rest
  BY <1>1, <1>7 DEF Caches
<1>9. PopOne(c) = Forgotten(b, r)
  BY <1>2, <1>7 DEF PopOne
<1>10. PICK d : d = [entries |-> c.entries \ {r}, bytes |-> c.bytes - Sizes[r], order |-> rest]
  OBVIOUS
<1>11. Forgotten(b, r) = d
  BY <1>5, <1>6, <1>8, <1>10 DEF Forgotten
<1>12. Exact(d)
  BY <1>3, <1>5, <1>10, Leaves
<1>13. d.order = rest /\ d.entries = c.entries \ {r}
  BY <1>10
<1> QED BY <1>4, <1>9, <1>11, <1>12, <1>13

(* What n pops leave of c. *)
After(d, c, n) ==
    Exact(d) /\ Len(d.order) = Len(c.order) - n /\ d.entries \subseteq c.entries

\* Before the first eviction nothing is gone.
LEMMA AfterFirst ==
  ASSUME NEW c, Exact(c)
  PROVE  After(c, c, 0)
<1>1. Len(c.order) \in Nat
  BY DEF Exact, Caches
<1> QED BY <1>1 DEF After

\* One eviction more.
LEMMA AfterNext ==
  ASSUME NEW c, Exact(c), NEW n \in Nat, n + 1 <= Len(c.order), NEW d, After(d, c, n)
  PROVE  After(PopOne(d), c, n + 1)
<1>1. PICK N \in Nat : N = Len(c.order)
  BY DEF Exact, Caches
<1>2. Exact(d) /\ Len(d.order) = N - n /\ d.entries \subseteq c.entries
  BY <1>1 DEF After
<1>3. Len(d.order) # 0 /\ N - n - 1 = N - (n + 1)
  BY <1>1, <1>2
<1>4. d.order # <<>>
  BY <1>3
<1>5. /\ Exact(PopOne(d)) /\ Len(PopOne(d).order) = N - n - 1
      /\ PopOne(d).entries \subseteq d.entries
  BY <1>2, <1>4, PopOneExact
<1>6. Len(PopOne(d).order) = Len(c.order) - (n + 1)
  BY <1>1, <1>3, <1>5
<1> QED BY <1>2, <1>5, <1>6 DEF After

PopsTo(g, c, m) ==
    /\ DOMAIN g = 0..m /\ g = [n \in 0..m |-> g[n]] /\ g[0] = c
    /\ \A n \in 1..m : g[n] = PopOne(g[n - 1])

\* The recursive function of the evictions exists.
LEMMA PopsExist ==
  ASSUME NEW c, NEW N \in Nat
  PROVE  \E g : PopsTo(g, c, N)
<1>1. PICK S : S = {m \in Nat : \E g : PopsTo(g, c, m)}
  OBVIOUS
<1>2. 0 \in S
  <2>1. PICK g : g = [n \in 0..0 |-> c]
    OBVIOUS
  <2>2. DOMAIN g = 0..0 /\ g[0] = c /\ 1..0 = {} /\ g = [n \in 0..0 |-> g[n]]
    BY <2>1
  <2>3. PopsTo(g, c, 0)
    BY <2>2 DEF PopsTo
  <2> QED BY <1>1, <2>3
<1>3. ASSUME NEW m \in Nat, m \in S PROVE m + 1 \in S
  <2>1. PICK g : PopsTo(g, c, m)
    BY <1>1, <1>3
  <2>2. PICK h : h = [n \in 0..(m + 1) |-> IF n = m + 1 THEN PopOne(g[m]) ELSE g[n]]
    OBVIOUS
  <2>3. h[m + 1] = PopOne(g[m]) /\ \A n \in 0..m : h[n] = g[n]
    BY <2>2
  <2>4. DOMAIN h = 0..(m + 1) /\ h = [n \in 0..(m + 1) |-> h[n]]
    BY <2>2
  <2>5. ASSUME NEW n \in 1..(m + 1) PROVE h[n] = PopOne(h[n - 1])
    <3>1. CASE n = m + 1
      <4>1. n - 1 = m /\ m \in 0..m
        BY <3>1
      <4> QED BY <2>3, <3>1, <4>1
    <3>2. CASE n # m + 1
      <4>1. n \in 1..m /\ n \in 0..m /\ n - 1 \in 0..m
        BY <3>2
      <4> QED BY <2>1, <2>3, <4>1 DEF PopsTo
    <3> QED BY <3>1, <3>2
  <2>6. h[0] = c
    BY <2>1, <2>3 DEF PopsTo
  <2>7. PopsTo(h, c, m + 1)
    BY <2>4, <2>5, <2>6 DEF PopsTo
  <2> QED BY <1>1, <2>7
<1>4. N \in S
  BY <1>2, <1>3, Inductive
<1> QED BY <1>1, <1>4

\* The evictions end with room for the new entry.
LEMMA EvictedExact ==
  ASSUME NEW c, Exact(c), NEW size \in Nat, size <= Budget
  PROVE  /\ Exact(Evicted(c, size)) /\ Evicted(c, size).entries \subseteq c.entries
         /\ Evicted(c, size).bytes + size <= Budget
<1>1. PICK N \in Nat : N = Len(c.order)
  BY DEF Exact, Caches
<1> DEFINE F(g) == [n \in 0..Len(c.order) |-> IF n = 0 THEN c ELSE PopOne(g[n - 1])]
           pop == CHOOSE g : g = F(g)
           enough == {n \in 0..Len(c.order) : pop[n].bytes + size <= Budget}
<1>2. PICK g : PopsTo(g, c, N)
  BY PopsExist
<1>3. g = F(g)
  <2>1. g = [n \in 0..N |-> g[n]]
    BY <1>2 DEF PopsTo
  <2>2. ASSUME NEW n \in 0..N PROVE g[n] = IF n = 0 THEN c ELSE PopOne(g[n - 1])
    <3>1. n = 0 \/ n \in 1..N
      OBVIOUS
    <3> QED BY <1>2, <3>1 DEF PopsTo
  <2> QED BY <1>1, <2>1, <2>2
<1>4. pop = F(pop)
  BY <1>3
<1>5. Evicted(c, size) = pop[Min(enough \cup {Len(c.order)})]
  BY DEF Evicted, PopOne
<1> HIDE DEF pop
<1>6. pop[0] = c /\ \A n \in 1..N : pop[n] = PopOne(pop[n - 1])
  <2>1. \A n \in 0..N : pop[n] = IF n = 0 THEN c ELSE PopOne(pop[n - 1])
    BY <1>1, <1>4
  <2>2. 0 \in 0..N /\ \A n \in 1..N : n \in 0..N /\ n # 0
    OBVIOUS
  <2> QED BY <2>1, <2>2
<1> HIDE DEF F
<1>7. PICK S : S = {n \in Nat : n <= N => After(pop[n], c, n)}
  OBVIOUS
<1>8. 0 \in S
  BY <1>6, <1>7, AfterFirst
<1>9. ASSUME NEW n \in Nat, n \in S PROVE n + 1 \in S
  <2>1. CASE n + 1 <= N
    <3>1. After(pop[n], c, n)
      BY <1>7, <1>9, <2>1
    <3>2. n + 1 \in 1..N /\ (n + 1) - 1 = n
      BY <2>1
    <3>3. pop[n + 1] = PopOne(pop[n])
      BY <1>6, <3>2
    <3>4. After(pop[n + 1], c, n + 1)
      BY <1>1, <2>1, <3>1, <3>3, AfterNext
    <3> QED BY <1>7, <3>4
  <2>2. CASE ~(n + 1 <= N)
    BY <1>7, <2>2
  <2> QED BY <2>1, <2>2
<1>10. \A n \in 0..N : After(pop[n], c, n)
  <2>1. \A n \in Nat : n \in S
    BY <1>8, <1>9, Inductive
  <2> QED BY <1>7, <2>1
<1>11. PICK M : M = enough \cup {N}
  OBVIOUS
<1>12. M \in SUBSET Nat /\ M # {} /\ M \subseteq 0..N
  BY <1>1, <1>11
<1>13. PICK m \in M : m = Min(M)
  BY <1>12, MinIn
<1>14. Evicted(c, size) = pop[m] /\ m \in 0..N
  BY <1>1, <1>5, <1>11, <1>12, <1>13
<1>15. Exact(pop[m]) /\ Len(pop[m].order) = N - m /\ pop[m].entries \subseteq c.entries
  BY <1>1, <1>10, <1>14 DEF After
<1>16. CASE m \in enough
  BY <1>14, <1>15, <1>16
<1>17. CASE m = N
  <2>1. Len(pop[m].order) = 0
    BY <1>15, <1>17
  <2>2. pop[m].order = <<>>
    BY <1>15, <2>1 DEF Exact, Caches
  <2>3. pop[m].entries = {}
    BY <1>15, <2>2, NoElements DEF Exact
  <2>4. pop[m].bytes = 0
    BY <1>15, <2>3, NoCacheExact DEF Exact, NoCache
  <2> QED BY <1>14, <1>15, <2>4
<1> QED BY <1>11, <1>13, <1>16, <1>17

\* put keeps the cache exact and within its budget.
LEMMA PutExact ==
  ASSUME NEW c, Exact(c), NEW r \in Roots, Sizes[r] <= Budget
  PROVE  Exact(Put(c, r)) /\ Put(c, r).bytes <= Budget
<1>1. PICK b : b = Forgotten(c, r)
  OBVIOUS
<1>2. Exact(b) /\ r \notin b.entries
  BY <1>1, ForgottenExact
<1>3. PICK e : e = Evicted(b, Sizes[r])
  OBVIOUS
<1>4. Exact(e) /\ r \notin e.entries /\ e.bytes + Sizes[r] <= Budget /\ Sizes[r] \in Nat
  BY <1>2, <1>3, EvictedExact, SizesAre
<1>5. PICK d : d = [entries |-> e.entries \cup {r}, order |-> Append(e.order, r),
                    bytes |-> e.bytes + Sizes[r]]
  OBVIOUS
<1>6. Put(c, r) = d
  BY <1>1, <1>3, <1>5 DEF Put, Inserted
<1>7. /\ d.entries = e.entries \cup {r} /\ d.order = Append(e.order, r)
      /\ d.bytes = e.bytes + Sizes[r]
  BY <1>5
<1>8. /\ e.entries \in SUBSET Roots /\ e.order \in Seq(Roots) /\ e.bytes \in Nat
      /\ IsFiniteSet(e.entries) /\ IsInjective(e.order) /\ ToSet(e.order) = e.entries
      /\ e.bytes = Total(e.entries)
  BY <1>4 DEF Exact, Caches
<1>9. d.order \in Seq(Roots) /\ IsInjective(d.order) /\ ToSet(d.order) = d.entries
  BY <1>4, <1>7, <1>8, Appended
<1>10. IsFiniteSet(d.entries) /\ d.entries \in SUBSET Roots
  <2>1. IsFiniteSet(e.entries)
    BY <1>8
  <2>2. IsFiniteSet(e.entries \cup {r})
    BY <2>1, FS_AddElement
  <2>3. e.entries \cup {r} \in SUBSET Roots
    BY <1>8
  <2>4. d.entries = e.entries \cup {r}
    BY <1>7
  <2> QED BY <2>2, <2>3, <2>4
<1>11. d.entries \ {r} = e.entries /\ r \in d.entries
  BY <1>4, <1>7
<1>12. d.bytes = Total(d.entries)
  BY <1>7, <1>8, <1>10, <1>11, TotalOf
<1>13. d.bytes \in Nat /\ d.bytes <= Budget
  BY <1>4, <1>7, <1>8
<1>14. d \in Caches
  BY <1>5, <1>7, <1>9, <1>10, <1>13 DEF Caches
<1> QED BY <1>6, <1>9, <1>10, <1>12, <1>13, <1>14 DEF Exact

CacheInv == Exact(cache) /\ cache.bytes <= Budget

\* Every step keeps the cache exact.
LEMMA CacheNext ==
  ASSUME CacheInv, Requested, [Next]_vars
  PROVE  CacheInv'
<1>1. CASE cache' = cache
  BY <1>1 DEF CacheInv, Exact
<1>2. CASE UNCHANGED vars
  BY <1>1, <1>2 DEF vars, memory
<1>3. CASE Refresh \/ RefreshFromArchive \/ Age \/ Mine \/ Outage \/ Return \/ Take \/ Step \/ Fail
  BY <1>1, <1>3 DEF Refresh, RefreshFromArchive, Age, Mine, Outage, Return, Take, Step, Fail, memory
<1>4. ASSUME NEW w \in Workers, Look(w) \/ LaunchFetch(w) \/ Await(w) \/ Refetch(w) \/ TimeOut(w)
      PROVE  CacheInv'
  BY <1>1, <1>4 DEF Look, LaunchFetch, Await, Refetch, TimeOut, memory
<1>5. ASSUME NEW w \in Workers, Remember(w) PROVE CacheInv'
  <2>1. PICK r \in Roots : r = call[w].root
    BY <1>5 DEF Remember, Requested
  <2>2. cache' = IF Sizes[r] <= Budget THEN Put(cache, r) ELSE cache
    BY <1>5, <2>1 DEF Remember
  <2>3. CASE Sizes[r] <= Budget
    <3>1. Exact(cache') /\ cache'.bytes <= Budget
      BY <2>2, <2>3, PutExact DEF CacheInv
    <3> QED BY <3>1 DEF CacheInv, Exact
  <2> QED BY <1>1, <2>2, <2>3
<1>6. ASSUME NEW w \in Workers, Serve(w) PROVE CacheInv'
  <2>1. cache' = cache \/ cache' = Forgotten(cache, call[w].root)
    BY <1>6 DEF Serve
  <2>2. CASE cache' = Forgotten(cache, call[w].root)
    <3>1. Exact(cache') /\ cache'.bytes <= cache.bytes
      BY <2>2, ForgottenExact DEF CacheInv
    <3>2. cache.bytes \in Nat /\ cache'.bytes \in Nat /\ Budget \in Nat
      BY <3>1, GatewayAssumption DEF CacheInv, Exact, Caches
    <3>3. cache'.bytes <= Budget
      BY <3>1, <3>2 DEF CacheInv
    <3> QED BY <3>1, <3>3 DEF CacheInv, Exact
  <2> QED BY <1>1, <2>1, <2>2
<1>7. ASSUME NEW w \in Workers, NEW path \in Paths[w], Accept(w, path) PROVE CacheInv'
  BY <1>1, <1>7 DEF Accept, memory
<1>8. ASSUME NEW r \in Roots, RetryElapses(r) PROVE CacheInv'
  BY <1>1, <1>8 DEF RetryElapses
<1>9. ASSUME NEW r \in Imported, NEW n \in 1..4, Import(r, n) PROVE CacheInv'
  BY <1>1, <1>9 DEF Import, memory
<1>10. ASSUME NEW g \in Rotting, Rot(g) PROVE CacheInv'
  BY <1>1, <1>10 DEF Rot, memory
<1>11. CASE Restart
  <2>1. cache' = NoCache
    BY <1>11 DEF Restart
  <2>2. Exact(cache') /\ cache'.bytes <= Budget
    BY <2>1, NoCacheExact, GatewayAssumption
  <2> QED BY <2>2 DEF CacheInv, Exact
<1> QED BY <1>2, <1>3, <1>4, <1>5, <1>6, <1>7, <1>8, <1>9, <1>10, <1>11 DEF Next, Proceed

(* For every budget and any number of workers that remember and forget      *)
(* publications in any order, the cache counts the bytes of exactly what it *)
(* holds, lists it once and stays within the budget (Cache::put, forget);   *)
(* and a publication with a pointer in the store has all of its files,      *)
(* wherever a fetch stops and whatever an import or rot does beside it      *)
(* (store_publication, Prepared::publish).                                  *)
THEOREM NothingHalfKept == Spec => []KeptWhole
<1>1. Init => JobInv /\ Requested /\ StoreInv /\ CacheInv
  <2>1. Init => CacheInv
    BY NoCacheExact, GatewayAssumption DEF Init, CacheInv
  <2> QED BY <2>1, JobInit, StoreInit
<1>2. JobInv /\ Requested /\ StoreInv /\ CacheInv /\ [Next]_vars
        => JobInv' /\ Requested' /\ StoreInv' /\ CacheInv'
  BY JobNext, RequestedNext, StoreNext, CacheNext
<1>3. StoreInv /\ CacheInv => KeptWhole
  <2>1. StoreInv => PointerLast
    BY DEF StoreInv, Whole, PointerLast
  <2>2. CacheInv => CacheExact
    BY DEF CacheInv, Exact, CacheExact, Total
  <2> QED BY <2>1, <2>2 DEF KeptWhole
<1> QED BY <1>1, <1>2, <1>3, PTL DEF Spec
=============================================================================
