-------------------------- MODULE DiskPublishProofs --------------------------
(***************************************************************************)
(* Publication of a plan of any size, over any number of passes, crashes,  *)
(* evictions and reorganizations: reveals are submitted in order, attempts *)
(* are on disk before they are made, the pending commits stay within their *)
(* limit and a complete report is true. And the plans themselves: what     *)
(* loads is a whole tree over one chain of commits, and the quoted coin    *)
(* signs a plan of any length to its end.                                  *)
(***************************************************************************)
EXTENDS DiskPublish, FiniteSetTheorems, SequenceTheorems, WellFoundedInduction, TLAPS

(* Where the memory of a pass is empty, and where the walk is. *)
Resting == {"load", "refused", "loaded", "idle", "stopped", "done"}
Walking == {"commit", "reveal", "next", "look commit", "look reveal",
            "send commit", "send reveal", "check commit", "check reveal"}

IsWalk(w) ==
    w = [data |-> w.data, leaves |-> w.leaves, parent |-> w.parent, limited |-> w.limited,
         commits |-> w.commits, weight |-> w.weight, broadcast |-> w.broadcast]

(* The types, and how far the observations reach at each step. *)
Types ==
    /\ where \in [Tx -> {"none", "mempool", "tip", "deep"}]
    /\ since \subseteq Tx /\ accepted \subseteq Tx /\ buried \subseteq Tx
    /\ log \in [Tx -> Presence \cup {"none"}]
    /\ obs \in Seq(State) /\ Len(obs) <= 2 * N /\ IsWalk(walk)
    /\ pc \in Resting => obs = <<>> /\ pos = 1
    /\ pc = "inventory" => pos \in 1..(2 * N) /\ Len(obs) = pos - 1
    /\ pc = "anchor" \/ pc \in Walking => Len(obs) = 2 * N
    /\ pc \in Walking => pos \in 1..N

(* What the node has, it was sent, and what it mined is in `buried'. *)
Told ==
    /\ \A tx \in Tx : where[tx] # "none" => tx \in accepted
    /\ \A tx \in Tx : where[tx] \in {"tip", "deep"} => tx \in buried
    /\ acked \subseteq accepted

(* What the pass has seen was there. *)
Witnessed ==
    \A k \in 1..Len(obs) :
        /\ obs[k] = "Confirmed" => TxAt(k) \in buried
        /\ obs[k] \in {"Mempool", "Confirmed"} => TxAt(k) \in accepted

(* The log has what was sent and what is about to be. *)
Logged ==
    /\ \A tx \in accepted : log[tx] # "none"
    /\ pc \in {"send commit", "send reveal"} => log[Target] # "none"

(* The flags of the walk speak of the records before pos. *)
Flags ==
    /\ walk.data => \A j \in 1..(pos - 1) : Roles[j] = "data" => j \in Revealed
    /\ walk.leaves => \A j \in 1..(pos - 1) : Roles[j] = "leaf" => j \in Revealed

Eligible ==
    /\ pc \in Walking => Flags
    /\ pc \in {"look reveal", "send reveal"} => Dependencies /\ <<pos, "commit">> \in buried

Ordered == Types /\ Told /\ Witnessed /\ Logged /\ Eligible /\ RootLast /\ RevealAfterCommit

-----------------------------------------------------------------------------
(* The places of the transactions in the observations. *)

(* A plan has records. *)
LEMMA PlanSize == N \in Nat \ {0} /\ DOMAIN Roles = 1..N /\ \A i \in 1..N : Roles[i] \in {"data", "leaf", "root"}
  BY PublishAssumption DEF N

LEMMA Twice == 2 * N \in Nat /\ 2 * N <= 2 * N
<1>1. N \in Nat BY PlanSize
<1> QED BY <1>1

LEMMA TxAtIs ==
  ASSUME NEW i \in Nat \ {0}
  PROVE  TxAt(2 * i - 1) = <<i, "commit">> /\ TxAt(2 * i) = <<i, "reveal">>
  BY DEF TxAt

LEMMA TxAtIn ==
  ASSUME NEW k \in 1..(2 * N)
  PROVE  TxAt(k) \in Tx
<1>1. N \in Nat BY PlanSize
<1> QED BY <1>1 DEF TxAt, Tx

(* The transaction at hand, and its place. *)
LEMMA TargetAt ==
  ASSUME pos \in 1..N
  PROVE  /\ Target \in Tx /\ Slot \in 1..(2 * N) /\ TxAt(Slot) = Target
         /\ Kind \in {"commit", "reveal"} /\ Target = <<pos, Kind>>
         /\ Kind = "commit" => Slot = 2 * pos - 1
         /\ Kind = "reveal" => Slot = 2 * pos
<1>1. N \in Nat /\ pos \in Nat \ {0} BY PlanSize
<1>2. Kind \in {"commit", "reveal"} BY DEF Kind
<1>3. TxAt(2 * pos - 1) = <<pos, "commit">> /\ TxAt(2 * pos) = <<pos, "reveal">>
  BY <1>1, TxAtIs
<1> QED BY <1>1, <1>2, <1>3 DEF Target, Slot, Tx

(* An answer of the node says no more than what happened. *)
LEMMA AnswerTrue ==
  ASSUME Types, Told, NEW tx \in Tx, NEW p \in Answers(tx)
  PROVE  /\ p \in Presence /\ p \in State
         /\ p = "Confirmed" => tx \in buried /\ where[tx] \in {"tip", "deep"}
         /\ p \in {"Mempool", "Confirmed"} => tx \in accepted
<1>1. where[tx] \in {"none", "mempool", "tip", "deep"}
  BY DEF Types
<1>2. PresenceOf(tx) \in Presence
  BY <1>1 DEF PresenceOf, Presence
<1>3. p = PresenceOf(tx) \/ p = "Missing"
  BY DEF Answers
<1>4. /\ PresenceOf(tx) = "Confirmed" => where[tx] \in {"tip", "deep"}
      /\ PresenceOf(tx) = "Mempool" => tx \in acked \/ where[tx] = "mempool"
  BY <1>1 DEF PresenceOf
<1> QED BY <1>1, <1>2, <1>3, <1>4 DEF Told, Presence, State

-----------------------------------------------------------------------------
(* Ordered submission: the invariant *)

LEMMA NoWalkShape == IsWalk(NoWalk) /\ NoWalk.data = TRUE /\ NoWalk.leaves = TRUE /\ NoWalk.commits = 0
  BY DEF IsWalk, NoWalk

(* A pass that has seen nothing. *)
LEMMA NothingSeen == <<>> \in Seq(State) /\ Len(<<>>) = 0 /\ 1..Len(<<>>) = {}
  OBVIOUS

LEMMA RestingSteps ==
  ASSUME NEW step \in Resting
  PROVE  /\ step \notin Walking /\ step \notin {"inventory", "anchor"}
         /\ step \notin {"look reveal", "send commit", "send reveal"}
  BY DEF Resting, Walking

LEMMA InitOrdered == Init => Ordered
<1> SUFFICES ASSUME Init PROVE Ordered
  OBVIOUS
<1>1. pc \in Resting
  BY DEF Init, Resting
<1>2. pc \notin Walking /\ pc \notin {"inventory", "anchor", "look reveal", "send commit", "send reveal"}
  BY <1>1, RestingSteps
<1>3. obs \in Seq(State) /\ 1..Len(obs) = {} /\ Len(obs) <= 2 * N /\ IsWalk(walk)
  <2>1. N \in Nat /\ obs = <<>> /\ IsWalk(walk)
    BY PlanSize, NoWalkShape DEF Init
  <2>2. 0 <= 2 * N
    BY <2>1
  <2> QED BY <2>1, <2>2, NothingSeen
<1>4. Types
  BY <1>1, <1>2, <1>3 DEF Init, Types
<1>5. Told
  BY DEF Init, Told
<1>6. Witnessed
  BY <1>3 DEF Witnessed
<1>7. Logged /\ Eligible
  BY <1>2 DEF Init, Logged, Eligible
<1>8. RootLast /\ RevealAfterCommit
  BY DEF Init, RootLast, RevealAfterCommit, Revealed
<1> QED BY <1>4, <1>5, <1>6, <1>7, <1>8 DEF Ordered

(* Submissions and blocks are never taken back, and no step forgets a log line. *)
Grows ==
    /\ accepted \subseteq accepted' /\ buried \subseteq buried'
    /\ log' \in [Tx -> Presence \cup {"none"}]
    /\ \A tx \in Tx : log[tx] # "none" => log'[tx] # "none"

LEMMA AppendGrows ==
  ASSUME Types, NEW tx \in Tx, NEW p \in Presence, Append1(tx, p) \/ log' = log
  PROVE  /\ log' \in [Tx -> Presence \cup {"none"}]
         /\ \A t \in Tx : log[t] # "none" => log'[t] # "none"
         /\ Append1(tx, p) => log'[tx] # "none"
<1>1. log \in [Tx -> Presence \cup {"none"}] /\ p # "none"
  BY DEF Types, Presence
<1>2. CASE log' = log /\ ~Append1(tx, p)
  BY <1>1, <1>2
<1>3. CASE Append1(tx, p)
  BY <1>1, <1>3 DEF Append1
<1> QED BY <1>2, <1>3

(* A step that submits nothing keeps what depends on submissions only. *)
LEMMA SubmitsNothing ==
  ASSUME Ordered, accepted' = accepted, buried \subseteq buried'
  PROVE  RootLast' /\ RevealAfterCommit' /\ Revealed' = Revealed
  BY DEF Ordered, RootLast, RevealAfterCommit, Revealed

(* The node forgets, mines, reorganizes. *)
LEMMA WorldOrdered ==
  ASSUME Ordered, \/ \E S \in SUBSET Waiting : Mine(S) \/ Evict(S)
                  \/ Reorg
                  \/ \E tx \in Tx : Expire(tx)
  PROVE  Ordered'
<1>1. UNCHANGED <<accepted, log, pc, pos, obs, walk>> /\ buried \subseteq buried'
  BY DEF Mine, Evict, Reorg, Expire, files, pass
<1>2. /\ where' \in [Tx -> {"none", "mempool", "tip", "deep"}]
      /\ since' \subseteq Tx /\ buried' \subseteq Tx /\ Told'
  <2>1. ASSUME NEW S \in SUBSET Waiting, Mine(S)
        PROVE  /\ where' \in [Tx -> {"none", "mempool", "tip", "deep"}]
               /\ since' \subseteq Tx /\ buried' \subseteq Tx /\ Told'
    BY <2>1 DEF Ordered, Types, Told, Mine, Waiting
  <2>2. ASSUME NEW S \in SUBSET Waiting, Evict(S)
        PROVE  /\ where' \in [Tx -> {"none", "mempool", "tip", "deep"}]
               /\ since' \subseteq Tx /\ buried' \subseteq Tx /\ Told'
    BY <2>2 DEF Ordered, Types, Told, Evict, Waiting
  <2>3. CASE Reorg
    BY <2>3 DEF Ordered, Types, Told, Reorg
  <2>4. ASSUME NEW tx \in Tx, Expire(tx)
        PROVE  /\ where' \in [Tx -> {"none", "mempool", "tip", "deep"}]
               /\ since' \subseteq Tx /\ buried' \subseteq Tx /\ Told'
    BY <2>4 DEF Ordered, Types, Told, Expire
  <2> QED BY <2>1, <2>2, <2>3, <2>4
<1>3. RootLast' /\ RevealAfterCommit' /\ Revealed' = Revealed
  BY <1>1, SubmitsNothing
<1>4. Types'
  BY <1>1, <1>2 DEF Ordered, Types
<1>5. Witnessed'
  BY <1>1 DEF Ordered, Witnessed
<1>6. Logged'
  BY <1>1 DEF Ordered, Logged, Target, Kind
<1>7. Eligible'
  BY <1>1, <1>3 DEF Ordered, Eligible, Flags, Dependencies
<1> QED BY <1>2, <1>3, <1>4, <1>5, <1>6, <1>7 DEF Ordered

(* Steps that end at rest: a load, a resume, and the end of a pass. *)
LEMMA RestOrdered ==
  ASSUME Ordered, pc' \in Resting, obs' = <<>>, pos' = 1, IsWalk(walk'),
         UNCHANGED <<where, accepted, buried, log>>, since' \subseteq Tx, acked' \subseteq acked
  PROVE  Ordered'
<1>1. pc' \notin Walking /\ pc' \notin {"inventory", "anchor", "look reveal", "send commit", "send reveal"}
  BY RestingSteps
<1>2. obs' \in Seq(State) /\ 1..Len(obs') = {} /\ Len(obs') <= 2 * N
  BY NothingSeen, PlanSize
<1>3. Types'
  BY <1>1, <1>2 DEF Ordered, Types
<1>4. Told'
  BY DEF Ordered, Told
<1>5. Witnessed'
  BY <1>2 DEF Witnessed
<1>6. Logged' /\ Eligible'
  BY <1>1 DEF Ordered, Logged, Eligible
<1>7. RootLast' /\ RevealAfterCommit'
  BY SubmitsNothing
<1> QED BY <1>3, <1>4, <1>5, <1>6, <1>7 DEF Ordered

LEMMA OverOrdered ==
  ASSUME Ordered, Finish \/ Abort \/ TornAppend \/ Load \/ Resume
  PROVE  Ordered'
<1>1. CASE Load \/ Resume
  <2>1. /\ pc \in Resting /\ pc' \in Resting
        /\ UNCHANGED <<where, since, acked, accepted, buried, log, pos, obs, walk>>
    BY <1>1 DEF Load, Resume, Resting, world, files
  <2>2. obs' = <<>> /\ pos' = 1 /\ IsWalk(walk') /\ since' \subseteq Tx /\ acked' \subseteq acked
    BY <2>1 DEF Ordered, Types
  <2> QED BY <2>1, <2>2, RestOrdered
<1>2. CASE Finish \/ Abort \/ TornAppend
  <2>1. PICK next \in {"stopped", "done", "idle"} : Over(next) /\ log' = log
    BY <1>2 DEF Finish, Abort, TornAppend, files
  <2>2. /\ pc' \in Resting /\ obs' = <<>> /\ pos' = 1 /\ walk' = NoWalk /\ since' = {}
        /\ acked' \subseteq acked /\ UNCHANGED <<where, accepted, buried>>
    BY <2>1 DEF Over, Resting
  <2> QED BY <2>1, <2>2, NoWalkShape, RestOrdered
<1> QED BY <1>1, <1>2

LEMMA BeginOrdered ==
  ASSUME Ordered, NEW publishing, Begin(publishing)
  PROVE  Ordered'
<1>1. /\ pc = "idle" /\ pc' \in {"stopped", "inventory"}
      /\ UNCHANGED <<where, since, acked, accepted, buried, log, pos, obs, walk>>
  BY DEF Begin, files
<1>2. obs = <<>> /\ pos = 1 /\ N \in Nat \ {0}
  BY <1>1, PlanSize DEF Ordered, Types, Resting
<1>3. Types'
  <2>1. pc' \notin Walking /\ pc' # "anchor"
    BY <1>1 DEF Walking
  <2>2. pos \in 1..(2 * N) /\ Len(obs) = pos - 1
    BY <1>2, NothingSeen
  <2> QED BY <1>1, <1>2, <2>1, <2>2 DEF Ordered, Types
<1>4. Told' /\ Witnessed' /\ Logged' /\ Eligible'
  BY <1>1 DEF Ordered, Told, Witnessed, Logged, Eligible, Walking
<1>5. RootLast' /\ RevealAfterCommit'
  BY <1>1, SubmitsNothing
<1> QED BY <1>3, <1>4, <1>5 DEF Ordered

(* A step of the pass that leaves the node alone. *)
Quiet ==
    /\ UNCHANGED <<where, since, acked, accepted, buried>>
    /\ log' \in [Tx -> Presence \cup {"none"}]
    /\ \A tx \in Tx : log[tx] # "none" => log'[tx] # "none"

LEMMA QuietOrdered ==
  ASSUME Ordered, Quiet
  PROVE  /\ where' \in [Tx -> {"none", "mempool", "tip", "deep"}]
         /\ since' \subseteq Tx /\ accepted' \subseteq Tx /\ buried' \subseteq Tx
         /\ Told' /\ RootLast' /\ RevealAfterCommit' /\ Revealed' = Revealed
         /\ \A tx \in accepted' : log'[tx] # "none"
<1>1. Told'
  BY DEF Ordered, Told, Quiet
<1>2. RootLast' /\ RevealAfterCommit' /\ Revealed' = Revealed
  BY SubmitsNothing DEF Quiet
<1>3. \A tx \in accepted' : log'[tx] # "none"
  BY DEF Ordered, Types, Logged, Quiet
<1> QED BY <1>1, <1>2, <1>3 DEF Ordered, Types, Quiet

LEMMA UnloggedQuiet ==
  ASSUME Ordered, UNCHANGED <<where, since, acked, accepted, buried, log>>
  PROVE  Quiet
  BY DEF Ordered, Types, Quiet

LEMMA LoggedQuiet ==
  ASSUME Ordered, UNCHANGED world, NEW tx \in Tx, NEW p \in Presence,
         Append1(tx, p) \/ log' = log
  PROVE  Quiet
<1>1. Types
  BY DEF Ordered
<1>2. /\ log' \in [Tx -> Presence \cup {"none"}]
      /\ \A t \in Tx : log[t] # "none" => log'[t] # "none"
  BY <1>1, AppendGrows
<1> QED BY <1>2 DEF Quiet, world

LEMMA RecordAppends ==
  ASSUME NEW tx, NEW p, Record(tx, p)
  PROVE  Append1(tx, p) \/ log' = log
  BY DEF Record

(* An observation more, of a transaction that is what it says. *)
LEMMA WitnessMore ==
  ASSUME Ordered, UNCHANGED <<accepted, buried>>, NEW s \in State, obs' = Append(obs, s),
         s = "Confirmed" => TxAt(Len(obs) + 1) \in buried,
         s \in {"Mempool", "Confirmed"} => TxAt(Len(obs) + 1) \in accepted
  PROVE  obs' \in Seq(State) /\ Len(obs') = Len(obs) + 1 /\ Witnessed'
<1>1. obs \in Seq(State)
  BY DEF Ordered, Types
<1>2. obs' \in Seq(State) /\ Len(obs') = Len(obs) + 1 /\ Len(obs) \in Nat
  BY <1>1
<1>3. ASSUME NEW k \in 1..Len(obs')
      PROVE  /\ obs'[k] = "Confirmed" => TxAt(k) \in buried
             /\ obs'[k] \in {"Mempool", "Confirmed"} => TxAt(k) \in accepted
  <2>1. CASE k = Len(obs) + 1
    <3>1. obs'[k] = s
      BY <1>1, <2>1
    <3> QED BY <2>1, <3>1
  <2>2. CASE k \in 1..Len(obs)
    <3>1. obs'[k] = obs[k]
      BY <1>1, <2>2
    <3> QED BY <2>2, <3>1 DEF Ordered, Witnessed
  <2> QED BY <1>2, <2>1, <2>2
<1>4. Witnessed'
  BY <1>3 DEF Witnessed
<1> QED BY <1>2, <1>4

LEMMA InventoryOrdered ==
  ASSUME Ordered, Inventory
  PROVE  Ordered'
<1>1. pc = "inventory" /\ pos \in 1..(2 * N) /\ Len(obs) = pos - 1 /\ N \in Nat \ {0}
  BY PlanSize DEF Inventory, Ordered, Types
<1> DEFINE tx == TxAt(pos)
<1>2. tx \in Tx
  BY <1>1, TxAtIn
<1> HIDE DEF tx
<1>3. PICK p \in Answers(tx) : obs' = Append(obs, StateOf(tx, p)) /\ Record(tx, p)
  BY DEF Inventory, tx
<1>4. /\ p \in Presence
      /\ p = "Confirmed" => tx \in buried
      /\ p \in {"Mempool", "Confirmed"} => tx \in accepted
  BY <1>2, AnswerTrue DEF Ordered
<1>5. /\ StateOf(tx, p) \in State
      /\ StateOf(tx, p) \in {"Mempool", "Confirmed"} => p = StateOf(tx, p)
  BY <1>4 DEF StateOf, State, Presence
<1>6. UNCHANGED world /\ UNCHANGED <<where, since, acked, accepted, buried>>
  BY DEF Inventory, world
<1>7. Quiet
  BY <1>2, <1>3, <1>4, <1>6, LoggedQuiet, RecordAppends
<1>8. obs' \in Seq(State) /\ Len(obs') = Len(obs) + 1 /\ Witnessed'
  <2>1. tx = TxAt(Len(obs) + 1)
    BY <1>1 DEF tx
  <2>2. /\ StateOf(tx, p) = "Confirmed" => TxAt(Len(obs) + 1) \in buried
        /\ StateOf(tx, p) \in {"Mempool", "Confirmed"} => TxAt(Len(obs) + 1) \in accepted
    BY <1>4, <1>5, <2>1
  <2> QED BY <1>3, <1>5, <1>6, <2>2, WitnessMore
<1>9. /\ walk' = walk /\ pos' = pos + 1
      /\ pc' = IF pos = 2 * N THEN "anchor" ELSE "inventory"
  BY <1>1 DEF Inventory
<1>10. pc' \notin Walking /\ pc' \notin Resting
  BY <1>9 DEF Walking, Resting
<1>11. Types'
  <2>1. pc' = "inventory" => pos' \in 1..(2 * N) /\ Len(obs') = pos' - 1
    BY <1>1, <1>8, <1>9
  <2>2. pc' = "anchor" => Len(obs') = 2 * N
    BY <1>1, <1>8, <1>9
  <2>3. IsWalk(walk') /\ Len(obs') <= 2 * N
    BY <1>1, <1>8, <1>9 DEF Ordered, Types
  <2> QED BY <1>7, <1>8, <1>10, <2>1, <2>2, <2>3, QuietOrdered DEF Types, Quiet
<1>12. Logged' /\ Eligible'
  BY <1>7, <1>9, <1>10, QuietOrdered DEF Logged, Eligible, Walking
<1> QED BY <1>7, <1>8, <1>11, <1>12, QuietOrdered DEF Ordered

(* A step that comes to the end of the pass. *)
LEMMA FinishingOrdered ==
  ASSUME Ordered, Quiet, pc' = "finish", IsWalk(walk'), Witnessed',
         obs' \in Seq(State), Len(obs') <= 2 * N
  PROVE  Ordered'
<1>1. pc' \notin Walking /\ pc' \notin Resting
  BY DEF Walking, Resting
<1>2. Types'
  BY <1>1, QuietOrdered DEF Types, Quiet
<1>3. Logged' /\ Eligible'
  BY <1>1, QuietOrdered DEF Logged, Eligible
<1> QED BY <1>2, <1>3, QuietOrdered DEF Ordered

LEMMA UnavailableOrdered ==
  ASSUME Ordered, Unavailable
  PROVE  Ordered'
<1>1. /\ UNCHANGED <<where, since, acked, accepted, buried, log>> /\ UNCHANGED walk
      /\ pc' = "finish" /\ obs' = Append(obs, "SourceUnavailable")
  BY DEF Unavailable, world, files
<1>2. "SourceUnavailable" \in State
  BY DEF State
<1>3. obs' \in Seq(State) /\ Len(obs') = Len(obs) + 1 /\ Witnessed'
  BY <1>1, <1>2, WitnessMore
<1>4. IsWalk(walk') /\ Len(obs') <= 2 * N
  <2>1. Len(obs) = pos - 1 /\ pos \in 1..(2 * N) /\ N \in Nat
    BY PlanSize DEF Unavailable, Ordered, Types
  <2> QED BY <1>1, <1>3, <2>1 DEF Ordered, Types
<1> QED BY <1>1, <1>3, <1>4, UnloggedQuiet, FinishingOrdered

(* A buffer of c pending commits, and the availability of before. *)
Like(v, w, c) == IsWalk(v) /\ v.data = w.data /\ v.leaves = w.leaves /\ v.commits = c

LEMMA LimitedShape ==
  ASSUME NEW w, IsWalk(w)
  PROVE  Like([w EXCEPT !.limited = TRUE], w, w.commits)
<1>1. PICK v : v = [w EXCEPT !.limited = TRUE]
  OBVIOUS
<1>2. v = [data |-> w.data, leaves |-> w.leaves, parent |-> w.parent, limited |-> TRUE,
           commits |-> w.commits, weight |-> w.weight, broadcast |-> w.broadcast]
  BY <1>1 DEF IsWalk
<1> QED BY <1>1, <1>2 DEF Like, IsWalk

LEMMA BufferShape ==
  ASSUME NEW w, IsWalk(w), NEW c, NEW g, NEW b
  PROVE  /\ Like([w EXCEPT !.commits = c, !.weight = g, !.broadcast = b], w, c)
         /\ Like([w EXCEPT !.broadcast = b], w, w.commits)
<1>1. PICK v : v = [w EXCEPT !.commits = c, !.weight = g, !.broadcast = b]
  OBVIOUS
<1>2. v = [data |-> w.data, leaves |-> w.leaves, parent |-> w.parent, limited |-> w.limited,
           commits |-> c, weight |-> g, broadcast |-> b]
  BY <1>1 DEF IsWalk
<1>3. PICK u : u = [w EXCEPT !.broadcast = b]
  OBVIOUS
<1>4. u = [data |-> w.data, leaves |-> w.leaves, parent |-> w.parent, limited |-> w.limited,
           commits |-> w.commits, weight |-> w.weight, broadcast |-> b]
  BY <1>3 DEF IsWalk
<1>5. Like(v, w, c)
  BY <1>2 DEF Like, IsWalk
<1>6. Like(u, w, w.commits)
  BY <1>4 DEF Like, IsWalk
<1> QED BY <1>1, <1>3, <1>5, <1>6

LEMMA NewBufferShape == Like(NewBuffer, NoWalk, Cardinality(Pending))
  BY NoWalkShape, BufferShape DEF NewBuffer

LEMMA AnchoredOrdered ==
  ASSUME Ordered, Anchored
  PROVE  Ordered'
<1>1. /\ UNCHANGED <<where, since, acked, accepted, buried, log, obs>> /\ pos' = 1 /\ pc = "anchor"
      /\ \/ pc' = "finish" /\ walk' = walk
         \/ pc' = "commit" /\ walk' = NewBuffer
  BY DEF Anchored, world, files
<1>2. Quiet
  BY <1>1, UnloggedQuiet
<1>3. obs' \in Seq(State) /\ Len(obs') = 2 * N /\ Len(obs') <= 2 * N
  BY <1>1 DEF Ordered, Types
<1>4. Witnessed'
  BY <1>1 DEF Ordered, Witnessed
<1>5. CASE pc' = "finish" /\ walk' = walk
  <2>1. IsWalk(walk')
    BY <1>5 DEF Ordered, Types
  <2> QED BY <1>2, <1>3, <1>4, <1>5, <2>1, FinishingOrdered
<1>6. CASE pc' = "commit" /\ walk' = NewBuffer
  <2>1. pos' \in 1..N /\ 1..(pos' - 1) = {}
    BY <1>1, PlanSize
  <2>2. pc' \notin Resting
    BY <1>6 DEF Resting
  <2>3. Types'
    BY <1>2, <1>3, <1>6, <2>1, <2>2, NewBufferShape, QuietOrdered DEF Types, Quiet, Like
  <2>4. Flags'
    BY <2>1 DEF Flags
  <2>5. Logged' /\ Eligible'
    BY <1>2, <1>6, <2>4, QuietOrdered DEF Logged, Eligible
  <2> QED BY <1>2, <1>4, <2>3, <2>5, QuietOrdered DEF Ordered
<1> QED BY <1>1, <1>5, <1>6

(* A step within the iteration of record `pos'. *)
LEMMA WalkOrdered ==
  ASSUME Ordered, Quiet, pc \in Walking, pc' \in Walking, pos' = pos,
         obs' \in Seq(State), Len(obs') = 2 * N, Witnessed', NEW c, Like(walk', walk, c),
         pc' \in {"send commit", "send reveal"} => log'[Target'] # "none",
         pc' \in {"look reveal", "send reveal"} => Dependencies /\ <<pos, "commit">> \in buried
  PROVE  Ordered'
<1>1. pc' \notin Resting /\ pc' # "inventory"
  BY DEF Walking, Resting
<1>2. pos \in 1..N /\ Flags
  BY DEF Ordered, Types, Eligible
<1>3. Types'
  <2>1. Len(obs') <= 2 * N
    BY Twice
  <2> QED BY <1>1, <1>2, <2>1, QuietOrdered DEF Types, Quiet, Like
<1>4. Flags' /\ (Dependencies => Dependencies')
  BY <1>2, QuietOrdered DEF Flags, Dependencies, Like
<1>5. Logged'
  BY QuietOrdered DEF Logged
<1>6. Eligible'
  BY <1>4 DEF Eligible, Quiet
<1> QED BY <1>3, <1>5, <1>6, QuietOrdered DEF Ordered

LEMMA SameWalk == IsWalk(walk) => Like(walk, walk, walk.commits)
  BY DEF Like

LEMMA WalkCommitOrdered ==
  ASSUME Ordered, WalkCommit
  PROVE  Ordered'
<1>1. /\ pc = "commit" /\ pc' \in {"look commit", "reveal"}
      /\ UNCHANGED <<where, since, acked, accepted, buried, log>> /\ pos' = pos /\ obs' = obs
      /\ walk' = walk \/ walk' = [walk EXCEPT !.limited = TRUE]
  BY DEF WalkCommit, world, files
<1>2. pc \in Walking /\ pc' \in Walking
  BY <1>1 DEF Walking
<1>3. IsWalk(walk) /\ obs' \in Seq(State) /\ Len(obs') = 2 * N
  BY <1>1, <1>2 DEF Ordered, Types
<1>4. Like(walk', walk, walk.commits)
  BY <1>1, <1>3, SameWalk, LimitedShape
<1>5. Witnessed'
  BY <1>1 DEF Ordered, Witnessed
<1>6. pc' \notin {"send commit", "send reveal", "look reveal"}
  BY <1>1
<1> QED BY <1>1, <1>2, <1>3, <1>4, <1>5, <1>6, UnloggedQuiet, WalkOrdered

LEMMA WalkRevealOrdered ==
  ASSUME Ordered, WalkReveal
  PROVE  Ordered'
<1>1. /\ pc = "reveal" /\ pc' \in {"look reveal", "next"}
      /\ UNCHANGED <<where, since, acked, accepted, buried, log>> /\ pos' = pos /\ obs' = obs
      /\ walk' = walk \/ walk' = [walk EXCEPT !.limited = TRUE]
      /\ pc' = "look reveal" => Settled(Commit(pos)) /\ Dependencies
  BY DEF WalkReveal, world, files
<1>2. pc \in Walking /\ pc' \in Walking
  BY <1>1 DEF Walking
<1>3. /\ IsWalk(walk) /\ obs' \in Seq(State) /\ Len(obs') = 2 * N
      /\ Len(obs) = 2 * N /\ pos \in 1..N /\ N \in Nat
  BY <1>1, <1>2, PlanSize DEF Ordered, Types
<1>4. Like(walk', walk, walk.commits)
  BY <1>1, <1>3, SameWalk, LimitedShape
<1>5. Witnessed'
  BY <1>1 DEF Ordered, Witnessed
<1>6. Settled(Commit(pos)) => <<pos, "commit">> \in buried
  <2>1. 2 * pos - 1 \in 1..Len(obs)
    BY <1>3
  <2>2. TxAt(2 * pos - 1) = <<pos, "commit">>
    <3>1. pos \in Nat \ {0}
      BY <1>3
    <3> QED BY <3>1, TxAtIs
  <2> QED BY <2>1, <2>2 DEF Ordered, Witnessed, Settled, Commit
<1>7. pc' \notin {"send commit", "send reveal"}
  BY <1>1
<1> QED BY <1>1, <1>2, <1>3, <1>4, <1>5, <1>6, <1>7, UnloggedQuiet, WalkOrdered

(* submit_record returns: another observation in the place of the first. *)
LEMMA ReturnedOrdered ==
  ASSUME Ordered, Quiet, pc \in Walking, pos' = pos, NEW s \in State, NEW reason, NEW retry,
         Returned(s, reason, retry),
         s = "Confirmed" => Target \in buried,
         s \in {"Mempool", "Confirmed"} => Target \in accepted
  PROVE  Ordered'
<1>1. obs \in Seq(State) /\ Len(obs) = 2 * N /\ pos \in 1..N /\ IsWalk(walk) /\ N \in Nat
  BY PlanSize DEF Ordered, Types
<1>2. Slot \in 1..(2 * N) /\ TxAt(Slot) = Target
  BY <1>1, TargetAt
<1>3. obs' = [obs EXCEPT ![Slot] = s] /\ pc' \in {"reveal", "next"}
  BY DEF Returned, Replace
<1>4. obs' \in Seq(State) /\ Len(obs') = 2 * N
  BY <1>1, <1>2, <1>3
<1>5. ASSUME NEW k \in 1..Len(obs')
      PROVE  /\ obs'[k] = "Confirmed" => TxAt(k) \in buried'
             /\ obs'[k] \in {"Mempool", "Confirmed"} => TxAt(k) \in accepted'
  <2>1. k \in 1..Len(obs) /\ buried' = buried /\ accepted' = accepted
    BY <1>1, <1>4 DEF Quiet
  <2>2. CASE k = Slot
    <3>1. obs'[k] = s
      BY <1>1, <1>2, <1>3, <2>2
    <3> QED BY <1>2, <2>1, <2>2, <3>1
  <2>3. CASE k # Slot
    <3>1. obs'[k] = obs[k]
      BY <1>1, <1>3, <2>1, <2>3
    <3> QED BY <2>1, <3>1 DEF Ordered, Witnessed
  <2> QED BY <2>2, <2>3
<1>6. Witnessed'
  BY <1>5 DEF Witnessed
<1>7. PICK c : Like(walk', walk, c)
  <2>1. CASE walk' = walk
    BY <1>1, <2>1, SameWalk
  <2>2. CASE walk' = [walk EXCEPT !.broadcast = @ + RevealWeight]
    BY <1>1, <2>2, BufferShape
  <2>3. CASE walk' = [walk EXCEPT !.commits = @ + 1, !.weight = @ + CommitWeight + RevealWeight,
                                  !.broadcast = @ + CommitWeight]
    BY <1>1, <2>3, BufferShape
  <2> QED BY <2>1, <2>2, <2>3 DEF Returned
<1>8. pc' \in Walking /\ pc' \notin {"send commit", "send reveal", "look reveal"}
  BY <1>3 DEF Walking
<1> QED BY <1>4, <1>6, <1>7, <1>8, WalkOrdered

LEMMA LookOrdered ==
  ASSUME Ordered, Look
  PROVE  Ordered'
<1>1. /\ pc \in Walking /\ pos \in 1..N /\ UNCHANGED world /\ pos' = pos
      /\ obs \in Seq(State) /\ Len(obs) = 2 * N /\ IsWalk(walk)
  <2>1. pc \in Walking
    BY DEF Look, Walking
  <2> QED BY <2>1 DEF Look, Ordered, Types
<1>2. Target \in Tx /\ Kind \in {"commit", "reveal"}
  BY <1>1, TargetAt
<1>3. PICK p \in Answers(Target) :
           IF p = "Missing"
           THEN /\ Attempt(Target)
                /\ pc' = IF Kind = "commit" THEN "send commit" ELSE "send reveal"
                /\ UNCHANGED <<obs, walk, blocked, retryable>>
           ELSE Record(Target, p) /\ Returned(p, "", retryable)
  BY DEF Look
<1>4. /\ p \in Presence /\ p \in State
      /\ p = "Confirmed" => Target \in buried
      /\ p \in {"Mempool", "Confirmed"} => Target \in accepted
  BY <1>2, AnswerTrue DEF Ordered
<1>5. CASE p = "Missing"
  <2>1. Append1(Target, p) /\ obs' = obs /\ walk' = walk
    BY <1>3, <1>5 DEF Attempt
  <2>2. Quiet /\ log'[Target] # "none"
    BY <1>1, <1>2, <1>4, <2>1, LoggedQuiet, AppendGrows DEF Ordered
  <2>3. pc' = (IF Kind = "commit" THEN "send commit" ELSE "send reveal") /\ pc' \in Walking
    BY <1>3, <1>5 DEF Walking
  <2>4. Target' = Target
    <3>1. Kind' = Kind
      BY <1>2, <2>3 DEF Kind
    <3> QED BY <1>1, <3>1 DEF Target
  <2>5. pc' = "send reveal" => pc = "look reveal"
    BY <2>3 DEF Kind, Look
  <2>6. pc' \in {"look reveal", "send reveal"} => Dependencies /\ <<pos, "commit">> \in buried
    BY <2>3, <2>5 DEF Ordered, Eligible
  <2>7. Witnessed'
    BY <1>1, <2>1 DEF Ordered, Witnessed, world
  <2> QED BY <1>1, <2>1, <2>2, <2>3, <2>4, <2>6, <2>7, SameWalk, WalkOrdered
<1>6. CASE p # "Missing"
  <2>1. Record(Target, p) /\ Returned(p, "", retryable)
    BY <1>3, <1>6
  <2>2. Quiet
    BY <1>1, <1>2, <1>4, <2>1, RecordAppends, LoggedQuiet
  <2> QED BY <1>1, <1>4, <2>1, <2>2, ReturnedOrdered
<1> QED BY <1>5, <1>6

LEMMA LookFailsOrdered ==
  ASSUME Ordered, LookFails
  PROVE  Ordered'
<1>1. /\ pc \in Walking /\ pos' = pos /\ UNCHANGED <<where, since, acked, accepted, buried, log>>
      /\ Returned("SourceUnavailable", "source unavailable", FALSE)
  BY DEF LookFails, Walking, world, files
<1>2. "SourceUnavailable" \in State
  BY DEF State
<1> QED BY <1>1, <1>2, UnloggedQuiet, ReturnedOrdered

LEMMA RefusedOrdered ==
  ASSUME Ordered, NEW reason, Refused(reason)
  PROVE  Ordered'
<1>1. /\ pc \in Walking /\ pos' = pos /\ UNCHANGED <<where, since, acked, accepted, buried, log>>
      /\ Returned("Missing", reason, reason = "mempool full")
  BY DEF Refused, Walking, files
<1>2. "Missing" \in State
  BY DEF State
<1> QED BY <1>1, <1>2, UnloggedQuiet, ReturnedOrdered

LEMMA LookAgainOrdered ==
  ASSUME Ordered, LookAgain
  PROVE  Ordered'
<1>1. pc \in Walking /\ pos \in 1..N /\ UNCHANGED world /\ pos' = pos
  <2>1. pc \in Walking
    BY DEF LookAgain, Walking
  <2> QED BY <2>1 DEF LookAgain, Ordered, Types
<1>2. Target \in Tx
  BY <1>1, TargetAt
<1>3. PICK p \in Answers(Target) :
           /\ Record(Target, p)
           /\ Returned(p, IF p = "Missing" THEN "not yet observable" ELSE "", retryable)
  BY DEF LookAgain
<1>4. /\ p \in Presence /\ p \in State
      /\ p = "Confirmed" => Target \in buried
      /\ p \in {"Mempool", "Confirmed"} => Target \in accepted
  BY <1>2, AnswerTrue DEF Ordered
<1>5. Quiet
  BY <1>1, <1>2, <1>3, <1>4, RecordAppends, LoggedQuiet
<1> QED BY <1>1, <1>3, <1>4, <1>5, ReturnedOrdered

(* The iteration ends: the flags take in the record that was walked. *)
LEMMA NextRecordOrdered ==
  ASSUME Ordered, NextRecord
  PROVE  Ordered'
<1>1. /\ pc = "next" /\ UNCHANGED <<where, since, acked, accepted, buried, log>> /\ obs' = obs
      /\ pc' = "finish" \/ (pc' = "commit" /\ pos # N /\ pos' = pos + 1)
  BY DEF NextRecord, world, files
<1>2. /\ IsWalk(walk) /\ Flags /\ obs \in Seq(State) /\ Len(obs) = 2 * N
      /\ pos \in 1..N /\ N \in Nat
  <2>1. pc \in Walking
    BY <1>1 DEF Walking
  <2> QED BY <2>1, PlanSize DEF Ordered, Types, Eligible
<1>3. PICK a, d, l :
        /\ a = Seen(Commit(pos))
        /\ d = (walk.data /\ (Roles[pos] = "data" => Seen(Reveal(pos))))
        /\ l = (walk.leaves /\ (Roles[pos] = "leaf" => Seen(Reveal(pos))))
  OBVIOUS
<1>4. walk' = [walk EXCEPT !.parent = a, !.data = d, !.leaves = l]
  BY <1>3 DEF NextRecord
<1>5. IsWalk(walk') /\ walk'.data = d /\ walk'.leaves = l
  <2>1. walk' = [data |-> d, leaves |-> l, parent |-> a, limited |-> walk.limited,
                 commits |-> walk.commits, weight |-> walk.weight, broadcast |-> walk.broadcast]
    BY <1>2, <1>4 DEF IsWalk
  <2> QED BY <2>1 DEF IsWalk
<1>6. Witnessed' /\ Quiet
  BY <1>1, UnloggedQuiet DEF Ordered, Witnessed
<1>7. CASE pc' = "finish"
  BY <1>1, <1>2, <1>5, <1>6, <1>7, FinishingOrdered
<1>8. CASE pc' = "commit" /\ pos # N /\ pos' = pos + 1
  <2>1. pc' \notin Resting /\ pos' \in 1..N
    BY <1>2, <1>8 DEF Resting
  <2>2. Types'
    BY <1>1, <1>2, <1>5, <1>6, <1>8, <2>1, QuietOrdered DEF Types, Quiet
  <2>3. Seen(Reveal(pos)) => pos \in Revealed
    <3>1. 2 * pos \in 1..Len(obs) /\ pos \in Nat \ {0}
      BY <1>2
    <3>2. TxAt(2 * pos) = <<pos, "reveal">>
      BY <3>1, TxAtIs
    <3> QED BY <1>2, <3>1, <3>2 DEF Ordered, Witnessed, Seen, Reveal, Revealed
  <2>4. \A j \in 1..(pos' - 1) : j = pos \/ j \in 1..(pos - 1)
    BY <1>2, <1>8
  <2>5. Revealed' = Revealed
    BY <1>6, QuietOrdered
  <2>6. d => \A j \in 1..(pos' - 1) : Roles[j] = "data" => j \in Revealed
    BY <1>2, <1>3, <2>3, <2>4 DEF Flags
  <2>7. l => \A j \in 1..(pos' - 1) : Roles[j] = "leaf" => j \in Revealed
    BY <1>2, <1>3, <2>3, <2>4 DEF Flags
  <2>8. Flags'
    BY <1>5, <2>5, <2>6, <2>7 DEF Flags
  <2>9. Logged' /\ Eligible'
    BY <1>6, <1>8, <2>8, QuietOrdered DEF Logged, Eligible
  <2> QED BY <1>6, <2>2, <2>9, QuietOrdered DEF Ordered
<1> QED BY <1>1, <1>7, <1>8

(* The submission itself: the log has it already, and what it refers to or *)
(* spends went first.                                                       *)
LEMMA AcceptedOrdered ==
  ASSUME Ordered, Accepted
  PROVE  Ordered'
<1>1. /\ pc \in {"send commit", "send reveal"} /\ accepted' = accepted \cup {Target}
      /\ UNCHANGED <<since, acked, buried, log, pos, obs, walk>>
      /\ where' = [where EXCEPT ![Target] = "mempool"] /\ where[Target] \in {"none", "mempool"}
      /\ pc' = IF Kind = "commit" THEN "check commit" ELSE "check reveal"
  BY DEF Accepted, files
<1>2. pc \in Walking /\ pc' \in Walking /\ pc' \notin Resting
  BY <1>1 DEF Walking, Resting
<1>3. pos \in 1..N /\ N \in Nat /\ Flags
  BY <1>2, PlanSize DEF Ordered, Types, Eligible
<1>4. Target \in Tx /\ Kind \in {"commit", "reveal"} /\ Target = <<pos, Kind>>
  BY <1>3, TargetAt
<1>5. Types'
  BY <1>1, <1>2, <1>4 DEF Ordered, Types
<1>6. Told'
  <2>1. where \in [Tx -> {"none", "mempool", "tip", "deep"}]
    BY DEF Ordered, Types
  <2>2. where'[Target] = "mempool" /\ \A tx \in Tx \ {Target} : where'[tx] = where[tx]
    BY <1>1, <1>4, <2>1
  <2> QED BY <1>1, <2>2 DEF Ordered, Told
<1>7. Witnessed'
  BY <1>1 DEF Ordered, Witnessed
<1>8. Logged'
  BY <1>1 DEF Ordered, Logged
<1>9. Revealed \subseteq Revealed'
  BY <1>1 DEF Revealed
<1>10. Eligible'
  <2>1. Flags'
    BY <1>1, <1>3, <1>9 DEF Flags
  <2> QED BY <1>1, <2>1 DEF Eligible
<1>11. Revealed' = Revealed \/ (Kind = "reveal" /\ Revealed' = Revealed \cup {pos})
  BY <1>1, <1>3, <1>4 DEF Revealed
<1>12. RootLast' /\ RevealAfterCommit'
  <2>1. CASE Revealed' = Revealed
    BY <1>1, <2>1 DEF Ordered, RootLast, RevealAfterCommit
  <2>2. CASE Kind = "reveal" /\ Revealed' = Revealed \cup {pos}
    <3>1. Dependencies /\ <<pos, "commit">> \in buried
      BY <1>1, <2>2 DEF Kind, Ordered, Eligible
    <3>2. ASSUME NEW j \in 1..N,
                 \/ Roles[pos] = "leaf" /\ Roles[j] = "data"
                 \/ Roles[pos] = "root" /\ Roles[j] # "root"
          PROVE  j \in Revealed
      <4>1. j < pos
        BY <1>3, <3>2, OrderAssumption
      <4>2. j \in 1..(pos - 1) /\ Roles[j] \in {"data", "leaf", "root"}
        BY <1>3, <4>1, PlanSize
      <4> QED BY <1>3, <3>1, <3>2, <4>2 DEF Dependencies, Flags
    <3>3. RootLast'
      BY <2>2, <3>2 DEF Ordered, RootLast
    <3>4. RevealAfterCommit'
      BY <1>1, <2>2, <3>1 DEF Ordered, RevealAfterCommit
    <3> QED BY <3>3, <3>4
  <2> QED BY <1>11, <2>1, <2>2
<1> QED BY <1>5, <1>6, <1>7, <1>8, <1>10, <1>12 DEF Ordered

LEMMA NextOrdered == Ordered /\ [Next]_vars => Ordered'
<1> SUFFICES ASSUME Ordered, [Next]_vars PROVE Ordered'
  OBVIOUS
<1>1. CASE UNCHANGED vars
  <2>1. UNCHANGED <<where, since, acked, accepted, buried, log, pc, pos, obs, walk>>
    BY <1>1 DEF vars, world, files, pass
  <2>2. RootLast' /\ RevealAfterCommit' /\ Revealed' = Revealed
    BY <2>1, SubmitsNothing
  <2>3. Types' /\ Told' /\ Witnessed'
    BY <2>1 DEF Ordered, Types, Told, Witnessed
  <2>4. Logged' /\ Eligible'
    BY <2>1, <2>2 DEF Ordered, Logged, Eligible, Target, Kind, Flags, Dependencies
  <2> QED BY <2>2, <2>3, <2>4 DEF Ordered
<1>2. CASE PassStep
  BY <1>2, InventoryOrdered, AnchoredOrdered, WalkCommitOrdered, WalkRevealOrdered, LookOrdered,
     AcceptedOrdered, LookAgainOrdered, NextRecordOrdered, OverOrdered, RefusedOrdered DEF PassStep
<1>3. CASE \E publishing \in BOOLEAN : Begin(publishing)
  BY <1>3, BeginOrdered
<1>4. CASE Load \/ Unavailable \/ LookFails \/ Abort \/ TornAppend \/ Resume
  BY <1>4, OverOrdered, UnavailableOrdered, LookFailsOrdered
<1>5. CASE \/ \E S \in SUBSET Waiting : Mine(S) \/ Evict(S)
           \/ Reorg
           \/ \E tx \in Tx : Expire(tx)
  BY <1>5, WorldOrdered
<1> QED BY <1>1, <1>2, <1>3, <1>4, <1>5 DEF Next, Step

(* Init holds Ordered, every step keeps it, and it holds always: the order  *)
(* of the submissions rests on what the log, the observations and the flags *)
(* of the walk say at every step.                                           *)
THEOREM Invariant == Spec => []Ordered
  BY InitOrdered, NextOrdered, PTL DEF Spec

(* remember() before broadcast(): whatever the network ever received has an *)
(* attempt in the log, for every plan and every sequence of crashes.        *)
THEOREM DurableAttempts == Spec => []AttemptsDurable
<1>1. Ordered => AttemptsDurable
  BY DEF Ordered, Logged, AttemptsDurable
<1> QED BY <1>1, Invariant, PTL

(* The walk submits a leaf after all data, the root after all leaves, and a *)
(* reveal after its commit was confirmed, for every plan in record order.   *)
THEOREM OrderedReveals == Spec => []RevealOrder
<1>1. Ordered => RevealOrder
  BY DEF Ordered, RevealOrder
<1> QED BY <1>1, Invariant, PTL

-----------------------------------------------------------------------------
(* A complete report is true *)

(* A last block newer than the anchor was mined during this pass. *)
NewTip == tipNew => pc \notin Resting /\ \A tx \in Tx : where[tx] = "tip" => tx \in since

(* What was seen in a block still is in one, while the anchor is held,      *)
(* unless it was mined after the anchor.                                    *)
Fresh ==
    held => \A k \in 1..Len(obs) :
                obs[k] = "Confirmed" => Confirmed(TxAt(k)) \/ TxAt(k) \in since

Current == NewTip /\ Fresh

LEMMA InitCurrent == Init => Current
<1> SUFFICES ASSUME Init PROVE Current
  OBVIOUS
<1>1. 1..Len(obs) = {} /\ ~tipNew
  BY NothingSeen DEF Init
<1> QED BY <1>1 DEF Current, NewTip, Fresh

LEMMA WorldCurrent ==
  ASSUME Ordered, Current, \/ \E S \in SUBSET Waiting : Mine(S) \/ Evict(S)
                           \/ Reorg
                           \/ \E tx \in Tx : Expire(tx)
  PROVE  Current'
<1>1. /\ where \in [Tx -> {"none", "mempool", "tip", "deep"}]
      /\ pc' = pc /\ obs' = obs /\ (Active <=> pc \notin Resting)
      /\ \A k \in 1..Len(obs) : TxAt(k) \in Tx
  <2>1. \A k \in 1..Len(obs) : TxAt(k) \in Tx
    <3>1. SUFFICES ASSUME NEW k \in 1..Len(obs) PROVE TxAt(k) \in Tx
      OBVIOUS
    <3>2. obs \in Seq(State) /\ Len(obs) \in Nat
      BY DEF Ordered, Types
    <3>3. N \in Nat /\ Len(obs) <= 2 * N
      BY PlanSize DEF Ordered, Types
    <3>4. k \in 1..(2 * N)
      BY <3>1, <3>2, <3>3
    <3> QED BY <3>4, TxAtIn
  <2> QED BY <2>1 DEF Ordered, Types, Mine, Evict, Reorg, Expire, pass, Active, Resting
<1>2. ASSUME NEW S \in SUBSET Waiting, Mine(S)
      PROVE  Current'
  <2>1. CASE Active
    <3>1. since' = since \cup S /\ held' = held
      BY <1>2, <2>1 DEF Mine
    <3>2. \A tx \in Tx : /\ where'[tx] = "tip" => tx \in since'
                         /\ Confirmed(tx) => Confirmed(tx)'
      BY <1>1, <1>2, <3>1 DEF Mine, Confirmed, Waiting
    <3> QED BY <1>1, <2>1, <3>1, <3>2 DEF Current, NewTip, Fresh
  <2>2. CASE ~Active
    <3>1. ~tipNew' /\ obs = <<>>
      BY <1>1, <1>2, <2>2 DEF Mine, Ordered, Types
    <3> QED BY <1>1, <3>1, NothingSeen DEF Current, NewTip, Fresh
  <2> QED BY <2>1, <2>2
<1>3. ASSUME NEW S \in SUBSET Waiting, Evict(S)
      PROVE  Current'
  <2>1. UNCHANGED <<since, held, tipNew>>
    BY <1>3 DEF Evict
  <2>2. \A tx \in Tx : /\ where'[tx] = "tip" => where[tx] = "tip"
                       /\ Confirmed(tx) => Confirmed(tx)'
    BY <1>1, <1>3 DEF Evict, Confirmed, Waiting
  <2> QED BY <1>1, <2>1, <2>2 DEF Current, NewTip, Fresh
<1>4. CASE Reorg
  <2>1. UNCHANGED <<since, tipNew>> /\ (held' <=> (Active => held /\ tipNew))
    BY <1>4 DEF Reorg
  <2>2. \A tx \in Tx : /\ where'[tx] # "tip"
                       /\ where[tx] = "deep" => Confirmed(tx)'
    BY <1>1, <1>4 DEF Reorg, Confirmed
  <2>3. CASE Active
    <3>1. ASSUME held', NEW k \in 1..Len(obs), obs[k] = "Confirmed"
          PROVE  Confirmed(TxAt(k))' \/ TxAt(k) \in since
      <4>1. held /\ tipNew
        BY <2>1, <2>3, <3>1
      <4>2. Confirmed(TxAt(k)) \/ TxAt(k) \in since
        BY <3>1, <4>1 DEF Current, Fresh
      <4>3. where[TxAt(k)] = "deep" \/ TxAt(k) \in since
        BY <1>1, <4>1, <4>2 DEF Current, NewTip, Confirmed
      <4> QED BY <1>1, <2>2, <4>3
    <3>2. Fresh'
      BY <1>1, <2>1, <3>1 DEF Fresh, Confirmed, TxAt
    <3> QED BY <1>1, <2>1, <2>2, <3>2 DEF Current, NewTip
  <2>4. CASE ~Active
    <3>1. obs = <<>>
      BY <1>1, <2>4 DEF Ordered, Types
    <3> QED BY <1>1, <2>1, <2>2, <2>4, <3>1, NothingSeen DEF Current, NewTip, Fresh
  <2> QED BY <2>3, <2>4
<1>5. ASSUME NEW tx \in Tx, Expire(tx)
      PROVE  Current'
  BY <1>1, <1>5 DEF Expire, Current, NewTip, Fresh, Confirmed
<1> QED BY <1>2, <1>3, <1>4, <1>5

(* The node as before. *)
Still == UNCHANGED <<where, since, tipNew, held, buried>>

(* A step of the pass that sees no more. *)
LEMMA StillCurrent ==
  ASSUME Current, Still, obs' = obs, pc' \notin Resting
  PROVE  Current'
  BY DEF Still, Current, NewTip, Fresh, Confirmed

(* An observation that is true when it is made. *)
LEMMA SeenCurrent ==
  ASSUME Ordered, Current, Still, pc' \notin Resting, NEW slot \in Nat \ {0}, NEW s \in State,
         \/ obs' = Append(obs, s) /\ slot = Len(obs) + 1
         \/ obs' = [obs EXCEPT ![slot] = s] /\ slot \in 1..Len(obs),
         s = "Confirmed" => Confirmed(TxAt(slot))
  PROVE  Current'
<1>1. obs \in Seq(State) /\ Len(obs) \in Nat
  BY DEF Ordered, Types
<1>2. ASSUME NEW k \in 1..Len(obs')
      PROVE  (obs'[k] = s /\ k = slot) \/ (obs'[k] = obs[k] /\ k \in 1..Len(obs))
  <2>1. CASE obs' = Append(obs, s) /\ slot = Len(obs) + 1
    <3>1. Len(obs') = Len(obs) + 1
      BY <1>1, <2>1
    <3>2. CASE k = Len(obs) + 1
      <4>1. obs'[k] = s
        BY <1>1, <2>1, <3>2
      <4>2. k = slot
        BY <2>1, <3>2
      <4> QED BY <4>1, <4>2
    <3>3. CASE k \in 1..Len(obs)
      BY <1>1, <2>1, <3>3
    <3> QED BY <1>1, <1>2, <3>1, <3>2, <3>3
  <2>2. CASE obs' = [obs EXCEPT ![slot] = s] /\ slot \in 1..Len(obs)
    BY <1>1, <1>2, <2>2
  <2> QED BY <2>1, <2>2
<1>3. Fresh'
  <2>1. SUFFICES ASSUME held', NEW k \in 1..Len(obs'), obs'[k] = "Confirmed"
                 PROVE  Confirmed(TxAt(k))' \/ TxAt(k) \in since'
    BY DEF Fresh, TxAt
  <2>2. held /\ (Confirmed(TxAt(k))' <=> Confirmed(TxAt(k))) /\ since' = since
    BY <2>1 DEF Still, Confirmed, TxAt
  <2>3. CASE obs'[k] = s /\ k = slot
    BY <2>1, <2>2, <2>3
  <2>4. CASE obs'[k] = obs[k] /\ k \in 1..Len(obs)
    BY <2>1, <2>2, <2>4 DEF Current, Fresh
  <2> QED BY <1>2, <2>3, <2>4
<1>4. NewTip'
  BY DEF Still, Current, NewTip
<1> QED BY <1>3, <1>4 DEF Current

LEMMA ReturnedCurrent ==
  ASSUME Ordered, Current, Still, pc \in Walking, NEW s \in State, NEW reason, NEW retry,
         Returned(s, reason, retry), s = "Confirmed" => Confirmed(Target)
  PROVE  Current'
<1>1. Len(obs) = 2 * N /\ pos \in 1..N /\ N \in Nat
  BY PlanSize DEF Ordered, Types
<1>2. Slot \in 1..(2 * N) /\ TxAt(Slot) = Target /\ Slot \in Nat \ {0}
  BY <1>1, TargetAt
<1>3. obs' = [obs EXCEPT ![Slot] = s] /\ pc' \notin Resting
  BY DEF Returned, Replace, Resting
<1> QED BY <1>1, <1>2, <1>3, SeenCurrent

LEMMA NextCurrent == Ordered /\ Current /\ [Next]_vars => Current'
<1> SUFFICES ASSUME Ordered, Current, [Next]_vars PROVE Current'
  OBVIOUS
<1>1. CASE UNCHANGED vars
  BY <1>1 DEF vars, world, pass, Current, NewTip, Fresh, Confirmed
<1>2. CASE Anchored \/ WalkCommit \/ WalkReveal \/ NextRecord
  <2>1. Still /\ obs' = obs /\ pc' \notin Resting
    BY <1>2 DEF Anchored, WalkCommit, WalkReveal, NextRecord, Still, world, Resting
  <2> QED BY <2>1, StillCurrent
<1>3. CASE Inventory \/ Unavailable
  <2>1. pc = "inventory" /\ Still /\ pc' \notin Resting /\ pos \in 1..(2 * N) /\ N \in Nat
    BY <1>3, PlanSize DEF Inventory, Unavailable, Still, world, Resting, Ordered, Types
  <2>2. pos \in Nat \ {0} /\ pos = Len(obs) + 1 /\ TxAt(pos) \in Tx
    <3>1. Len(obs) = pos - 1
      BY <2>1 DEF Ordered, Types
    <3> QED BY <2>1, <3>1, TxAtIn
  <2>3. PICK s \in State : obs' = Append(obs, s) /\ (s = "Confirmed" => Confirmed(TxAt(pos)))
    <3>1. CASE Unavailable
      BY <3>1 DEF Unavailable, State
    <3>2. CASE Inventory
      <4>1. PICK p \in Answers(TxAt(pos)) : obs' = Append(obs, StateOf(TxAt(pos), p))
        BY <3>2 DEF Inventory
      <4>2. p \in Presence /\ (p = "Confirmed" => Confirmed(TxAt(pos)))
        BY <2>2, AnswerTrue DEF Ordered, Confirmed
      <4>3. /\ StateOf(TxAt(pos), p) \in State
            /\ StateOf(TxAt(pos), p) = "Confirmed" => p = "Confirmed"
        BY <4>2 DEF StateOf, State, Presence
      <4> QED BY <4>1, <4>2, <4>3
    <3> QED BY <1>3, <3>1, <3>2
  <2> QED BY <2>1, <2>2, <2>3, SeenCurrent
<1>4. CASE Look \/ LookAgain
  <2>1. pc \in Walking /\ Still /\ pos \in 1..N
    <3>1. pc \in Walking /\ Still
      BY <1>4 DEF Look, LookAgain, Still, world, Walking
    <3> QED BY <3>1 DEF Ordered, Types
  <2>2. PICK p \in Answers(Target) :
          \/ obs' = obs /\ pc' \notin Resting
          \/ \E reason, retry : Returned(p, reason, retry)
    BY <1>4 DEF Look, LookAgain, Resting
  <2>3. p \in State /\ (p = "Confirmed" => Confirmed(Target))
    BY <2>1, TargetAt, AnswerTrue DEF Ordered, Confirmed
  <2> QED BY <2>1, <2>2, <2>3, StillCurrent, ReturnedCurrent
<1>5. CASE LookFails \/ \E reason \in {"mempool full", "awaiting parent", "rejected"} : Refused(reason)
  <2>1. /\ pc \in Walking /\ Still
        /\ \E s \in {"SourceUnavailable", "Missing"} : \E reason, retry : Returned(s, reason, retry)
    BY <1>5 DEF LookFails, Refused, Still, world, Walking
  <2>2. \A s \in {"SourceUnavailable", "Missing"} : s \in State /\ s # "Confirmed"
    BY DEF State
  <2> QED BY <2>1, <2>2, ReturnedCurrent
<1>6. CASE Accepted
  <2>1. pos \in 1..N /\ pc' \notin Resting /\ obs' = obs /\ UNCHANGED <<since, tipNew, held>>
    <3>1. pc \in Walking
      BY <1>6 DEF Accepted, Walking
    <3> QED BY <1>6, <3>1 DEF Accepted, Resting, Ordered, Types
  <2>2. \A tx \in Tx : Confirmed(tx)' = Confirmed(tx) /\ (where'[tx] = "tip" => where[tx] = "tip")
    <3>1. Target \in Tx /\ where \in [Tx -> {"none", "mempool", "tip", "deep"}]
      BY <2>1, TargetAt DEF Ordered, Types
    <3>2. where' = [where EXCEPT ![Target] = "mempool"] /\ where[Target] \in {"none", "mempool"}
      BY <1>6 DEF Accepted
    <3>3. where'[Target] = "mempool" /\ \A tx \in Tx \ {Target} : where'[tx] = where[tx]
      BY <3>1, <3>2
    <3> QED BY <3>2, <3>3 DEF Confirmed
  <2>3. \A k \in 1..Len(obs) : TxAt(k) \in Tx
    <3>1. Len(obs) \in Nat /\ Len(obs) <= 2 * N /\ N \in Nat
      BY PlanSize DEF Ordered, Types
    <3>2. \A k \in 1..Len(obs) : k \in 1..(2 * N)
      BY <3>1
    <3> QED BY <3>2, TxAtIn
  <2> QED BY <2>1, <2>2, <2>3 DEF Current, NewTip, Fresh
<1>7. CASE Finish \/ Abort \/ TornAppend
  <2>1. ~tipNew' /\ obs' = <<>>
    BY <1>7 DEF Finish, Abort, TornAppend, Over
  <2> QED BY <2>1, NothingSeen DEF Current, NewTip, Fresh
<1>8. CASE Load \/ Resume \/ \E publishing \in BOOLEAN : Begin(publishing)
  <2>1. pc \in Resting /\ Still /\ obs' = obs
    BY <1>8 DEF Load, Resume, Begin, Still, world, Resting
  <2> QED BY <2>1 DEF Still, Current, NewTip, Fresh, Confirmed
<1>9. CASE \/ \E S \in SUBSET Waiting : Mine(S) \/ Evict(S)
           \/ Reorg
           \/ \E tx \in Tx : Expire(tx)
  BY <1>9, WorldCurrent
<1> QED BY <1>1, <1>2, <1>3, <1>4, <1>5, <1>6, <1>7, <1>8, <1>9 DEF Next, Step, PassStep

(* Every transaction of the plan has its place in the observations. *)
LEMMA TxPlace ==
  ASSUME NEW tx \in Tx
  PROVE  \E k \in 1..(2 * N) : TxAt(k) = tx
<1>1. PICK i \in 1..N : tx = <<i, "commit">> \/ tx = <<i, "reveal">>
  BY DEF Tx
<1>2. i \in Nat \ {0} /\ 2 * i \in 1..(2 * N) /\ 2 * i - 1 \in 1..(2 * N)
  BY PlanSize
<1> QED BY <1>1, <1>2, TxAtIs

(* A report is complete only when every transaction of the plan is in a     *)
(* block, or was mined after the anchor, however the chain was reorganized  *)
(* while the pass was looking.                                              *)
THEOREM CompleteIsTrue == Spec => CompleteHolds
<1>1. Ordered /\ Current /\ [Next]_vars =>
        [pc = "finish" /\ pc' = "done" => \A tx \in Tx : Confirmed(tx) \/ tx \in since]_vars
  <2> SUFFICES ASSUME Ordered, Current, Next, pc = "finish", pc' = "done", NEW tx \in Tx
               PROVE  Confirmed(tx) \/ tx \in since
    OBVIOUS
  <2>1. Finish
    <3>1. pc' # pc
      OBVIOUS
    <3>2. ~\E S \in SUBSET Waiting : Mine(S) \/ Evict(S)
      BY <3>1 DEF Mine, Evict, pass
    <3>3. ~Reorg /\ ~\E t \in Tx : Expire(t)
      BY <3>1 DEF Reorg, Expire, pass
    <3>4. ~Abort
      BY DEF Abort, Over
    <3>5. PassStep
      BY <3>2, <3>3, <3>4 DEF Next, Step, Begin, Load, Unavailable, LookFails, TornAppend, Resume
    <3> QED BY <3>5 DEF PassStep, Inventory, Anchored, WalkCommit, WalkReveal, Look, Accepted,
                        LookAgain, NextRecord, Refused
  <2>2. Reached(Rows)
    BY <2>1 DEF Finish, Over
  <2>3. held /\ Len(obs) = 2 * N /\ \A k \in 1..(2 * N) : obs[k] = "Confirmed"
    <3>1. N \in Nat \ {0} /\ obs \in Seq(State)
      BY PlanSize DEF Ordered, Types
    <3>2. held
      BY <2>2, <3>1 DEF Reached, Rows
    <3> QED BY <2>2, <3>1, <3>2 DEF Reached, Rows
  <2>4. PICK k \in 1..(2 * N) : TxAt(k) = tx
    BY TxPlace
  <2> QED BY <2>3, <2>4 DEF Current, Fresh
<1>2. Spec => []Current
  <2>1. Ordered /\ Current /\ [Next]_vars => Current'
    BY NextCurrent
  <2> QED BY <2>1, InitCurrent, Invariant, PTL DEF Spec
<1> QED BY <1>1, <1>2, Invariant, PTL DEF Spec, CompleteHolds

-----------------------------------------------------------------------------
(* The bound on the pending commits *)

(* The commits that PendingBound counts. *)
Floating == {i \in 1..N : where[<<i, "commit">>] = "mempool" /\ <<i, "commit">> \notin buried}

(* The walk takes no floating commit for another, but for one just sent. *)
Noticed ==
    pc # "finish" => \A i \in Floating :
        2 * i - 1 <= Len(obs) => Commit(i) = "Mempool" \/ (pc = "check commit" /\ i = pos)

(* The buffer counts at least the pending commits, and there is room for    *)
(* the one that is looked for or sent.                                      *)
Roomy ==
    /\ pc \in Walking => walk.commits \in Nat /\ Cardinality(Pending) <= walk.commits
    /\ pc \in {"look commit", "send commit", "check commit"} => walk.commits < PendingCommits
    /\ pc \in {"look commit", "send commit"} => Unsent(Commit(pos))

Bounded == PendingBound /\ Noticed /\ Roomy

LEMMA RecordsFinite ==
  ASSUME NEW S \in SUBSET (1..N)
  PROVE  IsFiniteSet(S) /\ Cardinality(S) \in Nat
<1>1. IsFiniteSet(1..N)
  BY PlanSize, FS_Interval
<1> QED BY <1>1, FS_Subset, FS_CardinalityType

(* Fewer records, or one more. *)
LEMMA RecordsCount ==
  ASSUME NEW S \in SUBSET (1..N), NEW T \in SUBSET (1..N), NEW i \in 1..N
  PROVE  /\ S \subseteq T => Cardinality(S) <= Cardinality(T)
         /\ S \subseteq T \cup {i} => Cardinality(S) <= Cardinality(T) + 1
<1>1. IsFiniteSet(T) /\ Cardinality(T) \in Nat /\ Cardinality(S) \in Nat
  BY RecordsFinite
<1>2. S \subseteq T => Cardinality(S) <= Cardinality(T)
  BY <1>1, FS_Subset
<1>3. T \cup {i} \in SUBSET (1..N) /\ IsFiniteSet(T \cup {i})
  BY RecordsFinite
<1>4. Cardinality(T \cup {i}) = (IF i \in T THEN Cardinality(T) ELSE Cardinality(T) + 1)
  BY <1>1, FS_AddElement
<1>5. S \subseteq T \cup {i} => Cardinality(S) <= Cardinality(T \cup {i})
  BY <1>3, FS_Subset
<1> QED BY <1>1, <1>2, <1>4, <1>5

(* Fewer commits float, as always but when one is sent. *)
LEMMA FewerFloat ==
  ASSUME PendingBound, Floating' \subseteq Floating
  PROVE  PendingBound'
<1>1. Floating \in SUBSET (1..N) /\ Floating' \in SUBSET (1..N) /\ 1 \in 1..N
  BY PlanSize DEF Floating
<1>2. Cardinality(Floating') <= Cardinality(Floating)
  BY <1>1, RecordsCount
<1>3. PendingBound <=> Cardinality(Floating) <= PendingCommits
  BY DEF PendingBound, Floating
<1>4. PendingBound' <=> Cardinality(Floating') <= PendingCommits
  BY DEF PendingBound, Floating
<1>5. /\ Cardinality(Floating) \in Nat /\ Cardinality(Floating') \in Nat
      /\ PendingCommits \in Nat
  BY <1>1, RecordsFinite, PublishAssumption
<1> QED BY <1>2, <1>3, <1>4, <1>5

LEMMA InitBounded == Init => Bounded
<1> SUFFICES ASSUME Init PROVE Bounded
  OBVIOUS
<1>1. Floating = {}
  BY DEF Init, Floating, Tx
<1>2. pc \notin Walking /\ pc \notin {"look commit", "send commit", "check commit"}
  BY DEF Init, Walking
<1>3. Noticed /\ Roomy
  BY <1>1, <1>2 DEF Noticed, Roomy
<1>4. PendingBound
  <2>1. Cardinality(Floating) = 0 /\ PendingCommits \in Nat
    BY <1>1, FS_EmptySet, PublishAssumption
  <2>2. 0 <= PendingCommits
    BY <2>1
  <2> QED BY <2>1, <2>2 DEF PendingBound, Floating
<1> QED BY <1>3, <1>4 DEF Bounded

LEMMA WorldBounded ==
  ASSUME Ordered, Bounded, \/ \E S \in SUBSET Waiting : Mine(S) \/ Evict(S)
                           \/ Reorg
                           \/ \E tx \in Tx : Expire(tx)
  PROVE  Bounded'
<1>1. UNCHANGED <<pc, pos, obs, walk>> /\ where \in [Tx -> {"none", "mempool", "tip", "deep"}]
  BY DEF Mine, Evict, Reorg, Expire, pass, Ordered, Types
<1>2. \A tx \in Tx : where'[tx] = "mempool" /\ tx \notin buried' => where[tx] = "mempool" /\ tx \notin buried
  <2>1. ASSUME NEW S \in SUBSET Waiting, Mine(S), NEW tx \in Tx, where'[tx] = "mempool" /\ tx \notin buried'
        PROVE  where[tx] = "mempool" /\ tx \notin buried
    BY <1>1, <2>1 DEF Mine
  <2>2. ASSUME NEW S \in SUBSET Waiting, Evict(S), NEW tx \in Tx, where'[tx] = "mempool" /\ tx \notin buried'
        PROVE  where[tx] = "mempool" /\ tx \notin buried
    BY <1>1, <2>2 DEF Evict
  <2>3. ASSUME Reorg, NEW tx \in Tx, where'[tx] = "mempool" /\ tx \notin buried'
        PROVE  where[tx] = "mempool" /\ tx \notin buried
    BY <1>1, <2>3 DEF Reorg, Ordered, Told
  <2>4. ASSUME NEW t \in Tx, Expire(t)
        PROVE  where' = where /\ buried' = buried
    BY <2>4 DEF Expire
  <2> QED BY <2>1, <2>2, <2>3, <2>4
<1>3. Floating' \subseteq Floating
  <2>1. \A i \in 1..N : <<i, "commit">> \in Tx
    BY DEF Tx
  <2> QED BY <1>2, <2>1 DEF Floating
<1>4. Noticed'
  BY <1>1, <1>3 DEF Bounded, Noticed, Commit
<1>5. Roomy'
  <2>1. Pending' = Pending /\ Commit(pos)' = Commit(pos)
    BY <1>1 DEF Pending, Commit
  <2> QED BY <1>1, <2>1 DEF Bounded, Roomy
<1> QED BY <1>3, <1>4, <1>5, FewerFloat DEF Bounded

(* Steps of the pass that leave the node and its observations alone, and    *)
(* are not at the submission of a commit, nor get there.                    *)
LEMMA StillBounded ==
  ASSUME Bounded, UNCHANGED <<where, buried, obs>>, pc \notin {"check commit", "finish"},
         pc' \in Walking => walk'.commits \in Nat /\ Cardinality(Pending) <= walk'.commits,
         pc' \in {"look commit", "send commit"} =>
              pos' = pos /\ walk'.commits < PendingCommits /\ Unsent(Commit(pos)),
         pc' # "check commit"
  PROVE  Bounded'
<1>1. Floating' = Floating /\ Pending' = Pending
  BY DEF Floating, Pending, Commit
<1>2. Noticed'
  BY <1>1 DEF Bounded, Noticed, Commit
<1>3. Roomy'
  BY <1>1 DEF Roomy, Commit
<1> QED BY <1>1, <1>2, <1>3, FewerFloat DEF Bounded

(* The answer for a commit that floats. *)
LEMMA FloatingAnswer ==
  ASSUME Ordered, NEW i \in Floating, NEW p \in Answers(<<i, "commit">>)
  PROVE  p = "Mempool"
<1>1. where[<<i, "commit">>] = "mempool" /\ <<i, "commit">> \notin buried
  BY DEF Floating
<1> QED BY <1>1 DEF Answers, PresenceOf

(* The places of the commits. *)
LEMMA CommitPlace ==
  ASSUME NEW i \in 1..N
  PROVE  /\ 2 * i - 1 \in 1..(2 * N) /\ 2 * i - 1 <= 2 * N
         /\ TxAt(2 * i - 1) = <<i, "commit">>
         /\ \A j \in 1..N : 2 * j - 1 = 2 * i - 1 => j = i
         /\ \A j \in 1..N : 2 * j # 2 * i - 1
<1>1. N \in Nat /\ i \in Nat \ {0}
  BY PlanSize
<1>2. TxAt(2 * i - 1) = <<i, "commit">>
  BY <1>1, TxAtIs
<1>3. 2 * i - 1 \in 1..(2 * N) /\ 2 * i - 1 <= 2 * N
  BY <1>1
<1>4. \A j \in 1..N : j \in Int /\ (2 * j - 1 = 2 * i - 1 => j = i) /\ 2 * j # 2 * i - 1
  BY <1>1
<1> QED BY <1>2, <1>3, <1>4

LEMMA InventoryBounded ==
  ASSUME Ordered, Bounded, Inventory
  PROVE  Bounded'
<1>1. /\ pc = "inventory" /\ pc' \in {"inventory", "anchor"} /\ pos \in 1..(2 * N) /\ N \in Nat
      /\ Len(obs) = pos - 1 /\ obs \in Seq(State) /\ UNCHANGED <<where, buried>>
  BY PlanSize DEF Inventory, world, Ordered, Types
<1>2. PICK p \in Answers(TxAt(pos)) : obs' = Append(obs, StateOf(TxAt(pos), p))
  BY DEF Inventory
<1>3. PICK s : s = StateOf(TxAt(pos), p) /\ s \in State
  <2>1. TxAt(pos) \in Tx
    BY <1>1, TxAtIn
  <2>2. p \in Presence
    BY <2>1, AnswerTrue DEF Ordered
  <2> QED BY <2>2 DEF StateOf, State, Presence
<1>4. Floating' = Floating
  BY <1>1 DEF Floating
<1>5. ASSUME NEW i \in Floating, 2 * i - 1 <= Len(obs')
      PROVE  obs'[2 * i - 1] = "Mempool"
  <2>1. i \in 1..N /\ i \in Nat \ {0}
    BY <1>1 DEF Floating
  <2>2. obs' = Append(obs, s) /\ Len(obs') = Len(obs) + 1
    BY <1>1, <1>2, <1>3
  <2>3. CASE 2 * i - 1 = Len(obs) + 1
    <3>1. TxAt(pos) = <<i, "commit">>
      BY <1>1, <2>1, <2>3, CommitPlace
    <3>2. s = "Mempool"
      BY <1>3, <3>1, FloatingAnswer DEF StateOf
    <3> QED BY <1>1, <2>2, <2>3, <3>2
  <2>4. CASE 2 * i - 1 <= Len(obs)
    <3>1. obs[2 * i - 1] = "Mempool"
      BY <1>1, <2>4 DEF Bounded, Noticed, Commit
    <3>2. 2 * i - 1 \in 1..Len(obs)
      BY <1>1, <2>1, <2>4
    <3> QED BY <1>1, <2>2, <3>1, <3>2
  <2>5. 2 * i - 1 = Len(obs) + 1 \/ 2 * i - 1 <= Len(obs)
    BY <1>1, <1>5, <2>1, <2>2
  <2> QED BY <2>3, <2>4, <2>5
<1>6. Noticed'
  BY <1>4, <1>5 DEF Noticed, Commit
<1>7. Roomy'
  BY <1>1 DEF Roomy, Walking
<1> QED BY <1>4, <1>6, <1>7, FewerFloat DEF Bounded

(* Where nothing was seen, or nothing more is sent. *)
LEMMA OutsideBounded ==
  ASSUME Bounded, UNCHANGED <<where, buried>>, pc' \notin Walking, pc' = "finish" \/ obs' = <<>>
  PROVE  Bounded'
<1>1. Floating' = Floating
  BY DEF Floating
<1>2. Noticed'
  <2>1. \A i \in Floating : i \in Nat \ {0}
    BY PlanSize DEF Floating
  <2>2. obs' = <<>> => \A i \in Floating : ~(2 * i - 1 <= Len(obs'))
    BY <2>1, NothingSeen
  <2> QED BY <1>1, <2>2 DEF Noticed
<1>3. Roomy'
  BY DEF Roomy, Walking
<1> QED BY <1>1, <1>2, <1>3, FewerFloat DEF Bounded

LEMMA ReturnedBounded ==
  ASSUME Ordered, Bounded, UNCHANGED <<where, buried>>, pc \in Walking,
         NEW s \in State, NEW reason, NEW retry, Returned(s, reason, retry),
         Kind = "commit" /\ pos \in Floating => s = "Mempool"
  PROVE  Bounded'
<1>1. /\ obs \in Seq(State) /\ Len(obs) = 2 * N /\ pos \in 1..N /\ IsWalk(walk) /\ N \in Nat
      /\ walk.commits \in Nat /\ Cardinality(Pending) <= walk.commits
  BY PlanSize DEF Ordered, Types, Bounded, Roomy
<1>2. /\ Slot \in 1..(2 * N) /\ Kind \in {"commit", "reveal"}
      /\ Kind = "commit" => Slot = 2 * pos - 1
      /\ Kind = "reveal" => Slot = 2 * pos
  BY <1>1, TargetAt
<1>3. obs' = [obs EXCEPT ![Slot] = s] /\ pc' \in {"reveal", "next"}
  BY DEF Returned, Replace
<1>4. \A i \in 1..N : Commit(i)' = IF Kind = "commit" /\ i = pos THEN s ELSE Commit(i)
  <2>1. SUFFICES ASSUME NEW i \in 1..N
                 PROVE  obs'[2 * i - 1] = IF Kind = "commit" /\ i = pos THEN s ELSE obs[2 * i - 1]
    BY DEF Commit
  <2>2. 2 * i - 1 \in 1..Len(obs) /\ (2 * i - 1 = Slot <=> Kind = "commit" /\ i = pos)
    BY <1>1, <1>2, CommitPlace
  <2> QED BY <1>1, <1>3, <2>2
<1>5. Floating' = Floating /\ Floating \subseteq 1..N
  BY DEF Floating
<1>6. Noticed'
  <2>1. ASSUME NEW i \in Floating
        PROVE  Commit(i)' = "Mempool"
    <3>1. 2 * i - 1 <= Len(obs) /\ i \in 1..N
      BY <1>1, <1>5, CommitPlace
    <3>2. Commit(i) = "Mempool" \/ (pc = "check commit" /\ i = pos)
      BY <3>1 DEF Bounded, Noticed, Walking
    <3>3. pc = "check commit" => Kind = "commit"
      BY DEF Kind
    <3> QED BY <1>4, <3>1, <3>2, <3>3
  <2> QED BY <1>5, <2>1 DEF Noticed
<1>7. walk'.commits \in Nat /\ Cardinality(Pending') <= walk'.commits
  <2>1. Pending \in SUBSET (1..N) /\ Pending' \in SUBSET (1..N)
    BY DEF Pending
  <2>2. Cardinality(Pending) \in Nat /\ Cardinality(Pending') \in Nat
    BY <2>1, RecordsFinite
  <2>3. CASE Kind = "commit" /\ s = "Mempool"
    <3>1. Pending' \subseteq Pending \cup {pos}
      BY <1>4 DEF Pending
    <3>2. Cardinality(Pending') <= Cardinality(Pending) + 1
      BY <1>1, <2>1, <3>1, RecordsCount
    <3>3. walk' = [walk EXCEPT !.commits = @ + 1, !.weight = @ + CommitWeight + RevealWeight,
                               !.broadcast = @ + CommitWeight]
      BY <2>3 DEF Returned
    <3>4. walk'.commits = walk.commits + 1
      BY <1>1, <3>3 DEF IsWalk
    <3> QED BY <1>1, <2>2, <3>2, <3>4
  <2>4. CASE ~(Kind = "commit" /\ s = "Mempool")
    <3>1. Pending' \subseteq Pending
      BY <1>4, <2>4 DEF Pending
    <3>2. Cardinality(Pending') <= Cardinality(Pending)
      BY <1>1, <2>1, <3>1, RecordsCount
    <3>3. walk' = walk \/ walk' = [walk EXCEPT !.broadcast = @ + RevealWeight]
      BY <2>4 DEF Returned
    <3>4. walk'.commits = walk.commits
      BY <1>1, <3>3 DEF IsWalk
    <3> QED BY <1>1, <2>2, <3>2, <3>4
  <2> QED BY <2>3, <2>4
<1>8. Roomy'
  BY <1>3, <1>7 DEF Roomy
<1> QED BY <1>5, <1>6, <1>8, FewerFloat DEF Bounded

LEMMA LookBounded ==
  ASSUME Ordered, Bounded, Look \/ LookAgain
  PROVE  Bounded'
<1>1. pc \in Walking /\ UNCHANGED <<where, buried>> /\ pos \in 1..N /\ pos' = pos
  <2>1. pc \in Walking /\ UNCHANGED <<where, buried>> /\ pos' = pos
    BY DEF Look, LookAgain, world, Walking
  <2> QED BY <2>1 DEF Ordered, Types
<1>2. PICK p \in Answers(Target) :
        \/ /\ \/ pc = "look commit" /\ pc' = "send commit"
              \/ pc = "look reveal" /\ pc' = "send reveal"
           /\ obs' = obs /\ walk' = walk
        \/ \E reason, retry : Returned(p, reason, retry)
  BY DEF Look, LookAgain, Kind
<1>3. CASE /\ \/ pc = "look commit" /\ pc' = "send commit"
              \/ pc = "look reveal" /\ pc' = "send reveal"
           /\ obs' = obs /\ walk' = walk
  <2>1. /\ walk'.commits \in Nat /\ Cardinality(Pending) <= walk'.commits
        /\ pc' = "send commit" => walk'.commits < PendingCommits /\ Unsent(Commit(pos))
    BY <1>1, <1>3 DEF Bounded, Roomy
  <2>2. pc \notin {"check commit", "finish"} /\ pc' \notin {"check commit", "look commit"}
    BY <1>3
  <2> QED BY <1>1, <1>3, <2>1, <2>2, StillBounded
<1>4. CASE \E reason, retry : Returned(p, reason, retry)
  <2>1. Target \in Tx /\ Target = <<pos, Kind>>
    BY <1>1, TargetAt
  <2>2. p \in State
    BY <2>1, AnswerTrue DEF Ordered
  <2>3. Kind = "commit" /\ pos \in Floating => p = "Mempool"
    BY <2>1, FloatingAnswer
  <2> QED BY <1>1, <1>4, <2>2, <2>3, ReturnedBounded
<1> QED BY <1>2, <1>3, <1>4

(* A commit that is looked for or sent does not float. *)
LEMMA UnsentSinks ==
  ASSUME Ordered, Bounded, pc \in {"look commit", "send commit"}
  PROVE  pos \notin Floating
<1>1. pc \in Walking
  BY DEF Walking
<1>2. Len(obs) = 2 * N /\ pos \in 1..N /\ N \in Nat
  BY <1>1, PlanSize DEF Ordered, Types
<1>3. 2 * pos - 1 <= Len(obs)
  <2>1. 2 * pos - 1 <= 2 * N
    BY <1>2, CommitPlace
  <2> QED BY <1>2, <2>1
<1>4. Commit(pos) # "Mempool"
  BY DEF Bounded, Roomy, Unsent
<1> QED BY <1>3, <1>4 DEF Bounded, Noticed

LEMMA FailedBounded ==
  ASSUME Ordered, Bounded,
         LookFails \/ \E reason \in {"mempool full", "awaiting parent", "rejected"} : Refused(reason)
  PROVE  Bounded'
<1>1. /\ pc \in {"look commit", "look reveal", "send commit", "send reveal"}
      /\ UNCHANGED <<where, buried>>
      /\ \E s \in {"SourceUnavailable", "Missing"} : \E reason, retry : Returned(s, reason, retry)
  BY DEF LookFails, Refused, world
<1>2. pc \in Walking /\ (Kind = "commit" => pc \in {"look commit", "send commit"})
  BY <1>1 DEF Walking, Kind
<1>3. ~(Kind = "commit" /\ pos \in Floating)
  BY <1>2, UnsentSinks
<1>4. \A s \in {"SourceUnavailable", "Missing"} : s \in State
  BY DEF State
<1> QED BY <1>1, <1>2, <1>3, <1>4, ReturnedBounded

LEMMA AcceptedBounded ==
  ASSUME Ordered, Bounded, Accepted
  PROVE  Bounded'
<1>1. /\ pc \in {"send commit", "send reveal"} /\ UNCHANGED <<buried, pos, obs, walk>>
      /\ where' = [where EXCEPT ![Target] = "mempool"]
      /\ pc' = IF Kind = "commit" THEN "check commit" ELSE "check reveal"
  BY DEF Accepted
<1>2. pc \in Walking
  BY <1>1 DEF Walking
<1>3. /\ pos \in 1..N /\ N \in Nat /\ where \in [Tx -> {"none", "mempool", "tip", "deep"}]
      /\ Len(obs) = 2 * N
  BY <1>2, PlanSize DEF Ordered, Types
<1>4. Target \in Tx /\ Kind \in {"commit", "reveal"} /\ Target = <<pos, Kind>>
  BY <1>3, TargetAt
<1>5. \A i \in 1..N : /\ <<i, "commit">> \in Tx
                      /\ <<i, "commit">> = Target => i = pos /\ Kind = "commit"
  BY <1>4 DEF Tx
<1>6. \A i \in 1..N : where'[<<i, "commit">>] = where[<<i, "commit">>] \/ (i = pos /\ Kind = "commit")
  BY <1>1, <1>3, <1>5
<1>7. Floating \in SUBSET (1..N) /\ Floating' \in SUBSET (1..N) /\ Pending \in SUBSET (1..N)
  BY DEF Floating, Pending
<1>8. \A i \in Floating' : i \in Floating \/ (i = pos /\ Kind = "commit")
  BY <1>1, <1>6 DEF Floating
<1>9. Pending' = Pending
  BY <1>1 DEF Pending, Commit
<1>10. \A i \in Floating : Commit(i) = "Mempool"
  <2>1. \A i \in Floating : 2 * i - 1 <= Len(obs)
    BY <1>3, <1>7
  <2> QED BY <1>1, <2>1 DEF Bounded, Noticed
<1>11. CASE Kind = "commit"
  <2>1. pc = "send commit" /\ pc' = "check commit"
    BY <1>1, <1>11 DEF Kind
  <2>2. /\ walk.commits < PendingCommits /\ walk.commits \in Nat
        /\ Cardinality(Pending) <= walk.commits
    BY <1>2, <2>1 DEF Bounded, Roomy
  <2>3. Floating' \subseteq Pending \cup {pos}
    BY <1>7, <1>8, <1>10 DEF Pending
  <2>4. Cardinality(Floating') <= Cardinality(Pending) + 1
    BY <1>3, <1>7, <2>3, RecordsCount
  <2>5. Cardinality(Floating') \in Nat /\ Cardinality(Pending) \in Nat /\ PendingCommits \in Nat
    BY <1>7, RecordsFinite, PublishAssumption
  <2>6. Cardinality(Floating') <= PendingCommits
    BY <2>2, <2>4, <2>5
  <2>7. PendingBound'
    BY <2>6 DEF PendingBound, Floating
  <2>8. Noticed'
    BY <1>1, <1>8, <1>10, <2>1 DEF Noticed, Commit
  <2>9. Roomy'
    BY <1>1, <1>9, <2>1, <2>2 DEF Roomy
  <2> QED BY <2>7, <2>8, <2>9 DEF Bounded
<1>12. CASE Kind = "reveal"
  <2>1. pc' = "check reveal" /\ Floating' \subseteq Floating
    BY <1>1, <1>8, <1>12
  <2>2. Noticed'
    BY <1>1, <1>10, <2>1 DEF Noticed, Commit
  <2>3. Roomy'
    BY <1>1, <1>2, <1>9, <2>1 DEF Bounded, Roomy
  <2> QED BY <2>1, <2>2, <2>3, FewerFloat DEF Bounded
<1> QED BY <1>4, <1>11, <1>12

LEMMA WalkBounded ==
  ASSUME Ordered, Bounded, Anchored \/ WalkCommit \/ WalkReveal \/ NextRecord
  PROVE  Bounded'
<1>1. /\ pc \in {"anchor", "commit", "reveal", "next"} /\ UNCHANGED <<where, buried, obs>>
      /\ pc' \notin {"send commit", "check commit"} /\ IsWalk(walk)
  BY DEF Anchored, WalkCommit, WalkReveal, NextRecord, world, Ordered, Types
<1>2. pc \notin {"check commit", "finish"}
  BY <1>1
<1>3. CASE pc' = "finish"
  <2>1. pc' \notin Walking
    BY <1>3 DEF Walking
  <2> QED BY <1>1, <1>3, <2>1, OutsideBounded
<1>4. CASE pc' # "finish"
  <2>1. Cardinality(Pending) \in Nat
    <3>1. Pending \in SUBSET (1..N)
      BY DEF Pending
    <3> QED BY <3>1, RecordsFinite
  <2>2. walk'.commits \in Nat /\ Cardinality(Pending) <= walk'.commits
    <3>1. CASE Anchored
      <4>1. walk' = NewBuffer
        BY <1>4, <3>1 DEF Anchored
      <4>2. walk'.commits = Cardinality(Pending)
        BY <4>1, NewBufferShape DEF Like
      <4> QED BY <2>1, <4>2
    <3>2. CASE WalkCommit \/ WalkReveal \/ NextRecord
      <4>1. walk.commits \in Nat /\ Cardinality(Pending) <= walk.commits
        BY <3>2 DEF WalkCommit, WalkReveal, NextRecord, Walking, Bounded, Roomy
      <4>2. CASE WalkCommit \/ WalkReveal
        <5>1. walk' = walk \/ walk' = [walk EXCEPT !.limited = TRUE]
          BY <4>2 DEF WalkCommit, WalkReveal
        <5> QED BY <1>1, <4>1, <5>1 DEF IsWalk
      <4>3. CASE NextRecord
        <5>1. PICK a, d, l : walk' = [walk EXCEPT !.parent = a, !.data = @ /\ d, !.leaves = @ /\ l]
          BY <4>3 DEF NextRecord
        <5>2. walk'.commits = walk.commits
          BY <1>1, <5>1 DEF IsWalk
        <5> QED BY <4>1, <5>2
      <4> QED BY <3>2, <4>2, <4>3
    <3> QED BY <3>1, <3>2
  <2>3. pc' = "look commit" =>
          pos' = pos /\ walk'.commits < PendingCommits /\ Unsent(Commit(pos))
    BY DEF Anchored, WalkCommit, WalkReveal, NextRecord, Admits
  <2> QED BY <1>1, <1>2, <2>2, <2>3, StillBounded
<1> QED BY <1>3, <1>4

LEMMA NextBounded == Ordered /\ Bounded /\ [Next]_vars => Bounded'
<1> SUFFICES ASSUME Ordered, Bounded, [Next]_vars PROVE Bounded'
  OBVIOUS
<1>1. CASE UNCHANGED vars
  <2>1. UNCHANGED <<where, buried, pc, pos, obs, walk>>
    BY <1>1 DEF vars, world, pass
  <2>2. Floating' = Floating /\ Pending' = Pending /\ Commit(pos)' = Commit(pos)
    BY <2>1 DEF Floating, Pending, Commit
  <2>3. Noticed' /\ Roomy'
    BY <2>1, <2>2 DEF Bounded, Noticed, Roomy, Commit
  <2> QED BY <2>2, <2>3, FewerFloat DEF Bounded
<1>2. CASE Unavailable \/ Finish \/ Abort \/ TornAppend
  <2>1. UNCHANGED <<where, buried>> /\ pc' \notin Walking /\ (pc' = "finish" \/ obs' = <<>>)
    BY <1>2 DEF Unavailable, Finish, Abort, TornAppend, Over, world, Walking
  <2> QED BY <2>1, OutsideBounded
<1>3. CASE Load \/ Resume \/ \E publishing \in BOOLEAN : Begin(publishing)
  <2>1. pc \in Resting /\ UNCHANGED <<where, buried, obs>> /\ pc' \notin Walking
    BY <1>3 DEF Load, Resume, Begin, world, Resting, Walking
  <2>2. obs' = <<>>
    BY <2>1 DEF Ordered, Types
  <2> QED BY <2>1, <2>2, OutsideBounded
<1>4. CASE \/ \E S \in SUBSET Waiting : Mine(S) \/ Evict(S)
           \/ Reorg
           \/ \E tx \in Tx : Expire(tx)
  BY <1>4, WorldBounded
<1>5. CASE PassStep \/ LookFails
  BY <1>2, <1>5, InventoryBounded, WalkBounded, LookBounded, FailedBounded, AcceptedBounded DEF PassStep
<1> QED BY <1>1, <1>2, <1>3, <1>4, <1>5 DEF Next, Step

(* No more than PendingCommits commits of the plan wait in the mempool, for *)
(* every plan and every limit, over all passes, evictions and restarts: the *)
(* buffer never counts fewer than are there.                                *)
THEOREM BoundedPending == Spec => []PendingBound
<1>1. Spec => []Bounded
  <2>1. Ordered /\ Bounded /\ [Next]_vars => Bounded'
    BY NextBounded
  <2> QED BY <2>1, InitBounded, Invariant, PTL DEF Spec
<1>2. Bounded => PendingBound
  BY DEF Bounded
<1> QED BY <1>1, <1>2, PTL

-----------------------------------------------------------------------------
(* A set of naturals has a least element. *)
LEMMA LeastNat ==
  ASSUME NEW T \in SUBSET Nat, T # {}
  PROVE  \E x \in T : \A y \in T : x <= y
<1>1. PICK R : R = OpToRel(<, Nat)
  OBVIOUS
<1>2. IsWellFoundedOn(R, Nat)
  BY <1>1, NatLessThanWellFounded
<1>3. PICK x \in T : \A y \in T : ~(<<y, x>> \in R)
  BY <1>2, WFMin
<1>4. ASSUME NEW y \in T PROVE x <= y
  <2>1. <<y, x>> \notin R
    BY <1>3
  <2>2. y \in Nat /\ x \in Nat
    OBVIOUS
  <2>3. ~(y < x)
    BY <1>1, <2>1, <2>2 DEF OpToRel
  <2> QED BY <2>2, <2>3
<1> QED BY <1>4

(* Induction, with the property given by the set of numbers that have it. *)
LEMMA Inductive ==
  ASSUME NEW S, 0 \in S, \A n \in Nat : n \in S => n + 1 \in S
  PROVE  \A n \in Nat : n \in S
<1> SUFFICES ASSUME Nat \ S # {} PROVE FALSE
  OBVIOUS
<1>1. PICK x \in Nat \ S : \A y \in Nat \ S : x <= y
  BY LeastNat
<1>2. x # 0 /\ x - 1 \in Nat /\ x = (x - 1) + 1
  BY <1>1
<1>3. x - 1 \in S
  BY <1>1, <1>2
<1> QED BY <1>1, <1>2, <1>3

-----------------------------------------------------------------------------
(* Folds. *)

(* The steps of the folds here: `m' says which. *)
Do(m, w, v, e) ==
    CASE m = "sum" -> v + e
      [] m = "join" -> v \o Entries(w, PositionOf(w, e))
      [] m = "prepare" -> Prepare(v, e, w)
      [] m = "accept" -> Accept(v, e)

(* What a fold over the first n elements of s tabulates. *)
Entry(m, w, base, s, f, S) ==
    IF S = {} THEN base ELSE Do(m, w, f[S \ {Max(S)}], s[Max(S)])

Table(m, w, base, s, n, f) ==
    f = [S \in SUBSET (1..n) |-> Entry(m, w, base, s, f, S)]

LEMMA MaxOf ==
  ASSUME NEW n \in Nat, NEW S \in SUBSET (1..(n + 1)), n + 1 \in S
  PROVE  Max(S) = n + 1
<1>1. \A y \in S : n + 1 >= y
  OBVIOUS
<1>2. Max(S) \in S /\ \A y \in S : Max(S) >= y
  BY <1>1 DEF Max
<1>3. PICK x \in 1..(n + 1) : x = Max(S)
  BY <1>2
<1>4. x >= n + 1
  BY <1>2, <1>3
<1> QED BY <1>3, <1>4

LEMMA TableExists ==
  ASSUME NEW m, NEW w, NEW base, NEW s, NEW n \in Nat
  PROVE  \E f : Table(m, w, base, s, n, f)
<1>1. PICK K : K = {k \in Nat : \E f : Table(m, w, base, s, k, f)}
  OBVIOUS
<1>2. 0 \in K
  <2>1. SUBSET (1..0) = {{}}
    OBVIOUS
  <2>2. PICK f : f = [S \in {{}} |-> base]
    OBVIOUS
  <2>3. f = [S \in SUBSET (1..0) |-> Entry(m, w, base, s, f, S)]
    BY <2>1, <2>2 DEF Entry
  <2> QED BY <1>1, <2>3 DEF Table
<1>3. ASSUME NEW k \in Nat, k \in K PROVE k + 1 \in K
  <2>1. PICK f : Table(m, w, base, s, k, f)
    BY <1>1, <1>3
  <2>2. PICK g : g = [S \in SUBSET (1..(k + 1)) |->
                       IF k + 1 \in S THEN Do(m, w, f[S \ {k + 1}], s[k + 1]) ELSE f[S]]
    OBVIOUS
  <2>3. \A S \in SUBSET (1..k) : S \in SUBSET (1..(k + 1)) /\ k + 1 \notin S /\ g[S] = f[S]
    BY <2>2
  <2>4. \A S \in SUBSET (1..(k + 1)) : S \ {k + 1} \in SUBSET (1..k)
    OBVIOUS
  <2>5. ASSUME NEW S \in SUBSET (1..(k + 1)) PROVE g[S] = Entry(m, w, base, s, g, S)
    <3>1. CASE k + 1 \in S
      <4>1. g[S] = Do(m, w, g[S \ {k + 1}], s[k + 1])
        BY <2>2, <2>3, <2>4, <3>1
      <4>2. Max(S) = k + 1 /\ S # {}
        BY <3>1, MaxOf
      <4> QED BY <4>1, <4>2 DEF Entry
    <3>2. CASE k + 1 \notin S
      <4>1. S \in SUBSET (1..k)
        BY <2>4, <3>2
      <4>2. g[S] = Entry(m, w, base, s, f, S)
        BY <2>1, <2>3, <4>1 DEF Table
      <4>3. S # {} => g[S \ {Max(S)}] = f[S \ {Max(S)}]
        BY <2>3, <4>1
      <4> QED BY <4>2, <4>3 DEF Entry
    <3> QED BY <3>1, <3>2
  <2>6. g = [S \in SUBSET (1..(k + 1)) |-> Entry(m, w, base, s, g, S)]
    <3>1. g = [S \in SUBSET (1..(k + 1)) |-> g[S]]
      BY <2>2
    <3> QED BY <2>5, <3>1
  <2> QED BY <1>1, <2>6 DEF Table
<1>4. n \in K
  BY <1>2, <1>3, Inductive
<1> QED BY <1>1, <1>4

(* Along the prefixes it is a chain. *)
Steps(m, w, base, s, n, v) ==
    v[0] = base /\ \A k \in 1..n : v[k] = Do(m, w, v[k - 1], s[k])

LEMMA TableChain ==
  ASSUME NEW m, NEW w, NEW base, NEW s, NEW n \in Nat, NEW f, Table(m, w, base, s, n, f)
  PROVE  Steps(m, w, base, s, n, [k \in 0..n |-> f[1..k]])
<1>1. \A S \in SUBSET (1..n) : f[S] = Entry(m, w, base, s, f, S)
  BY DEF Table
<1>2. f[1..0] = base
  <2>1. 1..0 = {} /\ {} \in SUBSET (1..n)
    OBVIOUS
  <2> QED BY <1>1, <2>1 DEF Entry
<1>3. ASSUME NEW k \in 1..n PROVE f[1..k] = Do(m, w, f[1..(k - 1)], s[k])
  <2>1. 1..k \in SUBSET (1..n) /\ 1..k # {} /\ (1..k) \ {k} = 1..(k - 1)
    OBVIOUS
  <2>2. Max(1..k) = k
    <3>1. k - 1 \in Nat /\ (k - 1) + 1 = k /\ k \in 1..k
      OBVIOUS
    <3> QED BY <3>1, MaxOf
  <2> QED BY <1>1, <2>1, <2>2 DEF Entry
<1>4. 0 \in 0..n /\ \A k \in 1..n : k \in 0..n /\ k - 1 \in 0..n
  OBVIOUS
<1> QED BY <1>2, <1>3, <1>4 DEF Steps

(* The folds of the model. *)
LEMMA AcceptFold ==
  ASSUME NEW s, NEW n \in Nat, DOMAIN s = 1..n
  PROVE  \E v : /\ Steps("accept", 0, NewValidation, s, n, v)
                /\ FoldLeft(Accept, NewValidation, s) = v[n]
<1> DEFINE F(g) == [S \in SUBSET (1..n) |->
                      IF S = {} THEN NewValidation ELSE Accept(g[S \ {Max(S)}], s[Max(S)])]
           iter == CHOOSE g : g = F(g)
<1>1. PICK f : Table("accept", 0, NewValidation, s, n, f)
  BY TableExists
<1>2. f = F(f)
  BY <1>1 DEF Table, Entry, Do
<1>3. iter = F(iter)
  BY <1>2
<1>4. FoldLeft(Accept, NewValidation, s) = iter[1..n]
  BY DEF FoldLeft, MapThenFoldSet
<1> HIDE DEF iter
<1>5. Table("accept", 0, NewValidation, s, n, iter)
  BY <1>3 DEF Table, Entry, Do
<1>6. PICK v : v = [k \in 0..n |-> iter[1..k]]
  OBVIOUS
<1>7. Steps("accept", 0, NewValidation, s, n, v)
  BY <1>5, <1>6, TableChain
<1>8. v[n] = iter[1..n]
  BY <1>6
<1> QED BY <1>4, <1>7, <1>8

LEMMA SumFold ==
  ASSUME NEW s, NEW n \in Nat, DOMAIN s = 1..n
  PROVE  \E v : /\ Steps("sum", 0, 0, s, n, v)
                /\ Total(s) = v[n]
<1> DEFINE F(g) == [S \in SUBSET (1..n) |->
                      IF S = {} THEN 0 ELSE g[S \ {Max(S)}] + s[Max(S)]]
           iter == CHOOSE g : g = F(g)
<1>1. PICK f : Table("sum", 0, 0, s, n, f)
  BY TableExists
<1>2. f = F(f)
  BY <1>1 DEF Table, Entry, Do
<1>3. iter = F(iter)
  BY <1>2
<1>4. Total(s) = iter[1..n]
  BY DEF Total, FoldLeft, MapThenFoldSet
<1> HIDE DEF iter
<1>5. Table("sum", 0, 0, s, n, iter)
  BY <1>3 DEF Table, Entry, Do
<1>6. PICK v : v = [k \in 0..n |-> iter[1..k]]
  OBVIOUS
<1>7. Steps("sum", 0, 0, s, n, v)
  BY <1>5, <1>6, TableChain
<1>8. v[n] = iter[1..n]
  BY <1>6
<1> QED BY <1>4, <1>7, <1>8

LEMMA JoinFold ==
  ASSUME NEW w, NEW s, NEW n \in Nat, DOMAIN s = 1..n
  PROVE  \E v : /\ Steps("join", w, <<>>, s, n, v)
                /\ Followed(w, s) = v[n]
<1> DEFINE F(g) == [S \in SUBSET (1..n) |->
                      IF S = {} THEN <<>> ELSE g[S \ {Max(S)}] \o Entries(w, PositionOf(w, s[Max(S)]))]
           iter == CHOOSE g : g = F(g)
<1>1. PICK f : Table("join", w, <<>>, s, n, f)
  BY TableExists
<1>2. f = F(f)
  BY <1>1 DEF Table, Entry, Do
<1>3. iter = F(iter)
  BY <1>2
<1>4. Followed(w, s) = iter[1..n]
  BY DEF Followed, FoldLeft, MapThenFoldSet
<1> HIDE DEF iter
<1>5. Table("join", w, <<>>, s, n, iter)
  BY <1>3 DEF Table, Entry, Do
<1>6. PICK v : v = [k \in 0..n |-> iter[1..k]]
  OBVIOUS
<1>7. Steps("join", w, <<>>, s, n, v)
  BY <1>5, <1>6, TableChain
<1>8. v[n] = iter[1..n]
  BY <1>6
<1> QED BY <1>4, <1>7, <1>8

Planned(length, n, s) ==
    n \in Nat /\ n = Nodes(length) /\ s = [k \in 1..n |-> RecordAt(length, k)]

LEMMA PrepareFold ==
  ASSUME NEW length, NEW coins, NEW maximum, NEW n, NEW s, Planned(length, n, s)
  PROVE  \E v : /\ Steps("prepare", maximum, NewPlanner(coins), s, n, v)
                /\ Signing(length, coins, maximum) = v[n]
<1> DEFINE F(g) == [S \in SUBSET (1..n) |->
                      IF S = {} THEN NewPlanner(coins) ELSE Prepare(g[S \ {Max(S)}], s[Max(S)], maximum)]
           iter == CHOOSE g : g = F(g)
<1>9. n \in Nat
  BY DEF Planned
<1>1. PICK f : Table("prepare", maximum, NewPlanner(coins), s, n, f)
  BY <1>9, TableExists
<1>2. f = F(f)
  BY <1>1 DEF Table, Entry, Do
<1>3. iter = F(iter)
  BY <1>2
<1>4. Signing(length, coins, maximum) = iter[1..n]
  <2>1. DOMAIN s = 1..n /\ s = [k \in 1..Nodes(length) |-> RecordAt(length, k)]
    BY DEF Planned
  <2>2. PICK g : g = Signing(length, coins, maximum)
    OBVIOUS
  <2>3. g = FoldLeft(LAMBDA p, record : Prepare(p, record, maximum), NewPlanner(coins), s)
    BY <2>1, <2>2 DEF Signing
  <2>4. FoldLeft(LAMBDA p, record : Prepare(p, record, maximum), NewPlanner(coins), s) = iter[1..n]
    BY <2>1 DEF FoldLeft, MapThenFoldSet
  <2> QED BY <2>2, <2>3, <2>4
<1> HIDE DEF iter
<1>5. Table("prepare", maximum, NewPlanner(coins), s, n, iter)
  BY <1>3 DEF Table, Entry, Do
<1>6. PICK v : v = [k \in 0..n |-> iter[1..k]]
  OBVIOUS
<1>7. Steps("prepare", maximum, NewPlanner(coins), s, n, v)
  BY <1>5, <1>6, <1>9, TableChain
<1>8. v[n] = iter[1..n]
  BY <1>6, <1>9
<1> QED BY <1>4, <1>7, <1>8

-----------------------------------------------------------------------------
(* The validator, record by record. *)

IsValidation(v) ==
    v = [ok |-> v.ok, total |-> v.total, last |-> v.last, change |-> v.change, root |-> v.root,
         parts |-> v.parts, length |-> v.length, lastPart |-> v.lastPart, leaves |-> v.leaves,
         lastLeaf |-> v.lastLeaf]

Admitted(v, pair) == v.ok /\ ~v.root /\ Funded(v, pair) /\ Fits(v, pair.record)

(* What is known of the record after. *)
Adds(u, v, pair) ==
    LET r == pair.record
    IN  /\ u.total = v.total + Total(pair.inputs) - pair.change - Retained
        /\ u.last = r.id /\ u.change = pair.change
        /\ u.root = (r.kind = "root")
        /\ u.parts = IF r.kind = "data" THEN Append(v.parts, r.id) ELSE v.parts
        /\ u.length = IF r.kind = "data" THEN v.length + r.units ELSE v.length
        /\ u.lastPart = IF r.kind = "data" THEN r.units ELSE v.lastPart
        /\ u.leaves = IF r.kind = "leaf" THEN Append(v.leaves, r.id) ELSE v.leaves
        /\ u.lastLeaf = IF r.kind = "leaf" THEN Len(r.entries) ELSE v.lastLeaf

LEMMA AcceptStep ==
  ASSUME NEW v, IsValidation(v), NEW pair, NEW u, u = Accept(v, pair)
  PROVE  /\ IsValidation(u)
         /\ u.ok => Admitted(v, pair) /\ Adds(u, v, pair)
         /\ Admitted(v, pair) => u.ok /\ Adds(u, v, pair)
<1>1. CASE ~Admitted(v, pair)
  <2>1. u = [v EXCEPT !.ok = FALSE]
    BY <1>1 DEF Accept, Admitted
  <2>2. IsValidation(u) /\ u.ok = FALSE
    BY <2>1 DEF IsValidation
  <2> QED BY <1>1, <2>2
<1>2. CASE Admitted(v, pair)
  <2>1. PICK r : r = pair.record
    OBVIOUS
  <2>2. u = [v EXCEPT
                !.total = @ + Total(pair.inputs) - pair.change - Retained,
                !.last = r.id, !.change = pair.change,
                !.root = r.kind = "root",
                !.parts = IF r.kind = "data" THEN Append(@, r.id) ELSE @,
                !.length = IF r.kind = "data" THEN @ + r.units ELSE @,
                !.lastPart = IF r.kind = "data" THEN r.units ELSE @,
                !.leaves = IF r.kind = "leaf" THEN Append(@, r.id) ELSE @,
                !.lastLeaf = IF r.kind = "leaf" THEN Len(r.entries) ELSE @]
    BY <1>2, <2>1 DEF Accept, Admitted
  <2>3. IsValidation(u) /\ u.ok = v.ok
    BY <2>2 DEF IsValidation
  <2>4. Adds(u, v, pair)
    BY <2>1, <2>2 DEF IsValidation, Adds
  <2> QED BY <1>2, <2>3, <2>4 DEF Admitted
<1> QED BY <1>1, <1>2

(* Every record of a plan that is accepted was. *)
Run(s, n, v) ==
    /\ v[0] = NewValidation
    /\ \A k \in 1..n : v[k - 1].ok /\ Admitted(v[k - 1], s[k]) /\ Adds(v[k], v[k - 1], s[k])

LEMMA AcceptedAll ==
  ASSUME NEW s, NEW n \in Nat, NEW v, Steps("accept", 0, NewValidation, s, n, v), v[n].ok
  PROVE  Run(s, n, v)
<1>1. v[0] = NewValidation /\ \A k \in 1..n : v[k] = Accept(v[k - 1], s[k])
  BY DEF Steps, Do
<1>2. PICK K : K = {k \in Nat : k <= n => IsValidation(v[k])}
  OBVIOUS
<1>3. 0 \in K
  BY <1>1, <1>2 DEF NewValidation, IsValidation
<1>4. ASSUME NEW k \in Nat, k \in K PROVE k + 1 \in K
  <2>1. CASE k + 1 <= n
    <3>1. k + 1 \in 1..n /\ (k + 1) - 1 = k /\ k <= n
      BY <2>1
    <3>2. IsValidation(v[k]) /\ v[k + 1] = Accept(v[k], s[k + 1])
      BY <1>1, <1>2, <1>4, <3>1
    <3>3. IsValidation(v[k + 1])
      BY <3>2, AcceptStep
    <3> QED BY <1>2, <3>3
  <2>2. CASE ~(k + 1 <= n)
    BY <1>2, <2>2
  <2> QED BY <2>1, <2>2
<1>5. \A k \in 0..n : IsValidation(v[k])
  <2>1. \A k \in Nat : k \in K
    BY <1>3, <1>4, Inductive
  <2> QED BY <1>2, <2>1
<1>6. \A k \in 1..n : v[k].ok => Admitted(v[k - 1], s[k]) /\ Adds(v[k], v[k - 1], s[k])
  <2>1. \A k \in 1..n : k - 1 \in 0..n
    OBVIOUS
  <2> QED BY <1>1, <1>5, <2>1, AcceptStep
<1>7. PICK J : J = {k \in Nat : k <= n => v[n - k].ok}
  OBVIOUS
<1>8. 0 \in J
  BY <1>7
<1>9. ASSUME NEW k \in Nat, k \in J PROVE k + 1 \in J
  <2>1. CASE k + 1 <= n
    <3>1. n - k \in 1..n /\ n - (k + 1) = (n - k) - 1
      BY <2>1
    <3>2. v[n - k].ok
      BY <1>7, <1>9, <2>1
    <3>3. v[(n - k) - 1].ok
      BY <1>6, <3>1, <3>2 DEF Admitted
    <3> QED BY <1>7, <3>1, <3>3
  <2>2. CASE ~(k + 1 <= n)
    BY <1>7, <2>2
  <2> QED BY <2>1, <2>2
<1>10. \A k \in 0..n : v[k].ok
  <2>1. \A k \in Nat : k \in J
    BY <1>8, <1>9, Inductive
  <2>2. \A k \in 0..n : n - k \in Nat /\ n - k <= n /\ n - (n - k) = k
    OBVIOUS
  <2> QED BY <1>7, <2>1, <2>2
<1>11. \A k \in 1..n : k \in 0..n /\ k - 1 \in 0..n
  OBVIOUS
<1> QED BY <1>1, <1>6, <1>10, <1>11 DEF Run

(* The records of a plan. *)
Recorded(s, n) ==
    /\ n \in Nat /\ DOMAIN s = 1..n /\ Len(s) = n
    /\ \A k \in 1..n : IsRecord(s[k].record)
    /\ \A j, k \in 1..n : s[j].record.id = s[k].record.id => s[j].record = s[k].record

LEMMA ListOf ==
  ASSUME NEW p \in Nat, NEW f, f = [i \in 1..p |-> f[i]]
  PROVE  /\ f \in Seq(ToSet(f)) /\ Len(f) = p /\ (f = <<>> => p = 0)
<1>1. \A i \in 1..p : f[i] \in ToSet(f)
  BY DEF ToSet
<1>2. f \in [1..p -> ToSet(f)]
  BY <1>1
<1>3. f \in Seq(ToSet(f)) /\ Len(f) = p
  BY <1>2
<1> QED BY <1>3

LEMMA ListAppend ==
  ASSUME NEW p \in Nat, NEW f, f = [i \in 1..p |-> f[i]], NEW x, NEW g, g = Append(f, x)
  PROVE  /\ g = [i \in 1..(p + 1) |-> g[i]]
         /\ \A i \in 1..p : g[i] = f[i]
         /\ g[p + 1] = x
<1>1. f \in Seq(ToSet(f)) /\ Len(f) = p
  BY ListOf
<1>2. PICK F : F = ToSet(f) \cup {x}
  OBVIOUS
<1>3. f \in Seq(F) /\ x \in F
  <2>1. f \in [1..p -> F]
    BY <1>1, <1>2
  <2> QED BY <1>2, <2>1
<1>4. g \in Seq(F) /\ Len(g) = p + 1 /\ (\A i \in 1..p : g[i] = f[i]) /\ g[p + 1] = x
  BY <1>1, <1>3
<1>5. g = [i \in 1..(p + 1) |-> g[i]]
  BY <1>4
<1> QED BY <1>4, <1>5

LEMMA ListSub ==
  ASSUME NEW p \in Nat, NEW f, f = [i \in 1..p |-> f[i]], NEW a \in Nat, NEW b \in Nat, a <= b, b <= p
  PROVE  SubSeq(f, a + 1, b) = [e \in 1..(b - a) |-> f[a + e]]
<1>1. PICK F : F = ToSet(f)
  OBVIOUS
<1>2. f \in Seq(F) /\ Len(f) = p
  BY <1>1, ListOf
<1>3. PICK g : g = SubSeq(f, a + 1, b)
  OBVIOUS
<1>4. \A i \in (a + 1)..b : f[i] \in F
  BY <1>2
<1>5. g \in Seq(F) /\ Len(g) = b - a /\ \A e \in 1..(b - a) : g[e] = f[a + e]
  <2>1. PICK c \in Int : c = a + 1
    OBVIOUS
  <2>7. b \in Int
    OBVIOUS
  <2>2. \A i \in c..b : f[i] \in F
    BY <1>4, <2>1
  <2>3. /\ SubSeq(f, c, b) \in Seq(F)
        /\ Len(SubSeq(f, c, b)) = IF c <= b THEN b - c + 1 ELSE 0
    BY <2>2, <2>7, SubSeqProperties
  <2>8. \A i \in 1..(b - c + 1) : SubSeq(f, c, b)[i] = f[c + i - 1]
    BY <2>2, <2>7, SubSeqProperties
  <2>4. g = SubSeq(f, c, b)
    BY <1>3, <2>1
  <2>5. (IF c <= b THEN b - c + 1 ELSE 0) = b - a /\ b - c + 1 = b - a
    BY <2>1
  <2>6. \A e \in 1..(b - a) : c + e - 1 = a + e
    BY <2>1
  <2> QED BY <2>3, <2>4, <2>5, <2>6, <2>8
<1>6. g = [e \in 1..(b - a) |-> g[e]]
  BY <1>5
<1> QED BY <1>3, <1>5, <1>6

-----------------------------------------------------------------------------
(* Products with a constant. *)
LEMMA Times ==
  ASSUME NEW a \in Nat, NEW j \in Nat, NEW k \in Nat
  PROVE  /\ j * a \in Nat /\ (j + 1) * a = j * a + a /\ 0 * a = 0
         /\ j <= k => j * a <= k * a
<1>1. j * a \in Nat
  OBVIOUS
<1>3. (j + 1) * a = j * a + a
  OBVIOUS
<1>4. 0 * a = 0
  OBVIOUS
<1>2. ASSUME j <= k PROVE j * a <= k * a
  <2>1. PICK d \in Nat : k = j + d
    <3>1. k - j \in Nat /\ k = j + (k - j)
      BY <1>2
    <3> QED BY <3>1
  <2>2. k * a = j * a + d * a
    BY <2>1
  <2>3. d * a \in Nat /\ k * a \in Nat
    BY <2>1
  <2> QED BY <1>1, <2>2, <2>3
<1> QED BY <1>1, <1>2, <1>3, <1>4

LEMMA Widths == Fanout \in Nat \ {0} /\ PartUnits \in Nat \ {0}
  BY GeometryAssumption

-----------------------------------------------------------------------------
(* What the validator knows after k records: p data parts and l leaves. *)

Listed(s, a, l) == [e \in 1..l |-> s[a + e].record.id]

DataAt(s, i) == s[i].record.kind = "data" /\ s[i].record.index = i - 1

LeafAt(s, p, j) ==
    LET r == s[p + j].record
    IN  /\ r.kind = "leaf" /\ r.index = j - 1 /\ (j - 1) * Fanout < p
        /\ r.entries = Listed(s, (j - 1) * Fanout, Smaller(j * Fanout, p) - (j - 1) * Fanout)

RootAt(s, v, p, l) ==
    LET r == s[p + l + 1].record
    IN  /\ r.kind = "root" /\ r.entries = Listed(s, p, l) /\ l > 0
        /\ r.units = v.length /\ p = Parts(r.units) /\ l = Leaves(r.units)

Shape(s, v, k, p, l) ==
    /\ p \in Nat /\ l \in Nat /\ v.root \in BOOLEAN
    /\ k = p + l + (IF v.root THEN 1 ELSE 0)
    /\ v.parts = Listed(s, 0, p) /\ v.leaves = Listed(s, p, l)
    /\ \A i \in 1..p : DataAt(s, i)
    /\ \A j \in 1..l : LeafAt(s, p, j)
    /\ v.root => RootAt(s, v, p, l)

LEMMA ListedIs ==
  ASSUME NEW s, NEW a, NEW l \in Nat, NEW f, f = Listed(s, a, l)
  PROVE  f = [e \in 1..l |-> f[e]] /\ Len(f) = l /\ (f = <<>> <=> l = 0)
<1>1. f = [e \in 1..l |-> f[e]]
  BY DEF Listed
<1>2. Len(f) = l /\ (f = <<>> => l = 0)
  BY <1>1, ListOf
<1>3. ASSUME l = 0 PROVE f = <<>>
  <2>1. f \in Seq(ToSet(f)) /\ Len(f) = 0
    BY <1>1, <1>3, ListOf
  <2> QED BY <2>1
<1> QED BY <1>1, <1>2, <1>3

LEMMA ListedFirst ==
  ASSUME NEW s, NEW l \in Nat, NEW f, f = Listed(s, 0, l)
  PROVE  /\ f = [e \in 1..l |-> f[e]] /\ Len(f) = l
         /\ \A e \in 1..l : f[e] = s[e].record.id
         /\ f = <<>> <=> l = 0
<1>1. PICK a \in Nat : a = 0
  OBVIOUS
<1>2. f = Listed(s, a, l)
  BY <1>1
<1>3. f = [e \in 1..l |-> f[e]] /\ Len(f) = l /\ (f = <<>> <=> l = 0)
  BY <1>2, ListedIs
<1>4. \A e \in 1..l : f[e] = s[a + e].record.id
  BY <1>2 DEF Listed
<1>5. \A e \in 1..l : a + e = e
  BY <1>1
<1> QED BY <1>3, <1>4, <1>5

LEMMA ListedNone ==
  ASSUME NEW s, NEW a \in Nat
  PROVE  Listed(s, a, 0) = <<>>
<1>1. PICK z \in Nat : z = 0
  OBVIOUS
<1>2. Listed(s, a, z) = <<>> <=> z = 0
  BY ListedIs
<1> QED BY <1>1, <1>2

(* Lists that follow each other. *)
LEMMA ListedJoin ==
  ASSUME NEW s, NEW l \in Nat, NEW t \in Nat, l <= t
  PROVE  Listed(s, 0, l) \o Listed(s, l, t - l) = Listed(s, 0, t)
<1>1. PICK m \in Nat : m = t - l /\ t = l + m
  <2>1. t - l \in Nat /\ t = l + (t - l)
    OBVIOUS
  <2> QED BY <2>1
<1>2. PICK f, g, F : f = Listed(s, 0, l) /\ g = Listed(s, l, m) /\ F = ToSet(f) \cup ToSet(g)
  OBVIOUS
<1>3. f = [e \in 1..l |-> f[e]] /\ \A e \in 1..l : f[e] = s[e].record.id
  BY <1>2, ListedFirst
<1>4. g = [e \in 1..m |-> g[e]] /\ \A e \in 1..m : g[e] = s[l + e].record.id
  BY <1>2 DEF Listed
<1>5. f \in Seq(F) /\ Len(f) = l
  <2>1. f \in Seq(ToSet(f)) /\ Len(f) = l
    BY <1>3, ListOf
  <2>2. f \in [1..l -> F]
    BY <1>2, <2>1
  <2> QED BY <2>1, <2>2
<1>6. g \in Seq(F) /\ Len(g) = m
  <2>1. g \in Seq(ToSet(g)) /\ Len(g) = m
    BY <1>4, ListOf
  <2>2. g \in [1..m -> F]
    BY <1>2, <2>1
  <2> QED BY <2>1, <2>2
<1>7. PICK h : h = f \o g
  OBVIOUS
<1>8. h \in Seq(F) /\ Len(h) = l + m
  BY <1>5, <1>6, <1>7
<1>9. \A e \in 1..(l + m) : h[e] = IF e <= l THEN f[e] ELSE g[e - l]
  <2>1. \A e \in 1..(Len(f) + Len(g)) : h[e] = IF e <= Len(f) THEN f[e] ELSE g[e - Len(f)]
    BY <1>5, <1>6, <1>7, ConcatProperties
  <2>2. Len(f) = l /\ Len(g) = m
    BY <1>5, <1>6
  <2> QED BY <2>1, <2>2
<1>10. ASSUME NEW e \in 1..t PROVE h[e] = s[e].record.id
  <2>1. CASE e <= l
    <3>1. e \in 1..l
      BY <2>1
    <3> QED BY <1>1, <1>3, <1>9, <2>1, <3>1
  <2>2. CASE ~(e <= l)
    <3>1. e - l \in 1..m /\ l + (e - l) = e
      BY <1>1, <2>2
    <3>2. h[e] = g[e - l]
      BY <1>1, <1>9, <2>2
    <3>3. g[e - l] = s[l + (e - l)].record.id
      BY <1>4, <3>1
    <3> QED BY <3>1, <3>2, <3>3
  <2> QED BY <2>1, <2>2
<1>11. h = [e \in 1..t |-> s[e].record.id]
  <2>1. DOMAIN h = 1..t /\ h = [e \in DOMAIN h |-> h[e]]
    BY <1>1, <1>8
  <2> QED BY <1>10, <2>1
<1>12. Listed(s, 0, t) = [e \in 1..t |-> s[e].record.id]
  <2>1. \A e \in 1..t : 0 + e = e
    OBVIOUS
  <2> QED BY <2>1 DEF Listed
<1> QED BY <1>1, <1>2, <1>7, <1>11, <1>12

LEMMA ListedMore ==
  ASSUME NEW s, NEW a \in Nat, NEW l \in Nat
  PROVE  Append(Listed(s, a, l), s[a + l + 1].record.id) = Listed(s, a, l + 1)
<1>1. PICK f, x : f = Listed(s, a, l) /\ x = s[a + l + 1].record.id
  OBVIOUS
<1>2. f = [e \in 1..l |-> f[e]] /\ \A e \in 1..l : f[e] = s[a + e].record.id
  BY <1>1 DEF Listed
<1>3. PICK g : g = Append(f, x)
  OBVIOUS
<1>4. g = [e \in 1..(l + 1) |-> g[e]] /\ (\A e \in 1..l : g[e] = f[e]) /\ g[l + 1] = x
  BY <1>2, <1>3, ListAppend
<1>5. ASSUME NEW e \in 1..(l + 1) PROVE g[e] = s[a + e].record.id
  <2>1. CASE e = l + 1
    <3>1. a + e = a + l + 1
      BY <2>1
    <3> QED BY <1>1, <1>4, <2>1, <3>1
  <2>2. CASE e # l + 1
    <3>1. e \in 1..l
      BY <2>2
    <3> QED BY <1>2, <1>4, <3>1
  <2> QED BY <2>1, <2>2
<1>6. g = [e \in 1..(l + 1) |-> s[a + e].record.id]
  BY <1>4, <1>5
<1> QED BY <1>1, <1>3, <1>6 DEF Listed

LEMMA SmallerIs ==
  ASSUME NEW m \in Nat, NEW n \in Nat
  PROVE  /\ Smaller(m, n) \in Nat /\ Smaller(m, n) <= m /\ Smaller(m, n) <= n
         /\ Smaller(m, n) \in {m, n}
  BY DEF Smaller

LEMMA GroupIs ==
  ASSUME NEW s, NEW p \in Nat, NEW v, v.parts = Listed(s, 0, p), NEW i \in Nat, i * Fanout < p
  PROVE  Group(v, i) = Listed(s, i * Fanout, Smaller((i + 1) * Fanout, p) - i * Fanout)
<1>1. PICK f : f = v.parts
  OBVIOUS
<1>2. PICK a \in Nat, c \in Nat : a = i * Fanout /\ c = (i + 1) * Fanout
  BY Widths, Times
<1>3. a < c /\ a < p
  BY <1>2, Widths, Times
<1>4. f = [e \in 1..p |-> f[e]] /\ Len(f) = p /\ \A e \in 1..p : f[e] = s[e].record.id
  BY <1>1, ListedFirst
<1>5. PICK b \in Nat : b = Smaller(c, p)
  BY SmallerIs
<1>6. a <= b /\ b <= p
  BY <1>3, <1>5 DEF Smaller
<1>7. SubSeq(f, a + 1, b) = [e \in 1..(b - a) |-> f[a + e]]
  <2>1. f = [e \in 1..p |-> f[e]]
    BY <1>4
  <2> QED BY <1>6, <2>1, ListSub
<1>8. \A e \in 1..(b - a) : f[a + e] = s[a + e].record.id
  <2>1. \A e \in 1..(b - a) : a + e \in 1..p
    BY <1>6
  <2> QED BY <1>4, <2>1
<1>9. SubSeq(f, a + 1, b) = Listed(s, a, b - a)
  BY <1>7, <1>8 DEF Listed
<1>10. Group(v, i) = SubSeq(f, a + 1, b)
  <2>1. Len(f) = p
    BY <1>4
  <2> QED BY <1>1, <1>2, <1>5, <2>1 DEF Group
<1> QED BY <1>2, <1>5, <1>9, <1>10

LEMMA ShapeFirst == ASSUME NEW s PROVE Shape(s, NewValidation, 0, 0, 0)
<1>1. Listed(s, 0, 0) = <<>>
  BY ListedNone
<1> QED BY <1>1 DEF Shape, NewValidation

(* What a step of the validator is about. *)
AdmitsNext(s, n, k, v, u) ==
    /\ Recorded(s, n) /\ k \in Nat /\ k + 1 <= n
    /\ Admitted(v, s[k + 1]) /\ Adds(u, v, s[k + 1])

LEMMA ShapeData ==
  ASSUME NEW s, NEW n, NEW k, NEW v, NEW u, AdmitsNext(s, n, k, v, u), NEW p, NEW l, Shape(s, v, k, p, l),
         s[k + 1].record.kind = "data"
  PROVE  Shape(s, u, k + 1, p + 1, 0)
<1>1. PICK r : r = s[k + 1].record
  OBVIOUS
<1>2. /\ v.ok /\ ~v.root /\ v.leaves = <<>> /\ r.index = Len(v.parts) /\ r.kind = "data"
  BY <1>1 DEF AdmitsNext, Admitted, Fits, AcceptsData
<1>3. p \in Nat /\ l \in Nat /\ k = p + l /\ v.parts = Listed(s, 0, p) /\ v.leaves = Listed(s, p, l)
  BY <1>2 DEF Shape
<1>4. l = 0
  BY <1>2, <1>3, ListedIs
<1>5. k = p
  BY <1>3, <1>4
<1>6. r.index = p
  BY <1>2, <1>3, ListedFirst
<1>7. /\ u.root = FALSE /\ u.parts = Append(v.parts, r.id) /\ u.leaves = v.leaves
  BY <1>1, <1>2 DEF AdmitsNext, Adds
<1>8. u.parts = Listed(s, 0, p + 1)
  <2>1. PICK z \in Nat : z = 0 /\ z + p + 1 = p + 1
    BY <1>3
  <2>2. Append(Listed(s, z, p), s[z + p + 1].record.id) = Listed(s, z, p + 1)
    BY <1>3, ListedMore
  <2>3. r.id = s[p + 1].record.id
    BY <1>1, <1>5
  <2> QED BY <1>3, <1>7, <2>1, <2>2, <2>3
<1>9. u.leaves = Listed(s, p + 1, 0)
  <2>1. PICK a \in Nat : a = p + 1
    BY <1>3
  <2>2. Listed(s, a, 0) = <<>>
    BY ListedNone
  <2> QED BY <1>2, <1>7, <2>1, <2>2
<1>10. \A i \in 1..(p + 1) : DataAt(s, i)
  <2>1. DataAt(s, p + 1)
    BY <1>1, <1>2, <1>3, <1>5, <1>6 DEF DataAt
  <2>2. \A i \in 1..p : DataAt(s, i)
    BY DEF Shape
  <2>3. \A i \in 1..(p + 1) : i \in 1..p \/ i = p + 1
    BY <1>3
  <2> QED BY <2>1, <2>2, <2>3
<1>11. ~u.root /\ u.root \in BOOLEAN
  BY <1>7
<1>12. k + 1 = (p + 1) + 0 + (IF u.root THEN 1 ELSE 0) /\ p + 1 \in Nat /\ 1..0 = {}
  BY <1>3, <1>5, <1>11
<1> QED BY <1>8, <1>9, <1>10, <1>11, <1>12 DEF Shape

LEMMA ShapeLeaf ==
  ASSUME NEW s, NEW n, NEW k, NEW v, NEW u, AdmitsNext(s, n, k, v, u), NEW p, NEW l, Shape(s, v, k, p, l),
         s[k + 1].record.kind = "leaf"
  PROVE  Shape(s, u, k + 1, p, l + 1)
<1>1. PICK r : r = s[k + 1].record
  OBVIOUS
<1>2. /\ v.ok /\ ~v.root /\ r.index = Len(v.leaves) /\ r.kind = "leaf"
      /\ r.index * Fanout < Len(v.parts) /\ r.entries = Group(v, r.index)
  BY <1>1 DEF AdmitsNext, Admitted, Fits, AcceptsLeaf
<1>3. p \in Nat /\ l \in Nat /\ k = p + l /\ v.parts = Listed(s, 0, p) /\ v.leaves = Listed(s, p, l)
  BY <1>2 DEF Shape
<1>4. p + l \in Nat /\ p <= p + l
  BY <1>3
<1>5. Len(v.parts) = p /\ r.index = l
  <2>1. Len(v.parts) = p
    BY <1>3, ListedFirst
  <2>2. Len(v.leaves) = l
    BY <1>3, ListedIs
  <2> QED BY <1>2, <1>3, <2>1, <2>2
<1>6. /\ r.entries = Listed(s, l * Fanout, Smaller((l + 1) * Fanout, p) - l * Fanout)
      /\ l * Fanout < p
  <2>1. l * Fanout < p
    BY <1>2, <1>5
  <2> QED BY <1>2, <1>3, <1>5, <2>1, GroupIs
<1>7. LeafAt(s, p, l + 1)
  <2>1. p + (l + 1) = k + 1 /\ (l + 1) - 1 = l
    BY <1>3
  <2> QED BY <1>1, <1>2, <1>5, <1>6, <2>1 DEF LeafAt
<1>8. /\ u.root = FALSE /\ u.parts = v.parts /\ u.leaves = Append(v.leaves, r.id)
  BY <1>1, <1>2 DEF AdmitsNext, Adds
<1>9. u.leaves = Listed(s, p, l + 1)
  <2>1. Append(Listed(s, p, l), s[p + l + 1].record.id) = Listed(s, p, l + 1)
    BY <1>3, ListedMore
  <2>2. r.id = s[p + l + 1].record.id
    BY <1>1, <1>3
  <2> QED BY <1>3, <1>8, <2>1, <2>2
<1>10. \A j \in 1..(l + 1) : LeafAt(s, p, j)
  <2>1. \A j \in 1..l : LeafAt(s, p, j)
    BY DEF Shape
  <2>2. \A j \in 1..(l + 1) : j \in 1..l \/ j = l + 1
    BY <1>3
  <2> QED BY <1>7, <2>1, <2>2
<1>11. \A i \in 1..p : DataAt(s, i)
  BY DEF Shape
<1>12. ~u.root /\ u.root \in BOOLEAN
  BY <1>8
<1>13. k + 1 = p + (l + 1) + (IF u.root THEN 1 ELSE 0) /\ l + 1 \in Nat
  BY <1>3, <1>12
<1>14. u.parts = Listed(s, 0, p)
  BY <1>3, <1>8
<1> QED BY <1>3, <1>9, <1>10, <1>11, <1>12, <1>13, <1>14 DEF Shape

LEMMA ShapeRoot ==
  ASSUME NEW s, NEW n, NEW k, NEW v, NEW u, AdmitsNext(s, n, k, v, u), NEW p, NEW l, Shape(s, v, k, p, l),
         s[k + 1].record.kind = "root"
  PROVE  Shape(s, u, k + 1, p, l)
<1>1. PICK r : r = s[k + 1].record
  OBVIOUS
<1>2. /\ v.ok /\ ~v.root /\ r.kind = "root" /\ v.leaves # <<>> /\ r.entries = v.leaves
      /\ r.units = v.length /\ Len(v.parts) = Parts(r.units) /\ Len(v.leaves) = Leaves(r.units)
  BY <1>1 DEF AdmitsNext, Admitted, Fits, AcceptsRoot
<1>3. p \in Nat /\ l \in Nat /\ k = p + l /\ v.parts = Listed(s, 0, p) /\ v.leaves = Listed(s, p, l)
  BY <1>2 DEF Shape
<1>4. p + l \in Nat /\ p <= p + l
  BY <1>3
<1>5. Len(v.parts) = p /\ Len(v.leaves) = l
  <2>1. Len(v.parts) = p
    BY <1>3, ListedFirst
  <2>2. Len(v.leaves) = l
    BY <1>3, ListedIs
  <2> QED BY <1>3, <2>1, <2>2
<1>6. l > 0
  <2>1. l # 0
    BY <1>2, <1>3, ListedIs
  <2> QED BY <1>3, <2>1
<1>7. /\ u.root = TRUE /\ u.parts = v.parts /\ u.leaves = v.leaves /\ u.length = v.length
  BY <1>1, <1>2 DEF AdmitsNext, Adds
<1>8. RootAt(s, u, p, l)
  <2>1. p + l + 1 = k + 1
    BY <1>3
  <2> QED BY <1>1, <1>2, <1>3, <1>5, <1>6, <1>7, <2>1 DEF RootAt
<1>9. k + 1 = p + l + 1
  BY <1>3
<1>10. (\A i \in 1..p : DataAt(s, i)) /\ \A j \in 1..l : LeafAt(s, p, j)
  BY DEF Shape
<1> QED BY <1>3, <1>7, <1>8, <1>9, <1>10 DEF Shape

LEMMA ShapeAll ==
  ASSUME NEW s, NEW n, Recorded(s, n), NEW v, Run(s, n, v)
  PROVE  \A k \in 0..n : \E p, l : Shape(s, v[k], k, p, l)
<1>1. n \in Nat
  BY DEF Recorded
<1>2. PICK K : K = {k \in Nat : k <= n => \E p, l : Shape(s, v[k], k, p, l)}
  OBVIOUS
<1>3. 0 \in K
  <2>1. Shape(s, v[0], 0, 0, 0)
    BY ShapeFirst DEF Run
  <2> QED BY <1>2, <2>1
<1>4. ASSUME NEW k \in Nat, k \in K PROVE k + 1 \in K
  <2>1. CASE k + 1 <= n
    <3>1. k + 1 \in 1..n /\ (k + 1) - 1 = k /\ k <= n
      BY <1>1, <2>1
    <3>2. PICK p, l : Shape(s, v[k], k, p, l)
      BY <1>2, <1>4, <3>1
    <3>3. PICK w, u : w = v[k] /\ u = v[k + 1]
      OBVIOUS
    <3>4. AdmitsNext(s, n, k, w, u)
      BY <2>1, <3>1, <3>3 DEF AdmitsNext, Run
    <3>5. s[k + 1].record.kind \in {"data", "leaf", "root"}
      BY <3>1 DEF Recorded, IsRecord
    <3>6. \E q, m : Shape(s, u, k + 1, q, m)
      BY <3>2, <3>3, <3>4, <3>5, ShapeData, ShapeLeaf, ShapeRoot
    <3> QED BY <1>2, <3>3, <3>6
  <2>2. CASE ~(k + 1 <= n)
    BY <1>2, <2>2
  <2> QED BY <2>1, <2>2
<1>5. \A k \in Nat : k \in K
  BY <1>3, <1>4, Inductive
<1> QED BY <1>1, <1>2, <1>5

LEMMA CeilDivIs ==
  ASSUME NEW m \in Nat, NEW d \in Nat \ {0}, NEW q, q = CeilDiv(m, d)
  PROVE  q \in Nat /\ m <= q * d /\ q * d < m + d
<1>1. PICK x \in Nat : x = m + d - 1
  OBVIOUS
<1>2. q = x \div d
  BY <1>1 DEF CeilDiv
<1>3. q \in Nat /\ q * d <= x /\ x < q * d + d
  BY <1>2
<1>4. q * d \in Nat
  BY <1>3
<1> QED BY <1>1, <1>3, <1>4

-----------------------------------------------------------------------------
(* A plan that loads is one tree. *)

Whole(s, n, p, l) ==
    /\ p \in Nat /\ l \in Nat /\ n = p + l + 1
    /\ \A i \in 1..p : DataAt(s, i)
    /\ \A j \in 1..l : LeafAt(s, p, j)
    /\ LET r == s[n].record
       IN  /\ r.kind = "root" /\ r.entries = Listed(s, p, l)
           /\ p = Parts(r.units) /\ l = Leaves(r.units)

LEMMA WholeIs ==
  ASSUME NEW s, NEW n, Recorded(s, n), NEW v, Run(s, n, v), v[n].root
  PROVE  \E p, l : Whole(s, n, p, l) /\ s[n].record.units = v[n].length
<1>1. PICK w : w = v[n]
  OBVIOUS
<1>2. n \in 0..n
  BY DEF Recorded
<1>3. PICK p, l : Shape(s, w, n, p, l)
  BY <1>1, <1>2, ShapeAll
<1>4. w.root
  BY <1>1
<1>5. n = p + l + 1 /\ RootAt(s, w, p, l)
  BY <1>3, <1>4 DEF Shape
<1>6. Whole(s, n, p, l)
  BY <1>3, <1>5 DEF Whole, Shape, RootAt
<1>7. s[n].record.units = w.length
  BY <1>5 DEF RootAt
<1> QED BY <1>1, <1>6, <1>7

(* Where each record is. *)
KindAt(n, p, k) == IF k <= p THEN "data" ELSE IF k = n THEN "root" ELSE "leaf"

Places(s, n, p, l) ==
    /\ n \in Nat /\ p \in Nat /\ l \in Nat /\ n = p + l + 1
    /\ \A k \in 1..n :
          /\ s[k].record.kind = KindAt(n, p, k)
          /\ k <= p => s[k].record.index = k - 1
          /\ k > p /\ k # n => k - p \in 1..l /\ s[k].record.index = k - p - 1

LEMMA WholePlaces ==
  ASSUME NEW s, NEW n, NEW p, NEW l, Whole(s, n, p, l)
  PROVE  Places(s, n, p, l)
<1>1. p \in Nat /\ l \in Nat /\ n = p + l + 1
  BY DEF Whole
<1>2. n \in Nat
  BY <1>1
<1>3. ASSUME NEW k \in 1..n, k <= p
      PROVE  s[k].record.kind = "data" /\ s[k].record.index = k - 1
  <2>1. k \in 1..p
    BY <1>1, <1>2, <1>3
  <2>2. DataAt(s, k)
    BY <2>1 DEF Whole
  <2> QED BY <2>2 DEF DataAt
<1>4. ASSUME NEW k \in 1..n, k > p, k # n
      PROVE  k - p \in 1..l /\ s[k].record.kind = "leaf" /\ s[k].record.index = k - p - 1
  <2>1. k - p \in 1..l /\ p + (k - p) = k
    BY <1>1, <1>4
  <2>2. LeafAt(s, p, k - p)
    BY <2>1 DEF Whole
  <2> QED BY <2>1, <2>2 DEF LeafAt
<1>5. s[n].record.kind = "root"
  BY DEF Whole
<1>6. ASSUME NEW k \in 1..n PROVE s[k].record.kind = KindAt(n, p, k)
  <2>1. CASE k <= p
    BY <1>3, <2>1 DEF KindAt
  <2>2. CASE k > p /\ k # n
    BY <1>1, <1>4, <2>2 DEF KindAt
  <2>3. CASE k > p /\ k = n
    BY <1>1, <1>5, <2>3 DEF KindAt
  <2> QED BY <1>1, <1>2, <2>1, <2>2, <2>3
<1> QED BY <1>1, <1>2, <1>3, <1>4, <1>6 DEF Places

LEMMA WholeInjective ==
  ASSUME NEW s, NEW n \in Nat, Recorded(s, n), NEW p \in Nat, NEW l \in Nat, Whole(s, n, p, l),
         NEW j \in 1..n, NEW k \in 1..n, s[j].record.id = s[k].record.id
  PROVE  j = k
<1>1. PICK kind, index : /\ kind = s[j].record.kind /\ index = s[j].record.index
                         /\ kind = s[k].record.kind /\ index = s[k].record.index
  BY DEF Recorded
<1>2. Places(s, n, p, l)
  BY WholePlaces
<1>3. /\ kind = KindAt(n, p, j)
      /\ j <= p => index = j - 1
      /\ j > p /\ j # n => index = j - p - 1
  BY <1>1, <1>2 DEF Places
<1>4. /\ kind = KindAt(n, p, k)
      /\ k <= p => index = k - 1
      /\ k > p /\ k # n => index = k - p - 1
  BY <1>1, <1>2 DEF Places
<1>5. n > p
  BY <1>2 DEF Places
<1> QED BY <1>3, <1>4, <1>5 DEF KindAt

LEMMA PositionIs ==
  ASSUME NEW x, NEW s, s = x.records, NEW n \in Nat, Recorded(s, n), NEW p \in Nat, NEW l \in Nat, Whole(s, n, p, l),
         NEW k \in 1..n
  PROVE  PositionOf(x, s[k].record.id) = k
<1>1. PICK i : i = s[k].record.id
  OBVIOUS
<1>2. DOMAIN s = 1..n /\ s[k].record.id = i
  BY <1>1 DEF Recorded
<1>3. PICK q : q = PositionOf(x, i)
  OBVIOUS
<1>4. q \in 1..n /\ s[q].record.id = i
  BY <1>2, <1>3 DEF PositionOf
<1>5. q = k
  BY <1>1, <1>4, WholeInjective
<1> QED BY <1>1, <1>3, <1>5

LEMMA ReferencesBack ==
  ASSUME NEW s, NEW n \in Nat, Recorded(s, n), NEW p \in Nat, NEW l \in Nat, Whole(s, n, p, l),
         NEW k \in 1..n, NEW e \in DOMAIN s[k].record.entries
  PROVE  \E j \in 1..(k - 1) :
            /\ s[j].record.id = s[k].record.entries[e]
            /\ s[j].record.kind = IF k = n THEN "leaf" ELSE "data"
<1>1. PICK r : r = s[k].record
  OBVIOUS
<1>0. Places(s, n, p, l)
  BY WholePlaces
<1>2. n = p + l + 1
  BY <1>0 DEF Places
<1>3. CASE k <= p
  <2>1. r.kind = "data"
    BY <1>0, <1>1, <1>3 DEF Places, KindAt
  <2>2. r.entries = <<>>
    BY <1>1, <2>1 DEF Recorded, IsRecord
  <2> QED BY <1>1, <2>2
<1>4. CASE k > p /\ k # n
  <2>1. PICK j \in 1..l : j = k - p
    <3>1. k - p \in 1..l
      BY <1>0, <1>4 DEF Places
    <3> QED BY <3>1
  <2>2. LeafAt(s, p, j) /\ p + j = k
    <3>1. LeafAt(s, p, j)
      BY DEF Whole
    <3> QED BY <2>1, <3>1
  <2>3. PICK a \in Nat, c \in Nat : a = (j - 1) * Fanout /\ c = j * Fanout
    <3>1. j - 1 \in Nat /\ j \in Nat
      OBVIOUS
    <3> QED BY <3>1, Widths, Times
  <2>4. a < p /\ r.entries = Listed(s, a, Smaller(c, p) - a)
    BY <1>1, <2>2, <2>3 DEF LeafAt
  <2>5. PICK b \in Nat : b = Smaller(c, p) /\ b <= p
    BY <1>2, <2>3, SmallerIs
  <2>6. r.entries = [i \in 1..(b - a) |-> s[a + i].record.id]
    BY <2>4, <2>5 DEF Listed
  <2>7. e \in 1..(b - a) /\ r.entries[e] = s[a + e].record.id
    BY <1>1, <2>6
  <2>8. a + e \in 1..n /\ a + e <= p /\ a + e \in 1..(k - 1)
    BY <1>2, <1>4, <2>5, <2>7
  <2>9. s[a + e].record.kind = "data"
    <3>1. PICK i \in 1..n : i = a + e /\ i <= p
      BY <2>8
    <3> QED BY <1>0, <1>2, <3>1 DEF Places, KindAt
  <2> QED BY <1>1, <1>4, <2>7, <2>8, <2>9
<1>5. CASE k = n
  <2>2. r.entries = Listed(s, p, l)
    <3>1. s[n].record.entries = Listed(s, p, l)
      BY DEF Whole
    <3> QED BY <1>1, <1>5, <3>1
  <2>3. r.entries = [i \in 1..l |-> s[p + i].record.id]
    BY <2>2 DEF Listed
  <2>4. e \in 1..l /\ r.entries[e] = s[p + e].record.id
    BY <1>1, <2>3
  <2>5. p + e \in 1..n /\ p + e > p /\ p + e # n /\ p + e \in 1..(k - 1)
    BY <1>2, <1>5, <2>4
  <2>6. s[p + e].record.kind = "leaf"
    <3>1. PICK i \in 1..n : i = p + e /\ i > p /\ i # n
      BY <2>5
    <3> QED BY <1>0, <1>2, <3>1 DEF Places, KindAt
  <2> QED BY <1>1, <1>5, <2>4, <2>5, <2>6
<1> QED BY <1>2, <1>3, <1>4, <1>5

(* The groups of the leaves, joined, are all data parts. *)
LEMMA BelowIs ==
  ASSUME NEW x, NEW s, s = x.records, NEW n \in Nat, Recorded(s, n),
         NEW p \in Nat, NEW l \in Nat, Whole(s, n, p, l)
  PROVE  Followed(x, s[n].record.entries) = Listed(s, 0, p)
<1>1. PICK ids : ids = s[n].record.entries
  OBVIOUS
<1>2. /\ n = p + l + 1 /\ ids = Listed(s, p, l)
      /\ l = Leaves(s[n].record.units) /\ p = Parts(s[n].record.units)
  <2>1. n = p + l + 1
    BY DEF Whole
  <2>2. s[n].record.entries = Listed(s, p, l)
    BY DEF Whole
  <2>3. l = Leaves(s[n].record.units) /\ p = Parts(s[n].record.units)
    BY DEF Whole
  <2> QED BY <1>1, <2>1, <2>2, <2>3
<1>3. ids = [e \in 1..l |-> ids[e]] /\ \A e \in 1..l : ids[e] = s[p + e].record.id
  BY <1>1, <1>2 DEF Listed
<1>4. PICK c : Steps("join", x, <<>>, ids, l, c) /\ Followed(x, ids) = c[l]
  <2>1. DOMAIN ids = 1..l
    BY <1>3
  <2> QED BY <2>1, JoinFold
<1>5. c[0] = <<>>
  BY <1>4 DEF Steps
<1>6. ASSUME NEW j \in 1..l
      PROVE  c[j] = c[j - 1] \o Listed(s, (j - 1) * Fanout, Smaller(j * Fanout, p) - (j - 1) * Fanout)
             /\ (j - 1) * Fanout < p
  <2>1. c[j] = c[j - 1] \o Entries(x, PositionOf(x, ids[j]))
    BY <1>4 DEF Steps, Do
  <2>2. PICK k \in 1..n : k = p + j
    <3>1. n = p + l + 1
      BY <1>2
    <3>2. p + j \in 1..n
      BY <3>1
    <3> QED BY <3>2
  <2>3. PositionOf(x, s[k].record.id) = k
    BY PositionIs
  <2>4. LeafAt(s, p, j)
    BY DEF Whole
  <2>5. Entries(x, k) = Listed(s, (j - 1) * Fanout, Smaller(j * Fanout, p) - (j - 1) * Fanout)
    BY <2>2, <2>4 DEF LeafAt, Entries
  <2>6. (j - 1) * Fanout < p
    BY <2>4 DEF LeafAt
  <2> QED BY <1>3, <2>1, <2>2, <2>3, <2>5, <2>6
<1>7. PICK K : K = {j \in Nat : j <= l => c[j] = Listed(s, 0, Smaller(j * Fanout, p))}
  OBVIOUS
<1>8. 0 \in K
  <2>1. 0 * Fanout = 0 /\ Smaller(0, p) = 0
    BY Widths, Times DEF Smaller
  <2>2. Listed(s, 0, 0) = <<>>
    BY ListedNone
  <2> QED BY <1>5, <1>7, <2>1, <2>2
<1>9. ASSUME NEW j \in Nat, j \in K PROVE j + 1 \in K
  <2>1. CASE j + 1 <= l
    <3>1. j + 1 \in 1..l /\ (j + 1) - 1 = j /\ j <= l
      BY <2>1
    <3>2. PICK a \in Nat, d \in Nat : a = j * Fanout /\ d = (j + 1) * Fanout /\ a <= d
      BY Widths, Times
    <3>3. c[j + 1] = c[j] \o Listed(s, a, Smaller(d, p) - a) /\ a < p
      BY <1>6, <3>1, <3>2
    <3>4. c[j] = Listed(s, 0, a)
      <4>1. Smaller(a, p) = a
        BY <3>2, <3>3 DEF Smaller
      <4> QED BY <1>7, <1>9, <3>1, <3>2, <4>1
    <3>5. PICK z \in Nat : z = Smaller(d, p) /\ a <= z
      BY <3>2, <3>3 DEF Smaller
    <3>6. Listed(s, 0, a) \o Listed(s, a, z - a) = Listed(s, 0, z)
      BY <3>5, ListedJoin
    <3>7. Smaller(d, p) - a = z - a
      BY <3>5
    <3>8. c[j + 1] = Listed(s, 0, a) \o Listed(s, a, z - a)
      BY <3>3, <3>4, <3>7
    <3>9. c[j + 1] = Listed(s, 0, Smaller((j + 1) * Fanout, p))
      BY <3>2, <3>5, <3>6, <3>8
    <3> QED BY <1>7, <3>9
  <2>2. CASE ~(j + 1 <= l)
    BY <1>7, <2>2
  <2> QED BY <2>1, <2>2
<1>10. c[l] = Listed(s, 0, Smaller(l * Fanout, p))
  <2>1. l \in K
    BY <1>8, <1>9, Inductive
  <2> QED BY <1>7, <2>1
<1>11. Smaller(l * Fanout, p) = p
  <2>1. l = CeilDiv(p, Fanout)
    BY <1>2 DEF Leaves
  <2>2. p <= l * Fanout /\ l * Fanout \in Nat
    BY <2>1, Widths, CeilDivIs, Times
  <2> QED BY <2>2 DEF Smaller
<1> QED BY <1>1, <1>4, <1>10, <1>11

(* What the leaves lead to weighs what the root says. *)
LEMMA UnitsAre ==
  ASSUME NEW s, NEW n \in Nat, Recorded(s, n), NEW p \in Nat, NEW l \in Nat, Whole(s, n, p, l),
         NEW v, Run(s, n, v), NEW u, u = [e \in 1..p |-> s[e].record.units]
  PROVE  Total(u) = v[n].length
<1>1. PICK w : Steps("sum", 0, 0, u, p, w) /\ Total(u) = w[p]
  BY SumFold
<1>2. w[0] = 0 /\ \A k \in 1..p : w[k] = w[k - 1] + s[k].record.units
  BY <1>1 DEF Steps, Do
<1>3. n = p + l + 1
  BY DEF Whole
<1>4. v[0].length = 0
  BY DEF Run, NewValidation
<1>5. ASSUME NEW k \in 1..n
      PROVE  v[k].length = IF k <= p THEN v[k - 1].length + s[k].record.units ELSE v[k - 1].length
  <2>1. Adds(v[k], v[k - 1], s[k])
    BY DEF Run
  <2>2. Places(s, n, p, l)
    BY WholePlaces
  <2>3. s[k].record.kind = "data" <=> k <= p
    BY <2>2 DEF Places, KindAt
  <2> QED BY <2>1, <2>3 DEF Adds
<1>6. PICK K : K = {k \in Nat : k <= n => v[k].length = w[Smaller(k, p)]}
  OBVIOUS
<1>7. 0 \in K
  BY <1>2, <1>4, <1>6 DEF Smaller
<1>8. ASSUME NEW k \in Nat, k \in K PROVE k + 1 \in K
  <2>1. CASE k + 1 <= p
    <3>1. k + 1 \in 1..n /\ k + 1 \in 1..p /\ (k + 1) - 1 = k /\ k <= n
      BY <1>3, <2>1
    <3>2. Smaller(k, p) = k /\ Smaller(k + 1, p) = k + 1
      BY <2>1 DEF Smaller
    <3>3. v[k].length = w[k]
      BY <1>6, <1>8, <3>1, <3>2
    <3>4. v[k + 1].length = v[k].length + s[k + 1].record.units
      BY <1>5, <2>1, <3>1
    <3>5. w[k + 1] = w[k] + s[k + 1].record.units
      BY <1>2, <3>1
    <3> QED BY <1>6, <3>2, <3>3, <3>4, <3>5
  <2>2. CASE ~(k + 1 <= p) /\ k + 1 <= n
    <3>1. k + 1 \in 1..n /\ (k + 1) - 1 = k /\ k <= n
      BY <2>2
    <3>2. Smaller(k, p) = p /\ Smaller(k + 1, p) = p
      BY <2>2 DEF Smaller
    <3>3. v[k].length = w[p]
      BY <1>6, <1>8, <3>1, <3>2
    <3>4. v[k + 1].length = v[k].length
      BY <1>5, <2>2, <3>1
    <3> QED BY <1>6, <3>2, <3>3, <3>4
  <2>3. CASE ~(k + 1 <= n)
    BY <1>6, <2>3
  <2> QED BY <2>1, <2>2, <2>3
<1>9. n \in K
  BY <1>7, <1>8, Inductive
<1>10. Smaller(n, p) = p
  BY <1>3 DEF Smaller
<1> QED BY <1>1, <1>6, <1>9, <1>10

Weighs(s, n, v) == s[n].record.units = v[n].length

LEMMA TreeIs ==
  ASSUME NEW x, NEW s, s = x.records, NEW n \in Nat, Recorded(s, n),
         NEW p \in Nat, NEW l \in Nat, Whole(s, n, p, l),
         NEW v, Run(s, n, v), Weighs(s, n, v)
  PROVE  IsTree(x)
<1>1. PICK reached : reached = Followed(x, Entries(x, n))
  OBVIOUS
<1>2. PICK at : at = [e \in DOMAIN reached |-> PositionOf(x, reached[e])]
  OBVIOUS
<1>3. n = p + l + 1 /\ n > 0
  <2>1. n = p + l + 1
    BY DEF Whole
  <2> QED BY <2>1
<1>4. reached = [e \in 1..p |-> s[e].record.id]
  <2>1. reached = Listed(s, 0, p)
    <3>1. Entries(x, n) = s[n].record.entries
      BY DEF Entries
    <3>2. Followed(x, s[n].record.entries) = Listed(s, 0, p)
      BY BelowIs
    <3> QED BY <1>1, <3>1, <3>2
  <2>2. \A e \in 1..p : 0 + e = e
    OBVIOUS
  <2> QED BY <2>1, <2>2 DEF Listed
<1>5. at = [e \in 1..p |-> e]
  <2>1. ASSUME NEW e \in 1..p PROVE PositionOf(x, reached[e]) = e
    <3>1. e \in 1..n /\ reached[e] = s[e].record.id
      BY <1>3, <1>4
    <3> QED BY <3>1, PositionIs
  <2> QED BY <1>2, <1>4, <2>1
<1>6. IsInjective(Ids(x))
  <2>1. PICK f : f = Ids(x)
    OBVIOUS
  <2>2. f = [k \in 1..n |-> s[k].record.id]
    BY <2>1 DEF Ids, Recorded
  <2>3. \A j, k \in 1..n : s[j].record.id = s[k].record.id => j = k
    BY WholeInjective
  <2>5. DOMAIN f = 1..n /\ \A k \in 1..n : f[k] = s[k].record.id
    BY <2>2
  <2>4. \A j, k \in DOMAIN f : f[j] = f[k] => j = k
    BY <2>3, <2>5
  <2> QED BY <2>1, <2>4 DEF IsInjective
<1>7. \A k \in 1..n : s[k].record.kind = IF k <= p THEN "data" ELSE IF k = n THEN "root" ELSE "leaf"
  <2>1. Places(s, n, p, l)
    BY WholePlaces
  <2> QED BY <2>1 DEF Places, KindAt
<1>8. \A k \in 1..n : KindOf(x, k) = "root" <=> k = n
  BY <1>3, <1>7 DEF KindOf
<1>9. \A k \in 1..n : \A e \in DOMAIN Entries(x, k) :
         \E j \in 1..(k - 1) :
            /\ x.records[j].record.id = Entries(x, k)[e]
            /\ KindOf(x, j) = IF k = n THEN "leaf" ELSE "data"
  BY ReferencesBack DEF Entries, KindOf
<1>10. ToSet(at) = {k \in 1..n : KindOf(x, k) = "data"}
  <2>1. ToSet(at) = 1..p
    BY <1>5 DEF ToSet
  <2>2. {k \in 1..n : KindOf(x, k) = "data"} = 1..p
    <3>1. \A k \in 1..n : KindOf(x, k) = "data" <=> k <= p
      BY <1>7 DEF KindOf
    <3>2. 1..p = {k \in 1..n : k <= p}
      BY <1>3
    <3> QED BY <3>1, <3>2
  <2> QED BY <2>1, <2>2
<1>11. \A e, f \in DOMAIN at : e < f => at[e] < at[f]
  BY <1>5
<1>12. Total([e \in DOMAIN at |-> x.records[at[e]].record.units]) = x.records[n].record.units
  <2>1. PICK u : u = [e \in 1..p |-> s[e].record.units]
    OBVIOUS
  <2>2. [e \in DOMAIN at |-> x.records[at[e]].record.units] = u
    BY <1>5, <2>1
  <2>3. Total(u) = v[n].length
    BY <2>1, UnitsAre
  <2> QED BY <2>2, <2>3 DEF Weighs
<1>13. Len(x.records) = n
  BY DEF Recorded
<1> QED BY <1>1, <1>2, <1>3, <1>13, <1>6, <1>8, <1>9, <1>10, <1>11, <1>12 DEF IsTree

LEMMA ChainIs ==
  ASSUME NEW x, NEW s, s = x.records, NEW n \in Nat, Recorded(s, n),
         NEW v, Run(s, n, v)
  PROVE  IsChain(x)
<1>1. ASSUME NEW k \in 2..n
      PROVE  s[k].spends = s[k - 1].record.id /\ s[k].inputs = <<s[k - 1].change>>
  <2>1. PICK j \in 1..n : j = k - 1
    BY <1>1
  <2>2. k \in 1..n
    BY <1>1
  <2>3. PICK u : u = v[j]
    OBVIOUS
  <2>4. u.last = s[j].record.id /\ u.change = s[j].change
    BY <2>3 DEF Run, Adds
  <2>5. u.last # 0
    BY <2>4 DEF Recorded, IsRecord
  <2>6. Funded(u, s[k])
    BY <2>1, <2>2, <2>3 DEF Run, Admitted
  <2> QED BY <2>1, <2>4, <2>5, <2>6 DEF Funded
<1>2. Len(x.records) = n
  BY DEF Recorded
<1> QED BY <1>1, <1>2 DEF IsChain

(* What the validator lets through is a plan. *)
LEMMA ValidIsPlan ==
  ASSUME NEW x, NEW s, s = x.records, NEW n, Recorded(s, n), Validates(x)
  PROVE  IsTree(x) /\ IsChain(x)
<1>1. n \in Nat /\ DOMAIN s = 1..n
  BY DEF Recorded
<1>2. PICK v : Steps("accept", 0, NewValidation, s, n, v) /\ FoldLeft(Accept, NewValidation, s) = v[n]
  BY <1>1, AcceptFold
<1>3. v[n].ok /\ v[n].root
  BY <1>2 DEF Validates
<1>4. Run(s, n, v)
  BY <1>1, <1>2, <1>3, AcceptedAll
<1>5. PICK p, l : Whole(s, n, p, l) /\ s[n].record.units = v[n].length
  BY <1>3, <1>4, WholeIs
<1>6. Weighs(s, n, v)
  BY <1>5 DEF Weighs
<1>7. p \in Nat /\ l \in Nat
  BY <1>5, WholePlaces DEF Places
<1>8. IsTree(x)
  BY <1>1, <1>4, <1>5, <1>6, <1>7, TreeIs
<1>9. IsChain(x)
  BY <1>1, <1>4, ChainIs
<1> QED BY <1>8, <1>9

-----------------------------------------------------------------------------
(* What is funded as quoted is signed to its end. *)

Cost == RecordFee + Retained

LEMMA CostIs == Cost \in Nat \ {0} /\ RecordFee \in Nat \ {0} /\ Retained \in Nat \ {0} /\ InputFee \in Nat /\ MaxInputs \in Nat \ {0}
<1>1. RecordFee \in Nat \ {0} /\ Retained \in Nat \ {0} /\ InputFee \in Nat /\ MaxInputs \in Nat \ {0}
  BY GeometryAssumption
<1>2. RecordFee + Retained \in Nat \ {0}
  BY <1>1
<1> QED BY <1>1, <1>2 DEF Cost

LEMMA TotalOne ==
  ASSUME NEW c \in Int
  PROVE  Total(<<c>>) = c
<1>1. PICK s : s = <<c>>
  OBVIOUS
<1>2. DOMAIN s = 1..1 /\ s[1] = c
  BY <1>1
<1>3. PICK v : Steps("sum", 0, 0, s, 1, v) /\ Total(s) = v[1]
  BY <1>2, SumFold
<1>4. v[0] = 0 /\ v[1] = v[1 - 1] + s[1]
  BY <1>3 DEF Steps, Do
<1>5. v[1] = 0 + c
  BY <1>2, <1>4
<1> QED BY <1>1, <1>3, <1>5

LEMMA CoinIs ==
  ASSUME NEW c \in Int
  PROVE  /\ Len(<<c>>) = 1 /\ Len(<<c>>) \in 1..MaxInputs
         /\ FeeOf(<<c>>) = RecordFee /\ ChangeOf(<<c>>) = c - Cost
<1>1. Len(<<c>>) = 1 /\ Len(<<c>>) \in 1..MaxInputs
  BY CostIs
<1>2. FeeOf(<<c>>) = RecordFee
  <2>1. (1 - 1) * InputFee = 0
    BY CostIs
  <2> QED BY <1>1, <2>1, CostIs DEF FeeOf
<1>3. Total(<<c>>) = c
  BY TotalOne
<1>4. ChangeOf(<<c>>) = c - RecordFee - Retained
  BY <1>2, <1>3 DEF ChangeOf
<1>5. c - RecordFee - Retained = c - Cost
  BY CostIs DEF Cost
<1> QED BY <1>1, <1>2, <1>4, <1>5

IsPlanner(w) ==
    w = [pairs |-> w.pairs, inputs |-> w.inputs, spends |-> w.spends, total |-> w.total, ok |-> w.ok]

CanPrepare(w, maximum) ==
    /\ w.ok
    /\ Len(w.inputs) \in 1..MaxInputs
    /\ ChangeOf(w.inputs) >= Retained
    /\ w.total + FeeOf(w.inputs) <= maximum

Prepares(u, w, record) ==
    /\ u.ok /\ u.pairs = Append(w.pairs, Pair(w, record))
    /\ u.inputs = <<ChangeOf(w.inputs)>> /\ u.spends = record.id
    /\ u.total = w.total + FeeOf(w.inputs)

LEMMA PrepareStep ==
  ASSUME NEW w, IsPlanner(w), NEW record, NEW maximum, NEW u, u = Prepare(w, record, maximum)
  PROVE  /\ IsPlanner(u)
         /\ u.ok => CanPrepare(w, maximum)
         /\ CanPrepare(w, maximum) => Prepares(u, w, record)
<1>1. CASE ~CanPrepare(w, maximum)
  <2>1. u = [w EXCEPT !.ok = FALSE]
    BY <1>1 DEF Prepare, CanPrepare
  <2>2. IsPlanner(u) /\ u.ok = FALSE
    BY <2>1 DEF IsPlanner
  <2> QED BY <1>1, <2>2
<1>2. CASE CanPrepare(w, maximum)
  <2>1. u = [w EXCEPT !.pairs = Append(@, Pair(w, record)),
                      !.inputs = <<ChangeOf(w.inputs)>>,
                      !.spends = record.id,
                      !.total = @ + FeeOf(w.inputs)]
    BY <1>2 DEF Prepare, CanPrepare
  <2>2. IsPlanner(u) /\ u.ok = w.ok
    BY <2>1 DEF IsPlanner
  <2>3. /\ u.pairs = Append(w.pairs, Pair(w, record))
        /\ u.inputs = <<ChangeOf(w.inputs)>> /\ u.spends = record.id
        /\ u.total = w.total + FeeOf(w.inputs)
    BY <2>1 DEF IsPlanner
  <2> QED BY <1>2, <2>2, <2>3 DEF CanPrepare, Prepares
<1> QED BY <1>1, <1>2

(* What funds the next record. *)
SigningRun(s, n, coin, maximum, w) ==
    n \in Nat /\ coin \in Int /\ Steps("prepare", maximum, NewPlanner(<<coin>>), s, n, w)

FundedAfter(n, coin, w) ==
    \A k \in 0..n : IsPlanner(w[k]) /\ (w[k].ok => w[k].inputs = <<coin - k * Cost>>)

LEMMA SigningFunds ==
  ASSUME NEW s, NEW n, NEW coin, NEW maximum, NEW w, SigningRun(s, n, coin, maximum, w)
  PROVE  FundedAfter(n, coin, w)
<1>6. n \in Nat /\ coin \in Int
  BY DEF SigningRun
<1>1. w[0] = NewPlanner(<<coin>>) /\ \A k \in 1..n : w[k] = Prepare(w[k - 1], s[k], maximum)
  BY DEF SigningRun, Steps, Do
<1>2. PICK K : K = {k \in Nat : k <= n => IsPlanner(w[k]) /\ (w[k].ok => w[k].inputs = <<coin - k * Cost>>)}
  OBVIOUS
<1>3. 0 \in K
  <2>1. 0 * Cost = 0 /\ coin - 0 = coin
    BY <1>6, CostIs, Times
  <2> QED BY <1>1, <1>2, <2>1 DEF NewPlanner, IsPlanner
<1>4. ASSUME NEW k \in Nat, k \in K PROVE k + 1 \in K
  <2>1. CASE k + 1 <= n
    <3>1. k + 1 \in 1..n /\ (k + 1) - 1 = k /\ k <= n
      BY <1>6, <2>1
    <3>2. w[k + 1] = Prepare(w[k], s[k + 1], maximum)
      BY <1>1, <3>1
    <3>3. IsPlanner(w[k]) /\ (w[k].ok => w[k].inputs = <<coin - k * Cost>>)
      BY <1>2, <1>4, <3>1
    <3>4. /\ IsPlanner(w[k + 1])
          /\ w[k + 1].ok => CanPrepare(w[k], maximum)
          /\ CanPrepare(w[k], maximum) => Prepares(w[k + 1], w[k], s[k + 1])
      BY <3>2, <3>3, PrepareStep
    <3>5. ASSUME w[k + 1].ok PROVE w[k + 1].inputs = <<coin - (k + 1) * Cost>>
      <4>1. w[k].ok /\ w[k + 1].inputs = <<ChangeOf(w[k].inputs)>>
        BY <3>4, <3>5 DEF CanPrepare, Prepares
      <4>2. PICK c \in Int : c = coin - k * Cost
        BY <1>6, CostIs, Times
      <4>3. ChangeOf(<<c>>) = c - Cost
        BY CoinIs
      <4>4. c - Cost = coin - (k + 1) * Cost
        BY <1>6, <4>2, CostIs, Times
      <4> QED BY <3>3, <4>1, <4>2, <4>3, <4>4
    <3> QED BY <1>2, <3>4, <3>5
  <2>2. CASE ~(k + 1 <= n)
    BY <1>2, <2>2
  <2> QED BY <2>1, <2>2
<1>5. \A k \in Nat : k \in K
  BY <1>3, <1>4, Inductive
<1> QED BY <1>2, <1>5, <1>6 DEF FundedAfter

(* The pair of record k. *)
SignedPair(s, coin, k) ==
    [record |-> s[k], spends |-> k - 1, inputs |-> <<coin - (k - 1) * Cost>>, change |-> coin - k * Cost]

Signed(s, coin, k, w) ==
    /\ w.ok /\ w.total = k * RecordFee /\ w.spends = k
    /\ w.pairs = [j \in 1..k |-> SignedPair(s, coin, j)]

LEMMA SignsAll ==
  ASSUME NEW s, NEW n \in Nat, \A k \in 1..n : s[k].id = k,
         NEW coin \in Int, coin = n * Cost + Retained, NEW maximum, maximum = n * RecordFee, NEW w,
         SigningRun(s, n, coin, maximum, w)
  PROVE  \A k \in 0..n : Signed(s, coin, k, w[k])
<1>1. w[0] = NewPlanner(<<coin>>) /\ \A k \in 1..n : w[k] = Prepare(w[k - 1], s[k], maximum)
  BY DEF SigningRun, Steps, Do
<1>2. PICK K : K = {k \in Nat : k <= n => Signed(s, coin, k, w[k])}
  OBVIOUS
<1>3. 0 \in K
  <2>1. 0 * RecordFee = 0
    BY CostIs
  <2>2. [j \in 1..0 |-> SignedPair(s, coin, j)] = <<>>
    <3>1. PICK g : g = [j \in 1..0 |-> SignedPair(s, coin, j)]
      OBVIOUS
    <3>2. g \in Seq(ToSet(g)) /\ Len(g) = 0
      BY <3>1, ListOf
    <3> QED BY <3>1, <3>2
  <2>3. w[0].ok /\ w[0].total = 0 /\ w[0].spends = 0 /\ w[0].pairs = <<>>
    BY <1>1 DEF NewPlanner
  <2> QED BY <1>2, <2>1, <2>2, <2>3 DEF Signed
<1>4. ASSUME NEW k \in Nat, k \in K PROVE k + 1 \in K
  <2>1. CASE k + 1 <= n
    <3>1. k + 1 \in 1..n /\ (k + 1) - 1 = k /\ k <= n /\ k \in 0..n
      BY <2>1
    <3>2. w[k + 1] = Prepare(w[k], s[k + 1], maximum)
      BY <1>1, <3>1
    <3>3. Signed(s, coin, k, w[k])
      BY <1>2, <1>4, <3>1
    <3>4. IsPlanner(w[k]) /\ w[k].inputs = <<coin - k * Cost>>
      <4>1. w[k].ok
        BY <3>3 DEF Signed
      <4>2. FundedAfter(n, coin, w)
        BY SigningFunds
      <4> QED BY <3>1, <4>1, <4>2 DEF FundedAfter
    <3>5. PICK c \in Int : c = coin - k * Cost
      BY CostIs, Times
    <3>6. /\ Len(<<c>>) \in 1..MaxInputs /\ FeeOf(<<c>>) = RecordFee /\ ChangeOf(<<c>>) = c - Cost
      BY CoinIs
    <3>7. c - Cost = coin - (k + 1) * Cost /\ c - Cost >= Retained
      <4>1. k + 1 \in Nat
        OBVIOUS
      <4>2. (k + 1) * Cost = k * Cost + Cost /\ (k + 1) * Cost <= n * Cost /\ n * Cost \in Nat
            /\ k * Cost \in Nat
        BY <2>1, <4>1, CostIs, Times
      <4> QED BY <3>5, <4>2, CostIs
    <3>8. (k + 1) * RecordFee = k * RecordFee + RecordFee /\ k * RecordFee + RecordFee <= maximum
      <4>1. k + 1 \in Nat
        OBVIOUS
      <4>2. (k + 1) * RecordFee = k * RecordFee + RecordFee /\ (k + 1) * RecordFee <= n * RecordFee
        BY <2>1, <4>1, CostIs, Times
      <4> QED BY <4>2
    <3>9. w[k].ok /\ w[k].total = k * RecordFee /\ w[k].inputs = <<c>>
      BY <3>3, <3>4, <3>5 DEF Signed
    <3>10. CanPrepare(w[k], maximum)
      BY <3>6, <3>7, <3>8, <3>9 DEF CanPrepare
    <3>11. Prepares(w[k + 1], w[k], s[k + 1])
      BY <3>2, <3>4, <3>10, PrepareStep
    <3>12. /\ w[k + 1].ok /\ w[k + 1].total = (k + 1) * RecordFee /\ w[k + 1].spends = k + 1
      BY <3>1, <3>6, <3>8, <3>9, <3>11 DEF Prepares
    <3>13. Pair(w[k], s[k + 1]) = SignedPair(s, coin, k + 1)
      <4>1. w[k].spends = k
        BY <3>3 DEF Signed
      <4>2. Pair(w[k], s[k + 1])
             = [record |-> s[k + 1], spends |-> k, inputs |-> <<c>>, change |-> c - Cost]
        BY <3>6, <3>9, <4>1 DEF Pair
      <4> QED BY <3>1, <3>5, <3>7, <4>2 DEF SignedPair
    <3>14. w[k + 1].pairs = [j \in 1..(k + 1) |-> SignedPair(s, coin, j)]
      <4>1. PICK f : f = w[k].pairs
        OBVIOUS
      <4>2. f = [j \in 1..k |-> f[j]] /\ \A j \in 1..k : f[j] = SignedPair(s, coin, j)
        BY <3>3, <4>1 DEF Signed
      <4>3. PICK y : y = SignedPair(s, coin, k + 1)
        OBVIOUS
      <4>4. PICK g : g = Append(f, y)
        OBVIOUS
      <4>5. g = [j \in 1..(k + 1) |-> g[j]] /\ (\A j \in 1..k : g[j] = f[j]) /\ g[k + 1] = y
        BY <4>2, <4>4, ListAppend
      <4>6. \A j \in 1..(k + 1) : j \in 1..k \/ j = k + 1
        OBVIOUS
      <4>7. \A j \in 1..(k + 1) : g[j] = SignedPair(s, coin, j)
        BY <4>2, <4>3, <4>5, <4>6
      <4>8. w[k + 1].pairs = g
        BY <3>11, <3>13, <4>1, <4>3, <4>4 DEF Prepares
      <4> QED BY <4>5, <4>7, <4>8
    <3> QED BY <1>2, <3>12, <3>14 DEF Signed
  <2>2. CASE ~(k + 1 <= n)
    BY <1>2, <2>2
  <2> QED BY <2>1, <2>2
<1>5. \A k \in Nat : k \in K
  BY <1>3, <1>4, Inductive
<1> QED BY <1>2, <1>5

(* With less it stops before the root. *)
LEMMA SignsNotLess ==
  ASSUME NEW s, NEW n \in Nat, n > 0,
         NEW coin \in Int, coin = n * Cost + Retained - 1, NEW maximum, NEW w,
         SigningRun(s, n, coin, maximum, w)
  PROVE  ~w[n].ok
<1> SUFFICES ASSUME w[n].ok PROVE FALSE
  OBVIOUS
<1>1. PICK k \in Nat : k = n - 1 /\ n = k + 1
  <2>1. n - 1 \in Nat /\ n = (n - 1) + 1
    OBVIOUS
  <2> QED BY <2>1
<1>2. k \in 0..n /\ n \in 1..n
  BY <1>1
<1>3. w[n] = Prepare(w[k], s[n], maximum)
  BY <1>1, <1>2 DEF SigningRun, Steps, Do
<1>4. IsPlanner(w[k]) /\ (w[k].ok => w[k].inputs = <<coin - k * Cost>>)
  <2>1. FundedAfter(n, coin, w)
    BY SigningFunds
  <2> QED BY <1>2, <2>1 DEF FundedAfter
<1>5. CanPrepare(w[k], maximum)
  BY <1>3, <1>4, PrepareStep
<1>6. PICK c \in Int : c = coin - k * Cost
  BY CostIs, Times
<1>7. ChangeOf(<<c>>) = c - Cost
  BY CoinIs
<1>8. c - Cost >= Retained
  BY <1>4, <1>5, <1>6, <1>7 DEF CanPrepare
<1>9. n * Cost = k * Cost + Cost /\ k * Cost \in Nat
  BY <1>1, CostIs, Times
<1> QED BY <1>6, <1>8, <1>9, CostIs

-----------------------------------------------------------------------------
(* What is signed so loads. *)

Geometry(length, n, p, l) ==
    /\ length \in Nat /\ length <= MaxLength /\ n \in Nat /\ p \in Nat /\ l \in Nat
    /\ p > 0 /\ l > 0 /\ n = p + l + 1
    /\ p = Parts(length) /\ l = Leaves(length) /\ n = Nodes(length)
    /\ (p - 1) * PartUnits <= length /\ length <= p * PartUnits
    /\ (l - 1) * Fanout < p /\ p <= l * Fanout

LEMMA GeometryIs ==
  ASSUME NEW length \in 0..MaxLength, NEW n, n = Nodes(length),
         NEW p, p = Parts(length), NEW l, l = Leaves(length)
  PROVE  Geometry(length, n, p, l)
<1>0. MaxLength \in Nat /\ length \in Nat
  BY GeometryAssumption
<1>1. PICK q : q = CeilDiv(length, PartUnits)
  OBVIOUS
<1>2. q \in Nat /\ length <= q * PartUnits /\ q * PartUnits < length + PartUnits
  BY <1>0, <1>1, Widths, CeilDivIs
<1>3. p = IF q > 1 THEN q ELSE 1
  BY <1>1 DEF Parts
<1>4. p \in Nat /\ p > 0
  BY <1>2, <1>3
<1>5. length <= p * PartUnits
  <2>1. q * PartUnits <= p * PartUnits
    BY <1>2, <1>3, <1>4, Widths, Times
  <2>2. q * PartUnits \in Nat /\ p * PartUnits \in Nat
    BY <1>2, <1>4, Widths, Times
  <2> QED BY <1>0, <1>2, <2>1, <2>2
<1>6. (p - 1) * PartUnits <= length
  <2>1. CASE q > 1
    <3>1. PICK m \in Nat : m = q - 1 /\ q = m + 1
      <4>1. q - 1 \in Nat /\ q = (q - 1) + 1
        BY <1>2, <2>1
      <4> QED BY <4>1
    <3>2. q * PartUnits = m * PartUnits + PartUnits /\ m * PartUnits \in Nat
      BY <3>1, Widths, Times
    <3>3. m * PartUnits <= length
      BY <1>0, <1>2, <3>2, Widths
    <3> QED BY <1>3, <2>1, <3>1, <3>3
  <2>2. CASE ~(q > 1)
    <3>1. p - 1 = 0
      BY <1>3, <2>2
    <3>2. 0 * PartUnits = 0
      BY Widths, Times
    <3> QED BY <1>0, <3>1, <3>2
  <2> QED BY <2>1, <2>2
<1>7. l = CeilDiv(p, Fanout)
  BY DEF Leaves
<1>8. l \in Nat /\ p <= l * Fanout /\ l * Fanout < p + Fanout
  BY <1>4, <1>7, Widths, CeilDivIs
<1>9. l > 0
  <2>1. 0 * Fanout = 0
    BY Widths, Times
  <2> QED BY <1>4, <1>8, <2>1
<1>10. (l - 1) * Fanout < p
  <2>1. PICK m \in Nat : m = l - 1 /\ l = m + 1
    <3>1. l - 1 \in Nat /\ l = (l - 1) + 1
      BY <1>8, <1>9
    <3> QED BY <3>1
  <2>2. l * Fanout = m * Fanout + Fanout /\ m * Fanout \in Nat
    BY <2>1, Widths, Times
  <2>3. m * Fanout < p
    BY <1>4, <1>8, <2>2, Widths
  <2> QED BY <2>1, <2>3
<1>11. n = p + l + 1
  BY DEF Nodes
<1>12. n \in Nat /\ length <= MaxLength
  BY <1>0, <1>4, <1>8, <1>11
<1> QED BY <1>0, <1>4, <1>5, <1>6, <1>8, <1>9, <1>10, <1>11, <1>12 DEF Geometry

(* The quoted coin, the records and the pairs that are signed with it. *)
Quoted(length, s, t, n, p, l, coin) ==
    /\ length \in 0..MaxLength /\ n = Nodes(length) /\ p = Parts(length) /\ l = Leaves(length)
    /\ s = [k \in 1..n |-> RecordAt(length, k)]
    /\ coin = n * Cost + Retained
    /\ t = [k \in 1..n |-> SignedPair(s, coin, k)]

LEMMA QuotedIs ==
  ASSUME NEW length, NEW s, NEW t, NEW n, NEW p, NEW l, NEW coin, Quoted(length, s, t, n, p, l, coin)
  PROVE  Geometry(length, n, p, l) /\ coin \in Nat
<1>1. Geometry(length, n, p, l)
  BY GeometryIs DEF Quoted
<1>2. n \in Nat
  BY <1>1 DEF Geometry
<1>3. n * Cost \in Nat
  BY <1>2, CostIs, Times
<1>4. n * Cost + Retained \in Nat
  BY <1>3, CostIs
<1> QED BY <1>1, <1>4 DEF Quoted

DataRecord(length, k) ==
    [id |-> k, kind |-> "data", index |-> k - 1, units |-> PartLength(length, k - 1), entries |-> <<>>]
LeafRecord(length, k, j) ==
    [id |-> k, kind |-> "leaf", index |-> j, units |-> 0,
     entries |-> [e \in 1..LeafEntries(length, j) |-> j * Fanout + e]]
RootRecord(length, k, p, l) ==
    [id |-> k, kind |-> "root", index |-> 0, units |-> length, entries |-> [e \in 1..l |-> p + e]]

LEMMA QuotedRecord ==
  ASSUME NEW length, NEW s, NEW t, NEW n, NEW p, NEW l, NEW coin, Quoted(length, s, t, n, p, l, coin),
         NEW k \in 1..n
  PROVE  /\ t[k] = SignedPair(s, coin, k) /\ t[k].record = s[k] /\ s[k].id = k
         /\ k <= p => s[k] = DataRecord(length, k)
         /\ k > p /\ k # n => s[k] = LeafRecord(length, k, k - p - 1)
         /\ k = n => s[k] = RootRecord(length, k, p, l)
<1>1. Geometry(length, n, p, l)
  BY QuotedIs
<1>2. n \in Nat /\ p \in Nat /\ l \in Nat /\ n = p + l + 1 /\ p = Parts(length) /\ l = Leaves(length)
  BY <1>1 DEF Geometry
<1>3. s[k] = RecordAt(length, k) /\ t[k] = SignedPair(s, coin, k)
  BY DEF Quoted
<1>4. t[k].record = s[k]
  BY <1>3 DEF SignedPair
<1>5. CASE k <= p
  <2>1. s[k] = DataRecord(length, k)
    BY <1>2, <1>3, <1>5 DEF RecordAt, DataRecord
  <2>2. s[k].id = k
    BY <2>1 DEF DataRecord
  <2> QED BY <1>2, <1>3, <1>4, <1>5, <2>1, <2>2
<1>6. CASE k > p /\ k # n
  <2>1. k - p - 1 < l /\ ~(k <= p)
    BY <1>2, <1>6
  <2>2. s[k] = LeafRecord(length, k, k - p - 1)
    BY <1>2, <1>3, <2>1 DEF RecordAt, LeafRecord
  <2>3. s[k].id = k
    BY <2>2 DEF LeafRecord
  <2> QED BY <1>2, <1>3, <1>4, <1>6, <2>2, <2>3
<1>7. CASE k = n
  <2>1. ~(k - p - 1 < l) /\ ~(k <= p)
    BY <1>2, <1>7
  <2>2. s[k] = RootRecord(length, k, p, l)
    BY <1>2, <1>3, <2>1 DEF RecordAt, RootRecord
  <2>3. s[k].id = k
    BY <2>2 DEF RootRecord
  <2> QED BY <1>2, <1>3, <1>4, <1>7, <2>1, <2>2, <2>3
<1> QED BY <1>2, <1>5, <1>6, <1>7

(* What the validator knows of the chain after k pairs. *)
Common(coin, k, v) ==
    /\ IsValidation(v) /\ v.ok /\ v.total = k * RecordFee
    /\ v.last = k /\ (k # 0 => v.change = coin - k * Cost)

Follows(n, k) == n \in Nat /\ k \in Nat /\ k + 1 <= n

LEMMA ChainHolds ==
  ASSUME NEW length, NEW s, NEW t, NEW n, NEW p, NEW l, NEW coin, Quoted(length, s, t, n, p, l, coin),
         NEW k, Follows(n, k), NEW v, Common(coin, k, v), ~v.root,
         NEW pair, pair = t[k + 1], Fits(v, pair.record),
         NEW u, u = Accept(v, pair)
  PROVE  Common(coin, k + 1, u) /\ Adds(u, v, pair)
<1>1. n \in Nat /\ k \in Nat /\ k + 1 <= n /\ k + 1 \in 1..n /\ (k + 1) - 1 = k
  BY DEF Follows
<1>2. coin \in Nat /\ coin = n * Cost + Retained
  BY QuotedIs DEF Quoted
<1>3. PICK m \in Nat, c \in Int, d \in Int :
         m = k + 1 /\ c = coin - k * Cost /\ d = coin - m * Cost
  BY <1>1, <1>2, CostIs, Times
<1>4. d = c - Cost /\ d >= Retained /\ c >= d + Retained
  <2>1. m * Cost = k * Cost + Cost /\ k * Cost \in Nat
    BY <1>1, <1>3, CostIs, Times
  <2>2. m * Cost <= n * Cost
    BY <1>1, <1>3, CostIs, Times
  <2>3. n * Cost \in Nat
    BY <1>1, CostIs, Times
  <2>4. d = c - Cost /\ d >= Retained
    BY <1>2, <1>3, <2>1, <2>2, <2>3, CostIs
  <2>5. Cost >= Retained
    BY CostIs DEF Cost
  <2> QED BY <2>4, <2>5, CostIs
<1>5. pair.record = s[m] /\ pair.record.id = m
  <2>1. m \in 1..n
    BY <1>1, <1>3
  <2> QED BY <1>3, <2>1, QuotedRecord
<1>6. pair.spends = k /\ pair.inputs = <<c>> /\ pair.change = d
  <2>1. pair = SignedPair(s, coin, k + 1)
    BY <1>1, QuotedRecord
  <2>2. pair.spends = (k + 1) - 1
    BY <2>1 DEF SignedPair
  <2>3. pair.inputs = <<coin - ((k + 1) - 1) * Cost>>
    BY <2>1 DEF SignedPair
  <2>4. pair.change = coin - (k + 1) * Cost
    BY <2>1 DEF SignedPair
  <2> QED BY <1>1, <1>3, <2>2, <2>3, <2>4
<1>7. Len(pair.inputs) \in 1..MaxInputs /\ Total(pair.inputs) = c
  BY <1>6, CoinIs, TotalOne
<1>8. Funded(v, pair)
  <2>1. CASE k = 0
    <3>1. v.last = 0
      BY <2>1 DEF Common
    <3> QED BY <1>4, <1>6, <1>7, <3>1 DEF Funded
  <2>2. CASE k # 0
    <3>1. v.last = k /\ v.change = c
      BY <1>3, <2>2 DEF Common
    <3> QED BY <1>4, <1>6, <1>7, <2>2, <3>1 DEF Funded
  <2> QED BY <2>1, <2>2
<1>9. Admitted(v, pair)
  BY <1>8 DEF Admitted, Common
<1>10. IsValidation(u) /\ u.ok /\ Adds(u, v, pair)
  BY <1>9, AcceptStep DEF Common
<1>11. u.total = m * RecordFee
  <2>1. u.total = v.total + Total(pair.inputs) - pair.change - Retained
    BY <1>10 DEF Adds
  <2>2. v.total = k * RecordFee
    BY DEF Common
  <2>3. u.total = k * RecordFee + c - d - Retained
    BY <1>6, <1>7, <2>1, <2>2
  <2>4. m * RecordFee = k * RecordFee + RecordFee /\ k * RecordFee \in Nat
    BY <1>1, <1>3, CostIs, Times
  <2>5. c - d = RecordFee + Retained
    BY <1>4, CostIs DEF Cost
  <2> QED BY <2>3, <2>4, <2>5, CostIs
<1>12. u.last = m /\ u.change = d
  BY <1>5, <1>6, <1>10 DEF Adds
<1>13. Common(coin, m, u)
  BY <1>3, <1>10, <1>11, <1>12 DEF Common
<1> QED BY <1>3, <1>10, <1>13

Before(a, p) == a \in Nat /\ p \in Nat /\ a < p

LEMMA PartSizes ==
  ASSUME NEW length, NEW n, NEW p, NEW l, Geometry(length, n, p, l), NEW a, Before(a, p)
  PROVE  /\ a > 0 => PartLength(length, a - 1) = PartUnits
         /\ Smaller(a * PartUnits, length) + PartLength(length, a) = Smaller((a + 1) * PartUnits, length)
<1>1. a \in Nat /\ p \in Nat /\ a < p /\ length \in Nat /\ (p - 1) * PartUnits <= length
  BY DEF Before, Geometry
<1>2. PICK x \in Nat : x = a * PartUnits
  BY <1>1, Widths, Times
<1>3. x <= length
  <2>1. PICK m \in Nat : m = p - 1 /\ a <= m
    <3>1. p - 1 \in Nat /\ a <= p - 1
      BY <1>1
    <3> QED BY <3>1
  <2>2. a * PartUnits <= m * PartUnits /\ m * PartUnits \in Nat
    BY <1>1, <2>1, Widths, Times
  <2> QED BY <1>1, <1>2, <2>1, <2>2
<1>4. (a + 1) * PartUnits = x + PartUnits
  BY <1>1, <1>2, Widths, Times
<1>5. PartLength(length, a) = Smaller(length - x, PartUnits)
  BY <1>2 DEF PartLength
<1>6. Smaller(x, length) + Smaller(length - x, PartUnits) = Smaller(x + PartUnits, length)
  BY <1>1, <1>3, Widths DEF Smaller
<1>7. ASSUME a > 0 PROVE PartLength(length, a - 1) = PartUnits
  <2>1. PICK m \in Nat : m = a - 1 /\ a = m + 1
    <3>1. a - 1 \in Nat /\ a = (a - 1) + 1
      BY <1>1, <1>7
    <3> QED BY <3>1
  <2>2. PICK y \in Nat : y = m * PartUnits /\ x = y + PartUnits
    BY <1>2, <2>1, Widths, Times
  <2>3. PartLength(length, m) = Smaller(length - y, PartUnits)
    BY <2>2 DEF PartLength
  <2>4. Smaller(length - y, PartUnits) = PartUnits
    BY <1>1, <1>3, <2>2, Widths DEF Smaller
  <2> QED BY <2>1, <2>3, <2>4
<1> QED BY <1>2, <1>4, <1>5, <1>6, <1>7

LEMMA LeafSizes ==
  ASSUME NEW length, NEW n, NEW p, NEW l, Geometry(length, n, p, l), NEW b, Before(b, l)
  PROVE  /\ b * Fanout \in Nat /\ b * Fanout < p /\ (b > 0 => LeafEntries(length, b - 1) = Fanout)
         /\ Smaller((b + 1) * Fanout, p) - b * Fanout = LeafEntries(length, b)
         /\ LeafEntries(length, b) \in Nat /\ b * Fanout + LeafEntries(length, b) <= p
<1>1. /\ b \in Nat /\ l \in Nat /\ b < l /\ p \in Nat /\ (l - 1) * Fanout < p
      /\ p = Parts(length)
  BY DEF Before, Geometry
<1>2. PICK x \in Nat : x = b * Fanout
  BY <1>1, Widths, Times
<1>3. x < p
  <2>1. PICK m \in Nat : m = l - 1 /\ b <= m
    <3>1. l - 1 \in Nat /\ b <= l - 1
      BY <1>1
    <3> QED BY <3>1
  <2>2. b * Fanout <= m * Fanout /\ m * Fanout \in Nat
    BY <1>1, <2>1, Widths, Times
  <2> QED BY <1>1, <1>2, <2>1, <2>2
<1>4. (b + 1) * Fanout = x + Fanout
  BY <1>1, <1>2, Widths, Times
<1>5. LeafEntries(length, b) = Smaller(p - x, Fanout)
  BY <1>1, <1>2 DEF LeafEntries
<1>6. /\ Smaller(x + Fanout, p) - x = Smaller(p - x, Fanout)
      /\ Smaller(p - x, Fanout) \in Nat /\ x + Smaller(p - x, Fanout) <= p
  BY <1>1, <1>3, Widths DEF Smaller
<1>7. ASSUME b > 0 PROVE LeafEntries(length, b - 1) = Fanout
  <2>1. PICK m \in Nat : m = b - 1 /\ b = m + 1
    <3>1. b - 1 \in Nat /\ b = (b - 1) + 1
      BY <1>1, <1>7
    <3> QED BY <3>1
  <2>2. PICK y \in Nat : y = m * Fanout /\ x = y + Fanout
    BY <1>2, <2>1, Widths, Times
  <2>3. LeafEntries(length, m) = Smaller(p - y, Fanout)
    BY <1>1, <2>2 DEF LeafEntries
  <2>4. Smaller(p - y, Fanout) = Fanout
    BY <1>1, <1>3, <2>2, Widths DEF Smaller
  <2> QED BY <2>1, <2>3, <2>4
<1> QED BY <1>2, <1>3, <1>4, <1>5, <1>6, <1>7

(* What the validator knows after a data parts and b leaves. *)
Judged(length, t, coin, p, a, b, v) ==
    /\ Common(coin, a + b, v) /\ ~v.root
    /\ v.parts = Listed(t, 0, a) /\ v.leaves = Listed(t, p, b)
    /\ v.length = Smaller(a * PartUnits, length)
    /\ v.lastPart = (IF a = 0 THEN PartUnits ELSE PartLength(length, a - 1))
    /\ v.lastLeaf = (IF b = 0 THEN Fanout ELSE LeafEntries(length, b - 1))

LEMMA JudgedData ==
  ASSUME NEW length, NEW s, NEW t, NEW n, NEW p, NEW l, NEW coin, Quoted(length, s, t, n, p, l, coin),
         NEW a, Before(a, p), NEW v, Judged(length, t, coin, p, a, 0, v),
         NEW u, u = Accept(v, t[a + 1])
  PROVE  Judged(length, t, coin, p, a + 1, 0, u)
<1>1. Geometry(length, n, p, l)
  BY QuotedIs
<1>2. /\ a \in Nat /\ p \in Nat /\ a < p /\ n \in Nat /\ l \in Nat /\ n = p + l + 1
      /\ a + 0 = a /\ a + 1 \in 1..n /\ a + 1 <= p
  <2>1. a \in Nat /\ p \in Nat /\ a < p
    BY DEF Before
  <2>2. n \in Nat /\ l \in Nat /\ n = p + l + 1
    BY <1>1 DEF Geometry
  <2> QED BY <2>1, <2>2
<1>3. PICK pair, r : pair = t[a + 1] /\ r = pair.record
  OBVIOUS
<1>4. r = DataRecord(length, a + 1) /\ t[a + 1].record.id = a + 1
  BY <1>2, <1>3, QuotedRecord
<1>5. /\ r.kind = "data" /\ r.id = a + 1 /\ r.index = (a + 1) - 1 /\ r.units = PartLength(length, (a + 1) - 1)
  BY <1>4 DEF DataRecord
<1>6. r.index = a /\ r.units = PartLength(length, a)
  BY <1>2, <1>5
<1>7. v.parts = Listed(t, 0, a) /\ v.leaves = <<>> /\ v.lastPart = PartUnits
  <2>1. Listed(t, p, 0) = <<>>
    BY <1>2, ListedNone
  <2>2. a > 0 => PartLength(length, a - 1) = PartUnits
    BY <1>1, PartSizes
  <2> QED BY <1>2, <2>1, <2>2 DEF Judged
<1>8. Len(v.parts) = a
  BY <1>2, <1>7, ListedFirst
<1>9. Fits(v, r)
  BY <1>5, <1>6, <1>7, <1>8 DEF Fits, AcceptsData
<1>10. Common(coin, a, v) /\ ~v.root
  BY <1>2 DEF Judged
<1>11. Common(coin, a + 1, u) /\ Adds(u, v, pair)
  <2>1. Follows(n, a)
    BY <1>2 DEF Follows
  <2> QED BY <1>3, <1>9, <1>10, <2>1, ChainHolds
<1>12. /\ ~u.root /\ u.parts = Append(v.parts, r.id) /\ u.leaves = v.leaves
       /\ u.length = v.length + r.units /\ u.lastPart = r.units /\ u.lastLeaf = v.lastLeaf
  BY <1>3, <1>5, <1>11 DEF Adds
<1>13. u.parts = Listed(t, 0, a + 1)
  <2>1. PICK z \in Nat : z = 0 /\ z + a + 1 = a + 1
    BY <1>2
  <2>2. Append(Listed(t, z, a), t[z + a + 1].record.id) = Listed(t, z, a + 1)
    BY <1>2, ListedMore
  <2> QED BY <1>3, <1>7, <1>12, <2>1, <2>2
<1>14. u.length = Smaller((a + 1) * PartUnits, length)
  <2>1. Smaller(a * PartUnits, length) + PartLength(length, a) = Smaller((a + 1) * PartUnits, length)
    BY <1>1, PartSizes
  <2>2. v.length = Smaller(a * PartUnits, length)
    BY DEF Judged
  <2> QED BY <1>6, <1>12, <2>1, <2>2
<1>15. u.leaves = Listed(t, p, 0) /\ u.lastLeaf = Fanout
  BY <1>12 DEF Judged
<1>16. a + 1 # 0 /\ (a + 1) - 1 = a /\ (a + 1) + 0 = a + 1
  BY <1>2
<1> QED BY <1>6, <1>11, <1>12, <1>13, <1>14, <1>15, <1>16 DEF Judged

LEMMA GroupOfSigned ==
  ASSUME NEW length, NEW s, NEW t, NEW n, NEW p, NEW l, NEW coin, Quoted(length, s, t, n, p, l, coin),
         NEW b, Before(b, l), NEW v, v.parts = Listed(t, 0, p)
  PROVE  Group(v, b) = [e \in 1..LeafEntries(length, b) |-> b * Fanout + e]
<1>1. Geometry(length, n, p, l)
  BY QuotedIs
<1>2. b \in Nat /\ p \in Nat /\ n \in Nat /\ l \in Nat /\ n = p + l + 1
  BY <1>1 DEF Before, Geometry
<1>3. PICK x \in Nat, m \in Nat : x = b * Fanout /\ m = LeafEntries(length, b) /\ x + m <= p /\ x < p
        /\ Smaller((b + 1) * Fanout, p) - b * Fanout = m
  BY <1>1, LeafSizes
<1>4. Group(v, b) = Listed(t, x, m)
  <2>1. b * Fanout < p
    BY <1>3
  <2>2. Group(v, b) = Listed(t, b * Fanout, Smaller((b + 1) * Fanout, p) - b * Fanout)
    BY <1>2, <2>1, GroupIs
  <2> QED BY <1>3, <2>2
<1>5. ASSUME NEW e \in 1..m PROVE t[x + e].record.id = x + e
  <2>1. x + e \in 1..n
    BY <1>2, <1>3
  <2> QED BY <2>1, QuotedRecord
<1>6. Listed(t, x, m) = [e \in 1..m |-> x + e]
  BY <1>5 DEF Listed
<1> QED BY <1>3, <1>4, <1>6

LEMMA JudgedLeaf ==
  ASSUME NEW length, NEW s, NEW t, NEW n, NEW p, NEW l, NEW coin, Quoted(length, s, t, n, p, l, coin),
         NEW b, Before(b, l), NEW v, Judged(length, t, coin, p, p, b, v),
         NEW u, u = Accept(v, t[p + b + 1])
  PROVE  Judged(length, t, coin, p, p, b + 1, u)
<1>1. Geometry(length, n, p, l)
  BY QuotedIs
<1>2. /\ b \in Nat /\ p \in Nat /\ p > 0 /\ n \in Nat /\ l \in Nat /\ n = p + l + 1 /\ b < l
      /\ p + b + 1 \in 1..n /\ p + b + 1 > p /\ p + b + 1 # n /\ (p + b + 1) - p - 1 = b
  <2>1. b \in Nat /\ b < l
    BY DEF Before
  <2>2. n \in Nat /\ l \in Nat /\ p \in Nat /\ p > 0 /\ n = p + l + 1
    BY <1>1 DEF Geometry
  <2> QED BY <2>1, <2>2
<1>3. PICK k \in 1..n : k = p + b + 1
  BY <1>2
<1>4. PICK pair, r : pair = t[k] /\ r = pair.record
  OBVIOUS
<1>5. r = LeafRecord(length, k, b) /\ t[k].record.id = k
  <2>1. k > p /\ k # n /\ k - p - 1 = b
    BY <1>2, <1>3
  <2> QED BY <1>4, <2>1, QuotedRecord
<1>6. r.kind = "leaf" /\ r.id = k /\ r.index = b /\ r.entries = [e \in 1..LeafEntries(length, b) |-> b * Fanout + e]
  BY <1>5 DEF LeafRecord
<1>7. v.parts = Listed(t, 0, p) /\ v.leaves = Listed(t, p, b)
  BY DEF Judged
<1>8. Len(v.parts) = p /\ v.parts # <<>> /\ Len(v.leaves) = b
  <2>1. Len(v.parts) = p /\ (v.parts = <<>> => p = 0)
    BY <1>2, <1>7, ListedFirst
  <2>2. Len(v.leaves) = b
    BY <1>2, <1>7, ListedIs
  <2> QED BY <1>2, <2>1, <2>2
<1>9. b * Fanout < p /\ (b > 0 => LeafEntries(length, b - 1) = Fanout)
  BY <1>1, LeafSizes
<1>10. v.lastLeaf = Fanout
  BY <1>2, <1>9 DEF Judged
<1>11. r.entries = Group(v, b)
  BY <1>6, <1>7, GroupOfSigned
<1>12. Fits(v, r)
  BY <1>6, <1>8, <1>9, <1>10, <1>11 DEF Fits, AcceptsLeaf
<1>13. PICK q \in Nat : q = p + b /\ q + 1 = k /\ Follows(n, q)
  <2>1. p + b \in Nat /\ (p + b) + 1 = k /\ Follows(n, p + b)
    BY <1>2, <1>3 DEF Follows
  <2> QED BY <2>1
<1>14. Common(coin, q, v) /\ ~v.root
  BY <1>13 DEF Judged
<1>15. pair = t[q + 1] /\ u = Accept(v, pair)
  BY <1>3, <1>4, <1>13
<1>16. Common(coin, q + 1, u) /\ Adds(u, v, pair)
  BY <1>4, <1>12, <1>13, <1>14, <1>15, ChainHolds
<1>17. /\ ~u.root /\ u.parts = v.parts /\ u.leaves = Append(v.leaves, r.id)
       /\ u.length = v.length /\ u.lastPart = v.lastPart /\ u.lastLeaf = Len(r.entries)
  BY <1>4, <1>6, <1>16 DEF Adds
<1>18. u.leaves = Listed(t, p, b + 1)
  <2>1. Append(Listed(t, p, b), t[p + b + 1].record.id) = Listed(t, p, b + 1)
    BY <1>2, ListedMore
  <2> QED BY <1>3, <1>4, <1>7, <1>17, <2>1
<1>19. u.lastLeaf = LeafEntries(length, b)
  <2>1. PICK m \in Nat : m = LeafEntries(length, b)
    BY <1>1, LeafSizes
  <2>2. PICK f : f = r.entries
    OBVIOUS
  <2>3. f = [e \in 1..m |-> f[e]]
    BY <1>6, <2>1, <2>2
  <2>4. Len(f) = m
    BY <2>3, ListOf
  <2> QED BY <1>17, <2>1, <2>2, <2>4
<1>20. Common(coin, p + (b + 1), u)
  <2>1. q + 1 = p + (b + 1)
    BY <1>2, <1>13
  <2> QED BY <1>16, <2>1
<1>21. b + 1 # 0 /\ (b + 1) - 1 = b
  BY <1>2
<1>22. /\ u.parts = Listed(t, 0, p)
       /\ u.length = Smaller(p * PartUnits, length)
       /\ u.lastPart = (IF p = 0 THEN PartUnits ELSE PartLength(length, p - 1))
  BY <1>17 DEF Judged
<1> QED BY <1>17, <1>18, <1>19, <1>20, <1>21, <1>22 DEF Judged

LEMMA JudgedRoot ==
  ASSUME NEW length, NEW s, NEW t, NEW n, NEW p, NEW l, NEW coin, Quoted(length, s, t, n, p, l, coin),
         NEW v, Judged(length, t, coin, p, p, l, v), NEW u, u = Accept(v, t[n])
  PROVE  Common(coin, n, u) /\ u.root /\ u.length = length
<1>1. Geometry(length, n, p, l)
  BY QuotedIs
<1>2. /\ n \in Nat /\ l \in Nat /\ p \in Nat /\ p > 0 /\ l > 0 /\ n = p + l + 1
      /\ length \in Nat /\ length <= MaxLength /\ length <= p * PartUnits
      /\ p = Parts(length) /\ l = Leaves(length)
  BY <1>1 DEF Geometry
<1>3. n \in 1..n /\ p * PartUnits \in Nat
  BY <1>2, Widths, Times
<1>4. PICK pair, r : pair = t[n] /\ r = pair.record
  OBVIOUS
<1>5. r = RootRecord(length, n, p, l)
  BY <1>3, <1>4, QuotedRecord
<1>6. r.kind = "root" /\ r.units = length /\ r.entries = [e \in 1..l |-> p + e]
  BY <1>5 DEF RootRecord
<1>7. v.parts = Listed(t, 0, p) /\ v.leaves = Listed(t, p, l)
  BY DEF Judged
<1>8. Len(v.parts) = p /\ v.leaves # <<>> /\ Len(v.leaves) = l
  <2>1. Len(v.parts) = p
    BY <1>2, <1>7, ListedFirst
  <2>2. Len(v.leaves) = l /\ (v.leaves = <<>> => l = 0)
    BY <1>2, <1>7, ListedIs
  <2> QED BY <1>2, <2>1, <2>2
<1>9. r.entries = v.leaves
  <2>1. ASSUME NEW e \in 1..l PROVE t[p + e].record.id = p + e
    <3>1. p + e \in 1..n
      BY <1>2
    <3> QED BY <3>1, QuotedRecord
  <2>2. Listed(t, p, l) = [e \in 1..l |-> p + e]
    BY <2>1 DEF Listed
  <2> QED BY <1>6, <1>7, <2>2
<1>10. v.length = length
  <2>1. v.length = Smaller(p * PartUnits, length)
    BY DEF Judged
  <2> QED BY <1>2, <1>3, <2>1 DEF Smaller
<1>11. v.lastLeaf = LeafEntries(length, l - 1)
  BY <1>2 DEF Judged
<1>12. Fits(v, r)
  BY <1>2, <1>6, <1>8, <1>9, <1>10, <1>11 DEF Fits, AcceptsRoot
<1>13. PICK q \in Nat : q = p + l /\ q + 1 = n /\ Follows(n, q)
  <2>1. p + l \in Nat /\ (p + l) + 1 = n /\ Follows(n, p + l)
    BY <1>2 DEF Follows
  <2> QED BY <2>1
<1>14. Common(coin, q, v) /\ ~v.root
  BY <1>13 DEF Judged
<1>15. pair = t[q + 1] /\ u = Accept(v, pair)
  BY <1>4, <1>13
<1>16. Common(coin, q + 1, u) /\ Adds(u, v, pair)
  BY <1>4, <1>12, <1>13, <1>14, <1>15, ChainHolds
<1>17. u.root /\ u.length = v.length
  BY <1>4, <1>6, <1>16 DEF Adds
<1> QED BY <1>10, <1>13, <1>16, <1>17

LEMMA SignedLoads ==
  ASSUME NEW length, NEW s, NEW t, NEW n, NEW p, NEW l, NEW coin, Quoted(length, s, t, n, p, l, coin),
         NEW v, Steps("accept", 0, NewValidation, t, n, v)
  PROVE  Common(coin, n, v[n]) /\ v[n].root /\ v[n].length = length
<1>1. Geometry(length, n, p, l)
  BY QuotedIs
<1>2. n \in Nat /\ l \in Nat /\ p \in Nat /\ n = p + l + 1 /\ length \in Nat
  BY <1>1 DEF Geometry
<1>3. v[0] = NewValidation /\ \A k \in 1..n : v[k] = Accept(v[k - 1], t[k])
  BY DEF Steps, Do
<1>4. \A a \in Nat : a <= p => Judged(length, t, coin, p, a, 0, v[a])
  <2>1. PICK K : K = {a \in Nat : a <= p => Judged(length, t, coin, p, a, 0, v[a])}
    OBVIOUS
  <2>2. 0 \in K
    <3>1. Common(coin, 0, NewValidation)
      <4>1. 0 * RecordFee = 0
        BY CostIs
      <4> QED BY <4>1 DEF Common, IsValidation, NewValidation
    <3>2. Listed(t, 0, 0) = <<>> /\ Listed(t, p, 0) = <<>>
      BY <1>2, ListedNone
    <3>3. Smaller(0 * PartUnits, length) = 0
      <4>1. 0 * PartUnits = 0
        BY Widths, Times
      <4> QED BY <1>2, <4>1 DEF Smaller
    <3>4. Judged(length, t, coin, p, 0, 0, NewValidation)
      BY <3>1, <3>2, <3>3 DEF Judged, NewValidation
    <3> QED BY <1>3, <2>1, <3>4
  <2>3. ASSUME NEW a \in Nat, a \in K PROVE a + 1 \in K
    <3>1. CASE a + 1 <= p
      <4>1. a + 1 \in 1..n /\ (a + 1) - 1 = a /\ a <= p /\ Before(a, p)
        BY <1>2, <3>1 DEF Before
      <4>2. PICK w, u : w = v[a] /\ u = v[a + 1]
        OBVIOUS
      <4>3. u = Accept(w, t[a + 1])
        BY <1>3, <4>1, <4>2
      <4>4. Judged(length, t, coin, p, a, 0, w)
        BY <2>1, <2>3, <4>1, <4>2
      <4>5. Judged(length, t, coin, p, a + 1, 0, u)
        BY <4>1, <4>3, <4>4, JudgedData
      <4> QED BY <2>1, <4>2, <4>5
    <3>2. CASE ~(a + 1 <= p)
      BY <2>1, <3>2
    <3> QED BY <3>1, <3>2
  <2>4. \A a \in Nat : a \in K
    BY <2>2, <2>3, Inductive
  <2> QED BY <2>1, <2>4
<1>5. \A b \in Nat : b <= l => Judged(length, t, coin, p, p, b, v[p + b])
  <2>1. PICK K : K = {b \in Nat : b <= l => Judged(length, t, coin, p, p, b, v[p + b])}
    OBVIOUS
  <2>2. 0 \in K
    <3>1. p <= p /\ p + 0 = p
      BY <1>2
    <3>2. Judged(length, t, coin, p, p, 0, v[p])
      BY <1>2, <1>4, <3>1
    <3> QED BY <2>1, <3>1, <3>2
  <2>3. ASSUME NEW b \in Nat, b \in K PROVE b + 1 \in K
    <3>1. CASE b + 1 <= l
      <4>1. /\ p + b + 1 \in 1..n /\ (p + b + 1) - 1 = p + b /\ p + (b + 1) = p + b + 1
            /\ b <= l /\ Before(b, l)
        BY <1>2, <3>1 DEF Before
      <4>2. PICK w, u : w = v[p + b] /\ u = v[p + b + 1]
        OBVIOUS
      <4>3. u = Accept(w, t[p + b + 1])
        BY <1>3, <4>1, <4>2
      <4>4. Judged(length, t, coin, p, p, b, w)
        BY <2>1, <2>3, <4>1, <4>2
      <4>5. Judged(length, t, coin, p, p, b + 1, u)
        BY <4>1, <4>3, <4>4, JudgedLeaf
      <4> QED BY <2>1, <4>1, <4>2, <4>5
    <3>2. CASE ~(b + 1 <= l)
      BY <2>1, <3>2
    <3> QED BY <3>1, <3>2
  <2>4. \A b \in Nat : b \in K
    BY <2>2, <2>3, Inductive
  <2> QED BY <2>1, <2>4
<1>6. PICK w, u : w = v[p + l] /\ u = v[n]
  OBVIOUS
<1>7. Judged(length, t, coin, p, p, l, w)
  <2>1. l <= l
    BY <1>2
  <2> QED BY <1>2, <1>5, <1>6, <2>1
<1>8. u = Accept(w, t[n])
  <2>1. n \in 1..n /\ n - 1 = p + l
    BY <1>2
  <2> QED BY <1>3, <1>6, <2>1
<1>9. Common(coin, n, u) /\ u.root /\ u.length = length
  BY <1>7, <1>8, JudgedRoot
<1> QED BY <1>6, <1>9

LEMMA FundingIsExact ==
  ASSUME NEW length \in 0..MaxLength
  PROVE  /\ Signs(length, <<Funding(length)>>, Quote(length))
         /\ ~Signs(length, <<Funding(length) - 1>>, Quote(length))
         /\ Validates(Written(length, <<Funding(length)>>, Quote(length)))
<1>1. PICK n, p, l, s : /\ n = Nodes(length) /\ p = Parts(length) /\ l = Leaves(length)
                        /\ s = [k \in 1..n |-> RecordAt(length, k)]
  OBVIOUS
<1>2. Geometry(length, n, p, l)
  BY <1>1, GeometryIs
<1>3. n \in Nat /\ n > 0
  BY <1>2 DEF Geometry
<1>4. PICK coin \in Nat, maximum \in Nat : coin = n * Cost + Retained /\ maximum = n * RecordFee
  <2>1. n * Cost \in Nat /\ n * RecordFee \in Nat
    BY <1>3, CostIs, Times
  <2>2. n * Cost + Retained \in Nat
    BY <2>1, CostIs
  <2> QED BY <2>1, <2>2
<1>5. Quote(length) = maximum
  BY <1>1, <1>4 DEF Quote
<1>6. Funding(length) = coin
  <2>1. n * (RecordFee + Retained) = n * RecordFee + n * Retained
    BY <1>3, CostIs
  <2>2. (n + 1) * Retained = n * Retained + Retained
    BY <1>3, CostIs, Times
  <2>3. n * RecordFee \in Nat /\ n * Retained \in Nat
    BY <1>3, CostIs, Times
  <2>4. n * Cost = n * RecordFee + n * Retained
    BY <2>1 DEF Cost
  <2>5. Funding(length) = n * RecordFee + (n * Retained + Retained)
    BY <1>1, <2>2 DEF Funding, Quote
  <2> QED BY <1>4, <2>3, <2>4, <2>5, CostIs
<1>7. PICK t : t = [k \in 1..n |-> SignedPair(s, coin, k)]
  OBVIOUS
<1>8. Quoted(length, s, t, n, p, l, coin)
  BY <1>1, <1>4, <1>7 DEF Quoted
<1>9. Planned(length, n, s)
  BY <1>1, <1>3 DEF Planned
<1>10. PICK w : /\ Steps("prepare", maximum, NewPlanner(<<coin>>), s, n, w)
                /\ Signing(length, <<coin>>, maximum) = w[n]
  <2>1. PICK coins : coins = <<coin>>
    OBVIOUS
  <2>2. \E w : Steps("prepare", maximum, NewPlanner(coins), s, n, w) /\ Signing(length, coins, maximum) = w[n]
    BY <1>9, PrepareFold
  <2> QED BY <2>1, <2>2
<1>11. Signed(s, coin, n, w[n])
  <2>1. \A k \in 1..n : s[k].id = k
    BY <1>8, QuotedRecord
  <2>2. SigningRun(s, n, coin, maximum, w)
    BY <1>3, <1>10 DEF SigningRun
  <2>3. n \in 0..n
    BY <1>3
  <2> QED BY <1>3, <1>4, <2>1, <2>2, <2>3, SignsAll
<1>12. Signs(length, <<Funding(length)>>, Quote(length))
  BY <1>5, <1>6, <1>10, <1>11 DEF Signs, Signed
<1>13. ~Signs(length, <<Funding(length) - 1>>, Quote(length))
  <2>1. PICK less \in Int : less = n * Cost + Retained - 1 /\ less = Funding(length) - 1
    <3>1. coin - 1 \in Int
      OBVIOUS
    <3>2. coin - 1 = n * Cost + Retained - 1
      <4>1. n * Cost \in Nat
        BY <1>3, CostIs, Times
      <4> QED BY <1>4, <4>1, CostIs
    <3>3. coin - 1 = Funding(length) - 1
      BY <1>6
    <3> QED BY <3>1, <3>2, <3>3
  <2>2. PICK z : /\ Steps("prepare", maximum, NewPlanner(<<less>>), s, n, z)
                 /\ Signing(length, <<less>>, maximum) = z[n]
    <3>1. PICK coins : coins = <<less>>
      OBVIOUS
    <3>2. \E z : Steps("prepare", maximum, NewPlanner(coins), s, n, z) /\ Signing(length, coins, maximum) = z[n]
      BY <1>9, PrepareFold
    <3> QED BY <3>1, <3>2
  <2>3. SigningRun(s, n, less, maximum, z)
    BY <1>3, <2>2 DEF SigningRun
  <2>4. ~z[n].ok
    BY <1>3, <2>1, <2>3, SignsNotLess
  <2> QED BY <1>5, <2>1, <2>2, <2>4 DEF Signs
<1>14. PICK written : written = Written(length, <<coin>>, maximum)
  OBVIOUS
<1>15. written.records = t /\ written.total = maximum /\ written.maximum = maximum /\ written.root = n
  <2>1. w[n].pairs = t /\ w[n].total = maximum
    BY <1>4, <1>7, <1>11 DEF Signed
  <2>2. Len(t) = n
    <3>1. t = [k \in 1..n |-> t[k]]
      BY <1>7
    <3> QED BY <1>3, <3>1, ListOf
  <2> QED BY <1>10, <1>14, <2>1, <2>2 DEF Written
<1>16. DOMAIN t = 1..n /\ Len(t) = n /\ t # <<>>
  <2>1. t = [k \in 1..n |-> t[k]]
    BY <1>7
  <2>2. Len(t) = n /\ (t = <<>> => n = 0)
    BY <1>3, <2>1, ListOf
  <2> QED BY <1>3, <2>1, <2>2
<1>17. PICK v : Steps("accept", 0, NewValidation, t, n, v) /\ FoldLeft(Accept, NewValidation, t) = v[n]
  BY <1>3, <1>16, AcceptFold
<1>18. Common(coin, n, v[n]) /\ v[n].root /\ v[n].length = length
  BY <1>8, <1>17, SignedLoads
<1>19. v[n].ok /\ v[n].total = maximum /\ v[n].last = n
  BY <1>4, <1>18 DEF Common
<1>20. Validates(written)
  BY <1>1, <1>4, <1>15, <1>16, <1>17, <1>18, <1>19 DEF Validates
<1> QED BY <1>5, <1>6, <1>12, <1>13, <1>14, <1>20

-----------------------------------------------------------------------------
(* Every plan that loads. *)

Loaded == plan \in Plans /\ (pc \notin {"load", "refused"} => Validates(plan))

LEMMA LoadedKept == Loaded /\ [Next]_vars => Loaded'
<1> SUFFICES ASSUME Loaded, [Next]_vars PROVE Loaded'
  OBVIOUS
<1>1. plan' = plan
  BY DEF Next, vars
<1>2. CASE pc \notin {"load", "refused"}
  BY <1>1, <1>2 DEF Loaded
<1>3. CASE Load
  <2>1. pc' \notin {"load", "refused"} => Validates(plan)
    BY <1>3 DEF Load
  <2> QED BY <1>1, <2>1 DEF Loaded
<1>4. CASE pc \in {"load", "refused"} /\ ~Load
  <2>1. ~PassStep
    BY <1>4 DEF PassStep, Inventory, Anchored, WalkCommit, WalkReveal, Look, Accepted, LookAgain,
                NextRecord, Finish, Refused
  <2>2. /\ ~(\E publishing \in BOOLEAN : Begin(publishing)) /\ ~Unavailable /\ ~LookFails
        /\ ~Abort /\ ~TornAppend /\ ~Resume
    BY <1>4 DEF Begin, Unavailable, LookFails, Abort, Active, TornAppend, Resume
  <2>3. ASSUME Step PROVE pc' = pc
    <3>1. (\E S \in SUBSET Waiting : Mine(S) \/ Evict(S)) \/ Reorg \/ \E tx \in Tx : Expire(tx)
      BY <1>4, <2>1, <2>2, <2>3 DEF Step
    <3> QED BY <3>1 DEF Mine, Evict, Reorg, Expire, pass
  <2>4. pc' = pc
    BY <2>3 DEF Next, vars, pass
  <2> QED BY <1>1, <2>4 DEF Loaded
<1> QED BY <1>2, <1>3, <1>4

LEMMA LoadedIsSound == Loaded => PlanSound
<1> SUFFICES ASSUME Loaded PROVE PlanSound
  OBVIOUS
<1>1. PICK s, n : s = plan.records /\ n = Len(s)
  OBVIOUS
<1>2. Recorded(s, n)
  <2>1. /\ s \in Seq(ToSet(s))
        /\ \A k \in DOMAIN s : IsRecord(s[k].record)
        /\ \A j, k \in DOMAIN s : s[j].record.id = s[k].record.id => s[j].record = s[k].record
    BY <1>1, PlansAssumption DEF Loaded
  <2>2. n \in Nat /\ DOMAIN s = 1..n
    BY <1>1, <2>1
  <2> QED BY <1>1, <2>1, <2>2 DEF Recorded
<1>3. LoadedWhole
  <2> SUFFICES ASSUME pc \in {"idle", "loaded"} PROVE IsTree(plan) /\ IsChain(plan)
    BY DEF LoadedWhole
  <2>1. Validates(plan)
    BY DEF Loaded
  <2> QED BY <1>1, <1>2, <2>1, ValidIsPlan
<1>4. FundingExact
  BY FundingIsExact DEF FundingExact
<1> QED BY <1>3, <1>4 DEF PlanSound

(* What loads is one tree over one chain of commits, whatever records it is *)
(* put together from (DiskPlan::validate), and the quoted coin, no less,    *)
(* signs a plan of any length to its end, which then loads (quote.rs,       *)
(* Planner::minimum, DiskWriter::prepare).                                  *)
THEOREM PlansAreSound == Spec => []PlanSound
<1>1. Init => Loaded
  BY DEF Init, Loaded
<1> QED BY <1>1, LoadedKept, LoadedIsSound, PTL DEF Spec
=============================================================================
