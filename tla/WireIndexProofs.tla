-------------------------- MODULE WireIndexProofs --------------------------
(***************************************************************************)
(* What sync persists, for every tree of blocks, every number of threads   *)
(* and every behaviour of the reader: checkpoints that follow each other,  *)
(* and exactly their entries.  The invariant says so of the index in       *)
(* memory too, at every step between two calls of the reader.              *)
(*                                                                         *)
(* And what a clone accepts while the chain moves under it (Recovery), for *)
(* every story of the chain in which hashes commit to what is below them.  *)
(***************************************************************************)
EXTENDS WireIndex, FiniteSetTheorems, TLAPS

(* An index whose checkpoints are linked and whose entries are theirs. *)
Sound(x) == IsIndex(x) /\ Linked(x.blocks) /\ x.entries = EntriesOf(x.blocks)

IInv ==
    /\ TypeOK
    /\ disk = None \/ Sound(disk)
    /\ pc # "off" => Sound(index)

-----------------------------------------------------------------------------
(* The operations on an index. *)

(* The index a first sync starts from is sound. *)
LEMMA EmptySound == Sound(EmptyIndex)
  BY DEF Sound, EmptyIndex, IsIndex, Linked, EntriesOf, Entries

(* An entry of the checkpoints has the height and the block of one of them. *)
LEMMA EntriesAt ==
  ASSUME NEW s, NEW e
  PROVE  e \in EntriesOf(s) <=>
           \E i \in 1..Len(s) : s[i] \in Posts /\ e = [height |-> Start + i - 1, block |-> s[i]]
  BY DEF EntriesOf, Entries

(* Taking a block back keeps an index sound. *)
LEMMA PoppedSound ==
  ASSUME NEW x, Sound(x), x.blocks # <<>>
  PROVE  Sound(Popped(x))
<1> DEFINE s == x.blocks
           t == SubSeq(s, 1, Len(s) - 1)
<1>1. s \in Seq(Blocks) /\ Len(s) \in Nat \ {0} /\ Start \in Nat
  BY WireAssumption DEF Sound, IsIndex
<1>2. t \in Seq(Blocks) /\ Len(t) = Len(s) - 1 /\ \A i \in 1..Len(t) : t[i] = s[i]
  BY <1>1
<1>3. Popped(x) = [blocks |-> t, entries |-> {e \in EntriesOf(s) : e.height < Height(x)}]
  BY DEF Popped, Sound
<1> HIDE DEF t
<1>4. Linked(t)
  <2> SUFFICES ASSUME NEW i \in 2..Len(t) PROVE Prev[t[i]] = t[i - 1]
    BY DEF Linked
  <2>1. i \in 2..Len(s) /\ i \in 1..Len(t) /\ i - 1 \in 1..Len(t)
    BY <1>1, <1>2
  <2> QED BY <1>2, <2>1 DEF Sound, Linked
<1>5. {e \in EntriesOf(s) : e.height < Height(x)} = EntriesOf(t)
  <2>1. ASSUME NEW e \in EntriesOf(s), e.height < Height(x)
        PROVE  e \in EntriesOf(t)
    <3>1. PICK i \in 1..Len(s) : s[i] \in Posts /\ e = [height |-> Start + i - 1, block |-> s[i]]
      BY <2>1, EntriesAt
    <3>2. i \in 1..Len(t)
      BY <1>1, <1>2, <2>1, <3>1 DEF Height
    <3> QED BY <1>2, <3>1, <3>2, EntriesAt
  <2>2. ASSUME NEW e \in EntriesOf(t)
        PROVE  e \in EntriesOf(s) /\ e.height < Height(x)
    <3>1. PICK i \in 1..Len(t) : t[i] \in Posts /\ e = [height |-> Start + i - 1, block |-> t[i]]
      BY <2>2, EntriesAt
    <3>2. i \in 1..Len(s) /\ e.height < Height(x)
      BY <1>1, <1>2, <3>1 DEF Height
    <3> QED BY <1>2, <3>1, <3>2, EntriesAt
  <2> QED BY <2>1, <2>2
<1> QED BY <1>2, <1>3, <1>4, <1>5 DEF Sound, IsIndex

(* Applying a block that follows keeps an index sound. *)
LEMMA PushedSound ==
  ASSUME NEW x, Sound(x), NEW b \in Blocks, Follows(x, b)
  PROVE  Sound(Pushed(x, b))
<1> DEFINE s == x.blocks
           t == Append(s, b)
<1>1. s \in Seq(Blocks) /\ Len(s) \in Nat /\ Start \in Nat
  BY WireAssumption DEF Sound, IsIndex
<1>2. t \in Seq(Blocks) /\ Len(t) = Len(s) + 1 /\ t[Len(t)] = b /\ \A i \in 1..Len(s) : t[i] = s[i]
  BY <1>1
<1>3. Pushed(x, b) = [blocks |-> t, entries |-> EntriesOf(s) \cup Entries(b, Height(x) + 1)]
  BY DEF Pushed, Sound
<1>6. Len(s) # 0 => Prev[b] = s[Len(s)]
  BY <1>1 DEF Follows, Last
<1> HIDE DEF t
<1>4. Linked(t)
  <2> SUFFICES ASSUME NEW i \in 2..Len(t) PROVE Prev[t[i]] = t[i - 1]
    BY DEF Linked
  <2>1. CASE i = Len(t)
    BY <1>1, <1>2, <1>6, <2>1
  <2>2. CASE i # Len(t)
    <3>1. i \in 2..Len(s) /\ i \in 1..Len(s) /\ i - 1 \in 1..Len(s)
      BY <1>1, <1>2, <2>2
    <3> QED BY <1>2, <3>1 DEF Sound, Linked
  <2> QED BY <2>1, <2>2
<1>5. EntriesOf(s) \cup Entries(b, Height(x) + 1) = EntriesOf(t)
  <2>1. ASSUME NEW e \in EntriesOf(s) PROVE e \in EntriesOf(t)
    <3>1. PICK i \in 1..Len(s) : s[i] \in Posts /\ e = [height |-> Start + i - 1, block |-> s[i]]
      BY <2>1, EntriesAt
    <3>2. i \in 1..Len(t) /\ t[i] = s[i]
      BY <1>1, <1>2
    <3> QED BY <3>1, <3>2, EntriesAt
  <2>2. ASSUME NEW e \in Entries(b, Height(x) + 1) PROVE e \in EntriesOf(t)
    <3>1. b \in Posts /\ e = [height |-> Start + Len(t) - 1, block |-> t[Len(t)]]
      BY <1>1, <1>2, <2>2 DEF Entries, Height
    <3>2. Len(t) \in 1..Len(t)
      BY <1>1, <1>2
    <3> QED BY <1>2, <3>1, <3>2, EntriesAt
  <2>3. ASSUME NEW e \in EntriesOf(t)
        PROVE  e \in EntriesOf(s) \cup Entries(b, Height(x) + 1)
    <3>1. PICK i \in 1..Len(t) : t[i] \in Posts /\ e = [height |-> Start + i - 1, block |-> t[i]]
      BY <2>3, EntriesAt
    <3>2. CASE i = Len(t)
      BY <1>1, <1>2, <3>1, <3>2 DEF Entries, Height
    <3>3. CASE i # Len(t)
      <4>1. i \in 1..Len(s) /\ t[i] = s[i]
        BY <1>1, <1>2, <3>3
      <4> QED BY <3>1, <4>1, EntriesAt
    <3> QED BY <3>2, <3>3
  <2> QED BY <2>1, <2>2, <2>3
<1> QED BY <1>2, <1>3, <1>4, <1>5 DEF Sound, IsIndex

-----------------------------------------------------------------------------
(* Steps of the batch. *)

(* Starting over keeps the types. *)
LEMMA NoBatchType ==
  ASSUME NoBatch
  PROVE  /\ {total', cursor', expected'} \subseteq Nat /\ failed' \in BOOLEAN
         /\ next' \in Nat \ {0}
         /\ streamed' \in {"ok", "error"}
         /\ worker' \in [Workers -> Gone .. total' - 1]
         /\ inbox' \in Seq([position : 0 .. total' - 1, block : Blocks \cup {None}])
         /\ DOMAIN waiting' \subseteq 0 .. total' - 1
         /\ waiting' \in [DOMAIN waiting' -> Blocks]
<1>1. DOMAIN waiting' = {} /\ waiting' \in [DOMAIN waiting' -> Blocks]
  BY DEF NoBatch
<1>2. inbox' = <<>> /\ total' = 0 /\ worker' = [w \in Workers |-> Gone]
  BY DEF NoBatch
<1>3. worker' \in [Workers -> Gone .. total' - 1]
  BY <1>2 DEF Gone
<1>4. inbox' \in Seq([position : 0 .. total' - 1, block : Blocks \cup {None}])
  BY <1>2
<1>5. total' = 0 /\ cursor' = 0 /\ expected' = 0 /\ next' = Start
  BY DEF NoBatch
<1>6. {total', cursor', expected'} \subseteq Nat /\ next' \in Nat \ {0}
  BY <1>5, WireAssumption
<1>7. failed' \in BOOLEAN /\ streamed' \in {"ok", "error"}
  BY Zenon DEF NoBatch
<1> QED BY <1>1, <1>2, <1>3, <1>4, <1>6, <1>7

(* Ending a call, by an error, a crash or its result, keeps the invariant. *)
LEMMA OffKeeps ==
  ASSUME IInv, Off, UNCHANGED disk, chain' \in Chains
  PROVE  IInv'
<1>1. pc' = "off" /\ index' = None /\ tip' = 0 /\ disk' = disk /\ NoBatch
  BY DEF Off
<1>2. TypeOK'
  BY <1>1, NoBatchType DEF IInv, TypeOK, IsIndex
<1>3. (disk = None \/ Sound(disk))'
  BY <1>1 DEF IInv, Sound, IsIndex, Linked, EntriesOf, Entries
<1> QED BY <1>1, <1>2, <1>3 DEF IInv

(* An answer put on the channel has the type of the channel. *)
LEMMA AnswerSent ==
  ASSUME NEW w \in Workers, worker[w] \in 0 .. total - 1, NEW x \in Blocks \cup {None},
         inbox \in Seq([position : 0 .. total - 1, block : Blocks \cup {None}]), Send(w, x)
  PROVE  inbox' \in Seq([position : 0 .. total - 1, block : Blocks \cup {None}])
<1> DEFINE A == [position : 0 .. total - 1, block : Blocks \cup {None}]
           r == [position |-> worker[w], block |-> x]
<1>1. inbox \in Seq(A) /\ r \in A
  OBVIOUS
<1>2. inbox' = inbox \/ inbox' = Append(inbox, r)
  BY DEF Send
<1> HIDE DEF A, r
<1>3. inbox' \in Seq(A)
  BY <1>1, <1>2
<1> QED BY <1>3 DEF A

(* A step that leaves the batch alone keeps it, if the files are sound. *)
LEMMA BatchKeeps ==
  ASSUME IInv, UNCHANGED batch, UNCHANGED chain, tip' \in Nat,
         pc' \in {"tip", "rollback", "start", "stream", "apply", "join", "confirm", "return"},
         Sound(index'), disk' = None \/ Sound(disk')
  PROVE  IInv'
  BY DEF IInv, TypeOK, batch, Sound, IsIndex, Linked, EntriesOf, Entries

(* A step of the threads or the collector that leaves index and file alone. *)
LEMMA StreamKeeps ==
  ASSUME IInv, pc # "off", UNCHANGED <<chain, disk, index, tip, next, total>>,
         pc' \in {"stream", "apply", "join", "confirm", "return"},
         {cursor', expected'} \subseteq Nat, failed' \in BOOLEAN, streamed' \in {"ok", "error"},
         worker' \in [Workers -> Gone .. total - 1],
         inbox' \in Seq([position : 0 .. total - 1, block : Blocks \cup {None}]),
         DOMAIN waiting' \subseteq 0 .. total - 1,
         waiting' \in [DOMAIN waiting' -> Blocks]
  PROVE  IInv'
  BY DEF IInv, TypeOK, Sound, IsIndex, Linked, EntriesOf, Entries

-----------------------------------------------------------------------------
(* A first sync, with no file, satisfies the invariant. *)
LEMMA InitInv ==
  ASSUME Init
  PROVE  IInv
<1>1. DOMAIN waiting = {} /\ waiting \in [DOMAIN waiting -> Blocks]
  BY DEF Init
<1>2. inbox = <<>> /\ total = 0 /\ cursor = 0 /\ expected = 0 /\ tip = 0 /\ next = Start
  BY DEF Init
<1>3. worker \in [Workers -> Gone .. total - 1]
  BY DEF Init, Gone
<1>4. inbox \in Seq([position : 0 .. total - 1, block : Blocks \cup {None}])
  BY <1>2
<1>5. {tip, total, cursor, expected} \subseteq Nat /\ next \in Nat \ {0}
  BY <1>2, WireAssumption
<1>6. failed \in BOOLEAN /\ streamed \in {"ok", "error"} /\ chain \in Chains
  BY Zenon DEF Init
<1>7. disk = None /\ index = None /\ pc = "off"
  BY DEF Init
<1> QED BY <1>1, <1>2, <1>3, <1>4, <1>5, <1>6, <1>7 DEF IInv, TypeOK

(* Every step of the caller, a thread, the process and the chain keeps it.   *)
LEMMA StepInv ==
  ASSUME IInv, [Next]_vars
  PROVE  IInv'
<1> USE DEF IInv
<1>0. Start \in Nat \ {0} /\ MaxBlocks \in Nat \ {0}
  BY WireAssumption
<1>1. CASE UNCHANGED vars
  BY <1>1 DEF vars, batch, TypeOK, Sound, IsIndex, Linked, EntriesOf, Entries
<1>2. CASE Open
  <2>1. Sound(index')
    BY <1>2, EmptySound DEF Open, Sound, IsIndex, Linked, EntriesOf, Entries
  <2> QED BY <1>2, <2>1, BatchKeeps DEF Open, TypeOK
<1>3. CASE TipHeight
  <2>1. tip' \in Nat
    BY <1>3, WireAssumption DEF TipHeight, TypeOK
  <2> QED BY <1>3, <2>1, BatchKeeps DEF TipHeight
<1>4. CASE Rollback
  <2>0. pc = "rollback" /\ Sound(index) /\ UNCHANGED chain
    BY <1>4 DEF Rollback
  <2>1. CASE RolledBack
    BY <2>0, <2>1, BatchKeeps DEF RolledBack, TypeOK
  <2>2. CASE /\ index.blocks # <<>> /\ index' = Popped(index)
             /\ UNCHANGED <<disk, pc, tip, batch>>
    BY <2>0, <2>2, PoppedSound, BatchKeeps DEF TypeOK
  <2>3. CASE Off /\ UNCHANGED disk
    BY <2>0, <2>3, OffKeeps DEF TypeOK
  <2> QED BY <1>4, <2>1, <2>2, <2>3 DEF Rollback
<1>5. CASE ConfirmTail
  <2>1. CASE disk' = index /\ pc' = "return" /\ UNCHANGED <<index, tip, batch>>
    BY <1>5, <2>1, BatchKeeps DEF ConfirmTail, TypeOK
  <2>2. CASE Off /\ UNCHANGED disk
    BY <1>5, <2>2, OffKeeps DEF ConfirmTail, TypeOK
  <2> QED BY <1>5, <2>1, <2>2 DEF ConfirmTail
<1>6. CASE Return \/ Stop
  BY <1>6, OffKeeps DEF Return, Stop, TypeOK
<1>7. CASE Joined
  BY <1>7, BatchKeeps DEF Joined, TypeOK
<1>8. CASE Reorg
  BY <1>8 DEF Reorg, batch, TypeOK, Sound, IsIndex, Linked, EntriesOf, Entries
<1>9. CASE StartBatch
  <2>1. pc = "start" /\ Sound(index) /\ tip \in Nat /\ index' = index /\ UNCHANGED <<chain, disk, tip>>
    BY <1>9 DEF StartBatch, TypeOK
  <2>2. Height(index) + 1 \in Nat \ {0}
    BY <1>0, <2>1 DEF Height, Sound, IsIndex
  <2>3. total' \in Nat /\ next' \in Nat \ {0}
    <3>1. /\ next' = Height(index) + 1
          /\ total' = BatchSize
      BY <1>9 DEF StartBatch
    <3>2. Height(index) \in Int
      BY <1>0, <2>1 DEF Height, Sound, IsIndex
    <3> QED BY <1>0, <2>1, <2>2, <3>1, <3>2 DEF BatchSize, Smaller
  <2>4. worker' \in [Workers -> Gone .. total' - 1]
    BY <1>9, <2>3 DEF StartBatch, Ready, Gone
  <2>5. DOMAIN waiting' = {} /\ waiting' \in [DOMAIN waiting' -> Blocks]
    BY <1>9 DEF StartBatch
  <2>6. inbox' = <<>> /\ cursor' = 0 /\ expected' = 0 /\ pc' = "stream"
    BY <1>9 DEF StartBatch
  <2>7. failed' \in BOOLEAN /\ streamed' \in {"ok", "error"}
    BY <1>9, Zenon DEF StartBatch
  <2>8. inbox' \in Seq([position : 0 .. total' - 1, block : Blocks \cup {None}])
    BY <2>6
  <2>9. TypeOK'
    BY <2>1, <2>3, <2>4, <2>5, <2>6, <2>7, <2>8 DEF TypeOK, IsIndex, Sound
  <2>10. (disk = None \/ Sound(disk))' /\ Sound(index)'
    BY <2>1 DEF Sound, IsIndex, Linked, EntriesOf, Entries
  <2> QED BY <2>9, <2>10
<1>10. ASSUME NEW w \in Workers, Take(w) PROVE IInv'
  <2>1. pc # "off" /\ pc' \in {"stream", "apply", "join"}
    BY <1>10 DEF Take, Streaming
  <2>2. cursor' \in Nat /\ worker' \in [Workers -> Gone .. total - 1]
    <3>1. cursor \in Nat /\ total \in Nat /\ worker \in [Workers -> Gone .. total - 1]
      BY DEF TypeOK
    <3>2. \/ cursor' = cursor /\ worker' = [worker EXCEPT ![w] = Gone]
          \/ cursor' = cursor + 1 /\ worker' = [worker EXCEPT ![w] = Taken]
      BY <1>10 DEF Take
    <3>3. {Gone, Taken} \subseteq Gone .. total - 1
      BY <3>1 DEF Taken, Gone
    <3> QED BY <3>1, <3>2, <3>3
  <2> QED BY <1>10, <2>1, <2>2, StreamKeeps DEF Take, TypeOK
<1>11. ASSUME NEW w \in Workers, Fetch(w) PROVE IInv'
  <2>1. pc # "off" /\ pc' \in {"stream", "apply", "join"} /\ worker[w] \in 0 .. total - 1
    BY <1>11 DEF Fetch, Fetching, Streaming, TypeOK, Ready, Gone
  <2>2. chain[next + worker[w]] \in Blocks
    BY <1>11, WireAssumption DEF Fetch, TypeOK
  <2>3. inbox' \in Seq([position : 0 .. total - 1, block : Blocks \cup {None}])
    BY <1>11, <2>1, <2>2, AnswerSent DEF Fetch, TypeOK
  <2>4. worker' \in [Workers -> Gone .. total - 1]
    BY <1>11, <2>1 DEF Fetch, TypeOK, Ready, Gone
  <2> QED BY <1>11, <2>1, <2>3, <2>4, StreamKeeps DEF Fetch, TypeOK
<1>12. ASSUME NEW w \in Workers, FetchFails(w) PROVE IInv'
  <2>1. pc # "off" /\ pc' \in {"stream", "apply", "join"} /\ worker[w] \in 0 .. total - 1
    BY <1>12 DEF FetchFails, Fetching, Streaming, TypeOK, Ready, Gone
  <2>2. inbox' \in Seq([position : 0 .. total - 1, block : Blocks \cup {None}])
    BY <1>12, <2>1, AnswerSent DEF FetchFails, TypeOK
  <2>3. worker' \in [Workers -> Gone .. total - 1]
    BY <1>12, <2>1 DEF FetchFails, TypeOK, Ready, Gone
  <2>4. failed' \in BOOLEAN
    BY <1>12, Zenon DEF FetchFails
  <2> QED BY <1>12, <2>1, <2>2, <2>3, <2>4, StreamKeeps DEF FetchFails, TypeOK
<1>13. CASE Collect
  <2> DEFINE a == Head(inbox)
  <2>1. pc = "stream" /\ inbox # <<>> /\ inbox' = Tail(inbox) /\ pc' \in {"join", "apply"}
    BY <1>13 DEF Collect, Leave
  <2>2. a \in [position : 0 .. total - 1, block : Blocks \cup {None}]
    <3>1. inbox \in Seq([position : 0 .. total - 1, block : Blocks \cup {None}])
      BY DEF TypeOK
    <3> HIDE DEF IInv
    <3> DEFINE A == [position : 0 .. total - 1, block : Blocks \cup {None}]
    <3>2. inbox \in Seq(A)
      BY <3>1
    <3> HIDE DEF A
    <3>3. Head(inbox) \in A
      BY <2>1, <3>2
    <3> QED BY <3>3 DEF A
  <2>3. inbox' \in Seq([position : 0 .. total - 1, block : Blocks \cup {None}])
    BY <2>1 DEF TypeOK
  <2>4. streamed' \in {"ok", "error"}
    BY <1>13 DEF Collect, Leave, TypeOK
  <2>5. CASE a.block = None
    <3>1. UNCHANGED waiting
      BY <1>13, <2>5 DEF Collect
    <3> QED BY <1>13, <2>1, <2>3, <2>4, <3>1, StreamKeeps DEF Collect, TypeOK
  <2>6. CASE a.block # None
    <3>1. waiting' = [p \in DOMAIN waiting \cup {a.position} |->
                        IF p = a.position THEN a.block ELSE waiting[p]]
      BY <1>13, <2>6 DEF Collect
    <3>2. DOMAIN waiting' \subseteq 0 .. total - 1 /\ waiting' \in [DOMAIN waiting' -> Blocks]
      BY <2>2, <2>6, <3>1 DEF TypeOK
    <3> QED BY <1>13, <2>1, <2>3, <2>4, <3>2, StreamKeeps DEF Collect, TypeOK
  <2> QED BY <2>5, <2>6
<1>14. CASE Apply
  <2>0. pc = "apply" /\ Sound(index)
    BY <1>14 DEF Apply
  <2>1. CASE expected \notin DOMAIN waiting
    BY <1>14, <2>0, <2>1, StreamKeeps DEF Apply, TypeOK
  <2>2. CASE expected \in DOMAIN waiting /\ Follows(index, waiting[expected])
    <3>1. /\ index' = Pushed(index, waiting[expected])
          /\ waiting' = [p \in DOMAIN waiting \ {expected} |-> waiting[p]]
          /\ expected' = expected + 1
          /\ UNCHANGED <<chain, disk, tip, next, total, cursor, worker, inbox, pc, failed, streamed>>
      BY <1>14, <2>2 DEF Apply
    <3>2. Sound(index')
      BY <2>0, <2>2, <3>1, PushedSound DEF TypeOK
    <3>3. DOMAIN waiting' \subseteq 0 .. total - 1 /\ waiting' \in [DOMAIN waiting' -> Blocks]
      BY <3>1 DEF TypeOK
    <3>4. TypeOK'
      BY <2>0, <3>1, <3>2, <3>3 DEF TypeOK, Sound, IsIndex
    <3>5. (disk = None \/ Sound(disk))' /\ Sound(index)'
      BY <3>1, <3>2 DEF Sound, IsIndex, Linked, EntriesOf, Entries
    <3> QED BY <3>4, <3>5
  <2>3. CASE expected \in DOMAIN waiting /\ ~Follows(index, waiting[expected])
    <3>1. failed' \in BOOLEAN /\ pc' = "join" /\ streamed' = "error"
      BY <1>14, <2>3, Zenon DEF Apply, Leave
    <3> QED BY <1>14, <2>0, <2>3, <3>1, StreamKeeps DEF Apply, TypeOK
  <2> QED BY <2>1, <2>2, <2>3
<1>15. CASE ApplyFails
  <2>1. failed' \in BOOLEAN /\ pc' = "join" /\ streamed' = "error"
    BY <1>15, Zenon DEF ApplyFails, Leave
  <2> QED BY <1>15, <2>1, StreamKeeps DEF ApplyFails, TypeOK
<1> QED
  BY <1>1, <1>2, <1>3, <1>4, <1>5, <1>6, <1>7, <1>8, <1>9, <1>10, <1>11, <1>12, <1>13, <1>14, <1>15
  DEF Next, Caller, Thread

(* Every reachable state of sync satisfies the invariant. *)
THEOREM Invariant == Spec => []IInv
<1>1. Init => IInv
  BY InitInv
<1>2. IInv /\ [Next]_vars => IInv'
  BY StepInv
<1> QED BY <1>1, <1>2, PTL DEF Spec

(* Checkpoints, answers and positions keep their types, for any number of   *)
(* threads and any batch size.                                              *)
THEOREM WireTypes == Spec => []TypeOK
<1>1. IInv => TypeOK
  BY DEF IInv
<1> QED BY <1>1, Invariant, PTL

(* However the reader changes chain between its answers, and whichever      *)
(* order the threads answer in, what sync persists is one chain.            *)
THEOREM PersistedChain == Spec => []OneChain
<1>1. IInv => OneChain
  BY DEF IInv, Sound, OneChain
<1> QED BY <1>1, Invariant, PTL

(* The persisted entries are exactly those of the persisted checkpoints,    *)
(* after any sequence of batches, rollbacks, failures and crashes.          *)
THEOREM PersistedEntries == Spec => []EntriesExact
<1>1. IInv => EntriesExact
  BY DEF IInv, Sound, EntriesExact
<1> QED BY <1>1, Invariant, PTL

-----------------------------------------------------------------------------
(* The batch: which heights are still on their way. *)

Answered(p) == \E i \in 1..Len(inbox) : inbox[i].position = p
Refused == \E i \in 1..Len(inbox) : inbox[i].block = None
Covered(p) ==
    p < expected \/ p \in DOMAIN waiting \/ Answered(p) \/ \E w \in Workers : worker[w] = p

(* While the collector works, every position that a thread has taken is     *)
(* applied, waiting, answered or being fetched; and a position that nobody  *)
(* has taken will be, or an error is on the channel.                        *)
Accounted ==
    /\ streamed = "ok" /\ Height(index) = next + expected - 1 /\ expected <= total
    /\ \A p \in 0 .. total - 1 : p < cursor => Covered(p)
    /\ cursor < total => Refused \/ \E w \in Workers : worker[w] # Gone
    /\ failed => Refused

BInv ==
    /\ pc \in {"stream", "apply"} => Accounted
    /\ pc = "stream" => expected \notin DOMAIN waiting
    /\ pc = "join" => streamed = "error"
    /\ pc \in {"confirm", "return"} /\ streamed = "ok" => Height(index) = next + total - 1

(* A batch with heights has threads. *)
LEMMA ThreadsExist ==
  ASSUME NEW T \in SUBSET Workers, NEW n \in Nat \ {0},
         Cardinality(T) = Smaller(Cardinality(Workers), n)
  PROVE  T # {}
<1>1. IsFiniteSet(Workers) /\ Workers # {}
  BY WireAssumption
<1>2. Cardinality(Workers) \in Nat /\ Cardinality(Workers) # 0
  BY <1>1, FS_CardinalityType, FS_EmptySet
<1>3. Cardinality(T) # 0
  BY <1>2 DEF Smaller
<1> QED BY <1>3, FS_EmptySet

(* A thread that reports passes its position on to the channel. *)
LEMMA SendAccounted ==
  ASSUME IInv, BInv, NEW w \in Workers, NEW x, Fetching(w), Send(w, x),
         worker' = [worker EXCEPT ![w] = Ready] \/ x = None,
         \A v \in Workers : v # w => worker'[v] = worker[v],
         failed' = failed \/ x = None,
         UNCHANGED <<index, pc, next, total, cursor, waiting, expected, streamed>>
  PROVE  BInv'
<1>1. CASE pc = "join"
  BY <1>1 DEF BInv
<1>2. CASE pc \in {"stream", "apply"}
  <2> DEFINE r == [position |-> worker[w], block |-> x]
  <2>1. Accounted /\ TypeOK
    BY <1>2 DEF BInv, IInv
  <2>2. inbox' = Append(inbox, r)
    BY <1>2 DEF Send
  <2>3. /\ Len(inbox) \in Nat /\ Len(inbox') = Len(inbox) + 1
        /\ inbox'[Len(inbox) + 1] = r /\ \A i \in 1..Len(inbox) : inbox'[i] = inbox[i]
    BY <2>1, <2>2 DEF TypeOK
  <2>4. Len(inbox) + 1 \in 1..Len(inbox') /\ 1..Len(inbox) \subseteq 1..Len(inbox')
    BY <2>3
  <2>5. Refused => Refused'
    BY <2>3, <2>4 DEF Refused
  <2>6. x = None => Refused'
    BY <2>3, <2>4 DEF Refused
  <2>7. \A p : Answered(p) => Answered(p)'
    BY <2>3, <2>4 DEF Answered
  <2>8. \A p : worker[w] = p => Answered(p)'
    <3>1. inbox'[Len(inbox) + 1].position = worker[w]
      BY <2>3
    <3> QED BY <2>4, <3>1 DEF Answered
  <2>9. ASSUME NEW p \in 0 .. total - 1, p < cursor PROVE Covered(p)'
    <3>1. Covered(p)
      BY <2>1, <2>9 DEF Accounted
    <3>2. ASSUME NEW v \in Workers, worker[v] = p PROVE Answered(p)' \/ worker'[v] = p
      BY <2>8, <3>2
    <3> QED BY <2>7, <3>1, <3>2 DEF Covered
  <2>10. Refused' \/ \E v \in Workers : worker'[v] # Gone
    <3>1. CASE x = None
      BY <2>6, <3>1
    <3>2. CASE worker' = [worker EXCEPT ![w] = Ready]
      <4>1. worker'[w] = Ready
        BY <2>1, <3>2 DEF TypeOK
      <4> QED BY <4>1 DEF Ready, Gone
    <3> QED BY <3>1, <3>2
  <2>11. /\ streamed' = "ok" /\ Height(index)' = next' + expected' - 1 /\ expected' <= total'
         /\ failed' => Refused'
    BY <2>1, <2>5, <2>6 DEF Accounted, Height
  <2>12. Accounted'
    BY <2>9, <2>10, <2>11 DEF Accounted
  <2> QED BY <1>2, <2>12 DEF BInv
<1> QED BY <1>1, <1>2 DEF Fetching, Streaming

(* The threads and the collector keep account of every position. *)
LEMMA StepAccounted ==
  ASSUME IInv, BInv, [Next]_vars
  PROVE  BInv'
<1>0. Start \in Nat \ {0} /\ MaxBlocks \in Nat \ {0} /\ Gone = -2 /\ Ready = -1
  BY WireAssumption DEF Gone, Ready
<1>t. TypeOK
  BY DEF IInv
<1>n. {cursor, total, expected} \subseteq Nat /\ next \in Nat
  BY <1>t DEF TypeOK
<1>1. CASE UNCHANGED vars \/ Reorg
  BY <1>1 DEF vars, Reorg, batch, BInv, Accounted, Refused, Covered, Answered, Height
<1>2. CASE pc' \in {"off", "tip", "rollback", "start"}
  BY <1>2 DEF BInv
<1>3. CASE Open \/ TipHeight \/ Rollback \/ Return \/ Stop
  <2>1. pc' \in {"off", "tip", "rollback", "start"}
    BY <1>3 DEF Open, TipHeight, Rollback, RolledBack, Return, Stop, Off
  <2> QED BY <1>2, <2>1
<1>4. CASE ConfirmTail
  <2>1. \/ pc' = "off"
        \/ pc = "confirm" /\ pc' = "return" /\ UNCHANGED <<index, batch>>
    BY <1>4 DEF ConfirmTail, Off
  <2> QED BY <1>2, <2>1 DEF BInv, batch, Height
<1>5. CASE StartBatch
  <2>1. /\ pc' = "stream" /\ streamed' = "ok" /\ failed' = FALSE /\ inbox' = <<>>
        /\ cursor' = 0 /\ expected' = 0 /\ next' = Height(index) + 1 /\ index' = index
    BY <1>5 DEF StartBatch
  <2>2. DOMAIN waiting' = {}
    BY <1>5 DEF StartBatch
  <2>3. Height(index) \in Int /\ Height(index)' = Height(index)
    BY <1>0, <1>5, <2>1 DEF StartBatch, IInv, Sound, IsIndex, Height
  <2>4. total' \in Nat
    <3>1. total' = BatchSize
      BY <1>5 DEF StartBatch
    <3>2. tip \in Nat
      BY <1>t DEF TypeOK
    <3> QED BY <1>0, <2>3, <3>1, <3>2 DEF BatchSize, Smaller
  <2>5. cursor' < total' => \E w \in Workers : worker'[w] # Gone
    <3> SUFFICES ASSUME cursor' < total' PROVE \E w \in Workers : worker'[w] # Gone
      OBVIOUS
    <3>1. PICK T \in SUBSET Workers :
            /\ Cardinality(T) = Smaller(Cardinality(Workers), total')
            /\ worker' = [w \in Workers |-> IF w \in T THEN Ready ELSE Gone]
      BY <1>5 DEF StartBatch
    <3>2. total' \in Nat \ {0}
      BY <2>1, <2>4
    <3>3. T # {}
      BY <3>1, <3>2, ThreadsExist
    <3> QED BY <1>0, <3>1, <3>3
  <2>6. Accounted'
    <3>1. Height(index)' = next' + expected' - 1 /\ expected' <= total'
      BY <2>1, <2>3, <2>4
    <3>2. \A p \in 0 .. total' - 1 : ~(p < cursor')
      BY <2>1, <2>4
    <3> QED BY <2>1, <2>5, <3>1, <3>2 DEF Accounted
  <2> QED BY <2>1, <2>2, <2>6 DEF BInv
<1>6. ASSUME NEW w \in Workers, Take(w) PROVE BInv'
  <2>1. /\ Streaming /\ worker[w] = Ready
        /\ UNCHANGED <<index, pc, next, total, failed, inbox, waiting, expected, streamed>>
    BY <1>6 DEF Take
  <2>2. CASE pc = "join"
    BY <2>1, <2>2 DEF BInv
  <2>3. CASE pc \in {"stream", "apply"}
    <3>1. Accounted
      BY <2>3 DEF BInv
    <3>2. \A v \in Workers : v # w => worker'[v] = worker[v]
      BY <1>6, <1>t DEF Take, TypeOK
    <3>3. (Refused <=> Refused') /\ (\A p : Answered(p) <=> Answered(p)')
      BY <2>1 DEF Refused, Answered
    <3>4. \/ failed /\ cursor' = cursor
          \/ cursor' = cursor + 1 /\ worker'[w] = Taken
      BY <1>6, <1>t DEF Take, TypeOK
    <3>5. ASSUME NEW p \in 0 .. total - 1, p < cursor' PROVE Covered(p)'
      <4>1. CASE p < cursor
        <5>1. Covered(p)
          BY <3>1, <4>1 DEF Accounted
        <5>2. ASSUME NEW v \in Workers, worker[v] = p PROVE worker'[v] = p
          BY <1>0, <2>1, <3>2, <5>2
        <5> QED BY <2>1, <3>3, <5>1, <5>2 DEF Covered
      <4>2. CASE ~(p < cursor)
        <5>1. worker'[w] = p
          BY <1>n, <3>4, <3>5, <4>2 DEF Taken
        <5> QED BY <5>1 DEF Covered
      <4> QED BY <4>1, <4>2
    <3>6. cursor' < total => Refused \/ \E v \in Workers : worker'[v] # Gone
      <4>1. CASE failed
        BY <3>1, <4>1 DEF Accounted
      <4>2. CASE ~failed /\ cursor' < total
        BY <1>0, <1>n, <3>4, <4>2 DEF Taken
      <4> QED BY <4>1, <4>2
    <3>7. Accounted'
      <4>1. /\ streamed' = "ok" /\ Height(index)' = next' + expected' - 1 /\ expected' <= total'
            /\ failed' => Refused'
        BY <2>1, <3>1, <3>3 DEF Accounted, Height
      <4> QED BY <2>1, <3>3, <3>5, <3>6, <4>1 DEF Accounted
    <3> QED BY <2>1, <2>3, <3>7 DEF BInv
  <2> QED BY <2>1, <2>2, <2>3 DEF Streaming
<1>7. ASSUME NEW w \in Workers, Fetch(w) PROVE BInv'
  <2>1. \A v \in Workers : v # w => worker'[v] = worker[v]
    BY <1>7, <1>t DEF Fetch, TypeOK
  <2>2. CASE pc = "join"
    BY <1>7, <2>2 DEF Fetch, BInv
  <2>3. CASE pc # "join"
    BY <1>7, <2>1, <2>3, SendAccounted DEF Fetch
  <2> QED BY <2>2, <2>3
<1>8. ASSUME NEW w \in Workers, FetchFails(w) PROVE BInv'
  <2>1. \A v \in Workers : v # w => worker'[v] = worker[v]
    BY <1>8, <1>t DEF FetchFails, TypeOK
  <2> QED BY <1>8, <2>1, SendAccounted DEF FetchFails
<1>9. CASE Collect
  <2> DEFINE a == Head(inbox)
  <2>1. /\ pc = "stream" /\ inbox # <<>> /\ inbox' = Tail(inbox) /\ Accounted
        /\ UNCHANGED <<index, next, total, cursor, failed, worker, expected>>
    BY <1>9 DEF Collect, BInv
  <2>2. CASE a.block = None
    BY <1>9, <2>2 DEF Collect, Leave, BInv
  <2>3. CASE a.block # None
    <3>1. /\ pc' = "apply" /\ streamed' = streamed
          /\ DOMAIN waiting' = DOMAIN waiting \cup {a.position}
      BY <1>9, <2>3 DEF Collect
    <3>2. /\ Len(inbox) \in Nat \ {0} /\ Len(inbox') = Len(inbox) - 1 /\ inbox[1] = a
          /\ \A i \in 1..Len(inbox') : inbox'[i] = inbox[i + 1]
      BY <1>t, <2>1 DEF TypeOK
    <3>3. \A i \in 1..Len(inbox) : i = 1 \/ (i - 1 \in 1..Len(inbox') /\ inbox'[i - 1] = inbox[i])
      BY <3>2
    <3>4. Refused => Refused'
      BY <2>3, <3>2, <3>3 DEF Refused
    <3>5. ASSUME NEW p, Covered(p) PROVE Covered(p)'
      <4>1. ASSUME NEW i \in 1..Len(inbox), inbox[i].position = p
            PROVE  Answered(p)' \/ p \in DOMAIN waiting'
        BY <3>1, <3>2, <3>3, <4>1 DEF Answered
      <4>2. Answered(p) => Answered(p)' \/ p \in DOMAIN waiting'
        BY <4>1 DEF Answered
      <4> QED BY <2>1, <3>1, <3>5, <4>2 DEF Covered
    <3>6. Accounted'
      BY <2>1, <3>1, <3>4, <3>5 DEF Accounted, Height
    <3> QED BY <3>1, <3>6 DEF BInv
  <2> QED BY <2>2, <2>3
<1>10. CASE Apply
  <2>1. /\ pc = "apply" /\ Accounted
        /\ UNCHANGED <<next, total, cursor, worker, inbox>>
    BY <1>10 DEF Apply, BInv
  <2>2. CASE expected \notin DOMAIN waiting
    <3>1. pc' = "stream" /\ UNCHANGED <<index, failed, waiting, expected, streamed>>
      BY <1>10, <2>2 DEF Apply
    <3>2. Accounted'
      BY <2>1, <3>1 DEF Accounted, Refused, Covered, Answered, Height
    <3> QED BY <2>2, <3>1, <3>2 DEF BInv
  <2>3. CASE expected \in DOMAIN waiting /\ Follows(index, waiting[expected])
    <3>1. /\ index' = Pushed(index, waiting[expected])
          /\ DOMAIN waiting' = DOMAIN waiting \ {expected}
          /\ expected' = expected + 1
          /\ UNCHANGED <<pc, failed, streamed>>
      BY <1>10, <2>3 DEF Apply
    <3>2. Height(index)' = Height(index) + 1 /\ Height(index) \in Int
      <4>1. index.blocks \in Seq(Blocks) /\ waiting[expected] \in Blocks
        BY <1>t, <2>1, <2>3 DEF TypeOK, IInv, Sound, IsIndex
      <4>2. index'.blocks = Append(index.blocks, waiting[expected])
        BY <3>1 DEF Pushed
      <4> QED BY <1>0, <4>1, <4>2 DEF Height
    <3>3. expected \in 0 .. total - 1
      BY <1>t, <2>3 DEF TypeOK
    <3>4. ASSUME NEW p \in 0 .. total - 1, Covered(p) PROVE Covered(p)'
      <4>1. p < expected \/ p = expected => p < expected'
        BY <1>n, <3>1, <3>4
      <4> QED BY <2>1, <3>1, <3>4, <4>1 DEF Covered, Answered
    <3>5. Height(index)' = next' + expected' - 1 /\ expected' <= total'
      BY <1>n, <2>1, <3>1, <3>2, <3>3 DEF Accounted
    <3>6. Accounted'
      BY <2>1, <3>1, <3>4, <3>5 DEF Accounted, Refused
    <3> QED BY <2>1, <3>1, <3>6 DEF BInv
  <2>4. CASE expected \in DOMAIN waiting /\ ~Follows(index, waiting[expected])
    BY <1>10, <2>4 DEF Apply, Leave, BInv
  <2> QED BY <2>2, <2>3, <2>4
<1>11. CASE ApplyFails
  BY <1>11 DEF ApplyFails, Leave, BInv
<1>12. CASE Joined
  <2>1. pc' \in {"confirm", "return"} /\ UNCHANGED <<index, batch>>
    BY <1>12 DEF Joined
  <2>2. CASE pc = "join"
    BY <2>1, <2>2 DEF BInv, batch
  <2>3. CASE pc = "stream" /\ Closed
    <3>1. Accounted /\ expected \notin DOMAIN waiting
      BY <2>3 DEF BInv
    <3>2. ~Refused /\ (\A p : ~Answered(p)) /\ \A w \in Workers : worker[w] = Gone
      BY <2>3 DEF Closed, AllGone, Refused, Answered
    <3>3. ~(cursor < total)
      BY <3>1, <3>2 DEF Accounted
    <3>4. ~(expected < total)
      <4> SUFFICES ASSUME expected < total PROVE FALSE
        OBVIOUS
      <4>1. expected \in 0 .. total - 1 /\ expected < cursor
        BY <1>n, <3>3
      <4>2. Covered(expected)
        BY <3>1, <4>1 DEF Accounted
      <4> QED BY <1>0, <1>n, <3>1, <3>2, <4>2 DEF Covered
    <3>5. Height(index) = next + total - 1
      BY <1>n, <3>1, <3>4 DEF Accounted
    <3> QED BY <2>1, <3>5 DEF BInv, batch, Height
  <2> QED BY <1>12, <2>2, <2>3 DEF Joined
<1> QED
  BY <1>1, <1>3, <1>4, <1>5, <1>6, <1>7, <1>8, <1>9, <1>10, <1>11, <1>12
  DEF Next, Caller, Thread

(* A batch that ends without an error has applied all of its heights, for   *)
(* any number of threads, in whatever order they answer, fail or stop.      *)
THEOREM HonestReport == Spec => []ReportHonest
<1>1. Init => BInv
  BY DEF Init, BInv
<1>2. IInv /\ BInv /\ [Next]_vars => BInv'
  BY StepAccounted
<1>3. BInv => ReportHonest
  BY DEF BInv, ReportHonest
<1> QED BY <1>1, <1>2, <1>3, Invariant, PTL DEF Spec

-----------------------------------------------------------------------------
(***************************************************************************)
(* A clone reads its records from the same moving chain, block by block    *)
(* and from many threads: whatever reorganizations come between, a clone   *)
(* that passes its last check has no record of a branch that was left.     *)
(***************************************************************************)
CONSTANTS Stories, Fanout, PartBytes, Batch, Attempts, MaxNodes, ArchiveBudget

VARIABLES story, version, faults, place, anchor, noted, todo, try, avoid, jobs, pending,
          inventory, refs, payload, kept, where, dest

Clone == INSTANCE Recovery WITH pc <- place, tip <- noted

Versions == DOMAIN story.chains

(* The block was on the active chain at some time since version v. *)
SeenSince(v, block) ==
  \E w \in Versions : v <= w /\ w <= version /\ Clone!Holds(story, w, block)

JobFields == {"at", "avoid", "block", "origin", "commit", "result"}

(* A thread that found its record's block, or has fetched the record. *)
Located(job) == job.at \in {"active", "reveal", "commit", "retain"} \/ job.result = "ok"

Since(v) ==
  /\ \A t \in DOMAIN jobs :
        DOMAIN jobs[t] = JobFields /\ (Located(jobs[t]) => SeenSince(v, jobs[t].block))
  /\ \A t \in DOMAIN pending :
        pending[t].result = "ok" => SeenSince(v, pending[t].block)
  /\ \A t \in DOMAIN where : SeenSince(v, where[t])

Underway == {"tip", "root", "leaves", "parts", "settle", "validate", "anchor"}

Empty == jobs = <<>> /\ pending = <<>> /\ where = <<>>

(* Everything a clone has was read after it noted its anchor. *)
CloneInv ==
  /\ story \in Stories /\ version \in Versions
  /\ place \in {"archive", "connect"} => Empty
  /\ place \in Underway =>
        \E v \in Versions : /\ v <= version /\ anchor = Clone!Last(story.chains[v]).id
                            /\ Since(v)

-----------------------------------------------------------------------------
(* What a story says of its chains. *)
LEMMA ChainsOf ==
  ASSUME Clone!RecoveryAssumption, story \in Stories
  PROVE  /\ Versions = 1..Len(story.chains) /\ Len(story.chains) \in Nat /\ 1 \in Versions
         /\ \A v \in Versions :
               /\ DOMAIN story.chains[v] = 1..Len(story.chains[v])
               /\ Len(story.chains[v]) \in DOMAIN story.chains[v]
<1>1. PICK c : c = story.chains
  OBVIOUS
<1>2. /\ c \in Seq(Clone!ToSet(c)) /\ c # <<>>
      /\ \A v \in DOMAIN c : c[v] \in Seq(Clone!ToSet(c[v])) /\ c[v] # <<>>
  BY <1>1 DEF Clone!RecoveryAssumption
<1>3. DOMAIN c = 1..Len(c) /\ Len(c) \in Nat /\ Len(c) # 0
  BY <1>2
<1>4. \A v \in DOMAIN c : DOMAIN c[v] = 1..Len(c[v]) /\ Len(c[v]) \in Nat /\ Len(c[v]) # 0
  BY <1>2
<1> QED BY <1>1, <1>3, <1>4 DEF Versions

LEMMA VersionIsNumber ==
  ASSUME Clone!RecoveryAssumption, story \in Stories, version \in Versions
  PROVE  version \in Nat
<1>1. PICK n : n = Len(story.chains)
  OBVIOUS
<1>2. Versions = 1..n
  BY <1>1, ChainsOf
<1> QED BY <1>2

(* The height of a block is the same in every version that holds it. *)
LEMMA DepthOf ==
  ASSUME Clone!RecoveryAssumption, story \in Stories, NEW v \in Versions,
         NEW h \in DOMAIN story.chains[v]
  PROVE  Clone!Depth(story.chains[v][h].id) = h
<1>1. PICK s, c, b : s = story /\ c = story.chains /\ b = story.chains[v][h].id
  OBVIOUS
<1>2. \A u, w \in DOMAIN c : \A i \in DOMAIN c[u], k \in DOMAIN c[w] :
         c[u][i].id = c[w][k].id => i = k
  BY <1>1 DEF Clone!RecoveryAssumption
<1> DEFINE n == CHOOSE x \in DOMAIN c : \E i \in DOMAIN c[x] : c[x][i].id = b
<1>3. v \in DOMAIN c /\ h \in DOMAIN c[v] /\ c[v][h].id = b
  BY <1>1 DEF Versions
<1>4. n \in DOMAIN c /\ \E i \in DOMAIN c[n] : c[n][i].id = b
  BY <1>3
<1>5. PICK d : d = CHOOSE i \in DOMAIN c[n] : c[n][i].id = b
  OBVIOUS
<1>6. d \in DOMAIN c[n] /\ c[n][d].id = b
  BY <1>4, <1>5
<1>7. d = h
  BY <1>2, <1>3, <1>4, <1>6
<1>8. Clone!Depth(b) = d
  BY <1>1, <1>5 DEF Clone!Depth, Clone!Height
<1> QED BY <1>1, <1>7, <1>8

(* A tip that is where it was carries every block seen below it since. *)
LEMMA StillThere ==
  ASSUME Clone!RecoveryAssumption, story \in Stories, version \in Versions,
         NEW v \in Versions, v <= version, anchor = Clone!Last(story.chains[v]).id,
         Clone!Unmoved(anchor), NEW b, SeenSince(v, b), Clone!Depth(b) <= Clone!Depth(anchor)
  PROVE  Clone!Active(b)
<1> DEFINE c == story.chains
           d == Len(c[v])
<1>1. /\ d \in DOMAIN c[v] /\ anchor = c[v][d].id /\ d \in Nat
      /\ \A w \in Versions : DOMAIN c[w] = 1..Len(c[w])
      /\ Versions = DOMAIN c /\ Versions = 1..Len(c)
  <2>1. Clone!Last(c[v]) = c[v][Len(c[v])]
    BY DEF Clone!Last
  <2> QED BY <2>1, ChainsOf DEF Versions
<1>2. Clone!Depth(anchor) = d
  BY <1>1, DepthOf
<1>3. d \in DOMAIN c[version] /\ c[version][d].id = anchor
  <2>1. d <= Len(c[version]) /\ c[version][d].id = anchor
    BY <1>2 DEF Clone!Unmoved, Clone!Chain
  <2>2. d \in 1..Len(c[version])
    BY <1>1, <2>1, ChainsOf
  <2> QED BY <1>1, <2>1, <2>2
<1>4. PICK w \in Versions : v <= w /\ w <= version /\ Clone!Holds(story, w, b)
  BY DEF SeenSince
<1>5. PICK h \in DOMAIN c[w] : c[w][h].id = b
  BY <1>4 DEF Clone!Holds
<1>6. h <= d
  BY <1>2, <1>5, DepthOf
<1>7. Clone!Holds(story, w, anchor)
  <2>1. CASE w = v
    BY <1>1, <2>1 DEF Clone!Holds
  <2>2. CASE w = version
    BY <1>3, <2>2 DEF Clone!Holds
  <2>3. CASE w # v /\ w # version
    <3>1. v < w /\ w < version
      BY <1>1, <1>4, <2>3
    <3>2. Clone!Holds(story, version, c[v][d].id)
      BY <1>1, <1>3 DEF Clone!Holds
    <3>3. PICK s : s = story
      OBVIOUS
    <3>4. Clone!Holds(s, w, s.chains[v][d].id)
      BY <1>1, <3>1, <3>2, <3>3 DEF Clone!RecoveryAssumption
    <3> QED BY <1>1, <3>3, <3>4
  <2> QED BY <2>1, <2>2, <2>3
<1>8. PICK k \in DOMAIN c[w] : c[w][k].id = anchor
  BY <1>7 DEF Clone!Holds
<1>9. \A i \in 1..d : c[w][i].id = c[version][i].id
  <2>1. PICK s, e : s = story /\ e = s.chains
    OBVIOUS
  <2>2. \A x, y \in DOMAIN e : \A i \in DOMAIN e[x], j \in DOMAIN e[y] :
           e[x][i].id = e[y][j].id => i = j /\ \A m \in 1..i : e[x][m].id = e[y][m].id
    BY <2>1 DEF Clone!RecoveryAssumption
  <2>3. c = e
    BY <2>1
  <2>4. k = d
    BY <1>1, <1>3, <1>8, <2>2, <2>3
  <2>5. d \in DOMAIN e[w] /\ d \in DOMAIN e[version] /\ e[w][d].id = e[version][d].id
    BY <1>3, <1>8, <2>3, <2>4
  <2>6. w \in DOMAIN e /\ version \in DOMAIN e
    BY <1>1, <1>4, <2>3
  <2>7. \A m \in 1..d : e[w][m].id = e[version][m].id
    BY ONLY <2>2, <2>5, <2>6
  <2> QED BY ONLY <2>3, <2>7
<1>10. h \in 1..d /\ h \in DOMAIN c[version]
  <2>1. h \in 1..Len(c[w]) /\ d \in 1..Len(c[version])
    BY <1>1, <1>3, <1>5
  <2>2. h \in 1..d
    BY <1>1, <1>6, <2>1
  <2> QED BY <1>1, <2>1, <2>2
<1>11. c[version][h].id = b
  BY <1>5, <1>9, <1>10
<1> QED BY <1>10, <1>11 DEF Clone!Active, Clone!Chain

-----------------------------------------------------------------------------
(* A step that keeps what the clone has, or drops some of it. *)
LEMMA StillSince ==
  ASSUME CloneInv, story' = story, version' = version, anchor' = anchor,
         place' \notin {"archive", "connect"}, place' \in Underway => place \in Underway,
         ASSUME NEW v \in Versions, v <= version, Since(v) PROVE Since(v)'
  PROVE  CloneInv'
<1>1. story \in Stories /\ version \in Versions
  BY DEF CloneInv
<1>2. CASE place' \in Underway
  <2>1. PICK v \in Versions : /\ v <= version /\ anchor = Clone!Last(story.chains[v]).id
                              /\ Since(v)
    BY <1>2 DEF CloneInv
  <2>2. Since(v)'
    BY <2>1
  <2> QED BY <1>1, <1>2, <2>1, <2>2 DEF CloneInv, Versions
<1>3. CASE place' \notin Underway
  BY <1>1, <1>3 DEF CloneInv, Versions
<1> QED BY <1>2, <1>3

LEMMA SinceThen ==
  ASSUME story' = story, version' = version, NEW v,
         \A t \in DOMAIN jobs' :
            DOMAIN jobs'[t] = JobFields /\ (Located(jobs'[t]) => SeenSince(v, jobs'[t].block)),
         \A t \in DOMAIN pending' :
            pending'[t].result = "ok" => SeenSince(v, pending'[t].block),
         \A t \in DOMAIN where' : SeenSince(v, where'[t])
  PROVE  Since(v)'
  BY DEF Since, SeenSince, Versions, Clone!Holds, Located

(* Steps that touch none of it. *)
LEMMA SinceUnchanged ==
  ASSUME CloneInv, UNCHANGED <<story, version, anchor, jobs, pending, where>>,
         place' \notin {"archive", "connect"}, place' \in Underway => place \in Underway
  PROVE  CloneInv'
<1>1. ASSUME NEW v \in Versions, Since(v) PROVE Since(v)'
  BY <1>1 DEF Since, SeenSince, Versions, Clone!Holds
<1> QED BY <1>1, StillSince

LEMMA FreshInv ==
  ASSUME CloneInv, UNCHANGED <<story, version>>, Clone!Fresh, place' \notin Underway
  PROVE  CloneInv'
  BY DEF CloneInv, Clone!Fresh, Empty, Versions

(* Before the chain is read. *)
LEMMA BeginningSteps ==
  ASSUME Clone!RecoveryAssumption, CloneInv,
         \/ Clone!Begin \/ Clone!FromArchive \/ Clone!ArchiveFails \/ Clone!NoteAnchor
         \/ Clone!NoteTip \/ Clone!Rerun
  PROVE  CloneInv'
<1>1. CASE Clone!Begin \/ Clone!Rerun
  BY <1>1, FreshInv DEF Clone!Begin, Clone!Rerun, Clone!remote, Underway
<1>2. CASE Clone!FromArchive
  BY <1>2, SinceUnchanged DEF Clone!FromArchive, Clone!remote, Underway
<1>3. CASE Clone!ArchiveFails
  <2>1. /\ place = "archive" /\ place' = "connect"
        /\ UNCHANGED <<story, version, jobs, pending, where>>
    BY <1>3 DEF Clone!ArchiveFails, Clone!session
  <2> QED BY <2>1 DEF CloneInv, Empty, Underway, Versions
<1>4. CASE Clone!NoteAnchor
  <2>1. place = "connect" /\ UNCHANGED <<story, version, jobs, pending, where>>
    BY <1>4 DEF Clone!NoteAnchor
  <2>2. Empty /\ story \in Stories /\ version \in Versions
    BY <2>1 DEF CloneInv
  <2>3. CASE place' = "failed"
    BY <2>1, <2>2, <2>3 DEF CloneInv, Underway, Versions
  <2>4. CASE place' # "failed"
    <3>1. place' = "tip" /\ anchor' = Clone!Last(story.chains[version]).id
      BY <1>4, <2>4 DEF Clone!NoteAnchor, Clone!Fail, Clone!Chain
    <3>2. DOMAIN jobs' = {} /\ DOMAIN pending' = {} /\ DOMAIN where' = {}
      BY <2>1, <2>2 DEF Empty
    <3>3. Since(version)'
      BY <3>2 DEF Since
    <3>4. PICK v : v = version
      OBVIOUS
    <3>5. Since(v)'
      BY <3>2 DEF Since
    <3>6. version <= version
      <4>1. version \in Nat
        BY <2>2, VersionIsNumber
      <4> QED BY <4>1
    <3> QED BY <2>1, <2>2, <3>1, <3>4, <3>5, <3>6 DEF CloneInv, Versions, Underway
  <2> QED BY <2>3, <2>4
<1>5. CASE Clone!NoteTip
  <2>1. /\ place = "tip" /\ place' \in {"failed", "root"}
        /\ UNCHANGED <<story, version, anchor, jobs, pending, where>>
    BY <1>5 DEF Clone!NoteTip, Clone!Fail
  <2> QED BY <2>1, SinceUnchanged DEF Underway
<1> QED BY <1>1, <1>2, <1>3, <1>4, <1>5

(* At the end, and where a phase ends. *)
LEMMA ClosingSteps ==
  ASSUME CloneInv,
         \/ Clone!GiveUp \/ Clone!LeavesDone \/ Clone!PartsDone \/ Clone!Settle
         \/ Clone!Validate \/ Clone!CheckAnchor \/ Clone!Checkout \/ Clone!Rename
         \/ Clone!OtherClone
  PROVE  CloneInv'
<1>1. UNCHANGED <<story, version, anchor, jobs, pending, where>>
  BY DEF Clone!GiveUp, Clone!LeavesDone, Clone!PartsDone, Clone!Settle, Clone!Validate,
         Clone!CheckAnchor, Clone!Checkout, Clone!Rename, Clone!OtherClone, Clone!session,
         Clone!remote
<1>2. CASE Clone!OtherClone
  <2>1. place' = place
    BY <1>2 DEF Clone!OtherClone
  <2> QED BY <1>1, <2>1 DEF CloneInv, Empty, Since, SeenSince, Versions, Clone!Holds
<1>3. CASE ~Clone!OtherClone
  <2>1. /\ place' \notin {"archive", "connect"}
        /\ place' \in Underway => place \in Underway
    BY <1>3 DEF Clone!GiveUp, Clone!LeavesDone, Clone!PartsDone, Clone!Settle, Clone!Validate,
                Clone!CheckAnchor, Clone!Checkout, Clone!Rename, Clone!Fail, Underway
  <2> QED BY <1>1, <2>1, SinceUnchanged
<1> QED BY <1>2, <1>3

(* Threads are started, *)
LEMMA NewJobShape ==
  ASSUME NEW rejected
  PROVE  DOMAIN Clone!NewJob(rejected) = JobFields /\ ~Located(Clone!NewJob(rejected))
  BY DEF Clone!NewJob, JobFields, Located, Clone!Nothing

LEMMA StartingSteps ==
  ASSUME CloneInv, Clone!Ask \/ Clone!Prefetch
  PROVE  CloneInv'
<1>1. /\ UNCHANGED <<story, version, anchor, where, place>> /\ place \in Underway
      /\ pending' = pending \/ pending' = <<>>
  BY DEF Clone!Ask, Clone!Prefetch, Clone!remote, Clone!Fetching, Underway
<1>2. PICK S, rejected : jobs' = [t \in S |-> Clone!NewJob(rejected)]
  <2>1. CASE Clone!Ask
    <3>1. jobs' = [t \in {Clone!Wanted} |-> Clone!NewJob(avoid)]
      BY <2>1 DEF Clone!Ask
    <3> QED BY <3>1
  <2>2. CASE Clone!Prefetch
    <3>1. \E S : jobs' = [t \in S |-> Clone!NewJob({})]
      BY <2>2 DEF Clone!Prefetch
    <3> QED BY <3>1
  <2> QED BY <2>1, <2>2
<1>3. \A t \in DOMAIN jobs' : DOMAIN jobs'[t] = JobFields /\ ~Located(jobs'[t])
  BY <1>2, NewJobShape
<1>4. ASSUME NEW v \in Versions, Since(v) PROVE Since(v)'
  <2>1. \A t \in DOMAIN pending' : pending'[t].result = "ok" => SeenSince(v, pending'[t].block)
    <3>1. CASE pending' = pending
      BY <1>4, <3>1 DEF Since
    <3>2. CASE pending' = <<>>
      BY <3>2
    <3> QED BY <1>1, <3>1, <3>2
  <2>2. \A t \in DOMAIN where' : SeenSince(v, where'[t])
    BY <1>1, <1>4 DEF Since
  <2> QED BY <1>1, <1>3, <2>1, <2>2, SinceThen
<1>5. place' \notin {"archive", "connect"}
  BY <1>1 DEF Underway
<1> QED BY <1>1, <1>4, <1>5, StillSince

(* one step of one of them, *)
LEMMA ThreadStep ==
  ASSUME Clone!RecoveryAssumption, CloneInv, NEW t \in DOMAIN jobs, NEW job, Clone!JobStep(t, job),
         DOMAIN jobs[t] = JobFields =>
            /\ DOMAIN job = JobFields
            /\ Located(job) =>
                  \/ Located(jobs[t]) /\ job.block = jobs[t].block
                  \/ Clone!Holds(story, version, job.block)
  PROVE  CloneInv'
<1>1. /\ UNCHANGED <<story, version, anchor, place, pending, where>>
      /\ jobs' = [jobs EXCEPT ![t] = job]
  BY DEF Clone!JobStep
<1>2. ASSUME NEW v \in Versions, v <= version, Since(v) PROVE Since(v)'
  <2>1. \A u \in DOMAIN jobs' :
            DOMAIN jobs'[u] = JobFields /\ (Located(jobs'[u]) => SeenSince(v, jobs'[u].block))
    <3> SUFFICES ASSUME NEW u \in DOMAIN jobs
                 PROVE  /\ DOMAIN jobs'[u] = JobFields
                        /\ Located(jobs'[u]) => SeenSince(v, jobs'[u].block)
      BY <1>1
    <3>1. CASE u # t
      BY <1>1, <1>2, <3>1 DEF Since
    <3>2. CASE u = t
      <4>1. jobs'[u] = job
        BY <1>1, <3>2
      <4>2. DOMAIN jobs[t] = JobFields /\ (Located(jobs[t]) => SeenSince(v, jobs[t].block))
        BY <1>2 DEF Since
      <4>3. Clone!Holds(story, version, job.block) => SeenSince(v, job.block)
        <5>1. story \in Stories /\ version \in Versions
          BY DEF CloneInv
        <5>2. version \in Nat
          BY <5>1, VersionIsNumber
        <5>3. version <= version
          BY <5>2
        <5> QED BY <1>2, <5>1, <5>3 DEF SeenSince
      <4> QED BY <4>1, <4>2, <4>3
    <3> QED BY <3>1, <3>2
  <2>2. \A u \in DOMAIN pending' : pending'[u].result = "ok" => SeenSince(v, pending'[u].block)
    BY <1>1, <1>2 DEF Since
  <2>3. \A u \in DOMAIN where' : SeenSince(v, where'[u])
    BY <1>1, <1>2 DEF Since
  <2> QED BY <1>1, <2>1, <2>2, <2>3, SinceThen
<1>3. place' \notin {"archive", "connect"}
  <2>1. jobs # <<>>
    OBVIOUS
  <2> QED BY <1>1, <2>1 DEF CloneInv, Empty
<1> QED BY <1>1, <1>2, <1>3, StillSince

LEMMA WorkerStep ==
  ASSUME Clone!RecoveryAssumption, CloneInv, NEW t \in DOMAIN jobs, Clone!Worker(t)
  PROVE  CloneInv'
<1>1. PICK old : old = jobs[t]
  OBVIOUS
<1>2. ASSUME NEW r, r \in {"source", "unavailable", "rejected"},
             Clone!JobStep(t, Clone!Ended(old, r))
      PROVE  CloneInv'
  <2>1. PICK job : job = Clone!Ended(old, r)
    OBVIOUS
  <2>2. DOMAIN old = JobFields => DOMAIN job = JobFields /\ job.at = "done" /\ job.result = r
    BY <2>1 DEF Clone!Ended, JobFields
  <2> QED BY <1>1, <1>2, <2>1, <2>2, ThreadStep DEF Located
<1>3. CASE Clone!Locate(t)
  <2>1. CASE \E r \in {"source", "unavailable"} : Clone!JobStep(t, Clone!Ended(old, r))
    BY <1>2, <2>1
  <2>2. CASE /\ Clone!Mined(t)
             /\ Clone!JobStep(t, [old EXCEPT !.at = "active", !.block = Clone!BlockOf(t)])
    <3>1. PICK b, job : b = Clone!BlockOf(t) /\ job = [old EXCEPT !.at = "active", !.block = b]
      OBVIOUS
    <3>2. DOMAIN old = JobFields => DOMAIN job = JobFields /\ job.block = b
      BY <3>1 DEF JobFields
    <3>3. Clone!Holds(story, version, b)
      <4>1. \E h \in DOMAIN Clone!Chain : t \in Clone!Chain[h].txs
        BY <2>2 DEF Clone!Mined
      <4>2. PICK h : h = CHOOSE x \in DOMAIN Clone!Chain : t \in Clone!Chain[x].txs
        OBVIOUS
      <4>3. h \in DOMAIN Clone!Chain /\ b = Clone!Chain[h].id
        BY <3>1, <4>1, <4>2 DEF Clone!BlockOf
      <4> QED BY <4>3 DEF Clone!Holds, Clone!Chain
    <3> QED BY <1>1, <2>2, <3>1, <3>2, <3>3, ThreadStep
  <2> QED BY <1>1, <1>3, <2>1, <2>2 DEF Clone!Locate
<1>4. CASE Clone!Confirm(t)
  <2>1. CASE \E r \in {"source", "unavailable"} : Clone!JobStep(t, Clone!Ended(old, r))
    BY <1>2, <2>1
  <2>2. CASE Clone!JobStep(t, [old EXCEPT !.at = "reveal"])
    <3>1. PICK job : job = [old EXCEPT !.at = "reveal"]
      OBVIOUS
    <3>2. DOMAIN old = JobFields => DOMAIN job = JobFields /\ job.block = old.block
      BY <3>1 DEF JobFields
    <3>3. Located(old)
      BY <1>1, <1>4 DEF Clone!Confirm, Located
    <3> QED BY <1>1, <2>2, <3>1, <3>2, <3>3, ThreadStep
  <2> QED BY <1>1, <1>4, <2>1, <2>2 DEF Clone!Confirm
<1>5. CASE Clone!FetchReveal(t)
  <2>1. CASE \E r \in {"source", "unavailable"} : Clone!JobStep(t, Clone!Ended(old, r))
    BY <1>2, <2>1
  <2>2. CASE \E p : Clone!JobStep(t, [old EXCEPT !.at = "commit", !.origin = p])
    <3>1. PICK p : Clone!JobStep(t, [old EXCEPT !.at = "commit", !.origin = p])
      BY <2>2
    <3>2. PICK job : job = [old EXCEPT !.at = "commit", !.origin = p]
      OBVIOUS
    <3>3. DOMAIN old = JobFields => DOMAIN job = JobFields /\ job.block = old.block
      BY <3>2 DEF JobFields
    <3>4. Located(old)
      BY <1>1, <1>5 DEF Clone!FetchReveal, Located
    <3> QED BY <1>1, <3>1, <3>2, <3>3, <3>4, ThreadStep
  <2> QED BY <1>1, <1>5, <2>1, <2>2 DEF Clone!FetchReveal
<1>6. CASE Clone!FetchCommit(t)
  <2>1. CASE \E r \in {"source", "rejected"} : Clone!JobStep(t, Clone!Ended(old, r))
    BY <1>2, <2>1
  <2>2. CASE \E bytes : Clone!JobStep(t, [old EXCEPT !.at = "retain", !.commit = bytes])
    <3>1. PICK bytes : Clone!JobStep(t, [old EXCEPT !.at = "retain", !.commit = bytes])
      BY <2>2
    <3>2. PICK job : job = [old EXCEPT !.at = "retain", !.commit = bytes]
      OBVIOUS
    <3>3. DOMAIN old = JobFields => DOMAIN job = JobFields /\ job.block = old.block
      BY <3>2 DEF JobFields
    <3>4. Located(old)
      BY <1>1, <1>6 DEF Clone!FetchCommit, Located
    <3> QED BY <1>1, <3>1, <3>2, <3>3, <3>4, ThreadStep
  <2> QED BY <1>1, <1>6, <2>1, <2>2 DEF Clone!FetchCommit
<1>7. CASE Clone!Retain(t)
  <2>1. old.at = "retain" /\ \E r : Clone!JobStep(t, Clone!Ended(old, r))
    BY <1>1, <1>7 DEF Clone!Retain
  <2>2. PICK r : Clone!JobStep(t, Clone!Ended(old, r))
    BY <2>1
  <2>3. PICK job : job = Clone!Ended(old, r)
    OBVIOUS
  <2>4. DOMAIN old = JobFields => DOMAIN job = JobFields /\ job.block = old.block
    BY <2>3 DEF Clone!Ended, JobFields
  <2> QED BY <1>1, <2>1, <2>2, <2>3, <2>4, ThreadStep DEF Located
<1> QED BY <1>3, <1>4, <1>5, <1>6, <1>7 DEF Clone!Worker

(* and all are joined. *)
LEMMA JoinStep ==
  ASSUME CloneInv, Clone!Join
  PROVE  CloneInv'
<1>1. /\ UNCHANGED <<story, version, anchor, place, where>> /\ jobs # <<>>
      /\ \A t \in DOMAIN jobs : jobs[t].at = "done"
      /\ pending' = Clone!Over(jobs, pending) /\ jobs' = <<>>
  BY DEF Clone!Join, Clone!remote
<1>2. ASSUME NEW v \in Versions, Since(v) PROVE Since(v)'
  <2>1. \A t \in DOMAIN pending' : pending'[t].result = "ok" => SeenSince(v, pending'[t].block)
    <3> SUFFICES ASSUME NEW t \in DOMAIN pending', pending'[t].result = "ok"
                 PROVE  SeenSince(v, pending'[t].block)
      OBVIOUS
    <3>1. CASE t \in DOMAIN jobs
      BY <1>1, <1>2, <3>1 DEF Clone!Over, Since, Located
    <3>2. CASE t \notin DOMAIN jobs
      BY <1>1, <1>2, <3>2 DEF Clone!Over, Since
    <3> QED BY <3>1, <3>2
  <2>2. \A t \in DOMAIN jobs' :
            DOMAIN jobs'[t] = JobFields /\ (Located(jobs'[t]) => SeenSince(v, jobs'[t].block))
    BY <1>1
  <2>3. \A t \in DOMAIN where' : SeenSince(v, where'[t])
    BY <1>1, <1>2 DEF Since
  <2> QED BY <1>1, <2>1, <2>2, <2>3, SinceThen
<1>3. place' \notin {"archive", "connect"}
  BY <1>1 DEF CloneInv, Empty
<1> QED BY <1>1, <1>2, <1>3, StillSince

(* Results are taken, or asked for again. *)
LEMMA TakingSteps ==
  ASSUME CloneInv,
         Clone!TryAgain \/ Clone!TakeRoot \/ Clone!TakeLeaf \/ Clone!TakePart
  PROVE  CloneInv'
<1>1. CASE Clone!Refuse
  <2>1. place' = "failed" /\ UNCHANGED <<story, version, anchor, jobs, pending, where>>
    BY <1>1 DEF Clone!Refuse, Clone!Fail, Clone!remote, Clone!session
  <2> QED BY <2>1, SinceUnchanged DEF Underway
<1>2. CASE ~Clone!Refuse
  <2>1. /\ UNCHANGED <<story, version, anchor, jobs>>
        /\ pending' = Clone!Taken
        /\ place \in {"root", "leaves", "parts"} /\ place' \in {"root", "leaves", "parts"}
        /\ \/ where' = where
           \/ /\ Clone!Wanted \in DOMAIN pending /\ Clone!Result.result = "ok"
              /\ where' = Clone!Over(where, [t \in {Clone!Wanted} |-> Clone!Result.block])
    <3>1. CASE Clone!TryAgain
      BY <3>1 DEF Clone!TryAgain, Clone!HasResult, Clone!Fetching, Clone!remote
    <3>2. CASE Clone!TakeRoot
      BY <1>2, <3>2 DEF Clone!TakeRoot, Clone!Arrived, Clone!HasResult, Clone!Advance, Clone!remote
    <3>3. CASE Clone!TakeLeaf
      BY <1>2, <3>3 DEF Clone!TakeLeaf, Clone!Arrived, Clone!HasResult, Clone!Advance, Clone!remote
    <3>4. CASE Clone!TakePart
      BY <1>2, <3>4 DEF Clone!TakePart, Clone!Arrived, Clone!HasResult, Clone!Advance, Clone!remote
    <3> QED BY <3>1, <3>2, <3>3, <3>4
  <2>2. ASSUME NEW v \in Versions, Since(v) PROVE Since(v)'
    <3>1. \A t \in DOMAIN jobs' :
              DOMAIN jobs'[t] = JobFields /\ (Located(jobs'[t]) => SeenSince(v, jobs'[t].block))
      BY <2>1, <2>2 DEF Since
    <3>2. \A t \in DOMAIN pending' : pending'[t].result = "ok" => SeenSince(v, pending'[t].block)
      BY <2>1, <2>2 DEF Since, Clone!Taken
    <3>3. \A t \in DOMAIN where' : SeenSince(v, where'[t])
      <4>1. CASE where' = where
        BY <2>2, <4>1 DEF Since
      <4>2. CASE /\ Clone!Wanted \in DOMAIN pending /\ Clone!Result.result = "ok"
                 /\ where' = Clone!Over(where, [t \in {Clone!Wanted} |-> Clone!Result.block])
        <5>1. PICK w, b : w = Clone!Wanted /\ b = Clone!Result.block
          OBVIOUS
        <5>2. SeenSince(v, b)
          BY <2>2, <4>2, <5>1 DEF Since, Clone!Result
        <5>3. where' = Clone!Over(where, [t \in {w} |-> b])
          BY <4>2, <5>1
        <5>4. \A t \in DOMAIN where' : (t \in DOMAIN where /\ where'[t] = where[t]) \/ where'[t] = b
          BY <5>3 DEF Clone!Over
        <5> QED BY <2>2, <5>2, <5>4 DEF Since
      <4> QED BY <2>1, <4>1, <4>2
    <3> QED BY <2>1, <3>1, <3>2, <3>3, SinceThen
  <2>3. place' \notin {"archive", "connect"} /\ place \in Underway
    BY <2>1 DEF Underway
  <2> QED BY <2>1, <2>2, <2>3, StillSince
<1> QED BY <1>1, <1>2

(* Meanwhile the chain moves. *)
LEMMA MovesStep ==
  ASSUME Clone!RecoveryAssumption, CloneInv, Clone!ChainMoves
  PROVE  CloneInv'
<1>1. /\ UNCHANGED <<story, place, anchor, jobs, pending, where>>
      /\ version < Len(story.chains) /\ version' = version + 1
  BY DEF Clone!ChainMoves, Clone!session
<1>2. story \in Stories /\ version \in Versions
  BY DEF CloneInv
<1>3. PICK n : n = Len(story.chains)
  OBVIOUS
<1>4. Versions = 1..n /\ n \in Nat /\ version < n
  BY <1>1, <1>2, <1>3, ChainsOf
<1>5. version' \in Versions /\ \A w \in Versions : w <= version => w <= version'
  BY <1>1, <1>2, <1>4
<1>6. ASSUME NEW v \in Versions, v <= version, Since(v) PROVE Since(v)' /\ v <= version'
  <2>1. ASSUME NEW b, SeenSince(v, b) PROVE SeenSince(v, b)'
    BY <1>1, <1>5, <2>1 DEF SeenSince, Versions, Clone!Holds
  <2>2. \A b : SeenSince(v, b) => SeenSince(v, b)'
    BY <2>1
  <2>3. Since(v)'
    BY <1>1, <1>6, <2>2 DEF Since
  <2> QED BY <1>5, <1>6, <2>3
<1>7. CASE place \in Underway
  <2>1. PICK v \in Versions : /\ v <= version /\ anchor = Clone!Last(story.chains[v]).id
                              /\ Since(v)
    BY <1>7 DEF CloneInv
  <2>2. Since(v)' /\ v <= version'
    BY <1>6, <2>1
  <2> QED BY <1>1, <1>2, <1>5, <2>1, <2>2 DEF CloneInv, Empty, Versions
<1>8. CASE place \notin Underway
  BY <1>1, <1>2, <1>5, <1>8 DEF CloneInv, Empty, Versions
<1> QED BY <1>7, <1>8

LEMMA CloneStep ==
  ASSUME Clone!RecoveryAssumption, CloneInv, [Clone!Next]_(Clone!vars)
  PROVE  CloneInv'
<1>1. CASE UNCHANGED Clone!vars
  <2>1. UNCHANGED <<story, version, place, anchor, jobs, pending, where>>
    BY <1>1 DEF Clone!vars
  <2> QED BY <2>1 DEF CloneInv, Empty, Since, SeenSince, Versions, Clone!Holds
<1> QED BY <1>1, BeginningSteps, ClosingSteps, StartingSteps, WorkerStep, JoinStep, TakingSteps,
           MovesStep DEF Clone!Next, Clone!Command

LEMMA CloneInit ==
  ASSUME Clone!RecoveryAssumption, Clone!Init
  PROVE  CloneInv
<1>1. /\ story \in Stories /\ version = 1 /\ place = "idle"
  BY DEF Clone!Init
<1>2. 1 \in Versions
  BY <1>1, ChainsOf
<1> QED BY <1>1, <1>2 DEF CloneInv, Underway

LEMMA PassesOnChain ==
  ASSUME Clone!RecoveryAssumption, CloneInv, Clone!Next
  PROVE  Clone!PassesOnChain
<1> SUFFICES ASSUME place = "anchor", place' = "install", NEW t \in DOMAIN where,
                    Clone!Depth(where[t]) <= Clone!Depth(anchor)
             PROVE  Clone!Active(where[t])
  BY DEF Clone!PassesOnChain
<1>1. Clone!Unmoved(anchor)
  BY DEF Clone!Next, Clone!Command, Clone!Begin, Clone!FromArchive, Clone!ArchiveFails,
         Clone!NoteAnchor, Clone!NoteTip, Clone!Ask, Clone!Prefetch, Clone!Join,
         Clone!GiveUp, Clone!TryAgain, Clone!TakeRoot, Clone!TakeLeaf, Clone!LeavesDone,
         Clone!TakePart, Clone!PartsDone, Clone!Settle, Clone!Validate, Clone!CheckAnchor,
         Clone!Checkout, Clone!Rename, Clone!Rerun, Clone!ChainMoves, Clone!OtherClone,
         Clone!Worker, Clone!Locate, Clone!Confirm, Clone!FetchReveal, Clone!FetchCommit,
         Clone!Retain, Clone!JobStep, Clone!Fail
<1>2. story \in Stories /\ version \in Versions
  BY DEF CloneInv
<1>3. PICK v \in Versions : /\ v <= version /\ anchor = Clone!Last(story.chains[v]).id
                            /\ Since(v)
  BY DEF CloneInv, Underway
<1>4. PICK b : b = where[t]
  OBVIOUS
<1>5. SeenSince(v, b)
  BY <1>3, <1>4 DEF Since
<1> QED BY <1>1, <1>2, <1>3, <1>4, <1>5, StillThere

(* Only the rename and another clone touch the destination, both while       *)
(* nothing is there.                                                         *)
LEMMA FirstStays ==
  ASSUME Clone!Next
  PROVE  Clone!FirstStays
<1>0. SUFFICES ASSUME dest.owner = "other" PROVE dest' = dest
  BY DEF Clone!FirstStays
<1>1. dest.owner # Clone!Nothing
  BY <1>0 DEF Clone!Nothing
<1>2. CASE Clone!Rename \/ Clone!OtherClone
  BY <1>1, <1>2 DEF Clone!Rename, Clone!OtherClone
<1>3. CASE Clone!Begin \/ Clone!FromArchive \/ Clone!ArchiveFails
  BY <1>3 DEF Clone!Begin, Clone!FromArchive, Clone!ArchiveFails
<1>7. CASE Clone!NoteAnchor \/ Clone!NoteTip
  BY <1>7 DEF Clone!NoteAnchor, Clone!NoteTip
<1>8. CASE Clone!Ask \/ Clone!Prefetch
  BY <1>8 DEF Clone!Ask, Clone!Prefetch
<1>9. CASE Clone!Join \/ Clone!GiveUp
  BY <1>9 DEF Clone!Join, Clone!GiveUp, Clone!Refuse
<1>4. CASE \/ Clone!TryAgain \/ Clone!TakeRoot \/ Clone!TakeLeaf \/ Clone!LeavesDone
           \/ Clone!TakePart \/ Clone!PartsDone
  <2>1. CASE Clone!TryAgain
    BY <2>1 DEF Clone!TryAgain, Clone!Refuse
  <2>2. CASE Clone!TakeRoot
    BY <2>2 DEF Clone!TakeRoot, Clone!Refuse, Clone!Advance
  <2>3. CASE Clone!TakeLeaf
    BY <2>3 DEF Clone!TakeLeaf, Clone!Refuse, Clone!Advance
  <2>4. CASE Clone!LeavesDone
    BY <2>4 DEF Clone!LeavesDone, Clone!Refuse
  <2>5. CASE Clone!TakePart
    BY <2>5 DEF Clone!TakePart, Clone!Refuse, Clone!Advance
  <2>6. CASE Clone!PartsDone
    BY <2>6 DEF Clone!PartsDone, Clone!Refuse
  <2> QED BY <1>4, <2>1, <2>2, <2>3, <2>4, <2>5, <2>6
<1>5. CASE \/ Clone!Settle \/ Clone!Validate \/ Clone!CheckAnchor \/ Clone!Checkout
           \/ Clone!Rerun \/ Clone!ChainMoves
  BY <1>5 DEF Clone!Settle, Clone!Validate, Clone!CheckAnchor, Clone!Checkout, Clone!Rerun,
         Clone!ChainMoves, Clone!Refuse
<1>6. CASE \E t \in DOMAIN jobs : Clone!Worker(t)
  BY <1>6 DEF Clone!Worker, Clone!Locate, Clone!Confirm, Clone!FetchReveal,
         Clone!FetchCommit, Clone!Retain, Clone!JobStep
<1> QED BY <1>2, <1>3, <1>4, <1>5, <1>6, <1>7, <1>8, <1>9 DEF Clone!Next, Clone!Command

(* A clone reports no record of a branch that was left meanwhile: when its   *)
(* last check passes, each record seen at or below the anchor is on the      *)
(* active chain (recover_staged, recover_from, presence); and what another   *)
(* clone installed at the destination is never replaced (finish_install).    *)
THEOREM NothingLeftBehind ==
  Clone!RecoveryAssumption => (Clone!Spec => Clone!InstallsSafely)
<1> SUFFICES ASSUME Clone!RecoveryAssumption PROVE Clone!Spec => Clone!InstallsSafely
  OBVIOUS
<1>1. Clone!Init => CloneInv
  BY CloneInit
<1>2. CloneInv /\ [Clone!Next]_(Clone!vars) => CloneInv'
  BY CloneStep
<1>3. CloneInv /\ [Clone!Next]_(Clone!vars)
      => [Clone!PassesOnChain /\ Clone!FirstStays]_(Clone!vars)
  BY PassesOnChain, FirstStays
<1> QED BY <1>1, <1>2, <1>3, PTL DEF Clone!Spec, Clone!InstallsSafely
=============================================================================
