------------------------ MODULE NamesRegistryProofs ------------------------
(***************************************************************************)
(* Proofs about the registry engine, for every set of names, keys and      *)
(* transactions, every record catalogue and all policies a genesis accepts.*)
(***************************************************************************)
EXTENDS NamesRegistry, FiniteSetTheorems, TLAPS

-----------------------------------------------------------------------------
(* Facts about the constants and the operators on maps and frames. *)

(* Heights and rules are natural numbers, and records are well formed. *)
LEMMA Constants ==
    /\ GenesisHeight \in Nat /\ MaxU64 \in Nat /\ GenesisHeight <= MaxU64
    /\ ExpiryBlocks \in Nat /\ ExpiryBlocks > 0
    /\ Keeps \subseteq Nat
    /\ \A t \in Txids : Rec[t] \in Record
BY HeightAssumption, RulesAssumption, RecordAssumption DEF GenesisValid

(* config::state_of always yields a name state. *)
LEMMA StateOfType ==
    ASSUME NEW nm \in NamesMap, NEW n \in Names
    PROVE  state_of(nm, n) \in NameState
BY DEF NamesMap, state_of, UnboundName, NameState

(* A frame keeps its type when one more key is remembered. *)
LEMMA RememberType ==
    ASSUME NEW D, NEW V, NEW frame, DOMAIN frame \subseteq D,
           frame \in [DOMAIN frame -> V], NEW key \in D, NEW value \in V
    PROVE  /\ DOMAIN Remember(frame, key, value) \subseteq D
           /\ Remember(frame, key, value) \in [DOMAIN Remember(frame, key, value) -> V]
BY DEF Remember

(* remember_name before store: writing a key whose old value is remembered *)
(* leaves what the frame reverts to unchanged.                             *)
LEMMA RememberReverts ==
    ASSUME NEW map, NEW frame, NEW key \in DOMAIN map, NEW value
    PROVE  Revert([map EXCEPT ![key] = value], Remember(frame, key, map[key])) = Revert(map, frame)
<1> DEFINE new == [map EXCEPT ![key] = value]
           f == Remember(frame, key, map[key])
<1>1. DOMAIN new = DOMAIN map
  OBVIOUS
<1>2. \A k \in DOMAIN map : (IF k \in DOMAIN f THEN f[k] ELSE new[k]) = (IF k \in DOMAIN frame THEN frame[k] ELSE map[k])
  BY DEF Remember
<1>3. QED
  BY <1>1, <1>2 DEF Revert

(* Different names have different entries in the expiry index. *)
LEMMA EntriesDiffer ==
    ASSUME NEW n, NEW m, n # m, NEW s, NEW z, NEW e \in ExpiryEntry(n, s)
    PROVE  e \notin ExpiryEntry(m, z)
<1>1. e = <<s.binding.expiry, n>>
  BY DEF ExpiryEntry
<1>2. SUFFICES ASSUME e = <<z.binding.expiry, m>> PROVE FALSE
  BY DEF ExpiryEntry
<1>3. QED
  BY <1>1, <1>2

(* Writing one name and reindexing it keeps the expiry index exact. *)
LEMMA ReindexExact ==
    ASSUME NEW nm \in NamesMap, NEW n \in Names, NEW s \in NameState
    PROVE  Reindex(IndexOf(nm), nm, n, s) = IndexOf([nm EXCEPT ![n] = s])
<1> DEFINE new == [nm EXCEPT ![n] = s]
<1>0. s # Absent
  BY SentinelAssumption
<1>1. state_of(new, n) = s
  BY <1>0 DEF state_of, NamesMap
<1>2. \A m \in Names \ {n} : state_of(new, m) = state_of(nm, m)
  BY DEF state_of, NamesMap
<1> HIDE DEF new
<1>6. \A e : e \in IndexOf(nm) <=> \E m \in Names : e \in ExpiryEntry(m, state_of(nm, m))
  BY DEF IndexOf
<1>7. \A e : e \in IndexOf(new) <=> \E m \in Names : e \in ExpiryEntry(m, state_of(new, m))
  BY DEF IndexOf
<1>8. \A e : e \in Reindex(IndexOf(nm), nm, n, s) <=>
              \/ e \in IndexOf(nm) /\ e \notin ExpiryEntry(n, state_of(nm, n))
              \/ e \in ExpiryEntry(n, s)
  BY <1>0 DEF Reindex
<1>9. ASSUME NEW e PROVE e \in Reindex(IndexOf(nm), nm, n, s) <=> e \in IndexOf(new)
  <2>1. e \in IndexOf(nm) /\ e \notin ExpiryEntry(n, state_of(nm, n)) =>
          \E m \in Names \ {n} : e \in ExpiryEntry(m, state_of(new, m))
    BY <1>2, <1>6
  <2>2. ASSUME NEW m \in Names \ {n}, e \in ExpiryEntry(m, state_of(new, m))
        PROVE  e \in IndexOf(nm) /\ e \notin ExpiryEntry(n, state_of(nm, n))
    <3>1. e \in ExpiryEntry(m, state_of(nm, m)) /\ m # n
      BY <2>2, <1>2
    <3>2. e \notin ExpiryEntry(n, state_of(nm, n))
      BY <3>1, EntriesDiffer
    <3>3. QED
      BY <3>1, <3>2, <1>6
  <2>3. e \in IndexOf(new) <=> \/ e \in ExpiryEntry(n, s)
                               \/ \E m \in Names \ {n} : e \in ExpiryEntry(m, state_of(new, m))
    BY <1>1, <1>7
  <2>4. QED
    BY <2>1, <2>2, <2>3, <1>8
<1>10. Reindex(IndexOf(nm), nm, n, s) = IndexOf(new)
  BY <1>9
<1>11. QED
  BY <1>10 DEF new

(* The expiry entries of a name's state are pairs of a height and a name. *)
LEMMA EntryType ==
    ASSUME NEW n \in Names, NEW s \in NameState
    PROVE  ExpiryEntry(n, s) \subseteq Heights \X Names
BY DEF ExpiryEntry, NameState, Bound

-----------------------------------------------------------------------------
(* What each operation writes has its type. *)

(* complete() writes a name state. *)
LEMMA CompletedType ==
    ASSUME TypeOK, NEW p \in PendingRecord, NEW t \in Txids, CompletionApplies(p)
    PROVE  CompletedState(p, t) \in NameState
<1> DEFINE s == state_of(names, p.name)
<1>1. s \in NameState /\ p.name \in Names
  BY StateOfType DEF TypeOK, PendingRecord
<1>2. Rec[t] \in Record /\ Rec[t].record_txid \in Txids
  BY Constants DEF Record
<1>3. CASE p.kind = "Request"
  <2>1. height + ExpiryBlocks \in Heights
    BY <1>3, Constants DEF CompletionApplies, HasExpiry, TypeOK, Heights
  <2>2. [owner |-> p.author, target |-> p.target, expiry |-> height + ExpiryBlocks,
         claim_txid |-> Rec[t].record_txid, last_txid |-> t] \in Bound
    BY <1>2, <2>1 DEF Bound, PendingRecord, Targets
  <2>3. QED
    BY <1>1, <1>3, <2>2 DEF CompletedState, NameState
<1>4. CASE p.kind = "Update"
  <2>1. s.binding \in Bound
    BY <1>1, <1>4 DEF CompletionApplies, NameState
  <2>2. [owner |-> s.binding.owner, target |-> p.target, expiry |-> s.binding.expiry,
         claim_txid |-> s.binding.claim_txid, last_txid |-> t] \in Bound
    BY <2>1 DEF Bound, PendingRecord, Targets
  <2>3. QED
    BY <1>1, <1>4, <2>2 DEF CompletedState, NameState
<1>5. QED
  BY <1>3, <1>4 DEF PendingRecord

(* approve() writes a pending record. *)
LEMMA ApprovedType ==
    ASSUME TypeOK, NEW t \in Txids, NEW commit, ApprovalCounts(t, commit)
    PROVE  Approved(t) \in PendingRecord /\ Rec[t].record_txid \in Txids
<1>1. Rec[t] \in Record /\ Rec[t].record_txid \in Txids /\ Rec[t].author \in Keys
  BY Constants DEF Record
<1>2. pending[Rec[t].record_txid] \in PendingRecord
  BY <1>1 DEF TypeOK, PendingMap, ApprovalCounts
<1> DEFINE p == pending[Rec[t].record_txid]
           approvals == p.approvals \cup {Rec[t].author}
           full == Cardinality(approvals) >= Threshold
<1>3. approvals \in SUBSET Keys
  BY <1>1, <1>2 DEF PendingRecord
<1>4. full \in BOOLEAN
  OBVIOUS
<1>5. Approved(t) = [p EXCEPT !.approvals = approvals, !.completed = full]
  BY Zenon DEF Approved
<1> HIDE DEF approvals, full, p
<1>6. QED
  <2>1. p \in PendingRecord
    BY <1>2 DEF p
  <2>2. QED
    BY <1>1, <2>1, <1>3, <1>4, <1>5 DEF PendingRecord

(* vote() writes a name state. *)
LEMMA VotedType ==
    ASSUME NEW s \in NameState, NEW key \in Keys, NEW suspend \in BOOLEAN
    PROVE  Voted(s, key, suspend) \in NameState
BY DEF Voted, NameState

(* update() and renew() write a name state. *)
LEMMA ChangedType ==
    ASSUME TypeOK, NEW t \in Txids, NEW commit, Changes(t, commit)
    PROVE  ChangedState(t) \in NameState
<1> DEFINE s == state_of(names, Rec[t].name)
<1>1. Rec[t] \in Record /\ Rec[t].name \in Names /\ Rec[t].target \in Targets
  BY Constants DEF Record, Targets
<1>2. s \in NameState
  BY <1>1, StateOfType DEF TypeOK
<1>3. s.binding \in Bound
  BY <1>2 DEF Changes, OwnedBy, NameState
<1>4. (IF Rec[t].op = "Renew" THEN height + ExpiryBlocks ELSE s.binding.expiry) \in Heights
  <2>1. CASE Rec[t].op = "Renew"
    BY <2>1, Constants DEF Changes, HasExpiry, TypeOK, Heights
  <2>2. CASE Rec[t].op # "Renew"
    BY <2>2, <1>3 DEF Bound
  <2>3. QED
    BY <2>1, <2>2
<1>5. [owner |-> s.binding.owner, target |-> Rec[t].target,
       expiry |-> IF Rec[t].op = "Renew" THEN height + ExpiryBlocks ELSE s.binding.expiry,
       claim_txid |-> s.binding.claim_txid, last_txid |-> t] \in Bound
  BY <1>1, <1>3, <1>4 DEF Bound
<1>6. QED
  BY <1>2, <1>5 DEF ChangedState, NameState

(* assign() writes a name state. *)
LEMMA ClaimedType ==
    ASSUME TypeOK, HasExpiry, NEW t \in Txids, NEW n \in Names
    PROVE  ClaimedState(n, t) \in NameState
<1>1. Rec[t] \in Record /\ Rec[t].author \in Keys /\ Rec[t].target \in Targets
  BY Constants DEF Record, Targets
<1>2. state_of(names, n) \in NameState
  BY StateOfType DEF TypeOK
<1>3. height + ExpiryBlocks \in Heights
  BY Constants DEF HasExpiry, TypeOK, Heights
<1>4. [owner |-> Rec[t].author, target |-> Rec[t].target,
       expiry |-> height + ExpiryBlocks, claim_txid |-> t, last_txid |-> t] \in Bound
  BY <1>1, <1>3 DEF Bound
<1>5. QED
  BY <1>2, <1>4 DEF ClaimedState, NameState

(* insert_pending() writes a pending record. *)
LEMMA NewPendingType ==
    ASSUME TypeOK, NEW t \in Txids
    PROVE  NewPending(t) \in PendingRecord
<1>1. Rec[t] \in Record
  BY Constants
<1>2. height \in Heights
  BY Constants DEF TypeOK, Heights
<1>3. QED
  BY <1>1, <1>2 DEF NewPending, PendingRecord, Record, Targets

-----------------------------------------------------------------------------
(* The inductive invariant.  Undoing a block lands in a remembered snapshot, *)
(* so what is claimed of the maps is claimed of every snapshot as well.      *)

PastNotOverdue == \A h \in base + 1 .. height : NotOverdue(before[h].names, h - 1)

Inv ==
    /\ TypeOK
    /\ ExpiryIndexExact
    /\ UndoExact
    /\ NothingOverdue
    /\ PastNotOverdue

(* A step inside a block: it writes maps of the right type, and its frame    *)
(* reverts the new maps to what the old frame reverted the old maps to.      *)
InBlock(F) ==
    /\ phase # "idle"
    /\ phase' \in {"idle", "approver", "owner"}
    /\ UNCHANGED <<height, base, before>>
    /\ names' \in NamesMap
    /\ pending' \in PendingMap
    /\ IsFrame(F)
    /\ undo' = [undo EXCEPT ![height] = F] \/ (undo' = undo /\ F = undo[height])
    /\ Revert(names', F.names) = Revert(names, undo[height].names)
    /\ Revert(pending', F.pending) = Revert(pending, undo[height].pending)
    /\ expiries' = IndexOf(names')
    /\ NotOverdue(names', height)
    /\ mined' \in [Txids -> Heights]

(* The index of a map of name states holds heights and names. *)
LEMMA IndexType ==
    ASSUME NEW nm \in NamesMap
    PROVE  IndexOf(nm) \subseteq Heights \X Names
<1>1. \A n \in Names : ExpiryEntry(n, state_of(nm, n)) \subseteq Heights \X Names
  BY EntryType, StateOfType
<1>2. QED
  BY <1>1 DEF IndexOf

(* Steps inside a block preserve the invariant. *)
LEMMA InBlockInv ==
    ASSUME Inv, NEW F, InBlock(F)
    PROVE  Inv'
<1>1. height \in base + 1 .. height /\ base \in Nat /\ height \in Nat
  BY Constants DEF Inv, TypeOK, InBlock
<1>2. height' = height /\ base' = base /\ before' = before
  BY DEF InBlock
<1>3. /\ DOMAIN undo' = base + 1 .. height
      /\ undo'[height] = F
      /\ \A h \in base + 1 .. height : h # height => undo'[h] = undo[h]
  BY <1>1 DEF Inv, TypeOK, InBlock
<1>4. TypeOK'
  <2>1. \A h \in base + 1 .. height : IsFrame(undo'[h])
    BY <1>3 DEF Inv, TypeOK, InBlock
  <2>2. expiries' \subseteq Heights \X Names
    BY IndexType DEF InBlock
  <2>3. phase' # "idle" => base' < height'
    BY <1>2 DEF Inv, TypeOK, InBlock
  <2>4. QED
    BY <1>2, <1>3, <2>1, <2>2, <2>3 DEF Inv, TypeOK, InBlock, IsFrame
<1>5. UndoExact'
  <2>1. SUFFICES ASSUME NEW h \in base + 1 .. height
                 PROVE  /\ Revert(After(h)'.names, undo'[h].names) = before[h].names
                        /\ Revert(After(h)'.pending, undo'[h].pending) = before[h].pending
    BY <1>2 DEF UndoExact
  <2>2. CASE h = height
    BY <1>2, <1>3, <2>2 DEF Inv, UndoExact, After, InBlock
  <2>3. CASE h # height
    BY <1>2, <1>3, <2>3 DEF Inv, UndoExact, After
  <2>4. QED
    BY <2>2, <2>3
<1>6. ExpiryIndexExact' /\ NothingOverdue'
  BY <1>2 DEF InBlock, ExpiryIndexExact, NothingOverdue, IndexOf, NotOverdue
<1>7. PastNotOverdue'
  BY <1>2 DEF Inv, PastNotOverdue, NotOverdue
<1>8. QED
  BY <1>4, <1>5, <1>6, <1>7 DEF Inv

(* The frame of the block in progress, with one more name remembered. *)
LEMMA FrameName ==
    ASSUME Inv, phase # "idle", NEW n \in Names, NEW q, DOMAIN q \subseteq Txids,
           q \in [DOMAIN q -> PendingRecord \cup {Absent}]
    PROVE  IsFrame([names |-> Remember(undo[height].names, n, names[n]), pending |-> q])
<1>1. IsFrame(undo[height])
  BY Constants DEF Inv, TypeOK
<1> DEFINE f == Remember(undo[height].names, n, names[n])
<1>2. DOMAIN f \subseteq Names /\ f \in [DOMAIN f -> NameState \cup {Absent}]
  <2>1. names[n] \in NameState \cup {Absent}
    BY DEF Inv, TypeOK, NamesMap
  <2>2. QED
    BY <1>1, <2>1, RememberType DEF IsFrame
<1> HIDE DEF f
<1>3. QED
  <2>1. IsFrame([names |-> f, pending |-> q])
    BY <1>2 DEF IsFrame
  <2>2. QED
    BY <2>1 DEF f

(* The frame of the block in progress, with one more pending record. *)
LEMMA FramePending ==
    ASSUME Inv, phase # "idle", NEW t \in Txids, NEW q, DOMAIN q \subseteq Names,
           q \in [DOMAIN q -> NameState \cup {Absent}]
    PROVE  IsFrame([names |-> q, pending |-> Remember(undo[height].pending, t, pending[t])])
<1>1. IsFrame(undo[height])
  BY Constants DEF Inv, TypeOK
<1> DEFINE f == Remember(undo[height].pending, t, pending[t])
<1>2. DOMAIN f \subseteq Txids /\ f \in [DOMAIN f -> PendingRecord \cup {Absent}]
  <2>1. pending[t] \in PendingRecord \cup {Absent}
    BY DEF Inv, TypeOK, PendingMap
  <2>2. QED
    BY <1>1, <2>1, RememberType DEF IsFrame
<1> HIDE DEF f
<1>3. QED
  <2>1. IsFrame([names |-> q, pending |-> f])
    BY <1>2 DEF IsFrame
  <2>2. QED
    BY <2>1 DEF f

(* set_name(): what writing one name inside a block gives. *)
LEMMA WriteName ==
    ASSUME Inv, phase # "idle", NEW n \in Names, NEW s \in NameState, SetName(n, s),
           s.binding # Unbound => s.binding.expiry > height
    PROVE  /\ names' \in NamesMap
           /\ expiries' = IndexOf(names')
           /\ NotOverdue(names', height)
           /\ Revert(names', Remember(undo[height].names, n, names[n]))
                = Revert(names, undo[height].names)
<1>1. names \in NamesMap /\ names' = [names EXCEPT ![n] = s]
  BY DEF Inv, TypeOK, SetName
<1>2. names' \in NamesMap
  BY <1>1 DEF NamesMap
<1>3. expiries' = IndexOf(names')
  <2>1. Reindex(IndexOf(names), names, n, s) = IndexOf([names EXCEPT ![n] = s])
    BY <1>1, ReindexExact, Zenon
  <2>2. QED
    BY <1>1, <2>1, Zenon DEF Inv, ExpiryIndexExact, SetName
<1>4. NotOverdue(names', height)
  <2>1. s # Absent
    BY SentinelAssumption
  <2>2. state_of(names', n) = s
    BY <1>1, <2>1 DEF state_of, NamesMap
  <2>3. \A m \in Names \ {n} : state_of(names', m) = state_of(names, m)
    BY <1>1 DEF state_of, NamesMap
  <2>4. NotOverdue(names, height)
    BY DEF Inv, NothingOverdue
  <2>5. QED
    BY <2>2, <2>3, <2>4 DEF NotOverdue, IsBound
<1>5. Revert(names', Remember(undo[height].names, n, names[n])) = Revert(names, undo[height].names)
  <2>1. n \in DOMAIN names
    BY <1>1 DEF NamesMap
  <2>2. Revert([names EXCEPT ![n] = s], Remember(undo[height].names, n, names[n]))
          = Revert(names, undo[height].names)
    BY <2>1, RememberReverts, Zenon
  <2>3. QED
    BY <1>1, <2>2, Zenon
<1>6. QED
  BY <1>2, <1>3, <1>4, <1>5

(* Writing one pending record inside a block. *)
LEMMA WritePending ==
    ASSUME Inv, NEW t \in Txids, NEW p \in PendingRecord,
           pending' = [pending EXCEPT ![t] = p]
    PROVE  /\ pending' \in PendingMap
           /\ Revert(pending', Remember(undo[height].pending, t, pending[t]))
                = Revert(pending, undo[height].pending)
<1>1. pending \in [Txids -> PendingRecord \cup {Absent}]
  BY DEF Inv, TypeOK, PendingMap
<1>2. pending' \in PendingMap
  BY <1>1 DEF PendingMap
<1>3. Revert([pending EXCEPT ![t] = p], Remember(undo[height].pending, t, pending[t]))
        = Revert(pending, undo[height].pending)
  <2>1. t \in DOMAIN pending
    BY <1>1
  <2>2. QED
    BY <2>1, RememberReverts, Zenon
<1>4. QED
  BY <1>2, <1>3, Zenon

(* Names left alone inside a block keep their part of the invariant. *)
LEMMA SameNames ==
    ASSUME Inv, UNCHANGED <<names, expiries>>
    PROVE  /\ names' \in NamesMap
           /\ expiries' = IndexOf(names')
           /\ NotOverdue(names', height)
BY DEF Inv, TypeOK, ExpiryIndexExact, NothingOverdue, NotOverdue, IndexOf

(* Mining a transaction in the current block. *)
LEMMA MinedType ==
    ASSUME Inv, NEW t \in Txids, mined' = [mined EXCEPT ![t] = height]
    PROVE  mined' \in [Txids -> Heights]
BY Constants DEF Inv, TypeOK, Heights

(* The frame of the block in progress. *)
LEMMA CurrentFrame ==
    ASSUME Inv, phase # "idle"
    PROVE  /\ height \in base + 1 .. height
           /\ IsFrame(undo[height])
BY Constants DEF Inv, TypeOK

(* Steps inside a block that leave the maps alone preserve the invariant. *)
LEMMA QuietInv ==
    ASSUME Inv, phase # "idle", phase' \in {"idle", "approver", "owner"},
           UNCHANGED <<height, base, before, names, pending, expiries, undo>>,
           mined' \in [Txids -> Heights]
    PROVE  Inv'
<1>1. InBlock(undo[height])
  BY CurrentFrame, SameNames DEF InBlock, Inv, TypeOK
<1>2. QED
  BY <1>1, InBlockInv

-----------------------------------------------------------------------------
(* One lemma per operation. *)

(* approve and complete *)
LEMMA ApproveInv ==
    ASSUME Inv, NEW t \in Txids, NEW commit, Approve(t, commit)
    PROVE  Inv'
<1> DEFINE p == Approved(t)
           key == Rec[t].record_txid
           applies == p.completed /\ CompletionApplies(p)
<1>0. /\ phase # "idle" /\ phase' \in {"idle", "approver", "owner"}
      /\ UNCHANGED <<height, base, before>>
      /\ mined' \in [Txids -> Heights]
  BY MinedType DEF Approve
<1>1. CASE ~ApprovalCounts(t, commit)
  <2>1. UNCHANGED <<names, pending, expiries, undo>>
    BY <1>1 DEF Approve
  <2>2. QED
    BY <1>0, <2>1, QuietInv
<1>2. CASE ApprovalCounts(t, commit)
  <2>1. p \in PendingRecord /\ key \in Txids /\ p.name \in Names
    BY <1>2, ApprovedType DEF Inv, PendingRecord
  <2>2. pending' = [pending EXCEPT ![key] = p]
    BY <1>2 DEF Approve
  <2>3. IsFrame(undo[height])
    BY <1>0, CurrentFrame
  <2>4. CASE ~applies
    <3> DEFINE F == [names |-> undo[height].names,
                     pending |-> Remember(undo[height].pending, key, pending[key])]
    <3>1. UNCHANGED <<names, expiries>> /\ undo' = [undo EXCEPT ![height] = F]
      BY <1>2, <2>4 DEF Approve
    <3>2. IsFrame(F)
      BY <1>0, <2>1, <2>3, FramePending DEF IsFrame
    <3>3. InBlock(F)
      BY <1>0, <2>1, <2>2, <3>1, <3>2, WritePending, SameNames DEF InBlock
    <3>4. QED
      BY <3>3, InBlockInv
  <2>5. CASE applies
    <3> DEFINE s == CompletedState(p, t)
               F == [names |-> Remember(undo[height].names, p.name, names[p.name]),
                     pending |-> Remember(undo[height].pending, key, pending[key])]
    <3>1. SetName(p.name, s) /\ undo' = [undo EXCEPT ![height] = F]
      BY <1>2, <2>5 DEF Approve
    <3>2. s \in NameState
      BY <2>1, <2>5, CompletedType DEF Inv
    <3>3. s.binding # Unbound => s.binding.expiry > height
      <4> DEFINE o == state_of(names, p.name)
      <4>1. o \in NameState
        BY <2>1, StateOfType DEF Inv, TypeOK
      <4>2. s.binding.expiry = IF p.kind = "Request" THEN height + ExpiryBlocks
                                                     ELSE o.binding.expiry
        BY <4>1 DEF CompletedState, NameState
      <4>3. CASE p.kind = "Request"
        BY <4>2, <4>3, Constants DEF Inv, TypeOK
      <4>4. CASE p.kind = "Update"
        <5>1. o.binding # Unbound
          BY <2>5, <4>4 DEF CompletionApplies
        <5>2. o.binding.expiry > height
          BY <2>1, <5>1 DEF Inv, NothingOverdue, NotOverdue, IsBound
        <5>3. QED
          BY <4>2, <4>4, <5>2
      <4>5. QED
        BY <2>1, <4>3, <4>4 DEF PendingRecord
    <3> HIDE DEF s, p
    <3>4. IsFrame(F)
      <4> DEFINE q == Remember(undo[height].pending, key, pending[key])
      <4>1. DOMAIN q \subseteq Txids /\ q \in [DOMAIN q -> PendingRecord \cup {Absent}]
        <5>1. IsFrame([names |-> undo[height].names, pending |-> q])
          BY <1>0, <2>1, <2>3, FramePending DEF IsFrame
        <5> HIDE DEF q
        <5>2. QED
          BY <5>1 DEF IsFrame
      <4> HIDE DEF q
      <4>2. QED
        <5>1. IsFrame([names |-> Remember(undo[height].names, p.name, names[p.name]), pending |-> q])
          BY <1>0, <2>1, <4>1, FrameName
        <5>2. QED
          BY <5>1 DEF q
    <3>5. InBlock(F)
      BY <1>0, <2>1, <2>2, <3>1, <3>2, <3>3, <3>4, WritePending, WriteName DEF InBlock
    <3>6. QED
      BY <3>5, InBlockInv
  <2>6. QED
    BY <2>4, <2>5
<1>3. QED
  BY <1>1, <1>2

(* vote *)
LEMMA VoteInv ==
    ASSUME Inv, NEW t \in Txids, NEW commit, NEW suspend \in BOOLEAN, Vote(t, commit, suspend)
    PROVE  Inv'
<1>0. /\ phase # "idle" /\ phase' \in {"idle", "approver", "owner"}
      /\ UNCHANGED <<height, base, before, pending>>
      /\ mined' \in [Txids -> Heights]
  BY MinedType DEF Vote
<1>1. CASE ~VoteCounts(t, commit, suspend)
  <2>1. UNCHANGED <<names, expiries, undo>>
    BY <1>1 DEF Vote
  <2>2. QED
    BY <1>0, <2>1, QuietInv
<1>2. CASE VoteCounts(t, commit, suspend)
  <2> DEFINE n == Rec[t].name
             o == state_of(names, n)
             s == Voted(o, Rec[t].author, suspend)
             F == [names |-> Remember(undo[height].names, n, names[n]),
                   pending |-> undo[height].pending]
  <2>1. n \in Names /\ Rec[t].author \in Keys
    BY Constants DEF Record
  <2>2. o \in NameState
    BY <2>1, StateOfType DEF Inv, TypeOK
  <2>3. s \in NameState
    BY <2>1, <2>2, VotedType
  <2>4. SetName(n, s) /\ undo' = [undo EXCEPT ![height] = F]
    BY <1>2 DEF Vote
  <2>5. s.binding = o.binding
    BY <2>2 DEF Voted, NameState
  <2>6. s.binding # Unbound => s.binding.expiry > height
    BY <2>1, <2>5 DEF Inv, NothingOverdue, NotOverdue, IsBound
  <2>7. IsFrame(F)
    BY <1>0, <2>1, CurrentFrame, FrameName DEF IsFrame
  <2> HIDE DEF s, o
  <2>8. InBlock(F)
    BY <1>0, <2>1, <2>3, <2>4, <2>6, <2>7, WriteName DEF InBlock, Inv, TypeOK
  <2>9. QED
    BY <2>8, InBlockInv
<1>3. QED
  BY <1>1, <1>2

(* request, update, renew *)
LEMMA OwnerRecordInv ==
    ASSUME Inv, NEW t \in Txids, NEW commit, OwnerRecord(t, commit)
    PROVE  Inv'
<1>0. /\ phase # "idle" /\ phase' \in {"idle", "approver", "owner"}
      /\ UNCHANGED <<height, base, before>>
      /\ mined' \in [Txids -> Heights]
  BY MinedType DEF OwnerRecord
<1>1. CASE UNCHANGED <<names, pending, expiries, undo>>
  BY <1>0, <1>1, QuietInv
<1>2. ASSUME /\ pending' = [pending EXCEPT ![t] = NewPending(t)]
             /\ undo' = [undo EXCEPT ![height] =
                  [names |-> @.names, pending |-> Remember(@.pending, t, pending[t])]]
             /\ UNCHANGED <<names, expiries>>
      PROVE  Inv'
  <2> DEFINE F == [names |-> undo[height].names,
                   pending |-> Remember(undo[height].pending, t, pending[t])]
  <2>1. NewPending(t) \in PendingRecord
    BY NewPendingType DEF Inv
  <2>2. IsFrame(F)
    BY <1>0, CurrentFrame, FramePending DEF IsFrame
  <2>3. undo' = [undo EXCEPT ![height] = F]
    BY <1>2
  <2>4. InBlock(F)
    BY <1>0, <1>2, <2>1, <2>2, <2>3, WritePending, SameNames DEF InBlock
  <2>5. QED
    BY <2>4, InBlockInv
<1>3. ASSUME /\ Changes(t, commit)
             /\ SetName(Rec[t].name, ChangedState(t))
             /\ undo' = [undo EXCEPT ![height] =
                  [names |-> Remember(@.names, Rec[t].name, names[Rec[t].name]), pending |-> @.pending]]
             /\ UNCHANGED pending
      PROVE  Inv'
  <2> DEFINE n == Rec[t].name
             s == ChangedState(t)
             o == state_of(names, n)
             F == [names |-> Remember(undo[height].names, n, names[n]),
                   pending |-> undo[height].pending]
  <2>1. n \in Names
    BY Constants DEF Record
  <2>2. s \in NameState /\ o \in NameState
    BY <1>3, <2>1, ChangedType, StateOfType DEF Inv, TypeOK
  <2>3. s.binding.expiry = IF Rec[t].op = "Renew" THEN height + ExpiryBlocks ELSE o.binding.expiry
    BY <2>2 DEF ChangedState, NameState
  <2>4. s.binding.expiry > height
    <3>1. CASE Rec[t].op = "Renew"
      BY <2>3, <3>1, Constants DEF Inv, TypeOK
    <3>2. CASE Rec[t].op # "Renew"
      <4>1. o.binding # Unbound
        BY <1>3 DEF Changes, OwnedBy
      <4>2. o.binding.expiry > height
        BY <2>1, <4>1 DEF Inv, NothingOverdue, NotOverdue, IsBound
      <4>3. QED
        BY <2>3, <3>2, <4>2
    <3>3. QED
      BY <3>1, <3>2
  <2>5. IsFrame(F)
    BY <1>0, <2>1, CurrentFrame, FrameName DEF IsFrame
  <2>6. undo' = [undo EXCEPT ![height] = F]
    BY <1>3
  <2>7. SetName(n, s)
    BY <1>3
  <2>8. UNCHANGED pending
    BY <1>3
  <2> HIDE DEF s
  <2>9. InBlock(F)
    BY <1>0, <2>1, <2>2, <2>4, <2>5, <2>6, <2>7, <2>8, WriteName DEF InBlock, Inv, TypeOK
  <2>10. QED
    BY <2>9, InBlockInv
<1>4. QED
  BY <1>1, <1>2, <1>3 DEF OwnerRecord

(* claims and assign *)
LEMMA ClaimsInv ==
    ASSUME Inv, Claims
    PROVE  Inv'
<1>0. /\ phase # "idle" /\ phase' \in {"idle", "approver", "owner"}
      /\ UNCHANGED <<height, base, before, pending>>
  BY DEF Claims
<1>1a. PICK S \in SUBSET Txids : \E commits \in [S -> Commits] : Assign(S, commits)
  BY DEF Claims
<1>1. PICK commits \in [S -> Commits] : Assign(S, commits)
  BY <1>1a
<1> DEFINE winners == {t \in S : Wins(S, commits, t) /\ HasExpiry}
           won == {Rec[t].name : t \in winners}
           winner(n) == CHOOSE t \in winners : Rec[t].name = n
           old == undo[height].names
           F == [names |-> [n \in DOMAIN old \cup won |-> IF n \in DOMAIN old THEN old[n] ELSE names[n]],
                 pending |-> undo[height].pending]
<1>2. /\ names' = [n \in Names |-> IF n \in won THEN ClaimedState(n, winner(n)) ELSE names[n]]
      /\ expiries' = (expiries \ UNION {ExpiryEntry(n, state_of(names, n)) : n \in won})
                       \cup {<<height + ExpiryBlocks, n>> : n \in won}
      /\ undo' = [undo EXCEPT ![height] = F]
      /\ mined' = [t \in Txids |-> IF t \in S THEN height ELSE mined[t]]
  BY <1>1 DEF Assign
<1>3. won \subseteq Names
  BY Constants DEF Record
<1>4. ASSUME NEW n \in won
      PROVE  /\ winner(n) \in Txids
             /\ HasExpiry
             /\ ~IsBound(names, n)
  <2>1. PICK t \in winners : Rec[t].name = n
    BY <1>4
  <2>2. HasExpiry
    BY <2>1
  <2>3. ~IsBound(names, n)
    BY <2>1 DEF Wins, Candidates
  <2>4. winner(n) \in winners
    BY <2>1
  <2>5. QED
    BY <2>2, <2>3, <2>4
<1>5. ASSUME NEW n \in won
      PROVE  ClaimedState(n, winner(n)) \in NameState
  BY <1>3, <1>4, ClaimedType DEF Inv
<1> HIDE DEF winners, won, winner
<1>6. names \in NamesMap /\ height \in Nat
  BY Constants DEF Inv, TypeOK
<1>7. names' \in NamesMap
  BY <1>2, <1>5, <1>6 DEF NamesMap
<1>8. \A n \in Names \ won : state_of(names', n) = state_of(names, n)
  BY <1>2 DEF state_of
<1>9. ASSUME NEW n \in won
      PROVE  /\ state_of(names', n) \in NameState
             /\ state_of(names', n).binding # Unbound
             /\ state_of(names', n).binding.expiry = height + ExpiryBlocks
  <2>1. names'[n] = ClaimedState(n, winner(n))
    BY <1>2, <1>3
  <2>2. state_of(names', n) = ClaimedState(n, winner(n))
    BY <1>5, <2>1, SentinelAssumption DEF state_of
  <2>3. state_of(names, n) \in NameState
    BY <1>3, <1>6, StateOfType
  <2> DEFINE t == winner(n)
             b == [owner |-> Rec[t].author, target |-> Rec[t].target,
                   expiry |-> height + ExpiryBlocks, claim_txid |-> t, last_txid |-> t]
  <2>4. ClaimedState(n, t).binding = b
    BY <2>3 DEF ClaimedState, NameState
  <2>5. Rec[t] \in Record /\ t \in Txids /\ height + ExpiryBlocks \in Heights
    BY <1>4, <1>6, Constants DEF HasExpiry, Heights
  <2>6. b \in Bound
    BY <2>5 DEF Bound, Record, Targets
  <2>7. QED
    BY <1>5, <2>2, <2>4, <2>6, SentinelAssumption
<1>10. NotOverdue(names', height)
  <2>1. SUFFICES ASSUME NEW n \in Names, IsBound(names', n)
                 PROVE  state_of(names', n).binding.expiry > height
    BY DEF NotOverdue
  <2>2. CASE n \in won
    BY <1>6, <1>9, <2>2, Constants
  <2>3. CASE n \notin won
    BY <1>8, <2>1, <2>3 DEF Inv, NothingOverdue, NotOverdue, IsBound
  <2>4. QED
    BY <2>2, <2>3
<1>11. expiries' = IndexOf(names')
  <2>1. \A n \in won : ExpiryEntry(n, state_of(names, n)) = {}
    BY <1>4 DEF ExpiryEntry, IsBound
  <2>2. \A n \in won : ExpiryEntry(n, state_of(names', n)) = {<<height + ExpiryBlocks, n>>}
    BY <1>9 DEF ExpiryEntry
  <2>3. expiries = IndexOf(names)
    BY DEF Inv, ExpiryIndexExact
  <2>4. \A e : e \in IndexOf(names) <=> \E n \in Names \ won : e \in ExpiryEntry(n, state_of(names, n))
    BY <1>3, <2>1 DEF IndexOf
  <2>5. \A e : e \in IndexOf(names') <=>
          \/ \E n \in Names \ won : e \in ExpiryEntry(n, state_of(names, n))
          \/ \E n \in won : e = <<height + ExpiryBlocks, n>>
    <3>1. \A e : e \in IndexOf(names') <=>
            \/ \E n \in Names \ won : e \in ExpiryEntry(n, state_of(names', n))
            \/ \E n \in won : e \in ExpiryEntry(n, state_of(names', n))
      BY <1>3 DEF IndexOf
    <3>2. QED
      BY <1>8, <2>2, <3>1
  <2>6. \A e : e \in expiries' <=> e \in IndexOf(names')
    BY <1>2, <2>1, <2>3, <2>4, <2>5
  <2>7. QED
    BY <2>6
<1>12. IsFrame(undo[height])
  BY <1>0, CurrentFrame
<1>13. IsFrame(F)
  BY <1>3, <1>6, <1>12 DEF IsFrame, NamesMap
<1>14. Revert(names', F.names) = Revert(names, old)
  <2>1. DOMAIN names' = Names /\ DOMAIN names = Names
    BY <1>6, <1>7 DEF NamesMap
  <2>2. \A n \in Names : (IF n \in DOMAIN F.names THEN F.names[n] ELSE names'[n])
                           = (IF n \in DOMAIN old THEN old[n] ELSE names[n])
    BY <1>2
  <2>3. QED
    BY <2>1, <2>2 DEF Revert
<1>15. mined' \in [Txids -> Heights]
  BY <1>2, Constants DEF Inv, TypeOK, Heights
<1>16. InBlock(F)
  BY <1>0, <1>2, <1>7, <1>10, <1>11, <1>13, <1>14, <1>15 DEF InBlock, Inv, TypeOK
<1>17. QED
  BY <1>16, InBlockInv

(* connect_delta opens a frame and expire() unbinds what is due. *)
LEMMA ConnectInv ==
    ASSUME Inv, Connect
    PROVE  Inv'
<1> DEFINE H == height + 1
           gone == {m \in Due(H) : IsBound(names, m)}
           F == [names |-> [n \in gone |-> names[n]], pending |-> NoFrame.pending]
           snap == [names |-> names, pending |-> pending]
<1>1. /\ names' = Expired(names, H)
      /\ undo' = [h \in base + 1 .. H |-> IF h = H THEN F ELSE undo[h]]
      /\ before' = [h \in base + 1 .. H |-> IF h = H THEN snap ELSE before[h]]
      /\ height' = H /\ base' = base /\ pending' = pending /\ mined' = mined
      /\ H <= MaxU64 /\ phase' = "approver"
  BY DEF Connect, HasNext
<1>2. /\ base \in Nat /\ height \in Nat /\ H \in Nat /\ base <= height /\ GenesisHeight <= base
      /\ names \in NamesMap /\ pending \in PendingMap /\ DOMAIN names = Names
  BY Constants DEF Inv, TypeOK, NamesMap
<1>3. gone \subseteq Names
  BY DEF Due
<1>4. \A n \in gone : names[n] \in NameState
  BY <1>2, <1>3 DEF IsBound, state_of, UnboundName, NamesMap
<1>5. \A n \in Names : names'[n] = IF n \in gone THEN [names[n] EXCEPT !.binding = Unbound] ELSE names[n]
  BY <1>1 DEF Expired
<1>6. DOMAIN names' = Names /\ names' = [n \in Names |-> names'[n]]
  BY <1>1 DEF Expired
<1>7. \A n \in gone : names'[n] \in NameState /\ names'[n].binding = Unbound
  BY <1>3, <1>4, <1>5 DEF NameState
<1>8. names' \in NamesMap
  BY <1>2, <1>5, <1>6, <1>7 DEF NamesMap
<1>9. /\ \A n \in gone : state_of(names', n).binding = Unbound
      /\ \A n \in Names \ gone : state_of(names', n) = state_of(names, n)
  BY <1>3, <1>5, <1>7, SentinelAssumption DEF state_of
<1>10. \A n \in Names : IsBound(names, n) =>
          <<state_of(names, n).binding.expiry, n>> \in expiries
  BY DEF Inv, ExpiryIndexExact, IndexOf, ExpiryEntry, IsBound
<1>11. \A n \in Names : IsBound(names, n) => state_of(names, n).binding.expiry \in Nat
  BY <1>2, StateOfType DEF IsBound, NameState, Bound, Heights
<1>12. NotOverdue(names', H)
  <2>1. SUFFICES ASSUME NEW n \in Names, IsBound(names', n)
                 PROVE  state_of(names', n).binding.expiry > H
    BY DEF NotOverdue
  <2>2. n \notin gone
    BY <1>9, <2>1 DEF IsBound
  <2>3. state_of(names', n) = state_of(names, n) /\ IsBound(names, n)
    BY <1>9, <2>1, <2>2 DEF IsBound
  <2>4. n \notin Due(H)
    BY <2>2, <2>3
  <2>5. ~(state_of(names, n).binding.expiry <= H)
    BY <1>10, <2>3, <2>4 DEF Due
  <2>6. QED
    BY <1>2, <1>11, <2>3, <2>5
<1>13. expiries' = IndexOf(names')
  <2>1. \A e : e \in expiries <=> \E n \in Names : e \in ExpiryEntry(n, state_of(names, n))
    BY DEF Inv, ExpiryIndexExact, IndexOf
  <2>2. \A e : e \in IndexOf(names') <=> \E n \in Names : e \in ExpiryEntry(n, state_of(names', n))
    BY DEF IndexOf
  <2>3. \A e : e \in expiries' <=>
          /\ e \in expiries
          /\ ~(e[1] <= H /\ ~IsBound(names, e[2]))
          /\ ~(\E n \in Due(H) : e \in ExpiryEntry(n, state_of(names, n)))
    BY DEF Connect
  <2>4. ASSUME NEW e \in expiries PROVE IsBound(names, e[2])
    BY <2>1 DEF ExpiryEntry, IsBound
  <2>5. \A n \in gone : ExpiryEntry(n, state_of(names', n)) = {}
    BY <1>9 DEF ExpiryEntry
  <2>6. \A n \in Due(H) : n \in gone \/ ExpiryEntry(n, state_of(names, n)) = {}
    BY DEF ExpiryEntry, IsBound
  <2>7. ASSUME NEW e, e \in expiries' PROVE e \in IndexOf(names')
    <3>1. PICK n \in Names : e \in ExpiryEntry(n, state_of(names, n))
      BY <2>1, <2>3, <2>7
    <3>2. n \notin gone
      BY <2>3, <2>7, <3>1
    <3>3. QED
      BY <1>9, <2>2, <3>1, <3>2
  <2>8. ASSUME NEW e, e \in IndexOf(names') PROVE e \in expiries'
    <3>1. PICK n \in Names : e \in ExpiryEntry(n, state_of(names', n))
      BY <2>2, <2>8
    <3>2. n \notin gone
      BY <2>5, <3>1
    <3>3. e \in ExpiryEntry(n, state_of(names, n)) /\ e \in expiries
      BY <1>9, <2>1, <3>1, <3>2
    <3>4. ASSUME NEW m \in Due(H), e \in ExpiryEntry(m, state_of(names, m)) PROVE FALSE
      <4>1. m \in gone
        BY <2>6, <3>4
      <4>2. m # n
        BY <3>2, <4>1
      <4>3. QED
        BY <3>3, <3>4, <4>2, EntriesDiffer
    <3>5. QED
      BY <2>3, <2>4, <3>3, <3>4
  <2>9. QED
    BY <2>7, <2>8
<1> HIDE DEF gone
<1>14. IsFrame(F)
  BY <1>3, <1>4 DEF IsFrame, NoFrame
<1>15. Revert(names', F.names) = names /\ Revert(pending', F.pending) = pending
  <2>1. \A n \in Names : (IF n \in DOMAIN F.names THEN F.names[n] ELSE names'[n]) = names[n]
    BY <1>5
  <2>2. Revert(names', F.names) = [n \in Names |-> names[n]]
    BY <1>6, <2>1 DEF Revert
  <2>3. names = [n \in Names |-> names[n]]
    BY <1>2 DEF NamesMap
  <2>4. pending = [t \in DOMAIN pending |-> pending[t]]
    BY <1>2 DEF PendingMap
  <2>5. DOMAIN F.pending = {}
    BY DEF NoFrame
  <2>6. Revert(pending', F.pending) = pending
    BY <1>1, <2>4, <2>5 DEF Revert
  <2>7. QED
    BY <2>2, <2>3, <2>6
<1> HIDE DEF F
<1>16. H \in base + 1 .. H /\ \A h \in base + 1 .. H : h = H \/ h \in base + 1 .. height
  BY <1>2
<1>17. TypeOK'
  <2>1. snap \in [names : NamesMap, pending : PendingMap]
    BY <1>2
  <2>2. before' \in [base + 1 .. H -> [names : NamesMap, pending : PendingMap]]
    BY <1>1, <1>16, <2>1 DEF Inv, TypeOK
  <2>3. DOMAIN undo' = base + 1 .. H /\ \A h \in base + 1 .. H : IsFrame(undo'[h])
    BY <1>1, <1>14, <1>16 DEF Inv, TypeOK
  <2>4. expiries' \subseteq Heights \X Names
    BY <1>8, <1>13, IndexType
  <2>5. /\ base' \in GenesisHeight..height'
        /\ height' \in GenesisHeight..MaxU64
        /\ phase' # "idle" => base' < height'
        /\ phase' \in {"idle", "approver", "owner"}
    BY <1>1, <1>2, Constants
  <2>6. pending' \in PendingMap /\ mined' \in [Txids -> Heights]
    BY <1>1, <1>2 DEF Inv, TypeOK
  <2>7. height' = H /\ base' = base
    BY <1>1
  <2> HIDE DEF H
  <2>8. QED
    BY <1>8, <2>2, <2>3, <2>4, <2>5, <2>6, <2>7 DEF TypeOK, IsFrame
<1>18. UndoExact'
  <2>1. SUFFICES ASSUME NEW h \in base + 1 .. H
                 PROVE  /\ Revert(After(h)'.names, undo'[h].names) = before'[h].names
                        /\ Revert(After(h)'.pending, undo'[h].pending) = before'[h].pending
    BY <1>1 DEF UndoExact
  <2>2. CASE h = H
    BY <1>1, <1>15, <2>2 DEF After
  <2>3. CASE h # H
    <3>1. h \in base + 1 .. height
      BY <1>16, <2>3
    <3>2. undo'[h] = undo[h] /\ before'[h] = before[h]
      BY <1>1, <2>3
    <3>3. After(h)' = After(h)
      <4>1. CASE h = height
        BY <1>1, <1>2, <1>16, <2>3, <4>1 DEF After
      <4>2. CASE h # height
        <5>1. h + 1 \in base + 1 .. H /\ h + 1 # H
          BY <1>2, <3>1, <4>2
        <5>2. QED
          BY <1>1, <2>3, <4>2, <5>1 DEF After
      <4>3. QED
        BY <4>1, <4>2
    <3>4. QED
      BY <3>1, <3>2, <3>3 DEF Inv, UndoExact
  <2>4. QED
    BY <2>2, <2>3
<1>19. PastNotOverdue'
  <2>1. SUFFICES ASSUME NEW h \in base + 1 .. H PROVE NotOverdue(before'[h].names, h - 1)
    BY <1>1 DEF PastNotOverdue, NotOverdue
  <2>2. CASE h = H
    <3>1. before'[h].names = names /\ h - 1 = height
      BY <1>1, <1>2, <2>2
    <3>2. QED
      BY <3>1 DEF Inv, NothingOverdue
  <2>3. CASE h # H
    BY <1>1, <1>16, <2>3 DEF Inv, PastNotOverdue
  <2>4. QED
    BY <2>2, <2>3
<1>20. ExpiryIndexExact' /\ NothingOverdue'
  BY <1>1, <1>12, <1>13 DEF ExpiryIndexExact, NothingOverdue, NotOverdue, IndexOf
<1>21. QED
  BY <1>17, <1>18, <1>19, <1>20 DEF Inv

(* disconnect_delta lands in the snapshot taken before the block. *)
LEMMA DisconnectInv ==
    ASSUME Inv, Disconnect
    PROVE  Inv'
<1> DEFINE L == height - 1
<1>1. /\ height' = L /\ base' = base /\ phase' = phase
      /\ undo' = [h \in base + 1 .. L |-> undo[h]]
      /\ before' = [h \in base + 1 .. L |-> before[h]]
      /\ names' = Revert(names, undo[height].names)
      /\ pending' = Revert(pending, undo[height].pending)
      /\ phase = "idle" /\ height > base
  BY DEF Disconnect
<1>2. /\ base \in Nat /\ height \in Nat /\ L \in Nat /\ L >= base /\ GenesisHeight <= base
      /\ height \in base + 1 .. height
  BY <1>1, Constants DEF Inv, TypeOK
<1>3. names' = before[height].names /\ pending' = before[height].pending
  BY <1>1, <1>2 DEF Inv, UndoExact, After
<1>4. names' \in NamesMap /\ pending' \in PendingMap
  BY <1>2, <1>3 DEF Inv, TypeOK
<1>5. \A h \in base + 1 .. L : h \in base + 1 .. height /\ h # height /\ h + 1 \in base + 1 .. height
  BY <1>2
<1>6. expiries' = IndexOf(names')
  <2> DEFINE D == DOMAIN undo[height].names
  <2>1. D \subseteq Names
    BY <1>2 DEF Inv, TypeOK, IsFrame
  <2>2. \A n \in Names \ D : names'[n] = names[n]
    BY <1>1 DEF Revert, Inv, TypeOK, NamesMap
  <2>3. \A n \in Names \ D : state_of(names', n) = state_of(names, n)
    BY <2>2 DEF state_of
  <2>4. \A e : e \in expiries <=> \E n \in Names : e \in ExpiryEntry(n, state_of(names, n))
    BY DEF Inv, ExpiryIndexExact, IndexOf
  <2>5. \A e : e \in IndexOf(names') <=> \E n \in Names : e \in ExpiryEntry(n, state_of(names', n))
    BY DEF IndexOf
  <2>6. \A e : e \in expiries' <=>
          \/ e \in expiries /\ ~\E n \in D : e \in ExpiryEntry(n, state_of(names, n))
          \/ \E n \in D : e \in ExpiryEntry(n, state_of(names', n))
    BY DEF Disconnect
  <2> HIDE DEF D
  <2>7. ASSUME NEW e, e \in expiries' PROVE e \in IndexOf(names')
    <3>1. CASE \E n \in D : e \in ExpiryEntry(n, state_of(names', n))
      BY <2>1, <2>5, <3>1
    <3>2. CASE e \in expiries /\ ~\E n \in D : e \in ExpiryEntry(n, state_of(names, n))
      BY <2>3, <2>4, <2>5, <3>2
    <3>3. QED
      BY <2>6, <2>7, <3>1, <3>2
  <2>8. ASSUME NEW e, e \in IndexOf(names') PROVE e \in expiries'
    <3>1. PICK n \in Names : e \in ExpiryEntry(n, state_of(names', n))
      BY <2>5, <2>8
    <3>2. CASE n \in D
      BY <2>6, <3>1, <3>2
    <3>3. CASE n \notin D
      <4>1. e \in ExpiryEntry(n, state_of(names, n)) /\ e \in expiries
        BY <2>3, <2>4, <3>1, <3>3
      <4>2. ASSUME NEW m \in D PROVE e \notin ExpiryEntry(m, state_of(names, m))
        BY <3>3, <4>1, EntriesDiffer
      <4>3. QED
        BY <2>6, <4>1, <4>2
    <3>4. QED
      BY <3>2, <3>3
  <2>9. QED
    BY <2>7, <2>8
<1>7. NotOverdue(names', L)
  BY <1>2, <1>3 DEF Inv, PastNotOverdue
<1>8. mined' \in [Txids -> Heights]
  <2>1. 0 \in Heights
    BY Constants DEF Heights
  <2>2. QED
    BY <2>1 DEF Disconnect, Inv, TypeOK
<1>9. TypeOK'
  <2>1. before' \in [base + 1 .. L -> [names : NamesMap, pending : PendingMap]]
    BY <1>1, <1>5 DEF Inv, TypeOK
  <2>2. DOMAIN undo' = base + 1 .. L /\ \A h \in base + 1 .. L : IsFrame(undo'[h])
    BY <1>1, <1>5 DEF Inv, TypeOK
  <2>3. expiries' \subseteq Heights \X Names
    BY <1>4, <1>6, IndexType
  <2>4. /\ base' \in GenesisHeight..height'
        /\ height' \in GenesisHeight..MaxU64
        /\ phase' # "idle" => base' < height'
        /\ phase' \in {"idle", "approver", "owner"}
    BY <1>1, <1>2, Constants DEF Inv, TypeOK
  <2>5. height' = L /\ base' = base
    BY <1>1
  <2> HIDE DEF L
  <2>6. QED
    BY <1>4, <1>8, <2>1, <2>2, <2>3, <2>4, <2>5 DEF TypeOK, IsFrame
<1>10. UndoExact'
  <2>1. SUFFICES ASSUME NEW h \in base + 1 .. L
                 PROVE  /\ Revert(After(h)'.names, undo'[h].names) = before'[h].names
                        /\ Revert(After(h)'.pending, undo'[h].pending) = before'[h].pending
    BY <1>1 DEF UndoExact
  <2>2. undo'[h] = undo[h] /\ before'[h] = before[h]
    BY <1>1
  <2>3. After(h).names = before[h + 1].names /\ After(h).pending = before[h + 1].pending
    BY <1>5 DEF After
  <2>4. After(h)'.names = before[h + 1].names /\ After(h)'.pending = before[h + 1].pending
    <3>1. CASE h = L
      <4>1. h + 1 = height
        BY <1>2, <3>1
      <4>2. QED
        BY <1>1, <1>3, <3>1, <4>1 DEF After
    <3>2. CASE h # L
      <4>1. h + 1 \in base + 1 .. L
        BY <1>2, <3>2
      <4>2. QED
        BY <1>1, <3>2, <4>1 DEF After
    <3>3. QED
      BY <3>1, <3>2
  <2>5. QED
    BY <1>5, <2>2, <2>3, <2>4 DEF Inv, UndoExact
<1>11. PastNotOverdue'
  BY <1>1, <1>5 DEF Inv, PastNotOverdue, NotOverdue
<1>12. ExpiryIndexExact' /\ NothingOverdue'
  BY <1>1, <1>6, <1>7 DEF ExpiryIndexExact, NothingOverdue, NotOverdue, IndexOf
<1>13. QED
  BY <1>9, <1>10, <1>11, <1>12 DEF Inv

(* prune forgets the oldest frames and nothing else. *)
LEMMA PruneInv ==
    ASSUME Inv, NEW keep \in Keeps, Prune(keep)
    PROVE  Inv'
<1> DEFINE b == height - keep
<1>1. /\ base' = b /\ height - base >= keep /\ phase = "idle"
      /\ undo' = [h \in b + 1 .. height |-> undo[h]]
      /\ before' = [h \in b + 1 .. height |-> before[h]]
      /\ UNCHANGED <<height, names, pending, expiries, phase, mined>>
  BY DEF Prune
<1>2. /\ base \in Nat /\ height \in Nat /\ keep \in Nat /\ b \in Int
      /\ base <= b /\ b <= height /\ GenesisHeight <= base
  BY <1>1, Constants DEF Inv, TypeOK
<1>3. \A h \in b + 1 .. height : h \in base + 1 .. height
  BY <1>2
<1>4. \A h \in b + 1 .. height : h # height => h + 1 \in b + 1 .. height
  BY <1>2
<1>5. TypeOK'
  <2>1. before' \in [b + 1 .. height -> [names : NamesMap, pending : PendingMap]]
    BY <1>1, <1>3 DEF Inv, TypeOK
  <2>2. DOMAIN undo' = b + 1 .. height /\ \A h \in b + 1 .. height : IsFrame(undo'[h])
    BY <1>1, <1>3 DEF Inv, TypeOK
  <2>3. base' \in GenesisHeight..height' /\ height' \in GenesisHeight..MaxU64
    BY <1>1, <1>2, Constants DEF Inv, TypeOK
  <2>4. base' = b /\ height' = height
    BY <1>1
  <2> HIDE DEF b
  <2>5. QED
    BY <1>1, <2>1, <2>2, <2>3, <2>4 DEF Inv, TypeOK, IsFrame
<1>6. UndoExact'
  <2>1. SUFFICES ASSUME NEW h \in b + 1 .. height
                 PROVE  /\ Revert(After(h)'.names, undo'[h].names) = before'[h].names
                        /\ Revert(After(h)'.pending, undo'[h].pending) = before'[h].pending
    BY <1>1 DEF UndoExact
  <2>2. undo'[h] = undo[h] /\ before'[h] = before[h]
    BY <1>1
  <2>3. After(h)' = After(h)
    BY <1>1, <1>4 DEF After
  <2>4. QED
    BY <1>3, <2>2, <2>3 DEF Inv, UndoExact
<1>7. ExpiryIndexExact' /\ NothingOverdue'
  BY <1>1 DEF Inv, ExpiryIndexExact, NothingOverdue, NotOverdue, IndexOf
<1>8. PastNotOverdue'
  BY <1>1, <1>3 DEF Inv, PastNotOverdue, NotOverdue
<1>9. QED
  BY <1>5, <1>6, <1>7, <1>8 DEF Inv

-----------------------------------------------------------------------------
(* Registry::new satisfies the invariant. *)
LEMMA InitInv == Init => Inv
<1> SUFFICES ASSUME Init PROVE Inv
  OBVIOUS
<1>1. base + 1 .. height = {}
  BY Constants DEF Init
<1>2. 0 \in Heights
  BY Constants DEF Heights
<1>3. TypeOK
  <2>1. DOMAIN undo = {} /\ before \in [{} -> [names : NamesMap, pending : PendingMap]]
    BY DEF Init
  <2>2. expiries \subseteq Heights \X Names
    BY DEF Init
  <2>3. base \in GenesisHeight..height /\ height \in GenesisHeight..MaxU64
    BY Constants DEF Init
  <2>4. mined \in [Txids -> Heights]
    BY <1>2, Constants DEF Init, Heights
  <2>5. QED
    BY <1>1, <2>1, <2>2, <2>3, <2>4 DEF Init, TypeOK, NamesMap, PendingMap
<1>4. \A n \in Names : ~IsBound(names, n)
  BY DEF Init, IsBound, state_of, UnboundName
<1>5. IndexOf(names) = {}
  BY <1>4 DEF IndexOf, ExpiryEntry, IsBound
<1>6. QED
  BY <1>1, <1>3, <1>4, <1>5
  DEF Inv, UndoExact, ExpiryIndexExact, NothingOverdue, PastNotOverdue, NotOverdue, Init

(* Every step of the registry preserves the invariant. *)
LEMMA NextInv == Inv /\ [Next]_vars => Inv'
<1> SUFFICES ASSUME Inv, [Next]_vars PROVE Inv'
  OBVIOUS
<1>1. CASE Connect
  BY <1>1, ConnectInv
<1>2. ASSUME NEW t \in Txids, NEW commit \in 0..height,
             \/ Approve(t, commit)
             \/ \E suspend \in BOOLEAN : Vote(t, commit, suspend)
             \/ OwnerRecord(t, commit)
      PROVE  Inv'
  BY <1>2, ApproveInv, VoteInv, OwnerRecordInv
<1>3. CASE Claims
  BY <1>3, ClaimsInv
<1>4. CASE SkipClaims
  BY <1>4, QuietInv DEF SkipClaims, Inv, TypeOK
<1>5. CASE Finish
  BY <1>5, QuietInv DEF Finish, Inv, TypeOK
<1>6. CASE Disconnect
  BY <1>6, DisconnectInv
<1>7. ASSUME NEW keep \in Keeps, Prune(keep) PROVE Inv'
  BY <1>7, PruneInv
<1>8. CASE UNCHANGED vars
  BY <1>8 DEF vars, Inv, TypeOK, UndoExact, ExpiryIndexExact, NothingOverdue,
              PastNotOverdue, NotOverdue, IndexOf, After, IsFrame
<1>9. QED
  BY <1>1, <1>2, <1>3, <1>4, <1>5, <1>6, <1>7, <1>8 DEF Next, Step

(* Type correctness: the registry's fields always hold what state.rs declares, *)
(* heights never leave their type, and every reversible block has its frame.   *)
THEOREM TypeCorrect == Spec => []TypeOK
<1>1. Inv => TypeOK
  BY DEF Inv
<1>2. QED
  BY InitInv, NextInv, <1>1, PTL DEF Spec

(* disconnect_delta is exact: at every depth that prune left, reverting the    *)
(* undo frame of a block gives the maps as they were before connect_delta.     *)
THEOREM DisconnectExact == Spec => []UndoExact
<1>1. Inv => UndoExact
  BY DEF Inv
<1>2. QED
  BY InitInv, NextInv, <1>1, PTL DEF Spec

(* The expiry index that store, forget and expire maintain never drifts from   *)
(* the bindings.                                                               *)
THEOREM ExpiryIndexCorrect == Spec => []ExpiryIndexExact
<1>1. Inv => ExpiryIndexExact
  BY DEF Inv
<1>2. QED
  BY InitInv, NextInv, <1>1, PTL DEF Spec

(* expire() misses nothing: no binding is ever served at or past its expiry.   *)
THEOREM NeverOverdue == Spec => []NothingOverdue
<1>1. Inv => NothingOverdue
  BY DEF Inv
<1>2. QED
  BY InitInv, NextInv, <1>1, PTL DEF Spec

-----------------------------------------------------------------------------
(* Votes, approvals and owners.  Undoing a block restores a snapshot, and   *)
(* frees the transactions of the block to be mined again: what is claimed   *)
(* of the maps is claimed of every snapshot, and a pending record is dated  *)
(* by the block that holds it.                                              *)

(* The votes of one name, under the policy p. *)
Clean(s, p) ==
    /\ s.suspend_votes \cup s.restore_votes \subseteq p.approvers
    /\ s.suspended => s.suspend_votes = {}
    /\ ~s.suspended => s.restore_votes = {}
    /\ Cardinality(s.suspend_votes) < p.threshold \/ s.suspend_votes = {}
    /\ Cardinality(s.restore_votes) < p.threshold \/ s.restore_votes = {}

(* A pending record that stands for the binding b of the name n. *)
Grants(q, n, b, p) ==
    /\ q # Absent /\ q.completed /\ q.name = n
    /\ q.approvals \subseteq p.approvers /\ Cardinality(q.approvals) >= p.threshold
    /\ q.author = b.owner /\ q.target = b.target

Granted(nm, pd, p) ==
    \A n \in Names : IsBound(nm, n) => \E t \in Txids : Grants(pd[t], n, state_of(nm, n).binding, p)

Justified(pd, p) ==
    \A t \in Txids : pd[t] # Absent =>
        /\ pd[t].approvals \subseteq p.approvers
        /\ pd[t].completed => Cardinality(pd[t].approvals) >= p.threshold

Served(nm, pd, p) ==
    /\ \A n \in Names : Clean(state_of(nm, n), p)
    /\ Justified(pd, p)
    /\ p.mode = "Administered" => Granted(nm, pd, p)

Dated(pd, at, h) == \A t \in Txids : pd[t] # Absent => at[t] \in 1..h

Administered ==
    /\ policy \in Policies
    /\ Served(names, pending, policy) /\ Dated(pending, mined, height)
    /\ \A h \in base + 1 .. height :
          Served(before[h].names, before[h].pending, policy) /\ Dated(before[h].pending, mined, h - 1)

(* What the properties say. *)
LEMMA AdministeredSays == Administered => NoLingeringVotes /\ ServedTargetApproved
<1> SUFFICES ASSUME Administered PROVE NoLingeringVotes /\ ServedTargetApproved
  OBVIOUS
<1>1. NoLingeringVotes
  BY DEF Administered, Served, Clean, NoLingeringVotes, VotesFresh, Approvers, Threshold
<1>2. ServedTargetApproved
  BY DEF Administered, Served, Granted, Grants, ServedTargetApproved, Backed, ApprovedFor,
         Approvers, Threshold, Mode
<1> QED BY <1>1, <1>2

LEMMA InitAdministered == Init => Administered
<1> SUFFICES ASSUME Init PROVE Administered
  OBVIOUS
<1>1. policy \in Policies /\ \A h \in base + 1 .. height : FALSE
  BY Constants DEF Init
<1>2. \A n \in Names : state_of(names, n) = UnboundName
  BY DEF Init, state_of
<1>3. \A n \in Names : Clean(state_of(names, n), policy) /\ ~IsBound(names, n)
  BY <1>2 DEF Clean, UnboundName, IsBound
<1>4. \A t \in Txids : pending[t] = Absent
  BY DEF Init
<1>5. Served(names, pending, policy) /\ Dated(pending, mined, height)
  BY <1>3, <1>4 DEF Served, Granted, Justified, Dated
<1> QED BY <1>1, <1>5 DEF Administered

(* A step inside a block. *)
LEMMA InBlockAdministered ==
  ASSUME Inv, Administered, UNCHANGED <<policy, height, base, before>>,
         Served(names', pending', policy), Dated(pending', mined', height),
         \A t \in Txids : mined[t] # 0 => mined'[t] = mined[t]
  PROVE  Administered'
<1>1. base \in Nat /\ height \in Nat
  BY Constants DEF Inv, TypeOK
<1>2. ASSUME NEW h \in base + 1 .. height
      PROVE  Dated(before[h].pending, mined', h - 1)
  <2>1. Dated(before[h].pending, mined, h - 1)
    BY <1>2 DEF Administered
  <2>2. \A t \in Txids : mined[t] \in 1..(h - 1) => mined[t] # 0
    BY <1>1, <1>2
  <2> QED BY <2>1, <2>2 DEF Dated
<1> QED BY <1>2 DEF Administered

(* Mining a transaction in the block that is being connected. *)
LEMMA MinedNow ==
  ASSUME Inv, phase # "idle", NEW t \in Txids, mined[t] = 0, mined' = [mined EXCEPT ![t] = height]
  PROVE  /\ mined'[t] \in 1..height /\ \A r \in Txids : mined[r] # 0 => mined'[r] = mined[r]
         /\ \A pd : Dated(pd, mined, height) => Dated(pd, mined', height)
<1>1. height \in Nat /\ height > 0 /\ mined \in [Txids -> Heights]
  BY Constants DEF Inv, TypeOK
<1>2. mined'[t] = height /\ \A r \in Txids \ {t} : mined'[r] = mined[r]
  BY <1>1
<1>3. mined'[t] \in 1..height
  BY <1>1, <1>2
<1>4. ASSUME NEW pd, Dated(pd, mined, height)
      PROVE  Dated(pd, mined', height)
  <2>1. 0 \notin 1..height
    BY <1>1
  <2>2. pd[t] = Absent
    BY <1>4, <2>1 DEF Dated
  <2> QED BY <1>2, <1>4, <2>2 DEF Dated
<1> QED BY <1>2, <1>3, <1>4

(* One name is written. *)
LEMMA OneName ==
  ASSUME names \in NamesMap, NEW n \in Names, NEW s \in NameState, SetName(n, s)
  PROVE  state_of(names', n) = s /\ \A m \in Names \ {n} : state_of(names', m) = state_of(names, m)
<1>1. s # Absent
  BY SentinelAssumption
<1>2. names' = [names EXCEPT ![n] = s]
  BY DEF SetName
<1> QED BY <1>1, <1>2 DEF NamesMap, state_of

(* The votes stay as they are. *)
SameVotes(s, o) ==
    /\ s.suspended = o.suspended
    /\ s.suspend_votes = o.suspend_votes /\ s.restore_votes = o.restore_votes

LEMMA SameVotesClean ==
  ASSUME NEW s, NEW o, NEW p, SameVotes(s, o), Clean(o, p)
  PROVE  Clean(s, p)
  BY DEF SameVotes, Clean

LEMMA RebindVotes ==
  ASSUME NEW o \in NameState, NEW b
  PROVE  SameVotes([o EXCEPT !.binding = b], o) /\ [o EXCEPT !.binding = b].binding = b
  BY DEF SameVotes, NameState

(* vote: a threshold clears the votes, and less than one is kept. *)
LEMMA VotedClean ==
  ASSUME Inv, Administered, NEW t \in Txids, NEW commit, NEW suspend \in BOOLEAN,
         VoteCounts(t, commit, suspend)
  PROVE  LET o == state_of(names, Rec[t].name) IN
         /\ Clean(Voted(o, Rec[t].author, suspend), policy)
         /\ Voted(o, Rec[t].author, suspend).binding = o.binding
<1>1. PICK o : o = state_of(names, Rec[t].name)
  OBVIOUS
<1>2. Rec[t].name \in Names
  BY Constants DEF Record
<1>3. o \in NameState /\ Clean(o, policy)
  BY <1>1, <1>2, StateOfType DEF Administered, Served, Inv, TypeOK
<1>4. /\ Rec[t].author \in policy.approvers /\ o.suspended # suspend
  BY <1>1 DEF VoteCounts, AdmitApprover, Approvers
<1>5. IsFiniteSet(policy.approvers) /\ policy.threshold \in Nat
  <2>1. policy \in Policies
    BY DEF Administered
  <2>2. /\ IsFiniteSet(policy.approvers)
        /\ policy.threshold = 0 \/ policy.threshold \in 1..Cardinality(policy.approvers)
    BY <2>1, RulesAssumption DEF GenesisValid
  <2>3. Cardinality(policy.approvers) \in Nat
    BY <2>2, FS_CardinalityType
  <2> QED BY <2>2, <2>3
<1>6. PICK votes : votes = (IF suspend THEN o.suspend_votes ELSE o.restore_votes) \cup {Rec[t].author}
  OBVIOUS
<1>7. votes \subseteq policy.approvers
  BY <1>3, <1>4, <1>6 DEF Clean
<1>8. Cardinality(votes) \in Nat
  BY <1>5, <1>7, FS_Subset, FS_CardinalityType
<1>9. PICK s : s = Voted(o, Rec[t].author, suspend)
  OBVIOUS
<1>10. s = IF Cardinality(votes) >= policy.threshold
           THEN [o EXCEPT !.suspended = suspend, !.suspend_votes = {}, !.restore_votes = {}]
           ELSE IF suspend THEN [o EXCEPT !.suspend_votes = votes]
                           ELSE [o EXCEPT !.restore_votes = votes]
  BY <1>6, <1>9 DEF Voted, Threshold
<1>11. CASE Cardinality(votes) >= policy.threshold
  <2>1. s = [o EXCEPT !.suspended = suspend, !.suspend_votes = {}, !.restore_votes = {}]
    BY <1>10, <1>11
  <2>2. s.suspend_votes = {} /\ s.restore_votes = {} /\ s.binding = o.binding
    BY <1>3, <2>1 DEF NameState
  <2> QED BY <1>1, <1>9, <2>2 DEF Clean
<1>12. CASE ~(Cardinality(votes) >= policy.threshold)
  <2>1. Cardinality(votes) < policy.threshold
    BY <1>5, <1>8, <1>12
  <2>2. CASE suspend
    <3>1. s = [o EXCEPT !.suspend_votes = votes]
      BY <1>10, <1>12, <2>2
    <3>2. /\ s.suspend_votes = votes /\ s.restore_votes = o.restore_votes
          /\ s.suspended = o.suspended /\ s.binding = o.binding /\ o.suspended \in BOOLEAN
      BY <1>3, <3>1 DEF NameState
    <3>3. ~s.suspended
      BY <1>4, <2>2, <3>2
    <3> QED BY <1>1, <1>3, <1>7, <1>9, <2>1, <3>2, <3>3 DEF Clean
  <2>3. CASE ~suspend
    <3>1. s = [o EXCEPT !.restore_votes = votes]
      BY <1>10, <1>12, <2>3
    <3>2. /\ s.restore_votes = votes /\ s.suspend_votes = o.suspend_votes
          /\ s.suspended = o.suspended /\ s.binding = o.binding /\ o.suspended \in BOOLEAN
      BY <1>3, <3>1 DEF NameState
    <3>3. s.suspended
      BY <1>4, <2>3, <3>2
    <3> QED BY <1>1, <1>3, <1>7, <1>9, <2>1, <3>2, <3>3 DEF Clean
  <2> QED BY <2>2, <2>3
<1> QED BY <1>11, <1>12

(* The maps after one name is written. *)
LEMMA ServedName ==
  ASSUME Inv, Administered, NEW n \in Names, NEW s \in NameState, SetName(n, s), Clean(s, policy),
         NEW pd, Justified(pd, policy),
         policy.mode = "Administered" =>
            /\ \A m \in Names \ {n} : IsBound(names, m) =>
                  \E t \in Txids : Grants(pd[t], m, state_of(names, m).binding, policy)
            /\ s.binding # Unbound => \E t \in Txids : Grants(pd[t], n, s.binding, policy)
  PROVE  Served(names', pd, policy)
<1>1. state_of(names', n) = s /\ \A m \in Names \ {n} : state_of(names', m) = state_of(names, m)
  BY OneName DEF Inv, TypeOK
<1>2. \A m \in Names : Clean(state_of(names', m), policy)
  BY <1>1 DEF Administered, Served
<1>3. ASSUME policy.mode = "Administered", NEW m \in Names, IsBound(names', m)
      PROVE  \E t \in Txids : Grants(pd[t], m, state_of(names', m).binding, policy)
  <2>1. CASE m = n
    BY <1>1, <1>3, <2>1 DEF IsBound
  <2>2. CASE m # n
    <3>1. IsBound(names, m)
      BY <1>1, <1>3, <2>2 DEF IsBound
    <3> QED BY <1>1, <1>3, <2>2, <3>1
  <2> QED BY <2>1, <2>2
<1> QED BY <1>2, <1>3 DEF Served, Granted

(* An approval keeps the record it counts for, and adds one approver. *)
LEMMA ApprovedRecord ==
  ASSUME TypeOK, NEW t \in Txids, NEW commit, ApprovalCounts(t, commit)
  PROVE  LET q == pending[Rec[t].record_txid]
             p == Approved(t)
         IN  /\ p.kind = q.kind /\ p.name = q.name /\ p.author = q.author /\ p.target = q.target
             /\ p.approvals = q.approvals \cup {Rec[t].author}
             /\ p.completed <=> Cardinality(p.approvals) >= policy.threshold
<1>1. PICK q : q = pending[Rec[t].record_txid]
  OBVIOUS
<1>2. q \in PendingRecord
  <2>1. Rec[t].record_txid \in Txids
    BY Constants DEF Record
  <2> QED BY <1>1, <2>1 DEF TypeOK, PendingMap, ApprovalCounts
<1>3. PICK votes : votes = q.approvals \cup {Rec[t].author}
  OBVIOUS
<1>4. PICK full \in BOOLEAN : full <=> Cardinality(votes) >= Threshold
  <2>1. (Cardinality(votes) >= Threshold) \in BOOLEAN
    OBVIOUS
  <2> QED BY <2>1
<1>5. PICK p : p = Approved(t)
  OBVIOUS
<1>6. p = [q EXCEPT !.approvals = votes, !.completed = Cardinality(votes) >= Threshold]
  BY <1>1, <1>3, <1>5, Zenon DEF Approved
<1>7. /\ p.kind = q.kind /\ p.name = q.name /\ p.author = q.author /\ p.target = q.target
      /\ p.approvals = votes
  BY <1>2, <1>6 DEF PendingRecord
<1>8. p.completed <=> Cardinality(votes) >= Threshold
  BY <1>2, <1>6 DEF PendingRecord
<1> QED BY <1>1, <1>3, <1>5, <1>7, <1>8 DEF Threshold

(* approve *)
LEMMA ApproveAdministered ==
  ASSUME Inv, Administered, NEW t \in Txids, NEW commit, Approve(t, commit), UNCHANGED policy
  PROVE  Administered'
<1>0. /\ phase # "idle" /\ mined[t] = 0 /\ UNCHANGED <<height, base, before>>
      /\ mined' = [mined EXCEPT ![t] = height]
  BY DEF Approve, Minable
<1>1. /\ \A r \in Txids : mined[r] # 0 => mined'[r] = mined[r]
      /\ Dated(pending, mined', height)
  BY <1>0, MinedNow DEF Administered
<1>2. CASE ~ApprovalCounts(t, commit)
  <2>1. UNCHANGED <<names, pending>>
    BY <1>2 DEF Approve
  <2>2. Served(names', pending', policy) /\ Dated(pending', mined', height)
    BY <1>1, <2>1 DEF Administered
  <2> QED BY <1>0, <1>1, <2>2, InBlockAdministered
<1>3. CASE ApprovalCounts(t, commit)
  <2>1. PICK p : p = Approved(t)
    OBVIOUS
  <2>2. PICK key : key = Rec[t].record_txid
    OBVIOUS
  <2>3. p \in PendingRecord /\ key \in Txids /\ p.name \in Names
    BY <1>3, <2>1, <2>2, ApprovedType DEF Inv, PendingRecord
  <2>4. /\ p.kind = pending[key].kind /\ p.name = pending[key].name
        /\ p.author = pending[key].author /\ p.target = pending[key].target
        /\ p.approvals = pending[key].approvals \cup {Rec[t].author}
        /\ p.completed <=> Cardinality(p.approvals) >= policy.threshold
    BY <1>3, <2>1, <2>2, ApprovedRecord DEF Inv
  <2>5. pending[key] # Absent /\ ~pending[key].completed /\ Rec[t].author \in policy.approvers
    BY <1>3, <2>2 DEF ApprovalCounts, AdmitApprover, Approvers
  <2>6. pending' = [pending EXCEPT ![key] = p]
    BY <1>3, <2>1, <2>2 DEF Approve
  <2>7. pending'[key] = p /\ \A r \in Txids \ {key} : pending'[r] = pending[r]
    BY <2>3, <2>6 DEF Inv, TypeOK, PendingMap
  <2>8. Dated(pending', mined', height)
    BY <1>1, <2>5, <2>7 DEF Dated
  <2>9. Justified(pending', policy)
    BY <2>4, <2>5, <2>7 DEF Justified, Administered, Served
  <2>10. ASSUME policy.mode = "Administered", NEW m \in Names, IsBound(names, m)
         PROVE  \E r \in Txids : Grants(pending'[r], m, state_of(names, m).binding, policy)
    <3>1. PICK r \in Txids : Grants(pending[r], m, state_of(names, m).binding, policy)
      BY <2>10 DEF Administered, Served, Granted
    <3>2. r # key
      BY <2>5, <3>1 DEF Grants
    <3> QED BY <2>7, <3>1, <3>2
  <2>11. CASE ~(p.completed /\ CompletionApplies(p))
    <3>1. UNCHANGED names
      BY <1>3, <2>1, <2>11 DEF Approve
    <3>2. Served(names', pending', policy)
      BY <2>9, <2>10, <3>1 DEF Served, Granted, Administered
    <3> QED BY <1>0, <1>1, <2>8, <3>2, InBlockAdministered
  <2>12. CASE p.completed /\ CompletionApplies(p)
    <3>1. PICK o : o = state_of(names, p.name)
      OBVIOUS
    <3>2. o \in NameState /\ Clean(o, policy)
      BY <2>3, <3>1, StateOfType DEF Inv, TypeOK, Administered, Served
    <3>3. PICK s : s = CompletedState(p, t)
      OBVIOUS
    <3>4. s \in NameState
      BY <2>3, <2>12, <3>3, CompletedType DEF Inv
    <3>5. SetName(p.name, s)
      BY <1>3, <2>1, <2>12, <3>3 DEF Approve
    <3>6. PICK b : s = [o EXCEPT !.binding = b] /\ b.owner = p.author /\ b.target = p.target
      <4>1. CASE p.kind = "Request"
        <5>1. PICK b : b = [owner |-> p.author, target |-> p.target, expiry |-> height + ExpiryBlocks,
                            claim_txid |-> Rec[t].record_txid, last_txid |-> t]
          OBVIOUS
        <5>2. s = [o EXCEPT !.binding = b]
          BY <3>1, <3>3, <4>1, <5>1 DEF CompletedState
        <5>3. b.owner = p.author /\ b.target = p.target
          BY <5>1
        <5> QED BY <5>2, <5>3
      <4>2. CASE p.kind = "Update"
        <5>1. PICK b : b = [owner |-> o.binding.owner, target |-> p.target, expiry |-> o.binding.expiry,
                            claim_txid |-> o.binding.claim_txid, last_txid |-> t]
          OBVIOUS
        <5>2. s = [o EXCEPT !.binding = b]
          BY <3>1, <3>3, <4>2, <5>1 DEF CompletedState
        <5>3. o.binding.owner = p.author
          BY <2>12, <3>1, <4>2 DEF CompletionApplies
        <5>4. b.owner = p.author /\ b.target = p.target
          BY <5>1, <5>3
        <5> QED BY <5>2, <5>4
      <4> QED BY <2>3, <4>1, <4>2 DEF PendingRecord
    <3>7. SameVotes(s, o) /\ s.binding = b
      BY <3>2, <3>6, RebindVotes
    <3>8. Clean(s, policy)
      BY <3>2, <3>7, SameVotesClean
    <3>9. Grants(pending'[key], p.name, s.binding, policy)
      <4>1. p.approvals \subseteq policy.approvers /\ Cardinality(p.approvals) >= policy.threshold
        BY <2>3, <2>4, <2>5, <2>12 DEF Administered, Served, Justified
      <4>2. p # Absent
        BY <2>3, SentinelAssumption
      <4> QED BY <2>7, <2>12, <3>6, <3>7, <4>1, <4>2 DEF Grants
    <3>10. Served(names', pending', policy)
      <4>1. \A m \in Names \ {p.name} : policy.mode = "Administered" /\ IsBound(names, m) =>
               \E r \in Txids : Grants(pending'[r], m, state_of(names, m).binding, policy)
        BY <2>10
      <4> QED BY <2>3, <2>9, <3>4, <3>5, <3>8, <3>9, <4>1, ServedName
    <3> QED BY <1>0, <1>1, <2>8, <3>10, InBlockAdministered
  <2> QED BY <2>11, <2>12
<1> QED BY <1>2, <1>3

(* vote *)
LEMMA VoteAdministered ==
  ASSUME Inv, Administered, NEW t \in Txids, NEW commit, NEW suspend \in BOOLEAN,
         Vote(t, commit, suspend), UNCHANGED policy
  PROVE  Administered'
<1>0. /\ phase # "idle" /\ mined[t] = 0 /\ UNCHANGED <<height, base, before, pending>>
      /\ mined' = [mined EXCEPT ![t] = height]
  BY DEF Vote, Minable
<1>1. /\ \A r \in Txids : mined[r] # 0 => mined'[r] = mined[r]
      /\ Dated(pending', mined', height)
  BY <1>0, MinedNow DEF Administered
<1>2. CASE ~VoteCounts(t, commit, suspend)
  <2>1. UNCHANGED names
    BY <1>2 DEF Vote
  <2>2. Served(names', pending', policy)
    BY <1>0, <2>1 DEF Administered
  <2> QED BY <1>0, <1>1, <2>2, InBlockAdministered
<1>3. CASE VoteCounts(t, commit, suspend)
  <2>1. PICK n : n = Rec[t].name
    OBVIOUS
  <2>2. PICK o : o = state_of(names, n)
    OBVIOUS
  <2>3. PICK s : s = Voted(o, Rec[t].author, suspend)
    OBVIOUS
  <2>4. n \in Names /\ Rec[t].author \in Keys
    BY <2>1, Constants DEF Record
  <2>5. o \in NameState
    BY <2>2, <2>4, StateOfType DEF Inv, TypeOK
  <2>6. s \in NameState
    BY <2>3, <2>4, <2>5, VotedType
  <2>7. Clean(s, policy) /\ s.binding = o.binding
    BY <1>3, <2>1, <2>2, <2>3, VotedClean
  <2>8. SetName(n, s)
    BY <1>3, <2>1, <2>2, <2>3 DEF Vote
  <2>9. \A m \in Names : policy.mode = "Administered" /\ IsBound(names, m) =>
           \E r \in Txids : Grants(pending[r], m, state_of(names, m).binding, policy)
    BY DEF Administered, Served, Granted
  <2>10. s.binding # Unbound => IsBound(names, n)
    BY <2>2, <2>7 DEF IsBound
  <2>11. Justified(pending, policy)
    BY DEF Administered, Served
  <2>12. Served(names', pending, policy)
    BY <2>2, <2>4, <2>6, <2>7, <2>8, <2>9, <2>10, <2>11, ServedName
  <2> QED BY <1>0, <1>1, <2>12, InBlockAdministered
<1> QED BY <1>2, <1>3

(* owner_records *)
LEMMA OwnerRecordAdministered ==
  ASSUME Inv, Administered, NEW t \in Txids, NEW commit, OwnerRecord(t, commit), UNCHANGED policy
  PROVE  Administered'
<1>0. /\ phase # "idle" /\ mined[t] = 0 /\ UNCHANGED <<height, base, before>>
      /\ mined' = [mined EXCEPT ![t] = height]
  BY DEF OwnerRecord, Minable
<1>1. /\ \A r \in Txids : mined[r] # 0 => mined'[r] = mined[r]
      /\ Dated(pending, mined', height) /\ mined'[t] \in 1..height
  BY <1>0, MinedNow DEF Administered
<1>2. CASE UNCHANGED <<names, pending>>
  <2>1. Served(names', pending', policy) /\ Dated(pending', mined', height)
    BY <1>1, <1>2 DEF Administered
  <2> QED BY <1>0, <1>1, <2>1, InBlockAdministered
<1>3. CASE Enters(t, commit) /\ pending' = [pending EXCEPT ![t] = NewPending(t)] /\ UNCHANGED names
  <2>1. PICK p : p = NewPending(t)
    OBVIOUS
  <2>2. p.approvals = {} /\ ~p.completed
    BY <2>1 DEF NewPending
  <2>3. pending'[t] = p /\ \A r \in Txids \ {t} : pending'[r] = pending[r]
    BY <1>3, <2>1 DEF Inv, TypeOK, PendingMap
  <2>4. pending[t] = Absent
    <3>1. height \in Nat
      BY Constants DEF Inv, TypeOK
    <3>2. 0 \notin 1..height
      BY <3>1
    <3> QED BY <1>0, <3>2 DEF Administered, Dated
  <2>5. Dated(pending', mined', height)
    BY <1>1, <2>3 DEF Dated
  <2>6. Justified(pending', policy)
    BY <2>2, <2>3 DEF Justified, Administered, Served
  <2>7. ASSUME policy.mode = "Administered", NEW m \in Names, IsBound(names, m)
        PROVE  \E r \in Txids : Grants(pending'[r], m, state_of(names, m).binding, policy)
    <3>1. PICK r \in Txids : Grants(pending[r], m, state_of(names, m).binding, policy)
      BY <2>7 DEF Administered, Served, Granted
    <3>2. r # t
      BY <2>4, <3>1 DEF Grants
    <3> QED BY <2>3, <3>1, <3>2
  <2>8. Served(names', pending', policy)
    BY <1>3, <2>6, <2>7 DEF Served, Granted, Administered
  <2> QED BY <1>0, <1>1, <2>5, <2>8, InBlockAdministered
<1>4. CASE Changes(t, commit) /\ SetName(Rec[t].name, ChangedState(t)) /\ UNCHANGED pending
  <2>1. PICK n : n = Rec[t].name
    OBVIOUS
  <2>2. PICK o : o = state_of(names, n)
    OBVIOUS
  <2>3. PICK s : s = ChangedState(t)
    OBVIOUS
  <2>4. n \in Names
    BY <2>1, Constants DEF Record
  <2>5. o \in NameState /\ Clean(o, policy)
    BY <2>2, <2>4, StateOfType DEF Inv, TypeOK, Administered, Served
  <2>6. s \in NameState /\ SetName(n, s)
    BY <1>4, <2>1, <2>3, ChangedType DEF Inv
  <2>7. PICK b : b = [owner |-> o.binding.owner, target |-> Rec[t].target,
                      expiry |-> IF Rec[t].op = "Renew" THEN height + ExpiryBlocks ELSE o.binding.expiry,
                      claim_txid |-> o.binding.claim_txid, last_txid |-> t]
    OBVIOUS
  <2>8. s = [o EXCEPT !.binding = b]
    BY <2>1, <2>2, <2>3, <2>7 DEF ChangedState
  <2>9. SameVotes(s, o) /\ s.binding = b
    BY <2>5, <2>8, RebindVotes
  <2>10. Clean(s, policy)
    BY <2>5, <2>9, SameVotesClean
  <2>11. \A m \in Names : policy.mode = "Administered" /\ IsBound(names, m) =>
           \E r \in Txids : Grants(pending[r], m, state_of(names, m).binding, policy)
    BY DEF Administered, Served, Granted
  <2>12. ASSUME policy.mode = "Administered"
         PROVE  \E r \in Txids : Grants(pending[r], n, s.binding, policy)
    <3>1. IsBound(names, n) /\ o.binding.target = Rec[t].target
      BY <1>4, <2>1, <2>2, <2>12 DEF Changes, OwnedBy, IsBound, Mode
    <3>2. PICK r \in Txids : Grants(pending[r], n, o.binding, policy)
      BY <2>2, <2>4, <2>11, <2>12, <3>1
    <3>3. s.binding.owner = o.binding.owner /\ s.binding.target = o.binding.target
      BY <2>7, <2>9, <3>1
    <3> QED BY <3>2, <3>3 DEF Grants
  <2>13. Justified(pending, policy)
    BY DEF Administered, Served
  <2>14. Served(names', pending, policy)
    BY <2>4, <2>6, <2>10, <2>11, <2>12, <2>13, ServedName
  <2>15. Dated(pending', mined', height)
    BY <1>1, <1>4
  <2> QED BY <1>0, <1>1, <1>4, <2>14, <2>15, InBlockAdministered
<1> QED BY <1>2, <1>3, <1>4 DEF OwnerRecord

(* claims: only an open registry assigns, and assigning leaves votes alone. *)
LEMMA ClaimsAdministered ==
  ASSUME Inv, Administered, Claims, UNCHANGED policy
  PROVE  Administered'
<1>0. /\ phase # "idle" /\ UNCHANGED <<height, base, before, pending>> /\ policy.mode = "Open"
  BY DEF Claims, Mode
<1>1. PICK S \in SUBSET {t \in Txids : Rec[t].op = "Claim" /\ mined[t] = 0} :
        \E commits \in [S -> Commits] : Assign(S, commits)
  BY DEF Claims, Minable
<1>2. PICK commits \in [S -> Commits] : Assign(S, commits)
  BY <1>1
<1>3. PICK won : \E winner : names' = [n \in Names |-> IF n \in won THEN ClaimedState(n, winner[n]) ELSE names[n]]
  <2> DEFINE winners == {t \in S : Wins(S, commits, t) /\ HasExpiry}
             w == {Rec[t].name : t \in winners}
             f == [n \in Names |-> CHOOSE t \in winners : Rec[t].name = n]
  <2>1. names' = [n \in Names |-> IF n \in w THEN ClaimedState(n, f[n]) ELSE names[n]]
    BY <1>2 DEF Assign
  <2> HIDE DEF w, f
  <2> QED BY <2>1
<1>4. PICK winner : names' = [n \in Names |-> IF n \in won THEN ClaimedState(n, winner[n]) ELSE names[n]]
  BY <1>3
<1>5. mined' = [t \in Txids |-> IF t \in S THEN height ELSE mined[t]]
  BY <1>2 DEF Assign
<1>6. \A r \in Txids : mined[r] # 0 => mined'[r] = mined[r]
  BY <1>1, <1>5
<1>7. Dated(pending, mined', height)
  <2>1. height \in Nat
    BY Constants DEF Inv, TypeOK
  <2>2. 0 \notin 1..height
    BY <2>1
  <2> QED BY <1>6, <2>2 DEF Administered, Dated
<1>8. ASSUME NEW n \in Names
      PROVE  Clean(state_of(names', n), policy)
  <2>1. PICK o : o = state_of(names, n)
    OBVIOUS
  <2>2. o \in NameState /\ Clean(o, policy)
    BY <2>1, StateOfType DEF Inv, TypeOK, Administered, Served
  <2>3. CASE n \notin won
    <3>1. state_of(names', n) = o
      BY <1>4, <2>1, <2>3 DEF state_of
    <3> QED BY <2>2, <3>1
  <2>4. CASE n \in won
    <3>1. PICK b : b = [owner |-> Rec[winner[n]].author, target |-> Rec[winner[n]].target,
                        expiry |-> height + ExpiryBlocks, claim_txid |-> winner[n], last_txid |-> winner[n]]
      OBVIOUS
    <3>2. PICK s : s = [o EXCEPT !.binding = b]
      OBVIOUS
    <3>3. names'[n] = s
      BY <1>4, <2>1, <2>4, <3>1, <3>2 DEF ClaimedState
    <3>4. SameVotes(s, o)
      BY <2>2, <3>2, RebindVotes
    <3>5. state_of(names', n) = s \/ state_of(names', n) = UnboundName
      BY <3>3 DEF state_of
    <3>6. Clean(s, policy)
      BY <2>2, <3>4, SameVotesClean
    <3>7. Clean(UnboundName, policy)
      BY DEF Clean, UnboundName
    <3> QED BY <3>5, <3>6, <3>7
  <2> QED BY <2>3, <2>4
<1>9. Served(names', pending', policy)
  BY <1>0, <1>8 DEF Served, Administered
<1>10. Dated(pending', mined', height)
  BY <1>0, <1>7
<1> QED BY <1>0, <1>6, <1>9, <1>10, InBlockAdministered

(* Expiry takes bindings away and leaves the votes. *)
LEMMA ExpiredState ==
  ASSUME NEW nm \in NamesMap, NEW h, NEW n \in Names
  PROVE  LET o == state_of(nm, n)
             s == state_of(Expired(nm, h), n)
         IN  SameVotes(s, o) /\ (s.binding = o.binding \/ s.binding = Unbound)
<1>1. PICK o : o = state_of(nm, n)
  OBVIOUS
<1>2. o \in NameState
  BY <1>1, StateOfType
<1>3. PICK e : e = Expired(nm, h)
  OBVIOUS
<1>4. CASE n \in Due(h) /\ IsBound(nm, n)
  <2>1. o = nm[n]
    BY <1>1, <1>4 DEF IsBound, state_of, UnboundName
  <2>2. PICK s : s = [o EXCEPT !.binding = Unbound]
    OBVIOUS
  <2>3. e[n] = s
    BY <1>3, <1>4, <2>1, <2>2 DEF Expired
  <2>4. SameVotes(s, o) /\ s.binding = Unbound /\ s \in NameState
    BY <1>2, <2>2 DEF NameState, SameVotes
  <2>5. state_of(e, n) = s
    BY <2>3, <2>4, SentinelAssumption DEF state_of
  <2> QED BY <1>1, <1>3, <2>4, <2>5
<1>5. CASE ~(n \in Due(h) /\ IsBound(nm, n))
  <2>1. e[n] = nm[n]
    BY <1>3, <1>5 DEF Expired
  <2>2. state_of(e, n) = o
    BY <1>1, <2>1 DEF state_of
  <2> QED BY <1>1, <1>3, <2>2 DEF SameVotes
<1> QED BY <1>4, <1>5

(* connect_delta, before the passes *)
LEMMA ConnectAdministered ==
  ASSUME Inv, Administered, Connect, UNCHANGED policy
  PROVE  Administered'
<1>1. /\ names' = Expired(names, height + 1) /\ height' = height + 1
      /\ before' = [h \in base + 1 .. height + 1 |->
                      IF h = height + 1 THEN [names |-> names, pending |-> pending] ELSE before[h]]
      /\ UNCHANGED <<pending, base, mined>>
  BY DEF Connect
<1>2. names \in NamesMap /\ height \in Nat /\ base \in Nat
  BY Constants DEF Inv, TypeOK
<1>3. \A n \in Names : LET o == state_of(names, n)
                           s == state_of(names', n)
                       IN  SameVotes(s, o) /\ (s.binding = o.binding \/ s.binding = Unbound)
  BY <1>1, <1>2, ExpiredState
<1>4. \A n \in Names : Clean(state_of(names', n), policy)
  BY <1>3, SameVotesClean DEF Administered, Served
<1>5. ASSUME policy.mode = "Administered" PROVE Granted(names', pending, policy)
  <2>1. Granted(names, pending, policy)
    BY <1>5 DEF Administered, Served
  <2> QED BY <1>3, <2>1 DEF Granted, IsBound
<1>6. Served(names', pending', policy)
  BY <1>1, <1>4, <1>5 DEF Served, Administered
<1>7. Dated(pending', mined', height + 1)
  <2>1. \A x \in 1..height : x \in 1..(height + 1)
    BY <1>2
  <2> QED BY <1>1, <2>1 DEF Administered, Dated
<1>8. ASSUME NEW h \in base + 1 .. height + 1
      PROVE  Served(before'[h].names, before'[h].pending, policy) /\ Dated(before'[h].pending, mined', h - 1)
  <2>1. CASE h = height + 1
    <3>1. before'[h] = [names |-> names, pending |-> pending]
      BY <1>1, <2>1
    <3>2. before'[h].names = names /\ before'[h].pending = pending /\ h - 1 = height
      BY <1>2, <2>1, <3>1
    <3> QED BY <1>1, <3>2 DEF Administered
  <2>2. CASE h # height + 1
    <3>1. h \in base + 1 .. height /\ before'[h] = before[h]
      BY <1>1, <1>2, <2>2
    <3> QED BY <1>1, <3>1 DEF Administered
  <2> QED BY <2>1, <2>2
<1>9. policy' \in Policies
  BY DEF Administered
<1> QED BY <1>1, <1>6, <1>7, <1>8, <1>9 DEF Administered

(* disconnect_delta *)
LEMMA DisconnectAdministered ==
  ASSUME Inv, Administered, Disconnect, UNCHANGED policy
  PROVE  Administered'
<1>1. /\ height' = height - 1 /\ base' = base /\ height > base
      /\ before' = [h \in base + 1 .. height - 1 |-> before[h]]
      /\ names' = Revert(names, undo[height].names)
      /\ pending' = Revert(pending, undo[height].pending)
      /\ mined' = [t \in Txids |-> IF mined[t] = height THEN 0 ELSE mined[t]]
  BY DEF Disconnect
<1>2. base \in Nat /\ height \in Nat /\ height \in base + 1 .. height
  BY <1>1, Constants DEF Inv, TypeOK
<1>3. names' = before[height].names /\ pending' = before[height].pending
  BY <1>1, <1>2 DEF Inv, UndoExact, After
<1>4. ASSUME NEW pd, NEW h \in base + 1 .. height, Dated(pd, mined, h - 1)
      PROVE  Dated(pd, mined', h - 1)
  <2>1. \A t \in Txids : mined[t] \in 1..(h - 1) => mined'[t] = mined[t]
    <3>1. height \notin 1..(h - 1)
      BY <1>2, <1>4
    <3> QED BY <1>1, <3>1
  <2> QED BY <1>4, <2>1 DEF Dated
<1>5. Served(names', pending', policy) /\ Dated(pending', mined', height - 1)
  BY <1>2, <1>3, <1>4 DEF Administered
<1>6. ASSUME NEW h \in base + 1 .. height - 1
      PROVE  Served(before'[h].names, before'[h].pending, policy) /\ Dated(before'[h].pending, mined', h - 1)
  <2>1. h \in base + 1 .. height /\ before'[h] = before[h]
    BY <1>1, <1>2
  <2> QED BY <1>4, <2>1 DEF Administered
<1> QED BY <1>1, <1>5, <1>6 DEF Administered

(* prune *)
LEMMA PruneAdministered ==
  ASSUME Inv, Administered, NEW keep \in Keeps, Prune(keep), UNCHANGED policy
  PROVE  Administered'
<1>1. /\ base' = height - keep /\ height - base >= keep
      /\ before' = [h \in base' + 1 .. height |-> before[h]]
      /\ UNCHANGED <<height, names, pending, mined>>
  BY DEF Prune
<1>2. base \in Nat /\ height \in Nat /\ keep \in Nat
  BY Constants DEF Inv, TypeOK
<1>3. \A h \in base' + 1 .. height : h \in base + 1 .. height /\ before'[h] = before[h]
  BY <1>1, <1>2
<1> QED BY <1>1, <1>3 DEF Administered

(* Every step keeps votes, approvals and their snapshots in order. *)
LEMMA NextAdministered == Inv /\ Administered /\ [Next]_vars => Administered'
<1> SUFFICES ASSUME Inv, Administered, [Next]_vars PROVE Administered'
  OBVIOUS
<1>0. UNCHANGED policy
  BY DEF Next, vars
<1>1. CASE Connect
  BY <1>0, <1>1, ConnectAdministered
<1>2. ASSUME NEW t \in Txids, NEW commit \in 0..height,
             \/ Approve(t, commit)
             \/ \E suspend \in BOOLEAN : Vote(t, commit, suspend)
             \/ OwnerRecord(t, commit)
      PROVE  Administered'
  BY <1>0, <1>2, ApproveAdministered, VoteAdministered, OwnerRecordAdministered
<1>3. CASE Claims
  BY <1>0, <1>3, ClaimsAdministered
<1>4. CASE SkipClaims \/ Finish \/ UNCHANGED vars
  BY <1>0, <1>4 DEF SkipClaims, Finish, vars, Administered
<1>5. CASE Disconnect
  BY <1>0, <1>5, DisconnectAdministered
<1>6. ASSUME NEW keep \in Keeps, Prune(keep) PROVE Administered'
  BY <1>0, <1>6, PruneAdministered
<1> QED BY <1>1, <1>2, <1>3, <1>4, <1>5, <1>6 DEF Next, Step

(* vote(): whatever the reorganizations, the votes that are kept are those of *)
(* approvers, of the phase the name is in, and short of the threshold.        *)
THEOREM VotesStayFresh == Spec => []NoLingeringVotes
  BY InitInv, NextInv, InitAdministered, NextAdministered, AdministeredSays, PTL DEF Spec

(* In an administered registry no step serves, for a bound name, a target that *)
(* a threshold of approvers did not approve for that name and owner.           *)
THEOREM ApprovedTargets == Spec => []ServedTargetApproved
  BY InitInv, NextInv, InitAdministered, NextAdministered, AdministeredSays, PTL DEF Spec

-----------------------------------------------------------------------------
(* Owners.  A bound name is never taken over: every write of a bound name   *)
(* keeps its owner, and only expiry unbinds.                                *)

(* Writing one name keeps all owners when it keeps the owner of that name. *)
LEMMA WriteKeepsOwner ==
  ASSUME Inv, NEW m \in Names, NEW s \in NameState, SetName(m, s),
         IsBound(names, m) =>
            s.binding # Unbound /\ s.binding.owner = state_of(names, m).binding.owner,
         NEW n \in Names
  PROVE  KeepsOwner(n)
<1>1. names' = [names EXCEPT ![m] = s] /\ names \in NamesMap /\ s # Absent
  BY SentinelAssumption DEF SetName, Inv, TypeOK
<1>2. SUFFICES ASSUME IsBound(names, n)
               PROVE  IsBound(names', n) /\ names'[n].binding.owner = names[n].binding.owner
  BY DEF KeepsOwner
<1>3. state_of(names, n) = names[n] /\ names[n] # Absent
  BY <1>2 DEF IsBound, state_of, UnboundName
<1>4. CASE n = m
  <2>1. names'[n] = s /\ state_of(names', n) = s
    BY <1>1, <1>4 DEF NamesMap, state_of
  <2> QED BY <1>2, <1>3, <1>4, <2>1 DEF IsBound
<1>5. CASE n # m
  <2>1. names'[n] = names[n]
    BY <1>1, <1>5 DEF NamesMap
  <2>2. state_of(names', n) = state_of(names, n)
    BY <2>1 DEF state_of
  <2> QED BY <1>2, <2>1, <2>2 DEF IsBound
<1> QED BY <1>4, <1>5

LEMMA SameKeepsOwner ==
  ASSUME UNCHANGED names, NEW n \in Names
  PROVE  KeepsOwner(n)
  BY DEF KeepsOwner, IsBound, state_of

(* A block unbinds a name only at its expiry: the index lists nothing else. *)
LEMMA ConnectKeepsOwner ==
  ASSUME Inv, Connect, NEW n \in Names
  PROVE  KeepsOwner(n)
<1>1. names' = Expired(names, height + 1) /\ height' = height + 1
  BY DEF Connect
<1>2. SUFFICES ASSUME IsBound(names, n)
               PROVE  \/ IsBound(names', n) /\ names'[n].binding.owner = names[n].binding.owner
                      \/ names[n].binding.expiry <= height'
  BY DEF KeepsOwner
<1>3. state_of(names, n) = names[n] /\ names[n] # Absent
  BY <1>2 DEF IsBound, state_of, UnboundName
<1>4. CASE n \notin Due(height + 1)
  <2>1. names'[n] = names[n]
    BY <1>1, <1>4 DEF Expired
  <2>2. state_of(names', n) = state_of(names, n)
    BY <2>1 DEF state_of
  <2> QED BY <1>2, <2>1, <2>2 DEF IsBound
<1>5. CASE n \in Due(height + 1)
  <2>1. PICK e \in expiries : e[2] = n /\ e[1] <= height + 1
    BY <1>5 DEF Due
  <2>2. PICK k \in Names : e \in ExpiryEntry(k, state_of(names, k))
    BY <2>1 DEF Inv, ExpiryIndexExact, IndexOf
  <2>3. e = <<state_of(names, k).binding.expiry, k>>
    BY <2>2 DEF ExpiryEntry
  <2>4. k = n /\ e[1] = names[n].binding.expiry
    BY <1>3, <2>1, <2>3
  <2> QED BY <1>1, <2>1, <2>4
<1> QED BY <1>4, <1>5

(* A completed record binds an unbound name, or changes the target of its    *)
(* author's own.                                                             *)
LEMMA ApproveKeepsOwner ==
  ASSUME Inv, NEW t \in Txids, NEW commit, Approve(t, commit), NEW n \in Names
  PROVE  KeepsOwner(n)
<1>1. CASE UNCHANGED names
  BY <1>1, SameKeepsOwner
<1>2. CASE ApprovalCounts(t, commit) /\ CompletionApplies(Approved(t))
           /\ SetName(Approved(t).name, CompletedState(Approved(t), t))
  <2>1. PICK p : p = Approved(t)
    OBVIOUS
  <2>2. p \in PendingRecord /\ p.name \in Names
    BY <1>2, <2>1, ApprovedType DEF Inv, PendingRecord
  <2>3. PICK o : o = state_of(names, p.name)
    OBVIOUS
  <2>4. PICK s : s = CompletedState(p, t)
    OBVIOUS
  <2>5. o \in NameState /\ s \in NameState /\ SetName(p.name, s)
    BY <1>2, <2>1, <2>2, <2>3, <2>4, StateOfType, CompletedType DEF Inv, TypeOK
  <2>6. ASSUME IsBound(names, p.name)
        PROVE  s.binding # Unbound /\ s.binding.owner = o.binding.owner
    <3>1. p.kind = "Update" /\ o.binding \in Bound
      BY <1>2, <2>1, <2>3, <2>5, <2>6 DEF CompletionApplies, IsBound, NameState
    <3>2. PICK b : b = [owner |-> o.binding.owner, target |-> p.target, expiry |-> o.binding.expiry,
                        claim_txid |-> o.binding.claim_txid, last_txid |-> t]
      OBVIOUS
    <3>3. s = [o EXCEPT !.binding = b]
      BY <2>3, <2>4, <3>1, <3>2 DEF CompletedState
    <3>4. b \in Bound /\ b.owner = o.binding.owner
      BY <2>2, <3>1, <3>2 DEF Bound, PendingRecord, Targets
    <3>5. s.binding = b
      BY <2>5, <3>3 DEF NameState
    <3> QED BY <3>4, <3>5, SentinelAssumption
  <2> QED BY <2>2, <2>3, <2>5, <2>6, WriteKeepsOwner
<1> QED BY <1>1, <1>2 DEF Approve

LEMMA VoteKeepsOwner ==
  ASSUME Inv, NEW t \in Txids, NEW commit, NEW suspend \in BOOLEAN, Vote(t, commit, suspend), NEW n \in Names
  PROVE  KeepsOwner(n)
<1>1. CASE UNCHANGED names
  BY <1>1, SameKeepsOwner
<1>2. CASE SetName(Rec[t].name, Voted(state_of(names, Rec[t].name), Rec[t].author, suspend))
  <2>1. Rec[t].name \in Names /\ Rec[t].author \in Keys
    BY Constants DEF Record
  <2>2. PICK o : o = state_of(names, Rec[t].name)
    OBVIOUS
  <2>3. PICK s : s = Voted(o, Rec[t].author, suspend)
    OBVIOUS
  <2>4. o \in NameState /\ s \in NameState
    BY <2>1, <2>2, <2>3, StateOfType, VotedType DEF Inv, TypeOK
  <2>5. s.binding = o.binding
    BY <2>3, <2>4 DEF Voted, NameState
  <2> QED BY <1>2, <2>1, <2>2, <2>3, <2>4, <2>5, WriteKeepsOwner DEF IsBound
<1> QED BY <1>1, <1>2 DEF Vote

LEMMA OwnerRecordKeepsOwner ==
  ASSUME Inv, NEW t \in Txids, NEW commit, OwnerRecord(t, commit), NEW n \in Names
  PROVE  KeepsOwner(n)
<1>1. CASE UNCHANGED names
  BY <1>1, SameKeepsOwner
<1>2. CASE Changes(t, commit) /\ SetName(Rec[t].name, ChangedState(t))
  <2>1. Rec[t] \in Record /\ Rec[t].name \in Names
    BY Constants DEF Record
  <2>2. PICK o : o = state_of(names, Rec[t].name)
    OBVIOUS
  <2>3. PICK s : s = ChangedState(t)
    OBVIOUS
  <2>4. o \in NameState /\ s \in NameState
    BY <1>2, <2>1, <2>2, <2>3, StateOfType, ChangedType DEF Inv, TypeOK
  <2>5. PICK b : b = [owner |-> o.binding.owner, target |-> Rec[t].target,
                      expiry |-> IF Rec[t].op = "Renew" THEN height + ExpiryBlocks ELSE o.binding.expiry,
                      claim_txid |-> o.binding.claim_txid, last_txid |-> t]
    OBVIOUS
  <2>6. s = [o EXCEPT !.binding = b]
    BY <2>2, <2>3, <2>5 DEF ChangedState
  <2>7. s.binding = b /\ b.owner = o.binding.owner
    BY <2>4, <2>5, <2>6 DEF NameState
  <2>8. s.binding # Unbound
    <3>1. o.binding \in Bound
      BY <1>2, <2>2, <2>4 DEF Changes, OwnedBy, NameState
    <3>2. (IF Rec[t].op = "Renew" THEN height + ExpiryBlocks ELSE o.binding.expiry) \in Heights
      BY <1>2, <2>4, <2>5, <2>7, <3>1, Constants DEF Changes, HasExpiry, Inv, TypeOK, Heights, Bound
    <3>3. b \in Bound
      BY <2>1, <2>5, <3>1, <3>2 DEF Bound, Record, Targets
    <3> QED BY <2>7, <3>3, SentinelAssumption
  <2> QED BY <1>2, <2>1, <2>2, <2>3, <2>4, <2>7, <2>8, WriteKeepsOwner
<1> QED BY <1>1, <1>2 DEF OwnerRecord

(* assign: a claim competes only for a name that is not bound. *)
LEMMA ClaimsKeepsOwner ==
  ASSUME Inv, Claims, NEW n \in Names
  PROVE  KeepsOwner(n)
<1>1. PICK S \in SUBSET Txids : \E commits \in [S -> Commits] : Assign(S, commits)
  BY DEF Claims
<1>2. PICK commits \in [S -> Commits] : Assign(S, commits)
  BY <1>1
<1>3. SUFFICES ASSUME IsBound(names, n)
               PROVE  names'[n] = names[n]
  BY DEF KeepsOwner, IsBound, state_of
<1>4. ASSUME NEW t \in S, Wins(S, commits, t)
      PROVE  Rec[t].name # n
  BY <1>3, <1>4 DEF Wins, Candidates
<1> QED BY <1>2, <1>4 DEF Assign

(* Going forward, claims, requests, updates, approvals and votes never take   *)
(* over a name that is bound: it keeps its owner until its expiry height.     *)
THEOREM OwnersKeepNames == Spec => OwnerUntilExpiry
<1>1. ASSUME Inv, [Next]_vars, ~UNCHANGED vars, height' >= height, NEW n \in Names
      PROVE  KeepsOwner(n)
  <2>1. CASE Connect
    BY <1>1, <2>1, ConnectKeepsOwner
  <2>2. ASSUME NEW t \in Txids, NEW commit \in 0..height,
               \/ Approve(t, commit)
               \/ \E suspend \in BOOLEAN : Vote(t, commit, suspend)
               \/ OwnerRecord(t, commit)
        PROVE  KeepsOwner(n)
    BY <1>1, <2>2, ApproveKeepsOwner, VoteKeepsOwner, OwnerRecordKeepsOwner
  <2>3. CASE Claims
    BY <1>1, <2>3, ClaimsKeepsOwner
  <2>4. ASSUME SkipClaims \/ Finish \/ \E keep \in Keeps : Prune(keep) PROVE KeepsOwner(n)
    <3>1. UNCHANGED names
      BY <2>4 DEF SkipClaims, Finish, Prune
    <3> QED BY <1>1, <3>1, SameKeepsOwner
  <2>5. CASE Disconnect
    <3>1. height' = height - 1 /\ height \in Nat
      BY <1>1, <2>5, Constants DEF Disconnect, Inv, TypeOK
    <3>2. FALSE
      BY <1>1, <3>1
    <3> QED BY <3>2
  <2> QED BY <1>1, <2>1, <2>2, <2>3, <2>4, <2>5 DEF Next, Step
<1>2. Inv /\ [Next]_vars => [height' >= height => \A n \in Names : KeepsOwner(n)]_vars
  BY <1>1
<1> QED BY InitInv, NextInv, <1>2, PTL DEF Spec, OwnerUntilExpiry
=============================================================================
