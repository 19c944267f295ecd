--------------------------- MODULE NamesRegistry ---------------------------
(***************************************************************************)
(* The registry engine of urma-names (engine.rs, state.rs, config.rs and   *)
(* the rules of payload.rs): names, pending requests, suspension votes,    *)
(* expiry, and the undo frames that take a block back when the chain       *)
(* reorganizes.                                                            *)
(*                                                                         *)
(* connect_delta makes three passes over the records of a block, each pass *)
(* over its own payload kinds: approver records, open claims, owner        *)
(* records.  `phase' is the pass in progress.  The records of the block    *)
(* are chosen as the passes reach them: the passes share no payload kind,  *)
(* so every block is such a choice and every choice is a block.  Position  *)
(* in the block is the order of the choices.                               *)
(*                                                                         *)
(* A transaction id determines its record (Rec): txids hash their content. *)
(***************************************************************************)
EXTENDS Integers, FiniteSets

CONSTANTS
    Names,          \* names of the registry
    Keys,           \* author keys
    Publications,   \* publication txids a record may point a name at
    Zero,           \* the zero target of a reserving record
    Hashes,         \* record digests
    Txids,          \* reveal transactions that carry a names record
    Rec,            \* the record of every txid
    Policies,       \* the approval policies that a genesis may declare
    ExpiryBlocks, RevealMax,
    GenesisHeight,
    Earlier,        \* sets of reveals that may be on the chain by the genesis block
    First,          \* First[t]: reveals that are mined before t (a bound)
    Keeps,          \* numbers of undo frames the owner of the registry keeps
    Slots,          \* places of a commit output inside its block
    MaxU64,         \* the last value of the height type
    Absent,         \* no entry in the map
    Unbound         \* Binding::Unbound

Ops == {"Genesis", "Claim", "Update", "Renew", "Approve", "Suspend", "Restore"}
Record == [author : Keys, op : Ops, own : BOOLEAN, name : Names,
           target : Publications \cup {Zero}, sha256 : Hashes,
           record_txid : Txids, record_sha256 : Hashes]

Targets == Publications \cup {Zero}
Heights == 0..MaxU64
Bound == [owner : Keys, target : Targets, expiry : Heights,
          claim_txid : Txids, last_txid : Txids]
NameState == [binding : Bound \cup {Unbound}, suspended : BOOLEAN,
              suspend_votes : SUBSET Keys, restore_votes : SUBSET Keys]
PendingRecord == [kind : {"Request", "Update"}, name : Names, author : Keys,
                  target : Targets, sha256 : Hashes, height : Heights,
                  approvals : SUBSET Keys, completed : BOOLEAN]

ASSUME SentinelAssumption ==
    /\ Absent \notin NameState
    /\ Absent \notin PendingRecord
    /\ Unbound \notin Bound
    /\ Zero \notin Publications

(* Genesis::validate: the rules a registry accepts at its genesis. *)
GenesisValid ==
    /\ RevealMax \in Nat /\ RevealMax >= 1
    /\ ExpiryBlocks \in Nat /\ ExpiryBlocks > RevealMax
    /\ \A p \in Policies :
          /\ p.approvers \subseteq Keys /\ IsFiniteSet(p.approvers)
          /\ \/ p.mode = "Open" /\ p.threshold = 0 /\ p.approvers = {}
             \/ p.mode = "Administered" /\ p.threshold \in 1..Cardinality(p.approvers)

ASSUME RulesAssumption == GenesisValid
ASSUME RecordAssumption == Rec \in [Txids -> Record]
ASSUME HeightAssumption ==
    /\ GenesisHeight \in Nat /\ MaxU64 \in Nat /\ GenesisHeight <= MaxU64
    /\ Slots \subseteq Nat /\ Keeps \subseteq Nat
    /\ Earlier \in [Policies -> SUBSET SUBSET Txids]

VARIABLES
    policy,     \* the ApprovalPolicy of Registry::config, fixed by the genesis
    height,     \* Registry::height, the last block connected
    names,      \* Registry::names
    pending,    \* Registry::pending
    expiries,   \* Registry::expiries, the index of bindings by expiry height
    base,       \* height below the oldest undo frame that is kept
    undo,       \* Registry::undo, the frame of each height base+1 .. height
    before,     \* history variable: the maps as they were before each kept block
    phase,      \* pass of connect_delta in progress, "idle" between blocks
    mined       \* environment: the height of the block that holds a txid, or 0

vars == <<policy, height, names, pending, expiries, base, undo, before, phase, mined>>

Mode == policy.mode
Approvers == policy.approvers
Threshold == policy.threshold

-----------------------------------------------------------------------------
(* Maps and undo frames. *)

UnboundName == [binding |-> Unbound, suspended |-> FALSE,
                suspend_votes |-> {}, restore_votes |-> {}]

(* config::state_of: an absent name reads as an unbound one. *)
state_of(nm, n) == IF nm[n] = Absent THEN UnboundName ELSE nm[n]

IsBound(nm, n) == state_of(nm, n).binding # Unbound

NoFrame == [names |-> [n \in {} |-> Absent], pending |-> [t \in {} |-> Absent]]

(* Fault: the last touch of a key saves its value. *)
RememberLatest(frame, key, value) ==
    [k \in DOMAIN frame \cup {key} |-> IF k = key THEN value ELSE frame[k]]

(* remember_name, remember_pending: the first touch of a key saves its value. *)
Remember(frame, key, value) ==
    [k \in DOMAIN frame \cup {key} |-> IF k \in DOMAIN frame THEN frame[k] ELSE value]

(* Entries of the expiry index that a name's state stands for. *)
ExpiryEntry(n, s) == IF s.binding = Unbound THEN {} ELSE {<<s.binding.expiry, n>>}

(* Fault: the entry of the replaced binding stays in the index. *)
ReindexLeavesOld(index, nm, n, new) ==
    index \cup ExpiryEntry(n, IF new = Absent THEN UnboundName ELSE new)

(* Registry::store and forget: keep the expiry index in step with the map. *)
Reindex(index, nm, n, new) ==
    (index \ ExpiryEntry(n, state_of(nm, n))) \cup
        ExpiryEntry(n, IF new = Absent THEN UnboundName ELSE new)

SetName(n, s) ==
    /\ names' = [names EXCEPT ![n] = s]
    /\ expiries' = Reindex(expiries, names, n, s)

-----------------------------------------------------------------------------
(* Admission. *)

Admit(t, commit) ==
    /\ Rec[t].own
    /\ commit > GenesisHeight
    /\ commit <= height
    /\ height - commit >= 1
    /\ height - commit <= RevealMax

AdmitApprover(t, commit) ==
    /\ Admit(t, commit)
    /\ Mode # "Open"
    /\ Rec[t].author \in Approvers

HasExpiry == height + ExpiryBlocks <= MaxU64

(* The reveal is still to be mined, and its turn has come. *)
Minable(t) == mined[t] = 0 /\ \A r \in First[t] : mined[r] # 0

-----------------------------------------------------------------------------
(* connect_delta: open a frame, unbind what is due at the new height. *)

Due(h) == {n \in Names : \E e \in expiries : e[2] = n /\ e[1] <= h}

Expired(nm, h) ==
    [n \in Names |-> IF n \in Due(h) /\ IsBound(nm, n)
                     THEN [nm[n] EXCEPT !.binding = Unbound] ELSE nm[n]]

HasNext == height + 1 <= MaxU64

Connect ==
    /\ phase = "idle"
    /\ HasNext
    /\ height' = height + 1
    /\ names' = Expired(names, height + 1)
    /\ expiries' = expiries \ {e \in expiries :
                        \/ e[1] <= height + 1 /\ ~IsBound(names, e[2])
                        \/ \E n \in Due(height + 1) : e \in ExpiryEntry(n, state_of(names, n))}
    /\ undo' = [h \in base + 1 .. height + 1 |->
                  IF h = height + 1
                  THEN [names   |-> [n \in {m \in Due(height + 1) : IsBound(names, m)} |-> names[n]],
                        pending |-> NoFrame.pending]
                  ELSE undo[h]]
    /\ before' = [h \in base + 1 .. height + 1 |->
                  IF h = height + 1 THEN [names |-> names, pending |-> pending] ELSE before[h]]
    /\ phase' = "approver"
    /\ UNCHANGED <<pending, base, mined>>

-----------------------------------------------------------------------------
(* approver_records: Approve, Suspend, Restore. *)

(* approve: everything before the approval is counted. *)
ApprovalCounts(t, commit) ==
    LET p == pending[Rec[t].record_txid]
    IN  /\ AdmitApprover(t, commit)
        /\ p # Absent
        /\ p.sha256 = Rec[t].record_sha256
        /\ ~p.completed
        /\ Rec[t].author \notin p.approvals

(* Fault: one approval less than the threshold completes a record. *)
ApprovedEarly(t) ==
    LET p == pending[Rec[t].record_txid]
        approvals == p.approvals \cup {Rec[t].author}
    IN  [p EXCEPT !.approvals = approvals,
                  !.completed = Cardinality(approvals) + 1 >= Threshold]

Approved(t) ==
    LET p == pending[Rec[t].record_txid]
        approvals == p.approvals \cup {Rec[t].author}
    IN  [p EXCEPT !.approvals = approvals,
                  !.completed = Cardinality(approvals) >= Threshold]

(* Fault: a completed request takes the name whoever holds it. *)
CompletionIgnoresBinding(p) ==
    LET s == state_of(names, p.name)
    IN  \/ p.kind = "Request" /\ ~s.suspended /\ HasExpiry
        \/ p.kind = "Update" /\ s.binding # Unbound /\ s.binding.owner = p.author

(* complete: the guards under which a completed record changes its name. *)
CompletionApplies(p) ==
    LET s == state_of(names, p.name)
    IN  \/ /\ p.kind = "Request"
           /\ ~s.suspended
           /\ s.binding = Unbound
           /\ HasExpiry
        \/ /\ p.kind = "Update"
           /\ s.binding # Unbound
           /\ s.binding.owner = p.author

CompletedState(p, t) ==
    LET s == state_of(names, p.name)
    IN  [s EXCEPT !.binding =
           IF p.kind = "Request"
           THEN [owner |-> p.author, target |-> p.target, expiry |-> height + ExpiryBlocks,
                 claim_txid |-> Rec[t].record_txid, last_txid |-> t]
           ELSE [owner |-> s.binding.owner, target |-> p.target, expiry |-> s.binding.expiry,
                 claim_txid |-> s.binding.claim_txid, last_txid |-> t]]

Approve(t, commit) ==
    /\ phase = "approver" /\ Rec[t].op = "Approve" /\ Minable(t)
    /\ mined' = [mined EXCEPT ![t] = height]
    /\ UNCHANGED <<height, base, before, phase>>
    /\ \/ /\ ~ApprovalCounts(t, commit)
          /\ UNCHANGED <<names, pending, expiries, undo>>
       \/ /\ ApprovalCounts(t, commit)
          /\ LET p == Approved(t)
                 key == Rec[t].record_txid
                 applies == p.completed /\ CompletionApplies(p)
             IN  /\ pending' = [pending EXCEPT ![key] = p]
                 /\ undo' = [undo EXCEPT ![height] =
                      [names   |-> IF applies THEN Remember(@.names, p.name, names[p.name]) ELSE @.names,
                       pending |-> Remember(@.pending, key, pending[key])]]
                 /\ IF applies THEN SetName(p.name, CompletedState(p, t))
                               ELSE UNCHANGED <<names, expiries>>

(* Fault: the votes that made the threshold are not cleared. *)
VotedKeepsVotes(s, key, suspend) ==
    LET votes == (IF suspend THEN s.suspend_votes ELSE s.restore_votes) \cup {key}
        counted == IF suspend THEN [s EXCEPT !.suspend_votes = votes]
                              ELSE [s EXCEPT !.restore_votes = votes]
    IN  IF Cardinality(votes) >= Threshold THEN [counted EXCEPT !.suspended = suspend] ELSE counted

(* vote: one more approver for the other suspension phase. *)
Voted(s, key, suspend) ==
    LET votes == (IF suspend THEN s.suspend_votes ELSE s.restore_votes) \cup {key}
    IN  IF Cardinality(votes) >= Threshold
        THEN [s EXCEPT !.suspended = suspend, !.suspend_votes = {}, !.restore_votes = {}]
        ELSE IF suspend THEN [s EXCEPT !.suspend_votes = votes]
                        ELSE [s EXCEPT !.restore_votes = votes]

VoteCounts(t, commit, suspend) ==
    LET s == state_of(names, Rec[t].name)
    IN  /\ AdmitApprover(t, commit)
        /\ s.suspended # suspend
        /\ Rec[t].author \notin (IF suspend THEN s.suspend_votes ELSE s.restore_votes)

Vote(t, commit, suspend) ==
    /\ phase = "approver" /\ Minable(t)
    /\ Rec[t].op = (IF suspend THEN "Suspend" ELSE "Restore")
    /\ mined' = [mined EXCEPT ![t] = height]
    /\ UNCHANGED <<height, base, before, phase, pending>>
    /\ \/ /\ ~VoteCounts(t, commit, suspend)
          /\ UNCHANGED <<names, expiries, undo>>
       \/ /\ VoteCounts(t, commit, suspend)
          /\ LET n == Rec[t].name
             IN  /\ SetName(n, Voted(state_of(names, n), Rec[t].author, suspend))
                 /\ undo' = [undo EXCEPT ![height] =
                      [names |-> Remember(@.names, n, names[n]), pending |-> @.pending]]

-----------------------------------------------------------------------------
(* claims, assign: in an open registry the oldest commit takes the name.   *)
(* A commit is a height and a slot, which stands for position and vout.    *)

Older(a, b) == a.height < b.height \/ (a.height = b.height /\ a.slot < b.slot)

(* Fault: a claim competes for a name that is bound. *)
CandidatesForBound(S, commits, n) ==
    {t \in S : Admit(t, commits[t].height) /\ Rec[t].name = n}

Candidates(S, commits, n) ==
    {t \in S : Admit(t, commits[t].height) /\ Rec[t].name = n /\ ~IsBound(names, n)}

Wins(S, commits, t) ==
    LET rivals == Candidates(S, commits, Rec[t].name)
    IN  t \in rivals /\ \A r \in rivals \ {t} : Older(commits[t], commits[r])

ClaimedState(n, t) ==
    [state_of(names, n) EXCEPT !.binding =
        [owner |-> Rec[t].author, target |-> Rec[t].target,
         expiry |-> height + ExpiryBlocks, claim_txid |-> t, last_txid |-> t]]

(* assign, for the claims S of the block and the commit each one spends. *)
Assign(S, commits) ==
    LET winners == {t \in S : Wins(S, commits, t) /\ HasExpiry}
        won == {Rec[t].name : t \in winners}
        winner(n) == CHOOSE t \in winners : Rec[t].name = n
    IN  /\ names' = [n \in Names |-> IF n \in won THEN ClaimedState(n, winner(n)) ELSE names[n]]
        /\ expiries' = (expiries \ UNION {ExpiryEntry(n, state_of(names, n)) : n \in won})
                         \cup {<<height + ExpiryBlocks, n>> : n \in won}
        /\ undo' = [undo EXCEPT ![height] =
             [names   |-> [n \in DOMAIN @.names \cup won |->
                             IF n \in DOMAIN @.names THEN @.names[n] ELSE names[n]],
              pending |-> @.pending]]
        /\ mined' = [t \in Txids |-> IF t \in S THEN height ELSE mined[t]]

(* A commit is mined no later than the reveal that spends it, and no two   *)
(* reveals spend one output.                                               *)
Commits == [height : 0..height, slot : Slots]

Claims ==
    /\ phase = "approver" /\ Mode = "Open"
    /\ \E S \in SUBSET {t \in Txids : Rec[t].op = "Claim" /\ Minable(t)} :
         \E commits \in [S -> Commits] :
            /\ \A t, r \in S : t # r => commits[t] # commits[r]
            /\ Assign(S, commits)
    /\ phase' = "owner"
    /\ UNCHANGED <<height, pending, base, before>>

(* An administered registry has no claims pass. *)
SkipClaims ==
    /\ phase = "approver" /\ Mode = "Administered"
    /\ phase' = "owner"
    /\ UNCHANGED <<height, names, pending, expiries, base, undo, before, mined>>

-----------------------------------------------------------------------------
(* owner_records: requests, updates, renewals and stray genesis records. *)

OwnedBy(t) ==
    LET b == state_of(names, Rec[t].name).binding
    IN  b # Unbound /\ b.owner = Rec[t].author

IsReserving(t) == Rec[t].target = Zero

(* request, and update in an administered registry: insert_pending. *)
Enters(t, commit) ==
    /\ Mode = "Administered"
    /\ Rec[t].op \in {"Claim", "Update"}
    /\ Admit(t, commit)
    /\ Rec[t].op = "Update" => OwnedBy(t)
    /\ ~IsReserving(t)

NewPending(t) ==
    [kind |-> IF Rec[t].op = "Claim" THEN "Request" ELSE "Update", name |-> Rec[t].name,
     author |-> Rec[t].author, target |-> Rec[t].target, sha256 |-> Rec[t].sha256,
     height |-> height, approvals |-> {}, completed |-> FALSE]

(* Fault: a renewal may name a target nobody approved. *)
ChangesToAnyTarget(t, commit) ==
    /\ Admit(t, commit)
    /\ OwnedBy(t)
    /\ \/ Rec[t].op = "Update" /\ Mode = "Open"
       \/ Rec[t].op = "Renew" /\ HasExpiry

(* update in an open registry, and renew in either. *)
Changes(t, commit) ==
    /\ Admit(t, commit)
    /\ OwnedBy(t)
    /\ \/ Rec[t].op = "Update" /\ Mode = "Open"
       \/ /\ Rec[t].op = "Renew"
          /\ HasExpiry
          /\ Mode = "Administered" =>
                state_of(names, Rec[t].name).binding.target = Rec[t].target /\ ~IsReserving(t)

ChangedState(t) ==
    LET s == state_of(names, Rec[t].name)
    IN  [s EXCEPT !.binding =
           [owner |-> s.binding.owner, target |-> Rec[t].target,
            expiry |-> IF Rec[t].op = "Renew" THEN height + ExpiryBlocks ELSE s.binding.expiry,
            claim_txid |-> s.binding.claim_txid, last_txid |-> t]]

OwnerRecord(t, commit) ==
    /\ phase = "owner" /\ Minable(t)
    /\ Rec[t].op \in {"Update", "Renew", "Genesis"} \/ (Rec[t].op = "Claim" /\ Mode = "Administered")
    /\ mined' = [mined EXCEPT ![t] = height]
    /\ UNCHANGED <<height, base, before, phase>>
    /\ \/ /\ ~Enters(t, commit) /\ ~Changes(t, commit)
          /\ UNCHANGED <<names, pending, expiries, undo>>
       \/ /\ Enters(t, commit)
          /\ pending' = [pending EXCEPT ![t] = NewPending(t)]
          /\ undo' = [undo EXCEPT ![height] =
               [names |-> @.names, pending |-> Remember(@.pending, t, pending[t])]]
          /\ UNCHANGED <<names, expiries>>
       \/ /\ Changes(t, commit)
          /\ LET n == Rec[t].name
             IN  /\ SetName(n, ChangedState(t))
                 /\ undo' = [undo EXCEPT ![height] =
                      [names |-> Remember(@.names, n, names[n]), pending |-> @.pending]]
          /\ UNCHANGED pending

Finish ==
    /\ phase = "owner"
    /\ phase' = "idle"
    /\ UNCHANGED <<height, names, pending, expiries, base, undo, before, mined>>

-----------------------------------------------------------------------------
(* disconnect_delta: put back what the newest frame remembers. *)

Revert(map, frame) == [k \in DOMAIN map |-> IF k \in DOMAIN frame THEN frame[k] ELSE map[k]]

Disconnect ==
    /\ phase = "idle"
    /\ height > base
    /\ names' = Revert(names, undo[height].names)
    /\ pending' = Revert(pending, undo[height].pending)
    /\ expiries' = (expiries \ UNION {ExpiryEntry(n, state_of(names, n)) : n \in DOMAIN undo[height].names})
                     \cup UNION {ExpiryEntry(n, state_of(names', n)) : n \in DOMAIN undo[height].names}
    /\ undo' = [h \in base + 1 .. height - 1 |-> undo[h]]
    /\ before' = [h \in base + 1 .. height - 1 |-> before[h]]
    /\ height' = height - 1
    /\ mined' = [t \in Txids |-> IF mined[t] = height THEN 0 ELSE mined[t]]
    /\ UNCHANGED <<base, phase>>

(* prune(keep): forget the oldest frames. *)
Prune(keep) ==
    /\ phase = "idle"
    /\ height - base >= keep
    /\ base' = height - keep
    /\ undo' = [h \in base' + 1 .. height |-> undo[h]]
    /\ before' = [h \in base' + 1 .. height |-> before[h]]
    /\ UNCHANGED <<height, names, pending, expiries, phase, mined>>

-----------------------------------------------------------------------------
Init ==
    /\ policy \in Policies
    /\ height = GenesisHeight
    /\ names = [n \in Names |-> Absent]
    /\ pending = [t \in Txids |-> Absent]
    /\ expiries = {}
    /\ base = GenesisHeight
    /\ undo = [h \in {} |-> NoFrame]
    /\ before = [h \in {} |-> [names |-> names, pending |-> pending]]
    /\ phase = "idle"
    /\ \E old \in Earlier[policy] : mined = [t \in Txids |-> IF t \in old THEN GenesisHeight ELSE 0]

Step ==
    \/ Connect
    \/ \E t \in Txids, commit \in 0..height :
         \/ Approve(t, commit)
         \/ \E suspend \in BOOLEAN : Vote(t, commit, suspend)
         \/ OwnerRecord(t, commit)
    \/ Claims
    \/ SkipClaims
    \/ Finish
    \/ Disconnect
    \/ \E keep \in Keeps : Prune(keep)

Next == Step /\ UNCHANGED policy

Spec == Init /\ [][Next]_vars

-----------------------------------------------------------------------------
(* Correctness. *)

NamesMap == [Names -> NameState \cup {Absent}]
PendingMap == [Txids -> PendingRecord \cup {Absent}]

(* A frame remembers earlier values of some names and some pending records. *)
IsFrame(f) ==
    /\ f = [names |-> f.names, pending |-> f.pending]
    /\ DOMAIN f.names \subseteq Names
    /\ f.names \in [DOMAIN f.names -> NameState \cup {Absent}]
    /\ DOMAIN f.pending \subseteq Txids
    /\ f.pending \in [DOMAIN f.pending -> PendingRecord \cup {Absent}]

(* Type invariant: Registry's fields hold what state.rs declares, heights   *)
(* stay in their type, and there is one undo frame per reversible block.    *)
TypeOK ==
    /\ base \in GenesisHeight..height
    /\ height \in GenesisHeight..MaxU64
    /\ names \in NamesMap
    /\ pending \in PendingMap
    /\ expiries \subseteq Heights \X Names
    /\ DOMAIN undo = base + 1 .. height
    /\ \A h \in base + 1 .. height : IsFrame(undo[h])
    /\ before \in [base + 1 .. height -> [names : NamesMap, pending : PendingMap]]
    /\ phase \in {"idle", "approver", "owner"}
    /\ phase # "idle" => base < height
    /\ mined \in [Txids -> Heights]

IndexOf(nm) == UNION {ExpiryEntry(n, state_of(nm, n)) : n \in Names}

(* The expiry index that expire() scans lists exactly the bound names, each *)
(* at the expiry of its current binding: renewals, re-claims, forget and    *)
(* disconnect leave no stale and no missing entry behind.                   *)
ExpiryIndexExact == expiries = IndexOf(names)

NotOverdue(nm, h) ==
    \A n \in Names : IsBound(nm, n) => state_of(nm, n).binding.expiry > h

(* No name stays bound at or past its expiry height, also after blocks were *)
(* disconnected and others connected in their place.                        *)
NothingOverdue == NotOverdue(names, height)

(* The maps right after block h: what undoing block h starts from. *)
After(h) == IF h = height THEN [names |-> names, pending |-> pending] ELSE before[h + 1]

(* Undo frames are exact: whatever the records of a block touched, and      *)
(* however often, reverting its frame yields the maps as they were before   *)
(* the block, at every depth disconnect_delta can reach.                    *)
UndoExact ==
    \A h \in base + 1 .. height :
        /\ Revert(After(h).names, undo[h].names) = before[h].names
        /\ Revert(After(h).pending, undo[h].pending) = before[h].pending

VotesFresh(nm) ==
    \A n \in Names :
        LET s == state_of(nm, n)
        IN  /\ s.suspend_votes \cup s.restore_votes \subseteq Approvers
            /\ s.suspended => s.suspend_votes = {}
            /\ ~s.suspended => s.restore_votes = {}
            /\ Cardinality(s.suspend_votes) < Threshold \/ s.suspend_votes = {}
            /\ Cardinality(s.restore_votes) < Threshold \/ s.restore_votes = {}

(* vote(): a suspension or restoration takes a full threshold of approvers  *)
(* counted since the last one; votes of an earlier phase never linger.      *)
NoLingeringVotes == VotesFresh(names)

ApprovedFor(p, n) ==
    /\ p # Absent
    /\ p.completed
    /\ p.name = n
    /\ p.approvals \subseteq Approvers
    /\ Cardinality(p.approvals) >= Threshold

Backed(nm, pd) ==
    \A n \in Names : IsBound(nm, n) =>
        \E t \in Txids : /\ ApprovedFor(pd[t], n)
                         /\ pd[t].author = state_of(nm, n).binding.owner
                         /\ pd[t].target = state_of(nm, n).binding.target

(* In an administered registry the target a bound name serves was approved  *)
(* for that name and that owner by a threshold of distinct approvers: no    *)
(* renewal, update, expiry and re-claim, or reorganization serves another.  *)
ServedTargetApproved == Mode = "Administered" => Backed(names, pending)

KeepsOwner(n) ==
    IsBound(names, n) =>
        \/ IsBound(names', n) /\ names'[n].binding.owner = names[n].binding.owner
        \/ names[n].binding.expiry <= height'

(* Going forward, a bound name keeps its owner until its expiry height:     *)
(* claims, requests, updates and approvals never take over a live name.     *)
OwnerUntilExpiry == [][height' >= height => \A n \in Names : KeepsOwner(n)]_vars
=============================================================================
