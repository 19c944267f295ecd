----------------------------- MODULE SignedPlan -----------------------------
(***************************************************************************)
(* The signed plan of a multipart publication: its quote (urma-runtime     *)
(* quote.rs), the planner and the writer that sign it record by record     *)
(* (planner.rs, publication.rs, disk_writer.rs), and the validator that    *)
(* every load runs (disk_plan.rs, validation.rs, disk_order.rs; urma-core  *)
(* multipart.rs Geometry and multipart/consistency.rs).                    *)
(*                                                                         *)
(* Lengths are counted in units of which PartUnits fit a data part.  A     *)
(* record has an identity, `id', that stands for its reveal txid and its   *)
(* hash; equal hashes of lists of references are equal lists.  Signatures, *)
(* scripts, weights and encodings are left out: what is signed is valid.   *)
(***************************************************************************)
EXTENDS Integers, Sequences, FiniteSets, SequencesExt

CONSTANTS
    PartUnits,      \* Geometry::DATA_BYTES
    Fanout,         \* Geometry::FANOUT
    MaxLength,      \* Geometry::MAX_OBJECT_BYTES
    MaxInputs,      \* WALLET_MAX_INPUTS
    RecordFee,      \* fee of a record with one funding input, at the plan's rate
    InputFee,       \* fee of each further input
    Retained        \* config::publication_return

ASSUME GeometryAssumption ==
    /\ {PartUnits, Fanout, MaxInputs, RecordFee, Retained} \subseteq Nat \ {0}
    /\ {MaxLength, InputFee} \subseteq Nat

Smaller(m, n) == IF m < n THEN m ELSE n
CeilDiv(m, n) == (m + n - 1) \div n
Total(values) == FoldLeft(LAMBDA sum, v : sum + v, 0, values)

-----------------------------------------------------------------------------
(* Geometry. *)

Parts(length) == LET n == CeilDiv(length, PartUnits) IN IF n > 1 THEN n ELSE 1
Leaves(length) == CeilDiv(Parts(length), Fanout)
Nodes(length) == Parts(length) + Leaves(length) + 1

(* part_length and leaf_entries; parts and leaves count from 0. *)
PartLength(length, i) == Smaller(length - i * PartUnits, PartUnits)
LeafEntries(length, i) == Smaller(Parts(length) - i * Fanout, Fanout)

-----------------------------------------------------------------------------
(* Quote and funding. *)

(* quote::multipart: each record priced with one input; a quote that        *)
(* forgets the root.                                                        *)
QuoteWithoutRoot(length) == (Nodes(length) - 1) * RecordFee
Quote(length) == Nodes(length) * RecordFee

(* quote::multipart and Planner::minimum: the fee, and what each reveal and *)
(* the last commit keep.                                                    *)
Funding(length) == Quote(length) + (Nodes(length) + 1) * Retained

-----------------------------------------------------------------------------
(* The writer. *)

(* DiskWriter::prepare: the records in order, data then leaves then root.   *)
(* Identities are positions, so that a reference is to an earlier record.   *)
RecordAt(length, k) ==
    LET parts == Parts(length)
        leaf == k - parts - 1
    IN  IF k <= parts
        THEN [id |-> k, kind |-> "data", index |-> k - 1, units |-> PartLength(length, k - 1), entries |-> <<>>]
        ELSE IF leaf < Leaves(length)
        THEN [id |-> k, kind |-> "leaf", index |-> leaf, units |-> 0,
              entries |-> [e \in 1..LeafEntries(length, leaf) |-> leaf * Fanout + e]]
        ELSE [id |-> k, kind |-> "root", index |-> 0, units |-> length,
              entries |-> [e \in 1..Leaves(length) |-> parts + e]]

(* A plan as it grows: its pairs, the coins or the change that fund the     *)
(* next one, the fees so far, and whether every step succeeded.  `spends'   *)
(* names the commit whose change is spent, 0 for coins of the wallet.       *)
NewPlanner(coins) == [pairs |-> <<>>, inputs |-> coins, spends |-> 0, total |-> 0, ok |-> TRUE]

FeeOf(inputs) == RecordFee + (Len(inputs) - 1) * InputFee
ChangeOf(inputs) == Total(inputs) - FeeOf(inputs) - Retained

(* publication::prepare_bytes signs with what funds it. *)
Pair(s, record) ==
    [record |-> record, spends |-> s.spends, inputs |-> s.inputs, change |-> ChangeOf(s.inputs)]

(* Planner::prepare_record, under the approved maximum fee: the change      *)
(* stays above dust, the total below the maximum.                           *)
Prepare(s, record, maximum) ==
    IF /\ s.ok
       /\ Len(s.inputs) \in 1..MaxInputs
       /\ ChangeOf(s.inputs) >= Retained
       /\ s.total + FeeOf(s.inputs) <= maximum
    THEN [s EXCEPT !.pairs = Append(@, Pair(s, record)),
                   !.inputs = <<ChangeOf(s.inputs)>>,
                   !.spends = record.id,
                   !.total = @ + FeeOf(s.inputs)]
    ELSE [s EXCEPT !.ok = FALSE]

Signing(length, coins, maximum) ==
    FoldLeft(LAMBDA s, record : Prepare(s, record, maximum),
             NewPlanner(coins), [k \in 1..Nodes(length) |-> RecordAt(length, k)])

(* The coins carry the plan to its end. *)
Signs(length, coins, maximum) == Signing(length, coins, maximum).ok

(* DiskPlan::from_metadata *)
Written(length, coins, maximum) ==
    LET s == Signing(length, coins, maximum)
    IN  [records |-> s.pairs, total |-> s.total, maximum |-> maximum, root |-> Len(s.pairs)]

-----------------------------------------------------------------------------
(* The validator. *)

(* Validation::new, Order::new and MultipartConsistency::new. *)
NewValidation ==
    [ok |-> TRUE, total |-> 0, last |-> 0, change |-> 0, root |-> FALSE,
     parts |-> <<>>, length |-> 0, lastPart |-> PartUnits, leaves |-> <<>>, lastLeaf |-> Fanout]

(* verify_first_funding, verify_chained_funding and the sums of append; a   *)
(* version that does not follow the chain.                                  *)
FundedByAny(v, pair) ==
    /\ v.ok /\ Total(pair.inputs) >= pair.change + Retained
    /\ pair.change >= Retained
Funded(v, pair) ==
    /\ IF v.last = 0 THEN Len(pair.inputs) \in 1..MaxInputs
       ELSE pair.spends = v.last /\ pair.inputs = <<v.change>>
    /\ Total(pair.inputs) >= pair.change + Retained
    /\ pair.change >= Retained

(* Order::append and MultipartConsistency::accept_data. *)
AcceptsData(v, r) ==
    /\ v.leaves = <<>>
    /\ r.index = Len(v.parts)
    /\ v.lastPart = PartUnits

(* accept_leaf: the group of data parts that leaf `index' must list. *)
Group(v, i) == SubSeq(v.parts, i * Fanout + 1, Smaller((i + 1) * Fanout, Len(v.parts)))

AcceptsLeafOfAny(v, r) ==
    /\ v.parts # <<>> /\ r.index = Len(v.leaves)
    /\ v.lastLeaf = Fanout /\ r.entries # <<>>
AcceptsLeaf(v, r) ==
    /\ v.parts # <<>> /\ r.index = Len(v.leaves)
    /\ v.lastLeaf = Fanout
    /\ r.index * Fanout < Len(v.parts) /\ r.entries = Group(v, r.index)

(* accept_root *)
AcceptsRoot(v, r) ==
    /\ v.leaves # <<>> /\ r.entries = v.leaves
    /\ r.units = v.length /\ r.units <= MaxLength
    /\ Len(v.parts) = Parts(r.units) /\ Len(v.leaves) = Leaves(r.units)
    /\ v.lastLeaf = LeafEntries(r.units, Len(v.leaves) - 1)

Fits(v, r) ==
    CASE r.kind = "data" -> AcceptsData(v, r)
      [] r.kind = "leaf" -> AcceptsLeaf(v, r)
      [] r.kind = "root" -> AcceptsRoot(v, r)

(* Validation::append and Order::append for one record. *)
Accept(v, pair) ==
    LET r == pair.record
    IN  IF ~(v.ok /\ ~v.root /\ Funded(v, pair) /\ Fits(v, r)) THEN [v EXCEPT !.ok = FALSE]
        ELSE [v EXCEPT
                !.total = @ + Total(pair.inputs) - pair.change - Retained,
                !.last = r.id, !.change = pair.change,
                !.root = r.kind = "root",
                !.parts = IF r.kind = "data" THEN Append(@, r.id) ELSE @,
                !.length = IF r.kind = "data" THEN @ + r.units ELSE @,
                !.lastPart = IF r.kind = "data" THEN r.units ELSE @,
                !.leaves = IF r.kind = "leaf" THEN Append(@, r.id) ELSE @,
                !.lastLeaf = IF r.kind = "leaf" THEN Len(r.entries) ELSE @]

(* DiskPlan::validate; Order::finish, validate_count, Validation::finish.   *)
Validates(plan) ==
    LET v == FoldLeft(Accept, NewValidation, plan.records)
    IN  /\ plan.records # <<>> /\ plan.total <= plan.maximum
        /\ v.ok /\ v.root /\ Nodes(v.length) = Len(plan.records)
        /\ v.total = plan.total /\ v.last = plan.root

-----------------------------------------------------------------------------
(* A record as its format allows: a data part refers to nothing. *)
IsRecord(r) ==
    /\ r.kind \in {"data", "leaf", "root"} /\ r.index \in Nat /\ r.units \in Nat /\ r.id # 0
    /\ r.entries \in Seq(ToSet(r.entries))
    /\ r.kind = "data" => r.entries = <<>>

(* Reference: what a plan is, without a word on how it is checked. *)

(* The entries of the manifests, followed from the root, are the data parts *)
(* from first to last, each once, and every reference is to an earlier      *)
(* record; and each commit spends what the one before left, nothing else.   *)
PositionOf(plan, id) == CHOOSE k \in DOMAIN plan.records : plan.records[k].record.id = id
Ids(plan) == [k \in DOMAIN plan.records |-> plan.records[k].record.id]
KindOf(plan, k) == plan.records[k].record.kind

Entries(plan, k) == plan.records[k].record.entries

\* The entries of the records ids, one record after the other.
Followed(plan, ids) ==
    FoldLeft(LAMBDA joined, id : joined \o Entries(plan, PositionOf(plan, id)), <<>>, ids)

IsTree(plan) ==
    LET n == Len(plan.records)
        reached == Followed(plan, Entries(plan, n))
        at == [e \in DOMAIN reached |-> PositionOf(plan, reached[e])]
    IN  /\ n > 0 /\ IsInjective(Ids(plan))
        /\ \A k \in 1..n : KindOf(plan, k) = "root" <=> k = n
        /\ \A k \in 1..n : \A e \in DOMAIN Entries(plan, k) :
              \E j \in 1..(k - 1) :
                 /\ plan.records[j].record.id = Entries(plan, k)[e]
                 /\ KindOf(plan, j) = IF k = n THEN "leaf" ELSE "data"
        /\ ToSet(at) = {k \in 1..n : KindOf(plan, k) = "data"}
        /\ \A e, f \in DOMAIN at : e < f => at[e] < at[f]
        /\ Total([e \in DOMAIN at |-> plan.records[at[e]].record.units])
              = plan.records[n].record.units

IsChain(plan) ==
    \A k \in 2..Len(plan.records) :
        /\ plan.records[k].spends = plan.records[k - 1].record.id
        /\ plan.records[k].inputs = <<plan.records[k - 1].change>>
=============================================================================
