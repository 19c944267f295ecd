----------------------------- MODULE NamesSync -----------------------------
(***************************************************************************)
(* The names scanner (urma-names scan.rs, index.rs): sync brings the       *)
(* persisted index up to the chain of a Source, which may answer every     *)
(* call from another chain than the call before, and may fail or be cut    *)
(* off at any point.                                                       *)
(*                                                                         *)
(* The registry is what engine.rs makes of the observations of the blocks  *)
(* connected so far, so it is represented by those: one entry per block.   *)
(* NamesRegistry models what connect and disconnect do with them.  Two of  *)
(* its parts are history: `mixed' of an entry and `rebuilt' of the index.  *)
(***************************************************************************)
EXTENDS Integers, Sequences, FiniteSets

CONSTANTS
    Blocks,         \* block hashes
    Chains,         \* the chains the source may be on: block of each height from 1
    GenesisHeight,  \* height of the block that holds the genesis record
    GenesisBlocks,  \* blocks that hold it
    CommitsIn,      \* per block: position of every transaction with a taproot output
    RevealsIn,      \* per block: the commits its names reveals spend
    RevealMax,      \* rules().reveal_max_blocks
    Reversible,     \* NamesIndex::REVERSIBLE
    MaxBlocks,      \* --max-blocks of a scan
    None

(* A block hash commits to its height and to all blocks below it. *)
ASSUME ChainAssumption ==
    /\ Chains \subseteq Seq(Blocks) /\ None \notin Blocks
    /\ \A c, d \in Chains : \A i \in DOMAIN c : \A j \in DOMAIN d :
          c[i] = d[j] => i = j /\ SubSeq(c, 1, i) = SubSeq(d, 1, i)
(* A transaction is in one block of a chain. *)
ASSUME OnceAssumption ==
    \A c \in Chains : \A i, j \in DOMAIN c :
        DOMAIN CommitsIn[c[i]] \cap DOMAIN CommitsIn[c[j]] # {} => i = j
ASSUME NumberAssumption ==
    /\ GenesisHeight \in Nat \ {0} /\ RevealMax \in Nat \ {0}
    /\ Reversible \in Nat \ {0} /\ MaxBlocks \in Nat \ {0}

VARIABLES
    chain,      \* environment: the chain the source is on
    disk,       \* the persisted NamesIndex, or None
    index,      \* the NamesIndex in memory, or None
    locator,    \* Locator: the block of each height it knows commits of
    pc,         \* the step of sync in progress, "off" between calls
    tip,        \* tip height read by sync
    removed,    \* blocks rolled back by this call
    scanned,    \* blocks scanned by this call
    block       \* block fetched by scan_block

vars == <<chain, disk, index, locator, pc, tip, removed, scanned, block>>

-----------------------------------------------------------------------------
(* The index: genesis_hash, blocks (the checkpoints, newest last), window   *)
(* (block of each height whose commits are kept), registry (one entry per   *)
(* connected block: the block, its observations, whether the window they    *)
(* come from held a block of another branch), undo (reversible_blocks) and  *)
(* rebuilt (the height at which the window was last read anew).             *)

NoWindow == [h \in {} |-> None]
NewIndex(g) == [genesis_hash |-> g, blocks |-> <<>>, window |-> NoWindow,
                registry |-> <<>>, undo |-> 0, rebuilt |-> GenesisHeight]

Height(x) == GenesisHeight + Len(x.registry)
BlockAt(x, h) == x.registry[h - GenesisHeight].block
Tail1(s) == SubSeq(s, 1, Len(s) - 1)
LastOf(x) == IF x.blocks = <<>> THEN x.genesis_hash ELSE x.blocks[Len(x.blocks)]
Larger(a, b) == IF a > b THEN a ELSE b

(* Locator::locate: the lowest height that holds the transaction. *)
Located(window, c) == {h \in DOMAIN window : c \in DOMAIN CommitsIn[window[h]]}
Locate(window, c) == CHOOSE h \in Located(window, c) : \A k \in Located(window, c) : h <= k

(* observations, without those Registry::admit turns down for their age. *)
Observations(window, b, h) ==
    {[txid |-> c, height |-> Locate(window, c), position |-> CommitsIn[window[Locate(window, c)]][c]] :
        c \in {c \in RevealsIn[b] : /\ Located(window, c) # {}
                                    /\ h - Locate(window, c) \in 1..RevealMax}}

(* The window holds a block that the index has not connected there. *)
Mixed(window, x) == \E h \in DOMAIN window : h <= Height(x) /\ window[h] # BlockAt(x, h)

(* Fault: the oldest block of the window is dropped too early. *)
RetainTooFew(window, next) ==
    [h \in {k \in DOMAIN window : k + RevealMax > next} |-> window[h]]

(* The window that NamesIndex::trim and Locator::trim keep before `next'. *)
Retain(window, next) ==
    [h \in {k \in DOMAIN window : k + RevealMax >= next} |-> window[h]]

(* Fault: the checkpoints are trimmed, the undo frames are not. *)
TrimCheckpointsOnly(x) ==
    LET keep == Larger(RevealMax, Reversible)
    IN  IF Len(x.blocks) < keep THEN x
        ELSE [x EXCEPT !.blocks = SubSeq(@, Len(@) - keep + 1, Len(@)),
                       !.window = Retain(@, Height(x) + 1)]

(* NamesIndex::trim *)
Trim(x) ==
    LET keep == Larger(RevealMax, Reversible)
    IN  IF Len(x.blocks) < keep THEN x
        ELSE [x EXCEPT !.blocks = SubSeq(@, Len(@) - keep + 1, Len(@)),
                       !.undo   = IF @ >= keep THEN keep ELSE @,
                       !.window = Retain(@, Height(x) + 1)]

(* Registry::connect, window and checkpoint push, trim: the end of scan_block. *)
Connected(x, e) ==
    LET h == Height(x) + 1
    IN  Trim([x EXCEPT !.registry = Append(@, e),
                       !.undo     = @ + 1,
                       !.window   = [k \in DOMAIN @ \cup {h} |-> IF k = h THEN e.block ELSE @[k]],
                       !.blocks   = Append(@, e.block)])

(* Registry::disconnect and the removal of the checkpoint. *)
Disconnected(x) ==
    [x EXCEPT !.blocks = Tail1(@), !.registry = Tail1(@), !.undo = @ - 1]

-----------------------------------------------------------------------------
(* sync.  A call of the source is one step: the chain may change in between. *)

Off == pc' = "off" /\ index' = None /\ locator' = NoWindow /\ block' = None
           /\ tip' = 0 /\ removed' = 0 /\ scanned' = 0

(* What NamesIndex::load asks of a file.  The heights of the checkpoints are  *)
(* implicit here: the last one is at the height of the registry.              *)
Load(x) ==
    /\ x.blocks = <<>> => Height(x) = GenesisHeight
    /\ \A h \in DOMAIN x.window : h <= Height(x)

(* verify_genesis: the block of that height holds the genesis record. *)
VerifyGenesis == GenesisHeight \in DOMAIN chain /\ chain[GenesisHeight] \in GenesisBlocks

Start ==
    /\ pc = "off"
    /\ \/ disk # None /\ Load(disk) /\ index' = disk
       \/ disk = None /\ VerifyGenesis /\ index' = NewIndex(chain[GenesisHeight])
    /\ pc' = "anchor"
    /\ UNCHANGED <<chain, disk, locator, tip, removed, scanned, block>>

(* anchor: the genesis block is on the current chain, or the call ends. *)
Anchor ==
    /\ pc = "anchor"
    /\ UNCHANGED <<chain, disk>>
    /\ IF GenesisHeight \in DOMAIN chain /\ chain[GenesisHeight] = index.genesis_hash
       THEN pc' = "tip" /\ UNCHANGED <<index, locator, tip, removed, scanned, block>>
       ELSE Off

TipHeight ==
    /\ pc = "tip"
    /\ tip' = Len(chain)
    /\ pc' = "rollback"
    /\ UNCHANGED <<chain, disk, index, locator, removed, scanned, block>>

(* The end of rollback, and the start of rebuild_window when it is needed. *)
RolledBack ==
    /\ pc' = IF removed > 0 THEN "rebuild" ELSE "persist"
    /\ index' = IF removed > 0
                THEN [index EXCEPT !.window = NoWindow, !.rebuilt = Height(index)] ELSE index
    /\ UNCHANGED <<locator, tip, removed, scanned, block>>

(* One iteration of the loop of rollback. *)
Rollback ==
    /\ pc = "rollback"
    /\ UNCHANGED <<chain, disk>>
    /\ \/ /\ index.blocks = <<>>
          /\ IF Height(index) = GenesisHeight THEN RolledBack ELSE Off
       \/ /\ index.blocks # <<>>
          /\ Height(index) <= tip
          /\ Height(index) \in DOMAIN chain
          /\ chain[Height(index)] = LastOf(index)
          /\ RolledBack
       \/ /\ index.blocks # <<>>
          /\ \/ Height(index) > tip
             \/ Height(index) \in DOMAIN chain /\ chain[Height(index)] # LastOf(index)
          /\ IF index.undo > 0
             THEN /\ index' = Disconnected(index)
                  /\ removed' = removed + 1
                  /\ UNCHANGED <<locator, pc, tip, scanned, block>>
             ELSE Off
       \/ /\ index.blocks # <<>>
          /\ Height(index) <= tip
          /\ Height(index) \notin DOMAIN chain
          /\ Off

(* One iteration of the loop of rebuild_window. *)
Floor == IF Height(index) > GenesisHeight + RevealMax THEN Height(index) - RevealMax ELSE GenesisHeight

(* Fault: the loop does not move to the next height. *)
RebuiltStuck == Floor

(* The last height whose block is in the window again. *)
Rebuilt == Floor + Cardinality(DOMAIN index.window)

RebuildWindow ==
    /\ pc = "rebuild"
    /\ UNCHANGED <<chain, disk>>
    /\ \/ /\ Rebuilt < Height(index)
          /\ Rebuilt + 1 \in DOMAIN chain
          /\ index' = [index EXCEPT !.window =
               [h \in Floor + 1 .. Rebuilt + 1 |-> IF h = Rebuilt + 1 THEN chain[h] ELSE @[h]]]
          /\ UNCHANGED <<locator, pc, tip, removed, scanned, block>>
       \/ /\ Rebuilt < Height(index)
          /\ Rebuilt + 1 \notin DOMAIN chain
          /\ Off
       \/ /\ Rebuilt >= Height(index)
          /\ pc' = "persist"
          /\ UNCHANGED <<index, locator, tip, removed, scanned, block>>

(* The first persist, and Locator::from_index. *)
Persist ==
    /\ pc = "persist"
    /\ disk' = index
    /\ locator' = index.window
    /\ pc' = "scan"
    /\ UNCHANGED <<chain, index, tip, removed, scanned, block>>

(* The loop of sync goes on. *)
More == scanned < MaxBlocks /\ Height(index) + 1 <= tip

(* Fault: the parent of the block is not looked at. *)
FollowsAnything(b) == TRUE

(* The block fetched for the next height is a child of the last checkpoint, *)
(* or of the genesis block.                                                 *)
Follows(b) == \E c \in Chains : /\ Height(index) + 1 \in DOMAIN c
                                /\ c[Height(index) + 1] = b
                                /\ c[Height(index)] = LastOf(index)

(* scan_block up to the observations. *)
ScanBlock ==
    /\ pc = "scan" /\ More
    /\ UNCHANGED <<chain, disk>>
    /\ LET h == Height(index) + 1
       IN  IF h \in DOMAIN chain /\ Follows(chain[h])
           THEN /\ block' = chain[h]
                /\ locator' = [k \in DOMAIN locator \cup {h} |-> IF k = h THEN chain[h] ELSE locator[k]]
                /\ pc' = "connect"
                /\ UNCHANGED <<index, tip, removed, scanned>>
           ELSE Off

(* scan_block from its second look at the block's hash. *)
ConnectBlock ==
    /\ pc = "connect"
    /\ UNCHANGED <<chain, disk>>
    /\ LET h == Height(index) + 1
       IN  IF h \in DOMAIN chain /\ chain[h] = block
           THEN /\ index' = Connected(index, [block |-> block, mixed |-> Mixed(locator, index),
                                              obs   |-> Observations(locator, block, h)])
                /\ locator' = Retain(locator, h + 1)
                /\ pc' = "save"
                /\ UNCHANGED <<tip, removed, scanned, block>>
           ELSE Off

Save ==
    /\ pc = "save"
    /\ disk' = index
    /\ scanned' = scanned + 1
    /\ pc' = "scan"
    /\ UNCHANGED <<chain, index, locator, tip, removed, block>>

(* The loop ends and sync reports. *)
Report ==
    /\ pc = "scan" /\ ~More
    /\ Off
    /\ UNCHANGED <<chain, disk>>

(* A crash, or a call of the source that fails: nothing but the file survives. *)
Stop ==
    /\ pc # "off"
    /\ Off
    /\ UNCHANGED <<chain, disk>>

(* The source moves to another chain. *)
Reorg ==
    /\ chain' \in Chains \ {chain}
    /\ UNCHANGED <<disk, index, locator, pc, tip, removed, scanned, block>>

Init ==
    /\ chain \in Chains
    /\ disk = None
    /\ index = None
    /\ locator = NoWindow
    /\ pc = "off"
    /\ tip = 0 /\ removed = 0 /\ scanned = 0
    /\ block = None

SyncStep ==
    \/ Anchor \/ TipHeight \/ Rollback \/ RebuildWindow \/ Persist
    \/ ScanBlock \/ ConnectBlock \/ Save \/ Report

Next == Start \/ SyncStep \/ Stop \/ Reorg

Spec == Init /\ [][Next]_vars

(* A call of sync runs until it returns. *)
FairSpec == Spec /\ WF_vars(SyncStep)

-----------------------------------------------------------------------------
(* Correctness. *)

(* The blocks an index connected, from its genesis block on. *)
Path(x) == <<x.genesis_hash>> \o [i \in 1..Len(x.registry) |-> x.registry[i].block]

(* Whatever the source switches to between its answers, the blocks of a     *)
(* persisted index are one chain: the connected blocks follow each other    *)
(* from the genesis block, and the checkpoints are the newest of them.      *)
OneChain ==
    disk # None =>
        /\ \E c \in Chains : /\ Len(c) >= Height(disk)
                            /\ Path(disk) = SubSeq(c, GenesisHeight, Height(disk))
        /\ disk.blocks = SubSeq(Path(disk), Len(Path(disk)) - Len(disk.blocks) + 1, Len(Path(disk)))

(* NamesIndex::load accepts every index that sync persists, and rollback    *)
(* can undo exactly the blocks it has checkpoints of: no crash, refused     *)
(* reorganization or trim leaves a file behind that the next call rejects.  *)
LoadAccepts ==
    disk # None =>
        /\ Load(disk)
        /\ disk.undo = Len(disk.blocks)

(* What the two say of a persisted index: it is one chain, and it loads. *)
PersistedSound == OneChain /\ LoadAccepts

(* What a scan of the connected blocks alone observes in the i-th of them. *)
Fresh(x, i) ==
    LET h == GenesisHeight + i
        low == Larger(GenesisHeight + 1, h - RevealMax)
    IN  Observations([k \in low .. h |-> BlockAt(x, k)], BlockAt(x, h), h)

Differs(x, i) == x.registry[i].obs # Fresh(x, i)

(* An incremental scan and a fresh scan of the same blocks feed the         *)
(* registry the same observations.  This is what tests/scan.rs:451 asserts; *)
(* it fails when the source is on another branch while rebuild_window reads *)
(* and comes back, since a window block is never compared with a checkpoint.*)
FreshScanAgrees == disk # None => \A i \in DOMAIN disk.registry : ~Differs(disk, i)

(* What does hold, whatever the source switches to between two answers:     *)
(* only a window that rebuild_window mixed makes a scan differ from a fresh *)
(* one, and no longer than the checkpoints that are kept reach beyond it;   *)
(* no reorganization elsewhere, crash, trim or reuse of the window by a     *)
(* later call adds or loses a reveal.                                       *)
OnlyMixedDiffers ==
    disk # None => \A i \in DOMAIN disk.registry :
        Differs(disk, i) => /\ disk.registry[i].mixed
                            /\ GenesisHeight + i <= disk.rebuilt + Larger(RevealMax, Reversible)

(* Every call of sync comes to an end, however often the source changes     *)
(* chain under its loops.                                                   *)
SyncEnds == (pc # "off") ~> (pc = "off")
=============================================================================
