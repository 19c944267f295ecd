--------------------------- MODULE PrivateArchive ---------------------------
(***************************************************************************)
(* The private archive: sealed records published through a transparent     *)
(* commit and its reveals, and recovered by scanning blocks with the key.  *)
(*                                                                         *)
(* `prepare` signs one plan into a journal: a commit that spends one       *)
(* funding coin and one reveal per sealed record.  Four commands push a    *)
(* journal forward and may be stopped and repeated at any point: a local   *)
(* Bitcoin node, an explorer relay, regtest publication that mines its own *)
(* blocks, and a Litecoin node.  `recover` notes the tip, walks the blocks *)
(* up to it and sorts their records into objects.  Offline, the records    *)
(* travel in a container or a directory.  The chain reorganizes, loses     *)
(* transactions and may see the funding coin spent by another transaction  *)
(* between any two calls of a command.                                     *)
(*                                                                         *)
(* A block hash commits to all its ancestors: the hash at height h is the  *)
(* chain up to h.                                                          *)
(***************************************************************************)
EXTENDS Integers, Sequences, FiniteSets, SequencesExt

CONSTANTS
    Reveals,     \* the plan's reveal transactions, in chunk order
    RecordOf,    \* the record a reveal transaction carries
    Stories,     \* network, commands, records of others and bounds to play
    Fanfold,     \* order in which a block's transactions are read
    MaxObjects   \* objects one recovery may hold (64 in the code)

VARIABLES
    story,
    chain,    \* the active chain: blocks with their transactions
    stale,    \* the chain the last reorganization left
    mempool,
    moves,    \* reorganizations so far
    faults,   \* interruptions, evictions and rival spends so far
    journal,  \* the plan on disk
    cmd,      \* the running command
    dir,      \* the record directory
    anchored, \* history: the commit has been on the active chain
    exported  \* identifiers of the objects some recovery wrote out

world == <<chain, stale, mempool, moves, anchored>>
vars == <<story, chain, stale, mempool, moves, faults, journal, cmd, dir,
          anchored, exported>>

Funding == "funding"
Commit == "commit"
Rival == "rival"
Revealed == ToSet(Reveals)
Plan == <<Commit>> \o Reveals
Planned == ToSet(Plan)

(***************************************************************************)
(* The node: blocks, mempool and what they accept.                         *)
(***************************************************************************)
Mined(c) == UNION {c[h].txs : h \in DOMAIN c}
Hash(h) == SubSeq(chain, 1, h)
Confirmed(t) == t \in Mined(chain)
HeightOf(t) == CHOOSE h \in DOMAIN chain : t \in chain[h].txs
Known(t) == t \in Mined(chain) \cup mempool

\* Inputs exist and the funding coin is spent once.
Consistent(txs) ==
    /\ txs \cap {Commit, Rival} # {} => Funding \in txs
    /\ ~({Commit, Rival} \subseteq txs)
    /\ txs \cap Revealed # {} => Commit \in txs

\* The plan's transactions are its own, those of others are not; a story
\* begins on a chain a node could have accepted.
ASSUME ArchiveAssumption ==
    /\ Reveals \in Seq(Revealed)
    /\ Revealed \cap {Funding, Commit, Rival} = {}
    /\ \A s \in Stories :
          /\ s.chain \in Seq(ToSet(s.chain))
          /\ Consistent(Mined(s.chain))
          /\ s.foreign \cap Planned = {}

Acceptable(t) == Consistent(Mined(chain) \cup mempool \cup {t})
Conflicted(t) == t \in Planned /\ Confirmed(Rival)

(***************************************************************************)
(* Sealed records.  A record opens under the key, fails authentication, or *)
(* belongs to someone else.                                                *)
(***************************************************************************)
\* seal: one record per chunk of the original, in order.
Sealed == [i \in DOMAIN Reveals |-> RecordOf[Reveals[i]]]

\* validate_preparation: one object, complete and in order.
Preparable(records) ==
    \A i \in DOMAIN records :
       /\ records[i].id = records[1].id
       /\ records[i].index = i
       /\ records[i].count = Len(records)

\* validate_reveals: the journal's reveals carry each chunk of one object once.
ValidReveals ==
    /\ {RecordOf[t].index : t \in Revealed} = 1..Len(Reveals)
    /\ \A t \in Revealed :
          RecordOf[t].id = RecordOf[Head(Reveals)].id /\ RecordOf[t].count = Len(Reveals)

\* open_record: yes, rejected or unrelated.
Opened(record) == record.opens
Meta(record) == [id |-> record.id, count |-> record.count, digest |-> record.digest]

\* PrivateObject::new
NewObject(record) ==
    [meta |-> Meta(record), chunks |-> {record}, conflict |-> FALSE]

\* PrivateObject::insert: other metadata, or another record at a taken
\* position, marks the object for good.
Insert(object, record) ==
    IF \/ Meta(record) # object.meta
       \/ \E c \in object.chunks : c.index = record.index /\ c # record
    THEN [object EXCEPT !.conflict = TRUE]
    ELSE [object EXCEPT !.chunks = @ \cup {record}]

\* accept_record: what a recovery holds after one more record.
Accept(objects, record) ==
    IF Opened(record) # "yes" THEN objects
    ELSE LET same == {o \in objects : o.meta.id = record.id}
         IN  IF same = {} THEN objects \cup {NewObject(record)}
             ELSE {IF o \in same THEN Insert(o, record) ELSE o : o \in objects}

Bytes(object) ==
    [i \in 1..object.meta.count |-> (CHOOSE c \in object.chunks : c.index = i).bytes]

\* finish: no conflict, every chunk, and the digest of the whole.
Finishes(object) ==
    /\ ~object.conflict
    /\ Cardinality(object.chunks) = object.meta.count
    /\ Bytes(object) = object.meta.digest

File(object) == [id |-> object.meta.id, bytes |-> Bytes(object)]

\* export: every object that is whole, next to those that are not.
Export(objects) == {File(o) : o \in {x \in objects : Finishes(x)}}

\* open: every record must open and belong to the first one's object.
OpensAll(records) ==
    LET objects == FoldLeft(Accept, {}, records)
    IN  /\ \A i \in DOMAIN records : Opened(records[i]) = "yes"
        /\ \A o \in objects : Finishes(o)
        /\ Cardinality(objects) = 1

\* recover_container: unrelated and rejected records are skipped, a conflict
\* or a second object is an error.
RecoversContainer(records) ==
    LET objects == FoldLeft(Accept, {}, records)
    IN  Cardinality(objects) = 1 /\ \A o \in objects : Finishes(o)

\* unpack: the container holds records of one object.
Unpacks(records) ==
    records # <<>> /\ \A i \in DOMAIN records : records[i].id = records[1].id

\* Records a block carries, in the order a scan reads them.
Carried(block) ==
    LET order == SelectSeq(Fanfold, LAMBDA t : t \in block.txs)
    IN  [i \in DOMAIN order |-> RecordOf[order[i]]]

(***************************************************************************)
(* Commands.                                                               *)
(***************************************************************************)
Idle == [is |-> "idle", at |-> "idle", todo |-> <<>>, seen |-> <<>>, tip |-> <<>>,
         last |-> <<>>, start |-> 0, next |-> 0, objects |-> {}, files |-> {},
         mining |-> FALSE, moves |-> 0]

Fault == faults < story.faults /\ faults' = faults + 1
Goes(c) == cmd' = c /\ UNCHANGED <<story, faults, journal, dir, exported>>
At(where) == [cmd EXCEPT !.at = where]
Ends == Goes(Idle)
Quiet == UNCHANGED world

Running(ways, where) == cmd.is \in ways /\ cmd.at = where
Now == Head(cmd.todo)
OnBitcoin == story.net = "bitcoin"

\* The coin comes from the wallet, from an explorer, pending ones included on
\* request, or from a file that is taken as given.
Fundable == Known(Funding)

\* prepare: a signed plan in a journal that is never overwritten.  A Litecoin
\* journal is a draft until the wallet signs it.
Prepare ==
    /\ cmd = Idle /\ journal.is = "none"
    /\ story.net # "offline"
    /\ Fundable /\ Preparable(Sealed)
    /\ journal' = [is |-> IF OnBitcoin THEN "signed" ELSE "draft", start |-> Len(chain)]
    /\ Quiet /\ UNCHANGED <<story, faults, cmd, dir, exported>>

Sign ==
    /\ cmd = Idle /\ journal.is = "draft"
    /\ journal' = [journal EXCEPT !.is = "signed"]
    /\ Quiet /\ UNCHANGED <<story, faults, cmd, dir, exported>>

\* A publishing command on a signed journal of its network.
Begin(way) ==
    /\ cmd = Idle /\ journal.is = "signed" /\ ValidReveals
    /\ Goes([Idle EXCEPT !.is = way, !.todo = <<Commit>>,
                         !.at = CASE way \in {"core", "litecoin"} -> "look"
                                  [] way = "regtest" -> "submit"
                                  [] OTHER -> "tip"])
    /\ Quiet

(***************************************************************************)
(* broadcast_plan and publish_plan against a local Bitcoin node.           *)
(***************************************************************************)
\* Unless the commit is confirmed already, its coin is checked first.
CoreLook ==
    /\ Running({"core"}, "look")
    /\ Goes(At(IF Confirmed(Commit) THEN "submit" ELSE "funding"))
    /\ Quiet

\* gettxout without the mempool: a commit that is pending does not hide it.
CoreFunding ==
    /\ Running({"core"}, "funding")
    /\ IF Confirmed(Funding) /\ ~Confirmed(Commit) /\ ~Confirmed(Rival)
       THEN Goes(At("submit")) ELSE Ends
    /\ Quiet

\* Where a command goes once a transaction is with the node.
After ==
    IF Now = Commit THEN [cmd EXCEPT !.at = "gate", !.todo = <<>>]
    ELSE [cmd EXCEPT !.at = IF cmd.is = "relay" THEN "unspent" ELSE "submit",
                     !.todo = Tail(@)]

\* Node::submit, first half: what the node has is not sent again.
Submit ==
    /\ Running({"core", "regtest"}, "submit") /\ cmd.todo # <<>>
    /\ \/ Conflicted(Now) /\ Ends
       \/ ~Conflicted(Now) /\ Known(Now)
          /\ Goes([After EXCEPT !.mining = @ \/ (Now # Commit /\ ~Confirmed(Now))])
       \/ ~Conflicted(Now) /\ ~Known(Now) /\ Goes(At("send"))
    /\ Quiet

\* testmempoolaccept and sendrawtransaction, or the relay's POST.
Send ==
    /\ cmd.at = "send"
    /\ \/ /\ Acceptable(Now)
          /\ mempool' = IF Known(Now) THEN mempool ELSE mempool \cup {Now}
          /\ Goes([After EXCEPT !.mining = @ \/ Now # Commit])
       \/ ~Acceptable(Now) /\ Ends /\ UNCHANGED mempool
    /\ UNCHANGED <<chain, stale, moves, anchored>>

\* broadcast_plan: reveals only once the commit is confirmed.
CoreGate ==
    /\ Running({"core"}, "gate")
    /\ IF Confirmed(Commit) THEN Goes([cmd EXCEPT !.at = "submit", !.todo = Reveals])
       ELSE Ends
    /\ Quiet

CoreEnds == Running({"core"}, "submit") /\ cmd.todo = <<>> /\ Ends /\ Quiet

\* generatetoaddress: one block with the whole mempool.
Extend(txs) ==
    /\ chain' = Append(chain, [salt |-> moves, txs |-> txs])
    /\ mempool' = mempool \ txs
    /\ anchored' = (anchored \/ Commit \in txs)
    /\ UNCHANGED <<stale, moves>>

\* publish_plan mines when the commit, and later some reveal, is unconfirmed.
RegtestGate ==
    /\ Running({"regtest"}, "gate")
    /\ Goes(At("ensure"))
    /\ IF Confirmed(Commit) THEN Quiet ELSE Extend(mempool)

\* `--stop-after-chunks` leaves the last reveals for another invocation.
RegtestEnsure ==
    /\ Running({"regtest"}, "ensure")
    /\ \/ ~Confirmed(Commit) /\ cmd' = Idle /\ UNCHANGED faults
       \/ /\ Confirmed(Commit)
          /\ cmd' = [cmd EXCEPT !.at = "submit", !.todo = Reveals]
          /\ UNCHANGED faults
       \/ /\ Confirmed(Commit) /\ Fault
          /\ cmd' = [cmd EXCEPT !.at = "submit", !.todo = Front(Reveals)]
    /\ Quiet /\ UNCHANGED <<story, journal, dir, exported>>

RegtestMine ==
    /\ Running({"regtest"}, "submit") /\ cmd.todo = <<>>
    /\ Ends
    /\ IF cmd.mining THEN Extend(mempool) ELSE Quiet

(***************************************************************************)
(* The explorer relay: status_plan, next_step and one POST per missing     *)
(* transaction.                                                            *)
(***************************************************************************)
NoteTip ==
    /\ Running({"relay", "status"}, "tip")
    /\ Goes([cmd EXCEPT !.at = "observe", !.tip = chain, !.todo = Plan, !.moves = moves])
    /\ Quiet

\* observe_transaction: a confirmation above the noted tip is an error.
State(t) == CASE Confirmed(t) -> "confirmed" [] t \in mempool -> "pending"
              [] OTHER -> "unknown"

Observe ==
    /\ Running({"relay", "status"}, "observe") /\ cmd.todo # <<>>
    /\ IF Confirmed(Now) /\ HeightOf(Now) > Len(cmd.tip) THEN Ends
       ELSE Goes([cmd EXCEPT !.todo = Tail(@),
                     !.seen = [t \in DOMAIN @ \cup {Now} |->
                                  IF t = Now THEN State(Now) ELSE @[t]]])
    /\ Quiet

\* Mutant: the tip is not read again.
RecheckNothing ==
    /\ Running({"relay", "status"}, "observe") /\ cmd.todo = <<>>
    /\ Goes([cmd EXCEPT !.at = "judge", !.moves = moves - @])
    /\ Quiet

\* The noted tip must still be active.
Recheck ==
    /\ Running({"relay", "status"}, "observe") /\ cmd.todo = <<>>
    /\ IF Hash(Len(cmd.tip)) = cmd.tip
       THEN Goes([cmd EXCEPT !.at = "judge", !.moves = moves - @])
       ELSE Ends
    /\ Quiet

\* status_plan: one word for the whole plan.
Word(seen) ==
    LET reveals == {seen[t] : t \in Revealed}
    IN  CASE seen[Commit] = "unknown" ->
                IF reveals = {"unknown"} THEN "prepared" ELSE "inconsistent"
          [] seen[Commit] = "pending" ->
                IF "confirmed" \notin reveals THEN "commit_pending" ELSE "inconsistent"
          [] OTHER -> CASE reveals = {"confirmed"} -> "confirmed"
                        [] "unknown" \in reveals -> "awaiting_reveals"
                        [] OTHER -> "confirming"

\* Mutant: a plan with some reveal known is left alone.
MissingNone(seen) ==
    IF \A t \in Revealed : seen[t] = "unknown" THEN Reveals ELSE <<>>

\* missing_reveals
Missing(seen) == SelectSeq(Reveals, LAMBDA t : seen[t] = "unknown")

\* next_step.  The status command reports the word and ends.
Judge ==
    LET word == Word(cmd.seen)
        reveal == \/ word = "awaiting_reveals"
                  \/ word = "commit_pending" /\ story.allow
    IN  /\ cmd.at = "judge"
        /\ CASE cmd.is = "relay" /\ word = "prepared" ->
                   Goes([cmd EXCEPT !.at = "funding", !.todo = <<Commit>>, !.seen = <<>>])
             [] cmd.is = "relay" /\ reveal ->
                   Goes([cmd EXCEPT !.at = "unspent", !.todo = Missing(cmd.seen), !.seen = <<>>])
             [] OTHER -> Ends
        /\ Quiet

\* confirmed_funding: an outspend counts pending spends too.
RelayFunding ==
    /\ Running({"relay"}, "funding")
    /\ IF Confirmed(Funding) /\ ~Known(Commit) /\ ~Known(Rival)
       THEN Goes(At("send")) ELSE Ends
    /\ Quiet

\* require_unspent before each reveal.
RelayUnspent ==
    /\ Running({"relay"}, "unspent")
    /\ IF cmd.todo # <<>> /\ Known(Commit) /\ ~Known(Now) THEN Goes(At("send")) ELSE Ends
    /\ Quiet

RelayEnds == Running({"relay"}, "gate") /\ Ends /\ Quiet

(***************************************************************************)
(* Litecoin: one kind of transaction per invocation.                       *)
(***************************************************************************)
LitecoinLook ==
    /\ Running({"litecoin"}, "look")
    /\ CASE ~Known(Commit) -> Goes(At("funding"))
         [] Commit \in mempool -> Ends
         [] OTHER -> Goes([cmd EXCEPT !.at = "submit", !.todo = Reveals])
    /\ Quiet

\* gettxout with the mempool.
LitecoinFunding ==
    /\ Running({"litecoin"}, "funding")
    /\ IF Confirmed(Funding) /\ ~Known(Commit) /\ ~Known(Rival)
       THEN Goes(At("send")) ELSE Ends
    /\ Quiet

LitecoinSubmit ==
    /\ Running({"litecoin"}, "submit")
    /\ CASE cmd.todo = <<>> -> Ends
         [] cmd.todo # <<>> /\ Known(Now) -> Goes([cmd EXCEPT !.todo = Tail(@)])
         [] OTHER -> Goes(At("send"))
    /\ Quiet

LitecoinEnds == Running({"litecoin"}, "gate") /\ Ends /\ Quiet

(***************************************************************************)
(* recover: the scan of a Bitcoin node, an explorer or a Litecoin node.    *)
(***************************************************************************)
\* From the height the journal records, or from the first block.
StartRecover ==
    /\ cmd = Idle /\ story.scans /\ journal.is # "none"
    /\ \E start \in {1, journal.start} :
          /\ start \in 1..Len(chain)
          /\ Goes([Idle EXCEPT !.is = "recover", !.at = "hash", !.start = start, !.next = start,
                               !.moves = Len(chain)])
    /\ Quiet

\* The tip height was read; its hash and the hash below the start follow.
ScanHash ==
    /\ Running({"recover"}, "hash")
    /\ Goes([cmd EXCEPT !.at = "previous", !.tip = Hash(cmd.moves), !.moves = 0])
    /\ Quiet

ScanPrevious ==
    /\ Running({"recover"}, "previous")
    /\ Goes([cmd EXCEPT !.at = "block", !.last = Hash(cmd.next - 1)])
    /\ Quiet

\* Mutant: a block need not extend the one before it.
LinksAny(hash) == TRUE

\* prev_blockhash is the hash of the block read before.
Links(hash) == Front(hash) = cmd.last

\* One block: linked to the last one, its records accepted in order.  Too many
\* objects end the recovery.
ScanBlock ==
    LET hash == Hash(cmd.next)
        objects == FoldLeft(Accept, cmd.objects, Carried(chain[cmd.next]))
    IN  /\ Running({"recover"}, "block") /\ cmd.next <= Len(cmd.tip)
        /\ IF Links(hash) /\ Cardinality(objects) <= MaxObjects
           THEN Goes([cmd EXCEPT !.next = @ + 1, !.last = hash, !.objects = objects])
           ELSE Ends
        /\ Quiet

\* The walk must end on the noted tip, and the tip must still be active.
ScanEnd ==
    /\ Running({"recover"}, "block") /\ cmd.next > Len(cmd.tip)
    /\ IF cmd.last = cmd.tip /\ Hash(Len(cmd.tip)) = cmd.tip
       THEN Goes([cmd EXCEPT !.at = "export", !.files = Export(cmd.objects)])
       ELSE Ends
    /\ Quiet

\* export: the files are in the new directory.
Exporting ==
    /\ cmd.at = "export"
    /\ cmd' = Idle
    /\ exported' = exported \cup {f.id : f \in cmd.files}
    /\ Quiet /\ UNCHANGED <<story, faults, journal, dir>>

(***************************************************************************)
(* Offline: containers and record directories.                             *)
(***************************************************************************)
Offline == cmd = Idle /\ story.net = "offline"
Reading(way, files) ==
    [Idle EXCEPT !.is = way, !.at = "export", !.files = files]

Whole(records) == Export(FoldLeft(Accept, {}, records))

\* seal, pack and open
OpenContainer ==
    /\ Offline /\ Unpacks(story.bundle) /\ OpensAll(story.bundle)
    /\ Goes(Reading("open", Whole(story.bundle)))
    /\ Quiet

RecoverContainer ==
    /\ Offline /\ RecoversContainer(story.bundle)
    /\ Goes(Reading("container", Whole(story.bundle)))
    /\ Quiet

\* store_directory refuses a directory that exists and writes a record at a
\* time.
StartStore ==
    /\ Offline /\ Unpacks(story.bundle) /\ ~dir.made
    /\ dir' = [made |-> TRUE, records |-> {}]
    /\ cmd' = [Idle EXCEPT !.is = "store", !.at = "write", !.next = 1]
    /\ Quiet /\ UNCHANGED <<story, faults, journal, exported>>

StoreRecord ==
    /\ Running({"store"}, "write")
    /\ IF cmd.next <= Len(story.bundle)
       THEN /\ dir' = [dir EXCEPT !.records = @ \cup {story.bundle[cmd.next]}]
            /\ cmd' = [cmd EXCEPT !.next = @ + 1]
       ELSE cmd' = Idle /\ UNCHANGED dir
    /\ Quiet /\ UNCHANGED <<story, faults, journal, exported>>

\* DirectorySource: every file, by name.  Any order gives the same objects.
RecoverLocal ==
    /\ Offline /\ dir.made
    /\ Goes(Reading("local", Whole(SetToSeq(dir.records))))
    /\ Quiet

(***************************************************************************)
(* The environment.                                                        *)
(***************************************************************************)
\* A call times out, an answer is lost or the command is stopped.
Interrupt ==
    /\ cmd # Idle /\ Fault
    /\ cmd' = Idle
    /\ Quiet /\ UNCHANGED <<story, journal, dir, exported>>

Frozen == UNCHANGED <<story, journal, cmd, dir, exported>>

Mine ==
    /\ \E others \in SUBSET (story.foreign \ Mined(chain)) :
          /\ mempool \cup others # {}
          /\ Extend(mempool \cup others)
    /\ Frozen /\ UNCHANGED faults

\* What stays in the mempool beside the blocks of c.
Pool(c) ==
    ((mempool \cup Mined(chain)) \ Mined(c))
        \ (IF Rival \in Mined(c) THEN Planned ELSE IF Commit \in Mined(c) THEN {Rival} ELSE {})

Switch(c) ==
    /\ moves < story.reorgs
    /\ chain' = c
    /\ mempool' = Pool(c)
    /\ moves' = moves + 1
    /\ stale' = IF moves' = story.reorgs THEN <<>> ELSE chain
    /\ anchored' = (anchored \/ Commit \in Mined(c))
    /\ Frozen /\ UNCHANGED faults

Empty(n) == [i \in 1..n |-> [salt |-> moves + 1, txs |-> {}]]

\* A longer branch replaces the last blocks.
Reorganize ==
    \E depth \in 1..story.depth :
       /\ depth <= Len(chain)
       /\ LET base == SubSeq(chain, 1, Len(chain) - depth)
          IN  \E txs \in SUBSET (mempool \cup (Mined(chain) \ Mined(base))) :
                 /\ Consistent(Mined(base) \cup txs)
                 /\ Switch(base \o <<[salt |-> moves + 1, txs |-> txs]>> \o Empty(depth))

\* The abandoned branch grows past the active one.
Return ==
    /\ stale # <<>>
    /\ Switch(stale \o Empty(Len(chain) + 1 - Len(stale)))

\* A node forgets a pending transaction and what spends it.
Evict ==
    /\ Fault
    /\ \E t \in mempool \cap Planned :
          mempool' = mempool \ (IF t = Commit THEN Planned ELSE {t})
    /\ Frozen /\ UNCHANGED <<chain, stale, moves, anchored>>

\* The owner spends the funding coin elsewhere; the commit may be replaced.
Spend ==
    /\ Fault
    /\ Known(Funding) /\ ~Known(Rival) /\ ~Confirmed(Commit)
    /\ mempool' = (mempool \ Planned) \cup {Rival}
    /\ Frozen /\ UNCHANGED <<chain, stale, moves, anchored>>

(***************************************************************************)
(* Specification.                                                          *)
(***************************************************************************)
Init ==
    /\ story \in Stories
    /\ chain = story.chain /\ mempool = {Funding} \ Mined(story.chain)
    /\ stale = <<>> /\ moves = 0 /\ faults = 0
    /\ journal = [is |-> IF story.start = 0 THEN "none" ELSE "signed", start |-> story.start]
    /\ cmd = Idle
    /\ dir = [made |-> FALSE, records |-> {}]
    /\ anchored = (Commit \in Mined(story.chain)) /\ exported = {}

BeginPublishing == \E way \in story.ways \ {"status"} : Begin(way)
StartStatus == "status" \in story.ways /\ Begin("status")

Step ==
    \/ CoreLook \/ CoreFunding \/ Submit \/ Send \/ CoreGate \/ CoreEnds
    \/ RegtestGate \/ RegtestEnsure \/ RegtestMine
    \/ NoteTip \/ Observe \/ Recheck \/ Judge \/ RelayFunding \/ RelayUnspent \/ RelayEnds
    \/ LitecoinLook \/ LitecoinFunding \/ LitecoinSubmit \/ LitecoinEnds
    \/ ScanHash \/ ScanPrevious \/ ScanBlock \/ ScanEnd \/ Exporting \/ StoreRecord

Begins ==
    \/ BeginPublishing \/ StartStatus \/ StartRecover
    \/ OpenContainer \/ RecoverContainer \/ StartStore \/ RecoverLocal

Next ==
    \/ Prepare \/ Sign \/ Begins \/ Step
    \/ Interrupt \/ Mine \/ Reorganize \/ Return \/ Evict \/ Spend

\* Commands run on, miners mine, and the operator repeats broadcast and
\* recovery as the reports tell them to.
Fairness ==
    /\ WF_vars(Step) /\ WF_vars(Mine)
    /\ SF_vars(Prepare) /\ SF_vars(Sign)
    /\ SF_vars(BeginPublishing) /\ SF_vars(StartRecover)

Spec == Init /\ [][Next]_vars /\ Fairness

(***************************************************************************)
(* Properties.                                                             *)
(***************************************************************************)
\* What the records read are worth, whatever their order: an object is whole
\* when its authenticated records agree, none is missing and the digest fits.
Authentic(read, id) == {r \in read : Opened(r) = "yes" /\ r.id = id}

Reference(read) ==
    LET Sound(id) ==
            LET own == Authentic(read, id)
            IN  \A r, s \in own : Meta(r) = Meta(s) /\ (r.index = s.index => r = s)
        Text(id) == LET own == Authentic(read, id)
                        n == (CHOOSE r \in own : TRUE).count
                    IN  [i \in 1..n |-> {r.bytes : r \in {x \in own : x.index = i}}]
        Digest(id) == (CHOOSE r \in Authentic(read, id) : TRUE).digest
    IN  {[id |-> id, bytes |-> Digest(id)] :
            id \in {i \in {r.id : r \in read} :
                       /\ Authentic(read, i) # {} /\ Sound(i)
                       /\ Text(i) = [k \in DOMAIN Digest(i) |-> {Digest(i)[k]}]}}

\* What a reader had before it: the blocks up to the noted tip, the directory
\* or the container.
Given ==
    CASE cmd.is = "recover" -> UNION {ToSet(Carried(cmd.tip[h])) : h \in cmd.start..Len(cmd.tip)}
      [] cmd.is = "local" -> dir.records
      [] OTHER -> ToSet(story.bundle)

\* A recovery that ends writes exactly the whole objects of the blocks up to
\* the tip it reports, whatever reorganizations it met and in whatever order
\* conflicting records came; a container or a directory gives no object the
\* scan would refuse, and all of them the same bytes (read_records, read_range,
\* accept_record, insert, export, open, recover_container).
RecoversExactly ==
    cmd.at = "export" =>
        /\ cmd.files = Reference(Given)
        /\ cmd.is \in {"open", "container"} => Cardinality(cmd.files) = 1

\* No reveal reaches the network before the commit was confirmed, unless the
\* operator allowed it (broadcast_plan, next_step, litecoin::broadcast).
RevealAfterCommit ==
    (Mined(chain) \cup mempool) \cap Revealed # {} => anchored \/ story.allow

\* An explorer status of "confirmed" names one chain that holds the whole plan,
\* unless the chain left the noted tip and came back meanwhile (status_plan).
ReportHonest ==
    cmd.at = "judge" /\ Word(cmd.seen) = "confirmed" /\ cmd.moves < 2
        => Planned \subseteq Mined(cmd.tip)

\* A journal that is broadcast again and again is on the chain in the end and
\* its object recovered, across interruptions, evictions and reorganizations,
\* unless its coin went elsewhere; and never does a reveal precede its commit
\* (publish_plan, broadcast_plan, next_step, read_records).
Publishes ==
    /\ []RevealAfterCommit
    /\ <>[](\/ Known(Rival) \/ story.foreign # {}
            \/ /\ story.ways # {} => Planned \subseteq Mined(chain)
               /\ story.scans => RecordOf[Head(Reveals)].id \in exported)

=============================================================================
