------------------------------ MODULE PeerSet ------------------------------
(* How the light client finds, dials, drops and bans its peers               *)
(* (urma-runtime/src/p2p: peers, discovery, book, addr, Peer::connect).      *)
(*                                                                           *)
(* One worker thread owns all of the state; threads that dial send what they *)
(* found into a channel. Time is abstract: the seeding interval and the      *)
(* back-off of a redial have passed or not. Resolvers are abstract too: once *)
(* asked they may answer at any later pass. The order of connected peers     *)
(* only ranks them, and the drought warning changes nothing else.            *)
EXTENDS Integers, Sequences, FiniteSets, SequencesExt, FiniteSetsExt

CONSTANTS
    Addresses,    \* socket addresses
    Ip,           \* the IP of an address
    V6,           \* the addresses with an IPv6 IP
    Routable,     \* the addresses that addr::routable accepts
    Pinnings,     \* the lists of pinned peers a caller may give, <<>> for none
    Fixed,        \* fixed_seeds of the chain
    Resolved,     \* addresses that DNS seeds and gossip may name
    MaxPeers,     \* P2P_MAX_PEERS
    Dials,        \* P2P_DIAL_CONCURRENCY
    PoolSize,     \* P2P_ADDRESS_POOL
    BookSize,     \* P2P_GOOD_PEERS
    NetChanges,   \* bound: changes of the network
    None          \* no address

ASSUME PeerSetAssumption ==
    /\ IsFiniteSet(Addresses) /\ Ip \in [Addresses -> Nat]
    /\ V6 \subseteq Addresses /\ Routable \subseteq Addresses
    /\ Resolved \subseteq Addresses
    /\ Pinnings \subseteq Seq(Addresses) /\ Fixed \in Seq(Addresses)
    /\ {MaxPeers, Dials, PoolSize, BookSize} \subseteq Nat \ {0}
    /\ NetChanges \in Nat /\ None \notin Addresses

VARIABLES
    \* Discovery
    pool, tried, banned, redial, skipV6, seeded,
    \* Peers
    pinned, book, dialing, connected, warmed,
    \* dial threads and their channel
    running, results,
    \* the worker's place, and where launch returns to
    pc, after,
    \* the network: which addresses answer, and how often that changed
    up, changes

discoveryVars == <<pool, tried, banned, redial, skipV6, seeded>>
peerVars == <<pinned, book, dialing, connected, warmed>>
threadVars == <<running, results>>
netVars == <<up, changes>>
vars == <<discoveryVars, peerVars, threadVars, pc, after, netVars>>

Target == IF pinned = <<>> THEN MaxPeers ELSE Len(pinned)
Barred(a) == Ip[a] \in banned \/ (skipV6 /\ a \in V6)

----------------------------------------------------------------------------
(* Discovery *)

\* What may enter a pool.
Admissible(queue, seen, a) ==
    /\ ~ Barred(a) /\ a \notin seen
    /\ a \notin Range(queue) /\ Len(queue) < PoolSize

\* FoldLeft, in a form that the prover expands.
Folded(Op(_, _), base, list) ==
    LET upto[i \in 0..Len(list)] == IF i = 0 THEN base ELSE Op(upto[i - 1], list[i])
    IN upto[Len(list)]

\* What is left of a queue.
Without(queue, gone) ==
    Folded(LAMBDA kept, a : IF a \in gone THEN kept ELSE Append(kept, a), <<>>, queue)

\* offer_seeded: in front, in the order given; offer_gossip: behind.
OfferSeeded(queue, seen, list) ==
    Folded(LAMBDA q, a : IF Admissible(q, seen, a) THEN <<a>> \o q ELSE q, queue, Reverse(list))
OfferGossip(queue, seen, list) ==
    Folded(LAMBDA q, a : IF Admissible(q, seen, a) THEN Append(q, a) ELSE q, queue, list)

\* Mutant: only addresses that were not tried yet.
ReadmitUntried(queue, lists) ==
    [pool |-> Folded(LAMBDA q, l : OfferSeeded(q, tried, l), queue, lists), tried |-> tried]

\* readmit, for one list after the other: tried addresses get another chance.
Readmit(queue, lists) ==
    LET again == tried \ UNION {Range(lists[i]) : i \in DOMAIN lists}
    IN [pool |-> Folded(LAMBDA q, l : OfferSeeded(q, again, l), queue, lists),
        tried |-> again]

\* Discovery::next, when the first redial is due or is not. A redial that is
\* barred by now is passed over, and the pool is asked.
NextAddress(due) ==
    LET front == Head(redial)
        rest == IF due THEN Tail(redial) ELSE redial
        found(a, q) == [address |-> a, redial |-> rest, pool |-> q]
    IN IF due /\ ~ Barred(front) THEN found(front, pool)
       ELSE IF pool = <<>> THEN found(None, pool)
       ELSE found(Head(pool), Tail(pool))

Behind(ip) == {a \in Addresses : Ip[a] = ip}

\* Mutant: what waits in the pool is forgotten about.
BanRedial(ip) ==
    /\ banned' = banned \cup {ip}
    /\ pool' = pool
    /\ redial' = Without(redial, Behind(ip))

Ban(ip) ==
    /\ banned' = banned \cup {ip}
    /\ pool' = Without(pool, Behind(ip))
    /\ redial' = Without(redial, Behind(ip))

\* Discovery::dropped.
Dropped(queue, a) ==
    IF Ip[a] \in banned \/ a \in Range(queue) THEN queue ELSE Append(queue, a)

----------------------------------------------------------------------------
(* The worker: maintain_peers *)

\* drop_peer and ban_peer, called by the rest of the worker.
DropPeer(a) ==
    /\ pc = "rest" /\ a \in connected
    /\ connected' = connected \ {a}
    /\ redial' = Dropped(redial, a)
    /\ UNCHANGED <<pool, tried, banned, skipV6, seeded, pinned, book, dialing,
                   warmed, threadVars, pc, after, netVars>>

BanPeer(a) ==
    /\ pc = "rest" /\ a \in connected
    /\ connected' = connected \ {a}
    /\ Ban(Ip[a])
    /\ UNCHANGED <<tried, skipV6, seeded, pinned, book, dialing, warmed,
                   threadVars, pc, after, netVars>>

\* admit_gossip. Its order follows the times peers claim.
Gossiped(list) ==
    IF pinned = <<>>
    THEN OfferGossip(pool, tried, Without(list, Addresses \ Routable))
    ELSE pool

\* A pass begins. poll_idle drops the peers whose connection is gone,
\* absorb_gossip takes what the others told.
Maintain ==
    /\ pc = "rest"
    /\ LET lost == connected \ up IN
       /\ connected' = connected \ lost
       /\ \E order \in SetToSeqs(lost) : redial' = Folded(Dropped, redial, order)
    /\ \E learned \in {<<>>} \cup
            (IF connected' = {} THEN {} ELSE {<<a>> : a \in Resolved}) :
         pool' = Gossiped(learned)
    /\ pc' = IF Cardinality(connected') < Target THEN "discover" ELSE "rest"
    /\ UNCHANGED <<tried, banned, skipV6, seeded, pinned, book, dialing, warmed,
                   threadVars, after, netVars>>

\* collect: what resolvers answered since.
Collected ==
    IF seeded /\ pinned = <<>>
    THEN {OfferGossip(pool, tried, Without(l, Addresses \ Routable)) :
            l \in {<<>>} \cup SetToSeqs(Resolved)}
    ELSE {pool}

\* discover, while seeding is not due.
Discover ==
    /\ pc = "discover" /\ pc' = "first"
    /\ pool' \in Collected
    /\ (pool' = <<>> => seeded)
    /\ UNCHANGED <<tried, banned, redial, skipV6, seeded, peerVars, threadVars,
                   after, netVars>>

\* discover, for the first time or when the seeding interval has passed.
Seed ==
    /\ pc = "discover" /\ pc' = "first"
    /\ <<>> \in Collected
    /\ seeded' = TRUE
    /\ \E fixed \in SetToSeqs(Range(Fixed)) : \E kept \in SetToSeqs(book) :
         LET again == Readmit(<<>>, IF pinned = <<>> THEN <<fixed, kept>> ELSE <<pinned>>)
         IN pool' = again.pool /\ tried' = again.tried
    /\ UNCHANGED <<banned, redial, skipV6, peerVars, threadVars, after, netVars>>

----------------------------------------------------------------------------
(* The worker: top_up *)

Settling == {"first", "second", "warm"}
Room == Cardinality(connected) < Target /\ Cardinality(dialing) < Dials

\* Mutant: an address that is being dialled is dialled again.
HeldConnected(a) == a \in connected

Held(a) == a \in dialing \/ a \in connected

Return == pc' = after /\ after' = None

\* One turn of launch. A dial thread that cannot be started ends it.
Launch(due) ==
    /\ pc = "launch" /\ Room
    /\ due => redial # <<>>
    /\ LET n == NextAddress(due) a == n.address IN
       /\ redial' = n.redial /\ pool' = n.pool
       /\ tried' = IF a = None THEN tried ELSE tried \cup {a}
       /\ \/ /\ a = None
             /\ Return /\ UNCHANGED <<dialing, running>>
          \/ /\ a # None /\ Held(a)
             /\ UNCHANGED <<dialing, running, pc, after>>
          \/ /\ a # None /\ ~ Held(a)
             /\ dialing' = dialing \cup {a}
             /\ running' = [running EXCEPT ![a] = @ + 1]
             /\ UNCHANGED <<pc, after>>
          \/ /\ a # None /\ ~ Held(a)
             /\ Return /\ UNCHANGED <<dialing, running>>
    /\ UNCHANGED <<banned, skipV6, seeded, pinned, book, connected, warmed,
                   results, netVars>>

LaunchEnds ==
    /\ pc = "launch" /\ ~ Room
    /\ Return
    /\ UNCHANGED <<discoveryVars, peerVars, threadVars, netVars>>

\* PeerBook::record: the oldest entries make room.
Recorded(a) == {b \in SUBSET (book \cup {a}) :
                    Cardinality(b) = Min({BookSize, Cardinality(book \cup {a})})}

Finishes(a) == Cardinality(connected) < Target /\ a \notin connected

\* A connection is made. One too many is closed again.
Connected(a) ==
    /\ IF pinned = <<>>
       THEN book' \in Recorded(a)
       ELSE UNCHANGED book
    /\ connected' = IF Finishes(a) THEN connected \cup {a} ELSE connected
    /\ UNCHANGED <<pool, redial, skipV6>>

\* unreachable_v6.
UnreachableV6 ==
    /\ skipV6' = TRUE
    /\ pool' = Without(pool, V6)
    /\ redial' = Without(redial, V6)
    /\ UNCHANGED <<book, connected>>

\* One turn of settle: finish, then launch.
Receive ==
    /\ pc \in Settling /\ results # <<>>
    /\ results' = Tail(results)
    /\ pc' = "launch" /\ after' = pc
    /\ LET a == Head(results).address outcome == Head(results).outcome IN
       /\ dialing' = dialing \ {a}
       /\ CASE outcome = "ok" -> Connected(a)
            [] outcome = "unreachable" /\ a \in V6 /\ pinned = <<>> -> UnreachableV6
            [] OTHER -> UNCHANGED <<pool, redial, skipV6, book, connected>>
    /\ UNCHANGED <<tried, banned, seeded, pinned, warmed, running, netVars>>

\* Nothing is in the channel and nothing comes in time.
SettleEnds ==
    /\ pc \in Settling /\ results = <<>>
    /\ CASE pc = "first" -> pc' = "launch" /\ after' = "second" /\ UNCHANGED warmed
         [] pc = "second" /\ ~ warmed /\ connected # {} ->
              pc' = "warm" /\ warmed' = TRUE /\ UNCHANGED after
         [] OTHER -> pc' = "rest" /\ UNCHANGED <<after, warmed>>
    /\ UNCHANGED <<discoveryVars, pinned, book, dialing, connected, threadVars, netVars>>

----------------------------------------------------------------------------
(* Dial threads, the process and the network *)

\* Peer::connect. A peer without the services it needs, or that does not
\* finish the handshake, fails too.
DialEnds(a) ==
    /\ running[a] > 0
    /\ running' = [running EXCEPT ![a] = @ - 1]
    /\ \E outcome \in IF a \in up THEN {"ok"}
                      ELSE {"failed"} \cup (IF a \in V6 THEN {"unreachable"} ELSE {}) :
         results' = Append(results, [address |-> a, outcome |-> outcome])
    /\ UNCHANGED <<discoveryVars, peerVars, pc, after, netVars>>

NetChange ==
    /\ changes < NetChanges /\ changes' = changes + 1
    /\ \E a \in Addresses : up' = (up \ {a}) \cup ({a} \ up)
    /\ UNCHANGED <<discoveryVars, peerVars, threadVars, pc, after>>

\* The book that a process finds: saving may have failed, a book that cannot be
\* read counts as empty, and entries that are not routable are left out.
Books == {b \in SUBSET Routable : Cardinality(b) <= BookSize}

\* The process starts with the peers a caller pins and the book it reads.
Start(pins, kept, v6) ==
    [pool |-> <<>>, tried |-> {}, banned |-> {}, redial |-> <<>>,
     skipV6 |-> v6 /\ pins = <<>>, seeded |-> FALSE, pinned |-> pins,
     book |-> kept]

Init ==
    /\ \E pins \in Pinnings : \E v6 \in BOOLEAN : \E kept \in Books :
         LET s == Start(pins, kept, v6) IN
         /\ pool = s.pool /\ tried = s.tried /\ banned = s.banned
         /\ redial = s.redial /\ skipV6 = s.skipV6 /\ seeded = s.seeded
         /\ pinned = s.pinned /\ book = s.book
    /\ dialing = {} /\ connected = {} /\ warmed = FALSE
    /\ running = [a \in Addresses |-> 0] /\ results = <<>>
    /\ pc = "rest" /\ after = None
    /\ up \in SUBSET Addresses /\ changes = 0

Restart ==
    /\ changes < NetChanges /\ changes' = changes + 1
    /\ \E kept \in Books : \E v6 \in BOOLEAN :
         LET s == Start(pinned, kept, v6) IN
         /\ pool' = s.pool /\ tried' = s.tried /\ banned' = s.banned
         /\ redial' = s.redial /\ skipV6' = s.skipV6 /\ seeded' = s.seeded
         /\ pinned' = s.pinned /\ book' = s.book
    /\ dialing' = {} /\ connected' = {} /\ warmed' = FALSE
    /\ running' = [a \in Addresses |-> 0] /\ results' = <<>>
    /\ pc' = "rest" /\ after' = None
    /\ UNCHANGED up

Worker ==
    \/ Maintain \/ Discover \/ Seed
    \/ (\E due \in BOOLEAN : Launch(due)) \/ LaunchEnds \/ Receive \/ SettleEnds

Next ==
    \/ Worker
    \/ \E a \in Addresses : DropPeer(a) \/ BanPeer(a) \/ DialEnds(a)
    \/ NetChange \/ Restart

Spec == Init /\ [][Next]_vars

\* The worker and the dial threads go on, the seeding interval passes, a redial
\* falls due, and threads can be started: a turn of launch that could dial an
\* address now and again does so.
FairSpec ==
    /\ Spec
    /\ WF_vars(Worker)
    /\ \A a \in Addresses : WF_vars(DialEnds(a))
    /\ SF_vars(Seed)
    /\ \A a \in Addresses : SF_vars(Launch(FALSE) /\ a \in dialing' \ dialing)

----------------------------------------------------------------------------
(* Properties *)

\* The limits hold although dials that were begun while there was room end
\* later, in any order (launch, finish, admissible, trim).
WithinLimits ==
    /\ Cardinality(connected) <= Target /\ Cardinality(dialing) <= Dials
    /\ Len(pool) <= PoolSize /\ Cardinality(book) <= BookSize

\* The types of the worker's state, and its limits (Peers, Discovery).
TypeOK ==
    /\ WithinLimits
    /\ pool \in Seq(Addresses) /\ redial \in Seq(Addresses)
    /\ tried \subseteq Addresses /\ connected \subseteq Addresses
    /\ dialing \subseteq Addresses /\ up \subseteq Addresses
    /\ book \subseteq Addresses
    /\ banned \subseteq {Ip[a] : a \in Addresses}
    /\ {skipV6, seeded, warmed} \subseteq BOOLEAN
    /\ pinned \in Pinnings
    /\ running \in [Addresses -> Nat]
    /\ results \in Seq([address : Addresses, outcome : {"ok", "failed", "unreachable"}])
    /\ pc \in Settling \cup {"rest", "discover", "launch"}
    /\ after \in Settling \cup {None} /\ changes \in 0..NetChanges

\* Every dial slot belongs to exactly one thread, or to one result in the
\* channel: no address is dialled twice at a time and no slot is lost, so that
\* dials never stop for good (Peers::launch, settle).
OneDialEach ==
    \A a \in Addresses :
        running[a] + Cardinality({i \in DOMAIN results : results[i].address = a})
            = IF a \in dialing THEN 1 ELSE 0

\* No dial of a host that was banned begins while the process runs, whatever
\* named it (Discovery::ban, admissible, dropped, next); one that was running
\* when its host was banned may still connect (finish).
BannedNotDialled ==
    [][\A a \in dialing' \ dialing : Ip[a] \notin banned]_vars

\* With pinned peers no other address is ever dialled (discover, admit_gossip).
PinnedOnly == pinned # <<>> => dialing \cup connected \subseteq Range(pinned)

\* Both limits on whom the client dials.
DialsPermitted == []PinnedOnly /\ BannedNotDialled

\* A pinned peer, or a fixed seed, that answers is connected again after any
\* outage and any failed dial, unless it was banned or the peers are complete
\* (readmit, seeding_due, launch).
Reconnects ==
    \A a \in Addresses :
        (a \in (IF pinned = <<>> THEN Range(Fixed) ELSE Range(pinned)) /\ <>[](a \in up))
            => []<>(a \in connected \/ Cardinality(connected) = Target \/ Barred(a))
============================================================================
