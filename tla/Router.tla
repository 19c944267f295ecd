------------------------------- MODULE Router -------------------------------
(***************************************************************************)
(* The transport router of urma-runtime (transport.rs) over its providers:  *)
(* the light client, HTTP sources (remote.rs) and Electrum sessions         *)
(* (electrum.rs).  Threads call it concurrently.  A call takes a snapshot   *)
(* of the providers that serve the method and are not blocked, ordered by   *)
(* evidence and then by health, and asks them one at a time (or races the   *)
(* first two for the tip); every attempt reports to the provider's health   *)
(* when it returns, in whatever order the threads get there.                *)
(*                                                                          *)
(* Time is left to the scheduler: a block, a Retry-After window and an      *)
(* acknowledgement end by an action of their own.  One record stands for    *)
(* all; `holds' says which providers have it at the moment.                 *)
(***************************************************************************)
EXTENDS Naturals, FiniteSets

CONSTANTS
  Providers, Callers, None,
  Light,         \* the peer-to-peer light client
  Http,          \* the Esplora and RPC sources
  Wrong,         \* HTTP and Electrum servers that may be of another network
  Holders,       \* the providers that have the record at first
  Index,         \* Index[p] : position of p in the configured list
  Breaker,       \* PROVIDER_BREAKER_FAILURES
  Width,         \* TIP_RACE_WIDTH
  Requests,      \* Requests[c] : the calls thread c makes: the method, the provider
                 \* preferred (None for Preference::Any), the rejected origins
  Flaky,         \* the servers that change: they go away and come back, gain and lose the record
  MaxMoves       \* bound on the changes of the servers

ASSUME RouterAssumption ==
  /\ Light \cup Http \cup Wrong \cup Holders \cup Flaky \subseteq Providers
  /\ Light \cap (Http \cup Wrong \cup Holders) = {}
  /\ Index \in [Providers -> Nat]
  /\ \A p, q \in Providers : Index[p] = Index[q] => p = q
  /\ Breaker \in Nat \ {0} /\ Width \in Nat \ {0}
  /\ MaxMoves \in Nat
  /\ \A c \in Callers : \A r \in Requests[c] :
       /\ r.method \in {"getrawtransaction", "getblockchaininfo"}
       /\ r.preferred \in Providers \cup {None} /\ r.avoid \in SUBSET Providers
       /\ r.preferred # None => r.method = "getrawtransaction"
       /\ r.avoid # {} => r.preferred = None /\ r.method = "getrawtransaction"

\* A provider, the lack of one and what a call ends with are different things.
ASSUME DistinctAssumption ==
  /\ None \notin Providers \cup {"answered", "absent", "rate limited", "failed",
                               "missing", "unavailable"}
  /\ Providers \cap {"missing", "unavailable"} = {}

VARIABLES
  failures,      \* failures[p] : Health::failures, capped at Breaker
  blocked,       \* the providers whose blocked_until lies ahead
  ready,         \* the light clients that finished their first sync
  up,            \* the providers that answer at the moment
  holds,         \* the providers that have the record at the moment
  wrong,         \* the servers of another network
  rejected,      \* the HTTP sources whose NetworkState is Rejected
  limited,       \* the HTTP sources whose retry_at lies ahead
  race_tip,      \* Router::race_tip, fixed when the router is built
  moves,         \* the changes of the servers so far
  call           \* call[c] : the call thread c is in

vars == <<failures, blocked, ready, up, holds, rejected, limited, race_tip, moves, wrong, call>>
world == <<wrong, ready, up, holds, race_tip, moves>>

Methods == {"getrawtransaction", "getblockchaininfo"}
Outcomes == {"answered", "absent", "rate limited", "failed"}
Results == Providers \cup {"missing", "unavailable", None}

NoReplies == [p \in Providers |-> None]
Idle == [phase |-> "idle", method |-> "getblockchaininfo", avoid |-> {}, race |-> FALSE,
         open |-> {}, queue |-> {}, order |-> {}, reply |-> NoReplies, heard |-> {}, result |-> None]

CallType ==
  [phase : {"idle", "busy"}, method : Methods, avoid : SUBSET Providers, race : BOOLEAN,
   open : SUBSET Providers, queue : SUBSET Providers, order : SUBSET (Providers \X Providers),
   reply : [Providers -> Outcomes \cup {None}], heard : SUBSET Providers, result : Results]

TypeOK ==
  /\ failures \in [Providers -> 0..Breaker]
  /\ blocked \subseteq Providers
  /\ ready \subseteq Light
  /\ up \subseteq Providers /\ holds \subseteq Providers
  /\ wrong \subseteq Wrong /\ rejected \subseteq Http \cap wrong
  /\ limited \subseteq Http
  /\ race_tip \in BOOLEAN
  /\ moves \in 0..MaxMoves
  /\ call \in [Callers -> CallType]

Init ==
  /\ failures = [p \in Providers |-> 0]
  /\ blocked = {} /\ ready = {} /\ limited = {} /\ moves = 0
  /\ up = Providers
  /\ race_tip \in BOOLEAN
  /\ holds = Holders
  /\ wrong \in SUBSET Wrong
  /\ rejected = {}
  /\ call = [c \in Callers |-> Idle]

-----------------------------------------------------------------------------
(* Choosing whom to ask *)

Supports(p, method) ==
  p \in Light => method = "getblockchaininfo" /\ p \in ready

\* Evidence: the light client's inclusion is stronger than a public report.
Rank(p) == IF p \in Light THEN 1 ELSE 2

BeforeByHealth(p, q) ==                                   \* mutant
  \/ failures[p] < failures[q]
  \/ failures[p] = failures[q] /\ Index[p] > Index[q]

\* ranked.sort() on (evidence, failures, index)
Before(p, q) ==
  \/ Rank(p) < Rank(q)
  \/ Rank(p) = Rank(q) /\ failures[p] < failures[q]
  \/ Rank(p) = Rank(q) /\ failures[p] = failures[q] /\ Index[p] < Index[q]

AvailableIfHealthy(method) ==                             \* mutant
  {p \in Providers \ blocked : Supports(p, method) /\ failures[p] < Breaker}

Available(method) == {p \in Providers \ blocked : Supports(p, method)}

\* The order of the snapshot, as the pairs of an earlier and a later one: the
\* preferred provider, when it is there, is moved to the front.
Precedes(preferred, p, q) ==
  /\ p # q
  /\ p = preferred \/ (q # preferred /\ Before(p, q))
Order(preferred, S) == {e \in S \X S : Precedes(preferred, e[1], e[2])}

\* The first n of S in this order.
First(n, S, order) == {p \in S : Cardinality({q \in S : <<q, p>> \in order}) < n}

\* answer_preferring and answer_avoiding, up to the first attempt.
Start(c, method, preferred, avoid) ==
  /\ call[c].phase = "idle"
  /\ LET candidates == Available(method) \ avoid
         order == Order(preferred, candidates)
         race == race_tip /\ method = "getblockchaininfo" /\ Cardinality(candidates) > 1
     IN call' = [call EXCEPT ![c] =
          [Idle EXCEPT
             !.phase = "busy", !.method = method, !.avoid = avoid, !.race = race,
             !.open = Light \cap candidates, !.order = order,
             !.queue = IF race THEN First(Width, candidates, order) ELSE candidates]]
  /\ UNCHANGED <<failures, blocked, rejected, limited, world>>

\* The call returns r; the thread is free to make its next one.
Ended(r) == [Idle EXCEPT !.result = r]

\* With nobody to ask the call is over: Missing when the caller rejected every
\* provider that serves the method, an error otherwise.
NobodyToAsk(c) ==
  LET refused == call[c].avoid # {} /\
        \A p \in Providers : Supports(p, call[c].method) => p \in call[c].avoid
  IN /\ call[c].phase = "busy"
     /\ call[c].queue = {} /\ call[c].reply = NoReplies
     /\ call' = [call EXCEPT ![c] = Ended(IF refused THEN "missing" ELSE "unavailable")]
     /\ UNCHANGED <<failures, blocked, rejected, limited, world>>

-----------------------------------------------------------------------------
(* Asking a provider *)

\* What a server of the right network says to a request it understands: every
\* one has a tip, the record is there or it is absent.
Says(p, method) ==
  IF method = "getblockchaininfo" \/ p \in holds THEN "answered" ELSE "absent"

\* One HTTP request: a server in trouble refuses, times out or says 429.
Request(p) == IF p \in up THEN {"ok"} ELSE {"failed", "rate limited"}

\* The genesis check forgotten.
SourceCallUnverified(p, method) ==                        \* mutant
  IF p \in limited THEN {"rate limited"}
  ELSE {IF r = "ok" THEN Says(p, method) ELSE r : r \in Request(p)}

\* Source::call: inside its Retry-After window it refuses by itself, a source
\* rejected once never answers again, and genesis is checked before the first
\* answer.
SourceCall(p, method) ==
  CASE p \in limited -> {"rate limited"}
    [] p \in rejected \ limited -> {"failed"}
    [] OTHER -> {IF r = "ok" THEN (IF p \in wrong THEN "failed" ELSE Says(p, method)) ELSE r :
                   r \in Request(p)}

\* Electrum::session: it connects when it has no session, checks genesis on
\* every new one and retries once on another before it gives up.
SessionCall(p, method) == {IF p \in up \ wrong THEN Says(p, method) ELSE "failed"}

\* The light client has verified what it serves.
LightCall(p, method) == {IF p \in up THEN Says(p, method) ELSE "failed"}

\* Provider::call
Reply(p, method) ==
  CASE p \in Light -> LightCall(p, method)
    [] p \in Http -> SourceCall(p, method)
    [] OTHER -> SessionCall(p, method)

Outstanding(c) == {p \in Providers : call[c].reply[p] # None} \ call[c].heard

MayAsk(c, p) ==
  /\ p \in call[c].queue
  /\ \/ call[c].race
     \/ Outstanding(c) = {} /\ \A q \in call[c].queue \ {p} : <<p, q>> \in call[c].order

Ask(c, p) ==
  /\ call[c].phase = "busy"
  /\ MayAsk(c, p)
  /\ \E o \in Reply(p, call[c].method) :
       /\ call' = [call EXCEPT ![c].reply[p] = o, ![c].queue = @ \ {p}]
       /\ limited' = IF o = "rate limited" THEN limited \cup {p} ELSE limited
  /\ rejected' = IF p \in (Http \cap wrong \cap up) \ limited THEN rejected \cup {p} ELSE rejected
  /\ UNCHANGED <<failures, blocked, world>>

-----------------------------------------------------------------------------
(* Reporting what it said *)

Succeeded(p) ==
  /\ failures' = [failures EXCEPT ![p] = 0]
  /\ blocked' = blocked \ {p}

Failed(p) ==
  LET n == IF failures[p] < Breaker THEN failures[p] + 1 ELSE Breaker
  IN /\ failures' = [failures EXCEPT ![p] = n]
     /\ blocked' = IF n >= Breaker THEN blocked \cup {p} ELSE blocked

Cooled(p) ==
  /\ blocked' = blocked \cup {p}
  /\ UNCHANGED failures

\* How the call ends once all its attempts have reported.
Verdict(c, heard) ==
  IF ~call[c].race /\ \E p \in heard : call[c].reply[p] = "absent"
  THEN "missing" ELSE "unavailable"

\* A race has its answer from the first thread that brings one, and returns
\* when the scope has joined the others; a plain call returns at once.
Report(c, p) ==
  LET o == call[c].reply[p]
      heard == call[c].heard \cup {p}
      all == call[c].queue = {} /\ Outstanding(c) = {p}
      answer == IF call[c].result # None THEN call[c].result
                ELSE IF o = "answered" THEN p
                ELSE IF all THEN Verdict(c, heard) ELSE None
      over == all \/ (~call[c].race /\ answer # None)
  IN /\ call[c].phase = "busy"
     /\ p \in Outstanding(c)
     /\ CASE o \in {"answered", "absent"} -> Succeeded(p)
          [] o = "rate limited" -> Cooled(p)
          [] o = "failed" -> Failed(p)
     /\ call' = [call EXCEPT ![c] =
          IF over THEN Ended(answer) ELSE [@ EXCEPT !.heard = heard, !.result = answer]]
     /\ UNCHANGED <<rejected, limited, world>>

-----------------------------------------------------------------------------
(* The clock and the providers *)

BlockEnds(p) ==
  /\ p \in blocked
  /\ blocked' = blocked \ {p}
  /\ UNCHANGED <<failures, rejected, limited, call, world>>

LimitEnds(p) ==
  /\ p \in limited
  /\ limited' = limited \ {p}
  /\ UNCHANGED <<failures, blocked, rejected, call, world>>

Synced(p) ==
  /\ p \in Light \ ready
  /\ ready' = ready \cup {p}
  /\ UNCHANGED <<failures, blocked, wrong, up, holds, race_tip, moves, rejected, limited, call>>

\* A server goes away or returns; the record reaches it or leaves its pool.
Flip(p) ==
  /\ moves < MaxMoves
  /\ moves' = moves + 1
  /\ \/ p \in Flaky /\ up' = (up \ {p}) \cup ({p} \ up) /\ UNCHANGED holds
     \/ p \in Flaky \ Light /\ holds' = (holds \ {p}) \cup ({p} \ holds) /\ UNCHANGED up
  /\ UNCHANGED <<failures, blocked, wrong, ready, rejected, limited, race_tip, call>>

Next ==
  \/ \E c \in Callers :
       \/ \E r \in Requests[c] : Start(c, r.method, r.preferred, r.avoid)
       \/ \E p \in Providers : Ask(c, p) \/ Report(c, p)
       \/ NobodyToAsk(c)
  \/ \E p \in Providers : BlockEnds(p) \/ LimitEnds(p) \/ Synced(p) \/ Flip(p)

\* Requests time out, so an attempt always ends and a call goes on; the clock
\* runs.  Nothing makes a server come back or a thread call again.
Proceed(c) == NobodyToAsk(c) \/ \E p \in Providers : Ask(c, p) \/ Report(c, p)
Fairness ==
  /\ \A c \in Callers : WF_vars(Proceed(c))
  /\ \A p \in Providers : WF_vars(BlockEnds(p))
  /\ \A p \in Http : WF_vars(LimitEnds(p))

Spec == Init /\ [][Next]_vars /\ Fairness
-----------------------------------------------------------------------------
(* Properties *)

\* The promise of Lookup: replies stand for the samples a call has taken.
Promise == INSTANCE Lookup WITH
  phase <- [c \in Callers |-> call[c].phase],
  request <- [c \in Callers |-> [method |-> call[c].method, avoid |-> call[c].avoid]],
  samples <- [c \in Callers |->
    {<<p, call[c].reply[p] = "answered">> :
       p \in {q \in Providers : call[c].reply[q] \in {"answered", "absent"}}}],
  result <- [c \in Callers |-> IF call[c].phase = "busy" THEN None ELSE call[c].result]

\* The router implements Lookup: a call ends, with the answer of a provider
\* that had the record while the call ran and is on the right network, with
\* Missing only when somebody lacked it, and with an error only when nobody
\* answered (Router::answer_from, attempt, race).
Implements == Promise!Spec

\* An answer of weaker evidence is given only when every provider of stronger
\* evidence that was open when the call began was asked first and did not
\* answer: neither the failure counts nor another thread's reports let a
\* public report overtake the light client (Router::candidates, answer_from).
\* Races, whose winner is the first to answer, are only subject to Implements.
StrongestFirst ==
  [][\A c \in Callers : \A p \in Providers : \A q \in call[c].open :
       /\ call[c].phase = "busy" /\ ~call[c].race
       /\ call'[c].phase = "idle" /\ call'[c].result = p
       /\ Rank(q) < Rank(p)
       => q \in call[c].heard /\ call[c].reply[q] # "answered"]_vars

\* The circuit breaker recovers: once a server of the right network stays up
\* and keeps the record, failures reported late by other threads block it for
\* at most a while, and callers that keep asking are answered again and again
\* (Slot::failed, cooled, succeeded, Router::candidates).
Asking(c) == call[c].phase = "busy" => call[c].method = "getrawtransaction" /\ call[c].avoid = {}
Answered(c) == call[c].phase = "idle" /\ call[c].result \in Providers
Recovers ==
  \A p \in Providers \ Light, c \in Callers :
    <>[](p \in (up \cap holds) \ wrong /\ Asking(c)) /\ []<>(call[c].phase = "busy")
      => []<>Answered(c)
=============================================================================
