---------------------------- MODULE RouterProofs ----------------------------
(***************************************************************************)
(* The router keeps the promise of Lookup, and never lets weaker evidence  *)
(* overtake stronger, for every set of providers and of calling threads.   *)
(*                                                                         *)
(* And what the journal of a private archive claims of a chain that moves  *)
(* while it publishes (PrivateArchive), for every such chain.              *)
(***************************************************************************)
EXTENDS Router, SequenceTheorems, TLAPS

(* What is known of the call r a thread is in: who may still be asked, who  *)
(* has been, and what follows from who has reported.                        *)
Asked(r) == {p \in Providers : r.reply[p] # None}

CallSound(r) ==
  /\ r.phase = "idle" => r.reply = NoReplies
  /\ r.phase = "busy" =>
       /\ \A p \in r.queue : /\ r.reply[p] = None /\ p \notin r.avoid
                             /\ p \in Light => r.method = "getblockchaininfo"
       /\ r.heard \subseteq Asked(r)
       /\ r.result # None => r.race /\ r.result \in Providers /\ r.reply[r.result] = "answered"
       /\ \A p \in r.heard : r.reply[p] = "answered" => r.result # None
       /\ \A p \in Providers : r.reply[p] = "absent" => r.method = "getrawtransaction"
       /\ r.race => r.method = "getblockchaininfo"

(* A plain call asks one provider after the other, strongest first. *)
InOrder(r) ==
  r.phase = "busy" /\ ~r.race =>
    /\ \A p, q \in Asked(r) \ r.heard : p = q
    /\ r.open \subseteq Light /\ r.open \subseteq r.queue \cup Asked(r)
    /\ \A p \in Asked(r) \ Light : r.open \cap r.queue = {}
    /\ \A p \in r.queue \ Light, q \in r.open : <<p, q>> \notin r.order

IInv == TypeOK /\ \A c \in Callers : CallSound(call[c]) /\ InOrder(call[c])

-----------------------------------------------------------------------------
(* Idle, and an idle call with a result, are calls of the right shape. *)
LEMMA EndedSound ==
  ASSUME NEW r \in Results
  PROVE  /\ Ended(r) \in CallType /\ CallSound(Ended(r)) /\ InOrder(Ended(r))
         /\ Ended(r).phase = "idle" /\ Ended(r).result = r /\ Ended(r).reply = NoReplies
         /\ Ended(r).method = "getblockchaininfo" /\ Ended(r).avoid = {}
<1>1. NoReplies \in [Providers -> Outcomes \cup {None}]
  BY DEF NoReplies
<1> QED BY <1>1 DEF Ended, Idle, CallType, CallSound, InOrder, Methods, Results

(* So is the call of a thread that has made none. *)
LEMMA IdleSound == Idle \in CallType /\ CallSound(Idle) /\ InOrder(Idle)
<1>1. NoReplies \in [Providers -> Outcomes \cup {None}]
  BY DEF NoReplies
<1> QED BY <1>1 DEF Idle, CallType, CallSound, InOrder, Methods, Results

(* A server of another network never answers and never denies a record, and *)
(* one that answers has what was asked for.                                 *)
LEMMA ReplyHonest ==
  ASSUME TypeOK, NEW p \in Providers, NEW m \in Methods, NEW o \in Reply(p, m)
  PROVE  /\ o \in Outcomes
         /\ o \in {"answered", "absent"} =>
              /\ p \notin wrong
              /\ o = "answered" <=> (m = "getblockchaininfo" \/ p \in holds)
         /\ o = "rate limited" => p \in Http
<1>1. CASE p \in Light
  BY <1>1, RouterAssumption DEF Reply, LightCall, Says, Outcomes, TypeOK
<1>2. CASE p \in Http
  <2>1. p \notin Light
    BY <1>2, RouterAssumption
  <2>2. o \in SourceCall(p, m)
    BY <1>2, <2>1 DEF Reply
  <2>3. CASE p \in limited
    BY <2>2, <2>3, <1>2 DEF SourceCall, Outcomes
  <2>4. CASE p \in rejected \ limited
    BY <2>2, <2>4, <1>2 DEF SourceCall, Outcomes
  <2>5. CASE p \notin limited /\ p \notin rejected
    BY <2>2, <2>5, <1>2 DEF SourceCall, Request, Says, Outcomes
  <2> QED BY <2>3, <2>4, <2>5
<1>3. CASE p \notin Light \cup Http
  BY <1>3 DEF Reply, SessionCall, Says, Outcomes
<1> QED BY <1>1, <1>2, <1>3

-----------------------------------------------------------------------------
(* The invariant *)

(* The router starts with every thread idle. *)
LEMMA InitInv == Init => IInv
<1> SUFFICES ASSUME Init PROVE IInv
  OBVIOUS
<1>1. TypeOK
  BY RouterAssumption, IdleSound DEF Init, TypeOK
<1>2. ASSUME NEW c \in Callers PROVE call[c] = Idle
  BY DEF Init
<1> QED BY <1>1, <1>2, IdleSound DEF IInv

(* A step that replaces the call of one thread by a sound one and leaves the *)
(* others alone keeps the invariant.                                         *)
LEMMA OneCall ==
  ASSUME IInv, NEW c \in Callers, NEW r \in CallType, CallSound(r), InOrder(r),
         call' = [call EXCEPT ![c] = r]
  PROVE  /\ call' \in [Callers -> CallType]
         /\ \A d \in Callers : CallSound(call'[d]) /\ InOrder(call'[d])
<1>1. call \in [Callers -> CallType]
  BY DEF IInv, TypeOK
<1>2. \A d \in Callers : call'[d] = IF d = c THEN r ELSE call[d]
  BY <1>1
<1> QED BY <1>1, <1>2 DEF IInv

(* The call a thread is in after Start. *)
LEMMA StartForm ==
  ASSUME IInv, NEW c \in Callers, NEW q \in Requests[c], Start(c, q.method, q.preferred, q.avoid)
  PROVE  \E r \in CallType :
           /\ call' = [call EXCEPT ![c] = r] /\ CallSound(r) /\ InOrder(r)
           /\ r.phase = "busy" /\ r.method = q.method /\ r.avoid = q.avoid /\ r.reply = NoReplies
<1> DEFINE m == q.method
           preferred == q.preferred
           avoid == q.avoid
           candidates == Available(m) \ avoid
           order == Order(preferred, candidates)
           race == race_tip /\ m = "getblockchaininfo" /\ Cardinality(candidates) > 1
           queue == IF race THEN First(Width, candidates, order) ELSE candidates
           r == [Idle EXCEPT
             !.phase = "busy", !.method = m, !.avoid = avoid, !.race = race,
             !.open = Light \cap candidates, !.order = order, !.queue = queue]
<1>1. call' = [call EXCEPT ![c] = r]
  BY DEF Start
<1>2. /\ m \in Methods /\ preferred \in Providers \cup {None} /\ avoid \in SUBSET Providers
      /\ preferred # None => m = "getrawtransaction"
  BY RouterAssumption DEF Methods
<1>3. /\ queue \subseteq candidates /\ candidates \subseteq Providers
      /\ order \subseteq Providers \X Providers /\ race \in BOOLEAN
  BY DEF First, Available, Order, TypeOK, IInv
<1>4. r \in CallType
  BY <1>2, <1>3, IdleSound DEF CallType, Idle
<1>5. /\ r.phase = "busy" /\ r.method = m /\ r.avoid = avoid /\ r.race = race /\ r.queue = queue
      /\ r.open = Light \cap candidates /\ r.order = order /\ r.reply = NoReplies
      /\ r.heard = {} /\ r.result = None
  BY DEF Idle
<1> HIDE DEF r
<1>6. Asked(r) = {}
  BY <1>5 DEF Asked, NoReplies
<1>7. \A p \in candidates : p \notin avoid /\ (p \in Light => m = "getblockchaininfo")
  BY DEF Available, Supports
<1>8. CallSound(r)
  <2>1. \A p \in Providers : r.reply[p] = None
    BY <1>5 DEF NoReplies
  <2> QED BY <1>3, <1>5, <1>7, <2>1, DistinctAssumption DEF CallSound
<1>9. InOrder(r)
  <2>1. ASSUME NEW p \in candidates \ Light, NEW s \in Light \cap candidates
        PROVE  <<p, s>> \notin order
    <3>1. preferred = None
      BY <1>2, <1>7, <2>1
    <3>2. ~Before(p, s)
      BY <1>3 DEF Before, Rank
    <3>3. ~Precedes(preferred, p, s)
      BY <1>3, <3>1, <3>2, DistinctAssumption DEF Precedes
    <3> QED BY <3>3 DEF Order
  <2>2. ~race => queue = candidates
    OBVIOUS
  <2> HIDE DEF candidates, order, race, queue
  <2> QED BY <1>3, <1>5, <1>6, <2>1, <2>2 DEF InOrder
<1> QED BY <1>1, <1>4, <1>5, <1>8, <1>9

(* Choosing the candidates keeps the invariant. *)
LEMMA StartInv ==
  ASSUME IInv, NEW c \in Callers, NEW q \in Requests[c], Start(c, q.method, q.preferred, q.avoid)
  PROVE  IInv'
<1>1. PICK r \in CallType : call' = [call EXCEPT ![c] = r] /\ CallSound(r) /\ InOrder(r)
  BY StartForm
<1>2. UNCHANGED <<failures, blocked, rejected, limited, wrong, ready, up, holds, race_tip, moves>>
  BY DEF Start, world
<1> QED BY <1>1, <1>2, OneCall DEF IInv, TypeOK

(* So does ending a call that has nobody to ask, *)
LEMMA NobodyInv ==
  ASSUME IInv, NEW c \in Callers, NobodyToAsk(c)
  PROVE  IInv'
<1>1. PICK r \in Results : call' = [call EXCEPT ![c] = Ended(r)]
  BY DEF NobodyToAsk, Results
<1>2. UNCHANGED <<failures, blocked, rejected, limited, wrong, ready, up, holds, race_tip, moves>>
  BY DEF NobodyToAsk, world
<1> QED BY <1>1, <1>2, EndedSound, OneCall DEF IInv, TypeOK

(* asking a provider, which was not asked before, *)
LEMMA AskInv ==
  ASSUME IInv, NEW c \in Callers, NEW p \in Providers, Ask(c, p)
  PROVE  IInv'
<1> DEFINE x == call[c]
<1>1. PICK o \in Reply(p, x.method) :
        /\ call' = [call EXCEPT ![c].reply[p] = o, ![c].queue = @ \ {p}]
        /\ limited' = IF o = "rate limited" THEN limited \cup {p} ELSE limited
  BY DEF Ask
<1> DEFINE r == [x EXCEPT !.reply[p] = o, !.queue = @ \ {p}]
<1>2. x \in CallType /\ CallSound(x) /\ InOrder(x) /\ x.phase = "busy" /\ MayAsk(c, p)
  BY DEF IInv, TypeOK, Ask
<1>3. call' = [call EXCEPT ![c] = r]
  BY <1>1
<1>4. /\ o \in Outcomes /\ o # None
      /\ o \in {"answered", "absent"} =>
           (o = "answered" <=> (x.method = "getblockchaininfo" \/ p \in holds))
      /\ o = "rate limited" => p \in Http
  <2>1. x.method \in Methods
    BY <1>2 DEF CallType
  <2>2. TypeOK
    BY DEF IInv
  <2> QED BY <2>1, <2>2, ReplyHonest, DistinctAssumption DEF Outcomes
<1>5. r \in CallType
  BY <1>2, <1>4 DEF CallType
<1>6. /\ r.phase = "busy" /\ r.method = x.method /\ r.avoid = x.avoid /\ r.race = x.race
      /\ r.open = x.open /\ r.order = x.order /\ r.heard = x.heard /\ r.result = x.result
      /\ r.queue = x.queue \ {p} /\ r.reply = [x.reply EXCEPT ![p] = o]
  BY <1>2 DEF CallType
<1>7. /\ \A q \in Providers : r.reply[q] = IF q = p THEN o ELSE x.reply[q]
      /\ p \in x.queue /\ x.reply[p] = None
      /\ x.queue \subseteq Providers /\ x.heard \subseteq Providers /\ x.open \subseteq Providers
      /\ x.method \in Methods /\ x.result \in Results
  BY <1>2, <1>6 DEF CallType, MayAsk, CallSound
<1> HIDE DEF r
<1>8. Asked(r) = Asked(x) \cup {p}
  BY <1>4, <1>7 DEF Asked
<1>9. CallSound(r)
  <2>1. p \notin x.heard
    BY <1>2, <1>7 DEF CallSound, Asked
  <2>2. \A q \in r.queue : /\ r.reply[q] = None /\ q \notin r.avoid
                           /\ q \in Light => r.method = "getblockchaininfo"
    BY <1>2, <1>6, <1>7 DEF CallSound
  <2>3. r.heard \subseteq Asked(r)
    BY <1>2, <1>6, <1>8 DEF CallSound
  <2>4. r.result # None => r.race /\ r.result \in Providers /\ r.reply[r.result] = "answered"
    BY <1>2, <1>6, <1>7, DistinctAssumption DEF CallSound
  <2>5. \A q \in r.heard : r.reply[q] = "answered" => r.result # None
    BY <1>2, <1>6, <1>7, <2>1 DEF CallSound
  <2>6. \A q \in Providers : r.reply[q] = "absent" => r.method = "getrawtransaction"
    BY <1>2, <1>4, <1>6, <1>7 DEF CallSound, Methods
  <2> QED BY <1>2, <1>6, <2>2, <2>3, <2>4, <2>5, <2>6 DEF CallSound
<1>10. InOrder(r)
  <2> SUFFICES ASSUME ~x.race PROVE InOrder(r)
    BY <1>6 DEF InOrder
  <2>1. /\ \A q \in x.queue \ {p} : <<p, q>> \in x.order
        /\ Asked(x) \ x.heard = {}
    BY <1>2 DEF MayAsk, Outstanding, Asked
  <2>2. /\ x.open \subseteq Light /\ x.open \subseteq x.queue \cup Asked(x)
        /\ \A q \in Asked(x) \ Light : x.open \cap x.queue = {}
        /\ \A q \in x.queue \ Light, s \in x.open : <<q, s>> \notin x.order
    BY <1>2 DEF InOrder
  <2>3. ASSUME NEW q \in Asked(r) \ Light PROVE r.open \cap r.queue = {}
    <3>1. CASE q = p
      BY <1>6, <1>7, <2>1, <2>2, <2>3, <3>1
    <3>2. CASE q # p
      BY <1>6, <1>8, <2>2, <2>3, <3>2
    <3> QED BY <3>1, <3>2
  <2> QED BY <1>6, <1>8, <2>1, <2>2, <2>3 DEF InOrder
<1>11. UNCHANGED <<failures, blocked, wrong, ready, up, holds, race_tip, moves>>
  BY DEF Ask, world
<1>12. limited' \subseteq Http /\ rejected' \subseteq Http \cap wrong
  BY <1>1, <1>4 DEF Ask, IInv, TypeOK
<1> QED BY <1>3, <1>5, <1>9, <1>10, <1>11, <1>12, OneCall DEF IInv, TypeOK

(* Reporting an outcome changes the health of one provider and ends the call *)
(* or adds to what it has heard.                                             *)
LEMMA HealthTypes ==
  ASSUME TypeOK, NEW p \in Providers, Succeeded(p) \/ Cooled(p) \/ Failed(p)
  PROVE  failures' \in [Providers -> 0..Breaker] /\ blocked' \subseteq Providers
<1>1. Breaker \in Nat /\ failures \in [Providers -> 0..Breaker] /\ blocked \subseteq Providers
  BY RouterAssumption DEF TypeOK
<1>2. CASE Succeeded(p) BY <1>1, <1>2 DEF Succeeded
<1>3. CASE Cooled(p) BY <1>1, <1>3 DEF Cooled
<1>4. CASE Failed(p) BY <1>1, <1>4 DEF Failed
<1> QED BY <1>2, <1>3, <1>4

(* What Report(c, p) computes. *)
Heard(c, p) == call[c].heard \cup {p}
AllHeard(c, p) == call[c].queue = {} /\ Outstanding(c) = {p}
Answer(c, p) ==
  IF call[c].result # None THEN call[c].result
  ELSE IF call[c].reply[p] = "answered" THEN p
  ELSE IF AllHeard(c, p) THEN Verdict(c, Heard(c, p)) ELSE None
Over(c, p) == AllHeard(c, p) \/ (~call[c].race /\ Answer(c, p) # None)

(* Report(c, p) in these terms, with what is known when it happens. *)
LEMMA ReportForm ==
  ASSUME IInv, NEW c \in Callers, NEW p \in Providers, Report(c, p)
  PROVE  /\ call[c] \in CallType /\ CallSound(call[c]) /\ InOrder(call[c])
         /\ call[c].phase = "busy" /\ p \in Asked(call[c]) \ call[c].heard
         /\ call[c].reply[p] \in Outcomes
         /\ Succeeded(p) \/ Cooled(p) \/ Failed(p)
         /\ UNCHANGED <<rejected, limited, wrong, ready, up, holds, race_tip, moves>>
         /\ Answer(c, p) \in Results /\ (Over(c, p) => Answer(c, p) # None)
         /\ call' = [call EXCEPT ![c] =
              IF Over(c, p) THEN Ended(Answer(c, p))
              ELSE [call[c] EXCEPT !.heard = Heard(c, p), !.result = Answer(c, p)]]
<1>1. call[c] \in CallType /\ CallSound(call[c]) /\ InOrder(call[c])
  BY DEF IInv, TypeOK
<1>2. call[c].phase = "busy" /\ p \in Outstanding(c)
  BY DEF Report
<1>3. p \in Asked(call[c]) \ call[c].heard
  BY <1>2 DEF Outstanding, Asked
<1>4. call[c].reply[p] \in Outcomes
  BY <1>1, <1>3 DEF CallType, Asked
<1>5. Succeeded(p) \/ Cooled(p) \/ Failed(p)
  BY <1>4 DEF Report, Outcomes
<1>6. UNCHANGED <<rejected, limited, wrong, ready, up, holds, race_tip, moves>>
  BY DEF Report, world
<1>7. Answer(c, p) \in Results /\ (Over(c, p) => Answer(c, p) # None)
  BY <1>1, DistinctAssumption DEF Answer, Over, Verdict, CallType, Results
<1>8. call' = [call EXCEPT ![c] =
              IF Over(c, p) THEN Ended(Answer(c, p))
              ELSE [call[c] EXCEPT !.heard = Heard(c, p), !.result = Answer(c, p)]]
  BY DEF Report, Over, Answer, AllHeard, Heard
<1> QED BY <1>1, <1>2, <1>3, <1>4, <1>5, <1>6, <1>7, <1>8

(* and reporting what it said. *)
LEMMA ReportInv ==
  ASSUME IInv, NEW c \in Callers, NEW p \in Providers, Report(c, p)
  PROVE  IInv'
<1> DEFINE x == call[c]
           a == Answer(c, p)
           r == IF Over(c, p) THEN Ended(a) ELSE [x EXCEPT !.heard = Heard(c, p), !.result = a]
<1>1. /\ x \in CallType /\ CallSound(x) /\ InOrder(x) /\ x.phase = "busy"
      /\ p \in Asked(x) \ x.heard /\ x.reply[p] \in Outcomes
      /\ Succeeded(p) \/ Cooled(p) \/ Failed(p)
      /\ a \in Results /\ (Over(c, p) => a # None) /\ call' = [call EXCEPT ![c] = r]
      /\ UNCHANGED <<rejected, limited, wrong, ready, up, holds, race_tip, moves>>
  BY ReportForm
<1>2. r \in CallType /\ CallSound(r) /\ InOrder(r)
  <2>1. CASE Over(c, p)
    BY <1>1, <2>1, EndedSound
  <2>2. CASE ~Over(c, p)
    <3> DEFINE n == [x EXCEPT !.heard = Heard(c, p), !.result = a]
    <3>1. /\ n.phase = "busy" /\ n.method = x.method /\ n.avoid = x.avoid /\ n.race = x.race
          /\ n.open = x.open /\ n.order = x.order /\ n.queue = x.queue /\ n.reply = x.reply
          /\ n.heard = x.heard \cup {p} /\ n.result = a
      BY <1>1 DEF CallType, Heard
    <3>2. n \in CallType
      BY <1>1 DEF CallType, Heard
    <3> HIDE DEF n
    <3>3. Asked(n) = Asked(x)
      BY <3>1 DEF Asked
    <3>4. /\ ~AllHeard(c, p)
          /\ a # None => x.race
          /\ x.result # None => a = x.result
          /\ x.result = None /\ x.reply[p] = "answered" => a = p
          /\ x.result = None /\ x.reply[p] # "answered" => a = None
      BY <2>2 DEF Over, Answer
    <3>5. a # None => n.race /\ a \in Providers /\ n.reply[a] = "answered"
      BY <1>1, <3>1, <3>4 DEF CallSound
    <3>6. \A q \in n.heard : n.reply[q] = "answered" => a # None
      BY <1>1, <3>1, <3>4, DistinctAssumption DEF CallSound
    <3>7. CallSound(n)
      BY <1>1, <3>1, <3>3, <3>5, <3>6 DEF CallSound
    <3>8. InOrder(n)
      BY <1>1, <3>1, <3>3 DEF InOrder
    <3>9. r = n
      BY <2>2 DEF n
    <3> QED BY <3>2, <3>7, <3>8, <3>9
  <2> QED BY <2>1, <2>2
<1> HIDE DEF r
<1>3. failures' \in [Providers -> 0..Breaker] /\ blocked' \subseteq Providers
  BY <1>1, HealthTypes DEF IInv
<1> QED BY <1>1, <1>2, <1>3, OneCall DEF IInv, TypeOK

(* The clock and the servers leave the calls alone. *)
LEMMA WorldInv ==
  ASSUME IInv, NEW p \in Providers, BlockEnds(p) \/ LimitEnds(p) \/ Synced(p) \/ Flip(p)
  PROVE  IInv'
<1>1. UNCHANGED call
  BY DEF BlockEnds, LimitEnds, Synced, Flip
<1>2. TypeOK'
  <2>1. CASE BlockEnds(p) BY <2>1 DEF IInv, TypeOK, BlockEnds, world
  <2>2. CASE LimitEnds(p) BY <2>2 DEF IInv, TypeOK, LimitEnds, world
  <2>3. CASE Synced(p) BY <2>3 DEF IInv, TypeOK, Synced
  <2>4. CASE Flip(p)
    <3>1. moves' \in 0..MaxMoves
      BY <2>4, RouterAssumption DEF IInv, TypeOK, Flip
    <3> QED BY <2>4, <3>1 DEF IInv, TypeOK, Flip
  <2> QED BY <2>1, <2>2, <2>3, <2>4
<1> QED BY <1>1, <1>2 DEF IInv

(* Every step keeps the invariant. *)
LEMMA NextInv == IInv /\ [Next]_vars => IInv'
<1> SUFFICES ASSUME IInv, [Next]_vars PROVE IInv'
  OBVIOUS
<1>1. CASE UNCHANGED vars
  BY <1>1 DEF vars, IInv, TypeOK
<1>2. ASSUME NEW c \in Callers, NEW r \in Requests[c], Start(c, r.method, r.preferred, r.avoid)
      PROVE  IInv'
  BY <1>2, StartInv
<1>3. ASSUME NEW c \in Callers, NEW p \in Providers, Ask(c, p) \/ Report(c, p) PROVE IInv'
  BY <1>3, AskInv, ReportInv
<1>4. ASSUME NEW c \in Callers, NobodyToAsk(c) PROVE IInv'
  BY <1>4, NobodyInv
<1>5. ASSUME NEW p \in Providers, BlockEnds(p) \/ LimitEnds(p) \/ Synced(p) \/ Flip(p)
      PROVE  IInv'
  BY <1>5, WorldInv
<1> QED BY <1>1, <1>2, <1>3, <1>4, <1>5 DEF Next

(* The invariant holds of every reachable state: a call asks nobody twice   *)
(* and nobody it was told to avoid, and a result is only kept while racing  *)
(* (Router::answer_from, race).                                             *)
THEOREM Invariant == Spec => []IInv
  BY InitInv, NextInv, PTL DEF Spec

-----------------------------------------------------------------------------
(* The promise *)

(* The samples of Lookup, of one call. *)
Samples(r) ==
  {<<p, r.reply[p] = "answered">> : p \in {q \in Providers : r.reply[q] \in {"answered", "absent"}}}

(* A result the router gives is one that Lookup allows. *)
LEMMA AnswerJustified ==
  ASSUME IInv, NEW c \in Callers, NEW p \in Providers, Report(c, p), Over(c, p)
  PROVE  \/ /\ Answer(c, p) \in Providers
            /\ <<Answer(c, p), TRUE>> \in Samples(call[c])
         \/ /\ Answer(c, p) = "missing" /\ Samples(call[c]) # {}
            /\ \A s \in Samples(call[c]) : ~s[2]
         \/ Answer(c, p) = "unavailable" /\ Samples(call[c]) = {}
<1> DEFINE x == call[c]
           a == Answer(c, p)
<1>1. /\ x \in CallType /\ CallSound(x) /\ x.phase = "busy" /\ a # None
      /\ p \in Asked(x) \ x.heard
  BY ReportForm
<1>2. ASSUME NEW q \in Providers, x.reply[q] = "answered"
      PROVE  <<q, TRUE>> \in Samples(x)
  BY <1>2 DEF Samples
<1>3. CASE x.result # None
  BY <1>1, <1>2, <1>3 DEF Answer, CallSound
<1>4. CASE x.result = None /\ x.reply[p] = "answered"
  BY <1>2, <1>4 DEF Answer
<1>5. CASE x.result = None /\ x.reply[p] # "answered"
  <2>1. AllHeard(c, p) /\ a = Verdict(c, Heard(c, p))
    BY <1>1, <1>5 DEF Answer
  <2>2. Asked(x) = Heard(c, p)
    BY <1>1, <2>1 DEF AllHeard, Heard, Outstanding, Asked, CallSound
  <2>3. \A q \in Asked(x) : x.reply[q] # "answered"
    BY <1>1, <1>5, <2>2 DEF Heard, CallSound
  <2>4. \A q \in Providers : x.reply[q] \in {"answered", "absent"} => q \in Asked(x)
    BY DistinctAssumption DEF Asked
  <2>5. \A q \in Providers : x.reply[q] # "answered"
    BY <2>3, <2>4
  <2>6. CASE ~x.race /\ \E q \in Heard(c, p) : x.reply[q] = "absent"
    <3>1. a = "missing"
      BY <2>1, <2>6 DEF Verdict
    <3>2. ASSUME NEW s \in Samples(x) PROVE ~s[2]
      <4>1. PICK q \in Providers : s = <<q, x.reply[q] = "answered">>
        BY DEF Samples
      <4>2. s[2] <=> x.reply[q] = "answered"
        BY <4>1
      <4> QED BY <2>5, <4>2
    <3>3. PICK q \in Heard(c, p) : x.reply[q] = "absent"
      BY <2>6
    <3>4. q \in Providers
      BY <2>2 DEF Asked
    <3>5. <<q, x.reply[q] = "answered">> \in Samples(x)
      BY <3>3, <3>4 DEF Samples
    <3> QED BY <3>1, <3>2, <3>5
  <2>7. CASE ~(~x.race /\ \E q \in Heard(c, p) : x.reply[q] = "absent")
    <3>1. a = "unavailable"
      BY <2>1, <2>7 DEF Verdict
    <3>2. ASSUME NEW q \in Providers, x.reply[q] = "absent" PROVE FALSE
      <4>1. q \in Heard(c, p)
        BY <2>2, <2>4, <3>2
      <4>2. x.race
        BY <2>7, <3>2, <4>1
      <4> QED BY <1>1, <3>2, <4>2 DEF CallSound
    <3>3. Samples(x) = {}
      BY <2>5, <3>2 DEF Samples
    <3> QED BY <3>1, <3>3
  <2> QED BY <2>6, <2>7
<1> QED BY <1>3, <1>4, <1>5

(* The initial states are initial states of Lookup. *)
LEMMA InitPromise == Init => Promise!Init
<1> SUFFICES ASSUME Init PROVE Promise!Init
  OBVIOUS
<1>1. \A c \in Callers : call[c] = Idle
  BY DEF Init
<1>2. \A c \in Callers : /\ call[c].phase = "idle" /\ call[c].method = "getblockchaininfo"
                         /\ call[c].avoid = {} /\ call[c].result = None
                         /\ call[c].reply = NoReplies
  BY <1>1 DEF Idle
<1>3. \A c \in Callers : Samples(call[c]) = {}
  BY <1>2, DistinctAssumption DEF Samples, NoReplies
<1>4. wrong \in SUBSET Providers /\ holds \in SUBSET Providers
  BY RouterAssumption DEF Init
<1> QED BY <1>2, <1>3, <1>4 DEF Promise!Init, Promise!NoRequest, Samples

(* The variables of Lookup under the mapping. *)
BarPhase == [c \in Callers |-> call[c].phase]
BarRequest == [c \in Callers |-> [method |-> call[c].method, avoid |-> call[c].avoid]]
BarSamples == [c \in Callers |-> Samples(call[c])]
BarResult == [c \in Callers |-> IF call[c].phase = "busy" THEN None ELSE call[c].result]

(* What one call's change does to them. *)
LEMMA BarOne ==
  ASSUME NEW c \in Callers, NEW r, \A d \in Callers : call'[d] = IF d = c THEN r ELSE call[d]
  PROVE  /\ BarPhase' = [BarPhase EXCEPT ![c] = r.phase]
         /\ BarRequest' = [BarRequest EXCEPT ![c] = [method |-> r.method, avoid |-> r.avoid]]
         /\ BarSamples' = [BarSamples EXCEPT ![c] = Samples(r)]
         /\ BarResult' = [BarResult EXCEPT ![c] = IF r.phase = "busy" THEN None ELSE r.result]
<1>1. BarPhase' = [BarPhase EXCEPT ![c] = r.phase]
  BY DEF BarPhase
<1>2. BarRequest' = [BarRequest EXCEPT ![c] = [method |-> r.method, avoid |-> r.avoid]]
  BY DEF BarRequest
<1>3. BarSamples' = [BarSamples EXCEPT ![c] = Samples(r)]
  <2>1. BarSamples' = [d \in Callers |-> Samples(call'[d])]
    BY DEF BarSamples, Samples
  <2> QED BY <2>1 DEF BarSamples
<1>4. BarResult' = [BarResult EXCEPT ![c] = IF r.phase = "busy" THEN None ELSE r.result]
  BY DEF BarResult
<1> QED BY <1>1, <1>2, <1>3, <1>4

(* The same, for the form the actions have. *)
LEMMA BarCall ==
  ASSUME IInv, NEW c \in Callers, NEW r \in CallType, call' = [call EXCEPT ![c] = r]
  PROVE  /\ BarPhase' = [BarPhase EXCEPT ![c] = r.phase]
         /\ BarRequest' = [BarRequest EXCEPT ![c] = [method |-> r.method, avoid |-> r.avoid]]
         /\ BarSamples' = [BarSamples EXCEPT ![c] = Samples(r)]
         /\ BarResult' = [BarResult EXCEPT ![c] = IF r.phase = "busy" THEN None ELSE r.result]
<1>1. \A d \in Callers : call'[d] = IF d = c THEN r ELSE call[d]
  BY DEF IInv, TypeOK
<1> QED BY <1>1, BarOne

(* Start is a start of Lookup. *)
LEMMA StartPromise ==
  ASSUME IInv, NEW c \in Callers, NEW q \in Requests[c], Start(c, q.method, q.preferred, q.avoid)
  PROVE  Promise!Start(c)
<1>1. PICK r \in CallType :
        /\ call' = [call EXCEPT ![c] = r]
        /\ r.phase = "busy" /\ r.method = q.method /\ r.avoid = q.avoid
        /\ r.reply = NoReplies
  BY StartForm
<1>2. q.method \in Promise!Methods /\ q.avoid \in SUBSET Providers
  BY RouterAssumption DEF Promise!Methods
<1>3. call[c].phase = "idle" /\ call[c].reply = NoReplies
  BY DEF Start, IInv, CallSound
<1>4. Samples(r) = Samples(call[c])
  BY <1>1, <1>3 DEF Samples
<1>5. UNCHANGED <<wrong, holds>>
  BY DEF Start, world
<1>6. BarPhase[c] = "idle" /\ BarSamples[c] = Samples(call[c])
  BY <1>3 DEF BarPhase, BarSamples
<1>7. /\ BarPhase' = [BarPhase EXCEPT ![c] = r.phase]
      /\ BarRequest' = [BarRequest EXCEPT ![c] = [method |-> r.method, avoid |-> r.avoid]]
      /\ BarSamples' = [BarSamples EXCEPT ![c] = Samples(r)]
      /\ BarResult' = [BarResult EXCEPT ![c] = IF r.phase = "busy" THEN None ELSE r.result]
  BY <1>1, BarCall
<1>8. BarSamples' = BarSamples
  BY <1>4, <1>6, <1>7 DEF BarSamples
<1>9. /\ BarPhase' = [BarPhase EXCEPT ![c] = "busy"]
      /\ BarRequest' = [BarRequest EXCEPT ![c] = [method |-> q.method, avoid |-> q.avoid]]
      /\ BarResult' = [BarResult EXCEPT ![c] = None]
  BY <1>1, <1>7
<1> QED BY <1>2, <1>5, <1>6, <1>8, <1>9
        DEF Promise!Start, BarPhase, BarRequest, BarResult, BarSamples, Samples

(* Ending a call with a justified result is a step of Lookup. *)
LEMMA EndPromise ==
  ASSUME IInv, NEW c \in Callers, NEW a \in Results \ {None}, call[c].phase = "busy",
         call' = [call EXCEPT ![c] = Ended(a)], UNCHANGED <<wrong, holds>>,
         \/ a \in Providers /\ <<a, TRUE>> \in Samples(call[c])
         \/ /\ a = "missing"
            /\ \A s \in Samples(call[c]) : ~s[2]
            /\ Samples(call[c]) # {} \/ \A p \in Providers \ Light : p \in call[c].avoid
         \/ a = "unavailable" /\ Samples(call[c]) = {}
  PROVE  Promise!Finish(c)
<1>1. /\ Ended(a) \in CallType
      /\ Ended(a).phase = "idle" /\ Ended(a).result = a /\ Ended(a).reply = NoReplies
      /\ Ended(a).method = "getblockchaininfo" /\ Ended(a).avoid = {}
  BY EndedSound
<1>2. Samples(Ended(a)) = {}
  BY <1>1, DistinctAssumption DEF Samples, NoReplies
<1> DEFINE e == Ended(a)
<1> HIDE DEF e
<1>3. /\ BarPhase' = [BarPhase EXCEPT ![c] = e.phase]
      /\ BarRequest' = [BarRequest EXCEPT ![c] = [method |-> e.method, avoid |-> e.avoid]]
      /\ BarSamples' = [BarSamples EXCEPT ![c] = Samples(e)]
      /\ BarResult' = [BarResult EXCEPT ![c] = IF e.phase = "busy" THEN None ELSE e.result]
  BY <1>1, BarCall DEF e
<1>4. /\ BarPhase' = [BarPhase EXCEPT ![c] = "idle"]
      /\ BarRequest' = [BarRequest EXCEPT ![c] = Promise!NoRequest]
      /\ BarSamples' = [BarSamples EXCEPT ![c] = {}]
      /\ BarResult' = [BarResult EXCEPT ![c] = a]
  BY <1>1, <1>2, <1>3, DistinctAssumption DEF Promise!NoRequest, e
<1>5. /\ BarPhase[c] = "busy" /\ BarSamples[c] = Samples(call[c])
      /\ BarRequest[c].avoid = call[c].avoid
  BY DEF BarPhase, BarSamples, BarRequest
<1>6. Promise!Justified(c, a)
  BY <1>5 DEF Promise!Justified, BarSamples, BarRequest, Samples
<1>7. a \in Promise!Results \ {None}
  BY DEF Promise!Results, Results
<1> QED BY <1>4, <1>5, <1>6, <1>7
        DEF Promise!Finish, BarPhase, BarRequest, BarResult, BarSamples, Samples

(* A call with nobody to ask ends as Lookup allows. *)
LEMMA NobodyPromise ==
  ASSUME IInv, NEW c \in Callers, NobodyToAsk(c)
  PROVE  Promise!Finish(c)
<1> DEFINE refused == call[c].avoid # {} /\
             \A p \in Providers : Supports(p, call[c].method) => p \in call[c].avoid
           a == IF refused THEN "missing" ELSE "unavailable"
<1>1. /\ call[c].phase = "busy" /\ call[c].reply = NoReplies
      /\ call' = [call EXCEPT ![c] = Ended(a)] /\ UNCHANGED <<wrong, holds>>
  BY DEF NobodyToAsk, world
<1>2. Samples(call[c]) = {}
  BY <1>1, DistinctAssumption DEF Samples, NoReplies
<1>3. refused => \A p \in Providers \ Light : p \in call[c].avoid
  BY DEF Supports
<1>4. a \in Results \ {None}
  BY DistinctAssumption DEF Results
<1>5. /\ a = "missing" => \A p \in Providers \ Light : p \in call[c].avoid
      /\ a = "missing" \/ a = "unavailable"
  BY <1>3
<1> HIDE DEF a
<1> QED BY <1>1, <1>2, <1>4, <1>5, EndPromise

(* An answer or a denial is a sample; a failed attempt is none. *)
LEMMA AskPromise ==
  ASSUME IInv, NEW c \in Callers, NEW p \in Providers, Ask(c, p)
  PROVE  Promise!Sample(c, p) \/ UNCHANGED Promise!vars
<1> DEFINE x == call[c]
<1>1. PICK o \in Reply(p, x.method) :
        call' = [call EXCEPT ![c].reply[p] = o, ![c].queue = @ \ {p}]
  BY DEF Ask
<1> DEFINE r == [x EXCEPT !.reply[p] = o, !.queue = @ \ {p}]
<1>2. x \in CallType /\ CallSound(x) /\ x.phase = "busy" /\ p \in x.queue
  BY DEF IInv, TypeOK, Ask, MayAsk
<1>3. /\ o \in Outcomes
      /\ o \in {"answered", "absent"} =>
           /\ p \notin wrong
           /\ o = "answered" <=> (x.method = "getblockchaininfo" \/ p \in holds)
  <2>1. x.method \in Methods /\ TypeOK
    BY <1>2 DEF CallType, IInv
  <2> QED BY <2>1, ReplyHonest
<1>4. call' = [call EXCEPT ![c] = r]
  BY <1>1
<1>5. /\ r \in CallType /\ r.phase = "busy" /\ r.method = x.method /\ r.avoid = x.avoid
      /\ \A q \in Providers : r.reply[q] = IF q = p THEN o ELSE x.reply[q]
  BY <1>2, <1>3 DEF CallType
<1>6. /\ x.reply[p] = None /\ p \notin x.avoid /\ (p \in Light => x.method = "getblockchaininfo")
  BY <1>2 DEF CallSound
<1> HIDE DEF r
<1>7. UNCHANGED <<wrong, holds>>
  BY DEF Ask, world
<1>8. /\ BarPhase' = [BarPhase EXCEPT ![c] = r.phase]
      /\ BarRequest' = [BarRequest EXCEPT ![c] = [method |-> r.method, avoid |-> r.avoid]]
      /\ BarSamples' = [BarSamples EXCEPT ![c] = Samples(r)]
      /\ BarResult' = [BarResult EXCEPT ![c] = IF r.phase = "busy" THEN None ELSE r.result]
  BY <1>4, <1>5, BarCall
<1>9. /\ BarPhase' = [BarPhase EXCEPT ![c] = "busy"]
      /\ BarRequest' = [BarRequest EXCEPT ![c] = [method |-> x.method, avoid |-> x.avoid]]
      /\ BarSamples' = [BarSamples EXCEPT ![c] = Samples(r)]
      /\ BarResult' = [BarResult EXCEPT ![c] = None]
  BY <1>5, <1>8
<1>10. /\ BarPhase[c] = "busy" /\ BarResult[c] = None /\ BarSamples[c] = Samples(x)
      /\ BarRequest[c] = [method |-> x.method, avoid |-> x.avoid]
  BY <1>2 DEF BarPhase, BarResult, BarRequest, BarSamples
<1>11. UNCHANGED <<BarPhase, BarRequest, BarResult>>
  BY <1>9, <1>10 DEF BarPhase, BarRequest, BarResult
<1>12. CASE o \in {"answered", "absent"}
  <2>1. Samples(r) = Samples(x) \cup {<<p, o = "answered">>}
    <3>1. ASSUME NEW s \in Samples(r) PROVE s \in Samples(x) \cup {<<p, o = "answered">>}
      <4>1. PICK q \in Providers : /\ r.reply[q] \in {"answered", "absent"}
                                   /\ s = <<q, r.reply[q] = "answered">>
        BY DEF Samples
      <4>2. CASE q = p
        BY <1>5, <4>1, <4>2
      <4>3. CASE q # p
        <5>1. r.reply[q] = x.reply[q]
          BY <1>5, <4>3
        <5>2. <<q, x.reply[q] = "answered">> \in Samples(x)
          BY <4>1, <5>1 DEF Samples
        <5> QED BY <4>1, <5>1, <5>2
      <4> QED BY <4>2, <4>3
    <3>2. ASSUME NEW s \in Samples(x) PROVE s \in Samples(r)
      <4>1. PICK q \in Providers : /\ x.reply[q] \in {"answered", "absent"}
                                   /\ s = <<q, x.reply[q] = "answered">>
        BY DEF Samples
      <4>2. q # p
        BY <1>6, <4>1, DistinctAssumption
      <4>3. r.reply[q] = x.reply[q]
        BY <1>5, <4>2
      <4>4. <<q, r.reply[q] = "answered">> \in Samples(r)
        BY <4>1, <4>3 DEF Samples
      <4> QED BY <4>1, <4>3, <4>4
    <3>3. <<p, o = "answered">> \in Samples(r)
      <4>1. r.reply[p] = o
        BY <1>5
      <4>2. <<p, r.reply[p] = "answered">> \in Samples(r)
        BY <1>12, <4>1 DEF Samples
      <4> QED BY <4>1, <4>2
    <3> QED BY <3>1, <3>2, <3>3
  <2>2. ASSUME NEW s \in Samples(x) PROVE s[1] # p
    <3>1. PICK q \in Providers : /\ x.reply[q] \in {"answered", "absent"}
                                 /\ s = <<q, x.reply[q] = "answered">>
      BY DEF Samples
    <3>2. s[1] = q /\ q # p
      BY <1>6, <3>1, DistinctAssumption
    <3> QED BY <3>2
  <2>3. (o = "answered") = Promise!Has(p, x.method)
    BY <1>3, <1>12 DEF Promise!Has
  <2>4. BarSamples' = [BarSamples EXCEPT ![c] = @ \cup {<<p, Promise!Has(p, x.method)>>}]
    BY <1>9, <1>10, <2>1, <2>3
  <2>5. Promise!Sample(c, p)
    BY <1>3, <1>6, <1>7, <1>10, <1>11, <1>12, <2>2, <2>4
       DEF Promise!Sample, BarPhase, BarRequest, BarResult, BarSamples, Samples
  <2> QED BY <2>5
<1>13. CASE o \notin {"answered", "absent"}
  <2> DEFINE S(y) == {q \in Providers : y.reply[q] \in {"answered", "absent"}}
  <2>1. S(r) = S(x) /\ p \notin S(x)
    BY <1>5, <1>6, <1>13, DistinctAssumption
  <2>2. \A q \in S(x) : r.reply[q] = x.reply[q]
    BY <1>5, <2>1
  <2>3. Samples(r) = Samples(x)
    BY <2>1, <2>2, Zenon DEF Samples
  <2>4. UNCHANGED BarSamples
    BY <1>9, <1>10, <2>3 DEF BarSamples
  <2> QED BY <1>7, <1>11, <2>4
          DEF Promise!vars, BarPhase, BarRequest, BarResult, BarSamples, Samples
<1> QED BY <1>12, <1>13

(* The last report ends the call, an earlier one is not seen by Lookup. *)
LEMMA ReportPromise ==
  ASSUME IInv, NEW c \in Callers, NEW p \in Providers, Report(c, p)
  PROVE  Promise!Finish(c) \/ UNCHANGED Promise!vars
<1> DEFINE x == call[c]
           a == Answer(c, p)
           n == [x EXCEPT !.heard = Heard(c, p), !.result = a]
<1>1. /\ x \in CallType /\ x.phase = "busy" /\ p \in Asked(x) /\ UNCHANGED <<wrong, holds>>
      /\ a \in Results /\ (Over(c, p) => a # None)
      /\ call' = [call EXCEPT ![c] = IF Over(c, p) THEN Ended(a) ELSE n]
  BY ReportForm
<1>2. CASE Over(c, p)
  BY <1>1, <1>2, AnswerJustified, EndPromise
<1>3. CASE ~Over(c, p)
  <2>1. /\ n \in CallType /\ n.phase = "busy" /\ n.method = x.method /\ n.avoid = x.avoid
        /\ n.reply = x.reply
    BY <1>1 DEF CallType, Heard, Asked
  <2> HIDE DEF n
  <2>2. call' = [call EXCEPT ![c] = n]
    BY <1>1, <1>3
  <2>3. Samples(n) = Samples(x)
    BY <2>1 DEF Samples
  <2>4. /\ BarPhase' = [BarPhase EXCEPT ![c] = n.phase]
        /\ BarRequest' = [BarRequest EXCEPT ![c] = [method |-> n.method, avoid |-> n.avoid]]
        /\ BarSamples' = [BarSamples EXCEPT ![c] = Samples(n)]
        /\ BarResult' = [BarResult EXCEPT ![c] = IF n.phase = "busy" THEN None ELSE n.result]
    BY <2>1, <2>2, BarCall
  <2>5. /\ BarPhase' = [BarPhase EXCEPT ![c] = "busy"]
        /\ BarRequest' = [BarRequest EXCEPT ![c] = [method |-> x.method, avoid |-> x.avoid]]
        /\ BarSamples' = [BarSamples EXCEPT ![c] = Samples(x)]
        /\ BarResult' = [BarResult EXCEPT ![c] = None]
    BY <2>1, <2>3, <2>4
  <2>6. /\ BarPhase[c] = "busy" /\ BarResult[c] = None /\ BarSamples[c] = Samples(x)
        /\ BarRequest[c] = [method |-> x.method, avoid |-> x.avoid]
    BY <1>1 DEF BarPhase, BarResult, BarRequest, BarSamples
  <2>7. UNCHANGED <<BarPhase, BarRequest, BarResult, BarSamples>>
    <3>1. UNCHANGED BarPhase BY <2>5, <2>6 DEF BarPhase
    <3>2. UNCHANGED BarRequest BY <2>5, <2>6 DEF BarRequest
    <3>3. UNCHANGED BarResult BY <2>5, <2>6 DEF BarResult
    <3>4. UNCHANGED BarSamples BY <2>5, <2>6 DEF BarSamples
    <3> QED BY <3>1, <3>2, <3>3, <3>4
  <2> QED BY <1>1, <2>7
          DEF Promise!vars, BarPhase, BarRequest, BarResult, BarSamples, Samples
<1> QED BY <1>2, <1>3

(* Every step of the router is a step of Lookup or leaves it where it is. *)
LEMMA StepPromise == IInv /\ [Next]_vars => [Promise!Next]_(Promise!vars)
<1> SUFFICES ASSUME IInv, [Next]_vars PROVE Promise!Next \/ UNCHANGED Promise!vars
  OBVIOUS
<1>1. CASE UNCHANGED vars
  BY <1>1 DEF vars, Promise!vars
<1>2. ASSUME NEW c \in Callers, NEW q \in Requests[c], Start(c, q.method, q.preferred, q.avoid)
      PROVE  Promise!Next
  BY <1>2, StartPromise DEF Promise!Next
<1>3. ASSUME NEW c \in Callers, NEW p \in Providers, Ask(c, p) \/ Report(c, p)
      PROVE  Promise!Next \/ UNCHANGED Promise!vars
  BY <1>3, AskPromise, ReportPromise DEF Promise!Next
<1>4. ASSUME NEW c \in Callers, NobodyToAsk(c) PROVE Promise!Next
  BY <1>4, NobodyPromise DEF Promise!Next
<1>5. ASSUME NEW p \in Providers, BlockEnds(p) \/ LimitEnds(p) \/ Synced(p) PROVE UNCHANGED Promise!vars
  BY <1>5 DEF BlockEnds, LimitEnds, Synced, world, Promise!vars
<1>6. ASSUME NEW p \in Providers, Flip(p) PROVE Promise!Next
  <2>1. holds' \in SUBSET Providers /\ UNCHANGED <<wrong, call>>
    BY <1>6 DEF Flip, IInv, TypeOK
  <2> QED BY <2>1 DEF Promise!Next, Promise!Move
<1> QED BY <1>1, <1>2, <1>3, <1>4, <1>5, <1>6 DEF Next

(* The router implements the safety part of Lookup: whatever the order in   *)
(* which threads ask and report, a call answers with a provider of the      *)
(* right network that had the record, says Missing only when somebody       *)
(* lacked it and fails only when nobody spoke (Router::answer_from).        *)
THEOREM KeepsPromise == Spec => Promise!Init /\ [][Promise!Next]_(Promise!vars)
<1>1. Spec => []IInv
  BY Invariant
<1> QED BY <1>1, InitPromise, StepPromise, PTL DEF Spec

-----------------------------------------------------------------------------
(* Strongest evidence first *)

(* A plain call that ends with the answer of p, when p is no light client,   *)
(* has heard every light client that was open to it, and none had answered.  *)
LEMMA StepStrongest ==
  ASSUME IInv, [Next]_vars, NEW c \in Callers, NEW p \in Providers, NEW q \in call[c].open,
         call[c].phase = "busy", ~call[c].race,
         call'[c].phase = "idle", call'[c].result = p, Rank(q) < Rank(p)
  PROVE  q \in call[c].heard /\ call[c].reply[q] # "answered"
<1> DEFINE x == call[c]
<1>1. call \in [Callers -> CallType] /\ x \in CallType /\ CallSound(x) /\ InOrder(x)
  BY DEF IInv, TypeOK
<1>2. p \notin Light /\ q \in Light /\ q \in Providers
  BY <1>1, RouterAssumption DEF Rank, CallType
<1>3. ASSUME NEW d \in Callers, NEW r, call' = [call EXCEPT ![d] = r], d # c PROVE FALSE
  BY <1>1, <1>3
<1>4. PICK s \in Providers : Report(c, s)
  <2>1. ~UNCHANGED call
    OBVIOUS
  <2>2. ASSUME NEW d \in Callers, NEW r \in Requests[d], Start(d, r.method, r.preferred, r.avoid)
        PROVE  FALSE
    <3>1. PICK n \in CallType : call' = [call EXCEPT ![d] = n] /\ n.phase = "busy"
      BY <2>2, StartForm
    <3> QED BY <1>1, <3>1
  <2>3. ASSUME NEW d \in Callers, NobodyToAsk(d) PROVE FALSE
    <3>1. PICK r \in {"missing", "unavailable"} : call' = [call EXCEPT ![d] = Ended(r)]
      BY <2>3 DEF NobodyToAsk
    <3>2. Ended(r).result = r
      BY EndedSound DEF Results
    <3> QED BY <1>1, <3>1, <3>2, DistinctAssumption
  <2>4. ASSUME NEW d \in Callers, NEW s \in Providers, Ask(d, s) PROVE FALSE
    <3>1. PICK o : call' = [call EXCEPT ![d].reply[s] = o, ![d].queue = @ \ {s}]
      BY <2>4 DEF Ask
    <3>2. call'[c].phase = call[c].phase
      BY <1>1, <3>1 DEF CallType
    <3> QED BY <3>2
  <2>5. ASSUME NEW d \in Callers, NEW s \in Providers, Report(d, s) PROVE d = c
    BY <1>3, <2>5, ReportForm
  <2>6. ASSUME NEW s \in Providers, BlockEnds(s) \/ LimitEnds(s) \/ Synced(s) \/ Flip(s)
        PROVE  FALSE
    BY <2>1, <2>6 DEF BlockEnds, LimitEnds, Synced, Flip
  <2> QED BY <2>1, <2>2, <2>3, <2>4, <2>5, <2>6 DEF Next, vars
<1>5. /\ s \in Asked(x) \ x.heard /\ Answer(c, s) \in Results
      /\ call' = [call EXCEPT ![c] =
           IF Over(c, s) THEN Ended(Answer(c, s))
           ELSE [x EXCEPT !.heard = Heard(c, s), !.result = Answer(c, s)]]
  BY <1>4, ReportForm
<1>6. Over(c, s)
  BY <1>1, <1>5 DEF CallType
<1>7. Answer(c, s) = p
  BY <1>1, <1>5, <1>6, EndedSound
<1>8. x.result = None
  BY <1>1 DEF CallSound
<1>9. s = p
  BY <1>7, <1>8, DistinctAssumption DEF Answer, Verdict
<1>10. q \notin x.queue
  BY <1>1, <1>2, <1>5, <1>9 DEF InOrder
<1>11. q \in Asked(x) /\ q # p
  BY <1>1, <1>2, <1>10 DEF InOrder
<1>12. q \in x.heard
  BY <1>1, <1>5, <1>9, <1>11 DEF InOrder
<1> QED BY <1>1, <1>8, <1>12 DEF CallSound

(* A public report never overtakes a light client that was open when the    *)
(* call began (Router::candidates, answer_from).                            *)
THEOREM StrongestEvidence == Spec => StrongestFirst
<1>1. Spec => []IInv
  BY Invariant
<1>2. IInv /\ [Next]_vars =>
        [\A c \in Callers : \A p \in Providers : \A q \in call[c].open :
           /\ call[c].phase = "busy" /\ ~call[c].race
           /\ call'[c].phase = "idle" /\ call'[c].result = p
           /\ Rank(q) < Rank(p)
           => q \in call[c].heard /\ call[c].reply[q] # "answered"]_vars
  BY StepStrongest
<1> QED BY <1>1, <1>2, PTL DEF Spec, StrongestFirst

-----------------------------------------------------------------------------
(***************************************************************************)
(* The private archive.  Its commands publish through the same nodes and   *)
(* explorers, and read their own transactions back from them: no reveal    *)
(* goes out before its commit was in a block, and a plan reported as       *)
(* confirmed is on one chain.                                              *)
(***************************************************************************)
CONSTANTS Reveals, RecordOf, Stories, Fanfold, MaxObjects

VARIABLES story, chain, stale, mempool, reorgs, faults, journal, cmd, dir, anchored, exported

Archive == INSTANCE PrivateArchive WITH moves <- reorgs

Plain(s) == s \in Seq(Archive!ToSet(s))

(* Reveals may be public once the commit was on the chain, or by request. *)
Ground == IF anchored THEN TRUE ELSE story.allow

(* Chains only get longer. *)
Chained ==
  /\ reorgs \in Nat
  /\ Plain(chain) /\ Plain(stale) /\ Len(stale) <= Len(chain)

(* What has reached the network, the abandoned branch included. *)
Public == Archive!Mined(chain) \cup Archive!Mined(stale) \cup mempool

Shown ==
  /\ story.foreign \cap Archive!Planned = {}
  /\ Archive!Commit \in Archive!Mined(chain) \cup Archive!Mined(stale) => anchored
  /\ Public \cap Archive!Revealed # {} => Ground

(* Without that ground a command has nothing but the commit to send. *)
Sends(c) ==
  c.at \notin {"observe", "judge"} =>
     /\ c.todo \in {<<>>, <<Archive!Commit>>}
     /\ c.at \in {"look", "funding", "send"} => c.todo = <<Archive!Commit>>

Known(c) ==
  /\ c.at = "tip" => c.seen = <<>>
  /\ c.at \in {"observe", "judge"} =>
        /\ \A t \in DOMAIN c.seen : c.seen[t] \in {"confirmed", "pending", "unknown"}
        /\ Archive!Commit \in DOMAIN c.seen /\ c.seen[Archive!Commit] = "confirmed" => anchored

(* What was seen confirmed is in the blocks up to the noted tip. *)
OnTip(c) ==
  \A t \in DOMAIN c.seen : c.seen[t] = "confirmed" => t \in Archive!Mined(c.tip)

Watching(c) ==
  c.at = "observe" =>
     /\ Plain(c.tip) /\ Len(c.tip) <= Len(chain)
     /\ Plain(c.todo) /\ Archive!Planned \subseteq DOMAIN c.seen \cup Archive!ToSet(c.todo)
     /\ c.moves \in Int /\ c.moves <= reorgs
     /\ c.moves = reorgs => Archive!Hash(Len(c.tip)) = c.tip
     /\ reorgs <= c.moves + 1 /\ Archive!Hash(Len(c.tip)) = c.tip => OnTip(c)

Judging(c) ==
  c.at = "judge" => Archive!Planned \subseteq DOMAIN c.seen /\ (c.moves < 2 => OnTip(c))

Fields == {"is", "at", "todo", "seen", "tip", "last", "start", "next", "objects", "files",
           "mining", "moves"}

CommandOk(c) ==
  DOMAIN c = Fields /\ (~Ground => Sends(c)) /\ Known(c) /\ Watching(c) /\ Judging(c)

ArchiveInv == Chained /\ Shown /\ CommandOk(cmd)

-----------------------------------------------------------------------------
LEMMA PlainSeq == ASSUME NEW S, NEW s \in Seq(S) PROVE Plain(s)
<1>1. s \in [1..Len(s) -> Archive!ToSet(s)]
  BY DEF Archive!ToSet
<1> QED BY <1>1 DEF Plain

LEMMA MinedJoin ==
  ASSUME NEW S, NEW s \in Seq(S), NEW t \in Seq(S)
  PROVE  Archive!Mined(s \o t) = Archive!Mined(s) \cup Archive!Mined(t)
<1> DEFINE u == s \o t
<1>1. u \in Seq(S) /\ Len(u) = Len(s) + Len(t)
  OBVIOUS
<1>2. \A i \in 1..Len(s) : u[i] = s[i]
  OBVIOUS
<1>3. \A i \in 1..Len(t) : u[Len(s) + i] = t[i] /\ Len(s) + i \in 1..Len(u)
  OBVIOUS
<1>4. \A i \in 1..Len(u) : i \in 1..Len(s) \/ (i - Len(s) \in 1..Len(t) /\ u[i] = t[i - Len(s)])
  BY <1>1
<1>5. DOMAIN u = 1..Len(u) /\ DOMAIN s = 1..Len(s) /\ DOMAIN t = 1..Len(t)
  BY <1>1
<1>6. ASSUME NEW x \in Archive!Mined(u) PROVE x \in Archive!Mined(s) \cup Archive!Mined(t)
  <2>1. PICK i \in 1..Len(u) : x \in u[i].txs
    BY <1>5 DEF Archive!Mined
  <2> QED BY <2>1, <1>2, <1>4, <1>5 DEF Archive!Mined
<1>7. ASSUME NEW x \in Archive!Mined(s) PROVE x \in Archive!Mined(u)
  <2>1. PICK i \in 1..Len(s) : x \in s[i].txs
    BY <1>5 DEF Archive!Mined
  <2>2. i \in 1..Len(u)
    BY <1>1
  <2> QED BY <2>1, <2>2, <1>2, <1>5 DEF Archive!Mined
<1>8. ASSUME NEW x \in Archive!Mined(t) PROVE x \in Archive!Mined(u)
  <2>1. PICK i \in 1..Len(t) : x \in t[i].txs
    BY <1>5 DEF Archive!Mined
  <2> QED BY <2>1, <1>3, <1>5 DEF Archive!Mined
<1> QED BY <1>6, <1>7, <1>8

LEMMA MinedOne == ASSUME NEW b PROVE Archive!Mined(<<b>>) = b.txs
  BY DEF Archive!Mined

LEMMA MinedEmpty ==
  ASSUME NEW n \in Nat
  PROVE  Archive!Empty(n) \in Seq(Archive!ToSet(Archive!Empty(n))) /\ Archive!Mined(Archive!Empty(n)) = {}
         /\ Len(Archive!Empty(n)) = n
<1> DEFINE e == Archive!Empty(n)
<1>1. e = [i \in 1..n |-> [salt |-> reorgs + 1, txs |-> {}]]
  BY DEF Archive!Empty
<1>2. e \in Seq({[salt |-> reorgs + 1, txs |-> {}]})
  BY <1>1
<1>3. \A i \in DOMAIN e : e[i].txs = {}
  BY <1>1
<1>4. Archive!Mined(e) = {}
  BY <1>3 DEF Archive!Mined
<1>5. Plain(e) 
  BY <1>2, PlainSeq
<1>6. Len(e) = n
  BY <1>1, <1>2
<1> QED BY <1>4, <1>5, <1>6 DEF Plain

(* A prefix carries no more than the whole. *)
LEMMA MinedPrefix ==
  ASSUME NEW s, Plain(s), NEW n \in 0..Len(s)
  PROVE  /\ SubSeq(s, 1, n) \in Seq(Archive!ToSet(s)) /\ Len(SubSeq(s, 1, n)) = n
         /\ Archive!Mined(SubSeq(s, 1, n)) \subseteq Archive!Mined(s)
<1> DEFINE u == SubSeq(s, 1, n)
<1>1. u \in Seq(Archive!ToSet(s)) /\ Len(u) = n /\ \A i \in 1..n : u[i] = s[i]
  BY DEF Plain
<1>2. DOMAIN u = 1..n /\ 1..n \subseteq DOMAIN s
  BY <1>1 DEF Plain
<1> QED BY <1>1, <1>2 DEF Archive!Mined

(* What is confirmed at or below a tip that the chain goes through is on it. *)
LEMMA ConfirmedBelow ==
  ASSUME Plain(chain), NEW n \in 0..Len(chain), NEW t,
         Archive!Confirmed(t), Archive!HeightOf(t) <= n
  PROVE  t \in Archive!Mined(Archive!Hash(n))
<1> DEFINE h == Archive!HeightOf(t)
           u == Archive!Hash(n)
<1>1. \E i \in DOMAIN chain : t \in chain[i].txs
  BY DEF Archive!Confirmed, Archive!Mined
<1>2. h \in DOMAIN chain /\ t \in chain[h].txs
  BY <1>1 DEF Archive!HeightOf
<1>3. h \in 1..n
  BY <1>2 DEF Plain
<1>4. DOMAIN u = 1..n /\ u[h] = chain[h]
  BY <1>3 DEF Plain, Archive!Hash
<1> QED BY <1>2, <1>3, <1>4 DEF Archive!Mined

-----------------------------------------------------------------------------
(* A step of a command that leaves the network alone. *)
LEMMA QuietStep ==
  ASSUME ArchiveInv, Archive!Quiet, story' = story, CommandOk(cmd')
  PROVE  ArchiveInv'
<1>1. chain' = chain /\ stale' = stale /\ mempool' = mempool /\ reorgs' = reorgs /\ anchored' = anchored
  BY DEF Archive!Quiet, Archive!world
<1>2. Chained' /\ Shown'
  BY <1>1 DEF ArchiveInv, Chained, Shown, Public, Ground, Plain
<1>3. CommandOk(cmd)'
  BY <1>1 DEF CommandOk, Sends, Known, Watching, Judging, OnTip, Ground, Archive!Hash, Plain
<1> QED BY <1>2, <1>3 DEF ArchiveInv

LEMMA IdleShape ==
  /\ DOMAIN Archive!Idle = Fields /\ Archive!Idle.at = "idle" /\ Archive!Idle.todo = <<>>
  BY DEF Archive!Idle, Fields

(* Outside a status only what there is to send matters. *)
LEMMA Elsewhere ==
  ASSUME NEW c, DOMAIN c = Fields, c.at \notin {"observe", "judge", "tip"},
         Ground \/ Sends(c)
  PROVE  CommandOk(c)
  BY DEF CommandOk, Known, Watching, Judging

LEMMA IdleOk == CommandOk(Archive!Idle)
<1>1. Sends(Archive!Idle)
  BY IdleShape DEF Sends
<1> QED BY <1>1, IdleShape, Elsewhere

LEMMA EndsStep == ASSUME ArchiveInv, Archive!Ends, Archive!Quiet PROVE ArchiveInv'
  BY IdleOk, QuietStep DEF Archive!Ends, Archive!Goes

LEMMA CommitNoReveal ==
  ASSUME Archive!ArchiveAssumption
  PROVE  /\ Archive!Commit \notin Archive!Revealed /\ Archive!Rival \notin Archive!Revealed
         /\ Archive!Funding \notin Archive!Revealed
  BY DEF Archive!ArchiveAssumption

(* The plan is the commit and its reveals. *)
LEMMA WholePlan ==
  ASSUME Archive!ArchiveAssumption
  PROVE  Archive!Planned = {Archive!Commit} \cup Archive!Revealed
<1>1. PICK r, p, x : r = Reveals /\ p = Archive!Plan /\ x = Archive!Commit
  OBVIOUS
<1>2. r \in Seq(Archive!Revealed) /\ p = <<x>> \o r
  BY <1>1 DEF Archive!ArchiveAssumption, Archive!Plan
<1>3. /\ DOMAIN p = 1..(Len(r) + 1) /\ DOMAIN r = 1..Len(r) /\ Len(r) \in Nat
      /\ p[1] = x /\ \A i \in 1..Len(r) : p[i + 1] = r[i]
  BY <1>2
<1>4. \A i \in DOMAIN p : p[i] = x \/ p[i] \in Archive!ToSet(r)
  <2> SUFFICES ASSUME NEW i \in DOMAIN p, i # 1 PROVE p[i] \in Archive!ToSet(r)
    BY <1>3
  <2>1. i - 1 \in 1..Len(r) /\ p[(i - 1) + 1] = r[i - 1] /\ (i - 1) + 1 = i
    BY <1>3
  <2> QED BY <1>3, <2>1 DEF Archive!ToSet
<1>5. \A y \in Archive!ToSet(r) : y \in Archive!ToSet(p)
  <2> SUFFICES ASSUME NEW i \in 1..Len(r) PROVE r[i] \in Archive!ToSet(p)
    BY <1>3 DEF Archive!ToSet
  <2>1. i + 1 \in DOMAIN p /\ p[i + 1] = r[i]
    BY <1>3
  <2> QED BY <2>1 DEF Archive!ToSet
<1>6. x \in Archive!ToSet(p)
  BY <1>3 DEF Archive!ToSet
<1>7. Archive!ToSet(p) = {x} \cup Archive!ToSet(r)
  BY <1>4, <1>5, <1>6 DEF Archive!ToSet
<1> QED BY <1>1, <1>7 DEF Archive!Planned, Archive!Revealed

(* A confirmed commit is ground enough. *)
LEMMA ConfirmedGround ==
  ASSUME ArchiveInv, Archive!Confirmed(Archive!Commit)
  PROVE  Ground
  BY DEF ArchiveInv, Shown, Ground, Archive!Confirmed

(* Commands that neither begin nor end a status. *)
LEMMA CoreSteps ==
  ASSUME ArchiveInv,
         \/ Archive!CoreLook \/ Archive!CoreFunding \/ Archive!CoreGate \/ Archive!CoreEnds
         \/ Archive!LitecoinLook \/ Archive!LitecoinFunding \/ Archive!LitecoinSubmit
         \/ Archive!LitecoinEnds \/ Archive!RelayFunding \/ Archive!RelayUnspent
         \/ Archive!RelayEnds
  PROVE  ArchiveInv'
<1>0. DOMAIN cmd = Fields
  BY DEF ArchiveInv, CommandOk
<1>1. ASSUME NEW w, w \in {"submit", "funding", "send"},
             \/ cmd.at \in {"look", "funding"}
             \/ cmd.at \notin {"observe", "judge"} /\ w = "submit"
             \/ cmd.at \notin {"observe", "judge"} /\ cmd.todo # <<>> /\ w = "send",
             cmd' = [cmd EXCEPT !.at = w], story' = story, Archive!Quiet
      PROVE  ArchiveInv'
  <2>1. PICK c : c = [cmd EXCEPT !.at = w]
    OBVIOUS
  <2>2. DOMAIN c = Fields /\ c.at = w /\ c.todo = cmd.todo
    BY <1>0, <2>1 DEF Fields
  <2>3. Ground \/ Sends(c)
    BY <1>1, <2>2 DEF ArchiveInv, CommandOk, Sends
  <2>4. CommandOk(c)
    BY <1>1, <2>2, <2>3, Elsewhere
  <2> QED BY <1>1, <2>1, <2>4, QuietStep
<1>2. CASE Archive!CoreLook
  <2>1. cmd.at = "look" /\ Archive!Quiet /\ story' = story
        /\ \E w \in {"submit", "funding"} : cmd' = [cmd EXCEPT !.at = w]
    BY <1>2 DEF Archive!CoreLook, Archive!Running, Archive!Goes, Archive!At
  <2> QED BY <1>1, <2>1
<1>3. CASE Archive!CoreFunding
  <2>1. cmd.at = "funding" /\ Archive!Quiet /\ ((cmd' = [cmd EXCEPT !.at = "submit"] /\ story' = story) \/ Archive!Ends)
    BY <1>3 DEF Archive!CoreFunding, Archive!Running, Archive!Goes, Archive!At
  <2> QED BY <1>1, <2>1, EndsStep
<1>4. ASSUME NEW c, DOMAIN c = Fields, c.at \notin {"observe", "judge", "tip"}, Ground,
             Archive!Goes(c), Archive!Quiet
      PROVE  ArchiveInv'
  <2>1. CommandOk(c)
    BY <1>4, Elsewhere
  <2> QED BY <1>4, <2>1, QuietStep DEF Archive!Goes
<1>5. CASE Archive!CoreGate
  <2>1. CASE Archive!Confirmed(Archive!Commit)
    <3>1. PICK c : c = [cmd EXCEPT !.at = "submit", !.todo = Reveals]
      OBVIOUS
    <3>2. DOMAIN c = Fields /\ c.at = "submit"
      BY <1>0, <3>1 DEF Fields
    <3>3. Archive!Goes(c) /\ Archive!Quiet
      BY <1>5, <2>1, <3>1 DEF Archive!CoreGate
    <3> QED BY <1>4, <2>1, <3>2, <3>3, ConfirmedGround
  <2>2. CASE ~Archive!Confirmed(Archive!Commit)
    BY <1>5, <2>2, EndsStep DEF Archive!CoreGate
  <2> QED BY <2>1, <2>2
<1>6. CASE Archive!CoreEnds \/ Archive!LitecoinEnds \/ Archive!RelayEnds
  BY <1>6, EndsStep DEF Archive!CoreEnds, Archive!LitecoinEnds, Archive!RelayEnds
<1>7. CASE Archive!LitecoinLook
  <2>1. /\ cmd.at = "look" /\ Archive!Quiet
        /\ \/ cmd' = [cmd EXCEPT !.at = "funding"] /\ story' = story
           \/ Archive!Ends
           \/ /\ Archive!Known(Archive!Commit) /\ Archive!Commit \notin mempool
              /\ Archive!Goes([cmd EXCEPT !.at = "submit", !.todo = Reveals])
    BY <1>7 DEF Archive!LitecoinLook, Archive!Running, Archive!Goes, Archive!At
  <2>2. CASE Archive!Known(Archive!Commit) /\ Archive!Commit \notin mempool
             /\ Archive!Goes([cmd EXCEPT !.at = "submit", !.todo = Reveals])
    <3>1. PICK c : c = [cmd EXCEPT !.at = "submit", !.todo = Reveals]
      OBVIOUS
    <3>2. DOMAIN c = Fields /\ c.at = "submit"
      BY <1>0, <3>1 DEF Fields
    <3>3. Ground
      BY <2>2, ConfirmedGround DEF Archive!Known, Archive!Confirmed
    <3> QED BY <1>4, <2>1, <2>2, <3>1, <3>2, <3>3
  <2> QED BY <1>1, <2>1, <2>2, EndsStep
<1>8. CASE Archive!LitecoinFunding \/ Archive!RelayFunding
  <2>1. cmd.at = "funding" /\ Archive!Quiet /\ ((cmd' = [cmd EXCEPT !.at = "send"] /\ story' = story) \/ Archive!Ends)
    BY <1>8 DEF Archive!LitecoinFunding, Archive!RelayFunding, Archive!Running,
                Archive!Goes, Archive!At
  <2> QED BY <1>1, <2>1, EndsStep
<1>9. CASE Archive!LitecoinSubmit
  <2>1. /\ cmd.at = "submit" /\ Archive!Quiet
        /\ \/ Archive!Ends
           \/ /\ cmd.todo # <<>> /\ Archive!Known(Archive!Now)
              /\ Archive!Goes([cmd EXCEPT !.todo = Tail(@)])
           \/ cmd.todo # <<>> /\ cmd' = [cmd EXCEPT !.at = "send"] /\ story' = story
    BY <1>9 DEF Archive!LitecoinSubmit, Archive!Running, Archive!Goes, Archive!At
  <2>2. CASE cmd.todo # <<>> /\ Archive!Goes([cmd EXCEPT !.todo = Tail(@)])
    <3>1. PICK c : c = [cmd EXCEPT !.todo = Tail(@)]
      OBVIOUS
    <3>2. DOMAIN c = Fields /\ c.at = "submit" /\ c.todo = Tail(cmd.todo)
      BY <1>0, <2>1, <3>1 DEF Fields
    <3>3. Ground \/ Sends(c)
      <4>1. CASE ~Ground
        <5>1. cmd.todo = <<Archive!Commit>>
          BY <2>1, <2>2, <4>1 DEF ArchiveInv, CommandOk, Sends
        <5> QED BY <3>2, <5>1 DEF Sends
      <4> QED BY <4>1
    <3>4. CommandOk(c)
      BY <3>2, <3>3, Elsewhere
    <3> QED BY <2>1, <2>2, <3>1, <3>4, QuietStep DEF Archive!Goes
  <2> QED BY <1>1, <2>1, <2>2, EndsStep
<1>10. CASE Archive!RelayUnspent
  <2>1. /\ cmd.at = "unspent" /\ Archive!Quiet
        /\ Archive!Ends \/ (cmd.todo # <<>> /\ cmd' = [cmd EXCEPT !.at = "send"] /\ story' = story)
    BY <1>10 DEF Archive!RelayUnspent, Archive!Running, Archive!Goes, Archive!At
  <2> QED BY <1>1, <2>1, EndsStep
<1> QED BY <1>2, <1>3, <1>5, <1>6, <1>7, <1>8, <1>9, <1>10
(* Where a command goes once its transaction is with the node. *)
LEMMA AfterOk ==
  ASSUME Archive!ArchiveAssumption, ArchiveInv, NEW mining,
         cmd.at \notin {"observe", "judge"}, Ground \/ cmd.todo # <<>>
  PROVE  CommandOk([Archive!After EXCEPT !.mining = mining])
<1>0. DOMAIN cmd = Fields
  BY DEF ArchiveInv, CommandOk
<1>1. PICK c : c = [Archive!After EXCEPT !.mining = mining]
  OBVIOUS
<1>2. CASE Archive!Now = Archive!Commit
  <2>1. PICK a : a = [cmd EXCEPT !.at = "gate", !.todo = <<>>]
    OBVIOUS
  <2>2. DOMAIN a = Fields /\ a.at = "gate" /\ a.todo = <<>>
    BY <1>0, <2>1 DEF Fields
  <2>3. c = [a EXCEPT !.mining = mining]
    BY <1>1, <1>2, <2>1 DEF Archive!After
  <2>4. DOMAIN c = Fields /\ c.at = "gate" /\ c.todo = <<>>
    BY <2>2, <2>3 DEF Fields
  <2> QED BY <1>1, <2>4, Elsewhere DEF Sends
<1>3. CASE Archive!Now # Archive!Commit
  <2>1. PICK a : a = [cmd EXCEPT !.at = IF cmd.is = "relay" THEN "unspent" ELSE "submit",
                                 !.todo = Tail(@)]
    OBVIOUS
  <2>2. DOMAIN a = Fields /\ a.at \in {"unspent", "submit"}
    BY <1>0, <2>1 DEF Fields
  <2>3. c = [a EXCEPT !.mining = mining]
    BY <1>1, <1>3, <2>1 DEF Archive!After
  <2>4. DOMAIN c = Fields /\ c.at \in {"unspent", "submit"}
    BY <2>2, <2>3 DEF Fields
  <2>5. Ground
    <3>1. ~Ground => cmd.todo = <<Archive!Commit>>
      BY DEF ArchiveInv, CommandOk, Sends
    <3> QED BY <1>3, <3>1 DEF Archive!Now
  <2> QED BY <1>1, <2>4, <2>5, Elsewhere
<1> QED BY <1>2, <1>3

LEMMA SubmitStep ==
  ASSUME Archive!ArchiveAssumption, ArchiveInv, Archive!Submit
  PROVE  ArchiveInv'
<1>1. cmd.at = "submit" /\ cmd.todo # <<>> /\ Archive!Quiet
  BY DEF Archive!Submit, Archive!Running
<1>2. CASE Archive!Ends
  BY <1>1, <1>2, EndsStep
<1>3. CASE \E mining : cmd' = [Archive!After EXCEPT !.mining = mining] /\ story' = story
  <2>1. PICK mining : cmd' = [Archive!After EXCEPT !.mining = mining] /\ story' = story
    BY <1>3
  <2>2. CommandOk([Archive!After EXCEPT !.mining = mining])
    BY <1>1, AfterOk
  <2> QED BY <1>1, <2>1, <2>2, QuietStep
<1>4. CASE cmd' = [cmd EXCEPT !.at = "send"] /\ story' = story
  <2>1. PICK c : c = [cmd EXCEPT !.at = "send"]
    OBVIOUS
  <2>2. DOMAIN c = Fields /\ c.at = "send" /\ c.todo = cmd.todo
    BY <2>1 DEF ArchiveInv, CommandOk, Fields
  <2>3. Ground \/ Sends(c)
    BY <1>1, <2>2 DEF ArchiveInv, CommandOk, Sends
  <2>4. CommandOk(c)
    BY <2>2, <2>3, Elsewhere
  <2> QED BY <1>1, <1>4, <2>1, <2>4, QuietStep
<1>5. \/ Archive!Ends
      \/ \E mining : cmd' = [Archive!After EXCEPT !.mining = mining] /\ story' = story
      \/ cmd' = [cmd EXCEPT !.at = "send"] /\ story' = story
  <2>1. CASE Archive!Conflicted(Archive!Now) /\ Archive!Ends
    BY <2>1
  <2>2. CASE Archive!Goes([Archive!After EXCEPT !.mining = @ \/
                (Archive!Now # Archive!Commit /\ ~Archive!Confirmed(Archive!Now))])
    BY <2>2 DEF Archive!Goes
  <2>3. CASE Archive!Goes(Archive!At("send"))
    BY <2>3 DEF Archive!Goes, Archive!At
  <2> QED BY <2>1, <2>2, <2>3 DEF Archive!Submit
<1> QED BY <1>2, <1>3, <1>4, <1>5

(* Steps that change the network. *)
LEMMA NetworkStep ==
  ASSUME story' = story, anchored => anchored', NEW c, cmd' = c, CommandOk(c),
         Watching(c)', Chained', Shown'
  PROVE  ArchiveInv'
<1>1. Ground => Ground'
  BY DEF Ground
<1>2. ~Ground' => Sends(c)
  BY <1>1 DEF CommandOk
<1>3. Known(c)' /\ Judging(c)' /\ DOMAIN c = Fields
  BY DEF CommandOk, Known, Judging, OnTip
<1>4. CommandOk(cmd)'
  BY <1>2, <1>3 DEF CommandOk, Sends, Known, Judging, Watching, OnTip
<1> QED BY <1>4 DEF ArchiveInv

LEMMA SendStep ==
  ASSUME Archive!ArchiveAssumption, ArchiveInv, Archive!Send
  PROVE  ArchiveInv'
<1>1. /\ cmd.at = "send" /\ story' = story
      /\ UNCHANGED <<chain, stale, reorgs, anchored>>
  BY DEF Archive!Send, Archive!Ends, Archive!Goes
<1>2. CASE Archive!Ends /\ mempool' = mempool
  BY <1>1, <1>2, EndsStep DEF Archive!Quiet, Archive!world
<1>3. CASE ~(Archive!Ends /\ mempool' = mempool)
  <2>1. /\ mempool' \subseteq mempool \cup {Archive!Now}
        /\ \E mining : cmd' = [Archive!After EXCEPT !.mining = mining]
    BY <1>3 DEF Archive!Send, Archive!Goes
  <2>2. PICK mining : cmd' = [Archive!After EXCEPT !.mining = mining]
    BY <2>1
  <2>3. PICK c : c = [Archive!After EXCEPT !.mining = mining]
    OBVIOUS
  <2>4. ~Ground => cmd.todo = <<Archive!Commit>>
    BY <1>1 DEF ArchiveInv, CommandOk, Sends
  <2>5. CommandOk(c)
    <3>1. Ground \/ cmd.todo # <<>>
      <4>1. \A x : <<x>> # <<>>
        OBVIOUS
      <4> QED BY <2>4, <4>1
    <3>2. cmd.at \notin {"observe", "judge"}
      BY <1>1
    <3> QED BY <2>3, <3>1, <3>2, AfterOk
  <2>6. c.at # "observe"
    <3>1. DOMAIN cmd = Fields
      BY DEF ArchiveInv, CommandOk
    <3>2. PICK a : a = Archive!After
      OBVIOUS
    <3>3. DOMAIN a = Fields /\ a.at \in {"gate", "unspent", "submit"}
      BY <3>1, <3>2 DEF Archive!After, Fields
    <3> QED BY <2>3, <3>2, <3>3 DEF Fields
  <2>7. Chained' /\ Watching(c)'
    BY <1>1, <2>6 DEF ArchiveInv, Chained, Plain, Watching
  <2>8. Shown'
    <3>1. Archive!Now \in Archive!Revealed => Ground
      <4>1. ~Ground => Archive!Now = Archive!Commit
        BY <2>4 DEF Archive!Now
      <4> QED BY <4>1, CommitNoReveal
    <3>2. Public' \subseteq Public \cup {Archive!Now}
      BY <1>1, <2>1 DEF Public
    <3>3. Public' \cap Archive!Revealed # {} => Ground
      BY <3>1, <3>2 DEF ArchiveInv, Shown
    <3> QED BY <1>1, <3>3 DEF ArchiveInv, Shown, Ground
  <2> QED BY <1>1, <2>2, <2>3, <2>5, <2>7, <2>8, NetworkStep
<1> QED BY <1>2, <1>3
(* The status of the relay. *)
LEMMA NoteTipStep ==
  ASSUME Archive!ArchiveAssumption, ArchiveInv, Archive!NoteTip
  PROVE  ArchiveInv'
<1>1. /\ cmd.at = "tip" /\ Archive!Quiet /\ story' = story
      /\ cmd' = [cmd EXCEPT !.at = "observe", !.tip = chain, !.todo = Archive!Plan, !.moves = reorgs]
  BY DEF Archive!NoteTip, Archive!Running, Archive!Goes
<1>2. DOMAIN cmd = Fields /\ cmd.seen = <<>> /\ Chained
  BY <1>1 DEF ArchiveInv, CommandOk, Known
<1>3. PICK c : c = [cmd EXCEPT !.at = "observe", !.tip = chain, !.todo = Archive!Plan, !.moves = reorgs]
  OBVIOUS
<1>4. /\ DOMAIN c = Fields /\ c.at = "observe" /\ c.tip = chain /\ c.todo = Archive!Plan
      /\ c.moves = reorgs /\ c.seen = <<>>
  BY <1>2, <1>3 DEF Fields
<1>5. DOMAIN c.seen = {}
  BY <1>4
<1>6. Plain(c.todo) /\ Archive!Planned = Archive!ToSet(c.todo)
  <2>1. Archive!Plan \in Seq({Archive!Commit} \cup Archive!Revealed)
    BY DEF Archive!ArchiveAssumption, Archive!Plan
  <2> QED BY <1>4, <2>1, PlainSeq DEF Archive!Planned
<1>7. Archive!Hash(Len(chain)) = chain
  BY <1>2 DEF Chained, Plain, Archive!Hash
<1>8. Watching(c)
  BY <1>2, <1>4, <1>5, <1>6, <1>7 DEF Watching, Chained, OnTip, Plain
<1>9. CommandOk(c)
  BY <1>4, <1>5, <1>8 DEF CommandOk, Sends, Known, Judging
<1> QED BY <1>1, <1>3, <1>9, QuietStep

(* What is left to look at. *)
LEMMA RestOf ==
  ASSUME NEW s, Plain(s), s # <<>>
  PROVE  Plain(Tail(s)) /\ Archive!ToSet(s) = {Head(s)} \cup Archive!ToSet(Tail(s))
<1>1. PICK S, u : S = Archive!ToSet(s) /\ u = Tail(s)
  OBVIOUS
<1>2. s \in Seq(S)
  BY <1>1 DEF Plain
<1>3. u \in Seq(S) /\ Len(u) = Len(s) - 1 /\ \A i \in 1..Len(u) : u[i] = s[i + 1]
  BY <1>1, <1>2
<1>4. DOMAIN s = 1..Len(s) /\ DOMAIN u = 1..Len(u) /\ Len(s) \in Nat /\ Len(s) # 0
  BY <1>2, <1>3
<1>5. ASSUME NEW x \in S PROVE x = s[1] \/ x \in Archive!ToSet(u)
  <2>1. PICK i \in 1..Len(s) : x = s[i]
    BY <1>1, <1>4, <1>5 DEF Archive!ToSet
  <2>2. CASE i = 1
    BY <2>1, <2>2
  <2>3. CASE i # 1
    <3>1. i - 1 \in 1..Len(u) /\ u[i - 1] = s[i]
      BY <1>3, <1>4, <2>3
    <3> QED BY <1>4, <2>1, <3>1 DEF Archive!ToSet
  <2> QED BY <2>2, <2>3
<1>6. ASSUME NEW x \in Archive!ToSet(u) PROVE x \in S
  BY <1>3, <1>4, <1>6 DEF Archive!ToSet
<1>7. s[1] \in S
  BY <1>2, <1>4
<1>8. Head(s) = s[1]
  BY <1>2, <1>4
<1>9. Plain(u)
  BY <1>3, PlainSeq
<1> QED BY <1>1, <1>5, <1>6, <1>7, <1>8, <1>9

LEMMA ObserveStep ==
  ASSUME ArchiveInv, Archive!Observe
  PROVE  ArchiveInv'
<1>1. cmd.at = "observe" /\ cmd.todo # <<>> /\ Archive!Quiet
  BY DEF Archive!Observe, Archive!Running
<1>2. CASE Archive!Ends
  BY <1>1, <1>2, EndsStep
<1>3. CASE ~Archive!Ends
  <2> DEFINE looked == [t \in DOMAIN cmd.seen \cup {Archive!Now} |->
                           IF t = Archive!Now THEN Archive!State(Archive!Now) ELSE cmd.seen[t]]
  <2>1. /\ story' = story /\ cmd' = [cmd EXCEPT !.todo = Tail(@), !.seen = looked]
        /\ ~(Archive!Confirmed(Archive!Now) /\ Archive!HeightOf(Archive!Now) > Len(cmd.tip))
    BY <1>3 DEF Archive!Observe, Archive!Goes
  <2>2. PICK t, seen : t = Archive!Now /\ seen = looked
    OBVIOUS
  <2>3. PICK c : c = [cmd EXCEPT !.todo = Tail(@), !.seen = seen]
    OBVIOUS
  <2>4. DOMAIN cmd = Fields /\ Known(cmd) /\ Watching(cmd) /\ Chained /\ Shown
    BY DEF ArchiveInv, CommandOk
  <2>5. /\ DOMAIN c = Fields /\ c.at = "observe" /\ c.tip = cmd.tip /\ c.todo = Tail(cmd.todo)
        /\ c.moves = cmd.moves /\ c.seen = seen
    BY <1>1, <2>3, <2>4 DEF Fields
  <2>6. /\ DOMAIN seen = DOMAIN cmd.seen \cup {t} /\ seen[t] = Archive!State(t)
        /\ \A u \in DOMAIN cmd.seen : u # t => seen[u] = cmd.seen[u]
    BY <2>2
  <2>7. /\ Archive!State(t) \in {"confirmed", "pending", "unknown"}
        /\ Archive!State(t) = "confirmed" => Archive!Confirmed(t)
    BY DEF Archive!State
  <2>8. Known(c)
    <3>1. \A u \in DOMAIN seen : seen[u] \in {"confirmed", "pending", "unknown"}
      BY <1>1, <2>4, <2>6, <2>7 DEF Known
    <3>2. ASSUME Archive!Commit \in DOMAIN seen, seen[Archive!Commit] = "confirmed" PROVE anchored
      <4>1. CASE t = Archive!Commit
        BY <2>4, <2>6, <2>7, <3>2, <4>1 DEF Shown, Archive!Confirmed
      <4>2. CASE t # Archive!Commit
        BY <1>1, <2>4, <2>6, <3>2, <4>2 DEF Known
      <4> QED BY <4>1, <4>2
    <3> QED BY <2>5, <3>1, <3>2 DEF Known
  <2>9. Plain(c.todo) /\ Archive!Planned \subseteq DOMAIN seen \cup Archive!ToSet(c.todo)
    <3>1. Plain(cmd.todo) /\ Archive!Planned \subseteq DOMAIN cmd.seen \cup Archive!ToSet(cmd.todo)
      BY <1>1, <2>4 DEF Watching
    <3>2. Plain(c.todo) /\ Archive!ToSet(cmd.todo) = {t} \cup Archive!ToSet(c.todo)
      BY <1>1, <2>2, <2>5, <3>1, RestOf DEF Archive!Now
    <3> QED BY <2>6, <3>1, <3>2
  <2>10. ASSUME reorgs <= cmd.moves + 1, Archive!Hash(Len(cmd.tip)) = cmd.tip PROVE OnTip(c)
    <3>1. ASSUME NEW u \in DOMAIN seen, seen[u] = "confirmed" PROVE u \in Archive!Mined(cmd.tip)
      <4>1. CASE u = t
        <5>1. Archive!Confirmed(t)
          BY <2>6, <2>7, <3>1, <4>1
        <5>2. Plain(chain) /\ Len(cmd.tip) \in 0..Len(chain)
          BY <1>1, <2>4 DEF Watching, Chained, Plain
        <5>3. Archive!HeightOf(t) <= Len(cmd.tip)
          <6>1. Archive!HeightOf(t) \in DOMAIN chain
            BY <5>1 DEF Archive!Confirmed, Archive!Mined, Archive!HeightOf
          <6>2. Archive!HeightOf(t) \in Int
            BY <5>2, <6>1 DEF Plain
          <6>3. ~(Archive!HeightOf(t) > Len(cmd.tip))
            BY <2>1, <2>2, <5>1
          <6> QED BY <5>2, <6>2, <6>3
        <5>4. t \in Archive!Mined(Archive!Hash(Len(cmd.tip)))
          BY <5>1, <5>2, <5>3, ConfirmedBelow
        <5> QED BY <2>10, <4>1, <5>4
      <4>2. CASE u # t
        BY <1>1, <2>4, <2>6, <2>10, <3>1, <4>2 DEF Watching, OnTip
      <4> QED BY <4>1, <4>2
    <3> QED BY <2>5, <3>1 DEF OnTip
  <2>11. Watching(c)
    BY <1>1, <2>4, <2>5, <2>9, <2>10 DEF Watching
  <2>12. CommandOk(c)
    BY <2>5, <2>8, <2>11 DEF CommandOk, Sends, Judging
  <2> QED BY <1>1, <2>1, <2>2, <2>3, <2>12, QuietStep
<1> QED BY <1>2, <1>3

LEMMA RecheckStep ==
  ASSUME ArchiveInv, Archive!Recheck
  PROVE  ArchiveInv'
<1>1. cmd.at = "observe" /\ cmd.todo = <<>> /\ Archive!Quiet
  BY DEF Archive!Recheck, Archive!Running
<1>2. CASE Archive!Ends
  BY <1>1, <1>2, EndsStep
<1>3. CASE ~Archive!Ends
  <2>1. /\ story' = story /\ Archive!Hash(Len(cmd.tip)) = cmd.tip
        /\ cmd' = [cmd EXCEPT !.at = "judge", !.moves = reorgs - @]
    BY <1>3 DEF Archive!Recheck, Archive!Goes
  <2>2. PICK c : c = [cmd EXCEPT !.at = "judge", !.moves = reorgs - @]
    OBVIOUS
  <2>3. DOMAIN cmd = Fields /\ Known(cmd) /\ Watching(cmd) /\ Chained
    BY DEF ArchiveInv, CommandOk
  <2>4. /\ DOMAIN c = Fields /\ c.at = "judge" /\ c.tip = cmd.tip /\ c.seen = cmd.seen
        /\ c.moves = reorgs - cmd.moves
    BY <2>2, <2>3 DEF Fields
  <2>5. Archive!Planned \subseteq DOMAIN c.seen
    <3>1. Archive!ToSet(cmd.todo) = {}
      BY <1>1 DEF Archive!ToSet
    <3> QED BY <1>1, <2>3, <2>4, <3>1 DEF Watching
  <2>6. c.moves < 2 => OnTip(c)
    <3>1. c.moves < 2 => reorgs <= cmd.moves + 1
      BY <1>1, <2>3, <2>4 DEF Watching, Chained
    <3> QED BY <1>1, <2>1, <2>3, <2>4, <3>1 DEF Watching, OnTip
  <2>7. CommandOk(c)
    BY <1>1, <2>3, <2>4, <2>5, <2>6 DEF CommandOk, Sends, Known, Watching, Judging
  <2> QED BY <1>1, <2>1, <2>2, <2>7, QuietStep
<1> QED BY <1>2, <1>3

LEMMA JudgeStep ==
  ASSUME ArchiveInv, Archive!Judge
  PROVE  ArchiveInv'
<1>0. DOMAIN cmd = Fields
  BY DEF ArchiveInv, CommandOk
<1>1. /\ cmd.at = "judge" /\ Archive!Quiet
      /\ \/ Archive!Ends
         \/ /\ story' = story
            /\ cmd' = [cmd EXCEPT !.at = "funding", !.todo = <<Archive!Commit>>, !.seen = <<>>]
         \/ /\ story' = story
            /\ \/ Archive!Word(cmd.seen) = "awaiting_reveals"
               \/ story.allow
            /\ cmd' = [cmd EXCEPT !.at = "unspent", !.todo = Archive!Missing(cmd.seen), !.seen = <<>>]
  BY DEF Archive!Judge, Archive!Goes
<1>2. CASE cmd' = [cmd EXCEPT !.at = "funding", !.todo = <<Archive!Commit>>, !.seen = <<>>]
           /\ story' = story
  <2>1. PICK c : c = [cmd EXCEPT !.at = "funding", !.todo = <<Archive!Commit>>, !.seen = <<>>]
    OBVIOUS
  <2>2. DOMAIN c = Fields /\ c.at = "funding" /\ c.todo = <<Archive!Commit>>
    BY <1>0, <2>1 DEF Fields
  <2>3. CommandOk(c)
    BY <2>2, Elsewhere DEF Sends
  <2> QED BY <1>1, <1>2, <2>1, <2>3, QuietStep
<1>3. CASE /\ Archive!Word(cmd.seen) = "awaiting_reveals" \/ story.allow
           /\ cmd' = [cmd EXCEPT !.at = "unspent", !.todo = Archive!Missing(cmd.seen), !.seen = <<>>]
           /\ story' = story
  <2>1. PICK c : c = [cmd EXCEPT !.at = "unspent", !.todo = Archive!Missing(cmd.seen), !.seen = <<>>]
    OBVIOUS
  <2>2. DOMAIN c = Fields /\ c.at = "unspent"
    BY <1>0, <2>1 DEF Fields
  <2>3. Ground
    <3>1. CASE story.allow
      BY <3>1 DEF Ground
    <3>2. CASE Archive!Word(cmd.seen) = "awaiting_reveals"
      <4>1. cmd.seen[Archive!Commit] \notin {"unknown", "pending"}
        BY <3>2 DEF Archive!Word
      <4>2. Archive!Commit \in Archive!Planned /\ Archive!Planned \subseteq DOMAIN cmd.seen
        <5>1. Archive!Commit \in Archive!Planned
          BY DEF Archive!Planned, Archive!Plan, Archive!ToSet
        <5> QED BY <1>1, <5>1 DEF ArchiveInv, CommandOk, Judging
      <4>3. anchored
        BY <1>1, <4>1, <4>2 DEF ArchiveInv, CommandOk, Known
      <4> QED BY <4>3 DEF Ground
    <3> QED BY <1>3, <3>1, <3>2
  <2>4. CommandOk(c)
    BY <2>2, <2>3, Elsewhere
  <2> QED BY <1>1, <1>3, <2>1, <2>4, QuietStep
<1> QED BY <1>1, <1>2, <1>3, EndsStep
(* Blocks are added, *)
LEMMA HashKept ==
  ASSUME Plain(chain), NEW b, NEW n \in 0..Len(chain), chain' = Append(chain, b)
  PROVE  Archive!Hash(n)' = Archive!Hash(n)
<1>1. PICK S, s : s = chain /\ S = Archive!ToSet(chain) \cup {b}
  OBVIOUS
<1>2. s \in Seq(S) /\ n \in 0..Len(s) /\ b \in S
  BY <1>1 DEF Plain
<1>3. SubSeq(Append(s, b), 1, n) = SubSeq(s, 1, n)
  BY <1>2
<1> QED BY <1>1, <1>3 DEF Archive!Hash

LEMMA ExtendStep ==
  ASSUME Archive!ArchiveAssumption, ArchiveInv, NEW txs, Archive!Extend(txs), story' = story,
         NEW c, cmd' = c, CommandOk(c), txs \cap Archive!Revealed # {} => Ground
  PROVE  ArchiveInv'
<1> DEFINE b == [salt |-> reorgs, txs |-> txs]
<1>1. /\ chain' = Append(chain, b) /\ mempool' = mempool \ txs
      /\ anchored' = (anchored \/ Archive!Commit \in txs)
      /\ stale' = stale /\ reorgs' = reorgs
  BY DEF Archive!Extend
<1>2. Chained /\ Shown
  BY DEF ArchiveInv
<1>3. PICK S, s, d : s = chain /\ d = b /\ S = Archive!ToSet(chain) \cup {d}
  OBVIOUS
<1>4. s \in Seq(S) /\ <<d>> \in Seq(S) /\ Append(s, d) = s \o <<d>>
  <2>1. s \in Seq(S) /\ d \in S
    BY <1>2, <1>3 DEF Chained, Plain
  <2>2. <<d>> \in Seq(S)
    BY <2>1
  <2> QED BY <2>1, <2>2, AppendIsConcat
<1>5. Plain(chain') /\ Len(chain') = Len(chain) + 1
  <2>1. Append(s, d) \in Seq(S) /\ Len(Append(s, d)) = Len(s) + 1
    BY <1>3, <1>4
  <2> QED BY <1>1, <1>3, <2>1, PlainSeq
<1>6. Chained'
  <2>1. Plain(chain)'
    BY <1>5 DEF Plain
  <2> QED BY <1>1, <1>2, <1>5, <2>1 DEF Chained, Plain
<1>7. Archive!Mined(chain') = Archive!Mined(chain) \cup txs
  <2>1. Archive!Mined(s \o <<d>>) = Archive!Mined(s) \cup d.txs
    <3>1. PICK u : u = <<d>>
      OBVIOUS
    <3>2. Archive!Mined(s \o u) = Archive!Mined(s) \cup Archive!Mined(u)
      <4>1. s \in Seq(S) /\ u \in Seq(S)
        BY <1>4, <3>1
      <4> HIDE DEF b
      <4> QED BY <4>1, MinedJoin
    <3> QED BY <3>1, <3>2, MinedOne
  <2>2. d.txs = txs
    BY <1>3
  <2> QED BY <1>1, <1>3, <1>4, <2>1, <2>2
<1>8. Archive!Mined(chain)' = Archive!Mined(chain') /\ Archive!Mined(stale)' = Archive!Mined(stale)
  BY <1>1 DEF Archive!Mined
<1>9. Shown'
  <2>1. Archive!Commit \in Archive!Mined(chain)' \cup Archive!Mined(stale)' => anchored'
    BY <1>1, <1>2, <1>7, <1>8 DEF Shown
  <2>2. Public' \subseteq Public \cup txs
    BY <1>1, <1>7, <1>8 DEF Public
  <2>3. Public' \cap Archive!Revealed # {} => Ground
    BY <1>2, <2>2 DEF Shown
  <2>4. Ground => Ground'
    BY <1>1 DEF Ground
  <2> QED BY <1>2, <2>1, <2>3, <2>4 DEF Shown
<1>10. Watching(c)'
  <2>1. CASE c.at # "observe"
    BY <2>1 DEF Watching
  <2>2. CASE c.at = "observe"
    <3>1. Watching(c)
      BY DEF CommandOk
    <3>2. Len(c.tip) \in 0..Len(chain)
      BY <1>2, <2>2, <3>1 DEF Watching, Chained, Plain
    <3>3. Archive!Hash(Len(c.tip))' = Archive!Hash(Len(c.tip))
      BY <1>1, <1>2, <3>2, HashKept DEF Chained
    <3>4. Len(c.tip) <= Len(chain')
      BY <1>2, <1>5, <3>2 DEF Chained, Plain
    <3> QED BY <1>1, <2>2, <3>1, <3>3, <3>4 DEF Watching, OnTip, Plain
  <2> QED BY <2>1, <2>2
<1> QED BY <1>1, <1>6, <1>9, <1>10, NetworkStep

(* by the miners, *)
LEMMA MineStep ==
  ASSUME Archive!ArchiveAssumption, ArchiveInv, Archive!Mine
  PROVE  ArchiveInv'
<1>1. PICK others \in SUBSET (story.foreign \ Archive!Mined(chain)) : Archive!Extend(mempool \cup others)
  BY DEF Archive!Mine
<1>2. story' = story /\ cmd' = cmd
  BY DEF Archive!Mine, Archive!Frozen
<1>3. PICK txs, c : txs = mempool \cup others /\ c = cmd
  OBVIOUS
<1>4. txs \cap Archive!Revealed # {} => Ground
  <2>1. Archive!Revealed \subseteq Archive!Planned
    BY WholePlan
  <2>2. others \cap Archive!Revealed = {}
    BY <2>1 DEF ArchiveInv, Shown
  <2> QED BY <1>3, <2>2 DEF ArchiveInv, Shown, Public
<1>5. CommandOk(c)
  BY <1>3 DEF ArchiveInv
<1>6. Archive!Extend(txs)
  BY <1>1, <1>3
<1> QED BY <1>2, <1>3, <1>4, <1>5, <1>6, ExtendStep

(* and by regtest publication. *)
LEMMA RegtestSteps ==
  ASSUME Archive!ArchiveAssumption, ArchiveInv,
         Archive!RegtestGate \/ Archive!RegtestEnsure \/ Archive!RegtestMine
  PROVE  ArchiveInv'
<1>0. DOMAIN cmd = Fields
  BY DEF ArchiveInv, CommandOk
<1>1. mempool \cap Archive!Revealed # {} => Ground
  BY DEF ArchiveInv, Shown, Public
<1>2. PICK pool : pool = mempool
  OBVIOUS
<1>3. CASE Archive!RegtestGate
  <2>1. PICK c : c = [cmd EXCEPT !.at = "ensure"]
    OBVIOUS
  <2>2. DOMAIN c = Fields /\ c.at = "ensure" /\ c.todo = cmd.todo
    BY <1>0, <2>1 DEF Fields
  <2>3. cmd.at = "gate" /\ cmd' = c /\ story' = story
        /\ (Archive!Quiet \/ Archive!Extend(pool))
    BY <1>2, <1>3, <2>1 DEF Archive!RegtestGate, Archive!Running, Archive!Goes, Archive!At
  <2>4. CommandOk(c)
    BY <2>2, <2>3, Elsewhere DEF ArchiveInv, CommandOk, Sends
  <2> QED BY <1>1, <1>2, <2>3, <2>4, QuietStep, ExtendStep
<1>4. CASE Archive!RegtestEnsure
  <2>1. /\ Archive!Quiet /\ story' = story
        /\ \/ cmd' = Archive!Idle
           \/ /\ Archive!Confirmed(Archive!Commit)
              /\ \E list : cmd' = [cmd EXCEPT !.at = "submit", !.todo = list]
    BY <1>4 DEF Archive!RegtestEnsure
  <2>2. CASE cmd' = Archive!Idle
    BY <2>1, <2>2, IdleOk, QuietStep
  <2>3. CASE /\ Archive!Confirmed(Archive!Commit)
             /\ \E list : cmd' = [cmd EXCEPT !.at = "submit", !.todo = list]
    <3>1. PICK list : cmd' = [cmd EXCEPT !.at = "submit", !.todo = list]
      BY <2>3
    <3>2. PICK c : c = [cmd EXCEPT !.at = "submit", !.todo = list]
      OBVIOUS
    <3>3. DOMAIN c = Fields /\ c.at = "submit"
      BY <1>0, <3>2 DEF Fields
    <3>4. CommandOk(c)
      BY <2>3, <3>3, ConfirmedGround, Elsewhere
    <3> QED BY <2>1, <3>1, <3>2, <3>4, QuietStep
  <2> QED BY <2>1, <2>2, <2>3
<1>5. CASE Archive!RegtestMine
  <2>1. cmd' = Archive!Idle /\ story' = story /\ (Archive!Quiet \/ Archive!Extend(pool))
    BY <1>2, <1>5 DEF Archive!RegtestMine, Archive!Ends, Archive!Goes
  <2>2. PICK c : c = Archive!Idle
    OBVIOUS
  <2> QED BY <1>1, <1>2, <2>1, <2>2, IdleOk, QuietStep, ExtendStep
<1> QED BY <1>3, <1>4, <1>5
(* A branch replaces the last blocks. *)
LEMMA SwitchStep ==
  ASSUME Archive!ArchiveAssumption, ArchiveInv, NEW c, Archive!Switch(c),
         Plain(c), Len(c) > Len(chain), Archive!Mined(c) \subseteq Public,
         Archive!Commit \in Archive!Mined(c) => anchored'
  PROVE  ArchiveInv'
<1>1. /\ chain' = c /\ mempool' = Archive!Pool(c) /\ reorgs' = reorgs + 1
      /\ (anchored => anchored')
      /\ stale' \in {<<>>, chain} /\ story' = story /\ cmd' = cmd
  BY DEF Archive!Switch, Archive!Frozen
<1>2. Chained /\ Shown /\ CommandOk(cmd)
  BY DEF ArchiveInv
<1>3. Chained'
  <2>1. Plain(<<>>) /\ Len(<<>>) = 0
    BY DEF Plain
  <2>2. Plain(chain) /\ Len(chain) \in Nat /\ Len(c) \in Nat
    BY <1>2 DEF Chained, Plain
  <2>3. Plain(stale') /\ Len(stale') <= Len(c)
    <3>1. CASE stale' = <<>>
      BY <2>1, <2>2, <3>1
    <3>2. CASE stale' = chain
      BY <2>2, <3>2
    <3> QED BY <1>1, <3>1, <3>2
  <2>4. Plain(stale)' /\ Plain(chain)'
    BY <1>1, <2>3 DEF Plain
  <2> QED BY <1>1, <1>2, <2>3, <2>4 DEF Chained
<1>4. Archive!Mined(chain)' = Archive!Mined(c) /\ Archive!Mined(stale)' \subseteq Archive!Mined(chain)
  <2>1. Archive!Mined(chain)' = Archive!Mined(chain') /\ Archive!Mined(stale)' = Archive!Mined(stale')
    BY DEF Archive!Mined
  <2>2. Archive!Mined(<<>>) = {}
    BY DEF Archive!Mined
  <2>3. CASE stale' = <<>>
    BY <1>1, <2>1, <2>2, <2>3
  <2>4. CASE stale' = chain
    BY <1>1, <2>1, <2>4
  <2> QED BY <1>1, <2>3, <2>4
<1>5. Shown'
  <2>1. mempool' \subseteq Public
    BY <1>1 DEF Archive!Pool, Public
  <2>2. Public' \subseteq Public
    BY <1>4, <2>1 DEF Public
  <2>3. Archive!Commit \in Archive!Mined(chain)' \cup Archive!Mined(stale)' => anchored'
    BY <1>1, <1>2, <1>4 DEF Shown
  <2>4. Ground => Ground'
    BY <1>1 DEF Ground
  <2> QED BY <1>1, <1>2, <2>2, <2>3, <2>4 DEF Shown
<1>6. Watching(cmd)'
  <2>1. PICK d : d = cmd
    OBVIOUS
  <2>2. Watching(d)'
    <3>1. CASE d.at # "observe"
      BY <3>1 DEF Watching
    <3>2. CASE d.at = "observe"
      <4>1. /\ Plain(d.tip) /\ Len(d.tip) <= Len(chain)
            /\ Plain(d.todo) /\ Archive!Planned \subseteq DOMAIN d.seen \cup Archive!ToSet(d.todo)
            /\ d.moves \in Int /\ d.moves <= reorgs
            /\ d.moves = reorgs => Archive!Hash(Len(d.tip)) = d.tip
            /\ reorgs <= d.moves + 1 /\ Archive!Hash(Len(d.tip)) = d.tip => OnTip(d)
        BY <1>2, <2>1, <3>2 DEF CommandOk, Watching
      <4>2. Len(d.tip) \in Nat /\ Len(chain) \in Nat /\ Len(c) \in Nat /\ reorgs \in Nat
        BY <1>2, <4>1 DEF Chained, Plain
      <4>3. Len(d.tip) <= Len(c) /\ d.moves <= reorgs' /\ d.moves # reorgs'
        BY <1>1, <4>1, <4>2
      <4>4. reorgs' <= d.moves + 1 => OnTip(d)
        <5>1. reorgs' <= d.moves + 1 => d.moves = reorgs
          BY <1>1, <4>1, <4>2
        <5>2. d.moves = reorgs => reorgs <= d.moves + 1
          BY <4>1
        <5> QED BY <4>1, <5>1, <5>2
      <4> QED BY <1>1, <4>1, <4>3, <4>4 DEF Watching, OnTip, Plain
    <3> QED BY <3>1, <3>2
  <2>3. CommandOk(d)
    BY <1>2, <2>1
  <2> QED BY <1>1, <2>1, <2>2 DEF Watching
<1>7. PICK d : d = cmd
  OBVIOUS
<1>8. CommandOk(d) /\ cmd' = d
  BY <1>1, <1>2, <1>7
<1>9. Watching(d)'
  BY <1>1, <1>6, <1>7 DEF Watching
<1> QED BY <1>1, <1>3, <1>5, <1>8, <1>9, NetworkStep

LEMMA ReorganizeStep ==
  ASSUME Archive!ArchiveAssumption, ArchiveInv, Archive!Reorganize
  PROVE  ArchiveInv'
<1>1. PICK depth \in 1..story.depth :
         /\ depth <= Len(chain)
         /\ LET base == SubSeq(chain, 1, Len(chain) - depth)
            IN  \E txs \in SUBSET (mempool \cup (Archive!Mined(chain) \ Archive!Mined(base))) :
                   /\ Archive!Consistent(Archive!Mined(base) \cup txs)
                   /\ Archive!Switch(base \o <<[salt |-> reorgs + 1, txs |-> txs]>>
                                          \o Archive!Empty(depth))
  BY DEF Archive!Reorganize
<1>2. PICK base : base = SubSeq(chain, 1, Len(chain) - depth)
  OBVIOUS
<1>3. PICK txs \in SUBSET (mempool \cup (Archive!Mined(chain) \ Archive!Mined(base))) :
         Archive!Switch(base \o <<[salt |-> reorgs + 1, txs |-> txs]>> \o Archive!Empty(depth))
  BY <1>1, <1>2
<1>4. PICK b, e : b = [salt |-> reorgs + 1, txs |-> txs] /\ e = Archive!Empty(depth)
  OBVIOUS
<1>5. Chained
  BY DEF ArchiveInv
<1>6. depth \in Nat /\ depth >= 1
  OBVIOUS
<1>7. /\ base \in Seq(Archive!ToSet(chain)) /\ Len(base) = Len(chain) - depth
      /\ Archive!Mined(base) \subseteq Archive!Mined(chain)
  <2>1. Len(chain) - depth \in 0..Len(chain)
    BY <1>1, <1>5, <1>6 DEF Chained, Plain
  <2> QED BY <1>2, <1>5, <2>1, MinedPrefix DEF Chained
<1>8. e \in Seq(Archive!ToSet(e)) /\ Archive!Mined(e) = {} /\ Len(e) = depth
  BY <1>4, <1>6, MinedEmpty
<1>9. PICK S : S = Archive!ToSet(chain) \cup {b} \cup Archive!ToSet(e)
  OBVIOUS
<1>10. PICK u : u = <<b>>
  OBVIOUS
<1>11. base \in Seq(S) /\ u \in Seq(S) /\ e \in Seq(S)
  BY <1>7, <1>8, <1>9, <1>10
<1>12. PICK v, w : v = base \o u /\ w = v \o e
  OBVIOUS
<1>13. v \in Seq(S) /\ w \in Seq(S)
  <2>1. v \in Seq(S)
    BY <1>11, <1>12
  <2> QED BY <1>11, <1>12, <2>1
<1>14. Len(w) = Len(chain) + 1
  <2>1. Len(base \o u) = Len(base) + Len(u)
    BY <1>11
  <2>2. Len(v) = Len(base) + Len(u)
    BY <1>12, <2>1
  <2>3. Len(v \o e) = Len(v) + Len(e)
    BY <1>11, <1>13
  <2>4. Len(w) = Len(v) + Len(e)
    BY <1>12, <2>3
  <2>5. Len(chain) \in Nat /\ Len(u) = 1
    BY <1>5, <1>10 DEF Chained, Plain
  <2> QED BY <1>6, <1>7, <1>8, <2>2, <2>4, <2>5
<1>15. Archive!Mined(w) = Archive!Mined(base) \cup txs
  <2>1. Archive!Mined(v) = Archive!Mined(base) \cup Archive!Mined(u)
    BY <1>11, <1>12, MinedJoin
  <2>2. Archive!Mined(u) = txs
    <3>1. Archive!Mined(u) = b.txs
      BY <1>10, MinedOne
    <3> QED BY <1>4, <3>1
  <2>3. Archive!Mined(w) = Archive!Mined(v) \cup Archive!Mined(e)
    <3>1. v \in Seq(S) /\ e \in Seq(S)
      BY <1>11, <1>13
    <3>2. Archive!Mined(v \o e) = Archive!Mined(v) \cup Archive!Mined(e)
      BY <3>1, MinedJoin
    <3> QED BY <1>12, <3>2
  <2> QED BY <1>8, <2>1, <2>2, <2>3
<1>16. Archive!Mined(w) \subseteq Public
  BY <1>7, <1>15 DEF Public
<1>17. Archive!Switch(w)
  BY <1>3, <1>4, <1>10, <1>12
<1>18. Archive!Commit \in Archive!Mined(w) => anchored'
  BY <1>17 DEF Archive!Switch
<1>19. Plain(w) /\ Len(w) > Len(chain)
  <2>1. Len(chain) \in Nat
    BY <1>5 DEF Chained, Plain
  <2> QED BY <1>13, <1>14, <2>1, PlainSeq
<1> QED BY <1>16, <1>17, <1>18, <1>19, SwitchStep

LEMMA ReturnStep ==
  ASSUME Archive!ArchiveAssumption, ArchiveInv, Archive!Return
  PROVE  ArchiveInv'
<1>1. PICK n, e, s : n = Len(chain) + 1 - Len(stale) /\ e = Archive!Empty(n) /\ s = stale
  OBVIOUS
<1>2. Archive!Switch(s \o e)
  BY <1>1 DEF Archive!Return
<1>3. Plain(s) /\ n \in Nat /\ Len(s) + n = Len(chain) + 1 /\ Len(chain) \in Nat
  BY <1>1 DEF ArchiveInv, Chained, Plain
<1>4. e \in Seq(Archive!ToSet(e)) /\ Archive!Mined(e) = {} /\ Len(e) = n
  BY <1>1, <1>3, MinedEmpty
<1>5. PICK S : S = Archive!ToSet(s) \cup Archive!ToSet(e)
  OBVIOUS
<1>6. s \in Seq(S) /\ e \in Seq(S)
  BY <1>3, <1>4, <1>5 DEF Plain
<1>7. PICK w : w = s \o e
  OBVIOUS
<1>8. w \in Seq(S) /\ Len(w) = Len(s) + Len(e)
  BY <1>6, <1>7
<1>9. Plain(w) /\ Len(w) > Len(chain)
  BY <1>3, <1>4, <1>8, PlainSeq
<1>10. Archive!Mined(w) = Archive!Mined(s)
  <2>1. Archive!Mined(w) = Archive!Mined(s) \cup Archive!Mined(e)
    BY <1>6, <1>7, MinedJoin
  <2> QED BY <1>4, <2>1
<1>11. Archive!Mined(w) \subseteq Public
  BY <1>1, <1>10 DEF Public
<1>12. Archive!Commit \in Archive!Mined(w) => anchored'
  BY <1>2, <1>7 DEF Archive!Switch
<1> QED BY <1>2, <1>7, <1>9, <1>11, <1>12, SwitchStep

(* The mempool loses transactions, or gains the rival. *)
LEMMA PoolSteps ==
  ASSUME Archive!ArchiveAssumption, ArchiveInv, Archive!Evict \/ Archive!Spend
  PROVE  ArchiveInv'
<1>1. /\ UNCHANGED <<chain, stale, reorgs, anchored, story, cmd>>
      /\ mempool' \subseteq mempool \cup {Archive!Rival}
  BY DEF Archive!Evict, Archive!Spend, Archive!Frozen
<1>2. Chained'
  BY <1>1 DEF ArchiveInv, Chained, Plain
<1>3. Shown'
  <2>1. Archive!Mined(chain)' = Archive!Mined(chain) /\ Archive!Mined(stale)' = Archive!Mined(stale)
    BY <1>1
  <2>2. Public' \subseteq Public \cup {Archive!Rival}
    BY <1>1, <2>1 DEF Public
  <2>3. Public' \cap Archive!Revealed # {} => Ground
    BY <2>2, CommitNoReveal DEF ArchiveInv, Shown
  <2> QED BY <1>1, <2>1, <2>3 DEF ArchiveInv, Shown, Ground
<1>4. CommandOk(cmd)'
  BY <1>1 DEF ArchiveInv, CommandOk, Sends, Known, Watching, Judging, OnTip, Ground,
              Archive!Hash, Plain
<1> QED BY <1>2, <1>3, <1>4 DEF ArchiveInv
(* Commands that go on, or begin, with nothing new to send. *)
LEMMA GoesOn ==
  ASSUME ArchiveInv, cmd.at \notin {"observe", "judge"}, NEW c, cmd' = c, story' = story,
         Archive!Quiet, DOMAIN c = Fields, c.todo = cmd.todo,
         c.at \notin {"observe", "judge", "tip", "look", "funding", "send"}
  PROVE  ArchiveInv'
<1>1. Ground \/ Sends(c)
  BY DEF ArchiveInv, CommandOk, Sends
<1>2. CommandOk(c)
  BY <1>1, Elsewhere
<1> QED BY <1>2, QuietStep

LEMMA Starts ==
  ASSUME ArchiveInv, NEW c, cmd' = c, story' = story, Archive!Quiet,
         DOMAIN c = Fields, c.todo = <<>>,
         c.at \notin {"observe", "judge", "tip", "look", "funding", "send"}
  PROVE  ArchiveInv'
<1>1. Sends(c)
  BY DEF Sends
<1>2. CommandOk(c)
  BY <1>1, Elsewhere
<1> QED BY <1>2, QuietStep

LEMMA IdleFields ==
  ASSUME NEW a, NEW b, NEW d, NEW e
  PROVE  LET c == [Archive!Idle EXCEPT !.is = a, !.at = b, !.files = d]
             g == [Archive!Idle EXCEPT !.is = a, !.at = b, !.next = d]
             h == [Archive!Idle EXCEPT !.is = a, !.at = b, !.start = d, !.next = d, !.moves = e]
             k == [Archive!Idle EXCEPT !.is = a, !.todo = d, !.at = b]
         IN  /\ DOMAIN c = Fields /\ c.at = b /\ c.todo = <<>>
             /\ DOMAIN g = Fields /\ g.at = b /\ g.todo = <<>>
             /\ DOMAIN h = Fields /\ h.at = b /\ h.todo = <<>>
             /\ DOMAIN k = Fields /\ k.at = b /\ k.todo = d /\ k.seen = <<>>
<1>1. PICK i : i = Archive!Idle
  OBVIOUS
<1>2. DOMAIN i = Fields /\ i.at = "idle" /\ i.todo = <<>> /\ i.seen = <<>>
  BY <1>1, IdleShape DEF Archive!Idle
<1> QED BY <1>1, <1>2 DEF Fields

LEMMA BeginStep ==
  ASSUME ArchiveInv, NEW way, Archive!Begin(way)
  PROVE  ArchiveInv'
<1>1. PICK where : /\ cmd' = [Archive!Idle EXCEPT !.is = way, !.todo = <<Archive!Commit>>, !.at = where]
                   /\ where \in {"look", "submit", "tip"}
                   /\ story' = story /\ Archive!Quiet
  BY DEF Archive!Begin, Archive!Goes
<1>2. PICK c : c = [Archive!Idle EXCEPT !.is = way, !.todo = <<Archive!Commit>>, !.at = where]
  OBVIOUS
<1>3. DOMAIN c = Fields /\ c.at = where /\ c.todo = <<Archive!Commit>> /\ c.seen = <<>>
  BY <1>2, IdleFields
<1>4. CommandOk(c)
  BY <1>1, <1>3 DEF CommandOk, Sends, Known, Watching, Judging
<1> QED BY <1>1, <1>2, <1>4, QuietStep

LEMMA RecoverSteps ==
  ASSUME ArchiveInv,
         \/ Archive!StartRecover \/ Archive!ScanHash \/ Archive!ScanPrevious
         \/ Archive!ScanBlock \/ Archive!ScanEnd \/ Archive!Exporting
  PROVE  ArchiveInv'
<1>0. DOMAIN cmd = Fields
  BY DEF ArchiveInv, CommandOk
<1>1. CASE Archive!StartRecover
  <2>1. PICK start :
          cmd' = [Archive!Idle EXCEPT !.is = "recover", !.at = "hash", !.start = start,
                                      !.next = start, !.moves = Len(chain)]
    BY <1>1 DEF Archive!StartRecover, Archive!Goes
  <2>2. story' = story /\ Archive!Quiet
    BY <1>1 DEF Archive!StartRecover, Archive!Goes
  <2>3. PICK c, n : /\ n = Len(chain)
                    /\ c = [Archive!Idle EXCEPT !.is = "recover", !.at = "hash", !.start = start,
                                                !.next = start, !.moves = n]
    OBVIOUS
  <2>4. DOMAIN c = Fields /\ c.at = "hash" /\ c.todo = <<>>
    BY <2>3, IdleFields
  <2> QED BY <2>1, <2>2, <2>3, <2>4, Starts
<1>2. CASE Archive!ScanHash
  <2>1. /\ cmd.at = "hash" /\ story' = story /\ Archive!Quiet
        /\ cmd' = [cmd EXCEPT !.at = "previous", !.tip = Archive!Hash(cmd.moves), !.moves = 0]
    BY <1>2 DEF Archive!ScanHash, Archive!Running, Archive!Goes
  <2>2. PICK c : c = [cmd EXCEPT !.at = "previous", !.tip = Archive!Hash(cmd.moves), !.moves = 0]
    OBVIOUS
  <2>3. DOMAIN c = Fields /\ c.at = "previous" /\ c.todo = cmd.todo
    BY <1>0, <2>2 DEF Fields
  <2> QED BY <2>1, <2>2, <2>3, GoesOn
<1>3. CASE Archive!ScanPrevious
  <2>1. /\ cmd.at = "previous" /\ story' = story /\ Archive!Quiet
        /\ cmd' = [cmd EXCEPT !.at = "block", !.last = Archive!Hash(cmd.next - 1)]
    BY <1>3 DEF Archive!ScanPrevious, Archive!Running, Archive!Goes
  <2>2. PICK c : c = [cmd EXCEPT !.at = "block", !.last = Archive!Hash(cmd.next - 1)]
    OBVIOUS
  <2>3. DOMAIN c = Fields /\ c.at = "block" /\ c.todo = cmd.todo
    BY <1>0, <2>2 DEF Fields
  <2> QED BY <2>1, <2>2, <2>3, GoesOn
<1>4. CASE Archive!ScanBlock
  <2>1. /\ cmd.at = "block" /\ story' = story /\ Archive!Quiet
        /\ \/ Archive!Ends
           \/ \E hash, objects :
                 cmd' = [cmd EXCEPT !.next = @ + 1, !.last = hash, !.objects = objects]
    BY <1>4 DEF Archive!ScanBlock, Archive!Running, Archive!Goes, Archive!Ends
  <2>2. CASE \E hash, objects :
                 cmd' = [cmd EXCEPT !.next = @ + 1, !.last = hash, !.objects = objects]
    <3>1. PICK hash, objects :
                 cmd' = [cmd EXCEPT !.next = @ + 1, !.last = hash, !.objects = objects]
      BY <2>2
    <3>2. PICK c : c = [cmd EXCEPT !.next = @ + 1, !.last = hash, !.objects = objects]
      OBVIOUS
    <3>3. DOMAIN c = Fields /\ c.at = "block" /\ c.todo = cmd.todo
      BY <1>0, <2>1, <3>2 DEF Fields
    <3> QED BY <2>1, <3>1, <3>2, <3>3, GoesOn
  <2> QED BY <2>1, <2>2, EndsStep
<1>5. CASE Archive!ScanEnd
  <2>1. /\ cmd.at = "block" /\ story' = story /\ Archive!Quiet
        /\ \/ Archive!Ends
           \/ cmd' = [cmd EXCEPT !.at = "export", !.files = Archive!Export(cmd.objects)]
    BY <1>5 DEF Archive!ScanEnd, Archive!Running, Archive!Goes, Archive!Ends
  <2>2. PICK c : c = [cmd EXCEPT !.at = "export", !.files = Archive!Export(cmd.objects)]
    OBVIOUS
  <2>3. DOMAIN c = Fields /\ c.at = "export" /\ c.todo = cmd.todo
    BY <1>0, <2>2 DEF Fields
  <2> QED BY <2>1, <2>2, <2>3, GoesOn, EndsStep
<1>6. CASE Archive!Exporting
  <2>1. cmd' = Archive!Idle /\ story' = story /\ Archive!Quiet
    BY <1>6 DEF Archive!Exporting
  <2> QED BY <2>1, IdleOk, QuietStep
<1> QED BY <1>1, <1>2, <1>3, <1>4, <1>5, <1>6

LEMMA OfflineSteps ==
  ASSUME ArchiveInv,
         \/ Archive!OpenContainer \/ Archive!RecoverContainer \/ Archive!RecoverLocal
         \/ Archive!StartStore \/ Archive!StoreRecord
  PROVE  ArchiveInv'
<1>0. DOMAIN cmd = Fields
  BY DEF ArchiveInv, CommandOk
<1>1. CASE Archive!OpenContainer \/ Archive!RecoverContainer \/ Archive!RecoverLocal
  <2>1. /\ story' = story /\ Archive!Quiet
        /\ \E way, files :
              cmd' = [Archive!Idle EXCEPT !.is = way, !.at = "export", !.files = files]
    BY <1>1 DEF Archive!OpenContainer, Archive!RecoverContainer, Archive!RecoverLocal,
                Archive!Goes, Archive!Reading
  <2>2. PICK way, files :
              cmd' = [Archive!Idle EXCEPT !.is = way, !.at = "export", !.files = files]
    BY <2>1
  <2>3. PICK c : c = [Archive!Idle EXCEPT !.is = way, !.at = "export", !.files = files]
    OBVIOUS
  <2>4. DOMAIN c = Fields /\ c.at = "export" /\ c.todo = <<>>
    BY <2>3, IdleFields
  <2> QED BY <2>1, <2>2, <2>3, <2>4, Starts
<1>2. CASE Archive!StartStore
  <2>1. /\ story' = story /\ Archive!Quiet
        /\ cmd' = [Archive!Idle EXCEPT !.is = "store", !.at = "write", !.next = 1]
    BY <1>2 DEF Archive!StartStore
  <2>2. PICK c : c = [Archive!Idle EXCEPT !.is = "store", !.at = "write", !.next = 1]
    OBVIOUS
  <2>3. DOMAIN c = Fields /\ c.at = "write" /\ c.todo = <<>>
    BY <2>2, IdleFields
  <2> QED BY <2>1, <2>2, <2>3, Starts
<1>3. CASE Archive!StoreRecord
  <2>1. /\ cmd.at = "write" /\ story' = story /\ Archive!Quiet
        /\ cmd' = Archive!Idle \/ cmd' = [cmd EXCEPT !.next = @ + 1]
    BY <1>3 DEF Archive!StoreRecord, Archive!Running
  <2>2. PICK c : c = [cmd EXCEPT !.next = @ + 1]
    OBVIOUS
  <2>3. DOMAIN c = Fields /\ c.at = "write" /\ c.todo = cmd.todo
    BY <1>0, <2>1, <2>2 DEF Fields
  <2> QED BY <2>1, <2>2, <2>3, GoesOn, IdleOk, QuietStep
<1> QED BY <1>1, <1>2, <1>3

LEMMA PlanSteps ==
  ASSUME ArchiveInv, Archive!Prepare \/ Archive!Sign \/ Archive!Interrupt
  PROVE  ArchiveInv'
<1>1. story' = story /\ Archive!Quiet /\ (cmd' = cmd \/ cmd' = Archive!Idle)
  BY DEF Archive!Prepare, Archive!Sign, Archive!Interrupt
<1>2. CommandOk(cmd)
  BY DEF ArchiveInv
<1> QED BY <1>1, <1>2, IdleOk, QuietStep

LEMMA ArchiveInit ==
  ASSUME Archive!ArchiveAssumption, Archive!Init
  PROVE  ArchiveInv
<1>1. /\ story \in Stories /\ chain = story.chain /\ stale = <<>> /\ reorgs = 0
      /\ mempool = {Archive!Funding} \ Archive!Mined(story.chain)
      /\ cmd = Archive!Idle /\ anchored = (Archive!Commit \in Archive!Mined(story.chain))
  BY DEF Archive!Init
<1>2. /\ story.chain \in Seq(Archive!ToSet(story.chain))
      /\ Archive!Consistent(Archive!Mined(story.chain))
      /\ story.foreign \cap Archive!Planned = {}
  BY <1>1 DEF Archive!ArchiveAssumption
<1>3. Plain(<<>>) /\ Len(<<>>) = 0 /\ Archive!Mined(<<>>) = {}
  BY DEF Plain, Archive!Mined
<1>4. Chained
  <2>1. Plain(chain) /\ Plain(stale)
    BY <1>1, <1>2, <1>3 DEF Plain
  <2>2. Len(stale) = 0 /\ Len(chain) \in Nat
    BY <1>1, <1>2, <1>3
  <2> QED BY <1>1, <2>1, <2>2 DEF Chained
<1>5. Archive!Mined(chain) \cap Archive!Revealed # {} => anchored
  BY <1>1, <1>2 DEF Archive!Consistent
<1>6. Shown
  <2>1. Archive!Mined(stale) = {}
    BY <1>1, <1>3
  <2>2. mempool \cap Archive!Revealed = {}
    BY <1>1, CommitNoReveal
  <2> QED BY <1>1, <1>2, <1>5, <2>1, <2>2 DEF Shown, Public, Ground
<1> QED BY <1>1, <1>4, <1>6, IdleOk DEF ArchiveInv

LEMMA ArchiveStep ==
  ASSUME Archive!ArchiveAssumption, ArchiveInv, [Archive!Next]_(Archive!vars)
  PROVE  ArchiveInv'
<1>1. CASE Archive!Step
  BY <1>1, CoreSteps, SubmitStep, SendStep, RegtestSteps, NoteTipStep, ObserveStep, RecheckStep,
     JudgeStep, RecoverSteps, OfflineSteps DEF Archive!Step
<1>2. CASE Archive!Begins
  BY <1>2, BeginStep, RecoverSteps, OfflineSteps
     DEF Archive!Begins, Archive!BeginPublishing, Archive!StartStatus
<1>3. CASE UNCHANGED Archive!vars
  <2>1. story' = story /\ Archive!Quiet /\ cmd' = cmd
    BY <1>3 DEF Archive!vars, Archive!Quiet, Archive!world
  <2> QED BY <2>1, QuietStep DEF ArchiveInv
<1> QED BY <1>1, <1>2, <1>3, PlanSteps, MineStep, ReorganizeStep, ReturnStep, PoolSteps
       DEF Archive!Next

(* Whatever the chain, the relays and the operator do, a status of           *)
(* "confirmed" means that the whole plan is in the blocks up to the tip it   *)
(* names, unless the chain left that tip and came back (status_plan).        *)
THEOREM ConfirmedIsOneChain ==
  Archive!ArchiveAssumption => (Archive!Spec => []Archive!ReportHonest)
<1> SUFFICES ASSUME Archive!ArchiveAssumption PROVE Archive!Spec => []Archive!ReportHonest
  OBVIOUS
<1>1. Archive!Init => ArchiveInv
  BY ArchiveInit
<1>2. ArchiveInv /\ [Archive!Next]_(Archive!vars) => ArchiveInv'
  BY ArchiveStep
<1>3. ArchiveInv => Archive!ReportHonest
  <2> SUFFICES ASSUME ArchiveInv, cmd.at = "judge", Archive!Word(cmd.seen) = "confirmed",
                      cmd.moves < 2
               PROVE  Archive!Planned \subseteq Archive!Mined(cmd.tip)
    BY DEF Archive!ReportHonest
  <2>1. Archive!Planned \subseteq DOMAIN cmd.seen /\ OnTip(cmd) /\ Known(cmd)
    BY DEF ArchiveInv, CommandOk, Judging
  <2>2. /\ cmd.seen[Archive!Commit] \notin {"unknown", "pending"}
        /\ {cmd.seen[t] : t \in Archive!Revealed} = {"confirmed"}
    BY DEF Archive!Word
  <2>3. Archive!Planned = {Archive!Commit} \cup Archive!Revealed
    BY WholePlan
  <2>4. ASSUME NEW t \in Archive!Planned PROVE cmd.seen[t] = "confirmed"
    BY <2>1, <2>2, <2>3 DEF Known
  <2> QED BY <2>1, <2>4 DEF OnTip
<1> QED BY <1>1, <1>2, <1>3, PTL DEF Archive!Spec

(* No reveal is on the network before the commit was in a block, on any      *)
(* branch and by any command, unless the operator allowed it                 *)
(* (broadcast_plan, next_step, litecoin::broadcast).                         *)
THEOREM RevealsFollowTheCommit ==
  Archive!ArchiveAssumption => (Archive!Spec => []Archive!RevealAfterCommit)
<1> SUFFICES ASSUME Archive!ArchiveAssumption PROVE Archive!Spec => []Archive!RevealAfterCommit
  OBVIOUS
<1>1. Archive!Init => ArchiveInv
  BY ArchiveInit
<1>2. ArchiveInv /\ [Archive!Next]_(Archive!vars) => ArchiveInv'
  BY ArchiveStep
<1>3. ArchiveInv => Archive!RevealAfterCommit
  <2>1. ArchiveInv => ((Archive!Mined(chain) \cup mempool) \cap Archive!Revealed # {} => Ground)
    BY DEF ArchiveInv, Shown, Public
  <2> QED BY <2>1 DEF Archive!RevealAfterCommit, Ground
<1> QED BY <1>1, <1>2, <1>3, PTL DEF Archive!Spec
=============================================================================
