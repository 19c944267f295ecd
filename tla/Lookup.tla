------------------------------- MODULE Lookup -------------------------------
(***************************************************************************)
(* What the router promises its callers: a call samples some of the        *)
(* providers it may ask, each at most once, and ends with the answer of a   *)
(* provider that had the record when it was sampled, with Missing, or with  *)
(* an error.  Which providers are asked, in which order, how often they     *)
(* failed before and what blocks them is the business of Router, which is   *)
(* shown to implement this specification.                                   *)
(***************************************************************************)
EXTENDS Naturals

CONSTANTS
  Providers,     \* the configured providers
  Callers,       \* the threads that call the router
  Light,         \* the providers that serve block data only, no transactions
  None

VARIABLES
  wrong,         \* the providers that follow another network
  holds,         \* the providers that have the record now
  phase,         \* phase[c] : "idle" or "busy"
  request,       \* request[c] : the method called and the providers to avoid
  samples,       \* samples[c] : what the providers asked so far had to say
  result         \* result[c] : how the last call ended

vars == <<wrong, holds, phase, request, samples, result>>

Methods == {"getrawtransaction", "getblockchaininfo"}

NoRequest == [method |-> "getblockchaininfo", avoid |-> {}]

Results == Providers \cup {"missing", "unavailable", None}

Init ==
  /\ wrong \in SUBSET Providers
  /\ holds \in SUBSET Providers
  /\ phase = [c \in Callers |-> "idle"]
  /\ request = [c \in Callers |-> NoRequest]
  /\ samples = [c \in Callers |-> {}]
  /\ result = [c \in Callers |-> None]

Start(c) ==
  /\ phase[c] = "idle"
  /\ phase' = [phase EXCEPT ![c] = "busy"]
  /\ UNCHANGED <<wrong, holds, samples>>
  /\ \E method \in Methods, avoid \in SUBSET Providers :
       request' = [request EXCEPT ![c] = [method |-> method, avoid |-> avoid]]
  /\ result' = [result EXCEPT ![c] = None]

\* Whether p has what the call asks for: every provider has a tip.
Has(p, method) == method = "getblockchaininfo" \/ p \in holds

Sample(c, p) ==
  /\ phase[c] = "busy"
  /\ UNCHANGED <<wrong, holds, phase, request, result>>
  /\ p \notin wrong \cup request[c].avoid
  /\ request[c].method = "getrawtransaction" => p \notin Light
  /\ \A s \in samples[c] : s[1] # p
  /\ samples' = [samples EXCEPT ![c] = @ \cup {<<p, Has(p, request[c].method)>>}]

\* An answer is a sample; absence needs a provider that lacked the record or
\* no provider left to ask; an error means that nobody answered at all.
Justified(c, r) ==
  \/ r \in Providers /\ <<r, TRUE>> \in samples[c]
  \/ /\ r = "missing"
     /\ \A s \in samples[c] : ~s[2]
     /\ samples[c] # {} \/ \A p \in Providers \ Light : p \in request[c].avoid
  \/ r = "unavailable" /\ samples[c] = {}

Finish(c) ==
  /\ phase[c] = "busy"
  /\ phase' = [phase EXCEPT ![c] = "idle"]
  /\ \E r \in Results \ {None} :
       /\ Justified(c, r)
       /\ result' = [result EXCEPT ![c] = r]
  /\ samples' = [samples EXCEPT ![c] = {}]
  /\ request' = [request EXCEPT ![c] = NoRequest]
  /\ UNCHANGED <<wrong, holds>>

Move ==
  /\ holds' \in SUBSET Providers
  /\ UNCHANGED <<wrong, phase, request, samples, result>>

Next ==
  \/ \E c \in Callers :
       \/ Start(c)
       \/ \E p \in Providers : Sample(c, p)
       \/ Finish(c)
  \/ Move

\* Every call that starts ends.
Spec == Init /\ [][Next]_vars /\ \A c \in Callers : WF_vars(Finish(c))
=============================================================================
