--------------------------- MODULE MCDiskPublish ---------------------------
(* Plans for DiskPublish: those the writer signs, and what another tool     *)
(* could have written with valid signatures and digests: records left out,  *)
(* repeated, in another order, of two plans, or with a reference missing.   *)
EXTENDS DiskPublish

MCSigned == {Written(length, <<Funding(length)>>, Quote(length)) : length \in 0..MaxLength}

(* plan.json of a sequence of pairs, fees and root as they are. *)
Declared(pairs) ==
    LET fees == [k \in DOMAIN pairs |-> Total(pairs[k].inputs) - pairs[k].change - Retained]
    IN  [records |-> pairs, total |-> Total(fees), maximum |-> Total(fees),
         root |-> IF pairs = <<>> THEN 0 ELSE pairs[Len(pairs)].record.id]

(* The commits chained as the writer would have signed that sequence. *)
Chained(records, coin) ==
    LET s == FoldLeft(LAMBDA t, record : Prepare(t, record, coin), NewPlanner(<<coin>>), records)
    IN  Declared(s.pairs)

Records(p) == [k \in DOMAIN p.records |-> p.records[k].record]
Swapped(s, j, k) == [s EXCEPT ![j] = s[k], ![k] = s[j]]

Swaps(s) == UNION {{Swapped(s, j, k) : k \in (j + 1)..Len(s)} : j \in DOMAIN s}

Rewritten(s) ==
    {RemoveAt(s, k) : k \in DOMAIN s}
    \cup {Append(s, s[k]) : k \in DOMAIN s}
    \cup Swaps(s)
    \cup {[s EXCEPT ![k].entries = Tail(@)] : k \in {m \in DOMAIN s : Len(s[m].entries) > 0}}
    \cup {[s EXCEPT ![k].entries = Reverse(@)] : k \in {m \in DOMAIN s : Len(s[m].entries) > 1}}
    \cup {[s EXCEPT ![k].units = @ + 1] : k \in {m \in DOMAIN s : s[m].kind # "leaf"}}

(* Pairs in another order, with the funding they were signed with. *)
Reordered(s) ==
    {RemoveAt(s, k) : k \in DOMAIN s} \cup Swaps(s)

(* Each record with a coin of its own. *)
Apart(s) == [k \in DOMAIN s |-> Pair(NewPlanner(<<100>>), s[k])]

MCPlans ==
    MCSigned
    \cup {Chained(records, 100) : records \in UNION {Rewritten(Records(p)) : p \in MCSigned}}
    \cup {Declared(pairs) : pairs \in UNION {Reordered(p.records) : p \in MCSigned}}
    \cup {Declared(Apart(Records(p))) : p \in MCSigned}
    \cup {[p EXCEPT !.maximum = @ - 1] : p \in MCSigned}

(* One data part, one leaf and the root. *)
MCRoles == <<"data", "leaf", "root">>
=============================================================================
