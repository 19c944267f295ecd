--------------------------- MODULE MCGitWorkspace ---------------------------
(* One commit with one object of more findings than the limit, one of two   *)
(* objects with a finding each and a payload of two parts, and one on no    *)
(* branch.  Either process may publish a plan that lies in the directory.    *)
EXTENDS GitWorkspace

CONSTANTS c1, c2, c3, k1, k2, k3, p1, p2

MCHeads == {c1, c2, c3}
MCInventory == [c \in MCHeads |-> IF c = c2 THEN <<"o2", "o3">> ELSE <<"o1">>]
MCMarks == [o1 |-> 3, o2 |-> 1, o3 |-> 1]
MCSize == [c \in MCHeads |-> IF c = c2 THEN 2 ELSE 1]
MCFaults == [c \in MCHeads |-> IF c = c3 THEN {"detached"} ELSE {}]
MCCoins == <<k1, k2, k3>>
MCValue == [k \in {k1, k2, k3} |-> IF k = k1 THEN Funding(2) ELSE Funding(1)]
MCRuns == [p \in {p1, p2} |-> IF p = p1 THEN {"publish", "publish plan", "resume"}
                              ELSE {"prepare", "review", "publish plan"}]
=============================================================================
