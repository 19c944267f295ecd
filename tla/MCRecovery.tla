----------------------------- MODULE MCRecovery -----------------------------
(***************************************************************************)
(* Instances of Recovery: an object of three bytes in three data records   *)
(* under two leaves, its malformed relatives, and the histories of the     *)
(* chain and of the providers under which it is cloned.                    *)
(***************************************************************************)
EXTENDS Recovery

Txids == {"root", "l0", "l1", "p0", "p1", "p2"}

Rec(kind, index, entries, bytes, commit) ==
    [kind |-> kind, author |-> "alice", index |-> index, entries |-> entries,
     bytes |-> bytes, commit |-> commit, length |-> 0, digest |-> <<>>, hash |-> Nothing]
To(t) == [txid |-> t, hash |-> t]

\* The two parts of the first leaf share a commit transaction.
Whole ==
    LET raw == [root |-> [Rec("root", 0, <<To("l0"), To("l1")>>, <<>>, "c1")
                              EXCEPT !.length = 3, !.digest = <<1, 2, 3>>],
                l0 |-> Rec("leaf", 0, <<To("p0"), To("p1")>>, <<>>, "c1"),
                l1 |-> Rec("leaf", 1, <<To("p2")>>, <<>>, "c2"),
                p0 |-> Rec("data", 0, <<>>, <<1>>, "c3"),
                p1 |-> Rec("data", 1, <<>>, <<2>>, "c3"),
                p2 |-> Rec("data", 2, <<>>, <<3>>, "c4")]
    IN  [t \in Txids |-> [raw[t] EXCEPT !.hash = t]]

\* One byte, one part, one leaf: what the fault histories are played on.
Small ==
    [Whole EXCEPT !["root"].length = 2, !["root"].digest = <<1, 2>>,
                  !["root"].entries = <<To("l0")>>]

Empty ==
    [Whole EXCEPT !["root"].length = 0, !["root"].digest = <<>>,
                  !["root"].entries = <<To("l1")>>,
                  !["l1"].index = 0, !["p2"].index = 0, !["p2"].bytes = <<>>]

Broken ==
    { [Whole EXCEPT !["p1"].author = "mallory"],
      [Whole EXCEPT !["l1"].author = "mallory"],
      [Whole EXCEPT !["l1"].entries = <<To("p0")>>],
      [Whole EXCEPT !["l1"].entries = <<To("root")>>],
      [Whole EXCEPT !["l0"].entries = <<To("p0"), To("p0")>>],
      [Whole EXCEPT !["root"].entries = <<To("l0"), To("l0")>>],
      [Whole EXCEPT !["root"].entries = <<To("l1"), To("l0")>>],
      [Whole EXCEPT !["root"].entries = <<To("l0"), [txid |-> "l1", hash |-> "p0"]>>],
      [Whole EXCEPT !["l0"].entries = <<To("p1"), To("p0")>>],
      [Whole EXCEPT !["l0"].entries = <<To("p0")>>],
      [Whole EXCEPT !["l0"].entries = <<To("p0"), To("l1")>>],
      [Whole EXCEPT !["root"].digest = <<1, 2, 4>>],
      [Whole EXCEPT !["root"].length = 2],
      [Whole EXCEPT !["p2"].bytes = <<3, 3>>],
      [Whole EXCEPT !["root"].kind = "leaf"] }

Block(id, txs) == [id |-> id, txs |-> txs]
Calm == << <<Block("b1", Txids)>> >>

\* The parts are reorganized out and mined again, first higher and then lower.
Reorgs ==
    << <<Block("b1", {"root", "l0", "l1"}), Block("b2", {"p0"}), Block("b3", {"p1", "p2"})>>,
       <<Block("b1", {"root", "l0", "l1"}), Block("b2", {"p0"}), Block("c3", {"p2"}),
         Block("c4", {"p1"})>>,
       <<Block("b1", {"root", "l0", "l1"}), Block("d2", {"p0", "p1", "p2"}),
         Block("d3", {}), Block("d4", {}), Block("d5", {})>> >>

\* The last records are mined after the clone began.
Late ==
    << <<Block("b1", {"root", "l0", "l1", "p0"})>>,
       <<Block("b1", {"root", "l0", "l1", "p0"}), Block("b2", {"p1", "p2"})>> >>

Honest == [p \in {"a"} |-> [t \in Txids |-> "good"]]

\* One provider serves unprovable witnesses, one lacks records, one is honest.
Mixed ==
    [p \in {"a", "b", "c"} |->
        [t \in Txids |-> CASE p = "a" -> "good"
                           [] p = "b" -> IF t \in {"root", "p1"} THEN "bad" ELSE "none"
                           [] p = "c" -> IF t = "p1" THEN "bad" ELSE "none"]]

Story(records, chains, serves, limit, archive, git, rival) ==
    [root |-> "root", records |-> records, chains |-> chains, serves |-> serves,
     faults |-> limit, archive |-> archive, git |-> git, rival |-> rival]

MCStories ==
    {Story(g, Calm, Honest, 0, {}, TRUE, FALSE) : g \in Broken}
    \cup {Story(g, Calm, Honest, 0, Txids, TRUE, FALSE) : g \in Broken}
    \cup { Story(Whole, Calm, Mixed, 0, {}, TRUE, FALSE),
           Story(Whole, Reorgs, Mixed, 1, {}, TRUE, TRUE),
           Story(Whole, Calm, Honest, 1, Txids, TRUE, TRUE),
           Story(Whole, Calm, Honest, 0, Txids \ {"p2"}, FALSE, FALSE),
           Story(Empty, Calm, Honest, 0, {}, TRUE, FALSE),
           Story(Small, Late, Honest, 1, {}, TRUE, FALSE),
           Story(Small, Calm, Mixed, 2, {}, TRUE, TRUE) }
=============================================================================
