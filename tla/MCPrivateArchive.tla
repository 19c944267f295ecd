-------------------------- MODULE MCPrivateArchive --------------------------
(***************************************************************************)
(* Instances of PrivateArchive: an object of two chunks, the records that  *)
(* may lie beside it, and the bundles that are read offline.               *)
(***************************************************************************)
EXTENDS PrivateArchive

Rec(opens, id, index, count, digest, bytes) ==
    [opens |-> opens, id |-> id, index |-> index, count |-> count,
     digest |-> digest, bytes |-> bytes]

MCReveals == <<"r1", "r2">>
MCRecordOf ==
    [r1 |-> Rec("yes", "o", 1, 2, <<7, 8>>, 7),
     r2 |-> Rec("yes", "o", 2, 2, <<7, 8>>, 8),
     copy |-> Rec("yes", "o", 1, 2, <<7, 8>>, 7),
     twin |-> Rec("yes", "o", 1, 2, <<7, 8>>, 9),
     other |-> Rec("yes", "o", 1, 1, <<7>>, 7),
     forged |-> Rec("rejected", "o", 2, 2, <<7, 8>>, 9),
     stranger |-> Rec("unrelated", "x", 1, 1, <<5>>, 5),
     liar |-> Rec("yes", "p", 1, 1, <<4>>, 3),
     single |-> Rec("yes", "q", 1, 1, <<6>>, 6),
     third |-> Rec("yes", "z", 1, 1, <<1>>, 1)]

MCFanfold == <<"single", "third", "twin", "forged", "stranger", "r1", "r2",
               "copy", "other", "liar">>

Block(txs) == [salt |-> 0, txs |-> txs]
Funded == <<Block({Funding})>>
Published == Funded \o <<Block({Commit, "r1"}), Block({"r2"})>>

\* A story of a journal that is published, of a scan, and of a container.
Push(net, blocks, ways, allow, reorgs, limit) ==
    [net |-> net, chain |-> blocks, ways |-> ways, allow |-> allow, start |-> 0,
     scans |-> FALSE, foreign |-> {}, bundle |-> <<>>, reorgs |-> reorgs, depth |-> 1,
     faults |-> limit]
Scan(foreign, reorgs) ==
    [Push("bitcoin", Published, {}, FALSE, reorgs, 0) EXCEPT
        !.start = 1, !.scans = TRUE, !.depth = 2, !.foreign = foreign]
Read(bundle) ==
    [Push("offline", Funded, {}, FALSE, 0, 1) EXCEPT !.bundle = bundle]

Bundles ==
    LET R == MCRecordOf
        extra == {R[t] : t \in DOMAIN R \ {"r1", "r2"}}
    IN  {<<R["r1"], R["r2"]>>, <<R["r2"], R["r1"]>>, <<R["r1"]>>, <<R["liar"]>>}
        \cup {<<x, R["r1"], R["r2"]>> : x \in extra}
        \cup {<<R["r2"], R["r1"], x>> : x \in extra}

MCStories ==
    { Push("bitcoin", Funded, {"core", "regtest"}, FALSE, 1, 1),
      Push("bitcoin", <<>>, {"relay", "status"}, FALSE, 1, 1),
      Push("bitcoin", <<>>, {"relay"}, TRUE, 1, 0),
      Push("bitcoin", Funded, {"core", "relay"}, FALSE, 0, 1),
      [Push("litecoin", Funded, {"litecoin"}, FALSE, 1, 1) EXCEPT !.scans = TRUE],
      [Scan({}, 2) EXCEPT !.ways = {"status"}] }
    \cup {Scan(f, 1) : f \in {{"copy"}, {"twin"}, {"other"}, {"forged"}, {"liar", "single"},
                             {"stranger", "third", "single"}}}
    \cup {Read(b) : b \in Bundles}
=============================================================================
