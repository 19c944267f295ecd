---------------------------- MODULE MCWireIndex ----------------------------
(* A tree of blocks for WireIndex: a main branch, a fork of it and a fork of *)
(* the fork.  Height 1 lies below the index.                                 *)
EXTENDS WireIndex, TLC

CONSTANTS w1, w2, w3

MCWorkers == {w1, w2, w3}
MCBlocks == {"a1", "a2", "a3", "a4", "a5", "b3", "b4", "c4"}
MCPrev == [b \in MCBlocks |->
             CASE b = "a1" -> None [] b = "a2" -> "a1" [] b \in {"a3", "b3"} -> "a2"
               [] b = "a4" -> "a3" [] b \in {"b4", "c4"} -> "b3" [] b = "a5" -> "a4"]
MCChains == {<<"a1", "a2", "a3">>, <<"a1", "a2", "a3", "a4", "a5">>,
             <<"a1", "a2", "b3", "b4">>, <<"a1", "a2", "b3", "c4">>}
MCPosts == {"a3", "b3", "c4", "a5"}
=============================================================================
