---------------------------- MODULE MCNamesSync ----------------------------
(* A block tree for NamesSync: the genesis block g and, above it, three    *)
(* branches that mine the commits c and d at different heights; o is a     *)
(* rival of g.                                                             *)
EXTENDS NamesSync

MCBlocks == {"g", "o", "a1", "a2", "a3", "a4", "x2", "x3", "b1", "b2", "b3", "b4"}
MCChains ==
    {<<"g">>, <<"o", "b1">>, <<"g", "a1">>, <<"g", "a1", "a2", "a3">>,
     <<"g", "a1", "a2", "a3", "a4">>, <<"g", "a1", "x2">>, <<"g", "a1", "x2", "x3">>,
     <<"g", "b2", "b3">>, <<"g", "b2", "b3", "b4">>}
MCGenesisBlocks == {"g"}
Nothing == [c \in {} |-> 0]
MCCommitsIn ==
    [b \in MCBlocks |-> CASE b = "a1" -> [c \in {"c"} |-> 1]
                          [] b = "b2" -> [c \in {"c", "d"} |-> 2]
                          [] b = "a2" -> [c \in {"d"} |-> 1]
                          [] OTHER -> Nothing]
MCRevealsIn ==
    [b \in MCBlocks |-> CASE b \in {"a3", "x3"} -> {"c"}
                          [] b \in {"a4", "b4"} -> {"d"}
                          [] OTHER -> {}]
=============================================================================
