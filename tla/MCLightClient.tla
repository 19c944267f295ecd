--------------------------- MODULE MCLightClient ---------------------------
(* A small tree of headers for LightClient: two branches above a1, of which  *)
(* the b branch grows longer, one header with bad contents above a2, and one *)
(* that needs history before the checkpoint.                                 *)
EXTENDS LightClient

CONSTANTS a0, a1, a2, b2, b3, x3, y2, p1, p2, c1

MCBlocks == {a0, a1, a2, b2, b3, x3, y2}
MCParent == (a1 :> a0) @@ (a2 :> a1) @@ (b2 :> a1) @@ (b3 :> b2) @@ (x3 :> a2)
            @@ (y2 :> a1)
MCTips == {a2, b3}
MCWork == [b \in MCBlocks |-> 1]
MCVerdict == [b \in MCBlocks |-> CASE b = x3 -> "rule"
                                 [] b = y2 -> "context"
                                 [] OTHER -> "ok"]
============================================================================
