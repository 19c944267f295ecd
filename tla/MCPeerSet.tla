----------------------------- MODULE MCPeerSet -----------------------------
(* A fixed seed, and a peer with an IPv6 address that resolvers name.        *)
EXTENDS PeerSet, TLC

CONSTANTS a1, b1

MCIp == (a1 :> 1) @@ (b1 :> 2)
MCPinnings == {<<>>, <<a1>>}
MCFixed == <<a1>>
============================================================================
