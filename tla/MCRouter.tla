------------------------------ MODULE MCRouter ------------------------------
(* A light client, an HTTP source and an Electrum server, called by two      *)
(* threads.                                                                  *)
EXTENDS Router, TLC

CONSTANTS p2p, esplora, electrum, t1, t2

MCIndex == p2p :> 1 @@ esplora :> 2 @@ electrum :> 3
Call(method, preferred, avoid) == [method |-> method, preferred |-> preferred, avoid |-> avoid]
Tip == Call("getblockchaininfo", None, {})
Tx(preferred, avoid) == Call("getrawtransaction", preferred, avoid)

MCRequests ==
  t1 :> {Tx(electrum, {}), Tx(None, {esplora, electrum})} @@
  t2 :> {Tip}
=============================================================================
