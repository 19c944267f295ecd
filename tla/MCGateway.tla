----------------------------- MODULE MCGateway -----------------------------
(* One name host, answered by two workers, that moves from one publication   *)
(* to another, runs out or is suspended, with an operator's archive that     *)
(* lags or stands still; the publications pin the same object.               *)
EXTENDS Gateway

CONSTANTS old, new, image, w1, w2

MCPins == old :> {image} @@ new :> {image}
Until(root, expiry) == [to |-> root, expiry |-> expiry]
View(p, t) == [point |-> p, tip |-> t]
Moved == [bound |-> <<Until(old, 9), Until(new, 9)>>, views |-> {}, events |-> 1]
MovedUnseen == [bound |-> <<Until(old, 9), Until(new, 9)>>, views |-> {View(1, 1)}, events |-> 0]
Expired == [bound |-> <<Until(old, 3), Until(old, 3), Until("unbound", 0)>>,
  views |-> {View(1, 1), View(2, 2), View(2, 3)}, events |-> 1]
Suspended == [bound |-> <<Until(old, 9), Until("suspended", 9)>>,
  views |-> {View(1, 1), View(1, 2), View(2, 2)}, events |-> 1]
MCStories == {Moved, MovedUnseen, Expired, Suspended}
MCPaths == w1 :> {"pin"} @@ w2 :> {"proof"}
MCRotting == {<<"pin", image>>, <<"proofs", old>>}
MCSizes == old :> 1 @@ new :> 2
=============================================================================
