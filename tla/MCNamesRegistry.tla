-------------------------- MODULE MCNamesRegistry --------------------------
(* Record catalogues for model checking NamesRegistry: one name, the keys  *)
(* of two owners and of the approvers, and the transactions of a run.      *)
EXTENDS NamesRegistry

CONSTANTS alice, bob, k1, k2, n1, p1, p2, h1, h2

(* A record by `author'; the digest and approved-record fields are unused. *)
R(author, op, target) ==
    [author |-> author, op |-> op, own |-> TRUE, name |-> n1, target |-> target,
     sha256 |-> h1, record_txid |-> "first", record_sha256 |-> h1]

ApproveOf(author, txid, sha) ==
    [R(author, "Approve", Zero) EXCEPT !.record_txid = txid, !.record_sha256 = sha]

MCNames == {n1}
MCKeys == {alice, bob, k1, k2}
MCPublications == {p1, p2}
MCHashes == {h1, h2}
TwoSlots == {1, 2}
KeepOne == {1}

Policy(mode, approvers, threshold) == [mode |-> mode, approvers |-> approvers, threshold |-> threshold]
Open == Policy("Open", {}, 0)
OneOf == Policy("Administered", {k1}, 1)
TwoOf == Policy("Administered", {k1, k2}, 2)
MCPolicies == {Open, OneOf, TwoOf}

MCRec ==
    [x \in {"first", "rival", "free", "update", "stay", "renew", "foreign",
            "a", "more", "a2", "b", "u", "forged", "s1", "again", "s2", "v1", "v2", "stranger"} |->
       CASE x = "first"    -> R(alice, "Claim", p1)
         [] x = "rival"    -> R(bob, "Claim", p2)
         [] x = "free"     -> R(alice, "Update", Zero)
         [] x = "update"   -> R(alice, "Update", p2)
         [] x = "stay"     -> R(alice, "Renew", p1)
         [] x = "renew"    -> R(alice, "Renew", p2)
         [] x = "foreign"  -> [R(alice, "Genesis", Zero) EXCEPT !.own = FALSE]
         [] x \in {"a", "more"} -> ApproveOf(k1, "first", h1)
         [] x = "a2"       -> ApproveOf(k2, "first", h1)
         [] x = "b"        -> ApproveOf(k1, "rival", h1)
         [] x = "u"        -> ApproveOf(k1, "update", h1)
         [] x = "forged"   -> ApproveOf(k1, "update", h2)
         [] x \in {"s1", "again"} -> R(k1, "Suspend", Zero)
         [] x = "s2"       -> R(k2, "Suspend", Zero)
         [] x = "v1"       -> R(k1, "Restore", Zero)
         [] x = "v2"       -> R(k2, "Restore", Zero)
         [] x = "stranger" -> R(bob, "Suspend", Zero)]
MCTxids == DOMAIN MCRec

(* Open: rival claims, an update, a renewal and a record of another registry. *)
(* One approver: rival requests with an approval each and a suspension; an    *)
(* update with an approval and one of another digest; renewals to the target  *)
(* of the request and to another one; a name that expires, is taken by a      *)
(* rival and only then sees its first owner's update approved.                *)
(* Two approvers: a request and its approvals, one of them twice; votes to    *)
(* suspend and to restore, one of them repeated and one of another key.       *)
Stories(p) ==
    CASE p = Open  -> {{"first", "rival", "stay"}, {"first", "free", "stay"},
                       {"first", "foreign"}}
      [] p = OneOf -> {{"first", "rival", "a", "b"}, {"first", "a", "s1"},
                       {"first", "update", "a", "u"}, {"first", "update", "a", "forged"},
                       {"first", "a", "stay", "renew"}, {"first", "update", "a", "rival", "b", "u"}}
      [] p = TwoOf -> {{"first", "a", "more", "a2"}, {"s1", "s2", "v1", "v2"},
                       {"s1", "again", "s2"}, {"s1", "s2", "stranger"}}

(* The reveals of a behaviour are those of one story; the others came with   *)
(* the genesis block or before it, where the registry does not look.         *)
MCEarlier == [p \in MCPolicies |-> {MCTxids \ story : story \in Stories(p)}]

(* A record is signed when what it answers is there, the approval of the     *)
(* update when the rival has the name; equal votes are not told apart.       *)
MCFirst ==
    [t \in MCTxids |-> CASE t = "a" -> {"first"}
                         [] t \in {"update", "more", "stay", "renew"} -> {"a"}
                         [] t \in {"rival", "forged"} -> {"update"}
                         [] t = "b" -> {"rival"}
                         [] t = "u" -> {"b", "update"}
                         [] t \in {"again", "s2", "v1"} -> {"s1"}
                         [] t = "v2" -> {"v1"}
                         [] OTHER -> {}]
=============================================================================
