------------------------------ MODULE WebStore ------------------------------
(***************************************************************************)
(* The store of verified publications of urma-web (store.rs): content-      *)
(* addressed objects, transactions named by their TXID and one pointer per  *)
(* publication.  A file is absent, good, or bad: present with bytes that    *)
(* its name does not match.  Whatever is read is verified again, so what    *)
(* matters of a file is which of the three it is.                           *)
(***************************************************************************)
EXTENDS Naturals, FiniteSets

CONSTANTS
  Roots,         \* the publications
  Objects,       \* the objects that publications pin
  Pins           \* Pins[r] : the objects the package of r pins

ASSUME StoreAssumption == Pins \in [Roots -> SUBSET Objects]

Kinds == {"payload", "proofs", "pointer"}   \* proofs: the reveal and its commit
Transactions == {"proofs"} \X Roots
Files == (Kinds \X Roots) \cup ({"pin"} \X Objects)

\* The files a publication consists of.
FilesOf(r) == (Kinds \X {r}) \cup ({"pin"} \X Pins[r])

Empty == [f \in Files |-> "absent"]

\* An object that is there is never written again.
PutObjectsOnce(store, S) ==                               \* mutant
  [f \in Files |-> IF f \in S /\ store[f] = "absent" THEN "good" ELSE store[f]]

\* put_object: bytes that differ from what is there replace it.
PutObjects(store, S) == [f \in Files |-> IF f \in S THEN "good" ELSE store[f]]

\* put_object_immutable and put_transaction: what is there must agree.
Agrees(store, f) == store[f] # "bad"
PutNew(store, f) == [store EXCEPT ![f] = "good"]

\* put_pointer replaces the pointer that is there.
PutPointer(store, r) == [store EXCEPT ![<<"pointer", r>>] = "good"]

\* publication: the pointer, the proofs, the payload with its
\* package, and every pinned object.
Verifies(store, r) == \A f \in FilesOf(r) : store[f] = "good"

\* Whether the package of r declares a path.
Declares(r, path) == path = "pin" => Pins[r] # {}

\* serve and rooted: embedded files come with the verified package, a pinned
\* object is read and hashed again, a proof reads both transactions.
Intact(store, r, path) ==
  CASE path = "entry" -> TRUE
    [] path = "pin" -> \A o \in Pins[r] : store[<<"pin", o>>] = "good"
    [] path = "proof" -> store[<<"proofs", r>>] = "good"
=============================================================================
