------------------------------ MODULE Records ------------------------------
(***************************************************************************)
(* The records ToolDb stores and replicates (type VerificationData) and    *)
(* the two decisions a peer takes about an incoming one: whether           *)
(* verifyMessage lets it through, and whether handlePut lets it replace    *)
(* the record the store already holds for its key.                         *)
(*                                                                         *)
(* A node stands for a peer and for the user account signed in on it, so   *)
(* Node is also the set of authors.  Addresses are compared as strings in  *)
(* the code; here they are naturals, so that a < b orders them.            *)
(***************************************************************************)
EXTENDS Integers

CONSTANTS
    Node,      \* the peers, and the addresses of the users signed in on them
    Key,       \* the keys of the store
    Frozen,    \* the keys of the frozen namespace: those that start with "=="
    Value,     \* the values a user puts
    NoData     \* what the store answers for a key it does not hold

ASSUME NodeAssumption == Node \subseteq Nat
ASSUME FrozenAssumption == Frozen \subseteq Key

Rec == [k : Key, a : Node, t : Int, v : Value]

ASSUME NoDataAssumption == NoData \notin Rec

(***************************************************************************)
(* h = sha256(JSON.stringify(v) + address + timestamp + nonce): the hash   *)
(* covers value, author and timestamp, and does not cover the key.         *)
(***************************************************************************)
Hash(r) == <<r.v, r.a, r.t>>

\* A conflict over a frozen key: its stored record has another author.
Conflict(old, r) == r.k \in Frozen /\ old.a # r.a

(***************************************************************************)
(* verifyMessage answers CantOverwrite for a frozen key that another       *)
(* author already holds with an older or equal timestamp.                  *)
(***************************************************************************)
CantOverwrite(old, r) ==
    /\ old # NoData
    /\ Conflict(old, r)
    /\ old.t <= r.t

\* Mutant of Replaces: the newest record wins over a frozen key too.
NewestReplaces(old, r) == old = NoData \/ old.t < r.t

(***************************************************************************)
(* handlePut puts r in the store in these cases: nothing is stored yet;    *)
(* a conflict that the older timestamp, then the lower address, decides    *)
(* for r; no conflict and r is strictly newer.                             *)
(***************************************************************************)
Replaces(old, r) ==
    \/ old = NoData
    \/ /\ Conflict(old, r)
       /\ \/ r.t < old.t
          \/ r.t = old.t /\ r.a < old.a
    \/ /\ ~Conflict(old, r)
       /\ old.t < r.t

\* The record a handler that is alone with the store leaves in it.
Resolve(old, r) == IF Replaces(old, r) THEN r ELSE old

=============================================================================
