------------------------------ MODULE KeyTable ------------------------------
(***************************************************************************)
(* What the table api_keys promises the requests, jobs and the gateway     *)
(* that work with it: a user has at most one key, a key at most one owner, *)
(* and once it is replaced, deleted or thrown away unrecorded nobody is    *)
(* given it again.                                                         *)
(*                                                                         *)
(* The specification has no requests, no rows and no gateway: it is the    *)
(* contract that KeyLifecycle.tla and ProfileExpiry.tla, in which requests *)
(* and the expiry runner write to the table from what they once read, are  *)
(* shown to implement.                                                     *)
(***************************************************************************)
CONSTANTS Users, Keys,
          NoKey   \* what keyOf has of a user without a key

VARIABLES keyOf,  \* keyOf[u]: the key u has
          used    \* the keys that are or were somebody's, or never will be

tableVars == <<keyOf, used>>

TypeOK == keyOf \in [Users -> Keys \union {NoKey}] /\ used \subseteq Keys

Init == /\ keyOf = [u \in Users |-> NoKey]
        /\ used = {}

(* ReplaceAPIKey: u is given a key for the first and only time.             *)
Name(u, k) == /\ k \notin used
              /\ keyOf' = [keyOf EXCEPT ![u] = k]
              /\ used' = used \union {k}

(* DeleteAPIKey, RemoveMissingKey. *)
Forget(u) == /\ keyOf' = [keyOf EXCEPT ![u] = NoKey]
             /\ UNCHANGED used

(* Keys that were issued and are not going to be recorded. *)
Discard == /\ used' \in SUBSET Keys /\ used \subseteq used'
           /\ UNCHANGED keyOf

Next == \/ \E u \in Users : Forget(u) \/ \E k \in Keys : Name(u, k)
        \/ Discard

Spec == Init /\ [][Next]_tableVars

-----------------------------------------------------------------------------
(* What the contract is worth. *)
Named == {keyOf[u] : u \in Users}

(* Nobody has the key of another, nor one that has not been used.           *)
OneOwner ==
  /\ \A u, v \in Users : keyOf[u] = keyOf[v] /\ keyOf[u] # NoKey => u = v
  /\ Named \subseteq used \union {NoKey}

(* A key that has left the table never returns to it, whoever's it was.     *)
GoneForGood == [][\A k \in used : k \notin Named => k \notin Named']_tableVars
=============================================================================
