--------------------------- MODULE KeyTable_proofs ---------------------------
(***************************************************************************)
(* What the contract of KeyTable is worth to whoever relies on it, for any *)
(* users and keys.                                                         *)
(***************************************************************************)
EXTENDS KeyTable, TLAPS

(* Nobody ever has the key of somebody else, and no key is anybody's that   *)
(* does not count as used: what lets the gateway's key stand for its owner  *)
(* (the unique index on api_keys.user_id, migration 20240002).                      *)
THEOREM OneOwnerEach ==
  ASSUME NoKey \notin Keys
  PROVE  Spec => [](TypeOK /\ OneOwner)
<1>1. Init => TypeOK /\ OneOwner
  BY DEF Init, TypeOK, OneOwner, Named
<1>2. ASSUME TypeOK, OneOwner, [Next]_tableVars
      PROVE  TypeOK' /\ OneOwner'
  <2>1. ASSUME NEW u \in Users, NEW k \in Keys, Name(u, k)
        PROVE  TypeOK' /\ OneOwner'
    <3>1. /\ k \notin used /\ used' = used \union {k}
          /\ keyOf' \in [Users -> Keys \union {NoKey}]
          /\ \A v \in Users : keyOf'[v] = IF v = u THEN k ELSE keyOf[v]
      BY <1>2, <2>1 DEF Name, TypeOK
    <3>2. \A v \in Users : keyOf[v] # k
      BY <1>2, <3>1 DEF OneOwner, Named
    <3>3. Named' \subseteq used' \union {NoKey}
      BY <1>2, <3>1 DEF OneOwner, Named
    <3>. QED
      BY <1>2, <3>1, <3>2, <3>3 DEF TypeOK, OneOwner
  <2>2. ASSUME NEW u \in Users, Forget(u)
        PROVE  TypeOK' /\ OneOwner'
    <3>1. /\ used' = used /\ keyOf' \in [Users -> Keys \union {NoKey}]
          /\ \A v \in Users : keyOf'[v] = IF v = u THEN NoKey ELSE keyOf[v]
      BY <1>2, <2>2 DEF Forget, TypeOK
    <3>2. Named' \subseteq used' \union {NoKey}
      BY <1>2, <3>1 DEF OneOwner, Named
    <3>. QED
      BY <1>2, <3>1, <3>2 DEF TypeOK, OneOwner
  <2>3. CASE Discard
    BY <1>2, <2>3 DEF Discard, TypeOK, OneOwner, Named
  <2>4. CASE UNCHANGED tableVars
    BY <1>2, <2>4 DEF tableVars, TypeOK, OneOwner, Named
  <2>. QED
    BY <1>2, <2>1, <2>2, <2>3, <2>4 DEF Next
<1>. QED
  BY <1>1, <1>2, PTL DEF Spec

(* A key that was replaced, deleted or thrown away is nobody's ever after:  *)
(* there is one way into the table and it takes keys that are not used.     *)
THEOREM NeverAgain ==
  ASSUME NoKey \notin Keys
  PROVE  Spec => GoneForGood
<1>1. ASSUME TypeOK, [Next]_tableVars, NEW k \in used, k \notin Named
      PROVE  k \notin Named'
  <2>1. SUFFICES ASSUME NEW u \in Users, keyOf'[u] = k
                 PROVE  FALSE
    BY DEF Named
  <2>2. keyOf[u] # k /\ k # NoKey
    BY <1>1 DEF Named, TypeOK
  <2>3. ASSUME NEW v \in Users, NEW n, n # k, keyOf' = [keyOf EXCEPT ![v] = n]
        PROVE  FALSE
    BY <1>1, <2>1, <2>2, <2>3 DEF TypeOK
  <2>4. keyOf' # keyOf
    BY <2>1, <2>2
  <2>. QED
    BY <1>1, <2>2, <2>3, <2>4 DEF Next, Name, Forget, Discard, tableVars
<1>2. TypeOK /\ [Next]_tableVars => [\A k \in used : k \notin Named => k \notin Named']_tableVars
  BY <1>1
<1>. QED
  BY <1>2, OneOwnerEach, PTL DEF Spec, GoneForGood
=============================================================================
