-------------------------- MODULE KeyedLock_proofs --------------------------
(***************************************************************************)
(* The mutex of keylock.go is right for every number of requests, users    *)
(* and heap objects: it excludes, its map is exact, and it implements the  *)
(* contract of UserMutex.                                                  *)
(***************************************************************************)
EXTENDS KeyedLock, FiniteSetTheorems, TLAPS

-----------------------------------------------------------------------------
(* Counting: one more, or one fewer, request pointing at an object.         *)

LEMMA PointersFinite ==
  ASSUME NEW o
  PROVE  IsFiniteSet(Pointers(o)) /\ Cardinality(Pointers(o)) \in Nat
  BY LockAssumption, FS_Subset, FS_CardinalityType DEF Pointers

LEMMA CountUp ==
  ASSUME NEW r \in Reqs, NEW o \in Objs, ent \in [Reqs -> Objs \union {Nil}],
         ent[r] = Nil, ent' = [ent EXCEPT ![r] = o]
  PROVE  /\ Cardinality(Pointers(o)') = Cardinality(Pointers(o)) + 1
         /\ \A x \in Objs \ {o} : Pointers(x)' = Pointers(x)
<1>1. Pointers(o)' = Pointers(o) \union {r}
  BY DEF Pointers
<1>2. r \notin Pointers(o)
  BY LockAssumption DEF Pointers
<1>3. Cardinality(Pointers(o) \union {r}) = Cardinality(Pointers(o)) + 1
  BY <1>2, PointersFinite, FS_AddElement
<1>4. \A x \in Objs \ {o} : Pointers(x)' = Pointers(x)
  BY LockAssumption DEF Pointers
<1>. QED
  BY <1>1, <1>3, <1>4

LEMMA CountDown ==
  ASSUME NEW r \in Reqs, NEW o \in Objs, ent \in [Reqs -> Objs \union {Nil}],
         ent[r] = o, ent' = [ent EXCEPT ![r] = Nil]
  PROVE  /\ Cardinality(Pointers(o)) \in Nat \ {0}
         /\ Cardinality(Pointers(o)') = Cardinality(Pointers(o)) - 1
         /\ Pointers(o)' = Pointers(o) \ {r}
         /\ \A x \in Objs \ {o} : Pointers(x)' = Pointers(x)
<1>1. r \in Pointers(o)
  BY DEF Pointers
<1>2. Cardinality(Pointers(o) \ {r}) = Cardinality(Pointers(o)) - 1
  BY <1>1, PointersFinite, FS_RemoveElement
<1>3. Cardinality(Pointers(o)) # 0
  BY <1>1, PointersFinite, FS_EmptySet
<1>4. Pointers(o)' = Pointers(o) \ {r}
  BY LockAssumption DEF Pointers
<1>5. \A x \in Objs \ {o} : Pointers(x)' = Pointers(x)
  BY LockAssumption DEF Pointers
<1>. QED
  BY <1>2, <1>3, <1>4, <1>5, PointersFinite

-----------------------------------------------------------------------------
(* The inductive invariant holds at the start and is kept by every step.    *)

LEMMA InitIInv == Init => IInv
<1>. SUFFICES ASSUME Init PROVE IInv
  OBVIOUS
<1>1. \A o \in Objs : Pointers(o) = {}
  BY LockAssumption DEF Init, Pointers
<1>2. CountExact
  BY <1>1, FS_EmptySet DEF CountExact, Init
<1>. QED
  BY <1>2, LockAssumption DEF Init, IInv, TypeOK, PC, PointersAgree, Active,
     EntriesInjective, EntryHasPointer, HolderHasToken, TokenFromHolder, OneHolder

LEMMA ArriveKeepsIInv ==
  ASSUME IInv, NEW r \in Reqs, NEW u \in Users, Arrive(r, u)
  PROVE  IInv'
<1>. USE LockAssumption
<1>1. PICK o \in Objs :
        /\ IF entries[u] # Nil
             THEN /\ o = entries[u]
                  /\ refs' = [refs EXCEPT ![o] = @ + 1]
                  /\ UNCHANGED <<entries, token>>
             ELSE /\ Garbage(o)
                  /\ entries' = [entries EXCEPT ![u] = o]
                  /\ refs' = [refs EXCEPT ![o] = 1]
                  /\ token' = [token EXCEPT ![o] = FALSE]
        /\ ent' = [ent EXCEPT ![r] = o]
  BY DEF Arrive
<1>2. /\ pc[r] = "idle" /\ ent[r] = Nil
      /\ user' = [user EXCEPT ![r] = u]
      /\ pc' = [pc EXCEPT ![r] = "waiting"]
      /\ gone' = gone
  BY DEF Arrive, IInv, PointersAgree, Active
<1>3. TypeOK'
  <2>1. TypeOK
    BY DEF IInv
  <2>2. entries' \in [Users -> Objs \union {Nil}]
    BY <1>1, <2>1 DEF TypeOK
  <2>3. token' \in [Objs -> BOOLEAN]
    BY <1>1, <2>1 DEF TypeOK
  <2>4. refs' \in [Objs -> Nat]
    BY <1>1, <2>1 DEF TypeOK
  <2>5. ent' \in [Reqs -> Objs \union {Nil}]
    BY <1>1, <2>1 DEF TypeOK
  <2>6. /\ pc' \in [Reqs -> PC] /\ gone' \in [Reqs -> BOOLEAN]
        /\ user' \in [Reqs -> Users \union {NoUser}]
    BY <1>2, <2>1 DEF TypeOK, PC
  <2>. QED
    BY <2>2, <2>3, <2>4, <2>5, <2>6 DEF TypeOK
<1>4. entries'[u] = o /\ \A v \in Users \ {u} : entries'[v] = entries[v]
  BY <1>1 DEF IInv, TypeOK
<1>5. CountExact'
  <2>1. /\ Cardinality(Pointers(o)') = Cardinality(Pointers(o)) + 1
        /\ \A x \in Objs \ {o} : Pointers(x)' = Pointers(x)
    BY <1>1, <1>2, CountUp DEF IInv, TypeOK
  <2>2. CASE entries[u] # Nil
    BY <1>1, <2>1, <2>2 DEF IInv, TypeOK, CountExact
  <2>3. CASE entries[u] = Nil
    <3>1. Pointers(o) = {}
      BY <1>1, <2>3 DEF Garbage, Pointers
    <3>2. Cardinality(Pointers(o)) = 0
      BY <3>1, FS_EmptySet
    <3>. QED
      BY <1>1, <2>1, <2>3, <3>2 DEF IInv, TypeOK, CountExact
  <2>. QED
    BY <2>2, <2>3
<1>6. EntriesInjective'
  BY <1>1, <1>4 DEF IInv, TypeOK, EntriesInjective, Garbage
<1>7. PointersAgree'
  BY <1>1, <1>2, <1>3, <1>4 DEF IInv, TypeOK, PointersAgree, Active
<1>8. EntryHasPointer'
  BY <1>1, <1>2, <1>4 DEF IInv, TypeOK, EntryHasPointer
<1>9. HolderHasToken' /\ TokenFromHolder' /\ OneHolder'
  BY <1>1, <1>2 DEF IInv, TypeOK, HolderHasToken, TokenFromHolder, OneHolder,
     Garbage, PointersAgree, Active
<1>. QED
  BY <1>3, <1>5, <1>6, <1>7, <1>8, <1>9 DEF IInv

LEMMA ReleaseKeepsIInv ==
  ASSUME IInv, NEW r \in Reqs, Release(r)
  PROVE  IInv'
<1>. USE LockAssumption
<1>1. PICK u \in Users, o \in Objs : user[r] = u /\ ent[r] = o /\ entries[u] = o
  BY DEF Release, IInv, PointersAgree, Active
<1>2. /\ pc[r] = "leaving"
      /\ refs' = [refs EXCEPT ![o] = @ - 1]
      /\ entries' = IF refs'[o] = 0 THEN [entries EXCEPT ![u] = Nil] ELSE entries
      /\ pc' = [pc EXCEPT ![r] = "idle"]
      /\ user' = [user EXCEPT ![r] = NoUser]
      /\ ent' = [ent EXCEPT ![r] = Nil]
      /\ gone' = [gone EXCEPT ![r] = FALSE]
      /\ token' = token
  BY <1>1 DEF Release
<1>3. TypeOK
  BY DEF IInv
<1>4. /\ Cardinality(Pointers(o)) \in Nat \ {0}
      /\ Cardinality(Pointers(o)') = Cardinality(Pointers(o)) - 1
      /\ Pointers(o)' = Pointers(o) \ {r}
      /\ \A x \in Objs \ {o} : Pointers(x)' = Pointers(x)
  BY <1>1, <1>2, <1>3, CountDown DEF TypeOK
<1>5. refs[o] = Cardinality(Pointers(o)) /\ refs'[o] = Cardinality(Pointers(o)')
  BY <1>2, <1>3, <1>4 DEF IInv, CountExact, TypeOK
<1>6. TypeOK'
  <2>1. entries' \in [Users -> Objs \union {Nil}] /\ token' \in [Objs -> BOOLEAN]
    BY <1>2, <1>3 DEF TypeOK
  <2>2. refs' \in [Objs -> Nat]
    BY <1>2, <1>3, <1>4, <1>5 DEF TypeOK
  <2>3. /\ pc' \in [Reqs -> PC] /\ gone' \in [Reqs -> BOOLEAN]
        /\ user' \in [Reqs -> Users \union {NoUser}]
        /\ ent' \in [Reqs -> Objs \union {Nil}]
    BY <1>2, <1>3 DEF TypeOK, PC
  <2>. QED
    BY <2>1, <2>2, <2>3 DEF TypeOK
<1>7. CountExact'
  BY <1>2, <1>3, <1>4, <1>5 DEF IInv, CountExact, TypeOK
(* The entry leaves the map only when no other request points to it. *)
<1>8. refs'[o] = 0 => \A q \in Reqs \ {r} : ent[q] # o
  <2>. SUFFICES ASSUME refs'[o] = 0, NEW q \in Reqs \ {r}, ent[q] = o
                PROVE  FALSE
    OBVIOUS
  <2>1. IsFiniteSet(Pointers(o)')
    BY <1>4, PointersFinite, FS_RemoveElement
  <2>2. Pointers(o)' = {}
    BY <1>5, <2>1, FS_EmptySet
  <2>. QED
    BY <1>4, <2>2 DEF Pointers
<1>9. PointersAgree'
  <2>. SUFFICES ASSUME NEW q \in Reqs
                PROVE  IF Active(q)' THEN /\ user'[q] \in Users
                                          /\ ent'[q] \in Objs
                                          /\ ent'[q] = entries'[user'[q]]
                                     ELSE ent'[q] = Nil /\ user'[q] = NoUser
    BY DEF PointersAgree
  <2>1. CASE q = r
    BY <1>2, <1>3, <2>1 DEF Active, TypeOK
  <2>2. CASE q # r
    BY <1>1, <1>2, <1>3, <1>8, <2>2 DEF Active, TypeOK, IInv, PointersAgree
  <2>. QED
    BY <2>1, <2>2
<1>10. EntriesInjective'
  BY <1>2, <1>3 DEF IInv, EntriesInjective, TypeOK
<1>11. EntryHasPointer'
  <2>1. CASE refs'[o] = 0
    BY <1>1, <1>2, <1>3, <2>1 DEF IInv, EntryHasPointer, EntriesInjective, TypeOK
  <2>2. CASE refs'[o] # 0
    <3>1. PICK q \in Reqs : q # r /\ ent[q] = o
      <4>1. Pointers(o)' # {}
        BY <1>5, <2>2, FS_EmptySet
      <4>. QED
        BY <1>4, <4>1 DEF Pointers
    <3>2. ent'[q] = o
      BY <1>2, <1>3, <3>1 DEF TypeOK
    <3>. QED
      BY <1>1, <1>2, <1>3, <2>2, <3>2 DEF IInv, EntryHasPointer, EntriesInjective, TypeOK
  <2>. QED
    BY <2>1, <2>2
<1>12. HolderHasToken' /\ TokenFromHolder' /\ OneHolder'
  BY <1>1, <1>2, <1>3 DEF IInv, TypeOK, HolderHasToken, TokenFromHolder, OneHolder
<1>. QED
  BY <1>6, <1>7, <1>9, <1>10, <1>11, <1>12 DEF IInv

(* The steps that move a request along without touching the map. *)
LEMMA StayKeepsIInv ==
  ASSUME IInv, NEW r \in Reqs,
         Acquire(r) \/ GiveUp(r) \/ Unlock(r) \/ Disconnect(r)
  PROVE  IInv'
<1>. USE LockAssumption
<1>1. /\ UNCHANGED <<entries, refs, user, ent>>
      /\ \A q \in Reqs : Active(q)' <=> Active(q)
  BY DEF Acquire, GiveUp, Unlock, Disconnect, Active, IInv, TypeOK
<1>2. TypeOK'
  BY DEF Acquire, GiveUp, Unlock, Disconnect, IInv, TypeOK, PC
<1>3. /\ CountExact' /\ PointersAgree' /\ EntriesInjective' /\ EntryHasPointer'
  <2>1. \A x \in Objs : Pointers(x)' = Pointers(x)
    BY <1>1 DEF Pointers
  <2>2. CountExact'
    BY <1>1, <2>1 DEF IInv, CountExact
  <2>3. PointersAgree'
    BY <1>1 DEF IInv, PointersAgree
  <2>4. EntriesInjective' /\ EntryHasPointer'
    BY <1>1 DEF IInv, EntriesInjective, EntryHasPointer
  <2>. QED
    BY <2>2, <2>3, <2>4
<1>4. HolderHasToken' /\ TokenFromHolder' /\ OneHolder'
  <2>. USE DEF IInv, TypeOK, HolderHasToken, TokenFromHolder, OneHolder,
           PointersAgree, Active
  <2>1. CASE Acquire(r)
    BY <2>1 DEF Acquire
  <2>2. CASE GiveUp(r)
    BY <2>2 DEF GiveUp
  <2>3. CASE Unlock(r)
    BY <2>3 DEF Unlock
  <2>4. CASE Disconnect(r)
    BY <2>4 DEF Disconnect
  <2>. QED
    BY <2>1, <2>2, <2>3, <2>4
<1>. QED
  BY <1>2, <1>3, <1>4 DEF IInv

LEMMA NextIInv == IInv /\ [Next]_vars => IInv'
<1>. SUFFICES ASSUME IInv, [Next]_vars PROVE IInv'
  OBVIOUS
<1>1. ASSUME NEW r \in Reqs, NEW u \in Users, Arrive(r, u) PROVE IInv'
  BY <1>1, ArriveKeepsIInv
<1>2. ASSUME NEW r \in Reqs, Acquire(r) \/ GiveUp(r) \/ Unlock(r) \/ Disconnect(r)
      PROVE  IInv'
  BY <1>2, StayKeepsIInv
<1>3. ASSUME NEW r \in Reqs, Release(r) PROVE IInv'
  BY <1>3, ReleaseKeepsIInv
<1>4. CASE UNCHANGED vars
  <2>1. \A x \in Objs : Pointers(x)' = Pointers(x)
    BY <1>4 DEF vars, Pointers
  <2>. QED
    BY <1>4, <2>1 DEF vars, IInv, TypeOK, CountExact, PointersAgree, Active,
       EntriesInjective, EntryHasPointer, HolderHasToken, TokenFromHolder, OneHolder
<1>. QED
  BY <1>1, <1>2, <1>3, <1>4 DEF Next

(* IInv is an invariant of the lock: the reference counts are exact, so an  *)
(* entry in use never leaves the map of keylock.go.                         *)
THEOREM Invariance == Spec => []IInv
<1>. QED
  BY InitIInv, NextIInv, PTL DEF Spec

(* The state of the lock is well typed: no count goes below zero and no     *)
(* request dereferences a nil entry of keylock.go.                          *)
THEOREM TypeCorrect == Spec => []TypeOK
<1>1. IInv => TypeOK
  BY DEF IInv
<1>. QED
  BY <1>1, Invariance, PTL

(* keyedLock.Lock excludes: for any number of requests and users, two       *)
(* requests never hold the lock of the same user at once.                   *)
THEOREM Exclusion == Spec => []MutualExclusion
<1>1. IInv => MutualExclusion
  BY DEF IInv, PointersAgree, Active, OneHolder, MutualExclusion
<1>. QED
  BY <1>1, Invariance, PTL

(* The map of keylock.go holds an entry for a user exactly while a request  *)
(* for that user holds or awaits the lock.                                  *)
THEOREM MapExact == Spec => []EntryWhileInUse
<1>1. IInv => EntryWhileInUse
  <2>. SUFFICES ASSUME IInv, NEW u \in Users
                PROVE  entries[u] # Nil <=> \E r \in Reqs : Active(r) /\ user[r] = u
    BY DEF EntryWhileInUse
  <2>1. ASSUME entries[u] # Nil PROVE \E r \in Reqs : Active(r) /\ user[r] = u
    <3>1. PICK r \in Reqs : ent[r] = entries[u]
      BY <2>1 DEF IInv, EntryHasPointer
    <3>2. Active(r) /\ user[r] = u
      BY <2>1, <3>1 DEF IInv, PointersAgree, EntriesInjective
    <3>. QED
      BY <3>2
  <2>2. ASSUME NEW r \in Reqs, Active(r), user[r] = u PROVE entries[u] # Nil
    BY <2>2, LockAssumption DEF IInv, PointersAgree
  <2>. QED
    BY <2>1, <2>2
<1>. QED
  BY <1>1, Invariance, PTL

(* A token in a channel of keylock.go always belongs to a holder, so no     *)
(* request waits for a lock that nobody will release.                       *)
THEOREM NoStuckToken == Spec => []TokenHasHolder
<1>1. IInv => TokenHasHolder
  BY LockAssumption DEF IInv, TypeOK, TokenFromHolder, PointersAgree, Active,
     EntriesInjective, TokenHasHolder
<1>. QED
  BY <1>1, Invariance, PTL

-----------------------------------------------------------------------------
(* Each step of the lock is a step of the contract, or changes nothing the  *)
(* contract speaks of.                                                      *)
LEMMA StepMaps ==
  ASSUME IInv, [Next]_vars
  PROVE  [Mutex!Next]_<<MutexPhase, MutexTarget>>
<1>. USE LockAssumption DEF MutexPhase, MutexTarget
<1>1. TypeOK /\ PointersAgree
  BY DEF IInv
<1>2. ASSUME NEW r \in Reqs, NEW u \in Users, Arrive(r, u) PROVE Mutex!Ask(r, u)
  <2>1. /\ pc[r] = "idle" /\ user[r] = NoUser
        /\ pc' = [pc EXCEPT ![r] = "waiting"] /\ user' = [user EXCEPT ![r] = u]
    BY <1>1, <1>2 DEF Arrive, PointersAgree, Active
  <2>. QED
    BY <1>1, <2>1 DEF Mutex!Ask, TypeOK
<1>3. ASSUME NEW r \in Reqs, Acquire(r) PROVE Mutex!Enter(r)
  <2>1. /\ pc[r] = "waiting" /\ ~token[ent[r]]
        /\ pc' = [pc EXCEPT ![r] = "holding"] /\ user' = user
    BY <1>3 DEF Acquire
  <2>2. ASSUME NEW q \in Reqs, pc[q] = "holding" PROVE user[q] # user[r]
    BY <1>1, <2>1, <2>2 DEF IInv, HolderHasToken, PointersAgree, Active
  <2>3. MutexPhase' = [MutexPhase EXCEPT ![r] = "inside"] /\ MutexTarget' = MutexTarget
    BY <1>1, <2>1 DEF TypeOK
  <2>4. \A q \in Reqs : MutexPhase[q] = "inside" => MutexTarget[q] # MutexTarget[r]
    BY <2>1, <2>2
  <2>. QED
    BY <2>1, <2>3, <2>4 DEF Mutex!Enter
<1>4. ASSUME NEW r \in Reqs, GiveUp(r) \/ Unlock(r) PROVE Mutex!Leave(r)
  <2>1. /\ pc[r] \in {"waiting", "holding"}
        /\ pc' = [pc EXCEPT ![r] = "leaving"] /\ user' = user
    BY <1>4 DEF GiveUp, Unlock
  <2>. QED
    BY <1>1, <2>1 DEF Mutex!Leave, TypeOK
<1>5. ASSUME NEW r \in Reqs, Release(r) PROVE UNCHANGED <<MutexPhase, MutexTarget>>
  <2>1. /\ pc[r] = "leaving"
        /\ pc' = [pc EXCEPT ![r] = "idle"] /\ user' = [user EXCEPT ![r] = NoUser]
    BY <1>5 DEF Release
  <2>. QED
    BY <1>1, <2>1 DEF TypeOK
<1>6. ASSUME NEW r \in Reqs, Disconnect(r) PROVE UNCHANGED <<MutexPhase, MutexTarget>>
  BY <1>6 DEF Disconnect
<1>7. ASSUME UNCHANGED vars PROVE UNCHANGED <<MutexPhase, MutexTarget>>
  BY <1>7 DEF vars
<1>. QED
  BY <1>2, <1>3, <1>4, <1>5, <1>6, <1>7 DEF Next, Mutex!Next

(* keylock.go implements the contract the key handlers are modelled with:   *)
(* every behaviour of the lock, with its entries and tokens hidden, is a    *)
(* behaviour of UserMutex.                                                  *)
THEOREM Implementation == Spec => ImplementsMutex
<1>1. Init => Mutex!Init
  BY LockAssumption DEF Init, Mutex!Init, MutexPhase, MutexTarget
<1>2. IInv /\ [Next]_vars => [Mutex!Next]_<<MutexPhase, MutexTarget>>
  BY StepMaps
<1>. QED
  BY <1>1, <1>2, Invariance, PTL DEF Spec, ImplementsMutex, Mutex!Spec, Mutex!mutexVars
=============================================================================
