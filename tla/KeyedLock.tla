----------------------------- MODULE KeyedLock -----------------------------
(***************************************************************************)
(* The per-user mutex of internal/handlers/keylock.go.                     *)
(*                                                                         *)
(* A lock entry is an object on the heap: a channel with room for one      *)
(* token, and a count of holders and waiters. The map `entries' names the  *)
(* entry of each user; an entry leaves the map with its last reference,    *)
(* and the next request allocates a new object. The hazard is exactly      *)
(* there: a request keeps the pointer it got from the map, so two requests *)
(* for one user exclude each other only if they got the same object.       *)
(*                                                                         *)
(* Everything done under l.mu is one action; a channel operation is one    *)
(* action. Requests come and go for ever: an object nobody points to any   *)
(* more is garbage, and is what the next allocation may return.            *)
(***************************************************************************)
EXTENDS Naturals, FiniteSets

CONSTANTS Reqs, Users, NoUser,
          Objs,    \* addresses for lockEntry objects
          Nil      \* no entry

ASSUME LockAssumption == /\ IsFiniteSet(Reqs)
                         /\ NoUser \notin Users
                         /\ Nil \notin Objs

VARIABLES entries,  \* keyedLock.entries
          token,    \* token[o]: the channel of o holds its token
          refs,     \* lockEntry.refs
          pc, user, \* where a request is, and the userID it passed to Lock
          ent,      \* the entry it points to
          gone      \* its context is done

vars == <<entries, token, refs, pc, user, ent, gone>>

PC == {"idle", "waiting", "holding", "leaving"}

Init == /\ entries = [u \in Users |-> Nil]
        /\ token = [o \in Objs |-> FALSE]
        /\ refs = [o \in Objs |-> 0]
        /\ pc = [r \in Reqs |-> "idle"]
        /\ user = [r \in Reqs |-> NoUser]
        /\ ent = [r \in Reqs |-> Nil]
        /\ gone = [r \in Reqs |-> FALSE]

Garbage(o) == /\ \A u \in Users : entries[u] # o
              /\ \A r \in Reqs : ent[r] # o

(* Mutant: a request that finds an entry does not count itself. *)
ArriveUncounted(r, u) ==
  /\ pc[r] = "idle"
  /\ \E o \in Objs :
       /\ IF entries[u] # Nil
            THEN o = entries[u] /\ UNCHANGED <<entries, token, refs>>
            ELSE /\ Garbage(o)
                 /\ entries' = [entries EXCEPT ![u] = o]
                 /\ refs' = [refs EXCEPT ![o] = 1]
                 /\ token' = [token EXCEPT ![o] = FALSE]
       /\ ent' = [ent EXCEPT ![r] = o]
  /\ user' = [user EXCEPT ![r] = u]
  /\ pc' = [pc EXCEPT ![r] = "waiting"]
  /\ UNCHANGED gone

(* Lock up to l.mu.Unlock: find or allocate the entry, count this request. *)
Arrive(r, u) ==
  /\ pc[r] = "idle"
  /\ \E o \in Objs :
       /\ IF entries[u] # Nil
            THEN /\ o = entries[u]
                 /\ refs' = [refs EXCEPT ![o] = @ + 1]
                 /\ UNCHANGED <<entries, token>>
            ELSE /\ Garbage(o)
                 /\ entries' = [entries EXCEPT ![u] = o]
                 /\ refs' = [refs EXCEPT ![o] = 1]
                 /\ token' = [token EXCEPT ![o] = FALSE]
       /\ ent' = [ent EXCEPT ![r] = o]
  /\ user' = [user EXCEPT ![r] = u]
  /\ pc' = [pc EXCEPT ![r] = "waiting"]
  /\ UNCHANGED gone

(* Mutant: the send does not wait for room in the channel. *)
AcquireFull(r) == /\ pc[r] = "waiting"
                  /\ token' = [token EXCEPT ![ent[r]] = TRUE]
                  /\ pc' = [pc EXCEPT ![r] = "holding"]
                  /\ UNCHANGED <<entries, refs, user, ent, gone>>

(* The select takes the send: the token goes in, Lock returns unlock. *)
Acquire(r) == /\ pc[r] = "waiting"
              /\ ~token[ent[r]]
              /\ token' = [token EXCEPT ![ent[r]] = TRUE]
              /\ pc' = [pc EXCEPT ![r] = "holding"]
              /\ UNCHANGED <<entries, refs, user, ent, gone>>

(* The select takes ctx.Done; it may do so even when the send is ready. *)
GiveUp(r) == /\ pc[r] = "waiting"
             /\ gone[r]
             /\ pc' = [pc EXCEPT ![r] = "leaving"]
             /\ UNCHANGED <<entries, token, refs, user, ent, gone>>

(* Mutant: unlock leaves the token in the channel. *)
UnlockKeepingToken(r) == /\ pc[r] = "holding"
                         /\ pc' = [pc EXCEPT ![r] = "leaving"]
                         /\ UNCHANGED <<entries, token, refs, user, ent, gone>>

(* unlock, first half: take the token back out of the channel. *)
Unlock(r) == /\ pc[r] = "holding"
             /\ token' = [token EXCEPT ![ent[r]] = FALSE]
             /\ pc' = [pc EXCEPT ![r] = "leaving"]
             /\ UNCHANGED <<entries, refs, user, ent, gone>>

(* Mutants: release drops the entry whoever still uses it, or never. *)
ReleaseAlways(r) ==
  /\ pc[r] = "leaving"
  /\ refs' = [refs EXCEPT ![ent[r]] = @ - 1]
  /\ entries' = [entries EXCEPT ![user[r]] = Nil]
  /\ pc' = [pc EXCEPT ![r] = "idle"]
  /\ user' = [user EXCEPT ![r] = NoUser]
  /\ ent' = [ent EXCEPT ![r] = Nil]
  /\ gone' = [gone EXCEPT ![r] = FALSE]
  /\ UNCHANGED token

ReleaseNever(r) ==
  /\ pc[r] = "leaving"
  /\ refs' = [refs EXCEPT ![ent[r]] = @ - 1]
  /\ pc' = [pc EXCEPT ![r] = "idle"]
  /\ user' = [user EXCEPT ![r] = NoUser]
  /\ ent' = [ent EXCEPT ![r] = Nil]
  /\ gone' = [gone EXCEPT ![r] = FALSE]
  /\ UNCHANGED <<entries, token>>

(* release: drop the reference, and the map's entry with the last one. *)
Release(r) ==
  /\ pc[r] = "leaving"
  /\ refs' = [refs EXCEPT ![ent[r]] = @ - 1]
  /\ entries' = IF refs'[ent[r]] = 0 THEN [entries EXCEPT ![user[r]] = Nil]
                                     ELSE entries
  /\ pc' = [pc EXCEPT ![r] = "idle"]
  /\ user' = [user EXCEPT ![r] = NoUser]
  /\ ent' = [ent EXCEPT ![r] = Nil]
  /\ gone' = [gone EXCEPT ![r] = FALSE]
  /\ UNCHANGED token

(* The client of a request disconnects, whether it waits or holds. *)
Disconnect(r) == /\ pc[r] \in {"waiting", "holding"}
                 /\ ~gone[r]
                 /\ gone' = [gone EXCEPT ![r] = TRUE]
                 /\ UNCHANGED <<entries, token, refs, pc, user, ent>>

Next == \E r \in Reqs : \/ \E u \in Users : Arrive(r, u)
                        \/ Acquire(r)
                        \/ GiveUp(r)
                        \/ Unlock(r)
                        \/ Release(r)
                        \/ Disconnect(r)

Spec == Init /\ [][Next]_vars

(* Go queues blocked senders of a channel first come first served, so a     *)
(* waiter is not passed over for ever: strong fairness of Acquire. The      *)
(* handler that holds the lock ends: its gateway calls have timeouts.       *)
FairSpec == /\ Spec
            /\ \A r \in Reqs : /\ SF_vars(Acquire(r))
                               /\ WF_vars(GiveUp(r))
                               /\ WF_vars(Unlock(r))
                               /\ WF_vars(Release(r))

-----------------------------------------------------------------------------
Active(r) == pc[r] # "idle"
Pointers(o) == {r \in Reqs : ent[r] = o}

TypeOK == /\ entries \in [Users -> Objs \union {Nil}]
          /\ token \in [Objs -> BOOLEAN]
          /\ refs \in [Objs -> Nat]
          /\ pc \in [Reqs -> PC]
          /\ user \in [Reqs -> Users \union {NoUser}]
          /\ ent \in [Reqs -> Objs \union {Nil}]
          /\ gone \in [Reqs -> BOOLEAN]

(* "two of them running at once for the same user ... would both act on the *)
(* same old key": no two requests hold the lock of one user at once, however*)
(* entries come and go in between.                                          *)
MutualExclusion == \A r, q \in Reqs :
  pc[r] = "holding" /\ pc[q] = "holding" /\ user[r] = user[q] => r = q

(* "An entry exists only while someone holds or awaits it": the map has an  *)
(* entry for a user exactly while some request for that user is between     *)
(* Lock and the end of release, so it neither grows with the number of      *)
(* users nor loses an entry that is in use.                                 *)
EntryWhileInUse == \A u \in Users :
  entries[u] # Nil <=> \E r \in Reqs : Active(r) /\ user[r] = u

(* A token in a channel belongs to a request that holds the lock: a request *)
(* that gave up, or one that unlocked, never leaves the lock taken.         *)
TokenHasHolder == \A u \in Users :
  entries[u] # Nil /\ token[entries[u]]
    => \E r \in Reqs : pc[r] = "holding" /\ user[r] = u

(* Every request that queues is served or abandoned by its client.          *)
WaiterIsServed == \A r \in Reqs : pc[r] = "waiting" ~> pc[r] # "waiting"

(* The mapping to the contract: an entry is internal, and a request that    *)
(* has given the token back or given up is already out.                     *)
MutexPhase == [r \in Reqs |-> CASE pc[r] = "waiting" -> "queued"
                                [] pc[r] = "holding" -> "inside"
                                [] OTHER -> "out"]
MutexTarget == [r \in Reqs |-> IF pc[r] \in {"waiting", "holding"}
                                 THEN user[r] ELSE NoUser]

Mutex == INSTANCE UserMutex WITH phase <- MutexPhase, target <- MutexTarget

(* keylock.go implements the contract of UserMutex.                         *)
ImplementsMutex == Mutex!Spec

-----------------------------------------------------------------------------
(* The inductive invariant. CountExact is what makes release right: refs is *)
(* the number of requests that point at the object, so an entry leaves the  *)
(* map only when nobody could still send on its channel.                    *)
CountExact == \A o \in Objs : refs[o] = Cardinality(Pointers(o))

PointersAgree == \A r \in Reqs :
  IF Active(r) THEN /\ user[r] \in Users
                    /\ ent[r] \in Objs
                    /\ ent[r] = entries[user[r]]
               ELSE ent[r] = Nil /\ user[r] = NoUser

EntriesInjective == \A u, v \in Users :
  entries[u] # Nil /\ entries[u] = entries[v] => u = v

EntryHasPointer == \A u \in Users :
  entries[u] # Nil => \E r \in Reqs : ent[r] = entries[u]

HolderHasToken == \A r \in Reqs : pc[r] = "holding" => token[ent[r]]
TokenFromHolder == \A o \in Objs :
  token[o] => \E r \in Reqs : pc[r] = "holding" /\ ent[r] = o
OneHolder == \A r, q \in Reqs :
  pc[r] = "holding" /\ pc[q] = "holding" /\ ent[r] = ent[q] => r = q

IInv == /\ TypeOK
        /\ CountExact
        /\ PointersAgree
        /\ EntriesInjective
        /\ EntryHasPointer
        /\ HolderHasToken
        /\ TokenFromHolder
        /\ OneHolder
=============================================================================
