----------------------------- MODULE UserMutex -----------------------------
(***************************************************************************)
(* What the key handlers rely on when they call lockKeys: among the        *)
(* requests that act for one user, at most one is inside the section       *)
(* between taking and releasing the user's lock, a request that waits may  *)
(* give up, and a request for one user never excludes a request for        *)
(* another.                                                                *)
(*                                                                         *)
(* The specification has no entries, no tokens and no counters: it is the  *)
(* contract that KeyedLock.tla, the mutex of internal/handlers/keylock.go, *)
(* is shown to implement, and the one KeyLifecycle.tla is built on.        *)
(***************************************************************************)
CONSTANTS Reqs,    \* requests in flight
          Users,
          NoUser   \* the user of a request that is not queuing

VARIABLES phase,   \* phase[r]: where request r is
          target   \* target[r]: the user r acts for

mutexVars == <<phase, target>>

Phases == {"out", "queued", "inside"}

Init == /\ phase = [r \in Reqs |-> "out"]
        /\ target = [r \in Reqs |-> NoUser]

(* keyedLock.Lock called for u: the request is a waiter from here on. *)
Ask(r, u) == /\ phase[r] = "out"
             /\ phase' = [phase EXCEPT ![r] = "queued"]
             /\ target' = [target EXCEPT ![r] = u]

(* Lock returns: nobody else may be inside for the same user. *)
Enter(r) == /\ phase[r] = "queued"
            /\ \A q \in Reqs : phase[q] = "inside" => target[q] # target[r]
            /\ phase' = [phase EXCEPT ![r] = "inside"]
            /\ UNCHANGED target

(* unlock is called, or Lock returns the context's error. *)
Leave(r) == /\ phase[r] \in {"queued", "inside"}
            /\ phase' = [phase EXCEPT ![r] = "out"]
            /\ target' = [target EXCEPT ![r] = NoUser]

Next == \E r \in Reqs : \/ \E u \in Users : Ask(r, u)
                        \/ Enter(r)
                        \/ Leave(r)

Spec == Init /\ [][Next]_mutexVars
=============================================================================
