--------------------------- MODULE ProfileExpiry ---------------------------
(***************************************************************************)
(* Assignments with a deadline: admins set them (internal/handlers), the   *)
(* runner of internal/profileexpiry takes them back, and deletions of      *)
(* profiles and regenerated keys go on meanwhile.                          *)
(*                                                                         *)
(* The runner works through a list it read at the start of a run, one      *)
(* statement or gateway call per action, without a lock and without        *)
(* looking at a user again. LimitSync has the whole expiry of one user as  *)
(* a single action; this module takes it apart, and leaves out limits.     *)
(*                                                                         *)
(* A key stands for its row's id and its name in the gateway. A user's     *)
(* position in the list does not matter to any property, so the runner     *)
(* takes users in any order. Audit rows are left out: nothing reads them.  *)
(***************************************************************************)
EXTENDS Naturals

CONSTANTS Users,
          Unlucky,   \* users whose statements and calls may fail, for ever
          Profiles, NoProfile,
          Default,   \* the default profile, which cannot be deleted
          Keys, NoKey,
          MaxEdits   \* bound on what admins do and on restarts

ASSUME ExpiryAssumption == /\ Users # {} /\ Unlucky \subseteq Users
                           /\ Default \in Profiles
                           /\ NoProfile \notin Profiles
                           /\ NoKey \notin Keys
                           /\ MaxEdits \in Nat

VARIABLES profs,     \* the profiles that exist
          asg,       \* asg[u]: the assignment in the row of users
          row,       \* row[u]: the key in the row of api_keys
          gw,        \* gw[k]: what the gateway has of key k
          run,       \* the runner: where it is and its local variables
          kick,      \* the limit sync's channel of one kick
          edits,     \* how much of MaxEdits is used up
          done,      \* history: how often the assignment of u was taken back
          unpushed   \* history: users switched since a limit sync run began

vars == <<profs, asg, row, gw, run, kick, edits, done, unpushed>>

-----------------------------------------------------------------------------
Options == Profiles \union {NoProfile}    \* NoProfile: the default one

(* What users carries: the profile, whether there is a deadline and it is   *)
(* still ahead, where the user lands, and whether the key goes instead.     *)
Assignments == [p : Options, due : {"never", "ahead", "passed"},
                after : Options, revoke : BOOLEAN]

Permanent(p) == [p |-> p, due |-> "never", after |-> NoProfile, revoke |-> FALSE]

(* The runner: the users of its list it has still to do and what the list   *)
(* says of each, the user and the key it is about, whether one was switched.*)
Runs == [at : {"wait", "next", "key", "gateway", "drop", "apply"},
         todo : SUBSET Users, seen : [Users -> Assignments],
         u : Users, key : Keys \union {NoKey}, switched : BOOLEAN]

TypeOK == /\ profs \subseteq Profiles
          /\ asg \in [Users -> Assignments]
          /\ row \in [Users -> Keys \union {NoKey}]
          /\ gw \in [Keys -> {"none", "live", "gone"}]
          /\ run \in Runs
          /\ kick \in BOOLEAN
          /\ edits \in 0..MaxEdits
          /\ done \in [Users -> Nat]
          /\ unpushed \subseteq Users

Idle == [at |-> "wait", todo |-> {}, seen |-> [v \in Users |-> Permanent(NoProfile)],
         u |-> CHOOSE v \in Users : TRUE, key |-> NoKey, switched |-> FALSE]

(* The limit sync runs once when the server starts, kicked or not.          *)
Init == /\ profs = Profiles
        /\ asg = [u \in Users |-> Permanent(NoProfile)]
        /\ row = [u \in Users |-> NoKey]
        /\ gw = [k \in Keys |-> "none"]
        /\ run = Idle
        /\ kick = TRUE
        /\ edits = 0
        /\ done = [u \in Users |-> 0]
        /\ unpushed = {}

-----------------------------------------------------------------------------
(* The surroundings. *)
Edit == edits < MaxEdits /\ edits' = edits + 1

(* SetUserProfileUntil. The profile has to exist, which the foreign key of  *)
(* users.profile_id sees to; the destination has none, and a form that was  *)
(* opened before a profile was deleted may name it. Without a date the      *)
(* other two fields are dropped. The handler kicks the sync.                *)
SetUserProfile(u, p, after, revoke) ==
  /\ Edit
  /\ p \in profs \union {NoProfile}
  /\ asg' = [asg EXCEPT ![u] = [p |-> p, due |-> "ahead", after |-> after, revoke |-> revoke]]
  /\ done' = [done EXCEPT ![u] = 0]
  /\ kick' = TRUE
  /\ UNCHANGED <<profs, row, gw, run, unpushed>>

SetUserProfileForGood(u, p) ==
  /\ Edit
  /\ p \in profs \union {NoProfile}
  /\ asg' = [asg EXCEPT ![u] = Permanent(p)]
  /\ done' = [done EXCEPT ![u] = 0]
  /\ kick' = TRUE
  /\ UNCHANGED <<profs, row, gw, run, unpushed>>

(* Mutant: destinations are left as they are. *)
DeleteProfileOnly(p) ==
  /\ Edit
  /\ p \in profs \ {Default} /\ \A u \in Users : asg[u].p # p
  /\ profs' = profs \ {p}
  /\ kick' = TRUE
  /\ UNCHANGED <<asg, row, gw, run, done, unpushed>>

(* DeleteProfile: neither the default profile nor an assigned one goes, and *)
(* users who would have landed on it will land on the default.              *)
DeleteProfile(p) ==
  /\ Edit
  /\ p \in profs \ {Default} /\ \A u \in Users : asg[u].p # p
  /\ profs' = profs \ {p}
  /\ asg' = [u \in Users |->
               [asg[u] EXCEPT !.after = IF asg[u].after = p THEN NoProfile ELSE @]]
  /\ kick' = TRUE
  /\ UNCHANGED <<row, gw, run, done, unpushed>>

DeadlinePasses(u) ==
  /\ asg[u].due = "ahead"
  /\ asg' = [asg EXCEPT ![u].due = "passed"]
  /\ UNCHANGED <<profs, row, gw, run, kick, edits, done, unpushed>>

(* GenerateKey, which KeyLifecycle takes apart: a new key, its row in the   *)
(* place of the old one, and the old key deleted.                           *)
GenerateKey(u, k) ==
  /\ gw[k] = "none"
  /\ gw' = [j \in Keys |-> IF j = k THEN "live" ELSE IF j = row[u] THEN "gone" ELSE gw[j]]
  /\ row' = [row EXCEPT ![u] = k]
  /\ UNCHANGED <<profs, asg, run, kick, edits, done, unpushed>>

(* A limit sync run begins: what is out of date in the database is found.   *)
SyncRuns ==
  /\ kick
  /\ kick' = FALSE
  /\ unpushed' = {}
  /\ UNCHANGED <<profs, asg, row, gw, run, edits, done>>

(* The server stops, or dies, and starts again; both jobs run at the start. *)
Restart ==
  /\ Edit
  /\ run' = Idle
  /\ kick' = TRUE
  /\ UNCHANGED <<profs, asg, row, gw, done, unpushed>>

-----------------------------------------------------------------------------
(* The runner. *)
Fails(u) == u \in Unlucky

(* The loop's next round: nothing of the user just handled is left, but     *)
(* whether it, or an earlier one, was switched.                             *)
Onwards(switched) ==
  [run EXCEPT !.at = "next", !.u = Idle.u, !.key = NoKey, !.switched = switched,
              !.seen[run.u] = Permanent(NoProfile)]

(* Mutant: the switch of the last user decides about the kick. *)
FailsAndForgets == /\ run' = Onwards(FALSE)
                   /\ UNCHANGED <<profs, asg, row, gw, kick, edits, done, unpushed>>

(* Mutant: one user's failure ends the run. *)
FailsAndStops == /\ run' = [Onwards(run.switched) EXCEPT !.todo = {}]
                 /\ UNCHANGED <<profs, asg, row, gw, kick, edits, done, unpushed>>

(* A step for a user failed: Run logs it and goes on with the next user.    *)
NextUser == /\ run' = Onwards(run.switched)
            /\ UNCHANGED <<profs, asg, row, gw, kick, edits, done, unpushed>>

(* UsersWithPassedDeadline, at the start and at every tick. *)
ListPassed ==
  LET passed == {u \in Users : asg[u].due = "passed"} IN
  /\ run.at = "wait"
  /\ run' = [Idle EXCEPT !.at = "next", !.todo = passed,
                         !.seen = [u \in Users |-> IF u \in passed THEN asg[u] ELSE Idle.seen[u]]]
  /\ UNCHANGED <<profs, asg, row, gw, kick, edits, done, unpushed>>

TakeUser(u) ==
  /\ run.at = "next" /\ u \in run.todo
  /\ run' = [run EXCEPT !.at = IF run.seen[u].revoke THEN "key" ELSE "apply",
                        !.u = u, !.todo = @ \ {u}]
  /\ UNCHANGED <<profs, asg, row, gw, kick, edits, done, unpushed>>

(* revoke, GetAPIKeyByUser: a user may have no key. *)
ReadKey(u) ==
  /\ run.at = "key" /\ run.u = u
  /\ \/ /\ run' = [run EXCEPT !.at = IF row[u] # NoKey THEN "gateway" ELSE "apply",
                              !.key = row[u]]
        /\ UNCHANGED <<profs, asg, row, gw, kick, edits, done, unpushed>>
     \/ Fails(u) /\ NextUser

(* Mutant: the row goes although the gateway refused. *)
DeleteUpstreamAnyway(u) ==
  /\ run.at = "gateway" /\ run.u = u
  /\ \/ gw' = [gw EXCEPT ![run.key] = "gone"]
     \/ Fails(u) /\ UNCHANGED gw
  /\ run' = [run EXCEPT !.at = "drop"]
  /\ UNCHANGED <<profs, asg, row, kick, edits, done, unpushed>>

(* revoke, DeleteKey: a key the gateway does not have counts as deleted; an *)
(* answer may be lost after the key has gone.                               *)
DeleteUpstream(u) ==
  /\ run.at = "gateway" /\ run.u = u
  /\ \/ /\ gw' = [gw EXCEPT ![run.key] = "gone"]
        /\ \/ run' = [run EXCEPT !.at = "drop"]
           \/ Fails(u) /\ run' = Onwards(run.switched)
        /\ UNCHANGED <<profs, asg, row, kick, edits, done, unpushed>>
     \/ Fails(u) /\ NextUser

(* Mutant: a row that could not be deleted does not hold up the rest. *)
DropRowOrNot(u) ==
  /\ run.at = "drop" /\ run.u = u
  /\ \/ row' = [row EXCEPT ![u] = IF @ = run.key THEN NoKey ELSE @]
     \/ Fails(u) /\ UNCHANGED row
  /\ run' = [run EXCEPT !.at = "apply"]
  /\ UNCHANGED <<profs, asg, gw, kick, edits, done, unpushed>>

(* revoke, DeleteAPIKey: by the id of the row read, which may have gone.    *)
DropRow(u) ==
  /\ run.at = "drop" /\ run.u = u
  /\ \/ /\ row' = [row EXCEPT ![u] = IF @ = run.key THEN NoKey ELSE @]
        /\ run' = [run EXCEPT !.at = "apply"]
        /\ UNCHANGED <<profs, asg, gw, kick, edits, done, unpushed>>
     \/ Fails(u) /\ NextUser

(* Mutant: the deadline stays. *)
KeptDeadline(u) == [asg[u] EXCEPT !.p = run.seen[u].after]

(* What ApplyProfileExpiry makes of the row: the profile of the list's      *)
(* copy, and no deadline.                                                   *)
Reverted(u) == Permanent(run.seen[u].after)

(* Mutant: a connection that does not enforce foreign keys. *)
NotEnforced(p) == TRUE

(* The foreign key of users.profile_id. *)
Referable(p) == p \in profs \union {NoProfile}

(* ApplyProfileExpiry, one statement, the last of switchProfile and revoke. *)
(* It goes by the user's id alone. Only a switch is followed by a kick.     *)
ApplyExpiry(u) ==
  /\ run.at = "apply" /\ run.u = u
  /\ \/ /\ Referable(run.seen[u].after)
        /\ asg' = [asg EXCEPT ![u] = Reverted(u)]
        /\ done' = [done EXCEPT ![u] = @ + 1]
        /\ run' = Onwards(run.switched \/ ~run.seen[u].revoke)
        /\ unpushed' = IF run.seen[u].revoke THEN unpushed ELSE unpushed \union {u}
        /\ UNCHANGED <<profs, row, gw, kick, edits>>
     \/ (Fails(u) \/ ~Referable(run.seen[u].after)) /\ NextUser

RunEnds ==
  /\ run.at = "next" /\ run.todo = {}
  /\ kick' = (kick \/ run.switched)
  /\ run' = Idle
  /\ UNCHANGED <<profs, asg, row, gw, edits, done, unpushed>>

-----------------------------------------------------------------------------
RunnerSteps == \/ ListPassed \/ RunEnds
               \/ \E u \in Users : \/ TakeUser(u) \/ ReadKey(u) \/ DeleteUpstream(u)
                                   \/ DropRow(u) \/ ApplyExpiry(u)

Next == \/ \E u \in Users, p \in Options, after \in Options, revoke \in BOOLEAN :
             SetUserProfile(u, p, after, revoke)
        \/ \E u \in Users, p \in Options : SetUserProfileForGood(u, p)
        \/ \E p \in Profiles : DeleteProfile(p)
        \/ \E u \in Users : DeadlinePasses(u)
        \/ \E u \in Users, k \in Keys : GenerateKey(u, k)
        \/ SyncRuns \/ Restart
        \/ RunnerSteps

Spec == Init /\ [][Next]_vars

(* The runner's goroutine and the sync's run on, and their calls end. Admins, *)
(* users, restarts and the passing of deadlines are not owed.                 *)
FairSpec == Spec /\ WF_vars(RunnerSteps) /\ WF_vars(SyncRuns)

-----------------------------------------------------------------------------
(* Safety. *)

(* A key that works has a row, however the runner's revocation fails, is cut *)
(* off or crosses a regeneration: otherwise nobody could revoke it any more. *)
LiveKeyHasRow == \A k \in Keys : gw[k] = "live" => \E u \in Users : row[u] = k

(* When the runner is about to clear a deadline that ends with the key being *)
(* deleted, the key it found works no longer and the table has forgotten it. *)
RevokedBeforeCleared ==
  run.at = "apply" /\ run.key # NoKey => gw[run.key] = "gone" /\ row[run.u] # run.key

(* One assignment is taken back at most once, whatever fails and however     *)
(* often the server restarts: a second reversion would throw away what an    *)
(* admin has decided since.                                                  *)
RevertedOnce == \A u \in Users : done[u] <= 1

(* Nobody is put on a profile that has gone, although the runner's list and  *)
(* an assignment's destination may name one.                                 *)
OnAProfile == Default \in profs /\ \A u \in Users : asg[u].p \in profs \union {NoProfile}

(* The runner and the requests that replace keys meanwhile keep the         *)
(* contract of KeyTable.                                                    *)
Table == INSTANCE KeyTable WITH keyOf <- row, used <- {k \in Keys : gw[k] # "none"}
ImplementsKeyTable == Table!Spec

(* The invariant the proofs use.                                            *)
Busy == run.at \in {"key", "gateway", "drop", "apply"}

(* A key the runner holds is the gateway's no more once its row is up.      *)
HeldKey == /\ run.at \in {"wait", "next"} => run.key = NoKey
           /\ run.at \in {"drop", "apply"} /\ run.key # NoKey => gw[run.key] = "gone"

(* Whoever was reverted has no deadline and is not on the list any more.    *)
RevertedIsSettled ==
  \A u \in Users : done[u] # 0 => /\ asg[u].due = "never"
                                 /\ u \notin run.todo /\ ~(Busy /\ run.u = u)

TakenOff == Busy => run.u \notin run.todo

(* Types, the properties above, and what a step of the runner relies on. A   *)
(* run that lists someone twice, or holds a key that still works when it     *)
(* turns to the row, breaks it.                                              *)
IInv == /\ TypeOK
        /\ LiveKeyHasRow /\ RevokedBeforeCleared /\ RevertedOnce /\ OnAProfile
        /\ HeldKey /\ RevertedIsSettled /\ TakenOff

(* Liveness. *)

(* A passed deadline takes effect as long as the destination exists: deleted *)
(* profiles, restarts and other users for whom every statement fails do not  *)
(* keep it from doing so.                                                    *)
Reverts ==
  \A u \in Users \ Unlucky :
    asg[u].due = "passed" /\ asg[u].after \in profs \union {NoProfile} ~> asg[u].due # "passed"

(* After a switch the limit sync runs, without its interval's help and       *)
(* although later users of the same run may fail.                            *)
SwitchIsPushed == \A u \in Users : u \in unpushed ~> u \notin unpushed

(* What the comments promise of destinations that have gone: a passed        *)
(* deadline takes effect on the default profile (ui.go:894-896).             *)
GoneDestinationFallsBack ==
  \A u \in Users \ Unlucky : asg[u].due = "passed" ~> asg[u].due # "passed"
=============================================================================
