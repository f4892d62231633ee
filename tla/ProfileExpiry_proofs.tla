------------------------ MODULE ProfileExpiry_proofs ------------------------
(***************************************************************************)
(* Theorems about ProfileExpiry, for every set of users, lucky or not,     *)
(* profiles and keys, and any number of edits and restarts.                *)
(***************************************************************************)
EXTENDS ProfileExpiry, TLAPS

-----------------------------------------------------------------------------
(* What single steps make of the runner. *)

LEMMA PermanentIs ==
  ASSUME NEW p \in Options
  PROVE  Permanent(p) \in Assignments /\ Permanent(p).p = p /\ Permanent(p).due = "never"
  BY DEF Permanent, Assignments, Options

LEMMA IdleIs ==
  Idle \in Runs /\ Idle.at = "wait" /\ Idle.todo = {} /\ Idle.key = NoKey
<1>1. (CHOOSE v \in Users : TRUE) \in Users
  BY ExpiryAssumption
<1>2. Permanent(NoProfile) \in Assignments
  BY PermanentIs DEF Options
<1>. QED
  BY <1>1, <1>2 DEF Idle, Runs

(* The loop's next round. *)
Turns == /\ run' \in Runs /\ run'.at = "next" /\ run'.key = NoKey
         /\ run'.todo = run.todo

LEMMA OnwardsTurns ==
  ASSUME run \in Runs, NEW sw \in BOOLEAN, run' = Onwards(sw)
  PROVE  Turns /\ run'.switched = sw
<1>1. PICK v \in Users : v = Idle.u
  BY IdleIs DEF Runs
<1>2. PICK c \in Assignments : c = Permanent(NoProfile)
  BY PermanentIs DEF Options
<1>3. PICK w \in Users : w = run.u
  BY DEF Runs
<1>4. PICK f \in [Users -> Assignments] : f = [run.seen EXCEPT ![w] = c]
  BY <1>2 DEF Runs
<1>5. run' = [run EXCEPT !.at = "next", !.u = v, !.key = NoKey, !.switched = sw, !.seen = f]
  BY <1>1, <1>2, <1>3, <1>4 DEF Onwards
<1>. QED
  BY <1>5 DEF Turns, Runs

LEMMA NextUserTurns ==
  ASSUME run \in Runs, NextUser
  PROVE  /\ Turns /\ run'.switched = run.switched
         /\ UNCHANGED <<profs, asg, row, gw, kick, edits, done, unpushed>>
<1>1. run.switched \in BOOLEAN
  BY DEF Runs
<1>. QED
  BY <1>1, OnwardsTurns DEF NextUser

LEMMA ListPassedDoes ==
  ASSUME asg \in [Users -> Assignments], ListPassed
  PROVE  /\ run.at = "wait"
         /\ run' \in Runs /\ run'.at = "next" /\ run'.key = NoKey
         /\ run'.todo = {u \in Users : asg[u].due = "passed"}
<1>1. PICK T \in SUBSET Users : T = {u \in Users : asg[u].due = "passed"}
  OBVIOUS
<1>2. PICK f \in [Users -> Assignments] :
        f = [u \in Users |-> IF u \in T THEN asg[u] ELSE Idle.seen[u]]
  <2>1. \A u \in Users : Idle.seen[u] \in Assignments
    BY IdleIs DEF Runs
  <2>. QED
    BY <2>1
<1>3. run.at = "wait" /\ run' = [Idle EXCEPT !.at = "next", !.todo = T, !.seen = f]
  BY <1>1, <1>2 DEF ListPassed
<1>4. PICK i \in Runs : i = Idle /\ i.key = NoKey
  BY IdleIs
<1>5. ASSUME NEW t, t = [i EXCEPT !.at = "next", !.todo = T, !.seen = f]
      PROVE  t \in Runs /\ t.at = "next" /\ t.key = NoKey /\ t.todo = T
  BY <1>4, <1>5 DEF Runs
<1>. QED
  BY <1>1, <1>3, <1>4, <1>5

LEMMA TakeUserDoes ==
  ASSUME run \in Runs, NEW u \in Users, TakeUser(u)
  PROVE  /\ run.at = "next" /\ u \in run.todo
         /\ run' \in Runs /\ run'.at \in {"key", "apply"} /\ run'.u = u
         /\ run'.key = run.key /\ run'.todo = run.todo \ {u}
<1>1. PICK T \in SUBSET Users : T = run.todo \ {u}
  BY DEF Runs
<1>2. PICK at \in {"key", "apply"} : at = IF run.seen[u].revoke THEN "key" ELSE "apply"
  OBVIOUS
<1>3. run' = [run EXCEPT !.at = at, !.u = u, !.todo = T]
  BY <1>1, <1>2 DEF TakeUser
<1>4. ASSUME NEW t, t = [run EXCEPT !.at = at, !.u = u, !.todo = T]
      PROVE  t \in Runs /\ t.at = at /\ t.u = u /\ t.todo = T /\ t.key = run.key
  BY <1>4 DEF Runs
<1>. QED
  BY <1>1, <1>2, <1>3, <1>4 DEF TakeUser

(* The runner goes on with the same user. *)
Stays(at) == /\ run' \in Runs /\ run'.at = at
             /\ run'.todo = run.todo /\ run'.u = run.u

LEMMA AtStays ==
  ASSUME run \in Runs, NEW at \in {"key", "gateway", "drop", "apply"},
         NEW k \in Keys \union {NoKey},
         run' = [run EXCEPT !.at = at, !.key = k]
  PROVE  Stays(at) /\ run'.key = k
  BY DEF Runs, Stays

LEMMA ReadKeyDoes ==
  ASSUME run \in Runs, row \in [Users -> Keys \union {NoKey}], NEW u \in Users, ReadKey(u)
  PROVE  /\ run.at = "key" /\ run.u = u
         /\ UNCHANGED <<profs, asg, row, gw, kick, edits, done, unpushed>>
         /\ \/ Stays("gateway")
            \/ Stays("apply") /\ run'.key = NoKey
            \/ Turns
<1>1. CASE NextUser
  BY <1>1, NextUserTurns DEF ReadKey
<1>2. CASE ~NextUser
  <2>1. PICK k \in Keys \union {NoKey} : k = row[u]
    OBVIOUS
  <2>2. run' = [run EXCEPT !.at = IF k # NoKey THEN "gateway" ELSE "apply", !.key = k]
    BY <1>2, <2>1 DEF ReadKey
  <2>3. CASE k # NoKey
    <3>1. run' = [run EXCEPT !.at = "gateway", !.key = k]
      BY <2>2, <2>3
    <3>. QED
      BY <1>2, <3>1, AtStays DEF ReadKey
  <2>4. CASE k = NoKey
    <3>1. run' = [run EXCEPT !.at = "apply", !.key = k]
      BY <2>2, <2>4
    <3>. QED
      BY <1>2, <2>4, <3>1, AtStays DEF ReadKey
  <2>. QED
    BY <2>3, <2>4
<1>. QED
  BY <1>1, <1>2

LEMMA DeleteUpstreamDoes ==
  ASSUME run \in Runs, gw \in [Keys -> {"none", "live", "gone"}], NEW u \in Users, DeleteUpstream(u)
  PROVE  /\ run.at = "gateway" /\ run.u = u
         /\ UNCHANGED <<profs, asg, row, kick, edits, done, unpushed>>
         /\ \/ /\ gw' = [gw EXCEPT ![run.key] = "gone"]
               /\ Turns \/ (Stays("drop") /\ run'.key = run.key)
            \/ UNCHANGED gw /\ Turns
<1>1. run.switched \in BOOLEAN /\ run.key \in Keys \union {NoKey}
  BY DEF Runs
<1>2. CASE NextUser
  BY <1>2, NextUserTurns DEF DeleteUpstream
<1>3. CASE run' = Onwards(run.switched) /\ ~NextUser
  BY <1>1, <1>3, OnwardsTurns DEF DeleteUpstream
<1>4. CASE run' = [run EXCEPT !.at = "drop"] /\ ~NextUser
  <2>1. Stays("drop") /\ run'.key = run.key
    BY <1>4 DEF Stays, Runs
  <2>. QED
    BY <1>4, <2>1 DEF DeleteUpstream
<1>. QED
  BY <1>2, <1>3, <1>4 DEF DeleteUpstream

LEMMA DropRowDoes ==
  ASSUME run \in Runs, NEW u \in Users, DropRow(u)
  PROVE  /\ run.at = "drop" /\ run.u = u
         /\ UNCHANGED <<profs, asg, gw, kick, edits, done, unpushed>>
         /\ \/ /\ row' = [row EXCEPT ![u] = IF @ = run.key THEN NoKey ELSE @]
               /\ Stays("apply") /\ run'.key = run.key
            \/ UNCHANGED row /\ Turns
<1>1. CASE NextUser
  BY <1>1, NextUserTurns DEF DropRow
<1>2. CASE run' = [run EXCEPT !.at = "apply"] /\ ~NextUser
  <2>1. Stays("apply") /\ run'.key = run.key
    BY <1>2 DEF Stays, Runs
  <2>. QED
    BY <1>2, <2>1 DEF DropRow
<1>. QED
  BY <1>1, <1>2 DEF DropRow

LEMMA ApplyExpiryDoes ==
  ASSUME run \in Runs, asg \in [Users -> Assignments], NEW u \in Users, ApplyExpiry(u)
  PROVE  /\ run.at = "apply" /\ run.u = u /\ Turns
         /\ UNCHANGED <<profs, row, gw, kick, edits>>
         /\ \/ \E p \in profs \union {NoProfile} :
                 /\ p \in Options
                 /\ asg' = [asg EXCEPT ![u] = Permanent(p)]
                 /\ done' = [done EXCEPT ![u] = @ + 1]
                 /\ unpushed' \in {unpushed, unpushed \union {u}}
            \/ UNCHANGED <<asg, done, unpushed>>
<1>1. run.seen[u] \in Assignments /\ run.switched \in BOOLEAN
  BY DEF Runs
<1>2. PICK p \in Options : p = run.seen[u].after
  BY <1>1 DEF Assignments
<1>3. PICK sw \in BOOLEAN : sw = (run.switched \/ ~run.seen[u].revoke)
  BY <1>1
<1>4. CASE NextUser
  BY <1>4, NextUserTurns DEF ApplyExpiry
<1>5. CASE ~NextUser
  <2>1. Turns
    BY <1>3, <1>5, OnwardsTurns DEF ApplyExpiry
  <2>2. /\ p \in profs \union {NoProfile}
        /\ asg' = [asg EXCEPT ![u] = Permanent(p)]
        /\ done' = [done EXCEPT ![u] = @ + 1]
        /\ unpushed' \in {unpushed, unpushed \union {u}}
        /\ UNCHANGED <<profs, row, gw, kick, edits>>
    BY <1>2, <1>5 DEF ApplyExpiry, Referable, Reverted
  <2>. QED
    BY <1>2, <1>5, <2>1, <2>2 DEF ApplyExpiry
<1>. QED
  BY <1>4, <1>5

LEMMA RunEndsDoes ==
  ASSUME run \in Runs, kick \in BOOLEAN, RunEnds
  PROVE  run' = Idle /\ kick' \in BOOLEAN
  BY DEF RunEnds, Runs

-----------------------------------------------------------------------------
(* The invariant holds at first. *)
LEMMA InitIInv == ASSUME Init PROVE IInv
<1>1. Permanent(NoProfile) \in Assignments /\ Permanent(NoProfile).p = NoProfile
  BY PermanentIs DEF Options
<1>2. TypeOK
  BY <1>1, IdleIs, ExpiryAssumption DEF Init, TypeOK
<1>3. LiveKeyHasRow /\ RevertedOnce /\ OnAProfile
  BY <1>1, ExpiryAssumption DEF Init, LiveKeyHasRow, RevertedOnce, OnAProfile
<1>4. RevokedBeforeCleared /\ HeldKey /\ RevertedIsSettled /\ TakenOff
  BY IdleIs DEF Init, RevokedBeforeCleared, HeldKey, RevertedIsSettled, TakenOff, Busy
<1>. QED
  BY <1>2, <1>3, <1>4 DEF IInv

-----------------------------------------------------------------------------
(* The surroundings do not touch the runner but to restart it. *)

(* What admins and deadlines make of an assignment: a new one that has not   *)
(* been taken back, or the old one with a deadline no nearer to "never" than *)
(* before, on a profile that exists.                                         *)
Reassigns ==
  /\ asg' \in [Users -> Assignments] /\ done' \in [Users -> Nat]
  /\ \A u \in Users : /\ asg'[u].p \in profs' \union {NoProfile}
                      /\ \/ done'[u] = 0
                         \/ done'[u] = done[u] /\ (asg[u].due = "never" => asg'[u].due = "never")

LEMMA AdminDoes ==
  ASSUME TypeOK, OnAProfile,
         \/ \E u \in Users, p \in Options, after \in Options, revoke \in BOOLEAN :
              SetUserProfile(u, p, after, revoke)
         \/ \E u \in Users, p \in Options : SetUserProfileForGood(u, p)
         \/ \E p \in Profiles : DeleteProfile(p)
         \/ \E u \in Users : DeadlinePasses(u)
  PROVE  /\ Reassigns /\ profs' \subseteq Profiles /\ Default \in profs'
         /\ kick' \in BOOLEAN /\ edits' \in 0..MaxEdits
         /\ UNCHANGED <<row, gw, run, unpushed>>
<1>0. asg \in [Users -> Assignments] /\ done \in [Users -> Nat] /\ profs \subseteq Profiles
      /\ kick \in BOOLEAN /\ edits \in 0..MaxEdits /\ MaxEdits \in Nat
  BY ExpiryAssumption DEF TypeOK
<1>1. Edit => edits' \in 0..MaxEdits
  BY <1>0 DEF Edit
<1>2. ASSUME NEW u \in Users, NEW p \in Options, NEW after \in Options, NEW revoke \in BOOLEAN,
             SetUserProfile(u, p, after, revoke)
      PROVE  Reassigns
  <2>1. PICK a : a = [p |-> p, due |-> "ahead", after |-> after, revoke |-> revoke]
    OBVIOUS
  <2>2. a \in Assignments /\ a.p = p
    BY <2>1 DEF Assignments
  <2>3. asg' = [asg EXCEPT ![u] = a] /\ done' = [done EXCEPT ![u] = 0] /\ profs' = profs
        /\ p \in profs \union {NoProfile}
    BY <1>2, <2>1 DEF SetUserProfile
  <2>. QED
    BY <1>0, <2>2, <2>3 DEF Reassigns, OnAProfile
<1>3. ASSUME NEW u \in Users, NEW p \in Options, SetUserProfileForGood(u, p)
      PROVE  Reassigns
  <2>1. PICK a : a = Permanent(p)
    OBVIOUS
  <2>2. a \in Assignments /\ a.p = p
    BY <2>1, PermanentIs
  <2>3. asg' = [asg EXCEPT ![u] = a] /\ done' = [done EXCEPT ![u] = 0] /\ profs' = profs
        /\ p \in profs \union {NoProfile}
    BY <1>3, <2>1 DEF SetUserProfileForGood
  <2>. QED
    BY <1>0, <2>2, <2>3 DEF Reassigns, OnAProfile
<1>4. ASSUME NEW p \in Profiles, DeleteProfile(p)
      PROVE  Reassigns /\ Default \in profs'
  <2>1. ASSUME NEW u \in Users, NEW x, x \in Options,
               NEW t, t = [asg[u] EXCEPT !.after = x]
        PROVE  t \in Assignments /\ t.p = asg[u].p /\ t.due = asg[u].due
    <3>1. asg[u] \in Assignments
      BY <1>0
    <3>. QED
      BY <2>1, <3>1 DEF Assignments
  <2>2. ASSUME NEW u \in Users
        PROVE  /\ asg'[u] \in Assignments /\ asg'[u].p = asg[u].p /\ asg'[u].due = asg[u].due
    <3>1. asg[u].after \in Options /\ NoProfile \in Options
      BY <1>0 DEF Assignments, Options
    <3>2. PICK x \in Options : x = IF asg[u].after = p THEN NoProfile ELSE asg[u].after
      BY <3>1
    <3>3. asg'[u] = [asg[u] EXCEPT !.after = x]
      BY <1>4, <3>2 DEF DeleteProfile
    <3>. QED
      BY <2>1, <3>3
  <2>3. asg' \in [Users -> Assignments]
    BY <1>4, <2>2 DEF DeleteProfile
  <2>4. \A u \in Users : asg[u].p # p
    BY <1>4 DEF DeleteProfile
  <2>5. p # Default /\ profs' = profs \ {p} /\ done' = done
    BY <1>4 DEF DeleteProfile
  <2>. QED
    BY <1>0, <2>2, <2>3, <2>4, <2>5 DEF Reassigns, OnAProfile
<1>5. ASSUME NEW u \in Users, DeadlinePasses(u)
      PROVE  Reassigns
  <2>1. asg[u] \in Assignments
    BY <1>0
  <2>2. PICK a : a = [asg[u] EXCEPT !.due = "passed"]
    OBVIOUS
  <2>3. a \in Assignments /\ a.p = asg[u].p
    BY <2>1, <2>2 DEF Assignments
  <2>4. asg' = [asg EXCEPT ![u] = a] /\ done' = done /\ profs' = profs
        /\ asg[u].due = "ahead"
    BY <1>5, <2>2 DEF DeadlinePasses
  <2>. QED
    BY <1>0, <2>1, <2>3, <2>4 DEF Reassigns, OnAProfile
<1>6. Reassigns
  BY <1>2, <1>3, <1>4, <1>5
<1>7. profs' \subseteq Profiles /\ Default \in profs'
  BY <1>0, <1>4 DEF SetUserProfile, SetUserProfileForGood, DeleteProfile, DeadlinePasses, OnAProfile
<1>8. /\ kick' \in BOOLEAN
      /\ edits' \in 0..MaxEdits
      /\ UNCHANGED <<row, gw, run, unpushed>>
  BY <1>0, <1>1 DEF SetUserProfile, SetUserProfileForGood, DeleteProfile, DeadlinePasses
<1>. QED
  BY <1>6, <1>7, <1>8

(* A change of an assignment keeps the invariant: the runner's copy is not   *)
(* the assignment, so nothing of it is disturbed.                            *)
LEMMA AdminIInv ==
  ASSUME IInv,
         \/ \E u \in Users, p \in Options, after \in Options, revoke \in BOOLEAN :
              SetUserProfile(u, p, after, revoke)
         \/ \E u \in Users, p \in Options : SetUserProfileForGood(u, p)
         \/ \E p \in Profiles : DeleteProfile(p)
         \/ \E u \in Users : DeadlinePasses(u)
  PROVE  IInv'
<1>1. /\ Reassigns /\ profs' \subseteq Profiles /\ Default \in profs'
      /\ kick' \in BOOLEAN /\ edits' \in 0..MaxEdits
      /\ UNCHANGED <<row, gw, run, unpushed>>
  BY AdminDoes DEF IInv
<1>2. TypeOK'
  BY <1>1 DEF IInv, TypeOK, Reassigns
<1>3. LiveKeyHasRow' /\ RevokedBeforeCleared' /\ HeldKey' /\ TakenOff'
  BY <1>1 DEF IInv, LiveKeyHasRow, RevokedBeforeCleared, HeldKey, TakenOff, Busy
<1>4. RevertedOnce' /\ OnAProfile'
  BY <1>1 DEF IInv, RevertedOnce, OnAProfile, Reassigns
<1>5. RevertedIsSettled'
  BY <1>1 DEF IInv, RevertedIsSettled, Busy, Reassigns
<1>. QED
  BY <1>2, <1>3, <1>4, <1>5 DEF IInv

(* A regenerated key is fresh, so it is none the runner has deleted.         *)
LEMMA GenerateIInv ==
  ASSUME IInv, NEW u \in Users, NEW k \in Keys, GenerateKey(u, k)
  PROVE  IInv'
<1>0. /\ row \in [Users -> Keys \union {NoKey}] /\ gw \in [Keys -> {"none", "live", "gone"}]
      /\ gw[k] = "none"
      /\ gw' = [j \in Keys |-> IF j = k THEN "live" ELSE IF j = row[u] THEN "gone" ELSE gw[j]]
      /\ row' = [row EXCEPT ![u] = k]
      /\ UNCHANGED <<profs, asg, run, kick, edits, done, unpushed>>
  BY DEF IInv, TypeOK, GenerateKey
<1>1. TypeOK'
  BY <1>0 DEF IInv, TypeOK
<1>2. LiveKeyHasRow'
  BY <1>0 DEF IInv, LiveKeyHasRow
<1>3. ASSUME NEW j \in Keys, gw[j] = "gone"
      PROVE  gw'[j] = "gone" /\ j # k
  BY <1>0, <1>3
<1>4. run.key \in Keys \union {NoKey} /\ run.u \in Users
  BY DEF IInv, TypeOK, Runs
<1>5. RevokedBeforeCleared' /\ HeldKey'
  BY <1>0, <1>3, <1>4 DEF IInv, RevokedBeforeCleared, HeldKey
<1>6. RevertedOnce' /\ OnAProfile' /\ RevertedIsSettled' /\ TakenOff'
  BY <1>0 DEF IInv, RevertedOnce, OnAProfile, RevertedIsSettled, TakenOff, Busy
<1>. QED
  BY <1>1, <1>2, <1>5, <1>6 DEF IInv

LEMMA SyncIInv ==
  ASSUME IInv, SyncRuns \/ UNCHANGED vars
  PROVE  IInv'
<1>1. UNCHANGED <<profs, asg, row, gw, run, edits, done>>
  BY DEF SyncRuns, vars
<1>2. kick' \in BOOLEAN /\ unpushed' \subseteq Users
  BY DEF IInv, TypeOK, SyncRuns, vars
<1>. QED
  BY <1>1, <1>2 DEF IInv, TypeOK, LiveKeyHasRow, RevokedBeforeCleared, RevertedOnce, OnAProfile,
                    HeldKey, RevertedIsSettled, TakenOff, Busy

-----------------------------------------------------------------------------
(* The runner. *)

(* Before it takes a user, and after a restart, it holds nothing.            *)
LEMMA BetweenUsersIInv ==
  ASSUME IInv,
         UNCHANGED <<profs, asg, row, gw, done, unpushed>>,
         kick' \in BOOLEAN, edits' \in 0..MaxEdits,
         run' \in Runs, run'.at \in {"wait", "next"}, run'.key = NoKey,
         \A u \in run'.todo : u \in run.todo \/ asg[u].due = "passed"
  PROVE  IInv'
<1>1. TypeOK'
  BY DEF IInv, TypeOK
<1>2. LiveKeyHasRow' /\ RevokedBeforeCleared' /\ HeldKey' /\ TakenOff'
  BY DEF IInv, LiveKeyHasRow, RevokedBeforeCleared, HeldKey, TakenOff, Busy
<1>3. RevertedOnce' /\ OnAProfile'
  BY DEF IInv, RevertedOnce, OnAProfile
<1>4. RevertedIsSettled'
  BY DEF IInv, RevertedIsSettled, Busy
<1>. QED
  BY <1>1, <1>2, <1>3, <1>4 DEF IInv

LEMMA LoopIInv ==
  ASSUME IInv, Restart \/ ListPassed \/ RunEnds
  PROVE  IInv'
<1>1. /\ asg \in [Users -> Assignments] /\ run \in Runs /\ kick \in BOOLEAN
      /\ edits \in 0..MaxEdits /\ MaxEdits \in Nat
  BY ExpiryAssumption DEF IInv, TypeOK
<1>2. CASE Restart
  <2>1. edits' \in 0..MaxEdits /\ kick' = TRUE /\ run' = Idle
        /\ UNCHANGED <<profs, asg, row, gw, done, unpushed>>
    BY <1>1, <1>2 DEF Restart, Edit
  <2>. QED
    BY <2>1, IdleIs, BetweenUsersIInv
<1>3. CASE ListPassed
  <2>1. UNCHANGED <<profs, asg, row, gw, kick, edits, done, unpushed>>
    BY <1>3 DEF ListPassed
  <2>. QED
    BY <1>1, <1>3, <2>1, ListPassedDoes, BetweenUsersIInv
<1>4. CASE RunEnds
  <2>1. UNCHANGED <<profs, asg, row, gw, edits, done, unpushed>>
    BY <1>4 DEF RunEnds
  <2>. QED
    BY <1>1, <1>4, <2>1, RunEndsDoes, IdleIs, BetweenUsersIInv
<1>. QED
  BY <1>2, <1>3, <1>4

(* A user given up on is one the runner turns away from.                     *)
LEMMA GiveUpIInv ==
  ASSUME IInv, Turns, UNCHANGED <<profs, asg, row, gw, kick, edits, done, unpushed>>
  PROVE  IInv'
<1>1. kick \in BOOLEAN /\ edits \in 0..MaxEdits
  BY DEF IInv, TypeOK
<1>. QED
  BY <1>1, BetweenUsersIInv DEF Turns

LEMMA TakeUserIInv ==
  ASSUME IInv, NEW u \in Users, TakeUser(u)
  PROVE  IInv'
<1>1. /\ run.at = "next" /\ u \in run.todo
      /\ run' \in Runs /\ run'.at \in {"key", "apply"} /\ run'.u = u
      /\ run'.key = run.key /\ run'.todo = run.todo \ {u}
  BY TakeUserDoes DEF IInv, TypeOK
<1>2. UNCHANGED <<profs, asg, row, gw, kick, edits, done, unpushed>>
  BY DEF TakeUser
<1>3. TypeOK' /\ LiveKeyHasRow' /\ RevertedOnce' /\ OnAProfile'
  BY <1>1, <1>2 DEF IInv, TypeOK, LiveKeyHasRow, RevertedOnce, OnAProfile
<1>4. RevokedBeforeCleared' /\ HeldKey' /\ TakenOff'
  BY <1>1, <1>2 DEF IInv, RevokedBeforeCleared, HeldKey, TakenOff, Busy
<1>5. RevertedIsSettled'
  BY <1>1, <1>2 DEF IInv, RevertedIsSettled, Busy
<1>. QED
  BY <1>3, <1>4, <1>5 DEF IInv

(* Steps of revoke that go on with the same user disturb the keys only.      *)
LEMMA SameUserIInv ==
  ASSUME IInv, Busy, NEW at \in {"gateway", "drop", "apply"}, Stays(at),
         UNCHANGED <<profs, asg, kick, edits, done, unpushed>>,
         row' \in [Users -> Keys \union {NoKey}], gw' \in [Keys -> {"none", "live", "gone"}],
         LiveKeyHasRow', RevokedBeforeCleared', HeldKey'
  PROVE  IInv'
<1>1. TypeOK' /\ RevertedOnce' /\ OnAProfile'
  BY DEF IInv, TypeOK, RevertedOnce, OnAProfile, Stays
<1>2. RevertedIsSettled' /\ TakenOff'
  BY DEF IInv, RevertedIsSettled, TakenOff, Busy, Stays
<1>. QED
  BY <1>1, <1>2 DEF IInv

LEMMA ReadKeyIInv ==
  ASSUME IInv, NEW u \in Users, ReadKey(u)
  PROVE  IInv'
<1>1. run \in Runs /\ row \in [Users -> Keys \union {NoKey}]
      /\ gw \in [Keys -> {"none", "live", "gone"}]
  BY DEF IInv, TypeOK
<1>2. Busy /\ UNCHANGED <<profs, asg, row, gw, kick, edits, done, unpushed>>
  BY <1>1, ReadKeyDoes DEF Busy
<1>3. LiveKeyHasRow'
  BY <1>2 DEF IInv, LiveKeyHasRow
<1>4. CASE Stays("gateway") \/ (Stays("apply") /\ run'.key = NoKey)
  <2>1. RevokedBeforeCleared' /\ HeldKey'
    BY <1>4 DEF Stays, RevokedBeforeCleared, HeldKey
  <2>. QED
    BY <1>1, <1>2, <1>3, <1>4, <2>1, SameUserIInv
<1>5. CASE Turns
  BY <1>2, <1>5, GiveUpIInv
<1>. QED
  BY <1>1, <1>4, <1>5, ReadKeyDoes

LEMMA DeleteUpstreamIInv ==
  ASSUME IInv, NEW u \in Users, DeleteUpstream(u)
  PROVE  IInv'
<1>1. run \in Runs /\ row \in [Users -> Keys \union {NoKey}]
      /\ gw \in [Keys -> {"none", "live", "gone"}]
  BY DEF IInv, TypeOK
<1>2. run.at = "gateway" /\ run.u = u
      /\ UNCHANGED <<profs, asg, row, kick, edits, done, unpushed>>
  BY <1>1, DeleteUpstreamDoes
<1>3. CASE gw' = gw /\ Turns
  BY <1>2, <1>3, GiveUpIInv
<1>4. CASE gw' = [gw EXCEPT ![run.key] = "gone"]
  <2>1. gw' \in [Keys -> {"none", "live", "gone"}]
        /\ \A k \in Keys : gw'[k] = IF k = run.key THEN "gone" ELSE gw[k]
    BY <1>1, <1>4
  <2>2. LiveKeyHasRow'
    BY <1>2, <2>1 DEF IInv, LiveKeyHasRow
  <2>3. CASE Stays("drop") /\ run'.key = run.key
    <3>1. run.key \in Keys \union {NoKey}
      BY <1>1 DEF Runs
    <3>2. RevokedBeforeCleared' /\ HeldKey'
      BY <2>1, <2>3, <3>1 DEF Stays, RevokedBeforeCleared, HeldKey
    <3>. QED
      BY <1>1, <1>2, <2>1, <2>2, <2>3, <3>2, SameUserIInv DEF Busy
  <2>4. CASE Turns
    <3>1. TypeOK'
      BY <1>2, <2>1, <2>4 DEF IInv, TypeOK, Turns
    <3>2. RevokedBeforeCleared' /\ HeldKey' /\ TakenOff'
      BY <2>4 DEF Turns, RevokedBeforeCleared, HeldKey, TakenOff, Busy
    <3>3. RevertedOnce' /\ OnAProfile' /\ RevertedIsSettled'
      BY <1>2, <2>4 DEF IInv, RevertedOnce, OnAProfile, RevertedIsSettled, Turns, Busy
    <3>. QED
      BY <2>2, <3>1, <3>2, <3>3 DEF IInv
  <2>. QED
    BY <1>1, <1>3, <2>3, <2>4, DeleteUpstreamDoes
<1>. QED
  BY <1>1, <1>3, <1>4, DeleteUpstreamDoes

(* The row goes only when the key in it is the one that has gone upstream.   *)
LEMMA DropRowIInv ==
  ASSUME IInv, NEW u \in Users, DropRow(u)
  PROVE  IInv'
<1>1. run \in Runs /\ row \in [Users -> Keys \union {NoKey}]
      /\ gw \in [Keys -> {"none", "live", "gone"}]
  BY DEF IInv, TypeOK
<1>2. run.at = "drop" /\ run.u = u
      /\ UNCHANGED <<profs, asg, gw, kick, edits, done, unpushed>>
  BY <1>1, DropRowDoes
<1>3. CASE row' = row /\ Turns
  BY <1>2, <1>3, GiveUpIInv
<1>4. CASE /\ row' = [row EXCEPT ![u] = IF @ = run.key THEN NoKey ELSE @]
           /\ Stays("apply") /\ run'.key = run.key
  <2>1. /\ row' \in [Users -> Keys \union {NoKey}]
        /\ \A v \in Users : row'[v] = IF v = u /\ row[u] = run.key THEN NoKey ELSE row[v]
    BY <1>1, <1>4
  <2>2. run.key # NoKey => gw[run.key] = "gone"
    BY <1>2 DEF IInv, HeldKey
  <2>3. LiveKeyHasRow'
    <3>1. SUFFICES ASSUME NEW k \in Keys, gw[k] = "live"
                   PROVE  \E v \in Users : row'[v] = k
      BY <1>2 DEF LiveKeyHasRow
    <3>2. PICK v \in Users : row[v] = k
      BY <3>1 DEF IInv, LiveKeyHasRow
    <3>3. k # run.key
      BY <2>2, <3>1, ExpiryAssumption
    <3>. QED
      BY <2>1, <3>2, <3>3
  <2>4. RevokedBeforeCleared' /\ HeldKey'
    BY <1>2, <1>4, <2>1, <2>2 DEF Stays, RevokedBeforeCleared, HeldKey
  <2>. QED
    BY <1>1, <1>2, <1>4, <2>1, <2>3, <2>4, SameUserIInv DEF Busy
<1>. QED
  BY <1>1, <1>3, <1>4, DropRowDoes

(* The statement that takes an assignment back counts once, since a user     *)
(* under way has not been reverted, and names a profile that exists.         *)
LEMMA ApplyExpiryIInv ==
  ASSUME IInv, NEW u \in Users, ApplyExpiry(u)
  PROVE  IInv'
<1>1. /\ run \in Runs /\ asg \in [Users -> Assignments] /\ done \in [Users -> Nat]
      /\ unpushed \subseteq Users
  BY DEF IInv, TypeOK
<1>2. run.at = "apply" /\ run.u = u /\ Turns /\ UNCHANGED <<profs, row, gw, kick, edits>>
  BY <1>1, ApplyExpiryDoes
<1>3. CASE UNCHANGED <<asg, done, unpushed>>
  BY <1>2, <1>3, GiveUpIInv
<1>4. ASSUME NEW p \in profs \union {NoProfile}, p \in Options,
             asg' = [asg EXCEPT ![u] = Permanent(p)],
             done' = [done EXCEPT ![u] = @ + 1],
             unpushed' \in {unpushed, unpushed \union {u}}
      PROVE  IInv'
  <2>1. PICK a : a = Permanent(p)
    OBVIOUS
  <2>2. a \in Assignments /\ a.p = p /\ a.due = "never"
    BY <1>4, <2>1, PermanentIs
  <2>3. done[u] = 0 /\ u \notin run.todo
    BY <1>1, <1>2 DEF IInv, RevertedIsSettled, TakenOff, Busy
  <2>4. /\ asg' \in [Users -> Assignments] /\ done' \in [Users -> Nat]
        /\ asg'[u] = a /\ done'[u] = 1
        /\ \A v \in Users \ {u} : asg'[v] = asg[v] /\ done'[v] = done[v]
    BY <1>1, <1>4, <2>1, <2>2, <2>3
  <2>5. TypeOK'
    BY <1>2, <1>4, <2>4 DEF IInv, TypeOK, Turns
  <2>6. LiveKeyHasRow' /\ RevokedBeforeCleared' /\ HeldKey' /\ TakenOff'
    BY <1>2 DEF IInv, LiveKeyHasRow, Turns, RevokedBeforeCleared, HeldKey, TakenOff, Busy
  <2>7. RevertedOnce' /\ OnAProfile'
    BY <1>2, <1>4, <2>2, <2>4 DEF IInv, RevertedOnce, OnAProfile
  <2>8. RevertedIsSettled'
    BY <1>2, <2>2, <2>3, <2>4 DEF IInv, RevertedIsSettled, Turns, Busy
  <2>. QED
    BY <2>5, <2>6, <2>7, <2>8 DEF IInv
<1>. QED
  BY <1>1, <1>3, <1>4, ApplyExpiryDoes

-----------------------------------------------------------------------------
(* IInv holds in every reachable state: types, the four safety properties    *)
(* and what the runner relies on between its statements (expiry.go:48-106).  *)
THEOREM Invariance == Spec => []IInv
<1>1. IInv /\ [Next]_vars => IInv'
  <2>. SUFFICES ASSUME IInv, [Next]_vars PROVE IInv'
    OBVIOUS
  <2>1. CASE \/ \E u \in Users, p \in Options, after \in Options, revoke \in BOOLEAN :
                  SetUserProfile(u, p, after, revoke)
             \/ \E u \in Users, p \in Options : SetUserProfileForGood(u, p)
             \/ \E p \in Profiles : DeleteProfile(p)
             \/ \E u \in Users : DeadlinePasses(u)
    BY <2>1, AdminIInv
  <2>2. CASE \E u \in Users, k \in Keys : GenerateKey(u, k)
    BY <2>2, GenerateIInv
  <2>3. CASE SyncRuns \/ UNCHANGED vars
    BY <2>3, SyncIInv
  <2>4. CASE Restart \/ ListPassed \/ RunEnds
    BY <2>4, LoopIInv
  <2>5. CASE \E u \in Users : TakeUser(u)
    BY <2>5, TakeUserIInv
  <2>6. CASE \E u \in Users : ReadKey(u) \/ DeleteUpstream(u) \/ DropRow(u)
    BY <2>6, ReadKeyIInv, DeleteUpstreamIInv, DropRowIInv
  <2>7. CASE \E u \in Users : ApplyExpiry(u)
    BY <2>7, ApplyExpiryIInv
  <2>. QED
    BY <2>1, <2>2, <2>3, <2>4, <2>5, <2>6, <2>7 DEF Next, RunnerSteps
<1>. QED
  BY <1>1, InitIInv, PTL DEF Spec

(* However a revocation at a deadline fails, is cut off by a restart or      *)
(* crosses a regeneration, no key works that no row knows (expiry.go:86-106).*)
THEOREM NoKeyWithoutRow == Spec => []LiveKeyHasRow
  BY Invariance, PTL DEF IInv

(* One assignment is taken back at most once ("safe to call repeatedly",     *)
(* expiry.go:50-51), with any number of restarts in between.                 *)
THEOREM TakenBackOnce == Spec => []RevertedOnce
  BY Invariance, PTL DEF IInv

(* The runner's old list and stale forms never put a user on a profile that  *)
(* has gone (the foreign key and DeleteProfile's refusals, db.go:444-478).   *)
THEOREM EveryoneOnAProfile == Spec => []OnAProfile
  BY Invariance, PTL DEF IInv

(* A deadline that ends with the key being deleted is cleared only once the  *)
(* key works no longer and the table has forgotten it (expiry.go:86-108).    *)
THEOREM KeyGoneFirst == Spec => []RevokedBeforeCleared
  BY Invariance, PTL DEF IInv

-----------------------------------------------------------------------------
(* A switch reaches the limit sync. *)

(* A user switched since a limit sync began has a kick waiting, or a run     *)
(* under way that knows it owes one. A run that kept the answer of its last  *)
(* user, or a restart that did not sync, breaks it.                          *)
PushDue == unpushed # {} => kick \/ (run.at # "wait" /\ run.switched)

(* Whatever happens to the user it is about, the run does not forget.        *)
LEMMA SwitchRemembered ==
  ASSUME run \in Runs, NEW u \in Users,
         TakeUser(u) \/ ReadKey(u) \/ DeleteUpstream(u) \/ DropRow(u)
  PROVE  run'.at # "wait" /\ run'.switched = run.switched /\ UNCHANGED <<kick, unpushed>>
<1>1. run.switched \in BOOLEAN
  BY DEF Runs
<1>2. CASE NextUser
  BY <1>2, NextUserTurns DEF Turns
<1>3. CASE TakeUser(u)
  <2>1. PICK at \in {"key", "apply"} : at = IF run.seen[u].revoke THEN "key" ELSE "apply"
    OBVIOUS
  <2>2. run' = [run EXCEPT !.at = at, !.u = u, !.todo = @ \ {u}] /\ UNCHANGED <<kick, unpushed>>
    BY <1>3, <2>1 DEF TakeUser
  <2>. QED
    BY <2>1, <2>2 DEF Runs
<1>4. CASE ReadKey(u) /\ ~NextUser
  <2>1. PICK at \in {"gateway", "apply"} : at = IF row[u] # NoKey THEN "gateway" ELSE "apply"
    OBVIOUS
  <2>2. run' = [run EXCEPT !.at = at, !.key = row[u]] /\ UNCHANGED <<kick, unpushed>>
    BY <1>4, <2>1 DEF ReadKey
  <2>. QED
    BY <2>1, <2>2 DEF Runs
<1>5. CASE DeleteUpstream(u) /\ ~NextUser
  <2>1. UNCHANGED <<kick, unpushed>>
        /\ (run' = [run EXCEPT !.at = "drop"] \/ run' = Onwards(run.switched))
    BY <1>5 DEF DeleteUpstream
  <2>2. CASE run' = [run EXCEPT !.at = "drop"]
    BY <2>1, <2>2 DEF Runs
  <2>3. CASE run' = Onwards(run.switched)
    BY <1>1, <2>1, <2>3, OnwardsTurns DEF Turns
  <2>. QED
    BY <2>1, <2>2, <2>3
<1>6. CASE DropRow(u) /\ ~NextUser
  <2>1. UNCHANGED <<kick, unpushed>> /\ run' = [run EXCEPT !.at = "apply"]
    BY <1>6 DEF DropRow
  <2>. QED
    BY <2>1 DEF Runs
<1>. QED
  BY <1>2, <1>3, <1>4, <1>5, <1>6

(* Only a user who was switched joins those to be pushed, and the run knows. *)
LEMMA SwitchNoted ==
  ASSUME run \in Runs, NEW u \in Users, ApplyExpiry(u)
  PROVE  /\ run'.at # "wait" /\ (run.switched => run'.switched) /\ UNCHANGED kick
         /\ run'.switched \/ UNCHANGED unpushed
<1>1. run.switched \in BOOLEAN /\ run.seen[u] \in Assignments
  BY DEF Runs
<1>2. CASE NextUser
  BY <1>2, NextUserTurns DEF Turns
<1>3. CASE ~NextUser
  <2>1. PICK sw \in BOOLEAN : sw = (run.switched \/ ~run.seen[u].revoke)
    BY <1>1
  <2>2. run' = Onwards(sw) /\ UNCHANGED kick
        /\ unpushed' = IF run.seen[u].revoke THEN unpushed ELSE unpushed \union {u}
    BY <1>3, <2>1 DEF ApplyExpiry
  <2>3. run'.at = "next" /\ run'.switched = sw
    BY <2>2, OnwardsTurns DEF Turns
  <2>. QED
    BY <2>1, <2>2, <2>3
<1>. QED
  BY <1>2, <1>3

LEMMA PushDueNext ==
  ASSUME TypeOK, PushDue, [Next]_vars
  PROVE  PushDue'
<1>0. run \in Runs /\ kick \in BOOLEAN
  BY DEF TypeOK
<1>1. CASE \/ \E u \in Users, p \in Options, after \in Options, revoke \in BOOLEAN :
                SetUserProfile(u, p, after, revoke)
           \/ \E u \in Users, p \in Options : SetUserProfileForGood(u, p)
           \/ \E p \in Profiles : DeleteProfile(p)
           \/ Restart
  BY <1>1 DEF SetUserProfile, SetUserProfileForGood, DeleteProfile, Restart, PushDue
<1>2. CASE \/ \E u \in Users : DeadlinePasses(u)
           \/ \E u \in Users, k \in Keys : GenerateKey(u, k)
           \/ UNCHANGED vars
  <2>1. UNCHANGED <<run, kick, unpushed>>
    BY <1>2 DEF DeadlinePasses, GenerateKey, vars
  <2>. QED
    BY <2>1 DEF PushDue
<1>3. CASE SyncRuns
  BY <1>3 DEF SyncRuns, PushDue
<1>4. CASE ListPassed
  BY <1>4 DEF ListPassed, PushDue
<1>5. CASE RunEnds
  BY <1>0, <1>5 DEF RunEnds, PushDue
<1>6. ASSUME NEW u \in Users, TakeUser(u) \/ ReadKey(u) \/ DeleteUpstream(u) \/ DropRow(u)
      PROVE  PushDue'
  BY <1>0, <1>6, SwitchRemembered DEF PushDue
<1>7. ASSUME NEW u \in Users, ApplyExpiry(u)
      PROVE  PushDue'
  BY <1>0, <1>7, SwitchNoted DEF PushDue
<1>. QED
  BY <1>1, <1>2, <1>3, <1>4, <1>5, <1>6, <1>7 DEF Next, RunnerSteps

(* No switch at a deadline is left to the limit sync's interval: until the   *)
(* sync has begun a run, its channel holds a kick or the expiry run will     *)
(* send one, whoever fails after the switch and whenever the server restarts *)
(* (expiry.go:48-74; the safety half of SwitchIsPushed).                     *)
THEOREM SwitchOwesAPush == Spec => []PushDue
<1>1. Init => PushDue
  BY DEF Init, PushDue
<1>2. TypeOK /\ PushDue /\ [Next]_vars => PushDue'
  BY PushDueNext
<1>3. Spec => []TypeOK
  BY Invariance, PTL DEF IInv
<1>. QED
  BY <1>1, <1>2, <1>3, PTL DEF Spec

-----------------------------------------------------------------------------
(* The table keeps the contract of KeyTable.                                *)

RowsIssued == \A u \in Users : row[u] # NoKey => gw[row[u]] # "none"

Used == {k \in Keys : gw[k] # "none"}

(* What a step does to the keys: a replacement, a row dropped by its id, or *)
(* at most a deletion in the gateway.                                       *)
LEMMA KeysMove ==
  ASSUME TypeOK, [Next]_vars
  PROVE  \/ \E u \in Users, k \in Keys : GenerateKey(u, k)
         \/ \E u \in Users : /\ row' = [row EXCEPT ![u] = IF @ = run.key THEN NoKey ELSE @]
                              /\ gw' = gw
         \/ row' = row /\ (gw' = gw \/ gw' = [gw EXCEPT ![run.key] = "gone"])
<1>0. run \in Runs /\ gw \in [Keys -> {"none", "live", "gone"}]
  BY DEF TypeOK
<1>1. CASE \/ \E u \in Users, p \in Options, after \in Options, revoke \in BOOLEAN :
                SetUserProfile(u, p, after, revoke)
           \/ \E u \in Users, p \in Options : SetUserProfileForGood(u, p)
           \/ \E p \in Profiles : DeleteProfile(p)
           \/ \E u \in Users : DeadlinePasses(u)
           \/ SyncRuns \/ Restart \/ ListPassed \/ RunEnds \/ UNCHANGED vars
  BY <1>1 DEF SetUserProfile, SetUserProfileForGood, DeleteProfile, DeadlinePasses,
              SyncRuns, Restart, ListPassed, RunEnds, vars
<1>2. ASSUME NEW u \in Users, TakeUser(u) \/ ReadKey(u) \/ ApplyExpiry(u)
      PROVE  row' = row /\ gw' = gw
  BY <1>2 DEF TakeUser, ReadKey, ApplyExpiry, NextUser
<1>3. ASSUME NEW u \in Users, DeleteUpstream(u)
      PROVE  row' = row /\ (gw' = gw \/ gw' = [gw EXCEPT ![run.key] = "gone"])
  BY <1>0, <1>3, DeleteUpstreamDoes
<1>4. ASSUME NEW u \in Users, DropRow(u)
      PROVE  /\ gw' = gw
             /\ row' = row \/ row' = [row EXCEPT ![u] = IF @ = run.key THEN NoKey ELSE @]
  BY <1>0, <1>4, DropRowDoes
<1>. QED
  BY <1>1, <1>2, <1>3, <1>4 DEF Next, RunnerSteps

LEMMA Replaced ==
  ASSUME TypeOK, RowsIssued, NEW u \in Users, NEW k \in Keys, GenerateKey(u, k)
  PROVE  RowsIssued' /\ Table!Name(u, k)
<1>1. /\ gw[k] = "none" /\ row' = [row EXCEPT ![u] = k]
      /\ gw' = [j \in Keys |-> IF j = k THEN "live" ELSE IF j = row[u] THEN "gone" ELSE gw[j]]
  BY DEF GenerateKey
<1>2. \A j \in Keys : gw'[j] = "none" <=> gw[j] = "none" /\ j # k
  BY <1>1, ExpiryAssumption DEF RowsIssued
<1>3. RowsIssued'
  BY <1>1, <1>2 DEF RowsIssued, TypeOK
<1>4. Used' = Used \union {k} /\ k \notin Used
  BY <1>1, <1>2 DEF Used
<1>. QED
  BY <1>1, <1>3, <1>4 DEF Table!Name, Used

LEMMA Dropped ==
  ASSUME TypeOK, RowsIssued, NEW u \in Users, gw' = gw,
         row' = [row EXCEPT ![u] = IF @ = run.key THEN NoKey ELSE @]
  PROVE  RowsIssued' /\ Table!Next
<1>1. row' = row \/ row' = [row EXCEPT ![u] = NoKey]
  BY DEF TypeOK
<1>2. RowsIssued'
  BY <1>1 DEF RowsIssued, TypeOK
<1>3. row' = [row EXCEPT ![u] = NoKey] => Table!Forget(u)
  BY DEF Table!Forget
<1>4. row' = row => Table!Discard
  BY DEF Table!Discard
<1>. QED
  BY <1>1, <1>2, <1>3, <1>4 DEF Table!Next

LEMMA DeletedUpstream ==
  ASSUME TypeOK, RowsIssued, row' = row, gw' = gw \/ gw' = [gw EXCEPT ![run.key] = "gone"]
  PROVE  RowsIssued' /\ Table!Next
<1>1. \A k \in Keys : gw[k] # "none" => gw'[k] # "none"
  BY DEF TypeOK
<1>2. RowsIssued'
  BY <1>1 DEF RowsIssued, TypeOK
<1>3. Table!Discard
  BY <1>1 DEF Table!Discard
<1>. QED
  BY <1>2, <1>3 DEF Table!Next

(* The runner, which acts on the key it read however long ago, keeps the    *)
(* contract of the table as well: it drops the row it read or none          *)
(* (expiry.go:86-106, DeleteAPIKey by row id).                              *)
THEOREM TableKept == Spec => ImplementsKeyTable
<1>1. Init => RowsIssued /\ Table!Init
  BY DEF Init, RowsIssued, Table!Init
<1>2. TypeOK /\ RowsIssued /\ [Next]_vars => RowsIssued' /\ [Table!Next]_(Table!tableVars)
  <2>. SUFFICES ASSUME TypeOK, RowsIssued, [Next]_vars
                PROVE  RowsIssued' /\ Table!Next
    OBVIOUS
  <2>1. ASSUME NEW u \in Users, NEW k \in Keys, Table!Name(u, k)
        PROVE  Table!Next
    BY <2>1 DEF Table!Next
  <2>. QED
    BY <2>1, KeysMove, Replaced, Dropped, DeletedUpstream
<1>3. Spec => []TypeOK
  BY Invariance, PTL DEF IInv
<1>. QED
  BY <1>1, <1>2, <1>3, PTL DEF Spec, ImplementsKeyTable, Table!Spec

Contract == INSTANCE KeyTable_proofs WITH keyOf <- row, used <- Used

(* What the contract is worth here: a key that a reversion or a             *)
(* regeneration has removed from the table never returns to it, and no two  *)
(* users have one key, which IInv does not say (expiry.go:86-106).          *)
THEOREM OneOwnerAndGoneForGood == Spec => []Contract!OneOwner /\ Contract!GoneForGood
<1>1. Table!Init => Contract!Init
  BY DEF Table!Init, Contract!Init, Used
<1>2. [Table!Next]_(Table!tableVars) => [Contract!Next]_(Contract!tableVars)
  BY DEF Table!Next, Contract!Next, Table!Name, Contract!Name, Table!Forget, Contract!Forget,
         Table!Discard, Contract!Discard, Table!tableVars, Contract!tableVars, Used
<1>3. Table!Spec => Contract!Spec
  BY <1>1, <1>2, PTL DEF Table!Spec, Contract!Spec
<1>4. Contract!Spec => [](Contract!TypeOK /\ Contract!OneOwner)
  BY ExpiryAssumption, Contract!OneOwnerEach
<1>5. Contract!Spec => Contract!GoneForGood
  BY ExpiryAssumption, Contract!NeverAgain
<1>. QED
  BY <1>3, <1>4, <1>5, TableKept, PTL DEF ImplementsKeyTable
=============================================================================
