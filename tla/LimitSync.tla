----------------------------- MODULE LimitSync -----------------------------
(***************************************************************************)
(* How a profile's limits reach the keys in the gateway: the profile and   *)
(* assignment transactions of the admin panel, the record each key keeps   *)
(* of what it was last pushed with (internal/database), the background     *)
(* limit sync that pushes what is out of date (internal/limitsync), the    *)
(* two gateway records a push writes one after the other                   *)
(* (internal/litellm), and GenerateKey, which writes both as well.         *)
(*                                                                         *)
(* Limits are two values: s, the models and the TPM/RPM limits, which the  *)
(* profile's row holds and the key carries, and q, the quota windows, a    *)
(* table of their own, of which the owner's gateway user carries the       *)
(* widest and the key the rest. An email is treated as the name is.        *)
(* Deleting and revoking keys is in KeyLifecycle.tla.                      *)
(***************************************************************************)
EXTENDS Naturals, FiniteSets

CONSTANTS Users, Profiles, NoProfile, Keys, NoKey,
          Names,
          Scalars, Quotas,  \* the values of s and of q
          NoQuota,   \* the q of a profile without windows
          Owners,    \* users who have a key at the start
          MaxEdits,  \* how often the surroundings change something
          Changes,   \* what they change, a subset of AllChanges
          Faults,    \* what may go wrong, a subset of AllFaults
          Ticker     \* whether the sync also runs at intervals

AllChanges == {"profile", "assign", "login", "generate", "regenerate",
               "expiry", "resync", "loss"}
AllFaults == {"gateway",   \* a gateway call is refused
              "answer",    \* a gateway call takes effect, its answer is lost
              "database",  \* a statement fails
              "kill"}      \* the process dies and is restarted

ASSUME SyncAssumption == /\ NoProfile \notin Profiles
                         /\ NoKey \notin Keys
                         /\ NoQuota \in Quotas
                         /\ Names # {} /\ Scalars # {}
                         /\ MaxEdits \in Nat
                         /\ Owners \subseteq Users
                         /\ Changes \subseteq AllChanges
                         /\ Faults \subseteq AllFaults
                         /\ Ticker \in BOOLEAN

VARIABLES prof, dflt,      \* profiles and profile_quotas, and the default profile
          assigned, name,  \* users.profile_id and users.name
          row,             \* row[u]: the user's row of api_keys
          gk, owner,       \* the gateway's keys, and its internal users
          run, kick,       \* the sync's loop, and its channel of one kick
          push,            \* push[u]: what the current batch does with u's key
          gen,             \* gen[u]: a GenerateKey under way
          edits,           \* changes made so far
          unrecorded       \* history: keys pushed to since their last record

admin == <<prof, dflt, assigned, name>>
gateway == <<gk, owner>>
loop == <<run, kick>>
vars == <<prof, dflt, assigned, name, row, gk, owner, run, kick, push, gen,
          edits, unrecorded>>

-----------------------------------------------------------------------------
(* Types. Revision 0 stands for synced_rev NULL.                            *)
Revs == Nat
ProfileRows == [st : {"unborn", "alive", "dead"}, rev : Revs, s : Scalars, q : Quotas]
KeyRows == [key : Keys \union {NoKey}, sp : Profiles \union {NoProfile}, srev : Revs,
            sname : Names,
            failed : BOOLEAN,   \* sync_failed_at is not before the run's start
            expired : BOOLEAN, missing : BOOLEAN]
GwKeys == [on : BOOLEAN, s : Scalars, q : Quotas, alias : Names]

(* The local variables of syncOne and of GenerateKey. *)
Tasks == [at : {"out", "check", "profile", "quotas", "owner", "key", "alias", "mark",
                "fail", "missing", "create", "store", "revoke"},
          key : Keys \union {NoKey}, old : Keys \union {NoKey},
          p : Profiles \union {NoProfile}, rev : Revs, s : Scalars, q : Quotas,
          name : Names, relabel : BOOLEAN]

AnyName == CHOOSE n \in Names : TRUE
AnyScalar == CHOOSE s \in Scalars : TRUE

NoRow == [key |-> NoKey, sp |-> NoProfile, srev |-> 0, sname |-> AnyName,
          failed |-> FALSE, expired |-> FALSE, missing |-> FALSE]
NoTask == [at |-> "out", key |-> NoKey, old |-> NoKey, p |-> NoProfile, rev |-> 0,
           s |-> AnyScalar, q |-> NoQuota, name |-> AnyName, relabel |-> FALSE]
NoGwKey == [on |-> FALSE, s |-> AnyScalar, q |-> NoQuota, alias |-> AnyName]
Unborn == [st |-> "unborn", rev |-> 0, s |-> AnyScalar, q |-> NoQuota]

Runs == {"due", "wait", "check", "push", "abort"}

TypeOK == /\ prof \in [Profiles -> ProfileRows]
          /\ dflt \in Profiles
          /\ assigned \in [Users -> Profiles \union {NoProfile}]
          /\ name \in [Users -> Names]
          /\ row \in [Users -> KeyRows]
          /\ gk \in [Keys -> GwKeys]
          /\ owner \in [Users -> Quotas]
          /\ run \in Runs
          /\ kick \in BOOLEAN
          /\ push \in [Users -> Tasks]
          /\ gen \in [Users -> Tasks]
          /\ edits \in Nat
          /\ unrecorded \subseteq Keys \X {"limits", "alias"}

-----------------------------------------------------------------------------
(* What a change adds to a revision. *)
Bump(cond) == IF cond THEN 1 ELSE 0

(* A portal in service, its server about to start: there is a default       *)
(* profile, nobody has one of their own, and the owners have keys in line.  *)
(* Names and scalars start out equal: edits and logins change them.         *)
FirstRev(q) == 1 + Bump(q # NoQuota)

InService(d, keyOf, q) ==
  /\ \A u, v \in Owners : keyOf[u] = keyOf[v] => u = v
  /\ dflt = d
  /\ \E born \in SUBSET Profiles :
       prof = [p \in Profiles |->
         IF p = d THEN [st |-> "alive", rev |-> FirstRev(q), s |-> AnyScalar, q |-> q]
         ELSE IF p \in born THEN [st |-> "alive", rev |-> 1, s |-> AnyScalar, q |-> NoQuota]
         ELSE Unborn]
  /\ row = [u \in Users |-> IF u \in Owners
              THEN [NoRow EXCEPT !.key = keyOf[u], !.sp = d, !.srev = FirstRev(q)]
              ELSE NoRow]
  /\ gk = [k \in Keys |-> IF \E u \in Owners : keyOf[u] = k
             THEN [NoGwKey EXCEPT !.on = TRUE, !.q = q] ELSE NoGwKey]
  /\ owner = [u \in Users |-> q]

Init ==
  /\ \E d \in Profiles, keyOf \in [Owners -> Keys], q \in Quotas : InService(d, keyOf, q)
  /\ assigned = [u \in Users |-> NoProfile]
  /\ name = [u \in Users |-> AnyName]
  /\ run = "due"
  /\ kick = FALSE
  /\ push = [u \in Users |-> NoTask]
  /\ gen = [u \in Users |-> NoTask]
  /\ edits = 0
  /\ unrecorded = {}

-----------------------------------------------------------------------------
(* Which keys are out of date (the query pendingLimitSyncs).                *)

(* A user's effective profile: their own, or the default one.               *)
Effective(u) == IF assigned[u] # NoProfile THEN assigned[u] ELSE dflt

(* Keys that limits concern: an expired key enforces nothing, and one       *)
(* marked missing is not there.                                             *)
Covered(u) == row[u].key # NoKey /\ ~row[u].expired /\ ~row[u].missing

Pending(u) ==
  /\ Covered(u)
  /\ \/ prof[Effective(u)].st # "alive"
     \/ row[u].sp # Effective(u)
     \/ row[u].srev # prof[Effective(u)].rev
     \/ row[u].sname # name[u]

-----------------------------------------------------------------------------
(* The transactions of the admin panel. Each handler kicks the sync when it *)
(* returns; a process killed in between runs the sync when it starts.       *)
Change(kind) == /\ kind \in Changes
                /\ edits < MaxEdits
                /\ edits' = edits + 1

(* store.CreateProfile: revision 1, raised once more by its first windows.  *)
CreateProfile(p, s, q, default) ==
  /\ Change("profile")
  /\ prof[p].st = "unborn"
  /\ prof' = [prof EXCEPT ![p] = [st |-> "alive", rev |-> FirstRev(q),
                                  s |-> s, q |-> q]]
  /\ dflt' = IF default THEN p ELSE dflt
  /\ kick' = TRUE
  /\ UNCHANGED <<assigned, name, row, gateway, run, push, gen, unrecorded>>

(* Mutant: a change of the windows alone leaves the revision as it was. *)
UpdateRowOnly(p, s, q, default) ==
  /\ Change("profile")
  /\ prof[p].st = "alive"
  /\ p = dflt => default
  /\ prof' = [prof EXCEPT ![p] = [st |-> "alive", s |-> s, q |-> q,
                                  rev |-> prof[p].rev + Bump(prof[p].s # s)]]
  /\ dflt' = IF default THEN p ELSE dflt
  /\ kick' = TRUE
  /\ UNCHANGED <<assigned, name, row, gateway, run, push, gen, unrecorded>>

(* store.UpdateProfile: the row and the windows each raise the revision     *)
(* when they change; the default profile stays the default.                 *)
UpdateProfile(p, s, q, default) ==
  /\ Change("profile")
  /\ prof[p].st = "alive"
  /\ p = dflt => default
  /\ prof' = [prof EXCEPT ![p] =
       [st |-> "alive", s |-> s, q |-> q,
        rev |-> prof[p].rev + Bump(prof[p].s # s) + Bump(prof[p].q # q)]]
  /\ dflt' = IF default THEN p ELSE dflt
  /\ kick' = TRUE
  /\ UNCHANGED <<assigned, name, row, gateway, run, push, gen, unrecorded>>

(* Mutant: users may still be assigned to the profile. *)
DeleteAssigned(p) ==
  /\ Change("profile")
  /\ prof[p].st = "alive"
  /\ p # dflt
  /\ prof' = [prof EXCEPT ![p] = [Unborn EXCEPT !.st = "dead"]]
  /\ kick' = TRUE
  /\ UNCHANGED <<dflt, assigned, name, row, gateway, run, push, gen, unrecorded>>

(* store.DeleteProfile: not the default one, nor one that users are         *)
(* assigned to; its windows go with it. Ids are never reused.               *)
DeleteProfile(p) ==
  /\ Change("profile")
  /\ prof[p].st = "alive"
  /\ p # dflt
  /\ \A u \in Users : assigned[u] # p
  /\ prof' = [prof EXCEPT ![p] = [Unborn EXCEPT !.st = "dead"]]
  /\ kick' = TRUE
  /\ UNCHANGED <<dflt, assigned, name, row, gateway, run, push, gen, unrecorded>>

(* Mutant: the handler returns without kicking the sync. *)
AssignQuietly(u, p) ==
  /\ Change("assign")
  /\ p # NoProfile => prof[p].st = "alive"
  /\ assigned' = [assigned EXCEPT ![u] = p]
  /\ UNCHANGED <<prof, dflt, name, row, gateway, loop, push, gen, unrecorded>>

(* store.SetUserProfileUntil, and the end of a temporary assignment; the    *)
(* foreign key refuses a profile that does not exist.                       *)
Assign(u, p) ==
  /\ Change("assign")
  /\ p # NoProfile => prof[p].st = "alive"
  /\ assigned' = [assigned EXCEPT ![u] = p]
  /\ kick' = TRUE
  /\ UNCHANGED <<prof, dflt, name, row, gateway, run, push, gen, unrecorded>>

(* Callback: a login stores the user's name and kicks the sync.             *)
Login(u, n) == /\ Change("login")
               /\ name' = [name EXCEPT ![u] = n]
               /\ kick' = TRUE
               /\ UNCHANGED <<prof, dflt, assigned, row, gateway, run, push, gen, unrecorded>>

(* The command -resync-limits (MarkAllLimitsPending) kicks nobody: it is a  *)
(* process of its own.                                                      *)
Resync == /\ Change("resync")
          /\ row' = [u \in Users |-> [row[u] EXCEPT !.srev = 0]]
          /\ UNCHANGED <<admin, gateway, loop, push, gen, unrecorded>>

(* A key expires; ExtendKey revives it and kicks the sync.                  *)
Expire(u) == /\ Change("expiry")
             /\ row[u].key # NoKey /\ ~row[u].expired
             /\ row' = [row EXCEPT ![u].expired = TRUE]
             /\ UNCHANGED <<admin, gateway, loop, push, gen, unrecorded>>

Extend(u) == /\ Change("expiry")
             /\ row[u].expired /\ ~row[u].missing /\ gk[row[u].key].on
             /\ gen[u].at \in {"out", "profile"}   \* the key lock
             /\ row' = [row EXCEPT ![u].expired = FALSE]
             /\ kick' = TRUE
             /\ UNCHANGED <<admin, gateway, run, push, gen, unrecorded>>

(* The gateway loses a key, or is restored and has it again.                *)
LoseOrRegain(u) ==
  /\ Change("loss")
  /\ row[u].key # NoKey
  /\ gk' = [gk EXCEPT ![row[u].key].on = ~@]
  /\ UNCHANGED <<admin, row, owner, loop, push, gen, unrecorded>>

-----------------------------------------------------------------------------
(* The sync's loop (Start, Run, syncBatch). *)
Refused == "gateway" \in Faults
NoAnswer == "answer" \in Faults
DbError == "database" \in Faults

BatchDone == \A u \in Users : push[u].at = "out"

(* A run starts: with the server, on a kick, or at the interval. It checks  *)
(* the keys that are marked missing first (ListMissingKeys).                *)
BeginRun ==
  /\ \/ run = "due" /\ UNCHANGED kick
     \/ run = "wait" /\ kick /\ kick' = FALSE
     \/ run = "wait" /\ Ticker /\ UNCHANGED kick
  /\ \/ /\ run' = "check"
        /\ push' = [u \in Users |-> IF row[u].missing
             THEN [NoTask EXCEPT !.at = "check", !.key = row[u].key] ELSE NoTask]
     \/ DbError /\ run' = "wait" /\ UNCHANGED push
  /\ UNCHANGED <<admin, row, gateway, gen, edits, unrecorded>>

(* PendingLimitSyncs: a batch of pending keys that have not failed in this  *)
(* run. The run's start is taken when the checks are done, so every earlier *)
(* failure is before it. No key left: the run ends.                         *)
Fetch ==
  /\ run \in {"check", "push"} /\ BatchDone
  /\ LET fresh == {u \in Users : Pending(u) /\ (run = "push" => ~row[u].failed)} IN
     /\ \/ /\ fresh = {}
           /\ run' = "wait" /\ UNCHANGED push
        \/ \E batch \in SUBSET fresh :
             /\ batch # {}
             /\ run' = "push"
             /\ push' = [u \in Users |-> IF u \in batch
                  THEN [NoTask EXCEPT !.at = "profile", !.key = row[u].key,
                                      !.p = Effective(u), !.name = name[u],
                                      !.relabel = row[u].sname # name[u]]
                  ELSE NoTask]
        \/ DbError /\ run' = "wait" /\ UNCHANGED push
     /\ row' = IF run = "check" THEN [u \in Users |-> [row[u] EXCEPT !.failed = FALSE]]
                                ELSE row
  /\ UNCHANGED <<admin, gateway, kick, gen, edits, unrecorded>>

(* An outcome could not be recorded: the run ends with its batch.           *)
Abort == /\ run = "abort" /\ BatchDone
         /\ run' = "wait"
         /\ UNCHANGED <<admin, row, gateway, kick, push, gen, edits, unrecorded>>

-----------------------------------------------------------------------------
(* One key's push (syncOne, UpdateLimits). *)
Go(u, at) == push' = [push EXCEPT ![u].at = at]
Done(u) == push' = [push EXCEPT ![u] = NoTask]
GiveUp(u, at) == push' = [push EXCEPT ![u] = [NoTask EXCEPT !.at = at, !.key = push[u].key]]

(* A statement about the key the task is for, by row id. *)
Write(u, newRow) == row' = IF row[u].key = push[u].key THEN [row EXCEPT ![u] = newRow] ELSE row

(* Record an outcome and end the task; if that fails, end the run. What the *)
(* statement puts on record is `settled'.                                   *)
Record(u, newRow, settled) ==
  /\ Done(u)
  /\ \/ Write(u, newRow) /\ unrecorded' = unrecorded \ settled /\ UNCHANGED run
     \/ DbError /\ run' = "abort" /\ UNCHANGED <<row, unrecorded>>
  /\ UNCHANGED <<admin, gateway, kick, gen, edits>>

(* checkOne, its question and its statement in one: the statement tests the *)
(* marker again, and KeyLifecycle.tla takes the two apart. A key that is    *)
(* back is made out of date; one that stayed away is removed, after a while.*)
CheckMissing(u) ==
  LET k == push[u].key IN
  /\ push[u].at = "check"
  /\ \/ gk[k].on /\ Record(u, [row[u] EXCEPT !.missing = FALSE, !.srev = 0], {})
     \/ ~gk[k].on /\ row[u].missing /\ Record(u, NoRow, {})
     \/ (~gk[k].on \/ Refused \/ NoAnswer) /\ Record(u, row[u], {})

(* GetProfile, the profile's row. *)
LoadProfile(u) ==
  LET p == prof[push[u].p] IN
  /\ push[u].at = "profile"
  /\ \/ /\ p.st = "alive"
        /\ push' = [push EXCEPT ![u].at = "quotas", ![u].rev = p.rev, ![u].s = p.s]
     \/ (p.st # "alive" \/ DbError) /\ GiveUp(u, "fail")
  /\ UNCHANGED <<admin, row, gateway, loop, gen, edits, unrecorded>>

(* GetProfile, the second query: its windows. *)
LoadQuotas(u) ==
  /\ push[u].at = "quotas"
  /\ \/ push' = [push EXCEPT ![u].at = "owner", ![u].q = prof[push[u].p].q]
     \/ DbError /\ GiveUp(u, "fail")
  /\ UNCHANGED <<admin, row, gateway, loop, gen, edits, unrecorded>>

(* Mutant: no budget is sent as an omitted field, which changes nothing. *)
PushOwnerOmitting(u) ==
  /\ push[u].at = "owner"
  /\ \/ /\ owner' = IF push[u].q = NoQuota THEN owner ELSE [owner EXCEPT ![u] = push[u].q]
        /\ unrecorded' = unrecorded \union {<<push[u].key, "limits">>}
        /\ Go(u, "key")
     \/ Refused /\ GiveUp(u, "fail") /\ UNCHANGED <<owner, unrecorded>>
  /\ UNCHANGED <<admin, row, gk, loop, gen, edits>>

(* UpsertUser: the widest window goes to the key's owner. *)
PushOwner(u) ==
  /\ push[u].at = "owner"
  /\ \/ /\ owner' = [owner EXCEPT ![u] = push[u].q]
        /\ unrecorded' = unrecorded \union {<<push[u].key, "limits">>}
        /\ Go(u, "key") \/ (NoAnswer /\ GiveUp(u, "fail"))
     \/ Refused /\ GiveUp(u, "fail") /\ UNCHANGED <<owner, unrecorded>>
  /\ UNCHANGED <<admin, row, gk, loop, gen, edits>>

(* UpdateKeyLimits: the key gets the rest. *)
PushKey(u) ==
  LET k == push[u].key IN
  /\ push[u].at = "key"
  /\ \/ /\ gk[k].on
        /\ gk' = [gk EXCEPT ![k].s = push[u].s, ![k].q = push[u].q]
        /\ unrecorded' = unrecorded \union {<<k, "limits">>}
        /\ \/ Go(u, IF push[u].relabel THEN "alias" ELSE "mark")
           \/ NoAnswer /\ GiveUp(u, "fail")
     \/ ~gk[k].on /\ GiveUp(u, "missing") /\ UNCHANGED <<gk, unrecorded>>
     \/ Refused /\ GiveUp(u, "fail") /\ UNCHANGED <<gk, unrecorded>>
  /\ UNCHANGED <<admin, row, owner, loop, gen, edits>>

(* UpdateAlias *)
PushAlias(u) ==
  LET k == push[u].key IN
  /\ push[u].at = "alias"
  /\ \/ /\ gk[k].on
        /\ gk' = [gk EXCEPT ![k].alias = push[u].name]
        /\ unrecorded' = unrecorded \union {<<k, "alias">>}
        /\ Go(u, "mark") \/ (NoAnswer /\ GiveUp(u, "fail"))
     \/ ~gk[k].on /\ GiveUp(u, "missing") /\ UNCHANGED <<gk, unrecorded>>
     \/ Refused /\ GiveUp(u, "fail") /\ UNCHANGED <<gk, unrecorded>>
  /\ UNCHANGED <<admin, row, owner, loop, gen, edits>>

(* Mutant: the profile's revision is read again when the push is recorded. *)
MarkCurrent(u) ==
  LET t == push[u] IN
  /\ t.at = "mark"
  /\ Record(u, [row[u] EXCEPT !.sp = t.p, !.srev = prof[t.p].rev, !.sname = t.name,
                              !.failed = FALSE],
            {t.key} \X IF t.relabel THEN {"limits", "alias"} ELSE {"limits"})

(* MarkLimitsSynced: "The revision, name and email are the ones the sync    *)
(* read before pushing, not the current ones".                              *)
Mark(u) ==
  LET t == push[u] IN
  /\ t.at = "mark"
  /\ Record(u, [row[u] EXCEPT !.sp = t.p, !.srev = t.rev, !.sname = t.name, !.failed = FALSE],
            {t.key} \X IF t.relabel THEN {"limits", "alias"} ELSE {"limits"})

(* Mutant: only the message of a failure is recorded, not its time. *)
MarkFailedUndated(u) == push[u].at = "fail" /\ Record(u, row[u], {})

(* MarkLimitSyncFailed *)
MarkFailed(u) == push[u].at = "fail" /\ Record(u, [row[u] EXCEPT !.failed = TRUE], {})

(* MarkKeyMissing *)
MarkMissing(u) == push[u].at = "missing" /\ Record(u, [row[u] EXCEPT !.missing = TRUE], {})

-----------------------------------------------------------------------------
(* GenerateKey. The handlers' lock lets one at a time act for a user.       *)

(* requireSession loads the user, before the request waits for the lock.    *)
StartGenerate(u) ==
  /\ Change(IF row[u].key = NoKey THEN "generate" ELSE "regenerate")
  /\ gen[u].at = "out"
  /\ gen' = [gen EXCEPT ![u] = [NoTask EXCEPT !.at = "profile",
                                             !.p = assigned[u], !.name = name[u]]]
  /\ UNCHANGED <<admin, row, gateway, loop, push, unrecorded>>

Quit(u) == gen' = [gen EXCEPT ![u] = NoTask]
Proceed(u, at) == gen' = [gen EXCEPT ![u].at = at]

(* GetAPIKeyByUser and resolveProfile, in two queries as in the sync.       *)
ReadProfile(u) ==
  LET p == IF gen[u].p # NoProfile THEN gen[u].p ELSE dflt IN
  /\ gen[u].at = "profile"
  /\ \/ /\ prof[p].st = "alive"
        /\ gen' = [gen EXCEPT ![u].at = "quotas", ![u].old = row[u].key, ![u].p = p,
                              ![u].rev = prof[p].rev, ![u].s = prof[p].s]
     \/ (prof[p].st # "alive" \/ DbError) /\ Quit(u)
  /\ UNCHANGED <<admin, row, gateway, loop, push, edits, unrecorded>>

ReadQuotas(u) ==
  /\ gen[u].at = "quotas"
  /\ \/ gen' = [gen EXCEPT ![u].at = "owner", ![u].q = prof[gen[u].p].q]
     \/ DbError /\ Quit(u)
  /\ UNCHANGED <<admin, row, gateway, loop, push, edits, unrecorded>>

(* Provider.CreateKey: "The user is upserted first".                        *)
GiveAllowance(u) ==
  /\ gen[u].at = "owner"
  /\ \/ /\ owner' = [owner EXCEPT ![u] = gen[u].q]
        /\ Proceed(u, "create") \/ (NoAnswer /\ Quit(u))
     \/ Refused /\ Quit(u) /\ UNCHANGED owner
  /\ UNCHANGED <<admin, row, gk, loop, push, edits, unrecorded>>

Known == {row[u].key : u \in Users} \union {push[u].key : u \in Users}
           \union {gen[u].key : u \in Users} \union {gen[u].old : u \in Users}

(* Client.CreateKey: a key nobody knows yet.                                *)
IssueKey(u) ==
  /\ gen[u].at = "create"
  /\ \/ \E k \in Keys :
          /\ ~gk[k].on /\ k \notin Known
          /\ gk' = [gk EXCEPT ![k] = [on |-> TRUE, s |-> gen[u].s, q |-> gen[u].q,
                                      alias |-> gen[u].name]]
          /\ unrecorded' = unrecorded \ ({k} \X {"limits", "alias"})
          /\ \/ gen' = [gen EXCEPT ![u].at = "store", ![u].key = k]
             \/ NoAnswer /\ Quit(u)
     \/ Refused /\ Quit(u) /\ UNCHANGED <<gk, unrecorded>>
  /\ UNCHANGED <<admin, row, owner, loop, push, edits>>

(* ReplaceAPIKey, with what the key was created with. If it fails, the key  *)
(* is revoked at once (KeyLifecycle.tla has that as a step of its own).     *)
StoreKey(u) ==
  LET t == gen[u] IN
  /\ t.at = "store"
  /\ \/ /\ row' = [row EXCEPT ![u] = [NoRow EXCEPT !.key = t.key, !.sp = t.p,
                                                    !.srev = t.rev, !.sname = t.name]]
        /\ IF t.old = NoKey THEN Quit(u)
             ELSE gen' = [gen EXCEPT ![u] = [NoTask EXCEPT !.at = "revoke", !.old = t.old]]
        /\ UNCHANGED gk
     \/ DbError /\ Quit(u) /\ gk' = [gk EXCEPT ![t.key] = NoGwKey] /\ UNCHANGED row
  /\ UNCHANGED <<admin, owner, loop, push, edits, unrecorded>>

(* The replaced key is revoked; a failure is only logged.                   *)
RevokeOld(u) ==
  /\ gen[u].at = "revoke"
  /\ \/ gk' = [gk EXCEPT ![gen[u].old] = NoGwKey]
     \/ Refused /\ UNCHANGED gk
  /\ Quit(u)
  /\ UNCHANGED <<admin, row, owner, loop, push, edits, unrecorded>>

-----------------------------------------------------------------------------
(* The process is killed, or stopped: what is under way is lost, and the    *)
(* sync runs when the server starts again.                                  *)
Kill == /\ "kill" \in Faults
        /\ run' = "due" /\ kick' = FALSE
        /\ push' = [u \in Users |-> NoTask]
        /\ gen' = [u \in Users |-> NoTask]
        /\ UNCHANGED <<admin, row, gateway, edits, unrecorded>>

Admin == \/ \E p \in Profiles, s \in Scalars, q \in Quotas, default \in BOOLEAN :
              CreateProfile(p, s, q, default) \/ UpdateProfile(p, s, q, default)
         \/ \E p \in Profiles : DeleteProfile(p)
         \/ \E u \in Users, p \in Profiles \union {NoProfile} : Assign(u, p)
         \/ Resync

Push(u) == \/ CheckMissing(u) \/ LoadProfile(u) \/ LoadQuotas(u)
           \/ PushOwner(u) \/ PushKey(u) \/ PushAlias(u)
           \/ Mark(u) \/ MarkFailed(u) \/ MarkMissing(u)

Generate(u) == \/ ReadProfile(u) \/ ReadQuotas(u) \/ GiveAllowance(u)
               \/ IssueKey(u) \/ StoreKey(u) \/ RevokeOld(u)

User(u) == \/ \E n \in Names : Login(u, n)
           \/ Expire(u) \/ Extend(u) \/ LoseOrRegain(u)
           \/ StartGenerate(u) \/ Generate(u)

Next == \/ Admin
        \/ \E u \in Users : User(u) \/ Push(u)
        \/ BeginRun \/ Fetch \/ Abort
        \/ Kill

Spec == Init /\ [][Next]_vars

(* The sync's goroutine keeps running, and its gateway calls time out; no   *)
(* other fairness: nobody has to change anything, and the gateway may fail  *)
(* for ever.                                                                *)
FairSpec == /\ Spec
            /\ WF_vars(BeginRun) /\ WF_vars(Fetch) /\ WF_vars(Abort)
            /\ \A u \in Users : WF_vars(Push(u))

-----------------------------------------------------------------------------
(* What holds the record, the tasks and the gateway together. IInv is       *)
(* inductive; LimitSync_proofs proves it for all constants.                 *)
PushStages == {"profile", "quotas", "owner", "key", "alias", "mark"}
Reading == {"quotas", "owner", "key", "alias", "mark", "create", "store"}

(* The profiles that can be somebody's exist, and count from 1. *)
ProfilesStand == /\ prof[dflt].st = "alive"
                 /\ \A u \in Users : assigned[u] # NoProfile => prof[assigned[u]].st = "alive"
                 /\ \A p \in Profiles : prof[p].st = "alive" => prof[p].rev >= 1

(* A task that read a profile is behind it, or has what it has: there is no *)
(* edit that leaves the revision as it was.                                 *)
Reads(t) == t.at \in Reading =>
  LET p == prof[t.p] IN
  /\ t.p \in Profiles /\ p.st # "unborn"
  /\ p.st = "alive" => t.rev <= p.rev
  /\ p.st = "alive" /\ t.rev = p.rev => t.s = p.s /\ (t.at # "quotas" => t.q = p.q)

TasksRead == \A u \in Users :
  /\ push[u].at \in PushStages => push[u].key \in Keys /\ push[u].p \in Profiles
  /\ Reads(push[u])
  /\ Reads(gen[u])

(* No two users' rows and tasks are about the same key, and a key that is   *)
(* not in the table yet, or no longer, is not the row's.                    *)
Held(u) == {row[u].key, push[u].key, gen[u].key, gen[u].old} \ {NoKey}

KeysApart == /\ \A u, v \in Users : u # v => Held(u) \intersect Held(v) = {}
             /\ \A u \in Users :
                  /\ gen[u].at # "store" => gen[u].key = NoKey
                  /\ gen[u].at = "store" => /\ gen[u].key \in Keys
                                            /\ gen[u].key \notin {row[u].key, push[u].key,
                                                                  gen[u].old}
                  /\ gen[u].at = "revoke" => gen[u].old \in Keys /\ gen[u].old # row[u].key

(* What a task has written is still there when it records it. *)
PushCarried(u) == LET t == push[u]  k == gk[push[u].key] IN
  t.at \in PushStages /\ row[u].key = t.key =>
    /\ t.at \in {"alias", "mark"} => k.s = t.s /\ k.q = t.q
    /\ t.at = "mark" /\ t.relabel => k.alias = t.name
    /\ ~t.relabel => row[u].sname = t.name

GenCarried(u) == LET t == gen[u]  k == gk[gen[u].key] IN
  t.at = "store" => k.s = t.s /\ k.q = t.q /\ k.alias = t.name

Carried == \A u \in Users : PushCarried(u) /\ GenCarried(u)

(* What a row says of its key is so. *)
Tells(u) == LET r == row[u]  k == gk[row[u].key]  p == prof[row[u].sp] IN
  r.key # NoKey =>
    /\ r.sp \in Profiles /\ p.st # "unborn"
    /\ p.st = "alive" => r.srev <= p.rev
    /\ p.st = "alive" /\ r.srev = p.rev /\ <<r.key, "limits">> \notin unrecorded
         => k.s = p.s /\ k.q = p.q
    /\ <<r.key, "alias">> \notin unrecorded => k.alias = r.sname

RowsTell == \A u \in Users : Tells(u)

IInv == TypeOK /\ ProfilesStand /\ TasksRead /\ KeysApart /\ Carried /\ RowsTell

-----------------------------------------------------------------------------
(* Properties. *)

(* A key that is not out of date carries the limits and the name that its   *)
(* owner's effective profile and their account have now: no edit, move,     *)
(* login, regeneration or push, in whatever order their statements and      *)
(* calls fall, makes the record of a key say more than reached it. The      *)
(* exception is a push that changed the key and could not put it on record, *)
(* until the next push.                                                     *)
KeyInLine == \A u \in Users :
  LET k == row[u].key  p == prof[Effective(u)] IN
  Covered(u) /\ ~Pending(u) =>
    /\ <<k, "limits">> \notin unrecorded => gk[k].s = p.s /\ gk[k].q = p.q
    /\ <<k, "alias">> \notin unrecorded => gk[k].alias = name[u]

(* The same of the allowance its owner holds, as long as no key is          *)
(* generated; LimitsInLine shows why. LimitSync_proofs proves it.           *)
OwnerInLine == \A u \in Users :
  Covered(u) /\ ~Pending(u) /\ <<row[u].key, "limits">> \notin unrecorded
    => owner[u] = prof[Effective(u)].q

(* The default profile and every assigned one exist, so no key is without   *)
(* limits to push: deleting, assigning and making default never combine to  *)
(* leave a user without a profile.                                          *)
EveryoneHasAProfile == \A u \in Users : prof[Effective(u)].st = "alive"

(* A run ends, however often pushes fail: a key that failed waits for the   *)
(* next run.                                                                *)
RunEnds == run \notin {"wait"} ~> run = "wait"

(* "It never blocks: kicks that arrive while one is already waiting         *)
(* collapse into it, and a run already under way picks up keys that go out  *)
(* of date while it works": without any help of the interval, once changes  *)
(* cease every key is in line or has failed for all to see.                 *)
NothingForgotten == <>[](\A u \in Users : Pending(u) => row[u].failed)

(* What the documentation promises of the limit sync: with no run and no    *)
(* request under way or asked for, a key that is not out of date is in      *)
(* line, its owner's allowance included.                                    *)
LimitsInLine ==
  run = "wait" /\ ~kick /\ (\A u \in Users : gen[u].at = "out") =>
    \A u \in Users : Covered(u) /\ ~Pending(u) =>
      LET k == gk[row[u].key]  p == prof[Effective(u)] IN
      k.s = p.s /\ k.q = p.q /\ owner[u] = p.q
=============================================================================
