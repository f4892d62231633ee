---------------------------- MODULE KeyLifecycle ----------------------------
(***************************************************************************)
(* The life of a user's gateway key: the requests that issue, prolong,     *)
(* delete, revoke and look at it (internal/handlers), the check of keys    *)
(* the gateway has lost (internal/limitsync), the key table                *)
(* (internal/database) and the LiteLLM gateway behind                      *)
(* internal/litellm.                                                       *)
(*                                                                         *)
(* The table and the gateway share no transaction. Each database statement *)
(* or transaction and each gateway call is one action, so that every other *)
(* request may run in between, any call may fail, the client may vanish    *)
(* and the process may be killed. The user's lock is the contract of       *)
(* UserMutex, which keylock.go implements (KeyedLock.tla).                 *)
(*                                                                         *)
(* A key is a model value: its hash, secret and row id are one-to-one (one *)
(* row per issued key, ids are never reused). Dates are small numbers that *)
(* are only compared. Alias, prefix, flash, metrics and the audit log are  *)
(* left out; audit rows never decide a branch.                             *)
(***************************************************************************)
EXTENDS Naturals

CONSTANTS Users, NoUser, Reqs,
          Keys, NoKey,
          MaxDate,  \* expiry dates are 1..MaxDate
          Faults    \* what may go wrong, a subset of AllFaults

AllFaults == {"gateway",     \* a gateway call is refused
              "answer",      \* a gateway call takes effect, its answer is lost
              "database",    \* a statement fails
              "client",      \* a client disconnects: its request's context ends
              "kill",        \* the process dies and is restarted
              "loss"}        \* the gateway loses a key, and may regain it

ASSUME LifecycleAssumption == /\ NoKey \notin Keys
                              /\ NoUser \notin Users
                              /\ MaxDate \in Nat \ {0}
                              /\ Faults \subseteq AllFaults

VARIABLES phase, target,  \* the key locks, see UserMutex
          h,        \* h[r]: the request r: where it is and its local variables
          chk,      \* the missing-key check of the limit sync
          row,      \* row[u]: the user's row of api_keys
          gw,       \* gw[k]: what the gateway has of key k
          gwDate,   \* gwDate[k]: when the gateway lets k expire
          excused,  \* history: keys the portal lost track of for a known reason
          skewed    \* history: keys whose last extension was cut in half

lockVars == <<phase, target>>
store == <<row>>
gateway == <<gw, gwDate>>
history == <<excused, skewed>>
vars == <<phase, target, h, chk, row, gw, gwDate, excused, skewed>>

Lock == INSTANCE UserMutex

-----------------------------------------------------------------------------
(* Types. *)
Locked == {"generate", "extend", "delete"}    \* handlers that take the lock
Lockless == {"revoke", "view"}                \* RevokeUserKey and Dashboard
Dates == 1..MaxDate

(* Where a request is: the call or statement it executes next. *)
At == {"out", "lock", "read", "create", "store", "rollback", "revokeOld",
       "prolong", "record", "look", "mark", "revoke", "drop"}

Idle == [at |-> "out", kind |-> "view", user |-> NoUser,
         old |-> NoKey, new |-> NoKey, until |-> 0, gone |-> FALSE]
NoRow == [key |-> NoKey, exp |-> 0, missing |-> "no"]
NoCheck == [at |-> "out", user |-> NoUser, key |-> NoKey]

Handlers == [at : At, kind : Locked \union Lockless, user : Users \union {NoUser},
             old : Keys \union {NoKey}, new : Keys \union {NoKey},
             until : 0..MaxDate,
             gone : BOOLEAN]   \* the context is known to have ended

(* missing_since: unset, set within the grace period, or before it. *)
Rows == [key : Keys \union {NoKey}, exp : 0..MaxDate, missing : {"no", "fresh", "old"}]

Checks == [at : {"out", "ask", "clear", "remove"}, user : Users \union {NoUser},
           key : Keys \union {NoKey}]

GwStates == {"none", "live", "lost", "revoked"}

TypeOK == /\ phase \in [Reqs -> Lock!Phases]
          /\ target \in [Reqs -> Users \union {NoUser}]
          /\ h \in [Reqs -> Handlers]
          /\ chk \in Checks
          /\ row \in [Users -> Rows]
          /\ gw \in [Keys -> GwStates]
          /\ gwDate \in [Keys -> 0..MaxDate]
          /\ excused \subseteq Keys
          /\ skewed \subseteq Keys

Init == /\ Lock!Init
        /\ h = [r \in Reqs |-> Idle]
        /\ chk = NoCheck
        /\ row = [u \in Users |-> NoRow]
        /\ gw = [k \in Keys |-> "none"]
        /\ gwDate = [k \in Keys |-> 0]
        /\ excused = {}
        /\ skewed = {}

-----------------------------------------------------------------------------
(* Outcomes. A statement or call fails on its own account or because the    *)
(* request's context has ended; from then on every later one fails as well, *)
(* before it leaves the process. A disconnection shows at the next call, so *)
(* that is where the model lets it happen.                                  *)
Works(r) == ~h[r].gone
ClientGone(r) == h[r].gone \/ "client" \in Faults
DbFails(r) == ClientGone(r) \/ "database" \in Faults
CallRefused(r) == ClientGone(r) \/ "gateway" \in Faults
AnswerLost(r) == Works(r) /\ "answer" \in Faults

(* Mutant: a path that returns without unlocking. *)
FinishLocked(r) == h' = [h EXCEPT ![r] = Idle] /\ UNCHANGED lockVars

(* The handler goes on, or it returns: its deferred unlock then runs, on    *)
(* every path. What a handler writes after its last database statement or   *)
(* gateway call (the response, audit, the kick of the sync) is left out.    *)
Go(r, at) == /\ h' = [h EXCEPT ![r].at = at]
             /\ UNCHANGED lockVars

Finish(r) == /\ h' = [h EXCEPT ![r] = Idle]
             /\ IF h[r].kind \in Locked THEN Lock!Leave(r) ELSE UNCHANGED lockVars

(* The gateway deletes k. It answers "not found" for a key it does not      *)
(* have, which counts as deleted (client.go, DeleteKey): a key that it has  *)
(* lost is forgotten by the portal and may come back.                       *)
GwDelete(k) ==
  IF gw[k] = "lost"
    THEN excused' = excused \union {k} /\ UNCHANGED <<gateway, skewed>>
    ELSE /\ gw' = [gw EXCEPT ![k] = "revoked"]
         /\ gwDate' = [gwDate EXCEPT ![k] = 0]
         /\ excused' = excused \ {k}
         /\ skewed' = skewed \ {k}

(* A deletion the handler only logs when it fails: the key is stranded.     *)
GwDeleteOrLog(r, k) ==
  \/ (Works(r) \/ AnswerLost(r)) /\ GwDelete(k)
  \/ CallRefused(r) /\ excused' = excused \union {k} /\ UNCHANGED <<gateway, skewed>>

-----------------------------------------------------------------------------
(* A request arrives; the handlers that change a key queue for the lock.    *)
Start(r, u, kind) ==
  /\ h[r].at = "out"
  /\ IF kind \in Locked THEN Lock!Ask(r, u) ELSE UNCHANGED lockVars
  /\ h' = [h EXCEPT ![r].at = IF kind \in Locked THEN "lock" ELSE "read",
                    ![r].kind = kind, ![r].user = u]
  /\ UNCHANGED <<chk, store, gateway, history>>

(* Mutant: the lock does not exclude. *)
TakeLockTooEarly(r) == /\ h[r].at = "lock"
                       /\ phase' = [phase EXCEPT ![r] = "inside"]
                       /\ h' = [h EXCEPT ![r].at = "read"]
                       /\ UNCHANGED <<target, chk, store, gateway, history>>

(* lockKeys returns with the lock. *)
TakeLock(r) == /\ h[r].at = "lock"
               /\ Lock!Enter(r)
               /\ h' = [h EXCEPT ![r].at = "read"]
               /\ UNCHANGED <<chk, store, gateway, history>>

(* lockKeys fails: the client has gone while the request waited. *)
GiveUp(r) == /\ h[r].at = "lock"
             /\ ClientGone(r)
             /\ Finish(r)
             /\ UNCHANGED <<chk, store, gateway, history>>

(* What GetAPIKeyByUser found decides: without a key there is nothing to    *)
(* extend, delete or look at, and a key marked missing is neither extended  *)
(* nor looked at, only replaced or deleted.                                 *)
NothingToDo(kind, found) ==
  \/ kind # "generate" /\ found.key = NoKey
  \/ kind \in {"extend", "view"} /\ found.missing # "no"

(* Mutant: the date is recorded without the gateway having agreed to it. *)
FirstCallRecords == [generate |-> "create", extend |-> "record", delete |-> "revoke",
                     revoke |-> "revoke", view |-> "look"]

FirstCall == [generate |-> "create", extend |-> "prolong", delete |-> "revoke",
              revoke |-> "revoke", view |-> "look"]

(* GetAPIKeyByUser, and resolveProfile for the key's duration: any date, as *)
(* the clock and the profile's duration move between requests.              *)
ReadRow(r) ==
  LET found == row[h[r].user]  kind == h[r].kind IN
  /\ h[r].at = "read"
  /\ \/ /\ Works(r) /\ ~NothingToDo(kind, found)
        /\ \E d \in IF kind \in {"generate", "extend"} THEN Dates ELSE {0} :
             h' = [h EXCEPT ![r].at = FirstCall[kind],
                            ![r].old = found.key, ![r].until = d]
        /\ UNCHANGED lockVars
     \/ (DbFails(r) \/ NothingToDo(kind, found)) /\ Finish(r)
  /\ UNCHANGED <<chk, store, gateway, history>>

-----------------------------------------------------------------------------
(* GenerateKey. *)

(* Mutant: the day the duration is rounded up by is added to the date sent. *)
CreateADayMore(r) ==
  /\ h[r].at = "create"
  /\ \E k \in Keys :
       /\ gw[k] = "none"
       /\ gw' = [gw EXCEPT ![k] = "live"]
       /\ gwDate' = [gwDate EXCEPT ![k] = h[r].until + 1]
       /\ h' = [h EXCEPT ![r].at = "store", ![r].new = k]
  /\ UNCHANGED <<lockVars, history, chk, store>>

(* keys.CreateKey: the gateway issues a key that has never been issued. If  *)
(* its answer is lost nobody knows the key.                                 *)
Create(r) ==
  /\ h[r].at = "create"
  /\ \/ \E k \in Keys :
          /\ gw[k] = "none"
          /\ gw' = [gw EXCEPT ![k] = "live"]
          /\ gwDate' = [gwDate EXCEPT ![k] = h[r].until]
          /\ \/ /\ Works(r)
                /\ h' = [h EXCEPT ![r].at = "store", ![r].new = k]
                /\ UNCHANGED <<lockVars, history>>
             \/ /\ AnswerLost(r)
                /\ Finish(r)
                /\ excused' = excused \union {k}
                /\ UNCHANGED skewed
     \/ CallRefused(r) /\ Finish(r) /\ UNCHANGED <<gateway, history>>
  /\ UNCHANGED <<chk, store>>

(* Mutant: a failed store is only logged, and the handler goes on. *)
StoreOrGoOn(r) ==
  /\ h[r].at = "store"
  /\ \/ /\ Works(r)
        /\ row' = [row EXCEPT ![h[r].user] =
                     [key |-> h[r].new, exp |-> h[r].until, missing |-> "no"]]
     \/ DbFails(r) /\ UNCHANGED row
  /\ IF h[r].old = NoKey THEN Finish(r) ELSE Go(r, "revokeOld")
  /\ UNCHANGED <<chk, gateway, history>>

(* store.ReplaceAPIKey: one transaction, whatever row the user has by now.  *)
Store(r) ==
  /\ h[r].at = "store"
  /\ \/ /\ Works(r)
        /\ row' = [row EXCEPT ![h[r].user] =
                     [key |-> h[r].new, exp |-> h[r].until, missing |-> "no"]]
        /\ IF h[r].old = NoKey THEN Finish(r) ELSE Go(r, "revokeOld")
     \/ "database" \in Faults /\ Go(r, "rollback") /\ UNCHANGED row
     \/ /\ ClientGone(r)
        /\ h' = [h EXCEPT ![r].at = "rollback", ![r].gone = TRUE]
        /\ UNCHANGED <<lockVars, row>>
  /\ UNCHANGED <<chk, gateway, history>>

(* The key could not be recorded: "Revoke it now rather than leaking it".   *)
Rollback(r) == /\ h[r].at = "rollback"
               /\ GwDeleteOrLog(r, h[r].new)
               /\ Finish(r)
               /\ UNCHANGED <<chk, store>>

(* The old key is unreferenced now; a failure to revoke it is only logged.  *)
RevokeOld(r) == /\ h[r].at = "revokeOld"
                /\ GwDeleteOrLog(r, h[r].old)
                /\ Finish(r)
                /\ UNCHANGED <<chk, store>>

-----------------------------------------------------------------------------
(* ExtendKey. *)

(* keys.UpdateExpiry *)
Prolong(r) ==
  LET k == h[r].old IN
  /\ h[r].at = "prolong"
  /\ \/ /\ gw[k] = "live"
        /\ gwDate' = [gwDate EXCEPT ![k] = h[r].until]
        /\ \/ Works(r) /\ Go(r, "record") /\ UNCHANGED skewed
           \/ AnswerLost(r) /\ Finish(r) /\ skewed' = skewed \union {k}
     \/ /\ gw[k] # "live" /\ Works(r)
        /\ Go(r, "mark")
        /\ UNCHANGED <<gwDate, skewed>>
     \/ CallRefused(r) /\ Finish(r) /\ UNCHANGED <<gwDate, skewed>>
  /\ UNCHANGED <<chk, store, gw, excused>>

(* Mutant: the row is written back whole, also when it has gone meanwhile. *)
RecordUpsert(r) ==
  LET k == h[r].old  u == h[r].user IN
  /\ h[r].at = "record"
  /\ row' = [row EXCEPT ![u] = [key |-> k, exp |-> h[r].until, missing |-> "no"]]
  /\ skewed' = skewed \ {k}
  /\ Finish(r)
  /\ UNCHANGED <<chk, gateway, excused>>

(* store.UpdateAPIKeyExpiry, by row id; a failure is only logged.           *)
Record(r) ==
  LET k == h[r].old  u == h[r].user IN
  /\ h[r].at = "record"
  /\ \/ /\ Works(r)
        /\ row' = IF row[u].key = k THEN [row EXCEPT ![u].exp = h[r].until] ELSE row
        /\ skewed' = skewed \ {k}
     \/ DbFails(r) /\ skewed' = skewed \union {k} /\ UNCHANGED row
  /\ Finish(r)
  /\ UNCHANGED <<chk, gateway, excused>>

-----------------------------------------------------------------------------
(* Dashboard. *)

(* userUsage asks the gateway about the key.                                *)
Look(r) == /\ h[r].at = "look"
           /\ \/ Works(r) /\ gw[h[r].old] = "live" /\ Finish(r)
              \/ Works(r) /\ gw[h[r].old] # "live" /\ Go(r, "mark")
              \/ (CallRefused(r) \/ AnswerLost(r)) /\ Finish(r)
           /\ UNCHANGED <<chk, store, gateway, history>>

(* Mutant: the marker is set by user, on whatever key they have now. *)
MarkByUser(r) ==
  LET u == h[r].user IN
  /\ h[r].at = "mark"
  /\ row' = IF row[u].key # NoKey THEN [row EXCEPT ![u].missing = "fresh"] ELSE row
  /\ Finish(r)
  /\ UNCHANGED <<chk, gateway, history>>

(* store.MarkKeyMissing, by row id; the first sighting keeps its time.      *)
Mark(r) ==
  LET u == h[r].user IN
  /\ h[r].at = "mark"
  /\ \/ /\ Works(r)
        /\ row' = IF row[u].key = h[r].old /\ row[u].missing = "no"
                    THEN [row EXCEPT ![u].missing = "fresh"] ELSE row
     \/ DbFails(r) /\ UNCHANGED row
  /\ Finish(r)
  /\ UNCHANGED <<chk, gateway, history>>

-----------------------------------------------------------------------------
(* DeleteKey and RevokeUserKey: the gateway first, then the row. *)
Revoke(r) ==
  /\ h[r].at = "revoke"
  /\ \/ Works(r) /\ GwDelete(h[r].old) /\ Go(r, "drop")
     \/ AnswerLost(r) /\ GwDelete(h[r].old) /\ Finish(r)
     \/ CallRefused(r) /\ Finish(r) /\ UNCHANGED <<gateway, history>>
  /\ UNCHANGED <<chk, store>>

(* store.DeleteAPIKey, by row id. *)
Drop(r) ==
  LET u == h[r].user IN
  /\ h[r].at = "drop"
  /\ \/ Works(r) /\ row' = IF row[u].key = h[r].old THEN [row EXCEPT ![u] = NoRow] ELSE row
     \/ DbFails(r) /\ UNCHANGED row
  /\ Finish(r)
  /\ UNCHANGED <<chk, gateway, history>>

-----------------------------------------------------------------------------
(* The limit sync's check of keys marked missing (checkMissing, checkOne).  *)

(* ListMissingKeys at the start of a run.                                   *)
CheckStart(u) == /\ chk.at = "out"
                 /\ row[u].missing # "no"
                 /\ chk' = [at |-> "ask", user |-> u, key |-> row[u].key]
                 /\ UNCHANGED <<lockVars, h, store, gateway, history>>

(* CheckKey. Any answer but found and not found leaves the marker alone.    *)
CheckAsk == /\ chk.at = "ask"
            /\ \/ gw[chk.key] = "live" /\ chk' = [chk EXCEPT !.at = "clear"]
               \/ gw[chk.key] # "live" /\ chk' = [chk EXCEPT !.at = "remove"]
               \/ Faults \intersect {"gateway", "answer"} # {} /\ chk' = NoCheck
            /\ UNCHANGED <<lockVars, h, store, gateway, history>>

(* ClearKeyMissing *)
CheckClear ==
  LET u == chk.user IN
  /\ chk.at = "clear"
  /\ \/ row' = IF row[u].key = chk.key THEN [row EXCEPT ![u].missing = "no"] ELSE row
     \/ "database" \in Faults /\ UNCHANGED row
  /\ chk' = NoCheck
  /\ UNCHANGED <<lockVars, h, gateway, history>>

(* RemoveMissingKey: the statement tests the marker and its age again.      *)
CheckRemove ==
  LET u == chk.user IN
  /\ chk.at = "remove"
  /\ \/ /\ row[u].key = chk.key /\ row[u].missing = "old"
        /\ row' = [row EXCEPT ![u] = NoRow]
        /\ excused' = excused \union {k \in {chk.key} : gw[k] # "revoked"}
     \/ /\ \/ ~(row[u].key = chk.key /\ row[u].missing = "old")
           \/ "database" \in Faults
        /\ UNCHANGED <<row, excused>>
  /\ chk' = NoCheck
  /\ UNCHANGED <<lockVars, h, gateway, skewed>>

-----------------------------------------------------------------------------
(* Surroundings. *)

(* The grace period of a marker passes.                                     *)
GracePasses(u) == /\ row[u].missing = "fresh"
                  /\ row' = [row EXCEPT ![u].missing = "old"]
                  /\ UNCHANGED <<lockVars, h, chk, gateway, history>>

(* Keys that only a request under way knows of.                             *)
InHand(r) == (IF h[r].at \in {"store", "rollback"} THEN {h[r].new} ELSE {})
               \union (IF h[r].at = "revokeOld" THEN {h[r].old} ELSE {})
HalfExtended(r) == IF h[r].at = "record" THEN {h[r].old} ELSE {}

(* The gateway loses a key, or is restored and has it again. Losing a key   *)
(* the portal no longer knows of changes nothing for it.                    *)
Lose(k) == /\ "loss" \in Faults
           /\ gw[k] = "live"
           /\ \/ \E u \in Users : row[u].key = k
              \/ \E r \in Reqs : k \in {h[r].old, h[r].new}
           /\ gw' = [gw EXCEPT ![k] = "lost"]
           /\ UNCHANGED <<lockVars, h, chk, store, gwDate, history>>

Regain(k) == /\ gw[k] = "lost"
             /\ gw' = [gw EXCEPT ![k] = "live"]
             /\ UNCHANGED <<lockVars, h, chk, store, gwDate, history>>

(* The process is killed and started again: requests, locks and the sync's  *)
(* run are lost, the table and the gateway stay.                            *)
Kill == /\ "kill" \in Faults
        /\ excused' = excused \union UNION {InHand(r) : r \in Reqs}
        /\ skewed' = skewed \union UNION {HalfExtended(r) : r \in Reqs}
        /\ phase' = [r \in Reqs |-> "out"]
        /\ target' = [r \in Reqs |-> NoUser]
        /\ h' = [r \in Reqs |-> Idle]
        /\ chk' = NoCheck
        /\ UNCHANGED <<store, gateway>>

Serve(r) == \/ TakeLock(r) \/ ReadRow(r)
            \/ Create(r) \/ Store(r) \/ Rollback(r) \/ RevokeOld(r)
            \/ Prolong(r) \/ Record(r) \/ Look(r) \/ Mark(r)
            \/ Revoke(r) \/ Drop(r)

Check == (\E u \in Users : CheckStart(u)) \/ CheckAsk \/ CheckClear \/ CheckRemove

Next == \/ \E r \in Reqs : \/ \E u \in Users, kind \in Locked \union Lockless : Start(r, u, kind)
                           \/ Serve(r) \/ GiveUp(r)
        \/ Check
        \/ \E u \in Users : GracePasses(u)
        \/ \E k \in Keys : Lose(k) \/ Regain(k)
        \/ Kill

Spec == Init /\ [][Next]_vars

-----------------------------------------------------------------------------
(* Properties. *)

Referenced == {row[u].key : u \in Users}

(* A key that works but that no row names can be revoked by nobody. The     *)
(* portal loses track of a key only where the code says so: a revocation    *)
(* it logged as failed, an answer that never came, a kill between two       *)
(* steps, or a key the gateway had itself lost. In particular no            *)
(* interleaving of requests does ("leave one new key live in the gateway    *)
(* with nothing pointing at it").                                           *)
NoUnexplainedKey == \A k \in Keys :
  gw[k] = "live" /\ k \notin Referenced
    => k \in excused \/ \E r \in Reqs : k \in InHand(r)

(* "The reverse order leaves the user with no working key whenever creation *)
(* fails": no step of GenerateKey, neither one that stores nor one that     *)
(* deletes a key on its way out, takes a user from a key the portal has not *)
(* revoked to none, whatever failed before and whatever other requests made *)
(* of the row meanwhile.                                                    *)
HasKey(u) == row[u].key # NoKey /\ gw[row[u].key] # "revoked"

Generator == {"create", "store", "rollback", "revokeOld"}
Generating(r) == h[r].at \in Generator
GenerateKeepsAKey ==
  [][\A r \in Reqs, u \in Users :
       Generating(r) /\ h'[r] # h[r] /\ HasKey(u) => HasKey(u)']_vars

(* The expiry date the dashboard and the reminder show is never later than  *)
(* the gateway's own for a key it has, except while an extension is under   *)
(* way or after one that was cut in half.                                   *)
ShownDateIsReal == \A u \in Users :
  HasKey(u) /\ row[u].exp > gwDate[row[u].key]
    => \/ row[u].key \in skewed
       \/ \E r \in Reqs : row[u].key \in HalfExtended(r)

(* Keys that the gateway has issued and that are not on their way into the  *)
(* table: the ones it names, and the ones it is never to name again.        *)
Recording == {h[r].new : r \in {q \in Reqs : h[q].at = "store"}}
Used == {k \in Keys : gw[k] # "none"} \ Recording

Table == INSTANCE KeyTable WITH keyOf <- [u \in Users |-> row[u].key], used <- Used

(* The table keeps the contract of KeyTable: a key that has left it never   *)
(* returns, however late a request finishes that read it before, and one    *)
(* that could not be recorded never enters it.                              *)
ImplementsKeyTable == Table!Spec

(* A request or a check that read one key does not write to the row of the  *)
(* key that has replaced it meanwhile: apart from a replacement and the     *)
(* passage of time, a row changes only at the hand of someone who read it.  *)
NoStaleWrite ==
  [][\A u \in Users : row[u].key # NoKey /\ row'[u] # row[u] =>
       \/ row'[u] = [row[u] EXCEPT !.missing = "old"]
       \/ chk.key = row[u].key
       \/ \E r \in Reqs : /\ h[r].user = u /\ h'[r].at # h[r].at
                          /\ \/ h[r].at = "store"
                             \/ h[r].at \in {"record", "mark", "drop"} /\ h[r].old = row[u].key
    ]_vars

(* The lock of a user is held by a request that has calls left to make, and *)
(* queued for by one that waits in lockKeys: no path through a handler, the *)
(* early returns, failures and vanished clients included, returns with the  *)
(* lock, or nobody who waits for it would ever be served.                   *)
HeldByWork == \A r \in Reqs :
  /\ phase[r] = "inside" => /\ h[r].at \notin {"out", "lock"} /\ h[r].kind \in Locked
                            /\ target[r] = h[r].user
  /\ phase[r] = "queued" => h[r].at = "lock"

(* What GenerateKey promises ("Revoke it now rather than leaking it"):      *)
(* while no request is under way, every key that works is one that a row    *)
(* names. Only the run of the clients that disconnect checks it.            *)
NoLeakedKey ==
  (\A r \in Reqs : h[r].at = "out") => \A k \in Keys : gw[k] = "live" => k \in Referenced

-----------------------------------------------------------------------------
(* Why the safety properties hold. *)

(* What a request at some place carries, and where the lock has it.         *)
Carries ==
  \A r \in Reqs :
    LET q == h[r] IN
    /\ q.at = "out" <=> q.user = NoUser
    /\ q.at \in {"out", "lock", "read"} => q.old = NoKey /\ q.new = NoKey
    /\ q.at \in {"revokeOld", "prolong", "record", "look", "mark", "revoke", "drop"}
         => q.old # NoKey
    /\ q.at \in {"store", "rollback"} => q.new # NoKey
    /\ q.at \in Generator => q.kind = "generate"
    /\ q.at \in {"prolong", "record"} => q.kind = "extend"
    /\ q.at = "lock" => q.kind \in Locked

InsideLock ==
  \A r \in Reqs :
    /\ h[r].at \notin {"out", "lock"} /\ h[r].kind \in Locked
         => phase[r] = "inside" /\ target[r] = h[r].user
    /\ h[r].at = "lock" => phase[r] = "queued" /\ target[r] = h[r].user

(* The contract of the lock. *)
Exclusion == \A r, q \in Reqs :
  phase[r] = "inside" /\ phase[q] = "inside" /\ target[r] = target[q] => r = q

(* Only keys that were issued are named, and marked is a key.               *)
Issued ==
  /\ \A u \in Users : /\ row[u].key # NoKey => gw[row[u].key] # "none"
                      /\ row[u].missing # "no" => row[u].key # NoKey
  /\ \A r \in Reqs : /\ h[r].old # NoKey => gw[h[r].old] # "none"
                     /\ h[r].new # NoKey => gw[h[r].new] # "none"
  /\ chk.at # "out" => chk.user \in Users /\ chk.key # NoKey /\ gw[chk.key] # "none"

(* A key has one owner, whose rows and requests alone name it.              *)
OneOwner ==
  /\ \A u, v \in Users : row[u].key = row[v].key /\ row[u].key # NoKey => u = v
  /\ \A r \in Reqs, u \in Users :
       h[r].old = row[u].key /\ h[r].old # NoKey => h[r].user = u
  /\ \A r, q \in Reqs :
       h[r].old = h[q].old /\ h[r].old # NoKey => h[r].user = h[q].user

(* A new key is the request's alone until it is stored, and untouched.      *)
Unshared ==
  \A r \in Reqs : h[r].at \in {"store", "rollback"} =>
    LET k == h[r].new IN
    /\ gw[k] \in {"live", "lost"} /\ gwDate[k] = h[r].until
    /\ k \notin Referenced
    /\ \A q \in Reqs : /\ h[q].old # k
                       /\ h[q].at \in {"store", "rollback"} /\ h[q].new = k => q = r

(* The lock keeps the row the one that was read, or it has been removed by  *)
(* those who do not take the lock.                                          *)
StillTheirs ==
  \A r \in Reqs : h[r].at \in {"create", "store"} =>
    row[h[r].user].key \in {h[r].old, NoKey}

(* A key that has been replaced is nobody's when it is about to be revoked. *)
Superseded == \A r \in Reqs : h[r].at = "revokeOld" => h[r].old \notin Referenced

(* The gateway was asked first: what is dropped from the table is revoked,  *)
(* or lost and known to be.                                                 *)
DroppedIsRevoked ==
  \A r \in Reqs : h[r].at = "drop" => gw[h[r].old] = "revoked" \/ h[r].old \in excused

(* The date about to be recorded is the one the gateway has.                *)
AboutToRecord ==
  \A r \in Reqs : h[r].at = "record" =>
    gw[h[r].old] = "revoked" \/ gwDate[h[r].old] = h[r].until

(* NoUnexplainedKey, also of keys that may come back.                       *)
NoKeyAstray == \A k \in Keys :
  gw[k] \in {"live", "lost"} /\ k \notin Referenced
    => k \in excused \/ \E r \in Reqs : k \in InHand(r)

(* The inductive invariant: the requests, the table and the gateway agree on *)
(* whose each key is and what remains to be done with it.                    *)
IInv == /\ TypeOK /\ Carries /\ InsideLock /\ Exclusion /\ Issued /\ OneOwner
        /\ Unshared /\ StillTheirs /\ Superseded /\ DroppedIsRevoked /\ AboutToRecord
        /\ NoKeyAstray /\ ShownDateIsReal
=============================================================================
