# Keyosk: a TLA+ development

Keyosk is a self-service portal for API keys of a LiteLLM gateway. People sign
in with OIDC, get one key each, and prolong, replace or delete it; admins keep
profiles (models, TPM/RPM limits, quota windows) and assign people to them, and
a background sync carries the limits to the keys. This directory holds
specifications of the parts of the program whose correctness depends on the
order of events, the TLC runs that check them and TLAPS proofs about them.

The one fact behind most of what can go wrong is that the portal's SQLite
database and the gateway share no transaction. Every operation is a sequence of
statements and HTTP calls, other requests and the sync run in between, and any
of them may fail, be cut off by a client that disconnects, or be cut short by a
kill.

## Inventory

| Part | State | Operations | What makes it correct |
|---|---|---|---|
| Keyed lock (`handlers/keylock.go`) | map of entries: a channel with one token, a reference count | `Lock`, `unlock`, `release` | one holder per user, although entries are freed and allocated anew; no entry and no token is left behind; every waiter is served |
| Key handlers (`handlers/ui.go`) | local variables of each request | `GenerateKey`, `ExtendKey`, `DeleteKey`, `Dashboard` | no live key without a row; never no key because creation failed; dates shown are dates enforced; late steps do not touch a newer row |
| Admin handlers (`handlers/admin.go`) | - | profiles, assignments, `RevokeUserKey`, admin rights | no user without a profile, at least one admin (which two removals at once can break), every change reaches the keys |
| Store (`database/db.go`, `limitsync.go`, `admins.go`) | tables `users`, `profiles`, `profile_quotas`, `api_keys`, `sessions`, `expiry_notices`, `audit_log` | one statement or transaction each | a revision that goes up with every change of limits; one default profile; statements by row id that tolerate a row that has gone |
| Limit sync (`limitsync/limitsync.go`) | a channel of one kick, running flag, failures of the run | `Kick`, `Start`, `Run`, `syncOne`, `checkMissing` | what is not pending is in line; no change is forgotten; a run ends |
| Profile expiry (`profileexpiry/expiry.go`) | - | every 15 minutes: switch the profile or revoke the key of those whose deadline has passed | a passed deadline takes effect once; one renewed before the runner's list is left alone (one renewed after it is overwritten, see Observations) |
| Reminder (`notify/reminder.go`) | `expiry_notices` | every 6 hours: mail those whose key expires within 14, 3, 1 days | one mail per key and threshold, none suppressed |
| LiteLLM adapter (`litellm/`) | none | key calls, user calls, usage | widest window on the owner, the rest on the key; "not found" only when the gateway says so |
| Quota windows (`admin.go` form, `litellm/quota.go`, `windows.go`, the dashboard) | - | parse the form, split the windows between key and owner, read them back | every window enforced in one place, and the dashboard's percentage true |
| OIDC, sessions, CSRF (`oidc/`, `session/`) | `sessions`, cookies | login, callback, back-channel logout | admin flag follows the group claim; the state cookie is found; a logout ends every session |
| Flash and caches (`flash.go`, `modelcache.go`, `usagecache.go`) | small maps with a time to live | put and take, load | a key is shown once and only to its owner |
| Server (`cmd/server/`) | goroutines of the above | start, graceful stop, `-resync-limits`, `-make-admin` | the sync ends before the database is closed |

How they interact: handlers call the store and the adapter within the request's
context, which ends when the client disconnects. Handlers, the expiry runner and
logins call `Kick`. The sync, the runner and the reminder are goroutines of
their own that share only the database and the gateway with the handlers. The
keyed lock orders the key handlers of one user among themselves and nothing
else: admin revocations, the sync and the expiry runner do not take it.

`PROJECT.json` lists every component with its status, and every hazard with its
line and the properties that watch it.

## Modules

| Module | Models | Runs |
|---|---|---|
| `UserMutex` | the contract of the keyed lock: at most one request inside per user | (abstract specification) |
| `KeyedLock` | `keylock.go`, one action per critical section and channel operation; refines `UserMutex` | `keyed_lock` |
| `KeyedLock_proofs` | theorems about `KeyedLock` | TLAPS |
| `KeyTable` | the contract of `api_keys`: a key is given to one user once, and is gone for good when it leaves | (abstract specification) |
| `KeyTable_proofs` | what the contract is worth | TLAPS |
| `KeyLifecycle` | key handlers, admin revocation, missing-key check, key table, gateway keys; built on `UserMutex`, refines `KeyTable` | `key_lifecycle`, `key_lifecycle_disconnect` |
| `KeyLifecycle_proofs` | theorems about `KeyLifecycle` | TLAPS |
| `LimitSync` | profile transactions, sync records, the sync, gateway limits, `GenerateKey` as a second writer | `limit_sync`, `limit_sync_live`, `limit_sync_race` |
| `LimitSync_proofs` | theorems about `LimitSync` | TLAPS |
| `ProfileExpiry` | the expiry runner's steps, assignments with a deadline, deleted profiles, regenerated keys, restarts; refines `KeyTable` | `profile_expiry`, `profile_expiry_gone` |
| `ProfileExpiry_proofs` | theorems about `ProfileExpiry` | TLAPS |
| `Reminder` | the reminder's runs, mail, notices, keys that change meanwhile, stops and kills | `reminder` |
| `SignIn` | logins, sessions, back-channel logout, admin rights and stale pages of the panel | `sign_in`, `sign_in_alone` |
| `Quota` | the quota form, the split of windows, pushes and generations, the gateway's counters, the dashboard | `quota` |
| `Reminder_proofs`, `SignIn_proofs`, `Quota_proofs` | theorems about these three | TLAPS |
| `MCKeyLifecycle`, `MCLimitSync`, `MCSignIn` | symmetry sets for the safety runs, and the behaviours of `sign_in_alone` | |
| `MCReminder`, `MCQuota` | the thresholds and the forms of the runs | |

Definitions named in a comment "Mutant" are deliberate mistakes. None is part of
a specification; each is a version of the definition after it that some property
must reject.

### KeyedLock

A lock entry is an object on the heap. `entries` maps users to objects, a
request keeps the pointer it got (`ent`), and an object nobody points to is
garbage that the next allocation may return: this is what makes a wrong
reference count dangerous, and the model keeps it. `Arrive` is `Lock` up to
`l.mu.Unlock()`, `Acquire` and `GiveUp` are the two cases of the `select`
(either may be taken when both are ready), `Unlock` takes the token out and
`Release` is `release`.

Bounds: three requests, two users, three addresses. With three requests an
entry can be held, awaited and freed at once and a second user's entry can reuse
its address; addresses need not outnumber requests. The proofs lift all bounds.
Fairness: strong for `Acquire`, because Go queues blocked senders of a channel
first come first served; weak for the rest, because the handlers end.

### KeyLifecycle

A request is a record `h[r]`: the call or statement it executes next (`at`) and
its local variables. Every database statement or transaction and every gateway
call is one action with its outcomes as disjuncts: it works, it fails, its answer
is lost after it took effect, or the context has ended. A disconnection is let
in at the next call, which is where the code notices it; after that every call
of the request fails (`gone`). `Kill` loses all requests, the locks and the
check under way.

`gw` and `gwDate` are the gateway. The gateway may lose a key (`Lose`, a
restored backup or a deletion outside the portal) and have it again (`Regain`).
Keys are never issued twice, rows are identified by their key, dates are small
numbers, a marker's age is fresh or old.

`excused` and `skewed` are history variables. They record where the code itself
accepts that it loses track of a key (a failed revocation it only logs, a lost
answer, a kill, a delete of a key the gateway had lost) or that two dates differ
(an extension cut in half). The properties say that nothing else does it, and in
particular no interleaving; the cases themselves they do not catch. A key is
`excused` in five: a kill between two steps, an answer of `CreateKey` that was
lost, a delete that failed and was only logged, a delete of a key the gateway
had lost and then has again, and a row removed as missing although the key has
returned since `CheckKey`.

To `KeyTable` a user's key is the one in their row, and a key is `used` from the
moment it is issued, except while a request is about to store it (`Recording`).
`ReplaceAPIKey` is `Name`, the two deletions are `Forget`, and a new key that is
thrown away, by the rollback or a kill, is `Discard`. `KeyTable` is the contract of
`ProfileExpiry` as well, where a regeneration is one action and every issued key
is used. `LimitSync` reuses its two keys and is no implementation of it.

Bounds: two requests of one user, two keys, two dates in the safety run, with
every fault, which includes every pair of handlers interleaved with the check,
one replacement and a second key; no key beyond the two is needed for a late
step to meet a newer row. The proofs lift all bounds.
No fairness: that requests end is not checked as liveness but rests on four
facts. The lock is held only by a request with calls left to make (`HeldByWork`),
every step of a request lowers the number of steps it has left (`NoHandlerLoops`),
the calls themselves end (the gateway's have timeouts, SQLite has a busy timeout),
and the lock serves its waiters (`WaiterIsServed` in `keyed_lock`).

### LimitSync

A profile has two parts: `s`, which its row holds with the revision, and `q`, its
windows, in a table of their own. A push reads the row, then the windows, writes
the owner's allowance, then the key, then the alias, then the record of what was
pushed; each is an action. `GenerateKey` does nearly the same in its own order
and at the same time. A key is pending exactly as in the query
`pendingLimitSyncs`.

`edits` counts what the surroundings did and is the bound of the model;
`Changes` and `Faults` choose what may happen, `Ticker` whether the interval
helps the kicks. `unrecorded` is a history variable: what a push has changed in
the gateway and not put on record yet.

Abstractions: the email is treated as the name is; a batch is any non-empty set
of pending keys, which covers the limit of a batch and any number of workers;
the check of a missing key is one action here and several in `KeyLifecycle`;
the rollback after a failed store is part of that action.

Bounds: the safety run has one user, two profiles, two values of each kind, two
keys and three changes, all faults. A second user shares no record with the first
but profiles, which change at any time anyway. Three changes are an edit, a
regeneration and a second edit, or a move there and back and one more. The
liveness run has two users, since a kick for one can fall into a run that works
for the other, and two changes. It may deadlock (`CHECK_DEADLOCK FALSE`): without
an interval the sync waits once the changes are used up.
Fairness: the sync's goroutine keeps running and its calls time out. Nothing is
assumed of the gateway: it may refuse every call for ever.

### ProfileExpiry

`LimitSync` has the expiry of one user as one action; this module takes it
apart and leaves out limits. The runner reads its list once (`ListPassed`) and
then works through it statement by statement, with `run` holding its local
variables, the list's copies of the users (`seen`) among them. Nothing makes it
look at a user again, so between the list and `ApplyExpiry` admins reassign,
profiles go and keys are replaced. A step that fails goes on with the next user
(`NextUser`). `Reverted` and `Referable` are the two halves of
`ApplyProfileExpiry`: what it writes, and the foreign key that may refuse it.

`Unlucky` users are those whose statements and calls may fail, for ever if need
be; progress is stated for the others. `done` counts how often the present
assignment was taken back, `unpushed` holds who was switched since a limit sync
run began; both are history. The order of the list is left open, and
`GenerateKey` is one action, since `KeyLifecycle` has its steps.

Bounds: two users, one of them unlucky, two profiles (the default and one that
can go), two keys and two edits or restarts. Two edits put a deadline on both
users, or delete a destination after it was chosen, or restart the server in
the middle of a reversion; the second key is the one generated while the first
is being revoked. The proofs lift all bounds for safety.
Fairness: weak for the runner's steps (its goroutine runs on, its calls end, the
ticker ticks) and for the sync's loop. Admins, users, restarts and the passing
of deadlines have none.

### Reminder

`run` is the reminder: where it is, the threshold it works on, the copies of keys
its query returned (`todo`) and the one it has in hand. `Find` is the query,
`Send`, `Discard`, `SendFails` and `GiveUp` are what `Notify` may do with one
mail, `Record` and `RecordFails` are `MarkExpiryNoticeSent`, which names the key by
its id only. A mail that `Notify` has stopped waiting for is in `late`: its
goroutine may still deliver it. `Stop` ends the reminder's context, which every
call after it sees; `Exit` ends the process wherever the reminder is, because the
server does not wait for it; `Restart` may come with another `SMTP_HOST`.

Each row has the number of the edit that gave it its date. `mailed`, `loose` and
`untold` are histories of that date: deliveries, attempts that were not
recorded, and notices recorded although nobody was told. Days pass for all keys
at once; the position of a user in a list matters to no property.

Bounds: two users, one of whom the relay refuses for ever, two thresholds, keys
of one and of three days, three edits and one failure, stop or kill. Three edits
are a key, its extension after the list was read and one more; one fault is
enough for a duplicate, since every way to one begins with a single failure. The
proofs lift all bounds for safety.
Fairness: weak for the reminder's own steps (its ticker ticks, `Notify` waits 30
seconds at most). The relay's refusals of a lucky user are counted as faults;
those of an unlucky one are not. Keys, days, stops and kills have no fairness.

### SignIn

A tab is a place where requests come from one at a time, and `tab[t]` is the
request it waits for: the statement it executes next and what the handler knows.
`LoginHandler` to `CreateSession` are `LoginHandler`, `HandleCallback` and
`Callback`, statement by statement; `GetSession`, `LoadUser`, `AccountFromForm`,
`Actor` and `Write` are the middleware and the two forms of the Admins tab. All tabs are of one
browser and share its cookies, or each has a browser of its own. A page may be of
any age, so a form may name any account. `BackchannelLogout` comes whenever the
provider likes, `Expire` ends a session, `Restart` may set or unset
`ADMIN_GROUP`.

ID tokens are numbered as they are issued, a session has the number of its
token, and an account its subject. `crossed` (logins of one person that
overlapped), `newest` (the newest token that decided on a flag) and `ended`
(logins over when their person was logged out) are histories; so are `was` and
`blind` in a request.

Bounds: two people, two tabs, two ID tokens, one failure or restart. Two tabs are
what a crossing of two logins, or of two removals, takes; accounts start in every
combination, so no login is spent on creating them. The proofs lift all bounds.
`sign_in_alone` has no failure at all and, by `SteadySpec`, only the behaviours in
which no session ends during a removal, so that its counterexample is the one of
two admins and nothing else.
No fairness: every property is about safety, and clients owe the portal nothing.

### Quota

The module follows an allowance all the way. `parseQuotaWindows`,
`checkWindowsBind`, `effectiveWindows`, `Widest` and `Rest` are the functions of
these names or their halves. A list of windows is a function from the form's row
numbers, which keeps the order `WidestWindow` depends on for ties and needs no
recursion. A push or a generation is `Begin`, `UpsertUser` and then
`UpdateKeyLimits` or `CreateKey`, and may fail after each call. `Shaped` is the
choice between the flat pair (`max`, `period`) and `budget_limits` (`limits`).
`Spend` and `Boundary` are the gateway: it refuses when any window is used up,
counts in full what it lets through, and resets at the end of a period.
`keyWindows` to `Headline` are what the dashboard computes; `reported` are the
windows for which the gateway sends a figure.

`steady` and `spent` follow the person's spending since a boundary of the
allowance for as long as nobody changed it. `Save` is the store's transaction; the
audit rows of a save are left out (see Observations).

Abstractions: amounts are small integers; the order of the bars on the page is
left out; one task at a time changes the gateway, since `LimitSync` is about how
they interleave; counters grow with `UpdateKeyLimits` only for windows the key
had before.

Bounds: five forms that are saved (three windows, two with a blank row between
them in the other order, one shorter, one longer, none) and four that are refused
(malformed, does not bind, doubled period, unknown period); two saves, requests of
at most 2 and counters up to 4, one failure. Every budget in the forms can be used
up exactly and be overshot, and each save can change the shape a key has. The
proofs lift all bounds, the forms among them.
No fairness: pushes are retried by the limit sync, which is `LimitSync`'s part.

## What the runs show

* `keyed_lock`: exclusion, exact entries, service of every waiter, refinement of
  `UserMutex`.
* `key_lifecycle`: no interleaving strands a key (`NoUnexplainedKey`), a
  replacement never leaves a user without a key, neither by what it stores nor by
  what it deletes on its way out (`GenerateKeepsAKey`), shown dates are real
  (`ShownDateIsReal`), the table keeps the contract of `KeyTable`, so that a key
  that has left it never comes back (`ImplementsKeyTable`), nobody writes to a row
  they have not read (`NoStaleWrite`), and no path through a handler returns with
  the lock (`HeldByWork`).
* `limit_sync`: a key that is not pending carries its profile's limits and its
  owner's name unless a push of it was cut short (`KeyInLine`); everyone has a
  profile; and the invariant the proofs use holds (`IInv`).
* `limit_sync_live`: runs end though pushes fail for ever, no change is
  forgotten although kicks collapse, and, where keys are not regenerated, owners'
  allowances are in line as well (`OwnerInLine`).
* `profile_expiry`: whatever a revocation at a deadline meets, no key works
  without a row (`LiveKeyHasRow`) and the deadline stays until the key has gone
  (`RevokedBeforeCleared`); an assignment is taken back once (`RevertedOnce`),
  never onto a profile that has gone (`OnAProfile`); one user's failures keep
  nobody else's deadline from taking effect (`Reverts`), and a switch makes the
  sync run without its interval (`SwitchIsPushed`).
* `reminder`: nobody is mailed twice about one date unless an attempt was left
  unrecorded (`AtMostOnce`); a notice on record, which keeps later runs from
  mailing, is of a mail about the present date unless the mail was dropped or the
  key was extended meanwhile (`NoticeIsHonest`); one user's refused address keeps
  nobody else from being warned (`Warned`).
* `sign_in`: where the panel manages admins, the last one goes only by a removal
  that crosses another or cannot tell who makes it (`LastRemovalIsCrossed`); the flag is what the newest token said
  (`FlagFollowsClaim`); sessions from before a logout stay dead (`CutOff`); the
  callback finds its state cookie through proxies and other logins
  (`CallbackFindsState`); nobody is refused as a duplicate for no reason
  (`RefusedOnlyForRival`). `IInv` contains that whoever is about to change rights
  has been an admin since the request arrived (`OnlyAdminsWrite`).
* `quota`: after a push or a generation every window is enforced in exactly one
  place (`EachOnce`); replacing or deleting a key gains nothing
  (`RotationGainsNothing`); the dashboard says 100% exactly when the gateway
  refuses (`HeadlineIsHonest`). `IInv` contains that a form that is accepted has
  only windows that can take effect (`AcceptedCanBind`).

Several properties except a case that the code knows or lives with, and would not
catch it: `NoUnexplainedKey` the keys in `excused`, `ShownDateIsReal` those in
`skewed`, `KeyInLine` and `OwnerInLine` a key with a push not on record
(`unrecorded`), `AtMostOnce` attempts left unrecorded (`loose`), `NoticeIsHonest`
notices of a dropped mail or an extension meanwhile (`untold`), `FlagFollowsClaim`
overlapping logins (`crossed`), `LastRemovalIsCrossed` crossing removals. What they
say is that nothing else leads there. The hazards whose case is excepted have no
property in `PROJECT.json`, or a note.

Four runs show where the program does not do what it says (see "findings" in
`PROJECT.json`):

* `key_lifecycle_disconnect`: the rollback of `GenerateKey` uses the request's
  context. When the store fails because the client has gone, the rollback fails
  for the same reason and the key stays live with no row.
* `limit_sync_race`: with no fault at all, a push of a user's old key can write
  an older allowance to the owner after `GenerateKey` wrote the newer one. Its
  record goes to the row that has been replaced; the new row is not pending.
* `profile_expiry_gone`: a form that outlives a profile may still name it as
  destination. The foreign key then refuses every reversion: the temporary
  profile stays for good, and if revocation was chosen, each run deletes the key
  the user has generated since the last one.
* `sign_in_alone`: with no fault, two admins who remove each other at the same time
  both pass the middleware and the check that they do not remove themselves
  before either removal is written. Nobody is left in charge, which
  `docs/content/administrators.md` and the comment of `RevokeAdmin` rule out.

## Observations

What the models had to admit to be faithful, and a maintainer may want to know.
None of it contradicts a sentence of the documentation as plainly as the findings
do, or it takes a fault to happen; the properties name these cases.

* A push that fails between the owner and the key, followed by an admin who takes
  the change back, leaves the owner with the other profile's allowance: the
  synced columns match again and nothing is pending. `KeyInLine` therefore speaks
  of the key, and both it and `OwnerInLine` except a key while a push of it is not
  on record (`unrecorded`).
* Between `UpsertUser` and `/key/update` (or for as long as the second call
  fails) the windows of the key's new profile are enforced nowhere
  (`provider.go:34-49`).
* `Notify` reports a timeout for a mail its goroutine may still deliver; the next
  run then mails again. `Discard` drops mails without error and the notices are
  recorded, so setting `SMTP_HOST` later does not make up for them.
* Nobody is left in charge either when the only admin's form names themselves, from
  a page rendered for somebody else, and their session ends between the middleware
  and the handler's own look at it: without a session the handler does not know
  who acts, and removes all the same (`admin.go:554`).
* An audit row is an insert of its own, after the commit of the change it is about
  and another look at the session (`admin.go:109-120`, `388`, `400-402`), and a
  failure of it is only logged. So two saves of a profile may be audited in the
  reverse order of their commits, and replaying the log need not give the profile's
  present windows. `DeleteProfile`'s row describes the profile as it was loaded
  before the delete (`admin.go:425-447`).
* A back-channel logout is answered 200 even if the statement failed, and a login
  in flight at that moment creates its session afterwards (`ui.go:314-330`).
* Two overlapping logins of one person may leave the older token's claim in the
  flag (`oidc.go:250`); any error of the lookup is taken for a new account
  (`db.go:482`), whose insertion the unique subject then refuses.
* `parseQuotaWindows` refuses what is no amount but drops amounts of zero or less
  without a word (`admin.go:684-707`).
* `Windows` reads the key and its owner one after the other (`windows.go:105-130`),
  so a boundary in between shows figures of two periods.
* The caches of usage and of models hold their mutex across the call they cache
  (`usagecache.go`, `modelcache.go`): a slow gateway makes readers queue.
* An admin who renews an assignment between the expiry runner's list and its
  update has the renewal overwritten (`expiry.go:49`).

## Proofs

`KeyedLock_proofs` proves, for all sets of requests, users and addresses (with a
finite set of requests, `LockAssumption`), that `IInv` is inductive and that it
implies `MutualExclusion`, `EntryWhileInUse` and `TokenHasHolder`, and that every
step of `KeyedLock` is a step of `UserMutex` or a stutter. Exclusion alone is not
inductive: it holds because a waiter and the holder for one user point to the
same object, which holds because `release` frees an entry only with its last
reference, which holds because `refs` is exactly the number of requests that
point to it (`CountExact`). The lemmas `CountUp` and `CountDown` are the two
facts about cardinality this takes.

`KeyTable_proofs` proves of the contract that nobody has somebody else's key
(`OneOwnerEach`) and that a used key that is nobody's stays so (`NeverAgain`). `KeyLifecycle_proofs`
and `ProfileExpiry_proofs` instantiate this module for their own tables, and from
`TableKept` each draws both facts for every behaviour of its specification
(`OneOwnerAndGoneForGood`).

`KeyLifecycle_proofs` proves the invariants, the action properties and the
refinement of `key_lifecycle` for all users, requests, keys and dates and every selection of
faults. `NoUnexplainedKey` is not inductive: a key the gateway has lost may come
back after the table has forgotten it, so `NoKeyAstray` says the same of lost
keys. A replacement accounts for the key it replaces only if that is the key the
handler read: `StillTheirs`, which holds because the handlers that write a new
key exclude each other (`Exclusion`, `InsideLock`) and those that do not take the
lock only remove rows. `Unshared` says that a new key is nobody else's until it
is stored, and `OneOwner` that a key is named by one user's row and requests,
which is why the holder of that user's lock is the only one to prolong it
(`AboutToRecord`), why the key a replacement revokes is in no row any more
(`Superseded`, on which `GenerateKeepsAKey` rests) and why a dropped row's key is revoked or known to be lost
(`DroppedIsRevoked`). Most steps only let something go; what they have in common
is `Loosens`, and `LoosensData` deals with all of them at once. The steps that do
more have a lemma each: `ReadData`, `IssuesData`, `ReplacesData`, `RedatesData`,
`RecordsData`, `DeletedData`.

`TableKept` is the refinement of `KeyTable`. It rests on three facts: the gateway
never forgets that it issued a key (`IssuedStays`), a request comes to hold a key
for the table only in the step that issues it (`RecordingIsFresh`), and nobody
else holds that key (`Unshared`); so what is used only grows, and storing a key is
the one step that names one.

Three more theorems say why requests end and what the violated promise rests on.
`NoHandlerLoops` gives a measure, `StepsLeft`, that every step of a request lowers
whatever fails, and `UnlockedOnEveryPath` proves `HeldByWork`; with timeouts and the
contract of the lock they are why every request is answered. `RollbackSuffices` proves `NoLeakedKey`, which
`key_lifecycle_disconnect` refutes, for `Faults` that are at most "database": the
rollback then removes every key that could not be stored (`NothingLost`), so a leak
takes a gateway that fails, a kill, or a client whose disconnection fails the
rollback too.

`LimitSync_proofs` proves, for all sets of users, profiles, keys and values, any
number of changes and every selection of changes and faults, that nobody is
without a profile and that `KeyInLine` holds. `SyncAssumption` says what is taken
of the constants: the markers for "none" are none of the values, there is a name
and a value of `s`, and the owners are users. `KeyInLine` speaks of rows, profiles
and gateway keys only and is not inductive; `IInv` adds what the tasks under way
must not be able to spoil:

* `ProfilesStand`: the default profile and every assigned one exist, and
  revisions of living profiles start at 1, so 0 (a resync) matches none.
* `TasksRead`: a push or a `GenerateKey` that read a profile is behind its
  revision, or has its very limits. This is where the order of the two reads in
  `GetProfile` matters: revision first, windows second, so a torn read is always
  behind. The lemma `ProfilesGoOn` is the fact about the transactions that keeps
  it: no edit lowers a revision, and none changes a limit without raising it.
* `KeysApart`: no two users' rows and tasks are about the same key, and the key
  `GenerateKey` is about to store, or to revoke, is not the row's.
* `Carried`: what a task wrote to its key is still there when it records it, as
  long as the row is about that key.
* `RowsTell`: what a row says of its key is so, by revision and not by name of
  the profile, which is what survives edits and moves in between.

Each conjunct has a lemma per group of steps (`TypeNext`, `StandNext`,
`ReadNext`, `ApartNext`, `TellAdmin` to `TellUser`), and lemmas named `...Does`
say first what a single step makes of a task or a row.

`AllowancesInLine` proves `OwnerInLine` under one assumption, that `Changes` has
neither "generate" nor "regenerate" (`NoneGenerated`), for all faults and changes
that are left, where its run has a few of them. `OwnersTold` is the invariant: a
push that has written the owner still finds there what it wrote (`OwnerCarried`),
its row is the one it started from (`OnItsRow`), and a key that is on record and
its owner have the same windows (`OwnerTells`). With `KeyInLine` the rest follows.

`NoKickIsLost` is the safety half of `NothingForgotten`: while the sync waits and no
kick is pending, whatever is out of date has failed and says so in its row. It
assumes `HandlersOnly`, which names the three cases in which the code counts on the
interval: a key generated while its profile changes (`GenerateKey` does not kick),
the command `-resync-limits`, whose marks no running server is told of, and a
statement that fails during a run. `Idle` is what makes it inductive: a run's tasks
are done when it waits, and `NothingLeft` that a run that fetches an empty batch
leaves nothing behind. `LimitsArrive` proves `LimitsInLine`, which
`limit_sync_race` refutes, where no key is generated and nothing fails; `Accounted`
says that what a push has written to the gateway is on record by then, or its key
marked as missing or out of date. The run and the theorem together say that without a failure it takes a
`GenerateKey` to leave an owner with the wrong allowance.

`ProfileExpiry_proofs` proves the four safety properties of `ProfileExpiry` for
all users, profiles and keys and any number of edits and restarts, assuming that
there is a user and that the default profile is one of the profiles. None of the
four is inductive alone. `IInv` adds that a key the runner holds is gone from the
gateway by the time it turns to the row (`HeldKey`), so dropping the row strands
nothing; and that a user who was reverted has no deadline and is neither under
way nor on the list (`RevertedIsSettled`, `TakenOff`), so nobody is reverted
twice however old the list is. Assignments change under the runner all the time;
the lemma `AdminIInv` is short because `IInv` never says that the runner's copy
of an assignment is still the assignment.

`SwitchOwesAPush` is the safety half of `SwitchIsPushed`: who was switched since a
limit sync began has a kick waiting, or a run under way that remembers it owes one
(`PushDue`). `SwitchRemembered` says that no later user of the run, failing or not,
makes it forget. `TableKept` is the refinement of `KeyTable`; it needs of the
invariant only that a key in a row was issued (`RowsIssued`), because the runner
drops a row by the key it read or not at all.

`Reminder_proofs` proves `AtMostOnce` and `NoticeIsHonest` for all users,
thresholds, durations, edits and faults. Neither is inductive: a second mail is
prevented by the notice, and between the mail and the notice by nothing but where
the runner is. `IInv` adds that a copy of a key is listed once (`OneCopy`), that
what is listed has no notice as long as it is about the present date
(`Untouched`), that every delivery is on record, about to be, or loose
(`Accounted`), and that dates are never used again (`Numbered`), which makes a
late mail about an old date harmless.

`SignIn_proofs` proves the invariants of `sign_in` and `LastRemovalIsCrossed` for all
people, tabs, logins and faults. `Carries` says what a request holds at each
place, `OneLogin` that an ID token has one login in flight and no session or
cookie before that login ends, `Overlapping` that of two logins of a person both
are marked, `Followed` that the token a flag follows is its person's, and `Gated`
what the middleware has made sure of. `CutOff` needs `OneLogin`: only a login in
flight creates a session, and one in flight is not among the `ended`.

`Quota_proofs` proves the four properties of `quota` for all forms, hence for
lists of any length, and for all costs and counters. Its first part is about the
operators: what a saved form is (`SavedIs`), that it has a widest window and what
that leaves (`WidestIs`, `RestIs`), that its windows can take effect (`CanBind`).
The second is the invariant: `Settled` says what a task has brought about so far,
`OwnerShape` and `KeyShape` which shapes the gateway's records can have, and
`SteadyOwner` that within a steady period all that is spent is counted against the
owner, which is what makes a new key gain nothing. The third derives where
windows are enforced (`Placed`) and what the dashboard says: `BindingIs` needs a
window with the highest percentage to exist, which follows from `<` being
well-founded on the naturals.

The assumptions on the constants (`LockAssumption`, `LifecycleAssumption`,
`SyncAssumption`, `ExpiryAssumption`, `ReminderAssumption`, `SignInAssumption`,
`QuotaAssumption`) are all that is assumed, and TLC evaluates them in every run,
except by the theorems that speak of fewer changes or faults and say so in their
ASSUME: `AllowancesInLine`, `NoKickIsLost`, `LimitsArrive`, `RollbackSuffices`. The
theorems of `KeyTable_proofs` assume that the mark for no key is no key, which
`LifecycleAssumption` and `ExpiryAssumption` contain.

Only model-checked: `WaiterIsServed`, `RunEnds`, `NothingForgotten`, `Reverts`,
`SwitchIsPushed` and `Warned`, the properties under fairness, which is out of the
prover's reach as ENABLED is. Of `WaiterIsServed`, `NothingForgotten` and
`SwitchIsPushed` the safety they rest on is proved (`NoStuckToken`, `NoKickIsLost`,
`SwitchOwesAPush`). `GoneDestinationFallsBack`, which a run refutes, is under fairness
too. That the handlers' lock is `UserMutex` is part of `KeyLifecycle` by
construction, and that `keylock.go` is one is the theorem `Implementation`.

## Not modelled

* The one-time key display and the read caches: small maps, each under one mutex
  held for the whole operation.
* CSRF tokens are a function of a cookie and a secret; signatures and the
  contents of tokens are checked by a library.
* The spend log: pages of it are added up for a chart and nothing depends on
  them. A key's duration is sent in whole days, rounded up (`client.go:64,160`), so
  the gateway's date is up to a day after the portal's; dates here are days or
  numbers of edits.
* The audit log: its rows are written and never read to decide anything.
* That a missing marker settles in the end (the key returns and is unmarked, or its
  row is removed): `KeyLifecycle` has every step of the check, but no run states it.
* Changes made in the gateway behind the portal's back, except lost keys: the
  portal promises nothing about them but the resync, whose marks are in
  `LimitSync`.
* Configuration, metrics, translations, pages, mail text, migrations: parsing,
  wording and layout, run once or without state the rest depends on.
